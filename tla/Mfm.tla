-------------------------------- MODULE Mfm ---------------------------------
(***************************************************************************)
(* The MFM image of a track, which disk_start_dma encodes from the ADF     *)
(* into the buffer that the disk DMA reads.                                *)
(* src/src/floppy/floppy_mfm.c, src/src/chipset/paula/disk.c               *)
(*                                                                         *)
(* A longword is the set of its 1 bits, bit 31 the first on the disk.      *)
(***************************************************************************)
EXTENDS Integers, FiniteSets

CONSTANTS
    LabelLongs,   \* longwords of the sector label (8)
    DataLongs,    \* longwords of data in a sector (128)
    TrackSectors, \* sectors of a track (11)
    GapLongs,     \* whole longwords the buffer has beyond the sectors (415)
    MfmLongs,     \* longwords that data may hold
    MfmTracks     \* track numbers

ASSUME MfmAssumption ==
    /\ LabelLongs \in Nat /\ DataLongs \in Nat \ {0}
    /\ TrackSectors \in 1..255 /\ GapLongs \in Nat
    /\ MfmLongs \subseteq SUBSET (0..31) /\ MfmTracks \subseteq 0..255

VARIABLES
    adf,      \* the sectors of the tracks, as raw longwords (all tracks alike)
    encoded,  \* the track whose image is in the buffer; -1 before the first
    trackBuf  \* dma_track_buf: longword -> bits

mfmVars == <<adf, encoded, trackBuf>>

LongBits == 0..31
MFM_MASK == {b \in LongBits : b % 2 = 0}
CLOCKS == LongBits \ MFM_MASK
GAP_LONG == CLOCKS                      \* 0xAAAAAAAA
SYNC == {0, 3, 7, 10, 14}                   \* 0x4489
SYNCS == SYNC \cup {b + 16 : b \in SYNC}    \* 0x44894489

(* The odd bits, moved onto the even places, and the even bits.            *)
odd(v) == {b - 1 : b \in v \cap CLOCKS}
even(v) == v \cap MFM_MASK

(* Exclusive or of the longwords f[i] for i in I.                          *)
XorOf(f, I) == {b \in LongBits : Cardinality({i \in I : b \in f[i]}) % 2 = 1}

(* A number below 256 as the bits of the byte that starts at bit s.        *)
ByteBits(n, s) == {s + k : k \in {j \in 0..7 : (n \div 2^j) % 2 = 1}}

-----------------------------------------------------------------------------
(* Mutant: the clock before a longword ignores the bit that precedes it.   *)
clocks_NoCarry(prev, v) ==
    {p \in CLOCKS : (p = 31 \/ p + 1 \notin v) /\ p - 1 \notin v}

(* mfmcode_u32: a clock is 1 between two data bits that are 0; the bit     *)
(* before the first is the last of the longword before.                    *)
clocks(prev, v) ==
    {p \in CLOCKS : (IF p = 31 THEN 0 \notin prev ELSE p + 1 \notin v) /\ p - 1 \notin v}

(* The clocks of all longwords but the gap and the sync marks.             *)
mfmcode(raw) ==
    [i \in DOMAIN raw |->
        IF i < 2 THEN raw[i]
        ELSE even(raw[i]) \cup clocks(IF i = 2 THEN raw[1] ELSE even(raw[i - 1]), even(raw[i]))]

InfoLong(t, s) ==
    ByteBits(255, 24) \cup ByteBits(t % 256, 16) \cup ByteBits(s, 8) \cup ByteBits(TrackSectors - s, 0)

HeadLongs == 8 + LabelLongs
SectorLongs == HeadLongs + 2 * DataLongs

data_checksum(data) ==
    XorOf([i \in (DOMAIN data) \X {0, 1} |-> IF i[2] = 0 THEN odd(data[i[1]]) ELSE even(data[i[1]])],
          (DOMAIN data) \X {0, 1})

(* floppy_mfm_encode_sector: gap, sync marks, info, label, the checksums   *)
(* of header and data, then the odd halves of the data and the even ones.  *)
encode_sector(data, t, s) ==
    LET info == InfoLong(t, s)
        hck == XorOf(<<odd(info), even(info)>>, {1, 2})
        dck == data_checksum(data)
        after == 4 + LabelLongs
        raw == [i \in 0..(SectorLongs - 1) |->
            CASE i = 0 -> GAP_LONG
              [] i = 1 -> SYNCS
              [] i = 2 -> odd(info)
              [] i = 3 -> even(info)
              [] i \in 4..(after - 1) -> {}
              [] i = after -> odd(hck)
              [] i = after + 1 -> hck
              [] i = after + 2 -> odd(dck)
              [] i = after + 3 -> dck
              [] i \in HeadLongs..(HeadLongs + DataLongs - 1) -> odd(data[i - HeadLongs])
              [] OTHER -> even(data[i - HeadLongs - DataLongs])]
    IN mfmcode(raw)

LeadingGap == IF GapLongs > 1 THEN GapLongs - 1 ELSE 0
BufLongs == LeadingGap + TrackSectors * SectorLongs + (IF GapLongs > 0 THEN 1 ELSE 0)

(* The first bit of a sector's gap gives way to a 1 just before it.        *)
sector_gap(last) == IF 0 \in last THEN GAP_LONG \ {31} ELSE GAP_LONG

(* floppy_mfm_encode_track: a gap, the sectors, a clocked longword of 0.   *)
encode_track(data, t) ==
    LET sector == [s \in 0..(TrackSectors - 1) |-> encode_sector(data[s], t, s)]
        end == LeadingGap + TrackSectors * SectorLongs
        last == SectorLongs - 1
    IN [i \in 0..(BufLongs - 1) |->
          LET s == (i - LeadingGap) \div SectorLongs
              k == (i - LeadingGap) % SectorLongs
          IN CASE i < LeadingGap -> GAP_LONG
               [] i = end -> clocks(sector[TrackSectors - 1][last], {})
               [] i >= LeadingGap /\ i < end /\ k = 0 ->
                    sector_gap(IF s > 0 THEN sector[s - 1][last]
                               ELSE IF LeadingGap > 0 THEN GAP_LONG ELSE {})
               [] OTHER -> sector[s][k]]

-----------------------------------------------------------------------------
AdfContents == [0..(TrackSectors - 1) -> [0..(DataLongs - 1) -> MfmLongs]]

BlankAdf == [s \in 0..(TrackSectors - 1) |-> [i \in 0..(DataLongs - 1) |-> {}]]

(* The buffer comes zeroed with the context; disk_reset leaves it alone.   *)
MfmInit ==
    /\ adf \in AdfContents
    /\ encoded = -1 /\ trackBuf = [i \in 0..(BufLongs - 1) |-> {}]

(* A read of track t is started.                                           *)
EncodeTrack(t) ==
    /\ encoded' = t
    /\ trackBuf' = encode_track(adf, t)
    /\ UNCHANGED adf

MfmNext == \E t \in MfmTracks : EncodeTrack(t)

-----------------------------------------------------------------------------
(* The bit that is n-th on the disk.                                       *)
OnDisk(n) == (31 - (n % 32)) \in trackBuf[n \div 32]
DiskBits == 0..(32 * BufLongs - 1)

(* What is on the disk can be recorded: two 1 bits have one, two or three  *)
(* 0 bits between them, across all borders of halves, fields, sync marks,  *)
(* sectors and gaps.                                                       *)
MfmLegal ==
    encoded >= 0 =>
        \A n \in DiskBits :
            /\ n + 1 \in DiskBits => ~(OnDisk(n) /\ OnDisk(n + 1))
            /\ n + 3 \in DiskBits => \E k \in 0..3 : OnDisk(n + k)

SyncMarkAt(n) ==
    \A k \in 0..15 : OnDisk(n + k) <=> (15 - k) \in SYNC

(* disk_track_find_sync, which looks at every byte, finds a sync word at   *)
(* the two marks of each sector and nowhere in the data.                   *)
SyncOnlyAtSectors ==
    encoded >= 0 =>
        {n \in DiskBits : n % 8 = 0 /\ n + 15 \in DiskBits /\ SyncMarkAt(n)} =
            UNION {{32 * (LeadingGap + s * SectorLongs + 1) + 16 * m : m \in {0, 1}} :
                     s \in 0..(TrackSectors - 1)}

(* A longword from its halves, and the checksum of longwords read as they  *)
(* are on the disk (tests/test_mfm_decode.c).                              *)
Joined(o, e) == {b + 1 : b \in even(o)} \cup even(e)

ReadSum(I) == XorOf([i \in I |-> even(trackBuf[i])], I)

(* A reader gets back the track and sector number, the data, and checksums *)
(* that agree, of every sector.                                            *)
TrackDecodes ==
    encoded >= 0 =>
        \A s \in 0..(TrackSectors - 1) :
            LET at == LeadingGap + s * SectorLongs
                sums == at + 4 + LabelLongs
                first == at + HeadLongs
            IN /\ Joined(trackBuf[at + 2], trackBuf[at + 3]) = InfoLong(encoded, s)
               /\ Joined(trackBuf[sums], trackBuf[sums + 1])
                    = ReadSum((at + 2)..(at + 3 + LabelLongs))
               /\ Joined(trackBuf[sums + 2], trackBuf[sums + 3])
                    = ReadSum(first..(first + 2 * DataLongs - 1))
               /\ \A i \in 0..(DataLongs - 1) :
                     Joined(trackBuf[first + i], trackBuf[first + DataLongs + i]) = adf[s][i]

(* An encoded track is legal MFM, has its sync marks at the sectors only,  *)
(* and decodes to what was encoded.                                        *)
TrackReadable == MfmLegal /\ SyncOnlyAtSectors /\ TrackDecodes
=============================================================================
