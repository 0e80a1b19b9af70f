-------------------------------- MODULE Ide ---------------------------------
(***************************************************************************)
(* The IDE channel of the LIDE board: a hard disk as device 0, the ATAPI   *)
(* drive as device 1, one set of task registers, one transfer buffer.      *)
(* src/harness/expansions/ata_ide.c, lide.c                                *)
(*                                                                         *)
(* The guest polls: nothing but its own accesses moves the channel, and    *)
(* any access may come in any state.  The two upper address registers also *)
(* carry the ATAPI signature and the byte count; as an address both lie    *)
(* beyond the small disk of the model.                                     *)
(***************************************************************************)
EXTENDS Atapi

CONSTANTS
    DiskSectors,   \* sectors of the hard disk image
    SectorWords,   \* words of a disk sector (256)
    FullCount,     \* sectors a sector count of 0 stands for (256)
    PktWords,      \* words of a packet (6)
    IdeWords,      \* words the guest writes
    IdeCounts,     \* sector counts the guest asks for
    MaxIdeOps      \* bound: commands and attachments

ASSUME IdeAssumption ==
    /\ DiskSectors \in Nat \ {0} /\ SectorWords \in Nat \ {0} /\ PktWords \in Nat \ {0}
    /\ FullCount \in Nat \ {0} /\ IdeCounts \subseteq Nat

VARIABLES
    ch,       \* AtaIdeChannel
    cd,       \* AtapiCdromState
    hdf,      \* the image: [attached, words]
    asked,    \* history: the disk transfer the guest asked for last, and its words
    pktFailed,\* history: the last packet failed and nothing was asked since
    unflushed,\* history: fflush failed as a disk write ended, and nothing was asked since
    ideOps

ideVars == <<ch, cd, hdf, asked, pktFailed, unflushed, ideOps>>

Transfers == {"IDENTIFY", "ATAPI_DATA_IN", "DATA_IN"}
(* Values of the upper address registers that are no address.              *)
BYTES == 1
SIGNATURE == 2

IR_COD == 1
IR_IO == 2

DiskWords == DiskSectors * SectorWords

IdeTypeOK ==
    /\ ch.state \in Transfers \cup {"IDLE", "ATAPI_CMD", "DATA_OUT"}
    /\ ch.status \subseteq {"RDY", "DRQ", "ERR"} /\ "RDY" \in ch.status
    /\ ch.error \in {"OK", "DIAG", "ABRT"} /\ ch.dev \in {0, 1}
    /\ ch.lba_low \in 0..DiskSectors /\ ch.lba_high \in {0, SIGNATURE, BYTES}
    /\ ch.sector_count \in Nat
    /\ ch.pos \in 0..Len(ch.buf) /\ ch.len \in 0..Len(ch.buf) /\ ch.pkt_pos \in 0..PktWords
    /\ ch.wr_lba + ch.wr_count <= DiskSectors
    /\ cd \in AtapiCdromState
    /\ hdf.attached \in BOOLEAN /\ DOMAIN hdf.words = 1..DiskWords

(* ata_ide_channel_reset *)
channel_reset(c) ==
    [c EXCEPT !.error = "DIAG", !.status = {"RDY"}, !.lba_low = 0,
              !.lba_high = SIGNATURE, !.sector_count = 0, !.dev = 0, !.state = "IDLE",
              !.len = 0, !.pos = 0, !.pkt_pos = 0]

channel_init ==
    channel_reset([error |-> "OK", status |-> {}, lba_low |-> 0, lba_high |-> 0,
                   sector_count |-> 0, dev |-> 0, state |-> "IDLE", buf |-> <<>>,
                   len |-> 0, pos |-> 0, pkt_pos |-> 0, wr_lba |-> 0, wr_count |-> 0])

NothingAsked == [dir |-> "none", lba |-> 0, words |-> 0, moved |-> <<>>,
                 spoilt |-> FALSE]

IdeInit ==
    /\ ch = channel_init /\ cd = atapi_init
    /\ hdf = [attached |-> FALSE, words |-> [i \in 1..DiskWords |-> i]]
    /\ asked = NothingAsked /\ pktFailed = FALSE /\ unflushed = FALSE /\ ideOps = 0

IdeOp == ideOps < MaxIdeOps /\ ideOps' = ideOps + 1

-----------------------------------------------------------------------------
(* Commands.                                                               *)

abort(c) == [c EXCEPT !.error = "ABRT", !.status = {"RDY", "ERR"}]

(* The buffer is filled and the guest may move it.                         *)
start(c, state, words) ==
    [c EXCEPT !.state = state, !.buf = words, !.len = Len(words), !.pos = 0,
              !.status = {"RDY", "DRQ"}, !.error = "OK"]

(* build_identify, build_identify_disk: the reply, tagged.                 *)
Identity(dev) == <<"IDENTITY", dev>>

device_reset(c, high) ==
    [channel_reset(c) EXCEPT !.dev = c.dev, !.lba_high = high]

sectors_asked(c) == IF c.sector_count = 0 THEN FullCount ELSE c.sector_count

out_of_range(c) == c.lba_high # 0 \/ c.lba_low + sectors_asked(c) > DiskSectors

DiskRead(lba, count) ==
    [i \in 1..(count * SectorWords) |-> hdf.words[lba * SectorWords + i]]

(* got: how many words the host file gives.  A read that comes short has   *)
(* already been over the buffer.                                           *)
short_read(c, got) ==
    [abort(c) EXCEPT !.buf = [i \in DOMAIN @ |->
        IF i <= got THEN hdf.words[c.lba_low * SectorWords + i] ELSE @[i]]]

read_sectors(c, got) ==
    IF out_of_range(c) THEN abort(c)
    ELSE IF got < sectors_asked(c) * SectorWords THEN short_read(c, got)
    ELSE start(c, "DATA_IN", DiskRead(c.lba_low, sectors_asked(c)))

(* The buffer is written over word by word before it is flushed.           *)
write_sectors(c) ==
    IF out_of_range(c) THEN abort(c)
    ELSE [start(c, "DATA_OUT", [i \in 1..(sectors_asked(c) * SectorWords) |-> 0])
            EXCEPT !.wr_lba = c.lba_low, !.wr_count = sectors_asked(c)]

(* execute_disk_command *)
execute_disk_command(c, cmd, got) ==
    CASE cmd = "DEVICE_RESET" -> device_reset(c, 0)
      [] cmd = "IDENTIFY_DEVICE" -> start(c, "DATA_IN", Identity(0))
      [] cmd = "SET_FEATURES" -> [c EXCEPT !.status = {"RDY"}, !.error = "OK"]
      [] cmd = "READ_SECTORS" -> read_sectors(c, got)
      [] cmd = "WRITE_SECTORS" -> write_sectors(c)
      [] OTHER -> abort(c)

(* execute_command with the CD drive selected.                             *)
execute_cd_command(c, cmd) ==
    CASE cmd = "DEVICE_RESET" -> device_reset(c, SIGNATURE)
      [] cmd = "IDENTIFY_DEVICE" -> [abort(c) EXCEPT !.lba_high = SIGNATURE]
      [] cmd = "IDENTIFY_PACKET" -> [start(c, "IDENTIFY", Identity(1)) EXCEPT !.lba_high = BYTES]
      [] cmd = "PACKET" -> [c EXCEPT !.state = "ATAPI_CMD", !.pkt_pos = 0,
                                     !.status = {"RDY", "DRQ"}, !.error = "OK",
                                     !.sector_count = IR_COD]
      [] OTHER -> abort(c)

execute_command(c, cmd, got) ==
    IF c.dev = 1 THEN execute_cd_command(c, cmd)
    ELSE IF hdf.attached THEN execute_disk_command(c, cmd, got)
    ELSE [abort(c) EXCEPT !.lba_high = 0]

IdeCommands == {"DEVICE_RESET", "IDENTIFY_DEVICE", "IDENTIFY_PACKET", "SET_FEATURES",
                "READ_SECTORS", "WRITE_SECTORS", "PACKET", "UNKNOWN"}

(* What the guest may now expect of the data port: a command that is       *)
(* refused, or moves no data, leaves a transfer in progress as it was.     *)
Ask(c, cmd, next) ==
    IF cmd \in {"READ_SECTORS", "WRITE_SECTORS"} /\ "DRQ" \in next.status
    THEN [dir |-> IF cmd = "READ_SECTORS" THEN "in" ELSE "out", lba |-> c.lba_low,
          words |-> sectors_asked(c) * SectorWords, moved |-> <<>>, spoilt |-> FALSE]
    ELSE IF next.state \notin {"DATA_IN", "DATA_OUT"} \/ "DRQ" \in next.status
    THEN NothingAsked
    ELSE [asked EXCEPT !.spoilt = @ \/ (cmd = "READ_SECTORS" /\ c.dev = 0 /\ ~out_of_range(c))]

(* ata_ide_write8, register 7.                                             *)
WriteCommand(cmd) ==
    /\ IdeOp
    /\ \E got \in IF cmd = "READ_SECTORS" THEN 0..DiskWords ELSE {DiskWords} :
         \E next \in {execute_command(ch, cmd, got)} :
            ch' = next /\ asked' = Ask(ch, cmd, next)
    /\ cd' = IF ch.dev = 1 /\ cmd = "DEVICE_RESET" THEN atapi_reset(cd) ELSE cd
    /\ pktFailed' = (pktFailed /\ ~(ch.dev = 1 /\ cmd = "DEVICE_RESET"))
    /\ unflushed' = FALSE /\ UNCHANGED hdf

(* The other task registers: device and address, then the sector count.    *)
WriteTaskFile(dev, lba, count) ==
    /\ [ch EXCEPT !.dev = dev, !.lba_low = lba, !.lba_high = 0, !.sector_count = count] # ch
    /\ ch' = [ch EXCEPT !.dev = dev, !.lba_low = lba, !.lba_high = 0, !.sector_count = count]
    /\ UNCHANGED <<cd, hdf, asked, pktFailed, unflushed, ideOps>>

WriteDevice(dev) ==
    /\ ch.dev # dev /\ ch' = [ch EXCEPT !.dev = dev]
    /\ UNCHANGED <<cd, hdf, asked, pktFailed, unflushed, ideOps>>

-----------------------------------------------------------------------------
(* The data port.                                                          *)

transfer_done(c) == [c EXCEPT !.state = "IDLE", !.status = {"RDY"}, !.len = 0, !.pos = 0]

(* Mutant: the pointer moves before the word is taken.                     *)
next_word_Skips(c) == c.buf[IF c.pos + 2 <= c.len THEN c.pos + 2 ELSE c.pos + 1]

next_word(c) == c.buf[c.pos + 1]

(* ata_ide_read16; the last word of a transfer ends it.                    *)
ReadData ==
    /\ ch.state \in Transfers /\ ch.pos < ch.len
    /\ asked' = IF asked.dir = "in" THEN [asked EXCEPT !.moved = Append(@, next_word(ch))]
                ELSE asked
    /\ ch' = IF ch.pos + 1 < ch.len THEN [ch EXCEPT !.pos = @ + 1]
             ELSE IF ch.state = "ATAPI_DATA_IN"
             THEN [transfer_done(ch) EXCEPT !.sector_count = IR_IO + IR_COD]
             ELSE transfer_done(ch)
    /\ UNCHANGED <<cd, hdf, pktFailed, unflushed, ideOps>>

(* The image with the first n sectors of a write on it.                    *)
Written(n, buf) ==
    [hdf EXCEPT !.words = [i \in 1..DiskWords |->
        IF i \in (ch.wr_lba * SectorWords + 1)..((ch.wr_lba + n) * SectorWords)
        THEN buf[i - ch.wr_lba * SectorWords] ELSE @[i]]]

(* Mutant: a flush that failed is not reported.                            *)
flushed_Silent(c, io) == [transfer_done(c) EXCEPT !.error = "OK"]

flushed(c, io) ==
    [transfer_done(c) EXCEPT !.status = IF io THEN {"RDY"} ELSE {"RDY", "ERR"},
                             !.error = IF io THEN "OK" ELSE "ABRT"]

(* hdf_write of the whole buffer: seek, write and flush succeed; or the    *)
(* seek or the write fails (io FALSE) and is reported; or only the flush   *)
(* fails (io TRUE), whose result hdf_write does not look at.  When one of  *)
(* them fails, some of the sectors are on the image: stdio drops the rest. *)
hdf_write(c) ==
    \/ ch' = flushed(c, TRUE) /\ hdf' = Written(ch.wr_count, c.buf) /\ unflushed' = FALSE
    \/ \E n \in 0..ch.wr_count, io \in BOOLEAN :
         ch' = flushed(c, io) /\ hdf' = Written(n, c.buf) /\ unflushed' = io

(* ata_ide_write16 in a disk write; the last word is followed by the flush.*)
WriteData(w) ==
    /\ ch.state = "DATA_OUT" /\ ch.pos < ch.len
    /\ \E c \in {[ch EXCEPT !.buf[ch.pos + 1] = w, !.pos = @ + 1]} :
         \/ c.pos < c.len /\ ch' = c /\ UNCHANGED <<hdf, unflushed>>
         \/ c.pos = c.len /\ hdf_write(c)
    /\ asked' = [asked EXCEPT !.moved = Append(@, w)]
    /\ UNCHANGED <<cd, pktFailed, ideOps>>

(* execute_atapi_packet *)
packet_result(c, r) ==
    IF r.failed \/ r.data = <<>>
    THEN [c EXCEPT !.state = "IDLE", !.sector_count = IR_IO + IR_COD,
                   !.status = IF r.failed THEN {"RDY", "ERR"} ELSE {"RDY"},
                   !.error = IF r.failed THEN "ABRT" ELSE @]
    ELSE [start(c, "ATAPI_DATA_IN", r.data) EXCEPT !.lba_high = BYTES, !.sector_count = IR_IO]

(* ata_ide_write16 in the packet phase; the whole packet is there with its *)
(* last word.                                                              *)
WritePacketWord ==
    /\ ch.state = "ATAPI_CMD" /\ ch.pkt_pos + 1 < PktWords
    /\ ch' = [ch EXCEPT !.pkt_pos = @ + 1]
    /\ UNCHANGED <<cd, hdf, asked, pktFailed, unflushed, ideOps>>

WriteLastPacketWord(p) ==
    /\ ch.state = "ATAPI_CMD" /\ ch.pkt_pos + 1 = PktWords
    /\ \E io \in BOOLEAN : (io \/ p.op = "READ") /\
         \E r \in {atapi_cdrom_exec(cd, p, io)} :
            /\ ch' = packet_result([ch EXCEPT !.pkt_pos = PktWords], r)
            /\ cd' = r.cd /\ pktFailed' = r.failed
    /\ UNCHANGED <<hdf, asked, unflushed, ideOps>>

-----------------------------------------------------------------------------
(* The host.                                                               *)
AttachHdf ==
    /\ IdeOp /\ ~hdf.attached
    /\ hdf' = [hdf EXCEPT !.attached = TRUE] /\ ch' = channel_reset(ch)
    /\ asked' = NothingAsked /\ unflushed' = FALSE /\ UNCHANGED <<cd, pktFailed>>

AttachIso ==
    /\ IdeOp /\ ~cd.present
    /\ cd' = atapi_insert(cd) /\ ch' = channel_reset(ch)
    /\ asked' = NothingAsked /\ unflushed' = FALSE /\ UNCHANGED <<hdf, pktFailed>>

IdeNext ==
    \/ \E cmd \in IdeCommands : WriteCommand(cmd)
    \/ \E lba \in 0..(DiskSectors - 1), count \in IdeCounts : WriteTaskFile(0, lba, count)
    \/ \E dev \in {0, 1} : WriteDevice(dev)
    \/ ReadData \/ \E w \in IdeWords : WriteData(w)
    \/ WritePacketWord
    \/ \E p \in Packets(0..CdSectors, 0..(BufSectors + 1)) : WriteLastPacketWord(p)
    \/ AttachHdf \/ AttachIso

IdeSpec == IdeInit /\ [][IdeNext]_ideVars

-----------------------------------------------------------------------------
(* A guest that sees DRQ can move a word: the status never asks for a      *)
(* transfer that the channel does not have.                                *)
DrqMeansTransfer ==
    "DRQ" \in ch.status => \/ ch.state \in Transfers \cup {"DATA_OUT"} /\ ch.pos < ch.len
                           \/ ch.state = "ATAPI_CMD" /\ ch.pkt_pos < PktWords

(* The words of a disk read are those of the sectors asked for, in order   *)
(* and no more, whatever commands for either device came in between; only  *)
(* a read that fails on the host can spoil the buffer of another transfer. *)
ReadsTheDisk ==
    asked.dir = "in" /\ ~asked.spoilt =>
        /\ Len(asked.moved) <= asked.words
        /\ \A i \in 1..Len(asked.moved) :
              asked.moved[i] = hdf.words[asked.lba * SectorWords + i]

(* The image changes only with the last word of a write the guest asked    *)
(* for, only in its sectors, only to the words of that write.  A write     *)
(* that ends without an error is on it completely unless the host's fflush *)
(* failed: that is the one loss the guest is not told of (hdf_write, whose *)
(* caller reports every other failure).  A read that failed on the host    *)
(* may spoil the buffer on the way.                                        *)
WritesTheDisk ==
    [][asked.spoilt \/
       LET at(i) == i - asked.lba * SectorWords
           ended == ch.state = "DATA_OUT" /\ ch'.state = "IDLE" /\ asked'.dir = "out"
       IN /\ hdf'.words # hdf.words => ended
          /\ ended =>
               /\ Len(asked'.moved) = asked.words
               /\ \A i \in 1..DiskWords :
                    \/ hdf'.words[i] = hdf.words[i]
                       /\ ("ERR" \in ch'.status \/ unflushed' \/ at(i) \notin 1..asked.words)
                    \/ at(i) \in 1..asked.words /\ hdf'.words[i] = asked'.moved[at(i)]]_ideVars

(* A packet that failed has left a sense for REQUEST SENSE to report.      *)
FailureHasSense == pktFailed => cd.sense # "NO_SENSE"

(* The channel is well formed, asks only for transfers it has, delivers    *)
(* the sectors asked for, and has a sense for every failure.               *)
TransfersExact ==
    /\ IdeTypeOK
    /\ DrqMeansTransfer
    /\ ReadsTheDisk
    /\ FailureHasSense
=============================================================================
