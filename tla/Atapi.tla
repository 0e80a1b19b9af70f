------------------------------- MODULE Atapi --------------------------------
(***************************************************************************)
(* The ATAPI CD-ROM behind the IDE channel: what each packet answers and   *)
(* which sense it leaves.  src/harness/expansions/atapi_cdrom.c            *)
(*                                                                         *)
(* A sense is named by its ASC; a reply is the words it carries (the       *)
(* layout of the fixed replies is not modelled).                           *)
(***************************************************************************)
EXTENDS Integers, Sequences

CONSTANTS
    CdSectors,      \* sectors of the disc
    CdSectorWords,  \* words of a CD sector (1024)
    BufSectors      \* CD sectors the transfer buffer holds (256)

ASSUME AtapiAssumption ==
    CdSectors \in Nat /\ CdSectorWords \in Nat \ {0} /\ BufSectors \in Nat \ {0}

Senses == {"NO_SENSE", "MEDIUM_NOT_PRESENT", "MEDIUM_CHANGED", "INVALID_COMMAND",
           "INVALID_FIELD", "OUT_OF_RANGE"}

AtapiCdromState == [present: BOOLEAN, sense: Senses, unit_attention: BOOLEAN]

atapi_init == [present |-> FALSE, sense |-> "NO_SENSE", unit_attention |-> FALSE]

(* atapi_cdrom_reset *)
atapi_reset(s) == [s EXCEPT !.sense = "NO_SENSE", !.unit_attention = s.present]

(* lide_attach_iso, atapi_cdrom_insert *)
atapi_insert(s) == [s EXCEPT !.present = TRUE, !.unit_attention = TRUE]

(* What the disc holds: word i of the disc is i.                           *)
CdRead(lba, count) == [i \in 1..(count * CdSectorWords) |-> lba * CdSectorWords + i]

(* The packets: the commands without parameters, and READ(10).             *)
PlainPackets == {"TEST_UNIT_READY", "REQUEST_SENSE", "INQUIRY", "START_STOP",
                 "READ_CAPACITY", "READ_TOC", "MODE_SENSE", "UNKNOWN"}

Packets(lbas, counts) ==
    [op: PlainPackets, lba: {0}, count: {0}] \cup [op: {"READ"}, lba: lbas, count: counts]

Done(s, words) == [cd |-> s, failed |-> FALSE, data |-> words]
Fail(s, sense) == [cd |-> [s EXCEPT !.sense = sense], failed |-> TRUE, data |-> <<>>]

cmd_test_unit_ready(s) ==
    IF ~s.present THEN Fail(s, "MEDIUM_NOT_PRESENT")
    ELSE IF s.unit_attention
    THEN Fail([s EXCEPT !.unit_attention = FALSE], "MEDIUM_CHANGED")
    ELSE Done([s EXCEPT !.sense = "NO_SENSE"], <<>>)

cmd_request_sense(s) == Done([s EXCEPT !.sense = "NO_SENSE"], <<"REQUEST_SENSE", s.sense>>)

(* cmd_read_capacity, cmd_read_toc *)
cmd_needs_medium(s, op) ==
    IF s.present THEN Done(s, <<op, op>>) ELSE Fail(s, "MEDIUM_NOT_PRESENT")

(* io: whether the host file can be read.  A short file is out of range.   *)
cmd_read_10(s, lba, count, io) ==
    IF ~s.present THEN Fail(s, "MEDIUM_NOT_PRESENT")
    ELSE IF count = 0 THEN Done(s, <<>>)
    ELSE IF count > BufSectors THEN Fail(s, "INVALID_FIELD")
    ELSE IF ~io \/ lba + count > CdSectors THEN Fail(s, "OUT_OF_RANGE")
    ELSE Done([s EXCEPT !.sense = "NO_SENSE"], CdRead(lba, count))

atapi_cdrom_exec(s, p, io) ==
    CASE p.op = "TEST_UNIT_READY" -> cmd_test_unit_ready(s)
      [] p.op = "REQUEST_SENSE" -> cmd_request_sense(s)
      [] p.op \in {"READ_CAPACITY", "READ_TOC"} -> cmd_needs_medium(s, p.op)
      [] p.op \in {"INQUIRY", "MODE_SENSE"} -> Done(s, <<p.op, p.op>>)
      [] p.op = "READ" -> cmd_read_10(s, p.lba, p.count, io)
      [] p.op = "START_STOP" -> Done(s, <<>>)
      [] p.op = "UNKNOWN" -> Fail(s, "INVALID_COMMAND")
=============================================================================
