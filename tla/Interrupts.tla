----------------------------- MODULE Interrupts -----------------------------
(***************************************************************************)
(* Paula's interrupt domain and the interrupt half of a CIA, as operators  *)
(* on the records that stand for RigelInterruptDomain and for the ICR      *)
(* fields of CIA_State.  A register is the set of the names of its bits    *)
(* that are 1.  The modules that compose the chips own the variables.      *)
(*                                                                         *)
(* src/src/domains/interrupt/interrupt_domain.c, src/src/cia/cia_interrupt.c *)
(***************************************************************************)
EXTENDS Integers

(* The request bits of INTREQ; INTEN (bit 14) is the master enable.        *)
Requests == {"TBE", "DSKBLK", "SOFT", "PORTS", "COPER", "VERTB", "BLIT",
             "AUD0", "AUD1", "AUD2", "AUD3", "RBF", "DSKSYN", "EXTER"}

IntBits == Requests \cup {"INTEN"}

IcrBits == {"TA", "TB", "ALRM", "SP", "FLG"}

Cias == {"A", "B"}

(* A write to a SET/CLR register: bit 15 (bit 7 of a CIA ICR) and the mask. *)
SetClrValue(bits) == [setclr: BOOLEAN, bits: SUBSET bits]

(* Mutant: the SET/CLR bit itself is stored (the 0x7fff mask is dropped).   *)
SetClr_Unmasked(reg, value) ==
    IF value.setclr THEN reg \cup value.bits \cup {"SETCLR"}
                    ELSE reg \ value.bits

SetClr(reg, value) ==
    IF value.setclr THEN reg \cup value.bits ELSE reg \ value.bits

InterruptDomain == [intreq: SUBSET IntBits, intena: SUBSET IntBits, ipl: 0..6]

CiaIcr == [icr_data: SUBSET IcrBits, icr_mask: SUBSET IcrBits,
           irq_asserted: BOOLEAN]

-----------------------------------------------------------------------------
(* rigel_interrupt_domain_*                                                 *)

compute_ipl(irq) ==
    LET pending == irq.intreq \cap irq.intena
        Any(S)  == pending \cap S # {}
    IN IF "INTEN" \notin irq.intena                   THEN 0
       ELSE IF Any({"EXTER"})                         THEN 6
       ELSE IF Any({"DSKSYN", "RBF"})                 THEN 5
       ELSE IF Any({"AUD0", "AUD1", "AUD2", "AUD3"})  THEN 4
       ELSE IF Any({"BLIT", "VERTB", "COPER"})        THEN 3
       ELSE IF Any({"PORTS"})                         THEN 2
       ELSE IF Any({"TBE", "DSKBLK", "SOFT"})         THEN 1
       ELSE 0

(* The level is stored: every operation on the domain ends with an update. *)
irq_update(irq) == [irq EXCEPT !.ipl = compute_ipl(irq)]

irq_reset == [intreq |-> {}, intena |-> {}, ipl |-> 0]

(* Mutant: the stored level is not refreshed.                              *)
write_intena_NoUpdate(irq, value) ==
    [irq EXCEPT !.intena = SetClr(irq.intena, value)]

write_intena(irq, value) ==
    irq_update([irq EXCEPT !.intena = SetClr(irq.intena, value)])

write_intreq(irq, value) ==
    irq_update([irq EXCEPT !.intreq = SetClr(irq.intreq, value)])

irq_raise(irq, mask) == irq_update([irq EXCEPT !.intreq = irq.intreq \cup mask])

(* Mutant: the stored level is not refreshed.                              *)
irq_clear_NoUpdate(irq, mask) == [irq EXCEPT !.intreq = irq.intreq \ mask]

irq_clear(irq, mask) == irq_update([irq EXCEPT !.intreq = irq.intreq \ mask])

-----------------------------------------------------------------------------
(* cia_interrupt_*.  The chip is attached to Paula (cia_attach_paula), so   *)
(* the line always drives the INTREQ bit of its chip.                      *)

paula_irq_bit(c) == IF c = "A" THEN "PORTS" ELSE "EXTER"

cia_icr_reset == [icr_data |-> {}, icr_mask |-> {}, irq_asserted |-> FALSE]

cia_irq_pending(chip) == chip.icr_data \cap chip.icr_mask # {}

(* cia_interrupt_sync_irq_line changes the chip and Paula: two operators.  *)
sync_irq_line(chip) == [chip EXCEPT !.irq_asserted = cia_irq_pending(chip)]

sync_paula(irq, c, chip) ==
    IF cia_irq_pending(chip) THEN irq_raise(irq, {paula_irq_bit(c)})
                             ELSE irq_clear(irq, {paula_irq_bit(c)})

cia_raise(chip, mask) ==
    sync_irq_line([chip EXCEPT !.icr_data = chip.icr_data \cup mask])

(* The value read has every latched event, plus IR when one is enabled.    *)
read_icr_value(chip) ==
    chip.icr_data \cup (IF cia_irq_pending(chip) THEN {"IR"} ELSE {})

cia_read_icr(chip) == sync_irq_line([chip EXCEPT !.icr_data = {}])

cia_write_icr(chip, value) ==
    sync_irq_line([chip EXCEPT !.icr_mask = SetClr(chip.icr_mask, value)])

-----------------------------------------------------------------------------
(* The processor level of each source, as the Amiga assigns it: the        *)
(* reference for compute_ipl, which never consults a table.                *)
Level ==
    [s \in Requests |->
        CASE s \in {"TBE", "DSKBLK", "SOFT"}         -> 1
          [] s = "PORTS"                             -> 2
          [] s \in {"COPER", "VERTB", "BLIT"}        -> 3
          [] s \in {"AUD0", "AUD1", "AUD2", "AUD3"}  -> 4
          [] s \in {"RBF", "DSKSYN"}                 -> 5
          [] s = "EXTER"                             -> 6]

(* Requests that are enabled, master enable included.                      *)
Live(irq) == IF "INTEN" \in irq.intena
             THEN irq.intreq \cap irq.intena \cap Requests
             ELSE {}

(* l is the highest level among the live requests, 0 when there is none.   *)
IsHighestLevel(irq, l) ==
    /\ \A s \in Live(irq) : Level[s] <= l
    /\ l = 0 \/ \E s \in Live(irq) : Level[s] = l
=============================================================================
