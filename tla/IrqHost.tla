------------------------------- MODULE IrqHost -------------------------------
(***************************************************************************)
(* Interrupt delivery: Paula's interrupt domain, the ICRs of both CIAs and *)
(* a host that owns the processor and mirrors Rigel's IPL into it.         *)
(*                                                                         *)
(* The chips are the operators of Interrupts.  The host is harness.c when  *)
(* PublishOn = "level" (harness_sync_ipl after every advance and access)   *)
(* and the loop of README.md when PublishOn = "event" (the level is handed *)
(* over only when rigel_step reports RIGEL_EVENT_IRQ_CHANGED).             *)
(*                                                                         *)
(* The guest program is external.  Its handlers acknowledge INTREQ first   *)
(* and read the CIA's ICR second; outside handlers it writes INTENA, sets  *)
(* INTREQ bits and writes the ICR masks as it likes.                       *)
(***************************************************************************)
EXTENDS Interrupts

CONSTANTS
    ChipSources,  \* INTREQ bits that rigel_step raises directly (not via a CIA)
    Events,       \* ICR events that a CIA raises
    Enables,      \* the masks the guest writes to INTENA
    PublishOn,    \* "level" or "event"
    MaxEvents,    \* bound: chip and CIA events per behaviour
    MaxWrites     \* bound: register writes of the guest outside handlers

ASSUME ConstantsAssumption ==
    /\ ChipSources \subseteq Requests \ {"PORTS", "EXTER"}
    /\ Events \subseteq IcrBits
    /\ Enables \subseteq SUBSET IntBits
    /\ PublishOn \in {"level", "event"}
    /\ MaxEvents \in Nat
    /\ MaxWrites \in Nat

VARIABLES
    irq,       \* chipset.paula.interrupts
    cia,       \* chipset.cia[0], chipset.cia[1]: the interrupt fields
    last_ipl,  \* the level the processor core was last given
    cpu,       \* where the guest is: "run", "handler", or reading ICR "A"/"B"
    level,     \* the level the handler was entered at
    events,    \* events so far
    writes     \* guest writes so far

vars == <<irq, cia, last_ipl, cpu, level, events, writes>>

TypeOK ==
    /\ irq \in InterruptDomain
    /\ cia \in [Cias -> CiaIcr]
    /\ last_ipl \in 0..6
    /\ cpu \in {"run", "handler"} \cup Cias
    /\ level \in 0..6
    /\ events \in 0..MaxEvents
    /\ writes \in 0..MaxWrites

Init ==
    /\ irq = irq_reset
    /\ cia = [c \in Cias |-> cia_icr_reset]
    /\ last_ipl = 0
    /\ cpu = "run"
    /\ level = 0
    /\ events = 0
    /\ writes = 0

(* What the host tells the processor after a rigel_step, and after a       *)
(* register access.  In README.md an access publishes nothing.             *)
PublishStep(ipl) ==
    last_ipl' = IF PublishOn = "event" /\ ipl = irq.ipl THEN last_ipl ELSE ipl

PublishAccess(ipl) == last_ipl' = IF PublishOn = "level" THEN ipl ELSE last_ipl

-----------------------------------------------------------------------------
(* rigel_step that ends with no new request: still an advance to publish.  *)
StepQuiet ==
    /\ PublishStep(irq.ipl)
    /\ UNCHANGED <<irq, cia, cpu, level, events, writes>>

(* rigel_step in which Agnus or Paula raises a source of its own.          *)
StepChip(s) ==
    /\ events < MaxEvents
    /\ events' = events + 1
    /\ irq' = irq_raise(irq, {s})
    /\ PublishStep(irq'.ipl)
    /\ UNCHANGED <<cia, cpu, level, writes>>

(* rigel_step in which a CIA timer, alarm, serial port or FLAG edge fires. *)
StepCia(c, e) ==
    /\ events < MaxEvents
    /\ events' = events + 1
    /\ cia' = [cia EXCEPT ![c] = cia_raise(cia[c], {e})]
    /\ irq' = sync_paula(irq, c, cia'[c])
    /\ PublishStep(irq'.ipl)
    /\ UNCHANGED <<cpu, level, writes>>

-----------------------------------------------------------------------------
(* The guest, outside handlers.                                            *)

WriteIntena(value) ==
    /\ cpu = "run"
    /\ writes < MaxWrites
    /\ writes' = writes + 1
    /\ irq' = write_intena(irq, value)
    /\ PublishAccess(irq'.ipl)
    /\ UNCHANGED <<cia, cpu, level, events>>

(* A request made by software, a CIA bit included; the next event of that  *)
(* CIA that is not enabled takes such a bit away again.                    *)
SetIntreq(s) ==
    /\ cpu = "run"
    /\ writes < MaxWrites
    /\ writes' = writes + 1
    /\ irq' = write_intreq(irq, [setclr |-> TRUE, bits |-> {s}])
    /\ PublishAccess(irq'.ipl)
    /\ UNCHANGED <<cia, cpu, level, events>>

(* Mutant: enabling an event that is already latched does not reach Paula. *)
WriteIcr_NoSync(c, value) ==
    /\ cpu = "run"
    /\ writes < MaxWrites
    /\ writes' = writes + 1
    /\ cia' = [cia EXCEPT ![c] = cia_write_icr(cia[c], value)]
    /\ UNCHANGED <<irq, last_ipl, cpu, level, events>>

WriteIcr(c, value) ==
    /\ cpu = "run"
    /\ writes < MaxWrites
    /\ writes' = writes + 1
    /\ cia' = [cia EXCEPT ![c] = cia_write_icr(cia[c], value)]
    /\ irq' = sync_paula(irq, c, cia'[c])
    /\ PublishAccess(irq'.ipl)
    /\ UNCHANGED <<cpu, level, events>>

-----------------------------------------------------------------------------
(* The guest's interrupt handler.                                          *)

Enter ==
    /\ cpu = "run"
    /\ last_ipl > 0
    /\ cpu' = "handler"
    /\ level' = last_ipl
    /\ UNCHANGED <<irq, cia, last_ipl, events, writes>>

Serviceable == {s \in Live(irq) : Level[s] = level}

(* Clear one request of this level; a CIA request goes on to its ICR.      *)
Acknowledge(s) ==
    /\ cpu = "handler"
    /\ s \in Serviceable
    /\ irq' = write_intreq(irq, [setclr |-> FALSE, bits |-> {s}])
    /\ PublishAccess(irq'.ipl)
    /\ cpu' = CASE s = "PORTS" -> "A" [] s = "EXTER" -> "B" [] OTHER -> "run"
    /\ UNCHANGED <<cia, level, events, writes>>

(* Nothing at this level to serve: return from the exception.              *)
Spurious ==
    /\ cpu = "handler"
    /\ Serviceable = {}
    /\ cpu' = "run"
    /\ UNCHANGED <<irq, cia, last_ipl, level, events, writes>>

(* Mutant: the host does not republish the level after a CIA read.         *)
ReadIcr_NoSync(c) ==
    /\ cpu = c
    /\ cia' = [cia EXCEPT ![c] = cia_read_icr(cia[c])]
    /\ irq' = sync_paula(irq, c, cia'[c])
    /\ cpu' = "run"
    /\ UNCHANGED <<last_ipl, level, events, writes>>

ReadIcr(c) ==
    /\ cpu = c
    /\ cia' = [cia EXCEPT ![c] = cia_read_icr(cia[c])]
    /\ irq' = sync_paula(irq, c, cia'[c])
    /\ PublishAccess(irq'.ipl)
    /\ cpu' = "run"
    /\ UNCHANGED <<level, events, writes>>

Handler == Enter \/ (\E s \in Requests : Acknowledge(s)) \/ Spurious
           \/ (\E c \in Cias : ReadIcr(c))

Next ==
    \/ StepQuiet
    \/ \E s \in ChipSources : StepChip(s)
    \/ \E c \in Cias, e \in Events : StepCia(c, e)
    \/ \E b \in BOOLEAN, m \in Enables : WriteIntena([setclr |-> b, bits |-> m])
    \/ \E s \in ChipSources \cup {"PORTS", "EXTER"} : SetIntreq(s)
    \/ \E c \in Cias, b \in BOOLEAN, e \in Events :
           WriteIcr(c, [setclr |-> b, bits |-> {e}])
    \/ Enter
    \/ \E s \in Requests : Acknowledge(s)
    \/ Spurious
    \/ \E c \in Cias : ReadIcr(c)

(* The host loop keeps stepping and the processor keeps executing, so a    *)
(* handler that was entered runs to its end.                               *)
Spec == /\ Init /\ [][Next]_vars
        /\ WF_vars(Handler)
        /\ WF_vars(StepQuiet)

-----------------------------------------------------------------------------
(* The stored level of rigel_interrupt_domain_update is never stale: it is *)
(* the highest level among the requests that are enabled, 0 without INTEN. *)
IplIsHighest == IsHighestLevel(irq, irq.ipl)

(* harness_sync_ipl: the processor always holds the level Rigel reports,   *)
(* whatever mix of advances, ICR reads and register writes moved it.       *)
LevelMirrored == last_ipl = irq.ipl

(* A CIA with an enabled event latched in its ICR has its bit set in       *)
(* INTREQ, except while the guest, having acknowledged INTREQ, is on its   *)
(* way to read that ICR.  This is what cia_interrupt_sync_irq_line is for: *)
(* an event that fires between the acknowledge and the read is not lost.   *)
CiaEventNotLost ==
    \A c \in Cias :
        cia_irq_pending(cia[c]) => paula_irq_bit(c) \in irq.intreq \/ cpu = c

(* Every request that is enabled is eventually acknowledged or disabled:   *)
(* the level reaches the processor and the handler finds the request.      *)
RequestServed ==
    \A s \in Requests : (s \in Live(irq)) ~> (s \notin Live(irq))
=============================================================================
