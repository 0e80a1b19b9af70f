---------------------------- MODULE IrqHostProofs ----------------------------
(***************************************************************************)
(* Proofs about interrupt delivery, for every choice of chip sources, ICR  *)
(* events, INTENA masks and bounds; about the CIAs' time-of-day clock, for *)
(* every size of a byte and number of pulses; and about their timers and   *)
(* serial port, for every size of the registers and length of a step.      *)
(***************************************************************************)
EXTENDS IrqHost, CiaTod, CiaTimers, SequenceTheorems, Induction

(* compute_ipl returns the highest level among the live requests, although *)
(* it tests groups of bits in a cascade and knows no table of levels.      *)
LEMMA ComputeIplIsHighest ==
    ASSUME NEW r \in InterruptDomain
    PROVE  IsHighestLevel(r, compute_ipl(r))
<1> DEFINE l == compute_ipl(r)
<1>1. \A s \in Requests : Level[s] \in 1..6
  BY DEF Level, Requests
<1>2. CASE "INTEN" \notin r.intena
  BY <1>2 DEF IsHighestLevel, compute_ipl, Live
<1>3. CASE "INTEN" \in r.intena
  <2> DEFINE p == r.intreq \cap r.intena
  <2>1. Live(r) = p \cap Requests
    BY <1>3 DEF Live
  <2>2. \A s \in p \cap Requests : Level[s] <= l
    BY <1>3 DEF Level, Requests, compute_ipl
  <2>3. l = 0 \/ \E s \in p \cap Requests : Level[s] = l
    BY <1>3 DEF Level, Requests, compute_ipl
  <2> QED
    BY <2>1, <2>2, <2>3 DEF IsHighestLevel
<1> QED
  BY <1>2, <1>3

(* compute_ipl stays within the levels of the 68000.                       *)
LEMMA ComputeIplType ==
    ASSUME NEW r
    PROVE  compute_ipl(r) \in 0..6
BY DEF compute_ipl

(* irq_update stores the computed level and touches nothing else.          *)
LEMMA UpdateCaches ==
    ASSUME NEW b \in InterruptDomain
    PROVE  /\ irq_update(b) \in InterruptDomain
           /\ irq_update(b).intreq = b.intreq
           /\ irq_update(b).intena = b.intena
           /\ irq_update(b).ipl = compute_ipl(irq_update(b))
<1> DEFINE u == irq_update(b)
<1>1. compute_ipl(b) \in 0..6
  BY ComputeIplType
<1>2. u = [intreq |-> b.intreq, intena |-> b.intena, ipl |-> compute_ipl(b)]
  BY DEF InterruptDomain, irq_update
<1>3. compute_ipl(u) = compute_ipl(b)
  BY <1>2 DEF compute_ipl, InterruptDomain
<1> QED
  BY <1>1, <1>2, <1>3 DEF InterruptDomain

(* Changing INTREQ and updating yields a domain whose level is current.    *)
LEMMA IntreqOps ==
    ASSUME NEW r \in InterruptDomain, NEW q \in SUBSET IntBits
    PROVE  LET u == irq_update([r EXCEPT !.intreq = q])
           IN  u \in InterruptDomain /\ u.intreq = q /\ u.ipl = compute_ipl(u)
<1> DEFINE b == [r EXCEPT !.intreq = q]
<1>1. b \in InterruptDomain /\ b.intreq = q
  BY DEF InterruptDomain
<1> HIDE DEF b
<1>2. irq_update(b) \in InterruptDomain /\ irq_update(b).intreq = b.intreq
      /\ irq_update(b).ipl = compute_ipl(irq_update(b))
  BY <1>1, UpdateCaches
<1> QED
  BY <1>1, <1>2 DEF b

(* The same for INTENA.                                                    *)
LEMMA IntenaOps ==
    ASSUME NEW r \in InterruptDomain, NEW e \in SUBSET IntBits
    PROVE  LET u == irq_update([r EXCEPT !.intena = e])
           IN  u \in InterruptDomain /\ u.intreq = r.intreq
               /\ u.ipl = compute_ipl(u)
<1> DEFINE b == [r EXCEPT !.intena = e]
<1>1. b \in InterruptDomain /\ b.intreq = r.intreq
  BY DEF InterruptDomain
<1> HIDE DEF b
<1>2. irq_update(b) \in InterruptDomain /\ irq_update(b).intreq = b.intreq
      /\ irq_update(b).ipl = compute_ipl(irq_update(b))
  BY <1>1, UpdateCaches
<1> QED
  BY <1>1, <1>2 DEF b

(* A chip's ICR operations keep its type; the line follows the ICR.        *)
LEMMA CiaOps ==
    ASSUME NEW k \in CiaIcr, NEW m \in SUBSET IcrBits, NEW b \in BOOLEAN
    PROVE  /\ cia_raise(k, m) \in CiaIcr
           /\ cia_read_icr(k) \in CiaIcr
           /\ ~ cia_irq_pending(cia_read_icr(k))
           /\ cia_write_icr(k, [setclr |-> b, bits |-> m]) \in CiaIcr
<1>1. \A j \in CiaIcr : /\ sync_irq_line(j) \in CiaIcr
                        /\ cia_irq_pending(sync_irq_line(j)) = cia_irq_pending(j)
  BY DEF CiaIcr, sync_irq_line, cia_irq_pending
<1>2. [k EXCEPT !.icr_data = k.icr_data \cup m] \in CiaIcr
  BY DEF CiaIcr
<1>3. /\ [k EXCEPT !.icr_data = {}] \in CiaIcr
      /\ ~ cia_irq_pending([k EXCEPT !.icr_data = {}])
  BY DEF CiaIcr, cia_irq_pending
<1>4. [k EXCEPT !.icr_mask = SetClr(k.icr_mask, [setclr |-> b, bits |-> m])] \in CiaIcr
  BY DEF CiaIcr, SetClr
<1> QED
  BY <1>1, <1>2, <1>3, <1>4 DEF cia_raise, cia_read_icr, cia_write_icr

(* Syncing a CIA's line leaves Paula coherent, with the CIA's bit set      *)
(* exactly when the CIA is pending and every other request untouched.      *)
LEMMA SyncPaula ==
    ASSUME NEW r \in InterruptDomain, NEW c \in Cias, NEW k \in CiaIcr
    PROVE  LET u == sync_paula(r, c, k)
           IN  /\ u \in InterruptDomain
               /\ u.ipl = compute_ipl(u)
               /\ cia_irq_pending(k) => paula_irq_bit(c) \in u.intreq
               /\ \A d \in Cias \ {c} :
                     paula_irq_bit(d) \in r.intreq => paula_irq_bit(d) \in u.intreq
<1>1. paula_irq_bit(c) \in IntBits
  BY DEF paula_irq_bit, IntBits, Requests
<1>2. /\ r.intreq \cup {paula_irq_bit(c)} \in SUBSET IntBits
      /\ r.intreq \ {paula_irq_bit(c)} \in SUBSET IntBits
  BY <1>1 DEF InterruptDomain
<1>3. \A d \in Cias \ {c} : paula_irq_bit(d) # paula_irq_bit(c)
  BY DEF paula_irq_bit, Cias
<1>4. CASE cia_irq_pending(k)
  BY <1>2, <1>4, IntreqOps DEF sync_paula, irq_raise
<1>5. CASE ~ cia_irq_pending(k)
  BY <1>2, <1>3, <1>5, IntreqOps DEF sync_paula, irq_clear
<1> QED
  BY <1>4, <1>5

-----------------------------------------------------------------------------
(* The inductive invariant: the stored level is the computed one.          *)
Coherent == irq.ipl = compute_ipl(irq)

IInv == TypeOK /\ Coherent /\ CiaEventNotLost

(* What the host hands to the processor is a level, after a step or access. *)
LEMMA PublishType ==
    ASSUME TypeOK, NEW l \in 0..6, PublishStep(l) \/ PublishAccess(l)
    PROVE  last_ipl' \in 0..6
BY DEF TypeOK, PublishStep, PublishAccess

(* rigel_chipset_reset establishes the inductive invariant.                *)
LEMMA InitIInv == Init => IInv
<1> SUFFICES ASSUME Init PROVE IInv
  OBVIOUS
<1>1. irq \in InterruptDomain
  BY DEF Init, irq_reset, InterruptDomain
<1>2. cia \in [Cias -> CiaIcr]
  BY DEF Init, cia_icr_reset, CiaIcr
<1>3. TypeOK
  BY <1>1, <1>2, ConstantsAssumption DEF Init, TypeOK
<1>4. Coherent
  BY DEF Init, irq_reset, Coherent, compute_ipl
<1>5. CiaEventNotLost
  BY DEF Init, cia_icr_reset, CiaEventNotLost, cia_irq_pending
<1> QED
  BY <1>3, <1>4, <1>5 DEF IInv

(* Every step of the chips, of the host and of the guest preserves it.      *)
LEMMA NextIInv == IInv /\ [Next]_vars => IInv'
<1> SUFFICES ASSUME IInv, [Next]_vars PROVE IInv'
  OBVIOUS
<1> USE ConstantsAssumption
<1>t. /\ irq \in InterruptDomain /\ cia \in [Cias -> CiaIcr]
      /\ events \in 0..MaxEvents /\ writes \in 0..MaxWrites
  BY DEF IInv, TypeOK
<1>1. CASE StepQuiet
  <2>1. last_ipl' \in 0..6
    BY <1>1, <1>t, PublishType DEF StepQuiet, IInv, InterruptDomain
  <2> QED
    BY <1>1, <2>1 DEF StepQuiet, IInv, TypeOK, Coherent, CiaEventNotLost
<1>2. ASSUME NEW s \in ChipSources, StepChip(s) PROVE IInv'
  <2>1. irq.intreq \cup {s} \in SUBSET IntBits
    BY <1>t DEF InterruptDomain, IntBits
  <2>2. irq' \in InterruptDomain /\ Coherent' /\ irq'.intreq = irq.intreq \cup {s}
    BY <1>2, <1>t, <2>1, IntreqOps DEF StepChip, irq_raise, Coherent
  <2>3. last_ipl' \in 0..6
    BY <1>2, <2>2, PublishType DEF StepChip, IInv, InterruptDomain
  <2>4. CiaEventNotLost'
    BY <1>2, <2>2 DEF StepChip, IInv, CiaEventNotLost
  <2>5. TypeOK'
    BY <1>2, <2>2, <2>3, <1>t DEF StepChip, IInv, TypeOK
  <2> QED
    BY <2>2, <2>4, <2>5 DEF IInv
<1>3. ASSUME NEW c \in Cias, NEW e \in Events, StepCia(c, e) PROVE IInv'
  <2>1. cia_raise(cia[c], {e}) \in CiaIcr
    BY <1>t, CiaOps
  <2>2. cia' \in [Cias -> CiaIcr] /\ \A d \in Cias \ {c} : cia'[d] = cia[d]
    BY <1>3, <1>t, <2>1 DEF StepCia
  <2>3. irq' = sync_paula(irq, c, cia'[c])
    BY <1>3 DEF StepCia
  <2>4. irq' \in InterruptDomain /\ Coherent'
    BY <1>t, <2>2, <2>3, SyncPaula DEF Coherent
  <2>5. last_ipl' \in 0..6
    BY <1>3, <2>4, PublishType DEF StepCia, IInv, InterruptDomain
  <2>6. CiaEventNotLost'
    <3>1. cia_irq_pending(cia'[c]) => paula_irq_bit(c) \in irq'.intreq
      BY <1>t, <2>2, <2>3, SyncPaula
    <3>2. ASSUME NEW d \in Cias \ {c}
          PROVE  cia_irq_pending(cia'[d])
                    => paula_irq_bit(d) \in irq'.intreq \/ cpu' = d
      <4>1. cia'[d] = cia[d] /\ cpu' = cpu
        BY <1>3, <2>2 DEF StepCia
      <4>2. paula_irq_bit(d) \in irq.intreq => paula_irq_bit(d) \in irq'.intreq
        BY <1>t, <2>2, <2>3, SyncPaula
      <4> QED
        BY <4>1, <4>2 DEF IInv, CiaEventNotLost
    <3> QED
      BY <3>1, <3>2 DEF CiaEventNotLost
  <2>7. TypeOK'
    BY <1>3, <2>2, <2>4, <2>5, <1>t DEF StepCia, IInv, TypeOK
  <2> QED
    BY <2>4, <2>6, <2>7 DEF IInv
<1>4. ASSUME NEW b \in BOOLEAN, NEW m \in Enables,
             WriteIntena([setclr |-> b, bits |-> m])
      PROVE  IInv'
  <2>1. SetClr(irq.intena, [setclr |-> b, bits |-> m]) \in SUBSET IntBits
    BY <1>t DEF InterruptDomain, SetClr
  <2>2. irq' \in InterruptDomain /\ Coherent' /\ irq'.intreq = irq.intreq
    BY <1>4, <1>t, <2>1, IntenaOps DEF WriteIntena, write_intena, Coherent
  <2>3. last_ipl' \in 0..6
    BY <1>4, <2>2, PublishType DEF WriteIntena, IInv, InterruptDomain
  <2>4. CiaEventNotLost'
    BY <1>4, <2>2 DEF WriteIntena, IInv, CiaEventNotLost
  <2>5. TypeOK'
    BY <1>4, <2>2, <2>3, <1>t DEF WriteIntena, IInv, TypeOK
  <2> QED
    BY <2>2, <2>4, <2>5 DEF IInv
<1>5. ASSUME NEW s \in ChipSources \cup {"PORTS", "EXTER"}, SetIntreq(s) PROVE IInv'
  <2> DEFINE v == [setclr |-> TRUE, bits |-> {s}]
  <2>1. SetClr(irq.intreq, v) = irq.intreq \cup {s}
        /\ irq.intreq \cup {s} \in SUBSET IntBits
    BY <1>t DEF InterruptDomain, SetClr, IntBits, Requests
  <2>2. irq' \in InterruptDomain /\ Coherent' /\ irq'.intreq = irq.intreq \cup {s}
    BY <1>5, <1>t, <2>1, IntreqOps DEF SetIntreq, write_intreq, Coherent
  <2>3. last_ipl' \in 0..6
    BY <1>5, <2>2, PublishType DEF SetIntreq, IInv, InterruptDomain
  <2>4. CiaEventNotLost'
    BY <1>5, <2>2 DEF SetIntreq, IInv, CiaEventNotLost
  <2>5. TypeOK'
    BY <1>5, <2>2, <2>3, <1>t DEF SetIntreq, IInv, TypeOK
  <2> QED
    BY <2>2, <2>4, <2>5 DEF IInv
<1>6. ASSUME NEW c \in Cias, NEW b \in BOOLEAN, NEW e \in Events,
             WriteIcr(c, [setclr |-> b, bits |-> {e}])
      PROVE  IInv'
  <2>1. cia_write_icr(cia[c], [setclr |-> b, bits |-> {e}]) \in CiaIcr
    BY <1>t, CiaOps
  <2>2. cia' \in [Cias -> CiaIcr] /\ \A d \in Cias \ {c} : cia'[d] = cia[d]
    BY <1>6, <1>t, <2>1 DEF WriteIcr
  <2>3. irq' = sync_paula(irq, c, cia'[c])
    BY <1>6 DEF WriteIcr
  <2>4. irq' \in InterruptDomain /\ Coherent'
    BY <1>t, <2>2, <2>3, SyncPaula DEF Coherent
  <2>5. last_ipl' \in 0..6
    BY <1>6, <2>4, PublishType DEF WriteIcr, IInv, InterruptDomain
  <2>6. CiaEventNotLost'
    <3>1. cia_irq_pending(cia'[c]) => paula_irq_bit(c) \in irq'.intreq
      BY <1>t, <2>2, <2>3, SyncPaula
    <3>2. ASSUME NEW d \in Cias \ {c}
          PROVE  cia_irq_pending(cia'[d])
                    => paula_irq_bit(d) \in irq'.intreq \/ cpu' = d
      <4>1. cia'[d] = cia[d] /\ cpu' = cpu
        BY <1>6, <2>2 DEF WriteIcr
      <4>2. paula_irq_bit(d) \in irq.intreq => paula_irq_bit(d) \in irq'.intreq
        BY <1>t, <2>2, <2>3, SyncPaula
      <4> QED
        BY <4>1, <4>2 DEF IInv, CiaEventNotLost
    <3> QED
      BY <3>1, <3>2 DEF CiaEventNotLost
  <2>7. TypeOK'
    BY <1>6, <2>2, <2>4, <2>5, <1>t DEF WriteIcr, IInv, TypeOK
  <2> QED
    BY <2>4, <2>6, <2>7 DEF IInv
<1>7. CASE Enter
  <2>1. TypeOK'
    BY <1>7 DEF Enter, IInv, TypeOK
  <2>2. CiaEventNotLost'
    BY <1>7, <1>t DEF Enter, IInv, CiaEventNotLost, Cias
  <2> QED
    BY <1>7, <2>1, <2>2 DEF Enter, IInv, Coherent
<1>8. ASSUME NEW s \in Requests, Acknowledge(s) PROVE IInv'
  <2> DEFINE v == [setclr |-> FALSE, bits |-> {s}]
  <2>1. SetClr(irq.intreq, v) = irq.intreq \ {s}
        /\ irq.intreq \ {s} \in SUBSET IntBits
    BY <1>t DEF InterruptDomain, SetClr
  <2>2. irq' \in InterruptDomain /\ Coherent' /\ irq'.intreq = irq.intreq \ {s}
    BY <1>8, <1>t, <2>1, IntreqOps DEF Acknowledge, write_intreq, Coherent
  <2>3. last_ipl' \in 0..6
    BY <1>8, <2>2, PublishType DEF Acknowledge, IInv, InterruptDomain
  <2>4. CiaEventNotLost'
    BY <1>8, <2>2 DEF Acknowledge, IInv, CiaEventNotLost, Cias, paula_irq_bit
  <2>5. cpu' \in {"run", "handler"} \cup Cias
    BY <1>8 DEF Acknowledge, Cias
  <2>6. TypeOK'
    BY <1>8, <2>2, <2>3, <2>5, <1>t DEF Acknowledge, IInv, TypeOK
  <2> QED
    BY <2>2, <2>4, <2>6 DEF IInv
<1>9. CASE Spurious
  BY <1>9 DEF Spurious, IInv, TypeOK, Coherent, CiaEventNotLost, Cias
<1>10. ASSUME NEW c \in Cias, ReadIcr(c) PROVE IInv'
  <2>1. cia_read_icr(cia[c]) \in CiaIcr /\ ~ cia_irq_pending(cia_read_icr(cia[c]))
    BY <1>t, CiaOps
  <2>2. /\ cia' \in [Cias -> CiaIcr] /\ ~ cia_irq_pending(cia'[c])
        /\ \A d \in Cias \ {c} : cia'[d] = cia[d]
    BY <1>10, <1>t, <2>1 DEF ReadIcr
  <2>3. irq' = sync_paula(irq, c, cia'[c])
    BY <1>10 DEF ReadIcr
  <2>4. irq' \in InterruptDomain /\ Coherent'
    BY <1>t, <2>2, <2>3, SyncPaula DEF Coherent
  <2>5. last_ipl' \in 0..6
    BY <1>10, <2>4, PublishType DEF ReadIcr, IInv, InterruptDomain
  <2>6. CiaEventNotLost'
    BY <1>10, <1>t, <2>2, <2>3, SyncPaula, ZenonT(60) DEF ReadIcr, IInv, CiaEventNotLost
  <2>7. TypeOK'
    BY <1>10, <2>2, <2>4, <2>5, <1>t DEF ReadIcr, IInv, TypeOK
  <2> QED
    BY <2>4, <2>6, <2>7 DEF IInv
<1>11. CASE UNCHANGED vars
  BY <1>11 DEF vars, IInv, TypeOK, Coherent, CiaEventNotLost
<1> QED
  BY <1>1, <1>2, <1>3, <1>4, <1>5, <1>6, <1>7, <1>8, <1>9, <1>10, <1>11 DEF Next

(* The module's type invariant holds in every reachable state.             *)
THEOREM TypeCorrect == Spec => []TypeOK
<1>1. IInv => TypeOK
  BY DEF IInv
<1> QED
  BY InitIInv, NextIInv, <1>1, PTL DEF Spec

(* The level rigel_get_ipl reports is always the highest level among the   *)
(* enabled requests, through every register write, ICR access and raise.   *)
THEOREM IplAlwaysHighest == Spec => []IplIsHighest
<1>1. IInv => IplIsHighest
  BY ComputeIplIsHighest DEF IInv, TypeOK, Coherent, IplIsHighest
<1> QED
  BY InitIInv, NextIInv, <1>1, PTL DEF Spec

(* No CIA event is lost between the acknowledge of INTREQ and the read of  *)
(* the ICR: cia_interrupt_sync_irq_line keeps the request raised.          *)
THEOREM CiaEventsKept == Spec => []CiaEventNotLost
<1>1. IInv => CiaEventNotLost
  BY DEF IInv
<1> QED
  BY InitIInv, NextIInv, <1>1, PTL DEF Spec

(* A host that syncs after every advance and every access, as the harness  *)
(* does, always shows the processor the level Rigel reports.               *)
THEOREM HarnessMirrorsLevel ==
    ASSUME PublishOn = "level"
    PROVE  Spec => []LevelMirrored
<1>1. Init => LevelMirrored
  BY DEF Init, LevelMirrored, irq_reset
<1>2. LevelMirrored /\ [Next]_vars => LevelMirrored'
  BY PublishOn = "level"
  DEF LevelMirrored, Next, vars, PublishStep, PublishAccess, StepQuiet, StepChip,
      StepCia, WriteIntena, SetIntreq, WriteIcr, Enter, Acknowledge, Spurious,
      ReadIcr
<1> QED
  BY <1>1, <1>2, PTL DEF Spec

-----------------------------------------------------------------------------
(* The time-of-day clock.                                                  *)

Digit == 0..(Base - 1)

(* The latch holds the time that a read in progress began with, and the    *)
(* bytes read so far are bytes of that time.                               *)
ReadUnderway ==
    /\ Len(got) \in {1, 2} => tod.latched /\ tod.latch = shown
    /\ Len(got) >= 1 => got[1] = Hi(shown)
    /\ Len(got) >= 2 => got[2] = Mid(shown)
    /\ Len(got) >= 3 => got[3] = Lo(shown)

TodInv == TodTypeOK /\ ReadUnderway

(* Three digits make a time, and a time is made of its three digits.       *)
LEMMA BaseFacts ==
    /\ Base \in Nat /\ Base >= 2 /\ Base * Base \in Nat \ {0}
    /\ Modulus = Base * (Base * Base) /\ Modulus \in Nat \ {0}
<1> USE TodAssumption
<1> DEFINE S == Base * Base
<1>1. Base \in Nat /\ Base >= 2
  OBVIOUS
<1>2. S \in Nat /\ S >= 1
  BY <1>1
<1>3. Modulus = S * Base
  BY DEF Modulus
<1> HIDE DEF S
<1>4. S * Base \in Nat /\ S * Base >= 1 /\ S * Base = Base * S
  BY <1>1, <1>2
<1> QED
  BY <1>1, <1>2, <1>3, <1>4 DEF S

LEMMA DigitsMake ==
    ASSUME NEW h \in Digit, NEW m \in Digit, NEW l \in Digit
    PROVE  h * Base * Base + m * Base + l \in Time
<1> DEFINE S == Base * Base
<1>1. Base \in Nat /\ Base >= 2 /\ S \in Nat \ {0} /\ Modulus = Base * S
  BY BaseFacts
<1>2. h \in Nat /\ m \in Nat /\ l \in Nat /\ h <= Base - 1 /\ m <= Base - 1 /\ l <= Base - 1
  BY <1>1 DEF Digit
<1>3. m * Base \in Nat /\ m * Base <= S - Base
  <2>1. m * Base \in Nat
    BY <1>1, <1>2
  <2>2. m * Base <= (Base - 1) * Base
    BY <1>1, <1>2
  <2>3. (Base - 1) * Base = S - Base
    BY <1>1
  <2> QED
    BY <2>1, <2>2, <2>3
<1>4. h * Base * Base = h * S
  BY <1>1, <1>2
<1> HIDE DEF S
<1>5. h * S \in Nat /\ h * S <= Base * S - S
  <2>1. h * S \in Nat
    BY <1>1, <1>2
  <2>2. h * S <= (Base - 1) * S
    BY <1>1, <1>2
  <2>3. (Base - 1) * S = Base * S - S
    BY <1>1
  <2> QED
    BY <2>1, <2>2, <2>3
<1> DEFINE x == h * S
           y == m * Base
           z == Base * S
<1>6. x \in Nat /\ x <= z - S /\ y \in Nat /\ y <= S - Base /\ z \in Nat
  BY <1>1, <1>3, <1>5
<1>7. h * Base * Base + m * Base + l = x + y + l /\ Modulus = z
  BY <1>1, <1>4
<1> HIDE DEF x, y, z
<1>8. x + y + l \in 0..(z - 1)
  BY <1>1, <1>2, <1>6
<1> QED
  BY <1>7, <1>8 DEF Time

LEMMA DigitsOf ==
    ASSUME NEW v \in Time
    PROVE  /\ Hi(v) \in Digit /\ Mid(v) \in Digit /\ Lo(v) \in Digit
           /\ v = Hi(v) * Base * Base + Mid(v) * Base + Lo(v)
           /\ v % (Base * Base) = Mid(v) * Base + Lo(v)
           /\ v \in Nat /\ v < Modulus
<1> DEFINE S == Base * Base
           q == v \div Base
           l == v % Base
           h == q \div Base
           m == q % Base
<1>1. Base \in Nat \ {0} /\ Base >= 2 /\ S \in Nat \ {0} /\ Modulus = Base * S
  BY BaseFacts
<1>2. v \in Nat /\ v \in Int /\ v < Modulus
  BY <1>1, BaseFacts DEF Time
<1>3. q \in Nat /\ q \in Int /\ l \in Digit /\ v = Base * q + l
  BY <1>1, <1>2, DivMod DEF Digit
<1> HIDE DEF q, l
<1>4. h \in Nat /\ m \in Digit /\ q = Base * h + m
  BY <1>1, <1>3, DivMod DEF Digit
<1> HIDE DEF h, m
<1> DEFINE r == m * Base + l
<1>5. r \in 0..(S - 1)
  <2>1. m \in Nat /\ l \in Nat /\ m <= Base - 1 /\ l <= Base - 1
    BY <1>1, <1>3, <1>4 DEF Digit
  <2>2. m * Base \in Nat /\ m * Base <= (Base - 1) * Base /\ (Base - 1) * Base = S - Base
    BY <1>1, <2>1
  <2> QED
    BY <1>1, <2>1, <2>2
<1>6. v = S * h + r
  <2>1. Base * q = Base * (Base * h) + Base * m
    BY <1>1, <1>3, <1>4 DEF Digit
  <2>2. Base * (Base * h) = S * h /\ Base * m = m * Base
    BY <1>1, <1>3, <1>4 DEF Digit
  <2> QED
    BY <1>1, <1>3, <1>4, <2>1, <2>2 DEF Digit
<1>7. S * h = h * Base * Base
  BY <1>1, <1>4
<1> HIDE DEF r, S
<1>8. (S * h + r) \div S = h /\ (S * h + r) % S = r
  BY <1>1, <1>4, <1>5, DivUnique
<1>9. Hi(v) = h /\ v % S = r
  BY <1>6, <1>8 DEF Hi, S
<1>10. Mid(v) = m /\ Lo(v) = l
  BY DEF Mid, Lo, m, q, l
<1>11. h <= Base - 1
  <2> SUFFICES ASSUME h >= Base PROVE FALSE
    BY <1>1, <1>4
  <2>1. S * h >= S * Base /\ S * Base = Base * S
    BY <1>1, <1>4
  <2> DEFINE x == S * h
             y == Base * S
  <2>2. x >= y /\ x \in Int /\ y \in Int /\ v = x + r /\ v < y
    BY <1>1, <1>2, <1>4, <1>6, <2>1
  <2> HIDE DEF x, y
  <2> QED
    BY <1>1, <1>5, <2>2
<1>12. h \in Digit
  BY <1>1, <1>4, <1>11 DEF Digit
<1>13. v = h * Base * Base + (m * Base + l)
  BY <1>6, <1>7 DEF r
<1>14. h * Base * Base \in Int /\ m * Base \in Int /\ l \in Int
  BY <1>1, <1>3, <1>4 DEF Digit
<1>15. h * Base * Base + (m * Base + l) = h * Base * Base + m * Base + l
  BY <1>14
<1> QED
  BY <1>2, <1>3, <1>4, <1>9, <1>10, <1>12, <1>13, <1>15 DEF r, S

(* CIA_TOD_State.                                                          *)
TodState == [counter: Time, alarm: Time, latch: Time, latched: BOOLEAN,
             stopped: BOOLEAN]

LEMMA TodStart == TodInit => TodInv
<1> SUFFICES ASSUME TodInit PROVE TodInv
  OBVIOUS
<1>1. 0 \in Time /\ Base * Base - 1 \in Time
  <2>1. 0 \in Digit /\ Base - 1 \in Digit
    BY BaseFacts DEF Digit
  <2>2. 0 * Base * Base + (Base - 1) * Base + (Base - 1) \in Time
    BY <2>1, DigitsMake
  <2>3. 0 * Base * Base + (Base - 1) * Base + (Base - 1) = Base * Base - 1
    BY BaseFacts
  <2>4. 0 \in Time
    BY BaseFacts DEF Time
  <2> QED
    BY <2>2, <2>3, <2>4
<1>2. tod \in TodState
  BY <1>1, Zenon DEF TodInit, tod_reset, TodState
<1>3. icr \in CiaIcr
  BY DEF TodInit, cia_icr_reset, CiaIcr
<1>4. got \in Seq(Digit) /\ Len(got) = 0
  BY DEF TodInit
<1>5. todWrites \in 0..MaxTodWrites /\ Len(got) <= 3 /\ alarmSel \in BOOLEAN /\ shown \in Time
  <2>1. todWrites = 0 /\ alarmSel = FALSE /\ shown = 0
    BY Zenon DEF TodInit
  <2>2. 0 \in 0..MaxTodWrites
    BY TodAssumption
  <2>3. Len(got) <= 3
    BY <1>4
  <2> QED
    BY <1>1, <2>1, <2>2, <2>3, Zenon
<1>6. TodTypeOK
  BY <1>2, <1>3, <1>4, <1>5, Zenon DEF TodTypeOK, TodState, Digit
<1> QED
  BY <1>4, <1>6 DEF TodInv, ReadUnderway

(* What the clock may do while a read is in progress, but not to the read. *)
LEMMA ReadUntouched ==
    ASSUME TodInv, tod' \in TodState, alarmSel' \in BOOLEAN, icr' \in CiaIcr,
           todWrites' \in 0..MaxTodWrites, got' = got, shown' = shown,
           tod'.latch = tod.latch, tod'.latched = tod.latched
    PROVE  TodInv'
<1>1. TodTypeOK'
  BY Zenon DEF TodInv, TodTypeOK, TodState
<1>2. ReadUnderway'
  BY Zenon DEF TodInv, ReadUnderway, Hi, Mid, Lo
<1> QED
  BY <1>1, <1>2 DEF TodInv

LEMMA StoreKeeps ==
    ASSUME TodInv, NEW v \in Time, NEW stop \in BOOLEAN, Store(v, stop)
    PROVE  TodInv'
<1>1. tod \in TodState /\ todWrites \in 0..MaxTodWrites
  BY Zenon DEF TodInv, TodTypeOK, TodState
<1>2. /\ tod' \in TodState /\ tod'.latch = tod.latch /\ tod'.latched = tod.latched
  <2>1. CASE alarmSel
    <3>1. tod' = [tod EXCEPT !.alarm = v]
      BY <2>1 DEF Store
    <3> QED
      BY <1>1, <3>1, Zenon DEF TodState
  <2>2. CASE ~alarmSel
    <3>1. tod' = [tod EXCEPT !.counter = v, !.stopped = stop]
      BY <2>2 DEF Store
    <3> QED
      BY <1>1, <3>1, Zenon DEF TodState
  <2> QED
    BY <2>1, <2>2
<1>3. todWrites' \in 0..MaxTodWrites
  BY <1>1, TodAssumption DEF Store
<1>4. alarmSel' \in BOOLEAN /\ icr' \in CiaIcr /\ got' = got /\ shown' = shown
  BY Zenon DEF Store, TodInv, TodTypeOK
<1> QED
  BY <1>2, <1>3, <1>4, ReadUntouched

LEMMA WriteKeeps ==
    ASSUME TodInv, NEW b \in Digit, WriteHi(b) \/ WriteMid(b) \/ WriteLo(b)
    PROVE  TodInv'
<1> DEFINE t == Target
           h == Hi(t)
           m == Mid(t)
           l == Lo(t)
<1>1. t \in Time
  BY Zenon DEF TodInv, TodTypeOK, Target
<1> HIDE DEF t
<1>2. /\ h \in Digit /\ m \in Digit /\ l \in Digit
      /\ t = h * Base * Base + m * Base + l /\ t % (Base * Base) = m * Base + l
  BY <1>1, DigitsOf
<1> HIDE DEF h, m, l
<1>3. Base \in Nat
  BY BaseFacts
<1>4. /\ b * Base * Base + m * Base + l \in Time
      /\ h * Base * Base + b * Base + l \in Time
      /\ h * Base * Base + m * Base + b \in Time
  BY <1>2, DigitsMake
<1> DEFINE x == h * Base * Base
           y == m * Base
           z == b * Base * Base
<1>5. x \in Int /\ y \in Int /\ z \in Int /\ l \in Int /\ b \in Int
  BY <1>2, <1>3 DEF Digit
<1>6. t = x + y + l /\ t % (Base * Base) = y + l /\ z + y + l \in Time /\ x + y + b \in Time
  BY <1>2, <1>4
<1> HIDE DEF x, y, z
<1>7. z + (y + l) = z + y + l /\ ((x + y + l) - l) + b = x + y + b
  BY <1>5
<1>8. CASE WriteHi(b)
  <2>1. Store(z + (t % (Base * Base)), TRUE)
    BY <1>8, Zenon DEF WriteHi, z, t
  <2>2. z + (t % (Base * Base)) \in Time
    BY <1>6, <1>7
  <2> QED
    BY <2>1, <2>2, StoreKeeps
<1>9. CASE WriteMid(b)
  <2>1. Store(h * Base * Base + b * Base + l, TRUE)
    BY <1>9, Zenon DEF WriteMid, h, l, t
  <2> QED
    BY <1>4, <2>1, StoreKeeps
<1>10. CASE WriteLo(b)
  <2>1. Store((t - l) + b, FALSE)
    BY <1>10, Zenon DEF WriteLo, l, t
  <2>2. (t - l) + b \in Time
    BY <1>6, <1>7
  <2> QED
    BY <2>1, <2>2, StoreKeeps
<1> QED
  BY <1>8, <1>9, <1>10

LEMMA OneMore ==
    ASSUME NEW s \in Seq(Digit), NEW x \in Digit, NEW t, t = Append(s, x)
    PROVE  /\ t \in Seq(Digit) /\ Len(t) = Len(s) + 1
           /\ \A i \in 1..Len(s) : t[i] = s[i]
           /\ t[Len(s) + 1] = x
<1> DEFINE D == Digit
<1>1. s \in Seq(D) /\ x \in D
  OBVIOUS
<1> HIDE DEF D
<1> QED
  BY <1>1, AppendProperties DEF D

LEMMA ReadKeeps ==
    ASSUME TodInv, ReadHi \/ ReadMid \/ ReadLo
    PROVE  TodInv'
<1>1. /\ tod \in TodState /\ alarmSel \in BOOLEAN /\ icr \in CiaIcr
      /\ got \in Seq(Digit) /\ shown \in Time /\ todWrites \in 0..MaxTodWrites
  BY Zenon DEF TodInv, TodTypeOK, TodState, Digit
<1>2. tod.counter \in Time
  BY <1>1, Zenon DEF TodState
<1>3. alarmSel' \in BOOLEAN /\ icr' \in CiaIcr /\ todWrites' \in 0..MaxTodWrites
  BY <1>1, Zenon DEF ReadHi, ReadMid, ReadLo
<1>4. CASE ReadHi
  <2> DEFINE h == Hi(tod.counter)
  <2>1. h \in Digit
    BY <1>2, DigitsOf
  <2>2. /\ tod' = [tod EXCEPT !.latch = tod.counter, !.latched = TRUE]
        /\ got' = <<h>> /\ shown' = tod.counter
    BY <1>4, Zenon DEF ReadHi
  <2>3. tod' \in TodState /\ tod'.latched /\ tod'.latch = shown'
    BY <1>1, <1>2, <2>2, Zenon DEF TodState
  <2>4. h = Hi(shown')
    BY <2>2
  <2> HIDE DEF h
  <2>5. got' \in Seq(Digit) /\ Len(got') = 1 /\ got'[1] = h
    BY <2>1, <2>2
  <2>6. TodTypeOK'
    <3>1. Len(got') <= 3 /\ shown' \in Time
      BY <1>2, <2>2, <2>5
    <3> QED
      BY <1>3, <2>3, <2>5, <3>1, Zenon DEF TodTypeOK, TodState, Digit
  <2>7. ReadUnderway'
    BY <2>3, <2>4, <2>5 DEF ReadUnderway, Hi
  <2> QED
    BY <2>6, <2>7 DEF TodInv
<1>5. CASE ReadMid
  <2> DEFINE m == Mid(shown)
  <2>1. m \in Digit
    BY <1>1, DigitsOf
  <2>2. Len(got) = 1 /\ tod.latched /\ tod.latch = shown /\ got[1] = Hi(shown)
    BY <1>5 DEF ReadMid, TodInv, ReadUnderway
  <2>3. got' = Append(got, m) /\ tod' = tod /\ shown' = shown
    BY <1>5, <2>2, Zenon DEF ReadMid, Displayed
  <2> HIDE DEF m
  <2>4. got' \in Seq(Digit) /\ Len(got') = 2 /\ got'[1] = got[1] /\ got'[2] = m
    BY <1>1, <2>1, <2>2, <2>3, OneMore
  <2>5. TodTypeOK'
    <3>1. Len(got') <= 3 /\ tod' \in TodState /\ shown' \in Time
      BY <1>1, <2>3, <2>4
    <3> QED
      BY <1>3, <2>4, <3>1, Zenon DEF TodTypeOK, TodState, Digit
  <2>6. Hi(shown') = Hi(shown) /\ Mid(shown') = m /\ tod'.latched /\ tod'.latch = shown'
    BY <2>2, <2>3, Zenon DEF m
  <2>7. ReadUnderway'
    BY <2>2, <2>4, <2>6 DEF ReadUnderway
  <2> QED
    BY <2>5, <2>7 DEF TodInv
<1>6. CASE ReadLo
  <2> DEFINE l == Lo(shown)
  <2>1. l \in Digit
    BY <1>1, DigitsOf
  <2>2. /\ Len(got) = 2 /\ tod.latched /\ tod.latch = shown /\ got[1] = Hi(shown)
        /\ got[2] = Mid(shown)
    BY <1>6 DEF ReadLo, TodInv, ReadUnderway
  <2>3. got' = Append(got, l) /\ tod' = [tod EXCEPT !.latched = FALSE] /\ shown' = shown
    BY <1>6, <2>2, Zenon DEF ReadLo, Displayed
  <2> HIDE DEF l
  <2>4. got' \in Seq(Digit) /\ Len(got') = 3 /\ got'[1] = got[1] /\ got'[2] = got[2] /\ got'[3] = l
    BY <1>1, <2>1, <2>2, <2>3, OneMore
  <2>5. tod' \in TodState
    BY <1>1, <2>3, Zenon DEF TodState
  <2>6. TodTypeOK'
    <3>1. Len(got') <= 3 /\ shown' \in Time
      BY <1>1, <2>3, <2>4
    <3> QED
      BY <1>3, <2>4, <2>5, <3>1, Zenon DEF TodTypeOK, TodState, Digit
  <2>7. Hi(shown') = Hi(shown) /\ Mid(shown') = Mid(shown) /\ Lo(shown') = l
    BY <2>3, Zenon DEF l
  <2>8. ReadUnderway'
    BY <2>2, <2>4, <2>7 DEF ReadUnderway
  <2> QED
    BY <2>6, <2>8 DEF TodInv
<1> QED
  BY <1>4, <1>5, <1>6

LEMMA PulseKeeps ==
    ASSUME TodInv, NEW n \in Nat, Pulse(n)
    PROVE  TodInv'
<1>1. tod \in TodState /\ icr \in CiaIcr
  BY Zenon DEF TodInv, TodTypeOK, TodState
<1>2. Plus(tod.counter, n) \in Time
  <2>1. tod.counter \in Time
    BY <1>1, Zenon DEF TodState
  <2>2. tod.counter + n \in Int /\ Modulus \in Nat \ {0}
    BY <2>1, BaseFacts DEF Time
  <2> HIDE DEF Modulus
  <2>3. (tod.counter + n) % Modulus \in 0..(Modulus - 1)
    BY <2>2, DivMod
  <2> QED
    BY <2>3 DEF Plus, Time
<1>3. tod' \in TodState /\ tod'.latch = tod.latch /\ tod'.latched = tod.latched
  <2>1. tod' = [tod EXCEPT !.counter = Plus(tod.counter, n)]
    BY <1>1, Zenon DEF Pulse, TodState
  <2> QED
    BY <1>1, <1>2, <2>1, Zenon DEF TodState
<1>4. icr' \in CiaIcr
  <2>1. cia_raise(icr, {"ALRM"}) \in CiaIcr
    BY <1>1, CiaOps DEF IcrBits
  <2> QED
    BY <1>1, <2>1, Zenon DEF Pulse
<1>5. /\ alarmSel' \in BOOLEAN /\ todWrites' \in 0..MaxTodWrites
      /\ got' = got /\ shown' = shown
  BY Zenon DEF Pulse, TodInv, TodTypeOK
<1> QED
  BY <1>3, <1>4, <1>5, ReadUntouched

LEMMA TodStep == TodInv /\ [TodNext]_todVars => TodInv'
<1> SUFFICES ASSUME TodInv, [TodNext]_todVars PROVE TodInv'
  OBVIOUS
<1>1. /\ tod \in TodState /\ alarmSel \in BOOLEAN /\ icr \in CiaIcr
      /\ todWrites \in 0..MaxTodWrites
  BY Zenon DEF TodInv, TodTypeOK, TodState
<1>2. ASSUME NEW n \in 1..MaxPulses, Pulse(n) PROVE TodInv'
  <2>1. n \in Nat
    BY TodAssumption
  <2> QED
    BY <1>2, <2>1, PulseKeeps
<1>3. CASE ReadHi \/ ReadMid \/ ReadLo
  BY <1>3, ReadKeeps
<1>4. ASSUME NEW b \in 0..(Base - 1), WriteHi(b) \/ WriteMid(b) \/ WriteLo(b) PROVE TodInv'
  BY <1>4, WriteKeeps DEF Digit
<1>5. ASSUME NEW b \in BOOLEAN, SelectAlarm(b) PROVE TodInv'
  <2>1. todWrites' \in 0..MaxTodWrites
    BY <1>1, <1>5, TodAssumption DEF SelectAlarm
  <2>2. /\ tod' = tod /\ icr' = icr /\ got' = got /\ shown' = shown /\ alarmSel' \in BOOLEAN
    BY <1>5, Zenon DEF SelectAlarm
  <2> QED
    BY <1>1, <2>1, <2>2, ReadUntouched
<1>6. CASE ReadTodIcr
  <2>1. icr' \in CiaIcr
    <3>1. {} \in SUBSET IcrBits
      OBVIOUS
    <3>2. cia_read_icr(icr) \in CiaIcr
      BY <1>1, <3>1, CiaOps
    <3> QED
      BY <1>6, <3>2 DEF ReadTodIcr
  <2>2. /\ tod' = tod /\ got' = got /\ shown' = shown /\ alarmSel' = alarmSel
        /\ todWrites' = todWrites
    BY <1>6, Zenon DEF ReadTodIcr
  <2> QED
    BY <1>1, <2>1, <2>2, ReadUntouched
<1>7. CASE UNCHANGED todVars
  BY <1>1, <1>7, ReadUntouched DEF todVars
<1> QED
  BY <1>2, <1>3, <1>4, <1>5, <1>6, <1>7, Zenon DEF TodNext

(* The three bytes the guest reads are those of one moment, whatever       *)
(* pulses and writes come between the reads (cia_tod_read's latch), for    *)
(* every size of a byte.                                                   *)
THEOREM TodReadsAreSound == TodSpec => []TodReadSound
<1>1. TodInv => TodReadSound
  <2> SUFFICES ASSUME TodInv PROVE TodReadSound
    OBVIOUS
  <2>1. ASSUME Len(got) = 3
        PROVE  got[1] * Base * Base + got[2] * Base + got[3] = shown
    <3>1. got[1] = Hi(shown) /\ got[2] = Mid(shown) /\ got[3] = Lo(shown)
      BY <2>1 DEF TodInv, ReadUnderway
    <3>2. shown \in Time
      BY Zenon DEF TodInv, TodTypeOK
    <3> QED
      BY <3>1, <3>2, DigitsOf
  <2> QED
    BY <2>1, Zenon DEF TodReadSound, ReadIsOneMoment, TodInv
<1> QED
  BY TodStart, TodStep, <1>1, PTL DEF TodSpec

(* Different numbers of pulses less than a round lead to different times.  *)
LEMMA PlusInjective ==
    ASSUME NEW c \in Time, NEW i \in 1..(Modulus - 1), NEW j \in 1..(Modulus - 1),
           Plus(c, i) = Plus(c, j)
    PROVE  i = j
<1> DEFINE M == Modulus
<1>1. M \in Nat \ {0} /\ c \in Nat /\ c < M /\ i \in Nat /\ j \in Nat /\ i < M /\ j < M
  BY BaseFacts DEF Time
<1>2. (c + i) % M = (c + j) % M
  BY DEF Plus
<1> HIDE DEF M
<1>3. ASSUME NEW k \in Nat, k < M
      PROVE  (c + k) % M = IF c + k < M THEN c + k ELSE (c + k) - M
  <2>1. CASE c + k < M
    <3> DEFINE r == c + k
    <3>1. r \in 0..(M - 1) /\ M * 0 + r = r
      BY <1>1, <2>1, <1>3
    <3> HIDE DEF r
    <3>2. r % M = r
      BY <1>1, <3>1, DivUnique
    <3> QED
      BY <2>1, <3>2 DEF r
  <2>2. CASE ~(c + k < M)
    <3> DEFINE r == (c + k) - M
    <3>1. r \in 0..(M - 1) /\ M * 1 + r = c + k
      BY <1>1, <2>2, <1>3
    <3>2. 1 \in Int
      OBVIOUS
    <3> HIDE DEF r
    <3>3. (M * 1 + r) % M = r
      BY <1>1, <3>1, <3>2, DivUnique
    <3> QED
      BY <2>2, <3>1, <3>3 DEF r
  <2> QED
    BY <2>1, <2>2
<1>4. /\ (c + i) % M = IF c + i < M THEN c + i ELSE (c + i) - M
      /\ (c + j) % M = IF c + j < M THEN c + j ELSE (c + j) - M
  BY <1>1, <1>3
<1> DEFINE a == (c + i) % M
           b == (c + j) % M
<1> HIDE DEF a, b
<1>5. /\ a = IF c + i < M THEN c + i ELSE (c + i) - M
      /\ b = IF c + j < M THEN c + j ELSE (c + j) - M
      /\ a = b
  BY <1>2, <1>4 DEF a, b
<1> QED
  BY <1>1, <1>5

LEMMA PulseRaises ==
    ASSUME TodInv, MaxPulses < Modulus, NEW n \in 1..MaxPulses, Pulse(n)
    PROVE  LET m == CHOOSE i \in 1..(Modulus - 1) :
                        (tod.counter + i) % Modulus = tod'.counter
               passed == {(tod.counter + i) % Modulus : i \in 1..m}
           IN  icr'.icr_data = icr.icr_data \cup
                               (IF tod.alarm \in passed THEN {"ALRM"} ELSE {})
<1> DEFINE c == tod.counter
           U == 1..(Modulus - 1)
           m == CHOOSE i \in U : (c + i) % Modulus = tod'.counter
           passed == {(c + i) % Modulus : i \in 1..m}
<1>1. tod \in TodState /\ icr \in CiaIcr /\ c \in Time
  BY Zenon DEF TodInv, TodTypeOK, TodState
<1>2. n \in U
  BY TodAssumption, BaseFacts
<1>3. tod'.counter = Plus(c, n)
  BY <1>1, Zenon DEF Pulse, TodState
<1>4. m \in U /\ (c + m) % Modulus = tod'.counter
  <2>1. \E i \in U : (c + i) % Modulus = tod'.counter
    BY <1>2, <1>3, Zenon DEF Plus
  <2> HIDE DEF U
  <2> QED
    BY <2>1, Zenon
<1> HIDE DEF m
<1>5. m = n
  BY <1>1, <1>2, <1>3, <1>4, PlusInjective DEF Plus
<1>6. tod.alarm \in passed <=> tod_alarm_hit(tod, n)
  <2>1. passed = {Plus(c, i) : i \in 1..n}
    BY <1>5, Zenon DEF Plus
  <2> HIDE DEF passed
  <2> QED
    BY <2>1, Zenon DEF tod_alarm_hit
<1> HIDE DEF passed
<1>7. CASE tod_alarm_hit(tod, n)
  <2>1. icr' = cia_raise(icr, {"ALRM"})
    BY <1>7 DEF Pulse
  <2>2. icr'.icr_data = icr.icr_data \cup {"ALRM"}
    BY <1>1, <2>1, Zenon DEF cia_raise, sync_irq_line, CiaIcr
  <2> QED
    BY <1>6, <1>7, <2>2, Zenon DEF passed, m
<1>8. CASE ~tod_alarm_hit(tod, n)
  <2>1. icr' = icr
    BY <1>8 DEF Pulse
  <2>2. icr'.icr_data = icr.icr_data \cup {}
    BY <2>1
  <2> QED
    BY <1>6, <1>8, <2>2, Zenon DEF passed, m
<1> QED
  BY <1>7, <1>8

(* The pulse that brings the clock onto the alarm or past it latches ALRM, *)
(* and no other does, as long as a step gives fewer pulses than the clock  *)
(* has values (cia_tod_increment's comparison after each increment).       *)
THEOREM AlarmIsOnTime ==
    ASSUME MaxPulses < Modulus
    PROVE  TodSpec => AlarmOnTime
<1> DEFINE OnTime ==
             (todWrites' = todWrites /\ tod'.counter # tod.counter)
               => LET m == CHOOSE i \in 1..(Modulus - 1) :
                               (tod.counter + i) % Modulus = tod'.counter
                      passed == {(tod.counter + i) % Modulus : i \in 1..m}
                  IN  icr'.icr_data = icr.icr_data \cup
                                      (IF tod.alarm \in passed THEN {"ALRM"} ELSE {})
<1>1. TodInv /\ [TodNext]_todVars => [OnTime]_todVars
  <2> SUFFICES ASSUME TodInv, TodNext, todWrites' = todWrites, tod'.counter # tod.counter
               PROVE  OnTime
    BY Zenon
  <2>1. tod \in TodState /\ todWrites \in Nat
    BY TodAssumption DEF TodInv, TodTypeOK, TodState
  <2>2. CASE \E n \in 1..MaxPulses : Pulse(n)
    BY <2>2, PulseRaises
  <2>3. ~ReadTodIcr
    BY DEF ReadTodIcr
  <2>4. ~(ReadHi \/ ReadMid \/ ReadLo)
    BY <2>1, Zenon DEF ReadHi, ReadMid, ReadLo, TodState
  <2>5. \A b : ~(WriteHi(b) \/ WriteMid(b) \/ WriteLo(b)) /\ ~SelectAlarm(b)
    BY <2>1 DEF WriteHi, WriteMid, WriteLo, Store, SelectAlarm
  <2> QED
    BY <2>2, <2>3, <2>4, <2>5, Zenon DEF TodNext
<1>2. [][OnTime]_todVars => AlarmOnTime
  BY PTL DEF AlarmOnTime
<1> QED
  BY TodStart, TodStep, <1>1, <1>2, PTL DEF TodSpec

-----------------------------------------------------------------------------
(***************************************************************************)
(* CiaTimers: interval timers, serial port and ICR of one CIA.             *)
(***************************************************************************)
(* The counter's value and how often it passed 0.                          *)
Pair(c, u) == [counter |-> c, uf |-> u]

Counted(m) == [counter: 0..m, uf: Nat]

LEMMA PairFields ==
    ASSUME NEW c, NEW u
    PROVE  Pair(c, u).counter = c /\ Pair(c, u).uf = u
BY DEF Pair

LEMMA PairEqual ==
    ASSUME NEW c, NEW u, NEW d, NEW v, Pair(c, u) = Pair(d, v)
    PROVE  c = d /\ u = v
BY PairFields

(* A timer that runs freely, and one that stops when it has passed 0.      *)
Free(c, l, n) == timer_advance(c, l, TRUE, n)
Once(c, l, n) == timer_advance(c, l, FALSE, n)

LEMMA AdvanceShort ==
    ASSUME NEW c \in Nat, NEW l \in Nat, NEW n \in Nat, n <= c
    PROVE  Free(c, l, n) = Pair(c - n, 0) /\ Once(c, l, n) = Pair(c - n, 0)
BY DEF timer_advance, Pair, Free, Once

LEMMA AdvanceOnce ==
    ASSUME NEW c \in Nat, NEW l \in Nat, NEW n \in Nat, ~(n <= c)
    PROVE  Once(c, l, n) = Pair(0, 1)
BY DEF timer_advance, Pair, Once

(* n ticks take a counter through 0, q periods and r ticks.                *)
Round(c, l, n, q, r) == n - (c + 1) = (l + 1) * q + r

LEMMA AdvanceRound ==
    ASSUME NEW c \in Nat, NEW l \in Nat, NEW n \in Nat, ~(n <= c),
           NEW q \in Nat, NEW r \in 0..l, Round(c, l, n, q, r)
    PROVE  Free(c, l, n) = Pair(l - r, 1 + q)
<1>1. l + 1 \in Nat \ {0} /\ r \in 0..((l + 1) - 1)
  OBVIOUS
<1>2. PICK left \in Nat : left = n - (c + 1)
  OBVIOUS
<1>3. left = (l + 1) * q + r
  BY <1>2 DEF Round
<1>4. left \div (l + 1) = q /\ left % (l + 1) = r
  <2>1. PICK m \in Nat \ {0} : m = l + 1
    BY <1>1
  <2>2. q \in Int /\ r \in 0..(m - 1)
    BY <2>1
  <2>3. (m * q + r) \div m = q /\ (m * q + r) % m = r
    BY <2>2, DivUnique, Zenon
  <2> QED
    BY <1>3, <2>1, <2>3, Zenon
<1>5. timer_advance(c, l, TRUE, n) = Pair(l - (left % (l + 1)), 1 + left \div (l + 1))
  BY <1>2, Zenon DEF timer_advance, Pair
<1> QED
  BY <1>4, <1>5, Zenon DEF Free

(* How a counter that has passed 0 got there.                              *)
LEMMA RoundExists ==
    ASSUME NEW c \in Nat, NEW l \in Nat, NEW n \in Nat, ~(n <= c)
    PROVE  \E q \in Nat, r \in 0..l :
              Round(c, l, n, q, r) /\ Free(c, l, n) = Pair(l - r, 1 + q)
<1>1. PICK left \in Nat : left = n - (c + 1)
  OBVIOUS
<1>2. PICK m \in Nat \ {0} : m = l + 1
  OBVIOUS
<1>3. left \in Int
  BY <1>1
<1>4. left \div m \in Nat /\ left % m \in 0..(m - 1) /\ left = m * (left \div m) + (left % m)
  BY <1>1, <1>2, <1>3, DivMod, Zenon
<1>5. PICK r \in 0..l : r = left % m
  BY <1>2, <1>4
<1>6. PICK q \in Nat : q = left \div m
  BY <1>4
<1>7. Round(c, l, n, q, r)
  BY <1>1, <1>2, <1>4, <1>5, <1>6, Zenon DEF Round
<1>8. Free(c, l, n) = Pair(l - r, 1 + q)
  BY <1>7, AdvanceRound
<1> QED
  BY <1>7, <1>8

LEMMA AdvanceType ==
    ASSUME NEW m \in Nat, NEW c \in 0..m, NEW l \in 0..m, NEW n \in Nat
    PROVE  Free(c, l, n) \in Counted(m) /\ Once(c, l, n) \in Counted(m)
<1>0. c \in Nat /\ l \in Nat
  OBVIOUS
<1>1. CASE n <= c
  <2>1. PICK d \in 0..m : d = c - n
    BY <1>1
  <2>2. Pair(d, 0) \in Counted(m)
    BY <2>1 DEF Counted, Pair
  <2> QED
    BY <1>0, <1>1, <2>1, <2>2, AdvanceShort, Zenon
<1>2. CASE ~(n <= c)
  <2>1. PICK q \in Nat, r \in 0..l :
           Round(c, l, n, q, r) /\ Free(c, l, n) = Pair(l - r, 1 + q)
    BY <1>0, <1>2, RoundExists, Zenon
  <2>3. Once(c, l, n) = Pair(0, 1)
    BY <1>0, <1>2, AdvanceOnce, Zenon
  <2>4. PICK d \in 0..m : d = l - r
    BY <2>1
  <2>5. PICK u \in Nat : u = 1 + q
    BY <2>1
  <2>6. Pair(d, u) \in Counted(m) /\ Pair(0, 1) \in Counted(m)
    BY <2>4, <2>5 DEF Counted, Pair
  <2> QED
    BY <2>1, <2>3, <2>4, <2>5, <2>6, Zenon
<1> QED
  BY <1>1, <1>2, Zenon

(* One tick.                                                               *)
LEMMA AdvanceTick ==
    ASSUME NEW c \in Nat, NEW l \in Nat
    PROVE  /\ c > 0 => Free(c, l, 1) = Pair(c - 1, 0) /\ Once(c, l, 1) = Pair(c - 1, 0)
           /\ c = 0 => Free(c, l, 1) = Pair(l, 1) /\ Once(c, l, 1) = Pair(0, 1)
<1>1. CASE c > 0
  BY <1>1, AdvanceShort
<1>2. CASE c = 0
  <2>1. ~(1 <= c) /\ 0 \in 0..l /\ Round(c, l, 1, 0, 0) /\ l - 0 = l /\ 1 + 0 = 1
    BY <1>2 DEF Round
  <2>2. Free(c, l, 1) = Pair(l - 0, 1 + 0)
    BY <2>1, AdvanceRound
  <2>3. Once(c, l, 1) = Pair(0, 1)
    BY <2>1, AdvanceOnce
  <2> QED
    BY <1>2, <2>1, <2>2, <2>3
<1> QED
  BY <1>1, <1>2

(* A free-running counter: n + 1 ticks are n ticks and one.                *)
LEMMA FreeStep ==
    ASSUME NEW c \in Nat, NEW l \in Nat, NEW n \in Nat, NEW d \in Nat, NEW u \in Nat,
           Free(c, l, n) = Pair(d, u)
    PROVE  Free(c, l, n + 1) = IF d > 0 THEN Pair(d - 1, u) ELSE Pair(l, u + 1)
<1>0. n + 1 \in Nat
  OBVIOUS
<1>1. CASE n + 1 <= c
  <2>1. n <= c /\ c - n > 0
    BY <1>1
  <2>2. d = c - n /\ u = 0
    <3>1. Pair(d, u) = Pair(c - n, 0)
      BY <2>1, AdvanceShort, Zenon
    <3> QED
      BY <3>1, PairEqual, Zenon
  <2>3. Free(c, l, n + 1) = Pair(c - (n + 1), 0)
    BY <1>0, <1>1, AdvanceShort, Zenon
  <2>4. d > 0 /\ c - (n + 1) = d - 1
    BY <2>1, <2>2
  <2> QED
    BY <2>2, <2>3, <2>4, Zenon
<1>2. CASE n = c
  <2>1. n <= c /\ ~(n + 1 <= c) /\ c - n = 0
    BY <1>2
  <2>2. d = 0 /\ u = 0
    <3>1. Pair(d, u) = Pair(0, 0)
      BY <2>1, AdvanceShort, Zenon
    <3> QED
      BY <3>1, PairEqual, Zenon
  <2>4. 0 \in 0..l /\ Round(c, l, n + 1, 0, 0)
    BY <1>2 DEF Round
  <2>5. Free(c, l, n + 1) = Pair(l - 0, 1 + 0)
    BY <1>0, <2>1, <2>4, AdvanceRound
  <2>6. l - 0 = l /\ 1 + 0 = u + 1 /\ ~(d > 0)
    BY <2>2
  <2> QED
    BY <2>5, <2>6, Zenon
<1>3. CASE n > c
  <2>1. ~(n <= c) /\ ~(n + 1 <= c)
    BY <1>3
  <2>3. PICK q \in Nat, r \in 0..l :
           Round(c, l, n, q, r) /\ Free(c, l, n) = Pair(l - r, 1 + q)
    BY <2>1, RoundExists, Zenon
  <2>4. d = l - r /\ u = 1 + q
    <3>1. PICK e : e = l - r
      OBVIOUS
    <3>2. PICK w : w = 1 + q
      OBVIOUS
    <3>3. Pair(d, u) = Pair(e, w)
      BY <2>3, <3>1, <3>2, Zenon
    <3>4. d = e /\ u = w
      BY <3>3 DEF Pair
    <3> QED
      BY <3>1, <3>2, <3>4, Zenon
  <2>5. CASE r < l
    <3>0. PICK s \in 0..l : s = r + 1
      BY <2>5
    <3>1. d > 0 /\ Round(c, l, n + 1, q, s) /\ l - s = d - 1
      <4>1. PICK p \in Int : p = (l + 1) * q
        BY <2>3
      <4> QED
        BY <2>3, <2>4, <2>5, <3>0, <4>1 DEF Round
    <3>2. Free(c, l, n + 1) = Pair(l - s, 1 + q)
      BY <1>0, <2>1, <2>3, <3>0, <3>1, AdvanceRound
    <3> QED
      BY <2>4, <3>1, <3>2, Zenon
  <2>6. CASE r = l
    <3>0. PICK s \in Nat : s = q + 1
      BY <2>3
    <3>1. 0 \in 0..l /\ Round(c, l, n + 1, s, 0)
      <4>1. (l + 1) * s = (l + 1) * q + (l + 1)
        BY <2>3, <3>0
      <4>2. PICK p \in Int : p = (l + 1) * q
        BY <2>3
      <4> QED
        BY <2>3, <2>6, <4>1, <4>2 DEF Round
    <3>2. Free(c, l, n + 1) = Pair(l - 0, 1 + s)
      BY <1>0, <2>1, <3>0, <3>1, AdvanceRound
    <3>3. ~(d > 0) /\ l - 0 = l /\ 1 + s = u + 1
      BY <2>3, <2>4, <2>6, <3>0
    <3> QED
      BY <3>2, <3>3, Zenon
  <2> QED
    BY <2>3, <2>5, <2>6
<1> QED
  BY <1>1, <1>2, <1>3

(* A one-shot counter: the same until it has passed 0, where it stays.     *)
LEMMA OnceStep ==
    ASSUME NEW c \in Nat, NEW l \in Nat, NEW n \in Nat, NEW d \in Nat, NEW u \in Nat,
           Once(c, l, n) = Pair(d, u)
    PROVE  /\ u \in {0, 1}
           /\ u = 0 => Once(c, l, n + 1) = IF d > 0 THEN Pair(d - 1, 0) ELSE Pair(0, 1)
           /\ u = 1 => Once(c, l, n + 1) = Pair(d, 1)
<1>0. n + 1 \in Nat
  OBVIOUS
<1>1. CASE n <= c
  <2>1. d = c - n /\ u = 0
    <3>1. Pair(d, u) = Pair(c - n, 0)
      BY <1>1, AdvanceShort, Zenon
    <3> QED
      BY <3>1, PairEqual, Zenon
  <2>2. CASE n + 1 <= c
    <3>1. d > 0 /\ d - 1 = c - (n + 1) /\ u # 1
      BY <2>1, <2>2
    <3>2. Once(c, l, n + 1) = Pair(c - (n + 1), 0)
      BY <1>0, <2>2, AdvanceShort, Zenon
    <3> QED
      BY <2>1, <3>1, <3>2, Zenon
  <2>3. CASE ~(n + 1 <= c)
    <3>1. ~(d > 0) /\ u # 1
      BY <1>1, <2>1, <2>3
    <3>2. Once(c, l, n + 1) = Pair(0, 1)
      BY <1>0, <2>3, AdvanceOnce, Zenon
    <3> QED
      BY <2>1, <3>1, <3>2, Zenon
  <2> QED
    BY <2>2, <2>3
<1>2. CASE ~(n <= c)
  <2>1. ~(n + 1 <= c)
    BY <1>2
  <2>2. Once(c, l, n + 1) = Pair(0, 1) /\ Once(c, l, n) = Pair(0, 1)
    <3>1. Once(c, l, n) = Pair(0, 1)
      BY <1>2, AdvanceOnce
    <3>2. PICK m \in Nat : m = n + 1
      OBVIOUS
    <3>3. Once(c, l, m) = Pair(0, 1)
      BY <2>1, <3>2, AdvanceOnce
    <3> QED
      BY <3>1, <3>2, <3>3, Zenon
  <2>3. d = 0 /\ u = 1
    <3>1. Pair(d, u) = Pair(0, 1)
      BY <2>2, Zenon
    <3> QED
      BY <3>1, PairEqual
  <2>4. u # 0
    BY <2>3
  <2> QED
    BY <2>2, <2>3, <2>4, Zenon
<1> QED
  BY <1>1, <1>2

(* A timer, on or off, continuous or one-shot.                             *)
Adv(on, cont, c, l, n) == IF on THEN timer_advance(c, l, cont, n) ELSE Pair(c, 0)

LEMMA AdvanceIs ==
    ASSUME NEW c, NEW l, NEW n, NEW cont \in BOOLEAN
    PROVE  timer_advance(c, l, cont, n) = IF cont THEN Free(c, l, n) ELSE Once(c, l, n)
<1>1. CASE cont
  <2>1. cont = TRUE
    BY <1>1
  <2> QED
    BY <2>1, Zenon DEF Free
<1>2. CASE ~cont
  <2>1. cont = FALSE
    BY <1>2
  <2> QED
    BY <2>1, Zenon DEF Once
<1> QED
  BY <1>1, <1>2

LEMMA AdvType ==
    ASSUME NEW m \in Nat, NEW c \in 0..m, NEW l \in 0..m, NEW n \in Nat,
           NEW on \in BOOLEAN, NEW cont \in BOOLEAN
    PROVE  Adv(on, cont, c, l, n) \in Counted(m)
<1>1. Free(c, l, n) \in Counted(m) /\ Once(c, l, n) \in Counted(m)
  BY AdvanceType, Zenon
<1>2. timer_advance(c, l, cont, n) \in Counted(m)
  BY <1>1, AdvanceIs, Zenon
<1>3. Pair(c, 0) \in Counted(m)
  BY DEF Pair, Counted
<1> QED
  BY <1>2, <1>3, Zenon DEF Adv

LEMMA CountedIs ==
    ASSUME NEW m \in Nat, NEW x \in Counted(m)
    PROVE  x = Pair(x.counter, x.uf) /\ x.counter \in 0..m /\ x.uf \in Nat
BY DEF Counted, Pair

(* No ticks change nothing.                                                *)
LEMMA AdvNone ==
    ASSUME NEW c \in Nat, NEW l \in Nat, NEW on \in BOOLEAN, NEW cont \in BOOLEAN
    PROVE  Adv(on, cont, c, l, 0) = Pair(c, 0)
<1>1. 0 <= c /\ c - 0 = c
  OBVIOUS
<1>2. Free(c, l, 0) = Pair(c, 0) /\ Once(c, l, 0) = Pair(c, 0)
  BY <1>1, AdvanceShort
<1> QED
  BY <1>2, AdvanceIs, Zenon DEF Adv

Ready(o, on, cont, c, l, n, d, u) ==
    /\ o \in BOOLEAN /\ on \in BOOLEAN /\ cont \in BOOLEAN
    /\ c \in Nat /\ l \in Nat /\ n \in Nat /\ d \in Nat /\ u \in Nat
    /\ o <=> on /\ (cont \/ u = 0)
    /\ Adv(on, cont, c, l, n) = Pair(d, u)

Ticked(o, on, cont, c, l, n, d, u) ==
    \E e \in Nat, v \in {0, 1} :
        /\ Adv(o, cont, d, l, 1) = Pair(e, v)
        /\ Adv(on, cont, c, l, n + 1) = Pair(e, u + v)

(* n + 1 ticks are n ticks and one: the last one is counted if the timer   *)
(* has not stopped.                                                        *)
LEMMA AdvStep ==
    ASSUME NEW o, NEW on, NEW cont, NEW c, NEW l, NEW n, NEW d, NEW u,
           Ready(o, on, cont, c, l, n, d, u)
    PROVE  Ticked(o, on, cont, c, l, n, d, u)
<1>0. /\ o \in BOOLEAN /\ on \in BOOLEAN /\ cont \in BOOLEAN
      /\ c \in Nat /\ l \in Nat /\ n \in Nat /\ d \in Nat /\ u \in Nat
      /\ o <=> on /\ (cont \/ u = 0)
      /\ Adv(on, cont, c, l, n) = Pair(d, u)
  BY Zenon DEF Ready
<1> HIDE DEF Ready
<1> USE <1>0
<1> SUFFICES \E e \in Nat, v \in {0, 1} :
                /\ Adv(o, cont, d, l, 1) = Pair(e, v)
                /\ Adv(on, cont, c, l, n + 1) = Pair(e, u + v)
  BY Zenon DEF Ticked
<1>1. CASE ~on
  <2>1. Pair(c, 0) = Pair(d, u)
    BY <1>1, Zenon DEF Adv
  <2>2. d = c /\ u = 0 /\ u + 0 = 0
    BY <2>1 DEF Pair
  <2>3. Adv(o, cont, d, l, 1) = Pair(d, 0)
    BY <1>1, Zenon DEF Adv
  <2>4. Adv(on, cont, c, l, n + 1) = Pair(d, u + 0)
    BY <1>1, <2>2, Zenon DEF Adv
  <2> QED
    BY <2>3, <2>4
<1>2. CASE on /\ cont
  <2>0. o = TRUE /\ on = TRUE /\ cont = TRUE
    BY <1>2
  <2>1. Free(c, l, n) = Pair(d, u)
    BY <1>2, AdvanceIs, Zenon DEF Adv
  <2>2. Free(c, l, n + 1) = IF d > 0 THEN Pair(d - 1, u) ELSE Pair(l, u + 1)
    BY <2>1, FreeStep
  <2>3. /\ d > 0 => Free(d, l, 1) = Pair(d - 1, 0)
        /\ d = 0 => Free(d, l, 1) = Pair(l, 1)
    BY AdvanceTick
  <2>4. Adv(o, cont, d, l, 1) = Free(d, l, 1)
    BY <2>0, Zenon DEF Adv, Free
  <2>5. Adv(on, cont, c, l, n + 1) = Free(c, l, n + 1)
    BY <2>0, Zenon DEF Adv, Free
  <2>6. CASE d > 0
    <3>1. PICK e \in Nat : e = d - 1
      BY <2>6
    <3>2. u + 0 = u
      OBVIOUS
    <3> QED
      BY <2>2, <2>3, <2>4, <2>5, <2>6, <3>1, <3>2, Zenon
  <2>7. CASE d = 0
    <3>1. ~(d > 0)
      BY <2>7
    <3> QED
      BY <2>2, <2>3, <2>4, <2>5, <2>7, <3>1, Zenon
  <2> QED
    BY <2>6, <2>7
<1>3. CASE on /\ ~cont
  <2>0. on = TRUE /\ cont = FALSE
    BY <1>3
  <2>1. Once(c, l, n) = Pair(d, u)
    BY <1>3, AdvanceIs, Zenon DEF Adv
  <2>2. /\ u \in {0, 1}
        /\ u = 0 => Once(c, l, n + 1) = IF d > 0 THEN Pair(d - 1, 0) ELSE Pair(0, 1)
        /\ u = 1 => Once(c, l, n + 1) = Pair(d, 1)
    BY <2>1, OnceStep
  <2>3. /\ d > 0 => Once(d, l, 1) = Pair(d - 1, 0)
        /\ d = 0 => Once(d, l, 1) = Pair(0, 1)
    BY AdvanceTick
  <2>5. Adv(on, cont, c, l, n + 1) = Once(c, l, n + 1)
    BY <2>0, Zenon DEF Adv, Once
  <2>6. CASE u = 0
    <3>0. o = TRUE
      BY <1>3, <2>6
    <3>1. Adv(o, cont, d, l, 1) = Once(d, l, 1)
      BY <2>0, <3>0, Zenon DEF Adv, Once
    <3>2. CASE d > 0
      <4>1. PICK e \in Nat : e = d - 1
        BY <3>2
      <4>2. u + 0 = 0
        BY <2>6
      <4> QED
        BY <2>2, <2>3, <2>5, <2>6, <3>1, <3>2, <4>1, <4>2, Zenon
    <3>3. CASE d = 0
      <4>1. ~(d > 0) /\ u + 1 = 1 /\ 0 \in Nat
        BY <2>6, <3>3
      <4> QED
        BY <2>2, <2>3, <2>5, <2>6, <3>1, <3>3, <4>1, Zenon
    <3> QED
      BY <3>2, <3>3
  <2>7. CASE u = 1
    <3>0. o = FALSE
      BY <1>3, <2>7
    <3>1. Adv(o, cont, d, l, 1) = Pair(d, 0)
      BY <3>0, Zenon DEF Adv
    <3>2. u + 0 = 1
      BY <2>7
    <3> QED
      BY <2>2, <2>5, <2>7, <3>1, <3>2, Zenon
  <2> QED
    BY <2>2, <2>6, <2>7
<1> QED
  BY <1>1, <1>2, <1>3

-----------------------------------------------------------------------------
(* The loop over counted events counts as the division does.               *)
EventsEq(g, l, cont, pulses) ==
    g = [e \in 0..pulses |->
          [c \in 0..MaxCount |->
             IF e <= c THEN [counter |-> c - e, uf |-> 0]
             ELSE IF ~ cont THEN [counter |-> 0, uf |-> 1]
             ELSE LET rest == g[e - (c + 1)][l]
                  IN  [counter |-> rest.counter, uf |-> rest.uf + 1]]]

LEMMA EventsAt ==
    ASSUME NEW c, NEW l, NEW cont, NEW pulses
    PROVE  timer_advance_events(c, l, cont, pulses) =
              (CHOOSE g : EventsEq(g, l, cont, pulses))[pulses][c]
BY Zenon DEF timer_advance_events, EventsEq

(* What comes after the first underflow of a free-running counter.         *)
LEMMA FreeUnfold ==
    ASSUME NEW c \in Nat, NEW l \in Nat, NEW e \in Nat, ~(e <= c)
    PROVE  /\ e - (c + 1) \in Nat
           /\ Free(c, l, e) = Pair(Free(l, l, e - (c + 1)).counter,
                                   Free(l, l, e - (c + 1)).uf + 1)
<1>1. PICK f \in Nat : f = e - (c + 1)
  OBVIOUS
<1>2. CASE f <= l
  <2>1. Free(l, l, f) = Pair(l - f, 0)
    BY <1>2, AdvanceShort
  <2>2. f \in 0..l /\ Round(c, l, e, 0, f)
    BY <1>1, <1>2 DEF Round
  <2>3. Free(c, l, e) = Pair(l - f, 1 + 0)
    BY <2>2, AdvanceRound
  <2>4. 1 + 0 = 0 + 1
    OBVIOUS
  <2>5. Free(l, l, f).counter = l - f /\ Free(l, l, f).uf = 0
    BY <2>1, PairFields, Zenon
  <2> QED
    BY <1>1, <2>3, <2>4, <2>5, Zenon
<1>3. CASE ~(f <= l)
  <2>1. PICK q \in Nat, r \in 0..l :
           Round(l, l, f, q, r) /\ Free(l, l, f) = Pair(l - r, 1 + q)
    BY <1>3, RoundExists, Zenon
  <2>2. PICK s \in Nat : s = 1 + q
    BY <2>1
  <2>3. Round(c, l, e, s, r)
    <3>1. (l + 1) * s = (l + 1) * q + (l + 1)
      BY <2>1, <2>2
    <3>2. PICK p \in Int : p = (l + 1) * q
      BY <2>1
    <3> QED
      BY <1>1, <2>1, <3>1, <3>2 DEF Round
  <2>4. Free(c, l, e) = Pair(l - r, 1 + s)
    BY <2>1, <2>2, <2>3, AdvanceRound
  <2>5. Free(l, l, f).counter = l - r /\ Free(l, l, f).uf = s
    BY <2>1, <2>2, PairFields, Zenon
  <2>6. 1 + s = s + 1
    BY <2>2
  <2> QED
    BY <1>1, <2>4, <2>5, <2>6, Zenon
<1> QED
  BY <1>2, <1>3

(* One round of the loop.                                                  *)
LEMMA EventsRound ==
    ASSUME NEW c \in Nat, NEW l \in Nat, NEW e \in Nat, NEW cont \in BOOLEAN
    PROVE  LET rest == timer_advance(l, l, cont, e - (c + 1))
           IN  timer_advance(c, l, cont, e) =
                  IF e <= c THEN [counter |-> c - e, uf |-> 0]
                  ELSE IF ~ cont THEN [counter |-> 0, uf |-> 1]
                  ELSE [counter |-> rest.counter, uf |-> rest.uf + 1]
<1>1. CASE e <= c
  <2>1. Free(c, l, e) = Pair(c - e, 0) /\ Once(c, l, e) = Pair(c - e, 0)
    BY <1>1, AdvanceShort
  <2>2. timer_advance(c, l, cont, e) = Pair(c - e, 0)
    BY <2>1, AdvanceIs, Zenon
  <2> QED
    BY <1>1, <2>2, Zenon DEF Pair
<1>2. CASE ~(e <= c) /\ ~cont
  <2>1. Once(c, l, e) = Pair(0, 1)
    BY <1>2, AdvanceOnce
  <2>2. timer_advance(c, l, cont, e) = Pair(0, 1)
    BY <1>2, <2>1, AdvanceIs, Zenon
  <2> QED
    BY <1>2, <2>2, Zenon DEF Pair
<1>3. CASE ~(e <= c) /\ cont
  <2>1. cont = TRUE
    BY <1>3
  <2>2. Free(c, l, e) = Pair(Free(l, l, e - (c + 1)).counter, Free(l, l, e - (c + 1)).uf + 1)
    BY <1>3, FreeUnfold, Zenon
  <2> QED
    BY <1>3, <2>1, <2>2, Zenon DEF Pair, Free
<1> QED
  BY <1>1, <1>2, <1>3

LEMMA EventsSolved ==
    ASSUME NEW l \in 0..MaxCount, NEW cont \in BOOLEAN, NEW pulses \in Nat, MaxCount \in Nat
    PROVE  EventsEq([e \in 0..pulses |-> [c \in 0..MaxCount |-> timer_advance(c, l, cont, e)]],
                    l, cont, pulses)
<1> DEFINE G == [e \in 0..pulses |-> [c \in 0..MaxCount |-> timer_advance(c, l, cont, e)]]
           R(e, c) == IF e <= c THEN [counter |-> c - e, uf |-> 0]
                      ELSE IF ~ cont THEN [counter |-> 0, uf |-> 1]
                      ELSE LET rest == G[e - (c + 1)][l]
                           IN  [counter |-> rest.counter, uf |-> rest.uf + 1]
<1>1. ASSUME NEW e \in 0..pulses, NEW c \in 0..MaxCount
      PROVE  timer_advance(c, l, cont, e) = R(e, c)
  <2>0. c \in Nat /\ l \in Nat /\ e \in Nat
    OBVIOUS
  <2>1. CASE e <= c \/ ~cont
    BY <2>0, <2>1, EventsRound, ZenonT(60)
  <2>2. CASE ~(e <= c) /\ cont
    <3>1. e - (c + 1) \in 0..pulses
      BY <2>0, <2>2
    <3>2. G[e - (c + 1)][l] = timer_advance(l, l, cont, e - (c + 1))
      BY <3>1, Zenon
    <3> HIDE DEF G
    <3>3. PICK rest : rest = timer_advance(l, l, cont, e - (c + 1))
      OBVIOUS
    <3>4. timer_advance(c, l, cont, e) = [counter |-> rest.counter, uf |-> rest.uf + 1]
      BY <2>0, <2>2, <3>3, EventsRound, Zenon
    <3> QED
      BY <2>2, <3>2, <3>3, <3>4, Zenon
  <2> QED
    BY <2>1, <2>2
<1>2. G = [e \in 0..pulses |-> [c \in 0..MaxCount |-> R(e, c)]]
  BY <1>1, Zenon
<1> QED
  BY <1>2, Zenon DEF EventsEq

LEMMA EventsUnique ==
    ASSUME NEW l \in 0..MaxCount, NEW cont \in BOOLEAN, NEW pulses \in Nat, MaxCount \in Nat,
           NEW g, EventsEq(g, l, cont, pulses), NEW c \in 0..MaxCount
    PROVE  g[pulses][c] = timer_advance(c, l, cont, pulses)
<1> DEFINE Good(e) == \A d \in 0..MaxCount : g[e][d] = timer_advance(d, l, cont, e)
           S == {k \in Nat : \A e \in 0..pulses : e <= k => Good(e)}
<1>1. ASSUME NEW e \in 0..pulses, \A f \in 0..pulses : f < e => Good(f)
      PROVE  Good(e)
  <2> SUFFICES ASSUME NEW d \in 0..MaxCount PROVE g[e][d] = timer_advance(d, l, cont, e)
    BY Zenon
  <2>0. d \in Nat /\ l \in Nat /\ e \in Nat
    OBVIOUS
  <2>1. g[e][d] = IF e <= d THEN [counter |-> d - e, uf |-> 0]
                  ELSE IF ~ cont THEN [counter |-> 0, uf |-> 1]
                  ELSE LET rest == g[e - (d + 1)][l]
                       IN  [counter |-> rest.counter, uf |-> rest.uf + 1]
    <3> DEFINE Q(x, y) == IF x <= y THEN [counter |-> y - x, uf |-> 0]
                          ELSE IF ~ cont THEN [counter |-> 0, uf |-> 1]
                          ELSE LET rest == g[x - (y + 1)][l]
                               IN  [counter |-> rest.counter, uf |-> rest.uf + 1]
    <3>1. g = [x \in 0..pulses |-> [y \in 0..MaxCount |-> Q(x, y)]]
      BY Zenon DEF EventsEq
    <3> HIDE DEF Q
    <3>2. g[e][d] = Q(e, d)
      <4>1. g[e] = [y \in 0..MaxCount |-> Q(e, y)]
        BY <2>0, <3>1, Zenon
      <4> QED
        BY <2>0, <4>1, Zenon
    <3> QED
      BY <3>2, Zenon DEF Q
  <2>4. timer_advance(d, l, cont, e) =
           IF e <= d THEN [counter |-> d - e, uf |-> 0]
           ELSE IF ~ cont THEN [counter |-> 0, uf |-> 1]
           ELSE LET rest == timer_advance(l, l, cont, e - (d + 1))
                IN  [counter |-> rest.counter, uf |-> rest.uf + 1]
    BY <2>0, EventsRound, ZenonT(60)
  <2>2. CASE e <= d
    <3>1. g[e][d] = [counter |-> d - e, uf |-> 0]
      BY <2>1, <2>2, Zenon
    <3>2. timer_advance(d, l, cont, e) = [counter |-> d - e, uf |-> 0]
      BY <2>2, <2>4, Zenon
    <3> QED
      BY <3>1, <3>2, Zenon
  <2>5. CASE ~(e <= d) /\ ~cont
    <3>1. g[e][d] = [counter |-> 0, uf |-> 1]
      BY <2>1, <2>5, Zenon
    <3>2. timer_advance(d, l, cont, e) = [counter |-> 0, uf |-> 1]
      BY <2>4, <2>5, Zenon
    <3> QED
      BY <3>1, <3>2, Zenon
  <2>3. CASE ~(e <= d) /\ cont
    <3>1. e - (d + 1) \in 0..pulses /\ e - (d + 1) < e
      BY <2>0, <2>3
    <3>2. g[e - (d + 1)][l] = timer_advance(l, l, cont, e - (d + 1))
      BY <1>1, <3>1, Zenon
    <3>3. PICK rest : rest = timer_advance(l, l, cont, e - (d + 1))
      OBVIOUS
    <3>4. timer_advance(d, l, cont, e) = [counter |-> rest.counter, uf |-> rest.uf + 1]
      BY <2>3, <2>4, <3>3, Zenon
    <3> QED
      BY <2>1, <2>3, <3>2, <3>3, <3>4, Zenon
  <2> QED
    BY <2>2, <2>3, <2>5
<1> HIDE DEF Good
<1>2. 0 \in S
  <2>1. 0 \in 0..pulses /\ \A f \in 0..pulses : ~(f < 0) /\ (f <= 0 => f = 0)
    OBVIOUS
  <2>2. Good(0)
    BY <1>1, <2>1, Zenon
  <2> QED
    BY <2>1, <2>2, Zenon
<1>3. ASSUME NEW k \in Nat, k \in S, k + 1 \in 0..pulses PROVE k + 1 \in S
  <2>1. \A f \in 0..pulses : f < k + 1 => f <= k
    OBVIOUS
  <2>2. Good(k + 1)
    BY <1>1, <1>3, <2>1, Zenon
  <2>3. \A f \in 0..pulses : f <= k + 1 => f <= k \/ f = k + 1
    OBVIOUS
  <2>4. k + 1 \in Nat
    OBVIOUS
  <2> QED
    BY <1>3, <2>2, <2>3, <2>4, Zenon
<1> HIDE DEF S
<1>4. pulses \in S
  BY <1>2, <1>3, BoundedInduction, Zenon
<1>5. pulses \in 0..pulses /\ pulses <= pulses
  OBVIOUS
<1> QED
  BY <1>4, <1>5, Zenon DEF S, Good

LEMMA MaxCountNat == MaxCount \in Nat
<1>1. Byte * Byte \in Nat /\ Byte * Byte >= 1
  BY CiaTimersAssumption
<1> QED
  BY <1>1 DEF MaxCount

LEMMA EventsAdvance ==
    ASSUME NEW c \in 0..MaxCount, NEW l \in 0..MaxCount, NEW cont \in BOOLEAN,
           NEW pulses \in Nat
    PROVE  timer_advance_events(c, l, cont, pulses) = timer_advance(c, l, cont, pulses)
<1>1. PICK g : EventsEq(g, l, cont, pulses)
  BY EventsSolved, MaxCountNat, Zenon
<1>2. PICK h : h = CHOOSE f : EventsEq(f, l, cont, pulses)
  OBVIOUS
<1>3. EventsEq(h, l, cont, pulses)
  BY <1>1, <1>2, Zenon
<1>4. timer_advance_events(c, l, cont, pulses) = h[pulses][c]
  BY <1>2, EventsAt, Zenon
<1> QED
  BY <1>3, <1>4, EventsUnique, MaxCountNat, ZenonT(60)

-----------------------------------------------------------------------------
(* The serial port's own state.                                            *)
V(sh, bu, bf, fu, wi, st) ==
    [shift |-> sh, busy |-> bu, buffer |-> bf, full |-> fu, wire |-> wi, started |-> st]

View(k) == V(k.serial_out_shift, k.serial_out_busy, k.serial_out_buffer,
             k.serial_out_buffer_full, k.wire, k.started)

ViewRec == [shift: Seq({0, 1}), busy: BOOLEAN, buffer: SdrByte, full: BOOLEAN,
            wire: Seq({0, 1}), started: Seq(SdrByte)]

Views == {v \in ViewRec : v.busy = (v.shift # <<>>)}

(* serial_start_output, the end of a bit, and an underflow, as they act on *)
(* that state.                                                             *)
Begin(v) ==
    IF v.busy \/ ~v.full THEN v
    ELSE V(v.buffer, TRUE, v.buffer, FALSE, v.wire, Append(v.started, v.buffer))

Out(v) == V(Tail(v.shift), v.busy, v.buffer, v.full, Append(v.wire, Head(v.shift)), v.started)

Done(v) == V(v.shift, FALSE, v.buffer, v.full, v.wire, v.started)

BitOut(v) ==
    LET b == Begin(v)
    IN  IF ~b.busy THEN b
        ELSE IF Tail(b.shift) # <<>> THEN Out(b)
        ELSE Begin(Done(Out(b)))

(* Bytes that have left completely.                                        *)
Fin(v) == Len(v.started) - (IF v.busy THEN 1 ELSE 0)

(* Everything but the serial output, the ICR's data and port B.            *)
SameRest(k, e) ==
    /\ e.cra = k.cra /\ e.crb = k.crb
    /\ e.ta_latch = k.ta_latch /\ e.ta_counter = k.ta_counter
    /\ e.tb_latch = k.tb_latch /\ e.tb_counter = k.tb_counter
    /\ e.icr_mask = k.icr_mask /\ e.cnt_level = k.cnt_level
    /\ e.sp_input_level = k.sp_input_level /\ e.flag_level = k.flag_level
    /\ e.sdr = k.sdr /\ e.sdr_full = k.sdr_full /\ e.serial_in = k.serial_in

SameIcr(k, e) == e.icr_data = k.icr_data /\ e.irq_asserted = k.irq_asserted

Pending(k) == k.icr_data \cap k.icr_mask # {}

LEMMA VType ==
    ASSUME NEW sh \in Seq({0, 1}), NEW bu \in BOOLEAN, NEW bf \in SdrByte,
           NEW fu \in BOOLEAN, NEW wi \in Seq({0, 1}), NEW st \in Seq(SdrByte)
    PROVE  V(sh, bu, bf, fu, wi, st) \in ViewRec
BY Zenon DEF V, ViewRec

LEMMA ChipView ==
    ASSUME NEW k \in ChipType
    PROVE  View(k) \in ViewRec
<1>1. /\ k.serial_out_shift \in Seq({0, 1}) /\ k.serial_out_busy \in BOOLEAN
      /\ k.serial_out_buffer \in SdrByte /\ k.serial_out_buffer_full \in BOOLEAN
      /\ k.wire \in Seq({0, 1}) /\ k.started \in Seq(SdrByte)
  BY Zenon DEF ChipType
<1> QED
  BY <1>1, VType, Zenon DEF View

LEMMA RaiseFacts ==
    ASSUME NEW k \in ChipType, NEW s \in SUBSET IcrBits
    PROVE  LET e == cia_raise(k, s)
           IN  /\ e \in ChipType /\ SameRest(k, e) /\ View(e) = View(k)
               /\ e.icr_data = k.icr_data \cup s /\ e.irq_asserted = Pending(e)
<1>1. k.icr_data \in SUBSET IcrBits /\ k.icr_mask \in SUBSET IcrBits
  BY Zenon DEF ChipType
<1>2. PICK d \in SUBSET IcrBits : d = k.icr_data \cup s
  BY <1>1, Zenon
<1>3. PICK u : u = [k EXCEPT !.icr_data = d]
  OBVIOUS
<1>4. u \in ChipType /\ SameRest(k, u) /\ View(u) = View(k) /\ u.icr_data = d
  <2>1. u \in ChipType
    BY <1>2, <1>3, Zenon DEF ChipType
  <2>2. SameRest(k, u)
    BY <1>3, Zenon DEF ChipType, SameRest
  <2>3. u.icr_data = d
    BY <1>3, Zenon DEF ChipType
  <2>4. View(u) = View(k)
    BY <1>3, Zenon DEF ChipType, View
  <2> QED
    BY <2>1, <2>2, <2>3, <2>4
<1>5. PICK b \in BOOLEAN : b = Pending(u)
  BY Zenon DEF Pending
<1>6. PICK e : e = [u EXCEPT !.irq_asserted = b]
  OBVIOUS
<1>7. e \in ChipType /\ SameRest(u, e) /\ View(e) = View(u)
      /\ e.icr_data = u.icr_data /\ e.irq_asserted = b /\ e.icr_mask = u.icr_mask
  <2>1. e \in ChipType
    BY <1>4, <1>5, <1>6, Zenon DEF ChipType
  <2>2. SameRest(u, e)
    BY <1>4, <1>6, Zenon DEF ChipType, SameRest
  <2>3. e.irq_asserted = b /\ e.icr_data = u.icr_data /\ e.icr_mask = u.icr_mask
    BY <1>4, <1>6, Zenon DEF ChipType
  <2>4. View(e) = View(u)
    BY <1>4, <1>6, Zenon DEF ChipType, View
  <2> QED
    BY <2>1, <2>2, <2>3, <2>4
<1>8. cia_raise(k, s) = e
  BY <1>2, <1>3, <1>5, <1>6, Zenon DEF cia_raise, sync_irq_line, cia_irq_pending, Pending
<1>9. SameRest(k, e)
  BY <1>4, <1>7, Zenon DEF SameRest
<1>10. Pending(e) = Pending(u)
  BY <1>7, Zenon DEF Pending
<1> QED
  BY <1>2, <1>4, <1>5, <1>7, <1>8, <1>9, <1>10, Zenon

LEMMA Appended ==
    ASSUME NEW S, NEW s \in Seq(S), NEW x \in S
    PROVE  Append(s, x) \in Seq(S) /\ Len(Append(s, x)) = Len(s) + 1 /\ Len(s) \in Nat
OBVIOUS

LEMMA Shifted ==
    ASSUME NEW S, NEW s \in Seq(S), s # <<>>
    PROVE  Head(s) \in S /\ Tail(s) \in Seq(S) /\ Len(Tail(s)) = Len(s) - 1
OBVIOUS

LEMMA BytesAreBits ==
    ASSUME NEW b \in SdrByte
    PROVE  b \in Seq({0, 1}) /\ b # <<>> /\ Len(b) = SerialBits
<1>1. SerialBits \in Nat \ {0}
  BY CiaTimersAssumption
<1>2. b \in [1..SerialBits -> {0, 1}]
  BY DEF SdrByte
<1>3. b \in Seq({0, 1}) /\ Len(b) = SerialBits
  BY <1>1, <1>2
<1>4. Len(b) # 0
  BY <1>1, <1>3
<1>5. Len(<<>>) = 0
  OBVIOUS
<1> QED
  BY <1>3, <1>4, <1>5, Zenon

(* Beginning a byte.                                                       *)
LEMMA BeginType ==
    ASSUME NEW v \in ViewRec
    PROVE  /\ Begin(v) \in ViewRec /\ Fin(Begin(v)) = Fin(v)
           /\ v \in Views => Begin(v) \in Views
<1>1. /\ v.shift \in Seq({0, 1}) /\ v.busy \in BOOLEAN /\ v.buffer \in SdrByte
      /\ v.full \in BOOLEAN /\ v.wire \in Seq({0, 1}) /\ v.started \in Seq(SdrByte)
  BY Zenon DEF ViewRec
<1>2. CASE v.busy \/ ~v.full
  BY <1>2, Zenon DEF Begin
<1>3. CASE ~(v.busy \/ ~v.full)
  <2>1. v.buffer \in Seq({0, 1}) /\ v.buffer # <<>>
    BY <1>1, BytesAreBits, Zenon
  <2>2. PICK st \in Seq(SdrByte) : st = Append(v.started, v.buffer)
    BY <1>1, Appended, Zenon
  <2>3. PICK e : e = V(v.buffer, TRUE, v.buffer, FALSE, v.wire, st)
    OBVIOUS
  <2>4. Begin(v) = e
    BY <1>3, <2>2, <2>3, Zenon DEF Begin
  <2>5. e \in ViewRec
    BY <1>1, <2>1, <2>2, <2>3, VType, Zenon
  <2>6. e.busy = TRUE /\ e.started = st /\ e.shift = v.buffer
    BY <2>3, Zenon DEF V
  <2>7. Len(st) = Len(v.started) + 1 /\ Len(v.started) \in Nat
    BY <1>1, <2>2, Appended, Zenon
  <2>8. Fin(e) = Len(st) - 1
    BY <2>6, Zenon DEF Fin
  <2>9. Fin(v) = Len(v.started) - 0
    BY <1>3, Zenon DEF Fin
  <2>10. Fin(e) = Fin(v)
    BY <2>7, <2>8, <2>9
  <2>11. e \in Views
    BY <2>1, <2>5, <2>6, Zenon DEF Views
  <2> QED
    BY <2>4, <2>5, <2>10, <2>11, Zenon
<1> QED
  BY <1>2, <1>3

LEMMA StartFacts ==
    ASSUME NEW k \in ChipType
    PROVE  LET e == serial_start_output(k)
           IN  /\ e \in ChipType /\ SameRest(k, e) /\ SameIcr(k, e)
               /\ View(e) = Begin(View(k))
<1>1. /\ k.serial_out_shift \in Seq({0, 1}) /\ k.serial_out_busy \in BOOLEAN
      /\ k.serial_out_buffer \in SdrByte /\ k.serial_out_buffer_full \in BOOLEAN
      /\ k.wire \in Seq({0, 1}) /\ k.started \in Seq(SdrByte)
  BY Zenon DEF ChipType
<1>2. /\ View(k).shift = k.serial_out_shift /\ View(k).busy = k.serial_out_busy
      /\ View(k).buffer = k.serial_out_buffer /\ View(k).full = k.serial_out_buffer_full
      /\ View(k).wire = k.wire /\ View(k).started = k.started
  BY Zenon DEF V, View
<1>3. CASE k.serial_out_busy \/ ~ k.serial_out_buffer_full
  BY <1>2, <1>3, Zenon DEF serial_start_output, Begin, SameRest, SameIcr
<1>4. CASE ~(k.serial_out_busy \/ ~ k.serial_out_buffer_full)
  <2>1. k.serial_out_buffer \in Seq({0, 1})
    BY <1>1, BytesAreBits, Zenon
  <2>2. PICK st \in Seq(SdrByte) : st = Append(k.started, k.serial_out_buffer)
    BY <1>1, Appended, Zenon
  <2>3. PICK sh \in Seq({0, 1}) : sh = k.serial_out_buffer
    BY <2>1
  <2>4. PICK e : e = [k EXCEPT !.serial_out_shift = sh, !.serial_out_busy = TRUE,
                               !.serial_out_buffer_full = FALSE, !.started = st]
    OBVIOUS
  <2>5. serial_start_output(k) = e
    BY <1>4, <2>2, <2>3, <2>4, Zenon DEF serial_start_output
  <2>6. e \in ChipType
    BY <2>2, <2>3, <2>4, Zenon DEF ChipType
  <2>7. SameRest(k, e)
    BY <2>4, Zenon DEF ChipType, SameRest
  <2>8. SameIcr(k, e)
    BY <2>4, Zenon DEF ChipType, SameIcr
  <2>9. /\ e.serial_out_shift = sh /\ e.serial_out_busy = TRUE
        /\ e.serial_out_buffer = k.serial_out_buffer
        /\ e.serial_out_buffer_full = FALSE /\ e.wire = k.wire /\ e.started = st
    BY <2>4, Zenon DEF ChipType
  <2>10. View(e) = V(sh, TRUE, k.serial_out_buffer, FALSE, k.wire, st)
    BY <2>9, Zenon DEF View
  <2>11. Begin(View(k)) = V(sh, TRUE, k.serial_out_buffer, FALSE, k.wire, st)
    BY <1>2, <1>4, <2>2, <2>3, Zenon DEF Begin
  <2> QED
    BY <2>5, <2>6, <2>7, <2>8, <2>10, <2>11, Zenon
<1> QED
  BY <1>3, <1>4

(* A bit going out.                                                        *)
LEMMA OutType ==
    ASSUME NEW v \in Views, v.busy
    PROVE  /\ Out(v) \in ViewRec /\ Out(v).shift = Tail(v.shift) /\ Out(v).busy = TRUE
           /\ Out(v).started = v.started /\ Fin(Out(v)) = Fin(v)
           /\ Done(Out(v)) \in ViewRec /\ Fin(Done(Out(v))) = Fin(v) + 1
           /\ Tail(v.shift) = <<>> => Done(Out(v)) \in Views
<1>1. /\ v.shift \in Seq({0, 1}) /\ v.busy \in BOOLEAN /\ v.buffer \in SdrByte
      /\ v.full \in BOOLEAN /\ v.wire \in Seq({0, 1}) /\ v.started \in Seq(SdrByte)
      /\ v.shift # <<>>
  BY Zenon DEF ViewRec, Views
<1>2. PICK sh \in Seq({0, 1}) : sh = Tail(v.shift)
  BY <1>1, Shifted, Zenon
<1>3. PICK w \in Seq({0, 1}) : w = Append(v.wire, Head(v.shift))
  BY <1>1, Shifted, Appended, Zenon
<1>4. PICK o : o = V(sh, v.busy, v.buffer, v.full, w, v.started)
  OBVIOUS
<1>5. Out(v) = o
  BY <1>2, <1>3, <1>4, Zenon DEF Out
<1>6. o.shift = sh /\ o.busy = TRUE /\ o.buffer = v.buffer /\ o.full = v.full
      /\ o.wire = w /\ o.started = v.started
  BY <1>4, Zenon DEF V
<1>7. o \in ViewRec
  BY <1>1, <1>2, <1>3, <1>4, VType, Zenon
<1>8. PICK e : e = V(sh, FALSE, v.buffer, v.full, w, v.started)
  OBVIOUS
<1>9. Done(o) = e
  BY <1>6, <1>8, Zenon DEF Done
<1>10. e \in ViewRec
  BY <1>1, <1>2, <1>3, <1>8, VType, Zenon
<1>11. e.busy = FALSE /\ e.started = v.started /\ e.shift = sh
  BY <1>8, Zenon DEF V
<1>12. Fin(o) = Len(v.started) - 1 /\ Fin(v) = Len(v.started) - 1 /\ Fin(e) = Len(v.started) - 0
  BY <1>6, <1>11, Zenon DEF Fin
<1>13. Len(v.started) \in Nat
  BY <1>1
<1>14. Fin(o) = Fin(v) /\ Fin(e) = Fin(v) + 1
  BY <1>12, <1>13
<1>15. sh = <<>> => e \in Views
  BY <1>10, <1>11, Zenon DEF Views
<1> QED
  BY <1>2, <1>5, <1>6, <1>7, <1>9, <1>10, <1>14, <1>15, Zenon

LEMMA BitType ==
    ASSUME NEW v \in Views
    PROVE  /\ BitOut(v) \in Views /\ Fin(v) \in Int
           /\ Fin(BitOut(v)) = Fin(v) \/ Fin(BitOut(v)) = Fin(v) + 1
<1>0. v \in ViewRec
  BY Zenon DEF Views
<1>6. Fin(v) \in Int
  <2>1. v.started \in Seq(SdrByte)
    BY <1>0, Zenon DEF ViewRec
  <2>2. Len(v.started) \in Nat
    BY <2>1
  <2> QED
    BY <2>2 DEF Fin
<1>1. PICK b : b = Begin(v)
  OBVIOUS
<1>2. b \in Views /\ Fin(b) = Fin(v)
  BY <1>0, <1>1, BeginType, Zenon
<1>3. CASE ~b.busy
  BY <1>1, <1>2, <1>3, <1>6, Zenon DEF BitOut
<1>4. CASE b.busy /\ Tail(b.shift) # <<>>
  <2>1. BitOut(v) = Out(b)
    BY <1>1, <1>4, Zenon DEF BitOut
  <2>2. Out(b) \in ViewRec /\ Out(b).shift = Tail(b.shift) /\ Out(b).busy = TRUE /\ Fin(Out(b)) = Fin(b)
    BY <1>2, <1>4, OutType, Zenon
  <2>3. Out(b) \in Views
    BY <1>4, <2>2, Zenon DEF Views
  <2> QED
    BY <1>2, <1>6, <2>1, <2>2, <2>3, Zenon
<1>5. CASE b.busy /\ Tail(b.shift) = <<>>
  <2>1. BitOut(v) = Begin(Done(Out(b)))
    BY <1>1, <1>5, Zenon DEF BitOut
  <2>2. PICK e : e = Done(Out(b))
    OBVIOUS
  <2>3. e \in ViewRec /\ Fin(e) = Fin(b) + 1 /\ e \in Views
    BY <1>2, <1>5, <2>2, OutType, Zenon
  <2>4. Begin(e) \in Views /\ Fin(Begin(e)) = Fin(e)
    BY <2>3, BeginType, Zenon
  <2> QED
    BY <1>2, <1>6, <2>1, <2>2, <2>3, <2>4, Zenon
<1> QED
  BY <1>3, <1>4, <1>5

-----------------------------------------------------------------------------
(* A chip whose interrupt line follows its ICR and whose serial port is    *)
(* busy exactly while it has bits to send.                                 *)
Chips == {k \in ChipType : /\ View(k) \in Views
                           /\ Len(k.serial_in) < SerialBits
                           /\ k.irq_asserted = Pending(k)}

BitsOf(out) == [v \in Views |-> IF out THEN BitOut(v) ELSE v]

SpOf(v, w) == IF Fin(w) > Fin(v) THEN {"SP"} ELSE {}

(* What an operation on the serial output does to a chip.                  *)
Serially(k, e, w) ==
    /\ e \in Chips /\ SameRest(k, e) /\ View(e) = w
    /\ e.icr_data = k.icr_data \cup SpOf(View(k), w)
    /\ Fin(View(k)) <= Fin(w)

LEMMA OutFacts ==
    ASSUME NEW b \in ChipType, View(b) \in Views, b.serial_out_busy,
           NEW o, o = [b EXCEPT !.wire = Append(@, Head(b.serial_out_shift)),
                                !.serial_out_shift = Tail(@)]
    PROVE  /\ o \in ChipType /\ SameRest(b, o) /\ SameIcr(b, o) /\ View(o) = Out(View(b))
           /\ o.serial_out_shift = Tail(View(b).shift)
<1>1. /\ View(b).shift = b.serial_out_shift /\ View(b).busy = b.serial_out_busy
      /\ View(b).buffer = b.serial_out_buffer /\ View(b).full = b.serial_out_buffer_full
      /\ View(b).wire = b.wire /\ View(b).started = b.started
  BY Zenon DEF V, View
<1>2. b.serial_out_shift \in Seq({0, 1}) /\ b.wire \in Seq({0, 1})
  BY Zenon DEF ChipType
<1>3. b.serial_out_shift # <<>>
  BY <1>1, Zenon DEF Views
<1>4. PICK w \in Seq({0, 1}) : w = Append(b.wire, Head(b.serial_out_shift))
  BY <1>2, <1>3, Shifted, Appended, Zenon
<1>5. PICK sh \in Seq({0, 1}) : sh = Tail(b.serial_out_shift)
  BY <1>2, <1>3, Shifted, Zenon
<1>6. o = [b EXCEPT !.wire = w, !.serial_out_shift = sh]
  BY <1>4, <1>5, Zenon
<1>7. o \in ChipType
  BY <1>4, <1>5, <1>6, ZenonT(60) DEF ChipType
<1>8. SameRest(b, o)
  BY <1>6, Zenon DEF ChipType, SameRest
<1>9. SameIcr(b, o)
  BY <1>6, Zenon DEF ChipType, SameIcr
<1>10. /\ o.serial_out_shift = sh /\ o.serial_out_busy = b.serial_out_busy
       /\ o.serial_out_buffer = b.serial_out_buffer
       /\ o.serial_out_buffer_full = b.serial_out_buffer_full
       /\ o.wire = w /\ o.started = b.started
  BY <1>6, Zenon DEF ChipType
<1>11. View(o) = Out(View(b))
  BY <1>1, <1>4, <1>5, <1>10, Zenon DEF View, Out
<1> QED
  BY <1>1, <1>5, <1>7, <1>8, <1>9, <1>10, <1>11, Zenon

LEMMA DoneFacts ==
    ASSUME NEW o \in ChipType, NEW e, e = [o EXCEPT !.serial_out_busy = FALSE]
    PROVE  e \in ChipType /\ SameRest(o, e) /\ SameIcr(o, e) /\ View(e) = Done(View(o))
<1>1. e \in ChipType
  BY Zenon DEF ChipType
<1>2. SameRest(o, e)
  BY Zenon DEF ChipType, SameRest
<1>3. SameIcr(o, e)
  BY Zenon DEF ChipType, SameIcr
<1>4. /\ View(o).shift = o.serial_out_shift
      /\ View(o).buffer = o.serial_out_buffer /\ View(o).full = o.serial_out_buffer_full
      /\ View(o).wire = o.wire /\ View(o).started = o.started
  BY Zenon DEF V, View
<1>5. /\ e.serial_out_shift = o.serial_out_shift /\ e.serial_out_busy = FALSE
      /\ e.serial_out_buffer = o.serial_out_buffer
      /\ e.serial_out_buffer_full = o.serial_out_buffer_full
      /\ e.wire = o.wire /\ e.started = o.started
  BY Zenon DEF ChipType
<1>6. View(e) = Done(View(o))
  BY <1>4, <1>5, Zenon DEF View, Done
<1> QED
  BY <1>1, <1>2, <1>3, <1>6

(* SameRest and SameIcr keep what Chips asks for besides the view.         *)
LEMMA RestKept ==
    ASSUME NEW k \in Chips, NEW e \in ChipType, SameRest(k, e), View(e) \in Views
    PROVE  /\ SameIcr(k, e) => e \in Chips
           /\ e.irq_asserted = Pending(e) => e \in Chips
<1>1. Len(e.serial_in) < SerialBits
  BY Zenon DEF Chips, SameRest
<1>2. SameIcr(k, e) => e.irq_asserted = Pending(e)
  BY Zenon DEF Chips, SameRest, SameIcr, Pending
<1> QED
  BY <1>1, <1>2, Zenon DEF Chips

LEMMA UnderflowFacts ==
    ASSUME NEW k \in Chips
    PROVE  Serially(k, serial_on_timer_a_underflow(k), BitsOf("b6" \in k.cra)[View(k)])
<1>0. k \in ChipType /\ View(k) \in Views
  BY Zenon DEF Chips
<1>1. PICK v \in Views : v = View(k)
  BY <1>0
<1>2. Fin(v) \in Int
  BY BitType
<1>3. CASE "b6" \notin k.cra
  <2>1. serial_on_timer_a_underflow(k) = k
    BY <1>3, Zenon DEF serial_on_timer_a_underflow
  <2>2. BitsOf("b6" \in k.cra)[View(k)] = v
    BY <1>1, <1>3, Zenon DEF BitsOf
  <2>3. SpOf(v, v) = {} /\ Fin(v) <= Fin(v)
    BY <1>2 DEF SpOf
  <2>4. k.icr_data = k.icr_data \cup {}
    BY Zenon
  <2> QED
    BY <1>1, <2>1, <2>2, <2>3, <2>4, Zenon DEF Serially, SameRest
<1>4. CASE "b6" \in k.cra
  <2>1. BitsOf("b6" \in k.cra)[View(k)] = BitOut(v)
    BY <1>1, <1>4, Zenon DEF BitsOf
  <2>2. PICK b : b = serial_start_output(k)
    OBVIOUS
  <2>3. b \in ChipType /\ SameRest(k, b) /\ SameIcr(k, b) /\ View(b) = Begin(v)
    BY <1>0, <1>1, <2>2, StartFacts, Zenon
  <2>4. v \in ViewRec
    BY Zenon DEF Views
  <2>5. Begin(v) \in Views /\ Fin(Begin(v)) = Fin(v)
    BY <2>4, BeginType, Zenon
  <2>6. Begin(v).busy = b.serial_out_busy /\ Begin(v).shift = b.serial_out_shift
    <3>1. View(b).busy = b.serial_out_busy /\ View(b).shift = b.serial_out_shift
      BY Zenon DEF V, View
    <3> QED
      BY <2>3, <3>1, Zenon
  <2>7. PICK o : o = [b EXCEPT !.wire = Append(@, Head(b.serial_out_shift)),
                               !.serial_out_shift = Tail(@)]
    OBVIOUS
  <2>8. CASE ~ b.serial_out_busy
    <3>1. serial_on_timer_a_underflow(k) = b
      BY <1>4, <2>2, <2>8, Zenon DEF serial_on_timer_a_underflow
    <3>2. BitOut(v) = Begin(v)
      BY <2>6, <2>8, Zenon DEF BitOut
    <3>3. SpOf(v, Begin(v)) = {} /\ Fin(v) <= Fin(Begin(v))
      BY <1>2, <2>5 DEF SpOf
    <3>4. b \in Chips
      BY <2>3, <2>5, RestKept, Zenon
    <3>5. b.icr_data = k.icr_data \cup {}
      BY <2>3, Zenon DEF SameIcr
    <3> QED
      BY <1>1, <2>1, <2>3, <3>1, <3>2, <3>3, <3>4, <3>5, Zenon DEF Serially
  <2>9. CASE b.serial_out_busy
    <3>1. /\ o \in ChipType /\ SameRest(b, o) /\ SameIcr(b, o) /\ View(o) = Out(View(b))
          /\ o.serial_out_shift = Tail(View(b).shift)
      BY <2>3, <2>5, <2>7, <2>9, OutFacts, Zenon
    <3>2. PICK c \in Views : c = Begin(v) /\ c.busy /\ View(o) = Out(c) /\ View(b) = c
      BY <2>3, <2>5, <2>6, <2>9, <3>1, Zenon
    <3>3. o.serial_out_shift = Tail(c.shift)
      BY <3>1, <3>2, Zenon
    <3>4. SameRest(k, o) /\ SameIcr(k, o)
      BY <2>3, <3>1, Zenon DEF SameRest, SameIcr
    <3>5. /\ Out(c) \in ViewRec /\ Out(c).shift = Tail(c.shift) /\ Out(c).busy = TRUE
          /\ Fin(Out(c)) = Fin(c)
          /\ Done(Out(c)) \in ViewRec /\ Fin(Done(Out(c))) = Fin(c) + 1
          /\ Tail(c.shift) = <<>> => Done(Out(c)) \in Views
      BY <3>2, OutType, Zenon
    <3>6. CASE o.serial_out_shift # <<>>
      <4>1. serial_on_timer_a_underflow(k) = o
        BY <1>4, <2>2, <2>7, <2>9, <3>6, Zenon DEF serial_on_timer_a_underflow
      <4>2. BitOut(v) = Out(c)
        BY <3>2, <3>3, <3>6, Zenon DEF BitOut
      <4>3. SpOf(v, Out(c)) = {} /\ Fin(v) <= Fin(Out(c))
        BY <1>2, <2>5, <3>2, <3>5 DEF SpOf
      <4>4. Out(c) \in Views
        BY <3>3, <3>5, <3>6, Zenon DEF Views
      <4>5. o \in Chips
        BY <3>1, <3>2, <3>4, <4>4, RestKept, Zenon
      <4>6. o.icr_data = k.icr_data \cup {}
        BY <3>4, Zenon DEF SameIcr
      <4> QED
        BY <1>1, <2>1, <3>2, <3>4, <4>1, <4>2, <4>3, <4>5, <4>6, Zenon DEF Serially
    <3>7. CASE o.serial_out_shift = <<>>
      <4>1. PICK p : p = [o EXCEPT !.serial_out_busy = FALSE]
        OBVIOUS
      <4>2. p \in ChipType /\ SameRest(o, p) /\ SameIcr(o, p) /\ View(p) = Done(View(o))
        BY <3>1, <4>1, DoneFacts, Zenon
      <4>3. PICK r : r = cia_raise(p, {"SP"})
        OBVIOUS
      <4>4. {"SP"} \in SUBSET IcrBits
        BY Zenon DEF IcrBits
      <4>5. /\ r \in ChipType /\ SameRest(p, r) /\ View(r) = View(p)
            /\ r.icr_data = p.icr_data \cup {"SP"} /\ r.irq_asserted = Pending(r)
        BY <4>2, <4>3, <4>4, RaiseFacts, Zenon
      <4>6. PICK f : f = serial_start_output(r)
        OBVIOUS
      <4>7. f \in ChipType /\ SameRest(r, f) /\ SameIcr(r, f) /\ View(f) = Begin(View(r))
        BY <4>5, <4>6, StartFacts, Zenon
      <4>8. serial_on_timer_a_underflow(k) = f
        BY <1>4, <2>2, <2>7, <2>9, <3>7, <4>1, <4>3, <4>6, Zenon
          DEF serial_on_timer_a_underflow
      <4>9. PICK d \in Views : d = Done(Out(c)) /\ Fin(d) = Fin(c) + 1
        BY <3>3, <3>5, <3>7, Zenon
      <4>10. View(f) = Begin(d)
        BY <3>2, <4>2, <4>5, <4>7, <4>9, Zenon
      <4>11. d \in ViewRec
        BY <4>9, Zenon DEF Views
      <4>12. Begin(d) \in Views /\ Fin(Begin(d)) = Fin(d)
        BY <4>9, <4>11, BeginType, Zenon
      <4>13. BitOut(v) = Begin(d)
        BY <3>2, <3>3, <3>7, <4>9, Zenon DEF BitOut
      <4>14. SpOf(v, Begin(d)) = {"SP"} /\ Fin(v) <= Fin(Begin(d))
        BY <1>2, <2>5, <3>2, <4>9, <4>12 DEF SpOf
      <4>15. SameRest(k, f)
        BY <3>4, <4>2, <4>5, <4>7, Zenon DEF SameRest
      <4>16. f.icr_data = k.icr_data \cup {"SP"}
        BY <3>4, <4>2, <4>5, <4>7, Zenon DEF SameIcr
      <4>17. f.irq_asserted = Pending(f)
        BY <4>5, <4>7, Zenon DEF SameIcr, SameRest, Pending
      <4>18. f \in Chips
        BY <4>7, <4>10, <4>12, <4>15, <4>17, RestKept, Zenon
      <4> QED
        BY <1>1, <2>1, <4>8, <4>10, <4>13, <4>14, <4>15, <4>16, <4>18, Zenon DEF Serially
    <3> QED
      BY <3>6, <3>7
  <2> QED
    BY <2>8, <2>9
<1> QED
  BY <1>3, <1>4

LEMMA SeriallyThen ==
    ASSUME NEW k \in Chips, NEW e, NEW w, NEW f, NEW x,
           Serially(k, e, w), Serially(e, f, x)
    PROVE  Serially(k, f, x)
<1>1. e \in Chips /\ f \in Chips /\ View(e) = w /\ View(f) = x
  BY Zenon DEF Serially
<1>2. View(k) \in Views /\ w \in Views /\ x \in Views
  BY <1>1, Zenon DEF Chips
<1>3. Fin(View(k)) \in Int /\ Fin(w) \in Int /\ Fin(x) \in Int
  BY <1>2, BitType, Zenon
<1>4. Fin(View(k)) <= Fin(w) /\ Fin(w) <= Fin(x)
  BY <1>1, Zenon DEF Serially
<1>5. /\ Fin(View(k)) <= Fin(x)
      /\ Fin(x) > Fin(View(k)) <=> (Fin(w) > Fin(View(k)) \/ Fin(x) > Fin(w))
  BY <1>3, <1>4
<1>6. SpOf(View(k), x) = SpOf(View(k), w) \cup SpOf(w, x)
  BY <1>5, Zenon DEF SpOf
<1>7. f.icr_data = (k.icr_data \cup SpOf(View(k), w)) \cup SpOf(w, x)
  BY <1>1, Zenon DEF Serially
<1>8. f.icr_data = k.icr_data \cup SpOf(View(k), x)
  BY <1>6, <1>7, Zenon
<1>9. SameRest(k, f)
  BY Zenon DEF Serially, SameRest
<1> QED
  BY <1>1, <1>5, <1>8, <1>9, Zenon DEF Serially

LEMMA SeriallySame ==
    ASSUME NEW k \in Chips
    PROVE  Serially(k, k, View(k))
<1>1. View(k) \in Views
  BY Zenon DEF Chips
<1>2. Fin(View(k)) \in Int
  BY <1>1, BitType
<1>3. SpOf(View(k), View(k)) = {} /\ Fin(View(k)) <= Fin(View(k))
  BY <1>2 DEF SpOf
<1>4. k.icr_data = k.icr_data \cup {}
  BY Zenon
<1> QED
  BY <1>3, <1>4, Zenon DEF Serially, SameRest

(* The bits that several underflows send.                                  *)
ShiftEq(f, r, uf) ==
    f = [n \in 0..uf |-> IF n = 0 THEN r ELSE serial_on_timer_a_underflow(f[n - 1])]

LEMMA ShiftExists ==
    ASSUME NEW r \in Chips, NEW uf \in Nat
    PROVE  \E f : ShiftEq(f, r, uf)
<1> DEFINE F == [k \in Chips |-> serial_on_timer_a_underflow(k)]
<1>1. \A k \in Chips : F[k] \in Chips
  <2>1. ASSUME NEW k \in Chips PROVE F[k] \in Chips
    <3>1. Serially(k, serial_on_timer_a_underflow(k), BitsOf("b6" \in k.cra)[View(k)])
      BY UnderflowFacts, Zenon
    <3> QED
      BY <3>1, Zenon DEF Serially
  <2> QED
    BY <2>1
<1>2. \A k \in Chips : F[k] = serial_on_timer_a_underflow(k)
  BY Zenon
<1> HIDE DEF F
<1>3. PICK f : Run(F, r, uf, f)
  BY RunExists, Zenon
<1>4. f \in [0..uf -> Chips]
  BY <1>1, <1>3, RunInvariant, Zenon
<1>5. ASSUME NEW n \in 0..uf
      PROVE  (IF n = 0 THEN r ELSE F[f[n - 1]])
                = (IF n = 0 THEN r ELSE serial_on_timer_a_underflow(f[n - 1]))
  <2>1. CASE n = 0
    BY <2>1, Zenon
  <2>2. CASE n # 0
    <3>1. n - 1 \in 0..uf
      BY <2>2
    <3>2. f[n - 1] \in Chips
      BY <1>4, <3>1, Zenon
    <3> QED
      BY <1>2, <2>2, <3>2, Zenon
  <2> QED
    BY <2>1, <2>2
<1>6. f = [n \in 0..uf |-> IF n = 0 THEN r ELSE F[f[n - 1]]]
  BY <1>3, Zenon DEF Run
<1>7. [n \in 0..uf |-> IF n = 0 THEN r ELSE F[f[n - 1]]]
        = [n \in 0..uf |-> IF n = 0 THEN r ELSE serial_on_timer_a_underflow(f[n - 1])]
  BY <1>5, Zenon
<1> QED
  BY <1>6, <1>7, Zenon DEF ShiftEq

LEMMA ShiftIterates ==
    ASSUME NEW r \in Chips, NEW uf \in Nat, NEW f, ShiftEq(f, r, uf)
    PROVE  Serially(r, f[uf], Iterated(BitsOf("b6" \in r.cra), View(r), uf))
<1> DEFINE B == BitsOf("b6" \in r.cra)
           S == {i \in Nat : Serially(r, f[i], Iterated(B, View(r), i))}
<1>1. /\ Iterated(B, View(r), 0) = View(r)
      /\ \A n \in Nat : Iterated(B, View(r), n + 1) = B[Iterated(B, View(r), n)]
  BY IteratedSteps, Zenon
<1>2. f[0] = r /\ \A n \in Nat : n + 1 \in 0..uf => f[n + 1] = serial_on_timer_a_underflow(f[n])
  <2> DEFINE Q(n) == IF n = 0 THEN r ELSE serial_on_timer_a_underflow(f[n - 1])
  <2>1. f = [n \in 0..uf |-> Q(n)]
    BY Zenon DEF ShiftEq
  <2>2. Q(0) = r
    BY Zenon
  <2>3. ASSUME NEW n \in Nat PROVE Q(n + 1) = serial_on_timer_a_underflow(f[n])
    <3>1. n + 1 # 0 /\ (n + 1) - 1 = n
      OBVIOUS
    <3> QED
      BY <3>1, Zenon
  <2> HIDE DEF Q
  <2>4. 0 \in 0..uf
    OBVIOUS
  <2> QED
    BY <2>1, <2>2, <2>3, <2>4, Zenon
<1>3. 0 \in S
  <2>1. Serially(r, f[0], Iterated(B, View(r), 0))
    BY <1>1, <1>2, SeriallySame, Zenon
  <2>2. 0 \in Nat
    OBVIOUS
  <2> QED
    BY <2>1, <2>2, Zenon
<1>4. ASSUME NEW k \in Nat, k \in S, k + 1 \in 0..uf PROVE k + 1 \in S
  <2>1. PICK e : e = f[k]
    OBVIOUS
  <2>2. PICK w : w = Iterated(B, View(r), k)
    OBVIOUS
  <2>3. Serially(r, e, w)
    BY <1>4, <2>1, <2>2, Zenon
  <2>4. e \in Chips /\ View(e) = w /\ e.cra = r.cra
    BY <2>3, Zenon DEF Serially, SameRest
  <2>5. PICK g : g = serial_on_timer_a_underflow(e)
    OBVIOUS
  <2>8. PICK x : x = B[w]
    OBVIOUS
  <2>9. Serially(e, g, x)
    BY <2>4, <2>5, <2>8, UnderflowFacts, Zenon
  <2>6. Serially(r, g, x)
    BY <2>3, <2>9, SeriallyThen
  <2>7. k + 1 \in Nat
    OBVIOUS
  <2> QED
    BY <1>1, <1>2, <1>4, <2>1, <2>2, <2>5, <2>6, <2>7, <2>8, Zenon
<1> HIDE DEF S
<1>5. uf \in S
  BY <1>3, <1>4, BoundedInduction, Zenon
<1> QED
  BY <1>5, Zenon DEF S

-----------------------------------------------------------------------------
(* Port B: outputs change nothing else.                                    *)
PortOnly(k, e) ==
    e \in ChipType /\ SameRest(k, e) /\ SameIcr(k, e) /\ View(e) = View(k)

LEMMA PortWritten ==
    ASSUME NEW k \in ChipType, NEW m \in SUBSET {6, 7}, NEW o \in SUBSET {6, 7},
           NEW e, e = [k EXCEPT !.pb_pulse_mask = m, !.pb_timer_out = o]
    PROVE  PortOnly(k, e)
<1>1. e \in ChipType
  BY Zenon DEF ChipType
<1>2. SameRest(k, e)
  BY Zenon DEF ChipType, SameRest
<1>3. SameIcr(k, e)
  BY Zenon DEF ChipType, SameIcr
<1>4. View(e) = View(k)
  BY Zenon DEF ChipType, View
<1> QED
  BY <1>1, <1>2, <1>3, <1>4 DEF PortOnly

LEMMA OutputFacts ==
    ASSUME NEW k \in ChipType, NEW control, NEW uf
    PROVE  PortOnly(k, timer_apply_underflow_output(k, control, uf))
<1>0. k.pb_pulse_mask \in SUBSET {6, 7} /\ k.pb_timer_out \in SUBSET {6, 7}
  BY Zenon DEF ChipType
<1>1. PICK pin \in {6, 7} : pin = IF control = k.cra THEN 6 ELSE 7
  OBVIOUS
<1>2. PICK e : e = timer_apply_underflow_output(k, control, uf)
  OBVIOUS
<1>3. CASE "PBON" \notin control
  BY <1>3, Zenon DEF timer_apply_underflow_output, PortOnly, SameRest, SameIcr
<1>4. CASE "PBON" \in control /\ "OUTMODE" \in control
  <2>1. PICK m \in SUBSET {6, 7} : m = k.pb_pulse_mask \ {pin}
    BY <1>0
  <2>2. PICK o \in SUBSET {6, 7} :
           o = IF uf % 2 = 0 THEN k.pb_timer_out
               ELSE IF pin \in k.pb_timer_out THEN k.pb_timer_out \ {pin}
               ELSE k.pb_timer_out \cup {pin}
    <3>1. CASE uf % 2 = 0
      BY <1>0, <3>1, Zenon
    <3>2. CASE uf % 2 # 0
      BY <1>0, <1>1, <3>2, Zenon
    <3> QED
      BY <3>1, <3>2
  <2>3. e = [k EXCEPT !.pb_pulse_mask = m, !.pb_timer_out = o]
    BY <1>1, <1>2, <1>4, <2>1, <2>2, Zenon DEF timer_apply_underflow_output
  <2> QED
    BY <1>2, <2>1, <2>2, <2>3, PortWritten, Zenon
<1>5. CASE "PBON" \in control /\ "OUTMODE" \notin control
  <2>1. PICK m \in SUBSET {6, 7} : m = k.pb_pulse_mask \cup {pin}
    BY <1>0, <1>1
  <2>2. PICK o \in SUBSET {6, 7} : o = k.pb_timer_out \ {pin}
    BY <1>0
  <2>3. e = [k EXCEPT !.pb_pulse_mask = m, !.pb_timer_out = o]
    BY <1>1, <1>2, <1>5, <2>1, <2>2, Zenon DEF timer_apply_underflow_output
  <2> QED
    BY <1>2, <2>1, <2>2, <2>3, PortWritten, Zenon
<1> QED
  BY <1>3, <1>4, <1>5

LEMMA PulseFacts ==
    ASSUME NEW k \in ChipType
    PROVE  PortOnly(k, timers_advance_pb_outputs(k))
<1>0. k.pb_pulse_mask \in SUBSET {6, 7} /\ k.pb_timer_out \in SUBSET {6, 7}
  BY Zenon DEF ChipType
<1>1. PICK o \in SUBSET {6, 7} : o = k.pb_timer_out \cup k.pb_pulse_mask
  BY <1>0
<1>2. PICK e : e = [k EXCEPT !.pb_pulse_mask = {}, !.pb_timer_out = o]
  OBVIOUS
<1>3. timers_advance_pb_outputs(k) = [k EXCEPT !.pb_timer_out = o, !.pb_pulse_mask = {}]
  BY <1>1, Zenon DEF timers_advance_pb_outputs
<1>4. timers_advance_pb_outputs(k) = e
  BY <1>2, <1>3
<1>5. {} \in SUBSET {6, 7}
  OBVIOUS
<1> QED
  BY <1>1, <1>2, <1>4, <1>5, PortWritten, Zenon

(* The chip but for its timers' counters and control registers, serial     *)
(* output, ICR data and port B.                                            *)
Fixed(k, e) ==
    /\ e.ta_latch = k.ta_latch /\ e.tb_latch = k.tb_latch
    /\ e.icr_mask = k.icr_mask /\ e.cnt_level = k.cnt_level
    /\ e.sp_input_level = k.sp_input_level /\ e.flag_level = k.flag_level
    /\ e.sdr = k.sdr /\ e.sdr_full = k.sdr_full /\ e.serial_in = k.serial_in

TimerA(k, e) == e.ta_counter = k.ta_counter /\ e.cra = k.cra
TimerB(k, e) == e.tb_counter = k.tb_counter /\ e.crb = k.crb

LEMMA RestIs ==
    ASSUME NEW k, NEW e
    PROVE  SameRest(k, e) <=> Fixed(k, e) /\ TimerA(k, e) /\ TimerB(k, e)
BY Zenon DEF SameRest, Fixed, TimerA, TimerB

(* A one-shot timer that has passed 0 stops.                               *)
Stop(cr, uf) == IF uf > 0 /\ "RUNMODE" \in cr THEN cr \ {"START"} ELSE cr

TaOf(uf) == IF uf > 0 THEN {"TA"} ELSE {}
TbOf(uf) == IF uf > 0 THEN {"TB"} ELSE {}

LEMMA PortKept ==
    ASSUME NEW k \in Chips, NEW e, PortOnly(k, e)
    PROVE  e \in Chips /\ SameRest(k, e) /\ View(e) = View(k) /\ e.icr_data = k.icr_data
<1>1. e \in ChipType /\ SameRest(k, e) /\ SameIcr(k, e) /\ View(e) = View(k)
  BY Zenon DEF PortOnly
<1>2. View(e) \in Views
  BY <1>1, Zenon DEF Chips
<1>3. e \in Chips
  BY <1>1, <1>2, RestKept, Zenon
<1> QED
  BY <1>1, <1>3, Zenon DEF SameIcr

LEMMA RaiseKept ==
    ASSUME NEW k \in Chips, NEW s \in SUBSET IcrBits, NEW e, e = cia_raise(k, s)
    PROVE  e \in Chips /\ SameRest(k, e) /\ View(e) = View(k) /\ e.icr_data = k.icr_data \cup s
<1>0. k \in ChipType /\ View(k) \in Views
  BY Zenon DEF Chips
<1>1. /\ e \in ChipType /\ SameRest(k, e) /\ View(e) = View(k)
      /\ e.icr_data = k.icr_data \cup s /\ e.irq_asserted = Pending(e)
  BY <1>0, RaiseFacts, Zenon
<1>2. e \in Chips
  BY <1>0, <1>1, RestKept, Zenon
<1> QED
  BY <1>1, <1>2

(* New counters and control registers.                                     *)
CrValue == SUBSET (CrBits \ {"LOAD"})

WithA(k, c, cr) == [k EXCEPT !.ta_counter = c, !.cra = cr]

LEMMA TimerASet ==
    ASSUME NEW k \in Chips, NEW c \in 0..MaxCount,
           NEW cr \in CrValue, NEW e, e = WithA(k, c, cr)
    PROVE  /\ e \in Chips /\ Fixed(k, e) /\ TimerB(k, e) /\ e.ta_counter = c /\ e.cra = cr
           /\ View(e) = View(k) /\ e.icr_data = k.icr_data
<1>0. k \in ChipType /\ View(k) \in Views /\ Len(k.serial_in) < SerialBits
      /\ k.irq_asserted = Pending(k)
  BY Zenon DEF Chips
<1>6. e = [k EXCEPT !.ta_counter = c, !.cra = cr]
  BY Zenon DEF WithA
<1>1. e \in ChipType
  BY <1>0, <1>6, ZenonT(60) DEF ChipType, CrValue
<1>2. Fixed(k, e) /\ TimerB(k, e)
  BY <1>0, <1>6, Zenon DEF ChipType, Fixed, TimerB
<1>3. View(e) = View(k)
  BY <1>0, <1>6, Zenon DEF ChipType, View
<1>4. /\ e.ta_counter = c /\ e.cra = cr /\ e.icr_data = k.icr_data /\ e.icr_mask = k.icr_mask
      /\ e.irq_asserted = k.irq_asserted /\ e.serial_in = k.serial_in
  BY <1>0, <1>6, Zenon DEF ChipType
<1>5. e \in Chips
  BY <1>0, <1>1, <1>3, <1>4, Zenon DEF Chips, Pending
<1> QED
  BY <1>2, <1>3, <1>4, <1>5

WithB(k, c, cr) == [k EXCEPT !.tb_counter = c, !.crb = cr]

LEMMA TimerBSet ==
    ASSUME NEW k \in Chips, NEW c \in 0..MaxCount,
           NEW cr \in CrValue, NEW e, e = WithB(k, c, cr)
    PROVE  /\ e \in Chips /\ Fixed(k, e) /\ TimerA(k, e) /\ e.tb_counter = c /\ e.crb = cr
           /\ View(e) = View(k) /\ e.icr_data = k.icr_data
<1>0. k \in ChipType /\ View(k) \in Views /\ Len(k.serial_in) < SerialBits
      /\ k.irq_asserted = Pending(k)
  BY Zenon DEF Chips
<1>6. e = [k EXCEPT !.tb_counter = c, !.crb = cr]
  BY Zenon DEF WithB
<1>1. e \in ChipType
  BY <1>0, <1>6, ZenonT(60) DEF ChipType, CrValue
<1>2. Fixed(k, e) /\ TimerA(k, e)
  BY <1>0, <1>6, Zenon DEF ChipType, Fixed, TimerA
<1>3. View(e) = View(k)
  BY <1>0, <1>6, Zenon DEF ChipType, View
<1>4. /\ e.tb_counter = c /\ e.crb = cr /\ e.icr_data = k.icr_data /\ e.icr_mask = k.icr_mask
      /\ e.irq_asserted = k.irq_asserted /\ e.serial_in = k.serial_in
  BY <1>0, <1>6, Zenon DEF ChipType
<1>5. e \in Chips
  BY <1>0, <1>1, <1>3, <1>4, Zenon DEF Chips, Pending
<1> QED
  BY <1>2, <1>3, <1>4, <1>5

Stopped(h) ==
    [h EXCEPT !.cra = IF "RUNMODE" \in h.cra THEN h.cra \ {"START"} ELSE h.cra]

AStart(k, uf) == timer_apply_underflow_output(cia_raise(k, {"TA"}), k.cra, uf)

LEMMA AUnderflowIs ==
    ASSUME NEW k, NEW uf, uf # 0
    PROVE  timer_a_underflow(k, uf) = Stopped((CHOOSE g : ShiftEq(g, AStart(k, uf), uf))[uf])
BY Zenon DEF timer_a_underflow, ShiftEq, AStart, Stopped

LEMMA ControlType ==
    ASSUME NEW k \in Chips
    PROVE  /\ k.cra \in CrValue /\ k.crb \in CrValue
           /\ k.ta_counter \in 0..MaxCount /\ k.tb_counter \in 0..MaxCount
           /\ k.ta_latch \in 0..MaxCount /\ k.tb_latch \in 0..MaxCount
BY Zenon DEF Chips, ChipType, CrValue

LEMMA AFacts ==
    ASSUME NEW k \in Chips, NEW uf \in Nat, NEW e, e = timer_a_underflow(k, uf)
    PROVE  /\ e \in Chips /\ Fixed(k, e) /\ TimerB(k, e)
           /\ e.ta_counter = k.ta_counter /\ e.cra = Stop(k.cra, uf)
           /\ View(e) = Iterated(BitsOf("b6" \in k.cra), View(k), uf)
           /\ e.icr_data = (k.icr_data \cup TaOf(uf)) \cup SpOf(View(k), View(e))
           /\ Fin(View(k)) <= Fin(View(e))
<1>1. CASE uf = 0
  <2>1. e = k
    BY <1>1, Zenon DEF timer_a_underflow
  <2>2. Serially(k, k, View(k))
    BY SeriallySame
  <2>3. Iterated(BitsOf("b6" \in k.cra), View(k), uf) = View(k)
    BY <1>1, IteratedSteps, Zenon
  <2>4. ~(uf > 0)
    BY <1>1
  <2>5. Stop(k.cra, uf) = k.cra /\ TaOf(uf) = {}
    BY <2>4, Zenon DEF Stop, TaOf
  <2>6. k.icr_data \cup {} = k.icr_data
    BY Zenon
  <2> QED
    BY <2>1, <2>2, <2>3, <2>5, <2>6, Zenon DEF Serially, Fixed, TimerB
<1>2. CASE uf # 0
  <2>0. uf > 0
    BY <1>2
  <2>1. PICK a : a = cia_raise(k, {"TA"})
    OBVIOUS
  <2>2. {"TA"} \in SUBSET IcrBits
    BY Zenon DEF IcrBits
  <2>3. a \in Chips /\ SameRest(k, a) /\ View(a) = View(k) /\ a.icr_data = k.icr_data \cup {"TA"}
    BY <2>1, <2>2, RaiseKept, Zenon
  <2>4. PICK r : r = timer_apply_underflow_output(a, k.cra, uf)
    OBVIOUS
  <2>5. PortOnly(a, r)
    <3>1. a \in ChipType
      BY <2>3, Zenon DEF Chips
    <3> QED
      BY <2>4, <3>1, OutputFacts, Zenon
  <2>6. r \in Chips /\ SameRest(a, r) /\ View(r) = View(a) /\ r.icr_data = a.icr_data
    BY <2>3, <2>5, PortKept, Zenon
  <2>7. PICK f : f = CHOOSE g : ShiftEq(g, AStart(k, uf), uf)
    OBVIOUS
  <2>24. r = AStart(k, uf)
    BY <2>1, <2>4, Zenon DEF AStart
  <2>8. ShiftEq(f, r, uf)
    <3>1. AStart(k, uf) \in Chips
      BY <2>6, <2>24
    <3>2. \E g : ShiftEq(g, AStart(k, uf), uf)
      BY <3>1, ShiftExists, Zenon
    <3> QED
      BY <2>7, <2>24, <3>2, Zenon
  <2>9. PICK w : w = Iterated(BitsOf("b6" \in r.cra), View(r), uf)
    OBVIOUS
  <2>10. PICK h : h = f[uf]
    OBVIOUS
  <2>11. Serially(r, h, w)
    BY <2>6, <2>8, <2>9, <2>10, ShiftIterates, Zenon
  <2>12. e = [h EXCEPT !.cra = IF "RUNMODE" \in h.cra THEN h.cra \ {"START"} ELSE h.cra]
    <3>1. e = Stopped((CHOOSE g : ShiftEq(g, AStart(k, uf), uf))[uf])
      BY <1>2, AUnderflowIs, Zenon
    <3>2. e = Stopped(h)
      BY <2>7, <2>10, <3>1, Zenon
    <3> QED
      BY <3>2, Zenon DEF Stopped
  <2>13. h \in Chips /\ SameRest(r, h) /\ View(h) = w
         /\ h.icr_data = r.icr_data \cup SpOf(View(r), w) /\ Fin(View(r)) <= Fin(w)
    BY <2>11, Zenon DEF Serially
  <2>14. SameRest(k, h)
    BY <2>3, <2>6, <2>13, Zenon DEF SameRest
  <2>15. h.cra = k.cra /\ r.cra = k.cra /\ h.ta_counter = k.ta_counter
    BY <2>3, <2>6, <2>14, Zenon DEF SameRest
  <2>16. PICK cr \in CrValue : cr = Stop(k.cra, uf)
    BY ControlType DEF Stop, CrValue
  <2>17. (IF "RUNMODE" \in h.cra THEN h.cra \ {"START"} ELSE h.cra) = cr
    BY <2>0, <2>15, <2>16, Zenon DEF Stop
  <2>18. PICK c \in 0..MaxCount : c = h.ta_counter
    BY <2>13, ControlType
  <2>19. e = WithA(h, c, cr)
    BY <2>12, <2>13, <2>17, <2>18, Zenon DEF Chips, ChipType, WithA
  <2>20. e \in Chips /\ Fixed(h, e) /\ TimerB(h, e) /\ e.ta_counter = c /\ e.cra = cr
         /\ View(e) = View(h) /\ e.icr_data = h.icr_data
    BY <2>13, <2>16, <2>18, <2>19, TimerASet, SMT
  <2>21. Fixed(k, e) /\ TimerB(k, e)
    BY <2>14, <2>20, Zenon DEF SameRest, Fixed, TimerB
  <2>22. View(e) = w /\ w = Iterated(BitsOf("b6" \in k.cra), View(k), uf) /\ View(r) = View(k)
    BY <2>3, <2>6, <2>9, <2>13, <2>15, <2>20, Zenon
  <2>23. e.icr_data = (k.icr_data \cup TaOf(uf)) \cup SpOf(View(k), View(e))
    BY <2>0, <2>3, <2>6, <2>13, <2>20, <2>22, Zenon DEF TaOf
  <2> QED
    BY <2>13, <2>15, <2>16, <2>18, <2>20, <2>21, <2>22, <2>23, Zenon
<1> QED
  BY <1>1, <1>2

LEMMA BFacts ==
    ASSUME NEW k \in Chips, NEW uf \in Nat, NEW e, e = timer_b_underflow(k, uf)
    PROVE  /\ e \in Chips /\ Fixed(k, e) /\ TimerA(k, e)
           /\ e.tb_counter = k.tb_counter /\ e.crb = Stop(k.crb, uf)
           /\ View(e) = View(k) /\ e.icr_data = k.icr_data \cup TbOf(uf)
<1>1. CASE uf = 0
  <2>1. e = k
    BY <1>1, Zenon DEF timer_b_underflow
  <2>4. ~(uf > 0)
    BY <1>1
  <2>5. Stop(k.crb, uf) = k.crb /\ TbOf(uf) = {}
    BY <2>4, Zenon DEF Stop, TbOf
  <2>6. k.icr_data \cup {} = k.icr_data
    BY Zenon
  <2> QED
    BY <2>1, <2>5, <2>6, Zenon DEF Fixed, TimerA
<1>2. CASE uf # 0
  <2>0. uf > 0
    BY <1>2
  <2>1. PICK a : a = cia_raise(k, {"TB"})
    OBVIOUS
  <2>2. {"TB"} \in SUBSET IcrBits
    BY Zenon DEF IcrBits
  <2>3. a \in Chips /\ SameRest(k, a) /\ View(a) = View(k) /\ a.icr_data = k.icr_data \cup {"TB"}
    BY <2>1, <2>2, RaiseKept, Zenon
  <2>4. PICK r : r = timer_apply_underflow_output(a, k.crb, uf)
    OBVIOUS
  <2>5. PortOnly(a, r)
    <3>1. a \in ChipType
      BY <2>3, Zenon DEF Chips
    <3> QED
      BY <2>4, <3>1, OutputFacts, Zenon
  <2>6. r \in Chips /\ SameRest(a, r) /\ View(r) = View(a) /\ r.icr_data = a.icr_data
    BY <2>3, <2>5, PortKept, Zenon
  <2>12. e = [r EXCEPT !.crb = IF "RUNMODE" \in @ THEN @ \ {"START"} ELSE @]
    BY <1>2, <2>1, <2>4, Zenon DEF timer_b_underflow
  <2>14. SameRest(k, r)
    BY <2>3, <2>6, Zenon DEF SameRest
  <2>15. r.crb = k.crb /\ r.tb_counter = k.tb_counter
    BY <2>14, Zenon DEF SameRest
  <2>16. PICK cr \in CrValue : cr = Stop(k.crb, uf)
    BY ControlType DEF Stop, CrValue
  <2>17. (IF "RUNMODE" \in r.crb THEN r.crb \ {"START"} ELSE r.crb) = cr
    BY <2>0, <2>15, <2>16, Zenon DEF Stop
  <2>18. PICK c \in 0..MaxCount : c = r.tb_counter
    BY <2>6, ControlType
  <2>19. e = WithB(r, c, cr)
    BY <2>6, <2>12, <2>17, <2>18, Zenon DEF Chips, ChipType, WithB
  <2>20. e \in Chips /\ Fixed(r, e) /\ TimerA(r, e) /\ e.tb_counter = c /\ e.crb = cr
         /\ View(e) = View(r) /\ e.icr_data = r.icr_data
    BY <2>6, <2>16, <2>18, <2>19, TimerBSet, SMT
  <2>21. Fixed(k, e) /\ TimerA(k, e)
    BY <2>14, <2>20, Zenon DEF SameRest, Fixed, TimerA
  <2>23. e.icr_data = k.icr_data \cup TbOf(uf)
    BY <2>0, <2>3, <2>6, <2>20, Zenon DEF TbOf
  <2> QED
    BY <2>3, <2>6, <2>15, <2>16, <2>18, <2>20, <2>21, <2>23, Zenon
<1> QED
  BY <1>1, <1>2

-----------------------------------------------------------------------------
(* A step of the timers, in stages.                                        *)
StepA(k, n) ==
    IF "START" \in k.cra /\ "b5" \notin k.cra
    THEN timer_advance(k.ta_counter, k.ta_latch, Continuous(k.cra), n)
    ELSE [counter |-> k.ta_counter, uf |-> 0]

StageA(k, a) == timer_a_underflow([k EXCEPT !.ta_counter = a.counter], a.uf)

StepB(k, n, u) ==
    LET m == InMode(k.crb)
    IN  IF "START" \in k.crb /\ m = 0
        THEN timer_advance(k.tb_counter, k.tb_latch, Continuous(k.crb), n)
        ELSE IF "START" \in k.crb /\ (m = 2 \/ (m = 3 /\ k.cnt_level = 1))
        THEN timer_advance_events(k.tb_counter, k.tb_latch, Continuous(k.crb), u)
        ELSE [counter |-> k.tb_counter, uf |-> 0]

StageB(k, b) == timer_b_underflow([k EXCEPT !.tb_counter = b.counter], b.uf)

LEMMA StepIsStaged ==
    ASSUME NEW k, NEW n
    PROVE  timers_step(k, n) =
              StageB(StageA(k, StepA(k, n)), StepB(StageA(k, StepA(k, n)), n, StepA(k, n).uf))
BY Zenon DEF timers_step, StepA, StageA, StepB, StageB

(* The timers as they count: which one is on, and what it counts.          *)
OnA(k) == "START" \in k.cra /\ "b5" \notin k.cra
OnB(k) == /\ "START" \in k.crb
          /\ \/ InMode(k.crb) = 0
             \/ InMode(k.crb) = 2
             \/ InMode(k.crb) = 3 /\ k.cnt_level = 1
CountB(k, n, u) == IF InMode(k.crb) = 0 THEN n ELSE u

AdvA(k, n) == Adv(OnA(k), Continuous(k.cra), k.ta_counter, k.ta_latch, n)
AdvB(k, n, u) == Adv(OnB(k), Continuous(k.crb), k.tb_counter, k.tb_latch, CountB(k, n, u))

LEMMA AdvAType ==
    ASSUME NEW k \in Chips, NEW n \in Nat
    PROVE  AdvA(k, n) \in Counted(MaxCount) /\ StepA(k, n) = AdvA(k, n)
<1>1. AdvA(k, n) \in Counted(MaxCount)
  <2>1. OnA(k) \in BOOLEAN /\ Continuous(k.cra) \in BOOLEAN
    BY Zenon DEF OnA, Continuous
  <2> QED
    BY <2>1, ControlType, MaxCountNat, AdvType, Zenon DEF AdvA
<1>2. StepA(k, n) = AdvA(k, n)
  BY Zenon DEF StepA, AdvA, Adv, OnA, Pair
<1> QED
  BY <1>1, <1>2

LEMMA AdvBType ==
    ASSUME NEW k \in Chips, NEW n \in Nat, NEW u \in Nat
    PROVE  AdvB(k, n, u) \in Counted(MaxCount) /\ StepB(k, n, u) = AdvB(k, n, u)
<1>0. CountB(k, n, u) \in Nat
  BY Zenon DEF CountB
<1>1. AdvB(k, n, u) \in Counted(MaxCount)
  <2>1. OnB(k) \in BOOLEAN /\ Continuous(k.crb) \in BOOLEAN
    BY Zenon DEF OnB, Continuous
  <2> QED
    BY <1>0, <2>1, ControlType, MaxCountNat, AdvType, Zenon DEF AdvB
<1>2. StepB(k, n, u) = AdvB(k, n, u)
  <2>1. PICK cont \in BOOLEAN : cont = Continuous(k.crb)
    BY Zenon DEF Continuous
  <2>2. timer_advance_events(k.tb_counter, k.tb_latch, cont, u)
          = timer_advance(k.tb_counter, k.tb_latch, cont, u)
    BY ControlType, EventsAdvance
  <2>3. CASE InMode(k.crb) = 0
    BY <2>3, Zenon DEF StepB, AdvB, Adv, OnB, CountB, Pair
  <2>4. CASE InMode(k.crb) # 0
    BY <2>1, <2>2, <2>4, Zenon DEF StepB, AdvB, Adv, OnB, CountB, Pair
  <2> QED
    BY <2>3, <2>4
<1> QED
  BY <1>1, <1>2

(* What a step of n ticks does to a chip.                                  *)
Stepped(k, n, e) ==
    LET a == AdvA(k, n)
        b == AdvB(k, n, a.uf)
    IN  /\ e \in Chips /\ Fixed(k, e)
        /\ e.ta_counter = a.counter /\ e.cra = Stop(k.cra, a.uf)
        /\ e.tb_counter = b.counter /\ e.crb = Stop(k.crb, b.uf)
        /\ View(e) = Iterated(BitsOf("b6" \in k.cra), View(k), a.uf)
        /\ e.icr_data = ((k.icr_data \cup TaOf(a.uf)) \cup SpOf(View(k), View(e))) \cup TbOf(b.uf)
        /\ Fin(View(k)) <= Fin(View(e))

LEMMA StageAFacts ==
    ASSUME NEW k \in Chips, NEW a \in Counted(MaxCount), NEW e, e = StageA(k, a)
    PROVE  /\ e \in Chips /\ Fixed(k, e) /\ TimerB(k, e)
           /\ e.ta_counter = a.counter /\ e.cra = Stop(k.cra, a.uf)
           /\ View(e) = Iterated(BitsOf("b6" \in k.cra), View(k), a.uf)
           /\ e.icr_data = (k.icr_data \cup TaOf(a.uf)) \cup SpOf(View(k), View(e))
           /\ Fin(View(k)) <= Fin(View(e))
<1>1. PICK c \in 0..MaxCount, u \in Nat : c = a.counter /\ u = a.uf
  BY MaxCountNat, CountedIs, Zenon
<1>2. PICK cr \in CrValue : cr = k.cra
  BY ControlType
<1>3. PICK p : p = WithA(k, c, cr)
  OBVIOUS
<1>4. /\ p \in Chips /\ Fixed(k, p) /\ TimerB(k, p) /\ p.ta_counter = c /\ p.cra = cr
      /\ View(p) = View(k) /\ p.icr_data = k.icr_data
  BY <1>1, <1>2, <1>3, TimerASet, SMT
<1>5. [k EXCEPT !.ta_counter = c] = p
  BY <1>2, <1>3, Zenon DEF WithA, Chips, ChipType
<1>6. e = timer_a_underflow(p, u)
  BY <1>1, <1>5, Zenon DEF StageA
<1>7. /\ e \in Chips /\ Fixed(p, e) /\ TimerB(p, e)
      /\ e.ta_counter = p.ta_counter /\ e.cra = Stop(p.cra, u)
      /\ View(e) = Iterated(BitsOf("b6" \in p.cra), View(p), u)
      /\ e.icr_data = (p.icr_data \cup TaOf(u)) \cup SpOf(View(p), View(e))
      /\ Fin(View(p)) <= Fin(View(e))
  BY <1>4, <1>6, AFacts, Zenon
<1>8. Fixed(k, e) /\ TimerB(k, e)
  BY <1>4, <1>7, Zenon DEF Fixed, TimerB
<1> QED
  BY <1>1, <1>2, <1>4, <1>7, <1>8, Zenon

LEMMA StageBFacts ==
    ASSUME NEW k \in Chips, NEW b \in Counted(MaxCount), NEW e, e = StageB(k, b)
    PROVE  /\ e \in Chips /\ Fixed(k, e) /\ TimerA(k, e)
           /\ e.tb_counter = b.counter /\ e.crb = Stop(k.crb, b.uf)
           /\ View(e) = View(k) /\ e.icr_data = k.icr_data \cup TbOf(b.uf)
<1>1. PICK c \in 0..MaxCount, u \in Nat : c = b.counter /\ u = b.uf
  BY MaxCountNat, CountedIs, Zenon
<1>2. PICK cr \in CrValue : cr = k.crb
  BY ControlType
<1>3. PICK p : p = WithB(k, c, cr)
  OBVIOUS
<1>4. /\ p \in Chips /\ Fixed(k, p) /\ TimerA(k, p) /\ p.tb_counter = c /\ p.crb = cr
      /\ View(p) = View(k) /\ p.icr_data = k.icr_data
  BY <1>1, <1>2, <1>3, TimerBSet, SMT
<1>5. [k EXCEPT !.tb_counter = c] = p
  BY <1>2, <1>3, Zenon DEF WithB, Chips, ChipType
<1>6. e = timer_b_underflow(p, u)
  BY <1>1, <1>5, Zenon DEF StageB
<1>7. /\ e \in Chips /\ Fixed(p, e) /\ TimerA(p, e)
      /\ e.tb_counter = p.tb_counter /\ e.crb = Stop(p.crb, u)
      /\ View(e) = View(p) /\ e.icr_data = p.icr_data \cup TbOf(u)
  BY <1>4, <1>6, BFacts, Zenon
<1>8. Fixed(k, e) /\ TimerA(k, e)
  BY <1>4, <1>7, Zenon DEF Fixed, TimerA
<1> QED
  BY <1>1, <1>2, <1>4, <1>7, <1>8, Zenon

LEMMA StepFacts ==
    ASSUME NEW k \in Chips, NEW n \in Nat, NEW e, e = cia_step(k, n)
    PROVE  Stepped(k, n, e)
<1>1. PICK p : p = timers_advance_pb_outputs(k)
  OBVIOUS
<1>2. p \in Chips /\ SameRest(k, p) /\ View(p) = View(k) /\ p.icr_data = k.icr_data
  <2>1. k \in ChipType
    BY Zenon DEF Chips
  <2>2. PortOnly(k, p)
    BY <1>1, <2>1, PulseFacts, Zenon
  <2> QED
    BY <2>2, PortKept, Zenon
<1>3. PICK a \in Counted(MaxCount) : a = AdvA(p, n) /\ a = StepA(p, n)
  BY <1>2, AdvAType, Zenon
<1>4. PICK q : q = StageA(p, a)
  OBVIOUS
<1>5. /\ q \in Chips /\ Fixed(p, q) /\ TimerB(p, q)
      /\ q.ta_counter = a.counter /\ q.cra = Stop(p.cra, a.uf)
      /\ View(q) = Iterated(BitsOf("b6" \in p.cra), View(p), a.uf)
      /\ q.icr_data = (p.icr_data \cup TaOf(a.uf)) \cup SpOf(View(p), View(q))
      /\ Fin(View(p)) <= Fin(View(q))
  BY <1>2, <1>3, <1>4, StageAFacts, SMT
<1>6. a.uf \in Nat
  BY <1>3, MaxCountNat, CountedIs, Zenon
<1>7. PICK b \in Counted(MaxCount) : b = AdvB(q, n, a.uf) /\ b = StepB(q, n, a.uf)
  BY <1>5, <1>6, AdvBType, Zenon
<1>8. e = StageB(q, b)
  BY <1>1, <1>3, <1>4, <1>7, StepIsStaged, Zenon DEF cia_step
<1>9. /\ e \in Chips /\ Fixed(q, e) /\ TimerA(q, e)
      /\ e.tb_counter = b.counter /\ e.crb = Stop(q.crb, b.uf)
      /\ View(e) = View(q) /\ e.icr_data = q.icr_data \cup TbOf(b.uf)
  BY <1>5, <1>7, <1>8, StageBFacts, SMT
<1>10. Fixed(k, p) /\ TimerA(k, p) /\ TimerB(k, p)
  BY <1>2, RestIs, Zenon
<1>11. a = AdvA(k, n)
  BY <1>3, <1>10, Zenon DEF AdvA, OnA, Fixed, TimerA
<1>12. Fixed(k, q) /\ TimerB(k, q)
  BY <1>5, <1>10, Zenon DEF Fixed, TimerB
<1>13. b = AdvB(k, n, a.uf)
  BY <1>7, <1>12, Zenon DEF AdvB, OnB, CountB, Fixed, TimerB
<1>14. Fixed(k, e)
  BY <1>9, <1>12, Zenon DEF Fixed
<1>15. e.ta_counter = a.counter /\ e.cra = Stop(k.cra, a.uf) /\ p.cra = k.cra /\ q.crb = k.crb
  BY <1>5, <1>9, <1>10, <1>12, Zenon DEF TimerA, TimerB
<1>16. /\ View(e) = Iterated(BitsOf("b6" \in k.cra), View(k), a.uf)
       /\ e.icr_data = ((k.icr_data \cup TaOf(a.uf)) \cup SpOf(View(k), View(e))) \cup TbOf(b.uf)
       /\ Fin(View(k)) <= Fin(View(e))
  BY <1>2, <1>5, <1>9, <1>15, Zenon
<1> QED
  BY <1>9, <1>11, <1>13, <1>14, <1>15, <1>16, Zenon DEF Stepped

-----------------------------------------------------------------------------
(* A step of n ticks and a step of one tick are a step of n + 1 ticks.     *)
LEMMA StopFacts ==
    ASSUME NEW cr, NEW u \in Nat
    PROVE  /\ Continuous(Stop(cr, u)) = Continuous(cr)
           /\ InMode(Stop(cr, u)) = InMode(cr)
           /\ "b5" \in Stop(cr, u) <=> "b5" \in cr
           /\ "b6" \in Stop(cr, u) <=> "b6" \in cr
           /\ "START" \in Stop(cr, u) <=> ("START" \in cr /\ (Continuous(cr) \/ u = 0))
<1>1. u > 0 <=> u # 0
  OBVIOUS
<1>2. ("b5" \in Stop(cr, u) <=> "b5" \in cr) /\ ("b6" \in Stop(cr, u) <=> "b6" \in cr)
  BY Zenon DEF Stop
<1>3. "RUNMODE" \in Stop(cr, u) <=> "RUNMODE" \in cr
  BY Zenon DEF Stop
<1>4. "START" \in Stop(cr, u) <=> ("START" \in cr /\ ("RUNMODE" \notin cr \/ u = 0))
  BY <1>1, Zenon DEF Stop
<1> HIDE DEF Stop
<1> QED
  BY <1>2, <1>3, <1>4 DEF InMode, Continuous

LEMMA StopTwice ==
    ASSUME NEW cr, NEW u \in Nat, NEW v \in Nat
    PROVE  Stop(Stop(cr, u), v) = Stop(cr, u + v)
<1>1. (u + v) > 0 <=> (u > 0 \/ v > 0)
  OBVIOUS
<1>2. CASE u > 0
  BY <1>1, <1>2, Zenon DEF Stop
<1>3. CASE ~(u > 0)
  BY <1>1, <1>3, Zenon DEF Stop
<1> QED
  BY <1>2, <1>3

LEMMA FlagsTwice ==
    ASSUME NEW u \in Nat, NEW v \in Nat
    PROVE  TaOf(u + v) = TaOf(u) \cup TaOf(v) /\ TbOf(u + v) = TbOf(u) \cup TbOf(v)
<1>1. (u + v) > 0 <=> (u > 0 \/ v > 0)
  OBVIOUS
<1>2. CASE u > 0
  BY <1>1, <1>2, Zenon DEF TaOf, TbOf
<1>3. CASE ~(u > 0)
  BY <1>1, <1>3, Zenon DEF TaOf, TbOf
<1> QED
  BY <1>2, <1>3

(* Timer A, then timer B: what the last of n + 1 ticks adds.               *)
LEMMA LastTickA ==
    ASSUME NEW k \in Chips, NEW n \in Nat, NEW e \in Chips, Stepped(k, n, e),
           NEW d \in Nat, NEW u \in Nat, AdvA(k, n) = Pair(d, u)
    PROVE  \E x \in Nat, v \in {0, 1} :
              AdvA(e, 1) = Pair(x, v) /\ AdvA(k, n + 1) = Pair(x, u + v)
<1>1. Pair(d, u).counter = d /\ Pair(d, u).uf = u
  BY PairFields
<1>2. e.ta_counter = d /\ e.cra = Stop(k.cra, u) /\ e.ta_latch = k.ta_latch
  BY <1>1, Zenon DEF Stepped, Fixed
<1>3. PICK on \in BOOLEAN, cont \in BOOLEAN : on = OnA(k) /\ cont = Continuous(k.cra)
  BY Zenon DEF OnA, Continuous
<1>12. /\ Continuous(Stop(k.cra, u)) = Continuous(k.cra)
       /\ "START" \in Stop(k.cra, u) <=> ("START" \in k.cra /\ (Continuous(k.cra) \/ u = 0))
       /\ "b5" \in Stop(k.cra, u) <=> "b5" \in k.cra
  BY StopFacts
<1>4. /\ Continuous(e.cra) = cont
      /\ "START" \in e.cra <=> ("START" \in k.cra /\ (cont \/ u = 0))
      /\ "b5" \in e.cra <=> "b5" \in k.cra
  BY <1>2, <1>3, <1>12, Zenon
<1>5. PICK o \in BOOLEAN : o = OnA(e) /\ (o <=> on /\ (cont \/ u = 0))
  BY <1>3, <1>4, Zenon DEF OnA
<1>6. PICK c \in Nat, l \in Nat : c = k.ta_counter /\ l = k.ta_latch
  BY ControlType, MaxCountNat
<1>7. Adv(on, cont, c, l, n) = Pair(d, u)
  BY <1>3, <1>6, Zenon DEF AdvA
<1>8. PICK x \in Nat, v \in {0, 1} :
         /\ Adv(o, cont, d, l, 1) = Pair(x, v)
         /\ Adv(on, cont, c, l, n + 1) = Pair(x, u + v)
  <2>1. c \in Nat /\ l \in Nat /\ on \in BOOLEAN /\ cont \in BOOLEAN
        /\ o \in BOOLEAN /\ (o <=> on /\ (cont \/ u = 0))
    BY <1>3, <1>6, <1>5
  <2> QED
    <3>1. Ready(o, on, cont, c, l, n, d, u)
      BY <1>7, <2>1, Zenon DEF Ready
    <3>2. Ticked(o, on, cont, c, l, n, d, u)
      BY <3>1, AdvStep, Zenon
    <3> QED
      BY <3>2, Zenon DEF Ticked
<1>9. AdvA(e, 1) = Pair(x, v)
  BY <1>2, <1>4, <1>5, <1>6, <1>8, Zenon DEF AdvA
<1>10. AdvA(k, n + 1) = Pair(x, u + v)
  BY <1>3, <1>6, <1>8, Zenon DEF AdvA
<1> QED
  BY <1>9, <1>10

ReadyB(k, n, e, u, v, d, w) ==
    /\ k \in Chips /\ n \in Nat /\ e \in Chips /\ Stepped(k, n, e)
    /\ u \in Nat /\ AdvA(k, n).uf = u /\ v \in {0, 1}
    /\ d \in Nat /\ w \in Nat /\ AdvB(k, n, u) = Pair(d, w)

TickedB(k, n, e, u, v, w) ==
    \E x \in Nat, y \in {0, 1} :
        AdvB(e, 1, v) = Pair(x, y) /\ AdvB(k, n + 1, u + v) = Pair(x, w + y)

LEMMA LastTickB ==
    ASSUME NEW k, NEW n, NEW e, NEW u, NEW v, NEW d, NEW w, ReadyB(k, n, e, u, v, d, w)
    PROVE  TickedB(k, n, e, u, v, w)
<1>0. /\ k \in Chips /\ n \in Nat /\ e \in Chips /\ Stepped(k, n, e)
      /\ u \in Nat /\ AdvA(k, n).uf = u /\ v \in {0, 1}
      /\ d \in Nat /\ w \in Nat /\ AdvB(k, n, u) = Pair(d, w)
  BY Zenon DEF ReadyB
<1> HIDE DEF ReadyB
<1> USE <1>0
<1> SUFFICES \E x \in Nat, y \in {0, 1} :
                AdvB(e, 1, v) = Pair(x, y) /\ AdvB(k, n + 1, u + v) = Pair(x, w + y)
  BY Zenon DEF TickedB
<1>1. Pair(d, w).counter = d /\ Pair(d, w).uf = w
  BY PairFields
<1>2. e.tb_counter = d /\ e.crb = Stop(k.crb, w) /\ e.tb_latch = k.tb_latch
      /\ e.cnt_level = k.cnt_level
  BY <1>1, Zenon DEF Stepped, Fixed
<1>3. PICK on \in BOOLEAN, cont \in BOOLEAN : on = OnB(k) /\ cont = Continuous(k.crb)
  BY Zenon DEF OnB, Continuous
<1>13. /\ Continuous(Stop(k.crb, w)) = Continuous(k.crb)
       /\ "START" \in Stop(k.crb, w) <=> ("START" \in k.crb /\ (Continuous(k.crb) \/ w = 0))
       /\ InMode(Stop(k.crb, w)) = InMode(k.crb)
  BY StopFacts
<1>4. /\ Continuous(e.crb) = cont
      /\ "START" \in e.crb <=> ("START" \in k.crb /\ (cont \/ w = 0))
      /\ InMode(e.crb) = InMode(k.crb)
  BY <1>2, <1>3, <1>13, Zenon
<1>5. PICK o \in BOOLEAN : o = OnB(e) /\ (o <=> on /\ (cont \/ w = 0))
  BY <1>2, <1>3, <1>4, Zenon DEF OnB
<1>6. PICK c \in Nat, l \in Nat : c = k.tb_counter /\ l = k.tb_latch
  BY ControlType, MaxCountNat
<1>7. PICK i \in Nat, j \in {0, 1} :
         i = CountB(k, n, u) /\ j = CountB(e, 1, v) /\ i + j = CountB(k, n + 1, u + v)
  <2>1. CASE InMode(k.crb) = 0
    <3>1. CountB(k, n, u) = n /\ CountB(e, 1, v) = 1 /\ CountB(k, n + 1, u + v) = n + 1
      BY <1>4, <2>1, Zenon DEF CountB
    <3> QED
      BY <3>1
  <2>2. CASE InMode(k.crb) # 0
    <3>1. CountB(k, n, u) = u /\ CountB(e, 1, v) = v /\ CountB(k, n + 1, u + v) = u + v
      BY <1>4, <2>2, Zenon DEF CountB
    <3> QED
      BY <3>1
  <2> QED
    BY <2>1, <2>2
<1>8. Adv(on, cont, c, l, i) = Pair(d, w)
  BY <1>3, <1>6, <1>7, Zenon DEF AdvB
<1>9. AdvB(e, 1, v) = Adv(o, cont, d, l, j)
  BY <1>2, <1>4, <1>5, <1>6, <1>7, Zenon DEF AdvB
<1>10. AdvB(k, n + 1, u + v) = Adv(on, cont, c, l, i + j)
  BY <1>3, <1>6, <1>7, Zenon DEF AdvB
<1>11. CASE j = 0
  <2>1. o \in BOOLEAN /\ cont \in BOOLEAN /\ l \in Nat
    BY <1>3, <1>5, <1>6
  <2>2. Adv(o, cont, d, l, 0) = Pair(d, 0)
    BY <2>1, AdvNone, Zenon
  <2>3. i + j = i /\ w + 0 = w
    BY <1>11
  <2>4. AdvB(e, 1, v) = Pair(d, 0) /\ AdvB(k, n + 1, u + v) = Pair(d, w + 0)
    BY <1>8, <1>9, <1>10, <1>11, <2>1, <2>2, <2>3, Zenon
  <2> QED
    BY <2>4
<1>12. CASE j = 1
  <2>1. PICK x \in Nat, y \in {0, 1} :
           /\ Adv(o, cont, d, l, 1) = Pair(x, y)
           /\ Adv(on, cont, c, l, i + 1) = Pair(x, w + y)
    <3>1. c \in Nat /\ l \in Nat /\ on \in BOOLEAN /\ cont \in BOOLEAN /\ i \in Nat
          /\ o \in BOOLEAN /\ (o <=> on /\ (cont \/ w = 0))
      BY <1>3, <1>5, <1>6, <1>7
    <3> QED
      <4>1. Ready(o, on, cont, c, l, i, d, w)
        BY <1>8, <3>1, Zenon DEF Ready
      <4>2. Ticked(o, on, cont, c, l, i, d, w)
        BY <4>1, AdvStep, Zenon
      <4> QED
        BY <4>2, Zenon DEF Ticked
  <2>2. AdvB(e, 1, v) = Pair(x, y) /\ AdvB(k, n + 1, u + v) = Pair(x, w + y)
    BY <1>9, <1>10, <1>12, <2>1, Zenon
  <2> QED
    BY <2>2
<1> QED
  BY <1>7, <1>11, <1>12

(* Sending u bits and then v more.                                         *)
LEMMA SpTwice ==
    ASSUME NEW x \in Views, NEW y \in Views, NEW z \in Views,
           Fin(x) <= Fin(y), Fin(y) <= Fin(z)
    PROVE  Fin(x) <= Fin(z) /\ SpOf(x, z) = SpOf(x, y) \cup SpOf(y, z)
<1>1. Fin(x) \in Int /\ Fin(y) \in Int /\ Fin(z) \in Int
  BY BitType, Zenon
<1>2. /\ Fin(x) <= Fin(z)
      /\ Fin(z) > Fin(x) <=> (Fin(y) > Fin(x) \/ Fin(z) > Fin(y))
  BY <1>1
<1> QED
  BY <1>2, Zenon DEF SpOf

LEMMA BitsTwice ==
    ASSUME NEW B, NEW x, NEW u \in Nat, NEW v \in {0, 1}
    PROVE  Iterated(B, Iterated(B, x, u), v) = Iterated(B, x, u + v)
<1>1. PICK y : y = Iterated(B, x, u)
  OBVIOUS
<1>2. Iterated(B, y, 0) = y /\ Iterated(B, y, 0 + 1) = B[Iterated(B, y, 0)]
  BY IteratedSteps
<1>3. Iterated(B, x, u + 1) = B[Iterated(B, x, u)]
  BY IteratedSteps
<1>4. CASE v = 0
  <2>1. u + v = u
    BY <1>4
  <2> QED
    BY <1>1, <1>2, <1>4, <2>1, Zenon
<1>5. CASE v = 1
  <2>1. 0 + 1 = 1
    OBVIOUS
  <2> QED
    BY <1>1, <1>2, <1>3, <1>5, <2>1, Zenon
<1> QED
  BY <1>4, <1>5

LEMMA StepThenTick ==
    ASSUME NEW k \in Chips, NEW n \in Nat, NEW e, Stepped(k, n, e),
           NEW f, Stepped(e, 1, f)
    PROVE  Stepped(k, n + 1, f)
<1>1. e \in Chips /\ f \in Chips /\ Fixed(k, e) /\ Fixed(e, f)
  BY Zenon DEF Stepped
<1>2. PICK d \in Nat, u \in Nat : AdvA(k, n) = Pair(d, u)
  <2>1. PICK a \in Counted(MaxCount) : a = AdvA(k, n)
    BY AdvAType, Zenon
  <2>2. a = Pair(a.counter, a.uf) /\ a.counter \in 0..MaxCount /\ a.uf \in Nat
    BY <2>1, MaxCountNat, CountedIs, Zenon
  <2>3. a.counter \in Nat
    BY <2>2, MaxCountNat
  <2> QED
    BY <2>1, <2>2, <2>3, Zenon
<1>3. PICK x \in Nat, v \in {0, 1} : AdvA(e, 1) = Pair(x, v) /\ AdvA(k, n + 1) = Pair(x, u + v)
  BY <1>1, <1>2, LastTickA, SMT
<1>4. /\ AdvA(k, n).counter = d /\ AdvA(k, n).uf = u
      /\ AdvA(e, 1).counter = x /\ AdvA(e, 1).uf = v
      /\ AdvA(k, n + 1).counter = x /\ AdvA(k, n + 1).uf = u + v
  <2>1. /\ Pair(d, u).counter = d /\ Pair(d, u).uf = u /\ Pair(x, v).counter = x
        /\ Pair(x, v).uf = v /\ Pair(x, u + v).counter = x /\ Pair(x, u + v).uf = u + v
    BY PairFields
  <2> QED
    BY <1>2, <1>3, <2>1, Zenon
<1>5. PICK q \in Nat, w \in Nat : AdvB(k, n, u) = Pair(q, w)
  <2>0. u \in Nat
    BY <1>2
  <2>1. PICK a \in Counted(MaxCount) : a = AdvB(k, n, u)
    BY <2>0, AdvBType, Zenon
  <2>2. a = Pair(a.counter, a.uf) /\ a.counter \in 0..MaxCount /\ a.uf \in Nat
    BY <2>1, MaxCountNat, CountedIs, Zenon
  <2>3. a.counter \in Nat
    BY <2>2, MaxCountNat
  <2> QED
    BY <2>1, <2>2, <2>3, Zenon
<1>6. PICK z \in Nat, y \in {0, 1} :
         AdvB(e, 1, v) = Pair(z, y) /\ AdvB(k, n + 1, u + v) = Pair(z, w + y)
  <2>1. u \in Nat /\ v \in {0, 1} /\ q \in Nat /\ w \in Nat /\ AdvA(k, n).uf = u
    BY <1>2, <1>3, <1>4, <1>5
  <2>2. ReadyB(k, n, e, u, v, q, w)
    BY <1>1, <1>5, <2>1, Zenon DEF ReadyB
  <2>3. TickedB(k, n, e, u, v, w)
    BY <2>2, LastTickB, Zenon
  <2> QED
    BY <2>3, Zenon DEF TickedB
<1>7. /\ AdvB(k, n, u).counter = q /\ AdvB(k, n, u).uf = w
      /\ AdvB(e, 1, v).counter = z /\ AdvB(e, 1, v).uf = y
      /\ AdvB(k, n + 1, u + v).counter = z /\ AdvB(k, n + 1, u + v).uf = w + y
  <2>1. /\ Pair(q, w).counter = q /\ Pair(q, w).uf = w /\ Pair(z, y).counter = z
        /\ Pair(z, y).uf = y /\ Pair(z, w + y).counter = z /\ Pair(z, w + y).uf = w + y
    BY PairFields
  <2> QED
    BY <1>5, <1>6, <2>1, Zenon
<1>8. /\ e.cra = Stop(k.cra, u) /\ e.crb = Stop(k.crb, w)
      /\ View(e) = Iterated(BitsOf("b6" \in k.cra), View(k), u)
      /\ e.icr_data = ((k.icr_data \cup TaOf(u)) \cup SpOf(View(k), View(e))) \cup TbOf(w)
      /\ Fin(View(k)) <= Fin(View(e))
  BY <1>4, <1>7, Zenon DEF Stepped
<1>9. /\ f.ta_counter = x /\ f.cra = Stop(e.cra, v)
      /\ f.tb_counter = z /\ f.crb = Stop(e.crb, y)
      /\ View(f) = Iterated(BitsOf("b6" \in e.cra), View(e), v)
      /\ f.icr_data = ((e.icr_data \cup TaOf(v)) \cup SpOf(View(e), View(f))) \cup TbOf(y)
      /\ Fin(View(e)) <= Fin(View(f))
  BY <1>4, <1>7, Zenon DEF Stepped
<1>10. u \in Nat /\ v \in Nat /\ w \in Nat /\ y \in Nat
  BY <1>2, <1>3, <1>5, <1>6
<1>11. f.cra = Stop(k.cra, u + v) /\ f.crb = Stop(k.crb, w + y)
       /\ TaOf(u + v) = TaOf(u) \cup TaOf(v) /\ TbOf(w + y) = TbOf(w) \cup TbOf(y)
  <2>1. PICK cr, cs : cr = k.cra /\ cs = k.crb
    OBVIOUS
  <2>2. Stop(Stop(cr, u), v) = Stop(cr, u + v)
    BY <1>10, StopTwice, ZenonT(60)
  <2>3. Stop(Stop(cs, w), y) = Stop(cs, w + y)
    BY <1>10, StopTwice, ZenonT(60)
  <2>4. TaOf(u + v) = TaOf(u) \cup TaOf(v)
    BY <1>10, FlagsTwice, Zenon
  <2>5. TbOf(w + y) = TbOf(w) \cup TbOf(y)
    BY <1>10, FlagsTwice, Zenon
  <2> QED
    BY <1>8, <1>9, <2>1, <2>2, <2>3, <2>4, <2>5, Zenon
<1>12. BitsOf("b6" \in e.cra) = BitsOf("b6" \in k.cra)
  <2>1. "b6" \in Stop(k.cra, u) <=> "b6" \in k.cra
    BY <1>10, StopFacts
  <2>2. "b6" \in e.cra <=> "b6" \in k.cra
    BY <1>8, <2>1, Zenon
  <2> QED
    BY <2>2, Zenon DEF BitsOf
<1>13. View(f) = Iterated(BitsOf("b6" \in k.cra), View(k), u + v)
  <2>1. PICK B : B = BitsOf("b6" \in k.cra)
    OBVIOUS
  <2>2. Iterated(B, Iterated(B, View(k), u), v) = Iterated(B, View(k), u + v)
    BY <1>3, <1>10, BitsTwice, ZenonT(60)
  <2> QED
    BY <1>8, <1>9, <1>12, <2>1, <2>2, Zenon
<1>14. View(k) \in Views /\ View(e) \in Views /\ View(f) \in Views
  BY <1>1, Zenon DEF Chips
<1>15. /\ Fin(View(k)) <= Fin(View(f))
       /\ SpOf(View(k), View(f)) = SpOf(View(k), View(e)) \cup SpOf(View(e), View(f))
  <2>1. Fin(View(k)) <= Fin(View(e)) /\ Fin(View(e)) <= Fin(View(f))
    BY <1>8, <1>9, Zenon
  <2> QED
    BY <1>14, <2>1, SpTwice
<1>16. f.icr_data = ((k.icr_data \cup TaOf(u + v)) \cup SpOf(View(k), View(f))) \cup TbOf(w + y)
  BY <1>8, <1>9, <1>11, <1>15, Zenon
<1>17. Fixed(k, f)
  BY <1>1, Zenon DEF Fixed
<1> QED
  BY <1>1, <1>4, <1>7, <1>9, <1>11, <1>13, <1>15, <1>16, <1>17, Zenon DEF Stepped

(* No ticks.                                                               *)
LEMMA StepNone ==
    ASSUME NEW k \in Chips
    PROVE  Stepped(k, 0, k)
<1>1. PICK c \in Nat, l \in Nat, d \in Nat, m \in Nat :
         c = k.ta_counter /\ l = k.ta_latch /\ d = k.tb_counter /\ m = k.tb_latch
  BY ControlType, MaxCountNat
<1>2. PICK a \in BOOLEAN, b \in BOOLEAN, ca \in BOOLEAN, cb \in BOOLEAN :
         a = OnA(k) /\ b = OnB(k) /\ ca = Continuous(k.cra) /\ cb = Continuous(k.crb)
  BY Zenon DEF OnA, OnB, Continuous
<1>3. Adv(a, ca, c, l, 0) = Pair(c, 0) /\ Adv(b, cb, d, m, 0) = Pair(d, 0)
  BY <1>1, <1>2, AdvNone
<1>4. AdvA(k, 0) = Pair(c, 0)
  BY <1>1, <1>2, <1>3, Zenon DEF AdvA
<1>5. AdvB(k, 0, 0) = Pair(d, 0)
  BY <1>1, <1>2, <1>3, Zenon DEF AdvB, CountB
<1>6. /\ AdvA(k, 0).counter = c /\ AdvA(k, 0).uf = 0
      /\ AdvB(k, 0, 0).counter = d /\ AdvB(k, 0, 0).uf = 0
  BY <1>4, <1>5, PairFields, ZenonT(60)
<1>7. ~(0 > 0)
  OBVIOUS
<1>8. Stop(k.cra, 0) = k.cra /\ Stop(k.crb, 0) = k.crb /\ TaOf(0) = {} /\ TbOf(0) = {}
  BY <1>7, Zenon DEF Stop, TaOf, TbOf
<1>9. Iterated(BitsOf("b6" \in k.cra), View(k), 0) = View(k)
  BY IteratedSteps, Zenon
<1>10. Serially(k, k, View(k))
  BY SeriallySame
<1>11. /\ k.icr_data = k.icr_data \cup SpOf(View(k), View(k))
       /\ Fin(View(k)) <= Fin(View(k))
  BY <1>10, Zenon DEF Serially
<1>12. ((k.icr_data \cup {}) \cup SpOf(View(k), View(k))) \cup {}
          = k.icr_data \cup SpOf(View(k), View(k))
  BY Zenon
<1>13. Fixed(k, k)
  BY Zenon DEF Fixed
<1> QED
  BY <1>1, <1>6, <1>8, <1>9, <1>11, <1>12, <1>13, Zenon DEF Stepped

(* The outputs on port B apart, a step has one outcome.                    *)
Internal(k) == [k EXCEPT !.pb_timer_out = {}, !.pb_pulse_mask = {}]

LEMMA StepsAgree ==
    ASSUME NEW k \in Chips, NEW n \in Nat, NEW e, Stepped(k, n, e), NEW f, Stepped(k, n, f)
    PROVE  Internal(e) = Internal(f)
<1>1. /\ e \in Chips /\ f \in Chips /\ Fixed(e, f) /\ TimerA(e, f) /\ TimerB(e, f)
      /\ View(e) = View(f) /\ e.icr_data = f.icr_data
  BY Zenon DEF Stepped, Fixed, TimerA, TimerB
<1>2. e \in ChipType /\ f \in ChipType /\ e.irq_asserted = f.irq_asserted
  BY <1>1, Zenon DEF Chips, Pending, Fixed
<1>3. /\ e.serial_out_shift = f.serial_out_shift /\ e.serial_out_busy = f.serial_out_busy
      /\ e.serial_out_buffer = f.serial_out_buffer
      /\ e.serial_out_buffer_full = f.serial_out_buffer_full
      /\ e.wire = f.wire /\ e.started = f.started
  BY <1>1 DEF View, V
<1> QED
  BY <1>1, <1>2, <1>3, ZenonT(60) DEF Internal, ChipType, Fixed, TimerA, TimerB

-----------------------------------------------------------------------------
(* One tick after the other.                                               *)
TicksEq(f, k, m) ==
    f = [n \in 0..m |-> IF n = 0 THEN k ELSE cia_step(f[n - 1], 1)]

LEMMA TicksExist ==
    ASSUME NEW r \in Chips, NEW m \in Nat
    PROVE  \E f : TicksEq(f, r, m)
<1> DEFINE F == [k \in Chips |-> cia_step(k, 1)]
<1>1. \A k \in Chips : F[k] \in Chips
  <2>1. ASSUME NEW k \in Chips PROVE F[k] \in Chips
    <3>1. Stepped(k, 1, cia_step(k, 1))
      BY StepFacts
    <3> QED
      BY <3>1, Zenon DEF Stepped
  <2> QED
    BY <2>1
<1>2. \A k \in Chips : F[k] = cia_step(k, 1)
  BY Zenon
<1> HIDE DEF F
<1>3. PICK f : Run(F, r, m, f)
  BY RunExists, Zenon
<1>4. f \in [0..m -> Chips]
  BY <1>1, <1>3, RunInvariant, Zenon
<1>5. ASSUME NEW n \in 0..m
      PROVE  (IF n = 0 THEN r ELSE F[f[n - 1]]) = (IF n = 0 THEN r ELSE cia_step(f[n - 1], 1))
  <2>1. CASE n = 0
    BY <2>1, Zenon
  <2>2. CASE n # 0
    <3>1. n - 1 \in 0..m
      BY <2>2
    <3>2. f[n - 1] \in Chips
      BY <1>4, <3>1, Zenon
    <3> QED
      BY <1>2, <2>2, <3>2, Zenon
  <2> QED
    BY <2>1, <2>2
<1>6. f = [n \in 0..m |-> IF n = 0 THEN r ELSE F[f[n - 1]]]
  BY <1>3, Zenon DEF Run
<1>7. [n \in 0..m |-> IF n = 0 THEN r ELSE F[f[n - 1]]]
        = [n \in 0..m |-> IF n = 0 THEN r ELSE cia_step(f[n - 1], 1)]
  BY <1>5, Zenon
<1> QED
  BY <1>6, <1>7, Zenon DEF TicksEq

LEMMA TicksStep ==
    ASSUME NEW r \in Chips, NEW m \in Nat, NEW f, TicksEq(f, r, m), NEW n \in 0..m
    PROVE  Stepped(r, n, f[n])
<1> DEFINE S == {i \in Nat : Stepped(r, i, f[i])}
<1>2. f[0] = r /\ \A i \in Nat : i + 1 \in 0..m => f[i + 1] = cia_step(f[i], 1)
  <2> DEFINE Q(i) == IF i = 0 THEN r ELSE cia_step(f[i - 1], 1)
  <2>1. f = [i \in 0..m |-> Q(i)]
    BY Zenon DEF TicksEq
  <2>2. Q(0) = r
    BY Zenon
  <2>3. ASSUME NEW i \in Nat PROVE Q(i + 1) = cia_step(f[i], 1)
    <3>1. i + 1 # 0 /\ (i + 1) - 1 = i
      OBVIOUS
    <3> QED
      BY <3>1, Zenon
  <2> HIDE DEF Q
  <2>4. 0 \in 0..m
    OBVIOUS
  <2> QED
    BY <2>1, <2>2, <2>3, <2>4, Zenon
<1>3. 0 \in S
  <2>1. Stepped(r, 0, f[0])
    BY <1>2, StepNone, Zenon
  <2>2. 0 \in Nat
    OBVIOUS
  <2> QED
    BY <2>1, <2>2, Zenon
<1>4. ASSUME NEW i \in Nat, i \in S, i + 1 \in 0..n PROVE i + 1 \in S
  <2>1. PICK e : e = f[i]
    OBVIOUS
  <2>2. Stepped(r, i, e)
    BY <1>4, <2>1, Zenon
  <2>3. e \in Chips
    BY <2>2, Zenon DEF Stepped
  <2>4. PICK g : g = cia_step(e, 1)
    OBVIOUS
  <2>5. Stepped(e, 1, g)
    BY <2>3, <2>4, StepFacts
  <2>6. Stepped(r, i + 1, g)
    BY <2>2, <2>5, StepThenTick
  <2>7. i + 1 \in Nat /\ i + 1 \in 0..m
    BY <1>4
  <2> QED
    BY <1>2, <2>1, <2>4, <2>6, <2>7, Zenon
<1> HIDE DEF S
<1>5. n \in Nat
  OBVIOUS
<1>6. n \in S
  BY <1>3, <1>4, <1>5, BoundedInduction, Zenon
<1> QED
  BY <1>6, Zenon DEF S

(* The property of a chip that BatchEqualsTicks states.                    *)
LEMMA BatchIs ==
    BatchEqualsTicks <=>
       \A n \in 1..MaxTicks :
          Internal(cia_step(chip, n)) = Internal((CHOOSE g : TicksEq(g, chip, MaxTicks))[n])
BY Zenon DEF BatchEqualsTicks, TicksEq, Internal

LEMMA BatchHolds ==
    ASSUME chip \in Chips
    PROVE  BatchEqualsTicks
<1>1. MaxTicks \in Nat
  BY CiaTimersAssumption
<1>2. PICK f : f = CHOOSE g : TicksEq(g, chip, MaxTicks)
  OBVIOUS
<1>3. TicksEq(f, chip, MaxTicks)
  BY <1>1, <1>2, TicksExist, Zenon
<1>4. ASSUME NEW n \in 1..MaxTicks
      PROVE  Internal(cia_step(chip, n)) = Internal(f[n])
  <2>1. n \in Nat /\ n \in 0..MaxTicks
    BY <1>1
  <2>2. Stepped(chip, n, f[n])
    BY <1>1, <1>3, <2>1, TicksStep, Zenon
  <2>3. Stepped(chip, n, cia_step(chip, n))
    BY <2>1, StepFacts
  <2> QED
    BY <2>1, <2>2, <2>3, StepsAgree, Zenon
<1> QED
  BY <1>2, <1>4, BatchIs, Zenon

-----------------------------------------------------------------------------
(* The bits of the bytes that were started, in order.                      *)
BitAt(st, i) == st[1 + (i - 1) \div SerialBits][1 + ((i - 1) % SerialBits)]

StreamOf(st) == [i \in 1..(SerialBits * Len(st)) |-> BitAt(st, i)]

LEMMA Below ==
    ASSUME NEW m \in Nat \ {0}, NEW p \in Nat, NEW q \in Nat, m * p < m * q
    PROVE  p < q
<1> SUFFICES ASSUME p >= q PROVE FALSE
  OBVIOUS
<1>1. PICK t \in Nat : p = q + t
  <2>1. p - q \in Nat /\ p = q + (p - q)
    OBVIOUS
  <2> QED
    BY <2>1
<1>2. m * p = m * q + m * t
  BY <1>1
<1>3. m * t \in Nat /\ m * p \in Nat /\ m * q \in Nat
  OBVIOUS
<1> QED
  BY <1>2, <1>3

(* Bit i of l bytes: its byte and its place there.                         *)
LEMMA BitPlace ==
    ASSUME NEW l \in Nat, NEW i \in 1..(SerialBits * l)
    PROVE  1 + (i - 1) \div SerialBits \in 1..l /\ 1 + ((i - 1) % SerialBits) \in 1..SerialBits
<1>1. PICK m \in Nat \ {0} : m = SerialBits
  BY CiaTimersAssumption
<1>2. PICK a \in Nat : a = i - 1 /\ a < m * l
  <2>1. SerialBits * l \in Nat
    BY <1>1
  <2> QED
    BY <1>1, <2>1
<1>3. a \in Int
  BY <1>2
<1>4. a \div m \in Nat /\ a % m \in 0..(m - 1)
  BY <1>2, <1>3, DivMod
<1>5. PICK q \in Nat, r \in 0..(m - 1) : q = a \div m /\ r = a % m
  BY <1>4
<1>6. m * q <= a
  BY <1>2, <1>5, Quotient
<1>7. m * q < m * l
  <2>1. m * q \in Nat /\ m * l \in Nat
    BY <1>1, <1>5
  <2> QED
    BY <1>2, <1>6, <2>1
<1>8. q < l
  BY <1>1, <1>5, <1>7, Below
<1>9. 1 + q \in 1..l /\ 1 + r \in 1..m
  BY <1>1, <1>5, <1>8
<1> QED
  BY <1>1, <1>2, <1>5, <1>9, Zenon

LEMMA StreamType ==
    ASSUME NEW st \in Seq(SdrByte)
    PROVE  /\ StreamOf(st) \in Seq({0, 1}) /\ Len(StreamOf(st)) = SerialBits * Len(st)
           /\ \A i \in 1..(SerialBits * Len(st)) : StreamOf(st)[i] = BitAt(st, i)
<1>1. PICK l \in Nat : l = Len(st)
  OBVIOUS
<1>2. PICK m \in Nat : m = SerialBits * l
  BY CiaTimersAssumption
<1>3. ASSUME NEW i \in 1..m PROVE BitAt(st, i) \in {0, 1}
  <2>1. PICK p, q : p = 1 + (i - 1) \div SerialBits /\ q = 1 + ((i - 1) % SerialBits)
    OBVIOUS
  <2>2. p \in 1..l /\ q \in 1..SerialBits
    <3>1. i \in 1..(SerialBits * l)
      BY <1>2
    <3> QED
      BY <2>1, <3>1, BitPlace, Zenon
  <2>3. st[p] \in SdrByte
    BY <1>1, <2>2
  <2>4. st[p][q] \in {0, 1}
    BY <2>2, <2>3, Zenon DEF SdrByte
  <2> QED
    BY <2>1, <2>4, Zenon DEF BitAt
<1>4. StreamOf(st) = [i \in 1..m |-> BitAt(st, i)]
  BY <1>1, <1>2, Zenon DEF StreamOf
<1>5. StreamOf(st) \in [1..m -> {0, 1}]
  BY <1>3, <1>4, Zenon
<1>6. StreamOf(st) \in Seq({0, 1}) /\ Len(StreamOf(st)) = m
  <2>1. PICK f \in [1..m -> {0, 1}] : f = StreamOf(st)
    BY <1>5
  <2>2. f \in Seq({0, 1}) /\ Len(f) = m
    BY <2>1, <1>2
  <2> QED
    BY <2>1, <2>2, Zenon
<1>7. \A i \in 1..m : StreamOf(st)[i] = BitAt(st, i)
  BY <1>4, Zenon
<1> QED
  BY <1>1, <1>2, <1>6, <1>7, Zenon

(* A byte more.                                                            *)
LEMMA StreamGrows ==
    ASSUME NEW st \in Seq(SdrByte), NEW b \in SdrByte
    PROVE  StreamOf(Append(st, b)) = StreamOf(st) \o b
<1>1. PICK l \in Nat : l = Len(st)
  OBVIOUS
<1>2. PICK m \in Nat \ {0} : m = SerialBits
  BY CiaTimersAssumption
<1>3. PICK n \in Nat : n = m * l
  BY <1>1, <1>2
<1>4. PICK su \in Seq(SdrByte) : su = Append(st, b) /\ Len(su) = l + 1
  BY <1>1, Appended
<1>5. m * (l + 1) = n + m
  BY <1>1, <1>2, <1>3
<1>6. PICK s \in Seq({0, 1}), t \in Seq({0, 1}) :
         s = StreamOf(st) /\ t = StreamOf(su) /\ Len(s) = n /\ Len(t) = n + m
         /\ (\A i \in 1..n : s[i] = BitAt(st, i))
         /\ (\A i \in 1..(n + m) : t[i] = BitAt(su, i))
  <2>1. /\ StreamOf(st) \in Seq({0, 1}) /\ Len(StreamOf(st)) = n
        /\ \A i \in 1..n : StreamOf(st)[i] = BitAt(st, i)
    BY <1>1, <1>2, <1>3, StreamType, Zenon
  <2>2. /\ StreamOf(su) \in Seq({0, 1}) /\ Len(StreamOf(su)) = SerialBits * Len(su)
        /\ \A i \in 1..(SerialBits * Len(su)) : StreamOf(su)[i] = BitAt(su, i)
    BY <1>4, StreamType, Zenon
  <2>3. SerialBits * Len(su) = n + m
    BY <1>2, <1>4, <1>5
  <2> QED
    BY <2>1, <2>2, <2>3, Zenon
<1>7. b \in Seq({0, 1}) /\ Len(b) = m
  BY <1>2, BytesAreBits
<1>8. PICK c \in Seq({0, 1}) : c = s \o b /\ Len(c) = n + m
         /\ \A i \in 1..(n + m) : c[i] = IF i <= n THEN s[i] ELSE b[i - n]
  <2>1. /\ s \o b \in Seq({0, 1}) /\ Len(s \o b) = Len(s) + Len(b)
        /\ \A i \in 1..(Len(s) + Len(b)) : (s \o b)[i] = IF i <= Len(s) THEN s[i] ELSE b[i - Len(s)]
    BY <1>6, <1>7, ConcatProperties, Zenon
  <2> QED
    BY <1>6, <1>7, <2>1, Zenon
<1>9. ASSUME NEW i \in 1..(n + m) PROVE t[i] = c[i]
  <2>0. t[i] = BitAt(su, i)
    BY <1>6, <1>9, Zenon
  <2>1. CASE i <= n
    <3>1. i \in 1..n
      BY <2>1, <1>3
    <3>2. PICK p, q : p = 1 + (i - 1) \div SerialBits /\ q = 1 + ((i - 1) % SerialBits)
      OBVIOUS
    <3>3. p \in 1..l
      <4>1. i \in 1..(SerialBits * l)
        BY <1>2, <1>3, <3>1
      <4> QED
        BY <1>1, <3>2, <4>1, BitPlace, Zenon
    <3>4. su[p] = st[p]
      BY <1>1, <1>4, <3>3
    <3>5. BitAt(su, i) = su[p][q] /\ BitAt(st, i) = st[p][q]
      BY <3>2, Zenon DEF BitAt
    <3>6. c[i] = s[i] /\ s[i] = BitAt(st, i)
      BY <1>6, <1>8, <2>1, <3>1, Zenon
    <3> QED
      BY <2>0, <3>4, <3>5, <3>6, Zenon
  <2>2. CASE ~(i <= n)
    <3>1. PICK r \in 0..(m - 1) : i - 1 = n + r /\ i - n = 1 + r
      <4>1. i - 1 - n \in 0..(m - 1) /\ i - 1 = n + (i - 1 - n) /\ i - n = 1 + (i - 1 - n)
        BY <1>2, <1>3, <2>2
      <4> QED
        BY <4>1
    <3>2. (m * l + r) \div m = l /\ (m * l + r) % m = r
      <4>1. l \in Int
        BY <1>1
      <4> QED
        BY <1>2, <3>1, <4>1, DivUnique
    <3>3. (i - 1) \div SerialBits = l /\ (i - 1) % SerialBits = r
      BY <1>2, <1>3, <3>1, <3>2, Zenon
    <3>4. BitAt(su, i) = su[1 + l][1 + r]
      BY <3>3, Zenon DEF BitAt
    <3>5. su[1 + l] = b
      BY <1>1, <1>4
    <3>6. c[i] = b[i - n]
      BY <1>8, <1>9, <2>2, Zenon
    <3> QED
      BY <2>0, <3>1, <3>4, <3>5, <3>6, Zenon
  <2> QED
    BY <2>1, <2>2
<1>10. t = c
  <2>1. Len(t) = Len(c) /\ \A i \in 1..Len(t) : t[i] = c[i]
    BY <1>6, <1>8, <1>9, Zenon
  <2> QED
    BY <1>6, <1>8, <2>1, SeqEqual, Zenon
<1> QED
  BY <1>4, <1>6, <1>8, <1>10, Zenon

-----------------------------------------------------------------------------
(* The output port's invariant, and how many bits it still has to send.    *)
Streamed(v) == v.wire \o v.shift = StreamOf(v.started)

SoundViews == {v \in Views : Len(v.shift) <= SerialBits /\ Streamed(v)}

Left(v) == Len(v.shift) + (IF v.full THEN SerialBits ELSE 0)

LEMMA HeadMoves ==
    ASSUME NEW S, NEW w \in Seq(S), NEW s \in Seq(S), s # <<>>
    PROVE  Append(w, Head(s)) \o Tail(s) = w \o s
OBVIOUS

LEMMA Joins ==
    ASSUME NEW S, NEW w \in Seq(S), NEW s \in Seq(S)
    PROVE  w \o <<>> = w /\ Len(s) \in Nat /\ (s = <<>> <=> Len(s) = 0)
OBVIOUS

LEMMA ViewFields ==
    ASSUME NEW v \in Views
    PROVE  /\ v.shift \in Seq({0, 1}) /\ v.busy \in BOOLEAN /\ v.buffer \in SdrByte
           /\ v.full \in BOOLEAN /\ v.wire \in Seq({0, 1}) /\ v.started \in Seq(SdrByte)
           /\ v.busy <=> v.shift # <<>>
BY Zenon DEF ViewRec, Views

LEMMA LeftIs ==
    ASSUME NEW v \in SoundViews
    PROVE  /\ Left(v) \in 0..(2 * SerialBits)
           /\ Left(v) = 0 <=> ~v.busy /\ ~v.full
<1>1. /\ v.shift \in Seq({0, 1}) /\ v.busy \in BOOLEAN /\ v.full \in BOOLEAN
      /\ v.busy <=> v.shift # <<>>
      /\ Len(v.shift) <= SerialBits
  BY ViewFields, Zenon DEF SoundViews
<1>2. PICK l \in Nat : l = Len(v.shift) /\ (v.shift = <<>> <=> l = 0)
  BY <1>1, Joins, Zenon
<1>3. SerialBits \in Nat \ {0}
  BY CiaTimersAssumption
<1>4. CASE v.full
  <2>1. Left(v) = l + SerialBits
    BY <1>2, <1>4, Zenon DEF Left
  <2> QED
    BY <1>1, <1>2, <1>3, <1>4, <2>1
<1>5. CASE ~v.full
  <2>1. Left(v) = l + 0
    BY <1>2, <1>5, Zenon DEF Left
  <2> QED
    BY <1>1, <1>2, <1>3, <1>5, <2>1
<1> QED
  BY <1>4, <1>5

LEMMA BeginSound ==
    ASSUME NEW v \in SoundViews
    PROVE  /\ Begin(v) \in SoundViews /\ Left(Begin(v)) = Left(v)
           /\ ~Begin(v).busy => Left(v) = 0
<1>0. v \in Views /\ v \in ViewRec /\ Len(v.shift) <= SerialBits /\ Streamed(v)
  BY Zenon DEF SoundViews, Views
<1>1. /\ v.shift \in Seq({0, 1}) /\ v.busy \in BOOLEAN /\ v.buffer \in SdrByte
      /\ v.full \in BOOLEAN /\ v.wire \in Seq({0, 1}) /\ v.started \in Seq(SdrByte)
      /\ v.busy <=> v.shift # <<>>
  BY <1>0, ViewFields, Zenon
<1>2. CASE v.busy \/ ~v.full
  <2>1. Begin(v) = v
    BY <1>2, Zenon DEF Begin
  <2>2. ~v.busy => Left(v) = 0
    BY <1>2, LeftIs, Zenon
  <2> QED
    BY <2>1, <2>2, Zenon
<1>3. CASE ~(v.busy \/ ~v.full)
  <2>1. v.buffer \in Seq({0, 1}) /\ v.buffer # <<>> /\ Len(v.buffer) = SerialBits
    BY <1>1, BytesAreBits, Zenon
  <2>2. PICK e : e = Begin(v)
    OBVIOUS
  <2>3. e = V(v.buffer, TRUE, v.buffer, FALSE, v.wire, Append(v.started, v.buffer))
    BY <1>3, <2>2, Zenon DEF Begin
  <2>4. /\ e.shift = v.buffer /\ e.busy = TRUE /\ e.full = FALSE /\ e.wire = v.wire
        /\ e.started = Append(v.started, v.buffer)
    BY <2>3, Zenon DEF V
  <2>5. e \in Views
    BY <1>0, <2>2, BeginType, Zenon
  <2>6. v.shift = <<>> /\ v.wire \o <<>> = v.wire /\ Len(v.shift) = 0
    BY <1>1, <1>3, Joins
  <2>7. v.wire = StreamOf(v.started)
    BY <1>0, <2>6, Zenon DEF Streamed
  <2>8. StreamOf(e.started) = StreamOf(v.started) \o v.buffer
    BY <1>1, <2>4, StreamGrows, Zenon
  <2>9. Streamed(e)
    BY <2>4, <2>7, <2>8, Zenon DEF Streamed
  <2>10. SerialBits \in Nat
    BY CiaTimersAssumption
  <2>11. Len(e.shift) = SerialBits
    BY <2>1, <2>4, Zenon
  <2>12. Left(e) = SerialBits + 0 /\ Left(v) = 0 + SerialBits
    BY <1>3, <2>4, <2>6, <2>11, Zenon DEF Left
  <2>13. Len(e.shift) <= SerialBits /\ Left(e) = Left(v)
    BY <2>10, <2>11, <2>12
  <2> QED
    BY <2>2, <2>4, <2>5, <2>9, <2>13, Zenon DEF SoundViews
<1> QED
  BY <1>2, <1>3

(* A bit leaves a busy port.                                               *)
LEMMA OutSound ==
    ASSUME NEW v \in SoundViews, v.busy
    PROVE  /\ Tail(v.shift) # <<>> => Out(v) \in SoundViews /\ Left(Out(v)) = Left(v) - 1
           /\ Tail(v.shift) = <<>> => /\ Done(Out(v)) \in SoundViews
                                      /\ Left(Done(Out(v))) = Left(v) - 1
<1>0. v \in Views /\ Len(v.shift) <= SerialBits /\ Streamed(v)
  BY Zenon DEF SoundViews
<1>1. /\ v.shift \in Seq({0, 1}) /\ v.busy \in BOOLEAN /\ v.buffer \in SdrByte
      /\ v.full \in BOOLEAN /\ v.wire \in Seq({0, 1}) /\ v.started \in Seq(SdrByte)
      /\ v.shift # <<>>
  BY <1>0, ViewFields, Zenon
<1>2. PICK sh, w : sh = Tail(v.shift) /\ w = Append(v.wire, Head(v.shift))
  OBVIOUS
<1>3. PICK o, e : o = Out(v) /\ e = Done(Out(v))
  OBVIOUS
<1>4. o.shift = sh /\ o.busy = v.busy /\ o.full = v.full /\ o.wire = w /\ o.started = v.started
      /\ o.buffer = v.buffer
  BY <1>2, <1>3, Zenon DEF Out, V
<1>5. e.shift = sh /\ e.full = v.full /\ e.wire = w /\ e.started = v.started
  BY <1>3, <1>4, Zenon DEF Done, V
<1>6. w \o sh = v.wire \o v.shift
  BY <1>1, <1>2, HeadMoves, Zenon
<1>7. Streamed(o) /\ Streamed(e)
  BY <1>0, <1>4, <1>5, <1>6, Zenon DEF Streamed
<1>8. PICK l \in Nat : l = Len(v.shift) /\ Len(sh) = l - 1 /\ Len(sh) \in Nat
  <2>1. Tail(v.shift) \in Seq({0, 1}) /\ Len(Tail(v.shift)) = Len(v.shift) - 1
    BY <1>1, Shifted, Zenon
  <2>2. Len(v.shift) \in Nat /\ Len(Tail(v.shift)) \in Nat
    BY <1>1, <2>1, Joins, Zenon
  <2> QED
    BY <1>2, <2>1, <2>2, Zenon
<1>9. SerialBits \in Nat
  BY CiaTimersAssumption
<1>10. Len(o.shift) <= SerialBits /\ Len(e.shift) <= SerialBits
  <2>1. Len(sh) <= SerialBits
    BY <1>0, <1>8, <1>9
  <2> QED
    BY <1>4, <1>5, <2>1, Zenon
<1>11. PICK x \in Nat : Left(v) = l + x /\ Left(o) = Len(sh) + x /\ Left(e) = Len(sh) + x
  <2>1. PICK x \in Nat : x = IF v.full THEN SerialBits ELSE 0
    BY <1>9
  <2> QED
    BY <1>4, <1>5, <1>8, <2>1, Zenon DEF Left
<1>12. Left(o) = Left(v) - 1 /\ Left(e) = Left(v) - 1
  BY <1>8, <1>11
<1>13. sh # <<>> => o \in Views
  <2>1. o \in ViewRec /\ o.busy = TRUE
    BY <1>0, <1>3, OutType, Zenon
  <2> QED
    BY <1>4, <2>1, Zenon DEF Views
<1>14. sh = <<>> => e \in Views
  BY <1>0, <1>2, <1>3, OutType, Zenon
<1> QED
  BY <1>2, <1>3, <1>7, <1>10, <1>12, <1>13, <1>14, Zenon DEF SoundViews

LEMMA BitSound ==
    ASSUME NEW v \in SoundViews
    PROVE  /\ BitOut(v) \in SoundViews
           /\ Left(BitOut(v)) = Left(v) - 1 \/ (Left(v) = 0 /\ Left(BitOut(v)) = 0)
<1>1. PICK b : b = Begin(v)
  OBVIOUS
<1>2. b \in SoundViews /\ Left(b) = Left(v) /\ (~b.busy => Left(v) = 0)
  BY <1>1, BeginSound, Zenon
<1>3. CASE ~b.busy
  BY <1>1, <1>2, <1>3, Zenon DEF BitOut
<1>4. CASE b.busy /\ Tail(b.shift) # <<>>
  <2>1. BitOut(v) = Out(b)
    BY <1>1, <1>4, Zenon DEF BitOut
  <2>2. Out(b) \in SoundViews /\ Left(Out(b)) = Left(b) - 1
    BY <1>2, <1>4, OutSound
  <2> QED
    BY <1>2, <2>1, <2>2, Zenon
<1>5. CASE b.busy /\ Tail(b.shift) = <<>>
  <2>1. BitOut(v) = Begin(Done(Out(b)))
    BY <1>1, <1>5, Zenon DEF BitOut
  <2>2. PICK e : e = Done(Out(b))
    OBVIOUS
  <2>3. e \in SoundViews /\ Left(e) = Left(b) - 1
    BY <1>2, <1>5, <2>2, OutSound
  <2>4. Begin(e) \in SoundViews /\ Left(Begin(e)) = Left(e)
    BY <2>3, BeginSound, Zenon
  <2> QED
    BY <1>2, <2>1, <2>2, <2>3, <2>4, Zenon
<1> QED
  BY <1>3, <1>4, <1>5

LEMMA BitsSound ==
    ASSUME NEW v \in SoundViews, NEW out, NEW n \in Nat
    PROVE  Iterated(BitsOf(out), v, n) \in SoundViews
<1>1. ASSUME NEW x \in SoundViews PROVE BitsOf(out)[x] \in SoundViews
  <2>1. x \in Views
    BY Zenon DEF SoundViews
  <2>2. BitsOf(out)[x] = IF out THEN BitOut(x) ELSE x
    BY <2>1, Zenon DEF BitsOf
  <2>3. BitOut(x) \in SoundViews
    BY BitSound, Zenon
  <2> QED
    BY <2>2, <2>3, Zenon
<1> QED
  BY <1>1, IteratedInvariant, Zenon

(* n underflows send n bits, or all there are.                             *)
LEMMA BitsDrain ==
    ASSUME NEW v \in SoundViews, NEW n \in Nat, Left(v) <= n
    PROVE  Left(Iterated(BitsOf(TRUE), v, n)) = 0
<1> DEFINE B == BitsOf(TRUE)
           S == {i \in Nat : Left(Iterated(B, v, i)) \in Nat
                             /\ (Left(Iterated(B, v, i)) = 0 \/ Left(Iterated(B, v, i)) + i = Left(v))}
<1>1. /\ Iterated(B, v, 0) = v
      /\ \A i \in Nat : Iterated(B, v, i + 1) = B[Iterated(B, v, i)]
  BY IteratedSteps, Zenon
<1>2. Left(v) \in Nat
  <2>1. Left(v) \in 0..(2 * SerialBits) /\ SerialBits \in Nat
    BY LeftIs, CiaTimersAssumption
  <2> QED
    BY <2>1
<1>3. 0 \in S
  <2>1. Left(v) + 0 = Left(v) /\ 0 \in Nat
    BY <1>2
  <2> QED
    BY <1>1, <1>2, <2>1, Zenon
<1>4. ASSUME NEW i \in Nat, i \in S PROVE i + 1 \in S
  <2>1. PICK x \in SoundViews : x = Iterated(B, v, i)
    BY BitsSound, Zenon
  <2>2. x \in Views
    BY <2>1, Zenon DEF SoundViews
  <2>3. Iterated(B, v, i + 1) = BitOut(x)
    <3>1. B[x] = BitOut(x)
      BY <2>2, Zenon DEF BitsOf
    <3> QED
      BY <1>1, <2>1, <3>1, Zenon
  <2>4. PICK y : y = BitOut(x)
    OBVIOUS
  <2>5. y \in SoundViews /\ (Left(y) = Left(x) - 1 \/ (Left(x) = 0 /\ Left(y) = 0))
    BY <2>1, <2>4, BitSound, Zenon
  <2>6. Left(y) \in Nat
    <3>1. Left(y) \in 0..(2 * SerialBits) /\ SerialBits \in Nat
      BY <2>5, LeftIs, CiaTimersAssumption
    <3> QED
      BY <3>1
  <2>7. Left(x) \in Nat /\ (Left(x) = 0 \/ Left(x) + i = Left(v))
    BY <1>4, <2>1, Zenon
  <2>8. Left(y) = 0 \/ Left(y) + (i + 1) = Left(v)
    BY <1>2, <2>5, <2>6, <2>7
  <2>9. i + 1 \in Nat
    OBVIOUS
  <2> QED
    BY <2>3, <2>4, <2>6, <2>8, <2>9, Zenon
<1> HIDE DEF S
<1>5. Nat \subseteq S
  BY <1>3, <1>4, SetInduction
<1>6. PICK w : w = Left(Iterated(B, v, n))
  OBVIOUS
<1>7. w \in Nat /\ (w = 0 \/ w + n = Left(v))
  BY <1>5, <1>6, Zenon DEF S
<1>8. w = 0
  BY <1>2, <1>7
<1> QED
  BY <1>6, <1>8, Zenon

-----------------------------------------------------------------------------
(* A free-running timer passes 0 at least p times in p of the longest      *)
(* periods.                                                                *)
Periods(m, c, l, p, n) ==
    /\ m \in Nat /\ c \in 0..m /\ l \in 0..m /\ p \in Nat \ {0} /\ n \in Nat
    /\ n = (m + 1) * p

PassedBy(c, l, p, n) == \E d \in Nat, u \in Nat : Free(c, l, n) = Pair(d, u) /\ p <= u

LEMMA Passes ==
    ASSUME NEW m, NEW c, NEW l, NEW p, NEW n, Periods(m, c, l, p, n)
    PROVE  PassedBy(c, l, p, n)
<1>0. /\ m \in Nat /\ c \in 0..m /\ l \in 0..m /\ p \in Nat \ {0} /\ n \in Nat
      /\ n = (m + 1) * p
  BY Zenon DEF Periods
<1> USE <1>0
<1> HIDE DEF Periods
<1>1. PICK t \in Nat \ {0} : t = m + 1
  OBVIOUS
<1>2. n >= t
  <2>1. PICK s \in Nat : p = s + 1
    <3>1. p - 1 \in Nat /\ p = (p - 1) + 1
      OBVIOUS
    <3> QED
      BY <3>1
  <2>2. t * p = t * s + t /\ t * s \in Nat
    BY <1>1, <2>1
  <2> QED
    BY <1>1, <2>2
<1>3. ~(n <= c) /\ c \in Nat /\ l \in Nat
  BY <1>1, <1>2
<1>4. PICK q \in Nat, r \in 0..l : Round(c, l, n, q, r)
  BY <1>3, RoundExists
<1>5. Free(c, l, n) = Pair(l - r, 1 + q)
  BY <1>3, <1>4, AdvanceRound
<1>6. n = ((c + 1) + (l + 1) * q) + r
  <2>1. PICK y \in Nat : y = (l + 1) * q
    BY <1>3, <1>4
  <2>2. n - (c + 1) = y + r
    BY <1>4, <2>1, Zenon DEF Round
  <2>3. n = ((c + 1) + y) + r
    BY <1>3, <1>4, <2>1, <2>2
  <2> QED
    BY <2>1, <2>3, Zenon
<1>7. (l + 1) * q <= t * q
  <2>1. PICK x \in Nat : t = (l + 1) + x
    <3>1. t - (l + 1) \in Nat /\ t = (l + 1) + (t - (l + 1))
      BY <1>1
    <3> QED
      BY <3>1
  <2>2. t * q = (l + 1) * q + x * q /\ x * q \in Nat /\ (l + 1) * q \in Nat
    BY <1>3, <1>4, <2>1
  <2> QED
    BY <2>2
<1>8. t * p < t * (q + 2)
  <2>1. t * (q + 2) = (t * q + t) + t /\ t * q \in Nat /\ (l + 1) * q \in Nat
    BY <1>1, <1>3, <1>4
  <2>2. n < (t * q + t) + t
    <3>1. PICK y \in Nat, z \in Nat : y = (l + 1) * q /\ z = t * q
      BY <2>1
    <3>2. n = ((c + 1) + y) + r /\ y <= z
      BY <1>6, <1>7, <3>1, Zenon
    <3>3. n < (z + t) + t
      BY <1>1, <1>3, <1>4, <3>1, <3>2
    <3> QED
      BY <3>1, <3>3, Zenon
  <2>3. n = t * p
    BY <1>1
  <2> QED
    BY <2>1, <2>2, <2>3, Zenon
<1>9. p < q + 2
  <2>1. q + 2 \in Nat /\ p \in Nat
    BY <1>4
  <2> QED
    BY <1>1, <1>8, <2>1, Below
<1>10. p <= 1 + q /\ l - r \in Nat /\ 1 + q \in Nat
  BY <1>3, <1>4, <1>9
<1> QED
  BY <1>5, <1>10 DEF PassedBy

(* Driven(k) is SerialDriven of a chip.                                    *)
Driven(k) == {"START", "b6"} \subseteq k.cra /\ {"RUNMODE", "b5"} \cap k.cra = {}

LEMMA DrivenDrains ==
    ASSUME NEW k \in Chips, View(k) \in SoundViews, Driven(k), NEW e, e = cia_step(k, DrainTicks)
    PROVE  ~ e.serial_out_busy /\ ~ e.serial_out_buffer_full
<1>1. PICK m \in Nat : m = MaxCount
  BY MaxCountNat
<1>2. PICK p \in Nat \ {0} : p = 2 * SerialBits
  BY CiaTimersAssumption
<1>3. PICK n \in Nat : n = DrainTicks /\ n = (m + 1) * p
  <2>1. DrainTicks = p * (m + 1)
    BY <1>1, <1>2, Zenon DEF DrainTicks
  <2>2. p * (m + 1) = (m + 1) * p /\ (m + 1) * p \in Nat
    BY <1>1, <1>2
  <2> QED
    BY <2>1, <2>2
<1>4. "START" \in k.cra /\ "b6" \in k.cra /\ "RUNMODE" \notin k.cra /\ "b5" \notin k.cra
  BY Zenon DEF Driven
<1>5. OnA(k) = TRUE /\ Continuous(k.cra) = TRUE
  BY <1>4, Zenon DEF OnA, Continuous
<1>6. PICK d \in Nat, u \in Nat : AdvA(k, n) = Pair(d, u) /\ p <= u
  <2>1. PICK c \in 0..m, l \in 0..m : c = k.ta_counter /\ l = k.ta_latch
    BY <1>1, ControlType
  <2>2. PICK d \in Nat, u \in Nat : Free(c, l, n) = Pair(d, u) /\ p <= u
    <3>1. Periods(m, c, l, p, n)
      BY <1>1, <1>2, <1>3, <2>1, Zenon DEF Periods
    <3>2. PassedBy(c, l, p, n)
      BY <3>1, Passes, Zenon
    <3> QED
      BY <3>2, Zenon DEF PassedBy
  <2>3. AdvA(k, n) = Free(c, l, n)
    BY <1>5, <2>1, Zenon DEF AdvA, Adv, Free
  <2> QED
    BY <2>2, <2>3
<1>7. Stepped(k, n, e)
  BY <1>3, StepFacts
<1>8. AdvA(k, n).uf = u
  <2>1. Pair(d, u).uf = u
    BY PairFields
  <2> QED
    BY <1>6, <2>1, Zenon
<1>9. View(e) = Iterated(BitsOf("b6" \in k.cra), View(k), u)
  BY <1>7, <1>8, Zenon DEF Stepped
<1>10. BitsOf("b6" \in k.cra) = BitsOf(TRUE)
  BY <1>4, Zenon DEF BitsOf
<1>11. PICK v \in SoundViews : v = View(k)
  OBVIOUS
<1>12. Left(v) <= u
  <2>1. Left(v) \in 0..(2 * SerialBits)
    BY <1>11, LeftIs
  <2> QED
    BY <1>2, <1>6, <2>1
<1>13. PICK w : w = Iterated(BitsOf(TRUE), v, u)
  OBVIOUS
<1>14. w \in SoundViews /\ Left(w) = 0
  BY <1>6, <1>11, <1>12, <1>13, BitsSound, BitsDrain
<1>15. ~w.busy /\ ~w.full
  BY <1>14, LeftIs, Zenon
<1>16. View(e) = w
  BY <1>9, <1>10, <1>11, <1>13, Zenon
<1>17. View(e).busy = e.serial_out_busy /\ View(e).full = e.serial_out_buffer_full
  BY Zenon DEF View, V
<1> QED
  BY <1>15, <1>16, <1>17, Zenon

-----------------------------------------------------------------------------
(* The invariant of the chip, and what keeps it.                           *)
SoundChips == {k \in Chips : View(k) \in SoundViews}

(* Neither the serial port nor the ICR is touched.                         *)
Plain(k, e) ==
    /\ e \in ChipType /\ View(e) = View(k) /\ e.serial_in = k.serial_in
    /\ SameIcr(k, e) /\ e.icr_mask = k.icr_mask

LEMMA PlainSound ==
    ASSUME NEW k \in SoundChips, NEW e, Plain(k, e)
    PROVE  e \in SoundChips
<1>1. k \in Chips /\ View(k) \in SoundViews
  BY Zenon DEF SoundChips
<1>2. e \in ChipType /\ View(e) = View(k) /\ e.serial_in = k.serial_in
      /\ e.icr_data = k.icr_data /\ e.irq_asserted = k.irq_asserted /\ e.icr_mask = k.icr_mask
  BY Zenon DEF Plain, SameIcr
<1>3. e \in Chips
  BY <1>1, <1>2, Zenon DEF Chips, Pending
<1> QED
  BY <1>1, <1>2, <1>3, Zenon DEF SoundChips

LEMMA SoundType ==
    ASSUME NEW k \in SoundChips
    PROVE  k \in Chips /\ k \in ChipType /\ View(k) \in SoundViews /\ View(k) \in Views
BY Zenon DEF SoundChips, Chips

(* Raising an interrupt.                                                   *)
LEMMA RaiseSound ==
    ASSUME NEW k \in SoundChips, NEW s \in SUBSET IcrBits, NEW e, e = cia_raise(k, s)
    PROVE  e \in SoundChips
<1>1. k \in Chips
  BY SoundType
<1>2. e \in Chips /\ View(e) = View(k)
  BY <1>1, RaiseKept, Zenon
<1> QED
  BY <1>2, SoundType, Zenon DEF SoundChips

(* The line follows a new ICR or mask.                                     *)
LEMMA SyncSound ==
    ASSUME NEW k \in SoundChips, NEW d \in SUBSET IcrBits, NEW m \in SUBSET IcrBits, NEW p,
           p = [k EXCEPT !.icr_data = d, !.icr_mask = m], NEW e, e = sync_irq_line(p)
    PROVE  e \in SoundChips
<1>0. k \in Chips /\ k \in ChipType /\ View(k) \in SoundViews
  BY SoundType
<1>1. p \in ChipType
  BY <1>0, Zenon DEF ChipType
<1>2. View(p) = View(k)
  BY <1>0, Zenon DEF ChipType, View
<1>3. p.serial_in = k.serial_in
  BY <1>0, Zenon DEF ChipType
<1>4. PICK b \in BOOLEAN : b = cia_irq_pending(p)
  BY Zenon DEF cia_irq_pending
<1>5. e = [p EXCEPT !.irq_asserted = b]
  BY <1>4, Zenon DEF sync_irq_line
<1>6. e \in ChipType
  BY <1>1, <1>4, <1>5, ZenonT(60) DEF ChipType
<1>7. View(e) = View(p)
  BY <1>1, <1>5, Zenon DEF ChipType, View
<1>8. e.serial_in = p.serial_in /\ e.irq_asserted = b /\ e.icr_data = p.icr_data
      /\ e.icr_mask = p.icr_mask
  BY <1>1, <1>5, Zenon DEF ChipType
<1>9. Len(e.serial_in) < SerialBits
  BY <1>0, <1>3, <1>8, Zenon DEF Chips
<1>10. e.irq_asserted = Pending(e)
  BY <1>4, <1>8, Zenon DEF Pending, cia_irq_pending
<1>11. View(e) \in SoundViews /\ View(e) \in Views
  BY <1>0, <1>2, <1>7, Zenon DEF SoundViews
<1> QED
  BY <1>6, <1>9, <1>10, <1>11, Zenon DEF SoundChips, Chips

LEMMA ReadIcrSound ==
    ASSUME NEW k \in SoundChips
    PROVE  cia_read_icr(k) \in SoundChips
<1>1. k \in ChipType /\ k.icr_mask \in SUBSET IcrBits
  BY SoundType, Zenon DEF ChipType
<1>2. PICK p : p = [k EXCEPT !.icr_data = {}]
  OBVIOUS
<1>3. p = [k EXCEPT !.icr_data = {}, !.icr_mask = k.icr_mask]
  BY <1>1, <1>2, Zenon DEF ChipType
<1>4. cia_read_icr(k) = sync_irq_line(p)
  BY <1>2, Zenon DEF cia_read_icr
<1>5. {} \in SUBSET IcrBits
  OBVIOUS
<1> QED
  BY <1>1, <1>3, <1>4, <1>5, SyncSound, Zenon

LEMMA WriteIcrSound ==
    ASSUME NEW k \in SoundChips, NEW value, value.bits \in SUBSET IcrBits
    PROVE  cia_write_icr(k, value) \in SoundChips
<1>1. k \in ChipType /\ k.icr_mask \in SUBSET IcrBits /\ k.icr_data \in SUBSET IcrBits
  BY SoundType, Zenon DEF ChipType
<1>2. PICK m \in SUBSET IcrBits : m = SetClr(k.icr_mask, value)
  BY <1>1, Zenon DEF SetClr
<1>3. PICK p : p = [k EXCEPT !.icr_mask = m]
  OBVIOUS
<1>4. p = [k EXCEPT !.icr_data = k.icr_data, !.icr_mask = m]
  BY <1>1, <1>3, Zenon DEF ChipType
<1>5. cia_write_icr(k, value) = sync_irq_line(p)
  BY <1>2, <1>3, Zenon DEF cia_write_icr
<1> QED
  BY <1>1, <1>2, <1>4, <1>5, SyncSound, Zenon

-----------------------------------------------------------------------------
(* The latches hold two bytes.                                             *)
LEMMA LatchType ==
    ASSUME NEW l \in 0..MaxCount, NEW v \in 0..(Byte - 1)
    PROVE  WithLo(l, v) \in 0..MaxCount /\ WithHi(l, v) \in 0..MaxCount
<1>1. PICK b \in Nat \ {0} : b = Byte
  BY CiaTimersAssumption
<1>2. MaxCount = b * b - 1 /\ b * b \in Nat \ {0}
  BY <1>1 DEF MaxCount
<1>3. l \in Nat /\ l < b * b
  BY <1>2
<1>4. l \in Int
  BY <1>3
<1>5. PICK q \in Nat, r \in 0..(b - 1) : q = l \div b /\ r = l % b
  BY <1>1, <1>3, <1>4, DivMod
<1>6. b * q <= l
  BY <1>1, <1>3, <1>5, Quotient
<1>7. b * q < b * b
  <2>1. b * q \in Nat /\ b * b \in Nat
    BY <1>1, <1>5
  <2> QED
    BY <1>3, <1>6, <2>1
<1>8. q < b
  BY <1>1, <1>5, <1>7, Below
<1>9. v \in 0..(b - 1)
  BY <1>1
<1>10. ASSUME NEW x \in 0..(b - 1), NEW y \in 0..(b - 1)
       PROVE  x * b + y \in 0..(b * b - 1)
  <2>1. PICK t \in Nat : b = (x + 1) + t
    <3>1. b - (x + 1) \in Nat /\ b = (x + 1) + (b - (x + 1))
      BY <1>1
    <3> QED
      BY <3>1
  <2>2. b * b = (x * b + b) + t * b /\ t * b \in Nat /\ x * b \in Nat
    BY <1>1, <2>1
  <2> QED
    BY <1>1, <2>2
<1>11. q \in 0..(b - 1)
  BY <1>1, <1>5, <1>8
<1>12. WithLo(l, v) = q * b + v /\ WithHi(l, v) = v * b + r
  BY <1>1, <1>5, Zenon DEF WithLo, WithHi
<1>13. q * b + v \in 0..(b * b - 1) /\ v * b + r \in 0..(b * b - 1)
  BY <1>5, <1>9, <1>10, <1>11, Zenon
<1> QED
  BY <1>2, <1>12, <1>13, Zenon

(* A chip with other counters, latches, control registers or outputs.      *)
WithRegisters(k, la, ca, lb, cb, cra, crb, o) ==
    [k EXCEPT !.ta_latch = la, !.ta_counter = ca, !.tb_latch = lb, !.tb_counter = cb,
              !.cra = cra, !.crb = crb, !.pb_timer_out = o]

RegisterValues(k, la, ca, lb, cb, cra, crb, o) ==
    /\ k \in SoundChips /\ la \in 0..MaxCount /\ ca \in 0..MaxCount
    /\ lb \in 0..MaxCount /\ cb \in 0..MaxCount
    /\ cra \in CrValue /\ crb \in CrValue /\ o \in SUBSET {6, 7}

LEMMA RegistersSet ==
    ASSUME NEW k, NEW la, NEW ca, NEW lb, NEW cb, NEW cra, NEW crb, NEW o,
           RegisterValues(k, la, ca, lb, cb, cra, crb, o)
    PROVE  WithRegisters(k, la, ca, lb, cb, cra, crb, o) \in SoundChips
<1> USE DEF RegisterValues
<1>4. PICK e : e = [k EXCEPT !.ta_latch = la, !.ta_counter = ca, !.tb_latch = lb,
                             !.tb_counter = cb, !.cra = cra, !.crb = crb,
                             !.pb_timer_out = o]
  OBVIOUS
<1>0. k \in ChipType
  BY SoundType
<1>1. e \in ChipType
  BY <1>0, <1>4, Zenon DEF ChipType, CrValue
<1>2. View(e) = View(k)
  BY <1>0, <1>4, Zenon DEF ChipType, View
<1>3. e.serial_in = k.serial_in /\ SameIcr(k, e) /\ e.icr_mask = k.icr_mask
  BY <1>0, <1>4, Zenon DEF ChipType, SameIcr
<1>5. e \in SoundChips
  BY <1>1, <1>2, <1>3, PlainSound, Zenon DEF Plain
<1> QED
  BY <1>4, <1>5, Zenon DEF WithRegisters

LEMMA RegisterTypes ==
    ASSUME NEW k \in SoundChips
    PROVE  /\ k \in ChipType /\ k.cra \in CrValue /\ k.crb \in CrValue
           /\ k.ta_counter \in 0..MaxCount /\ k.tb_counter \in 0..MaxCount
           /\ k.ta_latch \in 0..MaxCount /\ k.tb_latch \in 0..MaxCount
           /\ k.pb_timer_out \in SUBSET {6, 7}
<1>1. k \in Chips /\ k \in ChipType
  BY SoundType
<1>2. k.pb_timer_out \in SUBSET {6, 7}
  BY <1>1, Zenon DEF ChipType
<1> QED
  BY <1>1, <1>2, ControlType

LEMMA LatchSound ==
    ASSUME NEW k \in SoundChips, NEW v \in 0..(Byte - 1)
    PROVE  /\ write_talo(k, v) \in SoundChips /\ write_tblo(k, v) \in SoundChips
           /\ write_tahi(k, v) \in SoundChips /\ write_tbhi(k, v) \in SoundChips
<1>0. /\ k \in ChipType /\ k.cra \in CrValue /\ k.crb \in CrValue
      /\ k.ta_counter \in 0..MaxCount /\ k.tb_counter \in 0..MaxCount
      /\ k.ta_latch \in 0..MaxCount /\ k.tb_latch \in 0..MaxCount
      /\ k.pb_timer_out \in SUBSET {6, 7}
  BY RegisterTypes
<1>1. PICK a \in 0..MaxCount, b \in 0..MaxCount : a = WithLo(k.ta_latch, v) /\ b = WithLo(k.tb_latch, v)
  BY <1>0, LatchType
<1>2. PICK c \in 0..MaxCount, d \in 0..MaxCount : c = WithHi(k.ta_latch, v) /\ d = WithHi(k.tb_latch, v)
  BY <1>0, LatchType
<1>3. write_talo(k, v) = WithRegisters(k, a, k.ta_counter, k.tb_latch, k.tb_counter,
                               k.cra, k.crb, k.pb_timer_out)
  BY <1>0, <1>1, Zenon DEF write_talo, ChipType, WithRegisters
<1>4. write_tblo(k, v) = WithRegisters(k, k.ta_latch, k.ta_counter, b, k.tb_counter,
                               k.cra, k.crb, k.pb_timer_out)
  BY <1>0, <1>1, Zenon DEF write_tblo, ChipType, WithRegisters
<1>5. write_talo(k, v) \in SoundChips
  <2>1. RegisterValues(k, a, k.ta_counter, k.tb_latch, k.tb_counter, k.cra, k.crb, k.pb_timer_out)
    BY <1>0, <1>1, Zenon DEF RegisterValues
  <2>2. WithRegisters(k, a, k.ta_counter, k.tb_latch, k.tb_counter, k.cra, k.crb, k.pb_timer_out) \in SoundChips
    BY <2>1, RegistersSet, Zenon
  <2> QED
    BY <1>3, <2>2, Zenon
<1>6. write_tblo(k, v) \in SoundChips
  <2>1. RegisterValues(k, k.ta_latch, k.ta_counter, b, k.tb_counter, k.cra, k.crb, k.pb_timer_out)
    BY <1>0, <1>1, Zenon DEF RegisterValues
  <2>2. WithRegisters(k, k.ta_latch, k.ta_counter, b, k.tb_counter, k.cra, k.crb, k.pb_timer_out) \in SoundChips
    BY <2>1, RegistersSet, Zenon
  <2> QED
    BY <1>4, <2>2, Zenon
<1>7. write_tahi(k, v) \in SoundChips
  <2>1. PICK cr \in CrValue : cr = IF "RUNMODE" \in k.cra THEN k.cra \cup {"START"} ELSE k.cra
    BY <1>0 DEF CrValue, CrBits
  <2>2. CASE "START" \in k.cra
    <3>1. write_tahi(k, v) = WithRegisters(k, c, k.ta_counter, k.tb_latch, k.tb_counter,
                               k.cra, k.crb, k.pb_timer_out)
      BY <1>0, <1>2, <2>2, Zenon DEF write_tahi, ChipType, WithRegisters
    <3> QED
      <4>1. RegisterValues(k, c, k.ta_counter, k.tb_latch, k.tb_counter, k.cra, k.crb, k.pb_timer_out)
        BY <1>0, <1>2, Zenon DEF RegisterValues
      <4>2. WithRegisters(k, c, k.ta_counter, k.tb_latch, k.tb_counter, k.cra, k.crb, k.pb_timer_out) \in SoundChips
        BY <4>1, RegistersSet, Zenon
      <4> QED
        BY <3>1, <4>2, Zenon
  <2>3. CASE "START" \notin k.cra
    <3>1. write_tahi(k, v) = WithRegisters(k, c, c, k.tb_latch, k.tb_counter,
                               cr, k.crb, k.pb_timer_out)
      BY <1>0, <1>2, <2>1, <2>3, Zenon DEF write_tahi, ChipType, WithRegisters
    <3> QED
      <4>1. RegisterValues(k, c, c, k.tb_latch, k.tb_counter, cr, k.crb, k.pb_timer_out)
        BY <1>0, <1>2, <2>1, Zenon DEF RegisterValues
      <4>2. WithRegisters(k, c, c, k.tb_latch, k.tb_counter, cr, k.crb, k.pb_timer_out) \in SoundChips
        BY <4>1, RegistersSet, Zenon
      <4> QED
        BY <3>1, <4>2, Zenon
  <2> QED
    BY <2>2, <2>3
<1>8. write_tbhi(k, v) \in SoundChips
  <2>1. PICK cr \in CrValue : cr = IF "RUNMODE" \in k.crb THEN k.crb \cup {"START"} ELSE k.crb
    BY <1>0 DEF CrValue, CrBits
  <2>2. CASE "START" \in k.crb
    <3>1. write_tbhi(k, v) = WithRegisters(k, k.ta_latch, k.ta_counter, d, k.tb_counter,
                               k.cra, k.crb, k.pb_timer_out)
      BY <1>0, <1>2, <2>2, Zenon DEF write_tbhi, ChipType, WithRegisters
    <3> QED
      <4>1. RegisterValues(k, k.ta_latch, k.ta_counter, d, k.tb_counter, k.cra, k.crb, k.pb_timer_out)
        BY <1>0, <1>2, Zenon DEF RegisterValues
      <4>2. WithRegisters(k, k.ta_latch, k.ta_counter, d, k.tb_counter, k.cra, k.crb, k.pb_timer_out) \in SoundChips
        BY <4>1, RegistersSet, Zenon
      <4> QED
        BY <3>1, <4>2, Zenon
  <2>3. CASE "START" \notin k.crb
    <3>1. write_tbhi(k, v) = WithRegisters(k, k.ta_latch, k.ta_counter, d, d,
                               k.cra, cr, k.pb_timer_out)
      BY <1>0, <1>2, <2>1, <2>3, Zenon DEF write_tbhi, ChipType, WithRegisters
    <3> QED
      <4>1. RegisterValues(k, k.ta_latch, k.ta_counter, d, d, k.cra, cr, k.pb_timer_out)
        BY <1>0, <1>2, <2>1, Zenon DEF RegisterValues
      <4>2. WithRegisters(k, k.ta_latch, k.ta_counter, d, d, k.cra, cr, k.pb_timer_out) \in SoundChips
        BY <4>1, RegistersSet, Zenon
      <4> QED
        BY <3>1, <4>2, Zenon
  <2> QED
    BY <2>2, <2>3
<1> QED
  BY <1>5, <1>6, <1>7, <1>8

LEMMA ControlSound ==
    ASSUME NEW k \in SoundChips, NEW v \in SUBSET CrBits
    PROVE  write_cra(k, v) \in SoundChips /\ write_crb(k, v) \in SoundChips
<1>0. /\ k \in ChipType /\ k.cra \in CrValue /\ k.crb \in CrValue
      /\ k.ta_counter \in 0..MaxCount /\ k.tb_counter \in 0..MaxCount
      /\ k.ta_latch \in 0..MaxCount /\ k.tb_latch \in 0..MaxCount
      /\ k.pb_timer_out \in SUBSET {6, 7}
  BY RegisterTypes
<1>1. PICK cr \in CrValue : cr = v \ {"LOAD"}
  BY Zenon DEF CrValue
<1>2. PICK o \in SUBSET {6, 7}, p \in SUBSET {6, 7} :
         /\ o = IF "PBON" \in v THEN k.pb_timer_out \cup {6} ELSE k.pb_timer_out
         /\ p = IF "PBON" \in v THEN k.pb_timer_out \cup {7} ELSE k.pb_timer_out
  BY <1>0
<1>3. PICK c \in 0..MaxCount, d \in 0..MaxCount :
         /\ c = IF "LOAD" \in v THEN k.ta_latch ELSE k.ta_counter
         /\ d = IF "LOAD" \in v THEN k.tb_latch ELSE k.tb_counter
  BY <1>0, Zenon
<1>4. write_cra(k, v) = WithRegisters(k, k.ta_latch, c, k.tb_latch, k.tb_counter,
                               cr, k.crb, o)
  BY <1>0, <1>1, <1>2, <1>3, Zenon DEF write_cra, ChipType, WithRegisters
<1>5. write_crb(k, v) = WithRegisters(k, k.ta_latch, k.ta_counter, k.tb_latch, d,
                               k.cra, cr, p)
  BY <1>0, <1>1, <1>2, <1>3, Zenon DEF write_crb, ChipType, WithRegisters
<1>6. write_cra(k, v) \in SoundChips
  <2>1. RegisterValues(k, k.ta_latch, c, k.tb_latch, k.tb_counter, cr, k.crb, o)
    BY <1>0, <1>1, <1>2, <1>3, Zenon DEF RegisterValues
  <2>2. WithRegisters(k, k.ta_latch, c, k.tb_latch, k.tb_counter, cr, k.crb, o) \in SoundChips
    BY <2>1, RegistersSet, Zenon
  <2> QED
    BY <1>4, <2>2, Zenon
<1>7. write_crb(k, v) \in SoundChips
  <2>1. RegisterValues(k, k.ta_latch, k.ta_counter, k.tb_latch, d, k.cra, cr, p)
    BY <1>0, <1>1, <1>2, <1>3, Zenon DEF RegisterValues
  <2>2. WithRegisters(k, k.ta_latch, k.ta_counter, k.tb_latch, d, k.cra, cr, p) \in SoundChips
    BY <2>1, RegistersSet, Zenon
  <2> QED
    BY <1>5, <2>2, Zenon
<1> QED
  BY <1>6, <1>7

-----------------------------------------------------------------------------
(* The serial port's own operations.                                       *)
LEMMA ReadSdrSound ==
    ASSUME NEW k \in SoundChips, NEW e, e = [k EXCEPT !.sdr_full = FALSE]
    PROVE  e \in SoundChips
<1>0. k \in ChipType
  BY SoundType
<1>1. e \in ChipType
  BY <1>0, Zenon DEF ChipType
<1>2. View(e) = View(k)
  BY <1>0, Zenon DEF ChipType, View
<1>3. e.serial_in = k.serial_in /\ SameIcr(k, e) /\ e.icr_mask = k.icr_mask
  BY <1>0, Zenon DEF ChipType, SameIcr
<1> QED
  BY <1>1, <1>2, <1>3, PlainSound, Zenon DEF Plain

LEMMA SeqIsFunction ==
    ASSUME NEW S, NEW s \in Seq(S)
    PROVE  s \in [1..Len(s) -> S] /\ <<>> \in Seq(S) /\ Len(<<>>) = 0
OBVIOUS

(* A new SDR, full or not, and the bits received so far.                   *)
LEMMA SdrSet ==
    ASSUME NEW k \in SoundChips, NEW v \in SdrByte, NEW f \in BOOLEAN,
           NEW s \in Seq({0, 1}), Len(s) < SerialBits,
           NEW e, e = [k EXCEPT !.sdr = v, !.sdr_full = f, !.serial_in = s]
    PROVE  e \in SoundChips
<1>0. k \in Chips /\ k \in ChipType /\ View(k) \in SoundViews /\ View(k) \in Views
  BY SoundType
<1>1. e \in ChipType
  BY <1>0, Zenon DEF ChipType
<1>2. View(e) = View(k)
  BY <1>0, Zenon DEF ChipType, View
<1>3. e.serial_in = s /\ e.icr_data = k.icr_data /\ e.irq_asserted = k.irq_asserted
      /\ e.icr_mask = k.icr_mask
  BY <1>0, Zenon DEF ChipType
<1>4. e.irq_asserted = Pending(e)
  BY <1>0, <1>3, Zenon DEF Chips, Pending
<1> QED
  BY <1>0, <1>1, <1>2, <1>3, <1>4, Zenon DEF Chips, SoundChips

LEMMA InputTypes ==
    ASSUME NEW k \in SoundChips
    PROVE  /\ k.sdr \in SdrByte /\ k.sdr_full \in BOOLEAN /\ k.serial_in \in Seq({0, 1})
           /\ Len(k.serial_in) < SerialBits /\ k.sp_input_level \in {0, 1}
BY SoundType, Zenon DEF Chips, ChipType

LEMMA ReceiveSound ==
    ASSUME NEW k \in SoundChips, NEW v \in SdrByte
    PROVE  serial_receive_byte(k, v) \in SoundChips
<1>0. k \in ChipType /\ k.serial_in \in Seq({0, 1}) /\ Len(k.serial_in) < SerialBits
  BY SoundType, InputTypes, Zenon
<1>1. PICK p : p = [k EXCEPT !.sdr = v, !.sdr_full = TRUE]
  OBVIOUS
<1>2. PICK s \in Seq({0, 1}) : s = k.serial_in /\ Len(s) < SerialBits
  BY <1>0
<1>3. p = [k EXCEPT !.sdr = v, !.sdr_full = TRUE, !.serial_in = s]
  BY <1>0, <1>1, <1>2, Zenon DEF ChipType
<1>4. p \in SoundChips
  BY <1>2, <1>3, SdrSet
<1>5. {"SP"} \in SUBSET IcrBits
  BY Zenon DEF IcrBits
<1>6. cia_raise(p, {"SP"}) \in SoundChips
  BY <1>4, <1>5, RaiseSound
<1> QED
  BY <1>1, <1>6, Zenon DEF serial_receive_byte

LEMMA RisingSound ==
    ASSUME NEW k \in SoundChips
    PROVE  serial_on_cnt_rising(k) \in SoundChips
<1>0. /\ k \in ChipType /\ k.sdr \in SdrByte /\ k.sdr_full \in BOOLEAN
      /\ k.serial_in \in Seq({0, 1}) /\ Len(k.serial_in) < SerialBits
      /\ k.sp_input_level \in {0, 1}
  BY SoundType, InputTypes, Zenon
<1>1. PICK b \in Seq({0, 1}) :
         b = Append(k.serial_in, k.sp_input_level) /\ Len(b) = Len(k.serial_in) + 1
         /\ Len(k.serial_in) \in Nat
  BY <1>0, Appended, Zenon
<1>2. SerialBits \in Nat \ {0}
  BY CiaTimersAssumption
<1>3. CASE k.serial_out_busy \/ k.serial_out_buffer_full
  BY <1>3, Zenon DEF serial_on_cnt_rising
<1>4. CASE ~(k.serial_out_busy \/ k.serial_out_buffer_full) /\ Len(b) < SerialBits
  <2>1. PICK p : p = [k EXCEPT !.serial_in = b]
    OBVIOUS
  <2>2. serial_on_cnt_rising(k) = p
    BY <1>1, <1>4, <2>1, Zenon DEF serial_on_cnt_rising
  <2>3. PICK v \in SdrByte, f \in BOOLEAN : v = k.sdr /\ f = k.sdr_full
    BY <1>0
  <2>4. p = [k EXCEPT !.sdr = v, !.sdr_full = f, !.serial_in = b]
    BY <1>0, <2>1, <2>3, Zenon DEF ChipType
  <2>5. p \in SoundChips
    BY <1>1, <1>4, <2>3, <2>4, SdrSet
  <2> QED
    BY <2>2, <2>5, Zenon
<1>5. CASE ~(k.serial_out_busy \/ k.serial_out_buffer_full) /\ ~(Len(b) < SerialBits)
  <2>1. Len(b) = SerialBits
    BY <1>0, <1>1, <1>2, <1>5
  <2>2. b \in SdrByte
    <3>1. b \in [1..Len(b) -> {0, 1}]
      BY <1>1, SeqIsFunction, Zenon
    <3> QED
      BY <2>1, <3>1, Zenon DEF SdrByte
  <2>3. PICK p : p = [k EXCEPT !.sdr = b, !.sdr_full = TRUE, !.serial_in = <<>>]
    OBVIOUS
  <2>4. serial_on_cnt_rising(k) = cia_raise(p, {"SP"})
    BY <1>1, <1>5, <2>3, Zenon DEF serial_on_cnt_rising
  <2>5. p \in SoundChips
    <3>0. <<>> \in Seq({0, 1}) /\ Len(<<>>) = 0 /\ 0 < SerialBits
      BY <1>0, <1>2, SeqIsFunction
    <3>1. PICK s \in Seq({0, 1}) : s = <<>> /\ Len(s) < SerialBits
      BY <3>0, Zenon
    <3>2. p = [k EXCEPT !.sdr = b, !.sdr_full = TRUE, !.serial_in = s]
      BY <2>3, <3>1, Zenon
    <3> QED
      BY <2>2, <3>1, <3>2, SdrSet
  <2>6. {"SP"} \in SUBSET IcrBits
    BY Zenon DEF IcrBits
  <2>7. cia_raise(p, {"SP"}) \in SoundChips
    BY <2>5, <2>6, RaiseSound
  <2> QED
    BY <2>4, <2>7, Zenon
<1> QED
  BY <1>3, <1>4, <1>5

(* A byte is buffered, and begun when the port is free.                    *)
LEMMA WriteSdrSound ==
    ASSUME NEW k \in SoundChips, NEW v \in SdrByte
    PROVE  serial_write_sdr(k, v) \in SoundChips
<1>0. k \in Chips /\ k \in ChipType /\ View(k) \in SoundViews /\ View(k) \in Views
  BY SoundType
<1>1. CASE "b6" \notin k.cra
  <2>1. PICK p : p = [k EXCEPT !.sdr = v]
    OBVIOUS
  <2>2. p \in ChipType
    BY <1>0, <2>1, Zenon DEF ChipType
  <2>3. View(p) = View(k)
    BY <1>0, <2>1, Zenon DEF ChipType, View
  <2>4. p.serial_in = k.serial_in /\ SameIcr(k, p) /\ p.icr_mask = k.icr_mask
    BY <1>0, <2>1, Zenon DEF ChipType, SameIcr
  <2>5. p \in SoundChips
    BY <2>2, <2>3, <2>4, PlainSound, Zenon DEF Plain
  <2> QED
    BY <1>1, <2>1, <2>5, Zenon DEF serial_write_sdr
<1>2. CASE "b6" \in k.cra
  <2>1. PICK p : p = [k EXCEPT !.sdr = v, !.serial_out_buffer = v, !.serial_out_buffer_full = TRUE]
    OBVIOUS
  <2>2. p \in ChipType
    BY <1>0, <2>1, Zenon DEF ChipType
  <2>3. /\ p.serial_out_shift = k.serial_out_shift /\ p.serial_out_busy = k.serial_out_busy
        /\ p.wire = k.wire /\ p.started = k.started /\ p.serial_in = k.serial_in
        /\ SameIcr(k, p) /\ p.icr_mask = k.icr_mask
    BY <1>0, <2>1, Zenon DEF ChipType, SameIcr
  <2>4. PICK x, y : x = View(k) /\ y = View(p)
    OBVIOUS
  <2>5. y.shift = x.shift /\ y.busy = x.busy /\ y.wire = x.wire /\ y.started = x.started
    BY <2>3, <2>4, Zenon DEF View, V
  <2>6. y \in ViewRec
    BY <2>2, <2>4, ChipView, Zenon
  <2>7. y \in SoundViews
    BY <1>0, <2>4, <2>5, <2>6, Zenon DEF SoundViews, Views, Streamed
  <2>8. PICK e : e = serial_start_output(p)
    OBVIOUS
  <2>9. e \in ChipType /\ SameRest(p, e) /\ SameIcr(p, e) /\ View(e) = Begin(y)
    BY <2>2, <2>4, <2>8, StartFacts, Zenon
  <2>10. Begin(y) \in SoundViews
    BY <2>7, BeginSound, Zenon
  <2>11. Begin(y) \in Views
    BY <2>10, Zenon DEF SoundViews
  <2>12. e.serial_in = k.serial_in /\ e.icr_data = k.icr_data
         /\ e.irq_asserted = k.irq_asserted /\ e.icr_mask = k.icr_mask
    BY <2>3, <2>9, Zenon DEF SameRest, SameIcr
  <2>13. e \in Chips
    BY <1>0, <2>9, <2>11, <2>12, Zenon DEF Chips, Pending
  <2>14. e \in SoundChips
    BY <2>9, <2>10, <2>13, Zenon DEF SoundChips
  <2>15. serial_write_sdr(k, v) = e
    BY <1>2, <2>1, <2>8, Zenon DEF serial_write_sdr
  <2> QED
    BY <2>14, <2>15, Zenon
<1> QED
  BY <1>1, <1>2

(* The levels of the pins.                                                 *)
LEMMA LevelSound ==
    ASSUME NEW k \in SoundChips, NEW c \in {0, 1}, NEW s \in {0, 1}, NEW f \in {0, 1},
           NEW e, e = [k EXCEPT !.cnt_level = c, !.sp_input_level = s, !.flag_level = f]
    PROVE  e \in SoundChips
<1>0. k \in ChipType
  BY SoundType
<1>1. e \in ChipType
  BY <1>0, Zenon DEF ChipType
<1>2. View(e) = View(k)
  BY <1>0, Zenon DEF ChipType, View
<1>3. e.serial_in = k.serial_in /\ SameIcr(k, e) /\ e.icr_mask = k.icr_mask
  BY <1>0, Zenon DEF ChipType, SameIcr
<1> QED
  BY <1>1, <1>2, <1>3, PlainSound, Zenon DEF Plain

LEMMA PinSound ==
    ASSUME NEW k \in SoundChips, NEW l \in {0, 1}
    PROVE  /\ [k EXCEPT !.cnt_level = l] \in SoundChips
           /\ [k EXCEPT !.sp_input_level = l] \in SoundChips
           /\ [k EXCEPT !.flag_level = l] \in SoundChips
<1>0. k \in ChipType /\ k.cnt_level \in {0, 1} /\ k.sp_input_level \in {0, 1} /\ k.flag_level \in {0, 1}
  BY SoundType, Zenon DEF ChipType
<1>1. PICK c \in {0, 1}, s \in {0, 1}, f \in {0, 1} :
         c = k.cnt_level /\ s = k.sp_input_level /\ f = k.flag_level
  BY <1>0
<1>2. PICK x, y, z : x = [k EXCEPT !.cnt_level = l] /\ y = [k EXCEPT !.sp_input_level = l]
                     /\ z = [k EXCEPT !.flag_level = l]
  OBVIOUS
<1>3. x = [k EXCEPT !.cnt_level = l, !.sp_input_level = s, !.flag_level = f]
  BY <1>0, <1>1, <1>2, Zenon DEF ChipType
<1>4. y = [k EXCEPT !.cnt_level = c, !.sp_input_level = l, !.flag_level = f]
  BY <1>0, <1>1, <1>2, Zenon DEF ChipType
<1>5. z = [k EXCEPT !.cnt_level = c, !.sp_input_level = s, !.flag_level = l]
  BY <1>0, <1>1, <1>2, ZenonT(60) DEF ChipType
<1>6. c \in {0, 1} /\ s \in {0, 1} /\ f \in {0, 1}
  BY <1>1
<1>7. x \in SoundChips
  BY <1>3, <1>6, LevelSound, ZenonT(60)
<1>8. y \in SoundChips
  BY <1>4, <1>6, LevelSound, ZenonT(60)
<1>9. z \in SoundChips
  BY <1>5, <1>6, LevelSound, ZenonT(60)
<1> QED
  BY <1>2, <1>7, <1>8, <1>9, Zenon

-----------------------------------------------------------------------------
(* Counting pulses of CNT, in the stages of a step.                        *)
CntA(k, n) ==
    IF "START" \in k.cra /\ "b5" \in k.cra
    THEN timer_advance_events(k.ta_counter, k.ta_latch, Continuous(k.cra), n)
    ELSE [counter |-> k.ta_counter, uf |-> 0]

CntB(k, n, u) ==
    LET m == InMode(k.crb)
    IN  IF "START" \in k.crb /\ m \in {1, 3}
        THEN timer_advance_events(k.tb_counter, k.tb_latch, Continuous(k.crb),
                                  IF m = 1 THEN n ELSE u)
        ELSE [counter |-> k.tb_counter, uf |-> 0]

LEMMA CountIsStaged ==
    ASSUME NEW k, NEW n
    PROVE  timers_count_cnt(k, n) =
              StageB(StageA(k, CntA(k, n)), CntB(StageA(k, CntA(k, n)), n, CntA(k, n).uf))
BY Zenon DEF timers_count_cnt, CntA, StageA, CntB, StageB

LEMMA EventsType ==
    ASSUME NEW c \in 0..MaxCount, NEW l \in 0..MaxCount, NEW cont \in BOOLEAN, NEW n \in Nat
    PROVE  timer_advance_events(c, l, cont, n) \in Counted(MaxCount)
<1>1. timer_advance_events(c, l, cont, n) = timer_advance(c, l, cont, n)
  BY EventsAdvance
<1>2. timer_advance(c, l, cont, n) = Adv(TRUE, cont, c, l, n)
  BY Zenon DEF Adv
<1>3. Adv(TRUE, cont, c, l, n) \in Counted(MaxCount)
  BY MaxCountNat, AdvType
<1> QED
  BY <1>1, <1>2, <1>3, Zenon

LEMMA CntAType ==
    ASSUME NEW k \in Chips, NEW n \in Nat
    PROVE  CntA(k, n) \in Counted(MaxCount)
<1>1. PICK cont \in BOOLEAN : cont = Continuous(k.cra)
  BY Zenon DEF Continuous
<1>2. PICK c \in 0..MaxCount, l \in 0..MaxCount : c = k.ta_counter /\ l = k.ta_latch
  BY ControlType
<1>3. timer_advance_events(c, l, cont, n) \in Counted(MaxCount)
  BY <1>1, <1>2, EventsType
<1>4. [counter |-> c, uf |-> 0] \in Counted(MaxCount)
  BY <1>2 DEF Counted
<1> QED
  BY <1>1, <1>2, <1>3, <1>4, Zenon DEF CntA

LEMMA CntBType ==
    ASSUME NEW k \in Chips, NEW n \in Nat, NEW u \in Nat
    PROVE  CntB(k, n, u) \in Counted(MaxCount)
<1>1. PICK cont \in BOOLEAN : cont = Continuous(k.crb)
  BY Zenon DEF Continuous
<1>2. PICK c \in 0..MaxCount, l \in 0..MaxCount : c = k.tb_counter /\ l = k.tb_latch
  BY ControlType
<1>3. PICK x \in Nat : x = IF InMode(k.crb) = 1 THEN n ELSE u
  BY Zenon
<1>4. timer_advance_events(c, l, cont, x) \in Counted(MaxCount)
  BY <1>1, <1>2, <1>3, EventsType
<1>5. [counter |-> c, uf |-> 0] \in Counted(MaxCount)
  BY <1>2 DEF Counted
<1> QED
  BY <1>1, <1>2, <1>3, <1>4, <1>5, Zenon DEF CntB

LEMMA CountSound ==
    ASSUME NEW k \in SoundChips, NEW n \in Nat
    PROVE  timers_count_cnt(k, n) \in SoundChips
<1>0. k \in Chips /\ View(k) \in SoundViews
  BY SoundType
<1>1. PICK a \in Counted(MaxCount) : a = CntA(k, n)
  BY <1>0, CntAType
<1>2. a.uf \in Nat
  BY <1>1, MaxCountNat, CountedIs, Zenon
<1>3. PICK q : q = StageA(k, a)
  OBVIOUS
<1>4. q \in Chips /\ View(q) = Iterated(BitsOf("b6" \in k.cra), View(k), a.uf)
  BY <1>0, <1>1, <1>3, StageAFacts, SMT
<1>5. PICK b \in Counted(MaxCount) : b = CntB(q, n, a.uf)
  BY <1>2, <1>4, CntBType
<1>6. PICK e : e = StageB(q, b)
  OBVIOUS
<1>7. e \in Chips /\ View(e) = View(q)
  BY <1>4, <1>5, <1>6, StageBFacts, SMT
<1>8. View(q) \in SoundViews
  BY <1>0, <1>2, <1>4, BitsSound, Zenon
<1>9. timers_count_cnt(k, n) = e
  BY <1>1, <1>3, <1>5, <1>6, CountIsStaged, Zenon
<1> QED
  BY <1>7, <1>8, <1>9, Zenon DEF SoundChips

LEMMA StepSound ==
    ASSUME NEW k \in SoundChips, NEW n \in Nat
    PROVE  cia_step(k, n) \in SoundChips
<1>0. k \in Chips /\ View(k) \in SoundViews
  BY SoundType
<1>1. PICK e : e = cia_step(k, n)
  OBVIOUS
<1>2. Stepped(k, n, e)
  BY <1>0, <1>1, StepFacts
<1>3. PICK a \in Counted(MaxCount) : a = AdvA(k, n)
  BY <1>0, AdvAType, Zenon
<1>4. a.uf \in Nat
  BY <1>3, MaxCountNat, CountedIs, Zenon
<1>5. e \in Chips /\ View(e) = Iterated(BitsOf("b6" \in k.cra), View(k), a.uf)
  BY <1>2, <1>3, Zenon DEF Stepped
<1>6. View(e) \in SoundViews
  BY <1>0, <1>4, <1>5, BitsSound, Zenon
<1> QED
  BY <1>1, <1>5, <1>6, Zenon DEF SoundChips

LEMMA ResetSound == cia_reset \in SoundChips
<1>1. PICK k : k = cia_reset
  OBVIOUS
<1>2. Zero \in SdrByte
  BY DEF Zero, SdrByte
<1>3. MaxCount \in 0..MaxCount
  BY MaxCountNat
<1>4. <<>> \in Seq({0, 1}) /\ <<>> \in Seq(SdrByte) /\ Len(<<>>) = 0
  OBVIOUS
<1>5. SerialBits \in Nat \ {0}
  BY CiaTimersAssumption
<1>6. k \in ChipType
  BY <1>1, <1>2, <1>3, <1>4, SMT DEF cia_reset, ChipType, CrBits, IcrBits
<1>7. /\ k.serial_out_shift = <<>> /\ k.serial_out_busy = FALSE /\ k.serial_in = <<>>
      /\ k.wire = <<>> /\ k.started = <<>> /\ k.icr_data = {} /\ k.irq_asserted = FALSE
  BY <1>1 DEF cia_reset
<1>8. PICK v : v = View(k)
  OBVIOUS
<1>9. v.shift = <<>> /\ v.busy = FALSE /\ v.wire = <<>> /\ v.started = <<>>
  BY <1>7, <1>8, Zenon DEF View, V
<1>10. v \in Views
  <2>1. v \in ViewRec
    BY <1>6, <1>8, ChipView, Zenon
  <2> QED
    BY <1>9, <2>1, Zenon DEF Views
<1>11. StreamOf(<<>>) = <<>>
  <2>1. StreamOf(<<>>) \in Seq({0, 1}) /\ Len(StreamOf(<<>>)) = SerialBits * Len(<<>>)
    BY <1>4, StreamType, Zenon
  <2>2. SerialBits * Len(<<>>) = 0
    BY <1>4, <1>5
  <2>3. Len(StreamOf(<<>>)) = 0
    BY <2>1, <2>2, Zenon
  <2> QED
    BY <2>1, <2>3, Joins, Zenon
<1>12. <<>> \o <<>> = <<>>
  OBVIOUS
<1>13. Streamed(v)
  BY <1>9, <1>11, <1>12, Zenon DEF Streamed
<1>14. 0 <= SerialBits /\ 0 < SerialBits
  BY <1>5
<1>15. v \in SoundViews
  BY <1>4, <1>9, <1>10, <1>13, <1>14, Zenon DEF SoundViews
<1>16. k.irq_asserted = Pending(k)
  BY <1>7 DEF Pending
<1>17. Len(k.serial_in) < SerialBits
  BY <1>4, <1>7, <1>14, Zenon
<1>18. k \in Chips
  BY <1>6, <1>8, <1>10, <1>16, <1>17, Zenon DEF Chips
<1> QED
  BY <1>1, <1>8, <1>15, <1>18, Zenon DEF SoundChips

-----------------------------------------------------------------------------
(* The invariant of the specification.                                     *)
TimersInv ==
    chip \in SoundChips /\ ciaWrites \in 0..MaxCiaWrites /\ bytes \in 0..MaxBytes

LEMMA TimersInitSound == TimersInit => TimersInv
<1>1. MaxCiaWrites \in Nat /\ MaxBytes \in Nat
  BY CiaTimersAssumption
<1> QED
  BY <1>1, ResetSound DEF TimersInit, TimersInv

LEMMA GuestKeeps ==
    ASSUME TimersInv, NEW k \in SoundChips, Guest(k) \/ Transfer(k)
    PROVE  TimersInv'
BY CiaTimersAssumption DEF TimersInv, Guest, Transfer

LEMMA TimersStepSound ==
    ASSUME TimersInv, TimersNext
    PROVE  TimersInv'
<1>0. chip \in SoundChips
  BY DEF TimersInv
<1>1. MaxTicks \in Nat
  BY CiaTimersAssumption
<1>2. ASSUME NEW n \in 1..MaxTicks, Step(n) PROVE TimersInv'
  <2>1. n \in Nat
    BY <1>1
  <2>2. chip' \in SoundChips
    BY <1>0, <1>2, <2>1, StepSound, Zenon DEF Step
  <2> QED
    BY <1>2, <2>2 DEF Step, TimersInv
<1>3. ASSUME NEW v \in TimerBytes, WriteLatch(v) PROVE TimersInv'
  <2>1. v \in 0..(Byte - 1)
    BY CiaTimersAssumption
  <2>2. /\ write_talo(chip, v) \in SoundChips /\ write_tblo(chip, v) \in SoundChips
        /\ write_tahi(chip, v) \in SoundChips /\ write_tbhi(chip, v) \in SoundChips
    BY <1>0, <2>1, LatchSound, Zenon
  <2> QED
    BY <1>3, <2>2, GuestKeeps, Zenon DEF WriteLatch
<1>4. ASSUME NEW v \in CraValues, WriteCra(v) PROVE TimersInv'
  <2>1. v \in SUBSET CrBits
    BY CiaTimersAssumption
  <2>2. write_cra(chip, v) \in SoundChips
    BY <1>0, <2>1, ControlSound, Zenon
  <2> QED
    BY <1>4, <2>2, GuestKeeps, Zenon DEF WriteCra
<1>5. ASSUME NEW v \in CrbValues, WriteCrb(v) PROVE TimersInv'
  <2>1. v \in SUBSET CrBits
    BY CiaTimersAssumption
  <2>2. write_crb(chip, v) \in SoundChips
    BY <1>0, <2>1, ControlSound, Zenon
  <2> QED
    BY <1>5, <2>2, GuestKeeps, Zenon DEF WriteCrb
<1>6. ASSUME NEW b \in BOOLEAN, WriteChipIcr([setclr |-> b, bits |-> {"TA", "TB"}])
      PROVE  TimersInv'
  <2>1. PICK v : v = [setclr |-> b, bits |-> {"TA", "TB"}]
    OBVIOUS
  <2>2. v.bits \in SUBSET IcrBits
    BY <2>1 DEF IcrBits
  <2>3. cia_write_icr(chip, v) \in SoundChips
    BY <1>0, <2>2, WriteIcrSound, Zenon
  <2>4. Guest(cia_write_icr(chip, v))
    BY <1>6, <2>1, Zenon DEF WriteChipIcr
  <2> QED
    BY <2>3, <2>4, GuestKeeps, Zenon
<1>7. ASSUME ReadChipIcr PROVE TimersInv'
  <2>1. chip' \in SoundChips
    BY <1>0, <1>7, ReadIcrSound, Zenon DEF ReadChipIcr
  <2> QED
    BY <1>7, <2>1 DEF ReadChipIcr, TimersInv
<1>8. ASSUME ReadSdr PROVE TimersInv'
  <2>1. chip' \in SoundChips
    <3>1. chip' = [chip EXCEPT !.sdr_full = FALSE]
      BY <1>8, Zenon DEF ReadSdr
    <3> QED
      BY <1>0, <3>1, ReadSdrSound, Zenon
  <2> QED
    BY <1>8, <2>1 DEF ReadSdr, TimersInv
<1>9. ASSUME NEW v \in SdrBytes, WriteSdr(v) \/ ReceiveByte(v) PROVE TimersInv'
  <2>1. v \in SdrByte
    BY CiaTimersAssumption
  <2>2. serial_write_sdr(chip, v) \in SoundChips /\ serial_receive_byte(chip, v) \in SoundChips
    BY <1>0, <2>1, WriteSdrSound, ReceiveSound, Zenon
  <2> QED
    BY <1>9, <2>2, GuestKeeps, Zenon DEF WriteSdr, ReceiveByte
<1>10. ASSUME NEW l \in PinLevels, SetCnt(l) PROVE TimersInv'
  <2>1. l \in {0, 1} /\ 1 \in Nat
    BY CiaTimersAssumption
  <2>2. PICK k : k = [chip EXCEPT !.cnt_level = l]
    OBVIOUS
  <2>3. k \in SoundChips
    BY <1>0, <2>1, <2>2, PinSound, Zenon
  <2>4. timers_count_cnt(serial_on_cnt_rising(k), 1) \in SoundChips
    BY <2>1, <2>3, RisingSound, CountSound, Zenon
  <2>5. Guest(k) \/ Guest(timers_count_cnt(serial_on_cnt_rising(k), 1))
    BY <1>10, <2>2, Zenon DEF SetCnt
  <2> QED
    BY <2>3, <2>4, <2>5, GuestKeeps, Zenon
<1>11. ASSUME NEW l \in PinLevels, SetSp(l) PROVE TimersInv'
  <2>1. l \in {0, 1}
    BY CiaTimersAssumption
  <2>2. PICK k : k = [chip EXCEPT !.sp_input_level = l]
    OBVIOUS
  <2>3. k \in SoundChips
    BY <1>0, <2>1, <2>2, PinSound, Zenon
  <2> QED
    BY <1>11, <2>2, <2>3, GuestKeeps, Zenon DEF SetSp
<1>12. ASSUME NEW l \in PinLevels, SetFlag(l) PROVE TimersInv'
  <2>1. l \in {0, 1}
    BY CiaTimersAssumption
  <2>2. PICK k : k = [chip EXCEPT !.flag_level = l]
    OBVIOUS
  <2>3. k \in SoundChips
    BY <1>0, <2>1, <2>2, PinSound, Zenon
  <2>4. {"FLG"} \in SUBSET IcrBits
    BY Zenon DEF IcrBits
  <2>5. cia_raise(k, {"FLG"}) \in SoundChips
    BY <2>3, <2>4, RaiseSound, Zenon
  <2>6. Guest(k) \/ Guest(cia_raise(k, {"FLG"}))
    BY <1>12, <2>2, Zenon DEF SetFlag
  <2> QED
    BY <2>3, <2>5, <2>6, GuestKeeps, Zenon
<1>13. ASSUME NEW n \in 1..MaxTicks, PulseCnt(n) PROVE TimersInv'
  <2>1. n \in Nat
    BY <1>1
  <2>2. timers_count_cnt(chip, n) \in SoundChips
    BY <1>0, <2>1, CountSound, Zenon
  <2> QED
    BY <1>13, <2>2, GuestKeeps, Zenon DEF PulseCnt
<1>14. CASE Clock
  BY <1>2, <1>14, Zenon DEF Clock
<1>15. CASE Registers
  BY <1>3, <1>4, <1>5, <1>6, <1>7, <1>8, <1>9, <1>15, Zenon DEF Registers
<1>16. CASE Pins
  BY <1>10, <1>11, <1>12, <1>13, <1>16, Zenon DEF Pins
<1> QED
  BY <1>14, <1>15, <1>16, Zenon DEF TimersNext

LEMMA TimersInvariant == TimersSpec => []TimersInv
<1>1. TimersInv /\ UNCHANGED timersVars => TimersInv'
  BY DEF timersVars, TimersInv
<1>2. TimersInv /\ [TimersNext]_timersVars => TimersInv'
  BY <1>1, TimersStepSound
<1> QED
  BY <1>2, TimersInitSound, PTL DEF TimersSpec

(* The host may cut time into steps of any size (cia_step, timers_step):   *)
(* for every chip that can arise, one step of n ticks leaves counters,     *)
(* ICR, START bits and serial port as n steps of one tick do.              *)
THEOREM BatchIsTicks == TimersSpec => []BatchEqualsTicks
<1>1. TimersInv => BatchEqualsTicks
  <2> SUFFICES ASSUME TimersInv PROVE BatchEqualsTicks
    OBVIOUS
  <2>1. chip \in Chips
    BY SoundType DEF TimersInv
  <2> QED
    BY <2>1, BatchHolds
<1> QED
  BY <1>1, TimersInvariant, PTL

(* The serial port (cia_serial.c) sends whole bytes in order and drains    *)
(* while timer A drives it, whatever is written to SDR, to the control     *)
(* registers and to the timers, and whenever.                              *)
THEOREM SerialPortSound == TimersSpec => []SerialSound
<1>1. TimersInv => SerialSound
  <2> SUFFICES ASSUME TimersInv PROVE SerialSound
    OBVIOUS
  <2>1. /\ chip \in Chips /\ chip \in ChipType /\ View(chip) \in SoundViews
        /\ View(chip) \in Views
    BY SoundType DEF TimersInv
  <2>2. /\ View(chip).shift = chip.serial_out_shift /\ View(chip).busy = chip.serial_out_busy
        /\ View(chip).wire = chip.wire /\ View(chip).started = chip.started
    BY Zenon DEF View, V
  <2>3. TimersTypeOK
    <3>1. Len(chip.serial_in) < SerialBits
      BY <2>1, Zenon DEF Chips
    <3>2. chip.serial_out_busy = (chip.serial_out_shift # <<>>)
      BY <2>1, <2>2, Zenon DEF Views
    <3> QED
      BY <2>1, <3>1, <3>2, Zenon DEF TimersTypeOK, TimersInv
  <2>4. SerialStreamIntact
    <3>1. chip.wire \o chip.serial_out_shift = StreamOf(chip.started)
      BY <2>1, <2>2, Zenon DEF SoundViews, Streamed
    <3> QED
      BY <3>1, Zenon DEF SerialStreamIntact, StreamOf, BitAt
  <2>5. SerialDrains
    <3>1. SerialDriven => Driven(chip)
      BY Zenon DEF SerialDriven, Driven
    <3>2. PICK e : e = cia_step(chip, DrainTicks)
      OBVIOUS
    <3>3. SerialDriven => ~ e.serial_out_busy /\ ~ e.serial_out_buffer_full
      BY <2>1, <3>1, <3>2, DrivenDrains, Zenon
    <3> QED
      BY <3>2, <3>3, Zenon DEF SerialDrains
  <2> QED
    BY <2>3, <2>4, <2>5, Zenon DEF SerialSound
<1> QED
  BY <1>1, TimersInvariant, PTL
=============================================================================
