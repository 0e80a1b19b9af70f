------------------------------ MODULE BusProofs ------------------------------
(***************************************************************************)
(* Proofs about the bus and its largest user, in two parts.                *)
(*                                                                         *)
(* Blitter: the slots that a blit announces to the host are the slots it   *)
(* takes, and a line drawn slot by slot is the line of the reference.      *)
(*                                                                         *)
(* SlotScheduler: the cached table of slot owners is never out of date, so *)
(* the scheduler implements the Arbiter, which looks at the registers at   *)
(* every clock; and the fetches it drives are exact: each word of an       *)
(* undisturbed line once, and the pair of its line for a sprite.           *)
(***************************************************************************)
EXTENDS SlotScheduler, Blitter, FiniteSetTheorems, Induction

-----------------------------------------------------------------------------
(* Addresses and words.                                                    *)
LEMMA ChipIs ==
    ASSUME NEW p \in Int
    PROVE  Chip(p) \in ChipAddr
<1>1. ChipBytes \in Nat \ {0}
  BY BlitterOpsAssumption
<1>2. PICK m \in 0..(ChipBytes - 1) : m = p % ChipBytes
  BY <1>1
<1>3. m - (m % 2) \in 0..(ChipBytes - 1) /\ (m - (m % 2)) % 2 = 0
  BY <1>1
<1>4. Chip(p) = m - (m % 2)
  BY <1>2, Zenon DEF Chip
<1> QED
  BY <1>3, <1>4, Zenon DEF ChipAddr

PtrValue == 0..(PtrSpace - 1)

LEMMA PtrIs ==
    ASSUME NEW p \in Int
    PROVE  Ptr(p) \in PtrValue
BY BlitterOpsAssumption DEF Ptr, PtrValue

LEMMA ChipIsPtr ==
    ChipAddr \subseteq PtrValue /\ ChipAddr \subseteq Int /\ PtrValue \subseteq Int
<1>1. ChipBytes \in Nat \ {0} /\ PtrSpace \in Nat /\ PtrSpace % ChipBytes = 0 /\ PtrSpace # 0
  BY BlitterOpsAssumption
<1>2. ChipBytes <= PtrSpace
  <2> SUFFICES ASSUME PtrSpace < ChipBytes PROVE FALSE
    BY <1>1
  <2>1. PtrSpace = ChipBytes * 0 + PtrSpace /\ PtrSpace \in 0..(ChipBytes - 1)
    BY <1>1
  <2>2. PtrSpace % ChipBytes = PtrSpace
    BY <1>1, <2>1, DivUnique
  <2> QED
    BY <1>1, <2>2
<1>3. \A a \in 0..(ChipBytes - 1) : a \in 0..(PtrSpace - 1)
  BY <1>1, <1>2
<1>4. \A a \in ChipAddr : a \in 0..(ChipBytes - 1)
  BY Zenon DEF ChipAddr
<1>5. \A a \in 0..(PtrSpace - 1) : a \in Int
  BY <1>1
<1> QED
  BY <1>3, <1>4, <1>5, Zenon DEF PtrValue

LEMMA LogicIsWord ==
    ASSUME NEW minterm, NEW AA \in Word, NEW B \in Word, NEW C \in Word
    PROVE  blitter_logic(minterm, AA, B, C) \in Word
BY Zenon DEF blitter_logic, Word

LEMMA ShiftIsWord ==
    ASSUME NEW p \in Word, NEW c \in Word, NEW s \in Bits
    PROVE  shift_ascending(p, c, s) \in Word /\ shift_descending(p, c, s) \in Word
<1>0. W \in Nat /\ p \subseteq 0..(W - 1) /\ c \subseteq 0..(W - 1) /\ s \in 0..(W - 1)
  BY BlitterOpsAssumption DEF Word, Bits
<1>1. /\ \A b \in p : b < s => b + W - s \in 0..(W - 1)
      /\ \A b \in c : b >= s => b - s \in 0..(W - 1)
      /\ \A b \in p : b >= W - s => b - (W - s) \in 0..(W - 1)
      /\ \A b \in c : b < W - s => b + s \in 0..(W - 1)
  BY <1>0
<1> QED
  BY <1>1, Zenon DEF shift_ascending, shift_descending, Word, Bits

LEMMA ApplyIsWord ==
    ASSUME NEW cmd_, NEW p \in Word, NEW c \in Word, NEW s \in Bits
    PROVE  apply_shift(cmd_, p, c, s) \in Word
BY ShiftIsWord, Zenon DEF apply_shift

LEMMA FillIsWord ==
    ASSUME NEW c_, NEW d \in Word, NEW c
    PROVE  apply_fill(c_, d, c) \in Word
<1>1. \A i \in Bits : BitAt(c_, i) \in Bits
  BY BlitterOpsAssumption DEF BitAt, Bits
<1> QED
  BY <1>1, Zenon DEF apply_fill, blitter_fill_word, Word

(* The carry of a fill, kept as a name for the provers.                    *)
Carry == BOOLEAN

LEMMA CarryRuns ==
    \A n \in Nat : \A x0 \in Carry : \A F \in [1..n -> [Carry -> Carry]] :
      \E f \in [0..n -> Carry] : f[0] = x0 /\ \A i \in 1..n : f[i] = F[i][f[i - 1]]
BY StepsExist

LEMMA CarryIs ==
    ASSUME NEW c_, NEW d, NEW c \in BOOLEAN
    PROVE  carry_out(c_, d, c) \in BOOLEAN
<1>0. W \in Nat /\ W # 0
  BY BlitterOpsAssumption
<1> DEFINE Eq(g) == g = [i \in 0..W |-> IF i = 0 THEN c
                                       ELSE g[i - 1] # (BitAt(c_, i - 1) \in d)]
           F == [i \in 1..W |-> [v \in BOOLEAN |-> v # (BitAt(c_, i - 1) \in d)]]
<1>1. F \in [1..W -> [BOOLEAN -> BOOLEAN]]
  <2>1. \A i \in 1..W : [v \in BOOLEAN |-> v # (BitAt(c_, i - 1) \in d)] \in [BOOLEAN -> BOOLEAN]
    BY Zenon
  <2> QED
    BY <2>1, Zenon
<1>2. PICK f \in [0..W -> BOOLEAN] : f[0] = c /\ \A i \in 1..W : f[i] = F[i][f[i - 1]]
  <2> HIDE DEF F
  <2>1. PICK x0 \in Carry : x0 = c
    BY Zenon DEF Carry
  <2>2. PICK n \in Nat : n = W
    BY <1>0
  <2>3. PICK G \in [1..n -> [Carry -> Carry]] : G = F
    BY <1>1, <2>2, Zenon DEF Carry
  <2>4. \E f \in [0..n -> Carry] : f[0] = x0 /\ \A i \in 1..n : f[i] = G[i][f[i - 1]]
    BY CarryRuns
  <2> QED
    BY <2>1, <2>2, <2>3, <2>4, Zenon DEF Carry
<1>3. \A i \in 1..W : i - 1 \in 0..W /\ i \in 0..W /\ i # 0
  BY <1>0
<1>4. \A i \in 0..W : i # 0 => i \in 1..W
  BY <1>0
<1>5. \A i \in 1..W : f[i] = (f[i - 1] # (BitAt(c_, i - 1) \in d))
  BY <1>2, <1>3, Zenon
<1>6. Eq(f)
  BY <1>2, <1>4, <1>5, Zenon
<1>7. Eq(fill_carry(c_, d, c))
  <2>1. fill_carry(c_, d, c) = CHOOSE g : Eq(g)
    BY Zenon DEF fill_carry
  <2> HIDE DEF Eq
  <2> QED
    BY <1>6, <2>1, Zenon
<1>8. W \in 0..W
  BY <1>0
<1>9. fill_carry(c_, d, c)[W] \in BOOLEAN
  BY <1>0, <1>7, <1>8, Zenon
<1> QED
  BY <1>9, Zenon DEF carry_out

-----------------------------------------------------------------------------
(* The command, and the state of a copy.                                   *)
LEMMA CmdFields ==
    ASSUME NEW c \in BlitCommand
    PROVE  /\ c.pt \in [Channel4 -> PtrValue] /\ c.mod \in [Channel4 -> Int]
           /\ c.dat \in [{"A", "B", "C"} -> Word] /\ c.bhold \in Word /\ c.afwm \in Word
           /\ c.alwm \in Word /\ c.width \in Nat /\ c.height \in Nat
           /\ c.ash \in Bits /\ c.bsh \in Bits /\ c.use \in SUBSET Channel4
BY Zenon DEF BlitCommand, PtrValue

Sources == {"A", "B", "C"}

CopyState ==
    [pt: [Channel4 -> PtrValue], prevA: Word, prevB: Word, bhold: Word, dat: [Sources -> Word],
     ddat: Word, carry: BOOLEAN, zero: BOOLEAN, pending: SUBSET (ChipAddr \X Word),
     mem: [ChipAddr -> Word]]

LEMMA CopyFields ==
    ASSUME NEW s \in CopyState
    PROVE  /\ s.pt \in [Channel4 -> PtrValue] /\ s.prevA \in Word /\ s.prevB \in Word
           /\ s.bhold \in Word /\ s.dat \in [Sources -> Word] /\ s.ddat \in Word
           /\ s.carry \in BOOLEAN /\ s.zero \in BOOLEAN
           /\ s.pending \in SUBSET (ChipAddr \X Word) /\ s.mem \in [ChipAddr -> Word]
BY Zenon DEF CopyState

LEMMA CopyStarts ==
    ASSUME NEW c \in BlitCommand, NEW mem \in [ChipAddr -> Word]
    PROVE  copy_state_init(c, mem) \in CopyState
<1>1. /\ c.pt \in [Channel4 -> PtrValue] /\ c.dat \in [Sources -> Word] /\ c.bhold \in Word
  BY CmdFields, Zenon DEF Sources
<1>2. PICK e \in Word : e = {}
  BY Zenon DEF Word
<1>3. PICK p \in SUBSET (ChipAddr \X Word) : p = {}
  BY Zenon
<1>4. PICK k \in BOOLEAN : k = fill_carry_in(c)
  <2>1. (2 \in c.con1) \in BOOLEAN
    OBVIOUS
  <2> QED
    BY <2>1, Zenon DEF fill_carry_in
<1>5. PICK pt \in [Channel4 -> PtrValue] : pt = c.pt
  BY <1>1
<1>6. PICK dat \in [Sources -> Word] : dat = c.dat
  BY <1>1
<1>7. PICK h \in Word : h = c.bhold
  BY <1>1
<1>8. copy_state_init(c, mem) =
        [pt |-> pt, prevA |-> e, prevB |-> e, bhold |-> h, dat |-> dat, ddat |-> e,
         carry |-> k, zero |-> TRUE, pending |-> p, mem |-> mem]
  BY <1>2, <1>3, <1>4, <1>5, <1>6, <1>7, Zenon DEF copy_state_init
<1>9. [pt |-> pt, prevA |-> e, prevB |-> e, bhold |-> h, dat |-> dat, ddat |-> e,
       carry |-> k, zero |-> TRUE, pending |-> p, mem |-> mem] \in CopyState
  BY DEF CopyState
<1> QED
  BY <1>8, <1>9, Zenon

LEMMA PendingWritten ==
    ASSUME NEW s \in CopyState
    PROVE  write_pending(s) \in CopyState
<1>0. s.pending \in SUBSET (ChipAddr \X Word) /\ s.mem \in [ChipAddr -> Word]
  BY CopyFields, Zenon
<1>1. PICK m : m = [a \in ChipAddr |-> IF \E p \in s.pending : p[1] = a
                                       THEN (CHOOSE p \in s.pending : p[1] = a)[2]
                                       ELSE s.mem[a]]
  OBVIOUS
<1>2. m \in [ChipAddr -> Word]
  <2> SUFFICES ASSUME NEW a \in ChipAddr
               PROVE  (IF \E p \in s.pending : p[1] = a
                       THEN (CHOOSE p \in s.pending : p[1] = a)[2] ELSE s.mem[a]) \in Word
    BY <1>1, Zenon
  <2>1. CASE \E p \in s.pending : p[1] = a
    <3>1. PICK q : q = CHOOSE p \in s.pending : p[1] = a
      OBVIOUS
    <3>2. q \in s.pending
      BY <2>1, <3>1, Zenon
    <3>3. q[2] \in Word
      BY <1>0, <3>2
    <3> QED
      BY <2>1, <3>1, <3>3, Zenon
  <2>2. CASE ~\E p \in s.pending : p[1] = a
    BY <1>0, <2>2, Zenon
  <2> QED
    BY <2>1, <2>2
<1>3. write_pending(s) = [s EXCEPT !.mem = m, !.pending = {}]
  BY <1>1, Zenon DEF write_pending
<1>4. {} \in SUBSET (ChipAddr \X Word)
  OBVIOUS
<1> QED
  BY <1>2, <1>3, <1>4, Zenon DEF CopyState

LEMMA WordsFetched ==
    ASSUME NEW c \in BlitCommand, NEW s \in CopyState
    PROVE  fetch_words(c, s) \in CopyState
<1>0. /\ s.pt \in [Channel4 -> PtrValue] /\ s.mem \in [ChipAddr -> Word]
      /\ c.dat \in [Sources -> Word]
  BY CopyFields, CmdFields, Zenon DEF Sources
<1>1. PICK used : used = c.use \cap {"A", "B", "C"}
  OBVIOUS
<1>2. used \subseteq Channel4
  BY <1>1 DEF Channel4
<1>3. \A ch \in Channel4 : s.pt[ch] \in Int /\ Ptr(s.pt[ch] + step2(c)) \in PtrValue
  <2> SUFFICES ASSUME NEW ch \in Channel4
               PROVE  s.pt[ch] \in Int /\ Ptr(s.pt[ch] + step2(c)) \in PtrValue
    OBVIOUS
  <2>1. s.pt[ch] \in Int
    BY <1>0, ChipIsPtr, Zenon
  <2>2. step2(c) \in Int
    BY DEF step2
  <2>3. s.pt[ch] + step2(c) \in Int
    BY <2>1, <2>2
  <2> QED
    BY <2>1, <2>3, PtrIs
<1>4. PICK dat : dat = [ch \in Sources |-> IF ch \in used THEN s.mem[Chip(s.pt[ch])] ELSE c.dat[ch]]
  OBVIOUS
<1>5. dat \in [Sources -> Word]
  <2> SUFFICES ASSUME NEW ch \in Sources
               PROVE  (IF ch \in used THEN s.mem[Chip(s.pt[ch])] ELSE c.dat[ch]) \in Word
    BY <1>4, Zenon
  <2>1. ch \in used => s.mem[Chip(s.pt[ch])] \in Word
    BY <1>0, <1>2, <1>3, ChipIs, Zenon
  <2> QED
    BY <1>0, <2>1, Zenon
<1>6. PICK pt : pt = [ch \in Channel4 |-> IF ch \in used THEN Ptr(s.pt[ch] + step2(c)) ELSE s.pt[ch]]
  OBVIOUS
<1>7. pt \in [Channel4 -> PtrValue]
  BY <1>0, <1>3, <1>6, Zenon
<1>8. fetch_words(c, s) = [s EXCEPT !.dat = dat, !.pt = pt]
  BY <1>1, <1>4, <1>6, Zenon DEF fetch_words, Sources
<1> QED
  BY <1>5, <1>7, <1>8, Zenon DEF CopyState

(* copy_word, from the state after the fetches and from its parts.         *)
CopyDone(c, st, adat, B, k, raw, D) ==
    [st EXCEPT
       !.prevA = adat, !.bhold = B, !.carry = carry_out(c, raw, k),
       !.prevB = IF "B" \in c.use THEN st.dat["B"] ELSE @,
       !.zero = @ /\ D = {}, !.ddat = D,
       !.pending = IF "D" \in c.use THEN {<<Chip(st.pt["D"]), D>>} ELSE {},
       !.pt["D"] = IF "D" \in c.use THEN Ptr(@ + step2(c)) ELSE @]

CopyLogic(c, st, adat, B, k, raw) == CopyDone(c, st, adat, B, k, raw, apply_fill(c, raw, k))

CopyMixed(c, st, adat, AA, B, k) ==
    CopyLogic(c, st, adat, B, k, blitter_logic(c.minterm, AA, B, st.dat["C"]))

CopyShifted(c, st, x, adat) ==
    CopyMixed(c, st, adat, apply_shift(c, st.prevA, adat, c.ash),
              IF "B" \in c.use THEN apply_shift(c, st.prevB, st.dat["B"], c.bsh) ELSE st.bhold,
              IF x = 0 THEN fill_carry_in(c) ELSE st.carry)

CopyFetched(c, st, x) == CopyShifted(c, st, x, apply_a_masks(c, st.dat["A"], x))

LEMMA CopyWordIs ==
    ASSUME NEW c, NEW s0, NEW x
    PROVE  copy_word(c, s0, x) = CopyFetched(c, fetch_then_write(c, s0), x)
BY Zenon DEF copy_word, CopyFetched, CopyShifted, CopyMixed, CopyLogic, CopyDone

LEMMA WordCopied ==
    ASSUME NEW c \in BlitCommand, NEW s0 \in CopyState, NEW x
    PROVE  copy_word(c, s0, x) \in CopyState
<1>1. PICK st \in CopyState : st = fetch_then_write(c, s0)
  BY WordsFetched, PendingWritten, Zenon DEF fetch_then_write
<1>2. /\ st.pt \in [Channel4 -> PtrValue] /\ st.prevA \in Word /\ st.prevB \in Word
      /\ st.bhold \in Word /\ st.dat \in [Sources -> Word]
      /\ st.carry \in BOOLEAN /\ st.zero \in BOOLEAN
  BY CopyFields, Zenon
<1>3. /\ c.afwm \in Word /\ c.alwm \in Word /\ c.ash \in Bits /\ c.bsh \in Bits
  BY CmdFields, Zenon
<1>4. "A" \in Sources /\ "B" \in Sources /\ "C" \in Sources /\ "D" \in Channel4
  BY DEF Sources, Channel4
<1>5. st.dat["A"] \in Word /\ st.dat["B"] \in Word /\ st.dat["C"] \in Word
      /\ st.pt["D"] \in PtrValue
  BY <1>2, <1>4, Zenon
<1>6. PICK adat \in Word : adat = apply_a_masks(c, st.dat["A"], x)
  <2>1. apply_a_masks(c, st.dat["A"], x) \in Word
    BY <1>5, Zenon DEF apply_a_masks, Word
  <2> QED
    BY <2>1
<1>7. PICK AA \in Word : AA = apply_shift(c, st.prevA, adat, c.ash)
  BY <1>2, <1>3, ApplyIsWord, Zenon
<1>8. PICK B \in Word : B = IF "B" \in c.use
                            THEN apply_shift(c, st.prevB, st.dat["B"], c.bsh) ELSE st.bhold
  BY <1>2, <1>3, <1>5, ApplyIsWord, Zenon
<1>9. PICK k \in BOOLEAN : k = IF x = 0 THEN fill_carry_in(c) ELSE st.carry
  <2>1. (2 \in c.con1) \in BOOLEAN
    OBVIOUS
  <2> QED
    BY <1>2, <2>1, Zenon DEF fill_carry_in
<1>10. PICK raw \in Word : raw = blitter_logic(c.minterm, AA, B, st.dat["C"])
  BY <1>5, LogicIsWord, Zenon
<1>11. PICK D \in Word : D = apply_fill(c, raw, k)
  BY FillIsWord, Zenon
<1>12. PICK out \in BOOLEAN : out = carry_out(c, raw, k)
  BY CarryIs, Zenon
<1>13. PICK pb \in Word : pb = IF "B" \in c.use THEN st.dat["B"] ELSE st.prevB
  BY <1>2, <1>5, Zenon
<1>14. PICK z \in BOOLEAN : z = (st.zero /\ D = {})
  BY Zenon
<1>15. st.pt["D"] \in Int
  BY <1>5, ChipIsPtr, Zenon
<1>16. PICK pend \in SUBSET (ChipAddr \X Word) :
          pend = IF "D" \in c.use THEN {<<Chip(st.pt["D"]), D>>} ELSE {}
  <2>1. Chip(st.pt["D"]) \in ChipAddr
    BY <1>15, ChipIs
  <2>2. {<<Chip(st.pt["D"]), D>>} \in SUBSET (ChipAddr \X Word)
    BY <2>1
  <2> QED
    BY <2>2, Zenon
<1>17. PICK pd \in PtrValue : pd = IF "D" \in c.use THEN Ptr(st.pt["D"] + step2(c)) ELSE st.pt["D"]
  <2>1. st.pt["D"] + step2(c) \in Int
    BY <1>15 DEF step2
  <2> QED
    BY <1>5, <2>1, PtrIs, Zenon
<1>18. PICK pt \in [Channel4 -> PtrValue] : pt = [st.pt EXCEPT !["D"] = pd]
  BY <1>2, Zenon
<1>19. copy_word(c, s0, x) = CopyDone(c, st, adat, B, k, raw, D)
  <2>1. copy_word(c, s0, x) = CopyShifted(c, st, x, adat)
    BY <1>1, <1>6, CopyWordIs, Zenon DEF CopyFetched
  <2>2. CopyShifted(c, st, x, adat) = CopyMixed(c, st, adat, AA, B, k)
    BY <1>7, <1>8, <1>9, Zenon DEF CopyShifted
  <2>3. CopyMixed(c, st, adat, AA, B, k) = CopyLogic(c, st, adat, B, k, raw)
    BY <1>10, Zenon DEF CopyMixed
  <2>4. CopyLogic(c, st, adat, B, k, raw) = CopyDone(c, st, adat, B, k, raw, D)
    BY <1>11, Zenon DEF CopyLogic
  <2> QED
    BY <2>1, <2>2, <2>3, <2>4, Zenon
<1>20. CopyDone(c, st, adat, B, k, raw, D) =
         [st EXCEPT !.prevA = adat, !.bhold = B, !.carry = out, !.prevB = pb, !.zero = z,
                    !.ddat = D, !.pending = pend, !.pt = pt]
  BY <1>12, <1>13, <1>14, <1>16, <1>17, <1>18, Zenon DEF CopyDone
<1>21. PICK half : half = [st EXCEPT !.prevA = adat, !.bhold = B, !.carry = out, !.prevB = pb]
  OBVIOUS
<1>22. half \in CopyState
  BY <1>21, Zenon DEF CopyState
<1>23. copy_word(c, s0, x) = [half EXCEPT !.zero = z, !.ddat = D, !.pending = pend, !.pt = pt]
  BY <1>19, <1>20, <1>21, Zenon
<1> QED
  BY <1>22, <1>23, Zenon DEF CopyState

LEMMA LineAdvanced ==
    ASSUME NEW c \in BlitCommand, NEW s \in CopyState
    PROVE  advance_line(c, s) \in CopyState
<1>1. s.pt \in [Channel4 -> PtrValue] /\ c.mod \in [Channel4 -> Int]
  BY CopyFields, CmdFields, Zenon
<1>2. PICK pt : pt = [ch \in Channel4 |->
                        Ptr(IF descending(c) THEN s.pt[ch] - c.mod[ch] ELSE s.pt[ch] + c.mod[ch])]
  OBVIOUS
<1>3. pt \in [Channel4 -> PtrValue]
  <2> SUFFICES ASSUME NEW ch \in Channel4
               PROVE  Ptr(IF descending(c) THEN s.pt[ch] - c.mod[ch]
                          ELSE s.pt[ch] + c.mod[ch]) \in PtrValue
    BY <1>2, Zenon
  <2>1. s.pt[ch] \in Int /\ c.mod[ch] \in Int
    BY <1>1, ChipIsPtr, Zenon
  <2>2. s.pt[ch] - c.mod[ch] \in Int /\ s.pt[ch] + c.mod[ch] \in Int
    BY <2>1
  <2> QED
    BY <2>2, PtrIs, Zenon
<1>4. advance_line(c, s) = [s EXCEPT !.pt = pt]
  BY <1>2, Zenon DEF advance_line
<1> QED
  BY <1>3, <1>4, Zenon DEF CopyState

LEMMA ResultMade ==
    ASSUME NEW pt \in [Channel4 -> PtrValue], NEW dat \in [Sources -> Word], NEW ddat \in Word,
           NEW h \in Word, NEW z \in BOOLEAN
    PROVE  [pt |-> pt, dat |-> dat, ddat |-> ddat, bhold |-> h, zero |-> z] \in Result
BY DEF Result, PtrValue, Sources

LEMMA CopyRuns ==
    \A n \in Nat : \A x0 \in CopyState : \A F \in [1..n -> [CopyState -> CopyState]] :
      \E f \in [0..n -> CopyState] : f[0] = x0 /\ \A i \in 1..n : f[i] = F[i][f[i - 1]]
BY StepsExist

(* A copy leaves memory and registers well formed.                         *)
LEMMA CopyTyped ==
    ASSUME NEW c \in BlitCommand, NEW mem \in [ChipAddr -> Word]
    PROVE  /\ execute_copy_mode(c, mem).mem \in [ChipAddr -> Word]
           /\ execute_copy_mode(c, mem).result \in Result
<1>0. c.width \in Nat /\ c.height \in Nat
  BY CmdFields, Zenon
<1>1. PICK n \in Nat : n = c.width * c.height
  BY <1>0
<1> DEFINE w == c.width
           step(i, s) == LET st == copy_word(c, s, (i - 1) % w)
                         IN IF i % w = 0 THEN advance_line(c, st) ELSE st
           Eq(g) == g = [i \in 0..n |-> IF i = 0 THEN copy_state_init(c, mem)
                                       ELSE step(i, g[i - 1])]
           F == [i \in 1..n |-> [s \in CopyState |-> step(i, s)]]
<1>2. \A i \in 1..n : \A s \in CopyState : step(i, s) \in CopyState
  BY WordCopied, LineAdvanced, Zenon
<1>3. copy_state_init(c, mem) \in CopyState
  BY CopyStarts
<1>4. execute_copy_mode(c, mem) =
        LET end == write_pending((CHOOSE g : Eq(g))[n])
        IN [mem |-> end.mem,
            result |-> [pt |-> end.pt, dat |-> end.dat, ddat |-> end.ddat,
                        bhold |-> end.bhold, zero |-> end.zero]]
  BY <1>1, Zenon DEF execute_copy_mode
<1> HIDE DEF step
<1>5. F \in [1..n -> [CopyState -> CopyState]]
  <2>1. \A i \in 1..n : [s \in CopyState |-> step(i, s)] \in [CopyState -> CopyState]
    BY <1>2, Zenon
  <2> QED
    BY <2>1, Zenon
<1>6. PICK f \in [0..n -> CopyState] :
         f[0] = copy_state_init(c, mem) /\ \A i \in 1..n : f[i] = F[i][f[i - 1]]
  <2> HIDE DEF F
  <2>1. PICK x0 \in CopyState : x0 = copy_state_init(c, mem)
    BY <1>3
  <2>2. PICK G \in [1..n -> [CopyState -> CopyState]] : G = F
    BY <1>5, Zenon
  <2>3. \E f \in [0..n -> CopyState] : f[0] = x0 /\ \A i \in 1..n : f[i] = G[i][f[i - 1]]
    BY CopyRuns
  <2> QED
    BY <2>1, <2>2, <2>3, Zenon
<1>7. \A i \in 1..n : i - 1 \in 0..n
  OBVIOUS
<1>8. \A i \in 0..n : i # 0 => i \in 1..n
  OBVIOUS
<1>9. \A i \in 1..n : f[i] = step(i, f[i - 1])
  BY <1>6, <1>7, Zenon
<1>10. Eq(f)
  BY <1>6, <1>8, <1>9, Zenon
<1>11. PICK g : g = CHOOSE h : Eq(h)
  OBVIOUS
<1>12. Eq(g)
  <2> HIDE DEF Eq
  <2> QED
    BY <1>10, <1>11, Zenon
<1>13. \A i \in 0..n : g[i] = IF i = 0 THEN copy_state_init(c, mem) ELSE step(i, g[i - 1])
  BY <1>12, Zenon
<1>14. g[n] \in CopyState
  <2> DEFINE S == {k \in Nat : k \in 0..n => g[k] \in CopyState}
  <2>1. 0 \in S
    <3>1. 0 \in 0..n /\ 0 \in Nat
      OBVIOUS
    <3> QED
      BY <1>3, <1>13, <3>1, Zenon
  <2>2. ASSUME NEW k \in Nat, k \in S, k + 1 \in 0..n PROVE k + 1 \in S
    <3>1. k \in 0..n /\ k + 1 \in 1..n /\ k + 1 # 0 /\ (k + 1) - 1 = k /\ k + 1 \in Nat
      BY <2>2
    <3>2. g[k] \in CopyState
      BY <2>2, <3>1, Zenon
    <3>3. g[k + 1] = step(k + 1, g[k])
      BY <1>13, <2>2, <3>1, Zenon
    <3> QED
      BY <1>2, <3>1, <3>2, <3>3, Zenon
  <2>3. n \in S
    <3> HIDE DEF S
    <3> QED
      BY <2>1, <2>2, BoundedInduction
  <2>4. n \in 0..n
    OBVIOUS
  <2> QED
    BY <2>3, <2>4, Zenon
<1>15. PICK end \in CopyState : end = write_pending(g[n])
  BY <1>14, PendingWritten, Zenon
<1>16. execute_copy_mode(c, mem) =
         [mem |-> end.mem,
          result |-> [pt |-> end.pt, dat |-> end.dat, ddat |-> end.ddat,
                      bhold |-> end.bhold, zero |-> end.zero]]
  <2> HIDE DEF Eq
  <2> QED
    BY <1>4, <1>11, <1>15, Zenon
<1>17. end.mem \in [ChipAddr -> Word]
  BY CopyFields, Zenon
<1>18. [pt |-> end.pt, dat |-> end.dat, ddat |-> end.ddat,
        bhold |-> end.bhold, zero |-> end.zero] \in Result
  BY CopyFields, ResultMade, Zenon
<1>19. /\ execute_copy_mode(c, mem).mem = end.mem
       /\ execute_copy_mode(c, mem).result = [pt |-> end.pt, dat |-> end.dat, ddat |-> end.ddat,
                                              bhold |-> end.bhold, zero |-> end.zero]
  BY <1>16
<1> QED
  BY <1>17, <1>18, <1>19, Zenon

-----------------------------------------------------------------------------
(* The line stepper.                                                       *)
ErrValue == (-(ErrSpace \div 2))..(ErrSpace \div 2 - 1)

LineState ==
    [error: ErrValue, pattern: Word, cpt: ChipAddr, step_index: Nat, x_shift: Bits, dots: Nat,
     cdat: Word, ddat: Word, zero: BOOLEAN, sign: BOOLEAN]

LEMMA LineFields ==
    ASSUME NEW s \in LineState
    PROVE  /\ s.error \in ErrValue /\ s.pattern \in Word /\ s.cpt \in ChipAddr
           /\ s.step_index \in Nat /\ s.x_shift \in Bits /\ s.dots \in Nat
           /\ s.cdat \in Word /\ s.ddat \in Word /\ s.zero \in BOOLEAN /\ s.sign \in BOOLEAN
BY Zenon DEF LineState

LEMMA SignedIs ==
    ASSUME NEW e \in Int
    PROVE  Signed(e) \in ErrValue
<1>1. ErrSpace \in Nat \ {0} /\ ErrSpace % 2 = 0
  BY BlitterOpsAssumption
<1>2. PICK m \in 0..(ErrSpace - 1) : m = e % ErrSpace
  BY <1>1
<1>3. PICK h \in Nat : h = ErrSpace \div 2 /\ ErrSpace = 2 * h
  BY <1>1
<1>4. (IF m < h THEN m ELSE m - ErrSpace) \in (-h)..(h - 1)
  BY <1>2, <1>3
<1> QED
  BY <1>2, <1>3, <1>4, Zenon DEF Signed, ErrValue

LEMMA ErrInt == ErrValue \subseteq Int
BY BlitterOpsAssumption DEF ErrValue

LEMMA RotatedIsWord ==
    ASSUME NEW p \in Word, NEW s \in Bits
    PROVE  rotate_right(p, s) \in Word /\ rotate_left(p) \in Word
<1>1. W \in Nat \ {0}
  BY BlitterOpsAssumption
<1>2. \A b \in Bits : (b - s) % W \in Bits /\ (b + 1) % W \in Bits
  BY <1>1 DEF Bits
<1> QED
  BY <1>2, Zenon DEF rotate_right, rotate_left, Word

LEMMA LineStarts ==
    ASSUME NEW c \in BlitCommand
    PROVE  line_state_init(c) \in LineState /\ line_state_init(c).step_index = 0
<1>0. /\ c.pt \in [Channel4 -> PtrValue] /\ c.dat \in [Sources -> Word]
      /\ c.ash \in Bits /\ c.bsh \in Bits
  BY CmdFields, Zenon DEF Sources
<1>1. "A" \in Channel4 /\ "C" \in Channel4 /\ "B" \in Sources /\ "C" \in Sources
  BY DEF Channel4, Sources
<1>2. c.pt["A"] \in Int /\ c.pt["C"] \in Int /\ c.dat["B"] \in Word /\ c.dat["C"] \in Word
  BY <1>0, <1>1, ChipIsPtr, Zenon
<1>3. PICK e \in ErrValue : e = Signed(c.pt["A"])
  BY <1>2, SignedIs
<1>4. PICK p \in Word : p = rotate_right(c.dat["B"], c.bsh)
  BY <1>0, <1>2, RotatedIsWord, Zenon
<1>5. PICK a \in ChipAddr : a = Chip(c.pt["C"])
  BY <1>2, ChipIs
<1>6. PICK g \in BOOLEAN : g = initial_sign(c)
  <2>1. (6 \in c.con1) \in BOOLEAN
    OBVIOUS
  <2> QED
    BY <2>1, Zenon DEF initial_sign
<1>7. PICK d \in Word : d = {}
  BY Zenon DEF Word
<1>8. PICK k \in Word : k = c.dat["C"]
  BY <1>2
<1>9. PICK x \in Bits : x = c.ash
  BY <1>0
<1>10. line_state_init(c) =
         [error |-> e, pattern |-> p, cpt |-> a, step_index |-> 0, x_shift |-> x, dots |-> 0,
          cdat |-> k, ddat |-> d, zero |-> TRUE, sign |-> g]
  BY <1>3, <1>4, <1>5, <1>6, <1>7, <1>8, <1>9, Zenon DEF line_state_init
<1>11. [error |-> e, pattern |-> p, cpt |-> a, step_index |-> 0, x_shift |-> x, dots |-> 0,
        cdat |-> k, ddat |-> d, zero |-> TRUE, sign |-> g] \in LineState
  BY DEF LineState
<1>12. line_state_init(c).step_index = 0
  BY <1>10
<1> QED
  BY <1>10, <1>11, <1>12, Zenon

(* A step of the line that draws nothing and counts no pixel.              *)
Moved(s, t) == t \in LineState /\ t.step_index = s.step_index

LEMMA XMoved ==
    ASSUME NEW s \in LineState, NEW back
    PROVE  Moved(s, move_x(s, back))
<1>0. W \in Nat \ {0} /\ s.x_shift \in 0..(W - 1) /\ s.cpt \in ChipAddr
  BY BlitterOpsAssumption, LineFields DEF Bits
<1>1. s.cpt \in Int
  BY <1>0, ChipIsPtr, Zenon
<1>2. s.cpt + 2 \in Int /\ s.cpt - 2 \in Int
  BY <1>1
<1>3. PICK a \in ChipAddr : a = Chip(s.cpt + 2)
  BY <1>2, ChipIs
<1>4. PICK b \in ChipAddr : b = Chip(s.cpt - 2)
  BY <1>2, ChipIs
<1>5. 0 \in Bits /\ W - 1 \in Bits
  BY <1>0 DEF Bits
<1>6. /\ s.x_shift # W - 1 => s.x_shift + 1 \in Bits
      /\ s.x_shift # 0 => s.x_shift - 1 \in Bits
  BY <1>0 DEF Bits
<1>7. Moved(s, line_incx(s))
  <2>1. CASE s.x_shift = W - 1
    <3>1. line_incx(s) = [s EXCEPT !.x_shift = 0, !.cpt = a]
      BY <1>3, <2>1, Zenon DEF line_incx
    <3> QED
      BY <1>5, <3>1, Zenon DEF LineState, Moved
  <2>2. CASE s.x_shift # W - 1
    <3>1. PICK x \in Bits : x = s.x_shift + 1
      BY <1>6, <2>2
    <3>2. line_incx(s) = [s EXCEPT !.x_shift = x]
      BY <2>2, <3>1, Zenon DEF line_incx
    <3> QED
      BY <3>2, Zenon DEF LineState, Moved
  <2> QED
    BY <2>1, <2>2
<1>8. Moved(s, line_decx(s))
  <2>1. CASE s.x_shift = 0
    <3>0. PICK x \in Bits : x = W - 1
      BY <1>5
    <3>1. line_decx(s) = [s EXCEPT !.x_shift = x, !.cpt = b]
      BY <1>4, <2>1, <3>0, Zenon DEF line_decx
    <3> QED
      BY <3>1, Zenon DEF LineState, Moved
  <2>2. CASE s.x_shift # 0
    <3>1. PICK x \in Bits : x = s.x_shift - 1
      BY <1>6, <2>2
    <3>2. line_decx(s) = [s EXCEPT !.x_shift = x]
      BY <2>2, <3>1, Zenon DEF line_decx
    <3> QED
      BY <3>2, Zenon DEF LineState, Moved
  <2> QED
    BY <2>1, <2>2
<1> QED
  BY <1>7, <1>8, Zenon DEF move_x

LEMMA YMoved ==
    ASSUME NEW s \in LineState, NEW back, NEW mod \in Int
    PROVE  Moved(s, move_y(s, back, mod))
<1>0. s.cpt \in Int
  BY LineFields, ChipIsPtr, Zenon
<1>1. s.cpt + mod \in Int /\ s.cpt - mod \in Int /\ 0 \in Nat
  BY <1>0
<1>2. PICK a \in ChipAddr : a = Chip(s.cpt + mod)
  BY <1>1, ChipIs
<1>3. PICK b \in ChipAddr : b = Chip(s.cpt - mod)
  BY <1>1, ChipIs
<1>4. /\ line_incy(s, mod) = [s EXCEPT !.cpt = a, !.dots = 0]
      /\ line_decy(s, mod) = [s EXCEPT !.cpt = b, !.dots = 0]
  BY <1>2, <1>3, Zenon DEF line_incy, line_decy
<1>5. Moved(s, line_incy(s, mod)) /\ Moved(s, line_decy(s, mod))
  BY <1>1, <1>4, Zenon DEF LineState, Moved
<1> QED
  BY <1>5, Zenon DEF move_y

LEMMA AdvancedTyped ==
    ASSUME NEW c \in BlitCommand, NEW s \in LineState
    PROVE  Moved(s, line_advance(c, s))
<1>0. /\ s.error \in ErrValue /\ s.sign \in BOOLEAN /\ c.mod \in [Channel4 -> Int]
  BY LineFields, CmdFields, Zenon
<1>1. "A" \in Channel4 /\ "B" \in Channel4 /\ "C" \in Channel4
  BY DEF Channel4
<1>2. c.mod["A"] \in Int /\ c.mod["B"] \in Int /\ c.mod["C"] \in Int /\ s.error \in Int
  BY <1>0, <1>1, ErrInt, Zenon
<1>3. PICK e \in ErrValue : e = IF "A" \notin c.use THEN s.error
                                ELSE Signed(s.error + (IF s.sign THEN c.mod["B"] ELSE c.mod["A"]))
  <2>1. s.error + (IF s.sign THEN c.mod["B"] ELSE c.mod["A"]) \in Int
    BY <1>2
  <2> QED
    BY <1>0, <2>1, SignedIs, Zenon
<1>4. PICK s1 : s1 = [s EXCEPT !.error = e]
  OBVIOUS
<1>5. Moved(s, s1)
  BY <1>4, Zenon DEF LineState, Moved
<1>6. PICK s2 : s2 = IF s.sign THEN s1
                     ELSE IF sud(c) THEN move_y(s1, sul(c), c.mod["C"]) ELSE move_x(s1, sul(c))
  OBVIOUS
<1>7. Moved(s, s2)
  <2>1. s1 \in LineState
    BY <1>5, Zenon DEF Moved
  <2>2. Moved(s1, move_y(s1, sul(c), c.mod["C"])) /\ Moved(s1, move_x(s1, sul(c)))
    BY <1>2, <2>1, XMoved, YMoved
  <2> QED
    BY <1>5, <1>6, <2>2, Zenon DEF Moved
<1>8. PICK s3 : s3 = IF sud(c) THEN move_x(s2, aul(c)) ELSE move_y(s2, aul(c), c.mod["C"])
  OBVIOUS
<1>9. Moved(s, s3)
  <2>1. s2 \in LineState
    BY <1>7, Zenon DEF Moved
  <2>2. Moved(s2, move_y(s2, aul(c), c.mod["C"])) /\ Moved(s2, move_x(s2, aul(c)))
    BY <1>2, <2>1, XMoved, YMoved
  <2> QED
    BY <1>7, <1>8, <2>2, Zenon DEF Moved
<1>10. PICK g \in BOOLEAN : g = (e < 0)
  <2>1. (e < 0) \in BOOLEAN
    OBVIOUS
  <2> QED
    BY <2>1, Zenon
<1>11. line_advance(c, s) = [s3 EXCEPT !.sign = g]
  BY <1>3, <1>4, <1>6, <1>8, <1>10, Zenon DEF line_advance
<1> QED
  BY <1>9, <1>11, Zenon DEF LineState, Moved

LEMMA ValueIsWord ==
    ASSUME NEW c \in BlitCommand, NEW s \in LineState, NEW v \in Word
    PROVE  line_value(c, s, v) \in Word
<1>0. c.dat \in [Sources -> Word] /\ c.afwm \in Word /\ s.x_shift \in Bits
  BY CmdFields, LineFields, Zenon DEF Sources
<1>1. PICK AA : AA = {b - s.x_shift : b \in {x \in c.dat["A"] \cap c.afwm : x >= s.x_shift}}
  OBVIOUS
<1>2. \A b \in Bits : b >= s.x_shift => b - s.x_shift \in Bits
  BY <1>0, BlitterOpsAssumption DEF Bits
<1>3. AA \in Word
  BY <1>0, <1>1, <1>2, Zenon DEF Word
<1>4. PICK B \in Word : B = IF 0 \in s.pattern THEN AllOnes ELSE {}
  BY Zenon DEF Word, AllOnes
<1> QED
  BY <1>1, <1>3, <1>4, LogicIsWord, Zenon DEF line_value

LEMMA CvalIsWord ==
    ASSUME NEW c \in BlitCommand, NEW s \in LineState, NEW mem \in [ChipAddr -> Word]
    PROVE  line_cval(c, s, mem) \in Word
<1>1. "C" \in Sources /\ c.dat \in [Sources -> Word] /\ s.cpt \in ChipAddr
  BY CmdFields, LineFields DEF Sources
<1> QED
  BY <1>1, Zenon DEF line_cval

(* A pixel is counted, and leaves the line and memory well formed.         *)
LEMMA PixelTyped ==
    ASSUME NEW c \in BlitCommand, NEW s \in LineState, NEW mem \in [ChipAddr -> Word]
    PROVE  /\ line_pixel(c, s, mem) \in LineState
           /\ line_pixel(c, s, mem).step_index = s.step_index + 1
           /\ line_mem(c, s, mem) \in [ChipAddr -> Word]
<1>0. /\ s.step_index \in Nat /\ s.dots \in Nat /\ s.zero \in BOOLEAN /\ s.cpt \in ChipAddr
  BY LineFields, Zenon
<1>1. PICK v \in Word : v = line_cval(c, s, mem)
  BY CvalIsWord
<1>2. PICK d \in Word : d = line_value(c, s, v)
  BY ValueIsWord
<1>3. PICK n \in Nat : n = s.step_index + 1
  BY <1>0
<1>4. PICK m \in Nat : m = (s.dots + 1) % DotSpace
  BY <1>0, BlitterOpsAssumption
<1>5. PICK z \in BOOLEAN : z = (s.zero /\ d = {})
  BY Zenon
<1>6. PICK r : r = [s EXCEPT !.cdat = v, !.ddat = d, !.zero = z, !.step_index = n, !.dots = m]
  OBVIOUS
<1>7. r \in LineState /\ r.step_index = n
  BY <1>6, Zenon DEF LineState
<1>8. PICK t : t = line_advance(c, r)
  OBVIOUS
<1>9. t \in LineState /\ t.step_index = n
  BY <1>7, <1>8, AdvancedTyped, Zenon DEF Moved
<1>10. PICK p \in Word : p = rotate_left(t.pattern)
  <2>1. 0 \in Bits
    BY BlitterOpsAssumption DEF Bits
  <2> QED
    BY <1>9, <2>1, LineFields, RotatedIsWord, Zenon
<1>11. line_pixel(c, s, mem) = [t EXCEPT !.pattern = p]
  BY <1>1, <1>2, <1>3, <1>4, <1>5, <1>6, <1>8, <1>10, Zenon DEF line_pixel
<1>12. /\ line_pixel(c, s, mem) \in LineState
       /\ line_pixel(c, s, mem).step_index = n
  BY <1>9, <1>11, Zenon DEF LineState
<1>13. line_mem(c, s, mem) \in [ChipAddr -> Word]
  BY <1>0, <1>1, <1>2, Zenon DEF line_mem
<1> QED
  BY <1>3, <1>12, <1>13, Zenon

(* A pointer with its low part replaced is a pointer.                      *)
LEMMA LowHalf ==
    ASSUME NEW d \in Nat \ {0}, PtrSpace % d = 0, NEW p \in PtrValue, NEW r \in 0..(d - 1)
    PROVE  (p \div d) * d + r \in PtrValue
<1>0. PtrSpace \in Nat
  BY BlitterOpsAssumption
<1>1. p \in Nat /\ p < PtrSpace
  BY <1>0 DEF PtrValue
<1>2. PICK q \in Nat : q = p \div d /\ d * q <= p
  <2>1. p \div d \in Nat /\ d * (p \div d) <= p
    BY <1>1, Quotient, Zenon
  <2> QED
    BY <2>1, Zenon
<1>3. PICK n \in Nat : PtrSpace = d * n
  <2>1. /\ PtrSpace \div d \in Nat
        /\ PtrSpace = d * (PtrSpace \div d) + (PtrSpace % d)
    BY <1>0, DivMod
  <2>2. PICK u \in Nat : u = PtrSpace \div d
    BY <2>1
  <2>3. PICK k \in Nat : k = d * u
    BY <2>2
  <2>4. PtrSpace = d * u
    BY <2>1, <2>2, <2>3
  <2> QED
    BY <2>2, <2>4
<1>4. q < n
  BY <1>0, <1>1, <1>2, <1>3
<1>5. d * (q + 1) <= d * n
  BY <1>4
<1>6. q * d + r \in 0..(PtrSpace - 1)
  BY <1>0, <1>3, <1>5
<1> QED
  BY <1>2, <1>6, Zenon DEF PtrValue

LEMMA LineResultTyped ==
    ASSUME NEW c \in BlitCommand, NEW s \in LineState
    PROVE  line_result(c, s) \in Result
<1>0. /\ s.error \in ErrValue /\ s.cpt \in ChipAddr /\ s.cdat \in Word /\ s.ddat \in Word
      /\ s.zero \in BOOLEAN /\ c.pt \in [Channel4 -> PtrValue] /\ c.dat \in [Sources -> Word]
      /\ c.bhold \in Word
  BY LineFields, CmdFields, Zenon DEF Sources
<1>1. "A" \in Channel4 /\ "C" \in Channel4 /\ "D" \in Channel4 /\ "C" \in Sources
  BY DEF Channel4, Sources
<1>2. PICK a \in PtrValue : a = (c.pt["A"] \div ErrSpace) * ErrSpace + (s.error % ErrSpace)
  <2>0. ErrSpace \in Nat \ {0} /\ PtrSpace % ErrSpace = 0
    BY BlitterOpsAssumption, BlitterAssumption
  <2>1. PICK e \in Int : e = s.error
    BY <1>0, ErrInt, Zenon
  <2>2. PICK p \in PtrValue : p = c.pt["A"]
    BY <1>0, <1>1, Zenon
  <2>3. PICK r \in 0..(ErrSpace - 1) : r = e % ErrSpace
    BY <2>0, <2>1
  <2> QED
    BY <2>0, <2>1, <2>2, <2>3, LowHalf, Zenon
<1>3. PICK b \in PtrValue : b = s.cpt
  BY <1>0, ChipIsPtr, Zenon
<1>4. PICK pt \in [Channel4 -> PtrValue] : pt = [c.pt EXCEPT !["A"] = a, !["C"] = b, !["D"] = b]
  BY <1>0, Zenon
<1>5. PICK dat \in [Sources -> Word] : dat = [c.dat EXCEPT !["C"] = s.cdat]
  BY <1>0, Zenon
<1>6. line_result(c, s) = [pt |-> pt, dat |-> dat, ddat |-> s.ddat, bhold |-> c.bhold,
                           zero |-> s.zero]
  BY <1>2, <1>3, <1>4, <1>5, Zenon DEF line_result
<1> QED
  BY <1>0, <1>6, ResultMade, Zenon

-----------------------------------------------------------------------------
(* The cost of a command.                                                  *)
LEMMA OneMore ==
    ASSUME NEW S, IsFiniteSet(S), NEW n \in Nat, Cardinality(S) <= n, NEW x
    PROVE  IsFiniteSet(S \cup {x}) /\ Cardinality(S \cup {x}) <= n + 1
<1>1. IsFiniteSet(S \cup {x}) /\ (Cardinality(S \cup {x}) = Cardinality(S)
                                  \/ Cardinality(S \cup {x}) = Cardinality(S) + 1)
  BY FS_AddElement, Zenon
<1>2. Cardinality(S) \in Nat
  BY FS_CardinalityType, Zenon
<1> QED
  BY <1>1, <1>2

LEMMA ChannelsCounted ==
    ASSUME NEW c \in BlitCommand
    PROVE  word_cost(c) \in 1..5
<1>1. c.use \in SUBSET Channel4
  BY CmdFields, Zenon
<1>2. IsFiniteSet(Channel4) /\ Cardinality(Channel4) <= 4
  <2>1. IsFiniteSet({}) /\ Cardinality({}) <= 0
    BY FS_EmptySet
  <2>2. PICK s1 : s1 = {} \cup {"A"}
    OBVIOUS
  <2>3. IsFiniteSet(s1) /\ Cardinality(s1) <= 1
    BY <2>1, <2>2, OneMore
  <2>4. PICK s2 : s2 = s1 \cup {"B"}
    OBVIOUS
  <2>5. IsFiniteSet(s2) /\ Cardinality(s2) <= 2
    <3>1. 1 \in Nat /\ 1 + 1 = 2
      OBVIOUS
    <3>2. IsFiniteSet(s2) /\ Cardinality(s2) <= 1 + 1
      BY <2>3, <2>4, <3>1, OneMore, Zenon
    <3> QED
      BY <3>1, <3>2
  <2>6. PICK s3 : s3 = s2 \cup {"C"}
    OBVIOUS
  <2>7. IsFiniteSet(s3) /\ Cardinality(s3) <= 3
    <3>1. 2 \in Nat /\ 2 + 1 = 3
      OBVIOUS
    <3>2. IsFiniteSet(s3) /\ Cardinality(s3) <= 2 + 1
      BY <2>5, <2>6, <3>1, OneMore, Zenon
    <3> QED
      BY <3>1, <3>2
  <2>8. PICK s4 : s4 = s3 \cup {"D"}
    OBVIOUS
  <2>9. IsFiniteSet(s4) /\ Cardinality(s4) <= 4
    <3>1. 3 \in Nat /\ 3 + 1 = 4
      OBVIOUS
    <3>2. IsFiniteSet(s4) /\ Cardinality(s4) <= 3 + 1
      BY <2>7, <2>8, <3>1, OneMore, Zenon
    <3> QED
      BY <3>1, <3>2
  <2>10. s4 = Channel4
    BY <2>2, <2>4, <2>6, <2>8, Zenon DEF Channel4
  <2> QED
    BY <2>9, <2>10, Zenon
<1>3. IsFiniteSet(c.use) /\ Cardinality(c.use) <= Cardinality(Channel4)
  BY <1>1, <1>2, FS_Subset, Zenon
<1>4. PICK k \in Nat : k = Cardinality(c.use) /\ k <= 4
  BY <1>2, <1>3, FS_CardinalityType
<1>5. c.use # {} => k # 0
  BY <1>3, <1>4, FS_EmptySet, Zenon
<1>6. active_channel_count(c) \in 1..4
  <2>1. CASE c.use = {}
    BY <2>1 DEF active_channel_count
  <2>2. CASE c.use # {}
    <3>1. active_channel_count(c) = k
      BY <1>4, <2>2, Zenon DEF active_channel_count
    <3> QED
      BY <1>4, <1>5, <2>2, <3>1
  <2> QED
    BY <2>1, <2>2, Zenon
<1> QED
  BY <1>6 DEF word_cost

(* No command costs as many slots as the counter can count.                *)
LEMMA EstimateIs ==
    ASSUME NEW c \in BlitCommand, c.width \in 0..MaxWidth, c.height \in 0..MaxHeight,
           NEW exact \in BOOLEAN
    PROVE  /\ estimate_cycles(c, exact) \in 1..(SlotSpace - 1)
           /\ line_mode(c) /\ c.height > 0 =>
                estimate_cycles(c, exact) = c.height * (IF exact THEN 2 ELSE 1)
<1>0. MaxWidth \in Nat \ {0} /\ MaxHeight \in Nat \ {0} /\ SlotSpace \in Nat
      /\ 5 * (MaxWidth * MaxHeight) < SlotSpace
  BY BlitterAssumption
<1>1. PICK m \in Nat : m = MaxWidth * MaxHeight
  BY <1>0
<1>2. MaxHeight <= m /\ 0 < m
  BY <1>0, <1>1
<1>3. PICK w \in 0..MaxWidth : w = c.width
  OBVIOUS
<1>4. PICK h \in 0..MaxHeight : h = c.height
  OBVIOUS
<1>5. PICK p \in Nat : p = w * h
  BY <1>0
<1>6. p <= m
  <2>1. w * h <= MaxWidth * h
    BY <1>0, <1>3, <1>4
  <2>2. MaxWidth * h <= MaxWidth * MaxHeight
    BY <1>0, <1>4
  <2>3. PICK q \in Nat : q = MaxWidth * h
    BY <1>0, <1>4
  <2> QED
    BY <1>1, <1>5, <2>1, <2>2, <2>3
<1>7. PICK k \in 1..5 : k = IF exact THEN word_cost(c) ELSE 1
  BY ChannelsCounted
<1>8. PICK l \in 1..2 : l = IF exact THEN 2 ELSE 1
  OBVIOUS
<1>9. PICK n \in Nat : n = (IF line_mode(c) THEN h * l ELSE p * k)
  <2>1. h * l \in Nat /\ p * k \in Nat
    BY <1>0, <1>4, <1>5, <1>7, <1>8
  <2> QED
    BY <2>1
<1>10. n <= 5 * m /\ (line_mode(c) => n = h * l)
  <2>1. h * l <= 5 * m
    BY <1>0, <1>2, <1>4, <1>8
  <2>2. p * k <= 5 * m
    BY <1>1, <1>5, <1>6, <1>7
  <2> QED
    BY <1>9, <2>1, <2>2
<1>11. estimate_cycles(c, exact) = IF n = 0 THEN 1 ELSE n
  BY <1>3, <1>4, <1>5, <1>7, <1>8, <1>9, Zenon DEF estimate_cycles
<1>12. PICK e \in Nat : e = estimate_cycles(c, exact) /\ e = IF n = 0 THEN 1 ELSE n
  BY <1>11
<1>13. e \in 1..(SlotSpace - 1)
  BY <1>0, <1>1, <1>2, <1>9, <1>10, <1>12
<1>14. ASSUME line_mode(c), c.height > 0
       PROVE  estimate_cycles(c, exact) = c.height * (IF exact THEN 2 ELSE 1)
  <2>1. n = h * l
    BY <1>10, <1>14, Zenon
  <2>2. h # 0
    BY <1>4, <1>14
  <2>3. n # 0
    BY <1>4, <1>8, <2>1, <2>2
  <2> QED
    BY <1>4, <1>8, <1>12, <2>1, <2>3, Zenon
<1> QED
  BY <1>12, <1>13, <1>14, Zenon

-----------------------------------------------------------------------------
(* The reference line, pixel by pixel.                                     *)
Canvas == [s: LineState, mem: [ChipAddr -> Word]]

LineAt(c, mem) ==
    CHOOSE at : at = [i \in 0..c.height |->
                        IF i = 0 THEN [s |-> line_state_init(c), mem |-> mem]
                        ELSE [s |-> line_pixel(c, at[i - 1].s, at[i - 1].mem),
                              mem |-> line_mem(c, at[i - 1].s, at[i - 1].mem)]]

LEMMA CanvasMade ==
    ASSUME NEW s \in LineState, NEW m \in [ChipAddr -> Word]
    PROVE  [s |-> s, mem |-> m] \in Canvas
BY DEF Canvas

LEMMA CanvasFields ==
    ASSUME NEW v \in Canvas
    PROVE  v.s \in LineState /\ v.mem \in [ChipAddr -> Word]
BY Zenon DEF Canvas

LEMMA LineRuns ==
    \A n \in Nat : \A x0 \in Canvas : \A F \in [1..n -> [Canvas -> Canvas]] :
      \E f \in [0..n -> Canvas] : f[0] = x0 /\ \A i \in 1..n : f[i] = F[i][f[i - 1]]
BY StepsExist

(* The reference draws the pixels one after the other.                     *)
LEMMA LineIs ==
    ASSUME NEW c \in BlitCommand, NEW mem \in [ChipAddr -> Word]
    PROVE  /\ LineAt(c, mem)[0] = [s |-> line_state_init(c), mem |-> mem]
           /\ \A i \in 1..c.height :
                LineAt(c, mem)[i] =
                  [s |-> line_pixel(c, LineAt(c, mem)[i - 1].s, LineAt(c, mem)[i - 1].mem),
                   mem |-> line_mem(c, LineAt(c, mem)[i - 1].s, LineAt(c, mem)[i - 1].mem)]
<1>1. PICK n \in Nat : n = c.height
  BY CmdFields
<1> DEFINE step(v) == [s |-> line_pixel(c, v.s, v.mem), mem |-> line_mem(c, v.s, v.mem)]
           first == [s |-> line_state_init(c), mem |-> mem]
           Eq(g) == g = [i \in 0..n |-> IF i = 0 THEN first ELSE step(g[i - 1])]
<1>2. \A v \in Canvas : step(v) \in Canvas
  BY CanvasFields, PixelTyped, CanvasMade, Zenon
<1>3. first \in Canvas
  BY LineStarts, CanvasMade, Zenon
<1>4. LineAt(c, mem) = CHOOSE g : Eq(g)
  BY <1>1, Zenon DEF LineAt
<1>5. \A v : step(v) = [s |-> line_pixel(c, v.s, v.mem), mem |-> line_mem(c, v.s, v.mem)]
  BY Zenon
<1>6. first = [s |-> line_state_init(c), mem |-> mem]
  BY Zenon
<1> HIDE DEF step, first
<1>7. PICK G \in [1..n -> [Canvas -> Canvas]] : \A i \in 1..n : \A v \in Canvas : G[i][v] = step(v)
  <2>1. PICK S \in [Canvas -> Canvas] : \A v \in Canvas : S[v] = step(v)
    <3>1. [v \in Canvas |-> step(v)] \in [Canvas -> Canvas]
      BY <1>2, Zenon
    <3> QED
      BY <3>1, Zenon
  <2>2. [i \in 1..n |-> S] \in [1..n -> [Canvas -> Canvas]]
    BY <2>1, Zenon
  <2> QED
    BY <2>1, <2>2, Zenon
<1>8. PICK x0 \in Canvas : x0 = first
  BY <1>3, Zenon
<1>9. PICK f \in [0..n -> Canvas] : f[0] = x0 /\ \A i \in 1..n : f[i] = G[i][f[i - 1]]
  BY LineRuns
<1>10. \A i \in 1..n : i - 1 \in 0..n /\ i \in 0..n /\ i # 0
  OBVIOUS
<1>11. \A i \in 0..n : i # 0 => i \in 1..n
  OBVIOUS
<1>12. \A i \in 1..n : f[i] = step(f[i - 1])
  BY <1>7, <1>9, <1>10, Zenon
<1>13. Eq(f)
  BY <1>8, <1>9, <1>11, <1>12, Zenon
<1>14. PICK g : g = LineAt(c, mem)
  OBVIOUS
<1>15. Eq(g)
  <2> HIDE DEF Eq
  <2> QED
    BY <1>4, <1>13, <1>14, Zenon
<1>16. 0 \in 0..n
  OBVIOUS
<1>17. g[0] = first /\ \A i \in 1..n : g[i] = step(g[i - 1])
  BY <1>10, <1>15, <1>16, Zenon
<1> QED
  BY <1>1, <1>5, <1>6, <1>14, <1>17, Zenon

LEMMA ReferenceIs ==
    ASSUME NEW c \in BlitCommand, NEW mem, c.height > 0
    PROVE  execute_line_mode(c, mem) =
             [mem |-> LineAt(c, mem)[c.height].mem,
              result |-> line_result(c, LineAt(c, mem)[c.height].s)]
BY Zenon DEF execute_line_mode, LineAt

-----------------------------------------------------------------------------
(* The inductive invariant: the state is well formed and its sizes are     *)
(* bounded; the slots consumed and announced add up, for a line through    *)
(* the pixels drawn; and a line in progress is the reference's line after  *)
(* as many pixels.                                                         *)
BltTyped ==
    /\ regs \in Regs /\ regs.sizh \in 0..MaxWidth /\ regs.sizv \in 0..MaxHeight
    /\ cmd \in BlitCommand /\ cmd.width \in 0..MaxWidth /\ cmd.height \in 0..MaxHeight
    /\ result \in Result
    /\ exec \in {"idle", "pending", "running"} /\ busy \in BOOLEAN
    /\ busy <=> exec # "idle"
    /\ remaining \in Nat /\ consumed \in 0..(SlotSpace - 1)
    /\ line \in LineState /\ lineInit \in BOOLEAN /\ phase \in {0, 1}
    /\ cycle_exact \in BOOLEAN /\ disturbed \in BOOLEAN
    /\ ram \in [ChipAddr -> Word] /\ base \in [ChipAddr -> Word]
    /\ bltOps \in 0..MaxBltOps

(* The slots that the pixels drawn so far have taken.                      *)
PixelSlots ==
    IF cycle_exact THEN 2 * line.step_index + phase ELSE line.step_index

LineUndisturbed == busy /\ line_mode(cmd) /\ ~disturbed /\ cmd.height > 0

LinePaced ==
    LineUndisturbed =>
        /\ line.step_index < cmd.height
        /\ consumed = PixelSlots
        /\ ~cycle_exact => phase = 0

LineDrawn ==
    LineUndisturbed =>
        [s |-> line, mem |-> ram] = LineAt(cmd, base)[line.step_index]

BltInv == BltTyped /\ SlotsExact /\ LinePaced /\ LineDrawn

LEMMA CommandBuilt ==
    ASSUME NEW r \in Regs
    PROVE  /\ build_command(r) \in BlitCommand
           /\ build_command(r).width = r.sizh /\ build_command(r).height = r.sizv
<1>1. PICK pt \in [Channel4 -> PtrValue] : pt = [ch \in Channel4 |-> Chip(r.pt[ch])]
  <2>1. r.pt \in [Channel4 -> PtrValue]
    BY Zenon DEF Regs, PtrValue
  <2>2. \A ch \in Channel4 : Chip(r.pt[ch]) \in PtrValue
    BY <2>1, ChipIs, ChipIsPtr, Zenon
  <2>3. [ch \in Channel4 |-> Chip(r.pt[ch])] \in [Channel4 -> PtrValue]
    BY <2>2, Zenon
  <2> QED
    BY <2>3, Zenon
<1>2. /\ r.mod \in [Channel4 -> Int] /\ r.dat \in [{"A", "B", "C"} -> Word]
      /\ r.bhold \in Word /\ r.afwm \in Word /\ r.alwm \in Word
      /\ r.minterm \in SUBSET (0..7) /\ r.ash \in Bits /\ r.bsh \in Bits
      /\ r.use \in SUBSET Channel4 /\ r.con1 \in SUBSET (0..7)
      /\ r.sizh \in Nat /\ r.sizv \in Nat
  BY Zenon DEF Regs
<1>3. build_command(r) =
        [pt |-> pt, mod |-> r.mod, dat |-> r.dat,
         bhold |-> r.bhold, afwm |-> r.afwm, alwm |-> r.alwm,
         width |-> r.sizh, height |-> r.sizv, minterm |-> r.minterm,
         ash |-> r.ash, bsh |-> r.bsh, use |-> r.use, con1 |-> r.con1]
  BY <1>1, Zenon DEF build_command
<1>4. build_command(r) \in BlitCommand
  BY <1>1, <1>2, <1>3 DEF BlitCommand, PtrValue
<1> QED
  BY <1>3, <1>4

LEMMA RegsInit ==
    /\ blitter_init_regs \in Regs
    /\ blitter_init_regs.sizh = 0 /\ blitter_init_regs.sizv = 0
    /\ zero_result \in Result
<1>1. PICK z \in [Channel4 -> PtrValue] : z = [ch \in Channel4 |-> 0]
  <2>1. 0 \in PtrValue
    BY BlitterOpsAssumption DEF PtrValue
  <2> QED
    BY <2>1, Zenon
<1>2. PICK mz \in [Channel4 -> Int] : mz = [ch \in Channel4 |-> 0]
  <2>1. [ch \in Channel4 |-> 0] \in [Channel4 -> Int]
    OBVIOUS
  <2> QED
    BY <2>1, Zenon
<1>3. PICK d \in [{"A", "B", "C"} -> Word] : d = [ch \in {"A", "B", "C"} |-> {}]
  <2>1. {} \in Word
    BY Zenon DEF Word
  <2> QED
    BY <2>1, Zenon
<1>4. {} \in Word /\ AllOnes \in Word /\ 0 \in Bits
  BY BlitterOpsAssumption DEF Word, AllOnes, Bits
<1>5. blitter_init_regs =
        [pt |-> z, mod |-> mz, dat |-> d, ddat |-> {}, bhold |-> {},
         afwm |-> AllOnes, alwm |-> AllOnes, minterm |-> {}, ash |-> 0, bsh |-> 0,
         use |-> {}, con1 |-> {}, sizh |-> 0, sizv |-> 0]
  BY <1>1, <1>2, <1>3, Zenon DEF blitter_init_regs
<1>6. blitter_init_regs \in Regs
  BY <1>1, <1>2, <1>3, <1>4, <1>5 DEF Regs, PtrValue
<1>7. zero_result \in Result
  BY <1>1, <1>3, <1>4 DEF Result, PtrValue, zero_result
<1> QED
  BY <1>5, <1>6, <1>7

(* The invariant when a command is given.                                  *)
LEMMA BeginKeeps ==
    ASSUME BltInv, NEW r \in Regs, r.sizh \in 0..MaxWidth, r.sizv \in 0..MaxHeight, Begin(r),
           bltOps' \in 0..MaxBltOps
    PROVE  BltInv'
<1>1. /\ ram \in [ChipAddr -> Word] /\ cycle_exact \in BOOLEAN
  BY Zenon DEF BltInv, BltTyped
<1>2. /\ regs' = r /\ cmd' = build_command(r)
      /\ busy' = TRUE /\ exec' = "pending" /\ result' = zero_result
      /\ line' = line_state_init(cmd') /\ lineInit' = FALSE /\ phase' = 0
      /\ consumed' = 0 /\ remaining' = estimate_cycles(cmd', cycle_exact)
      /\ base' = ram /\ disturbed' = FALSE
      /\ cycle_exact' = cycle_exact /\ blten' = blten /\ ram' = ram
  BY Zenon DEF Begin
<1>3. PICK c \in BlitCommand : c = cmd' /\ c.width \in 0..MaxWidth /\ c.height \in 0..MaxHeight
  BY <1>2, CommandBuilt, Zenon
<1>4. PICK e \in 1..(SlotSpace - 1) : e = estimate_cycles(c, cycle_exact)
  BY <1>1, <1>3, EstimateIs, Zenon
<1>5. PICK s \in LineState : s = line' /\ s = line_state_init(c) /\ s.step_index = 0
  BY <1>2, <1>3, LineStarts, Zenon
<1>6. SlotSpace \in Nat \ {0} /\ zero_result \in Result
  BY BlitterAssumption, <1>4, RegsInit
<1>7. BltTyped'
  <2>1. /\ remaining' = e /\ remaining' \in Nat /\ consumed' \in 0..(SlotSpace - 1)
        /\ phase' \in {0, 1}
    BY <1>2, <1>3, <1>4, <1>6
  <2> QED
    BY <1>1, <1>2, <1>3, <1>5, <1>6, <2>1, Zenon DEF BltTyped
<1>8. SlotsExact'
  <2>1. busy' /\ remaining' = e /\ consumed' = 0 /\ estimate_cycles(cmd', cycle_exact') = e
    BY <1>2, <1>3, <1>4, Zenon
  <2>2. remaining' > 0 /\ consumed' + remaining' = estimate_cycles(cmd', cycle_exact')
    BY <1>4, <2>1
  <2> QED
    BY <2>1, <2>2, Zenon DEF SlotsExact
<1>9. LinePaced'
  <2>1. line'.step_index = 0 /\ consumed' = 0 /\ phase' = 0
    BY <1>2, <1>5, Zenon
  <2>2. consumed' = PixelSlots'
    BY <2>1 DEF PixelSlots
  <2>3. cmd'.height > 0 => line'.step_index < cmd'.height
    BY <1>3, <2>1
  <2> QED
    BY <2>1, <2>2, <2>3, Zenon DEF LinePaced, LineUndisturbed
<1>10. LineDrawn'
  <2>1. LineAt(c, ram)[0] = [s |-> line_state_init(c), mem |-> ram]
    BY <1>1, LineIs, Zenon
  <2>2. [s |-> line', mem |-> ram'] = LineAt(cmd', base')[line'.step_index]
    BY <1>2, <1>3, <1>5, <2>1, Zenon
  <2> QED
    BY <2>2, Zenon DEF LineDrawn
<1> QED
  BY <1>7, <1>8, <1>9, <1>10, Zenon DEF BltInv

(* A step that leaves the command and its progress alone.                  *)
LEMMA FrameKeeps ==
    ASSUME BltInv, regs' \in Regs, regs'.sizh \in 0..MaxWidth, regs'.sizv \in 0..MaxHeight,
           UNCHANGED <<cmd, result, exec, busy, remaining, consumed, line, lineInit, phase, base>>,
           bltOps' \in 0..MaxBltOps, ram' \in [ChipAddr -> Word], cycle_exact' \in BOOLEAN,
           \/ disturbed' = TRUE
           \/ UNCHANGED <<ram, cycle_exact, disturbed>>
    PROVE  BltInv'
<1>1. BltTyped'
  BY Zenon DEF BltInv, BltTyped
<1>2. CASE disturbed' = TRUE
  BY <1>1, <1>2, Zenon DEF BltInv, SlotsExact, LinePaced, LineDrawn, LineUndisturbed
<1>3. CASE UNCHANGED <<ram, cycle_exact, disturbed>>
  <2>1. SlotsExact'
    BY <1>3, Zenon DEF BltInv, SlotsExact
  <2>2. LinePaced'
    BY <1>3, Zenon DEF BltInv, LinePaced, LineUndisturbed, PixelSlots
  <2>3. LineDrawn'
    BY <1>3, Zenon DEF BltInv, LineDrawn, LineUndisturbed
  <2> QED
    BY <1>1, <2>1, <2>2, <2>3, Zenon DEF BltInv
<1> QED
  BY <1>2, <1>3

LEMMA SetRegsKeeps ==
    ASSUME BltInv, NEW r \in Regs, r.sizh \in 0..MaxWidth, r.sizv \in 0..MaxHeight, SetRegs(r)
    PROVE  BltInv'
<1>1. /\ regs' = r
      /\ UNCHANGED <<cmd, result, exec, busy, remaining, consumed, line, lineInit, phase, base>>
      /\ UNCHANGED <<ram, cycle_exact, disturbed>>
  BY Zenon DEF SetRegs
<1>2. bltOps' \in 0..MaxBltOps
  BY BlitterAssumption DEF SetRegs, Operation, BltInv, BltTyped
<1>3. ram' \in [ChipAddr -> Word] /\ cycle_exact' \in BOOLEAN
  BY <1>1, Zenon DEF BltInv, BltTyped
<1> QED
  BY <1>1, <1>2, <1>3, FrameKeeps, Zenon

-----------------------------------------------------------------------------
(* The actions.                                                            *)
SizedRegs == {r \in Regs : r.sizh \in 0..MaxWidth /\ r.sizv \in 0..MaxHeight}

LEMMA RegFields ==
    ASSUME NEW r \in Regs
    PROVE  /\ r.pt \in [Channel4 -> PtrValue] /\ r.dat \in [Sources -> Word]
           /\ r.ddat \in Word /\ r.bhold \in Word /\ r.bsh \in Bits
           /\ r.sizh \in Nat /\ r.sizv \in Nat
BY Zenon DEF Regs, PtrValue, Sources

(* Writing one register, or a few, leaves registers.                       *)
LEMMA RegsWritten ==
    ASSUME NEW r \in Regs
    PROVE  /\ \A h \in Nat : [r EXCEPT !.sizh = h] \in Regs
           /\ \A v \in Nat : [r EXCEPT !.sizv = v] \in Regs
           /\ \A p \in [Channel4 -> PtrValue] : [r EXCEPT !.pt = p] \in Regs
           /\ \A m \in SUBSET (0..7) : [r EXCEPT !.minterm = m] \in Regs
           /\ \A d \in [Sources -> Word], b \in Word :
                [r EXCEPT !.bhold = b, !.dat = d] \in Regs
           /\ \A d \in Word : [r EXCEPT !.ddat = d] \in Regs
<1>1. \A h \in Nat : [r EXCEPT !.sizh = h] \in Regs
  BY Zenon DEF Regs
<1>2. \A v \in Nat : [r EXCEPT !.sizv = v] \in Regs
  BY Zenon DEF Regs
<1>3. \A p \in [Channel4 -> PtrValue] : [r EXCEPT !.pt = p] \in Regs
  BY Zenon DEF Regs, PtrValue
<1>4. \A m \in SUBSET (0..7) : [r EXCEPT !.minterm = m] \in Regs
  BY Zenon DEF Regs
<1>5. \A d \in [Sources -> Word], b \in Word : [r EXCEPT !.bhold = b, !.dat = d] \in Regs
  BY Zenon DEF Regs, Sources
<1>6. \A d \in Word : [r EXCEPT !.ddat = d] \in Regs
  BY Zenon DEF Regs
<1> QED
  BY <1>1, <1>2, <1>3, <1>4, <1>5, <1>6, Zenon

LEMMA Widths ==
    ASSUME NEW s \in Sizes
    PROVE  Width(s[1]) \in 0..MaxWidth /\ Height(s[2]) \in 0..MaxHeight
<1>1. s \in (0..(MaxWidth - 1)) \X (0..(MaxHeight - 1))
  BY BlitterAssumption, Zenon
<1>2. s[1] \in 0..(MaxWidth - 1) /\ s[2] \in 0..(MaxHeight - 1)
  BY <1>1
<1>3. MaxWidth \in Nat /\ MaxHeight \in Nat
  BY BlitterAssumption
<1> QED
  BY <1>2, <1>3 DEF Width, Height

LEMMA OpCounted ==
    ASSUME BltInv, Operation
    PROVE  bltOps' \in 0..MaxBltOps
BY BlitterAssumption DEF Operation, BltInv, BltTyped

LEMMA BltStarts ==
    ASSUME BltInit
    PROVE  BltInv
<1>1. PICK c \in BlitCommand : c = build_command(blitter_init_regs) /\ c.width = 0 /\ c.height = 0
  BY RegsInit, CommandBuilt, Zenon
<1>2. line_state_init(c) \in LineState
  BY <1>1, LineStarts, Zenon
<1>3. 0 \in 0..MaxWidth /\ 0 \in 0..MaxHeight /\ 0 \in 0..MaxBltOps /\ 0 \in Nat /\ ~(0 > 0)
  BY BlitterAssumption
<1>4. 0 \in 0..(SlotSpace - 1)
  <2>1. MaxWidth * MaxHeight \in Nat
    BY BlitterAssumption
  <2> QED
    BY <2>1, BlitterAssumption
<1>5. Memory0 \in [ChipAddr -> Word]
  BY BlitterAssumption, Zenon
<1>6. BltTyped
  BY <1>1, <1>2, <1>3, <1>4, <1>5, RegsInit, Zenon DEF BltInit, BltTyped
<1>7. SlotsExact /\ LinePaced /\ LineDrawn
  BY <1>3, Zenon DEF BltInit, SlotsExact, LinePaced, LineDrawn, LineUndisturbed
<1> QED
  BY <1>6, <1>7, Zenon DEF BltInv

LEMMA WriteSizeKeeps ==
    ASSUME BltInv, NEW s \in Sizes,
           WriteSize(s[1], s[2]) \/ WriteSizeH(s[1]) \/ WriteSizeV(s[2])
    PROVE  BltInv'
<1>1. regs \in Regs /\ regs.sizh \in 0..MaxWidth /\ regs.sizv \in 0..MaxHeight
  BY Zenon DEF BltInv, BltTyped
<1>2. PICK w \in 0..MaxWidth : w = Width(s[1])
  BY Widths, Zenon
<1>3. PICK h \in 0..MaxHeight : h = Height(s[2])
  BY Widths, Zenon
<1>4. w \in Nat /\ h \in Nat
  BY <1>2, <1>3, BlitterAssumption
<1>5. PICK rh \in Regs : rh = [regs EXCEPT !.sizh = w]
  BY <1>1, <1>4, RegsWritten, Zenon
<1>6. PICK rv \in Regs : rv = [regs EXCEPT !.sizv = h]
  BY <1>1, <1>4, RegsWritten, Zenon
<1>7. PICK rb \in Regs : rb = [rh EXCEPT !.sizv = h]
  BY <1>4, <1>5, RegsWritten, Zenon
<1>8. /\ rh.sizh = w /\ rh.sizv = regs.sizv /\ rv.sizh = regs.sizh /\ rv.sizv = h
  BY <1>1, <1>5, <1>6, Zenon DEF Regs
<1>9. rb.sizh = w /\ rb.sizv = h
  BY <1>5, <1>7, <1>8, Zenon DEF Regs
<1>10. rb = [regs EXCEPT !.sizh = w, !.sizv = h]
  BY <1>1, <1>5, <1>7, Zenon DEF Regs
<1>11. CASE WriteSize(s[1], s[2])
  <2>1. Begin(rb) /\ Operation
    BY <1>2, <1>3, <1>10, <1>11, Zenon DEF WriteSize
  <2> QED
    BY <1>9, <2>1, OpCounted, BeginKeeps, Zenon
<1>12. CASE WriteSizeH(s[1])
  <2>1. Begin(rh) /\ Operation
    BY <1>2, <1>5, <1>12, Zenon DEF WriteSizeH
  <2> QED
    BY <1>1, <1>8, <2>1, OpCounted, BeginKeeps, Zenon
<1>13. CASE WriteSizeV(s[2])
  <2>1. SetRegs(rv)
    BY <1>3, <1>6, <1>13, Zenon DEF WriteSizeV
  <2> QED
    BY <1>1, <1>8, <2>1, SetRegsKeeps, Zenon
<1> QED
  BY <1>11, <1>12, <1>13, Zenon

LEMMA WriteImageKeeps ==
    ASSUME BltInv, NEW i \in Images, WriteImage(i)
    PROVE  BltInv'
<1>1. regs \in Regs /\ regs.sizh \in 0..MaxWidth /\ regs.sizv \in 0..MaxHeight
  BY Zenon DEF BltInv, BltTyped
<1>2. i \in Regs
  BY BlitterAssumption, Zenon
<1>3. regs.sizh \in Nat /\ regs.sizv \in Nat /\ regs.ddat \in Word
  BY <1>1, RegFields, Zenon
<1>4. PICK r1 \in Regs : r1 = [i EXCEPT !.sizh = regs.sizh]
  BY <1>2, <1>3, RegsWritten, Zenon
<1>5. PICK r2 \in Regs : r2 = [r1 EXCEPT !.sizv = regs.sizv]
  BY <1>3, <1>4, RegsWritten, Zenon
<1>6. PICK r3 \in Regs : r3 = [r2 EXCEPT !.ddat = regs.ddat]
  BY <1>3, <1>5, RegsWritten, Zenon
<1>7. r1.sizh = regs.sizh
  BY <1>2, <1>4, Zenon DEF Regs
<1>8. r2.sizh = regs.sizh /\ r2.sizv = regs.sizv
  BY <1>4, <1>5, <1>7, Zenon DEF Regs
<1>9. r3.sizh = regs.sizh /\ r3.sizv = regs.sizv
  BY <1>5, <1>6, <1>8, Zenon DEF Regs
<1>10. r3 = [i EXCEPT !.sizh = regs.sizh, !.sizv = regs.sizv, !.ddat = regs.ddat]
  BY <1>2, <1>4, <1>5, <1>6, Zenon DEF Regs
<1>11. SetRegs(r3)
  BY <1>10, Zenon DEF WriteImage
<1> QED
  BY <1>1, <1>9, <1>11, SetRegsKeeps, Zenon

LEMMA WritePtrKeeps ==
    ASSUME BltInv, NEW v \in PtrHalves, WritePtrHi(v) \/ WritePtrLo(v)
    PROVE  BltInv'
<1>1. regs \in Regs /\ regs.sizh \in 0..MaxWidth /\ regs.sizv \in 0..MaxHeight
  BY Zenon DEF BltInv, BltTyped
<1>2. regs.pt \in [Channel4 -> PtrValue] /\ "A" \in Channel4
  BY <1>1, RegFields DEF Channel4
<1>3. PICK p \in PtrValue : p = regs.pt["A"]
  BY <1>2, Zenon
<1>4. v \in Nat /\ PtrLow \in Nat \ {0} /\ PtrSpace % PtrLow = 0 /\ p \in Int
  BY <1>3, BlitterAssumption, ChipIsPtr
<1>5. PICK hi \in PtrValue : hi = Ptr(v * PtrLow + (p % PtrLow))
  <2>1. p % PtrLow \in Int
    BY <1>4
  <2>2. v * PtrLow \in Int
    BY <1>4
  <2>3. v * PtrLow + (p % PtrLow) \in Int
    BY <2>1, <2>2
  <2> QED
    BY <2>3, PtrIs, Zenon
<1>6. PICK lo \in PtrValue : lo = (p \div PtrLow) * PtrLow + ((v - (v % 2)) % PtrLow)
  <2>1. PICK w \in 0..(PtrLow - 1) : w = (v - (v % 2)) % PtrLow
    BY <1>4
  <2>2. (p \div PtrLow) * PtrLow + w \in PtrValue
    BY <1>3, <1>4, <2>1, LowHalf, Zenon
  <2> QED
    BY <2>1, <2>2, Zenon
<1>7. ASSUME NEW x \in PtrValue, SetRegs([regs EXCEPT !.pt["A"] = x])
      PROVE  BltInv'
  <2>1. PICK pt \in [Channel4 -> PtrValue] : pt = [regs.pt EXCEPT !["A"] = x]
    BY <1>2, Zenon
  <2>2. PICK r \in Regs : r = [regs EXCEPT !.pt = pt]
    BY <1>1, <2>1, RegsWritten, Zenon
  <2>3. r.sizh = regs.sizh /\ r.sizv = regs.sizv
    BY <1>1, <2>2, Zenon DEF Regs
  <2>4. SetRegs(r)
    BY <1>7, <2>1, <2>2, Zenon
  <2> QED
    BY <1>1, <2>3, <2>4, SetRegsKeeps, Zenon
<1>8. CASE WritePtrHi(v)
  <2>1. SetRegs([regs EXCEPT !.pt["A"] = hi])
    BY <1>3, <1>5, <1>8, Zenon DEF WritePtrHi
  <2> QED
    BY <1>7, <2>1
<1>9. CASE WritePtrLo(v)
  <2>1. SetRegs([regs EXCEPT !.pt["A"] = lo])
    BY <1>3, <1>6, <1>9, Zenon DEF WritePtrLo
  <2> QED
    BY <1>7, <2>1
<1> QED
  BY <1>8, <1>9, Zenon

LEMMA WriteDataKeeps ==
    ASSUME BltInv, NEW v \in {{}, {0}}, WriteCon0L(v) \/ WriteBdat(v)
    PROVE  BltInv'
<1>1. regs \in Regs /\ regs.sizh \in 0..MaxWidth /\ regs.sizv \in 0..MaxHeight
  BY Zenon DEF BltInv, BltTyped
<1>2. v \in SUBSET (0..7) /\ v \in Word
  <2>1. 0 \in 0..7 /\ 0 \in Bits
    BY BlitterOpsAssumption DEF Bits
  <2> QED
    BY <2>1, Zenon DEF Word
<1>3. CASE WriteCon0L(v)
  <2>1. PICK r \in Regs : r = [regs EXCEPT !.minterm = v]
    BY <1>1, <1>2, RegsWritten, Zenon
  <2>2. r.sizh = regs.sizh /\ r.sizv = regs.sizv
    BY <1>1, <2>1, Zenon DEF Regs
  <2>3. SetRegs(r)
    BY <1>3, <2>1, Zenon DEF WriteCon0L
  <2> QED
    BY <1>1, <2>2, <2>3, SetRegsKeeps, Zenon
<1>4. CASE WriteBdat(v)
  <2>1. regs.dat \in [Sources -> Word] /\ regs.bsh \in Bits /\ "B" \in Sources
    BY <1>1, RegFields DEF Sources
  <2>2. regs.dat["B"] \in Word
    BY <2>1, Zenon
  <2>3. PICK b \in Word : b = make_b_hold(regs, v)
    BY <1>2, <2>1, <2>2, ShiftIsWord, Zenon DEF make_b_hold
  <2>4. PICK d \in [Sources -> Word] : d = [regs.dat EXCEPT !["B"] = v]
    BY <1>2, <2>1, Zenon
  <2>5. PICK r \in Regs : r = [regs EXCEPT !.bhold = b, !.dat = d]
    BY <1>1, <2>3, <2>4, RegsWritten, Zenon
  <2>6. r.sizh = regs.sizh /\ r.sizv = regs.sizv
    BY <1>1, <2>5, Zenon DEF Regs
  <2>7. r = [regs EXCEPT !.bhold = b, !.dat["B"] = v]
    BY <1>1, <2>4, <2>5, Zenon DEF Regs
  <2>8. SetRegs(r)
    BY <1>4, <2>3, <2>7, Zenon DEF WriteBdat
  <2> QED
    BY <1>1, <2>6, <2>8, SetRegsKeeps, Zenon
<1> QED
  BY <1>3, <1>4, Zenon

(* What the processor and the host do besides.                             *)
LEMMA OtherKeeps ==
    ASSUME BltInv,
           \/ AckBlit
           \/ \E p \in Pokes : CpuPoke(p)
           \/ \E b \in BOOLEAN : SetBlten(b) \/ SetCycleExact(b)
    PROVE  BltInv'
<1>1. /\ regs \in Regs /\ regs.sizh \in 0..MaxWidth /\ regs.sizv \in 0..MaxHeight
      /\ ram \in [ChipAddr -> Word] /\ cycle_exact \in BOOLEAN /\ bltOps \in 0..MaxBltOps
  BY Zenon DEF BltInv, BltTyped
<1>2. CASE AckBlit
  BY <1>1, <1>2, FrameKeeps, Zenon DEF AckBlit, bltRegs
<1>3. ASSUME NEW p \in Pokes, CpuPoke(p) PROVE BltInv'
  <2>1. p \in ChipAddr \X Word
    BY BlitterAssumption, Zenon
  <2>2. p[1] \in ChipAddr /\ p[2] \in Word
    BY <2>1
  <2>3. ram' \in [ChipAddr -> Word]
    BY <1>1, <1>3, <2>2, Zenon DEF CpuPoke
  <2>4. /\ regs' = regs /\ cycle_exact' = cycle_exact /\ disturbed' = TRUE /\ Operation
        /\ UNCHANGED <<cmd, result, exec, busy, remaining, consumed, line, lineInit, phase, base>>
    BY <1>3, Zenon DEF CpuPoke, bltRegs
  <2> QED
    BY <1>1, <2>3, <2>4, OpCounted, FrameKeeps, Zenon
<1>4. ASSUME NEW b \in BOOLEAN, SetBlten(b) PROVE BltInv'
  <2>1. /\ regs' = regs /\ UNCHANGED <<ram, cycle_exact, disturbed>> /\ Operation
        /\ UNCHANGED <<cmd, result, exec, busy, remaining, consumed, line, lineInit, phase, base>>
    BY <1>4, Zenon DEF SetBlten, bltRegs
  <2>2. ram' \in [ChipAddr -> Word] /\ cycle_exact' \in BOOLEAN
    BY <1>1, <2>1, Zenon
  <2> QED
    BY <1>1, <2>1, <2>2, OpCounted, FrameKeeps, Zenon
<1>5. ASSUME NEW b \in BOOLEAN, SetCycleExact(b) PROVE BltInv'
  <2>1. /\ regs' = regs /\ ram' = ram /\ cycle_exact' \in BOOLEAN /\ disturbed' = TRUE /\ Operation
        /\ UNCHANGED <<cmd, result, exec, busy, remaining, consumed, line, lineInit, phase, base>>
    BY <1>5, Zenon DEF SetCycleExact, bltRegs
  <2> QED
    BY <1>1, <2>1, OpCounted, FrameKeeps, Zenon
<1> QED
  BY <1>2, <1>3, <1>4, <1>5, Zenon

LEMMA BltResetKeeps ==
    ASSUME BltInv, ResetBlitter
    PROVE  BltInv'
<1>1. PICK c \in BlitCommand : c = build_command(blitter_init_regs) /\ c.width = 0 /\ c.height = 0
  BY RegsInit, CommandBuilt, Zenon
<1>2. line_state_init(c) \in LineState
  BY <1>1, LineStarts, Zenon
<1>3. 0 \in 0..MaxWidth /\ 0 \in 0..MaxHeight /\ 0 \in Nat /\ ~(0 > 0)
  BY BlitterAssumption
<1>4. 0 \in 0..(SlotSpace - 1)
  <2>1. MaxWidth * MaxHeight \in Nat
    BY BlitterAssumption
  <2> QED
    BY <2>1, BlitterAssumption
<1>5. /\ ram \in [ChipAddr -> Word] /\ base \in [ChipAddr -> Word]
      /\ cycle_exact \in BOOLEAN /\ disturbed \in BOOLEAN
  BY Zenon DEF BltInv, BltTyped
<1>6. bltOps' \in 0..MaxBltOps
  BY OpCounted, Zenon DEF ResetBlitter
<1>7. BltTyped'
  BY <1>1, <1>2, <1>3, <1>4, <1>5, <1>6, RegsInit, Zenon DEF ResetBlitter, BltTyped
<1>8. SlotsExact' /\ LinePaced' /\ LineDrawn'
  BY <1>3, Zenon DEF ResetBlitter, SlotsExact, LinePaced, LineDrawn, LineUndisturbed
<1> QED
  BY <1>7, <1>8, Zenon DEF BltInv

LEMMA Published ==
    ASSUME NEW r \in Regs, NEW res \in Result
    PROVE  /\ publish(r, res) \in Regs
           /\ publish(r, res).sizh = r.sizh /\ publish(r, res).sizv = r.sizv
<1>1. /\ res.pt \in [Channel4 -> PtrValue] /\ res.dat \in [Sources -> Word]
      /\ res.ddat \in Word /\ res.bhold \in Word
  BY Zenon DEF Result, PtrValue, Sources
<1>2. PICK r1 \in Regs : r1 = [r EXCEPT !.pt = res.pt]
  BY <1>1, RegsWritten, Zenon
<1>3. PICK r2 \in Regs : r2 = [r1 EXCEPT !.bhold = res.bhold, !.dat = res.dat]
  BY <1>1, RegsWritten, Zenon
<1>4. PICK r3 \in Regs : r3 = [r2 EXCEPT !.ddat = res.ddat]
  BY <1>1, RegsWritten, Zenon
<1>5. publish(r, res) = r3
  BY <1>2, <1>3, <1>4, Zenon DEF publish, Regs
<1>6. r1.sizh = r.sizh /\ r1.sizv = r.sizv
  BY <1>2, Zenon DEF Regs
<1>7. r2.sizh = r1.sizh /\ r2.sizv = r1.sizv
  BY <1>3, Zenon DEF Regs
<1>8. r3.sizh = r2.sizh /\ r3.sizv = r2.sizv
  BY <1>4, Zenon DEF Regs
<1> QED
  BY <1>5, <1>6, <1>7, <1>8, Zenon

(* The slot counter after a slot.                                          *)
LEMMA SlotCounted ==
    ASSUME BltInv, consumed' = (consumed + 1) % SlotSpace
    PROVE  /\ consumed' \in 0..(SlotSpace - 1)
           /\ \A n \in 1..(SlotSpace - 1) : consumed + 1 <= n => consumed' = consumed + 1
<1>1. consumed \in 0..(SlotSpace - 1) /\ SlotSpace \in Nat
  BY BlitterAssumption DEF BltInv, BltTyped
<1> QED
  BY <1>1

LEMMA GrantCopyKeeps ==
    ASSUME BltInv, busy, GrantCopy,
           UNCHANGED <<cmd, cycle_exact, base, disturbed, bltOps>>
    PROVE  BltInv'
<1>1. /\ regs \in Regs /\ regs.sizh \in 0..MaxWidth /\ regs.sizv \in 0..MaxHeight
      /\ cmd \in BlitCommand /\ cmd.width \in 0..MaxWidth /\ cmd.height \in 0..MaxHeight
      /\ result \in Result /\ remaining \in Nat /\ consumed \in 0..(SlotSpace - 1)
      /\ ram \in [ChipAddr -> Word] /\ cycle_exact \in BOOLEAN
  BY Zenon DEF BltInv, BltTyped
<1>2. /\ ~line_mode(cmd) /\ consumed' = (consumed + 1) % SlotSpace
      /\ UNCHANGED <<line, lineInit, phase>>
      /\ \/ remaining > 1 /\ remaining' = remaining - 1 /\ exec' = "running"
            /\ UNCHANGED <<regs, busy, blitreq>>
         \/ ~(remaining > 1) /\ Finish(result')
  BY Zenon DEF GrantCopy
<1>3. result' \in Result /\ ram' \in [ChipAddr -> Word]
  <2>1. CASE exec = "pending"
    <3>1. \E out \in {execute_copy_mode(cmd, ram)} : result' = out.result /\ ram' = out.mem
      BY <2>1, Zenon DEF GrantCopy
    <3> QED
      BY <1>1, <3>1, CopyTyped, Zenon
  <2>2. CASE exec # "pending"
    BY <1>1, <2>2, Zenon DEF GrantCopy
  <2> QED
    BY <2>1, <2>2, Zenon
<1>4. consumed' \in 0..(SlotSpace - 1)
  BY <1>2, SlotCounted, Zenon
<1>5. 0 \in Nat /\ (remaining > 1 => remaining - 1 \in Nat)
  BY <1>1
<1>6. /\ remaining' \in Nat /\ exec' \in {"idle", "pending", "running"} /\ busy' \in BOOLEAN
      /\ busy' <=> exec' # "idle"
      /\ regs' \in Regs /\ regs'.sizh \in 0..MaxWidth /\ regs'.sizv \in 0..MaxHeight
  <2>1. CASE remaining > 1
    <3>1. remaining' = remaining - 1 /\ exec' = "running" /\ UNCHANGED <<regs, busy>>
      BY <1>2, <2>1, Zenon
    <3>2. "running" # "idle" /\ "running" \in {"idle", "pending", "running"}
      OBVIOUS
    <3> QED
      BY <1>1, <1>5, <2>1, <3>1, <3>2, Zenon
  <2>2. CASE ~(remaining > 1)
    <3>1. regs' = publish(regs, result') /\ busy' = FALSE /\ exec' = "idle" /\ remaining' = 0
      BY <1>2, <2>2, Zenon DEF Finish
    <3> QED
      BY <1>1, <1>3, <1>5, <3>1, Published, Zenon
  <2> QED
    BY <2>1, <2>2, Zenon
<1>7. BltTyped'
  BY <1>2, <1>3, <1>4, <1>6, Zenon DEF BltTyped, BltInv
<1>8. SlotsExact'
  <2> SUFFICES ASSUME ~disturbed
               PROVE  /\ busy' => /\ remaining' > 0
                                  /\ consumed' + remaining' = estimate_cycles(cmd, cycle_exact)
                      /\ ~busy' /\ consumed' > 0 => consumed' = estimate_cycles(cmd, cycle_exact)
    BY Zenon DEF SlotsExact
  <2>1. remaining > 0 /\ consumed + remaining = estimate_cycles(cmd, cycle_exact)
    BY <1>2, Zenon DEF BltInv, SlotsExact
  <2>2. PICK e \in 1..(SlotSpace - 1) : e = estimate_cycles(cmd, cycle_exact)
    BY <1>1, EstimateIs, Zenon
  <2>3. consumed + 1 <= e
    BY <1>1, <2>1, <2>2
  <2>4. consumed' = consumed + 1
    BY <1>2, <2>3, SlotCounted, Zenon
  <2>5. CASE remaining > 1
    <3>1. remaining' = remaining - 1 /\ busy'
      BY <1>2, <2>5, Zenon
    <3> QED
      BY <1>1, <2>1, <2>2, <2>4, <2>5, <3>1
  <2>6. CASE ~(remaining > 1)
    <3>1. ~busy'
      BY <1>2, <2>6, Zenon DEF Finish
    <3> QED
      BY <1>1, <2>1, <2>2, <2>4, <2>6, <3>1
  <2> QED
    BY <2>5, <2>6, Zenon
<1>9. LinePaced' /\ LineDrawn'
  BY <1>2, Zenon DEF LinePaced, LineDrawn, LineUndisturbed
<1> QED
  BY <1>7, <1>8, <1>9, Zenon DEF BltInv

LEMMA GrantLineReadKeeps ==
    ASSUME BltInv, busy, GrantLineRead,
           UNCHANGED <<cmd, cycle_exact, base, disturbed, bltOps>>
    PROVE  BltInv'
<1>1. /\ cmd \in BlitCommand /\ cmd.width \in 0..MaxWidth /\ cmd.height \in 0..MaxHeight
      /\ remaining \in Nat /\ consumed \in 0..(SlotSpace - 1)
      /\ cycle_exact \in BOOLEAN /\ line \in LineState
  BY Zenon DEF BltInv, BltTyped
<1>2. /\ line_mode(cmd) /\ cycle_exact /\ phase = 0 /\ phase' = 1
      /\ consumed' = (consumed + 1) % SlotSpace /\ remaining' = less(remaining)
      /\ UNCHANGED <<regs, result, exec, busy, line, lineInit, blitreq, ram>>
  BY Zenon DEF GrantLineRead, DeferPixel
<1>3. remaining' \in Nat
  BY <1>1, <1>2 DEF less
<1>4. consumed' \in 0..(SlotSpace - 1) /\ phase' \in {0, 1}
  BY <1>2, SlotCounted, Zenon
<1>5. BltTyped'
  BY <1>2, <1>3, <1>4, Zenon DEF BltTyped, BltInv
<1>6. ASSUME ~disturbed, cmd.height > 0
      PROVE  /\ consumed' = 2 * line.step_index + 1
             /\ remaining' > 0 /\ consumed' + remaining' = estimate_cycles(cmd, cycle_exact)
             /\ line.step_index < cmd.height
  <2>1. /\ line.step_index < cmd.height /\ consumed = 2 * line.step_index + phase
    BY <1>2, <1>6, Zenon DEF BltInv, LinePaced, LineUndisturbed, PixelSlots
  <2>2. ~(cmd.height = 0)
    BY <1>1, <1>6
  <2>3. remaining > 0 /\ consumed + remaining = estimate_cycles(cmd, cycle_exact)
    BY <1>6, <2>2, Zenon DEF BltInv, SlotsExact
  <2>4. PICK k \in Nat : k = line.step_index
    BY <1>1, LineFields, Zenon
  <2>5. PICK h \in Nat : h = cmd.height
    BY <1>1, CmdFields, Zenon
  <2>6. PICK e \in 1..(SlotSpace - 1) : e = estimate_cycles(cmd, cycle_exact)
    BY <1>1, EstimateIs, Zenon
  <2>7. e = h * 2
    <3>1. estimate_cycles(cmd, cycle_exact) = cmd.height * (IF cycle_exact THEN 2 ELSE 1)
      BY <1>1, <1>2, <1>6, EstimateIs, Zenon
    <3> QED
      BY <1>2, <2>5, <2>6, <3>1, Zenon
  <2>8. consumed = 2 * k /\ k < h /\ consumed + remaining = e
    <3>1. consumed = 2 * k + 0 /\ k < h /\ consumed + remaining = e
      BY <1>2, <2>1, <2>3, <2>4, <2>5, <2>6, Zenon
    <3> QED
      BY <2>4, <3>1
  <2>9. consumed + 1 <= e
    BY <1>1, <2>7, <2>8
  <2>10. consumed' = consumed + 1
    BY <1>2, <2>9, SlotCounted, Zenon
  <2>11. remaining' = remaining - 1
    BY <1>1, <1>2, <2>3 DEF less
  <2>12. consumed' = 2 * k + 1 /\ remaining' > 0 /\ consumed' + remaining' = e
    BY <1>1, <2>7, <2>8, <2>10, <2>11
  <2> QED
    BY <2>1, <2>4, <2>6, <2>12, Zenon
<1>7. cmd.height = 0 \/ cmd.height > 0
  BY <1>1
<1>8. SlotsExact'
  BY <1>2, <1>6, <1>7, Zenon DEF SlotsExact
<1>9. LinePaced'
  BY <1>2, <1>6, Zenon DEF LinePaced, LineUndisturbed, PixelSlots
<1>10. LineDrawn'
  BY <1>2, Zenon DEF LineDrawn, LineUndisturbed, BltInv
<1> QED
  BY <1>5, <1>8, <1>9, <1>10, Zenon DEF BltInv

(* What the slot that draws a pixel does, as plain facts.                  *)
LEMMA DrawFacts ==
    ASSUME BltInv, busy, GrantLineDraw
    PROVE  \E s \in LineState :
             /\ line_mode(cmd) /\ ~DeferPixel /\ phase' = 0 /\ lineInit' = TRUE
             /\ consumed' = (consumed + 1) % SlotSpace /\ line' = s
             /\ result' \in Result /\ ram' \in [ChipAddr -> Word]
             /\ line.step_index < cmd.height =>
                  /\ s = line_pixel(cmd, line, ram) /\ ram' = line_mem(cmd, line, ram)
                  /\ result' = line_result(cmd, s) /\ s.step_index = line.step_index + 1
             /\ ~(line.step_index < cmd.height) => s = line
             /\ s.step_index >= cmd.height => Finish(result')
             /\ ~(s.step_index >= cmd.height) =>
                  remaining' = less(remaining) /\ UNCHANGED <<regs, exec, busy, blitreq>>
<1>1. /\ cmd \in BlitCommand /\ line \in LineState /\ ram \in [ChipAddr -> Word]
      /\ result \in Result
  BY Zenon DEF BltInv, BltTyped
<1>2. PICK s : /\ s = IF line.step_index < cmd.height THEN line_pixel(cmd, line, ram) ELSE line
               /\ line_mode(cmd) /\ ~DeferPixel
               /\ phase' = 0 /\ lineInit' = TRUE
               /\ consumed' = (consumed + 1) % SlotSpace
               /\ line' = s
               /\ ram' = IF line.step_index < cmd.height THEN line_mem(cmd, line, ram) ELSE ram
               /\ result' = IF line.step_index < cmd.height THEN line_result(cmd, s) ELSE result
               /\ IF s.step_index >= cmd.height THEN Finish(result')
                  ELSE /\ remaining' = less(remaining)
                       /\ UNCHANGED <<regs, exec, busy, blitreq>>
  BY Zenon DEF GrantLineDraw
<1>3. s \in LineState /\ ram' \in [ChipAddr -> Word]
  BY <1>1, <1>2, PixelTyped, Zenon
<1>4. result' \in Result
  BY <1>1, <1>2, <1>3, LineResultTyped, Zenon
<1>5. line.step_index < cmd.height => s.step_index = line.step_index + 1
  BY <1>1, <1>2, PixelTyped, Zenon
<1> QED
  BY <1>2, <1>3, <1>4, <1>5, Zenon

LEMMA GrantLineDrawKeeps ==
    ASSUME BltInv, busy, GrantLineDraw,
           UNCHANGED <<cmd, cycle_exact, base, disturbed, bltOps>>
    PROVE  /\ BltInv'
           /\ LineUndisturbed /\ ~busy' =>
                /\ line'.step_index = cmd.height
                /\ [s |-> line', mem |-> ram'] = LineAt(cmd, base)[cmd.height]
                /\ regs' = publish(regs, line_result(cmd, line'))
<1>1. /\ cmd \in BlitCommand /\ cmd.width \in 0..MaxWidth /\ cmd.height \in 0..MaxHeight
      /\ remaining \in Nat /\ consumed \in 0..(SlotSpace - 1)
      /\ cycle_exact \in BOOLEAN /\ line \in LineState
      /\ regs \in Regs /\ regs.sizh \in 0..MaxWidth /\ regs.sizv \in 0..MaxHeight
      /\ ram \in [ChipAddr -> Word] /\ base \in [ChipAddr -> Word]
  BY Zenon DEF BltInv, BltTyped
<1>2. PICK s \in LineState :
             /\ line_mode(cmd) /\ ~DeferPixel /\ phase' = 0 /\ lineInit' = TRUE
             /\ consumed' = (consumed + 1) % SlotSpace /\ line' = s
             /\ result' \in Result /\ ram' \in [ChipAddr -> Word]
             /\ line.step_index < cmd.height =>
                  /\ s = line_pixel(cmd, line, ram) /\ ram' = line_mem(cmd, line, ram)
                  /\ result' = line_result(cmd, s) /\ s.step_index = line.step_index + 1
             /\ ~(line.step_index < cmd.height) => s = line
             /\ s.step_index >= cmd.height => Finish(result')
             /\ ~(s.step_index >= cmd.height) =>
                  remaining' = less(remaining) /\ UNCHANGED <<regs, exec, busy, blitreq>>
  BY DrawFacts
<1>3. consumed' \in 0..(SlotSpace - 1) /\ phase' \in {0, 1}
  BY <1>2, SlotCounted, Zenon
<1>4. /\ remaining' \in Nat /\ exec' \in {"idle", "pending", "running"} /\ busy' \in BOOLEAN
      /\ busy' <=> exec' # "idle"
      /\ regs' \in Regs /\ regs'.sizh \in 0..MaxWidth /\ regs'.sizv \in 0..MaxHeight
      /\ busy' <=> ~(s.step_index >= cmd.height)
  <2>1. CASE s.step_index >= cmd.height
    <3>1. regs' = publish(regs, result') /\ busy' = FALSE /\ exec' = "idle" /\ remaining' = 0
      BY <1>2, <2>1, Zenon DEF Finish
    <3>2. remaining' \in Nat
      BY <3>1
    <3> QED
      BY <1>1, <1>2, <2>1, <3>1, <3>2, Published, Zenon
  <2>2. CASE ~(s.step_index >= cmd.height)
    <3>1. remaining' = less(remaining) /\ UNCHANGED <<regs, exec, busy>>
      BY <1>2, <2>2, Zenon
    <3>2. remaining' \in Nat
      BY <1>1, <3>1 DEF less
    <3>3. exec \in {"idle", "pending", "running"} /\ busy /\ (busy <=> exec # "idle")
      BY Zenon DEF BltInv, BltTyped
    <3> QED
      BY <1>1, <2>2, <3>1, <3>2, <3>3, Zenon
  <2> QED
    BY <2>1, <2>2, Zenon
<1>5. BltTyped'
  BY <1>2, <1>3, <1>4, Zenon DEF BltTyped, BltInv
<1>6. PICK h \in Nat : h = cmd.height
  BY <1>1, CmdFields, Zenon
<1>7. PICK k \in Nat : k = line.step_index
  BY <1>1, LineFields, Zenon
<1>8. PICK e \in 1..(SlotSpace - 1) : e = estimate_cycles(cmd, cycle_exact)
  BY <1>1, EstimateIs, Zenon
<1>9. ASSUME ~disturbed, cmd.height > 0
      PROVE  /\ k < h /\ s.step_index = k + 1
             /\ [s |-> s, mem |-> ram'] = LineAt(cmd, base)[k + 1]
             /\ result' = line_result(cmd, s)
             /\ consumed' = consumed + 1 /\ consumed + remaining = e
             /\ consumed' = IF cycle_exact THEN 2 * (k + 1) ELSE k + 1
             /\ e = IF cycle_exact THEN 2 * h ELSE h
             /\ remaining > 0
  <2>1. /\ line.step_index < cmd.height /\ consumed = PixelSlots /\ (~cycle_exact => phase = 0)
        /\ [s |-> line, mem |-> ram] = LineAt(cmd, base)[line.step_index]
    BY <1>2, <1>9, Zenon DEF BltInv, LinePaced, LineDrawn, LineUndisturbed
  <2>2. k < h
    BY <1>6, <1>7, <2>1, Zenon
  <2>3. s = line_pixel(cmd, line, ram) /\ ram' = line_mem(cmd, line, ram)
        /\ result' = line_result(cmd, s) /\ s.step_index = k + 1
    BY <1>2, <1>7, <2>1, Zenon
  <2>4. [s |-> s, mem |-> ram'] = LineAt(cmd, base)[k + 1]
    <3>1. PICK v : v = LineAt(cmd, base)[k] /\ v = [s |-> line, mem |-> ram]
      BY <1>7, <2>1, Zenon
    <3>2. v.s = line /\ v.mem = ram
      BY <3>1
    <3>3. k + 1 \in 1..h /\ (k + 1) - 1 = k
      BY <1>6, <1>7, <2>2
    <3>4. PICK i : i = k + 1
      OBVIOUS
    <3>5. i \in 1..cmd.height /\ i - 1 = k
      BY <1>6, <3>3, <3>4, Zenon
    <3>6. LineAt(cmd, base)[i] =
            [s |-> line_pixel(cmd, LineAt(cmd, base)[i - 1].s, LineAt(cmd, base)[i - 1].mem),
             mem |-> line_mem(cmd, LineAt(cmd, base)[i - 1].s, LineAt(cmd, base)[i - 1].mem)]
      BY <1>1, <3>5, LineIs, Zenon
    <3> QED
      BY <2>3, <3>1, <3>2, <3>4, <3>5, <3>6, Zenon
  <2>5. ~(cmd.height = 0)
    BY <1>1, <1>9
  <2>6. remaining > 0 /\ consumed + remaining = e
    BY <1>8, <1>9, <2>5, Zenon DEF BltInv, SlotsExact
  <2>7. consumed + 1 <= e
    BY <1>1, <1>8, <2>6
  <2>8. consumed' = consumed + 1
    BY <1>2, <1>8, <2>7, SlotCounted, Zenon
  <2>9. e = h * (IF cycle_exact THEN 2 ELSE 1)
    BY <1>1, <1>2, <1>6, <1>8, <1>9, EstimateIs, Zenon
  <2>10. e = IF cycle_exact THEN 2 * h ELSE h
    <3>1. CASE cycle_exact
      <4>1. e = h * 2
        BY <2>9, <3>1, Zenon
      <4> QED
        BY <1>6, <3>1, <4>1
    <3>2. CASE ~cycle_exact
      <4>1. e = h * 1
        BY <2>9, <3>2, Zenon
      <4> QED
        BY <1>6, <3>2, <4>1
    <3> QED
      BY <3>1, <3>2, Zenon
  <2>11. consumed' = IF cycle_exact THEN 2 * (k + 1) ELSE k + 1
    <3>1. CASE cycle_exact
      <4>1. phase = 1
        BY <1>2, <3>1, Zenon DEF DeferPixel, BltInv, BltTyped
      <4>2. consumed = 2 * k + 1
        BY <1>7, <2>1, <3>1, <4>1, Zenon DEF PixelSlots
      <4> QED
        BY <1>7, <2>8, <3>1, <4>2
    <3>2. CASE ~cycle_exact
      <4>1. consumed = k
        BY <1>7, <2>1, <3>2, Zenon DEF PixelSlots
      <4> QED
        BY <2>8, <3>2, <4>1, Zenon
    <3> QED
      BY <3>1, <3>2, Zenon
  <2> QED
    BY <2>2, <2>3, <2>4, <2>6, <2>8, <2>10, <2>11, Zenon
<1>10. ASSUME ~disturbed, cmd.height > 0
       PROVE  /\ busy' => /\ remaining' > 0
                          /\ consumed' + remaining' = estimate_cycles(cmd, cycle_exact)
              /\ ~busy' /\ consumed' > 0 => consumed' = estimate_cycles(cmd, cycle_exact)
  <2>1. busy' <=> ~(k + 1 >= h)
    BY <1>4, <1>6, <1>9, <1>10, Zenon
  <2>2. /\ k < h /\ consumed' = consumed + 1 /\ consumed + remaining = e
        /\ consumed' = IF cycle_exact THEN 2 * (k + 1) ELSE k + 1
        /\ e = IF cycle_exact THEN 2 * h ELSE h
        /\ remaining > 0
    BY <1>9, <1>10, Zenon
  <2>3. CASE busy'
    <3>1. remaining' = less(remaining)
      BY <1>2, <1>4, <2>3, Zenon
    <3>2. remaining' = remaining - 1
      BY <1>1, <2>2, <3>1 DEF less
    <3>3. consumed' + remaining' = e
      BY <1>1, <1>8, <2>2, <3>2
    <3>4. k + 1 < h
      BY <1>6, <1>7, <2>1, <2>3
    <3>5. remaining' > 0
      <4>1. CASE cycle_exact
        <5>1. consumed' = 2 * (k + 1) /\ e = 2 * h
          BY <2>2, <4>1, Zenon
        <5> QED
          BY <1>1, <1>6, <1>7, <3>2, <3>3, <3>4, <5>1
      <4>2. CASE ~cycle_exact
        <5>1. consumed' = k + 1 /\ e = h
          BY <2>2, <4>2, Zenon
        <5> QED
          BY <1>1, <1>6, <1>7, <3>2, <3>3, <3>4, <5>1
      <4> QED
        BY <4>1, <4>2, Zenon
    <3> QED
      BY <1>8, <2>3, <3>3, <3>5, Zenon
  <2>4. CASE ~busy'
    <3>1. k + 1 = h
      BY <1>6, <1>7, <2>1, <2>2, <2>4
    <3>2. consumed' = e
      BY <2>2, <3>1, Zenon
    <3> QED
      BY <1>8, <2>4, <3>2, Zenon
  <2> QED
    BY <2>3, <2>4, Zenon
<1>11. cmd.height = 0 \/ cmd.height > 0
  BY <1>1
<1>12. SlotsExact'
  BY <1>2, <1>10, <1>11, Zenon DEF SlotsExact
<1>13. LinePaced'
  <2> SUFFICES ASSUME busy', ~disturbed, cmd.height > 0
               PROVE  s.step_index < cmd.height /\ consumed' = PixelSlots'
    BY <1>2, Zenon DEF LinePaced, LineUndisturbed
  <2>1. s.step_index = k + 1 /\ (consumed' = IF cycle_exact THEN 2 * (k + 1) ELSE k + 1)
    BY <1>9, Zenon
  <2>2. k + 1 < h
    <3>1. ~(k + 1 >= h)
      BY <1>4, <1>6, <2>1, Zenon
    <3> QED
      BY <1>6, <1>7, <3>1
  <2>3. consumed' = PixelSlots'
    <3>1. PixelSlots' = IF cycle_exact THEN 2 * (k + 1) + 0 ELSE k + 1
      BY <1>2, <2>1, Zenon DEF PixelSlots
    <3>2. 2 * (k + 1) + 0 = 2 * (k + 1)
      BY <1>7
    <3> QED
      BY <2>1, <3>1, <3>2, Zenon
  <2> QED
    BY <1>6, <2>1, <2>2, <2>3, Zenon
<1>14. LineDrawn'
  <2> SUFFICES ASSUME busy', ~disturbed, cmd.height > 0
               PROVE  [s |-> s, mem |-> ram'] = LineAt(cmd, base)[s.step_index]
    BY <1>2, Zenon DEF LineDrawn, LineUndisturbed
  <2> QED
    BY <1>9, Zenon
<1>15. BltInv'
  BY <1>5, <1>12, <1>13, <1>14, Zenon DEF BltInv
<1>16. ASSUME LineUndisturbed, ~busy'
       PROVE  /\ line'.step_index = cmd.height
              /\ [s |-> line', mem |-> ram'] = LineAt(cmd, base)[cmd.height]
              /\ regs' = publish(regs, line_result(cmd, line'))
  <2>1. ~disturbed /\ cmd.height > 0
    BY <1>16, Zenon DEF LineUndisturbed
  <2>2. /\ k < h /\ s.step_index = k + 1 /\ [s |-> s, mem |-> ram'] = LineAt(cmd, base)[k + 1]
        /\ result' = line_result(cmd, s)
    BY <1>9, <2>1, Zenon
  <2>3. s.step_index >= cmd.height
    BY <1>4, <1>16, Zenon
  <2>4. k + 1 = h
    BY <1>6, <1>7, <2>2, <2>3
  <2>5. regs' = publish(regs, result')
    BY <1>2, <2>3, Zenon DEF Finish
  <2> QED
    BY <1>2, <1>6, <2>2, <2>4, <2>5, Zenon
<1> QED
  BY <1>15, <1>16, Zenon

LEMMA BltStepKeeps ==
    ASSUME BltInv, [BltNext]_bltVars
    PROVE  BltInv'
<1>1. CASE Grant
  <2>1. /\ busy /\ UNCHANGED <<cmd, cycle_exact, base, disturbed, bltOps>>
        /\ GrantCopy \/ GrantLineRead \/ GrantLineDraw
    BY <1>1, Zenon DEF Grant
  <2> QED
    BY <2>1, GrantCopyKeeps, GrantLineReadKeeps, GrantLineDrawKeeps, Zenon
<1>2. CASE ResetBlitter
  BY <1>2, BltResetKeeps
<1>3. CASE \E i \in Images : WriteImage(i)
  BY <1>3, WriteImageKeeps, Zenon
<1>4. CASE \E s \in Sizes : WriteSize(s[1], s[2]) \/ WriteSizeH(s[1]) \/ WriteSizeV(s[2])
  BY <1>4, WriteSizeKeeps, Zenon
<1>5. CASE \E v \in PtrHalves : WritePtrHi(v) \/ WritePtrLo(v)
  BY <1>5, WritePtrKeeps, Zenon
<1>6. CASE \E v \in {{}, {0}} : WriteCon0L(v) \/ WriteBdat(v)
  BY <1>6, WriteDataKeeps, Zenon
<1>7. CASE AckBlit \/ (\E p \in Pokes : CpuPoke(p))
           \/ (\E b \in BOOLEAN : SetBlten(b) \/ SetCycleExact(b))
  BY <1>7, OtherKeeps, Zenon
<1>8. CASE UNCHANGED bltVars
  <2>1. /\ UNCHANGED <<cmd, result, exec, busy, remaining, consumed, line, lineInit, phase, base>>
        /\ UNCHANGED <<ram, cycle_exact, disturbed>> /\ UNCHANGED <<regs, bltOps>>
    BY <1>8, Zenon DEF bltVars, bltRegs
  <2>2. /\ regs \in Regs /\ regs.sizh \in 0..MaxWidth /\ regs.sizv \in 0..MaxHeight
        /\ ram \in [ChipAddr -> Word] /\ cycle_exact \in BOOLEAN /\ bltOps \in 0..MaxBltOps
    BY Zenon DEF BltInv, BltTyped
  <2> QED
    BY <2>1, <2>2, FrameKeeps, Zenon
<1> QED
  BY <1>1, <1>2, <1>3, <1>4, <1>5, <1>6, <1>7, <1>8, Zenon DEF BltNext

LEMMA SlotsFollow ==
    ASSUME BltInv
    PROVE  SlotsKept
<1>1. line \in LineState /\ BltTyped /\ SlotsExact
  BY Zenon DEF BltInv, BltTyped
<1>2. /\ line.cpt \in ChipAddr /\ line.x_shift \in Bits /\ line.pattern \in Word
      /\ line.error \in (-(ErrSpace \div 2))..(ErrSpace \div 2 - 1)
  BY <1>1, LineFields, Zenon DEF ErrValue
<1>3. BltTypeOK
  BY <1>1, <1>2, Zenon DEF BltTyped, BltTypeOK
<1> QED
  BY <1>1, <1>3, Zenon DEF SlotsKept

LEMMA LineEnds ==
    ASSUME BltInv, BltNext, busy, ~busy', blitreq', line_mode(cmd), ~disturbed, cmd.height > 0
    PROVE  /\ ram' = execute_line_mode(cmd, base).mem
           /\ regs' = publish(regs, execute_line_mode(cmd, base).result)
<1>1. Grant
  <2>1. ~AckBlit /\ ~ResetBlitter
    BY Zenon DEF AckBlit, ResetBlitter, bltRegs
  <2>2. ~\E i \in Images : WriteImage(i)
    BY Zenon DEF WriteImage, SetRegs
  <2>3. ~\E s \in Sizes : WriteSize(s[1], s[2]) \/ WriteSizeH(s[1]) \/ WriteSizeV(s[2])
    BY Zenon DEF WriteSize, WriteSizeH, WriteSizeV, Begin, SetRegs
  <2>4. ~\E v \in PtrHalves : WritePtrHi(v) \/ WritePtrLo(v)
    BY Zenon DEF WritePtrHi, WritePtrLo, SetRegs
  <2>5. ~\E v \in {{}, {0}} : WriteCon0L(v) \/ WriteBdat(v)
    BY Zenon DEF WriteCon0L, WriteBdat, SetRegs
  <2>6. ~(\E p \in Pokes : CpuPoke(p)) /\ ~\E b \in BOOLEAN : SetBlten(b) \/ SetCycleExact(b)
    BY Zenon DEF CpuPoke, SetBlten, SetCycleExact, bltRegs
  <2> QED
    BY <2>1, <2>2, <2>3, <2>4, <2>5, <2>6, Zenon DEF BltNext
<1>2. GrantLineDraw /\ UNCHANGED <<cmd, cycle_exact, base, disturbed, bltOps>>
  BY <1>1, Zenon DEF Grant, GrantCopy, GrantLineRead
<1>3. LineUndisturbed
  BY Zenon DEF LineUndisturbed
<1>4. /\ [s |-> line', mem |-> ram'] = LineAt(cmd, base)[cmd.height]
      /\ regs' = publish(regs, line_result(cmd, line'))
  BY <1>2, <1>3, GrantLineDrawKeeps, Zenon
<1>5. PICK v : v = LineAt(cmd, base)[cmd.height] /\ v = [s |-> line', mem |-> ram']
  BY <1>4, Zenon
<1>6. v.s = line' /\ v.mem = ram'
  BY <1>5
<1>7. cmd \in BlitCommand
  BY Zenon DEF BltInv, BltTyped
<1>8. execute_line_mode(cmd, base) = [mem |-> v.mem, result |-> line_result(cmd, v.s)]
  BY <1>5, <1>7, ReferenceIs, Zenon
<1>9. /\ execute_line_mode(cmd, base).mem = v.mem
      /\ execute_line_mode(cmd, base).result = line_result(cmd, v.s)
  BY <1>8
<1> QED
  BY <1>4, <1>6, <1>9, Zenon

(* The inductive invariant of the blitter holds in every state.            *)
THEOREM BltSafe == BltSpec => []BltInv
<1>1. BltInit => BltInv
  BY BltStarts
<1>2. BltInv /\ [BltNext]_bltVars => BltInv'
  BY BltStepKeeps
<1> QED
  BY <1>1, <1>2, PTL DEF BltSpec

(* While a blit runs the slots consumed and those still announced make up  *)
(* the estimate, at least one is left, and the blit ends with the slot the *)
(* estimate named, for every size, image and gating of the slots: the      *)
(* deadline that blitter_timing.c gives the host is exact.                 *)
THEOREM SlotsAreKept == BltSpec => []SlotsKept
<1>1. BltInv => SlotsKept
  BY SlotsFollow
<1> QED
  BY <1>1, BltSafe, PTL

(* A line drawn slot by slot ends with the RAM and the registers of the    *)
(* reference in blitter_ref.c, whatever the guest writes to the registers, *)
(* starts anew or gates in between, for every octant, pattern and length.  *)
THEOREM LinesMatch == BltSpec => LineMatchesReference
<1>1. BltInv /\ [BltNext]_bltVars =>
        [(busy /\ ~busy' /\ blitreq' /\ line_mode(cmd) /\ ~disturbed /\ cmd.height > 0)
           => LET ref == execute_line_mode(cmd, base)
              IN /\ ram' = ref.mem
                 /\ regs' = publish(regs, ref.result)]_bltVars
  BY LineEnds, Zenon
<1> QED
  BY <1>1, BltSafe, PTL DEF BltSpec, LineMatchesReference


-----------------------------------------------------------------------------
(* The slot scheduler.                                                     *)
USE SlotMapAssumption, SlotSchedulerAssumption, GuestAssumption

(* The fields of agnus_slot_scheduler_t.                                   *)
Scheduler ==
    [table: [Slot -> Owners], index: [Slot -> SUBSET Int],
     dmacon: SUBSET DmaBits, ddfstrt: Nat, ddfstop: Nat, depth: 0..7,
     hires: BOOLEAN, vstrt: Nat, dirty: BOOLEAN,
     blitter: BOOLEAN, nasty: BOOLEAN, copper: BOOLEAN]

(* The words the bitplanes fetch at a clock of a line.                     *)
words_at(r, v, h) == IF fetching(r, v) THEN logical_at(r, h) ELSE {}

(* A table that is not marked dirty was built from a DMACON, registers and *)
(* a line; it is valid as long as those are the ones of now.               *)
TableCurrent ==
    ~sched.dirty => /\ sched.dmacon = dmacon
                    /\ sched.table = [h \in Slot |-> table_owner(LiveRegs, vpos, h)]
                    /\ sched.index = [h \in Slot |-> words_at(LiveRegs, vpos, h)]

SchedInv ==
    /\ sched \in Scheduler
    /\ beamAt \in Slot \X (0..(FrameLines - 1))
    /\ dmacon \in SUBSET DmaBits
    /\ TableCurrent

-----------------------------------------------------------------------------
(* The owner of a slot is a function of registers and line.                *)

LEMMA OwnerType ==
    ASSUME NEW r, NEW v, NEW h
    PROVE  table_owner(r, v, h) \in Owners
<1> DEFINE sprites == {s \in DOMAIN SpritePos : h \in SpritePos[s] /\ On(r.dmacon, "SPREN")}
           audio   == {c \in DOMAIN AudioPos : h = AudioPos[c] /\ On(r.dmacon, "AUDEN")}
<1>1. sprites # {} => SPRITE(CHOOSE s \in sprites : TRUE) \in Owners
  BY Zenon DEF Owners
<1>2. audio # {} => AUDIO(CHOOSE c \in audio : TRUE) \in Owners
  BY Zenon DEF Owners
<1>3. {FREE, CPU, REFRESH, DISK, BITPLANE} \subseteq Owners
  BY Zenon DEF Owners
<1> HIDE DEF sprites, audio
<1> QED
  BY <1>1, <1>2, <1>3, Zenon DEF table_owner, sprites, audio

LEMMA MaskedNat ==
    ASSUME NEW v \in Nat, NEW m \in Nat \ {0}
    PROVE  Masked(v, m) \in Nat
<1>1. v % m \in 0..(m - 1) /\ v % m <= v
  OBVIOUS
<1> QED
  BY <1>1 DEF Masked

LEMMA WordsType ==
    ASSUME NEW r \in SchedRegs
    PROVE  words_per_plane(r) \in Nat
<1>1. r.depth \in 0..7 /\ r.ddfstrt \in Nat /\ r.ddfstop \in Nat
  BY Zenon DEF SchedRegs
<1>2. Unit \div 2 \in Nat \ {0} /\ Unit \div 4 \in Nat \ {0}
  OBVIOUS
<1> DEFINE start == Masked(r.ddfstrt, IF r.hires THEN Unit \div 4 ELSE Unit \div 2)
           stop  == Masked(r.ddfstop, Unit \div 4)
           half  == Unit \div 2
           span  == stop - start
           n == IF stop <= start THEN (IF r.hires THEN 2 * DefaultWords ELSE DefaultWords)
                ELSE IF r.hires THEN span \div half + (IF (span \div half) % 2 = 1 THEN 3 ELSE 2)
                ELSE span \div Unit + 1
<1>3. start \in Nat /\ stop \in Nat
  BY <1>1, <1>2, MaskedNat
<1> HIDE DEF start, stop
<1>4. ~(stop <= start) => span \div half \in Nat /\ span \div Unit \in Nat
  BY <1>2, <1>3
<1>5. n \in Nat
  BY <1>3, <1>4
<1> HIDE DEF n
<1>6. words_per_plane(r) = IF r.depth = 0 \/ r.depth > MaxDepth THEN 0
                           ELSE IF stop > start /\ n > MaxWords THEN MaxWords ELSE n
  BY Zenon DEF words_per_plane, start, stop, n
<1> QED
  BY <1>5, <1>6

LEMMA LogicalType ==
    ASSUME NEW r \in SchedRegs, NEW h \in Slot
    PROVE  logical_at(r, h) \in SUBSET Int
<1>1. r.depth \in 0..7 /\ r.ddfstrt \in Nat
  BY Zenon DEF SchedRegs
<1>2. {i \in {h - r.ddfstrt} : i \in 0..(words_per_plane(r) * r.depth - 1)} \subseteq Int
  BY <1>1 DEF Slot
<1> DEFINE Y == {y \in (0..(words_per_plane(r) - 1)) \X Plane :
                     /\ y[2] < r.depth
                     /\ h = r.ddfstrt + y[1] * Unit + PlaneOrder[y[2]]}
<1>3. ASSUME NEW x \in Y
      PROVE  x[1] * r.depth + x[2] \in Int
  <2>1. x[1] \in 0..(words_per_plane(r) - 1) /\ x[2] \in Plane
    BY Zenon
  <2>2. x[1] \in Int /\ x[2] \in Int
    BY <2>1, WordsType DEF Plane
  <2>3. \A i, d \in Int : i * d \in Int
    OBVIOUS
  <2> QED
    BY <1>1, <2>2, <2>3
<1> HIDE DEF Y
<1>4. {x[1] * r.depth + x[2] : x \in Y} \subseteq Int
  BY <1>3
<1> QED
  BY <1>2, <1>4 DEF logical_at, Y

-----------------------------------------------------------------------------
(* The scheduler's step.                                                   *)

LEMMA LiveRegsAre ==
    /\ LiveRegs = [dmacon |-> dmacon, ddfstrt |-> sched.ddfstrt, ddfstop |-> sched.ddfstop,
                   depth |-> sched.depth, hires |-> sched.hires, vstrt |-> sched.vstrt]
    /\ LiveRegs' = [dmacon |-> dmacon', ddfstrt |-> sched'.ddfstrt,
                    ddfstop |-> sched'.ddfstop, depth |-> sched'.depth,
                    hires |-> sched'.hires, vstrt |-> sched'.vstrt]
BY DEF LiveRegs, SchedInputs

LEMMA LiveRegsType ==
    ASSUME SchedInv
    PROVE  LiveRegs \in SchedRegs
<1>1. sched \in Scheduler /\ dmacon \in SUBSET DmaBits
  BY DEF SchedInv
<1> QED
  BY <1>1, Zenon DEF LiveRegs, SchedInputs, SchedRegs, Scheduler

(* After the refresh at the start of a clock the table is that of now.     *)
LEMMA Refreshed ==
    ASSUME SchedInv, NEW blit \in BOOLEAN, NEW copper \in BOOLEAN, NEW s,
           s = scheduler_refresh(sched, dmacon, blit, copper)
    PROVE  /\ s \in Scheduler
           /\ ~s.dirty /\ s.dmacon = dmacon
           /\ s.table = [h \in Slot |-> table_owner(LiveRegs, vpos, h)]
           /\ s.index = [h \in Slot |-> words_at(LiveRegs, vpos, h)]
           /\ s.blitter = (blit /\ On(dmacon, "BLTEN"))
           /\ s.nasty = ("BLTPRI" \in dmacon)
           /\ s.copper = (copper /\ On(dmacon, "COPEN"))
           /\ s.ddfstrt = sched.ddfstrt /\ s.ddfstop = sched.ddfstop
           /\ s.depth = sched.depth /\ s.hires = sched.hires /\ s.vstrt = sched.vstrt
<1> DEFINE t == [sched EXCEPT !.dirty = @ \/ sched.dmacon # dmacon, !.dmacon = dmacon,
                       !.blitter = blit /\ On(dmacon, "BLTEN"),
                       !.nasty = "BLTPRI" \in dmacon,
                       !.copper = copper /\ On(dmacon, "COPEN")]
           r == LiveRegs
           table == [h \in Slot |-> table_owner(r, vpos, h)]
           index == [h \in Slot |-> words_at(r, vpos, h)]
<1>0. sched \in Scheduler /\ dmacon \in SUBSET DmaBits
  BY DEF SchedInv
<1>1. t \in Scheduler
  <2>1. \A d, b, n, c \in BOOLEAN :
           [sched EXCEPT !.dirty = d, !.dmacon = dmacon, !.blitter = b, !.nasty = n,
                         !.copper = c] \in Scheduler
    BY <1>0, Zenon DEF Scheduler
  <2>2. /\ (sched.dirty \/ sched.dmacon # dmacon) \in BOOLEAN
        /\ (blit /\ On(dmacon, "BLTEN")) \in BOOLEAN
        /\ ("BLTPRI" \in dmacon) \in BOOLEAN
        /\ (copper /\ On(dmacon, "COPEN")) \in BOOLEAN
    OBVIOUS
  <2> QED
    BY <2>1, <2>2, Zenon
<1>2. table \in [Slot -> Owners]
  BY OwnerType, Zenon
<1>3. index \in [Slot -> SUBSET Int]
  BY LiveRegsType, LogicalType, Zenon DEF words_at
<1>4. s = IF ~t.dirty THEN t
          ELSE [t EXCEPT !.dirty = FALSE, !.table = table, !.index = index]
  BY Zenon DEF scheduler_refresh, LiveRegs, words_at
<1>5. t.dirty = (sched.dirty \/ sched.dmacon # dmacon)
  BY <1>0, Zenon DEF Scheduler
<1>6. ~t.dirty => t.table = table /\ t.index = index
  <2> SUFFICES ASSUME ~t.dirty PROVE t.table = table /\ t.index = index
    OBVIOUS
  <2>1. ~sched.dirty
    BY <1>5
  <2>2. sched.table = table /\ sched.index = index
    BY <2>1, Zenon DEF SchedInv, TableCurrent
  <2>3. t.table = sched.table /\ t.index = sched.index
    BY <1>0, Zenon DEF Scheduler
  <2> QED
    BY <2>2, <2>3, Zenon
<1>7. /\ t.dmacon = dmacon
      /\ t.blitter = (blit /\ On(dmacon, "BLTEN"))
      /\ t.nasty = ("BLTPRI" \in dmacon)
      /\ t.copper = (copper /\ On(dmacon, "COPEN"))
      /\ t.ddfstrt = sched.ddfstrt /\ t.ddfstop = sched.ddfstop
      /\ t.depth = sched.depth /\ t.hires = sched.hires /\ t.vstrt = sched.vstrt
  BY <1>0, Zenon DEF Scheduler
<1> HIDE DEF t, table, index
<1>8. CASE ~t.dirty
  <2>1. s = t
    BY <1>4, <1>8, Zenon
  <2> QED
    BY <1>1, <1>6, <1>7, <1>8, <2>1, Zenon DEF table, index
<1>9. CASE t.dirty
  <2>1. s = [t EXCEPT !.dirty = FALSE, !.table = table, !.index = index]
    BY <1>4, <1>9, Zenon
  <2>2. s \in Scheduler
    BY <1>1, <1>2, <1>3, <2>1, ZenonT(60) DEF Scheduler
  <2>3. /\ ~s.dirty /\ s.table = table /\ s.index = index /\ s.dmacon = t.dmacon
        /\ s.blitter = t.blitter /\ s.nasty = t.nasty /\ s.copper = t.copper
        /\ s.ddfstrt = t.ddfstrt /\ s.ddfstop = t.ddfstop
        /\ s.depth = t.depth /\ s.hires = t.hires /\ s.vstrt = t.vstrt
    BY <1>1, <2>1, Zenon DEF Scheduler
  <2> QED
    BY <1>7, <2>2, <2>3, Zenon DEF table, index
<1> QED
  BY <1>8, <1>9

LEMMA NextAtType ==
    ASSUME beamAt \in Slot \X (0..(FrameLines - 1))
    PROVE  /\ next_at \in Slot \X (0..(FrameLines - 1))
           /\ next_at[1] # 0 => next_at[2] = vpos
<1>1. hpos \in Slot /\ vpos \in 0..(FrameLines - 1)
  BY DEF hpos, vpos
<1>2. (vpos + 1) % FrameLines \in 0..(FrameLines - 1)
  BY <1>1
<1> QED
  BY <1>1, <1>2 DEF next_at, Slot

(* The owner of a clock, as Step(copper) computes it from the table.       *)
LEMMA StepMoves ==
    ASSUME SchedInv, NEW copper \in BOOLEAN, Step(copper)
    PROVE  LET own == table_owner(LiveRegs, vpos, hpos)
               byDisk == disk_override(dmacon, own, wants.disk > 0)
           IN /\ granted' = IF byDisk THEN DISK
                            ELSE dynamic_owner(own, wants.blit > 0 /\ On(dmacon, "BLTEN"),
                                               "BLTPRI" \in dmacon,
                                               copper /\ On(dmacon, "COPEN"))
              /\ dmacon' = IF byDisk THEN dmacon \cup {"DSKEN"} ELSE dmacon
              /\ LiveRegs' = [LiveRegs EXCEPT !.dmacon = dmacon']
              /\ SchedInv'
<1> DEFINE s == scheduler_refresh(sched, dmacon, wants.blit > 0, copper)
           own == table_owner(LiveRegs, vpos, hpos)
           byDisk == disk_override(dmacon, own, wants.disk > 0)
           restored == byDisk /\ "DSKEN" \notin s.dmacon
           t == IF restored THEN [s EXCEPT !.dmacon = @ \cup {"DSKEN"}, !.dirty = TRUE] ELSE s
<1>0. (wants.blit > 0) \in BOOLEAN
  OBVIOUS
<1>1. /\ s \in Scheduler
      /\ ~s.dirty /\ s.dmacon = dmacon
      /\ s.table = [h \in Slot |-> table_owner(LiveRegs, vpos, h)]
      /\ s.index = [h \in Slot |-> words_at(LiveRegs, vpos, h)]
      /\ s.blitter = (wants.blit > 0 /\ On(dmacon, "BLTEN"))
      /\ s.nasty = ("BLTPRI" \in dmacon)
      /\ s.copper = (copper /\ On(dmacon, "COPEN"))
      /\ s.ddfstrt = sched.ddfstrt /\ s.ddfstop = sched.ddfstop
      /\ s.depth = sched.depth /\ s.hires = sched.hires /\ s.vstrt = sched.vstrt
  BY <1>0, Refreshed, ZenonT(60)
<1> HIDE DEF s
<1>2. hpos \in Slot /\ vpos \in 0..(FrameLines - 1) /\ dmacon \in SUBSET DmaBits
  BY DEF SchedInv, hpos, vpos
<1>3. s.table[hpos] = own
  BY <1>1, <1>2, Zenon
<1>4. /\ granted' = IF byDisk THEN DISK ELSE dynamic_owner(own, s.blitter, s.nasty, s.copper)
      /\ dmacon' = t.dmacon /\ beamAt' = next_at
      /\ sched' = IF next_at[1] = 0 THEN scheduler_new_line(t) ELSE t
  BY <1>1, <1>3, Zenon DEF Step, s
<1> HIDE DEF own, byDisk
<1>5. /\ t \in Scheduler
      /\ t.dmacon = IF byDisk THEN dmacon \cup {"DSKEN"} ELSE dmacon
      /\ t.ddfstrt = sched.ddfstrt /\ t.ddfstop = sched.ddfstop
      /\ t.depth = sched.depth /\ t.hires = sched.hires /\ t.vstrt = sched.vstrt
      /\ ~t.dirty => t = s /\ t.dmacon = dmacon
  <2>1. CASE restored
    <3>1. s.dmacon \cup {"DSKEN"} \in SUBSET DmaBits
      BY <1>1, <1>2 DEF DmaBits
    <3>2. t = [s EXCEPT !.dmacon = s.dmacon \cup {"DSKEN"}, !.dirty = TRUE]
      BY <2>1, Zenon
    <3>3. t \in Scheduler
      BY <1>1, <3>1, <3>2, Zenon DEF Scheduler
    <3>4. /\ t.dmacon = s.dmacon \cup {"DSKEN"} /\ t.dirty
          /\ t.ddfstrt = s.ddfstrt /\ t.ddfstop = s.ddfstop
          /\ t.depth = s.depth /\ t.hires = s.hires /\ t.vstrt = s.vstrt
      BY <1>1, <3>2, Zenon DEF Scheduler
    <3> QED
      BY <1>1, <2>1, <3>3, <3>4, Zenon
  <2>2. CASE ~restored
    <3>1. t = s
      BY <2>2, Zenon
    <3>2. byDisk => dmacon \cup {"DSKEN"} = dmacon
      BY <1>1, <2>2
    <3> QED
      BY <1>1, <3>1, <3>2, Zenon
  <2> QED
    BY <2>1, <2>2
<1> HIDE DEF t
<1>6. /\ sched' \in Scheduler
      /\ sched'.dmacon = t.dmacon
      /\ sched'.ddfstrt = t.ddfstrt /\ sched'.ddfstop = t.ddfstop
      /\ sched'.depth = t.depth /\ sched'.hires = t.hires /\ sched'.vstrt = t.vstrt
      /\ ~sched'.dirty => next_at[1] # 0 /\ sched' = t
  <2>1. CASE next_at[1] = 0
    <3>1. sched' = [t EXCEPT !.dirty = TRUE]
      BY <1>4, <2>1, Zenon DEF scheduler_new_line
    <3> QED
      BY <1>5, <3>1, Zenon DEF Scheduler
  <2>2. CASE next_at[1] # 0
    BY <1>4, <1>5, <2>2, Zenon
  <2> QED
    BY <2>1, <2>2
<1>7. LiveRegs' = [LiveRegs EXCEPT !.dmacon = dmacon']
  BY <1>5, <1>6, LiveRegsAre
<1>8. dmacon' = dmacon => LiveRegs' = LiveRegs
  BY <1>5, <1>6, LiveRegsAre
<1>9. beamAt' \in Slot \X (0..(FrameLines - 1)) /\ (next_at[1] # 0 => vpos' = vpos)
  BY <1>4, NextAtType DEF SchedInv, vpos
<1>10. dmacon' \in SUBSET DmaBits /\ sched'.dmacon = dmacon'
  BY <1>4, <1>5, <1>6, Zenon DEF Scheduler
<1>11. TableCurrent'
  <2> SUFFICES ASSUME ~sched'.dirty
               PROVE  /\ sched'.table = [h \in Slot |-> table_owner(LiveRegs', vpos', h)]
                      /\ sched'.index = [h \in Slot |-> words_at(LiveRegs', vpos', h)]
    BY <1>10, Zenon DEF TableCurrent
  <2>1. sched' = s /\ dmacon' = dmacon /\ vpos' = vpos
    BY <1>4, <1>5, <1>6, <1>9, Zenon
  <2>2. LiveRegs' = LiveRegs
    BY <1>8, <2>1
  <2> QED
    BY <1>1, <2>1, <2>2, Zenon
<1>12. SchedInv'
  BY <1>6, <1>9, <1>10, <1>11, Zenon DEF SchedInv
<1> QED
  BY <1>1, <1>4, <1>5, <1>7, <1>12, Zenon DEF own, byDisk

-----------------------------------------------------------------------------
(* The guest's operations.                                                 *)

LEMMA InitScheduler == scheduler_init \in Scheduler /\ scheduler_init.dirty
<1>1. CPU \in Owners
  BY Zenon DEF Owners
<1>2. Unit * 2 + 1 \in Nat /\ Slots \in Nat /\ 0 \in 0..7 /\ LastVbl + 1 \in Nat
  OBVIOUS
<1>3. [h \in Slot |-> CPU] \in [Slot -> Owners] /\ [h \in Slot |-> {}] \in [Slot -> SUBSET Int]
  BY <1>1, Zenon
<1> HIDE SlotMapAssumption, SlotSchedulerAssumption, GuestAssumption
<1> QED
  BY <1>2, <1>3, Zenon DEF scheduler_init, Scheduler

LEMMA SetDdf ==
    ASSUME NEW s \in Scheduler, NEW a \in Nat, NEW b \in Nat
    PROVE  set_ddf(s, a, b) \in Scheduler /\ set_ddf(s, a, b).dirty
<1>1. Masked(a, Unit \div 2) \in Nat /\ Masked(b, Unit \div 2) \in Nat
  <2>1. Unit \div 2 \in Nat \ {0}
    OBVIOUS
  <2> QED
    BY <2>1, MaskedNat
<1> QED
  BY <1>1, Zenon DEF set_ddf, Scheduler

(* A setter that leaves the dirty flag clear has changed nothing.          *)
LEMMA SetVstrt ==
    ASSUME NEW s \in Scheduler, NEW v \in Nat
    PROVE  /\ set_vstrt(s, v) \in Scheduler
           /\ set_vstrt(s, v).dirty \/ set_vstrt(s, v) = s
<1>1. (s.dirty \/ s.vstrt # v) \in BOOLEAN
  OBVIOUS
<1>2. \A d \in BOOLEAN : [s EXCEPT !.vstrt = v, !.dirty = d] \in Scheduler
  BY Zenon DEF Scheduler
<1>3. \A d \in BOOLEAN : [s EXCEPT !.vstrt = v, !.dirty = d].dirty = d
  BY Zenon DEF Scheduler
<1>4. [s EXCEPT !.vstrt = s.vstrt, !.dirty = s.dirty] = s
  BY DEF Scheduler
<1> DEFINE d == s.dirty \/ s.vstrt # v
<1>5. set_vstrt(s, v) = [s EXCEPT !.vstrt = v, !.dirty = d]
  BY Zenon DEF set_vstrt
<1>6. ~d => v = s.vstrt /\ d = s.dirty
  BY Zenon DEF Scheduler
<1> HIDE DEF d
<1>7. d \in BOOLEAN
  BY <1>1 DEF d
<1> QED
  BY <1>2, <1>3, <1>4, <1>5, <1>6, <1>7, Zenon

LEMMA SetHires ==
    ASSUME NEW s \in Scheduler, NEW v \in BOOLEAN
    PROVE  /\ set_hires(s, v) \in Scheduler
           /\ set_hires(s, v).dirty \/ set_hires(s, v) = s
<1>1. (s.dirty \/ s.hires # v) \in BOOLEAN
  OBVIOUS
<1>2. \A d \in BOOLEAN : [s EXCEPT !.hires = v, !.dirty = d] \in Scheduler
  BY Zenon DEF Scheduler
<1>3. \A d \in BOOLEAN : [s EXCEPT !.hires = v, !.dirty = d].dirty = d
  BY Zenon DEF Scheduler
<1>4. [s EXCEPT !.hires = s.hires, !.dirty = s.dirty] = s
  BY DEF Scheduler
<1> DEFINE d == s.dirty \/ s.hires # v
<1>5. set_hires(s, v) = [s EXCEPT !.hires = v, !.dirty = d]
  BY Zenon DEF set_hires
<1>6. ~d => v = s.hires /\ d = s.dirty
  BY Zenon DEF Scheduler
<1> HIDE DEF d
<1>7. d \in BOOLEAN
  BY <1>1 DEF d
<1> QED
  BY <1>2, <1>3, <1>4, <1>5, <1>6, <1>7, ZenonT(60)

LEMMA SetDepth ==
    ASSUME NEW s \in Scheduler, NEW v \in 0..7
    PROVE  /\ set_depth(s, v) \in Scheduler
           /\ set_depth(s, v).dirty \/ set_depth(s, v) = s
           /\ s.dirty => set_depth(s, v).dirty
<1>1. (s.dirty \/ s.depth # v) \in BOOLEAN
  OBVIOUS
<1>2. \A d \in BOOLEAN : [s EXCEPT !.depth = v, !.dirty = d] \in Scheduler
  BY Zenon DEF Scheduler
<1>3. \A d \in BOOLEAN : [s EXCEPT !.depth = v, !.dirty = d].dirty = d
  BY Zenon DEF Scheduler
<1>4. [s EXCEPT !.depth = s.depth, !.dirty = s.dirty] = s
  BY DEF Scheduler
<1> DEFINE d == s.dirty \/ s.depth # v
<1>5. set_depth(s, v) = [s EXCEPT !.depth = v, !.dirty = d]
  BY Zenon DEF set_depth
<1>6. (~d => v = s.depth /\ d = s.dirty) /\ (s.dirty => d)
  BY Zenon DEF Scheduler
<1> HIDE DEF d
<1>7. d \in BOOLEAN
  BY <1>1 DEF d
<1> QED
  BY <1>2, <1>3, <1>4, <1>5, <1>6, <1>7, Zenon

LEMMA SetBplcon0 ==
    ASSUME NEW s \in Scheduler, NEW depth \in 0..7, NEW hires \in BOOLEAN
    PROVE  /\ set_bplcon0(s, depth, hires) \in Scheduler
           /\ set_bplcon0(s, depth, hires).dirty \/ set_bplcon0(s, depth, hires) = s
BY SetHires, SetDepth, Zenon DEF set_bplcon0

LEMMA Invalidated ==
    ASSUME NEW s \in Scheduler, NEW d \in SUBSET DmaBits
    PROVE  invalidate(s, d) \in Scheduler /\ invalidate(s, d).dirty
BY Zenon DEF invalidate, Scheduler

(* A dirty table promises nothing, and an unchanged one stays current.     *)
LEMMA SchedInvKept ==
    ASSUME SchedInv, sched' \in Scheduler, sched'.dirty \/ (sched' = sched /\ dmacon' = dmacon),
           dmacon' \in SUBSET DmaBits, beamAt' = beamAt
    PROVE  SchedInv'
<1>1. beamAt' \in Slot \X (0..(FrameLines - 1)) /\ vpos' = vpos
  BY DEF SchedInv, vpos
<1>2. TableCurrent'
  <2>1. CASE sched'.dirty
    BY <2>1, Zenon DEF TableCurrent
  <2>2. CASE sched' = sched /\ dmacon' = dmacon
    <3>1. LiveRegs' = LiveRegs
      BY <2>2, LiveRegsAre
    <3> QED
      BY <1>1, <2>2, <3>1, Zenon DEF SchedInv, TableCurrent
  <2> QED
    BY <2>1, <2>2
<1> QED
  BY <1>1, <1>2, Zenon DEF SchedInv

(* Registers and requests: what the guest does between two clocks.         *)
GuestOp ==
    \/ \E p \in Programs :
          \/ Program(p) \/ WriteDdfStrt(p.ddfstrt) \/ WriteDdfStop(p.ddfstop)
          \/ WriteDiwStrt(p.vstrt) \/ WriteBplcon0(p.depth, p.hires)
          \/ WriteSprPt(p.spr) \/ \E x \in Plane : WriteBplPt(x, p.pt[x])
    \/ \E d \in DmaWrites : WriteDmacon(dmacon \cup d) \/ WriteDmacon(dmacon \ d)
    \/ StartDisk \/ StartBlit

LEMMA GuestOpKeeps ==
    ASSUME SchedInv, GuestOp
    PROVE  SchedInv' /\ beamAt' = beamAt /\ granted' = granted
<1>0. sched \in Scheduler /\ dmacon \in SUBSET DmaBits
  BY DEF SchedInv
<1>a. sched.ddfstrt \in Nat /\ sched.ddfstop \in Nat
  BY <1>0, Zenon DEF Scheduler
<1>b. ASSUME NEW p \in Programs
      PROVE  /\ p.dmacon \in SUBSET DmaBits /\ p.depth \in 0..7 /\ p.hires \in BOOLEAN
             /\ p.ddfstrt \in Nat /\ p.ddfstop \in Nat /\ p.vstrt \in Nat
  OBVIOUS
<1>1. ASSUME NEW p \in Programs, Program(p)
      PROVE  SchedInv' /\ beamAt' = beamAt /\ granted' = granted
  <2> DEFINE s == set_bplcon0(set_vstrt(set_ddf(sched, p.ddfstrt, p.ddfstop), p.vstrt),
                              p.depth, p.hires)
  <2>1. s \in Scheduler
    BY <1>0, <1>b, SetDdf, SetVstrt, SetBplcon0, Zenon
  <2>2. sched' = invalidate(s, p.dmacon) /\ dmacon' = p.dmacon /\ beamAt' = beamAt
        /\ granted' = granted
    BY <1>1, Zenon DEF Program
  <2> HIDE DEF s
  <2>3. sched' \in Scheduler /\ sched'.dirty
    BY <1>b, <2>1, <2>2, Invalidated, Zenon
  <2> QED
    BY <1>b, <2>2, <2>3, SchedInvKept, Zenon
<1>2. ASSUME NEW s \in Scheduler, s.dirty \/ s = sched, SetSched(s)
      PROVE  SchedInv' /\ beamAt' = beamAt /\ granted' = granted
  BY <1>0, <1>2, SchedInvKept, Zenon DEF SetSched
<1>3. ASSUME NEW p \in Programs,
             \/ WriteDdfStrt(p.ddfstrt) \/ WriteDdfStop(p.ddfstop)
             \/ WriteDiwStrt(p.vstrt) \/ WriteBplcon0(p.depth, p.hires)
      PROVE  SchedInv' /\ beamAt' = beamAt /\ granted' = granted
  <2>1. CASE WriteDdfStrt(p.ddfstrt)
    BY <1>0, <1>a, <1>b, <1>2, <2>1, SetDdf, Zenon DEF WriteDdfStrt
  <2>2. CASE WriteDdfStop(p.ddfstop)
    BY <1>0, <1>a, <1>b, <1>2, <2>2, SetDdf, Zenon DEF WriteDdfStop
  <2>3. CASE WriteDiwStrt(p.vstrt)
    BY <1>0, <1>b, <1>2, <2>3, SetVstrt, Zenon DEF WriteDiwStrt
  <2>4. CASE WriteBplcon0(p.depth, p.hires)
    BY <1>0, <1>b, <1>2, <2>4, SetBplcon0, Zenon DEF WriteBplcon0
  <2> QED
    BY <1>3, <2>1, <2>2, <2>3, <2>4
<1>4. ASSUME NEW d \in SUBSET DmaBits, WriteDmacon(d)
      PROVE  SchedInv' /\ beamAt' = beamAt /\ granted' = granted
  <2>1. sched' \in Scheduler /\ sched'.dirty
    BY <1>0, <1>4, Invalidated, Zenon DEF WriteDmacon
  <2> QED
    BY <1>4, <2>1, SchedInvKept, Zenon DEF WriteDmacon
<1>5. ASSUME UNCHANGED <<sched, beamAt, dmacon, granted>>
      PROVE  SchedInv' /\ beamAt' = beamAt /\ granted' = granted
  BY <1>0, <1>5, SchedInvKept, Zenon
<1>6. ASSUME NEW d \in DmaWrites, WriteDmacon(dmacon \cup d) \/ WriteDmacon(dmacon \ d)
      PROVE  SchedInv' /\ beamAt' = beamAt /\ granted' = granted
  <2>1. dmacon \cup d \in SUBSET DmaBits /\ dmacon \ d \in SUBSET DmaBits
    BY <1>0
  <2> QED
    BY <1>4, <1>6, <2>1, Zenon
<1>7. ASSUME NEW p \in Programs, WriteSprPt(p.spr) \/ \E x \in Plane : WriteBplPt(x, p.pt[x])
      PROVE  SchedInv' /\ beamAt' = beamAt /\ granted' = granted
  BY <1>5, <1>7, Zenon DEF WriteSprPt, WriteBplPt
<1>8. ASSUME StartDisk \/ StartBlit
      PROVE  SchedInv' /\ beamAt' = beamAt /\ granted' = granted
  BY <1>5, <1>8, Zenon DEF StartDisk, StartBlit
<1> QED
  BY <1>1, <1>3, <1>6, <1>7, <1>8, Zenon DEF GuestOp

LEMMA ResetKeeps ==
    ASSUME ResetAgnus
    PROVE  /\ SchedInv' /\ beamAt' = <<0, 0>> /\ granted' = CPU /\ dmacon' = {}
           /\ wants' = [disk |-> 0, blit |-> 0]
<1>1. /\ sched' = scheduler_init /\ beamAt' = <<0, 0>> /\ dmacon' = {} /\ granted' = CPU
      /\ wants' = [disk |-> 0, blit |-> 0]
  BY DEF ResetAgnus, AtReset
<1>2. 0 \in Slot /\ 0 \in 0..(FrameLines - 1)
  BY DEF Slot
<1> QED
  BY <1>1, <1>2, InitScheduler, Zenon DEF SchedInv, TableCurrent

LEMMA SchedInvHolds == BusInit => SchedInv
<1> SUFFICES ASSUME BusInit PROVE SchedInv
  OBVIOUS
<1>1. sched = scheduler_init /\ beamAt = <<0, 0>> /\ dmacon = {}
  BY DEF BusInit, AtReset
<1>2. 0 \in Slot /\ 0 \in 0..(FrameLines - 1)
  BY DEF Slot
<1> QED
  BY <1>1, <1>2, InitScheduler, Zenon DEF SchedInv, TableCurrent

LEMMA BusNextSplit == BusNext => (\E c \in BOOLEAN : Step(c)) \/ GuestOp \/ ResetAgnus
<1>1. CopperAsks \subseteq BOOLEAN
  BY DEF CopperAsks
<1> QED
  BY <1>1, Zenon DEF BusNext, GuestOp

LEMMA SchedInvStep == SchedInv /\ [BusNext]_busVars => SchedInv'
<1> SUFFICES ASSUME SchedInv, [BusNext]_busVars PROVE SchedInv'
  OBVIOUS
<1>1. ASSUME NEW c \in BOOLEAN, Step(c) PROVE SchedInv'
  BY <1>1, StepMoves, Zenon
<1>2. CASE UNCHANGED busVars
  <2>1. UNCHANGED <<sched, beamAt, dmacon>>
    BY <1>2 DEF busVars
  <2> QED
    BY <2>1, SchedInvKept, Zenon DEF SchedInv
<1> QED
  BY <1>1, <1>2, BusNextSplit, GuestOpKeeps, ResetKeeps, Zenon

-----------------------------------------------------------------------------
(* The Arbiter has definitions of its own, by the same text.               *)

LEMMA SameWords ==
    ASSUME NEW r PROVE A!words_per_plane(r) = words_per_plane(r)
BY Zenon DEF words_per_plane, A!words_per_plane, Masked, A!Masked

LEMMA SameLogical ==
    ASSUME NEW r, NEW h PROVE A!logical_at(r, h) = logical_at(r, h)
BY SameWords, Zenon DEF logical_at, A!logical_at, Plane, A!Plane

LEMMA SameOwner ==
    ASSUME NEW r, NEW v, NEW h PROVE A!table_owner(r, v, h) = table_owner(r, v, h)
<1>1. A!fetching(r, v) = fetching(r, v)
  BY Zenon DEF fetching, A!fetching, On, A!On
<1>2. A!logical_at(r, h) = logical_at(r, h)
  BY SameLogical
<1>3. \A d, b : A!On(d, b) = On(d, b)
  BY Zenon DEF On, A!On
<1>4. /\ A!BITPLANE = BITPLANE /\ A!DISK = DISK /\ A!REFRESH = REFRESH
      /\ A!FREE = FREE /\ A!CPU = CPU
      /\ \A n : A!SPRITE(n) = SPRITE(n) /\ A!AUDIO(n) = AUDIO(n)
  BY Zenon DEF A!BITPLANE, BITPLANE, A!DISK, DISK, A!REFRESH, REFRESH, A!FREE, FREE,
     A!CPU, CPU, A!SPRITE, SPRITE, A!AUDIO, AUDIO
<1> DEFINE sprites == {s \in DOMAIN SpritePos : h \in SpritePos[s] /\ On(r.dmacon, "SPREN")}
           audio   == {c \in DOMAIN AudioPos : h = AudioPos[c] /\ On(r.dmacon, "AUDEN")}
           Asprites == {s \in DOMAIN SpritePos : h \in SpritePos[s] /\ A!On(r.dmacon, "SPREN")}
           Aaudio   == {c \in DOMAIN AudioPos : h = AudioPos[c] /\ A!On(r.dmacon, "AUDEN")}
<1>5. Asprites = sprites /\ Aaudio = audio
  BY <1>3, Zenon
<1>6. table_owner(r, v, h) =
        IF fetching(r, v) /\ logical_at(r, h) # {} THEN BITPLANE
        ELSE IF sprites # {} THEN SPRITE(CHOOSE s \in sprites : TRUE)
        ELSE IF audio # {} THEN AUDIO(CHOOSE c \in audio : TRUE)
        ELSE IF h \in DiskPos /\ On(r.dmacon, "DSKEN") THEN DISK
        ELSE IF h \in RefreshPos THEN REFRESH
        ELSE IF "DMAEN" \in r.dmacon THEN FREE ELSE CPU
  BY Zenon DEF table_owner
<1>7. A!table_owner(r, v, h) =
        IF A!fetching(r, v) /\ A!logical_at(r, h) # {} THEN A!BITPLANE
        ELSE IF Asprites # {} THEN A!SPRITE(CHOOSE s \in Asprites : TRUE)
        ELSE IF Aaudio # {} THEN A!AUDIO(CHOOSE c \in Aaudio : TRUE)
        ELSE IF h \in DiskPos /\ A!On(r.dmacon, "DSKEN") THEN A!DISK
        ELSE IF h \in RefreshPos THEN A!REFRESH
        ELSE IF "DMAEN" \in r.dmacon THEN A!FREE ELSE A!CPU
  BY Zenon DEF A!table_owner
<1> HIDE DEF sprites, audio, Asprites, Aaudio
<1> QED
  BY <1>1, <1>2, <1>3, <1>4, <1>5, <1>6, <1>7

LEMMA SameDynamic ==
    ASSUME NEW o, NEW b, NEW n, NEW c
    PROVE  A!dynamic_owner(o, b, n, c) = dynamic_owner(o, b, n, c)
BY Zenon DEF dynamic_owner, A!dynamic_owner, A!FREE, FREE, A!CPU, CPU, A!BLITTER, BLITTER,
   A!COPPER, COPPER

LEMMA SameOverride ==
    ASSUME NEW d, NEW o, NEW w
    PROVE  A!disk_override(d, o, w) = disk_override(d, o, w)
BY Zenon DEF disk_override, A!disk_override, A!REFRESH, REFRESH

-----------------------------------------------------------------------------
(* Initial states and steps of the scheduler are those of the Arbiter.     *)

LEMMA ArbiterStarts == BusInit => A!ArbiterInit
<1> SUFFICES ASSUME BusInit PROVE A!ArbiterInit
  OBVIOUS
<1>1. SchedInv
  BY SchedInvHolds
<1>2. /\ beamAt = <<0, 0>> /\ dmacon = {} /\ granted = CPU
      /\ wants = [disk |-> 0, blit |-> 0]
  BY DEF BusInit, AtReset
<1>3. LiveRegs \in A!SchedRegs
  BY <1>1, LiveRegsType, Zenon DEF SchedRegs, A!SchedRegs, DmaBits, A!DmaBits
<1>4. LiveRegs.dmacon = {}
  BY <1>2, LiveRegsAre
<1>5. wants.disk = 0 /\ wants.blit = 0
  BY <1>2
<1> QED
  BY <1>2, <1>3, <1>4, <1>5, Zenon DEF A!ArbiterInit, A!CPU, CPU

LEMMA ArbiterClocks ==
    ASSUME SchedInv, NEW c \in BOOLEAN, Step(c)
    PROVE  A!Clock(c)
<1> DEFINE own == table_owner(LiveRegs, vpos, hpos)
           byDisk == disk_override(dmacon, own, wants.disk > 0)
<1>1. /\ granted' = IF byDisk THEN DISK
                    ELSE dynamic_owner(own, wants.blit > 0 /\ On(dmacon, "BLTEN"),
                                       "BLTPRI" \in dmacon, c /\ On(dmacon, "COPEN"))
      /\ dmacon' = IF byDisk THEN dmacon \cup {"DSKEN"} ELSE dmacon
      /\ LiveRegs' = [LiveRegs EXCEPT !.dmacon = dmacon']
  BY StepMoves, Zenon
<1>2. LiveRegs.dmacon = dmacon
  BY LiveRegsAre
<1>3. A!table_owner(LiveRegs, beamAt[2], beamAt[1]) = own
  BY SameOwner, Zenon DEF hpos, vpos
<1>4. A!disk_override(LiveRegs.dmacon, own, wants.disk > 0) = byDisk
  BY <1>2, SameOverride, Zenon
<1>5. beamAt' = A!Following(beamAt)
  BY Zenon DEF Step, next_at, A!Following, hpos, vpos
<1>6. /\ wants'.disk = IF granted' = DISK /\ wants.disk > 0 THEN wants.disk - 1 ELSE wants.disk
      /\ wants'.blit = IF granted' = BLITTER THEN wants.blit - 1 ELSE wants.blit
  <2> DEFINE owner == granted'
  <2>1. wants' = [disk |-> IF owner = DISK /\ wants.disk > 0 THEN wants.disk - 1
                           ELSE wants.disk,
                  blit |-> IF owner = BLITTER THEN wants.blit - 1 ELSE wants.blit]
    BY Zenon DEF Step
  <2> QED
    BY <2>1, Zenon
<1>7. A!DISK = DISK /\ A!BLITTER = BLITTER /\ \A d, b : A!On(d, b) = On(d, b)
  BY Zenon DEF A!DISK, DISK, A!BLITTER, BLITTER, A!On, On
<1>8. granted' = IF byDisk THEN A!DISK
                 ELSE A!dynamic_owner(own, wants.blit > 0 /\ A!On(LiveRegs.dmacon, "BLTEN"),
                                      "BLTPRI" \in LiveRegs.dmacon,
                                      c /\ A!On(LiveRegs.dmacon, "COPEN"))
  BY <1>1, <1>2, <1>7, SameDynamic, Zenon
<1>9. LiveRegs' = [LiveRegs EXCEPT !.dmacon = IF byDisk THEN @ \cup {"DSKEN"} ELSE @]
  <2>1. dmacon' = IF byDisk THEN LiveRegs.dmacon \cup {"DSKEN"} ELSE LiveRegs.dmacon
    BY <1>1, <1>2, Zenon
  <2> QED
    BY <1>1, <2>1, Zenon
<1> HIDE DEF own, byDisk
<1> QED
  BY <1>3, <1>4, <1>5, <1>6, <1>7, <1>8, <1>9, Zenon DEF A!Clock

LEMMA ArbiterFollows ==
    SchedInv /\ [BusNext]_busVars => [A!ArbiterNext]_(A!arbiterVars)
<1> SUFFICES ASSUME SchedInv, [BusNext]_busVars
             PROVE  A!ArbiterNext \/ UNCHANGED A!arbiterVars
  OBVIOUS
<1>1. ASSUME NEW c \in BOOLEAN, Step(c) PROVE A!ArbiterNext
  BY <1>1, ArbiterClocks, Zenon DEF A!ArbiterNext
<1>2. CASE GuestOp
  BY <1>2, GuestOpKeeps, Zenon DEF A!ArbiterNext, A!Change
<1>3. CASE ResetAgnus
  <2>1. LiveRegs'.dmacon = {}
    BY <1>3, ResetKeeps, LiveRegsAre
  <2>2. wants'.disk = 0 /\ wants'.blit = 0
    BY <1>3, ResetKeeps
  <2> QED
    BY <1>3, <2>1, <2>2, ResetKeeps, Zenon DEF A!ArbiterNext, A!Reset, A!CPU, CPU
<1>4. CASE UNCHANGED busVars
  <2>1. UNCHANGED <<sched, beamAt, dmacon, wants, granted>>
    BY <1>4 DEF busVars
  <2>2. LiveRegs' = LiveRegs
    BY <2>1, LiveRegsAre
  <2> QED
    BY <2>1, <2>2, Zenon DEF A!arbiterVars
<1> QED
  BY <1>1, <1>2, <1>3, <1>4, BusNextSplit, Zenon

(* The slot scheduler grants every clock to the owner that the registers   *)
(* of that moment, the beam and the requests call for, though it looks at  *)
(* a table it rebuilds only when DMACON, a register or the line changed    *)
(* (agnus_slot_scheduler_step): for any layout of the line, any plane      *)
(* order and any sequence of register writes.                              *)
THEOREM SchedulerImplementsArbiter == Spec => ImplementsArbiter
<1>1. Spec => []SchedInv
  BY SchedInvHolds, SchedInvStep, PTL DEF Spec
<1> QED
  BY <1>1, ArbiterStarts, ArbiterFollows, PTL DEF Spec, ImplementsArbiter, A!ArbiterSpec

-----------------------------------------------------------------------------
(* Which word a clock fetches.                                             *)

(* The clock of word w of plane p.                                         *)
ClockOf(r, p, w) ==
    IF r.hires THEN r.ddfstrt + (r.depth * w + p) ELSE r.ddfstrt + (Unit * w + PlaneOrder[p])

(* The words of a line, and those fetched before clock h.                  *)
AllWords(r, pt) == LineWords(pt, r.depth, words_per_plane(r))

FetchedBefore(r, pt, h) == {x \in AllWords(r, pt) : ClockOf(r, x[1], x[2]) < h}

LEMMA SchedRegFields ==
    ASSUME NEW r \in SchedRegs
    PROVE  r.depth \in 0..7 /\ r.ddfstrt \in Nat /\ words_per_plane(r) \in Nat
<1>1. words_per_plane(r) \in Nat
  BY WordsType
<1> QED
  BY <1>1, Zenon DEF SchedRegs

LEMMA PlaneFacts ==
    ASSUME NEW p \in Plane
    PROVE  /\ p \in Nat /\ p < MaxDepth /\ MaxDepth \in Nat
           /\ Unit \in Nat \ {0} /\ PlaneOrder[p] \in 0..(Unit - 1) /\ PlaneOrder[p] \in Nat
BY SlotMapAssumption DEF Plane

(* A display that fetches has planes.                                      *)
LEMMA DepthIs ==
    ASSUME NEW r \in SchedRegs, words_per_plane(r) # 0
    PROVE  r.depth \in 1..MaxDepth
<1>1. r.depth \in 0..7
  BY SchedRegFields, Zenon
<1>2. ~(r.depth = 0 \/ r.depth > MaxDepth)
  BY Zenon DEF words_per_plane
<1>3. MaxDepth \in Nat
  BY SlotMapAssumption
<1> QED
  BY <1>1, <1>2, <1>3

LEMMA ClockType ==
    ASSUME NEW r \in SchedRegs, NEW p \in Plane, NEW w \in Nat
    PROVE  ClockOf(r, p, w) \in Nat
<1>a. r.depth \in 0..7 /\ r.ddfstrt \in Nat
  BY SchedRegFields, Zenon
<1>1. r.depth \in Nat /\ r.ddfstrt \in Nat /\ p \in Nat /\ PlaneOrder[p] \in Nat /\ Unit \in Nat
  BY <1>a, PlaneFacts
<1>2. \A a, b \in Nat : a * b \in Nat
  OBVIOUS
<1>3. PICK d \in Nat, i \in Nat : d = r.depth * w /\ i = Unit * w
  BY <1>1, <1>2
<1>4. r.ddfstrt + (d + p) \in Nat /\ r.ddfstrt + (i + PlaneOrder[p]) \in Nat
  BY <1>1
<1> QED
  BY <1>3, <1>4, Zenon DEF ClockOf

(* No clock has two words.                                                 *)
LEMMA ClockUnique ==
    ASSUME NEW r \in SchedRegs, NEW p \in Plane, NEW w \in Nat, p < r.depth,
           NEW q \in Plane, NEW v \in Nat, q < r.depth,
           ClockOf(r, p, w) = ClockOf(r, q, v)
    PROVE  p = q /\ w = v
<1>a. r.depth \in 0..7 /\ r.ddfstrt \in Nat
  BY SchedRegFields, Zenon
<1>1. r.depth \in Nat /\ r.ddfstrt \in Nat /\ p \in Nat /\ q \in Nat
  BY <1>a, PlaneFacts
<1>2. CASE r.hires
  <2>1. r.depth \in Nat \ {0} /\ p \in 0..(r.depth - 1) /\ q \in 0..(r.depth - 1)
    BY <1>1
  <2>a. PICK k \in Nat \ {0} : k = r.depth
    BY <2>1
  <2>b. k * w \in Int /\ k * v \in Int
    BY <1>1
  <2>2. PICK d \in Int, e \in Int : d = k * w /\ e = k * v
    BY <2>b
  <2>3. r.ddfstrt + (d + p) = r.ddfstrt + (e + q)
    BY <1>2, <2>a, <2>2, Zenon DEF ClockOf
  <2>4. d + p = e + q
    BY <1>1, <2>3
  <2>c. p \in 0..(k - 1) /\ q \in 0..(k - 1) /\ w \in Int /\ v \in Int
    BY <2>1, <2>a
  <2>5. /\ (d + p) \div k = w /\ (d + p) % k = p
        /\ (e + q) \div k = v /\ (e + q) % k = q
    BY <2>2, <2>c, DivUnique, Zenon
  <2> QED
    BY <2>4, <2>5, Zenon
<1>3. CASE ~r.hires
  <2>1. Unit \in Nat \ {0} /\ PlaneOrder[p] \in 0..(Unit - 1) /\ PlaneOrder[q] \in 0..(Unit - 1)
    BY PlaneFacts
  <2>2. PICK d \in Int, e \in Int : d = Unit * w /\ e = Unit * v
    BY <1>1, <2>1
  <2>3. r.ddfstrt + (d + PlaneOrder[p]) = r.ddfstrt + (e + PlaneOrder[q])
    BY <1>3, <2>2, Zenon DEF ClockOf
  <2>4. d + PlaneOrder[p] = e + PlaneOrder[q]
    BY <1>1, <2>1, <2>3
  <2>5. /\ (d + PlaneOrder[p]) \div Unit = w /\ (d + PlaneOrder[p]) % Unit = PlaneOrder[p]
        /\ (e + PlaneOrder[q]) \div Unit = v /\ (e + PlaneOrder[q]) % Unit = PlaneOrder[q]
    BY <2>1, <2>2, DivUnique
  <2> QED
    BY <2>4, <2>5, SlotMapAssumption, Zenon
<1> QED
  BY <1>2, <1>3

(* The words in the table are those whose clock it is.                     *)
LEMMA LogicalIs ==
    ASSUME NEW r \in SchedRegs, NEW h \in Slot, words_per_plane(r) # 0, NEW i
    PROVE  i \in logical_at(r, h) <=>
             \E p \in 0..(r.depth - 1), w \in 0..(words_per_plane(r) - 1) :
                 ClockOf(r, p, w) = h /\ i = r.depth * w + p
<1>0. PICK d \in 1..MaxDepth : d = r.depth
  BY DepthIs, Zenon
<1>1. PICK n \in Nat : n = words_per_plane(r)
  BY SchedRegFields, Zenon
<1>2. PICK f \in Nat : f = r.ddfstrt
  BY SchedRegFields, Zenon
<1>3. h \in Nat /\ d \in Nat \ {0} /\ \A p \in 0..(d - 1) : p \in Plane /\ p \in Nat
  <2>1. h \in Nat
    BY DEF Slot
  <2>2. MaxDepth \in Nat
    BY SlotMapAssumption
  <2>3. d \in Nat \ {0} /\ \A p \in 0..(d - 1) : p \in 0..(MaxDepth - 1) /\ p \in Nat
    BY <2>2
  <2> QED
    BY <2>1, <2>3, Zenon DEF Plane
<1>4. CASE r.hires
  <2>1. i \in logical_at(r, h) <=> i = h - f /\ i \in 0..(n * d - 1)
    BY <1>0, <1>1, <1>2, <1>4, Zenon DEF logical_at
  <2>2. ASSUME i = h - f, i \in 0..(n * d - 1)
        PROVE  \E p \in 0..(d - 1), w \in 0..(n - 1) : h = f + (d * w + p) /\ i = d * w + p
    <3>1. PICK w \in Nat, p \in 0..(d - 1) : i = d * w + p
      <4>1. i \in Nat
        BY <2>2
      <4>2. i \div d \in Nat /\ i % d \in 0..(d - 1) /\ i = d * (i \div d) + (i % d)
        BY <1>3, <4>1, DivMod
      <4> QED
        BY <4>2
    <3>2. w < n
      <4> SUFFICES ASSUME w >= n PROVE FALSE
        OBVIOUS
      <4>1. d * w >= n * d
        BY <1>3
      <4> QED
        BY <2>2, <3>1, <4>1
    <3> QED
      BY <1>3, <2>2, <3>1, <3>2
  <2>3. ASSUME NEW p \in 0..(d - 1), NEW w \in 0..(n - 1), h = f + (d * w + p), i = d * w + p
        PROVE  i = h - f /\ i \in 0..(n * d - 1)
    <3>1. d * w \in Nat /\ d * w + d <= n * d
      BY <1>3
    <3> QED
      BY <2>3, <3>1
  <2>4. \A p, w : ClockOf(r, p, w) = f + (d * w + p)
    BY <1>0, <1>2, <1>4, Zenon DEF ClockOf
  <2> QED
    BY <1>0, <1>1, <2>1, <2>2, <2>3, <2>4, Zenon
<1>5. CASE ~r.hires
  <2>1. i \in logical_at(r, h) <=>
          \E x \in (0..(n - 1)) \X Plane :
              x[2] < d /\ h = f + x[1] * Unit + PlaneOrder[x[2]] /\ i = x[1] * d + x[2]
    BY <1>0, <1>1, <1>2, <1>5, Zenon DEF logical_at
  <2>2. ASSUME NEW p \in Plane, NEW w \in 0..(n - 1)
        PROVE  /\ f + w * Unit + PlaneOrder[p] = f + (Unit * w + PlaneOrder[p])
               /\ w * d + p = d * w + p
    <3>1. PICK u \in Nat, e \in Nat : u = Unit * w /\ u = w * Unit /\ e = d * w /\ e = w * d
      BY <1>3, PlaneFacts
    <3>2. PlaneOrder[p] \in Nat /\ p \in Nat
      BY PlaneFacts
    <3> QED
      BY <3>1, <3>2
  <2>3. \A p, w : ClockOf(r, p, w) = f + (Unit * w + PlaneOrder[p])
    BY <1>2, <1>5, Zenon DEF ClockOf
  <2>4. ASSUME NEW x \in (0..(n - 1)) \X Plane, x[2] < d,
               h = f + x[1] * Unit + PlaneOrder[x[2]], i = x[1] * d + x[2]
        PROVE  \E p \in 0..(d - 1), w \in 0..(n - 1) : ClockOf(r, p, w) = h /\ i = d * w + p
    <3>1. x[1] \in 0..(n - 1) /\ x[2] \in Plane
      OBVIOUS
    <3>2. x[2] \in 0..(d - 1)
      BY <1>3, <2>4, <3>1, PlaneFacts
    <3>3. f + x[1] * Unit + PlaneOrder[x[2]] = f + (Unit * x[1] + PlaneOrder[x[2]])
      BY <2>2, <3>1, Zenon
    <3>4. x[1] * d + x[2] = d * x[1] + x[2]
      BY <2>2, <3>1, Zenon
    <3>5. ClockOf(r, x[2], x[1]) = h
      BY <2>3, <2>4, <3>3, Zenon
    <3>6. i = d * x[1] + x[2]
      BY <2>4, <3>4, Zenon
    <3> QED
      BY <3>1, <3>2, <3>5, <3>6, Zenon
  <2>5. ASSUME NEW p \in 0..(d - 1), NEW w \in 0..(n - 1), ClockOf(r, p, w) = h, i = d * w + p
        PROVE  \E x \in (0..(n - 1)) \X Plane :
                  x[2] < d /\ h = f + x[1] * Unit + PlaneOrder[x[2]] /\ i = x[1] * d + x[2]
    <3>1. PICK x \in (0..(n - 1)) \X Plane : x = <<w, p>>
      BY <1>3
    <3>2. x[1] = w /\ x[2] = p /\ p < d /\ p \in Plane
      BY <1>3, <3>1
    <3>a. f + w * Unit + PlaneOrder[p] = f + (Unit * w + PlaneOrder[p]) /\ w * d + p = d * w + p
      BY <2>2, <3>2, Zenon
    <3>b. h = f + (Unit * w + PlaneOrder[p])
      BY <2>3, <2>5, Zenon
    <3>3. h = f + w * Unit + PlaneOrder[p] /\ i = w * d + p
      BY <2>5, <3>a, <3>b, Zenon
    <3> QED
      BY <3>2, <3>3, Zenon
  <2> QED
    BY <1>0, <1>1, <2>1, <2>4, <2>5, Zenon
<1> QED
  BY <1>4, <1>5

(* The word a clock fetches, if any.                                       *)
LEMMA LogicalOne ==
    ASSUME NEW r \in SchedRegs, NEW h \in Slot, logical_at(r, h) # {}
    PROVE  /\ r.depth \in 1..MaxDepth
           /\ \E p \in 0..(r.depth - 1), w \in 0..(words_per_plane(r) - 1) :
                LET i == word_of(logical_at(r, h))
                IN ClockOf(r, p, w) = h /\ i % r.depth = p /\ i \div r.depth = w
<1>1. words_per_plane(r) # 0
  <2> SUFFICES ASSUME words_per_plane(r) = 0 PROVE FALSE
    OBVIOUS
  <2>1. \A i, d \in Int : ~(i \in 0..(0 * d - 1)) /\ ~(i \in 0..(0 - 1))
    OBVIOUS
  <2>2. r.depth \in 0..7 /\ r.ddfstrt \in Nat /\ h \in Nat
    BY SchedRegFields DEF Slot
  <2>3. r.depth \in Int /\ h - r.ddfstrt \in Int
    BY <2>2
  <2>4. CASE r.hires
    <3>1. PICK i : i = h - r.ddfstrt /\ i \in 0..(0 * r.depth - 1)
      BY <2>4, Zenon DEF logical_at
    <3> QED
      BY <2>1, <2>3, <3>1, Zenon
  <2>5. CASE ~r.hires
    <3>1. \E x \in (0..(0 - 1)) \X Plane : TRUE
      BY <2>5, Zenon DEF logical_at
    <3>2. \E i \in 0..(0 - 1) : TRUE
      BY <3>1
    <3> QED
      BY <3>2
  <2> QED
    BY <2>4, <2>5
<1>2. r.depth \in 1..MaxDepth
  BY <1>1, DepthIs, Zenon
<1>3. PICK i : i = word_of(logical_at(r, h))
  OBVIOUS
<1>4. i \in logical_at(r, h)
  BY <1>3, Zenon DEF word_of
<1>5. PICK p \in 0..(r.depth - 1), w \in 0..(words_per_plane(r) - 1) :
         ClockOf(r, p, w) = h /\ i = r.depth * w + p
  BY <1>1, <1>4, LogicalIs
<1>6. PICK d \in Nat \ {0} : d = r.depth
  BY <1>2
<1>7. p \in 0..(d - 1) /\ w \in Int
  BY <1>5, <1>6
<1>8. (d * w + p) \div d = w /\ (d * w + p) % d = p
  BY <1>7, DivUnique, Zenon
<1> QED
  BY <1>2, <1>3, <1>5, <1>6, <1>8, Zenon

-----------------------------------------------------------------------------
(* The latches of a line.                                                  *)

BplPtr == 0..(PtrWords - 1)

BplState ==
    [pt: [Plane -> BplPtr], mod: Int \X Int, base: [Plane -> BplPtr], valid: BOOLEAN,
     depth: 0..MaxDepth, count: Nat, words: SUBSET (Plane \X (0..(MaxWords - 1)) \X BplPtr)]

(* A word kept is one word on from the last, from where the line began.    *)
BplSound(b) ==
    /\ b \in BplState
    /\ ~b.valid => b.words = {} /\ b.count = 0
    /\ \A x \in b.words : x[3] = PtrOf(b.base[x[1]] + x[2])

LEMMA PtrOfType ==
    ASSUME NEW p \in Int
    PROVE  PtrOf(p) \in BplPtr
BY DEF PtrOf, BplPtr

LEMMA BplFields ==
    ASSUME NEW b \in BplState
    PROVE  /\ b.pt \in [Plane -> BplPtr] /\ b.mod \in Int \X Int /\ b.base \in [Plane -> BplPtr]
           /\ b.valid \in BOOLEAN /\ b.depth \in 0..MaxDepth /\ b.count \in Nat
           /\ b.words \in SUBSET (Plane \X (0..(MaxWords - 1)) \X BplPtr)
BY Zenon DEF BplState

(* What a fetch of word w of plane p leaves.                               *)
Fetching(b, d, p, w, e) ==
    /\ e \in BplState /\ e.valid /\ e.pt = b.pt /\ e.mod = b.mod
    /\ e.base = IF b.valid THEN b.base ELSE b.pt
    /\ e.depth = IF b.valid THEN b.depth ELSE d
    /\ e.words = b.words \cup {<<p, w, PtrOf(e.base[p] + w)>>}
    /\ e.count = IF w + 1 > b.count THEN w + 1 ELSE b.count

LEMMA FetchIs ==
    ASSUME NEW b \in BplState, NEW d \in 1..MaxDepth, NEW i, NEW p \in 0..(d - 1), NEW w \in Nat,
           i % d = p, i \div d = w, w < MaxWords
    PROVE  Fetching(b, d, p, w, fetch_bitplane(b, d, i))
<1>0. /\ b.pt \in [Plane -> BplPtr] /\ b.base \in [Plane -> BplPtr]
      /\ b.valid \in BOOLEAN /\ b.depth \in 0..MaxDepth /\ b.count \in Nat
      /\ b.words \in SUBSET (Plane \X (0..(MaxWords - 1)) \X BplPtr)
  BY BplFields, Zenon
<1>1. PICK B \in [Plane -> BplPtr] : B = IF b.valid THEN b.base ELSE b.pt
  BY <1>0, Zenon
<1>2. PICK D \in 0..MaxDepth : D = IF b.valid THEN b.depth ELSE d
  <2>1. d \in 0..MaxDepth
    OBVIOUS
  <2> QED
    BY <1>0, <2>1, Zenon
<1>3. PICK C \in Nat : C = IF w + 1 > b.count THEN w + 1 ELSE b.count
  <2>1. w + 1 \in Nat
    OBVIOUS
  <2> QED
    BY <1>0, <2>1, Zenon
<1>4. p \in Plane /\ w \in 0..(MaxWords - 1)
  <2>1. MaxDepth \in Nat /\ MaxWords \in Nat
    BY SlotMapAssumption
  <2>2. p \in 0..(MaxDepth - 1) /\ w \in 0..(MaxWords - 1)
    BY <2>1
  <2> QED
    BY <2>2, Zenon DEF Plane
<1>5. PtrOf(B[p] + w) \in BplPtr
  <2>1. B[p] \in BplPtr
    BY <1>1, <1>4, Zenon
  <2>2. B[p] + w \in Int
    BY <2>1 DEF BplPtr
  <2> QED
    BY <2>2, PtrOfType
<1>6. PICK Ws \in SUBSET (Plane \X (0..(MaxWords - 1)) \X BplPtr) :
         Ws = b.words \cup {<<p, w, PtrOf(B[p] + w)>>}
  <2>1. <<p, w, PtrOf(B[p] + w)>> \in Plane \X (0..(MaxWords - 1)) \X BplPtr
    BY <1>4, <1>5
  <2> QED
    BY <1>0, <2>1, Zenon
<1>7. fetch_bitplane(b, d, i) =
        [b EXCEPT !.base = B, !.valid = TRUE, !.depth = D, !.words = Ws, !.count = C]
  BY <1>1, <1>2, <1>3, <1>6, Zenon DEF fetch_bitplane
<1>8. PICK e : e = [b EXCEPT !.base = B, !.valid = TRUE, !.depth = D, !.words = Ws, !.count = C]
  OBVIOUS
<1>9. e \in BplState
  BY <1>8, Zenon DEF BplState
<1>10. /\ e.valid /\ e.pt = b.pt /\ e.mod = b.mod /\ e.base = B /\ e.depth = D
       /\ e.words = Ws /\ e.count = C
  BY <1>8, Zenon DEF BplState
<1>11. e.words = b.words \cup {<<p, w, PtrOf(e.base[p] + w)>>}
  BY <1>6, <1>10, Zenon
<1>12. /\ e.base = IF b.valid THEN b.base ELSE b.pt
       /\ e.depth = IF b.valid THEN b.depth ELSE d
       /\ e.count = IF w + 1 > b.count THEN w + 1 ELSE b.count
  BY <1>1, <1>2, <1>3, <1>10, Zenon
<1>13. Fetching(b, d, p, w, e)
  BY <1>9, <1>10, <1>11, <1>12, Zenon DEF Fetching
<1> QED
  BY <1>7, <1>8, <1>13, Zenon

(* A fetch that does not fit is not made.                                  *)
LEMMA FetchSound ==
    ASSUME NEW b, BplSound(b), NEW d \in 1..MaxDepth, NEW i, NEW p \in 0..(d - 1),
           NEW w \in Nat, i % d = p, i \div d = w,
           NEW e, e = fetch_bitplane(b, d, i)
    PROVE  /\ BplSound(e) /\ e.pt = b.pt /\ e.mod = b.mod
           /\ (b.valid => b.base = b.pt /\ b.depth = d) =>
                 (e.valid => e.base = e.pt /\ e.depth = d)
<1>0. b \in BplState
  BY Zenon DEF BplSound
<1>1. CASE ~(w < MaxWords)
  <2>1. e = b
    BY <1>1, Zenon DEF fetch_bitplane
  <2> QED
    BY <2>1, Zenon
<1>2. CASE w < MaxWords
  <2>1. Fetching(b, d, p, w, e)
    BY <1>0, <1>2, FetchIs, Zenon
  <2>2. /\ e \in BplState /\ e.valid /\ e.pt = b.pt /\ e.mod = b.mod
        /\ e.base = IF b.valid THEN b.base ELSE b.pt
        /\ e.depth = IF b.valid THEN b.depth ELSE d
        /\ e.words = b.words \cup {<<p, w, PtrOf(e.base[p] + w)>>}
    BY <2>1, Zenon DEF Fetching
  <2>3. ASSUME NEW x \in e.words PROVE x[3] = PtrOf(e.base[x[1]] + x[2])
    <3>1. CASE x \in b.words
      <4>1. b.valid /\ x[3] = PtrOf(b.base[x[1]] + x[2])
        BY <3>1, Zenon DEF BplSound
      <4> QED
        BY <2>2, <4>1, Zenon
    <3>2. CASE x = <<p, w, PtrOf(e.base[p] + w)>>
      <4>1. x[1] = p /\ x[2] = w /\ x[3] = PtrOf(e.base[p] + w)
        BY <3>2
      <4> QED
        BY <4>1, Zenon
    <3> QED
      BY <2>2, <3>1, <3>2, Zenon
  <2>4. BplSound(e)
    BY <2>2, <2>3, Zenon DEF BplSound
  <2> QED
    BY <2>2, <2>4, Zenon
<1> QED
  BY <1>1, <1>2

LEMMA LineReset ==
    ASSUME NEW b \in BplState
    PROVE  BplSound(line_reset(b)) /\ ~line_reset(b).valid /\ line_reset(b).pt = b.pt
<1>1. PICK z \in [Plane -> BplPtr] : z = [p \in Plane |-> 0]
  <2>1. 0 \in BplPtr
    BY DEF BplPtr
  <2> QED
    BY <2>1, Zenon
<1>a. PICK d \in 0..MaxDepth : d = 0
  OBVIOUS
<1>b. PICK n \in Nat : n = 0
  OBVIOUS
<1>2. PICK e \in SUBSET (Plane \X (0..(MaxWords - 1)) \X BplPtr) : e = {}
  BY Zenon
<1>c. PICK v \in BOOLEAN : v = FALSE
  BY Zenon
<1>3. line_reset(b) = [b EXCEPT !.base = z, !.valid = v, !.depth = d, !.count = n, !.words = e]
  BY <1>1, <1>a, <1>b, <1>c, <1>2, Zenon DEF line_reset
<1>4. line_reset(b) \in BplState
  <2>1. [b EXCEPT !.base = z, !.valid = v, !.depth = d, !.count = n, !.words = e] \in BplState
    BY ZenonT(60) DEF BplState
  <2> QED
    BY <1>3, <2>1, Zenon
<1>5. /\ line_reset(b).valid = v /\ line_reset(b).words = e /\ line_reset(b).count = n
      /\ line_reset(b).pt = b.pt
  BY <1>3, Zenon DEF BplState
<1>6. ~line_reset(b).valid /\ line_reset(b).words = {} /\ line_reset(b).count = 0
  BY <1>b, <1>c, <1>2, <1>5, Zenon
<1> QED
  BY <1>4, <1>5, <1>6, Zenon DEF BplSound

(* At the end of a line the pointers move on by the words and the modulo.  *)
LEMMA PointersMove ==
    ASSUME NEW b, BplSound(b)
    PROVE  /\ BplSound(end_line(b)) /\ ~end_line(b).valid
           /\ end_line(b).pt = IF b.valid THEN apply_modulo(b) ELSE b.pt
<1>0. /\ b \in BplState /\ b.pt \in [Plane -> BplPtr] /\ b.base \in [Plane -> BplPtr]
      /\ b.depth \in 0..MaxDepth /\ b.count \in Nat /\ b.mod \in Int \X Int
  BY BplFields, Zenon DEF BplSound
<1>1. ASSUME NEW p \in Plane
      PROVE  PtrOf(b.base[p] + b.count + b.mod[1 + (p % 2)]) \in BplPtr
  <2>1. b.base[p] \in BplPtr
    BY <1>0, Zenon
  <2>a. p \in Nat
    BY PlaneFacts, Zenon
  <2>2. 1 + (p % 2) \in {1, 2}
    BY <2>a
  <2>3. b.mod[1] \in Int /\ b.mod[2] \in Int
    BY <1>0
  <2>4. PICK m \in Int : m = b.mod[1 + (p % 2)]
    BY <2>2, <2>3
  <2>5. b.base[p] + b.count + m \in Int
    BY <1>0, <2>1 DEF BplPtr
  <2> QED
    BY <2>4, <2>5, PtrOfType
<1>2. PICK q \in [Plane -> BplPtr] : q = apply_modulo(b)
  BY <1>0, <1>1, Zenon DEF apply_modulo
<1>3. PICK c : c = IF b.valid THEN [b EXCEPT !.pt = q] ELSE b
  OBVIOUS
<1>4. c \in BplState /\ c.pt = IF b.valid THEN apply_modulo(b) ELSE b.pt
  <2>1. CASE b.valid
    <3>1. c = [b EXCEPT !.pt = q]
      BY <1>3, <2>1, Zenon
    <3> QED
      BY <1>0, <1>2, <2>1, <3>1, Zenon DEF BplState
  <2>2. CASE ~b.valid
    BY <1>0, <1>3, <2>2, Zenon
  <2> QED
    BY <2>1, <2>2
<1>5. end_line(b) = line_reset(c)
  BY <1>2, <1>3, Zenon DEF end_line
<1> QED
  BY <1>4, <1>5, LineReset, Zenon

-----------------------------------------------------------------------------
(* A line, clock by clock.                                                 *)

(* A line of as many words as Denise keeps.                                *)
Regular(r, v) == fetching(r, v) /\ words_per_plane(r) \in 1..MaxWords

LineSoFar(b, r, h) ==
    /\ b.words = FetchedBefore(r, b.pt, h)
    /\ b.count <= words_per_plane(r) /\ \A x \in b.words : x[2] < b.count
    /\ b.valid => b.words # {}

LEMMA AllWordsAre ==
    ASSUME NEW r \in SchedRegs, words_per_plane(r) # 0, NEW pt
    PROVE  /\ \A x \in AllWords(r, pt) :
                /\ x[1] \in 0..(r.depth - 1) /\ x[2] \in 0..(words_per_plane(r) - 1)
                /\ x = <<x[1], x[2], PtrOf(pt[x[1]] + x[2])>>
                /\ ClockOf(r, x[1], x[2]) \in Nat
           /\ \A p \in 0..(r.depth - 1), w \in 0..(words_per_plane(r) - 1) :
                /\ <<p, w, PtrOf(pt[p] + w)>> \in AllWords(r, pt)
                /\ p \in Plane /\ w \in Nat /\ p < r.depth /\ ClockOf(r, p, w) \in Nat
<1>1. PICK d \in 1..MaxDepth : d = r.depth
  BY DepthIs, Zenon
<1>2. PICK n \in Nat : n = words_per_plane(r)
  BY SchedRegFields, Zenon
<1>3. ASSUME NEW p \in 0..(d - 1), NEW w \in 0..(n - 1)
      PROVE  p \in Plane /\ w \in Nat /\ p < d
  BY SMTT(30) DEF Plane
<1>4. \A p \in 0..(r.depth - 1), w \in 0..(words_per_plane(r) - 1) :
         p \in Plane /\ w \in Nat /\ p < r.depth /\ ClockOf(r, p, w) \in Nat
  BY <1>1, <1>2, <1>3, ClockType, Zenon
<1>5. ASSUME NEW x \in AllWords(r, pt)
      PROVE  /\ x[1] \in 0..(r.depth - 1) /\ x[2] \in 0..(words_per_plane(r) - 1)
             /\ x = <<x[1], x[2], PtrOf(pt[x[1]] + x[2])>>
  <2>1. PICK p \in 0..(r.depth - 1), w \in 0..(words_per_plane(r) - 1) :
           x = <<p, w, PtrOf(pt[p] + w)>>
    BY DEF AllWords, LineWords
  <2>2. x[1] = p /\ x[2] = w
    BY <2>1
  <2> QED
    BY <2>1, <2>2, Zenon
<1>6. \A p \in 0..(r.depth - 1), w \in 0..(words_per_plane(r) - 1) :
         <<p, w, PtrOf(pt[p] + w)>> \in AllWords(r, pt)
  BY DEF AllWords, LineWords
<1> QED
  BY <1>4, <1>5, <1>6, Zenon

LEMMA QuietStart ==
    ASSUME NEW r \in SchedRegs, words_per_plane(r) # 0, NEW b, BplSound(b), ~b.valid
    PROVE  LineSoFar(b, r, 0)
<1>1. b.words = {} /\ b.count = 0
  BY Zenon DEF BplSound
<1>2. \A x \in AllWords(r, b.pt) : ~(ClockOf(r, x[1], x[2]) < 0)
  <2>1. \A k \in Nat : ~(k < 0)
    OBVIOUS
  <2> QED
    BY <2>1, AllWordsAre
<1>3. FetchedBefore(r, b.pt, 0) = {}
  BY <1>2, Zenon DEF FetchedBefore
<1>4. 0 <= words_per_plane(r)
  BY SchedRegFields
<1> QED
  BY <1>1, <1>3, <1>4, Zenon DEF LineSoFar

(* One clock adds its word, if it has one.                                 *)
LEMMA BeforeNext ==
    ASSUME NEW r \in SchedRegs, words_per_plane(r) # 0, NEW pt, NEW h \in Slot
    PROVE  /\ \A p \in 0..(r.depth - 1), w \in 0..(words_per_plane(r) - 1) :
                ClockOf(r, p, w) = h =>
                  FetchedBefore(r, pt, h + 1) =
                    FetchedBefore(r, pt, h) \cup {<<p, w, PtrOf(pt[p] + w)>>}
           /\ logical_at(r, h) = {} => FetchedBefore(r, pt, h + 1) = FetchedBefore(r, pt, h)
<1>0. h \in Nat
  BY DEF Slot
<1>a. \A x \in AllWords(r, pt) :
         /\ x[1] \in 0..(r.depth - 1) /\ x[2] \in 0..(words_per_plane(r) - 1)
         /\ x = <<x[1], x[2], PtrOf(pt[x[1]] + x[2])>>
         /\ ClockOf(r, x[1], x[2]) \in Nat
  BY AllWordsAre
<1>b. \A p \in 0..(r.depth - 1), w \in 0..(words_per_plane(r) - 1) :
         /\ <<p, w, PtrOf(pt[p] + w)>> \in AllWords(r, pt)
         /\ p \in Plane /\ w \in Nat /\ p < r.depth
  BY AllWordsAre
<1>1. \A k \in Nat : k < h + 1 <=> (k < h \/ k = h)
  BY <1>0
<1>2. \A x \in AllWords(r, pt) :
         x \in FetchedBefore(r, pt, h + 1) <=>
           x \in FetchedBefore(r, pt, h) \/ ClockOf(r, x[1], x[2]) = h
  BY <1>1, <1>a, Zenon DEF FetchedBefore
<1>3. /\ \A x \in FetchedBefore(r, pt, h + 1) : x \in AllWords(r, pt)
      /\ \A x \in FetchedBefore(r, pt, h) : x \in AllWords(r, pt)
  BY Zenon DEF FetchedBefore
<1>4. ASSUME NEW p \in 0..(r.depth - 1), NEW w \in 0..(words_per_plane(r) - 1),
             ClockOf(r, p, w) = h
      PROVE  FetchedBefore(r, pt, h + 1) =
               FetchedBefore(r, pt, h) \cup {<<p, w, PtrOf(pt[p] + w)>>}
  <2>1. PICK y : y = <<p, w, PtrOf(pt[p] + w)>>
    OBVIOUS
  <2>2. y \in AllWords(r, pt) /\ p \in Plane /\ w \in Nat /\ p < r.depth
    BY <1>b, <2>1, Zenon
  <2>3. y[1] = p /\ y[2] = w
    BY <2>1
  <2>4. y \in FetchedBefore(r, pt, h + 1)
    BY <1>2, <1>4, <2>2, <2>3, Zenon
  <2>5. ASSUME NEW x \in AllWords(r, pt), ClockOf(r, x[1], x[2]) = h PROVE x = y
    <3>1. /\ x[1] \in 0..(r.depth - 1) /\ x[2] \in 0..(words_per_plane(r) - 1)
          /\ x = <<x[1], x[2], PtrOf(pt[x[1]] + x[2])>>
      BY <1>a, Zenon
    <3>2. x[1] \in Plane /\ x[2] \in Nat /\ x[1] < r.depth
      BY <1>b, <3>1, Zenon
    <3>3. x[1] = p /\ x[2] = w
      BY <1>4, <2>2, <2>5, <3>2, ClockUnique
    <3> QED
      BY <2>1, <3>1, <3>3, Zenon
  <2>6. \A x : x \in FetchedBefore(r, pt, h + 1) <=> x \in FetchedBefore(r, pt, h) \/ x = y
    BY <1>2, <1>3, <2>4, <2>5, Zenon
  <2> QED
    BY <2>1, <2>6, Zenon
<1>5. ASSUME logical_at(r, h) = {}
      PROVE  FetchedBefore(r, pt, h + 1) = FetchedBefore(r, pt, h)
  <2>1. ASSUME NEW x \in AllWords(r, pt), ClockOf(r, x[1], x[2]) = h PROVE FALSE
    <3>1. x[1] \in 0..(r.depth - 1) /\ x[2] \in 0..(words_per_plane(r) - 1)
      BY <1>a, Zenon
    <3>2. r.depth * x[2] + x[1] \in logical_at(r, h)
      BY <2>1, <3>1, LogicalIs
    <3> QED
      BY <1>5, <3>2, Zenon
  <2> QED
    BY <1>2, <1>3, <2>1, Zenon
<1> QED
  BY <1>4, <1>5

(* The bitplane fetch of clock h, as the scheduler makes it.               *)
FetchAt(b, r, h) ==
    IF logical_at(r, h) # {}
    THEN fetch_bitplane(b, r.depth, word_of(logical_at(r, h))) ELSE b

LEMMA FetchAtSound ==
    ASSUME NEW r \in SchedRegs, NEW h \in Slot, NEW b, BplSound(b), NEW e, e = FetchAt(b, r, h)
    PROVE  /\ BplSound(e) /\ e.pt = b.pt /\ e.mod = b.mod
           /\ (b.valid => b.base = b.pt /\ b.depth = r.depth) =>
                 (e.valid => e.base = e.pt /\ e.depth = r.depth)
<1>1. CASE logical_at(r, h) = {}
  <2>1. e = b
    BY <1>1, Zenon DEF FetchAt
  <2> QED
    BY <2>1, Zenon
<1>2. CASE logical_at(r, h) # {}
  <2>1. PICK i : i = word_of(logical_at(r, h))
    OBVIOUS
  <2>2. e = fetch_bitplane(b, r.depth, i)
    BY <1>2, <2>1, Zenon DEF FetchAt
  <2>3. PICK p \in 0..(r.depth - 1), w \in 0..(words_per_plane(r) - 1) :
           i % r.depth = p /\ i \div r.depth = w
    BY <1>2, <2>1, LogicalOne
  <2>4. PICK d \in 1..MaxDepth : d = r.depth
    BY <1>2, LogicalOne, Zenon
  <2>5. PICK v \in Nat : v = w
    BY <2>3, SchedRegFields
  <2>6. p \in 0..(d - 1) /\ i % d = p /\ i \div d = v /\ e = fetch_bitplane(b, d, i)
    BY <2>2, <2>3, <2>4, <2>5, Zenon
  <2>7. /\ BplSound(e) /\ e.pt = b.pt /\ e.mod = b.mod
        /\ (b.valid => b.base = b.pt /\ b.depth = d) =>
              (e.valid => e.base = e.pt /\ e.depth = d)
    BY <2>6, FetchSound
  <2> QED
    BY <2>4, <2>7, Zenon
<1> QED
  BY <1>1, <1>2

LEMMA FetchAtLine ==
    ASSUME NEW r \in SchedRegs, words_per_plane(r) \in 1..MaxWords, NEW h \in Slot,
           NEW b, BplSound(b), b.valid => b.base = b.pt, LineSoFar(b, r, h),
           NEW e, e = FetchAt(b, r, h)
    PROVE  LineSoFar(e, r, h + 1)
<1>0. PICK n \in 1..MaxWords : n = words_per_plane(r)
  OBVIOUS
<1>1. words_per_plane(r) # 0 /\ b \in BplState /\ b.count \in Nat
  BY <1>0, BplFields DEF BplSound
<1>2. CASE logical_at(r, h) = {}
  <2>1. e = b
    BY <1>2, Zenon DEF FetchAt
  <2>2. FetchedBefore(r, b.pt, h + 1) = FetchedBefore(r, b.pt, h)
    BY <1>1, <1>2, BeforeNext
  <2> QED
    BY <2>1, <2>2, Zenon DEF LineSoFar
<1>3. CASE logical_at(r, h) # {}
  <2>1. PICK i : i = word_of(logical_at(r, h))
    OBVIOUS
  <2>2. e = fetch_bitplane(b, r.depth, i)
    BY <1>3, <2>1, Zenon DEF FetchAt
  <2>3. PICK p \in 0..(r.depth - 1), w \in 0..(words_per_plane(r) - 1) :
           ClockOf(r, p, w) = h /\ i % r.depth = p /\ i \div r.depth = w
    BY <1>3, <2>1, LogicalOne
  <2>4. PICK d \in 1..MaxDepth : d = r.depth
    BY <1>3, LogicalOne, Zenon
  <2>5. PICK v \in Nat : v = w
    BY <2>3, SchedRegFields
  <2>6. p \in 0..(d - 1) /\ i % d = p /\ i \div d = v /\ e = fetch_bitplane(b, d, i)
    BY <2>2, <2>3, <2>4, <2>5, Zenon
  <2>7. v < MaxWords /\ v + 1 <= n
    BY <1>0, <2>3, <2>5
  <2>8. Fetching(b, d, p, v, e)
    BY <1>1, <2>6, <2>7, FetchIs
  <2>9. /\ e.valid /\ e.pt = b.pt
        /\ e.base = IF b.valid THEN b.base ELSE b.pt
        /\ e.words = b.words \cup {<<p, v, PtrOf(e.base[p] + v)>>}
        /\ e.count = IF v + 1 > b.count THEN v + 1 ELSE b.count
    BY <2>8, Zenon DEF Fetching
  <2>10. e.base = b.pt
    BY <2>9, Zenon
  <2>11. e.words = FetchedBefore(r, e.pt, h + 1)
    <3>1. FetchedBefore(r, b.pt, h + 1) =
            FetchedBefore(r, b.pt, h) \cup {<<p, w, PtrOf(b.pt[p] + w)>>}
      BY <1>1, <2>3, BeforeNext
    <3>2. b.words = FetchedBefore(r, b.pt, h)
      BY Zenon DEF LineSoFar
    <3> QED
      BY <2>5, <2>9, <2>10, <3>1, <3>2, Zenon
  <2>12. e.count <= n /\ b.count <= e.count /\ v < e.count /\ e.count \in Nat
    <3>1. b.count <= n
      BY <1>0, Zenon DEF LineSoFar
    <3> QED
      BY <1>1, <2>7, <2>9, <3>1
  <2>13. ASSUME NEW x \in e.words PROVE x[2] < e.count
    <3>1. CASE x \in b.words
      <4>1. x[2] < b.count
        BY <3>1, Zenon DEF LineSoFar
      <4>2. x \in Plane \X (0..(MaxWords - 1)) \X BplPtr
        BY <1>1, <3>1, BplFields, Zenon
      <4>3. x[2] \in Nat
        BY <4>2
      <4> QED
        BY <1>1, <2>12, <4>1, <4>3
    <3>2. CASE x = <<p, v, PtrOf(e.base[p] + v)>>
      <4>1. x[2] = v
        BY <3>2
      <4> QED
        BY <2>12, <4>1, Zenon
    <3> QED
      BY <2>9, <3>1, <3>2, Zenon
  <2>14. e.words # {}
    BY <2>9, Zenon
  <2> QED
    BY <1>0, <2>11, <2>12, <2>13, <2>14, Zenon DEF LineSoFar
<1> QED
  BY <1>2, <1>3

-----------------------------------------------------------------------------
(* One clock.                                                              *)

LEMMA OwnersDiffer ==
    /\ BITPLANE \notin {FREE, CPU, REFRESH, DISK, COPPER, BLITTER}
    /\ \A s : SPRITE(s) \notin {FREE, CPU, REFRESH, DISK, COPPER, BLITTER, BITPLANE}
    /\ \A s, c : AUDIO(c) # BITPLANE /\ AUDIO(c) # SPRITE(s)
    /\ \A s, c : SPRITE(s) = SPRITE(c) => s = c
BY DEF BITPLANE, FREE, CPU, REFRESH, DISK, COPPER, BLITTER, SPRITE, AUDIO

LEMMA OwnerIs ==
    ASSUME NEW r, NEW v, NEW h
    PROVE  /\ table_owner(r, v, h) = BITPLANE <=> fetching(r, v) /\ logical_at(r, h) # {}
           /\ table_owner(r, v, h) = SPRITE(0) => h \in SpritePos[0]
<1> DEFINE sprites == {s \in DOMAIN SpritePos : h \in SpritePos[s] /\ On(r.dmacon, "SPREN")}
           audio   == {c \in DOMAIN AudioPos : h = AudioPos[c] /\ On(r.dmacon, "AUDEN")}
           bit == fetching(r, v) /\ logical_at(r, h) # {}
<1>1. table_owner(r, v, h) =
        IF bit THEN BITPLANE
        ELSE IF sprites # {} THEN SPRITE(CHOOSE s \in sprites : TRUE)
        ELSE IF audio # {} THEN AUDIO(CHOOSE c \in audio : TRUE)
        ELSE IF h \in DiskPos /\ On(r.dmacon, "DSKEN") THEN DISK
        ELSE IF h \in RefreshPos THEN REFRESH
        ELSE IF "DMAEN" \in r.dmacon THEN FREE ELSE CPU
  BY Zenon DEF table_owner
<1>2. sprites # {} => (CHOOSE s \in sprites : TRUE) \in sprites
  BY Zenon
<1>3. \A s \in sprites : h \in SpritePos[s]
  BY Zenon
<1> HIDE DEF sprites, audio, bit
<1>4. PICK s, c : s = (CHOOSE x \in sprites : TRUE) /\ c = (CHOOSE x \in audio : TRUE)
  OBVIOUS
<1>5. table_owner(r, v, h) = BITPLANE <=> bit
  BY <1>1, <1>4, OwnersDiffer
<1>6. table_owner(r, v, h) = SPRITE(0) => sprites # {} /\ s = 0
  BY <1>1, <1>4, OwnersDiffer
<1>7. table_owner(r, v, h) = SPRITE(0) => h \in SpritePos[0]
  BY <1>2, <1>3, <1>4, <1>6, Zenon
<1> QED
  BY <1>5, <1>7 DEF bit

LEMMA DynamicIs ==
    ASSUME NEW o, NEW b, NEW n, NEW c
    PROVE  /\ dynamic_owner(o, b, n, c) = BITPLANE <=> o = BITPLANE
           /\ dynamic_owner(o, b, n, c) = SPRITE(0) <=> o = SPRITE(0)
BY OwnersDiffer DEF dynamic_owner

(* The disk takes the slot of this clock.                                  *)
ByDisk == disk_override(dmacon, table_owner(LiveRegs, vpos, hpos), wants.disk > 0)

(* What the fetches of a clock leave, if owner g has it.                   *)
BplAfter(g) == IF g = BITPLANE THEN FetchAt(bpl, LiveRegs, hpos) ELSE bpl
SpriteAfter(g) == IF g = SPRITE(0) THEN fetch_sprite(sprite) ELSE sprite
NewBand(g) == g = SPRITE(0) /\ is_b /\ sprite.fetch_ctrl /\ sprite_delivers(sprite, vpos)

LEMMA StepFetches ==
    ASSUME SchedInv, NEW copper \in BOOLEAN, Step(copper)
    PROVE  /\ beamAt' = next_at /\ busOps' = busOps
           /\ granted' = DISK \/ ~ByDisk
           /\ granted' = BITPLANE <=> fetching(LiveRegs, vpos) /\ logical_at(LiveRegs, hpos) # {}
                                      /\ ~ByDisk
           /\ granted' = SPRITE(0) <=> table_owner(LiveRegs, vpos, hpos) = SPRITE(0) /\ ~ByDisk
           /\ ~ByDisk => LiveRegs' = LiveRegs
           /\ sched'.dirty => next_at[1] = 0 \/ ByDisk
           /\ bpl' = IF next_at[1] = 0 THEN end_line(BplAfter(granted')) ELSE BplAfter(granted')
           /\ sprite' = IF next_at = <<1, 0>> THEN sprite_frame_start(SpriteAfter(granted'))
                        ELSE SpriteAfter(granted')
           /\ quiet' = (next_at[1] = 0 \/ (quiet /\ ~ByDisk))
           /\ band' = IF ByDisk \/ next_at = <<1, 0>> THEN <<>>
                      ELSE IF NewBand(granted')
                      THEN (IF SpriteAfter(granted').vstart > vpos
                            THEN <<SpriteAfter(granted').ptr>> ELSE <<>>)
                      ELSE band
           /\ wants' = [disk |-> IF granted' = DISK /\ wants.disk > 0 THEN wants.disk - 1
                                 ELSE wants.disk,
                        blit |-> IF granted' = BLITTER THEN wants.blit - 1 ELSE wants.blit]
<1> DEFINE s == scheduler_refresh(sched, dmacon, wants.blit > 0, copper)
           own == table_owner(LiveRegs, vpos, hpos)
           restored == ByDisk /\ "DSKEN" \notin s.dmacon
           t == IF restored THEN [s EXCEPT !.dmacon = @ \cup {"DSKEN"}, !.dirty = TRUE] ELSE s
<1>0. (wants.blit > 0) \in BOOLEAN
  OBVIOUS
<1>1. /\ s \in Scheduler
      /\ ~s.dirty /\ s.dmacon = dmacon
      /\ s.table = [h \in Slot |-> table_owner(LiveRegs, vpos, h)]
      /\ s.index = [h \in Slot |-> words_at(LiveRegs, vpos, h)]
      /\ s.depth = sched.depth
  BY <1>0, Refreshed, Zenon
<1> HIDE DEF s
<1>2. hpos \in Slot
  BY DEF SchedInv, hpos
<1>3. s.table[hpos] = own /\ s.index[hpos] = words_at(LiveRegs, vpos, hpos)
  BY <1>1, <1>2, Zenon
<1>4. disk_override(s.dmacon, s.table[hpos], wants.disk > 0) = ByDisk
  BY <1>1, <1>3, Zenon DEF ByDisk
<1>5. /\ granted' = IF ByDisk THEN DISK ELSE dynamic_owner(own, s.blitter, s.nasty, s.copper)
      /\ beamAt' = next_at /\ busOps' = busOps
      /\ sched' = IF next_at[1] = 0 THEN scheduler_new_line(t) ELSE t
  BY <1>3, <1>4, Zenon DEF Step, s
<1> DEFINE fb == fetch_bitplane(bpl, s.depth, word_of(s.index[hpos]))
           ba == IF granted' = BITPLANE THEN fb ELSE bpl
<1>a. bpl' = IF next_at[1] = 0 THEN end_line(ba) ELSE ba
  BY Zenon DEF Step, s
<1> HIDE DEF fb
<1>6. sprite' = IF next_at = <<1, 0>> THEN sprite_frame_start(SpriteAfter(granted'))
                ELSE SpriteAfter(granted')
  BY Zenon DEF Step, SpriteAfter
<1>7. /\ quiet' = (next_at[1] = 0 \/ (quiet /\ ~ByDisk))
      /\ wants' = [disk |-> IF granted' = DISK /\ wants.disk > 0 THEN wants.disk - 1
                            ELSE wants.disk,
                   blit |-> IF granted' = BLITTER THEN wants.blit - 1 ELSE wants.blit]
  BY <1>4, Zenon DEF Step, s
<1>8. band' = IF ByDisk \/ next_at = <<1, 0>> THEN <<>>
              ELSE IF NewBand(granted')
              THEN (IF SpriteAfter(granted').vstart > vpos
                    THEN <<SpriteAfter(granted').ptr>> ELSE <<>>)
              ELSE band
  BY <1>4, Zenon DEF Step, s, NewBand, SpriteAfter
<1>9. granted' = BITPLANE <=> own = BITPLANE /\ ~ByDisk
  BY <1>5, DynamicIs, OwnersDiffer
<1>10. granted' = SPRITE(0) <=> own = SPRITE(0) /\ ~ByDisk
  BY <1>5, DynamicIs, OwnersDiffer
<1>11. own = BITPLANE <=> fetching(LiveRegs, vpos) /\ logical_at(LiveRegs, hpos) # {}
  BY OwnerIs, Zenon
<1>12. LiveRegs.depth = sched.depth
  BY LiveRegsAre
<1>13. ASSUME granted' = BITPLANE
       PROVE  fb = FetchAt(bpl, LiveRegs, hpos)
  <2>1. fetching(LiveRegs, vpos) /\ logical_at(LiveRegs, hpos) # {}
    BY <1>9, <1>11, <1>13, Zenon
  <2>2. s.index[hpos] = logical_at(LiveRegs, hpos)
    BY <1>3, <2>1, Zenon DEF words_at
  <2>3. fb = fetch_bitplane(bpl, LiveRegs.depth, word_of(logical_at(LiveRegs, hpos)))
    <3>1. fb = fetch_bitplane(bpl, s.depth, word_of(s.index[hpos]))
      BY Zenon DEF fb
    <3> QED
      BY <1>1, <1>12, <2>2, <3>1, Zenon
  <2> QED
    BY <2>1, <2>3, Zenon DEF FetchAt
<1>14. bpl' = IF next_at[1] = 0 THEN end_line(BplAfter(granted')) ELSE BplAfter(granted')
  BY <1>a, <1>13, Zenon DEF BplAfter
<1>15. ~ByDisk => LiveRegs' = LiveRegs
  <2>1. /\ dmacon' = IF ByDisk THEN dmacon \cup {"DSKEN"} ELSE dmacon
        /\ LiveRegs' = [LiveRegs EXCEPT !.dmacon = dmacon']
    BY StepMoves, Zenon DEF ByDisk
  <2>2. [LiveRegs EXCEPT !.dmacon = dmacon] = LiveRegs
    BY LiveRegsAre
  <2> QED
    BY <2>1, <2>2, Zenon
<1>16. sched'.dirty => next_at[1] = 0 \/ ByDisk
  BY <1>1, <1>5, Zenon
<1>17. granted' = DISK \/ ~ByDisk
  BY <1>5, Zenon
<1> QED
  BY <1>5, <1>7, <1>6, <1>8, <1>9, <1>10, <1>11, <1>14, <1>15, <1>16, <1>17, Zenon

-----------------------------------------------------------------------------
(* The invariant of a line.                                                *)

(* A line begins with nothing latched.  While nothing has disturbed it the *)
(* table is current, the latch holds where the pointers still are and the  *)
(* depth of now, and the words read are those whose clock has been.        *)
LineInv ==
    /\ hpos = 0 => ~bpl.valid
    /\ quiet => /\ hpos # 0 => ~sched.dirty
                /\ bpl.valid => bpl.base = bpl.pt /\ bpl.depth = LiveRegs.depth
                /\ Regular(LiveRegs, vpos) => LineSoFar(bpl, LiveRegs, hpos)

LEMMA RegularWords ==
    ASSUME NEW r, NEW v, Regular(r, v)
    PROVE  words_per_plane(r) # 0
BY DEF Regular

(* A line without latches is at its start.                                 *)
LEMMA LineBegins ==
    ASSUME SchedInv', BplSound(bpl'), ~bpl'.valid, hpos' = 0
    PROVE  LineInv'
<1>1. LiveRegs' \in SchedRegs
  <2>1. sched' \in Scheduler /\ dmacon' \in SUBSET DmaBits
    BY Zenon DEF SchedInv
  <2> QED
    BY <2>1, Zenon DEF LiveRegs, SchedInputs, SchedRegs, Scheduler
<1>2. Regular(LiveRegs', vpos') => LineSoFar(bpl', LiveRegs', 0)
  BY <1>1, QuietStart, RegularWords
<1> QED
  BY <1>2, Zenon DEF LineInv

LEMMA HposIs ==
    ASSUME SchedInv
    PROVE  /\ hpos \in Slot /\ vpos \in 0..(FrameLines - 1)
           /\ next_at[1] # 0 => hpos + 1 < Slots /\ next_at = <<hpos + 1, vpos>>
           /\ next_at[1] = 0 => hpos = Slots - 1 /\ next_at = <<0, (vpos + 1) % FrameLines>>
<1>1. hpos \in Slot /\ vpos \in 0..(FrameLines - 1)
  BY DEF SchedInv, hpos, vpos
<1> QED
  BY <1>1 DEF next_at, Slot

(* The fetch of a clock on a line that nothing disturbs.                   *)
LEMMA ClockFetches ==
    ASSUME SchedInv, BplSound(bpl), LineInv, NEW copper \in BOOLEAN, Step(copper),
           quiet, ~ByDisk, NEW e, e = BplAfter(granted')
    PROVE  /\ e.valid => e.base = e.pt /\ e.depth = LiveRegs.depth
           /\ Regular(LiveRegs, vpos) => LineSoFar(e, LiveRegs, hpos + 1)
<1>1. LiveRegs \in SchedRegs /\ hpos \in Slot
  BY LiveRegsType, HposIs
<1>2. granted' = BITPLANE <=> fetching(LiveRegs, vpos) /\ logical_at(LiveRegs, hpos) # {}
  BY StepFetches
<1>3. e = FetchAt(bpl, LiveRegs, hpos) \/ (e = bpl /\ ~fetching(LiveRegs, vpos))
  BY <1>2, Zenon DEF BplAfter, FetchAt
<1>4. bpl.valid => bpl.base = bpl.pt /\ bpl.depth = LiveRegs.depth
  BY Zenon DEF LineInv
<1>5. e.valid => e.base = e.pt /\ e.depth = LiveRegs.depth
  <2>1. CASE e = FetchAt(bpl, LiveRegs, hpos)
    BY <1>1, <1>4, <2>1, FetchAtSound
  <2>2. CASE e = bpl
    BY <1>4, <2>2, Zenon
  <2> QED
    BY <1>3, <2>1, <2>2
<1>6. ASSUME Regular(LiveRegs, vpos) PROVE LineSoFar(e, LiveRegs, hpos + 1)
  <2>1. fetching(LiveRegs, vpos) /\ words_per_plane(LiveRegs) \in 1..MaxWords
    BY <1>6, Zenon DEF Regular
  <2>2. e = FetchAt(bpl, LiveRegs, hpos)
    BY <1>3, <2>1, Zenon
  <2>3. LineSoFar(bpl, LiveRegs, hpos)
    BY <1>6, Zenon DEF LineInv
  <2> QED
    BY <1>1, <1>4, <2>1, <2>2, <2>3, FetchAtLine
<1> QED
  BY <1>5, <1>6

LEMMA AfterSound ==
    ASSUME SchedInv, BplSound(bpl), NEW g
    PROVE  BplSound(BplAfter(g))
<1>1. LiveRegs \in SchedRegs /\ hpos \in Slot
  BY LiveRegsType, HposIs
<1>2. BplSound(FetchAt(bpl, LiveRegs, hpos))
  BY <1>1, FetchAtSound
<1> QED
  BY <1>2, Zenon DEF BplAfter

LEMMA LineStep ==
    ASSUME SchedInv, BplSound(bpl), LineInv, NEW copper \in BOOLEAN, Step(copper), SchedInv'
    PROVE  BplSound(bpl') /\ LineInv'
<1> DEFINE e == BplAfter(granted')
<1>1. BplSound(e)
  BY AfterSound
<1>2. /\ beamAt' = next_at
      /\ ~ByDisk => LiveRegs' = LiveRegs
      /\ sched'.dirty => next_at[1] = 0 \/ ByDisk
      /\ bpl' = IF next_at[1] = 0 THEN end_line(e) ELSE e
      /\ quiet' = (next_at[1] = 0 \/ (quiet /\ ~ByDisk))
  BY StepFetches
<1> HIDE DEF e
<1>3. CASE next_at[1] = 0
  <2>1. bpl' = end_line(e) /\ hpos' = 0
    BY <1>2, <1>3, Zenon DEF hpos
  <2>2. BplSound(bpl') /\ ~bpl'.valid
    BY <1>1, <2>1, PointersMove
  <2> QED
    BY <2>1, <2>2, LineBegins
<1>4. CASE next_at[1] # 0
  <2>1. bpl' = e
    BY <1>2, <1>4, Zenon
  <2>2. hpos' = hpos + 1 /\ vpos' = vpos /\ hpos' # 0
    <3>1. next_at = <<hpos + 1, vpos>>
      BY <1>4, HposIs
    <3> QED
      BY <1>2, <1>4, <3>1 DEF hpos, vpos
  <2>3. ASSUME quiet'
        PROVE  /\ ~sched'.dirty
               /\ bpl'.valid => bpl'.base = bpl'.pt /\ bpl'.depth = LiveRegs'.depth
               /\ Regular(LiveRegs', vpos') => LineSoFar(bpl', LiveRegs', hpos')
    <3>1. quiet /\ ~ByDisk /\ LiveRegs' = LiveRegs
      BY <1>2, <1>4, <2>3, Zenon
    <3>2. /\ e.valid => e.base = e.pt /\ e.depth = LiveRegs.depth
          /\ Regular(LiveRegs, vpos) => LineSoFar(e, LiveRegs, hpos + 1)
      BY <3>1, ClockFetches DEF e
    <3> QED
      BY <1>2, <1>4, <2>1, <2>2, <3>1, <3>2, Zenon
  <2> QED
    BY <1>1, <2>1, <2>2, <2>3, Zenon DEF LineInv
<1> QED
  BY <1>3, <1>4

-----------------------------------------------------------------------------
(* The invariant of a sprite's band.                                       *)

(* How far the channel is in its line: before A, before B, done.           *)
Stage(h) == IF h <= SlotA THEN 0 ELSE IF h <= SlotB THEN 1 ELSE 2

(* At line v and stage k of a band whose data begins at d the list has     *)
(* ended, or waits for the first line, or is past the last, or the pointer *)
(* is k words into the pair of the line.                                   *)
Phase(s, d, v, k) ==
    \/ s.terminated
    \/ s.armed /\ v < s.vstart /\ s.ptr = d
    \/ s.armed /\ v >= s.vstart /\ v >= s.vstop /\ (k = 0 \/ s.fetch_ctrl)
    \/ /\ s.armed /\ v >= s.vstart /\ v < s.vstop /\ (k = 0 \/ ~s.fetch_ctrl)
       /\ s.ptr = (d + 2 * (v - s.vstart) + k) % SpriteSpace

BandInv ==
    band # <<>> =>
        /\ band[1] \in 0..(SpriteSpace - 1)
        /\ beamAt # <<0, 0>> /\ BothSlots(LiveRegs, vpos)
              => Phase(sprite, band[1], vpos, Stage(hpos))

LEMMA SpriteSlots ==
    /\ SlotA \in Nat /\ SlotB \in Nat /\ SlotA < SlotB /\ SlotB < Slots
    /\ \A h : h \in SpritePos[0] <=> h = SlotA \/ h = SlotB
    /\ (SlotA \div 2) % 2 = 0 /\ (SlotB \div 2) % 2 = 1
<1>1. /\ 0 \in DOMAIN SpritePos /\ SpritePos[0] = {SlotA, SlotB} /\ SlotA < SlotB
      /\ (SlotA \div 2) % 2 = 0 /\ (SlotB \div 2) % 2 = 1
  BY SpriteSlotsAssumption
<1>2. SpritePos[0] \subseteq Slot
  BY <1>1, SlotMapAssumption
<1> QED
  BY <1>1, <1>2 DEF Slot

LEMMA SpriteFields ==
    ASSUME NEW s \in SpriteChannel
    PROVE  /\ s.base \in Nat /\ s.ptr \in Nat /\ s.armed \in BOOLEAN /\ s.terminated \in BOOLEAN
           /\ s.fetch_ctrl \in BOOLEAN /\ s.vstart \in Nat /\ s.vstop \in Nat /\ s.w0 \in Nat
BY Zenon DEF SpriteChannel

LEMMA ReadType == \A p : SpriteRead(p) \in Nat
BY DEF SpriteRead

LEMMA NextType ==
    ASSUME NEW p \in Nat
    PROVE  sprite_next(p) \in 0..(SpriteSpace - 1) /\ sprite_next(p) \in Nat
BY DEF sprite_next

(* What the A slot does to a channel.                                      *)
LEMMA SlotADoes ==
    ASSUME NEW s \in SpriteChannel, NEW v, NEW t, t = sprite_slot_a(s, v)
    PROVE  /\ t \in SpriteChannel
           /\ s.terminated \/ (s.armed /\ v < s.vstart) => t = s
           /\ ~(s.terminated \/ (s.armed /\ v < s.vstart)) =>
                /\ t.armed = s.armed /\ t.vstart = s.vstart /\ t.vstop = s.vstop
                /\ t.terminated = s.terminated
                /\ t.fetch_ctrl = (~s.armed \/ v >= s.vstop) /\ t.ptr = sprite_next(s.ptr)
<1>1. CASE s.terminated \/ (s.armed /\ v < s.vstart)
  <2>1. t = s
    BY <1>1, Zenon DEF sprite_slot_a, sprite_idle
  <2> QED
    BY <1>1, <2>1, Zenon
<1>2. CASE ~(s.terminated \/ (s.armed /\ v < s.vstart))
  <2>1. PICK c \in BOOLEAN : c = (~s.armed \/ v >= s.vstop)
    OBVIOUS
  <2>2. PICK w \in Nat, p \in Nat : w = SpriteRead(s.ptr) /\ p = sprite_next(s.ptr)
    BY SpriteFields, ReadType, NextType
  <2>3. t = [s EXCEPT !.fetch_ctrl = c, !.w0 = w, !.ptr = p]
    BY <1>2, <2>1, <2>2, Zenon DEF sprite_slot_a, sprite_idle
  <2>4. t \in SpriteChannel
    BY <2>3, Zenon DEF SpriteChannel
  <2>5. /\ t.armed = s.armed /\ t.vstart = s.vstart /\ t.vstop = s.vstop
        /\ t.terminated = s.terminated /\ t.fetch_ctrl = c /\ t.ptr = p
    BY <2>3, Zenon DEF SpriteChannel
  <2> QED
    BY <1>2, <2>1, <2>2, <2>4, <2>5, Zenon
<1> QED
  BY <1>1, <1>2

(* What the B slot does to a channel.                                      *)
LEMMA SlotBDoes ==
    ASSUME NEW s \in SpriteChannel, NEW v, NEW t, t = sprite_slot_b(s, v)
    PROVE  /\ t \in SpriteChannel
           /\ ~sprite_fetches_b(s, v) => t = s
           /\ sprite_fetches_b(s, v) => t.ptr = sprite_next(s.ptr)
           /\ sprite_fetches_b(s, v) /\ sprite_ends(s) => t.terminated
           /\ sprite_fetches_b(s, v) /\ ~sprite_ends(s) /\ s.fetch_ctrl => t.armed
           /\ sprite_fetches_b(s, v) /\ ~s.fetch_ctrl =>
                /\ t.armed = s.armed /\ t.vstart = s.vstart /\ t.vstop = s.vstop
                /\ ~t.fetch_ctrl
<1>1. PICK p \in Nat : p = sprite_next(s.ptr)
  BY SpriteFields, NextType
<1>2. PICK n : n = [s EXCEPT !.ptr = p]
  OBVIOUS
<1>3. n \in SpriteChannel
  BY <1>2, Zenon DEF SpriteChannel
<1>4. /\ n.ptr = p /\ n.armed = s.armed /\ n.vstart = s.vstart /\ n.vstop = s.vstop
      /\ n.fetch_ctrl = s.fetch_ctrl /\ n.terminated = s.terminated
  BY <1>2, Zenon DEF SpriteChannel
<1>5. CASE ~sprite_fetches_b(s, v)
  <2>1. t = s
    BY <1>5, Zenon DEF sprite_slot_b
  <2> QED
    BY <1>5, <2>1, Zenon
<1>6. CASE sprite_fetches_b(s, v) /\ sprite_ends(s)
  <2>1. t = [n EXCEPT !.armed = FALSE, !.terminated = TRUE]
    BY <1>1, <1>2, <1>6, Zenon DEF sprite_slot_b
  <2>2. t \in SpriteChannel
    BY <1>3, <2>1, Zenon DEF SpriteChannel
  <2>3. t.terminated /\ t.ptr = n.ptr
    BY <1>3, <2>1, Zenon DEF SpriteChannel
  <2>4. s.fetch_ctrl
    BY <1>6, Zenon DEF sprite_ends
  <2> QED
    BY <1>1, <1>4, <1>6, <2>2, <2>3, <2>4, Zenon
<1>7. CASE sprite_fetches_b(s, v) /\ ~sprite_ends(s) /\ s.fetch_ctrl
  <2>1. PICK w \in Nat, z \in Nat : w = s.w0 /\ z = SpriteRead(s.ptr)
    BY SpriteFields, ReadType
  <2>2. t = [n EXCEPT !.vstart = w, !.vstop = z, !.armed = TRUE]
    BY <1>1, <1>2, <1>7, <2>1, Zenon DEF sprite_slot_b
  <2>3. t \in SpriteChannel
    BY <1>3, <2>2, Zenon DEF SpriteChannel
  <2>4. t.armed /\ t.ptr = n.ptr
    BY <1>3, <2>2, Zenon DEF SpriteChannel
  <2> QED
    BY <1>1, <1>4, <1>7, <2>3, <2>4, Zenon
<1>8. CASE sprite_fetches_b(s, v) /\ ~s.fetch_ctrl
  <2>1. ~sprite_ends(s)
    BY <1>8, Zenon DEF sprite_ends
  <2>2. t = n
    BY <1>1, <1>2, <1>8, <2>1, Zenon DEF sprite_slot_b
  <2> QED
    BY <1>1, <1>3, <1>4, <1>8, <2>1, <2>2, Zenon
<1> QED
  BY <1>5, <1>6, <1>7, <1>8, Zenon

LEMMA FetchSpriteType ==
    ASSUME sprite \in SpriteChannel, NEW g
    PROVE  SpriteAfter(g) \in SpriteChannel
<1>1. fetch_sprite(sprite) \in SpriteChannel
  BY SlotADoes, SlotBDoes DEF fetch_sprite
<1> QED
  BY <1>1, Zenon DEF SpriteAfter

LEMMA FrameStart ==
    ASSUME NEW s \in SpriteChannel
    PROVE  sprite_frame_start(s) \in SpriteChannel /\ sprite_reset \in SpriteChannel
<1>1. sprite_reset \in SpriteChannel
  <2>1. 0 \in Nat
    OBVIOUS
  <2> QED
    BY <2>1, Zenon DEF sprite_reset, SpriteChannel
<1>2. s.base \in Nat
  BY SpriteFields
<1> QED
  BY <1>1, <1>2, Zenon DEF sprite_frame_start, SpriteChannel

LEMMA SetPtr ==
    ASSUME NEW s \in SpriteChannel, NEW p \in Nat
    PROVE  sprite_set_ptr(s, p) \in SpriteChannel
BY Zenon DEF sprite_set_ptr, SpriteChannel

-----------------------------------------------------------------------------
(* The slots of a line move a band on.                                     *)

LEMMA NextInSpace ==
    ASSUME NEW n \in Nat
    PROVE  sprite_next(n % SpriteSpace) = (n + 1) % SpriteSpace
<1>1. PICK S \in Nat \ {0} : S = SpriteSpace
  BY GuestAssumption
<1>2. PICK q \in Int, m \in 0..(S - 1) : n = S * q + m /\ n % S = m
  <2>1. n \in Int
    OBVIOUS
  <2>2. n \div S \in Int /\ n % S \in 0..(S - 1) /\ n = S * (n \div S) + (n % S)
    BY <2>1, DivMod, Zenon
  <2> QED
    BY <2>2, Zenon
<1>3. CASE m + 1 < S
  <2>a. PICK r \in 0..(S - 1) : r = m + 1
    BY <1>3
  <2>1. (S * q + r) % S = r
    BY DivUnique, Zenon
  <2>2. (m + 1) % S = m + 1
    BY <1>3
  <2>3. n + 1 = S * q + r
    <3>1. PICK x \in Int : x = S * q
      OBVIOUS
    <3> QED
      BY <1>2, <2>a, <3>1
  <2> QED
    BY <1>1, <1>2, <2>a, <2>1, <2>2, <2>3, Zenon DEF sprite_next
<1>4. CASE m + 1 = S
  <2>a. PICK k \in Int, z \in 0..(S - 1) : k = q + 1 /\ z = 0
    OBVIOUS
  <2>1. (S * k + z) % S = z
    BY DivUnique, Zenon
  <2>2. (m + 1) % S = z
    BY <1>4, <2>a
  <2>3. n + 1 = S * k + z
    <3>1. S * (q + 1) = S * q + S
      OBVIOUS
    <3>2. PICK x \in Int : x = S * q
      OBVIOUS
    <3> QED
      BY <1>2, <1>4, <2>a, <3>1, <3>2
  <2> QED
    BY <1>1, <1>2, <2>1, <2>2, <2>3, Zenon DEF sprite_next
<1> QED
  BY <1>3, <1>4

LEMMA PhaseA ==
    ASSUME NEW s \in SpriteChannel, NEW d \in 0..(SpriteSpace - 1), NEW v \in Nat,
           Phase(s, d, v, 0)
    PROVE  Phase(sprite_slot_a(s, v), d, v, 1)
<1>1. PICK t : t = sprite_slot_a(s, v)
  OBVIOUS
<1>2. /\ s.terminated \/ (s.armed /\ v < s.vstart) => t = s
      /\ ~(s.terminated \/ (s.armed /\ v < s.vstart)) =>
            /\ t.armed = s.armed /\ t.vstart = s.vstart /\ t.vstop = s.vstop
            /\ t.fetch_ctrl = (~s.armed \/ v >= s.vstop) /\ t.ptr = sprite_next(s.ptr)
  BY <1>1, SlotADoes
<1>3. CASE s.terminated \/ (s.armed /\ v < s.vstart)
  <2>1. s.terminated \/ (s.armed /\ v < s.vstart /\ s.ptr = d)
    BY <1>3, SpriteFields DEF Phase
  <2> QED
    BY <1>1, <1>2, <1>3, <2>1, Zenon DEF Phase
<1>4. CASE ~(s.terminated \/ (s.armed /\ v < s.vstart))
  <2>1. s.armed /\ v >= s.vstart
    BY <1>4, Zenon DEF Phase
  <2>2. CASE v >= s.vstop
    BY <1>1, <1>2, <1>4, <2>1, <2>2, Zenon DEF Phase
  <2>3. CASE ~(v >= s.vstop)
    <3>1. PICK x \in Nat : x = v - s.vstart
      BY <2>1, SpriteFields
    <3>2. v < s.vstop /\ s.ptr = (d + 2 * (v - s.vstart) + 0) % SpriteSpace
      BY <1>4, <2>3, SpriteFields DEF Phase
    <3>3. d + 2 * x + 0 \in Nat /\ d + 2 * x + 0 + 1 = d + 2 * x + 1
      OBVIOUS
    <3>4. sprite_next(s.ptr) = (d + 2 * (v - s.vstart) + 1) % SpriteSpace
      BY <3>1, <3>2, <3>3, NextInSpace
    <3>5. ~t.fetch_ctrl
      BY <1>2, <1>4, <2>1, <2>3, Zenon
    <3> QED
      BY <1>1, <1>2, <1>4, <2>1, <3>2, <3>4, <3>5, Zenon DEF Phase
  <2> QED
    BY <2>2, <2>3
<1> QED
  BY <1>3, <1>4

LEMMA PhaseB ==
    ASSUME NEW s \in SpriteChannel, NEW d \in 0..(SpriteSpace - 1), NEW v \in Nat,
           Phase(s, d, v, 1), ~(s.fetch_ctrl /\ sprite_delivers(s, v))
    PROVE  Phase(sprite_slot_b(s, v), d, v, 2)
<1>1. PICK t : t = sprite_slot_b(s, v)
  OBVIOUS
<1>2. /\ ~sprite_fetches_b(s, v) => t = s
      /\ sprite_fetches_b(s, v) => t.ptr = sprite_next(s.ptr)
      /\ sprite_fetches_b(s, v) /\ sprite_ends(s) => t.terminated
      /\ sprite_fetches_b(s, v) /\ ~s.fetch_ctrl =>
            /\ t.armed = s.armed /\ t.vstart = s.vstart /\ t.vstop = s.vstop
            /\ ~t.fetch_ctrl
  BY <1>1, SlotBDoes
<1>3. sprite_fetches_b(s, v) <=> ~(s.terminated \/ (s.armed /\ v < s.vstart))
  BY Zenon DEF sprite_fetches_b, sprite_idle
<1>4. CASE s.terminated \/ (s.armed /\ v < s.vstart)
  <2>1. s.terminated \/ (s.armed /\ v < s.vstart /\ s.ptr = d)
    BY <1>4, SpriteFields DEF Phase
  <2> QED
    BY <1>1, <1>2, <1>3, <1>4, <2>1, Zenon DEF Phase
<1>5. CASE ~(s.terminated \/ (s.armed /\ v < s.vstart))
  <2>1. s.armed /\ v >= s.vstart /\ sprite_fetches_b(s, v)
    BY <1>3, <1>5, Zenon DEF Phase
  <2>2. CASE s.fetch_ctrl
    <3>1. sprite_ends(s)
      BY <2>1, <2>2, Zenon DEF sprite_delivers
    <3> QED
      BY <1>1, <1>2, <2>1, <3>1, Zenon DEF Phase
  <2>3. CASE ~s.fetch_ctrl
    <3>1. PICK x \in Nat : x = v - s.vstart
      BY <2>1, SpriteFields
    <3>a. 1 # 0
      OBVIOUS
    <3>2. v < s.vstop /\ s.ptr = (d + 2 * (v - s.vstart) + 1) % SpriteSpace
      BY <1>5, <2>3, <3>a, SpriteFields, Zenon DEF Phase
    <3>3. d + 2 * x + 1 \in Nat /\ d + 2 * x + 1 + 1 = d + 2 * x + 2
      OBVIOUS
    <3>4. sprite_next(s.ptr) = (d + 2 * (v - s.vstart) + 2) % SpriteSpace
      BY <3>1, <3>2, <3>3, NextInSpace
    <3> QED
      BY <1>1, <1>2, <2>1, <2>3, <3>2, <3>4, Zenon DEF Phase
  <2> QED
    BY <2>2, <2>3
<1> QED
  BY <1>4, <1>5

LEMMA PhaseLine ==
    ASSUME NEW s \in SpriteChannel, NEW d \in 0..(SpriteSpace - 1), NEW v \in Nat,
           Phase(s, d, v, 2)
    PROVE  Phase(s, d, v + 1, 0)
<1>1. s.vstart \in Nat /\ s.vstop \in Nat
  BY SpriteFields
<1>a. PICK w \in Nat : w = v + 1
  OBVIOUS
<1> SUFFICES Phase(s, d, w, 0)
  BY <1>a, Zenon
<1>2. CASE s.terminated
  BY <1>2, Zenon DEF Phase
<1>3. CASE s.armed /\ v < s.vstart /\ s.ptr = d
  <2>1. CASE w < s.vstart
    BY <1>3, <2>1, Zenon DEF Phase
  <2>2. CASE w >= s.vstart /\ w >= s.vstop
    BY <1>3, <2>2, Zenon DEF Phase
  <2>3. CASE w >= s.vstart /\ w < s.vstop
    <3>1. w = s.vstart
      BY <1>1, <1>a, <1>3, <2>3
    <3>2. d = (d + 2 * (w - s.vstart) + 0) % SpriteSpace
      <4>1. d \in Nat /\ d % SpriteSpace = d
        BY GuestAssumption
      <4>2. d + 2 * (w - s.vstart) + 0 = d
        BY <1>1, <3>1, <4>1
      <4> QED
        BY <4>1, <4>2, Zenon
    <3>3. s.ptr = (d + 2 * (w - s.vstart) + 0) % SpriteSpace
      BY <1>3, <3>2
    <3> QED
      BY <1>a, <1>3, <2>3, <3>3, Zenon DEF Phase
  <2> QED
    BY <1>1, <2>1, <2>2, <2>3
<1>4. CASE s.armed /\ v >= s.vstart /\ v >= s.vstop
  <2>1. w >= s.vstart /\ w >= s.vstop
    BY <1>1, <1>a, <1>4
  <2> QED
    BY <1>4, <2>1, Zenon DEF Phase
<1>5. CASE /\ s.armed /\ v >= s.vstart /\ v < s.vstop
           /\ s.ptr = (d + 2 * (v - s.vstart) + 2) % SpriteSpace
  <2>1. w >= s.vstart
    BY <1>1, <1>a, <1>5
  <2>2. CASE w >= s.vstop
    BY <1>5, <2>1, <2>2, Zenon DEF Phase
  <2>3. CASE w < s.vstop
    <3>1. d + 2 * (v - s.vstart) + 2 = d + 2 * (w - s.vstart) + 0
      BY <1>1, <1>a
    <3>2. s.ptr = (d + 2 * (w - s.vstart) + 0) % SpriteSpace
      BY <1>5, <3>1, Zenon
    <3> QED
      BY <1>a, <1>5, <2>1, <2>3, <3>2, Zenon DEF Phase
  <2> QED
    BY <1>1, <2>2, <2>3
<1> QED
  BY <1>2, <1>3, <1>4, <1>5, Zenon DEF Phase

(* A band may lose its slots to the bitplanes as lines go by, not win them. *)
LEMMA BothBefore ==
    ASSUME NEW r \in SchedRegs, NEW v \in Nat, NEW w \in Nat, v <= w, BothSlots(r, w)
    PROVE  BothSlots(r, v)
<1>1. r.vstrt \in Nat
  BY Zenon DEF SchedRegs
<1>2. fetching(r, v) => fetching(r, w)
  BY <1>1, SlotMapAssumption DEF fetching
<1>3. ASSUME NEW h \in SpritePos[0] PROVE table_owner(r, v, h) = SPRITE(0)
  <2> DEFINE sprites == {s \in DOMAIN SpritePos : h \in SpritePos[s] /\ On(r.dmacon, "SPREN")}
             audio   == {c \in DOMAIN AudioPos : h = AudioPos[c] /\ On(r.dmacon, "AUDEN")}
             rest == IF sprites # {} THEN SPRITE(CHOOSE s \in sprites : TRUE)
                     ELSE IF audio # {} THEN AUDIO(CHOOSE c \in audio : TRUE)
                     ELSE IF h \in DiskPos /\ On(r.dmacon, "DSKEN") THEN DISK
                     ELSE IF h \in RefreshPos THEN REFRESH
                     ELSE IF "DMAEN" \in r.dmacon THEN FREE ELSE CPU
  <2>1. /\ table_owner(r, v, h) = IF fetching(r, v) /\ logical_at(r, h) # {} THEN BITPLANE ELSE rest
        /\ table_owner(r, w, h) = IF fetching(r, w) /\ logical_at(r, h) # {} THEN BITPLANE ELSE rest
    BY Zenon DEF table_owner
  <2> HIDE DEF rest
  <2>2. table_owner(r, w, h) = SPRITE(0) /\ SPRITE(0) # BITPLANE
    BY OwnersDiffer, Zenon DEF BothSlots
  <2> QED
    BY <1>2, <2>1, <2>2, Zenon
<1> QED
  BY <1>3, Zenon DEF BothSlots

LEMMA IsB ==
    /\ hpos = SlotA => ~is_b
    /\ hpos = SlotB => is_b
BY SpriteSlots DEF is_b

(* The sprite's own slot of a clock moves the band on a stage.             *)
LEMMA StageMoves ==
    ASSUME SchedInv, sprite \in SpriteChannel, NEW d \in 0..(SpriteSpace - 1), NEW g,
           BothSlots(LiveRegs, vpos), Phase(sprite, d, vpos, Stage(hpos)),
           g = SPRITE(0) <=> table_owner(LiveRegs, vpos, hpos) = SPRITE(0), ~NewBand(g)
    PROVE  Phase(SpriteAfter(g), d, vpos, Stage(hpos + 1))
<1>0. hpos \in Nat /\ vpos \in Nat
  BY HposIs DEF Slot
<1>1. CASE hpos = SlotA
  <2>1. g = SPRITE(0)
    BY <1>1, SpriteSlots, Zenon DEF BothSlots
  <2>2. SpriteAfter(g) = sprite_slot_a(sprite, vpos)
    BY <1>1, <2>1, IsB, Zenon DEF SpriteAfter, fetch_sprite
  <2>3. Stage(hpos) = 0 /\ Stage(hpos + 1) = 1
    BY <1>0, <1>1, SpriteSlots DEF Stage
  <2>4. Phase(sprite, d, vpos, 0)
    BY <2>3, Zenon
  <2>5. Phase(sprite_slot_a(sprite, vpos), d, vpos, 1)
    BY <1>0, <2>4, PhaseA
  <2> QED
    BY <2>2, <2>3, <2>5, Zenon
<1>2. CASE hpos = SlotB
  <2>1. g = SPRITE(0)
    BY <1>2, SpriteSlots, Zenon DEF BothSlots
  <2>2. SpriteAfter(g) = sprite_slot_b(sprite, vpos)
    BY <1>2, <2>1, IsB, Zenon DEF SpriteAfter, fetch_sprite
  <2>3. Stage(hpos) = 1 /\ Stage(hpos + 1) = 2
    BY <1>0, <1>2, SpriteSlots DEF Stage
  <2>4. ~(sprite.fetch_ctrl /\ sprite_delivers(sprite, vpos))
    BY <1>2, <2>1, IsB, Zenon DEF NewBand
  <2>5. Phase(sprite, d, vpos, 1)
    BY <2>3, Zenon
  <2>6. Phase(sprite_slot_b(sprite, vpos), d, vpos, 2)
    BY <1>0, <2>4, <2>5, PhaseB
  <2> QED
    BY <2>2, <2>3, <2>6, Zenon
<1>3. CASE hpos # SlotA /\ hpos # SlotB
  <2>1. g # SPRITE(0)
    BY <1>3, OwnerIs, SpriteSlots, Zenon
  <2>2. Stage(hpos + 1) = Stage(hpos)
    BY <1>0, <1>3, SpriteSlots DEF Stage
  <2> QED
    BY <2>1, <2>2, Zenon DEF SpriteAfter
<1> QED
  BY <1>1, <1>2, <1>3

(* A control pair fetched ahead of its first line begins a band.           *)
LEMMA BandBegins ==
    ASSUME SchedInv, sprite \in SpriteChannel, NEW g, NewBand(g),
           table_owner(LiveRegs, vpos, hpos) = SPRITE(0),
           NEW s, s = SpriteAfter(g), s.vstart > vpos
    PROVE  s.ptr \in 0..(SpriteSpace - 1) /\ \A k : Phase(s, s.ptr, vpos, k)
<1>1. s = sprite_slot_b(sprite, vpos)
  BY Zenon DEF NewBand, SpriteAfter, fetch_sprite
<1>2. sprite_fetches_b(sprite, vpos) /\ ~sprite_ends(sprite) /\ sprite.fetch_ctrl
  BY Zenon DEF NewBand, sprite_delivers
<1>3. s \in SpriteChannel /\ s.armed /\ s.ptr = sprite_next(sprite.ptr)
  BY <1>1, <1>2, SlotBDoes
<1>4. s.ptr \in 0..(SpriteSpace - 1)
  BY <1>3, SpriteFields, NextType
<1>5. vpos < s.vstart
  BY <1>3, SpriteFields, HposIs
<1> QED
  BY <1>3, <1>4, <1>5, Zenon DEF Phase

LEMMA LineAfter ==
    ASSUME NEW v \in 0..(FrameLines - 1), (v + 1) % FrameLines # 0
    PROVE  (v + 1) % FrameLines = v + 1
<1>1. PICK f \in Nat \ {0} : f = FrameLines
  BY SlotSchedulerAssumption
<1>2. (v + 1) % f = IF v + 1 = f THEN 0 ELSE v + 1
  BY <1>1
<1> QED
  BY <1>1, <1>2

LEMMA BandStep ==
    ASSUME SchedInv, sprite \in SpriteChannel, BandInv, NEW copper \in BOOLEAN, Step(copper)
    PROVE  BandInv'
<1> SUFFICES ASSUME band' # <<>>
             PROVE  /\ band'[1] \in 0..(SpriteSpace - 1)
                    /\ beamAt' # <<0, 0>> /\ BothSlots(LiveRegs', vpos')
                          => Phase(sprite', band'[1], vpos', Stage(hpos'))
  BY Zenon DEF BandInv
<1> DEFINE s == SpriteAfter(granted')
<1>0. s \in SpriteChannel
  BY FetchSpriteType
<1>1. /\ beamAt' = next_at
      /\ granted' = SPRITE(0) <=> table_owner(LiveRegs, vpos, hpos) = SPRITE(0) /\ ~ByDisk
      /\ ~ByDisk => LiveRegs' = LiveRegs
      /\ sprite' = IF next_at = <<1, 0>> THEN sprite_frame_start(s) ELSE s
      /\ band' = IF ByDisk \/ next_at = <<1, 0>> THEN <<>>
                 ELSE IF NewBand(granted')
                 THEN (IF s.vstart > vpos THEN <<s.ptr>> ELSE <<>>)
                 ELSE band
  BY StepFetches
<1> HIDE DEF s
<1>2. ~ByDisk /\ next_at # <<1, 0>> /\ LiveRegs' = LiveRegs /\ sprite' = s
  BY <1>1, Zenon
<1>3. LiveRegs \in SchedRegs /\ hpos \in Nat /\ vpos \in Nat
  BY LiveRegsType, HposIs DEF Slot
<1>4. /\ next_at[1] # 0 => hpos' = hpos + 1 /\ vpos' = vpos
      /\ next_at[1] = 0 => hpos + 1 = Slots /\ hpos' = 0 /\ vpos' = (vpos + 1) % FrameLines
  <2>1. CASE next_at[1] # 0
    BY <1>1, <2>1, HposIs DEF hpos, vpos
  <2>2. CASE next_at[1] = 0
    <3>1. hpos = Slots - 1 /\ next_at = <<0, (vpos + 1) % FrameLines>>
      BY <2>2, HposIs
    <3>2. hpos + 1 = Slots
      BY <3>1
    <3>3. hpos' = 0 /\ vpos' = (vpos + 1) % FrameLines
      BY <1>1, <3>1 DEF hpos, vpos
    <3> QED
      BY <2>2, <3>2, <3>3
  <2> QED
    BY <2>1, <2>2
<1>5. ASSUME NEW d \in 0..(SpriteSpace - 1), Phase(s, d, vpos, Stage(hpos + 1)),
             beamAt' # <<0, 0>>
      PROVE  Phase(sprite', d, vpos', Stage(hpos'))
  <2>1. CASE next_at[1] # 0
    BY <1>2, <1>4, <1>5, <2>1, Zenon
  <2>2. CASE next_at[1] = 0
    <3>1. Stage(hpos + 1) = 2 /\ Stage(hpos') = 0
      <4>1. Stage(0) = 0 /\ Stage(Slots) = 2
        <5>1. SlotA \in Nat /\ SlotB \in Nat /\ SlotA < SlotB /\ SlotB < Slots
          BY SpriteSlots
        <5> QED
          BY <5>1, SMTT(30) DEF Stage
      <4>2. hpos + 1 = Slots /\ hpos' = 0
        BY <1>4, <2>2
      <4> QED
        BY <4>1, <4>2, Zenon
    <3>2. vpos' = vpos + 1
      <4>1. beamAt' = <<0, vpos'>>
        BY <1>1, <1>4, <2>2, HposIs
      <4>2. vpos' # 0
        BY <1>5, <4>1, Zenon
      <4> QED
        BY <1>4, <2>2, <4>2, HposIs, LineAfter, Zenon
    <3>3. Phase(s, d, vpos + 1, 0)
      BY <1>0, <1>3, <1>5, <3>1, PhaseLine, Zenon
    <3> QED
      BY <1>2, <3>1, <3>2, <3>3, Zenon
  <2> QED
    BY <2>1, <2>2
<1>6. CASE NewBand(granted')
  <2>1. s.vstart > vpos /\ band' = <<s.ptr>>
    BY <1>1, <1>2, <1>6, Zenon
  <2>2. table_owner(LiveRegs, vpos, hpos) = SPRITE(0)
    BY <1>1, <1>6, Zenon DEF NewBand
  <2>3. s.ptr \in 0..(SpriteSpace - 1) /\ \A k : Phase(s, s.ptr, vpos, k)
    BY <1>6, <2>1, <2>2, BandBegins DEF s
  <2>4. band'[1] = s.ptr
    BY <2>1
  <2> QED
    BY <1>5, <2>3, <2>4, Zenon
<1>7. CASE ~NewBand(granted')
  <2>1. band' = band
    BY <1>1, <1>2, <1>7, Zenon
  <2>2. band[1] \in 0..(SpriteSpace - 1)
    BY <2>1, Zenon DEF BandInv
  <2>3. ASSUME beamAt' # <<0, 0>>, BothSlots(LiveRegs', vpos')
        PROVE  Phase(sprite', band[1], vpos', Stage(hpos'))
    <3>1. beamAt # <<0, 0>>
      <4> SUFFICES ASSUME beamAt = <<0, 0>> PROVE FALSE
        OBVIOUS
      <4>1. hpos = 0 /\ vpos = 0
        BY DEF hpos, vpos
      <4>2. next_at = <<1, 0>>
        BY <4>1, SlotMapAssumption, SMTT(30) DEF next_at
      <4> QED
        BY <1>2, <4>2, Zenon
    <3>2. vpos' \in Nat /\ vpos <= vpos'
      <4>1. CASE next_at[1] # 0
        BY <1>3, <1>4, <4>1
      <4>2. CASE next_at[1] = 0
        <5>1. beamAt' = <<0, vpos'>>
          BY <1>1, <1>4, <4>2, HposIs
        <5>2. vpos' # 0
          BY <2>3, <5>1, Zenon
        <5>3. vpos' = vpos + 1
          BY <1>4, <4>2, <5>2, HposIs, LineAfter, Zenon
        <5> QED
          BY <1>3, <5>3, SMTT(30)
      <4> QED
        BY <4>1, <4>2
    <3>3. BothSlots(LiveRegs, vpos)
      BY <1>2, <1>3, <2>3, <3>2, BothBefore, Zenon
    <3>4. Phase(sprite, band[1], vpos, Stage(hpos))
      BY <2>1, <3>1, <3>3, Zenon DEF BandInv
    <3>5. Phase(s, band[1], vpos, Stage(hpos + 1))
      BY <1>1, <1>2, <1>7, <2>2, <3>3, <3>4, StageMoves DEF s
    <3> QED
      BY <1>5, <2>2, <2>3, <3>5, Zenon
  <2> QED
    BY <2>1, <2>2, <2>3, Zenon
<1> QED
  BY <1>6, <1>7

-----------------------------------------------------------------------------
(* The inductive invariant, and what the guest does to it.                 *)

FetchTypes ==
    /\ sprite \in SpriteChannel /\ granted \in Owners
    /\ wants \in [disk: 0..DiskLen, blit: 0..BlitLen]
    /\ quiet \in BOOLEAN /\ busOps \in 0..MaxBusOps

FetchInv == SchedInv /\ BplSound(bpl) /\ FetchTypes /\ LineInv /\ BandInv

LEMMA DynamicType ==
    ASSUME NEW o \in Owners, NEW b, NEW n, NEW c
    PROVE  dynamic_owner(o, b, n, c) \in Owners
<1>1. BLITTER \in Owners /\ COPPER \in Owners
  BY Zenon DEF Owners
<1> QED
  BY <1>1, Zenon DEF dynamic_owner

LEMMA TypesStep ==
    ASSUME SchedInv, FetchTypes, NEW copper \in BOOLEAN, Step(copper)
    PROVE  FetchTypes'
<1>1. /\ sprite' = IF next_at = <<1, 0>> THEN sprite_frame_start(SpriteAfter(granted'))
                   ELSE SpriteAfter(granted')
      /\ quiet' = (next_at[1] = 0 \/ (quiet /\ ~ByDisk)) /\ busOps' = busOps
      /\ wants' = [disk |-> IF granted' = DISK /\ wants.disk > 0 THEN wants.disk - 1
                            ELSE wants.disk,
                   blit |-> IF granted' = BLITTER THEN wants.blit - 1 ELSE wants.blit]
  BY StepFetches
<1>2. sprite' \in SpriteChannel
  BY <1>1, FetchSpriteType, FrameStart, Zenon DEF FetchTypes
<1> DEFINE own == table_owner(LiveRegs, vpos, hpos)
           blits == wants.blit > 0 /\ On(dmacon, "BLTEN")
<1>3. granted' = IF ByDisk THEN DISK
                 ELSE dynamic_owner(own, blits, "BLTPRI" \in dmacon, copper /\ On(dmacon, "COPEN"))
  BY StepMoves, Zenon DEF ByDisk
<1>4. granted' \in Owners
  <2>1. own \in Owners
    BY OwnerType
  <2>2. DISK \in Owners
    BY Zenon DEF Owners
  <2> HIDE DEF own, blits
  <2> QED
    BY <1>3, <2>1, <2>2, DynamicType, Zenon
<1>5. granted' = BLITTER => wants.blit > 0
  <2>1. DISK # BLITTER /\ COPPER # BLITTER
    BY DEF DISK, COPPER, BLITTER
  <2>2. own # BLITTER
    <3> DEFINE sprites == {s \in DOMAIN SpritePos : hpos \in SpritePos[s]
                                                    /\ On(LiveRegs.dmacon, "SPREN")}
               audio == {c \in DOMAIN AudioPos : hpos = AudioPos[c]
                                                 /\ On(LiveRegs.dmacon, "AUDEN")}
    <3>1. own \in {BITPLANE, SPRITE(CHOOSE s \in sprites : TRUE), AUDIO(CHOOSE c \in audio : TRUE),
                   DISK, REFRESH, FREE, CPU}
      BY Zenon DEF table_owner
    <3>2. /\ BLITTER \notin {BITPLANE, DISK, REFRESH, FREE, CPU}
          /\ \A n : SPRITE(n) # BLITTER /\ AUDIO(n) # BLITTER
      BY DEF BITPLANE, DISK, REFRESH, FREE, CPU, SPRITE, AUDIO, BLITTER
    <3> HIDE DEF own, sprites, audio
    <3> QED
      BY <3>1, <3>2, Zenon
  <2> HIDE DEF own
  <2> QED
    BY <1>3, <2>1, <2>2, Zenon DEF dynamic_owner
<1>6. wants' \in [disk: 0..DiskLen, blit: 0..BlitLen]
  <2>1. wants.disk \in 0..DiskLen /\ wants.blit \in 0..BlitLen
    BY DEF FetchTypes
  <2>2. /\ (IF granted' = DISK /\ wants.disk > 0 THEN wants.disk - 1 ELSE wants.disk) \in 0..DiskLen
        /\ (IF granted' = BLITTER THEN wants.blit - 1 ELSE wants.blit) \in 0..BlitLen
    BY <1>5, <2>1
  <2> QED
    BY <1>1, <2>2, Zenon
<1>7. quiet' \in BOOLEAN
  BY <1>1
<1> QED
  BY <1>1, <1>2, <1>4, <1>6, <1>7, Zenon DEF FetchTypes

(* What disturbs a line or a band ends it.                                 *)
LEMMA DisturbKeeps ==
    ASSUME LineInv, Disturb, beamAt' = beamAt, bpl'.valid = bpl.valid
    PROVE  LineInv' /\ BandInv'
BY Zenon DEF LineInv, BandInv, Disturb, hpos

LEMMA OpCounts ==
    ASSUME busOps \in 0..MaxBusOps, Op
    PROVE  busOps' \in 0..MaxBusOps
BY DEF Op

LEMMA WriteKeeps ==
    ASSUME FetchInv, SchedInv', Op, Disturb, UNCHANGED <<beamAt, wants, granted>>,
           sprite' \in SpriteChannel, BplSound(bpl'), bpl'.valid = bpl.valid
    PROVE  FetchInv'
<1>1. LineInv' /\ BandInv'
  BY DisturbKeeps DEF FetchInv
<1>2. busOps' \in 0..MaxBusOps
  BY OpCounts DEF FetchInv, FetchTypes
<1>3. quiet' \in BOOLEAN
  BY DEF Disturb
<1> QED
  BY <1>1, <1>2, <1>3, Zenon DEF FetchInv, FetchTypes

LEMMA PtWritten ==
    ASSUME NEW b, BplSound(b), NEW pt \in [Plane -> BplPtr], NEW mod \in Int \X Int
    PROVE  /\ BplSound([b EXCEPT !.pt = pt, !.mod = mod])
           /\ [b EXCEPT !.pt = pt, !.mod = mod].valid = b.valid
<1>a. PICK e : e = [b EXCEPT !.pt = pt, !.mod = mod]
  OBVIOUS
<1>0. b \in BplState
  BY Zenon DEF BplSound
<1>1. e \in BplState
  BY <1>0, <1>a, Zenon DEF BplState
<1>2. e.valid = b.valid /\ e.words = b.words /\ e.count = b.count /\ e.base = b.base
  BY <1>0, <1>a, Zenon DEF BplState
<1>3. BplSound(e)
  BY <1>1, <1>2, Zenon DEF BplSound
<1> QED
  BY <1>a, <1>2, <1>3, Zenon

LEMMA GuestKeeps ==
    ASSUME FetchInv, GuestOp
    PROVE  FetchInv'
<1>0. /\ SchedInv /\ SchedInv' /\ beamAt' = beamAt /\ granted' = granted
      /\ BplSound(bpl) /\ sprite \in SpriteChannel /\ wants \in [disk: 0..DiskLen, blit: 0..BlitLen]
  BY GuestOpKeeps, Zenon DEF FetchInv, FetchTypes
<1>a. bpl \in BplState /\ bpl.pt \in [Plane -> BplPtr] /\ bpl.mod \in Int \X Int
  BY <1>0, BplFields, Zenon DEF BplSound
<1>b. ASSUME NEW pt \in [Plane -> BplPtr], NEW mod \in Int \X Int
      PROVE  /\ BplSound([bpl EXCEPT !.pt = pt, !.mod = mod])
             /\ [bpl EXCEPT !.pt = pt, !.mod = mod].valid = bpl.valid
  BY <1>0, PtWritten, ZenonT(60)
<1>1. ASSUME NEW p \in Programs, Program(p) PROVE FetchInv'
  <2>1. /\ Op /\ Disturb /\ bpl' = [bpl EXCEPT !.pt = p.pt, !.mod = p.mod]
        /\ sprite' = sprite_set_ptr(sprite, p.spr) /\ UNCHANGED <<beamAt, wants, granted>>
    BY <1>1, Zenon DEF Program
  <2>2. p.pt \in [Plane -> BplPtr] /\ p.mod \in Int \X Int /\ p.spr \in Nat
    BY GuestAssumption DEF BplPtr
  <2>3. sprite' \in SpriteChannel
    BY <1>0, <2>1, <2>2, SetPtr, Zenon
  <2>4. BplSound(bpl') /\ bpl'.valid = bpl.valid
    BY <1>b, <2>1, <2>2, Zenon
  <2> QED
    BY <1>0, <2>1, <2>3, <2>4, WriteKeeps, Zenon
<1>2. ASSUME Op, Disturb, UNCHANGED <<beamAt, bpl, sprite, wants, granted>> PROVE FetchInv'
  BY <1>0, <1>2, WriteKeeps, Zenon
<1>3. ASSUME NEW s, SetSched(s) PROVE FetchInv'
  BY <1>2, <1>3, Zenon DEF SetSched
<1>4. ASSUME NEW d, WriteDmacon(d) PROVE FetchInv'
  BY <1>2, <1>4, Zenon DEF WriteDmacon
<1>5. ASSUME NEW p \in Programs, WriteSprPt(p.spr) PROVE FetchInv'
  <2>1. p.spr \in Nat
    BY GuestAssumption
  <2>2. sprite' \in SpriteChannel
    BY <1>0, <1>5, <2>1, SetPtr, Zenon DEF WriteSprPt
  <2>3. Op /\ Disturb /\ UNCHANGED <<beamAt, wants, granted>> /\ bpl' = bpl
    BY <1>5, Zenon DEF WriteSprPt
  <2> QED
    BY <1>0, <2>2, <2>3, WriteKeeps, Zenon
<1>6. ASSUME NEW p \in Programs, NEW x \in Plane, WriteBplPt(x, p.pt[x]) PROVE FetchInv'
  <2>1. Op /\ Disturb /\ UNCHANGED <<beamAt, wants, granted, sprite>>
        /\ bpl' = [bpl EXCEPT !.pt[x] = p.pt[x]]
    BY <1>6, Zenon DEF WriteBplPt
  <2>2. p.pt[x] \in BplPtr
    BY GuestAssumption DEF BplPtr
  <2>3. PICK q \in [Plane -> BplPtr] : q = [bpl.pt EXCEPT ![x] = p.pt[x]]
    BY <1>a, <2>2, Zenon
  <2>4. bpl' = [bpl EXCEPT !.pt = q, !.mod = bpl.mod]
    <3>1. [bpl EXCEPT !.pt = q] = [bpl EXCEPT !.pt = q, !.mod = bpl.mod]
      BY <1>a DEF BplState
    <3>2. bpl' = [bpl EXCEPT !.pt = q]
      BY <2>1, <2>3
    <3> QED
      BY <3>1, <3>2
  <2>5. BplSound(bpl') /\ bpl'.valid = bpl.valid
    BY <1>a, <1>b, <2>4, Zenon
  <2> QED
    BY <1>0, <2>1, <2>5, WriteKeeps, Zenon
<1>7. ASSUME StartDisk \/ StartBlit PROVE FetchInv'
  <2>1. Op /\ UNCHANGED <<sched, beamAt, dmacon, bpl, sprite, granted, quiet, band>>
    BY <1>7, Zenon DEF StartDisk, StartBlit
  <2>2. wants' \in [disk: 0..DiskLen, blit: 0..BlitLen]
    <3>1. DiskLen \in 0..DiskLen /\ BlitLen \in 0..BlitLen
      BY SlotSchedulerAssumption
    <3> QED
      BY <1>0, <1>7, <3>1, Zenon DEF StartDisk, StartBlit
  <2>3. busOps' \in 0..MaxBusOps
    BY <2>1, OpCounts DEF FetchInv, FetchTypes
  <2>4. LiveRegs' = LiveRegs /\ hpos' = hpos /\ vpos' = vpos
    BY <2>1 DEF LiveRegs, SchedInputs, hpos, vpos
  <2>5. LineInv' /\ BandInv'
    BY <2>1, <2>4, Zenon DEF FetchInv, LineInv, BandInv
  <2> QED
    BY <1>0, <2>1, <2>2, <2>3, <2>5, Zenon DEF FetchInv, FetchTypes
<1> QED
  BY <1>1, <1>3, <1>4, <1>5, <1>6, <1>7, Zenon
     DEF GuestOp, WriteDdfStrt, WriteDdfStop, WriteDiwStrt, WriteBplcon0

LEMMA ResetSound == BplSound(bplpt_reset) /\ ~bplpt_reset.valid
<1>1. PICK z \in [Plane -> BplPtr] : z = [p \in Plane |-> 0]
  <2>1. 0 \in BplPtr
    BY DEF BplPtr
  <2> QED
    BY <2>1, Zenon
<1>2. 0 \in 0..MaxDepth /\ 0 \in Nat /\ <<0, 0>> \in Int \X Int
  OBVIOUS
<1>3. {} \in SUBSET (Plane \X (0..(MaxWords - 1)) \X BplPtr)
  BY Zenon
<1>4. bplpt_reset = [pt |-> z, mod |-> <<0, 0>>, base |-> z, valid |-> FALSE, depth |-> 0,
                     count |-> 0, words |-> {}]
  BY <1>1, Zenon DEF bplpt_reset
<1> HIDE SlotMapAssumption, SlotSchedulerAssumption, GuestAssumption
<1>5. bplpt_reset \in BplState
  BY <1>2, <1>3, <1>4, Zenon DEF BplState
<1>6. ~bplpt_reset.valid /\ bplpt_reset.words = {} /\ bplpt_reset.count = 0
  BY <1>4
<1> QED
  BY <1>5, <1>6, Zenon DEF BplSound

LEMMA ResetTypes ==
    /\ sprite_reset \in SpriteChannel /\ CPU \in Owners
    /\ [disk |-> 0, blit |-> 0] \in [disk: 0..DiskLen, blit: 0..BlitLen]
<1>1. sprite_reset \in SpriteChannel
  <2>1. 0 \in Nat
    OBVIOUS
  <2> QED
    BY <2>1, Zenon DEF sprite_reset, SpriteChannel
<1>2. CPU \in Owners
  BY Zenon DEF Owners
<1>3. 0 \in 0..DiskLen /\ 0 \in 0..BlitLen
  BY SlotSchedulerAssumption
<1> QED
  BY <1>1, <1>2, <1>3, Zenon

LEMMA ResetFetch ==
    ASSUME FetchInv, ResetAgnus
    PROVE  FetchInv'
<1>1. /\ bpl' = bplpt_reset /\ sprite' = sprite_reset /\ quiet' = TRUE /\ band' = <<>> /\ Op
      /\ wants' = [disk |-> 0, blit |-> 0] /\ granted' = CPU /\ beamAt' = <<0, 0>>
  BY DEF ResetAgnus, AtReset
<1>2. SchedInv'
  BY ResetKeeps
<1>3. FetchTypes'
  <2>1. busOps' \in 0..MaxBusOps
    BY <1>1, OpCounts DEF FetchInv, FetchTypes
  <2> QED
    BY <1>1, <2>1, ResetTypes, Zenon DEF FetchTypes
<1>4. BplSound(bpl') /\ ~bpl'.valid
  BY <1>1, ResetSound, Zenon
<1>5. LineInv'
  <2>1. hpos' = 0
    BY <1>1 DEF hpos
  <2> QED
    BY <1>2, <1>4, <2>1, LineBegins
<1>6. BandInv'
  BY <1>1, Zenon DEF BandInv
<1> QED
  BY <1>2, <1>3, <1>4, <1>5, <1>6, Zenon DEF FetchInv

LEMMA FetchInvInit == BusInit => FetchInv
<1> SUFFICES ASSUME BusInit PROVE FetchInv
  OBVIOUS
<1>1. /\ bpl = bplpt_reset /\ sprite = sprite_reset /\ quiet = TRUE /\ band = <<>> /\ busOps = 0
      /\ wants = [disk |-> 0, blit |-> 0] /\ granted = CPU /\ beamAt = <<0, 0>>
  BY DEF BusInit, AtReset
<1>2. SchedInv
  BY SchedInvHolds
<1>3. FetchTypes
  <2>1. 0 \in 0..MaxBusOps
    BY SlotSchedulerAssumption
  <2> QED
    BY <1>1, <2>1, ResetTypes, Zenon DEF FetchTypes
<1>4. BplSound(bpl) /\ ~bpl.valid
  BY <1>1, ResetSound, Zenon
<1>5. LineInv
  <2>1. hpos = 0
    BY <1>1 DEF hpos
  <2>2. Regular(LiveRegs, vpos) => LineSoFar(bpl, LiveRegs, 0)
    BY <1>2, <1>4, LiveRegsType, QuietStart, RegularWords
  <2> QED
    BY <1>4, <2>1, <2>2, Zenon DEF LineInv
<1>6. BandInv
  BY <1>1, Zenon DEF BandInv
<1> QED
  BY <1>2, <1>3, <1>4, <1>5, <1>6, Zenon DEF FetchInv

LEMMA FetchInvStep == FetchInv /\ [BusNext]_busVars => FetchInv'
<1> SUFFICES ASSUME FetchInv, [BusNext]_busVars PROVE FetchInv'
  OBVIOUS
<1>1. ASSUME NEW c \in BOOLEAN, Step(c) PROVE FetchInv'
  <2>0. SchedInv /\ BplSound(bpl) /\ FetchTypes /\ LineInv /\ BandInv /\ sprite \in SpriteChannel
    BY Zenon DEF FetchInv, FetchTypes
  <2>1. SchedInv'
    BY <1>1, <2>0, StepMoves, Zenon
  <2>2. BplSound(bpl') /\ LineInv'
    BY <1>1, <2>0, <2>1, LineStep
  <2>3. BandInv'
    BY <1>1, <2>0, BandStep
  <2>4. FetchTypes'
    BY <1>1, <2>0, TypesStep
  <2> QED
    BY <2>1, <2>2, <2>3, <2>4, Zenon DEF FetchInv
<1>2. CASE UNCHANGED busVars
  <2>1. UNCHANGED <<sched, beamAt, dmacon, bpl, sprite, wants, granted, quiet, band, busOps>>
    BY <1>2 DEF busVars
  <2>2. LiveRegs' = LiveRegs /\ hpos' = hpos /\ vpos' = vpos
    BY <2>1 DEF LiveRegs, SchedInputs, hpos, vpos
  <2>3. SchedInv'
    BY <1>2, SchedInvStep DEF FetchInv
  <2> QED
    BY <2>1, <2>2, <2>3, Zenon DEF FetchInv, FetchTypes, LineInv, BandInv
<1> QED
  BY <1>1, <1>2, BusNextSplit, GuestKeeps, ResetFetch, Zenon

-----------------------------------------------------------------------------
(* What the invariant says of each step.                                   *)

LEMMA TypesFollow == FetchInv => BusTypeOK
<1> SUFFICES ASSUME FetchInv PROVE BusTypeOK
  OBVIOUS
<1>1. SchedInv /\ BplSound(bpl) /\ FetchTypes /\ sched \in Scheduler
  BY Zenon DEF FetchInv, SchedInv
<1>2. sched.table \in [Slot -> Owners]
  BY <1>1, Zenon DEF Scheduler
<1>3. SchedInputs \in SchedRegs
  BY <1>1, Zenon DEF SchedInputs, SchedRegs, Scheduler
<1>4. /\ beamAt \in Slot \X (0..(FrameLines - 1)) /\ dmacon \in SUBSET DmaBits
      /\ ~sched.dirty => sched.dmacon = dmacon
  BY <1>1, Zenon DEF SchedInv, TableCurrent
<1>5. /\ bpl.pt \in [Plane -> BplPtr]
      /\ bpl.words \in SUBSET (Plane \X (0..(MaxWords - 1)) \X BplPtr)
      /\ \A x \in bpl.words : x[3] = PtrOf(bpl.base[x[1]] + x[2])
  BY <1>1, BplFields, Zenon DEF BplSound
<1>6. ASSUME NEW x \in bpl.words, NEW y \in bpl.words, x[1] = y[1], x[2] = y[2]
      PROVE  x = y
  <2>1. x[3] = y[3]
    BY <1>5, <1>6, Zenon
  <2>2. x \in Plane \X (0..(MaxWords - 1)) \X BplPtr /\ y \in Plane \X (0..(MaxWords - 1)) \X BplPtr
    BY <1>5, Zenon
  <2> QED
    BY <1>6, <2>1, <2>2
<1>7. /\ bpl.pt \in [Plane -> 0..(PtrWords - 1)]
      /\ \A x \in bpl.words : x \in Plane \X (0..(MaxWords - 1)) \X (0..(PtrWords - 1))
  BY <1>5, Zenon DEF BplPtr
<1> QED
  BY <1>1, <1>2, <1>3, <1>4, <1>6, <1>7, Zenon DEF BusTypeOK, FetchTypes

(* A line whose clocks all lie in the line is complete at its end.         *)
LEMMA LineComplete ==
    ASSUME NEW r \in SchedRegs, words_per_plane(r) \in 1..MaxWords, NEW b, BplSound(b),
           LineSoFar(b, r, Slots),
           \A i \in 0..(words_per_plane(r) * r.depth - 1) : \E h \in Slot : i \in logical_at(r, h)
    PROVE  b.words = AllWords(r, b.pt) /\ b.valid /\ b.count = words_per_plane(r)
<1>1. PICK n \in 1..MaxWords : n = words_per_plane(r)
  OBVIOUS
<1>2. words_per_plane(r) # 0
  BY <1>1
<1>3. PICK d \in 1..MaxDepth : d = r.depth
  BY <1>2, DepthIs
<1>4. ASSUME NEW p \in 0..(d - 1), NEW w \in 0..(n - 1)
      PROVE  ClockOf(r, p, w) < Slots
  <2>1. d \in Nat \ {0} /\ p \in 0..(d - 1) /\ w \in Int
    BY <1>1, <1>3
  <2>2. d * w + p \in 0..(n * d - 1)
    <3>1. d * w \in Nat /\ d * w + d <= n * d
      BY <2>1
    <3> QED
      BY <3>1
  <2>3. PICK h \in Slot : d * w + p \in logical_at(r, h)
    BY <1>1, <1>3, <2>2, Zenon
  <2>4. PICK q \in 0..(d - 1), v \in 0..(n - 1) : ClockOf(r, q, v) = h /\ d * w + p = d * v + q
    BY <1>1, <1>2, <1>3, <2>3, LogicalIs
  <2>5. v \in Int
    BY <1>1
  <2>6. (d * w + p) \div d = w /\ (d * w + p) % d = p
    BY <2>1, DivUnique, Zenon
  <2>7. (d * v + q) \div d = v /\ (d * v + q) % d = q
    BY <2>1, <2>5, DivUnique, Zenon
  <2>8. w = v /\ p = q
    BY <2>4, <2>6, <2>7, Zenon
  <2> QED
    BY <2>4, <2>8 DEF Slot
<1>5. /\ \A x \in AllWords(r, b.pt) : x[1] \in 0..(d - 1) /\ x[2] \in 0..(n - 1)
      /\ \A p \in 0..(d - 1), w \in 0..(n - 1) :
            <<p, w, PtrOf(b.pt[p] + w)>> \in AllWords(r, b.pt)
  BY <1>1, <1>2, <1>3, AllWordsAre
<1>6. b.words = AllWords(r, b.pt)
  <2>1. FetchedBefore(r, b.pt, Slots) = AllWords(r, b.pt)
    BY <1>4, <1>5, Zenon DEF FetchedBefore
  <2> QED
    BY <2>1, Zenon DEF LineSoFar
<1>7. PICK y : y = <<0, n - 1, PtrOf(b.pt[0] + (n - 1))>>
  OBVIOUS
<1>8. y \in b.words /\ y[2] = n - 1
  <2>1. 0 \in 0..(d - 1) /\ n - 1 \in 0..(n - 1)
    BY <1>1, <1>3
  <2>2. y \in AllWords(r, b.pt)
    BY <1>5, <1>7, <2>1, Zenon
  <2> QED
    BY <1>6, <1>7, <2>2
<1>9. b.valid
  BY <1>8, Zenon DEF BplSound
<1>10. b.count = n
  <2>1. b.count \in Nat
    BY BplFields DEF BplSound
  <2>2. n - 1 < b.count /\ b.count <= n
    BY <1>1, <1>8, ZenonT(60) DEF LineSoFar
  <2> QED
    BY <1>1, <2>1, <2>2
<1> QED
  BY <1>1, <1>6, <1>9, <1>10

LEMMA EndsByClock ==
    ASSUME FetchInv, [BusNext]_busVars, LineEnding
    PROVE  \E c \in BOOLEAN : Step(c)
<1>0. SchedInv /\ SchedInputs \in SchedRegs
  BY TypesFollow DEF FetchInv, BusTypeOK
<1>1. beamAt' # beamAt
  <2>1. beamAt'[1] # beamAt[1]
    BY SlotMapAssumption DEF LineEnding, hpos
  <2> QED
    BY <2>1
<1>2. ~ResetAgnus
  <2> SUFFICES ASSUME ResetAgnus PROVE FALSE
    OBVIOUS
  <2>1. sched' = scheduler_init
    BY DEF ResetAgnus, AtReset
  <2>2. sched'.depth = 0
    BY <2>1 DEF scheduler_init
  <2>3. SchedInputs.depth = 0
    BY <2>2 DEF LineEnding, SchedInputs
  <2>4. words_per_plane(SchedInputs) = 0
    BY <2>3, Zenon DEF words_per_plane
  <2> QED
    BY <2>4 DEF LineEnding
<1>3. ~GuestOp
  BY <1>0, <1>1, GuestOpKeeps, Zenon
<1>4. ~UNCHANGED busVars
  BY <1>1 DEF busVars
<1> QED
  BY <1>2, <1>3, <1>4, BusNextSplit, Zenon

LEMMA LineStepFetched ==
    ASSUME FetchInv, [BusNext]_busVars, LineEnding
    PROVE  LineRead(words_per_plane(SchedInputs))
<1> DEFINE e == BplAfter(granted')
<1>0. SchedInv /\ BplSound(bpl) /\ LineInv
  BY Zenon DEF FetchInv
<1>1. PICK c \in BOOLEAN : Step(c)
  BY EndsByClock
<1>2. LiveRegs \in SchedRegs /\ hpos \in Slot /\ hpos # 0 /\ next_at[1] = 0 /\ hpos + 1 = Slots
  <2>1. hpos \in Slot /\ LiveRegs \in SchedRegs
    BY <1>0, HposIs, LiveRegsType
  <2>2. hpos = Slots - 1
    BY DEF LineEnding
  <2>3. beamAt' = next_at
    BY <1>0, <1>1, StepFetches
  <2>4. next_at[1] = 0
    BY <2>3, Zenon DEF LineEnding
  <2> QED
    BY <2>1, <2>2, <2>4, SlotMapAssumption
<1>3. quiet /\ ~sched.dirty /\ sched.dmacon = dmacon
      /\ sched.index = [h \in Slot |-> words_at(LiveRegs, vpos, h)]
  BY <1>0, <1>2, Zenon DEF LineEnding, LineInv, SchedInv, TableCurrent
<1>4. SchedInputs = LiveRegs /\ LiveRegs.depth = sched.depth
  BY <1>3 DEF LiveRegs, SchedInputs
<1>5. Regular(LiveRegs, vpos) /\ words_per_plane(LiveRegs) \in 1..MaxWords
  BY <1>4, Zenon DEF LineEnding, Regular
<1>6. ~ByDisk /\ bpl' = end_line(e)
      /\ (granted' = BITPLANE => fetching(LiveRegs, vpos) /\ logical_at(LiveRegs, hpos) # {})
  BY <1>0, <1>1, <1>2, StepFetches DEF LineEnding
<1>7. /\ e.valid => e.base = e.pt /\ e.depth = LiveRegs.depth
      /\ LineSoFar(e, LiveRegs, Slots)
  BY <1>0, <1>1, <1>2, <1>3, <1>5, <1>6, ClockFetches
<1>8. BplSound(e) /\ e.pt = bpl.pt /\ e.mod = bpl.mod
  <2>1. PICK f : f = FetchAt(bpl, LiveRegs, hpos)
    OBVIOUS
  <2>2. BplSound(f) /\ f.pt = bpl.pt /\ f.mod = bpl.mod
    BY <1>0, <1>2, <2>1, FetchAtSound
  <2> QED
    BY <1>0, <2>1, <2>2, Zenon DEF BplAfter
<1>9. WordsRead = e.words
  <2>1. CASE granted' = BITPLANE
    <3>1. fetching(LiveRegs, vpos) /\ logical_at(LiveRegs, hpos) # {}
      BY <1>6, <2>1
    <3>2. sched.index[hpos] = logical_at(LiveRegs, hpos)
      BY <1>2, <1>3, <3>1, Zenon DEF words_at
    <3>3. e = fetch_bitplane(bpl, LiveRegs.depth, word_of(logical_at(LiveRegs, hpos)))
      BY <2>1, <3>1, Zenon DEF BplAfter, FetchAt
    <3> QED
      BY <1>4, <2>1, <3>2, <3>3, Zenon DEF WordsRead
  <2>2. CASE granted' # BITPLANE
    BY <2>2, Zenon DEF BplAfter, WordsRead
  <2> QED
    BY <2>1, <2>2
<1> HIDE DEF e
<1>10. \A i \in 0..(words_per_plane(LiveRegs) * LiveRegs.depth - 1) :
          \E h \in Slot : i \in logical_at(LiveRegs, h)
  BY <1>4, Zenon DEF LineEnding, Fits
<1>11. e.words = AllWords(LiveRegs, e.pt) /\ e.valid /\ e.count = words_per_plane(LiveRegs)
  BY <1>2, <1>5, <1>7, <1>8, <1>10, LineComplete
<1>12. e.words = LineWords(bpl.pt, sched.depth, words_per_plane(SchedInputs))
  BY <1>4, <1>8, <1>11, Zenon DEF AllWords
<1>13. bpl'.pt = apply_modulo(e)
  BY <1>6, <1>8, <1>11, PointersMove
<1>14. ASSUME NEW p \in Plane
       PROVE  bpl'.pt[p] = IF p < sched.depth
                           THEN PtrOf(bpl.pt[p] + words_per_plane(SchedInputs)
                                        + bpl.mod[1 + (p % 2)])
                           ELSE bpl.pt[p]
  <2>1. bpl'.pt[p] = IF p < e.depth THEN PtrOf(e.base[p] + e.count + e.mod[1 + (p % 2)])
                     ELSE e.pt[p]
    BY <1>13, Zenon DEF apply_modulo
  <2> QED
    BY <1>4, <1>7, <1>8, <1>11, <2>1, Zenon
<1> QED
  BY <1>9, <1>12, <1>14, Zenon DEF LineRead

LEMMA SpriteStepShows ==
    ASSUME FetchInv, [BusNext]_busVars, Showing
    PROVE  PairOfLine
<1>0. SchedInv /\ BandInv /\ sprite \in SpriteChannel
  BY Zenon DEF FetchInv, FetchTypes
<1>1. PICK c \in BOOLEAN : Step(c)
  <2>1. ~ResetAgnus
    <3>1. SPRITE(0) # CPU
      BY OwnersDiffer, Zenon
    <3> QED
      BY <3>1, ResetKeeps, Zenon DEF Showing
  <2>2. ~GuestOp
    BY <1>0, GuestOpKeeps, Zenon DEF Showing
  <2>3. ~UNCHANGED busVars
    BY DEF busVars, Showing
  <2> QED
    BY <2>1, <2>2, <2>3, BusNextSplit, Zenon
<1>2. /\ table_owner(LiveRegs, vpos, hpos) = SPRITE(0)
      /\ sprite' = IF next_at = <<1, 0>> THEN sprite_frame_start(SpriteAfter(granted'))
                   ELSE SpriteAfter(granted')
  BY <1>0, <1>1, StepFetches DEF Showing
<1>3. hpos = SlotB
  BY <1>2, OwnerIs, SpriteSlots, IsB, Zenon DEF Showing
<1>4. hpos \in Nat /\ hpos > 0 /\ Stage(hpos) = 1 /\ vpos \in Nat
  <2>1. SlotA \in Nat /\ SlotB \in Nat /\ SlotA < SlotB
    BY SpriteSlots
  <2>2. Stage(SlotB) = 1 /\ SlotB > 0
    BY <2>1 DEF Stage
  <2>3. vpos \in Nat
    BY <1>0, HposIs
  <2> QED
    BY <1>3, <2>1, <2>2, <2>3
<1>5. next_at # <<1, 0>> /\ beamAt # <<0, 0>>
  <2>1. next_at[1] # 1
    BY <1>4 DEF next_at
  <2>2. beamAt[1] # 0
    BY <1>4 DEF hpos
  <2> QED
    BY <2>1, <2>2
<1>6. Phase(sprite, band[1], vpos, 1)
  BY <1>0, <1>4, <1>5, Zenon DEF BandInv, Showing
<1>7. sprite' = sprite_slot_b(sprite, vpos)
  BY <1>2, <1>5, Zenon DEF SpriteAfter, fetch_sprite, Showing
<1>8. sprite_fetches_b(sprite, vpos)
  BY <1>0, <1>7, SlotBDoes DEF Showing
<1>9. ~sprite.terminated /\ ~(sprite.armed /\ vpos < sprite.vstart)
  BY <1>8, Zenon DEF sprite_fetches_b, sprite_idle
<1>10. 1 # 0 /\ ~sprite.fetch_ctrl
  BY DEF Showing
<1>11. /\ vpos >= sprite.vstart /\ vpos < sprite.vstop
       /\ sprite.ptr = (band[1] + 2 * (vpos - sprite.vstart) + 1) % SpriteSpace
  BY <1>6, <1>9, <1>10, Zenon DEF Phase
<1>12. sprite.vstart \in Nat /\ sprite.vstop \in Nat
  BY <1>0, SpriteFields
<1>13. vpos \in sprite.vstart..(sprite.vstop - 1)
  BY <1>4, <1>11, <1>12
<1> QED
  BY <1>11, <1>13, Zenon DEF PairOfLine

(* For any layout of the line, any display window and any sequence of      *)
(* register writes: a line that nothing disturbs reads each word of each   *)
(* plane once, in place, and moves each pointer by the words and the       *)
(* modulo of its parity (fetch_bitplane, bplpt_apply_modulo), and sprite 0 *)
(* shows on each line of a band the pair of that line (sprite_dma_slot).   *)
THEOREM FetchesAreExact == Spec => FetchesExact
<1>1. Spec => []FetchInv
  BY FetchInvInit, FetchInvStep, PTL DEF Spec
<1>2. FetchInv /\ [BusNext]_busVars =>
        [LineEnding => LineRead(words_per_plane(SchedInputs))]_busVars
  BY LineStepFetched, Zenon
<1>3. FetchInv /\ [BusNext]_busVars => [Showing => PairOfLine]_busVars
  BY SpriteStepShows, Zenon
<1>4. Spec => LineFetched
  BY <1>1, <1>2, PTL DEF Spec, LineFetched
<1>5. Spec => SpriteShowsItsLine
  BY <1>1, <1>3, PTL DEF Spec, SpriteShowsItsLine
<1>6. Spec => []BusTypeOK
  BY <1>1, TypesFollow, PTL
<1> QED
  BY <1>4, <1>5, <1>6 DEF FetchesExact
=============================================================================
