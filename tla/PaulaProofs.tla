---------------------------- MODULE PaulaProofs -----------------------------
(***************************************************************************)
(* Proofs about Paula's disk controller, serial port and audio channels.   *)
(*                                                                         *)
(* Disk: for every track, memory, slot map and length of a step, a read    *)
(* that ends has put into chip RAM the words of the track, in order, from  *)
(* where the read began.  Serial: for every queue, baud rate and step, the *)
(* bytes written reach the host once and in order.  Audio: for every       *)
(* number of channels and all values of the registers, the bytes DMA       *)
(* fetched are played once and in order, and a host that never steps       *)
(* beyond the deadline may cut its steps as it likes without changing what *)
(* is fetched and played.                                                  *)
(***************************************************************************)
EXTENDS Audio, DiskDma, Serial, Induction, SequenceTheorems

-----------------------------------------------------------------------------
(* The disk controller.                                                    *)

(* What a read has put into chip RAM.                                      *)
Copied(g, m, n) ==
    \A i \in 0..(n - 1) : m[g.base + i] = <<g.track, (g.src + i) % TrackWords>>

(* Only a read that is due can go on, and as long as it is, the controller *)
(* copies what the read was started for and has copied so far what it      *)
(* should.                                                                 *)
Underway(d, g, m) ==
    /\ (wants_service(d) \/ (d.dma_active /\ d.total = 0 /\ d.countdown # 0)) => g.due
    /\ g.due => /\ d.base = g.base /\ d.total = g.len /\ d.track = g.track
                /\ g.base + g.len <= MemoryWords
                /\ d.src = (g.src + d.done) % TrackWords
                /\ Copied(g, m, d.done)
                /\ g.synced => d.sync_seen /\ d.total > 0

(* The state that the clocks of one rigel_step work on.                    *)
Machine == [disk: DiskState, dmacon: SUBSET {"DMAEN", "DSKEN"}, slot: Slots,
            intreq: SUBSET {"DSKBLK", "DSKSYN"}, ram: [Memory -> Words], goal: Goal]

Sound(s) == s.disk.done <= s.disk.total /\ Underway(s.disk, s.goal, s.ram)

(* What the clocks of a step have done to a read since they started at o.  *)
Since(o, s) ==
    /\ s.goal.track = o.goal.track /\ s.goal.src = o.goal.src
    /\ s.goal.base = o.goal.base /\ s.goal.len = o.goal.len
    /\ s.disk.wordsync = o.disk.wordsync
    /\ o.intreq \subseteq s.intreq
    /\ s.goal.due => o.goal.due
    /\ "DSKBLK" \in s.intreq => ("DSKBLK" \in o.intreq \/ o.goal.due)
    /\ (o.goal.due /\ ~s.goal.due) =>
           /\ Copied(s.goal, s.ram, s.goal.len)
           /\ (s.goal.synced /\ s.disk.wordsync) => "DSKSYN" \in s.intreq

Follows(o) == {s \in Machine : Sound(s) /\ Since(o, s)}

LEMMA MachineFields ==
    ASSUME NEW s \in Machine
    PROVE  /\ s.disk \in DiskState /\ s.goal \in Goal /\ s.ram \in [Memory -> Words]
           /\ s.dmacon \in SUBSET {"DMAEN", "DSKEN"} /\ s.slot \in Slots
           /\ s.intreq \in SUBSET {"DSKBLK", "DSKSYN"}
BY Zenon DEF Machine

LEMMA DiskFields ==
    ASSUME NEW d \in DiskState
    PROVE  /\ d.dskptr \in Nat /\ d.mark \in BOOLEAN /\ d.wordsync \in BOOLEAN
           /\ d.dma_active \in BOOLEAN /\ d.dma_armed \in BOOLEAN
           /\ d.write_mode \in BOOLEAN /\ d.sync_seen \in BOOLEAN
           /\ d.sync_irq_fired \in BOOLEAN /\ d.byte_ready \in BOOLEAN
           /\ d.countdown \in 0..FakeCycles /\ d.base \in Nat /\ d.total \in Nat
           /\ d.done \in Nat /\ d.src \in 0..(TrackWords - 1) /\ d.track \in TrackUnder
BY Zenon DEF DiskState

LEMMA GoalFields ==
    ASSUME NEW g \in Goal
    PROVE  /\ g.due \in BOOLEAN /\ g.track \in TrackUnder /\ g.src \in 0..(TrackWords - 1)
           /\ g.base \in Nat /\ g.len \in Nat /\ g.synced \in BOOLEAN
BY Zenon DEF Goal

LEMMA ModSucc ==
    ASSUME NEW a \in Nat, NEW m \in Nat \ {0}
    PROVE  ((a % m) + 1) % m = (a + 1) % m /\ (a + 1) % m \in 0..(m - 1)
<1> DEFINE q == a \div m
           r == a % m
<1>1. q \in Nat /\ r \in 0..(m - 1) /\ a = m * q + r
  <2>1. a \in Int /\ a \in Nat
    OBVIOUS
  <2> QED
    BY <2>1, DivMod
<1> HIDE DEF q, r
<1>2. CASE r + 1 < m
  <2>1. r + 1 \in 0..(m - 1) /\ a + 1 = m * q + (r + 1) /\ r + 1 = m * 0 + (r + 1)
    BY <1>1, <1>2
  <2>2. (a + 1) % m = r + 1 /\ (r + 1) % m = r + 1
    BY <1>1, <2>1, DivUnique
  <2> QED
    BY <2>1, <2>2 DEF r
<1>3. CASE r + 1 = m
  <2>1. /\ 0 \in 0..(m - 1) /\ q + 1 \in Int /\ 1 \in Int
        /\ a + 1 = m * (q + 1) + 0 /\ r + 1 = m * 1 + 0
    BY <1>1, <1>3
  <2>2. (a + 1) % m = 0 /\ (r + 1) % m = 0
    BY <2>1, DivUnique
  <2> QED
    BY <2>1, <2>2 DEF r
<1> QED
  BY <1>1, <1>2, <1>3

Counted(d, n, i) == [d EXCEPT !.done = n, !.src = i]

LEMMA CountsOn ==
    ASSUME NEW d \in DiskState, NEW n \in Nat, NEW i \in 0..(TrackWords - 1)
    PROVE  Counted(d, n, i) \in DiskState
BY Zenon DEF DiskState, Counted

(* The controller after the word, before the end of the read is seen.      *)
LEMMA WordDone ==
    ASSUME NEW d \in DiskState, NEW next, next = word_done(d),
           NEW sync \in BOOLEAN, sync = IsSync(d, d.src)
    PROVE  /\ next \in DiskState
           /\ next.base = d.base /\ next.total = d.total /\ next.track = d.track
           /\ next.wordsync = d.wordsync /\ next.dma_active = d.dma_active
           /\ next.write_mode = d.write_mode /\ next.countdown = d.countdown
           /\ next.done = d.done + 1 /\ next.src = (d.src + 1) % TrackWords
           /\ next.sync_seen = (d.sync_seen \/ sync)
<1> DEFINE seen == see_word(d)
           word == IF sync THEN maybe_emit_sync(seen) ELSE seen
<1>0. /\ seen = [d EXCEPT !.byte_ready = TRUE, !.sync_seen = d.sync_seen \/ sync]
      /\ next = [word EXCEPT !.done = word.done + 1, !.src = NextSource(word.src)]
  BY Zenon DEF word_done, see_word
<1> HIDE DEF seen
<1>1. (d.sync_seen \/ sync) \in BOOLEAN
  OBVIOUS
<1>2. /\ seen \in DiskState
      /\ seen.base = d.base /\ seen.total = d.total /\ seen.track = d.track
      /\ seen.wordsync = d.wordsync /\ seen.dma_active = d.dma_active
      /\ seen.write_mode = d.write_mode /\ seen.countdown = d.countdown
      /\ seen.done = d.done /\ seen.src = d.src
      /\ seen.sync_seen = (d.sync_seen \/ sync)
  BY <1>0, <1>1, Zenon DEF DiskState
<1>3. /\ word \in DiskState
      /\ word.base = d.base /\ word.total = d.total /\ word.track = d.track
      /\ word.wordsync = d.wordsync /\ word.dma_active = d.dma_active
      /\ word.write_mode = d.write_mode /\ word.countdown = d.countdown
      /\ word.done = d.done /\ word.src = d.src
      /\ word.sync_seen = (d.sync_seen \/ sync)
  <2>1. CASE sync
    <3> DEFINE f == seen.sync_irq_fired \/ SyncDue(seen)
    <3>1. word = [seen EXCEPT !.sync_irq_fired = f]
      BY <2>1, Zenon DEF maybe_emit_sync
    <3>2. f \in BOOLEAN
      OBVIOUS
    <3> HIDE DEF f
    <3> QED
      BY <1>2, <3>1, <3>2, ZenonT(60) DEF DiskState
  <2>2. CASE ~sync
    BY <1>2, <2>2, Zenon
  <2> QED
    BY <2>1, <2>2
<1> HIDE DEF word
<1>4. word.done + 1 \in Nat /\ NextSource(word.src) \in 0..(TrackWords - 1)
      /\ NextSource(word.src) = (d.src + 1) % TrackWords
  <2>1. d.done \in Nat /\ d.src \in Nat
    BY DiskFields, ConstantsAssumption
  <2>2. TrackWords \in Nat \ {0}
    BY ConstantsAssumption
  <2>3. (d.src + 1) % TrackWords \in 0..(TrackWords - 1)
    BY <2>1, <2>2, ModSucc
  <2> QED
    BY <1>3, <2>1, <2>3 DEF NextSource
<1> DEFINE n == word.done + 1
           i == NextSource(word.src)
<1>5. n \in Nat /\ i \in 0..(TrackWords - 1) /\ i = (d.src + 1) % TrackWords /\ n = d.done + 1
  BY <1>3, <1>4, Zenon
<1>6. next = [word EXCEPT !.done = n, !.src = i]
  BY <1>0
<1> HIDE DEF n, i
<1>7. next \in DiskState
  <2>1. word \in DiskState /\ n \in Nat /\ i \in 0..(TrackWords - 1)
    BY <1>3, <1>5, Zenon
  <2>2. Counted(word, n, i) \in DiskState
    BY <2>1, CountsOn
  <2> QED
    BY <1>6, <2>2, Zenon DEF Counted
<1>8. /\ next.base = word.base /\ next.total = word.total /\ next.track = word.track
      /\ next.wordsync = word.wordsync /\ next.dma_active = word.dma_active
      /\ next.write_mode = word.write_mode /\ next.countdown = word.countdown
      /\ next.done = n /\ next.src = i /\ next.sync_seen = word.sync_seen
  BY <1>3, <1>6, Zenon DEF DiskState
<1> QED
  BY <1>3, <1>5, <1>7, <1>8, Zenon

LEMMA FinishType ==
    ASSUME NEW d \in DiskState, NEW p \in Nat,
           NEW f, f = [finish(RearmSync(d)) EXCEPT !.dskptr = p]
    PROVE  /\ f \in DiskState /\ ~f.dma_active
           /\ f.base = d.base /\ f.total = d.total /\ f.done = d.done
           /\ f.wordsync = d.wordsync
<1> DEFINE r == RearmSync(d)
           e == finish(r)
<1>1. /\ r \in DiskState /\ r.base = d.base /\ r.total = d.total /\ r.done = d.done
      /\ r.wordsync = d.wordsync
  BY Zenon DEF RearmSync, DiskState
<1> HIDE DEF r
<1>2. e = [r EXCEPT !.dma_active = FALSE, !.dma_armed = FALSE, !.sync_seen = FALSE,
                    !.sync_irq_fired = FALSE]
  BY Zenon DEF finish
<1>3. f = [e EXCEPT !.dskptr = p]
  BY Zenon DEF r
<1> HIDE DEF e
<1>4. /\ e \in DiskState /\ ~e.dma_active /\ e.base = d.base /\ e.total = d.total
      /\ e.done = d.done /\ e.wordsync = d.wordsync
  BY <1>1, <1>2, Zenon DEF DiskState
<1> QED
  BY <1>3, <1>4, Zenon DEF DiskState

(* One word more is in place.                                              *)
Stored(m, a, track, i) == [m EXCEPT ![a] = <<track, i>>]

LEMMA CopiedOneMore ==
    ASSUME NEW g \in Goal, NEW m \in [Memory -> Words], NEW n \in Nat,
           Copied(g, m, n), g.base + n < MemoryWords,
           NEW m2, m2 = Stored(m, g.base + n, g.track, (g.src + n) % TrackWords)
    PROVE  Copied(g, m2, n + 1) /\ m2 \in [Memory -> Words]
<1> DEFINE w(i) == <<g.track, (g.src + i) % TrackWords>>
           b == g.base
<1>1. b \in Nat /\ g.src \in Nat /\ g.track \in TrackUnder /\ TrackWords \in Nat \ {0}
  BY GoalFields, ConstantsAssumption
<1>2. (g.src + n) % TrackWords \in 0..(TrackWords - 1)
  <2>1. g.src + n \in Int
    BY <1>1
  <2> QED
    BY <1>1, <2>1, DivMod
<1>3. w(n) \in Words
  BY <1>1, <1>2 DEF Words
<1>4. b + n \in Memory
  BY <1>1, ConstantsAssumption DEF Memory
<1>5. \A i \in 0..(n - 1) : m[b + i] = w(i)
  BY Zenon DEF Copied
<1>6. m2 = [m EXCEPT ![b + n] = w(n)]
  BY Zenon DEF Stored
<1> HIDE DEF w, b
<1>7. m2 \in [Memory -> Words]
  BY <1>3, <1>4, <1>6
<1>8. ASSUME NEW i \in 0..((n + 1) - 1) PROVE m2[b + i] = w(i)
  <2>1. CASE i = n
    BY <1>4, <1>6, <2>1
  <2>2. CASE i # n
    <3>1. i \in 0..(n - 1) /\ b + i # b + n /\ b + i < b + n
      BY <1>1, <2>2
    <3>2. b + i \in Memory
      BY <1>1, <1>4, <3>1, ConstantsAssumption DEF Memory
    <3> QED
      BY <1>5, <1>6, <3>1, <3>2
  <2> QED
    BY <2>1, <2>2
<1> QED
  BY <1>7, <1>8, Zenon DEF Copied, w, b

(* What follows o, by parts.                                               *)
LEMMA FollowsParts ==
    ASSUME NEW o, NEW s \in Follows(o)
    PROVE  s \in Machine /\ Sound(s) /\ Since(o, s)
BY Zenon DEF Follows

GoalAt(g, y) == [g EXCEPT !.synced = y]

LEMMA CopiedSame ==
    ASSUME NEW g, NEW h, NEW m, NEW n, Copied(g, m, n),
           h.track = g.track, h.src = g.src, h.base = g.base
    PROVE  Copied(h, m, n)
BY Zenon DEF Copied

MachineAt(s, m, d, q, g) ==
    [s EXCEPT !.ram = m, !.disk = d, !.intreq = q, !.goal = g]

LEMMA IrqType ==
    ASSUME NEW d
    PROVE  SyncIrq(d) \in SUBSET {"DSKBLK", "DSKSYN"} /\ "DSKBLK" \notin SyncIrq(d)
BY DEF SyncIrq

(* The request that the last word makes.                                   *)
LEMMA LastSync ==
    ASSUME NEW d \in DiskState, d.sync_seen, d.wordsync
    PROVE  "DSKSYN" \in SyncIrq(RearmSync(d))
<1> DEFINE r == RearmSync(d)
<1>1. r = [d EXCEPT !.sync_irq_fired = FALSE]
  BY Zenon DEF RearmSync
<1> HIDE DEF r
<1>2. r.sync_seen = d.sync_seen /\ r.wordsync = d.wordsync /\ ~r.sync_irq_fired
  BY <1>1, Zenon DEF DiskState
<1>3. SyncDue(r)
  BY <1>2, Zenon DEF SyncDue
<1> QED
  BY <1>3, Zenon DEF SyncIrq, r

(* The state t in which a word of s has been copied.                       *)
OneWord(s, next, sync, m2, q, h, t) ==
    /\ next \in DiskState /\ sync \in BOOLEAN
    /\ next.base = s.disk.base /\ next.total = s.disk.total
    /\ next.track = s.disk.track /\ next.wordsync = s.disk.wordsync
    /\ next.done = s.disk.done + 1 /\ next.src = (s.disk.src + 1) % TrackWords
    /\ next.sync_seen = (s.disk.sync_seen \/ sync)
    /\ m2 = Stored(s.ram, s.disk.base + s.disk.done, s.disk.track, s.disk.src)
    /\ q \in SUBSET {"DSKBLK", "DSKSYN"} /\ s.intreq \subseteq q
    /\ "DSKBLK" \in q => "DSKBLK" \in s.intreq
    /\ h = GoalAt(s.goal, s.goal.synced \/ sync)
    /\ t = MachineAt(s, m2, next, q, h)

LEMMA WordFollows ==
    ASSUME NEW o, NEW s \in Follows(o), wants_service(s.disk),
           NEW next, NEW sync, NEW m2, NEW q, NEW h, NEW t,
           OneWord(s, next, sync, m2, q, h, t)
    PROVE  /\ s.goal.due /\ o.goal.due
           /\ m2 \in [Memory -> Words] /\ Copied(h, m2, next.done)
           /\ next.done <= next.total
           /\ h \in Goal /\ t \in Machine
           /\ t \in Follows(o)
<1> USE DEF OneWord
<1> DEFINE d == s.disk
           g == s.goal
<1>1. s \in Machine /\ Sound(s) /\ Since(o, s)
  BY FollowsParts
<1>2. d \in DiskState /\ g \in Goal /\ s.ram \in [Memory -> Words]
  BY <1>1, MachineFields
<1>3. d.done < d.total /\ d.dma_active
  BY Zenon DEF wants_service
<1>4. g.due /\ o.goal.due
  BY <1>1, Zenon DEF Sound, Underway, Since
<1>5. /\ d.base = g.base /\ d.total = g.len /\ d.track = g.track
      /\ g.base + g.len <= MemoryWords
      /\ d.src = (g.src + d.done) % TrackWords
      /\ Copied(g, s.ram, d.done)
      /\ g.synced => d.sync_seen
  BY <1>1, <1>4, Zenon DEF Sound, Underway
<1>6. /\ d.done \in Nat /\ d.total \in Nat /\ g.base \in Nat /\ g.len \in Nat
      /\ g.src \in Nat /\ TrackWords \in Nat \ {0} /\ MemoryWords \in Nat
  <2>1. d.done \in Nat /\ d.total \in Nat
    BY <1>2, DiskFields, Zenon
  <2>2. g.base \in Nat /\ g.len \in Nat /\ g.src \in 0..(TrackWords - 1)
    BY <1>2, GoalFields, Zenon
  <2>3. TrackWords \in Nat \ {0} /\ MemoryWords \in Nat
    BY ConstantsAssumption, Zenon
  <2>4. g.src \in Nat
    BY <2>2, <2>3
  <2> QED
    BY <2>1, <2>2, <2>3, <2>4, Zenon
<1>7. m2 = Stored(s.ram, g.base + d.done, g.track, (g.src + d.done) % TrackWords)
  BY <1>5, Zenon
<1>8. g.base + d.done < MemoryWords
  BY <1>3, <1>5, <1>6
<1>9. Copied(g, m2, d.done + 1) /\ m2 \in [Memory -> Words]
  BY <1>2, <1>5, <1>6, <1>7, <1>8, CopiedOneMore
<1>10. /\ h \in Goal /\ h.due /\ h.synced = (g.synced \/ sync)
       /\ h.track = g.track /\ h.src = g.src /\ h.base = g.base /\ h.len = g.len
  <2> DEFINE y == g.synced \/ sync
  <2>1. y \in BOOLEAN /\ h = GoalAt(g, y)
    OBVIOUS
  <2> HIDE DEF y, g
  <2>2. /\ h \in Goal /\ h.due = g.due /\ h.synced = y
        /\ h.track = g.track /\ h.src = g.src /\ h.base = g.base /\ h.len = g.len
    BY <1>2, <2>1, Zenon DEF Goal, GoalAt
  <2> QED
    BY <1>4, <2>2, Zenon DEF y
<1>11. Copied(h, m2, next.done)
  <2>1. Copied(h, m2, d.done + 1)
    BY <1>9, <1>10, CopiedSame
  <2> QED
    BY <2>1, Zenon
<1>12. t \in Machine /\ t.ram = m2 /\ t.disk = next /\ t.intreq = q /\ t.goal = h
  <2>1. s \in Machine /\ next \in DiskState /\ q \in SUBSET {"DSKBLK", "DSKSYN"}
        /\ m2 \in [Memory -> Words] /\ h \in Goal
    BY <1>1, <1>9, <1>10, Zenon
  <2>2. t = MachineAt(s, m2, next, q, h)
    OBVIOUS
  <2> QED
    BY <2>1, <2>2, Zenon DEF Machine, MachineAt
<1>13. next.done <= next.total
  <2>1. d.done + 1 <= d.total
    BY <1>3, <1>6
  <2> QED
    BY <2>1, Zenon
<1>14. next.src = (h.src + next.done) % TrackWords
  <2> DEFINE a == g.src + d.done
  <2>1. a \in Nat /\ g.src + (d.done + 1) = a + 1
    BY <1>6
  <2> HIDE DEF a
  <2>2. ((a % TrackWords) + 1) % TrackWords = (a + 1) % TrackWords
    BY <1>6, <2>1, ModSucc
  <2>3. d.src = a % TrackWords
    BY <1>5, Zenon DEF a
  <2> QED
    BY <1>10, <2>1, <2>2, <2>3, Zenon
<1>15. h.synced => next.sync_seen /\ next.total > 0
  <2>1. d.total > 0
    BY <1>3, <1>6
  <2> QED
    BY <1>5, <1>10, <2>1, Zenon
<1>16. Underway(next, h, m2)
  BY <1>5, <1>10, <1>11, <1>14, <1>15, Zenon DEF Underway
<1>17. Sound(t)
  BY <1>12, <1>13, <1>16, Zenon DEF Sound
<1>18. Since(o, t)
  BY <1>1, <1>4, <1>10, <1>12, Zenon DEF Since
<1> QED
  BY <1>4, <1>9, <1>10, <1>11, <1>12, <1>13, <1>17, <1>18, Zenon DEF Follows

(* disk_dma_service_grant copies the next word of the read, and ends the   *)
(* read with the last.                                                     *)
LEMMA GrantFollows ==
    ASSUME NEW o, NEW s \in Follows(o), wants_service(s.disk)
    PROVE  service_grant(s) \in Follows(o)
<1> DEFINE d    == s.disk
           sync == IsSync(d, d.src)
           next == word_done(d)
           q    == s.intreq \cup word_irq(d)
           m2   == Stored(s.ram, d.base + d.done, d.track, d.src)
           h    == GoalAt(s.goal, s.goal.synced \/ sync)
           out  == MachineAt(s, m2, next, q, h)
           f    == [finish(RearmSync(next)) EXCEPT !.dskptr = d.base + d.total]
           q2   == q \cup SyncIrq(RearmSync(next)) \cup {"DSKBLK"}
           h3   == [h EXCEPT !.due = FALSE]
<1>1. s \in Machine /\ Sound(s) /\ Since(o, s)
  BY FollowsParts
<1>2. d \in DiskState /\ s.intreq \in SUBSET {"DSKBLK", "DSKSYN"}
  BY <1>1, MachineFields
<1>3. sync \in BOOLEAN
  BY DEF IsSync
<1>4. service_grant(s) = IF next.done < next.total THEN out
                         ELSE [out EXCEPT !.disk = f, !.intreq = out.intreq \cup
                                  SyncIrq(RearmSync(next)) \cup {"DSKBLK"},
                                  !.goal.due = FALSE]
  BY Zenon DEF service_grant, Stored, GoalAt, MachineAt
<1>5. q \in SUBSET {"DSKBLK", "DSKSYN"} /\ s.intreq \subseteq q
      /\ ("DSKBLK" \in q => "DSKBLK" \in s.intreq)
  BY <1>2, IrqType DEF word_irq
<1> HIDE DEF sync
<1>6. /\ next \in DiskState
      /\ next.base = d.base /\ next.total = d.total /\ next.track = d.track
      /\ next.wordsync = d.wordsync
      /\ next.done = d.done + 1 /\ next.src = (d.src + 1) % TrackWords
      /\ next.sync_seen = (d.sync_seen \/ sync)
  <2> HIDE DEF d, next
  <2>1. next = word_done(d) /\ sync = IsSync(d, d.src)
    BY DEF next, sync, d
  <2> QED
    BY <1>2, <1>3, <2>1, WordDone
<1> HIDE DEF next, q, m2, h, out
<1>7. m2 = Stored(s.ram, d.base + d.done, d.track, d.src)
      /\ h = GoalAt(s.goal, s.goal.synced \/ sync) /\ out = MachineAt(s, m2, next, q, h)
  BY Zenon DEF m2, h, out
<1>8. /\ s.goal.due /\ o.goal.due
      /\ m2 \in [Memory -> Words] /\ Copied(h, m2, next.done)
      /\ next.done <= next.total
      /\ h \in Goal /\ out \in Machine /\ out \in Follows(o)
  <2>1. OneWord(s, next, sync, m2, q, h, out)
    BY <1>3, <1>5, <1>6, <1>7, Zenon DEF OneWord
  <2> QED
    BY <2>1, WordFollows
<1>9. CASE next.done < next.total
  BY <1>4, <1>8, <1>9, Zenon
<1>10. CASE ~(next.done < next.total)
  <2> DEFINE t == service_grant(s)
  <2>1. out.intreq = q /\ out.disk = next /\ out.goal = h /\ out.ram = m2
    BY <1>1, <1>7, Zenon DEF Machine, MachineAt
  <2>2. t = [out EXCEPT !.disk = f, !.intreq = q2, !.goal = h3]
    BY <1>4, <1>10, <2>1, Zenon
  <2> DEFINE p == d.base + d.total
  <2>3. p \in Nat
    BY <1>2, DiskFields
  <2> HIDE DEF p
  <2>4. /\ f \in DiskState /\ ~f.dma_active
        /\ f.base = next.base /\ f.total = next.total /\ f.done = next.done
        /\ f.wordsync = next.wordsync
    <3>1. f = [finish(RearmSync(next)) EXCEPT !.dskptr = p]
      BY DEF p
    <3> QED
      BY <1>6, <2>3, <3>1, FinishType, ZenonT(60)
  <2>5. q2 \in SUBSET {"DSKBLK", "DSKSYN"} /\ q \subseteq q2
    BY <1>5, IrqType
  <2>6. /\ h3 \in Goal /\ ~h3.due /\ h3.track = h.track /\ h3.src = h.src
        /\ h3.base = h.base /\ h3.len = h.len /\ h3.synced = h.synced
    BY <1>8, Zenon DEF Goal
  <2>7. out \in Machine /\ Sound(out) /\ Since(o, out)
    BY <1>8, FollowsParts
  <2>8. h.due /\ next.total = h.len /\ (h.synced => next.sync_seen)
    <3>1. h.due
      <4>1. h.due = s.goal.due
        <5>1. s.goal \in Goal
          BY <1>1, MachineFields
        <5> QED
          BY <1>7, <5>1, Zenon DEF Goal, GoalAt
      <4> QED
        BY <1>8, <4>1, Zenon
    <3> QED
      BY <2>1, <2>7, <3>1, Zenon DEF Sound, Underway
  <2>9. next.done = h.len
    <3>1. next.done \in Nat /\ next.total \in Nat
      BY <1>6, DiskFields
    <3>2. next.done = next.total
      BY <1>8, <1>10, <3>1
    <3> QED
      BY <2>8, <3>2, Zenon
  <2>10. (h.synced /\ next.wordsync) => "DSKSYN" \in q2
    <3> SUFFICES ASSUME h.synced, next.wordsync PROVE "DSKSYN" \in q2
      OBVIOUS
    <3>1. "DSKSYN" \in SyncIrq(RearmSync(next))
      BY <1>6, <2>8, LastSync
    <3> QED
      BY <3>1, Zenon
  <2> HIDE DEF f, q2, h3, t
  <2>11. t \in Machine /\ t.disk = f /\ t.intreq = q2 /\ t.goal = h3 /\ t.ram = m2
    BY <2>1, <2>2, <2>4, <2>5, <2>6, <2>7, Zenon DEF Machine
  <2>12. Copied(h3, m2, h3.len)
    <3>1. Copied(h3, m2, next.done)
      BY <1>8, <2>6, CopiedSame
    <3> QED
      BY <2>6, <2>9, <3>1, Zenon
  <2>13. Sound(t)
    <3>1. f.done <= f.total
      BY <1>8, <2>4, Zenon
    <3>2. Underway(f, h3, m2)
      BY <2>4, <2>6, Zenon DEF Underway, wants_service
    <3> QED
      BY <2>11, <3>1, <3>2, Zenon DEF Sound
  <2>14. Since(o, t)
    BY <1>8, <2>1, <2>4, <2>5, <2>6, <2>7, <2>10, <2>11, <2>12, Zenon DEF Since
  <2> QED
    BY <2>11, <2>13, <2>14, Zenon DEF Follows, t
<1> QED
  BY <1>9, <1>10

SlotAt(s, i, c) == [s EXCEPT !.slot = i, !.dmacon = c]

LEMMA SlotFollows ==
    ASSUME NEW o, NEW s \in Follows(o), NEW i \in Slots,
           NEW c \in SUBSET {"DMAEN", "DSKEN"},
           NEW t, t = SlotAt(s, i, c)
    PROVE  t \in Follows(o) /\ t.disk = s.disk
<1>1. s \in Machine /\ Sound(s) /\ Since(o, s)
  BY FollowsParts
<1>2. /\ t \in Machine /\ t.disk = s.disk /\ t.intreq = s.intreq /\ t.ram = s.ram
      /\ t.goal = s.goal
  BY <1>1, Zenon DEF Machine, SlotAt
<1>3. Sound(t)
  BY <1>1, <1>2, Zenon DEF Sound
<1>4. Since(o, t)
  BY <1>1, <1>2, Zenon DEF Since
<1> QED
  BY <1>2, <1>3, <1>4, Zenon DEF Follows

LEMMA ClockFollows ==
    ASSUME NEW o, NEW s \in Follows(o)
    PROVE  DiskClock(s) \in Follows(o)
<1> DEFINE urgent == /\ Legacy /\ SlotOwners[s.slot] # "refresh"
                     /\ "DMAEN" \in s.dmacon /\ wants_service(s.disk)
           mine == SlotOwners[s.slot] = "disk" /\ {"DMAEN", "DSKEN"} \subseteq s.dmacon
           i == (s.slot % Len(SlotOwners)) + 1
           c == IF urgent THEN s.dmacon \cup {"DSKEN"} ELSE s.dmacon
           next == SlotAt(s, i, c)
<1>1. DiskClock(s) = IF (urgent \/ mine) /\ wants_service(s.disk)
                     THEN service_grant(next) ELSE next
  BY Zenon DEF DiskClock, SlotAt
<1>2. s \in Machine
  BY FollowsParts
<1>3. c \in SUBSET {"DMAEN", "DSKEN"}
  <2>1. s.dmacon \in SUBSET {"DMAEN", "DSKEN"}
    BY <1>2, MachineFields
  <2> HIDE DEF urgent
  <2> QED
    BY <2>1, Zenon
<1>4. i \in Slots
  <2>1. s.slot \in Slots /\ Len(SlotOwners) \in Nat
    BY <1>2, MachineFields, ConstantsAssumption, LenProperties
  <2> DEFINE L == Len(SlotOwners)
             k == s.slot
  <2>2. k \in 1..L /\ L \in Nat
    BY <2>1 DEF Slots
  <2> HIDE DEF L, k
  <2>3. (k % L) + 1 \in 1..L
    BY <2>2
  <2> QED
    BY <2>3 DEF L, k, Slots
<1> HIDE DEF i, c
<1>5. next \in Follows(o) /\ next.disk = s.disk
  BY <1>3, <1>4, SlotFollows
<1> HIDE DEF next
<1>6. CASE (urgent \/ mine) /\ wants_service(s.disk)
  <2>1. wants_service(next.disk)
    BY <1>5, <1>6, Zenon
  <2>2. service_grant(next) \in Follows(o)
    BY <1>5, <2>1, GrantFollows
  <2> QED
    BY <1>1, <1>6, <2>2, Zenon
<1>7. CASE ~((urgent \/ mine) /\ wants_service(s.disk))
  BY <1>1, <1>5, <1>7, Zenon
<1> QED
  BY <1>6, <1>7, Zenon

LEMMA ClocksFollow ==
    ASSUME NEW o, NEW s \in Follows(o), NEW n \in Nat
    PROVE  DiskClocks(s, n) \in Follows(o)
<1> DEFINE X == Follows(o)
           F == [x \in X |-> DiskClock(x)]
           Eq(g) == g = [i \in 0..n |-> IF i = 0 THEN s ELSE DiskClock(g[i - 1])]
           at == CHOOSE g : Eq(g)
<1>1. \A x \in X : F[x] = DiskClock(x) /\ F[x] \in X
  BY ClockFollows
<1> HIDE DEF X, F
<1>0. s \in X
  BY DEF X
<1>2. PICK f : Run(F, s, n, f)
  BY RunExists
<1>3. f \in [0..n -> X]
  BY <1>0, <1>1, <1>2, RunInvariant
<1>4. Eq(f)
  <2>1. f = [i \in 0..n |-> IF i = 0 THEN s ELSE F[f[i - 1]]]
    BY <1>2 DEF Run
  <2>2. ASSUME NEW i \in 0..n
        PROVE  f[i] = IF i = 0 THEN s ELSE DiskClock(f[i - 1])
    <3>1. i # 0 => i - 1 \in 0..n
      OBVIOUS
    <3> QED
      BY <1>1, <1>3, <2>1, <3>1
  <2> QED
    BY <1>3, <2>2
<1>5. Eq(at)
  BY <1>4
<1>6. DiskClocks(s, n) = at[n]
  BY Zenon DEF DiskClocks
<1> HIDE DEF at
<1>7. n \in {k \in Nat : k \in 0..n => at[k] \in X}
  <2> DEFINE S == {k \in Nat : k \in 0..n => at[k] \in X}
  <2>1. 0 \in S
    BY <1>0, <1>5
  <2>2. ASSUME NEW k \in Nat, k \in S PROVE k + 1 \in S
    <3> SUFFICES ASSUME k + 1 \in 0..n PROVE at[k + 1] \in X
      OBVIOUS
    <3>1. k \in 0..n /\ k + 1 # 0 /\ (k + 1) - 1 = k
      OBVIOUS
    <3>2. at[k + 1] = DiskClock(at[k]) /\ at[k] \in X
      BY <1>5, <2>2, <3>1
    <3> QED
      BY <1>1, <3>2
  <2>3. Nat \subseteq S
    BY <2>1, <2>2, SetInduction
  <2> HIDE DEF S
  <2>4. n \in S
    BY <2>3
  <2> QED
    BY <2>4, Zenon DEF S
<1>8. at[n] \in X
  BY <1>7
<1> QED
  BY <1>6, <1>8, Zenon DEF X

(* disk_step ends a read without a disk, for which nothing was to come.    *)
LEMMA DelayFollows ==
    ASSUME NEW o, NEW s \in Follows(o), NEW n \in Nat
    PROVE  disk_step(s, n) \in Follows(o)
<1> DEFINE d == s.disk
           t == disk_step(s, n)
<1>1. s \in Machine /\ Sound(s) /\ Since(o, s)
  BY FollowsParts
<1>2. d \in DiskState /\ s.goal \in Goal /\ s.intreq \in SUBSET {"DSKBLK", "DSKSYN"}
  BY <1>1, MachineFields
<1>3. d.countdown \in 0..FakeCycles /\ d.total \in Nat /\ FakeCycles \in Nat
  BY <1>2, DiskFields, ConstantsAssumption
<1>4. CASE ~d.dma_active \/ d.total > 0 \/ d.countdown = 0
  BY <1>4, Zenon DEF disk_step
<1>5. CASE ~(~d.dma_active \/ d.total > 0 \/ d.countdown = 0) /\ d.countdown > n
  <2> DEFINE c == d.countdown - n
             e == [d EXCEPT !.countdown = c]
  <2>1. c \in 0..FakeCycles /\ c # 0
    BY <1>3, <1>5
  <2>2. t = [s EXCEPT !.disk = e]
    BY <1>5, Zenon DEF disk_step
  <2> HIDE DEF c, t
  <2>3. /\ e \in DiskState /\ e.dma_active = d.dma_active /\ e.total = d.total
        /\ e.done = d.done /\ e.base = d.base /\ e.src = d.src /\ e.track = d.track
        /\ e.sync_seen = d.sync_seen /\ e.wordsync = d.wordsync
        /\ e.write_mode = d.write_mode
    BY <1>2, <2>1, Zenon DEF DiskState
  <2> HIDE DEF e
  <2>4. /\ t \in Machine /\ t.disk = e /\ t.goal = s.goal /\ t.ram = s.ram
        /\ t.intreq = s.intreq
    BY <1>1, <2>2, <2>3, Zenon DEF Machine
  <2>5. Underway(e, s.goal, s.ram)
    BY <1>1, <1>5, <2>3, Zenon DEF Sound, Underway, wants_service
  <2>6. Sound(t)
    BY <1>1, <2>3, <2>4, <2>5, Zenon DEF Sound
  <2>7. Since(o, t)
    BY <1>1, <2>3, <2>4, Zenon DEF Since
  <2> QED
    BY <2>4, <2>6, <2>7, Zenon DEF Follows, t
<1>6. CASE ~(~d.dma_active \/ d.total > 0 \/ d.countdown = 0) /\ ~(d.countdown > n)
  <2> DEFINE e == [finish(d) EXCEPT !.countdown = 0]
             q == s.intreq \cup {"DSKBLK"}
             h == [s.goal EXCEPT !.due = FALSE]
  <2>1. t = [s EXCEPT !.disk = e, !.intreq = q, !.goal = h]
    BY <1>6, Zenon DEF disk_step
  <2>2. e \in DiskState /\ ~e.dma_active /\ e.total = d.total /\ e.done = d.done
        /\ e.wordsync = d.wordsync
    <3> DEFINE x == finish(d)
    <3>1. x \in DiskState /\ ~x.dma_active /\ x.total = d.total /\ x.done = d.done
          /\ x.wordsync = d.wordsync
      BY <1>2, Zenon DEF DiskState, finish
    <3>2. 0 \in 0..FakeCycles
      BY <1>3
    <3> HIDE DEF x
    <3>3. e = [x EXCEPT !.countdown = 0]
      BY Zenon DEF x
    <3> HIDE DEF e
    <3> QED
      BY <3>1, <3>2, <3>3, Zenon DEF DiskState
  <2>3. /\ h \in Goal /\ ~h.due /\ h.track = s.goal.track /\ h.src = s.goal.src
        /\ h.base = s.goal.base /\ h.len = s.goal.len /\ h.synced = s.goal.synced
    BY <1>2, Zenon DEF Goal
  <2>4. q \in SUBSET {"DSKBLK", "DSKSYN"} /\ s.intreq \subseteq q
    BY <1>2
  <2> HIDE DEF e, q, h, t
  <2>5. /\ t \in Machine /\ t.disk = e /\ t.goal = h /\ t.ram = s.ram /\ t.intreq = q
    BY <1>1, <2>1, <2>2, <2>3, <2>4, Zenon DEF Machine
  <2>6. s.goal.due /\ o.goal.due
    <3>1. d.total = 0
      BY <1>3, <1>6
    <3> QED
      BY <1>1, <1>6, <3>1, Zenon DEF Sound, Underway, Since
  <2>7. s.goal.len = 0 /\ ~s.goal.synced
    <3>1. d.total = 0 /\ ~(d.total > 0)
      BY <1>3, <1>6
    <3> QED
      BY <1>1, <2>6, <3>1, Zenon DEF Sound, Underway
  <2>8. Copied(h, s.ram, h.len)
    <3>1. h.len = 0
      BY <2>3, <2>7, Zenon
    <3>2. Copied(h, s.ram, 0)
      <4>1. 0..(0 - 1) = {}
        OBVIOUS
      <4> QED
        BY <4>1, Zenon DEF Copied
    <3> QED
      BY <3>1, <3>2, Zenon
  <2>9. Sound(t)
    <3>1. Underway(e, h, s.ram)
      BY <2>2, <2>3, Zenon DEF Underway, wants_service
    <3>2. e.done <= e.total
      BY <1>1, <2>2, Zenon DEF Sound
    <3> QED
      BY <2>5, <3>1, <3>2, Zenon DEF Sound
  <2>10. Since(o, t)
    BY <1>1, <2>2, <2>3, <2>4, <2>5, <2>6, <2>7, <2>8, Zenon DEF Since
  <2> QED
    BY <2>5, <2>9, <2>10, Zenon DEF Follows, t
<1> QED
  BY <1>4, <1>5, <1>6, Zenon

(* What the flags of DSKSYN and the pointers do not touch.                 *)
LEMMA UnderwaySame ==
    ASSUME NEW d, NEW e, NEW g, NEW m, Underway(d, g, m),
           e.dma_active = d.dma_active, e.write_mode = d.write_mode,
           e.done = d.done, e.total = d.total, e.countdown = d.countdown,
           e.base = d.base, e.track = d.track, e.src = d.src, e.sync_seen = d.sync_seen
    PROVE  Underway(e, g, m)
BY Zenon DEF Underway, wants_service

LEMMA EmitKeeps ==
    ASSUME NEW d \in DiskState, NEW e, e = maybe_emit_sync(d)
    PROVE  /\ e \in DiskState
           /\ e.dma_active = d.dma_active /\ e.write_mode = d.write_mode
           /\ e.done = d.done /\ e.total = d.total /\ e.countdown = d.countdown
           /\ e.base = d.base /\ e.track = d.track /\ e.src = d.src
           /\ e.sync_seen = d.sync_seen
<1> DEFINE f == d.sync_irq_fired \/ SyncDue(d)
<1>1. f \in BOOLEAN /\ e = [d EXCEPT !.sync_irq_fired = f]
  BY DEF maybe_emit_sync
<1> HIDE DEF f
<1> QED
  BY <1>1, Zenon DEF DiskState

LEMMA FirstSyncType ==
    ASSUME SyncAt # {}
    PROVE  FirstSync \in 0..(TrackWords - 1)
<1>1. SyncAt \in SUBSET Nat
  BY ConstantsAssumption
<1>2. PICK x \in SyncAt : \A y \in SyncAt : ~(y < x)
  BY <1>1, LeastNat
<1>3. \A y \in SyncAt : x <= y
  BY <1>1, <1>2
<1>4. FirstSync \in SyncAt
  BY <1>2, <1>3, Zenon DEF FirstSync
<1> QED
  BY <1>4, ConstantsAssumption

(* disk_start_dma sets up a read of the track under the head.              *)
LEMMA StartType ==
    ASSUME NEW x \in DiskState, under \in TrackUnder, NEW w \in BOOLEAN,
           NEW len \in Nat, NEW d, d = start_dma(x, w, len)
    PROVE  /\ d \in DiskState /\ d.done = 0 /\ d.base = x.dskptr /\ d.write_mode = w
           /\ d.total = 0 \/ (d.total = len /\ ~w)
           /\ d.countdown # 0 => (~w /\ len # 0)
<1> DEFINE b == [x EXCEPT !.write_mode = w, !.dma_active = TRUE,
                          !.dma_armed = FALSE, !.sync_seen = FALSE,
                          !.sync_irq_fired = FALSE, !.byte_ready = FALSE,
                          !.countdown = 0, !.base = x.dskptr, !.total = 0,
                          !.done = 0, !.src = 0, !.track = NoTrack]
           found == x.mark /\ SyncAt # {}
           i == IF found /\ x.wordsync THEN FirstSync ELSE 0
<1>1. /\ 0 \in 0..FakeCycles /\ 0 \in 0..(TrackWords - 1) /\ 0 \in Nat
      /\ FakeCycles \in 0..FakeCycles /\ NoTrack \in TrackUnder
      /\ found \in BOOLEAN
  BY ConstantsAssumption DEF TrackUnder
<1>2. i \in 0..(TrackWords - 1)
  BY <1>1, FirstSyncType
<1>3. d = IF w \/ len = 0 THEN b
          ELSE IF under = NoTrack THEN [b EXCEPT !.countdown = FakeCycles]
          ELSE [b EXCEPT !.track = under, !.total = len, !.sync_seen = found,
                         !.byte_ready = found, !.src = i]
  BY Zenon DEF start_dma
<1>4. x.dskptr \in Nat
  BY DiskFields
<1>5. b \in DiskState
  BY <1>1, <1>4, Zenon DEF DiskState
<1>6. b.done = 0 /\ b.base = x.dskptr /\ b.total = 0 /\ b.countdown = 0 /\ b.write_mode = w
  BY Zenon DEF DiskState
<1> HIDE DEF b, i, found
<1>7. CASE w \/ len = 0
  BY <1>3, <1>5, <1>6, <1>7, Zenon
<1>8. CASE ~(w \/ len = 0) /\ under = NoTrack
  <2>1. d = [b EXCEPT !.countdown = FakeCycles]
    BY <1>3, <1>8, Zenon
  <2> QED
    BY <1>1, <1>5, <1>6, <1>8, <2>1, Zenon DEF DiskState
<1>9. CASE ~(w \/ len = 0) /\ under # NoTrack
  <2>1. d = [b EXCEPT !.track = under, !.total = len, !.sync_seen = found,
                      !.byte_ready = found, !.src = i]
    BY <1>3, <1>9, Zenon
  <2>2. d \in DiskState
    BY <1>1, <1>2, <1>5, <2>1, Zenon DEF DiskState
  <2>3. /\ d.done = b.done /\ d.base = b.base /\ d.countdown = b.countdown
        /\ d.total = len /\ d.write_mode = b.write_mode
    BY <1>5, <2>1, Zenon DEF DiskState
  <2> QED
    BY <1>6, <1>9, <2>2, <2>3, Zenon
<1> QED
  BY <1>7, <1>8, <1>9, Zenon

-----------------------------------------------------------------------------
DiskInv == TypeOK /\ Underway(disk, goal, ram)

DiskNow == [disk |-> disk, dmacon |-> dmacon, slot |-> slot,
            intreq |-> intreq, ram |-> ram, goal |-> goal]

(* The actions of the three properties.                                    *)
Exact == Finished => \A i \in 0..(goal.len - 1) :
             ram'[goal.base + i] = <<goal.track, (goal.src + i) % TrackWords>>
BlkDue == ("DSKBLK" \in intreq' /\ "DSKBLK" \notin intreq) => goal.due
SyncToo == (Finished /\ goal'.synced /\ disk.wordsync) => "DSKSYN" \in intreq'

DiskStepOK == DiskInv' /\ Exact /\ BlkDue /\ SyncToo

LEMMA NowFollows ==
    ASSUME DiskInv
    PROVE  DiskNow \in Follows(DiskNow)
<1> DEFINE s == DiskNow
<1>1. /\ disk \in DiskState /\ disk.done <= disk.total /\ Underway(disk, goal, ram)
      /\ dmacon \in SUBSET {"DMAEN", "DSKEN"} /\ slot \in Slots
      /\ intreq \in SUBSET {"DSKBLK", "DSKSYN"} /\ ram \in [Memory -> Words]
      /\ goal \in Goal
  BY Zenon DEF DiskInv, TypeOK
<1>2. /\ s.disk = disk /\ s.goal = goal /\ s.ram = ram /\ s.intreq = intreq
  BY Zenon DEF DiskNow
<1>3. s \in Machine
  BY <1>1, Zenon DEF Machine, DiskNow
<1>4. Sound(s)
  BY <1>1, <1>2, Zenon DEF Sound
<1> HIDE DEF s
<1>5. Since(s, s)
  BY Zenon DEF Since
<1> QED
  BY <1>3, <1>4, <1>5, Zenon DEF Follows, s

LEMMA StepOK ==
    ASSUME DiskInv, NEW n \in 1..MaxStep, Step(n)
    PROVE  DiskStepOK
<1> DEFINE now == DiskNow
           run == DiskClocks(now, n)
           end == disk_step(run, n)
<1>0. n \in Nat
  OBVIOUS
<1>1. end \in Follows(now)
  <2>1. run \in Follows(now)
    BY <1>0, NowFollows, ClocksFollow
  <2> QED
    BY <1>0, <2>1, DelayFollows
<1>2. /\ disk' = end.disk /\ dmacon' = end.dmacon /\ slot' = end.slot
      /\ intreq' = end.intreq /\ ram' = end.ram /\ goal' = end.goal
      /\ under' = under /\ writes' = writes
  BY Zenon DEF Step, DiskNow
<1>3. now.disk = disk /\ now.goal = goal /\ now.intreq = intreq
  BY Zenon DEF DiskNow
<1> HIDE DEF now, end
<1>4. end \in Machine /\ Sound(end) /\ Since(now, end)
  BY <1>1, FollowsParts
<1>5. /\ disk' \in DiskState /\ goal' \in Goal /\ ram' \in [Memory -> Words]
      /\ dmacon' \in SUBSET {"DMAEN", "DSKEN"} /\ slot' \in Slots
      /\ intreq' \in SUBSET {"DSKBLK", "DSKSYN"}
  BY <1>2, <1>4, MachineFields
<1>6. TypeOK'
  BY <1>2, <1>4, <1>5, Zenon DEF DiskInv, TypeOK, Sound
<1>7. DiskInv'
  BY <1>2, <1>4, <1>6, Zenon DEF DiskInv, Sound
<1>8. Exact
  <2> SUFFICES ASSUME goal.due, ~goal'.due
               PROVE  \A i \in 0..(goal.len - 1) :
                        ram'[goal.base + i] = <<goal.track, (goal.src + i) % TrackWords>>
    BY Zenon DEF Exact, Finished
  <2>1. Copied(end.goal, end.ram, end.goal.len)
    BY <1>2, <1>3, <1>4, Zenon DEF Since
  <2> QED
    BY <1>2, <1>3, <1>4, <2>1, Zenon DEF Since, Copied
<1>9. BlkDue
  BY <1>2, <1>3, <1>4, Zenon DEF Since, BlkDue
<1>10. SyncToo
  BY <1>2, <1>3, <1>4, Zenon DEF Since, SyncToo, Finished
<1> QED
  BY <1>7, <1>8, <1>9, <1>10, Zenon DEF DiskStepOK

(* A register write can end no read, and raises DSKSYN at most.            *)
LEMMA WriteOK ==
    ASSUME DiskInv, NEW d \in DiskState, d.done <= d.total, NEW x,
           NEW irqs, irqs = {} \/ irqs = SyncIrq(x), Write(d, irqs),
           goal' \in Goal, Underway(d, goal', ram)
    PROVE  DiskStepOK
<1>1. irqs \in SUBSET {"DSKBLK", "DSKSYN"} /\ "DSKBLK" \notin irqs
  BY IrqType
<1>2. /\ disk' = d /\ intreq' = intreq \cup irqs /\ under' = under /\ dmacon' = dmacon
      /\ slot' = slot /\ ram' = ram /\ writes' = writes + 1 /\ writes < MaxWrites
  BY Zenon DEF Write
<1>3. /\ under \in TrackUnder /\ dmacon \subseteq {"DMAEN", "DSKEN"} /\ slot \in Slots
      /\ intreq \subseteq {"DSKBLK", "DSKSYN"} /\ ram \in [Memory -> Words]
      /\ writes \in 0..MaxWrites
  BY Zenon DEF DiskInv, TypeOK
<1>4. writes' \in 0..MaxWrites /\ writes' # writes
  BY <1>2, <1>3, ConstantsAssumption
<1>5. intreq' \subseteq {"DSKBLK", "DSKSYN"}
  BY <1>1, <1>2, <1>3, Zenon
<1>6. DiskInv'
  BY <1>2, <1>3, <1>4, <1>5, Zenon DEF DiskInv, TypeOK
<1>7. BlkDue
  BY <1>1, <1>2, Zenon DEF BlkDue
<1>8. Exact /\ SyncToo
  BY <1>4, Zenon DEF Exact, SyncToo, Finished
<1> QED
  BY <1>6, <1>7, <1>8, Zenon DEF DiskStepOK

(* So do the steps that leave the read alone.                              *)
LEMMA OtherOK ==
    ASSUME DiskInv, disk' \in DiskState, disk'.done <= disk'.total,
           Underway(disk', goal, ram), goal' = goal, ram' = ram,
           intreq' \subseteq intreq, under' \in TrackUnder, slot' = slot,
           dmacon' \subseteq {"DMAEN", "DSKEN"}, writes' \in 0..MaxWrites
    PROVE  DiskStepOK
<1>1. DiskInv'
  BY Zenon DEF DiskInv, TypeOK
<1>2. Exact /\ SyncToo /\ BlkDue
  BY Zenon DEF Exact, SyncToo, BlkDue, Finished
<1> QED
  BY <1>1, <1>2, Zenon DEF DiskStepOK

LEMMA DiskInitInv == Init => DiskInv
<1> SUFFICES ASSUME Init PROVE DiskInv
  OBVIOUS
<1>1. /\ 0 \in 0..FakeCycles /\ 0 \in 0..(TrackWords - 1) /\ 0 \in Nat
      /\ NoTrack \in TrackUnder /\ 0 <= 0
  BY ConstantsAssumption DEF TrackUnder
<1>2. disk_reset \in DiskState /\ disk_reset.done = 0 /\ disk_reset.total = 0
      /\ ~disk_reset.dma_active
  BY <1>1, Zenon DEF disk_reset, DiskState
<1>3. NoGoal \in Goal /\ ~NoGoal.due
  BY <1>1, Zenon DEF NoGoal, Goal
<1>4. <<NoTrack, 0>> \in Words
  BY <1>1 DEF Words
<1>5. ram \in [Memory -> Words]
  BY <1>4, Zenon DEF Init
<1>6. 1 \in Slots
  <2>1. Len(SlotOwners) \in Nat \ {0}
    BY ConstantsAssumption, EmptySeq
  <2> QED
    BY <2>1 DEF Slots
<1>7. writes \in 0..MaxWrites
  BY ConstantsAssumption DEF Init
<1>8. TypeOK
  BY <1>1, <1>2, <1>3, <1>5, <1>6, <1>7, Zenon DEF Init, TypeOK
<1>9. Underway(disk, goal, ram)
  BY <1>2, <1>3, Zenon DEF Init, Underway, wants_service
<1> QED
  BY <1>8, <1>9, Zenon DEF DiskInv

LEMMA StartOK ==
    ASSUME DiskInv, NEW w \in BOOLEAN, NEW len \in Lengths, StartDsklen(w, len)
    PROVE  DiskStepOK
<1> DEFINE d == start_dma(disk, w, len)
           e == maybe_emit_sync(d)
           h == [due |-> ~w /\ len > 0, track |-> d.track, src |-> d.src,
                 base |-> disk.dskptr, len |-> d.total, synced |-> FALSE]
<1>1. disk \in DiskState /\ under \in TrackUnder /\ len \in Nat
  BY ConstantsAssumption DEF DiskInv, TypeOK
<1>2. /\ disk.dskptr + len <= MemoryWords /\ Write(e, SyncIrq(d)) /\ goal' = h
  BY Zenon DEF StartDsklen
<1>3. /\ d \in DiskState /\ d.done = 0 /\ d.base = disk.dskptr /\ d.write_mode = w
      /\ d.total = 0 \/ (d.total = len /\ ~w)
      /\ d.countdown # 0 => (~w /\ len # 0)
  BY <1>1, StartType
<1> HIDE DEF d
<1>4. /\ e \in DiskState
      /\ e.dma_active = d.dma_active /\ e.write_mode = d.write_mode
      /\ e.done = d.done /\ e.total = d.total /\ e.countdown = d.countdown
      /\ e.base = d.base /\ e.track = d.track /\ e.src = d.src
  BY <1>3, EmitKeeps
<1> HIDE DEF e
<1>5. /\ d.total \in Nat /\ d.src \in 0..(TrackWords - 1) /\ d.track \in TrackUnder
      /\ disk.dskptr \in Nat /\ TrackWords \in Nat \ {0} /\ MemoryWords \in Nat
  BY <1>1, <1>3, DiskFields, ConstantsAssumption
<1>6. (~w /\ len > 0) \in BOOLEAN
  OBVIOUS
<1>7. /\ h \in Goal /\ h.due = (~w /\ len > 0) /\ h.track = d.track /\ h.src = d.src
      /\ h.base = disk.dskptr /\ h.len = d.total /\ ~h.synced
  BY <1>5, <1>6, Zenon DEF Goal
<1> HIDE DEF h
<1>8. e.done <= e.total
  <2>1. 0 <= d.total
    BY <1>5
  <2> QED
    BY <1>3, <1>4, <2>1, Zenon
<1>9. h.base + h.len <= MemoryWords
  <2>1. disk.dskptr + d.total <= MemoryWords
    BY <1>1, <1>2, <1>3, <1>5
  <2> QED
    BY <1>7, <2>1, Zenon
<1>10. e.src = (h.src + e.done) % TrackWords
  <2> DEFINE i == d.src
  <2>1. i \in 0..(TrackWords - 1)
    BY <1>5
  <2> HIDE DEF i
  <2>2. i + 0 = TrackWords * 0 + i /\ 0 \in Int
    BY <1>5, <2>1
  <2>3. (i + 0) % TrackWords = i
    BY <1>5, <2>1, <2>2, DivUnique
  <2> QED
    BY <1>3, <1>4, <1>7, <2>3, Zenon DEF i
<1>11. Copied(h, ram, e.done)
  <2>1. 0..(0 - 1) = {} /\ e.done = 0
    BY <1>3, <1>4
  <2> QED
    BY <2>1, Zenon DEF Copied
<1>12. (wants_service(e) \/ (e.dma_active /\ e.total = 0 /\ e.countdown # 0)) => h.due
  <2>1. (~w /\ len # 0) => (~w /\ len > 0)
    BY <1>1
  <2>2. wants_service(e) => (~w /\ len # 0)
    <3> SUFFICES ASSUME wants_service(e) PROVE ~w /\ len # 0
      OBVIOUS
    <3>1. ~e.write_mode /\ e.done < e.total
      BY Zenon DEF wants_service
    <3>2. 0 < d.total /\ ~w
      BY <1>3, <1>4, <3>1, Zenon
    <3> QED
      BY <1>1, <1>3, <3>2
  <2>3. e.countdown # 0 => (~w /\ len # 0)
    BY <1>3, <1>4, Zenon
  <2> QED
    BY <1>7, <2>1, <2>2, <2>3, Zenon
<1>13. Underway(e, h, ram)
  BY <1>3, <1>4, <1>7, <1>9, <1>10, <1>11, <1>12, Zenon DEF Underway
<1>14. goal' \in Goal /\ Underway(e, goal', ram)
  BY <1>2, <1>7, <1>13, Zenon
<1> QED
  BY <1>2, <1>4, <1>8, <1>14, WriteOK

LEMMA DiskNextOK ==
    ASSUME DiskInv, [Next]_vars
    PROVE  DiskStepOK
<1>0. /\ disk \in DiskState /\ disk.done <= disk.total /\ Underway(disk, goal, ram)
      /\ under \in TrackUnder /\ dmacon \subseteq {"DMAEN", "DSKEN"} /\ goal \in Goal
      /\ writes \in 0..MaxWrites
  BY Zenon DEF DiskInv, TypeOK
<1>1. ASSUME NEW p \in Pointers, WriteDskpt(p) PROVE DiskStepOK
  <2> DEFINE d == [disk EXCEPT !.dskptr = p]
  <2>1. p \in Nat
    BY ConstantsAssumption
  <2>2. /\ d \in DiskState /\ d.dma_active = disk.dma_active
        /\ d.write_mode = disk.write_mode /\ d.done = disk.done /\ d.total = disk.total
        /\ d.countdown = disk.countdown /\ d.base = disk.base /\ d.track = disk.track
        /\ d.src = disk.src /\ d.sync_seen = disk.sync_seen
    BY <1>0, <2>1, Zenon DEF DiskState
  <2>3. Write(d, {}) /\ goal' = goal
    BY <1>1, Zenon DEF WriteDskpt
  <2> HIDE DEF d
  <2>4. Underway(d, goal, ram)
    BY <1>0, <2>2, UnderwaySame
  <2>5. d.done <= d.total /\ goal' \in Goal /\ Underway(d, goal', ram)
    BY <1>0, <2>2, <2>3, <2>4, Zenon
  <2> QED
    BY <2>2, <2>3, <2>5, WriteOK
<1>2. ASSUME NEW d \in DiskState, d.dma_active = disk.dma_active,
             d.write_mode = disk.write_mode, d.done = disk.done, d.total = disk.total,
             d.countdown = disk.countdown, d.base = disk.base, d.track = disk.track,
             d.src = disk.src, d.sync_seen = disk.sync_seen,
             Write(maybe_emit_sync(d), SyncIrq(d)), goal' = goal
      PROVE  DiskStepOK
  <2> DEFINE e == maybe_emit_sync(d)
  <2>1. /\ e \in DiskState
        /\ e.dma_active = d.dma_active /\ e.write_mode = d.write_mode
        /\ e.done = d.done /\ e.total = d.total /\ e.countdown = d.countdown
        /\ e.base = d.base /\ e.track = d.track /\ e.src = d.src
        /\ e.sync_seen = d.sync_seen
    BY <1>2, EmitKeeps
  <2>2. Write(e, SyncIrq(d))
    BY <1>2
  <2> HIDE DEF e
  <2>3. /\ e.dma_active = disk.dma_active /\ e.write_mode = disk.write_mode
        /\ e.done = disk.done /\ e.total = disk.total /\ e.countdown = disk.countdown
        /\ e.base = disk.base /\ e.track = disk.track /\ e.src = disk.src
        /\ e.sync_seen = disk.sync_seen
    BY <1>2, <2>1, Zenon
  <2>4. Underway(e, goal, ram)
    BY <1>0, <2>3, UnderwaySame
  <2>5. e.done <= e.total /\ goal' \in Goal /\ Underway(e, goal', ram)
    BY <1>0, <1>2, <2>3, <2>4, Zenon
  <2> QED
    BY <2>1, <2>2, <2>5, WriteOK
<1>3. ASSUME NEW b \in BOOLEAN, WriteDsksync(b) PROVE DiskStepOK
  <2> DEFINE d == [disk EXCEPT !.mark = b, !.sync_irq_fired = FALSE]
  <2>1. /\ d \in DiskState /\ d.dma_active = disk.dma_active
        /\ d.write_mode = disk.write_mode /\ d.done = disk.done /\ d.total = disk.total
        /\ d.countdown = disk.countdown /\ d.base = disk.base /\ d.track = disk.track
        /\ d.src = disk.src /\ d.sync_seen = disk.sync_seen
    BY <1>0, Zenon DEF DiskState
  <2>2. Write(maybe_emit_sync(d), SyncIrq(d)) /\ goal' = goal
    BY <1>3, Zenon DEF WriteDsksync
  <2> HIDE DEF d
  <2> QED
    BY <1>2, <2>1, <2>2
<1>4. ASSUME NEW b \in BOOLEAN, WriteAdkcon(b) PROVE DiskStepOK
  <2> DEFINE d == [disk EXCEPT !.wordsync = b]
  <2>1. /\ d \in DiskState /\ d.dma_active = disk.dma_active
        /\ d.write_mode = disk.write_mode /\ d.done = disk.done /\ d.total = disk.total
        /\ d.countdown = disk.countdown /\ d.base = disk.base /\ d.track = disk.track
        /\ d.src = disk.src /\ d.sync_seen = disk.sync_seen
    BY <1>0, Zenon DEF DiskState
  <2>2. Write(maybe_emit_sync(d), SyncIrq(d)) /\ goal' = goal
    BY <1>4, Zenon DEF WriteAdkcon
  <2> HIDE DEF d
  <2> QED
    BY <1>2, <2>1, <2>2
<1>5. ASSUME StopDsklen PROVE DiskStepOK
  <2> DEFINE d == stop_dma(disk)
  <2>1. Write(d, {}) /\ goal' = NoGoal
    BY <1>5, Zenon DEF StopDsklen
  <2>2. 0 \in 0..FakeCycles /\ 0 \in 0..(TrackWords - 1) /\ 0 \in Nat /\ NoTrack \in TrackUnder
    BY ConstantsAssumption DEF TrackUnder
  <2>3. d \in DiskState /\ ~d.dma_active /\ d.done = disk.done /\ d.total = disk.total
    BY <1>0, <2>2, Zenon DEF stop_dma, DiskState
  <2>4. NoGoal \in Goal /\ ~NoGoal.due
    BY <2>2, Zenon DEF NoGoal, Goal
  <2> HIDE DEF d
  <2>5. d.done <= d.total /\ goal' \in Goal /\ Underway(d, goal', ram)
    BY <1>0, <2>1, <2>3, <2>4, Zenon DEF Underway, wants_service
  <2> QED
    BY <2>1, <2>3, <2>5, WriteOK
<1>6. ASSUME ArmDsklen PROVE DiskStepOK
  <2> DEFINE d == [disk EXCEPT !.dma_armed = TRUE]
  <2>1. /\ d \in DiskState /\ d.dma_active = disk.dma_active
        /\ d.write_mode = disk.write_mode /\ d.done = disk.done /\ d.total = disk.total
        /\ d.countdown = disk.countdown /\ d.base = disk.base /\ d.track = disk.track
        /\ d.src = disk.src /\ d.sync_seen = disk.sync_seen
    BY <1>0, Zenon DEF DiskState
  <2>2. Write(d, {}) /\ goal' = goal
    BY <1>6, Zenon DEF ArmDsklen
  <2> HIDE DEF d
  <2>3. Underway(d, goal, ram)
    BY <1>0, <2>1, UnderwaySame
  <2>4. d.done <= d.total /\ goal' \in Goal /\ Underway(d, goal', ram)
    BY <1>0, <2>1, <2>2, <2>3, Zenon
  <2> QED
    BY <2>1, <2>2, <2>4, WriteOK
<1>7. ASSUME ReadDskbytr PROVE DiskStepOK
  <2> DEFINE d == [disk EXCEPT !.byte_ready = FALSE]
  <2>1. /\ d \in DiskState /\ d.dma_active = disk.dma_active
        /\ d.write_mode = disk.write_mode /\ d.done = disk.done /\ d.total = disk.total
        /\ d.countdown = disk.countdown /\ d.base = disk.base /\ d.track = disk.track
        /\ d.src = disk.src /\ d.sync_seen = disk.sync_seen
    BY <1>0, Zenon DEF DiskState
  <2>2. /\ disk' = d /\ goal' = goal /\ ram' = ram /\ intreq' = intreq /\ under' = under
        /\ slot' = slot /\ dmacon' = dmacon /\ writes' = writes
    BY <1>7, Zenon DEF ReadDskbytr
  <2> HIDE DEF d
  <2>3. Underway(d, goal, ram)
    BY <1>0, <2>1, UnderwaySame
  <2>4. /\ disk' \in DiskState /\ disk'.done <= disk'.total /\ Underway(disk', goal, ram)
        /\ under' \in TrackUnder /\ dmacon' \subseteq {"DMAEN", "DSKEN"}
        /\ writes' \in 0..MaxWrites /\ intreq' \subseteq intreq
    BY <1>0, <2>1, <2>2, <2>3, Zenon
  <2> QED
    BY <2>2, <2>4, OtherOK, Zenon
<1>8. ASSUME NEW i \in {"DSKBLK", "DSKSYN"}, Acknowledge(i) PROVE DiskStepOK
  <2>1. /\ disk' = disk /\ goal' = goal /\ ram' = ram /\ intreq' = intreq \ {i}
        /\ under' = under /\ slot' = slot /\ dmacon' = dmacon /\ writes' = writes
    BY <1>8, Zenon DEF Acknowledge
  <2>2. /\ disk' \in DiskState /\ disk'.done <= disk'.total /\ Underway(disk', goal, ram)
        /\ under' \in TrackUnder /\ dmacon' \subseteq {"DMAEN", "DSKEN"}
        /\ writes' \in 0..MaxWrites /\ intreq' \subseteq intreq
    BY <1>0, <2>1, Zenon
  <2> QED
    BY <2>1, <2>2, OtherOK, Zenon
<1>9. ASSUME NEW c \in SUBSET {"DMAEN", "DSKEN"}, WriteDmacon(c) PROVE DiskStepOK
  <2>1. /\ disk' = disk /\ goal' = goal /\ ram' = ram /\ intreq' = intreq
        /\ under' = under /\ slot' = slot /\ dmacon' = c
        /\ writes < MaxWrites /\ writes' = writes + 1
    BY <1>9, Zenon DEF WriteDmacon
  <2>2. writes' \in 0..MaxWrites
    BY <1>0, <2>1, ConstantsAssumption
  <2>3. /\ disk' \in DiskState /\ disk'.done <= disk'.total /\ Underway(disk', goal, ram)
        /\ under' \in TrackUnder /\ dmacon' \subseteq {"DMAEN", "DSKEN"}
        /\ intreq' \subseteq intreq
    BY <1>0, <2>1, Zenon
  <2> QED
    BY <2>1, <2>2, <2>3, OtherOK, Zenon
<1>10. ASSUME NEW t \in TrackUnder, ChangeTrack(t) PROVE DiskStepOK
  <2>1. /\ disk' = disk /\ goal' = goal /\ ram' = ram /\ intreq' = intreq
        /\ under' = t /\ slot' = slot /\ dmacon' = dmacon
        /\ writes < MaxWrites /\ writes' = writes + 1
    BY <1>10, Zenon DEF ChangeTrack
  <2>2. writes' \in 0..MaxWrites
    BY <1>0, <2>1, ConstantsAssumption
  <2>3. /\ disk' \in DiskState /\ disk'.done <= disk'.total /\ Underway(disk', goal, ram)
        /\ under' \in TrackUnder /\ dmacon' \subseteq {"DMAEN", "DSKEN"}
        /\ intreq' \subseteq intreq
    BY <1>0, <2>1, Zenon
  <2> QED
    BY <2>1, <2>2, <2>3, OtherOK, Zenon
<1>11. ASSUME UNCHANGED vars PROVE DiskStepOK
  <2>1. /\ disk' = disk /\ goal' = goal /\ ram' = ram /\ intreq' = intreq
        /\ under' = under /\ slot' = slot /\ dmacon' = dmacon /\ writes' = writes
    BY <1>11, Zenon DEF vars
  <2>2. /\ disk' \in DiskState /\ disk'.done <= disk'.total /\ Underway(disk', goal, ram)
        /\ under' \in TrackUnder /\ dmacon' \subseteq {"DMAEN", "DSKEN"}
        /\ writes' \in 0..MaxWrites /\ intreq' \subseteq intreq
    BY <1>0, <2>1, Zenon
  <2> QED
    BY <2>1, <2>2, OtherOK, Zenon
<1>12. ASSUME NEW n \in 1..MaxStep, Step(n) PROVE DiskStepOK
  BY <1>12, StepOK
<1>13. ASSUME NEW w \in BOOLEAN, NEW n \in Lengths, StartDsklen(w, n) PROVE DiskStepOK
  BY <1>13, StartOK
<1> QED
  BY <1>1, <1>3, <1>4, <1>5, <1>6, <1>7, <1>8, <1>9, <1>10, <1>11, <1>12, <1>13,
     Zenon DEF Next

(* For every track, length, place of the sync marks, slot table and memory *)
(* size, and whatever the guest writes while a read is on: when a read     *)
(* ends (disk_dma_service_grant, disk_step), chip RAM holds the track that *)
(* was under the head when it was started; DSKBLK comes only for a read    *)
(* that is due; and DSKSYN is pending beside it if a mark was copied.      *)
THEOREM ReadsAreExact == Spec => ReadsExact
<1>1. DiskInv /\ [Next]_vars => DiskInv' /\ Exact /\ BlkDue /\ SyncToo
  BY DiskNextOK, Zenon DEF DiskStepOK
<1>2. DiskInv => TypeOK
  BY Zenon DEF DiskInv
<1>3. Spec => []TypeOK /\ [][Exact]_vars /\ [][BlkDue]_vars /\ [][SyncToo]_vars
  BY <1>1, <1>2, DiskInitInv, PTL DEF Spec
<1> QED
  BY <1>3 DEF ReadsExact, ReadIsExact, BlkOnlyWhenDue, SyncBesideBlk, Exact, BlkDue,
     SyncToo

-----------------------------------------------------------------------------
(* The serial port.                                                        *)

(* serial_state_t.                                                         *)
SerialState ==
    [frame: FrameLengths, tx_buffer: Byte, tx_buffer_valid: BOOLEAN,
     tx_shift_reg: Byte, tx_shift_busy: BOOLEAN, tx_cycles_remaining: Nat,
     rx_buffer_full: BOOLEAN, overrun: BOOLEAN, tx_instant: BOOLEAN,
     tx_fifo: Seq(Byte), tx_overflow: BOOLEAN]

Fits(s) ==
    /\ s \in SerialState
    /\ s.tx_shift_busy => s.tx_cycles_remaining > 0
    /\ Len(s.tx_fifo) <= FifoSize

Shifted(s) == IF s.tx_shift_busy THEN <<s.tx_shift_reg>> ELSE <<>>

Waiting(s) == IF s.tx_buffer_valid THEN <<s.tx_buffer>> ELSE <<>>

(* The bytes on their way from the guest to the host, g of them there.     *)
Stream(g, s) == (g \o s.tx_fifo) \o (Shifted(s) \o Waiting(s))

(* In instant mode nothing is under way, unless the mode was switched or   *)
(* used while a frame was.                                                 *)
Calm(s) == s.tx_instant => ~s.tx_shift_busy /\ ~s.tx_buffer_valid

SerialInv ==
    /\ SerialTypeOK
    /\ ~mixed => Calm(ser)
    /\ ~mixed /\ ~ser.tx_overflow => Stream(got, ser) = sent

-----------------------------------------------------------------------------
(* A byte moves from one part of a sequence to the next.                   *)

LEMMA MoveAcross ==
    ASSUME NEW S, NEW g \in Seq(S), NEW f \in Seq(S), NEW x \in S, NEW r \in Seq(S)
    PROVE  (g \o f) \o (<<x>> \o r) = (g \o (f \o <<x>>)) \o r
<1> DEFINE o == <<x>>
<1>1. o \in Seq(S)
  OBVIOUS
<1> HIDE DEF o
<1>2. (g \o f) \in Seq(S) /\ (f \o o) \in Seq(S)
  BY <1>1, ConcatProperties
<1>3. ((g \o f) \o o) \o r = (g \o f) \o (o \o r)
  BY <1>1, <1>2, ConcatAssociative, SMTT(30)
<1>4. (g \o f) \o o = g \o (f \o o)
  BY <1>1, ConcatAssociative
<1> QED
  BY <1>3, <1>4 DEF o

LEMMA TakeFirst ==
    ASSUME NEW S, NEW g \in Seq(S), NEW f \in Seq(S), f # <<>>
    PROVE  /\ Head(f) \in S /\ Tail(f) \in Seq(S) /\ Len(Tail(f)) = Len(f) - 1
           /\ Append(g, Head(f)) \in Seq(S)
           /\ Append(g, Head(f)) \o Tail(f) = g \o f
<1> DEFINE h == Head(f)
           t == Tail(f)
           o == <<h>>
<1>1. /\ h \in S /\ t \in Seq(S) /\ Len(t) = Len(f) - 1 /\ Len(f) \in Nat \ {0}
      /\ \A i \in 1..Len(t) : t[i] = f[i + 1]
  BY HeadTailProperties, EmptySeq
<1>2. h = f[1]
  OBVIOUS
<1> HIDE DEF h, t
<1>3. o \in Seq(S) /\ Len(o) = 1 /\ o[1] = h
  BY <1>1
<1> HIDE DEF o
<1>4. /\ o \o t \in Seq(S) /\ Len(o \o t) = Len(f)
      /\ \A i \in 1..Len(f) : (o \o t)[i] = IF i <= 1 THEN o[i] ELSE t[i - 1]
  <2>1. /\ o \o t \in Seq(S) /\ Len(o \o t) = Len(o) + Len(t)
        /\ \A i \in 1..(Len(o) + Len(t)) : (o \o t)[i] = IF i <= Len(o) THEN o[i] ELSE t[i - Len(o)]
    BY <1>1, <1>3, ConcatProperties
  <2>2. Len(o) + Len(t) = Len(f)
    BY <1>1, <1>3
  <2> QED
    BY <1>3, <2>1, <2>2
<1> DEFINE u == o \o t
<1>5. u \in Seq(S) /\ Len(u) = Len(f) /\ \A i \in 1..Len(f) : u[i] = IF i <= 1 THEN o[i] ELSE t[i - 1]
  BY <1>4
<1>6. \A i \in 1..Len(u) : u[i] = f[i]
  BY <1>1, <1>2, <1>3, <1>5
<1>7. u = f
  <2> HIDE DEF u
  <2> QED
    BY <1>5, <1>6, SeqEqual
<1>8. Append(g, h) = g \o o
  BY <1>1, AppendIsConcat DEF o
<1>9. (g \o o) \o t = g \o (o \o t) /\ g \o o \in Seq(S)
  <2>1. (g \o o) \o t = g \o (o \o t)
    BY <1>1, <1>3, ConcatAssociative, SMTT(30)
  <2>2. g \o o \in Seq(S)
    BY <1>3, ConcatProperties
  <2> QED
    BY <2>1, <2>2
<1> QED
  BY <1>1, <1>7, <1>8, <1>9 DEF h, t

LEMMA ChangeLast ==
    ASSUME NEW S, NEW p \in Seq(S), NEW x \in S, NEW y \in S
    PROVE  LET s == p \o <<y>> IN [s EXCEPT ![Len(s)] = x] = p \o <<x>>
<1> DEFINE n == Len(p)
           s == p \o <<y>>
           t == p \o <<x>>
           u == [s EXCEPT ![Len(s)] = x]
<1>1. n \in Nat
  BY LenProperties
<1>2. /\ s \in Seq(S) /\ Len(s) = n + 1
      /\ \A i \in 1..(n + 1) : s[i] = IF i <= n THEN p[i] ELSE y
  <2> DEFINE o == <<y>>
  <2>1. o \in Seq(S) /\ Len(o) = 1 /\ o[1] = y
    OBVIOUS
  <2> HIDE DEF o
  <2>2. /\ p \o o \in Seq(S) /\ Len(p \o o) = n + Len(o)
        /\ \A i \in 1..(n + Len(o)) : (p \o o)[i] = IF i <= n THEN p[i] ELSE o[i - n]
    BY <2>1, ConcatProperties
  <2>3. s = p \o o
    BY DEF o
  <2> HIDE DEF s
  <2>4. \A i \in 1..(n + 1) : ~(i <= n) => i - n = 1
    BY <1>1
  <2> QED
    BY <1>1, <2>1, <2>2, <2>3, <2>4
<1>3. /\ t \in Seq(S) /\ Len(t) = n + 1
      /\ \A i \in 1..(n + 1) : t[i] = IF i <= n THEN p[i] ELSE x
  <2> DEFINE o == <<x>>
  <2>1. o \in Seq(S) /\ Len(o) = 1 /\ o[1] = x
    OBVIOUS
  <2> HIDE DEF o
  <2>2. /\ p \o o \in Seq(S) /\ Len(p \o o) = n + Len(o)
        /\ \A i \in 1..(n + Len(o)) : (p \o o)[i] = IF i <= n THEN p[i] ELSE o[i - n]
    BY <2>1, ConcatProperties
  <2>3. t = p \o o
    BY DEF o
  <2> HIDE DEF t
  <2>4. \A i \in 1..(n + 1) : ~(i <= n) => i - n = 1
    BY <1>1
  <2> QED
    BY <1>1, <2>1, <2>2, <2>3, <2>4
<1> HIDE DEF s, t, n
<1>4. Len(s) \in 1..Len(s)
  BY <1>1, <1>2
<1>5. /\ u \in Seq(S) /\ Len(u) = Len(s)
      /\ \A j \in 1..Len(s) : u[j] = IF j = Len(s) THEN x ELSE s[j]
  BY <1>2, <1>4, ExceptSeq
<1> HIDE DEF u
<1>6. \A i \in 1..(n + 1) : (i <= n) <=> (i # n + 1)
  BY <1>1
<1>7. Len(u) = Len(t) /\ \A i \in 1..Len(u) : u[i] = t[i]
  BY <1>1, <1>2, <1>3, <1>5, <1>6
<1>8. u = t
  BY <1>3, <1>5, <1>7, SeqEqual
<1> QED
  BY <1>8 DEF u, s, t

-----------------------------------------------------------------------------
(* What the operations on the port do to the bytes under way.              *)

LEMMA SerialFields ==
    ASSUME NEW s \in SerialState
    PROVE  /\ s.frame \in FrameLengths /\ s.tx_buffer \in Byte
           /\ s.tx_buffer_valid \in BOOLEAN /\ s.tx_shift_reg \in Byte
           /\ s.tx_shift_busy \in BOOLEAN /\ s.tx_cycles_remaining \in Nat
           /\ s.tx_instant \in BOOLEAN /\ s.tx_fifo \in Seq(Byte)
           /\ s.tx_overflow \in BOOLEAN
BY Zenon DEF SerialState

LEMMA PartsType ==
    ASSUME NEW s \in SerialState
    PROVE  /\ Shifted(s) \in Seq(Byte) /\ Waiting(s) \in Seq(Byte)
           /\ Shifted(s) \o Waiting(s) \in Seq(Byte)
<1> DEFINE B == Byte
           x == s.tx_shift_reg
           y == s.tx_buffer
           a == Shifted(s)
           b == Waiting(s)
<1>1. x \in B /\ y \in B
  BY SerialFields
<1> HIDE DEF B, x, y
<1>2. <<x>> \in Seq(B) /\ <<y>> \in Seq(B) /\ <<>> \in Seq(B)
  BY <1>1
<1>3. a \in {<<x>>, <<>>} /\ b \in {<<y>>, <<>>}
  BY Zenon DEF Shifted, Waiting, x, y
<1> HIDE DEF a, b
<1>4. a \in Seq(B) /\ b \in Seq(B)
  BY <1>2, <1>3
<1>5. a \o b \in Seq(B)
  BY <1>4, ConcatProperties
<1> QED
  BY <1>4, <1>5 DEF a, b, B

(* What stays as it was when only the queue to the host changes.           *)
SameFlight(s, t) ==
    /\ t.tx_buffer = s.tx_buffer /\ t.tx_buffer_valid = s.tx_buffer_valid
    /\ t.tx_shift_reg = s.tx_shift_reg /\ t.tx_shift_busy = s.tx_shift_busy
    /\ t.tx_cycles_remaining = s.tx_cycles_remaining /\ t.tx_instant = s.tx_instant

LEMMA SameParts ==
    ASSUME NEW s, NEW t, SameFlight(s, t)
    PROVE  Shifted(t) = Shifted(s) /\ Waiting(t) = Waiting(s) /\ (Calm(t) <=> Calm(s))
BY Zenon DEF SameFlight, Shifted, Waiting, Calm

LEMMA QueueFacts ==
    ASSUME NEW s \in SerialState, NEW b \in Byte, NEW t, t = serial_queue_tx_byte(s, b)
    PROVE  /\ t \in SerialState /\ SameFlight(s, t)
           /\ Len(s.tx_fifo) <= FifoSize => Len(t.tx_fifo) <= FifoSize
           /\ ~t.tx_overflow => ~s.tx_overflow /\ t.tx_fifo = s.tx_fifo \o <<b>>
<1>1. CASE Len(s.tx_fifo) >= FifoSize
  <2>1. t = [s EXCEPT !.tx_overflow = TRUE]
    BY <1>1 DEF serial_queue_tx_byte
  <2>2. t \in SerialState /\ SameFlight(s, t) /\ t.tx_overflow /\ t.tx_fifo = s.tx_fifo
    BY <2>1, Zenon DEF SerialState, SameFlight
  <2> QED
    BY <2>2, Zenon
<1>2. CASE ~(Len(s.tx_fifo) >= FifoSize)
  <2> DEFINE f == s.tx_fifo
             B == Byte
             u == Append(f, b)
  <2>1. t = [s EXCEPT !.tx_fifo = u]
    BY <1>2 DEF serial_queue_tx_byte
  <2>2. f \in Seq(B) /\ b \in B /\ FifoSize \in Nat
    BY SerialFields, SerialAssumption
  <2> HIDE DEF f, B
  <2>3. u \in Seq(B) /\ Len(u) = Len(f) + 1 /\ Len(f) \in Nat
    BY <2>2, AppendProperties, LenProperties
  <2>4. u = f \o <<b>>
    BY <2>2, AppendIsConcat
  <2> HIDE DEF u
  <2>5. u \in Seq(Byte)
    BY <2>3 DEF B
  <2>6. t \in SerialState /\ SameFlight(s, t) /\ t.tx_overflow = s.tx_overflow /\ t.tx_fifo = u
    BY <2>1, <2>5, Zenon DEF SerialState, SameFlight
  <2>7. Len(u) <= FifoSize
    BY <1>2, <2>2, <2>3 DEF f
  <2> QED
    BY <2>4, <2>6, <2>7 DEF f
<1> QED
  BY <1>1, <1>2

(* A step of the transmitter passes bytes on and keeps their order.        *)
Passes(s, t) ==
    /\ Fits(t)
    /\ ~t.tx_overflow => ~s.tx_overflow
    /\ Calm(s) => Calm(t)
    /\ Calm(s) /\ ~t.tx_overflow => \A g \in Seq(Byte) : Stream(g, t) = Stream(g, s)

LEMMA PassesTrans ==
    ASSUME NEW s, NEW t, NEW u, Passes(s, t), Passes(t, u)
    PROVE  Passes(s, u)
BY Zenon DEF Passes

LEMMA StartPasses ==
    ASSUME NEW s, Fits(s), NEW t, t = serial_start_tx_shift(s)
    PROVE  Passes(s, t)
<1> DEFINE r == [s EXCEPT !.tx_shift_reg = s.tx_buffer, !.tx_shift_busy = TRUE,
                          !.tx_cycles_remaining = s.frame, !.tx_buffer_valid = FALSE]
           y == s.tx_buffer
<1>1. s \in SerialState /\ Len(s.tx_fifo) <= FifoSize
  BY DEF Fits
<1>2. CASE ~CanShift(s)
  BY <1>2, Zenon DEF serial_start_tx_shift, Passes
<1>3. CASE CanShift(s)
  <2>1. s.tx_buffer_valid /\ ~s.tx_shift_busy
    BY <1>3 DEF CanShift
  <2>2. s.frame \in Nat /\ s.frame > 0 /\ y \in Byte
    <3>1. s.frame \in FrameLengths /\ y \in Byte
      BY <1>1, SerialFields, Zenon
    <3>2. s.frame \in Nat \ {0}
      BY <3>1, SerialAssumption, Zenon
    <3> QED
      BY <3>1, <3>2
  <2>3. /\ r \in SerialState /\ r.tx_fifo = s.tx_fifo /\ r.tx_overflow = s.tx_overflow
        /\ r.tx_shift_reg = y /\ r.tx_shift_busy /\ r.tx_cycles_remaining = s.frame
        /\ ~r.tx_buffer_valid /\ r.tx_instant = s.tx_instant
    BY <1>1, <2>2, Zenon DEF SerialState
  <2>4. t = IF s.tx_instant THEN serial_queue_tx_byte(r, r.tx_shift_reg) ELSE r
    BY <1>3, Zenon DEF serial_start_tx_shift
  <2> HIDE DEF r
  <2>5. Fits(r)
    BY <1>1, <2>2, <2>3 DEF Fits
  <2>6. CASE s.tx_instant
    <3>1. t = serial_queue_tx_byte(r, y)
      BY <2>3, <2>4, <2>6
    <3>2. /\ t \in SerialState /\ SameFlight(r, t) /\ Len(t.tx_fifo) <= FifoSize
          /\ ~t.tx_overflow => ~r.tx_overflow
      BY <2>2, <2>3, <2>5, <3>1, QueueFacts DEF Fits
    <3>3. Fits(t)
      BY <2>5, <3>2, Zenon DEF Fits, SameFlight
    <3>4. ~Calm(s)
      BY <2>1, <2>6 DEF Calm
    <3> QED
      BY <2>3, <3>2, <3>3, <3>4, Zenon DEF Passes
  <2>7. CASE ~s.tx_instant
    <3>1. t = r
      BY <2>4, <2>7
    <3>2. Calm(t)
      BY <2>3, <2>7, <3>1, Zenon DEF Calm
    <3>3. /\ Shifted(s) = <<>> /\ Waiting(s) = <<y>>
          /\ Shifted(t) = <<y>> /\ Waiting(t) = <<>>
      BY <2>1, <2>3, <3>1, Zenon DEF Shifted, Waiting
    <3>4. <<>> \o <<y>> = <<y>> /\ <<y>> \o <<>> = <<y>>
      <4> DEFINE o == <<y>>
                 B == Byte
      <4>1. o \in Seq(B)
        BY <2>2
      <4> HIDE DEF o, B
      <4>2. o \o <<>> = o /\ <<>> \o o = o
        BY <4>1, ConcatEmptySeq
      <4> QED
        BY <4>2 DEF o
    <3>5. \A g \in Seq(Byte) : Stream(g, t) = Stream(g, s)
      BY <2>3, <3>1, <3>3, <3>4, Zenon DEF Stream
    <3> QED
      BY <2>3, <2>5, <3>1, <3>2, <3>5, Zenon DEF Passes
  <2> QED
    BY <2>6, <2>7
<1> QED
  BY <1>2, <1>3

LEMMA FramePasses ==
    ASSUME NEW s, Fits(s), s.tx_shift_busy, NEW t, t = frame_done(s)
    PROVE  Passes(s, t)
<1> DEFINE r == [s EXCEPT !.tx_cycles_remaining = 0, !.tx_shift_busy = FALSE,
                          !.tx_shift_reg = None]
           x == s.tx_shift_reg
           w == Waiting(s)
<1>1. s \in SerialState /\ Len(s.tx_fifo) <= FifoSize
  BY DEF Fits
<1>2. x \in Byte /\ None \in Byte /\ w \in Seq(Byte) /\ s.tx_fifo \in Seq(Byte)
  BY <1>1, SerialFields, PartsType, SerialAssumption DEF Byte, None
<1>3. /\ r \in SerialState /\ r.tx_fifo = s.tx_fifo /\ r.tx_overflow = s.tx_overflow
      /\ ~r.tx_shift_busy /\ r.tx_instant = s.tx_instant
      /\ r.tx_buffer = s.tx_buffer /\ r.tx_buffer_valid = s.tx_buffer_valid
  BY <1>1, <1>2, Zenon DEF SerialState
<1>4. t = IF s.tx_instant THEN r ELSE serial_queue_tx_byte(r, x)
  BY Zenon DEF frame_done
<1> HIDE DEF r
<1>5. Fits(r)
  BY <1>1, <1>3, Zenon DEF Fits
<1>6. CASE s.tx_instant
  <2>1. t = r /\ ~Calm(s)
    BY <1>4, <1>6 DEF Calm
  <2> QED
    BY <1>3, <1>5, <2>1, Zenon DEF Passes
<1>7. CASE ~s.tx_instant
  <2>1. t = serial_queue_tx_byte(r, x)
    BY <1>4, <1>7
  <2>2. /\ t \in SerialState /\ SameFlight(r, t) /\ Len(t.tx_fifo) <= FifoSize
        /\ ~t.tx_overflow => ~r.tx_overflow /\ t.tx_fifo = r.tx_fifo \o <<x>>
    BY <1>2, <1>3, <1>5, <2>1, QueueFacts DEF Fits
  <2>3. Fits(t)
    BY <1>5, <2>2, Zenon DEF Fits, SameFlight
  <2>4. Calm(t)
    BY <1>3, <1>7, <2>2, Zenon DEF Calm, SameFlight
  <2>5. Shifted(s) = <<x>> /\ Shifted(t) = <<>> /\ Waiting(t) = w
    BY <1>3, <2>2, Zenon DEF Shifted, Waiting, SameFlight
  <2>6. ASSUME ~t.tx_overflow, NEW g \in Seq(Byte)
        PROVE  Stream(g, t) = Stream(g, s)
    <3> DEFINE f == s.tx_fifo
               B == Byte
    <3>1. f \in Seq(B) /\ x \in B /\ w \in Seq(B) /\ g \in Seq(B)
      BY <1>2
    <3>2. t.tx_fifo = f \o <<x>>
      BY <1>3, <2>2, <2>6
    <3>3. Stream(g, s) = (g \o f) \o (<<x>> \o w)
      BY <2>5, Zenon DEF Stream
    <3>4. Stream(g, t) = (g \o (f \o <<x>>)) \o (<<>> \o w)
      BY <2>5, <3>2, Zenon DEF Stream
    <3> HIDE DEF f, B, w, x
    <3>5. <<>> \o w = w
      BY <3>1, ConcatEmptySeq
    <3>6. (g \o f) \o (<<x>> \o w) = (g \o (f \o <<x>>)) \o w
      BY <3>1, MoveAcross, SMTT(30)
    <3> QED
      BY <3>3, <3>4, <3>5, <3>6
  <2> QED
    BY <1>3, <2>2, <2>3, <2>4, <2>6, Zenon DEF Passes
<1> QED
  BY <1>6, <1>7

LEMMA StepPasses ==
    ASSUME NEW s, Fits(s), NEW n \in Nat, NEW t, t = serial_step(s, n)
    PROVE  Passes(s, t)
<1>1. s \in SerialState /\ s.tx_cycles_remaining \in Nat
  BY SerialFields DEF Fits
<1>2. CASE ~s.tx_shift_busy
  BY <1>2, StartPasses DEF serial_step
<1>3. CASE s.tx_shift_busy /\ n < s.tx_cycles_remaining
  <2> DEFINE c == s.tx_cycles_remaining - n
  <2>1. c \in Nat /\ c > 0
    BY <1>1, <1>3
  <2>2. t = [s EXCEPT !.tx_cycles_remaining = c]
    BY <1>1, <1>3, Zenon DEF serial_step
  <2> HIDE DEF c
  <2>3. /\ t \in SerialState /\ t.tx_cycles_remaining = c /\ t.tx_fifo = s.tx_fifo
        /\ t.tx_overflow = s.tx_overflow /\ t.tx_instant = s.tx_instant
        /\ t.tx_shift_busy = s.tx_shift_busy /\ t.tx_shift_reg = s.tx_shift_reg
        /\ t.tx_buffer = s.tx_buffer /\ t.tx_buffer_valid = s.tx_buffer_valid
    BY <1>1, <2>1, <2>2, Zenon DEF SerialState
  <2>4. Fits(t)
    BY <2>1, <2>3 DEF Fits
  <2>5. Calm(s) => Calm(t)
    BY <2>3, Zenon DEF Calm
  <2>6. \A g : Stream(g, t) = Stream(g, s)
    BY <2>3, Zenon DEF Stream, Shifted, Waiting
  <2> QED
    BY <2>3, <2>4, <2>5, <2>6, Zenon DEF Passes
<1>4. CASE s.tx_shift_busy /\ ~(n < s.tx_cycles_remaining)
  <2> DEFINE r == frame_done(s)
  <2>1. t = serial_start_tx_shift(r)
    BY <1>4 DEF serial_step
  <2>2. Passes(s, r)
    BY <1>4, FramePasses
  <2> HIDE DEF r
  <2>3. Passes(r, t)
    BY <2>1, <2>2, StartPasses DEF Passes
  <2> QED
    BY <2>2, <2>3, PassesTrans
<1> QED
  BY <1>2, <1>3, <1>4

(* A byte written goes to the end of the stream, or replaces the byte that *)
(* waits there.                                                            *)
Written(s, d, b) ==
    IF s.tx_buffer_valid /\ ~s.tx_instant THEN [d EXCEPT ![Len(d)] = b] ELSE Append(d, b)

LEMMA WrittenType ==
    ASSUME NEW s, NEW d \in Seq(Byte), NEW b \in Byte
    PROVE  Written(s, d, b) \in Seq(Byte)
<1> DEFINE B == Byte
           u == [d EXCEPT ![Len(d)] = b]
           v == Append(d, b)
<1>1. d \in Seq(B) /\ b \in B
  OBVIOUS
<1> HIDE DEF B
<1>2. v \in Seq(B)
  BY <1>1, AppendProperties
<1>3. u \in Seq(B)
  <2>1. CASE d = <<>>
    <3>1. Len(d) = 0 /\ d \in [1..Len(d) -> B]
      BY <1>1, <2>1, LenProperties
    <3>2. u = d
      BY <3>1
    <3> QED
      BY <1>1, <3>2
  <2>2. CASE d # <<>>
    <3>1. Len(d) \in 1..Len(d)
      BY <1>1, <2>2, EmptySeq
    <3> QED
      BY <1>1, <3>1, ExceptSeq
  <2> QED
    BY <2>1, <2>2
<1> HIDE DEF u, v
<1>4. Written(s, d, b) \in {u, v}
  BY Zenon DEF Written, u, v
<1> QED
  BY <1>2, <1>3, <1>4 DEF B

LEMMA WritePasses ==
    ASSUME NEW s, Fits(s), NEW b \in Byte, NEW t, t = serial_write_serdat(s, b)
    PROVE  /\ Fits(t)
           /\ ~t.tx_overflow => ~s.tx_overflow
           /\ Calm(s) => Calm(t)
           /\ Calm(s) /\ ~t.tx_overflow =>
                 \A g \in Seq(Byte) : Stream(g, t) = Written(s, Stream(g, s), b)
<1> DEFINE r == [s EXCEPT !.tx_buffer = b, !.tx_buffer_valid = TRUE]
           f == s.tx_fifo
           x == Shifted(s)
           y == s.tx_buffer
           B == Byte
<1>1. s \in SerialState /\ Len(s.tx_fifo) <= FifoSize
  BY DEF Fits
<1>2. f \in Seq(B) /\ x \in Seq(B) /\ y \in B /\ b \in B
  BY <1>1, SerialFields, PartsType, Zenon
<1>3. CASE s.tx_instant
  <2>1. t = serial_queue_tx_byte(s, b)
    BY <1>3 DEF serial_write_serdat
  <2>2. /\ t \in SerialState /\ SameFlight(s, t) /\ Len(t.tx_fifo) <= FifoSize
        /\ ~t.tx_overflow => ~s.tx_overflow /\ t.tx_fifo = f \o <<b>>
    BY <1>1, <2>1, QueueFacts
  <2>3. Fits(t) /\ (Calm(s) => Calm(t))
    BY <2>2, SameParts, Zenon DEF Fits, SameFlight
  <2>4. ASSUME Calm(s), ~t.tx_overflow, NEW g \in Seq(Byte)
        PROVE  Stream(g, t) = Written(s, Stream(g, s), b)
    <3>1. Shifted(s) = <<>> /\ Waiting(s) = <<>> /\ Shifted(t) = <<>> /\ Waiting(t) = <<>>
      BY <1>3, <2>2, <2>4, Zenon DEF Calm, SameFlight, Shifted, Waiting
    <3>2. /\ Stream(g, s) = (g \o f) \o (<<>> \o <<>>)
          /\ Stream(g, t) = (g \o (f \o <<b>>)) \o (<<>> \o <<>>)
      BY <2>2, <2>4, <3>1, Zenon DEF Stream
    <3>3. Written(s, Stream(g, s), b) = Append(Stream(g, s), b)
      BY <1>3 DEF Written
    <3> HIDE DEF f, x, y, B
    <3> DEFINE o == <<b>>
               e == <<>>
    <3>4. o \in Seq(B) /\ e \in Seq(B) /\ g \in Seq(B)
      BY <1>2 DEF B
    <3>5. e \o e = e
      OBVIOUS
    <3> HIDE DEF o
    <3>6. g \o f \in Seq(B) /\ f \o o \in Seq(B)
      BY <1>2, <3>4, ConcatProperties
    <3>7. g \o (f \o o) \in Seq(B)
      BY <3>4, <3>6, ConcatProperties
    <3>8. (g \o f) \o e = g \o f /\ (g \o (f \o o)) \o e = g \o (f \o o)
      BY <3>6, <3>7, ConcatEmptySeq
    <3>9. (g \o f) \o o = g \o (f \o o)
      BY <1>2, <3>4, ConcatAssociative
    <3>10. Append(g \o f, b) = (g \o f) \o o
      BY <1>2, <3>6, AppendIsConcat DEF o
    <3> QED
      BY <3>2, <3>3, <3>5, <3>8, <3>9, <3>10 DEF o
  <2> QED
    BY <2>2, <2>3, <2>4, Zenon
<1>4. CASE ~s.tx_instant
  <2>1. t = serial_start_tx_shift(r)
    BY <1>4 DEF serial_write_serdat
  <2>2. /\ r \in SerialState /\ r.tx_fifo = f /\ r.tx_overflow = s.tx_overflow
        /\ r.tx_instant = s.tx_instant /\ r.tx_buffer = b /\ r.tx_buffer_valid
        /\ r.tx_shift_busy = s.tx_shift_busy /\ r.tx_shift_reg = s.tx_shift_reg
        /\ r.tx_cycles_remaining = s.tx_cycles_remaining
    BY <1>1, Zenon DEF SerialState
  <2> HIDE DEF r
  <2>3. Fits(r) /\ Calm(r)
    BY <1>1, <1>4, <2>2, Zenon DEF Fits, Calm
  <2>4. Passes(r, t)
    BY <2>1, <2>3, StartPasses
  <2>5. Shifted(r) = x /\ Waiting(r) = <<b>>
    BY <2>2, Zenon DEF Shifted, Waiting
  <2>6. ASSUME NEW g \in Seq(Byte)
        PROVE  Stream(g, r) = Written(s, Stream(g, s), b)
    <3> DEFINE p == (g \o f) \o x
    <3>1. Stream(g, r) = (g \o f) \o (x \o <<b>>)
      BY <2>2, <2>5, Zenon DEF Stream
    <3>2. Stream(g, s) = (g \o f) \o (x \o Waiting(s))
      BY DEF Stream
    <3> HIDE DEF f, x, y, B
    <3>3. g \in Seq(B) /\ <<b>> \in Seq(B) /\ <<y>> \in Seq(B)
      BY <1>2 DEF B
    <3>4. g \o f \in Seq(B)
      BY <1>2, <3>3, ConcatProperties
    <3>5. p \in Seq(B)
      BY <1>2, <3>4, ConcatProperties
    <3>6. ASSUME NEW o \in Seq(B) PROVE (g \o f) \o (x \o o) = p \o o
      <4> DEFINE k == g \o f
      <4>1. k \in Seq(B)
        BY <3>4
      <4> HIDE DEF k
      <4>2. (k \o x) \o o = k \o (x \o o)
        BY <1>2, <3>6, <4>1, ConcatAssociative
      <4> QED
        BY <4>2 DEF k
    <3>7. Stream(g, r) = p \o <<b>>
      BY <3>1, <3>3, <3>6
    <3>8. CASE s.tx_buffer_valid
      <4>1. Waiting(s) = <<y>>
        BY <3>8 DEF Waiting, y
      <4>2. Stream(g, s) = p \o <<y>>
        BY <3>2, <3>3, <3>6, <4>1
      <4> DEFINE d == p \o <<y>>
      <4>3. Written(s, d, b) = [d EXCEPT ![Len(d)] = b]
        BY <1>4, <3>8, Zenon DEF Written
      <4> HIDE DEF p
      <4>4. [d EXCEPT ![Len(d)] = b] = p \o <<b>>
        BY <1>2, <3>5, ChangeLast
      <4> HIDE DEF d
      <4>5. Stream(g, s) = d
        BY <4>2 DEF d
      <4> QED
        BY <3>7, <4>3, <4>4, <4>5
    <3>9. CASE ~s.tx_buffer_valid
      <4>1. Waiting(s) = <<>>
        BY <3>9 DEF Waiting
      <4>2. x \o <<>> = x
        BY <1>2, ConcatEmptySeq
      <4>3. Stream(g, s) = p
        BY <3>2, <4>1, <4>2
      <4>4. Written(s, p, b) = Append(p, b)
        BY <3>9, Zenon DEF Written
      <4> HIDE DEF p
      <4>5. Append(p, b) = p \o <<b>>
        BY <1>2, <3>5, AppendIsConcat
      <4> QED
        BY <3>7, <4>3, <4>4, <4>5
    <3> QED
      BY <3>8, <3>9
  <2> QED
    BY <2>2, <2>3, <2>4, <2>6, Zenon DEF Passes
<1> QED
  BY <1>3, <1>4

-----------------------------------------------------------------------------
(* The steps of the port.                                                  *)

LEMMA SerialTypes ==
    ASSUME SerialInv
    PROVE  /\ Fits(ser) /\ ser \in SerialState /\ serreq \subseteq {"TBE", "RBF"}
           /\ sent \in Seq(Byte) /\ got \in Seq(Byte) /\ mixed \in BOOLEAN
           /\ nbytes \in 0..MaxBytes /\ hostOps \in 0..MaxHostOps
BY Zenon DEF SerialInv, SerialTypeOK, Fits, SerialState

LEMMA SerialKept ==
    ASSUME Fits(ser'), serreq' \subseteq {"TBE", "RBF"}, sent' \in Seq(Byte),
           got' \in Seq(Byte), mixed' \in BOOLEAN, nbytes' \in 0..MaxBytes,
           hostOps' \in 0..MaxHostOps, ~mixed' => Calm(ser'),
           ~mixed' /\ ~ser'.tx_overflow => Stream(got', ser') = sent'
    PROVE  SerialInv'
<1>1. SerialTypeOK'
  BY Zenon DEF SerialTypeOK, Fits, SerialState
<1> QED
  BY <1>1, Zenon DEF SerialInv, Stream, Calm, Shifted, Waiting

(* Nothing but the port's other fields changes.                            *)
LEMMA PortKeeps ==
    ASSUME SerialInv, Passes(ser, ser'), serreq' \subseteq {"TBE", "RBF"},
           UNCHANGED <<sent, got, mixed, nbytes>>, hostOps' \in 0..MaxHostOps
    PROVE  SerialInv'
<1>1. /\ sent' \in Seq(Byte) /\ got' \in Seq(Byte) /\ mixed' \in BOOLEAN
      /\ nbytes' \in 0..MaxBytes
  BY SerialTypes
<1>2. ~mixed' => Calm(ser')
  BY Zenon DEF SerialInv, Passes
<1>3. ASSUME ~mixed', ~ser'.tx_overflow PROVE Stream(got', ser') = sent'
  <2>1. ~mixed /\ Calm(ser) /\ ~ser.tx_overflow /\ got' = got /\ sent' = sent
    BY <1>3, Zenon DEF SerialInv, Passes
  <2>2. Stream(got, ser) = sent
    BY <2>1 DEF SerialInv
  <2>3. got \in Seq(Byte)
    BY SerialTypes
  <2>4. Stream(got, ser') = Stream(got, ser)
    BY <1>3, <2>1, <2>3, Zenon DEF Passes
  <2> QED
    BY <2>1, <2>2, <2>4
<1> QED
  BY <1>1, <1>2, <1>3, SerialKept DEF Passes

LEMMA SerStepKeeps ==
    ASSUME SerialInv, NEW n \in Nat, SerStep(n)
    PROVE  SerialInv'
<1>1. Fits(ser) /\ ser' = serial_step(ser, n)
  BY SerialTypes DEF SerStep
<1>2. Passes(ser, ser')
  BY <1>1, StepPasses
<1>3. serreq' \subseteq {"TBE", "RBF"} /\ hostOps' \in 0..MaxHostOps
  BY SerialTypes DEF SerStep
<1>4. UNCHANGED <<sent, got, mixed, nbytes>>
  BY DEF SerStep
<1> QED
  BY <1>2, <1>3, <1>4, PortKeeps

LEMMA WriteSerdatKeeps ==
    ASSUME SerialInv, WriteSerdat
    PROVE  SerialInv'
<1> DEFINE b == nbytes'
<1>1. /\ Fits(ser) /\ sent \in Seq(Byte) /\ got \in Seq(Byte) /\ nbytes \in 0..MaxBytes
      /\ serreq \subseteq {"TBE", "RBF"} /\ hostOps \in 0..MaxHostOps /\ mixed \in BOOLEAN
  BY SerialTypes
<1>2. b \in 0..MaxBytes /\ b \in Byte
  BY <1>1, SerialAssumption DEF WriteSerdat, Byte
<1>3. /\ ser' = serial_write_serdat(ser, b) /\ sent' = Written(ser, sent, b)
      /\ got' = got /\ hostOps' = hostOps
      /\ mixed' = (mixed \/ (ser.tx_instant /\ (ser.tx_shift_busy \/ ser.tx_buffer_valid)))
  BY Zenon DEF WriteSerdat, Written
<1>4. serreq' \subseteq {"TBE", "RBF"}
  BY <1>1 DEF WriteSerdat
<1> HIDE DEF b
<1>5. sent' \in Seq(Byte)
  BY <1>1, <1>2, <1>3, WrittenType
<1>6. /\ Fits(ser') /\ (~ser'.tx_overflow => ~ser.tx_overflow) /\ (Calm(ser) => Calm(ser'))
      /\ Calm(ser) /\ ~ser'.tx_overflow =>
            \A g \in Seq(Byte) : Stream(g, ser') = Written(ser, Stream(g, ser), b)
  BY <1>1, <1>2, <1>3, WritePasses
<1>7. mixed' \in BOOLEAN
  BY <1>3, Zenon
<1>8. ~mixed' => ~mixed /\ Calm(ser)
  BY <1>3, Zenon DEF SerialInv
<1>9. ASSUME ~mixed', ~ser'.tx_overflow PROVE Stream(got', ser') = sent'
  <2>1. ~mixed /\ Calm(ser) /\ ~ser.tx_overflow
    BY <1>6, <1>8, <1>9, Zenon
  <2>2. Stream(got, ser) = sent
    BY <2>1 DEF SerialInv
  <2>3. Stream(got, ser') = Written(ser, Stream(got, ser), b)
    BY <1>1, <1>6, <1>9, <2>1, Zenon
  <2> QED
    BY <1>3, <2>2, <2>3
<1>10. nbytes' \in 0..MaxBytes
  BY <1>2 DEF b
<1>11. got' \in Seq(Byte) /\ hostOps' \in 0..MaxHostOps
  BY <1>1, <1>3
<1> QED
  BY <1>4, <1>5, <1>6, <1>7, <1>8, <1>9, <1>10, <1>11, SerialKept

LEMMA PopKeeps ==
    ASSUME SerialInv, Pop
    PROVE  SerialInv'
<1> DEFINE f == ser.tx_fifo
           B == Byte
           r == Shifted(ser) \o Waiting(ser)
<1>1. /\ Fits(ser) /\ ser \in SerialState /\ sent \in Seq(Byte) /\ got \in Seq(Byte)
      /\ nbytes \in 0..MaxBytes /\ mixed \in BOOLEAN
      /\ serreq \subseteq {"TBE", "RBF"} /\ hostOps \in 0..MaxHostOps
  BY SerialTypes
<1>2. f \in Seq(B) /\ got \in Seq(B) /\ f # <<>>
  BY <1>1, SerialFields DEF Pop
<1>3. /\ got' = Append(got, Head(f)) /\ ser' = [ser EXCEPT !.tx_fifo = Tail(f)]
      /\ sent' = sent /\ mixed' = mixed /\ nbytes' = nbytes /\ serreq' = serreq
      /\ hostOps' = hostOps
  BY <1>1, Zenon DEF Pop, SerialState
<1> HIDE DEF f, B
<1>4. /\ Tail(f) \in Seq(B) /\ Len(Tail(f)) = Len(f) - 1 /\ Len(f) \in Nat
      /\ Append(got, Head(f)) \in Seq(B)
      /\ Append(got, Head(f)) \o Tail(f) = got \o f
  BY <1>2, TakeFirst, LenProperties
<1>5. /\ ser' \in SerialState /\ ser'.tx_fifo = Tail(f) /\ SameFlight(ser, ser')
      /\ ser'.tx_overflow = ser.tx_overflow
  <2>1. Tail(f) \in Seq(Byte)
    BY <1>4 DEF B
  <2> QED
    BY <1>1, <1>3, <2>1, Zenon DEF SerialState, SameFlight
<1>6. Len(Tail(f)) <= FifoSize
  <2>1. Len(f) <= FifoSize /\ FifoSize \in Nat
    BY <1>1, SerialAssumption DEF Fits, f
  <2> QED
    BY <1>4, <2>1
<1>7. Fits(ser')
  BY <1>1, <1>5, <1>6, Zenon DEF Fits, SameFlight
<1>8. Calm(ser') <=> Calm(ser)
  BY <1>5, SameParts
<1>9. Stream(got', ser') = Stream(got, ser)
  <2>1. Shifted(ser') = Shifted(ser) /\ Waiting(ser') = Waiting(ser)
    BY <1>5, SameParts
  <2>2. Stream(got', ser') = (Append(got, Head(f)) \o Tail(f)) \o r
    BY <1>3, <1>5, <2>1, Zenon DEF Stream
  <2>3. Stream(got, ser) = (got \o f) \o r
    BY Zenon DEF Stream, f
  <2> QED
    BY <1>4, <2>2, <2>3
<1>10. got' \in Seq(Byte)
  BY <1>3, <1>4 DEF B
<1>11. /\ sent' \in Seq(Byte) /\ mixed' \in BOOLEAN /\ nbytes' \in 0..MaxBytes
       /\ serreq' \subseteq {"TBE", "RBF"} /\ hostOps' \in 0..MaxHostOps
  BY <1>1, <1>3
<1>12. ~mixed' => Calm(ser')
  BY <1>3, <1>8, Zenon DEF SerialInv
<1>13. ~mixed' /\ ~ser'.tx_overflow => Stream(got', ser') = sent'
  BY <1>3, <1>5, <1>9, Zenon DEF SerialInv
<1> QED
  BY <1>7, <1>10, <1>11, <1>12, <1>13, SerialKept

(* A change of fields that the stream does not depend on.                  *)
LEMMA AsideKeeps ==
    ASSUME SerialInv, ser' \in SerialState, SameFlight(ser, ser'),
           ser'.tx_fifo = ser.tx_fifo, ser'.tx_overflow = ser.tx_overflow,
           serreq' \subseteq {"TBE", "RBF"}, UNCHANGED <<sent, got, mixed, nbytes>>,
           hostOps' \in 0..MaxHostOps
    PROVE  SerialInv'
<1>1. Fits(ser')
  BY SerialTypes, Zenon DEF Fits, SameFlight
<1>2. /\ Shifted(ser') = Shifted(ser) /\ Waiting(ser') = Waiting(ser)
      /\ Calm(ser') <=> Calm(ser)
  BY SameParts
<1>3. \A g : Stream(g, ser') = Stream(g, ser)
  BY <1>2, Zenon DEF Stream
<1>4. Passes(ser, ser')
  BY <1>1, <1>2, <1>3, Zenon DEF Passes
<1> QED
  BY <1>4, PortKeeps

LEMMA ResetState ==
    ASSUME NEW b \in BOOLEAN, NEW s,
           s = serial_reset \/ s = [serial_reset EXCEPT !.tx_instant = b]
    PROVE  Fits(s) /\ Calm(s) /\ Stream(<<>>, s) = <<>>
<1>1. ShortestFrame \in FrameLengths
  <2>1. FrameLengths \in SUBSET Nat /\ FrameLengths # {}
    BY SerialAssumption
  <2>2. \E x \in FrameLengths : \A y \in FrameLengths : ~(y < x)
    BY <2>1, LeastNat
  <2>3. \E x \in FrameLengths : \A y \in FrameLengths : x <= y
    BY <2>1, <2>2
  <2> QED
    BY <2>3, Zenon DEF ShortestFrame
<1>2. None \in Byte /\ 0 \in Nat /\ <<>> \in Seq(Byte)
  BY SerialAssumption DEF None, Byte
<1>3. serial_reset \in SerialState
  BY <1>1, <1>2, Zenon DEF serial_reset, SerialState
<1>4. /\ s \in SerialState /\ s.tx_fifo = <<>> /\ ~s.tx_shift_busy /\ ~s.tx_buffer_valid
  <2>1. CASE s = serial_reset
    BY <1>3, <2>1, Zenon DEF serial_reset
  <2>2. CASE s = [serial_reset EXCEPT !.tx_instant = b]
    BY <1>3, <2>2, Zenon DEF serial_reset, SerialState
  <2> QED
    BY <2>1, <2>2
<1>5. Len(<<>>) <= FifoSize
  BY SerialAssumption
<1>6. Fits(s)
  BY <1>4, <1>5, Zenon DEF Fits
<1>7. Calm(s) /\ Shifted(s) = <<>> /\ Waiting(s) = <<>>
  BY <1>4, Zenon DEF Calm, Shifted, Waiting
<1>8. Stream(<<>>, s) = (<<>> \o <<>>) \o (<<>> \o <<>>)
  BY <1>4, <1>7, Zenon DEF Stream
<1>9. <<>> \o <<>> = <<>>
  OBVIOUS
<1> QED
  BY <1>6, <1>7, <1>8, <1>9, Zenon

LEMMA SerialStart == SerialInit => SerialInv
<1> SUFFICES ASSUME SerialInit PROVE SerialInv
  OBVIOUS
<1>1. ser = serial_reset \/ ser = [serial_reset EXCEPT !.tx_instant = TRUE]
  BY Zenon DEF SerialInit
<1>2. Fits(ser) /\ Calm(ser) /\ Stream(<<>>, ser) = <<>>
  BY <1>1, ResetState
<1>3. /\ serreq = {} /\ sent = <<>> /\ got = <<>> /\ mixed = FALSE /\ nbytes = 0 /\ hostOps = 0
  BY Zenon DEF SerialInit
<1>4. <<>> \in Seq(Byte) /\ 0 \in 0..MaxBytes /\ 0 \in 0..MaxHostOps
  BY SerialAssumption
<1>5. SerialTypeOK
  BY <1>2, <1>3, <1>4, Zenon DEF SerialTypeOK, Fits, SerialState
<1> QED
  BY <1>2, <1>3, <1>5, Zenon DEF SerialInv

LEMMA SerialStays == SerialInv /\ [SerialNext]_serialVars => SerialInv'
<1> SUFFICES ASSUME SerialInv, [SerialNext]_serialVars PROVE SerialInv'
  OBVIOUS
<1>1. /\ Fits(ser) /\ ser \in SerialState /\ serreq \subseteq {"TBE", "RBF"}
      /\ nbytes \in 0..MaxBytes /\ hostOps \in 0..MaxHostOps
  BY SerialTypes
<1>2. ASSUME NEW n \in 1..MaxSerStep, SerStep(n) PROVE SerialInv'
  <2>1. n \in Nat
    BY SerialAssumption
  <2> QED
    BY <1>2, <2>1, SerStepKeeps
<1>3. CASE WriteSerdat
  BY <1>3, WriteSerdatKeeps
<1>4. CASE Pop
  BY <1>4, PopKeeps
<1>5. CASE Receive
  <2>1. ser' = [ser EXCEPT !.overrun = ser.overrun \/ ser.rx_buffer_full, !.rx_buffer_full = TRUE]
    BY <1>1, <1>5, Zenon DEF Receive, serial_receive_byte, SerialState
  <2>2. /\ ser' \in SerialState /\ SameFlight(ser, ser') /\ ser'.tx_fifo = ser.tx_fifo
        /\ ser'.tx_overflow = ser.tx_overflow
    BY <1>1, <2>1, Zenon DEF SerialState, SameFlight
  <2>3. serreq' \subseteq {"TBE", "RBF"} /\ UNCHANGED <<sent, got, mixed, nbytes, hostOps>>
    BY <1>1, <1>5 DEF Receive
  <2> QED
    BY <1>1, <2>2, <2>3, AsideKeeps
<1>6. CASE ReadSerdatr
  <2>1. /\ ser' \in SerialState /\ SameFlight(ser, ser') /\ ser'.tx_fifo = ser.tx_fifo
        /\ ser'.tx_overflow = ser.tx_overflow
    BY <1>1, <1>6, Zenon DEF ReadSerdatr, SerialState, SameFlight
  <2>2. serreq' \subseteq {"TBE", "RBF"} /\ UNCHANGED <<sent, got, mixed, nbytes, hostOps>>
    BY <1>1, <1>6 DEF ReadSerdatr
  <2> QED
    BY <1>1, <2>1, <2>2, AsideKeeps
<1>7. ASSUME NEW f \in FrameLengths, WriteSerper(f) PROVE SerialInv'
  <2>1. /\ ser' \in SerialState /\ SameFlight(ser, ser') /\ ser'.tx_fifo = ser.tx_fifo
        /\ ser'.tx_overflow = ser.tx_overflow
    BY <1>1, <1>7, Zenon DEF WriteSerper, SerialState, SameFlight
  <2>2. /\ serreq' \subseteq {"TBE", "RBF"} /\ UNCHANGED <<sent, got, mixed, nbytes>>
        /\ hostOps' \in 0..MaxHostOps
    BY <1>1, <1>7, SerialAssumption DEF WriteSerper
  <2> QED
    BY <2>1, <2>2, AsideKeeps
<1>8. ASSUME NEW b \in BOOLEAN, SetInstant(b) PROVE SerialInv'
  <2>1. ser' = [ser EXCEPT !.tx_instant = b]
    BY <1>8 DEF SetInstant
  <2>2. /\ ser' \in SerialState /\ ser'.tx_fifo = ser.tx_fifo
        /\ ser'.tx_overflow = ser.tx_overflow
        /\ ser'.tx_buffer = ser.tx_buffer /\ ser'.tx_buffer_valid = ser.tx_buffer_valid
        /\ ser'.tx_shift_reg = ser.tx_shift_reg /\ ser'.tx_shift_busy = ser.tx_shift_busy
        /\ ser'.tx_cycles_remaining = ser.tx_cycles_remaining
    BY <1>1, <2>1, Zenon DEF SerialState
  <2>3. Fits(ser')
    BY <1>1, <2>2, Zenon DEF Fits
  <2>4. /\ mixed' = (mixed \/ ser.tx_shift_busy \/ ser.tx_buffer_valid)
        /\ serreq' = serreq /\ sent' = sent /\ got' = got /\ nbytes' = nbytes
    BY <1>8, Zenon DEF SetInstant
  <2>5. ~mixed' => ~mixed /\ Calm(ser')
    BY <2>2, <2>4, Zenon DEF Calm
  <2>6. \A g : Stream(g, ser') = Stream(g, ser)
    BY <2>2, Zenon DEF Stream, Shifted, Waiting
  <2>7. ~mixed' /\ ~ser'.tx_overflow => Stream(got', ser') = sent'
    BY <2>2, <2>4, <2>5, <2>6, Zenon DEF SerialInv
  <2>8. hostOps' \in 0..MaxHostOps
    BY <1>1, <1>8, SerialAssumption DEF SetInstant
  <2>9. mixed' \in BOOLEAN /\ sent' \in Seq(Byte) /\ got' \in Seq(Byte)
    BY <2>4, SerialTypes, Zenon
  <2> QED
    BY <1>1, <2>3, <2>4, <2>5, <2>7, <2>8, <2>9, SerialKept
<1>9. ASSUME NEW b \in BOOLEAN, ResetSerial(b) PROVE SerialInv'
  <2>1. /\ ser' = [serial_reset EXCEPT !.tx_instant = b] /\ serreq' = {}
        /\ sent' = <<>> /\ got' = <<>> /\ mixed' = FALSE /\ nbytes' = nbytes
    BY <1>9, Zenon DEF ResetSerial
  <2>3. Fits(ser') /\ Calm(ser') /\ Stream(<<>>, ser') = <<>>
    BY <2>1, ResetState
  <2>4. hostOps' \in 0..MaxHostOps
    BY <1>1, <1>9, SerialAssumption DEF ResetSerial
  <2>5. <<>> \in Seq(Byte)
    OBVIOUS
  <2> QED
    BY <1>1, <2>1, <2>3, <2>4, <2>5, SerialKept
<1>10. ASSUME NEW r \in {"TBE", "RBF"}, AckSerial(r) PROVE SerialInv'
  <2>1. ser' = ser /\ SameFlight(ser, ser') /\ UNCHANGED <<sent, got, mixed, nbytes, hostOps>>
    BY <1>10, Zenon DEF AckSerial, SameFlight
  <2>2. serreq' \subseteq {"TBE", "RBF"}
    BY <1>1, <1>10 DEF AckSerial
  <2> QED
    BY <1>1, <2>1, <2>2, AsideKeeps
<1>11. CASE UNCHANGED serialVars
  <2>1. /\ ser' = ser /\ SameFlight(ser, ser') /\ serreq' = serreq
        /\ UNCHANGED <<sent, got, mixed, nbytes, hostOps>>
    BY <1>11, Zenon DEF serialVars, SameFlight
  <2> QED
    BY <1>1, <2>1, AsideKeeps
<1> QED
  BY <1>2, <1>3, <1>4, <1>5, <1>6, <1>7, <1>8, <1>9, <1>10, <1>11, Zenon DEF SerialNext

(* The bytes the guest wrote to SERDAT reach the host once and in order,   *)
(* whatever the baud rate, the steps and the size of the queue, unless the *)
(* overflow flag says that some were dropped or the instant mode was       *)
(* switched in mid-frame (serial_step, serial_queue_tx_byte).              *)
THEOREM TransmitsExactly == SerialSpec => [](SerialTypeOK /\ TransmitExact)
<1>1. SerialInv => SerialTypeOK /\ TransmitExact
  BY Zenon DEF SerialInv, TransmitExact, Stream, InFlight, Shifted, Waiting
<1> QED
  BY <1>1, SerialStart, SerialStays, PTL DEF SerialSpec

-----------------------------------------------------------------------------
(* The audio channels.                                                     *)

USE AudioAssumption

PlayedByte == Nat \X {"hi", "lo"}

Plays(ch) == ch.played \o Held(ch) = Bytes(ch.fetched)

(* A channel in a state that the registers and DMA can bring about.        *)
ChannelOK(ch) ==
    /\ ch \in Channel /\ ch.audper <= PeriodMax /\ ch.period_counter <= PeriodMax
    /\ Len(ch.fetched) <= MaxFetches
    /\ Plays(ch)

-----------------------------------------------------------------------------
(* The bytes of a word fetched come after those of the words before.       *)
WordBytes(a) == <<<<a, "hi">>, <<a, "lo">>>>

LEMMA PeriodMaxType == PeriodMax \in Nat /\ PeriodMax >= 1
BY SMT DEF PeriodMax

LEMMA Halves ==
    ASSUME NEW L \in Nat
    PROVE  /\ \A i \in 1..(2 * L) : (i + 1) \div 2 \in 1..L
           /\ ((2 * L + 1) + 1) \div 2 = L + 1 /\ (2 * L + 1) % 2 = 1
           /\ ((2 * L + 2) + 1) \div 2 = L + 1 /\ (2 * L + 2) % 2 # 1
OBVIOUS

LEMMA WordIsBytes ==
    ASSUME NEW a \in Nat
    PROVE  /\ WordBytes(a) \in Seq(PlayedByte) /\ Len(WordBytes(a)) = 2
           /\ <<a, "hi">> \in PlayedByte /\ <<a, "lo">> \in PlayedByte
           /\ <<<<a, "hi">>>> \in Seq(PlayedByte) /\ <<<<a, "lo">>>> \in Seq(PlayedByte)
           /\ WordBytes(a) = <<<<a, "hi">>>> \o <<<<a, "lo">>>>
<1>1. <<a, "hi">> \in PlayedByte /\ <<a, "lo">> \in PlayedByte
  BY DEF PlayedByte
<1> DEFINE h == <<a, "hi">>
           l == <<a, "lo">>
<1> HIDE DEF h, l
<1>2. h \in PlayedByte /\ l \in PlayedByte
  BY <1>1 DEF h, l
<1> HIDE DEF PlayedByte
<1>3. /\ <<h, l>> \in Seq(PlayedByte) /\ Len(<<h, l>>) = 2
      /\ <<h>> \in Seq(PlayedByte) /\ <<l>> \in Seq(PlayedByte)
  BY <1>2
<1>4. <<h, l>> = <<h>> \o <<l>>
  <2> DEFINE x == <<h>>
             y == <<l>>
             z == <<h, l>>
             w == x \o y
  <2>1. /\ x \in Seq(PlayedByte) /\ Len(x) = 1 /\ x[1] = h
        /\ y \in Seq(PlayedByte) /\ Len(y) = 1 /\ y[1] = l
        /\ z \in Seq(PlayedByte) /\ Len(z) = 2 /\ z[1] = h /\ z[2] = l
    BY <1>3
  <2> HIDE DEF x, y, z
  <2>2. w \in Seq(PlayedByte) /\ Len(w) = 2 /\ w[1] = x[1] /\ w[2] = y[1]
    BY <2>1, ConcatProperties, SMTT(30)
  <2> HIDE DEF w
  <2>3. \A i \in 1..Len(z) : z[i] = w[i]
    BY <2>1, <2>2
  <2>4. z = w
    BY <2>1, <2>2, <2>3, SeqEqual
  <2> QED
    BY <2>4 DEF w, x, y, z
<1> QED
  BY <1>1, <1>3, <1>4, Zenon DEF h, l, WordBytes

LEMMA BytesType ==
    ASSUME NEW s \in Seq(Nat)
    PROVE  Bytes(s) \in Seq(PlayedByte) /\ Len(Bytes(s)) = 2 * Len(s)
<1>1. Len(s) \in Nat /\ 2 * Len(s) \in Nat
  OBVIOUS
<1>2. \A i \in 1..(2 * Len(s)) :
         <<s[(i + 1) \div 2], IF i % 2 = 1 THEN "hi" ELSE "lo">> \in PlayedByte
  <2> TAKE i \in 1..(2 * Len(s))
  <2>1. (i + 1) \div 2 \in 1..Len(s)
    BY <1>1, Halves
  <2>2. s[(i + 1) \div 2] \in Nat
    BY <2>1, ElementOfSeq
  <2> QED
    BY <2>2 DEF PlayedByte
<1>3. Bytes(s) \in [1..(2 * Len(s)) -> PlayedByte]
  BY <1>2 DEF Bytes
<1> QED
  BY <1>1, <1>3

LEMMA BytesAppend ==
    ASSUME NEW s \in Seq(Nat), NEW a \in Nat
    PROVE  Bytes(Append(s, a)) = Bytes(s) \o WordBytes(a)
<1> DEFINE t == Append(s, a)
           u == Bytes(t)
           v == Bytes(s) \o WordBytes(a)
           L == Len(s)
<1>1. L \in Nat /\ t \in Seq(Nat) /\ Len(t) = L + 1
  BY AppendProperties, LenProperties
<1>2. /\ \A i \in 1..L : t[i] = s[i]
      /\ t[L + 1] = a
  BY AppendProperties
<1> HIDE DEF t, L
<1>3. u \in Seq(PlayedByte) /\ Len(u) = 2 * (L + 1)
  BY <1>1, BytesType
<1>4. /\ Bytes(s) \in Seq(PlayedByte) /\ Len(Bytes(s)) = 2 * L
      /\ WordBytes(a) \in Seq(PlayedByte) /\ Len(WordBytes(a)) = 2
  BY BytesType, WordIsBytes DEF L
<1>5. /\ v \in Seq(PlayedByte) /\ Len(v) = 2 * L + 2
      /\ \A i \in 1..(2 * L + 2) :
            v[i] = IF i <= 2 * L THEN Bytes(s)[i] ELSE WordBytes(a)[i - (2 * L)]
  <2> DEFINE x == Bytes(s)
             y == WordBytes(a)
  <2> HIDE DEF x, y
  <2>1. x \in Seq(PlayedByte) /\ Len(x) = 2 * L /\ y \in Seq(PlayedByte) /\ Len(y) = 2
    BY <1>4 DEF x, y
  <2>2. /\ x \o y \in Seq(PlayedByte) /\ Len(x \o y) = Len(x) + Len(y)
        /\ \A i \in 1..(Len(x) + Len(y)) :
              (x \o y)[i] = IF i <= Len(x) THEN x[i] ELSE y[i - Len(x)]
    BY <2>1, ConcatProperties
  <2>3. v = x \o y
    BY DEF x, y
  <2> QED
    BY <2>1, <2>2, <2>3 DEF x, y
<1>6. \A i \in 1..(2 * L + 2) :
         u[i] = <<t[(i + 1) \div 2], IF i % 2 = 1 THEN "hi" ELSE "lo">>
  BY <1>1 DEF Bytes
<1>7. \A i \in 1..(2 * L) :
         Bytes(s)[i] = <<s[(i + 1) \div 2], IF i % 2 = 1 THEN "hi" ELSE "lo">>
  BY <1>1 DEF Bytes, L
<1>8. WordBytes(a)[1] = <<a, "hi">> /\ WordBytes(a)[2] = <<a, "lo">>
  BY DEF WordBytes
<1> HIDE DEF u, v
<1>9. ASSUME NEW i \in 1..(2 * L + 2)
      PROVE  u[i] = v[i]
  <2>1. CASE i <= 2 * L
    <3>1. (i + 1) \div 2 \in 1..L /\ i \in 1..(2 * L)
      BY <1>1, <2>1, Halves
    <3>2. t[(i + 1) \div 2] = s[(i + 1) \div 2]
      BY <1>2, <3>1
    <3>3. v[i] = Bytes(s)[i]
      BY <1>5, <2>1
    <3> QED
      BY <1>6, <1>7, <3>1, <3>2, <3>3
  <2>2. CASE i = 2 * L + 1
    <3>1. (i + 1) \div 2 = L + 1 /\ i % 2 = 1 /\ i - (2 * L) = 1 /\ ~(i <= 2 * L)
      BY <1>1, <2>2, Halves
    <3>2. u[i] = <<a, "hi">>
      BY <1>2, <1>6, <3>1
    <3>3. v[i] = WordBytes(a)[1]
      BY <1>5, <3>1
    <3> QED
      BY <1>8, <3>2, <3>3
  <2>3. CASE i = 2 * L + 2
    <3>1. (i + 1) \div 2 = L + 1 /\ i % 2 # 1 /\ i - (2 * L) = 2 /\ ~(i <= 2 * L)
      BY <1>1, <2>3, Halves
    <3>2. u[i] = <<a, "lo">>
      BY <1>2, <1>6, <3>1
    <3>3. v[i] = WordBytes(a)[2]
      BY <1>5, <3>1
    <3> QED
      BY <1>8, <3>2, <3>3
  <2>4. i <= 2 * L \/ i = 2 * L + 1 \/ i = 2 * L + 2
    BY <1>1
  <2> QED
    BY <2>1, <2>2, <2>3, <2>4, Zenon
<1>10. Len(u) = Len(v) /\ \A i \in 1..Len(u) : u[i] = v[i]
  BY <1>1, <1>3, <1>5, <1>9
<1>11. u = v
  BY <1>3, <1>5, <1>10, SeqEqual
<1> QED
  BY <1>11 DEF u, v, t

-----------------------------------------------------------------------------
(* A period takes one byte.                                                *)

LEMMA Fields ==
    ASSUME NEW ch \in Channel
    PROVE  /\ ch.audlc \in Nat /\ ch.audlen \in Nat /\ ch.audper \in Nat
           /\ ch.current_ptr \in Nat /\ ch.current_length \in Nat
           /\ ch.period_counter \in Nat /\ ch.pending_lo \in Nat /\ ch.dma_word \in Nat
           /\ ch.data_pending \in BOOLEAN /\ ch.has_pending_lo \in BOOLEAN
           /\ ch.dma_word_ready \in BOOLEAN
           /\ ch.fetched \in Seq(Nat) /\ ch.played \in Seq(PlayedByte)
BY Zenon DEF Channel, PlayedByte

(* The word the channel holds, and the low byte it has left.               *)
HeldLow(ch) == IF ch.has_pending_lo THEN <<<<ch.pending_lo, "lo">>>> ELSE <<>>

HeldWord(ch) == IF ch.dma_word_ready THEN WordBytes(ch.dma_word) ELSE <<>>

LEMMA HeldParts ==
    ASSUME NEW ch \in Channel
    PROVE  /\ Held(ch) = HeldLow(ch) \o HeldWord(ch)
           /\ HeldLow(ch) \in Seq(PlayedByte) /\ HeldWord(ch) \in Seq(PlayedByte)
<1>1. Held(ch) = HeldLow(ch) \o HeldWord(ch)
  BY Zenon DEF Held, HeldLow, HeldWord, WordBytes
<1>2. HeldLow(ch) \in Seq(PlayedByte)
  <2>1. <<<<ch.pending_lo, "lo">>>> \in Seq(PlayedByte)
    BY Fields, WordIsBytes
  <2>2. <<>> \in Seq(PlayedByte)
    BY EmptySeq
  <2> QED
    BY <2>1, <2>2, Zenon DEF HeldLow
<1>3. HeldWord(ch) \in Seq(PlayedByte)
  <2>1. WordBytes(ch.dma_word) \in Seq(PlayedByte)
    BY Fields, WordIsBytes
  <2>2. <<>> \in Seq(PlayedByte)
    BY EmptySeq
  <2> QED
    BY <2>1, <2>2, Zenon DEF HeldWord
<1> QED
  BY <1>1, <1>2, <1>3, Zenon

LEMMA AppendMoves ==
    ASSUME NEW S, NEW p \in Seq(S), NEW x \in S, NEW D \in Seq(S)
    PROVE  Append(p, x) \o D = p \o (<<x>> \o D)
<1>1. Append(p, x) = p \o <<x>> /\ <<x>> \in Seq(S)
  BY AppendIsConcat
<1> QED
  BY <1>1, ConcatAssociative

LEMMA TakeKeeps ==
    ASSUME NEW ch \in Channel, Plays(ch), NEW n, n = take_sample(ch)
    PROVE  /\ n \in Channel /\ Plays(n)
           /\ n.audper = ch.audper /\ n.period_counter = ch.period_counter
           /\ n.fetched = ch.fetched
<1> DEFINE lo == <<ch.pending_lo, "lo">>
           hw == <<ch.dma_word, "hi">>
           lw == <<ch.dma_word, "lo">>
<1>1. lo \in PlayedByte /\ hw \in PlayedByte /\ lw \in PlayedByte
  BY Fields, WordIsBytes
<1>2. /\ ch.played \in Seq(PlayedByte)
      /\ Append(ch.played, lo) \in Seq(PlayedByte)
      /\ Append(ch.played, hw) \in Seq(PlayedByte)
  BY <1>1, Fields, AppendProperties
<1>3. ch.played \o (HeldLow(ch) \o HeldWord(ch)) = Bytes(ch.fetched)
  BY HeldParts, Zenon DEF Plays
<1>4. HeldLow(ch) \in Seq(PlayedByte) /\ HeldWord(ch) \in Seq(PlayedByte)
  BY HeldParts
<1> HIDE DEF lo, hw, lw
<1>5. CASE ch.data_pending
  <2>1. n = [ch EXCEPT !.data_pending = FALSE]
    BY <1>5, Zenon DEF take_sample
  <2>2. n \in Channel
    BY <2>1, Zenon DEF Channel
  <2>3. /\ n.audper = ch.audper /\ n.period_counter = ch.period_counter
        /\ n.fetched = ch.fetched /\ n.played = ch.played
        /\ n.has_pending_lo = ch.has_pending_lo /\ n.pending_lo = ch.pending_lo
        /\ n.dma_word_ready = ch.dma_word_ready /\ n.dma_word = ch.dma_word
    BY <2>1, Zenon DEF Channel
  <2>4. Plays(n)
    BY <2>3, Zenon DEF Plays, Held
  <2> QED
    BY <2>2, <2>3, <2>4, Zenon
<1>6. CASE ~ch.data_pending /\ ch.has_pending_lo
  <2>1. n = [ch EXCEPT !.has_pending_lo = FALSE, !.played = Append(ch.played, lo)]
    BY <1>6, Zenon DEF take_sample, lo
  <2>2. n \in Channel
    BY <1>2, <2>1, Zenon DEF Channel, PlayedByte
  <2>3. /\ n.audper = ch.audper /\ n.period_counter = ch.period_counter
        /\ n.fetched = ch.fetched /\ n.played = Append(ch.played, lo)
        /\ ~n.has_pending_lo
        /\ n.dma_word_ready = ch.dma_word_ready /\ n.dma_word = ch.dma_word
    BY <2>1, Zenon DEF Channel
  <2>4. HeldLow(n) = <<>> /\ HeldLow(ch) = <<lo>> /\ HeldWord(n) = HeldWord(ch)
    BY <1>6, <2>3, Zenon DEF HeldLow, HeldWord, lo
  <2>5. <<>> \o HeldWord(ch) = HeldWord(ch)
    BY <1>4, ConcatEmptySeq
  <2>6. Append(ch.played, lo) \o HeldWord(ch) = ch.played \o (<<lo>> \o HeldWord(ch))
    <3> DEFINE q == ch.played
               D == HeldWord(ch)
    <3> HIDE DEF q, D
    <3>1. q \in Seq(PlayedByte) /\ D \in Seq(PlayedByte)
      BY <1>2, <1>4 DEF q, D
    <3>2. Append(q, lo) \o D = q \o (<<lo>> \o D)
      BY <1>1, <3>1, AppendMoves
    <3> QED
      BY <3>2 DEF q, D
  <2>7. Held(n) = HeldLow(n) \o HeldWord(n)
    BY <2>2, HeldParts
  <2>8. Plays(n)
    BY <1>3, <2>3, <2>4, <2>5, <2>6, <2>7, Zenon DEF Plays
  <2> QED
    BY <2>2, <2>3, <2>8, Zenon
<1>7. CASE ~ch.data_pending /\ ~ch.has_pending_lo /\ ch.dma_word_ready
  <2>1. n = [ch EXCEPT !.dma_word_ready = FALSE, !.pending_lo = ch.dma_word,
                       !.has_pending_lo = TRUE, !.played = Append(ch.played, hw)]
    BY <1>7, Zenon DEF take_sample, hw
  <2>2. n \in Channel
    BY <1>2, <2>1, Fields, ZenonT(60) DEF Channel, PlayedByte
  <2>3. /\ n.audper = ch.audper /\ n.period_counter = ch.period_counter
        /\ n.fetched = ch.fetched /\ n.played = Append(ch.played, hw)
        /\ n.has_pending_lo /\ n.pending_lo = ch.dma_word /\ ~n.dma_word_ready
    BY <2>1, Zenon DEF Channel
  <2>4. /\ HeldLow(n) = <<lw>> /\ HeldLow(ch) = <<>> /\ HeldWord(n) = <<>>
        /\ HeldWord(ch) = WordBytes(ch.dma_word)
    BY <1>7, <2>3, Zenon DEF HeldLow, HeldWord, lw
  <2>5. WordBytes(ch.dma_word) = <<hw>> \o <<lw>> /\ <<lw>> \in Seq(PlayedByte)
    BY Fields, WordIsBytes DEF hw, lw
  <2>6. /\ <<>> \o HeldWord(ch) = HeldWord(ch)
        /\ <<lw>> \o <<>> = <<lw>>
    BY <1>4, <2>5, ConcatEmptySeq
  <2>7. Append(ch.played, hw) \o <<lw>> = ch.played \o (<<hw>> \o <<lw>>)
    <3> DEFINE q == ch.played
               D == <<lw>>
    <3> HIDE DEF q, D
    <3>1. q \in Seq(PlayedByte) /\ D \in Seq(PlayedByte)
      BY <1>2, <2>5 DEF q, D
    <3>2. Append(q, hw) \o D = q \o (<<hw>> \o D)
      BY <1>1, <3>1, AppendMoves
    <3> QED
      BY <3>2 DEF q, D
  <2>8. Held(n) = HeldLow(n) \o HeldWord(n)
    BY <2>2, HeldParts
  <2>9. Plays(n)
    BY <1>3, <2>3, <2>4, <2>5, <2>6, <2>7, <2>8, Zenon DEF Plays
  <2> QED
    BY <2>2, <2>3, <2>9, Zenon
<1>8. CASE ~ch.data_pending /\ ~ch.has_pending_lo /\ ~ch.dma_word_ready
  <2>1. n = ch
    BY <1>8, Zenon DEF take_sample
  <2> QED
    BY <2>1
<1> QED
  BY <1>5, <1>6, <1>7, <1>8

-----------------------------------------------------------------------------
(* Any number of periods.                                                  *)

Playing == {ch \in Channel : Plays(ch)}

Take == [ch \in Playing |-> take_sample(ch)]

LEMMA TakeStays ==
    ASSUME NEW ch \in Playing
    PROVE  Take[ch] = take_sample(ch) /\ Take[ch] \in Playing
<1>1. Take[ch] = take_sample(ch)
  BY Zenon DEF Take
<1>2. ch \in Channel /\ Plays(ch)
  BY Zenon DEF Playing
<1>3. take_sample(ch) \in Channel /\ Plays(take_sample(ch))
  BY <1>2, TakeKeeps
<1> QED
  BY <1>1, <1>3, Zenon DEF Playing

LEMMA TakenIterates ==
    ASSUME NEW ch \in Playing, NEW n \in Nat
    PROVE  taken(ch, n) = Iterated(Take, ch, n)
<1> DEFINE Eq(g) == g = [k \in 0..n |-> IF k = 0 THEN ch ELSE take_sample(g[k - 1])]
           at == CHOOSE g : Eq(g)
<1>1. PICK f : Run(Take, ch, n, f)
  BY RunExists
<1>2. f \in [0..n -> Playing]
  <2>1. \A x \in Playing : Take[x] \in Playing
    BY TakeStays
  <2> QED
    BY <1>1, <2>1, RunInvariant
<1>3. Eq(f)
  <2>1. f = [k \in 0..n |-> IF k = 0 THEN ch ELSE Take[f[k - 1]]]
    BY <1>1 DEF Run
  <2>2. ASSUME NEW k \in 0..n
        PROVE  f[k] = IF k = 0 THEN ch ELSE take_sample(f[k - 1])
    <3>1. k # 0 => k - 1 \in 0..n
      OBVIOUS
    <3> QED
      BY <1>2, <2>1, <3>1, TakeStays
  <2> QED
    BY <1>2, <2>2
<1>4. Eq(at)
  BY <1>3
<1>5. taken(ch, n) = at[n]
  BY Zenon DEF taken
<1> HIDE DEF at
<1>6. \A k \in 0..n : at[k] \in Playing
  <2> DEFINE S == {k \in Nat : k \in 0..n => at[k] \in Playing}
  <2>1. 0 \in S
    BY <1>4
  <2>2. ASSUME NEW k \in Nat, k \in S PROVE k + 1 \in S
    <3> SUFFICES ASSUME k + 1 \in 0..n PROVE at[k + 1] \in Playing
      OBVIOUS
    <3>1. k \in 0..n /\ k + 1 # 0 /\ (k + 1) - 1 = k
      OBVIOUS
    <3>2. at[k + 1] = take_sample(at[k]) /\ at[k] \in Playing
      BY <1>4, <2>2, <3>1
    <3> QED
      BY <3>2, TakeStays
  <2>3. Nat \subseteq S
    BY <2>1, <2>2, SetInduction
  <2> QED
    BY <2>3
<1>7. Run(Take, ch, n, at)
  <2>1. ASSUME NEW k \in 0..n
        PROVE  at[k] = IF k = 0 THEN ch ELSE Take[at[k - 1]]
    <3>1. k # 0 => k - 1 \in 0..n
      OBVIOUS
    <3> QED
      BY <1>4, <1>6, <3>1, TakeStays
  <2>2. at = [k \in 0..n |-> at[k]]
    BY <1>4
  <2>3. at = [k \in 0..n |-> IF k = 0 THEN ch ELSE Take[at[k - 1]]]
    BY <2>1, <2>2
  <2> QED
    BY <2>3 DEF Run
<1> QED
  BY <1>5, <1>7, IteratedIsRun

LEMMA TakenSteps ==
    ASSUME NEW ch \in Playing
    PROVE  /\ taken(ch, 0) = ch
           /\ \A n \in Nat : taken(ch, n + 1) = take_sample(taken(ch, n))
           /\ \A n \in Nat : taken(ch, n) \in Playing
                             /\ taken(ch, n).fetched = ch.fetched
<1> DEFINE Same == {x \in Playing : x.fetched = ch.fetched}
<1>1. \A x \in Same : Take[x] \in Same
  <2> SUFFICES ASSUME NEW x \in Same PROVE Take[x] \in Same
    OBVIOUS
  <2>1. x \in Playing /\ x.fetched = ch.fetched
    OBVIOUS
  <2>2. x \in Channel /\ Plays(x)
    BY <2>1, Zenon DEF Playing
  <2>3. take_sample(x).fetched = x.fetched
    BY <2>2, TakeKeeps
  <2> QED
    BY <2>1, <2>3, TakeStays
<1>2. ch \in Same
  OBVIOUS
<1> HIDE DEF Same
<1>3. \A n \in Nat : Iterated(Take, ch, n) \in Same
  BY <1>1, <1>2, IteratedInvariant
<1>4. \A n \in Nat : taken(ch, n) = Iterated(Take, ch, n)
  BY TakenIterates
<1>5. \A n \in Nat : taken(ch, n) \in Playing /\ taken(ch, n).fetched = ch.fetched
  BY <1>3, <1>4 DEF Same
<1>6. taken(ch, 0) = ch
  BY <1>4, IteratedSteps
<1>7. ASSUME NEW n \in Nat
      PROVE  taken(ch, n + 1) = take_sample(taken(ch, n))
  <2>1. n + 1 \in Nat
    OBVIOUS
  <2>2. taken(ch, n + 1) = Take[Iterated(Take, ch, n)]
    BY <1>4, <2>1, IteratedSteps
  <2>3. taken(ch, n + 1) = Take[taken(ch, n)]
    BY <1>4, <2>2
  <2> QED
    BY <1>5, <2>3, TakeStays
<1> QED
  BY <1>5, <1>6, <1>7

-----------------------------------------------------------------------------
(* The period counter.                                                     *)

LEMMA CounterType ==
    ASSUME NEW ch, ChannelOK(ch)
    PROVE  period(ch) \in 1..PeriodMax /\ counter(ch) \in 1..PeriodMax
<1>1. /\ ch.audper \in Nat /\ ch.audper <= PeriodMax
      /\ ch.period_counter \in Nat /\ ch.period_counter <= PeriodMax
  BY Fields DEF ChannelOK
<1>2. period(ch) \in 1..PeriodMax
  BY <1>1, PeriodMaxType DEF period
<1> QED
  BY <1>1, <1>2, PeriodMaxType DEF counter

LEMMA ElapsedType ==
    ASSUME NEW ch, ChannelOK(ch), NEW on, NEW n \in Nat
    PROVE  elapsed(ch, on, n) \in Nat /\ left_over(ch, n) \in 1..PeriodMax
<1> DEFINE p == period(ch)
           c == counter(ch)
<1>1. p \in 1..PeriodMax /\ c \in 1..PeriodMax /\ PeriodMax \in Nat
  BY CounterType, PeriodMaxType
<1> HIDE DEF p, c
<1>2. ~(n < c) => (n - c) \div p \in Nat /\ (n - c) % p \in 0..(p - 1)
  <2> SUFFICES ASSUME ~(n < c)
               PROVE  (n - c) \div p \in Nat /\ (n - c) % p \in 0..(p - 1)
    OBVIOUS
  <2> DEFINE d == n - c
  <2>1. d \in Int /\ d \in Nat /\ p \in Nat \ {0}
    BY <1>1
  <2> HIDE DEF d
  <2>2. d \div p \in Nat /\ d % p \in 0..(p - 1)
    BY <2>1, DivMod
  <2> QED
    BY <2>2 DEF d
<1>3. elapsed(ch, on, n) \in Nat
  BY <1>1, <1>2 DEF elapsed, p, c
<1>4. left_over(ch, n) \in 1..PeriodMax
  BY <1>1, <1>2 DEF left_over, p, c
<1> QED
  BY <1>3, <1>4

(* A step of Paula keeps a channel well formed and its bytes in order.     *)
LEMMA StepKeeps ==
    ASSUME NEW ch, ChannelOK(ch), NEW on, NEW n \in Nat
    PROVE  ChannelOK(step_channel(ch, on, n))
<1>1. CASE ~runs(ch, on)
  BY <1>1, Zenon DEF step_channel
<1>2. CASE runs(ch, on)
  <2> DEFINE t == taken(ch, elapsed(ch, on, n))
             p == period(ch)
             l == left_over(ch, n)
             s == [t EXCEPT !.audper = p, !.period_counter = l]
  <2>1. /\ ch \in Playing /\ ch \in Channel /\ Len(ch.fetched) <= MaxFetches
    BY Zenon DEF ChannelOK, Playing
  <2>2. elapsed(ch, on, n) \in Nat /\ l \in 1..PeriodMax /\ p \in 1..PeriodMax
    BY ElapsedType, CounterType
  <2>3. t \in Playing /\ t.fetched = ch.fetched
    BY <2>1, <2>2, TakenSteps
  <2>4. p \in Nat /\ p <= PeriodMax /\ l \in Nat /\ l <= PeriodMax
    BY <2>2, PeriodMaxType
  <2>5. step_channel(ch, on, n) = s
    BY <1>2, Zenon DEF step_channel
  <2> HIDE DEF t, p, l
  <2>6. t \in Channel /\ Plays(t)
    BY <2>3, Zenon DEF Playing
  <2>7. s \in Channel
    BY <2>4, <2>6, Zenon DEF Channel
  <2>8. /\ s.audper = p /\ s.period_counter = l /\ s.fetched = t.fetched
        /\ s.played = t.played /\ s.has_pending_lo = t.has_pending_lo
        /\ s.pending_lo = t.pending_lo /\ s.dma_word_ready = t.dma_word_ready
        /\ s.dma_word = t.dma_word
    BY <2>6, Zenon DEF Channel
  <2> HIDE DEF s
  <2>9. Plays(s)
    BY <2>6, <2>8, Zenon DEF Plays, Held
  <2>10. Len(s.fetched) <= MaxFetches
    BY <2>1, <2>3, <2>8, Zenon
  <2>11. ChannelOK(s)
    BY <2>4, <2>7, <2>8, <2>9, <2>10, Zenon DEF ChannelOK
  <2> QED
    BY <2>5, <2>11, Zenon
<1> QED
  BY <1>1, <1>2

(* So does a word fetched by DMA.                                          *)
LEMMA FetchPlays ==
    ASSUME NEW ch \in Channel, Plays(ch), wants_word(ch), NEW f, f = fetch(ch)
    PROVE  /\ f \in Channel /\ Plays(f) /\ f.dma_word_ready
           /\ f.audper = ch.audper /\ f.period_counter = ch.period_counter
           /\ f.data_pending = ch.data_pending
           /\ Len(ch.fetched) \in Nat /\ Len(f.fetched) = Len(ch.fetched) + 1
<1> DEFINE r == reload(ch)
           a == r.current_ptr
<1>1. ~ch.dma_word_ready
  BY Zenon DEF wants_word
<1>2. /\ r \in Channel /\ r.data_pending = ch.data_pending
      /\ r.audper = ch.audper /\ r.period_counter = ch.period_counter
      /\ r.fetched = ch.fetched /\ r.played = ch.played
      /\ r.has_pending_lo = ch.has_pending_lo /\ r.pending_lo = ch.pending_lo
      /\ r.dma_word_ready = ch.dma_word_ready
      /\ r.current_length # 0
  <2>1. CASE ch.current_length = 0
    <3>1. r = [ch EXCEPT !.current_ptr = ch.audlc, !.current_length = ch.audlen]
      BY <2>1, Zenon DEF reload
    <3>2. ch.audlen # 0
      BY <2>1, Zenon DEF wants_word
    <3> HIDE DEF r
    <3> QED
      BY <1>1, <3>1, <3>2, Fields, Zenon DEF Channel
  <2>2. CASE ch.current_length # 0
    <3>1. r = ch
      BY <2>2, Zenon DEF reload
    <3> QED
      BY <1>1, <2>2, <3>1, Zenon
  <2> QED
    BY <2>1, <2>2
<1>3. f = [r EXCEPT !.dma_word = a, !.dma_word_ready = TRUE,
                    !.current_ptr = a + 1, !.current_length = r.current_length - 1,
                    !.fetched = Append(r.fetched, a)]
  BY Zenon DEF fetch
<1> HIDE DEF r
<1>4. /\ a \in Nat /\ a + 1 \in Nat /\ r.current_length - 1 \in Nat
      /\ r.fetched \in Seq(Nat)
  <2>1. r.current_ptr \in Nat /\ r.current_length \in Nat /\ r.fetched \in Seq(Nat)
    BY <1>2, Fields
  <2> QED
    BY <1>2, <2>1
<1> HIDE DEF a
<1>5. /\ Append(r.fetched, a) \in Seq(Nat)
      /\ Len(Append(r.fetched, a)) = Len(r.fetched) + 1
      /\ Len(r.fetched) \in Nat
  BY <1>4, AppendProperties, LenProperties
<1>6. f \in Channel
  BY <1>2, <1>3, <1>4, <1>5, ZenonT(60) DEF Channel
<1>7. /\ f.audper = ch.audper /\ f.period_counter = ch.period_counter
      /\ f.fetched = Append(ch.fetched, a) /\ f.played = ch.played
      /\ f.has_pending_lo = ch.has_pending_lo /\ f.pending_lo = ch.pending_lo
      /\ f.dma_word_ready /\ f.dma_word = a /\ f.data_pending = ch.data_pending
  BY <1>2, <1>3, Zenon DEF Channel
<1>8. Len(ch.fetched) \in Nat /\ Len(f.fetched) = Len(ch.fetched) + 1
  BY <1>2, <1>5, <1>7, Zenon
<1>9. Plays(f)
  <2>1. /\ HeldLow(f) = HeldLow(ch) /\ HeldWord(ch) = <<>>
        /\ HeldWord(f) = WordBytes(a)
    BY <1>1, <1>7, Zenon DEF HeldLow, HeldWord
  <2>2. /\ HeldLow(ch) \in Seq(PlayedByte) /\ Held(ch) = HeldLow(ch) \o HeldWord(ch)
        /\ Held(f) = HeldLow(f) \o HeldWord(f)
    BY <1>1, <1>6, HeldParts
  <2>3. HeldLow(ch) \o <<>> = HeldLow(ch)
    BY <2>2, ConcatEmptySeq
  <2>4. ch.played \in Seq(PlayedByte) /\ WordBytes(a) \in Seq(PlayedByte)
    BY <1>1, <1>4, Fields, WordIsBytes
  <2>5. (ch.played \o HeldLow(ch)) \o WordBytes(a) = ch.played \o (HeldLow(ch) \o WordBytes(a))
    <3> DEFINE q == ch.played
               x == HeldLow(ch)
               y == WordBytes(a)
    <3> HIDE DEF q, x, y
    <3>1. q \in Seq(PlayedByte) /\ x \in Seq(PlayedByte) /\ y \in Seq(PlayedByte)
      BY <2>2, <2>4 DEF q, x, y
    <3>2. (q \o x) \o y = q \o (x \o y)
      BY <3>1, ConcatAssociative
    <3> QED
      BY <3>2 DEF q, x, y
  <2>6. Bytes(Append(ch.fetched, a)) = Bytes(ch.fetched) \o WordBytes(a)
    BY <1>2, <1>4, BytesAppend
  <2>7. ch.played \o HeldLow(ch) = Bytes(ch.fetched)
    BY <1>1, <2>1, <2>2, <2>3, Zenon DEF Plays
  <2> QED
    BY <1>7, <2>1, <2>2, <2>5, <2>6, <2>7, Zenon DEF Plays
<1> QED
  BY <1>6, <1>7, <1>8, <1>9, Zenon

LEMMA FetchKeeps ==
    ASSUME NEW ch, ChannelOK(ch), wants_word(ch), Len(ch.fetched) < MaxFetches
    PROVE  ChannelOK(fetch(ch))
<1>1. /\ ch \in Channel /\ Plays(ch) /\ ch.audper <= PeriodMax
      /\ ch.period_counter <= PeriodMax
  BY Zenon DEF ChannelOK
<1>2. PICK f : f = fetch(ch)
  OBVIOUS
<1>3. /\ f \in Channel /\ Plays(f)
      /\ f.audper = ch.audper /\ f.period_counter = ch.period_counter
      /\ Len(ch.fetched) \in Nat /\ Len(f.fetched) = Len(ch.fetched) + 1
  BY <1>1, <1>2, FetchPlays
<1>4. Len(f.fetched) <= MaxFetches
  BY <1>3, AudioAssumption
<1>5. ChannelOK(f)
  BY <1>1, <1>3, <1>4, Zenon DEF ChannelOK
<1> QED
  BY <1>2, <1>5, Zenon

-----------------------------------------------------------------------------
(* Register writes touch no history: they keep the channel as well.        *)

LEMMA WriteKeeps ==
    ASSUME NEW ch, ChannelOK(ch), NEW w \in Channel,
           w.audper <= PeriodMax, w.period_counter <= PeriodMax,
           w.fetched = ch.fetched, w.played = ch.played,
           w.has_pending_lo = ch.has_pending_lo, w.pending_lo = ch.pending_lo,
           w.dma_word_ready = ch.dma_word_ready, w.dma_word = ch.dma_word
    PROVE  ChannelOK(w)
<1>1. Plays(w)
  BY Zenon DEF ChannelOK, Plays, Held
<1> QED
  BY <1>1, Zenon DEF ChannelOK

LEMMA RegistersKeep ==
    ASSUME NEW ch, ChannelOK(ch)
    PROVE  /\ \A v \in Addresses : ChannelOK([ch EXCEPT !.audlc = v])
           /\ \A v \in AudLengths : ChannelOK(write_len(ch, v))
           /\ \A v \in Periods : ChannelOK([ch EXCEPT !.audper = IF v = 0 THEN 1 ELSE v])
           /\ ChannelOK([ch EXCEPT !.data_pending = TRUE])
<1>1. ch \in Channel /\ ch.audper <= PeriodMax /\ ch.period_counter <= PeriodMax
  BY Zenon DEF ChannelOK
<1>2. ASSUME NEW v \in Addresses PROVE ChannelOK([ch EXCEPT !.audlc = v])
  <2> DEFINE w == [ch EXCEPT !.audlc = v]
  <2>1. v \in Nat
    OBVIOUS
  <2>2. w \in Channel
    BY <1>1, <2>1, Zenon DEF Channel
  <2>3. /\ w.audper = ch.audper /\ w.period_counter = ch.period_counter
        /\ w.fetched = ch.fetched /\ w.played = ch.played
        /\ w.has_pending_lo = ch.has_pending_lo /\ w.pending_lo = ch.pending_lo
        /\ w.dma_word_ready = ch.dma_word_ready /\ w.dma_word = ch.dma_word
    BY <1>1, Zenon DEF Channel
  <2> HIDE DEF w
  <2>4. w.audper <= PeriodMax /\ w.period_counter <= PeriodMax
    BY <1>1, <2>3, Zenon
  <2>5. ChannelOK(w)
    BY <2>2, <2>3, <2>4, WriteKeeps
  <2> QED
    BY <2>5 DEF w
<1>3. ASSUME NEW v \in AudLengths PROVE ChannelOK(write_len(ch, v))
  <2> DEFINE w == write_len(ch, v)
             l == IF ch.current_length = 0 THEN v ELSE ch.current_length
  <2>1. v \in Nat /\ l \in Nat
    BY <1>1, Fields
  <2>2. w = [ch EXCEPT !.audlen = v, !.current_length = l]
    BY Zenon DEF write_len
  <2> HIDE DEF w, l
  <2>3. w \in Channel
    BY <1>1, <2>1, <2>2, Zenon DEF Channel
  <2>4. /\ w.audper = ch.audper /\ w.period_counter = ch.period_counter
        /\ w.fetched = ch.fetched /\ w.played = ch.played
        /\ w.has_pending_lo = ch.has_pending_lo /\ w.pending_lo = ch.pending_lo
        /\ w.dma_word_ready = ch.dma_word_ready /\ w.dma_word = ch.dma_word
    BY <1>1, <2>2, Zenon DEF Channel
  <2>5. w.audper <= PeriodMax /\ w.period_counter <= PeriodMax
    BY <1>1, <2>4, Zenon
  <2>6. ChannelOK(w)
    BY <2>3, <2>4, <2>5, WriteKeeps
  <2> QED
    BY <2>6 DEF w
<1>4. ASSUME NEW v \in Periods
      PROVE  ChannelOK([ch EXCEPT !.audper = IF v = 0 THEN 1 ELSE v])
  <2> DEFINE p == IF v = 0 THEN 1 ELSE v
             w == [ch EXCEPT !.audper = p]
  <2>1. p \in Nat /\ p <= PeriodMax
    BY PeriodMaxType
  <2> HIDE DEF p
  <2>2. w \in Channel
    BY <1>1, <2>1, Zenon DEF Channel
  <2>3. /\ w.audper = p /\ w.period_counter = ch.period_counter
        /\ w.fetched = ch.fetched /\ w.played = ch.played
        /\ w.has_pending_lo = ch.has_pending_lo /\ w.pending_lo = ch.pending_lo
        /\ w.dma_word_ready = ch.dma_word_ready /\ w.dma_word = ch.dma_word
    BY <1>1, Zenon DEF Channel
  <2> HIDE DEF w
  <2>4. w.audper <= PeriodMax /\ w.period_counter <= PeriodMax
    BY <1>1, <2>1, <2>3, Zenon
  <2>5. ChannelOK(w)
    BY <2>2, <2>3, <2>4, WriteKeeps
  <2> QED
    BY <2>5, Zenon DEF w, p
<1>5. ChannelOK([ch EXCEPT !.data_pending = TRUE])
  <2> DEFINE w == [ch EXCEPT !.data_pending = TRUE]
  <2>1. w \in Channel
    BY <1>1, Zenon DEF Channel
  <2>2. /\ w.audper = ch.audper /\ w.period_counter = ch.period_counter
        /\ w.fetched = ch.fetched /\ w.played = ch.played
        /\ w.has_pending_lo = ch.has_pending_lo /\ w.pending_lo = ch.pending_lo
        /\ w.dma_word_ready = ch.dma_word_ready /\ w.dma_word = ch.dma_word
    BY <1>1, Zenon DEF Channel
  <2> HIDE DEF w
  <2>3. w.audper <= PeriodMax /\ w.period_counter <= PeriodMax
    BY <1>1, <2>2, Zenon
  <2>4. ChannelOK(w)
    BY <2>1, <2>2, <2>3, WriteKeeps
  <2> QED
    BY <2>4 DEF w
<1> QED
  BY <1>2, <1>3, <1>4, <1>5, Zenon

-----------------------------------------------------------------------------
(* The invariant, channel by channel.                                      *)

AudFrame ==
    /\ auden \subseteq Channels /\ audreq \subseteq Channels
    /\ ended \subseteq Channels /\ ready \in BOOLEAN
    /\ audWrites \in 0..MaxAudWrites

AudInv ==
    /\ aud \in [Channels -> Channel] /\ \A c \in Channels : ChannelOK(aud[c])
    /\ AudFrame

LEMMA InvIsExact == AudInv <=> ChannelExact
BY Zenon DEF AudInv, AudFrame, ChannelExact, ChannelOK, Plays, AudioTypeOK,
   PlaysWhatItFetched

LEMMA ResetOK == ChannelOK(audio_reset)
<1> DEFINE ch == audio_reset
<1>1. <<>> \in Seq(Nat) /\ <<>> \in Seq(PlayedByte) /\ Len(<<>>) = 0
  BY EmptySeq
<1>2. 0 \in Nat /\ TRUE \in BOOLEAN /\ FALSE \in BOOLEAN
  OBVIOUS
<1>3. ch \in Channel
  BY <1>1, <1>2, Zenon DEF audio_reset, Channel, PlayedByte
<1>4. /\ ch.audper = 0 /\ ch.period_counter = 0 /\ ch.fetched = <<>> /\ ch.played = <<>>
      /\ ~ch.has_pending_lo /\ ~ch.dma_word_ready
  BY Zenon DEF audio_reset
<1>5. Held(ch) = <<>> \o <<>>
  BY <1>4, Zenon DEF Held
<1>6. <<>> \o <<>> = <<>>
  BY <1>1, ConcatEmptySeq
<1>7. Bytes(<<>>) = <<>>
  <2>1. Bytes(<<>>) \in Seq(PlayedByte) /\ Len(Bytes(<<>>)) = 2 * Len(<<>>)
    BY <1>1, BytesType
  <2>2. Len(Bytes(<<>>)) = 0
    BY <1>1, <2>1
  <2> DEFINE b == Bytes(<<>>)
  <2> HIDE DEF b
  <2>3. b \in Seq(PlayedByte) /\ Len(b) = 0
    BY <2>1, <2>2 DEF b
  <2>4. b = <<>>
    BY <2>3, EmptySeq
  <2> QED
    BY <2>4 DEF b
<1>8. Plays(ch)
  BY <1>4, <1>5, <1>6, <1>7, Zenon DEF Plays
<1>9. ch.audper <= PeriodMax /\ ch.period_counter <= PeriodMax
  BY <1>4, PeriodMaxType
<1>10. Len(ch.fetched) <= MaxFetches
  BY <1>1, <1>4
<1> QED
  BY <1>3, <1>8, <1>9, <1>10, Zenon DEF ChannelOK

LEMMA AudInitInv == AudioInit => AudInv
<1> SUFFICES ASSUME AudioInit PROVE AudInv
  OBVIOUS
<1>1. \A c \in Channels : aud[c] = audio_reset
  BY Zenon DEF AudioInit
<1>2. \A c \in Channels : ChannelOK(aud[c])
  BY <1>1, ResetOK, Zenon
<1>3. audio_reset \in Channel
  BY ResetOK, Zenon DEF ChannelOK
<1>4. aud \in [Channels -> Channel]
  BY <1>3, Zenon DEF AudioInit
<1>5. AudFrame
  <2>1. audWrites \in 0..MaxAudWrites
    BY DEF AudioInit
  <2> QED
    BY <2>1, Zenon DEF AudioInit, AudFrame
<1> QED
  BY <1>2, <1>4, <1>5, Zenon DEF AudInv

(* A change of one channel into a channel that is in order.                *)
LEMMA OneChannel ==
    ASSUME AudInv, NEW c \in Channels, NEW ch, ChannelOK(ch),
           aud' = [aud EXCEPT ![c] = ch]
    PROVE  /\ aud' \in [Channels -> Channel]
           /\ \A x \in Channels : ChannelOK(aud[x])'
<1>1. ch \in Channel
  BY Zenon DEF ChannelOK
<1>2. aud \in [Channels -> Channel] /\ \A x \in Channels : ChannelOK(aud[x])
  BY Zenon DEF AudInv
<1>3. aud' \in [Channels -> Channel]
  BY <1>1, <1>2, Zenon
<1>4. ASSUME NEW x \in Channels PROVE ChannelOK(aud[x])'
  <2>1. CASE x = c
    <3>1. aud'[x] = ch
      BY <1>2, <2>1, Zenon
    <3> QED
      BY <3>1, Zenon
  <2>2. CASE x # c
    <3>1. aud'[x] = aud[x]
      BY <1>2, <2>2, Zenon
    <3> QED
      BY <1>2, <3>1, Zenon
  <2> QED
    BY <2>1, <2>2
<1> QED
  BY <1>3, <1>4

LEMMA AudNextInv == AudInv /\ [AudioNext]_audioVars => AudInv'
<1> SUFFICES ASSUME AudInv, [AudioNext]_audioVars PROVE AudInv'
  OBVIOUS
<1>0. /\ aud \in [Channels -> Channel] /\ \A c \in Channels : ChannelOK(aud[c])
      /\ AudFrame
  BY Zenon DEF AudInv
<1>1. ASSUME NEW n \in 1..MaxAudStep, NEW S \in SUBSET Channels, AudioStep(n, S)
      PROVE  AudInv'
  <2> DEFINE slotted(c) == IF c \in S THEN dma_step_slot(aud[c], On(c)) ELSE aud[c]
             after(c) == step_channel(slotted(c), On(c), n)
  <2>1. /\ aud' = [c \in Channels |-> after(c)] /\ n \in Nat
        /\ \A c \in S : On(c) /\ wants_word(aud[c]) => Len(aud[c].fetched) < MaxFetches
    BY <1>1 DEF AudioStep, chipset_step
  <2>2. ASSUME NEW c \in Channels
        PROVE  ChannelOK(after(c))
    <3>1. CASE c \in S /\ On(c) /\ wants_word(aud[c])
      <4>1. slotted(c) = fetch(aud[c])
        BY <3>1, Zenon DEF dma_step_slot
      <4>2. ChannelOK(fetch(aud[c]))
        BY <1>0, <2>1, <3>1, FetchKeeps
      <4>3. ChannelOK(slotted(c))
        BY <4>1, <4>2, Zenon
      <4> HIDE DEF slotted
      <4> QED
        BY <2>1, <4>3, StepKeeps
    <3>2. CASE ~(c \in S /\ On(c) /\ wants_word(aud[c]))
      <4>1. slotted(c) = aud[c]
        BY <3>2, Zenon DEF dma_step_slot
      <4> HIDE DEF slotted
      <4> QED
        BY <1>0, <2>1, <4>1, StepKeeps
    <3> QED
      BY <3>1, <3>2
  <2> HIDE DEF after
  <2>3. \A c \in Channels : ChannelOK(aud'[c])
    BY <2>1, <2>2, Zenon
  <2>4. \A c \in Channels : after(c) \in Channel
    BY <2>2, Zenon DEF ChannelOK
  <2>5. aud' \in [Channels -> Channel]
    BY <2>1, <2>4, Zenon
  <2>6. ready' \in BOOLEAN
    <3>1. ready' = (\E c \in Channels : elapsed(aud[c], On(c), n) > 0)
      BY <1>1, Zenon DEF AudioStep
    <3> QED
      BY <3>1
  <2>7. audreq' \subseteq Channels /\ ended' \subseteq Channels
    BY <1>0, <1>1, Zenon DEF AudioStep, AudFrame
  <2>8. AudFrame'
    BY <1>0, <1>1, <2>6, <2>7, Zenon DEF AudioStep, AudFrame
  <2> QED
    BY <2>3, <2>5, <2>8, Zenon DEF AudInv
<1>3. ASSUME NEW c \in Channels, NEW ch, ChannelOK(ch), AudWrite(c, ch) PROVE AudInv'
  <2>1. aud' = [aud EXCEPT ![c] = ch]
    BY <1>3, Zenon DEF AudWrite
  <2>2. aud' \in [Channels -> Channel] /\ \A x \in Channels : ChannelOK(aud[x])'
    BY <1>3, <2>1, OneChannel
  <2>3. audWrites' \in 0..MaxAudWrites
    BY <1>0, <1>3 DEF AudWrite, AudFrame
  <2>4. AudFrame'
    BY <1>0, <1>3, <2>3, Zenon DEF AudWrite, AudFrame
  <2> QED
    BY <2>2, <2>4, Zenon DEF AudInv
<1>4. ASSUME NEW c \in Channels, NEW v \in Addresses, WriteLc(c, v) PROVE AudInv'
  <2>1. ChannelOK([aud[c] EXCEPT !.audlc = v])
    BY <1>0, RegistersKeep
  <2> QED
    BY <1>3, <1>4, <2>1, Zenon DEF WriteLc
<1>5. ASSUME NEW c \in Channels, NEW v \in AudLengths, WriteLen(c, v) PROVE AudInv'
  <2>1. ChannelOK(write_len(aud[c], v))
    BY <1>0, RegistersKeep
  <2> QED
    BY <1>3, <1>5, <2>1, Zenon DEF WriteLen
<1>6. ASSUME NEW c \in Channels, NEW v \in Periods, WritePer(c, v) PROVE AudInv'
  <2>1. ChannelOK([aud[c] EXCEPT !.audper = IF v = 0 THEN 1 ELSE v])
    BY <1>0, RegistersKeep
  <2> QED
    BY <1>3, <1>6, <2>1, Zenon DEF WritePer
<1>7. ASSUME NEW c \in Channels, WriteDat(c) PROVE AudInv'
  <2>1. ChannelOK([aud[c] EXCEPT !.data_pending = TRUE])
    BY <1>0, RegistersKeep
  <2> QED
    BY <1>3, <1>7, <2>1, Zenon DEF WriteDat
<1>8. ASSUME NEW S \in SUBSET Channels, SetDmacon(S) PROVE AudInv'
  <2>1. audWrites' \in 0..MaxAudWrites
    BY <1>0, <1>8 DEF SetDmacon, AudFrame
  <2>2. AudFrame'
    BY <1>0, <1>8, <2>1, Zenon DEF SetDmacon, AudFrame
  <2>3. aud' = aud
    BY <1>8, Zenon DEF SetDmacon
  <2> QED
    BY <1>0, <2>2, <2>3, Zenon DEF AudInv
<1>9. ASSUME NEW c \in Channels, AckBuffer(c) PROVE AudInv'
  <2>1. audreq' \subseteq Channels /\ ended' \subseteq Channels
    BY <1>0, <1>9, Zenon DEF AckBuffer, AudFrame
  <2>2. AudFrame'
    BY <1>0, <1>9, <2>1, Zenon DEF AckBuffer, AudFrame
  <2>3. aud' = aud
    BY <1>9, Zenon DEF AckBuffer
  <2> QED
    BY <1>0, <2>2, <2>3, Zenon DEF AudInv
<1>10. ASSUME UNCHANGED audioVars PROVE AudInv'
  BY <1>0, <1>10, Zenon DEF audioVars, AudInv, AudFrame
<1> QED
  BY <1>1, <1>4, <1>5, <1>6, <1>7, <1>8, <1>9, <1>10, Zenon DEF AudioNext

LEMMA AudInvariant == AudioSpec => []AudInv
BY AudInitInv, AudNextInv, PTL DEF AudioSpec

(* For every number of channels, every register value and every cutting of *)
(* time into steps: the bytes that audio DMA fetched (audio_dma_step_slot) *)
(* are played by audio_step once and in order, whatever the guest writes   *)
(* to the registers in between.                                            *)
THEOREM ChannelPlaysExactly == AudioSpec => []ChannelExact
<1>1. AudInv => ChannelExact
  BY InvIsExact
<1> QED
  BY <1>1, AudInvariant, PTL

-----------------------------------------------------------------------------
(* One step of n clocks and n steps of one.                                *)

(* The clock after k: it either runs the counter down by one, or takes a   *)
(* sample and loads the period.                                            *)
LEMMA OneMoreClock ==
    ASSUME NEW ch, ChannelOK(ch), NEW k \in Nat
    PROVE  /\ left_over(ch, k) # 1 =>
                  /\ elapsed(ch, TRUE, k + 1) = elapsed(ch, TRUE, k)
                  /\ left_over(ch, k + 1) = left_over(ch, k) - 1
           /\ left_over(ch, k) = 1 =>
                  /\ elapsed(ch, TRUE, k + 1) = elapsed(ch, TRUE, k) + 1
                  /\ left_over(ch, k + 1) = period(ch)
<1> DEFINE p == period(ch)
           c == counter(ch)
           E(j) == IF j < c THEN 0 ELSE 1 + (j - c) \div p
           L(j) == IF j < c THEN c - j ELSE p - ((j - c) % p)
<1>1. p \in Nat \ {0} /\ c \in Nat \ {0}
  BY CounterType, PeriodMaxType
<1>2. \A j \in Nat : elapsed(ch, TRUE, j) = E(j) /\ left_over(ch, j) = L(j)
  BY Zenon DEF elapsed, left_over, runs
<1> HIDE DEF p, c
<1>3. /\ L(k) # 1 => E(k + 1) = E(k) /\ L(k + 1) = L(k) - 1
      /\ L(k) = 1 => E(k + 1) = E(k) + 1 /\ L(k + 1) = p
  <2>1. CASE k + 1 < c
    BY <1>1, <2>1
  <2>2. CASE k + 1 = c
    <3>1. 0 \div p = 0 /\ 0 % p = 0
      BY <1>1, DivUnique
    <3>2. k < c /\ ~(k + 1 < c) /\ (k + 1) - c = 0 /\ c - k = 1
      BY <1>1, <2>2
    <3> QED
      BY <1>1, <3>1, <3>2
  <2>3. CASE ~(k < c)
    <3> DEFINE d == k - c
               q == d \div p
               r == d % p
    <3>1. d \in Nat /\ (k + 1) - c = d + 1 /\ ~(k + 1 < c)
      BY <1>1, <2>3
    <3> HIDE DEF d
    <3>2. q \in Nat /\ r \in 0..(p - 1) /\ d = p * q + r
      <4>1. d \in Int /\ d \in Nat
        BY <3>1
      <4> QED
        BY <1>1, <4>1, DivMod
    <3> HIDE DEF q, r
    <3>3. E(k) = 1 + q /\ L(k) = p - r
      BY <2>3 DEF d, q, r
    <3>4. E(k + 1) = 1 + ((d + 1) \div p) /\ L(k + 1) = p - ((d + 1) % p)
      BY <3>1
    <3>5. CASE r + 1 < p
      <4>1. r + 1 \in 0..(p - 1) /\ d + 1 = p * q + (r + 1)
        BY <1>1, <3>1, <3>2, <3>5
      <4>2. (d + 1) \div p = q /\ (d + 1) % p = r + 1
        BY <1>1, <3>2, <4>1, DivUnique
      <4> HIDE DEF E, L
      <4> QED
        BY <1>1, <3>2, <3>3, <3>4, <3>5, <4>2
    <3>6. CASE r + 1 = p
      <4>1. 0 \in 0..(p - 1) /\ q + 1 \in Int
        BY <1>1, <3>2
      <4>2. d + 1 = p * (q + 1) + 0
        BY <1>1, <3>1, <3>2, <3>6
      <4>3. (d + 1) \div p = q + 1 /\ (d + 1) % p = 0
        BY <1>1, <4>1, <4>2, DivUnique
      <4> HIDE DEF E, L
      <4> QED
        BY <1>1, <3>2, <3>3, <3>4, <3>6, <4>3
    <3> QED
      BY <1>1, <3>2, <3>5, <3>6
  <2> QED
    BY <1>1, <2>1, <2>2, <2>3
<1>4. k + 1 \in Nat
  OBVIOUS
<1> HIDE DEF E, L
<1> QED
  BY <1>2, <1>3, <1>4 DEF p

Timed(ch, p, l) == [ch EXCEPT !.audper = p, !.period_counter = l]

(* Taking a sample does not look at the period or its counter.             *)
LEMMA TakeCommutes ==
    ASSUME NEW ch \in Channel, NEW p \in Nat, NEW l \in Nat
    PROVE  take_sample(Timed(ch, p, l)) = Timed(take_sample(ch), p, l)
<1> DEFINE s == [ch EXCEPT !.audper = p, !.period_counter = l]
<1>0. Timed(ch, p, l) = s
  BY Zenon DEF Timed
<1>1. /\ s.data_pending = ch.data_pending /\ s.has_pending_lo = ch.has_pending_lo
      /\ s.dma_word_ready = ch.dma_word_ready /\ s.dma_word = ch.dma_word
      /\ s.pending_lo = ch.pending_lo /\ s.played = ch.played
  BY Zenon DEF Channel
<1>2. CASE ch.data_pending
  <2>1. take_sample(s) = [s EXCEPT !.data_pending = FALSE]
    BY <1>1, <1>2, Zenon DEF take_sample
  <2>2. take_sample(ch) = [ch EXCEPT !.data_pending = FALSE]
    BY <1>2, Zenon DEF take_sample
  <2>3. [s EXCEPT !.data_pending = FALSE]
           = [[ch EXCEPT !.data_pending = FALSE] EXCEPT !.audper = p, !.period_counter = l]
    BY Zenon DEF Channel
  <2> QED
    BY <1>0, <2>1, <2>2, <2>3, Zenon DEF Timed
<1>3. CASE ~ch.data_pending /\ ch.has_pending_lo
  <2> DEFINE q == Append(ch.played, <<ch.pending_lo, "lo">>)
  <2>1. take_sample(s) = [s EXCEPT !.has_pending_lo = FALSE, !.played = q]
    BY <1>1, <1>3, Zenon DEF take_sample
  <2>2. take_sample(ch) = [ch EXCEPT !.has_pending_lo = FALSE, !.played = q]
    BY <1>3, Zenon DEF take_sample
  <2> HIDE DEF q
  <2>3. [s EXCEPT !.has_pending_lo = FALSE, !.played = q]
           = [[ch EXCEPT !.has_pending_lo = FALSE, !.played = q]
                 EXCEPT !.audper = p, !.period_counter = l]
    BY Zenon DEF Channel
  <2> QED
    BY <1>0, <2>1, <2>2, <2>3, Zenon DEF Timed
<1>4. CASE ~ch.data_pending /\ ~ch.has_pending_lo /\ ch.dma_word_ready
  <2> DEFINE q == Append(ch.played, <<ch.dma_word, "hi">>)
             w == ch.dma_word
  <2>1. take_sample(s) = [s EXCEPT !.dma_word_ready = FALSE, !.pending_lo = w,
                                   !.has_pending_lo = TRUE, !.played = q]
    BY <1>1, <1>4, Zenon DEF take_sample
  <2>2. take_sample(ch) = [ch EXCEPT !.dma_word_ready = FALSE, !.pending_lo = w,
                                     !.has_pending_lo = TRUE, !.played = q]
    BY <1>4, Zenon DEF take_sample
  <2> HIDE DEF q, w
  <2>3. [s EXCEPT !.dma_word_ready = FALSE, !.pending_lo = w,
                  !.has_pending_lo = TRUE, !.played = q]
           = [[ch EXCEPT !.dma_word_ready = FALSE, !.pending_lo = w,
                         !.has_pending_lo = TRUE, !.played = q]
                 EXCEPT !.audper = p, !.period_counter = l]
    BY Zenon DEF Channel
  <2> QED
    BY <1>0, <2>1, <2>2, <2>3, Zenon DEF Timed
<1>5. CASE ~ch.data_pending /\ ~ch.has_pending_lo /\ ~ch.dma_word_ready
  <2>1. take_sample(s) = s /\ take_sample(ch) = ch
    BY <1>1, <1>5, Zenon DEF take_sample
  <2> QED
    BY <1>0, <2>1, Zenon DEF Timed
<1> QED
  BY <1>2, <1>3, <1>4, <1>5

LEMMA RecordTwice ==
    ASSUME NEW t \in Channel, NEW p, NEW l, NEW m
    PROVE  [[t EXCEPT !.audper = p, !.period_counter = l]
               EXCEPT !.audper = p, !.period_counter = m]
              = [t EXCEPT !.audper = p, !.period_counter = m]
BY Zenon DEF Channel

LEMMA BatchStep ==
    ASSUME NEW ch, ChannelOK(ch), NEW k \in Nat
    PROVE  step_channel(ch, TRUE, k + 1)
              = step_channel(step_channel(ch, TRUE, k), TRUE, 1)
<1> DEFINE e == elapsed(ch, TRUE, k)
           t == taken(ch, e)
           p == period(ch)
           l == left_over(ch, k)
           s == [t EXCEPT !.audper = p, !.period_counter = l]
<1>1. e \in Nat /\ l \in Nat \ {0} /\ p \in Nat \ {0}
  <2>1. e \in Nat /\ l \in 1..PeriodMax /\ p \in 1..PeriodMax
    BY ElapsedType, CounterType
  <2> HIDE DEF e, l, p
  <2> QED
    BY <2>1, PeriodMaxType
<1>2. ch \in Playing
  BY Zenon DEF ChannelOK, Playing
<1>3. t \in Playing /\ taken(ch, e + 1) = take_sample(t)
  BY <1>1, <1>2, TakenSteps
<1>4. step_channel(ch, TRUE, k) = s
  BY Zenon DEF step_channel, runs
<1>5. ChannelOK(s)
  <2>1. ChannelOK(step_channel(ch, TRUE, k))
    BY StepKeeps
  <2> QED
    BY <1>4, <2>1, Zenon
<1>6. /\ step_channel(s, TRUE, 1) = [taken(s, elapsed(s, TRUE, 1)) EXCEPT
             !.audper = period(s), !.period_counter = left_over(s, 1)]
      /\ step_channel(ch, TRUE, k + 1) = [taken(ch, elapsed(ch, TRUE, k + 1)) EXCEPT
             !.audper = p, !.period_counter = left_over(ch, k + 1)]
  BY Zenon DEF step_channel, runs
<1>7. /\ l # 1 => elapsed(ch, TRUE, k + 1) = e /\ left_over(ch, k + 1) = l - 1
      /\ l = 1 => elapsed(ch, TRUE, k + 1) = e + 1 /\ left_over(ch, k + 1) = p
  BY OneMoreClock
<1> HIDE DEF e, t, p, l
<1>8. t \in Channel /\ s \in Playing
  BY <1>3, <1>5, Zenon DEF Playing, ChannelOK
<1>9. s.audper = p /\ s.period_counter = l
  BY <1>8, Zenon DEF Channel
<1> HIDE DEF s
<1>10. period(s) = p /\ counter(s) = l
  BY <1>1, <1>9 DEF period, counter
<1>11. 0 \div p = 0 /\ 0 % p = 0
  <2>1. 0 \in 0..(p - 1) /\ 0 = p * 0 + 0
    BY <1>1
  <2> QED
    BY <1>1, <2>1, DivUnique
<1>12. taken(s, 0) = s /\ taken(s, 0 + 1) = take_sample(taken(s, 0))
  BY <1>8, TakenSteps
<1>13. CASE l # 1
  <2>1. 1 < l
    BY <1>1, <1>13
  <2>2. elapsed(s, TRUE, 1) = 0 /\ left_over(s, 1) = l - 1
    BY <1>10, <2>1, Zenon DEF elapsed, left_over
  <2>3. step_channel(s, TRUE, 1) = [s EXCEPT !.audper = p, !.period_counter = l - 1]
    BY <1>6, <1>10, <1>12, <2>2, Zenon
  <2>4. step_channel(ch, TRUE, k + 1) = [t EXCEPT !.audper = p, !.period_counter = l - 1]
    BY <1>6, <1>7, <1>13, Zenon DEF t
  <2>5. [s EXCEPT !.audper = p, !.period_counter = l - 1]
           = [t EXCEPT !.audper = p, !.period_counter = l - 1]
    BY <1>8, RecordTwice DEF s
  <2> QED
    BY <1>4, <2>3, <2>4, <2>5, Zenon
<1>14. CASE l = 1
  <2>1. ~(1 < l) /\ 1 - l = 0 /\ 1 + 0 = 1 /\ p - 0 = p /\ 0 + 1 = 1
    BY <1>1, <1>14
  <2>2. elapsed(s, TRUE, 1) = 0 + 1 /\ left_over(s, 1) = p
    <3>1. elapsed(s, TRUE, 1) = 1 + (1 - l) \div p
      BY <1>10, <2>1, Zenon DEF elapsed, runs
    <3>2. left_over(s, 1) = p - ((1 - l) % p)
      BY <1>10, <2>1, Zenon DEF left_over
    <3> QED
      BY <1>11, <2>1, <3>1, <3>2, Zenon
  <2>3. step_channel(s, TRUE, 1) = [take_sample(s) EXCEPT !.audper = p, !.period_counter = p]
    BY <1>6, <1>10, <1>12, <2>2, Zenon
  <2>4. step_channel(ch, TRUE, k + 1) = [take_sample(t) EXCEPT !.audper = p, !.period_counter = p]
    BY <1>3, <1>6, <1>7, <1>14, Zenon
  <2>5. take_sample(s) = [take_sample(t) EXCEPT !.audper = p, !.period_counter = l]
    <3>1. p \in Nat /\ l \in Nat
      BY <1>1
    <3>2. take_sample(Timed(t, p, l)) = Timed(take_sample(t), p, l)
      BY <1>8, <3>1, TakeCommutes
    <3> QED
      BY <3>2, Zenon DEF s, Timed
  <2>6. take_sample(t) \in Channel
    <3>1. t \in Channel /\ Plays(t)
      BY <1>3, Zenon DEF Playing
    <3> QED
      BY <3>1, TakeKeeps
  <2>7. [take_sample(s) EXCEPT !.audper = p, !.period_counter = p]
           = [take_sample(t) EXCEPT !.audper = p, !.period_counter = p]
    <3> DEFINE x == take_sample(t)
    <3> HIDE DEF x
    <3>1. x \in Channel /\ take_sample(s) = [x EXCEPT !.audper = p, !.period_counter = l]
      BY <2>5, <2>6, Zenon DEF x
    <3>2. [[x EXCEPT !.audper = p, !.period_counter = l]
               EXCEPT !.audper = p, !.period_counter = p]
             = [x EXCEPT !.audper = p, !.period_counter = p]
      BY <3>1, RecordTwice
    <3> QED
      BY <3>1, <3>2, Zenon DEF x
  <2> QED
    BY <1>4, <2>3, <2>4, <2>7, Zenon
<1> QED
  BY <1>13, <1>14

(* n steps of one clock.                                                   *)
Ticks(ch, n) ==
    LET ticks[k \in 0..n] == IF k = 0 THEN ch ELSE step_channel(ticks[k - 1], TRUE, 1)
    IN ticks[n]

LEMMA BatchIsTicks ==
    ASSUME NEW ch, ChannelOK(ch), NEW n \in Nat \ {0}
    PROVE  step_channel(ch, TRUE, n) = Ticks(ch, n)
<1> DEFINE Eq(f) == f = [k \in 0..n |-> IF k = 0 THEN ch
                                        ELSE step_channel(f[k - 1], TRUE, 1)]
           g == CHOOSE f : Eq(f)
           h == [k \in 0..n |-> IF k = 0 THEN ch ELSE step_channel(ch, TRUE, k)]
<1>0. Ticks(ch, n) = g[n]
  BY Zenon DEF Ticks
<1> HIDE DEF g
<1>1. ASSUME NEW k \in 0..n
      PROVE  h[k] = IF k = 0 THEN ch ELSE step_channel(h[k - 1], TRUE, 1)
  <2>1. CASE k = 0
    BY <2>1
  <2>2. CASE k = 1
    <3>1. h[1] = step_channel(ch, TRUE, 1) /\ h[0] = ch /\ 1 - 1 = 0 /\ 1 # 0
      BY <2>2
    <3> HIDE DEF h
    <3> QED
      BY <2>2, <3>1, Zenon
  <2>3. CASE k # 0 /\ k # 1
    <3>1. /\ k - 1 \in Nat /\ k - 1 \in 0..n /\ k - 1 # 0 /\ (k - 1) + 1 = k
      BY <2>3
    <3>2. step_channel(ch, TRUE, (k - 1) + 1)
             = step_channel(step_channel(ch, TRUE, k - 1), TRUE, 1)
      BY <3>1, BatchStep
    <3>3. h[k] = step_channel(ch, TRUE, k) /\ h[k - 1] = step_channel(ch, TRUE, k - 1)
      BY <2>3, <3>1
    <3> HIDE DEF h
    <3> QED
      BY <2>3, <3>1, <3>2, <3>3, Zenon
  <2> QED
    BY <2>1, <2>2, <2>3
<1>2. h = [k \in 0..n |-> h[k]]
  OBVIOUS
<1>3. h[n] = step_channel(ch, TRUE, n)
  OBVIOUS
<1> HIDE DEF h
<1>4. Eq(h)
  BY <1>1, <1>2
<1>5. Eq(g)
  BY <1>4, Zenon DEF g
<1>6. g[n] = h[n]
  <2> DEFINE S == {k \in Nat : k \in 0..n => g[k] = h[k]}
  <2>1. 0 \in S
    BY <1>4, <1>5
  <2>2. ASSUME NEW k \in Nat, k \in S PROVE k + 1 \in S
    <3> SUFFICES ASSUME k + 1 \in 0..n PROVE g[k + 1] = h[k + 1]
      OBVIOUS
    <3>1. k \in 0..n /\ k + 1 # 0 /\ (k + 1) - 1 = k
      OBVIOUS
    <3>2. g[k + 1] = step_channel(g[k], TRUE, 1) /\ h[k + 1] = step_channel(h[k], TRUE, 1)
      BY <1>4, <1>5, <3>1
    <3> QED
      BY <2>2, <3>1, <3>2
  <2>3. Nat \subseteq S
    BY <2>1, <2>2, SetInduction
  <2> HIDE DEF S
  <2>4. n \in S /\ n \in 0..n
    BY <2>3
  <2> QED
    BY <2>4, Zenon DEF S
<1> QED
  BY <1>0, <1>3, <1>6

-----------------------------------------------------------------------------
(* Two steps up to the deadline and one.                                   *)

LEMMA TimedFields ==
    ASSUME NEW ch \in Channel, NEW p \in Nat, NEW l \in Nat, NEW t, t = Timed(ch, p, l)
    PROVE  /\ t \in Channel /\ t.audper = p /\ t.period_counter = l
           /\ t.audlc = ch.audlc /\ t.audlen = ch.audlen
           /\ t.current_ptr = ch.current_ptr /\ t.current_length = ch.current_length
           /\ t.data_pending = ch.data_pending /\ t.dma_word_ready = ch.dma_word_ready
           /\ t.has_pending_lo = ch.has_pending_lo /\ t.pending_lo = ch.pending_lo
           /\ t.dma_word = ch.dma_word /\ t.fetched = ch.fetched /\ t.played = ch.played
BY Zenon DEF Timed, Channel

(* Fetching a word does not look at the period or its counter either.      *)
LEMMA FetchCommutes ==
    ASSUME NEW ch \in Channel, wants_word(ch), NEW p \in Nat, NEW l \in Nat
    PROVE  fetch(Timed(ch, p, l)) = Timed(fetch(ch), p, l)
<1> DEFINE t == Timed(ch, p, l)
           r == reload(ch)
           q == reload(t)
<1>1. /\ t \in Channel /\ t.audlc = ch.audlc /\ t.audlen = ch.audlen
      /\ t.current_length = ch.current_length
  BY TimedFields
<1>2. r \in Channel /\ q = Timed(r, p, l)
  <2>1. CASE ch.current_length = 0
    <3>1. r = [ch EXCEPT !.current_ptr = ch.audlc, !.current_length = ch.audlen]
      BY <2>1, Zenon DEF reload
    <3>2. q = [t EXCEPT !.current_ptr = ch.audlc, !.current_length = ch.audlen]
      BY <1>1, <2>1, Zenon DEF reload
    <3>3. ch.audlc \in Nat /\ ch.audlen \in Nat
      BY Zenon DEF Channel
    <3>4. PICK a \in Nat, b \in Nat : a = ch.audlc /\ b = ch.audlen
      BY <3>3
    <3>5. [[ch EXCEPT !.audper = p, !.period_counter = l]
              EXCEPT !.current_ptr = a, !.current_length = b]
            = [[ch EXCEPT !.current_ptr = a, !.current_length = b]
                  EXCEPT !.audper = p, !.period_counter = l]
      BY Zenon DEF Channel
    <3>6. r \in Channel
      BY <3>1, <3>3, Zenon DEF Channel
    <3> QED
      BY <3>1, <3>2, <3>4, <3>5, <3>6, Zenon DEF Timed
  <2>2. CASE ch.current_length # 0
    <3>1. r = ch /\ q = t
      BY <1>1, <2>2, Zenon DEF reload
    <3> QED
      BY <3>1, Zenon
  <2> QED
    BY <2>1, <2>2
<1> HIDE DEF r, q, t
<1>3. PICK a, b, d, e : /\ a = r.current_ptr /\ b = r.current_ptr + 1
                        /\ d = r.current_length - 1 /\ e = Append(r.fetched, a)
  OBVIOUS
<1>4. fetch(ch) = [r EXCEPT !.dma_word = a, !.dma_word_ready = TRUE, !.current_ptr = b,
                            !.current_length = d, !.fetched = e]
  BY <1>3, Zenon DEF fetch, r
<1>5. /\ q.current_ptr = r.current_ptr /\ q.current_length = r.current_length
      /\ q.fetched = r.fetched
  BY <1>2, TimedFields
<1>6. fetch(t) = [q EXCEPT !.dma_word = a, !.dma_word_ready = TRUE, !.current_ptr = b,
                           !.current_length = d, !.fetched = e]
  BY <1>3, <1>5, Zenon DEF fetch, q
<1>7. [[r EXCEPT !.audper = p, !.period_counter = l]
          EXCEPT !.dma_word = a, !.dma_word_ready = TRUE, !.current_ptr = b,
                 !.current_length = d, !.fetched = e]
        = [[r EXCEPT !.dma_word = a, !.dma_word_ready = TRUE, !.current_ptr = b,
                     !.current_length = d, !.fetched = e]
              EXCEPT !.audper = p, !.period_counter = l]
  BY <1>2, ZenonT(60) DEF Channel
<1> QED
  BY <1>2, <1>4, <1>6, <1>7, Zenon DEF Timed, t

(* A slot that comes up twice, or later, before a sample is taken.         *)
LEMMA SlotCommutes ==
    ASSUME NEW ch \in Channel, Plays(ch), NEW on \in BOOLEAN, NEW p \in Nat, NEW l \in Nat
    PROVE  /\ dma_step_slot(Timed(ch, p, l), on) = Timed(dma_step_slot(ch, on), p, l)
           /\ dma_step_slot(dma_step_slot(ch, on), on) = dma_step_slot(ch, on)
           /\ dma_step_slot(ch, on) \in Channel /\ Plays(dma_step_slot(ch, on))
           /\ dma_step_slot(ch, on).audper = ch.audper
           /\ dma_step_slot(ch, on).period_counter = ch.period_counter
           /\ dma_step_slot(ch, on).data_pending = ch.data_pending
<1>1. PICK t : t = Timed(ch, p, l)
  OBVIOUS
<1>2. wants_word(t) <=> wants_word(ch)
  <2>1. /\ t.dma_word_ready = ch.dma_word_ready /\ t.current_length = ch.current_length
        /\ t.audlen = ch.audlen
    BY <1>1, TimedFields
  <2> QED
    BY <2>1, Zenon DEF wants_word
<1>3. CASE on /\ wants_word(ch)
  <2>1. PICK f : f = fetch(ch)
    OBVIOUS
  <2>2. /\ f \in Channel /\ Plays(f) /\ f.dma_word_ready
        /\ f.audper = ch.audper /\ f.period_counter = ch.period_counter
        /\ f.data_pending = ch.data_pending
    BY <1>3, <2>1, FetchPlays
  <2>3. dma_step_slot(ch, on) = f /\ dma_step_slot(t, on) = fetch(t)
    BY <1>2, <1>3, <2>1, Zenon DEF dma_step_slot
  <2>4. fetch(t) = Timed(f, p, l)
    BY <1>1, <1>3, <2>1, FetchCommutes
  <2>5. dma_step_slot(f, on) = f
    BY <2>2, Zenon DEF dma_step_slot, wants_word
  <2> QED
    BY <1>1, <2>2, <2>3, <2>4, <2>5, Zenon
<1>4. CASE ~(on /\ wants_word(ch))
  <2>1. dma_step_slot(ch, on) = ch /\ dma_step_slot(t, on) = t
    BY <1>2, <1>4, Zenon DEF dma_step_slot
  <2> QED
    BY <1>1, <2>1, Zenon
<1> QED
  BY <1>3, <1>4

(* A step up to the end of the period.                                     *)
LEMMA ShortStep ==
    ASSUME NEW x \in Playing, NEW on \in BOOLEAN, runs(x, on),
           NEW p \in Nat \ {0}, NEW l \in Nat \ {0}, period(x) = p, counter(x) = l,
           NEW k \in Nat, k <= l
    PROVE  step_channel(x, on, k) =
              IF k < l THEN Timed(x, p, l - k) ELSE Timed(take_sample(x), p, p)
<1>1. step_channel(x, on, k) = Timed(taken(x, elapsed(x, on, k)), p, left_over(x, k))
  BY Zenon DEF step_channel, Timed
<1>2. taken(x, 0) = x /\ taken(x, 0 + 1) = take_sample(taken(x, 0))
  BY TakenSteps
<1>3. CASE k < l
  <2>1. elapsed(x, on, k) = 0 /\ left_over(x, k) = l - k
    BY <1>3, Zenon DEF elapsed, left_over
  <2> QED
    BY <1>1, <1>2, <1>3, <2>1, Zenon
<1>4. CASE ~(k < l)
  <2>1. k - l = 0 /\ 1 + 0 = 0 + 1 /\ p - 0 = p
    BY <1>4
  <2>2. 0 \div p = 0 /\ 0 % p = 0
    <3>1. 0 \in 0..(p - 1) /\ 0 = p * 0 + 0
      OBVIOUS
    <3> QED
      BY <3>1, DivUnique
  <2>3. elapsed(x, on, k) = 1 + (k - l) \div p /\ left_over(x, k) = p - ((k - l) % p)
    BY <1>4, Zenon DEF elapsed, left_over
  <2>4. elapsed(x, on, k) = 0 + 1 /\ left_over(x, k) = p
    BY <2>1, <2>2, <2>3, Zenon
  <2> QED
    BY <1>1, <1>2, <1>4, <2>4, Zenon
<1> QED
  BY <1>3, <1>4

LEMMA TimedTwice ==
    ASSUME NEW ch \in Channel, NEW p, NEW l, NEW m
    PROVE  Timed(Timed(ch, p, l), p, m) = Timed(ch, p, m)
BY RecordTwice, Zenon DEF Timed

LEMMA CutStep ==
    ASSUME NEW ch, ChannelOK(ch), NEW on \in BOOLEAN, runs(ch, on),
           NEW n \in Nat, NEW m \in 1..(n - 1), n <= counter(ch),
           NEW first \in BOOLEAN, NEW second \in BOOLEAN
    PROVE  chipset_step(chipset_step(ch, on, first, m), on, second, n - m)
              = chipset_step(ch, on, first \/ second, n)
<1> DEFINE D(came, x) == IF came THEN dma_step_slot(x, on) ELSE x
<1>1. PICK p, l : p = period(ch) /\ l = counter(ch)
  OBVIOUS
<1>2. p \in Nat \ {0} /\ l \in Nat \ {0}
  BY <1>1, CounterType, PeriodMaxType
<1>3. /\ m \in Nat /\ n - m \in Nat /\ m < l /\ m <= l /\ n <= l /\ l - m \in Nat \ {0}
      /\ n - m <= l - m /\ (n - m < l - m <=> n < l) /\ (l - m) - (n - m) = l - n
      /\ l - n \in Nat
  BY <1>1, <1>2
<1>4. ch \in Channel /\ Plays(ch)
  BY Zenon DEF ChannelOK
<1>5. ASSUME NEW came \in BOOLEAN
      PROVE  /\ D(came, ch) \in Playing /\ D(came, ch) \in Channel /\ runs(D(came, ch), on)
             /\ period(D(came, ch)) = p /\ counter(D(came, ch)) = l
  <2>1. PICK x : x = D(came, ch)
    OBVIOUS
  <2>2. /\ x \in Channel /\ Plays(x) /\ x.audper = ch.audper
        /\ x.period_counter = ch.period_counter /\ x.data_pending = ch.data_pending
    BY <1>2, <1>4, <2>1, SlotCommutes
  <2>3. period(x) = p /\ counter(x) = l /\ runs(x, on)
    BY <1>1, <2>2, Zenon DEF period, counter, runs
  <2> QED
    BY <2>1, <2>2, <2>3, Zenon DEF Playing
<1>6. PICK x, y, z : /\ x = D(first, ch) /\ y = Timed(x, p, l - m) /\ z = D(first \/ second, ch)
  OBVIOUS
<1>7. /\ x \in Playing /\ x \in Channel /\ runs(x, on) /\ period(x) = p /\ counter(x) = l
      /\ z \in Playing /\ z \in Channel /\ runs(z, on) /\ period(z) = p /\ counter(z) = l
  BY <1>5, <1>6
<1>8. chipset_step(ch, on, first, m) = y
  <2>1. step_channel(x, on, m) = y
    BY <1>2, <1>3, <1>6, <1>7, ShortStep
  <2> QED
    BY <1>6, <2>1, Zenon DEF chipset_step
<1>9. D(second, y) = Timed(z, p, l - m)
  <2>1. CASE second
    <3>1. dma_step_slot(y, on) = Timed(dma_step_slot(x, on), p, l - m)
      <4>1. Plays(x) /\ p \in Nat /\ l - m \in Nat
        BY <1>2, <1>3, <1>7 DEF Playing
      <4> QED
        BY <1>6, <1>7, <4>1, SlotCommutes
    <3>2. dma_step_slot(x, on) = z
      <4>1. dma_step_slot(dma_step_slot(ch, on), on) = dma_step_slot(ch, on)
        BY <1>2, <1>4, SlotCommutes
      <4> QED
        BY <1>6, <2>1, <4>1, Zenon
    <3> QED
      BY <2>1, <3>1, <3>2, Zenon
  <2>2. CASE ~second
    <3>1. z = x
      BY <1>6, <2>2, Zenon
    <3> QED
      BY <1>6, <2>2, <3>1, Zenon
  <2> QED
    BY <2>1, <2>2
<1>10. PICK t : t = Timed(z, p, l - m)
  OBVIOUS
<1>11. t \in Playing /\ runs(t, on) /\ period(t) = p /\ counter(t) = l - m
  <2>1. /\ t \in Channel /\ t.audper = p /\ t.period_counter = l - m
        /\ t.data_pending = z.data_pending /\ t.fetched = z.fetched /\ t.played = z.played
        /\ t.has_pending_lo = z.has_pending_lo /\ t.pending_lo = z.pending_lo
        /\ t.dma_word_ready = z.dma_word_ready /\ t.dma_word = z.dma_word
    <3>1. PICK k : k = l - m
      OBVIOUS
    <3>2. z \in Channel /\ p \in Nat /\ k \in Nat
      BY <1>2, <1>3, <1>7, <3>1
    <3>3. t = Timed(z, p, k)
      BY <1>10, <3>1
    <3>4. /\ t \in Channel /\ t.audper = p /\ t.period_counter = k
          /\ t.data_pending = z.data_pending /\ t.fetched = z.fetched /\ t.played = z.played
          /\ t.has_pending_lo = z.has_pending_lo /\ t.pending_lo = z.pending_lo
          /\ t.dma_word_ready = z.dma_word_ready /\ t.dma_word = z.dma_word
      BY <3>2, <3>3, Zenon DEF Timed, Channel
    <3> QED
      BY <3>1, <3>4, Zenon
  <2>2. Plays(t)
    BY <1>7, <2>1, Zenon DEF Playing, Plays, Held
  <2>3. period(t) = p /\ counter(t) = l - m
    BY <1>2, <1>3, <2>1 DEF period, counter
  <2>4. runs(t, on)
    BY <1>7, <2>1, Zenon DEF runs
  <2> QED
    BY <2>1, <2>2, <2>3, <2>4, Zenon DEF Playing
<1>12. step_channel(t, on, n - m) = step_channel(z, on, n)
  <2>1. step_channel(t, on, n - m) = IF n - m < l - m THEN Timed(t, p, (l - m) - (n - m))
                                     ELSE Timed(take_sample(t), p, p)
    BY <1>2, <1>3, <1>11, ShortStep
  <2>2. step_channel(z, on, n) = IF n < l THEN Timed(z, p, l - n)
                                 ELSE Timed(take_sample(z), p, p)
    BY <1>2, <1>3, <1>7, ShortStep
  <2>3. Timed(t, p, l - n) = Timed(z, p, l - n)
    BY <1>7, <1>10, TimedTwice
  <2>4. Timed(take_sample(t), p, p) = Timed(take_sample(z), p, p)
    <3>1. take_sample(t) = Timed(take_sample(z), p, l - m)
      BY <1>2, <1>3, <1>7, <1>10, TakeCommutes
    <3>2. take_sample(z) \in Channel
      <4>1. z \in Channel /\ Plays(z)
        BY <1>7, Zenon DEF Playing
      <4> QED
        BY <4>1, TakeKeeps
    <3>3. PICK u : u = take_sample(z)
      OBVIOUS
    <3>4. Timed(Timed(u, p, l - m), p, p) = Timed(u, p, p)
      BY <3>2, <3>3, TimedTwice
    <3> QED
      BY <3>1, <3>3, <3>4, Zenon
  <2>5. CASE n < l
    <3>1. step_channel(t, on, n - m) = Timed(t, p, l - n)
      BY <1>3, <2>1, <2>5, Zenon
    <3>2. step_channel(z, on, n) = Timed(z, p, l - n)
      BY <2>2, <2>5, Zenon
    <3> QED
      BY <2>3, <3>1, <3>2, Zenon
  <2>6. CASE ~(n < l)
    <3>1. step_channel(t, on, n - m) = Timed(take_sample(t), p, p)
      BY <1>3, <2>1, <2>6, Zenon
    <3>2. step_channel(z, on, n) = Timed(take_sample(z), p, p)
      BY <2>2, <2>6, Zenon
    <3> QED
      BY <2>4, <3>1, <3>2, Zenon
  <2> QED
    BY <2>5, <2>6
<1>13. chipset_step(ch, on, first \/ second, n) = step_channel(z, on, n)
  BY <1>6, Zenon DEF chipset_step
<1>14. chipset_step(y, on, second, n - m) = step_channel(t, on, n - m)
  BY <1>9, <1>10, Zenon DEF chipset_step
<1> QED
  BY <1>8, <1>12, <1>13, <1>14, Zenon

(* The deadline is not beyond the counter of any channel that runs.        *)
LEMMA DeadlineBounds ==
    ASSUME AudInv
    PROVE  /\ cycles_to_next_event \in Nat
           /\ \A c \in Channels : runs(aud[c], On(c)) => cycles_to_next_event <= counter(aud[c])
<1> DEFINE S == candidates(auden \cup {x \in Channels : aud[x].data_pending})
                  \cup {NoEvent}
<1>1. \A x \in Channels : ChannelOK(aud[x])
  BY Zenon DEF AudInv
<1>2. \A x \in Channels : counter(aud[x]) \in Nat
  <2> SUFFICES ASSUME NEW x \in Channels PROVE counter(aud[x]) \in Nat
    OBVIOUS
  <2>1. counter(aud[x]) \in 1..PeriodMax
    BY <1>1, CounterType
  <2> QED
    BY <2>1, PeriodMaxType
<1>3. NoEvent \in Nat
  BY DEF NoEvent
<1>4. S \in SUBSET Nat /\ S # {}
  BY <1>2, <1>3 DEF candidates
<1>5. PICK m \in S : \A y \in S : ~(y < m)
  BY <1>4, LeastNat
<1>6. cycles_to_next_event = least(S)
  BY Zenon DEF cycles_to_next_event
<1>7. ASSUME NEW c \in Channels, runs(aud[c], On(c)) PROVE counter(aud[c]) \in S
  <2>1. c \in auden \/ aud[c].data_pending
    BY <1>7, Zenon DEF runs, On
  <2> QED
    BY <2>1, Zenon DEF candidates
<1> HIDE DEF S
<1>8. \A x \in S : m <= x
  BY <1>4, <1>5
<1>9. least(S) \in S /\ \A x \in S : least(S) <= x
  BY <1>5, <1>8, Zenon DEF least
<1> QED
  BY <1>4, <1>6, <1>7, <1>9, Zenon

LEMMA AudDeadline == AudInv => AudioDeadlineSafe
<1> SUFFICES ASSUME AudInv, NEW c \in Channels, NEW n \in 1..MaxAudStep,
                    elapsed(aud[c], On(c), n) > 0
             PROVE  n >= cycles_to_next_event
  BY DEF AudioDeadlineSafe
<1>1. PICK d, x : d = cycles_to_next_event /\ x = counter(aud[c])
  OBVIOUS
<1>2. runs(aud[c], On(c)) /\ ~(n < x)
  <2>1. 0 > 0 <=> FALSE
    OBVIOUS
  <2> QED
    BY <1>1, <2>1, Zenon DEF elapsed
<1>3. d \in Nat /\ d <= x
  BY <1>1, <1>2, DeadlineBounds, Zenon
<1>4. x \in Nat
  <2>1. ChannelOK(aud[c])
    BY Zenon DEF AudInv
  <2> QED
    BY <1>1, <2>1, CounterType, PeriodMaxType
<1> QED
  BY <1>1, <1>2, <1>3, <1>4

LEMMA AudCuts == AudInv => CutsInaudible
<1> SUFFICES ASSUME AudInv, NEW c \in Channels, NEW n \in 1..MaxAudStep,
                    n <= cycles_to_next_event, NEW m \in 1..(n - 1),
                    NEW first \in BOOLEAN, NEW second \in BOOLEAN
             PROVE  chipset_step(chipset_step(aud[c], On(c), first, m), On(c), second, n - m)
                       = chipset_step(aud[c], On(c), first \/ second, n)
  BY Zenon DEF CutsInaudible
<1>1. PICK ch, on, d : ch = aud[c] /\ on = On(c) /\ d = cycles_to_next_event
  OBVIOUS
<1>2. ChannelOK(ch) /\ on \in BOOLEAN
  <2>1. ChannelOK(ch)
    BY <1>1, Zenon DEF AudInv
  <2>2. on = (c \in auden)
    BY <1>1, Zenon DEF On
  <2> QED
    BY <2>1, <2>2
<1>3. chipset_step(chipset_step(ch, on, first, m), on, second, n - m)
        = chipset_step(ch, on, first \/ second, n)
  <2>1. CASE runs(ch, on)
    <3>1. d \in Nat /\ d <= counter(ch)
      BY <1>1, <2>1, DeadlineBounds, Zenon
    <3>2. counter(ch) \in Nat
      BY <1>2, CounterType, PeriodMaxType
    <3>3. n \in Nat /\ n <= counter(ch)
      BY <1>1, <3>1, <3>2
    <3> QED
      BY <1>2, <2>1, <3>3, CutStep
  <2>2. CASE ~runs(ch, on)
    <3>1. ASSUME NEW came \in BOOLEAN, NEW k PROVE chipset_step(ch, on, came, k) = ch
      <4>1. dma_step_slot(ch, on) = ch
        BY <2>2, Zenon DEF runs, dma_step_slot
      <4> QED
        BY <2>2, <4>1, Zenon DEF chipset_step, step_channel
    <3>2. (first \/ second) \in BOOLEAN
      OBVIOUS
    <3> QED
      BY <3>1, <3>2, Zenon
  <2> QED
    BY <2>1, <2>2
<1> QED
  BY <1>1, <1>3, Zenon

(* For every number of channels and all register values: a channel with    *)
(* DMA is left in the same state by one audio_step of n clocks as by n of  *)
(* one clock without a slot in between; up to the deadline that            *)
(* audio_cycles_to_next_event offers the host, one rigel_step, slots and   *)
(* samples together, does what two do wherever it is cut                   *)
(* (rigel_chipset_step); and no sample falls due before that deadline.     *)
THEOREM AudioTimeIsExact == AudioSpec => []AudioTimeExact
<1>1. AudInv => AudioBatchEqualsTicks
  <2> SUFFICES ASSUME AudInv, NEW c \in auden, NEW n \in 1..MaxAudStep
               PROVE  step_channel(aud[c], TRUE, n) = Ticks(aud[c], n)
    BY Zenon DEF AudioBatchEqualsTicks, Ticks
  <2>1. ChannelOK(aud[c]) /\ n \in Nat \ {0}
    BY DEF AudInv, AudFrame
  <2> QED
    BY <2>1, BatchIsTicks
<1>2. AudInv => AudioTimeExact
  BY <1>1, AudCuts, AudDeadline, Zenon DEF AudioTimeExact
<1> QED
  BY <1>2, AudInvariant, PTL
=============================================================================
