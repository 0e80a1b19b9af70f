---------------------------- MODULE RasterProofs ----------------------------
(***************************************************************************)
(* Proofs about Pixels, ChipsetStep and Denise, in three parts.            *)
(*                                                                         *)
(* The picture of a line: merging the playfields and drawing the sprites   *)
(* from the back gives what the priority resolvers give, and no meeting of *)
(* two sprites or of the playfields is missed.                             *)
(*                                                                         *)
(* The chipset's steps: however the host cuts time into steps, and         *)
(* whatever the guest does to the raster, no E-clock is lost, VERTB comes  *)
(* once per frame, the CIAs' clocks get their pulses and the projection of *)
(* the beam is exact.                                                      *)
(*                                                                         *)
(* The display: the window follows the registers, collisions are kept      *)
(* until they are read, the buffers hold whole frames, fields alternate.   *)
(***************************************************************************)
EXTENDS ChipsetStep, Denise, SequenceTheorems, FiniteSetTheorems, Induction

-----------------------------------------------------------------------------
(* The picture of a line.                                                  *)

-----------------------------------------------------------------------------
(* The bits of a pixel value.                                              *)
Bits == {0, 1}

LEMMA BitIs ==
    ASSUME NEW v \in Nat
    PROVE  /\ PlaneBit(v, 0) = v % 2 /\ PlaneBit(v, 1) = (v \div 2) % 2
           /\ PlaneBit(v, 2) = (v \div 4) % 2 /\ PlaneBit(v, 3) = (v \div 8) % 2
           /\ PlaneBit(v, 4) = (v \div 16) % 2 /\ PlaneBit(v, 5) = (v \div 32) % 2
<1>1. /\ 2^0 = 1 /\ 2^1 = 2 /\ 2^2 = 4 /\ 2^3 = 8 /\ 2^4 = 16 /\ 2^5 = 32
  OBVIOUS
<1>2. v \div 1 = v
  OBVIOUS
<1> QED
  BY <1>1, <1>2, Zenon DEF PlaneBit

LEMMA BitsAreBits ==
    ASSUME NEW v \in Nat, NEW p \in 0..5
    PROVE  PlaneBit(v, p) \in Bits
<1>1. p = 0 \/ p = 1 \/ p = 2 \/ p = 3 \/ p = 4 \/ p = 5
  OBVIOUS
<1>2. /\ v % 2 \in Bits /\ (v \div 2) % 2 \in Bits /\ (v \div 4) % 2 \in Bits
      /\ (v \div 8) % 2 \in Bits /\ (v \div 16) % 2 \in Bits /\ (v \div 32) % 2 \in Bits
  BY DEF Bits
<1> QED
  BY <1>1, <1>2, BitIs, ZenonT(60)

Sum6(b0, b1, b2, b3, b4, b5) == b0 + 2 * b1 + 4 * b2 + 8 * b3 + 16 * b4 + 32 * b5

HasBits(v, b0, b1, b2, b3, b4, b5) ==
    /\ v \in 0..63
    /\ PlaneBit(v, 0) = b0 /\ PlaneBit(v, 1) = b1 /\ PlaneBit(v, 2) = b2
    /\ PlaneBit(v, 3) = b3 /\ PlaneBit(v, 4) = b4 /\ PlaneBit(v, 5) = b5

LEMMA SumBits ==
    ASSUME NEW b0 \in Bits, NEW b1 \in Bits, NEW b2 \in Bits, NEW b3 \in Bits,
           NEW b4 \in Bits, NEW b5 \in Bits
    PROVE  HasBits(Sum6(b0, b1, b2, b3, b4, b5), b0, b1, b2, b3, b4, b5)
<1>0. PICK v : v = Sum6(b0, b1, b2, b3, b4, b5)
  OBVIOUS
<1>1. v \in 0..63
  BY <1>0 DEF Sum6, Bits
<1>2. v % 2 = b0 /\ (v \div 2) % 2 = b1 /\ (v \div 4) % 2 = b2
  BY <1>0 DEF Sum6, Bits
<1>3. (v \div 8) % 2 = b3 /\ (v \div 16) % 2 = b4 /\ (v \div 32) % 2 = b5
  BY <1>0 DEF Sum6, Bits
<1>4. v \in Nat
  BY <1>1
<1>5. HasBits(v, b0, b1, b2, b3, b4, b5)
  BY <1>1, <1>2, <1>3, <1>4, BitIs, Zenon DEF HasBits
<1> QED
  BY <1>0, <1>5, Zenon

LEMMA OfBits ==
    ASSUME NEW v \in 0..63
    PROVE  v = Sum6(PlaneBit(v, 0), PlaneBit(v, 1), PlaneBit(v, 2), PlaneBit(v, 3),
                    PlaneBit(v, 4), PlaneBit(v, 5))
<1>1. v \div 32 \in Bits /\ (v \div 32) % 2 = v \div 32
  BY DEF Bits
<1>2. v = 32 * (v \div 32) + (v % 32) /\ v % 32 = 16 * ((v \div 16) % 2) + (v % 16)
  OBVIOUS
<1>3. v % 16 = 8 * ((v \div 8) % 2) + (v % 8) /\ v % 8 = 4 * ((v \div 4) % 2) + (v % 4)
  OBVIOUS
<1>4. v % 4 = 2 * ((v \div 2) % 2) + (v % 2)
  OBVIOUS
<1>5. v = Sum6(v % 2, (v \div 2) % 2, (v \div 4) % 2, (v \div 8) % 2, (v \div 16) % 2,
               (v \div 32) % 2)
  BY <1>1, <1>2, <1>3, <1>4 DEF Sum6
<1>6. v \in Nat
  OBVIOUS
<1> QED
  BY <1>5, <1>6, BitIs, Zenon

(* The planes that are on keep their bits, the others have none.           *)
LEMMA DepthBits ==
    ASSUME NEW v \in Nat, NEW d \in 1..6
    PROVE  /\ OfDepth(v, d) \in 0..63
           /\ \A p \in 0..5 : PlaneBit(OfDepth(v, d), p) = IF p < d THEN PlaneBit(v, p) ELSE 0
<1> DEFINE Kept(m, e) == /\ v % m \in 0..63
              /\ (v % m) % 2 = (IF 0 < e THEN v % 2 ELSE 0)
              /\ ((v % m) \div 2) % 2 = (IF 1 < e THEN (v \div 2) % 2 ELSE 0)
              /\ ((v % m) \div 4) % 2 = (IF 2 < e THEN (v \div 4) % 2 ELSE 0)
              /\ ((v % m) \div 8) % 2 = (IF 3 < e THEN (v \div 8) % 2 ELSE 0)
              /\ ((v % m) \div 16) % 2 = (IF 4 < e THEN (v \div 16) % 2 ELSE 0)
              /\ ((v % m) \div 32) % 2 = (IF 5 < e THEN (v \div 32) % 2 ELSE 0)
<1>1. Kept(2, 1) /\ Kept(4, 2) /\ Kept(8, 3)
  OBVIOUS
<1>2. Kept(16, 4)
  OBVIOUS
<1>3. Kept(32, 5)
  OBVIOUS
<1>4. Kept(64, 6)
  OBVIOUS
<1>5. \E m : 2^d = m /\ Kept(m, d)
  <2>1. 2^1 = 2 /\ 2^2 = 4 /\ 2^3 = 8 /\ 2^4 = 16 /\ 2^5 = 32 /\ 2^6 = 64
    OBVIOUS
  <2>2. d = 1 \/ d = 2 \/ d = 3 \/ d = 4 \/ d = 5 \/ d = 6
    OBVIOUS
  <2>3. /\ Kept(2, 1) /\ Kept(4, 2) /\ Kept(8, 3) /\ Kept(16, 4) /\ Kept(32, 5) /\ Kept(64, 6)
    BY <1>1, <1>2, <1>3, <1>4, Zenon
  <2> HIDE DEF Kept
  <2>4. CASE d = 1
    BY <2>1, <2>3, <2>4, Zenon
  <2>5. CASE d = 2
    BY <2>1, <2>3, <2>5, Zenon
  <2>6. CASE d = 3
    BY <2>1, <2>3, <2>6, Zenon
  <2>7. CASE d = 4
    BY <2>1, <2>3, <2>7, Zenon
  <2>8. CASE d = 5
    BY <2>1, <2>3, <2>8, Zenon
  <2>9. CASE d = 6
    BY <2>1, <2>3, <2>9, Zenon
  <2> QED
    BY <2>2, <2>4, <2>5, <2>6, <2>7, <2>8, <2>9, Zenon
<1>6. PICK m : 2^d = m /\ Kept(m, d)
  BY <1>5
<1>7. PICK u : u = OfDepth(v, d)
  OBVIOUS
<1>8. u = v % m
  BY <1>6, <1>7, Zenon DEF OfDepth
<1>9. u \in 0..63 /\ u \in Nat
  <2>1. v % m \in 0..63
    BY <1>6
  <2> QED
    BY <1>8, <2>1
<1>10. ASSUME NEW p \in 0..5 PROVE PlaneBit(u, p) = IF p < d THEN PlaneBit(v, p) ELSE 0
  <2>1. p = 0 \/ p = 1 \/ p = 2 \/ p = 3 \/ p = 4 \/ p = 5
    OBVIOUS
  <2> QED
    BY <1>6, <1>8, <1>9, <2>1, BitIs, ZenonT(60)
<1> QED
  BY <1>7, <1>9, <1>10, Zenon

-----------------------------------------------------------------------------
(* A line and where its pixels go: the pixel that a delay of s shows at x. *)
LineRec == [px: Seq(Nat), con: Control, sprites: [0..7 -> Sprite], pal: Palette,
            win: SUBSET Int, ddf: Nat, wide: BOOLEAN, y: Nat]

Pos(l, x, s) == x - origin(l) - s * hscale(l.con) + 1

Value(l, n) == OfDepth(l.px[n], l.con.depth)

PlaneAt(l, x, p) ==
    LET src == x - (IF p % 2 = 0 THEN l.con.scroll1 ELSE l.con.scroll2) * hscale(l.con)
                 - origin(l)
    IN IF p < l.con.depth /\ src \in 0..(Len(l.px) - 1)
       THEN PlaneBit(l.px[src + 1], p) ELSE 0

LEMMA LineFields ==
    ASSUME NEW l \in LineRec
    PROVE  /\ l.px \in Seq(Nat) /\ l.con \in Control /\ l.sprites \in [0..7 -> Sprite]
           /\ l.pal \in Palette /\ l.win \in SUBSET Int /\ l.ddf \in Nat
           /\ l.wide \in BOOLEAN /\ l.y \in Nat
           /\ Len(l.px) \in Nat /\ \A n \in 1..Len(l.px) : l.px[n] \in Nat
<1>1. /\ l.px \in Seq(Nat) /\ l.con \in Control /\ l.sprites \in [0..7 -> Sprite]
      /\ l.pal \in Palette /\ l.win \in SUBSET Int /\ l.ddf \in Nat
      /\ l.wide \in BOOLEAN /\ l.y \in Nat
  BY Zenon DEF LineRec
<1>2. PICK q \in Seq(Nat) : q = l.px
  BY <1>1
<1>3. Len(q) \in Nat /\ \A n \in 1..Len(q) : q[n] \in Nat
  BY <1>2, ElementOfSeq, LenProperties
<1> QED
  BY <1>1, <1>2, <1>3, Zenon

LEMMA ConFields ==
    ASSUME NEW c \in Control
    PROVE  /\ c.depth \in 0..7 /\ c.hires \in BOOLEAN /\ c.ham \in BOOLEAN /\ c.dual \in BOOLEAN
           /\ c.lace \in BOOLEAN /\ c.color \in BOOLEAN
           /\ c.scroll1 \in 0..MaxScroll /\ c.scroll2 \in 0..MaxScroll
           /\ c.pf1p \in 0..7 /\ c.pf2p \in 0..7 /\ c.bit6 \in BOOLEAN
           /\ hscale(c) \in {1, 2}
<1>1. /\ c.depth \in 0..7 /\ c.hires \in BOOLEAN /\ c.ham \in BOOLEAN /\ c.dual \in BOOLEAN
      /\ c.lace \in BOOLEAN /\ c.color \in BOOLEAN
      /\ c.scroll1 \in 0..MaxScroll /\ c.scroll2 \in 0..MaxScroll
      /\ c.pf1p \in 0..7 /\ c.pf2p \in 0..7 /\ c.bit6 \in BOOLEAN
  BY Zenon DEF Control
<1>2. hscale(c) \in {1, 2}
  BY DEF hscale
<1> QED
  BY <1>1, <1>2

LEMMA OriginNat ==
    ASSUME NEW l \in LineRec
    PROVE  origin(l) \in Nat
<1>1. l.con \in Control /\ l.ddf \in Nat
  BY LineFields, Zenon
<1>2. hscale(l.con) \in {1, 2}
  BY <1>1, ConFields, Zenon
<1>3. PICK lead \in Nat : lead = IF l.con.hires THEN LeadHires ELSE LeadLores
  BY PixelsAssumption
<1>4. origin(l) = (l.ddf + lead) * hscale(l.con)
  BY <1>3, Zenon DEF origin
<1>5. (l.ddf + lead) * 1 \in Nat /\ (l.ddf + lead) * 2 \in Nat
  BY <1>1, <1>3
<1> QED
  BY <1>2, <1>4, <1>5, Zenon

(* Delays are whole numbers of pixels.                                     *)
LEMMA PosInt ==
    ASSUME NEW l \in LineRec, NEW x \in Int, NEW s \in 0..MaxScroll
    PROVE  /\ Pos(l, x, s) \in Int /\ s * hscale(l.con) \in Nat
           /\ s * hscale(l.con) <= MaxScroll * hscale(l.con)
           /\ x - s * hscale(l.con) - origin(l) = Pos(l, x, s) - 1
<1>1. hscale(l.con) \in {1, 2} /\ origin(l) \in Nat
  BY LineFields, ConFields, OriginNat, Zenon
<1>2. PICK h \in {1, 2} : h = hscale(l.con)
  BY <1>1
<1>3. PICK o \in Nat : o = origin(l)
  BY <1>1
<1>4. s * h \in Nat /\ s * h <= MaxScroll * h
  BY PixelsAssumption
<1>5. x - o - s * h + 1 \in Int /\ x - s * h - o = (x - o - s * h + 1) - 1
  BY <1>4
<1> QED
  BY <1>2, <1>3, <1>4, <1>5, Zenon DEF Pos

LEMMA PlaneIsBit ==
    ASSUME NEW l \in LineRec, l.con.depth \in 1..6, NEW x \in Int, NEW p \in 0..5,
           NEW s, s = IF p % 2 = 0 THEN l.con.scroll1 ELSE l.con.scroll2
    PROVE  /\ PlaneAt(l, x, p) \in Bits
           /\ PlaneAt(l, x, p) = IF Pos(l, x, s) \in 1..Len(l.px)
                                 THEN PlaneBit(Value(l, Pos(l, x, s)), p) ELSE 0
<1>1. s \in 0..MaxScroll /\ Len(l.px) \in Nat /\ \A n \in 1..Len(l.px) : l.px[n] \in Nat
  BY LineFields, ConFields, Zenon
<1>2. PICK n \in Int : n = Pos(l, x, s)
  BY <1>1, PosInt
<1>3. x - s * hscale(l.con) - origin(l) = n - 1
  BY <1>1, <1>2, PosInt
<1>4. PlaneAt(l, x, p) = IF p < l.con.depth /\ n - 1 \in 0..(Len(l.px) - 1)
                         THEN PlaneBit(l.px[(n - 1) + 1], p) ELSE 0
  BY <1>3, Zenon DEF PlaneAt
<1>5. n - 1 \in 0..(Len(l.px) - 1) <=> n \in 1..Len(l.px)
  BY <1>1, <1>2
<1>6. (n - 1) + 1 = n
  BY <1>2
<1>7. PlaneAt(l, x, p) = IF p < l.con.depth /\ n \in 1..Len(l.px)
                         THEN PlaneBit(l.px[n], p) ELSE 0
  BY <1>4, <1>5, <1>6, Zenon
<1>8. CASE n \in 1..Len(l.px)
  <2>1. PICK v \in Nat : v = l.px[n]
    BY <1>1, <1>8
  <2>2. PlaneBit(OfDepth(v, l.con.depth), p) = IF p < l.con.depth THEN PlaneBit(v, p) ELSE 0
    BY DepthBits
  <2>3. PlaneBit(v, p) \in Bits
    BY BitsAreBits
  <2> QED
    BY <1>2, <1>7, <1>8, <2>1, <2>2, <2>3, Zenon DEF Value, Bits
<1>9. CASE n \notin 1..Len(l.px)
  BY <1>2, <1>7, <1>9, Zenon DEF Bits
<1> QED
  BY <1>8, <1>9

LEMMA PlanesAt ==
    ASSUME NEW l \in LineRec, l.con.depth \in 1..6, NEW x \in Int, NEW v, v = planes_at(l, x)
    PROVE  /\ v \in 0..63
           /\ v = Sum6(PlaneAt(l, x, 0), PlaneAt(l, x, 1), PlaneAt(l, x, 2), PlaneAt(l, x, 3),
                       PlaneAt(l, x, 4), PlaneAt(l, x, 5))
           /\ \A p \in 0..5 : PlaneBit(v, p) = PlaneAt(l, x, p)
<1>1. \A p \in 0..5 : PlaneAt(l, x, p) \in Bits
  BY PlaneIsBit
<1>2. 0 \in 0..5 /\ 1 \in 0..5 /\ 2 \in 0..5 /\ 3 \in 0..5 /\ 4 \in 0..5 /\ 5 \in 0..5
  OBVIOUS
<1>3. v = Sum6(PlaneAt(l, x, 0), PlaneAt(l, x, 1), PlaneAt(l, x, 2), PlaneAt(l, x, 3),
               PlaneAt(l, x, 4), PlaneAt(l, x, 5))
  BY Zenon DEF planes_at, PlaneAt, Sum6
<1>4. PICK b0 \in Bits : b0 = PlaneAt(l, x, 0)
  BY <1>1, <1>2, Zenon
<1>5. PICK b1 \in Bits : b1 = PlaneAt(l, x, 1)
  BY <1>1, <1>2, Zenon
<1>6. PICK b2 \in Bits : b2 = PlaneAt(l, x, 2)
  BY <1>1, <1>2, Zenon
<1>7. PICK b3 \in Bits : b3 = PlaneAt(l, x, 3)
  BY <1>1, <1>2, Zenon
<1>8. PICK b4 \in Bits : b4 = PlaneAt(l, x, 4)
  BY <1>1, <1>2, Zenon
<1>9. PICK b5 \in Bits : b5 = PlaneAt(l, x, 5)
  BY <1>1, <1>2, Zenon
<1>10. v = Sum6(b0, b1, b2, b3, b4, b5)
  BY <1>3, <1>4, <1>5, <1>6, <1>7, <1>8, <1>9, Zenon
<1>11. /\ v \in 0..63
       /\ PlaneBit(v, 0) = b0 /\ PlaneBit(v, 1) = b1 /\ PlaneBit(v, 2) = b2
       /\ PlaneBit(v, 3) = b3 /\ PlaneBit(v, 4) = b4 /\ PlaneBit(v, 5) = b5
  <2>1. HasBits(Sum6(b0, b1, b2, b3, b4, b5), b0, b1, b2, b3, b4, b5)
    BY SumBits, Zenon
  <2> QED
    BY <1>10, <2>1, Zenon DEF HasBits
<1>12. ASSUME NEW p \in 0..5 PROVE PlaneBit(v, p) = PlaneAt(l, x, p)
  <2>1. p = 0 \/ p = 1 \/ p = 2 \/ p = 3 \/ p = 4 \/ p = 5
    OBVIOUS
  <2> QED
    BY <1>4, <1>5, <1>6, <1>7, <1>8, <1>9, <1>11, <2>1, Zenon
<1> QED
  BY <1>3, <1>11, <1>12, Zenon

(* The two playfields of a dual line at a pixel, each with its delay.      *)
LEMMA DualDecoded ==
    ASSUME NEW l \in LineRec, l.con.depth \in 1..6, NEW x \in Int,
           NEW n1, n1 = Pos(l, x, l.con.scroll1), NEW n2, n2 = Pos(l, x, l.con.scroll2),
           NEW d, d = dualpf_decode(planes_at(l, x))
    PROVE  /\ d.pf1 = IF n1 \in 1..Len(l.px) THEN dualpf_decode(Value(l, n1)).pf1 ELSE 0
           /\ d.pf2 = IF n2 \in 1..Len(l.px) THEN dualpf_decode(Value(l, n2)).pf2 ELSE 0
<1>1. PICK v : v = planes_at(l, x)
  OBVIOUS
<1>2. \A p \in 0..5 : PlaneBit(v, p) = PlaneAt(l, x, p)
  BY <1>1, PlanesAt
<1>3. \A p \in {0, 2, 4} : p \in 0..5 /\ p % 2 = 0
  OBVIOUS
<1>4. \A p \in {1, 3, 5} : p \in 0..5 /\ p % 2 # 0
  OBVIOUS
<1>5. \A p \in {0, 2, 4} : PlaneBit(v, p) = IF n1 \in 1..Len(l.px)
                                            THEN PlaneBit(Value(l, n1), p) ELSE 0
  BY <1>2, <1>3, PlaneIsBit, Zenon
<1>6. \A p \in {1, 3, 5} : PlaneBit(v, p) = IF n2 \in 1..Len(l.px)
                                            THEN PlaneBit(Value(l, n2), p) ELSE 0
  BY <1>2, <1>4, PlaneIsBit, Zenon
<1> DEFINE One(u) == PlaneBit(u, 0) + 2 * PlaneBit(u, 2) + 4 * PlaneBit(u, 4)
           Two(u) == PlaneBit(u, 1) + 2 * PlaneBit(u, 3) + 4 * PlaneBit(u, 5)
<1>7. \A u : dualpf_decode(u) = [pf1 |-> One(u), pf2 |-> IF Two(u) = 0 THEN 0 ELSE Two(u) + 8]
  BY Zenon DEF dualpf_decode
<1>8. One(v) = IF n1 \in 1..Len(l.px) THEN One(Value(l, n1)) ELSE 0
  <2>1. CASE n1 \in 1..Len(l.px)
    BY <1>5, <2>1, Zenon
  <2>2. CASE n1 \notin 1..Len(l.px)
    <3>1. PlaneBit(v, 0) = 0 /\ PlaneBit(v, 2) = 0 /\ PlaneBit(v, 4) = 0
      BY <1>5, <2>2, Zenon
    <3> QED
      BY <2>2, <3>1
  <2> QED
    BY <2>1, <2>2
<1>9. Two(v) = IF n2 \in 1..Len(l.px) THEN Two(Value(l, n2)) ELSE 0
  <2>1. CASE n2 \in 1..Len(l.px)
    BY <1>6, <2>1, Zenon
  <2>2. CASE n2 \notin 1..Len(l.px)
    <3>1. PlaneBit(v, 1) = 0 /\ PlaneBit(v, 3) = 0 /\ PlaneBit(v, 5) = 0
      BY <1>6, <2>2, Zenon
    <3> QED
      BY <2>2, <3>1
  <2> QED
    BY <2>1, <2>2
<1> HIDE DEF One, Two
<1>10. \A u : dualpf_decode(u).pf1 = One(u) /\
              dualpf_decode(u).pf2 = IF Two(u) = 0 THEN 0 ELSE Two(u) + 8
  BY <1>7
<1> QED
  BY <1>1, <1>8, <1>9, <1>10, Zenon

(* The single playfield when both delays are the same.                     *)
LEMMA EvenPlanes ==
    ASSUME NEW l \in LineRec, l.con.depth \in 1..6, l.con.scroll1 = l.con.scroll2,
           NEW x \in Int, NEW n, n = Pos(l, x, l.con.scroll1)
    PROVE  planes_at(l, x) = IF n \in 1..Len(l.px) THEN Value(l, n) ELSE 0
<1>1. PICK v : v = planes_at(l, x)
  OBVIOUS
<1>2. /\ v \in 0..63
      /\ \A p \in 0..5 : PlaneBit(v, p) = PlaneAt(l, x, p)
  BY <1>1, PlanesAt
<1>3. \A p \in 0..5 : PlaneBit(v, p) = IF n \in 1..Len(l.px) THEN PlaneBit(Value(l, n), p) ELSE 0
  BY <1>2, PlaneIsBit, Zenon
<1>4. 0 \in 0..5 /\ 1 \in 0..5 /\ 2 \in 0..5 /\ 3 \in 0..5 /\ 4 \in 0..5 /\ 5 \in 0..5
  OBVIOUS
<1>5. v = Sum6(PlaneBit(v, 0), PlaneBit(v, 1), PlaneBit(v, 2), PlaneBit(v, 3),
               PlaneBit(v, 4), PlaneBit(v, 5))
  BY <1>2, OfBits
<1>6. CASE n \in 1..Len(l.px)
  <2>1. Value(l, n) \in 0..63
    BY <1>6, LineFields, DepthBits DEF Value
  <2>2. PICK u \in 0..63 : u = Value(l, n)
    BY <2>1
  <2>3. u = Sum6(PlaneBit(u, 0), PlaneBit(u, 1), PlaneBit(u, 2), PlaneBit(u, 3),
                 PlaneBit(u, 4), PlaneBit(u, 5))
    BY OfBits
  <2> QED
    BY <1>1, <1>3, <1>4, <1>5, <1>6, <2>2, <2>3, Zenon
<1>7. CASE n \notin 1..Len(l.px)
  <2>1. v = Sum6(0, 0, 0, 0, 0, 0)
    BY <1>3, <1>4, <1>5, <1>7, Zenon
  <2>2. Sum6(0, 0, 0, 0, 0, 0) = 0
    BY DEF Sum6
  <2> QED
    BY <1>1, <1>7, <2>1, <2>2, Zenon
<1> QED
  BY <1>6, <1>7

-----------------------------------------------------------------------------
(* What the resolvers say of a pixel before the sprites.                   *)
Drawn(l, x) == x \in l.win /\ l.con.depth \in 1..6 /\ Len(l.px) > 0

HamAt(l, x) == Drawn(l, x) /\ l.con.ham /\ Pos(l, x, l.con.scroll1) \in 1..Len(l.px)

DualCon(con) == ~con.ham /\ con.dual

ResValue(l, x) == IF Drawn(l, x) THEN planes_at(l, x) ELSE 0

ResColor(l, x) ==
    CASE l.con.ham -> IF HamAt(l, x) THEN 255 ELSE 0
      [] DualCon(l.con) -> dualpf_priority_resolve(dualpf_decode(ResValue(l, x)), l.con)
      [] OTHER -> index_of(ResValue(l, x), l.con)

ResPrio(l, x) == IF DualCon(l.con) /\ ResColor(l, x) > 8 THEN l.con.pf2p ELSE l.con.pf1p

ResRgb(l, x) ==
    IF HamAt(l, x) THEN [c \in 1..3 |-> ham_channel(l, Pos(l, x, l.con.scroll1), c)]
    ELSE IF l.con.ham THEN l.pal[0]
    ELSE IF DualCon(l.con) THEN l.pal[ResColor(l, x)] ELSE color_of(ResColor(l, x), l)

LEMMA ResolvedIs ==
    ASSUME NEW l, NEW x
    PROVE  resolved_pixel(l, x) =
             LET sprite == priority_resolve(ResColor(l, x), ResPrio(l, x),
                                            [i \in 0..7 |-> sprite_index(l, i, x)])
             IN IF sprite < 8 THEN l.pal[sprite_index(l, sprite, x)] ELSE ResRgb(l, x)
BY Zenon DEF resolved_pixel, ResColor, ResPrio, ResRgb, ResValue, DualCon, HamAt, Drawn, Pos

(* A cell of the composed playfield is what the resolvers say.             *)
AgreeAt(l, c, x) ==
    /\ c.rgb = ResRgb(l, x) /\ c.color = ResColor(l, x) /\ c.prio = ResPrio(l, x)
    /\ x \in l.win => c.active = resolved_playfields(l, x)

LEMMA DecodeZero ==
    dualpf_decode(0).pf1 = 0 /\ dualpf_decode(0).pf2 = 0
<1>1. /\ PlaneBit(0, 0) = 0 /\ PlaneBit(0, 1) = 0 /\ PlaneBit(0, 2) = 0 /\ PlaneBit(0, 3) = 0
      /\ PlaneBit(0, 4) = 0 /\ PlaneBit(0, 5) = 0
  BY BitIs
<1> QED
  BY <1>1 DEF dualpf_decode

LEMMA ResolvedActive ==
    ASSUME NEW l, NEW x
    PROVE  resolved_playfields(l, x) =
             LET d == dualpf_decode(planes_at(l, x))
             IN IF ~(l.con.depth \in 1..6 /\ Len(l.px) > 0) THEN {}
                ELSE CASE l.con.ham -> IF Pos(l, x, l.con.scroll1) \in 1..Len(l.px) THEN {1} ELSE {}
                       [] ~l.con.ham /\ l.con.dual ->
                            {pf \in {1, 2} : (IF pf = 1 THEN d.pf1 ELSE d.pf2) # 0}
                       [] OTHER -> IF index_of(planes_at(l, x), l.con) # 0 THEN {1} ELSE {}
BY Zenon DEF resolved_playfields, Pos

LEMMA BackgroundAgrees ==
    ASSUME NEW l \in LineRec, NEW x \in Xs, ~HamAt(l, x), l.con.ham \/ ResValue(l, x) = 0
    PROVE  AgreeAt(l, Background(l)[x], x)
<1>1. PICK c : c = Background(l)[x]
  OBVIOUS
<1>2. c = [rgb |-> l.pal[0], color |-> 0, prio |-> l.con.pf1p, active |-> {}]
  BY <1>1, Zenon DEF Background
<1>3. c.rgb = l.pal[0] /\ c.color = 0 /\ c.prio = l.con.pf1p /\ c.active = {}
  BY <1>2
<1>4. l.con.ham \in BOOLEAN /\ l.con.dual \in BOOLEAN
  BY LineFields, ConFields, Zenon
<1>5. CASE l.con.ham
  <2>1. ResColor(l, x) = 0
    BY <1>5, Zenon DEF ResColor, DualCon
  <2>2. ResPrio(l, x) = l.con.pf1p /\ ResRgb(l, x) = l.pal[0]
    BY <1>5, Zenon DEF ResPrio, ResRgb, DualCon
  <2>3. x \in l.win => resolved_playfields(l, x) = {}
    BY <1>5, ResolvedActive DEF HamAt, Drawn
  <2> QED
    BY <1>1, <1>3, <2>1, <2>2, <2>3, Zenon DEF AgreeAt
<1>6. CASE ~l.con.ham /\ l.con.dual
  <2>1. dualpf_priority_resolve(dualpf_decode(0), l.con) = 0
    BY DecodeZero DEF dualpf_priority_resolve
  <2>2. ResColor(l, x) = 0
    BY <1>6, <2>1, Zenon DEF ResColor, DualCon
  <2>3. ResPrio(l, x) = l.con.pf1p
    <3>1. ~(0 > 8)
      OBVIOUS
    <3> QED
      BY <2>2, <3>1, Zenon DEF ResPrio
  <2>4. ResRgb(l, x) = l.pal[0]
    BY <1>6, <2>2, Zenon DEF ResRgb, DualCon
  <2>5. x \in l.win => resolved_playfields(l, x) = {}
    <3> SUFFICES ASSUME x \in l.win PROVE resolved_playfields(l, x) = {}
      OBVIOUS
    <3>1. CASE ~(l.con.depth \in 1..6 /\ Len(l.px) > 0)
      BY <3>1, ResolvedActive, Zenon
    <3>2. CASE l.con.depth \in 1..6 /\ Len(l.px) > 0
      <4>1. planes_at(l, x) = 0
        BY <1>6, <3>2, Zenon DEF ResValue, Drawn
      <4>2. PICK d : d = dualpf_decode(planes_at(l, x))
        OBVIOUS
      <4>3. d.pf1 = 0 /\ d.pf2 = 0
        BY <4>1, <4>2, DecodeZero, Zenon
      <4>4. resolved_playfields(l, x) = {pf \in {1, 2} : (IF pf = 1 THEN d.pf1 ELSE d.pf2) # 0}
        BY <1>6, <3>2, <4>2, ResolvedActive, Zenon
      <4> QED
        BY <4>3, <4>4
    <3> QED
      BY <3>1, <3>2
  <2> QED
    BY <1>1, <1>3, <2>2, <2>3, <2>4, <2>5, Zenon DEF AgreeAt
<1>7. CASE ~l.con.ham /\ ~l.con.dual
  <2>1. index_of(0, l.con) = 0
    BY DEF index_of
  <2>2. ResColor(l, x) = 0
    BY <1>7, <2>1, Zenon DEF ResColor, DualCon
  <2>3. color_of(0, l) = l.pal[0]
    BY DEF color_of, ehb_resolve_color
  <2>4. ResPrio(l, x) = l.con.pf1p /\ ResRgb(l, x) = l.pal[0]
    BY <1>7, <2>2, <2>3, Zenon DEF ResPrio, ResRgb, DualCon, HamAt
  <2>5. x \in l.win => resolved_playfields(l, x) = {}
    <3> SUFFICES ASSUME x \in l.win PROVE resolved_playfields(l, x) = {}
      OBVIOUS
    <3>1. CASE ~(l.con.depth \in 1..6 /\ Len(l.px) > 0)
      BY <3>1, ResolvedActive, Zenon
    <3>2. CASE l.con.depth \in 1..6 /\ Len(l.px) > 0
      <4>1. planes_at(l, x) = 0
        BY <1>7, <3>2, Zenon DEF ResValue, Drawn
      <4> QED
        BY <1>7, <2>1, <3>2, <4>1, ResolvedActive, Zenon
    <3> QED
      BY <3>1, <3>2
  <2> QED
    BY <1>1, <1>3, <2>2, <2>4, <2>5, Zenon DEF AgreeAt
<1> QED
  BY <1>4, <1>5, <1>6, <1>7

(* A pixel of a single playfield.                                          *)
LEMMA SingleAgrees ==
    ASSUME NEW l \in LineRec, NEW x \in Xs, ~l.con.ham, ~l.con.dual, Drawn(l, x),
           NEW v, v = planes_at(l, x)
    PROVE  AgreeAt(l, single_cell(index_of(v, l.con), l), x)
<1>1. PICK ci : ci = index_of(v, l.con)
  OBVIOUS
<1>2. PICK c : c = single_cell(ci, l)
  OBVIOUS
<1>3. c = [rgb |-> color_of(ci, l), color |-> ci, prio |-> l.con.pf1p,
           active |-> IF ci # 0 THEN {1} ELSE {}]
  BY <1>2, Zenon DEF single_cell
<1>4. /\ c.rgb = color_of(ci, l) /\ c.color = ci /\ c.prio = l.con.pf1p
      /\ c.active = IF ci # 0 THEN {1} ELSE {}
  BY <1>3
<1>5. ResColor(l, x) = ci
  BY <1>1, Zenon DEF ResColor, ResValue, DualCon
<1>6. ResPrio(l, x) = l.con.pf1p /\ ResRgb(l, x) = color_of(ci, l)
  BY <1>5, Zenon DEF ResPrio, ResRgb, DualCon, HamAt
<1>7. resolved_playfields(l, x) = IF ci # 0 THEN {1} ELSE {}
  BY <1>1, ResolvedActive, Zenon DEF Drawn
<1> QED
  BY <1>1, <1>2, <1>4, <1>5, <1>6, <1>7, Zenon DEF AgreeAt

LEMMA EvenAgrees ==
    ASSUME NEW l \in LineRec, NEW x \in Xs, ~l.con.ham, ~l.con.dual,
           l.con.depth \in 1..6, Len(l.px) > 0, l.con.scroll1 = l.con.scroll2
    PROVE  AgreeAt(l, even_line(l)[x], x)
<1>0. x \in Int /\ l.con.scroll1 \in 0..MaxScroll /\ Len(l.px) \in Nat
  BY LineFields, ConFields, PixelsAssumption DEF Xs
<1>1. PICK n \in Int : n = Pos(l, x, l.con.scroll1)
  BY <1>0, PosInt
<1>2. PICK first : first = origin(l) + l.con.scroll1 * hscale(l.con)
  OBVIOUS
<1>3. x - first = n - 1
  <2>1. origin(l) \in Nat /\ l.con.scroll1 * hscale(l.con) \in Nat
    BY <1>0, OriginNat, PosInt
  <2>2. PICK a \in Nat : a = origin(l)
    BY <2>1
  <2>3. PICK b \in Nat : b = l.con.scroll1 * hscale(l.con)
    BY <2>1
  <2>4. x - (a + b) = (x - a - b + 1) - 1
    BY <1>0
  <2> QED
    BY <1>1, <1>2, <2>2, <2>3, <2>4, Zenon DEF Pos
<1>4. even_line(l)[x] =
        IF x \in l.win /\ x - first \in 0..(Len(l.px) - 1)
        THEN single_cell(index_of(OfDepth(l.px[x - first + 1], l.con.depth), l.con), l)
        ELSE Background(l)[x]
  BY <1>2, Zenon DEF even_line
<1>5. x - first \in 0..(Len(l.px) - 1) <=> n \in 1..Len(l.px)
  BY <1>0, <1>1, <1>3
<1>6. x - first + 1 = n
  BY <1>1, <1>3
<1>7. CASE x \in l.win /\ n \in 1..Len(l.px)
  <2>1. planes_at(l, x) = Value(l, n)
    BY <1>0, <1>1, <1>7, EvenPlanes
  <2>2. even_line(l)[x] = single_cell(index_of(Value(l, n), l.con), l)
    BY <1>4, <1>5, <1>6, <1>7, Zenon DEF Value
  <2>3. Drawn(l, x)
    BY <1>7, Zenon DEF Drawn
  <2> QED
    BY <2>1, <2>2, <2>3, SingleAgrees, Zenon
<1>8. CASE ~(x \in l.win /\ n \in 1..Len(l.px))
  <2>1. even_line(l)[x] = Background(l)[x]
    BY <1>4, <1>5, <1>8, Zenon
  <2>2. ResValue(l, x) = 0
    <3>1. CASE x \in l.win
      <4>1. planes_at(l, x) = 0
        BY <1>0, <1>1, <1>8, <3>1, EvenPlanes
      <4> QED
        BY <4>1, Zenon DEF ResValue
    <3>2. CASE x \notin l.win
      BY <3>2, Zenon DEF ResValue, Drawn
    <3> QED
      BY <3>1, <3>2
  <2>3. ~HamAt(l, x)
    BY Zenon DEF HamAt
  <2> QED
    BY <2>1, <2>2, <2>3, BackgroundAgrees, Zenon
<1> QED
  BY <1>7, <1>8

LEMMA SplitAgrees ==
    ASSUME NEW l \in LineRec, NEW x \in Xs, ~l.con.ham, ~l.con.dual,
           l.con.depth \in 1..6, Len(l.px) > 0
    PROVE  AgreeAt(l, split_line(l)[x], x)
<1>0. /\ x \in Int /\ l.con.scroll1 \in 0..MaxScroll /\ l.con.scroll2 \in 0..MaxScroll
      /\ Len(l.px) \in Nat /\ origin(l) \in Nat
  BY LineFields, ConFields, OriginNat, PixelsAssumption DEF Xs
<1>1. split_line(l)[x] =
        IF x \in l.win /\ x >= origin(l) /\ x < origin(l) + Len(l.px) + MaxScroll * hscale(l.con)
        THEN single_cell(index_of(planes_at(l, x), l.con), l) ELSE Background(l)[x]
  BY Zenon DEF split_line
<1>2. CASE x \in l.win /\ x >= origin(l) /\ x < origin(l) + Len(l.px) + MaxScroll * hscale(l.con)
  <2>1. split_line(l)[x] = single_cell(index_of(planes_at(l, x), l.con), l)
    BY <1>1, <1>2, Zenon
  <2>2. Drawn(l, x)
    BY <1>2, Zenon DEF Drawn
  <2> QED
    BY <2>1, <2>2, SingleAgrees, Zenon
<1>3. CASE ~(x \in l.win /\ x >= origin(l)
             /\ x < origin(l) + Len(l.px) + MaxScroll * hscale(l.con))
  <2>1. split_line(l)[x] = Background(l)[x]
    BY <1>1, <1>3, Zenon
  <2>2. ResValue(l, x) = 0
    <3>1. CASE x \in l.win
      <4>1. ASSUME NEW s \in 0..MaxScroll PROVE Pos(l, x, s) \notin 1..Len(l.px)
        <5>1. PICK b \in Nat : b = s * hscale(l.con)
          BY <1>0, PosInt
        <5>2. PICK m \in Nat : m = MaxScroll * hscale(l.con)
          <6>1. hscale(l.con) \in {1, 2}
            BY LineFields, ConFields, Zenon
          <6>2. MaxScroll * 1 \in Nat /\ MaxScroll * 2 \in Nat
            BY PixelsAssumption
          <6> QED
            BY <6>1, <6>2, Zenon
        <5>3. b <= m
          BY <1>0, <5>1, <5>2, PosInt
        <5>4. PICK o \in Nat : o = origin(l)
          BY <1>0
        <5>5. Pos(l, x, s) = x - o - b + 1
          BY <5>1, <5>4, Zenon DEF Pos
        <5>6. ~(x >= o /\ x < o + Len(l.px) + m)
          BY <1>3, <3>1, <5>2, <5>4, Zenon
        <5>7. x - o - b + 1 \notin 1..Len(l.px)
          BY <1>0, <5>3, <5>6
        <5> QED
          BY <5>5, <5>7, Zenon
      <4>2. \A p \in 0..5 : PlaneAt(l, x, p) = 0
        <5> SUFFICES ASSUME NEW p \in 0..5 PROVE PlaneAt(l, x, p) = 0
          OBVIOUS
        <5>1. PICK s \in 0..MaxScroll : s = IF p % 2 = 0 THEN l.con.scroll1 ELSE l.con.scroll2
          BY <1>0
        <5> QED
          BY <1>0, <4>1, <5>1, PlaneIsBit
      <4>3. planes_at(l, x) = Sum6(PlaneAt(l, x, 0), PlaneAt(l, x, 1), PlaneAt(l, x, 2),
                                   PlaneAt(l, x, 3), PlaneAt(l, x, 4), PlaneAt(l, x, 5))
        BY <1>0, PlanesAt
      <4>4. 0 \in 0..5 /\ 1 \in 0..5 /\ 2 \in 0..5 /\ 3 \in 0..5 /\ 4 \in 0..5 /\ 5 \in 0..5
        OBVIOUS
      <4>5. planes_at(l, x) = Sum6(0, 0, 0, 0, 0, 0)
        BY <4>2, <4>3, <4>4, Zenon
      <4>6. planes_at(l, x) = 0
        BY <4>5 DEF Sum6
      <4> QED
        BY <4>6, Zenon DEF ResValue
    <3>2. CASE x \notin l.win
      BY <3>2, Zenon DEF ResValue, Drawn
    <3> QED
      BY <3>1, <3>2
  <2>3. ~HamAt(l, x)
    BY Zenon DEF HamAt
  <2> QED
    BY <2>1, <2>2, <2>3, BackgroundAgrees, Zenon
<1> QED
  BY <1>2, <1>3

-----------------------------------------------------------------------------
(* HAM: what a pixel adds to the colour of the one before it.              *)
Changes(c) == CASE c = 1 -> 2 [] c = 2 -> 3 [] c = 3 -> 1

HamSets(l, n, c) == {k \in 1..n : Value(l, k) \div 16 \in {0, Changes(c)}}

LastOf(S) == CHOOSE i \in S : \A j \in S : j <= i

HamGives(l, k, c) ==
    IF Value(l, k) \div 16 = 0 THEN l.pal[Value(l, k) % 32][c] ELSE 16 * (Value(l, k) % 16)

LEMMA HamChannelIs ==
    ASSUME NEW l, NEW n, NEW c
    PROVE  ham_channel(l, n, c) = IF HamSets(l, n, c) = {} THEN l.pal[0][c]
                                  ELSE HamGives(l, LastOf(HamSets(l, n, c)), c)
BY Zenon DEF ham_channel, HamSets, LastOf, HamGives, Value, Changes

LEMMA HamChannelSteps ==
    ASSUME NEW l, NEW n \in Nat, NEW c
    PROVE  /\ ham_channel(l, 0, c) = l.pal[0][c]
           /\ ham_channel(l, n + 1, c) = IF Value(l, n + 1) \div 16 \in {0, Changes(c)}
                                         THEN HamGives(l, n + 1, c) ELSE ham_channel(l, n, c)
<1>1. HamSets(l, 0, c) = {}
  <2>1. 1..0 = {}
    OBVIOUS
  <2> QED
    BY <2>1, Zenon DEF HamSets
<1>2. ham_channel(l, 0, c) = l.pal[0][c]
  BY <1>1, HamChannelIs, Zenon
<1>3. CASE Value(l, n + 1) \div 16 \in {0, Changes(c)}
  <2>1. n + 1 \in HamSets(l, n + 1, c) /\ \A j \in HamSets(l, n + 1, c) : j <= n + 1
    BY <1>3 DEF HamSets
  <2>2. ASSUME NEW i \in HamSets(l, n + 1, c), \A j \in HamSets(l, n + 1, c) : j <= i
        PROVE  i = n + 1
    <3>1. n + 1 <= i /\ i \in 1..(n + 1)
      BY <2>1, <2>2 DEF HamSets
    <3> QED
      BY <3>1
  <2>3. LastOf(HamSets(l, n + 1, c)) = n + 1
    BY <2>1, <2>2, Zenon DEF LastOf
  <2>4. HamSets(l, n + 1, c) # {}
    BY <2>1
  <2> QED
    BY <1>2, <1>3, <2>3, <2>4, HamChannelIs, Zenon
<1>4. CASE Value(l, n + 1) \div 16 \notin {0, Changes(c)}
  <2>1. 1..(n + 1) = (1..n) \cup {n + 1}
    OBVIOUS
  <2>2. HamSets(l, n + 1, c) = HamSets(l, n, c)
    BY <1>4, <2>1, Zenon DEF HamSets
  <2>3. ham_channel(l, n + 1, c) = ham_channel(l, n, c)
    BY <2>2, HamChannelIs, Zenon
  <2> QED
    BY <1>2, <1>4, <2>3, Zenon
<1> QED
  BY <1>3, <1>4

HamRgb(l, n) == [c \in 1..3 |-> ham_channel(l, n, c)]

LEMMA PalColour ==
    ASSUME NEW l \in LineRec, NEW i \in 0..31
    PROVE  l.pal[i] \in Colour
BY LineFields DEF Palette

LEMMA HamDecoded ==
    ASSUME NEW v \in 0..63, NEW prev \in Colour, NEW pal \in Palette
    PROVE  /\ ham6_decode_pixel(v, prev, pal) \in Colour
           /\ \A c \in 1..3 : ham6_decode_pixel(v, prev, pal)[c] =
                IF v \div 16 = 0 THEN pal[v % 32][c]
                ELSE IF v \div 16 = Changes(c) THEN 16 * (v % 16) ELSE prev[c]
<1>1. v \div 16 \in 0..3 /\ v % 32 \in 0..31 /\ 16 * (v % 16) \in Nat
  OBVIOUS
<1>2. PICK q \in 0..3 : q = v \div 16
  BY <1>1
<1>3. PICK w \in Nat : w = 16 * (v % 16)
  BY <1>1
<1>4. PICK p \in Colour : p = pal[v % 32]
  BY <1>1 DEF Palette
<1>5. PICK r : r = ham6_decode_pixel(v, prev, pal)
  OBVIOUS
<1>6. r = CASE q = 0 -> p
            [] q = 1 -> [prev EXCEPT ![3] = w]
            [] q = 2 -> [prev EXCEPT ![1] = w]
            [] q = 3 -> [prev EXCEPT ![2] = w]
  BY <1>2, <1>3, <1>4, <1>5, Zenon DEF ham6_decode_pixel
<1>7. r \in Colour /\ \A c \in 1..3 : r[c] = IF q = 0 THEN p[c]
                                             ELSE IF q = Changes(c) THEN w ELSE prev[c]
  <2>1. CASE q = 0
    BY <1>6, <2>1
  <2>2. CASE q = 1
    BY <1>6, <2>2 DEF Changes, Colour
  <2>3. CASE q = 2
    BY <1>6, <2>3 DEF Changes, Colour
  <2>4. CASE q = 3
    BY <1>6, <2>4 DEF Changes, Colour
  <2> QED
    BY <2>1, <2>2, <2>3, <2>4
<1> QED
  BY <1>2, <1>3, <1>4, <1>5, <1>7, Zenon

(* The colour that the line's decoder carries along is that, at each pixel.*)
LEMMA HamStep ==
    ASSUME NEW l \in LineRec, l.con.depth \in 1..6, NEW n \in Nat, n + 1 \in 1..Len(l.px),
           HamRgb(l, n) \in Colour
    PROVE  /\ HamRgb(l, n + 1) = ham6_decode_pixel(Value(l, n + 1), HamRgb(l, n), l.pal)
           /\ HamRgb(l, n + 1) \in Colour
<1>1. Value(l, n + 1) \in 0..63
  BY LineFields, DepthBits DEF Value
<1>2. PICK v \in 0..63 : v = Value(l, n + 1)
  BY <1>1
<1>3. PICK prev \in Colour : prev = HamRgb(l, n)
  OBVIOUS
<1>4. PICK pal \in Palette : pal = l.pal
  BY LineFields
<1>5. PICK r : r = ham6_decode_pixel(v, prev, pal)
  OBVIOUS
<1>6. r \in Colour /\ \A c \in 1..3 : r[c] = IF v \div 16 = 0 THEN pal[v % 32][c]
                ELSE IF v \div 16 = Changes(c) THEN 16 * (v % 16) ELSE prev[c]
  BY <1>5, HamDecoded, Zenon
<1>7. ASSUME NEW c \in 1..3 PROVE r[c] = ham_channel(l, n + 1, c)
  <2>1. prev[c] = ham_channel(l, n, c)
    BY <1>3, Zenon DEF HamRgb
  <2>2. ham_channel(l, n + 1, c) = IF v \div 16 \in {0, Changes(c)}
                                   THEN HamGives(l, n + 1, c) ELSE ham_channel(l, n, c)
    BY <1>2, HamChannelSteps, Zenon
  <2>3. HamGives(l, n + 1, c) = IF v \div 16 = 0 THEN pal[v % 32][c] ELSE 16 * (v % 16)
    BY <1>2, <1>4, Zenon DEF HamGives
  <2> QED
    BY <1>6, <2>1, <2>2, <2>3, Zenon
<1>8. r = [c \in 1..3 |-> ham_channel(l, n + 1, c)]
  BY <1>6, <1>7 DEF Colour
<1> QED
  BY <1>2, <1>3, <1>4, <1>5, <1>6, <1>8, Zenon DEF HamRgb

LEMMA HamRuns ==
    ASSUME NEW l \in LineRec, l.con.depth \in 1..6
    PROVE  HamRgb(l, 0) = l.pal[0] /\ \A n \in 0..Len(l.px) : HamRgb(l, n) \in Colour
<1>1. l.pal[0] \in Colour /\ Len(l.px) \in Nat
  BY PalColour, LineFields
<1>2. HamRgb(l, 0) = [c \in 1..3 |-> l.pal[0][c]]
  BY HamChannelSteps, Zenon DEF HamRgb
<1>3. HamRgb(l, 0) = l.pal[0]
  BY <1>1, <1>2 DEF Colour
<1> DEFINE S == {n \in Nat : n \in 0..Len(l.px) => HamRgb(l, n) \in Colour}
<1>4. 0 \in S
  BY <1>1, <1>3
<1>5. ASSUME NEW n \in Nat, n \in S PROVE n + 1 \in S
  <2> SUFFICES ASSUME n + 1 \in 0..Len(l.px) PROVE HamRgb(l, n + 1) \in Colour
    OBVIOUS
  <2>1. n \in 0..Len(l.px) /\ n + 1 \in 1..Len(l.px)
    BY <1>1
  <2>2. HamRgb(l, n) \in Colour
    BY <1>5, <2>1
  <2> QED
    BY <2>1, <2>2, HamStep, Zenon
<1>6. Nat \subseteq S
  BY <1>4, <1>5, SetInduction
<1>7. \A n \in 0..Len(l.px) : n \in Nat
  BY <1>1
<1> QED
  BY <1>3, <1>6, <1>7

(* ham_line's recursion has that as a solution, and any solution is it.    *)
HamEq(l, g) == g = [n \in 0..Len(l.px) |->
                      IF n = 0 THEN l.pal[0]
                      ELSE ham6_decode_pixel(OfDepth(l.px[n], l.con.depth), g[n - 1], l.pal)]

LEMMA HamCarried ==
    ASSUME NEW l \in LineRec, l.con.depth \in 1..6, NEW n \in 0..Len(l.px)
    PROVE  (CHOOSE g : HamEq(l, g))[n] = HamRgb(l, n)
<1>0. Len(l.px) \in Nat
  BY LineFields
<1> DEFINE h == [k \in 0..Len(l.px) |-> HamRgb(l, k)]
<1>1. ASSUME NEW k \in 0..Len(l.px)
      PROVE  h[k] = IF k = 0 THEN l.pal[0]
                    ELSE ham6_decode_pixel(OfDepth(l.px[k], l.con.depth), h[k - 1], l.pal)
  <2>1. CASE k = 0
    BY <2>1, HamRuns, Zenon
  <2>2. CASE k # 0
    <3>1. PICK m \in Nat : m + 1 = k /\ m = k - 1 /\ m \in 0..Len(l.px) /\ m + 1 \in 1..Len(l.px)
      <4>1. k - 1 \in Nat /\ (k - 1) + 1 = k /\ k - 1 \in 0..Len(l.px) /\ k \in 1..Len(l.px)
        BY <1>0, <2>2
      <4> QED
        BY <4>1
    <3>2. HamRgb(l, m + 1) = ham6_decode_pixel(Value(l, m + 1), HamRgb(l, m), l.pal)
      BY <3>1, HamRuns, HamStep, Zenon
    <3>3. h[k - 1] = HamRgb(l, m)
      BY <3>1, Zenon
    <3> QED
      BY <2>2, <3>1, <3>2, <3>3, Zenon DEF Value
  <2> QED
    BY <2>1, <2>2
<1>2. HamEq(l, h)
  BY <1>1, Zenon DEF HamEq
<1> DEFINE at == CHOOSE g : HamEq(l, g)
<1>3. HamEq(l, at)
  BY <1>2, Zenon
<1> HIDE DEF at
<1>4. \A k \in 0..Len(l.px) : at[k] =
        IF k = 0 THEN l.pal[0]
        ELSE ham6_decode_pixel(OfDepth(l.px[k], l.con.depth), at[k - 1], l.pal)
  BY <1>3, Zenon DEF HamEq
<1> DEFINE S == {k \in Nat : k \in 0..Len(l.px) => at[k] = HamRgb(l, k)}
<1>5. 0 \in S
  <2>1. 0 \in 0..Len(l.px)
    BY <1>0
  <2>2. at[0] = HamRgb(l, 0)
    BY <1>4, <2>1, HamRuns, Zenon
  <2> QED
    BY <2>2
<1>6. ASSUME NEW k \in Nat, k \in S PROVE k + 1 \in S
  <2> SUFFICES ASSUME k + 1 \in 0..Len(l.px) PROVE at[k + 1] = HamRgb(l, k + 1)
    OBVIOUS
  <2>1. k \in 0..Len(l.px) /\ k + 1 \in 1..Len(l.px) /\ k + 1 # 0 /\ (k + 1) - 1 = k
    BY <1>0
  <2>2. at[k] = HamRgb(l, k)
    BY <1>6, <2>1
  <2>3. at[k + 1] = ham6_decode_pixel(Value(l, k + 1), at[k], l.pal)
    BY <1>4, <2>1, Zenon DEF Value
  <2> QED
    BY <2>1, <2>2, <2>3, HamRuns, HamStep, Zenon
<1>7. Nat \subseteq S
  BY <1>5, <1>6, SetInduction
<1>8. n \in S
  BY <1>0, <1>7
<1>9. at[n] = HamRgb(l, n)
  BY <1>8
<1> QED
  BY <1>9, Zenon DEF at

LEMMA HamAgrees ==
    ASSUME NEW l \in LineRec, NEW x \in Xs, l.con.ham, l.con.depth \in 1..6, Len(l.px) > 0
    PROVE  AgreeAt(l, ham_line(l)[x], x)
<1>0. x \in Int /\ l.con.scroll1 \in 0..MaxScroll /\ Len(l.px) \in Nat
  BY LineFields, ConFields, PixelsAssumption DEF Xs
<1>1. PICK n \in Int : n = Pos(l, x, l.con.scroll1)
  BY <1>0, PosInt
<1>2. PICK first : first = origin(l) + l.con.scroll1 * hscale(l.con)
  OBVIOUS
<1>3. x - first = n - 1
  <2>1. origin(l) \in Nat /\ l.con.scroll1 * hscale(l.con) \in Nat
    BY <1>0, OriginNat, PosInt
  <2>2. PICK a \in Nat : a = origin(l)
    BY <2>1
  <2>3. PICK b \in Nat : b = l.con.scroll1 * hscale(l.con)
    BY <2>1
  <2>4. x - (a + b) = (x - a - b + 1) - 1
    BY <1>0
  <2> QED
    BY <1>1, <1>2, <2>2, <2>3, <2>4, Zenon DEF Pos
<1>4. ham_line(l)[x] =
        IF x \in l.win /\ x - first \in 0..(Len(l.px) - 1)
        THEN [rgb |-> (CHOOSE g : HamEq(l, g))[x - first + 1], color |-> 255,
              prio |-> l.con.pf1p, active |-> {1}]
        ELSE Background(l)[x]
  BY <1>2, Zenon DEF ham_line, HamEq
<1>5. x - first \in 0..(Len(l.px) - 1) <=> n \in 1..Len(l.px)
  BY <1>0, <1>1, <1>3
<1>6. x - first + 1 = n
  BY <1>1, <1>3
<1>7. CASE x \in l.win /\ n \in 1..Len(l.px)
  <2>1. n \in 0..Len(l.px)
    BY <1>7
  <2>2. (CHOOSE g : HamEq(l, g))[n] = HamRgb(l, n)
    BY <2>1, HamCarried
  <2>3. PICK c : c = ham_line(l)[x]
    OBVIOUS
  <2>4. c = [rgb |-> HamRgb(l, n), color |-> 255, prio |-> l.con.pf1p, active |-> {1}]
    BY <1>4, <1>5, <1>6, <1>7, <2>2, <2>3, Zenon
  <2>5. c.rgb = HamRgb(l, n) /\ c.color = 255 /\ c.prio = l.con.pf1p /\ c.active = {1}
    BY <2>4
  <2>6. HamAt(l, x)
    BY <1>1, <1>7, Zenon DEF HamAt, Drawn
  <2>7. ResRgb(l, x) = HamRgb(l, n) /\ ResColor(l, x) = 255 /\ ResPrio(l, x) = l.con.pf1p
    BY <1>1, <2>6, Zenon DEF ResRgb, ResColor, ResPrio, HamRgb, DualCon
  <2>8. resolved_playfields(l, x) = {1}
    BY <1>1, <1>7, ResolvedActive, Zenon
  <2> QED
    BY <2>3, <2>5, <2>7, <2>8, Zenon DEF AgreeAt
<1>8. CASE ~(x \in l.win /\ n \in 1..Len(l.px))
  <2>1. ham_line(l)[x] = Background(l)[x]
    BY <1>4, <1>5, <1>8, Zenon
  <2>2. ~HamAt(l, x)
    BY <1>1, <1>8, Zenon DEF HamAt, Drawn
  <2> QED
    BY <2>1, <2>2, BackgroundAgrees, Zenon
<1> QED
  BY <1>7, <1>8

-----------------------------------------------------------------------------
(* A dual line: the cell of a pixel where the playfields have indices d1   *)
(* and d2.                                                                 *)
Cell(r, k, p, a) == [rgb |-> r, color |-> k, prio |-> p, active |-> a]

Merged(l, d1, d2) ==
    IF d1 = 0 /\ d2 = 0 THEN Cell(l.pal[0], 0, l.con.pf1p, {})
    ELSE IF d2 = 0 THEN Cell(l.pal[d1], d1, l.con.pf1p, {1})
    ELSE IF d1 = 0 THEN Cell(l.pal[d2], d2, l.con.pf2p, {2})
    ELSE IF l.con.bit6 THEN Cell(l.pal[d2], d2, l.con.pf2p, {1, 2})
    ELSE Cell(l.pal[d1], d1, l.con.pf1p, {1, 2})

Showing(l, a, pf) == a = {} \/ (a = {3 - pf} /\ (l.con.bit6 <=> pf = 2))

Updated(c, b, ci, q, e) == [c EXCEPT !.active = b, !.color = ci, !.prio = q, !.rgb = e]

LEMMA CellUpdated ==
    ASSUME NEW r, NEW k, NEW p, NEW a, NEW b, NEW ci, NEW q, NEW e, NEW c, c = Cell(r, k, p, a)
    PROVE  Updated(c, b, ci, q, e) = Cell(e, ci, q, b)
<1> DEFINE Around == [rgb: {r, e}, color: {k, ci}, prio: {p, q}, active: {a, b}]
<1>1. c \in Around
  BY DEF Cell
<1>2. PICK f : f = [c EXCEPT !.active = b, !.color = ci, !.prio = q, !.rgb = e]
  OBVIOUS
<1>3. f \in Around
  BY <1>1, <1>2
<1>4. f.active = b /\ f.color = ci /\ f.prio = q /\ f.rgb = e
  BY <1>1, <1>2
<1>5. f = Cell(e, ci, q, b)
  BY <1>3, <1>4 DEF Cell
<1> QED
  BY <1>2, <1>5, Zenon DEF Updated

(* A pixel that is in front of what the cell has, and one that is behind.  *)
PutFront(l, r, k, p, a, b, ci, pf) ==
    dual_put(Cell(r, k, p, a), ci, pf, l) =
        Cell(l.pal[ci], ci, IF pf = 1 THEN l.con.pf1p ELSE l.con.pf2p, b)

PutBehind(l, r, k, p, a, b, ci, pf) ==
    dual_put(Cell(r, k, p, a), ci, pf, l) = Cell(r, k, p, b)

LEMMA PutIs ==
    ASSUME NEW l, NEW r, NEW k, NEW p, NEW a, NEW b, NEW ci, NEW pf, b = a \cup {pf}
    PROVE  /\ Showing(l, a, pf) => PutFront(l, r, k, p, a, b, ci, pf)
           /\ ~Showing(l, a, pf) => PutBehind(l, r, k, p, a, b, ci, pf)
<1>1. PICK c : c = Cell(r, k, p, a)
  OBVIOUS
<1>2. c.rgb = r /\ c.color = k /\ c.prio = p /\ c.active = a
  BY <1>1 DEF Cell
<1>3. dual_put(c, ci, pf, l) =
        [c EXCEPT !.active = b, !.color = IF Showing(l, a, pf) THEN ci ELSE k,
           !.prio = IF Showing(l, a, pf)
                    THEN (IF pf = 1 THEN l.con.pf1p ELSE l.con.pf2p) ELSE p,
           !.rgb = IF Showing(l, a, pf) THEN l.pal[ci] ELSE r]
  BY <1>2, Zenon DEF dual_put, Showing
<1>4. CASE Showing(l, a, pf)
  <2>1. PICK q : q = IF pf = 1 THEN l.con.pf1p ELSE l.con.pf2p
    OBVIOUS
  <2>2. PICK e : e = l.pal[ci]
    OBVIOUS
  <2>3. dual_put(c, ci, pf, l) = Updated(c, b, ci, q, e)
    BY <1>3, <1>4, <2>1, <2>2, Zenon DEF Updated
  <2>4. Updated(c, b, ci, q, e) = Cell(e, ci, q, b)
    BY <1>1, CellUpdated
  <2> QED
    BY <1>1, <1>4, <2>1, <2>2, <2>3, <2>4, Zenon DEF PutFront
<1>5. CASE ~Showing(l, a, pf)
  <2>1. dual_put(c, ci, pf, l) = Updated(c, b, k, p, r)
    BY <1>3, <1>5, Zenon DEF Updated
  <2>2. Updated(c, b, k, p, r) = Cell(r, k, p, b)
    BY <1>1, CellUpdated
  <2> QED
    BY <1>1, <1>5, <2>1, <2>2, Zenon DEF PutBehind
<1> QED
  BY <1>4, <1>5

LEMMA PutMerges ==
    ASSUME NEW l \in LineRec, NEW d, NEW ci, ci # 0
    PROVE  /\ dual_put(Merged(l, 0, d), ci, 1, l) = Merged(l, ci, d)
           /\ dual_put(Merged(l, d, 0), ci, 2, l) = Merged(l, d, ci)
<1>0. l.con.bit6 \in BOOLEAN
  BY LineFields, ConFields, Zenon
<1>1. /\ {1} = {} \cup {1} /\ {2} = {} \cup {2} /\ {1, 2} = {2} \cup {1} /\ {1, 2} = {1} \cup {2}
  OBVIOUS
<1>2. /\ Showing(l, {}, 1) /\ Showing(l, {}, 2)
      /\ Showing(l, {2}, 1) <=> ~l.con.bit6
      /\ Showing(l, {1}, 2) <=> l.con.bit6
  BY <1>0 DEF Showing
<1>3. 2 # 1
  OBVIOUS
<1>4. CASE d = 0
  <2>1. Merged(l, 0, d) = Cell(l.pal[0], 0, l.con.pf1p, {}) /\ Merged(l, d, 0) = Merged(l, 0, d)
    BY <1>4, Zenon DEF Merged
  <2>2. /\ Merged(l, ci, d) = Cell(l.pal[ci], ci, l.con.pf1p, {1})
        /\ Merged(l, d, ci) = Cell(l.pal[ci], ci, l.con.pf2p, {2})
    BY <1>4, Zenon DEF Merged
  <2>3. PutFront(l, l.pal[0], 0, l.con.pf1p, {}, {1}, ci, 1)
    BY <1>1, <1>2, PutIs
  <2>4. PutFront(l, l.pal[0], 0, l.con.pf1p, {}, {2}, ci, 2)
    BY <1>1, <1>2, PutIs
  <2> QED
    BY <1>3, <2>1, <2>2, <2>3, <2>4, Zenon DEF PutFront
<1>5. CASE d # 0
  <2>1. /\ Merged(l, 0, d) = Cell(l.pal[d], d, l.con.pf2p, {2})
        /\ Merged(l, d, 0) = Cell(l.pal[d], d, l.con.pf1p, {1})
    BY <1>5, Zenon DEF Merged
  <2>2. /\ Merged(l, ci, d) = IF l.con.bit6 THEN Cell(l.pal[d], d, l.con.pf2p, {1, 2})
                              ELSE Cell(l.pal[ci], ci, l.con.pf1p, {1, 2})
        /\ Merged(l, d, ci) = IF l.con.bit6 THEN Cell(l.pal[ci], ci, l.con.pf2p, {1, 2})
                              ELSE Cell(l.pal[d], d, l.con.pf1p, {1, 2})
    BY <1>5, Zenon DEF Merged
  <2>3. IF l.con.bit6 THEN PutBehind(l, l.pal[d], d, l.con.pf2p, {2}, {1, 2}, ci, 1)
        ELSE PutFront(l, l.pal[d], d, l.con.pf2p, {2}, {1, 2}, ci, 1)
    BY <1>1, <1>2, PutIs
  <2>4. IF l.con.bit6 THEN PutFront(l, l.pal[d], d, l.con.pf1p, {1}, {1, 2}, ci, 2)
        ELSE PutBehind(l, l.pal[d], d, l.con.pf1p, {1}, {1, 2}, ci, 2)
    BY <1>1, <1>2, PutIs
  <2>5. dual_put(Merged(l, 0, d), ci, 1, l) = Merged(l, ci, d)
    BY <2>1, <2>2, <2>3, Zenon DEF PutFront, PutBehind
  <2>6. dual_put(Merged(l, d, 0), ci, 2, l) = Merged(l, d, ci)
    BY <1>3, <2>1, <2>2, <2>4, Zenon DEF PutFront, PutBehind
  <2> QED
    BY <2>5, <2>6
<1> QED
  BY <1>4, <1>5

(* The index a playfield has shown at pixel x when n pixels have arrived.  *)
One(l, n, x) == IF x \in l.win /\ Pos(l, x, l.con.scroll1) \in 1..n
                THEN dualpf_decode(Value(l, Pos(l, x, l.con.scroll1))).pf1 ELSE 0

Two(l, n, x) == IF x \in l.win /\ Pos(l, x, l.con.scroll2) \in 1..n
                THEN dualpf_decode(Value(l, Pos(l, x, l.con.scroll2))).pf2 ELSE 0

DualAt(l, n, scroll) == origin(l) + (n - 1) + scroll * hscale(l.con)

DualPut(l, cells, x, ci, pf) ==
    IF ci = 0 \/ x \notin l.win \cap Xs THEN cells
    ELSE [cells EXCEPT ![x] = dual_put(@, ci, pf, l)]

DualNext(l, n, cells) ==
    DualPut(l, DualPut(l, cells, DualAt(l, n, l.con.scroll1), dualpf_decode(Value(l, n)).pf1, 1),
            DualAt(l, n, l.con.scroll2), dualpf_decode(Value(l, n)).pf2, 2)

DualCells(l, n) == [x \in Xs |-> Merged(l, One(l, n, x), Two(l, n, x))]

LEMMA DualAtPos ==
    ASSUME NEW l \in LineRec, NEW n \in Nat, NEW s \in 0..MaxScroll, NEW x \in Xs
    PROVE  /\ x \in Int /\ Pos(l, x, s) \in Int
           /\ (x = DualAt(l, n, s)) <=> (Pos(l, x, s) = n)
<1>1. x \in Int
  BY PixelsAssumption DEF Xs
<1>2. Pos(l, x, s) \in Int /\ s * hscale(l.con) \in Nat /\ origin(l) \in Nat
  BY <1>1, PosInt, OriginNat
<1>3. PICK a \in Nat : a = origin(l)
  BY <1>2
<1>4. PICK b \in Nat : b = s * hscale(l.con)
  BY <1>2
<1>5. Pos(l, x, s) = x - a - b + 1 /\ DualAt(l, n, s) = a + (n - 1) + b
  BY <1>3, <1>4, Zenon DEF Pos, DualAt
<1> QED
  BY <1>1, <1>2, <1>5

(* An arriving pixel changes the one cell where it is shown.               *)
PutDone(l, new, cells, y, ci, pf) ==
    new = [x \in Xs |-> IF x = y /\ x \in l.win /\ ci # 0
                        THEN dual_put(cells[x], ci, pf, l) ELSE cells[x]]

LEMMA DualPutAt ==
    ASSUME NEW l, NEW cells, cells = [x \in Xs |-> cells[x]], NEW y, NEW ci, NEW pf
    PROVE  PutDone(l, DualPut(l, cells, y, ci, pf), cells, y, ci, pf)
<1>1. CASE ci = 0 \/ y \notin l.win \cap Xs
  <2>1. DualPut(l, cells, y, ci, pf) = cells
    BY <1>1, Zenon DEF DualPut
  <2>2. \A x \in Xs : ~(x = y /\ x \in l.win /\ ci # 0)
    BY <1>1, Zenon
  <2> QED
    BY <2>1, <2>2, Zenon DEF PutDone
<1>2. CASE ~(ci = 0 \/ y \notin l.win \cap Xs)
  <2>1. DualPut(l, cells, y, ci, pf) = [cells EXCEPT ![y] = dual_put(cells[y], ci, pf, l)]
    BY <1>2, Zenon DEF DualPut
  <2>2. DualPut(l, cells, y, ci, pf) =
          [x \in Xs |-> IF x = y THEN dual_put(cells[y], ci, pf, l) ELSE cells[x]]
    BY <1>2, <2>1, Zenon
  <2> QED
    BY <1>2, <2>2, Zenon DEF PutDone
<1> QED
  BY <1>1, <1>2

LEMMA DualStep ==
    ASSUME NEW l \in LineRec, NEW n \in Nat
    PROVE  DualNext(l, n + 1, DualCells(l, n)) = DualCells(l, n + 1)
<1>1. l.con.scroll1 \in 0..MaxScroll /\ l.con.scroll2 \in 0..MaxScroll
  BY LineFields, ConFields, Zenon
<1>2. PICK d : d = dualpf_decode(Value(l, n + 1))
  OBVIOUS
<1>3. PICK y1 : y1 = DualAt(l, n + 1, l.con.scroll1)
  OBVIOUS
<1>4. PICK y2 : y2 = DualAt(l, n + 1, l.con.scroll2)
  OBVIOUS
<1>5. PICK c0 : c0 = DualCells(l, n)
  OBVIOUS
<1>6. PICK c1 : c1 = DualPut(l, c0, y1, d.pf1, 1)
  OBVIOUS
<1>7. PICK c2 : c2 = DualPut(l, c1, y2, d.pf2, 2)
  OBVIOUS
<1>8. DualNext(l, n + 1, c0) = c2
  BY <1>2, <1>3, <1>4, <1>6, <1>7, Zenon DEF DualNext
<1>9. c0 = [x \in Xs |-> c0[x]] /\ \A x \in Xs : c0[x] = Merged(l, One(l, n, x), Two(l, n, x))
  BY <1>5, Zenon DEF DualCells
<1>10. c1 = [x \in Xs |-> c1[x]] /\ \A x \in Xs : c1[x] =
         IF x = y1 /\ x \in l.win /\ d.pf1 # 0 THEN dual_put(c0[x], d.pf1, 1, l) ELSE c0[x]
  <2>1. PutDone(l, c1, c0, y1, d.pf1, 1)
    BY <1>6, <1>9, DualPutAt, Zenon
  <2> QED
    BY <2>1, Zenon DEF PutDone
<1>11. c2 = [x \in Xs |-> c2[x]] /\ \A x \in Xs : c2[x] =
         IF x = y2 /\ x \in l.win /\ d.pf2 # 0 THEN dual_put(c1[x], d.pf2, 2, l) ELSE c1[x]
  <2>1. PutDone(l, c2, c1, y2, d.pf2, 2)
    BY <1>7, <1>10, DualPutAt, Zenon
  <2> QED
    BY <2>1, Zenon DEF PutDone
<1>12. ASSUME NEW x \in Xs PROVE c2[x] = Merged(l, One(l, n + 1, x), Two(l, n + 1, x))
  <2>1. /\ Pos(l, x, l.con.scroll1) \in Int
        /\ (x = y1) <=> (Pos(l, x, l.con.scroll1) = n + 1)
        /\ Pos(l, x, l.con.scroll2) \in Int
        /\ (x = y2) <=> (Pos(l, x, l.con.scroll2) = n + 1)
    BY <1>1, <1>3, <1>4, DualAtPos
  <2>2. PICK p1 \in Int : p1 = Pos(l, x, l.con.scroll1)
    BY <2>1
  <2>3. PICK p2 \in Int : p2 = Pos(l, x, l.con.scroll2)
    BY <2>1
  <2>4. /\ p1 \in 1..(n + 1) <=> p1 \in 1..n \/ p1 = n + 1
        /\ p2 \in 1..(n + 1) <=> p2 \in 1..n \/ p2 = n + 1
        /\ ~(n + 1 \in 1..n)
    OBVIOUS
  <2>5. One(l, n + 1, x) = IF x = y1 /\ x \in l.win THEN d.pf1 ELSE One(l, n, x)
    BY <1>2, <2>1, <2>2, <2>4, Zenon DEF One
  <2>6. Two(l, n + 1, x) = IF x = y2 /\ x \in l.win THEN d.pf2 ELSE Two(l, n, x)
    BY <1>2, <2>1, <2>3, <2>4, Zenon DEF Two
  <2>7. x = y1 => One(l, n, x) = 0
    BY <2>1, <2>2, <2>4, Zenon DEF One
  <2>8. x = y2 => Two(l, n, x) = 0
    BY <2>1, <2>3, <2>4, Zenon DEF Two
  <2>9. c1[x] = Merged(l, One(l, n + 1, x), Two(l, n, x))
    <3>1. CASE x = y1 /\ x \in l.win /\ d.pf1 # 0
      <4>1. c1[x] = dual_put(c0[x], d.pf1, 1, l) /\ One(l, n + 1, x) = d.pf1
        BY <1>10, <2>5, <3>1, Zenon
      <4>2. c0[x] = Merged(l, 0, Two(l, n, x))
        BY <1>9, <2>7, <3>1, Zenon
      <4>3. dual_put(Merged(l, 0, Two(l, n, x)), d.pf1, 1, l) = Merged(l, d.pf1, Two(l, n, x))
        BY <3>1, PutMerges
      <4> QED
        BY <4>1, <4>2, <4>3, Zenon
    <3>2. CASE ~(x = y1 /\ x \in l.win /\ d.pf1 # 0)
      BY <1>9, <1>10, <2>5, <2>7, <3>2, Zenon
    <3> QED
      BY <3>1, <3>2
  <2>10. CASE x = y2 /\ x \in l.win /\ d.pf2 # 0
    <3>1. c2[x] = dual_put(c1[x], d.pf2, 2, l) /\ Two(l, n + 1, x) = d.pf2
      BY <1>11, <2>6, <2>10, Zenon
    <3>2. c1[x] = Merged(l, One(l, n + 1, x), 0)
      BY <2>8, <2>9, <2>10, Zenon
    <3>3. dual_put(Merged(l, One(l, n + 1, x), 0), d.pf2, 2, l) = Merged(l, One(l, n + 1, x), d.pf2)
      BY <2>10, PutMerges
    <3> QED
      BY <3>1, <3>2, <3>3, Zenon
  <2>11. CASE ~(x = y2 /\ x \in l.win /\ d.pf2 # 0)
    BY <1>11, <2>6, <2>8, <2>9, <2>11, Zenon
  <2> QED
    BY <2>10, <2>11
<1>14. c2 = [x \in Xs |-> Merged(l, One(l, n + 1, x), Two(l, n + 1, x))]
  BY <1>11, <1>12, Zenon
<1> QED
  BY <1>5, <1>8, <1>14, Zenon DEF DualCells

LEMMA DualStart ==
    ASSUME NEW l
    PROVE  DualCells(l, 0) = Background(l)
<1>1. 1..0 = {}
  OBVIOUS
<1>2. \A x : One(l, 0, x) = 0 /\ Two(l, 0, x) = 0
  BY <1>1, Zenon DEF One, Two
<1> QED
  BY <1>2, Zenon DEF DualCells, Merged, Cell, Background

DualEq(l, g) == g = [n \in 0..Len(l.px) |->
                       IF n = 0 THEN Background(l) ELSE DualNext(l, n, g[n - 1])]

LEMMA DualCarried ==
    ASSUME NEW l \in LineRec
    PROVE  dual_line(l) = DualCells(l, Len(l.px))
<1>0. Len(l.px) \in Nat
  BY LineFields
<1> DEFINE h == [k \in 0..Len(l.px) |-> DualCells(l, k)]
<1>1. ASSUME NEW k \in 0..Len(l.px)
      PROVE  h[k] = IF k = 0 THEN Background(l) ELSE DualNext(l, k, h[k - 1])
  <2>1. CASE k = 0
    BY <2>1, DualStart, Zenon
  <2>2. CASE k # 0
    <3>1. PICK m \in Nat : m + 1 = k /\ m = k - 1 /\ m \in 0..Len(l.px)
      <4>1. k - 1 \in Nat /\ (k - 1) + 1 = k /\ k - 1 \in 0..Len(l.px)
        BY <1>0, <2>2
      <4> QED
        BY <4>1
    <3>2. DualNext(l, m + 1, DualCells(l, m)) = DualCells(l, m + 1)
      BY DualStep, Zenon
    <3> QED
      BY <2>2, <3>1, <3>2, Zenon
  <2> QED
    BY <2>1, <2>2
<1>2. DualEq(l, h)
  BY <1>1, Zenon DEF DualEq
<1> DEFINE at == CHOOSE g : DualEq(l, g)
<1>3. DualEq(l, at)
  BY <1>2, Zenon
<1>4. dual_line(l) = at[Len(l.px)]
  BY Zenon DEF dual_line, DualEq, DualNext, DualPut, DualAt, Value
<1> HIDE DEF at
<1>5. \A k \in 0..Len(l.px) : at[k] = IF k = 0 THEN Background(l) ELSE DualNext(l, k, at[k - 1])
  BY <1>3, Zenon DEF DualEq
<1> DEFINE S == {k \in Nat : k \in 0..Len(l.px) => at[k] = DualCells(l, k)}
<1>6. 0 \in S
  <2>1. 0 \in 0..Len(l.px)
    BY <1>0
  <2>2. at[0] = DualCells(l, 0)
    BY <1>5, <2>1, DualStart, Zenon
  <2> QED
    BY <2>2
<1>7. ASSUME NEW k \in Nat, k \in S PROVE k + 1 \in S
  <2> SUFFICES ASSUME k + 1 \in 0..Len(l.px) PROVE at[k + 1] = DualCells(l, k + 1)
    OBVIOUS
  <2>1. k \in 0..Len(l.px) /\ k + 1 # 0 /\ (k + 1) - 1 = k
    BY <1>0
  <2>2. at[k] = DualCells(l, k)
    BY <1>7, <2>1
  <2>3. at[k + 1] = DualNext(l, k + 1, at[k])
    BY <1>5, <2>1, Zenon
  <2> QED
    BY <2>2, <2>3, DualStep, Zenon
<1>8. Nat \subseteq S
  BY <1>6, <1>7, SetInduction
<1>9. Len(l.px) \in S /\ Len(l.px) \in 0..Len(l.px)
  BY <1>0, <1>8
<1>10. at[Len(l.px)] = DualCells(l, Len(l.px))
  BY <1>9
<1> QED
  BY <1>4, <1>10, Zenon

LEMMA DecodeRanges ==
    ASSUME NEW v \in Nat
    PROVE  dualpf_decode(v).pf1 \in 0..7 /\ dualpf_decode(v).pf2 \in {0} \cup 9..15
<1>1. \A p \in 0..5 : PlaneBit(v, p) \in Bits
  BY BitsAreBits
<1>2. 0 \in 0..5 /\ 1 \in 0..5 /\ 2 \in 0..5 /\ 3 \in 0..5 /\ 4 \in 0..5 /\ 5 \in 0..5
  OBVIOUS
<1>3. PICK one : one = PlaneBit(v, 0) + 2 * PlaneBit(v, 2) + 4 * PlaneBit(v, 4)
  OBVIOUS
<1>4. PICK two : two = PlaneBit(v, 1) + 2 * PlaneBit(v, 3) + 4 * PlaneBit(v, 5)
  OBVIOUS
<1>5. one \in 0..7 /\ two \in 0..7
  BY <1>1, <1>2, <1>3, <1>4 DEF Bits
<1>6. dualpf_decode(v) = [pf1 |-> one, pf2 |-> IF two = 0 THEN 0 ELSE two + 8]
  BY <1>3, <1>4, Zenon DEF dualpf_decode
<1>7. dualpf_decode(v).pf1 = one /\ dualpf_decode(v).pf2 = IF two = 0 THEN 0 ELSE two + 8
  BY <1>6
<1> QED
  BY <1>5, <1>7

LEMMA DualAgrees ==
    ASSUME NEW l \in LineRec, NEW x \in Xs, ~l.con.ham, l.con.dual,
           l.con.depth \in 1..6, Len(l.px) > 0
    PROVE  AgreeAt(l, dual_line(l)[x], x)
<1>0. x \in Int /\ Len(l.px) \in Nat /\ l.con.bit6 \in BOOLEAN
  BY LineFields, ConFields, PixelsAssumption DEF Xs
<1>1. PICK n : n = Len(l.px)
  OBVIOUS
<1>2. PICK c : c = dual_line(l)[x]
  OBVIOUS
<1>3. c = Merged(l, One(l, n, x), Two(l, n, x))
  BY <1>1, <1>2, DualCarried, Zenon DEF DualCells
<1>4. ~HamAt(l, x)
  BY Zenon DEF HamAt
<1>5. CASE x \notin l.win
  <2>1. One(l, n, x) = 0 /\ Two(l, n, x) = 0
    BY <1>5, Zenon DEF One, Two
  <2>2. c = Background(l)[x]
    BY <1>3, <2>1, Zenon DEF Merged, Cell, Background
  <2>3. ResValue(l, x) = 0
    BY <1>5, Zenon DEF ResValue, Drawn
  <2> QED
    BY <1>2, <1>4, <2>2, <2>3, BackgroundAgrees, Zenon
<1>6. CASE x \in l.win
  <2>1. PICK d : d = dualpf_decode(planes_at(l, x))
    OBVIOUS
  <2>2. One(l, n, x) = d.pf1 /\ Two(l, n, x) = d.pf2
    <3>1. PICK n1 : n1 = Pos(l, x, l.con.scroll1)
      OBVIOUS
    <3>2. PICK n2 : n2 = Pos(l, x, l.con.scroll2)
      OBVIOUS
    <3>3. /\ d.pf1 = IF n1 \in 1..Len(l.px) THEN dualpf_decode(Value(l, n1)).pf1 ELSE 0
          /\ d.pf2 = IF n2 \in 1..Len(l.px) THEN dualpf_decode(Value(l, n2)).pf2 ELSE 0
      BY <1>0, <2>1, <3>1, <3>2, DualDecoded
    <3> QED
      BY <1>1, <1>6, <3>1, <3>2, <3>3, Zenon DEF One, Two
  <2>3. planes_at(l, x) \in Nat
    <3>1. planes_at(l, x) \in 0..63
      BY <1>0, PlanesAt
    <3>2. 0..63 \subseteq Nat
      OBVIOUS
    <3> QED
      BY <3>1, <3>2, Zenon
  <2>4. d.pf1 \in 0..7 /\ d.pf2 \in {0} \cup 9..15
    BY <2>1, <2>3, DecodeRanges
  <2>5. PICK d1 \in 0..7 : d1 = d.pf1
    BY <2>4
  <2>6. PICK d2 \in {0} \cup 9..15 : d2 = d.pf2
    BY <2>4
  <2>7. PICK k : k = dualpf_priority_resolve(d, l.con)
    OBVIOUS
  <2>8. k = IF d2 = 0 THEN d1 ELSE IF d1 = 0 THEN d2 ELSE IF l.con.bit6 THEN d2 ELSE d1
    BY <2>5, <2>6, <2>7, Zenon DEF dualpf_priority_resolve
  <2>9. ResColor(l, x) = k
    BY <1>6, <2>1, <2>7, Zenon DEF ResColor, ResValue, Drawn, DualCon
  <2>10. ResPrio(l, x) = IF d2 # 0 /\ (d1 = 0 \/ l.con.bit6) THEN l.con.pf2p ELSE l.con.pf1p
    <3>1. k > 8 <=> d2 # 0 /\ (d1 = 0 \/ l.con.bit6)
      BY <1>0, <2>8
    <3> QED
      BY <2>9, <3>1, Zenon DEF ResPrio, DualCon
  <2>11. ResRgb(l, x) = l.pal[k]
    BY <1>4, <2>9, Zenon DEF ResRgb, DualCon
  <2>12. resolved_playfields(l, x) = {pf \in {1, 2} : (IF pf = 1 THEN d1 ELSE d2) # 0}
    BY <2>1, <2>5, <2>6, ResolvedActive, Zenon
  <2>13. c = Merged(l, d1, d2)
    BY <1>3, <2>2, <2>5, <2>6, Zenon
  <2> DEFINE a == IF d1 = 0 THEN IF d2 = 0 THEN {} ELSE {2} ELSE IF d2 = 0 THEN {1} ELSE {1, 2}
             p == IF d2 # 0 /\ (d1 = 0 \/ l.con.bit6) THEN l.con.pf2p ELSE l.con.pf1p
  <2>14. resolved_playfields(l, x) = a
    <3>1. CASE d1 = 0 /\ d2 = 0
      BY <2>12, <3>1
    <3>2. CASE d1 = 0 /\ d2 # 0
      BY <2>12, <3>2
    <3>3. CASE d1 # 0 /\ d2 = 0
      BY <2>12, <3>3
    <3>4. CASE d1 # 0 /\ d2 # 0
      BY <2>12, <3>4
    <3> QED
      BY <3>1, <3>2, <3>3, <3>4
  <2>15. c = Cell(l.pal[k], k, p, a)
    BY <1>0, <2>8, <2>13, Zenon DEF Merged
  <2>16. c.rgb = l.pal[k] /\ c.color = k /\ c.prio = p /\ c.active = a
    <3> HIDE DEF a, p
    <3> QED
      BY <2>15 DEF Cell
  <2> QED
    BY <1>2, <2>9, <2>10, <2>11, <2>14, <2>16, Zenon DEF AgreeAt
<1> QED
  BY <1>5, <1>6

LEMMA PlayfieldAgrees ==
    ASSUME NEW l \in LineRec, NEW x \in Xs
    PROVE  AgreeAt(l, playfield(l)[x], x)
<1>0. l.con.ham \in BOOLEAN /\ l.con.dual \in BOOLEAN
  BY LineFields, ConFields, Zenon
<1>1. CASE ~(l.con.depth \in 1..6 /\ Len(l.px) > 0)
  <2>1. playfield(l) = Background(l)
    BY <1>1, Zenon DEF playfield
  <2>2. ~HamAt(l, x) /\ ResValue(l, x) = 0
    BY <1>1, Zenon DEF HamAt, ResValue, Drawn
  <2> QED
    BY <2>1, <2>2, BackgroundAgrees, Zenon
<1>2. CASE l.con.depth \in 1..6 /\ Len(l.px) > 0
  <2>1. CASE l.con.ham
    <3>1. playfield(l) = ham_line(l)
      BY <1>2, <2>1, Zenon DEF playfield
    <3> QED
      BY <1>2, <2>1, <3>1, HamAgrees, Zenon
  <2>2. CASE ~l.con.ham /\ l.con.dual
    <3>1. playfield(l) = dual_line(l)
      BY <1>2, <2>2, Zenon DEF playfield
    <3> QED
      BY <1>2, <2>2, <3>1, DualAgrees, Zenon
  <2>3. CASE ~l.con.ham /\ ~l.con.dual /\ l.con.scroll1 = l.con.scroll2
    <3>1. playfield(l) = even_line(l)
      BY <1>2, <2>3, Zenon DEF playfield
    <3> QED
      BY <1>2, <2>3, <3>1, EvenAgrees, Zenon
  <2>4. CASE ~l.con.ham /\ ~l.con.dual /\ l.con.scroll1 # l.con.scroll2
    <3>1. playfield(l) = split_line(l)
      BY <1>2, <2>4, Zenon DEF playfield
    <3> QED
      BY <1>2, <2>4, <3>1, SplitAgrees, Zenon
  <2> QED
    BY <1>0, <2>1, <2>2, <2>3, <2>4, Zenon
<1> QED
  BY <1>1, <1>2

-----------------------------------------------------------------------------
(* Sprites drawn from the back leave at each pixel the one in front.       *)
InFront(l, c, i, x) == sprite_index(l, i, x) # 0 /\ (c.color = 0 \/ (i \div 2) + c.prio < 4)

FrontFrom(l, c, m, x) == {i \in m..7 : InFront(l, c, i, x)}

LeastOf(S) == CHOOSE i \in S : \A j \in S : i <= j

Over(l, c, m, x) == IF FrontFrom(l, c, m, x) = {} THEN c.rgb
                    ELSE l.pal[sprite_index(l, LeastOf(FrontFrom(l, c, m, x)), x)]

LEMMA OverStep ==
    ASSUME NEW l, NEW c, NEW x, NEW m \in 0..7
    PROVE  /\ Over(l, c, 8, x) = c.rgb
           /\ Over(l, c, m, x) = IF InFront(l, c, m, x) THEN l.pal[sprite_index(l, m, x)]
                                 ELSE Over(l, c, m + 1, x)
<1>1. 8..7 = {} /\ m..7 = {m} \cup (m + 1)..7
  OBVIOUS
<1>2. Over(l, c, 8, x) = c.rgb
  BY <1>1, Zenon DEF Over, FrontFrom
<1>3. CASE InFront(l, c, m, x)
  <2>1. m \in FrontFrom(l, c, m, x) /\ \A j \in FrontFrom(l, c, m, x) : m <= j
    BY <1>3 DEF FrontFrom
  <2>2. ASSUME NEW i \in FrontFrom(l, c, m, x), \A j \in FrontFrom(l, c, m, x) : i <= j
        PROVE  i = m
    <3>1. i <= m /\ i \in m..7
      BY <2>1, <2>2 DEF FrontFrom
    <3> QED
      BY <3>1
  <2>3. LeastOf(FrontFrom(l, c, m, x)) = m
    BY <2>1, <2>2, Zenon DEF LeastOf
  <2>4. FrontFrom(l, c, m, x) # {}
    BY <2>1
  <2> QED
    BY <1>2, <1>3, <2>3, <2>4, Zenon DEF Over
<1>4. CASE ~InFront(l, c, m, x)
  <2>1. FrontFrom(l, c, m, x) = FrontFrom(l, c, m + 1, x)
    BY <1>1, <1>4, Zenon DEF FrontFrom
  <2> QED
    BY <1>2, <1>4, <2>1, Zenon DEF Over
<1> QED
  BY <1>3, <1>4

SpriteStep(l, cells, i, rgb) ==
    [x \in Xs |-> IF sprite_index(l, i, x) # 0
                     /\ (cells[x].color = 0 \/ (i \div 2) + cells[x].prio < 4)
                  THEN l.pal[sprite_index(l, i, x)] ELSE rgb[x]]

SpriteEq(l, cells, g) ==
    g = [n \in 0..8 |-> IF n = 0 THEN [x \in Xs |-> cells[x].rgb]
                        ELSE SpriteStep(l, cells, 8 - n, g[n - 1])]

DrawnOver(l, cells, m) == [x \in Xs |-> Over(l, cells[x], m, x)]

LEMMA DrawnOverStart ==
    ASSUME NEW l, NEW cells
    PROVE  DrawnOver(l, cells, 8) = [x \in Xs |-> cells[x].rgb]
<1>1. 0 \in 0..7
  OBVIOUS
<1>2. \A c, x : Over(l, c, 8, x) = c.rgb
  BY <1>1, OverStep
<1> QED
  BY <1>2, Zenon DEF DrawnOver

LEMMA DrawnOverStep ==
    ASSUME NEW l, NEW cells, NEW m \in 0..7
    PROVE  DrawnOver(l, cells, m) = SpriteStep(l, cells, m, DrawnOver(l, cells, m + 1))
<1>1. \A x \in Xs : Over(l, cells[x], m, x) =
                         IF InFront(l, cells[x], m, x) THEN l.pal[sprite_index(l, m, x)]
                         ELSE DrawnOver(l, cells, m + 1)[x]
  BY OverStep, Zenon DEF DrawnOver
<1> QED
  BY <1>1, Zenon DEF DrawnOver, SpriteStep, InFront

LEMMA SpritesDrawn ==
    ASSUME NEW l, NEW cells
    PROVE  sprites_over(l, cells) = DrawnOver(l, cells, 0)
<1> DEFINE h == [n \in 0..8 |-> DrawnOver(l, cells, 8 - n)]
<1>1. ASSUME NEW n \in 0..8
      PROVE  h[n] = IF n = 0 THEN [x \in Xs |-> cells[x].rgb]
                    ELSE SpriteStep(l, cells, 8 - n, h[n - 1])
  <2>1. 8 - 0 = 8 /\ 0 \in 0..7
    OBVIOUS
  <2>2. CASE n = 0
    <3>1. DrawnOver(l, cells, 8) = [x \in Xs |-> cells[x].rgb]
      BY DrawnOverStart
    <3>2. h[n] = DrawnOver(l, cells, 8)
      BY <2>2
    <3> QED
      BY <2>2, <3>1, <3>2, Zenon
  <2>3. CASE n # 0
    <3>1. n - 1 \in 0..8 /\ 8 - (n - 1) = (8 - n) + 1 /\ 8 - n \in 0..7
      BY <2>3
    <3>2. DrawnOver(l, cells, 8 - n) = SpriteStep(l, cells, 8 - n, DrawnOver(l, cells, (8 - n) + 1))
      BY <3>1, DrawnOverStep, Zenon
    <3> QED
      BY <2>3, <3>1, <3>2, Zenon
  <2> QED
    BY <2>2, <2>3
<1>2. SpriteEq(l, cells, h)
  BY <1>1, Zenon DEF SpriteEq
<1> DEFINE at == CHOOSE g : SpriteEq(l, cells, g)
<1>3. SpriteEq(l, cells, at)
  BY <1>2, Zenon
<1>4. sprites_over(l, cells) = at[8]
  BY Zenon DEF sprites_over, SpriteEq, SpriteStep
<1> HIDE DEF at
<1>5. \A n \in 0..8 : at[n] = IF n = 0 THEN [x \in Xs |-> cells[x].rgb]
                              ELSE SpriteStep(l, cells, 8 - n, at[n - 1])
  BY <1>3, Zenon DEF SpriteEq
<1> DEFINE S == {n \in Nat : n \in 0..8 => at[n] = DrawnOver(l, cells, 8 - n)}
<1>6. 0 \in S
  <2>1. 8 - 0 = 8 /\ 0 \in 0..7 /\ 0 \in 0..8
    OBVIOUS
  <2>2. DrawnOver(l, cells, 8) = [x \in Xs |-> cells[x].rgb]
    BY DrawnOverStart
  <2>3. at[0] = DrawnOver(l, cells, 8 - 0)
    BY <1>5, <2>1, <2>2
  <2> QED
    BY <2>3
<1>7. ASSUME NEW n \in Nat, n \in S PROVE n + 1 \in S
  <2> SUFFICES ASSUME n + 1 \in 0..8 PROVE at[n + 1] = DrawnOver(l, cells, 8 - (n + 1))
    OBVIOUS
  <2>1. /\ n \in 0..8 /\ n + 1 # 0 /\ (n + 1) - 1 = n /\ 8 - (n + 1) \in 0..7
        /\ (8 - (n + 1)) + 1 = 8 - n
    OBVIOUS
  <2>2. at[n] = DrawnOver(l, cells, 8 - n)
    BY <1>7, <2>1
  <2>3. at[n + 1] = SpriteStep(l, cells, 8 - (n + 1), at[n])
    BY <1>5, <2>1, Zenon
  <2>4. PICK m \in 0..7 : m = 8 - (n + 1)
    BY <2>1
  <2>5. DrawnOver(l, cells, m) = SpriteStep(l, cells, m, DrawnOver(l, cells, m + 1))
    BY DrawnOverStep
  <2> QED
    BY <2>1, <2>2, <2>3, <2>4, <2>5, Zenon
<1>8. Nat \subseteq S
  BY <1>6, <1>7, SetInduction
<1>9. 8 \in S /\ 8 \in 0..8 /\ 8 - 8 = 0
  BY <1>8
<1>10. at[8] = DrawnOver(l, cells, 0)
  <2>1. at[8] = DrawnOver(l, cells, 8 - 8)
    BY <1>9
  <2> QED
    BY <1>9, <2>1, Zenon
<1> QED
  BY <1>4, <1>10, Zenon

(* The picture: what the compositor draws as pixels arrive and sprites are *)
(* laid over each other is what the resolvers give for every pixel.        *)
THEOREM ComposedAsResolved ==
    \A l \in LineRec : compose_line(l) = resolved_line(l)
<1> SUFFICES ASSUME NEW l \in LineRec PROVE compose_line(l) = resolved_line(l)
  OBVIOUS
<1>1. PICK cells : cells = playfield(l)
  OBVIOUS
<1>2. compose_line(l) = [x \in Xs |-> Over(l, cells[x], 0, x)]
  BY <1>1, SpritesDrawn, Zenon DEF compose_line, DrawnOver
<1>3. ASSUME NEW x \in Xs PROVE Over(l, cells[x], 0, x) = resolved_pixel(l, x)
  <2>1. AgreeAt(l, cells[x], x)
    BY <1>1, PlayfieldAgrees, Zenon
  <2>2. PICK c : c = cells[x]
    OBVIOUS
  <2>3. c.rgb = ResRgb(l, x) /\ c.color = ResColor(l, x) /\ c.prio = ResPrio(l, x)
    BY <2>1, <2>2, Zenon DEF AgreeAt
  <2>4. PICK px : px = [i \in 0..7 |-> sprite_index(l, i, x)]
    OBVIOUS
  <2>5. PICK F : F = FrontFrom(l, c, 0, x)
    OBVIOUS
  <2>6. F = {i \in 0..7 : px[i] # 0 /\ (ResColor(l, x) = 0 \/ (i \div 2) + ResPrio(l, x) < 4)}
    BY <2>3, <2>4, <2>5, Zenon DEF FrontFrom, InFront
  <2>7. PICK s : s = priority_resolve(ResColor(l, x), ResPrio(l, x), px)
    OBVIOUS
  <2>8. s = IF F = {} THEN 8 ELSE LeastOf(F)
    <3> DEFINE G == {i \in 0..7 : px[i] # 0 /\ (ResColor(l, x) = 0 \/ (i \div 2) + ResPrio(l, x) < 4)}
    <3>1. s = IF G = {} THEN 8 ELSE LeastOf(G)
      BY <2>7, Zenon DEF priority_resolve, LeastOf
    <3>2. F = G
      BY <2>6, Zenon
    <3> HIDE DEF G
    <3> QED
      BY <3>1, <3>2, Zenon
  <2>9. resolved_pixel(l, x) = IF s < 8 THEN l.pal[sprite_index(l, s, x)] ELSE ResRgb(l, x)
    BY <2>4, <2>7, ResolvedIs, Zenon
  <2>10. CASE F = {}
    <3>1. ~(s < 8)
      BY <2>8, <2>10
    <3> QED
      BY <2>2, <2>3, <2>5, <2>9, <2>10, <3>1, Zenon DEF Over
  <2>11. CASE F # {}
    <3>1. F \in SUBSET Nat
      BY <2>6
    <3>2. PICK i \in F : \A j \in F : ~(j < i)
      BY <2>11, <3>1, LeastNat
    <3>3. \A j \in F : i <= j
      BY <3>1, <3>2
    <3>4. LeastOf(F) \in F
      BY <3>3, Zenon DEF LeastOf
    <3>5. s \in 0..7
      BY <2>6, <2>8, <2>11, <3>4, Zenon
    <3>6. s < 8
      BY <3>5
    <3> QED
      BY <2>2, <2>5, <2>8, <2>9, <2>11, <3>6, Zenon DEF Over
  <2> QED
    BY <2>10, <2>11
<1> QED
  BY <1>2, <1>3, Zenon DEF resolved_line

-----------------------------------------------------------------------------
(* Collisions: where two compared sprites of a kind, or the playfields,    *)
(* meet within the window, the bit for them is set.                        *)
SpriteAt(l, i) == {x \in l.win \cap Xs : sprite_index(l, i, x) # 0}

Meet(l, clx, i, j) ==
    i < j /\ i % 2 = j % 2 /\ {i \div 2, j \div 2} \subseteq clx.pairs
    /\ SpriteAt(l, i) \cap SpriteAt(l, j) # {}

MetIn(l, clx) ==
    {bit \in {0, 1} : \E i, j \in 0..7 : Meet(l, clx, i, j) /\ i % 2 = 1 - bit}
    \cup {bit \in {6} : \E x \in l.win \cap Xs : resolved_playfields(l, x) = {1, 2}}

Paired(clx, S, odd) == {i \in S : i % 2 = odd /\ i \div 2 \in clx.pairs}

LEMMA TwoCount ==
    ASSUME NEW T, T \in SUBSET (0..7), NEW i \in T, NEW j \in T, i # j
    PROVE  Cardinality(T) > 1
<1>1. IsFiniteSet(T)
  <2>0. 0 \in Int /\ 7 \in Int
    OBVIOUS
  <2>1. IsFiniteSet(0..7)
    BY <2>0, FS_Interval, Zenon
  <2> QED
    BY <2>1, FS_Subset
<1>2. IsFiniteSet({i}) /\ Cardinality({i}) = 1
  BY FS_Singleton
<1>3. Cardinality({i} \cup {j}) = 2
  <2>1. j \notin {i}
    OBVIOUS
  <2> QED
    BY <1>2, <2>1, FS_AddElement
<1>4. {i} \cup {j} \subseteq T
  OBVIOUS
<1>5. Cardinality({i} \cup {j}) <= Cardinality(T) /\ Cardinality(T) \in Nat
  BY <1>1, <1>4, FS_Subset, FS_CardinalityType
<1> QED
  BY <1>3, <1>5

LEMMA CheckedPixel ==
    ASSUME NEW clx, NEW S, NEW active
    PROVE  /\ Cardinality(Paired(clx, S, 1)) > 1 => 0 \in collision_check_pixel(clx, S, active)
           /\ Cardinality(Paired(clx, S, 0)) > 1 => 1 \in collision_check_pixel(clx, S, active)
           /\ active = {1, 2} => 6 \in collision_check_pixel(clx, S, active)
<1> DEFINE meets(odd, pf) == clx.pf /\ pf \in active /\ \E i \in S : i % 2 = odd
           T(b) == CASE b = 0 -> Cardinality(Paired(clx, S, 1)) > 1
                     [] b = 1 -> Cardinality(Paired(clx, S, 0)) > 1
                     [] b \in 2..5 -> meets((b + 1) % 2, b \div 2)
                     [] b = 6 -> active = {1, 2}
<1>1. collision_check_pixel(clx, S, active) = {b \in 0..6 : T(b)}
  BY Zenon DEF collision_check_pixel, Paired
<1>2. /\ 0 \in 0..6 /\ 1 \in 0..6 /\ 6 \in 0..6
      /\ 0 # 1 /\ 0 # 6 /\ 1 # 6 /\ 0 \notin 2..5 /\ 1 \notin 2..5 /\ 6 \notin 2..5
  OBVIOUS
<1>3. /\ T(0) <=> Cardinality(Paired(clx, S, 1)) > 1
      /\ T(1) <=> Cardinality(Paired(clx, S, 0)) > 1
      /\ T(6) <=> active = {1, 2}
  BY <1>2, Zenon
<1> HIDE DEF T
<1> QED
  BY <1>1, <1>2, <1>3, Zenon

LEMMA CollisionsSeen ==
    ASSUME NEW l \in LineRec, NEW clx \in Collide, clx.on
    PROVE  MetIn(l, clx) \subseteq collisions(l, clx)
<1> DEFINE Here(x) == {i \in 0..7 : sprite_index(l, i, x) # 0}
           Bitsof(x) == collision_check_pixel(clx, Here(x), playfield(l)[x].active)
<1>1. collisions(l, clx) = UNION {Bitsof(x) : x \in l.win \cap Xs}
  BY Zenon DEF collisions
<1>2. ASSUME NEW bit \in {0, 1}, NEW i \in 0..7, NEW j \in 0..7, Meet(l, clx, i, j),
             i % 2 = 1 - bit
      PROVE  bit \in collisions(l, clx)
  <2>1. PICK x \in l.win \cap Xs : sprite_index(l, i, x) # 0 /\ sprite_index(l, j, x) # 0
    BY <1>2, Zenon DEF Meet, SpriteAt
  <2>2. i \in Here(x) /\ j \in Here(x)
    BY <2>1, Zenon
  <2>3. i # j /\ j % 2 = i % 2 /\ i \div 2 \in clx.pairs /\ j \div 2 \in clx.pairs
    BY <1>2 DEF Meet
  <2>4. PICK T : T = Paired(clx, Here(x), 1 - bit)
    OBVIOUS
  <2>5. T \in SUBSET (0..7) /\ i \in T /\ j \in T
    BY <1>2, <2>2, <2>3, <2>4, Zenon DEF Paired
  <2>6. Cardinality(T) > 1
    BY <2>3, <2>5, TwoCount
  <2>7. bit \in Bitsof(x)
    <3>1. CASE bit = 0
      <4>1. 1 - bit = 1
        BY <3>1
      <4>2. Cardinality(Paired(clx, Here(x), 1)) > 1
        BY <2>4, <2>6, <4>1, Zenon
      <4> QED
        BY <3>1, <4>2, CheckedPixel, Zenon
    <3>2. CASE bit = 1
      <4>1. 1 - bit = 0
        BY <3>2
      <4>2. Cardinality(Paired(clx, Here(x), 0)) > 1
        BY <2>4, <2>6, <4>1, Zenon
      <4> QED
        BY <3>2, <4>2, CheckedPixel, Zenon
    <3> QED
      BY <3>1, <3>2
  <2> HIDE DEF Bitsof
  <2> QED
    BY <1>1, <2>1, <2>7, Zenon
<1>3. ASSUME NEW x \in l.win \cap Xs, resolved_playfields(l, x) = {1, 2}
      PROVE  6 \in collisions(l, clx)
  <2>1. AgreeAt(l, playfield(l)[x], x)
    BY PlayfieldAgrees, Zenon
  <2>2. playfield(l)[x].active = {1, 2}
    BY <1>3, <2>1, Zenon DEF AgreeAt
  <2>3. 6 \in Bitsof(x)
    BY <2>2, CheckedPixel, Zenon
  <2> HIDE DEF Bitsof
  <2> QED
    BY <1>1, <2>3, Zenon
<1> QED
  BY <1>2, <1>3, Zenon DEF MetIn

-----------------------------------------------------------------------------
(* The chipset's steps.                                                     *)

USE BeamAssumption, ConstantsAssumption

(* A beam that is on its line.                                             *)
OnLine == {b \in BeamState : b.hpos < line_hmax(b)}

Progressive(b) == ~ (b.lof \/ b.lol \/ b.lof_toggle \/ b.lol_toggle)

(* The three ways a clock moves the beam: along the line, to the next      *)
(* line, to the next frame.                                                *)
Along(b, c) ==
    c.hpos = b.hpos + 1 /\ c.vpos = b.vpos /\ c.frame_count = b.frame_count

NextLine(b, c) ==
    /\ b.hpos + 1 >= LineClocks
    /\ c.hpos = 0 /\ c.vpos = b.vpos + 1 /\ c.frame_count = b.frame_count

NextFrame(b, c) ==
    /\ b.hpos + 1 >= LineClocks /\ b.vpos + 1 >= b.frame_lines
    /\ c.hpos = 0 /\ c.vpos = 0 /\ c.frame_count = b.frame_count + 1

LEMMA BeamFields ==
    ASSUME NEW b \in BeamState
    PROVE  /\ b.hpos \in Nat /\ b.vpos \in Nat /\ b.frame_lines \in Nat \ {0}
           /\ b.frame_count \in Nat
           /\ line_hmax(b) \in {LineClocks, LineClocks + 1}
           /\ frame_vmax(b) \in {b.frame_lines, b.frame_lines + 1}
<1>1. /\ b.hpos \in Nat /\ b.vpos \in Nat /\ b.frame_lines \in Nat \ {0}
      /\ b.frame_count \in Nat
  BY Zenon DEF BeamState
<1>2. line_hmax(b) \in {LineClocks, LineClocks + 1}
  <2>1. CASE b.lol
    BY <2>1, Zenon DEF line_hmax
  <2>2. CASE ~b.lol
    BY <2>2 DEF line_hmax
  <2> QED
    BY <2>1, <2>2
<1>3. frame_vmax(b) \in {b.frame_lines, b.frame_lines + 1}
  <2>1. CASE b.lof
    BY <2>1, Zenon DEF frame_vmax
  <2>2. CASE ~b.lof
    BY <1>1, <2>2 DEF frame_vmax
  <2> QED
    BY <2>1, <2>2
<1> QED
  BY <1>1, <1>2, <1>3

LEMMA LineStep ==
    ASSUME NEW b \in OnLine, NEW c, c = advance_line(b), b.hpos + 1 >= line_hmax(b)
    PROVE  /\ c \in OnLine /\ c.frame_lines = b.frame_lines
           /\ NextLine(b, c) \/ NextFrame(b, c)
           /\ Progressive(b) => /\ Progressive(c)
                                /\ NextLine(b, c) => c.vpos < b.frame_lines
<1> DEFINE lol == b.lol_toggle /\ ~ b.lol
           lof == b.lof_toggle /\ ~ b.lof
           next == [b EXCEPT !.hpos = 0, !.vpos = b.vpos + 1, !.lol = lol]
           wrap == [next EXCEPT !.vpos = 0, !.frame_count = b.frame_count + 1, !.lof = lof]
<1>0. b \in BeamState
  BY DEF OnLine
<1>1. lol \in BOOLEAN /\ lof \in BOOLEAN
  OBVIOUS
<1>2. b.vpos + 1 \in Nat /\ b.frame_count + 1 \in Nat /\ 0 \in Nat
  BY <1>0, BeamFields
<1>3. c = IF next.vpos < frame_vmax(b) THEN next ELSE wrap
  BY Zenon DEF advance_line
<1> HIDE DEF lol, lof
<1>4. next \in BeamState
  BY <1>0, <1>1, <1>2, Zenon DEF BeamState
<1>5. /\ next.hpos = 0 /\ next.vpos = b.vpos + 1 /\ next.frame_count = b.frame_count
      /\ next.frame_lines = b.frame_lines /\ next.lol = lol /\ next.lof = b.lof
      /\ next.lol_toggle = b.lol_toggle /\ next.lof_toggle = b.lof_toggle
  BY <1>0, Zenon DEF BeamState
<1> HIDE DEF next
<1>6. wrap \in BeamState
  BY <1>1, <1>2, <1>4, Zenon DEF BeamState
<1>7. /\ wrap.hpos = next.hpos /\ wrap.vpos = 0 /\ wrap.frame_count = b.frame_count + 1
      /\ wrap.frame_lines = next.frame_lines /\ wrap.lol = next.lol /\ wrap.lof = lof
      /\ wrap.lol_toggle = next.lol_toggle /\ wrap.lof_toggle = next.lof_toggle
  BY <1>4, Zenon DEF BeamState
<1> HIDE DEF wrap
<1>8. b.hpos + 1 >= LineClocks
  BY <1>0, BeamFields
<1>9. CASE next.vpos < frame_vmax(b)
  <2>1. c = next
    BY <1>3, <1>9, Zenon
  <2>2. c \in OnLine
    <3>1. line_hmax(c) > 0
      BY <1>4, <2>1, BeamFields
    <3>2. c.hpos < line_hmax(c)
      BY <1>5, <2>1, <3>1
    <3> QED
      BY <1>4, <2>1, <3>2, Zenon DEF OnLine
  <2>3. Progressive(b) => Progressive(c)
    BY <1>5, <2>1, Zenon DEF Progressive, lol
  <2>4. Progressive(b) => c.vpos < b.frame_lines
    <3> SUFFICES ASSUME Progressive(b) PROVE c.vpos < b.frame_lines
      OBVIOUS
    <3>1. ~b.lof
      BY DEF Progressive
    <3>2. frame_vmax(b) = b.frame_lines
      BY <1>0, <3>1, BeamFields DEF frame_vmax
    <3> QED
      BY <1>9, <2>1, <3>2, Zenon
  <2>5. NextLine(b, c)
    BY <1>5, <1>8, <2>1, Zenon DEF NextLine
  <2> QED
    BY <1>5, <2>1, <2>2, <2>3, <2>4, <2>5, Zenon
<1>10. CASE ~(next.vpos < frame_vmax(b))
  <2>1. c = wrap
    BY <1>3, <1>10, Zenon
  <2>2. c \in OnLine
    <3>1. line_hmax(c) > 0
      BY <1>6, <2>1, BeamFields
    <3>2. c.hpos < line_hmax(c)
      BY <1>5, <1>7, <2>1, <3>1
    <3> QED
      BY <1>6, <2>1, <3>2, Zenon DEF OnLine
  <2>3. Progressive(b) => Progressive(c)
    BY <1>5, <1>7, <2>1, Zenon DEF Progressive, lol, lof
  <2>4. b.vpos + 1 >= b.frame_lines
    BY <1>0, <1>5, <1>10, BeamFields
  <2>5. NextFrame(b, c)
    BY <1>5, <1>7, <1>8, <2>1, <2>4, Zenon DEF NextFrame
  <2>6. ~NextLine(b, c)
    BY <1>0, <1>7, <2>1, BeamFields DEF NextLine
  <2> QED
    BY <1>5, <1>7, <2>1, <2>2, <2>3, <2>5, <2>6, Zenon
<1> QED
  BY <1>9, <1>10

(* beam_step(beam, 1).                                                     *)
LEMMA ClockStep ==
    ASSUME NEW b \in OnLine, NEW c, c = beam_step1(b)
    PROVE  /\ c \in OnLine /\ c.frame_lines = b.frame_lines
           /\ Along(b, c) \/ NextLine(b, c) \/ NextFrame(b, c)
           /\ Progressive(b) => /\ Progressive(c)
                                /\ NextLine(b, c) => c.vpos < b.frame_lines
<1>0. b \in BeamState
  BY DEF OnLine
<1>1. CASE b.hpos + 1 < line_hmax(b)
  <2>1. c = [b EXCEPT !.hpos = b.hpos + 1]
    BY <1>1, Zenon DEF beam_step1
  <2>2. b.hpos + 1 \in Nat
    BY <1>0, BeamFields
  <2>3. c \in BeamState
    BY <1>0, <2>1, <2>2, Zenon DEF BeamState
  <2>4. /\ c.hpos = b.hpos + 1 /\ c.vpos = b.vpos /\ c.frame_count = b.frame_count
        /\ c.frame_lines = b.frame_lines /\ c.lol = b.lol /\ c.lof = b.lof
        /\ c.lol_toggle = b.lol_toggle /\ c.lof_toggle = b.lof_toggle
    BY <1>0, <2>1, Zenon DEF BeamState
  <2>5. line_hmax(c) = line_hmax(b)
    BY <2>4, Zenon DEF line_hmax
  <2>6. c \in OnLine
    BY <1>1, <2>3, <2>4, <2>5, Zenon DEF OnLine
  <2>7. Progressive(b) => Progressive(c)
    BY <2>4, Zenon DEF Progressive
  <2>8. ~NextLine(b, c)
    BY <1>0, <2>4, BeamFields DEF NextLine
  <2> QED
    BY <2>4, <2>6, <2>7, <2>8, Zenon DEF Along
<1>2. CASE ~(b.hpos + 1 < line_hmax(b))
  <2>1. c = advance_line(b)
    BY <1>2, Zenon DEF beam_step1
  <2>2. b.hpos + 1 >= line_hmax(b)
    BY <1>0, <1>2, BeamFields
  <2> QED
    BY <2>1, <2>2, LineStep, Zenon
<1> QED
  BY <1>1, <1>2

-----------------------------------------------------------------------------
(* agnus_step(n) as the end of a run of n clocks.                          *)

Tally == [beam: OnLine, vertb: Nat, vbl: Nat, lines: Nat]

Started == [beam |-> beam, vertb |-> 0, vbl |-> 0, lines |-> 0]

Tick(p) ==
    LET b == beam_step1(p.beam)
    IN  [beam  |-> b,
         vertb |-> p.vertb + (IF at_vertb(b) THEN 1 ELSE 0),
         vbl   |-> p.vbl + (IF ~ in_vblank(p.beam) /\ in_vblank(b) THEN 1 ELSE 0),
         lines |-> p.lines + (IF b.hpos = 0 THEN 1 ELSE 0)]

LEMMA TickType ==
    ASSUME NEW p \in Tally
    PROVE  Tick(p) \in Tally
<1>1. p.beam \in OnLine /\ p.vertb \in Nat /\ p.vbl \in Nat /\ p.lines \in Nat
  BY Zenon DEF Tally
<1>2. beam_step1(p.beam) \in OnLine
  BY <1>1, ClockStep
<1> DEFINE b == beam_step1(p.beam)
           t == p.vertb + (IF at_vertb(b) THEN 1 ELSE 0)
           v == p.vbl + (IF ~ in_vblank(p.beam) /\ in_vblank(b) THEN 1 ELSE 0)
           l == p.lines + (IF b.hpos = 0 THEN 1 ELSE 0)
<1>4. t \in Nat /\ v \in Nat /\ l \in Nat
  BY <1>1
<1>5. Tick(p) = [beam |-> b, vertb |-> t, vbl |-> v, lines |-> l]
  BY Zenon DEF Tick
<1> HIDE DEF t, v, l, b
<1>6. b \in OnLine
  BY <1>2 DEF b
<1> QED
  BY <1>4, <1>5, <1>6 DEF Tally

Runs(n, run) ==
    /\ run \in [0..n -> Tally]
    /\ run[0] = Started
    /\ \A k \in Nat : k + 1 \in 0..n => run[k + 1] = Tick(run[k])

LEMMA AgnusRuns ==
    ASSUME NEW n \in Nat, beam \in OnLine
    PROVE  \E run : Runs(n, run) /\ agnus_step(n) = run[n]
<1> DEFINE F == [p \in Tally |-> Tick(p)]
           Eq(g) == g = [i \in 0..n |-> IF i = 0 THEN Started ELSE Tick(g[i - 1])]
           at == CHOOSE g : Eq(g)
<1>0. Started \in Tally
  BY Zenon DEF Started, Tally
<1>1. \A p \in Tally : F[p] \in Tally
  BY TickType
<1>2. PICK f : Run(F, Started, n, f)
  BY RunExists
<1>3. f \in [0..n -> Tally]
  BY <1>0, <1>1, <1>2, RunInvariant
<1>4. Eq(f)
  <2>1. f = [i \in 0..n |-> IF i = 0 THEN Started ELSE F[f[i - 1]]]
    BY <1>2 DEF Run
  <2>2. ASSUME NEW i \in 0..n
        PROVE  f[i] = IF i = 0 THEN Started ELSE Tick(f[i - 1])
    <3>1. i # 0 => i - 1 \in 0..n
      OBVIOUS
    <3> QED
      BY <2>1, <1>3, <3>1
  <2> QED
    BY <2>2, <1>3
<1>5. Eq(at)
  BY <1>4
<1>6. agnus_step(n) = at[n]
  BY Zenon DEF agnus_step, Tick, Started
<1> HIDE DEF at
<1>7. DOMAIN at = 0..n /\ at = [i \in 0..n |-> at[i]]
  BY <1>5
<1>8. at[0] = Started
  BY <1>5
<1>9. \A k \in Nat : k + 1 \in 0..n => at[k + 1] = Tick(at[k])
  <2> SUFFICES ASSUME NEW k \in Nat, k + 1 \in 0..n PROVE at[k + 1] = Tick(at[k])
    OBVIOUS
  <2>1. k + 1 # 0 /\ (k + 1) - 1 = k
    OBVIOUS
  <2> QED
    BY <1>5, <2>1
<1>10. at \in [0..n -> Tally]
  <2> DEFINE S == {k \in Nat : k \in 0..n => at[k] \in Tally}
  <2>1. 0 \in S
    BY <1>0, <1>8
  <2>2. ASSUME NEW k \in Nat, k \in S PROVE k + 1 \in S
    <3>1. k + 1 \in 0..n => k \in 0..n
      OBVIOUS
    <3> QED
      BY <1>9, <2>2, <3>1, TickType
  <2>3. Nat \subseteq S
    BY <2>1, <2>2, SetInduction
  <2>4. \A k \in 0..n : at[k] \in Tally
    BY <2>3
  <2> QED
    BY <1>7, <2>4
<1> QED
  BY <1>6, <1>8, <1>9, <1>10 DEF Runs

LEMMA TickMoves ==
    ASSUME NEW p \in Tally, NEW q, q = Tick(p)
    PROVE  /\ q \in Tally /\ p.beam \in OnLine /\ q.beam \in OnLine
           /\ q.beam.frame_lines = p.beam.frame_lines
           /\ \/ Along(p.beam, q.beam) \/ NextLine(p.beam, q.beam) \/ NextFrame(p.beam, q.beam)
           /\ Progressive(p.beam) =>
                /\ Progressive(q.beam)
                /\ NextLine(p.beam, q.beam) => q.beam.vpos < p.beam.frame_lines
           /\ p.vertb \in Nat /\ p.vbl \in Nat /\ p.lines \in Nat
           /\ q.vertb = p.vertb + (IF at_vertb(q.beam) THEN 1 ELSE 0)
           /\ q.vbl = p.vbl + (IF ~ in_vblank(p.beam) /\ in_vblank(q.beam) THEN 1 ELSE 0)
           /\ q.lines = p.lines + (IF q.beam.hpos = 0 THEN 1 ELSE 0)
<1>1. q \in Tally
  BY TickType
<1>2. p.beam \in OnLine /\ p.vertb \in Nat /\ p.vbl \in Nat /\ p.lines \in Nat
  BY Zenon DEF Tally
<1>3. /\ q.beam = beam_step1(p.beam)
      /\ q.vertb = p.vertb + (IF at_vertb(q.beam) THEN 1 ELSE 0)
      /\ q.vbl = p.vbl + (IF ~ in_vblank(p.beam) /\ in_vblank(q.beam) THEN 1 ELSE 0)
      /\ q.lines = p.lines + (IF q.beam.hpos = 0 THEN 1 ELSE 0)
  BY Zenon DEF Tick
<1>4. /\ q.beam \in OnLine /\ q.beam.frame_lines = p.beam.frame_lines
      /\ \/ Along(p.beam, q.beam) \/ NextLine(p.beam, q.beam) \/ NextFrame(p.beam, q.beam)
      /\ Progressive(p.beam) =>
           /\ Progressive(q.beam)
           /\ NextLine(p.beam, q.beam) => q.beam.vpos < p.beam.frame_lines
  BY <1>2, <1>3, ClockStep
<1> QED
  BY <1>1, <1>2, <1>3, <1>4, Zenon

LEMMA OnLineFields ==
    ASSUME NEW b \in OnLine
    PROVE  /\ b.hpos \in Nat /\ b.vpos \in Nat /\ b.frame_lines \in Nat \ {0}
           /\ b.frame_count \in Nat
BY BeamFields DEF OnLine

LEMMA RunStart ==
    ASSUME NEW n \in Nat, NEW run, Runs(n, run)
    PROVE  /\ beam \in OnLine /\ run[0].beam = beam
           /\ run[0].vertb = 0 /\ run[0].vbl = 0 /\ run[0].lines = 0
<1>1. 0 \in 0..n
  OBVIOUS
<1>2. run[0] \in Tally /\ run[0] = Started
  BY <1>1 DEF Runs
<1>3. Started.beam = beam /\ Started.vertb = 0 /\ Started.vbl = 0 /\ Started.lines = 0
  BY Zenon DEF Started
<1>4. run[0].beam \in OnLine
  BY <1>2, Zenon DEF Tally
<1> QED
  BY <1>2, <1>3, <1>4

(* VERTB: the requests raised so far, as a function of the beam.           *)
Raised(b) == b.frame_count + (IF b.vpos = 0 /\ b.hpos = 0 THEN 0 ELSE 1)

LEMMA RunRaises ==
    ASSUME NEW n \in Nat, NEW run, Runs(n, run)
    PROVE  run[n].vertb + Raised(beam) = Raised(run[n].beam)
<1> DEFINE S == {k \in Nat : k \in 0..n => run[k].vertb + Raised(beam) = Raised(run[k].beam)}
<1>0. 0 \in 0..n /\ n \in 0..n
  OBVIOUS
<1>1. 0 \in S
  <2>1. run[0].beam = beam /\ run[0].vertb = 0 /\ beam \in OnLine
    BY RunStart
  <2>2. Raised(beam) \in Nat
    BY <2>1, OnLineFields DEF Raised
  <2> QED
    BY <2>1, <2>2
<1>2. ASSUME NEW k \in Nat, k \in S, k + 1 \in 0..n PROVE k + 1 \in S
  <2> DEFINE p == run[k]
             q == run[k + 1]
             b == p.beam
             c == q.beam
  <2>1. k \in 0..n
    BY <1>2
  <2>2. p \in Tally /\ q = Tick(p)
    BY <1>2, <2>1 DEF Runs
  <2>3. p.vertb + Raised(beam) = Raised(b)
    BY <1>2, <2>1
  <2>0. beam \in OnLine
    BY RunStart
  <2> HIDE DEF p, q
  <2>4. /\ b \in OnLine /\ c \in OnLine /\ p.vertb \in Nat
        /\ Along(b, c) \/ NextLine(b, c) \/ NextFrame(b, c)
        /\ q.vertb = p.vertb + (IF at_vertb(c) THEN 1 ELSE 0)
    BY <2>2, TickMoves, Zenon
  <2> HIDE DEF b, c
  <2>5. Raised(c) = Raised(b) + (IF at_vertb(c) THEN 1 ELSE 0)
    <3>1. CASE Along(b, c)
      BY <2>4, <3>1, OnLineFields DEF Along, Raised, at_vertb
    <3>2. CASE NextLine(b, c)
      BY <2>4, <3>2, OnLineFields DEF NextLine, Raised, at_vertb
    <3>3. CASE NextFrame(b, c)
      BY <2>4, <3>3, OnLineFields DEF NextFrame, Raised, at_vertb
    <3> QED
      BY <2>4, <3>1, <3>2, <3>3
  <2>6. Raised(beam) \in Nat /\ Raised(b) \in Nat
    BY <2>0, <2>4, OnLineFields DEF Raised
  <2>7. q.vertb + Raised(beam) = Raised(c)
    BY <2>3, <2>4, <2>5, <2>6
  <2> QED
    BY <2>7 DEF q, c
<1> HIDE DEF S
<1>3. n \in S
  BY <1>1, <1>2, BoundedInduction
<1> QED
  BY <1>0, <1>3 DEF S

-----------------------------------------------------------------------------
(* Uniform progressive scan: e clocks and q lines after g the beam is at c.*)
Tracks(g, e, q, c) ==
    /\ Progressive(c) /\ c.frame_lines = g.frame_lines
    /\ c.hpos < LineClocks /\ c.vpos < c.frame_lines
    /\ c.frame_count >= g.frame_count
    /\ g.hpos + e = LineClocks * q + c.hpos
    /\ g.vpos + q = g.frame_lines * (c.frame_count - g.frame_count) + c.vpos

LEMMA ProgressiveLine ==
    ASSUME NEW b \in OnLine, Progressive(b)
    PROVE  b.hpos < LineClocks
<1>1. b.hpos < line_hmax(b)
  BY DEF OnLine
<1>2. ~b.lol
  BY DEF Progressive
<1>3. line_hmax(b) = LineClocks
  BY <1>2 DEF line_hmax
<1> QED
  BY <1>1, <1>3

LEMMA TracksStep ==
    ASSUME NEW g \in OnLine, NEW b \in OnLine, NEW c \in OnLine,
           NEW e \in Nat, NEW q \in Nat, Tracks(g, e, q, b),
           c.frame_lines = b.frame_lines, Progressive(c),
           Along(b, c) \/ NextLine(b, c) \/ NextFrame(b, c),
           NextLine(b, c) => c.vpos < b.frame_lines
    PROVE  Tracks(g, e + 1, q + (IF c.hpos = 0 THEN 1 ELSE 0), c)
<1> DEFINE L == LineClocks * q
           d == b.frame_count - g.frame_count
           D == g.frame_lines * d
<1>1. /\ g.hpos \in Nat /\ g.vpos \in Nat /\ g.frame_lines \in Nat \ {0} /\ g.frame_count \in Nat
      /\ b.hpos \in Nat /\ b.vpos \in Nat /\ b.frame_lines \in Nat \ {0} /\ b.frame_count \in Nat
      /\ c.hpos \in Nat /\ c.vpos \in Nat /\ c.frame_lines \in Nat \ {0} /\ c.frame_count \in Nat
  BY OnLineFields
<1>2. /\ b.frame_lines = g.frame_lines /\ b.hpos < LineClocks /\ b.vpos < b.frame_lines
      /\ b.frame_count >= g.frame_count
      /\ g.hpos + e = L + b.hpos /\ g.vpos + q = D + b.vpos
  BY DEF Tracks
<1>3. c.hpos < LineClocks
  BY ProgressiveLine
<1>4. L \in Nat /\ d \in Nat /\ D \in Nat
  BY <1>1, <1>2
<1>5. LineClocks * (q + 1) = L + LineClocks
  OBVIOUS
<1>6. g.frame_lines * (d + 1) = D + g.frame_lines
  BY <1>1, <1>4
<1> HIDE DEF L, D
<1>7. CASE Along(b, c)
  <2>1. /\ c.hpos = b.hpos + 1 /\ c.vpos = b.vpos /\ c.frame_count = b.frame_count
    BY <1>7 DEF Along
  <2>2. q + (IF c.hpos = 0 THEN 1 ELSE 0) = q
    BY <1>1, <2>1
  <2>3. g.hpos + (e + 1) = LineClocks * q + c.hpos
    BY <1>1, <1>2, <1>4, <2>1 DEF L
  <2>4. g.vpos + q = g.frame_lines * (c.frame_count - g.frame_count) + c.vpos
    BY <1>2, <2>1 DEF D
  <2>5. c.vpos < c.frame_lines /\ c.frame_count >= g.frame_count /\ c.frame_lines = g.frame_lines
    BY <1>2, <2>1
  <2> QED
    BY <1>3, <2>2, <2>3, <2>4, <2>5, Zenon DEF Tracks
<1>8. CASE NextLine(b, c)
  <2>1. /\ b.hpos + 1 >= LineClocks
        /\ c.hpos = 0 /\ c.vpos = b.vpos + 1 /\ c.frame_count = b.frame_count
    BY <1>8 DEF NextLine
  <2>2. q + (IF c.hpos = 0 THEN 1 ELSE 0) = q + 1
    BY <2>1
  <2>3. g.hpos + (e + 1) = LineClocks * (q + 1) + c.hpos
    <3>1. b.hpos + 1 = LineClocks
      BY <1>1, <1>2, <2>1
    <3>2. g.hpos + (e + 1) = L + LineClocks
      BY <1>1, <1>2, <1>4, <3>1
    <3> QED
      BY <1>4, <1>5, <2>1, <3>2
  <2>4. g.vpos + (q + 1) = g.frame_lines * (c.frame_count - g.frame_count) + c.vpos
    <3>1. g.vpos + (q + 1) = D + c.vpos
      BY <1>1, <1>2, <1>4, <2>1
    <3> QED
      BY <2>1, <3>1 DEF D
  <2>5. c.vpos < c.frame_lines /\ c.frame_count >= g.frame_count /\ c.frame_lines = g.frame_lines
    BY <1>2, <1>8, <2>1
  <2> QED
    BY <1>3, <2>2, <2>3, <2>4, <2>5, Zenon DEF Tracks
<1>9. CASE NextFrame(b, c)
  <2>1. /\ b.hpos + 1 >= LineClocks /\ b.vpos + 1 >= b.frame_lines
        /\ c.hpos = 0 /\ c.vpos = 0 /\ c.frame_count = b.frame_count + 1
    BY <1>9 DEF NextFrame
  <2>2. q + (IF c.hpos = 0 THEN 1 ELSE 0) = q + 1
    BY <2>1
  <2>3. g.hpos + (e + 1) = LineClocks * (q + 1) + c.hpos
    <3>1. b.hpos + 1 = LineClocks
      BY <1>1, <1>2, <2>1
    <3>2. g.hpos + (e + 1) = L + LineClocks
      BY <1>1, <1>2, <1>4, <3>1
    <3> QED
      BY <1>4, <1>5, <2>1, <3>2
  <2>4. g.vpos + (q + 1) = g.frame_lines * (c.frame_count - g.frame_count) + c.vpos
    <3>1. g.vpos + (q + 1) = (D + g.frame_lines) + c.vpos
      BY <1>1, <1>2, <1>4, <2>1
    <3>2. c.frame_count - g.frame_count = d + 1
      BY <1>1, <2>1
    <3> QED
      BY <1>6, <3>1, <3>2
  <2>5. c.vpos < c.frame_lines /\ c.frame_count >= g.frame_count /\ c.frame_lines = g.frame_lines
    BY <1>1, <1>2, <2>1
  <2> QED
    BY <1>3, <2>2, <2>3, <2>4, <2>5, Zenon DEF Tracks
<1> QED
  BY <1>7, <1>8, <1>9

(* A step of a run, and what it counted.                                   *)
LEMMA RunStep ==
    ASSUME NEW n \in Nat, NEW run, Runs(n, run), NEW k \in Nat, k + 1 \in 0..n
    PROVE  /\ k \in 0..n /\ run[k] \in Tally /\ run[k + 1] = Tick(run[k])
           /\ run[k].beam \in OnLine /\ run[k].lines \in Nat /\ run[k].vbl \in Nat
<1>1. k \in 0..n
  OBVIOUS
<1>2. run[k] \in Tally /\ run[k + 1] = Tick(run[k])
  BY <1>1 DEF Runs
<1>3. run[k].beam \in OnLine /\ run[k].lines \in Nat /\ run[k].vbl \in Nat
  BY <1>2, Zenon DEF Tally
<1> QED
  BY <1>1, <1>2, <1>3

(* A run of n clocks tracks n clocks further, by the lines it counted.     *)
LEMMA RunTracks ==
    ASSUME NEW n \in Nat, NEW run, Runs(n, run),
           NEW g \in OnLine, NEW e \in Nat, NEW q \in Nat, Tracks(g, e, q, beam)
    PROVE  Tracks(g, e + n, q + run[n].lines, run[n].beam)
<1> DEFINE S == {k \in Nat : k \in 0..n =>
                   Tracks(g, e + k, q + run[k].lines, run[k].beam)}
<1>1. 0 \in S
  <2>1. run[0].beam = beam /\ run[0].lines = 0
    BY RunStart
  <2>2. e + 0 = e /\ q + 0 = q
    OBVIOUS
  <2> QED
    BY <2>1, <2>2
<1>2. ASSUME NEW k \in Nat, k \in S, k + 1 \in 0..n PROVE k + 1 \in S
  <2> DEFINE p == run[k]
             r == run[k + 1]
             b == p.beam
             c == r.beam
             x == e + k
             y == q + p.lines
  <2>1. /\ k \in 0..n /\ p \in Tally /\ r = Tick(p) /\ p.lines \in Nat
    BY <1>2, RunStep
  <2>2. Tracks(g, x, y, b)
    BY <1>2, <2>1
  <2> HIDE DEF p, r
  <2>3. /\ b \in OnLine /\ c \in OnLine /\ c.frame_lines = b.frame_lines
        /\ Along(b, c) \/ NextLine(b, c) \/ NextFrame(b, c)
        /\ Progressive(b) =>
             /\ Progressive(c)
             /\ NextLine(b, c) => c.vpos < b.frame_lines
        /\ r.lines = p.lines + (IF c.hpos = 0 THEN 1 ELSE 0)
    BY <2>1, TickMoves, Zenon
  <2> HIDE DEF b, c
  <2>4. x \in Nat /\ y \in Nat /\ e + (k + 1) = x + 1
    BY <2>1
  <2>5. q + r.lines = y + (IF c.hpos = 0 THEN 1 ELSE 0)
    BY <2>1, <2>3
  <2> HIDE DEF x, y
  <2>6. Progressive(b)
    BY <2>2 DEF Tracks
  <2>7. Tracks(g, x + 1, y + (IF c.hpos = 0 THEN 1 ELSE 0), c)
    BY <2>2, <2>3, <2>4, <2>6, TracksStep
  <2>8. Tracks(g, e + (k + 1), q + r.lines, c)
    BY <2>4, <2>5, <2>7, Zenon
  <2> QED
    BY <2>8 DEF r, c
<1> HIDE DEF S
<1>3. n \in S
  BY <1>1, <1>2, BoundedInduction
<1> QED
  BY <1>3 DEF S

LEMMA LinesWithinClocks ==
    ASSUME NEW n \in Nat, NEW run, Runs(n, run)
    PROVE  run[n].lines \in 0..n
<1> DEFINE S == {k \in Nat : k \in 0..n => run[k].lines \in 0..k}
<1>1. 0 \in S
  BY RunStart
<1>2. ASSUME NEW k \in Nat, k \in S, k + 1 \in 0..n PROVE k + 1 \in S
  <2>1. /\ k \in 0..n /\ run[k] \in Tally /\ run[k + 1] = Tick(run[k])
    BY <1>2, RunStep
  <2>2. run[k + 1].lines = run[k].lines + (IF run[k + 1].beam.hpos = 0 THEN 1 ELSE 0)
    BY <2>1, TickMoves
  <2>3. run[k].lines \in 0..k
    BY <1>2, <2>1
  <2>4. run[k + 1].lines \in 0..(k + 1)
    BY <2>2, <2>3
  <2> QED
    BY <2>4
<1> HIDE DEF S
<1>3. n \in S
  BY <1>1, <1>2, BoundedInduction
<1> QED
  BY <1>3 DEF S

-----------------------------------------------------------------------------
(* The vertical blank: a run no longer than the blank zone or the visible  *)
(* zone meets at most one entry into blank, and does not leave it again.   *)

LEMMA FewerLines ==
    ASSUME NEW m \in Nat \ {0}, NEW x \in Int, NEW y \in Int, m * x < m * y
    PROVE  x < y
<1> SUFFICES ASSUME x - y \in Nat PROVE FALSE
  OBVIOUS
<1>1. m * (x - y) \in Nat
  OBVIOUS
<1>2. m * (x - y) = m * x - m * y
  OBVIOUS
<1> QED
  BY <1>1, <1>2

(* Lines below line z of the frame, in clocks.                             *)
Below(z, b) == LineClocks * (b.vpos - z) + b.hpos

LEMMA BelowMoves ==
    ASSUME NEW b \in OnLine, NEW c \in OnLine, NEW z \in Nat
    PROVE  /\ Below(z, b) \in Int
           /\ Along(b, c) => Below(z, c) = Below(z, b) + 1
           /\ NextLine(b, c) => Below(z, c) <= Below(z, b) + 1
           /\ NextFrame(b, c) => LineClocks * (b.frame_lines - z) <= Below(z, b) + 1
<1> DEFINE v == b.vpos - z
           P == LineClocks * v
<1>1. /\ b.hpos \in Nat /\ b.vpos \in Nat /\ b.frame_lines \in Nat
      /\ c.hpos \in Nat /\ c.vpos \in Nat
  BY OnLineFields
<1>2. v \in Int /\ P \in Int
  BY <1>1
<1>3. LineClocks * (v + 1) = P + LineClocks
  BY <1>2
<1>4. Below(z, b) = P + b.hpos
  BY DEF Below
<1>5. c.vpos = b.vpos => Below(z, c) = P + c.hpos
  BY DEF Below
<1>6. c.vpos = b.vpos + 1 => Below(z, c) = (P + LineClocks) + c.hpos
  <2> SUFFICES ASSUME c.vpos = b.vpos + 1 PROVE Below(z, c) = (P + LineClocks) + c.hpos
    OBVIOUS
  <2>1. c.vpos - z = v + 1
    BY <1>1
  <2> QED
    BY <1>3, <2>1 DEF Below
<1>7. b.vpos + 1 >= b.frame_lines => LineClocks * (b.frame_lines - z) <= P + LineClocks
  <2> SUFFICES ASSUME b.vpos + 1 >= b.frame_lines
               PROVE  LineClocks * (b.frame_lines - z) <= P + LineClocks
    OBVIOUS
  <2> DEFINE w == (v + 1) - (b.frame_lines - z)
  <2>1. w \in Nat /\ v + 1 = (b.frame_lines - z) + w
    BY <1>1
  <2>2. LineClocks * w \in Nat
    BY <2>1
  <2>3. b.frame_lines - z \in Int
    BY <1>1
  <2> HIDE DEF w, v
  <2>4. LineClocks * (v + 1) = LineClocks * (b.frame_lines - z) + LineClocks * w
    BY <2>1, <2>3
  <2>5. LineClocks * (b.frame_lines - z) \in Int
    BY <2>3
  <2> QED
    BY <1>2, <1>3, <2>2, <2>4, <2>5
<1> HIDE DEF P
<1>8. Below(z, b) \in Int
  BY <1>1, <1>2, <1>4
<1>9. Along(b, c) => Below(z, c) = Below(z, b) + 1
  BY <1>1, <1>2, <1>4, <1>5 DEF Along
<1>10. NextLine(b, c) => Below(z, c) <= Below(z, b) + 1
  BY <1>1, <1>2, <1>4, <1>6 DEF NextLine
<1>11. NextFrame(b, c) => LineClocks * (b.frame_lines - z) <= Below(z, b) + 1
  <2> SUFFICES ASSUME NextFrame(b, c)
               PROVE  LineClocks * (b.frame_lines - z) <= Below(z, b) + 1
    OBVIOUS
  <2>1. b.hpos + 1 >= LineClocks /\ b.vpos + 1 >= b.frame_lines
    BY DEF NextFrame
  <2>2. LineClocks * (b.frame_lines - z) \in Int
    BY <1>1
  <2> QED
    BY <1>1, <1>2, <1>4, <1>7, <2>1, <2>2
<1> QED
  BY <1>8, <1>9, <1>10, <1>11

(* After k clocks from outside the blank: not yet in it, or still in it.   *)
Enters(k, v, b) ==
    \/ v = 0 /\ ~in_vblank(b)
    \/ v = 1 /\ in_vblank(b) /\ Below(0, b) + 1 <= k

(* After k clocks from inside the blank: still in it, or not yet back.     *)
Leaves(k, v, b) ==
    v = 0 /\ (in_vblank(b) \/ Below(BlankLines, b) + 1 <= k)

LEMMA EntersStep ==
    ASSUME NEW b \in OnLine, NEW c \in OnLine, NEW k \in Nat, NEW v \in Nat,
           NEW n \in Nat, k + 1 <= n, n <= BlankLines * LineClocks,
           n <= (b.frame_lines - BlankLines) * LineClocks,
           Along(b, c) \/ NextLine(b, c) \/ NextFrame(b, c),
           Enters(k, v, b)
    PROVE  Enters(k + 1, v + (IF ~ in_vblank(b) /\ in_vblank(c) THEN 1 ELSE 0), c)
<1>1. /\ b.hpos \in Nat /\ b.vpos \in Nat /\ b.frame_lines \in Nat \ {0}
      /\ c.hpos \in Nat /\ c.vpos \in Nat
  BY OnLineFields
<1>2. BlankLines \in Nat \ {0} /\ b.frame_lines - BlankLines \in Int
  BY <1>1 DEF BlankLines
<1>3. /\ in_vblank(b) <=> b.vpos < BlankLines
      /\ in_vblank(c) <=> c.vpos < BlankLines
  BY <1>1 DEF in_vblank, BlankLines
<1>4. b.frame_lines > BlankLines
  <2>1. LineClocks * 0 < LineClocks * (b.frame_lines - BlankLines)
    BY <1>2
  <2>2. 0 < b.frame_lines - BlankLines
    BY <1>2, <2>1, FewerLines
  <2> QED
    BY <1>1, <1>2, <2>2
<1>5. CASE ~in_vblank(b)
  <2>1. v = 0
    BY <1>5 DEF Enters
  <2>2. CASE ~in_vblank(c)
    BY <1>5, <2>1, <2>2 DEF Enters
  <2>3. CASE in_vblank(c)
    <3>1. c.vpos = 0 /\ c.hpos = 0
      BY <1>1, <1>2, <1>3, <1>5, <2>3 DEF Along, NextLine, NextFrame
    <3>2. Below(0, c) = 0
      BY <3>1 DEF Below
    <3>3. Below(0, c) + 1 <= k + 1
      BY <3>2
    <3> QED
      BY <1>5, <2>1, <2>3, <3>3 DEF Enters
  <2> QED
    BY <2>2, <2>3
<1>6. CASE in_vblank(b)
  <2>1. v = 1 /\ Below(0, b) + 1 <= k
    BY <1>6 DEF Enters
  <2>2. ~NextFrame(b, c)
    BY <1>1, <1>2, <1>3, <1>4, <1>6 DEF NextFrame
  <2>3. Below(0, b) \in Int /\ Below(0, c) \in Int /\ Below(0, c) <= Below(0, b) + 1
    <3>1. 0 \in Nat
      OBVIOUS
    <3>2. Below(0, b) \in Int /\ Below(0, c) \in Int
      BY <3>1, BelowMoves
    <3> QED
      BY <2>2, <3>1, <3>2, BelowMoves
  <2>4. Below(0, c) + 1 <= k + 1
    BY <2>1, <2>3
  <2>5. in_vblank(c)
    <3>1. LineClocks * c.vpos \in Int /\ Below(0, c) = LineClocks * c.vpos + c.hpos
      BY <1>1 DEF Below
    <3>2. BlankLines * LineClocks = LineClocks * BlankLines /\ LineClocks * BlankLines \in Nat
      BY <1>2
    <3>3. LineClocks * c.vpos < LineClocks * BlankLines
      BY <1>1, <2>3, <2>4, <3>1, <3>2
    <3>4. c.vpos < BlankLines
      BY <1>1, <1>2, <3>3, FewerLines
    <3> QED
      BY <1>3, <3>4
  <2>6. v + (IF ~ in_vblank(b) /\ in_vblank(c) THEN 1 ELSE 0) = 1
    BY <1>6, <2>1
  <2> QED
    BY <2>4, <2>5, <2>6, Zenon DEF Enters
<1> QED
  BY <1>5, <1>6

LEMMA LeavesStep ==
    ASSUME NEW b \in OnLine, NEW c \in OnLine, NEW k \in Nat, NEW v \in Nat,
           NEW n \in Nat, k + 1 <= n,
           n <= (b.frame_lines - BlankLines) * LineClocks,
           Along(b, c) \/ NextLine(b, c) \/ NextFrame(b, c),
           Leaves(k, v, b)
    PROVE  Leaves(k + 1, v + (IF ~ in_vblank(b) /\ in_vblank(c) THEN 1 ELSE 0), c)
<1>1. /\ b.hpos \in Nat /\ b.vpos \in Nat /\ b.frame_lines \in Nat \ {0}
      /\ c.hpos \in Nat /\ c.vpos \in Nat
  BY OnLineFields
<1>2. BlankLines \in Nat \ {0} /\ b.frame_lines - BlankLines \in Int
  BY <1>1 DEF BlankLines
<1>3. /\ in_vblank(b) <=> b.vpos < BlankLines
      /\ in_vblank(c) <=> c.vpos < BlankLines
  BY <1>1 DEF in_vblank, BlankLines
<1>4. v = 0
  BY DEF Leaves
<1>5. CASE in_vblank(b)
  <2>1. v + (IF ~ in_vblank(b) /\ in_vblank(c) THEN 1 ELSE 0) = 0
    BY <1>4, <1>5
  <2>2. CASE ~in_vblank(c)
    <3>0. b.vpos < BlankLines /\ ~(c.vpos < BlankLines)
      BY <1>3, <1>5, <2>2
    <3>1. c.vpos = BlankLines /\ c.hpos = 0
      <4>1. ~Along(b, c)
        BY <3>0 DEF Along
      <4>2. ~NextFrame(b, c)
        BY <1>2, <3>0 DEF NextFrame
      <4>3. c.hpos = 0 /\ c.vpos = b.vpos + 1
        BY <4>1, <4>2 DEF NextLine
      <4> QED
        BY <1>1, <1>2, <3>0, <4>3
    <3>2. Below(BlankLines, c) = 0
      BY <1>2, <3>1 DEF Below
    <3>3. Below(BlankLines, c) + 1 <= k + 1
      BY <3>2
    <3> QED
      BY <2>1, <3>3, Zenon DEF Leaves
  <2> QED
    BY <2>1, <2>2, Zenon DEF Leaves
<1>6. CASE ~in_vblank(b)
  <2>1. Below(BlankLines, b) + 1 <= k
    BY <1>6 DEF Leaves
  <2>2. Below(BlankLines, b) \in Int /\ Below(BlankLines, c) \in Int
    BY <1>2, BelowMoves
  <2>3. ~NextFrame(b, c)
    <3> SUFFICES ASSUME NextFrame(b, c) PROVE FALSE
      OBVIOUS
    <3>1. LineClocks * (b.frame_lines - BlankLines) <= Below(BlankLines, b) + 1
      BY <1>2, BelowMoves
    <3>2. /\ (b.frame_lines - BlankLines) * LineClocks
               = LineClocks * (b.frame_lines - BlankLines)
          /\ LineClocks * (b.frame_lines - BlankLines) \in Int
      BY <1>2
    <3> QED
      BY <2>1, <2>2, <3>1, <3>2
  <2>4. ~in_vblank(c)
    BY <1>1, <1>2, <1>3, <1>6, <2>3 DEF Along, NextLine
  <2>5. Below(BlankLines, c) <= Below(BlankLines, b) + 1
    BY <1>2, <2>2, <2>3, BelowMoves
  <2>6. Below(BlankLines, c) + 1 <= k + 1
    BY <2>1, <2>2, <2>5
  <2>7. v + (IF ~ in_vblank(b) /\ in_vblank(c) THEN 1 ELSE 0) = 0
    BY <1>4, <2>4
  <2> QED
    BY <2>6, <2>7, Zenon DEF Leaves
<1> QED
  BY <1>5, <1>6

(* One pulse to CIA-A's clock for each blank that began in the run.        *)
LEMMA RunBlanks ==
    ASSUME NEW n \in Nat, NEW run, Runs(n, run),
           n <= BlankLines * LineClocks,
           n <= (beam.frame_lines - BlankLines) * LineClocks
    PROVE  vbl_pulses(beam, run[n].beam) = run[n].vbl
<1> DEFINE S == {k \in Nat : k \in 0..n =>
                   /\ run[k].beam.frame_lines = beam.frame_lines
                   /\ ~in_vblank(beam) => Enters(k, run[k].vbl, run[k].beam)
                   /\ in_vblank(beam) => Leaves(k, run[k].vbl, run[k].beam)}
<1>1. 0 \in S
  <2>1. run[0].beam = beam /\ run[0].vbl = 0
    BY RunStart
  <2> QED
    BY <2>1 DEF Enters, Leaves
<1>2. ASSUME NEW k \in Nat, k \in S, k + 1 \in 0..n PROVE k + 1 \in S
  <2> DEFINE p == run[k]
             r == run[k + 1]
             b == p.beam
             c == r.beam
  <2>1. k \in 0..n /\ p \in Tally /\ r = Tick(p) /\ p.vbl \in Nat
    BY <1>2, RunStep
  <2>2. /\ b.frame_lines = beam.frame_lines
        /\ ~in_vblank(beam) => Enters(k, p.vbl, b)
        /\ in_vblank(beam) => Leaves(k, p.vbl, b)
    BY <1>2, <2>1
  <2> HIDE DEF p, r
  <2>3. /\ b \in OnLine /\ c \in OnLine /\ c.frame_lines = b.frame_lines
        /\ Along(b, c) \/ NextLine(b, c) \/ NextFrame(b, c)
        /\ r.vbl = p.vbl + (IF ~ in_vblank(b) /\ in_vblank(c) THEN 1 ELSE 0)
    BY <2>1, TickMoves, Zenon
  <2> HIDE DEF b, c
  <2>4. k + 1 <= n
    BY <1>2
  <2>5. n <= (b.frame_lines - BlankLines) * LineClocks
    BY <2>2
  <2>6. ~in_vblank(beam) => Enters(k + 1, r.vbl, c)
    BY <2>1, <2>2, <2>3, <2>4, <2>5, EntersStep, Zenon
  <2>7. in_vblank(beam) => Leaves(k + 1, r.vbl, c)
    <3> SUFFICES ASSUME in_vblank(beam) PROVE Leaves(k + 1, r.vbl, c)
      OBVIOUS
    <3>1. Leaves(k, p.vbl, b)
      BY <2>2
    <3>2. Leaves(k + 1, p.vbl + (IF ~ in_vblank(b) /\ in_vblank(c) THEN 1 ELSE 0), c)
      BY <2>1, <2>3, <2>4, <2>5, <3>1, LeavesStep
    <3> QED
      BY <2>3, <3>2, Zenon
  <2>8. c.frame_lines = beam.frame_lines
    BY <2>2, <2>3, Zenon
  <2> QED
    BY <2>6, <2>7, <2>8 DEF r, c
<1> HIDE DEF S
<1>3. n \in S
  BY <1>1, <1>2, BoundedInduction
<1>4. /\ ~in_vblank(beam) => Enters(n, run[n].vbl, run[n].beam)
      /\ in_vblank(beam) => Leaves(n, run[n].vbl, run[n].beam)
  BY <1>3 DEF S
<1> QED
  BY <1>4 DEF Enters, Leaves, vbl_pulses

-----------------------------------------------------------------------------
(* The inductive invariant.  ProjectionExact is not inductive: that a      *)
(* position was predicted does not say that the next one will be.  The     *)
(* invariant keeps the number of lines since the snapshot, and with it the *)
(* frames, which determine the position.                                   *)

SnapTracked ==
    /\ snap.beam \in OnLine /\ snap.time \in 0..cycles
    /\ projectable(snap.beam) =>
         \E q \in Nat : Tracks(snap.beam, cycles - snap.time, q, beam)

RasterInv == TypeOK /\ EclockExact /\ VertbOncePerFrame /\ SnapTracked

LEMMA BeamOnLine ==
    ASSUME TypeOK
    PROVE  beam \in OnLine
BY DEF TypeOK, OnLine

(* A snapshot taken now predicts the present.                              *)
LEMMA TracksSelf ==
    ASSUME NEW b \in OnLine, projectable(b)
    PROVE  Tracks(b, 0, 0, b)
<1>1. b.hpos < LineClocks /\ b.vpos < b.frame_lines /\ Progressive(b)
  BY Zenon DEF projectable, Progressive
<1>2. /\ b.hpos \in Nat /\ b.vpos \in Nat /\ b.frame_lines \in Nat \ {0}
      /\ b.frame_count \in Nat
  BY OnLineFields
<1>3. b.frame_count - b.frame_count = 0 /\ b.frame_count >= b.frame_count
  BY <1>2
<1>4. b.hpos + 0 = LineClocks * 0 + b.hpos
  BY <1>2
<1>5. b.vpos + 0 = b.frame_lines * 0 + b.vpos
  BY <1>2
<1> QED
  BY <1>1, <1>3, <1>4, <1>5, Zenon DEF Tracks

LEMMA ResetOnLine ==
    beam_reset(ResetLines) \in OnLine
<1> DEFINE b == beam_reset(ResetLines)
<1>1. ResetLines \in Nat \ {0} /\ 0 \in Nat
  OBVIOUS
<1>2. b \in BeamState
  BY <1>1, Zenon DEF beam_reset, BeamState
<1>3. b.hpos = 0
  BY Zenon DEF beam_reset
<1> HIDE DEF b
<1>4. b.hpos < line_hmax(b)
  BY <1>2, <1>3, BeamFields
<1>5. b \in OnLine
  BY <1>2, <1>4, Zenon DEF OnLine
<1> QED
  BY <1>5 DEF b

LEMMA InitRaster == Init => RasterInv
<1> SUFFICES ASSUME Init PROVE RasterInv
  OBVIOUS
<1> USE DEF Init
<1>1. beam \in OnLine
  BY ResetOnLine
<1>2. 0 \in Nat
  OBVIOUS
<1>3. TypeOK
  <2>1. beam \in BeamState /\ beam.hpos < line_hmax(beam)
    BY <1>1, Zenon DEF OnLine
  <2>2. cycles \in 0..MaxCycles /\ eclock_rem \in 0..(CckPerEclock - 1) /\ writes \in 0..MaxWrites
    OBVIOUS
  <2>3. out \in [vertb: Nat, tod_a: Nat, tod_b: Nat, eclock: Nat]
    BY <1>2, Zenon
  <2>4. seen \in [vbl: Nat, lines: Nat]
    BY <1>2, Zenon
  <2> QED
    BY <2>1, <2>2, <2>3, <2>4, Zenon DEF TypeOK
<1>4. EclockExact
  BY DEF EclockExact
<1>5. VertbOncePerFrame
  <2>1. beam.vpos = 0 /\ beam.hpos = 0 /\ beam.frame_count = 0 /\ out.vertb = 0
    BY Zenon DEF beam_reset
  <2> QED
    BY <2>1 DEF VertbOncePerFrame
<1>6. SnapTracked
  <2>1. snap.beam = beam /\ snap.time = 0 /\ cycles = 0
    BY Zenon
  <2>2. cycles - snap.time = 0 /\ snap.time \in 0..cycles
    BY <2>1
  <2>3. projectable(beam) => Tracks(beam, 0, 0, beam)
    BY <1>1, TracksSelf
  <2> QED
    BY <1>1, <1>2, <2>1, <2>2, <2>3, Zenon DEF SnapTracked
<1> QED
  BY <1>3, <1>4, <1>5, <1>6 DEF RasterInv

(* A Step is a run of n clocks and what the CIAs make of it.               *)
StepIsRun(n, run) ==
    /\ Runs(n, run) /\ run[n] \in Tally
    /\ cycles + n <= MaxCycles /\ cycles' = cycles + n
    /\ beam' = run[n].beam
    /\ eclock_rem' = (eclock_rem + n) % CckPerEclock
    /\ out' = [vertb  |-> out.vertb + run[n].vertb,
               tod_a  |-> out.tod_a + vbl_pulses(beam, beam'),
               tod_b  |-> out.tod_b + hsync_pulses(beam, beam'),
               eclock |-> out.eclock + (eclock_rem + n) \div CckPerEclock]
    /\ seen' = [vbl |-> seen.vbl + run[n].vbl, lines |-> seen.lines + run[n].lines]
    /\ snap' = snap /\ writes' = writes

LEMMA StepRuns ==
    ASSUME TypeOK, NEW n \in Nat, Step(n)
    PROVE  \E run : StepIsRun(n, run)
<1>1. PICK run : Runs(n, run) /\ agnus_step(n) = run[n]
  BY BeamOnLine, AgnusRuns
<1>2. run[n] \in Tally
  <2>1. n \in 0..n
    OBVIOUS
  <2> QED
    BY <1>1, <2>1 DEF Runs
<1>3. StepIsRun(n, run)
  BY <1>1, <1>2, Zenon DEF Step, StepIsRun, eclock_carry
<1> QED
  BY <1>3

LEMMA PulseTypes ==
    ASSUME NEW b \in OnLine, NEW c \in OnLine
    PROVE  vbl_pulses(b, c) \in Nat /\ hsync_pulses(b, c) \in Nat
<1>1. vbl_pulses(b, c) \in Nat
  BY DEF vbl_pulses
<1> DEFINE x == (c.frame_count * b.frame_lines + c.vpos)
                  - (b.frame_count * b.frame_lines + b.vpos)
<1>2. x \in Int
  BY OnLineFields
<1>3. hsync_pulses(b, c) = x % Word
  BY Zenon DEF hsync_pulses
<1> HIDE DEF x
<1>4. x % Word \in 0..(Word - 1)
  BY <1>2, DivMod
<1> QED
  BY <1>1, <1>3, <1>4

LEMMA SumNat ==
    ASSUME NEW a \in Nat, NEW b \in Nat
    PROVE  a + b \in Nat
OBVIOUS

LEMMA StepKeeps ==
    ASSUME RasterInv, NEW n \in Nat, Step(n)
    PROVE  RasterInv'
<1>1. PICK run : StepIsRun(n, run)
  BY StepRuns DEF RasterInv
<1> DEFINE r == run[n]
           t == eclock_rem + n
<1>2. /\ r.beam \in OnLine /\ r.vertb \in Nat /\ r.vbl \in Nat /\ r.lines \in Nat
  BY <1>1, Zenon DEF StepIsRun, Tally
<1>3. /\ beam \in OnLine /\ cycles \in 0..MaxCycles /\ eclock_rem \in Nat /\ writes \in 0..MaxWrites
      /\ out.vertb \in Nat /\ out.tod_a \in Nat /\ out.tod_b \in Nat /\ out.eclock \in Nat
      /\ seen.vbl \in Nat /\ seen.lines \in Nat
  BY BeamOnLine DEF RasterInv, TypeOK
<1>4. /\ cycles + n <= MaxCycles /\ cycles' = cycles + n /\ beam' = r.beam
      /\ snap' = snap /\ writes' = writes /\ eclock_rem' = t % CckPerEclock
  BY <1>1, Zenon DEF StepIsRun
<1>5. /\ out'.vertb = out.vertb + r.vertb
      /\ out'.tod_a = out.tod_a + vbl_pulses(beam, beam')
      /\ out'.tod_b = out.tod_b + hsync_pulses(beam, beam')
      /\ out'.eclock = out.eclock + t \div CckPerEclock
  BY <1>1, Zenon DEF StepIsRun
<1>6. t \in Nat /\ t \div CckPerEclock \in Nat /\ t % CckPerEclock \in 0..(CckPerEclock - 1)
      /\ t = CckPerEclock * (t \div CckPerEclock) + (t % CckPerEclock)
  <2>1. t \in Nat /\ t \in Int /\ CckPerEclock \in Nat \ {0}
    BY <1>3
  <2> HIDE DEF t
  <2> QED
    BY <2>1, DivMod
<1>7. TypeOK'
  <2>1. beam' \in BeamState /\ beam'.hpos < line_hmax(beam')
    BY <1>2, <1>4, Zenon DEF OnLine
  <2>2. vbl_pulses(beam, beam') \in Nat /\ hsync_pulses(beam, beam') \in Nat
    BY <1>2, <1>3, <1>4, PulseTypes
  <2>3. /\ out.vertb + r.vertb \in Nat /\ out.tod_a + vbl_pulses(beam, beam') \in Nat
        /\ out.tod_b + hsync_pulses(beam, beam') \in Nat
        /\ out.eclock + t \div CckPerEclock \in Nat
    BY <1>2, <1>3, <1>6, <2>2, SumNat, Zenon
  <2>4. out' \in [vertb: Nat, tod_a: Nat, tod_b: Nat, eclock: Nat]
    BY <1>1, <2>3, Zenon DEF StepIsRun
  <2>5. seen.vbl + r.vbl \in Nat /\ seen.lines + r.lines \in Nat
    BY <1>2, <1>3
  <2>6. seen' \in [vbl: Nat, lines: Nat]
    BY <1>1, <2>5, Zenon DEF StepIsRun
  <2>7. cycles' \in 0..MaxCycles
    BY <1>3, <1>4
  <2> QED
    BY <1>3, <1>4, <1>6, <2>1, <2>4, <2>6, <2>7, Zenon DEF TypeOK
<1>8. EclockExact'
  <2> DEFINE d == t \div CckPerEclock
             m == t % CckPerEclock
             E == out.eclock * CckPerEclock
  <2>1. E + eclock_rem = cycles
    BY DEF RasterInv, EclockExact
  <2>2. d \in Nat /\ m \in Nat /\ t = CckPerEclock * d + m
    BY <1>6
  <2> HIDE DEF d, m
  <2>3. (out.eclock + d) * CckPerEclock = E + CckPerEclock * d
    BY <1>3, <2>2
  <2>4. E \in Nat /\ CckPerEclock * d \in Nat
    BY <1>3, <2>2
  <2> HIDE DEF E
  <2>5. (E + CckPerEclock * d) + m = cycles + n
    BY <1>3, <2>1, <2>2, <2>4
  <2>6. (out.eclock + d) * CckPerEclock + m = cycles + n
    BY <2>3, <2>5
  <2> QED
    BY <1>4, <1>5, <2>6 DEF EclockExact, d, m
<1>9. VertbOncePerFrame'
  <2>1. r.vertb + Raised(beam) = Raised(r.beam)
    BY <1>1, RunRaises DEF StepIsRun
  <2>2. out.vertb = Raised(beam)
    BY DEF RasterInv, VertbOncePerFrame, Raised
  <2>3. out'.vertb = Raised(beam')
    BY <1>2, <1>3, <1>4, <1>5, <2>1, <2>2
  <2> QED
    BY <2>3 DEF VertbOncePerFrame, Raised
<1>10. SnapTracked'
  <2>1. snap.beam \in OnLine /\ snap.time \in 0..cycles
    BY DEF RasterInv, SnapTracked
  <2>2. ASSUME projectable(snap.beam)
        PROVE  \E q \in Nat : Tracks(snap.beam, cycles' - snap.time, q, beam')
    <3>1. PICK q \in Nat : Tracks(snap.beam, cycles - snap.time, q, beam)
      BY <2>2 DEF RasterInv, SnapTracked
    <3>2. cycles - snap.time \in Nat /\ (cycles - snap.time) + n = cycles' - snap.time
      BY <1>3, <1>4, <2>1
    <3>3. Tracks(snap.beam, (cycles - snap.time) + n, q + r.lines, r.beam)
      BY <1>1, <2>1, <3>1, <3>2, RunTracks DEF StepIsRun
    <3>4. q + r.lines \in Nat
      BY <1>2
    <3> QED
      BY <1>4, <3>2, <3>3, <3>4
  <2>3. snap.time \in 0..cycles'
    BY <1>3, <1>4, <2>1
  <2> QED
    BY <1>4, <2>1, <2>2, <2>3, Zenon DEF SnapTracked
<1> QED
  BY <1>7, <1>8, <1>9, <1>10 DEF RasterInv

(* What a write to BPLCON0 or BEAMCON0 leaves alone.                       *)
SamePlace(b, c) ==
    c.hpos = b.hpos /\ c.vpos = b.vpos /\ c.frame_count = b.frame_count

LEMMA LaceKeepsPlace ==
    ASSUME NEW b \in OnLine, NEW l \in LaceValues
    PROVE  write_lace(b, l) \in OnLine /\ SamePlace(b, write_lace(b, l))
<1> DEFINE f == l /\ b.lof
           c == [b EXCEPT !.lof_toggle = l, !.lof = f]
<1>1. b \in BeamState /\ b.hpos < line_hmax(b)
  BY Zenon DEF OnLine
<1>2. l \in BOOLEAN /\ f \in BOOLEAN
  OBVIOUS
<1> HIDE DEF f
<1>3. c \in BeamState /\ SamePlace(b, c) /\ c.lol = b.lol
  BY <1>1, <1>2, Zenon DEF BeamState, SamePlace
<1>4. write_lace(b, l) = c
  BY Zenon DEF write_lace, f
<1> HIDE DEF c
<1>5. line_hmax(c) = line_hmax(b)
  BY <1>3, Zenon DEF line_hmax
<1>6. c \in OnLine
  BY <1>1, <1>3, <1>5, Zenon DEF OnLine, SamePlace
<1> QED
  BY <1>3, <1>4, <1>6, Zenon

LEMMA StdKeepsPlace ==
    ASSUME NEW b \in OnLine, NEW s \in Standards
    PROVE  set_video_std(b, s) \in OnLine /\ SamePlace(b, set_video_std(b, s))
<1> DEFINE c == [b EXCEPT !.frame_lines = s]
<1>1. b \in BeamState /\ b.hpos < line_hmax(b)
  BY Zenon DEF OnLine
<1>2. s \in Nat \ {0}
  OBVIOUS
<1>3. c \in BeamState /\ SamePlace(b, c) /\ c.lol = b.lol
  BY <1>1, <1>2, Zenon DEF BeamState, SamePlace
<1>4. set_video_std(b, s) = c
  BY Zenon DEF set_video_std
<1> HIDE DEF c
<1>5. line_hmax(c) = line_hmax(b)
  BY <1>3, Zenon DEF line_hmax
<1>6. c \in OnLine
  BY <1>1, <1>3, <1>5, Zenon DEF OnLine, SamePlace
<1> QED
  BY <1>3, <1>4, <1>6, Zenon

LEMMA ReprogramKeeps ==
    ASSUME RasterInv, NEW b \in OnLine, SamePlace(beam, b), Reprogram(b)
    PROVE  RasterInv'
<1>1. /\ writes < MaxWrites /\ writes' = writes + 1 /\ beam' = b
      /\ snap' = [time |-> cycles, beam |-> b]
      /\ cycles' = cycles /\ eclock_rem' = eclock_rem /\ out' = out /\ seen' = seen
  BY DEF Reprogram
<1>2. TypeOK'
  <2>1. beam' \in BeamState /\ beam'.hpos < line_hmax(beam')
    BY <1>1, Zenon DEF OnLine
  <2>2. writes' \in 0..MaxWrites
    BY <1>1 DEF RasterInv, TypeOK
  <2> QED
    BY <1>1, <2>1, <2>2, Zenon DEF RasterInv, TypeOK
<1>3. EclockExact'
  BY <1>1, Zenon DEF RasterInv, EclockExact
<1>4. VertbOncePerFrame'
  BY <1>1, Zenon DEF RasterInv, VertbOncePerFrame, SamePlace
<1>5. SnapTracked'
  <2>1. snap'.beam = beam' /\ snap'.time = cycles' /\ beam' \in OnLine
    BY <1>1, Zenon
  <2>2. cycles' \in Nat /\ cycles' - cycles' = 0 /\ cycles' \in 0..cycles' /\ 0 \in Nat
    BY <1>1 DEF RasterInv, TypeOK
  <2>3. projectable(beam') => Tracks(beam', 0, 0, beam')
    BY <2>1, TracksSelf
  <2> QED
    BY <2>1, <2>2, <2>3, Zenon DEF SnapTracked
<1> QED
  BY <1>2, <1>3, <1>4, <1>5 DEF RasterInv

LEMMA SnapshotKeeps ==
    ASSUME RasterInv, Snapshot
    PROVE  RasterInv'
<1>1. /\ snap' = [time |-> cycles, beam |-> beam] /\ beam' = beam /\ writes' = writes
      /\ cycles' = cycles /\ eclock_rem' = eclock_rem /\ out' = out /\ seen' = seen
  BY DEF Snapshot
<1>2. TypeOK' /\ EclockExact' /\ VertbOncePerFrame'
  BY <1>1, Zenon DEF RasterInv, TypeOK, EclockExact, VertbOncePerFrame
<1>3. SnapTracked'
  <2>1. snap'.beam = beam' /\ snap'.time = cycles'
    BY <1>1, Zenon
  <2>2. cycles' \in Nat /\ cycles' - cycles' = 0 /\ cycles' \in 0..cycles' /\ 0 \in Nat
    BY <1>1 DEF RasterInv, TypeOK
  <2>3. beam' \in OnLine
    BY <1>1, BeamOnLine DEF RasterInv
  <2>4. projectable(beam') => Tracks(beam', 0, 0, beam')
    BY <2>3, TracksSelf
  <2> QED
    BY <2>1, <2>2, <2>3, <2>4, Zenon DEF SnapTracked
<1> QED
  BY <1>2, <1>3 DEF RasterInv

LEMMA NextKeeps == RasterInv /\ [Next]_vars => RasterInv'
<1> SUFFICES ASSUME RasterInv, [Next]_vars PROVE RasterInv'
  OBVIOUS
<1>0. beam \in OnLine
  BY BeamOnLine DEF RasterInv
<1>1. ASSUME NEW n \in 1..MaxStep, Step(n) PROVE RasterInv'
  BY <1>1, StepKeeps
<1>2. CASE Snapshot
  BY <1>2, SnapshotKeeps
<1>3. ASSUME NEW l \in LaceValues, WriteBplcon0(l) PROVE RasterInv'
  <2>1. write_lace(beam, l) \in OnLine /\ SamePlace(beam, write_lace(beam, l))
    BY <1>0, LaceKeepsPlace
  <2> QED
    BY <1>3, <2>1, ReprogramKeeps DEF WriteBplcon0
<1>4. ASSUME NEW s \in Standards, WriteBeamcon0(s) PROVE RasterInv'
  <2>1. set_video_std(beam, s) \in OnLine /\ SamePlace(beam, set_video_std(beam, s))
    BY <1>0, StdKeepsPlace
  <2> QED
    BY <1>4, <2>1, ReprogramKeeps DEF WriteBeamcon0
<1>5. CASE UNCHANGED vars
  BY <1>5, Zenon DEF vars, RasterInv, TypeOK, EclockExact, VertbOncePerFrame, SnapTracked
<1> QED
  BY <1>1, <1>2, <1>3, <1>4, <1>5 DEF Next

-----------------------------------------------------------------------------
(* Tracking determines the position: division with remainder by the line,  *)
(* then by the frame.                                                      *)
LEMMA TracksPredicts ==
    ASSUME NEW g \in OnLine, NEW c \in OnLine, NEW e \in Nat, NEW q \in Nat,
           Tracks(g, e, q, c)
    PROVE  /\ position_at(g, e).hpos = c.hpos
           /\ position_at(g, e).vpos = c.vpos
<1>1. /\ g.hpos \in Nat /\ g.vpos \in Nat /\ g.frame_lines \in Nat \ {0} /\ g.frame_count \in Nat
      /\ c.hpos \in Nat /\ c.vpos \in Nat /\ c.frame_count \in Nat
  BY OnLineFields
<1>2. /\ c.hpos \in 0..(LineClocks - 1) /\ c.vpos \in 0..(g.frame_lines - 1)
      /\ g.hpos + e = LineClocks * q + c.hpos
      /\ g.vpos + q = g.frame_lines * (c.frame_count - g.frame_count) + c.vpos
  BY <1>1 DEF Tracks
<1>3. (g.hpos + e) \div LineClocks = q /\ (g.hpos + e) % LineClocks = c.hpos
  <2>1. LineClocks \in Nat \ {0} /\ q \in Int
    OBVIOUS
  <2> QED
    BY <1>2, <2>1, DivUnique, ZenonT(60)
<1>4. (g.vpos + q) % g.frame_lines = c.vpos
  <2>1. c.frame_count - g.frame_count \in Int
    BY <1>1
  <2> QED
    BY <1>1, <1>2, <2>1, DivUnique, ZenonT(60)
<1>5. /\ position_at(g, e).hpos = (g.hpos + e) % LineClocks
      /\ position_at(g, e).vpos = (g.vpos + (g.hpos + e) \div LineClocks) % g.frame_lines
  BY Zenon DEF position_at
<1> QED
  BY <1>3, <1>4, <1>5

LEMMA ProjectionFollows ==
    ASSUME RasterInv
    PROVE  ProjectionExact
<1> SUFFICES ASSUME projectable(snap.beam)
             PROVE  /\ position_at(snap.beam, cycles - snap.time).hpos = beam.hpos
                    /\ position_at(snap.beam, cycles - snap.time).vpos = beam.vpos
  BY Zenon DEF ProjectionExact
<1>1. PICK q \in Nat : Tracks(snap.beam, cycles - snap.time, q, beam)
  BY DEF RasterInv, SnapTracked
<1>2. snap.beam \in OnLine /\ beam \in OnLine
  BY BeamOnLine DEF RasterInv, SnapTracked
<1>3. cycles - snap.time \in Nat
  BY DEF RasterInv, SnapTracked, TypeOK
<1> QED
  BY <1>1, <1>2, <1>3, TracksPredicts

(* CIA-B: in uniform progressive scan one pulse for each line ended.       *)
LEMMA RunPulses ==
    ASSUME NEW n \in 0..MaxStep, NEW run, Runs(n, run), projectable(beam),
           run[n].beam \in OnLine
    PROVE  hsync_pulses(beam, run[n].beam) = run[n].lines
<1> DEFINE c == run[n].beam
           l == run[n].lines
           f == c.frame_count - beam.frame_count
<1>1. beam \in OnLine
  BY RunStart
<1>2. Tracks(beam, 0, 0, beam)
  BY <1>1, TracksSelf
<1>3. l \in 0..n
  BY LinesWithinClocks
<1>4. Tracks(beam, n, l, c)
  <2>1. Tracks(beam, 0 + n, 0 + l, c)
    BY <1>1, <1>2, RunTracks
  <2>2. 0 + n = n /\ 0 + l = l
    BY <1>3
  <2> HIDE DEF c, l
  <2> QED
    BY <2>1, <2>2
<1> HIDE DEF c, l
<1>5. /\ beam.vpos \in Nat /\ beam.frame_lines \in Nat \ {0} /\ beam.frame_count \in Nat
      /\ c.vpos \in Nat /\ c.frame_count \in Nat
  BY <1>1, OnLineFields DEF c
<1>6. beam.vpos + l = beam.frame_lines * f + c.vpos
  BY <1>4 DEF Tracks
<1>7. (c.frame_count * beam.frame_lines + c.vpos)
         - (beam.frame_count * beam.frame_lines + beam.vpos) = l
  <2> DEFINE A == c.frame_count * beam.frame_lines
             B == beam.frame_count * beam.frame_lines
             C == beam.frame_lines * f
  <2>1. C = A - B /\ A \in Nat /\ B \in Nat
    BY <1>5
  <2>2. beam.vpos + l = C + c.vpos
    BY <1>6
  <2> HIDE DEF A, B, C
  <2>3. (A + c.vpos) - (B + beam.vpos) = l
    BY <1>3, <1>5, <2>1, <2>2
  <2> QED
    BY <2>3 DEF A, B
<1>8. hsync_pulses(beam, c) = l % Word
  BY <1>7, Zenon DEF hsync_pulses
<1>9. l % Word = l
  <2>1. l \in 0..(Word - 1) /\ Word \in Nat \ {0}
    BY <1>3
  <2>2. (Word * 0 + l) % Word = l
    BY <2>1, DivUnique
  <2> QED
    BY <2>1, <2>2
<1> QED
  BY <1>8, <1>9 DEF c, l

-----------------------------------------------------------------------------
LEMMA RasterInvariant == Spec => []RasterInv
<1>1. Init => RasterInv
  BY InitRaster
<1>2. RasterInv /\ [Next]_vars => RasterInv'
  BY NextKeeps
<1> QED
  BY <1>1, <1>2, PTL DEF Spec

(* However rigel_chipset_step cuts time into steps, of whatever length,    *)
(* the state stays well formed and the CIAs have had exactly one E-clock   *)
(* tick per CckPerEclock colour clocks.                                    *)
THEOREM TimeIsKept == Spec => []TimeKept
<1>1. RasterInv => TimeKept
  BY DEF RasterInv, TimeKept
<1> QED
  BY <1>1, RasterInvariant, PTL

(* Whenever rigel_beam_position_at accepts a snapshot, the position it     *)
(* computes is where the beam is, any time later and across any steps.     *)
THEOREM ProjectionIsExact == Spec => []ProjectionExact
<1>1. RasterInv => ProjectionExact
  BY ProjectionFollows
<1> QED
  BY <1>1, RasterInvariant, PTL

LEMMA StepPulses ==
    ASSUME RasterInv, [Next]_vars
    PROVE  /\ (/\ cycles' - cycles <= BlankLines * LineClocks
               /\ cycles' - cycles <= (beam.frame_lines - BlankLines) * LineClocks)
                 => out'.tod_a - out.tod_a = seen'.vbl - seen.vbl
           /\ projectable(beam) => out'.tod_b - out.tod_b = seen'.lines - seen.lines
<1>1. /\ out.tod_a \in Nat /\ out.tod_b \in Nat /\ seen.vbl \in Nat /\ seen.lines \in Nat
      /\ cycles \in Nat
  BY DEF RasterInv, TypeOK
<1>2. CASE out' = out /\ seen' = seen
  BY <1>1, <1>2
<1>3. ASSUME NEW n \in 1..MaxStep, Step(n)
      PROVE  /\ (/\ cycles' - cycles <= BlankLines * LineClocks
                 /\ cycles' - cycles <= (beam.frame_lines - BlankLines) * LineClocks)
                   => out'.tod_a - out.tod_a = seen'.vbl - seen.vbl
             /\ projectable(beam) => out'.tod_b - out.tod_b = seen'.lines - seen.lines
  <2>1. n \in Nat /\ n \in 0..MaxStep
    OBVIOUS
  <2>2. PICK run : StepIsRun(n, run)
    BY <1>3, <2>1, StepRuns DEF RasterInv
  <2> DEFINE v == run[n].vbl
             l == run[n].lines
             c == run[n].beam
  <2>3. v \in Nat /\ l \in Nat /\ c \in OnLine
    BY <2>2, Zenon DEF StepIsRun, Tally
  <2>4. /\ out'.tod_a = out.tod_a + vbl_pulses(beam, c)
        /\ out'.tod_b = out.tod_b + hsync_pulses(beam, c)
        /\ seen'.vbl = seen.vbl + v /\ seen'.lines = seen.lines + l
        /\ cycles' = cycles + n /\ Runs(n, run)
    BY <2>2, Zenon DEF StepIsRun
  <2>5. cycles' - cycles = n
    BY <1>1, <2>1, <2>4
  <2>6. (n <= BlankLines * LineClocks /\ n <= (beam.frame_lines - BlankLines) * LineClocks)
          => vbl_pulses(beam, c) = v
    BY <2>1, <2>4, RunBlanks
  <2>7. projectable(beam) => hsync_pulses(beam, c) = l
    BY <2>1, <2>3, <2>4, RunPulses
  <2> HIDE DEF v, l, c
  <2>8. vbl_pulses(beam, c) = v => out'.tod_a - out.tod_a = seen'.vbl - seen.vbl
    BY <1>1, <2>3, <2>4
  <2>9. hsync_pulses(beam, c) = l => out'.tod_b - out.tod_b = seen'.lines - seen.lines
    BY <1>1, <2>3, <2>4
  <2> QED
    BY <2>5, <2>6, <2>7, <2>8, <2>9
<1>4. (~ \E n \in 1..MaxStep : Step(n)) => out' = out /\ seen' = seen
  BY Zenon DEF Next, Snapshot, WriteBplcon0, WriteBeamcon0, Reprogram, vars
<1> QED
  BY <1>2, <1>3, <1>4

(* What the raster drives: VERTB is raised once per frame through          *)
(* interlace and changes of the standard, CIA-A's clock is pulsed once per *)
(* vertical blank and CIA-B's once per line, within the limits the parts   *)
(* of RasterPulses state.                                                  *)
THEOREM RasterPulsesOnce == Spec => RasterPulses
<1>1. RasterInv => VertbOncePerFrame
  BY DEF RasterInv
<1>2. RasterInv /\ [Next]_vars =>
        [(/\ cycles' - cycles <= BlankLines * LineClocks
          /\ cycles' - cycles <= (beam.frame_lines - BlankLines) * LineClocks)
            => out'.tod_a - out.tod_a = seen'.vbl - seen.vbl]_vars
  BY StepPulses
<1>3. RasterInv /\ [Next]_vars =>
        [projectable(beam) => out'.tod_b - out.tod_b = seen'.lines - seen.lines]_vars
  BY StepPulses
<1>4. Spec => []RasterInv /\ [][Next]_vars
  BY RasterInvariant, PTL DEF Spec
<1> QED
  BY <1>1, <1>2, <1>3, <1>4, PTL DEF RasterPulses, TodACountsVblanks, TodBCountsLines

-----------------------------------------------------------------------------
(* The display.                                                            *)

LEMMA DenConstants ==
    /\ Byte8 \in Nat \ {0} /\ MaxLines \in Nat \ {0} /\ VisStart \in Nat
    /\ Ecs \in BOOLEAN
BY PixelsAssumption, DeniseAssumption

(* What Denise's state consists of.                                        *)
Window == [x0: Nat, x1: Nat, y0: Nat, y1: Nat]

LineState == [px: Seq(Nat), con: Control, valid: BOOLEAN]

CollState == [con: Collide, dat: SUBSET (0..6)]

Ys == 0..(MaxLines - 1)

Row == {compose_line(l) : l \in LineRec} \cup {[x \in Xs |-> c] : c \in Colour}

Flags == {"ham", "dual", "sprites"}

Fields == {"none", "odd", "even"}

FrameState == [rows: [{0, 1} -> [Ys -> Row]], front: {0, 1}, field: Fields,
               lof: BOOLEAN, lof_toggle: BOOLEAN, pending: BOOLEAN, redraw: BOOLEAN,
               pending_flags: SUBSET Flags, flags: SUBSET Flags]

Partial == UNION {[D -> Row] : D \in SUBSET Ys}

ShownState == [px: Seq(Nat), con: Control, now: Partial, last: Partial,
               met: SUBSET (0..6), steady: 0..2]

LEMMA RegFields ==
    ASSUME NEW r \in DenRegs
    PROVE  /\ r.con \in Control /\ r.diw \in [DiwBytes -> 0..(Byte8 - 1)]
           /\ r.high \in [DiwBytes -> Nat] /\ r.ddf \in Nat /\ r.pal \in Palette
BY Zenon DEF DenRegs

LEMMA AfterNat ==
    ASSUME NEW a \in Nat, NEW b \in Nat
    PROVE  After(a, b) \in Nat
BY DenConstants DEF After

(* The parts of a window: its edges, and what becomes of them.             *)
Edge(diw, high, ocs, b) ==
    diw[b] + Byte8 * (IF ~ocs THEN high[b] ELSE IF b = "he" THEN 1 ELSE 0)

Framed(hs, hend, vs, low, ocs, h) ==
    LET vend == IF ocs /\ low - vs < Byte8 \div 2 /\ vs < Byte8 \div 8
                THEN vs + Byte8 ELSE low
        width == IF hend > hs THEN hend - hs ELSE Byte8 + Byte8 \div 4
    IN [x0 |-> hs * h, x1 |-> (hs + width) * h, y0 |-> vs,
        y1 |-> IF vend > MaxLines THEN MaxLines ELSE vend]

WindowAt(diw, high, ocs, h) ==
    Framed(Edge(diw, high, ocs, "hs"),
           After(Edge(diw, high, ocs, "he"), Edge(diw, high, ocs, "hs")),
           Edge(diw, high, ocs, "vs"),
           After(Edge(diw, high, ocs, "ve"), Edge(diw, high, ocs, "vs")), ocs, h)

LEMMA WindowIs ==
    ASSUME NEW r
    PROVE  window_of(r) = WindowAt(r.diw, r.high, ~Ecs \/ r.high = Zeros, hscale(r.con))
<1> DEFINE ocs == ~Ecs \/ r.high = Zeros
           raw == [b \in DiwBytes |->
                     r.diw[b] + Byte8 * (IF ~ocs THEN r.high[b] ELSE IF b = "he" THEN 1 ELSE 0)]
<1>1. "hs" \in DiwBytes /\ "he" \in DiwBytes /\ "vs" \in DiwBytes /\ "ve" \in DiwBytes
  BY DEF DiwBytes
<1>2. /\ raw["hs"] = Edge(r.diw, r.high, ocs, "hs") /\ raw["he"] = Edge(r.diw, r.high, ocs, "he")
      /\ raw["vs"] = Edge(r.diw, r.high, ocs, "vs") /\ raw["ve"] = Edge(r.diw, r.high, ocs, "ve")
  BY <1>1, Zenon DEF Edge
<1>3. window_of(r) = Framed(raw["hs"], After(raw["he"], raw["hs"]), raw["vs"],
                            After(raw["ve"], raw["vs"]), ocs, hscale(r.con))
  BY Zenon DEF window_of, Framed
<1> QED
  BY <1>2, <1>3, Zenon DEF WindowAt

LEMMA FramedTyped ==
    ASSUME NEW hs \in Nat, NEW hend \in Nat, NEW vs \in Nat, NEW low \in Nat, NEW ocs,
           NEW h \in {1, 2}
    PROVE  Framed(hs, hend, vs, low, ocs, h) \in Window
<1>1. PICK vend \in Nat : vend = IF ocs /\ low - vs < Byte8 \div 2 /\ vs < Byte8 \div 8
                                 THEN vs + Byte8 ELSE low
  BY DenConstants
<1>2. PICK width \in Nat : width = IF hend > hs THEN hend - hs ELSE Byte8 + Byte8 \div 4
  <2>1. PICK q \in Nat : q = Byte8 \div 4
    BY DenConstants
  <2>2. hend > hs => hend - hs \in Nat
    BY DenConstants
  <2>3. Byte8 + q \in Nat
    BY DenConstants
  <2> QED
    BY <2>1, <2>2, <2>3, Zenon
<1>3. PICK y1 \in Nat : y1 = IF vend > MaxLines THEN MaxLines ELSE vend
  BY DenConstants
<1>4. PICK a \in Nat : a = hs * h
  BY DenConstants
<1>5. PICK b \in Nat : b = (hs + width) * h
  BY DenConstants
<1>6. Framed(hs, hend, vs, low, ocs, h) = [x0 |-> a, x1 |-> b, y0 |-> vs, y1 |-> y1]
  BY <1>1, <1>2, <1>3, <1>4, <1>5, Zenon DEF Framed
<1>7. [x0 |-> a, x1 |-> b, y0 |-> vs, y1 |-> y1] \in Window
  BY DEF Window
<1> QED
  BY <1>6, <1>7, Zenon

LEMMA EdgeNat ==
    ASSUME NEW diw \in [DiwBytes -> 0..(Byte8 - 1)], NEW high \in [DiwBytes -> Nat],
           NEW ocs, NEW b \in DiwBytes
    PROVE  Edge(diw, high, ocs, b) \in Nat
<1>1. PICK k \in Nat : k = IF ~ocs THEN high[b] ELSE IF b = "he" THEN 1 ELSE 0
  OBVIOUS
<1>2. PICK u \in Nat : u = diw[b]
  OBVIOUS
<1>3. Byte8 * k \in Nat
  BY DenConstants
<1>4. u + Byte8 * k \in Nat
  BY <1>3
<1> QED
  BY <1>1, <1>2, <1>4, Zenon DEF Edge

LEMMA WindowTyped ==
    ASSUME NEW r \in DenRegs
    PROVE  window_of(r) \in Window
<1>0. /\ r.diw \in [DiwBytes -> 0..(Byte8 - 1)] /\ r.high \in [DiwBytes -> Nat]
      /\ r.con \in Control
  BY RegFields
<1>1. PICK h \in {1, 2} : h = hscale(r.con)
  BY <1>0, ConFields
<1>2. PICK ocs : ocs = (~Ecs \/ r.high = Zeros)
  OBVIOUS
<1>3. "hs" \in DiwBytes /\ "he" \in DiwBytes /\ "vs" \in DiwBytes /\ "ve" \in DiwBytes
  BY DEF DiwBytes
<1>4. \A b \in DiwBytes : Edge(r.diw, r.high, ocs, b) \in Nat
  BY <1>0, EdgeNat
<1>5. PICK hs \in Nat : hs = Edge(r.diw, r.high, ocs, "hs")
  BY <1>3, <1>4
<1>6. PICK vs \in Nat : vs = Edge(r.diw, r.high, ocs, "vs")
  BY <1>3, <1>4
<1>7. PICK hend \in Nat : hend = After(Edge(r.diw, r.high, ocs, "he"), hs)
  BY <1>3, <1>4, AfterNat
<1>8. PICK low \in Nat : low = After(Edge(r.diw, r.high, ocs, "ve"), vs)
  BY <1>3, <1>4, AfterNat
<1>9. window_of(r) = Framed(hs, hend, vs, low, ocs, h)
  BY <1>1, <1>2, <1>5, <1>6, <1>7, <1>8, WindowIs, Zenon DEF WindowAt
<1> QED
  BY <1>9, FramedTyped

LEMMA UpdateTyped ==
    ASSUME NEW r \in DenRegs, NEW v \in Window
    PROVE  display_window_update(v, r) \in Window
BY WindowTyped, Zenon DEF display_window_update

LEMMA ConUpdated ==
    ASSUME NEW a \in Control, NEW c \in Control, NEW e, e = control0(a, c)
    PROVE  /\ e \in Control
           /\ e.depth = c.depth /\ e.hires = c.hires /\ e.ham = c.ham /\ e.dual = c.dual
           /\ e.lace = c.lace /\ e.color = c.color
<1>1. /\ c.depth \in 0..7 /\ c.hires \in BOOLEAN /\ c.ham \in BOOLEAN /\ c.dual \in BOOLEAN
      /\ c.lace \in BOOLEAN /\ c.color \in BOOLEAN
  BY ConFields, Zenon
<1>2. e \in Control
  BY <1>1, Zenon DEF control0, Control
<1>3. /\ e.depth = c.depth /\ e.hires = c.hires /\ e.ham = c.ham /\ e.dual = c.dual
      /\ e.lace = c.lace /\ e.color = c.color
  BY Zenon DEF control0, Control
<1> QED
  BY <1>2, <1>3

(* What a window depends on.                                               *)
LEMMA WindowDepends ==
    ASSUME NEW r, NEW s, r.diw = s.diw, r.high = s.high,
           r.con.depth = s.con.depth, r.con.hires = s.con.hires, r.con.ham = s.con.ham,
           r.con.dual = s.con.dual, r.con.lace = s.con.lace, r.con.color = s.con.color
    PROVE  window_of(r) = window_of(s) /\ (window_kept(r) <=> window_kept(s))
<1>1. hscale(r.con) = hscale(s.con)
  BY Zenon DEF hscale
<1>2. window_kept(r) <=> window_kept(s)
  BY Zenon DEF window_kept
<1> QED
  BY <1>1, <1>2, WindowIs, Zenon

Current(v, r) == window_kept(r) \/ window_of(r).y0 >= MaxLines \/ v = window_of(r)

LEMMA UpdateCurrent ==
    ASSUME NEW v, NEW r
    PROVE  Current(display_window_update(v, r), r)
BY Zenon DEF Current, display_window_update

LEMMA DepthNat ==
    ASSUME NEW v \in Nat, NEW d \in 0..7
    PROVE  OfDepth(v, d) \in Nat
<1>1. /\ v % (2^0) \in Nat /\ v % (2^1) \in Nat /\ v % (2^2) \in Nat /\ v % (2^3) \in Nat
      /\ v % (2^4) \in Nat /\ v % (2^5) \in Nat /\ v % (2^6) \in Nat /\ v % (2^7) \in Nat
  OBVIOUS
<1>2. d = 0 \/ d = 1 \/ d = 2 \/ d = 3 \/ d = 4 \/ d = 5 \/ d = 6 \/ d = 7
  OBVIOUS
<1> QED
  BY <1>1, <1>2, Zenon DEF OfDepth

(* The pixels of a word, cut to the planes that are on.                    *)
PixelsOf(w, d) == [i \in 1..Len(w) |-> OfDepth(w[i], d)]

LEMMA PixelsOfWord ==
    ASSUME NEW w \in Pixelled, NEW d \in 0..7
    PROVE  PixelsOf(w, d) \in Seq(Nat) /\ PixelsOf(w, d) # <<>>
<1>1. w \in Seq(Nat) /\ w # <<>>
  BY Zenon DEF Pixelled
<1>2. Len(w) \in Nat /\ \A i \in 1..Len(w) : w[i] \in Nat
  BY <1>1, ElementOfSeq, LenProperties
<1>3. \A i \in 1..Len(w) : OfDepth(w[i], d) \in Nat
  BY <1>2, DepthNat
<1>4. PixelsOf(w, d) \in [1..Len(w) -> Nat]
  BY <1>3, Zenon DEF PixelsOf
<1>5. PICK p \in [1..Len(w) -> Nat] : p = PixelsOf(w, d)
  BY <1>4
<1>6. p \in Seq(Nat) /\ Len(p) = Len(w)
  BY <1>2, <1>5
<1>7. Len(w) # 0
  BY <1>1, EmptySeq
<1>8. p # <<>>
  BY <1>6, <1>7, EmptySeq
<1> QED
  BY <1>5, <1>6, <1>8, Zenon

-----------------------------------------------------------------------------
(* The beam as Denise sees it: its frames counted modulo 2.                *)
DenBeam == {b \in BeamState : /\ b.hpos < LineClocks /\ ~b.lol /\ ~b.lol_toggle
                              /\ b.frame_count \in {0, 1} /\ b.frame_lines \in FrameLengths
                              /\ b.lof => b.lof_toggle}

Followed(b) == [beam_step1(b) EXCEPT !.frame_count = @ % 2]

InLine(b, c) ==
    c.hpos # 0 /\ c.frame_count = b.frame_count /\ c.lof = b.lof

ToLine(b, c) ==
    /\ b.hpos = LineClocks - 1 /\ c.hpos = 0 /\ c.frame_count = b.frame_count /\ c.lof = b.lof
    /\ b.vpos + 1 < frame_vmax(b) /\ c.vpos = b.vpos + 1

ToFrame(b, c) ==
    /\ b.hpos = LineClocks - 1 /\ c.hpos = 0 /\ c.frame_count # b.frame_count
    /\ c.lof = (b.lof_toggle /\ ~b.lof) /\ ~(b.vpos + 1 < frame_vmax(b)) /\ c.vpos = 0

LEMMA BeamBooleans ==
    ASSUME NEW b \in BeamState
    PROVE  /\ b.lof \in BOOLEAN /\ b.lof_toggle \in BOOLEAN
           /\ b.lol \in BOOLEAN /\ b.lol_toggle \in BOOLEAN
BY Zenon DEF BeamState

LEMMA DenBeamFields ==
    ASSUME NEW b \in DenBeam
    PROVE  /\ b \in BeamState /\ b.hpos \in Nat /\ b.vpos \in Nat /\ b.hpos < LineClocks
           /\ b.lof \in BOOLEAN /\ b.lof_toggle \in BOOLEAN
           /\ b.frame_count \in {0, 1} /\ b.frame_lines \in FrameLengths
           /\ b.frame_lines \in Nat \ {0} /\ ~b.lol /\ ~b.lol_toggle
           /\ b.lof => b.lof_toggle
<1>1. /\ b \in BeamState /\ b.hpos < LineClocks /\ ~b.lol /\ ~b.lol_toggle
      /\ b.frame_count \in {0, 1} /\ b.frame_lines \in FrameLengths
      /\ b.lof => b.lof_toggle
  BY Zenon DEF DenBeam
<1> QED
  BY <1>1, BeamFields, BeamBooleans, Zenon

LEMMA BeamFollowed ==
    ASSUME NEW b \in DenBeam
    PROVE  /\ Followed(b) \in DenBeam /\ Followed(b).lof_toggle = b.lof_toggle
           /\ Followed(b).frame_lines = b.frame_lines
           /\ \/ InLine(b, Followed(b)) \/ ToLine(b, Followed(b)) \/ ToFrame(b, Followed(b))
<1>0. /\ b \in BeamState /\ b.hpos \in Nat /\ b.vpos \in Nat /\ b.hpos < LineClocks
      /\ b.lof \in BOOLEAN /\ b.lof_toggle \in BOOLEAN
      /\ b.frame_count \in {0, 1} /\ b.frame_lines \in FrameLengths
      /\ ~b.lol /\ ~b.lol_toggle
      /\ b.lof => b.lof_toggle
  BY DenBeamFields, Zenon
<1>1. line_hmax(b) = LineClocks
  BY <1>0 DEF line_hmax
<1>2. PICK s : s = beam_step1(b)
  OBVIOUS
<1>3. PICK c : c = [s EXCEPT !.frame_count = s.frame_count % 2]
  OBVIOUS
<1>4. Followed(b) = c
  BY <1>2, <1>3, Zenon DEF Followed
<1>5. ASSUME s \in BeamState
      PROVE  /\ c \in BeamState /\ c.frame_count = s.frame_count % 2
             /\ c.hpos = s.hpos /\ c.vpos = s.vpos /\ c.frame_lines = s.frame_lines
             /\ c.lof = s.lof /\ c.lof_toggle = s.lof_toggle
             /\ c.lol = s.lol /\ c.lol_toggle = s.lol_toggle
  <2>1. s.frame_count \in Nat
    BY <1>5, BeamFields
  <2>2. s.frame_count % 2 \in Nat
    BY <2>1
  <2> QED
    BY <1>3, <1>5, <2>2, Zenon DEF BeamState
<1>6. CASE b.hpos + 1 < LineClocks
  <2>1. s = [b EXCEPT !.hpos = b.hpos + 1]
    BY <1>1, <1>2, <1>6, Zenon DEF beam_step1
  <2>2. b.hpos + 1 \in Nat /\ b.hpos + 1 # 0
    BY <1>0
  <2>3. s \in BeamState
    BY <1>0, <2>1, <2>2, Zenon DEF BeamState
  <2>4. /\ s.hpos = b.hpos + 1 /\ s.vpos = b.vpos /\ s.frame_count = b.frame_count
        /\ s.frame_lines = b.frame_lines /\ s.lol = b.lol /\ s.lof = b.lof
        /\ s.lol_toggle = b.lol_toggle /\ s.lof_toggle = b.lof_toggle
    BY <1>0, <2>1, Zenon DEF BeamState
  <2>5. c.frame_count = b.frame_count
    <3>1. b.frame_count % 2 = b.frame_count
      BY <1>0
    <3> QED
      BY <1>5, <2>3, <2>4, <3>1, Zenon
  <2>6. c \in DenBeam
    BY <1>0, <1>5, <1>6, <2>3, <2>4, <2>5, Zenon DEF DenBeam
  <2>7. InLine(b, c)
    BY <1>5, <2>2, <2>3, <2>4, <2>5, Zenon DEF InLine
  <2> QED
    BY <1>4, <1>5, <2>3, <2>4, <2>6, <2>7, Zenon
<1>7. CASE ~(b.hpos + 1 < LineClocks)
  <2> DEFINE lol == b.lol_toggle /\ ~ b.lol
             lof == b.lof_toggle /\ ~ b.lof
             n == [b EXCEPT !.hpos = 0, !.vpos = b.vpos + 1, !.lol = lol]
             w == [n EXCEPT !.vpos = 0, !.frame_count = b.frame_count + 1, !.lof = lof]
  <2>0. b.hpos = LineClocks - 1
    BY <1>0, <1>7
  <2>1. s = IF n.vpos < frame_vmax(b) THEN n ELSE w
    BY <1>1, <1>2, <1>7, Zenon DEF beam_step1, advance_line
  <2>2. lol \in BOOLEAN /\ lof \in BOOLEAN /\ ~lol
    BY <1>0, Zenon
  <2>3. b.vpos + 1 \in Nat /\ b.frame_count + 1 \in Nat /\ 0 \in Nat
    BY <1>0
  <2> HIDE DEF lol, lof
  <2>4. n \in BeamState
    BY <1>0, <2>2, <2>3, Zenon DEF BeamState
  <2>5. /\ n.hpos = 0 /\ n.vpos = b.vpos + 1 /\ n.frame_count = b.frame_count
        /\ n.frame_lines = b.frame_lines /\ n.lol = lol /\ n.lof = b.lof
        /\ n.lol_toggle = b.lol_toggle /\ n.lof_toggle = b.lof_toggle
    BY <1>0, Zenon DEF BeamState
  <2> HIDE DEF n
  <2>6. w \in BeamState
    BY <2>2, <2>3, <2>4, Zenon DEF BeamState
  <2>7. /\ w.hpos = n.hpos /\ w.vpos = 0 /\ w.frame_count = b.frame_count + 1
        /\ w.frame_lines = n.frame_lines /\ w.lol = n.lol /\ w.lof = lof
        /\ w.lol_toggle = n.lol_toggle /\ w.lof_toggle = n.lof_toggle
    BY <2>4, Zenon DEF BeamState
  <2> HIDE DEF w
  <2>8. 0 < LineClocks
    OBVIOUS
  <2>9. CASE b.vpos + 1 < frame_vmax(b)
    <3>1. s = n
      BY <2>1, <2>5, <2>9, Zenon
    <3>2. c.frame_count = b.frame_count
      <4>1. b.frame_count % 2 = b.frame_count
        BY <1>0
      <4> QED
        BY <1>5, <2>4, <2>5, <3>1, <4>1, Zenon
    <3>3. c \in DenBeam
      BY <1>0, <1>5, <2>2, <2>4, <2>5, <2>8, <3>1, <3>2, Zenon DEF DenBeam
    <3>4. ToLine(b, c)
      BY <1>5, <2>0, <2>4, <2>5, <2>9, <3>1, <3>2, Zenon DEF ToLine
    <3> QED
      BY <1>4, <1>5, <2>4, <2>5, <3>1, <3>3, <3>4, Zenon
  <2>10. CASE ~(b.vpos + 1 < frame_vmax(b))
    <3>1. s = w
      BY <2>1, <2>5, <2>10, Zenon
    <3>2. c.frame_count \in {0, 1} /\ c.frame_count # b.frame_count
      <4>1. (b.frame_count + 1) % 2 \in {0, 1} /\ (b.frame_count + 1) % 2 # b.frame_count
        BY <1>0
      <4> QED
        BY <1>5, <2>6, <2>7, <3>1, <4>1, Zenon
    <3>3. c \in DenBeam
      BY <1>0, <1>5, <2>2, <2>5, <2>6, <2>7, <2>8, <3>1, <3>2, Zenon DEF DenBeam, lof
    <3>4. ToFrame(b, c)
      BY <1>5, <2>0, <2>5, <2>6, <2>7, <2>10, <3>1, <3>2, Zenon DEF ToFrame, lof
    <3> QED
      BY <1>4, <1>5, <2>5, <2>6, <2>7, <3>1, <3>3, <3>4, Zenon
  <2> QED
    BY <2>9, <2>10
<1> QED
  BY <1>6, <1>7

-----------------------------------------------------------------------------
(* The frame buffers when a line is left.                                  *)
LEMMA FrameFields ==
    ASSUME NEW f \in FrameState
    PROVE  /\ f.rows \in [{0, 1} -> [Ys -> Row]] /\ f.front \in {0, 1} /\ f.field \in Fields
           /\ f.lof \in BOOLEAN /\ f.lof_toggle \in BOOLEAN /\ f.pending \in BOOLEAN
           /\ f.redraw \in BOOLEAN /\ f.pending_flags \in SUBSET Flags
           /\ f.flags \in SUBSET Flags /\ 1 - f.front \in {0, 1} /\ 1 - f.front # f.front
<1>1. /\ f.rows \in [{0, 1} -> [Ys -> Row]] /\ f.front \in {0, 1} /\ f.field \in Fields
      /\ f.lof \in BOOLEAN /\ f.lof_toggle \in BOOLEAN /\ f.pending \in BOOLEAN
      /\ f.redraw \in BOOLEAN /\ f.pending_flags \in SUBSET Flags
      /\ f.flags \in SUBSET Flags
  BY Zenon DEF FrameState
<1>2. PICK k \in {0, 1} : k = f.front
  BY <1>1
<1>3. 1 - k \in {0, 1} /\ 1 - k # k
  OBVIOUS
<1> QED
  BY <1>1, <1>2, <1>3, Zenon

(* f and g differ in their rows and flags at most.                         *)
SameScan(f, g) == g.front = f.front /\ g.field = f.field /\ g.lof = f.lof
                  /\ g.lof_toggle = f.lof_toggle

RowStored(f, g, y, row) ==
    \A z \in Ys : /\ g.rows[f.front][z] = f.rows[f.front][z]
                  /\ g.rows[1 - f.front][z] = IF z = y THEN row ELSE f.rows[1 - f.front][z]

LEMMA StoredRow ==
    ASSUME NEW f \in FrameState, NEW y \in Nat, NEW row \in Row, NEW ended
    PROVE  /\ store_row(f, y, row, ended) \in FrameState
           /\ SameScan(f, store_row(f, y, row, ended))
           /\ RowStored(f, store_row(f, y, row, ended), y, row)
<1>0. /\ f.rows \in [{0, 1} -> [Ys -> Row]] /\ f.front \in {0, 1}
      /\ 1 - f.front \in {0, 1} /\ 1 - f.front # f.front
  BY FrameFields, Zenon
<1>1. PICK g : g = store_row(f, y, row, ended)
  OBVIOUS
<1>2. PICK k \in {0, 1} : k = 1 - f.front
  BY <1>0
<1>3. y < MaxLines <=> y \in Ys
  BY DenConstants DEF Ys
<1>4. CASE y \in Ys
  <2>1. PICK rows : rows = [f.rows EXCEPT ![k][y] = row]
    OBVIOUS
  <2>2. rows \in [{0, 1} -> [Ys -> Row]]
    BY <1>0, <1>4, <2>1, Zenon
  <2>3. g = [f EXCEPT !.rows = rows]
    BY <1>1, <1>2, <1>3, <1>4, <2>1, Zenon DEF store_row
  <2>4. g \in FrameState
    BY <2>2, <2>3, Zenon DEF FrameState
  <2>5. g.rows = rows /\ SameScan(f, g)
    BY <2>3, Zenon DEF SameScan, FrameState
  <2>6. rows[f.front] = f.rows[f.front]
    BY <1>0, <1>2, <2>1, Zenon
  <2>7. rows[k] = [f.rows[k] EXCEPT ![y] = row] /\ f.rows[k] \in [Ys -> Row]
    BY <1>0, <2>1, Zenon
  <2>8. \A z \in Ys : rows[k][z] = IF z = y THEN row ELSE f.rows[k][z]
    BY <2>7, Zenon
  <2> QED
    BY <1>1, <1>2, <2>4, <2>5, <2>6, <2>8, Zenon DEF RowStored
<1>5. CASE y \notin Ys
  <2>1. g = f
    BY <1>1, <1>3, <1>5, Zenon DEF store_row
  <2> QED
    BY <1>1, <1>5, <2>1, Zenon DEF RowStored, SameScan
<1> QED
  BY <1>4, <1>5

LEMMA FlagsAdded ==
    ASSUME NEW f \in FrameState, NEW m \in SUBSET Flags, NEW g,
           g = [f EXCEPT !.pending_flags = f.pending_flags \cup m]
    PROVE  g \in FrameState /\ SameScan(f, g) /\ g.rows = f.rows
<1>1. f.pending_flags \cup m \in SUBSET Flags
  BY FrameFields
<1>2. PICK p \in SUBSET Flags : p = f.pending_flags \cup m
  BY <1>1
<1>3. g = [f EXCEPT !.pending_flags = p]
  BY <1>2, Zenon
<1> QED
  BY <1>3, Zenon DEF FrameState, SameScan

LEMMA Swapped ==
    ASSUME NEW f \in FrameState, NEW b
    PROVE  /\ swap(f, b) \in FrameState /\ swap(f, b).front = 1 - f.front
           /\ swap(f, b).field = field_of(f, b)
           /\ swap(f, b).rows = f.rows
<1>0. /\ f.pending_flags \in SUBSET Flags /\ f.pending \in BOOLEAN /\ 1 - f.front \in {0, 1}
  BY FrameFields, Zenon
<1>1. field_of(f, b) \in Fields
  BY Zenon DEF field_of, Fields
<1>2. PICK d \in Fields : d = field_of(f, b)
  BY <1>1
<1>3. PICK k \in {0, 1} : k = 1 - f.front
  BY <1>0
<1>4. PICK g : g = [f EXCEPT !.field = d, !.flags = f.pending_flags, !.redraw = f.pending,
                             !.pending_flags = {}, !.pending = FALSE, !.front = k]
  OBVIOUS
<1>5. swap(f, b) = g
  BY <1>2, <1>3, <1>4, Zenon DEF swap
<1>6. {} \in SUBSET Flags /\ FALSE \in BOOLEAN
  OBVIOUS
<1>7. g \in FrameState
  BY <1>0, <1>4, <1>6, Zenon DEF FrameState
<1>8. g.front = k /\ g.field = d /\ g.rows = f.rows
  BY <1>4, Zenon DEF FrameState
<1> QED
  BY <1>2, <1>3, <1>5, <1>7, <1>8, Zenon

LEMMA SyncedFrame ==
    ASSUME NEW f \in FrameState, NEW b \in BeamState
    PROVE  /\ synced(f, b) \in FrameState /\ synced(f, b).lof = b.lof
           /\ synced(f, b).lof_toggle = b.lof_toggle
           /\ synced(f, b).front = f.front /\ synced(f, b).field = f.field
           /\ synced(f, b).rows = f.rows
<1>0. b.lof \in BOOLEAN /\ b.lof_toggle \in BOOLEAN
  BY BeamBooleans, Zenon
<1>1. PICK g : g = [f EXCEPT !.lof = b.lof, !.lof_toggle = b.lof_toggle]
  OBVIOUS
<1>2. g \in FrameState
  BY <1>0, <1>1, Zenon DEF FrameState
<1>3. /\ g.lof = b.lof /\ g.lof_toggle = b.lof_toggle /\ g.front = f.front
      /\ g.field = f.field /\ g.rows = f.rows
  BY <1>1, Zenon DEF FrameState
<1> QED
  BY <1>1, <1>2, <1>3, Zenon DEF synced

LinedFrame(f, y, row, ended, m) ==
    [store_row(f, y, row, ended) EXCEPT !.pending_flags = @ \cup m]

LeftFrame(f, y, row, ended, m, b) ==
    IF ended THEN swap(LinedFrame(f, y, row, ended, m), b) ELSE LinedFrame(f, y, row, ended, m)

NewFrame(f, y, row, ended, m, k, b) ==
    synced([LeftFrame(f, y, row, ended, m, b) EXCEPT !.pending_flags = @ \cup k], b)

(* What the compositor's tick makes of a frame at the end of a line.       *)
FrameLeft(f, g, y, row, ended, b) ==
    /\ g \in FrameState /\ RowStored(f, g, y, row)
    /\ g.front = IF ended THEN 1 - f.front ELSE f.front
    /\ g.field = IF ended THEN field_of(f, b) ELSE f.field
    /\ g.lof = b.lof /\ g.lof_toggle = b.lof_toggle

LEMMA LineLeaves ==
    ASSUME NEW f \in FrameState, NEW y \in Nat, NEW row \in Row, NEW ended,
           NEW m \in SUBSET Flags, NEW k \in SUBSET Flags, NEW b \in BeamState
    PROVE  FrameLeft(f, NewFrame(f, y, row, ended, m, k, b), y, row, ended, b)
<1>1. PICK f1 : f1 = store_row(f, y, row, ended)
  OBVIOUS
<1>2. f1 \in FrameState /\ SameScan(f, f1) /\ RowStored(f, f1, y, row)
  BY <1>1, StoredRow
<1>3. PICK f2 : f2 = LinedFrame(f, y, row, ended, m)
  OBVIOUS
<1>4. f2 = [f1 EXCEPT !.pending_flags = f1.pending_flags \cup m]
  BY <1>1, <1>3, Zenon DEF LinedFrame
<1>5. f2 \in FrameState /\ SameScan(f1, f2) /\ f2.rows = f1.rows
  BY <1>2, <1>4, FlagsAdded, Zenon
<1>6. PICK f3 : f3 = LeftFrame(f, y, row, ended, m, b)
  OBVIOUS
<1>7. f3 = IF ended THEN swap(f2, b) ELSE f2
  BY <1>3, <1>6, Zenon DEF LeftFrame
<1>8. field_of(f2, b) = field_of(f, b)
  BY <1>2, <1>5, Zenon DEF field_of, SameScan
<1>9. f3 \in FrameState /\ f3.rows = f1.rows
  BY <1>5, <1>7, Swapped, Zenon
<1>10. f3.front = IF ended THEN 1 - f.front ELSE f.front
  <2>1. f2.front = f.front
    BY <1>2, <1>5, Zenon DEF SameScan
  <2>2. swap(f2, b).front = 1 - f2.front
    BY <1>5, Swapped
  <2> QED
    BY <1>7, <2>1, <2>2, Zenon
<1>11. f3.field = IF ended THEN field_of(f, b) ELSE f.field
  <2>1. f2.field = f.field
    BY <1>2, <1>5, Zenon DEF SameScan
  <2>2. swap(f2, b).field = field_of(f2, b)
    BY <1>5, Swapped
  <2> QED
    BY <1>7, <1>8, <2>1, <2>2, Zenon
<1>12. PICK f4 : f4 = [f3 EXCEPT !.pending_flags = f3.pending_flags \cup k]
  OBVIOUS
<1>13. f4 \in FrameState /\ SameScan(f3, f4) /\ f4.rows = f3.rows
  BY <1>9, <1>12, FlagsAdded, Zenon
<1>14. NewFrame(f, y, row, ended, m, k, b) = synced(f4, b)
  BY <1>6, <1>12, Zenon DEF NewFrame
<1>15. PICK g : g = synced(f4, b)
  OBVIOUS
<1>16. /\ g \in FrameState /\ g.lof = b.lof /\ g.lof_toggle = b.lof_toggle
       /\ g.front = f4.front /\ g.field = f4.field /\ g.rows = f4.rows
  BY <1>13, <1>15, SyncedFrame
<1>17. g.rows = f1.rows
  BY <1>9, <1>13, <1>16, Zenon
<1>18. RowStored(f, g, y, row)
  BY <1>2, <1>17, Zenon DEF RowStored
<1>19. f4.front = f3.front /\ f4.field = f3.field
  BY <1>13, Zenon DEF SameScan
<1> QED
  BY <1>10, <1>11, <1>14, <1>15, <1>16, <1>18, <1>19, Zenon DEF FrameLeft

LEMMA LineColls ==
    ASSUME NEW l, NEW clx
    PROVE  collisions(l, clx) \in SUBSET (0..6)
<1> DEFINE Here(x) == collision_check_pixel(clx, {i \in 0..7 : sprite_index(l, i, x) # 0},
                                            playfield(l)[x].active)
<1>1. \A x : Here(x) \subseteq 0..6
  BY Zenon DEF collision_check_pixel
<1>2. collisions(l, clx) = IF ~clx.on THEN {} ELSE UNION {Here(x) : x \in l.win \cap Xs}
  BY Zenon DEF collisions
<1> HIDE DEF Here
<1>3. UNION {Here(x) : x \in l.win \cap Xs} \subseteq 0..6
  BY <1>1, Zenon
<1> QED
  BY <1>2, <1>3, Zenon

-----------------------------------------------------------------------------
(* The inductive invariant.                                                *)
Typed ==
    /\ dregs \in DenRegs /\ video \in Window /\ sprites \in [0..7 -> Sprite]
    /\ line \in LineState /\ coll \in CollState /\ raster \in DenBeam
    /\ frame \in FrameState /\ shown \in ShownState

(* The line being fetched is the one the history has.                      *)
LineKept ==
    /\ shown.px = line.px /\ (line.valid <=> line.px # <<>>)
    /\ line.valid => shown.con = line.con

(* Denise knows the interlace state of the beam, but for a clock at which  *)
(* no frame ends; the field handed out last is not the next one.           *)
Interlaced ==
    /\ raster.lof_toggle = dregs.con.lace
    /\ shown.steady >= 1 =>
          \/ frame.lof = raster.lof /\ frame.lof_toggle = raster.lof_toggle
          \/ raster.vpos = 0 /\ raster.hpos = 0
          \/ raster.vpos = VisStart /\ raster.hpos = LineClocks - 1
    /\ shown.steady = 2 =>
          IF raster.lof_toggle THEN frame.field # (IF raster.lof THEN "odd" ELSE "even")
          ELSE frame.field = "none"

Pictures == LineAsResolved /\ FrontIsLastFrame

DenInv == Typed /\ LineKept /\ WindowIsCurrent /\ CollisionsKept /\ Interlaced /\ Pictures

LEMMA LineStateFields ==
    ASSUME Typed
    PROVE  /\ line.px \in Seq(Nat) /\ line.con \in Control /\ line.valid \in BOOLEAN
           /\ coll.con \in Collide /\ coll.dat \in SUBSET (0..6)
           /\ dregs.con \in Control /\ dregs.pal \in Palette /\ dregs.ddf \in Nat
           /\ line_con \in Control
<1>1. line \in LineState /\ coll \in CollState /\ dregs \in DenRegs
  BY Zenon DEF Typed
<1>2. line.px \in Seq(Nat) /\ line.con \in Control /\ line.valid \in BOOLEAN
  BY <1>1, Zenon DEF LineState
<1>3. coll.con \in Collide /\ coll.dat \in SUBSET (0..6)
  BY <1>1, Zenon DEF CollState
<1>4. dregs.con \in Control /\ dregs.pal \in Palette /\ dregs.ddf \in Nat
  BY <1>1, RegFields, Zenon
<1>5. line_con \in Control
  BY <1>2, <1>4, Zenon DEF line_con
<1> QED
  BY <1>2, <1>3, <1>4, <1>5, Zenon

LEMMA ShownFields ==
    ASSUME Typed
    PROVE  /\ shown.px \in Seq(Nat) /\ shown.con \in Control /\ shown.now \in Partial
           /\ shown.last \in Partial /\ shown.met \in SUBSET (0..6) /\ shown.steady \in 0..2
BY Zenon DEF Typed, ShownState

LEMMA ComposedTyped ==
    ASSUME Typed, NEW y \in Nat, NEW px \in Seq(Nat), NEW con \in Control
    PROVE  to_compose(y, px, con) \in LineRec
<1>1. dregs.pal \in Palette /\ dregs.ddf \in Nat
  BY LineStateFields, Zenon
<1>2. sprites \in [0..7 -> Sprite] /\ video \in Window
  BY Zenon DEF Typed
<1>3. video.x0 \in Nat /\ video.x1 \in Nat
  BY <1>2, Zenon DEF Window
<1>4. PICK w \in SUBSET Int : w = video.x0..(video.x1 - 1)
  BY <1>3
<1>5. PICK wide \in BOOLEAN : wide = (video.x1 - video.x0 > 2 * Byte8)
  <2>1. (video.x1 - video.x0 > 2 * Byte8) \in BOOLEAN
    OBVIOUS
  <2> QED
    BY <2>1, Zenon
<1>6. to_compose(y, px, con) =
        [px |-> px, con |-> con, sprites |-> sprites, pal |-> dregs.pal, win |-> w,
         ddf |-> dregs.ddf, wide |-> wide, y |-> y]
  BY <1>4, <1>5, Zenon DEF to_compose
<1>7. PICK pal \in Palette : pal = dregs.pal
  BY <1>1
<1>8. PICK ddf \in Nat : ddf = dregs.ddf
  BY <1>1
<1>9. PICK spr \in [0..7 -> Sprite] : spr = sprites
  BY <1>2
<1>10. [px |-> px, con |-> con, sprites |-> spr, pal |-> pal, win |-> w,
        ddf |-> ddf, wide |-> wide, y |-> y] \in LineRec
  BY DEF LineRec
<1> QED
  BY <1>6, <1>7, <1>8, <1>9, <1>10, Zenon

LEMMA TrueLine ==
    ASSUME Typed, LineKept, NEW b \in DenBeam
    PROVE  /\ true_line(b) = to_compose(b.vpos, line.px, line_con)
           /\ true_line(b) \in LineRec
<1>1. b.vpos \in Nat
  BY DenBeamFields
<1>2. (IF shown.px = <<>> THEN dregs.con ELSE shown.con) = line_con
  BY Zenon DEF LineKept, line_con
<1>3. true_line(b) = to_compose(b.vpos, line.px, line_con)
  BY <1>2, Zenon DEF true_line, LineKept
<1> QED
  BY <1>1, <1>3, LineStateFields, ComposedTyped, Zenon

TickRow(b) == IF visible(b) THEN compose_line(to_compose(b.vpos, line.px, line_con))
              ELSE border_line

LEMMA RowTrue ==
    ASSUME Typed, LineKept, NEW b \in DenBeam
    PROVE  TickRow(b) = true_row(b) /\ TickRow(b) \in Row
<1>1. CASE visible(b)
  <2>1. TickRow(b) = compose_line(true_line(b)) /\ true_row(b) = resolved_line(true_line(b))
    BY <1>1, TrueLine, Zenon DEF TickRow, true_row
  <2>2. true_line(b) \in LineRec
    BY TrueLine
  <2> QED
    BY <2>1, <2>2, ComposedAsResolved, Zenon DEF Row
<1>2. CASE ~visible(b)
  <2>1. TickRow(b) = border_line /\ true_row(b) = border_line
    BY <1>2, Zenon DEF TickRow, true_row
  <2>2. dregs.pal[0] \in Colour
    <3>1. dregs.pal \in Palette
      BY LineStateFields
    <3>2. 0 \in 0..31
      OBVIOUS
    <3> QED
      BY <3>1, <3>2, Zenon DEF Palette
  <2> QED
    BY <2>1, <2>2, Zenon DEF Row, border_line
<1> QED
  BY <1>1, <1>2

TickColls(b, c) ==
    (IF visible(b) THEN collisions(to_compose(b.vpos, line.px, line_con), coll.con) ELSE {})
    \cup IF ~visible(b) /\ visible(c)
         THEN collisions(to_compose(c.vpos, <<>>, dregs.con), coll.con) ELSE {}

LEMMA CollsTrue ==
    ASSUME Typed, LineKept, NEW b \in DenBeam, NEW c
    PROVE  /\ true_collisions(b) \subseteq TickColls(b, c)
           /\ TickColls(b, c) \in SUBSET (0..6) /\ true_collisions(b) \in SUBSET (0..6)
<1>1. TickColls(b, c) \in SUBSET (0..6)
  BY LineColls, Zenon DEF TickColls
<1>2. true_collisions(b) \subseteq TickColls(b, c)
  <2>1. CASE ~coll.con.on \/ ~visible(b)
    BY <2>1, Zenon DEF true_collisions
  <2>2. CASE coll.con.on /\ visible(b)
    <3>1. true_collisions(b) = MetIn(true_line(b), coll.con)
      BY <2>2, Zenon DEF true_collisions, MetIn, Meet, SpriteAt
    <3>2. true_line(b) \in LineRec /\ coll.con \in Collide
      BY TrueLine, LineStateFields
    <3>3. MetIn(true_line(b), coll.con) \subseteq collisions(true_line(b), coll.con)
      BY <2>2, <3>2, CollisionsSeen
    <3>4. collisions(true_line(b), coll.con) \subseteq TickColls(b, c)
      BY <2>2, TrueLine, Zenon DEF TickColls
    <3> QED
      BY <3>1, <3>3, <3>4, Zenon
  <2> QED
    BY <2>1, <2>2
<1> QED
  BY <1>1, <1>2

RowsNow(b) ==
    IF b.vpos < MaxLines
    THEN [y \in {b.vpos} \cup DOMAIN shown.now |->
            IF y = b.vpos THEN true_row(b) ELSE shown.now[y]]
    ELSE shown.now

LEMMA RowsGrow ==
    ASSUME Typed, LineKept, NEW b \in DenBeam
    PROVE  /\ RowsNow(b) \in Partial
           /\ \A y \in DOMAIN RowsNow(b) :
                 RowsNow(b)[y] = IF y = b.vpos THEN true_row(b) ELSE shown.now[y]
           /\ \A y \in DOMAIN RowsNow(b) : y # b.vpos => y \in DOMAIN shown.now
           /\ b.vpos \notin Ys => RowsNow(b) = shown.now
<1>1. PICK D \in SUBSET Ys : shown.now \in [D -> Row]
  BY ShownFields, Zenon DEF Partial
<1>2. true_row(b) \in Row /\ b.vpos \in Nat
  BY RowTrue, DenBeamFields
<1>3. b.vpos < MaxLines <=> b.vpos \in Ys
  BY <1>2, DenConstants DEF Ys
<1>4. CASE b.vpos \in Ys
  <2>1. PICK E : E = {b.vpos} \cup D
    OBVIOUS
  <2>2. E \in SUBSET Ys /\ \A y \in E : y # b.vpos => y \in D
    BY <1>4, <2>1, Zenon
  <2>3. RowsNow(b) = [y \in E |-> IF y = b.vpos THEN true_row(b) ELSE shown.now[y]]
    BY <1>1, <1>3, <1>4, <2>1, Zenon DEF RowsNow
  <2>4. RowsNow(b) \in [E -> Row]
    BY <1>1, <1>2, <2>2, <2>3, Zenon
  <2>5. RowsNow(b) \in Partial
    BY <2>2, <2>4, Zenon DEF Partial
  <2> QED
    BY <1>1, <1>4, <2>2, <2>3, <2>5, Zenon
<1>5. CASE b.vpos \notin Ys
  <2>1. RowsNow(b) = shown.now
    BY <1>3, <1>5, Zenon DEF RowsNow
  <2> QED
    BY <1>1, <1>5, <2>1, Zenon DEF Partial
<1> QED
  BY <1>4, <1>5

-----------------------------------------------------------------------------
(* What Denise starts with, and falls back to.                             *)
LEMMA ResetValues ==
    /\ NoCon \in Control /\ NoClx \in Collide /\ no_line \in LineState
    /\ sprites_reset \in [0..7 -> Sprite]
<1>1. NoCon \in Control
  BY PixelsAssumption DEF NoCon, Control
<1>2. NoClx \in Collide
  BY DEF NoClx, Collide
<1>3. no_line \in LineState
  <2>1. <<>> \in Seq(Nat)
    OBVIOUS
  <2>2. PICK e \in Seq(Nat) : e = <<>>
    BY <2>1
  <2>3. no_line = [px |-> e, con |-> NoCon, valid |-> FALSE]
    BY <2>2, Zenon DEF no_line
  <2>4. [px |-> e, con |-> NoCon, valid |-> FALSE] \in LineState
    BY <1>1 DEF LineState
  <2> QED
    BY <2>3, <2>4, Zenon
<1>4. NoSprite \in Sprite
  <2>1. PICK p \in [1..SpriteWidth -> 0..3] : p = [i \in 1..SpriteWidth |-> 0]
    <3>1. 0 \in 0..3
      OBVIOUS
    <3> QED
      BY <3>1, Zenon
  <2>2. [armed |-> FALSE, attach |-> FALSE, h |-> 0, vs |-> 0, ve |-> 0, px |-> p] \in Sprite
    BY DEF Sprite
  <2> QED
    BY <2>1, <2>2, Zenon DEF NoSprite
<1>5. sprites_reset \in [0..7 -> Sprite]
  BY <1>4, Zenon DEF sprites_reset
<1> QED
  BY <1>1, <1>2, <1>3, <1>5

TickFlags(b) == IF visible(b) THEN mode_flags(line_con) ELSE {}

EntryFlags(b, c) == IF ~visible(b) /\ visible(c) THEN mode_flags(dregs.con) ELSE {}

LEMMA FlagsTyped ==
    ASSUME NEW b, NEW c
    PROVE  TickFlags(b) \in SUBSET Flags /\ EntryFlags(b, c) \in SUBSET Flags
BY Zenon DEF TickFlags, EntryFlags, mode_flags, Flags

Ends(b, c) == c.frame_count # b.frame_count

(* The clock that leaves a line, as its effect on each part.               *)
LineLeft(c) ==
    /\ frame' = NewFrame(frame, raster.vpos, TickRow(raster), Ends(raster, c), TickFlags(raster),
                         EntryFlags(raster, c), c)
    /\ coll' = [coll EXCEPT !.dat = coll.dat \cup TickColls(raster, c)]
    /\ line' = no_line
    /\ shown' = [shown EXCEPT !.px = <<>>, !.con = NoCon,
                              !.now = IF Ends(raster, c) THEN <<>> ELSE RowsNow(raster),
                              !.last = IF Ends(raster, c) THEN RowsNow(raster) ELSE shown.last,
                              !.met = shown.met \cup true_collisions(raster),
                              !.steady = IF Ends(raster, c) /\ shown.steady < 2
                                         THEN shown.steady + 1 ELSE shown.steady]

LEMMA TickDoes ==
    ASSUME Typed, DenTick, NEW c, c = Followed(raster)
    PROVE  /\ raster' = c /\ sprites' \in [0..7 -> Sprite]
           /\ dregs' = dregs /\ video' = video
           /\ IF c.hpos = 0 THEN LineLeft(c)
              ELSE /\ frame' = synced(frame, c) /\ line' = line
                   /\ coll' = coll /\ shown' = shown
<1>1. raster' = c
  BY Zenon DEF DenTick, Followed
<1>2. sprites' \in [0..7 -> Sprite] /\ dregs' = dregs /\ video' = video
  BY ResetValues, Zenon DEF DenTick, Typed
<1>3. CASE c.hpos = 0
  <2>1. leave_line(raster, c) /\ shown' = witness(raster, c)
    BY <1>3, Zenon DEF DenTick, Followed
  <2>2. frame' = NewFrame(frame, raster.vpos, TickRow(raster), Ends(raster, c), TickFlags(raster),
                          EntryFlags(raster, c), c)
    BY <2>1, Zenon DEF leave_line, NewFrame, LeftFrame, LinedFrame, TickRow, TickFlags,
                       EntryFlags, Ends
  <2>3. coll' = [coll EXCEPT !.dat = coll.dat \cup TickColls(raster, c)] /\ line' = no_line
    BY <2>1, Zenon DEF leave_line, collected, TickColls
  <2>4. shown' = [shown EXCEPT !.px = <<>>, !.con = NoCon,
                               !.now = IF Ends(raster, c) THEN <<>> ELSE RowsNow(raster),
                               !.last = IF Ends(raster, c) THEN RowsNow(raster) ELSE shown.last,
                               !.met = shown.met \cup true_collisions(raster),
                               !.steady = IF Ends(raster, c) /\ shown.steady < 2
                                          THEN shown.steady + 1 ELSE shown.steady]
    BY <2>1, Zenon DEF witness, RowsNow, Ends
  <2> QED
    BY <1>1, <1>2, <1>3, <2>2, <2>3, <2>4, Zenon DEF LineLeft
<1>4. CASE c.hpos # 0
  BY <1>1, <1>2, <1>4, Zenon DEF DenTick, Followed
<1> QED
  BY <1>3, <1>4

LEMMA EmptyPartial ==
    <<>> \in Partial /\ DOMAIN <<>> = {}
<1>1. PICK e : e = <<>>
  OBVIOUS
<1>2. e \in [{} -> Row] /\ DOMAIN e = {}
  BY <1>1
<1> QED
  BY <1>1, <1>2, Zenon DEF Partial

(* The history of a line that is left.                                     *)
LEMMA ShownLeft ==
    ASSUME Typed, LineKept, NEW c, LineLeft(c)
    PROVE  /\ shown' \in ShownState /\ shown'.px = <<>>
           /\ shown'.now = (IF Ends(raster, c) THEN <<>> ELSE RowsNow(raster))
           /\ shown'.last = (IF Ends(raster, c) THEN RowsNow(raster) ELSE shown.last)
           /\ shown'.met = shown.met \cup true_collisions(raster)
           /\ shown'.steady = (IF Ends(raster, c) /\ shown.steady < 2
                               THEN shown.steady + 1 ELSE shown.steady)
<1>0. shown \in ShownState /\ raster \in DenBeam
  BY Zenon DEF Typed
<1>1. PICK now \in Partial : now = IF Ends(raster, c) THEN <<>> ELSE RowsNow(raster)
  BY <1>0, EmptyPartial, RowsGrow, Zenon
<1>2. PICK last \in Partial : last = IF Ends(raster, c) THEN RowsNow(raster) ELSE shown.last
  BY <1>0, ShownFields, RowsGrow, Zenon
<1>3. PICK met \in SUBSET (0..6) : met = shown.met \cup true_collisions(raster)
  <2>1. shown.met \in SUBSET (0..6) /\ true_collisions(raster) \in SUBSET (0..6)
    BY <1>0, ShownFields, CollsTrue, Zenon
  <2> QED
    BY <2>1, Zenon
<1>4. PICK steady \in 0..2 : steady = IF Ends(raster, c) /\ shown.steady < 2
                                      THEN shown.steady + 1 ELSE shown.steady
  <2>1. shown.steady \in 0..2
    BY ShownFields
  <2>2. shown.steady < 2 => shown.steady + 1 \in 0..2
    BY <2>1
  <2> QED
    BY <2>1, <2>2, Zenon
<1>5. PICK e \in Seq(Nat) : e = <<>>
  <2>1. <<>> \in Seq(Nat)
    OBVIOUS
  <2> QED
    BY <2>1, Zenon
<1>6. shown' = [shown EXCEPT !.px = e, !.con = NoCon, !.now = now, !.last = last, !.met = met,
                             !.steady = steady]
  BY <1>1, <1>2, <1>3, <1>4, <1>5, Zenon DEF LineLeft
<1>7. shown' \in ShownState
  BY <1>0, <1>6, ResetValues, Zenon DEF ShownState
<1>8. /\ shown'.px = e /\ shown'.now = now /\ shown'.last = last /\ shown'.met = met
      /\ shown'.steady = steady
  BY <1>0, <1>6, Zenon DEF ShownState
<1> QED
  BY <1>1, <1>2, <1>3, <1>4, <1>5, <1>7, <1>8, Zenon

(* A clock within a line, and one that leaves a line, keep the invariant.  *)
LEMMA TickInLine ==
    ASSUME DenInv, DenTick, NEW c, c = Followed(raster), c.hpos # 0
    PROVE  DenInv'
<1>0. Typed /\ raster \in DenBeam /\ frame \in FrameState
  BY Zenon DEF DenInv, Typed
<1>1. /\ raster' = c /\ sprites' \in [0..7 -> Sprite] /\ dregs' = dregs /\ video' = video
      /\ frame' = synced(frame, c) /\ line' = line /\ coll' = coll /\ shown' = shown
  BY <1>0, TickDoes, Zenon
<1>2. c \in DenBeam /\ c.lof_toggle = raster.lof_toggle
  BY <1>0, BeamFollowed
<1>3. InLine(raster, c)
  BY <1>0, BeamFollowed, Zenon DEF ToLine, ToFrame
<1>4. /\ frame' \in FrameState /\ frame'.lof = c.lof /\ frame'.lof_toggle = c.lof_toggle
      /\ frame'.front = frame.front /\ frame'.field = frame.field /\ frame'.rows = frame.rows
  <2>1. c \in BeamState
    BY <1>2, DenBeamFields
  <2>2. PICK g : g = synced(frame, c)
    OBVIOUS
  <2>3. /\ g \in FrameState /\ g.lof = c.lof /\ g.lof_toggle = c.lof_toggle
        /\ g.front = frame.front /\ g.field = frame.field /\ g.rows = frame.rows
    BY <1>0, <2>1, <2>2, SyncedFrame
  <2> QED
    BY <1>1, <2>2, <2>3, Zenon
<1>5. Typed'
  BY <1>0, <1>1, <1>2, <1>4, Zenon DEF Typed
<1>6. LineKept' /\ WindowIsCurrent' /\ CollisionsKept'
  BY <1>1, Zenon DEF DenInv, LineKept, WindowIsCurrent, CollisionsKept
<1>7. Pictures'
  BY <1>1, <1>4, Zenon DEF DenInv, Pictures, LineAsResolved, FrontIsLastFrame
<1>8. Interlaced'
  BY <1>1, <1>2, <1>3, <1>4, Zenon DEF DenInv, Interlaced, InLine
<1> QED
  BY <1>5, <1>6, <1>7, <1>8, Zenon DEF DenInv

LEMMA TickPictures ==
    ASSUME DenInv, NEW c \in DenBeam, LineLeft(c)
    PROVE  Pictures'
<1>0. Typed /\ LineKept /\ raster \in DenBeam /\ frame \in FrameState
  BY Zenon DEF DenInv, Typed
<1>1. PICK y \in Nat : y = raster.vpos
  BY <1>0, DenBeamFields
<1>2. PICK row \in Row : row = TickRow(raster) /\ row = true_row(raster)
  BY <1>0, RowTrue
<1>3. FrameLeft(frame, frame', y, row, Ends(raster, c), c)
  <2>1. c \in BeamState
    BY DenBeamFields
  <2>2. frame' = NewFrame(frame, y, row, Ends(raster, c), TickFlags(raster),
                          EntryFlags(raster, c), c)
    BY <1>1, <1>2, Zenon DEF LineLeft
  <2>3. TickFlags(raster) \in SUBSET Flags /\ EntryFlags(raster, c) \in SUBSET Flags
    BY FlagsTyped
  <2>4. FrameLeft(frame, NewFrame(frame, y, row, Ends(raster, c), TickFlags(raster),
                          EntryFlags(raster, c), c), y, row, Ends(raster, c), c)
    BY <1>0, <2>1, <2>3, LineLeaves
  <2> QED
    BY <2>2, <2>4, Zenon
<1>4. /\ RowStored(frame, frame', y, row)
      /\ frame'.front = IF Ends(raster, c) THEN 1 - frame.front ELSE frame.front
  BY <1>3, Zenon DEF FrameLeft
<1>5. /\ shown'.now = (IF Ends(raster, c) THEN <<>> ELSE RowsNow(raster))
      /\ shown'.last = (IF Ends(raster, c) THEN RowsNow(raster) ELSE shown.last)
  BY <1>0, ShownLeft
<1>6. PICK N : N = RowsNow(raster)
  OBVIOUS
<1>7. /\ N \in Partial
      /\ \A z \in DOMAIN N : N[z] = IF z = y THEN row ELSE shown.now[z]
      /\ \A z \in DOMAIN N : z # y => z \in DOMAIN shown.now
  BY <1>0, <1>1, <1>2, <1>6, RowsGrow
<1>8. DOMAIN N \subseteq Ys /\ DOMAIN shown.last \subseteq Ys
  BY <1>0, <1>7, ShownFields, Zenon DEF Partial
<1>9. \A z \in DOMAIN N : frame'.rows[1 - frame.front][z] = N[z]
  <2> SUFFICES ASSUME NEW z \in DOMAIN N PROVE frame'.rows[1 - frame.front][z] = N[z]
    OBVIOUS
  <2>1. z \in Ys
    BY <1>8, Zenon
  <2>2. frame'.rows[1 - frame.front][z] = IF z = y THEN row ELSE frame.rows[1 - frame.front][z]
    BY <1>4, <2>1, Zenon DEF RowStored
  <2>3. z # y => frame.rows[1 - frame.front][z] = shown.now[z]
    BY <1>7, Zenon DEF DenInv, Pictures, LineAsResolved
  <2> QED
    BY <1>7, <2>2, <2>3, Zenon
<1>10. \A z \in DOMAIN shown.last : frame'.rows[frame.front][z] = shown.last[z]
  BY <1>4, <1>8, Zenon DEF RowStored, DenInv, Pictures, FrontIsLastFrame
<1>11. CASE Ends(raster, c)
  <2>1. LineAsResolved'
    <3>1. DOMAIN (shown'.now) = {}
      BY <1>5, <1>11, EmptyPartial, Zenon
    <3> QED
      BY <3>1, Zenon DEF LineAsResolved
  <2>2. FrontIsLastFrame'
    BY <1>4, <1>5, <1>6, <1>9, <1>11, Zenon DEF FrontIsLastFrame
  <2> QED
    BY <2>1, <2>2, Zenon DEF Pictures
<1>12. CASE ~Ends(raster, c)
  <2>1. LineAsResolved'
    BY <1>4, <1>5, <1>6, <1>9, <1>12, Zenon DEF LineAsResolved
  <2>2. FrontIsLastFrame'
    BY <1>4, <1>5, <1>10, <1>12, Zenon DEF FrontIsLastFrame
  <2> QED
    BY <2>1, <2>2, Zenon DEF Pictures
<1> QED
  BY <1>11, <1>12

(* A frame ends only where Denise knows the interlace state.               *)
LEMMA EndKnown ==
    ASSUME DenInv, NEW c, c = Followed(raster), Ends(raster, c), shown.steady >= 1
    PROVE  /\ ToFrame(raster, c)
           /\ frame.lof = raster.lof /\ frame.lof_toggle = raster.lof_toggle
<1>0. raster \in DenBeam
  BY Zenon DEF DenInv, Typed
<1>1. ToFrame(raster, c)
  BY <1>0, BeamFollowed, Zenon DEF InLine, ToLine, Ends
<1>2. /\ raster.hpos = LineClocks - 1 /\ ~(raster.vpos + 1 < frame_vmax(raster))
  BY <1>1, Zenon DEF ToFrame
<1>3. raster.hpos # 0
  BY <1>2
<1>4. raster.vpos # VisStart
  <2>1. raster.frame_lines \in FrameLengths /\ raster \in BeamState /\ raster.vpos \in Nat
    BY <1>0, DenBeamFields
  <2>2. raster.frame_lines > VisStart + 1 /\ raster.frame_lines \in Nat
    BY <2>1, DeniseAssumption
  <2>3. frame_vmax(raster) \in {raster.frame_lines, raster.frame_lines + 1}
    BY <2>1, BeamFields
  <2> QED
    BY <1>2, <2>1, <2>2, <2>3, DenConstants
<1> QED
  BY <1>1, <1>3, <1>4, Zenon DEF DenInv, Interlaced

LEMMA TickInterlaced ==
    ASSUME DenInv, DenTick, NEW c, c = Followed(raster), LineLeft(c), c.hpos = 0
    PROVE  Interlaced'
<1>0. Typed /\ LineKept /\ raster \in DenBeam /\ frame \in FrameState /\ shown.steady \in 0..2
  BY ShownFields, Zenon DEF DenInv, Typed
<1>1. c \in DenBeam /\ c \in BeamState /\ c.lof_toggle = raster.lof_toggle /\ raster' = c
      /\ dregs' = dregs
  BY <1>0, BeamFollowed, DenBeamFields, TickDoes
<1>2. PICK row \in Row : row = TickRow(raster)
  BY <1>0, RowTrue
<1>3. PICK y \in Nat : y = raster.vpos
  BY <1>0, DenBeamFields
<1>4. FrameLeft(frame, frame', y, row, Ends(raster, c), c)
  <2>2. frame' = NewFrame(frame, y, row, Ends(raster, c), TickFlags(raster),
                          EntryFlags(raster, c), c)
    BY <1>2, <1>3, Zenon DEF LineLeft
  <2>3. TickFlags(raster) \in SUBSET Flags /\ EntryFlags(raster, c) \in SUBSET Flags
    BY FlagsTyped
  <2>4. FrameLeft(frame, NewFrame(frame, y, row, Ends(raster, c), TickFlags(raster),
                          EntryFlags(raster, c), c), y, row, Ends(raster, c), c)
    BY <1>0, <1>1, <2>3, LineLeaves
  <2> QED
    BY <2>2, <2>4, Zenon
<1>5. /\ frame'.field = IF Ends(raster, c) THEN field_of(frame, c) ELSE frame.field
      /\ frame'.lof = c.lof /\ frame'.lof_toggle = c.lof_toggle
  BY <1>4, Zenon DEF FrameLeft
<1>6. shown'.steady = (IF Ends(raster, c) /\ shown.steady < 2
                       THEN shown.steady + 1 ELSE shown.steady)
  BY <1>0, ShownLeft
<1>7. raster'.lof_toggle = dregs'.con.lace
  BY <1>1, Zenon DEF DenInv, Interlaced
<1>8. frame'.lof = raster'.lof /\ frame'.lof_toggle = raster'.lof_toggle
  BY <1>1, <1>5, Zenon
<1>9. shown'.steady = 2 =>
        IF raster'.lof_toggle THEN frame'.field # (IF raster'.lof THEN "odd" ELSE "even")
        ELSE frame'.field = "none"
  <2> SUFFICES ASSUME shown'.steady = 2
               PROVE  IF c.lof_toggle THEN frame'.field # (IF c.lof THEN "odd" ELSE "even")
                      ELSE frame'.field = "none"
    BY <1>1, Zenon
  <2>1. CASE Ends(raster, c)
    <3>1. shown.steady >= 1
      BY <1>0, <1>6, <2>1
    <3>2. /\ ToFrame(raster, c)
          /\ frame.lof = raster.lof /\ frame.lof_toggle = raster.lof_toggle
      BY <2>1, <3>1, EndKnown
    <3>3. c.lof = (raster.lof_toggle /\ ~raster.lof)
      BY <3>2, Zenon DEF ToFrame
    <3>4. frame'.field = IF ~raster.lof_toggle THEN "none"
                         ELSE IF raster.lof THEN "odd" ELSE "even"
      BY <1>5, <2>1, <3>2, Zenon DEF field_of
    <3>5. "odd" # "even"
      OBVIOUS
    <3> QED
      BY <1>1, <3>3, <3>4, <3>5, Zenon
  <2>2. CASE ~Ends(raster, c)
    <3>1. c.lof = raster.lof
      BY <1>0, <1>1, <2>2, BeamFollowed, Zenon DEF InLine, ToLine, ToFrame, Ends
    <3> QED
      BY <1>1, <1>5, <1>6, <2>2, <3>1, Zenon DEF DenInv, Interlaced
  <2> QED
    BY <2>1, <2>2
<1> QED
  BY <1>7, <1>8, <1>9, Zenon DEF Interlaced

LEMMA TickLeavesLine ==
    ASSUME DenInv, DenTick, NEW c, c = Followed(raster), c.hpos = 0
    PROVE  DenInv'
<1>0. /\ Typed /\ LineKept /\ raster \in DenBeam /\ frame \in FrameState /\ coll \in CollState
  BY Zenon DEF DenInv, Typed
<1>1. /\ raster' = c /\ sprites' \in [0..7 -> Sprite] /\ dregs' = dregs /\ video' = video
      /\ LineLeft(c)
  BY <1>0, TickDoes, Zenon
<1>2. c \in DenBeam
  BY <1>0, BeamFollowed
<1>3. Pictures'
  BY <1>1, <1>2, TickPictures
<1>4. Interlaced'
  BY <1>1, TickInterlaced
<1>5. shown' \in ShownState /\ shown'.px = <<>> /\ shown'.met = shown.met \cup true_collisions(raster)
  BY <1>0, <1>1, ShownLeft
<1>6. line' = no_line
  BY <1>1, Zenon DEF LineLeft
<1>7. LineKept'
  <2>1. line'.px = <<>> /\ line'.valid = FALSE
    BY <1>6 DEF no_line
  <2> QED
    BY <1>5, <2>1, Zenon DEF LineKept
<1>8. WindowIsCurrent'
  BY <1>1, Zenon DEF DenInv, WindowIsCurrent
<1>9. true_collisions(raster) \subseteq TickColls(raster, c) /\ TickColls(raster, c) \in SUBSET (0..6)
  BY <1>0, CollsTrue
<1>10. PICK dat \in SUBSET (0..6) : dat = coll.dat \cup TickColls(raster, c)
  <2>1. coll.dat \in SUBSET (0..6)
    BY <1>0, LineStateFields
  <2> QED
    BY <1>9, <2>1, Zenon
<1>11. coll' = [coll EXCEPT !.dat = dat]
  BY <1>1, <1>10, Zenon DEF LineLeft
<1>12. coll' \in CollState /\ coll'.dat = dat
  BY <1>0, <1>11, Zenon DEF CollState
<1>13. CollisionsKept'
  <2>1. shown.met \subseteq coll.dat
    BY Zenon DEF DenInv, CollisionsKept
  <2>2. shown'.met \subseteq coll'.dat
    BY <1>5, <1>9, <1>10, <1>12, <2>1, Zenon
  <2> QED
    BY <2>2, Zenon DEF CollisionsKept
<1>14. frame' \in FrameState
  <2>1. c \in BeamState /\ raster.vpos \in Nat /\ TickRow(raster) \in Row
    BY <1>0, <1>2, DenBeamFields, RowTrue
  <2>2. TickFlags(raster) \in SUBSET Flags /\ EntryFlags(raster, c) \in SUBSET Flags
    BY FlagsTyped
  <2>3. frame' = NewFrame(frame, raster.vpos, TickRow(raster), Ends(raster, c), TickFlags(raster),
                          EntryFlags(raster, c), c)
    BY <1>1, Zenon DEF LineLeft
  <2>4. FrameLeft(frame, NewFrame(frame, raster.vpos, TickRow(raster), Ends(raster, c), TickFlags(raster),
                          EntryFlags(raster, c), c), raster.vpos, TickRow(raster), Ends(raster, c), c)
    BY <1>0, <2>1, <2>2, LineLeaves
  <2> QED
    BY <2>3, <2>4, Zenon DEF FrameLeft
<1>15. Typed'
  BY <1>0, <1>1, <1>2, <1>5, <1>6, <1>12, <1>14, ResetValues, Zenon DEF Typed
<1> QED
  BY <1>3, <1>4, <1>7, <1>8, <1>13, <1>15, Zenon DEF DenInv

-----------------------------------------------------------------------------
(* The register writes, the fetches and the reads.                         *)
LEMMA LaceWritten ==
    ASSUME NEW b \in DenBeam, NEW lace \in BOOLEAN, NEW c, c = write_lace(b, lace)
    PROVE  /\ c \in DenBeam /\ c.lof_toggle = lace /\ c.lof = (lace /\ b.lof)
           /\ c.hpos = b.hpos /\ c.vpos = b.vpos
<1>0. /\ b \in BeamState /\ b.lof \in BOOLEAN /\ b.hpos < LineClocks /\ ~b.lol /\ ~b.lol_toggle
      /\ b.frame_count \in {0, 1} /\ b.frame_lines \in FrameLengths
  BY DenBeamFields, Zenon
<1>1. PICK lof \in BOOLEAN : lof = (lace /\ b.lof)
  BY <1>0, Zenon
<1>2. c = [b EXCEPT !.lof_toggle = lace, !.lof = lof]
  BY <1>1, Zenon DEF write_lace
<1>3. c \in BeamState
  BY <1>0, <1>2, Zenon DEF BeamState
<1>4. /\ c.lof_toggle = lace /\ c.lof = lof /\ c.hpos = b.hpos /\ c.vpos = b.vpos
      /\ c.lol = b.lol /\ c.lol_toggle = b.lol_toggle /\ c.frame_count = b.frame_count
      /\ c.frame_lines = b.frame_lines
  BY <1>0, <1>2, Zenon DEF BeamState
<1>5. c \in DenBeam
  BY <1>0, <1>1, <1>3, <1>4, Zenon DEF DenBeam
<1> QED
  BY <1>1, <1>4, <1>5, Zenon

LEMMA StandardSet ==
    ASSUME NEW b \in DenBeam, NEW n \in FrameLengths, NEW c, c = set_video_std(b, n)
    PROVE  /\ c \in DenBeam /\ c.lof_toggle = b.lof_toggle /\ c.lof = b.lof
           /\ c.hpos = b.hpos /\ c.vpos = b.vpos
<1>0. /\ b \in BeamState /\ b.hpos < LineClocks /\ ~b.lol /\ ~b.lol_toggle
      /\ b.frame_count \in {0, 1} /\ b.lof => b.lof_toggle
  BY Zenon DEF DenBeam
<1>1. n \in Nat \ {0}
  BY DeniseAssumption
<1>2. c = [b EXCEPT !.frame_lines = n]
  BY Zenon DEF set_video_std
<1>3. c \in BeamState
  BY <1>0, <1>1, <1>2, Zenon DEF BeamState
<1>4. /\ c.lof_toggle = b.lof_toggle /\ c.lof = b.lof /\ c.hpos = b.hpos /\ c.vpos = b.vpos
      /\ c.lol = b.lol /\ c.lol_toggle = b.lol_toggle /\ c.frame_count = b.frame_count
      /\ c.frame_lines = n
  BY <1>0, <1>2, Zenon DEF BeamState
<1> QED
  BY <1>0, <1>3, <1>4, Zenon DEF DenBeam

(* g differs from the frame f in the redraw that is asked for.             *)
Redrawn(f, g) == g \in FrameState /\ SameScan(f, g) /\ g.rows = f.rows

LEMMA RedrawAsked ==
    ASSUME NEW f \in FrameState, NEW p \in BOOLEAN, NEW g, g = [f EXCEPT !.pending = p]
    PROVE  Redrawn(f, g)
BY Zenon DEF FrameState, SameScan, Redrawn

(* The history but for its pictures, which no operation changes.           *)
SamePictures(s, t) == t \in ShownState /\ t.now = s.now /\ t.last = s.last

LEMMA PicturesStay ==
    ASSUME Pictures, Redrawn(frame, frame'), SamePictures(shown, shown')
    PROVE  Pictures'
<1>1. /\ frame'.rows = frame.rows /\ frame'.front = frame.front
      /\ shown'.now = shown.now /\ shown'.last = shown.last
  BY Zenon DEF Redrawn, SameScan, SamePictures
<1> QED
  BY <1>1, Zenon DEF Pictures, LineAsResolved, FrontIsLastFrame

(* An operation that leaves the interlace state alone.                     *)
LEMMA InterlaceStays ==
    ASSUME Interlaced, Redrawn(frame, frame'),
           raster'.lof = raster.lof, raster'.lof_toggle = raster.lof_toggle,
           raster'.hpos = raster.hpos, raster'.vpos = raster.vpos,
           dregs'.con.lace = dregs.con.lace, shown'.steady = shown.steady
    PROVE  Interlaced'
<1>1. /\ frame'.lof = frame.lof /\ frame'.lof_toggle = frame.lof_toggle
      /\ frame'.field = frame.field
  BY Zenon DEF Redrawn, SameScan
<1> QED
  BY <1>1, Zenon DEF Interlaced

(* A change of LACE at a place where no frame ends.                        *)
LEMMA LaceChanges ==
    ASSUME Typed, Interlaced, Redrawn(frame, frame'), NEW lace \in BOOLEAN,
           raster' = write_lace(raster, lace), dregs'.con.lace = lace,
           ~dregs.con.lace, shown'.steady = shown.steady,
           \/ raster.vpos = 0 /\ raster.hpos = 0
           \/ raster.vpos = VisStart /\ raster.hpos = LineClocks - 1
    PROVE  Interlaced'
<1>1. raster \in DenBeam
  BY Zenon DEF Typed
<1>2. /\ raster'.lof_toggle = lace /\ raster'.lof = (lace /\ raster.lof)
      /\ raster'.hpos = raster.hpos /\ raster'.vpos = raster.vpos
  <2>1. PICK c : c = write_lace(raster, lace)
    OBVIOUS
  <2>2. /\ c.lof_toggle = lace /\ c.lof = (lace /\ raster.lof)
        /\ c.hpos = raster.hpos /\ c.vpos = raster.vpos
    BY <1>1, <2>1, LaceWritten
  <2> QED
    BY <2>1, <2>2, Zenon
<1>3. frame'.field = frame.field
  BY Zenon DEF Redrawn, SameScan
<1>4. ~raster.lof_toggle /\ ~raster.lof
  BY <1>1, DenBeamFields, Zenon DEF Interlaced
<1>5. shown.steady = 2 => frame.field = "none"
  BY <1>4, Zenon DEF Interlaced
<1>6. "none" # "even" /\ "none" # "odd"
  OBVIOUS
<1> QED
  BY <1>2, <1>3, <1>4, <1>5, <1>6, Zenon DEF Interlaced

(* BPLCON0-2, DIWSTRT, DIWSTOP and DIWHIGH: the registers r and a window   *)
(* v that is current for them.                                             *)
LEMMA RegistersWritten ==
    ASSUME DenInv, NEW r \in DenRegs, NEW v \in Window, dregs' = r, video' = v, Current(v, r),
           Redrawn(frame, frame'), sprites' \in [0..7 -> Sprite], line' = line, coll' = coll,
           raster' \in DenBeam, SamePictures(shown, shown'), shown'.px = shown.px,
           shown'.con = shown.con, shown'.met = shown.met, Interlaced'
    PROVE  DenInv'
<1>1. Typed'
  BY Zenon DEF DenInv, Typed, Redrawn, SamePictures
<1>2. LineKept'
  BY Zenon DEF DenInv, LineKept
<1>3. WindowIsCurrent'
  BY Zenon DEF WindowIsCurrent, Current
<1>4. CollisionsKept'
  BY Zenon DEF DenInv, CollisionsKept
<1>5. Pictures'
  BY PicturesStay, Zenon DEF DenInv
<1> QED
  BY <1>1, <1>2, <1>3, <1>4, <1>5, Zenon DEF DenInv

(* Writes that leave the beam and the history alone.                       *)
LEMMA Rewritten ==
    ASSUME DenInv, NEW r \in DenRegs, NEW v \in Window, Rewrite(r, v), Current(v, r),
           raster' = raster, shown' = shown, r.con.lace = dregs.con.lace
    PROVE  DenInv'
<1>0. frame \in FrameState /\ shown \in ShownState /\ raster \in DenBeam
      /\ sprites \in [0..7 -> Sprite] /\ Interlaced
  BY Zenon DEF DenInv, Typed
<1>1. /\ dregs' = r /\ video' = v /\ frame' = [frame EXCEPT !.pending = TRUE]
      /\ sprites' = sprites /\ line' = line /\ coll' = coll
  BY Zenon DEF Rewrite
<1>2. Redrawn(frame, frame')
  <2>1. TRUE \in BOOLEAN
    OBVIOUS
  <2> QED
    BY <1>0, <1>1, <2>1, RedrawAsked
<1>3. SamePictures(shown, shown')
  BY <1>0, Zenon DEF SamePictures
<1>4. Interlaced'
  <2>1. dregs'.con.lace = dregs.con.lace
    BY <1>1
  <2> QED
    BY <1>0, <1>2, <2>1, InterlaceStays, Zenon
<1> QED
  BY <1>0, <1>1, <1>2, <1>3, <1>4, RegistersWritten, Zenon

LEMMA Control0Keeps ==
    ASSUME DenInv, NEW c \in Bplcons, WriteControl0(c)
    PROVE  DenInv'
<1>0. /\ frame \in FrameState /\ shown \in ShownState /\ raster \in DenBeam /\ dregs \in DenRegs
      /\ sprites \in [0..7 -> Sprite] /\ video \in Window /\ Interlaced /\ Typed
  BY Zenon DEF DenInv, Typed
<1>1. c \in Control /\ c.lace \in BOOLEAN
  <2>1. c \in Control
    BY DeniseAssumption, Zenon
  <2> QED
    BY <2>1, ConFields, Zenon
<1>2. PICK con : con = control0(dregs.con, c)
  OBVIOUS
<1>3. con \in Control /\ con.lace = c.lace
  <2>1. PICK old \in Control : old = dregs.con
    BY <1>0, RegFields
  <2>2. con = control0(old, c)
    BY <1>2, <2>1, Zenon
  <2> QED
    BY <1>1, <2>2, ConUpdated
<1>4. PICK r : r = [dregs EXCEPT !.con = con]
  OBVIOUS
<1>5. r \in DenRegs /\ r.con = con
  BY <1>0, <1>3, <1>4, Zenon DEF DenRegs
<1>6. PICK v : v = display_window_update(video, r)
  OBVIOUS
<1>7. v \in Window /\ Current(v, r)
  BY <1>0, <1>5, <1>6, UpdateTyped, UpdateCurrent, Zenon
<1>8. PICK n : n = IF c.lace # dregs.con.lace THEN 0 ELSE shown.steady
  OBVIOUS
<1>9. n \in 0..2
  <2>1. 0 \in 0..2 /\ shown.steady \in 0..2
    BY <1>0, ShownFields
  <2> QED
    BY <1>8, <2>1, Zenon
<1>10. /\ Rewrite(r, v) /\ raster' = write_lace(raster, c.lace)
       /\ shown' = [shown EXCEPT !.steady = n]
  BY <1>2, <1>4, <1>6, <1>8, Zenon DEF WriteControl0
<1>11. /\ dregs' = r /\ video' = v /\ frame' = [frame EXCEPT !.pending = TRUE]
       /\ sprites' = sprites /\ line' = line /\ coll' = coll
  BY <1>10, Zenon DEF Rewrite
<1>12. Redrawn(frame, frame')
  <2>1. TRUE \in BOOLEAN
    OBVIOUS
  <2> QED
    BY <1>0, <1>11, <2>1, RedrawAsked
<1>13. /\ SamePictures(shown, shown') /\ shown'.px = shown.px /\ shown'.con = shown.con
       /\ shown'.met = shown.met /\ shown'.steady = n
  BY <1>0, <1>9, <1>10, Zenon DEF SamePictures, ShownState
<1>14. PICK b : b = write_lace(raster, c.lace)
  OBVIOUS
<1>15. /\ b \in DenBeam /\ b.lof_toggle = c.lace /\ b.lof = (c.lace /\ raster.lof)
       /\ b.hpos = raster.hpos /\ b.vpos = raster.vpos
  BY <1>0, <1>1, <1>14, LaceWritten
<1>16. Interlaced'
  <2>1. CASE c.lace = dregs.con.lace
    <3>1. /\ raster'.lof_toggle = raster.lof_toggle /\ raster'.lof = raster.lof
          /\ raster'.hpos = raster.hpos /\ raster'.vpos = raster.vpos
      BY <1>0, <1>10, <1>14, <1>15, <2>1, DenBeamFields, Zenon DEF Interlaced
    <3>2. dregs'.con.lace = dregs.con.lace /\ shown'.steady = shown.steady
      BY <1>3, <1>5, <1>8, <1>11, <1>13, <2>1, Zenon
    <3> QED
      BY <1>0, <1>12, <3>1, <3>2, InterlaceStays, Zenon
  <2>2. CASE c.lace # dregs.con.lace
    <3>1. shown'.steady = 0
      BY <1>8, <1>13, <2>2, Zenon
    <3>2. ~(shown'.steady >= 1) /\ shown'.steady # 2
      BY <3>1
    <3>3. raster'.lof_toggle = dregs'.con.lace
      BY <1>3, <1>5, <1>10, <1>11, <1>14, <1>15, Zenon
    <3> QED
      BY <3>2, <3>3, Zenon DEF Interlaced
  <2> QED
    BY <2>1, <2>2
<1>17. raster' \in DenBeam
  BY <1>10, <1>14, <1>15, Zenon
<1> QED
  BY <1>0, <1>5, <1>7, <1>11, <1>12, <1>13, <1>16, <1>17, RegistersWritten, Zenon

LEMMA Control12Keeps ==
    ASSUME DenInv, NEW c \in Bplcons, WriteControl12(c)
    PROVE  DenInv'
<1>0. dregs \in DenRegs /\ video \in Window /\ WindowIsCurrent
  BY Zenon DEF DenInv, Typed
<1>1. c \in Control /\ dregs.con \in Control
  BY <1>0, RegFields, DeniseAssumption, Zenon
<1>2. PICK con : con = control0(c, dregs.con)
  OBVIOUS
<1>3. /\ con \in Control
      /\ con.depth = dregs.con.depth /\ con.hires = dregs.con.hires /\ con.ham = dregs.con.ham
      /\ con.dual = dregs.con.dual /\ con.lace = dregs.con.lace /\ con.color = dregs.con.color
  <2>1. PICK old \in Control : old = dregs.con
    BY <1>1
  <2>2. con = control0(c, old)
    BY <1>2, <2>1, Zenon
  <2>3. /\ con \in Control
        /\ con.depth = old.depth /\ con.hires = old.hires /\ con.ham = old.ham
        /\ con.dual = old.dual /\ con.lace = old.lace /\ con.color = old.color
    BY <1>1, <2>2, ConUpdated
  <2> QED
    BY <2>1, <2>3, Zenon
<1>4. PICK r : r = [dregs EXCEPT !.con = con]
  OBVIOUS
<1>5. r \in DenRegs /\ r.con = con /\ r.diw = dregs.diw /\ r.high = dregs.high
  BY <1>0, <1>3, <1>4, Zenon DEF DenRegs
<1>6. Rewrite(r, video) /\ raster' = raster /\ shown' = shown
  BY <1>2, <1>4, Zenon DEF WriteControl12
<1>7. window_of(r) = window_of(dregs) /\ (window_kept(r) <=> window_kept(dregs))
  BY <1>3, <1>5, WindowDepends, Zenon
<1>8. Current(video, r)
  BY <1>0, <1>7, Zenon DEF Current, WindowIsCurrent
<1>9. r.con.lace = dregs.con.lace
  BY <1>3, <1>5, Zenon
<1> QED
  BY <1>0, <1>5, <1>6, <1>8, <1>9, Rewritten, Zenon

LEMMA DiwKeeps ==
    ASSUME DenInv, NEW d \in Diws, WriteDiw(d)
    PROVE  DenInv'
<1>0. dregs \in DenRegs /\ video \in Window
  BY Zenon DEF DenInv, Typed
<1>1. d \in [DiwBytes -> 0..(Byte8 - 1)]
  BY DeniseAssumption, Zenon
<1>2. PICK r : r = [dregs EXCEPT !.diw = d]
  OBVIOUS
<1>3. r \in DenRegs /\ r.con = dregs.con
  BY <1>0, <1>1, <1>2, Zenon DEF DenRegs
<1>4. PICK v : v = display_window_update(video, r)
  OBVIOUS
<1>5. v \in Window /\ Current(v, r)
  BY <1>0, <1>3, <1>4, UpdateTyped, UpdateCurrent, Zenon
<1>6. Rewrite(r, v) /\ raster' = raster /\ shown' = shown
  BY <1>2, <1>4, Zenon DEF WriteDiw
<1> QED
  BY <1>3, <1>5, <1>6, Rewritten, Zenon

LEMMA DiwHighKeeps ==
    ASSUME DenInv, NEW h \in DiwHighs, WriteDiwHigh(h)
    PROVE  DenInv'
<1>0. dregs \in DenRegs /\ video \in Window
  BY Zenon DEF DenInv, Typed
<1>1. h \in [DiwBytes -> Nat]
  BY DeniseAssumption, Zenon
<1>2. PICK r : r = [dregs EXCEPT !.high = h]
  OBVIOUS
<1>3. r \in DenRegs /\ r.con = dregs.con
  BY <1>0, <1>1, <1>2, Zenon DEF DenRegs
<1>4. PICK v : v = display_window_update(video, r)
  OBVIOUS
<1>5. v \in Window /\ Current(v, r)
  BY <1>0, <1>3, <1>4, UpdateTyped, UpdateCurrent, Zenon
<1>6. Rewrite(r, v) /\ raster' = raster /\ shown' = shown
  BY <1>2, <1>4, Zenon DEF WriteDiwHigh, follow_high
<1> QED
  BY <1>3, <1>5, <1>6, Rewritten, Zenon

(* COLORxx, DDFSTRT, the sprites and BEAMCON0 leave the window alone.      *)
LEMMA OtherWrite ==
    ASSUME DenInv, NEW r \in DenRegs, dregs' = r, r.con = dregs.con, r.diw = dregs.diw,
           r.high = dregs.high, video' = video, Redrawn(frame, frame'),
           sprites' \in [0..7 -> Sprite], line' = line, coll' = coll, shown' = shown,
           raster' \in DenBeam, raster'.lof = raster.lof,
           raster'.lof_toggle = raster.lof_toggle, raster'.hpos = raster.hpos,
           raster'.vpos = raster.vpos
    PROVE  DenInv'
<1>0. video \in Window /\ WindowIsCurrent /\ Interlaced /\ shown \in ShownState
  BY Zenon DEF DenInv, Typed
<1>1. window_of(r) = window_of(dregs) /\ (window_kept(r) <=> window_kept(dregs))
  BY WindowDepends, Zenon
<1>2. Current(video, r)
  BY <1>0, <1>1, Zenon DEF Current, WindowIsCurrent
<1>3. SamePictures(shown, shown')
  BY <1>0, Zenon DEF SamePictures
<1>4. Interlaced'
  BY <1>0, InterlaceStays, Zenon
<1> QED
  BY <1>0, <1>2, <1>3, <1>4, RegistersWritten, Zenon

LEMMA ColorKeeps ==
    ASSUME DenInv, NEW p \in Palettes, WriteColor(p)
    PROVE  DenInv'
<1>0. /\ dregs \in DenRegs /\ frame \in FrameState /\ raster \in DenBeam
      /\ sprites \in [0..7 -> Sprite]
  BY Zenon DEF DenInv, Typed
<1>1. p \in Palette
  BY DeniseAssumption, Zenon
<1>2. PICK r : r = [dregs EXCEPT !.pal = p]
  OBVIOUS
<1>3. r \in DenRegs /\ r.con = dregs.con /\ r.diw = dregs.diw /\ r.high = dregs.high
  BY <1>0, <1>1, <1>2, Zenon DEF DenRegs
<1>4. PICK q \in BOOLEAN : q = (frame.pending \/ p # dregs.pal)
  BY Zenon
<1>5. /\ dregs' = r /\ frame' = [frame EXCEPT !.pending = q] /\ raster' = raster
      /\ video' = video /\ sprites' = sprites /\ line' = line /\ coll' = coll /\ shown' = shown
  BY <1>2, <1>4, Zenon DEF WriteColor
<1>6. Redrawn(frame, frame')
  BY <1>0, <1>5, RedrawAsked
<1> QED
  BY <1>0, <1>3, <1>5, <1>6, OtherWrite, Zenon

LEMMA DdfKeeps ==
    ASSUME DenInv, NEW d \in Ddfs, WriteDdf(d)
    PROVE  DenInv'
<1>0. /\ dregs \in DenRegs /\ frame \in FrameState /\ raster \in DenBeam
      /\ sprites \in [0..7 -> Sprite]
  BY Zenon DEF DenInv, Typed
<1>1. d \in Nat
  BY DeniseAssumption, Zenon
<1>2. PICK r : r = [dregs EXCEPT !.ddf = d]
  OBVIOUS
<1>3. r \in DenRegs /\ r.con = dregs.con /\ r.diw = dregs.diw /\ r.high = dregs.high
  BY <1>0, <1>1, <1>2, Zenon DEF DenRegs
<1>4. /\ dregs' = r /\ frame' = frame /\ raster' = raster /\ video' = video
      /\ sprites' = sprites /\ line' = line /\ coll' = coll /\ shown' = shown
  BY <1>2, Zenon DEF WriteDdf
<1>5. Redrawn(frame, frame')
  BY <1>0, <1>4, Zenon DEF Redrawn, SameScan
<1> QED
  BY <1>0, <1>3, <1>4, <1>5, OtherWrite, Zenon

LEMMA SpriteKeeps ==
    ASSUME DenInv, NEW s \in SpriteData, WriteSprite(s.n, s.regs)
    PROVE  DenInv'
<1>0. /\ dregs \in DenRegs /\ frame \in FrameState /\ raster \in DenBeam
      /\ sprites \in [0..7 -> Sprite]
  BY Zenon DEF DenInv, Typed
<1>1. s.n \in 0..7 /\ s.regs \in Sprite
  BY DeniseAssumption, Zenon
<1>2. /\ sprites' = [sprites EXCEPT ![s.n] = s.regs] /\ dregs' = dregs /\ frame' = frame
      /\ raster' = raster /\ video' = video /\ line' = line /\ coll' = coll /\ shown' = shown
  BY Zenon DEF WriteSprite
<1>3. sprites' \in [0..7 -> Sprite]
  BY <1>0, <1>1, <1>2, Zenon
<1>4. Redrawn(frame, frame')
  BY <1>0, <1>2, Zenon DEF Redrawn, SameScan
<1> QED
  BY <1>0, <1>2, <1>3, <1>4, OtherWrite, Zenon

LEMMA VideoStdKeeps ==
    ASSUME DenInv, NEW n \in FrameLengths, SetVideoStd(n)
    PROVE  DenInv'
<1>0. /\ dregs \in DenRegs /\ frame \in FrameState /\ raster \in DenBeam
      /\ sprites \in [0..7 -> Sprite]
  BY Zenon DEF DenInv, Typed
<1>1. /\ raster' = set_video_std(raster, n) /\ dregs' = dregs /\ frame' = frame
      /\ video' = video /\ sprites' = sprites /\ line' = line /\ coll' = coll /\ shown' = shown
  BY Zenon DEF SetVideoStd
<1>2. PICK c : c = set_video_std(raster, n)
  OBVIOUS
<1>3. /\ c \in DenBeam /\ c.lof_toggle = raster.lof_toggle /\ c.lof = raster.lof
      /\ c.hpos = raster.hpos /\ c.vpos = raster.vpos
  BY <1>0, <1>2, StandardSet
<1>4. Redrawn(frame, frame')
  BY <1>0, <1>1, Zenon DEF Redrawn, SameScan
<1>5. raster' = c
  BY <1>1, <1>2
<1> QED
  BY <1>0, <1>1, <1>3, <1>4, <1>5, OtherWrite, Zenon

LEMMA FetchKeeps ==
    ASSUME DenInv, NEW w \in PlaneWords, Fetch(w)
    PROVE  DenInv'
<1>0. /\ Typed /\ frame \in FrameState /\ shown \in ShownState /\ line \in LineState
      /\ dregs.con \in Control /\ line_con \in Control /\ line.px \in Seq(Nat) /\ LineKept
      /\ shown.con \in Control
  BY LineStateFields, ShownFields, Zenon DEF DenInv, Typed
<1>1. PICK d \in 0..7 : d = dregs.con.depth
  BY <1>0, ConFields
<1>2. w \in Pixelled
  BY DeniseAssumption, Zenon
<1>3. PICK p \in Seq(Nat) : p = PixelsOf(w, d) /\ p # <<>>
  BY <1>2, PixelsOfWord
<1>4. PICK px \in Seq(Nat) : px = line.px \o p
  <2>1. line.px \o p \in Seq(Nat)
    BY <1>0, <1>3, ConcatProperties
  <2> QED
    BY <2>1, Zenon
<1>5. px # <<>>
  <2>1. Len(p) # 0 /\ Len(p) \in Nat
    BY <1>3, EmptySeq, LenProperties
  <2>2. Len(px) = Len(line.px) + Len(p) /\ Len(line.px) \in Nat
    BY <1>0, <1>3, <1>4, ConcatProperties, LenProperties
  <2>3. Len(px) # 0
    BY <2>1, <2>2
  <2> QED
    BY <1>4, <2>3, EmptySeq
<1>6. PICK con \in Control : con = line_con
  BY <1>0
<1>7. line' = [px |-> px, con |-> con, valid |-> TRUE]
  BY <1>1, <1>3, <1>4, <1>6, Zenon DEF Fetch, PixelsOf
<1>8. line' \in LineState /\ line'.px = px /\ line'.con = con /\ line'.valid = TRUE
  BY <1>7 DEF LineState
<1>9. PICK k \in Control : k = IF shown.px = <<>> THEN dregs.con ELSE shown.con
  BY <1>0, Zenon
<1>10. k = con
  BY <1>0, <1>6, <1>9, Zenon DEF LineKept, line_con
<1>11. shown' = [shown EXCEPT !.px = px, !.con = k]
  BY <1>8, <1>9, Zenon DEF Fetch
<1>12. /\ SamePictures(shown, shown') /\ shown'.px = px /\ shown'.con = k
       /\ shown'.met = shown.met /\ shown'.steady = shown.steady
  BY <1>0, <1>11, Zenon DEF SamePictures, ShownState
<1>13. /\ raster' = raster /\ dregs' = dregs /\ video' = video /\ sprites' = sprites
       /\ coll' = coll /\ frame' = frame
  BY Zenon DEF Fetch
<1>14. Redrawn(frame, frame')
  BY <1>0, <1>13, Zenon DEF Redrawn, SameScan
<1>15. Typed'
  BY <1>0, <1>8, <1>12, <1>13, Zenon DEF Typed, SamePictures
<1>16. LineKept'
  BY <1>5, <1>8, <1>10, <1>12, Zenon DEF LineKept
<1>17. WindowIsCurrent' /\ CollisionsKept'
  BY <1>12, <1>13, Zenon DEF DenInv, WindowIsCurrent, CollisionsKept
<1>18. Interlaced'
  BY <1>12, <1>13, <1>14, InterlaceStays, Zenon DEF DenInv
<1>19. Pictures'
  BY <1>12, <1>14, PicturesStay, Zenon DEF DenInv
<1> QED
  BY <1>15, <1>16, <1>17, <1>18, <1>19, Zenon DEF DenInv

LEMMA ReadKeeps ==
    ASSUME DenInv, ReadClxdat
    PROVE  DenInv'
<1>0. Typed /\ frame \in FrameState /\ shown \in ShownState /\ coll \in CollState
  BY Zenon DEF DenInv, Typed
<1>1. /\ coll' = [coll EXCEPT !.dat = {}] /\ shown' = [shown EXCEPT !.met = {}]
      /\ raster' = raster /\ dregs' = dregs /\ video' = video /\ sprites' = sprites
      /\ line' = line /\ frame' = frame
  BY Zenon DEF ReadClxdat
<1>2. {} \in SUBSET (0..6)
  OBVIOUS
<1>3. coll' \in CollState /\ coll'.dat = {}
  BY <1>0, <1>1, <1>2, Zenon DEF CollState
<1>4. /\ SamePictures(shown, shown') /\ shown'.px = shown.px /\ shown'.con = shown.con
      /\ shown'.met = {} /\ shown'.steady = shown.steady
  BY <1>0, <1>1, <1>2, Zenon DEF SamePictures, ShownState
<1>5. Redrawn(frame, frame')
  BY <1>0, <1>1, Zenon DEF Redrawn, SameScan
<1>6. Typed'
  BY <1>0, <1>1, <1>3, <1>4, Zenon DEF Typed, SamePictures
<1>7. LineKept' /\ WindowIsCurrent' /\ CollisionsKept'
  BY <1>1, <1>3, <1>4, Zenon DEF DenInv, LineKept, WindowIsCurrent, CollisionsKept
<1>8. Interlaced'
  BY <1>1, <1>4, <1>5, InterlaceStays, Zenon DEF DenInv
<1>9. Pictures'
  BY <1>4, <1>5, PicturesStay, Zenon DEF DenInv
<1> QED
  BY <1>6, <1>7, <1>8, <1>9, Zenon DEF DenInv

(* A display set up at once.                                               *)
LEMMA Programmed ==
    ASSUME Typed, NEW c \in Displays \cup LineCases, Program(c)
    PROVE  /\ dregs' \in DenRegs /\ dregs'.con = c.con /\ c.con \in Control
           /\ c.con.lace \in BOOLEAN
           /\ video' \in Window /\ WindowIsCurrent' /\ Redrawn(frame, frame')
           /\ sprites' \in [0..7 -> Sprite] /\ coll' \in CollState /\ coll'.dat = coll.dat
<1>0. frame \in FrameState /\ video \in Window /\ coll \in CollState
  BY Zenon DEF Typed
<1>1. Registers(c) \in DenRegs /\ c.sprites \in [0..7 -> Sprite] /\ c.clx \in Collide
  BY DeniseAssumption, Zenon
<1>2. PICK r \in DenRegs : r = Registers(c)
  BY <1>1
<1>3. r.con = c.con
  BY <1>2 DEF Registers
<1>4. r.con \in Control
  BY RegFields
<1>5. c.con.lace \in BOOLEAN
  BY <1>3, <1>4, ConFields, Zenon
<1>6. /\ dregs' = r /\ video' = display_window_update(video, r)
      /\ frame' = [frame EXCEPT !.pending = TRUE] /\ sprites' = c.sprites
      /\ coll' = [coll EXCEPT !.con = c.clx]
  BY <1>2, Zenon DEF Program
<1>7. PICK v : v = display_window_update(video, r)
  OBVIOUS
<1>8. v \in Window /\ Current(v, r)
  BY <1>0, <1>7, UpdateTyped, UpdateCurrent, Zenon
<1>9. WindowIsCurrent'
  BY <1>6, <1>7, <1>8, Zenon DEF WindowIsCurrent, Current
<1>10. Redrawn(frame, frame')
  <2>1. TRUE \in BOOLEAN
    OBVIOUS
  <2> QED
    BY <1>0, <1>6, <2>1, RedrawAsked
<1>11. coll' \in CollState /\ coll'.dat = coll.dat
  BY <1>0, <1>1, <1>6, Zenon DEF CollState
<1> QED
  BY <1>1, <1>3, <1>4, <1>5, <1>6, <1>7, <1>8, <1>9, <1>10, <1>11, Zenon

LEMMA BeamWritten ==
    ASSUME Typed, NEW lace \in BOOLEAN, raster' = write_lace(raster, lace)
    PROVE  raster' \in DenBeam
<1>1. PICK b : b = write_lace(raster, lace)
  OBVIOUS
<1>2. b \in DenBeam
  BY <1>1, LaceWritten DEF Typed
<1> QED
  BY <1>1, <1>2, Zenon

LEMMA SetUpKeeps ==
    ASSUME DenInv, NEW c \in Displays, SetUp(c)
    PROVE  DenInv'
<1>0. Typed /\ shown \in ShownState
  BY Zenon DEF DenInv, Typed
<1>1. /\ raster = beam_reset(FirstLength) /\ dregs.con = NoCon /\ Program(c)
      /\ raster' = write_lace(raster, c.con.lace) /\ line' = line /\ shown' = shown
  BY Zenon DEF SetUp
<1>2. /\ dregs' \in DenRegs /\ dregs'.con = c.con /\ c.con \in Control
      /\ c.con.lace \in BOOLEAN
      /\ video' \in Window /\ WindowIsCurrent' /\ Redrawn(frame, frame')
      /\ sprites' \in [0..7 -> Sprite] /\ coll' \in CollState /\ coll'.dat = coll.dat
  BY <1>0, <1>1, Programmed
<1>3. raster' \in DenBeam
  BY <1>0, <1>1, <1>2, BeamWritten, Zenon
<1>4. Typed'
  BY <1>0, <1>1, <1>2, <1>3, Zenon DEF Typed, Redrawn
<1>5. LineKept' /\ CollisionsKept'
  BY <1>1, <1>2, Zenon DEF DenInv, LineKept, CollisionsKept
<1>6. Interlaced'
  <2>1. raster.vpos = 0 /\ raster.hpos = 0
    BY <1>1 DEF beam_reset
  <2>2. ~dregs.con.lace
    BY <1>1 DEF NoCon
  <2>3. dregs'.con.lace = c.con.lace /\ shown'.steady = shown.steady
    BY <1>1, <1>2, Zenon
  <2> QED
    BY <1>0, <1>1, <1>2, <2>1, <2>2, <2>3, LaceChanges, Zenon DEF DenInv
<1>7. Pictures'
  <2>1. SamePictures(shown, shown')
    BY <1>0, <1>1, Zenon DEF SamePictures
  <2> QED
    BY <1>2, <2>1, PicturesStay, Zenon DEF DenInv
<1> QED
  BY <1>2, <1>4, <1>5, <1>6, <1>7, Zenon DEF DenInv

LEMMA ShowLineKeeps ==
    ASSUME DenInv, NEW c \in LineCases, ShowLine(c)
    PROVE  DenInv'
<1>0. Typed /\ shown \in ShownState
  BY Zenon DEF DenInv, Typed
<1>1. c.px \in Pixelled
  BY DeniseAssumption, Zenon
<1>2. PICK px : px = PixelsOf(c.px, c.con.depth)
  OBVIOUS
<1>3. /\ raster.vpos = VisStart /\ raster.hpos = LineClocks - 1 /\ dregs.con = NoCon
      /\ Program(c) /\ raster' = write_lace(raster, c.con.lace)
      /\ line' = [px |-> px, con |-> c.con, valid |-> TRUE]
      /\ shown' = [shown EXCEPT !.px = px, !.con = c.con]
  BY <1>2, Zenon DEF ShowLine, PixelsOf
<1>4. /\ dregs' \in DenRegs /\ dregs'.con = c.con /\ c.con \in Control
      /\ c.con.lace \in BOOLEAN
      /\ video' \in Window /\ WindowIsCurrent' /\ Redrawn(frame, frame')
      /\ sprites' \in [0..7 -> Sprite] /\ coll' \in CollState /\ coll'.dat = coll.dat
  BY <1>0, <1>3, Programmed
<1>5. px \in Seq(Nat) /\ px # <<>>
  <2>1. c.con.depth \in 0..7
    BY <1>4, ConFields
  <2> QED
    BY <1>1, <1>2, <2>1, PixelsOfWord
<1>6. line' \in LineState /\ line'.px = px /\ line'.con = c.con /\ line'.valid = TRUE
  <2>1. PICK con \in Control : con = c.con
    BY <1>4
  <2>2. line' = [px |-> px, con |-> con, valid |-> TRUE]
    BY <1>3, <2>1, Zenon
  <2>3. line' \in LineState /\ line'.px = px /\ line'.con = con /\ line'.valid = TRUE
    BY <1>5, <2>2 DEF LineState
  <2> QED
    BY <2>1, <2>3, Zenon
<1>7. /\ SamePictures(shown, shown') /\ shown'.px = px /\ shown'.con = c.con
      /\ shown'.met = shown.met /\ shown'.steady = shown.steady
  BY <1>0, <1>3, <1>4, <1>5, Zenon DEF SamePictures, ShownState
<1>8. raster' \in DenBeam
  BY <1>0, <1>3, <1>4, BeamWritten, Zenon
<1>9. Typed'
  BY <1>0, <1>4, <1>6, <1>7, <1>8, Zenon DEF Typed, Redrawn, SamePictures
<1>10. LineKept' /\ CollisionsKept'
  BY <1>4, <1>5, <1>6, <1>7, Zenon DEF DenInv, LineKept, CollisionsKept
<1>11. Interlaced'
  <2>1. ~dregs.con.lace
    BY <1>3 DEF NoCon
  <2>2. dregs'.con.lace = c.con.lace
    BY <1>4, Zenon
  <2> QED
    BY <1>0, <1>3, <1>4, <1>7, <2>1, <2>2, LaceChanges, Zenon DEF DenInv
<1>12. Pictures'
  BY <1>4, <1>7, PicturesStay, Zenon DEF DenInv
<1> QED
  BY <1>4, <1>9, <1>10, <1>11, <1>12, Zenon DEF DenInv

-----------------------------------------------------------------------------
LEMMA DenStarts ==
    ASSUME DenInit
    PROVE  DenInv
<1>1. /\ Zeros \in [DiwBytes -> 0..(Byte8 - 1)] /\ Zeros \in [DiwBytes -> Nat]
  <2>1. 0 \in 0..(Byte8 - 1) /\ 0 \in Nat
    BY DenConstants
  <2> QED
    BY <2>1, Zenon DEF Zeros
<1>2. Black \in Colour
  BY DEF Black, Colour
<1>3. PICK pal \in Palette : pal = [i \in 0..31 |-> Black]
  BY <1>2, Zenon DEF Palette
<1>4. PICK r : r = [con |-> NoCon, diw |-> Zeros, high |-> Zeros, ddf |-> 0, pal |-> pal]
  OBVIOUS
<1>5. /\ r \in DenRegs /\ r.con = NoCon
  BY <1>1, <1>4, ResetValues DEF DenRegs
<1>6. PICK e \in Seq(Nat) : e = <<>>
  <2>1. <<>> \in Seq(Nat)
    OBVIOUS
  <2> QED
    BY <2>1, Zenon
<1>7. PICK rows : rows = [i \in {0, 1} |-> [y \in Ys |-> [x \in Xs |-> Black]]]
  OBVIOUS
<1>8. rows \in [{0, 1} -> [Ys -> Row]]
  <2>1. [x \in Xs |-> Black] \in Row
    BY <1>2, Zenon DEF Row
  <2> QED
    BY <1>7, <2>1, Zenon
<1>9. PICK n \in Partial : n = <<>>
  BY EmptyPartial, Zenon
<1>10. /\ raster = beam_reset(FirstLength) /\ dregs = r /\ video = window_of(r)
       /\ sprites = sprites_reset /\ line = no_line /\ coll = [con |-> NoClx, dat |-> {}]
       /\ frame = [rows |-> rows, front |-> 0, field |-> "none", lof |-> FALSE,
                   lof_toggle |-> FALSE, pending |-> FALSE, redraw |-> FALSE,
                   pending_flags |-> {}, flags |-> {}]
       /\ shown = [px |-> e, con |-> NoCon, now |-> n, last |-> n, met |-> {}, steady |-> 0]
  BY <1>3, <1>4, <1>6, <1>7, <1>9, Zenon DEF DenInit, Ys
<1>11. raster \in DenBeam /\ raster.lof_toggle = FALSE
  <2>1. PICK b : b = beam_reset(FirstLength)
    OBVIOUS
  <2>2. FirstLength \in FrameLengths /\ FirstLength \in Nat \ {0}
    BY DeniseAssumption
  <2>3. b \in BeamState
    BY <2>1, <2>2 DEF beam_reset, BeamState
  <2>4. /\ b.hpos = 0 /\ b.lol = FALSE /\ b.lol_toggle = FALSE /\ b.frame_count = 0
        /\ b.frame_lines = FirstLength /\ b.lof = FALSE /\ b.lof_toggle = FALSE
    BY <2>1 DEF beam_reset
  <2>5. 0 < LineClocks /\ 0 \in {0, 1}
    OBVIOUS
  <2> QED
    BY <1>10, <2>1, <2>2, <2>3, <2>4, <2>5, Zenon DEF DenBeam
<1>12. coll \in CollState /\ coll.dat = {}
  BY <1>10, ResetValues DEF CollState
<1>13. frame \in FrameState
  BY <1>8, <1>10 DEF FrameState, Fields
<1>14. shown \in ShownState
  BY <1>10, ResetValues DEF ShownState
<1>15. /\ shown.px = <<>> /\ shown.now = <<>> /\ shown.last = <<>> /\ shown.met = {}
       /\ shown.steady = 0
  BY <1>6, <1>9, <1>10
<1>16. Typed
  BY <1>5, <1>10, <1>11, <1>12, <1>13, <1>14, ResetValues, WindowTyped, Zenon DEF Typed
<1>17. LineKept
  <2>1. line.px = <<>> /\ line.valid = FALSE
    BY <1>10 DEF no_line
  <2> QED
    BY <1>15, <2>1, Zenon DEF LineKept
<1>18. WindowIsCurrent /\ CollisionsKept
  BY <1>10, <1>12, <1>15, Zenon DEF WindowIsCurrent, CollisionsKept
<1>19. Interlaced
  <2>1. dregs.con.lace = FALSE
    BY <1>5, <1>10 DEF NoCon
  <2>2. ~(shown.steady >= 1) /\ shown.steady # 2
    BY <1>15
  <2> QED
    BY <1>11, <2>1, <2>2, Zenon DEF Interlaced
<1>20. Pictures
  BY <1>15, EmptyPartial, Zenon DEF Pictures, LineAsResolved, FrontIsLastFrame
<1> QED
  BY <1>16, <1>17, <1>18, <1>19, <1>20, Zenon DEF DenInv

LEMMA DenKeeps ==
    ASSUME DenInv, [DenNext]_denVars
    PROVE  DenInv'
<1>1. CASE DenTick
  <2>1. PICK c : c = Followed(raster)
    OBVIOUS
  <2> QED
    BY <1>1, <2>1, TickInLine, TickLeavesLine, Zenon
<1>2. ASSUME NEW c \in Bplcons, WriteControl0(c) PROVE DenInv'
  BY <1>2, Control0Keeps
<1>3. ASSUME NEW c \in Bplcons, WriteControl12(c) PROVE DenInv'
  BY <1>3, Control12Keeps
<1>4. ASSUME NEW d \in Diws, WriteDiw(d) PROVE DenInv'
  BY <1>4, DiwKeeps
<1>5. ASSUME NEW h \in DiwHighs, WriteDiwHigh(h) PROVE DenInv'
  BY <1>5, DiwHighKeeps
<1>6. ASSUME NEW p \in Palettes, WriteColor(p) PROVE DenInv'
  BY <1>6, ColorKeeps
<1>7. ASSUME NEW d \in Ddfs, WriteDdf(d) PROVE DenInv'
  BY <1>7, DdfKeeps
<1>8. ASSUME NEW s \in SpriteData, WriteSprite(s.n, s.regs) PROVE DenInv'
  BY <1>8, SpriteKeeps
<1>9. ASSUME NEW n \in FrameLengths, SetVideoStd(n) PROVE DenInv'
  BY <1>9, VideoStdKeeps
<1>10. ASSUME NEW w \in PlaneWords, Fetch(w) PROVE DenInv'
  BY <1>10, FetchKeeps
<1>11. CASE ReadClxdat
  BY <1>11, ReadKeeps
<1>12. ASSUME NEW c \in Displays, SetUp(c) PROVE DenInv'
  BY <1>12, SetUpKeeps
<1>13. ASSUME NEW c \in LineCases, ShowLine(c) PROVE DenInv'
  BY <1>13, ShowLineKeeps
<1>14. CASE UNCHANGED denVars
  BY <1>14, Zenon DEF denVars, DenInv, Typed, LineKept, WindowIsCurrent, CollisionsKept,
                      Interlaced, Pictures, LineAsResolved, FrontIsLastFrame
<1> QED
  BY <1>1, <1>2, <1>3, <1>4, <1>5, <1>6, <1>7, <1>8, <1>9, <1>10, <1>11, <1>12, <1>13, <1>14,
     Zenon DEF DenNext

(* Fields are handed out in turn; only a clock that ends a frame does so.  *)
LEMMA FieldsInTurn ==
    ASSUME DenInv, [DenNext]_denVars
    PROVE  FieldsAlternate
<1>0. /\ Typed /\ LineKept /\ Interlaced /\ raster \in DenBeam /\ frame \in FrameState
      /\ shown.steady \in 0..2
  BY ShownFields, Zenon DEF DenInv, Typed
<1>1. CASE DenTick
  <2>1. PICK c : c = Followed(raster)
    OBVIOUS
  <2>2. c \in DenBeam /\ c \in BeamState
    BY <1>0, <2>1, BeamFollowed, DenBeamFields
  <2>3. CASE c.hpos # 0
    <3>1. frame' = synced(frame, c)
      BY <1>0, <1>1, <2>1, <2>3, TickDoes, Zenon
    <3>2. PICK g : g = synced(frame, c)
      OBVIOUS
    <3>3. g.front = frame.front
      BY <1>0, <2>2, <3>2, SyncedFrame
    <3> QED
      BY <3>1, <3>2, <3>3, Zenon DEF FieldsAlternate
  <2>4. CASE c.hpos = 0
    <3>1. LineLeft(c)
      BY <1>0, <1>1, <2>1, <2>4, TickDoes, Zenon
    <3>2. PICK row \in Row : row = TickRow(raster)
      BY <1>0, RowTrue
    <3>3. PICK y \in Nat : y = raster.vpos
      BY <1>0, DenBeamFields
    <3>4. FrameLeft(frame, frame', y, row, Ends(raster, c), c)
      <4>1. frame' = NewFrame(frame, y, row, Ends(raster, c), TickFlags(raster),
                              EntryFlags(raster, c), c)
        BY <3>1, <3>2, <3>3, Zenon DEF LineLeft
      <4>2. TickFlags(raster) \in SUBSET Flags /\ EntryFlags(raster, c) \in SUBSET Flags
        BY FlagsTyped
      <4>3. FrameLeft(frame, NewFrame(frame, y, row, Ends(raster, c), TickFlags(raster),
                              EntryFlags(raster, c), c), y, row, Ends(raster, c), c)
        BY <1>0, <2>2, <4>2, LineLeaves
      <4> QED
        BY <4>1, <4>3, Zenon
    <3>5. CASE ~Ends(raster, c)
      BY <3>4, <3>5, Zenon DEF FrameLeft, FieldsAlternate
    <3>6. CASE Ends(raster, c) /\ shown.steady = 2
      <4>1. shown.steady >= 1
        BY <3>6
      <4>2. /\ ToFrame(raster, c)
            /\ frame.lof = raster.lof /\ frame.lof_toggle = raster.lof_toggle
        BY <2>1, <3>6, <4>1, EndKnown
      <4>3. frame'.field = IF ~raster.lof_toggle THEN "none"
                           ELSE IF raster.lof THEN "odd" ELSE "even"
        BY <3>4, <3>6, <4>2, Zenon DEF FrameLeft, field_of
      <4>4. raster.lof_toggle => frame'.field # frame.field
        BY <1>0, <3>6, <4>3, Zenon DEF Interlaced
      <4>5. frame'.field = "odd" => raster.lof
        <5>1. "odd" # "even" /\ "odd" # "none"
          OBVIOUS
        <5> QED
          BY <4>3, <5>1, Zenon
      <4>6. raster.lof => raster.vpos >= raster.frame_lines
        <5>1. /\ raster.vpos \in Nat /\ raster.frame_lines \in Nat
              /\ ~(raster.vpos + 1 < frame_vmax(raster))
          BY <1>0, <4>2, DenBeamFields DEF ToFrame
        <5>2. raster.lof => frame_vmax(raster) = raster.frame_lines + 1
          BY Zenon DEF frame_vmax
        <5> QED
          BY <5>1, <5>2
      <4> QED
        BY <4>4, <4>5, <4>6, Zenon DEF FieldsAlternate
    <3>7. CASE shown.steady # 2
      BY <3>7, Zenon DEF FieldsAlternate
    <3> QED
      BY <3>5, <3>6, <3>7
  <2> QED
    BY <2>3, <2>4
<1>2. CASE ~DenTick
  <2>1. \/ frame' = frame \/ \E p : frame' = [frame EXCEPT !.pending = p]
    BY <1>2, Zenon DEF DenNext, denVars, WriteControl0, WriteControl12, WriteDiw, WriteDiwHigh,
         WriteColor, WriteDdf, WriteSprite, SetVideoStd, Fetch, ReadClxdat, SetUp, ShowLine,
         Program, Rewrite
  <2>2. frame'.front = frame.front
    BY <1>0, <2>1, Zenon DEF FrameState
  <2> QED
    BY <2>2, Zenon DEF FieldsAlternate
<1> QED
  BY <1>1, <1>2

(* The invariant, for every instance of the constants.                     *)
THEOREM DenSafe == DenSpec => []DenInv
<1>1. DenInit => DenInv
  BY DenStarts
<1>2. DenInv /\ [DenNext]_denVars => DenInv'
  BY DenKeeps
<1> QED
  BY <1>1, <1>2, PTL DEF DenSpec

(* The display window is the one the registers describe, whenever they     *)
(* describe one: no order of writes to BPLCON0-2, DIWSTRT, DIWSTOP and     *)
(* DIWHIGH leaves display_window_update behind.                            *)
THEOREM WindowFollowsRegisters == DenSpec => []WindowIsCurrent
<1>1. DenInv => WindowIsCurrent
  BY Zenon DEF DenInv
<1> QED
  BY <1>1, DenSafe, PTL

(* Whatever met in a line that was shown is in CLXDAT until it is read:    *)
(* collision_check_pixel misses no pair, and no tick drops a bit.          *)
THEOREM NoCollisionLost == DenSpec => []CollisionsKept
<1>1. DenInv => CollisionsKept
  BY Zenon DEF DenInv
<1> QED
  BY <1>1, DenSafe, PTL

(* The back buffer holds every line of the frame so far and the front      *)
(* buffer every line of the last frame, as the priority resolvers give     *)
(* them, and while LACE stays on even and odd fields are handed out in     *)
(* turn.                                                                   *)
THEOREM FramesAreTrue == DenSpec => FramesPublished
<1>1. DenInv /\ DenInv' /\ [DenNext]_denVars
        => [LineAsResolved' /\ FrontIsLastFrame' /\ FieldsAlternate]_denVars
  <2> SUFFICES ASSUME DenInv, DenInv', [DenNext]_denVars
               PROVE  LineAsResolved' /\ FrontIsLastFrame' /\ FieldsAlternate
    OBVIOUS
  <2>1. FieldsAlternate
    BY FieldsInTurn
  <2>2. LineAsResolved' /\ FrontIsLastFrame'
    BY Zenon DEF DenInv, Pictures
  <2> QED
    BY <2>1, <2>2
<1> QED
  BY <1>1, DenSafe, PTL DEF DenSpec, FramesPublished
=============================================================================
