------------------------------- MODULE Pixels -------------------------------
(***************************************************************************)
(* The composition of a raster line in Denise, playfields and sprites, as  *)
(* compose_line computes it, and the picture that the resolvers of         *)
(* dualpf.c and priority.c give pixel by pixel.                            *)
(* src/src/chipset/denise/render/*.c, sprites/*.c                          *)
(*                                                                         *)
(* A line is a record: px, the value of all bitplanes at each fetched      *)
(* position; con, BPLCON0 to BPLCON2; sprites; pal, the colours; win, the  *)
(* pixels inside the display window; ddf, the position of the first fetch; *)
(* wide, whether the frame is wider than 512 pixels; and y.                *)
(***************************************************************************)
EXTENDS Integers, Sequences, FiniteSets

CONSTANTS
    LineWidth,    \* pixels of a scanline (1024)
    SpriteWidth,  \* pixels of a sprite (16)
    LeadLores,    \* fetch pipeline in lores pixels (17), and of a hires line (9)
    LeadHires,
    MaxScroll,    \* largest delay of BPLCON1 (15)
    Byte8         \* values of a byte (256)

ASSUME PixelsAssumption ==
    /\ LineWidth \in Nat \ {0} /\ SpriteWidth \in Nat \ {0}
    /\ LeadLores \in Nat /\ LeadHires \in Nat /\ MaxScroll \in Nat
    /\ Byte8 \in Nat \ {0}

Xs == 0..(LineWidth - 1)

(* Contents of BPLCON0 to BPLCON2, of the colour registers, of a sprite's  *)
(* registers and of CLXCON.                                                *)
Control == [depth: 0..7, hires: BOOLEAN, ham: BOOLEAN, dual: BOOLEAN, lace: BOOLEAN,
            color: BOOLEAN, scroll1: 0..MaxScroll, scroll2: 0..MaxScroll,
            pf1p: 0..7, pf2p: 0..7, bit6: BOOLEAN]
Colour == [1..3 -> Nat]
Palette == [0..31 -> Colour]
Sprite == [armed: BOOLEAN, attach: BOOLEAN, h: Nat, vs: Nat, ve: Nat,
           px: [1..SpriteWidth -> 0..3]]
Collide == [on: BOOLEAN, pairs: SUBSET (0..3), pf: BOOLEAN]

(* The bit of plane p in a pixel value, and a value without planes >= d.   *)
PlaneBit(v, p) == (v \div 2^p) % 2
OfDepth(v, d) == v % 2^d

hscale(con) == IF con.hires THEN 2 ELSE 1
origin(l) == (l.ddf + (IF l.con.hires THEN LeadHires ELSE LeadLores)) * hscale(l.con)
is_ehb(con) == ~con.ham /\ ~con.dual /\ con.depth = 6 /\ ~con.bit6

(* Colours are <<red, green, blue>>.                                       *)
ehb_resolve_color(ci, pal) ==
    IF ci >= 32 THEN [c \in 1..3 |-> pal[ci - 32][c] \div 2] ELSE pal[ci]

ham6_decode_pixel(v, prev, pal) ==
    CASE v \div 16 = 0 -> pal[v % 32]
      [] v \div 16 = 1 -> [prev EXCEPT ![3] = 16 * (v % 16)]
      [] v \div 16 = 2 -> [prev EXCEPT ![1] = 16 * (v % 16)]
      [] v \div 16 = 3 -> [prev EXCEPT ![2] = 16 * (v % 16)]

dualpf_decode(v) ==
    LET one == PlaneBit(v, 0) + 2 * PlaneBit(v, 2) + 4 * PlaneBit(v, 4)
        two == PlaneBit(v, 1) + 2 * PlaneBit(v, 3) + 4 * PlaneBit(v, 5)
    IN [pf1 |-> one, pf2 |-> IF two = 0 THEN 0 ELSE two + 8]

-----------------------------------------------------------------------------
(* The playfield, as a cell per pixel: its colour, the index that decides  *)
(* transparency, the priority against sprites and the playfields there.    *)
Background(l) ==
    [x \in Xs |-> [rgb |-> l.pal[0], color |-> 0, prio |-> l.con.pf1p, active |-> {}]]

color_of(ci, l) == IF is_ehb(l.con) THEN ehb_resolve_color(ci, l.pal) ELSE l.pal[ci]

index_of(v, con) == IF is_ehb(con) THEN v % 64 ELSE v % 32

single_cell(ci, l) ==
    [rgb |-> color_of(ci, l), color |-> ci, prio |-> l.con.pf1p,
     active |-> IF ci # 0 THEN {1} ELSE {}]

(* HAM: every pixel changes the colour of the one before, seen or not.     *)
ham_line(l) ==
    LET rgb[n \in 0..Len(l.px)] ==
          IF n = 0 THEN l.pal[0]
          ELSE ham6_decode_pixel(OfDepth(l.px[n], l.con.depth), rgb[n - 1], l.pal)
        first == origin(l) + l.con.scroll1 * hscale(l.con)
    IN [x \in Xs |->
          IF x \in l.win /\ x - first \in 0..(Len(l.px) - 1)
          THEN [rgb |-> rgb[x - first + 1], color |-> 255, prio |-> l.con.pf1p, active |-> {1}]
          ELSE Background(l)[x]]

(* One playfield's pixel of index ci arrives at a cell of a dual line.     *)
dual_put(c, ci, pf, l) ==
    LET shown == c.active = {} \/ (c.active = {3 - pf} /\ (l.con.bit6 <=> pf = 2))
    IN [c EXCEPT !.active = @ \cup {pf},
                 !.color = IF shown THEN ci ELSE @,
                 !.prio = IF shown THEN (IF pf = 1 THEN l.con.pf1p ELSE l.con.pf2p) ELSE @,
                 !.rgb = IF shown THEN l.pal[ci] ELSE @]

dual_line(l) ==
    LET at(n, scroll) == origin(l) + (n - 1) + scroll * hscale(l.con)
        put(cells, x, ci, pf) ==
            IF ci = 0 \/ x \notin l.win \cap Xs THEN cells
            ELSE [cells EXCEPT ![x] = dual_put(@, ci, pf, l)]
        cells[n \in 0..Len(l.px)] ==
            IF n = 0 THEN Background(l)
            ELSE LET d == dualpf_decode(OfDepth(l.px[n], l.con.depth))
                 IN put(put(cells[n - 1], at(n, l.con.scroll1), d.pf1, 1),
                        at(n, l.con.scroll2), d.pf2, 2)
    IN cells[Len(l.px)]

(* A single playfield whose planes have one delay.                         *)
even_line(l) ==
    LET first == origin(l) + l.con.scroll1 * hscale(l.con)
    IN [x \in Xs |->
          IF x \in l.win /\ x - first \in 0..(Len(l.px) - 1)
          THEN single_cell(index_of(OfDepth(l.px[x - first + 1], l.con.depth), l.con), l)
          ELSE Background(l)[x]]

(* The value that the planes, each with its delay, have at pixel x.        *)
planes_at(l, x) ==
    LET bit(p) ==
          LET src == x - (IF p % 2 = 0 THEN l.con.scroll1 ELSE l.con.scroll2) * hscale(l.con)
                       - origin(l)
          IN IF p < l.con.depth /\ src \in 0..(Len(l.px) - 1)
             THEN PlaneBit(l.px[src + 1], p) ELSE 0
    IN bit(0) + 2 * bit(1) + 4 * bit(2) + 8 * bit(3) + 16 * bit(4) + 32 * bit(5)

split_line(l) ==
    [x \in Xs |-> IF x \in l.win /\ x >= origin(l) /\ x < origin(l) + Len(l.px) + MaxScroll * hscale(l.con)
                  THEN single_cell(index_of(planes_at(l, x), l.con), l)
                  ELSE Background(l)[x]]

playfield(l) ==
    IF ~(l.con.depth \in 1..6 /\ Len(l.px) > 0) THEN Background(l)
    ELSE CASE l.con.ham -> ham_line(l)
           [] ~l.con.ham /\ l.con.dual -> dual_line(l)
           [] ~l.con.ham /\ ~l.con.dual /\ l.con.scroll1 = l.con.scroll2 -> even_line(l)
           [] OTHER -> split_line(l)

-----------------------------------------------------------------------------
(* Sprites: h, vs and ve from POS and CTL, two bits per pixel.             *)
sprite_pixel(s, x) == IF s.armed /\ x - s.h \in 0..(SpriteWidth - 1) THEN s.px[x - s.h + 1] ELSE 0

attached(sprites, i) == i % 2 = 1 /\ sprites[i].attach

(* denise_sprite_attached_pixel: each of the two at its own position.      *)
attached_pixel(sprites, i, x) ==
    LET lo == sprite_pixel(sprites[i], x)
        hi == sprite_pixel(sprites[i + 1], x)
    IN IF lo = 0 /\ hi = 0 THEN 0 ELSE 16 + 4 * hi + lo

on_line(s, y) == y >= s.vs /\ y < (IF s.ve <= s.vs THEN s.ve + Byte8 ELSE s.ve)

sprite_hscale(l) == IF l.wide \/ l.con.hires THEN 2 ELSE 1

(* The palette index of sprite i at pixel x of the line; 0 is transparent. *)
sprite_index(l, i, x) ==
    LET s == l.sprites[i]
        at == x \div sprite_hscale(l)
        pix == sprite_pixel(s, at)
    IN IF attached(l.sprites, i) \/ ~s.armed \/ ~on_line(s, l.y)
          \/ at - s.h \notin 0..(SpriteWidth - 1) THEN 0
       ELSE IF i % 2 = 0 /\ attached(l.sprites, i + 1) THEN attached_pixel(l.sprites, i, at)
       ELSE IF pix = 0 THEN 0 ELSE (16 + (i \div 2) * 4 + pix) % 32

(* Sprite 7 is drawn first, 0 last and in front of the others.             *)
sprites_over(l, cells) ==
    LET rgb[n \in 0..8] ==
          IF n = 0 THEN [x \in Xs |-> cells[x].rgb]
          ELSE LET i == 8 - n
               IN [x \in Xs |->
                     IF sprite_index(l, i, x) # 0
                        /\ (cells[x].color = 0 \/ (i \div 2) + cells[x].prio < 4)
                     THEN l.pal[sprite_index(l, i, x)] ELSE rgb[n - 1][x]]
    IN rgb[8]

(* compose_line: the pixels of the line.                                   *)
compose_line(l) == sprites_over(l, playfield(l))

(* collision_check_pixel: clx says whether CLXCON is not zero (on), which  *)
(* sprite pairs are compared and whether sprites are with playfields.  The *)
(* bits are those of CLXDAT.                                               *)
collision_check_pixel(clx, S, active) ==
    LET paired(odd) == {i \in S : i % 2 = odd /\ i \div 2 \in clx.pairs}
        meets(odd, pf) == clx.pf /\ pf \in active /\ \E i \in S : i % 2 = odd
    IN {b \in 0..6 :
          CASE b = 0 -> Cardinality(paired(1)) > 1
            [] b = 1 -> Cardinality(paired(0)) > 1
            [] b \in 2..5 -> meets((b + 1) % 2, b \div 2)
            [] b = 6 -> active = {1, 2}}

(* The bits of CLXDAT that the line sets, within the window.               *)
collisions(l, clx) ==
    IF ~clx.on THEN {}
    ELSE LET cells == playfield(l)
         IN UNION {collision_check_pixel(clx, {i \in 0..7 : sprite_index(l, i, x) # 0},
                                         cells[x].active) : x \in l.win \cap Xs}

-----------------------------------------------------------------------------
(* The same line from the resolvers, one pixel at a time.                  *)

dualpf_priority_resolve(d, con) ==
    CASE d.pf1 # 0 /\ d.pf2 # 0 -> IF con.bit6 THEN d.pf2 ELSE d.pf1
      [] d.pf1 # 0 /\ d.pf2 = 0 -> d.pf1
      [] OTHER -> d.pf2

(* The sprite that denise_priority_resolve finds in front; 8 for none.     *)
priority_resolve(color, prio, sprite_px) ==
    LET front == {i \in 0..7 : sprite_px[i] # 0 /\ (color = 0 \/ (i \div 2) + prio < 4)}
    IN IF front = {} THEN 8 ELSE CHOOSE i \in front : \A j \in front : i <= j

(* What a HAM pixel shows, channel by channel: the last pixel up to it     *)
(* that loads a colour or changes the channel.                             *)
ham_channel(l, n, c) ==
    LET v(k) == OfDepth(l.px[k], l.con.depth)
        changes == CASE c = 1 -> 2 [] c = 2 -> 3 [] c = 3 -> 1
        S == {k \in 1..n : v(k) \div 16 \in {0, changes}}
        k == CHOOSE i \in S : \A j \in S : j <= i
    IN IF S = {} THEN l.pal[0][c]
       ELSE IF v(k) \div 16 = 0 THEN l.pal[v(k) % 32][c] ELSE 16 * (v(k) % 16)

resolved_pixel(l, x) ==
    LET drawn == x \in l.win /\ l.con.depth \in 1..6 /\ Len(l.px) > 0
        n == x - origin(l) - l.con.scroll1 * hscale(l.con) + 1
        ham == drawn /\ l.con.ham /\ n \in 1..Len(l.px)
        dual == ~l.con.ham /\ l.con.dual
        v == IF drawn THEN planes_at(l, x) ELSE 0
        color == CASE l.con.ham -> IF ham THEN 255 ELSE 0
                   [] dual -> dualpf_priority_resolve(dualpf_decode(v), l.con)
                   [] OTHER -> index_of(v, l.con)
        prio == IF dual /\ color > 8 THEN l.con.pf2p ELSE l.con.pf1p
        sprite == priority_resolve(color, prio, [i \in 0..7 |-> sprite_index(l, i, x)])
    IN IF sprite < 8 THEN l.pal[sprite_index(l, sprite, x)]
       ELSE IF ham THEN [c \in 1..3 |-> ham_channel(l, n, c)]
       ELSE IF l.con.ham THEN l.pal[0]
       ELSE IF dual THEN l.pal[color] ELSE color_of(color, l)

(* The playfields that are not transparent at a pixel of the window.       *)
resolved_playfields(l, x) ==
    LET n == x - origin(l) - l.con.scroll1 * hscale(l.con) + 1
        d == dualpf_decode(planes_at(l, x))
    IN IF ~(l.con.depth \in 1..6 /\ Len(l.px) > 0) THEN {}
       ELSE CASE l.con.ham -> IF n \in 1..Len(l.px) THEN {1} ELSE {}
              [] ~l.con.ham /\ l.con.dual -> {pf \in {1, 2} : (IF pf = 1 THEN d.pf1 ELSE d.pf2) # 0}
              [] OTHER -> IF index_of(planes_at(l, x), l.con) # 0 THEN {1} ELSE {}

resolved_line(l) == [x \in Xs |-> resolved_pixel(l, x)]
=============================================================================
