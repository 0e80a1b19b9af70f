------------------------------- MODULE Denise -------------------------------
(***************************************************************************)
(* Denise: registers, display window, the line being fetched, and the two  *)
(* frame buffers, driven by the beam.                                      *)
(* src/src/chipset/denise/denise.c, registers/denise_registers.c,          *)
(* render/compositor.c, output/framebuffer.c, video/display_window.c       *)
(*                                                                         *)
(* Denise looks at its registers when the beam goes to another line, so    *)
(* writes and fetches are only tried at the first and at the last clock of *)
(* a line: before VERTB clears the sprites, and after.  The frame counter  *)
(* is kept modulo 2, since Denise only compares it with its last value.    *)
(***************************************************************************)
EXTENDS Beam, Pixels

CONSTANTS
    VisStart,      \* first line the beam counts as visible (26)
    MaxLines,      \* lines of a frame buffer (312)
    FrameLengths,  \* frame lengths BEAMCON0 can select
    FirstLength,   \* the one after reset
    Ecs,           \* the chips are ECS
    Bplcons,       \* contents of BPLCON0, BPLCON1 and BPLCON2
    Diws,          \* contents of DIWSTRT and DIWSTOP
    DiwHighs,      \* contents of DIWHIGH
    Ddfs,          \* contents of DDFSTRT
    Palettes,      \* contents of the colour registers
    SpriteData,    \* sprites (n) and contents of their registers
    PlaneWords,    \* words of all planes, as pixel values
    Displays,      \* displays set up at once: registers and sprites
    LineCases,     \* the same with the pixels fetched for a line
    MaxFetched,    \* pixels fetched for a line (64 words)
    MaxDenOps      \* bound: register writes and fetches

DiwBytes == {"hs", "vs", "he", "ve"}

(* What the registers hold, and what is set up with them at once.          *)
DenRegs == [con: Control, diw: [DiwBytes -> 0..(Byte8 - 1)], high: [DiwBytes -> Nat],
            ddf: Nat, pal: Palette]
Pixelled == Seq(Nat) \ {<<>>}

Registers(c) == [con |-> c.con, diw |-> c.diw, high |-> c.high, ddf |-> c.ddf, pal |-> c.pal]

ASSUME DeniseAssumption ==
    /\ VisStart \in Nat /\ MaxLines \in Nat \ {0}
    /\ FrameLengths \subseteq Nat \ {0} /\ FirstLength \in FrameLengths
    /\ \A n \in FrameLengths : n > VisStart + 1  \* frames end after the first visible line
    /\ Ecs \in BOOLEAN
    /\ MaxFetched \in Nat /\ MaxDenOps \in Nat
    /\ Bplcons \subseteq Control /\ Diws \subseteq [DiwBytes -> 0..(Byte8 - 1)]
    /\ DiwHighs \subseteq [DiwBytes -> Nat] /\ Ddfs \subseteq Nat
    /\ Palettes \subseteq Palette /\ PlaneWords \subseteq Pixelled
    /\ \A s \in SpriteData : s.n \in 0..7 /\ s.regs \in Sprite
    /\ \A c \in Displays \cup LineCases :
          Registers(c) \in DenRegs /\ c.sprites \in [0..7 -> Sprite] /\ c.clx \in Collide
    /\ \A c \in LineCases : c.px \in Pixelled

VARIABLES
    raster,   \* agnus.beam
    dregs,    \* con (BPLCON0-2), diw, high (DIWHIGH), ddf (DDFSTRT), pal
    video,    \* the display window
    sprites,  \* denise.sprites
    line,     \* plane_words and the control registers latched for the line
    scan,     \* scanline_rgba
    coll,     \* con, CLXCON, and dat, the bits set in CLXDAT
    frame,    \* frame_rgba, front_idx, the pending and the completed flags,
              \* and the interlace state Denise saw at its last tick
    shown,    \* history: what the line and the frame really were
    denOps    \* register writes and fetches so far

denVars == <<raster, dregs, video, sprites, line, scan, coll, frame, shown,
             denOps>>

-----------------------------------------------------------------------------
NoCon == [depth |-> 0, hires |-> FALSE, ham |-> FALSE, dual |-> FALSE, lace |-> FALSE,
          color |-> FALSE, scroll1 |-> 0, scroll2 |-> 0, pf1p |-> 0, pf2p |-> 0,
          bit6 |-> FALSE]

Zeros == [b \in DiwBytes |-> 0]

NoSprite == [armed |-> FALSE, attach |-> FALSE, h |-> 0, vs |-> 0, ve |-> 0,
             px |-> [i \in 1..SpriteWidth |-> 0]]

Black == <<0, 0, 0>>
sprites_reset == [i \in 0..7 |-> NoSprite]
NoClx == [on |-> FALSE, pairs |-> {}, pf |-> FALSE]
no_line == [px |-> <<>>, con |-> NoCon, valid |-> FALSE]

(* BPU = 0 beside other bits of BPLCON0, and DIWSTRT = $FFFF, leave the    *)
(* window alone.                                                           *)
window_kept(r) ==
    \/ r.con.depth = 0 /\ (r.con.hires \/ r.con.ham \/ r.con.dual \/ r.con.lace \/ r.con.color)
    \/ r.diw.hs = Byte8 - 1 /\ r.diw.vs = Byte8 - 1

After(stop, start) == IF stop <= start THEN stop + Byte8 ELSE stop

(* The window that the registers describe.  Without DIWHIGH, a low window  *)
(* that begins near the top is taken to be a whole field.                  *)
window_of(r) ==
    LET ocs == ~Ecs \/ r.high = Zeros
        raw == [b \in DiwBytes |->
                  r.diw[b] + Byte8 * (IF ~ocs THEN r.high[b] ELSE IF b = "he" THEN 1 ELSE 0)]
        he == After(raw.he, raw.hs)
        low == After(raw.ve, raw.vs)
        ve == IF ocs /\ low - raw.vs < Byte8 \div 2 /\ raw.vs < Byte8 \div 8
              THEN raw.vs + Byte8 ELSE low
        width == IF he > raw.hs THEN he - raw.hs ELSE Byte8 + Byte8 \div 4
    IN [x0 |-> raw.hs * hscale(r.con), x1 |-> (raw.hs + width) * hscale(r.con),
        y0 |-> raw.vs, y1 |-> IF ve > MaxLines THEN MaxLines ELSE ve]

(* A window that begins below the frame is a blanking sequence.            *)
display_window_update(v, r) ==
    IF window_kept(r) \/ window_of(r).y0 >= MaxLines THEN v ELSE window_of(r)

-----------------------------------------------------------------------------
(* beam_in_visible_area; rigel_agnus_set_video_std sets the last line.     *)
visible(b) == b.vpos >= VisStart /\ b.vpos <= b.frame_lines - 1

(* What compose_line looks at.                                             *)
to_compose(y, px, con) ==
    [px |-> px, con |-> con, sprites |-> sprites, pal |-> dregs.pal,
     win |-> video.x0..(video.x1 - 1), ddf |-> dregs.ddf,
     wide |-> video.x1 - video.x0 > 2 * Byte8, y |-> y]

border_line == [x \in Xs |-> dregs.pal[0]]

(* BPLCON0-2 as they were at the first fetch, or are now.                  *)
line_con == IF line.valid THEN line.con ELSE dregs.con

(* The flags a composed line adds to those of its frame.                   *)
mode_flags(con) ==
    {f \in {"ham", "dual", "sprites"} :
        CASE f = "ham" -> con.ham [] f = "dual" -> con.dual
          [] f = "sprites" -> \E i \in 0..7 : sprites[i].armed}

(* Mutant: the last row is stored after the buffers were exchanged.        *)
store_row_AfterSwap(f, y, row, ended) ==
    IF y < MaxLines THEN [f EXCEPT !.rows[IF ended THEN f.front ELSE 1 - f.front][y] = row] ELSE f

(* The row of the line that is left goes to the back buffer.               *)
store_row(f, y, row, ended) ==
    IF y < MaxLines THEN [f EXCEPT !.rows[1 - f.front][y] = row] ELSE f

(* The field of the frame that is left: f has the interlace state of the   *)
(* tick before, b is the beam in the next frame.                           *)
field_of(f, b) == IF ~f.lof_toggle THEN "none" ELSE IF f.lof THEN "odd" ELSE "even"

(* A frame is left: its flags are handed over and the buffers exchanged.   *)
swap(f, b) ==
    [f EXCEPT !.field = field_of(f, b), !.flags = f.pending_flags, !.redraw = f.pending,
              !.pending_flags = {}, !.pending = FALSE, !.front = 1 - @]

(* rigel_denise_framebuffer_sync_from_beam keeps what it saw of the beam.  *)
synced(f, b) == [f EXCEPT !.lof = b.lof, !.lof_toggle = b.lof_toggle]

(* Mutant: the collisions of a line replace those before.                  *)
collected_Replaced(dat, new) == new

(* CLXDAT gathers collisions until it is read.                             *)
collected(dat, new) == dat \cup new

(* rigel_denise_compositor_tick on a clock that ends a line: the line is   *)
(* composed, or is border if it was not visible; it is stored; the words   *)
(* are dropped; a first visible line is composed once more as it begins.   *)
leave_line(b, next) ==
    LET ended == next.frame_count # b.frame_count
        enters == ~visible(b) /\ visible(next)
        row == IF visible(b) THEN compose_line(to_compose(b.vpos, line.px, line_con))
               ELSE border_line
        lined == [store_row(frame, b.vpos, row, ended) EXCEPT
                    !.pending_flags = @ \cup IF visible(b) THEN mode_flags(line_con) ELSE {}]
        left == IF ended THEN swap(lined, next) ELSE lined
        entry == to_compose(next.vpos, <<>>, dregs.con)
    IN /\ coll' = [coll EXCEPT !.dat = collected(@,
                      (IF visible(b)
                       THEN collisions(to_compose(b.vpos, line.px, line_con), coll.con) ELSE {})
                      \cup IF enters THEN collisions(entry, coll.con) ELSE {})]
       /\ scan' = IF enters THEN compose_line(entry) ELSE row
       /\ frame' = synced([left EXCEPT !.pending_flags =
                                @ \cup IF enters THEN mode_flags(dregs.con) ELSE {}], next)
       /\ line' = no_line

(* History: the picture the line should have made, added to its frame's.   *)
true_line(b) ==
    to_compose(b.vpos, shown.px, IF shown.px = <<>> THEN dregs.con ELSE shown.con)

true_row(b) == IF visible(b) THEN resolved_line(true_line(b)) ELSE border_line

(* History: whether two odd or two even sprites that are compared meet in  *)
(* the line, and whether the playfields do.                                *)
true_collisions(b) ==
    IF ~coll.con.on \/ ~visible(b) THEN {}
    ELSE LET l == true_line(b)
             at(i) == {x \in l.win \cap Xs : sprite_index(l, i, x) # 0}
             met(i, j) == i < j /\ i % 2 = j % 2 /\ {i \div 2, j \div 2} \subseteq coll.con.pairs
                          /\ at(i) \cap at(j) # {}
         IN {bit \in {0, 1} : \E i, j \in 0..7 : met(i, j) /\ i % 2 = 1 - bit}
            \cup {bit \in {6} : \E x \in l.win \cap Xs : resolved_playfields(l, x) = {1, 2}}

witness(b, next) ==
    LET rows == IF b.vpos < MaxLines
                THEN [y \in {b.vpos} \cup DOMAIN shown.now |->
                        IF y = b.vpos THEN true_row(b) ELSE shown.now[y]]
                ELSE shown.now
        ended == next.frame_count # b.frame_count
    IN [shown EXCEPT !.px = <<>>, !.con = NoCon,
                     !.now = IF ended THEN <<>> ELSE rows,
                     !.last = IF ended THEN rows ELSE @,
                     !.met = @ \cup true_collisions(b),
                     !.steady = IF ended /\ @ < 2 THEN @ + 1 ELSE @]

-----------------------------------------------------------------------------
DenInit ==
    LET r == [con |-> NoCon, diw |-> Zeros, high |-> Zeros, ddf |-> 0,
              pal |-> [i \in 0..31 |-> Black]]
    IN /\ raster = beam_reset(FirstLength)
       /\ dregs = r
       /\ video = window_of(r)
       /\ sprites = sprites_reset
       /\ line = no_line
       /\ scan = [x \in Xs |-> Black]
       /\ coll = [con |-> NoClx, dat |-> {}]
       /\ frame = [rows |-> [i \in {0, 1} |-> [y \in 0..(MaxLines - 1) |-> [x \in Xs |-> Black]]],
                   front |-> 0, field |-> "none", lof |-> FALSE, lof_toggle |-> FALSE,
                   pending |-> FALSE, redraw |-> FALSE, pending_flags |-> {}, flags |-> {}]
       /\ shown = [px |-> <<>>, con |-> NoCon, now |-> <<>>, last |-> <<>>, met |-> {},
                   steady |-> 0]
       /\ denOps = 0

(* One colour clock: the beam moves, Denise follows, VERTB clears sprites. *)
DenTick ==
    LET stepped == beam_step1(raster)
        next == [stepped EXCEPT !.frame_count = @ % 2]
    IN /\ raster' = next
       /\ IF next.hpos = 0
          THEN leave_line(raster, next) /\ shown' = witness(raster, next)
          ELSE frame' = synced(frame, next) /\ UNCHANGED <<line, scan, coll, shown>>
       /\ sprites' = IF at_vertb(next) THEN sprites_reset ELSE sprites
       /\ UNCHANGED <<dregs, video, denOps>>

AnOp(n) ==
    /\ raster.hpos \in {0, LineClocks - 1}
    /\ denOps + n <= MaxDenOps
    /\ denOps' = denOps + n

(* The registers that also follow the window and ask for a full redraw.    *)
Rewrite(r, v) ==
    /\ dregs' = r
    /\ video' = v
    /\ frame' = [frame EXCEPT !.pending = TRUE]
    /\ UNCHANGED <<sprites, line, scan, coll>>

control0(con, c) ==
    [con EXCEPT !.depth = c.depth, !.hires = c.hires, !.ham = c.ham, !.dual = c.dual,
                !.lace = c.lace, !.color = c.color]

WriteControl0(c) ==
    LET r == [dregs EXCEPT !.con = control0(@, c)]
    IN /\ AnOp(1)
       /\ r # dregs
       /\ Rewrite(r, display_window_update(video, r))
       /\ raster' = write_lace(raster, c.lace)
       /\ shown' = [shown EXCEPT !.steady = IF c.lace # dregs.con.lace THEN 0 ELSE @]

(* BPLCON1 and BPLCON2 leave the window as it is.                          *)
WriteControl12(c) ==
    LET con == control0(c, dregs.con)
    IN /\ AnOp(1)
       /\ con # dregs.con
       /\ Rewrite([dregs EXCEPT !.con = con], video)
       /\ UNCHANGED <<raster, shown>>

WriteDiw(d) ==
    LET r == [dregs EXCEPT !.diw = d]
    IN /\ AnOp(1)
       /\ d # dregs.diw
       /\ Rewrite(r, display_window_update(video, r))
       /\ UNCHANGED <<raster, shown>>

(* Mutant: DIWHIGH is latched and the window is not followed.              *)
follow_high_Latched(v, r) == v

follow_high(v, r) == display_window_update(v, r)

WriteDiwHigh(h) ==
    LET r == [dregs EXCEPT !.high = h]
    IN /\ AnOp(1)
       /\ Ecs
       /\ h # dregs.high
       /\ Rewrite(r, follow_high(video, r))
       /\ UNCHANGED <<raster, shown>>

(* COLORxx: a redraw is asked for only if the value is another one.        *)
WriteColor(p) ==
    /\ AnOp(1)
    /\ dregs' = [dregs EXCEPT !.pal = p]
    /\ frame' = [frame EXCEPT !.pending = @ \/ p # dregs.pal]
    /\ UNCHANGED <<raster, video, sprites, line, scan, coll, shown>>

WriteDdf(d) ==
    /\ AnOp(1)
    /\ d # dregs.ddf
    /\ dregs' = [dregs EXCEPT !.ddf = d]
    /\ UNCHANGED <<raster, video, sprites, line, scan, coll, frame, shown>>

(* SPRxPOS, SPRxCTL and the data, by DMA or by the guest.                  *)
WriteSprite(i, s) ==
    /\ AnOp(1)
    /\ s # sprites[i]
    /\ sprites' = [sprites EXCEPT ![i] = s]
    /\ UNCHANGED <<raster, dregs, video, line, scan, coll, frame, shown>>

SetVideoStd(n) ==
    /\ AnOp(1)
    /\ Ecs
    /\ n # raster.frame_lines
    /\ raster' = set_video_std(raster, n)
    /\ UNCHANGED <<dregs, video, sprites, line, scan, coll, frame, shown>>

(* Agnus delivers one word of every plane; the first latches BPLCON0-2.    *)
Fetch(w) ==
    /\ AnOp(1)
    /\ dregs.con.depth \in 1..6
    /\ Len(line.px) + Len(w) <= MaxFetched
    /\ line' = [px |-> line.px \o [i \in 1..Len(w) |-> OfDepth(w[i], dregs.con.depth)],
                con |-> line_con, valid |-> TRUE]
    /\ shown' = [shown EXCEPT !.px = line'.px, !.con = IF shown.px = <<>> THEN dregs.con ELSE @]
    /\ UNCHANGED <<raster, dregs, video, sprites, scan, coll, frame>>

(* CLXDAT clears on read.                                                  *)
ReadClxdat ==
    /\ AnOp(1)
    /\ coll.dat # {}
    /\ coll' = [coll EXCEPT !.dat = {}]
    /\ shown' = [shown EXCEPT !.met = {}]
    /\ UNCHANGED <<raster, dregs, video, sprites, line, scan, frame>>

(* The registers of a display written one after the other.                 *)
Program(c) ==
    /\ dregs' = Registers(c)
    /\ video' = display_window_update(video, Registers(c))
    /\ frame' = [frame EXCEPT !.pending = TRUE]
    /\ sprites' = c.sprites
    /\ coll' = [coll EXCEPT !.con = c.clx]

(* The guest sets up a display before the beam has moved.                  *)
SetUp(c) ==
    /\ raster = beam_reset(FirstLength) /\ denOps = 0
    /\ dregs.con = NoCon
    /\ Program(c)
    /\ raster' = write_lace(raster, c.con.lace)
    /\ UNCHANGED <<line, scan, shown, denOps>>

(* A display set up within a line, for which a line is then fetched.       *)
ShowLine(c) ==
    LET px == [i \in 1..Len(c.px) |-> OfDepth(c.px[i], c.con.depth)]
    IN /\ raster.vpos = VisStart /\ raster.hpos = LineClocks - 1
       /\ dregs.con = NoCon
       /\ AnOp(MaxDenOps)
       /\ Program(c)
       /\ line' = [px |-> px, con |-> c.con, valid |-> TRUE]
       /\ shown' = [shown EXCEPT !.px = px, !.con = c.con]
       /\ raster' = write_lace(raster, c.con.lace)
       /\ UNCHANGED scan

DenNext ==
    \/ DenTick
    \/ \E c \in Bplcons : WriteControl0(c) \/ WriteControl12(c)
    \/ \E d \in Diws : WriteDiw(d)
    \/ \E h \in DiwHighs : WriteDiwHigh(h)
    \/ \E p \in Palettes : WriteColor(p)
    \/ \E d \in Ddfs : WriteDdf(d)
    \/ \E s \in SpriteData : WriteSprite(s.n, s.regs)
    \/ \E n \in FrameLengths : SetVideoStd(n)
    \/ \E w \in PlaneWords : Fetch(w)
    \/ ReadClxdat
    \/ \E c \in Displays : SetUp(c)
    \/ \E c \in LineCases : ShowLine(c)

DenSpec == DenInit /\ [][DenNext]_denVars

-----------------------------------------------------------------------------
(* compose_line merges the playfields as their pixels arrive and draws the *)
(* sprites from the back; dualpf_priority_resolve and                      *)
(* denise_priority_resolve choose what is in front pixel by pixel.  Every  *)
(* line of the frame so far is in the back buffer as the resolvers give    *)
(* it, with the words fetched in that line, BPLCON0-2 as they were at its  *)
(* first fetch, and the rest as it was at the line's end.                  *)
LineAsResolved == \A y \in DOMAIN shown.now : frame.rows[1 - frame.front][y] = shown.now[y]

(* "Swap runs after writing the last scanline so the front buffer is       *)
(* complete": the buffer the host reads holds every line of the last       *)
(* complete frame, whatever is drawn meanwhile.                            *)
FrontIsLastFrame == \A y \in DOMAIN shown.last : frame.rows[frame.front][y] = shown.last[y]

(* "The latest DIW/DIWHIGH values remain latched and will be applied as    *)
(* soon as bitplanes are enabled again": the window is what the registers  *)
(* say, except while they say nothing.                                     *)
WindowIsCurrent ==
    \/ window_kept(dregs)
    \/ window_of(dregs).y0 >= MaxLines
    \/ video = window_of(dregs)

(* Every meeting of two sprites or of the playfields in a line that was    *)
(* shown is in CLXDAT until the guest reads it.                            *)
CollisionsKept == shown.met \subseteq coll.dat

(* While LACE stays on, the frames handed to the host are even and odd     *)
(* fields in turn, and an odd one is a frame that had its extra line.      *)
FieldsAlternate ==
    frame'.front # frame.front =>
        /\ shown.steady = 2 /\ raster.lof_toggle => frame'.field # frame.field
        /\ frame'.field = "odd" /\ shown.steady = 2 => raster.vpos >= raster.frame_lines

(* At every step the frame being drawn and the frame the host reads hold   *)
(* every line as the priority resolvers give it, and fields are handed out *)
(* in turn.                                                                *)
FramesPublished ==
    [][LineAsResolved' /\ FrontIsLastFrame' /\ FieldsAlternate]_denVars
=============================================================================
