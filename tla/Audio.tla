------------------------------- MODULE Audio --------------------------------
(***************************************************************************)
(* Paula's audio channels: the DMA side, which fetches a word when the     *)
(* arbiter grants the channel's slot, and the playing side, which takes a  *)
(* byte each time the period counter runs out.  Within one rigel_step all  *)
(* slots come first and all periods after them.                            *)
(* src/src/chipset/paula/audio.c, src/src/domains/audio/audio_domain.c,    *)
(* src/src/chipset/chipset.c                                               *)
(*                                                                         *)
(* Chip RAM holds, at every word address, two bytes that are told apart by *)
(* where they came from: <<address, "hi">> and <<address, "lo">>.  A byte  *)
(* the guest wrote to AUDxDAT is "dat".  Mixing and volume are left out:   *)
(* they compute two numbers from the current samples.                      *)
(***************************************************************************)
EXTENDS Integers, Sequences

CONSTANTS
    Channels,     \* audio channels (0..3 in the code)
    Addresses,    \* word addresses a sample may start at
    AudLengths,   \* values written to AUDxLEN
    Periods,      \* values written to AUDxPER
    MaxAudStep,   \* bound: colour clocks of one rigel_step
    MaxFetches,   \* bound: words fetched by a channel
    MaxAudWrites  \* bound: register writes of the guest

(* The largest value of a 16-bit register.                                 *)
PeriodMax == 65535

ASSUME AudioAssumption ==
    /\ Addresses \subseteq Nat /\ AudLengths \subseteq Nat
    /\ Periods \subseteq 0..PeriodMax
    /\ MaxAudStep \in Nat \ {0} /\ MaxFetches \in Nat /\ MaxAudWrites \in Nat

VARIABLES
    aud,        \* rigel_audio_channel_t of every channel, with its history
    auden,      \* the channels whose AUDxEN is set in audio->dmacon
    ready,      \* audio->sample_ready
    audreq,     \* the AUDx bits of INTREQ
    ended,      \* history: channels whose buffer ended, not acknowledged
    audWrites   \* guest writes so far

audioVars == <<aud, auden, ready, audreq, ended, audWrites>>

(* The history fields are: fetched, the addresses fetched, and played, the *)
(* bytes taken from DMA.                                                   *)
Channel == [audlc: Nat, audlen: Nat, audper: Nat, current_ptr: Nat,
            current_length: Nat, period_counter: Nat,
            data_pending: BOOLEAN, has_pending_lo: BOOLEAN, pending_lo: Nat,
            dma_word_ready: BOOLEAN, dma_word: Nat,
            fetched: Seq(Nat), played: Seq(Nat \X {"hi", "lo"})]

AudioTypeOK ==
    /\ aud \in [Channels -> Channel]
    /\ \A c \in Channels :
        /\ aud[c].audper <= PeriodMax /\ aud[c].period_counter <= PeriodMax
        /\ Len(aud[c].fetched) <= MaxFetches
    /\ auden \subseteq Channels /\ audreq \subseteq Channels
    /\ ended \subseteq Channels
    /\ ready \in BOOLEAN
    /\ audWrites \in 0..MaxAudWrites

audio_reset ==
    [audlc |-> 0, audlen |-> 0, audper |-> 0, current_ptr |-> 0,
     current_length |-> 0, period_counter |-> 0,
     data_pending |-> FALSE, has_pending_lo |-> FALSE, pending_lo |-> 0,
     dma_word_ready |-> FALSE, dma_word |-> 0,
     fetched |-> <<>>, played |-> <<>>]

AudioInit ==
    /\ aud = [c \in Channels |-> audio_reset]
    /\ auden = {} /\ ready = FALSE /\ audreq = {} /\ ended = {}
    /\ audWrites = 0

-----------------------------------------------------------------------------
(* audio_step: one period elapses and the next byte, if any, is taken: one *)
(* written to AUDxDAT, else the low byte left over, else a fetched word.   *)

(* Mutant: the low byte of a fetched word is not kept.                     *)
take_sample_HighOnly(ch) ==
    IF ch.data_pending THEN [ch EXCEPT !.data_pending = FALSE]
    ELSE IF ch.has_pending_lo
    THEN [ch EXCEPT !.has_pending_lo = FALSE,
                    !.played = Append(@, <<ch.pending_lo, "lo">>)]
    ELSE IF ch.dma_word_ready
    THEN [ch EXCEPT !.dma_word_ready = FALSE,
                    !.played = Append(@, <<ch.dma_word, "hi">>)]
    ELSE ch

take_sample(ch) ==
    IF ch.data_pending THEN [ch EXCEPT !.data_pending = FALSE]
    ELSE IF ch.has_pending_lo
    THEN [ch EXCEPT !.has_pending_lo = FALSE,
                    !.played = Append(@, <<ch.pending_lo, "lo">>)]
    ELSE IF ch.dma_word_ready
    THEN [ch EXCEPT !.dma_word_ready = FALSE,
                    !.pending_lo = ch.dma_word, !.has_pending_lo = TRUE,
                    !.played = Append(@, <<ch.dma_word, "hi">>)]
    ELSE ch

(* A channel without DMA and without a written byte stands still; a period *)
(* of 0 counts as 1.                                                       *)
runs(ch, on) == on \/ ch.data_pending

period(ch) == IF ch.audper = 0 THEN 1 ELSE ch.audper

counter(ch) == IF ch.period_counter = 0 THEN period(ch) ELSE ch.period_counter

(* Periods that run out within n clocks.                                   *)
elapsed(ch, on, n) ==
    IF ~runs(ch, on) \/ n < counter(ch) THEN 0
    ELSE 1 + (n - counter(ch)) \div period(ch)

(* Mutant: what is left of the step after the last period is dropped.      *)
left_over_Dropped(ch, n) == IF n < counter(ch) THEN counter(ch) - n ELSE period(ch)

(* The counter after n clocks of a channel that runs.                      *)
left_over(ch, n) ==
    IF n < counter(ch) THEN counter(ch) - n
    ELSE period(ch) - ((n - counter(ch)) % period(ch))

(* The channel after a number of periods.                                  *)
taken(ch, times) ==
    LET after[k \in 0..times] == IF k = 0 THEN ch ELSE take_sample(after[k - 1])
    IN after[times]

step_channel(ch, on, n) ==
    IF ~runs(ch, on) THEN ch
    ELSE [taken(ch, elapsed(ch, on, n)) EXCEPT
            !.audper = period(ch), !.period_counter = left_over(ch, n)]

On(c) == c \in auden

-----------------------------------------------------------------------------
(* audio_dma_step_slot                                                     *)

(* rigel_chipset_wire connects the interrupt sinks of the disk and of the  *)
(* serial port, and no code calls audio_set_irq_sink: irq.raise is NULL.   *)
irq_sink_connected == FALSE

wants_word(ch) == ~ch.dma_word_ready /\ (ch.current_length # 0 \/ ch.audlen # 0)

(* The pointer and the length are loaded when the counter is 0.            *)
reload(ch) ==
    IF ch.current_length = 0
    THEN [ch EXCEPT !.current_ptr = ch.audlc, !.current_length = ch.audlen]
    ELSE ch

fetch(ch) ==
    LET r == reload(ch)
    IN [r EXCEPT !.dma_word = r.current_ptr, !.dma_word_ready = TRUE,
                 !.current_ptr = @ + 1, !.current_length = @ - 1,
                 !.fetched = Append(@, r.current_ptr)]

dma_step_slot(ch, on) == IF on /\ wants_word(ch) THEN fetch(ch) ELSE ch

(* rigel_chipset_step on one channel: Agnus runs through all the clocks of *)
(* the step, with the channel's slot among them or not, before audio_step  *)
(* sees any.  A word that waits to be played stops the next fetch, so more *)
(* slots in the same step do nothing.                                      *)
chipset_step(ch, on, slot, n) ==
    step_channel(IF slot THEN dma_step_slot(ch, on) ELSE ch, on, n)

(* rigel_step of n clocks, in which the slots of S come up; sample_ready   *)
(* is reported as RIGEL_EVENT_AUDIO_READY and cleared before it returns.   *)
AudioStep(n, S) ==
    LET fetching == {c \in S : On(c) /\ wants_word(aud[c])}
        over == {c \in fetching : fetch(aud[c]).current_length = 0}
    IN /\ \A c \in fetching : Len(aud[c].fetched) < MaxFetches
       /\ aud' = [c \in Channels |-> chipset_step(aud[c], On(c), c \in S, n)]
       /\ ready' = (\E c \in Channels : elapsed(aud[c], On(c), n) > 0)
       /\ audreq' = IF irq_sink_connected THEN audreq \cup over ELSE audreq
       /\ ended' = ended \cup over
       /\ UNCHANGED <<auden, audWrites>>

-----------------------------------------------------------------------------
(* Register writes.                                                        *)

(* AUDxLEN also loads the running counter when that counter is 0.          *)
write_len(ch, v) ==
    [ch EXCEPT !.audlen = v,
               !.current_length = IF @ = 0 THEN v ELSE @]

AudWrite(c, ch) ==
    /\ audWrites < MaxAudWrites
    /\ audWrites' = audWrites + 1
    /\ aud' = [aud EXCEPT ![c] = ch]
    /\ UNCHANGED <<auden, ready, audreq, ended>>

WriteLc(c, v)  == AudWrite(c, [aud[c] EXCEPT !.audlc = v])
WriteLen(c, v) == AudWrite(c, write_len(aud[c], v))
WritePer(c, v) == AudWrite(c, [aud[c] EXCEPT !.audper = IF v = 0 THEN 1 ELSE v])
WriteDat(c)    == AudWrite(c, [aud[c] EXCEPT !.data_pending = TRUE])

SetDmacon(S) ==
    /\ audWrites < MaxAudWrites
    /\ audWrites' = audWrites + 1
    /\ S # auden /\ auden' = S
    /\ UNCHANGED <<aud, ready, audreq, ended>>

(* The guest acknowledges the end of a buffer.                             *)
AckBuffer(c) ==
    /\ c \in ended
    /\ ended' = ended \ {c}
    /\ audreq' = audreq \ {c}
    /\ UNCHANGED <<aud, auden, ready, audWrites>>

(* audio_cycles_to_next_event: NoEvent stands for 0xFFFFFFFF.              *)
NoEvent == MaxAudStep + 1

candidates(S) ==
    {counter(aud[c]) : c \in {x \in Channels :
        x \in S \/ aud[x].has_pending_lo \/ aud[x].dma_word_ready}}

least(S) == CHOOSE m \in S : \A x \in S : m <= x

cycles_to_next_event ==
    least(candidates(auden \cup {c \in Channels : aud[c].data_pending})
            \cup {NoEvent})

AudioNext ==
    \/ \E n \in 1..MaxAudStep, S \in SUBSET Channels : AudioStep(n, S)
    \/ \E c \in Channels :
        \/ WriteDat(c) \/ AckBuffer(c)
        \/ \E v \in Addresses : WriteLc(c, v)
        \/ \E v \in AudLengths : WriteLen(c, v)
        \/ \E v \in Periods : WritePer(c, v)
    \/ \E S \in SUBSET Channels : SetDmacon(S)

-----------------------------------------------------------------------------
(* The bytes a sequence of fetched words holds.                            *)
Bytes(s) == [i \in 1..(2 * Len(s)) |->
                <<s[(i + 1) \div 2], IF i % 2 = 1 THEN "hi" ELSE "lo">>]

Held(ch) ==
    (IF ch.has_pending_lo THEN <<<<ch.pending_lo, "lo">>>> ELSE <<>>) \o
    (IF ch.dma_word_ready THEN <<<<ch.dma_word, "hi">>, <<ch.dma_word, "lo">>>> ELSE <<>>)

(* Every byte that DMA fetched is played once and in order, however bytes  *)
(* written to AUDxDAT, gated DMA and reloads fall in between: what was     *)
(* played followed by what the channel holds is what was fetched.          *)
PlaysWhatItFetched ==
    \A c \in Channels : aud[c].played \o Held(aud[c]) = Bytes(aud[c].fetched)

(* While a channel has DMA, one audio_step of n clocks and n of one clock  *)
(* leave it in the same state, as long as no slot of the channel falls     *)
(* between them: the batch loses no clock and no sample, over any number   *)
(* of periods.                                                             *)
AudioBatchEqualsTicks ==
    \A c \in auden : \A n \in 1..MaxAudStep :
        LET ticks[k \in 0..n] == IF k = 0 THEN aud[c]
                                 ELSE step_channel(ticks[k - 1], TRUE, 1)
        IN step_channel(aud[c], TRUE, n) = ticks[n]

(* Up to the deadline that the host is offered, how it cuts time is not    *)
(* audible: one rigel_step of n clocks fetches and plays what two steps    *)
(* of m and n - m clocks do, in whichever of the two the channel's slot    *)
(* comes up.  (A longer step is audible: it plays at most the byte left    *)
(* over and one word, where shorter steps would have fetched on.)          *)
CutsInaudible ==
    \A c \in Channels : \A n \in 1..MaxAudStep : n <= cycles_to_next_event =>
        \A m \in 1..(n - 1), first \in BOOLEAN, second \in BOOLEAN :
            chipset_step(chipset_step(aud[c], On(c), first, m), On(c), second, n - m)
                = chipset_step(aud[c], On(c), first \/ second, n)

(* No sample of any channel falls due before the deadline that the host is  *)
(* offered, so a host that steps from deadline to deadline hears them all. *)
AudioDeadlineSafe ==
    \A c \in Channels : \A n \in 1..MaxAudStep :
        elapsed(aud[c], On(c), n) > 0 => n >= cycles_to_next_event

(* The end of a buffer is requested as AUDx (docs/irq_model.md: "fired by  *)
(* each audio channel when its DMA buffer is exhausted").                  *)
BufferEndRequested == ended \subseteq audreq

AudioSpec == AudioInit /\ [][AudioNext]_audioVars

(* The channels are well formed and play every byte that was fetched for   *)
(* them once and in order.                                                 *)
ChannelExact == AudioTypeOK /\ PlaysWhatItFetched

(* audio_step loses no time, and a host that never steps beyond the        *)
(* deadline it is offered may cut its steps as it likes.                   *)
AudioTimeExact == AudioBatchEqualsTicks /\ CutsInaudible /\ AudioDeadlineSafe
=============================================================================
