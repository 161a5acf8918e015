------------------------------ MODULE AudioRing ------------------------------
(***************************************************************************)
(* The sound of a game (native/src/game_audio.rs): the frame loop puts     *)
(* samples into a ring, a writer thread takes them out and blocks on the   *)
(* device.  Samples are numbered in the order they are made and silence is *)
(* 0; what they sound like is left out.  A step is what one thread does    *)
(* between two lock operations.                                            *)
(***************************************************************************)
EXTENDS Integers, SequencesExt

CONSTANTS
  QUEUE_FRAMES, CUSHION_FRAMES, WRITE_CHUNK_FRAMES,
  SourceRate, OutputRate,
  MaxTaken        \* bound: frames the core delivers

ASSUME AudioAssumption ==
  /\ {QUEUE_FRAMES, WRITE_CHUNK_FRAMES, SourceRate, OutputRate} \subseteq Nat \ {0}
  /\ CUSHION_FRAMES \in 0..QUEUE_FRAMES
  /\ MaxTaken \in Nat

VARIABLES
  shared,         \* Shared
  player,         \* "None", "Open" or "Closing"
  rate_remainder,
  writer,         \* the writer thread: where it is, its output, and whether it triggered the device
  taken, made,    \* frames delivered by the core, samples made of them
  heard,          \* samples the device has heard
  gone            \* samples given up otherwise than by the count the code keeps

audioVars == <<shared, player, rate_remainder, writer, taken, made, heard, gone>>

Least(a, b) == IF a < b THEN a ELSE b
Over(a, b) == IF a > b THEN a - b ELSE 0

-----------------------------------------------------------------------------
(* The ring.                                                               *)

NoShared ==
  [queue |-> <<>>, head |-> 0, size |-> 0, dropped |-> 0, stopping |-> FALSE, worker_failed |-> FALSE]
NoWriter == [pc |-> "None", output |-> <<>>, started |-> FALSE]

At(sh, index) == sh.queue[((sh.head + index) % Len(sh.queue)) + 1]
Contents(sh) == [i \in 1..sh.size |-> At(sh, i - 1)]

\* Where the ring starts, and what is counted, when it is full.
HeadKept(sh, shortfall) == sh.head
HeadMoved(sh, shortfall) == (sh.head + shortfall) % Len(sh.queue)
LongDropped(over, shortfall) == over
Discarded(over, shortfall) == over + shortfall

Put(sh, samples) ==
  LET capacity == Len(sh.queue)
      over == Over(Len(samples), capacity)
      source == SubSeq(samples, over + 1, Len(samples))
      shortfall == Over(Len(source), capacity - sh.size)
      head == HeadMoved(sh, shortfall)
      size == sh.size - shortfall
      tail == (head + size) % capacity
      Slot(i) == ((i - 1 - tail + capacity) % capacity) + 1
  IN [sh EXCEPT !.queue = [i \in 1..capacity |-> IF Slot(i) <= Len(source) THEN source[Slot(i)] ELSE @[i]],
                !.head = head, !.size = size + Len(source), !.dropped = @ + Discarded(over, shortfall)]

enqueueUnnoticed(samples) ==
  /\ shared' = IF shared.queue = <<>> THEN shared ELSE Put(shared, samples)
  /\ UNCHANGED <<writer, gone>>
enqueue(samples) ==
  IF shared.queue = <<>> \/ shared.stopping \/ shared.worker_failed
  THEN /\ gone' = gone + Len(samples)
       /\ UNCHANGED <<shared, writer>>
  ELSE /\ shared' = Put(shared, samples)
       /\ writer' = [writer EXCEPT !.pc = IF @ = "Asleep" THEN "Awake" ELSE @]
       /\ UNCHANGED gone

\* Block-local resampling with the fraction carried over to the next block.
ResampledAfresh(frames) == <<(frames * OutputRate) \div SourceRate, rate_remainder>>
Resampled(frames) ==
  LET scaled == frames * OutputRate + rate_remainder
  IN IF SourceRate = OutputRate THEN <<frames, rate_remainder>>
     ELSE <<scaled \div SourceRate, scaled % SourceRate>>

write_stereo(frames) ==
  IF player # "Open" \/ frames = 0 THEN UNCHANGED audioVars
  ELSE LET output == Resampled(frames) IN
    /\ taken' = taken + frames
    /\ made' = made + output[1]
    /\ rate_remainder' = output[2]
    /\ IF output[1] = 0 THEN UNCHANGED <<shared, writer, gone>>
       ELSE enqueue([i \in 1..output[1] |-> made + i])
    /\ UNCHANGED <<player, heard>>

\* Drop queued game audio when its widget becomes dormant.
discardNothing == UNCHANGED audioVars
discard_pending ==
  /\ gone' = gone + shared.size
  /\ shared' = [shared EXCEPT !.head = 0, !.size = 0]
  /\ UNCHANGED <<player, rate_remainder, writer, taken, made, heard>>

open ==
  \/ UNCHANGED audioVars               \* no volume, or no device
  \/ \E spawned, pending \in BOOLEAN :
       /\ shared' = [NoShared EXCEPT !.queue = [i \in 1..QUEUE_FRAMES |-> 0], !.size = CUSHION_FRAMES]
       /\ player' = IF spawned THEN "Open" ELSE "None"
       /\ writer' = IF spawned THEN [NoWriter EXCEPT !.pc = "Awake", !.started = ~pending] ELSE NoWriter
       /\ rate_remainder' = 0
       /\ UNCHANGED <<taken, made, heard, gone>>

BeginCloseUnnoticed ==
  /\ player' = IF player = "Open" THEN "Closing" ELSE player
  /\ shared' = IF player = "Open" THEN [shared EXCEPT !.stopping = TRUE] ELSE shared
  /\ UNCHANGED <<rate_remainder, writer, taken, made, heard, gone>>
BeginClose ==
  /\ player' = IF player = "Open" THEN "Closing" ELSE player
  /\ shared' = IF player = "Open" THEN [shared EXCEPT !.stopping = TRUE] ELSE shared
  /\ writer' = [writer EXCEPT !.pc = IF @ = "Asleep" THEN "Awake" ELSE @]
  /\ UNCHANGED <<rate_remainder, taken, made, heard, gone>>

Joined == player = "None" \/ writer.pc = "Done"

EndClose ==
  /\ Joined
  /\ gone' = IF player = "Closing" THEN gone + shared.size ELSE gone
  /\ shared' = IF player = "Closing" THEN [shared EXCEPT !.queue = <<>>, !.head = 0, !.size = 0] ELSE shared
  /\ player' = "None"
  /\ writer' = NoWriter
  /\ UNCHANGED <<rate_remainder, taken, made, heard>>

-----------------------------------------------------------------------------
(* writer_thread.                                                          *)

Look ==
  /\ writer.pc = "Awake"
  /\ IF shared.stopping THEN
       /\ writer' = [writer EXCEPT !.pc = "Done"]
       /\ UNCHANGED shared
     ELSE IF shared.size = 0 THEN
       /\ writer' = [writer EXCEPT !.pc = "Asleep"]
       /\ UNCHANGED shared
     ELSE LET count == Least(shared.size, WRITE_CHUNK_FRAMES) IN
       /\ writer' = [writer EXCEPT !.pc = "Writing", !.output = SubSeq(Contents(shared), 1, count)]
       /\ shared' = [shared EXCEPT !.head = (@ + count) % Len(shared.queue), !.size = @ - count]
  /\ UNCHANGED <<player, rate_remainder, taken, made, heard, gone>>

\* The device takes the samples in hand.
Write ==
  /\ writer.pc = "Writing"
  /\ heard' = heard + Len(writer.output)
  /\ writer' = [pc |-> "Awake", output |-> <<>>, started |-> TRUE]
  /\ UNCHANGED <<shared, player, rate_remainder, taken, made, gone>>

\* It does not start, and what waits is left in the ring ...
TriggerFails ==
  /\ writer.pc = "Writing" /\ ~writer.started
  /\ shared' = [shared EXCEPT !.worker_failed = TRUE]
  /\ writer' = [writer EXCEPT !.pc = "Done", !.output = <<>>]
  /\ gone' = gone + Len(writer.output)
  /\ UNCHANGED <<player, rate_remainder, taken, made, heard>>

\* ... or breaks under some of the samples, and what waits is given up.
WriteFails ==
  /\ writer.pc = "Writing"
  /\ \E n \in 0..Len(writer.output) :
       /\ heard' = heard + n
       /\ gone' = gone + Len(writer.output) - n + shared.size
  /\ shared' = [shared EXCEPT !.worker_failed = TRUE, !.size = 0]
  /\ writer' = [pc |-> "Done", output |-> <<>>, started |-> TRUE]
  /\ UNCHANGED <<player, rate_remainder, taken, made>>

AudioInit ==
  /\ shared = NoShared /\ player = "None" /\ rate_remainder = 0 /\ writer = NoWriter
  /\ taken = 0 /\ made = 0 /\ heard = 0 /\ gone = 0

-----------------------------------------------------------------------------
(* Properties.                                                             *)

AudioTyped ==
  /\ Len(shared.queue) \in {0, QUEUE_FRAMES}
  /\ shared.head \in 0..(QUEUE_FRAMES - 1) /\ shared.size \in 0..QUEUE_FRAMES
  /\ player \in {"None", "Open", "Closing"}
  /\ rate_remainder \in 0..(SourceRate - 1)
  /\ writer.pc \in {"None", "Awake", "Asleep", "Writing", "Done"}
  /\ writer.pc = "Writing" <=> writer.output # <<>>

(* Every sample made, and the silence before the first, is heard, in hand, *)
(* queued, given up with the widget or the device, or counted as dropped:  *)
(* none twice, none silently lost (enqueue, writer_thread).                *)
Accounted ==
  shared.queue # <<>> =>
    made + CUSHION_FRAMES = heard + Len(writer.output) + shared.size + shared.dropped + gone

(* The resampler neither gains nor loses time, however the core cuts its   *)
(* sound into blocks: the fraction of a frame is carried (write_stereo).   *)
RateKept ==
  SourceRate # OutputRate => made * SourceRate + rate_remainder = taken * OutputRate

(* The ring, its lock and its writer are a queue that forgets its oldest   *)
(* samples.                                                                *)
Channel == INSTANCE AudioChannel WITH
  Capacity <- QUEUE_FRAMES, Cushion <- CUSHION_FRAMES,
  waiting <- Contents(shared), inhand <- writer.output, lost <- shared.dropped

(* Refinement: samples reach the device in the order they were made, and   *)
(* a full ring gives up the oldest (enqueue, writer_thread, discard).      *)
QueuesSound == Channel!Spec
=============================================================================
