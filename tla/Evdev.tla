-------------------------------- MODULE Evdev --------------------------------
(***************************************************************************)
(* What an open evdev device gives its reader (native/src/evdev_input.rs   *)
(* over the kernel): a bounded queue of events and a snapshot of the held  *)
(* buttons.  A full queue is emptied and holds SYN_DROPPED instead; the    *)
(* packet that overflowed it is followed by its SYN_REPORT as usual.  The  *)
(* snapshot is of the present, not of the moment the queue has got to, and *)
(* taking it removes the key events that are still queued.                 *)
(***************************************************************************)
EXTENDS Integers, Sequences, SequencesExt

Dropped == [type |-> "SYN_DROPPED"]
Report  == [type |-> "SYN_REPORT"]
Key(b, value) == [type |-> "EV_KEY", code |-> b, value |-> value]

\* A packet enters the queue of a reader.
Post(queue, packet, capacity) ==
  IF Len(queue) + Len(packet) <= capacity THEN queue \o packet ELSE <<Dropped, Report>>

IsKey(e) == e.type = "EV_KEY"
AfterSnapshot(queue) ==
  FoldLeft(LAMBDA left, e : IF IsKey(e) THEN left ELSE Append(left, e), <<>>, queue)
HasKeys(queue) == \E i \in 1..Len(queue) : IsKey(queue[i])

\* What one read returns: the oldest events, a batch at most.
FirstBatch(queue, size) == SubSeq(queue, 1, IF Len(queue) < size THEN Len(queue) ELSE size)
Rest(queue, batch) == SubSeq(queue, Len(batch) + 1, Len(queue))

\* The buttons held after a key event.
Level(held, e) == IF e.value = "Up" THEN held \ {e.code} ELSE held \cup {e.code}

\* What a reader makes of a batch.  (The one-element set has TLC evaluate each
\* intermediate state once.)
ReadAll(Step(_, _), before, batch) ==
  FoldLeft(LAMBDA st, e : CHOOSE r \in {Step(s, e) : s \in {st}} : TRUE, before, batch)
=============================================================================
