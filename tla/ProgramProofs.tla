---------------------------- MODULE ProgramProofs ----------------------------
(***************************************************************************)
(* Proofs about a program of the deck from both sides: about the chiptune  *)
(* player (Chiptune), for any files, tracks, queue and volumes, and about  *)
(* the supervisor that runs such a program (ChildSupervisor), for every    *)
(* group of processes, hold, grace and retry interval.  PlayerInv and IInv *)
(* are their inductive invariants.                                         *)
(***************************************************************************)
EXTENDS Chiptune, ChildSupervisor, SequenceTheorems, NaturalsInduction, WellFoundedInduction, TLAPS

-----------------------------------------------------------------------------
(* Numbers that go round.                                                  *)

\* A set of natural numbers that is not empty has a least member.
LEMMA LeastNat ==
  ASSUME NEW S \in SUBSET Nat, S # {} PROVE \E n \in S : \A m \in S : n <= m
<1>1. IsWellFoundedOn(OpToRel(<, Nat), Nat)
  BY NatLessThanWellFounded
<1>2. PICK x \in S :  \A y \in S : ~(<<y, x>> \in OpToRel(<, Nat))
  BY <1>1, WFMin
<1>3. ASSUME NEW y \in S PROVE x <= y
  <2>1. ~(<<y, x>> \in {ss \in Nat \X Nat : ss[1] < ss[2]})
    BY <1>2 DEF OpToRel
  <2>2. <<y, x>> \in Nat \X Nat
    OBVIOUS
  <2>3. ~(<<y, x>>[1] < <<y, x>>[2])
    BY <2>1, <2>2
  <2> QED BY <2>3
<1> QED BY <1>3

\* A remainder is one of the numbers below the divisor, and the number itself
\* where that is smaller.
LEMMA Remains ==
  ASSUME NEW a \in Int, NEW d \in Nat \ {0}
  PROVE  a % d \in 0..(d - 1)
OBVIOUS

\* A number below twice the divisor goes round at most once.
LEMMA RoundOnce ==
  ASSUME NEW a \in Nat, NEW d \in Nat \ {0}, a < 2 * d
  PROVE  a % d = IF a < d THEN a ELSE a - d
OBVIOUS

\* The numbers that blocks have.
Blocks == 0..(Numbers - 1)

\* The number after a number, and back.
LEMMA RoundNumbers ==
  ASSUME NEW n \in Blocks
  PROVE  Next_number(n) \in Blocks /\ Before(Next_number(n)) = n
<1>1. Numbers \in Nat /\ Numbers >= 3
  BY ChiptuneAssumption DEF Numbers
<1> DEFINE K == Numbers
<1>2. K \in Nat /\ K >= 3 /\ n \in 0..(K - 1)
  BY <1>1 DEF Blocks
<1> HIDE DEF K
<1>3. (n + 1) % K = IF n + 1 < K THEN n + 1 ELSE n + 1 - K
  <2> DEFINE m == n + 1
  <2>1. m \in Nat /\ m < 2 * K /\ K \in Nat \ {0}
    BY <1>2
  <2> HIDE DEF m
  <2>2. m % K = IF m < K THEN m ELSE m - K
    BY ONLY <2>1, RoundOnce
  <2> QED BY <1>2, <2>2 DEF m
<1>4. CASE n + 1 < K
  <2>1. (n + 1 + K - 1) % K = n
    BY <1>2, RoundOnce
  <2> QED BY <1>2, <1>3, <1>4, <2>1 DEF Next_number, Before, Blocks, K
<1>5. CASE n + 1 = K
  <2>1. (K - 1) % K = K - 1
    <3>1. K - 1 \in Nat /\ K - 1 < 2 * K /\ K \in Nat \ {0} /\ K - 1 < K
      BY <1>2
    <3> QED BY <3>1, RoundOnce
  <2> QED BY <1>2, <1>3, <1>5, <2>1 DEF Next_number, Before, Blocks, K
<1> QED BY <1>2, <1>4, <1>5

-----------------------------------------------------------------------------
(* The states of the player.                                               *)

\* The files found, and what PlayerState can be.
Files == 1..FileCount
States ==
  [open : BOOLEAN, file_index : Files, track : Nat, mode : {"LoopAll", "LoopOne", "Shuffle"},
   paused : BOOLEAN, pending : {None} \cup Blocks, pending_end : BOOLEAN]

\* What plays is a track that the file has.
Players == {st \in States : st.open => st.track \in 1..Tracks[st.file_index]}

\* The block that waits is still the same, or is given up with its track.
Keeps(st, next) == next \in Players /\ next.pending \in {None, st.pending}

\* None is no block, and no number at all.
LEMMA NoneIs == None = -1 /\ None \notin Blocks /\ None \notin Nat
<1>1. Numbers \in Nat
  BY ChiptuneAssumption DEF Numbers
<1> QED BY <1>1 DEF None, Blocks

\* note_metadata gives up the block that waits, and leaves the file open.
LEMMA Noted ==
  ASSUME NEW st \in Players PROVE Keeps(st, note_metadata(st)) /\ note_metadata(st).file_index = st.file_index
         /\ note_metadata(st).open = st.open
BY NoneIs DEF Keeps, Players, States, note_metadata

\* open_index plays the first track of a file that opens, or changes nothing.
LEMMA Indexed ==
  ASSUME NEW st \in Players, NEW f \in Files
  PROVE  Keeps(st, open_index(st, f))
<1>1. CASE Opens(f)
  <2> DEFINE q == [st EXCEPT !.open = TRUE, !.file_index = f, !.track = 1]
  <2>1. Tracks[f] \in Nat /\ Tracks[f] > 0
    BY <1>1, ChiptuneAssumption DEF Opens, Files
  <2>2. 1 \in 1..Tracks[f] /\ 1 \in Nat
    BY <2>1
  <2>3. q \in Players /\ q.pending = st.pending
    BY <2>2 DEF Players, States
  <2> HIDE DEF q
  <2>4. Keeps(q, note_metadata(q))
    BY <2>3, Noted
  <2>5. open_index(st, f) = note_metadata(q)
    BY <1>1 DEF open_index, q
  <2> QED BY <2>3, <2>4, <2>5 DEF Keeps
<1>2. CASE ~Opens(f)
  BY <1>2 DEF open_index, Keeps
<1> QED BY <1>1, <1>2

\* The first file that opens is one of the list.
LEMMA FirstOpens ==
  ASSUME NEW D \in SUBSET Nat, NEW files \in [D -> Files], 0 \notin D
  PROVE  FirstThat(files) # 0 => FirstThat(files) \in D /\ files[FirstThat(files)] \in Files
<1> DEFINE good == {i \in D : Opens(files[i])}
<1>1. FirstThat(files) = IF good = {} THEN 0 ELSE CHOOSE i \in good : \A j \in good : i <= j
  BY DEF FirstThat
<1>2. CASE good # {}
  <2>1. \E i \in good : \A j \in good : i <= j
    BY <1>2, LeastNat
  <2>2. FirstThat(files) \in good
    BY <1>1, <1>2, <2>1
  <2> QED BY <2>2
<1> QED BY <1>1, <1>2

\* open_any opens a file of the list, or changes nothing.
LEMMA AnyOpened ==
  ASSUME NEW D \in SUBSET Nat, NEW files \in [D -> Files], 0 \notin D, NEW st \in Players
  PROVE  Keeps(st, open_any(st, files))
<1>1. CASE FirstThat(files) = 0
  BY <1>1 DEF open_any, Keeps
<1>2. CASE FirstThat(files) # 0
  BY <1>2, FirstOpens, Indexed DEF open_any
<1> QED BY <1>1, <1>2

\* Whatever a number is, wrapped round it is a file.
LEMMA Wrapped == ASSUME NEW f \in Int PROVE Wrap(f) \in Files
<1>1. FileCount \in Nat \ {0}
  BY ChiptuneAssumption
<1>2. (f - 1) % FileCount \in 0..(FileCount - 1)
  BY <1>1, Remains
<1> DEFINE r == (f - 1) % FileCount
<1> HIDE DEF r
<1>3. r + 1 \in 1..FileCount
  BY <1>1, <1>2 DEF r
<1> QED BY <1>3 DEF Wrap, Files, r

\* The file before or after is opened, past those that do not open.
LEMMA Navigated ==
  ASSUME NEW st \in Players, NEW direction \in {-1, 1}
  PROVE  Keeps(st, navigate(st, direction))
<1> DEFINE files == file_candidates(st.file_index, direction)
<1>1. FileCount \in Nat /\ st.file_index \in Int
  BY ChiptuneAssumption DEF Players, States, Files
<1>2. files \in [1..FileCount -> Files]
  BY <1>1, Wrapped DEF file_candidates
<1>3. 1..FileCount \in SUBSET Nat /\ 0 \notin 1..FileCount
  BY <1>1
<1> HIDE DEF files
<1>4. Keeps(st, open_any(st, files))
  BY <1>2, <1>3, AnyOpened
<1> QED BY <1>4 DEF navigate, files

\* start_track plays the track it is given.
LEMMA Started ==
  ASSUME NEW st \in Players, NEW t \in Nat, st.open => t \in 1..Tracks[st.file_index]
  PROVE  Keeps(st, start_track(st, t))
<1> DEFINE q == [st EXCEPT !.track = t]
<1>1. q \in Players /\ q.pending = st.pending
  BY DEF Players, States
<1> HIDE DEF q
<1> QED BY <1>1, Noted DEF start_track, Keeps, q

\* A file that fails to play is closed, and its block given up.
LEMMA Failed ==
  ASSUME NEW st \in Players
  PROVE  Keeps(st, fail_playback(st)) /\ fail_playback(st).pending = None
BY NoneIs DEF fail_playback, Keeps, Players, States

\* A shuffle plays a track that the file it opens has, or none.
LEMMA ShuffledKeeps ==
  ASSUME NEW st \in Players, NEW offset \in Nat, NEW next \in Shuffled(st, offset)
  PROVE  Keeps(st, next)
<1> DEFINE files == shuffle_candidates(st.file_index, offset)
           D == {a \in 1..FileCount : FileCount = 1 \/ Wrap(st.file_index + offset + a - 1) # st.file_index}
           opened == IF FirstThat(files) # 0 THEN open_any(st, files) ELSE open_index(st, st.file_index)
<1>1. FileCount \in Nat /\ st.file_index \in Files /\ st.file_index \in Int
  BY ChiptuneAssumption DEF Players, States, Files
<1>2. files \in [D -> Files] /\ D \in SUBSET Nat /\ 0 \notin D
  BY <1>1, Wrapped DEF shuffle_candidates
<1> HIDE DEF files, D
<1>3. Keeps(st, opened)
  BY <1>1, <1>2, AnyOpened, Indexed
<1>4. next \in IF Tracks[opened.file_index] > 1
               THEN {start_track(opened, t) : t \in 1..Tracks[opened.file_index]} \cup {fail_playback(opened)}
               ELSE {opened}
  BY DEF Shuffled, files
<1> HIDE DEF opened
<1>5. Tracks[opened.file_index] \in Nat /\ opened \in Players
  BY <1>3, ChiptuneAssumption DEF Keeps, Players, States, Files
<1>6. \A t \in 1..Tracks[opened.file_index] : Keeps(opened, start_track(opened, t))
  BY <1>5, Started
<1>7. Keeps(opened, fail_playback(opened))
  BY <1>5, Failed
<1> QED BY <1>3, <1>4, <1>6, <1>7 DEF Keeps

\* Whatever follows a track that ends, it plays a track that its file has.
LEMMA AdvanceKeeps ==
  ASSUME NEW st \in Players, st.open, NEW next \in advance(st)
  PROVE  Keeps(st, next)
<1>1. CASE next = fail_playback(st)
  BY <1>1, Failed
<1>2. CASE next = st
  BY <1>2 DEF Keeps
<1>3. CASE next = navigate(st, 1)
  BY <1>3, Navigated
<1>4. CASE st.track < Tracks[st.file_index] /\ next = start_track(st, st.track + 1)
  <2>1. st.track \in 1..Tracks[st.file_index] /\ Tracks[st.file_index] \in Nat
    BY ChiptuneAssumption DEF Players, States, Files
  <2>2. st.track + 1 \in 1..Tracks[st.file_index] /\ st.track + 1 \in Nat
    BY <1>4, <2>1
  <2> QED BY <1>4, <2>2, Started
<1>5. ASSUME NEW o \in IF FileCount > 1 THEN 1..(FileCount - 1) ELSE {0}, next \in Shuffled(st, o)
      PROVE  Keeps(st, next)
  <2>1. o \in Nat
    BY ChiptuneAssumption
  <2> QED BY <1>5, <2>1, ShuffledKeeps
<1> QED BY <1>1, <1>2, <1>3, <1>4, <1>5 DEF advance, Players, States

-----------------------------------------------------------------------------
(* What commands make of the session.                                      *)

\* A turn's commands leave a player, and mark for drawing what they change.
Follows(s) ==
  /\ s \in [state : Players, dirty : BOOLEAN]
  /\ Keeps(state, s.state)
  /\ ~s.dirty => ~dirty /\ s.state = state

\* A command for the file before or after.
LEMMA MovedFollows ==
  ASSUME NEW s, Follows(s), NEW direction \in {-1, 1}
  PROVE  Follows(Moved(s, direction))
<1>1. Keeps(s.state, navigate(s.state, direction))
  BY Navigated DEF Follows
<1> DEFINE q == [state |-> navigate(s.state, direction), dirty |-> TRUE]
<1>2. q.dirty = TRUE /\ q.state = navigate(s.state, direction) /\ q.state \in Players
      /\ q.state.pending \in {None, s.state.pending}
  BY <1>1 DEF Keeps
<1>3. Moved(s, direction) = q \/ Moved(s, direction) = s
  BY DEF Moved
<1>4. q \in [state : Players, dirty : BOOLEAN]
  BY <1>2
<1> HIDE DEF q
<1>5. Follows(q)
  BY <1>2, <1>4 DEF Follows, Keeps
<1> QED BY <1>3, <1>5

\* A command for the track before or after, which goes round in the file.
LEMMA SwitchedFollows ==
  ASSUME NEW s, Follows(s), NEW direction \in {-1, 1}, NEW next \in switch_track(s, direction)
  PROVE  Follows(next)
<1> DEFINE st == s.state
           count == Tracks[st.file_index]
           t == ((st.track - 1 + direction + count) % count) + 1
<1>0. st \in Players
  BY DEF Follows
<1>1. next = s \/ (st.open /\ next = [state |-> start_track(st, t), dirty |-> TRUE])
  BY DEF switch_track
<1>2. CASE st.open /\ next = [state |-> start_track(st, t), dirty |-> TRUE]
  <2>1. st.track \in 1..count /\ count \in Nat \ {0}
    BY <1>0, <1>2, ChiptuneAssumption DEF Players, States, Files
  <2>2. (st.track - 1 + direction + count) % count \in 0..(count - 1)
    <3> DEFINE a == st.track - 1 + direction + count
    <3>1. a \in Int
      BY <2>1
    <3> HIDE DEF a
    <3>2. a % count \in 0..(count - 1)
      BY <2>1, <3>1, Remains
    <3> QED BY <3>2 DEF a
  <2> DEFINE m == (st.track - 1 + direction + count) % count
  <2> HIDE DEF m
  <2>3. m + 1 \in 1..count /\ m + 1 \in Nat
    BY <2>1, <2>2 DEF m
  <2>4. t \in 1..count /\ t \in Nat
    BY <2>3 DEF m
  <2> HIDE DEF t
  <2>5. Keeps(st, start_track(st, t))
    BY <1>0, <2>4, Started
  <2>6. next.dirty = TRUE /\ next.state = start_track(st, t) /\ next \in [state : Players, dirty : BOOLEAN]
    BY <1>2, <2>5 DEF Keeps
  <2> QED BY <2>5, <2>6 DEF Follows, Keeps
<1> QED BY <1>1, <1>2

\* The commands for pause and mode.
LEMMA PressedFollows ==
  ASSUME NEW s, Follows(s), NEW batch
  PROVE  Follows(Pressed(s, batch))
<1> DEFINE st == s.state
           paused == IF "Pause" \in batch THEN ~st.paused ELSE st.paused
           mode == IF "Mode" \in batch THEN NextMode(st.mode) ELSE st.mode
           q == [st EXCEPT !.paused = paused, !.mode = mode]
           d == s.dirty \/ (batch \cap {"Pause", "Mode"} # {})
<1>1. st \in Players /\ s \in [state : Players, dirty : BOOLEAN]
  BY DEF Follows
<1>2. paused \in BOOLEAN /\ mode \in {"LoopAll", "LoopOne", "Shuffle"} /\ d \in BOOLEAN
  BY <1>1 DEF Players, States, NextMode
<1>3. Pressed(s, batch) = [state |-> q, dirty |-> d]
  <2> DEFINE u == PressedUnseen(s, batch)
  <2>1. u = [s EXCEPT !.state = q]
    BY <1>1 DEF PressedUnseen, Players, States
  <2>2. u = [state |-> q, dirty |-> s.dirty]
    BY <1>1, <2>1
  <2>3. Pressed(s, batch) = [u EXCEPT !.dirty = @ \/ (batch \cap {"Pause", "Mode"} # {})]
    BY DEF Pressed
  <2> HIDE DEF u, q
  <2> QED BY <2>2, <2>3
<1>4. ~d => q = st
  <2>1. ~d => paused = st.paused /\ mode = st.mode
    OBVIOUS
  <2> HIDE DEF paused, mode
  <2> QED BY <1>1, <2>1 DEF Players, States
<1> HIDE DEF paused, mode, d
<1>5. q \in Players /\ q.pending = st.pending
  BY <1>1, <1>2 DEF Players, States
<1> HIDE DEF q
<1>6. ~d => ~s.dirty
  BY DEF d
<1> QED BY <1>2, <1>3, <1>4, <1>5, <1>6 DEF Follows, Keeps

\* All commands of a turn, in the order in which apply reads them.
LEMMA AppliedFollows ==
  ASSUME state \in Players, dirty \in BOOLEAN, NEW batch, NEW s \in Applied(batch)
  PROVE  Follows(s)
<1> DEFINE start == [state |-> state, dirty |-> dirty]
           back == IF "PreviousFile" \in batch THEN Moved(start, -1) ELSE start
           on == IF "NextFile" \in batch THEN Moved(back, 1) ELSE back
           earlier == IF "PreviousTrack" \in batch THEN switch_track(on, -1) ELSE {on}
           later == IF "NextTrack" \in batch THEN UNION {switch_track(x, 1) : x \in earlier} ELSE earlier
<1>1. Follows(start)
  BY DEF Follows, Keeps
<1> HIDE DEF start
<1>2. Follows(back)
  BY <1>1, MovedFollows
<1> HIDE DEF back
<1>3. Follows(on)
  BY <1>2, MovedFollows
<1> HIDE DEF on
<1>4. \A x \in earlier : Follows(x)
  BY <1>3, SwitchedFollows
<1> HIDE DEF earlier
<1>5. \A x \in later : Follows(x)
  BY <1>4, SwitchedFollows
<1>6. Applied(batch) = {Pressed(x, batch) : x \in later}
  BY DEF Applied, start, back, on, earlier
<1> HIDE DEF later
<1> QED BY <1>5, <1>6, PressedFollows

-----------------------------------------------------------------------------
(* The invariant.                                                          *)

\* Every variable is of its kind, and a player plays a track of its file.
Typed ==
  /\ scope \in Scopes /\ place \in {"Generate", "Draw", "Commands", "Join", "Leaving", "Ended"}
  /\ then \in [volume : None..Loudest, leave : BOOLEAN]
  /\ state \in Players
  /\ audio_owned \in BOOLEAN /\ dirty \in BOOLEAN /\ advanced \in BOOLEAN
  /\ sending \in BOOLEAN /\ stopping \in BOOLEAN /\ shutdown \in BOOLEAN
  /\ volume \in 0..Loudest /\ saved \in 0..Loudest /\ shown.volume \in 0..Loudest
  /\ ahead \in -1..MaxAhead
  /\ stream \in {"None", "Muted", "Open"}
  /\ channel \in Seq(Blocks) /\ Len(channel) <= CHIPTUNE_QUEUE_BLOCKS
  /\ worker \in [pc : {"None", "Receiving", "Writing", "Done"}, block : {None} \cup Blocks]
  /\ worker.pc = "Writing" => worker.block \in Blocks
  /\ late \in 0..1 /\ number \in Blocks

\* The stream is open exactly while the session sends, and so is there a worker.
Workers == worker.pc # "None" => stream = "Open"
Owned == (stream = "Open" <=> Sends) /\ Workers

\* A stream that was told to stop plays at most the block in hand.
Closing ==
  /\ stopping => stream = "Open"
  /\ late = 1 => stopping /\ worker.pc # "Writing"

\* The blocks of the channel follow each other, next follows them, and they
\* follow the block w that is being written.
Lined(w, blocks, next) ==
  /\ \A i \in 1..(Len(blocks) - 1) : blocks[i + 1] = Next_number(blocks[i])
  /\ blocks # <<>> => next = Next_number(blocks[Len(blocks)])
  /\ w # None => (IF blocks = <<>> THEN next ELSE blocks[1]) = Next_number(w)

\* The block in hand, and the one that comes after those sent.
Held == IF worker.pc = "Writing" THEN worker.block ELSE None
Following == IF state.pending = None THEN number ELSE state.pending

\* Of all blocks that were decoded none is missing between the device and the
\* next one.
Linked ==
  /\ state.pending # None => number = Next_number(state.pending)
  /\ stream = "Open" /\ worker.pc # "Done" => Lined(Held, channel, Following)

\* The screen is true unless it is marked for drawing or a track has ended.
Drawn ==
  /\ ~dirty /\ ~advanced => shown = Screen
  /\ place = "Commands" => ~dirty

\* The inductive invariant of the player.
PlayerInv == Typed /\ Owned /\ Closing /\ Linked /\ Drawn

-----------------------------------------------------------------------------
(* Steps of the line of blocks.                                            *)

\* The line grows at its end by the block that is next.
LEMMA LineGrows ==
  ASSUME NEW w, NEW blocks \in Seq(Blocks), NEW b \in Blocks, Lined(w, blocks, b)
  PROVE  Lined(w, Append(blocks, b), Next_number(b))
<1> DEFINE n == Len(blocks)
           s == Append(blocks, b)
<1>1. n \in Nat /\ s \in Seq(Blocks) /\ Len(s) = n + 1 /\ s[n + 1] = b
      /\ (\A i \in 1..n : s[i] = blocks[i]) /\ s # <<>> /\ (blocks = <<>> <=> n = 0)
  OBVIOUS
<1> HIDE DEF n, s
<1>2. ASSUME NEW i \in 1..n PROVE s[i + 1] = Next_number(s[i])
  <2>1. CASE i = n
    <3>1. blocks # <<>> /\ b = Next_number(blocks[n])
      BY <1>1, <2>1 DEF Lined, n
    <3> QED BY <1>1, <2>1, <3>1
  <2>2. CASE i # n
    <3>1. i \in 1..(n - 1) /\ i + 1 \in 1..n
      BY <1>1, <2>2
    <3>2. blocks[i + 1] = Next_number(blocks[i])
      BY <3>1 DEF Lined, n
    <3> QED BY <1>1, <3>1, <3>2
  <2> QED BY <2>1, <2>2
<1>3. s[1] = IF blocks = <<>> THEN b ELSE blocks[1]
  <2>1. CASE n = 0
    BY <1>1, <2>1
  <2>2. CASE n # 0
    <3>1. 1 \in 1..n
      BY <1>1, <2>2
    <3> QED BY <1>1, <2>2, <3>1
  <2> QED BY <2>1, <2>2
<1>4. w # None => s[1] = Next_number(w)
  BY <1>3 DEF Lined
<1>5. \A i \in 1..(Len(s) - 1) : s[i + 1] = Next_number(s[i])
  BY <1>1, <1>2
<1>6. Next_number(b) = Next_number(s[Len(s)])
  BY <1>1
<1>7. Lined(w, s, Next_number(b))
  BY <1>1, <1>4, <1>5, <1>6 DEF Lined
<1> QED BY <1>7 DEF s

\* The worker takes the first block off the line.
LEMMA LineMoves ==
  ASSUME NEW blocks \in Seq(Blocks), NEW next, Lined(None, blocks, next), blocks # <<>>
  PROVE  Lined(Head(blocks), Tail(blocks), next) /\ Head(blocks) \in Blocks
<1> DEFINE n == Len(blocks)
           s == Tail(blocks)
<1>1. n \in Nat /\ n >= 1 /\ s \in Seq(Blocks) /\ Len(s) = n - 1
      /\ (\A i \in 1..(n - 1) : s[i] = blocks[i + 1]) /\ (s = <<>> <=> n = 1)
      /\ Head(blocks) = blocks[1] /\ Head(blocks) \in Blocks
  <2>1. n \in Nat /\ n >= 1
    OBVIOUS
  <2>2. s \in Seq(Blocks) /\ Len(s) = n - 1
    BY <2>1
  <2>3. \A i \in 1..(n - 1) : s[i] = blocks[i + 1]
    OBVIOUS
  <2>4. Head(blocks) = blocks[1] /\ 1 \in 1..n
    BY <2>1
  <2>5. Head(blocks) \in Blocks
    BY <2>4
  <2> HIDE DEF n, s
  <2>6. s = <<>> <=> Len(s) = 0
    BY ONLY <2>2, EmptySeq
  <2>7. s = <<>> <=> n = 1
    BY <2>1, <2>2, <2>6
  <2> QED BY <2>1, <2>2, <2>3, <2>4, <2>5, <2>7
<1> HIDE DEF n, s
<1>2. \A i \in 1..(n - 1) : blocks[i + 1] = Next_number(blocks[i])
  BY DEF Lined, n
<1>3. next = Next_number(blocks[n])
  BY DEF Lined, n
<1>4. ASSUME NEW i \in 1..(Len(s) - 1) PROVE s[i + 1] = Next_number(s[i])
  <2>1. i + 1 \in 1..(n - 1) /\ i \in 1..(n - 1)
    BY <1>1
  <2>2. blocks[(i + 1) + 1] = Next_number(blocks[i + 1])
    BY <1>2, <2>1
  <2> QED BY <1>1, <2>1, <2>2
<1>5. s # <<>> => next = Next_number(s[Len(s)])
  <2>1. s # <<>> => n - 1 \in 1..(n - 1) /\ (n - 1) + 1 = n
    BY <1>1
  <2> QED BY <1>1, <1>3, <2>1
<1>6. (IF s = <<>> THEN next ELSE s[1]) = Next_number(blocks[1])
  <2>1. CASE n = 1
    BY <1>1, <1>3, <2>1
  <2>2. CASE n # 1
    <3>1. 1 \in 1..(n - 1)
      BY <1>1, <2>2
    <3>2. blocks[1 + 1] = Next_number(blocks[1]) /\ s[1] = blocks[1 + 1]
      BY <1>1, <1>2, <3>1
    <3> QED BY <1>1, <2>2, <3>2
  <2> QED BY <2>1, <2>2
<1>7. Lined(Head(blocks), s, next)
  BY <1>1, <1>4, <1>5, <1>6 DEF Lined
<1> QED BY <1>1, <1>7 DEF s

\* The device has played the block in hand.
LEMMA LineShortens ==
  ASSUME NEW w, NEW blocks, NEW next, Lined(w, blocks, next)
  PROVE  Lined(None, blocks, next)
BY DEF Lined

\* An empty line.
LEMMA LineEmpty == ASSUME NEW next PROVE Lined(None, <<>>, next)
BY DEF Lined

-----------------------------------------------------------------------------
(* The worker.                                                             *)

\* The worker takes a block, plays it, or ends.
LEMMA WorkerKeeps == ASSUME PlayerInv, Worker PROVE PlayerInv'
<1>1. UNCHANGED <<scope, place, then, state, audio_owned, volume, dirty, saved, shown, advanced,
                  stream, sending, stopping, number, shutdown>>
  BY DEF Worker, sessionVars, screenVars
<1>2. Drawn' /\ Following' = Following
  BY <1>1 DEF PlayerInv, Drawn, Screen, Following
<1>3. <<>> \in Seq(Blocks) /\ Len(<<>>) = 0 /\ 0 <= CHIPTUNE_QUEUE_BLOCKS /\ CHIPTUNE_QUEUE_BLOCKS \in Nat
  BY ChiptuneAssumption
<1>4. ahead \in -1..MaxAhead /\ Sooner \in -1..MaxAhead
  BY ChiptuneAssumption DEF PlayerInv, Typed, Sooner
<1>5. CASE Receive /\ UNCHANGED <<late, ahead>> /\ worker'.pc = "Writing"
  <2>1. /\ worker.pc = "Receiving" /\ channel # <<>> /\ ~stopping
        /\ worker' = [pc |-> "Writing", block |-> Head(channel)] /\ channel' = Tail(channel)
    BY <1>5 DEF Receive, NoWorker
  <2>2. channel \in Seq(Blocks) /\ Len(channel) <= CHIPTUNE_QUEUE_BLOCKS
    BY DEF PlayerInv, Typed
  <2>3. Head(channel) \in Blocks /\ channel' \in Seq(Blocks) /\ Len(channel') <= CHIPTUNE_QUEUE_BLOCKS
    BY <1>3, <2>1, <2>2
  <2>4. stream = "Open" /\ Held = None
    BY <2>1 DEF Held, PlayerInv, Owned, Workers
  <2>5. Lined(Head(channel), Tail(channel), Following)
    BY <2>1, <2>2, <2>4, LineMoves DEF PlayerInv, Linked
  <2>6. Held' = Head(channel)
    BY <2>1 DEF Held
  <2>7. Linked'
    BY <1>1, <1>2, <2>1, <2>5, <2>6 DEF PlayerInv, Linked
  <2>8. worker' \in [pc : {"None", "Receiving", "Writing", "Done"}, block : {None} \cup Blocks]
        /\ worker'.block \in Blocks
    BY <2>1, <2>3
  <2>9. Typed'
    BY <1>1, <1>5, <2>3, <2>8 DEF PlayerInv, Typed
  <2>10. Owned' /\ Closing'
    BY <1>1, <1>5, <2>1, <2>4 DEF PlayerInv, Owned, Closing, Sends, Workers
  <2> QED BY <1>2, <2>7, <2>9, <2>10 DEF PlayerInv
<1>6. CASE (Receive /\ UNCHANGED <<late, ahead>> /\ worker'.pc # "Writing") \/ Breaks
  <2>1. worker.pc \in {"Receiving", "Writing"} /\ worker' = [NoWorker EXCEPT !.pc = "Done"] /\ channel' = <<>>
    BY <1>6 DEF Receive, Breaks
  <2>2. worker' = [pc |-> "Done", block |-> None]
    BY <2>1 DEF NoWorker
  <2>7. UNCHANGED <<late, ahead>>
    BY <1>6 DEF Breaks
  <2>6. worker' \in [pc : {"None", "Receiving", "Writing", "Done"}, block : {None} \cup Blocks]
        /\ worker'.pc = "Done"
    BY <2>2
  <2>3. Typed'
    BY <1>1, <1>3, <2>1, <2>6, <2>7 DEF PlayerInv, Typed
  <2>4. Linked'
    BY <1>1, <1>2, <2>2 DEF PlayerInv, Linked
  <2>5. Owned' /\ Closing'
    BY <1>1, <2>1, <2>6, <2>7 DEF PlayerInv, Owned, Closing, Sends, Workers
  <2> QED BY <1>2, <2>3, <2>4, <2>5 DEF PlayerInv
<1>7. CASE Heard
  <2>1. /\ worker.pc = "Writing" /\ worker' = [NoWorker EXCEPT !.pc = "Receiving"]
        /\ late' = (IF stopping THEN late + 1 ELSE 0) /\ ahead' = Sooner /\ channel' = channel
    BY <1>7 DEF Heard
  <2>2. worker' = [pc |-> "Receiving", block |-> None]
    BY <2>1 DEF NoWorker
  <2>3. late = 0
    BY <2>1 DEF PlayerInv, Closing, Typed
  <2>4. late' \in 0..1 /\ (late' = 1 => stopping)
    BY <2>1, <2>3
  <2>10. worker' \in [pc : {"None", "Receiving", "Writing", "Done"}, block : {None} \cup Blocks]
         /\ worker'.pc = "Receiving"
    BY <2>2
  <2>5. Typed'
    BY <1>1, <1>4, <2>1, <2>10, <2>4 DEF PlayerInv, Typed
  <2>6. Held' = None /\ stream = "Open" /\ worker.pc # "Done"
    BY <2>1, <2>2 DEF Held, PlayerInv, Owned, Workers
  <2>7. Lined(None, channel, Following)
    BY <2>6, LineShortens DEF PlayerInv, Linked
  <2>8. Linked'
    BY <1>1, <1>2, <2>1, <2>6, <2>7 DEF PlayerInv, Linked
  <2>9. Owned' /\ Closing'
    BY <1>1, <2>1, <2>2, <2>4 DEF PlayerInv, Owned, Closing, Sends, Workers
  <2> QED BY <1>2, <2>5, <2>8, <2>9 DEF PlayerInv
<1> QED BY <1>5, <1>6, <1>7 DEF Worker

-----------------------------------------------------------------------------
(* The player.                                                             *)

\* The stream of a session that ends, or of the new one.
LEMMA StreamReplaced ==
  ASSUME NoStream \/ \E r \in 0..Loudest : OpenStream(r)
  PROVE  /\ stream' \in {"None", "Muted", "Open"} /\ channel' = <<>> /\ sending' \in BOOLEAN
         /\ stopping' = FALSE /\ late' = 0
         /\ worker' \in [pc : {"None", "Receiving"}, block : {None}]
         /\ worker'.pc # "None" => stream' = "Open"
<1>1. NoWorker = [pc |-> "None", block |-> None] /\ [NoWorker EXCEPT !.pc = "Receiving"] = [pc |-> "Receiving", block |-> None]
  BY DEF NoWorker
<1>2. CASE NoStream
  BY <1>1, <1>2 DEF NoStream
<1>3. ASSUME NEW r \in 0..Loudest, OpenStream(r)
      PROVE  /\ stream' \in {"Muted", "Open"} /\ channel' = <<>> /\ sending' \in BOOLEAN
             /\ stopping' = FALSE /\ late' = 0
             /\ worker' \in [pc : {"None", "Receiving"}, block : {None}]
             /\ worker'.pc # "None" => stream' = "Open"
  <2>1. channel' = <<>> /\ sending' \in {TRUE, FALSE} /\ stopping' = FALSE /\ late' = 0
    BY <1>3 DEF OpenStream
  <2>2. \/ stream' = "Muted" /\ worker' = [pc |-> "None", block |-> None]
        \/ stream' = "Open" /\ worker' = [pc |-> "Receiving", block |-> None]
    BY <1>1, <1>3 DEF OpenStream
  <2>3. worker' \in [pc : {"None", "Receiving"}, block : {None}]
    BY <2>2
  <2>4. stream' \in {"Muted", "Open"}
    BY <2>2
  <2>5. worker'.pc # "None" => stream' = "Open"
    BY <2>2
  <2> QED BY <2>1, <2>3, <2>4, <2>5
<1> QED BY <1>2, <1>3

\* A step that neither sends a block nor replaces the stream, and after which
\* the same block is next.
LEMMA QuietKeeps ==
  ASSUME PlayerInv, CloseStream \/ UNCHANGED streamVars,
         UNCHANGED <<scope, audio_owned, volume, saved>>,
         place' \in {"Generate", "Draw", "Commands", "Join", "Leaving", "Ended"},
         then' \in [volume : None..Loudest, leave : BOOLEAN],
         state' \in Players, number' \in Blocks, Following' = Following,
         state'.pending # None => number' = Next_number(state'.pending),
         dirty' \in BOOLEAN, advanced' \in BOOLEAN, shutdown' \in BOOLEAN,
         shown'.volume \in 0..Loudest, ahead' \in -1..MaxAhead, Drawn'
  PROVE  PlayerInv'
<1>1. UNCHANGED <<stream, channel, worker, late>> /\ stopping' \in BOOLEAN /\ sending' \in BOOLEAN
  BY DEF CloseStream, streamVars, PlayerInv, Typed
<1>2. stopping' = stopping \/ stopping' = (stream = "Open")
  BY DEF CloseStream, streamVars
<1>3. Typed'
  BY <1>1 DEF PlayerInv, Typed
<1>4. Owned' /\ Closing'
  BY <1>1, <1>2 DEF PlayerInv, Owned, Workers, Closing, Sends
<1>5. Held' = Held
  BY <1>1 DEF Held
<1>6. Linked'
  BY <1>1, <1>5 DEF PlayerInv, Linked
<1> QED BY <1>3, <1>4, <1>6 DEF PlayerInv

\* The state without its block.
Gone == [state EXCEPT !.pending = None, !.pending_end = FALSE]

\* A track goes on or ends when its block is gone.
LEMMA GoesOn ==
  ASSUME PlayerInv, state.open, NEW ended \in BOOLEAN, UNCHANGED <<volume, dirty, shown>>, place' # "Commands",
         IF ended THEN state' \in advance(Gone) /\ advanced' = TRUE ELSE state' = Gone /\ UNCHANGED advanced
  PROVE  /\ state' \in Players /\ state'.pending = None
         /\ advanced' \in BOOLEAN /\ Drawn'
<1>1. state \in Players
  BY DEF PlayerInv, Typed
<1>2. Gone \in Players /\ Gone.pending = None /\ Gone.open = state.open
  BY <1>1 DEF Gone, Players, States
<1>3. CASE ended
  <2>1. Keeps(Gone, state')
    BY <1>2, <1>3, AdvanceKeeps
  <2> QED BY <1>2, <1>3, <2>1 DEF Keeps, Drawn
<1>4. CASE ~ended
  <2>1. state' = Gone /\ advanced' = advanced
    BY <1>4
  <2>2. Screen' = Screen
    BY <1>1, <2>1 DEF Screen, Gone, Players, States
  <2> QED BY <1>2, <2>1, <2>2 DEF PlayerInv, Drawn, Typed
<1> QED BY <1>3, <1>4

\* A block is sent, kept for a channel that is full, or let go with the
\* sound: the line of blocks stays without a gap.
LEMMA FlushKeeps ==
  ASSUME PlayerInv, state.open, NEW ended \in BOOLEAN, NEW fresh \in BOOLEAN,
         NEW block \in Blocks, block = Following, fresh <=> state.pending = None,
         flush(block, ended, fresh),
         UNCHANGED <<scope, then, volume, dirty, saved, shown, shutdown>>,
         place' = "Draw", ahead' \in -1..MaxAhead
  PROVE  PlayerInv'
<1>1. state \in Players /\ number \in Blocks /\ shown.volume \in 0..Loudest
  BY DEF PlayerInv, Typed
<1>2. Next_number(block) \in Blocks /\ (~fresh => number = Next_number(block))
  BY RoundNumbers DEF PlayerInv, Linked, Following
<1> DEFINE OnTo == IF ended THEN state' \in advance(Gone) /\ advanced' = TRUE
                            ELSE state' = Gone /\ UNCHANGED advanced
<1>3. CASE /\ Sends /\ Full
           /\ state' = Busy(state, block, ended)
           /\ number' = IF fresh THEN Next_number(block) ELSE number
           /\ UNCHANGED <<streamVars, audio_owned, advanced>>
  <2>1. state' = [state EXCEPT !.pending = block, !.pending_end = ended]
    BY <1>3 DEF Busy
  <2>2. state' \in Players /\ state'.pending = block /\ block # None
    BY <1>1, <2>1, NoneIs DEF Players, States
  <2>3. Screen' = Screen
    BY <1>1, <2>1 DEF Screen, Players, States
  <2>4. Drawn'
    BY <1>3, <2>3 DEF PlayerInv, Drawn
  <2>5. number' = Next_number(block) /\ Following' = block
    BY <1>2, <1>3, <2>2 DEF Following
  <2>6. advanced' \in BOOLEAN /\ dirty' \in BOOLEAN /\ shutdown' \in BOOLEAN
        /\ then' \in [volume : None..Loudest, leave : BOOLEAN]
    BY <1>3 DEF PlayerInv, Typed
  <2> QED BY <1>1, <1>2, <1>3, <2>2, <2>4, <2>5, <2>6, QuietKeeps
<1>4. CASE /\ ~Sends /\ OnTo /\ number' = block /\ UNCHANGED <<streamVars, audio_owned>>
  <2>1. state' \in Players /\ state'.pending = None /\ advanced' \in BOOLEAN /\ Drawn'
    BY <1>4, GoesOn
  <2>2. Following' = block
    BY <1>4, <2>1 DEF Following
  <2>3. dirty' \in BOOLEAN /\ shutdown' \in BOOLEAN /\ then' \in [volume : None..Loudest, leave : BOOLEAN]
    BY DEF PlayerInv, Typed
  <2> QED BY <1>1, <1>4, <2>1, <2>2, <2>3, QuietKeeps
<1>5. CASE /\ Sends /\ worker.pc = "Done" /\ audio_owned' = FALSE /\ NoStream /\ OnTo /\ number' = block
  <2>1. state' \in Players /\ state'.pending = None /\ advanced' \in BOOLEAN /\ Drawn'
    BY <1>5, GoesOn
  <2>2. /\ stream' = "None" /\ channel' = <<>> /\ sending' \in BOOLEAN
        /\ stopping' = FALSE /\ late' = 0
        /\ worker' \in [pc : {"None", "Receiving", "Writing", "Done"}, block : {None} \cup Blocks]
        /\ worker'.pc = "None"
    BY <1>5 DEF NoStream, NoWorker
  <2>3. <<>> \in Seq(Blocks) /\ Len(<<>>) = 0 /\ 0 <= CHIPTUNE_QUEUE_BLOCKS /\ 0 \in 0..1
    BY ChiptuneAssumption
  <2>4. Typed'
    BY <1>5, <2>1, <2>2, <2>3 DEF PlayerInv, Typed
  <2>5. Owned' /\ Closing' /\ Linked'
    BY <1>5, <2>1, <2>2 DEF Owned, Workers, Sends, Closing, Linked
  <2> QED BY <2>1, <2>4, <2>5 DEF PlayerInv
<1>6. CASE /\ Sends /\ ~Full /\ worker.pc # "Done"
           /\ channel' = Append(channel, block) /\ OnTo /\ number' = Next_number(block)
           /\ UNCHANGED <<stream, sending, stopping, worker, late, audio_owned>>
  <2>1. state' \in Players /\ state'.pending = None /\ advanced' \in BOOLEAN /\ Drawn'
    BY <1>6, GoesOn
  <2>2. stream = "Open" /\ channel \in Seq(Blocks) /\ Len(channel) <= CHIPTUNE_QUEUE_BLOCKS
    BY <1>6 DEF PlayerInv, Owned, Typed
  <2>3. Len(channel) # CHIPTUNE_QUEUE_BLOCKS
    BY <1>6, <2>2 DEF Full
  <2>4. channel' \in Seq(Blocks) /\ Len(channel') <= CHIPTUNE_QUEUE_BLOCKS
    <3>1. Append(channel, block) \in Seq(Blocks) /\ Len(Append(channel, block)) = Len(channel) + 1
          /\ Len(channel) \in Nat
      BY <2>2
    <3> QED BY <1>6, <2>2, <2>3, <3>1, ChiptuneAssumption
  <2>5. Lined(Held, Append(channel, block), Next_number(block))
    BY <1>6, <2>2, LineGrows DEF PlayerInv, Linked
  <2>6. Held' = Held /\ Following' = Next_number(block)
    BY <1>6, <2>1 DEF Held, Following
  <2>7. Linked'
    BY <1>6, <2>1, <2>5, <2>6 DEF Linked
  <2>8. Typed'
    BY <1>2, <1>6, <2>1, <2>4 DEF PlayerInv, Typed
  <2>9. Owned' /\ Closing'
    BY <1>6 DEF PlayerInv, Owned, Workers, Sends, Closing
  <2> QED BY <2>1, <2>7, <2>8, <2>9 DEF PlayerInv
<1> QED BY <1>3, <1>4, <1>5, <1>6 DEF flush, Gone

\* A turn decodes a block, tries the one that waits again, or finds damage.
LEMMA GenerateKeeps == ASSUME PlayerInv, Generate PROVE PlayerInv'
<1>1. place' = "Draw" /\ UNCHANGED <<scope, then, volume, saved, shown, shutdown>>
  BY DEF Generate
<1>2. /\ state \in Players /\ number \in Blocks /\ ahead \in -1..MaxAhead /\ shown.volume \in 0..Loudest
      /\ dirty \in BOOLEAN /\ advanced \in BOOLEAN /\ shutdown \in BOOLEAN
      /\ then \in [volume : None..Loudest, leave : BOOLEAN]
      /\ (state.pending # None => number = Next_number(state.pending))
  BY DEF PlayerInv, Typed, Linked
<1>3. state.pending \in {None} \cup Blocks
  BY <1>2 DEF Players, States
<1>4. CASE UNCHANGED <<state, audio_owned, streamVars, number, ahead, dirty, advanced>>
  <2>1. Following' = Following /\ Drawn'
    BY <1>1, <1>4 DEF Following, PlayerInv, Drawn, Screen
  <2> QED BY <1>1, <1>2, <1>4, <2>1, QuietKeeps
<1>5. CASE /\ state.open /\ state.pending # None
           /\ flush(state.pending, state.pending_end, FALSE) /\ UNCHANGED <<ahead, dirty>>
  <2>1. state.pending \in Blocks /\ state.pending = Following /\ state.pending_end \in BOOLEAN
    BY <1>2, <1>3, <1>5 DEF Following, Players, States
  <2>2. ahead' \in -1..MaxAhead /\ dirty' = dirty /\ FALSE \in BOOLEAN
    BY <1>2, <1>5
  <2> QED BY <1>1, <1>5, <2>1, <2>2, FlushKeeps
<1>6. ASSUME Decodes, NEW ended \in BOOLEAN, flush(number, ended, TRUE), dirty' = dirty,
             ahead' = IF ahead < MaxAhead THEN ahead + 1 ELSE ahead
      PROVE  PlayerInv'
  <2>1. state.open /\ state.pending = None /\ number = Following
    BY <1>6 DEF Decodes, Following
  <2>2. ahead' \in -1..MaxAhead
    BY <1>2, <1>6, ChiptuneAssumption
  <2> QED BY <1>1, <1>2, <1>6, <2>1, <2>2, FlushKeeps
<1>7. CASE /\ Decodes /\ state' = fail_playback(state) /\ dirty' = TRUE
           /\ UNCHANGED <<audio_owned, streamVars, number, ahead, advanced>>
  <2>1. state.pending = None /\ state' \in Players /\ state'.pending = None
    BY <1>2, <1>7, Failed DEF Decodes, Keeps
  <2>2. Following' = Following /\ Drawn'
    BY <1>1, <1>7, <2>1 DEF Following, Drawn
  <2> QED BY <1>1, <1>2, <1>7, <2>1, <2>2, QuietKeeps
<1> QED BY <1>4, <1>5, <1>6, <1>7 DEF Generate

\* A step of run that leaves the state and the blocks as they are.
LEMMA TurnKeeps ==
  ASSUME PlayerInv, CloseStream \/ UNCHANGED streamVars,
         UNCHANGED <<scope, audio_owned, volume, saved, state, number>>,
         place' \in {"Generate", "Draw", "Commands", "Join", "Leaving", "Ended"},
         then' \in [volume : None..Loudest, leave : BOOLEAN],
         dirty' \in BOOLEAN, advanced' \in BOOLEAN, shutdown' \in BOOLEAN,
         shown'.volume \in 0..Loudest, ahead' \in -1..MaxAhead, Drawn'
  PROVE  PlayerInv'
<1>1. Following' = Following /\ state \in Players /\ number \in Blocks
      /\ (state.pending # None => number = Next_number(state.pending))
  BY DEF Following, PlayerInv, Typed, Linked
<1> QED BY <1>1, QuietKeeps

\* What run leaves behind when it returns.
LEMMA LeaveSays ==
  ASSUME Leave
  PROVE  /\ place' = "Join" /\ then' \in [volume : None..Loudest, leave : BOOLEAN]
         /\ CloseStream \/ UNCHANGED streamVars
<1>1. None \in None..Loudest
  BY ChiptuneAssumption DEF None
<1> QED BY <1>1 DEF Leave

\* Drawing, and the ends of the loop.
LEMMA RunKeeps == ASSUME PlayerInv, Draw \/ Told \/ Leaving PROVE PlayerInv'
<1>1. /\ shown.volume \in 0..Loudest /\ volume \in 0..Loudest /\ ahead \in -1..MaxAhead
      /\ dirty \in BOOLEAN /\ advanced \in BOOLEAN /\ shutdown \in BOOLEAN
      /\ then \in [volume : None..Loudest, leave : BOOLEAN]
  BY DEF PlayerInv, Typed
<1>2. CASE Draw
  <2>1. UNCHANGED <<scope, state, audio_owned, volume, saved, ahead, number, shutdown>>
    BY <1>2 DEF Draw
  <2>2. Screen' = Screen /\ Screen.volume = volume
    BY <2>1 DEF Screen
  <2>3. CASE /\ shown' = Screen /\ dirty' = FALSE /\ advanced' = FALSE /\ place' = "Commands"
             /\ UNCHANGED <<then, streamVars>>
    <3>1. Drawn'
      BY <2>2, <2>3 DEF Drawn
    <3>2. shown'.volume \in 0..Loudest
      BY <1>1, <2>2, <2>3
    <3> QED BY <1>1, <2>1, <2>3, <3>1, <3>2, TurnKeeps
  <2>4. CASE /\ ~dirty /\ place' = "Commands" /\ UNCHANGED <<shown, dirty, advanced, then, streamVars>>
    <3>1. Drawn'
      BY <2>2, <2>4 DEF Drawn, PlayerInv
    <3> QED BY <1>1, <2>1, <2>4, <3>1, TurnKeeps
  <2>5. CASE Leave /\ UNCHANGED <<shown, dirty, advanced>>
    <3>1. Drawn'
      BY <2>2, <2>5, LeaveSays DEF Drawn, PlayerInv
    <3> QED BY <1>1, <2>1, <2>5, <3>1, LeaveSays, TurnKeeps
  <2> QED BY <1>2, <2>3, <2>4, <2>5 DEF Draw
<1>3. CASE Told \/ Leaving
  <2>1. Leave /\ UNCHANGED <<scope, state, sessionVars, ahead, screenVars, number, shutdown>>
    BY <1>3 DEF Told, Leaving
  <2>2. UNCHANGED <<scope, state, audio_owned, volume, dirty, saved, ahead, shown, advanced, number, shutdown>>
    BY <2>1 DEF sessionVars, screenVars
  <2>3. Drawn'
    BY <2>1, <2>2, LeaveSays DEF Drawn, PlayerInv, Screen
  <2> QED BY <1>1, <2>1, <2>2, <2>3, LeaveSays, TurnKeeps
<1> QED BY <1>2, <1>3

\* A turn's commands: the block of a track that is left takes its number back.
LEMMA ApplyKeeps == ASSUME PlayerInv, Apply PROVE PlayerInv'
<1>1. UNCHANGED <<scope, audio_owned, volume, saved, ahead, shown, advanced, shutdown>> /\ place = "Commands"
  BY DEF Apply
<1>2. /\ state \in Players /\ number \in Blocks /\ ahead \in -1..MaxAhead /\ shown.volume \in 0..Loudest
      /\ volume \in 0..Loudest /\ dirty \in BOOLEAN /\ advanced \in BOOLEAN /\ shutdown \in BOOLEAN
      /\ then \in [volume : None..Loudest, leave : BOOLEAN]
      /\ (state.pending # None => number = Next_number(state.pending))
  BY DEF PlayerInv, Typed, Linked
<1>3. PICK batch \in Batches :
        /\ \E s \in Applied(batch) : state' = s.state /\ dirty' = s.dirty
        /\ number' = IF state.pending # None /\ state'.pending = None THEN Before(number) ELSE number
        /\ IF Requested(batch) # volume THEN
             /\ place' = "Join"
             /\ then' = [volume |-> Requested(batch), leave |-> "Back" \in batch]
             /\ CloseStream
           ELSE IF "Back" \in batch THEN Leave
           ELSE place' = "Generate" /\ UNCHANGED <<then, streamVars>>
  BY DEF Apply
<1>4. PICK s \in Applied(batch) : state' = s.state /\ dirty' = s.dirty
  BY <1>3
<1>5. Follows(s)
  BY <1>2, AppliedFollows
<1>6. /\ state' \in Players /\ state'.pending \in {None, state.pending} /\ dirty' \in BOOLEAN
      /\ (~dirty' => ~dirty /\ state' = state)
  BY <1>4, <1>5 DEF Follows, Keeps
<1>7. state.pending \in {None} \cup Blocks
  BY <1>2 DEF Players, States
<1> DEFINE Same == /\ Following' = Following /\ number' \in Blocks
                   /\ state'.pending # None => number' = Next_number(state'.pending)
<1>9. Same
  <2>1. CASE state.pending # None /\ state'.pending = None
    <3>1. number' = state.pending /\ state.pending \in Blocks
      BY <1>2, <1>3, <1>7, <2>1, RoundNumbers
    <3> QED BY <2>1, <3>1 DEF Following
  <2>2. CASE ~(state.pending # None /\ state'.pending = None)
    <3>1. number' = number /\ state'.pending = state.pending
      BY <1>3, <1>6, <2>2
    <3> QED BY <1>2, <3>1 DEF Following
  <2> QED BY <2>1, <2>2
<1>10. Requested(batch) \in 0..Loudest /\ None..Loudest = -1..Loudest
  BY <1>2, ChiptuneAssumption DEF Requested, None
<1>11. /\ place' \in {"Generate", "Join"} /\ then' \in [volume : None..Loudest, leave : BOOLEAN]
       /\ CloseStream \/ UNCHANGED streamVars
  <2>1. CASE Requested(batch) # volume
    <3> DEFINE requested == Requested(batch)
               back == "Back" \in batch
    <3>1. requested \in -1..Loudest /\ back \in BOOLEAN
      BY <1>10, ChiptuneAssumption
    <3>2. place' = "Join" /\ then' = [volume |-> requested, leave |-> back] /\ CloseStream
      BY <1>3, <2>1
    <3> HIDE DEF requested, back
    <3>3. [volume |-> requested, leave |-> back] \in [volume : -1..Loudest, leave : BOOLEAN]
      BY <3>1
    <3> QED BY <1>10, <3>2, <3>3
  <2>2. CASE Requested(batch) = volume /\ "Back" \in batch
    BY <1>3, <2>2, LeaveSays
  <2>3. CASE Requested(batch) = volume /\ "Back" \notin batch
    BY <1>2, <1>3, <2>3
  <2> QED BY <2>1, <2>2, <2>3
<1>12. Drawn'
  BY <1>1, <1>6, <1>11 DEF PlayerInv, Drawn, Screen
<1> QED BY <1>1, <1>2, <1>6, <1>9, <1>11, <1>12, QuietKeeps

\* The old stream is gone, and a new one is opened, or none.
LEMMA JoinKeeps == ASSUME PlayerInv, Join PROVE PlayerInv'
<1>1. UNCHANGED <<scope, then, state, ahead, shown, advanced, number, shutdown>>
      /\ place' \in {"Generate", "Ended", "Leaving"}
  BY DEF Join, screenVars
<1>2. /\ state \in Players /\ number \in Blocks /\ volume \in 0..Loudest /\ saved \in 0..Loudest
      /\ dirty \in BOOLEAN /\ then.volume \in None..Loudest
      /\ (state.pending # None => number = Next_number(state.pending))
  BY DEF PlayerInv, Typed, Linked
<1>3. then.volume # None => then.volume \in 0..Loudest
  BY <1>2, ChiptuneAssumption DEF None
<1>4. \/ /\ NoStream /\ audio_owned' = FALSE
         /\ \/ UNCHANGED <<volume, saved, dirty>>
            \/ UNCHANGED <<volume, saved>> /\ dirty' = TRUE
      \/ /\ then.volume # None /\ OpenStream(then.volume) /\ audio_owned' = TRUE
         /\ volume' = then.volume /\ saved' \in {saved, volume'} /\ dirty' = TRUE
  BY DEF Join
<1>5. /\ stream' \in {"None", "Muted", "Open"} /\ channel' = <<>> /\ sending' \in BOOLEAN
      /\ stopping' = FALSE /\ late' = 0
      /\ worker' \in [pc : {"None", "Receiving"}, block : {None}]
      /\ worker'.pc # "None" => stream' = "Open"
  BY <1>3, <1>4, StreamReplaced
<1>6. volume' \in 0..Loudest /\ saved' \in 0..Loudest /\ dirty' \in BOOLEAN /\ audio_owned' \in BOOLEAN
  BY <1>2, <1>3, <1>4
<1>7. <<>> \in Seq(Blocks) /\ Len(<<>>) = 0 /\ 0 <= CHIPTUNE_QUEUE_BLOCKS /\ 0 \in 0..1
  BY ChiptuneAssumption
<1>8. worker' \in [pc : {"None", "Receiving", "Writing", "Done"}, block : {None} \cup Blocks]
      /\ worker'.pc \notin {"Writing", "Done"}
  BY <1>5
<1>9. Typed'
  BY <1>1, <1>5, <1>6, <1>7, <1>8 DEF PlayerInv, Typed
<1>10. stream' = "Open" <=> audio_owned' = TRUE /\ volume' > 0
  BY <1>3, <1>4 DEF NoStream, OpenStream
<1>11. Owned'
  BY <1>5, <1>6, <1>10 DEF Owned, Workers, Sends
<1>12. Closing'
  BY <1>5 DEF Closing
<1>13. Linked'
  <2>1. Held' = None
    BY <1>8 DEF Held
  <2> QED BY <1>1, <1>2, <1>5, <2>1, LineEmpty DEF Linked
<1>14. Drawn'
  BY <1>1, <1>4 DEF PlayerInv, Drawn, Screen
<1> QED BY <1>9, <1>11, <1>12, <1>13, <1>14 DEF PlayerInv

\* The invariant is inductive.
LEMMA PlayerNextInv == ASSUME PlayerInv, [PlayerNext]_chiptuneVars PROVE PlayerInv'
<1>1. CASE UNCHANGED chiptuneVars
  BY <1>1 DEF chiptuneVars, sessionVars, streamVars, screenVars, PlayerInv, Typed, Owned, Workers,
              Sends, Closing, Linked, Held, Following, Drawn, Screen
<1>2. CASE Clock \/ Shutdown
  <2>1. /\ UNCHANGED <<scope, place, then, state, audio_owned, volume, dirty, saved, shown, advanced, streamVars, number>>
        /\ ahead' \in {ahead, Sooner} /\ shutdown' \in {shutdown, TRUE}
    BY <1>2 DEF Clock, Shutdown, sessionVars, screenVars
  <2>2. /\ shown.volume \in 0..Loudest /\ dirty \in BOOLEAN /\ advanced \in BOOLEAN /\ shutdown' \in BOOLEAN
        /\ then \in [volume : None..Loudest, leave : BOOLEAN]
        /\ place \in {"Generate", "Draw", "Commands", "Join", "Leaving", "Ended"}
    BY <2>1 DEF PlayerInv, Typed
  <2>3. ahead' \in -1..MaxAhead
    BY <2>1, ChiptuneAssumption DEF PlayerInv, Typed, Sooner
  <2>4. Drawn'
    BY <2>1 DEF PlayerInv, Drawn, Screen
  <2> QED BY <2>1, <2>2, <2>3, <2>4, TurnKeeps
<1> QED BY <1>1, <1>2, WorkerKeeps, GenerateKeeps, RunKeeps, ApplyKeeps, JoinKeeps DEF PlayerNext, Player

-----------------------------------------------------------------------------
(* What the invariant means.                                               *)

\* The player starts with a track that its file has, and with nothing sent.
LEMMA InitPlayerInv == ASSUME PlayerInit PROVE PlayerInv
<1> DEFINE first == [open |-> FALSE, file_index |-> 1, track |-> 1, mode |-> "LoopAll", paused |-> FALSE,
                     pending |-> None, pending_end |-> FALSE]
           files == [f \in 1..FileCount |-> f]
<1>1. FileCount \in Nat \ {0} /\ CHIPTUNE_QUEUE_BLOCKS \in Nat \ {0} /\ Loudest \in Nat /\ MaxAhead \in Nat
  BY ChiptuneAssumption
<1>2. first \in Players
  BY <1>1 DEF Players, States, Files
<1>3. files \in [1..FileCount -> Files] /\ 1..FileCount \in SUBSET Nat /\ 0 \notin 1..FileCount
  BY <1>1 DEF Files
<1>4. state = open_any(first, files) /\ first.pending = None
  BY DEF PlayerInit
<1> HIDE DEF first, files
<1>5. state \in Players /\ state.pending = None
  BY <1>2, <1>3, <1>4, AnyOpened DEF Keeps
<1>6. scope \in Scopes /\ volume \in 0..Loudest /\ saved = volume
  BY ChiptuneAssumption DEF PlayerInit
<1>7. shown.volume = volume
  BY DEF PlayerInit, Screen
<1>8. then \in [volume : None..Loudest, leave : BOOLEAN]
  <2>1. None \in None..Loudest
    BY <1>1 DEF None
  <2> QED BY <2>1 DEF PlayerInit
<1>9. <<>> \in Seq(Blocks) /\ Len(<<>>) = 0 /\ 0 <= CHIPTUNE_QUEUE_BLOCKS /\ 0 \in 0..1 /\ 0 \in -1..MaxAhead /\ 0 \in Blocks
  BY <1>1 DEF Blocks, Numbers
<1>10. worker = [pc |-> IF stream = "Open" THEN "Receiving" ELSE "None", block |-> None]
  BY DEF PlayerInit, NoWorker
<1>11. /\ worker \in [pc : {"None", "Receiving", "Writing", "Done"}, block : {None} \cup Blocks]
       /\ worker.pc # "Writing" /\ (worker.pc # "None" => stream = "Open")
  BY <1>10
<1>12. /\ place = "Generate" /\ audio_owned \in BOOLEAN /\ dirty = TRUE /\ advanced = FALSE /\ ahead = 0
       /\ channel = <<>> /\ stopping = FALSE /\ shutdown = FALSE /\ late = 0 /\ number = 0
       /\ stream = IF ~audio_owned THEN "None" ELSE IF volume = 0 THEN "Muted" ELSE "Open"
  BY DEF PlayerInit
<1>13. sending \in BOOLEAN
  BY DEF PlayerInit
<1>14. Typed
  BY <1>5, <1>6, <1>7, <1>8, <1>9, <1>11, <1>12, <1>13 DEF Typed
<1>15. Owned /\ Closing
  BY <1>6, <1>11, <1>12 DEF Owned, Workers, Sends, Closing
<1>16. Held = None
  BY <1>11 DEF Held
<1>17. Linked /\ Drawn
  BY <1>5, <1>12, <1>16, LineEmpty DEF Linked, Drawn
<1> QED BY <1>14, <1>15, <1>17 DEF PlayerInv

\* The elements of two sequences that are put together.
LEMMA Connected ==
  ASSUME NEW S, NEW a \in Seq(S), NEW b \in Seq(S)
  PROVE  /\ a \o b \in Seq(S) /\ Len(a \o b) = Len(a) + Len(b)
         /\ \A i \in 1..Len(a) : (a \o b)[i] = a[i]
         /\ \A i \in 1..Len(b) : (a \o b)[Len(a) + i] = b[i]
OBVIOUS

\* The line of blocks, read as the one sequence of the property.
LEMMA InvOrder == ASSUME PlayerInv PROVE BlocksInOrder
<1> DEFINE held == IF worker.pc = "Writing" THEN <<worker.block>> ELSE <<>>
           kept == IF state.pending = None THEN <<>> ELSE <<state.pending>>
           rest == kept \o <<number>>
           h == Len(held)
           n == Len(channel)
           k == Len(kept)
           all == held \o channel \o kept \o <<number>>
<1> SUFFICES ASSUME stream = "Open", worker.pc # "Done", NEW i \in 1..(Len(all) - 1)
             PROVE  all[i + 1] = Next_number(all[i])
  BY DEF BlocksInOrder
<1>1. /\ channel \in Seq(Blocks) /\ number \in Blocks
      /\ worker.pc = "Writing" => worker.block \in Blocks
      /\ state.pending \in {None} \cup Blocks
      /\ (state.pending # None => number = Next_number(state.pending))
      /\ Lined(Held, channel, Following)
  BY DEF PlayerInv, Typed, Linked, Players, States
<1>2. held \in Seq(Blocks) /\ kept \in Seq(Blocks) /\ <<number>> \in Seq(Blocks) /\ Len(<<number>>) = 1
  BY <1>1
<1>3. /\ \/ worker.pc = "Writing" /\ h = 1 /\ held[1] = Held /\ Held # None
         \/ worker.pc # "Writing" /\ h = 0
      /\ \/ state.pending = None /\ k = 0 /\ Following = number
         \/ state.pending # None /\ k = 1 /\ kept[1] = state.pending /\ Following = state.pending
      /\ n \in Nat
  BY <1>1, NoneIs DEF Held, Following
<1> DEFINE sent == held \o channel
           before == sent \o kept
<1> HIDE DEF held, kept
<1>4. /\ sent \in Seq(Blocks) /\ Len(sent) = h + n
      /\ \A j \in 1..h : sent[j] = held[j]
      /\ \A j \in 1..n : sent[h + j] = channel[j]
  BY <1>1, <1>2, Connected
<1> HIDE DEF sent
<1>5. /\ before \in Seq(Blocks) /\ Len(before) = h + n + k
      /\ \A j \in 1..(h + n) : before[j] = sent[j]
      /\ \A j \in 1..k : before[h + n + j] = kept[j]
  <2>1. sent \in Seq(Blocks) /\ kept \in Seq(Blocks)
    BY <1>2, <1>4
  <2>2. /\ before \in Seq(Blocks) /\ Len(before) = Len(sent) + Len(kept)
        /\ \A j \in 1..Len(sent) : before[j] = sent[j]
        /\ \A j \in 1..Len(kept) : before[Len(sent) + j] = kept[j]
    BY ONLY <2>1, Connected
  <2> QED BY <1>4, <2>2
<1> HIDE DEF before
<1>6. /\ Len(before \o <<number>>) = h + n + k + 1
      /\ \A j \in 1..(h + n + k) : (before \o <<number>>)[j] = before[j]
      /\ \A j \in 1..1 : (before \o <<number>>)[h + n + k + j] = <<number>>[j]
  BY <1>2, <1>5, Connected
<1>7. all = before \o <<number>>
  BY DEF before, sent
<1> HIDE DEF all, h, k, n
<1>8. Len(all) = h + n + k + 1 /\ all[h + n + k + 1] = number
  <2>1. 1 \in 1..1 /\ <<number>>[1] = number
    OBVIOUS
  <2> QED BY <1>6, <1>7, <2>1
<1>9. h = 1 => all[1] = Held
  <2>1. h = 1 => 1 \in 1..h /\ 1 \in 1..(h + n) /\ 1 \in 1..(h + n + k)
    BY <1>3
  <2> QED BY <1>3, <1>4, <1>5, <1>6, <1>7, <2>1
<1>10. \A j \in 1..n : all[h + j] = channel[j]
  <2>1. \A j \in 1..n : h + j \in 1..(h + n) /\ h + j \in 1..(h + n + k)
    BY <1>3
  <2> QED BY <1>4, <1>5, <1>6, <1>7, <2>1
<1>11. all[h + n + 1] = Following
  <2>1. CASE k = 0
    BY <1>3, <1>8, <2>1
  <2>2. CASE k = 1
    <3>1. 1 \in 1..k /\ h + n + 1 \in 1..(h + n + k)
      BY <1>3, <2>2
    <3> QED BY <1>3, <1>5, <1>6, <1>7, <2>2, <3>1
  <2> QED BY <1>3, <2>1, <2>2
<1>12. /\ \A j \in 1..(n - 1) : channel[j + 1] = Next_number(channel[j])
       /\ n > 0 => Following = Next_number(channel[n])
       /\ h = 1 => (IF n = 0 THEN Following ELSE channel[1]) = Next_number(Held)
  <2>1. channel = <<>> <=> n = 0
    BY <1>1, EmptySeq DEF n
  <2> QED BY <1>1, <1>3, <2>1 DEF Lined, n
<1>13. i \in 1..(h + n + k)
  BY <1>3, <1>8
<1>14. CASE i <= h
  <2>1. i = 1 /\ h = 1
    BY <1>3, <1>13, <1>14
  <2>2. CASE n = 0
    BY <1>9, <1>11, <1>12, <2>1, <2>2
  <2>3. CASE n > 0
    <3>1. 1 \in 1..n
      BY <1>3, <2>3
    <3> QED BY <1>9, <1>10, <1>12, <2>1, <2>3, <3>1
  <2> QED BY <1>3, <2>2, <2>3
<1>15. CASE i > h /\ i < h + n
  <2> DEFINE j == i - h
  <2>1. j \in 1..(n - 1) /\ j \in 1..n /\ j + 1 \in 1..n /\ h + j = i /\ h + (j + 1) = i + 1
    BY <1>3, <1>13, <1>15
  <2> HIDE DEF j
  <2> QED BY <1>10, <1>12, <2>1
<1>16. CASE i = h + n /\ n > 0
  <2>1. n \in 1..n
    BY <1>3, <1>16
  <2> QED BY <1>10, <1>11, <1>12, <1>16, <2>1
<1>17. CASE i = h + n + 1
  <2>1. k = 1
    BY <1>3, <1>13, <1>17
  <2>2. i + 1 = h + n + k + 1
    BY <1>3, <1>17, <2>1
  <2> QED BY <1>1, <1>3, <1>8, <1>11, <1>17, <2>1, <2>2
<1> QED BY <1>3, <1>13, <1>14, <1>15, <1>16, <1>17

\* What the player is promised to do follows from the invariant.
LEMMA InvSafe == ASSUME PlayerInv PROVE PlayerSafe
<1>1. Loudest \in Nat /\ Numbers \in Nat /\ Numbers >= 1
  BY ChiptuneAssumption DEF Numbers
<1>2. state.pending \in None..(Numbers - 1) /\ number \in 0..(Numbers - 1)
  <2>1. state.pending \in {None} \cup Blocks /\ number \in Blocks
    BY DEF PlayerInv, Typed, Players, States
  <2> QED BY <1>1, <2>1 DEF Blocks, None
<1>3. PlayerTypeOK
  BY <1>2 DEF PlayerTypeOK, PlayerInv, Typed, Players, States
<1>4. OneBlockLate /\ ScreenTrue
  BY DEF OneBlockLate, ScreenTrue, PlayerInv, Typed, Drawn
<1> QED BY <1>3, <1>4, InvOrder DEF PlayerSafe

\* What is heard is what was decoded, in its order and without a gap, at most
\* one block of a closed stream is heard, and a player that waits shows what
\* it plays (chiptune_ui: run, flush, generate, apply; audio: the worker and
\* close_chiptune_pcm): for any files, queue, volumes and devices.
THEOREM PlayerHolds == PlayerSpec => []PlayerSafe
<1>1. PlayerInit => PlayerInv
  BY InitPlayerInv
<1>2. PlayerInv /\ [PlayerNext]_chiptuneVars => PlayerInv'
  BY PlayerNextInv
<1>3. PlayerInv => PlayerSafe
  BY InvSafe
<1> QED BY <1>1, <1>2, <1>3, PTL DEF PlayerSpec

-----------------------------------------------------------------------------
(* The supervisor.  IInv has the types, the places at which the leader can *)
(* stand for each place of the supervisor (Stages), the grace, and what a  *)
(* measured hold says about the finger (Glass).                            *)

\* Where the program can stand while the supervisor is at pc.
Stages ==
  /\ proc[Leader] \in Unstarted => \A p \in Procs : p # Leader => proc[p] = "Unborn"
  /\ proc[Leader] = "Unborn" => pc \in {"Launch", "Returned"}
  /\ proc[Leader] \in {"Forked", "Armed"} => pc \in {"Spawning", "Crashed"}
  /\ pc = "Launch" => proc[Leader] = "Unborn"
  /\ pc \in {"Launch", "Spawning"} => term = "No" /\ doomed = {}
  /\ error = "Wait" => pc \in {"Reap", "Returned", "Crashed"}
  /\ pc = "Finish" => proc[Leader] = "Gone" /\ term = "Sent"
  /\ pc = "Reap" => \A p \in Procs : proc[p] = "Running" => p \in doomed

\* On the framebuffer the unread reports end in the finger's state, and a hold
\* that no unread report ends is not older than the finger's stay.
Glass ==
  route = "Evdev" =>
    /\ source # "Open" => queued = "None"
    /\ source = "Closed" => hold = 0
    /\ source = "Open" /\ queued \in {"Down", "UpDown"} => finger = "Down"
    /\ source = "Open" /\ queued = "Up" => finger = "Up"
    /\ source = "Open" /\ queued \in {"None", "Down"} /\ hold > 0
         => finger = "Down" /\ fingerAge >= hold - 1

\* The inductive invariant.
IInv == TypeOK /\ Stages /\ GraceGranted /\ Glass

\* What the assumption says of each constant.
LEMMA Bounds ==
  /\ Leader \in Procs
  /\ Routes \subseteq AllRoutes
  /\ HoldTicks \in Nat /\ HoldTicks > 0
  /\ GraceTicks \in Nat /\ GraceTicks > 0
  /\ ReconnectTicks \in Nat /\ ReconnectTicks > 0
  BY SupervisorAssumption

USE Bounds

\* The steps of the supervisor, one by one.
LEMMA NextCases ==
  ASSUME Next
  PROVE  \/ Launch \/ Spawned \/ Wait \/ Reap \/ Step \/ Finish \/ Arm \/ Exec \/ Fork
         \/ (\E p \in Procs : Die(p)) \/ (\E p \in Procs : InitReaps(p))
         \/ Crash \/ Press \/ Lift \/ Conceal \/ Hotplug \/ Ask \/ Tick
  BY DEF Next, Supervise, Program, World

\* The types are kept by every step.
LEMMA TypeStep ==
  ASSUME TypeOK, [Next]_vars
  PROVE  TypeOK'
<1> USE DEF TypeOK, Unstarted, AllRoutes
<1>1. CASE Launch
  BY <1>1 DEF Launch, sourceVars, holdVars, fingerVars, stopVars, askVars
<1>2. CASE Spawned
  BY <1>2 DEF Spawned, Reaped, sourceVars, holdVars, fingerVars, stopVars, askVars
<1>3. CASE Wait
  BY <1>3 DEF Wait, Reaped, KillGroup, sourceVars, holdVars, fingerVars, stopVars, askVars
<1>4. CASE Reap
  BY <1>4 DEF Reap, Reaped, sourceVars, holdVars, fingerVars, stopVars, askVars
<1>5. CASE Step
  BY <1>5 DEF Step, Interact, PollEvdev, PollSurface, ReconnectDue, Reopened, Update,
     Request, ShutdownAsked, KillGroup, sourceVars, holdVars, fingerVars, stopVars,
     askVars
<1>6. CASE Finish
  BY <1>6 DEF Finish, Interact, PollEvdev, PollSurface, ReconnectDue, Reopened, Update,
     Request, ShutdownAsked, KillGroup, GroupExists, sourceVars, holdVars, fingerVars,
     stopVars, askVars
<1>7. CASE Arm
  BY <1>7 DEF Arm, sourceVars, holdVars, fingerVars, stopVars, askVars
<1>8. CASE Exec
  BY <1>8 DEF Exec, sourceVars, holdVars, fingerVars, stopVars, askVars
<1>9. CASE Fork
  BY <1>9 DEF Fork, Users, sourceVars, holdVars, fingerVars, stopVars, askVars
<1>10. ASSUME NEW p \in Procs, Die(p) PROVE TypeOK'
  BY <1>10 DEF Die, sourceVars, holdVars, fingerVars, stopVars, askVars
<1>11. ASSUME NEW p \in Procs, InitReaps(p) PROVE TypeOK'
  BY <1>11 DEF InitReaps, Reaped, sourceVars, holdVars, fingerVars, stopVars, askVars
<1>12. CASE Crash
  BY <1>12 DEF Crash, sourceVars, holdVars, fingerVars, stopVars, askVars
<1>13. CASE Press
  BY <1>13 DEF Press, Push, sourceVars, holdVars, fingerVars, stopVars, askVars
<1>14. CASE Lift
  BY <1>14 DEF Lift, Push, sourceVars, holdVars, fingerVars, stopVars, askVars
<1>15. CASE Conceal
  BY <1>15 DEF Conceal, sourceVars, holdVars, fingerVars, stopVars, askVars
<1>16. CASE Hotplug
  BY <1>16 DEF Hotplug, sourceVars, holdVars, fingerVars, stopVars, askVars
<1>17. CASE Ask
  BY <1>17 DEF Ask, sourceVars, holdVars, fingerVars, stopVars, askVars
<1>18. CASE Tick
  BY <1>18 DEF Tick, Later, sourceVars, holdVars, fingerVars, stopVars, askVars
<1>19. CASE UNCHANGED vars
  BY <1>19 DEF vars, sourceVars, holdVars, fingerVars, stopVars, askVars
<1> HIDE DEF TypeOK, Unstarted, AllRoutes
<1> QED BY NextCases, <1>1, <1>2, <1>3, <1>4, <1>5, <1>6, <1>7, <1>8, <1>9, <1>10,
           <1>11, <1>12, <1>13, <1>14, <1>15, <1>16, <1>17, <1>18, <1>19

\* So are the stages of the program.
LEMMA StagesStep ==
  ASSUME TypeOK, Stages, [Next]_vars
  PROVE  Stages'
<1> USE DEF TypeOK, Stages, Unstarted
<1>1. CASE Launch
  BY <1>1 DEF Launch, sourceVars, holdVars, fingerVars, stopVars, askVars
<1>2. CASE Spawned
  BY <1>2 DEF Spawned, Reaped, sourceVars, holdVars, fingerVars, stopVars, askVars
<1>3. CASE Wait
  BY <1>3 DEF Wait, Reaped, KillGroup, sourceVars, holdVars, fingerVars, stopVars, askVars
<1>4. CASE Reap
  BY <1>4 DEF Reap, Reaped, sourceVars, holdVars, fingerVars, stopVars, askVars
<1>5. CASE Step
  BY <1>5 DEF Step, Interact, PollEvdev, PollSurface, ReconnectDue, Reopened, Update,
     Request, ShutdownAsked, KillGroup, sourceVars, holdVars, fingerVars, stopVars,
     askVars
<1>6. CASE Finish
  BY <1>6 DEF Finish, Interact, PollEvdev, PollSurface, ReconnectDue, Reopened, Update,
     Request, ShutdownAsked, KillGroup, GroupExists, sourceVars, holdVars, fingerVars,
     stopVars, askVars
<1>7. CASE Arm
  BY <1>7 DEF Arm, sourceVars, holdVars, fingerVars, stopVars, askVars
<1>8. CASE Exec
  BY <1>8 DEF Exec, sourceVars, holdVars, fingerVars, stopVars, askVars
<1>9. CASE Fork
  BY <1>9 DEF Fork, Users, sourceVars, holdVars, fingerVars, stopVars, askVars
<1>10. ASSUME NEW p \in Procs, Die(p) PROVE Stages'
  BY <1>10 DEF Die, sourceVars, holdVars, fingerVars, stopVars, askVars
<1>11. ASSUME NEW p \in Procs, InitReaps(p) PROVE Stages'
  BY <1>11 DEF InitReaps, Reaped, sourceVars, holdVars, fingerVars, stopVars, askVars
<1>12. CASE Crash
  BY <1>12 DEF Crash, sourceVars, holdVars, fingerVars, stopVars, askVars
<1>13. CASE Press
  BY <1>13 DEF Press, Push, sourceVars, holdVars, fingerVars, stopVars, askVars
<1>14. CASE Lift
  BY <1>14 DEF Lift, Push, sourceVars, holdVars, fingerVars, stopVars, askVars
<1>15. CASE Conceal
  BY <1>15 DEF Conceal, sourceVars, holdVars, fingerVars, stopVars, askVars
<1>16. CASE Hotplug
  BY <1>16 DEF Hotplug, sourceVars, holdVars, fingerVars, stopVars, askVars
<1>17. CASE Ask
  BY <1>17 DEF Ask, sourceVars, holdVars, fingerVars, stopVars, askVars
<1>18. CASE Tick
  BY <1>18 DEF Tick, Later, sourceVars, holdVars, fingerVars, stopVars, askVars
<1>19. CASE UNCHANGED vars
  BY <1>19 DEF vars, sourceVars, holdVars, fingerVars, stopVars, askVars
<1> HIDE DEF TypeOK, Stages, Unstarted
<1> QED BY NextCases, <1>1, <1>2, <1>3, <1>4, <1>5, <1>6, <1>7, <1>8, <1>9, <1>10,
           <1>11, <1>12, <1>13, <1>14, <1>15, <1>16, <1>17, <1>18, <1>19

\* Only the end of the grace, a failed waitpid or a crash dooms anybody.
LEMMA GraceStep ==
  ASSUME TypeOK, Stages, GraceGranted, [Next]_vars
  PROVE  GraceGranted'
<1> USE DEF TypeOK, Stages, GraceGranted
<1>1. CASE Launch
  BY <1>1 DEF Launch, sourceVars, holdVars, fingerVars, stopVars, askVars
<1>2. CASE Spawned
  BY <1>2 DEF Spawned, Reaped, sourceVars, holdVars, fingerVars, stopVars, askVars
<1>3. CASE Wait
  BY <1>3 DEF Wait, Reaped, KillGroup, sourceVars, holdVars, fingerVars, stopVars, askVars
<1>4. CASE Reap
  BY <1>4 DEF Reap, Reaped, sourceVars, holdVars, fingerVars, stopVars, askVars
<1>5. CASE Step
  BY <1>5 DEF Step, Interact, PollEvdev, PollSurface, ReconnectDue, Reopened, Update,
     Request, ShutdownAsked, KillGroup, sourceVars, holdVars, fingerVars, stopVars,
     askVars
<1>6. CASE Finish
  BY <1>6 DEF Finish, Interact, PollEvdev, PollSurface, ReconnectDue, Reopened, Update,
     Request, ShutdownAsked, KillGroup, GroupExists, sourceVars, holdVars, fingerVars,
     stopVars, askVars
<1>7. CASE Arm
  BY <1>7 DEF Arm, sourceVars, holdVars, fingerVars, stopVars, askVars
<1>8. CASE Exec
  BY <1>8 DEF Exec, sourceVars, holdVars, fingerVars, stopVars, askVars
<1>9. CASE Fork
  BY <1>9 DEF Fork, Users, sourceVars, holdVars, fingerVars, stopVars, askVars
<1>10. ASSUME NEW p \in Procs, Die(p) PROVE GraceGranted'
  BY <1>10 DEF Die, sourceVars, holdVars, fingerVars, stopVars, askVars
<1>11. ASSUME NEW p \in Procs, InitReaps(p) PROVE GraceGranted'
  BY <1>11 DEF InitReaps, Reaped, sourceVars, holdVars, fingerVars, stopVars, askVars
<1>12. CASE Crash
  BY <1>12 DEF Crash, sourceVars, holdVars, fingerVars, stopVars, askVars
<1>13. CASE Press
  BY <1>13 DEF Press, Push, sourceVars, holdVars, fingerVars, stopVars, askVars
<1>14. CASE Lift
  BY <1>14 DEF Lift, Push, sourceVars, holdVars, fingerVars, stopVars, askVars
<1>15. CASE Conceal
  BY <1>15 DEF Conceal, sourceVars, holdVars, fingerVars, stopVars, askVars
<1>16. CASE Hotplug
  BY <1>16 DEF Hotplug, sourceVars, holdVars, fingerVars, stopVars, askVars
<1>17. CASE Ask
  BY <1>17 DEF Ask, sourceVars, holdVars, fingerVars, stopVars, askVars
<1>18. CASE Tick
  BY <1>18 DEF Tick, Later, sourceVars, holdVars, fingerVars, stopVars, askVars
<1>19. CASE UNCHANGED vars
  BY <1>19 DEF vars, sourceVars, holdVars, fingerVars, stopVars, askVars
<1> HIDE DEF TypeOK, Stages, GraceGranted
<1> QED BY NextCases, <1>1, <1>2, <1>3, <1>4, <1>5, <1>6, <1>7, <1>8, <1>9, <1>10,
           <1>11, <1>12, <1>13, <1>14, <1>15, <1>16, <1>17, <1>18, <1>19

\* Reading, losing and reopening the touchscreen keep the hold honest.
LEMMA GlassStep ==
  ASSUME TypeOK, Glass, [Next]_vars
  PROVE  Glass'
<1> USE DEF TypeOK, Glass
<1>1. CASE Launch
  BY <1>1 DEF Launch, sourceVars, holdVars, fingerVars, stopVars, askVars
<1>2. CASE Spawned
  BY <1>2 DEF Spawned, Reaped, sourceVars, holdVars, fingerVars, stopVars, askVars
<1>3. CASE Wait
  BY <1>3 DEF Wait, Reaped, KillGroup, sourceVars, holdVars, fingerVars, stopVars, askVars
<1>4. CASE Reap
  BY <1>4 DEF Reap, Reaped, sourceVars, holdVars, fingerVars, stopVars, askVars
<1>5. CASE Step
  BY <1>5 DEF Step, Interact, PollEvdev, PollSurface, ReconnectDue, Reopened, Update,
     Request, ShutdownAsked, KillGroup, sourceVars, holdVars, fingerVars, stopVars,
     askVars
<1>6. CASE Finish
  BY <1>6 DEF Finish, Interact, PollEvdev, PollSurface, ReconnectDue, Reopened, Update,
     Request, ShutdownAsked, KillGroup, GroupExists, sourceVars, holdVars, fingerVars,
     stopVars, askVars
<1>7. CASE Arm
  BY <1>7 DEF Arm, sourceVars, holdVars, fingerVars, stopVars, askVars
<1>8. CASE Exec
  BY <1>8 DEF Exec, sourceVars, holdVars, fingerVars, stopVars, askVars
<1>9. CASE Fork
  BY <1>9 DEF Fork, Users, sourceVars, holdVars, fingerVars, stopVars, askVars
<1>10. ASSUME NEW p \in Procs, Die(p) PROVE Glass'
  BY <1>10 DEF Die, sourceVars, holdVars, fingerVars, stopVars, askVars
<1>11. ASSUME NEW p \in Procs, InitReaps(p) PROVE Glass'
  BY <1>11 DEF InitReaps, Reaped, sourceVars, holdVars, fingerVars, stopVars, askVars
<1>12. CASE Crash
  BY <1>12 DEF Crash, sourceVars, holdVars, fingerVars, stopVars, askVars
<1>13. CASE Press
  BY <1>13 DEF Press, Push, sourceVars, holdVars, fingerVars, stopVars, askVars
<1>14. CASE Lift
  BY <1>14 DEF Lift, Push, sourceVars, holdVars, fingerVars, stopVars, askVars
<1>15. CASE Conceal
  BY <1>15 DEF Conceal, sourceVars, holdVars, fingerVars, stopVars, askVars
<1>16. CASE Hotplug
  BY <1>16 DEF Hotplug, sourceVars, holdVars, fingerVars, stopVars, askVars
<1>17. CASE Ask
  BY <1>17 DEF Ask, sourceVars, holdVars, fingerVars, stopVars, askVars
<1>18. CASE Tick
  BY <1>18 DEF Tick, Later, sourceVars, holdVars, fingerVars, stopVars, askVars
<1>19. CASE UNCHANGED vars
  BY <1>19 DEF vars, sourceVars, holdVars, fingerVars, stopVars, askVars
<1> HIDE DEF TypeOK, Glass
<1> QED BY NextCases, <1>1, <1>2, <1>3, <1>4, <1>5, <1>6, <1>7, <1>8, <1>9, <1>10,
           <1>11, <1>12, <1>13, <1>14, <1>15, <1>16, <1>17, <1>18, <1>19

\* The inductive invariant holds throughout.
THEOREM Invariance == Spec => []IInv
<1>1. Init => IInv
  BY DEF Init, IInv, TypeOK, Stages, GraceGranted, Glass, Unstarted, AllRoutes
<1>2. IInv /\ [Next]_vars => IInv'
  BY TypeStep, StagesStep, GraceStep, GlassStep DEF IInv
<1> QED BY <1>1, <1>2, PTL DEF Spec

\* The state of run_child keeps its types.
THEOREM TypeCorrect == Spec => []TypeOK
<1>1. IInv => TypeOK
  BY DEF IInv
<1> QED BY <1>1, Invariance, PTL

\* spawn_and_supervise and finish_stopped_group send no SIGKILL before the
\* grace is over, unless waitpid itself failed.
THEOREM NobodyKilledEarly == Spec => []GraceGranted
<1>1. IInv => GraceGranted
  BY DEF IInv
<1> QED BY <1>1, Invariance, PTL

\* A hold that is long enough, under a finger that is older, is TOUCH_HOLD old.
LEMMA Ages ==
  ASSUME HoldTicks \in Int, NEW h \in Int, NEW f \in Int,
         h > HoldTicks, f >= h - 1, f <= HoldTicks
  PROVE  f = HoldTicks
  OBVIOUS

\* A touch stops a child on the framebuffer only at the end of a real hold.
LEMMA HoldStep ==
  ASSUME TypeOK, Glass, Glass', [Next]_vars
  PROVE  [(route = "Evdev" /\ stop = "None" /\ stop' = "Touch")
            => (finger = "Down") /\ (fingerAge = HoldTicks)]_vars
<1> SUFFICES ASSUME Next, route = "Evdev", stop = "None", stop' = "Touch"
             PROVE  finger = "Down" /\ fingerAge = HoldTicks
  OBVIOUS
<1>1. CASE Step
  <2>1. Request = "Touch" /\ Interact
    BY <1>1 DEF Step
  <2>2. hold' > HoldTicks /\ queued' = "None" /\ PollEvdev
    BY <2>1 DEF Request, Interact
  <2>3. UNCHANGED <<route, finger, fingerAge>>
    BY <1>1 DEF Step, fingerVars
  <2>4. hold' > 0 /\ hold' \in Int
    BY <2>2 DEF PollEvdev, Update, TypeOK
  <2>5. source' = "Open"
    BY <2>2, <2>4 DEF PollEvdev, Glass, TypeOK
  <2>6. finger' = "Down" /\ fingerAge' >= hold' - 1
    BY <2>2, <2>3, <2>4, <2>5 DEF Glass
  <2>7. fingerAge \in Int /\ fingerAge <= HoldTicks
    BY DEF TypeOK
  <2>8. finger = "Down" /\ fingerAge >= hold' - 1
    BY <2>3, <2>6
  <2>9. hold' > HoldTicks /\ hold' \in Int /\ HoldTicks \in Int
    BY <2>2, <2>4
  <2>10. fingerAge = HoldTicks
    BY ONLY <2>7, <2>8, <2>9, Ages
  <2> QED BY <2>8, <2>10
<1>2. CASE Finish
  BY <1>2 DEF Finish, TypeOK
<1> QED
  BY <1>1, <1>2, NextCases
  DEF Launch, Spawned, Wait, Reap, Arm, Exec, Fork, Die, InitReaps, Crash, Press, Lift,
      Conceal, Hotplug, Ask, Tick, stopVars

\* ChildInteraction and TouchHold: on the framebuffer nothing but a finger that
\* stayed for TOUCH_HOLD makes the supervisor stop a child for a touch.
THEOREM HoldIsReal == Spec => HeldThroughout
<1>1. IInv /\ IInv' /\ [Next]_vars =>
        [(route = "Evdev" /\ stop = "None" /\ stop' = "Touch")
           => (finger = "Down") /\ (fingerAge = HoldTicks)]_vars
  BY HoldStep DEF IInv
<1> QED BY <1>1, Invariance, PTL DEF Spec, HeldThroughout

-----------------------------------------------------------------------------
(* The refinement.                                                         *)

\* What no process notices, the contract does not notice either.
LEMMA Unnoticed ==
  ASSUME UNCHANGED <<pc, proc, doomed, term>>
  PROVE  UNCHANGED <<phase, Users>>
  BY DEF phase, Users

\* Every step of the supervisor is a step of the contract, or none.
LEMMA ContractStep ==
  ASSUME TypeOK, Stages, [Next]_vars
  PROVE  [Contract!Next]_(Contract!vars)
<1> USE DEF TypeOK, Stages, phase, Unstarted
<1>1. CASE Launch
  <2>1. Users' = Users
    BY <1>1 DEF Launch, Users
  <2>2. Users = {}
    BY <1>1 DEF Launch, Users
  <2>3. CASE pc' = "Spawning"
    <3>1. phase' = phase
      BY <1>1, <2>3 DEF Launch
    <3> QED BY <2>1, <3>1 DEF Contract!vars
  <2>4. CASE pc' = "Returned"
    <3>1. phase = "Idle" /\ phase' = "Over"
      BY <1>1, <2>4 DEF Launch
    <3> QED BY <2>1, <2>2, <3>1 DEF Contract!Next, Contract!Over
  <2> QED BY <1>1, <2>3, <2>4 DEF Launch
<1>2. CASE Spawned
  <2>1. CASE proc[Leader] \notin Unstarted
    BY <1>2, <2>1, Unnoticed DEF Spawned, stopVars, Contract!vars, Users, Reaped
  <2>2. CASE proc[Leader] \in Unstarted
    <3>1. phase = "Idle" /\ phase' = "Over"
      BY <1>2, <2>2 DEF Spawned
    <3>2. Users = {} /\ Users' = {}
      BY <1>2, <2>2 DEF Spawned, Users, Reaped
    <3> QED BY <3>1, <3>2 DEF Contract!Next, Contract!Over
  <2> QED BY <2>1, <2>2
<1>3. CASE Wait
  <2>1. phase \in {"Running", "Stopping"} /\ (phase = "Stopping" <=> term = "Sent")
    BY <1>3 DEF Wait
  <2>2. CASE pc' = "Reap"
    <3>1. phase' = phase
      BY <1>3, <2>2 DEF Wait, stopVars
    <3>2. Users' = {}
      BY <1>3, <2>2 DEF Wait, KillGroup, Users
    <3> QED BY <3>1, <3>2 DEF Contract!Next, Contract!Live
  <2>3. CASE pc' # "Reap"
    <3>1. Users' = Users /\ (pc' # "Step" => Leader \notin Users)
      BY <1>3, <2>3 DEF Wait, Reaped, Users
    <3>2. CASE pc' = "Returned"
      <4>1. phase = "Running" /\ phase' = "Over" /\ Users' = Users \ {Leader}
        BY <1>3, <2>1, <3>1, <3>2 DEF Wait
      <4> QED BY <4>1 DEF Contract!Next, Contract!Over
    <3>3. CASE pc' # "Returned"
      <4>1. phase' = phase
        BY <1>3, <2>3, <3>3 DEF Wait, Reaped, stopVars
      <4> QED BY <3>1, <4>1 DEF Contract!vars
    <3> QED BY <3>2, <3>3
  <2> QED BY <2>2, <2>3
<1>4. CASE Reap
  <2>1. Users = {} /\ Users' = {}
    BY <1>4 DEF Reap, Reaped, Users
  <2>2. phase \in {"Running", "Stopping"} /\ phase' = "Over"
    BY <1>4 DEF Reap
  <2> QED BY <2>1, <2>2 DEF Contract!Next, Contract!Over
<1>5. CASE Step
  <2>1. phase \in {"Running", "Stopping"} /\ (phase = "Stopping" <=> term = "Sent")
    BY <1>5 DEF Step
  <2>2. CASE term = "No" /\ term' = "Sent"
    <3>1. sinceTerm' = 0 /\ doomed' = doomed /\ proc' = proc
      BY <1>5, <2>2 DEF Step
    <3>2. phase = "Running" /\ phase' = "Stopping" /\ Users' = Users
      BY <1>5, <2>1, <2>2, <3>1 DEF Step, Users
    <3> QED BY <3>2 DEF Contract!Next, Contract!Stop
  <2>3. CASE term' = term
    <3>1. phase' = phase
      BY <1>5, <2>3 DEF Step
    <3>2. Users' \in SUBSET Users
      BY <1>5 DEF Step, KillGroup, Users
    <3>3. Users \subseteq Procs
      BY DEF Users
    <3> QED BY <3>1, <3>2, <3>3 DEF Contract!Next, Contract!Live
  <2> QED BY <1>5, <2>2, <2>3 DEF Step
<1>6. CASE Finish
  <2>1. phase = "Stopping"
    BY <1>6 DEF Finish
  <2>2. CASE pc' = "Returned"
    <3>1. phase' = "Over"
      BY <2>2
    <3>2. Users' = {}
      BY <1>6, <2>2 DEF Finish, KillGroup, GroupExists, Users
    <3> QED BY <2>1, <3>1, <3>2 DEF Contract!Next, Contract!Over
  <2>3. CASE pc' # "Returned"
    BY <1>6, <2>3, Unnoticed DEF Finish, Contract!vars
  <2> QED BY <2>2, <2>3
<1>7. CASE Arm
  <2>1. Users' = Users
    BY <1>7 DEF Arm, Users
  <2>2. phase' = phase
    BY <1>7 DEF Arm, stopVars
  <2> QED BY <2>1, <2>2 DEF Contract!vars
<1>8. CASE Exec
  <2>1. CASE pc = "Crashed"
    <3>1. Users' = Users /\ phase' = phase
      BY <1>8, <2>1 DEF Exec, Users
    <3> QED BY <3>1 DEF Contract!vars
  <2>2. CASE pc # "Crashed"
    <3>1. phase = "Idle" /\ phase' = "Running"
      BY <1>8, <2>2 DEF Exec, stopVars
    <3>2. Users' = {Leader}
      BY <1>8, <2>2 DEF Exec, Users
    <3> QED BY <3>1, <3>2 DEF Contract!Next, Contract!Run
  <2> QED BY <2>1, <2>2
<1>9. CASE Fork
  <2>1. phase' = phase
    BY <1>9 DEF Fork, stopVars
  <2>2. Users # {} /\ Users' \subseteq Procs
    BY <1>9 DEF Fork, Users
  <2> QED BY <2>1, <2>2 DEF Contract!Next, Contract!Live
<1>10. ASSUME NEW p \in Procs, Die(p) PROVE [Contract!Next]_(Contract!vars)
  <2>1. phase' = phase
    BY <1>10 DEF Die, stopVars
  <2>2. Users' \subseteq Users /\ Users \subseteq Procs
    BY <1>10 DEF Die, Users
  <2> QED BY <2>1, <2>2 DEF Contract!Next, Contract!Live
<1>11. ASSUME NEW p \in Procs, InitReaps(p) PROVE [Contract!Next]_(Contract!vars)
  <2>1. phase' = phase
    BY <1>11 DEF InitReaps, Reaped, stopVars
  <2>2. Users' = Users
    BY <1>11 DEF InitReaps, Reaped, Users
  <2> QED BY <2>1, <2>2 DEF Contract!vars
<1>12. CASE Crash
  <2>1. phase # "Over" /\ phase' = "Orphaned"
    BY <1>12 DEF Crash
  <2>2. Users' = Users \ {Leader}
    BY <1>12 DEF Crash, Users
  <2> QED BY <2>1, <2>2 DEF Contract!Next, Contract!Orphan
<1>13. CASE Press \/ Lift \/ Conceal \/ Hotplug \/ Ask \/ Tick \/ UNCHANGED vars
  <2>1. UNCHANGED <<pc, proc, doomed, term>>
    BY <1>13 DEF Press, Lift, Conceal, Hotplug, Ask, Tick, vars, stopVars
  <2> QED BY <2>1, Unnoticed DEF Contract!vars
<1> HIDE DEF TypeOK, Stages, phase, Unstarted
<1> QED BY NextCases, <1>1, <1>2, <1>3, <1>4, <1>5, <1>6, <1>7, <1>8, <1>9, <1>10, <1>11,
           <1>12, <1>13

\* run_child implements ChildContract: whatever the program forks, ignores or
\* leaves behind, and wherever the dashboard is killed.
THEOREM ContractKept == Spec => KeepsContract
<1>1. Init => Contract!Init
  BY DEF Init, Contract!Init, phase, Users, Unstarted
<1>2. IInv /\ [Next]_vars => [Contract!Next]_(Contract!vars)
  BY ContractStep DEF IInv
<1> QED BY <1>1, <1>2, Invariance, PTL DEF Spec, KeepsContract, Contract!Spec
=============================================================================
