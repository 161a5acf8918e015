------------------------------ MODULE Chiptune ------------------------------
(***************************************************************************)
(* The chiptune player (native/src/chiptune_ui/mod.rs) with its decoders   *)
(* (native/src/chiptune.rs) and its stream of sound (native/src/audio.rs): *)
(* one thread decodes, draws and reads commands, a worker takes blocks     *)
(* from a bounded channel and blocks on the device.                        *)
(*                                                                         *)
(* Blocks of sound are numbered round, time is counted in blocks, and what *)
(* the decoders make of a file is left out but for where it ends or fails. *)
(***************************************************************************)
EXTENDS Integers, FiniteSets, SequencesExt

CONSTANTS
  FileCount,      \* files found
  Tracks,         \* tracks of each file, 0 for one that does not open
  Ogg,            \* the files of one track that have no other
  CHIPTUNE_QUEUE_BLOCKS,
  Loudest,        \* the volume has the steps 0..Loudest
  MaxBatch,       \* bound: commands of one turn
  MaxAhead,       \* bound: blocks the pacing is ahead of the clock
  Scopes          \* bounds, one record per behaviour: [device, commands, volumes]

ASSUME ChiptuneAssumption ==
  /\ {FileCount, CHIPTUNE_QUEUE_BLOCKS, Loudest, MaxAhead} \subseteq Nat \ {0} /\ MaxBatch \in Nat
  /\ Tracks \in [1..FileCount -> Nat] /\ Ogg \subseteq {f \in 1..FileCount : Tracks[f] = 1}
  /\ \A s \in Scopes : s.device \in {"works", "stalls", "fails"} /\ s.volumes \subseteq 0..Loudest

Numbers == CHIPTUNE_QUEUE_BLOCKS + 3       \* block numbers go round
None == -1
Commands == {"PreviousFile", "NextFile", "PreviousTrack", "NextTrack", "Pause", "Mode", "VolumeUp", "VolumeDown", "Back"}

VARIABLES
  scope,            \* what /dev/dsp does, and what may be commanded
  place, then,      \* where run is; what follows when the stream is closed: a volume, and to leave
  state,            \* PlayerState: open (it has metadata), file_index, track, mode, paused, pending, pending_end
  audio_owned, volume, dirty,      \* Session
  ahead,            \* next_block less now
  shown,            \* what the screen says
  advanced,         \* a track has ended since all of the screen was drawn
  saved,            \* the volume in the state file
  stream,           \* PcmPlayer: "None", "Muted" or "Open"
  channel, sending, \* blocks sent to the worker and not received; the sending end stands
  stopping,
  worker,           \* where it is, "None", "Receiving", "Writing" or "Done", and its block
  late,             \* blocks heard since the stream was told to stop
  number,           \* of the next block
  shutdown

sessionVars == <<audio_owned, volume, dirty, saved>>
streamVars == <<stream, channel, sending, stopping, worker, late>>
screenVars == <<shown, advanced>>
chiptuneVars == <<scope, place, then, state, sessionVars, ahead, screenVars, streamVars, number, shutdown>>

-----------------------------------------------------------------------------
(* PlayerState.                                                            *)

Screen ==
  [open |-> state.open, file |-> state.file_index, track |-> state.track, mode |-> state.mode,
   paused |-> state.paused, volume |-> volume]

note_metadata(st) == [st EXCEPT !.paused = FALSE, !.pending = None, !.pending_end = FALSE]

Opens(f) == Tracks[f] > 0

open_index(st, f) ==
  IF Opens(f) THEN note_metadata([st EXCEPT !.open = TRUE, !.file_index = f, !.track = 1]) ELSE st

\* The first file of a sequence that opens is opened; a file that does not changes nothing.
FirstThat(files) == LET good == {i \in DOMAIN files : Opens(files[i])} IN
                    IF good = {} THEN 0 ELSE CHOOSE i \in good : \A j \in good : i <= j
open_any(st, files) == IF FirstThat(files) = 0 THEN st ELSE open_index(st, files[FirstThat(files)])

Wrap(f) == ((f - 1) % FileCount) + 1
file_candidates(current, direction) == [attempt \in 1..FileCount |-> Wrap(current + direction * attempt + FileCount)]
navigate(st, direction) == open_any(st, file_candidates(st.file_index, direction))
Navigates(st, direction) == FirstThat(file_candidates(st.file_index, direction)) # 0

shuffle_candidates(current, offset) ==
  LET candidate(attempt) == Wrap(current + offset + attempt - 1)
  IN [attempt \in {a \in 1..FileCount : FileCount = 1 \/ candidate(a) # current} |-> candidate(attempt)]

start_track(st, track) == note_metadata([st EXCEPT !.track = track])

fail_playback(st) == [st EXCEPT !.open = FALSE, !.pending = None, !.pending_end = FALSE]

NextMode(mode) == CASE mode = "LoopAll" -> "LoopOne" [] mode = "LoopOne" -> "Shuffle" [] OTHER -> "LoopAll"

\* advance: the states it may lead to, whatever refuses to start.  A shuffle
\* that has opened a file may fail in its track.
Shuffled(st, offset) ==
  LET files == shuffle_candidates(st.file_index, offset)
      opened == IF FirstThat(files) # 0 THEN open_any(st, files) ELSE open_index(st, st.file_index)
  IN IF Tracks[opened.file_index] > 1
     THEN {start_track(opened, t) : t \in 1..Tracks[opened.file_index]} \cup {fail_playback(opened)}
     ELSE {opened}

advance(st) ==
  {fail_playback(st)} \cup
  CASE st.mode = "LoopOne" -> {st}
    [] st.mode = "LoopAll" /\ st.track < Tracks[st.file_index] -> {start_track(st, st.track + 1)}
    [] st.mode = "LoopAll" /\ st.track = Tracks[st.file_index] -> {navigate(st, 1)}
    [] OTHER -> UNION {Shuffled(st, o) : o \in IF FileCount > 1 THEN 1..(FileCount - 1) ELSE {0}}

-----------------------------------------------------------------------------
(* The stream of sound.                                                    *)

NoWorker == [pc |-> "None", block |-> None]
Next_number(n) == (n + 1) % Numbers
Before(n) == (n + Numbers - 1) % Numbers

\* open_chiptune_pcm when the old stream is closed: whether it succeeds.
OpenStream(requested) ==
  \/ /\ requested = 0 /\ stream' = "Muted" /\ sending' = FALSE /\ worker' = NoWorker
     /\ channel' = <<>> /\ stopping' = FALSE /\ late' = 0
  \/ /\ requested > 0 /\ stream' = "Open" /\ sending' = TRUE /\ worker' = [NoWorker EXCEPT !.pc = "Receiving"]
     /\ channel' = <<>> /\ stopping' = FALSE /\ late' = 0

NoStream ==
  /\ stream' = "None" /\ sending' = FALSE /\ worker' = NoWorker
  /\ channel' = <<>> /\ stopping' = FALSE /\ late' = 0

\* close_chiptune_pcm, up to the join of the worker.
CloseUnsent ==
  /\ stopping' = (stream = "Open")
  /\ UNCHANGED <<stream, channel, sending, worker, late>>
CloseStream ==
  /\ stopping' = (stream = "Open") /\ sending' = FALSE
  /\ UNCHANGED <<stream, channel, worker, late>>

Joined == stream # "Open" \/ worker.pc = "Done"

\* chiptune_pcm_worker.
ReceiveAnyway ==
  /\ worker.pc = "Receiving"
  /\ \/ /\ channel # <<>>
        /\ worker' = [pc |-> "Writing", block |-> Head(channel)] /\ channel' = Tail(channel)
     \/ /\ channel = <<>> /\ ~sending
        /\ worker' = [NoWorker EXCEPT !.pc = "Done"] /\ UNCHANGED channel
Receive ==
  /\ worker.pc = "Receiving"
  /\ \/ /\ channel # <<>> /\ ~stopping
        /\ worker' = [pc |-> "Writing", block |-> Head(channel)] /\ channel' = Tail(channel)
     \/ /\ IF channel = <<>> THEN ~sending ELSE stopping
        /\ worker' = [NoWorker EXCEPT !.pc = "Done"] /\ channel' = <<>>

\* The time of a block passes: pacing never falls behind by more than one.
Sooner == IF ahead >= 0 THEN ahead - 1 ELSE ahead

\* The device takes a block in the time of a block ...
Heard ==
  /\ scope.device # "stalls" /\ worker.pc = "Writing"
  /\ worker' = [NoWorker EXCEPT !.pc = "Receiving"]
  /\ late' = IF stopping THEN late + 1 ELSE 0
  /\ ahead' = Sooner
  /\ UNCHANGED channel

\* ... or breaks, and the channel with it.
Breaks ==
  /\ scope.device = "fails" /\ worker.pc = "Writing"
  /\ worker' = [NoWorker EXCEPT !.pc = "Done"] /\ channel' = <<>>
  /\ UNCHANGED <<late, ahead>>

Worker ==
  /\ \/ Receive /\ UNCHANGED <<late, ahead>>
     \/ Heard
     \/ Breaks
  /\ UNCHANGED <<scope, place, then, state, sessionVars, screenVars, stream, sending, stopping, number, shutdown>>

-----------------------------------------------------------------------------
(* run: generate, draw, apply.                                             *)

Sends == audio_owned /\ volume > 0
Full == stream = "Open" /\ worker.pc # "Done" /\ Len(channel) = CHIPTUNE_QUEUE_BLOCKS

BusyLost(st, block, ended) == [st EXCEPT !.pending = None, !.pending_end = ended]
Busy(st, block, ended) == [st EXCEPT !.pending = block, !.pending_end = ended]

\* flush: the block is sent, is kept for later, or is let go with the sound.
\* fresh says that it was decoded in this turn.
flush(block, ended, fresh) ==
  LET gone == [state EXCEPT !.pending = None, !.pending_end = FALSE]
      OnTo == IF ended THEN state' \in advance(gone) /\ advanced' = TRUE ELSE state' = gone /\ UNCHANGED advanced
  IN \/ /\ Sends /\ Full
        /\ state' = Busy(state, block, ended)
        /\ number' = IF fresh THEN Next_number(block) ELSE number
        /\ UNCHANGED <<streamVars, audio_owned, advanced>>
     \/ /\ Sends /\ ~Full /\ worker.pc # "Done"
        /\ channel' = Append(channel, block)
        /\ OnTo
        /\ number' = Next_number(block)
        /\ UNCHANGED <<stream, sending, stopping, worker, late, audio_owned>>
     \/ /\ Sends /\ worker.pc = "Done"
        /\ audio_owned' = FALSE /\ NoStream
        /\ OnTo
        /\ number' = block
     \/ /\ ~Sends
        /\ OnTo
        /\ number' = block
        /\ UNCHANGED <<streamVars, audio_owned>>

DecodesAloud == state.open /\ ~state.paused /\ state.pending = None /\ Sends
Decodes ==
  /\ state.open /\ ~state.paused /\ state.pending = None
  /\ Sends \/ ahead <= 0

Generate ==
  /\ place = "Generate" /\ place' = "Draw"
  /\ \/ /\ ~state.open \/ state.paused
        /\ UNCHANGED <<state, audio_owned, streamVars, number, ahead, dirty, advanced>>
     \/ /\ state.open /\ ~state.paused /\ state.pending # None
        /\ flush(state.pending, state.pending_end, FALSE)
        /\ UNCHANGED <<ahead, dirty>>
     \/ /\ state.open /\ ~state.paused /\ state.pending = None /\ ~Decodes
        /\ UNCHANGED <<state, audio_owned, streamVars, number, ahead, dirty, advanced>>
     \/ /\ Decodes
        /\ \E ended \in BOOLEAN : flush(number, ended, TRUE)
        /\ ahead' = IF ahead < MaxAhead THEN ahead + 1 ELSE ahead
        /\ UNCHANGED dirty
     \/ /\ Decodes                       \* the file is damaged
        /\ state' = fail_playback(state) /\ dirty' = TRUE
        /\ UNCHANGED <<audio_owned, streamVars, number, ahead, advanced>>
  /\ UNCHANGED <<scope, then, volume, saved, shown, shutdown>>

\* run returns, and the session with it.
Leave ==
  /\ place' = "Join" /\ then' = [volume |-> None, leave |-> TRUE]
  /\ IF audio_owned THEN CloseStream ELSE UNCHANGED streamVars

Draw ==
  /\ place = "Draw"
  /\ \/ /\ dirty
        /\ shown' = Screen /\ dirty' = FALSE /\ advanced' = FALSE
        /\ place' = "Commands"
        /\ UNCHANGED <<then, streamVars>>
     \/ /\ ~dirty                        \* nothing, or the waveform and the time alone
        /\ place' = "Commands"
        /\ UNCHANGED <<shown, dirty, advanced, then, streamVars>>
     \/ /\ Leave                         \* the screen is lost
        /\ UNCHANGED <<shown, dirty, advanced>>
  /\ UNCHANGED <<scope, state, audio_owned, volume, saved, ahead, number, shutdown>>

\* What the commands make of the state, and of dirty. A file that does not
\* open or a track that refuses to start leaves the old one on.
Moved(s, direction) ==
  IF Navigates(s.state, direction) THEN [state |-> navigate(s.state, direction), dirty |-> TRUE] ELSE s

switch_trackPast(s, direction) ==
  {s} \cup
  IF s.state.open THEN {[state |-> start_track(s.state, s.state.track + direction), dirty |-> TRUE]} ELSE {}
switch_track(s, direction) ==
  LET st == s.state
      count == Tracks[st.file_index]
  IN {s} \cup
     IF st.open /\ st.file_index \notin Ogg
     THEN {[state |-> start_track(st, ((st.track - 1 + direction + count) % count) + 1), dirty |-> TRUE]}
     ELSE {}

PressedUnseen(s, batch) ==
  [s EXCEPT !.state.paused = IF "Pause" \in batch THEN ~@ ELSE @,
            !.state.mode = IF "Mode" \in batch THEN NextMode(@) ELSE @]
Pressed(s, batch) == [PressedUnseen(s, batch) EXCEPT !.dirty = @ \/ (batch \cap {"Pause", "Mode"} # {})]

Applied(batch) ==
  LET start == [state |-> state, dirty |-> dirty]
      back == IF "PreviousFile" \in batch THEN Moved(start, -1) ELSE start
      on == IF "NextFile" \in batch THEN Moved(back, 1) ELSE back
      earlier == IF "PreviousTrack" \in batch THEN switch_track(on, -1) ELSE {on}
      later == IF "NextTrack" \in batch THEN UNION {switch_track(s, 1) : s \in earlier} ELSE earlier
  IN {Pressed(s, batch) : s \in later}

Requested(batch) ==
  IF "VolumeUp" \in batch THEN IF volume < Loudest THEN volume + 1 ELSE volume
  ELSE IF "VolumeDown" \in batch /\ volume > 0 THEN volume - 1 ELSE volume

Batches == UNION {kSubset(n, scope.commands) : n \in 0..MaxBatch}

Apply ==
  /\ place = "Commands" /\ ~shutdown
  /\ \E batch \in Batches :
       /\ \E s \in Applied(batch) : state' = s.state /\ dirty' = s.dirty
       /\ number' = IF state.pending # None /\ state'.pending = None THEN Before(number) ELSE number
       /\ IF Requested(batch) # volume THEN
            /\ place' = "Join"
            /\ then' = [volume |-> Requested(batch), leave |-> "Back" \in batch]
            /\ CloseStream
          ELSE IF "Back" \in batch THEN Leave
          ELSE place' = "Generate" /\ UNCHANGED <<then, streamVars>>
  /\ UNCHANGED <<scope, audio_owned, volume, saved, ahead, shown, advanced, shutdown>>

\* A signal, the compositor or a lost touchscreen ends the loop.
Told ==
  /\ place \in {"Generate", "Commands"} /\ shutdown /\ Leave
  /\ UNCHANGED <<scope, state, sessionVars, ahead, screenVars, number, shutdown>>

\* set_volume when the old stream is gone, or the end of run.
Join ==
  /\ place = "Join" /\ Joined
  /\ \/ /\ then.volume = None
        /\ NoStream /\ audio_owned' = FALSE
        /\ UNCHANGED <<volume, saved, dirty>>
     \/ /\ then.volume # None
        /\ OpenStream(then.volume) /\ audio_owned' = TRUE
        /\ volume' = then.volume /\ saved' \in {saved, volume'} /\ dirty' = TRUE
     \/ /\ then.volume \notin {None, 0}               \* the device is refused
        /\ NoStream /\ audio_owned' = FALSE /\ dirty' = TRUE
        /\ UNCHANGED <<volume, saved>>
  /\ place' = IF ~then.leave THEN "Generate" ELSE IF then.volume = None THEN "Ended" ELSE "Leaving"
  /\ UNCHANGED <<scope, then, state, ahead, screenVars, number, shutdown>>

Leaving ==
  /\ place = "Leaving" /\ Leave
  /\ UNCHANGED <<scope, state, sessionVars, ahead, screenVars, number, shutdown>>

Player == Generate \/ Draw \/ Apply \/ Told \/ Join \/ Leaving

Clock ==
  /\ place # "Ended" /\ ahead' = Sooner
  /\ UNCHANGED <<scope, place, then, state, sessionVars, screenVars, streamVars, number, shutdown>>

Shutdown ==
  /\ "Back" \in scope.commands /\ place # "Ended" /\ ~shutdown /\ shutdown' = TRUE
  /\ UNCHANGED <<scope, place, then, state, sessionVars, ahead, screenVars, streamVars, number>>

PlayerInit ==
  /\ scope \in Scopes
  /\ place = "Generate" /\ then = [volume |-> None, leave |-> FALSE]
  /\ state = open_any([open |-> FALSE, file_index |-> 1, track |-> 1, mode |-> "LoopAll", paused |-> FALSE,
                       pending |-> None, pending_end |-> FALSE], [f \in 1..FileCount |-> f])
  /\ volume \in scope.volumes /\ saved = volume /\ dirty = TRUE /\ ahead = 0
  /\ shown = [Screen EXCEPT !.open = FALSE] /\ advanced = FALSE
  /\ audio_owned \in BOOLEAN
  /\ stream = IF ~audio_owned THEN "None" ELSE IF volume = 0 THEN "Muted" ELSE "Open"
  /\ sending = (stream = "Open") /\ channel = <<>> /\ stopping = FALSE /\ late = 0
  /\ worker = [NoWorker EXCEPT !.pc = IF stream = "Open" THEN "Receiving" ELSE "None"]
  /\ number = 0 /\ shutdown = FALSE

PlayerNext == Player \/ Worker \/ Clock \/ Shutdown

PlayerSpec == PlayerInit /\ [][PlayerNext]_chiptuneVars

\* The thread, the worker and a device that works go on, and time passes.
FairPlayerSpec == PlayerSpec /\ WF_chiptuneVars(Player) /\ WF_chiptuneVars(Worker) /\ WF_chiptuneVars(Clock)

-----------------------------------------------------------------------------
(* Properties.                                                             *)

(* Types; a file that plays is one that opens, at a track it has.          *)
PlayerTypeOK ==
  /\ scope \in Scopes /\ place \in {"Generate", "Draw", "Commands", "Join", "Leaving", "Ended"}
  /\ then \in [volume : None..Loudest, leave : BOOLEAN]
  /\ state.mode \in {"LoopAll", "LoopOne", "Shuffle"} /\ state.pending \in None..(Numbers - 1)
  /\ {state.open, state.paused, state.pending_end, audio_owned, dirty, advanced, sending, stopping, shutdown} \subseteq BOOLEAN
  /\ state.open => state.track \in 1..Tracks[state.file_index]
  /\ {volume, saved, shown.volume} \subseteq 0..Loudest /\ ahead \in -1..MaxAhead
  /\ stream \in {"None", "Muted", "Open"} /\ Len(channel) <= CHIPTUNE_QUEUE_BLOCKS
  /\ worker.pc \in {"None", "Receiving", "Writing", "Done"} /\ number \in 0..(Numbers - 1)

(* What is heard is what was decoded: the block in the writer's hands,     *)
(* those in the channel, the one the full channel refused and the next one *)
(* follow each other without a gap or a repetition (flush, generate).      *)
BlocksInOrder ==
  LET held == IF worker.pc = "Writing" THEN <<worker.block>> ELSE <<>>
      kept == IF state.pending = None THEN <<>> ELSE <<state.pending>>
      all == held \o channel \o kept \o <<number>>
  IN stream = "Open" /\ worker.pc # "Done" => \A i \in 1..(Len(all) - 1) : all[i + 1] = Next_number(all[i])

(* A player that waits for commands shows what it plays and how, unless a  *)
(* track has ended by itself since all of the screen was drawn: that end   *)
(* draws nothing (Session::apply, generate, advance).                      *)
ScreenTrue == place = "Commands" /\ ~advanced => shown = Screen

(* A stream that is closed is not played out: at most the block that the   *)
(* worker holds is heard after it, so a volume or an exit is prompt        *)
(* (close_chiptune_pcm, chiptune_pcm_worker).                              *)
OneBlockLate == late <= 1

(* While a file is open and not paused blocks go on being decoded, aloud   *)
(* or muted, at a device that works or is gone (generate).                 *)
KeepsPlaying ==
  (state.open /\ ~state.paused /\ scope.device # "stalls") ~>
    (~state.open \/ state.paused \/ place = "Ended" \/ (place = "Generate" /\ Decodes))

(* The player ends when it is told to, whatever the channel holds, unless  *)
(* the device has stalled (run, close_chiptune_pcm).                       *)
EndsWhenTold == (shutdown /\ scope.device # "stalls") ~> (place = "Ended")

(* What is heard and shown is what is played: blocks in order, none of a   *)
(* closed stream but one, and the screen as the session is.                *)
PlayerSafe == PlayerTypeOK /\ BlocksInOrder /\ OneBlockLate /\ ScreenTrue

(* The player plays on while it should, and ends when it is told to.       *)
PlayerGoesOn == KeepsPlaying /\ EndsWhenTold
=============================================================================
