----------------------------- MODULE StateFile -----------------------------
(***************************************************************************)
(* Small files that several programs keep in one directory                 *)
(* (native/src/state_file.rs): a text is written to a temporary file with  *)
(* a name of its own, synced, renamed over the file, and the directory is  *)
(* synced. Programs are killed and the power is lost between the steps.    *)
(*                                                                         *)
(* A text is a number; what is not a number has a name below zero.         *)
(***************************************************************************)
EXTENDS Integers

CONSTANTS
  Files,
  Pids,
  Texts,            \* what is written to files, and Missing
  TEMPORARY_ATTEMPTS

Missing == -1
Torn == -2        \* a text of which a power loss has left a part

ASSUME FilesAssumption ==
  /\ Missing \in Texts /\ Texts \subseteq Int \ {Torn} /\ Files # {}
  /\ TEMPORARY_ATTEMPTS \in Nat \ {0}

VARIABLES
  file,           \* the text a reader finds
  old,            \* the texts a power loss may bring back instead
  temps,          \* temporary names that exist: file, process, attempt
  writing,        \* write_bounded of each process
  kept,           \* history: the texts a file may have, after what was answered
  faults          \* bound: errors of the file system still to come

fileVars == <<file, old, temps, writing, kept, faults>>

Idle == [pc |-> "None", file |-> CHOOSE f \in Files : TRUE, text |-> Missing, attempt |-> 0, disk |-> "Part"]

Faulty == faults > 0 /\ faults' = faults - 1

\* A reader finds the text as it is at one moment: rename replaces the file.
read(f) == file[f]

-----------------------------------------------------------------------------
(* write_bounded.                                                          *)

Begin(p, f, text) ==
  /\ writing' = [writing EXCEPT ![p] = [Idle EXCEPT !.pc = "Create", !.file = f, !.text = text]]
  /\ kept' = [kept EXCEPT ![f] = @ \cup {text}]
  /\ UNCHANGED <<file, old, temps, faults>>

Step(p, pc) == writing' = [writing EXCEPT ![p].pc = pc]

Name(p) == <<writing[p].file, p, writing[p].attempt>>

Free(p) == {a \in 0..(TEMPORARY_ATTEMPTS - 1) : <<writing[p].file, p, a>> \notin temps}

Create(p) ==
  /\ writing[p].pc = "Create"
  /\ \/ \E a \in Free(p) :
          /\ \A b \in Free(p) : a <= b
          /\ writing' = [writing EXCEPT ![p].pc = "Write", ![p].attempt = a]
          /\ temps' = temps \cup {<<writing[p].file, p, a>>}
          /\ UNCHANGED faults
     \/ Free(p) = {} /\ Step(p, "Error") /\ UNCHANGED <<temps, faults>>
     \/ Faulty /\ Step(p, "Error") /\ UNCHANGED temps
  /\ UNCHANGED <<file, old, kept>>

\* write_all or sync_all, or rename, fails: the temporary file is removed.
FailsKeeping(p) ==
  /\ writing[p].pc \in {"Write", "Rename"} /\ Faulty /\ Step(p, "Error")
  /\ UNCHANGED <<file, old, temps, kept>>
Fails(p) ==
  /\ writing[p].pc \in {"Write", "Rename"} /\ Faulty /\ Step(p, "Error")
  /\ temps' = temps \ {Name(p)}
  /\ UNCHANGED <<file, old, kept>>

WriteUnsynced(p) ==
  /\ writing[p].pc = "Write" /\ Step(p, "Rename")
  /\ UNCHANGED <<file, old, temps, kept, faults>>
Write(p) ==
  /\ writing[p].pc = "Write"
  /\ writing' = [writing EXCEPT ![p].pc = "Rename", ![p].disk = "All"]
  /\ UNCHANGED <<file, old, temps, kept, faults>>

Rename(p) ==
  /\ writing[p].pc = "Rename" /\ Step(p, "Sync")
  /\ LET f == writing[p].file IN
     /\ file' = [file EXCEPT ![f] = writing[p].text]
     /\ old' = [old EXCEPT ![f] = @ \cup {file[f]} \cup IF writing[p].disk = "All" THEN {} ELSE {Torn}]
  /\ temps' = temps \ {Name(p)}
  /\ UNCHANGED <<kept, faults>>

\* What becomes of the directory changes nothing in what is answered; only a
\* text whose name is on the disk is one that nothing takes back.
NeverSynced(p) ==
  /\ writing[p].pc = "Sync" /\ Step(p, "Saved")
  /\ kept' = [kept EXCEPT ![writing[p].file] = {writing[p].text}]
  /\ UNCHANGED <<file, old, temps, faults>>
SyncDirectory(p) ==
  /\ writing[p].pc = "Sync" /\ Step(p, "Saved")
  /\ \/ /\ old' = [old EXCEPT ![writing[p].file] = {}] /\ UNCHANGED faults
        /\ kept' = [kept EXCEPT ![writing[p].file] = {writing[p].text}]
     \/ Faulty /\ UNCHANGED <<old, kept>>
  /\ UNCHANGED <<file, temps>>

write_bounded(p) == Create(p) \/ Write(p) \/ Rename(p) \/ SyncDirectory(p) \/ Fails(p)

-----------------------------------------------------------------------------
(* The ends of programs.                                                   *)

Stopped(processes) == writing' = [p \in Pids |-> IF p \in processes THEN Idle ELSE writing[p]]

\* The directory comes back as some of its changes have left it.
PowerLost ==
  /\ file' \in [Files -> UNION {{file[f]} \cup old[f] : f \in Files}]
  /\ \A f \in Files : file'[f] \in {file[f]} \cup old[f]
  /\ old' = [f \in Files |-> {}]
  /\ Stopped(Pids)
  /\ UNCHANGED <<temps, kept, faults>>

-----------------------------------------------------------------------------
(* The files by themselves: what the programs that write them may rely on, *)
(* provided that only one of them writes a file at a time.                 *)

Unwritten(f) == \A p \in Pids : writing[p].pc # "None" => writing[p].file # f

FileInit ==
  /\ file \in [Files -> Texts]
  /\ old = [f \in Files |-> {}] /\ temps = {} /\ writing = [p \in Pids |-> Idle]
  /\ kept = [f \in Files |-> {file[f]}]
  /\ faults \in Nat

Begins(p) ==
  /\ writing[p].pc = "None"
  /\ \E f \in Files : \E text \in Texts : Unwritten(f) /\ Begin(p, f, text)

Answered(p) ==
  /\ writing[p].pc \in {"Saved", "Error"} /\ Stopped({p})
  /\ UNCHANGED <<file, old, temps, kept, faults>>

Die == \E ps \in SUBSET Pids : Stopped(ps) /\ UNCHANGED <<file, old, temps, kept, faults>>

\* An error of something else, which the bound counts too.
Elsewhere == Faulty /\ UNCHANGED <<file, old, temps, writing, kept>>

FileNext == (\E p \in Pids : Begins(p) \/ write_bounded(p) \/ Answered(p)) \/ Die \/ PowerLost \/ Elsewhere

FileSpec == FileInit /\ [][FileNext]_fileVars

-----------------------------------------------------------------------------

Writings ==
  [pc : {"None", "Create", "Write", "Rename", "Sync", "Saved", "Error"}, file : Files, text : Texts,
   attempt : 0..(TEMPORARY_ATTEMPTS - 1), disk : {"Part", "All"}]

FilesTypeOK ==
  /\ file \in [Files -> Texts \cup {Torn}] /\ kept \in [Files -> SUBSET Texts]
  /\ old \in [Files -> SUBSET (Texts \cup {Torn})]
  /\ temps \subseteq Files \X Pids \X (0..(TEMPORARY_ATTEMPTS - 1))
  /\ writing \in [Pids -> Writings]
  /\ faults \in Nat

\* What a reader finds, now or after a loss of power, is a whole text that
\* somebody wrote, and once write_bounded has answered Ok and the directory
\* was synced it is that text: neither a part of one nor an earlier one
\* (state_file.rs 130-156).
WrittenKept == \A f \in Files : {file[f]} \cup old[f] \subseteq kept[f]
=============================================================================
