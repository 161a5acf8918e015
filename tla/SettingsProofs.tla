--------------------------- MODULE SettingsProofs ---------------------------
(***************************************************************************)
(* What the programs that keep their state in files rely on, for any files *)
(* and texts, any number of processes and of attempts at a name, and any   *)
(* errors, kills and losses of power; and, with it, that the settings and  *)
(* their files agree, for any volumes, levels and backlight, any number of *)
(* presses, programs, deaths and faults.                                   *)
(*                                                                         *)
(* WrittenKept is not inductive: a rename puts the text of a process into  *)
(* the file, so it must be one that the file may have (Pending), and whole *)
(* on the disk (Whole); and when the directory is synced the earlier texts *)
(* are given up for the one that was renamed, so the file must still have  *)
(* it (Renamed), which it does because nobody else writes it (OneWriter).  *)
(*                                                                         *)
(* What the menu shows while it waits depends on how far it has come       *)
(* before: which settings it has loaded (Loaded), what the write in        *)
(* progress has already put in its file (Replaced) and who writes at all   *)
(* (Writers). The last is also why the files are used as StateFile wants.  *)
(***************************************************************************)
EXTENDS Settings, FiniteSetTheorems, TLAPS

-----------------------------------------------------------------------------
(* The files.                                                              *)

\* A process writes a text that its file may have.
Pending == \A p \in Pids : writing[p].pc # "None" => writing[p].text \in kept[writing[p].file]

\* What is about to be renamed is whole on the disk.
Whole == \A p \in Pids : writing[p].pc = "Rename" => writing[p].disk = "All"

\* What is renamed stays in place until it is answered for.
Renamed == \A p \in Pids : writing[p].pc \in {"Sync", "Saved"} => file[writing[p].file] = writing[p].text

\* One process writes a file at a time.
OneWriter ==
  \A p, q \in Pids : p # q /\ writing[p].pc # "None" /\ writing[q].pc # "None" => writing[p].file # writing[q].file

\* The inductive invariant of the files.
IInv == FilesTypeOK /\ WrittenKept /\ Pending /\ Whole /\ Renamed /\ OneWriter

-----------------------------------------------------------------------------

\* A process that writes nothing has the type of one that does.
LEMMA IdleTyped == Idle \in Writings
  BY FilesAssumption DEF Idle, Writings, Missing

\* A process begins to write a file that nobody writes: its text may be in the
\* file from now on.
LEMMA BeginsKeeps == ASSUME IInv, NEW p \in Pids, Begins(p) PROVE IInv'
<1>1. PICK f \in Files, text \in Texts : Unwritten(f) /\ Begin(p, f, text)
  BY DEF Begins
<1>2. writing'[p] = [Idle EXCEPT !.pc = "Create", !.file = f, !.text = text]
  BY <1>1 DEF Begin, IInv, FilesTypeOK
<1>3. \A q \in Pids \ {p} : writing'[q] = writing[q]
  BY <1>1 DEF Begin, IInv, FilesTypeOK
<1>4. writing'[p].pc = "Create" /\ writing'[p].file = f /\ writing'[p].text = text
  BY <1>2 DEF Idle
<1>5. FilesTypeOK'
  <2>1. [Idle EXCEPT !.pc = "Create", !.file = f, !.text = text] \in Writings
    BY IdleTyped DEF Writings
  <2>2. writing' \in [Pids -> Writings]
    BY <1>1, <2>1 DEF Begin, IInv, FilesTypeOK
  <2>3. kept' \in [Files -> SUBSET Texts]
    BY <1>1 DEF Begin, IInv, FilesTypeOK
  <2> QED BY <1>1, <2>2, <2>3 DEF Begin, IInv, FilesTypeOK
<1>6. WrittenKept'
  BY <1>1 DEF Begin, IInv, FilesTypeOK, WrittenKept
<1>7. Pending'
  BY <1>1, <1>3, <1>4 DEF Begin, IInv, FilesTypeOK, Pending
<1>8. Whole' /\ Renamed'
  BY <1>1, <1>3, <1>4 DEF Begin, IInv, FilesTypeOK, Whole, Renamed
<1>9. OneWriter'
  BY <1>1, <1>3, <1>4 DEF Unwritten, IInv, FilesTypeOK, OneWriter
<1> QED BY <1>5, <1>6, <1>7, <1>8, <1>9 DEF IInv

\* A name is taken, or none is: what is written stays as it was.
LEMMA CreateKeeps == ASSUME IInv, NEW p \in Pids, Create(p) PROVE IInv'
<1>1. UNCHANGED <<file, old, kept>> /\ writing[p].pc = "Create"
  BY DEF Create
<1>2. ASSUME NEW a \in Free(p),
             writing' = [writing EXCEPT ![p].pc = "Write", ![p].attempt = a],
             temps' = temps \cup {<<writing[p].file, p, a>>}, UNCHANGED faults
      PROVE  IInv'
  <2>1. a \in 0..(TEMPORARY_ATTEMPTS - 1)
    BY <1>2 DEF Free
  <2>2. FilesTypeOK'
    <3>1. [writing[p] EXCEPT !.pc = "Write", !.attempt = a] \in Writings /\ writing[p].file \in Files
      BY <2>1 DEF IInv, FilesTypeOK, Writings
    <3>2. writing' \in [Pids -> Writings]
      BY <1>2, <3>1 DEF IInv, FilesTypeOK
    <3>3. temps' \subseteq Files \X Pids \X (0..(TEMPORARY_ATTEMPTS - 1))
      BY <1>2, <2>1, <3>1 DEF IInv, FilesTypeOK
    <3> QED BY <1>1, <1>2, <3>2, <3>3 DEF IInv, FilesTypeOK
  <2>3. WrittenKept' /\ Pending' /\ Whole' /\ Renamed' /\ OneWriter'
    BY <1>1, <1>2 DEF IInv, FilesTypeOK, WrittenKept, Pending, Whole, Renamed, OneWriter
  <2> QED BY <2>2, <2>3 DEF IInv
<1>3. ASSUME Step(p, "Error"), UNCHANGED temps, UNCHANGED faults \/ Faulty
      PROVE  IInv'
  <2>1. FilesTypeOK'
    <3>1. [writing[p] EXCEPT !.pc = "Error"] \in Writings
      BY DEF IInv, FilesTypeOK, Writings
    <3>2. writing' \in [Pids -> Writings]
      BY <1>3, <3>1 DEF IInv, FilesTypeOK, Step
    <3>3. faults' \in Nat
      BY <1>3 DEF IInv, FilesTypeOK, Faulty
    <3> QED BY <1>1, <1>3, <3>2, <3>3 DEF IInv, FilesTypeOK
  <2>2. WrittenKept' /\ Pending' /\ Whole' /\ Renamed' /\ OneWriter'
    BY <1>1, <1>3 DEF IInv, FilesTypeOK, WrittenKept, Pending, Whole, Renamed, OneWriter, Step
  <2> QED BY <2>1, <2>2 DEF IInv
<1> QED BY <1>2, <1>3 DEF Create

\* The text is on the disk.
LEMMA WriteKeeps == ASSUME IInv, NEW p \in Pids, Write(p) PROVE IInv'
<1>1. FilesTypeOK'
  BY DEF Writings, Write, Step, IInv, FilesTypeOK
<1>2. WrittenKept'
  BY DEF Write, Step, IInv, FilesTypeOK, WrittenKept
<1>3. Pending'
  BY DEF Write, Step, IInv, FilesTypeOK, Pending
<1>4. Whole'
  BY DEF Write, Step, IInv, FilesTypeOK, Whole
<1>5. Renamed'
  BY DEF Write, Step, IInv, FilesTypeOK, Renamed
<1>6. OneWriter'
  BY DEF Write, Step, IInv, FilesTypeOK, OneWriter
<1> QED BY <1>1, <1>2, <1>3, <1>4, <1>5, <1>6 DEF IInv

\* The file has the text, and the earlier one may come back.
LEMMA RenameKeeps == ASSUME IInv, NEW p \in Pids, Rename(p) PROVE IInv'
<1>1. FilesTypeOK'
  <2>1. [writing[p] EXCEPT !.pc = "Sync"] \in Writings /\ writing[p].file \in Files /\ writing[p].text \in Texts
    BY DEF IInv, FilesTypeOK, Writings
  <2>2. writing' \in [Pids -> Writings]
    BY <2>1 DEF Rename, Step, IInv, FilesTypeOK
  <2>3. file' \in [Files -> Texts \cup {Torn}]
    BY <2>1 DEF Rename, IInv, FilesTypeOK
  <2>4. old' \in [Files -> SUBSET (Texts \cup {Torn})]
    BY <2>1 DEF Rename, IInv, FilesTypeOK
  <2> QED BY <2>2, <2>3, <2>4 DEF Rename, IInv, FilesTypeOK
<1>2. WrittenKept'
  BY DEF Rename, IInv, FilesTypeOK, WrittenKept, Pending, Whole
<1>3. Pending'
  BY DEF Rename, Step, IInv, FilesTypeOK, Pending
<1>4. Whole'
  BY DEF Rename, Step, IInv, FilesTypeOK, Whole
<1>5. Renamed'
  <2> SUFFICES ASSUME NEW q \in Pids, writing'[q].pc \in {"Sync", "Saved"}
               PROVE  file'[writing'[q].file] = writing'[q].text
    BY DEF Renamed
  <2>1. CASE q = p
    BY <2>1 DEF Rename, Step, IInv, FilesTypeOK, Writings
  <2>2. CASE q # p
    <3>1. writing'[q] = writing[q] /\ writing[q].file # writing[p].file /\ writing[q].file \in Files
      BY <2>2 DEF Rename, Step, IInv, FilesTypeOK, Writings, OneWriter
    <3> QED BY <3>1 DEF Rename, IInv, FilesTypeOK, Renamed
  <2> QED BY <2>1, <2>2
<1>6. OneWriter'
  BY DEF Rename, Step, IInv, FilesTypeOK, OneWriter
<1> QED BY <1>1, <1>2, <1>3, <1>4, <1>5, <1>6 DEF IInv

\* The earlier texts cannot come back.
LEMMA SyncDirectoryKeeps == ASSUME IInv, NEW p \in Pids, SyncDirectory(p) PROVE IInv'
<1>1. FilesTypeOK'
  <2>1. [writing[p] EXCEPT !.pc = "Saved"] \in Writings /\ writing[p].file \in Files /\ writing[p].text \in Texts
    BY DEF IInv, FilesTypeOK, Writings
  <2>2. writing' \in [Pids -> Writings]
    BY <2>1 DEF SyncDirectory, Step, IInv, FilesTypeOK
  <2>3. old' \in [Files -> SUBSET (Texts \cup {Torn})] /\ kept' \in [Files -> SUBSET Texts]
    BY <2>1 DEF SyncDirectory, IInv, FilesTypeOK
  <2>4. faults' \in Nat
    BY DEF SyncDirectory, Faulty, IInv, FilesTypeOK
  <2> QED BY <2>2, <2>3, <2>4 DEF SyncDirectory, IInv, FilesTypeOK
<1>2. WrittenKept'
  BY DEF SyncDirectory, Step, Faulty, IInv, FilesTypeOK, WrittenKept, Renamed
<1>3. Pending'
  <2> SUFFICES ASSUME NEW q \in Pids, writing'[q].pc # "None"
               PROVE  writing'[q].text \in kept'[writing'[q].file]
    BY DEF Pending
  <2>1. CASE q = p
    <3>1. writing'[p].text = writing[p].text /\ writing'[p].file = writing[p].file /\ writing[p].file \in Files
      BY DEF SyncDirectory, Step, IInv, FilesTypeOK, Writings
    <3> QED BY <2>1, <3>1 DEF SyncDirectory, IInv, FilesTypeOK, Pending
  <2>2. CASE q # p
    <3>1. writing'[q] = writing[q] /\ writing[q].file # writing[p].file /\ writing[q].file \in Files
      BY <2>2 DEF SyncDirectory, Step, IInv, FilesTypeOK, Writings, OneWriter
    <3> QED BY <3>1 DEF SyncDirectory, IInv, FilesTypeOK, Pending
  <2> QED BY <2>1, <2>2
<1>4. Whole'
  BY DEF SyncDirectory, Step, Faulty, IInv, FilesTypeOK, Whole
<1>5. Renamed'
  BY DEF SyncDirectory, Step, Faulty, IInv, FilesTypeOK, Renamed
<1>6. OneWriter'
  BY DEF SyncDirectory, Step, Faulty, IInv, FilesTypeOK, OneWriter
<1> QED BY <1>1, <1>2, <1>3, <1>4, <1>5, <1>6 DEF IInv

\* The temporary file is removed.
LEMMA FailsKeeps == ASSUME IInv, NEW p \in Pids, Fails(p) PROVE IInv'
<1>1. FilesTypeOK'
  BY DEF Writings, Fails, Step, Name, Faulty, IInv, FilesTypeOK
<1>2. WrittenKept'
  BY DEF Fails, Step, Name, Faulty, IInv, FilesTypeOK, WrittenKept
<1>3. Pending'
  BY DEF Fails, Step, Name, Faulty, IInv, FilesTypeOK, Pending
<1>4. Whole'
  BY DEF Fails, Step, Name, Faulty, IInv, FilesTypeOK, Whole
<1>5. Renamed'
  BY DEF Fails, Step, Name, Faulty, IInv, FilesTypeOK, Renamed
<1>6. OneWriter'
  BY DEF Fails, Step, Name, Faulty, IInv, FilesTypeOK, OneWriter
<1> QED BY <1>1, <1>2, <1>3, <1>4, <1>5, <1>6 DEF IInv

\* A program that ends, however far it was, gives up what it was writing.
LEMMA StoppedKeeps ==
  ASSUME IInv, NEW ps \in SUBSET Pids, Stopped(ps), UNCHANGED <<file, old, temps, kept, faults>>
  PROVE  IInv'
<1>1. \A p \in Pids : writing'[p] = IF p \in ps THEN Idle ELSE writing[p]
  BY DEF Stopped
<1>2. Idle.pc = "None"
  BY DEF Idle
<1>3. FilesTypeOK'
  BY IdleTyped DEF IInv, FilesTypeOK, Stopped
<1>4. WrittenKept'
  BY DEF IInv, WrittenKept
<1>5. Pending' /\ Whole' /\ Renamed' /\ OneWriter'
  BY <1>1, <1>2 DEF IInv, Pending, Whole, Renamed, OneWriter
<1> QED BY <1>3, <1>4, <1>5 DEF IInv

\* After a loss of power a file has a text it could have before.
LEMMA PowerLostKeeps == ASSUME IInv, PowerLost PROVE IInv'
<1>1. \A p \in Pids : writing'[p] = Idle
  BY DEF PowerLost, Stopped
<1>2. Idle.pc = "None"
  BY DEF Idle
<1>3. file' \in [Files -> UNION {{file[f]} \cup old[f] : f \in Files}]
  BY DEF PowerLost
<1>4. \A f \in Files : file'[f] \in {file[f]} \cup old[f]
  BY DEF PowerLost
<1>5. FilesTypeOK'
  <2>1. file' \in [Files -> Texts \cup {Torn}]
    BY <1>3, <1>4 DEF IInv, FilesTypeOK
  <2>2. old' \in [Files -> SUBSET (Texts \cup {Torn})] /\ writing' = [p \in Pids |-> Idle]
    BY DEF PowerLost, Stopped
  <2> QED BY <2>1, <2>2, IdleTyped DEF IInv, FilesTypeOK, PowerLost
<1>6. WrittenKept'
  BY <1>4 DEF IInv, WrittenKept, PowerLost
<1>7. Pending' /\ Whole' /\ Renamed' /\ OneWriter'
  BY <1>1, <1>2 DEF Pending, Whole, Renamed, OneWriter
<1> QED BY <1>5, <1>6, <1>7 DEF IInv

-----------------------------------------------------------------------------

\* The initial states satisfy the invariant.
LEMMA InitIInv == FileInit => IInv
<1> SUFFICES ASSUME FileInit PROVE IInv
  OBVIOUS
<1>1. \A p \in Pids : writing[p] = Idle /\ writing[p].pc = "None"
  BY DEF FileInit, Idle
<1>2. FilesTypeOK
  BY FilesAssumption, IdleTyped DEF FileInit, FilesTypeOK
<1>3. WrittenKept
  BY DEF FileInit, WrittenKept
<1>4. Pending /\ Whole /\ Renamed /\ OneWriter
  BY <1>1 DEF Pending, Whole, Renamed, OneWriter
<1> QED BY <1>2, <1>3, <1>4 DEF IInv

\* Every step keeps it.
LEMMA NextIInv == IInv /\ [FileNext]_fileVars => IInv'
<1> SUFFICES ASSUME IInv, [FileNext]_fileVars PROVE IInv'
  OBVIOUS
<1>1. ASSUME NEW p \in Pids, Begins(p) PROVE IInv'
  BY <1>1, BeginsKeeps
<1>2. ASSUME NEW p \in Pids, write_bounded(p) PROVE IInv'
  BY <1>2, CreateKeeps, WriteKeeps, RenameKeeps, SyncDirectoryKeeps, FailsKeeps DEF write_bounded
<1>3. ASSUME NEW p \in Pids, Answered(p) PROVE IInv'
  BY <1>3, StoppedKeeps DEF Answered
<1>4. CASE Die
  BY <1>4, StoppedKeeps DEF Die
<1>5. CASE PowerLost
  BY <1>5, PowerLostKeeps
<1>6. CASE Elsewhere
  BY <1>6 DEF Elsewhere, Faulty, IInv, FilesTypeOK, WrittenKept, Pending, Whole, Renamed, OneWriter
<1>7. CASE UNCHANGED fileVars
  BY <1>7 DEF fileVars, IInv, FilesTypeOK, WrittenKept, Pending, Whole, Renamed, OneWriter
<1> QED BY <1>1, <1>2, <1>3, <1>4, <1>5, <1>6, <1>7 DEF FileNext

\* So it holds in every reachable state.
LEMMA Inductive == FileSpec => []IInv
BY InitIInv, NextIInv, PTL DEF FileSpec

\* The files, names and processes stay of their types.
THEOREM FilesTyped == FileSpec => []FilesTypeOK
<1>1. IInv => FilesTypeOK
  BY DEF IInv
<1> QED BY <1>1, Inductive, PTL

\* What a reader finds, now or after a loss of power, is a whole text that a
\* program wrote, and from the moment that write_bounded has answered Ok, the
\* directory being synced, it is that text (state_file.rs 130-156).
THEOREM WrittenTextsKept == FileSpec => []WrittenKept
<1>1. IInv => WrittenKept
  BY DEF IInv
<1> QED BY <1>1, Inductive, PTL

\* The earlier texts of a file, which a loss of power may bring back, are
\* whole texts of programs too: no part of one is ever read.
THEOREM NothingTorn == FileSpec => [](\A f \in Files : file[f] # Torn /\ Torn \notin old[f])
<1>1. IInv => \A f \in Files : file[f] # Torn /\ Torn \notin old[f]
  BY FilesAssumption DEF IInv, FilesTypeOK, WrittenKept
<1> QED BY <1>1, Inductive, PTL

-----------------------------------------------------------------------------
(* The settings in them.                                                   *)

\* The menu writes while it saves a change, the program while it saves its
\* volume, each what it means to, and nobody else.
Writers ==
  /\ \A p \in Pids \ {pid, ChildPid} : writing[p].pc = "None"
  /\ IF pc = "Saving"
     THEN writing[pid].pc # "None" /\ writing[pid].file = change.file /\ writing[pid].text = change.value
     ELSE writing[pid].pc = "None"
  /\ IF child.pc = "Saving"
     THEN writing[ChildPid].pc # "None" /\ writing[ChildPid].file = "volume" /\ writing[ChildPid].text = child.volume
     ELSE writing[ChildPid].pc = "None"
  /\ child.pc # "None" <=> pc = "Child"

\* What is saved is a value of its setting.
Values ==
  /\ pc \in {"Device", "Saving"} => Parses(change.file, change.value)
  /\ pc = "Device" => change.file = "brightness"

\* The menu, as it starts, sets and saves a default it could not load.
Loading(f) == pc \in {"Device", "Saving"} /\ change.starting /\ change.file = f

\* The menu loads the volume, then the brightness, then the keymap.
Loaded(f) ==
  /\ pc \notin {"Down", "Volume"} /\ ~Loading("volume")
  /\ f # "volume" => pc # "Backlight" /\ ~Loading("brightness")
  /\ f = "keymap" => pc # "Keymap" /\ ~Loading("keymap")

\* The file has the new value already, which is shown when the answer comes.
Replaced(f) == pc = "Saving" /\ change.file = f /\ writing[pid].pc \in {"Sync", "Saved"}

\* Once the volume is loaded its file parses.
VolumeParses == Loaded("volume") => file["volume"] \in 0..Loudest

\* What is loaded is what its file has, or a child's volume is still to be read.
Showing ==
  \A f \in Files :
    Loaded(f) /\ ~Replaced(f) => shown[f] = file[f] \/ (f = "volume" /\ (unread \/ pc \in {"Child", "Reload"}))

\* The backlight follows the brightness that is saved, or the one that is shown.
Light ==
  /\ pc = "Saving" /\ change.file = "brightness" => device = brightness_raw_value(change.value)
  /\ Loaded("brightness") /\ ~astray /\ ~(pc = "Saving" /\ change.file = "brightness") =>
       device = brightness_raw_value(shown.brightness)

\* The volume that comes back is the one that is heard.
Audible == shown.volume > 0 => shown.audible = shown.volume

\* There are finitely many temporary files, one per death at most.
Bounded == IsFiniteSet(temps) /\ TempsBounded

\* The invariant of the settings and of the files under them.
SettingsInv == IInv /\ TypeOK /\ Writers /\ Values /\ VolumeParses /\ Showing /\ Light /\ Audible /\ Bounded

-----------------------------------------------------------------------------
(* Numbers.                                                                *)

LEMMA Quotient == ASSUME NEW a \in Int, NEW b \in Nat \ {0} PROVE a \div b \in Int
  OBVIOUS

\* The backlight is set to a value that it has.
LEMMA RawTyped == ASSUME NEW level \in 1..Brightest PROVE brightness_raw_value(level) \in 0..MaxRaw
<1> DEFINE a == 2 * level * MaxRaw + Brightest
           b == 2 * Brightest
<1>1. a \in Int /\ b \in Nat \ {0}
  BY SettingsAssumption
<1> DEFINE q == a \div b
<1>2. q \in Int
  BY <1>1, Quotient
<1> HIDE DEF q
<1>3. MaxRaw \in Int /\ 1 <= MaxRaw
  BY SettingsAssumption
<1>4. Clamp(q, 1, MaxRaw) \in 1..MaxRaw
  BY <1>2, <1>3 DEF Clamp
<1>5. Clamp(q, 1, MaxRaw) \in 0..MaxRaw
  BY <1>3, <1>4
<1> QED BY <1>5 DEF brightness_raw_value, q

\* What the backlight shows is a level.
LEMMA ObservedTyped == device \in 0..MaxRaw => Observed \in 1..Brightest
<1> SUFFICES ASSUME device \in 0..MaxRaw PROVE Observed \in 1..Brightest
  OBVIOUS
<1> DEFINE percent == (device * 100 + (MaxRaw \div 2)) \div MaxRaw
           a == percent * Brightest + 50
           q == a \div 100
<1>1. percent \in Int
  <2>1. MaxRaw \div 2 \in Int /\ MaxRaw \in Nat \ {0}
    BY SettingsAssumption, Quotient
  <2>2. device * 100 + (MaxRaw \div 2) \in Int
    BY <2>1
  <2> QED BY <2>1, <2>2, Quotient
<1> HIDE DEF percent
<1>2. a \in Int /\ Brightest \in Nat \ {0}
  BY <1>1, SettingsAssumption
<1>3. q \in Int
  BY <1>2, Quotient
<1> HIDE DEF q
<1>4. Clamp(q, 1, Brightest) \in 1..Brightest
  BY <1>2, <1>3 DEF Clamp
<1> QED BY <1>4 DEF Observed, observed_brightness_level, percent, q

-----------------------------------------------------------------------------
(* What the writes do.                                                     *)

\* A write that begins.
LEMMA BeginFacts ==
  ASSUME IInv, NEW p \in Pids, NEW f \in Files, NEW text \in Texts, Begin(p, f, text), writing[p].pc = "None"
  PROVE  /\ \A q \in Pids \ {p} : writing'[q] = writing[q]
         /\ writing'[p].pc = "Create" /\ writing'[p].file = f /\ writing'[p].text = text
         /\ Litter' = Litter /\ file' = file /\ temps' = temps
<1>1. writing'[p] = [Idle EXCEPT !.pc = "Create", !.file = f, !.text = text] /\ \A q \in Pids \ {p} : writing'[q] = writing[q]
  BY DEF Begin, IInv, FilesTypeOK
<1>2. writing'[p].pc = "Create" /\ writing'[p].file = f /\ writing'[p].text = text
  BY <1>1 DEF Idle
<1>3. {q \in Pids : writing'[q].pc \in {"Write", "Rename"}} = {q \in Pids : writing[q].pc \in {"Write", "Rename"}}
  BY <1>1, <1>2
<1>4. \A q \in {r \in Pids : writing[r].pc \in {"Write", "Rename"}} : Name(q)' = Name(q)
  BY <1>1 DEF Name
<1>5. Litter' = Litter
  BY <1>3, <1>4 DEF Begin, Litter
<1> QED BY <1>1, <1>2, <1>5 DEF Begin

\* A step of a write.
LEMMA WriteFacts ==
  ASSUME IInv, NEW p \in Pids, write_bounded(p)
  PROVE  /\ \A q \in Pids \ {p} : writing'[q] = writing[q]
         /\ writing[p].pc # "None" /\ writing'[p].pc # "None"
         /\ writing'[p].file = writing[p].file /\ writing'[p].text = writing[p].text
         /\ IF writing[p].pc = "Rename" /\ writing'[p].pc = "Sync"
            THEN file' = [file EXCEPT ![writing[p].file] = writing[p].text]
            ELSE /\ file' = file
                 /\ writing[p].pc \in {"Sync", "Saved"} <=> writing'[p].pc \in {"Sync", "Saved"}
<1>1. CASE Create(p)
  BY <1>1 DEF Create, Step, IInv, FilesTypeOK, Writings
<1>2. CASE Write(p)
  BY <1>2 DEF Write, IInv, FilesTypeOK, Writings
<1>3. CASE Rename(p)
  BY <1>3 DEF Rename, Step, IInv, FilesTypeOK, Writings
<1>4. CASE SyncDirectory(p)
  BY <1>4 DEF SyncDirectory, Step, IInv, FilesTypeOK, Writings
<1>5. CASE Fails(p)
  BY <1>5 DEF Fails, Step, IInv, FilesTypeOK, Writings
<1> QED BY <1>1, <1>2, <1>3, <1>4, <1>5 DEF write_bounded

\* It leaves no file behind that it does not remove.
LEMMA WriteLitter ==
  ASSUME IInv, NEW p \in Pids, write_bounded(p), IsFiniteSet(temps)
  PROVE  IsFiniteSet(temps') /\ Litter' \subseteq Litter
<1> DEFINE Open == {q \in Pids : writing[q].pc \in {"Write", "Rename"}}
<1>1. \A q \in Pids \ {p} : writing'[q] = writing[q] /\ Name(q)' = Name(q)
  BY WriteFacts DEF Name
<1>2. ASSUME temps' = temps, p \in Open => p \in Open' /\ Name(p)' = Name(p)
      PROVE  IsFiniteSet(temps') /\ Litter' \subseteq Litter
  BY <1>1, <1>2 DEF Litter
<1>3. ASSUME temps' = temps \ {Name(p)}
      PROVE  IsFiniteSet(temps') /\ Litter' \subseteq Litter
  <2>1. IsFiniteSet(temps')
    BY <1>3, FS_Subset
  <2>2. Litter' \subseteq Litter
    BY <1>1, <1>3 DEF Litter
  <2> QED BY <2>1, <2>2
<1>4. CASE Create(p)
  <2>1. CASE temps' = temps
    BY <1>2, <1>4, <2>1 DEF Create
  <2>2. ASSUME NEW a \in Free(p), writing' = [writing EXCEPT ![p].pc = "Write", ![p].attempt = a],
               temps' = temps \cup {<<writing[p].file, p, a>>}
        PROVE  IsFiniteSet(temps') /\ Litter' \subseteq Litter
    <3>1. Name(p)' = <<writing[p].file, p, a>> /\ p \in Open' /\ p \notin Open
      BY <1>4, <2>2 DEF Name, Create, IInv, FilesTypeOK, Writings
    <3>2. Litter' \subseteq Litter
      BY <1>1, <2>2, <3>1 DEF Litter
    <3> QED BY <2>2, <3>2, FS_AddElement
  <2> QED BY <1>4, <2>1, <2>2 DEF Create
<1>5. CASE Write(p)
  <2>1. p \in Open' /\ Name(p)' = Name(p) /\ temps' = temps
    BY <1>5 DEF Write, Name, IInv, FilesTypeOK, Writings
  <2> QED BY <1>2, <2>1
<1>6. CASE Rename(p)
  BY <1>3, <1>6 DEF Rename
<1>7. CASE SyncDirectory(p)
  BY <1>2, <1>7 DEF SyncDirectory
<1>8. CASE Fails(p)
  BY <1>3, <1>8 DEF Fails
<1> QED BY <1>4, <1>5, <1>6, <1>7, <1>8 DEF write_bounded

\* Processes that end give up their writes, one name each at most.
LEMMA StoppedFacts ==
  ASSUME NEW ps \in SUBSET Pids, Stopped(ps)
  PROVE  /\ \A p \in ps : writing'[p].pc = "None"
         /\ \A p \in Pids \ ps : writing'[p] = writing[p]
BY DEF Stopped, Idle

-----------------------------------------------------------------------------
(* The programs use the files as StateFile says.                           *)

\* Nobody writes a file that the menu, or the program, begins to write.
LEMMA MenuBegins ==
  ASSUME SettingsInv, NEW f \in Files, NEW value \in Texts, Begin(pid, f, value), pc # "Saving", pc # "Child"
  PROVE  Begins(pid) /\ writing[pid].pc = "None"
<1>1. \A p \in Pids : writing[p].pc = "None"
  BY DEF SettingsInv, TypeOK, Writers
<1>2. pid \in Pids
  BY DEF SettingsInv, TypeOK
<1> QED BY <1>1, <1>2 DEF Begins, Unwritten

\* A program that begins to save uses its file alone.
LEMMA ProgramBegins ==
  ASSUME SettingsInv, NEW value \in Texts, Begin(ChildPid, "volume", value), child.pc = "Runs"
  PROVE  Begins(ChildPid) /\ writing[ChildPid].pc = "None"
<1>1. pc = "Child"
  BY DEF SettingsInv, Writers
<1>2. \A p \in Pids : writing[p].pc = "None"
  BY <1>1 DEF SettingsInv, TypeOK, Writers
<1> QED BY <1>2, SettingsAssumption DEF Begins, Unwritten

\* The values that are written are texts.
LEMMA TextsWritten ==
  /\ \A f \in Files : \A value : Parses(f, value) => value \in Texts
  /\ 0..Loudest \subseteq Texts
  /\ \A f \in {"volume", "keymap"} : Replacement(f) \in Texts /\ Parses(f, Replacement(f))
<1>1. 0..Loudest \subseteq Texts /\ 1..Brightest \subseteq Texts /\ {Us, Cz} \subseteq Texts
  BY SettingsAssumption DEF Us, Cz
<1>2. \A f \in Files : \A value : Parses(f, value) => value \in Texts
  BY <1>1, SettingsAssumption DEF Parses
<1>3. Parses("volume", Replacement("volume")) /\ Parses("keymap", Replacement("keymap"))
  BY SettingsAssumption DEF Parses, Replacement, Us
<1> QED BY <1>1, <1>2, <1>3, SettingsAssumption

\* What a press asks for is a value of its setting.
LEMMA PressedParses ==
  ASSUME TypeOK, NEW f \in Files, NEW v \in Pressed(f)
  PROVE  Parses(f, v)
<1>1. shown \in [volume : 0..Loudest, audible : 1..Loudest, brightness : 1..Brightest, keymap : {Us, Cz}]
  BY DEF TypeOK
<1>2. CASE f = "volume"
  <2>1. VOLUME_STEP \in 1..Loudest /\ Loudest \in Nat
    BY SettingsAssumption
  <2>2. Clamp(shown.volume + VOLUME_STEP, 0, Loudest) \in 0..Loudest
    BY <1>1, <2>1 DEF Clamp
  <2> QED BY <1>1, <1>2, <2>1, <2>2 DEF Pressed, Parses
<1>3. CASE f = "brightness"
  <2>1. Brightest \in Nat \ {0}
    BY SettingsAssumption
  <2>2. Clamp(shown.brightness - 1, 1, Brightest) \in 1..Brightest /\ Clamp(shown.brightness + 1, 1, Brightest) \in 1..Brightest
    BY <1>1, <2>1 DEF Clamp
  <2> QED BY <1>3, <2>2 DEF Pressed, Parses
<1>4. CASE f = "keymap"
  BY <1>4 DEF Pressed, Parses
<1> QED BY <1>2, <1>3, <1>4, SettingsAssumption

\* Every step of the system is one that the files know, or leaves them alone.
LEMMA FilesStep == ASSUME SettingsInv, [Next]_settingsVars PROVE [FileNext]_fileVars
<1>0. pid \in Pids /\ ChildPid \in Pids
  BY SettingsAssumption DEF SettingsInv, TypeOK
<1>1. CASE Start
  BY <1>1 DEF Start
<1>2. ASSUME NEW f \in {"volume", "keymap"}, Load(f) PROVE [FileNext]_fileVars
  <2>1. CASE Saves(f, Replacement(f), TRUE)
    <3>1. Begin(pid, f, Replacement(f)) /\ pc # "Saving" /\ pc # "Child" /\ f \in Files
      BY <1>2, <2>1, SettingsAssumption DEF Saves, Load
    <3> QED BY <1>0, <3>1, MenuBegins, TextsWritten DEF FileNext
  <2>2. CASE Faulty /\ UNCHANGED <<file, old, temps, writing, kept>>
    BY <2>2 DEF FileNext, Elsewhere
  <2> QED BY <1>2, <2>1, <2>2 DEF Load, fileVars
<1>3. CASE load_backlight
  BY <1>3 DEF load_backlight, FileNext, Elsewhere, fileVars
<1>4. CASE set_backlight
  <2>1. CASE Saves("brightness", change.value, change.starting)
    <3>1. Begin(pid, "brightness", change.value) /\ pc # "Saving" /\ pc # "Child" /\ "brightness" \in Files
      BY <1>4, <2>1, SettingsAssumption DEF Saves, set_backlight
    <3>2. change.value \in Texts
      BY <1>4, <3>1, TextsWritten DEF SettingsInv, Values, set_backlight
    <3> QED BY <1>0, <3>1, <3>2, MenuBegins DEF FileNext
  <2>2. CASE Faulty /\ UNCHANGED <<file, old, temps, writing, kept>>
    BY <2>2 DEF FileNext, Elsewhere
  <2> QED BY <1>4, <2>1, <2>2 DEF set_backlight
<1>5. CASE Saved
  BY <1>0, <1>5 DEF Saved, FileNext
<1>6. CASE ReloadVolume
  BY <1>6 DEF ReloadVolume, FileNext, Elsewhere, fileVars
<1>7. CASE write_bounded(pid) \/ write_bounded(ChildPid)
  BY <1>0, <1>7 DEF FileNext
<1>8. CASE Press
  <2>1. PICK f \in scope.press : \E v \in Pressed(f) : UNCHANGED fileVars \/ Begin(pid, f, v)
    BY <1>8 DEF Press, Saves
  <2>2. f \in Files
    BY <2>1, SettingsAssumption DEF SettingsInv, TypeOK
  <2>3. PICK v \in Pressed(f) : UNCHANGED fileVars \/ Begin(pid, f, v)
    BY <2>1
  <2>4. v \in Texts
    BY <2>2, <2>3, PressedParses, TextsWritten DEF SettingsInv
  <2>5. pc # "Saving" /\ pc # "Child"
    BY <1>8 DEF Press, Settled
  <2> QED BY <1>0, <2>2, <2>3, <2>4, <2>5, MenuBegins DEF FileNext
<1>9. CASE Launch
  BY <1>9 DEF Launch
<1>10. CASE ChildSets
  <2>1. PICK v \in {Clamp(child.volume - VOLUME_STEP, 0, Loudest), Clamp(child.volume + VOLUME_STEP, 0, Loudest)} :
          Begin(ChildPid, "volume", v)
    BY <1>10 DEF ChildSets
  <2>2. v \in 0..Loudest
    BY <2>1, SettingsAssumption DEF SettingsInv, TypeOK, Clamp
  <2> QED BY <1>0, <1>10, <2>1, <2>2, ProgramBegins, TextsWritten DEF ChildSets, FileNext
<1>11. CASE ChildSaved
  BY <1>0, <1>11 DEF ChildSaved, FileNext
<1>12. CASE ChildEnds
  BY <1>0, <1>12 DEF ChildEnds, FileNext, Die
<1>13. CASE Killed
  BY <1>13 DEF Killed, FileNext, Die
<1>14. CASE PowerFails
  BY <1>14 DEF PowerFails, FileNext
<1>15. CASE UNCHANGED settingsVars
  BY <1>15 DEF settingsVars
<1> QED BY <1>1, <1>2, <1>3, <1>4, <1>5, <1>6, <1>7, <1>8, <1>9, <1>10, <1>11, <1>12, <1>13, <1>14, <1>15 DEF Next, Menu, Program

-----------------------------------------------------------------------------
(* Every step keeps what the menu shows, the files and the light in line.  *)

\* A value of a setting that is shown: the others stay, and what is audible
\* is remembered.
LEMMA ShowFacts ==
  ASSUME TypeOK, Audible, NEW f \in Files, NEW value, Parses(f, value), Show(f, value)
  PROVE  /\ shown' \in [volume : 0..Loudest, audible : 1..Loudest, brightness : 1..Brightest, keymap : {Us, Cz}]
         /\ shown'[f] = value /\ \A g \in Files \ {f} : shown'[g] = shown[g]
         /\ Audible'
<1>1. shown \in [volume : 0..Loudest, audible : 1..Loudest, brightness : 1..Brightest, keymap : {Us, Cz}]
  BY DEF TypeOK
<1>2. CASE f = "volume"
  <2>1. value \in 0..Loudest /\ Loudest \in Nat
    BY <1>2, SettingsAssumption DEF Parses
  <2>2. shown' = [shown EXCEPT !.volume = value, !.audible = IF value > 0 THEN value ELSE @]
    BY <1>1, <1>2 DEF Show
  <2> DEFINE audible == IF value > 0 THEN value ELSE shown.audible
  <2>3. audible \in 1..Loudest
    BY <1>1, <2>1
  <2>4. shown' = [shown EXCEPT !.volume = value, !.audible = audible]
    BY <1>1, <2>2
  <2> HIDE DEF audible
  <2>5. shown' \in [volume : 0..Loudest, audible : 1..Loudest, brightness : 1..Brightest, keymap : {Us, Cz}]
    BY <1>1, <2>1, <2>3, <2>4
  <2>6. shown'.volume = value /\ shown'.brightness = shown.brightness /\ shown'.keymap = shown.keymap
    BY <1>1, <2>2
  <2>7. Audible'
    BY <1>1, <2>1, <2>2 DEF Audible
  <2> QED BY <1>2, <2>5, <2>6, <2>7, SettingsAssumption
<1>3. CASE f = "brightness"
  BY <1>1, <1>3, SettingsAssumption DEF Show, Parses, Audible
<1>4. CASE f = "keymap"
  BY <1>1, <1>4, SettingsAssumption DEF Show, Parses, Audible
<1> QED BY <1>2, <1>3, <1>4, SettingsAssumption

\* start: the menu begins to load.
LEMMA StartKeeps == ASSUME SettingsInv, IInv', Start PROVE SettingsInv'
<1> USE DEF SettingsInv
<1>1. TypeOK'
  <2>1. shown' \in [volume : 0..Loudest, audible : 1..Loudest, brightness : 1..Brightest, keymap : {Us, Cz}]
    BY SettingsAssumption DEF Start, Unloaded
  <2>2. change' \in [file : Files, value : Int, starting : BOOLEAN]
    BY SettingsAssumption DEF Start, NoChange
  <2> QED BY <2>1, <2>2 DEF Start, TypeOK, IInv, boundVars
<1>2. Writers'
  BY SettingsAssumption DEF Start, Writers, TypeOK, fileVars
<1>3. Values' /\ VolumeParses' /\ Showing' /\ Light'
  BY DEF Start, Values, VolumeParses, Loaded, Loading, Showing, Light
<1>4. Audible'
  BY DEF Start, Unloaded, Audible
<1>5. Bounded'
  BY DEF Start, Bounded, TempsBounded, Litter, Name, fileVars, boundVars
<1> QED BY <1>1, <1>2, <1>3, <1>4, <1>5

\* While the menu is down nothing is shown.
LEMMA DownFacts == ASSUME pc' = "Down" PROVE Values' /\ VolumeParses' /\ Showing' /\ Light'
BY DEF Values, VolumeParses, Loaded, Showing, Light

\* A change that begins to be saved is not in its file yet.
LEMMA SavesKeeps ==
  ASSUME SettingsInv, IInv', NEW f \in Files, NEW value, NEW starting \in BOOLEAN,
         Parses(f, value), Saves(f, value, starting), pc \notin {"Saving", "Child", "Reload"},
         \A g \in Files : Loaded(g)' => Loaded(g),
         device' = IF f = "brightness" THEN brightness_raw_value(value) ELSE device,
         presses' \in Nat, UNCHANGED <<scope, pid, shown, child, children, deaths, unread, astray>>
  PROVE  SettingsInv'
<1> USE DEF SettingsInv
<1>1. value \in Texts /\ value \in Int
  BY TextsWritten, FilesAssumption
<1>2. Begin(pid, f, value) /\ change' = [file |-> f, value |-> value, starting |-> starting] /\ pc' = "Saving"
  BY DEF Saves
<1>3. pid \in Pids /\ pid # ChildPid /\ writing[pid].pc = "None" /\ writing[ChildPid].pc = "None" /\ child.pc = "None"
  BY DEF TypeOK, Writers
<1>4. /\ \A q \in Pids \ {pid} : writing'[q] = writing[q]
      /\ writing'[pid].pc = "Create" /\ writing'[pid].file = f /\ writing'[pid].text = value
      /\ Litter' = Litter /\ file' = file /\ temps' = temps
  BY <1>1, <1>2, <1>3, BeginFacts
<1>5. TypeOK'
  <2>1. device' \in 0..MaxRaw
    <3>1. CASE f = "brightness"
      BY <3>1, RawTyped DEF Parses
    <3>2. CASE f # "brightness"
      BY <3>2 DEF TypeOK
    <3> QED BY <3>1, <3>2
  <2>2. change' \in [file : Files, value : Int, starting : BOOLEAN]
    BY <1>1, <1>2
  <2> QED BY <1>2, <2>1, <2>2 DEF TypeOK, IInv, boundVars
<1>6. Writers'
  BY <1>2, <1>3, <1>4, SettingsAssumption DEF Writers
<1>7. Values'
  BY <1>2 DEF Values, Parses
<1>8. VolumeParses'
  BY <1>4, SettingsAssumption DEF VolumeParses
<1>9. Showing'
  BY <1>2, <1>4 DEF Showing, Replaced
<1>10. Light'
  BY <1>2, SettingsAssumption DEF Light
<1>11. Audible'
  BY DEF Audible
<1>12. Bounded'
  BY <1>4 DEF Bounded, TempsBounded
<1> QED BY <1>5, <1>6, <1>7, <1>8, <1>9, <1>10, <1>11, <1>12

\* load: the volume and the keymap, and the defaults that replace them.
LEMMA LoadKeeps ==
  ASSUME SettingsInv, IInv', NEW f \in {"volume", "keymap"}, Load(f)
  PROVE  SettingsInv'
<1> USE DEF SettingsInv
<1>1. /\ pc = IF f = "volume" THEN "Volume" ELSE "Keymap"
      /\ UNCHANGED <<scope, pid, device, child, boundVars, unread, astray>>
      /\ f \in Files
  BY SettingsAssumption DEF Load
<1>2. CASE Saves(f, Replacement(f), TRUE) /\ UNCHANGED shown
  <2>1. \A g \in Files : Loaded(g)' => Loaded(g)
    BY <1>1, <1>2, SettingsAssumption DEF Saves, Loaded, Loading
  <2>2. Parses(f, Replacement(f))
    BY TextsWritten
  <2>3. presses' \in Nat /\ UNCHANGED <<children, deaths>>
    BY <1>1 DEF TypeOK, boundVars
  <2> QED BY <1>1, <1>2, <2>1, <2>2, <2>3, SavesKeeps
<1>3. CASE Failed /\ UNCHANGED <<file, old, temps, writing, kept, change, shown>>
  <2>1. TypeOK' /\ Writers'
    BY <1>1, <1>3 DEF Failed, TypeOK, IInv, boundVars, Writers
  <2>2. Audible' /\ Bounded'
    BY <1>1, <1>3 DEF Audible, Bounded, TempsBounded, Litter, Name, boundVars
  <2> QED BY <1>3, <2>1, <2>2, DownFacts DEF Failed
<1>4. CASE Parses(f, read(f)) /\ Show(f, read(f)) /\ pc' = After(f) /\ UNCHANGED <<fileVars, change>>
  <2>1. /\ shown' \in [volume : 0..Loudest, audible : 1..Loudest, brightness : 1..Brightest, keymap : {Us, Cz}]
        /\ shown'[f] = file[f] /\ \A g \in Files \ {f} : shown'[g] = shown[g]
        /\ Audible'
    BY <1>1, <1>4, ShowFacts DEF read
  <2>2. pc' = IF f = "volume" THEN "Backlight" ELSE "Ready"
    BY <1>4 DEF After
  <2>3. TypeOK' /\ Writers'
    BY <1>1, <1>4, <2>1, <2>2 DEF TypeOK, IInv, boundVars, Writers, fileVars
  <2>4. Values'
    BY <2>2 DEF Values
  <2>5. VolumeParses'
    BY <1>1, <1>4, <2>2, SettingsAssumption DEF VolumeParses, Loaded, Loading, Parses, read, fileVars
  <2>6. Showing'
    BY <1>1, <1>4, <2>1, <2>2, SettingsAssumption DEF Showing, Loaded, Loading, Replaced, fileVars
  <2>7. Light'
    BY <1>1, <1>4, <2>1, <2>2, SettingsAssumption DEF Light, Loaded, Loading
  <2>8. Bounded'
    BY <1>1, <1>4 DEF Bounded, TempsBounded, Litter, Name, boundVars, fileVars
  <2> QED BY <2>1, <2>3, <2>4, <2>5, <2>6, <2>7, <2>8
<1>5. CASE Failed /\ UNCHANGED <<fileVars, change, shown>>
  BY <1>3, <1>5 DEF fileVars
<1> QED BY <1>2, <1>3, <1>4, <1>5 DEF Load

\* load_backlight: the brightness, or its default.
LEMMA BacklightKeeps == ASSUME SettingsInv, IInv', load_backlight PROVE SettingsInv'
<1> USE DEF SettingsInv
<1>1. /\ pc = "Backlight"
      /\ UNCHANGED <<file, old, temps, writing, kept, scope, pid, device, child, boundVars, unread, astray>>
  BY DEF load_backlight
<1>2. ASSUME NEW level, Parses("brightness", level), Adopts(level) PROVE SettingsInv'
  <2>1. /\ change' = [file |-> "brightness", value |-> level, starting |-> TRUE]
        /\ pc' = "Device" /\ UNCHANGED shown
    BY <1>2 DEF Adopts
  <2>2. change' \in [file : Files, value : Int, starting : BOOLEAN]
    BY <1>2, <2>1, SettingsAssumption DEF Parses
  <2>3. TypeOK' /\ Writers'
    BY <1>1, <2>1, <2>2 DEF TypeOK, IInv, boundVars, Writers
  <2>4. Values'
    BY <1>2, <2>1 DEF Values, Parses
  <2>5. VolumeParses' /\ Showing' /\ Light'
    BY <1>1, <2>1, SettingsAssumption DEF VolumeParses, Showing, Light, Loaded, Loading, Replaced
  <2>6. Audible' /\ Bounded'
    BY <1>1, <2>1 DEF Audible, Bounded, TempsBounded, Litter, Name, boundVars
  <2> QED BY <2>3, <2>4, <2>5, <2>6
<1>3. CASE Failed /\ UNCHANGED <<change, shown>>
  <2>1. TypeOK' /\ Writers'
    BY <1>1, <1>3 DEF Failed, TypeOK, IInv, boundVars, Writers
  <2>2. Audible' /\ Bounded'
    BY <1>1, <1>3 DEF Audible, Bounded, TempsBounded, Litter, Name, boundVars
  <2> QED BY <1>3, <2>1, <2>2, DownFacts DEF Failed
<1> QED BY <1>2, <1>3 DEF load_backlight

\* set_backlight: the device takes the level, or the change fails.
LEMMA set_backlightKeeps == ASSUME SettingsInv, IInv', set_backlight PROVE SettingsInv'
<1> USE DEF SettingsInv
<1>1. /\ pc = "Device" /\ change.file = "brightness" /\ Parses("brightness", change.value)
      /\ change.starting \in BOOLEAN /\ "brightness" \in Files
      /\ UNCHANGED <<scope, pid, shown, child, boundVars, unread>>
  BY SettingsAssumption DEF set_backlight, TypeOK, Values
<1>2. CASE SetDevice(change.value) /\ Saves("brightness", change.value, change.starting) /\ UNCHANGED astray
  <2>1. \A g \in Files : Loaded(g)' => Loaded(g)
    BY <1>1, <1>2 DEF Saves, Loaded, Loading
  <2>2. presses' \in Nat /\ UNCHANGED <<children, deaths>>
    BY <1>1 DEF TypeOK, boundVars
  <2>3. device' = brightness_raw_value(change.value)
    BY <1>2 DEF SetDevice
  <2> QED BY <1>1, <1>2, <2>1, <2>2, <2>3, SavesKeeps
<1>3. CASE /\ SetDevice(change.value) \/ UNCHANGED device
           /\ astray' = TRUE
           /\ pc' = IF change.starting THEN "Down" ELSE "Ready"
           /\ change' = NoChange /\ UNCHANGED <<file, old, temps, writing, kept>>
  <2>1. device' \in 0..MaxRaw
    BY <1>1, <1>3, RawTyped DEF SetDevice, TypeOK, Parses
  <2>2. change' \in [file : Files, value : Int, starting : BOOLEAN]
    BY <1>3, SettingsAssumption DEF NoChange
  <2>3. TypeOK'
    BY <1>1, <1>3, <2>1, <2>2 DEF TypeOK, IInv, boundVars
  <2>4. Writers'
    BY <1>1, <1>3 DEF Writers
  <2>5. Audible' /\ Bounded'
    BY <1>1, <1>3 DEF Audible, Bounded, TempsBounded, Litter, Name, boundVars
  <2>6. CASE change.starting
    BY <1>3, <2>3, <2>4, <2>5, <2>6, DownFacts
  <2>7. CASE ~change.starting
    <3>1. Values' /\ Light'
      BY <1>3, <2>7 DEF Values, Light
    <3>2. VolumeParses' /\ Showing'
      BY <1>1, <1>3, <2>7 DEF VolumeParses, Showing, Loaded, Loading, Replaced
    <3> QED BY <2>3, <2>4, <2>5, <3>1, <3>2
  <2> QED BY <2>6, <2>7
<1> QED BY <1>2, <1>3 DEF set_backlight

\* complete: what was saved is shown, what was not is taken back.
LEMMA SavedKeeps == ASSUME SettingsInv, IInv', Saved PROVE SettingsInv'
<1> USE DEF SettingsInv
<1>1. /\ pc = "Saving" /\ Stopped({pid}) /\ change' = NoChange
      /\ UNCHANGED <<file, temps, scope, pid, device, child, boundVars>>
      /\ pid \in Pids /\ pid # ChildPid /\ ChildPid \in Pids /\ child.pc = "None"
      /\ change.file \in Files /\ change.starting \in BOOLEAN /\ Parses(change.file, change.value)
      /\ writing[pid].file = change.file /\ writing[pid].text = change.value
  BY SettingsAssumption DEF Saved, Answered, TypeOK, Writers, Values
<1>2. writing'[pid].pc = "None" /\ \A q \in Pids \ {pid} : writing'[q] = writing[q]
  BY <1>1, StoppedFacts
<1>3. change' \in [file : Files, value : Int, starting : BOOLEAN]
  BY <1>1, SettingsAssumption DEF NoChange
<1>4. pc' \in {"Down", "Backlight", "Keymap", "Ready"}
  BY DEF Saved, After
<1>5. Writers'
  BY <1>1, <1>2, <1>4 DEF Writers
<1>6. Values'
  BY <1>4 DEF Values
<1>7. Bounded'
  <2>1. Litter' = Litter
    <3>1. writing[pid].pc \in {"Saved", "Error"}
      BY DEF Saved, Answered
    <3>2. {q \in Pids : writing'[q].pc \in {"Write", "Rename"}} = {q \in Pids : writing[q].pc \in {"Write", "Rename"}}
      BY <1>2, <3>1
    <3>3. \A q \in {r \in Pids : writing[r].pc \in {"Write", "Rename"}} : Name(q)' = Name(q)
      BY <1>2, <3>1 DEF Name
    <3> QED BY <1>1, <3>2, <3>3 DEF Litter
  <2> QED BY <1>1, <2>1 DEF Bounded, TempsBounded, boundVars
<1>8. CASE /\ writing[pid].pc = "Saved"
           /\ Show(change.file, change.value)
           /\ astray' = (astray /\ change.file # "brightness") /\ unread' = (unread /\ change.file # "volume")
           /\ pc' = IF change.starting THEN After(change.file) ELSE "Ready"
  <2>1. /\ shown' \in [volume : 0..Loudest, audible : 1..Loudest, brightness : 1..Brightest, keymap : {Us, Cz}]
        /\ shown'[change.file] = change.value /\ \A g \in Files \ {change.file} : shown'[g] = shown[g]
        /\ Audible'
    BY <1>1, <1>8, ShowFacts
  <2>2. file[change.file] = change.value
    BY <1>1, <1>8 DEF IInv, Renamed
  <2>3. TypeOK'
    BY <1>1, <1>3, <1>4, <1>8, <2>1 DEF TypeOK, IInv, boundVars
  <2>4. ASSUME NEW g \in Files PROVE Loaded(g)' => g = change.file \/ (Loaded(g) /\ ~Replaced(g))
    BY <1>1, <1>8, SettingsAssumption DEF Loaded, Loading, Replaced, After
  <2>5. VolumeParses'
    BY <1>1, <2>2, <2>4, SettingsAssumption DEF VolumeParses, Parses
  <2>6. Showing'
    BY <1>1, <1>8, <2>1, <2>2, <2>4 DEF Showing
  <2>7. Light'
    <3>1. CASE change.file = "brightness"
      BY <1>1, <1>4, <2>1, <3>1 DEF Light
    <3>2. CASE change.file # "brightness"
      BY <1>1, <1>4, <1>8, <2>1, <2>4, <3>2, SettingsAssumption DEF Light
    <3> QED BY <3>1, <3>2
  <2> QED BY <1>5, <1>6, <1>7, <2>1, <2>3, <2>5, <2>6, <2>7
<1>9. CASE /\ writing[pid].pc = "Error"
           /\ astray' = (astray \/ change.file = "brightness")
           /\ pc' = IF change.starting THEN "Down" ELSE "Ready"
           /\ UNCHANGED <<shown, unread>>
  <2>1. TypeOK' /\ Audible'
    BY <1>1, <1>3, <1>4, <1>9 DEF TypeOK, IInv, boundVars, Audible
  <2>2. CASE change.starting
    BY <1>5, <1>6, <1>7, <1>9, <2>1, <2>2, DownFacts
  <2>3. CASE ~change.starting
    <3>1. \A g \in Files : Loaded(g) /\ ~Replaced(g)
      BY <1>1, <1>9, <2>3 DEF Loaded, Loading, Replaced
    <3>2. VolumeParses' /\ Showing'
      BY <1>1, <1>9, <3>1, SettingsAssumption DEF VolumeParses, Showing
    <3>3. Light'
      BY <1>1, <1>4, <1>9, <3>1, SettingsAssumption DEF Light
    <3> QED BY <1>5, <1>6, <1>7, <2>1, <3>2, <3>3
  <2> QED BY <2>2, <2>3
<1> QED BY <1>8, <1>9 DEF Saved

\* load_volume: the volume that a child has left.
LEMMA ReloadKeeps == ASSUME SettingsInv, IInv', ReloadVolume PROVE SettingsInv'
<1> USE DEF SettingsInv
<1>1. /\ pc = "Reload" /\ pc' = "Ready" /\ "volume" \in Files
      /\ UNCHANGED <<file, old, temps, writing, kept, scope, pid, change, device, child, boundVars, astray>>
  BY SettingsAssumption DEF ReloadVolume
<1>2. \A g \in Files : Loaded(g) /\ ~Replaced(g)
  BY <1>1 DEF Loaded, Loading, Replaced
<1>3. Writers' /\ Values' /\ VolumeParses' /\ Bounded'
  BY <1>1, <1>2, SettingsAssumption
  DEF Writers, Values, VolumeParses, Bounded, TempsBounded, Litter, Name, boundVars
<1>4. CASE UNCHANGED shown /\ unread' = TRUE
  BY <1>1, <1>2, <1>3, <1>4, SettingsAssumption DEF TypeOK, IInv, boundVars, Showing, Light, Audible
<1>5. CASE Reloaded /\ unread' = FALSE
  <2>1. Parses("volume", file["volume"])
    BY <1>1, <1>2, SettingsAssumption DEF VolumeParses, Parses
  <2>2. /\ shown' \in [volume : 0..Loudest, audible : 1..Loudest, brightness : 1..Brightest, keymap : {Us, Cz}]
        /\ shown'["volume"] = file["volume"] /\ \A g \in Files \ {"volume"} : shown'[g] = shown[g]
        /\ Audible'
    BY <1>1, <1>5, <2>1, ShowFacts DEF Reloaded, read
  <2>3. TypeOK'
    BY <1>1, <1>5, <2>2 DEF TypeOK, IInv, boundVars
  <2>4. Showing'
    BY <1>1, <1>2, <1>5, <2>2 DEF Showing
  <2>5. Light'
    BY <1>1, <1>2, <2>2, SettingsAssumption DEF Light
  <2> QED BY <1>3, <2>2, <2>3, <2>4, <2>5
<1> QED BY <1>4, <1>5 DEF ReloadVolume

\* What is being written reaches its file, and nobody who shows it minds.
LEMMA WritesKeep ==
  ASSUME SettingsInv, IInv', NEW p \in {pid, ChildPid}, write_bounded(p),
         UNCHANGED <<scope, menuVars, device, child, boundVars>>
  PROVE  SettingsInv'
<1> USE DEF SettingsInv
<1>1. p \in Pids /\ pid \in Pids /\ pid # ChildPid /\ ChildPid \in Pids /\ "volume" \in Files
  BY SettingsAssumption DEF TypeOK
<1>2. UNCHANGED <<pc, pid, change, shown, unread, astray, scope, device, child, deaths>>
  BY DEF menuVars, boundVars
<1>3. /\ \A q \in Pids \ {p} : writing'[q] = writing[q]
      /\ writing[p].pc # "None" /\ writing'[p].pc # "None"
      /\ writing'[p].file = writing[p].file /\ writing'[p].text = writing[p].text
      /\ IF writing[p].pc = "Rename" /\ writing'[p].pc = "Sync"
         THEN file' = [file EXCEPT ![writing[p].file] = writing[p].text]
         ELSE /\ file' = file
              /\ writing[p].pc \in {"Sync", "Saved"} <=> writing'[p].pc \in {"Sync", "Saved"}
  BY <1>1, WriteFacts
<1>4. TypeOK'
  BY <1>2 DEF TypeOK, IInv, menuVars, boundVars
<1>5. Writers'
  BY <1>1, <1>2, <1>3 DEF Writers
<1>6. Values' /\ Light' /\ Audible'
  BY <1>2 DEF Values, Light, Audible, Loaded, Loading
<1>7. Bounded'
  <2>1. IsFiniteSet(temps') /\ Litter' \subseteq Litter
    BY <1>1, WriteLitter DEF Bounded
  <2>2. IsFiniteSet(Litter)
    BY FS_Subset DEF Bounded, Litter
  <2>3. Cardinality(Litter') <= Cardinality(Litter) /\ Cardinality(Litter) \in Nat /\ Cardinality(Litter') \in Nat
    BY <2>1, <2>2, FS_Subset, FS_CardinalityType
  <2>4. scope.deaths \in Nat /\ deaths \in Nat
    BY SettingsAssumption DEF TypeOK, boundVars
  <2> QED BY <1>2, <2>1, <2>3, <2>4 DEF Bounded, TempsBounded
<1>8. \A g \in Files : Loaded(g)' <=> Loaded(g)
  BY <1>2 DEF Loaded, Loading
<1>9. CASE p = pid
  <2>1. pc = "Saving" /\ child.pc = "None" /\ writing[p].file = change.file /\ writing[p].text = change.value
    BY <1>1, <1>3, <1>9 DEF Writers
  <2>2. change.file \in Files /\ Parses(change.file, change.value)
    BY <2>1 DEF TypeOK, Values
  <2>3. \A g \in Files \ {change.file} : file'[g] = file[g]
    BY <1>3, <2>1 DEF IInv, FilesTypeOK
  <2>4. file'[change.file] \in {file[change.file], change.value}
    BY <1>3, <2>1, <2>2 DEF IInv, FilesTypeOK
  <2>5. Replaced(change.file)' \/ (file' = file /\ ~Replaced(change.file))
    BY <1>2, <1>3, <1>9, <2>1 DEF Replaced
  <2>6. VolumeParses'
    BY <1>8, <2>2, <2>3, <2>4, SettingsAssumption DEF VolumeParses, Parses
  <2>7. Showing'
    BY <1>2, <1>8, <2>1, <2>3, <2>5 DEF Showing, Replaced
  <2> QED BY <1>4, <1>5, <1>6, <1>7, <2>6, <2>7
<1>10. CASE p = ChildPid
  <2>1. child.pc = "Saving" /\ pc = "Child" /\ writing[p].file = "volume" /\ writing[p].text = child.volume
    BY <1>1, <1>3, <1>10 DEF Writers
  <2>2. file'["volume"] \in {file["volume"], child.volume} /\ \A g \in Files \ {"volume"} : file'[g] = file[g]
    BY <1>1, <1>3, <2>1 DEF IInv, FilesTypeOK
  <2>3. VolumeParses'
    BY <1>1, <1>8, <2>2 DEF VolumeParses, TypeOK
  <2>4. Showing'
    BY <1>2, <1>8, <2>1, <2>2 DEF Showing, Replaced
  <2> QED BY <1>4, <1>5, <1>6, <1>7, <2>3, <2>4
<1> QED BY <1>9, <1>10

\* activate: a press.
LEMMA PressKeeps == ASSUME SettingsInv, IInv', Press PROVE SettingsInv'
<1> USE DEF SettingsInv
<1>1. /\ pc = "Ready" /\ presses' \in Nat
      /\ UNCHANGED <<scope, pid, shown, device, child, children, deaths, unread, astray>>
  BY DEF Press, Settled, TypeOK, boundVars
<1>2. PICK f \in scope.press : \E v \in Pressed(f) :
        IF f = "brightness"
        THEN /\ pc' = "Device" /\ change' = [file |-> f, value |-> v, starting |-> FALSE]
             /\ UNCHANGED fileVars
        ELSE Saves(f, v, FALSE)
  BY DEF Press
<1>3. f \in Files
  BY SettingsAssumption DEF TypeOK
<1>4. PICK v \in Pressed(f) :
        IF f = "brightness"
        THEN /\ pc' = "Device" /\ change' = [file |-> f, value |-> v, starting |-> FALSE]
             /\ UNCHANGED fileVars
        ELSE Saves(f, v, FALSE)
  BY <1>2
<1>5. Parses(f, v)
  BY <1>3, PressedParses
<1>6. \A g \in Files : Loaded(g)
  BY <1>1 DEF Loaded, Loading
<1>7. CASE f = "brightness"
  <2>0. Parses("brightness", v)
    BY <1>5, <1>7
  <2>1. change' \in [file : Files, value : Int, starting : BOOLEAN]
    <3>1. v \in Int
      BY <2>0, SettingsAssumption DEF Parses
    <3>2. change' = [file |-> "brightness", value |-> v, starting |-> FALSE] /\ "brightness" \in Files
      BY <1>3, <1>4, <1>7
    <3> QED BY <3>1, <3>2
  <2>2. TypeOK' /\ Writers'
    BY <1>1, <1>4, <1>7, <2>1 DEF TypeOK, IInv, boundVars, Writers, fileVars
  <2>3. Values'
    BY <1>4, <1>7, <2>0 DEF Values
  <2>4. VolumeParses' /\ Showing' /\ Light'
    BY <1>1, <1>4, <1>6, <1>7, SettingsAssumption DEF VolumeParses, Showing, Light, Replaced, fileVars
  <2>5. Audible' /\ Bounded'
    BY <1>1, <1>4, <1>7 DEF Audible, Bounded, TempsBounded, Litter, Name, fileVars
  <2> QED BY <2>2, <2>3, <2>4, <2>5
<1>8. CASE f # "brightness"
  BY <1>1, <1>3, <1>4, <1>5, <1>6, <1>8, SavesKeeps
<1> QED BY <1>7, <1>8

\* A program is launched.
LEMMA LaunchKeeps == ASSUME SettingsInv, IInv', Launch PROVE SettingsInv'
<1> USE DEF SettingsInv
<1>1. /\ pc = "Ready" /\ pc' = "Child" /\ child' = [pc |-> "Runs", volume |-> shown.volume] /\ children' \in Nat
      /\ UNCHANGED <<fileVars, scope, pid, change, shown, device, presses, deaths, unread, astray>>
  BY DEF Launch, TypeOK, boundVars
<1>2. TypeOK' /\ Writers'
  BY <1>1 DEF TypeOK, IInv, boundVars, Writers, fileVars
<1>3. Values' /\ VolumeParses' /\ Showing' /\ Light'
  BY <1>1, SettingsAssumption DEF Values, VolumeParses, Showing, Light, Loaded, Loading, Replaced, fileVars
<1>4. Audible' /\ Bounded'
  BY <1>1 DEF Audible, Bounded, TempsBounded, Litter, Name, fileVars
<1> QED BY <1>2, <1>3, <1>4

\* The program sets its volume.
LEMMA ChildSetsKeeps == ASSUME SettingsInv, IInv', ChildSets PROVE SettingsInv'
<1> USE DEF SettingsInv
<1>1. /\ child.pc = "Runs" /\ presses' \in Nat /\ UNCHANGED <<scope, menuVars, device, children, deaths>>
      /\ pc = "Child" /\ "volume" \in Files /\ ChildPid \in Pids /\ pid # ChildPid /\ pid \in Pids
  BY SettingsAssumption DEF ChildSets, TypeOK, Writers, boundVars
<1>2. PICK v \in {Clamp(child.volume - VOLUME_STEP, 0, Loudest), Clamp(child.volume + VOLUME_STEP, 0, Loudest)} :
        child' = [pc |-> "Saving", volume |-> v] /\ Begin(ChildPid, "volume", v)
  BY DEF ChildSets
<1>3. v \in 0..Loudest
  BY <1>2, SettingsAssumption DEF TypeOK, Clamp
<1>4. UNCHANGED <<pc, pid, change, shown, unread, astray, deaths, device>>
  BY <1>1 DEF menuVars
<1>5. /\ \A q \in Pids \ {ChildPid} : writing'[q] = writing[q]
      /\ writing'[ChildPid].pc = "Create" /\ writing'[ChildPid].file = "volume" /\ writing'[ChildPid].text = v
      /\ Litter' = Litter /\ file' = file /\ temps' = temps
  BY <1>1, <1>2, <1>3, TextsWritten, ProgramBegins, BeginFacts
<1>6. TypeOK'
  BY <1>1, <1>2, <1>3, <1>4 DEF TypeOK, IInv, boundVars
<1>7. Writers'
  BY <1>1, <1>2, <1>4, <1>5 DEF Writers
<1>8. Values' /\ VolumeParses' /\ Showing' /\ Light'
  BY <1>1, <1>4, <1>5 DEF Values, VolumeParses, Showing, Light, Loaded, Loading, Replaced
<1>9. Audible' /\ Bounded'
  BY <1>1, <1>4, <1>5 DEF Audible, Bounded, TempsBounded
<1> QED BY <1>6, <1>7, <1>8, <1>9

\* The program has saved its volume.
LEMMA ChildSavedKeeps == ASSUME SettingsInv, IInv', ChildSaved PROVE SettingsInv'
<1> USE DEF SettingsInv
<1>1. /\ child.pc = "Saving" /\ child' = [child EXCEPT !.pc = "Runs"] /\ Stopped({ChildPid})
      /\ writing[ChildPid].pc \in {"Saved", "Error"}
      /\ UNCHANGED <<file, temps, scope, menuVars, device, boundVars>>
      /\ pc = "Child" /\ ChildPid \in Pids /\ pid # ChildPid /\ pid \in Pids
  BY SettingsAssumption DEF ChildSaved, Answered, TypeOK, Writers
<1>2. writing'[ChildPid].pc = "None" /\ \A q \in Pids \ {ChildPid} : writing'[q] = writing[q]
  BY <1>1, StoppedFacts
<1>3. UNCHANGED <<pc, pid, change, shown, unread, astray, deaths>>
  BY <1>1 DEF menuVars, boundVars
<1>4. TypeOK'
  BY <1>1, <1>3 DEF TypeOK, IInv, boundVars
<1>5. Writers'
  BY <1>1, <1>2, <1>3 DEF Writers, TypeOK
<1>6. Values' /\ VolumeParses' /\ Showing' /\ Light'
  BY <1>1, <1>3 DEF Values, VolumeParses, Showing, Light, Loaded, Loading, Replaced
<1>7. Litter' = Litter
  <2>1. {q \in Pids : writing'[q].pc \in {"Write", "Rename"}} = {q \in Pids : writing[q].pc \in {"Write", "Rename"}}
    BY <1>1, <1>2
  <2>2. \A q \in {r \in Pids : writing[r].pc \in {"Write", "Rename"}} : Name(q)' = Name(q)
    BY <1>1, <1>2 DEF Name
  <2> QED BY <1>1, <2>1, <2>2 DEF Litter
<1>8. Audible' /\ Bounded'
  BY <1>1, <1>3, <1>7 DEF Audible, Bounded, TempsBounded
<1> QED BY <1>4, <1>5, <1>6, <1>8

-----------------------------------------------------------------------------
(* Deaths.                                                                 *)

\* Of the processes that end at most one was writing, so at most one name
\* is left behind.
LEMMA StoppedLitter ==
  ASSUME SettingsInv, IInv', NEW ps \in SUBSET Pids, Stopped(ps), temps' = temps, scope' = scope,
         deaths > 0 /\ deaths' = deaths - 1
  PROVE  Bounded'
<1> USE DEF SettingsInv
<1>1. pid \in Pids /\ pid # ChildPid /\ ChildPid \in Pids
  BY SettingsAssumption DEF TypeOK
<1>2. PICK w \in Pids : \A q \in Pids \ {w} : writing[q].pc = "None"
  BY <1>1 DEF Writers
<1>3. (\A p \in ps : writing'[p].pc = "None") /\ \A p \in Pids \ ps : writing'[p] = writing[p]
  BY StoppedFacts
<1>4. Litter' \subseteq Litter \cup {Name(w)}
  <2>1. \A q \in Pids : writing'[q].pc \in {"Write", "Rename"} => Name(q)' = Name(q) /\ writing[q].pc \in {"Write", "Rename"}
    BY <1>3 DEF Name
  <2> QED BY <1>2 DEF Litter
<1>5. IsFiniteSet(Litter)
  BY FS_Subset DEF Bounded, Litter
<1>6. IsFiniteSet(Litter \cup {Name(w)}) /\ Cardinality(Litter \cup {Name(w)}) <= Cardinality(Litter) + 1
  <2> DEFINE n == Name(w)
  <2> HIDE DEF n
  <2>1. IsFiniteSet(Litter \cup {n}) /\ Cardinality(Litter) \in Nat
    BY <1>5, FS_AddElement, FS_CardinalityType
  <2>2. Cardinality(Litter \cup {n}) \in {Cardinality(Litter), Cardinality(Litter) + 1}
    BY <1>5, FS_AddElement
  <2> QED BY <2>1, <2>2 DEF n
<1>7. IsFiniteSet(Litter') /\ Cardinality(Litter') <= Cardinality(Litter \cup {Name(w)})
  BY <1>4, <1>6, FS_Subset
<1>8. Cardinality(Litter) \in Nat /\ Cardinality(Litter') \in Nat /\ Cardinality(Litter \cup {Name(w)}) \in Nat
  BY <1>5, <1>6, <1>7, FS_CardinalityType
<1>9. scope.deaths \in Nat /\ deaths \in Nat
  BY SettingsAssumption DEF TypeOK, boundVars
<1> QED BY <1>6, <1>7, <1>8, <1>9 DEF Bounded, TempsBounded

\* The program ends.
LEMMA ChildEndsKeeps == ASSUME SettingsInv, IInv', ChildEnds PROVE SettingsInv'
<1> USE DEF SettingsInv
<1>1. /\ child.pc # "None" /\ pc = "Child" /\ child' = NoChild /\ pc' = "Reload" /\ Stopped({ChildPid})
      /\ UNCHANGED <<file, old, temps, kept, faults, scope, pid, change, shown, device, presses, children, unread, astray>>
      /\ ChildPid \in Pids /\ pid # ChildPid /\ pid \in Pids
  BY SettingsAssumption DEF ChildEnds, TypeOK, Writers
<1>2. writing'[ChildPid].pc = "None" /\ \A q \in Pids \ {ChildPid} : writing'[q] = writing[q]
  BY <1>1, StoppedFacts
<1>3. deaths' \in Nat
  BY DEF ChildEnds, TypeOK, boundVars
<1>4. TypeOK'
  BY <1>1, <1>3, SettingsAssumption DEF TypeOK, IInv, boundVars, NoChild
<1>5. Writers'
  BY <1>1, <1>2 DEF Writers, NoChild
<1>6. Values' /\ VolumeParses' /\ Showing' /\ Light' /\ Audible'
  BY <1>1, SettingsAssumption DEF Values, VolumeParses, Showing, Light, Loaded, Loading, Replaced, Audible
<1>7. Bounded'
  <2>1. CASE child.pc = "Runs" /\ UNCHANGED deaths
    <3>1. \A q \in Pids : writing'[q].pc = writing[q].pc /\ (writing[q].pc # "None" => Name(q)' = Name(q))
      BY <1>1, <1>2, <2>1 DEF Writers, Name
    <3>2. Litter' = Litter
      BY <1>1, <3>1 DEF Litter
    <3> QED BY <1>1, <2>1, <3>2 DEF Bounded, TempsBounded
  <2>2. CASE deaths > 0 /\ deaths' = deaths - 1
    BY <1>1, <2>2, StoppedLitter
  <2> QED BY <2>1, <2>2 DEF ChildEnds
<1> QED BY <1>4, <1>5, <1>6, <1>7

\* A process dies, or all of them: another begins anew.
LEMMA DiesKeeps ==
  ASSUME SettingsInv, IInv', Dies, Stopped(Pids), temps' = temps, device' \in 0..MaxRaw
  PROVE  SettingsInv'
<1> USE DEF SettingsInv
<1>1. /\ pc' = "Down" /\ child' = NoChild /\ change' = NoChange /\ deaths > 0 /\ deaths' = deaths - 1
      /\ UNCHANGED <<scope, pid, shown, presses, children, unread, astray>>
  BY DEF Dies
<1>2. \A p \in Pids : writing'[p].pc = "None"
  BY StoppedFacts
<1>3. change' \in [file : Files, value : Int, starting : BOOLEAN]
  BY <1>1, SettingsAssumption DEF NoChange
<1>4. TypeOK'
  BY <1>1, <1>3, SettingsAssumption DEF TypeOK, IInv, boundVars, NoChild
<1>5. Writers'
  BY <1>1, <1>2, SettingsAssumption DEF Writers, NoChild, TypeOK
<1>6. Audible' /\ Bounded'
  BY <1>1, StoppedLitter DEF Audible
<1> QED BY <1>1, <1>4, <1>5, <1>6, DownFacts

\* The initial states satisfy the invariants.
LEMMA InitSettingsInv == Init => FileInit /\ SettingsInv
<1> SUFFICES ASSUME Init PROVE FileInit /\ SettingsInv
  OBVIOUS
<1>1. scope \in Scopes /\ scope.faults \in Nat /\ scope.deaths \in Nat /\ scope.presses \in Nat /\ scope.children \in Nat
  BY SettingsAssumption DEF Init
<1>2. PICK v \in scope.volumes, b \in scope.levels :
        file = [f \in Files |-> CASE f = "volume" -> v [] f = "brightness" -> b [] f = "keymap" -> Missing]
  BY DEF Init
<1>3. v \in Texts /\ b \in Texts /\ Missing \in Texts
  BY <1>1, FilesAssumption, SettingsAssumption
<1>4. file \in [Files -> Texts]
  BY <1>2, <1>3, SettingsAssumption
<1>5. FileInit
  BY <1>1, <1>4 DEF Init, FileInit
<1>6. IInv
  BY <1>5, InitIInv
<1>7. pc = "Down" /\ pid \in Pids \ {ChildPid} /\ change = NoChange /\ shown = Unloaded
  BY SettingsAssumption DEF Init
<1>8. TypeOK
  <2>1. shown \in [volume : 0..Loudest, audible : 1..Loudest, brightness : 1..Brightest, keymap : {Us, Cz}]
    BY <1>7, SettingsAssumption DEF Unloaded
  <2>2. change \in [file : Files, value : Int, starting : BOOLEAN]
    BY <1>7, SettingsAssumption DEF NoChange
  <2>3. child \in [pc : {"None", "Runs", "Saving"}, volume : 0..Loudest]
    BY SettingsAssumption DEF Init, NoChild
  <2> QED BY <1>1, <1>6, <1>7, <2>1, <2>2, <2>3 DEF Init, TypeOK, IInv, boundVars
<1>9. Writers
  BY <1>7, SettingsAssumption DEF Init, Writers, Idle, NoChild
<1>10. Values /\ VolumeParses /\ Showing /\ Light /\ Audible
  BY <1>7 DEF Values, VolumeParses, Showing, Light, Loaded, Audible, Unloaded
<1>11. Bounded
  <2>1. IsFiniteSet(temps) /\ Litter = {} /\ Cardinality({}) = 0
    BY FS_EmptySet DEF Init, Litter
  <2> QED BY <1>1, <2>1 DEF Bounded, TempsBounded, Init
<1> QED BY <1>5, <1>6, <1>8, <1>9, <1>10, <1>11 DEF SettingsInv

\* Every step keeps the invariant and uses the files as StateFile says.
LEMMA NextSettingsInv == SettingsInv /\ [Next]_settingsVars => SettingsInv' /\ [FileNext]_fileVars
<1> SUFFICES ASSUME SettingsInv, [Next]_settingsVars PROVE SettingsInv' /\ [FileNext]_fileVars
  OBVIOUS
<1>1. [FileNext]_fileVars
  BY FilesStep
<1>2. IInv'
  BY <1>1, NextIInv DEF SettingsInv
<1>3. CASE Start \/ load_backlight \/ set_backlight \/ Saved \/ ReloadVolume
  BY <1>1, <1>2, <1>3, StartKeeps, BacklightKeeps, set_backlightKeeps, SavedKeeps, ReloadKeeps
<1>4. CASE Load("volume") \/ Load("keymap")
  BY <1>1, <1>2, <1>4, LoadKeeps
<1>5. ASSUME NEW p \in {pid, ChildPid}, write_bounded(p) /\ UNCHANGED <<scope, menuVars, device, child, boundVars>>
      PROVE  SettingsInv'
  BY <1>2, <1>5, WritesKeep
<1>6. CASE ChildSets \/ ChildSaved \/ ChildEnds \/ Press \/ Launch
  BY <1>1, <1>2, <1>6, ChildSetsKeeps, ChildSavedKeeps, ChildEndsKeeps, PressKeeps, LaunchKeeps
<1>7. CASE Killed
  <2>1. device' \in 0..MaxRaw
    BY <1>7 DEF Killed, SettingsInv, TypeOK
  <2> QED BY <1>1, <1>2, <1>7, <2>1, DiesKeeps DEF Killed
<1>8. CASE PowerFails
  BY <1>1, <1>2, <1>8, DiesKeeps DEF PowerFails, PowerLost
<1>9. CASE UNCHANGED settingsVars
  <2>1. TypeOK' /\ Writers' /\ Values' /\ VolumeParses' /\ Audible'
    BY <1>2, <1>9 DEF SettingsInv, settingsVars, menuVars, boundVars, fileVars, TypeOK, IInv, Writers, Values, VolumeParses,
       Loaded, Loading, Audible
  <2>2. Showing' /\ Light' /\ Bounded'
    BY <1>9 DEF SettingsInv, settingsVars, menuVars, boundVars, fileVars, Showing, Light, Bounded, TempsBounded, Litter, Name,
       Loaded, Loading, Replaced
  <2> QED BY <1>1, <1>2, <2>1, <2>2 DEF SettingsInv
<1> QED BY <1>1, <1>3, <1>4, <1>5, <1>6, <1>7, <1>8, <1>9 DEF Next, Menu, Program

\* So it holds in every reachable state.
LEMMA SettingsInductive == Spec => []SettingsInv
BY InitSettingsInv, NextSettingsInv, PTL DEF Spec

\* The menu and the programs it launches use the files as StateFile says: one
\* writes a file at a time, and what ends while it writes is a death of
\* StateFile (settings.rs and state_file.rs).
THEOREM FilesUsed == Spec => UsesFiles
BY InitSettingsInv, NextSettingsInv, SettingsInductive, PTL DEF Spec, UsesFiles, FileSpec

\* So what the settings' files have, now or after a loss of power, is whole
\* and is what was saved (state_file.rs 130-156).
THEOREM SettingsKept == Spec => []WrittenKept
BY FilesUsed, WrittenTextsKept, PTL DEF UsesFiles

\* Whenever the menu waits it shows what its files say, the display has the
\* light that is shown, the volume that comes back is the last audible one,
\* and each death has left one temporary file at most (settings.rs
\* load_volume 234, set_backlight 257, load_backlight 277, activate 316,
\* complete 346).
THEOREM SettingsAgreeing == Spec => []SettingsAgree
<1>1. SettingsInv => SettingsAgree
  <2> SUFFICES ASSUME SettingsInv PROVE SettingsAgree
    OBVIOUS
  <2>1. ASSUME pc = "Ready" PROVE \A f \in Files : Loaded(f) /\ ~Replaced(f)
    BY <2>1 DEF Loaded, Loading, Replaced
  <2>2. ShownKept
    BY <2>1, SettingsAssumption DEF SettingsInv, Showing, ShownKept
  <2>3. DeviceFollows
    BY <2>1, SettingsAssumption DEF SettingsInv, Light, DeviceFollows
  <2>4. AudibleReturns
    BY DEF SettingsInv, Audible, AudibleReturns
  <2> QED BY <2>2, <2>3, <2>4 DEF SettingsInv, SettingsAgree, Bounded
<1> QED BY <1>1, SettingsInductive, PTL
=============================================================================
