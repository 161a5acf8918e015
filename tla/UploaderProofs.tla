--------------------------- MODULE UploaderProofs ---------------------------
(***************************************************************************)
(* Proofs about the two parts of the ROM uploader: RomIntake, for any      *)
(* number of uploads, titles and games, and UploaderAuth, for any number   *)
(* of clients, strikes and sessions and any length of a block.             *)
(*                                                                         *)
(* What an upload may rely on is that nobody else changes the disk while   *)
(* it holds App.storage (Exclusive), so what it saw in Check is still true *)
(* when it links and saves (Ledger), and that whatever a power loss may    *)
(* bring back is consistent with what was promised (Durable, Promised).    *)
(*                                                                         *)
(* Whoever judges a password holds the permit (Serial), so between the     *)
(* second look at the block and the accounting nobody else can have set    *)
(* one (NoGuessWhileBlocked is inductive together with it).  A session is  *)
(* announced only when its worker is done with it (Announced), and an      *)
(* order that is being read names a session (Granted).  A guess counts     *)
(* when it is judged and not before (Unjudged).                            *)
(***************************************************************************)
EXTENDS RomIntake, UploaderAuth, FiniteSetTheorems, TLAPS

-----------------------------------------------------------------------------
(* Uploads.                                                                *)

\* Whoever is past the lock is its owner, so at most one request is.
Exclusive == \A r \in Requests : place[r] \in Holding => owner = r

\* What the holder of the lock has read and written so far, by its place.
Ledger ==
  \A r \in Requests :
    /\ place[r] \in {"Linking", "SyncRom", "Saving"} => seen[r] = catalog
    /\ place[r] \in {"Linking", "SyncRom", "Saving", "Rollback", "SyncRollback"}
         => TitleOf[r] \notin catalog
    /\ place[r] = "SyncRollback" => rom[TitleOf[r]] = Nobody
    /\ place[r] \in {"SyncRom", "Saving", "Rollback", "SyncCatalog", "Restarting"}
         => rom[TitleOf[r]] = r
    /\ place[r] \in {"SyncCatalog", "Restarting"} => TitleOf[r] \in catalog
    /\ place[r] \in {"Saving", "SyncCatalog", "Restarting"}
         => romDisk[TitleOf[r]] = {r} \/ (r \in warned /\ TitleOf[r] \in uncertain)
    /\ place[r] = "Restarting" /\ r \notin warned => \A c \in catalogDisk : TitleOf[r] \in c

\* What a power loss may leave: no later catalog than the files it lists.
Durable ==
  /\ \A t \in Titles : rom[t] \in romDisk[t]
  /\ \A c \in catalogDisk : c \subseteq catalog
  /\ \A t \in catalog : t \in uncertain \/ Nobody \notin romDisk[t]

\* A filed answer holds of every disk a power loss may leave.
Promised ==
  \A r \in Requests : answer[r] = "Filed" =>
    /\ romDisk[TitleOf[r]] = {r}
    /\ TitleOf[r] \in catalog /\ \A c \in catalogDisk : TitleOf[r] \in c

\* The inductive invariant of the uploads.
IInv == TypeOK /\ Exclusive /\ Ledger /\ Durable /\ Promised

-----------------------------------------------------------------------------
\* Reading the form touches neither the lock nor the disk.
LEMMA BeginKeeps == ASSUME IInv, NEW r \in Requests, Begin(r) PROVE IInv'
<1> USE IntakeAssumption DEF Files
<1>1. TypeOK'
  BY DEF IInv, TypeOK, Holding, Busy, Places, Begin, Goto, Return, diskVars
<1>2. Exclusive'
  BY <1>1 DEF IInv, TypeOK, Exclusive, Holding, Busy, Places, Begin, Goto, Return, diskVars
<1>4. Ledger'
  BY <1>1 DEF IInv, TypeOK, Ledger, Holding, Begin, Goto, Return, diskVars
<1>5. Durable'
  BY <1>1 DEF IInv, TypeOK, Exclusive, Ledger, Durable, Begin, Goto, Return, diskVars
<1>6. Promised'
  BY <1>1 DEF IInv, TypeOK, Ledger, Durable, Promised, Begin, Goto, Return, diskVars
<1> QED BY <1>1, <1>2, <1>4, <1>5, <1>6 DEF IInv

\* App.storage has one holder.
LEMMA LockKeeps == ASSUME IInv, NEW r \in Requests, Lock(r) PROVE IInv'
<1> USE IntakeAssumption DEF Files
<1>1. TypeOK'
  BY DEF IInv, TypeOK, Holding, Busy, Places, Lock, Goto, Return, diskVars
<1>2. Exclusive'
  BY <1>1 DEF IInv, TypeOK, Exclusive, Holding, Busy, Places, Lock, Goto, Return, diskVars
<1>4. Ledger'
  BY <1>1 DEF IInv, TypeOK, Ledger, Holding, Lock, Goto, Return, diskVars
<1>5. Durable'
  BY <1>1 DEF IInv, TypeOK, Exclusive, Ledger, Durable, Lock, Goto, Return, diskVars
<1>6. Promised'
  BY <1>1 DEF IInv, TypeOK, Ledger, Durable, Promised, Lock, Goto, Return, diskVars
<1> QED BY <1>1, <1>2, <1>4, <1>5, <1>6 DEF IInv

\* What Check saw is the catalog itself.
LEMMA CheckKeeps == ASSUME IInv, NEW r \in Requests, Check(r) PROVE IInv'
<1> USE IntakeAssumption DEF Files
<1>1. TypeOK'
  BY DEF IInv, TypeOK, Holding, Busy, Places, Check, Goto, Return, diskVars, Cataloged
<1>2. Exclusive'
  BY <1>1 DEF IInv, TypeOK, Exclusive, Holding, Busy, Places, Check, Goto, Return, diskVars, Cataloged
<1>3. ASSUME NEW q \in Requests, q # r PROVE place[q] \notin Holding /\ place'[q] = place[q]
  BY <1>3 DEF IInv, TypeOK, Exclusive, Holding, Check, Goto, Return, diskVars, Cataloged
<1>4. Ledger'
  BY <1>1, <1>3 DEF IInv, TypeOK, Ledger, Durable, Holding, Check, Goto, Return, diskVars, Cataloged
<1>5. Durable'
  BY <1>1 DEF IInv, TypeOK, Exclusive, Ledger, Durable, Check, Goto, Return, diskVars, Cataloged
<1>6. Promised'
  BY <1>1 DEF IInv, TypeOK, Ledger, Durable, Promised, Check, Goto, Return, diskVars, Cataloged
<1> QED BY <1>1, <1>2, <1>4, <1>5, <1>6 DEF IInv

\* A link only fills an empty place, of a title the catalog does not name.
LEMMA LinkKeeps == ASSUME IInv, NEW r \in Requests, Link(r) PROVE IInv'
<1> USE IntakeAssumption DEF Files
<1>1. TypeOK'
  BY DEF IInv, TypeOK, Holding, Busy, Places, Link, Goto, Return, diskVars
<1>2. Exclusive'
  BY <1>1 DEF IInv, TypeOK, Exclusive, Holding, Busy, Places, Link, Goto, Return, diskVars
<1>3. ASSUME NEW q \in Requests, q # r PROVE place[q] \notin Holding /\ place'[q] = place[q]
  BY <1>3 DEF IInv, TypeOK, Exclusive, Holding, Link, Goto, Return, diskVars
<1>4. Ledger'
  BY <1>1, <1>3 DEF IInv, TypeOK, Ledger, Durable, Holding, Link, Goto, Return, diskVars
<1>5. Durable'
  <2>1. TitleOf[r] \in Titles /\ TitleOf[r] \notin catalog
    BY DEF IInv, Ledger, Link
  <2>2. (catalog' = catalog) /\ (catalogDisk' = catalogDisk) /\ (uncertain' = uncertain)
    BY DEF Link
  <2>3. \A t \in Titles : t # TitleOf[r] => (rom'[t] = rom[t]) /\ (romDisk'[t] = romDisk[t])
    BY DEF Link, IInv, TypeOK
  <2>4. rom'[TitleOf[r]] \in romDisk'[TitleOf[r]]
    BY <2>1 DEF Link, IInv, TypeOK, Durable, Ledger
  <2> QED BY <2>1, <2>2, <2>3, <2>4 DEF IInv, TypeOK, Durable
<1>6. Promised'
  BY <1>1 DEF IInv, TypeOK, Ledger, Durable, Promised, Link, Goto, Return, diskVars
<1> QED BY <1>1, <1>2, <1>4, <1>5, <1>6 DEF IInv

\* After the ROM's sync the directory is settled, or a warning is on record.
LEMMA SyncRomKeeps == ASSUME IInv, NEW r \in Requests, SyncRom(r) PROVE IInv'
<1> USE IntakeAssumption DEF Files
<1>1. TypeOK'
  <2>1. place' \in [Requests -> Places]
    BY DEF IInv, TypeOK, Holding, Busy, Places, SyncRom, Goto
  <2>2. (warned' \in SUBSET Requests) /\ (uncertain' \in SUBSET Titles)
    BY DEF IInv, TypeOK, SyncRom
  <2>3. romDisk' \in [Titles -> SUBSET Files]
    BY DEF IInv, TypeOK, SyncRom
  <2> QED BY <2>1, <2>2, <2>3 DEF IInv, TypeOK, SyncRom
<1>2. Exclusive'
  BY <1>1 DEF IInv, TypeOK, Exclusive, Holding, Busy, Places, SyncRom, Goto, Return, diskVars
<1>3. ASSUME NEW q \in Requests, q # r PROVE place[q] \notin Holding /\ place'[q] = place[q]
  BY <1>3 DEF IInv, TypeOK, Exclusive, Holding, SyncRom, Goto, Return, diskVars
<1>4. Ledger'
  BY <1>1, <1>3 DEF IInv, TypeOK, Ledger, Durable, Holding, SyncRom, Goto, Return, diskVars
<1>5. Durable'
  BY <1>1 DEF IInv, TypeOK, Exclusive, Ledger, Durable, SyncRom, Goto, Return, diskVars
<1>6. Promised'
  BY <1>1 DEF IInv, TypeOK, Ledger, Durable, Promised, SyncRom, Goto, Return, diskVars
<1> QED BY <1>1, <1>2, <1>4, <1>5, <1>6 DEF IInv

\* The renamed catalog is the one that was read plus the title whose ROM is there.
LEMMA SaveKeeps == ASSUME IInv, NEW r \in Requests, Save(r) PROVE IInv'
<1> USE IntakeAssumption DEF Files
<1>1. TypeOK'
  BY DEF IInv, TypeOK, Holding, Busy, Places, Save, Goto, Return, diskVars
<1>2. Exclusive'
  BY <1>1 DEF IInv, TypeOK, Exclusive, Holding, Busy, Places, Save, Goto, Return, diskVars
<1>3. ASSUME NEW q \in Requests, q # r PROVE place[q] \notin Holding /\ place'[q] = place[q]
  BY <1>3 DEF IInv, TypeOK, Exclusive, Holding, Save, Goto, Return, diskVars
<1>4. Ledger'
  BY <1>1, <1>3 DEF IInv, TypeOK, Ledger, Durable, Holding, Save, Goto, Return, diskVars
<1>5. Durable'
  BY <1>1 DEF IInv, TypeOK, Exclusive, Ledger, Durable, Save, Goto, Return, diskVars
<1>6. Promised'
  BY <1>1 DEF IInv, TypeOK, Ledger, Durable, Promised, Save, Goto, Return, diskVars
<1> QED BY <1>1, <1>2, <1>4, <1>5, <1>6 DEF IInv

\* After the catalog's sync no power loss can bring an older catalog back.
LEMMA SyncCatalogKeeps == ASSUME IInv, NEW r \in Requests, SyncCatalog(r) PROVE IInv'
<1> USE IntakeAssumption DEF Files
<1>1. TypeOK'
  BY DEF IInv, TypeOK, Holding, Busy, Places, SyncCatalog, Goto, Return, diskVars
<1>2. Exclusive'
  BY <1>1 DEF IInv, TypeOK, Exclusive, Holding, Busy, Places, SyncCatalog, Goto, Return, diskVars
<1>3. ASSUME NEW q \in Requests, q # r PROVE place[q] \notin Holding /\ place'[q] = place[q]
  BY <1>3 DEF IInv, TypeOK, Exclusive, Holding, SyncCatalog, Goto, Return, diskVars
<1>4. Ledger'
  BY <1>1, <1>3 DEF IInv, TypeOK, Ledger, Durable, Holding, SyncCatalog, Goto, Return, diskVars
<1>5. Durable'
  BY <1>1 DEF IInv, TypeOK, Exclusive, Ledger, Durable, SyncCatalog, Goto, Return, diskVars
<1>6. Promised'
  BY <1>1 DEF IInv, TypeOK, Ledger, Durable, Promised, SyncCatalog, Goto, Return, diskVars
<1> QED BY <1>1, <1>2, <1>4, <1>5, <1>6 DEF IInv

\* A rollback only removes a ROM no catalog names.
LEMMA RollbackKeeps == ASSUME IInv, NEW r \in Requests, Rollback(r) PROVE IInv'
<1> USE IntakeAssumption DEF Files
<1>1. TypeOK'
  BY DEF IInv, TypeOK, Holding, Busy, Places, Rollback, Goto, Return, diskVars
<1>2. Exclusive'
  BY <1>1 DEF IInv, TypeOK, Exclusive, Holding, Busy, Places, Rollback, Goto, Return, diskVars
<1>3. ASSUME NEW q \in Requests, q # r PROVE place[q] \notin Holding /\ place'[q] = place[q]
  BY <1>3 DEF IInv, TypeOK, Exclusive, Holding, Rollback, Goto, Return, diskVars
<1>4. Ledger'
  BY <1>1, <1>3 DEF IInv, TypeOK, Ledger, Durable, Holding, Rollback, Goto, Return, diskVars
<1>5. Durable'
  <2>1. TitleOf[r] \in Titles /\ TitleOf[r] \notin catalog
    BY DEF IInv, Ledger, Rollback
  <2>2. (catalog' = catalog) /\ (catalogDisk' = catalogDisk) /\ (uncertain' = uncertain)
    BY DEF Rollback
  <2>3. \A t \in Titles : t # TitleOf[r] => (rom'[t] = rom[t]) /\ (romDisk'[t] = romDisk[t])
    BY DEF Rollback, IInv, TypeOK
  <2>4. rom'[TitleOf[r]] \in romDisk'[TitleOf[r]]
    BY <2>1 DEF Rollback, IInv, TypeOK, Durable, Ledger
  <2> QED BY <2>1, <2>2, <2>3, <2>4 DEF IInv, TypeOK, Durable
<1>6. Promised'
  BY <1>1 DEF IInv, TypeOK, Ledger, Durable, Promised, Rollback, Goto, Return, diskVars
<1> QED BY <1>1, <1>2, <1>4, <1>5, <1>6 DEF IInv

\* Syncing a rollback concerns no cataloged title.
LEMMA SyncRollbackKeeps == ASSUME IInv, NEW r \in Requests, SyncRollback(r) PROVE IInv'
<1> USE IntakeAssumption DEF Files
<1>1. TypeOK'
  BY DEF IInv, TypeOK, Holding, Busy, Places, SyncRollback, Goto, Return, diskVars
<1>2. Exclusive'
  BY <1>1 DEF IInv, TypeOK, Exclusive, Holding, Busy, Places, SyncRollback, Goto, Return, diskVars
<1>3. ASSUME NEW q \in Requests, q # r PROVE place[q] \notin Holding /\ place'[q] = place[q]
  BY <1>3 DEF IInv, TypeOK, Exclusive, Holding, SyncRollback, Goto, Return, diskVars
<1>4. Ledger'
  BY <1>1, <1>3 DEF IInv, TypeOK, Ledger, Durable, Holding, SyncRollback, Goto, Return, diskVars
<1>5. Durable'
  <2>1. TitleOf[r] \in Titles /\ TitleOf[r] \notin catalog
    BY DEF IInv, Ledger, SyncRollback
  <2>2. (catalog' = catalog) /\ (catalogDisk' = catalogDisk) /\ (uncertain' = uncertain)
    BY DEF SyncRollback
  <2>3. \A t \in Titles : t # TitleOf[r] => (rom'[t] = rom[t]) /\ (romDisk'[t] = romDisk[t])
    BY DEF SyncRollback, IInv, TypeOK
  <2>4. rom'[TitleOf[r]] \in romDisk'[TitleOf[r]]
    BY <2>1 DEF SyncRollback, IInv, TypeOK, Durable, Ledger
  <2> QED BY <2>1, <2>2, <2>3, <2>4 DEF IInv, TypeOK, Durable
<1>6. Promised'
  <2>1. TitleOf[r] \notin catalog
    BY DEF IInv, Ledger, SyncRollback
  <2>2. \A q \in Requests : answer'[q] = "Filed" => answer[q] = "Filed"
    BY DEF SyncRollback, Return, IInv, TypeOK
  <2>3. \A t \in Titles : t # TitleOf[r] => (romDisk'[t] = romDisk[t])
    BY DEF SyncRollback, IInv, TypeOK
  <2>4. (catalog' = catalog) /\ (catalogDisk' = catalogDisk)
    BY DEF SyncRollback
  <2> QED BY <2>1, <2>2, <2>3, <2>4 DEF IInv, TypeOK, Promised
<1> QED BY <1>1, <1>2, <1>4, <1>5, <1>6 DEF IInv

\* Only an upload without a warning is answered as filed.
LEMMA RestartKeeps == ASSUME IInv, NEW r \in Requests, Restart(r) PROVE IInv'
<1> USE IntakeAssumption DEF Files
<1>1. TypeOK'
  BY DEF IInv, TypeOK, Holding, Busy, Places, Restart, Goto, Return, diskVars
<1>2. Exclusive'
  BY <1>1 DEF IInv, TypeOK, Exclusive, Holding, Busy, Places, Restart, Goto, Return, diskVars
<1>3. ASSUME NEW q \in Requests, q # r PROVE place[q] \notin Holding /\ place'[q] = place[q]
  BY <1>3 DEF IInv, TypeOK, Exclusive, Holding, Restart, Goto, Return, diskVars
<1>4. Ledger'
  BY <1>1, <1>3 DEF IInv, TypeOK, Ledger, Durable, Holding, Restart, Goto, Return, diskVars
<1>5. Durable'
  BY <1>1 DEF IInv, TypeOK, Exclusive, Ledger, Durable, Restart, Goto, Return, diskVars
<1>6. Promised'
  BY <1>1 DEF IInv, TypeOK, Ledger, Durable, Promised, Restart, Goto, Return, diskVars
<1> QED BY <1>1, <1>2, <1>4, <1>5, <1>6 DEF IInv

\* The handler's timeout changes the answer alone.
LEMMA TimeOutKeeps == ASSUME IInv, NEW r \in Requests, TimeOut(r) PROVE IInv'
<1> USE IntakeAssumption DEF Files
<1>1. TypeOK'
  BY DEF IInv, TypeOK, Holding, Busy, Places, TimeOut, diskVars
<1>2. Exclusive'
  BY <1>1 DEF IInv, TypeOK, Exclusive, Holding, Busy, Places, TimeOut, diskVars
<1>4. Ledger'
  BY <1>1 DEF IInv, TypeOK, Ledger, Holding, TimeOut, diskVars
<1>5. Durable'
  BY <1>1 DEF IInv, TypeOK, Exclusive, Ledger, Durable, TimeOut, diskVars
<1>6. Promised'
  BY <1>1 DEF IInv, TypeOK, Ledger, Durable, Promised, TimeOut, diskVars
<1> QED BY <1>1, <1>2, <1>4, <1>5, <1>6 DEF IInv

\* Killing the uploader leaves the disk as it is, and nobody holds the lock.
LEMMA KillKeeps == ASSUME IInv, Kill PROVE IInv'
<1> USE IntakeAssumption DEF Files
<1>1. TypeOK'
  BY DEF IInv, TypeOK, Holding, Busy, Places, Kill, WorkersGone, diskVars
<1>2. \A q \in Requests : place'[q] \notin Holding
  BY DEF IInv, TypeOK, Holding, Busy, Kill, WorkersGone
<1>3. Exclusive' /\ Ledger'
  BY <1>1, <1>2 DEF Exclusive, Ledger, Holding
<1>4. Durable' /\ Promised'
  BY DEF IInv, Durable, Promised, Kill, WorkersGone, diskVars
<1> QED BY <1>1, <1>3, <1>4 DEF IInv

\* What a power loss leaves was possible before, and nobody holds the lock.
LEMMA PowerLossKeeps == ASSUME IInv, PowerLoss PROVE IInv'
<1> USE IntakeAssumption DEF Files
<1>1. TypeOK'
  BY DEF IInv, TypeOK, Holding, Busy, Places, PowerLoss, WorkersGone
<1>2. \A q \in Requests : place'[q] \notin Holding
  BY DEF IInv, TypeOK, Holding, Busy, PowerLoss, WorkersGone
<1>3. Exclusive' /\ Ledger'
  BY <1>1, <1>2 DEF Exclusive, Ledger, Holding
<1>4. Durable'
  BY <1>1 DEF IInv, TypeOK, Durable, PowerLoss, WorkersGone
<1>5. Promised'
  BY <1>1 DEF IInv, TypeOK, Durable, Promised, PowerLoss, WorkersGone
<1> QED BY <1>1, <1>3, <1>4, <1>5 DEF IInv

\* The empty intake satisfies the invariant.
LEMMA InitIInv == Init => IInv
<1> USE IntakeAssumption DEF Files
<1>1. Init => TypeOK
  BY DEF Init, TypeOK, Places
<1>2. Init => Exclusive /\ Ledger
  BY DEF Init, Exclusive, Ledger, Holding
<1>3. Init => Durable /\ Promised
  BY DEF Init, Durable, Promised
<1> QED BY <1>1, <1>2, <1>3 DEF IInv

\* Every step of the intake preserves the invariant.
LEMMA NextIInv == IInv /\ [Next]_vars => IInv'
<1> SUFFICES ASSUME IInv, [Next]_vars PROVE IInv'
  OBVIOUS
<1>1. CASE UNCHANGED vars
  BY <1>1 DEF IInv, TypeOK, Exclusive, Ledger, Durable, Promised, vars, diskVars
<1>2. CASE \E r \in Requests : Begin(r) \/ AddRom(r) \/ TimeOut(r)
  BY <1>2, BeginKeeps, LockKeeps, CheckKeeps, LinkKeeps, SyncRomKeeps, SaveKeeps,
     SyncCatalogKeeps, RollbackKeeps, SyncRollbackKeeps, RestartKeeps, TimeOutKeeps DEF AddRom
<1>3. CASE Kill \/ PowerLoss
  BY <1>3, KillKeeps, PowerLossKeeps
<1> QED BY <1>1, <1>2, <1>3 DEF Next

\* The invariant holds in every reachable state of the intake.
THEOREM Invariance == Spec => []IInv
BY InitIInv, NextIInv, PTL DEF Spec

\* The types hold, for every number of uploads and titles.
THEOREM TypeCorrect == Spec => []TypeOK
<1>1. IInv => TypeOK
  BY DEF IInv
<1> QED BY <1>1, Invariance, PTL

\* add_rom_with_sync: every cataloged game has its ROM, through concurrent
\* uploads, failed saves, kills and power losses, unless the sync of the ROM's
\* directory failed.
THEOREM GamesHaveRoms == Spec => []CatalogBacked
<1>1. IInv => CatalogBacked
  BY DEF IInv, TypeOK, Durable, CatalogBacked
<1> QED BY <1>1, Invariance, PTL

\* add_rom_with_sync: an upload answered without a warning stays, entry and
\* ROM, whatever other uploads, kills and power losses follow.
THEOREM FiledStays == Spec => []FiledForGood
<1>1. IInv => FiledForGood
  BY IntakeAssumption DEF IInv, TypeOK, Durable, Promised, FiledForGood
<1> QED BY <1>1, Invariance, PTL

\* install_with_sync: no step but a power loss replaces a ROM, and none but a
\* power loss removes one the catalog names.
THEOREM NothingReplaced == Spec => RomsRetained
<1>1. IInv /\ [Next]_vars =>
        [PowerLoss \/ \A t \in Titles :
           rom[t] # Nobody /\ rom'[t] # rom[t] => (rom'[t] = Nobody) /\ (t \notin catalog)]_vars
  <2> SUFFICES ASSUME IInv, [Next]_vars, ~PowerLoss, NEW t \in Titles,
                      rom[t] # Nobody, rom'[t] # rom[t]
               PROVE  (rom'[t] = Nobody) /\ (t \notin catalog)
    OBVIOUS
  <2>1. PICK r \in Requests : Link(r) \/ Rollback(r)
    BY DEF Next, vars, diskVars, AddRom, Begin, Lock, Check, SyncRom, Save, SyncCatalog,
           SyncRollback, Restart, TimeOut, Kill
  <2>2. CASE Link(r)
    BY <2>2, IntakeAssumption DEF Link, IInv, TypeOK
  <2>3. CASE Rollback(r)
    BY <2>3, IntakeAssumption DEF Rollback, IInv, TypeOK, Ledger
  <2> QED BY <2>1, <2>2, <2>3
<1> QED BY <1>1, Invariance, PTL DEF Spec, RomsRetained
\* Sizes of catalogs: finite, growing by at most one per title.
LEMMA CatalogSizes ==
  ASSUME NEW c \in SUBSET Titles
  PROVE  /\ Cardinality(c) \in Nat /\ Cardinality(Base) \in Nat
         /\ \A t \in Titles : (t \notin c) => Cardinality(c \cup {t}) = Cardinality(c) + 1
         /\ \A d \in SUBSET c : Cardinality(d) \in Nat /\ Cardinality(d) <= Cardinality(c)
<1>1. IsFiniteSet(c) /\ IsFiniteSet(Base)
  BY IntakeAssumption, FS_Subset
<1>2. Cardinality(c) \in Nat /\ Cardinality(Base) \in Nat
  BY <1>1, FS_CardinalityType
<1>3. \A t \in Titles : (t \notin c) => Cardinality(c \cup {t}) = Cardinality(c) + 1
  BY <1>1, FS_AddElement
<1>4. \A d \in SUBSET c : Cardinality(d) \in Nat /\ Cardinality(d) <= Cardinality(c)
  BY <1>1, FS_Subset, FS_CardinalityType
<1> QED BY <1>2, <1>3, <1>4

\* The upload that passed Check still has room for its entry until it saves.
Room ==
  \A r \in Requests : place[r] \in {"Linking", "SyncRom", "Saving"} =>
    Cardinality(Base) + Cardinality(catalog) < MaxGames

\* Every step keeps the catalog within the menu, because only the holder of
\* App.storage changes it and by one entry only.
LEMMA NextFits ==
  ASSUME IInv, Room, CatalogFits, Next PROVE Room' /\ CatalogFits'
<1> USE IntakeAssumption
<1>1. ASSUME NEW r \in Requests, Save(r) PROVE Room' /\ CatalogFits'
  <2>1. \A q \in Requests : q # r => place[q] \notin Holding
    BY <1>1 DEF IInv, Exclusive, Holding, Save
  <2>2. \A q \in Requests : place'[q] \notin {"Linking", "SyncRom", "Saving"}
    BY <1>1, <2>1 DEF IInv, TypeOK, Holding, Save, Goto
  <2>3. Cardinality(Base) + Cardinality(catalog) < MaxGames /\ TitleOf[r] \notin catalog
        /\ seen[r] = catalog /\ TitleOf[r] \in Titles
    BY <1>1 DEF IInv, Ledger, Room, Save
  <2>4. (catalog' = catalog) \/ (catalog' = catalog \cup {TitleOf[r]})
    BY <1>1, <2>3 DEF Save
  <2>5. Cardinality(catalog) \in Nat /\ Cardinality(Base) \in Nat
        /\ Cardinality(catalog \cup {TitleOf[r]}) = Cardinality(catalog) + 1
    BY <2>3, CatalogSizes DEF IInv, TypeOK
  <2>6. Cardinality(Base) + Cardinality(catalog') <= MaxGames
    <3>1. MaxGames \in Nat
      BY IntakeAssumption
    <3>2. CASE catalog' = catalog
      BY ONLY <2>3, <2>5, <3>1, <3>2
    <3>3. CASE catalog' = catalog \cup {TitleOf[r]}
      <4>1. Cardinality(catalog') = Cardinality(catalog) + 1
        BY ONLY <2>5, <3>3
      <4> QED BY ONLY <2>3, <2>5, <3>1, <4>1
    <3> QED BY <2>4, <3>2, <3>3
  <2> QED BY <2>2, <2>6 DEF Room, CatalogFits
<1>2. ASSUME NEW r \in Requests, Check(r) PROVE Room' /\ CatalogFits'
  <2>1. catalog' = catalog
    BY <1>2 DEF Check, diskVars
  <2>2. Cardinality(catalog) \in Nat /\ Cardinality(Base) \in Nat
    BY CatalogSizes DEF IInv, TypeOK
  <2>3. CASE ~Full
    <3>1. Cardinality(Base) + Cardinality(catalog) < MaxGames
      BY <2>2, <2>3 DEF Full
    <3> QED BY <2>1, <3>1 DEF Room, CatalogFits
  <2>4. CASE Full
    <3>1. \A q \in Requests : place'[q] = place[q] \/ place'[q] = "Done"
      BY <1>2, <2>4 DEF Check, Return, Goto, IInv, TypeOK
    <3> QED BY <2>1, <3>1 DEF Room, CatalogFits
  <2> QED BY <2>3, <2>4
<1>3. ASSUME NEW r \in Requests, (catalog' = catalog),
             \A q \in Requests : place'[q] \in {"Linking", "SyncRom", "Saving"} =>
                                 place[q] \in {"Linking", "SyncRom", "Saving"}
      PROVE  Room' /\ CatalogFits'
  BY <1>3 DEF Room, CatalogFits
<1>4. ASSUME NEW r \in Requests, Begin(r) \/ Lock(r) \/ Link(r) \/ SyncRom(r) \/ TimeOut(r)
      PROVE  Room' /\ CatalogFits'
  BY <1>3, <1>4 DEF Begin, Lock, Link, SyncRom, TimeOut, Return, Goto, diskVars, IInv, TypeOK
<1>5. ASSUME NEW r \in Requests,
             SyncCatalog(r) \/ Rollback(r) \/ SyncRollback(r) \/ Restart(r)
      PROVE  Room' /\ CatalogFits'
  BY <1>3, <1>5 DEF SyncCatalog, Rollback, SyncRollback, Restart, Return, Goto, diskVars,
                    IInv, TypeOK
<1>6. ASSUME Kill \/ PowerLoss PROVE Room' /\ CatalogFits'
  <2>1. \A q \in Requests : place'[q] \notin {"Linking", "SyncRom", "Saving"}
    BY <1>6 DEF Kill, PowerLoss, WorkersGone, Busy, Holding, IInv, TypeOK
  <2>2. catalog \in SUBSET Titles /\ catalog' \subseteq catalog
    BY <1>6 DEF Kill, PowerLoss, diskVars, IInv, TypeOK, Durable
  <2>3. /\ Cardinality(catalog) \in Nat /\ Cardinality(Base) \in Nat
        /\ Cardinality(catalog') \in Nat /\ Cardinality(catalog') <= Cardinality(catalog)
    BY <2>2, CatalogSizes
  <2>4. CASE catalog = {}
    BY <2>1, <2>2, <2>4 DEF Room, CatalogFits
  <2>5. CASE catalog # {}
    <3>1. Cardinality(Base) + Cardinality(catalog) <= MaxGames
      BY <2>5 DEF CatalogFits
    <3>2. Cardinality(Base) + Cardinality(catalog') <= MaxGames
      BY <2>3, <3>1
    <3> QED BY <2>1, <3>2 DEF Room, CatalogFits
  <2> QED BY <2>4, <2>5
<1> QED BY <1>1, <1>2, <1>4, <1>5, <1>6 DEF Next, AddRom

\* add_rom_with_sync: however many uploads run at once, the two catalogs
\* together never exceed the menu's limit, for every limit.
THEOREM MenuNeverOverfull == Spec => []CatalogFits
<1>1. Init => Room /\ CatalogFits
  BY DEF Init, Room, CatalogFits
<1>2. IInv /\ Room /\ CatalogFits /\ [Next]_vars => Room' /\ CatalogFits'
  <2>1. UNCHANGED vars /\ Room /\ CatalogFits => Room' /\ CatalogFits'
    BY DEF vars, diskVars, Room, CatalogFits
  <2> QED BY <2>1, NextFits
<1> QED BY <1>1, <1>2, Invariance, PTL DEF Spec

\* add_rom: whatever uploads, kills and power losses follow each other, each game
\* of the catalog has its ROM, or its loss was warned of, and the menu takes all.
THEOREM CatalogIsSound == Spec => []CatalogSound
<1> QED BY GamesHaveRoms, MenuNeverOverfull, PTL DEF CatalogSound

-----------------------------------------------------------------------------
(* Sign-ins and sessions.                                                  *)

\* One login is worked on at a time: the one with the permit.
Serial == \A l \in Logins : progress[l] \in Working => permit = l

\* A session is answered with when the login is done.
Announced == \A l \in Logins : reply[l] = "Session" => progress[l] = "Done"

\* A file that is read has a login's cookie.
Granted == \A o \in Orders : order[o] = "Reading" => cookie[o] \in Logins

\* The inductive invariant of the sign-in.
SignInInv == SignInTypeOK /\ Serial /\ NoGuessWhileBlocked /\ Announced /\ Granted

-----------------------------------------------------------------------------

\* Arriving judges nothing.
LEMMA ArriveKeeps == ASSUME SignInInv, NEW l \in Logins, Arrive(l) PROVE SignInInv'
<1> USE AuthAssumption DEF Never
<1>1. SignInTypeOK'
  BY DEF SignInInv, SignInTypeOK, Working, Granted, Arrive, Goes, Tell, loginVars, attemptVars, orderVars, MayPass,
     MayReject, Strike, Retained, Expired
<1>2. Serial'
  BY <1>1 DEF SignInInv, SignInTypeOK, Serial, Working, Arrive, Goes, Tell, loginVars, attemptVars, orderVars,
     MayPass, MayReject, Strike, Retained, Expired
<1>3. NoGuessWhileBlocked'
  BY <1>1 DEF SignInInv, SignInTypeOK, Serial, NoGuessWhileBlocked, Working, Arrive, Goes, Tell, loginVars,
     attemptVars, orderVars, MayPass, MayReject, Strike, Retained, Expired
<1>4. Announced' /\ Granted'
  BY <1>1 DEF SignInInv, SignInTypeOK, Announced, Granted, Working, Arrive, Goes, Tell, loginVars, attemptVars,
     orderVars, MayPass, MayReject, Strike, Retained, Expired
<1> QED BY <1>1, <1>2, <1>3, <1>4 DEF SignInInv

\* The permit is free when it is granted and the block is looked at again.
LEMMA AcquireKeeps == ASSUME SignInInv, NEW l \in Logins, Acquire(l) PROVE SignInInv'
<1> USE AuthAssumption DEF Never
<1>1. SignInTypeOK'
  BY DEF SignInInv, SignInTypeOK, Working, Granted, Acquire, Goes, Tell, loginVars, attemptVars, orderVars, MayPass,
     MayReject, Strike, Retained, Expired
<1>2. Serial'
  BY <1>1 DEF SignInInv, SignInTypeOK, Serial, Working, Acquire, Goes, Tell, loginVars, attemptVars, orderVars,
     MayPass, MayReject, Strike, Retained, Expired
<1>3. NoGuessWhileBlocked'
  BY <1>1 DEF SignInInv, SignInTypeOK, Serial, NoGuessWhileBlocked, Working, Acquire, Goes, Tell, loginVars,
     attemptVars, orderVars, MayPass, MayReject, Strike, Retained, Expired
<1>4. Announced' /\ Granted'
  BY <1>1 DEF SignInInv, SignInTypeOK, Announced, Granted, Working, Acquire, Goes, Tell, loginVars, attemptVars,
     orderVars, MayPass, MayReject, Strike, Retained, Expired
<1> QED BY <1>1, <1>2, <1>3, <1>4 DEF SignInInv

\* Leaving the queue changes the place alone.
LEMMA GiveUpKeeps == ASSUME SignInInv, NEW l \in Logins, GiveUp(l) PROVE SignInInv'
<1> USE AuthAssumption DEF Never
<1>1. SignInTypeOK'
  BY DEF SignInInv, SignInTypeOK, Working, Granted, GiveUp, Goes, Tell, loginVars, attemptVars, orderVars, MayPass,
     MayReject, Strike, Retained, Expired
<1>2. Serial'
  BY <1>1 DEF SignInInv, SignInTypeOK, Serial, Working, GiveUp, Goes, Tell, loginVars, attemptVars, orderVars,
     MayPass, MayReject, Strike, Retained, Expired
<1>3. NoGuessWhileBlocked'
  BY <1>1 DEF SignInInv, SignInTypeOK, Serial, NoGuessWhileBlocked, Working, GiveUp, Goes, Tell, loginVars,
     attemptVars, orderVars, MayPass, MayReject, Strike, Retained, Expired
<1>4. Announced' /\ Granted'
  BY <1>1 DEF SignInInv, SignInTypeOK, Announced, Granted, Working, GiveUp, Goes, Tell, loginVars, attemptVars,
     orderVars, MayPass, MayReject, Strike, Retained, Expired
<1> QED BY <1>1, <1>2, <1>3, <1>4 DEF SignInInv

\* A verdict changes no account.
LEMMA VerifyKeeps == ASSUME SignInInv, NEW l \in Logins, Verify(l) PROVE SignInInv'
<1> USE AuthAssumption DEF Never
<1>1. SignInTypeOK'
  BY DEF SignInInv, SignInTypeOK, Working, Granted, Verify, Goes, Tell, loginVars, attemptVars, orderVars, MayPass,
     MayReject, Strike, Retained, Expired
<1>2. Serial'
  BY <1>1 DEF SignInInv, SignInTypeOK, Serial, Working, Verify, Goes, Tell, loginVars, attemptVars, orderVars,
     MayPass, MayReject, Strike, Retained, Expired
<1>3. NoGuessWhileBlocked'
  BY <1>1 DEF SignInInv, SignInTypeOK, Serial, NoGuessWhileBlocked, Working, Verify, Goes, Tell, loginVars,
     attemptVars, orderVars, MayPass, MayReject, Strike, Retained, Expired
<1>4. Announced' /\ Granted'
  BY <1>1 DEF SignInInv, SignInTypeOK, Announced, Granted, Working, Verify, Goes, Tell, loginVars, attemptVars,
     orderVars, MayPass, MayReject, Strike, Retained, Expired
<1> QED BY <1>1, <1>2, <1>3, <1>4 DEF SignInInv

\* Only the holder of the permit touches an account.
LEMMA RecordKeeps == ASSUME SignInInv, NEW l \in Logins, Record(l) PROVE SignInInv'
<1> USE AuthAssumption DEF Never
<1>1. SignInTypeOK'
  BY DEF SignInInv, SignInTypeOK, Working, Granted, Record, Goes, Tell, loginVars, attemptVars, orderVars, MayPass,
     MayReject, Strike, Retained, Expired
<1>2. Serial'
  BY <1>1 DEF SignInInv, SignInTypeOK, Serial, Working, Record, Goes, Tell, loginVars, attemptVars, orderVars,
     MayPass, MayReject, Strike, Retained, Expired
<1>3. NoGuessWhileBlocked'
  BY <1>1 DEF SignInInv, SignInTypeOK, Serial, NoGuessWhileBlocked, Working, Record, Goes, Tell, loginVars,
     attemptVars, orderVars, MayPass, MayReject, Strike, Retained, Expired
<1>4. Announced' /\ Granted'
  BY <1>1 DEF SignInInv, SignInTypeOK, Announced, Granted, Working, Record, Goes, Tell, loginVars, attemptVars,
     orderVars, MayPass, MayReject, Strike, Retained, Expired
<1> QED BY <1>1, <1>2, <1>3, <1>4 DEF SignInInv

\* The session is announced as its worker ends.
LEMMA CreateKeeps == ASSUME SignInInv, NEW l \in Logins, Create(l) PROVE SignInInv'
<1> USE AuthAssumption DEF Never
<1>1. SignInTypeOK'
  BY DEF SignInInv, SignInTypeOK, Working, Granted, Create, Goes, Tell, loginVars, attemptVars, orderVars, MayPass,
     MayReject, Strike, Retained, Expired
<1>2. Serial'
  BY <1>1 DEF SignInInv, SignInTypeOK, Serial, Working, Create, Goes, Tell, loginVars, attemptVars, orderVars,
     MayPass, MayReject, Strike, Retained, Expired
<1>3. NoGuessWhileBlocked'
  BY <1>1 DEF SignInInv, SignInTypeOK, Serial, NoGuessWhileBlocked, Working, Create, Goes, Tell, loginVars,
     attemptVars, orderVars, MayPass, MayReject, Strike, Retained, Expired
<1>4. Announced' /\ Granted'
  BY <1>1 DEF SignInInv, SignInTypeOK, Announced, Granted, Working, Create, Goes, Tell, loginVars, attemptVars,
     orderVars, MayPass, MayReject, Strike, Retained, Expired
<1> QED BY <1>1, <1>2, <1>3, <1>4 DEF SignInInv

\* A client that hangs up leaves the worker and its permit alone.
LEMMA AbandonKeeps == ASSUME SignInInv, NEW l \in Logins, Abandon(l) PROVE SignInInv'
<1> USE AuthAssumption DEF Never
<1>1. SignInTypeOK'
  BY DEF SignInInv, SignInTypeOK, Working, Granted, Abandon, Goes, Tell, loginVars, attemptVars, orderVars, MayPass,
     MayReject, Strike, Retained, Expired
<1>2. Serial'
  BY <1>1 DEF SignInInv, SignInTypeOK, Serial, Working, Abandon, Goes, Tell, loginVars, attemptVars, orderVars,
     MayPass, MayReject, Strike, Retained, Expired
<1>3. NoGuessWhileBlocked'
  BY <1>1 DEF SignInInv, SignInTypeOK, Serial, NoGuessWhileBlocked, Working, Abandon, Goes, Tell, loginVars,
     attemptVars, orderVars, MayPass, MayReject, Strike, Retained, Expired
<1>4. Announced' /\ Granted'
  BY <1>1 DEF SignInInv, SignInTypeOK, Announced, Granted, Working, Abandon, Goes, Tell, loginVars, attemptVars,
     orderVars, MayPass, MayReject, Strike, Retained, Expired
<1> QED BY <1>1, <1>2, <1>3, <1>4 DEF SignInInv

\* A grant names an announced session.
LEMMA PresentKeeps == ASSUME SignInInv, NEW o \in Orders, Present(o) PROVE SignInInv'
<1> USE AuthAssumption DEF Never
<1>1. SignInTypeOK'
  BY DEF SignInInv, SignInTypeOK, Working, Granted, Present, loginVars, attemptVars, orderVars, Retained, Expired
<1>2. Serial'
  BY <1>1 DEF SignInInv, SignInTypeOK, Serial, Working, Present, loginVars, attemptVars, orderVars, Retained, Expired
<1>3. NoGuessWhileBlocked'
  BY <1>1 DEF SignInInv, SignInTypeOK, Serial, NoGuessWhileBlocked, Working, Present, loginVars, attemptVars,
     orderVars, Retained, Expired
<1>4. Announced' /\ Granted'
  BY <1>1 DEF SignInInv, SignInTypeOK, Announced, Granted, Working, Present, loginVars, attemptVars, orderVars,
     Retained, Expired
<1> QED BY <1>1, <1>2, <1>3, <1>4 DEF SignInInv

\* A logout removes one session.
LEMMA LogoutKeeps == ASSUME SignInInv, NEW o \in Orders, Logout(o) PROVE SignInInv'
<1> USE AuthAssumption DEF Never
<1>1. SignInTypeOK'
  BY DEF SignInInv, SignInTypeOK, Working, Granted, Logout, loginVars, attemptVars, orderVars, Retained, Expired
<1>2. Serial'
  BY <1>1 DEF SignInInv, SignInTypeOK, Serial, Working, Logout, loginVars, attemptVars, orderVars, Retained, Expired
<1>3. NoGuessWhileBlocked'
  BY <1>1 DEF SignInInv, SignInTypeOK, Serial, NoGuessWhileBlocked, Working, Logout, loginVars, attemptVars,
     orderVars, Retained, Expired
<1>4. Announced' /\ Granted'
  BY <1>1 DEF SignInInv, SignInTypeOK, Announced, Granted, Working, Logout, loginVars, attemptVars, orderVars,
     Retained, Expired
<1> QED BY <1>1, <1>2, <1>3, <1>4 DEF SignInInv

\* An order changes its own place only.
LEMMA ActKeeps == ASSUME SignInInv, NEW o \in Orders, Act(o) PROVE SignInInv'
<1> USE AuthAssumption DEF Never
<1>1. SignInTypeOK'
  BY DEF SignInInv, SignInTypeOK, Working, Granted, Act, loginVars, attemptVars, orderVars, Retained, Expired
<1>2. Serial'
  BY <1>1 DEF SignInInv, SignInTypeOK, Serial, Working, Act, loginVars, attemptVars, orderVars, Retained, Expired
<1>3. NoGuessWhileBlocked'
  BY <1>1 DEF SignInInv, SignInTypeOK, Serial, NoGuessWhileBlocked, Working, Act, loginVars, attemptVars, orderVars,
     Retained, Expired
<1>4. Announced' /\ Granted'
  BY <1>1 DEF SignInInv, SignInTypeOK, Announced, Granted, Working, Act, loginVars, attemptVars, orderVars,
     Retained, Expired
<1> QED BY <1>1, <1>2, <1>3, <1>4 DEF SignInInv

\* Time only makes blocks older.
LEMMA TickKeeps == ASSUME SignInInv, Tick PROVE SignInInv'
<1> USE AuthAssumption DEF Never
<1>1. SignInTypeOK'
  BY DEF SignInInv, SignInTypeOK, Tick, loginVars, attemptVars, orderVars
<1>2. Serial' /\ Announced' /\ Granted'
  BY DEF SignInInv, Serial, Announced, Granted, Tick, loginVars, orderVars
<1>3. NoGuessWhileBlocked'
  BY DEF SignInInv, SignInTypeOK, NoGuessWhileBlocked, Tick, loginVars, attemptVars
<1> QED BY <1>1, <1>2, <1>3 DEF SignInInv

\* NoLogin has signed in yet.
LEMMA InitSignInInv == SignInInit => SignInInv
<1> USE AuthAssumption DEF Never
<1>1. SignInInit => SignInTypeOK
  BY DEF SignInInit, SignInTypeOK
<1>2. SignInInit => Serial /\ Announced /\ Granted /\ NoGuessWhileBlocked
  BY DEF SignInInit, Serial, Announced, Granted, NoGuessWhileBlocked, Working
<1> QED BY <1>1, <1>2 DEF SignInInv

\* Every step preserves the invariant.
LEMMA NextSignInInv == SignInInv /\ [SignInNext]_signInVars => SignInInv'
<1> SUFFICES ASSUME SignInInv, [SignInNext]_signInVars PROVE SignInInv'
  OBVIOUS
<1>1. CASE UNCHANGED signInVars
  BY <1>1 DEF SignInInv, SignInTypeOK, Serial, Announced, Granted, NoGuessWhileBlocked, signInVars, loginVars,
              attemptVars, orderVars
<1>2. CASE \E l \in Logins : Arrive(l) \/ Acquire(l) \/ GiveUp(l) \/ Worker(l) \/ Abandon(l)
  BY <1>2, ArriveKeeps, AcquireKeeps, GiveUpKeeps, VerifyKeeps, RecordKeeps, CreateKeeps,
     AbandonKeeps DEF Worker
<1>3. CASE \E o \in Orders : Present(o) \/ Logout(o) \/ Act(o)
  BY <1>3, PresentKeeps, LogoutKeeps, ActKeeps
<1>4. CASE Tick
  BY <1>4, TickKeeps
<1> QED BY <1>1, <1>2, <1>3, <1>4 DEF SignInNext

\* The invariant holds in every reachable state.
THEOREM SignInInvariance == SignInSpec => []SignInInv
BY InitSignInInv, NextSignInInv, PTL DEF SignInSpec

\* The types hold; in particular Attempt.failures stays below the limit.
THEOREM SignInTyped == SignInSpec => []SignInTypeOK
<1>1. SignInInv => SignInTypeOK
  BY DEF SignInInv
<1> QED BY <1>1, SignInInvariance, PTL

\* dispatch: no password of a blocked host is judged, however many sign-ins
\* were queued before the block.
THEOREM BlockedUnheard == SignInSpec => []NoGuessWhileBlocked
<1>1. SignInInv => NoGuessWhileBlocked
  BY DEF SignInInv
<1> QED BY <1>1, SignInInvariance, PTL

\* record_login: no step shortens or lifts a block before its time.
THEOREM BlockIsServed == SignInSpec => BlockServed
<1>1. SignInInv /\ [SignInNext]_signInVars => [\A h \in Hosts : until[h] > now => until'[h] = until[h]]_signInVars
  <2> SUFFICES ASSUME SignInInv, [SignInNext]_signInVars, NEW h \in Hosts, until[h] > now, until'[h] # until[h]
               PROVE  FALSE
    OBVIOUS
  <2>1. PICK l \in Logins : Record(l)
    BY DEF SignInNext, signInVars, loginVars, attemptVars, Worker, Arrive, Acquire, GiveUp, Verify, Create,
           Abandon, Present, Logout, Act, Tick
  <2>2. until[HostOf[l]] <= now
    BY <2>1 DEF SignInInv, NoGuessWhileBlocked, Record
  <2>3. h = HostOf[l]
    BY <2>1, AuthAssumption DEF Record, Strike, SignInInv, SignInTypeOK
  <2> QED BY <2>2, <2>3, AuthAssumption DEF SignInInv, SignInTypeOK, Never
<1> QED BY <1>1, SignInInvariance, PTL DEF SignInSpec, BlockServed

\* App::session: a request is granted a session only while that lives.
THEOREM OnlyLivingSessions == SignInSpec => GrantedAlive
<1>1. SignInInv /\ [SignInNext]_signInVars =>
        [\A o \in Orders : order[o] = "Idle" /\ order'[o] = "Reading" => expires[cookie'[o]] > now]_signInVars
  <2> SUFFICES ASSUME SignInInv, [SignInNext]_signInVars, NEW o \in Orders, order[o] = "Idle",
                      order'[o] = "Reading"
               PROVE  expires[cookie'[o]] > now
    OBVIOUS
  <2>1. Present(o)
    BY DEF SignInNext, signInVars, orderVars, Worker, Arrive, Acquire, GiveUp, Verify, Record, Create,
           Abandon, Present, Logout, Act, Tick, SignInInv, SignInTypeOK
  <2>2. PICK s \in Logins : (cookie'[o] = s) /\ ~Expired(s)
    BY <2>1 DEF Present, SignInInv, SignInTypeOK
  <2> QED BY <2>2, AuthAssumption DEF Expired, SignInInv, SignInTypeOK, Never
<1> QED BY <1>1, SignInInvariance, PTL DEF SignInSpec, GrantedAlive

\* create_session: a session that ended or was signed out never comes back.
THEOREM SessionsEndForGood == SignInSpec => GoneForGood
<1>1. SignInInv /\ [SignInNext]_signInVars =>
        [\A l \in Logins : reply[l] = "Session" /\ expires[l] = Never => expires'[l] = Never]_signInVars
  <2> SUFFICES ASSUME SignInInv, [SignInNext]_signInVars, NEW l \in Logins, reply[l] = "Session",
                      expires[l] = Never, expires'[l] # Never
               PROVE  FALSE
    OBVIOUS
  <2> USE AuthAssumption
  <2>1. progress[l] = "Done"
    BY DEF SignInInv, Announced
  <2>2. CASE \E k \in Logins : Create(k)
    BY <2>1, <2>2 DEF Create, Retained, SignInInv, SignInTypeOK
  <2>3. CASE \E o \in Orders : Present(o) \/ Logout(o)
    BY <2>3 DEF Present, Logout, Retained, SignInInv, SignInTypeOK
  <2>4. CASE expires' = expires
    BY <2>4
  <2> QED BY <2>2, <2>3, <2>4 DEF SignInNext, signInVars, loginVars, attemptVars, orderVars, Worker, Arrive,
             Acquire, GiveUp, Verify, Record, Abandon, Act, Tick
<1> QED BY <1>1, SignInInvariance, PTL DEF SignInSpec, GoneForGood

-----------------------------------------------------------------------------

\* A finite set grows by at most one with one more element.
LEMMA OneMore ==
  ASSUME NEW S, IsFiniteSet(S), NEW x
  PROVE  Cardinality(S \cup {x}) <= Cardinality(S) + 1 /\ Cardinality(S \cup {x}) \in Nat
<1>1. Cardinality(S) \in Nat
  BY FS_CardinalityType
<1>2. CASE x \in S
  <2>1. S \cup {x} = S
    BY <1>2
  <2> QED BY <1>1, <2>1
<1>3. CASE x \notin S
  <2>1. Cardinality(S \cup {x}) = Cardinality(S) + 1
    BY <1>3, FS_AddElement
  <2> QED BY <1>1, <2>1
<1> QED BY <1>2, <1>3

\* A step leaves the sessions it had, or fewer, or adds one below the limit.
LEMMA NextBounded ==
  ASSUME SignInInv, SessionsBounded, [SignInNext]_signInVars PROVE SessionsBounded'
<1> USE AuthAssumption
<1> DEFINE held == {s \in Logins : Retained[s] # Never}
<1>1. IsFiniteSet(Sessions) /\ Cardinality(Sessions) \in Nat /\ held \subseteq Sessions
  BY FS_Subset, FS_CardinalityType DEF Sessions, Retained
<1>2. IsFiniteSet(held) /\ Cardinality(held) \in Nat /\ Cardinality(held) <= Cardinality(Sessions)
  BY <1>1, FS_Subset, FS_CardinalityType
<1>3. CASE Sessions' \subseteq Sessions
  <2>1. Cardinality(Sessions') \in Nat /\ Cardinality(Sessions') <= Cardinality(Sessions)
    BY <1>1, <1>3, FS_Subset, FS_CardinalityType
  <2> QED BY <1>1, <2>1 DEF SessionsBounded
<1>4. ASSUME NEW l \in Logins, Create(l), ~Crowded(Retained) PROVE SessionsBounded'
  <2>1. Sessions' = held \cup {l}
    BY <1>4 DEF Create, Sessions, Retained, SignInInv, SignInTypeOK, Never
  <2>2. Cardinality(held \cup {l}) <= Cardinality(held) + 1 /\ Cardinality(held \cup {l}) \in Nat
    BY <1>2, OneMore
  <2>3. Cardinality(held) < MaxSessions
    BY <1>2, <1>4 DEF Crowded
  <2> QED BY <1>2, <2>1, <2>2, <2>3 DEF SessionsBounded
<1>5. ASSUME NEW l \in Logins, Create(l), Crowded(Retained) PROVE Sessions' \subseteq Sessions
  BY <1>5 DEF Create, Sessions, Retained
<1>6. ASSUME NEW o \in Orders, Present(o) \/ Logout(o) PROVE Sessions' \subseteq Sessions
  BY <1>6 DEF Present, Logout, Sessions, Retained, SignInInv, SignInTypeOK
<1>7. CASE expires' = expires
  BY <1>3, <1>7 DEF Sessions
<1> QED BY <1>3, <1>4, <1>5, <1>6, <1>7 DEF SignInNext, signInVars, loginVars, attemptVars, orderVars, Worker,
           Arrive, Acquire, GiveUp, Verify, Record, Abandon, Act, Tick

\* create_session: the table never exceeds its limit, for every limit.
THEOREM TableBounded == SignInSpec => []SessionsBounded
<1>1. SignInInit => SessionsBounded
  <2>1. SignInInit => Sessions = {}
    BY DEF SignInInit, Sessions
  <2> QED BY <2>1, FS_EmptySet, AuthAssumption DEF SessionsBounded
<1> QED BY <1>1, NextBounded, SignInInvariance, PTL DEF SignInSpec

-----------------------------------------------------------------------------

\* A multiple of s other than 0 is s at least, or -s at most.
LEMMA Multiples ==
  ASSUME NEW s \in Nat \ {0}, NEW d \in Int
  PROVE  (d >= 1 => s * d >= s) /\ (d <= -1 => s * d <= -s)
<1>1. CASE d >= 1
  BY <1>1
<1>2. CASE d <= -1
  BY <1>2
<1> QED BY <1>1, <1>2

\* The quotient and the remainder.
LEMMA Division ==
  ASSUME NEW a \in Nat, NEW s \in Nat \ {0}
  PROVE  a \div s \in Int /\ a % s \in 0..(s-1) /\ a = s * (a \div s) + (a % s)
<1>1. a \div s \in Int
  OBVIOUS
<1>2. a % s \in 0..(s-1)
  OBVIOUS
<1>3. a = s * (a \div s) + (a % s)
  OBVIOUS
<1> QED BY <1>1, <1>2, <1>3

\* They are the only ones.
LEMMA Remainder ==
  ASSUME NEW a \in Nat, NEW s \in Nat \ {0}, NEW k \in Int, NEW r \in 0..(s - 1), a = s * k + r
  PROVE  a % s = r
<1> DEFINE q == a \div s
           m == a % s
<1>1. q \in Int /\ m \in 0..(s-1) /\ a = s * q + m
  BY Division
<1> HIDE DEF q, m
<1>2. s * (q - k) = r - m
  BY <1>1
<1>3. q - k = 0
  BY <1>1, <1>2, Multiples
<1> QED BY <1>1, <1>3 DEF m

\* Counting one more, modulo a limit.
LEMMA CountedOn ==
  ASSUME NEW c \in Nat, NEW s \in Nat \ {0}
  PROVE  (c + 1) % s = IF (c % s) + 1 >= s THEN 0 ELSE (c % s) + 1
<1> DEFINE q == c \div s
           m == c % s
<1>1. q \in Int /\ m \in 0..(s-1) /\ c = s * q + m
  BY Division
<1> HIDE DEF q, m
<1>2. CASE m + 1 >= s
  <2>1. c + 1 = s * (q + 1) + 0
   BY <1>1, <1>2
  <2>2. q + 1 \in Int /\ 0 \in 0..(s - 1) /\ c + 1 \in Nat
    BY <1>1
  <2>3. (c + 1) % s = 0
    BY <2>1, <2>2, Remainder
  <2> QED BY <1>1, <1>2, <2>3 DEF m
<1>3. CASE m + 1 < s
  <2>1. c + 1 = s * q + (m + 1)
   BY <1>1, <1>2
  <2>2. m + 1 \in 0..(s - 1) /\ c + 1 \in Nat
    BY <1>1, <1>3
  <2>3. (c + 1) % s = m + 1
    BY <1>1, <2>1, <2>2, Remainder
  <2> QED BY <1>1, <1>3, <2>3 DEF m
<1> QED BY <1>1, <1>2, <1>3 DEF m

\* A password has no verdict before it is judged, and has one from then on.
Unjudged == \A l \in Logins : progress[l] \in {"Idle", "Waiting", "Verifying"} => verdict[l] = "None"

\* Every step keeps the logins that are not judged yet as they are.
LEMMA NextUnjudged == ASSUME SignInInv, Unjudged, [SignInNext]_signInVars PROVE Unjudged'
BY DEF Unjudged, SignInInv, SignInTypeOK, SignInNext, signInVars, loginVars, attemptVars, orderVars, Worker, Goes,
   Arrive, Acquire, GiveUp, Verify,
       Record, Create, Abandon, Present, Logout, Act, Tick

\* But for an account that is made, the judged passwords and the strikes stay.
LEMMA NextCounts == ASSUME SignInInv, Unjudged, EveryGuessCounts, [SignInNext]_signInVars PROVE EveryGuessCounts'
<1> USE AuthAssumption
<1>1. CASE \E l \in Logins : Record(l)
  <2>1. PICK l \in Logins : Record(l)
    BY <1>1
  <2> DEFINE host == HostOf[l]
  <2>2. host \in Hosts
    OBVIOUS
  <2>3. \A k \in Logins \ {l} : progress'[k] = progress[k]
    BY <2>1 DEF Record, Goes, SignInInv, SignInTypeOK
  <2>4. verdict' = verdict /\ progress[l] = "Recording" /\ progress'[l] # "Recording"
    BY <2>1 DEF Record, Goes, SignInInv, SignInTypeOK
  <2> SUFFICES ASSUME NEW h \in Hosts, Judged(h, "Right")' = {}
               PROVE  failures'[h] = Cardinality(Judged(h, "Wrong")') % Strikes
    BY DEF EveryGuessCounts
  <2>5. Judged(h, "Right") = {}
    BY <2>3, <2>4 DEF Judged
  <2>6. failures[h] = Cardinality(Judged(h, "Wrong")) % Strikes
    BY <2>5 DEF EveryGuessCounts
  <2>7. CASE h # host
    <3>1. Judged(h, "Wrong")' = Judged(h, "Wrong")
      BY <2>3, <2>4, <2>7 DEF Judged
    <3>2. failures'[h] = failures[h]
      BY <2>1, <2>2, <2>7 DEF Record, Strike, SignInInv, SignInTypeOK
    <3> QED BY <2>6, <3>1, <3>2
  <2>8. CASE h = host
    <3>1. verdict[l] = "Wrong" /\ Strike(host)
      BY <2>1, <2>4, <2>8 DEF Record, Judged
    <3>2. Judged(h, "Wrong")' = Judged(h, "Wrong") \cup {l} /\ l \notin Judged(h, "Wrong")
      BY <2>3, <2>4, <2>8, <3>1 DEF Judged
    <3>3. IsFiniteSet(Judged(h, "Wrong"))
      BY FS_Subset DEF Judged
    <3>4. Cardinality(Judged(h, "Wrong")') = Cardinality(Judged(h, "Wrong")) + 1 /\ Cardinality(Judged(h,
      "Wrong")) \in Nat
      BY <3>2, <3>3, FS_AddElement, FS_CardinalityType
    <3>5. failures'[h] = IF failures[h] + 1 >= Strikes THEN 0 ELSE failures[h] + 1
      BY <2>2, <2>8, <3>1 DEF Strike, SignInInv, SignInTypeOK
    <3> QED BY <2>6, <3>4, <3>5, CountedOn
  <2> QED BY <2>7, <2>8
<1>2. CASE ~\E l \in Logins : Record(l)
  <2>1. failures' = failures
    BY <1>2 DEF SignInNext, signInVars, loginVars, attemptVars, orderVars, Worker, Arrive, Acquire, GiveUp, Verify,
       Create, Abandon,
           Present, Logout, Act, Tick
  <2>2. ASSUME NEW l \in Logins, NEW v \in {"Right", "Wrong"}
        PROVE  (verdict'[l] = v /\ progress'[l] # "Recording") <=> (verdict[l] = v /\ progress[l] # "Recording")
    BY <1>2 DEF Unjudged, SignInInv, SignInTypeOK, SignInNext, signInVars, loginVars, attemptVars, orderVars,
       Worker, Goes, Arrive, Acquire, GiveUp,
           Verify, Create, Abandon, Present, Logout, Act, Tick
  <2>3. \A h \in Hosts : \A v \in {"Right", "Wrong"} : Judged(h, v)' = Judged(h, v)
    BY <2>2 DEF Judged
  <2> QED BY <2>1, <2>3 DEF EveryGuessCounts
<1> QED BY <1>1, <1>2

\* record_login and create_session: every wrong password counts, whether or not
\* its client waited for the answer, and the table keeps its limit, for any
\* number of hosts, sign-ins and strikes.
THEOREM NothingSlipsPast == SignInSpec => []LimitsKept
<1>1. SignInInit => Unjudged /\ EveryGuessCounts
  <2> SUFFICES ASSUME SignInInit PROVE Unjudged /\ EveryGuessCounts
    OBVIOUS
  <2>1. \A h \in Hosts : Judged(h, "Wrong") = {} /\ failures[h] = 0
    BY DEF SignInInit, Judged
  <2>2. Cardinality({}) = 0 /\ 0 % Strikes = 0
    BY FS_EmptySet, AuthAssumption
  <2> QED BY <2>1, <2>2 DEF SignInInit, Unjudged, EveryGuessCounts
<1>2. SignInSpec => [](Unjudged /\ EveryGuessCounts)
  BY <1>1, NextUnjudged, NextCounts, SignInInvariance, PTL DEF SignInSpec
<1>3. EveryGuessCounts /\ SessionsBounded => LimitsKept
  BY DEF LimitsKept
<1> QED BY <1>2, <1>3, TableBounded, PTL
=============================================================================
