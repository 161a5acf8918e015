------------------------------ MODULE RomIntake ------------------------------
(***************************************************************************)
(* The storage side of the ROM uploader (native/src/uploader/mod.rs):      *)
(* add_rom on a blocking worker per upload, serialised by App.storage.     *)
(*                                                                         *)
(* A ROM and the catalog that names it are published one after the other,  *)
(* each by install_with_sync: a complete temporary file, a hard link (ROM, *)
(* no clobbering) or a rename (catalog), and a sync of the directory.      *)
(* Until that sync succeeds a power loss may leave the directory as it was *)
(* before; romDisk and catalogDisk hold what it may leave.  The storage    *)
(* directories themselves are older than every upload (activate.sh makes   *)
(* roms/<system> and uploads), so their own entries are durable.           *)
(***************************************************************************)
EXTENDS Integers, FiniteSets

CONSTANTS
  Requests,    \* upload requests
  Titles,      \* what a title and system determine: identifier and ROM path
  TitleOf,     \* the title of each request
  Base,        \* the titles of the built-in catalog
  MaxGames,    \* the menu holds 64 entries
  Nobody,      \* no file, no holder
  Earlier      \* an upload of days before

ASSUME IntakeAssumption ==
  /\ TitleOf \in [Requests -> Titles]
  /\ IsFiniteSet(Titles) /\ Base \subseteq Titles
  /\ Nobody \notin Requests /\ Earlier \notin Requests /\ Earlier # Nobody
  /\ MaxGames \in Nat

VARIABLES
  place,        \* where each request stands in add_rom
  owner,        \* the holder of App.storage
  seen,         \* `uploads`: the catalog as the request has read it
  rom,          \* the ROM file of each title: the upload that wrote it
  romDisk,      \* per title, the files a power loss may leave
  catalog,      \* uploads/games.tsv
  catalogDisk,  \* the catalogs a power loss may leave
  warned,       \* requests with a warning so far
  uncertain,    \* titles whose ROM directory could not be synced
  answer        \* what the client was told

diskVars == <<rom, romDisk, catalog, catalogDisk>>
vars == <<place, owner, seen, diskVars, warned, uncertain, answer>>

Files == Requests \cup {Nobody, Earlier}
Holding == {"Checking", "Linking", "SyncRom", "Saving", "SyncCatalog", "Rollback",
            "SyncRollback", "Restarting"}
Busy == Holding \cup {"Locking"}

-----------------------------------------------------------------------------

Goto(r, p) == place' = [place EXCEPT ![r] = p]

\* add_rom returns: the lock is released and the client is answered, unless
\* the handler has timed out before.
Return(r, a) ==
  /\ Goto(r, "Done")
  /\ owner' = Nobody
  /\ answer' = [answer EXCEPT ![r] = IF @ = "None" THEN a ELSE @]

\* dispatch for /upload: the form is read; a malformed one is refused, and a
\* slow one is given up by the handler, before a worker exists.
Begin(r) ==
  /\ place[r] = "Idle"
  /\ \/ Goto(r, "Locking") /\ UNCHANGED answer
     \/ Goto(r, "Done") /\ answer' = [answer EXCEPT ![r] = "Refused"]
  /\ UNCHANGED <<owner, seen, diskVars, warned, uncertain>>

LockShared(r) ==
  /\ place[r] = "Locking"
  /\ owner' = r /\ Goto(r, "Checking")
  /\ UNCHANGED <<seen, diskVars, warned, uncertain, answer>>
Lock(r) ==
  /\ place[r] = "Locking" /\ owner = Nobody
  /\ owner' = r /\ Goto(r, "Checking")
  /\ UNCHANGED <<seen, diskVars, warned, uncertain, answer>>

\* Title, system, upload and both catalogs are examined.
FullLate == Cardinality(Base) + Cardinality(catalog) > MaxGames
Full == Cardinality(Base) + Cardinality(catalog) >= MaxGames
Cataloged(t) == t \in Base \cup catalog
Check(r) ==
  /\ place[r] = "Checking"
  /\ \/ ~Full /\ ~Cataloged(TitleOf[r])
        /\ seen' = [seen EXCEPT ![r] = catalog]
        /\ Goto(r, "Linking") /\ UNCHANGED <<owner, answer>>
     \/ Return(r, "Refused") /\ UNCHANGED seen         \* invalid in some way
  /\ UNCHANGED <<diskVars, warned, uncertain>>

\* install_with_sync for the ROM, up to its directory's sync: the temporary
\* file may fail, and a link never replaces a file.
LinkClobbering(r) ==
  /\ place[r] = "Linking"
  /\ rom' = [rom EXCEPT ![TitleOf[r]] = r]
  /\ romDisk' = [romDisk EXCEPT ![TitleOf[r]] = @ \cup {r}]
  /\ Goto(r, "SyncRom") /\ UNCHANGED <<owner, answer>>
  /\ UNCHANGED <<seen, catalog, catalogDisk, warned, uncertain>>
Link(r) ==
  /\ place[r] = "Linking"
  /\ \/ /\ rom[TitleOf[r]] = Nobody
        /\ rom' = [rom EXCEPT ![TitleOf[r]] = r]
        /\ romDisk' = [romDisk EXCEPT ![TitleOf[r]] = @ \cup {r}]
        /\ Goto(r, "SyncRom") /\ UNCHANGED <<owner, answer>>
     \/ Return(r, "Refused") /\ UNCHANGED <<rom, romDisk>>
  /\ UNCHANGED <<seen, catalog, catalogDisk, warned, uncertain>>

\* sync_directory of the ROM's directory: Durable or Uncertain; the upload
\* goes on in either case.
SyncRomSkipped(r) ==
  /\ place[r] = "SyncRom" /\ Goto(r, "Saving")
  /\ UNCHANGED <<owner, seen, diskVars, answer, warned, uncertain>>
SyncRom(r) ==
  /\ place[r] = "SyncRom"
  /\ \/ /\ romDisk' = [romDisk EXCEPT ![TitleOf[r]] = {r}]
        /\ UNCHANGED <<warned, uncertain>>
     \/ /\ warned' = warned \cup {r} /\ uncertain' = uncertain \cup {TitleOf[r]}
        /\ UNCHANGED romDisk
  /\ Goto(r, "Saving")
  /\ UNCHANGED <<owner, seen, rom, catalog, catalogDisk, answer>>

\* install_with_sync for the catalog, up to the rename.
Save(r) ==
  /\ place[r] = "Saving"
  /\ \/ /\ catalog' = seen[r] \cup {TitleOf[r]}
        /\ catalogDisk' = catalogDisk \cup {catalog'}
        /\ Goto(r, "SyncCatalog")
     \/ Goto(r, "Rollback") /\ UNCHANGED <<catalog, catalogDisk>>
  /\ UNCHANGED <<owner, seen, rom, romDisk, warned, uncertain, answer>>

SyncCatalogSilent(r) ==
  /\ place[r] = "SyncCatalog" /\ Goto(r, "Restarting")
  /\ UNCHANGED <<owner, seen, diskVars, warned, uncertain, answer>>
SyncCatalog(r) ==
  /\ place[r] = "SyncCatalog"
  /\ \/ catalogDisk' = {catalog} /\ UNCHANGED warned
     \/ warned' = warned \cup {r} /\ UNCHANGED catalogDisk
  /\ Goto(r, "Restarting")
  /\ UNCHANGED <<owner, seen, rom, romDisk, catalog, uncertain, answer>>

\* The catalog was not published: the ROM is removed again, if that works.
Rollback(r) ==
  /\ place[r] = "Rollback"
  /\ \/ /\ rom' = [rom EXCEPT ![TitleOf[r]] = Nobody]
        /\ romDisk' = [romDisk EXCEPT ![TitleOf[r]] = @ \cup {Nobody}]
        /\ Goto(r, "SyncRollback") /\ UNCHANGED <<owner, answer>>
     \/ Return(r, "Refused") /\ UNCHANGED <<rom, romDisk>>
  /\ UNCHANGED <<seen, catalog, catalogDisk, warned, uncertain>>
SyncRollback(r) ==
  /\ place[r] = "SyncRollback"
  /\ romDisk' \in {romDisk, [romDisk EXCEPT ![TitleOf[r]] = {Nobody}]}
  /\ Return(r, "Refused")
  /\ UNCHANGED <<seen, rom, catalog, catalogDisk, warned, uncertain>>

\* App::restart, bounded by 20 s; a failure is one more warning.
RestartForever(r) == place[r] = "Restarting" /\ UNCHANGED vars
Restart(r) ==
  /\ place[r] = "Restarting"
  /\ \/ Return(r, IF r \in warned THEN "Warned" ELSE "Filed") /\ UNCHANGED warned
     \/ Return(r, "Warned") /\ warned' = warned \cup {r}
  /\ UNCHANGED <<seen, diskVars, uncertain>>

\* handler gives up after 35 s; the blocking worker goes on.
TimeOut(r) ==
  /\ place[r] \in Busy /\ answer[r] = "None"
  /\ answer' = [answer EXCEPT ![r] = "TimedOut"]
  /\ UNCHANGED <<place, owner, seen, diskVars, warned, uncertain>>

\* The uploader is killed, and its workers with it; a new one has a new lock.
WorkersGone ==
  /\ place' = [r \in Requests |-> IF place[r] \in Busy THEN "Lost" ELSE place[r]]
  /\ owner' = Nobody
  /\ UNCHANGED <<seen, warned, uncertain, answer>>
Kill == WorkersGone /\ UNCHANGED diskVars

\* The power fails: each directory is left as of its last sync, or later.
PowerLoss ==
  /\ WorkersGone
  /\ rom' \in [Titles -> UNION {romDisk[t] : t \in Titles}]
  /\ \A t \in Titles : rom'[t] \in romDisk[t]
  /\ catalog' \in catalogDisk
  /\ romDisk' = [t \in Titles |-> {rom'[t]}] /\ catalogDisk' = {catalog'}

\* The menu's limit is respected whoever uploads at the same time: the
\* dashboard would refuse a longer catalog as a whole (read_catalog).
CatalogFits == Cardinality(Base) + Cardinality(catalog) <= MaxGames \/ catalog = {}

\* The uploader starts, with games that were uploaded before.
Init ==
  /\ place = [r \in Requests |-> "Idle"] /\ owner = Nobody
  /\ seen = [r \in Requests |-> {}]
  /\ catalog \in SUBSET (Titles \ Base) /\ CatalogFits
  /\ catalogDisk = {catalog}
  /\ rom = [t \in Titles |-> IF t \in catalog THEN Earlier ELSE Nobody]
  /\ romDisk = [t \in Titles |-> {rom[t]}]
  /\ warned = {} /\ uncertain = {}
  /\ answer = [r \in Requests |-> "None"]

AddRom(r) ==
  \/ Lock(r) \/ Check(r) \/ Link(r) \/ SyncRom(r) \/ Save(r) \/ SyncCatalog(r)
  \/ Rollback(r) \/ SyncRollback(r) \/ Restart(r)

Next == (\E r \in Requests : Begin(r) \/ AddRom(r) \/ TimeOut(r)) \/ Kill \/ PowerLoss

Spec == Init /\ [][Next]_vars

\* Workers are scheduled.  Who gets the lock next is up to the mutex.
FairSpec == Spec /\ \A r \in Requests : WF_vars(AddRom(r))

-----------------------------------------------------------------------------
(* Properties.                                                             *)

Places == Busy \cup {"Idle", "Done", "Lost"}

\* The types of the intake's state.
TypeOK ==
  /\ place \in [Requests -> Places]
  /\ owner \in Requests \cup {Nobody}
  /\ seen \in [Requests -> SUBSET Titles]
  /\ rom \in [Titles -> Files]
  /\ romDisk \in [Titles -> SUBSET Files]
  /\ catalog \in SUBSET Titles /\ catalogDisk \in SUBSET (SUBSET Titles)
  /\ warned \in SUBSET Requests /\ uncertain \in SUBSET Titles
  /\ answer \in [Requests -> {"None", "Filed", "Warned", "Refused", "TimedOut"}]

\* Every cataloged game has its ROM, through concurrent uploads, failed saves,
\* kills and power losses, except where the uploader had to warn that the
\* ROM's directory was not synced (add_rom_with_sync).
CatalogBacked == \A t \in catalog : rom[t] # Nobody \/ t \in uncertain

\* An upload that was answered without a warning is there to stay: another
\* upload never drops its catalog entry, and a power loss takes neither the
\* entry nor the ROM.
FiledForGood ==
  \A r \in Requests : answer[r] = "Filed" => TitleOf[r] \in catalog /\ rom[TitleOf[r]] = r

\* deploy/uploader/README.md: existing ROM files are never replaced, and after
\* catalog publication the referenced ROM is retained.
RomsRetained ==
  [][PowerLoss \/ \A t \in Titles :
       rom[t] # Nobody /\ rom'[t] # rom[t] => (rom'[t] = Nobody) /\ (t \notin catalog)]_vars

\* The lock is always handed on: neither a failure on the way nor a dashboard
\* that does not come back keeps it, and a dead uploader leaves none behind.
LockHandedOn == (owner # Nobody) ~> (owner = Nobody)

\* The catalog can always be shown: each game has its ROM, and their number is
\* one the menu takes, although an upload looks at both long before it is
\* published (add_rom, sync_directory).
CatalogSound == CatalogBacked /\ CatalogFits
=============================================================================
