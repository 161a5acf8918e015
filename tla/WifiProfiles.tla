---------------------------- MODULE WifiProfiles ----------------------------
(***************************************************************************)
(* Saving a Wi-Fi network: the menu's editor (native/src/dashboard/wifi.rs *)
(* and app.rs), the helper it runs for at most ten seconds                 *)
(* (process.rs, run_helper_until) and the helper itself                    *)
(* (ops/deck-wifi/deck-wifi-profile-add), which stores the key in a file   *)
(* of its own and puts the network in front of the preferred ones.         *)
(***************************************************************************)
EXTENDS Integers, Sequences, FiniteSets, SequencesExt

CONSTANTS
  Ssids, Keys,
  Pids,                   \* processes for helpers
  PREFERRED_LIMIT,
  Scopes                  \* bounds, one record per behaviour

None == "None"            \* no profile
Short == "Short"          \* what is in the password field when it is no password

Spellings == {"hex", "plain"}

ASSUME WifiAssumption ==
  /\ PREFERRED_LIMIT \in Nat \ {0}
  /\ Ssids # {} /\ IsFiniteSet(Ssids) /\ Pids # {} /\ {None, Short} \cap Keys = {}
  /\ \A s \in Scopes :
       /\ s.profiles \subseteq [Ssids -> [Spellings -> Keys \cup {None}]]
       /\ s.typed \subseteq Ssids \X (Keys \cup {Short})
       /\ {s.saves, s.faults, s.deaths} \subseteq Nat

VARIABLES
  scope,
  profiles,     \* of each network, by the spelling of the file's name: its key
  preferred,    \* networks, the best first
  locked,       \* .profile-add.lock
  helper,       \* helpers: where they are, what they were sent, their exit code
  editor,       \* the editor's fields and status, and its wait for a helper
  saves, faults, deaths,   \* bounds: saves, errors and deaths still to come
  stored,       \* history: the keys that were entered for networks
  done,         \* history: those whose helper ended well
  crossed       \* history: the list was replaced by another between two steps of a helper

saveVars == <<profiles, preferred, locked, helper, editor, saves, faults, deaths, stored, done, crossed>>

NoHelper == [pc |-> "None", ssid |-> CHOOSE s \in Ssids : TRUE, key |-> Short, input |-> "Open", list |-> <<>>, code |-> 0]
NewEditor == [pc |-> "Edit", pid |-> CHOOSE p \in Pids : TRUE, ssid |-> CHOOSE s \in Ssids : TRUE, key |-> Short,
              error |-> FALSE, status |-> "None"]

\* The lines of a list that name a network in set, each once.
Keeps(set, kept, s) == IF s \in set /\ s \notin Range(kept) THEN Append(kept, s) ELSE kept
Kept(list, set) == FoldLeft(LAMBDA kept, s : Keeps(set, kept, s), <<>>, list)

\* The name of a network moves to the front; the last ones are dropped.
KeepsOld(s, list) == <<s>> \o SubSeq(list, 1, IF Len(list) < PREFERRED_LIMIT THEN Len(list) ELSE PREFERRED_LIMIT - 1)
InFront(s, list) ==
  LET others == Kept(list, Ssids \ {s})
  IN <<s>> \o SubSeq(others, 1, IF Len(others) < PREFERRED_LIMIT THEN Len(others) ELSE PREFERRED_LIMIT - 1)

-----------------------------------------------------------------------------
(* The editor and run_helper_until.                                        *)

apply(s, k) ==
  /\ editor.pc = "Edit" /\ saves > 0
  /\ editor' = [editor EXCEPT !.ssid = s, !.key = k, !.status = "None"]
  /\ UNCHANGED <<profiles, preferred, locked, helper, saves, faults, deaths, stored, done, crossed>>

Valid == editor.key # Short

Save ==
  /\ editor.pc = "Edit" /\ saves > 0 /\ saves' = saves - 1
  /\ \/ /\ ~Valid
        /\ editor' = [editor EXCEPT !.status = "Invalid"] /\ UNCHANGED <<helper, stored, faults>>
     \/ /\ Valid
        /\ \E p \in Pids :
             /\ helper[p].pc = "None"
             /\ helper' = [helper EXCEPT ![p] = [NoHelper EXCEPT !.pc = "Reading", !.ssid = editor.ssid, !.key = editor.key]]
             /\ editor' = [editor EXCEPT !.pc = "Writing", !.pid = p, !.error = FALSE]
        /\ stored' = stored \cup {<<editor.ssid, editor.key>>} /\ UNCHANGED faults
     \/ /\ Valid /\ faults > 0 /\ faults' = faults - 1
        /\ editor' = [editor EXCEPT !.status = "NotSaved"] /\ UNCHANGED <<helper, stored>>
  /\ UNCHANGED <<profiles, preferred, locked, deaths, done, crossed>>

\* What is not written before the deadline is cut off.
WriteInput ==
  /\ editor.pc = "Writing"
  /\ \/ /\ helper' = [helper EXCEPT ![editor.pid].input = "All"]
        /\ editor' = [editor EXCEPT !.pc = "Waiting"] /\ UNCHANGED faults
     \/ /\ faults > 0 /\ faults' = faults - 1
        /\ helper' = [helper EXCEPT ![editor.pid].input = "Cut"]
        /\ editor' = [editor EXCEPT !.pc = "Waiting", !.error = TRUE]
  /\ UNCHANGED <<profiles, preferred, locked, saves, deaths, stored, done, crossed>>

SucceedsAnyway == helper[editor.pid].pc = "Exited" /\ ~editor.error
Succeeds == helper[editor.pid].pc = "Exited" /\ ~editor.error /\ helper[editor.pid].code = 0

\* complete_save: the password is forgotten once it is saved.
complete_save(succeeded) ==
  editor' = [editor EXCEPT !.pc = "Edit", !.key = IF succeeded THEN Short ELSE @,
                           !.status = IF succeeded THEN "Saved" ELSE IF editor.error THEN "WriteFailed" ELSE "NotSaved"]

Reap ==
  /\ editor.pc = "Waiting" /\ helper[editor.pid].pc = "Exited"
  /\ complete_save(Succeeds)
  /\ helper' = [helper EXCEPT ![editor.pid] = NoHelper]
  /\ UNCHANGED <<profiles, preferred, locked, saves, faults, deaths, stored, done, crossed>>

\* The deadline, or a SIGTERM of the menu: SIGKILL for the helper.
stop_helper ==
  /\ editor.pc = "Waiting" /\ helper[editor.pid].pc # "Exited"
  /\ deaths > 0 /\ deaths' = deaths - 1
  /\ complete_save(FALSE)
  /\ helper' = [helper EXCEPT ![editor.pid] = NoHelper]
  /\ UNCHANGED <<profiles, preferred, locked, saves, faults, stored, done, crossed>>

\* The menu is killed: its helper goes on with what it was sent.
MenuDies ==
  /\ deaths > 0 /\ deaths' = deaths - 1
  /\ editor' = NewEditor
  /\ helper' = IF editor.pc = "Writing" THEN [helper EXCEPT ![editor.pid].input = "Cut"]
               ELSE helper
  /\ UNCHANGED <<profiles, preferred, locked, saves, faults, stored, done, crossed>>

-----------------------------------------------------------------------------
(* deck-wifi-profile-add.                                                  *)

Goto(p, pc) == helper' = [helper EXCEPT ![p].pc = pc]
Exits(p, code) == helper' = [helper EXCEPT ![p].pc = "Exited", ![p].code = code]

ReadInput(p) ==
  /\ helper[p].pc = "Reading" /\ helper[p].input # "Open"
  /\ IF helper[p].input = "All" THEN Goto(p, "Locking") ELSE Exits(p, 1)
  /\ UNCHANGED <<profiles, preferred, locked, editor, saves, faults, deaths, stored, done, crossed>>

\* mkdir, then the trap: who does not get the lock leaves it alone.
TrapThenLock(p) ==
  /\ helper[p].pc = "Locking"
  /\ IF locked THEN locked' = FALSE /\ Exits(p, 1) ELSE locked' = TRUE /\ Goto(p, "Storing")
  /\ UNCHANGED <<profiles, preferred, editor, saves, faults, deaths, stored, done, crossed>>
Lock(p) ==
  /\ helper[p].pc = "Locking"
  /\ IF locked THEN UNCHANGED locked /\ Exits(p, 1) ELSE locked' = TRUE /\ Goto(p, "Storing")
  /\ UNCHANGED <<profiles, preferred, editor, saves, faults, deaths, stored, done, crossed>>

\* The profile, whole, under its canonical name; then its other names go.
CanonicalOnly(p) ==
  profiles' = [profiles EXCEPT ![helper[p].ssid]["hex"] = helper[p].key]
OthersFirst(p) ==
  profiles' = [profiles EXCEPT ![helper[p].ssid] =
    IF helper[p].pc = "Storing" THEN [@ EXCEPT !["plain"] = None] ELSE [@ EXCEPT !["hex"] = helper[p].key]]
CanonicalFirst(p) ==
  profiles' = [profiles EXCEPT ![helper[p].ssid] =
    IF helper[p].pc = "Storing" THEN [@ EXCEPT !["hex"] = helper[p].key] ELSE [@ EXCEPT !["plain"] = None]]

Store(p) ==
  /\ helper[p].pc = "Storing" /\ Goto(p, "Removing")
  /\ CanonicalFirst(p)
  /\ UNCHANGED <<preferred, locked, editor, saves, faults, deaths, stored, done, crossed>>

RemoveOthers(p) ==
  /\ helper[p].pc = "Removing" /\ Goto(p, "Listing")
  /\ CanonicalFirst(p)
  /\ UNCHANGED <<preferred, locked, editor, saves, faults, deaths, stored, done, crossed>>

ReadPreferred(p) ==
  /\ helper[p].pc = "Listing"
  /\ helper' = [helper EXCEPT ![p].pc = "Listed", ![p].list = InFront(helper[p].ssid, preferred)]
  /\ crossed' = FALSE
  /\ UNCHANGED <<profiles, preferred, locked, editor, saves, faults, deaths, stored, done>>

MovePreferred(p) ==
  /\ helper[p].pc = "Listed"
  /\ preferred' = helper[p].list
  /\ helper' = [helper EXCEPT ![p].pc = "Cleanup", ![p].code = 0]
  /\ UNCHANGED <<profiles, locked, editor, saves, faults, deaths, stored, done, crossed>>

Fail(p) ==
  /\ helper[p].pc \in {"Storing", "Removing", "Listing", "Listed"}
  /\ faults > 0 /\ faults' = faults - 1
  /\ helper' = [helper EXCEPT ![p].pc = "Cleanup", ![p].code = 1]
  /\ UNCHANGED <<profiles, preferred, locked, editor, saves, deaths, stored, done, crossed>>

cleanup(p) ==
  /\ helper[p].pc = "Cleanup" /\ Exits(p, helper[p].code)
  /\ locked' = FALSE
  /\ done' = IF helper[p].code = 0 THEN done \cup {<<helper[p].ssid, helper[p].key>>} ELSE done
  /\ UNCHANGED <<profiles, preferred, editor, saves, faults, deaths, stored, crossed>>

\* Nobody waits for the helper of a menu that has died.
Orphaned(p) ==
  /\ helper[p].pc = "Exited" /\ ~(editor.pc = "Waiting" /\ editor.pid = p)
  /\ helper' = [helper EXCEPT ![p] = NoHelper]
  /\ UNCHANGED <<profiles, preferred, locked, editor, saves, faults, deaths, stored, done, crossed>>

Helper(p) ==
  \/ ReadInput(p) \/ Lock(p) \/ Store(p) \/ RemoveOthers(p) \/ ReadPreferred(p) \/ MovePreferred(p)
  \/ Fail(p) \/ cleanup(p) \/ Orphaned(p)

Editor ==
  \/ \E field \in scope.typed : apply(field[1], field[2])
  \/ Save \/ WriteInput \/ Reap \/ stop_helper \/ MenuDies

SaveNext == Editor \/ \E p \in Pids : Helper(p)

SaveInit ==
  /\ scope \in Scopes
  /\ profiles \in scope.profiles /\ preferred = <<>> /\ locked = FALSE
  /\ helper = [p \in Pids |-> NoHelper] /\ editor = NewEditor
  /\ saves = scope.saves /\ faults = scope.faults /\ deaths = scope.deaths
  /\ done = {} /\ crossed = FALSE

-----------------------------------------------------------------------------

SaveTypeOK ==
  /\ profiles \in [Ssids -> [Spellings -> Keys \cup {None}]]
  /\ preferred \in Seq(Ssids) /\ locked \in BOOLEAN /\ crossed \in BOOLEAN
  /\ helper \in [Pids -> [pc : {"None", "Reading", "Locking", "Storing", "Removing", "Listing", "Listed", "Cleanup", "Exited"},
                          ssid : Ssids, key : Keys \cup {Short}, input : {"Open", "All", "Cut"},
                          list : Seq(Ssids), code : {0, 1}]]
  /\ editor \in [pc : {"Edit", "Writing", "Waiting"}, pid : Pids, ssid : Ssids, key : Keys \cup {Short},
                 error : BOOLEAN, status : {"None", "Invalid", "Saved", "NotSaved", "WriteFailed"}]
  /\ <<saves, faults, deaths>> \in Nat \X Nat \X Nat

Holders == {p \in Pids : helper[p].pc \in {"Storing", "Removing", "Listing", "Listed", "Cleanup"}}

\* Two helpers, of menus one of which has died, never work at the same time,
\* and the lock of the one that works is there.
OneHelper == Cardinality(Holders) <= 1 /\ (Holders # {} => locked)

\* The list names each network once and no more networks than it may.
ListSound == IsInjective(preferred) /\ Len(preferred) <= PREFERRED_LIMIT

Usable(s) == \E n \in Spellings : profiles[s][n] \in Keys

\* "replacement never creates a moment with no usable profile": a network that
\* has a key keeps having one, whoever fails or is killed between two steps
\* (deck-wifi-profile-add 87-89).
UsableKept == \A s \in Ssids : Usable(s) => Usable(s)'

\* A helper that ends well leaves the network with the password that it was
\* sent, under no other name, and in front of the others unless the selector
\* has replaced the list meanwhile.
StoredWhole ==
  \A p \in Pids : helper[p].pc = "Cleanup" /\ helper[p].code = 0 =>
    /\ profiles[helper[p].ssid] = [n \in Spellings |-> IF n = "hex" THEN helper[p].key ELSE None]
    /\ crossed \/ preferred[1] = helper[p].ssid

\* The editor says that a network is saved only if the helper has saved it with
\* this password, in time or before a deadline cut something else off.
SavedTrue ==
  editor.status # "Saved" /\ editor'.status = "Saved" => <<editor.ssid, editor.key>> \in done
=============================================================================
