----------------------------- MODULE WifiSelect -----------------------------
(***************************************************************************)
(* Keeping the Deck on a network: the watcher                              *)
(* (ops/deck-wifi/deck-wifi-watch) looks whether the station has one, and  *)
(* the selector (deck-wifi-select) tries the saved networks one after the  *)
(* other when it has none, puts the old configuration back when none of    *)
(* them works, and notes the one that works; all while networks are saved. *)
(***************************************************************************)
EXTENDS WifiProfiles

CONSTANTS CANDIDATE_PASSES, DISCONNECT_THRESHOLD

ASSUME SelectAssumption ==
  /\ {CANDIDATE_PASSES, DISCONNECT_THRESHOLD} \subseteq Nat \ {0}
  /\ \A s \in Scopes : s.configs \subseteq [ssid : Ssids, key : Keys \cup {None}] /\ s.airs \subseteq SUBSET Ssids

VARIABLES
  config,       \* /etc/config/wireless: network and key
  air,          \* the networks that can be heard; their key is the right one
  selector,     \* where the selector is, its candidates, its backup, the list it writes
  selecting,    \* /tmp/deck-wifi-select.lock
  watch,        \* misses counted, whether the network was noted
  changes       \* bound: changes of air still to come

selectVars == <<config, air, selector, selecting, watch, changes>>
wifiVars == <<scope, saveVars, selectVars>>

Right == "good"

network_ready == config.ssid \in air /\ config.key = Right

NoSelector ==
  [pc |-> "None", mode |-> "select", ssid |-> CHOOSE s \in Ssids : TRUE, list |-> <<>>, left |-> <<>>, names |-> <<>>,
   pass |-> 0, backup |-> [ssid |-> CHOOSE s \in Ssids : TRUE, key |-> None], code |-> 0, restored |-> TRUE,
   found |-> [ssid |-> CHOOSE s \in Ssids : TRUE, key |-> None]]   \* history: the configuration at its start
NewWatch == [pc |-> "Sleep", misses |-> 0, recorded |-> FALSE]

-----------------------------------------------------------------------------
(* deck-wifi-select.                                                       *)

At(pc) == selector.pc = pc
Move(pc) == selector' = [selector EXCEPT !.pc = pc]
Ends(code) == selector' = [selector EXCEPT !.pc = "Exit", !.code = code]

\* mark_recovered begins with the network that the configuration has.
Recovers == selector' = [selector EXCEPT !.pc = "First", !.ssid = config.ssid, !.code = 0]

Check ==
  /\ At("Check")
  /\ IF network_ready THEN (IF selector.mode = "record" THEN Recovers ELSE Ends(0))
     ELSE IF selector.mode = "record" THEN Ends(1) ELSE Move("Scan")
  /\ UNCHANGED <<saveVars, config, air, selecting, watch, changes>>

\* The first of a network's profiles, in the order of their names.
Path(s) == IF profiles[s]["hex"] # None THEN "hex" ELSE "plain"

\* The configured network, the preferred ones, then the others as the scan has
\* ranked them; what the scan has missed comes after that.
ScannedOnly(known, heard, order) ==
  LET then == Kept(preferred, known \cap heard) IN then \o Kept(order, (known \cap heard) \ Range(then))
Candidates(known, heard, order) ==
  LET first == Kept(<<config.ssid>>, known)
      then == Kept(preferred, known \ {config.ssid})
      rest == known \ Range(first \o then)
  IN first \o then \o Kept(order, rest \cap heard) \o Kept(order, rest \ heard)

build_candidate_list ==
  /\ At("Scan")
  /\ \/ network_ready /\ Recovers
     \/ /\ ~network_ready
        /\ \E heard \in SUBSET air : \E order \in SetToSeqs(Ssids) :
             LET list == Candidates({s \in Ssids : Usable(s)}, heard, order) IN
             IF list = <<>> THEN Ends(1)
             ELSE selector' = [selector EXCEPT !.pc = "Backup",
                                               !.list = [i \in DOMAIN list |-> <<list[i], Path(list[i])>>]]
  /\ UNCHANGED <<saveVars, config, air, selecting, watch, changes>>

Backup ==
  /\ At("Backup")
  /\ IF network_ready THEN Recovers
     ELSE selector' = [selector EXCEPT !.pc = "Try", !.backup = config, !.pass = 1, !.left = selector.list]
  /\ UNCHANGED <<saveVars, config, air, selecting, watch, changes>>

\* apply_profile works on a copy of the backup, which it moves over the file.
SsidOnly(s, key) == config' = [config EXCEPT !.ssid = s]
Applied(s, key) == config' = [ssid |-> s, key |-> key]

BacksUpEach(candidate) ==
  selector' = [selector EXCEPT !.pc = "Wait", !.left = Tail(@), !.backup = config]
Tries(candidate) == selector' = [selector EXCEPT !.pc = "Wait", !.left = Tail(@)]

Try ==
  /\ At("Try")
  /\ \/ network_ready /\ Recovers /\ UNCHANGED config
     \/ /\ ~network_ready /\ selector.left # <<>>
        /\ LET candidate == Head(selector.left)
               key == profiles[candidate[1]][candidate[2]] IN
           IF key # None THEN Applied(candidate[1], key) /\ Tries(candidate)
           ELSE selector' = [selector EXCEPT !.left = Tail(@)] /\ UNCHANGED config
     \/ /\ ~network_ready /\ selector.left = <<>> /\ UNCHANGED config
        /\ IF selector.pass < CANDIDATE_PASSES
           THEN selector' = [selector EXCEPT !.pass = @ + 1, !.left = selector.list]
           ELSE Move("Restore")
  /\ UNCHANGED <<saveVars, air, selecting, watch, changes>>

\* wait_for_network.
Wait ==
  /\ At("Wait")
  /\ IF network_ready THEN Recovers ELSE Move("Try")
  /\ UNCHANGED <<saveVars, config, air, selecting, watch, changes>>

restore_wireless_config ==
  /\ At("Restore")
  /\ \/ config' = selector.backup /\ Move("Grace") /\ UNCHANGED faults
     \/ /\ faults > 0 /\ faults' = faults - 1
        /\ selector' = [selector EXCEPT !.pc = "Exit", !.code = 1, !.restored = FALSE] /\ UNCHANGED config
  /\ UNCHANGED <<profiles, preferred, locked, helper, editor, saves, deaths, stored, done, crossed, air, selecting, watch, changes>>

Grace ==
  /\ At("Grace")
  /\ IF network_ready THEN Recovers ELSE Ends(1)
  /\ UNCHANGED <<saveVars, config, air, selecting, watch, changes>>

\* record_success: the list is read twice and replaced by a new one.
RecordFirst ==
  /\ At("First")
  /\ IF preferred # <<>> /\ Head(preferred) = selector.ssid THEN Move("Exit") ELSE Move("List")
  /\ UNCHANGED <<saveVars, config, air, selecting, watch, changes>>

RecordList ==
  /\ At("List")
  /\ selector' = [selector EXCEPT !.pc = "Replace", !.names = InFront(selector.ssid, preferred)]
  /\ UNCHANGED <<saveVars, config, air, selecting, watch, changes>>

RecordReplace ==
  /\ At("Replace") /\ Move("Exit")
  /\ preferred' = selector.names /\ crossed' = TRUE
  /\ UNCHANGED <<profiles, locked, helper, editor, saves, faults, deaths, stored, done, config, air, selecting, watch, changes>>

\* The watcher that waits for the selector learns how it has ended.
Exit ==
  /\ At("Exit")
  /\ selector' = NoSelector /\ selecting' = FALSE
  /\ watch' = IF watch.pc = "Sleep" THEN watch
              ELSE [watch EXCEPT !.pc = "Sleep", !.recorded = @ \/ (selector.mode = "record" /\ selector.code = 0)]
  /\ UNCHANGED <<saveVars, config, air, changes>>

-----------------------------------------------------------------------------
(* deck-wifi-watch.                                                        *)

\* A selector that finds the lock taken ends with success at once.
Runs(mode, watching) ==
  IF selecting
  THEN watch' = [watching EXCEPT !.recorded = @ \/ mode = "record"] /\ UNCHANGED <<selector, selecting>>
  ELSE /\ watch' = [watching EXCEPT !.pc = "Waits"] /\ selecting' = TRUE
       /\ selector' = [NoSelector EXCEPT !.pc = "Check", !.mode = mode, !.found = config]

\* The count begins again when the selector has run.
StillMissed(watching) == [watching EXCEPT !.misses = @ + 1, !.recorded = FALSE]
NoneMissed(watching) == [watching EXCEPT !.misses = 0, !.recorded = FALSE]

Look ==
  /\ watch.pc = "Sleep"
  /\ \/ network_ready /\ watch.recorded /\ watch' = [watch EXCEPT !.misses = 0] /\ UNCHANGED <<selector, selecting>>
     \/ network_ready /\ ~watch.recorded /\ Runs("record", [watch EXCEPT !.misses = 0])
     \/ /\ ~network_ready /\ watch.misses + 1 < DISCONNECT_THRESHOLD
        /\ watch' = [watch EXCEPT !.misses = @ + 1, !.recorded = FALSE] /\ UNCHANGED <<selector, selecting>>
     \/ /\ ~network_ready /\ watch.misses + 1 >= DISCONNECT_THRESHOLD
        /\ Runs("select", NoneMissed(watch))
  /\ UNCHANGED <<saveVars, config, air, changes>>

\* The service is started again; a selector that runs goes on by itself.
WatchDies ==
  /\ deaths > 0 /\ deaths' = deaths - 1 /\ watch' = NewWatch
  /\ UNCHANGED <<profiles, preferred, locked, helper, editor, saves, faults, stored, done, crossed, config, air, selector, selecting, changes>>

\* A selector that is killed leaves its lock.
SelectorDies ==
  /\ deaths > 0 /\ deaths' = deaths - 1 /\ selector.pc # "None"
  /\ selector' = NoSelector /\ watch' = [watch EXCEPT !.pc = "Sleep"]
  /\ UNCHANGED <<profiles, preferred, locked, helper, editor, saves, faults, stored, done, crossed, config, air, selecting, changes>>

AirChanges ==
  /\ changes > 0 /\ changes' = changes - 1
  /\ air' \in SUBSET Ssids \ {air}
  /\ UNCHANGED <<saveVars, config, selector, selecting, watch>>

-----------------------------------------------------------------------------

Selector ==
  \/ Check \/ build_candidate_list \/ Backup \/ Try \/ Wait \/ restore_wireless_config \/ Grace
  \/ RecordFirst \/ RecordList \/ RecordReplace \/ Exit

Init ==
  /\ SaveInit
  /\ config \in scope.configs /\ air \in scope.airs
  /\ stored = {<<s, profiles[s][n]>> : s \in Ssids, n \in Spellings} \cup {<<config.ssid, config.key>>}
  /\ selector = NoSelector /\ selecting = FALSE /\ watch = NewWatch /\ changes = scope.changes

Next ==
  \/ SaveNext /\ UNCHANGED <<scope, selectVars>>
  \/ (Selector \/ Look \/ WatchDies \/ SelectorDies \/ AirChanges) /\ UNCHANGED scope

Spec == Init /\ [][Next]_wifiVars

\* The selector runs on and the watcher looks again; networks come and go, and
\* are saved, as they please.
FairSpec == Spec /\ WF_wifiVars(Selector /\ UNCHANGED scope) /\ WF_wifiVars(Look /\ UNCHANGED scope)

-----------------------------------------------------------------------------

TypeOK ==
  /\ SaveTypeOK
  /\ config \in [ssid : Ssids, key : Keys \cup {None}] /\ air \in SUBSET Ssids
  /\ selecting \in BOOLEAN
  /\ watch \in [pc : {"Sleep", "Waits"}, misses : 0..(DISCONNECT_THRESHOLD - 1), recorded : BOOLEAN]
  /\ selector.pc \in {"None", "Check", "Scan", "Backup", "Try", "Wait", "Restore", "Grace", "First", "List", "Replace", "Exit"}
  /\ selector.pass \in 0..CANDIDATE_PASSES /\ selector.ssid \in Ssids /\ selector.code \in {0, 1}

\* A selection that has found nothing leaves the configuration that it found,
\* unless that could not be put back.
RolledBack ==
  selector.pc = "Exit" /\ selector.mode = "select" /\ selector.code = 1 /\ selector.restored
    => config = selector.found

\* The station never has the name of one network with the key of another, nor
\* one that nobody entered for it.
ConfigWhole == <<config.ssid, config.key>> \in stored

\* The station comes back to a network: while one that can be heard has the
\* right key saved, one of them is found again, unless a selector was killed.
Reachable == \E s \in air : profiles[s][Path(s)] = Right
Reconnects == []<>(network_ready \/ ~Reachable \/ (selecting /\ selector.pc = "None"))

\* Profiles, list and configuration are sound at every moment: one helper at a
\* time, a list without doubles, what was saved as it was sent, and a station
\* configured as somebody wanted (deck-wifi-profile-add, deck-wifi-select).
StationSafe == TypeOK /\ OneHelper /\ ListSound /\ StoredWhole /\ RolledBack /\ ConfigWhole

\* No step takes the only usable key of a network away, and no step of the
\* editor claims a save that was not made (deck-wifi-profile-add, App::wifi_touch).
SavesHonest == [][UsableKept /\ SavedTrue]_wifiVars
=============================================================================
