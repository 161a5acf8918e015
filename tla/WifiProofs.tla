----------------------------- MODULE WifiProofs -----------------------------
(***************************************************************************)
(* The networks of the station stay sound, and saves are honest.           *)
(*                                                                         *)
(* WifiInv has two halves.  SaveInv says what every helper may rely on:    *)
(* only the one that holds the lock changes profiles, so what it has       *)
(* stored, removed and listed so far is still so at its next step, whoever *)
(* else was killed meanwhile; and the key it writes is one that the editor *)
(* has sent.  SelectInv says what the selector may rely on: the            *)
(* configuration that it puts back is the one that it found, and every     *)
(* configuration that it tries was entered by somebody.  The two meet in   *)
(* the list of preferred networks, which both replace without the other's  *)
(* lock, and in what was entered, which only grows.                        *)
(*                                                                         *)
(* The lists are built by a loop over their lines, each kept once: what    *)
(* the loop yields follows from FoldTheorems.                              *)
(***************************************************************************)
EXTENDS WifiSelect, SequenceTheorems, FiniteSetTheorems, TLAPS

\* A list that is written: each network once, no more than it may have.
Sound(list) == list \in Seq(Ssids) /\ list # <<>> /\ IsInjective(list) /\ Len(list) <= PREFERRED_LIMIT

\* Somebody entered the key for the network, or it was there.
Entered(s, key) == <<s, key>> \in stored

\* A helper with its lock, one that has stored its key, one that has removed
\* the network's other names, and one that is done.
Holding == {"Storing", "Removing", "Listing", "Listed", "Cleanup"}
Well(p) == helper[p].pc = "Cleanup" /\ helper[p].code = 0
HasStored(p) == helper[p].pc \in {"Removing", "Listing", "Listed"} \/ Well(p)
HasRemoved(p) == helper[p].pc \in {"Listing", "Listed"} \/ Well(p)

\* What a helper is.
Helpers ==
  [pc : {"None", "Reading", "Locking", "Storing", "Removing", "Listing", "Listed", "Cleanup", "Exited"},
   ssid : Ssids, key : Keys \cup {Short}, input : {"Open", "All", "Cut"}, list : Seq(Ssids), code : {0, 1}]

\* What a helper has done so far is in the files, or noted.
HelperOK(p) ==
  /\ helper[p].pc # "None" => helper[p].key \in Keys /\ Entered(helper[p].ssid, helper[p].key)
  /\ HasStored(p) => profiles[helper[p].ssid]["hex"] = helper[p].key
  /\ HasRemoved(p) => profiles[helper[p].ssid]["plain"] = None
  /\ helper[p].pc = "Listed" => Sound(helper[p].list) /\ helper[p].list[1] = helper[p].ssid
  /\ Well(p) => crossed \/ (preferred # <<>> /\ preferred[1] = helper[p].ssid)
  /\ helper[p].pc = "Exited" /\ helper[p].code = 0 => <<helper[p].ssid, helper[p].key>> \in done

\* Two helpers never hold the lock, and it is there for the one that does.
OneHolder ==
  /\ \A p, q \in Pids : helper[p].pc \in Holding /\ helper[q].pc \in Holding => p = q
  /\ \A p \in Pids : helper[p].pc \in Holding => locked

\* Every key that is stored was entered.
ProfilesEntered == \A s \in Ssids, n \in Spellings : profiles[s][n] # None => Entered(s, profiles[s][n])

\* The files and the helpers.
StoreInv == SaveTypeOK /\ ListSound /\ OneHolder /\ ProfilesEntered /\ \A p \in Pids : HelperOK(p)

\* The editor waits for the helper that it has sent its fields.
EditorInv ==
  /\ editor.pc = "Writing" => helper[editor.pid].pc = "Reading" /\ helper[editor.pid].input = "Open"
  /\ editor.pc # "Edit" =>
       helper[editor.pid].pc # "None" /\ helper[editor.pid].ssid = editor.ssid /\ helper[editor.pid].key = editor.key

\* The helpers with the editor: what the selector finds.
SaveInv == StoreInv /\ EditorInv

\* What the configuration of the station is, and what a selector and a watcher are.
Tuned == [ssid : Ssids, key : Keys \cup {None}]
Attempts == Seq(Ssids \X Spellings)
Selectors ==
  [pc : {"None", "Check", "Scan", "Backup", "Try", "Wait", "Restore", "Grace", "First", "List", "Replace", "Exit"},
   mode : {"select", "record"}, ssid : Ssids, list : Attempts, left : Attempts, names : Seq(Ssids),
   pass : 0..CANDIDATE_PASSES, backup : Tuned, code : {0, 1}, restored : BOOLEAN, found : Tuned]
Watches == [pc : {"Sleep", "Waits"}, misses : 0..(DISCONNECT_THRESHOLD - 1), recorded : BOOLEAN]

\* The selector puts back what it found, and found what somebody entered.
SelectInv ==
  /\ config \in Tuned /\ air \in SUBSET Ssids /\ selecting \in BOOLEAN /\ selector \in Selectors
  /\ watch \in Watches
  /\ ConfigWhole /\ RolledBack
  /\ selector.pc # "None" => Entered(selector.found.ssid, selector.found.key)
  /\ selector.pc \in {"Check", "Scan", "Backup", "Grace"} => config = selector.found
  /\ selector.pc \in {"Try", "Wait", "Restore"} => selector.backup = selector.found
  /\ selector.code = 1 => selector.pc = "Exit"
  /\ selector.pc = "Replace" => Sound(selector.names)

\* The inductive invariant.
WifiInv == scope \in Scopes /\ SaveInv /\ SelectInv

-----------------------------------------------------------------------------
(* The lists.                                                              *)

\* A loop that keeps a line or drops it.
F == INSTANCE FoldTheorems WITH op <- Keeps

\* The loop over the lines of a list is the fold that FoldTheorems is about.
LEMMA KeptFold == ASSUME NEW list, NEW set PROVE Kept(list, set) = F!Fold(set, <<>>, list)
BY DEF Kept, F!Fold, FoldLeft, F!FoldLeft, MapThenFoldSet, F!MapThenFoldSet, Max, F!Max

\* What is kept of a list is in the set, each once.
LEMMA KeptIs ==
  ASSUME NEW T, NEW set, NEW list \in Seq(T)
  PROVE  Kept(list, set) \in Seq(T \cap set) /\ IsInjective(Kept(list, set))
<1> DEFINE S == {k \in Seq(T \cap set) : IsInjective(k)}
<1>1. <<>> \in S
  BY DEF IsInjective
<1>2. ASSUME NEW kept \in S, NEW t \in T PROVE Keeps(set, kept, t) \in S
  <2>1. CASE t \in set /\ t \notin Range(kept)
    <3> DEFINE new == Append(kept, t)
               n == Len(kept)
    <3>1. kept \in Seq(T \cap set) /\ IsInjective(kept) /\ t \in T \cap set
      BY <2>1
    <3>2. /\ new \in Seq(T \cap set) /\ n \in Nat /\ DOMAIN new = 1..(n + 1) /\ DOMAIN kept = 1..n
          /\ new[n + 1] = t /\ \A i \in 1..n : new[i] = kept[i]
      BY <3>1
    <3> HIDE DEF n, new
    <3>3. \A i \in 1..n : kept[i] # t
      BY <2>1, <3>2 DEF Range
    <3>4. ASSUME NEW a \in 1..(n + 1), NEW b \in 1..(n + 1), new[a] = new[b] PROVE a = b
      <4>1. CASE a = n + 1 \/ b = n + 1
        BY <3>2, <3>3, <3>4, <4>1
      <4>2. CASE a # n + 1 /\ b # n + 1
        <5>1. a \in 1..n /\ b \in 1..n
          BY <3>2, <4>2
        <5>2. kept[a] = kept[b]
          BY <3>2, <3>4, <5>1
        <5> QED BY <3>1, <3>2, <5>1, <5>2 DEF IsInjective
      <4> QED BY <4>1, <4>2
    <3>5. IsInjective(new)
      BY <3>2, <3>4 DEF IsInjective
    <3>6. Keeps(set, kept, t) = new
      BY <2>1 DEF Keeps, new
    <3> QED BY <3>2, <3>5, <3>6
  <2>2. CASE ~(t \in set /\ t \notin Range(kept))
    BY <2>2 DEF Keeps
  <2> QED BY <2>1, <2>2
<1> HIDE DEF S
<1>3. F!Fold(set, <<>>, list) \in S
  BY <1>1, <1>2, F!FoldKeeps
<1> QED BY <1>3, KeptFold DEF S

\* A network in front of a list: the list that is written.
LEMMA InFrontSound ==
  ASSUME NEW s \in Ssids, NEW list \in Seq(Ssids)
  PROVE  Sound(InFront(s, list)) /\ InFront(s, list)[1] = s
<1> DEFINE others == Kept(list, Ssids \ {s})
           n == IF Len(others) < PREFERRED_LIMIT THEN Len(others) ELSE PREFERRED_LIMIT - 1
           rest == SubSeq(others, 1, n)
           new == <<s>> \o rest
<1>1. others \in Seq(Ssids \ {s}) /\ IsInjective(others)
  <2>1. Ssids \cap (Ssids \ {s}) = Ssids \ {s}
    OBVIOUS
  <2> QED BY <2>1, KeptIs
<1> HIDE DEF others
<1>2. n \in Nat /\ n <= Len(others) /\ n + 1 <= PREFERRED_LIMIT
  BY <1>1, WifiAssumption
<1> HIDE DEF n
<1>3. rest \in Seq(Ssids \ {s}) /\ Len(rest) = n /\ \A i \in 1..n : rest[i] = others[i]
  BY <1>1, <1>2
<1> HIDE DEF rest
<1>4. new \in Seq(Ssids) /\ Len(new) = n + 1 /\ new[1] = s /\ \A i \in 2..(n + 1) : new[i] = rest[i - 1]
  BY <1>2, <1>3
<1> HIDE DEF new
<1>5. \A i \in 2..(n + 1) : new[i] # s /\ new[i] = others[i - 1]
  BY <1>2, <1>3, <1>4
<1>6. ASSUME NEW a \in 1..(n + 1), NEW b \in 1..(n + 1), new[a] = new[b] PROVE a = b
  <2>1. CASE a = 1 \/ b = 1
    BY <1>2, <1>4, <1>5, <1>6, <2>1
  <2>2. CASE a # 1 /\ b # 1
    <3>1. a \in 2..(n + 1) /\ b \in 2..(n + 1) /\ a - 1 \in 1..Len(others) /\ b - 1 \in 1..Len(others)
      BY <1>2, <2>2, <1>1
    <3>2. others[a - 1] = others[b - 1]
      BY <1>5, <1>6, <3>1
    <3>3. a - 1 \in DOMAIN others /\ b - 1 \in DOMAIN others
      BY <1>1, <3>1
    <3>4. a - 1 = b - 1
      BY <1>1, <3>2, <3>3 DEF IsInjective
    <3> QED BY <3>4
  <2> QED BY <2>1, <2>2
<1>7. IsInjective(new)
  <2>1. DOMAIN new = 1..(n + 1)
    BY <1>2, <1>4
  <2> QED BY <1>6, <2>1 DEF IsInjective
<1>8. InFront(s, list) = new
  BY DEF InFront, new, rest, n, others
<1>9. Len(new) <= PREFERRED_LIMIT /\ new # <<>>
  BY <1>2, <1>4
<1> QED BY <1>4, <1>7, <1>8, <1>9 DEF Sound

\* What the selector tries are networks that are known.
LEMMA CandidatesKnown ==
  ASSUME config.ssid \in Ssids, preferred \in Seq(Ssids), NEW known \in SUBSET Ssids, NEW heard, NEW order \in Seq(Ssids)
  PROVE  Candidates(known, heard, order) \in Seq(known)
<1> DEFINE first == Kept(<<config.ssid>>, known)
           then == Kept(preferred, known \ {config.ssid})
           rest == known \ Range(first \o then)
           one == Kept(order, rest \cap heard)
           two == Kept(order, rest \ heard)
<1>1. <<config.ssid>> \in Seq(Ssids)
  OBVIOUS
<1>2. /\ Ssids \cap known = known /\ Ssids \cap (known \ {config.ssid}) \subseteq known
      /\ Ssids \cap (rest \cap heard) \subseteq known /\ Ssids \cap (rest \ heard) \subseteq known
  OBVIOUS
<1> HIDE DEF rest
<1>3. first \in Seq(known)
  BY <1>1, <1>2, KeptIs
<1>4. then \in Seq(Ssids \cap (known \ {config.ssid})) /\ one \in Seq(Ssids \cap (rest \cap heard))
      /\ two \in Seq(Ssids \cap (rest \ heard))
  BY KeptIs
<1> HIDE DEF first, then, one, two
<1>5. then \in Seq(known) /\ one \in Seq(known) /\ two \in Seq(known)
  BY <1>2, <1>4, SeqMonotonic
<1>6. Candidates(known, heard, order) = first \o then \o one \o two
  BY DEF Candidates, first, then, rest, one, two
<1> QED BY <1>3, <1>5, <1>6

-----------------------------------------------------------------------------
(* The helpers.                                                            *)

\* A step of one helper leaves the others as they are.
LEMMA OthersKeep ==
  ASSUME StoreInv, NEW p \in Pids, NEW n \in Helpers, helper' = [helper EXCEPT ![p] = n],
         stored \subseteq stored', done \subseteq done',
         helper[p].pc \in Holding \/ UNCHANGED <<profiles, preferred, crossed>>
  PROVE  /\ helper' \in [Pids -> Helpers] /\ helper'[p] = n
         /\ \A q \in Pids \ {p} : helper'[q] = helper[q] /\ HelperOK(q)'
<1>1. helper \in [Pids -> Helpers]
  BY DEF StoreInv, SaveTypeOK, Helpers
<1>2. helper' \in [Pids -> Helpers] /\ helper'[p] = n /\ \A q \in Pids \ {p} : helper'[q] = helper[q]
  BY <1>1
<1>3. ASSUME NEW q \in Pids \ {p} PROVE HelperOK(q)'
  <2>1. HelperOK(q) /\ helper'[q] = helper[q]
    BY <1>2 DEF StoreInv
  <2>2. CASE UNCHANGED <<profiles, preferred, crossed>>
    BY <2>1, <2>2 DEF HelperOK, HasStored, HasRemoved, Well, Entered
  <2>3. CASE helper[p].pc \in Holding
    <3>1. helper[q].pc \notin Holding
      BY <2>3 DEF StoreInv, OneHolder
    <3> QED BY <2>1, <3>1 DEF HelperOK, HasStored, HasRemoved, Well, Entered, Holding
  <2> QED BY <2>2, <2>3
<1> QED BY <1>2, <1>3

\* A step of a helper that may hold the lock.
LEMMA HoldersKeep ==
  ASSUME StoreInv, NEW p \in Pids, NEW n \in Helpers, helper' = [helper EXCEPT ![p] = n],
         n.pc \in Holding => locked' /\ (helper[p].pc \in Holding \/ ~locked),
         locked' = locked \/ helper[p].pc \in Holding \/ ~locked
  PROVE  OneHolder'
<1>1. helper'[p] = n /\ \A q \in Pids \ {p} : helper'[q] = helper[q]
  BY DEF StoreInv, SaveTypeOK, Helpers
<1>2. \A q \in Pids \ {p} : helper[q].pc \in Holding => locked' = locked /\ locked /\ helper[p].pc \notin Holding
  BY DEF StoreInv, OneHolder
<1>3. \A q \in Pids \ {p} : helper'[q].pc \in Holding => n.pc \notin Holding /\ locked'
  BY <1>1, <1>2
<1>4. ASSUME NEW q \in Pids, NEW r \in Pids, helper'[q].pc \in Holding, helper'[r].pc \in Holding PROVE q = r
  <2>1. CASE q = p \/ r = p
    BY <1>1, <1>3, <1>4, <2>1
  <2>2. CASE q # p /\ r # p
    BY <1>1, <1>4, <2>2 DEF StoreInv, OneHolder
  <2> QED BY <2>1, <2>2
<1>5. ASSUME NEW q \in Pids, helper'[q].pc \in Holding PROVE locked'
  BY <1>1, <1>3, <1>5
<1> QED BY <1>4, <1>5 DEF OneHolder

\* A step of a helper that the editor waits for.
LEMMA EditorKeeps ==
  ASSUME StoreInv, EditorInv, editor' = editor, NEW p \in Pids, NEW n \in Helpers, helper' = [helper EXCEPT ![p] = n],
         editor.pc = "Writing" => helper[p].pc # "Reading" \/ helper[p].input # "Open",
         editor.pc = "Waiting" /\ editor.pid = p => n.pc # "None" /\ n.ssid = helper[p].ssid /\ n.key = helper[p].key
  PROVE  EditorInv'
<1>1. helper'[p] = n /\ \A q \in Pids \ {p} : helper'[q] = helper[q]
  BY DEF StoreInv, SaveTypeOK, Helpers
<1>2. editor.pid \in Pids /\ editor.pc \in {"Edit", "Writing", "Waiting"}
  BY DEF StoreInv, SaveTypeOK
<1>3. CASE editor.pid = p
  BY <1>1, <1>2, <1>3 DEF EditorInv
<1>4. CASE editor.pid # p
  BY <1>1, <1>2, <1>4 DEF EditorInv
<1> QED BY <1>3, <1>4

\* Where a helper may be, and a helper that has what it was sent.
Places == {"None", "Reading", "Locking", "Storing", "Removing", "Listing", "Listed", "Cleanup", "Exited"}
Same(n, p) == n \in Helpers /\ n.ssid = helper[p].ssid /\ n.key = helper[p].key

\* A step of a helper that changes where it is.
LEMMA Goes ==
  ASSUME StoreInv, NEW p \in Pids, NEW c \in Places, Goto(p, c)
  PROVE  \E n : helper' = [helper EXCEPT ![p] = n] /\ n.pc = c /\ Same(n, p) /\ n.code = helper[p].code
<1> DEFINE n == [helper[p] EXCEPT !.pc = c]
<1>1. helper \in [Pids -> Helpers] /\ helper' = [helper EXCEPT ![p] = n]
  BY DEF StoreInv, SaveTypeOK, Helpers, Goto
<1>2. n \in Helpers /\ n.pc = c /\ n.ssid = helper[p].ssid /\ n.key = helper[p].key /\ n.code = helper[p].code
  BY <1>1 DEF Helpers, Places
<1> HIDE DEF n
<1> QED BY <1>1, <1>2 DEF Same

\* A step of a helper that ends it, or begins its end, with a code.
Out(p, c, k) == helper' = [helper EXCEPT ![p].pc = c, ![p].code = k]

\* It has what it was sent.
LEMMA GoesOut ==
  ASSUME StoreInv, NEW p \in Pids, NEW c \in Places, NEW k \in {0, 1}, Out(p, c, k)
  PROVE  \E n : helper' = [helper EXCEPT ![p] = n] /\ n.pc = c /\ n.code = k /\ Same(n, p)
<1> DEFINE n == [helper[p] EXCEPT !.pc = c, !.code = k]
<1>1. helper \in [Pids -> Helpers]
  BY DEF StoreInv, SaveTypeOK, Helpers
<1>2. helper' = [helper EXCEPT ![p] = n]
  BY <1>1 DEF Out
<1>3. n \in Helpers /\ n.pc = c /\ n.ssid = helper[p].ssid /\ n.key = helper[p].key /\ n.code = k
  BY <1>1 DEF Helpers, Places
<1> HIDE DEF n
<1> QED BY <1>2, <1>3 DEF Same

\* What no helper changes, and the types of what one may change.
Outside == <<editor, saves, deaths, stored>>
Listed(list) == list \in Seq(Ssids) /\ IsInjective(list) /\ Len(list) <= PREFERRED_LIMIT
Stays ==
  /\ profiles \in [Ssids -> [Spellings -> Keys \cup {None}]] /\ locked \in BOOLEAN /\ crossed \in BOOLEAN
  /\ Listed(preferred) /\ ProfilesEntered /\ faults \in Nat

\* A step of a helper, in general: what is left to show of it.
LEMMA HelperSteps ==
  ASSUME SaveInv, NEW p \in Pids, NEW n, Same(n, p), helper' = [helper EXCEPT ![p] = n], UNCHANGED Outside, Stays',
         n.pc # "None", helper[p].pc # "Reading" \/ helper[p].input # "Open",
         done \subseteq done', helper[p].pc \in Holding \/ UNCHANGED <<profiles, preferred, crossed>>,
         n.pc \in Holding => locked' /\ (helper[p].pc \in Holding \/ ~locked),
         locked' = locked \/ helper[p].pc \in Holding \/ ~locked,
         helper'[p] = n => HelperOK(p)'
  PROVE  SaveInv'
<1>1. n \in Helpers /\ StoreInv /\ EditorInv /\ editor' = editor /\ stored' = stored
  BY DEF Same, SaveInv, Outside
<1>2. /\ helper' \in [Pids -> Helpers] /\ helper'[p] = n
      /\ \A q \in Pids \ {p} : helper'[q] = helper[q] /\ HelperOK(q)'
  BY <1>1, OthersKeep
<1>3. \A q \in Pids : HelperOK(q)'
  BY <1>2
<1>4. OneHolder'
  BY <1>1, HoldersKeep
<1>5. EditorInv'
  <2>1. n.ssid = helper[p].ssid /\ n.key = helper[p].key
    BY DEF Same
  <2> QED BY <1>1, <2>1, EditorKeeps
<1>6. SaveTypeOK' /\ ListSound' /\ ProfilesEntered'
  BY <1>1, <1>2 DEF StoreInv, SaveTypeOK, Helpers, ListSound, Stays, Listed, Outside
<1> QED BY <1>3, <1>4, <1>5, <1>6 DEF SaveInv, StoreInv

\* Before a step, what it needs to know.
LEMMA Before ==
  ASSUME SaveInv, NEW p \in Pids
  PROVE  Stays /\ StoreInv /\ HelperOK(p) /\ helper[p] \in Helpers /\ (helper[p].pc \in Holding => locked)
BY DEF SaveInv, StoreInv, SaveTypeOK, OneHolder, ListSound, Stays, Listed, Helpers

\* read: all of it was sent, or the helper ends.
LEMMA ReadInputKeeps == ASSUME SaveInv, NEW p \in Pids, ReadInput(p) PROVE SaveInv'
<1>1. /\ helper[p].pc = "Reading" /\ helper[p].input # "Open"
      /\ UNCHANGED <<profiles, preferred, locked, faults, done, crossed>> /\ UNCHANGED Outside
  BY DEF ReadInput, Outside
<1>2. Stays /\ StoreInv /\ HelperOK(p)
  BY Before
<1>3. Stays'
  BY <1>1, <1>2 DEF Stays, ProfilesEntered, Entered, Outside
<1>4. PICK n : /\ helper' = [helper EXCEPT ![p] = n] /\ Same(n, p)
               /\ (n.pc = "Locking" \/ (n.pc = "Exited" /\ n.code = 1))
  <2>1. CASE Goto(p, "Locking")
    BY <1>2, <2>1, Goes DEF Places
  <2>2. CASE Exits(p, 1)
    <3>1. Out(p, "Exited", 1)
      BY <2>2 DEF Exits, Out
    <3> QED BY <1>2, <3>1, GoesOut DEF Places
  <2>3. Goto(p, "Locking") \/ Exits(p, 1)
    BY DEF ReadInput
  <2> QED BY <2>1, <2>2, <2>3
<1>5. helper'[p] = n => HelperOK(p)'
  BY <1>1, <1>2, <1>4 DEF HelperOK, HasStored, HasRemoved, Well, Entered, Same, Outside
<1>6. n.pc \notin Holding /\ n.pc # "None" /\ locked' = locked /\ done \subseteq done'
  BY <1>1, <1>4 DEF Holding
<1> QED BY <1>1, <1>3, <1>4, <1>5, <1>6, HelperSteps

\* mkdir: who gets the lock has it, and nobody else did.
LEMMA LockKeeps == ASSUME SaveInv, NEW p \in Pids, Lock(p) PROVE SaveInv'
<1>1. /\ helper[p].pc = "Locking" /\ locked' = TRUE
      /\ UNCHANGED <<profiles, preferred, faults, done, crossed>> /\ UNCHANGED Outside
  BY Before DEF Lock, Outside, Stays
<1>2. Stays /\ StoreInv /\ HelperOK(p)
  BY Before
<1>3. Stays'
  <2>1. locked' \in BOOLEAN
    BY <1>1
  <2> QED BY <1>1, <1>2, <2>1 DEF Stays, ProfilesEntered, Entered, Outside
<1>4. PICK n : /\ helper' = [helper EXCEPT ![p] = n] /\ Same(n, p)
               /\ ((n.pc = "Storing" /\ ~locked) \/ (n.pc = "Exited" /\ n.code = 1))
  <2>1. CASE ~locked /\ Goto(p, "Storing")
    BY <1>2, <2>1, Goes DEF Places
  <2>2. CASE Exits(p, 1)
    <3>1. Out(p, "Exited", 1)
      BY <2>2 DEF Exits, Out
    <3> QED BY <1>2, <3>1, GoesOut DEF Places
  <2>3. (~locked /\ Goto(p, "Storing")) \/ Exits(p, 1)
    BY DEF Lock
  <2> QED BY <2>1, <2>2, <2>3
<1>5. helper'[p] = n => HelperOK(p)'
  BY <1>1, <1>2, <1>4 DEF HelperOK, HasStored, HasRemoved, Well, Entered, Same, Outside
<1>6. /\ n.pc # "None" /\ done \subseteq done' /\ (n.pc \in Holding => locked' /\ ~locked)
      /\ (locked' = locked \/ ~locked)
  BY <1>1, <1>2, <1>4 DEF Holding, Stays
<1> QED BY <1>1, <1>3, <1>4, <1>5, <1>6, HelperSteps

\* The helper that has the lock changes the profiles of its network.
LEMMA Profiled ==
  ASSUME SaveInv, NEW p \in Pids, CanonicalFirst(p), helper[p].pc \in {"Storing", "Removing"}, stored' = stored
  PROVE  LET s == helper[p].ssid
         IN /\ profiles' \in [Ssids -> [Spellings -> Keys \cup {None}]] /\ ProfilesEntered'
            /\ profiles'[s]["hex"] = helper[p].key
            /\ helper[p].pc = "Removing" => profiles'[s]["plain"] = None
            /\ UsableKept
<1> DEFINE s == helper[p].ssid
           old == profiles[s]
           new == IF helper[p].pc = "Storing" THEN [old EXCEPT !["hex"] = helper[p].key] ELSE [old EXCEPT !["plain"] = None]
<1>1. /\ s \in Ssids /\ helper[p].key \in Keys /\ Entered(s, helper[p].key) /\ None \notin Keys
      /\ profiles \in [Ssids -> [Spellings -> Keys \cup {None}]] /\ ProfilesEntered
      /\ helper[p].pc = "Removing" => old["hex"] = helper[p].key
  <2>1. HelperOK(p) /\ helper[p] \in Helpers /\ Stays
    BY Before
  <2> QED BY <2>1, WifiAssumption DEF HelperOK, HasStored, Helpers, Stays
<1>2. profiles' = [profiles EXCEPT ![s] = new] /\ old \in [Spellings -> Keys \cup {None}]
  BY <1>1 DEF CanonicalFirst
<1>3. /\ new \in [Spellings -> Keys \cup {None}] /\ new["hex"] = helper[p].key
      /\ new["plain"] \in {None, old["plain"]} /\ (helper[p].pc = "Removing" => new["plain"] = None)
  BY <1>1, <1>2 DEF Spellings
<1> HIDE DEF new, old, s
<1>4. /\ profiles' \in [Ssids -> [Spellings -> Keys \cup {None}]] /\ profiles'[s] = new
      /\ \A t \in Ssids \ {s} : profiles'[t] = profiles[t]
  BY <1>1, <1>2, <1>3
<1>5. ProfilesEntered'
  <2>1. ASSUME NEW t \in Ssids, NEW n \in Spellings, profiles'[t][n] # None PROVE <<t, profiles'[t][n]>> \in stored
    <3>1. CASE t = s /\ n = "hex"
      BY <1>1, <1>3, <1>4, <3>1 DEF Entered
    <3>2. CASE t = s /\ n = "plain"
      <4>1. profiles'[t][n] = profiles[t][n]
        BY <1>3, <1>4, <2>1, <3>2 DEF old
      <4> QED BY <1>1, <2>1, <4>1 DEF ProfilesEntered, Entered
    <3>3. CASE t # s
      BY <1>1, <1>4, <2>1, <3>3 DEF ProfilesEntered, Entered
    <3> QED BY <3>1, <3>2, <3>3 DEF Spellings
  <2> QED BY <2>1 DEF ProfilesEntered, Entered
<1>6. UsableKept
  <2>1. ASSUME NEW t \in Ssids, Usable(t) PROVE \E n \in Spellings : profiles'[t][n] \in Keys
    <3>1. CASE t = s
      BY <1>1, <1>3, <1>4, <3>1 DEF Spellings
    <3>2. CASE t # s
      BY <1>4, <2>1, <3>2 DEF Usable
    <3> QED BY <3>1, <3>2
  <2> QED BY <2>1 DEF UsableKept, Usable
<1> QED BY <1>3, <1>4, <1>5, <1>6 DEF s

\* mv, then rm: the key is there before another name of the network goes.
LEMMA StoreKeeps ==
  ASSUME SaveInv, NEW p \in Pids, Store(p) \/ RemoveOthers(p)
  PROVE  SaveInv' /\ UsableKept
<1>1. /\ helper[p].pc \in {"Storing", "Removing"} /\ CanonicalFirst(p)
      /\ UNCHANGED <<preferred, locked, faults, done, crossed>> /\ UNCHANGED Outside /\ stored' = stored
  BY DEF Store, RemoveOthers, Outside
<1>2. Stays /\ StoreInv /\ HelperOK(p) /\ locked /\ helper[p].pc \in Holding
  BY <1>1, Before DEF Holding
<1>3. /\ profiles' \in [Ssids -> [Spellings -> Keys \cup {None}]] /\ ProfilesEntered'
      /\ profiles'[helper[p].ssid]["hex"] = helper[p].key
      /\ helper[p].pc = "Removing" => profiles'[helper[p].ssid]["plain"] = None
      /\ UsableKept
  BY <1>1, Profiled
<1>4. Stays'
  BY <1>1, <1>2, <1>3 DEF Stays
<1>5. PICK n : /\ helper' = [helper EXCEPT ![p] = n] /\ Same(n, p)
               /\ n.pc \in {"Removing", "Listing"} /\ (n.pc = "Listing" => helper[p].pc = "Removing")
  <2>1. CASE helper[p].pc = "Storing" /\ Goto(p, "Removing")
    BY <1>2, <2>1, Goes DEF Places
  <2>2. CASE helper[p].pc = "Removing" /\ Goto(p, "Listing")
    BY <1>2, <2>2, Goes DEF Places
  <2>3. (helper[p].pc = "Storing" /\ Goto(p, "Removing")) \/ (helper[p].pc = "Removing" /\ Goto(p, "Listing"))
    BY DEF Store, RemoveOthers
  <2> QED BY <2>1, <2>2, <2>3
<1>6. helper'[p] = n => HelperOK(p)'
  BY <1>1, <1>2, <1>3, <1>5 DEF HelperOK, HasStored, HasRemoved, Well, Entered, Same
<1>7. /\ n.pc # "None" /\ done \subseteq done' /\ locked' = locked /\ locked' /\ helper[p].pc # "Reading"
  BY <1>1, <1>2, <1>5
<1>8. SaveInv'
  BY <1>1, <1>2, <1>4, <1>5, <1>6, <1>7, HelperSteps
<1> QED BY <1>3, <1>8

\* awk: the new list has the network in front.
LEMMA ReadPreferredKeeps == ASSUME SaveInv, NEW p \in Pids, ReadPreferred(p) PROVE SaveInv'
<1> DEFINE list == InFront(helper[p].ssid, preferred)
           n == [helper[p] EXCEPT !.pc = "Listed", !.list = list]
<1>1. /\ helper[p].pc = "Listing" /\ crossed' = FALSE
      /\ UNCHANGED <<profiles, preferred, locked, faults, done>> /\ UNCHANGED Outside
  BY DEF ReadPreferred, Outside
<1>2. Stays /\ StoreInv /\ HelperOK(p) /\ locked /\ helper[p] \in Helpers
  BY <1>1, Before DEF Holding
<1>3. Stays'
  <2>1. crossed' \in BOOLEAN
    BY <1>1
  <2> QED BY <1>1, <1>2, <2>1 DEF Stays, ProfilesEntered, Entered, Outside
<1>4. list \in Seq(Ssids) /\ Sound(list) /\ list[1] = helper[p].ssid
  BY <1>2, InFrontSound DEF Helpers, Stays, Listed, Sound
<1>5. helper' = [helper EXCEPT ![p] = n]
  BY DEF ReadPreferred
<1> HIDE DEF list
<1>6. n.pc = "Listed" /\ n.list = list /\ n \in Helpers /\ n.ssid = helper[p].ssid /\ n.key = helper[p].key
  BY <1>2, <1>4 DEF Helpers
<1> HIDE DEF n
<1>7. helper'[p] = n => HelperOK(p)'
  BY <1>1, <1>2, <1>4, <1>6 DEF HelperOK, HasStored, HasRemoved, Well, Entered, Outside
<1>8. /\ Same(n, p) /\ n.pc # "None" /\ done \subseteq done' /\ locked' = locked /\ locked'
      /\ helper[p].pc \in Holding /\ helper[p].pc # "Reading"
  BY <1>1, <1>2, <1>6 DEF Same, Holding
<1> QED BY <1>1, <1>3, <1>5, <1>7, <1>8, HelperSteps

\* mv: the list of this helper, whatever was there.
LEMMA MovePreferredKeeps == ASSUME SaveInv, NEW p \in Pids, MovePreferred(p) PROVE SaveInv'
<1>1. /\ helper[p].pc = "Listed" /\ preferred' = helper[p].list /\ Out(p, "Cleanup", 0)
      /\ UNCHANGED <<profiles, locked, faults, done, crossed>> /\ UNCHANGED Outside
  BY DEF MovePreferred, Outside, Out
<1>2. Stays /\ StoreInv /\ HelperOK(p) /\ locked /\ helper[p] \in Helpers
  BY <1>1, Before DEF Holding
<1>3. /\ preferred' # <<>> /\ preferred'[1] = helper[p].ssid /\ Listed(preferred)'
  BY <1>1, <1>2 DEF HelperOK, Sound, Listed
<1>4. Stays'
  BY <1>1, <1>2, <1>3 DEF Stays, ProfilesEntered, Entered, Outside
<1>5. PICK n : helper' = [helper EXCEPT ![p] = n] /\ n.pc = "Cleanup" /\ n.code = 0 /\ Same(n, p)
  BY <1>1, <1>2, GoesOut DEF Places
<1>6. helper'[p] = n => HelperOK(p)'
  BY <1>1, <1>2, <1>3, <1>5 DEF HelperOK, HasStored, HasRemoved, Well, Entered, Outside, Same
<1>7. /\ n.pc # "None" /\ done \subseteq done' /\ locked' = locked /\ locked'
      /\ helper[p].pc \in Holding /\ helper[p].pc # "Reading"
  BY <1>1, <1>2, <1>5 DEF Holding
<1> QED BY <1>1, <1>4, <1>5, <1>6, <1>7, HelperSteps

\* fail: any step with the lock.
LEMMA FailKeeps == ASSUME SaveInv, NEW p \in Pids, Fail(p) PROVE SaveInv'
<1>1. /\ helper[p].pc \in {"Storing", "Removing", "Listing", "Listed"} /\ Out(p, "Cleanup", 1)
      /\ faults > 0 /\ faults' = faults - 1
      /\ UNCHANGED <<profiles, preferred, locked, done, crossed>> /\ UNCHANGED Outside
  BY DEF Fail, Outside, Out
<1>2. Stays /\ StoreInv /\ HelperOK(p) /\ locked /\ helper[p] \in Helpers
  BY <1>1, Before DEF Holding
<1>3. Stays'
  <2>1. faults' \in Nat
    BY <1>1, <1>2 DEF Stays
  <2> QED BY <1>1, <1>2, <2>1 DEF Stays, ProfilesEntered, Entered, Outside
<1>4. PICK n : helper' = [helper EXCEPT ![p] = n] /\ n.pc = "Cleanup" /\ n.code = 1 /\ Same(n, p)
  BY <1>1, <1>2, GoesOut DEF Places
<1>5. helper'[p] = n => HelperOK(p)'
  BY <1>1, <1>2, <1>4 DEF HelperOK, HasStored, HasRemoved, Well, Entered, Outside, Same
<1>6. /\ n.pc # "None" /\ done \subseteq done' /\ locked' = locked /\ locked'
      /\ helper[p].pc \in Holding /\ helper[p].pc # "Reading"
  BY <1>1, <1>2, <1>4 DEF Holding
<1> QED BY <1>1, <1>3, <1>4, <1>5, <1>6, HelperSteps

\* cleanup: the lock goes with its helper.
LEMMA cleanupKeeps == ASSUME SaveInv, NEW p \in Pids, cleanup(p) PROVE SaveInv'
<1>1. /\ helper[p].pc = "Cleanup" /\ Out(p, "Exited", helper[p].code) /\ locked' = FALSE
      /\ done \subseteq done' /\ (helper[p].code = 0 => <<helper[p].ssid, helper[p].key>> \in done')
      /\ UNCHANGED <<profiles, preferred, faults, crossed>> /\ UNCHANGED Outside
  BY DEF cleanup, Exits, Outside, Out
<1>2. Stays /\ StoreInv /\ HelperOK(p) /\ locked /\ helper[p] \in Helpers /\ helper[p].code \in {0, 1}
  BY <1>1, Before DEF Holding, Helpers
<1>3. Stays'
  <2>1. locked' \in BOOLEAN
    BY <1>1
  <2> QED BY <1>1, <1>2, <2>1 DEF Stays, ProfilesEntered, Entered, Outside
<1>4. PICK n : helper' = [helper EXCEPT ![p] = n] /\ n.pc = "Exited" /\ n.code = helper[p].code /\ Same(n, p)
  BY <1>1, <1>2, GoesOut DEF Places
<1>5. helper'[p] = n => HelperOK(p)'
  BY <1>1, <1>2, <1>4 DEF HelperOK, HasStored, HasRemoved, Well, Entered, Outside, Same
<1>6. /\ n.pc # "None" /\ n.pc \notin Holding /\ helper[p].pc \in Holding /\ helper[p].pc # "Reading"
  BY <1>1, <1>4 DEF Holding
<1> QED BY <1>1, <1>3, <1>4, <1>5, <1>6, HelperSteps

\* No helper is a helper that holds nothing.
LEMMA Nobody == NoHelper \in Helpers /\ NoHelper.pc = "None"
<1>1. (CHOOSE s \in Ssids : TRUE) \in Ssids /\ <<>> \in Seq(Ssids)
  BY WifiAssumption
<1> QED BY <1>1 DEF NoHelper, Helpers

\* A helper that has ended, or was killed, is forgotten; the lock stays.
LEMMA ForgetKeeps ==
  ASSUME StoreInv, NEW p \in Pids, helper' = [helper EXCEPT ![p] = NoHelper],
         UNCHANGED <<profiles, preferred, locked, stored, done, crossed>>
  PROVE  /\ helper' \in [Pids -> Helpers] /\ helper'[p] = NoHelper /\ \A q \in Pids \ {p} : helper'[q] = helper[q]
         /\ OneHolder' /\ ListSound' /\ ProfilesEntered' /\ \A q \in Pids : HelperOK(q)'
<1>1. /\ helper' \in [Pids -> Helpers] /\ helper'[p] = NoHelper
      /\ \A q \in Pids \ {p} : helper'[q] = helper[q] /\ HelperOK(q)'
  BY OthersKeep, Nobody
<1>2. HelperOK(p)'
  BY <1>1, Nobody DEF HelperOK, HasStored, HasRemoved, Well
<1>3. OneHolder'
  BY HoldersKeep, Nobody DEF Holding
<1>4. ListSound' /\ ProfilesEntered'
  BY DEF StoreInv, ListSound, ProfilesEntered, Entered
<1> QED BY <1>1, <1>2, <1>3, <1>4

\* Orphaned: the helper of a menu that has died.
LEMMA OrphanedKeeps == ASSUME SaveInv, NEW p \in Pids, Orphaned(p) PROVE SaveInv'
<1>1. /\ helper[p].pc = "Exited" /\ ~(editor.pc = "Waiting" /\ editor.pid = p) /\ helper' = [helper EXCEPT ![p] = NoHelper]
      /\ UNCHANGED <<profiles, preferred, locked, editor, saves, faults, deaths, stored, done, crossed>>
      /\ StoreInv /\ EditorInv
  BY DEF Orphaned, SaveInv
<1>2. /\ helper' \in [Pids -> Helpers] /\ OneHolder' /\ ListSound' /\ ProfilesEntered' /\ \A q \in Pids : HelperOK(q)'
  BY <1>1, ForgetKeeps
<1>3. EditorInv'
  BY <1>1, Nobody, EditorKeeps
<1>4. SaveTypeOK'
  BY <1>1, <1>2 DEF StoreInv, SaveTypeOK, Helpers
<1> QED BY <1>2, <1>3, <1>4 DEF SaveInv, StoreInv

-----------------------------------------------------------------------------
(* The editor.                                                             *)

Editors ==
  [pc : {"Edit", "Writing", "Waiting"}, pid : Pids, ssid : Ssids, key : Keys \cup {Short},
   error : BOOLEAN, status : {"None", "Invalid", "Saved", "NotSaved", "WriteFailed"}]

\* What the editor needs to know, and what is left to show of its steps.
LEMMA EditorBefore ==
  ASSUME SaveInv
  PROVE  /\ StoreInv /\ EditorInv /\ editor \in Editors /\ helper \in [Pids -> Helpers]
         /\ saves \in Nat /\ faults \in Nat /\ deaths \in Nat
BY DEF SaveInv, StoreInv, SaveTypeOK, Editors, Helpers

LEMMA EditorSteps ==
  ASSUME SaveInv, UNCHANGED <<profiles, preferred, locked, crossed, done>>, stored \subseteq stored',
         editor' \in Editors, helper' \in [Pids -> Helpers], OneHolder', \A p \in Pids : HelperOK(p)', EditorInv',
         saves' \in Nat, faults' \in Nat, deaths' \in Nat
  PROVE  SaveInv' /\ UsableKept
<1>1. StoreInv
  BY DEF SaveInv
<1>2. SaveTypeOK'
  BY <1>1 DEF StoreInv, SaveTypeOK, Editors, Helpers
<1>3. ListSound' /\ ProfilesEntered' /\ UsableKept
  BY <1>1 DEF StoreInv, ListSound, ProfilesEntered, Entered, UsableKept, Usable
<1> QED BY <1>2, <1>3 DEF SaveInv, StoreInv

\* With the files and the helpers as they were, so is what is said of them.
LEMMA HelpersStay ==
  ASSUME StoreInv, UNCHANGED <<profiles, preferred, locked, helper, done, crossed>>, stored \subseteq stored'
  PROVE  OneHolder' /\ \A p \in Pids : HelperOK(p)'
BY DEF StoreInv, OneHolder, HelperOK, HasStored, HasRemoved, Well, Entered

\* apply: a field changes.
LEMMA applyKeeps ==
  ASSUME SaveInv, NEW s \in Ssids, NEW k \in Keys \cup {Short}, apply(s, k)
  PROVE  SaveInv' /\ UsableKept /\ SavedTrue
<1>1. StoreInv /\ EditorInv /\ editor \in Editors /\ helper \in [Pids -> Helpers] /\ saves \in Nat /\ faults \in Nat /\ deaths \in Nat
  BY EditorBefore
<1>2. /\ editor.pc = "Edit" /\ UNCHANGED <<profiles, preferred, locked, helper, saves, faults, deaths, stored, done, crossed>>
      /\ editor' = [editor EXCEPT !.ssid = s, !.key = k, !.status = "None"]
  BY DEF apply
<1>3. editor' \in Editors /\ editor'.pc = "Edit" /\ editor'.status = "None"
  BY <1>1, <1>2 DEF Editors
<1>4. OneHolder' /\ \A p \in Pids : HelperOK(p)'
  BY <1>1, <1>2, HelpersStay
<1>5. EditorInv' /\ SavedTrue
  BY <1>3 DEF EditorInv, SavedTrue
<1> QED BY <1>1, <1>2, <1>3, <1>4, <1>5, EditorSteps

\* A save that begins sends a helper of its own what is in the fields.
LEMMA SaveKeeps == ASSUME SaveInv, Save PROVE SaveInv' /\ UsableKept /\ SavedTrue
<1>1. StoreInv /\ EditorInv /\ editor \in Editors /\ helper \in [Pids -> Helpers] /\ saves \in Nat /\ faults \in Nat /\ deaths \in Nat
  BY EditorBefore
<1>2. /\ editor.pc = "Edit" /\ saves > 0 /\ saves' = saves - 1
      /\ UNCHANGED <<profiles, preferred, locked, deaths, done, crossed>>
  BY DEF Save
<1>3. CASE ~Valid /\ editor' = [editor EXCEPT !.status = "Invalid"] /\ UNCHANGED <<helper, stored, faults>>
  <2>1. editor' \in Editors /\ editor'.pc = "Edit" /\ editor'.status = "Invalid"
    BY <1>1, <1>2, <1>3 DEF Editors
  <2>2. OneHolder' /\ \A p \in Pids : HelperOK(p)'
    BY <1>1, <1>2, <1>3, HelpersStay
  <2>3. EditorInv' /\ SavedTrue
    BY <2>1 DEF EditorInv, SavedTrue
  <2> QED BY <1>1, <1>2, <1>3, <2>1, <2>2, <2>3, EditorSteps
<1>4. CASE faults > 0 /\ faults' = faults - 1 /\ editor' = [editor EXCEPT !.status = "NotSaved"] /\ UNCHANGED <<helper, stored>>
  <2>1. editor' \in Editors /\ editor'.pc = "Edit" /\ editor'.status = "NotSaved"
    BY <1>1, <1>2, <1>4 DEF Editors
  <2>2. OneHolder' /\ \A p \in Pids : HelperOK(p)'
    BY <1>1, <1>2, <1>4, HelpersStay
  <2>3. EditorInv' /\ SavedTrue
    BY <2>1 DEF EditorInv, SavedTrue
  <2> QED BY <1>1, <1>2, <1>4, <2>1, <2>2, <2>3, EditorSteps
<1>5. ASSUME Valid, NEW p \in Pids, helper[p].pc = "None",
             helper' = [helper EXCEPT ![p] = [NoHelper EXCEPT !.pc = "Reading", !.ssid = editor.ssid, !.key = editor.key]],
             editor' = [editor EXCEPT !.pc = "Writing", !.pid = p, !.error = FALSE],
             stored' = stored \cup {<<editor.ssid, editor.key>>}, UNCHANGED faults
      PROVE  SaveInv' /\ UsableKept /\ SavedTrue
  <2> DEFINE n == [NoHelper EXCEPT !.pc = "Reading", !.ssid = editor.ssid, !.key = editor.key]
  <2>1. /\ n \in Helpers /\ n.pc = "Reading" /\ n.ssid = editor.ssid /\ n.key = editor.key /\ n.input = "Open"
        /\ n.key \in Keys
    <3>1. NoHelper \in Helpers /\ NoHelper.input = "Open"
      BY Nobody DEF NoHelper
    <3> QED BY <1>1, <1>5, <3>1 DEF Helpers, Editors, Valid
  <2>2. helper' = [helper EXCEPT ![p] = n]
    BY <1>5
  <2> HIDE DEF n
  <2>3. /\ editor' \in Editors /\ editor'.pc = "Writing" /\ editor'.pid = p /\ editor'.ssid = editor.ssid
        /\ editor'.key = editor.key /\ editor'.status = editor.status
    BY <1>1, <1>5 DEF Editors
  <2>4. /\ helper' \in [Pids -> Helpers] /\ helper'[p] = n /\ \A q \in Pids \ {p} : HelperOK(q)'
    BY <1>1, <1>2, <1>5, <2>1, <2>2, OthersKeep
  <2>5. HelperOK(p)'
    BY <1>5, <2>1, <2>4 DEF HelperOK, HasStored, HasRemoved, Well, Entered
  <2>6. OneHolder'
    BY <1>1, <1>2, <2>1, <2>2, HoldersKeep DEF Holding
  <2>7. EditorInv' /\ SavedTrue
    BY <2>1, <2>3, <2>4 DEF EditorInv, SavedTrue
  <2> QED BY <1>1, <1>2, <1>5, <2>3, <2>4, <2>5, <2>6, <2>7, EditorSteps
<1> QED BY <1>3, <1>4, <1>5 DEF Save

\* What the helper of the editor reads is all or cut off.
LEMMA Sent ==
  ASSUME StoreInv, NEW p \in Pids, NEW input \in {"All", "Cut"}, helper' = [helper EXCEPT ![p].input = input],
         UNCHANGED <<profiles, preferred, locked, stored, done, crossed>>
  PROVE  /\ helper' \in [Pids -> Helpers] /\ OneHolder' /\ \A q \in Pids : HelperOK(q)'
         /\ \A q \in Pids : helper'[q].pc = helper[q].pc /\ helper'[q].ssid = helper[q].ssid /\ helper'[q].key = helper[q].key
<1> DEFINE n == [helper[p] EXCEPT !.input = input]
<1>1. helper \in [Pids -> Helpers] /\ helper' = [helper EXCEPT ![p] = n]
  BY DEF StoreInv, SaveTypeOK, Helpers
<1>2. /\ n \in Helpers /\ n.pc = helper[p].pc /\ n.ssid = helper[p].ssid /\ n.key = helper[p].key /\ n.code = helper[p].code
      /\ n.list = helper[p].list
  BY <1>1 DEF Helpers
<1> HIDE DEF n
<1>3. /\ helper' \in [Pids -> Helpers] /\ helper'[p] = n
      /\ \A q \in Pids \ {p} : helper'[q] = helper[q] /\ HelperOK(q)'
  BY <1>1, <1>2, OthersKeep
<1>4. HelperOK(p)'
  <2>1. HelperOK(p)
    BY DEF StoreInv
  <2> QED BY <1>2, <1>3, <2>1 DEF HelperOK, HasStored, HasRemoved, Well, Entered
<1>5. \A q \in Pids : helper'[q].pc = helper[q].pc /\ helper'[q].ssid = helper[q].ssid /\ helper'[q].key = helper[q].key
  BY <1>2, <1>3
<1>6. OneHolder'
  BY <1>5 DEF StoreInv, OneHolder
<1> QED BY <1>3, <1>4, <1>5, <1>6

\* WriteInput: the editor waits for the helper from now on.
LEMMA WriteInputKeeps == ASSUME SaveInv, WriteInput PROVE SaveInv' /\ UsableKept /\ SavedTrue
<1>1. StoreInv /\ EditorInv /\ editor \in Editors /\ helper \in [Pids -> Helpers] /\ saves \in Nat /\ faults \in Nat /\ deaths \in Nat
  BY EditorBefore
<1>2. /\ editor.pc = "Writing" /\ UNCHANGED <<profiles, preferred, locked, saves, deaths, stored, done, crossed>>
      /\ faults' \in Nat
      /\ editor' = [editor EXCEPT !.pc = "Waiting"] \/ editor' = [editor EXCEPT !.pc = "Waiting", !.error = TRUE]
  BY <1>1 DEF WriteInput
<1>3. /\ editor' \in Editors /\ editor'.pc = "Waiting" /\ editor'.pid = editor.pid /\ editor.pid \in Pids
      /\ editor'.ssid = editor.ssid /\ editor'.key = editor.key /\ editor'.status = editor.status
  BY <1>1, <1>2 DEF Editors
<1>4. PICK input \in {"All", "Cut"} : helper' = [helper EXCEPT ![editor.pid].input = input]
  BY DEF WriteInput
<1>5. /\ helper' \in [Pids -> Helpers] /\ OneHolder' /\ \A q \in Pids : HelperOK(q)'
      /\ \A q \in Pids : helper'[q].pc = helper[q].pc /\ helper'[q].ssid = helper[q].ssid /\ helper'[q].key = helper[q].key
  BY <1>1, <1>2, <1>3, <1>4, Sent
<1>6. EditorInv' /\ SavedTrue
  BY <1>1, <1>2, <1>3, <1>5 DEF EditorInv, SavedTrue
<1> QED BY <1>1, <1>2, <1>3, <1>5, <1>6, EditorSteps

\* complete_save: the editor is free, and says saved of what succeeded.
LEMMA Completed ==
  ASSUME editor \in Editors, NEW succeeded \in BOOLEAN, complete_save(succeeded)
  PROVE  editor' \in Editors /\ editor'.pc = "Edit" /\ (editor'.status = "Saved" => succeeded)
BY DEF complete_save, Editors

\* Reap and stop_helper: the helper has ended, or it is killed.
LEMMA ReapKeeps == ASSUME SaveInv, Reap \/ stop_helper PROVE SaveInv' /\ UsableKept /\ SavedTrue
<1>1. StoreInv /\ EditorInv /\ editor \in Editors /\ helper \in [Pids -> Helpers] /\ saves \in Nat /\ faults \in Nat /\ deaths \in Nat
  BY EditorBefore
<1>2. /\ editor.pc = "Waiting" /\ helper' = [helper EXCEPT ![editor.pid] = NoHelper] /\ editor.pid \in Pids
      /\ UNCHANGED <<profiles, preferred, locked, saves, faults, stored, done, crossed>> /\ deaths' \in Nat
  <2>1. CASE Reap
    BY <1>1, <2>1 DEF Reap, Editors
  <2>2. CASE stop_helper
    BY <1>1, <2>2 DEF stop_helper, Editors
  <2> QED BY <2>1, <2>2
<1>3. /\ editor' \in Editors /\ editor'.pc = "Edit"
      /\ editor'.status = "Saved" => helper[editor.pid].pc = "Exited" /\ helper[editor.pid].code = 0
  <2>1. CASE complete_save(FALSE)
    BY <1>1, <2>1, Completed
  <2>2. CASE helper[editor.pid].pc = "Exited" /\ complete_save(Succeeds)
    <3>1. Succeeds \in BOOLEAN
      BY DEF Succeeds
    <3> QED BY <1>1, <2>2, <3>1, Completed DEF Succeeds
  <2> QED BY <2>1, <2>2 DEF Reap, stop_helper
<1>4. helper' \in [Pids -> Helpers] /\ OneHolder' /\ \A q \in Pids : HelperOK(q)'
  BY <1>1, <1>2, ForgetKeeps
<1>5. EditorInv'
  BY <1>3 DEF EditorInv
<1>6. SavedTrue
  <2>1. HelperOK(editor.pid)
    BY <1>1, <1>2 DEF StoreInv
  <2> QED BY <1>1, <1>2, <1>3, <2>1 DEF SavedTrue, HelperOK, EditorInv
<1> QED BY <1>1, <1>2, <1>3, <1>4, <1>5, <1>6, EditorSteps

\* MenuDies: a helper that was being written to reads part of it.
LEMMA MenuDiesKeeps == ASSUME SaveInv, MenuDies PROVE SaveInv' /\ UsableKept /\ SavedTrue
<1>1. StoreInv /\ EditorInv /\ editor \in Editors /\ helper \in [Pids -> Helpers] /\ saves \in Nat /\ faults \in Nat /\ deaths \in Nat
  BY EditorBefore
<1>2. /\ editor' = NewEditor /\ deaths' \in Nat
      /\ UNCHANGED <<profiles, preferred, locked, saves, faults, stored, done, crossed>>
  BY <1>1 DEF MenuDies
<1>3. editor' \in Editors /\ editor'.pc = "Edit" /\ editor'.status = "None"
  <2>1. (CHOOSE s \in Ssids : TRUE) \in Ssids /\ (CHOOSE p \in Pids : TRUE) \in Pids
    BY WifiAssumption
  <2> QED BY <1>2, <2>1 DEF NewEditor, Editors
<1>4. helper' \in [Pids -> Helpers] /\ OneHolder' /\ \A q \in Pids : HelperOK(q)'
  <2>1. CASE editor.pc = "Writing"
    <3>1. helper' = [helper EXCEPT ![editor.pid].input = "Cut"] /\ editor.pid \in Pids
      BY <1>1, <2>1 DEF MenuDies, Editors
    <3> QED BY <1>1, <1>2, <3>1, Sent
  <2>2. CASE editor.pc # "Writing"
    <3>1. helper' = helper
      BY <2>2 DEF MenuDies
    <3> QED BY <1>1, <1>2, <3>1, HelpersStay
  <2> QED BY <2>1, <2>2
<1>5. EditorInv' /\ SavedTrue
  BY <1>3 DEF EditorInv, SavedTrue
<1> QED BY <1>1, <1>2, <1>3, <1>4, <1>5, EditorSteps

\* Every step of the editor and of the helpers.
LEMMA SaveSteps ==
  ASSUME SaveInv, scope \in Scopes, SaveNext
  PROVE  SaveInv' /\ UsableKept /\ SavedTrue
<1>1. CASE \E field \in scope.typed : apply(field[1], field[2])
  <2>1. PICK field \in scope.typed : apply(field[1], field[2])
    BY <1>1
  <2>2. field[1] \in Ssids /\ field[2] \in Keys \cup {Short}
    BY WifiAssumption
  <2> QED BY <2>1, <2>2, applyKeeps
<1>2. CASE Save \/ WriteInput \/ Reap \/ stop_helper \/ MenuDies
  BY <1>2, SaveKeeps, WriteInputKeeps, ReapKeeps, MenuDiesKeeps
<1>3. ASSUME NEW p \in Pids, Helper(p) PROVE SaveInv' /\ UsableKept /\ SavedTrue
  <2>1. SavedTrue
    BY <1>3 DEF Helper, ReadInput, Lock, Store, RemoveOthers, ReadPreferred, MovePreferred, Fail, cleanup, Orphaned, SavedTrue
  <2>2. CASE Store(p) \/ RemoveOthers(p)
    BY <2>1, <2>2, StoreKeeps
  <2>3. CASE ~(Store(p) \/ RemoveOthers(p))
    <3>1. SaveInv'
      BY <1>3, <2>3, ReadInputKeeps, LockKeeps, ReadPreferredKeeps, MovePreferredKeeps, FailKeeps, cleanupKeeps, OrphanedKeeps
         DEF Helper
    <3>2. UNCHANGED profiles
      BY <1>3, <2>3 DEF Helper, ReadInput, Lock, ReadPreferred, MovePreferred, Fail, cleanup, Orphaned
    <3> QED BY <2>1, <3>1, <3>2 DEF UsableKept, Usable
  <2> QED BY <2>2, <2>3
<1> QED BY <1>1, <1>2, <1>3 DEF SaveNext, Editor

-----------------------------------------------------------------------------
(* The selector.                                                           *)

\* What the selector leaves alone of the saved networks: all but the list.
LEMMA SaveStays ==
  ASSUME SaveInv, UNCHANGED <<profiles, locked, helper, editor, saves, stored, done>>, faults' \in Nat, deaths' \in Nat,
         UNCHANGED <<preferred, crossed>> \/ (crossed' = TRUE /\ Sound(preferred)')
  PROVE  SaveInv' /\ UsableKept /\ SavedTrue
<1>1. StoreInv /\ EditorInv
  BY DEF SaveInv
<1>2. preferred' \in Seq(Ssids) /\ ListSound' /\ crossed' \in BOOLEAN
  <2>1. CASE UNCHANGED <<preferred, crossed>>
    BY <1>1, <2>1 DEF StoreInv, SaveTypeOK, ListSound
  <2>2. CASE crossed' = TRUE /\ Sound(preferred)'
    BY <2>2 DEF Sound, ListSound
  <2> QED BY <2>1, <2>2
<1>3. SaveTypeOK'
  BY <1>1, <1>2 DEF StoreInv, SaveTypeOK
<1>4. OneHolder' /\ ProfilesEntered' /\ EditorInv'
  BY <1>1 DEF StoreInv, OneHolder, ProfilesEntered, Entered, EditorInv
<1>5. \A p \in Pids : HelperOK(p)'
  <2>1. \A p \in Pids : HelperOK(p)
    BY <1>1 DEF StoreInv
  <2>2. /\ crossed' = TRUE \/ (crossed' = crossed /\ preferred' = preferred)
        /\ crossed \in BOOLEAN /\ crossed' \in BOOLEAN
    BY <1>1, <1>2 DEF StoreInv, SaveTypeOK
  <2>3. ASSUME NEW p \in Pids PROVE HelperOK(p)'
    <3>1. Well(p)' => crossed' \/ (preferred' # <<>> /\ preferred'[1] = helper'[p].ssid)
      <4>1. CASE crossed' = TRUE
        BY <4>1
      <4>2. CASE crossed' = crossed /\ preferred' = preferred
        <5>1. Well(p) => crossed \/ (preferred # <<>> /\ preferred[1] = helper[p].ssid)
          BY <2>1 DEF HelperOK
        <5> QED BY <4>2, <5>1 DEF Well
      <4> QED BY <2>2, <4>1, <4>2
    <3> QED BY <2>1, <3>1 DEF HelperOK, HasStored, HasRemoved, Well, Entered
  <2> QED BY <2>3
<1>6. UsableKept /\ SavedTrue
  BY DEF UsableKept, Usable, SavedTrue
<1> QED BY <1>2, <1>3, <1>4, <1>5, <1>6 DEF SaveInv, StoreInv

\* A step of the selector, in general: what is left to show of it.
LEMMA SelectorSteps ==
  ASSUME SelectInv, selector.pc # "None", selector' \in Selectors, selector'.found = selector.found,
         UNCHANGED <<air, selecting, watch, stored>>, config' \in Tuned, Entered(config'.ssid, config'.key),
         selector'.pc \in {"Check", "Scan", "Backup", "Grace"} => config' = selector.found,
         selector'.pc \in {"Try", "Wait", "Restore"} => selector'.backup = selector.found,
         selector'.code = 1 => selector'.pc = "Exit" /\ (config' = selector.found \/ ~selector'.restored),
         selector'.pc = "Replace" => Sound(selector'.names)
  PROVE  SelectInv'
BY DEF SelectInv, ConfigWhole, RolledBack, Entered, Sound

\* The moves of the selector.
LEMMA Moves ==
  ASSUME SelectInv, NEW c \in {"Scan", "Try", "Wait", "Restore", "Grace", "First", "List", "Replace", "Exit"}, Move(c)
  PROVE  /\ selector' \in Selectors /\ selector'.pc = c /\ selector'.found = selector.found /\ selector'.code = selector.code
         /\ selector'.backup = selector.backup /\ selector'.names = selector.names
BY DEF SelectInv, Selectors, Move

\* mark_recovered: the network works.
LEMMA Recovered ==
  ASSUME SelectInv, Recovers
  PROVE  selector' \in Selectors /\ selector'.pc = "First" /\ selector'.found = selector.found /\ selector'.code = 0
<1>1. config.ssid \in Ssids /\ selector \in Selectors
  BY DEF SelectInv, Tuned
<1> QED BY <1>1 DEF Selectors, Recovers

\* It ends with a code.
LEMMA Ended ==
  ASSUME SelectInv, NEW k \in {0, 1}, Ends(k)
  PROVE  selector' \in Selectors /\ selector'.pc = "Exit" /\ selector'.found = selector.found /\ selector'.code = k
BY DEF SelectInv, Selectors, Ends

\* What the steps of the selector know.
LEMMA Known ==
  ASSUME SelectInv
  PROVE  /\ selector \in Selectors /\ config \in Tuned /\ Entered(config.ssid, config.key)
         /\ selector.pc # "Exit" => selector.code = 0
BY DEF SelectInv, ConfigWhole, Entered, Selectors

\* Check, Grace: the network is there, or the selector goes on.
LEMMA CheckKeeps == ASSUME SelectInv, Check \/ Grace PROVE SelectInv'
<1>1. /\ selector.pc \in {"Check", "Grace"} /\ UNCHANGED <<config, air, selecting, watch, stored>> /\ config = selector.found
      /\ Recovers \/ Ends(0) \/ Ends(1) \/ Move("Scan")
  BY DEF Check, Grace, At, saveVars, SelectInv
<1>2. /\ selector' \in Selectors /\ selector'.found = selector.found /\ selector'.pc \in {"First", "Exit", "Scan"}
      /\ selector'.code = 1 => selector'.pc = "Exit"
  BY <1>1, Moves, Recovered, Ended, Known
<1> QED BY <1>1, <1>2, Known, SelectorSteps

\* build_candidate_list: known networks, each with one of its profiles.
LEMMA ScanKeeps == ASSUME SaveInv, SelectInv, build_candidate_list PROVE SelectInv'
<1>1. /\ selector.pc = "Scan" /\ UNCHANGED <<config, air, selecting, watch, stored>> /\ config = selector.found
      /\ selector \in Selectors /\ config \in Tuned /\ selector.code = 0
  BY Known DEF build_candidate_list, At, saveVars, SelectInv
<1>2. CASE Recovers
  BY <1>1, <1>2, Recovered, Known, SelectorSteps
<1>3. CASE Ends(1)
  BY <1>1, <1>3, Ended, Known, SelectorSteps
<1>4. CASE ~Recovers
  <2>1. PICK heard \in SUBSET air, order \in SetToSeqs(Ssids) :
          LET list == Candidates({s \in Ssids : Usable(s)}, heard, order)
          IN IF list = <<>> THEN Ends(1)
             ELSE selector' = [selector EXCEPT !.pc = "Backup", !.list = [i \in DOMAIN list |-> <<list[i], Path(list[i])>>]]
    BY <1>4, Zenon DEF build_candidate_list
  <2> DEFINE list == Candidates({s \in Ssids : Usable(s)}, heard, order)
             attempts == [i \in DOMAIN list |-> <<list[i], Path(list[i])>>]
             n == Cardinality(Ssids)
  <2>2. Ends(1) \/ selector' = [selector EXCEPT !.pc = "Backup", !.list = attempts]
    BY <2>1
  <2>3. order \in Seq(Ssids)
    <3>1. n \in Nat
      BY WifiAssumption, FS_CardinalityType
    <3>2. order \in [1..n -> Ssids]
      BY DEF SetToSeqs
    <3> HIDE DEF n
    <3> QED BY <3>1, <3>2
  <2>4. list \in Seq({s \in Ssids : Usable(s)})
    <3>1. config.ssid \in Ssids /\ preferred \in Seq(Ssids)
      BY <1>1 DEF Tuned, SaveInv, StoreInv, SaveTypeOK
    <3> QED BY <2>3, <3>1, CandidatesKnown
  <2> HIDE DEF list
  <2>5. attempts \in Attempts
    <3>1. DOMAIN list = 1..Len(list) /\ Len(list) \in Nat /\ \A i \in 1..Len(list) : list[i] \in Ssids
      BY <2>4
    <3>2. \A s : Path(s) \in Spellings
      BY DEF Path, Spellings
    <3> QED BY <3>1, <3>2 DEF Attempts
  <2> HIDE DEF attempts
  <2>6. CASE selector' = [selector EXCEPT !.pc = "Backup", !.list = attempts]
    <3>1. /\ selector' \in Selectors /\ selector'.pc = "Backup" /\ selector'.found = selector.found
          /\ selector'.code = selector.code
      BY <1>1, <2>5, <2>6 DEF Selectors
    <3> QED BY <1>1, <3>1, Known, SelectorSteps
  <2> QED BY <1>3, <2>2, <2>6
<1> QED BY <1>2, <1>4

\* Backup: what is put back is what was found.
LEMMA BackupKeeps == ASSUME SelectInv, Backup PROVE SelectInv'
<1>1. /\ selector.pc = "Backup" /\ UNCHANGED <<config, air, selecting, watch, stored>> /\ config = selector.found
      /\ selector \in Selectors /\ config \in Tuned /\ selector.code = 0
  BY Known DEF Backup, At, saveVars, SelectInv
<1>2. CASE Recovers
  BY <1>1, <1>2, Recovered, Known, SelectorSteps
<1>3. CASE selector' = [selector EXCEPT !.pc = "Try", !.backup = config, !.pass = 1, !.left = selector.list]
  <2>1. 1 \in 0..CANDIDATE_PASSES
    BY SelectAssumption
  <2>2. /\ selector' \in Selectors /\ selector'.pc = "Try" /\ selector'.found = selector.found
        /\ selector'.code = selector.code /\ selector'.backup = config
    BY <1>1, <1>3, <2>1 DEF Selectors
  <2> QED BY <1>1, <2>2, Known, SelectorSteps
<1> QED BY <1>2, <1>3 DEF Backup

\* Try: a profile that is tried was entered; the backup stays as it was.
LEMMA TryKeeps == ASSUME SaveInv, SelectInv, Try PROVE SelectInv'
<1>1. /\ selector.pc = "Try" /\ UNCHANGED <<air, selecting, watch, stored>> /\ selector.backup = selector.found
      /\ selector \in Selectors /\ config \in Tuned /\ selector.code = 0
  BY Known DEF Try, At, saveVars, SelectInv
<1>2. CASE Recovers /\ UNCHANGED config
  BY <1>1, <1>2, Recovered, Known, SelectorSteps
<1>3. CASE selector.left # <<>> /\ Tries(Head(selector.left)) /\
           LET candidate == Head(selector.left)
               key == profiles[candidate[1]][candidate[2]]
           IN key # None /\ Applied(candidate[1], key)
  <2> DEFINE candidate == Head(selector.left)
             s == candidate[1]
             key == profiles[s][candidate[2]]
  <2>1. candidate \in Ssids \X Spellings /\ Tail(selector.left) \in Attempts
    BY <1>1, <1>3 DEF Selectors, Attempts
  <2>2. s \in Ssids /\ key \in Keys \cup {None} /\ Entered(s, key)
    <3>1. s \in Ssids /\ candidate[2] \in Spellings
      BY <2>1
    <3> QED BY <1>3, <3>1 DEF SaveInv, StoreInv, SaveTypeOK, ProfilesEntered
  <2>3. config' = [ssid |-> s, key |-> key] /\ selector' = [selector EXCEPT !.pc = "Wait", !.left = Tail(selector.left)]
    BY <1>3 DEF Applied, Tries
  <2> HIDE DEF s, key, candidate
  <2>4. config' \in Tuned /\ config'.ssid = s /\ config'.key = key
    BY <2>2, <2>3 DEF Tuned
  <2>5. /\ selector' \in Selectors /\ selector'.pc = "Wait" /\ selector'.found = selector.found
        /\ selector'.code = selector.code /\ selector'.backup = selector.backup
    BY <1>1, <2>1, <2>3 DEF Selectors
  <2> QED BY <1>1, <2>2, <2>4, <2>5, Known, SelectorSteps
<1>4. CASE UNCHANGED config /\ selector.left # <<>> /\ selector' = [selector EXCEPT !.left = Tail(selector.left)]
  <2>1. Tail(selector.left) \in Attempts
    BY <1>1, <1>4 DEF Selectors, Attempts
  <2>2. /\ selector' \in Selectors /\ selector'.pc = "Try" /\ selector'.found = selector.found
        /\ selector'.code = selector.code /\ selector'.backup = selector.backup
    BY <1>1, <1>4, <2>1 DEF Selectors
  <2> QED BY <1>1, <1>4, <2>2, Known, SelectorSteps
<1>5. CASE UNCHANGED config /\ selector.pass < CANDIDATE_PASSES /\
           selector' = [selector EXCEPT !.pass = selector.pass + 1, !.left = selector.list]
  <2>1. selector.pass + 1 \in 0..CANDIDATE_PASSES
    BY <1>1, <1>5, SelectAssumption DEF Selectors
  <2>2. /\ selector' \in Selectors /\ selector'.pc = "Try" /\ selector'.found = selector.found
        /\ selector'.code = selector.code /\ selector'.backup = selector.backup
    BY <1>1, <1>5, <2>1 DEF Selectors
  <2> QED BY <1>1, <1>5, <2>2, Known, SelectorSteps
<1>6. CASE UNCHANGED config /\ Move("Restore")
  BY <1>1, <1>6, Moves, Known, SelectorSteps
<1> QED BY <1>2, <1>3, <1>4, <1>5, <1>6 DEF Try

\* Wait and the first step of record_success.
LEMMA WaitKeeps == ASSUME SelectInv, Wait \/ RecordFirst PROVE SelectInv'
<1>1. /\ selector.pc \in {"Wait", "First"} /\ UNCHANGED <<config, air, selecting, watch, stored>>
      /\ (selector.pc = "Wait" => selector.backup = selector.found) /\ selector.code = 0
  BY Known DEF Wait, RecordFirst, At, saveVars, SelectInv
<1>2. Recovers \/ Move("Exit") \/ Move("List") \/ (selector.pc = "Wait" /\ Move("Try"))
  BY DEF Wait, RecordFirst, At
<1>3. CASE Recovers
  BY <1>1, <1>3, Recovered, Known, SelectorSteps
<1>4. CASE Move("Exit") \/ Move("List")
  BY <1>1, <1>4, Moves, Known, SelectorSteps
<1>5. CASE selector.pc = "Wait" /\ Move("Try")
  BY <1>1, <1>5, Moves, Known, SelectorSteps
<1> QED BY <1>2, <1>3, <1>4, <1>5

\* restore_wireless_config: what was found is put back, or is said not to be.
LEMMA RestoreKeeps == ASSUME SelectInv, restore_wireless_config PROVE SelectInv'
<1>1. /\ selector.pc = "Restore" /\ UNCHANGED <<air, selecting, watch, stored>> /\ selector.backup = selector.found
      /\ Entered(selector.found.ssid, selector.found.key) /\ selector \in Selectors /\ selector.code = 0
  BY Known DEF restore_wireless_config, At, SelectInv
<1>2. CASE config' = selector.backup /\ Move("Grace")
  <2>1. config' \in Tuned /\ config' = selector.found
    BY <1>1, <1>2 DEF Selectors
  <2>2. Entered(config'.ssid, config'.key)
    BY <1>1, <2>1
  <2> QED BY <1>1, <1>2, <2>1, <2>2, Moves, SelectorSteps
<1>3. CASE selector' = [selector EXCEPT !.pc = "Exit", !.code = 1, !.restored = FALSE] /\ UNCHANGED config
  <2>1. /\ selector' \in Selectors /\ selector'.pc = "Exit" /\ selector'.found = selector.found
        /\ selector'.restored = FALSE
    BY <1>1, <1>3 DEF Selectors
  <2> QED BY <1>1, <1>3, <2>1, Known, SelectorSteps
<1> QED BY <1>2, <1>3 DEF restore_wireless_config

\* record_success reads the list, and replaces it.
LEMMA RecordKeeps ==
  ASSUME SaveInv, SelectInv, RecordList \/ RecordReplace
  PROVE  SelectInv' /\ (RecordReplace => Sound(preferred)')
<1>1. /\ selector.pc \in {"List", "Replace"} /\ UNCHANGED <<config, air, selecting, watch, stored>>
      /\ selector \in Selectors /\ selector.code = 0 /\ (selector.pc = "Replace" => Sound(selector.names))
  BY Known DEF RecordList, RecordReplace, At, saveVars, SelectInv
<1>2. CASE RecordList
  <2> DEFINE names == InFront(selector.ssid, preferred)
  <2>1. Sound(names) /\ names \in Seq(Ssids)
    <3>1. selector.ssid \in Ssids /\ preferred \in Seq(Ssids)
      BY <1>1 DEF Selectors, SaveInv, StoreInv, SaveTypeOK
    <3> QED BY <3>1, InFrontSound DEF Sound
  <2>2. selector' = [selector EXCEPT !.pc = "Replace", !.names = names]
    BY <1>2 DEF RecordList
  <2> HIDE DEF names
  <2>3. /\ selector' \in Selectors /\ selector'.pc = "Replace" /\ selector'.found = selector.found
        /\ selector'.code = selector.code /\ selector'.names = names
    BY <1>1, <2>1, <2>2 DEF Selectors
  <2>4. ~RecordReplace
    BY <1>2 DEF RecordList, RecordReplace, At
  <2> QED BY <1>1, <2>1, <2>3, <2>4, Known, SelectorSteps
<1>3. CASE RecordReplace
  <2>1. Move("Exit") /\ preferred' = selector.names /\ Sound(selector.names)
    BY <1>1, <1>3 DEF RecordReplace, At
  <2>2. Sound(preferred)'
    BY <2>1 DEF Sound
  <2> QED BY <1>1, <2>1, <2>2, Moves, Known, SelectorSteps
<1> QED BY <1>2, <1>3

\* No selector is a selector that was given nothing.
LEMMA NoneSelects ==
  NoSelector \in Selectors /\ NoSelector.pc = "None" /\ NoSelector.code = 0
<1>1. (CHOOSE s \in Ssids : TRUE) \in Ssids /\ <<>> \in Seq(Ssids) /\ <<>> \in Attempts /\ 0 \in 0..CANDIDATE_PASSES
  BY WifiAssumption, SelectAssumption DEF Attempts
<1> QED BY <1>1 DEF NoSelector, Selectors, Tuned

\* The end of a selector, and its death.
LEMMA ExitKeeps ==
  ASSUME SelectInv, selector' = NoSelector, UNCHANGED <<config, air, stored>>, selecting' \in BOOLEAN, watch' \in Watches
  PROVE  SelectInv'
BY NoneSelects DEF SelectInv, ConfigWhole, RolledBack

\* A step of the watcher that starts no selector.
LEMMA WatchKeeps ==
  ASSUME SelectInv, UNCHANGED <<config, air, selector, stored>>, selecting' \in BOOLEAN, watch' \in Watches
  PROVE  SelectInv'
BY DEF SelectInv, ConfigWhole, RolledBack, Entered, Sound, Watches

\* Runs: a selector begins with the configuration that it finds.
LEMMA RunsKeeps ==
  ASSUME SelectInv, NEW mode \in {"select", "record"}, NEW watching \in Watches, Runs(mode, watching),
         UNCHANGED <<config, air, stored>>
  PROVE  SelectInv'
<1>1. CASE selecting
  <2>1. watch' \in Watches /\ UNCHANGED <<selector, selecting>>
    BY <1>1 DEF Runs, Watches
  <2>2. selecting' \in BOOLEAN
    BY <2>1 DEF SelectInv
  <2> QED BY <2>1, <2>2, WatchKeeps
<1>2. CASE ~selecting
  <2>1. watch' \in Watches /\ selecting' \in BOOLEAN /\ selector' = [NoSelector EXCEPT !.pc = "Check", !.mode = mode, !.found = config]
    BY <1>2 DEF Runs, Watches
  <2>2. selector' \in Selectors /\ selector'.pc = "Check" /\ selector'.code = 0 /\ selector'.found = config
    BY <2>1, NoneSelects, Known DEF Selectors
  <2> QED BY <2>1, <2>2, Known DEF SelectInv, ConfigWhole, RolledBack, Entered, Watches
<1> QED BY <1>1, <1>2

\* Look: the watcher counts what it misses, up to the threshold.
LEMMA LookKeeps == ASSUME SelectInv, Look PROVE SelectInv'
<1>1. watch \in Watches /\ selecting \in BOOLEAN /\ DISCONNECT_THRESHOLD \in Nat \ {0} /\ UNCHANGED <<config, air, stored>>
  BY SelectAssumption DEF Look, SelectInv, Watches, saveVars
<1>2. [watch EXCEPT !.misses = 0] \in Watches /\ NoneMissed(watch) \in Watches
  <2>1. 0 \in 0..(DISCONNECT_THRESHOLD - 1)
    BY <1>1
  <2> QED BY <1>1, <2>1 DEF Watches, NoneMissed
<1>3. CASE watch' = [watch EXCEPT !.misses = 0] /\ UNCHANGED <<selector, selecting>>
  BY <1>1, <1>2, <1>3, WatchKeeps
<1>4. CASE Runs("record", [watch EXCEPT !.misses = 0])
  BY <1>1, <1>2, <1>4, RunsKeeps
<1>5. CASE watch.misses + 1 < DISCONNECT_THRESHOLD /\ UNCHANGED <<selector, selecting>> /\
           watch' = [watch EXCEPT !.misses = watch.misses + 1, !.recorded = FALSE]
  <2>1. watch.misses + 1 \in 0..(DISCONNECT_THRESHOLD - 1)
    BY <1>1, <1>5 DEF Watches
  <2>2. watch' \in Watches
    BY <1>1, <1>5, <2>1 DEF Watches
  <2> QED BY <1>1, <1>5, <2>2, WatchKeeps
<1>6. CASE Runs("select", NoneMissed(watch))
  BY <1>1, <1>2, <1>6, RunsKeeps
<1> QED BY <1>3, <1>4, <1>5, <1>6 DEF Look

\* Exit: the watcher that waits for the selector sleeps again.
LEMMA ExitLeaves == ASSUME SelectInv, Exit PROVE SelectInv'
<1>1. selector' = NoSelector /\ selecting' \in BOOLEAN /\ UNCHANGED <<config, air, stored>> /\ watch \in Watches
  BY DEF Exit, SelectInv, saveVars
<1>2. watch' \in Watches
  <2>1. CASE watch' = watch
    BY <1>1, <2>1
  <2>2. CASE watch' = [watch EXCEPT !.pc = "Sleep", !.recorded = @ \/ (selector.mode = "record" /\ selector.code = 0)]
    BY <1>1, <2>2 DEF Watches
  <2> QED BY <2>1, <2>2 DEF Exit
<1> QED BY <1>1, <1>2, ExitKeeps

\* The deaths of the watcher and of the selector, and what can be heard.
LEMMA OutsideKeeps == ASSUME SelectInv, WatchDies \/ SelectorDies \/ AirChanges PROVE SelectInv'
<1>1. watch \in Watches /\ selecting \in BOOLEAN
  BY DEF SelectInv
<1>2. CASE WatchDies
  <2>1. 0 \in 0..(DISCONNECT_THRESHOLD - 1)
    BY SelectAssumption
  <2>2. watch' \in Watches
    BY <1>2, <2>1 DEF WatchDies, NewWatch, Watches
  <2>3. UNCHANGED <<config, air, selector, selecting, stored>>
    BY <1>2 DEF WatchDies
  <2> QED BY <1>1, <2>2, <2>3, WatchKeeps
<1>3. CASE SelectorDies
  <2>1. watch' = [watch EXCEPT !.pc = "Sleep"] /\ selector' = NoSelector /\ UNCHANGED <<config, air, selecting, stored>>
    BY <1>3 DEF SelectorDies
  <2>2. watch' \in Watches
    BY <1>1, <2>1 DEF Watches
  <2> QED BY <1>1, <2>1, <2>2, ExitKeeps
<1>4. CASE AirChanges
  <2>1. air' \in SUBSET Ssids /\ UNCHANGED <<config, selector, selecting, watch, stored>>
    BY <1>4 DEF AirChanges, saveVars
  <2> QED BY <2>1 DEF SelectInv, ConfigWhole, RolledBack, Entered, Sound, Watches
<1> QED BY <1>2, <1>3, <1>4

\* While networks are saved, the selector keeps what it knows: a key that was
\* entered stays one that was entered.
LEMMA SaveLeaves == ASSUME SelectInv, stored \subseteq stored', UNCHANGED selectVars PROVE SelectInv'
BY DEF SelectInv, selectVars, ConfigWhole, RolledBack, Entered, Sound

\* Every step of the selector, of the watcher and of the air.
LEMMA SelectSteps ==
  ASSUME SaveInv, SelectInv, Selector \/ Look \/ WatchDies \/ SelectorDies \/ AirChanges
  PROVE  SaveInv' /\ SelectInv' /\ UsableKept /\ SavedTrue
<1>1. faults \in Nat /\ deaths \in Nat
  BY DEF SaveInv, StoreInv, SaveTypeOK
<1>2. CASE RecordReplace
  <2>1. SelectInv' /\ Sound(preferred)'
    BY <1>2, RecordKeeps
  <2>2. UNCHANGED <<profiles, locked, helper, editor, saves, faults, deaths, stored, done>> /\ crossed' = TRUE
    BY <1>2 DEF RecordReplace
  <2> QED BY <1>1, <2>1, <2>2, SaveStays
<1>3. CASE ~RecordReplace
  <2>1. SelectInv'
    BY <1>3, CheckKeeps, ScanKeeps, BackupKeeps, TryKeeps, WaitKeeps, RestoreKeeps, RecordKeeps, ExitLeaves, LookKeeps,
       OutsideKeeps DEF Selector
  <2>2. UNCHANGED <<profiles, preferred, locked, helper, editor, saves, stored, done, crossed>>
    BY <1>3 DEF Selector, Check, build_candidate_list, Backup, Try, Wait, restore_wireless_config, Grace, RecordFirst,
       RecordList, Exit, Look, WatchDies, SelectorDies, AirChanges, saveVars
  <2>3. faults' \in Nat /\ deaths' \in Nat
    <3>1. (faults' = faults \/ (faults > 0 /\ faults' = faults - 1)) /\ (deaths' = deaths \/ (deaths > 0 /\ deaths' = deaths - 1))
      BY <1>3 DEF Selector, Check, build_candidate_list, Backup, Try, Wait, restore_wireless_config, Grace, RecordFirst,
         RecordList, Exit, Look, WatchDies, SelectorDies, AirChanges, saveVars
    <3> QED BY <1>1, <3>1
  <2> QED BY <2>1, <2>2, <2>3, SaveStays
<1> QED BY <1>2, <1>3

-----------------------------------------------------------------------------
(* The two together.                                                       *)

\* It holds at the start: the files hold what somebody entered.
LEMMA InitWifiInv == ASSUME Init PROVE WifiInv
<1>1. /\ scope \in Scopes /\ profiles \in scope.profiles /\ preferred = <<>> /\ locked = FALSE
      /\ helper = [p \in Pids |-> NoHelper] /\ editor = NewEditor
      /\ saves = scope.saves /\ faults = scope.faults /\ deaths = scope.deaths /\ crossed = FALSE
      /\ config \in scope.configs /\ air \in scope.airs
      /\ stored = {<<s, profiles[s][n]>> : s \in Ssids, n \in Spellings} \cup {<<config.ssid, config.key>>}
      /\ selector = NoSelector /\ selecting = FALSE /\ watch = NewWatch
  BY DEF Init, SaveInit
<1>2. /\ profiles \in [Ssids -> [Spellings -> Keys \cup {None}]] /\ saves \in Nat /\ faults \in Nat /\ deaths \in Nat
      /\ config \in Tuned /\ air \in SUBSET Ssids
  BY <1>1, WifiAssumption, SelectAssumption DEF Tuned
<1>3. \A p \in Pids : helper[p] = NoHelper /\ helper[p].pc = "None"
  BY <1>1, Nobody
<1>4. helper \in [Pids -> Helpers]
  BY <1>1, Nobody
<1>5. editor \in Editors /\ editor.pc = "Edit"
  <2>1. (CHOOSE s \in Ssids : TRUE) \in Ssids /\ (CHOOSE p \in Pids : TRUE) \in Pids
    BY WifiAssumption
  <2> QED BY <1>1, <2>1 DEF NewEditor, Editors
<1>6. SaveTypeOK
  <2>1. preferred \in Seq(Ssids) /\ locked \in BOOLEAN /\ crossed \in BOOLEAN
    <3>1. locked \in BOOLEAN /\ crossed \in BOOLEAN
      BY <1>1
    <3>2. preferred \in Seq(Ssids)
      BY <1>1
    <3> QED BY <3>1, <3>2
  <2> QED BY <1>2, <1>4, <1>5, <2>1 DEF SaveTypeOK, Helpers, Editors
<1>7. ListSound
  <2>1. Len(preferred) = 0 /\ DOMAIN preferred = {}
    BY <1>1
  <2> QED BY <2>1, WifiAssumption DEF ListSound, IsInjective
<1>8. OneHolder /\ \A p \in Pids : HelperOK(p)
  BY <1>3 DEF OneHolder, Holding, HelperOK, HasStored, HasRemoved, Well
<1>9. ProfilesEntered /\ Entered(config.ssid, config.key)
  BY <1>1 DEF ProfilesEntered, Entered
<1>10. SelectInv
  <2>1. watch \in Watches
    <3>1. 0 \in 0..(DISCONNECT_THRESHOLD - 1)
      BY SelectAssumption
    <3> QED BY <1>1, <3>1 DEF NewWatch, Watches
  <2>2. selector \in Selectors /\ selector.pc = "None" /\ selector.code = 0 /\ selecting \in BOOLEAN
    BY <1>1, NoneSelects
  <2>3. ConfigWhole /\ RolledBack
    BY <1>9, <2>2 DEF ConfigWhole, RolledBack, Entered
  <2> QED BY <1>2, <2>1, <2>2, <2>3 DEF SelectInv
<1> QED BY <1>1, <1>5, <1>6, <1>7, <1>8, <1>9, <1>10 DEF WifiInv, SaveInv, StoreInv, EditorInv

\* And every step keeps it, and is honest.
LEMMA NextWifiInv == ASSUME WifiInv, [Next]_wifiVars PROVE WifiInv' /\ UsableKept /\ SavedTrue
<1>1. SaveInv /\ SelectInv /\ scope \in Scopes
  BY DEF WifiInv
<1>2. CASE SaveNext /\ UNCHANGED <<scope, selectVars>>
  <2>1. SaveInv' /\ UsableKept /\ SavedTrue
    BY <1>1, <1>2, SaveSteps
  <2>2. stored \subseteq stored'
    BY <1>2 DEF SaveNext, Editor, apply, Save, WriteInput, Reap, stop_helper, MenuDies, Helper, ReadInput, Lock, Store,
       RemoveOthers, ReadPreferred, MovePreferred, Fail, cleanup, Orphaned
  <2>3. SelectInv'
    BY <1>1, <1>2, <2>2, SaveLeaves
  <2> QED BY <1>1, <1>2, <2>1, <2>3 DEF WifiInv
<1>3. CASE (Selector \/ Look \/ WatchDies \/ SelectorDies \/ AirChanges) /\ UNCHANGED scope
  BY <1>1, <1>3, SelectSteps DEF WifiInv
<1>4. CASE UNCHANGED wifiVars
  <2>1. UNCHANGED <<profiles, preferred, locked, helper, editor, saves, faults, deaths, stored, done, crossed>> /\ UNCHANGED selectVars
        /\ scope' = scope /\ faults \in Nat /\ deaths \in Nat /\ stored \subseteq stored'
    BY <1>1, <1>4 DEF wifiVars, saveVars, SaveInv, StoreInv, SaveTypeOK
  <2>2. SaveInv' /\ UsableKept /\ SavedTrue
    BY <1>1, <2>1, SaveStays
  <2>3. SelectInv'
    BY <1>1, <2>1, SaveLeaves
  <2> QED BY <1>1, <2>1, <2>2, <2>3 DEF WifiInv
<1> QED BY <1>2, <1>3, <1>4 DEF Next

\* The invariant holds in every behaviour.
LEMMA InvariantWifi == Spec => []WifiInv
<1>1. Init => WifiInv
  BY InitWifiInv
<1>2. WifiInv /\ [Next]_wifiVars => WifiInv'
  BY NextWifiInv
<1> QED BY <1>1, <1>2, PTL DEF Spec

\* At most one helper holds the lock, counted.
LEMMA HoldersCounted == ASSUME OneHolder PROVE OneHelper
<1>1. Cardinality(Holders) <= 1
  <2>1. CASE Holders = {}
    <3>1. Cardinality(Holders) = 0
      BY <2>1, FS_EmptySet
    <3> QED BY <3>1
  <2>2. CASE Holders # {}
    <3>1. PICK p \in Pids : Holders = {p}
      BY <2>2 DEF Holders, OneHolder, Holding
    <3>2. Cardinality(Holders) = 1
      BY <3>1, FS_Singleton
    <3> QED BY <3>2
  <2> QED BY <2>1, <2>2
<1>2. Holders # {} => locked
  BY DEF Holders, OneHolder, Holding
<1> QED BY <1>1, <1>2 DEF OneHelper

\* What has been stored and removed is the whole of the network's profiles.
LEMMA ProfilesWhole == ASSUME StoreInv PROVE StoredWhole
<1>1. ASSUME NEW p \in Pids, helper[p].pc = "Cleanup" /\ helper[p].code = 0
      PROVE  /\ profiles[helper[p].ssid] = [n \in Spellings |-> IF n = "hex" THEN helper[p].key ELSE None]
             /\ crossed \/ preferred[1] = helper[p].ssid
  <2> DEFINE s == helper[p].ssid
  <2>1. HelperOK(p) /\ s \in Ssids /\ profiles \in [Ssids -> [Spellings -> Keys \cup {None}]]
    BY DEF StoreInv, SaveTypeOK
  <2>2. /\ profiles[s]["hex"] = helper[p].key /\ profiles[s]["plain"] = None
        /\ crossed \/ preferred[1] = s
    BY <1>1, <2>1 DEF HelperOK, HasStored, HasRemoved, Well
  <2>3. profiles[s] \in [Spellings -> Keys \cup {None}]
    BY <2>1
  <2>4. \A n \in Spellings : profiles[s][n] = IF n = "hex" THEN helper[p].key ELSE None
    BY <2>2 DEF Spellings
  <2>5. profiles[s] = [n \in Spellings |-> profiles[s][n]]
    BY <2>3
  <2> HIDE DEF s
  <2>6. profiles[s] = [n \in Spellings |-> IF n = "hex" THEN helper[p].key ELSE None]
    BY <2>4, <2>5
  <2> QED BY <2>2, <2>6 DEF s
<1> QED BY <1>1 DEF StoredWhole

\* Profiles, list and configuration are sound at every moment, however many
\* networks, keys and processes there are: one helper at a time, a list without
\* doubles, what was saved as it was sent, and a station configured as somebody
\* wanted (deck-wifi-profile-add, deck-wifi-select).
THEOREM StationHolds == Spec => []StationSafe
<1>1. WifiInv => StationSafe
  <2> SUFFICES ASSUME WifiInv PROVE StationSafe
    OBVIOUS
  <2>1. StoreInv /\ SelectInv
    BY DEF WifiInv, SaveInv
  <2>2. OneHelper /\ StoredWhole
    BY <2>1, HoldersCounted, ProfilesWhole DEF StoreInv
  <2>3. TypeOK
    BY <2>1 DEF StoreInv, SelectInv, TypeOK, Tuned, Watches, Selectors
  <2> QED BY <2>1, <2>2, <2>3 DEF StationSafe, StoreInv, SelectInv
<1> QED BY <1>1, InvariantWifi, PTL

\* No step takes the only usable key of a network away, and the editor never
\* claims a save that was not made (deck-wifi-profile-add, App::wifi_touch).
THEOREM SavesAreHonest == Spec => SavesHonest
<1>1. WifiInv /\ [Next]_wifiVars => [UsableKept /\ SavedTrue]_wifiVars
  BY NextWifiInv
<1> QED BY <1>1, InvariantWifi, PTL DEF Spec, SavesHonest
=============================================================================
