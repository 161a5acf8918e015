----------------------------- MODULE UploaderAuth -----------------------------
(***************************************************************************)
(* Sign-in and sessions of the ROM uploader (native/src/uploader/mod.rs):  *)
(* the /login branch of dispatch with its semaphore and blocking worker,   *)
(* App::blocked, record_login, create_session and session, and the         *)
(* requests that carry a session cookie, /logout among them.               *)
(*                                                                         *)
(* A login is judged by its password alone; its session is named after it. *)
(* The clock counts in units of which BlockFor make five minutes.          *)
(***************************************************************************)
EXTENDS Integers, FiniteSets

CONSTANTS
  Logins,       \* POSTs to /login
  Right,        \* those of them with the right password
  Hosts, HostOf,
  Orders,       \* requests with a session cookie
  Strikes,      \* wrong passwords before a host is blocked: 5
  BlockFor,     \* 300 s
  Lifetime,     \* SESSION_SECONDS
  MaxSessions,  \* 1024
  MaxTime,      \* bound of the model's clock
  NoLogin

ASSUME AuthAssumption ==
  /\ Right \subseteq Logins /\ HostOf \in [Logins -> Hosts]
  /\ NoLogin \notin Logins
  /\ Strikes \in Nat \ {0} /\ BlockFor \in Nat \ {0} /\ Lifetime \in Nat \ {0}
  /\ MaxSessions \in Nat \ {0} /\ MaxTime \in Nat
  /\ IsFiniteSet(Logins)

VARIABLES
  now,
  progress,      \* where each login stands
  permit,     \* the login that holds the permit of App.login
  verdict,    \* what verification said of it
  failures,   \* Attempt.failures of each host
  until,      \* Attempt.blocked_until, Never without an Attempt
  expires,    \* Auth.sessions: when each session expires, Never without one
  reply,     \* what the client of a login was told
  order,      \* where each order stands
  cookie      \* the session an order was granted

loginVars == <<progress, permit, verdict, reply>>
attemptVars == <<failures, until>>
orderVars == <<order, cookie>>
signInVars == <<now, loginVars, attemptVars, expires, orderVars>>

Never == -1
Working == {"Verifying", "Recording", "Creating"}

-----------------------------------------------------------------------------

\* App::blocked, by checked_duration_since: two readings of the clock within
\* one unit may compare either way.
MayReject(h) == until[h] >= now
MayPass(h) == until[h] <= now

Goes(l, p) == progress' = [progress EXCEPT ![l] = p]

\* The client is told, unless it is gone or its handler has timed out.
Tell(l, a) == reply' = [reply EXCEPT ![l] = IF @ = "None" THEN a ELSE @]

\* dispatch for /login, once the form is read: a first look at the block.
Arrive(l) ==
  /\ progress[l] = "Idle"
  /\ \/ MayPass(HostOf[l]) /\ Goes(l, "Waiting") /\ UNCHANGED reply
     \/ MayReject(HostOf[l]) /\ Goes(l, "Done") /\ Tell(l, "Blocked")
     \/ Goes(l, "Done") /\ Tell(l, "Malformed")
  /\ UNCHANGED <<now, permit, verdict, attemptVars, expires, orderVars>>

\* The permit is granted; the block is looked at again, because other sign-ins
\* were judged meanwhile; a worker takes the permit over.
AcquireUnchecked(l) ==
  /\ progress[l] = "Waiting" /\ permit = NoLogin
  /\ permit' = l /\ Goes(l, "Verifying")
  /\ UNCHANGED <<now, verdict, reply, attemptVars, expires, orderVars>>
Acquire(l) ==
  /\ progress[l] = "Waiting" /\ permit = NoLogin
  /\ \/ MayPass(HostOf[l]) /\ permit' = l /\ Goes(l, "Verifying") /\ UNCHANGED reply
     \/ MayReject(HostOf[l]) /\ Goes(l, "Done") /\ Tell(l, "Blocked") /\ UNCHANGED permit
  /\ UNCHANGED <<now, verdict, attemptVars, expires, orderVars>>

\* Two seconds in the queue are enough.
GiveUp(l) ==
  /\ progress[l] = "Waiting"
  /\ Goes(l, "Done") /\ Tell(l, "TryAgain")
  /\ UNCHANGED <<now, permit, verdict, attemptVars, expires, orderVars>>

\* PasswordConfig::read and verify: an unreadable file refuses the right
\* password too.
Verify(l) ==
  /\ progress[l] = "Verifying"
  /\ \E v \in {"Wrong"} \cup (IF l \in Right THEN {"Right"} ELSE {}) :
       verdict' = [verdict EXCEPT ![l] = v]
  /\ Goes(l, "Recording")
  /\ UNCHANGED <<now, permit, attemptVars, expires, reply, orderVars>>

\* record_login with a wrong password: an Attempt is made if there is none.
Strike(h) ==
  IF failures[h] + 1 >= Strikes
  THEN /\ failures' = [failures EXCEPT ![h] = 0]
       /\ until' = [until EXCEPT ![h] = now + BlockFor]
  ELSE /\ failures' = [failures EXCEPT ![h] = @ + 1]
       /\ until' = [until EXCEPT ![h] = IF @ = Never THEN now ELSE @]

RecordPresent(l) ==
  /\ progress[l] = "Recording"
  /\ \/ /\ verdict[l] = "Right" /\ Goes(l, "Creating")
        /\ failures' = [failures EXCEPT ![HostOf[l]] = 0]
        /\ until' = [until EXCEPT ![HostOf[l]] = Never]
        /\ UNCHANGED <<permit, reply>>
     \/ /\ verdict[l] = "Wrong" /\ Goes(l, "Done")
        /\ IF reply[l] = "None" THEN Strike(HostOf[l]) ELSE UNCHANGED attemptVars
        /\ permit' = NoLogin /\ Tell(l, "Refused")
  /\ UNCHANGED <<now, verdict, expires, orderVars>>
Record(l) ==
  /\ progress[l] = "Recording"
  /\ \/ /\ verdict[l] = "Right" /\ Goes(l, "Creating")
        /\ failures' = [failures EXCEPT ![HostOf[l]] = 0]
        /\ until' = [until EXCEPT ![HostOf[l]] = Never]
        /\ UNCHANGED <<permit, reply>>
     \/ /\ verdict[l] = "Wrong" /\ Goes(l, "Done")
        /\ Strike(HostOf[l])
        /\ permit' = NoLogin /\ Tell(l, "Refused")
  /\ UNCHANGED <<now, verdict, expires, orderVars>>

\* retain: the expired sessions are dropped.
Expired(s) == expires[s] <= now
Retained == [s \in Logins |-> IF Expired(s) THEN Never ELSE expires[s]]
Sessions == {s \in Logins : expires[s] # Never}

\* create_session; the permit goes back when the worker ends.
CrowdedLate(e) == Cardinality({s \in Logins : e[s] # Never}) > MaxSessions
Crowded(e) == Cardinality({s \in Logins : e[s] # Never}) >= MaxSessions
Create(l) ==
  /\ progress[l] = "Creating"
  /\ IF Crowded(Retained)
     THEN expires' = Retained /\ Tell(l, "Capacity")
     ELSE expires' = [Retained EXCEPT ![l] = now + Lifetime] /\ Tell(l, "Session")
  /\ permit' = NoLogin /\ Goes(l, "Done")
  /\ UNCHANGED <<now, verdict, attemptVars, orderVars>>

\* The client disconnects, or the handler times out after 35 s.  A login in
\* the queue is withdrawn; a worker goes on and returns the permit itself.
AbandonHolding(l) ==
  /\ reply[l] = "None" /\ reply' = [reply EXCEPT ![l] = "Gone"]
  /\ \/ progress[l] \in {"Waiting", "Verifying"} /\ Goes(l, "Done")
     \/ progress[l] \in {"Recording", "Creating"} /\ UNCHANGED progress
  /\ UNCHANGED <<now, permit, verdict, attemptVars, expires, orderVars>>
Abandon(l) ==
  /\ reply[l] = "None" /\ reply' = [reply EXCEPT ![l] = "Gone"]
  /\ \/ progress[l] = "Waiting" /\ Goes(l, "Done")
     \/ progress[l] \in Working /\ UNCHANGED progress
  /\ UNCHANGED <<now, permit, verdict, attemptVars, expires, orderVars>>

\* App::session for a request with the cookie of a successful login: the
\* session is looked up before the body is read.
Present(o) ==
  /\ order[o] = "Idle"
  /\ expires' = Retained
  /\ \E s \in {l \in Logins : reply[l] = "Session"} :
       IF Expired(s)
       THEN order' = [order EXCEPT ![o] = "Denied"] /\ UNCHANGED cookie
       ELSE /\ order' = [order EXCEPT ![o] = "Reading"]
            /\ cookie' = [cookie EXCEPT ![o] = s]
  /\ UNCHANGED <<now, loginVars, attemptVars>>

\* The body is in: the order is carried out, /logout by removing the session
\* and any other without looking at it again, or refused for its csrf or form.
Logout(o) ==
  /\ order[o] = "Reading"
  /\ expires' = [expires EXCEPT ![cookie[o]] = Never]
  /\ order' = [order EXCEPT ![o] = "Acted"]
  /\ UNCHANGED <<now, loginVars, attemptVars, cookie>>
ActRenewing(o) ==
  /\ order[o] = "Reading"
  /\ order' = [order EXCEPT ![o] = "Acted"]
  /\ expires' = [expires EXCEPT ![cookie[o]] = now + Lifetime]
  /\ UNCHANGED <<now, loginVars, attemptVars, cookie>>
Act(o) ==
  /\ order[o] = "Reading"
  /\ \E p \in {"Acted", "Denied"} : order' = [order EXCEPT ![o] = p]
  /\ UNCHANGED <<now, loginVars, attemptVars, expires, cookie>>

Tick == now < MaxTime /\ now' = now + 1
        /\ UNCHANGED <<loginVars, attemptVars, expires, orderVars>>

SignInInit ==
  /\ now = 0
  /\ progress = [l \in Logins |-> "Idle"] /\ permit = NoLogin
  /\ verdict = [l \in Logins |-> "None"]
  /\ failures = [h \in Hosts |-> 0] /\ until = [h \in Hosts |-> Never]
  /\ expires = [l \in Logins |-> Never]
  /\ reply = [l \in Logins |-> "None"]
  /\ order = [o \in Orders |-> "Idle"] /\ cookie = [o \in Orders |-> NoLogin]

Worker(l) == Verify(l) \/ Record(l) \/ Create(l)

SignInNext ==
  \/ \E l \in Logins : Arrive(l) \/ Acquire(l) \/ GiveUp(l) \/ Worker(l) \/ Abandon(l)
  \/ \E o \in Orders : Present(o) \/ Logout(o) \/ Act(o)
  \/ Tick

SignInSpec == SignInInit /\ [][SignInNext]_signInVars

\* Workers run to their end, and a wait in the queue is timed.
FairSignInSpec == SignInSpec /\ \A l \in Logins : WF_signInVars(Worker(l)) /\ WF_signInVars(Acquire(l) \/ GiveUp(l))

-----------------------------------------------------------------------------
(* Properties.                                                             *)

\* The types of the uploader's sign-in state.
SignInTypeOK ==
  /\ now \in 0..MaxTime
  /\ progress \in [Logins -> Working \cup {"Idle", "Waiting", "Done"}]
  /\ permit \in Logins \cup {NoLogin}
  /\ verdict \in [Logins -> {"None", "Right", "Wrong"}]
  /\ failures \in [Hosts -> 0..(Strikes - 1)]
  /\ until \in [Hosts -> Never..(MaxTime + BlockFor)]
  /\ expires \in [Logins -> Never..(MaxTime + Lifetime)]
  /\ reply \in [Logins -> {"None", "Blocked", "Malformed", "TryAgain", "Refused",
                            "Session", "Capacity", "Gone"}]
  /\ order \in [Orders -> {"Idle", "Reading", "Denied", "Acted"}]
  /\ cookie \in [Orders -> Logins \cup {NoLogin}]

\* No password of a blocked host is judged, not even one that was queued
\* before the block (the second reject_blocked of dispatch).
NoGuessWhileBlocked ==
  \A l \in Logins : progress[l] \in {"Verifying", "Recording"} => until[HostOf[l]] <= now

\* A block is served in full: no sign-in of the host, however early it was
\* queued, shortens or lifts it.
BlockServed == [][\A h \in Hosts : until[h] > now => until'[h] = until[h]]_signInVars

\* Every wrong password counts, also that of a client that hung up while it
\* was judged (the comment in dispatch on accounting inside the worker).
Judged(h, v) == {l \in Logins : HostOf[l] = h /\ verdict[l] = v /\ progress[l] # "Recording"}
EveryGuessCounts ==
  \A h \in Hosts : Judged(h, "Right") = {} => failures[h] = Cardinality(Judged(h, "Wrong")) % Strikes

\* The session table never outgrows its limit.
SessionsBounded == Cardinality(Sessions) <= MaxSessions

\* A request is granted a session only while that lives: for Lifetime after its
\* login and not after a logout.
GrantedAlive ==
  [][\A o \in Orders : order[o] = "Idle" /\ order'[o] = "Reading" => expires[cookie'[o]] > now]_signInVars

\* A session that is gone stays gone, whatever logins are under way.
GoneForGood ==
  [][\A l \in Logins : reply[l] = "Session" /\ expires[l] = Never => expires'[l] = Never]_signInVars

\* The permit always comes back, also when the client hangs up: one sign-in can
\* not shut out all others.
PermitReturns == (permit # NoLogin) ~> (permit = NoLogin)

\* Nothing slips past a limit: every wrong password that was judged counts
\* against its host, and the session table never outgrows its limit
\* (record_login, create_session).
LimitsKept == EveryGuessCounts /\ SessionsBounded
=============================================================================
