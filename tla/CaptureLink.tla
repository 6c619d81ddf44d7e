---------------------------- MODULE CaptureLink -----------------------------
(***************************************************************************)
(* The link between the web process and the privileged capture process:    *)
(* IpcClient, whose callers are the request handlers, and IpcServer        *)
(* (sniff4hound/ipc.py).                                                   *)
(*                                                                         *)
(* A link is one authenticated connection, numbered by the client's        *)
(* _generation.  Its two ends fail together: either end shuts it, and what *)
(* the other end has already received can still be read.  A call is used   *)
(* once, and its frame is either sent whole or not at all.  The handshake  *)
(* is one step, since connect() holds _connect_lock from end to end.       *)
(***************************************************************************)
EXTENDS Naturals, FiniteSets

CONSTANTS
  Calls,       \* the calls of the web process
  MaxLinks,    \* bound on the connections made
  MaxCrashes,  \* bound on the deaths of the capture process
  NoLink       \* no connection

Links == 1..MaxLinks

ASSUME LinkAssumption ==
  /\ IsFiniteSet(Calls) /\ MaxLinks \in Nat /\ MaxCrashes \in Nat
  /\ NoLink \notin Links

VARIABLES
  \* the web process
  cur,         \* _sock, with _connected: the link in use
  gen,         \* _generation: the links made so far
  latched,     \* _auth_failed
  closing,     \* where close() stands; its stop event is up unless "no"
  closeSock,   \* the socket close() is about to drop
  reader,      \* where the reader thread of each link stands
  place,       \* where each caller stands in call()
  attempt,     \* its attempt, 1 or 2
  via,         \* the link of that attempt: sock and pending.generation
  listed,      \* the calls in _pending
  event,       \* what the caller's _PendingCall was set to
  outcome,     \* how call() ended
  \* the wire
  link,        \* each link: not made, open or shut
  requests,    \* requests on their way, by link
  replies,     \* replies on their way, by link
  \* the capture process
  child,       \* its IpcServer: accepting, stopped, or gone
  token,       \* its token: the client's, or one of its own
  session,     \* where the session thread of each link stands
  active,      \* _client_sock
  replaced,    \* the previous _client_sock a session is about to close
  work,        \* dispatches under way, by link: submitted, or answered
  runs,        \* how often the handler of each call was run
  crashes

clientVars == <<cur, gen, latched, closing, closeSock, reader>>
callVars   == <<place, attempt, via, listed, event, outcome>>
wireVars   == <<link, requests, replies>>
serverVars == <<child, token, session, active, replaced, work, runs, crashes>>
vars == <<clientVars, callVars, wireVars, serverVars>>

Stopped == closing # "no"

Init ==
  /\ cur = NoLink /\ gen = 0 /\ latched = FALSE
  /\ closing = "no" /\ closeSock = NoLink
  /\ reader = [l \in Links |-> "none"]
  /\ place = [c \in Calls |-> "idle"] /\ attempt = [c \in Calls |-> 1]
  /\ via = [c \in Calls |-> NoLink] /\ listed = {}
  /\ event = [c \in Calls |-> "none"] /\ outcome = [c \in Calls |-> "none"]
  /\ link = [l \in Links |-> "none"]
  /\ requests = [l \in Links |-> {}] /\ replies = [l \in Links |-> {}]
  /\ child = "accepting" /\ token = "shared"
  /\ session = [l \in Links |-> "none"]
  /\ active = NoLink /\ replaced = [l \in Links |-> NoLink]
  /\ work = [l \in Links |-> {}] /\ runs = [c \in Calls |-> 0] /\ crashes = 0

Goto(c, there) == place' = [place EXCEPT ![c] = there]

\* call() raises, or returns, with this outcome.
Ends(c, how) ==
  /\ Goto(c, "done")
  /\ outcome' = [outcome EXCEPT ![c] = how]
  /\ attempt' = [attempt EXCEPT ![c] = 1]
  /\ via' = [via EXCEPT ![c] = NoLink]

\* _close_socket()
Shut(l) == link' = [link EXCEPT ![l] = "shut"]

-----------------------------------------------------------------------------
(* connect(), under _connect_lock. *)

\* An attempt may begin or go on: one that found the stop event down can still
\* end after it was raised, before close() gets the lock.
MayDial == cur = NoLink /\ closing # "closed" /\ ~latched

\* The token was accepted: the link is made, with a reader of its own, and the
\* session thread of the capture process has acknowledged it.
Dial ==
  /\ MayDial /\ gen < MaxLinks
  /\ child = "accepting" /\ token = "shared"
  /\ gen' = gen + 1 /\ cur' = gen + 1
  /\ reader' = [reader EXCEPT ![gen + 1] = "reading"]
  /\ link' = [link EXCEPT ![gen + 1] = "open"]
  /\ session' = [session EXCEPT ![gen + 1] = "acked"]
  /\ UNCHANGED <<latched, closing, closeSock, requests, replies, child, token,
                 active, replaced, work, runs, crashes>>

\* The token was rejected: no later attempt will be made.
DialRejected ==
  /\ MayDial
  /\ child = "accepting" /\ token = "own"
  /\ latched' = TRUE
  /\ UNCHANGED <<cur, gen, closing, closeSock, reader, wireVars, serverVars>>

\* The supervisor re-attaches after a respawn.
Reattach == (Dial \/ DialRejected) /\ UNCHANGED callVars

-----------------------------------------------------------------------------
(* call(), on the thread of caller c. *)

Begin(c) ==
  /\ place[c] = "idle"
  /\ Goto(c, "ensure")
  /\ UNCHANGED <<clientVars, attempt, via, listed, event, outcome, wireVars,
                 serverVars>>

\* _ensure_connected() finds the link up, brings it up, or raises.
EnsureUp(c) ==
  /\ place[c] = "ensure"
  /\ Goto(c, "register")
  /\ IF cur # NoLink
     THEN UNCHANGED <<clientVars, wireVars, serverVars>>
     ELSE Dial
  /\ UNCHANGED <<attempt, via, listed, event, outcome>>

\* Closed, rejected now or before, nobody answering in time, or an attempt that
\* failed less than RECONNECT_COOLDOWN_SECONDS ago.
EnsureRaises(c) ==
  /\ place[c] = "ensure" /\ cur = NoLink
  /\ DialRejected \/ UNCHANGED <<clientVars, wireVars, serverVars>>
  /\ Ends(c, "unreachable")
  /\ UNCHANGED <<listed, event>>

\* The next attempt of call(), if there is one.
Again(c, how) ==
  IF attempt[c] = 1
  THEN /\ attempt' = [attempt EXCEPT ![c] = 2]
       /\ Goto(c, "ensure") /\ UNCHANGED <<via, outcome>>
  ELSE Ends(c, how)

\* Under _connect_lock; the link may have dropped since it was found up.
Register(c) ==
  /\ place[c] = "register"
  /\ IF cur = NoLink
     THEN Again(c, "unreachable") /\ UNCHANGED listed
     ELSE /\ via' = [via EXCEPT ![c] = cur]
          /\ listed' = listed \cup {c}
          /\ Goto(c, "send") /\ UNCHANGED <<attempt, outcome>>
  /\ UNCHANGED <<clientVars, event, wireVars, serverVars>>

Send(c) ==
  /\ place[c] = "send" /\ link[via[c]] = "open"
  /\ requests' = [requests EXCEPT ![via[c]] = @ \cup {c}]
  /\ Goto(c, "wait")
  /\ UNCHANGED <<clientVars, attempt, via, listed, event, outcome, link,
                 replies, serverVars>>

\* The link is shut, or the frame cannot be built, or is too large, or the
\* socket raised: nothing of it can be read as a frame.
SendFails(c) ==
  /\ place[c] = "send"
  /\ listed' = listed \ {c}
  /\ Goto(c, "drop")
  /\ UNCHANGED <<clientVars, attempt, via, event, outcome, wireVars,
                 serverVars>>

\* Mutants: a retiring link fails every call there is, or those of the links
\* before it.
MutRiding(l) == {c \in listed : l \in Links}
MutRidingOlder(l) == {c \in listed : via[c] < l}

\* The calls a retiring link takes with it: those registered on it.
Riding(l) == {c \in listed : via[c] = l}

Fail(S) ==
  /\ listed' = listed \ S
  /\ event' = [c \in Calls |-> IF c \in S THEN "lost" ELSE event[c]]

\* _drop_connection() of one link: forget it if it is still the current one,
\* fail what was riding it, close it.
DropLink(l) ==
  /\ cur' = IF cur = l THEN NoLink ELSE cur
  /\ Fail(Riding(l))
  /\ Shut(l)

\* The caller whose send failed retires the link and tries once more.
SendDrops(c) ==
  /\ place[c] = "drop"
  /\ DropLink(via[c])
  /\ Again(c, "unreachable")
  /\ UNCHANGED <<gen, latched, closing, closeSock, reader, requests, replies,
                 serverVars>>

\* wait() returns what the pending call was set to.
Returns(c) ==
  /\ place[c] = "wait" /\ event[c] # "none"
  /\ listed' = listed \ {c}
  /\ Ends(c, event[c])
  /\ UNCHANGED <<clientVars, event, wireVars, serverVars>>

\* Mutant: a call that ran out of time is sent again.
MutTimesOut(c) ==
  /\ place[c] = "wait" /\ event[c] = "none"
  /\ listed' = listed \ {c}
  /\ Again(c, "timeout")
  /\ UNCHANGED <<clientVars, event, wireVars, serverVars>>

TimesOut(c) ==
  /\ place[c] = "wait" /\ event[c] = "none"
  /\ listed' = listed \ {c}
  /\ Ends(c, "timeout")
  /\ UNCHANGED <<clientVars, event, wireVars, serverVars>>

-----------------------------------------------------------------------------
(* _read_loop(), on the reader of link l, and close(). *)

\* _resolve(): a reply nobody waits for any more is dropped.
ReaderResolves(l, c) ==
  /\ reader[l] = "reading" /\ c \in replies[l]
  /\ replies' = [replies EXCEPT ![l] = @ \ {c}]
  /\ IF c \in Riding(l)
     THEN /\ listed' = listed \ {c}
          /\ event' = [event EXCEPT ![c] = "answer"]
     ELSE UNCHANGED <<listed, event>>
  /\ UNCHANGED <<clientVars, place, attempt, via, outcome, link, requests,
                 serverVars>>

ReaderEnds(l) ==
  /\ reader[l] = "reading" /\ (Stopped \/ link[l] = "shut")
  /\ reader' = [reader EXCEPT ![l] = "gone"]
  /\ replies' = [replies EXCEPT ![l] = {}]
  /\ DropLink(l)
  /\ UNCHANGED <<gen, latched, closing, closeSock, place, attempt, via,
                 outcome, requests, serverVars>>

\* close() raises the stop event and reads _sock without the lock.
Close ==
  /\ ~Stopped
  /\ closing' = "drop" /\ closeSock' = cur
  /\ UNCHANGED <<cur, gen, latched, reader, callVars, wireVars, serverVars>>

CloseDrops ==
  /\ closing = "drop" /\ closing' = "closed" /\ closeSock' = NoLink
  /\ cur' = IF closeSock \in {NoLink, cur} THEN NoLink ELSE cur
  /\ Fail(listed)
  /\ IF closeSock = NoLink THEN UNCHANGED link ELSE Shut(closeSock)
  /\ UNCHANGED <<gen, latched, reader, place, attempt, via, outcome, requests,
                 replies, serverVars>>

-----------------------------------------------------------------------------
(* IpcServer, in the capture process. *)

\* The new client takes the place of the previous one, which is closed next.
SessionInstalls(l) ==
  /\ session[l] = "acked"
  /\ session' = [session EXCEPT ![l] =
                   IF active = NoLink THEN "serving" ELSE "installed"]
  /\ replaced' = [replaced EXCEPT ![l] = active]
  /\ active' = l
  /\ UNCHANGED <<clientVars, callVars, wireVars, child, token, work, runs,
                 crashes>>

SessionReplaces(l) ==
  /\ session[l] = "installed"
  /\ session' = [session EXCEPT ![l] = "serving"]
  /\ replaced' = [replaced EXCEPT ![l] = NoLink]
  /\ Shut(replaced[l])
  /\ UNCHANGED <<clientVars, callVars, requests, replies, child, token,
                 active, work, runs, crashes>>

\* A frame is handed to the pool, also one sent before the link was shut.
SessionReads(l, c) ==
  /\ session[l] = "serving" /\ c \in requests[l]
  /\ requests' = [requests EXCEPT ![l] = @ \ {c}]
  /\ work' = [work EXCEPT ![l] = @ \cup {c}]
  /\ UNCHANGED <<clientVars, callVars, link, replies, child, token, session,
                 active, replaced, runs, crashes>>

\* A session, or a publish, that met a dead connection forgets only its own.
Forget(l) == IF active = l THEN NoLink ELSE active

SessionEnds(l) ==
  /\ session[l] = "serving" /\ (link[l] = "shut" \/ child = "stopped")
  /\ session' = [session EXCEPT ![l] = "ended"]
  /\ active' = Forget(l)
  /\ requests' = [requests EXCEPT ![l] = {}]
  /\ Shut(l)
  /\ UNCHANGED <<clientVars, callVars, replies, child, token, replaced, work,
                 runs, crashes>>

\* _dispatch(): the handler, then its answer, if anybody can still get it.
DispatchRuns(l, c) ==
  /\ c \in work[l] /\ child # "gone"
  /\ work' = [work EXCEPT ![l] = @ \ {c}]
  /\ runs' = [runs EXCEPT ![c] = @ + 1]
  /\ replies' = IF link[l] = "open"
                THEN [replies EXCEPT ![l] = @ \cup {c}] ELSE replies
  /\ UNCHANGED <<clientVars, callVars, link, requests, child, token, session,
                 active, replaced, crashes>>

PublishFails ==
  /\ active # NoLink /\ link[active] = "shut" /\ child # "gone"
  /\ active' = Forget(active)
  /\ UNCHANGED <<clientVars, callVars, wireVars, child, token, session,
                 replaced, work, runs, crashes>>

\* stop(): no connection is accepted any more and the client's is closed, but
\* dispatches under way go on.
ServerStops ==
  /\ child = "accepting" /\ child' = "stopped"
  /\ active' = NoLink
  /\ IF active = NoLink THEN UNCHANGED link ELSE Shut(active)
  /\ UNCHANGED <<clientVars, callVars, requests, replies, token, session,
                 replaced, work, runs, crashes>>

\* The capture process is gone, by itself or killed: what it has not read or
\* not answered is lost, what it has sent can still be read.
ChildDies ==
  /\ child # "gone" /\ crashes < MaxCrashes
  /\ child' = "gone" /\ crashes' = crashes + 1
  /\ link' = [l \in Links |-> IF link[l] = "open" THEN "shut" ELSE link[l]]
  /\ session' = [l \in Links |->
                   IF session[l] = "none" THEN "none" ELSE "ended"]
  /\ requests' = [l \in Links |-> {}] /\ work' = [l \in Links |-> {}]
  /\ active' = NoLink /\ replaced' = [l \in Links |-> NoLink]
  /\ UNCHANGED <<clientVars, callVars, replies, token, runs>>

\* Another one is started; it makes a token of its own when it finds none.
Respawn(t) ==
  /\ child = "gone"
  /\ child' = "accepting" /\ token' = t
  /\ UNCHANGED <<clientVars, callVars, wireVars, session, active, replaced,
                 work, runs, crashes>>

-----------------------------------------------------------------------------
CallStep(c) ==
  \/ Begin(c) \/ EnsureUp(c) \/ EnsureRaises(c) \/ Register(c)
  \/ Send(c) \/ SendFails(c) \/ SendDrops(c) \/ Returns(c) \/ TimesOut(c)

LinkStep(l) ==
  \/ ReaderEnds(l) \/ SessionInstalls(l) \/ SessionReplaces(l) \/ SessionEnds(l)
  \/ \E c \in Calls :
       ReaderResolves(l, c) \/ SessionReads(l, c) \/ DispatchRuns(l, c)

Next ==
  \/ \E c \in Calls : CallStep(c)
  \/ \E l \in Links : LinkStep(l)
  \/ Reattach \/ Close \/ CloseDrops
  \/ PublishFails \/ ServerStops \/ ChildDies
  \/ \E t \in {"shared", "own"} : Respawn(t)

Spec == Init /\ [][Next]_vars

-----------------------------------------------------------------------------
(* Properties *)

\* Every variable keeps its type.
TypeOK ==
  /\ cur \in Links \cup {NoLink} /\ gen \in 0..MaxLinks
  /\ latched \in BOOLEAN
  /\ closing \in {"no", "drop", "closed"} /\ closeSock \in Links \cup {NoLink}
  /\ reader \in [Links -> {"none", "reading", "gone"}]
  /\ place \in [Calls -> {"idle", "ensure", "register", "send", "drop", "wait",
                          "done"}]
  /\ attempt \in [Calls -> 1..2] /\ via \in [Calls -> Links \cup {NoLink}]
  /\ listed \subseteq Calls
  /\ event \in [Calls -> {"none", "lost", "answer"}]
  /\ outcome \in [Calls -> {"none", "lost", "answer", "timeout", "unreachable"}]
  /\ link \in [Links -> {"none", "open", "shut"}]
  /\ requests \in [Links -> SUBSET Calls] /\ replies \in [Links -> SUBSET Calls]
  /\ child \in {"accepting", "stopped", "gone"} /\ token \in {"shared", "own"}
  /\ session \in [Links -> {"none", "acked", "installed", "serving", "ended"}]
  /\ active \in Links \cup {NoLink}
  /\ replaced \in [Links -> Links \cup {NoLink}]
  /\ work \in [Links -> SUBSET Calls] /\ runs \in [Calls -> Nat]
  /\ crashes \in 0..MaxCrashes

\* However often links drop, processes die and attempts are repeated, the
\* handler of a call runs at most once; a call that was answered was run, and
\* one whose attempts all failed before a frame was sent was not.
AtMostOnce ==
  \A c \in Calls :
    /\ runs[c] <= 1
    /\ outcome[c] = "answer" => runs[c] = 1
    /\ outcome[c] = "unreachable" => runs[c] = 0

\* A caller that waits without an answer yet is waiting on a link whose reader
\* is there to deliver it, or to tell the caller that the link was lost.
NobodyStranded ==
  \A c \in Calls :
    place[c] = "wait" /\ event[c] = "none" =>
      c \in listed /\ reader[via[c]] = "reading"

\* A retiring link fails only the calls that were riding it: a call registered
\* once, on a link that is still in use, is not told that its link was lost.
OthersUnharmed ==
  \A c \in Calls :
    place[c] = "wait" /\ event[c] = "lost" /\ attempt[c] = 1 =>
      via[c] # cur \/ Stopped

\* While the client's link works and its session is serving, it is the one the
\* capture process publishes events to: the end of an older session, or a
\* publish that failed on it, does not leave the client without events.
ServedIsActive ==
  cur # NoLink /\ (\A l \in Links : session[l] # "installed")
    /\ link[cur] = "open" /\ session[cur] = "serving" /\ child = "accepting"
      => active = cur

\* A call that is told its connection was lost was riding that connection.
LostMeansLost ==
  \A c \in Calls :
    place[c] = "wait" /\ event[c] = "lost" => via[c] # cur \/ Stopped
=============================================================================
