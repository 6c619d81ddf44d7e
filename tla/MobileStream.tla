---------------------------- MODULE MobileStream ----------------------------
(***************************************************************************)
(* The stream to paired phones: the listener an operator opens on one      *)
(* interface, the pairing of a device (knock, approval, code), the session *)
(* it becomes, the event streams of the sessions, and the thread that      *)
(* follows the log files while some phone wants them.                      *)
(*                                                                         *)
(* Each public method is one hold of the service's lock and one step here; *)
(* start() is three, because only the life-cycle lock covers the time      *)
(* between its stop() and the listener it opens.  A session's token is     *)
(* written as the pairing it came from.  A stream that finds its session   *)
(* gone as it begins answers from inside the lock, and holds it until that *)
(* frame is sent.                                                          *)
(***************************************************************************)
EXTENDS Lists, Integers, FiniteSets

CONSTANTS
  Devices,      \* phones
  Operators,    \* threads serving the desktop's requests
  Interfaces,   \* what the listener can be opened on
  MaxPairings,  \* pairings created (bound)
  QueueSize,    \* STREAM_QUEUE_SIZE
  RingSize,     \* LOG_RING_SIZE
  Backlog,      \* LOG_BACKLOG
  MaxLines,     \* log lines written (bound)
  MaxActs       \* operators' calls, streams opened, events, rotations and expiries (bound)

ASSUME MobileAssumption ==
  /\ {QueueSize, RingSize, Backlog} \subseteq Nat \ {0}
  /\ {MaxPairings, MaxLines, MaxActs} \subseteq Nat
  /\ "" \notin Interfaces \cup Operators

VARIABLES
  listener,   \* _state.interface: "" when not running
  busy,       \* the operator inside the life-cycle lock, "" for none
  operator,   \* per operator: where its call is
  pairings,   \* _pairings
  screen,     \* what the desktop last showed of each pairing: the device waiting
  sessions,   \* _sessions
  stream,     \* per device: its event stream
  lock,       \* "" or the device whose stream is suspended inside the lock
  log,        \* [file, off, moved, ring, n, lost]: the log file, how far it is read, its ring
  follows,    \* the follower thread runs and its stop event is not set
  acts        \* acts so far (bound)

mobileVars == <<listener, busy, operator, pairings, screen, sessions, stream, lock, log, follows, acts>>

\* Rank(n): every other line is above the floor of a phone that wants warnings.
Rank(n) == 1 + (n % 2)

\* The lines above a phone's floor.
Lines == Nat \ {0}
Above(want) == {n \in Lines : Rank(n) >= want}

\* What waits for a phone is the number of a log line, or one of these.
Data == 0
Revoked == -1

NoStream ==
  [st |-> "none", tok |-> 0, want |-> 0, back |-> <<>>, q |-> <<>>, subbed |-> FALSE, logged |-> FALSE,
   got |-> <<>>, from |-> 0, spilt |-> FALSE, after |-> 0]

MobileInit ==
  /\ listener = "" /\ busy = ""
  /\ operator = [o \in Operators |-> [st |-> "idle", iface |-> ""]]
  /\ pairings = [p \in {} |-> {}]
  /\ screen = [p \in 1..MaxPairings |-> ""]
  /\ sessions = [t \in {} |-> {}]
  /\ stream = [d \in Devices |-> NoStream]
  /\ lock = ""
  /\ log = [file |-> <<>>, off |-> 0, moved |-> FALSE, ring |-> <<>>, n |-> 0, lost |-> {}]
  /\ follows = FALSE
  /\ acts = 0

Act == acts < MaxActs /\ acts' = acts + 1
Free == lock = ""

-----------------------------------------------------------------------------
(* Pruning and telling. *)

Keep(f, good(_)) == [k \in {j \in DOMAIN f : good(f[j])} |-> f[k]]

\* _prune_locked(), _prune_sessions_locked()
LivePairing(p) == ~p.expired /\ ~p.failed
LiveSession(s) == ~s.revoked /\ ~s.old
Prune == pairings' = Keep(pairings, LivePairing) /\ sessions' = Keep(sessions, LiveSession)

Newest(lines, k) == IF Len(lines) <= k THEN lines ELSE Drop(lines, Len(lines) - k)

\* The queue of a phone that does not keep up loses its oldest events.
Enqueue(s, events) ==
  [s EXCEPT !.q = Newest(@ \o events, QueueSize), !.spilt = @ \/ Len(s.q) + Len(events) > QueueSize]

Wants(s, event) == event \in Lines => s.logged /\ event \in Above(s.want)

\* _notify_all() without a token: a subscriber whose session is revoked or gone
\* is forgotten, the event notwithstanding.
Notified(ss, event) ==
  [d \in Devices |->
     IF ~stream[d].subbed \/ ~Wants(stream[d], event) THEN stream[d]
     ELSE IF stream[d].tok \in DOMAIN ss /\ ~ss[stream[d].tok].revoked THEN Enqueue(stream[d], <<event>>)
     ELSE [stream[d] EXCEPT !.subbed = FALSE]]

\* record_event(): what _public_event() lets through.
RecordEvent ==
  /\ Act /\ Free
  /\ stream' = Notified(sessions, Data)
  /\ UNCHANGED <<listener, busy, operator, pairings, screen, sessions, lock, log, follows>>

-----------------------------------------------------------------------------
(* The listener. *)

\* The locked part of stop().
Stopped == pairings' = [p \in {} |-> {}]

StopListener ==
  /\ listener' = ""
  /\ Stopped
  /\ LET revoked == [t \in DOMAIN sessions |-> [sessions[t] EXCEPT !.revoked = TRUE]]
     IN  /\ stream' = Notified(revoked, Revoked)
         /\ sessions' = revoked
  /\ follows' = FALSE

\* start(), create_pairing(): nothing to do when the listener is already there,
\* else stop() and open another; the life-cycle lock is kept throughout.
OperatorStarts(o, iface, pairing) ==
  /\ operator[o].st = "idle" /\ busy = "" /\ Free /\ Act
  /\ IF listener = iface
     THEN /\ operator' = [operator EXCEPT ![o] = [st |-> IF pairing THEN "pair" ELSE "idle", iface |-> iface]]
          /\ Prune
          /\ UNCHANGED <<listener, busy, stream, follows>>
     ELSE /\ StopListener
          /\ busy' = o
          /\ operator' = [operator EXCEPT ![o] = [st |-> IF pairing THEN "listenpair" ELSE "listen", iface |-> iface]]
  /\ UNCHANGED <<screen, lock, log>>

\* _listen(): the port is taken, the server does not come up, or it serves.
OperatorListens(o) ==
  /\ operator[o].st \in {"listen", "listenpair"} /\ Free
  /\ busy' = ""
  /\ \/ /\ listener' = operator[o].iface
        /\ operator' = [operator EXCEPT ![o].st = IF @ = "listenpair" THEN "pair" ELSE "idle"]
        /\ Prune
     \/ /\ operator' = [operator EXCEPT ![o].st = "idle"]
        /\ UNCHANGED <<listener, pairings, sessions>>
  /\ UNCHANGED <<screen, stream, lock, log, follows, acts>>

OperatorStops(o) ==
  /\ operator[o].st = "idle" /\ busy = "" /\ Free /\ Act
  /\ StopListener
  /\ UNCHANGED <<busy, operator, screen, lock, log>>

-----------------------------------------------------------------------------
(* Pairing. *)

\* The second half of create_pairing(): whatever the listener is by now.
CreatePairing(o) ==
  /\ operator[o].st = "pair" /\ Free
  /\ operator' = [operator EXCEPT ![o].st = "idle"]
  /\ \E p \in 1..MaxPairings :
       /\ p \notin DOMAIN pairings \cup DOMAIN sessions /\ screen[p] = ""
       /\ \A d \in Devices : stream[d].tok # p
       /\ pairings' = [k \in DOMAIN pairings \cup {p} |-> IF k # p THEN pairings[k]
                        ELSE [iface |-> listener, client |-> "", approved |-> FALSE, vouched |-> "",
                              failed |-> FALSE, expired |-> FALSE]]
       /\ \A k \in 1..(p - 1) : k \in DOMAIN pairings \cup DOMAIN sessions \/ screen[k] # ""
  /\ UNCHANGED <<listener, busy, screen, sessions, stream, lock, log, follows, acts>>

PairingExpires(p) ==
  /\ Act /\ ~pairings[p].expired
  /\ pairings' = [pairings EXCEPT ![p].expired = TRUE]
  /\ UNCHANGED <<listener, busy, operator, screen, sessions, stream, lock, log, follows>>

\* Only the first knock says who is asking.
Described(pairing, d) == IF pairing.client = "" /\ ~pairing.approved THEN [pairing EXCEPT !.client = d] ELSE pairing

\* open_pairing()
Knock(d, p) ==
  /\ Free /\ p \in DOMAIN pairings /\ LivePairing(pairings[p])
  /\ pairings' = [Keep(pairings, LivePairing) EXCEPT ![p] = Described(@, d)]
  /\ sessions' = Keep(sessions, LiveSession)
  /\ UNCHANGED <<listener, busy, operator, screen, stream, lock, log, follows, acts>>

\* pairing(): the desktop polls it and shows the device.
Show(p) ==
  /\ Free /\ p \in DOMAIN pairings /\ LivePairing(pairings[p])
  /\ screen' = [screen EXCEPT ![p] = IF pairings[p].client # "" THEN pairings[p].client ELSE @]
  /\ Prune
  /\ UNCHANGED <<listener, busy, operator, stream, lock, log, follows, acts>>

\* approve_pairing(), by an operator who has a device on the screen.
Approve(p) ==
  /\ Free /\ p \in DOMAIN pairings /\ LivePairing(pairings[p])
  /\ screen[p] # "" /\ pairings[p].client # "" /\ ~pairings[p].approved
  /\ pairings' = [Keep(pairings, LivePairing) EXCEPT ![p].approved = TRUE, ![p].vouched = screen[p]]
  /\ sessions' = Keep(sessions, LiveSession)
  /\ UNCHANGED <<listener, busy, operator, screen, stream, lock, log, follows, acts>>

\* verify_pairing(): the wrong device and the wrong code both close the pairing.
Verify(d, p, right) ==
  /\ Free /\ p \in DOMAIN pairings /\ LivePairing(pairings[p]) /\ pairings[p].approved
  /\ stream[d].st = "none"
  /\ IF pairings[p].client = d /\ right
     THEN /\ sessions' = [t \in DOMAIN sessions \cup {p} |-> IF t # p THEN sessions[t]
                           ELSE [client |-> d, vouched |-> pairings[p].vouched, iface |-> pairings[p].iface,
                                 revoked |-> FALSE, old |-> FALSE]]
          /\ pairings' = [k \in DOMAIN pairings \ {p} |-> pairings[k]]
          /\ stream' = [stream EXCEPT ![d].tok = p]
     ELSE /\ pairings' = [pairings EXCEPT ![p].failed = TRUE]
          /\ UNCHANGED <<sessions, stream>>
  /\ UNCHANGED <<listener, busy, operator, screen, lock, log, follows, acts>>

-----------------------------------------------------------------------------
(* Sessions and their streams. *)

\* revoke_session(): told through its own queue, whatever it is subscribed to.
RevokeSession(t) ==
  /\ Free /\ Act /\ t \in DOMAIN sessions
  /\ sessions' = [sessions EXCEPT ![t].revoked = TRUE]
  /\ stream' = [d \in Devices |-> IF stream[d].subbed /\ stream[d].tok = t
                                  THEN Enqueue(stream[d], <<Revoked>>) ELSE stream[d]]
  /\ UNCHANGED <<listener, busy, operator, pairings, screen, lock, log, follows>>

SessionAges(t) ==
  /\ Act /\ ~sessions[t].old
  /\ sessions' = [sessions EXCEPT ![t].old = TRUE]
  /\ UNCHANGED <<listener, busy, operator, pairings, screen, stream, lock, log, follows>>

HasSession(d) == stream[d].tok \in DOMAIN sessions /\ LiveSession(sessions[stream[d].tok])

\* /mobile/events: the response is there, its generator has not run.
OpenStream(d, want) ==
  /\ Free /\ stream[d].st = "none" /\ HasSession(d) /\ Act
  /\ sessions' = Keep(sessions, LiveSession)
  /\ stream' = [stream EXCEPT ![d] = [NoStream EXCEPT !.st = "opened", !.tok = stream[d].tok, !.want = want]]
  /\ UNCHANGED <<listener, busy, operator, pairings, screen, lock, log, follows>>

\* The last line read.
ReadOf(l) == IF l.moved THEN l.n - Len(l.file) ELSE l.n - (Len(l.file) - l.off)

MutSeeded == [log EXCEPT !.ring = Newest(log.file, RingSize)]

\* _start_log_follower_locked(): history into the ring, the offset at its end.
Seeded == [log EXCEPT !.ring = Newest(log.file, RingSize), !.off = Len(log.file), !.moved = FALSE]

\* The first step of event_stream(): subscription, follower and backlog under
\* one hold of the lock.
StreamBegins(d) ==
  /\ stream[d].st = "opened" /\ Free
  /\ sessions' = Keep(sessions, LiveSession)
  /\ IF HasSession(d)
     THEN LET wanted == stream[d].want > 0
              seeded == IF wanted /\ ~follows THEN Seeded ELSE log
          IN  /\ log' = seeded
              /\ follows' = (follows \/ wanted)
              /\ stream' = [stream EXCEPT ![d].st = "back", ![d].subbed = TRUE, ![d].logged = wanted,
                              ![d].from = ReadOf(seeded),
                              ![d].back = IF wanted THEN Newest(Kept(seeded.ring, Above(stream[d].want)), Backlog)
                                          ELSE <<>>]
              /\ UNCHANGED lock
     ELSE /\ lock' = d
          /\ stream' = [stream EXCEPT ![d].st = "refused"]
          /\ UNCHANGED <<log, follows>>
  /\ UNCHANGED <<listener, busy, operator, pairings, screen, acts>>

\* The refusal is sent, or the phone is gone: only now is the lock released.
RefusalEnds(d) ==
  /\ stream[d].st = "refused"
  /\ lock' = ""
  /\ stream' = [stream EXCEPT ![d] = NoStream]
  /\ UNCHANGED <<listener, busy, operator, pairings, screen, sessions, log, follows, acts>>

\* One frame to the phone: what it got, and whether its session was already
\* revoked (history).
Got(s, event) ==
  [s EXCEPT !.got = IF event \in Lines THEN Append(@, event) ELSE @,
            !.after = IF event # Revoked /\ ~(s.tok \in DOMAIN sessions /\ LiveSession(sessions[s.tok]))
                      THEN @ + 1 ELSE @]

YieldBacklog(d) ==
  /\ stream[d].st = "back"
  /\ stream' = IF stream[d].back = <<>> THEN [stream EXCEPT ![d].st = "check"]
               ELSE [stream EXCEPT ![d].got = Append(@, Head(stream[d].back)), ![d].back = Tail(@)]
  /\ UNCHANGED <<listener, busy, operator, pairings, screen, sessions, lock, log, follows, acts>>

MutMayGo(d) == TRUE

\* session(token) at the head of the loop.
MayGo(d) == HasSession(d)

StreamChecks(d) ==
  /\ stream[d].st = "check" /\ Free
  /\ sessions' = Keep(sessions, LiveSession)
  /\ stream' = [stream EXCEPT ![d].st = IF MayGo(d) THEN "get" ELSE "leave"]
  /\ UNCHANGED <<listener, busy, operator, pairings, screen, lock, log, follows, acts>>

\* q.get(), or a keepalive when it is empty; a phone that has gone is noticed at
\* a yield.
StreamYields(d) ==
  /\ stream[d].st = "get"
  /\ LET s == stream[d]
     IN  stream' = [stream EXCEPT ![d] = IF s.q = <<>> THEN [s EXCEPT !.st = "check"]
                                         ELSE [Got(s, Head(s.q)) EXCEPT !.q = Tail(s.q), !.st = "check"]]
  /\ UNCHANGED <<listener, busy, operator, pairings, screen, sessions, lock, log, follows, acts>>

PhoneLeaves(d) ==
  /\ stream[d].st \in {"back", "check", "get"}
  /\ stream' = [stream EXCEPT ![d].st = "leave"]
  /\ UNCHANGED <<listener, busy, operator, pairings, screen, sessions, lock, log, follows, acts>>

\* The finally of event_stream(); the phone may open another.
StreamEnds(d) ==
  /\ stream[d].st = "leave" /\ Free
  /\ stream' = [stream EXCEPT ![d] = [NoStream EXCEPT !.tok = stream[d].tok]]
  /\ follows' = (follows /\ \E e \in Devices \ {d} : stream[e].logged)
  /\ UNCHANGED <<listener, busy, operator, pairings, screen, sessions, lock, log, acts>>

-----------------------------------------------------------------------------
(* The log files. *)

WriteLine ==
  /\ log.n < MaxLines
  /\ log' = [log EXCEPT !.n = @ + 1, !.file = Append(@, log.n + 1)]
  /\ UNCHANGED <<listener, busy, operator, pairings, screen, sessions, stream, lock, follows, acts>>

\* The writer rotates: a new file under the same name, and what was not read of
\* the old one never will be.
Rotate ==
  /\ Act /\ log.file # <<>>
  /\ log' = [log EXCEPT !.file = <<>>, !.moved = TRUE,
                        !.lost = @ \cup {log.file[i] : i \in (IF log.moved THEN 1 ELSE log.off + 1)..Len(log.file)}]
  /\ UNCHANGED <<listener, busy, operator, pairings, screen, sessions, stream, lock, follows>>

\* _poll_logs_locked(): a new inode is read from its start; the sorted lines go
\* into the ring and to whoever wants them, one by one.
Poll ==
  /\ follows /\ Free
  /\ \E d \in Devices : stream[d].logged
  /\ LET fresh == IF log.moved THEN log.file ELSE Drop(log.file, log.off)
         wanted(s) == IF s.subbed /\ s.logged THEN Kept(fresh, Above(s.want)) ELSE <<>>
     IN  /\ fresh # <<>> \/ log.moved
         /\ log' = [log EXCEPT !.off = Len(log.file), !.moved = FALSE, !.ring = Newest(@ \o fresh, RingSize)]
         /\ stream' = [d \in Devices |->
              IF wanted(stream[d]) = <<>> THEN stream[d]
              ELSE IF stream[d].tok \in DOMAIN sessions /\ ~sessions[stream[d].tok].revoked
                   THEN Enqueue(stream[d], wanted(stream[d])) ELSE [stream[d] EXCEPT !.subbed = FALSE]]
  /\ UNCHANGED <<listener, busy, operator, pairings, screen, sessions, lock, follows, acts>>

-----------------------------------------------------------------------------
MobileNext ==
  \/ RecordEvent \/ WriteLine \/ Rotate \/ Poll
  \/ \E o \in Operators :
       \/ OperatorListens(o) \/ OperatorStops(o) \/ CreatePairing(o)
       \/ \E i \in Interfaces, pairing \in BOOLEAN : OperatorStarts(o, i, pairing)
  \/ \E p \in DOMAIN pairings : PairingExpires(p) \/ Show(p) \/ Approve(p)
  \/ \E t \in DOMAIN sessions : RevokeSession(t) \/ SessionAges(t)
  \/ \E d \in Devices :
       \/ StreamBegins(d) \/ RefusalEnds(d) \/ YieldBacklog(d) \/ StreamChecks(d) \/ StreamYields(d)
       \/ PhoneLeaves(d) \/ StreamEnds(d)
       \/ \E want \in 0..2 : OpenStream(d, want)
       \/ \E p \in DOMAIN pairings : Knock(d, p) \/ \E right \in BOOLEAN : Verify(d, p, right)

MobileSpec == MobileInit /\ [][MobileNext]_mobileVars

-----------------------------------------------------------------------------
(* Properties. *)

\* open_pairing(), approve_pairing(), verify_pairing(), stop(): a session is
\* held by the device the operator had on the screen when approving, and what
\* is paired or pairing belongs to the listener in use: nothing of an earlier
\* one survives it. (A pairing made while another operator reopens the listener
\* names none.)
AccessIsVouched ==
  /\ \A t \in DOMAIN sessions :
       /\ sessions[t].client = sessions[t].vouched
       /\ sessions[t].revoked \/ sessions[t].iface \in {listener, ""}
  /\ \A p \in DOMAIN pairings : pairings[p].iface \in {listener, ""}

\* The lines a phone got or is to get.
Sent(s) == s.got \o s.back \o Kept(s.q, Lines)
Rising(lines) == \A i, k \in DOMAIN lines : i < k => lines[i] < lines[k]

\* event_stream(): "a line is in the backlog or in the queue, never both and
\* never neither": to a phone that wants logs, every line read since it
\* subscribed is on its way once, in order, behind a backlog that leaves no gap.
LinesMeet ==
  \A d \in Devices :
    LET s     == stream[d]
        lines == Sent(s)
        Due(n) == Rank(n) >= s.want /\ n \notin log.lost
    IN  s.logged /\ s.subbed =>
          /\ Rising(lines)
          /\ s.spilt \/ \A n \in (s.from + 1)..ReadOf(log) : Due(n) => n \in Elems(lines)
          /\ s.spilt \/ lines = <<>> \/ \A n \in lines[1]..s.from : Due(n) => n \in Elems(lines)

\* session() at the head of event_stream()'s loop: once a session is revoked or
\* pruned, its phone gets at most one more event.
RevokedIsCut == \A d \in Devices : stream[d].after <= 1

\* From pairing to revocation: only the phone that was vouched for, on the
\* listener in use, is served, and a revoked one at most once more.
AccessIsGranted == AccessIsVouched /\ RevokedIsCut
=============================================================================
