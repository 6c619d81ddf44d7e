------------------------------ MODULE Realtime ------------------------------
(***************************************************************************)
(* From an engine's event to the browsers: the event sink of the embedded  *)
(* capture (a bounded queue and the thread that drains it), the hub that   *)
(* sends every event to every registered client, the sessions behind the   *)
(* two channels (a websocket, and a server-sent stream whose answers come  *)
(* back through its queue), the thread that pushes the periodic feeds, and *)
(* the shutdown that takes it all down in order.                           *)
(*                                                                         *)
(* The hub's lock makes a broadcast, a registration or the collection of   *)
(* due feeds one step, a session's lock makes a put one step.  What is not *)
(* under a lock is a step of its own: the pusher's list is used after the  *)
(* lock is released, and the sink's thread holds the event it took.        *)
(***************************************************************************)
EXTENDS Lists, Integers, FiniteSets

CONSTANTS
  Clients,      \* browsers, each on one of the two channels
  QueueLimit,   \* REALTIME_QUEUE_LIMIT
  SinkLimit,    \* EVENT_QUEUE_SIZE
  MaxActs       \* connections, events of the engines, commands of clients, elapsed intervals,
                \* direct broadcasts and broken sockets, together

ASSUME RealtimeAssumption ==
  /\ {QueueLimit, SinkLimit} \subseteq Nat \ {0} /\ MaxActs \in Nat

VARIABLES
  sink,       \* [q, hand, st, offered, dropped, told]: the event sink
  hub,        \* [n, in]: broadcasts so far, and the registered clients' feeds
  session,    \* per client: the session, its queue and what has been read of it
  pusher,     \* [st, due]: the snapshot thread and its list
  stop,       \* _snapshot_pusher_stop
  down,       \* where shutdown_capture() is
  work        \* acts so far (bound)

realtimeVars == <<sink, hub, session, pusher, stop, down, work>>

Feeds == {"packets", "soc"}
NoFeed == [feed |-> "none", due |-> FALSE]

Event(n) == [k |-> "event", n |-> n]
Snap(feed) == [k |-> "snap", feed |-> feed]
Reply == [k |-> "reply"]
Close(code) == [k |-> "close", code |-> code]

\* The session of a client: st is where its handler or generator is, listed
\* its place in _REALTIME_SESSIONS, seen what has left the queue, joined the
\* broadcasts before it registered, stale the snapshots of a feed it has left
\* since it last chose one.
NewSession ==
  [st |-> "none", kind |-> "stream", q |-> <<>>, seen |-> <<>>, closed |-> FALSE, listed |-> FALSE, broken |-> FALSE,
   joined |-> 0, stale |-> 0]

RealtimeInit ==
  /\ sink = [q |-> <<>>, hand |-> 0, st |-> "run", offered |-> 0, dropped |-> 0, told |-> 0]
  /\ hub = [n |-> 0, in |-> [c \in {} |-> NoFeed]]
  /\ session = [c \in Clients |-> NewSession]
  /\ pusher = [st |-> "dead", due |-> <<>>]
  /\ stop = FALSE
  /\ down = "up"
  /\ work = 0

Registered == DOMAIN hub.in
IsSocket(s) == s.kind = "socket"
Without(in, cs) == [c \in DOMAIN in \ cs |-> in[c]]

-----------------------------------------------------------------------------
(* Putting and closing. *)

\* What a client has read is kept as far as the properties look at it.
Reads(s, item) == IF item.k \in {"event", "close"} THEN [s EXCEPT !.seen = Append(@, item)] ELSE s

\* A websocket's message is on the wire at once; a stream's waits for its
\* generator. The close event is always the last.
Lands(s, item) == IF IsSocket(s) THEN Reads(s, item) ELSE [s EXCEPT !.q = Append(@, item)]

CloseSession(s, code) ==
  IF s.closed THEN s
  ELSE IF IsSocket(s) /\ s.broken THEN [s EXCEPT !.closed = TRUE]
  ELSE [Lands(s, Close(code)) EXCEPT !.closed = TRUE]

\* _put(): a stream that does not drain is closed where it would overflow.
Put(s, item) ==
  IF s.closed \/ s.broken THEN s
  ELSE IF Len(s.q) >= QueueLimit THEN CloseSession(s, 1013)
  ELSE Lands(s, item)

\* send_text() raised: the item is not there.
Refused(s) == s.closed \/ s.broken \/ Len(s.q) >= QueueLimit

-----------------------------------------------------------------------------
(* The event sink. *)

\* EventSink.broadcast(): never waits.
Offer ==
  /\ work < MaxActs
  /\ down \in {"up", "stopping"}
  /\ sink' = IF Len(sink.q) < SinkLimit
             THEN [sink EXCEPT !.offered = @ + 1, !.q = Append(@, sink.offered + 1)]
             ELSE [sink EXCEPT !.offered = @ + 1, !.dropped = @ + 1]
  /\ work' = work + 1
  /\ UNCHANGED <<hub, session, pusher, stop, down>>

\* _run(): take one; the sentinel 0 ends the thread.
SinkTakes ==
  /\ sink.st = "run" /\ sink.hand = 0 /\ sink.q # <<>>
  /\ sink' = IF Head(sink.q) = 0 THEN [sink EXCEPT !.q = Tail(@), !.st = "ended"]
             ELSE [sink EXCEPT !.q = Tail(@), !.hand = Head(sink.q)]
  /\ UNCHANGED <<hub, session, pusher, stop, down, work>>

MutBroadcasts ==
  /\ hub' = [hub EXCEPT !.n = @ + 1]
  /\ session' = [c \in Clients |->
                   IF c \in Registered /\ ~Refused(session[c]) THEN Put(session[c], Event(hub.n + 1))
                   ELSE session[c]]

\* WebSocketHub.broadcast(): everyone registered gets it or is dropped, and a
\* dropped one is closed once the lock is released.
Broadcasts ==
  LET n       == hub.n + 1
      refused == {c \in Registered : Refused(session[c])}
  IN  /\ hub' = [n |-> n, in |-> Without(hub.in, refused)]
      /\ session' = [c \in Clients |->
                       IF c \in refused THEN CloseSession(Put(session[c], Event(n)), 1013)
                       ELSE IF c \in Registered THEN Put(session[c], Event(n)) ELSE session[c]]

SinkDelivers ==
  /\ sink.st = "run" /\ sink.hand # 0
  /\ Broadcasts
  /\ sink' = [sink EXCEPT !.hand = 0, !.told = @ + 1]
  /\ UNCHANGED <<pusher, stop, down, work>>

\* The job queue and the chat broadcast on their own threads.
BroadcastDirectly ==
  /\ work < MaxActs
  /\ Broadcasts
  /\ work' = work + 1
  /\ UNCHANGED <<sink, pusher, stop, down>>

\* ping(): a stream's ping takes room in its queue like an event.
Ping ==
  /\ work < MaxActs /\ Registered # {}
  /\ LET refused == {c \in Registered : Refused(session[c])}
     IN  /\ hub' = [hub EXCEPT !.in = Without(@, refused)]
         /\ session' = [c \in Clients |->
                          IF c \in refused THEN CloseSession(session[c], 1013)
                          ELSE IF c \in Registered /\ ~IsSocket(session[c]) THEN Put(session[c], Reply)
                          ELSE session[c]]
  /\ work' = work + 1
  /\ UNCHANGED <<sink, pusher, stop, down>>

-----------------------------------------------------------------------------
(* Sessions. *)

Register(c) == hub' = [hub EXCEPT !.in = [d \in Registered \cup {c} |-> IF d = c THEN NoFeed ELSE hub.in[d]]]

\* realtime_stream(), websocket_handler(): the stream's generator has not run.
Open(c, kind) ==
  /\ session[c].st = "none" /\ down \in {"up", "stopping"} /\ work < MaxActs
  /\ Register(c)
  /\ work' = work + 1
  /\ session' = [session EXCEPT ![c] = [NewSession EXCEPT
                   !.kind = kind, !.st = IF kind = "stream" THEN "first" ELSE "greet",
                   !.listed = kind = "stream", !.joined = hub.n]]
  /\ UNCHANGED <<sink, pusher, stop, down>>

\* The first chunk names the session.
StreamStarts(c) ==
  /\ session[c].st = "first"
  /\ session' = [session EXCEPT ![c].st = "greet"]
  /\ UNCHANGED <<sink, hub, pusher, stop, down, work>>

\* _ensure_snapshot_pusher(): restarted when it has ended, and the stop event
\* cleared with it.
EnsurePusher ==
  IF pusher.st = "dead" THEN pusher' = [st |-> "wait", due |-> <<>>] /\ stop' = FALSE
  ELSE UNCHANGED <<pusher, stop>>

\* subscribe_snapshot(): replaces the feed, due at once; nobody registered, no feed.
Subscribes(c, feed) ==
  hub' = IF c \in Registered THEN [hub EXCEPT !.in[c] = [feed |-> feed, due |-> TRUE]] ELSE hub

\* A welcome, or the feed the URL asked for and what was accepted of it.
Greet(c) ==
  /\ session[c].st = "greet"
  /\ \E asked \in BOOLEAN :
       /\ IF asked THEN Subscribes(c, "packets") /\ EnsurePusher ELSE UNCHANGED <<hub, pusher, stop>>
       /\ session' = [session EXCEPT ![c] = [Put(session[c], Reply) EXCEPT
                        !.st = IF IsSocket(session[c]) /\ Refused(session[c]) THEN "leave" ELSE "loop",
                        !.stale = IF asked THEN 0 ELSE session[c].stale]]
  /\ UNCHANGED <<sink, down, work>>

\* _realtime_dispatch() of a stream's command: refused for a session that is
\* not listed or is closed; of a websocket's: read by its own loop.
CanAct(c) ==
  /\ work < MaxActs
  /\ IF ~IsSocket(session[c]) THEN session[c].listed /\ ~session[c].closed
     ELSE session[c].st = "loop" /\ ~session[c].broken /\ ~session[c].closed

SubscribeFeed(c, feed) ==
  /\ CanAct(c)
  /\ Subscribes(c, feed) /\ EnsurePusher
  /\ session' = [session EXCEPT ![c] = [Put(@, Reply) EXCEPT !.stale = 0]]
  /\ work' = work + 1
  /\ UNCHANGED <<sink, down>>

UnsubscribeFeed(c) ==
  /\ CanAct(c)
  /\ hub' = IF c \in Registered THEN [hub EXCEPT !.in[c] = NoFeed] ELSE hub
  /\ session' = [session EXCEPT ![c] = [Put(@, Reply) EXCEPT !.stale = 0]]
  /\ work' = work + 1
  /\ UNCHANGED <<sink, pusher, stop, down>>

\* next_event() and the chunk it becomes; a close ends the stream.
StreamYields(c) ==
  /\ ~IsSocket(session[c]) /\ session[c].st = "loop" /\ session[c].q # <<>>
  /\ LET s    == session[c]
         item == Head(s.q)
     IN  session' = [session EXCEPT ![c] = [Reads(s, item) EXCEPT
                       !.q = Tail(s.q), !.st = IF item.k = "close" THEN "leave" ELSE s.st]]
  /\ UNCHANGED <<sink, hub, pusher, stop, down, work>>

\* The client is gone: a running generator is closed at its yield, a socket's
\* read raises; a stream whose generator never ran has no one to clean up.
ClientLeaves(c) ==
  /\ session[c].st \in {"first", "greet", "loop"}
  /\ session' = [session EXCEPT ![c].st = IF @ = "first" THEN "abandoned" ELSE "leave",
                                ![c].broken = @ \/ IsSocket(session[c])]
  /\ UNCHANGED <<sink, hub, pusher, stop, down, work>>

\* A websocket's sends fail before its reader notices.
SocketBreaks(c) ==
  /\ IsSocket(session[c]) /\ session[c].st = "loop" /\ ~session[c].broken /\ work < MaxActs
  /\ session' = [session EXCEPT ![c].broken = TRUE]
  /\ work' = work + 1
  /\ UNCHANGED <<sink, hub, pusher, stop, down>>

\* A closed socket's reader returns too.
ReaderEnds(c) ==
  /\ IsSocket(session[c]) /\ session[c].st = "loop" /\ (session[c].closed \/ session[c].broken)
  /\ session' = [session EXCEPT ![c].st = "leave"]
  /\ UNCHANGED <<sink, hub, pusher, stop, down, work>>

\* The finally of the handler and of the generator; what was read is forgotten.
Finally(c) ==
  /\ session[c].st = "leave"
  /\ hub' = [hub EXCEPT !.in = Without(@, {c})]
  /\ session' = [session EXCEPT ![c] = [NewSession EXCEPT !.st = "ended", !.closed = TRUE]]
  /\ UNCHANGED <<sink, pusher, stop, down, work>>

-----------------------------------------------------------------------------
(* The periodic feeds. *)

IntervalElapses(c) ==
  /\ work < MaxActs
  /\ c \in Registered /\ hub.in[c].feed # "none" /\ ~hub.in[c].due
  /\ hub' = [hub EXCEPT !.in[c].due = TRUE]
  /\ work' = work + 1
  /\ UNCHANGED <<sink, session, pusher, stop, down>>

\* due_subscriptions(): the due time moves on under the lock, the list is used
\* after it.
PusherCollects ==
  /\ pusher.st = "wait" /\ ~stop
  /\ LET due == {c \in Registered : hub.in[c].feed # "none" /\ hub.in[c].due}
     IN  /\ due # {}
         /\ \E order \in [1..Cardinality(due) -> due] :
              /\ \A i, k \in DOMAIN order : order[i] = order[k] => i = k
              /\ pusher' = [st |-> "push", due |-> [i \in DOMAIN order |-> <<order[i], hub.in[order[i]].feed>>]]
         /\ hub' = [hub EXCEPT !.in = [c \in Registered |-> IF c \in due THEN [@[c] EXCEPT !.due = FALSE] ELSE @[c]]]
  /\ UNCHANGED <<sink, session, stop, down, work>>

\* One delivery: the slice, or the error its query raised, is one message; a
\* client that refuses it is dropped.
PusherSends ==
  /\ pusher.st = "push" /\ ~stop /\ pusher.due # <<>>
  /\ LET c    == Head(pusher.due)[1]
         feed == Head(pusher.due)[2]
         away == c \notin Registered \/ hub.in[c].feed # feed
     IN  IF Refused(session[c])
         THEN /\ hub' = [hub EXCEPT !.in = Without(@, {c})]
              /\ session' = [session EXCEPT ![c] = CloseSession(Put(@, Snap(feed)), 1013)]
         ELSE /\ session' = [session EXCEPT ![c] = [Put(@, Snap(feed)) EXCEPT
                               !.stale = session[c].stale + IF away THEN 1 ELSE 0]]
              /\ UNCHANGED hub
  /\ pusher' = [pusher EXCEPT !.due = Tail(@)]
  /\ UNCHANGED <<sink, stop, down, work>>

PusherRests ==
  /\ pusher.st = "push" /\ pusher.due = <<>>
  /\ pusher' = [pusher EXCEPT !.st = "wait"]
  /\ UNCHANGED <<sink, hub, session, stop, down, work>>

PusherEnds ==
  /\ pusher.st \in {"wait", "push"} /\ stop /\ (pusher.st = "wait" \/ pusher.due # <<>>)
  /\ pusher' = [st |-> "dead", due |-> <<>>]
  /\ UNCHANGED <<sink, hub, session, stop, down, work>>

-----------------------------------------------------------------------------
(* shutdown_capture(): every step runs, whatever became of the ones before. *)

ShutdownSignals ==
  /\ down = "up"
  /\ stop' = TRUE /\ down' = "stopping"
  /\ UNCHANGED <<sink, hub, session, pusher, work>>

\* The engines are stopped, then EventSink.close(): a sink that stays full for
\* the timeout is left as it is.
SinkCloses ==
  /\ down = "stopping"
  /\ \/ Len(sink.q) < SinkLimit /\ sink' = [sink EXCEPT !.q = Append(@, 0)]
     \/ Len(sink.q) = SinkLimit /\ UNCHANGED sink
  /\ down' = "sink"
  /\ UNCHANGED <<hub, session, pusher, stop, work>>

MutHubCloses ==
  /\ down = "sink"
  /\ hub' = [hub EXCEPT !.in = Without(@, Registered)]
  /\ down' = "down"
  /\ UNCHANGED <<sink, session, pusher, stop, work>>

\* The joins of the sink's thread and of the pusher may both have given up.
\* hub.close(): forgotten under the lock, closed after it.
HubCloses ==
  /\ down = "sink"
  /\ hub' = [hub EXCEPT !.in = Without(@, Registered)]
  /\ session' = [c \in Clients |-> IF c \in Registered THEN CloseSession(session[c], 1000) ELSE session[c]]
  /\ down' = "down"
  /\ UNCHANGED <<sink, pusher, stop, work>>

-----------------------------------------------------------------------------
RealtimeNext ==
  \/ Offer \/ SinkTakes \/ SinkDelivers \/ BroadcastDirectly \/ Ping
  \/ PusherCollects \/ PusherSends \/ PusherRests \/ PusherEnds
  \/ ShutdownSignals \/ SinkCloses \/ HubCloses
  \/ \E c \in Clients :
       \/ \E kind \in {"stream", "socket"} : Open(c, kind)
       \/ StreamStarts(c) \/ Greet(c) \/ UnsubscribeFeed(c) \/ StreamYields(c)
       \/ ClientLeaves(c) \/ SocketBreaks(c) \/ ReaderEnds(c) \/ Finally(c) \/ IntervalElapses(c)
       \/ \E feed \in Feeds : SubscribeFeed(c, feed)

RealtimeSpec == RealtimeInit /\ [][RealtimeNext]_realtimeVars

\* Threads run: the sink's, the pusher's, a stream whose client reads, and the
\* steps of a shutdown that has begun. Clients, engines and intervals owe nothing.
RealtimeFairness ==
  /\ WF_realtimeVars(SinkTakes) /\ WF_realtimeVars(SinkDelivers)
  /\ WF_realtimeVars(PusherCollects \/ PusherSends \/ PusherRests \/ PusherEnds)
  /\ WF_realtimeVars(SinkCloses \/ HubCloses)
  /\ \A c \in Clients :
       WF_realtimeVars(StreamStarts(c) \/ Greet(c) \/ StreamYields(c) \/ ReaderEnds(c) \/ Finally(c))

RealtimeFairSpec == RealtimeSpec /\ RealtimeFairness

-----------------------------------------------------------------------------
(* Properties. *)

EventsOf(c) == Kept(session[c].seen \o session[c].q, [k : {"event"}, n : Nat])

\* WebSocketHub.broadcast(), _put(): a client receives every broadcast since it
\* registered, in order and without a gap, until the one that drops it; nothing
\* follows the close event, and only a closed session has one.
NoGaps ==
  \A c \in Clients :
    LET events == EventsOf(c)
        all    == session[c].seen \o session[c].q
    IN  /\ \A i \in 1..Len(events) : events[i].n = session[c].joined + i
        /\ c \in Registered /\ ~session[c].closed /\ ~session[c].broken =>
             Len(events) = hub.n - session[c].joined
        /\ \A i \in 1..Len(all) : all[i].k = "close" => i = Len(all) /\ session[c].closed

\* EventSink: what the engines offered was told to the hub, dropped and counted,
\* or is still on its way, and the sentinel goes in behind it.
SinkAddsUp ==
  /\ sink.offered = sink.told + sink.dropped + (IF sink.hand = 0 THEN 0 ELSE 1)
                      + Len(Kept(sink.q, Nat \ {0}))
  /\ sink.st = "ended" => sink.hand = 0

\* due_subscriptions(): the pusher's list may outlive a subscription, so after
\* a client left a feed at most one more of its snapshots arrives.
OneStaleSnapshot == \A c \in Clients : session[c].stale <= 1

\* send_to(), broadcast(), close(): a client the hub has stopped feeding is
\* not left waiting: its handler or generator ends and forgets it.
ForgottenEnds ==
  \A c \in Clients :
    (c \notin Registered /\ session[c].st \in {"greet", "loop"}) ~> (session[c].st = "ended" /\ ~session[c].listed)

\* WebSocketHub: whatever is dropped, closed or unsubscribed around it, a client
\* gets the broadcasts of its time without a gap and at most one stale snapshot,
\* and no event of the engines is lost uncounted on its way to the hub.
ClientsMissNothing == NoGaps /\ OneStaleSnapshot /\ SinkAddsUp
=============================================================================
