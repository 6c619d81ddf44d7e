------------------------------ MODULE Honeypot ------------------------------
(***************************************************************************)
(* The honeypot engine: start() and stop() of the runtime controller, the  *)
(* background thread that brings the listeners up, the listener threads    *)
(* and their connection slots, the toggles of one listener, and the writer *)
(* that moves events from the queue into the two databases.  One event     *)
(* (_stop_event) ends every thread of the engine and is cleared by the     *)
(* next start(), so threads of two runs may live side by side.             *)
(* The joins of listeners and writer give up after a while: the caller may *)
(* pass them at any time.  What is said on a connection is Conversation's. *)
(***************************************************************************)
EXTENDS Integers, Sequences, FiniteSets, Functions

CONSTANTS
  Builtin,     \* listeners seeded into the store
  Custom,      \* listeners an operator may create
  Tls,         \* the ones on a port of TLS_TCP_PORTS
  Udp,         \* the ones on UDP; the others are TCP
  Slots,       \* HONEYPOT_TCP_MAX_CONNECTIONS_PER_LISTENER
  BatchSize,   \* DB_BATCH_SIZE
  MaxThreads,  \* bound on listener threads
  MaxStarts,   \* bound on calls of start()
  MaxWork,     \* bound on starts, toggles, connections and datagrams together
  None

Listeners == Builtin \cup Custom
Threads   == 1..MaxThreads
Runs      == 1..MaxStarts       \* starter and writer threads, by the start() that made them

ASSUME HoneypotAssumption ==
  /\ Tls \subseteq Listeners /\ Udp \subseteq Listeners /\ Tls \cap Udp = {}
  /\ Slots \in Nat \ {0} /\ BatchSize \in Nat \ {0}
  /\ MaxThreads \in Nat /\ MaxStarts \in Nat /\ MaxWork \in Nat
  /\ None \notin Listeners \cup Threads \cup Runs

VARIABLES
  listed,    \* rows of honeypot_listeners
  enabled,   \* those with the flag set
  session,   \* the honeypot's row of sessions
  stop,      \* _stop_event
  running, status,   \* HoneypotState; "ready" stands for "degraded" too
  tls,       \* _tls_context is there
  roster,    \* _listener_threads, with the stop event of each
  bound,     \* _listener_bound
  thread,    \* the listener threads
  told,      \* those whose own stop event is set
  open,      \* conversations of each thread: slots taken
  starter,   \* the background threads of start()
  writer,    \* the writer threads
  current,   \* _writer_thread
  eventDb,   \* _event_db: the run that opened it, or None
  queue,     \* _event_queue
  packets,   \* events registered in the main store
  lost,      \* history: events dropped with a failed batch
  call,      \* the call that holds the controller's lock
  starts, toggles, seen,  \* counts against the bounds
  overlap    \* history: a toggle or a start() found a starter, or a toggle the
             \* listeners of a failed start(), still at work

flagVars   == <<stop, running, status, tls>>
storeVars  == <<listed, enabled, session>>
threadVars == <<roster, bound, thread, told, open>>
writeVars  == <<writer, current, eventDb, queue, packets, lost>>
countVars  == <<starts, toggles, seen, overlap>>
vars == <<storeVars, flagVars, threadVars, starter, writeVars, call, countVars>>

Idle == [op |-> "idle", id |-> None]
NoStarter == [pc |-> "none", todo |-> {}, id |-> None, saw |-> FALSE]
NoWriter  == [pc |-> "none", batch |-> <<>>, conn |-> None]

Init ==
  /\ listed = Builtin /\ enabled \in SUBSET Builtin /\ session = "none"
  /\ stop = FALSE /\ running = FALSE /\ status = "stopped" /\ tls = FALSE
  /\ roster = [l \in Listeners |-> None] /\ bound = {}
  /\ thread = [t \in Threads |-> [st |-> "none", id |-> None]]
  /\ told = {} /\ open = [t \in Threads |-> 0]
  /\ starter = [r \in Runs |-> NoStarter] /\ writer = [r \in Runs |-> NoWriter]
  /\ current = None /\ eventDb = None /\ queue = <<>> /\ packets = {}
  /\ lost = {} /\ call = Idle /\ starts = 0 /\ toggles = 0 /\ seen = 0 /\ overlap = FALSE

\* A thread that has ended; its stop event no longer matters.
Gone == [st |-> "dead", id |-> None]

Alive(t) == thread[t].st \in {"new", "serving"}

\* The roster's thread of a listener is alive: nothing to spawn, someone to stop.
Present(id) == roster[id] # None /\ Alive(roster[id])

\* _stopping() of a listener thread: its own event, or the engine's.
Stopping(t) == t \in told \/ stop

Budget == starts + toggles + seen < MaxWork

Starting == \E r \in Runs : starter[r].pc \notin {"none", "dead"}

-----------------------------------------------------------------------------
(* start() and stop(), inside the controller's lock. *)

\* start(): nothing when it runs already, otherwise a new run begins.
StartBegins ==
  /\ call = Idle /\ ~running /\ starts < MaxStarts /\ Budget
  /\ starts' = starts + 1 /\ call' = [Idle EXCEPT !.op = "spawn"]
  /\ stop' = FALSE /\ running' = TRUE /\ status' = "starting"
  /\ overlap' = (overlap \/ Starting)
  /\ UNCHANGED <<storeVars, tls, threadVars, starter, writeVars, toggles, seen>>

\* _session_id() finds or makes the session; a writer is made unless one
\* lives, and the listeners are left to a thread of their own.
StartSpawns ==
  /\ call.op = "spawn" /\ call' = Idle
  /\ session' = IF session = "none" THEN "active" ELSE session
  /\ IF current # None /\ writer[current].pc # "dead"
     THEN UNCHANGED <<writer, current>>
     ELSE /\ current' = starts
          /\ writer' = [writer EXCEPT ![starts].pc = "open"]
  /\ starter' = [starter EXCEPT ![starts].pc = "tls"]
  /\ UNCHANGED <<listed, enabled, flagVars, threadVars, eventDb, queue, packets, lost, countVars>>

\* stop(): the engine's event, then the state under its lock.
StopSignals ==
  /\ call = Idle /\ starts > 0 /\ status # "stopped"
  /\ stop' = TRUE /\ call' = [Idle EXCEPT !.op = "drain"]
  /\ status' = (IF running THEN "stopping" ELSE "stopped") /\ running' = FALSE
  /\ UNCHANGED <<storeVars, tls, threadVars, starter, writeVars, countVars>>

\* The starter's join gives up only on one that is blocked in the TLS setup
\* (openssl may run for 15 seconds) or in the listing; the loop polls the event.
Joined == \A r \in Runs : starter[r].pc \in {"none", "tls", "list", "dead"}

\* Then the roster is emptied at once and every thread of it told, before any
\* is joined.
StopDrains ==
  /\ call.op = "drain" /\ Joined /\ call' = [Idle EXCEPT !.op = "close"]
  /\ told' = told \cup {roster[l] : l \in {k \in Listeners : Present(k)}}
  /\ roster' = [l \in Listeners |-> None] /\ bound' = {}
  /\ UNCHANGED <<storeVars, flagVars, thread, open, starter, writeVars, countVars>>

\* After the joins, in time or not: the writer is forgotten, its database
\* closed, and the session marked.
StopCloses ==
  /\ call.op = "close" /\ call' = Idle
  /\ current' = None /\ eventDb' = None /\ status' = "stopped"
  /\ session' = IF session = "none" THEN session ELSE "stopped"
  /\ UNCHANGED <<listed, enabled, stop, running, tls, threadVars, starter, writer,
                 queue, packets, lost, countVars>>

-----------------------------------------------------------------------------
(* One listener: spawning, toggling, creating. *)

\* It refuses: the TLS context is missing.
Refused(id) == id \in Tls /\ ~tls

\* Under _listener_lock: the new thread is started and recorded, whatever
\* was recorded before.
Register(id) ==
  \E t \in Threads :
    /\ thread[t].st = "none" /\ \A u \in 1..(t - 1) : thread[u].st # "none"
    /\ thread' = [thread EXCEPT ![t] = [st |-> "new", id |-> id]]
    /\ roster' = [roster EXCEPT ![id] = t]

\* What set_listener_enabled(TRUE) and create_listener() do to a running engine.
SpawnFromCall(id) ==
  IF running /\ ~Present(id) /\ ~Refused(id)
  THEN call' = [Idle EXCEPT !.op = "register", !.id = id]
  ELSE call' = Idle

\* A failed start() leaves its listeners in the roster, some not bound yet.
Leftover == ~running /\ \E l \in Listeners : Present(l)

\* A call of an operator, once the row is written.
Toggles ==
  /\ Budget /\ toggles' = toggles + 1
  /\ overlap' = (overlap \/ Starting \/ Leftover)

EnableListener(id) ==
  /\ call = Idle /\ Toggles /\ id \in listed
  /\ enabled' = enabled \cup {id} /\ SpawnFromCall(id)
  /\ UNCHANGED <<listed, session, stop, running, status, tls, threadVars, starter, writeVars, starts, seen>>

CreateListener(id) ==
  /\ call = Idle /\ Toggles /\ id \in Custom \ listed
  /\ listed' = listed \cup {id} /\ enabled' = enabled \cup {id} /\ SpawnFromCall(id)
  /\ UNCHANGED <<session, stop, running, status, tls, threadVars, starter, writeVars, starts, seen>>

CallRegisters ==
  /\ call.op = "register" /\ Register(call.id) /\ call' = Idle
  /\ UNCHANGED <<storeVars, flagVars, bound, told, open, starter, writeVars, countVars>>

MutStopListener(id) ==
  /\ roster' = [roster EXCEPT ![id] = None]
  /\ UNCHANGED told

\* _stop_listener_thread(): out of the roster, then told; the join may give up.
StopListener(id) ==
  /\ roster' = [roster EXCEPT ![id] = None]
  /\ told' = told \cup (IF Present(id) THEN {roster[id]} ELSE {})

DisableListener(id) ==
  /\ call = Idle /\ Toggles /\ id \in listed
  /\ enabled' = enabled \ {id}
  /\ IF running THEN StopListener(id) ELSE UNCHANGED <<roster, told>>
  /\ UNCHANGED <<listed, session, flagVars, bound, thread, open, starter, writeVars, call, starts, seen>>

-----------------------------------------------------------------------------
(* _start_listeners(), on its own thread. *)

At(r, pc) == starter[r].pc = pc

\* The TLS context, which may need a certificate generated first, or fail.
StarterTls(r) ==
  /\ At(r, "tls") /\ starter' = [starter EXCEPT ![r].pc = "list"]
  /\ tls' \in BOOLEAN
  /\ UNCHANGED <<storeVars, stop, running, status, threadVars, writeVars, call, countVars>>

StarterLists(r) ==
  /\ At(r, "list")
  /\ starter' = [starter EXCEPT ![r].pc = "loop", ![r].todo = enabled]
  /\ UNCHANGED <<storeVars, flagVars, threadVars, writeVars, call, countVars>>

\* One round of the loop; the order of the listing does not matter here.
StarterTakes(r, id) ==
  /\ At(r, "loop") /\ ~stop /\ id \in starter[r].todo
  /\ starter' = [starter EXCEPT ![r].todo = @ \ {id},
                   ![r].id = IF Present(id) \/ Refused(id) THEN None ELSE id,
                   ![r].pc = IF Present(id) \/ Refused(id) THEN "loop" ELSE "register"]
  /\ UNCHANGED <<storeVars, flagVars, threadVars, writeVars, call, countVars>>

StarterRegisters(r) ==
  /\ At(r, "register") /\ Register(starter[r].id)
  /\ starter' = [starter EXCEPT ![r].pc = "loop", ![r].id = None]
  /\ UNCHANGED <<storeVars, flagVars, bound, told, open, writeVars, call, countVars>>

\* The loop is over, and so is the wait for a first bound listener.
StarterCounts(r) ==
  /\ At(r, "loop") /\ (starter[r].todo = {} \/ stop)
  /\ starter' = [starter EXCEPT ![r].pc = "judge", ![r].todo = {}, ![r].saw = (bound # {})]
  /\ UNCHANGED <<storeVars, flagVars, threadVars, writeVars, call, countVars>>

Judges(r) ==
  IF stop THEN UNCHANGED <<stop, running, status>>
  ELSE IF starter[r].saw
  THEN status' = "ready" /\ UNCHANGED <<stop, running>>
  ELSE stop' = TRUE /\ running' = FALSE /\ status' = "failed"

\* Under the state lock: the verdict on the whole start.
StarterJudges(r) ==
  /\ At(r, "judge") /\ Judges(r)
  /\ starter' = [starter EXCEPT ![r] = [NoStarter EXCEPT !.pc = "dead"]]
  /\ UNCHANGED <<storeVars, tls, threadVars, writeVars, call, countVars>>

-----------------------------------------------------------------------------
(* A listener thread and its connections. *)

\* Another thread of the same TCP port still holds its sockets.
Held(t) == \E u \in Threads \ {t} : thread[u] = [st |-> "serving", id |-> thread[t].id]

ListenerBinds(t) ==
  /\ thread[t].st = "new" /\ (thread[t].id \in Udp \/ ~Held(t))
  /\ thread' = [thread EXCEPT ![t].st = "serving"]
  /\ bound' = bound \cup {thread[t].id}
  /\ UNCHANGED <<storeVars, flagVars, roster, told, open, starter, writeVars, call, countVars>>

\* No address could be bound.
ListenerFails(t) ==
  /\ thread[t].st = "new"
  /\ thread' = [thread EXCEPT ![t] = Gone] /\ told' = told \ {t}
  /\ bound' = bound \ {thread[t].id}
  /\ UNCHANGED <<storeVars, flagVars, roster, open, starter, writeVars,
                 call, countVars>>

\* The loop ends on either event; the mark goes, whoever set it.
ListenerLeaves(t) ==
  /\ thread[t].st = "serving" /\ Stopping(t)
  /\ thread' = [thread EXCEPT ![t] = Gone] /\ told' = told \ {t}
  /\ bound' = bound \ {thread[t].id}
  /\ UNCHANGED <<storeVars, flagVars, roster, open, starter, writeVars, call, countVars>>

Arrives(t) == thread[t].st = "serving" /\ Budget /\ seen' = seen + 1

\* A client is accepted into a free slot, or turned away at once.
ListenerAccepts(t) ==
  /\ Arrives(t) /\ thread[t].id \notin Udp
  /\ open' = [open EXCEPT ![t] = IF @ < Slots THEN @ + 1 ELSE @]
  /\ lost' = IF open[t] < Slots THEN lost ELSE lost \cup {seen + 1}
  /\ UNCHANGED <<storeVars, flagVars, roster, bound, thread, told, starter, writer, current, eventDb,
                 queue, packets, call, starts, toggles, overlap>>

\* Events not yet accounted for: the conversations still open.
Unheard == (1..seen) \ (lost \cup packets \cup Range(queue)
                          \cup UNION {Range(writer[r].batch) : r \in Runs})

\* The slot is given back however the handler ended.
Ends(t, ok) == open' = [open EXCEPT ![t] = @ - 1]

\* A conversation ends: its one event is queued, or its handler raised.
ConversationEnds(t, ok) ==
  /\ open[t] > 0 /\ Unheard # {} /\ Ends(t, ok)
  /\ LET e == CHOOSE x \in Unheard : \A y \in Unheard : x <= y
     IN  IF ok THEN queue' = Append(queue, e) /\ UNCHANGED lost
         ELSE lost' = lost \cup {e} /\ UNCHANGED queue
  /\ UNCHANGED <<storeVars, flagVars, roster, bound, thread, told, starter, writer,
                 current, eventDb, packets, call, countVars>>

\* A datagram is answered, or not, and queued in the listener's own thread.
DatagramHandled(t) ==
  /\ Arrives(t) /\ thread[t].id \in Udp
  /\ queue' = Append(queue, seen + 1)
  /\ UNCHANGED <<storeVars, flagVars, threadVars, starter, writer, current, eventDb,
                 packets, lost, call, starts, toggles, overlap>>

-----------------------------------------------------------------------------
(* _event_writer() *)

\* _ensure_event_db(): the open connection, or a new one, or none at all.
WriterOpens(r, ok) ==
  /\ writer[r].pc = "open"
  /\ eventDb' = IF ok /\ eventDb = None THEN r ELSE eventDb
  /\ writer' = [writer EXCEPT ![r].pc = "loop", ![r].conn = IF ok THEN eventDb' ELSE None]
  /\ UNCHANGED <<storeVars, flagVars, threadVars, starter, current, queue,
                 packets, lost, call, countVars>>

WriterTakes(r) ==
  /\ writer[r].pc = "loop" /\ writer[r].batch = <<>>
  /\ \E n \in 1..BatchSize :
       /\ n <= Len(queue)
       /\ writer' = [writer EXCEPT ![r].batch = SubSeq(queue, 1, n)]
       /\ queue' = SubSeq(queue, n + 1, Len(queue))
  /\ UNCHANGED <<storeVars, flagVars, threadVars, starter, current, eventDb, packets, lost,
                 call, countVars>>

Stale(r) == writer[r].conn # None /\ writer[r].conn # eventDb

\* The head of the batch goes to both databases, is counted and broadcast.
WriterStores(r) ==
  /\ writer[r].batch # <<>> /\ ~Stale(r)
  /\ packets' = packets \cup {Head(writer[r].batch)}
  /\ writer' = [writer EXCEPT ![r].batch = Tail(@)]
  /\ UNCHANGED <<storeVars, flagVars, threadVars, starter, current, eventDb, queue, lost, call, countVars>>

\* A plausible slip: putting the whole batch back instead of giving it up.
MutDrops(r) ==
  /\ queue' = writer[r].batch \o queue
  /\ writer' = [writer EXCEPT ![r].batch = Tail(@)]
  /\ UNCHANGED lost

\* The except clause: the rest of the batch is given up with the item that failed.
Drops(r) ==
  /\ lost' = lost \cup Range(writer[r].batch)
  /\ writer' = [writer EXCEPT ![r].batch = <<>>]
  /\ UNCHANGED queue

\* Either database refuses the head; a connection that stop() closed always does.
WriterFails(r) ==
  /\ writer[r].batch # <<>> /\ Drops(r)
  /\ UNCHANGED <<storeVars, flagVars, threadVars, starter, current, eventDb, packets, call, countVars>>

WriterLeaves(r) ==
  /\ writer[r].pc = "loop" /\ writer[r].batch = <<>> /\ stop /\ queue = <<>>
  /\ writer' = [writer EXCEPT ![r] = [NoWriter EXCEPT !.pc = "dead"]]
  /\ UNCHANGED <<storeVars, flagVars, threadVars, starter, current, eventDb, queue, packets,
                 lost, call, countVars>>

-----------------------------------------------------------------------------
CallStep ==
  \/ StartBegins \/ StartSpawns
  \/ StopSignals \/ StopDrains \/ StopCloses
  \/ CallRegisters
  \/ \E id \in Listeners : EnableListener(id) \/ DisableListener(id) \/ CreateListener(id)

StarterStep ==
  \E r \in Runs :
    \/ StarterTls(r) \/ StarterLists(r) \/ StarterRegisters(r) \/ StarterCounts(r) \/ StarterJudges(r)
    \/ \E id \in Listeners : StarterTakes(r, id)

ListenerStep ==
  \E t \in Threads :
    \/ ListenerBinds(t) \/ ListenerFails(t) \/ ListenerLeaves(t)
    \/ ListenerAccepts(t) \/ DatagramHandled(t)
    \/ \E ok \in BOOLEAN : ConversationEnds(t, ok)

WriterStep ==
  \E r \in Runs :
    \/ \E ok \in BOOLEAN : WriterOpens(r, ok)
    \/ WriterTakes(r) \/ WriterStores(r) \/ WriterFails(r) \/ WriterLeaves(r)

Next == CallStep \/ StarterStep \/ ListenerStep \/ WriterStep

Spec == Init /\ [][Next]_vars

-----------------------------------------------------------------------------
\* Whoever still answers, with nothing telling it to stop, is the thread the
\* roster holds for an enabled listener, so that the next toggle or stop() can
\* reach it (_spawn_listener(), stop()); unless a toggle or a second start()
\* met a starter still at work, or a toggle what a failed start() left.
NobodyEscapes ==
  overlap \/ \A t \in Threads :
    thread[t].st = "serving" /\ ~Stopping(t) =>
      roster[thread[t].id] = t /\ thread[t].id \in enabled

\* Every connection and datagram is in exactly one place: open, queued, in a
\* writer's batch, stored, or given up; no event is stored twice, whichever
\* writers share the queue, and the slots taken are the conversations open.
EventsAddUp ==
  /\ LET waiting == FoldFunction(\o, queue, [r \in Runs |-> writer[r].batch])
     IN  IsInjective(waiting) /\ Range(waiting) \cap (packets \cup lost) = {}
  /\ packets \cap lost = {}
  /\ Cardinality(Unheard) = FoldFunction(+, 0, open)

\* The status tells the truth about the run: "ready" or "starting" only while
\* it runs, and "failed" only once every thread is told to leave
\* (_start_listeners() against stop()).
StatusIsTrue ==
  /\ status \in {"ready", "starting"} => running
  /\ status = "failed" => stop

\* stop(), _start_listeners() and the writers account for the run: no event is
\* in two places or stored twice, and the status is the one the threads have.
RunIsAccounted == EventsAddUp /\ StatusIsTrue
=============================================================================
