------------------------------ MODULE Sniffer -------------------------------
(***************************************************************************)
(* The life cycle of the capture engine (class Sniffer of                  *)
(* sniff4hound/sniffer.py): start(), stop(), restart() and the capture     *)
(* worker threads they create, one per interface and start.                *)
(*                                                                         *)
(* start() holds _state_lock from end to end and is one step.  stop() takes*)
(* the lock for one of its steps only, so two callers may interleave inside*)
(* it; `at' is where each caller stands.  The stop event is one object for *)
(* every generation of workers, and a join gives up after 0.8 s, so a      *)
(* worker may outlive the stop() that was meant for it.                    *)
(***************************************************************************)
EXTENDS Naturals, FiniteSets

CONSTANTS
  Interfaces,  \* the interfaces of the machine
  MaxStarts,   \* bound on the starts of the engine, over the whole behaviour
  MaxLate,     \* bound on the workers alive after the join meant for them
  NoWorker     \* no entry in _capture_ready

\* Who calls the engine: the runtime controller, under its own lock, on behalf
\* of an operator, and the resource guard, which does not take that lock.
Callers == {"operator", "guard"}

\* A capture thread is named by the start that created it and its interface.
Workers == (1..MaxStarts) \X Interfaces

ASSUME SnifferAssumption ==
  /\ IsFiniteSet(Interfaces) /\ Interfaces # {}
  /\ MaxStarts \in Nat /\ MaxLate \in Nat /\ NoWorker \notin Workers

VARIABLES
  available,   \* list_available_interfaces()
  selected,    \* _selected_interfaces
  ifaces,      \* state.interfaces: what the last start() set out to capture
  running,     \* state.running
  stopEvent,   \* _stop_event
  gen,         \* number of starts so far; the current cache has this number
  threads,     \* _threads
  worker,      \* where each capture thread stands in _capture_worker()
  ready,       \* _capture_ready
  startupErr,  \* the interfaces in _capture_startup_errors
  open,        \* the packet caches not closed, by the start that made them
  at           \* where each caller stands inside start() and stop()

snifferVars == <<available, selected, ifaces, running, stopEvent, gen, threads,
                 worker, ready, startupErr, open, at>>

Goto(c, place) == at' = [at EXCEPT ![c] = place]

\* thread.is_alive(): true until the thread function has returned.
Alive(w) == worker[w] \in {"open", "loop", "failed", "check", "ending"}

list_interfaces == IF selected # {} THEN selected ELSE available

\* snapshot()["ready_interfaces"]
ReadyInterfaces == {i \in Interfaces : ready[i] # NoWorker}

NoneReady == [i \in Interfaces |-> NoWorker]

SnifferInit ==
  /\ available = Interfaces /\ ifaces = {}
  /\ running = FALSE /\ stopEvent = FALSE /\ gen = 0 /\ threads = {}
  /\ worker = [w \in Workers |-> "none"]
  /\ ready = NoneReady /\ startupErr = {} /\ open = {}
  /\ at = [c \in Callers |-> "idle"]

-----------------------------------------------------------------------------
(* stop(), by caller c; "stopped" is its return. *)

RaiseStop(c) ==
  /\ at[c] = "raise"
  /\ stopEvent' = TRUE
  /\ Goto(c, "mark")
  /\ UNCHANGED <<available, selected, ifaces, running, gen, threads, worker,
                 ready, startupErr, open>>

MarkStopped(c) ==
  /\ at[c] = "mark"
  /\ running' = FALSE
  /\ ready' = NoneReady
  /\ Goto(c, "join")
  /\ UNCHANGED <<available, selected, ifaces, stopEvent, gen, threads, worker,
                 startupErr, open>>

\* Each join ends with its thread or after 0.8 s; then _threads is emptied.
JoinCapture(c) ==
  /\ at[c] = "join"
  /\ Cardinality({w \in Workers : Alive(w)}) <= MaxLate
  /\ threads' = {}
  /\ Goto(c, "close")
  /\ UNCHANGED <<available, selected, ifaces, running, stopEvent, gen, worker,
                 ready, startupErr, open>>

\* Mutant: stop() leaves the cache to the jobs.
MutCloseCache(c) ==
  /\ at[c] = "close"
  /\ Goto(c, "stopped")
  /\ UNCHANGED <<available, selected, ifaces, running, stopEvent, gen, threads,
                 worker, ready, startupErr, open>>

\* Closes whatever cache is current by now, and joins the pipeline jobs.
CloseCache(c) ==
  /\ at[c] = "close"
  /\ open' = open \ {gen}
  /\ Goto(c, "stopped")
  /\ UNCHANGED <<available, selected, ifaces, running, stopEvent, gen, threads,
                 worker, ready, startupErr>>

StopStep(c) == RaiseStop(c) \/ MarkStopped(c) \/ JoinCapture(c) \/ CloseCache(c)

-----------------------------------------------------------------------------
(* start(), by caller c; "started" is its return. *)

StartRefused(c) ==
  /\ at[c] = "start" /\ running
  /\ Goto(c, "started")
  /\ UNCHANGED <<available, selected, ifaces, running, stopEvent, gen, threads,
                 worker, ready, startupErr, open>>

\* Mutant: the stop event of the previous stop() is left raised.
MutStart(c) ==
  /\ at[c] = "start" /\ ~running /\ gen < MaxStarts
  /\ running' = TRUE
  /\ gen' = gen + 1
  /\ ifaces' = list_interfaces
  /\ threads' = {gen + 1} \X list_interfaces
  /\ worker' = [w \in Workers |-> IF w \in threads' THEN "open" ELSE worker[w]]
  /\ ready' = NoneReady /\ startupErr' = {}
  /\ open' = open \cup {gen + 1}
  /\ Goto(c, "started")
  /\ UNCHANGED <<available, selected, stopEvent>>

Start(c) ==
  /\ at[c] = "start" /\ ~running /\ gen < MaxStarts
  /\ stopEvent' = FALSE
  /\ running' = TRUE
  /\ gen' = gen + 1
  /\ ifaces' = list_interfaces
  /\ threads' = {gen + 1} \X list_interfaces
  /\ worker' = [w \in Workers |-> IF w \in threads' THEN "open" ELSE worker[w]]
  /\ ready' = NoneReady /\ startupErr' = {}
  /\ open' = open \cup {gen + 1}
  /\ Goto(c, "started")
  /\ UNCHANGED <<available, selected>>

-----------------------------------------------------------------------------
(* _capture_worker(), on thread w. *)

\* The socket is open and bound.
Bind(w) ==
  /\ worker[w] = "open"
  /\ worker' = [worker EXCEPT ![w] = "loop"]
  /\ ready' = [ready EXCEPT ![w[2]] = w]
  /\ UNCHANGED <<available, selected, ifaces, running, stopEvent, gen, threads,
                 startupErr, open, at>>

\* Bind failed, permission denied, or no socket.
BindFails(w) ==
  /\ worker[w] = "open"
  /\ worker' = [worker EXCEPT ![w] = "failed"]
  /\ startupErr' = startupErr \cup {w[2]}
  /\ UNCHANGED <<available, selected, ifaces, running, stopEvent, gen, threads,
                 ready, open, at>>

\* Mutant: the worker leaves its readiness behind.
MutUnreadyKeeps(w) ==
  /\ worker' = [worker EXCEPT ![w] = IF stopEvent THEN "ending" ELSE "check"]
  /\ UNCHANGED <<available, selected, ifaces, running, stopEvent, gen, threads,
                 ready, startupErr, open, at>>

\* _mark_capture_worker_stopped(), first part: a worker drops its own readiness
\* only, and has nothing more to say when a stop() is under way.
Unready(w) ==
  /\ ready' = [ready EXCEPT ![w[2]] = IF @ = w THEN NoWorker ELSE @]
  /\ worker' = [worker EXCEPT ![w] = IF stopEvent THEN "ending" ELSE "check"]
  /\ UNCHANGED <<available, selected, ifaces, running, stopEvent, gen, threads,
                 startupErr, open, at>>

\* The loop saw the stop event between two reads, or between two attempts to
\* reopen the socket.
SeesStop(w) == worker[w] = "loop" /\ stopEvent /\ Unready(w)

\* CAPTURE_REOPEN_ATTEMPTS reopens in a row have failed.
GivesUp(w) == worker[w] = "loop" /\ ~stopEvent /\ Unready(w)

StartupFailed(w) == worker[w] = "failed" /\ Unready(w)

\* Without another live capture thread the engine is not running any more.
LastOneOut(w) ==
  /\ worker[w] = "check"
  /\ worker' = [worker EXCEPT ![w] = "ending"]
  /\ running' = (running /\ \E v \in threads \ {w} : Alive(v))
  /\ UNCHANGED <<available, selected, ifaces, stopEvent, gen, threads, ready,
                 startupErr, open, at>>

ThreadEnds(w) ==
  /\ worker[w] = "ending"
  /\ worker' = [worker EXCEPT ![w] = "dead"]
  /\ UNCHANGED <<available, selected, ifaces, running, stopEvent, gen, threads,
                 ready, startupErr, open, at>>

WorkerStep(w) ==
  \/ Bind(w) \/ BindFails(w) \/ SeesStop(w) \/ GivesUp(w)
  \/ StartupFailed(w) \/ LastOneOut(w) \/ ThreadEnds(w)

\* An interface of the machine goes away; at least one remains.
InterfaceGone(i) ==
  /\ i \in available /\ available # {i}
  /\ available' = available \ {i}
  /\ UNCHANGED <<selected, ifaces, running, stopEvent, gen, threads, worker,
                 ready, startupErr, open, at>>

SnifferTypeOK ==
  /\ available \subseteq Interfaces /\ selected \subseteq Interfaces
  /\ ifaces \subseteq Interfaces /\ startupErr \subseteq Interfaces
  /\ running \in BOOLEAN /\ stopEvent \in BOOLEAN
  /\ gen \in 0..MaxStarts /\ open \subseteq 1..MaxStarts
  /\ threads \subseteq Workers
  /\ worker \in [Workers -> {"none", "open", "loop", "failed", "check",
                             "ending", "dead"}]
  /\ ready \in [Interfaces -> Workers \cup {NoWorker}]
  /\ at \in [Callers -> {"idle", "raise", "mark", "join", "close", "stopped",
                         "start", "started"}]
=============================================================================
