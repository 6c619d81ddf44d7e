----------------------------- MODULE Supervisor -----------------------------
(***************************************************************************)
(* The two processes of the split deployment: main() of manage.py, which   *)
(* serves the web interface; the privileged capture child it launches; the *)
(* supervisor thread that replaces a child that died; the file that hands  *)
(* the child the secret of the link; and the way down.  What is said over  *)
(* the link is CaptureLink's; here it only stands, or is latched off by a  *)
(* child with another secret.                                              *)
(***************************************************************************)
EXTENDS Integers, Sequences, FiniteSets, Lists

CONSTANTS
  MaxRestarts,  \* CAPTURE_RESTART_MAX_ATTEMPTS
  Window,       \* CAPTURE_RESTART_WINDOW_SECONDS
  MaxTime,      \* bound on the clock
  MaxSpawns,    \* bound on the children launched
  NoChild       \* no handle, no connection

Children == 1..MaxSpawns

ASSUME SupervisorAssumption ==
  /\ MaxRestarts \in Nat \ {0} /\ Window \in Nat /\ MaxTime \in Nat
  /\ MaxSpawns \in Nat /\ NoChild \notin Children

VARIABLES
  main,       \* where main() stands
  handle,     \* the Popen handle main() will stop, then the supervisor's _process
  requested,  \* request_process_shutdown() was called
  sup,        \* where the supervisor thread stands
  supStop,    \* its _stop_event
  process,    \* its _process
  fresh,      \* the child it has launched and not recorded yet
  restarts,   \* its _restarts
  tokenFile,  \* the token file: "none", "secret", "partial"
  child,      \* the life of each child
  childToken, \* the secret each child serves with
  spawned,    \* children launched so far
  link,       \* the child the IpcClient is connected to
  latched,    \* its _auth_failed
  closed,     \* close() was called on it
  clock,
  attempts,   \* history: every time a restart was attempted
  raced       \* history: shutdown read the handle while a restart was under way

mainVars  == <<main, handle, requested>>
supVars   == <<sup, supStop, process, fresh, restarts>>
childVars == <<child, childToken, spawned>>
linkVars  == <<link, latched, closed>>
histVars  == <<attempts, raced>>
supervisorVars == <<mainVars, supVars, tokenFile, childVars, linkVars, clock, histVars>>

\* A process whose poll() is None.
Lives(c) == c \in Children /\ child[c] \in {"boot", "read", "serve", "stopping"}

\* Main has left the way up: it is in its finally clause, or past it.
WayDown == {"down", "handle", "closing", "stop", "wait", "leave", "exited"}

SupervisorInit ==
  /\ main = "begin" /\ handle = NoChild /\ requested = FALSE
  /\ sup = "off" /\ supStop = FALSE /\ process = NoChild /\ fresh = NoChild
  /\ restarts = <<>> /\ tokenFile = "none"
  /\ child = [c \in Children |-> "none"]
  /\ childToken = [c \in Children |-> "none"] /\ spawned = 0
  /\ link = NoChild /\ latched = FALSE /\ closed = FALSE
  /\ clock = 0 /\ attempts = <<>> /\ raced = FALSE

-----------------------------------------------------------------------------
(* The secret and the launch. *)

\* write_secret_file(): create anew, or fail with or without a file left.
WriteToken(ok) ==
  IF ok THEN tokenFile' = "secret" ELSE tokenFile' \in {"none", "partial"}

\* _spawn_capture_child(): the child inherits the path of the token file.
Spawn ==
  /\ spawned < MaxSpawns
  /\ spawned' = spawned + 1
  /\ child' = [child EXCEPT ![spawned + 1] = "boot"]
  /\ UNCHANGED childToken

\* capture_service.main() resolves its token: without a file it makes its own.
ReadsToken(c) ==
  /\ child[c] = "boot"
  /\ child' = [child EXCEPT ![c] = "read"]
  /\ childToken' = [childToken EXCEPT ![c] =
                      IF tokenFile = "secret" THEN "secret" ELSE "own"]
  /\ UNCHANGED <<mainVars, supVars, tokenFile, spawned, linkVars, clock, histVars>>

\* The store, the engines and the guard are up and the server listens.
Listens(c) ==
  /\ child[c] = "read"
  /\ child' = [child EXCEPT ![c] = "serve"]
  /\ UNCHANGED <<mainVars, supVars, tokenFile, childToken, spawned, linkVars,
                 clock, histVars>>

\* The child's own end: killed from outside, or out of memory, or done with
\* its shutdown. The client's reader notices at once.
ChildDies(c) ==
  /\ Lives(c)
  /\ child' = [child EXCEPT ![c] = "dead"]
  /\ link' = IF link = c THEN NoChild ELSE link
  /\ UNCHANGED <<mainVars, supVars, tokenFile, childToken, spawned, latched, closed,
                 clock, histVars>>

\* SIGINT of the terminal reaches the child too, and it starts to shut down.
ChildInterrupted(c) ==
  /\ child[c] = "serve"
  /\ child' = [child EXCEPT ![c] = "stopping"]
  /\ UNCHANGED <<mainVars, supVars, tokenFile, childToken, spawned, linkVars,
                 clock, histVars>>

-----------------------------------------------------------------------------
(* The client of the link. *)

\* The child answers on the socket, until its server is stopped.
Reachable(c) == child[c] \in {"serve", "stopping"}

\* connect() succeeds, or is rejected and latches for good, or is late.
ConnectsTo(c) ==
  /\ ~latched /\ ~closed /\ link = NoChild /\ Reachable(c)
  /\ IF childToken[c] = "secret"
     THEN link' = c /\ UNCHANGED latched
     ELSE latched' = TRUE /\ UNCHANGED link
  /\ UNCHANGED closed

\* Any call over the link attaches it on demand.
Dial ==
  /\ main \in {"serve", "down", "handle", "closing"}
  /\ \E c \in Children : ConnectsTo(c)
  /\ UNCHANGED <<mainVars, supVars, tokenFile, childVars, clock, histVars>>

-----------------------------------------------------------------------------
(* main(): the way up. *)

Moves(from, to) == main = from /\ main' = to

\* Under _capture_start_lock: clear the stale socket, write the secret.
MainWritesToken ==
  /\ \E ok \in BOOLEAN :
       Moves("begin", IF ok THEN "spawn" ELSE "down") /\ WriteToken(ok)
  /\ UNCHANGED <<handle, requested, supVars, childVars, linkVars, clock, histVars>>

MainSpawns ==
  /\ Moves("spawn", "poll")
  /\ Spawn /\ handle' = spawned + 1
  /\ UNCHANGED <<requested, supVars, tokenFile, linkVars, clock, histVars>>

MainSpawnFails ==
  /\ Moves("spawn", "down")
  /\ UNCHANGED <<handle, requested, supVars, tokenFile, childVars, linkVars, clock,
                 histVars>>

\* 0.2 s later the child has to be there still.
MainPolls ==
  /\ Moves("poll", IF Lives(handle) THEN "connect" ELSE "down")
  /\ UNCHANGED <<handle, requested, supVars, tokenFile, childVars, linkVars, clock,
                 histVars>>

MainConnects ==
  /\ \E c \in Children : ConnectsTo(c)
  /\ Moves("connect", IF link' = NoChild THEN "down" ELSE "clean")
  /\ UNCHANGED <<handle, requested, supVars, tokenFile, childVars, clock, histVars>>

\* The connect timeout passes, or Ctrl+C is pressed on the way up.
MainGivesUp ==
  /\ main \in {"begin", "spawn", "poll", "connect", "clean"} /\ main' = "down"
  /\ UNCHANGED <<handle, requested, supVars, tokenFile, childVars, linkVars, clock,
                 histVars>>

\* The secret is removed, and the supervisor takes over the child.
MainServes ==
  /\ Moves("clean", "serve")
  /\ tokenFile' = "none" /\ sup' = "wait" /\ process' = handle
  /\ UNCHANGED <<handle, requested, supStop, fresh, restarts, childVars, linkVars,
                 clock, histVars>>

-----------------------------------------------------------------------------
(* main(): the way down. *)

\* /api/app/shutdown marks the process, then signals it after a delay.
RequestShutdown ==
  /\ main = "serve" /\ ~requested /\ requested' = TRUE
  /\ UNCHANGED <<main, handle, supVars, tokenFile, childVars, linkVars, clock, histVars>>

\* The signal, Ctrl+C or an error ends app.run().
Interrupted ==
  /\ Moves("serve", "down")
  /\ UNCHANGED <<handle, requested, supVars, tokenFile, childVars, linkVars, clock,
                 histVars>>

StopsSupervisor ==
  /\ Moves("down", "handle") /\ supStop' = TRUE
  /\ UNCHANGED <<handle, requested, sup, process, fresh, restarts, tokenFile, childVars,
                 linkVars, clock, histVars>>

\* The handle the supervisor holds is the one to stop.
MutReadsHandle ==
  /\ Moves("handle", "closing")
  /\ raced' = (sup \in {"check", "write", "spawn", "assign"})
  /\ UNCHANGED <<handle, requested, supVars, tokenFile, childVars, linkVars, clock,
                 attempts>>

ReadsHandle ==
  /\ Moves("handle", "closing")
  /\ handle' = IF sup = "off" THEN handle ELSE process
  /\ raced' = (sup \in {"check", "write", "spawn", "assign"})
  /\ UNCHANGED <<requested, supVars, tokenFile, childVars, linkVars, clock, attempts>>

\* shutdown_capture(): the child is asked to shut down over the link, if one
\* stands or can be made, and the client is closed.
ClosesLink ==
  /\ Moves("closing", "stop")
  /\ closed' = TRUE /\ link' = NoChild
  /\ \/ child' = [c \in Children |->
                    IF child[c] = "serve" /\ c = link THEN "stopping" ELSE child[c]]
     \/ UNCHANGED child
  /\ UNCHANGED <<handle, requested, supVars, tokenFile, childToken, spawned, latched,
                 clock, histVars>>

\* _stop_capture_child(): SIGTERM; a child that has no handler yet just dies.
Terminates ==
  /\ Moves("stop", IF Lives(handle) THEN "wait" ELSE "leave")
  /\ child' = IF Lives(handle)
              THEN [child EXCEPT ![handle] = IF @ = "serve" THEN "stopping"
                                             ELSE IF @ = "stopping" THEN @ ELSE "dead"]
              ELSE child
  /\ UNCHANGED <<handle, requested, supVars, tokenFile, childToken, spawned, linkVars,
                 clock, histVars>>

\* It has exited in time, or it is killed.
Reaps ==
  /\ Moves("wait", "leave")
  /\ child' = [child EXCEPT ![handle] = "dead"]
  /\ UNCHANGED <<handle, requested, supVars, tokenFile, childToken, spawned, linkVars,
                 clock, histVars>>

\* The secret is removed once more and the process ends, its threads with it.
Exits ==
  /\ Moves("leave", "exited")
  /\ tokenFile' = "none" /\ requested' = FALSE /\ sup' = "gone"
  /\ UNCHANGED <<handle, supStop, process, fresh, restarts, childVars, linkVars, clock,
                 histVars>>

-----------------------------------------------------------------------------
(* The supervisor thread. *)

Does(from, to) == sup = from /\ sup' = to

\* _run(): the wait between two checks ends, by itself or by stop().
SupWakes ==
  /\ Does("wait", IF supStop THEN "gone" ELSE "check")
  /\ UNCHANGED <<mainVars, supStop, process, fresh, restarts, tokenFile, childVars,
                 linkVars, clock, histVars>>

\* check_once(): nothing to do while the child lives, nor on the way down.
SupChecks ==
  /\ Lives(process) \/ requested
  /\ Does("check", IF Lives(process) THEN "wait" ELSE "gone")
  /\ UNCHANGED <<mainVars, supStop, process, fresh, restarts, tokenFile, childVars,
                 linkVars, clock, histVars>>

\* The restarts inside the window.
Recent == Kept(restarts, {t \in Nat : t > clock - Window})

\* The window has had its share of restarts.
Spent == Len(Recent) >= MaxRestarts

\* _restart(): the budget of the window is spent on every attempt.
SupBudgets ==
  /\ sup = "check" /\ ~Lives(process) /\ ~requested
  /\ IF Spent
     THEN sup' = "gone" /\ restarts' = Recent /\ UNCHANGED attempts
     ELSE /\ sup' = "write" /\ restarts' = Append(Recent, clock)
          /\ attempts' = Append(attempts, clock)
  /\ UNCHANGED <<mainVars, supStop, process, fresh, tokenFile, childVars, linkVars, clock,
                 raced>>

\* Without the secret on disk no child is launched.
MutSupWrites ==
  /\ Does("write", "spawn")
  /\ UNCHANGED <<mainVars, supStop, process, fresh, restarts, tokenFile, childVars,
                 linkVars, clock, histVars>>

SupWrites ==
  /\ \E ok \in BOOLEAN : Does("write", IF ok THEN "spawn" ELSE "gone") /\ WriteToken(ok)
  /\ UNCHANGED <<mainVars, supStop, process, fresh, restarts, childVars, linkVars, clock,
                 histVars>>

SupSpawns ==
  /\ Does("spawn", "assign")
  /\ Spawn /\ fresh' = spawned + 1
  /\ UNCHANGED <<mainVars, supStop, process, restarts, tokenFile, linkVars, clock, histVars>>

\* A fork that failed is tried again at the next check, out of the budget.
SupSpawnFails ==
  /\ Does("spawn", "wait")
  /\ UNCHANGED <<mainVars, supStop, process, fresh, restarts, tokenFile, childVars,
                 linkVars, clock, histVars>>

MutSupAssigns ==
  /\ Does("assign", "connect") /\ fresh' = NoChild
  /\ UNCHANGED <<mainVars, supStop, process, restarts, tokenFile, childVars, linkVars,
                 clock, histVars>>

SupAssigns ==
  /\ Does("assign", "connect") /\ process' = fresh /\ fresh' = NoChild
  /\ UNCHANGED <<mainVars, supStop, restarts, tokenFile, childVars, linkVars, clock,
                 histVars>>

\* Re-attaching fails after a while, and then the supervisor goes on without.
SupReconnects ==
  /\ Does("connect", "remove")
  /\ UNCHANGED linkVars \/ \E c \in Children : ConnectsTo(c)
  /\ UNCHANGED <<mainVars, supStop, process, fresh, restarts, tokenFile, childVars, clock,
                 histVars>>

SupRemoves ==
  /\ Does("remove", "wait") /\ tokenFile' = "none"
  /\ UNCHANGED <<mainVars, supStop, process, fresh, restarts, childVars, linkVars, clock,
                 histVars>>

-----------------------------------------------------------------------------
Tick ==
  /\ clock < MaxTime /\ main # "exited" /\ clock' = clock + 1
  /\ UNCHANGED <<mainVars, supVars, tokenFile, childVars, linkVars, histVars>>

ChildStep(c) == ReadsToken(c) \/ Listens(c) \/ ChildDies(c) \/ ChildInterrupted(c)

MainStep ==
  \/ MainWritesToken \/ MainSpawns \/ MainSpawnFails \/ MainPolls \/ MainConnects
  \/ MainGivesUp \/ MainServes \/ RequestShutdown \/ Interrupted \/ StopsSupervisor
  \/ ReadsHandle \/ ClosesLink \/ Terminates \/ Reaps \/ Exits

SupStep ==
  \/ SupWakes \/ SupChecks \/ SupBudgets \/ SupWrites \/ SupSpawns \/ SupSpawnFails
  \/ SupAssigns \/ SupReconnects \/ SupRemoves

SupervisorNext == MainStep \/ SupStep \/ Dial \/ Tick \/ \E c \in Children : ChildStep(c)

SupervisorSpec == SupervisorInit /\ [][SupervisorNext]_supervisorVars

-----------------------------------------------------------------------------
(* Properties *)

\* The two processes, the token file, the handles and the link keep their types.
TypeOK ==
  /\ main \in {"begin", "spawn", "poll", "connect", "clean", "serve"} \cup WayDown
  /\ handle \in Children \cup {NoChild} /\ requested \in BOOLEAN
  /\ sup \in {"off", "wait", "check", "write", "spawn", "assign", "connect", "remove", "gone"}
  /\ supStop \in BOOLEAN /\ process \in Children \cup {NoChild}
  /\ fresh \in Children \cup {NoChild}
  /\ restarts \in Seq(Nat) /\ Len(restarts) <= MaxRestarts
  /\ tokenFile \in {"none", "secret", "partial"}
  /\ child \in [Children -> {"none", "boot", "read", "serve", "stopping", "dead"}]
  /\ childToken \in [Children -> {"none", "secret", "own"}] /\ spawned \in 0..MaxSpawns
  /\ link \in Children \cup {NoChild} /\ latched \in BOOLEAN /\ closed \in BOOLEAN
  /\ clock \in Nat /\ attempts \in Seq(Nat) /\ raced \in BOOLEAN

\* Once main() is gone neither a privileged child nor the secret is left
\* behind, unless shutdown read the handle in the middle of a restart.
NoOrphan ==
  main = "exited" /\ ~raced =>
    tokenFile = "none" /\ \A c \in Children : ~Lives(c)

\* While somebody waits for a child to answer, that child has the secret or
\* will still find it: only a child given up on can come up with its own, and
\* latch the client off.
TokenHandover ==
  \A c \in Children :
    /\ Lives(c) /\ childToken[c] = "own" =>
         ~ \/ main \in {"poll", "connect"} /\ c = handle
           \/ sup = "assign" /\ c = fresh
           \/ sup = "connect" /\ c = process
    /\ link = c => childToken[c] = "secret" /\ Lives(c)

\* The abstract life of the child: one at a time, within the budget.
Lease == INSTANCE ChildLease WITH
  Processes <- Children, alive <- {c \in Children : Lives(c)}, restarts <- attempts

\* Supervision implements its promise: a capture process is launched only
\* when none is alive, and replaced no more often than the window allows.
LeaseKept == Lease!Spec

\* The claim of the shutdown path: no live child is left orphaned as root.
NobodyOrphaned == main = "exited" => \A c \in Children : ~Lives(c)
=============================================================================
