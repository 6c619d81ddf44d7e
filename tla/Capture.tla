------------------------------ MODULE Capture -------------------------------
(***************************************************************************)
(* Who drives the capture engine: the RuntimeController                    *)
(* (sniff4hound/runtime_controller.py), which runs one operator request at *)
(* a time under its lock, and the ResourceGuard                            *)
(* (sniff4hound/resource_guard.py), whose thread stops and starts the      *)
(* engine directly.  The process may crash; the interface selection is all *)
(* that the database keeps for the next one.                               *)
(***************************************************************************)
EXTENDS Sniffer

CONSTANTS
  Selections,  \* the selections an operator may ask for
  Kinds,       \* the resources with a limit: LIMIT_KINDS, those not off
  MaxCrashes   \* bound on crashes of the process

ASSUME CaptureAssumption ==
  Selections \subseteq SUBSET Interfaces /\ IsFiniteSet(Kinds) /\ MaxCrashes \in Nat

VARIABLES
  why,      \* the request the controller is serving
  prev,     \* previous_interfaces of the change under way, {} without one
  stored,   \* sniffer_interfaces in runtime_config
  update,   \* _interface_update["status"]
  over,     \* the guard's _over, up to TRIP_SAMPLES + 1
  paused,   \* _paused_by_guard
  overlap,  \* history: operator and guard were inside the engine at once
  crashes

ctlVars   == <<why, prev, stored, update>>
guardVars == <<over, paused>>
histVars  == <<overlap, crashes>>
vars == <<snifferVars, ctlVars, guardVars, histVars>>

TRIP_SAMPLES == 2
\* Above the limit; below it but not yet under resume_percent of it; under.
Levels == {"over", "near", "under"}

Init ==
  /\ SnifferInit
  /\ selected \in Selections /\ stored = selected
  /\ why = "none" /\ prev = {} /\ update = "none"
  /\ over = [k \in Kinds |-> 0] /\ paused = FALSE
  /\ overlap = FALSE /\ crashes = 0

\* Caller c starts a call on the engine at this place.
Enter(c, place) ==
  /\ at[c] = "idle"
  /\ Goto(c, place)
  /\ overlap' = (overlap \/ \E d \in Callers \ {c} : at[d] # "idle")

-----------------------------------------------------------------------------
(* RuntimeController: every request runs to its end under the lock. *)

StartEngine ==
  /\ Enter("operator", "start")
  /\ why' = "start"
  /\ UNCHANGED <<available, selected, ifaces, running, stopEvent, gen, threads,
                 worker, ready, startupErr, open, prev, stored, update,
                 guardVars, crashes>>

StopEngine ==
  /\ Enter("operator", "raise")
  /\ why' = "stop"
  /\ UNCHANGED <<available, selected, ifaces, running, stopEvent, gen, threads,
                 worker, ready, startupErr, open, prev, stored, update,
                 guardVars, crashes>>

\* set_engines(): only what is not as wanted is started or stopped.
SetEngines(on) ==
  /\ on # running
  /\ IF on THEN StartEngine ELSE StopEngine

\* set_mode(): the engine in focus is started, running or not, when capture
\* starts by itself; the other one, the honeypot, is left alone.
SetMode == StartEngine

\* Sniffer.set_interfaces(): an interface that is not there is refused.
SelectInterfaces(sel) == sel \subseteq available /\ selected' = sel

\* set_sniffer_interfaces() on an engine that is stopped, or has this selection.
SaveInterfaces(sel) ==
  /\ at["operator"] = "idle"
  /\ ~(running /\ sel # selected)
  /\ SelectInterfaces(sel)
  /\ stored' = sel
  /\ update' = IF sel # selected \/ update = "none"
               THEN IF running THEN "applied" ELSE "saved"
               ELSE update
  /\ UNCHANGED <<available, ifaces, running, stopEvent, gen, threads, worker,
                 ready, startupErr, open, at, why, prev, guardVars, histVars>>

\* Mutant: the new selection is stored before the restart is verified.
MutChangeInterfaces(sel) ==
  /\ Enter("operator", "raise")
  /\ sel \subseteq available /\ running /\ sel # selected
  /\ why' = "apply" /\ prev' = selected
  /\ selected' = sel
  /\ stored' = sel
  /\ UNCHANGED <<available, ifaces, running, stopEvent, gen, threads, worker,
                 ready, startupErr, open, update, guardVars, crashes>>

\* set_sniffer_interfaces() on a running engine: restart it and watch it.
ChangeInterfaces(sel) ==
  /\ Enter("operator", "raise")
  /\ running /\ sel # selected
  /\ why' = "apply" /\ prev' = selected
  /\ SelectInterfaces(sel)
  /\ UNCHANGED <<available, ifaces, running, stopEvent, gen, threads, worker,
                 ready, startupErr, open, stored, update, guardVars, crashes>>

\* stop() has returned; a restart goes on to start().
StopReturns ==
  /\ at["operator"] = "stopped"
  /\ Goto("operator", IF why = "stop" THEN "idle" ELSE "start")
  /\ why' = IF why = "stop" THEN "none" ELSE why
  /\ UNCHANGED <<available, selected, ifaces, running, stopEvent, gen, threads,
                 worker, ready, startupErr, open, prev, stored, update,
                 guardVars, histVars>>

StartReturns ==
  /\ at["operator"] = "started" /\ why = "start"
  /\ Goto("operator", "idle") /\ why' = "none"
  /\ UNCHANGED <<available, selected, ifaces, running, stopEvent, gen, threads,
                 worker, ready, startupErr, open, prev, stored, update,
                 guardVars, histVars>>

\* _sniffer_failure() of a snapshot.
Failure == startupErr # {} \/ ~running \/ \A w \in threads : ~Alive(w)

Verifying == at["operator"] = "started" /\ why \in {"apply", "rollback"}

\* Mutant: the readiness of the interfaces is not awaited.
MutVerifyPasses ==
  /\ Verifying /\ ~Failure
  /\ Goto("operator", "idle") /\ why' = "none"
  /\ IF why = "apply"
     THEN stored' = selected /\ update' = "applied"
     ELSE UNCHANGED stored /\ update' = "rolled_back"
  /\ prev' = {}
  /\ UNCHANGED <<available, selected, ifaces, running, stopEvent, gen, threads,
                 worker, ready, startupErr, open, guardVars, histVars>>

\* The window ends with every interface ready: the change is applied, or what
\* was captured before it is back.
VerifyPasses ==
  /\ Verifying /\ ~Failure /\ ReadyInterfaces = ifaces /\ ifaces # {}
  /\ Goto("operator", "idle") /\ why' = "none"
  /\ IF why = "apply"
     THEN stored' = selected /\ update' = "applied"
     ELSE UNCHANGED stored /\ update' = "rolled_back"
  /\ prev' = {}
  /\ UNCHANGED <<available, selected, ifaces, running, stopEvent, gen, threads,
                 worker, ready, startupErr, open, guardVars, histVars>>

\* A poll sees a failure, or the window ends before every interface is ready.
VerifyFails ==
  /\ Verifying /\ (Failure \/ ReadyInterfaces # ifaces)
  /\ IF why = "apply" /\ prev \subseteq available
     THEN /\ selected' = prev /\ UNCHANGED prev
          /\ Goto("operator", "raise") /\ why' = "rollback"
          /\ UNCHANGED update
     ELSE /\ Goto("operator", "idle") /\ why' = "none"
          /\ update' = "rollback_failed" /\ prev' = {}
          /\ UNCHANGED selected
  /\ UNCHANGED <<available, ifaces, running, stopEvent, gen, threads, worker,
                 ready, startupErr, open, stored, guardVars, histVars>>

-----------------------------------------------------------------------------
(* ResourceGuard: one sample at a time, on its own thread. *)

Count(level) ==
  [k \in Kinds |-> IF level[k] # "over" THEN 0
                   ELSE IF over[k] > TRIP_SAMPLES THEN over[k] ELSE over[k] + 1]

Exceeds(level) == \E k \in Kinds : Count(level)[k] = TRIP_SAMPLES

\* The sample on which a limit is exceeded for the second time in a row.
Trip(level) ==
  /\ ~paused /\ Exceeds(level)
  /\ Enter("guard", "raise")
  /\ paused' = TRUE /\ over' = Count(level)
  /\ UNCHANGED <<available, selected, ifaces, running, stopEvent, gen, threads,
                 worker, ready, startupErr, open, ctlVars, crashes>>

\* Every limit is back under the resume threshold and the cooldown is over.
Resume(level) ==
  /\ paused /\ \A k \in Kinds : level[k] = "under"
  /\ Enter("guard", "start")
  /\ paused' = FALSE /\ over' = Count(level)
  /\ UNCHANGED <<available, selected, ifaces, running, stopEvent, gen, threads,
                 worker, ready, startupErr, open, ctlVars, crashes>>

\* Any other sample; while paused, also one taken during the cooldown.
Watch(level) ==
  /\ at["guard"] = "idle"
  /\ paused \/ ~Exceeds(level)
  /\ over' = Count(level)
  /\ UNCHANGED <<snifferVars, ctlVars, paused, histVars>>

GuardReturns ==
  /\ at["guard"] \in {"stopped", "started"}
  /\ Goto("guard", "idle")
  /\ UNCHANGED <<available, selected, ifaces, running, stopEvent, gen, threads,
                 worker, ready, startupErr, open, ctlVars, guardVars, histVars>>

-----------------------------------------------------------------------------
\* The process dies, its threads with it.  The next controller reads the stored
\* selection, or clears it if one of its interfaces is gone; the next guard
\* forgets the pause.
Crash ==
  /\ crashes < MaxCrashes
  /\ crashes' = crashes + 1
  /\ stored' = IF stored \subseteq available THEN stored ELSE {}
  /\ selected' = stored'
  /\ ifaces' = {} /\ running' = FALSE /\ stopEvent' = FALSE /\ threads' = {}
  /\ worker' = [w \in Workers |->
                  IF worker[w] = "none" THEN "none" ELSE "dead"]
  /\ ready' = NoneReady /\ startupErr' = {} /\ open' = {}
  /\ at' = [c \in Callers |-> "idle"]
  /\ why' = "none" /\ prev' = {} /\ update' = "none"
  /\ over' = [k \in Kinds |-> 0] /\ paused' = FALSE
  /\ overlap' = FALSE
  /\ UNCHANGED <<available, gen>>

\* A step of the engine itself.
EngineStep ==
  /\ \/ \E c \in Callers : StopStep(c) \/ StartRefused(c) \/ Start(c)
     \/ \E w \in Workers : WorkerStep(w)
     \/ \E i \in Interfaces : InterfaceGone(i)
  /\ UNCHANGED <<ctlVars, guardVars, histVars>>

ControllerStep ==
  \/ StartEngine \/ StopEngine \/ SetMode \/ StopReturns \/ StartReturns
  \/ \E on \in BOOLEAN : SetEngines(on)
  \/ \E sel \in Selections : SaveInterfaces(sel) \/ ChangeInterfaces(sel)
  \/ VerifyPasses \/ VerifyFails

GuardStep ==
  \/ \E level \in [Kinds -> Levels] : Trip(level) \/ Resume(level) \/ Watch(level)
  \/ GuardReturns

Next == EngineStep \/ ControllerStep \/ GuardStep \/ Crash

Spec == Init /\ [][Next]_vars

-----------------------------------------------------------------------------
(* Properties *)

\* Every variable keeps its type.
TypeOK ==
  /\ SnifferTypeOK
  /\ why \in {"none", "start", "stop", "apply", "rollback"}
  /\ prev \subseteq Interfaces /\ stored \subseteq Interfaces
  /\ update \in {"none", "saved", "applied", "rolled_back", "rollback_failed"}
  /\ over \in [Kinds -> 0..(TRIP_SAMPLES + 1)] /\ paused \in BOOLEAN
  /\ overlap \in BOOLEAN /\ crashes \in 0..MaxCrashes

\* An interface is reported ready only by a worker of that interface that has
\* bound its socket and not yet left its loop, however many restarts its
\* predecessors outlived.
ReadyIsAlive ==
  \A i \in ReadyInterfaces :
    ready[i][2] = i /\ worker[ready[i]] = "loop"

\* A worker that outlived a restart and exits late cannot clear the readiness
\* of the worker that has its interface now.
ReadinessKept ==
  [][\A i \in Interfaces :
       ready[i] # NoWorker /\ ready'[i] = NoWorker
         => worker'[ready[i]] # "loop" \/ ~running' \/ gen' # gen]_vars

\* While operator and guard never were inside the engine at once, a running
\* engine is one whose workers have not been told to stop, whose cache is open
\* and whose live workers are all known to the next stop().
RunningIsSound ==
  ~overlap /\ running /\ at["operator"] # "mark" /\ at["guard"] # "mark" =>
    /\ ~stopEvent /\ gen \in open
    /\ \A w \in Workers : w[1] = gen /\ Alive(w) => w \in threads

\* Likewise, when stop() returns, the engine is stopped: every worker left is
\* told to stop, and the cache and the thread list are gone.
StopIsComplete ==
  \A c \in Callers :
    ~overlap /\ at[c] = "stopped" =>
      ~running /\ stopEvent /\ gen \notin open /\ threads = {}

\* Unless an interface has gone away, what the database holds between requests
\* is what the engine captures, whichever restart or rollback failed.
SelectionIsStored ==
  at["operator"] = "idle" /\ available = Interfaces => selected = stored

\* A change that was reported as applied, or as rolled back, was verified on the
\* interfaces asked for, or on those captured before: each has a worker that
\* bound it, and no other interface has one, whatever the guard did meanwhile.
ReportIsVerified ==
  [][Verifying /\ why' = "none" /\ update' \in {"applied", "rolled_back"}
       => selected = {} \/ ReadyInterfaces = selected]_vars

\* A running engine has a live capture thread behind it.
RunningIsBacked ==
  running => \/ \E w \in Workers : Alive(w)
             \/ \E c \in Callers : at[c] = "mark"
=============================================================================
