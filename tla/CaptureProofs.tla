--------------------------- MODULE CaptureProofs ----------------------------
(***************************************************************************)
(* Proofs about Capture, the engine and who drives it, for any interfaces, *)
(* any limits and any number of starts, late workers and crashes, and      *)
(* about Realtime, which takes an engine's events to the browsers, for any *)
(* clients and any lengths of the queues.                                  *)
(*                                                                         *)
(* Three arguments share one invariant.  The engine: a worker that is not  *)
(* of a start made so far does not exist, and while operator and guard     *)
(* were never inside at once, where the one caller stands says how far     *)
(* stop() has come.  The selection: what the request under way still owes  *)
(* the database.  The report: once stop() of a change marked the engine    *)
(* stopped, whoever starts it again starts what is selected.               *)
(*                                                                         *)
(* Of Realtime, that a client misses nothing needs that a client the hub   *)
(* feeds is up to date, and that it gets one stale snapshot at most needs  *)
(* what the list in the pusher's hand says of a client that left its feed. *)
(***************************************************************************)
EXTENDS Capture, Realtime, ListProofs

\* What a step of the engine itself leaves alone.
DriversKept == UNCHANGED <<ctlVars, guardVars, histVars>>

\* A worker comes with the start that made it.
WorkerInv == \A w \in Workers : w[1] > gen => worker[w] = "none"

\* Where the request of the operator stands, by what it is for.
RequestInv ==
  /\ at["operator"] = "idle" <=> why = "none"
  /\ at["operator"] \in {"raise", "mark", "join", "close", "stopped"} =>
       why \in {"stop", "apply", "rollback"}
  /\ at["operator"] \in {"start", "started"} =>
       why \in {"start", "apply", "rollback"}

\* What the database holds: the selection, or, while a change is tried, the
\* one it will be rolled back to.
StoredInv ==
  available = Interfaces =>
    /\ why # "apply" => selected = stored
    /\ why = "apply" => prev = stored

\* With one caller at a time inside the engine, how far its stop() has come.
SoleInv ==
  ~overlap =>
    /\ at["operator"] = "idle" \/ at["guard"] = "idle"
    /\ \A c \in Callers :
         /\ at[c] = "mark" => stopEvent
         /\ at[c] \in {"join", "close", "stopped"} => ~running /\ stopEvent
         /\ at[c] \in {"close", "stopped"} => threads = {}
         /\ at[c] = "stopped" => gen \notin open

\* Since the engine was marked stopped for a change, it was started, if at
\* all, on what is selected now.
ChangeInv ==
  why \in {"apply", "rollback"} /\ selected # {} =>
    /\ at["operator"] \in {"join", "close", "stopped", "start"} /\ running =>
         ifaces = selected
    /\ at["operator"] = "started" => ifaces = selected

IInv ==
  /\ TypeOK /\ ReadyIsAlive /\ WorkerInv /\ RequestInv /\ StoredInv
  /\ SoleInv /\ RunningIsSound /\ ChangeInv

-----------------------------------------------------------------------------
\* Every step is one of these; the controller's other requests are a start or a
\* stop of the engine.
LEMMA NextCases ==
  ASSUME [Next]_vars
  PROVE  \/ /\ DriversKept
            /\ \/ \E c \in Callers :
                    \/ RaiseStop(c) \/ MarkStopped(c) \/ JoinCapture(c)
                    \/ CloseCache(c) \/ StartRefused(c) \/ Start(c)
               \/ \E w \in Workers :
                    \/ Bind(w) \/ BindFails(w) \/ SeesStop(w) \/ GivesUp(w)
                    \/ StartupFailed(w) \/ LastOneOut(w) \/ ThreadEnds(w)
               \/ \E i \in Interfaces : InterfaceGone(i)
         \/ StartEngine \/ StopEngine \/ StopReturns \/ StartReturns
         \/ \E sel \in Selections :
              SaveInterfaces(sel) \/ ChangeInterfaces(sel)
         \/ VerifyPasses \/ VerifyFails
         \/ \E level \in [Kinds -> Levels] :
              Trip(level) \/ Resume(level) \/ Watch(level)
         \/ GuardReturns \/ Crash
         \/ UNCHANGED vars
  BY DEF Next, EngineStep, DriversKept, StopStep, WorkerStep, ControllerStep,
    SetMode, SetEngines, GuardStep

\* Every step keeps the types.
LEMMA StepType ==
  ASSUME IInv, [Next]_vars PROVE TypeOK'
  <1> USE SnifferAssumption, CaptureAssumption DEF IInv, TypeOK, SnifferTypeOK
  <1>1. ASSUME NEW c \in Callers, RaiseStop(c), DriversKept PROVE TypeOK'
    BY <1>1 DEF RaiseStop, Goto, DriversKept, ctlVars, guardVars, histVars
  <1>2. ASSUME NEW c \in Callers, MarkStopped(c), DriversKept PROVE TypeOK'
    BY <1>2 DEF MarkStopped, NoneReady, Goto, DriversKept, ctlVars, guardVars,
      histVars
  <1>3. ASSUME NEW c \in Callers, JoinCapture(c), DriversKept PROVE TypeOK'
    BY <1>3 DEF JoinCapture, Goto, DriversKept, ctlVars, guardVars, histVars
  <1>4. ASSUME NEW c \in Callers, CloseCache(c), DriversKept PROVE TypeOK'
    BY <1>4 DEF CloseCache, Goto, DriversKept, ctlVars, guardVars, histVars
  <1>5. ASSUME NEW c \in Callers, StartRefused(c), DriversKept PROVE TypeOK'
    BY <1>5 DEF StartRefused, Goto, DriversKept, ctlVars, guardVars, histVars
  <1>6. ASSUME NEW c \in Callers, Start(c), DriversKept PROVE TypeOK'
    <2>1. list_interfaces \subseteq Interfaces
      BY DEF list_interfaces
    <2>2. /\ gen + 1 \in 1..MaxStarts /\ threads' \subseteq Workers
          /\ gen' \in 0..MaxStarts /\ open' \subseteq 1..MaxStarts
      BY <1>6, <2>1 DEF Start, Workers
    <2>3. /\ worker' \in [Workers -> {"none", "open", "loop", "failed",
                                      "check", "ending", "dead"}]
          /\ ready' \in [Interfaces -> Workers \cup {NoWorker}]
          /\ at' \in [Callers -> {"idle", "raise", "mark", "join", "close",
                                  "stopped", "start", "started"}]
      BY <1>6, <2>2 DEF Start, Goto, NoneReady
    <2>4. SnifferTypeOK'
      BY <1>6, <2>1, <2>2, <2>3 DEF Start
    <2> QED BY <1>6, <2>4 DEF DriversKept, ctlVars, guardVars, histVars
  <1>7. ASSUME NEW w \in Workers, Bind(w), DriversKept PROVE TypeOK'
    BY <1>7 DEF Bind, DriversKept, ctlVars, guardVars, histVars
  <1>8. ASSUME NEW w \in Workers, BindFails(w), DriversKept PROVE TypeOK'
    BY <1>8 DEF BindFails, Workers, DriversKept, ctlVars, guardVars, histVars
  <1>9. ASSUME NEW w \in Workers, SeesStop(w), DriversKept PROVE TypeOK'
    BY <1>9 DEF SeesStop, Unready, DriversKept, ctlVars, guardVars, histVars
  <1>10. ASSUME NEW w \in Workers, GivesUp(w), DriversKept PROVE TypeOK'
    BY <1>10 DEF GivesUp, Unready, DriversKept, ctlVars, guardVars, histVars
  <1>11. ASSUME NEW w \in Workers, StartupFailed(w), DriversKept PROVE TypeOK'
    BY <1>11 DEF StartupFailed, Unready, DriversKept, ctlVars, guardVars,
      histVars
  <1>12. ASSUME NEW w \in Workers, LastOneOut(w), DriversKept PROVE TypeOK'
    BY <1>12 DEF LastOneOut, DriversKept, ctlVars, guardVars, histVars
  <1>13. ASSUME NEW w \in Workers, ThreadEnds(w), DriversKept PROVE TypeOK'
    BY <1>13 DEF ThreadEnds, DriversKept, ctlVars, guardVars, histVars
  <1>14. ASSUME NEW i \in Interfaces, InterfaceGone(i), DriversKept
         PROVE  TypeOK'
    BY <1>14 DEF InterfaceGone, DriversKept, ctlVars, guardVars, histVars
  <1>15. ASSUME StartEngine PROVE TypeOK'
    BY <1>15 DEF StartEngine, Enter, guardVars, Goto
  <1>16. ASSUME StopEngine PROVE TypeOK'
    BY <1>16 DEF StopEngine, Enter, guardVars, Goto
  <1>17. ASSUME NEW sel \in Selections, SaveInterfaces(sel) PROVE TypeOK'
    BY <1>17 DEF SaveInterfaces, SelectInterfaces, guardVars, histVars
  <1>18. ASSUME NEW sel \in Selections, ChangeInterfaces(sel) PROVE TypeOK'
    BY <1>18 DEF ChangeInterfaces, Enter, SelectInterfaces, guardVars, Goto
  <1>19. ASSUME StopReturns PROVE TypeOK'
    BY <1>19 DEF StopReturns, Goto, guardVars, histVars
  <1>20. ASSUME StartReturns PROVE TypeOK'
    BY <1>20 DEF StartReturns, Goto, guardVars, histVars
  <1>21. ASSUME VerifyPasses PROVE TypeOK'
    BY <1>21 DEF VerifyPasses, Verifying, Goto, guardVars, histVars
  <1>22. ASSUME VerifyFails PROVE TypeOK'
    BY <1>22 DEF VerifyFails, Verifying, Goto, guardVars, histVars
  <1>23. ASSUME NEW level \in [Kinds -> Levels], Trip(level) PROVE TypeOK'
    <2>1. Count(level) \in [Kinds -> 0..(TRIP_SAMPLES + 1)]
      BY DEF Count, TRIP_SAMPLES
    <2> QED BY <1>23, <2>1 DEF Trip, Enter, Goto, ctlVars
  <1>24. ASSUME NEW level \in [Kinds -> Levels], Resume(level) PROVE TypeOK'
    <2>1. Count(level) \in [Kinds -> 0..(TRIP_SAMPLES + 1)]
      BY DEF Count, TRIP_SAMPLES
    <2> QED BY <1>24, <2>1 DEF Resume, Enter, Goto, ctlVars
  <1>25. ASSUME NEW level \in [Kinds -> Levels], Watch(level) PROVE TypeOK'
    <2>1. Count(level) \in [Kinds -> 0..(TRIP_SAMPLES + 1)]
      BY DEF Count, TRIP_SAMPLES
    <2> QED BY <1>25, <2>1 DEF Watch, snifferVars, ctlVars, histVars
  <1>26. ASSUME GuardReturns PROVE TypeOK'
    BY <1>26 DEF GuardReturns, Goto, ctlVars, guardVars, histVars
  <1>27. ASSUME Crash PROVE TypeOK'
    <2>1. /\ selected' \subseteq Interfaces /\ stored' \subseteq Interfaces
          /\ crashes' \in 0..MaxCrashes
      BY <1>27 DEF Crash
    <2>2. SnifferTypeOK'
      BY <1>27, <2>1 DEF Crash, NoneReady
    <2>3. over' \in [Kinds -> 0..(TRIP_SAMPLES + 1)]
      BY <1>27 DEF Crash, TRIP_SAMPLES
    <2> QED BY <1>27, <2>1, <2>2, <2>3 DEF Crash
  <1>28. ASSUME UNCHANGED vars PROVE TypeOK'
    BY <1>28 DEF vars, snifferVars, ctlVars, guardVars, histVars
  <1> QED BY NextCases, <1>1, <1>2, <1>3, <1>4, <1>5, <1>6, <1>7, <1>8, <1>9,
      <1>10, <1>11, <1>12, <1>13, <1>14, <1>15, <1>16, <1>17, <1>18, <1>19,
      <1>20, <1>21, <1>22, <1>23, <1>24, <1>25, <1>26, <1>27, <1>28

\* Only the worker itself leaves its loop, and it drops its readiness first.
LEMMA StepReady ==
  ASSUME IInv, [Next]_vars PROVE ReadyIsAlive'
  <1> USE SnifferAssumption, CaptureAssumption DEF IInv, TypeOK, SnifferTypeOK,
      ReadyIsAlive, ReadyInterfaces, NoneReady
  <1>1. ASSUME NEW c \in Callers, RaiseStop(c), DriversKept PROVE ReadyIsAlive'
    BY <1>1 DEF RaiseStop, Goto, DriversKept, ctlVars, guardVars, histVars
  <1>2. ASSUME NEW c \in Callers, MarkStopped(c), DriversKept
        PROVE  ReadyIsAlive'
    BY <1>2 DEF MarkStopped, Goto, DriversKept, ctlVars, guardVars, histVars
  <1>3. ASSUME NEW c \in Callers, JoinCapture(c), DriversKept
        PROVE  ReadyIsAlive'
    BY <1>3 DEF JoinCapture, Goto, DriversKept, ctlVars, guardVars, histVars
  <1>4. ASSUME NEW c \in Callers, CloseCache(c), DriversKept
        PROVE  ReadyIsAlive'
    BY <1>4 DEF CloseCache, Goto, DriversKept, ctlVars, guardVars, histVars
  <1>5. ASSUME NEW c \in Callers, StartRefused(c), DriversKept
        PROVE  ReadyIsAlive'
    BY <1>5 DEF StartRefused, Goto, DriversKept, ctlVars, guardVars, histVars
  <1>6. ASSUME NEW c \in Callers, Start(c), DriversKept PROVE ReadyIsAlive'
    BY <1>6 DEF Start, list_interfaces, Goto, DriversKept, ctlVars, guardVars,
      histVars
  <1>7. ASSUME NEW w \in Workers, Bind(w), DriversKept PROVE ReadyIsAlive'
    BY <1>7 DEF Bind, DriversKept, ctlVars, guardVars, histVars
  <1>8. ASSUME NEW w \in Workers, BindFails(w), DriversKept PROVE ReadyIsAlive'
    BY <1>8 DEF BindFails, DriversKept, ctlVars, guardVars, histVars
  <1>9. ASSUME NEW w \in Workers, SeesStop(w), DriversKept PROVE ReadyIsAlive'
    BY <1>9 DEF SeesStop, Unready, DriversKept, ctlVars, guardVars, histVars
  <1>10. ASSUME NEW w \in Workers, GivesUp(w), DriversKept PROVE ReadyIsAlive'
    BY <1>10 DEF GivesUp, Unready, DriversKept, ctlVars, guardVars, histVars
  <1>11. ASSUME NEW w \in Workers, StartupFailed(w), DriversKept
         PROVE  ReadyIsAlive'
    BY <1>11 DEF StartupFailed, Unready, DriversKept, ctlVars, guardVars,
      histVars
  <1>12. ASSUME NEW w \in Workers, LastOneOut(w), DriversKept
         PROVE  ReadyIsAlive'
    BY <1>12 DEF LastOneOut, DriversKept, ctlVars, guardVars, histVars
  <1>13. ASSUME NEW w \in Workers, ThreadEnds(w), DriversKept
         PROVE  ReadyIsAlive'
    BY <1>13 DEF ThreadEnds, DriversKept, ctlVars, guardVars, histVars
  <1>14. ASSUME NEW i \in Interfaces, InterfaceGone(i), DriversKept
         PROVE  ReadyIsAlive'
    BY <1>14 DEF InterfaceGone, DriversKept, ctlVars, guardVars, histVars
  <1>15. ASSUME StartEngine PROVE ReadyIsAlive'
    BY <1>15 DEF StartEngine, Enter, guardVars, Goto
  <1>16. ASSUME StopEngine PROVE ReadyIsAlive'
    BY <1>16 DEF StopEngine, Enter, guardVars, Goto
  <1>17. ASSUME NEW sel \in Selections, SaveInterfaces(sel) PROVE ReadyIsAlive'
    BY <1>17 DEF SaveInterfaces, SelectInterfaces, guardVars, histVars
  <1>18. ASSUME NEW sel \in Selections, ChangeInterfaces(sel)
         PROVE  ReadyIsAlive'
    BY <1>18 DEF ChangeInterfaces, Enter, SelectInterfaces, guardVars, Goto
  <1>19. ASSUME StopReturns PROVE ReadyIsAlive'
    BY <1>19 DEF StopReturns, Goto, guardVars, histVars
  <1>20. ASSUME StartReturns PROVE ReadyIsAlive'
    BY <1>20 DEF StartReturns, Goto, guardVars, histVars
  <1>21. ASSUME VerifyPasses PROVE ReadyIsAlive'
    BY <1>21 DEF VerifyPasses, Verifying, Goto, guardVars, histVars
  <1>22. ASSUME VerifyFails PROVE ReadyIsAlive'
    BY <1>22 DEF VerifyFails, Verifying, Goto, guardVars, histVars
  <1>23. ASSUME NEW level \in [Kinds -> Levels], Trip(level)
         PROVE  ReadyIsAlive'
    BY <1>23 DEF Trip, Exceeds, Enter, Count, ctlVars, Goto
  <1>24. ASSUME NEW level \in [Kinds -> Levels], Resume(level)
         PROVE  ReadyIsAlive'
    BY <1>24 DEF Resume, Enter, Count, ctlVars, Goto
  <1>25. ASSUME NEW level \in [Kinds -> Levels], Watch(level)
         PROVE  ReadyIsAlive'
    BY <1>25 DEF Watch, Exceeds, Count, snifferVars, ctlVars, histVars
  <1>26. ASSUME GuardReturns PROVE ReadyIsAlive'
    BY <1>26 DEF GuardReturns, Goto, ctlVars, guardVars, histVars
  <1>27. ASSUME Crash PROVE ReadyIsAlive'
    BY <1>27 DEF Crash
  <1>28. ASSUME UNCHANGED vars PROVE ReadyIsAlive'
    BY <1>28 DEF vars, snifferVars, ctlVars, guardVars, histVars
  <1> QED BY NextCases, <1>1, <1>2, <1>3, <1>4, <1>5, <1>6, <1>7, <1>8, <1>9,
      <1>10, <1>11, <1>12, <1>13, <1>14, <1>15, <1>16, <1>17, <1>18, <1>19,
      <1>20, <1>21, <1>22, <1>23, <1>24, <1>25, <1>26, <1>27, <1>28

\* A start makes workers of its own number only.
LEMMA StepWorker ==
  ASSUME IInv, [Next]_vars PROVE WorkerInv'
  <1> USE SnifferAssumption, CaptureAssumption DEF IInv, TypeOK, SnifferTypeOK,
      WorkerInv
  <1>1. ASSUME NEW c \in Callers, RaiseStop(c), DriversKept PROVE WorkerInv'
    BY <1>1 DEF RaiseStop, Goto, DriversKept, ctlVars, guardVars, histVars
  <1>2. ASSUME NEW c \in Callers, MarkStopped(c), DriversKept PROVE WorkerInv'
    BY <1>2 DEF MarkStopped, NoneReady, Goto, DriversKept, ctlVars, guardVars,
      histVars
  <1>3. ASSUME NEW c \in Callers, JoinCapture(c), DriversKept PROVE WorkerInv'
    BY <1>3 DEF JoinCapture, Goto, DriversKept, ctlVars, guardVars, histVars
  <1>4. ASSUME NEW c \in Callers, CloseCache(c), DriversKept PROVE WorkerInv'
    BY <1>4 DEF CloseCache, Goto, DriversKept, ctlVars, guardVars, histVars
  <1>5. ASSUME NEW c \in Callers, StartRefused(c), DriversKept PROVE WorkerInv'
    BY <1>5 DEF StartRefused, Goto, DriversKept, ctlVars, guardVars, histVars
  <1>6. ASSUME NEW c \in Callers, Start(c), DriversKept PROVE WorkerInv'
    BY <1>6 DEF Start, list_interfaces, NoneReady, Goto, Workers, DriversKept,
      ctlVars, guardVars, histVars
  <1>7. ASSUME NEW w \in Workers, Bind(w), DriversKept PROVE WorkerInv'
    BY <1>7 DEF Bind, DriversKept, ctlVars, guardVars, histVars
  <1>8. ASSUME NEW w \in Workers, BindFails(w), DriversKept PROVE WorkerInv'
    BY <1>8 DEF BindFails, DriversKept, ctlVars, guardVars, histVars
  <1>9. ASSUME NEW w \in Workers, SeesStop(w), DriversKept PROVE WorkerInv'
    BY <1>9 DEF SeesStop, Unready, DriversKept, ctlVars, guardVars, histVars
  <1>10. ASSUME NEW w \in Workers, GivesUp(w), DriversKept PROVE WorkerInv'
    BY <1>10 DEF GivesUp, Unready, DriversKept, ctlVars, guardVars, histVars
  <1>11. ASSUME NEW w \in Workers, StartupFailed(w), DriversKept
         PROVE  WorkerInv'
    BY <1>11 DEF StartupFailed, Unready, DriversKept, ctlVars, guardVars,
      histVars
  <1>12. ASSUME NEW w \in Workers, LastOneOut(w), DriversKept PROVE WorkerInv'
    BY <1>12 DEF LastOneOut, DriversKept, ctlVars, guardVars, histVars
  <1>13. ASSUME NEW w \in Workers, ThreadEnds(w), DriversKept PROVE WorkerInv'
    BY <1>13 DEF ThreadEnds, DriversKept, ctlVars, guardVars, histVars
  <1>14. ASSUME NEW i \in Interfaces, InterfaceGone(i), DriversKept
         PROVE  WorkerInv'
    BY <1>14 DEF InterfaceGone, DriversKept, ctlVars, guardVars, histVars
  <1>15. ASSUME StartEngine PROVE WorkerInv'
    BY <1>15 DEF StartEngine, Enter, guardVars, Goto
  <1>16. ASSUME StopEngine PROVE WorkerInv'
    BY <1>16 DEF StopEngine, Enter, guardVars, Goto
  <1>17. ASSUME NEW sel \in Selections, SaveInterfaces(sel) PROVE WorkerInv'
    BY <1>17 DEF SaveInterfaces, SelectInterfaces, guardVars, histVars
  <1>18. ASSUME NEW sel \in Selections, ChangeInterfaces(sel) PROVE WorkerInv'
    BY <1>18 DEF ChangeInterfaces, Enter, SelectInterfaces, guardVars, Goto
  <1>19. ASSUME StopReturns PROVE WorkerInv'
    BY <1>19 DEF StopReturns, Goto, guardVars, histVars
  <1>20. ASSUME StartReturns PROVE WorkerInv'
    BY <1>20 DEF StartReturns, Goto, guardVars, histVars
  <1>21. ASSUME VerifyPasses PROVE WorkerInv'
    BY <1>21 DEF VerifyPasses, Verifying, Goto, guardVars, histVars
  <1>22. ASSUME VerifyFails PROVE WorkerInv'
    BY <1>22 DEF VerifyFails, Verifying, Goto, guardVars, histVars
  <1>23. ASSUME NEW level \in [Kinds -> Levels], Trip(level) PROVE WorkerInv'
    BY <1>23 DEF Trip, Exceeds, Enter, Count, ctlVars, Goto
  <1>24. ASSUME NEW level \in [Kinds -> Levels], Resume(level) PROVE WorkerInv'
    BY <1>24 DEF Resume, Enter, Count, ctlVars, Goto
  <1>25. ASSUME NEW level \in [Kinds -> Levels], Watch(level) PROVE WorkerInv'
    BY <1>25 DEF Watch, Exceeds, Count, snifferVars, ctlVars, histVars
  <1>26. ASSUME GuardReturns PROVE WorkerInv'
    BY <1>26 DEF GuardReturns, Goto, ctlVars, guardVars, histVars
  <1>27. ASSUME Crash PROVE WorkerInv'
    BY <1>27 DEF Crash, NoneReady
  <1>28. ASSUME UNCHANGED vars PROVE WorkerInv'
    BY <1>28 DEF vars, snifferVars, ctlVars, guardVars, histVars
  <1> QED BY NextCases, <1>1, <1>2, <1>3, <1>4, <1>5, <1>6, <1>7, <1>8, <1>9,
      <1>10, <1>11, <1>12, <1>13, <1>14, <1>15, <1>16, <1>17, <1>18, <1>19,
      <1>20, <1>21, <1>22, <1>23, <1>24, <1>25, <1>26, <1>27, <1>28

\* A request of the operator runs to its end before the next one.
LEMMA StepRequest ==
  ASSUME IInv, [Next]_vars PROVE RequestInv'
  <1> USE SnifferAssumption, CaptureAssumption DEF IInv, TypeOK, SnifferTypeOK,
      RequestInv, Callers
  <1>1. ASSUME NEW c \in Callers, RaiseStop(c), DriversKept PROVE RequestInv'
    BY <1>1 DEF RaiseStop, Goto, DriversKept, ctlVars, guardVars, histVars
  <1>2. ASSUME NEW c \in Callers, MarkStopped(c), DriversKept PROVE RequestInv'
    BY <1>2 DEF MarkStopped, NoneReady, Goto, DriversKept, ctlVars, guardVars,
      histVars
  <1>3. ASSUME NEW c \in Callers, JoinCapture(c), DriversKept PROVE RequestInv'
    BY <1>3 DEF JoinCapture, Goto, DriversKept, ctlVars, guardVars, histVars
  <1>4. ASSUME NEW c \in Callers, CloseCache(c), DriversKept PROVE RequestInv'
    BY <1>4 DEF CloseCache, Goto, DriversKept, ctlVars, guardVars, histVars
  <1>5. ASSUME NEW c \in Callers, StartRefused(c), DriversKept
        PROVE  RequestInv'
    BY <1>5 DEF StartRefused, Goto, DriversKept, ctlVars, guardVars, histVars
  <1>6. ASSUME NEW c \in Callers, Start(c), DriversKept PROVE RequestInv'
    BY <1>6 DEF Start, list_interfaces, NoneReady, Goto, DriversKept, ctlVars,
      guardVars, histVars
  <1>7. ASSUME NEW w \in Workers, Bind(w), DriversKept PROVE RequestInv'
    BY <1>7 DEF Bind, DriversKept, ctlVars, guardVars, histVars
  <1>8. ASSUME NEW w \in Workers, BindFails(w), DriversKept PROVE RequestInv'
    BY <1>8 DEF BindFails, DriversKept, ctlVars, guardVars, histVars
  <1>9. ASSUME NEW w \in Workers, SeesStop(w), DriversKept PROVE RequestInv'
    BY <1>9 DEF SeesStop, Unready, DriversKept, ctlVars, guardVars, histVars
  <1>10. ASSUME NEW w \in Workers, GivesUp(w), DriversKept PROVE RequestInv'
    BY <1>10 DEF GivesUp, Unready, DriversKept, ctlVars, guardVars, histVars
  <1>11. ASSUME NEW w \in Workers, StartupFailed(w), DriversKept
         PROVE  RequestInv'
    BY <1>11 DEF StartupFailed, Unready, DriversKept, ctlVars, guardVars,
      histVars
  <1>12. ASSUME NEW w \in Workers, LastOneOut(w), DriversKept PROVE RequestInv'
    BY <1>12 DEF LastOneOut, DriversKept, ctlVars, guardVars, histVars
  <1>13. ASSUME NEW w \in Workers, ThreadEnds(w), DriversKept PROVE RequestInv'
    BY <1>13 DEF ThreadEnds, DriversKept, ctlVars, guardVars, histVars
  <1>14. ASSUME NEW i \in Interfaces, InterfaceGone(i), DriversKept
         PROVE  RequestInv'
    BY <1>14 DEF InterfaceGone, DriversKept, ctlVars, guardVars, histVars
  <1>15. ASSUME StartEngine PROVE RequestInv'
    BY <1>15 DEF StartEngine, Enter, guardVars, Goto
  <1>16. ASSUME StopEngine PROVE RequestInv'
    BY <1>16 DEF StopEngine, Enter, guardVars, Goto
  <1>17. ASSUME NEW sel \in Selections, SaveInterfaces(sel) PROVE RequestInv'
    BY <1>17 DEF SaveInterfaces, SelectInterfaces, guardVars, histVars
  <1>18. ASSUME NEW sel \in Selections, ChangeInterfaces(sel) PROVE RequestInv'
    BY <1>18 DEF ChangeInterfaces, Enter, SelectInterfaces, guardVars, Goto
  <1>19. ASSUME StopReturns PROVE RequestInv'
    BY <1>19 DEF StopReturns, Goto, guardVars, histVars
  <1>20. ASSUME StartReturns PROVE RequestInv'
    BY <1>20 DEF StartReturns, Goto, guardVars, histVars
  <1>21. ASSUME VerifyPasses PROVE RequestInv'
    BY <1>21 DEF VerifyPasses, Verifying, Goto, guardVars, histVars
  <1>22. ASSUME VerifyFails PROVE RequestInv'
    BY <1>22 DEF VerifyFails, Verifying, Goto, guardVars, histVars
  <1>23. ASSUME NEW level \in [Kinds -> Levels], Trip(level) PROVE RequestInv'
    BY <1>23 DEF Trip, Exceeds, Enter, Count, ctlVars, Goto
  <1>24. ASSUME NEW level \in [Kinds -> Levels], Resume(level)
         PROVE  RequestInv'
    BY <1>24 DEF Resume, Enter, Count, ctlVars, Goto
  <1>25. ASSUME NEW level \in [Kinds -> Levels], Watch(level) PROVE RequestInv'
    BY <1>25 DEF Watch, Exceeds, Count, snifferVars, ctlVars, histVars
  <1>26. ASSUME GuardReturns PROVE RequestInv'
    BY <1>26 DEF GuardReturns, Goto, ctlVars, guardVars, histVars
  <1>27. ASSUME Crash PROVE RequestInv'
    BY <1>27 DEF Crash, NoneReady
  <1>28. ASSUME UNCHANGED vars PROVE RequestInv'
    BY <1>28 DEF vars, snifferVars, ctlVars, guardVars, histVars
  <1> QED BY NextCases, <1>1, <1>2, <1>3, <1>4, <1>5, <1>6, <1>7, <1>8, <1>9,
      <1>10, <1>11, <1>12, <1>13, <1>14, <1>15, <1>16, <1>17, <1>18, <1>19,
      <1>20, <1>21, <1>22, <1>23, <1>24, <1>25, <1>26, <1>27, <1>28

\* A change is stored when it is verified, and taken back when it is not.
LEMMA StepStored ==
  ASSUME IInv, [Next]_vars PROVE StoredInv'
  <1> USE SnifferAssumption, CaptureAssumption DEF IInv, TypeOK, SnifferTypeOK,
      RequestInv, StoredInv, Callers
  <1>1. ASSUME NEW c \in Callers, RaiseStop(c), DriversKept PROVE StoredInv'
    BY <1>1 DEF RaiseStop, Goto, DriversKept, ctlVars, guardVars, histVars
  <1>2. ASSUME NEW c \in Callers, MarkStopped(c), DriversKept PROVE StoredInv'
    BY <1>2 DEF MarkStopped, NoneReady, Goto, DriversKept, ctlVars, guardVars,
      histVars
  <1>3. ASSUME NEW c \in Callers, JoinCapture(c), DriversKept PROVE StoredInv'
    BY <1>3 DEF JoinCapture, Goto, DriversKept, ctlVars, guardVars, histVars
  <1>4. ASSUME NEW c \in Callers, CloseCache(c), DriversKept PROVE StoredInv'
    BY <1>4 DEF CloseCache, Goto, DriversKept, ctlVars, guardVars, histVars
  <1>5. ASSUME NEW c \in Callers, StartRefused(c), DriversKept PROVE StoredInv'
    BY <1>5 DEF StartRefused, Goto, DriversKept, ctlVars, guardVars, histVars
  <1>6. ASSUME NEW c \in Callers, Start(c), DriversKept PROVE StoredInv'
    BY <1>6 DEF Start, list_interfaces, NoneReady, Goto, DriversKept, ctlVars,
      guardVars, histVars
  <1>7. ASSUME NEW w \in Workers, Bind(w), DriversKept PROVE StoredInv'
    BY <1>7 DEF Bind, DriversKept, ctlVars, guardVars, histVars
  <1>8. ASSUME NEW w \in Workers, BindFails(w), DriversKept PROVE StoredInv'
    BY <1>8 DEF BindFails, DriversKept, ctlVars, guardVars, histVars
  <1>9. ASSUME NEW w \in Workers, SeesStop(w), DriversKept PROVE StoredInv'
    BY <1>9 DEF SeesStop, Unready, DriversKept, ctlVars, guardVars, histVars
  <1>10. ASSUME NEW w \in Workers, GivesUp(w), DriversKept PROVE StoredInv'
    BY <1>10 DEF GivesUp, Unready, DriversKept, ctlVars, guardVars, histVars
  <1>11. ASSUME NEW w \in Workers, StartupFailed(w), DriversKept
         PROVE  StoredInv'
    BY <1>11 DEF StartupFailed, Unready, DriversKept, ctlVars, guardVars,
      histVars
  <1>12. ASSUME NEW w \in Workers, LastOneOut(w), DriversKept PROVE StoredInv'
    BY <1>12 DEF LastOneOut, DriversKept, ctlVars, guardVars, histVars
  <1>13. ASSUME NEW w \in Workers, ThreadEnds(w), DriversKept PROVE StoredInv'
    BY <1>13 DEF ThreadEnds, DriversKept, ctlVars, guardVars, histVars
  <1>14. ASSUME NEW i \in Interfaces, InterfaceGone(i), DriversKept
         PROVE  StoredInv'
    BY <1>14 DEF InterfaceGone, DriversKept, ctlVars, guardVars, histVars
  <1>15. ASSUME StartEngine PROVE StoredInv'
    BY <1>15 DEF StartEngine, Enter, guardVars, Goto
  <1>16. ASSUME StopEngine PROVE StoredInv'
    BY <1>16 DEF StopEngine, Enter, guardVars, Goto
  <1>17. ASSUME NEW sel \in Selections, SaveInterfaces(sel) PROVE StoredInv'
    BY <1>17 DEF SaveInterfaces, SelectInterfaces, guardVars, histVars
  <1>18. ASSUME NEW sel \in Selections, ChangeInterfaces(sel) PROVE StoredInv'
    BY <1>18 DEF ChangeInterfaces, Enter, SelectInterfaces, guardVars, Goto
  <1>19. ASSUME StopReturns PROVE StoredInv'
    BY <1>19 DEF StopReturns, Goto, guardVars, histVars
  <1>20. ASSUME StartReturns PROVE StoredInv'
    BY <1>20 DEF StartReturns, Goto, guardVars, histVars
  <1>21. ASSUME VerifyPasses PROVE StoredInv'
    BY <1>21 DEF VerifyPasses, Verifying, Goto, guardVars, histVars
  <1>22. ASSUME VerifyFails PROVE StoredInv'
    BY <1>22 DEF VerifyFails, Verifying, Goto, guardVars, histVars
  <1>23. ASSUME NEW level \in [Kinds -> Levels], Trip(level) PROVE StoredInv'
    BY <1>23 DEF Trip, Exceeds, Enter, Count, ctlVars, Goto
  <1>24. ASSUME NEW level \in [Kinds -> Levels], Resume(level) PROVE StoredInv'
    BY <1>24 DEF Resume, Enter, Count, ctlVars, Goto
  <1>25. ASSUME NEW level \in [Kinds -> Levels], Watch(level) PROVE StoredInv'
    BY <1>25 DEF Watch, Exceeds, Count, snifferVars, ctlVars, histVars
  <1>26. ASSUME GuardReturns PROVE StoredInv'
    BY <1>26 DEF GuardReturns, Goto, ctlVars, guardVars, histVars
  <1>27. ASSUME Crash PROVE StoredInv'
    BY <1>27 DEF Crash, NoneReady
  <1>28. ASSUME UNCHANGED vars PROVE StoredInv'
    BY <1>28 DEF vars, snifferVars, ctlVars, guardVars, histVars
  <1> QED BY NextCases, <1>1, <1>2, <1>3, <1>4, <1>5, <1>6, <1>7, <1>8, <1>9,
      <1>10, <1>11, <1>12, <1>13, <1>14, <1>15, <1>16, <1>17, <1>18, <1>19,
      <1>20, <1>21, <1>22, <1>23, <1>24, <1>25, <1>26, <1>27, <1>28

\* A caller that has the engine to itself leaves it as stop() should.
LEMMA StepSole ==
  ASSUME IInv, [Next]_vars PROVE SoleInv'
  <1> USE SnifferAssumption, CaptureAssumption DEF IInv, TypeOK, SnifferTypeOK,
      SoleInv, Callers
  <1>1. ASSUME NEW c \in Callers, RaiseStop(c), DriversKept PROVE SoleInv'
    BY <1>1 DEF RaiseStop, Goto, DriversKept, ctlVars, guardVars, histVars
  <1>2. ASSUME NEW c \in Callers, MarkStopped(c), DriversKept PROVE SoleInv'
    BY <1>2 DEF MarkStopped, NoneReady, Goto, DriversKept, ctlVars, guardVars,
      histVars
  <1>3. ASSUME NEW c \in Callers, JoinCapture(c), DriversKept PROVE SoleInv'
    BY <1>3 DEF JoinCapture, Goto, DriversKept, ctlVars, guardVars, histVars
  <1>4. ASSUME NEW c \in Callers, CloseCache(c), DriversKept PROVE SoleInv'
    BY <1>4 DEF CloseCache, Goto, DriversKept, ctlVars, guardVars, histVars
  <1>5. ASSUME NEW c \in Callers, StartRefused(c), DriversKept PROVE SoleInv'
    BY <1>5 DEF StartRefused, Goto, DriversKept, ctlVars, guardVars, histVars
  <1>6. ASSUME NEW c \in Callers, Start(c), DriversKept PROVE SoleInv'
    BY <1>6 DEF Start, list_interfaces, NoneReady, Goto, DriversKept, ctlVars,
      guardVars, histVars
  <1>7. ASSUME NEW w \in Workers, Bind(w), DriversKept PROVE SoleInv'
    BY <1>7 DEF Bind, DriversKept, ctlVars, guardVars, histVars
  <1>8. ASSUME NEW w \in Workers, BindFails(w), DriversKept PROVE SoleInv'
    BY <1>8 DEF BindFails, DriversKept, ctlVars, guardVars, histVars
  <1>9. ASSUME NEW w \in Workers, SeesStop(w), DriversKept PROVE SoleInv'
    BY <1>9 DEF SeesStop, Unready, DriversKept, ctlVars, guardVars, histVars
  <1>10. ASSUME NEW w \in Workers, GivesUp(w), DriversKept PROVE SoleInv'
    BY <1>10 DEF GivesUp, Unready, DriversKept, ctlVars, guardVars, histVars
  <1>11. ASSUME NEW w \in Workers, StartupFailed(w), DriversKept PROVE SoleInv'
    BY <1>11 DEF StartupFailed, Unready, DriversKept, ctlVars, guardVars,
      histVars
  <1>12. ASSUME NEW w \in Workers, LastOneOut(w), DriversKept PROVE SoleInv'
    BY <1>12 DEF LastOneOut, DriversKept, ctlVars, guardVars, histVars
  <1>13. ASSUME NEW w \in Workers, ThreadEnds(w), DriversKept PROVE SoleInv'
    BY <1>13 DEF ThreadEnds, DriversKept, ctlVars, guardVars, histVars
  <1>14. ASSUME NEW i \in Interfaces, InterfaceGone(i), DriversKept
         PROVE  SoleInv'
    BY <1>14 DEF InterfaceGone, DriversKept, ctlVars, guardVars, histVars
  <1>15. ASSUME StartEngine PROVE SoleInv'
    BY <1>15 DEF StartEngine, Enter, guardVars, Goto
  <1>16. ASSUME StopEngine PROVE SoleInv'
    BY <1>16 DEF StopEngine, Enter, guardVars, Goto
  <1>17. ASSUME NEW sel \in Selections, SaveInterfaces(sel) PROVE SoleInv'
    BY <1>17 DEF SaveInterfaces, SelectInterfaces, guardVars, histVars
  <1>18. ASSUME NEW sel \in Selections, ChangeInterfaces(sel) PROVE SoleInv'
    BY <1>18 DEF ChangeInterfaces, Enter, SelectInterfaces, guardVars, Goto
  <1>19. ASSUME StopReturns PROVE SoleInv'
    BY <1>19 DEF StopReturns, Goto, guardVars, histVars
  <1>20. ASSUME StartReturns PROVE SoleInv'
    BY <1>20 DEF StartReturns, Goto, guardVars, histVars
  <1>21. ASSUME VerifyPasses PROVE SoleInv'
    BY <1>21 DEF VerifyPasses, Verifying, Goto, guardVars, histVars
  <1>22. ASSUME VerifyFails PROVE SoleInv'
    BY <1>22 DEF VerifyFails, Verifying, Goto, guardVars, histVars
  <1>23. ASSUME NEW level \in [Kinds -> Levels], Trip(level) PROVE SoleInv'
    BY <1>23 DEF Trip, Exceeds, Enter, Count, ctlVars, Goto
  <1>24. ASSUME NEW level \in [Kinds -> Levels], Resume(level) PROVE SoleInv'
    BY <1>24 DEF Resume, Enter, Count, ctlVars, Goto
  <1>25. ASSUME NEW level \in [Kinds -> Levels], Watch(level) PROVE SoleInv'
    BY <1>25 DEF Watch, Exceeds, Count, snifferVars, ctlVars, histVars
  <1>26. ASSUME GuardReturns PROVE SoleInv'
    BY <1>26 DEF GuardReturns, Goto, ctlVars, guardVars, histVars
  <1>27. ASSUME Crash PROVE SoleInv'
    BY <1>27 DEF Crash, NoneReady
  <1>28. ASSUME UNCHANGED vars PROVE SoleInv'
    BY <1>28 DEF vars, snifferVars, ctlVars, guardVars, histVars
  <1> QED BY NextCases, <1>1, <1>2, <1>3, <1>4, <1>5, <1>6, <1>7, <1>8, <1>9,
      <1>10, <1>11, <1>12, <1>13, <1>14, <1>15, <1>16, <1>17, <1>18, <1>19,
      <1>20, <1>21, <1>22, <1>23, <1>24, <1>25, <1>26, <1>27, <1>28

\* Only a start makes the engine run, and everything it needs with it.
LEMMA StepSound ==
  ASSUME IInv, [Next]_vars PROVE RunningIsSound'
  <1> USE SnifferAssumption, CaptureAssumption DEF IInv, TypeOK, SnifferTypeOK,
      WorkerInv, SoleInv, RunningIsSound, Callers, Alive
  <1>1. ASSUME NEW c \in Callers, RaiseStop(c), DriversKept
        PROVE  RunningIsSound'
    BY <1>1 DEF RaiseStop, Goto, DriversKept, ctlVars, guardVars, histVars
  <1>2. ASSUME NEW c \in Callers, MarkStopped(c), DriversKept
        PROVE  RunningIsSound'
    BY <1>2 DEF MarkStopped, NoneReady, Goto, DriversKept, ctlVars, guardVars,
      histVars
  <1>3. ASSUME NEW c \in Callers, JoinCapture(c), DriversKept
        PROVE  RunningIsSound'
    BY <1>3 DEF JoinCapture, Goto, DriversKept, ctlVars, guardVars, histVars
  <1>4. ASSUME NEW c \in Callers, CloseCache(c), DriversKept
        PROVE  RunningIsSound'
    BY <1>4 DEF CloseCache, Goto, DriversKept, ctlVars, guardVars, histVars
  <1>5. ASSUME NEW c \in Callers, StartRefused(c), DriversKept
        PROVE  RunningIsSound'
    BY <1>5 DEF StartRefused, Goto, DriversKept, ctlVars, guardVars, histVars
  <1>6. ASSUME NEW c \in Callers, Start(c), DriversKept PROVE RunningIsSound'
    BY <1>6 DEF Start, list_interfaces, NoneReady, Goto, Workers, DriversKept,
      ctlVars, guardVars, histVars
  <1>7. ASSUME NEW w \in Workers, Bind(w), DriversKept PROVE RunningIsSound'
    BY <1>7 DEF Bind, DriversKept, ctlVars, guardVars, histVars
  <1>8. ASSUME NEW w \in Workers, BindFails(w), DriversKept
        PROVE  RunningIsSound'
    BY <1>8 DEF BindFails, DriversKept, ctlVars, guardVars, histVars
  <1>9. ASSUME NEW w \in Workers, SeesStop(w), DriversKept
        PROVE  RunningIsSound'
    BY <1>9 DEF SeesStop, Unready, DriversKept, ctlVars, guardVars, histVars
  <1>10. ASSUME NEW w \in Workers, GivesUp(w), DriversKept
         PROVE  RunningIsSound'
    BY <1>10 DEF GivesUp, Unready, DriversKept, ctlVars, guardVars, histVars
  <1>11. ASSUME NEW w \in Workers, StartupFailed(w), DriversKept
         PROVE  RunningIsSound'
    BY <1>11 DEF StartupFailed, Unready, DriversKept, ctlVars, guardVars,
      histVars
  <1>12. ASSUME NEW w \in Workers, LastOneOut(w), DriversKept
         PROVE  RunningIsSound'
    BY <1>12 DEF LastOneOut, DriversKept, ctlVars, guardVars, histVars
  <1>13. ASSUME NEW w \in Workers, ThreadEnds(w), DriversKept
         PROVE  RunningIsSound'
    BY <1>13 DEF ThreadEnds, DriversKept, ctlVars, guardVars, histVars
  <1>14. ASSUME NEW i \in Interfaces, InterfaceGone(i), DriversKept
         PROVE  RunningIsSound'
    BY <1>14 DEF InterfaceGone, DriversKept, ctlVars, guardVars, histVars
  <1>15. ASSUME StartEngine PROVE RunningIsSound'
    BY <1>15 DEF StartEngine, Enter, guardVars, Goto
  <1>16. ASSUME StopEngine PROVE RunningIsSound'
    BY <1>16 DEF StopEngine, Enter, guardVars, Goto
  <1>17. ASSUME NEW sel \in Selections, SaveInterfaces(sel)
         PROVE  RunningIsSound'
    BY <1>17 DEF SaveInterfaces, SelectInterfaces, guardVars, histVars
  <1>18. ASSUME NEW sel \in Selections, ChangeInterfaces(sel)
         PROVE  RunningIsSound'
    BY <1>18 DEF ChangeInterfaces, Enter, SelectInterfaces, guardVars, Goto
  <1>19. ASSUME StopReturns PROVE RunningIsSound'
    BY <1>19 DEF StopReturns, Goto, guardVars, histVars
  <1>20. ASSUME StartReturns PROVE RunningIsSound'
    BY <1>20 DEF StartReturns, Goto, guardVars, histVars
  <1>21. ASSUME VerifyPasses PROVE RunningIsSound'
    BY <1>21 DEF VerifyPasses, Verifying, Goto, guardVars, histVars
  <1>22. ASSUME VerifyFails PROVE RunningIsSound'
    BY <1>22 DEF VerifyFails, Verifying, Goto, guardVars, histVars
  <1>23. ASSUME NEW level \in [Kinds -> Levels], Trip(level)
         PROVE  RunningIsSound'
    BY <1>23 DEF Trip, Exceeds, Enter, Count, ctlVars, Goto
  <1>24. ASSUME NEW level \in [Kinds -> Levels], Resume(level)
         PROVE  RunningIsSound'
    BY <1>24 DEF Resume, Enter, Count, ctlVars, Goto
  <1>25. ASSUME NEW level \in [Kinds -> Levels], Watch(level)
         PROVE  RunningIsSound'
    BY <1>25 DEF Watch, Exceeds, Count, snifferVars, ctlVars, histVars
  <1>26. ASSUME GuardReturns PROVE RunningIsSound'
    BY <1>26 DEF GuardReturns, Goto, ctlVars, guardVars, histVars
  <1>27. ASSUME Crash PROVE RunningIsSound'
    BY <1>27 DEF Crash, NoneReady
  <1>28. ASSUME UNCHANGED vars PROVE RunningIsSound'
    BY <1>28 DEF vars, snifferVars, ctlVars, guardVars, histVars
  <1> QED BY NextCases, <1>1, <1>2, <1>3, <1>4, <1>5, <1>6, <1>7, <1>8, <1>9,
      <1>10, <1>11, <1>12, <1>13, <1>14, <1>15, <1>16, <1>17, <1>18, <1>19,
      <1>20, <1>21, <1>22, <1>23, <1>24, <1>25, <1>26, <1>27, <1>28

\* Every start takes what is selected.
LEMMA StepChange ==
  ASSUME IInv, [Next]_vars PROVE ChangeInv'
  <1> USE SnifferAssumption, CaptureAssumption DEF IInv, TypeOK, SnifferTypeOK,
      RequestInv, ChangeInv, Callers
  <1>1. ASSUME NEW c \in Callers, RaiseStop(c), DriversKept PROVE ChangeInv'
    BY <1>1 DEF RaiseStop, Goto, DriversKept, ctlVars, guardVars, histVars
  <1>2. ASSUME NEW c \in Callers, MarkStopped(c), DriversKept PROVE ChangeInv'
    BY <1>2 DEF MarkStopped, NoneReady, Goto, DriversKept, ctlVars, guardVars,
      histVars
  <1>3. ASSUME NEW c \in Callers, JoinCapture(c), DriversKept PROVE ChangeInv'
    BY <1>3 DEF JoinCapture, Goto, DriversKept, ctlVars, guardVars, histVars
  <1>4. ASSUME NEW c \in Callers, CloseCache(c), DriversKept PROVE ChangeInv'
    BY <1>4 DEF CloseCache, Goto, DriversKept, ctlVars, guardVars, histVars
  <1>5. ASSUME NEW c \in Callers, StartRefused(c), DriversKept PROVE ChangeInv'
    BY <1>5 DEF StartRefused, Goto, DriversKept, ctlVars, guardVars, histVars
  <1>6. ASSUME NEW c \in Callers, Start(c), DriversKept PROVE ChangeInv'
    BY <1>6 DEF Start, list_interfaces, NoneReady, Goto, DriversKept, ctlVars,
      guardVars, histVars
  <1>7. ASSUME NEW w \in Workers, Bind(w), DriversKept PROVE ChangeInv'
    BY <1>7 DEF Bind, DriversKept, ctlVars, guardVars, histVars
  <1>8. ASSUME NEW w \in Workers, BindFails(w), DriversKept PROVE ChangeInv'
    BY <1>8 DEF BindFails, DriversKept, ctlVars, guardVars, histVars
  <1>9. ASSUME NEW w \in Workers, SeesStop(w), DriversKept PROVE ChangeInv'
    BY <1>9 DEF SeesStop, Unready, DriversKept, ctlVars, guardVars, histVars
  <1>10. ASSUME NEW w \in Workers, GivesUp(w), DriversKept PROVE ChangeInv'
    BY <1>10 DEF GivesUp, Unready, DriversKept, ctlVars, guardVars, histVars
  <1>11. ASSUME NEW w \in Workers, StartupFailed(w), DriversKept
         PROVE  ChangeInv'
    BY <1>11 DEF StartupFailed, Unready, DriversKept, ctlVars, guardVars,
      histVars
  <1>12. ASSUME NEW w \in Workers, LastOneOut(w), DriversKept PROVE ChangeInv'
    BY <1>12 DEF LastOneOut, DriversKept, ctlVars, guardVars, histVars
  <1>13. ASSUME NEW w \in Workers, ThreadEnds(w), DriversKept PROVE ChangeInv'
    BY <1>13 DEF ThreadEnds, DriversKept, ctlVars, guardVars, histVars
  <1>14. ASSUME NEW i \in Interfaces, InterfaceGone(i), DriversKept
         PROVE  ChangeInv'
    BY <1>14 DEF InterfaceGone, DriversKept, ctlVars, guardVars, histVars
  <1>15. ASSUME StartEngine PROVE ChangeInv'
    BY <1>15 DEF StartEngine, Enter, guardVars, Goto
  <1>16. ASSUME StopEngine PROVE ChangeInv'
    BY <1>16 DEF StopEngine, Enter, guardVars, Goto
  <1>17. ASSUME NEW sel \in Selections, SaveInterfaces(sel) PROVE ChangeInv'
    BY <1>17 DEF SaveInterfaces, SelectInterfaces, guardVars, histVars
  <1>18. ASSUME NEW sel \in Selections, ChangeInterfaces(sel) PROVE ChangeInv'
    BY <1>18 DEF ChangeInterfaces, Enter, SelectInterfaces, guardVars, Goto
  <1>19. ASSUME StopReturns PROVE ChangeInv'
    BY <1>19 DEF StopReturns, Goto, guardVars, histVars
  <1>20. ASSUME StartReturns PROVE ChangeInv'
    BY <1>20 DEF StartReturns, Goto, guardVars, histVars
  <1>21. ASSUME VerifyPasses PROVE ChangeInv'
    BY <1>21 DEF VerifyPasses, Verifying, Goto, guardVars, histVars
  <1>22. ASSUME VerifyFails PROVE ChangeInv'
    BY <1>22 DEF VerifyFails, Verifying, Goto, guardVars, histVars
  <1>23. ASSUME NEW level \in [Kinds -> Levels], Trip(level) PROVE ChangeInv'
    BY <1>23 DEF Trip, Exceeds, Enter, Count, ctlVars, Goto
  <1>24. ASSUME NEW level \in [Kinds -> Levels], Resume(level) PROVE ChangeInv'
    BY <1>24 DEF Resume, Enter, Count, ctlVars, Goto
  <1>25. ASSUME NEW level \in [Kinds -> Levels], Watch(level) PROVE ChangeInv'
    BY <1>25 DEF Watch, Exceeds, Count, snifferVars, ctlVars, histVars
  <1>26. ASSUME GuardReturns PROVE ChangeInv'
    BY <1>26 DEF GuardReturns, Goto, ctlVars, guardVars, histVars
  <1>27. ASSUME Crash PROVE ChangeInv'
    BY <1>27 DEF Crash, NoneReady
  <1>28. ASSUME UNCHANGED vars PROVE ChangeInv'
    BY <1>28 DEF vars, snifferVars, ctlVars, guardVars, histVars
  <1> QED BY NextCases, <1>1, <1>2, <1>3, <1>4, <1>5, <1>6, <1>7, <1>8, <1>9,
      <1>10, <1>11, <1>12, <1>13, <1>14, <1>15, <1>16, <1>17, <1>18, <1>19,
      <1>20, <1>21, <1>22, <1>23, <1>24, <1>25, <1>26, <1>27, <1>28

-----------------------------------------------------------------------------
(* The results *)

\* At the start nothing runs and the database holds the selection.
LEMMA InitIInv == Init => IInv
  <1> SUFFICES ASSUME Init PROVE IInv
    OBVIOUS
  <1> USE SnifferAssumption, CaptureAssumption DEF Init, SnifferInit
  <1>1. TypeOK
    <2>1. /\ selected \subseteq Interfaces /\ stored \subseteq Interfaces
          /\ 0 \in 0..MaxStarts /\ 0 \in 0..MaxCrashes
      OBVIOUS
    <2>2. SnifferTypeOK
      BY <2>1 DEF SnifferTypeOK, NoneReady
    <2>3. over \in [Kinds -> 0..(TRIP_SAMPLES + 1)]
      BY DEF TRIP_SAMPLES
    <2> QED BY <2>1, <2>2, <2>3 DEF TypeOK
  <1>2. ReadyIsAlive /\ WorkerInv
    BY DEF ReadyIsAlive, ReadyInterfaces, NoneReady, WorkerInv
  <1>3. RequestInv /\ StoredInv /\ SoleInv /\ RunningIsSound /\ ChangeInv
    BY DEF RequestInv, StoredInv, SoleInv, RunningIsSound, ChangeInv, Callers
  <1> QED BY <1>1, <1>2, <1>3 DEF IInv

\* IInv is an invariant of the engine and its drivers.
THEOREM Inductive == Spec => []IInv
  <1>1. IInv /\ [Next]_vars => IInv'
    BY StepType, StepReady, StepWorker, StepRequest, StepStored, StepSole,
      StepSound, StepChange DEF IInv
  <1> QED BY InitIInv, <1>1, PTL DEF Spec

\* Every variable of the engine, the controller and the guard keeps its type.
THEOREM TypeCorrect == Spec => []TypeOK
  <1>1. IInv => TypeOK
    BY DEF IInv
  <1> QED BY Inductive, <1>1, PTL

\* An interface reported ready has a worker of its own in its loop, however
\* many workers outlived the stop() that was meant for them.
THEOREM ReadyIsAliveCorrect == Spec => []ReadyIsAlive
  <1>1. IInv => ReadyIsAlive
    BY DEF IInv
  <1> QED BY Inductive, <1>1, PTL

\* Between two requests the database holds what the engine captures, whichever
\* change or rollback failed and whenever the process died.
THEOREM SelectionIsStoredCorrect == Spec => []SelectionIsStored
  <1>1. IInv => SelectionIsStored
    BY DEF IInv, RequestInv, StoredInv, SelectionIsStored
  <1> QED BY Inductive, <1>1, PTL

\* As long as operator and guard were never inside the engine at once, a
\* running engine was not told to stop, has its cache and knows its workers.
THEOREM RunningIsSoundCorrect == Spec => []RunningIsSound
  <1>1. IInv => RunningIsSound
    BY DEF IInv
  <1> QED BY Inductive, <1>1, PTL

\* Likewise stop() returns from a stopped engine only.
THEOREM StopIsCompleteCorrect == Spec => []StopIsComplete
  <1>1. IInv => StopIsComplete
    BY DEF IInv, SoleInv, StopIsComplete
  <1> QED BY Inductive, <1>1, PTL

\* A change of interfaces is reported as applied, or as rolled back, only with
\* a bound worker on each interface selected and on no other.
THEOREM ReportIsVerifiedCorrect == Spec => ReportIsVerified
  <1> DEFINE Report ==
        Verifying /\ why' = "none" /\ update' \in {"applied", "rolled_back"}
          => selected = {} \/ ReadyInterfaces = selected
  <1>1. ASSUME IInv, [Next]_vars PROVE Report
    <2>1. CASE VerifyPasses
      BY <1>1, <2>1 DEF VerifyPasses, Verifying, IInv, ChangeInv
    <2>2. CASE VerifyFails \/ Crash
      BY <2>2 DEF VerifyFails, Crash
    <2>3. CASE StartEngine \/ StopEngine \/ StopReturns \/ StartReturns
      BY <2>3 DEF StartEngine, StopEngine, StopReturns, StartReturns,
        Verifying, Enter
    <2>4. ASSUME NEW sel \in Selections,
                 SaveInterfaces(sel) \/ ChangeInterfaces(sel)
          PROVE  Report
      BY <2>4 DEF SaveInterfaces, ChangeInterfaces, Verifying, Enter
    <2>5. CASE why' = why
      BY <2>5 DEF Verifying
    <2>6. ASSUME NEW level \in [Kinds -> Levels],
                 Trip(level) \/ Resume(level) \/ Watch(level)
          PROVE  why' = why
      BY <2>6 DEF Trip, Resume, Watch, ctlVars
    <2>7. DriversKept \/ GuardReturns \/ UNCHANGED vars => why' = why
      BY DEF DriversKept, GuardReturns, ctlVars, vars
    <2> QED
      BY <1>1, NextCases, <2>1, <2>2, <2>3, <2>4, <2>5, <2>6, <2>7
  <1> QED BY Inductive, <1>1, PTL DEF Spec, ReportIsVerified

\* A worker that exits late clears nobody's readiness but its own: readiness is
\* lost to stop(), to a new start or to the worker's own end.
THEOREM ReadinessKeptCorrect == Spec => ReadinessKept
  <1> DEFINE Steady ==
        \A i \in Interfaces :
          ready[i] # NoWorker /\ ready'[i] = NoWorker
            => worker'[ready[i]] # "loop" \/ ~running' \/ gen' # gen
  <1>1. ASSUME IInv, [Next]_vars PROVE Steady
    <2>1. ASSUME NEW c \in Callers, MarkStopped(c) \/ Start(c) PROVE Steady
      BY <1>1, <2>1 DEF MarkStopped, Start, IInv, TypeOK, SnifferTypeOK
    <2>2. ASSUME NEW w \in Workers, Bind(w) PROVE Steady
      BY <1>1, <2>2, SnifferAssumption
      DEF Bind, IInv, TypeOK, SnifferTypeOK
    <2>3. ASSUME NEW w \in Workers, Unready(w) PROVE Steady
      BY <1>1, <2>3 DEF Unready, IInv, TypeOK, SnifferTypeOK
    <2>4. CASE Crash
      BY <2>4 DEF Crash
    <2>5. CASE ready' = ready
      BY <2>5
    <2>6. ASSUME NEW c \in Callers,
                 \/ RaiseStop(c) \/ JoinCapture(c) \/ CloseCache(c)
                 \/ StartRefused(c)
          PROVE  ready' = ready
      BY <2>6 DEF RaiseStop, JoinCapture, CloseCache, StartRefused
    <2>7. ASSUME NEW w \in Workers,
                 BindFails(w) \/ LastOneOut(w) \/ ThreadEnds(w)
          PROVE  ready' = ready
      BY <2>7 DEF BindFails, LastOneOut, ThreadEnds
    <2>8. ASSUME NEW w \in Workers,
                 SeesStop(w) \/ GivesUp(w) \/ StartupFailed(w)
          PROVE  Unready(w)
      BY <2>8 DEF SeesStop, GivesUp, StartupFailed
    <2>9. ASSUME NEW i \in Interfaces, InterfaceGone(i) PROVE ready' = ready
      BY <2>9 DEF InterfaceGone
    <2>10. ASSUME NEW sel \in Selections,
                  SaveInterfaces(sel) \/ ChangeInterfaces(sel)
           PROVE  ready' = ready
      BY <2>10 DEF SaveInterfaces, ChangeInterfaces
    <2>11. ASSUME NEW level \in [Kinds -> Levels],
                  Trip(level) \/ Resume(level) \/ Watch(level)
           PROVE  ready' = ready
      BY <2>11 DEF Trip, Resume, Watch, snifferVars
    <2>12. ASSUME \/ StartEngine \/ StopEngine \/ StopReturns
                  \/ StartReturns \/ VerifyPasses \/ VerifyFails
                  \/ GuardReturns \/ UNCHANGED vars
           PROVE  ready' = ready
      BY <2>12 DEF StartEngine, StopEngine, StopReturns, StartReturns, VerifyPasses,
        VerifyFails, GuardReturns, vars, snifferVars
    <2> HIDE DEF Steady
    <2> QED
      BY <1>1, NextCases, <2>1, <2>2, <2>3, <2>4, <2>5, <2>6, <2>7, <2>8,
        <2>9, <2>10, <2>11, <2>12
  <1> QED BY Inductive, <1>1, PTL DEF Spec, ReadinessKept

-----------------------------------------------------------------------------
(* Realtime: types, and what ClientsMissNothing rests on. *)

EventItems == [k : {"event"}, n : Nat]
Items == EventItems \cup [k : {"snap"}, feed : Feeds] \cup {Reply} \cup [k : {"close"}, code : Nat]
Stages == {"none", "first", "greet", "loop", "leave", "abandoned", "ended"}
SessionRec ==
  [st : Stages, kind : {"stream", "socket"}, q : Seq(Items), seen : Seq(Items), closed : BOOLEAN, listed : BOOLEAN,
   broken : BOOLEAN, joined : Nat, stale : Nat]
FeedRec == [feed : Feeds \cup {"none"}, due : BOOLEAN]
SinkRec == [q : Seq(Nat), hand : Nat, st : {"run", "ended"}, offered : Nat, dropped : Nat, told : Nat]

RealtimeTypes ==
  /\ sink \in SinkRec /\ stop \in BOOLEAN /\ down \in {"up", "stopping", "sink", "down"} /\ work \in Nat
  /\ hub \in [n : Nat, in : UNION {[D -> FeedRec] : D \in SUBSET Clients}] /\ IsFiniteSet(Registered)
  /\ session \in [Clients -> SessionRec]
  /\ pusher \in [st : {"dead", "wait", "push"}, due : Seq(Clients \X Feeds)]

\* A session's items are the broadcasts from the one it joined at on, and nothing follows a close event; a socket's
\* are all on the wire.
AllOf(s) == s.seen \o s.q
EventsIn(s) == Kept(AllOf(s), EventItems)
Orderly(s) ==
  /\ \A i \in 1..Len(EventsIn(s)) : EventsIn(s)[i].n = s.joined + i
  /\ \A i \in 1..Len(AllOf(s)) : AllOf(s)[i].k = "close" => i = Len(AllOf(s)) /\ s.closed
  /\ s.kind = "socket" => s.q = <<>>

\* A client the hub feeds has every broadcast so far.
UpToDate(s, n) == ~s.closed /\ ~s.broken => Len(EventsIn(s)) = n - s.joined

\* The pusher's list has a client once, and one that has left the feed it is listed with got nothing stale yet.
Away(c, feed) == c \notin Registered \/ hub.in[c].feed # feed
PusherInv ==
  /\ \A i, k \in DOMAIN pusher.due : pusher.due[i][1] = pusher.due[k][1] => i = k
  /\ \A i \in DOMAIN pusher.due :
       Away(pusher.due[i][1], pusher.due[i][2]) /\ ~session[pusher.due[i][1]].closed =>
         session[pusher.due[i][1]].stale = 0

RealtimeInv ==
  /\ RealtimeTypes /\ SinkAddsUp /\ OneStaleSnapshot /\ PusherInv
  /\ \A c \in Clients : Orderly(session[c])
  /\ \A c \in Registered : UpToDate(session[c], hub.n)


\* The kinds of items.
LEMMA ItemKinds ==
  /\ EventItems \subseteq Items /\ \A e \in EventItems : e.k = "event" /\ e.n \in Nat
  /\ \A n \in Nat : Event(n) \in EventItems /\ Event(n).n = n
  /\ \A feed \in Feeds : Snap(feed) \in Items /\ Snap(feed).k = "snap"
  /\ Reply \in Items /\ Reply.k = "reply"
  /\ \A code \in Nat : Close(code) \in Items /\ Close(code).k = "close"
  /\ \A e \in Items : e.k = "event" <=> e \in EventItems
  <1>1. EventItems \subseteq Items /\ \A e \in EventItems : e.k = "event" /\ e.n \in Nat
    BY DEF EventItems, Items
  <1>2. \A n \in Nat : Event(n) \in EventItems /\ Event(n).n = n
    BY DEF Event, EventItems
  <1>3. \A feed \in Feeds : Snap(feed) \in Items /\ Snap(feed).k = "snap"
    BY DEF Snap, Items
  <1>4. Reply \in Items /\ Reply.k = "reply"
    BY DEF Reply, Items
  <1>5. \A code \in Nat : Close(code) \in Items /\ Close(code).k = "close"
    BY DEF Close, Items
  <1>6. ASSUME NEW e \in Items PROVE e.k = "event" <=> e \in EventItems
    <2>1. CASE e \in EventItems
      BY <1>1, <2>1
    <2>2. CASE e \in [k : {"snap"}, feed : Feeds]
      <3>1. e.k = "snap"
        BY <2>2
      <3> QED BY <1>1, <3>1
    <2>3. CASE e = Reply
      BY <1>1, <1>4, <2>3
    <2>4. CASE e \in [k : {"close"}, code : Nat]
      <3>1. e.k = "close"
        BY <2>4
      <3> QED BY <1>1, <3>1
    <2> QED BY <2>1, <2>2, <2>3, <2>4 DEF Items
  <1> QED BY <1>1, <1>2, <1>3, <1>4, <1>5, <1>6

\* The fields of a session.
LEMMA SessionFields ==
  ASSUME NEW s \in SessionRec
  PROVE  /\ s.st \in Stages /\ s.kind \in {"stream", "socket"} /\ s.q \in Seq(Items) /\ s.seen \in Seq(Items)
         /\ s.closed \in BOOLEAN /\ s.listed \in BOOLEAN /\ s.broken \in BOOLEAN /\ s.joined \in Nat /\ s.stale \in Nat
         /\ AllOf(s) \in Seq(Items) /\ EventsIn(s) \in Seq(Items) /\ Len(EventsIn(s)) \in Nat
  <1>1. /\ s.st \in Stages /\ s.kind \in {"stream", "socket"} /\ s.q \in Seq(Items) /\ s.seen \in Seq(Items)
        /\ s.closed \in BOOLEAN /\ s.listed \in BOOLEAN /\ s.broken \in BOOLEAN /\ s.joined \in Nat /\ s.stale \in Nat
    BY DEF SessionRec
  <1>2. AllOf(s) \in Seq(Items)
    BY <1>1, ConcatProperties DEF AllOf
  <1>3. EventsIn(s) \in Seq(Items)
    BY <1>2, KeptFacts DEF EventsIn
  <1>4. Len(EventsIn(s)) \in Nat
    BY <1>3, LenProperties
  <1> QED BY <1>1, <1>2, <1>3, <1>4

\* What putting and closing leave alone.
Same(s, v) ==
  v.st = s.st /\ v.kind = s.kind /\ v.listed = s.listed /\ v.broken = s.broken /\ v.joined = s.joined /\ v.stale = s.stale

\* A session that got one more item, or none.
LEMMA ItemAdded ==
  ASSUME NEW s \in SessionRec, NEW v \in SessionRec, NEW item \in Items, Orderly(s), ~s.closed,
         AllOf(v) = Append(AllOf(s), item), v.joined = s.joined, v.kind = s.kind,
         v.kind = "socket" => v.q = <<>>,
         item.k = "event" => item.n = s.joined + Len(EventsIn(s)) + 1, item.k = "close" => v.closed
  PROVE  /\ Orderly(v)
         /\ item.k = "event" => Len(EventsIn(v)) = Len(EventsIn(s)) + 1
         /\ item.k # "event" => EventsIn(v) = EventsIn(s)
  <1>1. PICK a \in Seq(Items) : a = AllOf(s)
    BY SessionFields
  <1>2. PICK es \in Seq(Items) : es = EventsIn(s) /\ es = Kept(a, EventItems)
    BY <1>1, SessionFields DEF EventsIn
  <1>3. PICK m \in Nat : m = Len(es)
    BY <1>2, LenProperties
  <1>4. PICK j \in Nat : j = s.joined
    BY SessionFields
  <1>5. PICK b \in Seq(Items) : b = AllOf(v) /\ b = Append(a, item)
    BY <1>1, SessionFields
  <1>6. \A i \in 1..m : es[i].n = j + i
    BY <1>2, <1>3, <1>4 DEF Orderly
  <1>7. /\ item.k = "event" => EventsIn(v) = Append(es, item)
        /\ item.k # "event" => EventsIn(v) = es
    <2>1. EventsIn(v) = Kept(Append(a, item), EventItems)
      BY <1>5 DEF EventsIn
    <2>2. item.k = "event" <=> item \in EventItems
      BY ItemKinds
    <2>3. /\ item \in EventItems => Kept(Append(a, item), EventItems) = Append(Kept(a, EventItems), item)
          /\ item \notin EventItems => Kept(Append(a, item), EventItems) = Kept(a, EventItems)
      BY KeptAppend
    <2> QED BY <1>2, <2>1, <2>2, <2>3
  <1>8. ASSUME NEW i \in 1..Len(EventsIn(v)) PROVE EventsIn(v)[i].n = v.joined + i
    <2>1. CASE item.k = "event"
      <3>1. PICK f \in Seq(Items) : f = EventsIn(v) /\ f = Append(es, item)
        BY <1>7, <2>1, SessionFields
      <3>2. Len(f) = m + 1 /\ f[m + 1] = item /\ \A k \in 1..m : f[k] = es[k]
        BY <1>3, <3>1, AppendProperties
      <3>3. item.n = j + m + 1
        BY <1>2, <1>3, <1>4, <2>1
      <3>4. CASE i = m + 1
        <4>1. EventsIn(v)[i] = item
          BY <3>1, <3>2, <3>4
        <4>2. item.n = j + i /\ v.joined = j
          <5>1. item.n = j + i
            <6>1. item.n = j + (m + 1)
              <7>1. \A x, y \in Nat : x + y + 1 = x + (y + 1)
                OBVIOUS
              <7> QED BY <3>3, <7>1
            <6> QED BY <3>4, <6>1
          <5> QED BY <1>4, <5>1
        <4> QED BY <4>1, <4>2
      <3>5. CASE i # m + 1
        <4>1. i \in 1..m
          BY <3>1, <3>2, <3>5
        <4> QED BY <1>4, <1>6, <3>1, <3>2, <4>1
      <3> QED BY <3>4, <3>5
    <2>2. CASE item.k # "event"
      BY <1>2, <1>3, <1>4, <1>6, <1>7, <2>2
    <2> QED BY <2>1, <2>2
  <1>9. ASSUME NEW i \in 1..Len(AllOf(v)), AllOf(v)[i].k = "close" PROVE i = Len(AllOf(v)) /\ v.closed
    <2>1. PICK p \in Nat : p = Len(a)
      BY LenProperties
    <2>2. Len(b) = p + 1 /\ b[p + 1] = item /\ \A k \in 1..p : b[k] = a[k]
      BY <1>5, <2>1, AppendProperties
    <2>3. \A k \in 1..p : a[k].k # "close"
      BY <1>1, <2>1 DEF Orderly
    <2>4. i = p + 1
      BY <1>5, <1>9, <2>2, <2>3
    <2> QED BY <1>5, <1>9, <2>2, <2>4
  <1>10. Orderly(v)
    BY <1>8, <1>9 DEF Orderly
  <1>11. item.k = "event" => Len(EventsIn(v)) = Len(EventsIn(s)) + 1
    <2>1. SUFFICES ASSUME item.k = "event" PROVE Len(EventsIn(v)) = Len(EventsIn(s)) + 1
      OBVIOUS
    <2>2. Len(Append(es, item)) = Len(es) + 1
      BY AppendProperties
    <2> QED BY <1>2, <1>7, <2>1, <2>2
  <1> QED BY <1>2, <1>7, <1>10, <1>11

\* A session whose items stay is as orderly as it was.
LEMMA ItemsKept ==
  ASSUME NEW s \in SessionRec, NEW v \in SessionRec, Orderly(s), AllOf(v) = AllOf(s), v.joined = s.joined,
         v.kind = "socket" => v.q = <<>>, s.closed => v.closed
  PROVE  Orderly(v) /\ EventsIn(v) = EventsIn(s)
  <1>1. EventsIn(v) = EventsIn(s)
    BY DEF EventsIn
  <1>2. \A i \in 1..Len(EventsIn(s)) : EventsIn(s)[i].n = s.joined + i
    BY DEF Orderly
  <1>3. \A i \in 1..Len(AllOf(s)) : AllOf(s)[i].k = "close" => i = Len(AllOf(s)) /\ s.closed
    BY DEF Orderly
  <1>4. \A i \in 1..Len(EventsIn(v)) : EventsIn(v)[i].n = v.joined + i
    BY <1>1, <1>2
  <1>5. \A i \in 1..Len(AllOf(v)) : AllOf(v)[i].k = "close" => i = Len(AllOf(v)) /\ v.closed
    BY <1>3
  <1> QED BY <1>1, <1>4, <1>5 DEF Orderly

\* Items that leave the queue for the client, and those put in it, land at the end.
LEMMA LandsFacts ==
  ASSUME NEW s \in SessionRec, NEW item \in Items, Orderly(s), NEW v, v = Lands(s, item)
  PROVE  /\ v \in SessionRec /\ Same(s, v) /\ v.closed = s.closed /\ (v.kind = "socket" => v.q = <<>>)
         /\ \/ AllOf(v) = Append(AllOf(s), item)
            \/ AllOf(v) = AllOf(s) /\ item.k # "event" /\ item.k # "close"
  <1>1. s.q \in Seq(Items) /\ s.seen \in Seq(Items) /\ s.kind \in {"stream", "socket"}
    BY SessionFields
  <1>2. CASE s.kind = "socket"
    <2>1. s.q = <<>> /\ AllOf(s) = s.seen
      <3>1. s.q = <<>>
        BY <1>2 DEF Orderly
      <3>2. s.seen \o <<>> = s.seen
        BY <1>1, ConcatEmptySeq
      <3> QED BY <3>1, <3>2 DEF AllOf
    <2>2. CASE item.k \in {"event", "close"}
      <3>1. PICK u \in Seq(Items) : u = Append(s.seen, item)
        BY <1>1, AppendProperties
      <3>2. v = [s EXCEPT !.seen = u]
        BY <1>2, <2>2, <3>1 DEF Lands, Reads, IsSocket
      <3>3. /\ v \in SessionRec /\ Same(s, v) /\ v.closed = s.closed /\ v.q = s.q /\ v.seen = u
        BY <3>2 DEF SessionRec, Same
      <3>4. AllOf(v) = u
        BY <2>1, <3>3, ConcatEmptySeq DEF AllOf
      <3> QED BY <2>1, <3>1, <3>3, <3>4
    <2>3. CASE item.k \notin {"event", "close"}
      <3>1. v = s
        BY <1>2, <2>3 DEF Lands, Reads, IsSocket
      <3> QED BY <2>1, <2>3, <3>1 DEF Same
    <2> QED BY <2>2, <2>3
  <1>3. CASE s.kind # "socket"
    <2>1. PICK u \in Seq(Items) : u = Append(s.q, item)
      BY <1>1, AppendProperties
    <2>2. v = [s EXCEPT !.q = u]
      BY <1>3, <2>1 DEF Lands, IsSocket
    <2>3. /\ v \in SessionRec /\ Same(s, v) /\ v.closed = s.closed /\ v.q = u /\ v.seen = s.seen
      BY <2>2 DEF SessionRec, Same
    <2>4. s.seen \o u = Append(s.seen \o s.q, item)
      <3>1. PICK a \in Seq(Items), b \in Seq(Items) : a = s.seen /\ b = s.q
        BY <1>1
      <3>2. a \o Append(b, item) = Append(a \o b, item)
        BY ConcatAppend
      <3> QED BY <2>1, <3>1, <3>2
    <2>5. AllOf(v) = Append(AllOf(s), item)
      BY <2>3, <2>4 DEF AllOf
    <2> QED BY <1>3, <2>3, <2>5 DEF Same
  <1> QED BY <1>2, <1>3

\* A close is the last item, and closes.
LEMMA CloseFacts ==
  ASSUME NEW s \in SessionRec, Orderly(s), NEW code \in Nat, NEW v, v = CloseSession(s, code)
  PROVE  v \in SessionRec /\ Orderly(v) /\ Same(s, v) /\ v.closed
  <1>1. CASE s.closed
    BY <1>1 DEF CloseSession, Same
  <1>2. CASE ~s.closed /\ IsSocket(s) /\ s.broken
    <2>1. v = [s EXCEPT !.closed = TRUE]
      BY <1>2 DEF CloseSession
    <2>2. v \in SessionRec /\ Same(s, v) /\ v.closed /\ v.q = s.q /\ v.seen = s.seen
      BY <2>1 DEF SessionRec, Same
    <2>3. v.kind = "socket" => v.q = <<>>
      BY <2>2 DEF Same, Orderly
    <2>4. AllOf(v) = AllOf(s) /\ v.joined = s.joined
      BY <2>2 DEF AllOf, Same
    <2> QED BY <2>2, <2>3, <2>4, ItemsKept
  <1>3. CASE ~s.closed /\ ~(IsSocket(s) /\ s.broken)
    <2>1. PICK item \in Items : item = Close(code) /\ item.k = "close"
      BY ItemKinds
    <2>2. PICK w : w = Lands(s, item)
      OBVIOUS
    <2>3. /\ w \in SessionRec /\ Same(s, w) /\ (w.kind = "socket" => w.q = <<>>) /\ AllOf(w) = Append(AllOf(s), item)
      BY <2>1, <2>2, LandsFacts
    <2>4. v = [w EXCEPT !.closed = TRUE]
      BY <1>3, <2>1, <2>2 DEF CloseSession
    <2>5. v \in SessionRec /\ Same(w, v) /\ v.closed /\ v.q = w.q /\ v.seen = w.seen
      BY <2>3, <2>4 DEF SessionRec, Same
    <2>6. AllOf(v) = Append(AllOf(s), item) /\ Same(s, v) /\ (v.kind = "socket" => v.q = <<>>)
      BY <2>3, <2>5 DEF AllOf, Same
    <2>7. Orderly(v)
      <3>1. v.joined = s.joined /\ v.kind = s.kind /\ item.k # "event"
        BY <2>1, <2>6 DEF Same
      <3> QED BY <1>3, <2>1, <2>5, <2>6, <3>1, ItemAdded
    <2> QED BY <2>5, <2>6, <2>7
  <1> QED BY <1>1, <1>2, <1>3

\* A put adds an item to a session that has room, and closes one that has none.
LEMMA PutFacts ==
  ASSUME NEW s \in SessionRec, NEW item \in Items, Orderly(s), item.k # "close",
         item.k = "event" /\ ~Refused(s) => item.n = s.joined + Len(EventsIn(s)) + 1,
         NEW v, v = Put(s, item)
  PROVE  /\ v \in SessionRec /\ Orderly(v) /\ Same(s, v) /\ (s.closed => v.closed)
         /\ Refused(s) => v.closed \/ v.broken
         /\ ~Refused(s) => /\ v.closed = s.closed
                           /\ Len(EventsIn(v)) = Len(EventsIn(s)) + (IF item.k = "event" THEN 1 ELSE 0)
  <1>1. CASE s.closed \/ s.broken
    <2>1. v = s
      BY <1>1 DEF Put
    <2> QED BY <1>1, <2>1 DEF Same, Refused
  <1>2. CASE ~(s.closed \/ s.broken) /\ Len(s.q) >= QueueLimit
    <2>1. v = CloseSession(s, 1013) /\ 1013 \in Nat
      BY <1>2 DEF Put
    <2>2. v \in SessionRec /\ Orderly(v) /\ Same(s, v) /\ v.closed
      BY <2>1, CloseFacts
    <2> QED BY <1>2, <2>2 DEF Refused
  <1>3. CASE ~(s.closed \/ s.broken) /\ ~(Len(s.q) >= QueueLimit)
    <2>1. v = Lands(s, item) /\ ~Refused(s)
      BY <1>3 DEF Put, Refused
    <2>2. /\ v \in SessionRec /\ Same(s, v) /\ v.closed = s.closed /\ (v.kind = "socket" => v.q = <<>>)
          /\ \/ AllOf(v) = Append(AllOf(s), item)
             \/ AllOf(v) = AllOf(s) /\ item.k # "event" /\ item.k # "close"
      BY <2>1, LandsFacts
    <2>3. v.joined = s.joined /\ v.kind = s.kind /\ Len(EventsIn(s)) \in Nat
      BY <2>2, SessionFields DEF Same
    <2>4. CASE AllOf(v) = Append(AllOf(s), item)
      <3>1. /\ Orderly(v)
            /\ item.k = "event" => Len(EventsIn(v)) = Len(EventsIn(s)) + 1
            /\ item.k # "event" => EventsIn(v) = EventsIn(s)
        BY <1>3, <2>1, <2>2, <2>3, <2>4, ItemAdded
      <3>2. Len(EventsIn(v)) = Len(EventsIn(s)) + (IF item.k = "event" THEN 1 ELSE 0)
        BY <2>3, <3>1
      <3> QED BY <2>1, <2>2, <3>1, <3>2
    <2>5. CASE AllOf(v) = AllOf(s) /\ item.k # "event" /\ item.k # "close"
      <3>1. Orderly(v) /\ EventsIn(v) = EventsIn(s)
        BY <2>2, <2>3, <2>5, ItemsKept
      <3>2. Len(EventsIn(v)) = Len(EventsIn(s)) + (IF item.k = "event" THEN 1 ELSE 0)
        BY <2>3, <2>5, <3>1
      <3> QED BY <2>1, <2>2, <3>1, <3>2
    <2> QED BY <2>2, <2>4, <2>5
  <1> QED BY <1>1, <1>2, <1>3

\* A stream's session once its client got the first item of the queue.
Yielded(s) ==
  [Reads(s, Head(s.q)) EXCEPT !.q = Tail(s.q), !.st = IF Head(s.q).k = "close" THEN "leave" ELSE s.st]

\* That keeps it orderly: a close among its items is still the last.
LEMMA YieldFacts ==
  ASSUME NEW s \in SessionRec, Orderly(s), s.kind # "socket", s.q # <<>>, NEW v
  PROVE  v = Yielded(s) =>
           /\ v \in SessionRec /\ Orderly(v) /\ Len(EventsIn(v)) = Len(EventsIn(s))
           /\ v.closed = s.closed /\ v.broken = s.broken /\ v.joined = s.joined /\ v.stale = s.stale
  <1>0. SUFFICES ASSUME v = Yielded(s)
                 PROVE  /\ v \in SessionRec /\ Orderly(v) /\ Len(EventsIn(v)) = Len(EventsIn(s))
                        /\ v.closed = s.closed /\ v.broken = s.broken /\ v.joined = s.joined /\ v.stale = s.stale
    OBVIOUS
  <1>1. PICK a \in Seq(Items), b \in Seq(Items) : a = s.seen /\ b = s.q
    BY SessionFields
  <1>2. b # <<>>
    BY <1>1
  <1>3. PICK e \in Items, u \in Seq(Items) : e = Head(b) /\ u = Tail(b) /\ b = <<e>> \o u
    BY <1>2, HeadFirst
  <1>4. PICK st \in Stages : st = IF e.k = "close" THEN "leave" ELSE s.st
    BY SessionFields DEF Stages
  <1>5. PICK w \in SessionRec : /\ w = Reads(s, e) /\ w.q = b /\ w.st = s.st
                                /\ w.seen = IF e.k \in {"event", "close"} THEN Append(a, e) ELSE a
                                /\ w.closed = s.closed /\ w.broken = s.broken /\ w.joined = s.joined
                                /\ w.stale = s.stale /\ w.kind = s.kind
    <2>1. CASE e.k \in {"event", "close"}
      <3>1. PICK f \in Seq(Items) : f = Append(a, e)
        BY AppendProperties
      <3>2. PICK w : w = [s EXCEPT !.seen = f]
        OBVIOUS
      <3>3. w \in SessionRec /\ w.seen = f /\ w.q = s.q /\ w.st = s.st /\ w.closed = s.closed /\ w.broken = s.broken
            /\ w.joined = s.joined /\ w.stale = s.stale /\ w.kind = s.kind
        BY <3>2 DEF SessionRec
      <3>4. w = Reads(s, e)
        BY <1>1, <2>1, <3>1, <3>2 DEF Reads
      <3> QED BY <1>1, <2>1, <3>1, <3>3, <3>4
    <2>2. CASE e.k \notin {"event", "close"}
      BY <1>1, <2>2 DEF Reads
    <2> QED BY <2>1, <2>2
  <1>6. /\ v \in SessionRec /\ v.q = u /\ v.seen = w.seen /\ v.closed = s.closed /\ v.broken = s.broken
        /\ v.joined = s.joined /\ v.stale = s.stale /\ v.kind = s.kind
    <2>1. v = [w EXCEPT !.q = u, !.st = st]
      BY <1>0, <1>1, <1>3, <1>4, <1>5 DEF Yielded
    <2> QED BY <1>5, <2>1 DEF SessionRec
  <1>7. CASE e.k \in {"event", "close"}
    <2>1. Append(a, e) \o u = a \o b
      <3>1. Append(a, Head(b)) \o Tail(b) = a \o b
        BY <1>2, HeadMoves
      <3> QED BY <1>3, <3>1
    <2>2. AllOf(v) = AllOf(s)
      BY <1>1, <1>5, <1>6, <1>7, <2>1 DEF AllOf
    <2> QED BY <1>6, <2>2, ItemsKept
  <1>8. CASE e.k \notin {"event", "close"}
    <2>1. PICK all \in Seq(Items) : all = a \o b
      BY ConcatProperties
    <2>2. PICK now \in Seq(Items) : now = a \o u
      BY ConcatProperties
    <2>3. AllOf(s) = all /\ AllOf(v) = now
      BY <1>1, <1>5, <1>6, <1>8, <2>1, <2>2 DEF AllOf
    <2>4. Kept(now, EventItems) = Kept(all, EventItems)
      <3>1. e \notin EventItems
        BY <1>8, ItemKinds
      <3>2. \A S : Head(b) \notin S => Kept(a \o Tail(b), S) = Kept(a \o b, S)
        BY <1>2, MiddleDropped
      <3>3. PICK S : S = EventItems
        OBVIOUS
      <3>4. Head(b) \notin S
        BY <1>3, <3>1, <3>3
      <3>5. Kept(a \o Tail(b), S) = Kept(a \o b, S)
        BY <3>2, <3>4
      <3> QED BY <1>3, <2>1, <2>2, <3>3, <3>5
    <2>5. EventsIn(v) = EventsIn(s)
      BY <2>3, <2>4 DEF EventsIn
    <2>6. PICK m \in Nat, p \in Nat : m = Len(a) /\ p = Len(u)
      BY LenProperties
    <2>7. /\ Len(now) = m + p /\ Len(all) = m + (p + 1)
          /\ \A i \in 1..m : now[i] = a[i] /\ all[i] = a[i]
          /\ \A i \in 1..p : now[m + i] = u[i] /\ all[m + (i + 1)] = u[i]
      BY <1>2, <1>3, <2>1, <2>2, <2>6, MiddleDropped
    <2>8. \A i \in 1..(m + (p + 1)) : all[i].k = "close" => i = m + (p + 1) /\ s.closed
      BY <2>3, <2>7 DEF Orderly
    <2>9. ASSUME NEW i \in 1..(m + p), now[i].k = "close" PROVE i = m + p /\ v.closed
      <3>1. CASE i <= m
        <4>1. all[i].k = "close" /\ i \in 1..(m + (p + 1)) /\ i # m + (p + 1)
          BY <2>6, <2>7, <2>9, <3>1
        <4> QED BY <2>8, <4>1
      <3>2. CASE ~(i <= m)
        <4>1. PICK j \in 1..p : i = m + j
          <5>1. i - m \in 1..p /\ i = m + (i - m)
            BY <2>6, <3>2
          <5> QED BY <5>1
        <4>2. all[m + (j + 1)].k = "close" /\ m + (j + 1) \in 1..(m + (p + 1))
          <5>1. all[m + (j + 1)] = now[i]
            BY <2>7, <4>1
          <5> QED BY <2>6, <2>9, <5>1
        <4>3. m + (j + 1) = m + (p + 1) /\ s.closed
          BY <2>8, <4>2
        <4>4. j = p
          BY <2>6, <4>1, <4>3
        <4> QED BY <1>6, <4>1, <4>3, <4>4
      <3> QED BY <3>1, <3>2
    <2>10. Orderly(v)
      <3>1. \A i \in 1..Len(EventsIn(v)) : EventsIn(v)[i].n = v.joined + i
        BY <1>6, <2>5 DEF Orderly
      <3>2. \A i \in 1..Len(AllOf(v)) : AllOf(v)[i].k = "close" => i = Len(AllOf(v)) /\ v.closed
        BY <2>3, <2>7, <2>9
      <3> QED BY <1>6, <3>1, <3>2 DEF Orderly
    <2> QED BY <1>6, <2>5, <2>10
  <1> QED BY <1>7, <1>8

\* A session nothing has happened in yet.
LEMMA FreshSession ==
  ASSUME NEW s \in SessionRec, s.q = <<>>, s.seen = <<>>
  PROVE  Orderly(s) /\ Len(EventsIn(s)) = 0
  <1>1. <<>> \in Seq(Items) /\ Len(<<>>) = 0
    BY EmptySeq
  <1>2. AllOf(s) = <<>>
    BY <1>1, ConcatEmptySeq DEF AllOf
  <1>3. EventsIn(s) = <<>>
    <2>1. \A i \in DOMAIN <<>> : FALSE
      BY EmptySeq
    <2> QED BY <1>1, <1>2, <2>1, KeptSizes DEF EventsIn
  <1> QED BY <1>1, <1>2, <1>3 DEF Orderly

\* What a step of any kind has to keep.
LEMMA StepKeeps ==
  ASSUME RealtimeInv, RealtimeTypes', SinkAddsUp', pusher' = pusher \/ pusher'.due = pusher.due \/ pusher'.due = <<>>,
         \A c \in Clients : Orderly(session'[c]) /\ session'[c].stale <= 1,
         \A c \in Registered' : UpToDate(session'[c], hub'.n),
         \A c \in Clients :
           \/ session'[c].closed \/ session'[c].stale = 0
           \/ /\ session'[c].stale = session[c].stale /\ (session[c].closed => session'[c].closed)
              /\ \A feed \in Feeds : (c \notin Registered' \/ hub'.in[c].feed # feed) => Away(c, feed)
  PROVE  RealtimeInv'
  <1>1. OneStaleSnapshot'
    BY DEF OneStaleSnapshot
  <1>2. \A c \in Clients : Orderly(session[c])'
    BY DEF Orderly, EventsIn, AllOf
  <1>3. \A c \in Registered' : UpToDate(session[c], hub.n)'
    BY DEF UpToDate, EventsIn, AllOf
  <1>4. PusherInv'
    <2>1. CASE pusher'.due = <<>>
      <3>1. DOMAIN pusher'.due = {}
        BY <2>1
      <3> QED BY <3>1 DEF PusherInv
    <2>2. CASE pusher'.due = pusher.due
      <3>1. \A i, k \in DOMAIN pusher'.due : pusher'.due[i][1] = pusher'.due[k][1] => i = k
        BY <2>2 DEF RealtimeInv, PusherInv
      <3>2. ASSUME NEW i \in DOMAIN pusher'.due,
                   pusher'.due[i][1] \notin Registered' \/ hub'.in[pusher'.due[i][1]].feed # pusher'.due[i][2],
                   ~session'[pusher'.due[i][1]].closed
            PROVE  session'[pusher'.due[i][1]].stale = 0
        <4>1. PICK c \in Clients, feed \in Feeds : c = pusher.due[i][1] /\ feed = pusher.due[i][2]
          <5>1. pusher.due \in Seq(Clients \X Feeds) /\ i \in 1..Len(pusher.due)
            BY <2>2 DEF RealtimeInv, RealtimeTypes
          <5>2. pusher.due[i] \in Clients \X Feeds
            BY <5>1, ElementOfSeq
          <5> QED BY <5>2
        <4>2. c = pusher'.due[i][1] /\ feed = pusher'.due[i][2] /\ i \in DOMAIN pusher.due
          BY <2>2, <4>1
        <4>3. ~session'[c].closed /\ (c \notin Registered' \/ hub'.in[c].feed # feed)
          BY <3>2, <4>2
        <4>4. SUFFICES ASSUME session'[c].stale # 0 PROVE FALSE
          BY <4>2
        <4>5. session'[c].stale = session[c].stale /\ ~session[c].closed /\ Away(c, feed)
          BY <4>3, <4>4
        <4>6. session[c].stale = 0
          BY <4>1, <4>2, <4>5 DEF RealtimeInv, PusherInv
        <4> QED BY <4>4, <4>5, <4>6
      <3> QED BY <3>1, <3>2 DEF PusherInv, Away, Registered
    <2> QED BY <2>1, <2>2
  <1> QED BY <1>1, <1>2, <1>3, <1>4 DEF RealtimeInv

\* The types of the hub and of a session in it.
LEMMA HubFacts ==
  ASSUME RealtimeInv
  PROVE  /\ hub = [n |-> hub.n, in |-> hub.in] /\ hub.n \in Nat /\ Registered \subseteq Clients /\ IsFiniteSet(Registered)
         /\ hub.in \in [Registered -> FeedRec]
         /\ \A c \in Clients : session[c] \in SessionRec /\ Orderly(session[c]) /\ session[c].stale \in {0, 1}
         /\ session \in [Clients -> SessionRec]
         /\ \A c \in Registered : ~Refused(session[c]) => Len(EventsIn(session[c])) = hub.n - session[c].joined
  <1>1. /\ hub \in [n : Nat, in : UNION {[D -> FeedRec] : D \in SUBSET Clients}] /\ IsFiniteSet(Registered)
        /\ session \in [Clients -> SessionRec]
    BY DEF RealtimeInv, RealtimeTypes
  <1>2. PICK D \in SUBSET Clients : hub.in \in [D -> FeedRec]
    BY <1>1
  <1>3. Registered = D
    BY <1>2 DEF Registered
  <1>4. ASSUME NEW c \in Clients
        PROVE  session[c] \in SessionRec /\ Orderly(session[c]) /\ session[c].stale \in {0, 1}
    <2>1. session[c] \in SessionRec /\ Orderly(session[c]) /\ session[c].stale <= 1
      BY <1>1 DEF RealtimeInv, OneStaleSnapshot
    <2>2. session[c].stale \in Nat
      BY <2>1, SessionFields
    <2> QED BY <2>1, <2>2
  <1>5. \A c \in Registered : ~Refused(session[c]) => Len(EventsIn(session[c])) = hub.n - session[c].joined
    BY DEF RealtimeInv, UpToDate, Refused
  <1>6. hub = [n |-> hub.n, in |-> hub.in] /\ hub.n \in Nat
    BY <1>1
  <1> QED BY <1>1, <1>2, <1>3, <1>4, <1>5, <1>6

\* Forgetting clients.
LEMMA WithoutFacts ==
  ASSUME RealtimeInv, NEW cs
  PROVE  /\ Without(hub.in, cs) \in [Registered \ cs -> FeedRec] /\ DOMAIN Without(hub.in, cs) = Registered \ cs
         /\ \A c \in Registered \ cs : Without(hub.in, cs)[c] = hub.in[c]
         /\ IsFiniteSet(Registered \ cs) /\ Registered \ cs \in SUBSET Clients
  <1>1. hub.in \in [Registered -> FeedRec] /\ Registered \subseteq Clients /\ IsFiniteSet(Registered)
    BY HubFacts
  <1>2. IsFiniteSet(Registered \ cs)
    BY <1>1, FS_Subset
  <1>3. DOMAIN hub.in = Registered
    BY DEF Registered
  <1> QED BY <1>1, <1>2, <1>3 DEF Without

\* A step of one client.
LEMMA OneClient ==
  ASSUME RealtimeInv, NEW c \in Clients, NEW v \in SessionRec, Orderly(v), v.stale <= 1, NEW D \in SUBSET (Registered \cup {c}),
         NEW in \in [D -> FeedRec], hub' = [n |-> hub.n, in |-> in], session' = [session EXCEPT ![c] = v],
         sink' = sink, down' = down, stop' \in BOOLEAN, work' \in Nat,
         pusher' = pusher \/ pusher' = [st |-> "wait", due |-> <<>>],
         \A d \in Registered \ {c} : d \in D /\ in[d].feed = hub.in[d].feed,
         c \in D => UpToDate(v, hub.n),
         \/ v.closed \/ v.stale = 0
         \/ /\ v.stale = session[c].stale /\ (session[c].closed => v.closed)
            /\ \A feed \in Feeds : (c \notin D \/ in[c].feed # feed) => Away(c, feed)
  PROVE  RealtimeInv'
  <1>1. /\ hub.n \in Nat /\ Registered \subseteq Clients /\ IsFiniteSet(Registered) /\ hub.in \in [Registered -> FeedRec]
        /\ session \in [Clients -> SessionRec]
        /\ \A d \in Clients : session[d] \in SessionRec /\ Orderly(session[d]) /\ session[d].stale \in {0, 1}
    BY HubFacts
  <1>2. Registered' = D /\ hub'.in = in /\ hub'.n = hub.n
    BY DEF Registered
  <1>3. session' \in [Clients -> SessionRec] /\ session'[c] = v /\ \A d \in Clients \ {c} : session'[d] = session[d]
    BY <1>1
  <1>4. IsFiniteSet(D) /\ D \in SUBSET Clients
    <2>1. IsFiniteSet(Registered \cup {c})
      BY <1>1, FS_AddElement
    <2> QED BY <1>1, <2>1, FS_Subset
  <1>5. pusher' \in [st : {"dead", "wait", "push"}, due : Seq(Clients \X Feeds)]
    <2>1. <<>> \in Seq(Clients \X Feeds)
      BY EmptySeq
    <2>2. pusher \in [st : {"dead", "wait", "push"}, due : Seq(Clients \X Feeds)]
      BY DEF RealtimeInv, RealtimeTypes
    <2>3. CASE pusher' = pusher
      BY <2>2, <2>3
    <2>4. CASE pusher' = [st |-> "wait", due |-> <<>>]
      <3>1. PICK none \in Seq(Clients \X Feeds) : none = <<>>
        BY <2>1
      <3>2. pusher' = [st |-> "wait", due |-> none]
        BY <2>4, <3>1
      <3> QED BY <3>2
    <2> QED BY <2>3, <2>4
  <1>6. RealtimeTypes'
    <2>1. hub' \in [n : Nat, in : UNION {[E -> FeedRec] : E \in SUBSET Clients}]
      BY <1>1, <1>4
    <2>2. IsFiniteSet(Registered)'
      BY <1>2, <1>4
    <2> QED BY <1>3, <1>5, <2>1, <2>2 DEF RealtimeInv, RealtimeTypes
  <1>7. SinkAddsUp'
    BY DEF RealtimeInv, SinkAddsUp
  <1>8. pusher' = pusher \/ pusher'.due = pusher.due \/ pusher'.due = <<>>
    OBVIOUS
  <1>9. \A d \in Clients : Orderly(session'[d]) /\ session'[d].stale <= 1
    <2>1. ASSUME NEW d \in Clients PROVE Orderly(session'[d]) /\ session'[d].stale <= 1
      <3>1. CASE d = c
        BY <1>3, <3>1
      <3>2. CASE d # c
        BY <1>1, <1>3, <3>2
      <3> QED BY <3>1, <3>2
    <2> QED BY <2>1
  <1>10. \A d \in Registered' : UpToDate(session'[d], hub'.n)
    <2>1. ASSUME NEW d \in D PROVE UpToDate(session'[d], hub.n)
      <3>1. CASE d = c
        BY <1>3, <2>1, <3>1
      <3>2. CASE d # c
        <4>1. d \in Registered /\ d \in Clients
          BY <1>1, <3>2
        <4> QED BY <1>3, <3>2, <4>1 DEF RealtimeInv
      <3> QED BY <3>1, <3>2
    <2> QED BY <1>2, <2>1
  <1>11. ASSUME NEW d \in Clients
         PROVE  \/ session'[d].closed \/ session'[d].stale = 0
                \/ /\ session'[d].stale = session[d].stale /\ (session[d].closed => session'[d].closed)
                   /\ \A feed \in Feeds : (d \notin Registered' \/ hub'.in[d].feed # feed) => Away(d, feed)
    <2>1. CASE d = c
      BY <1>2, <1>3, <2>1
    <2>2. CASE d # c
      <3>1. d \in Registered => d \in D /\ in[d].feed = hub.in[d].feed
        BY <2>2
      <3>2. d \in D => d \in Registered
        BY <2>2
      <3> QED BY <1>2, <1>3, <2>2, <3>1, <3>2 DEF Away
    <2> QED BY <2>1, <2>2
  <1> QED BY <1>6, <1>7, <1>8, <1>9, <1>10, <1>11, StepKeeps

\* A step of one client that leaves the hub alone.
LEMMA OneSession ==
  ASSUME RealtimeInv, NEW c \in Clients, NEW v \in SessionRec, Orderly(v), session' = [session EXCEPT ![c] = v],
         c \in Registered => UpToDate(v, hub.n), v.stale = session[c].stale, session[c].closed => v.closed,
         UNCHANGED <<sink, hub, pusher, stop, down>>, work' \in Nat
  PROVE  RealtimeInv'
  <1>1. /\ hub = [n |-> hub.n, in |-> hub.in] /\ hub.in \in [Registered -> FeedRec]
        /\ session[c].stale \in {0, 1}
    BY HubFacts
  <1>2. stop \in BOOLEAN /\ Registered \in SUBSET (Registered \cup {c}) /\ v.stale <= 1
    BY <1>1 DEF RealtimeInv, RealtimeTypes
  <1>3. PICK in \in [Registered -> FeedRec] : in = hub.in /\ hub' = [n |-> hub.n, in |-> in]
    BY <1>1
  <1>4. \A feed \in Feeds : (c \notin Registered \/ in[c].feed # feed) => Away(c, feed)
    BY <1>3 DEF Away
  <1> QED BY <1>2, <1>3, <1>4, OneClient

\* Where a session is, and whether it is listed or broken, is not in its items.
LEMMA OtherFields ==
  ASSUME NEW s \in SessionRec, NEW v \in SessionRec, Orderly(s), v.q = s.q, v.seen = s.seen, v.joined = s.joined,
         v.kind = s.kind, v.closed = s.closed, s.broken => v.broken, NEW n
  PROVE  Orderly(v) /\ (UpToDate(s, n) => UpToDate(v, n))
  <1>1. AllOf(v) = AllOf(s)
    BY DEF AllOf
  <1>2. v.kind = "socket" => v.q = <<>>
    BY DEF Orderly
  <1>3. Orderly(v) /\ EventsIn(v) = EventsIn(s)
    BY <1>1, <1>2, ItemsKept
  <1> QED BY <1>3 DEF UpToDate

\* An answer put to a client.
LEMMA ReplyFacts ==
  ASSUME RealtimeInv, NEW c \in Clients, NEW item \in Items, item.k # "close", item.k # "event",
         NEW v, v = Put(session[c], item)
  PROVE  /\ v \in SessionRec /\ Orderly(v) /\ Same(session[c], v) /\ (session[c].closed => v.closed)
         /\ Refused(session[c]) => v.closed \/ v.broken
         /\ ~Refused(session[c]) => ~v.closed /\ ~v.broken
         /\ c \in Registered => UpToDate(v, hub.n)
  <1>1. PICK s \in SessionRec : s = session[c] /\ Orderly(s)
    BY HubFacts
  <1>2. /\ v \in SessionRec /\ Orderly(v) /\ Same(s, v) /\ (s.closed => v.closed)
        /\ Refused(s) => v.closed \/ v.broken
        /\ ~Refused(s) => v.closed = s.closed /\ Len(EventsIn(v)) = Len(EventsIn(s)) + 0
    <2>1. v = Put(s, item)
      BY <1>1
    <2>2. (IF item.k = "event" THEN 1 ELSE 0) = 0
      OBVIOUS
    <2> QED BY <1>1, <2>1, <2>2, PutFacts
  <1>3. Len(EventsIn(s)) \in Nat
    BY SessionFields
  <1>4. ASSUME c \in Registered PROVE UpToDate(v, hub.n)
    <2>1. ~Refused(s) => Len(EventsIn(s)) = hub.n - s.joined
      BY <1>1, <1>4, HubFacts
    <2>2. v.joined = s.joined
      BY <1>2 DEF Same
    <2> QED BY <1>2, <1>3, <2>1, <2>2 DEF UpToDate
  <1>5. ~Refused(s) => ~v.closed /\ ~v.broken
    BY <1>2 DEF Refused, Same
  <1> QED BY <1>1, <1>2, <1>4, <1>5

\* realtime_stream(), websocket_handler(): a session that has missed nothing yet.
LEMMA OpenKeeps ==
  ASSUME RealtimeInv, NEW c \in Clients, NEW kind \in {"stream", "socket"}, Open(c, kind)
  PROVE  RealtimeInv'
  <1>1. /\ hub.n \in Nat /\ hub.in \in [Registered -> FeedRec] /\ hub = [n |-> hub.n, in |-> hub.in]
    BY HubFacts
  <1>2. PICK v : v = [NewSession EXCEPT !.kind = kind, !.st = IF kind = "stream" THEN "first" ELSE "greet",
                                         !.listed = kind = "stream", !.joined = hub.n]
    OBVIOUS
  <1>3. v \in SessionRec /\ v.q = <<>> /\ v.seen = <<>> /\ v.stale = 0 /\ v.joined = hub.n
    <2>1. PICK none \in Seq(Items) : none = <<>>
      BY EmptySeq
    <2>2. v = [st |-> IF kind = "stream" THEN "first" ELSE "greet", kind |-> kind, q |-> none, seen |-> none, closed |-> FALSE,
               listed |-> kind = "stream", broken |-> FALSE, joined |-> hub.n, stale |-> 0]
      BY <1>2, <2>1 DEF NewSession
    <2> QED BY <1>1, <2>1, <2>2 DEF SessionRec, Stages
  <1>4. Orderly(v) /\ Len(EventsIn(v)) = 0
    BY <1>3, FreshSession
  <1>5. UpToDate(v, hub.n)
    BY <1>1, <1>3, <1>4 DEF UpToDate
  <1>6. PICK in \in [Registered \cup {c} -> FeedRec] :
          /\ hub' = [n |-> hub.n, in |-> in] /\ \A d \in Registered \ {c} : in[d] = hub.in[d]
    <2>1. NoFeed \in FeedRec
      BY DEF NoFeed, FeedRec
    <2>2. hub' = [n |-> hub.n, in |-> [d \in Registered \cup {c} |-> IF d = c THEN NoFeed ELSE hub.in[d]]]
      BY <1>1 DEF Open, Register
    <2>3. PICK in : in = [d \in Registered \cup {c} |-> IF d = c THEN NoFeed ELSE hub.in[d]]
      OBVIOUS
    <2>4. in \in [Registered \cup {c} -> FeedRec] /\ \A d \in Registered \ {c} : in[d] = hub.in[d]
      BY <1>1, <2>1, <2>3
    <2> QED BY <2>2, <2>3, <2>4
  <1>7. /\ session' = [session EXCEPT ![c] = v] /\ sink' = sink /\ down' = down /\ pusher' = pusher
        /\ stop' \in BOOLEAN /\ work' \in Nat
    <2>1. stop \in BOOLEAN /\ work \in Nat
      BY DEF RealtimeInv, RealtimeTypes
    <2> QED BY <1>2, <2>1 DEF Open
  <1>8. PICK D \in SUBSET (Registered \cup {c}) : D = Registered \cup {c}
    OBVIOUS
  <1>9. /\ in \in [D -> FeedRec] /\ v.stale <= 1
        /\ \A d \in Registered \ {c} : d \in D /\ in[d].feed = hub.in[d].feed
    BY <1>3, <1>6, <1>8
  <1>10. hub' = [n |-> hub.n, in |-> in]
    BY <1>6
  <1> QED BY <1>3, <1>4, <1>5, <1>7, <1>9, <1>10, OneClient

\* The generator's first chunk.
LEMMA StreamStartsKeeps ==
  ASSUME RealtimeInv, NEW c \in Clients, StreamStarts(c)
  PROVE  RealtimeInv'
  <1>1. PICK s \in SessionRec : s = session[c] /\ Orderly(s)
    BY HubFacts
  <1>2. PICK v : v = [s EXCEPT !.st = "greet"]
    OBVIOUS
  <1>3. v \in SessionRec /\ v.q = s.q /\ v.seen = s.seen /\ v.joined = s.joined /\ v.kind = s.kind /\ v.closed = s.closed
        /\ v.broken = s.broken /\ v.stale = s.stale
    BY <1>2 DEF SessionRec, Stages
  <1>4. Orderly(v) /\ (c \in Registered => UpToDate(v, hub.n))
    BY <1>1, <1>3, OtherFields DEF RealtimeInv
  <1>5. session' = [session EXCEPT ![c] = v] /\ UNCHANGED <<sink, hub, pusher, stop, down, work>>
    BY <1>1, <1>2 DEF StreamStarts
  <1>6. work' \in Nat
    BY <1>5 DEF RealtimeInv, RealtimeTypes
  <1> QED BY <1>1, <1>3, <1>4, <1>5, <1>6, OneSession

\* What subscribing and unsubscribing do to the hub and the pusher.
LEMMA FeedFacts ==
  ASSUME RealtimeInv, NEW c \in Clients
  PROVE  /\ \A feed \in Feeds : Subscribes(c, feed) =>
              \E in \in [Registered -> FeedRec] : /\ hub' = [n |-> hub.n, in |-> in]
                                                  /\ \A d \in Registered \ {c} : in[d] = hub.in[d]
         /\ EnsurePusher => (pusher' = pusher \/ pusher' = [st |-> "wait", due |-> <<>>]) /\ stop' \in BOOLEAN
  <1>1. /\ hub.in \in [Registered -> FeedRec] /\ hub = [n |-> hub.n, in |-> hub.in] /\ stop \in BOOLEAN
    BY HubFacts DEF RealtimeInv, RealtimeTypes
  <1>2. ASSUME NEW feed \in Feeds, Subscribes(c, feed)
        PROVE  \E in \in [Registered -> FeedRec] : /\ hub' = [n |-> hub.n, in |-> in]
                                                   /\ \A d \in Registered \ {c} : in[d] = hub.in[d]
    <2>1. PICK r \in FeedRec : r = [feed |-> feed, due |-> TRUE]
      BY DEF FeedRec
    <2>2. CASE c \in Registered
      <3>1. PICK in : in = [hub.in EXCEPT ![c] = r]
        OBVIOUS
      <3>2. in \in [Registered -> FeedRec] /\ \A d \in Registered \ {c} : in[d] = hub.in[d]
        BY <1>1, <2>1, <3>1
      <3>3. hub' = [hub EXCEPT !.in = in]
        BY <1>2, <2>1, <2>2, <3>1 DEF Subscribes
      <3>4. hub' = [n |-> hub.n, in |-> in]
        BY <1>1, <3>3
      <3> QED BY <3>2, <3>4
    <2>3. CASE c \notin Registered
      <3>1. hub' = hub
        BY <1>2, <2>3 DEF Subscribes
      <3> QED BY <1>1, <3>1
    <2> QED BY <2>2, <2>3
  <1>3. ASSUME EnsurePusher PROVE (pusher' = pusher \/ pusher' = [st |-> "wait", due |-> <<>>]) /\ stop' \in BOOLEAN
    BY <1>1, <1>3 DEF EnsurePusher
  <1> QED BY <1>2, <1>3

\* The answer, and the place of the session and what it has of a feed it left changed with it.
LEMMA AnswerFacts ==
  ASSUME RealtimeInv, NEW c \in Clients, NEW p, p = Put(session[c], Reply), NEW v \in SessionRec,
         v.q = p.q, v.seen = p.seen, v.joined = p.joined, v.kind = p.kind, v.closed = p.closed, v.broken = p.broken,
         v.stale \in {0, session[c].stale}
  PROVE  /\ Orderly(v) /\ v.stale <= 1 /\ (session[c].closed => v.closed)
         /\ c \in Registered => UpToDate(v, hub.n)
  <1>1. /\ p \in SessionRec /\ Orderly(p) /\ (session[c].closed => p.closed)
        /\ c \in Registered => UpToDate(p, hub.n)
    BY ReplyFacts, ItemKinds
  <1>2. v.stale <= 1
    <2>1. session[c].stale \in {0, 1}
      BY HubFacts
    <2> QED BY <2>1
  <1>3. Orderly(v) /\ (c \in Registered => UpToDate(v, hub.n))
    BY <1>1, OtherFields
  <1> QED BY <1>1, <1>2, <1>3

\* The greeting, with or without a feed asked for.
LEMMA GreetKeeps ==
  ASSUME RealtimeInv, NEW c \in Clients, Greet(c)
  PROVE  RealtimeInv'
  <1>1. PICK asked \in BOOLEAN :
          /\ IF asked THEN Subscribes(c, "packets") /\ EnsurePusher ELSE UNCHANGED <<hub, pusher, stop>>
          /\ session' = [session EXCEPT ![c] = [Put(session[c], Reply) EXCEPT
                           !.st = IF IsSocket(session[c]) /\ Refused(session[c]) THEN "leave" ELSE "loop",
                           !.stale = IF asked THEN 0 ELSE session[c].stale]]
    BY DEF Greet
  <1>2. sink' = sink /\ down' = down /\ work' \in Nat
    BY DEF Greet, RealtimeInv, RealtimeTypes
  <1>3. PICK st \in Stages : st = IF IsSocket(session[c]) /\ Refused(session[c]) THEN "leave" ELSE "loop"
    BY DEF Stages
  <1>4. PICK stale \in {0, session[c].stale} : stale = IF asked THEN 0 ELSE session[c].stale
    OBVIOUS
  <1>5. PICK p : p = Put(session[c], Reply)
    OBVIOUS
  <1>6. p \in SessionRec /\ p.stale = session[c].stale
    BY <1>5, ReplyFacts, ItemKinds DEF Same
  <1>7. PICK v : v = [p EXCEPT !.st = st, !.stale = stale]
    OBVIOUS
  <1>8. session' = [session EXCEPT ![c] = v]
    <2>2. session' = [session EXCEPT ![c] = [p EXCEPT !.st = st, !.stale = stale]]
      BY <1>1, <1>3, <1>4, <1>5
    <2> QED BY <1>7, <2>2
  <1>9. /\ v \in SessionRec /\ Orderly(v) /\ v.stale = stale /\ v.stale <= 1 /\ (session[c].closed => v.closed)
        /\ c \in Registered => UpToDate(v, hub.n)
    <2>1. stale \in Nat /\ stale \in {0, session[c].stale}
      <3>1. session[c].stale \in {0, 1}
        BY HubFacts
      <3> QED BY <3>1
    <2>2. /\ v \in SessionRec /\ v.q = p.q /\ v.seen = p.seen /\ v.joined = p.joined /\ v.kind = p.kind
          /\ v.closed = p.closed /\ v.broken = p.broken /\ v.stale = stale
      <3>1. PICK w : w = [p EXCEPT !.st = st]
        OBVIOUS
      <3>2. /\ w \in SessionRec /\ w.q = p.q /\ w.seen = p.seen /\ w.joined = p.joined /\ w.kind = p.kind
            /\ w.closed = p.closed /\ w.broken = p.broken
        BY <1>6, <3>1 DEF SessionRec
      <3>3. v = [w EXCEPT !.stale = stale]
        BY <1>7, <3>1
      <3> QED BY <2>1, <3>2, <3>3 DEF SessionRec
    <2> QED BY <1>5, <2>1, <2>2, AnswerFacts
  <1>10. CASE asked
    <2>1. "packets" \in Feeds /\ Subscribes(c, "packets") /\ EnsurePusher
      BY <1>1, <1>10 DEF Feeds
    <2>2. PICK in \in [Registered -> FeedRec] : /\ hub' = [n |-> hub.n, in |-> in]
                                                /\ \A d \in Registered \ {c} : in[d] = hub.in[d]
      BY <2>1, FeedFacts
    <2>3. (pusher' = pusher \/ pusher' = [st |-> "wait", due |-> <<>>]) /\ stop' \in BOOLEAN
      BY <2>1, FeedFacts
    <2>4. v.stale = 0 /\ Registered \in SUBSET (Registered \cup {c})
      BY <1>4, <1>9, <1>10
    <2> QED BY <1>2, <1>8, <1>9, <2>2, <2>3, <2>4, OneClient
  <1>11. CASE ~asked
    <2>1. UNCHANGED <<sink, hub, pusher, stop, down>> /\ v.stale = session[c].stale
      BY <1>1, <1>2, <1>4, <1>9, <1>11
    <2> QED BY <1>2, <1>8, <1>9, <2>1, OneSession
  <1> QED BY <1>10, <1>11

\* A command that changes the client's feed.
LEMMA CommandKeeps ==
  ASSUME RealtimeInv, NEW c \in Clients
  PROVE  /\ \A feed \in Feeds : SubscribeFeed(c, feed) => RealtimeInv'
         /\ UnsubscribeFeed(c) => RealtimeInv'
  <1>1. PICK p : p = Put(session[c], Reply)
    OBVIOUS
  <1>2. p \in SessionRec
    BY <1>1, ReplyFacts, ItemKinds
  <1>4. PICK v : v = [p EXCEPT !.stale = 0]
    OBVIOUS
  <1>5. v = [Put(session[c], Reply) EXCEPT !.stale = 0]
    BY <1>1, <1>4
  <1>6. /\ v \in SessionRec /\ Orderly(v) /\ v.stale = 0 /\ v.stale <= 1
        /\ c \in Registered => UpToDate(v, hub.n)
    <2>1. /\ v \in SessionRec /\ v.q = p.q /\ v.seen = p.seen /\ v.joined = p.joined /\ v.kind = p.kind
          /\ v.closed = p.closed /\ v.broken = p.broken /\ v.stale = 0
      BY <1>2, <1>4 DEF SessionRec
    <2> QED BY <1>1, <2>1, AnswerFacts
  <1>7. work \in Nat /\ stop \in BOOLEAN /\ Registered \in SUBSET (Registered \cup {c})
    BY DEF RealtimeInv, RealtimeTypes
  <1>8. ASSUME NEW feed \in Feeds, SubscribeFeed(c, feed) PROVE RealtimeInv'
    <2>1. Subscribes(c, feed) /\ EnsurePusher
      BY <1>8 DEF SubscribeFeed
    <2>2. PICK in \in [Registered -> FeedRec] : /\ hub' = [n |-> hub.n, in |-> in]
                                                /\ \A d \in Registered \ {c} : in[d] = hub.in[d]
      BY <2>1, FeedFacts
    <2>3. (pusher' = pusher \/ pusher' = [st |-> "wait", due |-> <<>>]) /\ stop' \in BOOLEAN
      BY <2>1, FeedFacts
    <2>4. session' = [session EXCEPT ![c] = v] /\ sink' = sink /\ down' = down /\ work' \in Nat
      BY <1>5, <1>7, <1>8 DEF SubscribeFeed
    <2> QED BY <1>6, <1>7, <2>2, <2>3, <2>4, OneClient
  <1>9. ASSUME UnsubscribeFeed(c) PROVE RealtimeInv'
    <2>1. /\ session' = [session EXCEPT ![c] = v] /\ sink' = sink /\ down' = down /\ work' \in Nat /\ pusher' = pusher
          /\ stop' \in BOOLEAN
      BY <1>5, <1>7, <1>9 DEF UnsubscribeFeed
    <2>2. hub.in \in [Registered -> FeedRec] /\ hub = [n |-> hub.n, in |-> hub.in]
      BY HubFacts
    <2>3. PICK in \in [Registered -> FeedRec] : /\ hub' = [n |-> hub.n, in |-> in]
                                                /\ \A d \in Registered \ {c} : in[d] = hub.in[d]
      <3>1. NoFeed \in FeedRec
        BY DEF NoFeed, FeedRec
      <3>2. CASE c \in Registered
        <4>1. PICK in : in = [hub.in EXCEPT ![c] = NoFeed]
          OBVIOUS
        <4>2. in \in [Registered -> FeedRec] /\ \A d \in Registered \ {c} : in[d] = hub.in[d]
          BY <2>2, <3>1, <4>1
        <4>3. hub' = [hub EXCEPT !.in = in]
          BY <1>9, <3>2, <4>1 DEF UnsubscribeFeed
        <4>4. hub' = [n |-> hub.n, in |-> in]
          BY <2>2, <4>3
        <4> QED BY <4>2, <4>4
      <3>3. CASE c \notin Registered
        <4>1. hub' = hub
          BY <1>9, <3>3 DEF UnsubscribeFeed
        <4> QED BY <2>2, <4>1
      <3> QED BY <3>2, <3>3
    <2> QED BY <1>6, <1>7, <2>1, <2>3, OneClient
  <1> QED BY <1>8, <1>9

\* next_event(): what is read leaves the queue for the client.
LEMMA StreamYieldsKeeps ==
  ASSUME RealtimeInv, NEW c \in Clients, StreamYields(c)
  PROVE  RealtimeInv'
  <1>1. PICK s \in SessionRec : s = session[c] /\ Orderly(s)
    BY HubFacts
  <1>2. s.kind # "socket" /\ s.q # <<>>
    BY <1>1 DEF StreamYields, IsSocket
  <1>3. PICK v : v = Yielded(s)
    OBVIOUS
  <1>4. /\ v \in SessionRec /\ Orderly(v) /\ Len(EventsIn(v)) = Len(EventsIn(s))
        /\ v.closed = s.closed /\ v.broken = s.broken /\ v.joined = s.joined /\ v.stale = s.stale
    BY <1>1, <1>2, <1>3, YieldFacts
  <1>5. session' = [session EXCEPT ![c] = v] /\ UNCHANGED <<sink, hub, pusher, stop, down, work>>
    BY <1>1, <1>3 DEF StreamYields, Yielded
  <1>6. c \in Registered => UpToDate(v, hub.n)
    <2>1. c \in Registered => UpToDate(s, hub.n)
      BY <1>1 DEF RealtimeInv
    <2> QED BY <1>4, <2>1 DEF UpToDate
  <1>7. work' \in Nat
    BY <1>5 DEF RealtimeInv, RealtimeTypes
  <1> QED BY <1>1, <1>4, <1>5, <1>6, <1>7, OneSession

\* The client is gone, the wire breaks, the reader returns: the items stay.
LEMMA LeavingKeeps ==
  ASSUME RealtimeInv, NEW c \in Clients, ClientLeaves(c) \/ SocketBreaks(c) \/ ReaderEnds(c)
  PROVE  RealtimeInv'
  <1>1. PICK s \in SessionRec : s = session[c] /\ Orderly(s)
    BY HubFacts
  <1>2. PICK v \in SessionRec : /\ session' = [session EXCEPT ![c] = v]
                                /\ v.q = s.q /\ v.seen = s.seen /\ v.joined = s.joined /\ v.kind = s.kind
                                /\ v.closed = s.closed /\ v.stale = s.stale /\ (s.broken => v.broken)
    <2>1. CASE ClientLeaves(c)
      <3>1. PICK st \in Stages : st = IF s.st = "first" THEN "abandoned" ELSE "leave"
        BY DEF Stages
      <3>2. PICK broken \in BOOLEAN : broken = (s.broken \/ IsSocket(s))
        BY SessionFields DEF IsSocket
      <3>3. PICK w : w = [s EXCEPT !.st = st]
        OBVIOUS
      <3>4. /\ w \in SessionRec /\ w.q = s.q /\ w.seen = s.seen /\ w.joined = s.joined /\ w.kind = s.kind
            /\ w.closed = s.closed /\ w.stale = s.stale
        BY <3>3 DEF SessionRec
      <3>5. PICK v : v = [w EXCEPT !.broken = broken]
        OBVIOUS
      <3>6. /\ v \in SessionRec /\ v.q = w.q /\ v.seen = w.seen /\ v.joined = w.joined /\ v.kind = w.kind
            /\ v.closed = w.closed /\ v.stale = w.stale /\ v.broken = broken
        BY <3>4, <3>5 DEF SessionRec
      <3>7. session' = [session EXCEPT ![c] = v]
        <4>1. session \in [Clients -> SessionRec]
          BY HubFacts
        <4>2. session' = [session EXCEPT ![c].st = st, ![c].broken = broken]
          BY <1>1, <2>1, <3>1, <3>2 DEF ClientLeaves
        <4> QED BY <1>1, <3>3, <3>5, <4>1, <4>2
      <3>8. s.broken => v.broken
        BY <3>2, <3>6
      <3> QED BY <3>4, <3>6, <3>7, <3>8
    <2>2. CASE SocketBreaks(c)
      <3>1. PICK v : v = [s EXCEPT !.broken = TRUE]
        OBVIOUS
      <3>2. /\ v \in SessionRec /\ v.q = s.q /\ v.seen = s.seen /\ v.joined = s.joined /\ v.kind = s.kind
            /\ v.closed = s.closed /\ v.stale = s.stale /\ v.broken
        BY <3>1 DEF SessionRec
      <3>3. session' = [session EXCEPT ![c] = v]
        BY <1>1, <2>2, <3>1 DEF SocketBreaks
      <3> QED BY <3>2, <3>3
    <2>3. CASE ReaderEnds(c)
      <3>1. PICK v : v = [s EXCEPT !.st = "leave"]
        OBVIOUS
      <3>2. /\ v \in SessionRec /\ v.q = s.q /\ v.seen = s.seen /\ v.joined = s.joined /\ v.kind = s.kind
            /\ v.closed = s.closed /\ v.stale = s.stale /\ v.broken = s.broken
        BY <3>1 DEF SessionRec, Stages
      <3>3. session' = [session EXCEPT ![c] = v]
        BY <1>1, <2>3, <3>1 DEF ReaderEnds
      <3> QED BY <3>2, <3>3
    <2> QED BY <2>1, <2>2, <2>3
  <1>3. Orderly(v) /\ (c \in Registered => UpToDate(v, hub.n))
    BY <1>1, <1>2, OtherFields DEF RealtimeInv
  <1>4. UNCHANGED <<sink, hub, pusher, stop, down>> /\ work' \in Nat
    BY DEF ClientLeaves, SocketBreaks, ReaderEnds, RealtimeInv, RealtimeTypes
  <1> QED BY <1>1, <1>2, <1>3, <1>4, OneSession

\* The finally of the handler: the client is forgotten, and what it read with it.
LEMMA FinallyKeeps ==
  ASSUME RealtimeInv, NEW c \in Clients, Finally(c)
  PROVE  RealtimeInv'
  <1>1. PICK v : v = [NewSession EXCEPT !.st = "ended", !.closed = TRUE]
    OBVIOUS
  <1>2. v \in SessionRec /\ v.q = <<>> /\ v.seen = <<>> /\ v.stale = 0
    <2>1. PICK none \in Seq(Items) : none = <<>>
      BY EmptySeq
    <2>2. v = [st |-> "ended", kind |-> "stream", q |-> none, seen |-> none, closed |-> TRUE, listed |-> FALSE,
               broken |-> FALSE, joined |-> 0, stale |-> 0]
      BY <1>1, <2>1 DEF NewSession
    <2> QED BY <2>1, <2>2 DEF SessionRec, Stages
  <1>3. Orderly(v)
    BY <1>2, FreshSession
  <1>4. PICK in : in = Without(hub.in, {c})
    OBVIOUS
  <1>5. PICK D \in SUBSET (Registered \cup {c}) : D = Registered \ {c}
    OBVIOUS
  <1>6. in \in [D -> FeedRec] /\ \A d \in Registered \ {c} : d \in D /\ in[d].feed = hub.in[d].feed
    BY <1>4, <1>5, WithoutFacts
  <1>7. hub' = [n |-> hub.n, in |-> in]
    <2>1. hub = [n |-> hub.n, in |-> hub.in]
      BY HubFacts
    <2>2. hub' = [hub EXCEPT !.in = in]
      BY <1>4 DEF Finally
    <2> QED BY <2>1, <2>2
  <1>8. session' = [session EXCEPT ![c] = v] /\ UNCHANGED <<sink, pusher, stop, down, work>>
    BY <1>1 DEF Finally
  <1>9. stop' \in BOOLEAN /\ work' \in Nat
    BY <1>8 DEF RealtimeInv, RealtimeTypes
  <1>10. c \notin D /\ v.stale <= 1
    BY <1>2, <1>5
  <1> QED BY <1>2, <1>3, <1>6, <1>7, <1>8, <1>9, <1>10, OneClient

\* A feed falls due.
LEMMA IntervalElapsesKeeps ==
  ASSUME RealtimeInv, NEW c \in Clients, IntervalElapses(c)
  PROVE  RealtimeInv'
  <1>1. PICK v \in SessionRec : v = session[c] /\ Orderly(v) /\ v.stale <= 1 /\ session' = [session EXCEPT ![c] = v]
    <2>1. session[c] \in SessionRec /\ Orderly(session[c]) /\ session[c].stale \in {0, 1} /\ session \in [Clients -> SessionRec]
      BY HubFacts
    <2>2. session' = [session EXCEPT ![c] = session[c]]
      <3>1. session' = session
        BY DEF IntervalElapses
      <3> QED BY <2>1, <3>1
    <2>3. session[c].stale <= 1
      BY <2>1
    <2> QED BY <2>1, <2>2, <2>3
  <1>2. c \in Registered /\ hub.in \in [Registered -> FeedRec] /\ hub = [n |-> hub.n, in |-> hub.in]
    BY HubFacts DEF IntervalElapses
  <1>3. PICK r \in FeedRec : r = [hub.in[c] EXCEPT !.due = TRUE] /\ r.feed = hub.in[c].feed
    <2>1. PICK old \in FeedRec : old = hub.in[c]
      BY <1>2
    <2>2. PICK r : r = [old EXCEPT !.due = TRUE]
      OBVIOUS
    <2>3. r \in FeedRec /\ r.feed = old.feed
      BY <2>2 DEF FeedRec
    <2> QED BY <2>1, <2>2, <2>3
  <1>4. PICK in : in = [hub.in EXCEPT ![c] = r]
    OBVIOUS
  <1>5. in \in [Registered -> FeedRec] /\ in[c].feed = hub.in[c].feed /\ \A d \in Registered : in[d].feed = hub.in[d].feed
    BY <1>2, <1>3, <1>4
  <1>6. hub' = [n |-> hub.n, in |-> in]
    <2>1. hub' = [hub EXCEPT !.in[c].due = TRUE]
      BY DEF IntervalElapses
    <2> QED BY <1>2, <1>3, <1>4, <2>1
  <1>7. sink' = sink /\ down' = down /\ stop' \in BOOLEAN /\ work' \in Nat /\ pusher' = pusher
    BY DEF IntervalElapses, RealtimeInv, RealtimeTypes
  <1>8. UpToDate(v, hub.n)
    BY <1>1, <1>2 DEF RealtimeInv
  <1>9. Registered \in SUBSET (Registered \cup {c}) /\ \A feed \in Feeds : (c \notin Registered \/ in[c].feed # feed) => Away(c, feed)
    BY <1>5 DEF Away
  <1> QED BY <1>1, <1>5, <1>6, <1>7, <1>8, <1>9, OneClient

\* Steps that leave the sessions and the hub alone.
LEMMA NoClient ==
  ASSUME RealtimeInv, session' = session, hub' = hub, sink' \in SinkRec, SinkAddsUp', stop' \in BOOLEAN, work' \in Nat,
         down' \in {"up", "stopping", "sink", "down"}, pusher' \in [st : {"dead", "wait", "push"}, due : Seq(Clients \X Feeds)],
         pusher'.due = pusher.due \/ pusher'.due = <<>>
  PROVE  RealtimeInv'
  <1>1. RealtimeTypes'
    BY DEF RealtimeInv, RealtimeTypes, Registered
  <1>2. Registered' = Registered
    BY DEF Registered
  <1>3. \A c \in Clients : Orderly(session'[c]) /\ session'[c].stale <= 1
    BY DEF RealtimeInv, OneStaleSnapshot
  <1>4. \A c \in Registered' : UpToDate(session'[c], hub'.n)
    BY <1>2 DEF RealtimeInv
  <1>5. \A c \in Clients : \A feed \in Feeds : (c \notin Registered' \/ hub'.in[c].feed # feed) => Away(c, feed)
    BY <1>2 DEF Away
  <1> QED BY <1>1, <1>3, <1>4, <1>5, StepKeeps

\* The sink's steps, and those of the pusher and of shutdown that touch no client.
LEMMA SinkAndThreadsKeep ==
  ASSUME RealtimeInv,
         Offer \/ SinkTakes \/ PusherRests \/ PusherEnds \/ ShutdownSignals \/ SinkCloses \/ UNCHANGED realtimeVars
  PROVE  RealtimeInv'
  <1>0. /\ sink \in SinkRec /\ SinkAddsUp /\ stop \in BOOLEAN /\ work \in Nat /\ down \in {"up", "stopping", "sink", "down"}
        /\ pusher \in [st : {"dead", "wait", "push"}, due : Seq(Clients \X Feeds)]
    BY DEF RealtimeInv, RealtimeTypes
  <1>1. PICK q0 \in Seq(Nat), o \in Nat, d \in Nat, t \in Nat :
          /\ q0 = sink.q /\ o = sink.offered /\ d = sink.dropped /\ t = sink.told
    BY <1>0 DEF SinkRec
  <1>10. PICK w \in {0, 1} : w = IF sink.hand = 0 THEN 0 ELSE 1
    OBVIOUS
  <1>11. PICK Real : Real = Nat \ {0}
    OBVIOUS
  <1>2. PICK k \in Nat : k = Len(Kept(q0, Real))
    BY KeptSizes
  <1>3. o = t + d + w + k
    BY <1>0, <1>1, <1>2, <1>10, <1>11 DEF SinkAddsUp
  <1>12. ASSUME NEW o1 \in Nat, NEW d1 \in Nat, NEW t1 \in Nat, NEW w1 \in Nat, NEW k1 \in Nat,
                sink'.offered = o1, sink'.dropped = d1, sink'.told = t1, (IF sink'.hand = 0 THEN 0 ELSE 1) = w1,
                Len(Kept(sink'.q, Real)) = k1, o1 = t1 + d1 + w1 + k1, sink'.st = "ended" => sink'.hand = 0
         PROVE  SinkAddsUp'
    BY <1>11, <1>12 DEF SinkAddsUp
  <1>4. CASE Offer
    <2>1. CASE Len(sink.q) < SinkLimit
      <3>1. PICK e \in Nat : e = o + 1 /\ e \in Real
        BY <1>11
      <3>2. PICK q \in Seq(Nat) : q = Append(q0, e)
        BY AppendProperties
      <3>3. sink' = [sink EXCEPT !.offered = e, !.q = q]
        BY <1>1, <1>4, <2>1, <3>1, <3>2 DEF Offer
      <3>4. /\ sink' \in SinkRec /\ sink'.q = q /\ sink'.offered = e /\ sink'.told = t /\ sink'.dropped = d
            /\ sink'.hand = sink.hand /\ sink'.st = sink.st
        BY <1>0, <1>1, <3>3 DEF SinkRec
      <3>5. Len(Kept(q, Real)) = k + 1
        <4>1. Kept(q, Real) = Append(Kept(q0, Real), e)
          BY <3>1, <3>2, KeptAppend
        <4>2. PICK r \in Seq(Nat) : r = Kept(q0, Real)
          BY KeptFacts
        <4>3. Len(Append(r, e)) = Len(r) + 1
          BY AppendProperties
        <4> QED BY <1>2, <4>1, <4>2, <4>3
      <3>6. e = t + d + w + (k + 1) /\ k + 1 \in Nat
        BY <1>3, <3>1
      <3>7. (IF sink'.hand = 0 THEN 0 ELSE 1) = w /\ (sink'.st = "ended" => sink'.hand = 0)
        BY <1>0, <1>10, <3>4 DEF SinkAddsUp
      <3>8. SinkAddsUp'
        BY <1>12, <3>4, <3>5, <3>6, <3>7
      <3> QED BY <1>0, <1>4, <3>4, <3>8, NoClient DEF Offer
    <2>2. CASE ~(Len(sink.q) < SinkLimit)
      <3>1. PICK e \in Nat, f \in Nat : e = o + 1 /\ f = d + 1
        OBVIOUS
      <3>2. sink' = [sink EXCEPT !.offered = e, !.dropped = f]
        BY <1>1, <1>4, <2>2, <3>1 DEF Offer
      <3>3. /\ sink' \in SinkRec /\ sink'.q = q0 /\ sink'.offered = e /\ sink'.told = t
            /\ sink'.dropped = f /\ sink'.hand = sink.hand /\ sink'.st = sink.st
        BY <1>0, <1>1, <3>2 DEF SinkRec
      <3>4. e = t + f + w + k
        BY <1>3, <3>1
      <3>5. (IF sink'.hand = 0 THEN 0 ELSE 1) = w /\ (sink'.st = "ended" => sink'.hand = 0)
        BY <1>0, <1>10, <3>3 DEF SinkAddsUp
      <3>6. SinkAddsUp'
        BY <1>2, <1>12, <3>3, <3>4, <3>5
      <3> QED BY <1>0, <1>4, <3>3, <3>6, NoClient DEF Offer
    <2> QED BY <2>1, <2>2
  <1>5. CASE SinkTakes
    <2>1. q0 # <<>> /\ sink.hand = 0 /\ sink.st = "run" /\ w = 0
      BY <1>1, <1>5, <1>10 DEF SinkTakes
    <2>2. /\ Head(q0) \in Nat /\ Tail(q0) \in Seq(Nat)
          /\ Head(q0) \in Real => Kept(q0, Real) = <<Head(q0)>> \o Kept(Tail(q0), Real)
          /\ Head(q0) \notin Real => Kept(q0, Real) = Kept(Tail(q0), Real)
      BY <2>1, KeptTail
    <2>3. PICK e \in Nat, q \in Seq(Nat) : e = Head(q0) /\ q = Tail(q0)
      BY <2>2
    <2>4. PICK r \in Seq(Nat) : r = Kept(q, Real)
      BY KeptFacts
    <2>5. PICK p \in Nat : p = Len(r)
      BY LenProperties
    <2>6. CASE e = 0
      <3>1. sink' = [sink EXCEPT !.q = q, !.st = "ended"]
        BY <1>1, <1>5, <2>3, <2>6 DEF SinkTakes
      <3>2. /\ sink' \in SinkRec /\ sink'.q = q /\ sink'.offered = o /\ sink'.told = t
            /\ sink'.dropped = d /\ sink'.hand = sink.hand
        BY <1>0, <1>1, <3>1 DEF SinkRec
      <3>3. Len(Kept(q, Real)) = k
        BY <1>2, <1>11, <2>2, <2>3, <2>6
      <3>4. SinkAddsUp'
        BY <1>3, <1>10, <1>12, <2>1, <3>2, <3>3
      <3> QED BY <1>0, <1>5, <3>2, <3>4, NoClient DEF SinkTakes
    <2>7. CASE e # 0
      <3>1. sink' = [sink EXCEPT !.q = q, !.hand = e]
        BY <1>1, <1>5, <2>3, <2>7 DEF SinkTakes
      <3>2. /\ sink' \in SinkRec /\ sink'.q = q /\ sink'.offered = o /\ sink'.told = t
            /\ sink'.dropped = d /\ sink'.hand = e /\ sink'.st = sink.st
        BY <1>0, <1>1, <3>1 DEF SinkRec
      <3>3. k = p + 1
        <4>1. Kept(q0, Real) = <<e>> \o r
          BY <1>11, <2>2, <2>3, <2>4, <2>7
        <4>2. <<e>> \in Seq(Nat) /\ Len(<<e>>) = 1
          OBVIOUS
        <4>3. PICK h : h = <<e>>
          OBVIOUS
        <4>4. Len(h \o r) = Len(h) + Len(r)
          BY <4>2, <4>3, ConcatProperties
        <4>5. k = Len(h \o r) /\ Len(h) = 1
          BY <1>2, <4>1, <4>2, <4>3
        <4> QED BY <2>5, <4>4, <4>5
      <3>4. o = t + d + 1 + p
        BY <1>3, <2>1, <3>3
      <3>5. Len(Kept(sink'.q, Real)) = p /\ (IF sink'.hand = 0 THEN 0 ELSE 1) = 1 /\ sink'.st # "ended"
        BY <2>1, <2>4, <2>5, <2>7, <3>2
      <3>6. SinkAddsUp'
        BY <1>12, <3>2, <3>4, <3>5
      <3> QED BY <1>0, <1>5, <3>2, <3>6, NoClient DEF SinkTakes
    <2> QED BY <2>6, <2>7
  <1>6. CASE PusherRests
    <2>1. pusher' \in [st : {"dead", "wait", "push"}, due : Seq(Clients \X Feeds)] /\ pusher'.due = pusher.due
      BY <1>0, <1>6 DEF PusherRests
    <2>2. UNCHANGED <<sink, hub, session, stop, down, work>> /\ SinkAddsUp'
      BY <1>0, <1>6 DEF PusherRests, SinkAddsUp
    <2> QED BY <1>0, <2>1, <2>2, NoClient
  <1>7. CASE PusherEnds
    <2>1. PICK none \in Seq(Clients \X Feeds) : none = <<>>
      BY EmptySeq
    <2>2. pusher' = [st |-> "dead", due |-> none]
      BY <1>7, <2>1 DEF PusherEnds
    <2>3. pusher' \in [st : {"dead", "wait", "push"}, due : Seq(Clients \X Feeds)] /\ pusher'.due = <<>>
      BY <2>1, <2>2
    <2>4. UNCHANGED <<sink, hub, session, stop, down, work>> /\ SinkAddsUp'
      BY <1>0, <1>7 DEF PusherEnds, SinkAddsUp
    <2> QED BY <1>0, <2>3, <2>4, NoClient
  <1>8. CASE ShutdownSignals \/ UNCHANGED realtimeVars
    <2>1. UNCHANGED <<sink, hub, session, pusher, work>> /\ stop' \in BOOLEAN /\ down' \in {"up", "stopping", "sink", "down"}
      BY <1>0, <1>8 DEF ShutdownSignals, realtimeVars
    <2>2. SinkAddsUp'
      BY <1>0, <2>1 DEF SinkAddsUp
    <2> QED BY <1>0, <2>1, <2>2, NoClient
  <1>9. CASE SinkCloses
    <2>1. UNCHANGED <<hub, session, pusher, stop, work>> /\ down' = "sink"
      BY <1>9 DEF SinkCloses
    <2>2. CASE Len(sink.q) < SinkLimit /\ sink' = [sink EXCEPT !.q = Append(@, 0)]
      <3>1. PICK q \in Seq(Nat) : q = Append(q0, 0)
        BY AppendProperties
      <3>2. sink' = [sink EXCEPT !.q = q]
        BY <1>1, <2>2, <3>1
      <3>3. /\ sink' \in SinkRec /\ sink'.q = q /\ sink'.offered = o /\ sink'.told = t
            /\ sink'.dropped = d /\ sink'.hand = sink.hand /\ sink'.st = sink.st
        BY <1>0, <1>1, <3>2 DEF SinkRec
      <3>4. Kept(q, Real) = Kept(q0, Real)
        <4>1. 0 \in Nat /\ 0 \notin Real
          BY <1>11
        <4> QED BY <3>1, <4>1, KeptAppend
      <3>5. (IF sink'.hand = 0 THEN 0 ELSE 1) = w /\ (sink'.st = "ended" => sink'.hand = 0)
        BY <1>0, <1>10, <3>3 DEF SinkAddsUp
      <3>6. SinkAddsUp'
        BY <1>2, <1>3, <1>12, <3>3, <3>4, <3>5
      <3> QED BY <1>0, <2>1, <3>3, <3>6, NoClient
    <2>3. CASE sink' = sink
      <3>1. SinkAddsUp'
        BY <1>0, <2>3 DEF SinkAddsUp
      <3> QED BY <1>0, <2>1, <2>3, <3>1, NoClient
    <2> QED BY <1>9, <2>2, <2>3 DEF SinkCloses
  <1> QED BY <1>4, <1>5, <1>6, <1>7, <1>8, <1>9

\* Steps of the hub with everybody registered: some are forgotten and closed, the others are up to date.
LEMMA ManyClients ==
  ASSUME RealtimeInv, NEW gone, NEW n \in Nat, session' \in [Clients -> SessionRec],
         hub' = [n |-> n, in |-> Without(hub.in, gone)], sink' \in SinkRec, SinkAddsUp', pusher' = pusher, stop' = stop,
         down' \in {"up", "stopping", "sink", "down"}, work' \in Nat,
         \A c \in Clients : /\ Orderly(session'[c]) /\ session'[c].stale = session[c].stale
                            /\ session[c].closed => session'[c].closed
                            /\ c \in Registered /\ c \in gone => session'[c].closed
                            /\ c \in Registered /\ c \notin gone => UpToDate(session'[c], n)
  PROVE  RealtimeInv'
  <1>0. PICK in : in = Without(hub.in, gone)
    OBVIOUS
  <1>1. PICK D \in SUBSET Clients :
          /\ D = Registered \ gone /\ in \in [D -> FeedRec] /\ IsFiniteSet(D) /\ \A c \in D : in[c] = hub.in[c]
    <2>1. PICK D \in SUBSET Clients : D = Registered \ gone /\ IsFiniteSet(D)
      BY WithoutFacts
    <2>2. in \in [D -> FeedRec] /\ \A c \in D : in[c] = hub.in[c]
      BY <1>0, <2>1, WithoutFacts
    <2> QED BY <2>1, <2>2
  <1>2. hub' = [n |-> n, in |-> in]
    BY <1>0
  <1>3. Registered' = D /\ hub'.in = in /\ hub'.n = n
    BY <1>1, <1>2 DEF Registered
  <1>4. RealtimeTypes'
    <2>1. hub' \in [n : Nat, in : UNION {[E -> FeedRec] : E \in SUBSET Clients}]
      BY <1>1, <1>2
    <2>2. IsFiniteSet(Registered)'
      BY <1>1, <1>3
    <2> QED BY <2>1, <2>2 DEF RealtimeInv, RealtimeTypes
  <1>5. \A c \in Clients : Orderly(session'[c]) /\ session'[c].stale <= 1
    BY DEF RealtimeInv, OneStaleSnapshot
  <1>6. \A c \in Registered' : UpToDate(session'[c], hub'.n)
    BY <1>1, <1>3
  <1>7. ASSUME NEW c \in Clients
        PROVE  \/ session'[c].closed \/ session'[c].stale = 0
               \/ /\ session'[c].stale = session[c].stale /\ (session[c].closed => session'[c].closed)
                  /\ \A feed \in Feeds : (c \notin Registered' \/ hub'.in[c].feed # feed) => Away(c, feed)
    <2>1. CASE c \in Registered /\ c \in gone
      BY <2>1
    <2>2. CASE c \notin Registered
      BY <2>2 DEF Away
    <2>3. CASE c \in Registered /\ c \notin gone
      <3>1. c \in Registered' /\ hub'.in[c] = hub.in[c]
        BY <1>1, <1>3, <2>3
      <3> QED BY <3>1 DEF Away
    <2> QED BY <2>1, <2>2, <2>3
  <1> QED BY <1>4, <1>5, <1>6, <1>7, StepKeeps

\* broadcast() gives every client the next event, or drops and closes it.
LEMMA BroadcastsFacts ==
  ASSUME RealtimeInv, Broadcasts
  PROVE  \E gone : /\ hub' = [n |-> hub.n + 1, in |-> Without(hub.in, gone)] /\ session' \in [Clients -> SessionRec]
                   /\ \A c \in Clients :
                        /\ Orderly(session'[c]) /\ session'[c].stale = session[c].stale
                        /\ session[c].closed => session'[c].closed
                        /\ c \in Registered /\ c \in gone => session'[c].closed
                        /\ c \in Registered /\ c \notin gone => UpToDate(session'[c], hub.n + 1)
  <1>1. PICK gone : gone = {c \in Registered : Refused(session[c])}
    OBVIOUS
  <1>2. PICK n \in Nat : n = hub.n + 1
    BY HubFacts
  <1>3. PICK item \in Items : item = Event(n) /\ item.k = "event" /\ item.n = n
    BY ItemKinds
  <1>4. hub' = [n |-> n, in |-> Without(hub.in, gone)]
    BY <1>1, <1>2 DEF Broadcasts
  <1>5. session' = [c \in Clients |-> IF c \in gone THEN CloseSession(Put(session[c], item), 1013)
                                      ELSE IF c \in Registered THEN Put(session[c], item) ELSE session[c]]
    BY <1>1, <1>2, <1>3 DEF Broadcasts
  <1>6. ASSUME NEW c \in Clients
        PROVE  /\ session'[c] \in SessionRec /\ Orderly(session'[c]) /\ session'[c].stale = session[c].stale
               /\ session[c].closed => session'[c].closed
               /\ c \in Registered /\ c \in gone => session'[c].closed
               /\ c \in Registered /\ c \notin gone => UpToDate(session'[c], n)
    <2>1. PICK s \in SessionRec : s = session[c] /\ Orderly(s)
      BY HubFacts
    <2>2. PICK p : p = Put(s, item)
      OBVIOUS
    <2>3. PICK j \in Nat, m \in Nat : j = s.joined /\ m = Len(EventsIn(s))
      BY SessionFields
    <2>4. c \in Registered /\ ~Refused(s) => n = j + m + 1
      <3>1. c \in Registered /\ ~Refused(s) => m = hub.n - j
        BY <2>1, <2>3, HubFacts
      <3>2. hub.n \in Nat
        BY HubFacts
      <3> QED BY <1>2, <2>3, <3>1, <3>2
    <2>5. CASE c \in Registered
      <3>1. item.k = "event" /\ ~Refused(s) => item.n = s.joined + Len(EventsIn(s)) + 1
        BY <1>3, <2>3, <2>4, <2>5
      <3>2. /\ p \in SessionRec /\ Orderly(p) /\ Same(s, p) /\ (s.closed => p.closed)
            /\ ~Refused(s) => p.closed = s.closed /\ Len(EventsIn(p)) = Len(EventsIn(s)) + (IF item.k = "event" THEN 1 ELSE 0)
        BY <1>3, <2>1, <2>2, <3>1, PutFacts
      <3>3. CASE c \in gone
        <4>1. PICK v : v = CloseSession(p, 1013)
          OBVIOUS
        <4>2. v \in SessionRec /\ Orderly(v) /\ Same(p, v) /\ v.closed
          BY <3>2, <4>1, CloseFacts
        <4>3. session'[c] = v
          BY <1>5, <2>1, <2>2, <3>3, <4>1
        <4>4. v.stale = s.stale
          BY <3>2, <4>2 DEF Same
        <4> QED BY <2>1, <3>3, <4>2, <4>3, <4>4
      <3>4. CASE c \notin gone
        <4>1. ~Refused(s)
          BY <1>1, <2>1, <2>5, <3>4
        <4>2. session'[c] = p
          BY <1>5, <2>1, <2>2, <2>5, <3>4
        <4>3. Len(EventsIn(p)) = m + 1 /\ n = j + m + 1
          BY <1>3, <2>3, <2>4, <2>5, <3>2, <4>1
        <4>4. p.joined = j /\ p.stale = s.stale
          BY <2>3, <3>2 DEF Same
        <4>5. m + 1 = n - j
          BY <4>3
        <4>6. UpToDate(p, n)
          BY <4>3, <4>4, <4>5 DEF UpToDate
        <4> QED BY <2>1, <3>2, <3>4, <4>2, <4>4, <4>6
      <3> QED BY <3>3, <3>4
    <2>6. CASE c \notin Registered
      <3>1. c \notin gone
        BY <1>1, <2>6
      <3>2. session'[c] = s
        BY <1>5, <2>1, <2>6, <3>1
      <3> QED BY <2>1, <2>6, <3>2
    <2> QED BY <2>5, <2>6
  <1>7. session' \in [Clients -> SessionRec]
    BY <1>5, <1>6
  <1> QED BY <1>2, <1>4, <1>6, <1>7

\* An event told to the hub by the sink's thread, and one broadcast directly.
LEMMA BroadcastsKeep ==
  ASSUME RealtimeInv, SinkDelivers \/ BroadcastDirectly
  PROVE  RealtimeInv'
  <1>1. Broadcasts
    BY DEF SinkDelivers, BroadcastDirectly
  <1>2. PICK gone : /\ hub' = [n |-> hub.n + 1, in |-> Without(hub.in, gone)] /\ session' \in [Clients -> SessionRec]
                    /\ \A c \in Clients :
                         /\ Orderly(session'[c]) /\ session'[c].stale = session[c].stale
                         /\ session[c].closed => session'[c].closed
                         /\ c \in Registered /\ c \in gone => session'[c].closed
                         /\ c \in Registered /\ c \notin gone => UpToDate(session'[c], hub.n + 1)
    BY <1>1, BroadcastsFacts
  <1>3. PICK n \in Nat : n = hub.n + 1
    BY HubFacts
  <1>4. work' \in Nat /\ pusher' = pusher /\ stop' = stop /\ down' \in {"up", "stopping", "sink", "down"}
    BY DEF SinkDelivers, BroadcastDirectly, RealtimeInv, RealtimeTypes
  <1>5. sink' \in SinkRec /\ SinkAddsUp'
    <2>1. sink \in SinkRec /\ SinkAddsUp
      BY DEF RealtimeInv, RealtimeTypes
    <2>2. CASE BroadcastDirectly
      <3>1. sink' = sink
        BY <2>2 DEF BroadcastDirectly
      <3> QED BY <2>1, <3>1 DEF SinkAddsUp
    <2>3. CASE SinkDelivers
      <3>1. PICK o \in Nat, d \in Nat, t \in Nat, k \in Nat :
              /\ o = sink.offered /\ d = sink.dropped /\ t = sink.told /\ k = Len(Kept(sink.q, Nat \ {0}))
        <4>1. sink.q \in Seq(Nat) /\ sink.offered \in Nat /\ sink.dropped \in Nat /\ sink.told \in Nat
          BY <2>1 DEF SinkRec
        <4>2. Len(Kept(sink.q, Nat \ {0})) \in Nat
          BY <4>1, KeptSizes
        <4> QED BY <4>1, <4>2
      <3>2. o = t + d + 1 + k /\ sink.hand # 0
        BY <2>1, <2>3, <3>1 DEF SinkAddsUp, SinkDelivers
      <3>3. PICK t1 \in Nat : t1 = t + 1
        OBVIOUS
      <3>4. sink' = [sink EXCEPT !.hand = 0, !.told = t1]
        BY <2>3, <3>1, <3>3 DEF SinkDelivers
      <3>5. /\ sink' \in SinkRec /\ sink'.q = sink.q /\ sink'.hand = 0 /\ sink'.told = t1 /\ sink'.offered = o
            /\ sink'.dropped = d
        BY <2>1, <3>1, <3>4 DEF SinkRec
      <3>6. o = t1 + d + 0 + k
        BY <3>2, <3>3
      <3>7. Len(Kept(sink'.q, Nat \ {0})) = k /\ (IF sink'.hand = 0 THEN 0 ELSE 1) = 0
        BY <3>1, <3>5
      <3> QED BY <3>5, <3>6, <3>7 DEF SinkAddsUp
    <2> QED BY <2>2, <2>3
  <1>6. hub' = [n |-> n, in |-> Without(hub.in, gone)]
    BY <1>2, <1>3
  <1>7. \A c \in Clients : /\ Orderly(session'[c]) /\ session'[c].stale = session[c].stale
                           /\ session[c].closed => session'[c].closed
                           /\ c \in Registered /\ c \in gone => session'[c].closed
                           /\ c \in Registered /\ c \notin gone => UpToDate(session'[c], n)
    BY <1>2, <1>3
  <1> QED BY <1>2, <1>4, <1>5, <1>6, <1>7, ManyClients

\* ping() and close(): who cannot be reached is dropped, and in the end everybody.
LEMMA PingAndCloseKeep ==
  ASSUME RealtimeInv, Ping \/ HubCloses
  PROVE  RealtimeInv'
  <1>1. PICK n \in Nat : n = hub.n /\ hub = [n |-> n, in |-> hub.in]
    BY HubFacts
  <1>2. sink \in SinkRec /\ SinkAddsUp /\ work \in Nat /\ down \in {"up", "stopping", "sink", "down"}
    BY DEF RealtimeInv, RealtimeTypes
  <1>3. sink' = sink /\ pusher' = pusher /\ stop' = stop /\ work' \in Nat /\ down' \in {"up", "stopping", "sink", "down"}
    BY <1>2 DEF Ping, HubCloses
  <1>4. sink' \in SinkRec /\ SinkAddsUp'
    BY <1>2, <1>3 DEF SinkAddsUp
  <1>5. PICK gone : /\ hub' = [n |-> n, in |-> Without(hub.in, gone)]
                    /\ \A c \in Registered \ gone : Ping => ~Refused(session[c])
                    /\ gone \subseteq Registered /\ (HubCloses => gone = Registered)
                    /\ Ping => gone = {c \in Registered : Refused(session[c])}
    <2>1. CASE Ping /\ ~HubCloses
      <3>1. PICK gone : gone = {c \in Registered : Refused(session[c])}
        OBVIOUS
      <3>2. hub' = [hub EXCEPT !.in = Without(@, gone)]
        BY <2>1, <3>1 DEF Ping
      <3>3. hub' = [n |-> n, in |-> Without(hub.in, gone)]
        BY <1>1, <3>2
      <3> QED BY <2>1, <3>1, <3>3
    <2>2. CASE HubCloses
      <3>1. ~Ping
        BY <2>2 DEF HubCloses, Ping
      <3>2. hub' = [hub EXCEPT !.in = Without(@, Registered)]
        BY <2>2 DEF HubCloses
      <3>3. hub' = [n |-> n, in |-> Without(hub.in, Registered)]
        BY <1>1, <3>2
      <3> QED BY <2>2, <3>1, <3>3
    <2> QED BY <2>1, <2>2
  <1>6. ASSUME NEW c \in Clients
        PROVE  /\ session'[c] \in SessionRec /\ Orderly(session'[c]) /\ session'[c].stale = session[c].stale
               /\ session[c].closed => session'[c].closed
               /\ c \in Registered /\ c \in gone => session'[c].closed
               /\ c \in Registered /\ c \notin gone => UpToDate(session'[c], n)
    <2>1. PICK s \in SessionRec : s = session[c] /\ Orderly(s) /\ (c \in Registered => UpToDate(s, n))
      BY <1>1, HubFacts DEF RealtimeInv
    <2>2. CASE session'[c] = s /\ c \notin gone
      BY <2>1, <2>2
    <2>3. CASE \E code \in Nat : session'[c] = CloseSession(s, code) /\ c \in gone
      <3>1. PICK code \in Nat : session'[c] = CloseSession(s, code)
        BY <2>3
      <3>2. session'[c] \in SessionRec /\ Orderly(session'[c]) /\ Same(s, session'[c]) /\ session'[c].closed
        BY <2>1, <3>1, CloseFacts
      <3> QED BY <2>1, <2>3, <3>2 DEF Same
    <2>4. CASE session'[c] = Put(s, Reply) /\ c \notin gone
      <3>1. PICK v : v = Put(session[c], Reply) /\ v = session'[c]
        BY <2>1, <2>4
      <3>2. /\ v \in SessionRec /\ Orderly(v) /\ Same(session[c], v) /\ (session[c].closed => v.closed)
            /\ c \in Registered => UpToDate(v, hub.n)
        BY <3>1, ReplyFacts, ItemKinds
      <3> QED BY <1>1, <2>4, <3>1, <3>2 DEF Same
    <2>5. CASE Ping
      <3>1. gone = {d \in Registered : Refused(session[d])}
        BY <1>5, <2>5
      <3>2. session' = [d \in Clients |-> IF d \in gone THEN CloseSession(session[d], 1013)
                                          ELSE IF d \in Registered /\ ~IsSocket(session[d]) THEN Put(session[d], Reply)
                                          ELSE session[d]]
        BY <2>5, <3>1 DEF Ping
      <3>3. 1013 \in Nat
        OBVIOUS
      <3>4. session'[c] = IF c \in gone THEN CloseSession(s, 1013)
                          ELSE IF c \in Registered /\ ~IsSocket(s) THEN Put(s, Reply) ELSE s
        BY <2>1, <3>2
      <3> QED BY <2>2, <2>3, <2>4, <3>3, <3>4
    <2>6. CASE HubCloses
      <3>1. gone = Registered
        BY <1>5, <2>6
      <3>2. session'[c] = IF c \in gone THEN CloseSession(s, 1000) ELSE s
        BY <2>1, <2>6, <3>1 DEF HubCloses
      <3>3. 1000 \in Nat
        OBVIOUS
      <3> QED BY <2>2, <2>3, <3>2, <3>3
    <2> QED BY <2>5, <2>6
  <1>7. session' \in [Clients -> SessionRec]
    <2>1. \E f : session' = [d \in Clients |-> f[d]]
      <3>1. CASE Ping
        <4>1. PICK f : f = [d \in Clients |->
                          IF d \in {e \in Registered : Refused(session[e])} THEN CloseSession(session[d], 1013)
                          ELSE IF d \in Registered /\ ~IsSocket(session[d]) THEN Put(session[d], Reply) ELSE session[d]]
          OBVIOUS
        <4>2. session' = f
          BY <3>1, <4>1 DEF Ping
        <4> QED BY <4>1, <4>2
      <3>2. CASE HubCloses
        BY <3>2 DEF HubCloses
      <3> QED BY <3>1, <3>2
    <2> QED BY <1>6, <2>1
  <1> QED BY <1>3, <1>4, <1>5, <1>6, <1>7, ManyClients

\* due_subscriptions(): each client once, with the feed it has.
LEMMA PusherCollectsKeeps ==
  ASSUME RealtimeInv, PusherCollects
  PROVE  RealtimeInv'
  <1>1. PICK due : due = {c \in Registered : hub.in[c].feed # "none" /\ hub.in[c].due}
    OBVIOUS
  <1>2. /\ hub = [n |-> hub.n, in |-> hub.in] /\ hub.n \in Nat /\ Registered \subseteq Clients /\ IsFiniteSet(Registered)
        /\ hub.in \in [Registered -> FeedRec]
    BY HubFacts
  <1>3. PICK m \in Nat : m = Cardinality(due)
    BY <1>1, <1>2, FS_Subset, FS_CardinalityType
  <1>4. PICK order \in [1..m -> due] :
          /\ \A i, k \in 1..m : order[i] = order[k] => i = k
          /\ pusher' = [st |-> "push", due |-> [i \in 1..m |-> <<order[i], hub.in[order[i]].feed>>]]
    BY <1>1, <1>3 DEF PusherCollects
  <1>5. \A i \in 1..m : order[i] \in Registered /\ hub.in[order[i]].feed \in Feeds
    BY <1>1, <1>2, <1>4 DEF FeedRec
  <1>6. PICK list \in Seq(Clients \X Feeds) : /\ pusher' = [st |-> "push", due |-> list] /\ DOMAIN list = 1..m
                                              /\ \A i \in 1..m : list[i] = <<order[i], hub.in[order[i]].feed>>
    <2>1. PICK list : list = [i \in 1..m |-> <<order[i], hub.in[order[i]].feed>>]
      OBVIOUS
    <2>2. list \in [1..m -> Clients \X Feeds]
      BY <1>2, <1>5, <2>1
    <2>3. list \in Seq(Clients \X Feeds)
      BY <2>2, IsASeq
    <2> QED BY <1>4, <2>1, <2>3
  <1>7. PICK in : /\ in \in [Registered -> FeedRec] /\ \A c \in Registered : in[c].feed = hub.in[c].feed
                  /\ hub' = [n |-> hub.n, in |-> in]
    <2>1. PICK in : in = [c \in Registered |-> IF c \in due THEN [hub.in[c] EXCEPT !.due = FALSE] ELSE hub.in[c]]
      OBVIOUS
    <2>2. ASSUME NEW c \in Registered PROVE in[c] \in FeedRec /\ in[c].feed = hub.in[c].feed
      <3>1. PICK r \in FeedRec : r = hub.in[c]
        BY <1>2
      <3>2. PICK v : v = [r EXCEPT !.due = FALSE]
        OBVIOUS
      <3>3. v \in FeedRec /\ v.feed = r.feed
        BY <3>2 DEF FeedRec
      <3>4. in[c] = IF c \in due THEN v ELSE r
        BY <2>1, <3>1, <3>2
      <3> QED BY <3>1, <3>3, <3>4
    <2>3. in \in [Registered -> FeedRec]
      BY <2>1, <2>2
    <2>4. hub' = [hub EXCEPT !.in = in]
      BY <1>1, <2>1 DEF PusherCollects
    <2>5. hub' = [n |-> hub.n, in |-> in]
      BY <1>2, <2>4
    <2> QED BY <2>2, <2>3, <2>5
  <1>8. Registered' = Registered /\ hub'.in = in /\ hub'.n = hub.n
    BY <1>7 DEF Registered
  <1>9. UNCHANGED <<sink, session, stop, down, work>>
    BY DEF PusherCollects
  <1>10. RealtimeTypes'
    <2>1. hub' \in [n : Nat, in : UNION {[E -> FeedRec] : E \in SUBSET Clients}]
      BY <1>2, <1>7
    <2>2. IsFiniteSet(Registered)'
      BY <1>2, <1>8
    <2>3. pusher' \in [st : {"dead", "wait", "push"}, due : Seq(Clients \X Feeds)]
      BY <1>6
    <2> QED BY <1>9, <2>1, <2>2, <2>3 DEF RealtimeInv, RealtimeTypes
  <1>11. SinkAddsUp' /\ OneStaleSnapshot'
    BY <1>9 DEF RealtimeInv, SinkAddsUp, OneStaleSnapshot
  <1>12. PusherInv'
    <2>1. pusher'.due = list
      BY <1>6
    <2>2. \A i, k \in DOMAIN list : list[i][1] = list[k][1] => i = k
      BY <1>4, <1>6
    <2>3. ASSUME NEW i \in DOMAIN list
          PROVE  list[i][1] \in Registered' /\ hub'.in[list[i][1]].feed = list[i][2]
      BY <1>5, <1>6, <1>7, <1>8, <2>3
    <2> QED BY <2>1, <2>2, <2>3 DEF PusherInv, Away, Registered
  <1>13. (\A c \in Clients : Orderly(session[c]))'
    BY <1>9 DEF RealtimeInv, Orderly, EventsIn, AllOf
  <1>14. (\A c \in Registered : UpToDate(session[c], hub.n))'
    BY <1>8, <1>9 DEF RealtimeInv, UpToDate, EventsIn, AllOf
  <1> QED BY <1>10, <1>11, <1>12, <1>13, <1>14 DEF RealtimeInv

\* One delivery of the pusher: stale only for a client that left the feed after the list was made, which is off it now.
LEMMA PusherSendsKeeps ==
  ASSUME RealtimeInv, PusherSends
  PROVE  RealtimeInv'
  <1>1. PICK list \in Seq(Clients \X Feeds) : list = pusher.due /\ list # <<>>
    BY DEF PusherSends, RealtimeInv, RealtimeTypes
  <1>2. PICK rest \in Seq(Clients \X Feeds) : rest = Tail(list)
    BY <1>1, HeadTailProperties
  <1>3. PICK m \in Nat : m = Len(rest)
    BY LenProperties
  <1>4. /\ Len(list) = m + 1 /\ DOMAIN list = 1..(m + 1) /\ DOMAIN rest = 1..m
        /\ \A i \in 1..m : rest[i] = list[i + 1]
    <2>1. Len(rest) = Len(list) - 1 /\ \A i \in 1..Len(rest) : rest[i] = list[i + 1]
      BY <1>1, <1>2, HeadTailProperties
    <2>2. Len(list) \in Nat /\ DOMAIN list = 1..Len(list) /\ DOMAIN rest = 1..Len(rest)
      BY LenProperties
    <2>3. Len(list) = m + 1
      BY <1>3, <2>1, <2>2
    <2> QED BY <1>3, <2>1, <2>2, <2>3
  <1>5. PICK c \in Clients, feed \in Feeds : c = Head(pusher.due)[1] /\ feed = Head(pusher.due)[2]
                                             /\ c = list[1][1] /\ feed = list[1][2]
    <2>1. Head(list) = list[1] /\ list[1] \in Clients \X Feeds
      <3>1. 1 \in 1..Len(list)
        BY <1>3, <1>4
      <3>2. list[1] \in Clients \X Feeds
        BY <3>1, ElementOfSeq
      <3> QED BY <3>2
    <2> QED BY <1>1, <2>1
  <1>6. /\ \A i, k \in 1..(m + 1) : list[i][1] = list[k][1] => i = k
        /\ \A i \in 1..(m + 1) : Away(list[i][1], list[i][2]) /\ ~session[list[i][1]].closed => session[list[i][1]].stale = 0
    BY <1>1, <1>4 DEF RealtimeInv, PusherInv
  <1>7. PICK s \in SessionRec : s = session[c] /\ Orderly(s) /\ s.stale \in {0, 1}
    BY HubFacts
  <1>8. PICK item \in Items : item = Snap(feed) /\ item.k = "snap"
    BY ItemKinds
  <1>9. PICK p : p = Put(s, item)
    OBVIOUS
  <1>10. /\ p \in SessionRec /\ Orderly(p) /\ Same(s, p) /\ (s.closed => p.closed)
         /\ c \in Registered => UpToDate(p, hub.n)
    <2>1. p = Put(session[c], item) /\ item.k # "close" /\ item.k # "event"
      BY <1>7, <1>8, <1>9
    <2> QED BY <1>7, <2>1, ReplyFacts
  <1>11. /\ hub = [n |-> hub.n, in |-> hub.in] /\ hub.n \in Nat /\ Registered \subseteq Clients /\ IsFiniteSet(Registered)
         /\ hub.in \in [Registered -> FeedRec] /\ session \in [Clients -> SessionRec]
    BY HubFacts
  <1>12. /\ UNCHANGED <<sink, stop, down, work>> /\ pusher' = [pusher EXCEPT !.due = rest]
    BY <1>1, <1>2 DEF PusherSends
  <1>23. /\ Refused(session[c]) =>
               /\ hub' = [hub EXCEPT !.in = Without(hub.in, {c})]
               /\ session' = [session EXCEPT ![c] = CloseSession(Put(session[c], Snap(feed)), 1013)]
         /\ ~Refused(session[c]) =>
               /\ session' = [session EXCEPT ![c] = [Put(session[c], Snap(feed)) EXCEPT
                     !.stale = session[c].stale + IF c \notin Registered \/ hub.in[c].feed # feed THEN 1 ELSE 0]]
               /\ hub' = hub
    <2>1. PICK h : h = Head(pusher.due)
      OBVIOUS
    <2>2. c = h[1] /\ feed = h[2]
      BY <1>5, <2>1
    <2>3. /\ Refused(session[h[1]]) =>
                /\ hub' = [hub EXCEPT !.in = Without(hub.in, {h[1]})]
                /\ session' = [session EXCEPT ![h[1]] = CloseSession(Put(session[h[1]], Snap(h[2])), 1013)]
          /\ ~Refused(session[h[1]]) =>
                /\ session' = [session EXCEPT ![h[1]] = [Put(session[h[1]], Snap(h[2])) EXCEPT
                      !.stale = session[h[1]].stale + IF h[1] \notin Registered \/ hub.in[h[1]].feed # h[2] THEN 1 ELSE 0]]
                /\ hub' = hub
      BY <2>1 DEF PusherSends
    <2> QED BY <2>2, <2>3
  <1>13. PICK v \in SessionRec, D \in SUBSET Registered :
           /\ session' = [session EXCEPT ![c] = v] /\ Orderly(v) /\ v.stale <= 1
           /\ Registered' = D /\ hub' \in [n : Nat, in : UNION {[E -> FeedRec] : E \in SUBSET Clients}] /\ hub'.n = hub.n
           /\ c \in D => UpToDate(v, hub.n)
           /\ \A d \in Registered \ {c} : d \in D /\ hub'.in[d] = hub.in[d]
    <2>1. CASE Refused(s)
      <3>0. PICK code \in Nat : code = 1013
        OBVIOUS
      <3>1. PICK v : v = CloseSession(p, code)
        OBVIOUS
      <3>2. v \in SessionRec /\ Orderly(v) /\ Same(p, v) /\ v.closed
        BY <1>10, <3>1, CloseFacts
      <3>3. v.stale <= 1
        BY <1>7, <1>10, <3>2 DEF Same
      <3>4. session' = [session EXCEPT ![c] = v]
        <4>1. session' = [session EXCEPT ![c] = CloseSession(Put(session[c], Snap(feed)), 1013)]
          BY <1>7, <1>23, <2>1
        <4> QED BY <1>7, <1>8, <1>9, <3>0, <3>1, <4>1
      <3>5. PICK in, D : in = Without(hub.in, {c}) /\ D = Registered \ {c}
        OBVIOUS
      <3>6. in \in [D -> FeedRec] /\ D \in SUBSET Clients /\ \A d \in Registered \ {c} : in[d] = hub.in[d]
        BY <3>5, WithoutFacts
      <3>7. hub' = [n |-> hub.n, in |-> in]
        <4>1. hub' = [hub EXCEPT !.in = in]
          BY <1>7, <1>23, <2>1, <3>5
        <4> QED BY <1>11, <4>1
      <3>8. Registered' = D /\ hub'.n = hub.n /\ hub'.in = in
        BY <3>6, <3>7 DEF Registered
      <3>9. hub' \in [n : Nat, in : UNION {[E -> FeedRec] : E \in SUBSET Clients}]
        BY <1>11, <3>6, <3>7
      <3> QED BY <3>2, <3>3, <3>4, <3>5, <3>6, <3>8, <3>9
    <2>2. CASE ~Refused(s)
      <3>1. PICK stale \in {0, 1} : stale = IF Away(c, feed) THEN s.stale + 1 ELSE s.stale
        <4>1. Away(c, feed) => s.stale = 0
          <5>1. 1 \in 1..(m + 1)
            BY <1>3
          <5>2. Away(list[1][1], list[1][2]) /\ ~session[list[1][1]].closed => session[list[1][1]].stale = 0
            BY <1>6, <5>1
          <5>3. ~s.closed
            BY <2>2 DEF Refused
          <5> QED BY <1>5, <1>7, <5>2, <5>3
        <4> QED BY <1>7, <4>1
      <3>2. PICK v : v = [p EXCEPT !.stale = stale]
        OBVIOUS
      <3>3. /\ v \in SessionRec /\ v.q = p.q /\ v.seen = p.seen /\ v.joined = p.joined /\ v.kind = p.kind /\ v.closed = p.closed
            /\ v.broken = p.broken /\ v.stale = stale
        <4>1. stale \in Nat
          BY <3>1
        <4> QED BY <1>10, <3>2, <4>1 DEF SessionRec
      <3>4. Orderly(v) /\ (c \in Registered => UpToDate(v, hub.n)) /\ v.stale <= 1
        <4>1. Orderly(v) /\ (c \in Registered => UpToDate(v, hub.n))
          BY <1>10, <3>3, OtherFields
        <4> QED BY <3>1, <3>3, <4>1
      <3>5. session' = [session EXCEPT ![c] = v]
        <4>1. session' = [session EXCEPT ![c] = [Put(session[c], Snap(feed)) EXCEPT
                            !.stale = session[c].stale + IF c \notin Registered \/ hub.in[c].feed # feed THEN 1 ELSE 0]]
          BY <1>7, <1>23, <2>2
        <4>2. stale = session[c].stale + IF c \notin Registered \/ hub.in[c].feed # feed THEN 1 ELSE 0
          BY <1>7, <3>1 DEF Away
        <4> QED BY <1>7, <1>8, <1>9, <3>2, <4>1, <4>2
      <3>6. hub' = hub
        BY <1>7, <1>23, <2>2
      <3>7. Registered' = Registered
        BY <3>6 DEF Registered
      <3>8. hub' \in [n : Nat, in : UNION {[E -> FeedRec] : E \in SUBSET Clients}]
        BY <3>6 DEF RealtimeInv, RealtimeTypes
      <3> QED BY <3>3, <3>4, <3>5, <3>6, <3>7, <3>8
    <2> QED BY <2>1, <2>2
  <1>14. session' \in [Clients -> SessionRec] /\ session'[c] = v /\ \A d \in Clients \ {c} : session'[d] = session[d]
    BY <1>11, <1>13
  <1>15. RealtimeTypes'
    <2>1. IsFiniteSet(Registered)'
      BY <1>11, <1>13, FS_Subset
    <2>2. pusher' \in [st : {"dead", "wait", "push"}, due : Seq(Clients \X Feeds)]
      BY <1>12 DEF RealtimeInv, RealtimeTypes
    <2> QED BY <1>12, <1>13, <1>14, <2>1, <2>2 DEF RealtimeInv, RealtimeTypes
  <1>16. SinkAddsUp'
    BY <1>12 DEF RealtimeInv, SinkAddsUp
  <1>17. ASSUME NEW d \in Clients PROVE Orderly(session'[d]) /\ session'[d].stale <= 1
    <2>1. CASE d = c
      BY <1>13, <1>14, <2>1
    <2>2. CASE d # c
      BY <1>14, <2>2 DEF RealtimeInv, OneStaleSnapshot
    <2> QED BY <2>1, <2>2
  <1>18. ASSUME NEW d \in Registered' PROVE UpToDate(session'[d], hub'.n)
    <2>1. CASE d = c
      BY <1>13, <1>14, <1>18, <2>1
    <2>2. CASE d # c
      <3>1. d \in Registered /\ d \in Clients
        BY <1>11, <1>13, <1>18
      <3> QED BY <1>13, <1>14, <2>2, <3>1 DEF RealtimeInv
    <2> QED BY <2>1, <2>2
  <1>19. PusherInv'
    <2>1. pusher'.due = rest
      BY <1>12 DEF RealtimeInv, RealtimeTypes
    <2>2. ASSUME NEW i \in 1..m, NEW k \in 1..m, rest[i][1] = rest[k][1] PROVE i = k
      <3>1. i + 1 \in 1..(m + 1) /\ k + 1 \in 1..(m + 1)
        BY <1>3
      <3>2. i + 1 = k + 1
        BY <1>4, <1>6, <2>2, <3>1
      <3> QED BY <3>2
    <2>3. ASSUME NEW i \in 1..m, rest[i][1] \notin Registered' \/ hub'.in[rest[i][1]].feed # rest[i][2],
                 ~session'[rest[i][1]].closed
          PROVE  session'[rest[i][1]].stale = 0
      <3>1. i + 1 \in 1..(m + 1) /\ 1 \in 1..(m + 1) /\ i + 1 # 1
        BY <1>3
      <3>2. PICK d \in Clients, f \in Feeds : d = rest[i][1] /\ f = rest[i][2] /\ d = list[i + 1][1] /\ f = list[i + 1][2]
        <4>1. rest[i] \in Clients \X Feeds
          BY <1>3, ElementOfSeq
        <4> QED BY <1>4, <4>1
      <3>3. d # c
        BY <1>5, <1>6, <3>1, <3>2
      <3>4. session'[d] = session[d] /\ (Away(d, f) <=> d \notin Registered' \/ hub'.in[d].feed # f)
        BY <1>13, <1>14, <3>2, <3>3 DEF Away
      <3>5. Away(d, f) /\ ~session[d].closed
        BY <2>3, <3>2, <3>4
      <3>6. session[d].stale = 0
        BY <1>6, <3>1, <3>2, <3>5
      <3> QED BY <3>2, <3>4, <3>6
    <2> QED BY <1>4, <2>1, <2>2, <2>3 DEF PusherInv, Away, Registered
  <1>20. OneStaleSnapshot'
    BY <1>17 DEF OneStaleSnapshot
  <1>21. (\A d \in Clients : Orderly(session[d]))'
    BY <1>17 DEF Orderly, EventsIn, AllOf
  <1>22. (\A d \in Registered : UpToDate(session[d], hub.n))'
    BY <1>18 DEF UpToDate, EventsIn, AllOf
  <1> QED BY <1>15, <1>16, <1>19, <1>20, <1>21, <1>22 DEF RealtimeInv

\* The hub, the sessions, the sink and the pusher keep RealtimeInv, for any clients, queues and bounds.
THEOREM RealtimeInductive == RealtimeSpec => []RealtimeInv
  <1>1. RealtimeInit => RealtimeInv
    <2> SUFFICES ASSUME RealtimeInit PROVE RealtimeInv
      OBVIOUS
    <2>1. PICK none \in Seq(Items) : none = <<>>
      BY EmptySeq
    <2>2. NewSession \in SessionRec /\ NewSession.q = <<>> /\ NewSession.seen = <<>> /\ NewSession.stale = 0
      <3>1. NewSession = [st |-> "none", kind |-> "stream", q |-> none, seen |-> none, closed |-> FALSE, listed |-> FALSE,
                          broken |-> FALSE, joined |-> 0, stale |-> 0]
        BY <2>1 DEF NewSession
      <3> QED BY <2>1, <3>1 DEF SessionRec, Stages
    <2>3. \A c \in Clients : session[c] = NewSession
      BY DEF RealtimeInit
    <2>4. Orderly(NewSession)
      BY <2>2, FreshSession
    <2>5. Registered = {} /\ IsFiniteSet(Registered)
      BY FS_EmptySet DEF RealtimeInit, Registered
    <2>6. PICK q \in Seq(Nat) : q = <<>>
      BY EmptySeq
    <2>7. sink \in SinkRec /\ sink.q = q /\ sink.hand = 0 /\ sink.offered = 0 /\ sink.dropped = 0 /\ sink.told = 0
      BY <2>6 DEF RealtimeInit, SinkRec
    <2>8. Len(Kept(q, Nat \ {0})) = 0
      <3>1. \A i \in DOMAIN q : FALSE
        BY <2>6, EmptySeq
      <3>2. Kept(q, Nat \ {0}) = <<>>
        BY <3>1, KeptSizes
      <3> QED BY <3>2, EmptySeq
    <2>9. SinkAddsUp
      BY <2>7, <2>8 DEF SinkAddsUp
    <2>10. pusher \in [st : {"dead", "wait", "push"}, due : Seq(Clients \X Feeds)] /\ DOMAIN pusher.due = {}
      <3>1. PICK list \in Seq(Clients \X Feeds) : list = <<>>
        BY EmptySeq
      <3>2. pusher = [st |-> "dead", due |-> list]
        BY <3>1 DEF RealtimeInit
      <3> QED BY <3>1, <3>2
    <2>11. hub \in [n : Nat, in : UNION {[D -> FeedRec] : D \in SUBSET Clients}]
      <3>1. PICK in : in = [c \in {} |-> NoFeed]
        OBVIOUS
      <3>2. in \in [{} -> FeedRec] /\ {} \in SUBSET Clients
        BY <3>1
      <3>3. hub = [n |-> 0, in |-> in]
        BY <3>1 DEF RealtimeInit
      <3> QED BY <3>2, <3>3
    <2>12. RealtimeTypes
      <3>1. session \in [Clients -> SessionRec]
        BY <2>2 DEF RealtimeInit
      <3>2. stop \in BOOLEAN /\ down = "up" /\ work \in Nat
        BY DEF RealtimeInit
      <3> QED BY <2>5, <2>7, <2>10, <2>11, <3>1, <3>2 DEF RealtimeTypes
    <2>13. OneStaleSnapshot /\ PusherInv
      BY <2>2, <2>3, <2>10 DEF OneStaleSnapshot, PusherInv
    <2> QED BY <2>3, <2>4, <2>5, <2>9, <2>12, <2>13 DEF RealtimeInv
  <1>2. RealtimeInv /\ [RealtimeNext]_realtimeVars => RealtimeInv'
    <2>1. SUFFICES ASSUME RealtimeInv, [RealtimeNext]_realtimeVars PROVE RealtimeInv'
      OBVIOUS
    <2>2. CASE Offer \/ SinkTakes \/ PusherRests \/ PusherEnds \/ ShutdownSignals \/ SinkCloses \/ UNCHANGED realtimeVars
      BY <2>1, <2>2, SinkAndThreadsKeep
    <2>3. CASE SinkDelivers \/ BroadcastDirectly
      BY <2>1, <2>3, BroadcastsKeep
    <2>4. CASE Ping \/ HubCloses
      BY <2>1, <2>4, PingAndCloseKeep
    <2>5. CASE PusherCollects
      BY <2>1, <2>5, PusherCollectsKeeps
    <2>6. CASE PusherSends
      BY <2>1, <2>6, PusherSendsKeeps
    <2>7. ASSUME NEW c \in Clients, NEW kind \in {"stream", "socket"}, Open(c, kind) PROVE RealtimeInv'
      BY <2>1, <2>7, OpenKeeps
    <2>8. ASSUME NEW c \in Clients, StreamStarts(c) PROVE RealtimeInv'
      BY <2>1, <2>8, StreamStartsKeeps
    <2>9. ASSUME NEW c \in Clients, Greet(c) PROVE RealtimeInv'
      BY <2>1, <2>9, GreetKeeps
    <2>10. ASSUME NEW c \in Clients, UnsubscribeFeed(c) PROVE RealtimeInv'
      BY <2>1, <2>10, CommandKeeps
    <2>11. ASSUME NEW c \in Clients, NEW feed \in Feeds, SubscribeFeed(c, feed) PROVE RealtimeInv'
      BY <2>1, <2>11, CommandKeeps
    <2>12. ASSUME NEW c \in Clients, StreamYields(c) PROVE RealtimeInv'
      BY <2>1, <2>12, StreamYieldsKeeps
    <2>13. ASSUME NEW c \in Clients, ClientLeaves(c) \/ SocketBreaks(c) \/ ReaderEnds(c) PROVE RealtimeInv'
      BY <2>1, <2>13, LeavingKeeps
    <2>14. ASSUME NEW c \in Clients, Finally(c) PROVE RealtimeInv'
      BY <2>1, <2>14, FinallyKeeps
    <2>15. ASSUME NEW c \in Clients, IntervalElapses(c) PROVE RealtimeInv'
      BY <2>1, <2>15, IntervalElapsesKeeps
    <2> QED BY <2>1, <2>2, <2>3, <2>4, <2>5, <2>6, <2>7, <2>8, <2>9, <2>10, <2>11, <2>12, <2>13, <2>14, <2>15 DEF RealtimeNext
  <1> QED BY <1>1, <1>2, PTL DEF RealtimeSpec

\* WebSocketHub, EventSink: whoever is dropped, closed or shut down around it, a client gets the broadcasts of its time
\* without a gap and at most one stale snapshot, and no event of the engines is lost uncounted.
THEOREM ClientsMissNothingCorrect == RealtimeSpec => []ClientsMissNothing
  <1>1. RealtimeInv => ClientsMissNothing
    <2>1. SUFFICES ASSUME RealtimeInv PROVE ClientsMissNothing
      OBVIOUS
    <2>2. ASSUME NEW c \in Clients
          PROVE  /\ \A i \in 1..Len(EventsOf(c)) : EventsOf(c)[i].n = session[c].joined + i
                 /\ c \in Registered /\ ~session[c].closed /\ ~session[c].broken =>
                      Len(EventsOf(c)) = hub.n - session[c].joined
                 /\ \A i \in 1..Len(session[c].seen \o session[c].q) : (session[c].seen \o session[c].q)[i].k = "close" =>
                      i = Len(session[c].seen \o session[c].q) /\ session[c].closed
      <3>1. EventsOf(c) = EventsIn(session[c]) /\ AllOf(session[c]) = session[c].seen \o session[c].q
        BY DEF EventsOf, EventsIn, AllOf, EventItems
      <3>2. Orderly(session[c]) /\ (c \in Registered => UpToDate(session[c], hub.n))
        BY <2>1 DEF RealtimeInv
      <3> QED BY <3>1, <3>2 DEF Orderly, UpToDate
    <2>3. NoGaps
      BY <2>2 DEF NoGaps
    <2> QED BY <2>1, <2>3 DEF ClientsMissNothing, RealtimeInv
  <1> QED BY <1>1, RealtimeInductive, PTL
=============================================================================
