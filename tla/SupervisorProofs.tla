-------------------------- MODULE SupervisorProofs --------------------------
(***************************************************************************)
(* Proofs about Supervisor, for any budget of restarts, any window and any *)
(* number of children, and about Alarms, for any hosts, jobs, windows and  *)
(* thresholds.                                                             *)
(*                                                                         *)
(* Who may be alive is known from where the two threads stand: main() has  *)
(* the child in its handle until the supervisor takes over, the supervisor *)
(* in _process, but for the moment between launching one and recording it. *)
(* The budget is about the restarts the supervisor remembers; that it      *)
(* bounds those that happened rests on what it forgot being out of the     *)
(* window.                                                                 *)
(*                                                                         *)
(* The alarms rest on what each detector has dropped being older than any  *)
(* window a job still counts, as long as no two jobs met over it: then a   *)
(* window with enough in it was told, or a job that recorded into it is    *)
(* about to find out.                                                      *)
(***************************************************************************)
EXTENDS Supervisor, Alarms, ListProofs

\* Where main() and the supervisor thread can be, together.
StageInv ==
  /\ main \in {"begin", "spawn"} => handle = NoChild /\ spawned = 0
  /\ main \in {"begin", "spawn", "poll", "connect", "clean"} => sup = "off"
  /\ main = "exited" => sup = "gone" /\ tokenFile = "none"
  /\ main \in WayDown \ {"down"} => supStop
  /\ main = "wait" => handle \in Children /\ child[handle] # "none"

\* The child whoever launched it last knows of.
Holder == IF sup = "off" THEN handle ELSE IF sup = "assign" THEN fresh ELSE process

\* Until main() is gone no other child is alive, and none is launched next to
\* a live one.
ChildInv ==
  /\ \A c \in Children :
       /\ c > spawned => child[c] = "none"
       /\ child[c] \in {"none", "boot"} => childToken[c] = "none"
       /\ Lives(c) /\ main # "exited" => c = Holder
  /\ sup \in {"write", "spawn"} => ~Lives(process)

\* Not even afterwards.
OneInv == \A c, d \in Children : Lives(c) /\ Lives(d) => c = d

\* On the way down, unless shutdown read the handle in the middle of a restart,
\* the handle is that child, and it does not survive.
DownInv ==
  ~raced =>
    /\ main \in {"closing", "stop", "wait", "leave"} =>
         /\ sup \in {"off", "wait", "connect", "remove", "gone"}
         /\ sup # "off" => handle = process
    /\ main = "leave" => ~Lives(handle)
    /\ main = "exited" => \A c \in Children : ~Lives(c)

\* The secret is on disk from before a launch until after the connection, and
\* the connection is to a child that has read it.
TokenInv ==
  /\ main \in {"spawn", "poll", "connect", "clean"} => tokenFile = "secret"
  /\ sup \in {"spawn", "assign", "connect", "remove"} => tokenFile = "secret"
  /\ main \in {"stop", "wait", "leave", "exited"} => closed /\ link = NoChild
  /\ \A c \in Children :
       link = c => child[c] \in {"serve", "stopping"} /\ childToken[c] = "secret"

\* r is the end of attempts, and what is missing of it lies before the window.
Remembers(r) ==
  /\ Len(r) <= Len(attempts)
  /\ \A i \in 1..Len(r) : r[i] = attempts[Len(attempts) - Len(r) + i]
  /\ \A i \in 1..(Len(attempts) - Len(r)) : attempts[i] <= clock - Window

\* The attempts are in the order of the clock, and the supervisor remembers
\* those of the window.
BudgetInv ==
  /\ \A i, k \in 1..Len(attempts) : i <= k => attempts[i] <= attempts[k]
  /\ \A i \in 1..Len(attempts) : attempts[i] <= clock
  /\ Remembers(restarts)

IInv ==
  /\ TypeOK /\ StageInv /\ ChildInv /\ OneInv /\ DownInv /\ TokenInv
  /\ TokenHandover /\ BudgetInv

-----------------------------------------------------------------------------
(* The budget and the connection. *)

\* Forgetting what left the window leaves the end of the attempts.
LEMMA RecentFacts ==
  ASSUME TypeOK, BudgetInv
  PROVE  /\ Recent \in Seq(Nat) /\ Len(Recent) \in Nat
         /\ Len(Recent) <= Len(restarts) /\ Remembers(Recent)
  <1> DEFINE S == {t \in Nat : t > clock - Window}
  <1>1. /\ restarts \in Seq(Nat) /\ attempts \in Seq(Nat)
        /\ clock \in Nat /\ Window \in Nat
        /\ Len(restarts) \in Nat /\ Len(attempts) \in Nat
        /\ \A i \in 1..Len(attempts) : attempts[i] \in Nat
    BY SupervisorAssumption, LenProperties, ElementOfSeq DEF TypeOK
  <1>2. Recent \in Seq(Nat) /\ Len(Recent) <= Len(restarts)
    BY <1>1, KeptFacts DEF Recent
  <1> DEFINE before == Len(attempts) - Len(restarts)
  <1>3. /\ before \in Nat
        /\ \A i \in 1..Len(restarts) : restarts[i] = attempts[before + i]
        /\ \A i \in 1..before : attempts[i] <= clock - Window
    BY <1>1 DEF BudgetInv, Remembers
  <1>4. \A i \in 1..Len(restarts) :
          before + i \in 1..Len(attempts) /\ restarts[i] \in Nat
    BY <1>1, <1>3
  <1>5. ASSUME NEW i \in 1..Len(restarts), NEW k \in 1..Len(restarts),
               i <= k, restarts[i] \in S
        PROVE  restarts[k] \in S
    <2>1. \A m, n \in 1..Len(attempts) : m <= n => attempts[m] <= attempts[n]
      BY DEF BudgetInv
    <2>2. /\ before + i \in 1..Len(attempts) /\ before + k \in 1..Len(attempts)
          /\ before + i <= before + k
      BY <1>3, <1>4, <1>5
    <2>3. attempts[before + i] <= attempts[before + k]
      BY <2>1, <2>2
    <2>4. restarts[i] <= restarts[k]
      BY <1>3, <2>3
    <2>5. restarts[i] \in Nat /\ restarts[k] \in Nat /\ restarts[i] > clock - Window
      BY <1>4, <1>5
    <2>6. restarts[k] > clock - Window
      BY <1>1, <2>4, <2>5
    <2> QED BY <2>5, <2>6
  <1>6. PICK d \in 0..Len(restarts) :
          EndOf(Recent, d, Len(restarts), restarts, S)
    <2> HIDE DEF S
    <2>1. \E d \in 0..Len(restarts) :
            EndOf(Kept(restarts, S), d, Len(restarts), restarts, S)
      BY <1>1, <1>5, KeptSuffix
    <2> QED BY <2>1 DEF Recent, S
  <1>7. /\ Len(Recent) = Len(restarts) - d
        /\ \A i \in 1..(Len(restarts) - d) : Recent[i] = restarts[d + i]
        /\ \A i \in 1..Len(restarts) : restarts[i] \in S <=> i > d
    BY <1>6 DEF EndOf
  <1>8. Len(attempts) - Len(Recent) = before + d
    BY <1>1, <1>7
  <1>9. ASSUME NEW i \in 1..Len(Recent)
        PROVE  Recent[i] = attempts[Len(attempts) - Len(Recent) + i]
    <2>1. d + i \in 1..Len(restarts) /\ i \in 1..(Len(restarts) - d)
      BY <1>1, <1>7
    <2>2. Recent[i] = attempts[before + (d + i)]
      BY <1>3, <1>7, <2>1
    <2>3. before + (d + i) = Len(attempts) - Len(Recent) + i
      <3>1. d \in Nat /\ i \in Nat /\ before \in Nat
        BY <1>1, <1>3, <1>7
      <3> HIDE DEF before
      <3>2. before + (d + i) = (before + d) + i
        BY <3>1
      <3> QED BY <1>8, <3>2
    <2> QED BY <2>2, <2>3
  <1>10. ASSUME NEW i \in 1..(before + d)
         PROVE  attempts[i] <= clock - Window
    <2>1. CASE i <= before
      BY <1>3, <2>1
    <2>2. CASE i > before
      <3>1. i - before \in 1..Len(restarts) /\ ~ (i - before > d)
        BY <1>1, <1>3, <2>2
      <3>2. restarts[i - before] \notin S /\ restarts[i - before] \in Nat
        BY <1>4, <1>7, <3>1
      <3>3. restarts[i - before] = attempts[i]
        BY <1>3, <3>1
      <3> QED BY <1>1, <3>2, <3>3
    <2> QED BY <1>3, <2>1, <2>2
  <1>11. Len(Recent) \in Nat /\ Len(Recent) <= Len(attempts)
    BY <1>1, <1>3, <1>7
  <1>12. \A i \in 1..(Len(attempts) - Len(Recent)) : attempts[i] <= clock - Window
    BY <1>8, <1>10
  <1> QED BY <1>2, <1>9, <1>11, <1>12 DEF Remembers

\* Connecting changes nothing but the link, or the latch.
LEMMA ConnectFacts ==
  ASSUME TypeOK, NEW c \in Children, ConnectsTo(c)
  PROVE  /\ link' \in Children \cup {NoChild} /\ latched' \in BOOLEAN
         /\ closed' \in BOOLEAN
  BY DEF TypeOK, ConnectsTo

-----------------------------------------------------------------------------
(* Every step keeps each part of IInv. *)

\* Every step keeps the types.
LEMMA StepType ==
  ASSUME IInv, [SupervisorNext]_supervisorVars PROVE TypeOK'
  <1> USE SupervisorAssumption DEF IInv, TypeOK, WayDown
  <1>1. ASSUME MainWritesToken PROVE TypeOK'
    BY <1>1 DEF MainWritesToken, Moves, WriteToken, supVars, childVars,
      linkVars, histVars
  <1>2. ASSUME MainSpawns PROVE TypeOK'
    BY <1>2 DEF MainSpawns, Moves, Spawn, supVars, linkVars, histVars, Children
  <1>3. ASSUME MainSpawnFails PROVE TypeOK'
    BY <1>3 DEF MainSpawnFails, Moves, supVars, childVars, linkVars, histVars
  <1>4. ASSUME MainPolls PROVE TypeOK'
    BY <1>4 DEF MainPolls, Moves, supVars, childVars, linkVars, histVars
  <1>5. ASSUME MainConnects PROVE TypeOK'
    <2>1. /\ link' \in Children \cup {NoChild} /\ latched' \in BOOLEAN
          /\ closed' \in BOOLEAN
      BY <1>5, ConnectFacts DEF MainConnects
    <2> QED BY <1>5, <2>1 DEF MainConnects, Moves, supVars, childVars, histVars
  <1>6. ASSUME MainGivesUp PROVE TypeOK'
    BY <1>6 DEF MainGivesUp, supVars, childVars, linkVars, histVars
  <1>7. ASSUME MainServes PROVE TypeOK'
    BY <1>7 DEF MainServes, Moves, childVars, linkVars, histVars
  <1>8. ASSUME RequestShutdown PROVE TypeOK'
    BY <1>8 DEF RequestShutdown, supVars, childVars, linkVars, histVars
  <1>9. ASSUME Interrupted PROVE TypeOK'
    BY <1>9 DEF Interrupted, Moves, supVars, childVars, linkVars, histVars
  <1>10. ASSUME StopsSupervisor PROVE TypeOK'
    BY <1>10 DEF StopsSupervisor, Moves, childVars, linkVars, histVars
  <1>11. ASSUME ReadsHandle PROVE TypeOK'
    BY <1>11 DEF ReadsHandle, Moves, supVars, childVars, linkVars
  <1>12. ASSUME ClosesLink PROVE TypeOK'
    BY <1>12 DEF ClosesLink, Moves, supVars, histVars
  <1>13. ASSUME Terminates PROVE TypeOK'
    <2>1. child' \in [Children -> {"none", "boot", "read", "serve", "stopping",
                                   "dead"}]
      BY <1>13 DEF Terminates, Lives
    <2> QED BY <1>13, <2>1 DEF Terminates, Moves, supVars, linkVars, histVars
  <1>14. ASSUME Reaps PROVE TypeOK'
    <2>1. child' \in [Children -> {"none", "boot", "read", "serve", "stopping",
                                   "dead"}]
      BY <1>14 DEF Reaps, Moves, StageInv
    <2> QED BY <1>14, <2>1 DEF Reaps, Moves, supVars, linkVars, histVars
  <1>15. ASSUME Exits PROVE TypeOK'
    BY <1>15 DEF Exits, Moves, childVars, linkVars, histVars
  <1>16. ASSUME SupWakes PROVE TypeOK'
    BY <1>16 DEF SupWakes, Does, mainVars, childVars, linkVars, histVars
  <1>17. ASSUME SupChecks PROVE TypeOK'
    BY <1>17 DEF SupChecks, Does, mainVars, childVars, linkVars, histVars
  <1>18. ASSUME SupBudgets PROVE TypeOK'
    <2>1. /\ Recent \in Seq(Nat) /\ Len(Recent) \in Nat
          /\ Len(Recent) <= Len(restarts)
      BY RecentFacts
    <2>a. clock \in Nat /\ attempts \in Seq(Nat) /\ MaxRestarts \in Nat
      OBVIOUS
    <2>b. /\ Append(Recent, clock) \in Seq(Nat)
          /\ Len(Append(Recent, clock)) = Len(Recent) + 1
          /\ Append(attempts, clock) \in Seq(Nat)
      BY <2>1, <2>a, AppendProperties
    <2>2. restarts' \in Seq(Nat) /\ Len(restarts') <= MaxRestarts
      <3>1. CASE Spent
        BY <1>18, <2>1, <3>1 DEF SupBudgets
      <3>2. CASE ~Spent
        <4>1. Len(Recent) + 1 <= MaxRestarts
          BY <2>1, <2>a, <3>2 DEF Spent
        <4>2. restarts' = Append(Recent, clock)
          BY <1>18, <3>2 DEF SupBudgets
        <4> QED BY <2>b, <4>1, <4>2
      <3> QED BY <3>1, <3>2
    <2>3. attempts' \in Seq(Nat)
      BY <1>18, <2>a, <2>b DEF SupBudgets
    <2> QED
      BY <1>18, <2>2, <2>3 DEF SupBudgets, mainVars, childVars, linkVars
  <1>19. ASSUME SupWrites PROVE TypeOK'
    BY <1>19 DEF SupWrites, Does, WriteToken, mainVars, childVars, linkVars,
      histVars
  <1>20. ASSUME SupSpawns PROVE TypeOK'
    BY <1>20 DEF SupSpawns, Does, Spawn, mainVars, linkVars, histVars, Children
  <1>21. ASSUME SupSpawnFails PROVE TypeOK'
    BY <1>21 DEF SupSpawnFails, Does, mainVars, childVars, linkVars, histVars
  <1>22. ASSUME SupAssigns PROVE TypeOK'
    BY <1>22 DEF SupAssigns, Does, mainVars, childVars, linkVars, histVars
  <1>23. ASSUME SupReconnects PROVE TypeOK'
    <2>1. /\ link' \in Children \cup {NoChild} /\ latched' \in BOOLEAN
          /\ closed' \in BOOLEAN
      BY <1>23, ConnectFacts DEF SupReconnects, linkVars
    <2> QED BY <1>23, <2>1 DEF SupReconnects, Does, mainVars, childVars,
      histVars
  <1>24. ASSUME SupRemoves PROVE TypeOK'
    BY <1>24 DEF SupRemoves, Does, mainVars, childVars, linkVars, histVars
  <1>25. ASSUME Dial PROVE TypeOK'
    <2>1. /\ link' \in Children \cup {NoChild} /\ latched' \in BOOLEAN
          /\ closed' \in BOOLEAN
      BY <1>25, ConnectFacts DEF Dial
    <2> QED BY <1>25, <2>1 DEF Dial, mainVars, supVars, childVars, histVars
  <1>26. ASSUME Tick PROVE TypeOK'
    BY <1>26 DEF Tick, mainVars, supVars, childVars, linkVars, histVars
  <1>27. ASSUME NEW c \in Children, ReadsToken(c) PROVE TypeOK'
    BY <1>27 DEF ReadsToken, mainVars, supVars, linkVars, histVars
  <1>28. ASSUME NEW c \in Children, Listens(c) PROVE TypeOK'
    BY <1>28 DEF Listens, mainVars, supVars, linkVars, histVars
  <1>29. ASSUME NEW c \in Children, ChildDies(c) PROVE TypeOK'
    BY <1>29 DEF ChildDies, mainVars, supVars, histVars
  <1>30. ASSUME NEW c \in Children, ChildInterrupted(c) PROVE TypeOK'
    BY <1>30 DEF ChildInterrupted, mainVars, supVars, linkVars, histVars
  <1>31. ASSUME UNCHANGED supervisorVars PROVE TypeOK'
    BY <1>31 DEF supervisorVars, mainVars, supVars, childVars, linkVars,
      histVars
  <1> QED BY <1>1, <1>2, <1>3, <1>4, <1>5, <1>6, <1>7, <1>8, <1>9, <1>10,
      <1>11, <1>12, <1>13, <1>14, <1>15, <1>16, <1>17, <1>18, <1>19, <1>20,
      <1>21, <1>22, <1>23, <1>24, <1>25, <1>26, <1>27, <1>28, <1>29, <1>30,
      <1>31 DEF SupervisorNext, MainStep, SupStep, ChildStep

\* main() and the supervisor thread go their ways together.
LEMMA StepStage ==
  ASSUME IInv, [SupervisorNext]_supervisorVars PROVE StageInv'
  <1> USE SupervisorAssumption DEF IInv, TypeOK, StageInv, WayDown
  <1>1. ASSUME MainWritesToken PROVE StageInv'
    BY <1>1 DEF MainWritesToken, Moves, WriteToken, supVars, childVars,
      linkVars, histVars
  <1>2. ASSUME MainSpawns PROVE StageInv'
    BY <1>2 DEF MainSpawns, Moves, Spawn, supVars, linkVars, histVars
  <1>3. ASSUME MainSpawnFails PROVE StageInv'
    BY <1>3 DEF MainSpawnFails, Moves, supVars, childVars, linkVars, histVars
  <1>4. ASSUME MainPolls PROVE StageInv'
    BY <1>4 DEF MainPolls, Moves, supVars, childVars, linkVars, histVars
  <1>5. ASSUME MainConnects PROVE StageInv'
    BY <1>5 DEF MainConnects, ConnectsTo, Moves, supVars, childVars, histVars,
      Reachable
  <1>6. ASSUME MainGivesUp PROVE StageInv'
    BY <1>6 DEF MainGivesUp, supVars, childVars, linkVars, histVars
  <1>7. ASSUME MainServes PROVE StageInv'
    BY <1>7 DEF MainServes, Moves, childVars, linkVars, histVars
  <1>8. ASSUME RequestShutdown PROVE StageInv'
    BY <1>8 DEF RequestShutdown, supVars, childVars, linkVars, histVars
  <1>9. ASSUME Interrupted PROVE StageInv'
    BY <1>9 DEF Interrupted, Moves, supVars, childVars, linkVars, histVars
  <1>10. ASSUME StopsSupervisor PROVE StageInv'
    BY <1>10 DEF StopsSupervisor, Moves, childVars, linkVars, histVars
  <1>11. ASSUME ReadsHandle PROVE StageInv'
    BY <1>11 DEF ReadsHandle, Moves, supVars, childVars, linkVars
  <1>12. ASSUME ClosesLink PROVE StageInv'
    BY <1>12 DEF ClosesLink, Moves, supVars, histVars
  <1>13. ASSUME Terminates PROVE StageInv'
    BY <1>13 DEF Terminates, Moves, supVars, linkVars, histVars, Lives
  <1>14. ASSUME Reaps PROVE StageInv'
    BY <1>14 DEF Reaps, Moves, supVars, linkVars, histVars
  <1>15. ASSUME Exits PROVE StageInv'
    BY <1>15 DEF Exits, Moves, childVars, linkVars, histVars
  <1>16. ASSUME SupWakes PROVE StageInv'
    BY <1>16 DEF SupWakes, Does, mainVars, childVars, linkVars, histVars
  <1>17. ASSUME SupChecks PROVE StageInv'
    BY <1>17 DEF SupChecks, Does, mainVars, childVars, linkVars, histVars
  <1>18. ASSUME SupBudgets PROVE StageInv'
    BY <1>18 DEF SupBudgets, mainVars, childVars, linkVars
  <1>19. ASSUME SupWrites PROVE StageInv'
    BY <1>19 DEF SupWrites, Does, WriteToken, mainVars, childVars, linkVars,
      histVars
  <1>20. ASSUME SupSpawns PROVE StageInv'
    BY <1>20 DEF SupSpawns, Does, Spawn, mainVars, linkVars, histVars
  <1>21. ASSUME SupSpawnFails PROVE StageInv'
    BY <1>21 DEF SupSpawnFails, Does, mainVars, childVars, linkVars, histVars
  <1>22. ASSUME SupAssigns PROVE StageInv'
    BY <1>22 DEF SupAssigns, Does, mainVars, childVars, linkVars, histVars
  <1>23. ASSUME SupReconnects PROVE StageInv'
    BY <1>23 DEF SupReconnects, Does, linkVars, ConnectsTo, mainVars,
      childVars, histVars, Reachable
  <1>24. ASSUME SupRemoves PROVE StageInv'
    BY <1>24 DEF SupRemoves, Does, mainVars, childVars, linkVars, histVars
  <1>25. ASSUME Dial PROVE StageInv'
    BY <1>25 DEF Dial, ConnectsTo, mainVars, supVars, childVars, histVars,
      Reachable
  <1>26. ASSUME Tick PROVE StageInv'
    BY <1>26 DEF Tick, mainVars, supVars, childVars, linkVars, histVars
  <1>27. ASSUME NEW c \in Children, ReadsToken(c) PROVE StageInv'
    BY <1>27 DEF ReadsToken, mainVars, supVars, linkVars, histVars
  <1>28. ASSUME NEW c \in Children, Listens(c) PROVE StageInv'
    BY <1>28 DEF Listens, mainVars, supVars, linkVars, histVars
  <1>29. ASSUME NEW c \in Children, ChildDies(c) PROVE StageInv'
    BY <1>29 DEF ChildDies, mainVars, supVars, histVars
  <1>30. ASSUME NEW c \in Children, ChildInterrupted(c) PROVE StageInv'
    BY <1>30 DEF ChildInterrupted, mainVars, supVars, linkVars, histVars
  <1>31. ASSUME UNCHANGED supervisorVars PROVE StageInv'
    BY <1>31 DEF supervisorVars, mainVars, supVars, childVars, linkVars,
      histVars
  <1> QED BY <1>1, <1>2, <1>3, <1>4, <1>5, <1>6, <1>7, <1>8, <1>9, <1>10,
      <1>11, <1>12, <1>13, <1>14, <1>15, <1>16, <1>17, <1>18, <1>19, <1>20,
      <1>21, <1>22, <1>23, <1>24, <1>25, <1>26, <1>27, <1>28, <1>29, <1>30,
      <1>31 DEF SupervisorNext, MainStep, SupStep, ChildStep

\* A child is launched by whoever saw the last one dead, or by main() as the
\* first.
LEMMA StepChild ==
  ASSUME IInv, [SupervisorNext]_supervisorVars PROVE ChildInv'
  <1> USE SupervisorAssumption DEF IInv, TypeOK, StageInv, ChildInv, Holder,
      Lives, WayDown
  <1>1. ASSUME MainWritesToken PROVE ChildInv'
    BY <1>1 DEF MainWritesToken, Moves, WriteToken, supVars, childVars,
      linkVars, histVars
  <1>2. ASSUME MainSpawns PROVE ChildInv'
    BY <1>2 DEF MainSpawns, Moves, Spawn, supVars, linkVars, histVars, Children
  <1>3. ASSUME MainSpawnFails PROVE ChildInv'
    BY <1>3 DEF MainSpawnFails, Moves, supVars, childVars, linkVars, histVars
  <1>4. ASSUME MainPolls PROVE ChildInv'
    BY <1>4 DEF MainPolls, Moves, supVars, childVars, linkVars, histVars
  <1>5. ASSUME MainConnects PROVE ChildInv'
    BY <1>5 DEF MainConnects, ConnectsTo, Moves, supVars, childVars, histVars,
      Reachable
  <1>6. ASSUME MainGivesUp PROVE ChildInv'
    BY <1>6 DEF MainGivesUp, supVars, childVars, linkVars, histVars
  <1>7. ASSUME MainServes PROVE ChildInv'
    BY <1>7 DEF MainServes, Moves, childVars, linkVars, histVars
  <1>8. ASSUME RequestShutdown PROVE ChildInv'
    BY <1>8 DEF RequestShutdown, supVars, childVars, linkVars, histVars
  <1>9. ASSUME Interrupted PROVE ChildInv'
    BY <1>9 DEF Interrupted, Moves, supVars, childVars, linkVars, histVars
  <1>10. ASSUME StopsSupervisor PROVE ChildInv'
    BY <1>10 DEF StopsSupervisor, Moves, childVars, linkVars, histVars
  <1>11. ASSUME ReadsHandle PROVE ChildInv'
    BY <1>11 DEF ReadsHandle, Moves, supVars, childVars, linkVars
  <1>12. ASSUME ClosesLink PROVE ChildInv'
    BY <1>12 DEF ClosesLink, Moves, supVars, histVars
  <1>13. ASSUME Terminates PROVE ChildInv'
    BY <1>13 DEF Terminates, Moves, supVars, linkVars, histVars
  <1>14. ASSUME Reaps PROVE ChildInv'
    <2>1. handle \in Children /\ main # "exited"
      BY <1>14 DEF Reaps, Moves
    <2>2. child' = [c \in Children |-> IF c = handle THEN "dead" ELSE child[c]]
      BY <1>14, <2>1 DEF Reaps
    <2>3. /\ main' = "leave" /\ UNCHANGED <<handle, sup, process, fresh>>
          /\ UNCHANGED <<childToken, spawned>>
      BY <1>14 DEF Reaps, Moves, supVars
    <2>4. \A c \in Children : Lives(c)' => Lives(c)
      BY <2>1, <2>2
    <2>5. Holder' = Holder
      BY <2>3
    <2>6. ASSUME NEW c \in Children
          PROVE  /\ c > spawned' => child'[c] = "none"
                 /\ child'[c] \in {"none", "boot"} => childToken'[c] = "none"
                 /\ Lives(c)' /\ main' # "exited" => c = Holder'
      <3>1. ~ (handle > spawned)
        BY <1>14, <2>1 DEF Reaps, Moves
      <3> QED BY <2>1, <2>2, <2>3, <2>4, <2>5, <3>1
    <2>7. sup' \in {"write", "spawn"} => ~Lives(process)'
      BY <2>1, <2>2, <2>3
    <2> QED BY <2>6, <2>7
  <1>15. ASSUME Exits PROVE ChildInv'
    BY <1>15 DEF Exits, Moves, childVars, linkVars, histVars
  <1>16. ASSUME SupWakes PROVE ChildInv'
    BY <1>16 DEF SupWakes, Does, mainVars, childVars, linkVars, histVars
  <1>17. ASSUME SupChecks PROVE ChildInv'
    BY <1>17 DEF SupChecks, Does, mainVars, childVars, linkVars, histVars
  <1>18. ASSUME SupBudgets PROVE ChildInv'
    BY <1>18 DEF SupBudgets, mainVars, childVars, linkVars
  <1>19. ASSUME SupWrites PROVE ChildInv'
    BY <1>19 DEF SupWrites, Does, WriteToken, mainVars, childVars, linkVars,
      histVars
  <1>20. ASSUME SupSpawns PROVE ChildInv'
    BY <1>20 DEF SupSpawns, Does, Spawn, mainVars, linkVars, histVars, Children
  <1>21. ASSUME SupSpawnFails PROVE ChildInv'
    BY <1>21 DEF SupSpawnFails, Does, mainVars, childVars, linkVars, histVars
  <1>22. ASSUME SupAssigns PROVE ChildInv'
    BY <1>22 DEF SupAssigns, Does, mainVars, childVars, linkVars, histVars
  <1>23. ASSUME SupReconnects PROVE ChildInv'
    BY <1>23 DEF SupReconnects, Does, linkVars, ConnectsTo, mainVars,
      childVars, histVars, Reachable
  <1>24. ASSUME SupRemoves PROVE ChildInv'
    BY <1>24 DEF SupRemoves, Does, mainVars, childVars, linkVars, histVars
  <1>25. ASSUME Dial PROVE ChildInv'
    BY <1>25 DEF Dial, ConnectsTo, mainVars, supVars, childVars, histVars,
      Reachable
  <1>26. ASSUME Tick PROVE ChildInv'
    BY <1>26 DEF Tick, mainVars, supVars, childVars, linkVars, histVars
  <1>27. ASSUME NEW c \in Children, ReadsToken(c) PROVE ChildInv'
    BY <1>27 DEF ReadsToken, mainVars, supVars, linkVars, histVars
  <1>28. ASSUME NEW c \in Children, Listens(c) PROVE ChildInv'
    BY <1>28 DEF Listens, mainVars, supVars, linkVars, histVars
  <1>29. ASSUME NEW c \in Children, ChildDies(c) PROVE ChildInv'
    BY <1>29 DEF ChildDies, mainVars, supVars, histVars
  <1>30. ASSUME NEW c \in Children, ChildInterrupted(c) PROVE ChildInv'
    BY <1>30 DEF ChildInterrupted, mainVars, supVars, linkVars, histVars
  <1>31. ASSUME UNCHANGED supervisorVars PROVE ChildInv'
    BY <1>31 DEF supervisorVars, mainVars, supVars, childVars, linkVars,
      histVars
  <1> QED BY <1>1, <1>2, <1>3, <1>4, <1>5, <1>6, <1>7, <1>8, <1>9, <1>10,
      <1>11, <1>12, <1>13, <1>14, <1>15, <1>16, <1>17, <1>18, <1>19, <1>20,
      <1>21, <1>22, <1>23, <1>24, <1>25, <1>26, <1>27, <1>28, <1>29, <1>30,
      <1>31 DEF SupervisorNext, MainStep, SupStep, ChildStep

\* There is never a second child.
LEMMA StepOne ==
  ASSUME IInv, [SupervisorNext]_supervisorVars PROVE OneInv'
  <1> USE SupervisorAssumption DEF IInv, TypeOK, StageInv, ChildInv, OneInv,
      Holder, Lives, WayDown
  <1>1. ASSUME MainWritesToken PROVE OneInv'
    BY <1>1 DEF MainWritesToken, Moves, WriteToken, supVars, childVars,
      linkVars, histVars
  <1>2. ASSUME MainSpawns PROVE OneInv'
    BY <1>2 DEF MainSpawns, Moves, Spawn, supVars, linkVars, histVars, Children
  <1>3. ASSUME MainSpawnFails PROVE OneInv'
    BY <1>3 DEF MainSpawnFails, Moves, supVars, childVars, linkVars, histVars
  <1>4. ASSUME MainPolls PROVE OneInv'
    BY <1>4 DEF MainPolls, Moves, supVars, childVars, linkVars, histVars
  <1>5. ASSUME MainConnects PROVE OneInv'
    BY <1>5 DEF MainConnects, ConnectsTo, Moves, supVars, childVars, histVars,
      Reachable
  <1>6. ASSUME MainGivesUp PROVE OneInv'
    BY <1>6 DEF MainGivesUp, supVars, childVars, linkVars, histVars
  <1>7. ASSUME MainServes PROVE OneInv'
    BY <1>7 DEF MainServes, Moves, childVars, linkVars, histVars
  <1>8. ASSUME RequestShutdown PROVE OneInv'
    BY <1>8 DEF RequestShutdown, supVars, childVars, linkVars, histVars
  <1>9. ASSUME Interrupted PROVE OneInv'
    BY <1>9 DEF Interrupted, Moves, supVars, childVars, linkVars, histVars
  <1>10. ASSUME StopsSupervisor PROVE OneInv'
    BY <1>10 DEF StopsSupervisor, Moves, childVars, linkVars, histVars
  <1>11. ASSUME ReadsHandle PROVE OneInv'
    BY <1>11 DEF ReadsHandle, Moves, supVars, childVars, linkVars
  <1>12. ASSUME ClosesLink PROVE OneInv'
    BY <1>12 DEF ClosesLink, Moves, supVars, histVars
  <1>13. ASSUME Terminates PROVE OneInv'
    BY <1>13 DEF Terminates, Moves, supVars, linkVars, histVars
  <1>14. ASSUME Reaps PROVE OneInv'
    BY <1>14 DEF Reaps, Moves, supVars, linkVars, histVars
  <1>15. ASSUME Exits PROVE OneInv'
    BY <1>15 DEF Exits, Moves, childVars, linkVars, histVars
  <1>16. ASSUME SupWakes PROVE OneInv'
    BY <1>16 DEF SupWakes, Does, mainVars, childVars, linkVars, histVars
  <1>17. ASSUME SupChecks PROVE OneInv'
    BY <1>17 DEF SupChecks, Does, mainVars, childVars, linkVars, histVars
  <1>18. ASSUME SupBudgets PROVE OneInv'
    BY <1>18 DEF SupBudgets, mainVars, childVars, linkVars
  <1>19. ASSUME SupWrites PROVE OneInv'
    BY <1>19 DEF SupWrites, Does, WriteToken, mainVars, childVars, linkVars,
      histVars
  <1>20. ASSUME SupSpawns PROVE OneInv'
    BY <1>20 DEF SupSpawns, Does, Spawn, mainVars, linkVars, histVars, Children
  <1>21. ASSUME SupSpawnFails PROVE OneInv'
    BY <1>21 DEF SupSpawnFails, Does, mainVars, childVars, linkVars, histVars
  <1>22. ASSUME SupAssigns PROVE OneInv'
    BY <1>22 DEF SupAssigns, Does, mainVars, childVars, linkVars, histVars
  <1>23. ASSUME SupReconnects PROVE OneInv'
    BY <1>23 DEF SupReconnects, Does, linkVars, ConnectsTo, mainVars,
      childVars, histVars, Reachable
  <1>24. ASSUME SupRemoves PROVE OneInv'
    BY <1>24 DEF SupRemoves, Does, mainVars, childVars, linkVars, histVars
  <1>25. ASSUME Dial PROVE OneInv'
    BY <1>25 DEF Dial, ConnectsTo, mainVars, supVars, childVars, histVars,
      Reachable
  <1>26. ASSUME Tick PROVE OneInv'
    BY <1>26 DEF Tick, mainVars, supVars, childVars, linkVars, histVars
  <1>27. ASSUME NEW c \in Children, ReadsToken(c) PROVE OneInv'
    BY <1>27 DEF ReadsToken, mainVars, supVars, linkVars, histVars
  <1>28. ASSUME NEW c \in Children, Listens(c) PROVE OneInv'
    BY <1>28 DEF Listens, mainVars, supVars, linkVars, histVars
  <1>29. ASSUME NEW c \in Children, ChildDies(c) PROVE OneInv'
    BY <1>29 DEF ChildDies, mainVars, supVars, histVars
  <1>30. ASSUME NEW c \in Children, ChildInterrupted(c) PROVE OneInv'
    BY <1>30 DEF ChildInterrupted, mainVars, supVars, linkVars, histVars
  <1>31. ASSUME UNCHANGED supervisorVars PROVE OneInv'
    BY <1>31 DEF supervisorVars, mainVars, supVars, childVars, linkVars,
      histVars
  <1> QED BY <1>1, <1>2, <1>3, <1>4, <1>5, <1>6, <1>7, <1>8, <1>9, <1>10,
      <1>11, <1>12, <1>13, <1>14, <1>15, <1>16, <1>17, <1>18, <1>19, <1>20,
      <1>21, <1>22, <1>23, <1>24, <1>25, <1>26, <1>27, <1>28, <1>29, <1>30,
      <1>31 DEF SupervisorNext, MainStep, SupStep, ChildStep

\* The handle that shutdown has read is stopped, waited for and killed.
LEMMA StepDown ==
  ASSUME IInv, [SupervisorNext]_supervisorVars PROVE DownInv'
  <1> USE SupervisorAssumption DEF IInv, TypeOK, StageInv, ChildInv, DownInv,
      Holder, Lives, WayDown
  <1>1. ASSUME MainWritesToken PROVE DownInv'
    BY <1>1 DEF MainWritesToken, Moves, WriteToken, supVars, childVars,
      linkVars, histVars
  <1>2. ASSUME MainSpawns PROVE DownInv'
    BY <1>2 DEF MainSpawns, Moves, Spawn, supVars, linkVars, histVars
  <1>3. ASSUME MainSpawnFails PROVE DownInv'
    BY <1>3 DEF MainSpawnFails, Moves, supVars, childVars, linkVars, histVars
  <1>4. ASSUME MainPolls PROVE DownInv'
    BY <1>4 DEF MainPolls, Moves, supVars, childVars, linkVars, histVars
  <1>5. ASSUME MainConnects PROVE DownInv'
    BY <1>5 DEF MainConnects, ConnectsTo, Moves, supVars, childVars, histVars,
      Reachable
  <1>6. ASSUME MainGivesUp PROVE DownInv'
    BY <1>6 DEF MainGivesUp, supVars, childVars, linkVars, histVars
  <1>7. ASSUME MainServes PROVE DownInv'
    BY <1>7 DEF MainServes, Moves, childVars, linkVars, histVars
  <1>8. ASSUME RequestShutdown PROVE DownInv'
    BY <1>8 DEF RequestShutdown, supVars, childVars, linkVars, histVars
  <1>9. ASSUME Interrupted PROVE DownInv'
    BY <1>9 DEF Interrupted, Moves, supVars, childVars, linkVars, histVars
  <1>10. ASSUME StopsSupervisor PROVE DownInv'
    BY <1>10 DEF StopsSupervisor, Moves, childVars, linkVars, histVars
  <1>11. ASSUME ReadsHandle PROVE DownInv'
    BY <1>11 DEF ReadsHandle, Moves, supVars, childVars, linkVars
  <1>12. ASSUME ClosesLink PROVE DownInv'
    BY <1>12 DEF ClosesLink, Moves, supVars, histVars
  <1>13. ASSUME Terminates PROVE DownInv'
    BY <1>13 DEF Terminates, Moves, supVars, linkVars, histVars
  <1>14. ASSUME Reaps PROVE DownInv'
    BY <1>14 DEF Reaps, Moves, supVars, linkVars, histVars
  <1>15. ASSUME Exits PROVE DownInv'
    BY <1>15 DEF Exits, Moves, childVars, linkVars, histVars
  <1>16. ASSUME SupWakes PROVE DownInv'
    BY <1>16 DEF SupWakes, Does, mainVars, childVars, linkVars, histVars
  <1>17. ASSUME SupChecks PROVE DownInv'
    BY <1>17 DEF SupChecks, Does, mainVars, childVars, linkVars, histVars
  <1>18. ASSUME SupBudgets PROVE DownInv'
    BY <1>18 DEF SupBudgets, mainVars, childVars, linkVars
  <1>19. ASSUME SupWrites PROVE DownInv'
    BY <1>19 DEF SupWrites, Does, WriteToken, mainVars, childVars, linkVars,
      histVars
  <1>20. ASSUME SupSpawns PROVE DownInv'
    BY <1>20 DEF SupSpawns, Does, Spawn, mainVars, linkVars, histVars
  <1>21. ASSUME SupSpawnFails PROVE DownInv'
    BY <1>21 DEF SupSpawnFails, Does, mainVars, childVars, linkVars, histVars
  <1>22. ASSUME SupAssigns PROVE DownInv'
    BY <1>22 DEF SupAssigns, Does, mainVars, childVars, linkVars, histVars
  <1>23. ASSUME SupReconnects PROVE DownInv'
    BY <1>23 DEF SupReconnects, Does, linkVars, ConnectsTo, mainVars,
      childVars, histVars, Reachable
  <1>24. ASSUME SupRemoves PROVE DownInv'
    BY <1>24 DEF SupRemoves, Does, mainVars, childVars, linkVars, histVars
  <1>25. ASSUME Dial PROVE DownInv'
    BY <1>25 DEF Dial, ConnectsTo, mainVars, supVars, childVars, histVars,
      Reachable
  <1>26. ASSUME Tick PROVE DownInv'
    BY <1>26 DEF Tick, mainVars, supVars, childVars, linkVars, histVars
  <1>27. ASSUME NEW c \in Children, ReadsToken(c) PROVE DownInv'
    BY <1>27 DEF ReadsToken, mainVars, supVars, linkVars, histVars
  <1>28. ASSUME NEW c \in Children, Listens(c) PROVE DownInv'
    BY <1>28 DEF Listens, mainVars, supVars, linkVars, histVars
  <1>29. ASSUME NEW c \in Children, ChildDies(c) PROVE DownInv'
    BY <1>29 DEF ChildDies, mainVars, supVars, histVars
  <1>30. ASSUME NEW c \in Children, ChildInterrupted(c) PROVE DownInv'
    BY <1>30 DEF ChildInterrupted, mainVars, supVars, linkVars, histVars
  <1>31. ASSUME UNCHANGED supervisorVars PROVE DownInv'
    BY <1>31 DEF supervisorVars, mainVars, supVars, childVars, linkVars,
      histVars
  <1> QED BY <1>1, <1>2, <1>3, <1>4, <1>5, <1>6, <1>7, <1>8, <1>9, <1>10,
      <1>11, <1>12, <1>13, <1>14, <1>15, <1>16, <1>17, <1>18, <1>19, <1>20,
      <1>21, <1>22, <1>23, <1>24, <1>25, <1>26, <1>27, <1>28, <1>29, <1>30,
      <1>31 DEF SupervisorNext, MainStep, SupStep, ChildStep

\* The secret outlives the connection it is for.
LEMMA StepToken ==
  ASSUME IInv, [SupervisorNext]_supervisorVars PROVE TokenInv'
  <1> USE SupervisorAssumption DEF IInv, TypeOK, StageInv, TokenInv, WayDown
  <1>1. ASSUME MainWritesToken PROVE TokenInv'
    BY <1>1 DEF MainWritesToken, Moves, WriteToken, supVars, childVars,
      linkVars, histVars
  <1>2. ASSUME MainSpawns PROVE TokenInv'
    BY <1>2 DEF MainSpawns, Moves, Spawn, supVars, linkVars, histVars,
      ChildInv, Children
  <1>3. ASSUME MainSpawnFails PROVE TokenInv'
    BY <1>3 DEF MainSpawnFails, Moves, supVars, childVars, linkVars, histVars
  <1>4. ASSUME MainPolls PROVE TokenInv'
    BY <1>4 DEF MainPolls, Moves, supVars, childVars, linkVars, histVars
  <1>5. ASSUME MainConnects PROVE TokenInv'
    BY <1>5 DEF MainConnects, ConnectsTo, Moves, supVars, childVars, histVars,
      Reachable
  <1>6. ASSUME MainGivesUp PROVE TokenInv'
    BY <1>6 DEF MainGivesUp, supVars, childVars, linkVars, histVars
  <1>7. ASSUME MainServes PROVE TokenInv'
    BY <1>7 DEF MainServes, Moves, childVars, linkVars, histVars
  <1>8. ASSUME RequestShutdown PROVE TokenInv'
    BY <1>8 DEF RequestShutdown, supVars, childVars, linkVars, histVars
  <1>9. ASSUME Interrupted PROVE TokenInv'
    BY <1>9 DEF Interrupted, Moves, supVars, childVars, linkVars, histVars
  <1>10. ASSUME StopsSupervisor PROVE TokenInv'
    BY <1>10 DEF StopsSupervisor, Moves, childVars, linkVars, histVars
  <1>11. ASSUME ReadsHandle PROVE TokenInv'
    BY <1>11 DEF ReadsHandle, Moves, supVars, childVars, linkVars
  <1>12. ASSUME ClosesLink PROVE TokenInv'
    BY <1>12 DEF ClosesLink, Moves, supVars, histVars
  <1>13. ASSUME Terminates PROVE TokenInv'
    BY <1>13 DEF Terminates, Moves, supVars, linkVars, histVars, Lives
  <1>14. ASSUME Reaps PROVE TokenInv'
    BY <1>14 DEF Reaps, Moves, supVars, linkVars, histVars
  <1>15. ASSUME Exits PROVE TokenInv'
    BY <1>15 DEF Exits, Moves, childVars, linkVars, histVars
  <1>16. ASSUME SupWakes PROVE TokenInv'
    BY <1>16 DEF SupWakes, Does, mainVars, childVars, linkVars, histVars
  <1>17. ASSUME SupChecks PROVE TokenInv'
    BY <1>17 DEF SupChecks, Does, mainVars, childVars, linkVars, histVars
  <1>18. ASSUME SupBudgets PROVE TokenInv'
    BY <1>18 DEF SupBudgets, mainVars, childVars, linkVars
  <1>19. ASSUME SupWrites PROVE TokenInv'
    BY <1>19 DEF SupWrites, Does, WriteToken, mainVars, childVars, linkVars,
      histVars
  <1>20. ASSUME SupSpawns PROVE TokenInv'
    BY <1>20 DEF SupSpawns, Does, Spawn, mainVars, linkVars, histVars,
      ChildInv, Children
  <1>21. ASSUME SupSpawnFails PROVE TokenInv'
    BY <1>21 DEF SupSpawnFails, Does, mainVars, childVars, linkVars, histVars
  <1>22. ASSUME SupAssigns PROVE TokenInv'
    BY <1>22 DEF SupAssigns, Does, mainVars, childVars, linkVars, histVars
  <1>23. ASSUME SupReconnects PROVE TokenInv'
    BY <1>23 DEF SupReconnects, Does, linkVars, ConnectsTo, mainVars,
      childVars, histVars, Reachable
  <1>24. ASSUME SupRemoves PROVE TokenInv'
    BY <1>24 DEF SupRemoves, Does, mainVars, childVars, linkVars, histVars
  <1>25. ASSUME Dial PROVE TokenInv'
    BY <1>25 DEF Dial, ConnectsTo, mainVars, supVars, childVars, histVars,
      Reachable
  <1>26. ASSUME Tick PROVE TokenInv'
    BY <1>26 DEF Tick, mainVars, supVars, childVars, linkVars, histVars
  <1>27. ASSUME NEW c \in Children, ReadsToken(c) PROVE TokenInv'
    BY <1>27 DEF ReadsToken, mainVars, supVars, linkVars, histVars
  <1>28. ASSUME NEW c \in Children, Listens(c) PROVE TokenInv'
    BY <1>28 DEF Listens, mainVars, supVars, linkVars, histVars
  <1>29. ASSUME NEW c \in Children, ChildDies(c) PROVE TokenInv'
    BY <1>29 DEF ChildDies, mainVars, supVars, histVars, Lives
  <1>30. ASSUME NEW c \in Children, ChildInterrupted(c) PROVE TokenInv'
    BY <1>30 DEF ChildInterrupted, mainVars, supVars, linkVars, histVars
  <1>31. ASSUME UNCHANGED supervisorVars PROVE TokenInv'
    BY <1>31 DEF supervisorVars, mainVars, supVars, childVars, linkVars,
      histVars
  <1> QED BY <1>1, <1>2, <1>3, <1>4, <1>5, <1>6, <1>7, <1>8, <1>9, <1>10,
      <1>11, <1>12, <1>13, <1>14, <1>15, <1>16, <1>17, <1>18, <1>19, <1>20,
      <1>21, <1>22, <1>23, <1>24, <1>25, <1>26, <1>27, <1>28, <1>29, <1>30,
      <1>31 DEF SupervisorNext, MainStep, SupStep, ChildStep

\* A child reads its secret while it is there.
LEMMA StepHandover ==
  ASSUME IInv, [SupervisorNext]_supervisorVars PROVE TokenHandover'
  <1> USE SupervisorAssumption DEF IInv, TypeOK, StageInv, ChildInv, TokenInv,
      TokenHandover, Lives, WayDown
  <1>1. ASSUME MainWritesToken PROVE TokenHandover'
    BY <1>1 DEF MainWritesToken, Moves, WriteToken, supVars, childVars,
      linkVars, histVars
  <1>2. ASSUME MainSpawns PROVE TokenHandover'
    BY <1>2 DEF MainSpawns, Moves, Spawn, supVars, linkVars, histVars, Children
  <1>3. ASSUME MainSpawnFails PROVE TokenHandover'
    BY <1>3 DEF MainSpawnFails, Moves, supVars, childVars, linkVars, histVars
  <1>4. ASSUME MainPolls PROVE TokenHandover'
    BY <1>4 DEF MainPolls, Moves, supVars, childVars, linkVars, histVars
  <1>5. ASSUME MainConnects PROVE TokenHandover'
    BY <1>5 DEF MainConnects, ConnectsTo, Moves, supVars, childVars, histVars,
      Reachable
  <1>6. ASSUME MainGivesUp PROVE TokenHandover'
    BY <1>6 DEF MainGivesUp, supVars, childVars, linkVars, histVars
  <1>7. ASSUME MainServes PROVE TokenHandover'
    BY <1>7 DEF MainServes, Moves, childVars, linkVars, histVars
  <1>8. ASSUME RequestShutdown PROVE TokenHandover'
    BY <1>8 DEF RequestShutdown, supVars, childVars, linkVars, histVars
  <1>9. ASSUME Interrupted PROVE TokenHandover'
    BY <1>9 DEF Interrupted, Moves, supVars, childVars, linkVars, histVars
  <1>10. ASSUME StopsSupervisor PROVE TokenHandover'
    BY <1>10 DEF StopsSupervisor, Moves, childVars, linkVars, histVars
  <1>11. ASSUME ReadsHandle PROVE TokenHandover'
    BY <1>11 DEF ReadsHandle, Moves, supVars, childVars, linkVars
  <1>12. ASSUME ClosesLink PROVE TokenHandover'
    BY <1>12 DEF ClosesLink, Moves, supVars, histVars
  <1>13. ASSUME Terminates PROVE TokenHandover'
    BY <1>13 DEF Terminates, Moves, supVars, linkVars, histVars
  <1>14. ASSUME Reaps PROVE TokenHandover'
    BY <1>14 DEF Reaps, Moves, supVars, linkVars, histVars
  <1>15. ASSUME Exits PROVE TokenHandover'
    BY <1>15 DEF Exits, Moves, childVars, linkVars, histVars
  <1>16. ASSUME SupWakes PROVE TokenHandover'
    BY <1>16 DEF SupWakes, Does, mainVars, childVars, linkVars, histVars
  <1>17. ASSUME SupChecks PROVE TokenHandover'
    BY <1>17 DEF SupChecks, Does, mainVars, childVars, linkVars, histVars
  <1>18. ASSUME SupBudgets PROVE TokenHandover'
    BY <1>18 DEF SupBudgets, mainVars, childVars, linkVars
  <1>19. ASSUME SupWrites PROVE TokenHandover'
    BY <1>19 DEF SupWrites, Does, WriteToken, mainVars, childVars, linkVars,
      histVars
  <1>20. ASSUME SupSpawns PROVE TokenHandover'
    BY <1>20 DEF SupSpawns, Does, Spawn, mainVars, linkVars, histVars, Children
  <1>21. ASSUME SupSpawnFails PROVE TokenHandover'
    BY <1>21 DEF SupSpawnFails, Does, mainVars, childVars, linkVars, histVars
  <1>22. ASSUME SupAssigns PROVE TokenHandover'
    BY <1>22 DEF SupAssigns, Does, mainVars, childVars, linkVars, histVars
  <1>23. ASSUME SupReconnects PROVE TokenHandover'
    BY <1>23 DEF SupReconnects, Does, linkVars, ConnectsTo, mainVars,
      childVars, histVars, Reachable
  <1>24. ASSUME SupRemoves PROVE TokenHandover'
    BY <1>24 DEF SupRemoves, Does, mainVars, childVars, linkVars, histVars
  <1>25. ASSUME Dial PROVE TokenHandover'
    BY <1>25 DEF Dial, ConnectsTo, mainVars, supVars, childVars, histVars,
      Reachable
  <1>26. ASSUME Tick PROVE TokenHandover'
    BY <1>26 DEF Tick, mainVars, supVars, childVars, linkVars, histVars
  <1>27. ASSUME NEW c \in Children, ReadsToken(c) PROVE TokenHandover'
    BY <1>27 DEF ReadsToken, mainVars, supVars, linkVars, histVars
  <1>28. ASSUME NEW c \in Children, Listens(c) PROVE TokenHandover'
    BY <1>28 DEF Listens, mainVars, supVars, linkVars, histVars
  <1>29. ASSUME NEW c \in Children, ChildDies(c) PROVE TokenHandover'
    BY <1>29 DEF ChildDies, mainVars, supVars, histVars
  <1>30. ASSUME NEW c \in Children, ChildInterrupted(c) PROVE TokenHandover'
    BY <1>30 DEF ChildInterrupted, mainVars, supVars, linkVars, histVars
  <1>31. ASSUME UNCHANGED supervisorVars PROVE TokenHandover'
    BY <1>31 DEF supervisorVars, mainVars, supVars, childVars, linkVars,
      histVars
  <1> QED BY <1>1, <1>2, <1>3, <1>4, <1>5, <1>6, <1>7, <1>8, <1>9, <1>10,
      <1>11, <1>12, <1>13, <1>14, <1>15, <1>16, <1>17, <1>18, <1>19, <1>20,
      <1>21, <1>22, <1>23, <1>24, <1>25, <1>26, <1>27, <1>28, <1>29, <1>30,
      <1>31 DEF SupervisorNext, MainStep, SupStep, ChildStep

\* The supervisor forgets only what left the window.
LEMMA StepBudget ==
  ASSUME IInv, [SupervisorNext]_supervisorVars PROVE BudgetInv'
  <1> USE SupervisorAssumption DEF IInv, TypeOK, BudgetInv, Remembers
  <1>1. ASSUME MainWritesToken PROVE BudgetInv'
    BY <1>1 DEF MainWritesToken, Moves, WriteToken, supVars, childVars,
      linkVars, histVars
  <1>2. ASSUME MainSpawns PROVE BudgetInv'
    BY <1>2 DEF MainSpawns, Moves, Spawn, supVars, linkVars, histVars
  <1>3. ASSUME MainSpawnFails PROVE BudgetInv'
    BY <1>3 DEF MainSpawnFails, Moves, supVars, childVars, linkVars, histVars
  <1>4. ASSUME MainPolls PROVE BudgetInv'
    BY <1>4 DEF MainPolls, Moves, supVars, childVars, linkVars, histVars
  <1>5. ASSUME MainConnects PROVE BudgetInv'
    BY <1>5 DEF MainConnects, ConnectsTo, Moves, supVars, childVars, histVars,
      Reachable
  <1>6. ASSUME MainGivesUp PROVE BudgetInv'
    BY <1>6 DEF MainGivesUp, supVars, childVars, linkVars, histVars
  <1>7. ASSUME MainServes PROVE BudgetInv'
    BY <1>7 DEF MainServes, Moves, childVars, linkVars, histVars
  <1>8. ASSUME RequestShutdown PROVE BudgetInv'
    BY <1>8 DEF RequestShutdown, supVars, childVars, linkVars, histVars
  <1>9. ASSUME Interrupted PROVE BudgetInv'
    BY <1>9 DEF Interrupted, Moves, supVars, childVars, linkVars, histVars
  <1>10. ASSUME StopsSupervisor PROVE BudgetInv'
    BY <1>10 DEF StopsSupervisor, Moves, childVars, linkVars, histVars
  <1>11. ASSUME ReadsHandle PROVE BudgetInv'
    BY <1>11 DEF ReadsHandle, Moves, supVars, childVars, linkVars
  <1>12. ASSUME ClosesLink PROVE BudgetInv'
    BY <1>12 DEF ClosesLink, Moves, supVars, histVars
  <1>13. ASSUME Terminates PROVE BudgetInv'
    BY <1>13 DEF Terminates, Moves, supVars, linkVars, histVars
  <1>14. ASSUME Reaps PROVE BudgetInv'
    BY <1>14 DEF Reaps, Moves, supVars, linkVars, histVars
  <1>15. ASSUME Exits PROVE BudgetInv'
    BY <1>15 DEF Exits, Moves, childVars, linkVars, histVars
  <1>16. ASSUME SupWakes PROVE BudgetInv'
    BY <1>16 DEF SupWakes, Does, mainVars, childVars, linkVars, histVars
  <1>17. ASSUME SupChecks PROVE BudgetInv'
    BY <1>17 DEF SupChecks, Does, mainVars, childVars, linkVars, histVars
  <1>18. ASSUME SupBudgets PROVE BudgetInv'
    <2>1. /\ Recent \in Seq(Nat) /\ Len(Recent) \in Nat /\ Remembers(Recent)
          /\ Len(attempts) \in Nat
      BY RecentFacts, LenProperties
    <2>2. CASE Spent
      BY <1>18, <2>1, <2>2 DEF SupBudgets
    <2>3. CASE ~Spent
      <3>1. restarts' = Append(Recent, clock) /\ attempts' = Append(attempts, clock)
        BY <1>18, <2>3 DEF SupBudgets
      <3>2. /\ Len(restarts') = Len(Recent) + 1 /\ restarts'[Len(Recent) + 1] = clock
            /\ \A i \in 1..Len(Recent) : restarts'[i] = Recent[i]
        BY <2>1, <3>1, AppendProperties
      <3>3. /\ Len(attempts') = Len(attempts) + 1
            /\ attempts'[Len(attempts) + 1] = clock
            /\ \A i \in 1..Len(attempts) : attempts'[i] = attempts[i]
        BY <3>1, AppendProperties
      <3>4. /\ clock' = clock /\ clock \in Nat
            /\ \A i \in 1..Len(attempts) : attempts[i] \in Nat
        BY <1>18, ElementOfSeq DEF SupBudgets
      <3>5. ASSUME NEW i \in 1..Len(attempts') PROVE attempts'[i] <= clock'
        <4>1. CASE i = Len(attempts) + 1
          BY <3>3, <3>4, <4>1
        <4>2. CASE i # Len(attempts) + 1
          <5>1. i \in 1..Len(attempts)
            BY <2>1, <3>3, <4>2
          <5>2. attempts[i] <= clock
            BY <5>1
          <5> QED BY <3>3, <3>4, <5>1, <5>2
        <4> QED BY <4>1, <4>2
      <3>6. ASSUME NEW i \in 1..Len(attempts'), NEW k \in 1..Len(attempts'), i <= k
            PROVE  attempts'[i] <= attempts'[k]
        <4>1. CASE k = Len(attempts) + 1
          <5>1. attempts'[k] = clock' /\ attempts'[i] <= clock'
            BY <3>3, <3>4, <3>5, <4>1
          <5> QED BY <5>1
        <4>2. CASE k # Len(attempts) + 1
          <5>1. i \in 1..Len(attempts) /\ k \in 1..Len(attempts)
            BY <2>1, <3>3, <3>6, <4>2
          <5>2. attempts[i] <= attempts[k]
            BY <3>6, <5>1
          <5> QED BY <3>3, <5>1, <5>2
        <4> QED BY <4>1, <4>2
      <3>7. Remembers(restarts)'
        <4>1. /\ Len(restarts') <= Len(attempts')
              /\ Len(attempts') - Len(restarts') = Len(attempts) - Len(Recent)
          BY <2>1, <3>2, <3>3
        <4>2. ASSUME NEW i \in 1..Len(restarts')
              PROVE  restarts'[i] = attempts'[Len(attempts') - Len(restarts') + i]
          <5>1. CASE i = Len(Recent) + 1
            <6>1. (Len(attempts) - Len(Recent)) + i = Len(attempts) + 1
              BY <2>1, <5>1
            <6>2. Len(attempts') - Len(restarts') + i = Len(attempts) + 1
              BY <4>1, <6>1
            <6> QED BY <3>2, <3>3, <5>1, <6>2
          <5>2. CASE i # Len(Recent) + 1
            <6>1. /\ i \in 1..Len(Recent)
                  /\ Len(attempts) - Len(Recent) + i \in 1..Len(attempts)
              BY <2>1, <3>2, <5>2
            <6>2. Recent[i] = attempts[Len(attempts) - Len(Recent) + i]
              BY <2>1, <6>1
            <6>3. restarts'[i] = Recent[i]
              BY <3>2, <6>1
            <6>4. attempts'[Len(attempts) - Len(Recent) + i] =
                    attempts[Len(attempts) - Len(Recent) + i]
              BY <3>3, <6>1
            <6> QED BY <4>1, <6>2, <6>3, <6>4
          <5> QED BY <5>1, <5>2
        <4>3. ASSUME NEW i \in 1..(Len(attempts') - Len(restarts'))
              PROVE  attempts'[i] <= clock' - Window
          <5>1. /\ i \in 1..(Len(attempts) - Len(Recent))
                /\ i \in 1..Len(attempts)
            BY <2>1, <4>1
          <5> QED BY <2>1, <3>3, <3>4, <5>1
        <4> QED BY <4>1, <4>2, <4>3
      <3> QED BY <3>5, <3>6, <3>7
    <2> QED BY <2>2, <2>3
  <1>19. ASSUME SupWrites PROVE BudgetInv'
    BY <1>19 DEF SupWrites, Does, WriteToken, mainVars, childVars, linkVars,
      histVars
  <1>20. ASSUME SupSpawns PROVE BudgetInv'
    BY <1>20 DEF SupSpawns, Does, Spawn, mainVars, linkVars, histVars
  <1>21. ASSUME SupSpawnFails PROVE BudgetInv'
    BY <1>21 DEF SupSpawnFails, Does, mainVars, childVars, linkVars, histVars
  <1>22. ASSUME SupAssigns PROVE BudgetInv'
    BY <1>22 DEF SupAssigns, Does, mainVars, childVars, linkVars, histVars
  <1>23. ASSUME SupReconnects PROVE BudgetInv'
    BY <1>23 DEF SupReconnects, Does, linkVars, ConnectsTo, mainVars,
      childVars, histVars, Reachable
  <1>24. ASSUME SupRemoves PROVE BudgetInv'
    BY <1>24 DEF SupRemoves, Does, mainVars, childVars, linkVars, histVars
  <1>25. ASSUME Dial PROVE BudgetInv'
    BY <1>25 DEF Dial, ConnectsTo, mainVars, supVars, childVars, histVars,
      Reachable
  <1>26. ASSUME Tick PROVE BudgetInv'
    <2>1. /\ clock' = clock + 1 /\ restarts' = restarts /\ attempts' = attempts
          /\ Len(attempts) \in Nat /\ Len(restarts) \in Nat
          /\ \A i \in 1..Len(attempts) : attempts[i] \in Nat
      BY <1>26, LenProperties, ElementOfSeq DEF Tick, supVars, histVars
    <2>2. \A i \in 1..Len(attempts) : attempts[i] <= clock + 1
      BY <2>1
    <2>3. \A i \in 1..(Len(attempts) - Len(restarts)) :
            attempts[i] <= (clock + 1) - Window
      <3>1. \A i \in 1..(Len(attempts) - Len(restarts)) : i \in 1..Len(attempts)
        BY <2>1
      <3>2. ASSUME NEW i \in 1..(Len(attempts) - Len(restarts))
            PROVE  attempts[i] <= (clock + 1) - Window
        <4>1. attempts[i] \in Nat /\ clock \in Nat /\ Window \in Nat
          BY <2>1, <3>1
        <4>2. attempts[i] <= clock - Window
          OBVIOUS
        <4> QED BY <4>1, <4>2
      <3> QED BY <3>2
    <2> QED BY <2>1, <2>2, <2>3
  <1>27. ASSUME NEW c \in Children, ReadsToken(c) PROVE BudgetInv'
    BY <1>27 DEF ReadsToken, mainVars, supVars, linkVars, histVars
  <1>28. ASSUME NEW c \in Children, Listens(c) PROVE BudgetInv'
    BY <1>28 DEF Listens, mainVars, supVars, linkVars, histVars
  <1>29. ASSUME NEW c \in Children, ChildDies(c) PROVE BudgetInv'
    BY <1>29 DEF ChildDies, mainVars, supVars, histVars
  <1>30. ASSUME NEW c \in Children, ChildInterrupted(c) PROVE BudgetInv'
    BY <1>30 DEF ChildInterrupted, mainVars, supVars, linkVars, histVars
  <1>31. ASSUME UNCHANGED supervisorVars PROVE BudgetInv'
    BY <1>31 DEF supervisorVars, mainVars, supVars, childVars, linkVars,
      histVars
  <1> QED BY <1>1, <1>2, <1>3, <1>4, <1>5, <1>6, <1>7, <1>8, <1>9, <1>10,
      <1>11, <1>12, <1>13, <1>14, <1>15, <1>16, <1>17, <1>18, <1>19, <1>20,
      <1>21, <1>22, <1>23, <1>24, <1>25, <1>26, <1>27, <1>28, <1>29, <1>30,
      <1>31 DEF SupervisorNext, MainStep, SupStep, ChildStep

-----------------------------------------------------------------------------
(* The invariant holds, and what follows from it. *)

LEMMA InitIInv == ASSUME SupervisorInit PROVE IInv
  <1> USE SupervisorAssumption DEF SupervisorInit
  <1>1. TypeOK
    <2>1. <<>> \in Seq(Nat) /\ Len(<<>>) = 0 /\ 0 \in 0..MaxSpawns
      BY EmptySeq
    <2>2. restarts \in Seq(Nat) /\ attempts \in Seq(Nat) /\ Len(restarts) <= MaxRestarts
      BY <2>1
    <2>3. /\ child \in [Children -> {"none", "boot", "read", "serve", "stopping", "dead"}]
          /\ childToken \in [Children -> {"none", "secret", "own"}]
      OBVIOUS
    <2> QED BY <2>1, <2>2, <2>3 DEF TypeOK, WayDown
  <1>2. StageInv /\ ChildInv /\ OneInv /\ DownInv /\ TokenInv /\ TokenHandover
    BY DEF StageInv, ChildInv, OneInv, DownInv, TokenInv, TokenHandover, Holder, Lives,
      WayDown
  <1>3. BudgetInv
    <2>1. Len(attempts) = 0 /\ Len(restarts) = 0
      BY EmptySeq
    <2> QED BY <2>1 DEF BudgetInv, Remembers
  <1> QED BY <1>1, <1>2, <1>3 DEF IInv

\* The children, the two threads, the secret and the budget stay tied together
\* as IInv says.
THEOREM Inductive == SupervisorSpec => []IInv
  <1>1. SupervisorInit => IInv
    BY InitIInv
  <1>2. IInv /\ [SupervisorNext]_supervisorVars => IInv'
    <2> SUFFICES ASSUME IInv, [SupervisorNext]_supervisorVars PROVE IInv'
      OBVIOUS
    <2>1. TypeOK' /\ StageInv' /\ ChildInv' /\ OneInv' /\ DownInv'
      BY StepType, StepStage, StepChild, StepOne, StepDown
    <2>2. TokenInv' /\ TokenHandover' /\ BudgetInv'
      BY StepToken, StepHandover, StepBudget
    <2> QED BY <2>1, <2>2 DEF IInv
  <1> QED BY <1>1, <1>2, PTL DEF SupervisorSpec

\* The types of main(), the supervisor thread, the children and the link.
THEOREM TypeCorrect == SupervisorSpec => []TypeOK
  <1>1. IInv => TypeOK
    BY DEF IInv
  <1> QED BY <1>1, Inductive, PTL

\* However often the capture process died and was replaced: once main() is gone
\* neither a privileged child nor the secret is left, unless shutdown read the
\* handle while a restart was under way.
THEOREM NoOrphanCorrect == SupervisorSpec => []NoOrphan
  <1>1. IInv => NoOrphan
    BY DEF IInv, StageInv, DownInv, NoOrphan, WayDown
  <1> QED BY <1>1, Inductive, PTL

\* A child somebody waits for has the secret or will still find it, and the
\* client is only ever connected to a live child with the secret.
THEOREM TokenHandoverCorrect == SupervisorSpec => []TokenHandover
  <1>1. IInv => TokenHandover
    BY DEF IInv
  <1> QED BY <1>1, Inductive, PTL

-----------------------------------------------------------------------------
(* The refinement of ChildLease. *)

Alive == {c \in Children : Lives(c)}

\* A step that leaves the attempts and the clock alone is one of the lease if
\* no child is launched but the first of the living, and none dies but the last.
LEMMA LeaseStep ==
  ASSUME UNCHANGED <<attempts, clock>>,
         \/ Alive' = Alive
         \/ Alive # {} /\ Alive' = {}
         \/ Alive = {} /\ \E c \in Children : Alive' = {c}
  PROVE  [Lease!Next]_(Lease!leaseVars)
  <1>1. CASE Alive' = Alive
    BY <1>1 DEF Lease!leaseVars, Alive
  <1>2. CASE Alive # {} /\ Alive' = {}
    BY <1>2 DEF Lease!Next, Lease!Die, Alive
  <1>3. CASE Alive = {} /\ \E c \in Children : Alive' = {c}
    BY <1>3 DEF Lease!Next, Lease!Launch, Alive
  <1> QED BY <1>1, <1>2, <1>3

\* With room in the budget of what it remembers, the supervisor has room in
\* that of all the attempts: what it forgot is older than the window.
LEMMA BudgetIsReal ==
  ASSUME IInv, ~Spent PROVE Lease!WithinBudget
  <1>1. /\ Len(Recent) \in Nat /\ Remembers(Recent) /\ Len(attempts) \in Nat
        /\ MaxRestarts \in Nat \ {0} /\ Window \in Nat /\ clock \in Nat
        /\ \A i \in 1..Len(attempts) : attempts[i] \in Nat
    BY RecentFacts, SupervisorAssumption, LenProperties, ElementOfSeq
      DEF IInv, TypeOK
  <1>2. CASE Len(attempts) < MaxRestarts
    BY <1>2 DEF Lease!WithinBudget
  <1>3. CASE ~ (Len(attempts) < MaxRestarts)
    <2> DEFINE m == Len(attempts) + 1 - MaxRestarts
    <2>1. Len(Recent) < MaxRestarts
      BY <1>1 DEF Spent
    <2>2. m \in 1..(Len(attempts) - Len(Recent)) /\ m \in 1..Len(attempts)
      BY <1>1, <1>3, <2>1
    <2> HIDE DEF m
    <2>3. attempts[m] <= clock - Window /\ attempts[m] \in Nat
      BY <1>1, <2>2 DEF Remembers
    <2>4. clock - attempts[m] >= Window
      BY <1>1, <2>3
    <2> QED BY <2>4 DEF Lease!WithinBudget, m
  <1> QED BY <1>2, <1>3

\* A launch finds no child alive, and leaves the new one alone.
LEMMA SpawnStep ==
  ASSUME IInv, Spawn, main # "exited", ~Lives(Holder)
  PROVE  Alive = {} /\ \E c \in Children : Alive' = {c}
  <1> USE SupervisorAssumption DEF IInv, TypeOK
  <1>1. \A c \in Children : ~Lives(c)
    BY DEF ChildInv
  <1>2. spawned + 1 \in Children
    BY DEF Spawn, Children
  <1>3. \A c \in Children : Lives(c)' <=> c = spawned + 1
    BY <1>1, <1>2 DEF Spawn, Lives
  <1>4. Alive' = {spawned + 1}
    BY <1>2, <1>3 DEF Alive
  <1> QED BY <1>1, <1>2, <1>4 DEF Alive

\* Whatever happens to a child that was launched, at most it is gone.
LEMMA EndStep ==
  ASSUME IInv, \A c \in Children : Lives(c)' => Lives(c)
  PROVE  Alive' = Alive \/ (Alive # {} /\ Alive' = {})
  <1>1. Alive' \subseteq Alive
    BY DEF Alive
  <1>2. \A c, d \in Alive : c = d
    BY DEF IInv, OneInv, Alive
  <1> QED BY <1>1, <1>2

\* The steps that touch no child, no budget and no clock.
Quiet ==
  \/ MainWritesToken \/ MainSpawnFails \/ MainPolls \/ MainConnects
  \/ MainGivesUp \/ MainServes \/ RequestShutdown \/ Interrupted \/ StopsSupervisor
  \/ ReadsHandle \/ Exits \/ SupWakes \/ SupChecks \/ SupWrites
  \/ SupSpawnFails \/ SupAssigns \/ SupReconnects \/ SupRemoves \/ Dial

LEMMA QuietStep ==
  ASSUME Quiet \/ UNCHANGED supervisorVars
  PROVE  UNCHANGED <<attempts, clock, child>>
  BY DEF Quiet, supervisorVars, histVars, childVars, MainWritesToken, MainSpawnFails, MainPolls, MainConnects, MainGivesUp, MainServes, RequestShutdown, Interrupted, StopsSupervisor, ReadsHandle, Exits, SupWakes, SupChecks, SupWrites, SupSpawnFails, SupAssigns, SupReconnects, SupRemoves, Dial

\* Every step of the supervision is one of the lease.
LEMMA StepLease ==
  ASSUME IInv, [SupervisorNext]_supervisorVars
  PROVE  [Lease!Next]_(Lease!leaseVars)
  <1>1. CASE Quiet \/ UNCHANGED supervisorVars
    <2>1. UNCHANGED <<attempts, clock>> /\ Alive' = Alive
      BY <1>1, QuietStep DEF Alive, Lives
    <2> QED BY <2>1, LeaseStep
  <1>2. CASE MainSpawns
    <2>1. Spawn /\ main # "exited" /\ ~Lives(Holder)
      BY <1>2, SupervisorAssumption
        DEF MainSpawns, Moves, IInv, StageInv, Holder, Lives
    <2>2. UNCHANGED <<attempts, clock>>
      BY <1>2 DEF MainSpawns, histVars
    <2> QED BY <2>1, <2>2, SpawnStep, LeaseStep
  <1>3. CASE SupSpawns
    <2>1. Spawn /\ main # "exited" /\ ~Lives(Holder)
      BY <1>3 DEF SupSpawns, Does, IInv, StageInv, ChildInv, Holder
    <2>2. UNCHANGED <<attempts, clock>>
      BY <1>3 DEF SupSpawns, histVars
    <2> QED BY <2>1, <2>2, SpawnStep, LeaseStep
  <1>4. CASE ClosesLink \/ Terminates \/ Reaps \/ \E c \in Children : ChildStep(c)
    <2>1. \A c \in Children : Lives(c)' => Lives(c)
      BY <1>4 DEF ClosesLink, Terminates, Reaps, ChildStep, ReadsToken, Listens,
        ChildDies, ChildInterrupted, Lives, Moves, IInv, TypeOK, StageInv
    <2>2. UNCHANGED <<attempts, clock>>
      BY <1>4 DEF ClosesLink, Terminates, Reaps, ChildStep, ReadsToken, Listens,
        ChildDies, ChildInterrupted, histVars
    <2> QED BY <2>1, <2>2, EndStep, LeaseStep
  <1>5. CASE SupBudgets
    <2>1. Alive = {} /\ UNCHANGED <<child, clock>> /\ Alive' = Alive
      <3>1. main # "exited" /\ Holder = process /\ ~Lives(process)
        BY <1>5 DEF SupBudgets, IInv, StageInv, Holder
      <3>2. UNCHANGED <<child, clock>>
        BY <1>5 DEF SupBudgets, childVars
      <3> QED BY <3>1, <3>2 DEF IInv, ChildInv, Alive, Lives
    <2>2. CASE Spent
      <3>1. UNCHANGED attempts
        BY <1>5, <2>2 DEF SupBudgets
      <3> QED BY <2>1, <3>1, LeaseStep
    <2>3. CASE ~Spent
      <3>1. attempts' = Append(attempts, clock) /\ Lease!WithinBudget
        BY <1>5, <2>3, BudgetIsReal DEF SupBudgets
      <3> QED BY <2>1, <3>1 DEF Lease!Next, Lease!Attempt, Alive
    <2> QED BY <2>2, <2>3
  <1>6. CASE Tick
    <2>1. clock' = clock + 1 /\ UNCHANGED <<attempts, child>>
      BY <1>6 DEF Tick, childVars, histVars
    <2>2. {c \in Children : Lives(c)}' = {c \in Children : Lives(c)}
      BY <2>1 DEF Lives
    <2> QED BY <2>1, <2>2 DEF Lease!Next, Lease!Pass
  <1> QED
    BY <1>1, <1>2, <1>3, <1>4, <1>5, <1>6
      DEF SupervisorNext, MainStep, SupStep, Quiet

\* Supervision implements its promise for any budget and window: a capture
\* process is launched only when none is alive, and an attempt to replace one
\* is made only when fewer than MaxRestarts were made within the window.
THEOREM LeaseKeptCorrect == SupervisorSpec => LeaseKept
  <1>1. SupervisorInit => Lease!Init
    BY DEF SupervisorInit, Lease!Init, Lives
  <1>2. IInv /\ [SupervisorNext]_supervisorVars => [Lease!Next]_(Lease!leaseVars)
    BY StepLease
  <1> QED BY <1>1, <1>2, Inductive, PTL DEF SupervisorSpec, LeaseKept, Lease!Spec

-----------------------------------------------------------------------------
(* Alarms: types, and what HoldingBackIsSafe rests on. *)

Probes == Nat \X ScanPorts
Stamp == Nat \cup {Never}
Measuring == {"trim", "head", "pop", "count", "iterate"}
Handled == Measuring \cup {"clear", "last", "tell"}
PacketRec == [st : Handled \cup {"clock", "look", "hush", "emit", "record", "watch", "bind", "rebind"},
              host : Hosts, by : Owners \cup ScanPorts, at : Nat, held : BOOLEAN]
JobRec == {Resting} \cup PacketRec

AlarmsTypeOK ==
  /\ follows \in Windowed \cup {"throttle", "arp"} /\ time \in Nat
  /\ job \in [Jobs -> JobRec]
  /\ emit \in [Hosts -> Stamp] /\ lastAt \in [Hosts -> Stamp] /\ bound \in [Hosts -> Owners \cup {""}]
  /\ events \in [Hosts -> Seq(Probes)] /\ past \in [Hosts -> Seq(Probes)]
  /\ alerts \in [Hosts -> SUBSET Nat] /\ told \in [Hosts -> SUBSET Nat] /\ moves \in [Hosts -> SUBSET Nat]
  /\ torn \subseteq Hosts /\ hushed \subseteq Hosts \X Nat

\* What a job that is where it is may count on.
JobInv(j) ==
  /\ job[j].st # "idle" => job[j].at <= time /\ (job[j].by \in IF follows = "arp" THEN Owners ELSE ScanPorts)
  /\ job[j].st \in Measuring \cup {"record", "clear"} => follows \in Windowed
  /\ job[j].st = "clear" => follows = "flood"
  /\ job[j].st \in {"iterate", "last", "tell"} => follows # "flood"
  /\ job[j].st = "hush" => \E t \in alerts[job[j].host] : job[j].at - t < AlarmWindow
  /\ job[j].st \in {"watch", "bind", "rebind"} => follows = "arp"
  /\ job[j].st = "rebind" /\ job[j].held => \E a \in told[job[j].host] : job[j].at - a < AlarmWindow

\* What was remembered of an alert is one.
HostInv(h) ==
  /\ emit[h] # Never => emit[h] \in alerts[h]
  /\ lastAt[h] # Never => lastAt[h] \in told[h]
  /\ follows \notin Windowed => past[h] = <<>> /\ events[h] = <<>>

\* What a detector dropped is in no window that is counted or will be.
PastInv(h) ==
  h \notin torn => \A e \in Elems(past[h]) : /\ e[1] + AlarmWindow < time
                                             /\ \A j \in Counting(h) : e[1] + AlarmWindow < job[j].at

\* A window with enough in it was told, or a job is about to find out.
Handles(j, h, t) == job[j].st \in Handled /\ job[j].host = h /\ job[j].at = t
ToldOf(h, t) == follows # "flood" /\ \E a \in told[h] : a > t - AlarmWindow
HeardInv(h) ==
  h \notin torn => \A t \in {e[1] : e \in Elems(Sent(h))} :
                     Many(Seen(h, t)) => ToldOf(h, t) \/ \E j \in Jobs : Handles(j, h, t)

MovesInv(h) ==
  \A m \in moves[h] : \/ \E a \in told[h] : m - a < AlarmWindow
                      \/ \E j \in Jobs : job[j].st = "tell" /\ job[j].host = h /\ job[j].at = m

AlarmsInv ==
  /\ AlarmsTypeOK /\ SilencedWasAlerted
  /\ \A j \in Jobs : JobInv(j)
  /\ \A h \in Hosts : HostInv(h) /\ PastInv(h) /\ HeardInv(h) /\ MovesInv(h)

-----------------------------------------------------------------------------
(* Alarms: what stays. *)

LEMMA AlarmNumbers == AlarmWindow \in Nat \ {0} /\ AlarmThreshold \in Nat \ {0} /\ IsFiniteSet(ScanPorts)
  BY AlarmsAssumption

\* What is kept of some events counts for no more than they do.
LEMMA ManyOfMany ==
  ASSUME NEW s \in Seq(Probes), NEW S, Many(Kept(s, S)) PROVE Many(s) /\ s # <<>>
  <1>1. PICK k \in Seq(Probes) : k = Kept(s, S)
    BY KeptFacts
  <1>2. Len(k) <= Len(s) /\ Len(k) \in Nat /\ Len(s) \in Nat /\ Elems(s) \subseteq Probes /\ Elems(k) \subseteq Probes
    BY <1>1, KeptFacts, ElemsFacts
  <1>3. Elems(k) \subseteq Elems(s)
    BY <1>1, KeptFacts DEF Elems
  <1> DEFINE P == {e[2] : e \in Elems(k)}
             Q == {e[2] : e \in Elems(s)}
  <1>4. P \subseteq Q /\ Q \subseteq ScanPorts
    BY <1>2, <1>3 DEF Probes
  <1> HIDE DEF P, Q
  <1>5. /\ IsFiniteSet(Q) /\ IsFiniteSet(P) /\ Cardinality(P) <= Cardinality(Q)
        /\ Cardinality(P) \in Nat /\ Cardinality(Q) \in Nat
    BY <1>4, AlarmNumbers, FS_Subset, FS_CardinalityType
  <1>6. Many(s)
    <2>1. CASE follows = "ports"
      <3>1. Cardinality(P) >= AlarmThreshold
        BY <1>1, <2>1 DEF Many, Measure, P
      <3>2. Cardinality(Q) >= AlarmThreshold
        BY <1>5, <3>1, AlarmNumbers
      <3> QED BY <2>1, <3>2 DEF Many, Measure, Q
    <2>2. CASE follows # "ports"
      <3>1. Len(k) >= AlarmThreshold
        BY <1>1, <2>2 DEF Many, Measure
      <3>2. Len(s) >= AlarmThreshold
        BY <1>2, <3>1, AlarmNumbers
      <3> QED BY <2>2, <3>2 DEF Many, Measure
    <2> QED BY <2>1, <2>2
  <1>7. s # <<>>
    <2>1. SUFFICES ASSUME s = <<>> PROVE FALSE
      OBVIOUS
    <2>2. Elems(s) = {} /\ Len(s) = 0
      BY <2>1, ElemsEmpty
    <2>3. Elems(k) = {} /\ Len(k) = 0
      BY <1>2, <1>3, <2>2
    <2>4. P = {}
      BY <2>3 DEF P
    <2>5. Cardinality(P) = 0
      BY <2>4, FS_EmptySet
    <2>6. Measure(k) = 0
      BY <2>3, <2>5 DEF Measure, P
    <2> QED BY <1>1, <2>6, AlarmNumbers DEF Many
  <1> QED BY <1>6, <1>7

LEMMA EventsJoined ==
  ASSUME NEW S PROVE \A a, b \in Seq(Probes) : Kept(a \o b, S) = Kept(a, S) \o Kept(b, S)
  <1>1. ASSUME NEW a \in Seq(Probes), NEW b \in Seq(Probes) PROVE Kept(a \o b, S) = Kept(a, S) \o Kept(b, S)
    BY KeptConcat
  <1> QED BY <1>1

LEMMA EventsAppended == \A a, b \in Seq(Probes), e \in Probes : a \o Append(b, e) = Append(a \o b, e)
  <1>1. ASSUME NEW a \in Seq(Probes), NEW b \in Seq(Probes), NEW e \in Probes
        PROVE  a \o Append(b, e) = Append(a \o b, e)
    BY ConcatAppend
  <1> QED BY <1>1

\* A job that measures has the whole of its window in the deque.
LEMMA HasItAll ==
  ASSUME AlarmsInv, NEW j \in Jobs, NEW h \in Hosts, job[j].host = h, job[j].st \in Measuring, h \notin torn,
         NEW t \in Nat, t = job[j].at, Many(Seen(h, t))
  PROVE  Many(events[h]) /\ events[h] # <<>>
  <1>1. /\ events[h] \in Seq(Probes) /\ past[h] \in Seq(Probes)
        /\ \A e \in Elems(past[h]) : e[1] + AlarmWindow < t
    BY DEF AlarmsInv, AlarmsTypeOK, PastInv, Counting, Measuring
  <1>2. PICK p \in Seq(Probes), q \in Seq(Probes) : p = past[h] /\ q = events[h]
    BY <1>1
  <1>3. \A k \in DOMAIN p : p[k] \notin Span(t)
    <2>1. SUFFICES ASSUME NEW k \in DOMAIN p PROVE p[k] \notin Span(t)
      OBVIOUS
    <2>2. p[k] \in Elems(p) /\ p[k] \in Probes
      BY ElemsFacts DEF Elems
    <2>3. PICK n \in Nat : n = p[k][1]
      BY <2>2 DEF Probes
    <2>4. n + AlarmWindow < t
      BY <1>1, <1>2, <2>2, <2>3
    <2>5. n \notin (t - AlarmWindow)..t
      BY <2>4, AlarmNumbers
    <2> QED BY <2>3, <2>5 DEF Span
  <1>4. Kept(p, Span(t)) = <<>>
    BY <1>3, KeptSizes
  <1>5. PICK k \in Seq(Probes) : k = Kept(q, Span(t))
    BY KeptFacts
  <1>6. Kept(p \o q, Span(t)) = <<>> \o k
    <2>1. \A a, b \in Seq(Probes) : Kept(a \o b, Span(t)) = Kept(a, Span(t)) \o Kept(b, Span(t))
      BY EventsJoined
    <2>2. p \in Seq(Probes) /\ q \in Seq(Probes)
      BY <1>2
    <2> QED BY <1>4, <1>5, <2>1, <2>2
  <1>7. <<>> \o k = k
    BY <1>5, ConcatEmptySeq
  <1>8. Many(Kept(q, Span(t)))
    BY <1>2, <1>5, <1>6, <1>7 DEF Seen, Sent
  <1> QED BY <1>2, <1>8, ManyOfMany

\* Steps that take nothing back.
GoesOn ==
  /\ follows' = follows /\ time' \in Nat /\ time' >= time /\ torn \subseteq torn'
  /\ \A h \in Hosts : alerts[h] \subseteq alerts'[h] /\ told[h] \subseteq told'[h]

LEMMA SameTime ==
  ASSUME time \in Nat, time' = time PROVE time' \in Nat /\ time' >= time
  OBVIOUS

LEMMA JobStays ==
  ASSUME AlarmsInv, GoesOn, NEW i \in Jobs, job'[i] = job[i] \/ job'[i] = Resting
  PROVE  JobInv(i)'
  <1>1. CASE job'[i] = Resting
    BY <1>1 DEF JobInv, Resting, Measuring
  <1>2. CASE job'[i] = job[i]
    <2>1. JobInv(i) /\ job[i] \in JobRec /\ time \in Nat
      BY DEF AlarmsInv, AlarmsTypeOK
    <2>2. job[i].st # "idle" => job[i].at \in Nat /\ job[i].host \in Hosts
      BY <2>1 DEF JobRec, PacketRec, Resting
    <2>3. job[i].st # "idle" => job[i].at <= time'
      BY <2>1, <2>2 DEF JobInv, GoesOn
    <2> QED BY <1>2, <2>1, <2>2, <2>3 DEF JobInv, GoesOn, Measuring
  <1> QED BY <1>1, <1>2

\* A job that counts after the step counted before it for the same time, or reads the clock in it.
LEMMA PastStays ==
  ASSUME AlarmsInv, GoesOn, NEW h \in Hosts, past'[h] = past[h],
         \A i \in Counting(h)' : (i \in Counting(h) /\ job'[i].at = job[i].at) \/ job'[i].at = time
  PROVE  PastInv(h)'
  <1>1. SUFFICES ASSUME h \notin torn', NEW e \in Elems(past[h])
                 PROVE  /\ e[1] + AlarmWindow < time'
                        /\ \A i \in Counting(h)' : e[1] + AlarmWindow < job'[i].at
    BY DEF PastInv
  <1>2. /\ e[1] + AlarmWindow < time /\ \A i \in Counting(h) : e[1] + AlarmWindow < job[i].at
    BY <1>1 DEF AlarmsInv, PastInv, GoesOn
  <1>3. e[1] \in Nat /\ time \in Nat
    <2>1. past[h] \in Seq(Probes) /\ time \in Nat
      BY DEF AlarmsInv, AlarmsTypeOK
    <2>2. e \in Probes
      BY <1>1, <2>1, ElemsFacts
    <2> QED BY <2>1, <2>2 DEF Probes
  <1>4. e[1] + AlarmWindow < time'
    BY <1>2, <1>3, AlarmNumbers DEF GoesOn
  <1> QED BY <1>2, <1>4

\* What a source sent is what it was, and a job that had a window in hand has it still, or told.
LEMMA HeardStays ==
  ASSUME AlarmsInv, GoesOn, NEW h \in Hosts, Sent(h)' = Sent(h),
         \A i \in Jobs, t \in Nat :
           h \notin torn' /\ Handles(i, h, t) /\ Many(Seen(h, t)) => Handles(i, h, t)' \/ ToldOf(h, t)'
  PROVE  HeardInv(h)'
  <1>1. SUFFICES ASSUME h \notin torn', NEW e \in Elems(Sent(h)), NEW t, t = e[1], Many(Seen(h, t))'
                 PROVE  ToldOf(h, t)' \/ \E j \in Jobs : Handles(j, h, t)'
    BY DEF HeardInv
  <1>2. Many(Seen(h, t))
    BY <1>1 DEF Many, Measure, Seen, GoesOn, Span
  <1>3. ToldOf(h, t) \/ \E j \in Jobs : Handles(j, h, t)
    BY <1>1, <1>2 DEF AlarmsInv, HeardInv, GoesOn
  <1>4. t \in Nat
    <2>1. past[h] \in Seq(Probes) /\ events[h] \in Seq(Probes)
      BY DEF AlarmsInv, AlarmsTypeOK
    <2>2. e \in Probes
      BY <1>1, <2>1, ConcatFacts, ElemsFacts DEF Sent
    <2> QED BY <1>1, <2>2 DEF Probes
  <1>5. ToldOf(h, t) => ToldOf(h, t)'
    BY DEF ToldOf, GoesOn
  <1> QED BY <1>1, <1>2, <1>3, <1>4, <1>5

\* A change of owner that a job had in hand is so still, or is told.
LEMMA MovesStay ==
  ASSUME AlarmsInv, GoesOn, NEW h \in Hosts, moves'[h] = moves[h],
         \A i \in Jobs : job[i].st = "tell" /\ job[i].host = h =>
           job'[i] = job[i] \/ \E a \in told'[h] : job[i].at - a < AlarmWindow
  PROVE  MovesInv(h)'
  <1>1. SUFFICES ASSUME NEW m \in moves[h]
                 PROVE  \/ \E a \in told'[h] : m - a < AlarmWindow
                        \/ \E j \in Jobs : job'[j].st = "tell" /\ job'[j].host = h /\ job'[j].at = m
    BY DEF MovesInv
  <1>2. \/ \E a \in told[h] : m - a < AlarmWindow
        \/ \E j \in Jobs : job[j].st = "tell" /\ job[j].host = h /\ job[j].at = m
    BY DEF AlarmsInv, MovesInv
  <1> QED BY <1>2 DEF GoesOn

LEMMA HostStays ==
  ASSUME AlarmsInv, GoesOn, NEW h \in Hosts,
         emit'[h] = emit[h] \/ emit'[h] \in alerts'[h], lastAt'[h] = lastAt[h] \/ lastAt'[h] \in told'[h],
         (events'[h] = events[h] /\ past'[h] = past[h]) \/ follows \in Windowed
  PROVE  HostInv(h)'
  BY DEF AlarmsInv, HostInv, GoesOn

-----------------------------------------------------------------------------
(* Alarms: the steps of a job that leave what is shared as it is, or the deque and the alerts at least. *)

LEMMA JobOf ==
  ASSUME AlarmsInv, NEW j \in Jobs, job[j].st # "idle"
  PROVE  job[j] \in PacketRec /\ job[j].host \in Hosts /\ job[j].at \in Nat /\ job[j].held \in BOOLEAN /\ time \in Nat
  <1>1. job[j] \in JobRec /\ time \in Nat
    BY DEF AlarmsInv, AlarmsTypeOK
  <1>2. job[j] \in PacketRec
    BY <1>1 DEF JobRec, Resting
  <1> QED BY <1>1, <1>2 DEF PacketRec

\* The job is at st, with the packet it had.
Moved(j, st) ==
  /\ job' \in [Jobs -> JobRec] /\ \A i \in Jobs \ {j} : job'[i] = job[i]
  /\ job'[j].st = st /\ job'[j].host = job[j].host /\ job'[j].by = job[j].by /\ job'[j].at = job[j].at
  /\ job'[j].held = job[j].held

LEMMA GoesFacts ==
  ASSUME AlarmsInv, NEW j \in Jobs, job[j].st # "idle",
         NEW st \in Handled \cup {"clock", "look", "hush", "emit", "record", "watch", "bind", "rebind"}, Goes(j, st)
  PROVE  Moved(j, st)
  <1>1. PICK q \in PacketRec : q = job[j]
    BY JobOf
  <1>2. PICK r : r = [q EXCEPT !.st = st]
    OBVIOUS
  <1>3. r \in PacketRec /\ r.st = st /\ r.host = q.host /\ r.by = q.by /\ r.at = q.at /\ r.held = q.held
    BY <1>1, <1>2 DEF PacketRec
  <1>4. job' = [job EXCEPT ![j] = r] /\ job \in [Jobs -> JobRec]
    BY <1>1, <1>2 DEF Goes, AlarmsInv, AlarmsTypeOK
  <1>5. r \in JobRec
    BY <1>3 DEF JobRec
  <1> QED BY <1>1, <1>3, <1>4, <1>5 DEF Moved

LEMMA RestsFacts ==
  ASSUME AlarmsInv, NEW j \in Jobs, Rests(j)
  PROVE  /\ job' \in [Jobs -> JobRec] /\ \A i \in Jobs \ {j} : job'[i] = job[i]
         /\ job'[j] = Resting /\ job'[j].st = "idle"
  BY DEF AlarmsInv, AlarmsTypeOK, Rests, JobRec, Resting

LEMMA JobSteps ==
  ASSUME AlarmsInv, NEW j \in Jobs,
         UNCHANGED <<follows, time, emit, lastAt, events, past, alerts, told, moves, torn>>,
         bound' \in [Hosts -> Owners \cup {""}], hushed' \subseteq Hosts \X Nat, SilencedWasAlerted',
         job' \in [Jobs -> JobRec], \A i \in Jobs \ {j} : job'[i] = job[i], JobInv(j)',
         job[j].st # "tell",
         \A h \in Hosts : j \in Counting(h)' => (j \in Counting(h) /\ job'[j].at = job[j].at) \/ job'[j].at = time,
         \A h \in Hosts, t \in Nat : h \notin torn /\ Handles(j, h, t) /\ Many(Seen(h, t)) =>
                                       Handles(j, h, t)' \/ ToldOf(h, t)'
  PROVE  AlarmsInv'
  <1>1. AlarmsTypeOK /\ AlarmsTypeOK'
    BY DEF AlarmsInv, AlarmsTypeOK
  <1>2. GoesOn
    <2>1. time \in Nat /\ time' = time
      BY <1>1 DEF AlarmsTypeOK
    <2>2. time' \in Nat /\ time' >= time
      BY <2>1, SameTime
    <2> QED BY <2>2 DEF GoesOn
  <1>3. \A i \in Jobs : JobInv(i)'
    <2>1. ASSUME NEW i \in Jobs \ {j} PROVE JobInv(i)'
      BY <1>2, JobStays
    <2> QED BY <2>1
  <1>4. ASSUME NEW h \in Hosts PROVE HostInv(h)' /\ PastInv(h)' /\ HeardInv(h)' /\ MovesInv(h)'
    <2>1. HostInv(h)'
      BY <1>2, HostStays
    <2>2. PastInv(h)'
      <3>1. \A i \in Counting(h)' : (i \in Counting(h) /\ job'[i].at = job[i].at) \/ job'[i].at = time
        BY DEF Counting
      <3> QED BY <1>2, <3>1, PastStays
    <2>3. HeardInv(h)'
      <3>1. Sent(h)' = Sent(h)
        BY DEF Sent
      <3>2. \A i \in Jobs, t \in Nat :
              h \notin torn' /\ Handles(i, h, t) /\ Many(Seen(h, t)) => Handles(i, h, t)' \/ ToldOf(h, t)'
        BY DEF Handles
      <3> QED BY <1>2, <3>1, <3>2, HeardStays
    <2>4. MovesInv(h)'
      <3>1. \A i \in Jobs : job[i].st = "tell" => job'[i] = job[i]
        OBVIOUS
      <3> QED BY <1>2, <3>1, MovesStay
    <2> QED BY <2>1, <2>2, <2>3, <2>4
  <1> QED BY <1>1, <1>3, <1>4 DEF AlarmsInv

LEMMA EvaluatesKept ==
  ASSUME AlarmsInv, NEW j \in Jobs, Evaluates(j) PROVE AlarmsInv'
  <1>1. /\ job[j].st = "idle"
        /\ UNCHANGED <<follows, time, emit, lastAt, events, past, alerts, told, moves, torn, bound, hushed>>
    BY DEF Evaluates, throttleVars, detectorVars, Resting
  <1>2. PICK st \in {"watch", "clock"}, h \in Hosts, by \in (IF follows = "arp" THEN Owners ELSE ScanPorts) :
          /\ st = "watch" => follows = "arp"
          /\ job' = [job EXCEPT ![j] = [st |-> st, host |-> h, by |-> by, at |-> 0, held |-> FALSE]]
    BY DEF Evaluates
  <1>3. PICK r \in PacketRec : r = [st |-> st, host |-> h, by |-> by, at |-> 0, held |-> FALSE]
    BY <1>2 DEF PacketRec
  <1>4. job' \in [Jobs -> JobRec] /\ \A i \in Jobs \ {j} : job'[i] = job[i]
    BY <1>2, <1>3 DEF AlarmsInv, AlarmsTypeOK, JobRec
  <1>5. job'[j] = r /\ time \in Nat
    BY <1>2, <1>3 DEF AlarmsInv, AlarmsTypeOK
  <1>6. JobInv(j)'
    BY <1>1, <1>2, <1>3, <1>5 DEF JobInv, Measuring
  <1>7. /\ bound' \in [Hosts -> Owners \cup {""}] /\ hushed' \subseteq Hosts \X Nat /\ SilencedWasAlerted'
        /\ \A i \in Hosts : j \notin Counting(i)'
        /\ \A i \in Hosts, t \in Nat : ~Handles(j, i, t)
    BY <1>1, <1>2, <1>3, <1>5
       DEF AlarmsInv, AlarmsTypeOK, SilencedWasAlerted, Counting, Handles, Handled, Measuring
  <1> QED BY <1>1, <1>4, <1>6, <1>7, JobSteps

\* A step that leaves what is shared and ends in st, or is the last.
LEMMA QuietSteps ==
  ASSUME AlarmsInv, NEW j \in Jobs, job[j].st \notin {"idle", "tell"},
         UNCHANGED <<follows, time, emit, lastAt, events, past, alerts, told, moves, torn, bound, hushed>>,
         NEW st \in Handled \cup {"hush", "emit", "rebind", "bind", "clock"},
         \/ Moved(j, st) /\ JobInv(j)' /\ (st \in Measuring => job[j].st \in Measuring)
            /\ (st \notin Handled => job[j].st \notin Handled)
         \/ /\ Rests(j)
            /\ \A h \in Hosts, t \in Nat : h \notin torn /\ Handles(j, h, t) /\ Many(Seen(h, t)) => ToldOf(h, t)
  PROVE  AlarmsInv'
  <1>1. bound' \in [Hosts -> Owners \cup {""}] /\ hushed' \subseteq Hosts \X Nat /\ SilencedWasAlerted'
    BY DEF AlarmsInv, AlarmsTypeOK, SilencedWasAlerted
  <1>2. CASE Moved(j, st) /\ JobInv(j)' /\ (st \in Measuring => job[j].st \in Measuring)
             /\ (st \notin Handled => job[j].st \notin Handled)
    <2>1. /\ \A h \in Hosts : j \in Counting(h)' => j \in Counting(h) /\ job'[j].at = job[j].at
          /\ \A h \in Hosts, t \in Nat : Handles(j, h, t) => Handles(j, h, t)'
      BY <1>2 DEF Moved, Counting, Handles, Handled, Measuring
    <2> QED BY <1>1, <1>2, <2>1, JobSteps DEF Moved
  <1>3. CASE Rests(j) /\ \A h \in Hosts, t \in Nat : h \notin torn /\ Handles(j, h, t) /\ Many(Seen(h, t)) => ToldOf(h, t)
    <2>1. /\ job' \in [Jobs -> JobRec] /\ \A i \in Jobs \ {j} : job'[i] = job[i]
          /\ job'[j].st = "idle"
      BY <1>3, RestsFacts
    <2>2. JobInv(j)'
      BY <2>1 DEF JobInv, Measuring
    <2>3. \A h \in Hosts : j \notin Counting(h)'
      BY <2>1 DEF Counting
    <2>4. \A h \in Hosts, t \in Nat : ToldOf(h, t) => ToldOf(h, t)'
      BY DEF ToldOf
    <2> QED BY <1>1, <1>3, <2>1, <2>2, <2>3, <2>4, JobSteps
  <1> QED BY <1>2, <1>3

LEMMA ClocksKept ==
  ASSUME AlarmsInv, NEW j \in Jobs, Clocks(j) PROVE AlarmsInv'
  <1>1. /\ job[j].st = "clock"
        /\ UNCHANGED <<follows, time, emit, lastAt, events, past, alerts, told, moves, torn, bound, hushed>>
    BY DEF Clocks, throttleVars, detectorVars
  <1>2. PICK q \in PacketRec : q = job[j]
    BY <1>1, JobOf
  <1>3. PICK st : st = CASE follows = "throttle" -> "look" [] follows = "arp" -> "last" [] OTHER -> "record"
    OBVIOUS
  <1>4. /\ st \in {"look", "last", "record"}
        /\ st = "last" => follows = "arp"
        /\ st = "record" => follows \in Windowed
    BY <1>3 DEF AlarmsInv, AlarmsTypeOK
  <1>5. PICK r : r = [[q EXCEPT !.at = time] EXCEPT !.st = st]
    OBVIOUS
  <1>6. job' = [job EXCEPT ![j] = r] /\ job \in [Jobs -> JobRec] /\ time \in Nat
    BY <1>2, <1>3, <1>5 DEF Clocks, AlarmsInv, AlarmsTypeOK
  <1>7. r \in PacketRec /\ r.st = st /\ r.host = q.host /\ r.by = q.by /\ r.at = time /\ r.held = q.held
    <2>1. PICK q1 : q1 = [q EXCEPT !.at = time]
      OBVIOUS
    <2>2. q1 \in PacketRec /\ q1.host = q.host /\ q1.by = q.by /\ q1.at = time /\ q1.held = q.held
      BY <1>6, <2>1 DEF PacketRec
    <2>3. r = [q1 EXCEPT !.st = st]
      BY <1>5, <2>1
    <2>4. st \in Handled \cup {"look", "record"}
      BY <1>4 DEF Handled
    <2> QED BY <2>2, <2>3, <2>4 DEF PacketRec
  <1>8. job' \in [Jobs -> JobRec] /\ job'[j] = r /\ \A i \in Jobs \ {j} : job'[i] = job[i]
    BY <1>6, <1>7 DEF JobRec
  <1>9. JobInv(j) /\ JobInv(j)'
    <2>1. JobInv(j)
      BY DEF AlarmsInv
    <2>2. job'[j].at = time /\ time' = time /\ follows' = follows /\ time <= time
      BY <1>1, <1>6, <1>7, <1>8
    <2>3. job'[j].at <= time' /\ job'[j].by = job[j].by /\ job'[j].st = st
      BY <1>2, <1>7, <1>8, <2>2
    <2> QED BY <1>1, <1>4, <2>1, <2>2, <2>3 DEF JobInv, Measuring
  <1>10. /\ bound' \in [Hosts -> Owners \cup {""}] /\ hushed' \subseteq Hosts \X Nat /\ SilencedWasAlerted'
         /\ \A i \in Hosts : job'[j].at = time
         /\ \A i \in Hosts, t \in Nat : ~Handles(j, i, t)
    BY <1>1, <1>7, <1>8 DEF AlarmsInv, AlarmsTypeOK, SilencedWasAlerted, Handles, Handled, Measuring
  <1> QED BY <1>1, <1>8, <1>9, <1>10, JobSteps

LEMMA ThrottleReads ==
  ASSUME AlarmsInv, NEW j \in Jobs, Looks(j) PROVE AlarmsInv'
  <1>1. /\ job[j].st = "look"
        /\ UNCHANGED <<follows, time, emit, lastAt, events, past, alerts, told, moves, torn, bound, hushed>>
    BY DEF Looks, throttleVars, detectorVars
  <1>2. PICK h \in Hosts : h = job[j].host
    BY <1>1, JobOf
  <1>3. PICK st \in {"hush", "emit"} : st = IF TooSoon(emit[h], job[j].at) THEN "hush" ELSE "emit"
    OBVIOUS
  <1>4. Moved(j, st)
    BY <1>1, <1>2, <1>3, GoesFacts DEF Looks
  <1>5. JobInv(j)'
    <2>1. JobInv(j) /\ HostInv(h)
      BY DEF AlarmsInv
    <2>2. st = "hush" => emit[h] \in alerts[h] /\ job[j].at - emit[h] < AlarmWindow
      BY <1>3, <2>1 DEF TooSoon, HostInv
    <2> QED BY <1>1, <1>2, <1>4, <2>1, <2>2 DEF JobInv, Moved, Measuring
  <1> QED BY <1>1, <1>3, <1>4, <1>5, QuietSteps DEF Handled, Measuring

LEMMA HushesKept ==
  ASSUME AlarmsInv, NEW j \in Jobs, Hushes(j) PROVE AlarmsInv'
  <1>1. /\ job[j].st = "hush" /\ hushed' = hushed \cup {<<job[j].host, job[j].at>>} /\ Rests(j)
        /\ UNCHANGED <<follows, time, emit, lastAt, events, past, alerts, told, moves, torn, bound>>
    BY DEF Hushes, throttleVars, detectorVars
  <1>2. job[j].host \in Hosts /\ job[j].at \in Nat /\ \E t \in alerts[job[j].host] : job[j].at - t < AlarmWindow
    BY <1>1, JobOf DEF AlarmsInv, JobInv
  <1>3. hushed' \subseteq Hosts \X Nat /\ SilencedWasAlerted'
    <2>1. PICK h \in Hosts, at \in Nat : h = job[j].host /\ at = job[j].at
      BY <1>2
    <2>2. /\ hushed' = hushed \cup {<<h, at>>} /\ alerts' = alerts /\ \E t \in alerts[h] : at - t < AlarmWindow
          /\ hushed \subseteq Hosts \X Nat
      BY <1>1, <1>2, <2>1 DEF AlarmsInv, AlarmsTypeOK
    <2>3. hushed' \subseteq Hosts \X Nat
      BY <2>1, <2>2
    <2>4. ASSUME NEW x \in hushed' PROVE \E t \in alerts'[x[1]] : x[2] - t < AlarmWindow
      <3>1. CASE x = <<h, at>>
        BY <2>2, <3>1
      <3>2. CASE x \in hushed
        BY <2>2, <3>2 DEF AlarmsInv, SilencedWasAlerted
      <3> QED BY <2>2, <3>1, <3>2
    <2> QED BY <2>3, <2>4 DEF SilencedWasAlerted
  <1>4. /\ job' \in [Jobs -> JobRec] /\ \A i \in Jobs \ {j} : job'[i] = job[i]
        /\ job'[j].st = "idle"
    BY <1>1, RestsFacts
  <1>5. /\ JobInv(j)' /\ \A h \in Hosts : j \notin Counting(h)'
        /\ \A h \in Hosts, t \in Nat : ~Handles(j, h, t)
        /\ bound' \in [Hosts -> Owners \cup {""}]
    BY <1>1, <1>4 DEF JobInv, Counting, Handles, Handled, Measuring, AlarmsInv, AlarmsTypeOK
  <1> QED BY <1>1, <1>3, <1>4, <1>5, JobSteps

LEMMA RaisesKept ==
  ASSUME AlarmsInv, NEW j \in Jobs, Raises(j) PROVE AlarmsInv'
  <1>1. /\ job[j].st = "emit" /\ Rests(j)
        /\ UNCHANGED <<follows, time, lastAt, events, past, hushed, told, moves, torn, bound>>
    BY DEF Raises, detectorVars
  <1>2. PICK h \in Hosts, at \in Nat : h = job[j].host /\ at = job[j].at
    BY <1>1, JobOf
  <1>3. emit' = [emit EXCEPT ![h] = at] /\ alerts' = [alerts EXCEPT ![h] = @ \cup {at}]
    BY <1>2 DEF Raises
  <1>4. AlarmsTypeOK /\ emit \in [Hosts -> Stamp] /\ alerts \in [Hosts -> SUBSET Nat] /\ time \in Nat
    BY DEF AlarmsInv, AlarmsTypeOK
  <1>5. /\ emit' \in [Hosts -> Stamp] /\ alerts' \in [Hosts -> SUBSET Nat]
        /\ \A g \in Hosts : alerts[g] \subseteq alerts'[g] /\ (emit'[g] = emit[g] \/ emit'[g] \in alerts'[g])
    BY <1>2, <1>3, <1>4 DEF Stamp
  <1>6. /\ job' \in [Jobs -> JobRec] /\ \A i \in Jobs \ {j} : job'[i] = job[i]
        /\ job'[j] = Resting
    BY <1>1, RestsFacts
  <1>7. GoesOn
    <2>1. time' \in Nat /\ time' >= time
      BY <1>1, <1>4
    <2> QED BY <1>1, <1>5, <2>1 DEF GoesOn
  <1>8. AlarmsTypeOK'
    BY <1>1, <1>4, <1>5, <1>6 DEF AlarmsTypeOK
  <1>9. SilencedWasAlerted'
    BY <1>1, <1>4, <1>5 DEF AlarmsInv, AlarmsTypeOK, SilencedWasAlerted
  <1>10. \A i \in Jobs : JobInv(i)'
    BY <1>6, <1>7, JobStays
  <1>11. ASSUME NEW g \in Hosts PROVE HostInv(g)' /\ PastInv(g)' /\ HeardInv(g)' /\ MovesInv(g)'
    <2>1. HostInv(g)'
      BY <1>1, <1>5, <1>7, HostStays
    <2>2. \A i \in Counting(g)' : i \in Counting(g) /\ job'[i].at = job[i].at
      BY <1>6 DEF Counting, Resting
    <2>3. PastInv(g)'
      BY <1>1, <1>7, <2>2, PastStays
    <2>4. Sent(g)' = Sent(g) /\ \A i \in Jobs, t \in Nat : Handles(i, g, t) => Handles(i, g, t)'
      BY <1>1, <1>6 DEF Sent, Handles, Handled, Measuring
    <2>5. HeardInv(g)'
      BY <1>7, <2>4, HeardStays
    <2>6. \A i \in Jobs : job[i].st = "tell" => job'[i] = job[i]
      BY <1>1, <1>6
    <2>7. MovesInv(g)'
      BY <1>1, <1>7, <2>6, MovesStay
    <2> QED BY <2>1, <2>3, <2>5, <2>7
  <1> QED BY <1>8, <1>9, <1>10, <1>11 DEF AlarmsInv

LEMMA TrimsKept ==
  ASSUME AlarmsInv, NEW j \in Jobs, Trims(j) PROVE AlarmsInv'
  <1>1. /\ job[j].st = "trim" /\ job[j].host \in Hosts
        /\ UNCHANGED <<follows, time, emit, lastAt, events, past, alerts, told, moves, torn, bound, hushed>>
    BY JobOf DEF Trims, throttleVars, detectorVars
  <1>2. PICK st \in {"count", "head"} : st = IF events[job[j].host] = <<>> THEN "count" ELSE "head"
    OBVIOUS
  <1>3. Moved(j, st)
    BY <1>1, <1>2, GoesFacts DEF Trims, Handled, Measuring
  <1>4. JobInv(j)'
    <2>1. JobInv(j)
      BY DEF AlarmsInv
    <2> QED BY <1>1, <1>2, <1>3, <2>1 DEF JobInv, Moved, Measuring
  <1> QED BY <1>1, <1>2, <1>3, <1>4, QuietSteps DEF Handled, Measuring

\* A job that measures and gives up has too few events in its deque.
LEMMA GivesUp ==
  ASSUME AlarmsInv, NEW j \in Jobs, job[j].st \in Measuring, Rests(j),
         UNCHANGED <<follows, time, emit, lastAt, events, past, alerts, told, moves, torn, bound, hushed>>,
         events[job[j].host] = <<>> \/ ~Many(events[job[j].host])
  PROVE  AlarmsInv'
  <1>1. \A h \in Hosts, t \in Nat : ~(h \notin torn /\ Handles(j, h, t) /\ Many(Seen(h, t)))
    BY HasItAll DEF Handles
  <1>2. "count" \in Handled /\ job[j].st \notin {"idle", "tell"}
    BY DEF Handled, Measuring
  <1> QED BY <1>1, <1>2, QuietSteps

LEMMA HeadsKept ==
  ASSUME AlarmsInv, NEW j \in Jobs, Heads(j) PROVE AlarmsInv'
  <1>1. /\ job[j].st = "head" /\ job[j].st \in Measuring
        /\ UNCHANGED <<follows, time, emit, lastAt, events, past, alerts, told, moves, torn, bound, hushed>>
    BY DEF Heads, throttleVars, detectorVars, Measuring
  <1>2. CASE events[job[j].host] = <<>>
    <2>1. Rests(j)
      BY <1>2 DEF Heads
    <2> QED BY <1>1, <1>2, <2>1, GivesUp
  <1>3. CASE events[job[j].host] # <<>>
    <2>1. PICK st \in {"pop", "count"} : Goes(j, st)
      BY <1>3 DEF Heads
    <2>2. Moved(j, st)
      BY <1>1, <2>1, GoesFacts DEF Handled, Measuring
    <2>3. JobInv(j)'
      <3>1. JobInv(j)
        BY DEF AlarmsInv
      <3> QED BY <1>1, <2>1, <2>2, <3>1 DEF JobInv, Moved, Measuring
    <2> QED BY <1>1, <2>1, <2>2, <2>3, QuietSteps DEF Handled, Measuring
  <1> QED BY <1>2, <1>3

LEMMA CountsKept ==
  ASSUME AlarmsInv, NEW j \in Jobs, Counts(j) \/ Gathers(j) PROVE AlarmsInv'
  <1>1. /\ job[j].st \in {"count", "iterate"} /\ job[j].st \in Measuring
        /\ UNCHANGED <<follows, time, emit, lastAt, events, past, alerts, told, moves, torn, bound, hushed>>
    BY DEF Counts, Gathers, throttleVars, detectorVars, Measuring
  <1>2. CASE Rests(j) /\ ~Many(events[job[j].host])
    BY <1>1, <1>2, GivesUp
  <1>3. ASSUME NEW st \in {"iterate", "clear", "last"}, Goes(j, st),
               st = "iterate" => follows = "ports", st = "clear" => follows = "flood", st = "last" => follows # "flood"
        PROVE  AlarmsInv'
    <2>1. Moved(j, st)
      BY <1>1, <1>3, GoesFacts DEF Handled, Measuring
    <2>2. JobInv(j)'
      <3>1. JobInv(j)
        BY DEF AlarmsInv
      <3> QED BY <1>1, <1>3, <2>1, <3>1 DEF JobInv, Moved, Measuring
    <2> QED BY <1>1, <1>3, <2>1, <2>2, QuietSteps DEF Handled, Measuring
  <1>4. Counts(j) => \/ Rests(j) /\ ~Many(events[job[j].host])
                     \/ Goes(j, "iterate") /\ follows = "ports"
                     \/ Goes(j, "clear") /\ follows = "flood"
                     \/ Goes(j, "last") /\ follows # "flood"
    BY DEF Counts
  <1>5. Gathers(j) => \/ Rests(j) /\ ~Many(events[job[j].host])
                      \/ Goes(j, "last") /\ follows # "flood"
    <2>1. job[j].st = "iterate" => follows # "flood"
      BY DEF AlarmsInv, JobInv
    <2> QED BY <2>1 DEF Gathers
  <1> QED BY <1>2, <1>3, <1>4, <1>5

LEMMA PopsNothing ==
  ASSUME AlarmsInv, NEW j \in Jobs, PopsLeft(j), events[job[j].host] = <<>> PROVE AlarmsInv'
  <1>1. /\ job[j].st \in Measuring /\ Rests(j)
        /\ UNCHANGED <<follows, time, emit, lastAt, events, past, alerts, told, moves, torn, bound, hushed>>
    BY DEF PopsLeft, throttleVars, Measuring
  <1> QED BY <1>1, GivesUp

\* The ARP watch has no events.
LEMMA NothingSeen ==
  ASSUME AlarmsInv, follows = "arp", NEW h \in Hosts, NEW t \in Nat PROVE ~Many(Seen(h, t))
  <1>1. past[h] = <<>> /\ events[h] = <<>>
    BY DEF AlarmsInv, HostInv, Windowed
  <1>2. <<>> \o <<>> = <<>> /\ <<>> \in Seq(Probes)
    OBVIOUS
  <1>3. Seen(h, t) = Kept(<<>>, Span(t))
    BY <1>1, <1>2 DEF Seen, Sent
  <1>4. Many(Kept(<<>>, Span(t))) => FALSE
    BY <1>2, ManyOfMany
  <1> QED BY <1>3, <1>4

LEMMA RecallsKept ==
  ASSUME AlarmsInv, NEW j \in Jobs, Recalls(j) PROVE AlarmsInv'
  <1>1. /\ job[j].st = "last" /\ JobInv(j)
        /\ UNCHANGED <<follows, time, emit, lastAt, events, past, alerts, told, moves, torn, bound, hushed>>
    BY DEF Recalls, throttleVars, detectorVars, AlarmsInv
  <1>2. PICK q \in PacketRec : q = job[j]
    BY <1>1, JobOf
  <1>3. PICK h \in Hosts, at \in Nat : h = job[j].host /\ at = job[j].at
    BY <1>1, JobOf
  <1>4. PICK held \in BOOLEAN : held = TooSoon(lastAt[h], at)
    BY DEF TooSoon
  <1>5. held => \E a \in told[h] : a > at - AlarmWindow /\ at - a < AlarmWindow
    <2>1. lastAt[h] \in Stamp /\ (lastAt[h] # Never => lastAt[h] \in told[h])
      BY DEF AlarmsInv, AlarmsTypeOK, HostInv
    <2>2. SUFFICES ASSUME held PROVE \E a \in told[h] : a > at - AlarmWindow /\ at - a < AlarmWindow
      OBVIOUS
    <2>3. PICK a \in Nat : a = lastAt[h] /\ a \in told[h] /\ at - a < AlarmWindow
      BY <1>4, <2>1, <2>2 DEF TooSoon, Stamp
    <2> QED BY <1>3, <2>3, AlarmNumbers
  <1>6. CASE follows = "arp"
    <2>1. PICK r : r = [[q EXCEPT !.st = "rebind"] EXCEPT !.held = held]
      OBVIOUS
    <2>2. job' = [job EXCEPT ![j] = r] /\ job \in [Jobs -> JobRec]
      BY <1>2, <1>3, <1>4, <1>6, <2>1 DEF Recalls, AlarmsInv, AlarmsTypeOK
    <2>3. r \in PacketRec /\ r.st = "rebind" /\ r.host = q.host /\ r.by = q.by /\ r.at = q.at /\ r.held = held
      <3>1. PICK q1 : q1 = [q EXCEPT !.st = "rebind"]
        OBVIOUS
      <3>2. q1 \in PacketRec /\ q1.st = "rebind" /\ q1.host = q.host /\ q1.by = q.by /\ q1.at = q.at
        BY <1>2, <3>1 DEF PacketRec
      <3>3. r = [q1 EXCEPT !.held = held]
        BY <2>1, <3>1
      <3> QED BY <1>4, <3>2, <3>3 DEF PacketRec
    <2>4. job' \in [Jobs -> JobRec] /\ job'[j] = r /\ \A i \in Jobs \ {j} : job'[i] = job[i]
      BY <2>2, <2>3 DEF JobRec
    <2>5. JobInv(j)'
      BY <1>1, <1>2, <1>3, <1>5, <1>6, <2>3, <2>4 DEF JobInv, Measuring
    <2>6. /\ bound' \in [Hosts -> Owners \cup {""}] /\ hushed' \subseteq Hosts \X Nat /\ SilencedWasAlerted'
          /\ \A i \in Hosts : j \notin Counting(i)'
      BY <1>1, <2>3, <2>4 DEF AlarmsInv, AlarmsTypeOK, SilencedWasAlerted, Counting
    <2>7. \A i \in Hosts, t \in Nat : ~Many(Seen(i, t))
      BY <1>6, NothingSeen
    <2> QED BY <1>1, <2>4, <2>5, <2>6, <2>7, JobSteps
  <1>7. CASE follows # "arp" /\ held
    <2>1. Rests(j)
      BY <1>3, <1>4, <1>7 DEF Recalls
    <2>2. \A i \in Hosts, t \in Nat : Handles(j, i, t) => ToldOf(i, t)
      BY <1>1, <1>3, <1>5, <1>7 DEF Handles, ToldOf, JobInv
    <2> QED BY <1>1, <2>1, <2>2, QuietSteps DEF Handled
  <1>8. CASE follows # "arp" /\ ~held
    <2>1. Goes(j, "tell") /\ "tell" \in Handled
      BY <1>3, <1>4, <1>8 DEF Recalls, Handled
    <2>2. Moved(j, "tell")
      BY <1>1, <2>1, GoesFacts
    <2>3. JobInv(j)'
      BY <1>1, <2>2 DEF JobInv, Moved, Measuring
    <2> QED BY <1>1, <2>1, <2>2, <2>3, QuietSteps DEF Measuring
  <1> QED BY <1>6, <1>7, <1>8

LEMMA WatchesKept ==
  ASSUME AlarmsInv, NEW j \in Jobs, Watches(j) PROVE AlarmsInv'
  <1>1. /\ job[j].st = "watch" /\ JobInv(j)
        /\ UNCHANGED <<follows, time, emit, lastAt, events, past, alerts, told, moves, torn, bound, hushed>>
    BY DEF Watches, throttleVars, detectorVars, AlarmsInv
  <1>2. CASE Rests(j)
    <2>1. \A i \in Hosts, t \in Nat : ~Handles(j, i, t)
      BY <1>1 DEF Handles, Handled, Measuring
    <2>2. "bind" \in Handled \cup {"hush", "emit", "rebind", "bind", "clock"}
      OBVIOUS
    <2> QED BY <1>1, <1>2, <2>1, <2>2, QuietSteps
  <1>3. ASSUME NEW st \in {"bind", "clock"}, Goes(j, st) PROVE AlarmsInv'
    <2>1. Moved(j, st)
      BY <1>1, <1>3, GoesFacts
    <2>2. JobInv(j)'
      BY <1>1, <1>3, <2>1 DEF JobInv, Moved, Measuring
    <2> QED BY <1>1, <1>3, <2>1, <2>2, QuietSteps DEF Handled, Measuring
  <1> QED BY <1>2, <1>3 DEF Watches

LEMMA BindsKept ==
  ASSUME AlarmsInv, NEW j \in Jobs, Binds(j) PROVE AlarmsInv'
  <1>1. /\ job[j].st = "bind" /\ Rests(j) /\ bound' = [bound EXCEPT ![job[j].host] = job[j].by]
        /\ UNCHANGED <<follows, time, emit, lastAt, events, past, alerts, told, moves, torn, hushed>>
    BY DEF Binds, throttleVars
  <1>2. bound' \in [Hosts -> Owners \cup {""}] /\ hushed' \subseteq Hosts \X Nat /\ SilencedWasAlerted'
    <2>1. job[j].by \in Owners
      BY <1>1 DEF AlarmsInv, JobInv
    <2> QED BY <1>1, <2>1 DEF AlarmsInv, AlarmsTypeOK, SilencedWasAlerted
  <1>3. /\ job' \in [Jobs -> JobRec] /\ \A i \in Jobs \ {j} : job'[i] = job[i]
        /\ job'[j].st = "idle"
    BY <1>1, RestsFacts
  <1>4. /\ JobInv(j)' /\ \A h \in Hosts : j \notin Counting(h)'
        /\ \A h \in Hosts, t \in Nat : ~Handles(j, h, t)
    BY <1>1, <1>3 DEF JobInv, Counting, Handles, Handled, Measuring
  <1> QED BY <1>1, <1>2, <1>3, <1>4, JobSteps

LEMMA RebindsKept ==
  ASSUME AlarmsInv, NEW j \in Jobs, Rebinds(j) PROVE AlarmsInv'
  <1>1. /\ job[j].st = "rebind" /\ JobInv(j)
        /\ UNCHANGED <<follows, time, emit, lastAt, events, past, alerts, hushed, told, torn>>
    BY DEF Rebinds, throttleVars, AlarmsInv
  <1>2. PICK h \in Hosts, at \in Nat : h = job[j].host /\ at = job[j].at
    BY <1>1, JobOf
  <1>3. /\ AlarmsTypeOK /\ follows = "arp" /\ job[j].by \in Owners /\ moves \in [Hosts -> SUBSET Nat]
        /\ bound \in [Hosts -> Owners \cup {""}] /\ time \in Nat
    BY <1>1 DEF AlarmsInv, AlarmsTypeOK, JobInv
  <1>4. /\ bound' = [bound EXCEPT ![h] = job[j].by]
        /\ moves' = [moves EXCEPT ![h] = IF bound[h] = job[j].by THEN @ ELSE @ \cup {at}]
    BY <1>2 DEF Rebinds
  <1>5. /\ bound' \in [Hosts -> Owners \cup {""}] /\ moves' \in [Hosts -> SUBSET Nat]
        /\ moves'[h] \subseteq moves[h] \cup {at} /\ \A g \in Hosts \ {h} : moves'[g] = moves[g]
    BY <1>3, <1>4
  <1>6. /\ job' \in [Jobs -> JobRec] /\ \A i \in Jobs \ {j} : job'[i] = job[i]
        /\ job[j].held => job'[j] = Resting
        /\ ~job[j].held => job'[j].st = "tell" /\ job'[j].host = h /\ job'[j].by = job[j].by /\ job'[j].at = at
    <2>1. CASE job[j].held
      BY <1>1, <2>1, RestsFacts DEF Rebinds
    <2>2. CASE ~job[j].held
      <3>1. Goes(j, "tell") /\ "tell" \in Handled
        BY <2>2 DEF Rebinds, Handled
      <3>2. Moved(j, "tell")
        BY <1>1, <3>1, GoesFacts
      <3> QED BY <1>2, <2>2, <3>2 DEF Moved
    <2> QED BY <2>1, <2>2
  <1>7. GoesOn
    BY <1>1, <1>3, SameTime DEF GoesOn
  <1>8. AlarmsTypeOK' /\ SilencedWasAlerted'
    BY <1>1, <1>3, <1>5, <1>6 DEF AlarmsInv, AlarmsTypeOK, SilencedWasAlerted
  <1>9. \A i \in Jobs : JobInv(i)'
    <2>1. ASSUME NEW i \in Jobs \ {j} PROVE JobInv(i)'
      BY <1>6, <1>7, JobStays
    <2>2. JobInv(j)'
      <3>1. CASE job[j].held
        BY <1>6, <1>7, <3>1, JobStays
      <3>2. CASE ~job[j].held
        BY <1>1, <1>2, <1>3, <1>6, <3>2 DEF JobInv, Measuring
      <3> QED BY <3>1, <3>2
    <2> QED BY <2>1, <2>2
  <1>10. ASSUME NEW g \in Hosts PROVE HostInv(g)' /\ PastInv(g)' /\ HeardInv(g)' /\ MovesInv(g)'
    <2>1. HostInv(g)'
      BY <1>1, <1>7, HostStays
    <2>2. \A i \in Counting(g)' : i \in Counting(g) /\ job'[i].at = job[i].at
      BY <1>6 DEF Counting, Resting
    <2>3. PastInv(g)'
      BY <1>1, <1>7, <2>2, PastStays
    <2>4. Sent(g)' = Sent(g) /\ \A t \in Nat : ~Many(Seen(g, t))
      BY <1>1, <1>3, NothingSeen DEF Sent
    <2>5. HeardInv(g)'
      BY <1>7, <2>4, HeardStays
    <2>6. \A i \in Jobs : job[i].st = "tell" => job'[i] = job[i]
      BY <1>1, <1>6
    <2>7. MovesInv(g)'
      <3>1. CASE g # h
        BY <1>5, <1>7, <2>6, <3>1, MovesStay
      <3>2. CASE g = h
        <4>1. SUFFICES ASSUME NEW m \in moves'[h]
                       PROVE  \/ \E a \in told'[h] : m - a < AlarmWindow
                              \/ \E i \in Jobs : job'[i].st = "tell" /\ job'[i].host = h /\ job'[i].at = m
          BY <3>2 DEF MovesInv
        <4>2. CASE m \in moves[h]
          <5>1. \/ \E a \in told[h] : m - a < AlarmWindow
                \/ \E i \in Jobs : job[i].st = "tell" /\ job[i].host = h /\ job[i].at = m
            BY <4>2 DEF AlarmsInv, MovesInv
          <5> QED BY <1>1, <2>6, <5>1
        <4>3. CASE m = at
          BY <1>1, <1>2, <1>6, <4>3 DEF JobInv
        <4> QED BY <1>5, <4>1, <4>2, <4>3
      <3> QED BY <3>1, <3>2
    <2> QED BY <2>1, <2>3, <2>5, <2>7
  <1> QED BY <1>8, <1>9, <1>10 DEF AlarmsInv

LEMMA TellsKept ==
  ASSUME AlarmsInv, NEW j \in Jobs, Tells(j) PROVE AlarmsInv'
  <1>1. /\ job[j].st = "tell" /\ JobInv(j) /\ Rests(j)
        /\ UNCHANGED <<follows, time, emit, events, bound, past, alerts, hushed, moves, torn>>
    BY DEF Tells, throttleVars, AlarmsInv
  <1>2. PICK h \in Hosts, at \in Nat : h = job[j].host /\ at = job[j].at
    BY <1>1, JobOf
  <1>3. lastAt' = [lastAt EXCEPT ![h] = at] /\ told' = [told EXCEPT ![h] = @ \cup {at}]
    BY <1>2 DEF Tells
  <1>4. AlarmsTypeOK /\ lastAt \in [Hosts -> Stamp] /\ told \in [Hosts -> SUBSET Nat] /\ time \in Nat
    BY DEF AlarmsInv, AlarmsTypeOK
  <1>5. /\ lastAt' \in [Hosts -> Stamp] /\ told' \in [Hosts -> SUBSET Nat] /\ at \in told'[h]
        /\ \A g \in Hosts : told[g] \subseteq told'[g] /\ (lastAt'[g] = lastAt[g] \/ lastAt'[g] \in told'[g])
    BY <1>2, <1>3, <1>4 DEF Stamp
  <1>6. /\ job' \in [Jobs -> JobRec] /\ \A i \in Jobs \ {j} : job'[i] = job[i]
        /\ job'[j] = Resting
    BY <1>1, RestsFacts
  <1>7. GoesOn
    BY <1>1, <1>4, <1>5, SameTime DEF GoesOn
  <1>8. AlarmsTypeOK' /\ SilencedWasAlerted'
    BY <1>1, <1>4, <1>5, <1>6 DEF AlarmsInv, AlarmsTypeOK, SilencedWasAlerted
  <1>9. \A i \in Jobs : JobInv(i)'
    BY <1>6, <1>7, JobStays
  <1>10. ASSUME NEW g \in Hosts PROVE HostInv(g)' /\ PastInv(g)' /\ HeardInv(g)' /\ MovesInv(g)'
    <2>1. HostInv(g)'
      BY <1>1, <1>5, <1>7, HostStays
    <2>2. \A i \in Counting(g)' : i \in Counting(g) /\ job'[i].at = job[i].at
      BY <1>6 DEF Counting, Resting
    <2>3. PastInv(g)'
      BY <1>1, <1>7, <2>2, PastStays
    <2>4. Sent(g)' = Sent(g)
      BY <1>1 DEF Sent
    <2>5. \A i \in Jobs, t \in Nat : Handles(i, g, t) => Handles(i, g, t)' \/ ToldOf(g, t)'
      <3>1. \A t \in Nat : Handles(j, g, t) => ToldOf(g, t)'
        <4>1. SUFFICES ASSUME NEW t \in Nat, Handles(j, g, t) PROVE ToldOf(g, t)'
          OBVIOUS
        <4>2. g = h /\ t = at /\ at > at - AlarmWindow /\ follows' # "flood"
          BY <1>1, <1>2, <4>1, AlarmNumbers DEF Handles, JobInv
        <4> QED BY <1>5, <4>2 DEF ToldOf
      <3> QED BY <1>6, <3>1 DEF Handles
    <2>6. HeardInv(g)'
      BY <1>7, <2>4, <2>5, HeardStays
    <2>7. MovesInv(g)'
      <3>1. at - at < AlarmWindow
        BY <1>2, AlarmNumbers
      <3>2. \A i \in Jobs : job[i].st = "tell" /\ job[i].host = g =>
              job'[i] = job[i] \/ \E a \in told'[g] : job[i].at - a < AlarmWindow
        BY <1>2, <1>5, <1>6, <3>1
      <3> QED BY <1>1, <1>7, <3>2, MovesStay
    <2> QED BY <2>1, <2>3, <2>6, <2>7
  <1> QED BY <1>8, <1>9, <1>10 DEF AlarmsInv

-----------------------------------------------------------------------------
(* Alarms: the steps that change a deque. *)

\* The job trims next, and iterations over its deque fail.
LEMMA DisturbedFacts ==
  ASSUME AlarmsInv, NEW j \in Jobs, job[j].st \in {"record", "pop"}, NEW h \in Hosts, h = job[j].host,
         job' = Disturbed(j, "trim")
  PROVE  /\ job' \in [Jobs -> JobRec]
         /\ job'[j].st = "trim" /\ job'[j].host = h /\ job'[j].by = job[j].by /\ job'[j].at = job[j].at
         /\ \A i \in Jobs \ {j} : /\ job'[i] = job[i] \/ job'[i] = Resting
                                  /\ i \notin Iterating(h) => job'[i] = job[i]
  <1>1. PICK q \in PacketRec : q = job[j]
    BY JobOf
  <1>2. PICK r : r = [q EXCEPT !.st = "trim"]
    OBVIOUS
  <1>3. r \in PacketRec /\ r.st = "trim" /\ r.host = q.host /\ r.by = q.by /\ r.at = q.at
    BY <1>1, <1>2 DEF PacketRec, Handled, Measuring
  <1>4. job' = [i \in Jobs |-> IF i = j THEN r ELSE IF i \in Iterating(h) THEN Resting ELSE job[i]]
    BY <1>1, <1>2 DEF Disturbed
  <1>5. job \in [Jobs -> JobRec] /\ r \in JobRec /\ Resting \in JobRec
    BY <1>3 DEF AlarmsInv, AlarmsTypeOK, JobRec
  <1> QED BY <1>1, <1>3, <1>4, <1>5

\* The jobs after such a step.
LEMMA DisturbedJobs ==
  ASSUME AlarmsInv, NEW j \in Jobs, job[j].st \in {"record", "pop"}, NEW h \in Hosts, h = job[j].host,
         job' = Disturbed(j, "trim"), GoesOn, time' = time, UNCHANGED moves
  PROVE  /\ \A i \in Jobs : JobInv(i)'
         /\ \A g \in Hosts : MovesInv(g)'
         /\ \A g \in Hosts : \A i \in Counting(g)' : i \in Counting(g) /\ job'[i].at = job[i].at
         /\ \A i \in Jobs, t \in Nat, g \in Hosts : g # h /\ Handles(i, g, t) => Handles(i, g, t)'
  <1>1. /\ job'[j].st = "trim" /\ job'[j].host = h /\ job'[j].by = job[j].by /\ job'[j].at = job[j].at
        /\ \A i \in Jobs \ {j} : /\ job'[i] = job[i] \/ job'[i] = Resting
                                 /\ i \notin Iterating(h) => job'[i] = job[i]
    BY DisturbedFacts
  <1>2. \A i \in Jobs : JobInv(i)'
    <2>1. ASSUME NEW i \in Jobs \ {j} PROVE JobInv(i)'
      BY <1>1, JobStays
    <2>2. JobInv(j)
      BY DEF AlarmsInv
    <2>3. JobInv(j)'
      BY <1>1, <2>2 DEF JobInv, Measuring, GoesOn
    <2> QED BY <2>1, <2>3
  <1>3. \A i \in Jobs : job[i].st = "tell" => job'[i] = job[i]
    BY <1>1 DEF Iterating
  <1>4. \A g \in Hosts : MovesInv(g)'
    BY <1>3, MovesStay
  <1>5. \A g \in Hosts : \A i \in Counting(g)' : i \in Counting(g) /\ job'[i].at = job[i].at
    BY <1>1 DEF Counting, Resting
  <1>6. \A i \in Jobs, t \in Nat, g \in Hosts : g # h /\ Handles(i, g, t) => Handles(i, g, t)'
    BY <1>1 DEF Handles, Iterating
  <1> QED BY <1>2, <1>4, <1>5, <1>6

LEMMA RecordsKept ==
  ASSUME AlarmsInv, NEW j \in Jobs, Records(j) PROVE AlarmsInv'
  <1>1. /\ job[j].st = "record" /\ JobInv(j) /\ job' = Disturbed(j, "trim")
        /\ UNCHANGED <<follows, time, emit, lastAt, bound, past, alerts, hushed, told, moves>>
    BY DEF Records, throttleVars, AlarmsInv
  <1>2. PICK h \in Hosts, at \in Nat : h = job[j].host /\ at = job[j].at
    BY <1>1, JobOf
  <1>3. /\ AlarmsTypeOK /\ follows \in Windowed /\ job[j].by \in ScanPorts /\ time \in Nat
        /\ events \in [Hosts -> Seq(Probes)] /\ past[h] \in Seq(Probes) /\ events[h] \in Seq(Probes)
    BY <1>1 DEF AlarmsInv, AlarmsTypeOK, JobInv, Windowed
  <1>4. PICK e \in Probes : e = <<at, job[j].by>> /\ e[1] = at
    <2>1. PICK e : e = <<at, job[j].by>>
      OBVIOUS
    <2>2. at \in Nat
      BY <1>2
    <2>3. e \in Nat \X ScanPorts /\ e[1] = at
      BY <1>3, <2>1, <2>2
    <2> QED BY <2>1, <2>3 DEF Probes
  <1>5. events' = [events EXCEPT ![h] = Append(@, e)]
    BY <1>2, <1>4 DEF Records
  <1>6. events' \in [Hosts -> Seq(Probes)] /\ \A g \in Hosts \ {h} : events'[g] = events[g]
    <2>1. Append(events[h], e) \in Seq(Probes)
      BY <1>3, <1>4, AppendProperties
    <2> QED BY <1>3, <1>5, <2>1
  <1>7. /\ torn' \in SUBSET Hosts /\ torn \subseteq torn' /\ torn' \subseteq torn \cup {h}
        /\ h \notin torn' => /\ \A x \in Elems(Sent(h)) : ~(x[1] > at)
                             /\ \A i \in Iterating(h) : job[i].at = at
    <2>1. torn' = IF (\E x \in Elems(Sent(h)) : x[1] > at) \/ (\E i \in Iterating(h) : job[i].at # at)
                  THEN torn \cup {h} ELSE torn
      BY <1>2 DEF Records, Tears
    <2>2. torn \subseteq Hosts
      BY <1>3 DEF AlarmsTypeOK
    <2> QED BY <2>1, <2>2
  <1>8. GoesOn
    BY <1>1, <1>3, <1>7, SameTime DEF GoesOn
  <1>9. /\ job' \in [Jobs -> JobRec]
        /\ job'[j].st = "trim" /\ job'[j].host = h /\ job'[j].by = job[j].by /\ job'[j].at = job[j].at
        /\ \A i \in Jobs \ {j} : /\ job'[i] = job[i] \/ job'[i] = Resting
                                 /\ i \notin Iterating(h) => job'[i] = job[i]
    BY <1>1, <1>2, DisturbedFacts
  <1>10. AlarmsTypeOK' /\ SilencedWasAlerted'
    BY <1>1, <1>3, <1>6, <1>7, <1>9 DEF AlarmsInv, AlarmsTypeOK, SilencedWasAlerted
  <1>11. /\ \A i \in Jobs : JobInv(i)'
         /\ \A g \in Hosts : MovesInv(g)'
         /\ \A g \in Hosts : \A i \in Counting(g)' : i \in Counting(g) /\ job'[i].at = job[i].at
         /\ \A i \in Jobs, t \in Nat, g \in Hosts : g # h /\ Handles(i, g, t) => Handles(i, g, t)'
    BY <1>1, <1>2, <1>8, DisturbedJobs
  <1>12. ASSUME NEW g \in Hosts PROVE HostInv(g)' /\ PastInv(g)'
    <2>1. HostInv(g)'
      BY <1>1, <1>3, <1>8, HostStays
    <2>2. PastInv(g)'
      BY <1>1, <1>8, <1>11, PastStays
    <2> QED BY <2>1, <2>2
  <1>13. ASSUME NEW g \in Hosts \ {h} PROVE HeardInv(g)'
    <2>1. Sent(g)' = Sent(g)
      BY <1>1, <1>6 DEF Sent
    <2> QED BY <1>8, <1>11, <2>1, HeardStays
  <1>14. HeardInv(h)'
    <2>1. PICK s \in Seq(Probes) : s = Sent(h)
      BY <1>3, ConcatFacts DEF Sent
    <2>2. Sent(h)' = Append(s, e)
      <3>1. events'[h] = Append(events[h], e) /\ past'[h] = past[h]
        BY <1>1, <1>3, <1>5
      <3>2. PICK a \in Seq(Probes), b \in Seq(Probes) : a = past[h] /\ b = events[h]
        BY <1>3
      <3>3. a \o Append(b, e) = Append(a \o b, e)
        BY <1>4, <3>2, EventsAppended
      <3> QED BY <2>1, <3>1, <3>2, <3>3 DEF Sent
    <2>3. Elems(Sent(h)') = Elems(s) \cup {e}
      BY <2>1, <2>2, AppendFacts
    <2>4. SUFFICES ASSUME h \notin torn', NEW x \in Elems(Sent(h)'), NEW t, t = x[1], Many(Seen(h, t))'
                   PROVE  ToldOf(h, t)' \/ \E i \in Jobs : Handles(i, h, t)'
      BY DEF HeardInv
    <2>5. CASE t = at
      <3>1. Handles(j, h, t)'
        BY <1>2, <1>9, <2>5 DEF Handles, Handled, Measuring
      <3> QED BY <3>1
    <2>6. CASE t # at
      <3>1. x \in Elems(s) /\ t \in Nat /\ x \in Probes
        <4>1. x \in Elems(s)
          BY <1>4, <2>3, <2>4, <2>6
        <4>2. x \in Probes
          BY <2>1, <4>1, ElemsFacts
        <4> QED BY <2>4, <4>1, <4>2 DEF Probes
      <3>2. t < at
        <4>1. ~(t > at)
          BY <1>7, <2>1, <2>4, <3>1
        <4> QED BY <1>2, <2>6, <3>1, <4>1
      <3>3. e \notin Span(t)
        BY <1>2, <1>4, <3>1, <3>2 DEF Span
      <3>4. Kept(Append(s, e), Span(t)) = Kept(s, Span(t))
        <4>1. PICK S : S = Span(t)
          OBVIOUS
        <4>2. Kept(Append(s, e), S) = Kept(s, S)
          BY <1>4, <2>1, <3>3, <4>1, KeptAppend
        <4> QED BY <4>1, <4>2
      <3>5. Many(Seen(h, t))
        <4>1. Seen(h, t)' = Kept(Sent(h)', Span(t))
          BY DEF Seen, Span
        <4>2. Seen(h, t)' = Seen(h, t)
          BY <2>1, <2>2, <3>4, <4>1 DEF Seen
        <4> QED BY <1>1, <2>4, <4>2 DEF Many, Measure
      <3>6. ToldOf(h, t) \/ \E i \in Jobs : Handles(i, h, t)
        BY <1>7, <2>1, <2>4, <3>1, <3>5 DEF AlarmsInv, HeardInv
      <3>7. ToldOf(h, t) => ToldOf(h, t)'
        BY <1>1 DEF ToldOf
      <3>8. ASSUME NEW i \in Jobs, Handles(i, h, t) PROVE Handles(i, h, t)'
        <4>1. i # j /\ i \notin Iterating(h)
          BY <1>1, <1>7, <2>4, <2>6, <3>8 DEF Handles, Handled, Measuring
        <4>2. i \in Jobs \ {j}
          BY <3>8, <4>1
        <4>3. job'[i] = job[i]
          BY <1>9, <4>1, <4>2
        <4> QED BY <3>8, <4>3 DEF Handles
      <3> QED BY <3>6, <3>7, <3>8
    <2> QED BY <2>5, <2>6
  <1> QED BY <1>10, <1>11, <1>12, <1>13, <1>14 DEF AlarmsInv

LEMMA PopsLeftKept ==
  ASSUME AlarmsInv, NEW j \in Jobs, PopsLeft(j), events[job[j].host] # <<>> PROVE AlarmsInv'
  <1>1. /\ job[j].st = "pop" /\ JobInv(j) /\ job' = Disturbed(j, "trim")
        /\ UNCHANGED <<follows, time, emit, lastAt, bound, alerts, hushed, told, moves>>
    BY DEF PopsLeft, throttleVars, AlarmsInv
  <1>2. PICK h \in Hosts, at \in Nat : h = job[j].host /\ at = job[j].at /\ at <= time
    BY <1>1, JobOf DEF JobInv
  <1>3. /\ AlarmsTypeOK /\ follows \in Windowed /\ time \in Nat
        /\ events \in [Hosts -> Seq(Probes)] /\ past \in [Hosts -> Seq(Probes)]
        /\ past[h] \in Seq(Probes) /\ events[h] \in Seq(Probes)
    BY <1>1 DEF AlarmsInv, AlarmsTypeOK, JobInv, Measuring
  <1>4. PICK e \in Probes : e = Head(events[h]) /\ e = events[h][1]
    BY <1>2, <1>3, HeadTailProperties
  <1>5. events' = [events EXCEPT ![h] = Tail(@)] /\ past' = [past EXCEPT ![h] = Append(@, e)]
    BY <1>2, <1>4 DEF PopsLeft
  <1>6. /\ events' \in [Hosts -> Seq(Probes)] /\ past' \in [Hosts -> Seq(Probes)]
        /\ \A g \in Hosts \ {h} : events'[g] = events[g] /\ past'[g] = past[g]
    <2>1. Append(past[h], e) \in Seq(Probes) /\ Tail(events[h]) \in Seq(Probes)
      BY <1>2, <1>3, <1>4, AppendProperties, HeadTailProperties
    <2> QED BY <1>3, <1>5, <2>1
  <1>7. /\ torn' \in SUBSET Hosts /\ torn \subseteq torn' /\ torn' \subseteq torn \cup {h}
        /\ h \notin torn' => Iterating(h) = {} /\ \A i \in Counting(h) : ~(e[1] >= job[i].at - AlarmWindow)
    <2>1. torn' = IF (\E i \in Counting(h) : e[1] >= job[i].at - AlarmWindow) \/ Iterating(h) # {}
                  THEN torn \cup {h} ELSE torn
      BY <1>2, <1>4 DEF PopsLeft, Tears
    <2>2. torn \subseteq Hosts
      BY <1>3 DEF AlarmsTypeOK
    <2> QED BY <2>1, <2>2
  <1>8. GoesOn
    BY <1>1, <1>3, <1>7, SameTime DEF GoesOn
  <1>9. /\ job' \in [Jobs -> JobRec]
        /\ job'[j].st = "trim" /\ job'[j].host = h /\ job'[j].by = job[j].by /\ job'[j].at = job[j].at
        /\ \A i \in Jobs \ {j} : /\ job'[i] = job[i] \/ job'[i] = Resting
                                 /\ i \notin Iterating(h) => job'[i] = job[i]
    BY <1>1, <1>2, DisturbedFacts
  <1>10. AlarmsTypeOK' /\ SilencedWasAlerted'
    BY <1>1, <1>3, <1>6, <1>7, <1>9 DEF AlarmsInv, AlarmsTypeOK, SilencedWasAlerted
  <1>11. /\ \A i \in Jobs : JobInv(i)'
         /\ \A g \in Hosts : MovesInv(g)'
         /\ \A g \in Hosts : \A i \in Counting(g)' : i \in Counting(g) /\ job'[i].at = job[i].at
         /\ \A i \in Jobs, t \in Nat, g \in Hosts : g # h /\ Handles(i, g, t) => Handles(i, g, t)'
    BY <1>1, <1>2, <1>8, DisturbedJobs
  <1>12. \A g \in Hosts : HostInv(g)'
    BY <1>1, <1>3, <1>8, HostStays
  <1>13. ASSUME NEW g \in Hosts \ {h} PROVE PastInv(g)' /\ HeardInv(g)'
    <2>1. past'[g] = past[g] /\ Sent(g)' = Sent(g)
      BY <1>6 DEF Sent
    <2> QED BY <1>8, <1>11, <2>1, PastStays, HeardStays
  <1>14. PastInv(h)'
    <2>1. SUFFICES ASSUME h \notin torn', NEW x \in Elems(past'[h])
                   PROVE  /\ x[1] + AlarmWindow < time
                          /\ \A i \in Counting(h)' : x[1] + AlarmWindow < job'[i].at
      BY <1>1 DEF PastInv
    <2>2. past'[h] = Append(past[h], e)
      BY <1>3, <1>5
    <2>3. PICK p \in Seq(Probes) : p = past[h]
      BY <1>3
    <2>4. Elems(Append(p, e)) = Elems(p) \cup {e}
      BY <1>4, <2>3, AppendFacts
    <2>5. CASE x \in Elems(past[h])
      <3>1. x[1] + AlarmWindow < time /\ \A i \in Counting(h) : x[1] + AlarmWindow < job[i].at
        BY <1>7, <2>1, <2>5 DEF AlarmsInv, PastInv
      <3> QED BY <1>11, <3>1
    <2>6. CASE x = e
      <3>1. PICK n \in Nat : n = e[1]
        BY <1>4 DEF Probes
      <3>2. ASSUME NEW i \in Counting(h) PROVE n + AlarmWindow < job[i].at
        <4>1. job[i].at \in Nat
          BY JobOf DEF Counting
        <4>2. ~(n >= job[i].at - AlarmWindow)
          BY <1>7, <2>1, <3>1
        <4> QED BY <4>1, <4>2, AlarmNumbers
      <3>3. n + AlarmWindow < at
        BY <1>1, <1>2, <3>2 DEF Counting
      <3>4. n + AlarmWindow < time
        BY <1>2, <1>3, <3>3, AlarmNumbers
      <3> QED BY <1>11, <2>6, <3>1, <3>2, <3>4
    <2> QED BY <2>1, <2>2, <2>3, <2>4, <2>5, <2>6
  <1>15. HeardInv(h)'
    <2>1. Sent(h)' = Sent(h)
      <3>1. past'[h] = Append(past[h], e) /\ events'[h] = Tail(events[h])
        BY <1>3, <1>5
      <3>2. PICK a \in Seq(Probes), b \in Seq(Probes) : a = past[h] /\ b = events[h] /\ b # <<>>
        BY <1>2, <1>3
      <3>3. Append(a, Head(b)) \o Tail(b) = a \o b
        BY <3>2, HeadMoves
      <3> QED BY <1>4, <3>1, <3>2, <3>3 DEF Sent
    <2>2. ASSUME NEW i \in Jobs, NEW t \in Nat, h \notin torn', Handles(i, h, t) PROVE Handles(i, h, t)'
      <3>1. CASE i = j
        BY <1>9, <2>2, <3>1 DEF Handles, Handled, Measuring
      <3>2. CASE i # j
        <4>1. i \in Jobs \ {j} /\ i \notin Iterating(h)
          BY <1>7, <2>2, <3>2
        <4>2. job'[i] = job[i]
          BY <1>9, <4>1
        <4> QED BY <2>2, <4>2 DEF Handles
      <3> QED BY <3>1, <3>2
    <2> QED BY <1>8, <2>1, <2>2, HeardStays
  <1> QED BY <1>10, <1>11, <1>12, <1>13, <1>14, <1>15 DEF AlarmsInv

LEMMA ClearsKept ==
  ASSUME AlarmsInv, NEW j \in Jobs, Clears(j) PROVE AlarmsInv'
  <1>1. /\ job[j].st = "clear" /\ JobInv(j) /\ Rests(j)
        /\ UNCHANGED <<follows, time, emit, lastAt, bound, alerts, hushed, told, moves, torn>>
    BY DEF Clears, throttleVars, AlarmsInv
  <1>2. PICK h \in Hosts : h = job[j].host
    BY <1>1, JobOf
  <1>3. /\ AlarmsTypeOK /\ follows \in Windowed /\ time \in Nat
        /\ events \in [Hosts -> Seq(Probes)] /\ past \in [Hosts -> Seq(Probes)]
    BY <1>1 DEF AlarmsInv, AlarmsTypeOK, JobInv, Measuring
  <1>4. /\ events' = [events EXCEPT ![h] = <<>>] /\ past' = [past EXCEPT ![h] = <<>>]
        /\ events' \in [Hosts -> Seq(Probes)] /\ past' \in [Hosts -> Seq(Probes)]
    BY <1>2, <1>3 DEF Clears
  <1>5. /\ job' \in [Jobs -> JobRec] /\ \A i \in Jobs \ {j} : job'[i] = job[i]
        /\ job'[j] = Resting
    BY <1>1, RestsFacts
  <1>6. GoesOn
    BY <1>1, <1>3, SameTime DEF GoesOn
  <1>7. AlarmsTypeOK' /\ SilencedWasAlerted'
    BY <1>1, <1>3, <1>4, <1>5 DEF AlarmsInv, AlarmsTypeOK, SilencedWasAlerted
  <1>8. \A i \in Jobs : JobInv(i)'
    BY <1>5, <1>6, JobStays
  <1>9. ASSUME NEW g \in Hosts PROVE HostInv(g)' /\ MovesInv(g)'
    <2>1. \A i \in Jobs : job[i].st = "tell" => job'[i] = job[i]
      BY <1>1, <1>5
    <2> QED BY <1>1, <1>3, <1>6, <2>1, HostStays, MovesStay
  <1>10. ASSUME NEW g \in Hosts \ {h} PROVE PastInv(g)' /\ HeardInv(g)'
    <2>1. past'[g] = past[g] /\ Sent(g)' = Sent(g)
      BY <1>3, <1>4 DEF Sent
    <2>2. \A i \in Counting(g)' : i \in Counting(g) /\ job'[i].at = job[i].at
      BY <1>5 DEF Counting, Resting
    <2>3. \A i \in Jobs, t \in Nat : Handles(i, g, t) => Handles(i, g, t)'
      BY <1>2, <1>5 DEF Handles
    <2> QED BY <1>6, <2>1, <2>2, <2>3, PastStays, HeardStays
  <1>11. PastInv(h)' /\ HeardInv(h)'
    <2>1. events'[h] = <<>> /\ past'[h] = <<>> /\ <<>> \o <<>> = <<>>
      BY <1>3, <1>4
    <2>2. Elems(past'[h]) = {} /\ Elems(Sent(h)') = {}
      BY <2>1, ElemsEmpty DEF Sent
    <2> QED BY <2>2 DEF PastInv, HeardInv
  <1> QED BY <1>7, <1>8, <1>9, <1>10, <1>11 DEF AlarmsInv

\* Time goes on, or nothing happens here.
LEMMA PassesKept ==
  ASSUME AlarmsInv, Passes \/ UNCHANGED alarmVars PROVE AlarmsInv'
  <1>1. /\ time' = time + 1 \/ time' = time
        /\ UNCHANGED <<follows, job, emit, lastAt, events, bound, past, alerts, hushed, told, moves, torn>>
    BY DEF Passes, throttleVars, detectorVars, alarmVars
  <1>2. time \in Nat /\ AlarmsTypeOK
    BY DEF AlarmsInv, AlarmsTypeOK
  <1>3. time' \in Nat /\ time' >= time
    BY <1>1, <1>2
  <1>4. GoesOn
    BY <1>1, <1>3 DEF GoesOn
  <1>5. AlarmsTypeOK' /\ SilencedWasAlerted'
    BY <1>1, <1>2, <1>3 DEF AlarmsInv, AlarmsTypeOK, SilencedWasAlerted
  <1>6. \A i \in Jobs : JobInv(i)'
    BY <1>1, <1>4, JobStays
  <1>7. ASSUME NEW g \in Hosts PROVE HostInv(g)' /\ PastInv(g)' /\ HeardInv(g)' /\ MovesInv(g)'
    <2>1. HostInv(g)'
      BY <1>1, <1>4, HostStays
    <2>2. \A i \in Counting(g)' : i \in Counting(g) /\ job'[i].at = job[i].at
      BY <1>1 DEF Counting
    <2>3. PastInv(g)'
      BY <1>1, <1>4, <2>2, PastStays
    <2>4. Sent(g)' = Sent(g) /\ \A i \in Jobs, t \in Nat : Handles(i, g, t) => Handles(i, g, t)'
      BY <1>1 DEF Sent, Handles
    <2>5. HeardInv(g)'
      BY <1>4, <2>4, HeardStays
    <2>6. MovesInv(g)'
      BY <1>1, <1>4, MovesStay
    <2> QED BY <2>1, <2>3, <2>5, <2>6
  <1> QED BY <1>5, <1>6, <1>7 DEF AlarmsInv

LEMMA AlarmsStart ==
  ASSUME AlarmsInit PROVE AlarmsInv
  <1>1. \A j \in Jobs : job[j] = Resting /\ job[j].st = "idle"
    BY DEF AlarmsInit, Resting
  <1>2. \A h \in Hosts : /\ emit[h] = Never /\ lastAt[h] = Never /\ events[h] = <<>> /\ past[h] = <<>>
                        /\ moves[h] = {}
    BY DEF AlarmsInit
  <1>3. <<>> \in Seq(Probes) /\ <<>> \o <<>> = <<>> /\ Elems(<<>>) = {}
    BY ElemsEmpty
  <1>4. AlarmsTypeOK
    BY <1>3 DEF AlarmsInit, AlarmsTypeOK, JobRec, Stamp
  <1>5. SilencedWasAlerted
    BY DEF AlarmsInit, SilencedWasAlerted
  <1>6. \A j \in Jobs : JobInv(j)
    BY <1>1 DEF JobInv, Measuring
  <1>7. ASSUME NEW h \in Hosts PROVE HostInv(h) /\ PastInv(h) /\ HeardInv(h) /\ MovesInv(h)
    <2>1. Elems(past[h]) = {} /\ Elems(Sent(h)) = {}
      BY <1>2, <1>3 DEF Sent
    <2> QED BY <1>2, <2>1 DEF HostInv, PastInv, HeardInv, MovesInv
  <1> QED BY <1>4, <1>5, <1>6, <1>7 DEF AlarmsInv

\* AlarmsInv is an invariant of the throttle and the detectors.
THEOREM AlarmsInductive == AlarmsSpec => []AlarmsInv
  <1>1. AlarmsInit => AlarmsInv
    BY AlarmsStart
  <1>2. AlarmsInv /\ [AlarmsNext]_alarmVars => AlarmsInv'
    <2>1. SUFFICES ASSUME AlarmsInv, [AlarmsNext]_alarmVars PROVE AlarmsInv'
      OBVIOUS
    <2>2. CASE Passes
      BY <2>1, <2>2, PassesKept
    <2>3. ASSUME NEW j \in Jobs, Evaluates(j) \/ Clocks(j) PROVE AlarmsInv'
      BY <2>1, <2>3, EvaluatesKept, ClocksKept
    <2>4. ASSUME NEW j \in Jobs, Looks(j) \/ Hushes(j) \/ Raises(j) PROVE AlarmsInv'
      BY <2>1, <2>4, ThrottleReads, HushesKept, RaisesKept
    <2>5. ASSUME NEW j \in Jobs, Records(j) \/ Trims(j) \/ Heads(j) PROVE AlarmsInv'
      BY <2>1, <2>5, RecordsKept, TrimsKept, HeadsKept
    <2>6. ASSUME NEW j \in Jobs, PopsLeft(j) PROVE AlarmsInv'
      BY <2>1, <2>6, PopsNothing, PopsLeftKept
    <2>7. ASSUME NEW j \in Jobs, Counts(j) \/ Gathers(j) PROVE AlarmsInv'
      BY <2>1, <2>7, CountsKept
    <2>8. ASSUME NEW j \in Jobs, Clears(j) \/ Recalls(j) \/ Tells(j) PROVE AlarmsInv'
      BY <2>1, <2>8, ClearsKept, RecallsKept, TellsKept
    <2>9. ASSUME NEW j \in Jobs, Watches(j) \/ Binds(j) \/ Rebinds(j) PROVE AlarmsInv'
      BY <2>1, <2>9, WatchesKept, BindsKept, RebindsKept
    <2>10. CASE UNCHANGED alarmVars
      BY <2>1, <2>10, PassesKept
    <2> QED BY <2>1, <2>2, <2>3, <2>4, <2>5, <2>6, <2>7, <2>8, <2>9, <2>10 DEF AlarmsNext
  <1> QED BY <1>1, <1>2, PTL DEF AlarmsSpec

\* The throttle never silences a source whose monitor did not alert less than a window before; and once the
\* packets in hand are evaluated, no source that no two jobs met over has a flood since its detector last fired, or
\* enough ports or events in one window, without an alert, nor any a change of owner that went untold longer than
\* the cooldown (RuleAlertThrottle.partition(), AnomalyEngine.evaluate()).
THEOREM HoldingBackIsSafeCorrect == AlarmsSpec => []HoldingBackIsSafe
  <1>1. AlarmsInv => HoldingBackIsSafe
    <2>1. SUFFICES ASSUME AlarmsInv, \A j \in Jobs : job[j] = Resting
                   PROVE  WindowsAreHeard /\ MovesAreHeard
      BY DEF HoldingBackIsSafe, AlarmsAreHeard, AlarmsInv
    <2>2. \A j \in Jobs : job[j].st = "idle"
      BY <2>1 DEF Resting
    <2>3. WindowsAreHeard
      <3>1. SUFFICES ASSUME NEW h \in Hosts \ torn PROVE HeardOf(h)
        BY DEF WindowsAreHeard
      <3>2. \A t : \A j \in Jobs : ~Handles(j, h, t)
        BY <2>2 DEF Handles, Handled, Measuring
      <3> QED BY <2>1, <3>1, <3>2 DEF AlarmsInv, HeardInv, HeardOf, ToldOf
    <2>4. MovesAreHeard
      BY <2>1, <2>2 DEF AlarmsInv, MovesInv, MovesAreHeard
    <2> QED BY <2>3, <2>4
  <1> QED BY <1>1, AlarmsInductive, PTL
=============================================================================
