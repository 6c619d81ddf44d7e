-------------------------------- MODULE Logs --------------------------------
(***************************************************************************)
(* The log files of one process (log_setup.py): lines go to a file that is *)
(* rotated when it is full, the older files are shifted one number up,     *)
(* and those beyond the number or the age that is kept are removed.  Each  *)
(* rename and each removal is one step: the process may die after any, or  *)
(* one may fail.  The number and the age are settings operators change     *)
(* while the files are in use, and a loop of the process reads again.      *)
(*                                                                         *)
(* A file is [gen, day]: the generation of its lines and the day it was    *)
(* last written.  Size is left out: a file may be found full at any time.  *)
(***************************************************************************)
EXTENDS Integers, FiniteSets, FiniteSetsExt

CONSTANTS
  Backups,        \* numbers of older files that may be asked for
  Ages,           \* ages that may be asked for; 0 keeps files of any age
  MaxGenerations, \* files begun (bound)
  MaxSettings,    \* fields of the settings written (bound)
  MaxBreaks,      \* deaths and failures (bound)
  LastDay         \* (bound)

ASSUME LogsAssumption ==
  /\ Backups \cup Ages \cup {MaxGenerations, MaxSettings, MaxBreaks, LastDay} \subseteq Nat
  /\ IsFiniteSet(Backups) /\ Backups # {}

VARIABLES
  logs,      \* what is in the directory: index -> file; 0 is the one being written
  asked,     \* the settings as they are stored
  inForce,   \* the settings the sink goes by
  sink,      \* what the holder of the sink's lock is doing
  reloading, \* the loop has read the settings and not yet pruned by them
  today, generations, writes, breaks,   \* (bounds)
  owed       \* ghost: generations no setting, age or count has let go of since they were written

logVars == <<logs, asked, inForce, sink, reloading, today, generations, writes, breaks, owed>>

NoFile == [gen |-> 0, day |-> 0]
Indices == 0 .. Max(Backups)
Unlocked == [st |-> "unlocked"]
There(i) == logs[i] # NoFile

LogsInit ==
  /\ logs = [i \in Indices |-> NoFile]
  /\ asked \in [backups : Backups, age : Ages] /\ inForce = asked
  /\ sink = Unlocked /\ reloading = FALSE
  /\ today = 0 /\ generations = 0 /\ writes = 0 /\ breaks = 0
  /\ owed = {}

\* What the settings entitle a file to that `younger` generations have been begun after.
Entitled(younger, day, config, now) == younger <= config.backups /\ (config.age > 0 => now - day <= config.age)

\* The generation the next line goes to.
Writing == IF There(0) THEN generations ELSE generations + 1

\* A generation stays owed while it is in the directory and entitled; the file being written is of any age, and a
\* number that a rotation cut short left without a file counts as one.  A rotation about to begin moves files by one.
StillOwed(files, config, now, move) ==
  {g \in owed : \E i \in Indices : files[i].gen = g /\ (i = 0 \/ Entitled(Max({Writing + move - g, i + move}), files[i].day, config, now))}

-----------------------------------------------------------------------------
(* Settings. *)

\* set_log_config(): checked as a whole, written field by field.
WriteSetting(field, value) ==
  /\ writes < MaxSettings /\ writes' = writes + 1
  /\ asked' = [asked EXCEPT ![field] = value]
  /\ UNCHANGED <<logs, inForce, sink, reloading, today, generations, breaks, owed>>

\* The reload loop: get_log_config() and apply_config(); maintain() takes the lock again.
Reloads ==
  /\ sink = Unlocked /\ ~reloading
  /\ inForce' = asked /\ reloading' = TRUE
  /\ owed' = StillOwed(logs, asked, today, 0)
  /\ UNCHANGED <<logs, asked, sink, today, generations, writes, breaks>>

-----------------------------------------------------------------------------
(* The sink. *)

\* _prune_locked(): which files are to go is told by the settings and the clock.
TooMany(i) == i > inForce.backups
TooOld(i) == inForce.age > 0 /\ today - logs[i].day > inForce.age
Prunable == {i \in Indices \ {0} : There(i) /\ (TooMany(i) \/ TooOld(i))}

Prunes(then) == [st |-> "prune", left |-> Prunable, then |-> then]

Maintains ==
  /\ sink = Unlocked /\ reloading
  /\ sink' = Prunes("unlock") /\ reloading' = FALSE
  /\ UNCHANGED <<logs, asked, inForce, today, generations, writes, breaks, owed>>

\* The glob lists files in any order.
Removes(i) ==
  /\ sink.st = "prune" /\ i \in sink.left
  /\ logs' = [logs EXCEPT ![i] = NoFile]
  /\ sink' = [sink EXCEPT !.left = @ \ {i}]
  /\ UNCHANGED <<asked, inForce, reloading, today, generations, writes, breaks, owed>>

EndsPruning ==
  /\ sink.st = "prune" /\ sink.left = {}
  /\ sink' = IF sink.then = "append" THEN [st |-> "append"] ELSE Unlocked
  /\ UNCHANGED <<logs, asked, inForce, reloading, today, generations, writes, breaks, owed>>

\* MutTarget(n): the files are shifted from the newest up.
MutTarget(n) == n

\* The number the n-th rename of a rotation gives: from the oldest file down.
Target(n) == inForce.backups + 1 - n

\* write(): a full file is rotated first; without backups it is removed.
BeginsRotation ==
  /\ sink = Unlocked /\ There(0) /\ generations < MaxGenerations
  /\ IF inForce.backups = 0
     THEN logs' = [logs EXCEPT ![0] = NoFile] /\ sink' = [st |-> "shifted"]
     ELSE sink' = [st |-> "shift", n |-> 1] /\ UNCHANGED logs
  /\ owed' = StillOwed(logs', inForce, today, 1)
  /\ UNCHANGED <<asked, inForce, reloading, today, generations, writes, breaks>>

\* One rename; a source that is not there is passed over.
Shifts ==
  /\ sink.st = "shift"
  /\ LET to == Target(sink.n)
     IN  logs' = IF There(to - 1) THEN [logs EXCEPT ![to] = logs[to - 1], ![to - 1] = NoFile] ELSE logs
  /\ sink' = IF sink.n = inForce.backups THEN [st |-> "shifted"] ELSE [sink EXCEPT !.n = @ + 1]
  /\ UNCHANGED <<asked, inForce, reloading, today, generations, writes, breaks, owed>>

PrunesAfterwards ==
  /\ sink.st = "shifted"
  /\ sink' = Prunes("append")
  /\ owed' = StillOwed(logs, inForce, today, 0)
  /\ UNCHANGED <<logs, asked, inForce, reloading, today, generations, writes, breaks>>

\* The line goes to the file that is there, or begins a new one.
Appended == IF There(0) THEN [logs EXCEPT ![0].day = today] ELSE [logs EXCEPT ![0] = [gen |-> Writing, day |-> today]]

Appends ==
  /\ \/ sink.st = "append"
     \/ sink = Unlocked /\ (There(0) \/ generations < MaxGenerations)
  /\ generations' = Writing
  /\ logs' = Appended
  /\ owed' = StillOwed(logs', inForce, today, 0) \cup {Writing}
  /\ sink' = Unlocked
  /\ UNCHANGED <<asked, inForce, reloading, today, writes, breaks>>

\* The system refuses a rename or a removal: emit() drops the line, the loop reports it.
Fails ==
  /\ sink.st \in {"shift", "prune"} /\ breaks < MaxBreaks
  /\ breaks' = breaks + 1 /\ sink' = Unlocked
  /\ UNCHANGED <<logs, asked, inForce, reloading, today, generations, writes, owed>>

\* The process dies; the next one begins with the settings as they are stored.
DiesLogging ==
  /\ breaks < MaxBreaks /\ breaks' = breaks + 1
  /\ sink' = Unlocked /\ reloading' = FALSE /\ inForce' = asked
  /\ owed' = StillOwed(logs, asked, today, 0)
  /\ UNCHANGED <<logs, asked, today, generations, writes>>

DayEnds ==
  /\ today < LastDay /\ today' = today + 1
  /\ owed' = StillOwed(logs, inForce, today', 0)
  /\ UNCHANGED <<logs, asked, inForce, sink, reloading, generations, writes, breaks>>

LogsNext ==
  \/ (\E n \in Backups : WriteSetting("backups", n)) \/ (\E n \in Ages : WriteSetting("age", n))
  \/ Reloads \/ Maintains \/ EndsPruning \/ BeginsRotation \/ Shifts \/ PrunesAfterwards \/ Appends
  \/ (\E i \in Indices : Removes(i)) \/ Fails \/ DiesLogging \/ DayEnds

LogsSpec == LogsInit /\ [][LogsNext]_logVars

-----------------------------------------------------------------------------
(* Properties. *)

\* A rotation that shifts, or that is cut short anywhere, never costs a file the settings entitle to stay.
NoLogIsLost == owed \subseteq {logs[i].gen : i \in Indices}

\* Reading the files from the highest number down to the one being written is reading them in the order they were
\* written, through every change of the settings and every rotation cut short.
LogsAreInOrder == \A i, j \in Indices : i < j /\ There(i) /\ There(j) => logs[i].gen > logs[j].gen

\* The log over rotations, settings and crashes.
LogsAreKept == NoLogIsLost /\ LogsAreInOrder
=============================================================================
