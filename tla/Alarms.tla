------------------------------- MODULE Alarms -------------------------------
(***************************************************************************)
(* What a packet's evaluation remembers of the ones before it.  Several    *)
(* pipeline jobs evaluate packets at once and share, without a lock, the   *)
(* throttle of the monitors' alerts and the state of the anomaly           *)
(* detectors: a flood detector (so many events of a source in a window,    *)
(* re-armed when it fires), detectors with a cooldown (so many distinct    *)
(* ports, as for scans, or so many events, as for logins and declared      *)
(* thresholds; at most one alert per window) and the watch over ARP        *)
(* bindings (a change of owner, at most one alert per cooldown).           *)
(*                                                                         *)
(* These share nothing with each other: a behaviour follows one of them.   *)
(* Each access of a job to what it shares with the others is a step, and   *)
(* time.monotonic() goes on between any two.  An exception that the        *)
(* engine swallows ends the evaluation.                                    *)
(***************************************************************************)
EXTENDS Lists, Integers, FiniteSets

CONSTANTS
  Jobs,            \* pipeline threads
  Hosts,           \* source addresses
  ScanPorts,       \* destination ports
  Owners,          \* MAC addresses
  AlarmWindow,     \* the window of the throttle and of the detectors, and the cooldown of the ARP watch
  AlarmThreshold,  \* events, or ports, of one source that are reported
  MaxClock,        \* (bound)
  MaxPackets       \* (bound)

ASSUME AlarmsAssumption ==
  /\ {AlarmWindow, AlarmThreshold} \subseteq Nat \ {0}
  /\ {MaxClock, MaxPackets} \subseteq Nat
  /\ IsFiniteSet(ScanPorts) /\ "" \notin Owners

VARIABLES
  follows,  \* the memory that is followed: "throttle", "flood", "ports", "events" or "arp"
  time,
  job,      \* per thread: how far it is (st), the packet's source (host) and its port or owner (by), the time it
            \* read (at), and whether an alert was too recent (held)
  emit,     \* _last_emit: per source, Never or a time
  events,   \* a detector's events: per source, a deque of <<time, port>>
  lastAt,   \* its last alert, per source
  bound,    \* the ARP watch: the owner of each address
  packets,  \* packets so far
  alerts,   \* ghost: per source, the times its monitor alerted
  hushed,   \* ghost: <<source, time>> of the hits the throttle silenced
  past,     \* ghost: per source, the events a detector dropped since it was last cleared
  told,     \* ghost: per source, the times a detector alerted with
  moves,    \* ghost: per address, the times of its changes of owner
  torn      \* ghost: sources at whose events two jobs got in each other's way

alarmVars == <<follows, time, job, emit, events, lastAt, bound, packets, alerts, hushed, past, told, moves, torn>>
throttleVars == <<emit, alerts, hushed>>
detectorVars == <<events, lastAt, bound, past, told, moves, torn>>

Never == -1
Resting == [st |-> "idle"]
Windowed == {"flood", "ports", "events"}

AlarmsInit ==
  /\ follows \in Windowed \cup {"throttle", "arp"}
  /\ time = 0 /\ packets = 0
  /\ job = [j \in Jobs |-> Resting]
  /\ emit = [h \in Hosts |-> Never] /\ lastAt = [h \in Hosts |-> Never]
  /\ events = [h \in Hosts |-> <<>>] /\ bound = [h \in Hosts |-> ""]
  /\ alerts = [h \in Hosts |-> {}] /\ hushed = {}
  /\ past = [h \in Hosts |-> <<>>] /\ told = [h \in Hosts |-> {}] /\ moves = [h \in Hosts |-> {}]
  /\ torn = {}

Passes ==
  /\ time < MaxClock
  /\ time' = time + 1
  /\ UNCHANGED <<follows, job, packets, throttleVars, detectorVars>>

TooSoon(then, at) == then # Never /\ at - then < AlarmWindow
Goes(j, st) == job' = [job EXCEPT ![j].st = st]
Rests(j) == job' = [job EXCEPT ![j] = Resting]

-----------------------------------------------------------------------------
(* The head of _store_packet(). *)

\* What is neither whitelisted (dropped) nor muted nor excluded (stored as it is) is evaluated: a match is put to
\* the throttle, the detectors see everything.
Evaluates(j) ==
  /\ job[j] = Resting
  /\ packets < MaxPackets /\ packets' = packets + 1
  /\ \E h \in Hosts, by \in (IF follows = "arp" THEN Owners ELSE ScanPorts) :
       job' = [job EXCEPT ![j] = [st |-> IF follows = "arp" THEN "watch" ELSE "clock", host |-> h, by |-> by, at |-> 0,
                                  held |-> FALSE]]
  /\ UNCHANGED <<follows, time, throttleVars, detectorVars>>

\* The clock is read; the ARP watch does so only for a change of owner.
Clocks(j) ==
  /\ job[j].st = "clock"
  /\ job' = [job EXCEPT ![j].at = time,
                        ![j].st = CASE follows = "throttle" -> "look" [] follows = "arp" -> "last" [] OTHER -> "record"]
  /\ UNCHANGED <<follows, time, packets, throttleVars, detectorVars>>

-----------------------------------------------------------------------------
(* RuleAlertThrottle.partition(); how many hits were silenced since, which the next alert reports, decides nothing. *)

Looks(j) ==
  /\ job[j].st = "look"
  /\ Goes(j, IF TooSoon(emit[job[j].host], job[j].at) THEN "hush" ELSE "emit")
  /\ UNCHANGED <<follows, time, packets, throttleVars, detectorVars>>

\* MutHushes(j): the silenced hit restarts the window.
MutHushes(j) ==
  /\ job[j].st = "hush"
  /\ emit' = [emit EXCEPT ![job[j].host] = job[j].at]
  /\ hushed' = hushed \cup {<<job[j].host, job[j].at>>}
  /\ Rests(j)
  /\ UNCHANGED <<follows, time, packets, alerts, detectorVars>>

\* Inside the window the hit is handed back as suppressed.
Hushes(j) ==
  /\ job[j].st = "hush"
  /\ hushed' = hushed \cup {<<job[j].host, job[j].at>>}
  /\ Rests(j)
  /\ UNCHANGED <<follows, time, packets, emit, alerts, detectorVars>>

Raises(j) ==
  /\ job[j].st = "emit"
  /\ emit' = [emit EXCEPT ![job[j].host] = job[j].at]
  /\ alerts' = [alerts EXCEPT ![job[j].host] = @ \cup {job[j].at}]
  /\ Rests(j)
  /\ UNCHANGED <<follows, time, packets, hushed, detectorVars>>

-----------------------------------------------------------------------------
(* The windowed detectors. *)

Iterating(h) == {j \in Jobs : job[j].st = "iterate" /\ job[j].host = h}
Counting(h) == {j \in Jobs : job[j].st \in {"record", "trim", "head", "pop", "count", "iterate"} /\ job[j].host = h}

\* The jobs, when j goes to st and changes the deque: an iteration over it fails.
Disturbed(j, st) ==
  [i \in Jobs |-> IF i = j THEN [job[j] EXCEPT !.st = st]
                  ELSE IF i \in Iterating(job[j].host) THEN Resting ELSE job[i]]

Tears(h, condition) == torn' = IF condition THEN torn \cup {h} ELSE torn

\* What a source sent since its detector was last cleared.
Sent(h) == past[h] \o events[h]

\* The event is appended.  The ghost notes one that comes behind a later one, or into an iteration of another time.
Records(j) ==
  LET h == job[j].host
  IN  /\ job[j].st = "record"
      /\ events' = [events EXCEPT ![h] = Append(@, <<job[j].at, job[j].by>>)]
      /\ job' = Disturbed(j, "trim")
      /\ Tears(h, \/ \E e \in Elems(Sent(h)) : e[1] > job[j].at
                  \/ \E i \in Iterating(h) : job[i].at # job[j].at)
      /\ UNCHANGED <<follows, time, packets, throttleVars, lastAt, bound, past, told, moves>>

\* "while events and events[0] < cutoff": first whether there are any,
Trims(j) ==
  /\ job[j].st = "trim"
  /\ Goes(j, IF events[job[j].host] = <<>> THEN "count" ELSE "head")
  /\ UNCHANGED <<follows, time, packets, throttleVars, detectorVars>>

\* then the head, which another job may have taken (IndexError),
Heads(j) ==
  LET h == job[j].host
  IN  /\ job[j].st = "head"
      /\ IF events[h] = <<>> THEN Rests(j)
         ELSE Goes(j, IF events[h][1][1] < job[j].at - AlarmWindow THEN "pop" ELSE "count")
      /\ UNCHANGED <<follows, time, packets, throttleVars, detectorVars>>

\* and popleft(): by now the head may be another event, or none (IndexError).  The ghost notes one that a job still
\* has to count, and an iteration that fails.
PopsLeft(j) ==
  LET h == job[j].host
  IN  /\ job[j].st = "pop"
      /\ IF events[h] = <<>> THEN Rests(j) /\ UNCHANGED <<events, past, torn>>
         ELSE /\ events' = [events EXCEPT ![h] = Tail(@)]
              /\ past' = [past EXCEPT ![h] = Append(@, events[h][1])]
              /\ job' = Disturbed(j, "trim")
              /\ Tears(h, \/ \E i \in Counting(h) : events[h][1][1] >= job[i].at - AlarmWindow
                          \/ Iterating(h) # {})
      /\ UNCHANGED <<follows, time, packets, throttleVars, lastAt, bound, told, moves>>

\* What a detector counts of some events.
Measure(evs) == IF follows = "ports" THEN Cardinality({e[2] : e \in Elems(evs)}) ELSE Len(evs)
Many(evs) == Measure(evs) >= AlarmThreshold

\* The length is taken at once; the ports are gathered in an iteration, which takes time.
Counts(j) ==
  /\ job[j].st = "count"
  /\ IF follows = "ports" THEN Goes(j, "iterate")
     ELSE IF Many(events[job[j].host]) THEN Goes(j, IF follows = "flood" THEN "clear" ELSE "last") ELSE Rests(j)
  /\ UNCHANGED <<follows, time, packets, throttleVars, detectorVars>>

Gathers(j) ==
  /\ job[j].st = "iterate"
  /\ IF Many(events[job[j].host]) THEN Goes(j, "last") ELSE Rests(j)
  /\ UNCHANGED <<follows, time, packets, throttleVars, detectorVars>>

\* A flood is told, and its detector re-armed.
Clears(j) ==
  LET h == job[j].host
  IN  /\ job[j].st = "clear"
      /\ events' = [events EXCEPT ![h] = <<>>] /\ past' = [past EXCEPT ![h] = <<>>]
      /\ Rests(j)
      /\ UNCHANGED <<follows, time, packets, throttleVars, lastAt, bound, told, moves, torn>>

-----------------------------------------------------------------------------
(* The cooldowns, and ArpSpoofDetector.evaluate(). *)

\* The last alert is read; the ARP watch has the owner to write first.
Recalls(j) ==
  LET held == TooSoon(lastAt[job[j].host], job[j].at)
  IN  /\ job[j].st = "last"
      /\ IF follows = "arp" THEN job' = [job EXCEPT ![j].st = "rebind", ![j].held = held]
         ELSE IF held THEN Rests(j) ELSE Goes(j, "tell")
      /\ UNCHANGED <<follows, time, packets, throttleVars, detectorVars>>

Tells(j) ==
  LET h == job[j].host
  IN  /\ job[j].st = "tell"
      /\ lastAt' = [lastAt EXCEPT ![h] = job[j].at]
      /\ told' = [told EXCEPT ![h] = @ \cup {job[j].at}]
      /\ Rests(j)
      /\ UNCHANGED <<follows, time, packets, throttleVars, events, bound, past, moves, torn>>

\* The owner that is known is read: none, this one, or another.
Watches(j) ==
  LET known == bound[job[j].host]
  IN  /\ job[j].st = "watch"
      /\ IF known = job[j].by THEN Rests(j) ELSE Goes(j, IF known = "" THEN "bind" ELSE "clock")
      /\ UNCHANGED <<follows, time, packets, throttleVars, detectorVars>>

\* The first owner is not told, though another job may have written one by now.
Binds(j) ==
  /\ job[j].st = "bind"
  /\ bound' = [bound EXCEPT ![job[j].host] = job[j].by]
  /\ Rests(j)
  /\ UNCHANGED <<follows, time, packets, throttleVars, events, lastAt, past, told, moves, torn>>

\* A new owner is remembered also when it is not told.
Rebinds(j) ==
  LET h == job[j].host
  IN  /\ job[j].st = "rebind"
      /\ bound' = [bound EXCEPT ![h] = job[j].by]
      /\ moves' = [moves EXCEPT ![h] = IF bound[h] = job[j].by THEN @ ELSE @ \cup {job[j].at}]
      /\ IF job[j].held THEN Rests(j) ELSE Goes(j, "tell")
      /\ UNCHANGED <<follows, time, packets, throttleVars, events, lastAt, past, told, torn>>

AlarmsNext ==
  \/ Passes
  \/ \E j \in Jobs : \/ Evaluates(j) \/ Clocks(j)
                     \/ Looks(j) \/ Hushes(j) \/ Raises(j)
                     \/ Records(j) \/ Trims(j) \/ Heads(j) \/ PopsLeft(j) \/ Counts(j) \/ Gathers(j) \/ Clears(j)
                     \/ Recalls(j) \/ Tells(j) \/ Watches(j) \/ Binds(j) \/ Rebinds(j)

AlarmsSpec == AlarmsInit /\ [][AlarmsNext]_alarmVars

-----------------------------------------------------------------------------
(* Properties. *)

\* A hit is only silenced when the same monitor alerted for the same source less than a window before: however
\* long the traffic goes on and however the jobs interleave, the throttle never silences a source for good.
SilencedWasAlerted ==
  \A x \in hushed : \E t \in alerts[x[1]] : x[2] - t < AlarmWindow

\* The events of a source in the window that ends at t.
Span(t) == {e \in Nat \X ScanPorts : e[1] \in (t - AlarmWindow)..t}
Seen(h, t) == Kept(Sent(h), Span(t))

\* Once the packets in hand are evaluated, no source has sent a flood since its detector last fired that was not
\* reported, and none has enough ports or events in one window without an alert in it or just before.
HeardOf(h) ==
  \A t \in {e[1] : e \in Elems(Sent(h))} :
    Many(Seen(h, t)) => follows # "flood" /\ \E a \in told[h] : a > t - AlarmWindow

\* Except for sources at whose events two jobs got in each other's way: one took what the other had to count,
\* or the clock moved between the readings of two jobs that met there.
WindowsAreHeard == \A h \in Hosts \ torn : HeardOf(h)

\* Every change of owner that a job made who knew the former one was told, or followed one told less than a
\* cooldown before.
MovesAreHeard == \A h \in Hosts : \A m \in moves[h] : \E a \in told[h] : m - a < AlarmWindow

AlarmsAreHeard == (\A j \in Jobs : job[j] = Resting) => WindowsAreHeard /\ MovesAreHeard

\* RuleAlertThrottle.partition(), AnomalyEngine.evaluate(): whatever the jobs do at once, holding alarms back
\* neither silences a source that was not reported nor hides what should be.
HoldingBackIsSafe == SilencedWasAlerted /\ AlarmsAreHeard

\* Do not hold: jobs that meet do lose a flood or a scan, and two that both find no owner lose a change.
NothingIsMissed == (\A j \in Jobs : job[j] = Resting) => \A h \in Hosts : HeardOf(h)
EveryMoveIsKnown == \A j \in Jobs : job[j].st = "bind" => bound[job[j].host] \in {"", job[j].by}
=============================================================================
