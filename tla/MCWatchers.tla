----------------------------- MODULE MCWatchers -----------------------------
(***************************************************************************)
(* What a process keeps beside its packets: the supervisor, which may      *)
(* replace the capture process so often in a sliding window; the detectors *)
(* and their throttle, which alert so often; and on disk its keys and its  *)
(* logs.  They share no state: each behaviour explores one of them.        *)
(***************************************************************************)
EXTENDS Supervisor, Alarms, Certificates, Logs

VARIABLE part

Init ==
  /\ part \in {"supervisor", "alarms", "certificates", "logs"}
  /\ SupervisorInit /\ AlarmsInit /\ CertificatesInit /\ LogsInit
  /\ part # "alarms" => follows = "throttle"
  /\ part # "certificates" => family = "runtime"
  /\ part # "logs" => inForce = CHOOSE config \in [backups : Backups, age : Ages] : TRUE

Next ==
  /\ UNCHANGED part
  /\ part # "supervisor" => UNCHANGED supervisorVars
  /\ part # "alarms" => UNCHANGED alarmVars
  /\ part # "certificates" => UNCHANGED certVars /\ family = "runtime"
  /\ part # "logs" => UNCHANGED logVars
  /\ \/ part = "supervisor" /\ SupervisorNext
     \/ part = "alarms" /\ AlarmsNext
     \/ part = "certificates" /\ CertificatesNext
     \/ part = "logs" /\ LogsNext

Spec == Init /\ [][Next]_<<supervisorVars, alarmVars, certVars, logVars, part>>
=============================================================================
