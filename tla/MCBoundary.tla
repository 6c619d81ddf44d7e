----------------------------- MODULE MCBoundary -----------------------------
(***************************************************************************)
(* What reaches the system from outside: bytes that are read (MCWire) and  *)
(* searched, requests that are let in or turned away, phones that pair and *)
(* listen.  They share no state: each behaviour explores one of them.      *)
(***************************************************************************)
EXTENDS MCWire, Search, Access, MobileStream, TLC

VARIABLE part

boundaryVars == <<probe, searchVars, accessVars, mobileVars>>

Init ==
  /\ part \in {"wire", "search", "guard", "phones"}
  /\ IF part = "wire" THEN WireInit ELSE probe = [kind |-> "none"]
  /\ SearchInit /\ AccessInit /\ MobileInit
  /\ part # "search" => patterns = {}

Next ==
  /\ UNCHANGED part
  /\ \/ part = "wire" /\ WireNext /\ UNCHANGED <<searchVars, accessVars, mobileVars>>
     \/ part = "search" /\ SearchNext /\ UNCHANGED <<probe, accessVars, mobileVars>>
     \/ part = "guard" /\ AccessNext /\ UNCHANGED <<probe, searchVars, mobileVars>>
     \/ part = "phones" /\ MobileNext /\ UNCHANGED <<probe, searchVars, accessVars>>

Spec == Init /\ [][Next]_<<boundaryVars, part>>

\* Phones, operators, interfaces, sources and request threads are interchangeable.
Symmetry ==
  Permutations(Devices) \cup Permutations(Operators) \cup Permutations(Interfaces)
    \cup Permutations(Sources) \cup Permutations(Requests)
=============================================================================
