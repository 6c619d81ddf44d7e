------------------------------ MODULE MCStore ------------------------------
(***************************************************************************)
(* What the program keeps in its database: the history of names and        *)
(* addresses, the catalog of monitors with the view the sniffer has of it, *)
(* and the packets under retention.  They share no state: each behaviour   *)
(* explores one of them.  The catalog is explored twice: without the       *)
(* sniffer, whose clock then matters to nobody, and with it, under fewer   *)
(* changes.                                                                *)
(***************************************************************************)
EXTENDS History, Catalog, Retention

VARIABLE part

\* The changes the sniffer's view is explored with: up to two, one request each, to a monitor
\* that looks for a literal and one that looks for a port.
ViewChanges ==
  /\ edits < 2
  /\ \/ \E id \in CustomIds, def \in Defs : def.contains = {} /\ SaveMonitor(id, "custom", def, TRUE)
     \/ \E id \in CustomIds : DeleteMonitor(id)
     \/ \E id \in BuiltinIds, on \in BOOLEAN : ToggleMonitor(id, on)

Init ==
  /\ part \in {"history", "catalog", "view", "retention"}
  /\ HistoryInit /\ CatalogInit /\ RetentionInit
  /\ part \notin {"catalog", "view"} => monitors = Nothing
  /\ part # "catalog" => flag
  /\ part = "view" => DOMAIN monitors = BuiltinIds /\ \A id \in BuiltinIds : monitors[id].on /\ monitors[id].def.port = 0

Next ==
  /\ UNCHANGED part
  /\ part # "history" => UNCHANGED historyVars
  /\ part \notin {"catalog", "view"} => UNCHANGED catalogVars
  /\ part # "retention" => UNCHANGED retentionVars
  /\ \/ part = "history" /\ HistoryNext
     \/ part = "catalog" /\ (Edits \/ Starts)
     \/ part = "view" /\ (ViewChanges \/ SecondPasses \/ Refreshes)
     \/ part = "retention" /\ RetentionNext

Spec == Init /\ [][Next]_<<historyVars, catalogVars, retentionVars, part>>
=============================================================================
