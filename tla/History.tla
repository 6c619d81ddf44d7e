------------------------------- MODULE History -------------------------------
(***************************************************************************)
(* The DNS and ARP history: the recorder, which every capture thread calls *)
(* and which aggregates in memory, its flushes (the background thread's    *)
(* and the stopping sniffer's, one at a time), the tables it merges into,  *)
(* their retention, and the restart of the process, which loses the memory *)
(* and keeps the tables.                                                   *)
(*                                                                         *)
(* A DNS observation is its key (domain, type, answer); an ARP one is a    *)
(* pair <<ip, mac>> and whether the frame's sender was another address.    *)
(* Of a row only its count and when it was last seen are kept.             *)
(***************************************************************************)
EXTENDS Lists, Integers, FiniteSets

CONSTANTS
  Names,        \* keys of DNS observations
  Ips, Macs,    \* addresses
  MaxPending,   \* max_pending: rows of one kind waiting in memory
  KeepFactor,   \* how many times max_pending survives a flush that failed
  StateLimit,   \* ARP_STATE_LIMIT
  MaxRows,      \* the row caps of the configuration
  MaxSeen,      \* observations (bound)
  MaxTrouble    \* failures, restarts, deletions and changes of configuration (bound)

ASSUME HistoryAssumption ==
  /\ {MaxPending, KeepFactor, StateLimit, MaxRows} \subseteq Nat \ {0}
  /\ {MaxSeen, MaxTrouble} \subseteq Nat
  /\ "" \notin Macs

VARIABLES
  settings,   \* the stored configuration: the kinds recorded
  applied,    \* the configuration the recorder last read
  memory,     \* [ready, pairs, owner]: the recorder's ARP memory
  quiet,      \* pairs whose mismatch was reported within the interval
  pending,    \* [dns, arp, ev]: what the recorder has aggregated
  retry,      \* [dns, arp, ev]: what the last flush failed to write
  flight,     \* what the running flush is writing; <<>> when none runs
  tables,     \* [dns, arp, ev]: the database
  seen,       \* observations so far, also the clock
  trouble,    \* see MaxTrouble
  told,       \* ghost: per name, the observations the recorder took
  gone,       \* ghost: per name, the observations over a bound, deleted, pruned or lost with the process
  forgot,     \* ghost: pairs whose record went the same ways
  unread      \* ghost: pairs on record that the recorder did not load

historyVars ==
  <<settings, applied, memory, quiet, pending, retry, flight, tables, seen, trouble, told, gone, forgot, unread>>

Pairs == Ips \X Macs
Kinds == {"dns", "arp"}
NoRows == [dns |-> <<>>, arp |-> <<>>, ev |-> <<>>]
NoMemory == [ready |-> FALSE, pairs |-> {}, owner |-> [i \in Ips |-> ""]]

\* The columns the properties tell apart, of the three tables and of the rows aggregated for them.
HistoryInit ==
  /\ settings = Kinds /\ applied = Kinds
  /\ memory = NoMemory /\ quiet = {}
  /\ pending = NoRows /\ retry = NoRows /\ flight = <<>> /\ tables = NoRows
  /\ seen = 0 /\ trouble = 0
  /\ told = [n \in Names |-> 0] /\ gone = [n \in Names |-> 0] /\ forgot = {} /\ unread = {}

-----------------------------------------------------------------------------
(* Rows. *)

Keys(rows) == {rows[i].k : i \in DOMAIN rows}

\* Adds a row to those of its kind: what is counted under its key already grows, its last_seen moves.
Merge(rows, row) ==
  IF row.k \in Keys(rows)
  THEN [i \in DOMAIN rows |-> IF rows[i].k # row.k THEN rows[i]
          ELSE [k |-> row.k, n |-> rows[i].n + row.n, at |-> IF row.at > rows[i].at THEN row.at ELSE rows[i].at]]
  ELSE Append(rows, row)

\* The rows of new, one after the other.
Merged(rows, new) ==
  LET merged[n \in 0..Len(new)] == IF n = 0 THEN rows ELSE Merge(merged[n - 1], new[n])
  IN  merged[Len(new)]

\* write_history(): one transaction merges each row into its table and appends the events.
Written(t, b) == [dns |-> Merged(t.dns, b.dns), arp |-> Merged(t.arp, b.arp), ev |-> t.ev \o b.ev]

Lasts(s, n) == IF Len(s) <= n THEN s ELSE Drop(s, Len(s) - n)

\* What the rows count of a key.
Tally(rows, key) ==
  LET tally[n \in 0..Len(rows)] ==
        IF n = 0 THEN 0 ELSE tally[n - 1] + IF rows[n].k = key THEN rows[n].n ELSE 0
  IN  tally[Len(rows)]

\* ORDER BY last_seen, id
Before(rows, i, k) == rows[i].at < rows[k].at \/ (rows[i].at = rows[k].at /\ i < k)

\* A dictionary of pending rows takes no further key.
Full(rows, key) == key \notin Keys(rows) /\ Len(rows) >= MaxPending

-----------------------------------------------------------------------------
(* What a capture thread records. *)

Refreshed == applied' \in {applied, settings}

\* _add_dns(): a key beyond the bound is dropped and counted.
ObserveDns(name) ==
  /\ told' = [told EXCEPT ![name] = @ + 1]
  /\ IF Full(pending.dns, name)
     THEN gone' = [gone EXCEPT ![name] = @ + 1] /\ UNCHANGED pending
     ELSE pending' = [pending EXCEPT !.dns = Merge(@, [k |-> name, n |-> 1, at |-> seen'])] /\ UNCHANGED gone
  /\ UNCHANGED <<memory, quiet, unread>>

\* _load_arp_state(): the bindings on record, once, oldest first; the last one of an address is its owner.
\* A read that fails leaves the memory empty for good.
Loaded ==
  LET rows == tables.arp
      kept == {i \in DOMAIN rows : Cardinality({k \in DOMAIN rows : Before(rows, k, i)}) < StateLimit}
  IN  [ready |-> TRUE,
       pairs |-> {rows[i].k : i \in kept},
       owner |-> [ip \in Ips |->
         LET of == {i \in kept : rows[i].k[1] = ip}
         IN  IF of = {} THEN "" ELSE rows[CHOOSE i \in of : \A k \in of \ {i} : Before(rows, k, i)].k[2]]]

LoadsTo == IF memory.ready THEN {memory} ELSE {Loaded, [NoMemory EXCEPT !.ready = TRUE]}

\* _add_arp(): the events a claim makes, given what the recorder remembers.
If(b, kind, pair) == IF b THEN <<[kind |-> kind, pair |-> pair, at |-> seen']>> ELSE <<>>

Events(m, pair, mismatch) ==
  LET ips == {p \in m.pairs : p[2] = pair[2]}
      was == m.owner[pair[1]]
  IN  If(ips = {}, "new_device", pair) \o If(ips # {} /\ pair \notin ips, "mac_new_ip", pair)
        \o If(was # "" /\ was # pair[2], "ip_mac_changed", pair)
        \o If(mismatch /\ pair \notin quiet, "mac_mismatch", pair)

\* _event(): one beyond the bound is dropped.
Queued(ev, new) ==
  LET room == MaxPending - Len(ev) IN ev \o (IF Len(new) <= room THEN new ELSE SubSeq(new, 1, room))

\* _add_arp(): a binding beyond the bound is dropped before anything is remembered of it.
ObserveArp(pair, mismatch) ==
  \E m \in LoadsTo :
    LET said == mismatch /\ pair \notin quiet
    IN  /\ unread' = unread \cup (IF memory.ready THEN {} ELSE Keys(tables.arp) \ m.pairs)
        /\ IF Full(pending.arp, pair)
           THEN memory' = m /\ UNCHANGED <<pending, quiet>>
           ELSE /\ pending' = [pending EXCEPT
                     !.arp = Merge(@, [k |-> pair, n |-> 1, at |-> seen']), !.ev = Queued(@, Events(m, pair, mismatch))]
                /\ memory' = [m EXCEPT !.pairs = @ \cup {pair}, !.owner[pair[1]] = pair[2]]
                /\ quiet' = IF said
                            THEN IF Cardinality(quiet) >= MaxPending THEN {} ELSE quiet \cup {pair}
                            ELSE quiet
        /\ UNCHANGED <<told, gone>>

\* observe(): nothing is recorded of a kind that is switched off in the configuration the recorder holds.
Observe ==
  /\ seen < MaxSeen
  /\ seen' = seen + 1
  /\ Refreshed
  /\ \/ "dns" \in applied' /\ \E n \in Names : ObserveDns(n)
     \/ "arp" \in applied' /\ \E p \in Pairs, mismatch \in BOOLEAN : ObserveArp(p, mismatch)
     \/ applied' # Kinds /\ UNCHANGED <<memory, quiet, pending, told, gone, unread>>
  /\ UNCHANGED <<settings, retry, flight, tables, trouble, forgot>>

\* A mismatch is reported again after MISMATCH_EVENT_INTERVAL_SECONDS.
IntervalPasses ==
  /\ quiet # {}
  /\ \E p \in quiet : quiet' = quiet \ {p}
  /\ UNCHANGED <<settings, applied, memory, pending, retry, flight, tables, seen, trouble, told, gone, forgot, unread>>

-----------------------------------------------------------------------------
(* Flushes. *)

\* flush(): what failed before goes first; the memory is free for new observations while this is written.
FlushStarts ==
  LET b == [dns |-> retry.dns \o pending.dns, arp |-> retry.arp \o pending.arp,
            ev |-> retry.ev \o pending.ev]
  IN  /\ flight = <<>>
      /\ b # NoRows
      /\ flight' = <<b>> /\ pending' = NoRows /\ retry' = NoRows
      /\ UNCHANGED <<settings, applied, memory, quiet, tables, seen, trouble, told, gone, forgot, unread>>

FlushWrites ==
  /\ flight # <<>>
  /\ tables' = Written(tables, flight[1])
  /\ flight' = <<>>
  /\ UNCHANGED <<settings, applied, memory, quiet, pending, retry, seen, trouble, told, gone, forgot, unread>>

\* What the running flush has of each kind.
Flying == IF flight = <<>> THEN NoRows ELSE flight[1]

Trouble == trouble < MaxTrouble /\ trouble' = trouble + 1

\* MutRetained(b): a flush that fails keeps its events and no bindings.
MutRetained(b) ==
  LET n == MaxPending * KeepFactor IN [dns |-> Lasts(b.dns, n), arp |-> <<>>, ev |-> Lasts(b.ev, n)]

\* What a failed flush keeps: the newest of each list.
Retained(b) ==
  LET n == MaxPending * KeepFactor
  IN  [dns |-> Lasts(b.dns, n), arp |-> Lasts(b.arp, n), ev |-> Lasts(b.ev, n)]

FlushFails ==
  /\ Trouble
  /\ flight # <<>>
  /\ retry' = Retained(flight[1])
  /\ flight' = <<>>
  /\ gone' = [n \in Names |-> gone[n] + Tally(flight[1].dns, n)
                                - Tally(Lasts(flight[1].dns, MaxPending * KeepFactor), n)]
  /\ LET lost == Len(flight[1].arp) - MaxPending * KeepFactor
     IN  forgot' = forgot \cup {flight[1].arp[i].k : i \in 1..lost}
  /\ UNCHANGED <<settings, applied, memory, quiet, pending, tables, seen, told, unread>>

-----------------------------------------------------------------------------
(* Retention, the interface of the application, restarts. *)

Since(rows, cutoff) == Kept(rows, {r \in Elems(rows) : r.at >= cutoff})

\* The rows of a table a prune with this cutoff leaves: none older, and over the cap none of the oldest.
Pruned(rows, cutoff) ==
  LET young == Since(rows, cutoff)
      later(i) == {k \in DOMAIN young : Before(young, i, k)}
  IN  Kept(young, {young[i] : i \in {i \in DOMAIN young : Cardinality(later(i)) < MaxRows}})

\* The tables keep these rows.
Keeps(dns, arp, ev) ==
  /\ tables' = [dns |-> dns, arp |-> arp, ev |-> ev]
  /\ gone' = [n \in Names |-> gone[n] + Tally(tables.dns, n) - Tally(dns, n)]
  /\ forgot' = forgot \cup (Keys(tables.arp) \ Keys(arp))
  /\ UNCHANGED <<settings, applied, memory, quiet, pending, retry, flight, seen, told, unread>>

\* prune_history(), by the recorder's thread and by the retention sweep.
Prune ==
  /\ Trouble
  /\ \E cutoff \in 0..seen :
       Keeps(Pruned(tables.dns, cutoff), Pruned(tables.arp, cutoff), Lasts(Since(tables.ev, cutoff), MaxRows))

\* clear_history(): the recorder's memory keeps the pairs.
Clear(scope) ==
  /\ Trouble
  /\ Keeps(IF "dns" \in scope THEN <<>> ELSE tables.dns,
           IF "arp" \in scope THEN <<>> ELSE tables.arp,
           IF "arp" \in scope THEN <<>> ELSE tables.ev)

\* set_history_config(): stored at once, read by the recorder within CONFIG_REFRESH_SECONDS.
SetHistoryConfig ==
  /\ Trouble
  /\ settings' \in (SUBSET Kinds) \ {settings}
  /\ UNCHANGED <<applied, memory, quiet, pending, retry, flight, tables, seen, told, gone, forgot, unread>>

\* The process ends, as close() leaves it or in a crash, and another one starts.
Restart ==
  /\ Trouble
  /\ gone' = [n \in Names |-> gone[n] + Tally(Flying.dns, n) + Tally(retry.dns, n) + Tally(pending.dns, n)]
  /\ memory' = NoMemory /\ quiet' = {} /\ pending' = NoRows /\ retry' = NoRows /\ flight' = <<>>
  /\ applied' = settings
  /\ UNCHANGED <<settings, tables, seen, told, forgot, unread>>

HistoryNext ==
  \/ Observe \/ IntervalPasses
  \/ FlushStarts \/ FlushWrites \/ FlushFails
  \/ Prune \/ (\E scope \in {{"dns"}, {"arp"}, Kinds} : Clear(scope))
  \/ SetHistoryConfig \/ Restart

HistorySpec == HistoryInit /\ [][HistoryNext]_historyVars

-----------------------------------------------------------------------------
(* Properties. *)

Everywhere == tables.ev \o Flying.ev \o retry.ev \o pending.ev
News(p) == [kind : {"new_device", "mac_new_ip"}, pair : {p}, at : Nat]

\* A binding is announced as new (new_device, mac_new_ip) at most once, over failed flushes and restarts, as
\* long as its record is not given up or deleted and was read at the start.  It needs the binding and its
\* announcement to be written, kept for a retry or lost together.
AnnouncedOnce == \A p \in Pairs \ (forgot \cup unread) : Len(Kept(Everywhere, News(p))) <= 1

\* Does not hold, against _load_arp_state ("a restart does not report every known device as new"): of the bindings
\* on record the ARP_STATE_LIMIT latest are read, and none when the one attempt to read them fails.
RestartKnowsAll == \A p \in Pairs \ forgot : Len(Kept(Everywhere, News(p))) <= 1

\* An observation that was taken is in the table, in a flush, kept for a retry or pending, once; it leaves them only
\* over the bound on pending keys, as one of the oldest a failed flush has no room to keep (which the recorder does
\* not count as dropped), by a deletion or a prune, or with the process.
HistoryAddsUp ==
  \A n \in Names :
    told[n] = gone[n] + Tally(tables.dns, n) + Tally(Flying.dns, n) + Tally(retry.dns, n) + Tally(pending.dns, n)

\* HistoryRecorder: over failed flushes, overflows, restarts and an operator's deletions nothing observed is told
\* twice, counted twice or lost on another way than these.
HistoryIsTrue == AnnouncedOnce /\ HistoryAddsUp
=============================================================================
