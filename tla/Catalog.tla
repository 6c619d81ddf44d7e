------------------------------- MODULE Catalog -------------------------------
(***************************************************************************)
(* The catalog of monitors: what operators do to it, the blacklist, whose  *)
(* entries are mirrored into it, what every process that opens the         *)
(* database does to a release's own monitors, and the view of it the       *)
(* sniffer evaluates packets with: a list it reloads when the catalog's    *)
(* stamp moves, and an index that narrows the list for each packet and is  *)
(* finished by a thread of its own.                                        *)
(*                                                                         *)
(* Each commit is one step.  A monitor is [src, def, on, at]: its def says *)
(* which literal it needs (contains) or which port; at is the second it    *)
(* was last written with.  A packet is the literals in its text and its    *)
(* port.                                                                   *)
(***************************************************************************)
EXTENDS Integers, FiniteSets, FiniteSetsExt

CONSTANTS
  Operators,    \* threads serving requests that take more than one commit
  Starters,     \* processes opening the database
  Refreshers,   \* threads reloading the list
  BuiltinIds,   \* monitors a release may ship
  CustomIds,    \* monitors operators write
  EntryIds,     \* ids of blacklist entries
  Literals,     \* what monitors look for
  MaxChanges,   \* changes by operators and starts of a process, together (bound)
  MaxSeeds,     \* starts of a process (bound)
  MaxLoads,     \* lists the sniffer loads (bound)
  MaxSecond     \* (bound)

\* An entry's id is drawn ("blacklist-", its category, a uuid) and taken for one that no release ships and no
\* operator writes a monitor by.
ASSUME CatalogAssumption ==
  /\ {MaxChanges, MaxSeeds, MaxLoads, MaxSecond} \subseteq Nat
  /\ IsFiniteSet(BuiltinIds) /\ EntryIds \cap (BuiltinIds \cup CustomIds) = {}

VARIABLES
  monitors,  \* the monitors table
  entries,   \* the blacklist_entries table: id -> enabled
  flag,      \* runtime_config has builtin_monitor_defaults_reset_v2
  call,      \* per operator: the blacklist call it is in (alone: ghost, no other was in its entry since it began)
  starting,  \* per starter: how far it is (pc), its release, the monitors it read (then)
  second,    \* the wall clock
  sniffer,   \* the list it evaluates with (rows; n: the n-th loaded), the stamp it goes by, begun: a refresh has,
             \* inflight: _monitor_refresh_in_flight; ghosts: torn, the list is not of the stamp; lost, the stamp is
             \* of a list that was dropped; mixed, the stamp and the list may be two refreshes'
  refresh,   \* per refresher: pc, the stamp it read, its list (next, n)
  index,     \* [sig, ref, content]: the module's index, its list and its automaton
  building,  \* signatures whose automaton is being built
  edits, seeds, loads,   \* (bounds)
  choice,    \* ghost: id -> how an operator last set a shipped monitor
  overrun,   \* ghost: those a second reset has set since
  mine,      \* ghost: id -> the monitor an operator last wrote
  reset,     \* ghost: the shipped monitors were reset to a release's defaults
  doubled,   \* ghost: two starters were between reading the flag and setting it, or one ended between the two writes
  apart,     \* ghost: entries whose last call failed half way or met another one
  wrote,     \* ghost: the latest second a change was written with
  blurred    \* ghost: since the list was loaded a change had no later second than those before, or a deletion put
             \* a stamp back

startVars == <<flag, starting, reset, doubled, seeds>>
ghosts == <<choice, overrun, mine>>
clockVars == <<wrote, blurred>>
sniffVars == <<sniffer, refresh, index, building, loads>>
catalogVars ==
  <<monitors, entries, call, startVars, second, sniffVars, edits, ghosts, apart, clockVars>>

Nothing == [k \in {} |-> 0]
Set(f, k, v) == [x \in DOMAIN f \cup {k} |-> IF x = k THEN v ELSE f[x]]
Omit(f, ks) == [x \in DOMAIN f \ ks |-> f[x]]

\* normalize_match(): what a rule asks of a packet; a list left empty asks nothing.
Criteria == [contains : SUBSET Literals, port : {0, 1}]

\* normalize_monitor(): a monitor must ask something.
Defs == {match \in Criteria : match.contains # {} \/ match.port # 0}
Listed == [contains |-> {}, port |-> 0]   \* a mirror's: neither
Packets == [text : SUBSET Literals, port : 0..2]

Ids == BuiltinIds \cup CustomIds \cup EntryIds

\* A release: the monitors it ships, each with its definition and its default; each asks one thing
\* (bound).
Releases ==
  LET Shipped == {def \in Defs : def.contains = {} \/ def.port = 0}
  IN  UNION {[S -> [def : Shipped, on : BOOLEAN]] : S \in SUBSET BuiltinIds}

\* The first start on a database, before anything is served: the release's monitors with its defaults.  What every
\* release ships is left out, so an empty table stands for one that has only that.  A database that was seeded before
\* the reset shipped has no flag yet.
CatalogInit ==
  /\ \E release \in Releases :
       monitors = [id \in DOMAIN release |-> [src |-> "builtin", def |-> release[id].def, on |-> release[id].on, at |-> 0]]
  /\ entries = Nothing
  /\ flag \in BOOLEAN /\ reset = flag /\ doubled = FALSE
  /\ call = [o \in Operators |-> [st |-> "idle"]]
  /\ starting = [s \in Starters |-> [pc |-> "idle"]]
  /\ second = 0
  /\ sniffer = [rows |-> Nothing, n |-> 0, stamp |-> <<>>, begun |-> FALSE, inflight |-> FALSE,
                torn |-> FALSE, lost |-> FALSE, mixed |-> FALSE]
  /\ refresh = [r \in Refreshers |-> [pc |-> "idle"]]
  /\ index = [sig |-> <<>>, ref |-> 0, content |-> <<>>]
  /\ building = {}
  /\ edits = 0 /\ seeds = 0 /\ loads = 0
  /\ choice = Nothing /\ overrun = {} /\ mine = Nothing /\ apart = {} /\ wrote = 0 /\ blurred = FALSE

Change == edits + seeds < MaxChanges

\* utc_now(), read before the lock is taken and the database waited for: some second up to now.
Waited == 0..second

\* A commit that writes updated_at, and one that deletes rows.
Stamped(at) == blurred' = (blurred \/ at <= wrote) /\ wrote' = Max({wrote, at})
Unstamped == blurred' = (blurred \/ sniffer.torn) /\ UNCHANGED wrote

-----------------------------------------------------------------------------
(* Operators. *)

Edit == Change /\ edits' = edits + 1
Served(o) == call[o].st = "idle"

\* save_monitor(): refused for a shipped monitor and for a mirror.
\* The request may name the source; one that says "builtin" is taken for shipped from then on.
SaveMonitor(id, src, def, on) ==
  /\ Edit
  /\ id \in DOMAIN monitors => monitors[id].src \notin {"builtin", "blacklist"}
  /\ \E at \in Waited :
       /\ monitors' = Set(monitors, id, [src |-> src, def |-> def, on |-> on, at |-> at])
       /\ Stamped(at)
  /\ mine' = IF src = "custom" THEN Set(mine, id, [def |-> def, on |-> on]) ELSE Omit(mine, {id})
  /\ UNCHANGED <<entries, call, startVars, second, sniffVars, choice, overrun, apart>>

\* delete_monitor(): refused for the same ones.
DeleteMonitor(id) ==
  /\ Edit
  /\ id \in DOMAIN monitors /\ monitors[id].src \notin {"builtin", "blacklist"}
  /\ monitors' = Omit(monitors, {id})
  /\ mine' = Omit(mine, {id})
  /\ Unstamped
  /\ UNCHANGED <<entries, call, startVars, second, sniffVars, choice, overrun, apart>>

\* MutToggled(row, on, at): the change is not stamped.
MutToggled(row, on, at) == [row EXCEPT !.on = on]

\* The row a toggle writes.
Toggled(row, on, at) == [row EXCEPT !.on = on, !.at = at]

\* set_monitor_enabled(): a mirror is switched only through its entry.
ToggleMonitor(id, on) ==
  /\ Edit
  /\ id \in DOMAIN monitors /\ monitors[id].src # "blacklist"
  /\ \E at \in Waited : monitors' = [monitors EXCEPT ![id] = Toggled(@, on, at)] /\ Stamped(at)
  /\ choice' = IF monitors[id].src = "builtin" THEN Set(choice, id, on) ELSE choice
  /\ overrun' = overrun \ {id}
  /\ mine' = IF id \in DOMAIN mine THEN [mine EXCEPT ![id].on = on] ELSE mine
  /\ UNCHANGED <<entries, call, startVars, second, sniffVars, apart>>

-----------------------------------------------------------------------------
(* The blacklist: an entry and its mirror are written by separate commits. *)

Inside(id) == {o \in Operators : call[o].st # "idle" /\ call[o].id = id}

\* The calls, when another one comes into this entry.
Met(id) == [o \in Operators |-> IF o \in Inside(id) THEN [call[o] EXCEPT !.alone = FALSE] ELSE call[o]]

\* create_blacklist_entry() and set_blacklist_entry_enabled(), up to the commit of the entry.
WriteEntry(o, id, on) ==
  /\ Served(o) /\ Edit
  /\ id \notin DOMAIN entries => on
  /\ entries' = Set(entries, id, on)
  /\ call' = [Met(id) EXCEPT ![o] = [st |-> "read", id |-> id, alone |-> Inside(id) = {}]]
  /\ apart' = IF Inside(id) # {} THEN apart \cup {id} ELSE apart
  /\ UNCHANGED <<monitors, startVars, second, sniffVars, ghosts, clockVars>>

\* The entry is read back; one that is gone ends the call with an error.
ReadEntry(o) ==
  /\ call[o].st = "read"
  /\ LET id == call[o].id
     IN  call' = [call EXCEPT ![o] = IF id \in DOMAIN entries
                                     THEN [st |-> "sync", id |-> id, on |-> entries[id], alone |-> @.alone]
                                     ELSE [st |-> "idle"]]
  /\ UNCHANGED <<monitors, entries, startVars, second, sniffVars, edits, ghosts, apart, clockVars>>

\* _sync_blacklist_monitor(): the mirror is inserted or brought to what was read.
SyncMirror(o) ==
  /\ call[o].st = "sync"
  /\ \E at \in Waited :
       /\ monitors' = Set(monitors, call[o].id, [src |-> "blacklist", def |-> Listed, on |-> call[o].on, at |-> at])
       /\ Stamped(at)
  /\ call' = [call EXCEPT ![o] = [st |-> "idle"]]
  /\ apart' = IF call[o].alone THEN apart \ {call[o].id} ELSE apart
  /\ UNCHANGED <<entries, startVars, second, sniffVars, edits, ghosts>>

\* After the commit of the entry a statement fails (the database stays locked) or the process ends.
CallFails(o) ==
  /\ ~Served(o)
  /\ call' = [call EXCEPT ![o] = [st |-> "idle"]]
  /\ apart' = apart \cup {call[o].id}
  /\ UNCHANGED <<monitors, entries, startVars, second, sniffVars, edits, ghosts, clockVars>>

\* A deletion heals an entry that no call is in, and disturbs the calls that are.
Leaves(id) ==
  /\ call' = Met(id)
  /\ apart' = IF Inside(id) = {} THEN apart \ {id} ELSE apart \cup {id}

\* MutDeleteEntry(id): the mirror is left to the next synchronisation.
MutDeleteEntry(id) ==
  /\ Edit
  /\ id \in DOMAIN entries
  /\ entries' = Omit(entries, {id})
  /\ Leaves(id)
  /\ UNCHANGED <<monitors, startVars, second, sniffVars, ghosts, clockVars>>

\* delete_blacklist_entry(): both rows in one commit.
DeleteEntry(id) ==
  /\ Edit
  /\ id \in DOMAIN entries
  /\ entries' = Omit(entries, {id})
  /\ monitors' = Omit(monitors, {id})
  /\ Leaves(id) /\ Unstamped
  /\ UNCHANGED <<startVars, second, sniffVars, ghosts>>

-----------------------------------------------------------------------------
(* A process opens the database. *)

\* _seed_new_builtin_monitors(): the rows are read and compared with the release; the operators of a process that
\* is already serving go on, and another one may be starting too.
SeedReads(s, release) ==
  /\ starting[s].pc = "idle" /\ seeds < MaxSeeds /\ Change
  /\ seeds' = seeds + 1
  /\ starting' = [starting EXCEPT ![s] = [pc |-> "seed", release |-> release, then |-> monitors]]
  /\ UNCHANGED <<monitors, entries, flag, call, reset, doubled, second, sniffVars, edits, ghosts, apart, clockVars>>

\* MutSeeded(release, then, id, at): a definition that changed is synchronised with its default.
MutSeeded(release, then, id, at) ==
  IF id \in DOMAIN monitors
  THEN IF id \in DOMAIN release /\ monitors[id].src = "builtin" /\ then[id].def # release[id].def
       THEN [monitors[id] EXCEPT !.def = release[id].def, !.on = release[id].on, !.at = at]
       ELSE monitors[id]
  ELSE [src |-> "builtin", def |-> release[id].def, on |-> release[id].on, at |-> at]

\* What becomes of a row, given the rows that were read: a new one has the release's default, one whose definition
\* changed keeps its switch, the operators' are not touched.
Seeded(release, then, id, at) ==
  IF id \in DOMAIN monitors
  THEN IF /\ id \in DOMAIN release /\ monitors[id].src = "builtin"
          /\ id \in DOMAIN then /\ then[id].src = "builtin" /\ then[id].def # release[id].def
       THEN [monitors[id] EXCEPT !.def = release[id].def, !.at = at]
       ELSE monitors[id]
  ELSE [src |-> "builtin", def |-> release[id].def, on |-> release[id].on, at |-> at]

At(s, pc) == [pc |-> pc, release |-> starting[s].release]

\* What was read as shipped and is not of this release goes; what was not there is inserted.
SeedWrites(s) ==
  /\ starting[s].pc = "seed"
  /\ LET release == starting[s].release
         then    == starting[s].then
         gone    == {id \in DOMAIN monitors : /\ monitors[id].src = "builtin" /\ id \notin DOMAIN release
                                              /\ id \in DOMAIN then /\ then[id].src = "builtin"}
         new     == DOMAIN release \ DOMAIN then
     IN  /\ \E at \in Waited :
              /\ monitors' = [id \in (DOMAIN monitors \cup new) \ gone |-> Seeded(release, then, id, at)]
              /\ IF \A id \in DOMAIN monitors' : id \in DOMAIN monitors /\ monitors'[id] = monitors[id]
                 THEN IF gone = {} THEN UNCHANGED clockVars ELSE Unstamped
                 ELSE /\ wrote' = Max({wrote, at})
                      /\ blurred' = (blurred \/ at <= wrote \/ (gone # {} /\ sniffer.torn))
         /\ choice' = Omit(choice, gone) /\ overrun' = overrun \ gone
  /\ starting' = [starting EXCEPT ![s] = At(s, "flag")]
  /\ UNCHANGED <<entries, flag, call, reset, doubled, seeds, second, sniffVars, edits, mine, apart>>

\* _apply_new_monitor_defaults_once(): nothing, when the flag is set.
ReadsFlag(s) ==
  /\ starting[s].pc = "flag"
  /\ starting' = [starting EXCEPT ![s] = IF flag THEN [pc |-> "idle"] ELSE At(s, "reset")]
  /\ doubled' = (doubled \/ (~flag /\ \E q \in Starters \ {s} : starting[q].pc \in {"reset", "mark"}))
  /\ UNCHANGED <<monitors, entries, flag, call, reset, seeds, second, sniffVars, edits, ghosts, apart, clockVars>>

\* Every shipped monitor gets the release's default, and no updated_at; what operators chose before the first reset
\* is meant to go.
Resets(s) ==
  /\ starting[s].pc = "reset"
  /\ LET release == starting[s].release
         shipped == {id \in DOMAIN monitors \cap DOMAIN release : monitors[id].src = "builtin"}
     IN  /\ monitors' = [id \in DOMAIN monitors |->
                           IF id \in shipped THEN [monitors[id] EXCEPT !.on = release[id].on] ELSE monitors[id]]
         /\ choice' = IF reset THEN choice ELSE Omit(choice, shipped)
         /\ overrun' = IF reset /\ doubled THEN overrun \cup (shipped \cap DOMAIN choice) ELSE overrun
  /\ reset' = TRUE
  /\ blurred' = (blurred \/ monitors' # monitors)
  /\ starting' = [starting EXCEPT ![s] = At(s, "mark")]
  /\ UNCHANGED <<entries, flag, call, doubled, seeds, second, sniffVars, edits, mine, apart, wrote>>

Marks(s) ==
  /\ starting[s].pc = "mark"
  /\ flag' = TRUE
  /\ starting' = [starting EXCEPT ![s] = [pc |-> "idle"]]
  /\ UNCHANGED <<monitors, entries, call, reset, doubled, seeds, second, sniffVars, edits, ghosts, apart, clockVars>>

\* The starting process ends, in a crash or by a statement that fails.
StarterDies(s) ==
  /\ starting[s].pc # "idle"
  /\ doubled' = (doubled \/ starting[s].pc = "mark")
  /\ starting' = [starting EXCEPT ![s] = [pc |-> "idle"]]
  /\ UNCHANGED <<monitors, entries, flag, call, reset, seeds, second, sniffVars, edits, ghosts, apart, clockVars>>

\* Seconds in which nothing is written make no difference to anyone and are left out.
SecondPasses ==
  /\ second < MaxSecond /\ wrote = second
  /\ second' = second + 1
  /\ UNCHANGED <<monitors, entries, call, startVars, sniffVars, edits, ghosts, apart, clockVars>>

-----------------------------------------------------------------------------
(* The sniffer's view. *)

\* monitor_catalog_stamp(): how many, the last change, how many are on.
Stamp ==
  <<Cardinality(DOMAIN monitors), Max({-1} \cup {monitors[k].at : k \in DOMAIN monitors}),
    Cardinality({k \in DOMAIN monitors : monitors[k].on})>>

dbVars == <<monitors, entries, call, startVars, second, edits, ghosts, apart, wrote>>

Resting(r) == refresh[r].pc = "idle"
OthersRest(r) == \A q \in Refreshers \ {r} : Resting(q)

\* _get_monitor_context(): the first refresh is made on the spot and does not say that it runs; any other one is
\* made by a thread of its own unless one said so.
Begins(r) ==
  /\ Resting(r)
  /\ ~sniffer.begun \/ ~sniffer.inflight
  /\ sniffer' = [sniffer EXCEPT !.begun = TRUE, !.inflight = sniffer.begun, !.mixed = @ \/ ~OthersRest(r)]

\* A refresh that ends says that none runs.
Ended == [sniffer EXCEPT !.inflight = FALSE]

\* _refresh_monitor_cache(): the stamp first.
RefreshStamps(r) ==
  /\ Begins(r)
  /\ refresh' = [refresh EXCEPT ![r] =
       IF Stamp # sniffer.stamp THEN [pc |-> "list", read |-> Stamp]
       ELSE [pc |-> "keep", next |-> sniffer.rows, n |-> sniffer.n]]
  /\ UNCHANGED <<index, building, loads, dbVars, blurred>>

\* The list, only when the stamp moved.
RefreshLists(r) ==
  /\ refresh[r].pc = "list" /\ loads < MaxLoads
  /\ loads' = loads + 1
  /\ refresh' = [refresh EXCEPT ![r] = [pc |-> "index", next |-> monitors, n |-> loads + 1]]
  /\ sniffer' = [sniffer EXCEPT !.stamp = refresh[r].read, !.torn = (Stamp # refresh[r].read), !.lost = FALSE,
                                !.mixed = ~OthersRest(r)]
  /\ blurred' = FALSE
  /\ UNCHANGED <<index, building, dbVars>>

\* The stamp or the list cannot be read; or one of the settings that are read next, and then the list is dropped
\* and its stamp stays.
RefreshFails(r) ==
  /\ refresh[r].pc \in {"list", "index", "keep"}
  /\ refresh' = [refresh EXCEPT ![r] = [pc |-> "idle"]]
  /\ sniffer' = [Ended EXCEPT !.lost = @ \/ refresh[r].pc = "index"]
  /\ UNCHANGED <<index, building, loads, dbVars, blurred>>

\* ensure_monitor_index(): the maps are replaced at once; the automaton is built unless it already is.
Indexes(r) ==
  /\ refresh[r].pc = "index"
  /\ refresh' = [refresh EXCEPT ![r].pc = "publish"]
  /\ index' = [index EXCEPT !.sig = <<refresh[r].next>>, !.ref = refresh[r].n]
  /\ building' = IF index.sig = <<refresh[r].next>> THEN building ELSE building \cup {refresh[r].next}
  /\ UNCHANGED <<sniffer, loads, dbVars, blurred>>

\* A list that was kept is put back in its place.
Publishes(r) ==
  /\ refresh[r].pc \in {"publish", "keep"}
  /\ sniffer' = [Ended EXCEPT !.rows = refresh[r].next, !.n = refresh[r].n]
  /\ refresh' = [refresh EXCEPT ![r] = [pc |-> "idle"]]
  /\ UNCHANGED <<index, building, loads, dbVars, blurred>>

\* The literals of an indexed list and the monitors that need them.
ContentOf(rows) == {<<l, id>> : l \in Literals, id \in DOMAIN rows}
                     \cap UNION {{<<l, id>> : l \in rows[id].def.contains} : id \in DOMAIN rows}

\* An automaton that is finished is used only for the list it was built for.
Installed(sig) == IF index.sig = <<sig>> THEN <<ContentOf(sig)>> ELSE index.content

AutomatonIsBuilt ==
  /\ \E sig \in building :
       /\ building' = building \ {sig}
       /\ index' = [index EXCEPT !.content = Installed(sig)]
  /\ UNCHANGED <<sniffer, refresh, loads, dbVars, blurred>>

-----------------------------------------------------------------------------
(* The evaluation of a packet. *)

\* rule_matches_packet(): every criterion a rule states must hold, those on the packet's fields and those on its text.
FieldsMatch(def, p) == def.port # 0 => def.port = p.port
TextMatches(def, p) == def.contains # {} => def.contains \cap p.text # {}
Matches(row, p) == row.on /\ FieldsMatch(row.def, p) /\ TextMatches(row.def, p)

\* _indexed_candidates(): those whose literal the automaton found, those of the packet's port (all of them when it
\* has none), and those that neither index covers.
Candidates(p) ==
  LET rows  == index.sig[1]
      found == {id \in DOMAIN rows : \E l \in p.text : <<l, id>> \in index.content[1]}
      port  == {id \in DOMAIN rows : /\ rows[id].def.contains = {} /\ rows[id].def.port # 0
                                     /\ (p.port = 0 \/ p.port = rows[id].def.port)}
      rest  == {id \in DOMAIN rows : rows[id].def.contains = {} /\ rows[id].def.port = 0}
  IN  found \cup port \cup rest

\* evaluate_packet(): the index is trusted only for the very list it was made for.
Indexed == index.content # <<>> /\ index.ref = sniffer.n
Hits(p) ==
  {id \in (IF Indexed THEN Candidates(p) ELSE DOMAIN sniffer.rows) :
     Matches((IF Indexed THEN index.sig[1] ELSE sniffer.rows)[id], p)}

Edits ==
  \/ \E id \in CustomIds, src \in {"custom", "builtin"}, def \in Defs, on \in BOOLEAN : SaveMonitor(id, src, def, on)
  \/ \E id \in Ids : DeleteMonitor(id)
  \/ \E id \in Ids, on \in BOOLEAN : ToggleMonitor(id, on)
  \/ \E o \in Operators, id \in EntryIds, on \in BOOLEAN : WriteEntry(o, id, on)
  \/ \E id \in EntryIds : DeleteEntry(id)
  \/ \E o \in Operators : ReadEntry(o) \/ SyncMirror(o) \/ CallFails(o)

Starts ==
  \/ \E s \in Starters, release \in Releases : SeedReads(s, release)
  \/ \E s \in Starters : SeedWrites(s) \/ ReadsFlag(s) \/ Resets(s) \/ Marks(s) \/ StarterDies(s)

Refreshes ==
  \/ \E r \in Refreshers : RefreshStamps(r) \/ RefreshLists(r) \/ RefreshFails(r) \/ Indexes(r) \/ Publishes(r)
  \/ AutomatonIsBuilt

CatalogNext == Edits \/ Starts \/ SecondPasses \/ Refreshes

CatalogSpec == CatalogInit /\ [][CatalogNext]_catalogVars

-----------------------------------------------------------------------------
(* Properties. *)

\* What an operator decided stays: a shipped monitor keeps the switch it was given and an operator's own monitor
\* its definition and switch, over releases that change definitions and over processes that seed the catalog
\* while another one serves ("a catalog update must never silently re-enable or re-disable a row").  The reset of
\* the switches takes what was chosen before it, and a later choice only when two starters met in it or one died
\* between its two writes.
DecisionsStay ==
  /\ \A id \in DOMAIN choice : id \in DOMAIN monitors /\ (id \notin overrun => monitors[id].on = choice[id])
  /\ \A id \in DOMAIN mine :
       id \in DOMAIN monitors /\ monitors[id].def = mine[id].def /\ monitors[id].on = mine[id].on

\* Does not hold, against _apply_new_monitor_defaults_once ("this runs exactly once per database, ever ... any toggle
\* made after the reset is respected like any other"): the flag is read before the reset and set after it.
TogglesAreRespected == overrun = {}

InStep(id) ==
  IF id \in DOMAIN entries
  THEN id \in DOMAIN monitors /\ monitors[id].on = entries[id]
  ELSE id \notin DOMAIN monitors

\* An entry of the blacklist and its mirror agree when no call is inside the entry, unless one failed between its
\* two commits or met another; the next call that has the entry to itself brings them together again, a deletion
\* too.
MirrorInStep == \A id \in EntryIds \ apart : Inside(id) = {} => InStep(id)

\* The two "never drift out of sync", as the comment on the blacklist has it: not so.
NeverDrifts == \A id \in EntryIds : Inside(id) = {} => InStep(id)

\* A list the sniffer will not reload is the catalog: a list read after its stamp is never older than it, and the
\* stamp moves with every change that is written with a later second than those before (seconds are read before the
\* database is waited for, and the reset writes none).  It takes one refresh at a time, which the first one does not
\* see to; the next list that one loads alone is right again.
StampTellsChanges ==
  ~blurred /\ ~sniffer.lost /\ ~sniffer.mixed /\ (\A r \in Refreshers : Resting(r)) /\ sniffer.stamp = Stamp
    => sniffer.rows = monitors

\* monitor_catalog_stamp "changes whenever a monitor is added, edited, deleted or toggled": not always.
StampAlwaysTells == (\A r \in Refreshers : Resting(r)) /\ sniffer.stamp = Stamp => sniffer.rows = monitors

\* The index never makes a monitor match that the list would not, and once no automaton is being built it misses
\* none: reloads and the threads that finish in any order leave the last list indexed.
IndexIsHonest ==
  \A p \in Packets :
    LET all == {id \in DOMAIN sniffer.rows : Matches(sniffer.rows[id], p)}
        hits == Hits(p)
    IN  hits \subseteq all /\ (building = {} => hits = all)

\* _refresh_monitor_cache() and ensure_monitor_index(): what the cache is judged
\* by tells every change it can see, and the index answers as the list would.
CacheIsHonest == StampTellsChanges /\ IndexIsHonest
=============================================================================
