------------------------------ MODULE Retention ------------------------------
(***************************************************************************)
(* What is stored of the traffic and how it goes again: packets, the tags  *)
(* that hang off them and the sessions they belong to, written by the      *)
(* capture process and by its honeypot, aged and capped by its sweep, and  *)
(* deleted, reviewed and cleared by operators through the other process.   *)
(*                                                                         *)
(* Each commit is one step; a read outside a transaction is one as well.   *)
(* What a write that failed half way leaves to the next commit of its      *)
(* process lands at once here: until that commit nobody else can write.    *)
(* Payloads, flows, domains and paths go by the statements the tags go by  *)
(* and are left out.  Days are counted from 0.                             *)
(***************************************************************************)
EXTENDS Integers, Sequences, FiniteSets, FiniteSetsExt, Lists

CONSTANTS
  Remotes,        \* addresses traffic comes from
  RetentionDays,  \* how long a packet is kept
  AlertDays,      \* how long one with a high or critical tag is
  PacketLimit,    \* rows of the packets table after a sweep
  TagLimit,       \* rows of the tags table after a sweep
  SessionLimit,   \* rows of the sessions table after a sweep
  MaxStored,      \* packets on their way to the store (bound)
  MaxDay,         \* (bound)
  MaxTurns        \* what operators do, sweeps that begin and statements that fail (bound)

ASSUME RetentionAssumption ==
  {RetentionDays, AlertDays, PacketLimit, TagLimit, SessionLimit, MaxStored, MaxDay, MaxTurns} \subseteq Nat

VARIABLES
  stored,    \* the packets table: id -> [uid, host, from, alert, day, sid]; uid (ghost) is never used again
  tags,      \* the tags table, by id: [pid, key, uid]
  sessions,  \* the sessions table: id -> who created it
  last,      \* sqlite_sequence: the last id of packets and of sessions
  batch,   \* a packet that was evaluated and waits for its write
  trap,      \* the honeypot: the session it remembers, the one in the configuration, the one of the event at hand
  white,     \* whitelisted addresses, and those the sniffer knows of
  sweep,     \* the step the sweep is at
  request,     \* what the operator's request is in the middle of
  day, turns, uids,   \* (bounds)
  excused,   \* ghost: alerts whose tags an operator or the cap on tags removed, or that were written without
  survivors, \* ghost: packets that were there, or had a tag that was, after a purge that reset the ids
  early,     \* ghost: alerts that age removed before their time
  forgotten  \* ghost: addresses an operator whitelisted and purged

retentionVars == <<stored, tags, sessions, last, batch, trap, white, sweep, request, day, turns, uids,
                   excused, survivors, early, forgotten>>

None == [st |-> "none"]
Empty == [k \in {} |-> 0]
Without(f, ks) == [x \in DOMAIN f \ ks |-> f[x]]
With(f, k, v) == [x \in DOMAIN f \cup {k} |-> IF x = k THEN v ELSE f[x]]

RetentionInit ==
  /\ stored = Empty /\ tags = <<>> /\ sessions = Empty
  /\ last = [packets |-> 0, sessions |-> 0]
  /\ batch = None
  /\ trap = [mine |-> 0, saved |-> 0, event |-> None]
  /\ white = [db |-> {}, known |-> {}]
  /\ sweep = "idle" /\ request = None
  /\ day = 0 /\ turns = 0 /\ uids = 0
  /\ excused = {} /\ survivors = {} /\ early = {} /\ forgotten = {}

-----------------------------------------------------------------------------
(* The capture process writes. *)

\* MutNextId: the id after the highest one that is there.
MutNextId == Max({0} \cup DOMAIN stored) + 1

\* AUTOINCREMENT: the id after the last one given out and the highest one that is there.
NextId == Max({last.packets} \cup DOMAIN stored) + 1
NextSession == Max({last.sessions} \cup DOMAIN sessions) + 1

\* _ensure_session(): the session if it exists, else a new one.
Session(sid) == IF sid \in DOMAIN sessions THEN sid ELSE NextSession
EnsuresSession(sid, id) ==
  LET s == Session(sid)
  IN  /\ sessions' = IF s \in DOMAIN sessions THEN sessions ELSE With(sessions, s, "packet")
      /\ last' = [packets |-> id, sessions |-> Max({last.sessions, s})]

Arrives == uids < MaxStored /\ uids' = uids + 1

\* _insert_tag_rows(): every packet has a plain tag, an alert one of its severity as well.
TagRows(pid, uid, alert) ==
  LET row(key) == [pid |-> pid, key |-> key, uid |-> uid]
  IN  IF alert THEN <<row("plain"), row("alert")>> ELSE <<row("plain")>>

\* register_packet(): session and packet, with the rows of its tags.
Registers(uid, host, from, alert, sid, rows) ==
  /\ stored' = With(stored, NextId, [uid |-> uid, host |-> host, from |-> from, alert |-> alert, day |-> day,
                                     sid |-> Session(sid)])
  /\ tags' = tags \o rows
  /\ EnsuresSession(sid, NextId)

Turn == turns < MaxTurns /\ turns' = turns + 1

\* A write that fails: nothing is left of it, or, outside a batch, the session it had created, or the packet without
\* some of its tags, the one by which the sweep tells an alert among them.
WriteFails(uid, host, from, alert, sid) ==
  /\ Turn
  /\ \/ UNCHANGED <<stored, tags, sessions, last, excused>>
     \/ EnsuresSession(sid, last.packets) /\ UNCHANGED <<stored, tags, excused>>
     \/ /\ \E rows \in {<<>>, TagRows(NextId, uid, FALSE)} : Registers(uid, host, from, alert, sid, rows)
        /\ excused' = IF alert THEN excused \cup {uid} ELSE excused

\* _store_packet(): a whitelisted packet is dropped; the others are evaluated and wait for the write of their batch.
EvaluatePacket(host, alert) ==
  /\ batch = None /\ host \notin white.known /\ Arrives
  /\ batch' = [st |-> "evaluated", uid |-> uids', host |-> host, alert |-> alert]
  /\ UNCHANGED <<stored, tags, sessions, last, trap, white, sweep, request, day, turns, excused, survivors, early, forgotten>>

\* A sniffed packet names no session: each gets one of its own.
WritesBatch ==
  /\ batch # None /\ batch' = None
  /\ \/ /\ Registers(batch.uid, batch.host, "sniffer", batch.alert, 0, TagRows(NextId, batch.uid, batch.alert))
        /\ UNCHANGED <<excused, turns>>
     \/ WriteFails(batch.uid, batch.host, "sniffer", batch.alert, 0)
  /\ UNCHANGED <<trap, white, sweep, request, day, uids, survivors, early, forgotten>>

\* The honeypot's _session_id(): the one it remembers if there is such a session, else the one configured, else new.
TrapSession(host) ==
  /\ trap.event = None /\ Arrives
  /\ LET known == {sid \in {trap.mine, trap.saved} : sid \in DOMAIN sessions}
         sid   == IF trap.mine \in known THEN trap.mine ELSE IF known # {} THEN trap.saved ELSE NextSession
     IN  /\ sessions' = IF known # {} THEN sessions ELSE With(sessions, sid, "honeypot")
         /\ last' = [last EXCEPT !.sessions = Max({@, sid})]
         /\ trap' = [mine |-> sid, saved |-> IF known # {} THEN trap.saved ELSE sid,
                     event |-> [st |-> "event", uid |-> uids', host |-> host, sid |-> sid]]
  /\ UNCHANGED <<stored, tags, batch, white, sweep, request, day, turns, excused, survivors, early, forgotten>>

\* Every hit of the honeypot is tagged critical.
TrapWrites ==
  /\ trap.event # None /\ trap' = [trap EXCEPT !.event = None]
  /\ LET e == trap.event
     IN  \/ /\ Registers(e.uid, e.host, "honeypot", TRUE, e.sid, TagRows(NextId, e.uid, TRUE))
            /\ UNCHANGED <<excused, turns>>
         \/ WriteFails(e.uid, e.host, "honeypot", TRUE, e.sid)
  /\ UNCHANGED <<batch, white, sweep, request, day, uids, survivors, early, forgotten>>

\* _refresh_monitor_cache() brings the whitelist to the sniffer.
RefreshWhitelist ==
  /\ white.known # white.db
  /\ white' = [white EXCEPT !.known = white.db]
  /\ UNCHANGED <<stored, tags, sessions, last, batch, trap, sweep, request, day, turns, uids, excused, survivors, early, forgotten>>

DayPasses ==
  /\ day < MaxDay /\ day' = day + 1
  /\ UNCHANGED <<stored, tags, sessions, last, batch, trap, white, sweep, request, turns, uids, excused, survivors, early, forgotten>>

-----------------------------------------------------------------------------
(* The sweep of the capture process. *)

Flagged(id) == \E i \in DOMAIN tags : tags[i].pid = id /\ tags[i].key = "alert"
Older(id, days) == day - stored[id].day >= days

\* MutExpired(id): an alert has the age of AlertDays or of RetentionDays, whichever is lower.
MutExpired(id) ==
  /\ RetentionDays > 0 /\ Older(id, RetentionDays)
  /\ (Older(id, Min({RetentionDays, AlertDays})) \/ ~Flagged(id))

\* What age removes: nothing when RetentionDays is 0; an alert no sooner than any other packet.
Expired(id) ==
  /\ RetentionDays > 0 /\ Older(id, RetentionDays)
  /\ (Older(id, Max({RetentionDays, AlertDays})) \/ ~Flagged(id))

SweepAges ==
  /\ sweep = "idle" /\ sweep' = "orphans" /\ Turn
  /\ LET gone == {id \in DOMAIN stored : Expired(id)}
     IN  /\ stored' = Without(stored, gone)
         /\ early' = early \cup {stored[id].uid : id \in {g \in gone : stored[g].alert /\ ~Older(g, AlertDays)}}
  /\ UNCHANGED <<tags, sessions, last, batch, trap, white, request, day, uids, excused, survivors, forgotten>>

SweepOrphans ==
  /\ sweep = "orphans" /\ sweep' = "packets"
  /\ tags' = Kept(tags, {t \in Elems(tags) : t.pid \in DOMAIN stored})
  /\ UNCHANGED <<stored, sessions, last, batch, trap, white, request, day, turns, uids, excused, survivors, early, forgotten>>

\* _trim_table(): the lowest ids of what is over the limit.
Overflow(ids, limit) == {id \in ids : Cardinality({other \in ids : other > id}) >= limit}

SweepPackets ==
  /\ sweep = "packets" /\ sweep' = "tags"
  /\ stored' = Without(stored, Overflow(DOMAIN stored, PacketLimit))
  /\ UNCHANGED <<tags, sessions, last, batch, trap, white, request, day, turns, uids, excused, survivors, early, forgotten>>

SweepTags ==
  /\ sweep = "tags" /\ sweep' = "sessions"
  /\ LET over == Overflow(DOMAIN tags, TagLimit)
     IN  /\ tags' = Drop(tags, Cardinality(over))
         /\ excused' = excused \cup {tags[i].uid : i \in over}
  /\ UNCHANGED <<stored, sessions, last, batch, trap, white, request, day, turns, uids, survivors, early, forgotten>>

SweepSessions ==
  /\ sweep = "sessions" /\ sweep' = "idle"
  /\ sessions' = Without(sessions, Overflow(DOMAIN sessions, SessionLimit))
  /\ UNCHANGED <<stored, tags, last, batch, trap, white, request, day, turns, uids, excused, survivors, early, forgotten>>

\* A statement of the sweep fails: the rest waits for the next one.
SweepFails ==
  /\ sweep # "idle" /\ sweep' = "idle" /\ Turn
  /\ UNCHANGED <<stored, tags, sessions, last, batch, trap, white, request, day, uids, excused, survivors, early, forgotten>>

-----------------------------------------------------------------------------
(* Operators.  The store's lock lets one request of their process into the database at a time; the capture *)
(* process has a connection of its own.                                                                    *)

Acts == request = None /\ Turn
captureVars == <<last, batch, trap, sweep, day, uids, survivors, early>>

DropPackets(ids) == stored' = Without(stored, ids)
DropTags(ids) ==
  /\ tags' = Kept(tags, {t \in Elems(tags) : t.pid \notin ids})
  /\ excused' = excused \cup {tags[i].uid : i \in {j \in DOMAIN tags : tags[j].pid \in ids}}

\* _packet_action(): "delete" takes the tags only when the results are to be cleaned.
DeletePacket(id, clean) ==
  /\ Acts /\ id \in DOMAIN stored
  /\ DropPackets({id})
  /\ IF clean THEN DropTags({id}) ELSE UNCHANGED <<tags, excused>>
  /\ UNCHANGED <<sessions, white, request, forgotten, captureVars>>

\* _packet_action() and _banner_action(): "restart" with the results cleaned.
CleanPacket(id) ==
  /\ Acts /\ id \in DOMAIN stored
  /\ DropTags({id})
  /\ UNCHANGED <<stored, sessions, white, request, forgotten, captureVars>>

\* clear_detections(): by the interface a packet was recorded under.
InScope(scope) == {id \in DOMAIN stored : scope \in {"all", stored[id].from}}

\* clear_detections_api(), but for "everything", which is Purge.
ClearDetections(scope) ==
  /\ Acts
  /\ DropPackets(InScope(scope)) /\ DropTags(InScope(scope))
  /\ UNCHANGED <<sessions, white, request, forgotten, captureVars>>

PurgedTables == {"tags", "packets", "sessions", "sequence"}

\* purge_capture_data(): every table of the capture and their sequences, in one commit, but for the tables whose
\* statement failed.
Purge(cleared) ==
  /\ Acts
  /\ stored' = IF "packets" \in cleared THEN Empty ELSE stored
  /\ tags' = IF "tags" \in cleared THEN <<>> ELSE tags
  /\ sessions' = IF "sessions" \in cleared THEN Empty ELSE sessions
  /\ last' = IF "sequence" \in cleared THEN [packets |-> 0, sessions |-> 0] ELSE last
  /\ excused' = IF "tags" \in cleared THEN excused \cup {tags[i].uid : i \in DOMAIN tags} ELSE excused
  /\ survivors' =
       IF "sequence" \in cleared
         THEN survivors \cup {stored'[id].uid : id \in DOMAIN stored'} \cup {tags'[i].uid : i \in DOMAIN tags'}
         ELSE survivors
  /\ UNCHANGED <<white, request, forgotten, batch, trap, sweep, day, uids, early>>

\* save_packet_review(): the packet is looked up, then its label written; the sweep may come between.
ReviewReads(id) ==
  /\ Acts /\ id \in DOMAIN stored
  /\ request' = [st |-> "review", id |-> id, uid |-> stored[id].uid]
  /\ UNCHANGED <<stored, tags, sessions, white, excused, forgotten, captureVars>>

ReviewWrites(label) ==
  /\ request.st = "review"
  /\ LET rest == Kept(tags, {t \in Elems(tags) : ~(t.pid = request.id /\ t.key = "review")})
     IN  tags' = IF label THEN Append(rest, [pid |-> request.id, key |-> "review", uid |-> request.uid]) ELSE rest
  /\ request' = None
  /\ UNCHANGED <<stored, sessions, white, turns, excused, forgotten, captureVars>>

\* _clear_packets_for_session(): the ids are read; their tags and then all of the session's packets go in one commit.
ClearSessionReads(sid) ==
  /\ Acts /\ sid \in DOMAIN sessions
  /\ request' = [st |-> "clean", sid |-> sid, ids |-> {id \in DOMAIN stored : stored[id].sid = sid}]
  /\ UNCHANGED <<stored, tags, sessions, white, excused, forgotten, captureVars>>

ClearSessionWrites ==
  /\ request.st = "clean"
  /\ DropTags(request.ids)
  /\ DropPackets({id \in DOMAIN stored : stored[id].sid = request.sid})
  /\ request' = None
  /\ UNCHANGED <<sessions, white, turns, forgotten, captureVars>>

\* delete_session(): the packets stay.
DeleteSession(sid) ==
  /\ Acts /\ sid \in DOMAIN sessions
  /\ sessions' = Without(sessions, {sid})
  /\ UNCHANGED <<stored, tags, white, request, excused, forgotten, captureVars>>

\* create_session() by an operator.
CreateSession ==
  /\ Acts
  /\ last' = [last EXCEPT !.sessions = NextSession]
  /\ sessions' = With(sessions, NextSession, "operator")
  /\ UNCHANGED <<stored, tags, white, request, excused, survivors, forgotten, batch, trap, sweep, day, uids, early>>

\* create_whitelist_entry(): an entry that exists is refused.
CreateEntry(host) == host \notin white.db /\ white' = [white EXCEPT !.db = @ \cup {host}]

\* whitelist_ip(): the entry, then everything stored of the address.
WhitelistIp(host) ==
  /\ Acts /\ CreateEntry(host)
  /\ request' = [st |-> "forget", host |-> host]
  /\ UNCHANGED <<stored, tags, sessions, excused, forgotten, captureVars>>

PurgeIp ==
  /\ request.st = "forget"
  /\ LET ids == {id \in DOMAIN stored : stored[id].host = request.host}
     IN  DropPackets(ids) /\ DropTags(ids)
  /\ forgotten' = forgotten \cup {request.host}
  /\ request' = None
  /\ UNCHANGED <<sessions, white, turns, captureVars>>

\* delete_whitelist_entry()
Unlist(host) ==
  /\ Acts /\ host \in white.db
  /\ white' = [white EXCEPT !.db = @ \ {host}]
  /\ forgotten' = forgotten \ {host}
  /\ UNCHANGED <<stored, tags, sessions, request, excused, captureVars>>

RetentionNext ==
  \/ \E host \in Remotes :
       \/ \E alert \in BOOLEAN : EvaluatePacket(host, alert)
       \/ TrapSession(host) \/ WhitelistIp(host) \/ Unlist(host)
  \/ WritesBatch \/ TrapWrites
  \/ RefreshWhitelist \/ DayPasses
  \/ SweepAges \/ SweepOrphans \/ SweepPackets \/ SweepTags \/ SweepSessions \/ SweepFails
  \/ \E id \in DOMAIN stored :
       \/ \E clean \in BOOLEAN : DeletePacket(id, clean)
       \/ CleanPacket(id) \/ ReviewReads(id)
  \/ (\E scope \in {"all", "sniffer", "honeypot"} : ClearDetections(scope))
  \/ (\E cleared \in SUBSET PurgedTables : Purge(cleared))
  \/ (\E label \in BOOLEAN : ReviewWrites(label))
  \/ (\E sid \in DOMAIN sessions : ClearSessionReads(sid) \/ DeleteSession(sid))
  \/ ClearSessionWrites \/ CreateSession \/ PurgeIp

RetentionSpec == RetentionInit /\ [][RetentionNext]_retentionVars

-----------------------------------------------------------------------------
(* Properties. *)

\* A tag whose packet is there was made for that packet, whatever was deleted under another's name meanwhile: tags
\* that outlive their packet (until the next sweep) never come to hang off a later one that was given its id.  A purge
\* that could not empty a table but reset the ids is the exception, for what it left.
TagsBelong ==
  \A i \in DOMAIN tags :
    tags[i].pid \in DOMAIN stored => stored[tags[i].pid].uid = tags[i].uid \/ tags[i].uid \in survivors

\* Does not hold: purge_capture_data() swallows the failure to delete the tags and resets the ids all the same.
TagsAlwaysBelong == \A i \in DOMAIN tags : tags[i].pid \in DOMAIN stored => stored[tags[i].pid].uid = tags[i].uid

\* Age takes no alert before its own time unless its tag is gone, and a tag goes only when an operator cleaned or
\* purged it, the cap on tags took it or the write that was to bring it failed: no other sweep, deletion, review or
\* reuse of an id costs an alert the row it is told by.
AlertsOutlive == early \subseteq excused

\* The row cap is said to "prefer unflagged rows first": it takes the lowest ids.  Kept as a counterexample.
CapSparesAlerts ==
  sweep = "packets" =>
    LET over == Overflow(DOMAIN stored, PacketLimit)
    IN  (\E id \in over : Flagged(id)) => \A id \in DOMAIN stored \ over : Flagged(id)

\* Whitelisting from the graph "also stops persisting anything new": not what is being evaluated, nor the honeypot.
ForgottenIsGone == \A id \in DOMAIN stored : stored[id].host \notin forgotten

\* The honeypot's packets are in sessions of its own: not after a purge gave its number to another.
TrapSessionIsOwn ==
  \A id \in DOMAIN stored : stored[id].from = "honeypot" /\ stored[id].sid \in DOMAIN sessions =>
    sessions[stored[id].sid] = "honeypot"
=============================================================================
