------------------------------- MODULE Access -------------------------------
(***************************************************************************)
(* Who gets into the API: the guard in front of every route, the limiter   *)
(* of failed attempts behind it, and the tickets that stand in for a       *)
(* credential where a browser cannot send one.                             *)
(*                                                                         *)
(* A request thread takes the limiter's lock for each call and not across  *)
(* them, so between check() and register_failure() other threads fail,     *)
(* succeed and evict.  Time is a counter that every expiry is compared     *)
(* with.                                                                   *)
(***************************************************************************)
EXTENDS Lists, Integers, SequencesExt, FiniteSets, FiniteSetsExt

CONSTANTS
  Sources,      \* client addresses
  Requests,     \* request threads
  Threshold,    \* AUTH_FAILURE_THRESHOLD
  Window,       \* AUTH_FAILURE_WINDOW_SECONDS
  BaseLockout,  \* AUTH_LOCKOUT_BASE_SECONDS
  MaxLockout,   \* AUTH_LOCKOUT_MAX_SECONDS
  MaxTracked,   \* AUTH_RATE_LIMIT_MAX_CLIENTS
  TicketTTL,    \* WS_TICKET_TTL_SECONDS and FAVICON_TICKET_TTL_SECONDS
  MaxTime,      \* ticks of the clock (bound)
  MaxRequests,  \* requests (bound)
  MaxTickets    \* tickets issued (bound)

ASSUME AccessAssumption ==
  /\ {Threshold, Window, BaseLockout, MaxLockout, MaxTracked, TicketTTL} \subseteq Nat \ {0}
  /\ BaseLockout <= MaxLockout
  /\ {MaxTime, MaxRequests, MaxTickets} \subseteq Nat
  /\ IsFiniteSet(Requests)

VARIABLES
  now,       \* time.monotonic()
  clients,   \* AuthRateLimiter._clients
  request,   \* per thread: where it is in the guard
  tickets,   \* every ticket issued, with its place in _WS_TICKETS or _FAVICON_TICKETS
  jwt,       \* [exp, revoked]: the one JWT in circulation beside the security code
  rejected,  \* per source: when it failed since it was last cleared or evicted (history)
  served     \* requests so far (bound)

accessVars == <<now, clients, request, tickets, jwt, rejected, served>>

Idle == [st |-> "idle"]

AccessInit ==
  /\ now = 1
  /\ clients = [s \in {} |-> {}]
  /\ request = [r \in Requests |-> Idle]
  /\ tickets = <<>>
  /\ jwt = [exp |-> 2, revoked |-> FALSE]
  /\ rejected = [s \in Sources |-> <<>>]
  /\ served = 0

Without(f, keys) == [k \in DOMAIN f \ keys |-> f[k]]

-----------------------------------------------------------------------------
(* Credentials. *)

\* decode_jwt(): a JWT ends with its exp or its revocation.
Decodes(token) == token = "jwt" /\ jwt.exp >= now /\ ~jwt.revoked

\* authenticate_request(): a JWT, else the security code, which never ends; a
\* forged or foreign token is "bad".
Authenticates(token) == Decodes(token) \/ token = "code"

\* revoke_jwt_id()
Revoke ==
  /\ ~jwt.revoked
  /\ jwt' = [jwt EXCEPT !.revoked = TRUE]
  /\ UNCHANGED <<now, clients, request, tickets, rejected, served>>

-----------------------------------------------------------------------------
(* AuthRateLimiter. *)

Stale(e) == e.until <= now /\ (e.fails = <<>> \/ Last(e.fails) <= now - Window)

\* _evict(): the stale ones, and if that is not enough the one not seen longest,
\* locked out or not; sources seen in the same tick are in either order.
Evictions ==
  LET stale == {s \in DOMAIN clients : Stale(clients[s])}
      left  == DOMAIN clients \ stale
  IN  IF Cardinality(DOMAIN clients) < MaxTracked THEN {{}}
      ELSE IF Cardinality(left) < MaxTracked THEN {stale}
      ELSE {stale \cup {s} : s \in {t \in left : \A u \in left : clients[t].seen <= clients[u].seen}}

\* check()
Blocked(s) == s \in DOMAIN clients /\ clients[s].until > now
Seen(s) == IF s \in DOMAIN clients THEN [clients EXCEPT ![s].seen = now] ELSE clients

MutStruck(fails) == Len(fails) > Threshold

\* The failure that fills the window costs a lockout.
Struck(fails) == Len(fails) >= Threshold

\* 2 ** n
Doubled(n) ==
  LET power[k \in 0..n] == IF k = 0 THEN 1 ELSE 2 * power[k - 1]
  IN  power[n]

Lockout(strikes) == Min({BaseLockout * Doubled(strikes - 1), MaxLockout})

\* The times later than t.
After(t) == {u \in Nat : u > t}

\* register_failure()
Failed(e) ==
  LET fails == Kept(Append(e.fails, now), After(now - Window))
  IN  IF Struck(fails)
      THEN [fails |-> <<>>, until |-> now + Lockout(e.strikes + 1), strikes |-> e.strikes + 1, seen |-> now]
      ELSE [e EXCEPT !.fails = fails, !.seen = now]

RegisterFailure(s) ==
  \E gone \in IF s \in DOMAIN clients THEN {{}} ELSE Evictions :
    LET kept == Without(clients, gone)
        e    == IF s \in DOMAIN clients THEN clients[s]
                ELSE [fails |-> <<>>, until |-> 0, strikes |-> 0, seen |-> now]
    IN  /\ clients' = [t \in DOMAIN kept \cup {s} |-> IF t = s THEN Failed(e) ELSE kept[t]]
        /\ rejected' = [t \in Sources |-> IF t = s THEN Append(rejected[t], now)
                                          ELSE IF t \in gone THEN <<>> ELSE rejected[t]]

\* register_success()
RegisterSuccess(s) ==
  /\ clients' = Without(clients, {s})
  /\ rejected' = [rejected EXCEPT ![s] = <<>>]

-----------------------------------------------------------------------------
(* The guard of a route: authenticate, check, register, each on its own.   *)

Guarding(s, token, then) == [st |-> "auth", src |-> s, token |-> token, then |-> then]

\* A valid credential is let in, locked out or not, and clears its source.
\* then is the ticket the request came on: 0 for none.
Authenticate(r, g) ==
  IF Authenticates(g.token)
  THEN RegisterSuccess(g.src) /\ request' = [request EXCEPT ![r] = [g EXCEPT !.st = "in"]]
  ELSE UNCHANGED <<clients, rejected>> /\ request' = [request EXCEPT ![r] = [g EXCEPT !.st = "check"]]

\* A request to a guarded route, and the session route with a token: a request
\* without one counts like one with a wrong one.
Arrive(r, s, token) ==
  /\ request[r].st = "idle" /\ served < MaxRequests
  /\ Authenticate(r, Guarding(s, token, 0))
  /\ served' = served + 1
  /\ UNCHANGED <<now, tickets, jwt>>

\* The same for a request whose ticket is already gone.
GuardAuthenticates(r) ==
  /\ request[r].st = "auth"
  /\ Authenticate(r, request[r])
  /\ UNCHANGED <<now, tickets, jwt, served>>

\* 429
GuardChecks(r) ==
  /\ request[r].st = "check"
  /\ clients' = Seen(request[r].src)
  /\ request' = [request EXCEPT ![r] = IF Blocked(request[r].src) THEN Idle ELSE [request[r] EXCEPT !.st = "fail"]]
  /\ UNCHANGED <<now, tickets, jwt, rejected, served>>

\* 401
GuardFails(r) ==
  /\ request[r].st = "fail"
  /\ RegisterFailure(request[r].src)
  /\ request' = [request EXCEPT ![r] = Idle]
  /\ UNCHANGED <<now, tickets, jwt, served>>

-----------------------------------------------------------------------------
(* Tickets. *)

\* _prune_ws_tickets() and the pruning of _issue_favicon_ticket()
Pruned(kind) == [i \in DOMAIN tickets |->
  IF tickets[i].kind = kind /\ tickets[i].expires <= now THEN [tickets[i] EXCEPT !.listed = FALSE] ELSE tickets[i]]

\* guarded_handler(): an origin that is refused, a handler that raises or one
\* of another module's is answered, and changes nothing here.
Answered == UNCHANGED tickets

\* A request that came through does its work: the ticket route remembers the
\* token, the list of favicons signs a link.
Serve(r) ==
  /\ request[r].st = "in"
  /\ \/ Answered
     \/ /\ request[r].then = 0 /\ Len(tickets) < MaxTickets
        /\ \E kind \in {"ws", "favicon"} :
             tickets' = Append(Pruned(kind),
                               [kind |-> kind, token |-> request[r].token, src |-> request[r].src,
                                expires |-> now + TicketTTL, listed |-> TRUE, uses |-> 0])
  /\ request' = [request EXCEPT ![r] = Idle]
  /\ UNCHANGED <<now, clients, jwt, rejected, served>>

\* The pop of _consume_ws_ticket().
Taken(i, kind) == [Pruned(kind) EXCEPT ![i].listed = FALSE]

Good(i) == tickets[i].listed /\ tickets[i].expires > now

\* _guard_websocket_auth(): the ticket is gone whoever brings it; its token is
\* then checked like any other, for the address it was issued to.
ArriveOnTicket(r, s, i) ==
  /\ request[r].st = "idle" /\ served < MaxRequests
  /\ tickets[i].kind = "ws"
  /\ LET good == Good(i) /\ tickets[i].src = s
     IN  /\ tickets' = [Taken(i, "ws") EXCEPT ![i].uses = IF good THEN @ + 1 ELSE @]
         /\ request' = [request EXCEPT ![r] = IF good THEN Guarding(s, tickets[i].token, i)
                                              ELSE Guarding(s, "none", i)]
  /\ served' = served + 1
  /\ UNCHANGED <<now, clients, jwt, rejected>>

\* favicon_raw(): served on the ticket alone while it lasts, else the guard.
FetchFavicon(r, s, i) ==
  /\ request[r].st = "idle" /\ served < MaxRequests
  /\ tickets[i].kind = "favicon"
  /\ IF Good(i) THEN UNCHANGED <<tickets, request>>
     ELSE /\ tickets' = [tickets EXCEPT ![i].listed = FALSE]
          /\ request' = [request EXCEPT ![r] = Guarding(s, "none", i)]
  /\ served' = served + 1
  /\ UNCHANGED <<now, clients, jwt, rejected>>

Tick ==
  /\ now < MaxTime
  /\ now' = now + 1
  /\ UNCHANGED <<clients, request, tickets, jwt, rejected, served>>

-----------------------------------------------------------------------------
AccessNext ==
  \/ Tick \/ Revoke
  \/ \E r \in Requests :
       \/ GuardAuthenticates(r) \/ GuardChecks(r) \/ GuardFails(r) \/ Serve(r)
       \/ \E s \in Sources :
            \/ \E token \in {"code", "jwt", "bad"} : Arrive(r, s, token)
            \/ \E i \in DOMAIN tickets : ArriveOnTicket(r, s, i) \/ FetchFavicon(r, s, i)

AccessSpec == AccessInit /\ [][AccessNext]_accessVars

-----------------------------------------------------------------------------
(* Properties. *)

Span == Min({Window, BaseLockout})

\* check(), register_failure(): between two clearings of its entry, a source is
\* answered 401 at most Threshold times in any span the shorter of window and
\* lockout, and once more for each other request that had passed check() when
\* the lockout fell.
AttemptsBounded ==
  \A s \in Sources : \A t \in 1..now :
    Len(Kept(rejected[s], After(t - Span) \cap 0..t))
      <= Threshold + Cardinality(Requests) - 1

\* _consume_ws_ticket(): a ticket lets one request in, however many bring it at
\* once, and only while its token is still good.
TicketsAdmitOnce ==
  /\ \A i \in DOMAIN tickets : tickets[i].kind = "ws" => tickets[i].uses <= 1
  /\ \A r, q \in Requests :
       r # q /\ {request[r].st, request[q].st} \subseteq {"auth", "in"} /\ request[r].then # 0
             /\ request[r].then = request[q].then
         => "none" \in {request[r].token, request[q].token}

\* AuthRateLimiter, _consume_ws_ticket(): neither guessing a credential nor
\* bringing a ticket many times at once gets further than it should.
EntryIsEarned == AttemptsBounded /\ TicketsAdmitOnce
=============================================================================
