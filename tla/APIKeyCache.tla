---------------------------- MODULE APIKeyCache -----------------------------
(***************************************************************************)
(* API keys: APIKeyService (service/apikey.go) with its read-through cache *)
(* over the api_keys table (repository/postgres/apikey.go), the requests   *)
(* that Validate a key (middleware/auth.go) and the administrators who     *)
(* create and revoke keys (handler/admin.go).  The mutex of the service    *)
(* covers one map access at a time; the table is read and written without  *)
(* it, so a revocation interleaves with fills of the cache.                *)
(*                                                                         *)
(* Time is only what is left of each cached entry: Tick takes one unit off *)
(* all of them, so behaviours of any length have finitely many states.     *)
(***************************************************************************)
EXTENDS Naturals

CONSTANTS Keys,        \* 16 random bytes each: no key exists before it is issued
          Bogus,       \* strings sent as keys that are never issued
          Requests,    \* concurrent requests
          Admins,      \* concurrent requests to /admin/keys
          TTL,         \* keyCacheTTL in ticks
          None         \* the nil *APIKey

ASSUME CacheAssumption ==
    /\ Bogus \subseteq Keys
    /\ TTL \in Nat \ {0}
    /\ None \notin [scope : {"locate", "update", "both"}, active : BOOLEAN]
    /\ None \notin [key : Keys, want : {"locate", "update"}]

Scopes    == {"locate", "update"}
KeyScopes == Scopes \cup {"both"}
Rows      == [scope : KeyScopes, active : BOOLEAN]

VARIABLES
    table,     \* table[k]: the row of k in api_keys, None if there is none
    cache,     \* cache[k]: the cached row and the ticks until expiresAt
    pc,        \* pc[q]: "idle", "lookup", "fetch" or "store" in getWithCache
    asked,     \* asked[q]: the key and scope q asks about
    held,      \* held[q]: the row q read from the table
    verdict,   \* verdict[q]: how Validate answered: "ok", "no" or "error"
    revoking,  \* revoking[a]: keys a has dropped from the cache, not yet from the table
    \* history variables, read by the properties only
    acked,     \* keys whose Revoke returned nil
    quiet      \* quiet[k]: ticks since k is revoked and no request holds a copy
               \* from before, at most TTL

requests == <<pc, asked, held, verdict>>
vars     == <<table, cache, requests, revoking, acked, quiet>>

NoEntry == [row |-> None, left |-> 0]

Init == /\ table = [k \in Keys |-> None]
        /\ cache = [k \in Keys |-> NoEntry]
        /\ pc = [q \in Requests |-> "idle"]
        /\ asked = [q \in Requests |-> None]
        /\ held = [q \in Requests |-> None]
        /\ verdict = [q \in Requests |-> "none"]
        /\ revoking = [a \in Admins |-> {}]
        /\ acked = {}
        /\ quiet = [k \in Keys |-> 0]

ActiveRow(row) == row # None /\ row.active
Active(k)      == ActiveRow(table[k])

-----------------------------------------------------------------------------
(* Validate                                                                *)

\* Mutation variant: ScopeBoth forgotten.
CoversSameOnly(s, want) == s = want

\* k.Scope == scope || k.Scope == model.ScopeBoth
Covers(s, want) == s = want \/ s = "both"

Answer(row, want) == IF ActiveRow(row) /\ Covers(row.scope, want) THEN "ok" ELSE "no"

\* A request with an X-Api-Key arrives.  Keys are random: nobody asks about a
\* key before it was issued.
Ask(q, k, s) ==
    /\ pc[q] = "idle"
    /\ table[k] # None \/ k \in Bogus
    /\ pc' = [pc EXCEPT ![q] = "lookup"]
    /\ asked' = [asked EXCEPT ![q] = [key |-> k, want |-> s]]
    /\ verdict' = [verdict EXCEPT ![q] = "none"]
    /\ UNCHANGED <<table, cache, held, revoking, acked, quiet>>

\* Mutation variant: the expiry is not looked at while there is a row.
EverLive(entry) == entry.left > 0 \/ entry.row # None

\* time.Now().Before(c.expiresAt)
Live(entry) == entry.left > 0

\* Under the mutex: a live entry answers, whatever it holds.
Hit(q) ==
    LET k == asked[q].key
    IN  /\ pc[q] = "lookup"
        /\ Live(cache[k])
        /\ pc' = [pc EXCEPT ![q] = "idle"]
        /\ verdict' = [verdict EXCEPT ![q] = Answer(cache[k].row, asked[q].want)]
        /\ UNCHANGED <<table, cache, asked, held, revoking, acked, quiet>>

Miss(q) ==
    /\ pc[q] = "lookup"
    /\ ~Live(cache[asked[q].key])
    /\ pc' = [pc EXCEPT ![q] = "fetch"]
    /\ UNCHANGED <<table, cache, asked, held, verdict, revoking, acked, quiet>>

\* GetByKey, outside the mutex.
Fetch(q) ==
    /\ pc[q] = "fetch"
    /\ held' = [held EXCEPT ![q] = table[asked[q].key]]
    /\ pc' = [pc EXCEPT ![q] = "store"]
    /\ UNCHANGED <<table, cache, asked, verdict, revoking, acked, quiet>>

\* Mutation variant: a failed query is cached like an absent key.
ErrorCached(k) == [cache EXCEPT ![k] = [row |-> None, left |-> TTL]]

\* What the service remembers of a failed query.
AfterError(k) == cache

FetchFails(q) ==
    /\ pc[q] = "fetch"
    /\ cache' = AfterError(asked[q].key)
    /\ pc' = [pc EXCEPT ![q] = "idle"]
    /\ verdict' = [verdict EXCEPT ![q] = "error"]
    /\ UNCHANGED <<table, asked, held, revoking, acked, quiet>>

\* Mutation variant: one tick too long.
LongEntry(row) == [row |-> row, left |-> TTL + 1]

\* Under the mutex again: the row, or its absence, is kept for TTL from now.
Entry(row) == [row |-> row, left |-> TTL]

Store(q) ==
    LET k == asked[q].key
    IN  /\ pc[q] = "store"
        /\ cache' = [cache EXCEPT ![k] = Entry(held[q])]
        /\ pc' = [pc EXCEPT ![q] = "idle"]
        /\ verdict' = [verdict EXCEPT ![q] = Answer(held[q], asked[q].want)]
        /\ held' = [held EXCEPT ![q] = None]
        /\ UNCHANGED <<table, asked, revoking, acked, quiet>>

-----------------------------------------------------------------------------
(* Generate and Revoke                                                     *)

Create(k, s) ==
    /\ k \notin Bogus
    /\ table[k] = None
    /\ table' = [table EXCEPT ![k] = [scope |-> s, active |-> TRUE]]
    /\ UNCHANGED <<cache, requests, revoking, acked, quiet>>

\* Revoke drops the cached entry first ...
RevokeInvalidate(a, k) ==
    /\ revoking[a] = {}
    /\ table[k] # None
    /\ cache' = [cache EXCEPT ![k] = NoEntry]
    /\ revoking' = [revoking EXCEPT ![a] = {k}]
    /\ UNCHANGED <<table, requests, acked, quiet>>

\* ... and then deactivates the row.
RevokeDeactivate(a, k) ==
    /\ k \in revoking[a]
    /\ table' = [table EXCEPT ![k].active = FALSE]
    /\ revoking' = [revoking EXCEPT ![a] = {}]
    /\ acked' = acked \cup {k}
    /\ UNCHANGED <<cache, requests, quiet>>

\* The UPDATE reports an error; the database may have applied it or not.
RevokeFails(a, k) ==
    /\ k \in revoking[a]
    /\ \/ table' = [table EXCEPT ![k].active = FALSE]
       \/ UNCHANGED table
    /\ revoking' = [revoking EXCEPT ![a] = {}]
    /\ UNCHANGED <<cache, requests, acked, quiet>>

-----------------------------------------------------------------------------
(* Time and restarts                                                       *)

\* A copy of k read while it was active is on its way to the cache.
Copied(k) == \E q \in Requests :
                pc[q] = "store" /\ asked[q].key = k /\ ActiveRow(held[q])

Dead(k) == table[k] # None /\ ~Active(k) /\ ~Copied(k)

Less(n) == IF n > 0 THEN n - 1 ELSE 0
More(n) == IF n < TTL THEN n + 1 ELSE TTL

Tick == /\ cache' = [k \in Keys |-> [cache[k] EXCEPT !.left = Less(@)]]
        /\ quiet' = [k \in Keys |-> IF Dead(k) THEN More(quiet[k]) ELSE 0]
        /\ UNCHANGED <<table, requests, revoking, acked>>

\* The process dies and starts again: the cache and every request are gone.
Restart == /\ cache' = [k \in Keys |-> NoEntry]
           /\ pc' = [q \in Requests |-> "idle"]
           /\ held' = [q \in Requests |-> None]
           /\ verdict' = [q \in Requests |-> "none"]
           /\ revoking' = [a \in Admins |-> {}]
           /\ UNCHANGED <<table, asked, acked, quiet>>

Serve(q) == Hit(q) \/ Miss(q) \/ Fetch(q) \/ FetchFails(q) \/ Store(q)

Next == \/ \E q \in Requests : Serve(q) \/ \E k \in Keys, s \in Scopes : Ask(q, k, s)
        \/ \E k \in Keys : \/ \E s \in KeyScopes : Create(k, s)
                           \/ \E a \in Admins : \/ RevokeInvalidate(a, k)
                                                \/ RevokeDeactivate(a, k)
                                                \/ RevokeFails(a, k)
        \/ Tick
        \/ Restart

Spec == Init /\ [][Next]_vars

\* Time passes, and a request once begun is served: Validate waits for the
\* mutex, which is never held across a call, and for one query of its own.
FairSpec == Spec /\ WF_vars(Tick) /\ \A q \in Requests : WF_vars(Serve(q))

-----------------------------------------------------------------------------
(* The abstract key authority                                              *)

Servable(k) == Copied(k) \/ (Live(cache[k]) /\ ActiveRow(cache[k].row))

\* "fading" covers the time a revoked key is still cached or in a request's hands.
Authority == INSTANCE KeyAuthority WITH
    status <- [k \in Keys |-> IF table[k] = None THEN "unknown"
                              ELSE IF Active(k) THEN "valid"
                              ELSE IF Servable(k) THEN "fading" ELSE "dead"],
    scope  <- [k \in Keys |-> IF table[k] = None THEN "none" ELSE table[k].scope]

-----------------------------------------------------------------------------
(* Properties                                                              *)

\* An entry never outlives TTL; a request holds a row only between its query
\* and its store.
TypeOK ==
    /\ table \in [Keys -> Rows \cup {None}]
    /\ cache \in [Keys -> [row : Rows \cup {None}, left : 0..TTL]]
    /\ pc \in [Requests -> {"idle", "lookup", "fetch", "store"}]
    /\ asked \in [Requests -> [key : Keys, want : Scopes] \cup {None}]
    /\ \A q \in Requests : pc[q] # "idle" => asked[q] # None
    /\ held \in [Requests -> Rows \cup {None}]
    /\ \A q \in Requests : pc[q] # "store" => held[q] = None
    /\ verdict \in [Requests -> {"none", "ok", "no", "error"}]
    /\ revoking \in [Admins -> SUBSET Keys]
    /\ acked \in SUBSET Keys
    /\ quiet \in [Keys -> 0..TTL]

Answers(q, v) == verdict[q] = "none" /\ verdict'[q] = v

\* A revoked key is accepted for less than TTL after the last request that had
\* read it before is done; no order of fills, revocations and restarts makes a
\* cached copy live longer.
BoundedStaleness ==
    [][\A q \in Requests : Answers(q, "ok") =>
          Active(asked[q].key) \/ quiet[asked[q].key] < TTL]_vars

\* A key that is active and covers the scope is never refused: neither a failed
\* query nor an older cached answer locks its owner out.
NoLockOut ==
    [][\A q \in Requests : Answers(q, "no") =>
          LET k == asked[q].key
          IN  ~(Active(k) /\ Authority!Grants(table[k].scope, asked[q].want))]_vars

\* A revoked key is forgotten for good, however often it is asked for.
RevocationFinal ==
    \A k \in Keys : (table[k] # None /\ ~Active(k)) ~> [](~Servable(k))

\* The moment it is forgotten: once TTL has passed with the key revoked and no
\* copy from before in a request's hands, no step, restarts and revocations of
\* keys already dead included, lets the cache or a request serve it again.
FadedForGood ==
    [][\A k \in Keys : quiet[k] = TTL => quiet'[k] = TTL /\ ~Servable(k) /\ ~Servable(k)']_vars

\* The test APIKeyRevoke_KeyBecomesInvalidAfterRevoke expects a key to be
\* invalid once Revoke has returned: the cache must not serve it any more.
RevokedNotServed ==
    \A k \in acked : ~(Live(cache[k]) /\ ActiveRow(cache[k].row))

\* Every answer of the service is one KeyAuthority allows.
AnswersAsAuthority == Authority!Spec
=============================================================================
