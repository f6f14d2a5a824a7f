------------------------- MODULE APIKeyCacheProofs --------------------------
(***************************************************************************)
(* Proofs about APIKeyCache for any keys, any TTL and any number of        *)
(* concurrent requests and administrators.                                 *)
(***************************************************************************)
EXTENDS APIKeyCache, TLAPS

\* A copy of k's row may be out of date only in being active too long.
CopyOf(k, row) ==
    row # None => /\ table[k] # None
                  /\ row.scope = table[k].scope
                  /\ table[k].active => row.active

\* The life of a cached active row and the time since its key is dead add up
\* to at most TTL; only strings that are no keys are cached as absent.
KeyInv(k) ==
    /\ k \in Bogus => table[k] = None
    /\ CopyOf(k, cache[k].row)
    /\ Live(cache[k]) /\ k \notin Bogus => cache[k].row # None
    /\ ~Dead(k) => quiet[k] = 0
    /\ ActiveRow(cache[k].row) => cache[k].left + quiet[k] <= TTL

RequestInv(q) ==
    LET k == asked[q].key
    IN  /\ pc[q] # "idle" => table[k] # None \/ k \in Bogus
        /\ pc[q] = "store" => CopyOf(k, held[q]) /\ (k \notin Bogus => held[q] # None)
        /\ pc[q] # "idle" => verdict[q] = "none"

IInv == /\ TypeOK
        /\ \A k \in Keys : KeyInv(k)
        /\ \A q \in Requests : RequestInv(q)
        /\ \A a \in Admins : \A k \in revoking[a] : table[k] # None

-----------------------------------------------------------------------------
(* The inductive invariant                                                 *)

LEMMA InitEstablishes == Init => IInv
<1> SUFFICES ASSUME Init PROVE IInv
  OBVIOUS
<1>0. TTL \in Nat /\ 0 \in 0..TTL /\ [row |-> None, left |-> 0].left = 0
  BY CacheAssumption
<1>1. TypeOK
  <2>1. cache \in [Keys -> [row : Rows \cup {None}, left : 0..TTL]]
    BY <1>0 DEF Init, NoEntry
  <2>2. quiet \in [Keys -> 0..TTL]
    BY <1>0 DEF Init
  <2> QED  BY <2>1, <2>2 DEF Init, TypeOK
<1>2. ASSUME NEW k \in Keys PROVE KeyInv(k)
  <2>1. table[k] = None /\ cache[k].row = None /\ cache[k].left = 0 /\ quiet[k] = 0
    BY DEF Init, NoEntry
  <2> QED  BY <2>1 DEF KeyInv, CopyOf, Live, ActiveRow
<1>3. ASSUME NEW q \in Requests PROVE RequestInv(q)
  BY DEF Init, RequestInv
<1>4. \A a \in Admins : \A k \in revoking[a] : table[k] # None
  BY DEF Init
<1> QED  BY <1>1, <1>2, <1>3, <1>4 DEF IInv

\* What a step that touches neither the table nor k's entry has to keep.
LEMMA KeyKept ==
    ASSUME NEW k \in Keys, KeyInv(k), Dead(k) => Dead(k)',
           table' = table, cache'[k] = cache[k], quiet'[k] = quiet[k]
    PROVE  KeyInv(k)'
BY DEF KeyInv, CopyOf, Live, ActiveRow

\* The conjuncts of IInv that steps of a request disturb.
LEMMA AskPreserves ==
    ASSUME IInv, NEW q \in Requests, NEW k \in Keys, NEW s \in Scopes, Ask(q, k, s)
    PROVE  IInv'
<1> DEFINE new == [key |-> k, want |-> s]
<1>1. /\ pc[q] = "idle" /\ (table[k] # None \/ k \in Bogus)
      /\ pc' = [pc EXCEPT ![q] = "lookup"]
      /\ asked' = [asked EXCEPT ![q] = new]
      /\ verdict' = [verdict EXCEPT ![q] = "none"]
      /\ UNCHANGED <<table, cache, held, revoking, acked, quiet>>
  BY DEF Ask
<1>2. TypeOK /\ (\A j \in Keys : KeyInv(j)) /\ (\A p \in Requests : RequestInv(p))
  BY DEF IInv
<1>3. new \in [key : Keys, want : Scopes] /\ new # None /\ new.key = k
  BY CacheAssumption DEF Scopes
<1> HIDE DEF new
<1>4. TypeOK'
  <2>1. /\ asked' \in [Requests -> [key : Keys, want : Scopes] \cup {None}]
        /\ pc' \in [Requests -> {"idle", "lookup", "fetch", "store"}]
        /\ verdict' \in [Requests -> {"none", "ok", "no", "error"}]
    BY <1>1, <1>2, <1>3 DEF TypeOK
  <2>2. ASSUME NEW p \in Requests
        PROVE  /\ pc'[p] # "idle" => asked'[p] # None
               /\ pc'[p] # "store" => held'[p] = None
    <3>1. CASE p = q
      BY <1>1, <1>2, <1>3, <3>1 DEF TypeOK
    <3>2. CASE p # q
      BY <1>1, <1>2, <3>2 DEF TypeOK
    <3> QED  BY <3>1, <3>2
  <2> QED  BY <1>1, <1>2, <2>1, <2>2 DEF TypeOK
<1>5. ASSUME NEW p \in Requests
      PROVE  /\ pc'[p] = "store" <=> pc[p] = "store"
             /\ pc'[p] = "store" => asked'[p] = asked[p] /\ held'[p] = held[p]
  <2>1. CASE p = q
    <3>1. pc'[p] = "lookup"
      BY <1>1, <1>2, <2>1 DEF TypeOK
    <3> QED  BY <1>1, <2>1, <3>1
  <2>2. CASE p # q
    <3>1. pc'[p] = pc[p] /\ asked'[p] = asked[p] /\ held' = held
      BY <1>1, <1>2, <2>2 DEF TypeOK
    <3> QED  BY <3>1
  <2> QED  BY <2>1, <2>2
<1>6. ASSUME NEW j \in Keys PROVE KeyInv(j)'
  <2>1. Dead(j) => Dead(j)'
    BY <1>1, <1>5 DEF Dead, Active, Copied, ActiveRow
  <2> QED  BY <1>1, <1>2, <2>1, KeyKept
<1>7. ASSUME NEW p \in Requests PROVE RequestInv(p)'
  <2>1. CASE p = q
    <3>1. pc'[q] = "lookup" /\ asked'[q].key = k /\ verdict'[q] = "none"
      BY <1>1, <1>2, <1>3 DEF TypeOK
    <3> QED  BY <1>1, <2>1, <3>1 DEF RequestInv
  <2>2. CASE p # q
    <3>1. /\ pc'[p] = pc[p] /\ asked'[p] = asked[p] /\ held'[p] = held[p]
          /\ verdict'[p] = verdict[p] /\ table' = table
      BY <1>1, <1>2, <2>2 DEF TypeOK
    <3>2. RequestInv(p)
      BY <1>2
    <3> QED  BY <3>1, <3>2 DEF RequestInv, CopyOf
  <2> QED  BY <2>1, <2>2
<1> QED  BY <1>1, <1>4, <1>6, <1>7 DEF IInv

\* Hit, Miss and FetchFails.
LEMMA MoveOnPreserves ==
    ASSUME IInv, NEW q \in Requests, Hit(q) \/ Miss(q) \/ FetchFails(q)
    PROVE  IInv'
<1>0. PICK to \in {"idle", "fetch"} :
        /\ pc[q] \in {"lookup", "fetch"} /\ pc' = [pc EXCEPT ![q] = to]
        /\ UNCHANGED <<table, cache, asked, held, revoking, acked, quiet>>
  BY DEF Hit, Miss, FetchFails, AfterError
<1>1. verdict' \in [Requests -> {"none", "ok", "no", "error"}]
  <2>1. verdict \in [Requests -> {"none", "ok", "no", "error"}]
    BY DEF IInv, TypeOK
  <2>2. \A row, want : Answer(row, want) \in {"ok", "no"}
    BY DEF Answer
  <2> QED  BY <2>1, <2>2 DEF Hit, Miss, FetchFails
<1>2. TypeOK /\ (\A j \in Keys : KeyInv(j)) /\ (\A p \in Requests : RequestInv(p))
  BY DEF IInv
<1>4. TypeOK'
  BY <1>0, <1>1, <1>2 DEF TypeOK
<1>5. ASSUME NEW p \in Requests PROVE pc'[p] = "store" <=> pc[p] = "store"
  BY <1>0, <1>2 DEF TypeOK
<1>6. ASSUME NEW j \in Keys PROVE KeyInv(j)'
  <2>1. Dead(j) => Dead(j)'
    BY <1>0, <1>5 DEF Dead, Active, Copied, ActiveRow
  <2> QED  BY <1>0, <1>2, <2>1, KeyKept
<1>7. ASSUME NEW p \in Requests PROVE RequestInv(p)'
  <2>1. pc'[p] # "idle" => pc[p] # "idle" /\ verdict'[p] = verdict[p]
    <3>1. CASE p = q
      <4>1. Hit(q) \/ FetchFails(q) => pc'[q] = "idle"
        BY <1>2 DEF TypeOK, Hit, FetchFails
      <4>2. Miss(q) => verdict' = verdict
        BY DEF Miss
      <4> QED  BY <1>0, <3>1, <4>1, <4>2
    <3>2. CASE p # q
      BY <1>0, <1>2, <3>2 DEF TypeOK, Hit, Miss, FetchFails
    <3> QED  BY <3>1, <3>2
  <2>2. RequestInv(p)
    BY <1>2
  <2> QED  BY <1>0, <1>5, <2>1, <2>2 DEF RequestInv, CopyOf
<1> QED  BY <1>0, <1>4, <1>6, <1>7 DEF IInv

LEMMA FetchPreserves ==
    ASSUME IInv, NEW q \in Requests, Fetch(q)
    PROVE  IInv'
<1> DEFINE k == asked[q].key
<1>1. /\ pc[q] = "fetch" /\ pc' = [pc EXCEPT ![q] = "store"]
      /\ held' = [held EXCEPT ![q] = table[k]]
      /\ UNCHANGED <<table, cache, asked, verdict, revoking, acked, quiet>>
  BY DEF Fetch
<1>2. TypeOK /\ (\A j \in Keys : KeyInv(j)) /\ (\A p \in Requests : RequestInv(p))
  BY DEF IInv
<1>3. k \in Keys /\ table[k] \in Rows \cup {None}
  BY <1>1, <1>2 DEF TypeOK
<1>4. TypeOK'
  BY <1>1, <1>2, <1>3 DEF TypeOK
<1>5. pc'[q] = "store" /\ held'[q] = table[k]
      /\ \A p \in Requests \ {q} : pc'[p] = pc[p] /\ held'[p] = held[p]
  BY <1>1, <1>2 DEF TypeOK
<1>6. ASSUME NEW j \in Keys PROVE KeyInv(j)'
  <2>1. Dead(j) => Dead(j)'
    BY <1>1, <1>5 DEF Dead, Active, Copied, ActiveRow
  <2> QED  BY <1>1, <1>2, <2>1, KeyKept
<1>7. ASSUME NEW p \in Requests PROVE RequestInv(p)'
  <2>1. RequestInv(p)
    BY <1>2
  <2>2. CASE p = q
    BY <1>1, <1>5, <2>1, <2>2 DEF RequestInv, CopyOf
  <2>3. CASE p # q
    BY <1>1, <1>5, <2>1, <2>3 DEF RequestInv, CopyOf
  <2> QED  BY <2>2, <2>3
<1> QED  BY <1>1, <1>4, <1>6, <1>7 DEF IInv

LEMMA StorePreserves ==
    ASSUME IInv, NEW q \in Requests, Store(q)
    PROVE  IInv'
<1> DEFINE k == asked[q].key
           entry == [row |-> held[q], left |-> TTL]
<1>1. /\ pc[q] = "store" /\ pc' = [pc EXCEPT ![q] = "idle"]
      /\ cache' = [cache EXCEPT ![k] = entry]
      /\ held' = [held EXCEPT ![q] = None]
      /\ verdict' = [verdict EXCEPT ![q] = Answer(held[q], asked[q].want)]
      /\ UNCHANGED <<table, asked, revoking, acked, quiet>>
  BY DEF Store, Entry
<1>2. TypeOK /\ (\A j \in Keys : KeyInv(j)) /\ (\A p \in Requests : RequestInv(p))
  BY DEF IInv
<1>3. k \in Keys /\ held[q] \in Rows \cup {None} /\ TTL \in Nat /\ TTL \in 0..TTL
  BY <1>1, <1>2, CacheAssumption DEF TypeOK
<1>3a. entry.row = held[q] /\ entry.left = TTL
       /\ entry \in [row : Rows \cup {None}, left : 0..TTL]
  BY <1>3
<1>3b. Answer(held[q], asked[q].want) \in {"none", "ok", "no", "error"}
  BY DEF Answer
<1> HIDE DEF k, entry
<1>4. TypeOK'
  <2>1. cache' \in [Keys -> [row : Rows \cup {None}, left : 0..TTL]]
    BY <1>1, <1>2, <1>3a DEF TypeOK
  <2>2. verdict' \in [Requests -> {"none", "ok", "no", "error"}]
    BY <1>1, <1>2, <1>3b DEF TypeOK
  <2>3. /\ held' \in [Requests -> Rows \cup {None}]
        /\ pc' \in [Requests -> {"idle", "lookup", "fetch", "store"}]
        /\ \A p \in Requests : pc'[p] # "idle" => asked'[p] # None
        /\ \A p \in Requests : pc'[p] # "store" => held'[p] = None
    BY <1>1, <1>2 DEF TypeOK
  <2> QED  BY <1>1, <1>2, <2>1, <2>2, <2>3 DEF TypeOK
<1>5. pc'[q] = "idle"
      /\ \A p \in Requests \ {q} :
            pc'[p] = pc[p] /\ held'[p] = held[p] /\ verdict'[p] = verdict[p]
  BY <1>1, <1>2 DEF TypeOK
<1>6. ASSUME NEW j \in Keys PROVE KeyInv(j)'
  <2>1. Dead(j) => Dead(j)'
    BY <1>1, <1>5 DEF Dead, Active, Copied, ActiveRow
  <2>2. CASE j # k
    <3>1. cache'[j] = cache[j]
      BY <1>1, <1>2, <2>2 DEF TypeOK
    <3> QED  BY <1>1, <1>2, <2>1, <3>1, KeyKept
  <2>3. CASE j = k
    <3>1. cache'[k].row = held[q] /\ cache'[k].left = TTL
      BY <1>1, <1>2, <1>3, <1>3a DEF TypeOK
    <3>2. CopyOf(k, held[q]) /\ (k \notin Bogus => held[q] # None)
      BY <1>1, <1>2 DEF RequestInv, k
    <3>3. KeyInv(k)
      BY <1>2, <1>3
    <3>4. ActiveRow(held[q]) => quiet[k] = 0
      BY <1>1, <3>3 DEF KeyInv, Dead, Copied, k
    <3>5. ActiveRow(held[q]) => TTL + quiet[k] <= TTL
      BY <1>3, <3>4
    <3> QED  BY <1>1, <2>1, <2>3, <3>1, <3>2, <3>3, <3>5 DEF KeyInv, CopyOf, ActiveRow
  <2> QED  BY <2>2, <2>3
<1>7. ASSUME NEW p \in Requests PROVE RequestInv(p)'
  <2>1. RequestInv(p)
    BY <1>2
  <2>2. CASE p = q
    BY <1>5, <2>2 DEF RequestInv
  <2>3. CASE p # q
    BY <1>1, <1>5, <2>1, <2>3 DEF RequestInv, CopyOf
  <2> QED  BY <2>2, <2>3
<1> QED  BY <1>1, <1>4, <1>6, <1>7 DEF IInv

LEMMA NoneIsNoRow == None \notin Rows
<1>1. KeyScopes = {"locate", "update", "both"}
  BY DEF KeyScopes, Scopes
<1> QED  BY <1>1, CacheAssumption DEF Rows

LEMMA CreatePreserves ==
    ASSUME IInv, NEW k \in Keys, NEW s \in KeyScopes, Create(k, s)
    PROVE  IInv'
<1> DEFINE row == [scope |-> s, active |-> TRUE]
<1>1. /\ k \notin Bogus /\ table[k] = None
      /\ table' = [table EXCEPT ![k] = row]
      /\ UNCHANGED <<cache, pc, asked, held, verdict, revoking, acked, quiet>>
  BY DEF Create, requests
<1>2. TypeOK /\ (\A j \in Keys : KeyInv(j)) /\ (\A p \in Requests : RequestInv(p))
  BY DEF IInv
<1>3. row \in Rows /\ row # None /\ row.active = TRUE
  <2>1. row \in Rows
    BY DEF Rows
  <2>2. row # None
    BY <2>1, NoneIsNoRow
  <2> QED  BY <2>1, <2>2
<1> HIDE DEF row
<1>4. table'[k] = row /\ \A j \in Keys \ {k} : table'[j] = table[j]
  BY <1>1, <1>2 DEF TypeOK
<1>5. TypeOK'
  <2>1. table' \in [Keys -> Rows \cup {None}]
    BY <1>1, <1>2, <1>3 DEF TypeOK
  <2> QED  BY <1>1, <1>2, <2>1 DEF TypeOK
<1>6. ASSUME NEW j \in Keys PROVE KeyInv(j)'
  <2>1. KeyInv(j)
    BY <1>2
  <2>2. CASE j = k
    <3>1. cache[k].row = None /\ quiet[k] = 0
      BY <1>1, <2>1, <2>2 DEF KeyInv, CopyOf, Dead
    <3>2. cache'[k] = cache[k] /\ quiet'[k] = quiet[k]
      BY <1>1
    <3> QED  BY <1>1, <1>4, <2>1, <2>2, <3>1, <3>2 DEF KeyInv, CopyOf, ActiveRow, Live
  <2>3. CASE j # k
    <3>1. table'[j] = table[j]
      BY <1>4, <2>3
    <3> QED  BY <1>1, <2>1, <3>1 DEF KeyInv, CopyOf, ActiveRow, Live, Dead, Active, Copied
  <2> QED  BY <2>2, <2>3
<1>7. ASSUME NEW p \in Requests PROVE RequestInv(p)'
  <2>1. RequestInv(p)
    BY <1>2
  <2>2. CASE pc[p] = "idle"
    BY <1>1, <2>2 DEF RequestInv
  <2>3. CASE pc[p] # "idle"
    <3>1. asked[p].key \in Keys /\ asked[p].key # k
      BY <1>1, <1>2, <2>1, <2>3 DEF RequestInv, TypeOK
    <3>2. table'[asked[p].key] = table[asked[p].key]
      BY <1>4, <3>1
    <3> QED  BY <1>1, <2>1, <3>2 DEF RequestInv, CopyOf
  <2> QED  BY <2>2, <2>3
<1>8. ASSUME NEW a \in Admins, NEW j \in revoking'[a] PROVE table'[j] # None
  <2>1. j \in Keys /\ table[j] # None
    BY <1>1, <1>2 DEF IInv, TypeOK
  <2> QED  BY <1>1, <1>4, <2>1
<1> QED  BY <1>5, <1>6, <1>7, <1>8 DEF IInv

LEMMA InvalidatePreserves ==
    ASSUME IInv, NEW a \in Admins, NEW k \in Keys, RevokeInvalidate(a, k)
    PROVE  IInv'
<1>1. /\ table[k] # None
      /\ cache' = [cache EXCEPT ![k] = NoEntry]
      /\ revoking' = [revoking EXCEPT ![a] = {k}]
      /\ UNCHANGED <<table, pc, asked, held, verdict, acked, quiet>>
  BY DEF RevokeInvalidate, requests
<1>2. TypeOK /\ (\A j \in Keys : KeyInv(j)) /\ (\A p \in Requests : RequestInv(p))
  BY DEF IInv
<1>3. NoEntry \in [row : Rows \cup {None}, left : 0..TTL] /\ NoEntry.row = None
      /\ NoEntry.left = 0
  BY CacheAssumption DEF NoEntry
<1>4. TypeOK'
  <2>1. cache' \in [Keys -> [row : Rows \cup {None}, left : 0..TTL]]
    BY <1>1, <1>2, <1>3 DEF TypeOK
  <2>2. revoking' \in [Admins -> SUBSET Keys]
    BY <1>1, <1>2 DEF TypeOK
  <2> QED  BY <1>1, <1>2, <2>1, <2>2 DEF TypeOK
<1>5. ASSUME NEW j \in Keys PROVE KeyInv(j)'
  <2>1. Dead(j)' = Dead(j)
    BY <1>1 DEF Dead, Active, Copied
  <2>2. CASE j # k
    <3>1. cache'[j] = cache[j]
      BY <1>1, <1>2, <2>2 DEF TypeOK
    <3> QED  BY <1>1, <1>2, <2>1, <3>1, KeyKept
  <2>3. CASE j = k
    <3>1. cache'[k] = NoEntry
      BY <1>1, <1>2 DEF TypeOK
    <3>2. KeyInv(k)
      BY <1>2
    <3> QED  BY <1>1, <1>3, <2>1, <2>3, <3>1, <3>2 DEF KeyInv, CopyOf, ActiveRow, Live
  <2> QED  BY <2>2, <2>3
<1>6. ASSUME NEW p \in Requests PROVE RequestInv(p)'
  BY <1>1, <1>2 DEF RequestInv, CopyOf
<1>7. ASSUME NEW b \in Admins, NEW j \in revoking'[b] PROVE table'[j] # None
  <2>1. j = k \/ j \in revoking[b]
    BY <1>1, <1>2 DEF TypeOK
  <2> QED  BY <1>1, <2>1 DEF IInv
<1> QED  BY <1>4, <1>5, <1>6, <1>7 DEF IInv

\* RevokeDeactivate, and RevokeFails whether or not the row was changed.
LEMMA DeactivatePreserves ==
    ASSUME IInv, NEW a \in Admins, NEW k \in Keys,
           RevokeDeactivate(a, k) \/ RevokeFails(a, k)
    PROVE  IInv'
<1> DEFINE row == [table[k] EXCEPT !.active = FALSE]
<1>1. /\ k \in revoking[a]
      /\ table' = [table EXCEPT ![k] = row] \/ table' = table
      /\ revoking' = [revoking EXCEPT ![a] = {}]
      /\ acked' = acked \cup {k} \/ acked' = acked
      /\ UNCHANGED <<cache, pc, asked, held, verdict, quiet>>
  BY DEF RevokeDeactivate, RevokeFails, requests
<1>2. TypeOK /\ (\A j \in Keys : KeyInv(j)) /\ (\A p \in Requests : RequestInv(p))
  BY DEF IInv
<1>3. table[k] # None /\ table[k] \in Rows
  BY <1>1, <1>2 DEF IInv, TypeOK
<1>4. row \in Rows /\ row # None /\ row.active = FALSE /\ row.scope = table[k].scope
  BY <1>3, CacheAssumption DEF Rows, KeyScopes, Scopes
<1> HIDE DEF row
<1>5. \A j \in Keys : \/ table'[j] = table[j]
                       \/ /\ table[j] # None /\ table'[j] # None
                          /\ table'[j].active = FALSE
                          /\ table'[j].scope = table[j].scope
  BY <1>1, <1>2, <1>3, <1>4 DEF TypeOK
<1>6. TypeOK'
  <2>1. table' \in [Keys -> Rows \cup {None}]
    BY <1>1, <1>2, <1>4 DEF TypeOK
  <2>2. revoking' \in [Admins -> SUBSET Keys] /\ acked' \in SUBSET Keys
    BY <1>1, <1>2 DEF TypeOK
  <2> QED  BY <1>1, <1>2, <2>1, <2>2 DEF TypeOK
<1>7. ASSUME NEW j \in Keys, NEW copy, CopyOf(j, copy) PROVE CopyOf(j, copy)'
  <2>1. CASE table'[j] = table[j]
    BY <1>7, <2>1 DEF CopyOf
  <2>2. CASE table'[j] # table[j]
    BY <1>5, <1>7, <2>2 DEF CopyOf
  <2> QED  BY <2>1, <2>2
<1>8. ASSUME NEW j \in Keys PROVE KeyInv(j)'
  <2>1. KeyInv(j)
    BY <1>2
  <2>2. Dead(j) => Dead(j)'
    BY <1>1, <1>5 DEF Dead, Active, Copied, ActiveRow
  <2>3. table[j] = None => table'[j] = None
    BY <1>5
  <2>4. CopyOf(j, cache[j].row)'
    BY <1>1, <1>7, <2>1 DEF KeyInv
  <2> QED  BY <1>1, <2>1, <2>2, <2>3, <2>4 DEF KeyInv, ActiveRow, Live
<1>9. ASSUME NEW p \in Requests PROVE RequestInv(p)'
  <2>1. RequestInv(p)
    BY <1>2
  <2>2. CASE pc[p] = "idle"
    BY <1>1, <2>2 DEF RequestInv
  <2>3. CASE pc[p] # "idle"
    <3>1. asked[p].key \in Keys
      BY <1>2, <2>3 DEF TypeOK
    <3>2. table[asked[p].key] # None => table'[asked[p].key] # None
      BY <1>5, <3>1
    <3>3. pc[p] = "store" => CopyOf(asked[p].key, held[p])'
      BY <1>1, <1>7, <2>1, <3>1 DEF RequestInv
    <3> QED  BY <1>1, <2>1, <3>2, <3>3 DEF RequestInv
  <2> QED  BY <2>2, <2>3
<1>10. ASSUME NEW b \in Admins, NEW j \in revoking'[b] PROVE table'[j] # None
  <2>1. j \in revoking[b] /\ j \in Keys
    BY <1>1, <1>2 DEF TypeOK
  <2>2. table[j] # None
    BY <2>1 DEF IInv
  <2> QED  BY <1>5, <2>1, <2>2
<1> QED  BY <1>6, <1>8, <1>9, <1>10 DEF IInv

LEMMA TickPreserves ==
    ASSUME IInv, Tick
    PROVE  IInv'
<1>1. /\ cache' = [k \in Keys |-> [cache[k] EXCEPT !.left = Less(@)]]
      /\ quiet' = [k \in Keys |-> IF Dead(k) THEN More(quiet[k]) ELSE 0]
      /\ UNCHANGED <<table, pc, asked, held, verdict, revoking, acked>>
  BY DEF Tick, requests
<1>2. TypeOK /\ (\A j \in Keys : KeyInv(j)) /\ (\A p \in Requests : RequestInv(p))
  BY DEF IInv
<1>3. ASSUME NEW k \in Keys
      PROVE  /\ cache'[k] \in [row : Rows \cup {None}, left : 0..TTL]
             /\ cache'[k].row = cache[k].row
             /\ cache[k].left \in 0..TTL /\ cache'[k].left \in 0..TTL
             /\ cache[k].left = 0 => cache'[k].left = 0
             /\ cache[k].left # 0 => cache'[k].left = cache[k].left - 1
  <2>1. cache[k] \in [row : Rows \cup {None}, left : 0..TTL]
    BY <1>2 DEF TypeOK
  <2>2. cache'[k] = [cache[k] EXCEPT !.left = Less(cache[k].left)]
    BY <1>1
  <2>3. cache[k].left \in 0..TTL /\ TTL \in Nat
    BY <2>1, CacheAssumption
  <2>4. /\ Less(cache[k].left) \in 0..TTL
        /\ cache[k].left = 0 => Less(cache[k].left) = 0
        /\ cache[k].left # 0 => Less(cache[k].left) = cache[k].left - 1
    BY <2>3 DEF Less
  <2> QED  BY <2>1, <2>2, <2>3, <2>4
<1>4. ASSUME NEW k \in Keys
      PROVE  /\ quiet[k] \in 0..TTL /\ quiet'[k] \in 0..TTL
             /\ ~Dead(k) => quiet'[k] = 0
             /\ quiet'[k] <= quiet[k] + 1
  <2>1. quiet'[k] = IF Dead(k) THEN More(quiet[k]) ELSE 0
    BY <1>1
  <2>2. quiet[k] \in 0..TTL /\ TTL \in Nat
    BY <1>2, CacheAssumption DEF TypeOK
  <2>3. CASE Dead(k)
    <3>1. quiet'[k] = More(quiet[k])
      BY <2>1, <2>3
    <3> QED  BY <2>2, <2>3, <3>1 DEF More
  <2>4. CASE ~Dead(k)
    <3>1. quiet'[k] = 0
      BY <2>1, <2>4
    <3> QED  BY <2>2, <3>1
  <2> QED  BY <2>3, <2>4
<1>5. TypeOK'
  <2>1. cache' \in [Keys -> [row : Rows \cup {None}, left : 0..TTL]]
    BY <1>1, <1>3
  <2>2. quiet' \in [Keys -> 0..TTL]
    BY <1>1, <1>4
  <2> QED  BY <1>1, <1>2, <2>1, <2>2 DEF TypeOK
<1>6. ASSUME NEW k \in Keys PROVE KeyInv(k)'
  <2>1. KeyInv(k)
    BY <1>2
  <2>2. Dead(k)' = Dead(k)
    BY <1>1 DEF Dead, Active, Copied
  <2>3. Live(cache'[k]) => Live(cache[k])
    BY <1>3 DEF Live
  <2>4. ActiveRow(cache'[k].row) => cache'[k].left + quiet'[k] <= TTL
    <3>1. SUFFICES ASSUME ActiveRow(cache[k].row)
                   PROVE  cache'[k].left + quiet'[k] <= TTL
      BY <1>3
    <3>2. cache[k].left + quiet[k] <= TTL
      BY <2>1, <3>1 DEF KeyInv
    <3> QED  BY <1>3, <1>4, <3>2, CacheAssumption
  <2> QED  BY <1>1, <1>3, <1>4, <2>1, <2>2, <2>3, <2>4 DEF KeyInv, CopyOf, Live
<1>7. ASSUME NEW p \in Requests PROVE RequestInv(p)'
  BY <1>1, <1>2 DEF RequestInv, CopyOf
<1> QED  BY <1>1, <1>5, <1>6, <1>7 DEF IInv

LEMMA RestartPreserves ==
    ASSUME IInv, Restart
    PROVE  IInv'
<1>1. /\ cache' = [k \in Keys |-> NoEntry]
      /\ pc' = [q \in Requests |-> "idle"]
      /\ held' = [q \in Requests |-> None]
      /\ verdict' = [q \in Requests |-> "none"]
      /\ revoking' = [a \in Admins |-> {}]
      /\ UNCHANGED <<table, asked, acked, quiet>>
  BY DEF Restart
<1>2. TypeOK /\ \A j \in Keys : KeyInv(j)
  BY DEF IInv
<1>3. NoEntry \in [row : Rows \cup {None}, left : 0..TTL] /\ NoEntry.row = None
      /\ NoEntry.left = 0
  BY CacheAssumption DEF NoEntry
<1>4. TypeOK'
  <2>1. cache' \in [Keys -> [row : Rows \cup {None}, left : 0..TTL]]
    BY <1>1, <1>3
  <2> QED  BY <1>1, <1>2, <2>1 DEF TypeOK
<1>5. ASSUME NEW k \in Keys PROVE KeyInv(k)'
  <2>1. KeyInv(k)
    BY <1>2
  <2>2. Dead(k) => Dead(k)'
    BY <1>1 DEF Dead, Active, Copied
  <2> QED  BY <1>1, <1>3, <2>1, <2>2 DEF KeyInv, CopyOf, ActiveRow, Live
<1>6. ASSUME NEW p \in Requests PROVE RequestInv(p)'
  BY <1>1 DEF RequestInv
<1>7. \A a \in Admins : \A k \in revoking'[a] : table'[k] # None
  BY <1>1
<1> QED  BY <1>4, <1>5, <1>6, <1>7 DEF IInv

LEMMA StutterPreserves ==
    ASSUME IInv, UNCHANGED vars
    PROVE  IInv'
<1>1. UNCHANGED <<table, cache, pc, asked, held, verdict, revoking, acked, quiet>>
  BY DEF vars, requests
<1>2. TypeOK'
  BY <1>1 DEF IInv, TypeOK
<1>3. ASSUME NEW k \in Keys PROVE KeyInv(k)'
  <2>1. KeyInv(k) /\ Dead(k)' = Dead(k)
    BY <1>1 DEF IInv, Dead, Active, Copied
  <2> QED  BY <1>1, <2>1, KeyKept
<1>4. ASSUME NEW p \in Requests PROVE RequestInv(p)'
  BY <1>1 DEF IInv, RequestInv, CopyOf
<1> QED  BY <1>1, <1>2, <1>3, <1>4 DEF IInv

LEMMA NextPreserves == IInv /\ [Next]_vars => IInv'
<1> SUFFICES ASSUME IInv, [Next]_vars PROVE IInv'
  OBVIOUS
<1>1. ASSUME NEW q \in Requests, Serve(q) PROVE IInv'
  BY <1>1, MoveOnPreserves, FetchPreserves, StorePreserves DEF Serve
<1>2. ASSUME NEW q \in Requests, NEW k \in Keys, NEW s \in Scopes, Ask(q, k, s)
      PROVE  IInv'
  BY <1>2, AskPreserves
<1>3. ASSUME NEW k \in Keys, NEW s \in KeyScopes, Create(k, s) PROVE IInv'
  BY <1>3, CreatePreserves
<1>4. ASSUME NEW k \in Keys, NEW a \in Admins,
             RevokeInvalidate(a, k) \/ RevokeDeactivate(a, k) \/ RevokeFails(a, k)
      PROVE  IInv'
  BY <1>4, InvalidatePreserves, DeactivatePreserves
<1> QED
  BY <1>1, <1>2, <1>3, <1>4, TickPreserves, RestartPreserves, StutterPreserves DEF Next

\* IInv holds in every reachable state.
THEOREM CacheInvariant == Spec => []IInv
BY InitEstablishes, NextPreserves, PTL DEF Spec

\* No cached entry outlives TTL, whatever fills, revocations and restarts meet.
THEOREM CacheTypeCorrect == Spec => []TypeOK
<1>1. IInv => TypeOK
  BY DEF IInv
<1> QED  BY <1>1, CacheInvariant, PTL

-----------------------------------------------------------------------------
(* What an answer rests on                                                 *)

\* q is answered from row: a copy of its key's row, in use for less than TTL
\* after the key is dead.
AnsweredFrom(q, row) ==
    LET k == asked[q].key
    IN  /\ verdict' = [verdict EXCEPT ![q] = Answer(row, asked[q].want)]
        /\ k \in Keys
        /\ asked[q].want \in Scopes
        /\ CopyOf(k, row)
        /\ table[k] # None => row # None
        /\ ActiveRow(row) => quiet[k] < TTL /\ Servable(k)

LEMMA AnswerSource ==
    ASSUME IInv, NEW q \in Requests, Hit(q) \/ Store(q)
    PROVE  \E row : AnsweredFrom(q, row)
<1> DEFINE k == asked[q].key
<1>1. TypeOK /\ RequestInv(q) /\ (\A j \in Keys : KeyInv(j)) /\ pc[q] # "idle"
  BY DEF IInv, Hit, Store
<1>2. k \in Keys /\ asked[q].want \in Scopes
  BY <1>1 DEF TypeOK
<1>3. KeyInv(k) /\ (table[k] # None => k \notin Bogus)
  BY <1>1, <1>2 DEF KeyInv
<1>4. quiet[k] \in 0..TTL /\ cache[k].left \in 0..TTL /\ TTL \in Nat \ {0}
  BY <1>1, <1>2, CacheAssumption DEF TypeOK
<1>5. CASE Hit(q)
  <2>1. /\ Live(cache[k])
        /\ verdict' = [verdict EXCEPT ![q] = Answer(cache[k].row, asked[q].want)]
    BY <1>5 DEF Hit
  <2>2. ActiveRow(cache[k].row) => quiet[k] < TTL
    BY <1>3, <1>4, <2>1 DEF KeyInv, Live
  <2>3. ActiveRow(cache[k].row) => Servable(k)
    BY <2>1 DEF Servable
  <2>4. CopyOf(k, cache[k].row) /\ (table[k] # None => cache[k].row # None)
    BY <1>3, <2>1 DEF KeyInv
  <2> QED  BY <1>2, <2>1, <2>2, <2>3, <2>4 DEF AnsweredFrom
<1>6. CASE Store(q)
  <2>1. /\ pc[q] = "store"
        /\ verdict' = [verdict EXCEPT ![q] = Answer(held[q], asked[q].want)]
    BY <1>6 DEF Store
  <2>2. ActiveRow(held[q]) => Copied(k)
    BY <2>1 DEF Copied
  <2>3. ActiveRow(held[q]) => quiet[k] < TTL /\ Servable(k)
    BY <1>3, <1>4, <2>2 DEF KeyInv, Dead, Servable
  <2>4. CopyOf(k, held[q]) /\ (table[k] # None => held[q] # None)
    BY <1>1, <1>3, <2>1 DEF RequestInv
  <2> QED  BY <1>2, <2>1, <2>3, <2>4 DEF AnsweredFrom
<1> QED  BY <1>5, <1>6

LEMMA OnlyHitAndStoreDecide ==
    ASSUME IInv, [Next]_vars, NEW q \in Requests, NEW v \in {"ok", "no"}, Answers(q, v)
    PROVE  Hit(q) \/ Store(q)
<1>1. /\ verdict \in [Requests -> {"none", "ok", "no", "error"}]
      /\ verdict[q] = "none" /\ verdict'[q] = v
  BY DEF IInv, TypeOK, Answers
<1>2. verdict' # verdict
  BY <1>1
<1>3. ASSUME NEW p \in Requests, p # q
      PROVE  ~Hit(p) /\ ~Store(p) /\ ~FetchFails(p)
  BY <1>1, <1>3 DEF Hit, Store, FetchFails
<1>4. ~FetchFails(q)
  BY <1>1 DEF FetchFails
<1>5. ASSUME NEW p \in Requests PROVE ~Miss(p) /\ ~Fetch(p)
  BY <1>2 DEF Miss, Fetch
<1>6. ASSUME NEW p \in Requests, NEW k \in Keys, NEW s \in Scopes PROVE ~Ask(p, k, s)
  BY <1>1 DEF Ask
<1>7. ASSUME NEW k \in Keys, NEW s \in KeyScopes PROVE ~Create(k, s)
  BY <1>2 DEF Create, requests
<1>8. ASSUME NEW k \in Keys, NEW a \in Admins
      PROVE  ~RevokeInvalidate(a, k) /\ ~RevokeDeactivate(a, k) /\ ~RevokeFails(a, k)
  BY <1>2 DEF RevokeInvalidate, RevokeDeactivate, RevokeFails, requests
<1>9. ~Tick /\ ~UNCHANGED vars
  BY <1>2 DEF Tick, requests, vars
<1>10. ~Restart
  BY <1>1 DEF Restart
<1> QED
  BY <1>3, <1>4, <1>5, <1>6, <1>7, <1>8, <1>9, <1>10 DEF Next, Serve

\* A revoked key is accepted for less than TTL after the last request that had
\* read it before is done.
THEOREM StalenessBounded == Spec => BoundedStaleness
<1>1. IInv /\ [Next]_vars =>
        \A q \in Requests : Answers(q, "ok") =>
           Active(asked[q].key) \/ quiet[asked[q].key] < TTL
  <2> SUFFICES ASSUME IInv, [Next]_vars, NEW q \in Requests, Answers(q, "ok")
               PROVE  quiet[asked[q].key] < TTL
    OBVIOUS
  <2>1. Hit(q) \/ Store(q)
    BY OnlyHitAndStoreDecide
  <2>2. PICK row : AnsweredFrom(q, row)
    BY <2>1, AnswerSource
  <2>3. verdict \in [Requests -> {"none", "ok", "no", "error"}]
    BY DEF IInv, TypeOK
  <2>4. Answer(row, asked[q].want) = "ok"
    BY <2>2, <2>3 DEF AnsweredFrom, Answers
  <2>5. ActiveRow(row)
    BY <2>4 DEF Answer
  <2> QED  BY <2>2, <2>5 DEF AnsweredFrom
<1> QED  BY <1>1, CacheInvariant, PTL DEF Spec, BoundedStaleness

\* An active key that covers the scope is never refused.
THEOREM NobodyLockedOut == Spec => NoLockOut
<1>1. IInv /\ [Next]_vars =>
        \A q \in Requests : Answers(q, "no") =>
           LET k == asked[q].key
           IN  ~(Active(k) /\ Authority!Grants(table[k].scope, asked[q].want))
  <2> SUFFICES ASSUME IInv, [Next]_vars, NEW q \in Requests, Answers(q, "no"),
                      Active(asked[q].key),
                      Authority!Grants(table[asked[q].key].scope, asked[q].want)
               PROVE  FALSE
    OBVIOUS
  <2> DEFINE k == asked[q].key
  <2>1. Hit(q) \/ Store(q)
    BY OnlyHitAndStoreDecide
  <2>2. PICK row : AnsweredFrom(q, row)
    BY <2>1, AnswerSource
  <2>3. verdict \in [Requests -> {"none", "ok", "no", "error"}]
    BY DEF IInv, TypeOK
  <2>4. Answer(row, asked[q].want) = "no"
    BY <2>2, <2>3 DEF AnsweredFrom, Answers
  <2>5. row # None /\ row.active /\ row.scope = table[k].scope
    BY <2>2 DEF AnsweredFrom, CopyOf, Active, ActiveRow
  <2>6. Covers(row.scope, asked[q].want)
    BY <2>5 DEF Covers, Authority!Grants
  <2> QED  BY <2>4, <2>5, <2>6 DEF Answer, ActiveRow
<1> QED  BY <1>1, CacheInvariant, PTL DEF Spec, NoLockOut

\* A key that has been dead for TTL has no copy left: each copy was read while
\* it was alive, and the copy's life and the time since add up to at most TTL.
LEMMA NothingLeft ==
    ASSUME IInv, NEW k \in Keys, quiet[k] = TTL
    PROVE  Dead(k) /\ ~Servable(k)
<1>1. KeyInv(k) /\ cache[k].left \in 0..TTL /\ TTL \in Nat \ {0}
  BY CacheAssumption DEF IInv, TypeOK
<1>2. Dead(k)
  BY <1>1 DEF KeyInv
<1>3. ~(Live(cache[k]) /\ ActiveRow(cache[k].row))
  BY <1>1 DEF KeyInv, Live
<1> QED
  BY <1>2, <1>3 DEF Dead, Servable

\* The time a key has been dead runs on or, as nobody issues a key twice, stays.
LEMMA QuietLasts ==
    ASSUME IInv, [Next]_vars, NEW k \in Keys, quiet[k] = TTL
    PROVE  quiet'[k] = TTL
<1>1. CASE Tick
  <2>1. quiet'[k] = IF Dead(k) THEN More(quiet[k]) ELSE 0
    BY <1>1 DEF Tick
  <2>2. Dead(k) /\ More(quiet[k]) = TTL
    BY NothingLeft, CacheAssumption DEF More
  <2> QED
    BY <2>1, <2>2
<1>2. CASE ~Tick
  BY <1>2 DEF Next, Serve, Hit, Miss, Fetch, FetchFails, Store, Ask, Create, RevokeInvalidate,
              RevokeDeactivate, RevokeFails, Restart, vars, requests
<1> QED
  BY <1>1, <1>2

\* TTL after its last copy was read a revoked key is past serving, and no step
\* from there on brings it back.
THEOREM FadedStaysFaded == Spec => FadedForGood
<1>1. IInv /\ IInv' /\ [Next]_vars =>
        \A k \in Keys : quiet[k] = TTL => quiet'[k] = TTL /\ ~Servable(k) /\ ~Servable(k)'
  <2> SUFFICES ASSUME IInv, IInv', [Next]_vars, NEW k \in Keys, quiet[k] = TTL
               PROVE  quiet'[k] = TTL /\ ~Servable(k) /\ ~Servable(k)'
    OBVIOUS
  <2>1. quiet'[k] = TTL
    BY QuietLasts
  <2>2. IInv /\ quiet[k] = TTL => ~Servable(k)
    BY NothingLeft
  <2>3. (IInv /\ quiet[k] = TTL => ~Servable(k))'
    BY NothingLeft, PTL
  <2> QED
    BY <2>1, <2>2, <2>3
<1> QED
  BY <1>1, CacheInvariant, PTL DEF Spec, FadedForGood

\* The same as a property of behaviours: from the moment TTL has passed the key
\* is never served again.
THEOREM FadedNeverServed ==
    ASSUME NEW k \in Keys
    PROVE  Spec => [](quiet[k] = TTL => [](~Servable(k)))
<1>1. IInv /\ quiet[k] = TTL => ~Servable(k)
  BY NothingLeft
<1>2. IInv /\ quiet[k] = TTL /\ [Next]_vars => (quiet[k] = TTL)'
  BY QuietLasts
<1> QED
  BY <1>1, <1>2, CacheInvariant, PTL DEF Spec

-----------------------------------------------------------------------------
(* APIKeyCache implements KeyAuthority                                     *)

\* What KeyAuthority sees of key k.
Status(k) == IF table[k] = None THEN "unknown"
             ELSE IF Active(k) THEN "valid"
             ELSE IF Servable(k) THEN "fading" ELSE "dead"
Scope(k) == IF table[k] = None THEN "none" ELSE table[k].scope

\* While the table stays as it is, a key's status changes at most by its last
\* copy being lost.
LEMMA LosingCopies ==
    ASSUME table' = table,
           \A k \in Keys : Servable(k)' => Servable(k) \/ Active(k)
    PROVE  Authority!MayForget /\ [k \in Keys |-> Scope(k)]' = [k \in Keys |-> Scope(k)]
<1>1. ASSUME NEW k \in Keys
      PROVE  Status(k)' = Status(k) \/ (Status(k) = "fading" /\ Status(k)' = "dead")
  <2>1. Active(k)' = Active(k)
    BY DEF Active
  <2> QED  BY <2>1 DEF Status
<1>2. ASSUME NEW k \in Keys
      PROVE  LET st == [j \in Keys |-> Status(j)]
             IN  st'[k] = st[k] \/ (st[k] = "fading" /\ st'[k] = "dead")
  BY <1>1
<1>3. Authority!MayForget
  BY <1>2 DEF Authority!MayForget, Status
<1> QED  BY <1>3 DEF Scope

LEMMA HiddenImplements ==
    ASSUME IInv, \/ Tick
                 \/ \E k \in Keys, a \in Admins : RevokeInvalidate(a, k)
                 \/ \E q \in Requests : Miss(q) \/ Fetch(q)
                 \/ UNCHANGED vars
    PROVE  Authority!Forget
<1>1. /\ UNCHANGED <<table, asked, verdict>>
  BY DEF Tick, RevokeInvalidate, Miss, Fetch, vars, requests
<1>2. TypeOK
  BY DEF IInv
<1>3. ASSUME NEW k \in Keys, Servable(k)' PROVE Servable(k) \/ Active(k)
  <2>1. CASE Tick
    <3>1. Copied(k)' => Copied(k)
      BY <2>1 DEF Tick, requests, Copied
    <3>2. cache[k] \in [row : Rows \cup {None}, left : 0..TTL] /\ TTL \in Nat
      BY <1>2, CacheAssumption DEF TypeOK
    <3>3. cache'[k] = [cache[k] EXCEPT !.left = Less(cache[k].left)]
      BY <2>1 DEF Tick
    <3>4. cache'[k].row = cache[k].row /\ cache'[k].left = Less(cache[k].left)
      BY <3>2, <3>3
    <3>5. Live(cache'[k]) => Live(cache[k])
      BY <3>2, <3>4 DEF Live, Less
    <3> QED  BY <1>3, <3>1, <3>4, <3>5 DEF Servable
  <2>2. ASSUME NEW j \in Keys, NEW a \in Admins, RevokeInvalidate(a, j)
        PROVE  Servable(k)
    <3>1. Copied(k)' => Copied(k)
      BY <2>2 DEF RevokeInvalidate, requests, Copied
    <3>2. cache'[k] = cache[k] \/ cache'[k] = NoEntry
      BY <1>2, <2>2 DEF RevokeInvalidate, TypeOK
    <3>3. ~Live(NoEntry)
      BY DEF Live, NoEntry
    <3> QED  BY <1>3, <3>1, <3>2, <3>3 DEF Servable
  <2>3. ASSUME NEW q \in Requests, Miss(q) PROVE Servable(k)
    <3>1. Copied(k)' => Copied(k)
      BY <1>2, <2>3 DEF Miss, Copied, TypeOK
    <3> QED  BY <1>3, <2>3, <3>1 DEF Servable, Miss
  <2>4. ASSUME NEW q \in Requests, Fetch(q) PROVE Servable(k) \/ Active(k)
    <3>1. ASSUME Copied(k)' PROVE Copied(k) \/ Active(k)
      <4>1. PICK p \in Requests :
              pc'[p] = "store" /\ asked[p].key = k /\ ActiveRow(held'[p])
        BY <3>1, <2>4 DEF Copied, Fetch
      <4>2. CASE p = q
        <5>1. held'[q] = table[k]
          BY <1>2, <2>4, <4>1, <4>2 DEF Fetch, TypeOK
        <5> QED  BY <4>1, <4>2, <5>1 DEF Active
      <4>3. CASE p # q
        <5>1. pc'[p] = pc[p] /\ held'[p] = held[p]
          BY <1>2, <2>4, <4>3 DEF Fetch, TypeOK
        <5> QED  BY <4>1, <5>1 DEF Copied
      <4> QED  BY <4>2, <4>3
    <3> QED  BY <1>3, <2>4, <3>1 DEF Servable, Fetch
  <2>5. CASE UNCHANGED vars
    BY <1>3, <2>5 DEF vars, requests, Servable, Copied
  <2> QED  BY <2>1, <2>2, <2>3, <2>4, <2>5
<1>4. Authority!MayForget /\ [k \in Keys |-> Scope(k)]' = [k \in Keys |-> Scope(k)]
  BY <1>1, <1>3, LosingCopies
<1> QED  BY <1>1, <1>4 DEF Authority!Forget, Scope

LEMMA AskImplements ==
    ASSUME IInv, NEW q \in Requests, NEW k \in Keys, NEW s \in Scopes, Ask(q, k, s)
    PROVE  Authority!Ask(q)
<1>1. TypeOK
  BY DEF IInv
<1>2. \A p \in Requests \ {q} : asked'[p] = asked[p] /\ pc'[p] = pc[p]
  BY <1>1 DEF Ask, TypeOK
<1>3. pc'[q] = "lookup"
  BY <1>1 DEF Ask, TypeOK
<1>4. table' = table /\ cache' = cache /\ held' = held
  BY DEF Ask
<1>5. ASSUME NEW j \in Keys, Servable(j)' PROVE Servable(j) \/ Active(j)
  <2>1. Copied(j)' => Copied(j)
    BY <1>2, <1>3, <1>4 DEF Copied
  <2> QED  BY <1>4, <1>5, <2>1 DEF Servable
<1>6. Authority!MayForget /\ [j \in Keys |-> Scope(j)]' = [j \in Keys |-> Scope(j)]
  BY <1>4, <1>5, LosingCopies
<1> QED  BY <1>2, <1>6 DEF Ask, Authority!Ask, Scope

LEMMA DecisionImplements ==
    ASSUME IInv, NEW q \in Requests, Hit(q) \/ Store(q) \/ FetchFails(q)
    PROVE  \E v \in {"ok", "no", "error"} : Authority!Answer(q, v)
<1> DEFINE k == asked[q].key
<1>1. TypeOK /\ verdict[q] = "none" /\ pc[q] # "idle"
  BY DEF IInv, RequestInv, Hit, Store, FetchFails
<1>2. table' = table /\ asked' = asked /\ k \in Keys
  BY <1>1 DEF Hit, Store, FetchFails, TypeOK
<1>3. ASSUME NEW j \in Keys, Servable(j)' PROVE Servable(j) \/ Active(j)
  <2>1. pc'[q] = "idle" /\ \A p \in Requests \ {q} : pc'[p] = pc[p] /\ held'[p] = held[p]
    BY <1>1 DEF Hit, Store, FetchFails, TypeOK
  <2>2. Copied(j)' => Copied(j)
    BY <1>2, <2>1 DEF Copied
  <2>3. CASE cache'[j] = cache[j]
    BY <1>3, <2>2, <2>3 DEF Servable
  <2>4. CASE cache'[j] # cache[j]
    <3>1. Store(q) /\ j = k
      BY <1>1, <2>4 DEF Hit, Store, FetchFails, AfterError, TypeOK
    <3>2. cache'[k] = Entry(held[q])
      BY <1>1, <1>2, <3>1 DEF Store, TypeOK
    <3>3. cache'[k].row = held[q]
      BY <3>2 DEF Entry
    <3>4. ActiveRow(held[q]) => Copied(k)
      BY <3>1 DEF Store, Copied
    <3> QED  BY <1>3, <2>2, <3>1, <3>3, <3>4 DEF Servable
  <2> QED  BY <2>3, <2>4
<1>4. Authority!MayForget /\ [j \in Keys |-> Scope(j)]' = [j \in Keys |-> Scope(j)]
  BY <1>2, <1>3, LosingCopies
<1>5. CASE FetchFails(q)
  <2>1. verdict' = [verdict EXCEPT ![q] = "error"]
    BY <1>5 DEF FetchFails
  <2>2. Authority!Answer(q, "error")
    BY <1>1, <1>2, <1>4, <2>1 DEF Authority!Answer, Scope
  <2> QED  BY <2>2
<1>6. CASE Hit(q) \/ Store(q)
  <2>1. PICK row : AnsweredFrom(q, row)
    BY <1>6, AnswerSource
  <2> DEFINE v == Answer(row, asked[q].want)
  <2>2. verdict' = [verdict EXCEPT ![q] = v]
    BY <2>1 DEF AnsweredFrom
  <2>3. /\ CopyOf(k, row) /\ (table[k] # None => row # None)
        /\ ActiveRow(row) => Servable(k)
    BY <2>1 DEF AnsweredFrom
  <2>4. [j \in Keys |-> Status(j)][k] = Status(k)
        /\ [j \in Keys |-> Scope(j)][k] = Scope(k)
    BY <1>2
  <2>5. CASE v = "ok"
    <3>1. ActiveRow(row) /\ Covers(row.scope, asked[q].want)
      BY <2>5 DEF Answer
    <3>2. table[k] # None /\ row.scope = table[k].scope /\ Servable(k)
      BY <2>3, <3>1 DEF CopyOf, ActiveRow
    <3>3. Status(k) \in {"valid", "fading"} /\ Scope(k) = row.scope
      BY <3>2 DEF Status, Scope
    <3>4. Authority!Grants(Scope(k), asked[q].want)
      BY <3>1, <3>3 DEF Covers, Authority!Grants
    <3>5. Authority!Answer(q, "ok")
      BY <1>1, <1>2, <1>4, <2>2, <2>4, <2>5, <3>3, <3>4
         DEF Authority!Answer, Scope, Status
    <3> QED  BY <3>5
  <2>6. CASE v # "ok"
    <3>1. v = "no"
      BY <2>6 DEF Answer
    <3>2. ~(Status(k) = "valid" /\ Authority!Grants(Scope(k), asked[q].want))
      <4> SUFFICES ASSUME Status(k) = "valid",
                          Authority!Grants(Scope(k), asked[q].want)
                   PROVE  FALSE
        OBVIOUS
      <4>1. table[k] # None /\ table[k].active
        BY DEF Status, Active, ActiveRow
      <4>2. row # None /\ row.active /\ row.scope = table[k].scope
        BY <2>3, <4>1 DEF CopyOf
      <4>3. Covers(row.scope, asked[q].want)
        BY <4>1, <4>2 DEF Covers, Authority!Grants, Scope
      <4> QED  BY <2>6, <4>2, <4>3 DEF Answer, ActiveRow
    <3>3. Authority!Answer(q, "no")
      BY <1>1, <1>2, <1>4, <2>2, <2>4, <3>1, <3>2
         DEF Authority!Answer, Scope, Status
    <3> QED  BY <3>3
  <2> QED  BY <2>5, <2>6
<1> QED  BY <1>5, <1>6

LEMMA CreateImplements ==
    ASSUME IInv, NEW k \in Keys, NEW s \in KeyScopes, Create(k, s)
    PROVE  Authority!Issue(k)
<1> DEFINE row == [scope |-> s, active |-> TRUE]
<1>1. /\ table[k] = None /\ table' = [table EXCEPT ![k] = row]
      /\ UNCHANGED <<cache, pc, asked, held, verdict>>
  BY DEF Create, requests
<1>2. row # None /\ row.active = TRUE
  <2>1. row \in Rows
    BY DEF Rows
  <2> QED  BY <2>1, NoneIsNoRow
<1> HIDE DEF row
<1>3. table'[k] = row /\ \A j \in Keys \ {k} : table'[j] = table[j]
  BY <1>1 DEF IInv, TypeOK
<1>4. Status(k) = "unknown" /\ Status(k)' = "valid"
  BY <1>1, <1>2, <1>3 DEF Status, Active, ActiveRow
<1>5. ASSUME NEW j \in Keys \ {k} PROVE Status(j)' = Status(j) /\ Scope(j)' = Scope(j)
  BY <1>1, <1>3, <1>5 DEF Status, Scope, Active, Servable, Copied
<1> DEFINE st == [j \in Keys |-> Status(j)]
           sc == [j \in Keys |-> Scope(j)]
<1>6. st[k] = "unknown" /\ st' = [st EXCEPT ![k] = "valid"]
  BY <1>4, <1>5
<1>7. \A j \in Keys \ {k} : sc'[j] = sc[j]
  BY <1>5
<1> QED  BY <1>1, <1>6, <1>7 DEF Authority!Issue, Status, Scope

\* The row is deactivated, or was not active any more, or is left as it was.
LEMMA RevokeImplements ==
    ASSUME IInv, NEW a \in Admins, NEW k \in Keys,
           RevokeDeactivate(a, k) \/ RevokeFails(a, k)
    PROVE  Authority!Revoke(k) \/ Authority!Forget
<1> DEFINE row == [table[k] EXCEPT !.active = FALSE]
<1>1. /\ k \in revoking[a]
      /\ table' = [table EXCEPT ![k] = row] \/ table' = table
      /\ UNCHANGED <<cache, pc, asked, held, verdict>>
  BY DEF RevokeDeactivate, RevokeFails, requests
<1>2. TypeOK /\ table[k] # None /\ table[k] \in Rows
  BY <1>1 DEF IInv, TypeOK
<1>3. row \in Rows /\ row.active = FALSE /\ row.scope = table[k].scope
  BY <1>2 DEF Rows
<1>4. row # None
  BY <1>3, NoneIsNoRow
<1>5. CASE table' = table
  <2>1. \A j \in Keys : Servable(j)' => Servable(j) \/ Active(j)
    BY <1>1 DEF Servable, Copied
  <2>2. Authority!MayForget /\ [j \in Keys |-> Scope(j)]' = [j \in Keys |-> Scope(j)]
    BY <1>5, <2>1, LosingCopies
  <2>3. Authority!Forget
    BY <1>1, <2>2 DEF Authority!Forget, Scope
  <2> QED  BY <2>3
<1>6. CASE table' # table
  <2>1. table' = [table EXCEPT ![k] = row]
    BY <1>1, <1>6
  <2>2. row # table[k]
    BY <1>2, <1>6, <2>1 DEF TypeOK
  <2>3. table[k].active = TRUE
    BY <1>2, <2>2 DEF Rows
  <2> HIDE DEF row
  <2>4. table'[k] = row /\ \A j \in Keys \ {k} : table'[j] = table[j]
    BY <1>2, <2>1 DEF TypeOK
  <2>5. Status(k) = "valid" /\ Status(k)' \in {"fading", "dead"}
    BY <1>2, <1>3, <1>4, <2>3, <2>4 DEF Status, Active, ActiveRow
  <2>6. Scope(k)' = Scope(k)
    BY <1>2, <1>3, <1>4, <2>4 DEF Scope
  <2>7. ASSUME NEW j \in Keys \ {k} PROVE Status(j)' = Status(j) /\ Scope(j)' = Scope(j)
    BY <1>1, <2>4, <2>7 DEF Status, Scope, Active, Servable, Copied
  <2> DEFINE st == [j \in Keys |-> Status(j)]
             sc == [j \in Keys |-> Scope(j)]
  <2>8. /\ st[k] = "valid" /\ st'[k] \in {"fading", "dead"}
        /\ \A j \in Keys \ {k} : st'[j] = st[j]
    BY <2>5, <2>7
  <2>9. sc' = sc
    BY <2>6, <2>7
  <2>10. Authority!Revoke(k)
    BY <1>1, <2>8, <2>9 DEF Authority!Revoke, Status, Scope
  <2> QED  BY <2>10
<1> QED  BY <1>5, <1>6

LEMMA RestartImplements ==
    ASSUME IInv, Restart
    PROVE  Authority!Crash
<1>1. /\ table' = table /\ asked' = asked /\ verdict' = [q \in Requests |-> "none"]
      /\ pc' = [q \in Requests |-> "idle"] /\ cache' = [k \in Keys |-> NoEntry]
  BY DEF Restart
<1>2. ASSUME NEW k \in Keys PROVE ~Servable(k)'
  BY <1>1 DEF Servable, Copied, Live, NoEntry
<1>3. Authority!MayForget /\ [k \in Keys |-> Scope(k)]' = [k \in Keys |-> Scope(k)]
  BY <1>1, <1>2, LosingCopies
<1> QED  BY <1>1, <1>3 DEF Authority!Crash, Scope

\* Every answer of the service is one KeyAuthority allows.
THEOREM CacheImplementsAuthority == Spec => AnswersAsAuthority
<1>1. Init => Authority!Init
  <2> SUFFICES ASSUME Init PROVE Authority!Init
    OBVIOUS
  <2>1. \A k \in Keys : table[k] = None
    BY DEF Init
  <2> QED  BY <2>1 DEF Init, Authority!Init
<1>2. IInv /\ [Next]_vars => [Authority!Next]_(Authority!vars)
  <2> SUFFICES ASSUME IInv, [Next]_vars PROVE Authority!Next
    OBVIOUS
  <2>1. ASSUME NEW q \in Requests, Serve(q) PROVE Authority!Next
    <3>1. CASE Miss(q) \/ Fetch(q)
      BY <3>1, HiddenImplements DEF Authority!Next
    <3>2. CASE Hit(q) \/ Store(q) \/ FetchFails(q)
      BY <3>2, DecisionImplements DEF Authority!Next
    <3> QED  BY <2>1, <3>1, <3>2 DEF Serve
  <2>2. ASSUME NEW q \in Requests, NEW k \in Keys, NEW s \in Scopes, Ask(q, k, s)
        PROVE  Authority!Next
    BY <2>2, AskImplements DEF Authority!Next
  <2>3. ASSUME NEW k \in Keys, NEW s \in KeyScopes, Create(k, s) PROVE Authority!Next
    BY <2>3, CreateImplements DEF Authority!Next
  <2>4. ASSUME NEW k \in Keys, NEW a \in Admins, RevokeInvalidate(a, k)
        PROVE  Authority!Next
    BY <2>4, HiddenImplements DEF Authority!Next
  <2>5. ASSUME NEW k \in Keys, NEW a \in Admins,
               RevokeDeactivate(a, k) \/ RevokeFails(a, k)
        PROVE  Authority!Next
    BY <2>5, RevokeImplements DEF Authority!Next
  <2>6. CASE Tick \/ UNCHANGED vars
    BY <2>6, HiddenImplements DEF Authority!Next
  <2>7. CASE Restart
    BY <2>7, RestartImplements DEF Authority!Next
  <2> QED  BY <2>1, <2>2, <2>3, <2>4, <2>5, <2>6, <2>7 DEF Next
<1> QED  BY <1>1, <1>2, CacheInvariant, PTL DEF Spec, AnswersAsAuthority, Authority!Spec
=============================================================================
