-------------------------- MODULE FreshnessProofs ---------------------------
(***************************************************************************)
(* Proofs that refreshes, however many of them overlap, leave every key at *)
(* least as new as the first of them found it                              *)
(* (RefreshPipeline!OverlapSettles), for every page size and whatever is   *)
(* committed below their offsets meanwhile; that one nobody overlaps does  *)
(* (RefreshPipeline!FreshWhenAlone); and that one nothing disturbs leaves  *)
(* the newest report of every key (RefreshPipeline!QuietRefreshMirrors).   *)
(***************************************************************************)
EXTENDS RefreshPipelineProofs

\* ORDER BY id.
Ascending ==
    \A t \in Tables : \A p, q \in 1..Len(visible[t]) :
        p < q => visible[t][p] < visible[t][q]

MissedAllocated ==
    \A r \in Refreshers : \A t \in Tables : missed[r][t] \subseteq 1..Len(keyOf[t])

\* Row i has a rank above n in the table r is at.
Beyond(r, i, n) ==
    \A q \in 1..Len(visible[Table(r)]) : visible[Table(r)][q] = i => q > n

\* Row i is on no page of r yet, and there will be another page.
OnLaterPage(r, i) == ~LastPage(fetched[r]) /\ Beyond(r, i, offset[r] + fetched[r])

\* r has yet to upsert row i of the table it is at.
Ahead(r, i) ==
    \/ pc[r] = "fetch" /\ Beyond(r, i, offset[r])
    \/ pc[r] = "upsert" /\ (OnPage(r, i) \/ OnLaterPage(r, i))

\* r has yet to upsert row i of its ph-th table.
Coming(r, ph, i) ==
    /\ pc[r] # "idle"
    /\ phase[r] < ph \/ (phase[r] = ph /\ Ahead(r, i))

\* LocateDB shows row i or a newer one of its key.
Shown(t, i) == locate[t][keyOf[t][i]] >= i

\* Row i of the ph-th table shows, or one of the refreshes will come to it.
Settles(ph, i) == Shown(Order[ph], i) \/ \E r \in Refreshers : Coming(r, ph, i)

Settling == \A ph \in 1..3 : \A i \in floor[Order[ph]] : Settles(ph, i)

\* A start row newer than one of the page comes after it.  This is why a page
\* that replays an older row of a key does no harm: the newer one comes again.
PageOrdered(r) ==
    \A n \in 1..Len(page[r]) : \A i \in atStart[r][Table(r)] :
        i > page[r][n] =>
            \/ \E m \in 1..Len(page[r]) : m > n /\ page[r][m] = i
            \/ OnLaterPage(r, i)

PagesOrdered == \A r \in Refreshers : pc[r] = "upsert" => PageOrdered(r)

\* The floor is committed, and every running refresh has begun with it.
FloorHeld ==
    /\ \A t \in Tables : \A i \in floor[t] : Committed(t, i)
    /\ \A r \in Refreshers : pc[r] # "idle" =>
          \A t \in Tables : floor[t] \subseteq atStart[r][t]

OthersIdle(r) == \A q \in Refreshers \ {r} : pc[q] = "idle"

\* An upsert of the row's key failed.
Excused(r, t, i) == \E j \in missed[r][t] : keyOf[t][j] = keyOf[t][i]

\* The floor of a refresh that runs alone is what it began with.
AloneInv(r) ==
    /\ OthersIdle(r)
    /\ \A t \in Tables : \A i \in atStart[r][t] : Excused(r, t, i) \/ i \in floor[t]

FreshInv == /\ Ascending /\ MissedAllocated
            /\ PagesOrdered /\ FloorHeld /\ Settling
            /\ \A r \in Refreshers : pc[r] # "idle" /\ alone[r] => AloneInv(r)

-----------------------------------------------------------------------------
(* The tables                                                              *)

LEMMA AscendingStep ==
    ASSUME IInv, Ascending, [Next]_vars
    PROVE  Ascending'
<1>1. visible \in [Tables -> Seq(Ids)]
  BY DEF IInv, TypeOK, UpdateDBTypeOK
<1>2. ASSUME NEW t \in Tables, NEW i \in Ids, CommitInsert(t, i)
      PROVE  Ascending'
  <2>1. PICK p \in 1..Len(visible[t]) + 1 :
           IsRank(visible[t], i, p) /\ visible' = [visible EXCEPT ![t] = InsertAt(@, p, i)]
    BY <1>2 DEF CommitInsert
  <2> DEFINE s == visible[t]
             w == visible'[t]
  <2>2. s \in Seq(Ids) /\ InsertedAt(s, p, i, w)
    BY <1>1, <2>1, InsertAtPointwise
  <2>3. /\ \A x, y \in 1..Len(s) : x < y => s[x] < s[y]
        /\ \A q \in 1..Len(s) : s[q] \in Nat
        /\ \A q \in 1..Len(s) : q < p => s[q] < i
        /\ \A q \in 1..Len(s) : ~(q < p) => s[q] > i
        /\ i \in Nat /\ p \in 1..Len(s) + 1 /\ Len(s) \in Nat
    <3>1. \A x, y \in 1..Len(s) : x < y => s[x] < s[y]
      BY DEF Ascending
    <3>2. IsRank(s, i, p)
      BY <2>1
    <3>3. \A q \in 1..Len(s) : q < p => s[q] < i
      BY <3>2 DEF IsRank
    <3>4. \A q \in 1..Len(s) : ~(q < p) => s[q] > i
      BY <3>2 DEF IsRank
    <3>5. /\ \A q \in 1..Len(s) : s[q] \in Nat
          /\ i \in Nat /\ p \in 1..Len(s) + 1 /\ Len(s) \in Nat
      BY <2>2, PipelineAssumption DEF Ids
    <3> QED  BY <3>1, <3>3, <3>4, <3>5
  <2>4. \A u \in Tables \ {t} : visible'[u] = visible[u]
    BY <1>1, <2>1
  <2> HIDE DEF s, w
  <2>5. ASSUME NEW x \in 1..Len(w), NEW y \in 1..Len(w), x < y PROVE w[x] < w[y]
    <3>1. /\ Len(w) = Len(s) + 1 /\ Len(s) \in Nat
          /\ w[x] = IF x < p THEN s[x] ELSE IF x = p THEN i ELSE s[x - 1]
          /\ w[y] = IF y < p THEN s[y] ELSE IF y = p THEN i ELSE s[y - 1]
      BY <2>2 DEF InsertedAt
    <3>2. CASE y < p
      <4>1. x \in 1..Len(s) /\ y \in 1..Len(s) /\ w[x] = s[x] /\ w[y] = s[y]
        BY <2>3, <2>5, <3>1, <3>2
      <4> QED  BY <2>3, <2>5, <4>1
    <3>3. CASE y = p
      BY <2>3, <2>5, <3>1, <3>3
    <3>4. CASE y > p
      <4>1. y - 1 \in 1..Len(s) /\ w[y] = s[y - 1]
        BY <3>1, <3>4
      <4>2. CASE x < p
        BY <2>3, <2>5, <3>1, <3>4, <4>1, <4>2
      <4>3. CASE x = p
        BY <2>3, <2>5, <3>1, <3>4, <4>1, <4>3
      <4>4. CASE x > p
        <5>1. x - 1 \in 1..Len(s) /\ w[x] = s[x - 1] /\ x - 1 < y - 1
          BY <2>5, <3>1, <3>4, <4>4
        <5> QED  BY <2>3, <4>1, <5>1
      <4> QED  BY <4>2, <4>3, <4>4
    <3> QED  BY <3>2, <3>3, <3>4
  <2> QED  BY <2>4, <2>5 DEF Ascending, w
<1>3. CASE visible' = visible
  BY <1>3 DEF Ascending
<1> QED
  BY <1>2, <1>3
     DEF Next, Insert, Progress, BeginInsert, AbortInsert, StartRefresh, FetchPage,
         FetchFails, UpsertRow, UpsertFails, TakeRow, NextPage, NextTable, Finish, ProcessDies,
         vars, db

LEMMA MissedStep ==
    ASSUME IInv, MissedAllocated, [Next]_vars
    PROVE  MissedAllocated'
<1> SUFFICES ASSUME NEW r \in Refreshers, NEW t \in Tables, NEW j \in missed'[r][t]
             PROVE  j \in 1..Len(keyOf'[t])
  BY DEF MissedAllocated
<1>0. missed \in [Refreshers -> [Tables -> SUBSET Ids]]
  BY DEF IInv, TypeOK, HistoryTypeOK
<1>1. CASE j \in missed[r][t]
  BY <1>1, KeysKept DEF MissedAllocated
<1>2. ASSUME NEW q \in Refreshers, NEW i \in Ids, UpsertFails(q, i), j \notin missed[r][t]
      PROVE  j \in 1..Len(keyOf[t])
  <2>1. TakeRow(q, i) /\ t = Table(q) /\ j = i
    BY <1>0, <1>2 DEF UpsertFails
  <2>2. Committed(t, j)
    BY <2>1, TakeRowKeeps
  <2> QED  BY <2>2 DEF Committed, IInv, IdsAllocated
<1>3. CASE missed' = missed
  BY <1>1, <1>3
<1>4. ASSUME NEW q \in Refreshers, StartRefresh(q) PROVE j \in missed[r][t]
  BY <1>0, <1>4 DEF StartRefresh, NoIds
<1>5. ASSUME NEW q \in Refreshers, NEW i \in Ids, UpsertFails(q, i) PROVE keyOf' = keyOf
  BY <1>5 DEF UpsertFails, TakeRow, db
<1> QED
  BY <1>1, <1>2, <1>3, <1>4, <1>5
     DEF Next, Insert, Progress, BeginInsert, CommitInsert, AbortInsert, FetchPage,
         FetchFails, UpsertRow, NextPage, NextTable, Finish, ProcessDies,
         vars, ghosts

-----------------------------------------------------------------------------
(* What a step leaves alone                                                *)

LEMMA AtTable ==
    ASSUME IInv, NEW r \in Refreshers
    PROVE  /\ Table(r) \in Tables /\ phase[r] \in 1..3 /\ Table(r) = Order[phase[r]]
           /\ offset[r] \in Nat /\ fetched[r] \in Nat
           /\ visible[Table(r)] \in Seq(Ids) /\ page[r] \in Seq(Ids)
<1>1. Table(r) \in Tables
  BY TableFact DEF IInv
<1> QED
  BY <1>1, OrderFacts DEF IInv, TypeOK, UpdateDBTypeOK, RefreshTypeOK, Table

\* A start row is committed, so it has an id and a key.
LEMMA StartRow ==
    ASSUME IInv, NEW r \in Refreshers, NEW t \in Tables, NEW i \in atStart[r][t]
    PROVE  /\ i \in Ids /\ i \in Nat /\ i \in 1..Len(keyOf[t])
           /\ keyOf[t][i] \in Keys[t]
           /\ Committed(t, i)
<1>1. Committed(t, i)
  BY DEF IInv, RefresherInv, HeldCommitted
<1>2. i \in 1..Len(keyOf[t])
  BY <1>1 DEF IInv, IdsAllocated, Committed
<1>3. keyOf[t][i] \in Keys[t] /\ i \in Ids
  BY <1>2 DEF IInv, TypeOK, UpdateDBTypeOK, HistoryTypeOK
<1>4. i \in Nat
  BY <1>3, PipelineAssumption DEF Ids
<1> QED
  BY <1>1, <1>2, <1>3, <1>4

LEMMA CommittedKept ==
    ASSUME IInv, [Next]_vars, NEW t \in Tables, NEW i, Committed(t, i)
    PROVE  Committed(t, i)' /\ keyOf'[t][i] = keyOf[t][i]
<1>1. i \in 1..Len(keyOf[t])
  BY DEF IInv, IdsAllocated, Committed
<1>2. keyOf'[t][i] = keyOf[t][i]
  BY <1>1, KeysKept
<1>3. ASSUME NEW u \in Tables, NEW j \in Ids, CommitInsert(u, j) PROVE Committed(t, i)'
  BY <1>3, CommitShift DEF MadeRoom, Committed
<1>4. CASE visible' = visible
  BY <1>2, <1>4 DEF Committed
<1> QED
  BY <1>2, <1>3, <1>4
     DEF Next, Insert, Progress, BeginInsert, AbortInsert, StartRefresh, FetchPage,
         FetchFails, UpsertRow, UpsertFails, TakeRow, NextPage, NextTable, Finish,
         ProcessDies, vars, db
LEMMA AheadFrame ==
    ASSUME NEW r, NEW i, visible' = visible, pc'[r] = pc[r], phase'[r] = phase[r],
           offset'[r] = offset[r], fetched'[r] = fetched[r], page'[r] = page[r]
    PROVE  /\ Ahead(r, i)' <=> Ahead(r, i)
           /\ OnLaterPage(r, i)' <=> OnLaterPage(r, i)
BY DEF Ahead, Beyond, OnPage, OnLaterPage, LastPage, Table

LEMMA ComingFrame ==
    ASSUME NEW r, NEW ph, NEW i, visible' = visible, pc'[r] = pc[r], phase'[r] = phase[r],
           offset'[r] = offset[r], fetched'[r] = fetched[r], page'[r] = page[r]
    PROVE  Coming(r, ph, i)' <=> Coming(r, ph, i)
BY AheadFrame DEF Coming

LEMMA PageFrame ==
    ASSUME NEW r, visible' = visible, pc'[r] = pc[r], phase'[r] = phase[r],
           offset'[r] = offset[r], fetched'[r] = fetched[r], page'[r] = page[r],
           atStart'[r] = atStart[r]
    PROVE  PageOrdered(r)' <=> PageOrdered(r)
<1>1. Table(r)' = Table(r)
  BY DEF Table
<1> QED
  BY <1>1, AheadFrame DEF PageOrdered

\* A row of the floor has its key, and keeps it.
LEMMA FloorRow ==
    ASSUME IInv, FloorHeld, [Next]_vars, NEW t \in Tables, NEW i \in floor[t]
    PROVE  /\ i \in Nat /\ keyOf[t][i] \in Keys[t]
           /\ keyOf'[t][i] = keyOf[t][i]
           /\ Committed(t, i) /\ Committed(t, i)'
<1>1. Committed(t, i)
  BY DEF FloorHeld
<1>2. i \in 1..Len(keyOf[t])
  BY <1>1 DEF IInv, IdsAllocated, Committed
<1>3. keyOf[t][i] \in Keys[t] /\ i \in Nat
  BY <1>2 DEF IInv, TypeOK, UpdateDBTypeOK
<1> QED
  BY <1>1, <1>3, CommittedKept

-----------------------------------------------------------------------------
(* What is ahead of a refresh                                              *)

\* A commit moves start rows to higher ranks only.
LEMMA CommitKeepsAhead ==
    ASSUME IInv, NEW t \in Tables, NEW c \in Ids, CommitInsert(t, c),
           NEW r \in Refreshers
    PROVE  /\ \A i \in atStart[r][Table(r)] :
                 /\ Ahead(r, i) => Ahead(r, i)'
                 /\ OnLaterPage(r, i) => OnLaterPage(r, i)'
           /\ PageOrdered(r) => PageOrdered(r)'
<1>1. /\ c \in pending[t]
      /\ UNCHANGED <<keyOf, locate, faults, locals, ghosts>>
  BY DEF CommitInsert
<1>2. /\ \A u \in Tables \ {t} : visible'[u] = visible[u]
      /\ \A x \in 1..Len(visible'[t]) :
            \/ visible'[t][x] = c
            \/ \E q \in 1..Len(visible[t]) : q <= x /\ visible'[t][x] = visible[t][q]
      /\ visible'[t] \in Seq(Ids) /\ visible[t] \in Seq(Ids)
  BY CommitShift DEF MadeRoom, IInv, TypeOK, UpdateDBTypeOK
<1> DEFINE T == Table(r)
<1>3. T \in Tables /\ Table(r)' = T /\ offset[r] \in Nat /\ fetched[r] \in Nat
  BY <1>1, AtTable DEF Table, locals
<1>4. ASSUME NEW i \in atStart[r][T], NEW n \in Nat, Beyond(r, i, n)
      PROVE  Beyond(r, i, n)'
  <2>1. i # c \/ T # t
    BY <1>1, <1>3, StartRow DEF Committed, IInv, IdsAllocated
  <2>2. CASE T # t
    BY <1>2, <1>3, <1>4, <2>2 DEF Beyond
  <2>3. CASE T = t
    <3> SUFFICES ASSUME NEW x \in 1..Len(visible'[t]), visible'[t][x] = i PROVE x > n
      BY <1>3, <2>3 DEF Beyond
    <3>1. PICK q \in 1..Len(visible[t]) : q <= x /\ visible[t][q] = i
      BY <1>2, <2>1, <2>3
    <3>2. q > n
      BY <1>4, <2>3, <3>1 DEF Beyond
    <3>3. Len(visible[t]) \in Nat /\ Len(visible'[t]) \in Nat
      BY <1>2
    <3> QED  BY <3>1, <3>2, <3>3
  <2> QED  BY <2>2, <2>3
<1>5. \A i \in atStart[r][T] : OnLaterPage(r, i) => OnLaterPage(r, i)'
  <2>1. offset[r] + fetched[r] \in Nat
    BY <1>3
  <2>2. offset'[r] = offset[r] /\ fetched'[r] = fetched[r]
    BY <1>1 DEF locals
  <2> QED  BY <1>4, <2>1, <2>2 DEF OnLaterPage, LastPage, Beyond
<1>6. \A i \in atStart[r][T] : Ahead(r, i) => Ahead(r, i)'
  <2>1. offset'[r] = offset[r] /\ pc' = pc /\ page' = page
    BY <1>1 DEF locals
  <2> QED  BY <1>3, <1>4, <1>5, <2>1 DEF Ahead, OnPage, Beyond
<1>7. PageOrdered(r) => PageOrdered(r)'
  BY <1>1, <1>3, <1>5 DEF PageOrdered, locals, ghosts
<1> QED
  BY <1>5, <1>6, <1>7

\* A start row with a rank above the offset is on the page or on a later one.
LEMMA FetchKeepsAhead ==
    ASSUME IInv, Ascending, NEW r \in Refreshers, FetchPage(r)
    PROVE  /\ \A i \in atStart[r][Table(r)] : Ahead(r, i) => Ahead(r, i)'
           /\ PageOrdered(r)'
<1> DEFINE T == Table(r)
           s == visible[T]
           pg == PageOf(s, offset[r], PageSize)
<1>0. /\ T \in Tables /\ s \in Seq(Ids) /\ Len(s) \in Nat /\ offset[r] \in Nat
      /\ RefreshTypeOK
  BY AtTable DEF IInv, TypeOK
<1>1. /\ pg \in Seq(Ids)
      /\ Len(pg) \in 0..PageSize
      /\ \A n \in 1..Len(pg) : offset[r] + n \in 1..Len(s) /\ pg[n] = s[offset[r] + n]
      /\ \A q \in 1..Len(s) :
            q > offset[r] /\ (Len(pg) < PageSize \/ q <= offset[r] + Len(pg))
               => q - offset[r] \in 1..Len(pg)
  <2> HIDE DEF s
  <2> QED  BY <1>0, PagePointwise, PipelineAssumption
<1>10. Len(pg) \in Nat
  BY <1>1, PipelineAssumption
<1>2. /\ pc[r] = "fetch" /\ pc'[r] = "upsert"
      /\ page'[r] = pg /\ fetched'[r] = Len(pg) /\ offset'[r] = offset[r]
      /\ Table(r)' = T /\ phase'[r] = phase[r]
      /\ UNCHANGED <<visible, keyOf, atStart>>
  <2>1. page' = [page EXCEPT ![r] = pg]
    BY DEF FetchPage
  <2>2. page'[r] = pg
    BY <1>0, <2>1 DEF RefreshTypeOK
  <2> QED
    BY <1>0, <2>2 DEF FetchPage, RefreshTypeOK, Table, db, ghosts
<1>3. /\ \A p, q \in 1..Len(s) : p < q => s[p] < s[q]
      /\ \A q \in 1..Len(s) : s[q] \in Nat
  BY <1>0, PipelineAssumption DEF Ascending, Ids
<1> HIDE DEF pg, s
<1>4. ASSUME NEW q \in 1..Len(s), q > offset[r]
      PROVE  \/ q - offset[r] \in 1..Len(pg) /\ pg[q - offset[r]] = s[q]
             \/ ~(Len(pg) < PageSize)
                    /\ \A x \in 1..Len(s) : s[x] = s[q] => x > offset[r] + Len(pg)
  <2>1. CASE q - offset[r] \in 1..Len(pg)
    <3>1. pg[q - offset[r]] = s[offset[r] + (q - offset[r])]
      BY <1>1, <2>1
    <3>2. offset[r] + (q - offset[r]) = q
      BY <1>0
    <3> QED  BY <2>1, <3>1, <3>2
  <2>2. CASE q - offset[r] \notin 1..Len(pg)
    <3>1. ~(Len(pg) < PageSize) /\ ~(q <= offset[r] + Len(pg))
      BY <1>1, <1>4, <2>2
    <3>2. ASSUME NEW x \in 1..Len(s), s[x] = s[q] PROVE x = q
      <4>1. ~(x < q) /\ ~(q < x)
        BY <1>3, <3>2
      <4> QED  BY <4>1
    <3>3. q > offset[r] + Len(pg)
      BY <1>0, <1>10, <3>1
    <3> QED  BY <3>1, <3>2, <3>3
  <2> QED  BY <2>1, <2>2
<1>5. \A i \in atStart[r][T] : \E q \in 1..Len(s) : s[q] = i
  BY <1>0, StartRow DEF Committed, s
<1>6. \A i : /\ OnPage(r, i)' <=> \E n \in 1..Len(pg) : pg[n] = i
             /\ OnLaterPage(r, i)' <=>
                   /\ ~(Len(pg) < PageSize)
                   /\ \A x \in 1..Len(s) : s[x] = i => x > offset[r] + Len(pg)
  BY <1>2 DEF OnPage, OnLaterPage, Beyond, LastPage, s
<1>7. ASSUME NEW i \in atStart[r][T], Ahead(r, i) PROVE Ahead(r, i)'
  <2>1. PICK q \in 1..Len(s) : s[q] = i
    BY <1>5
  <2>2. q > offset[r]
    BY <1>2, <1>7, <2>1 DEF Ahead, Beyond, s
  <2>3. OnPage(r, i)' \/ OnLaterPage(r, i)'
    BY <1>4, <1>6, <2>1, <2>2
  <2> QED  BY <1>2, <2>3 DEF Ahead
<1>8. PageOrdered(r)'
  <2> SUFFICES ASSUME NEW n \in 1..Len(pg), NEW i \in atStart[r][T], i > pg[n]
               PROVE  (\E m \in 1..Len(pg) : m > n /\ pg[m] = i) \/ OnLaterPage(r, i)'
    BY <1>2 DEF PageOrdered
  <2>1. PICK q \in 1..Len(s) : s[q] = i
    BY <1>5
  <2>2. offset[r] + n \in 1..Len(s) /\ s[offset[r] + n] = pg[n]
    BY <1>1
  <2>3. q > offset[r] + n
    <3>1. PICK x \in 1..Len(s) : x = offset[r] + n
      BY <2>2
    <3>2. s[x] < s[q] /\ s[x] \in Nat
      BY <1>3, <2>1, <2>2, <3>1
    <3>3. ~(q < x) /\ q # x
      BY <1>3, <3>2
    <3> QED  BY <1>0, <3>1, <3>3
  <2>4. q > offset[r] /\ q - offset[r] > n
    BY <1>0, <1>1, <1>10, <2>3
  <2> QED  BY <1>4, <1>6, <2>1, <2>4
<1> QED
  BY <1>7, <1>8

\* Taking a row leaves the newer start rows of the table ahead.
LEMMA TakeRowOrder ==
    ASSUME IInv, NEW r \in Refreshers, NEW i \in Ids, TakeRow(r, i), PageOrdered(r)
    PROVE  /\ pc[r] = "upsert" /\ pc' = pc /\ phase' = phase
           /\ UNCHANGED <<visible, keyOf, atStart>>
           /\ PageOrdered(r)'
           /\ \A j \in atStart[r][Table(r)] : Ahead(r, j) => j = i \/ Ahead(r, j)'
           /\ \A j \in atStart[r][Table(r)] : j > i => Ahead(r, j)'
<1> DEFINE T == Table(r)
           rest == Tail(page[r])
<1>0. page[r] \in Seq(Ids) /\ page \in [Refreshers -> Seq(Ids)]
  BY AtTable DEF IInv, TypeOK, RefreshTypeOK
<1>1. /\ pc[r] = "upsert" /\ page[r] # <<>> /\ i = Head(page[r])
      /\ page' = [page EXCEPT ![r] = rest]
      /\ UNCHANGED <<db, pc, phase, offset, fetched, result, atStart, alone>>
  BY DEF TakeRow
<1>2. /\ Len(rest) = Len(page[r]) - 1 /\ Len(page[r]) \in Nat \ {0}
      /\ \A n \in 1..Len(rest) : rest[n] = page[r][n + 1]
      /\ i = page[r][1]
  BY <1>0, <1>1
<1> HIDE DEF rest
<1>3. page'[r] = rest /\ Table(r)' = T /\ visible' = visible
  BY <1>0, <1>1 DEF Table, db
<1>4. \A j : /\ OnPage(r, j)' <=> \E n \in 1..Len(rest) : rest[n] = j
             /\ OnLaterPage(r, j)' <=> OnLaterPage(r, j)
  BY <1>1, <1>3 DEF OnPage, OnLaterPage, Beyond, Table
<1>5. \A m \in 1..Len(page[r]) : m > 1 => m - 1 \in 1..Len(rest) /\ rest[m - 1] = page[r][m]
  <2> SUFFICES ASSUME NEW m \in 1..Len(page[r]), m > 1
               PROVE  m - 1 \in 1..Len(rest) /\ rest[m - 1] = page[r][m]
    OBVIOUS
  <2>1. m - 1 \in 1..Len(rest) /\ (m - 1) + 1 = m
    BY <1>2
  <2> QED  BY <1>2, <2>1
<1>6. PageOrdered(r)'
  <2> SUFFICES ASSUME NEW n \in 1..Len(rest), NEW j \in atStart[r][T], j > rest[n]
               PROVE  (\E m \in 1..Len(rest) : m > n /\ rest[m] = j) \/ OnLaterPage(r, j)
    BY <1>1, <1>3, <1>4 DEF PageOrdered
  <2>1. n + 1 \in 1..Len(page[r]) /\ rest[n] = page[r][n + 1]
    BY <1>2
  <2>2. CASE OnLaterPage(r, j)
    BY <2>2
  <2>3. CASE ~OnLaterPage(r, j)
    <3>1. PICK m \in 1..Len(page[r]) : m > n + 1 /\ page[r][m] = j
      BY <2>1, <2>3 DEF PageOrdered
    <3>2. m > 1 /\ m - 1 > n
      BY <1>2, <3>1
    <3> QED  BY <1>5, <3>1, <3>2
  <2> QED  BY <2>2, <2>3
<1>7. ASSUME NEW j, Ahead(r, j), j # i PROVE Ahead(r, j)'
  <2>1. CASE OnLaterPage(r, j)
    BY <1>1, <1>4, <2>1 DEF Ahead
  <2>2. CASE OnPage(r, j)
    <3>1. PICK m \in 1..Len(page[r]) : page[r][m] = j
      BY <2>2 DEF OnPage
    <3>2. m > 1
      BY <1>2, <1>7, <3>1
    <3>3. OnPage(r, j)'
      BY <1>4, <1>5, <3>1, <3>2
    <3> QED  BY <1>1, <3>3 DEF Ahead
  <2> QED  BY <1>1, <1>7, <2>1, <2>2 DEF Ahead
<1>8. ASSUME NEW j \in atStart[r][T], j > i PROVE Ahead(r, j)'
  <2>1. \/ \E m \in 1..Len(page[r]) : m > 1 /\ page[r][m] = j
        \/ OnLaterPage(r, j)
    <3>1. 1 \in 1..Len(page[r]) /\ j > page[r][1]
      BY <1>2, <1>8
    <3> QED  BY <3>1 DEF PageOrdered
  <2>2. OnPage(r, j)' \/ OnLaterPage(r, j)'
    BY <1>4, <1>5, <2>1
  <2> QED  BY <1>1, <2>2 DEF Ahead
<1> QED
  BY <1>1, <1>6, <1>7, <1>8 DEF db


LEMMA NextPageKeepsAhead ==
    ASSUME IInv, NEW r \in Refreshers, NextPage(r), NEW i, Ahead(r, i)
    PROVE  Ahead(r, i)'
<1>0. RefreshTypeOK
  BY DEF IInv, TypeOK
<1>1. /\ pc[r] = "upsert" /\ page[r] = <<>>
      /\ offset'[r] = offset[r] + fetched[r]
      /\ pc'[r] = "fetch" /\ phase'[r] = phase[r] /\ visible' = visible
  BY <1>0 DEF NextPage, PageDone, NextOffset, RefreshTypeOK, db
<1>2. ~OnPage(r, i)
  BY <1>1 DEF OnPage
<1>3. Beyond(r, i, offset[r] + fetched[r])
  BY <1>1, <1>2 DEF Ahead, OnLaterPage
<1> QED
  BY <1>1, <1>3 DEF Ahead, Beyond, Table

\* After its last page a table has nothing ahead.
LEMMA NothingAhead ==
    ASSUME NEW r, PageDone(r), LastPage(fetched[r]) PROVE \A i : ~Ahead(r, i)
BY DEF PageDone, Ahead, OnPage, OnLaterPage

\* At the first page of a table everything is ahead.
LEMMA AllAhead ==
    ASSUME IInv, NEW r \in Refreshers, visible' = visible,
           phase'[r] \in 1..3, pc'[r] = "fetch", offset'[r] = 0
    PROVE  \A i : Ahead(r, i)'
<1>1. Order[phase'[r]] \in Tables
  BY OrderFacts
<1>2. visible[Order[phase'[r]]] \in Seq(Ids)
  BY <1>1 DEF IInv, TypeOK, UpdateDBTypeOK
<1>3. \A q \in 1..Len(visible[Order[phase'[r]]]) : q > 0
  BY <1>2
<1> QED
  BY <1>3 DEF Ahead, Beyond, Table

\* A refresh that ends has come to every row.
LEMMA NothingComing ==
    ASSUME NEW r \in Refreshers, Finish(r), NEW ph \in 1..3, NEW i
    PROVE  ~Coming(r, ph, i)
<1>1. PageDone(r) /\ LastPage(fetched[r]) /\ phase[r] = 3
  BY OrderFacts DEF Finish
<1>2. ~Ahead(r, i)
  BY <1>1, NothingAhead
<1>3. ~(3 < ph)
  OBVIOUS
<1> QED
  BY <1>1, <1>2, <1>3 DEF Coming

-----------------------------------------------------------------------------
(* Who moves                                                               *)

\* Nothing of q's changes.
Rests(q) ==
    /\ pc'[q] = pc[q] /\ phase'[q] = phase[q] /\ offset'[q] = offset[q]
    /\ fetched'[q] = fetched[q] /\ page'[q] = page[q] /\ atStart'[q] = atStart[q]

LEMMA OthersRest ==
    ASSUME IInv, NEW r \in Refreshers, StartRefresh(r) \/ FetchFails(r) \/ Progress(r)
    PROVE  visible' = visible /\ keyOf' = keyOf /\ \A q \in Refreshers \ {r} : Rests(q)
<1>1. RefreshTypeOK /\ HistoryTypeOK
  BY DEF IInv, TypeOK
<1>2. CASE StartRefresh(r)
  BY <1>1, <1>2 DEF StartRefresh, Rests, RefreshTypeOK, HistoryTypeOK, db
<1>3. CASE FetchFails(r)
  BY <1>1, <1>3 DEF FetchFails, Rests, RefreshTypeOK, db
<1>4. CASE FetchPage(r)
  <2>1. PICK pg : page' = [page EXCEPT ![r] = pg]
    BY <1>4 DEF FetchPage
  <2>2. PICK n : fetched' = [fetched EXCEPT ![r] = n]
    BY <1>4 DEF FetchPage
  <2> QED  BY <1>1, <1>4, <2>1, <2>2 DEF FetchPage, Rests, RefreshTypeOK, db, ghosts
<1>5. ASSUME NEW i \in Ids, TakeRow(r, i)
      PROVE  visible' = visible /\ keyOf' = keyOf /\ \A q \in Refreshers \ {r} : Rests(q)
  BY <1>1, <1>5 DEF TakeRow, Rests, RefreshTypeOK, db
<1>6. CASE NextPage(r) \/ NextTable(r) \/ Finish(r)
  BY <1>1, <1>6 DEF NextPage, NextTable, Finish, Rests, RefreshTypeOK, db, ghosts
<1> QED
  BY <1>2, <1>3, <1>4, <1>5, <1>6 DEF Progress, UpsertRow, UpsertFails

LEMMA AllRest ==
    ASSUME Insert \/ UNCHANGED vars
    PROVE  (\A q \in Refreshers : Rests(q)) /\ UNCHANGED <<locate, missed, alone, floor>>
BY DEF Insert, BeginInsert, CommitInsert, AbortInsert, Rests, vars, locals, ghosts

-----------------------------------------------------------------------------
(* The parts of the invariant                                              *)

LEMMA PagesOrderedStep ==
    ASSUME IInv, Ascending, PagesOrdered, [Next]_vars
    PROVE  PagesOrdered'
<1>0. RefreshTypeOK
  BY DEF IInv, TypeOK
<1> SUFFICES ASSUME NEW r \in Refreshers, pc'[r] = "upsert" PROVE PageOrdered(r)'
  BY DEF PagesOrdered
<1>1. ASSUME Rests(r), visible' = visible PROVE PageOrdered(r)'
  BY <1>1, PageFrame DEF PagesOrdered, Rests
<1>2. CASE Insert
  <2>1. Rests(r)
    BY <1>2, AllRest
  <2>2. CASE \E t \in Tables, i \in Ids : CommitInsert(t, i)
    BY <2>1, <2>2, CommitKeepsAhead DEF PagesOrdered, Rests
  <2>3. CASE visible' = visible
    BY <1>1, <2>1, <2>3
  <2> QED  BY <1>2, <2>2, <2>3 DEF Insert, BeginInsert, AbortInsert
<1>3. CASE UNCHANGED vars
  BY <1>1, <1>3, AllRest DEF vars, db
<1>4. CASE ProcessDies
  BY <1>4 DEF ProcessDies
<1>5. ASSUME NEW q \in Refreshers, q # r, StartRefresh(q) \/ FetchFails(q) \/ Progress(q)
      PROVE  PageOrdered(r)'
  BY <1>1, <1>5, OthersRest
<1>6. CASE StartRefresh(r) \/ FetchFails(r)
  BY <1>0, <1>6 DEF StartRefresh, FetchFails, RefreshTypeOK
<1>7. CASE FetchPage(r)
  BY <1>7, FetchKeepsAhead
<1>8. ASSUME NEW i \in Ids, TakeRow(r, i) PROVE PageOrdered(r)'
  BY <1>8, TakeRowOrder DEF PagesOrdered, TakeRow
<1>9. CASE NextPage(r) \/ NextTable(r) \/ Finish(r)
  BY <1>0, <1>9 DEF NextPage, NextTable, Finish, RefreshTypeOK
<1> QED
  BY <1>2, <1>3, <1>4, <1>5, <1>6, <1>7, <1>8, <1>9
     DEF Next, Progress, UpsertRow, UpsertFails

\* Only the first refresh of a group sets the floor; every other step lowers it.
LEMMA FloorStep ==
    ASSUME IInv, [Next]_vars, ~(Busy = {} /\ \E r \in Refreshers : StartRefresh(r))
    PROVE  \A t \in Tables : floor'[t] \subseteq floor[t]
<1>0. floor \in [Tables -> SUBSET Ids]
  BY DEF IInv, TypeOK, HistoryTypeOK
<1>1. CASE floor' = floor \/ floor' = NoIds
  BY <1>1 DEF NoIds
<1>2. ASSUME NEW r \in Refreshers, NEW i \in Ids, UpsertFails(r, i)
      PROVE  \A t \in Tables : floor'[t] \subseteq floor[t]
  BY <1>0, <1>2 DEF UpsertFails
<1>3. ASSUME NEW r \in Refreshers, StartRefresh(r) PROVE floor' = floor
  BY <1>3 DEF StartRefresh
<1> QED
  BY <1>1, <1>2, <1>3
     DEF Next, Insert, Progress, BeginInsert, CommitInsert, AbortInsert, FetchPage,
         FetchFails, UpsertRow, NextPage, NextTable, Finish, ProcessDies, vars, ghosts

\* A start leaves the others' atStart alone; every other step leaves them all.
LEMMA StartStep ==
    ASSUME IInv, [Next]_vars, NEW q \in Refreshers, pc'[q] # "idle"
    PROVE  \/ pc[q] # "idle" /\ atStart'[q] = atStart[q]
           \/ StartRefresh(q)
<1>0. RefreshTypeOK
  BY DEF IInv, TypeOK
<1>1. CASE Rests(q)
  BY <1>1 DEF Rests
<1>2. CASE ProcessDies
  BY <1>2 DEF ProcessDies
<1>3. CASE FetchFails(q) \/ Finish(q)
  BY <1>0, <1>3 DEF FetchFails, Finish, RefreshTypeOK
<1>4. CASE Progress(q) /\ ~Finish(q)
  BY <1>4 DEF Progress, FetchPage, UpsertRow, UpsertFails, TakeRow, NextPage, NextTable,
              PageDone, ghosts
<1> QED
  BY <1>1, <1>2, <1>3, <1>4, AllRest, OthersRest DEF Next

LEMMA FloorHeldStep ==
    ASSUME IInv, FloorHeld, [Next]_vars
    PROVE  FloorHeld'
<1>0. /\ RefreshTypeOK /\ HistoryTypeOK
      /\ \A t \in Tables : \A i \in ToSet(visible[t]) : Committed(t, i)
      /\ \A t \in Tables : \A i : Committed(t, i) => i \in ToSet(visible[t])
  BY DEF IInv, TypeOK, UpdateDBTypeOK, Committed, ToSet
<1>1. ASSUME NEW r \in Refreshers, StartRefresh(r), Busy = {} PROVE FloorHeld'
  <2>1. /\ floor' = [t \in Tables |-> ToSet(visible[t])]
        /\ atStart'[r] = floor' /\ visible' = visible
        /\ pc' = [pc EXCEPT ![r] = "fetch"]
    BY <1>0, <1>1 DEF StartRefresh, HistoryTypeOK, db
  <2>2. \A q \in Refreshers : pc'[q] # "idle" => q = r
    BY <1>0, <1>1, <2>1 DEF Busy, RefreshTypeOK
  <2>3. \A t \in Tables : \A i \in floor'[t] : Committed(t, i)'
    BY <1>0, <2>1 DEF Committed
  <2> QED  BY <2>1, <2>2, <2>3 DEF FloorHeld
<1>2. CASE ~(Busy = {} /\ \E r \in Refreshers : StartRefresh(r))
  <2>1. \A t \in Tables : floor'[t] \subseteq floor[t]
    BY <1>2, FloorStep
  <2>2. \A t \in Tables : \A i \in floor'[t] : Committed(t, i)'
    BY <2>1, CommittedKept DEF FloorHeld
  <2>3. ASSUME NEW q \in Refreshers, pc'[q] # "idle", NEW t \in Tables
        PROVE  floor'[t] \subseteq atStart'[q][t]
    <3>1. CASE pc[q] # "idle" /\ atStart'[q] = atStart[q]
      BY <2>1, <3>1 DEF FloorHeld
    <3>2. CASE StartRefresh(q)
      <4>1. atStart'[q][t] = ToSet(visible[t])
        BY <1>0, <3>2 DEF StartRefresh, HistoryTypeOK
      <4> QED  BY <1>0, <2>1, <4>1 DEF FloorHeld
    <3> QED  BY <2>3, <3>1, <3>2, StartStep
  <2> QED  BY <2>2, <2>3 DEF FloorHeld
<1> QED
  BY <1>1, <1>2

LEMMA ExcusedKept ==
    ASSUME IInv, MissedAllocated, [Next]_vars, NEW r \in Refreshers, NEW t \in Tables,
           NEW i \in atStart[r][t], missed[r][t] \subseteq missed'[r][t], Excused(r, t, i)
    PROVE  Excused(r, t, i)'
<1>1. keyOf'[t][i] = keyOf[t][i]
  BY StartRow, KeysKept
<1>2. \A j \in missed[r][t] : keyOf'[t][j] = keyOf[t][j]
  BY KeysKept DEF MissedAllocated
<1> QED
  BY <1>1, <1>2 DEF Excused

\* A failed upsert excuses the floor rows of its key.
LEMMA FailureExcuses ==
    ASSUME IInv, NEW r \in Refreshers, NEW j \in Ids, UpsertFails(r, j),
           NEW t \in Tables
    PROVE  /\ missed[r][t] \subseteq missed'[r][t]
           /\ \A i \in floor[t] : Excused(r, t, i)' \/ i \in floor'[t]
<1> DEFINE T == Table(r)
<1>0. T \in Tables /\ HistoryTypeOK
  BY AtTable DEF IInv, TypeOK
<1>1. /\ missed' = [missed EXCEPT ![r][T] = @ \cup {j}]
      /\ floor' = [floor EXCEPT ![T] = {x \in @ : keyOf[T][x] # keyOf[T][j]}]
      /\ keyOf' = keyOf
  BY DEF UpsertFails, TakeRow, db
<1> HIDE DEF T
<1>2. missed[r][t] \subseteq missed'[r][t]
  BY <1>0, <1>1 DEF HistoryTypeOK
<1>3. ASSUME NEW i \in floor[t], t = T /\ keyOf[t][i] = keyOf[T][j]
      PROVE  Excused(r, t, i)'
  <2>1. j \in missed'[r][t]
    BY <1>0, <1>1, <1>3 DEF HistoryTypeOK
  <2> QED  BY <1>1, <1>2, <1>3, <2>1 DEF Excused
<1>4. ASSUME NEW i \in floor[t], ~(t = T /\ keyOf[t][i] = keyOf[T][j])
      PROVE  i \in floor'[t]
  BY <1>0, <1>1, <1>4 DEF HistoryTypeOK
<1> QED
  BY <1>2, <1>3, <1>4

\* Whoever moves while r runs alone is r.
LEMMA OnlyMover ==
    ASSUME NEW r \in Refreshers, NEW q \in Refreshers, AloneInv(r), pc[q] # "idle"
    PROVE  q = r
BY DEF AloneInv, OthersIdle

LEMMA AloneStep ==
    ASSUME IInv, FreshInv, [Next]_vars, NEW r \in Refreshers, pc'[r] # "idle", alone'[r]
    PROVE  AloneInv(r)'
<1>0. RefreshTypeOK /\ HistoryTypeOK /\ MissedAllocated
  BY DEF IInv, TypeOK, FreshInv
<1>1. ASSUME pc[r] # "idle", alone[r], atStart'[r] = atStart[r], OthersIdle(r)',
             \A t \in Tables : missed[r][t] \subseteq missed'[r][t],
             \A t \in Tables : \A i \in floor[t] : Excused(r, t, i)' \/ i \in floor'[t]
      PROVE  AloneInv(r)'
  <2>1. AloneInv(r)
    BY <1>1 DEF FreshInv
  <2> QED  BY <1>0, <1>1, <2>1, ExcusedKept DEF AloneInv
<1>2. CASE Insert \/ UNCHANGED vars
  <2>1. (\A q \in Refreshers : Rests(q)) /\ UNCHANGED <<missed, alone, floor>>
    BY <1>2, AllRest
  <2>2. pc[r] # "idle" /\ alone[r] /\ atStart'[r] = atStart[r]
    BY <2>1 DEF Rests
  <2>3. OthersIdle(r)'
    BY <2>1, <2>2 DEF FreshInv, AloneInv, OthersIdle, Rests
  <2> QED  BY <1>1, <2>1, <2>2, <2>3
<1>3. CASE ProcessDies
  BY <1>3 DEF ProcessDies
<1>4. ASSUME NEW q \in Refreshers, StartRefresh(q) PROVE AloneInv(r)'
  <2>1. pc' = [pc EXCEPT ![q] = "fetch"] /\ pc[q] = "idle"
    BY <1>4 DEF StartRefresh
  <2>2. CASE q = r
    <3>1. Busy = {}
      BY <1>0, <1>4, <2>2 DEF StartRefresh, HistoryTypeOK
    <3>2. OthersIdle(r)'
      BY <1>0, <2>1, <2>2, <3>1 DEF Busy, OthersIdle, RefreshTypeOK
    <3>3. floor' = [t \in Tables |-> ToSet(visible[t])] /\ atStart'[r] = floor'
      BY <1>0, <1>4, <2>2, <3>1 DEF StartRefresh, HistoryTypeOK
    <3> QED  BY <3>2, <3>3 DEF AloneInv
  <2>3. CASE q # r
    <3>1. r \in Busy
      BY <1>0, <2>1, <2>3 DEF RefreshTypeOK, Busy
    <3>2. alone'[r] = (alone[r] /\ r \notin Busy)
      BY <1>4, <2>3, Zenon DEF StartRefresh
    <3> QED  BY <3>1, <3>2
  <2> QED  BY <2>2, <2>3
<1>5. ASSUME NEW q \in Refreshers, FetchFails(q) \/ Progress(q) PROVE AloneInv(r)'
  <2>1. /\ pc[q] # "idle" /\ alone' = alone /\ atStart' = atStart
        /\ \A p \in Refreshers \ {q} : pc'[p] = pc[p]
    BY <1>5, OthersRest
       DEF Progress, FetchFails, FetchPage, UpsertRow, UpsertFails, TakeRow, NextPage,
           NextTable, Finish, PageDone, Rests, ghosts
  <2>2. q = r /\ pc[r] # "idle" /\ AloneInv(r)
    <3>1. CASE q = r
      BY <2>1, <3>1 DEF FreshInv
    <3>2. CASE q # r
      BY <2>1, <3>2, OnlyMover DEF FreshInv
    <3> QED  BY <3>1, <3>2
  <2>3. OthersIdle(r)'
    BY <2>1, <2>2 DEF AloneInv, OthersIdle
  <2>4. CASE FetchFails(q)
    BY <1>0, <2>2, <2>4 DEF FetchFails, RefreshTypeOK
  <2>5. ASSUME NEW i \in Ids, UpsertFails(q, i) PROVE AloneInv(r)'
    <3>1. atStart'[r] = atStart[r] /\ alone[r]
      BY <2>1
    <3>2. \A t \in Tables :
             /\ missed[r][t] \subseteq missed'[r][t]
             /\ \A x \in floor[t] : Excused(r, t, x)' \/ x \in floor'[t]
      BY <2>2, <2>5, FailureExcuses
    <3> QED  BY <1>1, <2>2, <2>3, <3>1, <3>2
  <2>6. CASE missed' = missed /\ floor' = floor
    BY <1>1, <2>1, <2>2, <2>3, <2>6
  <2> QED
    BY <1>5, <2>4, <2>5, <2>6
       DEF Progress, FetchPage, UpsertRow, NextPage, NextTable, Finish, ghosts
<1> QED
  BY <1>2, <1>3, <1>4, <1>5 DEF Next

-----------------------------------------------------------------------------
(* Every row of the floor shows or is still to come                        *)

LEMMA ShownKept ==
    ASSUME IInv, FloorHeld, [Next]_vars, locate' = locate,
           NEW t \in Tables, NEW i \in floor[t]
    PROVE  Shown(t, i)' <=> Shown(t, i)
BY FloorRow DEF Shown

\* r is at the table of its phase, and was given the floor.
LEMMA ComingRow ==
    ASSUME IInv, FloorHeld, NEW r \in Refreshers, pc[r] # "idle",
           NEW ph \in 1..3, NEW i \in floor[Order[ph]]
    PROVE  /\ phase[r] = ph <=> Table(r) = Order[ph]
           /\ Order[ph] \in Tables
           /\ i \in atStart[r][Order[ph]]
<1>1. phase[r] \in 1..3 /\ Table(r) = Order[phase[r]]
  BY AtTable
<1> QED
  BY <1>1, OrderFacts DEF FloorHeld, Order

LEMMA PagingKeepsComing ==
    ASSUME IInv, Ascending, FloorHeld, NEW r \in Refreshers,
           FetchPage(r) \/ NextPage(r) \/ NextTable(r),
           NEW ph \in 1..3, NEW i \in floor[Order[ph]], Coming(r, ph, i)
    PROVE  Coming(r, ph, i)'
<1>0. RefreshTypeOK
  BY DEF IInv, TypeOK
<1>1. phase[r] = ph => i \in atStart[r][Table(r)]
  BY ComingRow DEF Coming
<1>2. CASE FetchPage(r)
  <2>1. pc'[r] = "upsert" /\ phase' = phase
    BY <1>0, <1>2 DEF FetchPage, RefreshTypeOK
  <2> QED  BY <1>1, <1>2, <2>1, FetchKeepsAhead DEF Coming
<1>3. CASE NextPage(r)
  <2>1. pc'[r] = "fetch" /\ phase' = phase
    BY <1>0, <1>3 DEF NextPage, RefreshTypeOK
  <2> QED  BY <1>3, <2>1, NextPageKeepsAhead DEF Coming
<1>4. CASE NextTable(r)
  <2>1. /\ PageDone(r) /\ LastPage(fetched[r]) /\ phase[r] \in 1..3 /\ phase[r] < 3
        /\ phase'[r] = phase[r] + 1 /\ offset'[r] = 0 /\ pc'[r] = "fetch"
        /\ visible' = visible
    BY <1>0, <1>4, OrderFacts DEF NextTable, RefreshTypeOK, db
  <2>2. phase[r] < ph
    BY <2>1, NothingAhead DEF Coming
  <2>3. phase'[r] \in 1..3 /\ (phase'[r] < ph \/ phase'[r] = ph)
    BY <2>1, <2>2
  <2>4. Ahead(r, i)'
    BY <2>1, <2>3, AllAhead
  <2> QED  BY <2>1, <2>3, <2>4 DEF Coming
<1> QED
  BY <1>2, <1>3, <1>4

\* An older row may be put over a newer one, but then the newer one is still
\* ahead of the same refresh.
LEMMA UpsertSettles ==
    ASSUME IInv, FloorHeld, PagesOrdered, NEW r \in Refreshers, NEW j \in Ids,
           UpsertRow(r, j), NEW ph \in 1..3, NEW i \in floor[Order[ph]],
           Shown(Order[ph], i) \/ Coming(r, ph, i)
    PROVE  Shown(Order[ph], i)' \/ Coming(r, ph, i)'
<1> DEFINE t == Order[ph]
           T == Table(r)
           k == keyOf[T][j]
<1>0. /\ T \in Tables /\ t \in Tables
      /\ DOMAIN locate = Tables
      /\ \A u \in Tables : locate[u] \in [Keys[u] -> Ids \cup {0}]
  BY AtTable, OrderFacts DEF IInv, TypeOK, LocateDBTypeOK
<1>1. TakeRow(r, j) /\ locate' = [locate EXCEPT ![T][k] = j] /\ [Next]_vars
  <2>1. TakeRow(r, j) /\ locate' = [locate EXCEPT ![T][k] = j]
    BY DEF UpsertRow, Upserted
  <2> QED  BY <2>1 DEF Next, Progress
<1>2. pc[r] = "upsert" /\ PageOrdered(r)
  BY <1>1 DEF TakeRow, PagesOrdered
<1>3. /\ pc' = pc /\ phase' = phase /\ UNCHANGED <<visible, keyOf, atStart>>
      /\ \A x \in atStart[r][T] : Ahead(r, x) => x = j \/ Ahead(r, x)'
      /\ \A x \in atStart[r][T] : x > j => Ahead(r, x)'
  BY <1>1, <1>2, TakeRowOrder
<1>4. /\ (phase[r] = ph) <=> (T = t)
      /\ i \in atStart[r][t]
  BY <1>2, ComingRow
<1>5. i \in Nat /\ j \in Nat /\ keyOf[t][i] \in Keys[t]
  <2>1. j \in Nat
    BY PipelineAssumption DEF Ids
  <2> QED  BY <1>0, <1>1, <2>1, FloorRow
<1> HIDE DEF T, k
<1>6. /\ \A u \in Tables : u # T => locate'[u] = locate[u]
      /\ \A c \in Keys[T] : locate'[T][c] = IF c = k THEN j ELSE locate[T][c]
  BY <1>0, <1>1
<1>7. CASE t = T /\ keyOf[t][i] = k
  <2>1. CASE i > j
    BY <1>2, <1>3, <1>4, <1>7, <2>1 DEF Coming
  <2>2. CASE ~(i > j)
    <3>1. locate'[t][keyOf'[t][i]] = j /\ j >= i
      BY <1>3, <1>5, <1>6, <1>7, <2>2
    <3> QED  BY <3>1 DEF Shown
  <2> QED  BY <2>1, <2>2
<1>8. CASE ~(t = T /\ keyOf[t][i] = k)
  <2>1. locate'[t][keyOf'[t][i]] = locate[t][keyOf[t][i]]
    BY <1>0, <1>3, <1>5, <1>6, <1>8
  <2>2. CASE Shown(t, i)
    BY <2>1, <2>2 DEF Shown
  <2>3. CASE Coming(r, ph, i)
    <3>1. t = T => i # j
      BY <1>8 DEF k
    <3> QED  BY <1>2, <1>3, <1>4, <2>3, <3>1 DEF Coming
  <2> QED  BY <2>2, <2>3
<1> QED
  BY <1>7, <1>8

LEMMA FailureKeepsComing ==
    ASSUME IInv, FloorHeld, PagesOrdered, NEW r \in Refreshers, NEW j \in Ids,
           UpsertFails(r, j), NEW ph \in 1..3, NEW i \in floor[Order[ph]],
           i \in floor'[Order[ph]], Coming(r, ph, i)
    PROVE  Coming(r, ph, i)'
<1> DEFINE T == Table(r)
<1>1. /\ TakeRow(r, j)
      /\ floor' = [floor EXCEPT ![T] = {x \in @ : keyOf[T][x] # keyOf[T][j]}]
  BY DEF UpsertFails
<1>2. pc[r] = "upsert" /\ PageOrdered(r)
  BY <1>1 DEF TakeRow, PagesOrdered
<1>3. /\ pc' = pc /\ phase' = phase
      /\ \A x \in atStart[r][T] : Ahead(r, x) => x = j \/ Ahead(r, x)'
  BY <1>1, <1>2, TakeRowOrder
<1>4. /\ (phase[r] = ph) <=> (T = Order[ph])
      /\ i \in atStart[r][Order[ph]]
  BY <1>2, ComingRow
<1>5. T \in Tables /\ floor \in [Tables -> SUBSET Ids]
  BY AtTable DEF IInv, TypeOK, HistoryTypeOK
<1> HIDE DEF T
<1>6. T = Order[ph] => i # j
  BY <1>1, <1>5
<1> QED
  BY <1>2, <1>3, <1>4, <1>6 DEF Coming

LEMMA SettlingStep ==
    ASSUME IInv, Ascending, PagesOrdered, FloorHeld, Settling, [Next]_vars
    PROVE  Settling'
<1>0. RefreshTypeOK
  BY DEF IInv, TypeOK
<1>1. ASSUME NEW r \in Refreshers, StartRefresh(r), Busy = {} PROVE Settling'
  <2>1. /\ pc'[r] = "fetch" /\ phase'[r] = 1 /\ offset'[r] = 0 /\ visible' = visible
    BY <1>0, <1>1 DEF StartRefresh, RefreshTypeOK, db
  <2>2. \A i : Ahead(r, i)'
    BY <2>1, AllAhead
  <2>3. \A ph \in 1..3 : 1 < ph \/ 1 = ph
    OBVIOUS
  <2>4. \A ph \in 1..3 : \A i : Coming(r, ph, i)'
    BY <2>1, <2>2, <2>3 DEF Coming
  <2> QED  BY <2>4 DEF Settling, Settles
<1>2. CASE floor' = NoIds
  BY <1>2, OrderFacts DEF NoIds, Settling
<1>3. CASE ~(Busy = {} /\ \E r \in Refreshers : StartRefresh(r)) /\ floor' # NoIds
  <2> SUFFICES ASSUME NEW ph \in 1..3, NEW i \in floor[Order[ph]], i \in floor'[Order[ph]]
               PROVE  Settles(ph, i)'
    BY <1>3, OrderFacts, FloorStep DEF Settling
  <2>1. Settles(ph, i) /\ Order[ph] \in Tables
    BY OrderFacts DEF Settling
  <2>2. locate' = locate => (Shown(Order[ph], i)' <=> Shown(Order[ph], i))
    BY <2>1, ShownKept
  <2>3. ASSUME NEW q, Rests(q), visible' = visible
        PROVE  Coming(q, ph, i)' <=> Coming(q, ph, i)
    BY <2>3, ComingFrame DEF Rests
  <2>4. ASSUME NEW t \in Tables, NEW c \in Ids, CommitInsert(t, c) PROVE Settles(ph, i)'
    <3>1. locate' = locate /\ \A q \in Refreshers : Rests(q)
      BY <2>4, AllRest DEF Insert
    <3>2. ASSUME NEW q \in Refreshers, Coming(q, ph, i) PROVE Coming(q, ph, i)'
      <4>1. phase[q] = ph => i \in atStart[q][Table(q)]
        BY <3>2, ComingRow DEF Coming
      <4>2. phase[q] = ph => Ahead(q, i)'
        BY <2>4, <3>2, <4>1, CommitKeepsAhead DEF Coming
      <4> QED  BY <3>1, <3>2, <4>2 DEF Coming, Rests
    <3> QED  BY <2>1, <2>2, <3>1, <3>2 DEF Settles
  <2>5. CASE (Insert \/ UNCHANGED vars) /\ visible' = visible
    <3>1. locate' = locate /\ \A q \in Refreshers : Rests(q)
      BY <2>5, AllRest
    <3> QED  BY <2>1, <2>2, <2>3, <2>5, <3>1 DEF Settles
  <2>6. ASSUME NEW r \in Refreshers, visible' = visible,
               \A q \in Refreshers \ {r} : Rests(q),
               Shown(Order[ph], i) \/ Coming(r, ph, i)
                  => Shown(Order[ph], i)' \/ Coming(r, ph, i)'
        PROVE  Settles(ph, i)'
    BY <2>1, <2>3, <2>6 DEF Settles
  <2>7. ASSUME NEW r \in Refreshers, StartRefresh(r) PROVE Settles(ph, i)'
    <3>1. locate' = locate /\ ~Coming(r, ph, i)
      BY <2>7 DEF StartRefresh, Coming
    <3> QED  BY <2>2, <2>6, <2>7, <3>1, OthersRest
  <2>8. ASSUME NEW r \in Refreshers, Progress(r) PROVE Settles(ph, i)'
    <3>1. CASE FetchPage(r) \/ NextPage(r) \/ NextTable(r)
      <4>1. locate' = locate
        BY <3>1 DEF FetchPage, NextPage, NextTable
      <4> QED  BY <2>2, <2>6, <2>8, <3>1, <4>1, OthersRest, PagingKeepsComing
    <3>2. ASSUME NEW j \in Ids, UpsertRow(r, j) PROVE Settles(ph, i)'
      BY <2>6, <2>8, <3>2, OthersRest, UpsertSettles
    <3>3. ASSUME NEW j \in Ids, UpsertFails(r, j) PROVE Settles(ph, i)'
      <4>1. locate' = locate
        BY <3>3 DEF UpsertFails
      <4> QED  BY <2>2, <2>6, <2>8, <3>3, <4>1, OthersRest, FailureKeepsComing
    <3>4. CASE Finish(r)
      <4>1. locate' = locate /\ ~Coming(r, ph, i)
        BY <3>4, NothingComing DEF Finish
      <4> QED  BY <2>2, <2>6, <2>8, <4>1, OthersRest
    <3> QED  BY <2>8, <3>1, <3>2, <3>3, <3>4 DEF Progress
  <2>9. ~ProcessDies /\ \A r \in Refreshers : ~FetchFails(r)
    BY <1>3 DEF ProcessDies, FetchFails
  <2> QED
    BY <2>4, <2>5, <2>7, <2>8, <2>9 DEF Next, Insert, BeginInsert, AbortInsert, vars, db
<1> QED
  BY <1>1, <1>2, <1>3

LEMMA InitFresh == Init => FreshInv
<1> SUFFICES ASSUME Init PROVE FreshInv
  OBVIOUS
<1>1. Ascending /\ MissedAllocated /\ PagesOrdered
  BY DEF Init, Ascending, MissedAllocated, PagesOrdered, NoIds
<1>2. FloorHeld /\ Settling
  BY OrderFacts DEF Init, FloorHeld, Settling, NoIds
<1> QED
  BY <1>1, <1>2 DEF Init, FreshInv

LEMMA FreshStep == IInv /\ FreshInv /\ [Next]_vars => FreshInv'
<1> SUFFICES ASSUME IInv, FreshInv, [Next]_vars PROVE FreshInv'
  OBVIOUS
<1>1. Ascending' /\ MissedAllocated' /\ PagesOrdered' /\ FloorHeld' /\ Settling'
  BY AscendingStep, MissedStep, PagesOrderedStep, FloorHeldStep, SettlingStep DEF FreshInv
<1>2. \A r \in Refreshers : pc'[r] # "idle" /\ alone'[r] => AloneInv(r)'
  BY AloneStep
<1> QED
  BY <1>1, <1>2 DEF FreshInv

\* Once the last of the refreshes that overlap has ended, every key is at least
\* as new as the rows that were there when the first of them began, but for those
\* a failure excuses.
THEOREM OverlapsSettle == Spec => []OverlapSettles
<1>1. IInv /\ FreshInv => OverlapSettles
  <2> SUFFICES ASSUME IInv, FreshInv, Busy = {}, NEW t \in Tables, NEW i \in floor[t]
               PROVE  locate[t][keyOf[t][i]] >= i
    BY DEF OverlapSettles
  <2>1. PICK ph \in 1..3 : Order[ph] = t
    BY OrderFacts
  <2>2. Settles(ph, i)
    BY <2>1 DEF FreshInv, Settling
  <2>3. \A r \in Refreshers : ~Coming(r, ph, i)
    BY DEF Busy, Coming
  <2> QED  BY <2>1, <2>2, <2>3 DEF Settles, Shown
<1> QED
  BY <1>1, InitFresh, FreshStep, InvariantHolds, PTL DEF Spec

\* At the end of a refresh that ran alone.
LEMMA AloneShown ==
    ASSUME IInv, FreshInv, NEW r \in Refreshers, Finish(r), alone[r],
           NEW t \in Tables, NEW i \in atStart[r][t]
    PROVE  Excused(r, t, i) \/ Shown(t, i)
<1>1. AloneInv(r)
  BY DEF FreshInv, Finish, PageDone
<1>2. PICK ph \in 1..3 : Order[ph] = t
  BY OrderFacts
<1>3. ASSUME i \in floor[t] PROVE Shown(t, i)
  <2>1. Settles(ph, i)
    BY <1>2, <1>3 DEF FreshInv, Settling
  <2>2. \A q \in Refreshers : ~Coming(q, ph, i)
    BY <1>1, NothingComing DEF AloneInv, OthersIdle, Coming
  <2> QED  BY <1>2, <2>1, <2>2 DEF Settles
<1> QED
  BY <1>1, <1>3 DEF AloneInv

\* A Refresh that ran alone, without a failed upsert for a key, leaves the key at
\* least as new as every row it had when the Refresh began, although late commits
\* shift the pages and rows are replayed.
THEOREM AloneLeavesFresh == Spec => FreshWhenAlone
<1>1. ASSUME IInv, FreshInv, NEW r \in Refreshers, Finish(r), alone[r],
             NEW t \in Tables, NEW i \in atStart[r][t]
      PROVE  LET k == keyOf[t][i]
             IN  (\A j \in missed[r][t] : keyOf[t][j] # k) => locate'[t][k] >= i
  <2>1. locate' = locate
    BY <1>1 DEF Finish
  <2>2. Excused(r, t, i) \/ Shown(t, i)
    BY <1>1, AloneShown
  <2> QED  BY <2>1, <2>2 DEF Excused, Shown
<1>2. IInv /\ FreshInv /\ [Next]_vars =>
        [\A r \in Refreshers : Finish(r) /\ alone[r] =>
          \A t \in Tables : \A i \in atStart[r][t] :
             LET k == keyOf[t][i]
             IN  (\A j \in missed[r][t] : keyOf[t][j] # k) => locate'[t][k] >= i]_vars
  BY <1>1
<1> QED
  BY <1>2, InitFresh, FreshStep, InvariantHolds, PTL DEF Spec, FreshWhenAlone

-----------------------------------------------------------------------------
(* The mirror of a quiet Refresh                                           *)

\* LocateDB never shows a key a row that is not committed or not the key's.
Genuine ==
    \A t \in Tables : \A k \in Keys[t] : locate[t][k] # 0 =>
        Committed(t, locate[t][k]) /\ keyOf[t][locate[t][k]] = k

LEMMA GenuineStep == IInv /\ Genuine /\ [Next]_vars => Genuine'
<1> SUFFICES ASSUME IInv, Genuine, [Next]_vars,
                    NEW t \in Tables, NEW k \in Keys[t], locate'[t][k] # 0
             PROVE  Committed(t, locate[t][k])' /\ keyOf'[t][locate'[t][k]] = k
  BY DEF Genuine
<1>1. CASE locate'[t][k] = locate[t][k]
  <2>1. PICK i : i = locate[t][k]
    OBVIOUS
  <2>2. Committed(t, i) /\ keyOf[t][i] = k
    BY <1>1, <2>1 DEF Genuine
  <2>3. Committed(t, i)' /\ keyOf'[t][i] = k
    BY <2>2, CommittedKept
  <2>4. locate'[t][k] = i
    BY <1>1, <2>1
  <2> QED  BY <2>3, <2>4 DEF Committed
<1>2. ASSUME NEW r \in Refreshers, NEW i \in Ids, UpsertRow(r, i),
             locate'[t][k] # locate[t][k]
      PROVE  Committed(t, locate[t][k])' /\ keyOf'[t][locate'[t][k]] = k
  <2> DEFINE T == Table(r)
             c == keyOf[T][i]
  <2>1. TakeRow(r, i) /\ locate' = [locate EXCEPT ![T][c] = i]
    BY <1>2 DEF UpsertRow, Upserted
  <2>2. Committed(T, i) /\ keyOf' = keyOf /\ visible' = visible
    BY <2>1, TakeRowKeeps DEF TakeRow, db
  <2>3. /\ DOMAIN locate = Tables
        /\ \A u \in Tables : locate[u] \in [Keys[u] -> Ids \cup {0}]
    BY DEF IInv, TypeOK, LocateDBTypeOK
  <2> HIDE DEF T, c
  <2>4. t = T /\ k = c /\ locate'[t][k] = i
    BY <1>2, <2>1, <2>3
  <2> QED  BY <2>2, <2>4 DEF c, Committed
<1>3. CASE locate' = locate
  BY <1>1, <1>3
<1>4. CASE \E r \in Refreshers : \E i \in Ids : UpsertRow(r, i)
  BY <1>1, <1>2, <1>4
<1> QED
  BY <1>3, <1>4
     DEF Next, Insert, Progress, BeginInsert, CommitInsert, AbortInsert, StartRefresh,
         FetchPage, FetchFails, UpsertFails, NextPage, NextTable, Finish, ProcessDies, vars

\* At its end such a Refresh has every key at its newest report: it shows no
\* older one (AloneShown) and there is no newer one to show (Genuine).
LEMMA QuietMirror ==
    ASSUME IInv, FreshInv, Genuine, NEW r \in Refreshers, Finish(r), alone[r],
           \A t \in Tables : /\ ToSet(visible[t]) = atStart[r][t]
                             /\ \A i \in missed[r][t] : TooLong(t, keyOf[t][i])
    PROVE  CaughtUp'
<1>1. locate' = locate /\ keyOf' = keyOf /\ visible' = visible
  BY DEF Finish, db
<1> SUFFICES ASSUME NEW t \in Tables, NEW k \in Keys[t], ~TooLong(t, k), NEW i \in Newest(t, k)
             PROVE  locate[t][k] = i
  BY <1>1 DEF CaughtUp, Newest
<1>3. /\ i \in atStart[r][t] /\ keyOf[t][i] = k
      /\ \A j \in ToSet(visible[t]) : keyOf[t][j] = k => j <= i
  BY DEF Newest
<1>4. Excused(r, t, i) \/ Shown(t, i)
  BY <1>3, AloneShown
<1>5. ~Excused(r, t, i)
  BY <1>3 DEF Excused
<1>6. locate[t][k] >= i
  BY <1>3, <1>4, <1>5 DEF Shown
<1>7. i \in Nat \ {0} /\ locate[t][k] \in Nat
  <2>1. locate[t][k] \in Ids \cup {0} /\ i \in Ids
    BY <1>3, StartRow DEF IInv, TypeOK, LocateDBTypeOK
  <2> QED  BY <2>1, PipelineAssumption DEF Ids
<1>8. Committed(t, locate[t][k]) /\ keyOf[t][locate[t][k]] = k
  BY <1>6, <1>7 DEF Genuine
<1>9. locate[t][k] \in ToSet(visible[t])
  <2>1. visible[t] \in Seq(Ids)
    BY DEF IInv, TypeOK, UpdateDBTypeOK
  <2> QED  BY <1>8, <2>1 DEF Committed, ToSet
<1>10. locate[t][k] <= i
  BY <1>3, <1>8, <1>9
<1> QED
  BY <1>6, <1>7, <1>10

\* A Refresh that nothing overlapped, beside which no row was committed and in
\* which no upsert failed but those of addresses LocateDB cannot take, leaves
\* LocateDB with the newest report of every key: what MirrorCatchesUp says comes
\* again and again, without the fairness that makes such a Refresh happen.
THEOREM QuietRefreshLeavesMirror == Spec => QuietRefreshMirrors
<1>1. Init => Genuine
  BY DEF Init, Genuine
<1>2. IInv /\ FreshInv /\ Genuine /\ [Next]_vars =>
        [\A r \in Refreshers :
          /\ Finish(r) /\ alone[r]
          /\ \A t \in Tables : /\ ToSet(visible[t]) = atStart[r][t]
                                /\ \A i \in missed[r][t] : TooLong(t, keyOf[t][i])
          => CaughtUp']_vars
  BY QuietMirror
<1> QED
  BY <1>1, <1>2, GenuineStep, InitFresh, FreshStep, InvariantHolds, PTL
     DEF Spec, QuietRefreshMirrors
=============================================================================
