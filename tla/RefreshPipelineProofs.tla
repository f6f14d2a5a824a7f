----------------------- MODULE RefreshPipelineProofs ------------------------
(***************************************************************************)
(* Proofs about RefreshPipeline for every page size, any number of         *)
(* overlapping refreshes and any sets of keys.                             *)
(***************************************************************************)
EXTENDS RefreshPipeline, SequenceTheorems, TLAPS

\* Ids are allocated before they are pending or visible, never both.
IdsAllocated ==
    \A t \in Tables :
        /\ pending[t] \subseteq 1..Len(keyOf[t])
        /\ \A q \in 1..Len(visible[t]) :
              /\ visible[t][q] \in 1..Len(keyOf[t])
              /\ visible[t][q] \notin pending[t]

\* Id i of table t is committed.
Committed(t, i) == \E q \in 1..Len(visible[t]) : visible[t][q] = i

\* Id i is still to be upserted from r's current page.
OnPage(r, i) == \E n \in 1..Len(page[r]) : page[r][n] = i

\* Everything r holds was committed, and stays so.
HeldCommitted(r) ==
    /\ \A t \in Tables : \A i \in atStart[r][t] : Committed(t, i)
    /\ pc[r] = "upsert" => \A n \in 1..Len(page[r]) : Committed(Table(r), page[r][n])

\* Tables before the current one are covered.
EarlierCovered(r) ==
    \A ph \in 1..Len(Order) : ph < phase[r] =>
        atStart[r][Order[ph]] \subseteq tried[r][Order[ph]]

\* Before a page: the start rows below the offset have been tried.
FetchCovered(r) ==
    LET t == Table(r)
    IN  \A q \in 1..Len(visible[t]) :
            q <= offset[r] /\ visible[t][q] \in atStart[r][t]
                => visible[t][q] \in tried[r][t]

\* In a page: the start rows below its end have been tried or are on it, and a
\* short page leaves no other start row.
UpsertCovered(r) ==
    LET t == Table(r)
    IN  \A q \in 1..Len(visible[t]) :
            /\ visible[t][q] \in atStart[r][t]
            /\ LastPage(fetched[r]) \/ q <= offset[r] + fetched[r]
            => visible[t][q] \in tried[r][t] \/ OnPage(r, visible[t][q])

Progressing(r) ==
    /\ pc[r] # "idle" => result[r] = "none" /\ EarlierCovered(r)
    /\ pc[r] = "fetch" => FetchCovered(r)
    /\ pc[r] = "upsert" => UpsertCovered(r)

\* What r has returned without an error covers its start rows.
ReturnCovered(r) ==
    result[r] = "ok" => \A t \in Tables : atStart[r][t] \subseteq tried[r][t]

RefresherInv(r) == HeldCommitted(r) /\ Progressing(r) /\ ReturnCovered(r)

IInv == TypeOK /\ IdsAllocated /\ \A r \in Refreshers : RefresherInv(r)

-----------------------------------------------------------------------------
(* Sequences                                                               *)

\* w is s with i put in at place p: later elements move up by one.
InsertedAt(s, p, i, w) ==
    /\ Len(w) = Len(s) + 1
    /\ \A q \in 1..Len(s) + 1 :
          w[q] = IF q < p THEN s[q] ELSE IF q = p THEN i ELSE s[q - 1]

LEMMA InsertAtPointwise ==
    ASSUME NEW S, NEW s \in Seq(S), NEW p \in 1..Len(s) + 1, NEW i \in S
    PROVE  InsertAt(s, p, i) \in Seq(S) /\ InsertedAt(s, p, i, InsertAt(s, p, i))
<1> DEFINE pre == SubSeq(s, 1, p - 1)
           post == SubSeq(s, p, Len(s))
<1>1. /\ pre \in Seq(S) /\ Len(pre) = p - 1
      /\ \A q \in 1..p - 1 : pre[q] = s[q]
  OBVIOUS
<1>2. /\ post \in Seq(S) /\ Len(post) = Len(s) - p + 1
      /\ \A q \in 1..Len(s) - p + 1 : post[q] = s[p + q - 1]
  OBVIOUS
<1>3. InsertAt(s, p, i) = (pre \o <<i>>) \o post
  BY DEF InsertAt
<1>4. /\ <<i>> \in Seq(S) /\ Len(<<i>>) = 1 /\ <<i>>[1] = i
  OBVIOUS
<1> DEFINE low == pre \o <<i>>
<1>5. /\ low \in Seq(S) /\ Len(low) = p
      /\ \A q \in 1..p : low[q] = IF q < p THEN s[q] ELSE i
  <2> HIDE DEF pre
  <2> QED  BY <1>1, <1>4, ConcatProperties
<1> HIDE DEF pre, post, low
<1>6. /\ low \o post \in Seq(S) /\ Len(low \o post) = Len(s) + 1
      /\ \A q \in 1..Len(s) + 1 :
            (low \o post)[q] = IF q < p THEN s[q] ELSE IF q = p THEN i ELSE s[q - 1]
  <2>1. /\ low \o post \in Seq(S)
        /\ Len(low \o post) = p + Len(post)
        /\ \A q \in 1..p + Len(post) :
              (low \o post)[q] = IF q <= p THEN low[q] ELSE post[q - p]
    <3>1. post \in Seq(S) /\ low \in Seq(S) /\ Len(low) = p
      BY <1>2, <1>5
    <3> QED  BY ONLY <3>1, ConcatProperties, Zenon
  <2>2. p + Len(post) = Len(s) + 1
    BY <1>2
  <2>3. \A q \in p + 1..Len(s) + 1 : post[q - p] = s[q - 1]
    BY <1>2
  <2> QED  BY <1>5, <2>1, <2>2, <2>3
<1> QED
  BY <1>3, <1>6 DEF low, InsertedAt

\* w is s with i put in: every element of s stays, and each place of w holds i or
\* an element that was at that place of s or before it.
MadeRoom(s, i, w) ==
    /\ \E x \in 1..Len(w) : w[x] = i
    /\ \A q \in 1..Len(s) : \E x \in 1..Len(w) : w[x] = s[q]
    /\ \A x \in 1..Len(w) :
          w[x] = i \/ \E q \in 1..Len(s) : q <= x /\ w[x] = s[q]

LEMMA InsertAtShift ==
    ASSUME NEW S, NEW s \in Seq(S), NEW p \in 1..Len(s) + 1, NEW i \in S
    PROVE  InsertAt(s, p, i) \in Seq(S) /\ MadeRoom(s, i, InsertAt(s, p, i))
<1> DEFINE w == InsertAt(s, p, i)
<1>0. w \in Seq(S) /\ InsertedAt(s, p, i, w)
  BY InsertAtPointwise
<1>1. /\ w \in Seq(S) /\ Len(w) = Len(s) + 1
      /\ \A q \in 1..Len(s) + 1 :
            w[q] = IF q < p THEN s[q] ELSE IF q = p THEN i ELSE s[q - 1]
  BY <1>0 DEF InsertedAt
<1> HIDE DEF w
<1>2. p \in 1..Len(w) /\ w[p] = i
  BY <1>1
<1>3. ASSUME NEW q \in 1..Len(s) PROVE \E x \in 1..Len(w) : w[x] = s[q]
  <2>1. CASE q < p
    BY <1>1, <2>1
  <2>2. CASE ~(q < p)
    <3>1. q + 1 \in 1..Len(w) /\ w[q + 1] = s[q]
      BY <1>1, <2>2
    <3> QED  BY <3>1
  <2> QED  BY <2>1, <2>2
<1>4. ASSUME NEW x \in 1..Len(w), x # p
      PROVE  \E q \in 1..Len(s) : q <= x /\ w[x] = s[q]
  <2>1. CASE x < p
    <3>1. x \in 1..Len(s) /\ x <= x /\ w[x] = s[x]
      BY <1>1, <2>1
    <3> QED  BY <3>1
  <2>2. CASE x > p
    <3>1. x - 1 \in 1..Len(s) /\ x - 1 <= x /\ w[x] = s[x - 1]
      BY <1>1, <2>2
    <3> QED  BY <3>1
  <2> QED  BY <1>1, <1>4, <2>1, <2>2
<1> QED
  BY <1>1, <1>2, <1>3, <1>4 DEF w, MadeRoom

\* The inserted element is all that an insertion adds.
LEMMA InsertAtAdds ==
    ASSUME NEW S, NEW s \in Seq(S), NEW p \in 1..Len(s) + 1, NEW i \in S
    PROVE  ToSet(InsertAt(s, p, i)) = ToSet(s) \cup {i}
<1> DEFINE w == InsertAt(s, p, i)
<1>1. w \in Seq(S) /\ MadeRoom(s, i, w)
  BY InsertAtShift
<1> HIDE DEF w
<1>2. /\ \A j : j \in ToSet(s) <=> \E q \in 1..Len(s) : s[q] = j
      /\ \A j : j \in ToSet(w) <=> \E q \in 1..Len(w) : w[q] = j
  BY <1>1 DEF ToSet
<1>3. \A j : j \in ToSet(w) <=> j \in ToSet(s) \/ j = i
  BY <1>1, <1>2 DEF MadeRoom
<1> QED
  BY <1>3 DEF w

\* A page is the rows off + 1, off + 2, ... of the table, at most limit of them
\* and fewer only when they reach its end.
LEMMA PagePointwise ==
    ASSUME NEW S, NEW s \in Seq(S), NEW off \in Nat, NEW limit \in Nat \ {0}
    PROVE  LET pg == PageOf(s, off, limit)
           IN  /\ pg \in Seq(S)
               /\ Len(pg) \in 0..limit
               /\ \A n \in 1..Len(pg) : off + n \in 1..Len(s) /\ pg[n] = s[off + n]
               /\ \A q \in 1..Len(s) :
                     q > off /\ (Len(pg) < limit \/ q <= off + Len(pg))
                         => q - off \in 1..Len(pg)
<1>1. CASE off >= Len(s)
  BY <1>1 DEF PageOf, Least
<1>2. CASE off < Len(s)
  BY <1>2 DEF PageOf, Least
<1> QED
  BY <1>1, <1>2
-----------------------------------------------------------------------------
(* The inductive invariant                                                 *)

LEMMA OrderFacts ==
    /\ Len(Order) = 3
    /\ \A ph \in 1..3 : Order[ph] \in Tables
    /\ \A t \in Tables : \E ph \in 1..3 : Order[ph] = t
BY DEF Order, Tables

LEMMA InitIInv == Init => IInv
<1> SUFFICES ASSUME Init PROVE IInv
  OBVIOUS
<1> USE PipelineAssumption DEF Init
<1>1. TypeOK
  <2>1. \A t \in Tables : locate[t] \in [Keys[t] -> Ids \cup {0}]
    BY DEF Ids
  <2>2. NoIds \in [Tables -> SUBSET Ids]
    BY DEF NoIds
  <2>3. UpdateDBTypeOK
    BY <2>2 DEF UpdateDBTypeOK
  <2>4. LocateDBTypeOK
    BY <2>1 DEF LocateDBTypeOK
  <2>5. RefreshTypeOK
    BY OrderFacts DEF RefreshTypeOK
  <2>6. HistoryTypeOK
    BY <2>2 DEF HistoryTypeOK
  <2> QED  BY <2>3, <2>4, <2>5, <2>6 DEF TypeOK
<1>2. IdsAllocated
  BY DEF IdsAllocated, NoIds
<1>3. \A r \in Refreshers : RefresherInv(r)
  BY DEF RefresherInv, HeldCommitted, Progressing, ReturnCovered, NoIds
<1> QED
  BY <1>1, <1>2, <1>3 DEF IInv
-----------------------------------------------------------------------------
(* Every step preserves it                                                 *)

\* A step that touches neither UpdateDB's visible rows nor anything of r's.
LEMMA RefresherFrame ==
    ASSUME NEW r, RefresherInv(r), visible' = visible,
           pc'[r] = pc[r], phase'[r] = phase[r], offset'[r] = offset[r],
           fetched'[r] = fetched[r], page'[r] = page[r], result'[r] = result[r],
           atStart'[r] = atStart[r], tried'[r] = tried[r]
    PROVE  RefresherInv(r)'
<1>1. Table(r)' = Table(r)
  BY DEF Table
<1>2. HeldCommitted(r)'
  BY <1>1 DEF RefresherInv, HeldCommitted, Committed
<1>3. EarlierCovered(r) => EarlierCovered(r)'
  BY DEF EarlierCovered
<1>4. FetchCovered(r) => FetchCovered(r)'
  BY <1>1 DEF FetchCovered
<1>5. UpsertCovered(r) => UpsertCovered(r)'
  BY <1>1 DEF UpsertCovered, OnPage, LastPage
<1>6. Progressing(r)'
  BY <1>3, <1>4, <1>5 DEF RefresherInv, Progressing
<1> QED
  BY <1>2, <1>6 DEF RefresherInv, ReturnCovered

LEMMA BeginInsertStep ==
    ASSUME IInv, NEW t \in Tables, NEW k \in Keys[t], BeginInsert(t, k)
    PROVE  IInv'
<1>1. /\ UpdateDBTypeOK /\ LocateDBTypeOK /\ RefreshTypeOK /\ HistoryTypeOK
      /\ faults \in 0..MaxFaults
      /\ IdsAllocated /\ \A r \in Refreshers : RefresherInv(r)
  BY DEF IInv, TypeOK
<1>2. /\ Len(keyOf[t]) < MaxRows
      /\ keyOf' = [keyOf EXCEPT ![t] = Append(@, k)]
      /\ pending' = [pending EXCEPT ![t] = @ \cup {Len(keyOf[t]) + 1}]
      /\ UNCHANGED <<visible, locate, faults, locals, ghosts>>
  BY DEF BeginInsert
<1>3. k \in CellKeys \cup WifiKeys \cup IpKeys
  BY DEF Keys, Tables
<1>4. /\ Len(keyOf'[t]) = Len(keyOf[t]) + 1
      /\ \A i \in 1..Len(keyOf[t]) + 1 :
            keyOf'[t][i] = IF i = Len(keyOf[t]) + 1 THEN k ELSE keyOf[t][i]
      /\ \A u \in Tables \ {t} : keyOf'[u] = keyOf[u]
  BY <1>1, <1>2, <1>3 DEF UpdateDBTypeOK
<1>5. Len(keyOf[t]) + 1 \in Ids
  BY <1>1, <1>2, PipelineAssumption DEF UpdateDBTypeOK, Ids
<1>6. UpdateDBTypeOK'
  <2>1. keyOf' \in [Tables -> Seq(CellKeys \cup WifiKeys \cup IpKeys)]
    BY <1>1, <1>2, <1>3 DEF UpdateDBTypeOK
  <2>2. ASSUME NEW u \in Tables
        PROVE  /\ Len(keyOf'[u]) <= MaxRows
               /\ \A i \in 1..Len(keyOf'[u]) : keyOf'[u][i] \in Keys[u]
    <3>1. CASE u = t
      BY <1>1, <1>2, <1>4, <3>1, PipelineAssumption DEF UpdateDBTypeOK
    <3>2. CASE u # t
      BY <1>1, <1>4, <3>2 DEF UpdateDBTypeOK
    <3> QED  BY <3>1, <3>2
  <2>3. pending' \in [Tables -> SUBSET Ids] /\ visible' \in [Tables -> Seq(Ids)]
    BY <1>1, <1>2, <1>5 DEF UpdateDBTypeOK
  <2> QED  BY <2>1, <2>2, <2>3 DEF UpdateDBTypeOK
<1>7. TypeOK'
  BY <1>1, <1>2, <1>6
     DEF TypeOK, LocateDBTypeOK, RefreshTypeOK, HistoryTypeOK, locals, ghosts
<1>8. IdsAllocated'
  BY <1>1, <1>2, <1>4 DEF IdsAllocated, UpdateDBTypeOK
<1>9. \A r \in Refreshers : RefresherInv(r)'
  BY <1>1, <1>2, RefresherFrame DEF locals, ghosts
<1> QED
  BY <1>7, <1>8, <1>9 DEF IInv

LEMMA AbortInsertStep ==
    ASSUME IInv, NEW t \in Tables, NEW i \in Ids, AbortInsert(t, i)
    PROVE  IInv'
<1> USE DEF IInv, AbortInsert, locals, ghosts
<1>1. TypeOK'
  BY DEF TypeOK, UpdateDBTypeOK, LocateDBTypeOK, RefreshTypeOK, HistoryTypeOK
<1>2. IdsAllocated'
  BY DEF IdsAllocated, TypeOK, UpdateDBTypeOK
<1>3. \A r \in Refreshers : RefresherInv(r)'
  BY RefresherFrame
<1> QED
  BY <1>1, <1>2, <1>3

\* A commit only makes room: every visible row stays, and the rows at a rank are
\* the new one or rows that were at that rank or below.
LEMMA CommitShift ==
    ASSUME IInv, NEW t \in Tables, NEW i \in Ids, CommitInsert(t, i)
    PROVE  /\ visible' \in [Tables -> Seq(Ids)]
           /\ \A u \in Tables \ {t} : visible'[u] = visible[u]
           /\ MadeRoom(visible[t], i, visible'[t])
<1>1. visible \in [Tables -> Seq(Ids)] /\ visible[t] \in Seq(Ids)
  BY DEF IInv, TypeOK, UpdateDBTypeOK
<1>2. PICK p \in 1..Len(visible[t]) + 1 :
         visible' = [visible EXCEPT ![t] = InsertAt(@, p, i)]
  BY DEF CommitInsert
<1>3. /\ visible'[t] = InsertAt(visible[t], p, i)
      /\ \A u \in Tables \ {t} : visible'[u] = visible[u]
  BY <1>1, <1>2
<1>4. /\ InsertAt(visible[t], p, i) \in Seq(Ids)
      /\ MadeRoom(visible[t], i, InsertAt(visible[t], p, i))
  BY <1>1, InsertAtShift
<1>5. visible' \in [Tables -> Seq(Ids)]
  BY <1>1, <1>2, <1>4
<1> QED
  BY <1>3, <1>4, <1>5

LEMMA CommitInsertStep ==
    ASSUME IInv, NEW t \in Tables, NEW i \in Ids, CommitInsert(t, i)
    PROVE  IInv'
<1>0. /\ UpdateDBTypeOK /\ LocateDBTypeOK /\ RefreshTypeOK /\ HistoryTypeOK
      /\ faults \in 0..MaxFaults
      /\ IdsAllocated /\ \A r \in Refreshers : RefresherInv(r)
  BY DEF IInv, TypeOK
<1>1. /\ i \in pending[t]
      /\ pending' = [pending EXCEPT ![t] = @ \ {i}]
      /\ UNCHANGED <<keyOf, locate, faults, locals, ghosts>>
  BY DEF CommitInsert
<1>2. /\ \A q \in 1..Len(visible[t]) : \E x \in 1..Len(visible'[t]) :
            visible'[t][x] = visible[t][q]
      /\ \A x \in 1..Len(visible'[t]) :
            \/ visible'[t][x] = i
            \/ \E q \in 1..Len(visible[t]) :
                  q <= x /\ visible'[t][x] = visible[t][q]
  BY CommitShift DEF MadeRoom
<1>3. visible' \in [Tables -> Seq(Ids)] /\ \A u \in Tables \ {t} : visible'[u] = visible[u]
  BY CommitShift
<1>4. /\ visible[t] \in Seq(Ids) /\ Len(visible[t]) \in Nat
      /\ visible'[t] \in Seq(Ids) /\ Len(visible'[t]) \in Nat
  BY <1>0, <1>3 DEF UpdateDBTypeOK
<1>5. TypeOK'
  BY <1>0, <1>1, <1>3
     DEF TypeOK, UpdateDBTypeOK, LocateDBTypeOK, RefreshTypeOK, HistoryTypeOK,
         locals, ghosts
<1>6. IdsAllocated'
  <2>1. \A u \in Tables : pending'[u] \subseteq pending[u] /\ i \notin pending'[t]
    BY <1>0, <1>1 DEF UpdateDBTypeOK
  <2>2. \A q \in 1..Len(visible'[t]) :
           visible'[t][q] \in 1..Len(keyOf[t]) /\ visible'[t][q] \notin pending'[t]
    BY <1>0, <1>1, <1>2, <1>4, <2>1 DEF IdsAllocated
  <2> QED
    BY <1>0, <1>1, <1>2, <1>3, <2>1, <2>2 DEF IdsAllocated
<1>7. ASSUME NEW r \in Refreshers PROVE RefresherInv(r)'
  <2>1. ASSUME NEW u \in Tables, NEW j, Committed(u, j) PROVE Committed(u, j)'
    <3>1. CASE u # t
      BY <1>3, <2>1, <3>1 DEF Committed
    <3>2. CASE u = t
      BY <1>2, <2>1, <3>2 DEF Committed
    <3> QED  BY <3>1, <3>2
  <2>2. Table(r) \in Tables /\ Table(r)' = Table(r)
    BY <1>0, <1>1, OrderFacts DEF RefreshTypeOK, Table, locals
  <2>3. HeldCommitted(r)'
    BY <1>0, <1>1, <2>1, <2>2 DEF RefresherInv, HeldCommitted, locals, ghosts
  <2>4. i \notin atStart[r][t]
    <3>1. ~Committed(t, i)
      BY <1>0, <1>1 DEF IdsAllocated, Committed
    <3> QED  BY <1>0, <3>1 DEF RefresherInv, HeldCommitted
  <2>5. offset[r] \in Nat /\ fetched[r] \in Nat
    BY <1>0 DEF RefreshTypeOK
  <2> DEFINE T == Table(r)
  <2>6. ASSUME NEW x \in 1..Len(visible'[T]), visible'[T][x] \in atStart[r][T]
        PROVE  \E q \in 1..Len(visible[T]) : q <= x /\ visible'[T][x] = visible[T][q]
    <3>1. CASE T # t
      <4>1. visible'[T] = visible[T] /\ x <= x
        BY <1>3, <2>2, <3>1
      <4> QED  BY <2>6, <4>1
    <3>2. CASE T = t
      BY <1>2, <2>4, <2>6, <3>2
    <3> QED  BY <3>1, <3>2
  <2>7. pc[r] = "fetch" => FetchCovered(r)'
    <3> SUFFICES ASSUME pc[r] = "fetch", NEW x \in 1..Len(visible'[T]), x <= offset[r],
                        visible'[T][x] \in atStart[r][T]
                 PROVE  visible'[T][x] \in tried[r][T]
      BY <1>1, <2>2 DEF FetchCovered, locals, ghosts
    <3>1. PICK q \in 1..Len(visible[T]) : q <= x /\ visible'[T][x] = visible[T][q]
      BY <2>6
    <3>2. q <= offset[r]
      BY <2>5, <3>1
    <3>3. FetchCovered(r)
      BY <1>0 DEF RefresherInv, Progressing
    <3> QED  BY <3>1, <3>2, <3>3 DEF FetchCovered
  <2>8. pc[r] = "upsert" => UpsertCovered(r)'
    <3> SUFFICES ASSUME pc[r] = "upsert", NEW x \in 1..Len(visible'[T]),
                        visible'[T][x] \in atStart[r][T],
                        LastPage(fetched[r]) \/ x <= offset[r] + fetched[r]
                 PROVE  visible'[T][x] \in tried[r][T] \/ OnPage(r, visible'[T][x])
      BY <1>1, <2>2 DEF UpsertCovered, LastPage, OnPage, locals, ghosts
    <3>1. PICK q \in 1..Len(visible[T]) : q <= x /\ visible'[T][x] = visible[T][q]
      BY <2>6
    <3>2. LastPage(fetched[r]) \/ q <= offset[r] + fetched[r]
      BY <2>5, <3>1
    <3>3. UpsertCovered(r)
      BY <1>0 DEF RefresherInv, Progressing
    <3> QED  BY <3>1, <3>2, <3>3 DEF UpsertCovered
  <2>9. Progressing(r)'
    BY <1>0, <1>1, <2>7, <2>8 DEF RefresherInv, Progressing, EarlierCovered, locals, ghosts
  <2>10. ReturnCovered(r)'
    BY <1>0, <1>1 DEF RefresherInv, ReturnCovered, locals, ghosts
  <2> QED  BY <2>3, <2>9, <2>10 DEF RefresherInv
<1> QED
  BY <1>5, <1>6, <1>7 DEF IInv
LEMMA StartRefreshStep ==
    ASSUME IInv, NEW r \in Refreshers, StartRefresh(r)
    PROVE  IInv'
<1>0. /\ UpdateDBTypeOK /\ LocateDBTypeOK /\ RefreshTypeOK /\ HistoryTypeOK
      /\ faults \in 0..MaxFaults
      /\ IdsAllocated /\ \A q \in Refreshers : RefresherInv(q)
  BY DEF IInv, TypeOK
<1>1. TypeOK'
  <2>1. RefreshTypeOK'
    BY <1>0, OrderFacts DEF StartRefresh, RefreshTypeOK
  <2>2. \A t \in Tables : ToSet(visible[t]) \in SUBSET Ids
    BY <1>0 DEF UpdateDBTypeOK, ToSet
  <2>3. [t \in Tables |-> ToSet(visible[t])] \in [Tables -> SUBSET Ids]
    BY <2>2
  <2>4. NoIds \in [Tables -> SUBSET Ids]
    BY DEF NoIds
  <2>5. alone' \in [Refreshers -> BOOLEAN]
    BY <1>0, Zenon DEF StartRefresh, HistoryTypeOK
  <2>6. HistoryTypeOK'
    BY <1>0, <2>3, <2>4, <2>5 DEF StartRefresh, HistoryTypeOK
  <2> QED
    BY <1>0, <2>1, <2>6 DEF StartRefresh, TypeOK, UpdateDBTypeOK, LocateDBTypeOK, db
<1>2. IdsAllocated'
  BY <1>0 DEF StartRefresh, IdsAllocated, db
<1>3. ASSUME NEW q \in Refreshers, q # r PROVE RefresherInv(q)'
  <2>1. /\ pc'[q] = pc[q] /\ phase'[q] = phase[q] /\ offset'[q] = offset[q]
        /\ fetched'[q] = fetched[q] /\ page'[q] = page[q] /\ result'[q] = result[q]
        /\ atStart'[q] = atStart[q] /\ tried'[q] = tried[q]
        /\ visible' = visible
    BY <1>0, <1>3 DEF StartRefresh, RefreshTypeOK, HistoryTypeOK, db
  <2> QED  BY <1>0, <2>1, RefresherFrame
<1>4. RefresherInv(r)'
  <2>1. /\ visible' = visible /\ pc'[r] = "fetch" /\ phase'[r] = 1 /\ offset'[r] = 0
        /\ result'[r] = "none"
        /\ \A t \in Tables : atStart'[r][t] = ToSet(visible[t])
    BY <1>0 DEF StartRefresh, RefreshTypeOK, HistoryTypeOK, db
  <2>2. \A t \in Tables : \A i \in ToSet(visible[t]) : Committed(t, i)
    BY <1>0 DEF ToSet, Committed, UpdateDBTypeOK
  <2>3. HeldCommitted(r)'
    BY <2>1, <2>2 DEF HeldCommitted, Committed
  <2>4. EarlierCovered(r)' /\ FetchCovered(r)'
    BY <1>0, <2>1, OrderFacts DEF EarlierCovered, FetchCovered, Table, UpdateDBTypeOK
  <2> QED  BY <2>1, <2>3, <2>4 DEF RefresherInv, Progressing, ReturnCovered
<1> QED
  BY <1>1, <1>2, <1>3, <1>4 DEF IInv

\* A step of r inside its Refresh leaves the other refreshers' part alone.
LEMMA OthersFrame ==
    ASSUME IInv, NEW r \in Refreshers, visible' = visible,
           \A q \in Refreshers \ {r} :
              /\ pc'[q] = pc[q] /\ phase'[q] = phase[q] /\ offset'[q] = offset[q]
              /\ fetched'[q] = fetched[q] /\ page'[q] = page[q]
              /\ result'[q] = result[q]
              /\ atStart'[q] = atStart[q] /\ tried'[q] = tried[q],
           TypeOK', IdsAllocated', RefresherInv(r)'
    PROVE  IInv'
<1>1. ASSUME NEW q \in Refreshers PROVE RefresherInv(q)'
  <2>1. CASE q = r
    BY <2>1
  <2>2. CASE q # r
    BY <2>2, RefresherFrame DEF IInv
  <2> QED  BY <2>1, <2>2
<1> QED
  BY <1>1 DEF IInv

LEMMA TableFact == ASSUME TypeOK, NEW r \in Refreshers PROVE Table(r) \in Tables
BY OrderFacts DEF TypeOK, RefreshTypeOK, Table

LEMMA FetchPageStep ==
    ASSUME IInv, NEW r \in Refreshers, FetchPage(r)
    PROVE  IInv'
<1>0. /\ UpdateDBTypeOK /\ LocateDBTypeOK /\ RefreshTypeOK /\ HistoryTypeOK
      /\ faults \in 0..MaxFaults
      /\ IdsAllocated /\ \A q \in Refreshers : RefresherInv(q)
  BY DEF IInv, TypeOK
<1> DEFINE T == Table(r)
           s == visible[T]
           pg == PageOf(s, offset[r], PageSize)
<1>1. T \in Tables /\ s \in Seq(Ids) /\ offset[r] \in Nat
  BY <1>0, TableFact DEF IInv, UpdateDBTypeOK, RefreshTypeOK
<1>2. /\ pg \in Seq(Ids)
      /\ Len(pg) \in 0..PageSize
      /\ \A n \in 1..Len(pg) : offset[r] + n \in 1..Len(s) /\ pg[n] = s[offset[r] + n]
      /\ \A q \in 1..Len(s) :
            q > offset[r] /\ (Len(pg) < PageSize \/ q <= offset[r] + Len(pg))
               => q - offset[r] \in 1..Len(pg)
  <2> HIDE DEF s
  <2> QED  BY <1>1, PagePointwise, PipelineAssumption
<1>3. /\ pc[r] = "fetch"
      /\ page' = [page EXCEPT ![r] = pg]
      /\ fetched' = [fetched EXCEPT ![r] = Len(pg)]
      /\ pc' = [pc EXCEPT ![r] = "upsert"]
      /\ UNCHANGED <<db, locate, faults, phase, offset, result, ghosts>>
  <2>1. page'[r] = pg
    BY <1>0 DEF FetchPage, RefreshTypeOK
  <2> QED  BY <2>1 DEF FetchPage
<1> HIDE DEF pg
<1>4. TypeOK'
  BY <1>0, <1>2, <1>3
     DEF TypeOK, UpdateDBTypeOK, LocateDBTypeOK, RefreshTypeOK, HistoryTypeOK,
         db, ghosts
<1>5. IdsAllocated'
  BY <1>0, <1>3 DEF IdsAllocated, db
<1>6. RefresherInv(r)'
  <2>1. /\ visible' = visible /\ Table(r)' = T /\ pc'[r] = "upsert" /\ page'[r] = pg
        /\ fetched'[r] = Len(pg) /\ offset'[r] = offset[r] /\ result'[r] = result[r]
        /\ atStart'[r] = atStart[r] /\ tried'[r] = tried[r] /\ phase'[r] = phase[r]
    BY <1>0, <1>3 DEF RefreshTypeOK, Table, db, ghosts
  <2>2. HeldCommitted(r)'
    <3>1. HeldCommitted(r)
      BY <1>0 DEF RefresherInv
    <3>2. ASSUME NEW n \in 1..Len(pg) PROVE \E q \in 1..Len(s) : s[q] = pg[n]
      BY <1>2
    <3> QED  BY <2>1, <3>1, <3>2 DEF HeldCommitted, Committed
  <2>3. UpsertCovered(r)'
    <3> SUFFICES ASSUME NEW q \in 1..Len(s), s[q] \in atStart[r][T],
                        Len(pg) < PageSize \/ q <= offset[r] + Len(pg)
                 PROVE  s[q] \in tried[r][T] \/ \E n \in 1..Len(pg) : pg[n] = s[q]
      BY <2>1 DEF UpsertCovered, OnPage, LastPage
    <3>1. CASE q <= offset[r]
      BY <1>0, <1>3, <3>1 DEF RefresherInv, Progressing, FetchCovered
    <3>2. CASE q > offset[r]
      <4>1. q - offset[r] \in 1..Len(pg)
        BY <1>2, <3>2
      <4>2. offset[r] + (q - offset[r]) = q
        BY <1>1
      <4>3. pg[q - offset[r]] = s[q]
        BY <1>2, <4>1, <4>2
      <4> QED  BY <4>1, <4>3
    <3> QED  BY <1>1, <3>1, <3>2
  <2>4. EarlierCovered(r)' /\ result[r] = "none"
    BY <1>0, <1>3, <2>1 DEF RefresherInv, Progressing, EarlierCovered
  <2> QED  BY <2>1, <2>2, <2>3, <2>4 DEF RefresherInv, Progressing, ReturnCovered
<1> QED
  BY <1>0, <1>3, <1>4, <1>5, <1>6, OthersFrame DEF RefreshTypeOK, db, ghosts

LEMMA FetchFailsStep ==
    ASSUME IInv, NEW r \in Refreshers, FetchFails(r)
    PROVE  IInv'
<1>0. /\ UpdateDBTypeOK /\ LocateDBTypeOK /\ RefreshTypeOK /\ HistoryTypeOK
      /\ faults \in 0..MaxFaults
      /\ IdsAllocated /\ \A q \in Refreshers : RefresherInv(q)
  BY DEF IInv, TypeOK
<1>1. TypeOK'
  <2>1. RefreshTypeOK' /\ HistoryTypeOK'
    BY <1>0 DEF FetchFails, FetchError, RefreshTypeOK, HistoryTypeOK, NoIds
  <2>2. faults' \in 0..MaxFaults
    BY <1>0, PipelineAssumption DEF FetchFails
  <2> QED
    BY <1>0, <2>1, <2>2 DEF FetchFails, TypeOK, UpdateDBTypeOK, LocateDBTypeOK, db
<1>2. IdsAllocated'
  BY <1>0 DEF FetchFails, IdsAllocated, db
<1>3. RefresherInv(r)'
  <2>1. /\ visible' = visible /\ pc'[r] = "idle" /\ result'[r] = "failed"
        /\ atStart'[r] = atStart[r] /\ tried'[r] = tried[r]
    BY <1>0 DEF FetchFails, FetchError, RefreshTypeOK, db, ghosts
  <2> QED
    BY <1>0, <2>1 DEF RefresherInv, HeldCommitted, Progressing, ReturnCovered, Committed
<1> QED
  BY <1>0, <1>1, <1>2, <1>3, OthersFrame DEF FetchFails, RefreshTypeOK, db, ghosts

\* The process may end at any point of a page: an idle refresher owes nothing.
LEMMA ProcessDiesStep ==
    ASSUME IInv, ProcessDies
    PROVE  IInv'
<1>0. /\ UpdateDBTypeOK /\ LocateDBTypeOK /\ RefreshTypeOK /\ HistoryTypeOK
      /\ faults \in 0..MaxFaults
      /\ IdsAllocated /\ \A q \in Refreshers : RefresherInv(q)
  BY DEF IInv, TypeOK
<1>1. TypeOK'
  <2>1. RefreshTypeOK' /\ HistoryTypeOK'
    BY <1>0, OrderFacts, PipelineAssumption
       DEF ProcessDies, RefreshTypeOK, HistoryTypeOK, NoIds
  <2>2. faults' \in 0..MaxFaults
    BY <1>0, PipelineAssumption DEF ProcessDies
  <2> QED
    BY <1>0, <2>1, <2>2 DEF ProcessDies, TypeOK, UpdateDBTypeOK, LocateDBTypeOK, db
<1>2. IdsAllocated'
  BY <1>0 DEF ProcessDies, IdsAllocated, db
<1>3. ASSUME NEW r \in Refreshers PROVE RefresherInv(r)'
  <2>1. /\ visible' = visible /\ pc'[r] = "idle" /\ result'[r] = result[r]
        /\ atStart'[r] = atStart[r] /\ tried'[r] = tried[r]
    BY DEF ProcessDies, db, ghosts
  <2> QED
    BY <1>0, <2>1 DEF RefresherInv, HeldCommitted, Progressing, ReturnCovered, Committed
<1> QED
  BY <1>1, <1>2, <1>3 DEF IInv

\* Both outcomes of an upsert take the page's first row.
LEMMA TakeRowKeeps ==
    ASSUME IInv, NEW r \in Refreshers, NEW i \in Ids, TakeRow(r, i)
    PROVE  /\ RefreshTypeOK'
           /\ tried' \in [Refreshers -> [Tables -> SUBSET Ids]]
           /\ Committed(Table(r), i)
           /\ RefresherInv(r)'
<1>0. /\ UpdateDBTypeOK /\ LocateDBTypeOK /\ RefreshTypeOK /\ HistoryTypeOK
      /\ faults \in 0..MaxFaults
      /\ IdsAllocated /\ \A q \in Refreshers : RefresherInv(q)
  BY DEF IInv, TypeOK
<1> DEFINE T == Table(r)
           rest == Tail(page[r])
<1>1. /\ pc[r] = "upsert" /\ page[r] # <<>> /\ i = Head(page[r])
      /\ page' = [page EXCEPT ![r] = rest]
      /\ tried' = [tried EXCEPT ![r][T] = @ \cup {i}]
      /\ UNCHANGED <<db, pc, phase, offset, fetched, result, atStart, alone>>
  BY DEF TakeRow
<1>2. T \in Tables /\ page[r] \in Seq(Ids)
  BY <1>0, TableFact DEF IInv, RefreshTypeOK
<1>3. /\ rest \in Seq(Ids) /\ Len(rest) = Len(page[r]) - 1
      /\ \A n \in 1..Len(rest) : rest[n] = page[r][n + 1]
      /\ i = page[r][1] /\ Len(page[r]) \in Nat \ {0}
  BY <1>1, <1>2
<1> HIDE DEF rest
<1>4. RefreshTypeOK'
  BY <1>0, <1>1, <1>3 DEF RefreshTypeOK
<1>5. tried' \in [Refreshers -> [Tables -> SUBSET Ids]]
  BY <1>0, <1>1, <1>2 DEF HistoryTypeOK
<1>6. /\ visible' = visible /\ Table(r)' = T /\ pc'[r] = "upsert" /\ page'[r] = rest
      /\ fetched'[r] = fetched[r] /\ offset'[r] = offset[r] /\ result'[r] = result[r]
      /\ atStart'[r] = atStart[r] /\ phase'[r] = phase[r]
      /\ \A t \in Tables : tried'[r][t] = IF t = T THEN tried[r][T] \cup {i} ELSE tried[r][t]
  BY <1>0, <1>1, <1>2 DEF RefreshTypeOK, HistoryTypeOK, Table, db
<1>7. \A n \in 1..Len(rest) : n + 1 \in 1..Len(page[r])
  BY <1>3
<1>8. HeldCommitted(r)' /\ Committed(T, i)
  <2>1. /\ \A t \in Tables : \A j \in atStart[r][t] : Committed(t, j)
        /\ \A n \in 1..Len(page[r]) : Committed(T, page[r][n])
    BY <1>0, <1>1 DEF RefresherInv, HeldCommitted
  <2>2. \A n \in 1..Len(rest) : Committed(T, rest[n])
    BY <1>3, <1>7, <2>1
  <2>3. Committed(T, i)
    BY <1>3, <2>1
  <2> QED  BY <1>6, <2>1, <2>2, <2>3 DEF HeldCommitted, Committed
<1>9. \A j : OnPage(r, j) => j = i \/ OnPage(r, j)'
  <2> SUFFICES ASSUME NEW n \in 1..Len(page[r]), page[r][n] # i
               PROVE  \E m \in 1..Len(rest) : rest[m] = page[r][n]
    BY <1>6 DEF OnPage
  <2>1. n - 1 \in 1..Len(rest) /\ rest[n - 1] = page[r][n]
    BY <1>3
  <2> QED  BY <2>1
<1>10. UpsertCovered(r)'
  BY <1>0, <1>1, <1>2, <1>6, <1>9
     DEF RefresherInv, Progressing, UpsertCovered, LastPage
<1>11. EarlierCovered(r)' /\ result[r] = "none"
  BY <1>0, <1>1, <1>6, OrderFacts DEF RefresherInv, Progressing, EarlierCovered
<1> QED
  BY <1>4, <1>5, <1>6, <1>8, <1>10, <1>11
     DEF RefresherInv, Progressing, ReturnCovered
LEMMA UpsertRowStep ==
    ASSUME IInv, NEW r \in Refreshers, NEW i \in Ids, UpsertRow(r, i)
    PROVE  IInv'
<1>0. /\ UpdateDBTypeOK /\ LocateDBTypeOK /\ RefreshTypeOK /\ HistoryTypeOK
      /\ faults \in 0..MaxFaults
      /\ IdsAllocated /\ \A q \in Refreshers : RefresherInv(q)
  BY DEF IInv, TypeOK
<1>1. /\ TakeRow(r, i)
      /\ UNCHANGED <<db, pc, phase, offset, fetched, result, atStart, alone>>
      /\ \E p, q : page' = [page EXCEPT ![r] = p] /\ tried' = [tried EXCEPT ![r] = q]
  BY Zenon DEF UpsertRow, TakeRow
<1>2. /\ RefreshTypeOK' /\ tried' \in [Refreshers -> [Tables -> SUBSET Ids]]
      /\ Committed(Table(r), i) /\ RefresherInv(r)'
  BY <1>1, TakeRowKeeps
<1>3. Table(r) \in Tables
  BY TableFact DEF IInv
<1> DEFINE T == Table(r)
           k == keyOf[T][i]
<1>4. k \in Keys[T]
  BY <1>0, <1>2, <1>3 DEF IdsAllocated, Committed, UpdateDBTypeOK
<1>5. /\ locate' = [locate EXCEPT ![T][k] = i]
      /\ UNCHANGED <<faults, missed, floor>>
  BY DEF UpsertRow, Upserted
<1>6. LocateDBTypeOK'
  BY <1>0, <1>3, <1>4, <1>5 DEF LocateDBTypeOK
<1>7. TypeOK'
  BY <1>0, <1>1, <1>2, <1>5, <1>6 DEF TypeOK, UpdateDBTypeOK, HistoryTypeOK, db
<1>8. IdsAllocated'
  BY <1>0, <1>1 DEF IdsAllocated, db
<1> QED
  BY <1>0, <1>1, <1>2, <1>7, <1>8, OthersFrame DEF RefreshTypeOK, HistoryTypeOK, db

LEMMA UpsertFailsStep ==
    ASSUME IInv, NEW r \in Refreshers, NEW i \in Ids, UpsertFails(r, i)
    PROVE  IInv'
<1>0. /\ UpdateDBTypeOK /\ LocateDBTypeOK /\ RefreshTypeOK /\ HistoryTypeOK
      /\ faults \in 0..MaxFaults
      /\ IdsAllocated /\ \A q \in Refreshers : RefresherInv(q)
  BY DEF IInv, TypeOK
<1>1. /\ TakeRow(r, i)
      /\ UNCHANGED <<db, pc, phase, offset, fetched, result, atStart, alone>>
      /\ \E p, q : page' = [page EXCEPT ![r] = p] /\ tried' = [tried EXCEPT ![r] = q]
  BY Zenon DEF UpsertFails, TakeRow
<1>2. /\ RefreshTypeOK' /\ tried' \in [Refreshers -> [Tables -> SUBSET Ids]]
      /\ Committed(Table(r), i) /\ RefresherInv(r)'
  BY <1>1, TakeRowKeeps
<1>3. Table(r) \in Tables
  BY TableFact DEF IInv
<1>4. faults' \in 0..MaxFaults
  BY <1>0, PipelineAssumption DEF UpsertFails
<1>5. /\ missed' \in [Refreshers -> [Tables -> SUBSET Ids]] /\ locate' = locate
      /\ floor' \in [Tables -> SUBSET Ids]
  BY <1>0, <1>3 DEF UpsertFails, HistoryTypeOK
<1>6. TypeOK'
  BY <1>0, <1>1, <1>2, <1>4, <1>5
     DEF TypeOK, UpdateDBTypeOK, LocateDBTypeOK, HistoryTypeOK, db
<1>7. IdsAllocated'
  BY <1>0, <1>1 DEF IdsAllocated, db
<1> QED
  BY <1>0, <1>1, <1>2, <1>6, <1>7, OthersFrame DEF RefreshTypeOK, HistoryTypeOK, db

LEMMA NextPageStep ==
    ASSUME IInv, NEW r \in Refreshers, NextPage(r)
    PROVE  IInv'
<1>0. /\ UpdateDBTypeOK /\ LocateDBTypeOK /\ RefreshTypeOK /\ HistoryTypeOK
      /\ faults \in 0..MaxFaults
      /\ IdsAllocated /\ \A q \in Refreshers : RefresherInv(q)
  BY DEF IInv, TypeOK
<1>1. /\ pc[r] = "upsert" /\ page[r] = <<>> /\ ~LastPage(fetched[r])
      /\ offset' = [offset EXCEPT ![r] = @ + fetched[r]]
      /\ pc' = [pc EXCEPT ![r] = "fetch"]
      /\ UNCHANGED <<db, locate, faults, phase, fetched, page, result, ghosts>>
  BY DEF NextPage, PageDone, NextOffset
<1>2. TypeOK'
  BY <1>0, <1>1, PipelineAssumption
     DEF TypeOK, UpdateDBTypeOK, LocateDBTypeOK, RefreshTypeOK, HistoryTypeOK,
         db, ghosts
<1>3. IdsAllocated'
  BY <1>0, <1>1 DEF IdsAllocated, db
<1>4. RefresherInv(r)'
  <2>1. /\ visible' = visible /\ Table(r)' = Table(r) /\ pc'[r] = "fetch"
        /\ phase'[r] = phase[r] /\ offset'[r] = offset[r] + fetched[r]
        /\ result'[r] = result[r] /\ atStart'[r] = atStart[r] /\ tried'[r] = tried[r]
    BY <1>0, <1>1 DEF RefreshTypeOK, Table, db, ghosts
  <2>2. \A j : ~OnPage(r, j)
    BY <1>1 DEF OnPage
  <2>3. FetchCovered(r)'
    BY <1>0, <1>1, <2>1, <2>2 DEF RefresherInv, Progressing, UpsertCovered, FetchCovered
  <2>4. EarlierCovered(r)' /\ result[r] = "none"
    BY <1>0, <1>1, <2>1 DEF RefresherInv, Progressing, EarlierCovered
  <2>5. HeldCommitted(r)'
    BY <1>0, <2>1 DEF RefresherInv, HeldCommitted, Committed
  <2> QED  BY <2>1, <2>3, <2>4, <2>5 DEF RefresherInv, Progressing, ReturnCovered
<1> QED
  BY <1>0, <1>1, <1>2, <1>3, <1>4, OthersFrame DEF RefreshTypeOK, db, ghosts

\* After its last page a table is covered.
LEMMA LastPageCovers ==
    ASSUME IInv, NEW r \in Refreshers, PageDone(r), LastPage(fetched[r])
    PROVE  \A ph \in 1..phase[r] : atStart[r][Order[ph]] \subseteq tried[r][Order[ph]]
<1>0. /\ UpdateDBTypeOK /\ LocateDBTypeOK /\ RefreshTypeOK /\ HistoryTypeOK
      /\ faults \in 0..MaxFaults
      /\ IdsAllocated /\ \A q \in Refreshers : RefresherInv(q)
  BY DEF IInv, TypeOK
<1> DEFINE T == Table(r)
<1>1. T \in Tables /\ phase[r] \in 1..Len(Order) /\ T = Order[phase[r]]
  BY <1>0, TableFact DEF IInv, RefreshTypeOK, Table
<1>2. ASSUME NEW j \in atStart[r][T] PROVE j \in tried[r][T]
  <2>1. PICK q \in 1..Len(visible[T]) : visible[T][q] = j
    BY <1>0, <1>1, <1>2 DEF RefresherInv, HeldCommitted, Committed
  <2>2. ~OnPage(r, j)
    BY DEF PageDone, OnPage
  <2>3. UpsertCovered(r)
    BY <1>0 DEF RefresherInv, Progressing, PageDone
  <2> QED  BY <1>2, <2>1, <2>2, <2>3 DEF UpsertCovered
<1>3. EarlierCovered(r)
  BY <1>0 DEF RefresherInv, Progressing, PageDone
<1>4. ASSUME NEW ph \in 1..phase[r]
      PROVE  atStart[r][Order[ph]] \subseteq tried[r][Order[ph]]
  <2>1. CASE ph = phase[r]
    BY <1>1, <1>2, <2>1
  <2>2. CASE ph # phase[r]
    BY <1>1, <1>3, <2>2, OrderFacts DEF EarlierCovered
  <2> QED  BY <2>1, <2>2
<1> QED
  BY <1>4

LEMMA NextTableStep ==
    ASSUME IInv, NEW r \in Refreshers, NextTable(r)
    PROVE  IInv'
<1>0. /\ UpdateDBTypeOK /\ LocateDBTypeOK /\ RefreshTypeOK /\ HistoryTypeOK
      /\ faults \in 0..MaxFaults
      /\ IdsAllocated /\ \A q \in Refreshers : RefresherInv(q)
  BY DEF IInv, TypeOK
<1>1. /\ PageDone(r) /\ LastPage(fetched[r]) /\ phase[r] < Len(Order)
      /\ pc[r] = "upsert"
      /\ phase' = [phase EXCEPT ![r] = @ + 1]
      /\ offset' = [offset EXCEPT ![r] = 0]
      /\ pc' = [pc EXCEPT ![r] = "fetch"]
      /\ UNCHANGED <<db, locate, faults, fetched, page, result, ghosts>>
  BY DEF NextTable, PageDone
<1>2. TypeOK'
  <2>1. RefreshTypeOK'
    <3>1. phase[r] + 1 \in 1..Len(Order)
      <4>1. phase[r] \in 1..3 /\ phase[r] < 3 /\ Len(Order) = 3
        BY <1>0, <1>1, OrderFacts DEF RefreshTypeOK
      <4> QED  BY <4>1
    <3>2. phase' \in [Refreshers -> 1..Len(Order)]
      BY <1>0, <1>1, <3>1 DEF RefreshTypeOK
    <3> QED  BY <1>0, <1>1, <3>2 DEF RefreshTypeOK
  <2> QED
    BY <1>0, <1>1, <2>1
       DEF TypeOK, UpdateDBTypeOK, LocateDBTypeOK, HistoryTypeOK, db, ghosts
<1>3. IdsAllocated'
  BY <1>0, <1>1 DEF IdsAllocated, db
<1>4. RefresherInv(r)'
  <2>1. /\ visible' = visible /\ pc'[r] = "fetch" /\ phase[r] \in 1..3
        /\ phase'[r] = phase[r] + 1 /\ offset'[r] = 0
        /\ result'[r] = result[r] /\ atStart'[r] = atStart[r] /\ tried'[r] = tried[r]
    BY <1>0, <1>1, OrderFacts DEF RefreshTypeOK, db, ghosts
  <2>2. EarlierCovered(r)'
    BY <1>1, <2>1, OrderFacts, LastPageCovers DEF EarlierCovered
  <2>3. FetchCovered(r)'
    BY <2>1 DEF FetchCovered
  <2>4. result[r] = "none"
    BY <1>0, <1>1 DEF RefresherInv, Progressing
  <2>5. HeldCommitted(r)'
    BY <1>0, <2>1 DEF RefresherInv, HeldCommitted, Committed
  <2> QED  BY <2>1, <2>2, <2>3, <2>4, <2>5 DEF RefresherInv, Progressing, ReturnCovered
<1> QED
  BY <1>0, <1>1, <1>2, <1>3, <1>4, OthersFrame DEF RefreshTypeOK, db, ghosts

LEMMA FinishStep ==
    ASSUME IInv, NEW r \in Refreshers, Finish(r)
    PROVE  IInv'
<1>0. /\ UpdateDBTypeOK /\ LocateDBTypeOK /\ RefreshTypeOK /\ HistoryTypeOK
      /\ faults \in 0..MaxFaults
      /\ IdsAllocated /\ \A q \in Refreshers : RefresherInv(q)
  BY DEF IInv, TypeOK
<1>1. /\ PageDone(r) /\ LastPage(fetched[r]) /\ phase[r] = Len(Order)
      /\ pc' = [pc EXCEPT ![r] = "idle"]
      /\ result' = [result EXCEPT ![r] = "ok"]
      /\ UNCHANGED <<db, locate, faults, phase, offset, fetched, page, ghosts>>
  BY DEF Finish
<1>2. TypeOK'
  BY <1>0, <1>1
     DEF TypeOK, UpdateDBTypeOK, LocateDBTypeOK, RefreshTypeOK, HistoryTypeOK,
         db, ghosts
<1>3. IdsAllocated'
  BY <1>0, <1>1 DEF IdsAllocated, db
<1>4. RefresherInv(r)'
  <2>1. /\ visible' = visible /\ pc'[r] = "idle" /\ result'[r] = "ok"
        /\ atStart'[r] = atStart[r] /\ tried'[r] = tried[r]
    BY <1>0, <1>1 DEF RefreshTypeOK, db, ghosts
  <2>2. \A t \in Tables : atStart[r][t] \subseteq tried[r][t]
    BY <1>1, OrderFacts, LastPageCovers
  <2>3. HeldCommitted(r)'
    BY <1>0, <2>1 DEF RefresherInv, HeldCommitted, Committed
  <2> QED  BY <2>1, <2>2, <2>3 DEF RefresherInv, Progressing, ReturnCovered
<1> QED
  BY <1>0, <1>1, <1>2, <1>3, <1>4, OthersFrame DEF RefreshTypeOK, db, ghosts
LEMMA NextPreserves == IInv /\ [Next]_vars => IInv'
<1> SUFFICES ASSUME IInv, [Next]_vars PROVE IInv'
  OBVIOUS
<1>1. CASE Insert
  BY <1>1, BeginInsertStep, CommitInsertStep, AbortInsertStep DEF Insert
<1>2. ASSUME NEW r \in Refreshers, StartRefresh(r) PROVE IInv'
  BY <1>2, StartRefreshStep
<1>3. ASSUME NEW r \in Refreshers, FetchFails(r) PROVE IInv'
  BY <1>3, FetchFailsStep
<1>4. ASSUME NEW r \in Refreshers, Progress(r) PROVE IInv'
  BY <1>4, FetchPageStep, UpsertRowStep, UpsertFailsStep, NextPageStep, NextTableStep,
     FinishStep DEF Progress
<1>6. CASE ProcessDies
  BY <1>6, ProcessDiesStep
<1>5. CASE UNCHANGED vars
  <2>1. TypeOK' /\ IdsAllocated'
    BY <1>5 DEF IInv, TypeOK, UpdateDBTypeOK, LocateDBTypeOK, RefreshTypeOK, HistoryTypeOK,
                IdsAllocated, vars, db, locals, ghosts
  <2>2. \A r \in Refreshers : RefresherInv(r)'
    BY <1>5, RefresherFrame DEF IInv, vars, db, locals, ghosts
  <2> QED  BY <2>1, <2>2 DEF IInv
<1> QED
  BY <1>1, <1>2, <1>3, <1>4, <1>5, <1>6 DEF Next

\* The inductive invariant holds in every reachable state.
THEOREM InvariantHolds == Spec => []IInv
BY InitIInv, NextPreserves, PTL DEF Spec

\* Type correctness: every id that a page or LocateDB holds is one UpdateDB
\* handed out, whatever the interleaving of inserts and refreshes.
THEOREM TypeCorrect == Spec => []TypeOK
<1>1. IInv => TypeOK
  BY DEF IInv
<1> QED
  BY <1>1, InvariantHolds, PTL

\* Paging by OFFSET with rows committed in any order, by any number of
\* overlapping refreshes: a Refresh that returns no error has tried every row
\* that was visible when it began.
THEOREM RefreshCovers == Spec => []Coverage
<1>1. IInv => Coverage
  BY DEF IInv, RefresherInv, ReturnCovered, Coverage
<1> QED
  BY <1>1, InvariantHolds, PTL

-----------------------------------------------------------------------------
(* The pipeline implements SnapshotCopy                                    *)

LEMMA CommittedRowsMember ==
    \A row : row \in CommittedRows <=>
        \E t \in Tables : \E i : i \in ToSet(visible[t]) /\ row = RowOf(t, i)
BY DEF CommittedRows

LEMMA TodoMember ==
    \A r, row : row \in Todo(r) <=>
        \E t \in Tables : \E i \in atStart[r][t] \ tried[r][t] : row = RowOf(t, i)
BY DEF Todo

\* Rows keep their key: ids are handed out once.
LEMMA RowsStable ==
    ASSUME IInv, [Next]_vars, NEW t \in Tables, NEW i \in ToSet(visible[t])
    PROVE  RowOf(t, i)' = RowOf(t, i)
<1>1. /\ keyOf \in [Tables -> Seq(CellKeys \cup WifiKeys \cup IpKeys)]
      /\ visible[t] \in Seq(Ids)
      /\ i \in 1..Len(keyOf[t])
  BY DEF IInv, TypeOK, UpdateDBTypeOK, IdsAllocated, ToSet
<1>2. ASSUME NEW u \in Tables, NEW k \in Keys[u], BeginInsert(u, k)
      PROVE  keyOf'[t][i] = keyOf[t][i]
  <2>1. k \in CellKeys \cup WifiKeys \cup IpKeys
    BY DEF Keys, Tables
  <2> QED  BY <1>1, <1>2, <2>1 DEF BeginInsert
<1>3. CASE keyOf' = keyOf
  BY <1>3 DEF RowOf
<1>4. CASE \E u \in Tables : \E k \in Keys[u] : BeginInsert(u, k)
  BY <1>2, <1>4 DEF RowOf
<1> QED
  BY <1>3, <1>4
     DEF Next, Insert, Progress, CommitInsert, AbortInsert, StartRefresh, FetchPage,
         FetchFails, UpsertRow, UpsertFails, TakeRow, NextPage, NextTable, Finish, ProcessDies,
         vars, db
\* UpdateDB's visible rows change only in CommitInsert, which adds one row.
LEMMA CommitAddsRow ==
    ASSUME IInv, NEW t \in Tables, NEW i \in Ids, CommitInsert(t, i)
    PROVE  /\ RowOf(t, i) \in Copying!Row /\ RowOf(t, i) \notin CommittedRows
           /\ CommittedRows' = CommittedRows \cup {RowOf(t, i)}
<1>1. visible \in [Tables -> Seq(Ids)] /\ i \in 1..Len(keyOf[t]) /\ keyOf' = keyOf
  BY DEF IInv, TypeOK, UpdateDBTypeOK, IdsAllocated, CommitInsert
<1>2. keyOf[t][i] \in Keys[t]
  BY <1>1 DEF IInv, TypeOK, UpdateDBTypeOK
<1>3. RowOf(t, i) \in Copying!Row
  BY <1>2 DEF RowOf, Copying!Row
<1>4. \A u, j : RowOf(u, j)' = RowOf(u, j)
  BY <1>1 DEF RowOf
<1>5. \A u, v, j, m : RowOf(u, j) = RowOf(v, m) => u = v /\ j = m
  BY DEF RowOf
<1>6. i \notin ToSet(visible[t])
  BY <1>1 DEF IInv, IdsAllocated, CommitInsert, ToSet
<1>7. /\ \A u \in Tables \ {t} : visible'[u] = visible[u]
      /\ \A j : j \in ToSet(visible'[t]) <=> j = i \/ j \in ToSet(visible[t])
  <2>1. PICK p \in 1..Len(visible[t]) + 1 :
           visible' = [visible EXCEPT ![t] = InsertAt(@, p, i)]
    BY DEF CommitInsert
  <2>2. /\ visible'[t] = InsertAt(visible[t], p, i)
        /\ \A u \in Tables \ {t} : visible'[u] = visible[u]
    BY <1>1, <2>1
  <2>3. ToSet(visible'[t]) = ToSet(visible[t]) \cup {i}
    <3>1. visible[t] \in Seq(Ids)
      BY <1>1
    <3> QED  BY <2>2, <3>1, InsertAtAdds
  <2> QED  BY <2>2, <2>3
<1>8. RowOf(t, i) \notin CommittedRows
  BY <1>5, <1>6, CommittedRowsMember
<1>9. \A row : row \in CommittedRows' <=> row = RowOf(t, i) \/ row \in CommittedRows
  <2>1. \A row : row \in CommittedRows' <=>
           \E u \in Tables : \E j : j \in ToSet(visible'[u]) /\ row = RowOf(u, j)
    BY <1>4 DEF CommittedRows
  <2> QED  BY <1>7, <2>1, CommittedRowsMember
<1> QED
  BY <1>3, <1>8, <1>9
LEMMA CommittedFrame ==
    ASSUME IInv, [Next]_vars, visible' = visible
    PROVE  CommittedRows' = CommittedRows
<1>1. \A row : row \in CommittedRows' <=>
         \E t \in Tables : \E i : i \in ToSet(visible[t]) /\ row = RowOf(t, i)'
  BY DEF CommittedRows
<1>2. \A t \in Tables : \A i \in ToSet(visible[t]) : RowOf(t, i)' = RowOf(t, i)
  BY RowsStable
<1>3. \A row : row \in CommittedRows' <=> row \in CommittedRows
  BY <1>1, <1>2, CommittedRowsMember
<1> QED
  BY <1>3

LEMMA StartRowsCommitted ==
    ASSUME IInv, NEW r \in Refreshers, NEW t \in Tables, NEW i \in atStart[r][t]
    PROVE  i \in ToSet(visible[t])
<1>1. Committed(t, i)
  BY DEF IInv, RefresherInv, HeldCommitted
<1>2. visible[t] \in Seq(Ids)
  BY DEF IInv, TypeOK, UpdateDBTypeOK
<1> QED
  BY <1>1, <1>2 DEF Committed, ToSet

LEMMA TodoFrame ==
    ASSUME IInv, [Next]_vars, NEW r \in Refreshers,
           atStart'[r] = atStart[r], tried'[r] = tried[r]
    PROVE  Todo(r)' = Todo(r)
<1>1. \A row : row \in Todo(r)' <=>
         \E t \in Tables : \E i \in atStart[r][t] \ tried[r][t] : row = RowOf(t, i)'
  BY DEF Todo
<1>2. \A t \in Tables : \A i \in atStart[r][t] : RowOf(t, i)' = RowOf(t, i)
  BY RowsStable, StartRowsCommitted
<1>3. \A row : row \in Todo(r)' <=> row \in Todo(r)
  BY <1>1, <1>2, TodoMember
<1> QED
  BY <1>3

\* The abstract outcome of r.
Outcome(r) == IF pc[r] # "idle" THEN "running" ELSE result[r]

LEMMA InitSimulates == Init => Copying!Init
<1> SUFFICES ASSUME Init PROVE Copying!Init
  OBVIOUS
<1>1. CommittedRows = {}
  <2>1. \A t \in Tables : ToSet(visible[t]) = {}
    BY DEF Init, ToSet
  <2> QED  BY <2>1, CommittedRowsMember
<1>2. \A r \in Refreshers : Todo(r) = {}
  BY TodoMember DEF Init, NoIds
<1> QED
  BY <1>1, <1>2 DEF Init, Copying!Init

\* A step that leaves the visible rows, LocateDB, and every refresher's start
\* rows, tried rows and outcome alone is invisible in SnapshotCopy.
LEMMA Stutters ==
    ASSUME IInv, [Next]_vars, visible' = visible, locate' = locate,
           \A r \in Refreshers : /\ atStart'[r] = atStart[r] /\ tried'[r] = tried[r]
                                 /\ Outcome(r)' = Outcome(r)
    PROVE  UNCHANGED Copying!vars
<1>1. CommittedRows' = CommittedRows /\ \A r \in Refreshers : Todo(r)' = Todo(r)
  BY CommittedFrame, TodoFrame
<1> QED
  BY <1>1 DEF Copying!vars, Outcome

\* A step that ends r's Refresh is the end of the abstract copy.
LEMMA Returns ==
    ASSUME IInv, [Next]_vars, NEW r \in Refreshers, pc[r] # "idle",
           visible' = visible, locate' = locate, atStart' = atStart, tried' = tried,
           pc' = [pc EXCEPT ![r] = "idle"],
           NEW x \in {"ok", "failed"}, result' = [result EXCEPT ![r] = x],
           x = "ok" => Todo(r) = {}
    PROVE  Copying!Next
<1>1. CommittedRows' = CommittedRows /\ \A q \in Refreshers : Todo(q)' = Todo(q)
  BY CommittedFrame, TodoFrame
<1>2. pc \in [Refreshers -> {"idle", "fetch", "upsert"}] /\ DOMAIN result = Refreshers
  BY DEF IInv, TypeOK, RefreshTypeOK
<1>3. [q \in Refreshers |-> IF pc'[q] # "idle" THEN "running" ELSE result'[q]] =
      [[q \in Refreshers |-> IF pc[q] # "idle" THEN "running" ELSE result[q]]
          EXCEPT ![r] = x]
  BY <1>2
<1>4. CASE x = "ok"
  BY <1>1, <1>3, <1>4 DEF Copying!Next, Copying!Succeed
<1>5. CASE x = "failed"
  BY <1>1, <1>3, <1>5 DEF Copying!Next, Copying!Fail
<1> QED
  BY <1>4, <1>5

\* Taking a row off the page takes it off the abstract todo list.
LEMMA TakeRowTodo ==
    ASSUME IInv, [Next]_vars, NEW r \in Refreshers, NEW i \in Ids, TakeRow(r, i)
    PROVE  LET row == RowOf(Table(r), i)
           IN  /\ CommittedRows' = CommittedRows /\ row \in CommittedRows
               /\ Outcome(r) = "running"
               /\ \A q \in Refreshers : Outcome(q)' = Outcome(q)
               /\ \A q \in Refreshers \ {r} : Todo(q)' = Todo(q)
               /\ Todo(r)' = Todo(r) \ {row}
<1> DEFINE T == Table(r)
<1>1. /\ visible' = visible /\ pc' = pc /\ result' = result /\ atStart' = atStart
      /\ pc[r] = "upsert"
      /\ tried' = [tried EXCEPT ![r][T] = @ \cup {i}]
  BY DEF TakeRow, db
<1>2. T \in Tables /\ Committed(T, i) /\ tried \in [Refreshers -> [Tables -> SUBSET Ids]]
  BY TableFact, TakeRowKeeps DEF IInv, TypeOK, HistoryTypeOK
<1>3. RowOf(T, i) \in CommittedRows
  <2>1. i \in ToSet(visible[T])
    BY <1>2 DEF Committed, ToSet, IInv, TypeOK, UpdateDBTypeOK
  <2> QED  BY <1>2, <2>1, CommittedRowsMember
<1>4. \A q \in Refreshers \ {r} : Todo(q)' = Todo(q)
  BY <1>1, <1>2, TodoFrame
<1>5. Todo(r)' = Todo(r) \ {RowOf(T, i)}
  <2>1. \A row : row \in Todo(r)' <=>
           \E t \in Tables : \E j \in atStart[r][t] \ tried'[r][t] : row = RowOf(t, j)'
    BY <1>1 DEF Todo
  <2>2. \A t \in Tables : \A j \in atStart[r][t] : RowOf(t, j)' = RowOf(t, j)
    BY RowsStable, StartRowsCommitted
  <2>3. \A t \in Tables : tried'[r][t] =
           IF t = T THEN tried[r][T] \cup {i} ELSE tried[r][t]
    BY <1>1, <1>2
  <2>4. \A t, j : RowOf(t, j) = RowOf(T, i) <=> t = T /\ j = i
    BY DEF RowOf
  <2>5. \A row : row \in Todo(r)' <=> row \in Todo(r) /\ row # RowOf(T, i)
    <3>1. \A row : row \in Todo(r)' <=>
             \E t \in Tables : \E j \in atStart[r][t] \ tried'[r][t] : row = RowOf(t, j)
      BY <2>1, <2>2
    <3> QED  BY <2>3, <2>4, <3>1, TodoMember
  <2> QED  BY <2>5
<1>6. CommittedRows' = CommittedRows
  BY <1>1, CommittedFrame
<1> QED
  BY <1>1, <1>3, <1>4, <1>5, <1>6 DEF Outcome
\* Every step of the pipeline is a step of SnapshotCopy or a stutter.
LEMMA NextSimulates == IInv /\ [Next]_vars => [Copying!Next]_(Copying!vars)
<1> SUFFICES ASSUME IInv, [Next]_vars PROVE Copying!Next \/ UNCHANGED Copying!vars
  OBVIOUS
<1>0. /\ RefreshTypeOK /\ HistoryTypeOK /\ LocateDBTypeOK
      /\ \A r \in Refreshers : RefresherInv(r)
  BY DEF IInv, TypeOK
<1>1. ASSUME NEW t \in Tables, NEW k \in Keys[t], BeginInsert(t, k)
      PROVE  UNCHANGED Copying!vars
  BY <1>1, Stutters DEF BeginInsert, locals, ghosts, Outcome
<1>2. ASSUME NEW t \in Tables, NEW i \in Ids, CommitInsert(t, i) PROVE Copying!Next
  <2>1. \A r \in Refreshers : Todo(r)' = Todo(r)
    BY <1>2, TodoFrame DEF CommitInsert, ghosts
  <2>2. /\ RowOf(t, i) \in Copying!Row /\ RowOf(t, i) \notin CommittedRows
        /\ CommittedRows' = CommittedRows \cup {RowOf(t, i)}
    BY <1>2, CommitAddsRow
  <2>3. Copying!Commit(RowOf(t, i))
    BY <1>2, <2>1, <2>2 DEF Copying!Commit, CommitInsert, locals
  <2> QED  BY <2>2, <2>3 DEF Copying!Next
<1>3. ASSUME NEW t \in Tables, NEW i \in Ids, AbortInsert(t, i)
      PROVE  UNCHANGED Copying!vars
  BY <1>3, Stutters DEF AbortInsert, locals, ghosts, Outcome
<1>4. ASSUME NEW r \in Refreshers, StartRefresh(r) PROVE Copying!Next
  <2>1. /\ pc' = [pc EXCEPT ![r] = "fetch"] /\ result' = [result EXCEPT ![r] = "none"]
        /\ visible' = visible /\ locate' = locate /\ pc[r] = "idle"
        /\ \A t \in Tables : atStart'[r][t] = ToSet(visible[t]) /\ tried'[r][t] = {}
        /\ \A q \in Refreshers \ {r} : atStart'[q] = atStart[q] /\ tried'[q] = tried[q]
    BY <1>0, <1>4 DEF StartRefresh, HistoryTypeOK, NoIds, db
  <2>2. CommittedRows' = CommittedRows
    BY <2>1, CommittedFrame
  <2>3. \A q \in Refreshers \ {r} : Todo(q)' = Todo(q)
    BY <2>1, TodoFrame
  <2>4. Todo(r)' = CommittedRows
    <3>1. \A row : row \in Todo(r)' <=>
             \E t \in Tables : \E i \in ToSet(visible[t]) : row = RowOf(t, i)'
      BY <2>1 DEF Todo
    <3>2. \A t \in Tables : \A i \in ToSet(visible[t]) : RowOf(t, i)' = RowOf(t, i)
      BY RowsStable
    <3>3. \A row : row \in Todo(r)' <=> row \in CommittedRows
      BY <3>1, <3>2, CommittedRowsMember
    <3> QED  BY <3>3
  <2>5. result[r] # "running"
    BY <1>0 DEF RefreshTypeOK
  <2>6. Copying!Begin(r)
    BY <1>0, <2>1, <2>2, <2>3, <2>4, <2>5 DEF Copying!Begin, RefreshTypeOK
  <2> QED  BY <2>6 DEF Copying!Next
<1>5. ASSUME NEW r \in Refreshers, FetchFails(r) PROVE Copying!Next
  BY <1>5, Returns DEF FetchFails, FetchError, db, ghosts
<1>6. ASSUME NEW r \in Refreshers, FetchPage(r) \/ NextPage(r) \/ NextTable(r)
      PROVE  UNCHANGED Copying!vars
  <2>1. \A q \in Refreshers : Outcome(q)' = Outcome(q)
    BY <1>0, <1>6 DEF FetchPage, NextPage, NextTable, PageDone, Outcome, RefreshTypeOK
  <2> QED  BY <1>6, <2>1, Stutters DEF FetchPage, NextPage, NextTable, db, ghosts
<1>7. ASSUME NEW r \in Refreshers, NEW i \in Ids, UpsertRow(r, i) PROVE Copying!Next
  <2> DEFINE row == RowOf(Table(r), i)
  <2>1. TakeRow(r, i) /\ locate' = [locate EXCEPT ![Table(r)][keyOf[Table(r)][i]] = i]
    BY <1>7 DEF UpsertRow, Upserted
  <2>2. locate' = [locate EXCEPT ![row.table][row.key] = row.id]
    BY <2>1 DEF RowOf
  <2> HIDE DEF row
  <2>3. /\ CommittedRows' = CommittedRows /\ row \in CommittedRows
        /\ Outcome(r) = "running"
        /\ \A q \in Refreshers : Outcome(q)' = Outcome(q)
        /\ \A q \in Refreshers \ {r} : Todo(q)' = Todo(q)
        /\ Todo(r)' = Todo(r) \ {row}
    BY <2>1, TakeRowTodo DEF row
  <2>4. Copying!Copy(r, row)
    BY <2>2, <2>3 DEF Copying!Copy, Outcome
  <2> QED  BY <2>3, <2>4 DEF Copying!Next
<1>8. ASSUME NEW r \in Refreshers, NEW i \in Ids, UpsertFails(r, i) PROVE Copying!Next
  <2> DEFINE row == RowOf(Table(r), i)
  <2>1. TakeRow(r, i) /\ locate' = locate
    BY <1>8 DEF UpsertFails
  <2> HIDE DEF row
  <2>2. /\ CommittedRows' = CommittedRows /\ row \in CommittedRows
        /\ Outcome(r) = "running"
        /\ \A q \in Refreshers : Outcome(q)' = Outcome(q)
        /\ \A q \in Refreshers \ {r} : Todo(q)' = Todo(q)
        /\ Todo(r)' = Todo(r) \ {row}
    BY <2>1, TakeRowTodo DEF row
  <2>3. Copying!Skip(r, row)
    BY <2>1, <2>2 DEF Copying!Skip, Outcome
  <2> QED  BY <2>2, <2>3 DEF Copying!Next
<1>9. ASSUME NEW r \in Refreshers, Finish(r) PROVE Copying!Next
  <2>1. Todo(r) = {}
    <3>1. \A t \in Tables : atStart[r][t] \subseteq tried[r][t]
      BY <1>9, OrderFacts, LastPageCovers DEF Finish
    <3> QED  BY <3>1, TodoMember
  <2> QED  BY <1>9, <2>1, Returns DEF Finish, PageDone, db, ghosts
<1>11. CASE ProcessDies
  <2>1. /\ visible' = visible /\ locate' = locate /\ result' = result
        /\ atStart' = atStart /\ tried' = tried
        /\ pc' = [r \in Refreshers |-> "idle"]
    BY <1>11 DEF ProcessDies, db, ghosts
  <2>2. CommittedRows' = CommittedRows /\ \A r \in Refreshers : Todo(r)' = Todo(r)
    BY <2>1, CommittedFrame, TodoFrame
  <2>3. \A r \in Refreshers : /\ pc[r] # "idle" => result[r] = "none"
                              /\ result[r] # "running"
    BY <1>0 DEF RefreshTypeOK, RefresherInv, Progressing
  <2>4. Copying!Abandon
    BY <2>1, <2>2, <2>3 DEF Copying!Abandon
  <2> QED  BY <2>4 DEF Copying!Next
<1>10. CASE UNCHANGED vars
  BY <1>10, Stutters DEF vars, db, locals, ghosts, Outcome
<1> QED
  BY <1>1, <1>2, <1>3, <1>4, <1>5, <1>6, <1>7, <1>8, <1>9, <1>10, <1>11
     DEF Next, Insert, Progress

\* Refresh implements SnapshotCopy: it copies committed rows only, in any
\* interleaving with inserts and other refreshes, and succeeds only when no row
\* that was visible at its start is left unattempted.
THEOREM PipelineImplementsCopy == Spec => CopiesSnapshot
BY InitSimulates, NextSimulates, InvariantHolds, PTL DEF Spec, CopiesSnapshot, Copying!Spec
-----------------------------------------------------------------------------
(* The first report of a cell wins                                         *)

\* Ids of cells that are committed or may still be.
HeldCells == pending["cells"] \cup ToSet(visible["cells"])

\* One row per cell, and LocateDB shows a cell's own committed row.
CellsUnique ==
    /\ \A i, j \in HeldCells : keyOf["cells"][i] = keyOf["cells"][j] => i = j
    /\ \A k \in CellKeys : locate["cells"][k] # 0 =>
          /\ locate["cells"][k] \in ToSet(visible["cells"])
          /\ keyOf["cells"][locate["cells"][k]] = k

LEMMA HeldCellsAllocated ==
    ASSUME IInv
    PROVE  /\ HeldCells \subseteq 1..Len(keyOf["cells"])
           /\ keyOf["cells"] \in Seq(CellKeys \cup WifiKeys \cup IpKeys)
           /\ "cells" \in Tables /\ Keys["cells"] = CellKeys
           /\ locate["cells"] \in [CellKeys -> Ids \cup {0}]
           /\ 0 \notin Ids
<1>1. "cells" \in Tables
  BY DEF Tables
<1>2. Keys["cells"] = CellKeys
  BY <1>1 DEF Keys
<1>3. visible["cells"] \in Seq(Ids)
  BY <1>1 DEF IInv, TypeOK, UpdateDBTypeOK
<1>4. ToSet(visible["cells"]) \subseteq 1..Len(keyOf["cells"])
  BY <1>1, <1>3 DEF IInv, IdsAllocated, ToSet
<1> QED
  BY <1>1, <1>2, <1>4
     DEF HeldCells, Ids, IInv, TypeOK, UpdateDBTypeOK, LocateDBTypeOK, IdsAllocated

\* A step that hands out no cell id and leaves LocateDB's cells alone.
LEMMA CellsFrame ==
    ASSUME IInv, CellsUnique, keyOf'["cells"] = keyOf["cells"],
           HeldCells' \subseteq HeldCells, locate'["cells"] = locate["cells"],
           ToSet(visible["cells"]) \subseteq ToSet(visible'["cells"])
    PROVE  CellsUnique'
BY DEF CellsUnique

LEMMA CellsStep == IInv /\ CellsUnique /\ [Next]_vars => CellsUnique' /\
    \A k \in CellKeys :
        locate["cells"][k] # 0 => locate'["cells"][k] = locate["cells"][k]
<1> SUFFICES ASSUME IInv, CellsUnique, [Next]_vars
             PROVE  /\ CellsUnique'
                    /\ \A k \in CellKeys : locate["cells"][k] # 0 =>
                          locate'["cells"][k] = locate["cells"][k]
  OBVIOUS
<1>0. /\ HeldCells \subseteq 1..Len(keyOf["cells"])
      /\ keyOf["cells"] \in Seq(CellKeys \cup WifiKeys \cup IpKeys)
      /\ "cells" \in Tables /\ Keys["cells"] = CellKeys
      /\ locate["cells"] \in [CellKeys -> Ids \cup {0}]
      /\ 0 \notin Ids
  BY HeldCellsAllocated
<1>t. UpdateDBTypeOK /\ LocateDBTypeOK
  BY DEF IInv, TypeOK
<1>1. ASSUME NEW t \in Tables, NEW k \in Keys[t], BeginInsert(t, k)
      PROVE  CellsUnique' /\ locate' = locate
  <2>1. locate' = locate /\ visible' = visible
    BY <1>1 DEF BeginInsert
  <2>2. CASE t # "cells"
    <3>1. keyOf'["cells"] = keyOf["cells"] /\ pending'["cells"] = pending["cells"]
      BY <1>0, <1>t, <1>1, <2>2 DEF BeginInsert, UpdateDBTypeOK
    <3> QED  BY <2>1, <3>1, CellsFrame DEF HeldCells
  <2>3. CASE t = "cells"
    <3> DEFINE n == Len(keyOf["cells"]) + 1
    <3>1. /\ k \in CellKeys /\ k \notin {keyOf["cells"][i] : i \in HeldCells}
          /\ keyOf'["cells"] = Append(keyOf["cells"], k)
          /\ pending'["cells"] = pending["cells"] \cup {n}
      BY <1>0, <1>t, <1>1, <2>3
         DEF BeginInsert, Insertable, KeysHeld, HeldCells, UpdateDBTypeOK
    <3>2. keyOf'["cells"][n] = k /\ \A i \in HeldCells : keyOf'["cells"][i] = keyOf["cells"][i]
      <4> DEFINE ks == keyOf["cells"]
      <4>1. ks \in Seq(CellKeys \cup WifiKeys \cup IpKeys) /\ k \in CellKeys
        BY <1>0, <3>1
      <4> HIDE DEF ks
      <4>2. /\ Append(ks, k)[Len(ks) + 1] = k
            /\ \A i \in 1..Len(ks) : Append(ks, k)[i] = ks[i]
        BY <4>1
      <4> QED  BY <1>0, <3>1, <4>2 DEF ks
    <3>3. HeldCells' = HeldCells \cup {n}
      BY <2>1, <3>1 DEF HeldCells
    <3>4. ToSet(visible["cells"]) \subseteq HeldCells
      BY DEF HeldCells
    <3> HIDE DEF n
    <3>5. ASSUME NEW i \in HeldCells', NEW j \in HeldCells',
                 keyOf'["cells"][i] = keyOf'["cells"][j]
          PROVE  i = j
      <4>1. \A m \in HeldCells : keyOf'["cells"][m] # k
        BY <3>1, <3>2
      <4>2. CASE i = n \/ j = n
        BY <3>2, <3>3, <3>5, <4>1, <4>2
      <4>3. CASE i # n /\ j # n
        BY <3>2, <3>3, <3>5, <4>3 DEF CellsUnique
      <4> QED  BY <4>2, <4>3
    <3> QED  BY <2>1, <3>2, <3>4, <3>5 DEF CellsUnique
  <2> QED  BY <2>1, <2>2, <2>3
<1>2. ASSUME NEW t \in Tables, NEW i \in Ids, CommitInsert(t, i)
      PROVE  CellsUnique' /\ locate' = locate
  <2>1. PICK p \in 1..Len(visible[t]) + 1 :
           visible' = [visible EXCEPT ![t] = InsertAt(@, p, i)]
    BY <1>2 DEF CommitInsert
  <2>2. /\ visible'[t] = InsertAt(visible[t], p, i)
        /\ \A u \in Tables \ {t} : visible'[u] = visible[u]
        /\ visible[t] \in Seq(Ids)
    BY <1>t, <2>1 DEF UpdateDBTypeOK
  <2>3. ToSet(visible'[t]) = ToSet(visible[t]) \cup {i}
    BY <2>2, InsertAtAdds
  <2>4. /\ i \in pending[t] /\ keyOf' = keyOf /\ locate' = locate
        /\ pending' = [pending EXCEPT ![t] = @ \ {i}]
    BY <1>2 DEF CommitInsert
  <2>5. HeldCells' \subseteq HeldCells /\ ToSet(visible["cells"]) \subseteq ToSet(visible'["cells"])
    BY <1>0, <1>t, <2>2, <2>3, <2>4 DEF HeldCells, UpdateDBTypeOK
  <2> QED  BY <2>4, <2>5, CellsFrame
<1>3. ASSUME NEW t \in Tables, NEW i \in Ids, AbortInsert(t, i)
      PROVE  CellsUnique' /\ locate' = locate
  <2>1. HeldCells' \subseteq HeldCells
    BY <1>0, <1>t, <1>3 DEF AbortInsert, HeldCells, UpdateDBTypeOK
  <2> QED  BY <1>3, <2>1, CellsFrame DEF AbortInsert
<1>4. ASSUME NEW r \in Refreshers, NEW i \in Ids, UpsertRow(r, i)
      PROVE  /\ CellsUnique'
             /\ \A k \in CellKeys : locate["cells"][k] # 0 =>
                   locate'["cells"][k] = locate["cells"][k]
  <2> DEFINE T == Table(r)
             c == keyOf[T][i]
  <2>1. /\ TakeRow(r, i) /\ keyOf' = keyOf /\ pending' = pending /\ visible' = visible
        /\ locate' = [locate EXCEPT ![T][c] = i]
    BY <1>4 DEF UpsertRow, TakeRow, Upserted, db
  <2>2. T \in Tables /\ Committed(T, i)
    BY <2>1, TableFact, TakeRowKeeps DEF IInv
  <2>3. HeldCells' = HeldCells
    BY <2>1 DEF HeldCells
  <2>4. CASE T # "cells"
    <3>1. locate'["cells"] = locate["cells"]
      BY <1>0, <1>t, <2>1, <2>2, <2>4 DEF LocateDBTypeOK
    <3> QED  BY <2>1, <2>3, <3>1, CellsFrame
  <2>5. CASE T = "cells"
    <3>1. i \in ToSet(visible["cells"])
      BY <1>t, <2>2, <2>5 DEF Committed, ToSet, UpdateDBTypeOK
    <3>2. \A k \in CellKeys :
             locate'["cells"][k] = IF k = c THEN i ELSE locate["cells"][k]
      BY <1>0, <1>t, <2>1, <2>2, <2>5 DEF LocateDBTypeOK
    <3>3. locate["cells"][c] # 0 /\ c \in CellKeys => locate["cells"][c] = i
      BY <2>5, <3>1 DEF CellsUnique, HeldCells
    <3>4. CellsUnique'
      BY <2>1, <2>3, <2>5, <3>1, <3>2 DEF CellsUnique
    <3> QED  BY <3>2, <3>3, <3>4
  <2> QED  BY <2>4, <2>5
<1>5. CASE /\ UNCHANGED <<keyOf, pending, visible, locate>>
  BY <1>5, CellsFrame DEF HeldCells
<1> QED
  BY <1>1, <1>2, <1>3, <1>4, <1>5
     DEF Next, Insert, Progress, StartRefresh, FetchPage, FetchFails, UpsertFails, TakeRow,
         NextPage, NextTable, Finish, ProcessDies, vars, db

\* LocateDB never moves a cell once it shows it, whatever is reported and
\* refreshed afterwards.
THEOREM CellsNeverMove == Spec => FirstCellWins
<1>1. Init => CellsUnique
  <2>1. ASSUME Init PROVE HeldCells = {} /\ \A k \in CellKeys : locate["cells"][k] = 0
    <3>1. "cells" \in Tables
      BY DEF Tables
    <3>2. Keys["cells"] = CellKeys
      BY <3>1 DEF Keys
    <3> QED  BY <2>1, <3>1, <3>2 DEF Init, HeldCells, NoIds, ToSet
  <2> QED  BY <2>1 DEF CellsUnique
<1>2. IInv /\ CellsUnique /\ [Next]_vars => CellsUnique'
  BY CellsStep
<1>3. IInv /\ CellsUnique /\ [Next]_vars =>
         [\A k \in CellKeys : locate["cells"][k] # 0 =>
              locate'["cells"][k] = locate["cells"][k]]_vars
  BY CellsStep
<1> QED
  BY <1>1, <1>2, <1>3, InvariantHolds, PTL DEF Spec, FirstCellWins
-----------------------------------------------------------------------------
(* Without a fault everything that was tried is stored                     *)

Stored(t, i) ==
    /\ i \in 1..Len(keyOf[t])
    /\ TooLong(t, keyOf[t][i]) \/ locate[t][keyOf[t][i]] # 0

TriedStored ==
    faults = 0 => \A r \in Refreshers : \A t \in Tables :
                      \A i \in tried[r][t] : Stored(t, i)

\* An allocated id keeps its key.
LEMMA KeysKept ==
    ASSUME IInv, [Next]_vars, NEW t \in Tables, NEW i \in 1..Len(keyOf[t])
    PROVE  i \in 1..Len(keyOf'[t]) /\ keyOf'[t][i] = keyOf[t][i]
<1>1. keyOf \in [Tables -> Seq(CellKeys \cup WifiKeys \cup IpKeys)]
  BY DEF IInv, TypeOK, UpdateDBTypeOK
<1>2. ASSUME NEW u \in Tables, NEW k \in Keys[u], BeginInsert(u, k)
      PROVE  i \in 1..Len(keyOf'[t]) /\ keyOf'[t][i] = keyOf[t][i]
  <2>1. k \in CellKeys \cup WifiKeys \cup IpKeys
    BY DEF Keys, Tables
  <2> QED  BY <1>1, <1>2, <2>1 DEF BeginInsert
<1>3. CASE keyOf' = keyOf
  BY <1>3
<1>4. CASE \E u \in Tables : \E k \in Keys[u] : BeginInsert(u, k)
  BY <1>2, <1>4
<1> QED
  BY <1>3, <1>4
     DEF Next, Insert, Progress, CommitInsert, AbortInsert, StartRefresh, FetchPage,
         FetchFails, UpsertRow, UpsertFails, TakeRow, NextPage, NextTable, Finish, ProcessDies,
         vars, db

\* LocateDB never loses a key.
LEMMA EntriesKept ==
    ASSUME IInv, [Next]_vars, NEW t \in Tables, NEW k \in Keys[t], locate[t][k] # 0
    PROVE  locate'[t][k] # 0
<1>1. /\ DOMAIN locate = Tables
      /\ \A u \in Tables : locate[u] \in [Keys[u] -> Ids \cup {0}]
  BY DEF IInv, TypeOK, LocateDBTypeOK
<1>2. ASSUME NEW r \in Refreshers, NEW i \in Ids, UpsertRow(r, i)
      PROVE  locate'[t][k] # 0
  <2> DEFINE T == Table(r)
             c == keyOf[T][i]
  <2>1. locate' = [locate EXCEPT ![T][c] = i]
    BY <1>2 DEF UpsertRow, Upserted
  <2>2. i # 0
    BY DEF Ids
  <2> HIDE DEF T, c
  <2> QED  BY <1>1, <2>1, <2>2
<1>3. CASE locate' = locate
  BY <1>3
<1>4. CASE \E r \in Refreshers : \E i \in Ids : UpsertRow(r, i)
  BY <1>2, <1>4
<1> QED
  BY <1>3, <1>4
     DEF Next, Insert, Progress, BeginInsert, CommitInsert, AbortInsert, StartRefresh,
         FetchPage, FetchFails, UpsertFails, NextPage, NextTable, Finish, ProcessDies, vars

LEMMA StoredKept ==
    ASSUME IInv, [Next]_vars, NEW t \in Tables, NEW i, Stored(t, i)
    PROVE  Stored(t, i)'
<1>1. i \in 1..Len(keyOf'[t]) /\ keyOf'[t][i] = keyOf[t][i]
  BY KeysKept DEF Stored
<1>2. keyOf[t][i] \in Keys[t]
  BY DEF Stored, IInv, TypeOK, UpdateDBTypeOK
<1> QED
  BY <1>1, <1>2, EntriesKept DEF Stored, TooLong

LEMMA TriedStoredStep == IInv /\ TriedStored /\ [Next]_vars => TriedStored'
<1> SUFFICES ASSUME IInv, TriedStored, [Next]_vars, faults' = 0,
                    NEW r \in Refreshers, NEW t \in Tables, NEW i \in tried'[r][t]
             PROVE  Stored(t, i)'
  BY DEF TriedStored
<1>0. /\ faults \in Nat /\ RefreshTypeOK /\ UpdateDBTypeOK /\ LocateDBTypeOK
      /\ tried \in [Refreshers -> [Tables -> SUBSET Ids]]
  BY DEF IInv, TypeOK, HistoryTypeOK
<1>1. faults = 0
  BY <1>0 DEF Next, Insert, Progress, BeginInsert, CommitInsert, AbortInsert, StartRefresh,
         FetchPage, FetchFails, UpsertRow, UpsertFails, NextPage, NextTable, Finish,
         ProcessDies, vars
<1>2. CASE i \in tried[r][t]
  BY <1>1, <1>2, StoredKept DEF TriedStored
<1>3. ASSUME NEW q \in Refreshers, NEW j \in Ids, TakeRow(q, j), i \notin tried[r][t]
      PROVE  t = Table(q) /\ i = j
  BY <1>0, <1>3 DEF TakeRow
<1>4. ASSUME NEW q \in Refreshers, NEW j \in Ids, UpsertRow(q, j), i \notin tried[r][t]
      PROVE  Stored(t, i)'
  <2>1. TakeRow(q, j) /\ locate' = [locate EXCEPT ![Table(q)][keyOf[Table(q)][j]] = j]
    BY <1>4 DEF UpsertRow, Upserted
  <2>2. t = Table(q) /\ i = j
    BY <1>3, <1>4, <2>1
  <2>3. Committed(t, i) /\ keyOf' = keyOf
    BY <2>1, <2>2, TakeRowKeeps DEF TakeRow, db
  <2>4. i \in 1..Len(keyOf[t])
    BY <2>3 DEF Committed, IInv, IdsAllocated
  <2>5. keyOf[t][i] \in Keys[t]
    BY <1>0, <2>4 DEF UpdateDBTypeOK
  <2>6. locate'[t][keyOf[t][i]] = i /\ i # 0
    BY <1>0, <2>1, <2>2, <2>5 DEF LocateDBTypeOK, Ids
  <2> QED  BY <2>3, <2>4, <2>6 DEF Stored
<1>5. ASSUME NEW q \in Refreshers, NEW j \in Ids, UpsertFails(q, j), i \notin tried[r][t]
      PROVE  Stored(t, i)'
  <2>1. TakeRow(q, j) /\ TooLong(Table(q), keyOf[Table(q)][j])
    BY <1>0, <1>1, <1>5 DEF UpsertFails
  <2>2. t = Table(q) /\ i = j
    BY <1>3, <1>5, <2>1
  <2>3. Committed(t, i) /\ keyOf' = keyOf
    BY <2>1, <2>2, TakeRowKeeps DEF TakeRow, db
  <2>4. i \in 1..Len(keyOf[t])
    BY <2>3 DEF Committed, IInv, IdsAllocated
  <2> QED  BY <2>1, <2>2, <2>3, <2>4 DEF Stored, TooLong
<1>6. CASE tried' = tried
  BY <1>2, <1>6
<1>7. ASSUME NEW q \in Refreshers, StartRefresh(q) PROVE i \in tried[r][t]
  BY <1>0, <1>7 DEF StartRefresh, NoIds
<1> QED
  BY <1>2, <1>4, <1>5, <1>6, <1>7
     DEF Next, Insert, Progress, BeginInsert, CommitInsert, AbortInsert,
         FetchPage, FetchFails, NextPage, NextTable, Finish, ProcessDies, vars, ghosts

\* When nothing ever failed, a Refresh that returned no error has put the key of
\* every row that was visible when it began into LocateDB, if it fits there.
THEOREM NothingLeftOut == Spec => []FaultFreeMirrored
<1>1. Init => TriedStored
  BY DEF Init, TriedStored, NoIds
<1>2. IInv /\ TriedStored => FaultFreeMirrored
  BY DEF IInv, RefresherInv, ReturnCovered, TriedStored, FaultFreeMirrored, Stored
<1> QED
  BY <1>1, <1>2, TriedStoredStep, InvariantHolds, PTL DEF Spec

-----------------------------------------------------------------------------
(* How far a Refresh is from its end.                                      *)

\* The pages of r lie within the table it is at.
WithinTable(r) ==
    /\ pc[r] = "fetch" => offset[r] <= Len(visible[Table(r)])
    /\ pc[r] = "upsert" => offset[r] + fetched[r] <= Len(visible[Table(r)])

AllWithin == \A r \in Refreshers : WithinTable(r)

Sizes == \A t \in Tables : Len(visible[t]) \in Nat

LEMMA SizesAreNat == IInv => Sizes
BY DEF IInv, TypeOK, UpdateDBTypeOK, Sizes

LEMMA RowCounts ==
    ASSUME IInv
    PROVE  /\ Len(visible["cells"]) \in Nat
           /\ Len(visible["wifi"]) \in Nat
           /\ Len(visible["ip"]) \in Nat
           /\ CommittedRowCount \in Nat
<1>1. "cells" \in Tables /\ "wifi" \in Tables /\ "ip" \in Tables
  BY DEF Tables
<1>2. /\ Len(visible["cells"]) \in Nat
      /\ Len(visible["wifi"]) \in Nat
      /\ Len(visible["ip"]) \in Nat
  BY <1>1, SizesAreNat DEF Sizes
<1>3. \A a, b, c \in Nat : a + b + c \in Nat
  OBVIOUS
<1>4. CommittedRowCount = Len(visible["cells"]) + Len(visible["wifi"]) + Len(visible["ip"])
  BY DEF CommittedRowCount
<1>5. CommittedRowCount \in Nat
  BY <1>2, <1>3, <1>4, Zenon
<1> QED
  BY <1>2, <1>5, Zenon

\* A commit adds one row to its table; no other step changes the visible rows.
LEMMA CommitGrows ==
    ASSUME IInv, NEW t \in Tables, NEW i \in Ids, CommitInsert(t, i)
    PROVE  /\ Len(visible'[t]) = Len(visible[t]) + 1
           /\ \A u \in Tables \ {t} : visible'[u] = visible[u]
<1>1. visible \in [Tables -> Seq(Ids)] /\ visible[t] \in Seq(Ids)
  BY DEF IInv, TypeOK, UpdateDBTypeOK
<1>2. PICK p \in 1..Len(visible[t]) + 1 :
         visible' = [visible EXCEPT ![t] = InsertAt(@, p, i)]
  BY DEF CommitInsert
<1>3. /\ visible'[t] = InsertAt(visible[t], p, i)
      /\ \A u \in Tables \ {t} : visible'[u] = visible[u]
  BY <1>1, <1>2
<1>4. InsertedAt(visible[t], p, i, InsertAt(visible[t], p, i))
  BY <1>1, InsertAtPointwise
<1> QED
  BY <1>3, <1>4 DEF InsertedAt

LEMMA CommitCounted ==
    ASSUME IInv, NEW t \in Tables, NEW i \in Ids, CommitInsert(t, i)
    PROVE  CommittedRowCount' = CommittedRowCount + 1
<1> DEFINE n(u) == Len(visible[u])
           m(u) == Len(visible'[u])
<1>1. m(t) = n(t) + 1 /\ \A u \in Tables \ {t} : m(u) = n(u)
  BY CommitGrows
<1>2. /\ n("cells") \in Nat /\ n("wifi") \in Nat /\ n("ip") \in Nat
      /\ CommittedRowCount = n("cells") + n("wifi") + n("ip")
      /\ CommittedRowCount' = m("cells") + m("wifi") + m("ip")
  BY RowCounts DEF CommittedRowCount
<1> HIDE DEF n, m
<1>3. CASE t = "cells"
  <2>1. m("cells") = n("cells") + 1 /\ m("wifi") = n("wifi") /\ m("ip") = n("ip")
    BY <1>1, <1>3 DEF Tables
  <2> QED  BY <1>2, <2>1
<1>4. CASE t = "wifi"
  <2>1. m("cells") = n("cells") /\ m("wifi") = n("wifi") + 1 /\ m("ip") = n("ip")
    BY <1>1, <1>4 DEF Tables
  <2> QED  BY <1>2, <2>1
<1>5. CASE t = "ip"
  <2>1. m("cells") = n("cells") /\ m("wifi") = n("wifi") /\ m("ip") = n("ip") + 1
    BY <1>1, <1>5 DEF Tables
  <2> QED  BY <1>2, <2>1
<1> QED
  BY <1>3, <1>4, <1>5 DEF Tables

\* The work r has left when only the sizes of the tables change.
LEMMA WorkOfOthers ==
    ASSUME IInv, NEW r \in Refreshers, pc[r] # "idle",
           pc'[r] = pc[r], phase'[r] = phase[r], offset'[r] = offset[r],
           fetched'[r] = fetched[r], page'[r] = page[r],
           visible' = visible
    PROVE  WorkLeft(r)' = WorkLeft(r) /\ Place(r)' = Place(r)
           /\ CommittedRowCount' = CommittedRowCount /\ (WithinTable(r) => WithinTable(r)')
BY DEF WorkLeft, WorkHere, WorkAfter, TableWork, Place, CommittedRowCount, Table, WithinTable

LEMMA WorkAfterCommit ==
    ASSUME IInv, NEW r \in Refreshers, pc[r] # "idle", WithinTable(r),
           NEW t \in Tables, NEW i \in Ids, CommitInsert(t, i)
    PROVE  /\ Place(r)' = Place(r)
           /\ WorkLeft(r)' <= WorkLeft(r) + 3
           /\ WithinTable(r)'
<1>1. /\ RefreshTypeOK /\ Sizes
      /\ pc' = pc /\ phase' = phase /\ offset' = offset /\ fetched' = fetched /\ page' = page
      /\ Len(visible'[t]) = Len(visible[t]) + 1
      /\ \A u \in Tables \ {t} : visible'[u] = visible[u]
  BY CommitGrows, SizesAreNat DEF IInv, TypeOK, CommitInsert, locals
<1>2. /\ phase[r] \in 1..3 /\ offset[r] \in Nat /\ fetched[r] \in Nat /\ Len(page[r]) \in Nat
      /\ pc[r] \in {"fetch", "upsert"} /\ Table(r) \in Tables /\ Table(r)' = Table(r)
  BY <1>1, OrderFacts, TableFact, PipelineAssumption DEF RefreshTypeOK, Table, IInv, TypeOK
<1> DEFINE n(u) == Len(visible[u])
           m(u) == Len(visible'[u])
<1>3. \A u \in Tables : n(u) \in Nat /\ m(u) \in Nat /\ n(u) <= m(u) /\ m(u) <= n(u) + 1
                        /\ (u # t => m(u) = n(u))
  BY <1>1 DEF Sizes
<1>4. /\ WorkHere(r) \in Int /\ WorkHere(r)' \in Int
      /\ WorkHere(r)' <= WorkHere(r) + (IF Table(r) = t THEN 3 ELSE 0)
  <2> DEFINE T == Table(r)
             H == WorkHere(r)
             J == WorkHere(r)'
             grown == IF T = t THEN 1 ELSE 0
  <2>1. n(T) \in Nat /\ m(T) = n(T) + grown /\ T \in Tables
    <3>1. T \in Tables /\ n(T) \in Nat /\ m(T) \in Nat
      BY <1>2, <1>3
    <3>2. CASE T = t
      <4>1. m(T) = n(T) + 1 /\ grown = 1
        BY <1>1, <3>2
      <4> QED  BY <3>1, <4>1
    <3>3. CASE T # t
      <4>1. m(T) = n(T) /\ grown = 0
        BY <1>3, <3>1, <3>3
      <4> HIDE DEF n, m, grown, T
      <4> QED  BY <3>1, <4>1
    <3> QED  BY <3>2, <3>3
  <2>2. grown \in 0..1 /\ (T = t => grown = 1) /\ (T # t => grown = 0)
    OBVIOUS
  <2>3. CASE pc[r] = "fetch"
    <3>1. H = 3 * (n(T) - offset[r]) + 2 /\ J = 3 * (m(T) - offset[r]) + 2
      BY <1>1, <1>2, <2>3 DEF WorkHere
    <3> HIDE DEF n, m, T, H, J, grown
    <3>2. H \in Int /\ J = H + 3 * grown
      BY <1>2, <2>1, <2>2, <3>1
    <3>3. J \in Int /\ J <= H + (IF T = t THEN 3 ELSE 0)
      BY <2>2, <3>2
    <3> QED  BY <3>2, <3>3 DEF T, H, J
  <2>4. CASE pc[r] = "upsert" /\ LastPage(fetched[r])
    <3> DEFINE rows == Len(page[r])
    <3>1. H = rows + 1 /\ J = rows + 1 /\ rows \in Nat
      BY <1>1, <1>2, <2>4 DEF WorkHere, LastPage
    <3> HIDE DEF T, H, J, rows
    <3>2. H \in Int /\ J \in Int /\ J <= H + (IF T = t THEN 3 ELSE 0)
      BY <3>1
    <3> QED  BY <3>2 DEF T, H, J
  <2>5. CASE pc[r] = "upsert" /\ ~LastPage(fetched[r])
    <3>1. /\ H = 3 * (n(T) - (offset[r] + fetched[r])) + Len(page[r]) + 3
          /\ J = 3 * (m(T) - (offset[r] + fetched[r])) + Len(page[r]) + 3
      BY <1>1, <1>2, <2>5 DEF WorkHere, LastPage
    <3> HIDE DEF n, m, T, H, J, grown
    <3>2. H \in Int /\ J = H + 3 * grown
      BY <1>2, <2>1, <2>2, <3>1
    <3>3. J \in Int /\ J <= H + (IF T = t THEN 3 ELSE 0)
      BY <2>2, <3>2
    <3> QED  BY <3>2, <3>3 DEF T, H, J
  <2> QED  BY <1>2, <2>3, <2>4, <2>5
<1>5. Order[1] = "cells" /\ Order[2] = "wifi" /\ Order[3] = "ip" /\ Table(r) = Order[phase[r]]
  BY DEF Order, Table
<1>6. /\ WorkAfter(r) \in Nat /\ WorkAfter(r)' \in Nat
      /\ WorkAfter(r)' <= WorkAfter(r) + (IF Table(r) # t THEN 3 ELSE 0)
  <2>1. TableWork(Order[2]) = 3 * n("wifi") + 2 /\ TableWork(Order[3]) = 3 * n("ip") + 2
    BY <1>5 DEF TableWork
  <2>2. TableWork(Order[2])' = 3 * m("wifi") + 2 /\ TableWork(Order[3])' = 3 * m("ip") + 2
    BY <1>5 DEF TableWork
  <2>3. n("wifi") \in Nat /\ m("wifi") \in Nat /\ n("ip") \in Nat /\ m("ip") \in Nat
    BY <1>3 DEF Tables
  <2>4. CASE phase[r] = 1
    <3> DEFINE A == WorkAfter(r)
               B == WorkAfter(r)'
               w == n("wifi")
               wn == m("wifi")
               p == n("ip")
               pn == m("ip")
    <3>0. /\ A = (3 * w + 2) + (3 * p + 2)
          /\ B = (3 * wn + 2) + (3 * pn + 2)
          /\ w \in Nat /\ wn \in Nat /\ p \in Nat /\ pn \in Nat
      BY <1>1, <2>1, <2>2, <2>3, <2>4 DEF WorkAfter
    <3>1. A = 3 * n("wifi") + 3 * n("ip") + 4 /\ B = 3 * m("wifi") + 3 * m("ip") + 4
      <4> HIDE DEF A, B, w, wn, p, pn
      <4>1. A = 3 * w + 3 * p + 4 /\ B = 3 * wn + 3 * pn + 4
        BY <3>0
      <4> QED  BY <4>1 DEF w, wn, p, pn
    <3> HIDE DEF n, m
    <3> QED  BY <1>3, <1>5, <2>3, <2>4, <3>1 DEF Tables
  <2>5. CASE phase[r] = 2
    <3>1. WorkAfter(r) = 3 * n("ip") + 2 /\ WorkAfter(r)' = 3 * m("ip") + 2
      BY <1>1, <2>1, <2>2, <2>3, <2>5 DEF WorkAfter
    <3> HIDE DEF n, m
    <3> QED  BY <1>3, <1>5, <2>3, <2>5, <3>1 DEF Tables
  <2>6. CASE phase[r] = 3
    <3>1. WorkAfter(r) = 0 /\ WorkAfter(r)' = 0
      BY <1>1, <2>6 DEF WorkAfter
    <3> QED  BY <3>1
  <2> QED  BY <1>2, <2>4, <2>5, <2>6
<1>7. WorkLeft(r)' <= WorkLeft(r) + 3
  BY <1>1, <1>4, <1>6 DEF WorkLeft
<1>8. Place(r)' = Place(r)
  BY <1>1 DEF Place
<1>9. WithinTable(r)'
  BY <1>1, <1>2, <1>3 DEF WithinTable
<1> QED
  BY <1>7, <1>8, <1>9

\* What the numbers of r are.
Numbers(r) ==
    /\ phase[r] \in 1..3 /\ offset[r] \in Nat /\ fetched[r] \in 0..PageSize
    /\ Len(page[r]) \in Nat /\ Len(visible[Table(r)]) \in Nat
    /\ WorkAfter(r) \in Nat

LEMMA OrderWork ==
    ASSUME IInv
    PROVE  \A ph \in 1..3 : TableWork(Order[ph]) \in Nat
<1>1. \A n \in Nat : 3 * n + 2 \in Nat
  OBVIOUS
<1>2. \A t \in Tables : TableWork(t) \in Nat
  BY <1>1, SizesAreNat, Zenon DEF TableWork, Sizes
<1> QED
  BY <1>2, OrderFacts

LEMMA NumbersHold ==
    ASSUME IInv, NEW r \in Refreshers
    PROVE  Numbers(r)
<1>1. Sizes /\ RefreshTypeOK /\ Table(r) \in Tables
  BY SizesAreNat, TableFact DEF IInv, TypeOK
<1>2. phase[r] \in 1..3 /\ offset[r] \in Nat /\ fetched[r] \in 0..PageSize /\ Len(page[r]) \in Nat
  BY <1>1, OrderFacts DEF RefreshTypeOK
<1>3. WorkAfter(r) \in Nat
  <2>1. TableWork(Order[2]) \in Nat /\ TableWork(Order[3]) \in Nat
    BY OrderWork
  <2>2. /\ phase[r] = 1 => WorkAfter(r) = TableWork(Order[2]) + TableWork(Order[3])
        /\ phase[r] = 2 => WorkAfter(r) = TableWork(Order[3])
        /\ phase[r] = 3 => WorkAfter(r) = 0
    BY DEF WorkAfter
  <2>3. phase[r] = 1 \/ phase[r] = 2 \/ phase[r] = 3
    BY <1>2
  <2>4. TableWork(Order[2]) + TableWork(Order[3]) \in Nat
    <3> DEFINE x == TableWork(Order[2])
               y == TableWork(Order[3])
    <3>1. x \in Nat /\ y \in Nat
      BY <2>1
    <3> HIDE DEF x, y
    <3>2. x + y \in Nat
      BY <3>1
    <3> QED  BY <3>2 DEF x, y
  <2> QED  BY <2>1, <2>2, <2>3, <2>4
<1> QED
  BY <1>1, <1>2, <1>3 DEF Numbers, Sizes

LEMMA WorkPositive ==
    ASSUME IInv, NEW r \in Refreshers, pc[r] # "idle", WithinTable(r)
    PROVE  WorkLeft(r) \in Nat /\ WorkLeft(r) > 0
<1>1. Numbers(r) /\ pc[r] \in {"fetch", "upsert"} /\ PageSize \in Nat
  BY NumbersHold, PipelineAssumption DEF IInv, TypeOK, RefreshTypeOK
<1>2. WorkHere(r) \in Nat /\ WorkHere(r) > 0
  <2> DEFINE L == Len(visible[Table(r)])
             H == WorkHere(r)
  <2>1. L \in Nat /\ offset[r] \in Nat /\ fetched[r] \in Nat /\ Len(page[r]) \in Nat
    BY <1>1 DEF Numbers
  <2>2. CASE pc[r] = "fetch"
    <3>1. offset[r] <= L /\ H = 3 * (L - offset[r]) + 2
      BY <2>2 DEF WithinTable, WorkHere
    <3> HIDE DEF L, H
    <3>2. H \in Nat /\ H > 0
      BY <2>1, <3>1
    <3> QED  BY <3>2 DEF H
  <2>3. CASE pc[r] = "upsert" /\ LastPage(fetched[r])
    <3>1. H = Len(page[r]) + 1
      BY <2>3 DEF WorkHere
    <3> HIDE DEF H
    <3>2. H \in Nat /\ H > 0
      BY <2>1, <3>1
    <3> QED  BY <3>2 DEF H
  <2>4. CASE pc[r] = "upsert" /\ ~LastPage(fetched[r])
    <3>1. /\ offset[r] + fetched[r] <= L
          /\ H = 3 * (L - (offset[r] + fetched[r])) + Len(page[r]) + 3
      BY <2>4 DEF WithinTable, WorkHere
    <3> HIDE DEF L, H
    <3>2. H \in Nat /\ H > 0
      BY <2>1, <3>1
    <3> QED  BY <3>2 DEF H
  <2> QED  BY <1>1, <2>2, <2>3, <2>4
<1>3. WorkLeft(r) = WorkHere(r) + WorkAfter(r) /\ WorkAfter(r) \in Nat
  BY <1>1 DEF WorkLeft, Numbers
<1> QED
  BY <1>2, <1>3

\* A step of r inside its Refresh, failures included.
LEMMA OwnStep ==
    ASSUME IInv, NEW r \in Refreshers, WithinTable(r), FetchFails(r) \/ Progress(r)
    PROVE  /\ WorkLeft(r)' < WorkLeft(r)
           /\ WithinTable(r)'
           /\ visible' = visible
           /\ \A q \in Refreshers \ {r} :
                 /\ pc'[q] = pc[q] /\ phase'[q] = phase[q] /\ offset'[q] = offset[q]
                 /\ fetched'[q] = fetched[q] /\ page'[q] = page[q]
<1>0. /\ RefreshTypeOK /\ Numbers(r) /\ PageSize \in Nat \ {0} /\ Sizes /\ Table(r) \in Tables
  BY NumbersHold, PipelineAssumption, SizesAreNat, TableFact DEF IInv, TypeOK
<1> DEFINE L == Len(visible[Table(r)])
<1>1. CASE FetchFails(r)
  <2>1. pc[r] # "idle" /\ pc'[r] = "idle" /\ visible' = visible
    BY <1>0, <1>1 DEF FetchFails, RefreshTypeOK, db
  <2>2. WorkLeft(r) > 0 /\ WorkLeft(r)' = 0
    BY <2>1, WorkPositive DEF WorkLeft
  <2> QED
    BY <1>0, <1>1, <2>1, <2>2 DEF FetchFails, RefreshTypeOK, WithinTable, db
<1>2. CASE FetchPage(r)
  <2> DEFINE s == visible[Table(r)]
             pg == PageOf(s, offset[r], PageSize)
  <2>1. s \in Seq(Ids) /\ offset[r] \in Nat /\ offset[r] <= L
    BY <1>0, <1>2 DEF IInv, TypeOK, UpdateDBTypeOK, RefreshTypeOK, WithinTable, FetchPage
  <2>2. /\ Len(pg) \in 0..PageSize
        /\ Len(pg) <= L - offset[r]
        /\ pg \in Seq(Ids)
    <3> HIDE DEF s
    <3>1. /\ Len(pg) \in 0..PageSize /\ pg \in Seq(Ids)
          /\ \A n \in 1..Len(pg) : offset[r] + n \in 1..Len(s)
      BY <2>1, PagePointwise, <1>0
    <3>2. CASE Len(pg) = 0
      BY <2>1, <3>1, <3>2 DEF s
    <3>3. CASE Len(pg) # 0
      <4>1. Len(pg) \in 1..Len(pg)
        BY <3>1, <3>3
      <4>2. offset[r] + Len(pg) \in 1..Len(s)
        BY <3>1, <4>1
      <4> QED  BY <2>1, <3>1, <4>2 DEF s
    <3> QED  BY <3>2, <3>3
  <2> HIDE DEF pg
  <2>3. /\ pc[r] = "fetch" /\ pc'[r] = "upsert" /\ page'[r] = pg /\ fetched'[r] = Len(pg)
        /\ phase' = phase /\ offset' = offset /\ visible' = visible
        /\ Table(r)' = Table(r) /\ WorkAfter(r)' = WorkAfter(r)
    BY <1>0, <1>2 DEF FetchPage, RefreshTypeOK, Table, WorkAfter, TableWork, db, pg
  <2>4. /\ WorkHere(r) = 3 * (L - offset[r]) + 2
        /\ WorkHere(r)' = IF Len(pg) < PageSize THEN Len(pg) + 1
                          ELSE 3 * (L - (offset[r] + Len(pg))) + Len(pg) + 3
    BY <2>3 DEF WorkHere, LastPage
  <2>5. WorkHere(r)' < WorkHere(r) /\ WorkHere(r) \in Int /\ WorkHere(r)' \in Int
    <3>1. L \in Nat
      BY <1>0 DEF Numbers
    <3> DEFINE H == WorkHere(r)
               J == WorkHere(r)'
               P == Len(pg)
    <3>2. /\ P \in 0..PageSize /\ P <= L - offset[r] /\ offset[r] <= L
          /\ H = 3 * (L - offset[r]) + 2
          /\ J = IF P < PageSize THEN P + 1 ELSE 3 * (L - (offset[r] + P)) + P + 3
      BY <2>1, <2>2, <2>4
    <3> HIDE DEF L, H, J, P
    <3>3. J < H /\ H \in Int /\ J \in Int
      <4>1. CASE P < PageSize
        BY <1>0, <2>1, <3>1, <3>2, <4>1
      <4>2. CASE ~(P < PageSize)
        <5>1. P = PageSize /\ J = 3 * (L - (offset[r] + P)) + P + 3
          BY <1>0, <3>2, <4>2
        <5>2. /\ PageSize \in Nat \ {0} /\ L \in Nat /\ offset[r] \in Nat
              /\ P <= L - offset[r] /\ H = 3 * (L - offset[r]) + 2
          BY <1>0, <2>1, <3>1, <3>2
        <5> QED  BY <5>1, <5>2
      <4> QED  BY <4>1, <4>2
    <3> QED  BY <3>3 DEF H, J
  <2>6. WorkLeft(r)' < WorkLeft(r)
    BY <1>0, <2>3, <2>5 DEF WorkLeft, Numbers
  <2>7. WithinTable(r)'
    BY <1>0, <2>1, <2>2, <2>3 DEF WithinTable, Numbers
  <2> QED
    BY <1>0, <1>2, <2>3, <2>6, <2>7 DEF FetchPage, RefreshTypeOK
<1>3. ASSUME NEW i \in Ids, UpsertRow(r, i) \/ UpsertFails(r, i)
      PROVE  /\ WorkLeft(r)' < WorkLeft(r) /\ WithinTable(r)' /\ visible' = visible
             /\ \A q \in Refreshers \ {r} :
                   /\ pc'[q] = pc[q] /\ phase'[q] = phase[q] /\ offset'[q] = offset[q]
                   /\ fetched'[q] = fetched[q] /\ page'[q] = page[q]
  <2>1. TakeRow(r, i)
    BY <1>3 DEF UpsertRow, UpsertFails
  <2>2. /\ pc[r] = "upsert" /\ pc' = pc /\ phase' = phase /\ offset' = offset
        /\ fetched' = fetched /\ visible' = visible
        /\ page' = [page EXCEPT ![r] = Tail(@)] /\ page[r] # <<>>
    BY <2>1 DEF TakeRow, db
  <2>3. /\ Len(page'[r]) = Len(page[r]) - 1
        /\ Table(r)' = Table(r) /\ WorkAfter(r)' = WorkAfter(r)
    BY <1>0, <2>2 DEF RefreshTypeOK, Table, WorkAfter, TableWork
  <2>4. /\ WorkHere(r) \in Int /\ WorkHere(r)' = WorkHere(r) - 1
    <3> DEFINE H == WorkHere(r)
               J == WorkHere(r)'
    <3>1. /\ Len(page[r]) \in Nat /\ Len(page'[r]) = Len(page[r]) - 1
          /\ L \in Nat /\ offset[r] \in Nat /\ fetched[r] \in Nat
      BY <1>0, <2>3 DEF Numbers
    <3>2. CASE LastPage(fetched[r])
      <4> DEFINE rows == Len(page[r])
                 rest == Len(page'[r])
      <4>1. H = rows + 1 /\ J = rest + 1 /\ rows \in Nat /\ rest = rows - 1
        BY <2>2, <3>1, <3>2 DEF WorkHere, LastPage
      <4> HIDE DEF H, J, rows, rest
      <4>2. H \in Int /\ J = H - 1
        BY <4>1
      <4> QED  BY <4>2 DEF H, J
    <3>3. CASE ~LastPage(fetched[r])
      <4> DEFINE rows == Len(page[r])
                 rest == Len(page'[r])
      <4>1. /\ H = 3 * (L - (offset[r] + fetched[r])) + rows + 3
            /\ J = 3 * (L - (offset[r] + fetched[r])) + rest + 3
            /\ rows \in Nat /\ rest = rows - 1
            /\ L \in Nat /\ offset[r] \in Nat /\ fetched[r] \in Nat
        BY <2>2, <2>3, <3>1, <3>3 DEF WorkHere, LastPage
      <4> HIDE DEF H, J, L, rows, rest
      <4>2. H \in Int /\ J = H - 1
        BY <4>1
      <4> QED  BY <4>2 DEF H, J
    <3> QED  BY <3>2, <3>3
  <2>5. WorkLeft(r)' < WorkLeft(r)
    BY <1>0, <2>2, <2>3, <2>4 DEF WorkLeft, Numbers
  <2> QED
    BY <1>0, <2>2, <2>3, <2>5 DEF RefreshTypeOK, WithinTable
<1>4. CASE NextPage(r)
  <2>1. /\ pc[r] = "upsert" /\ page[r] = <<>> /\ pc'[r] = "fetch" /\ ~LastPage(fetched[r])
        /\ phase' = phase /\ offset'[r] = offset[r] + fetched[r] /\ visible' = visible
        /\ Table(r)' = Table(r) /\ WorkAfter(r)' = WorkAfter(r)
    BY <1>0, <1>4
       DEF NextPage, PageDone, NextOffset, RefreshTypeOK, Table, WorkAfter, TableWork, db
  <2>2. /\ WorkHere(r) = 3 * (L - (offset[r] + fetched[r])) + 3
        /\ WorkHere(r)' = 3 * (L - (offset[r] + fetched[r])) + 2
    BY <1>0, <2>1 DEF WorkHere, Numbers
  <2>3. WorkLeft(r)' < WorkLeft(r)
    BY <1>0, <2>1, <2>2 DEF WorkLeft, Numbers
  <2> QED
    BY <1>0, <1>4, <2>1, <2>3 DEF NextPage, RefreshTypeOK, WithinTable
<1>5. CASE NextTable(r)
  <2>1. /\ pc[r] = "upsert" /\ page[r] = <<>> /\ pc'[r] = "fetch" /\ LastPage(fetched[r])
        /\ phase[r] \in {1, 2} /\ phase'[r] = phase[r] + 1 /\ offset'[r] = 0 /\ visible' = visible
    BY <1>0, <1>5, OrderFacts DEF NextTable, PageDone, RefreshTypeOK, Numbers, db
  <2>2. Table(r)' = Order[phase[r] + 1] /\ Order[phase[r] + 1] \in Tables
    BY <2>1, OrderFacts DEF Table
  <2>3. WorkHere(r) = 1
    BY <2>1 DEF WorkHere
  <2>4. WorkHere(r)' = 3 * (Len(visible[Order[phase[r] + 1]]) - 0) + 2
    BY <2>1, <2>2 DEF WorkHere
  <2>5. WorkHere(r)' = TableWork(Order[phase[r] + 1]) /\ TableWork(Order[phase[r] + 1]) \in Nat
    BY <1>0, <2>2, <2>4 DEF TableWork, Sizes
  <2>6. TableWork(Order[2])' = TableWork(Order[2]) /\ TableWork(Order[3])' = TableWork(Order[3])
    BY <2>1 DEF TableWork
  <2>7. TableWork(Order[2]) \in Nat /\ TableWork(Order[3]) \in Nat
    BY <1>0, OrderFacts DEF TableWork, Sizes
  <2>8. WorkAfter(r) = WorkHere(r)' + WorkAfter(r)'
    BY <2>1, <2>5, <2>6, <2>7 DEF WorkAfter
  <2>9. WorkLeft(r)' < WorkLeft(r)
    BY <1>0, <2>1, <2>3, <2>8 DEF WorkLeft, Numbers
  <2> QED
    BY <1>0, <1>5, <2>1, <2>2, <2>9 DEF NextTable, RefreshTypeOK, WithinTable, Sizes
<1>6. CASE Finish(r)
  <2>1. pc[r] # "idle" /\ pc'[r] = "idle" /\ visible' = visible
    BY <1>0, <1>6 DEF Finish, PageDone, RefreshTypeOK, db
  <2>2. WorkLeft(r) > 0 /\ WorkLeft(r)' = 0
    BY <2>1, WorkPositive DEF WorkLeft
  <2> QED
    BY <1>0, <1>6, <2>1, <2>2 DEF Finish, RefreshTypeOK, WithinTable, db
<1> QED
  BY <1>1, <1>2, <1>3, <1>4, <1>5, <1>6 DEF Progress

\* What OnlyCommitsAddWork says of r and one step.
WorkStep(r) ==
    pc[r] # "idle" =>
        /\ WorkLeft(r) > 0
        /\ \/ WorkLeft(r)' < WorkLeft(r)
           \/ /\ Place(r)' = Place(r)
              /\ WorkLeft(r)' <= WorkLeft(r) + 3 * (CommittedRowCount' - CommittedRowCount)

LEMMA RefreshAdvances ==
    ASSUME IInv, [Next]_vars, NEW r \in Refreshers, WithinTable(r)
    PROVE  WorkStep(r) /\ WithinTable(r)'
<1>0. RefreshTypeOK /\ CommittedRowCount \in Nat
  BY RowCounts DEF IInv, TypeOK
<1>1. pc[r] # "idle" => WorkLeft(r) \in Nat /\ WorkLeft(r) > 0
  BY WorkPositive
<1>2. ASSUME visible' = visible, pc'[r] = pc[r], phase'[r] = phase[r],
             offset'[r] = offset[r], fetched'[r] = fetched[r], page'[r] = page[r]
      PROVE  WorkStep(r) /\ WithinTable(r)'
  <2>1. CASE pc[r] = "idle"
    BY <1>2, <2>1 DEF WorkStep, WithinTable
  <2>2. CASE pc[r] # "idle"
    BY <1>0, <1>1, <1>2, <2>2, WorkOfOthers DEF WorkStep
  <2> QED  BY <2>1, <2>2
<1>3. ASSUME NEW t \in Tables, NEW i \in Ids, CommitInsert(t, i)
      PROVE  WorkStep(r) /\ WithinTable(r)'
  <2>1. CASE pc[r] = "idle"
    BY <1>3, <2>1 DEF WorkStep, WithinTable, CommitInsert, locals
  <2>2. CASE pc[r] # "idle"
    <3>1. /\ Place(r)' = Place(r) /\ WorkLeft(r)' <= WorkLeft(r) + 3 /\ WithinTable(r)'
          /\ CommittedRowCount' = CommittedRowCount + 1
      BY <1>3, <2>2, WorkAfterCommit, CommitCounted
    <3>2. 3 * (CommittedRowCount' - CommittedRowCount) = 3
      BY <1>0, <3>1
    <3> QED  BY <1>1, <2>2, <3>1, <3>2 DEF WorkStep
  <2> QED  BY <2>1, <2>2
<1>4. ASSUME NEW q \in Refreshers, FetchFails(q) \/ Progress(q)
      PROVE  WorkStep(r) /\ WithinTable(r)'
  <2>1. CASE q = r
    BY <1>1, <1>4, <2>1, OwnStep DEF WorkStep
  <2>2. CASE q # r
    <3>1. /\ visible' = visible
          /\ \A p \in Refreshers \ {q} :
                /\ pc'[p] = pc[p] /\ phase'[p] = phase[p] /\ offset'[p] = offset[p]
                /\ fetched'[p] = fetched[p] /\ page'[p] = page[p]
      BY <1>0, <1>4 DEF FetchFails, Progress, FetchPage, UpsertRow, UpsertFails, TakeRow,
                        NextPage, NextTable, Finish, RefreshTypeOK, db
    <3>2. /\ pc'[r] = pc[r] /\ phase'[r] = phase[r] /\ offset'[r] = offset[r]
          /\ fetched'[r] = fetched[r] /\ page'[r] = page[r]
      BY <2>2, <3>1
    <3> QED  BY <1>2, <3>1, <3>2
  <2> QED  BY <2>1, <2>2
<1>5. ASSUME NEW q \in Refreshers, StartRefresh(q) PROVE WorkStep(r) /\ WithinTable(r)'
  <2>1. CASE q = r
    <3>1. /\ pc[r] = "idle" /\ pc'[r] = "fetch" /\ offset'[r] = 0 /\ phase'[r] = 1
          /\ visible' = visible
      BY <1>0, <1>5, <2>1 DEF StartRefresh, RefreshTypeOK, db
    <3>2. Table(r)' \in Tables /\ Sizes
      BY <3>1, OrderFacts, SizesAreNat DEF Table
    <3> QED  BY <3>1, <3>2 DEF WorkStep, WithinTable, Sizes
  <2>2. CASE q # r
    BY <1>0, <1>2, <1>5, <2>2 DEF StartRefresh, RefreshTypeOK, db
  <2> QED  BY <2>1, <2>2
<1>6. CASE ProcessDies
  <2>1. pc'[r] = "idle"
    BY <1>6 DEF ProcessDies
  <2> QED  BY <1>1, <2>1 DEF WorkStep, WorkLeft, WithinTable
<1>7. ASSUME NEW t \in Tables, (\E k \in Keys[t] : BeginInsert(t, k)) \/ (\E i \in Ids : AbortInsert(t, i))
      PROVE  WorkStep(r) /\ WithinTable(r)'
  BY <1>2, <1>7 DEF BeginInsert, AbortInsert, locals
<1>8. CASE UNCHANGED vars
  BY <1>2, <1>8 DEF vars, db, locals
<1> QED
  BY <1>3, <1>4, <1>5, <1>6, <1>7, <1>8 DEF Next, Insert

\* Every step of a Refresh leaves it less to do, and only commits, at most three
\* steps for a row, give it more: with the steps it takes bounded by the rows it
\* finds and those that are committed under it, its pages run out.
THEOREM RefreshRunsOut == Spec => OnlyCommitsAddWork
<1>1. Init => AllWithin
  BY DEF Init, AllWithin, WithinTable
<1>2. IInv /\ AllWithin /\ [Next]_vars => AllWithin'
  BY RefreshAdvances DEF AllWithin
<1>3. IInv /\ AllWithin /\ [Next]_vars => \A r \in Refreshers : WorkStep(r)
  BY RefreshAdvances DEF AllWithin
<1> QED
  BY <1>1, <1>2, <1>3, InvariantHolds, PTL DEF Spec, OnlyCommitsAddWork, WorkStep
=============================================================================
