------------------------ MODULE SessionRefreshProofs ------------------------
(***************************************************************************)
(* Proofs about SessionRefresh for every set of clients, administrators    *)
(* and requests, every width of INT and any number of faults.              *)
(***************************************************************************)
EXTENDS SessionRefresh, SequenceTheorems, TLAPS

\* An item of c's report is in UpdateDB.
StoredItem(c, j) ==
    \E row \in updateDB :
        /\ row.key = LookupKey(sent[c].items[j])
        /\ sent[c].items[j].kind # "cell" => row.at = sent[c].at

\* What is known of c's request from the query it has come to: the items before
\* the one /update inserts next are stored.
ClientInv(c) ==
    /\ step[c] \in {"session", "search", "point"} =>
          sent[c].session # None /\ next[c] = 1
    /\ step[c] = "search" => sent[c].kind = "locate"
    /\ step[c] = "point" => sent[c].kind = "update" \/ found[c] # None
    /\ step[c] = "insert" =>
          /\ sent[c].kind = "update" /\ next[c] \in DOMAIN sent[c].items
          /\ \A j \in DOMAIN sent[c].items : j < next[c] => StoredItem(c, j)
    /\ step[c] = "ok" /\ sent[c].kind = "update" =>
          \A j \in DOMAIN sent[c].items : StoredItem(c, j)

ClientsInv == \A c \in Clients : ClientInv(c)

\* What a running refresh has read: sessions and items of points never change,
\* positions only at the price of disturbing their keys.
SnapInv(r) ==
    phase[r] = "running" =>
        /\ Len(snap[r]) <= Len(points) /\ point[r] <= Len(snap[r]) + 1
        /\ \A q \in DOMAIN snap[r] : /\ snap[r][q].session = points[q].session
                                    /\ snap[r][q].items = points[q].items
        /\ \A k \in Keys \ disturbed[r], q \in DOMAIN points :
              points[q].session = of[r] /\ k \in KeysOf(points[q].items) =>
                  q \in DOMAIN snap[r] /\ snap[r][q].at = points[q].at

\* r is past the item j of the point q.
Past(r, q, j) == q < point[r] \/ (q = point[r] /\ j < item[r])

\* r has dealt with an item of the point q that has the key k.
Written(r, q, k) ==
    \/ phase[r] = "done" /\ k \in KeysOf(points[q].items)
    \/ /\ phase[r] = "running" /\ q \in DOMAIN snap[r]
       /\ \E j \in DOMAIN points[q].items : /\ Past(r, q, j) /\ ~Skipped(points[q].items[j])
                                           /\ SessionKey(points[q].items[j]) = k

\* A row nobody else touched is at the last of the points dealt with so far.
WrittenInv(r) ==
    \A k \in Keys \ disturbed[r], q \in DOMAIN points :
        /\ points[q].session = of[r] /\ Written(r, q, k)
        /\ \A later \in DOMAIN points :
              later > q /\ points[later].session = of[r] => ~Written(r, later, k)
        => locateDB[k] = [at |-> points[q].at, metro |-> FALSE]

AdminsInv == \A r \in Admins : SnapInv(r) /\ WrittenInv(r)

IInv == TypeOK /\ ClientsInv /\ AdminsInv

-----------------------------------------------------------------------------
(* Keys and requests                                                       *)

LEMMA CutNarrow == \A n \in Int : Cut(n) \in Narrow
<1> SUFFICES ASSUME NEW n \in Int PROVE Cut(n) \in Narrow
  OBVIOUS
<1>1. n + Half \in Int /\ 2 * Half \in Int /\ 2 * Half > 0
  BY IntAssumption
<1> DEFINE m == (n + Half) % (2 * Half)
<1>2. m \in Int /\ 0 <= m /\ m < 2 * Half
  BY <1>1
<1>3. Cut(n) = m - Half
  BY DEF Cut
<1> QED
  BY <1>2, <1>3, IntAssumption DEF Narrow

LEMMA KeyTypes ==
    ASSUME NEW it \in Items
    PROVE  /\ Fits(it) => LookupKey(it) \in Keys
           /\ SessionKey(it) \in Keys
<1>1. CASE it.kind = "cell"
  <2>1. it.id \in Int
    BY <1>1, IntAssumption DEF Items
  <2> QED  BY <1>1, <2>1, CutNarrow DEF Fits, LookupKey, SessionKey, SessionTech, Keys
<1>2. CASE it.kind # "cell"
  BY <1>2 DEF Items, Fits, LookupKey, SessionKey, Keys
<1> QED
  BY <1>1, <1>2

LEMMA KeysOfType ==
    ASSUME NEW items \in Seq(Items)
    PROVE  KeysOf(items) \subseteq Keys
BY KeyTypes, ElementOfSeq, LenProperties DEF KeysOf

LEMMA RequestTypes ==
    ASSUME NEW q \in Requests
    PROVE  /\ q.kind \in {"update", "locate"} /\ q.items \in Seq(Items)
           /\ q.session \in Sessions \cup {None}
           /\ q.kind = "locate" => q.session # None
           /\ q.kind = "update" => q.at \in Coords /\ q.metro \in BOOLEAN /\ q.items # <<>>
BY RequestAssumption, SomeAssumption

LEMMA ItemTypes ==
    ASSUME NEW items \in Seq(Items), NEW j \in DOMAIN items
    PROVE  items[j] \in Items
BY ElementOfSeq, LenProperties

LEMMA PointItems ==
    ASSUME points \in Seq(Points), NEW q \in DOMAIN points
    PROVE  /\ points[q].items \in Seq(Items)
           /\ \A j \in DOMAIN points[q].items : j \in Nat /\ j >= 1
<1>1. points[q] \in Points
  BY ElementOfSeq, LenProperties
<1>2. points[q].items \in Seq(Items)
  BY <1>1 DEF Points
<1> QED
  BY <1>2, LenProperties

\* What a client sees of the others' steps: more rows.
LEMMA ClientFrame ==
    ASSUME NEW c \in Clients, ClientInv(c), updateDB \subseteq updateDB',
           step'[c] = step[c], sent'[c] = sent[c], found'[c] = found[c], next'[c] = next[c]
    PROVE  ClientInv(c)'
BY DEF ClientInv, StoredItem

LEMMA ClientsFrame ==
    ASSUME ClientsInv, updateDB \subseteq updateDB', UNCHANGED <<step, sent, found, next>>
    PROVE  ClientsInv'
BY ClientFrame DEF ClientsInv

-----------------------------------------------------------------------------
(* Requests                                                                *)

LEMMA DisturbType ==
    ASSUME RefreshesOK, NEW keys \in SUBSET Keys, NEW others, Disturb(keys, others),
           UNCHANGED refreshVars
    PROVE  RefreshesOK'
<1>1. disturbed' \in [Admins -> SUBSET Keys]
  BY DEF RefreshesOK, Disturb
<1> QED
  BY <1>1 DEF RefreshesOK, refreshVars

LEMMA RefreshesFrame ==
    ASSUME RefreshesOK, UNCHANGED refreshVars, UNCHANGED disturbed
    PROVE  RefreshesOK'
BY DEF RefreshesOK, refreshVars

LEMMA FaultType == ASSUME faults \in Nat, Fault PROVE faults' \in Nat
BY DEF Fault

LEMMA ReceiveStep ==
    ASSUME TypeOK, ClientsInv, NEW c \in Clients, NEW q \in Requests, Receive(c, q)
    PROVE  TypeOK' /\ ClientsInv'
<1>1. RequestsOK'
  <2>1. /\ step' \in [Clients -> {"idle", "session", "search", "point", "insert", "ok", "failed"}]
        /\ sent' \in [Clients -> Requests] /\ next' \in [Clients -> Nat \ {0}]
    BY DEF TypeOK, RequestsOK, Receive, Goto
  <2> QED  BY <2>1 DEF TypeOK, RequestsOK, Receive
<1>2. TablesOK' /\ RefreshesOK'
  BY RefreshesFrame DEF TypeOK, TablesOK, Receive
<1>3. ASSUME NEW d \in Clients PROVE ClientInv(d)'
  <2>1. CASE d = c
    <3>1. sent'[c] = q /\ next'[c] = 1
          /\ step'[c] = IF q.session = None THEN "insert" ELSE "session"
      BY DEF Receive, Goto, TypeOK, RequestsOK
    <3>2. CASE q.session = None
      <4>1. step'[c] = "insert" /\ q.kind = "update" /\ q.items \in Seq(Items) /\ q.items # <<>>
        BY <3>1, <3>2, RequestTypes
      <4>2. 1 \in DOMAIN q.items /\ \A j \in DOMAIN q.items : ~(j < 1)
        BY <4>1, EmptySeq, LenProperties
      <4> QED  BY <2>1, <3>1, <4>1, <4>2 DEF ClientInv
    <3>3. CASE q.session # None
      BY <2>1, <3>1, <3>3 DEF ClientInv
    <3> QED  BY <3>2, <3>3
  <2>2. CASE d # c
    BY <2>2, ClientFrame DEF ClientsInv, Receive, Goto, TypeOK, RequestsOK
  <2> QED  BY <2>1, <2>2
<1> QED
  BY <1>1, <1>2, <1>3 DEF TypeOK, ClientsInv

\* Queries that only move a request on: what they leave alone, and what is
\* left to show about the client itself.
LEMMA MoveOn ==
    ASSUME TypeOK, ClientsInv, NEW c \in Clients,
           NEW s \in {"idle", "session", "search", "point", "insert", "ok", "failed"}, Goto(c, s),
           UNCHANGED <<sent, next>>, found' \in [Clients -> Coords \cup {None}],
           \A d \in Clients \ {c} : found'[d] = found[d],
           faults' \in Nat, UNCHANGED sends, updateDB \subseteq updateDB',
           ClientInv(c)'
    PROVE  RequestsOK' /\ ClientsInv'
<1>1. step'[c] = s /\ \A d \in Clients \ {c} : step'[d] = step[d]
  BY DEF Goto, TypeOK, RequestsOK
<1>2. step' \in [Clients -> {"idle", "session", "search", "point", "insert", "ok", "failed"}]
  BY DEF Goto, TypeOK, RequestsOK
<1>3. RequestsOK'
  BY <1>2 DEF TypeOK, RequestsOK
<1>4. ASSUME NEW d \in Clients PROVE ClientInv(d)'
  BY <1>1, ClientFrame DEF ClientsInv
<1> QED
  BY <1>3, <1>4 DEF ClientsInv

LEMMA CreateStep ==
    ASSUME TypeOK, ClientsInv, NEW c \in Clients, CreateIfNotExists(c)
    PROVE  TypeOK' /\ ClientsInv'
<1>1. sent[c] \in Requests /\ step[c] = "session" /\ sent[c].session # None /\ next[c] = 1
  BY DEF TypeOK, RequestsOK, ClientsInv, ClientInv, CreateIfNotExists
<1>2. known' \subseteq Sessions /\ faults' \in Nat
  <2>1. sent[c].session \in Sessions
    BY <1>1, RequestTypes
  <2> QED  BY <2>1 DEF CreateIfNotExists, Fault, TypeOK, TablesOK, RequestsOK
<1>3. TablesOK' /\ RefreshesOK'
  BY <1>2, RefreshesFrame DEF TypeOK, TablesOK, CreateIfNotExists
<1>4. PICK s \in {"point", "search"} :
          Goto(c, s) /\ s = IF sent[c].kind = "update" THEN "point" ELSE "search"
  BY DEF CreateIfNotExists
<1>5. step'[c] = s
  BY <1>4 DEF Goto, TypeOK, RequestsOK
<1>6. ClientInv(c)'
  BY <1>1, <1>4, <1>5, RequestTypes DEF CreateIfNotExists, ClientInv
<1>7. RequestsOK' /\ ClientsInv'
  BY <1>2, <1>4, <1>6, MoveOn DEF CreateIfNotExists, TypeOK, RequestsOK
<1> QED
  BY <1>3, <1>7 DEF TypeOK

LEMMA SearchStep ==
    ASSUME TypeOK, ClientsInv, NEW c \in Clients, Search(c) \/ SearchFails(c)
    PROVE  TypeOK' /\ ClientsInv'
<1>1. /\ step[c] = "search" /\ sent[c].session # None /\ next[c] = 1 /\ sent[c].kind = "locate"
      /\ sent[c] \in Requests
  BY DEF TypeOK, RequestsOK, ClientsInv, ClientInv, Search, SearchFails
<1>2. TablesOK' /\ RefreshesOK'
  BY RefreshesFrame DEF TypeOK, TablesOK, Search, SearchFails
<1>3. faults' \in Nat /\ UNCHANGED <<sent, next, updateDB, sends>>
  BY FaultType DEF TypeOK, RequestsOK, Search, SearchFails
<1>4. \/ \E at \in Coords : found' = [found EXCEPT ![c] = at] /\ Goto(c, "point")
      \/ found' = found /\ Goto(c, "ok")
      \/ found' = found /\ Goto(c, "failed")
  <2>1. CASE SearchFails(c)
    BY <2>1 DEF SearchFails
  <2>2. CASE Search(c)
    <3>1. CASE Goto(c, "ok") /\ UNCHANGED found
      BY <3>1
    <3>2. CASE \E j \in DOMAIN sent[c].items :
                 /\ Fits(sent[c].items[j]) /\ locateDB[LookupKey(sent[c].items[j])] # None
                 /\ found' = [found EXCEPT ![c] = locateDB[LookupKey(sent[c].items[j])].at]
                 /\ Goto(c, "point")
      <4>1. PICK j \in DOMAIN sent[c].items :
                 /\ Fits(sent[c].items[j]) /\ locateDB[LookupKey(sent[c].items[j])] # None
                 /\ found' = [found EXCEPT ![c] = locateDB[LookupKey(sent[c].items[j])].at]
                 /\ Goto(c, "point")
        BY <3>2
      <4>2. LookupKey(sent[c].items[j]) \in Keys
        BY <1>1, <4>1, RequestTypes, ItemTypes, KeyTypes
      <4>3. locateDB[LookupKey(sent[c].items[j])].at \in Coords
        BY <4>1, <4>2 DEF TypeOK, TablesOK
      <4> QED  BY <4>1, <4>3
    <3> QED  BY <2>2, <3>1, <3>2 DEF Search
  <2> QED  BY <2>1, <2>2
<1>5. /\ found' \in [Clients -> Coords \cup {None}]
      /\ \A d \in Clients \ {c} : found'[d] = found[d]
  BY <1>4 DEF TypeOK, RequestsOK
<1>6. PICK s \in {"point", "ok", "failed"} : Goto(c, s) /\ (s = "point" => found'[c] # None)
  BY <1>4, SomeAssumption DEF TypeOK, RequestsOK
<1>7. step'[c] = s
  BY <1>6 DEF Goto, TypeOK, RequestsOK
<1>8. ClientInv(c)'
  BY <1>1, <1>3, <1>6, <1>7 DEF ClientInv
<1>9. RequestsOK' /\ ClientsInv'
  BY <1>3, <1>5, <1>6, <1>8, MoveOn
<1> QED
  BY <1>2, <1>9 DEF TypeOK

LEMMA SavePointStep ==
    ASSUME TypeOK, ClientsInv, NEW c \in Clients, SavePoint(c) \/ SavePointFails(c)
    PROVE  TypeOK' /\ ClientsInv'
<1>1. /\ step[c] = "point" /\ sent[c].session # None /\ next[c] = 1
      /\ sent[c].kind = "update" \/ found[c] # None
      /\ sent[c] \in Requests
  BY DEF TypeOK, RequestsOK, ClientsInv, ClientInv, SavePoint, SavePointFails
<1>2. /\ sent[c].items \in Seq(Items) /\ sent[c].session \in Sessions
      /\ sent[c].kind = "update" => sent[c].items # <<>> /\ sent[c].at \in Coords
  BY <1>1, RequestTypes
<1>3. TablesOK' /\ RefreshesOK'
  <2>1. CASE SavePointFails(c)
    BY <2>1, RefreshesFrame DEF TypeOK, TablesOK, SavePointFails
  <2>2. CASE SavePoint(c)
    <3> DEFINE at == IF sent[c].kind = "update" THEN sent[c].at ELSE found[c]
               new == [session |-> sent[c].session, at |-> at, items |-> sent[c].items]
    <3>1. points' = Append(points, new)
      BY <2>2 DEF SavePoint
    <3>2. at \in Coords
      BY <1>1, <1>2 DEF TypeOK, RequestsOK
    <3>3. new \in Points
      BY <1>2, <3>2 DEF Points
    <3> HIDE DEF at, new
    <3>4. points' \in Seq(Points)
      BY <3>1, <3>3 DEF TypeOK, TablesOK
    <3>5. TablesOK'
      BY <2>2, <3>4 DEF SavePoint, TypeOK, TablesOK
    <3>6. KeysOf(sent[c].items) \in SUBSET Keys
      BY <1>2, KeysOfType
    <3>7. RefreshesOK'
      BY <2>2, <3>6, DisturbType DEF SavePoint, TypeOK
    <3> QED  BY <3>5, <3>7
  <2> QED  BY <2>1, <2>2
<1>4. PICK s \in {"insert", "ok"} :
          Goto(c, s) /\ s = IF sent[c].kind = "update" THEN "insert" ELSE "ok"
  BY DEF SavePoint, SavePointFails, AfterPoint
<1>5. step'[c] = s
  BY <1>4 DEF Goto, TypeOK, RequestsOK
<1>6. faults' \in Nat /\ UNCHANGED <<sent, found, next, updateDB, sends>>
  BY FaultType DEF SavePoint, SavePointFails, TypeOK, RequestsOK
<1>7. ClientInv(c)'
  <2>1. CASE s = "insert"
    <3>1. sent[c].kind = "update" /\ sent[c].items # <<>>
      BY <1>2, <1>4, <2>1
    <3>2. 1 \in DOMAIN sent[c].items /\ \A j \in DOMAIN sent[c].items : ~(j < 1)
      BY <1>2, <3>1, EmptySeq, LenProperties
    <3> QED  BY <1>1, <1>5, <1>6, <2>1, <3>1, <3>2 DEF ClientInv
  <2>2. CASE s = "ok"
    BY <1>4, <1>5, <1>6, <2>2 DEF ClientInv
  <2> QED  BY <2>1, <2>2
<1>8. RequestsOK' /\ ClientsInv'
  BY <1>4, <1>6, <1>7, MoveOn DEF TypeOK, RequestsOK
<1> QED
  BY <1>3, <1>8 DEF TypeOK

LEMMA InsertStep ==
    ASSUME TypeOK, ClientsInv, NEW c \in Clients, Insert(c)
    PROVE  TypeOK' /\ ClientsInv'
<1> DEFINE it  == sent[c].items[next[c]]
           row == [key |-> LookupKey(it), at |-> sent[c].at,
                   metro |-> it.kind = "cell" /\ sent[c].metro]
<1>1. /\ step[c] = "insert" /\ sent[c] \in Requests /\ sent[c].kind = "update"
      /\ next[c] \in DOMAIN sent[c].items
      /\ \A j \in DOMAIN sent[c].items : j < next[c] => StoredItem(c, j)
  BY DEF TypeOK, RequestsOK, ClientsInv, ClientInv, Insert
<1>2. /\ sent[c].items \in Seq(Items) /\ it \in Items
      /\ sent[c].at \in Coords /\ sent[c].metro \in BOOLEAN
  BY <1>1, RequestTypes, ItemTypes
<1>3. /\ Fits(it) /\ AfterInsert(c)
      /\ updateDB' = IF it.kind = "cell" /\ \E old \in updateDB : old.key = row.key
                     THEN updateDB ELSE updateDB \cup {row}
      /\ UNCHANGED <<sent, found, known, points, locateDB, refreshVars, sends, faults, disturbed>>
  BY DEF Insert
<1>4. row \in Rows
  BY <1>2, <1>3, KeyTypes DEF Rows
<1>5. row.key = LookupKey(it) /\ row.at = sent[c].at
  OBVIOUS
<1> HIDE DEF row
<1>6. updateDB \subseteq updateDB' /\ updateDB' \subseteq Rows
  BY <1>3, <1>4 DEF TypeOK, TablesOK
<1>7. TablesOK' /\ RefreshesOK'
  BY <1>3, <1>6, RefreshesFrame DEF TypeOK, TablesOK
<1>8. \E new \in updateDB' : new.key = LookupKey(it) /\ (it.kind # "cell" => new.at = sent[c].at)
  BY <1>3, <1>5
<1>9. \A j \in DOMAIN sent[c].items : j < next[c] \/ j = next[c] => StoredItem(c, j)'
  BY <1>1, <1>3, <1>6, <1>8 DEF StoredItem
<1>10. next[c] \in 1..Len(sent[c].items) /\ DOMAIN sent[c].items = 1..Len(sent[c].items)
       /\ Len(sent[c].items) \in Nat
  BY <1>1, <1>2, LenProperties
<1>11. CASE next[c] = Len(sent[c].items)
  <2>1. Goto(c, "ok") /\ UNCHANGED next
    BY <1>3, <1>11 DEF AfterInsert
  <2>2. step'[c] = "ok"
    BY <2>1 DEF Goto, TypeOK, RequestsOK
  <2>3. \A j \in DOMAIN sent[c].items : StoredItem(c, j)'
    BY <1>9, <1>10, <1>11
  <2>4. ClientInv(c)'
    BY <1>3, <2>2, <2>3 DEF ClientInv
  <2>5. RequestsOK' /\ ClientsInv'
    BY <1>3, <1>6, <2>1, <2>4, MoveOn DEF TypeOK, RequestsOK
  <2> QED  BY <1>7, <2>5 DEF TypeOK
<1>12. CASE next[c] # Len(sent[c].items)
  <2>1. next' = [next EXCEPT ![c] = next[c] + 1] /\ UNCHANGED step
    BY <1>3, <1>12 DEF AfterInsert
  <2>2. RequestsOK'
    BY <1>3, <2>1 DEF TypeOK, RequestsOK
  <2>3. /\ next'[c] = next[c] + 1 /\ next'[c] \in DOMAIN sent[c].items
        /\ \A d \in Clients \ {c} : next'[d] = next[d]
    BY <1>10, <1>12, <2>1 DEF TypeOK, RequestsOK
  <2>4. \A j \in DOMAIN sent[c].items : j < next'[c] => StoredItem(c, j)'
    BY <1>9, <1>10, <2>3
  <2>5. ClientInv(c)'
    BY <1>1, <1>3, <2>1, <2>3, <2>4 DEF ClientInv
  <2>6. \A d \in Clients \ {c} : ClientInv(d)'
    BY <1>3, <1>6, <2>1, <2>3, ClientFrame DEF ClientsInv
  <2> QED  BY <1>7, <2>2, <2>5, <2>6 DEF TypeOK, ClientsInv
<1> QED
  BY <1>11, <1>12

LEMMA InsertFailsStep ==
    ASSUME TypeOK, ClientsInv, NEW c \in Clients, InsertFails(c)
    PROVE  TypeOK' /\ ClientsInv'
<1>1. TablesOK' /\ RefreshesOK'
  BY RefreshesFrame DEF TypeOK, TablesOK, InsertFails, InsertFault
<1>2. faults' \in Nat /\ UNCHANGED <<sent, found, next, updateDB, sends>> /\ Goto(c, "failed")
  BY FaultType DEF InsertFails, InsertFault, TypeOK, RequestsOK
<1>3. step'[c] = "failed"
  BY <1>2 DEF Goto, TypeOK, RequestsOK
<1>4. ClientInv(c)'
  BY <1>3 DEF ClientInv
<1>5. RequestsOK' /\ ClientsInv'
  BY <1>2, <1>4, MoveOn DEF TypeOK, RequestsOK
<1> QED
  BY <1>1, <1>5 DEF TypeOK

LEMMA DieStep ==
    ASSUME TypeOK, ClientsInv, Die
    PROVE  TypeOK' /\ ClientsInv'
<1>1. /\ step' = [c \in Clients |-> IF step[c] \in {"idle", "ok"} THEN step[c] ELSE "failed"]
      /\ phase' = [r \in Admins |-> "idle"] /\ faults' \in Nat
      /\ UNCHANGED <<sent, found, next, known, points, updateDB, locateDB, of, snap, point, item,
                     sends, disturbed>>
  BY FaultType DEF Die, TypeOK, RequestsOK
<1>2. RequestsOK'
  BY <1>1 DEF TypeOK, RequestsOK
<1>3. TablesOK'
  BY <1>1 DEF TypeOK, TablesOK
<1>4. RefreshesOK'
  BY <1>1 DEF TypeOK, RefreshesOK
<1>5. ASSUME NEW c \in Clients PROVE ClientInv(c)'
  <2>1. CASE step[c] \in {"idle", "ok"}
    BY <1>1, <2>1, ClientFrame DEF ClientsInv
  <2>2. CASE step[c] \notin {"idle", "ok"}
    BY <1>1, <2>2 DEF ClientInv
  <2> QED  BY <2>1, <2>2
<1> QED
  BY <1>2, <1>3, <1>4, <1>5 DEF TypeOK, ClientsInv

-----------------------------------------------------------------------------
(* Refreshes and what goes on beside them                                  *)

LEMMA KeysOfFact ==
    ASSUME NEW items, NEW k
    PROVE  k \in KeysOf(items) <=>
               \E j \in DOMAIN items : ~Skipped(items[j]) /\ SessionKey(items[j]) = k
BY DEF KeysOf

LEMMA WrittenListed ==
    ASSUME NEW r \in Admins, NEW q, NEW k, Written(r, q, k)
    PROVE  k \in KeysOf(points[q].items)
BY KeysOfFact DEF Written

\* Steps that leave r where it is, and change no row and no listing of a key
\* without disturbing it.
LEMMA RefreshFrame ==
    ASSUME NEW r \in Admins, SnapInv(r), WrittenInv(r), points \in Seq(Points),
           points' \in Seq(Points), snap[r] \in Seq(Points),
           phase'[r] = phase[r], of'[r] = of[r], snap'[r] = snap[r],
           point'[r] = point[r], item'[r] = item[r],
           disturbed[r] \subseteq disturbed'[r],
           Len(points) <= Len(points'),
           \A q \in DOMAIN points : /\ points'[q].session = points[q].session
                                    /\ points'[q].items = points[q].items,
           \A k \in Keys \ disturbed'[r] :
               /\ locateDB'[k] = locateDB[k]
               /\ \A q \in DOMAIN points' :
                     points'[q].session = of[r] /\ k \in KeysOf(points'[q].items) =>
                         q \in DOMAIN points /\ points'[q] = points[q]
    PROVE  SnapInv(r)' /\ WrittenInv(r)'
<1>1. /\ DOMAIN points = 1..Len(points) /\ DOMAIN points' = 1..Len(points')
      /\ DOMAIN snap[r] = 1..Len(snap[r])
      /\ Len(points) \in Nat /\ Len(points') \in Nat /\ Len(snap[r]) \in Nat
  BY LenProperties
<1>2. DOMAIN points \subseteq DOMAIN points'
  BY <1>1
<1>3. SnapInv(r)'
  <2> SUFFICES ASSUME phase[r] = "running"
               PROVE  /\ Len(snap[r]) <= Len(points') /\ point[r] <= Len(snap[r]) + 1
                      /\ \A q \in DOMAIN snap[r] : /\ snap[r][q].session = points'[q].session
                                                  /\ snap[r][q].items = points'[q].items
                      /\ \A k \in Keys \ disturbed'[r], q \in DOMAIN points' :
                            points'[q].session = of[r] /\ k \in KeysOf(points'[q].items) =>
                                q \in DOMAIN snap[r] /\ snap[r][q].at = points'[q].at
    BY DEF SnapInv
  <2>1. /\ Len(snap[r]) <= Len(points) /\ point[r] <= Len(snap[r]) + 1
        /\ \A q \in DOMAIN snap[r] : /\ snap[r][q].session = points[q].session
                                    /\ snap[r][q].items = points[q].items
        /\ \A k \in Keys \ disturbed[r], q \in DOMAIN points :
              points[q].session = of[r] /\ k \in KeysOf(points[q].items) =>
                  q \in DOMAIN snap[r] /\ snap[r][q].at = points[q].at
    BY DEF SnapInv
  <2>2. Len(snap[r]) <= Len(points') /\ DOMAIN snap[r] \subseteq DOMAIN points
    BY <1>1, <2>1
  <2>3. \A q \in DOMAIN snap[r] : /\ snap[r][q].session = points'[q].session
                                  /\ snap[r][q].items = points'[q].items
    BY <2>1, <2>2
  <2>4. ASSUME NEW k \in Keys \ disturbed'[r], NEW q \in DOMAIN points',
               points'[q].session = of[r], k \in KeysOf(points'[q].items)
        PROVE  q \in DOMAIN snap[r] /\ snap[r][q].at = points'[q].at
    <3>1. k \in Keys \ disturbed[r] /\ q \in DOMAIN points /\ points'[q] = points[q]
      BY <2>4
    <3>2. points[q].session = of[r] /\ k \in KeysOf(points[q].items)
      BY <2>4, <3>1
    <3>3. q \in DOMAIN snap[r] /\ snap[r][q].at = points[q].at
      BY <2>1, <3>1, <3>2
    <3> QED  BY <3>1, <3>3
  <2> QED  BY <2>1, <2>2, <2>3, <2>4
<1>4. ASSUME NEW q \in DOMAIN points, NEW k PROVE Written(r, q, k)' <=> Written(r, q, k)
  BY DEF Written, Past
<1>5. ASSUME NEW k \in Keys \ disturbed'[r], NEW q \in DOMAIN points',
             points'[q].session = of[r], Written(r, q, k)',
             \A later \in DOMAIN points' :
                 later > q /\ points'[later].session = of[r] => ~Written(r, later, k)'
      PROVE  locateDB'[k] = [at |-> points'[q].at, metro |-> FALSE]
  <2>1. k \in KeysOf(points'[q].items)
    BY <1>5, KeysOfFact DEF Written
  <2>2. k \in Keys \ disturbed[r] /\ q \in DOMAIN points /\ points'[q] = points[q]
    BY <1>5, <2>1
  <2>3. Written(r, q, k)
    BY <1>4, <1>5, <2>2
  <2>4. \A later \in DOMAIN points :
            later > q /\ points[later].session = of[r] => ~Written(r, later, k)
    BY <1>2, <1>4, <1>5
  <2>5. locateDB[k] = [at |-> points[q].at, metro |-> FALSE]
    BY <1>5, <2>2, <2>3, <2>4 DEF WrittenInv
  <2> QED  BY <1>5, <2>2, <2>5
<1>6. WrittenInv(r)'
  BY <1>5 DEF WrittenInv
<1> QED
  BY <1>3, <1>6

\* Requests and steps of other administrators that touch none of it.
LEMMA AdminsFrame ==
    ASSUME TypeOK, AdminsInv, UNCHANGED <<points, locateDB, refreshVars, disturbed>>
    PROVE  AdminsInv'
<1> SUFFICES ASSUME NEW r \in Admins PROVE SnapInv(r)' /\ WrittenInv(r)'
  BY DEF AdminsInv
<1>1. SnapInv(r) /\ WrittenInv(r) /\ points \in Seq(Points) /\ snap[r] \in Seq(Points)
  BY DEF AdminsInv, TypeOK, TablesOK, RefreshesOK
<1>2. Len(points) \in Nat
  BY <1>1, LenProperties
<1> QED
  BY <1>1, <1>2, RefreshFrame DEF refreshVars

LEMMA SavePointBeside ==
    ASSUME IInv, NEW c \in Clients, SavePoint(c)
    PROVE  AdminsInv'
<1> DEFINE q0 == sent[c]
           at == IF q0.kind = "update" THEN q0.at ELSE found[c]
           new == [session |-> q0.session, at |-> at, items |-> q0.items]
<1>1. /\ points' = Append(points, new) /\ UNCHANGED <<locateDB, refreshVars>>
      /\ Disturb(KeysOf(q0.items), Readers(q0.session))
  BY DEF SavePoint
<1>2. new.session = q0.session /\ new.items = q0.items
  OBVIOUS
<1> HIDE DEF new
<1>3. points \in Seq(Points) /\ points' \in Seq(Points)
  BY SavePointStep DEF IInv, TypeOK, TablesOK
<1>4. /\ Len(points') = Len(points) + 1 /\ Len(points) \in Nat
      /\ DOMAIN points = 1..Len(points) /\ DOMAIN points' = 1..Len(points')
      /\ \A q \in DOMAIN points : points'[q] = points[q]
      /\ points'[Len(points) + 1] = new
  BY <1>1, <1>3
<1> SUFFICES ASSUME NEW r \in Admins PROVE SnapInv(r)' /\ WrittenInv(r)'
  BY DEF AdminsInv
<1>5. /\ SnapInv(r) /\ WrittenInv(r) /\ snap[r] \in Seq(Points)
      /\ disturbed'[r] = IF of[r] = q0.session THEN disturbed[r] \cup KeysOf(q0.items)
                                               ELSE disturbed[r]
  BY <1>1 DEF IInv, AdminsInv, TypeOK, RefreshesOK, Disturb, Readers
<1>6. ASSUME NEW k \in Keys \ disturbed'[r], NEW q \in DOMAIN points',
             points'[q].session = of[r], k \in KeysOf(points'[q].items)
      PROVE  q \in DOMAIN points /\ points'[q] = points[q]
  <2>1. q # Len(points) + 1
    BY <1>2, <1>4, <1>5, <1>6
  <2> QED  BY <1>4, <2>1
<1>7. /\ phase'[r] = phase[r] /\ of'[r] = of[r] /\ snap'[r] = snap[r]
      /\ point'[r] = point[r] /\ item'[r] = item[r]
      /\ disturbed[r] \subseteq disturbed'[r] /\ Len(points) <= Len(points')
  BY <1>1, <1>4, <1>5 DEF refreshVars
<1> QED
  BY <1>1, <1>3, <1>4, <1>5, <1>6, <1>7, RefreshFrame

LEMMA RequestStep ==
    ASSUME IInv, NEW c \in Clients, Request(c)
    PROVE  IInv'
<1>1. TypeOK /\ ClientsInv
  BY DEF IInv
<1>2. TypeOK' /\ ClientsInv'
  BY <1>1, ReceiveStep, CreateStep, SearchStep, SavePointStep, InsertStep, InsertFailsStep DEF Request
<1>3. AdminsInv'
  <2>1. CASE SavePoint(c)
    BY <2>1, SavePointBeside
  <2>2. CASE UNCHANGED <<points, locateDB, refreshVars, disturbed>>
    BY <1>1, <2>2, AdminsFrame DEF IInv
  <2> QED
    BY <2>1, <2>2 DEF Request, Receive, CreateIfNotExists, Search, SearchFails, SavePointFails,
                      Insert, InsertFails, InsertFault
<1> QED
  BY <1>2, <1>3 DEF IInv

LEMMA UpdatePointStep ==
    ASSUME IInv, NEW p \in DOMAIN points, NEW at \in Coords, UpdatePoint(p, at)
    PROVE  IInv'
<1>1. /\ points \in Seq(Points) /\ points[p] \in Points /\ p \in 1..Len(points)
      /\ DOMAIN points = 1..Len(points) /\ Len(points) \in Nat
  BY ElementOfSeq, LenProperties DEF IInv, TypeOK, TablesOK
<1> DEFINE new == [points[p] EXCEPT !.at = at]
<1>2. /\ new \in Points /\ new.session = points[p].session /\ new.items = points[p].items
  BY <1>1 DEF Points
<1>3. /\ points' = [points EXCEPT ![p] = new]
      /\ Disturb(KeysOf(points[p].items), Readers(points[p].session))
      /\ UNCHANGED <<requestVars, updateDB, locateDB, refreshVars, sends, faults>>
  BY DEF UpdatePoint
<1> HIDE DEF new
<1>4. /\ points' \in Seq(Points) /\ Len(points') = Len(points)
      /\ \A q \in 1..Len(points) : points'[q] = IF q = p THEN new ELSE points[q]
  BY <1>1, <1>2, <1>3, ExceptSeq
<1>5. DOMAIN points' = DOMAIN points
  BY <1>1, <1>4, LenProperties
<1>6. TypeOK' /\ ClientsInv'
  <2>1. RequestsOK'
    BY <1>3 DEF IInv, TypeOK, RequestsOK, requestVars
  <2>2. TablesOK'
    BY <1>3, <1>4 DEF IInv, TypeOK, TablesOK, requestVars
  <2>3. points[p].items \in Seq(Items)
    BY <1>1 DEF Points
  <2>4. RefreshesOK'
    BY <1>3, <2>3, KeysOfType, DisturbType DEF IInv, TypeOK
  <2> QED  BY <1>3, <2>1, <2>2, <2>4, ClientsFrame DEF IInv, TypeOK, requestVars
<1>7. ASSUME NEW r \in Admins PROVE SnapInv(r)' /\ WrittenInv(r)'
  <2>1. /\ SnapInv(r) /\ WrittenInv(r) /\ snap[r] \in Seq(Points)
        /\ disturbed'[r] = IF of[r] = points[p].session
                           THEN disturbed[r] \cup KeysOf(points[p].items) ELSE disturbed[r]
    BY <1>3 DEF IInv, AdminsInv, TypeOK, RefreshesOK, Disturb, Readers
  <2>2. \A q \in DOMAIN points : /\ points'[q].session = points[q].session
                                 /\ points'[q].items = points[q].items
    BY <1>1, <1>2, <1>4
  <2>3. ASSUME NEW k \in Keys \ disturbed'[r], NEW q \in DOMAIN points',
               points'[q].session = of[r], k \in KeysOf(points'[q].items)
        PROVE  q \in DOMAIN points /\ points'[q] = points[q]
    <3>1. q \in DOMAIN points /\ points[q].session = of[r] /\ k \in KeysOf(points[q].items)
      BY <1>5, <2>2, <2>3
    <3>2. q # p
      BY <2>1, <2>3, <3>1
    <3> QED  BY <1>1, <1>4, <3>1, <3>2
  <2>4. /\ phase'[r] = phase[r] /\ of'[r] = of[r] /\ snap'[r] = snap[r]
        /\ point'[r] = point[r] /\ item'[r] = item[r]
        /\ disturbed[r] \subseteq disturbed'[r] /\ Len(points) <= Len(points')
    BY <1>1, <1>3, <1>4, <2>1 DEF refreshVars
  <2> QED  BY <1>1, <1>3, <1>4, <2>1, <2>2, <2>3, <2>4, RefreshFrame
<1> QED
  BY <1>6, <1>7 DEF IInv, AdminsInv

LEMMA CopyStep ==
    ASSUME IInv, NEW row \in updateDB, Copy(row)
    PROVE  IInv'
<1>1. /\ row \in Rows /\ row.key \in Keys /\ TypeOK
      /\ [at |-> row.at, metro |-> row.metro] \in [at : Coords, metro : BOOLEAN]
  BY DEF IInv, TypeOK, TablesOK, Rows
<1> DEFINE entry == [at |-> row.at, metro |-> row.metro]
<1>2. /\ locateDB' = [locateDB EXCEPT ![row.key] = entry] /\ Disturb({row.key}, Admins)
      /\ UNCHANGED <<requestVars, points, updateDB, refreshVars, sends, faults>>
  BY DEF Copy
<1>3. /\ locateDB'[row.key] = entry
      /\ \A k \in Keys \ {row.key} : locateDB'[k] = locateDB[k]
  BY <1>1, <1>2 DEF TypeOK, TablesOK
<1>4. TypeOK' /\ ClientsInv'
  <2>1. RequestsOK'
    BY <1>2 DEF IInv, TypeOK, RequestsOK, requestVars
  <2>2. locateDB' \in [Keys -> [at : Coords, metro : BOOLEAN] \cup {None}]
    BY <1>1, <1>2 DEF TypeOK, TablesOK
  <2>3. TablesOK'
    BY <1>2, <2>2 DEF IInv, TypeOK, TablesOK, requestVars
  <2>4. RefreshesOK'
    BY <1>1, <1>2, DisturbType DEF TypeOK
  <2> QED  BY <1>2, <2>1, <2>3, <2>4, ClientsFrame DEF IInv, TypeOK, requestVars
<1>5. ASSUME NEW r \in Admins PROVE SnapInv(r)' /\ WrittenInv(r)'
  <2>1. /\ SnapInv(r) /\ WrittenInv(r) /\ points \in Seq(Points) /\ snap[r] \in Seq(Points)
        /\ disturbed'[r] = disturbed[r] \cup {row.key}
    BY <1>2 DEF IInv, AdminsInv, TypeOK, TablesOK, RefreshesOK, Disturb
  <2>2. Len(points) \in Nat
    BY <2>1, LenProperties
  <2>3. \A k \in Keys \ disturbed'[r] : locateDB'[k] = locateDB[k]
    BY <1>3, <2>1
  <2>4. /\ phase'[r] = phase[r] /\ of'[r] = of[r] /\ snap'[r] = snap[r]
        /\ point'[r] = point[r] /\ item'[r] = item[r] /\ points' = points
        /\ disturbed[r] \subseteq disturbed'[r] /\ Len(points) <= Len(points')
    BY <1>2, <2>1, <2>2 DEF refreshVars
  <2> QED  BY <2>1, <2>3, <2>4, RefreshFrame
<1> QED
  BY <1>4, <1>5 DEF IInv, AdminsInv

LEMMA DieBeside ==
    ASSUME IInv, Die
    PROVE  IInv'
<1>1. TypeOK' /\ ClientsInv'
  BY DieStep DEF IInv
<1>2. \A r \in Admins : phase'[r] = "idle"
  BY DEF Die
<1>3. AdminsInv'
  BY <1>2 DEF AdminsInv, SnapInv, WrittenInv, Written
<1> QED
  BY <1>1, <1>3 DEF IInv

-----------------------------------------------------------------------------
(* The steps of a refresh                                                  *)

\* Another administrator's refresh sees at most a row it no longer counts.
LEMMA Bystander ==
    ASSUME IInv, NEW d \in Admins, points' = points,
           phase'[d] = phase[d], of'[d] = of[d], snap'[d] = snap[d],
           point'[d] = point[d], item'[d] = item[d],
           disturbed[d] \subseteq disturbed'[d],
           \A k \in Keys \ disturbed'[d] : locateDB'[k] = locateDB[k]
    PROVE  SnapInv(d)' /\ WrittenInv(d)'
<1>1. SnapInv(d) /\ WrittenInv(d) /\ points \in Seq(Points) /\ snap[d] \in Seq(Points)
  BY DEF IInv, AdminsInv, TypeOK, TablesOK, RefreshesOK
<1>2. Len(points) \in Nat
  BY <1>1, LenProperties
<1> QED
  BY <1>1, <1>2, RefreshFrame

\* What the state of a running refresh says of the point it is at.
LEMMA AtItemFact ==
    ASSUME IInv, NEW r \in Admins, AtItem(r)
    PROVE  /\ phase[r] = "running" /\ point[r] \in DOMAIN snap[r] /\ point[r] \in DOMAIN points
           /\ snap[r] \in Seq(Points) /\ points \in Seq(Points)
           /\ Here(r) = snap[r][point[r]] /\ Here(r).at \in Coords
           /\ Here(r).session = of[r] /\ points[point[r]].session = of[r]
           /\ points[point[r]].items = Here(r).items /\ Here(r).items \in Seq(Items)
           /\ item[r] \in DOMAIN Here(r).items /\ Here(r).items[item[r]] \in Items
<1>1. /\ phase[r] = "running" /\ point[r] <= Len(snap[r]) /\ Here(r).session = of[r]
      /\ item[r] <= Len(Here(r).items) /\ Here(r) = snap[r][point[r]]
  BY DEF AtItem, AtPoint, Here
<1>2. /\ snap[r] \in Seq(Points) /\ points \in Seq(Points)
      /\ point[r] \in Nat \ {0} /\ item[r] \in Nat \ {0}
  BY DEF IInv, TypeOK, TablesOK, RefreshesOK
<1>3. /\ DOMAIN snap[r] = 1..Len(snap[r]) /\ DOMAIN points = 1..Len(points)
      /\ Len(snap[r]) \in Nat /\ Len(points) \in Nat
  BY <1>2, LenProperties
<1>4. /\ Len(snap[r]) <= Len(points)
      /\ \A q \in DOMAIN snap[r] : /\ snap[r][q].session = points[q].session
                                  /\ snap[r][q].items = points[q].items
  BY <1>1 DEF IInv, AdminsInv, SnapInv
<1>5. point[r] \in DOMAIN snap[r] /\ point[r] \in DOMAIN points
  BY <1>1, <1>2, <1>3, <1>4
<1>6. Here(r) \in Points
  BY <1>1, <1>2, <1>3, <1>5, ElementOfSeq
<1>7. Here(r).items \in Seq(Items) /\ Here(r).at \in Coords
  BY <1>6 DEF Points
<1>8. item[r] \in DOMAIN Here(r).items
  BY <1>1, <1>2, <1>7, LenProperties
<1> QED
  BY <1>1, <1>2, <1>4, <1>5, <1>7, <1>8, ItemTypes

LEMMA BeginStep ==
    ASSUME IInv, NEW r \in Admins, NEW s \in Sessions, Begin(r, s)
    PROVE  IInv'
<1>1. /\ phase' = [phase EXCEPT ![r] = "running"] /\ of' = [of EXCEPT ![r] = s]
      /\ snap' = [snap EXCEPT ![r] = points] /\ point' = [point EXCEPT ![r] = 1]
      /\ item' = [item EXCEPT ![r] = 1] /\ disturbed' = [disturbed EXCEPT ![r] = {}]
      /\ UNCHANGED <<requestVars, points, updateDB, locateDB, sends, faults>>
  BY DEF Begin, Ordered
<1>2. RequestsOK' /\ TablesOK'
  BY <1>1 DEF IInv, TypeOK, RequestsOK, TablesOK, requestVars
<1>3. RefreshesOK'
  BY <1>1 DEF IInv, TypeOK, TablesOK, RefreshesOK
<1>4. ClientsInv'
  BY <1>1, ClientsFrame DEF IInv, requestVars
<1>5. /\ phase'[r] = "running" /\ snap'[r] = points /\ point'[r] = 1 /\ item'[r] = 1
      /\ points \in Seq(Points)
  BY <1>1 DEF IInv, TypeOK, TablesOK, RefreshesOK
<1>6. DOMAIN points = 1..Len(points) /\ Len(points) \in Nat
  BY <1>5, LenProperties
<1>7. SnapInv(r)'
  BY <1>1, <1>5, <1>6 DEF SnapInv
<1>8. ASSUME NEW q \in DOMAIN points, NEW k PROVE ~Written(r, q, k)'
  <2>1. \A j \in DOMAIN points[q].items : j \in Nat /\ j >= 1
    BY <1>5, PointItems
  <2> QED  BY <1>1, <1>5, <1>6, <2>1 DEF Written, Past
<1>9. WrittenInv(r)'
  BY <1>1, <1>8 DEF WrittenInv
<1>10. ASSUME NEW d \in Admins \ {r} PROVE SnapInv(d)' /\ WrittenInv(d)'
  <2>1. /\ phase'[d] = phase[d] /\ of'[d] = of[d] /\ snap'[d] = snap[d]
        /\ point'[d] = point[d] /\ item'[d] = item[d] /\ disturbed'[d] = disturbed[d]
    BY <1>1 DEF IInv, TypeOK, RefreshesOK
  <2> QED  BY <1>1, <2>1, Bystander
<1> QED
  BY <1>2, <1>3, <1>4, <1>7, <1>9, <1>10 DEF IInv, TypeOK, AdminsInv

\* A step within the snapshot: what it must leave alone, or have done.
LEMMA Advance ==
    ASSUME IInv, NEW r \in Admins, phase[r] = "running", point[r] <= Len(snap[r]),
           UNCHANGED <<requestVars, points, updateDB, phase, of, snap, sends>>,
           RequestsOK', locateDB' \in [Keys -> [at : Coords, metro : BOOLEAN] \cup {None}],
           point' \in [Admins -> Nat \ {0}], item' \in [Admins -> Nat \ {0}],
           disturbed' \in [Admins -> SUBSET Keys],
           point'[r] <= Len(snap[r]) + 1,
           \A d \in Admins \ {r} : point'[d] = point[d] /\ item'[d] = item[d],
           \A d \in Admins : disturbed[d] \subseteq disturbed'[d],
           \A d \in Admins \ {r} : \A k \in Keys \ disturbed'[d] : locateDB'[k] = locateDB[k],
           WrittenInv(r)'
    PROVE  IInv'
<1>1. TablesOK'
  BY DEF IInv, TypeOK, TablesOK, requestVars
<1>2. RefreshesOK'
  BY DEF IInv, TypeOK, RefreshesOK
<1>3. ClientsInv'
  BY ClientsFrame DEF IInv, requestVars
<1>4. SnapInv(r)'
  BY DEF IInv, AdminsInv, SnapInv
<1>5. ASSUME NEW d \in Admins \ {r} PROVE SnapInv(d)' /\ WrittenInv(d)'
  BY Bystander
<1> QED
  BY <1>1, <1>2, <1>3, <1>4, <1>5 DEF IInv, TypeOK, AdminsInv

\* When no undisturbed row changes and nothing more is dealt with.
LEMMA SameWritten ==
    ASSUME IInv, NEW r \in Admins, UNCHANGED <<points, of>>,
           disturbed[r] \subseteq disturbed'[r],
           \A k \in Keys \ disturbed'[r] : locateDB'[k] = locateDB[k],
           \A k \in Keys \ disturbed'[r], q \in DOMAIN points :
               points[q].session = of[r] => (Written(r, q, k)' <=> Written(r, q, k))
    PROVE  WrittenInv(r)'
BY DEF IInv, AdminsInv, WrittenInv

LEMMA NextPointStep ==
    ASSUME IInv, NEW r \in Admins, NextPoint(r)
    PROVE  IInv'
<1>1. /\ phase[r] = "running" /\ point[r] <= Len(snap[r])
      /\ snap[r][point[r]].session # of[r] \/ ~(item[r] <= Len(snap[r][point[r]].items))
      /\ point' = [point EXCEPT ![r] = point[r] + 1] /\ item' = [item EXCEPT ![r] = 1]
      /\ UNCHANGED <<requestVars, points, updateDB, locateDB, phase, of, snap, sends, faults,
                     disturbed>>
  BY DEF NextPoint, AtItem, AtPoint, Here
<1>2. /\ point[r] \in Nat \ {0} /\ item[r] \in Nat \ {0}
      /\ points \in Seq(Points) /\ snap[r] \in Seq(Points)
  BY DEF IInv, TypeOK, TablesOK, RefreshesOK
<1>3. point'[r] = point[r] + 1 /\ item'[r] = 1 /\ RequestsOK'
  BY <1>1 DEF IInv, TypeOK, RequestsOK, RefreshesOK, requestVars
<1>4. /\ point' \in [Admins -> Nat \ {0}] /\ item' \in [Admins -> Nat \ {0}]
      /\ \A d \in Admins \ {r} : point'[d] = point[d] /\ item'[d] = item[d]
  BY <1>1, <1>2 DEF IInv, TypeOK, RefreshesOK
<1>5. /\ \A q \in DOMAIN snap[r] : /\ snap[r][q].session = points[q].session
                                  /\ snap[r][q].items = points[q].items
      /\ DOMAIN snap[r] = 1..Len(snap[r]) /\ Len(snap[r]) \in Nat
      /\ DOMAIN points = 1..Len(points) /\ Len(points) \in Nat
  BY <1>1, <1>2, LenProperties DEF IInv, AdminsInv, SnapInv
<1>6. ASSUME NEW k \in Keys, NEW q \in DOMAIN points, points[q].session = of[r]
      PROVE  Written(r, q, k)' <=> Written(r, q, k)
  <2>1. ASSUME NEW j \in DOMAIN points[q].items, q \in DOMAIN snap[r]
        PROVE  Past(r, q, j)' <=> Past(r, q, j)
    <3>1. points[q].items \in Seq(Items)
      BY <1>2, PointItems
    <3>2. j \in 1..Len(points[q].items) /\ Len(points[q].items) \in Nat
      BY <2>1, <3>1, LenProperties
    <3>3. q = point[r] => Len(points[q].items) < item[r]
      BY <1>1, <1>2, <1>5, <1>6, <2>1, <3>2
    <3>4. q \in Nat /\ j \in Nat /\ 1 <= j
      BY <1>5, <3>2
    <3> QED  BY <1>2, <1>3, <3>2, <3>3, <3>4 DEF Past
  <2> QED  BY <1>1, <2>1 DEF Written
<1>7. WrittenInv(r)'
  BY <1>1, <1>6, SameWritten
<1>8. /\ locateDB \in [Keys -> [at : Coords, metro : BOOLEAN] \cup {None}]
      /\ disturbed \in [Admins -> SUBSET Keys]
  BY DEF IInv, TypeOK, TablesOK, RefreshesOK
<1>9. point'[r] <= Len(snap[r]) + 1
  BY <1>1, <1>2, <1>3, <1>5
<1> QED
  BY <1>1, <1>3, <1>4, <1>7, <1>8, <1>9, Advance

\* A step to the next item.
LEMMA NextItemFact ==
    ASSUME IInv, NEW r \in Admins, AtItem(r), NextItem(r)
    PROVE  /\ UNCHANGED <<requestVars, points, updateDB, phase, of, snap, point, sends>>
           /\ item' \in [Admins -> Nat \ {0}] /\ item'[r] = item[r] + 1
           /\ \A d \in Admins \ {r} : item'[d] = item[d]
           /\ point[r] <= Len(snap[r]) /\ Len(snap[r]) \in Nat
           /\ \A q \in DOMAIN points : \A k :
                  LET it == Here(r).items[item[r]]
                  IN  Written(r, q, k)' <=>
                          \/ Written(r, q, k)
                          \/ q = point[r] /\ ~Skipped(it) /\ SessionKey(it) = k
<1>1. /\ UNCHANGED <<requestVars, points, updateDB, phase, of, snap, point, sends>>
      /\ item' = [item EXCEPT ![r] = item[r] + 1]
  BY DEF NextItem
<1>2. /\ item \in [Admins -> Nat \ {0}] /\ point[r] \in Nat \ {0}
  BY DEF IInv, TypeOK, RefreshesOK
<1>3. item' \in [Admins -> Nat \ {0}] /\ item'[r] = item[r] + 1
      /\ \A d \in Admins \ {r} : item'[d] = item[d]
  BY <1>1, <1>2
<1>4. /\ point[r] <= Len(snap[r]) /\ Len(snap[r]) \in Nat /\ DOMAIN points = 1..Len(points)
      /\ Len(points) \in Nat
  BY AtItemFact, LenProperties
<1>5. ASSUME NEW q \in DOMAIN points, NEW k
      PROVE  Written(r, q, k)' <=>
                 \/ Written(r, q, k)
                 \/ /\ q = point[r] /\ ~Skipped(Here(r).items[item[r]])
                    /\ SessionKey(Here(r).items[item[r]]) = k
  <2>2. \A j \in DOMAIN points[q].items : j \in Nat /\ j >= 1
    BY PointItems DEF IInv, TypeOK, TablesOK
  <2>3. \A j \in DOMAIN points[q].items :
            Past(r, q, j)' <=> Past(r, q, j) \/ (q = point[r] /\ j = item[r])
    BY <1>1, <1>2, <1>3, <1>4, <2>2 DEF Past
  <2>4. q = point[r] => /\ q \in DOMAIN snap[r] /\ item[r] \in DOMAIN points[q].items
                        /\ points[q].items[item[r]] = Here(r).items[item[r]]
    BY AtItemFact
  <2> QED  BY <1>1, <2>3, <2>4, AtItemFact DEF Written
<1> QED
  BY <1>1, <1>3, <1>4, <1>5

LEMMA SkipStep ==
    ASSUME IInv, NEW r \in Admins, Skip(r)
    PROVE  IInv'
<1>1. /\ AtItem(r) /\ NextItem(r) /\ Skipped(Here(r).items[item[r]])
      /\ UNCHANGED <<locateDB, faults, disturbed>>
  BY DEF Skip
<1>2. /\ UNCHANGED <<requestVars, points, updateDB, phase, of, snap, point, sends>>
      /\ item' \in [Admins -> Nat \ {0}] /\ \A d \in Admins \ {r} : item'[d] = item[d]
      /\ point[r] <= Len(snap[r]) /\ Len(snap[r]) \in Nat
      /\ \A q \in DOMAIN points : \A k : Written(r, q, k)' <=> Written(r, q, k)
  BY <1>1, NextItemFact
<1>3. WrittenInv(r)'
  BY <1>1, <1>2, SameWritten
<1>4. /\ locateDB \in [Keys -> [at : Coords, metro : BOOLEAN] \cup {None}]
      /\ disturbed \in [Admins -> SUBSET Keys] /\ point \in [Admins -> Nat \ {0}]
      /\ RequestsOK'
  BY <1>1, <1>2 DEF IInv, TypeOK, TablesOK, RefreshesOK, RequestsOK, requestVars
<1>5. point[r] <= Len(snap[r]) + 1 /\ phase[r] = "running"
  BY <1>1, <1>2, <1>4, AtItemFact
<1> QED
  BY <1>1, <1>2, <1>3, <1>4, <1>5, Advance

LEMMA UpsertStep ==
    ASSUME IInv, NEW r \in Admins, Upsert(r)
    PROVE  IInv'
<1> DEFINE it    == Here(r).items[item[r]]
           key   == SessionKey(it)
           entry == [at |-> Here(r).at, metro |-> FALSE]
<1>1. /\ AtItem(r) /\ NextItem(r) /\ ~Skipped(it) /\ locateDB' = [locateDB EXCEPT ![key] = entry]
      /\ Disturb({key}, Admins \ {r}) /\ UNCHANGED faults
  BY DEF Upsert
<1>2. /\ UNCHANGED <<requestVars, points, updateDB, phase, of, snap, point, sends>>
      /\ item' \in [Admins -> Nat \ {0}] /\ \A d \in Admins \ {r} : item'[d] = item[d]
      /\ point[r] <= Len(snap[r]) /\ Len(snap[r]) \in Nat
      /\ \A q \in DOMAIN points : \A k :
             Written(r, q, k)' <=> Written(r, q, k) \/ (q = point[r] /\ key = k)
  BY <1>1, NextItemFact
<1>3. /\ key \in Keys /\ it \in Items /\ entry \in [at : Coords, metro : BOOLEAN]
      /\ phase[r] = "running"
  BY <1>1, AtItemFact, KeyTypes
<1>4. /\ locateDB \in [Keys -> [at : Coords, metro : BOOLEAN] \cup {None}]
      /\ point \in [Admins -> Nat \ {0}] /\ disturbed \in [Admins -> SUBSET Keys]
      /\ RequestsOK'
  BY <1>1, <1>2 DEF IInv, TypeOK, TablesOK, RefreshesOK, RequestsOK, requestVars
<1> HIDE DEF it, key, entry
<1>5. /\ locateDB' \in [Keys -> [at : Coords, metro : BOOLEAN] \cup {None}]
      /\ locateDB'[key] = entry /\ \A k \in Keys \ {key} : locateDB'[k] = locateDB[k]
  BY <1>1, <1>3, <1>4
<1>6. /\ disturbed' \in [Admins -> SUBSET Keys]
      /\ disturbed'[r] = disturbed[r]
      /\ \A d \in Admins \ {r} : disturbed'[d] = disturbed[d] \cup {key}
  BY <1>1, <1>3, <1>4 DEF Disturb
<1>7. WrittenInv(r)'
  <2> SUFFICES ASSUME NEW k \in Keys \ disturbed[r], NEW q \in DOMAIN points,
                      points[q].session = of[r], Written(r, q, k)',
                      \A later \in DOMAIN points :
                          later > q /\ points[later].session = of[r] => ~Written(r, later, k)'
               PROVE  locateDB'[k] = [at |-> points[q].at, metro |-> FALSE]
    BY <1>2, <1>6 DEF WrittenInv
  <2>1. CASE k # key
    <3>1. Written(r, q, k) /\ \A later \in DOMAIN points :
              later > q /\ points[later].session = of[r] => ~Written(r, later, k)
      BY <1>2, <2>1
    <3>2. locateDB[k] = [at |-> points[q].at, metro |-> FALSE]
      BY <3>1 DEF IInv, AdminsInv, WrittenInv
    <3> QED  BY <1>5, <2>1, <3>2
  <2>2. CASE k = key
    <3>1. /\ point[r] \in DOMAIN points /\ points[point[r]].session = of[r]
          /\ Written(r, point[r], k)'
      BY <1>1, <1>2, <2>2, AtItemFact
    <3>2. q = point[r]
      <4>1. q \in Nat /\ point[r] \in Nat
        BY <1>1, <3>1, AtItemFact, LenProperties
      <4>2. ~(point[r] > q)
        BY <1>2, <3>1
      <4>3. ~(q > point[r])
        <5>1. SUFFICES ASSUME q > point[r] PROVE FALSE
          OBVIOUS
        <5>2. Written(r, q, k)
          BY <1>2, <4>1, <5>1
        <5>3. \E j \in DOMAIN points[q].items : Past(r, q, j)
          BY <1>3, <5>2 DEF Written
        <5> QED  BY <4>1, <5>1, <5>3 DEF Past
      <4> QED  BY <4>1, <4>2, <4>3
    <3>3. key \in KeysOf(points[q].items)
      BY <1>1, <3>2, AtItemFact, KeysOfFact DEF key, it
    <3>4. snap[r][q].at = points[q].at
      BY <1>3, <2>2, <3>1, <3>2, <3>3 DEF IInv, AdminsInv, SnapInv
    <3>5. entry = [at |-> points[q].at, metro |-> FALSE]
      BY <3>2, <3>4 DEF entry, Here
    <3> QED  BY <1>5, <2>2, <3>5
  <2> QED  BY <2>1, <2>2
<1>8. /\ \A d \in Admins \ {r} : \A k \in Keys \ disturbed'[d] : locateDB'[k] = locateDB[k]
      /\ \A d \in Admins : disturbed[d] \subseteq disturbed'[d]
  BY <1>5, <1>6
<1>9. point'[r] <= Len(snap[r]) + 1
  BY <1>2, <1>4
<1> QED
  BY <1>2, <1>3, <1>4, <1>5, <1>6, <1>7, <1>8, <1>9, Advance

LEMMA UpsertFailsStep ==
    ASSUME IInv, NEW r \in Admins, UpsertFails(r)
    PROVE  IInv'
<1> DEFINE it  == Here(r).items[item[r]]
           key == SessionKey(it)
<1>1. /\ AtItem(r) /\ NextItem(r) /\ Disturb({key}, {r}) /\ Fault /\ UNCHANGED locateDB
  BY DEF UpsertFails
<1>2. /\ UNCHANGED <<requestVars, points, updateDB, phase, of, snap, point, sends>>
      /\ item' \in [Admins -> Nat \ {0}] /\ \A d \in Admins \ {r} : item'[d] = item[d]
      /\ point[r] <= Len(snap[r]) /\ Len(snap[r]) \in Nat
      /\ \A q \in DOMAIN points : \A k : key # k => (Written(r, q, k)' <=> Written(r, q, k))
  BY <1>1, NextItemFact
<1>3. key \in Keys /\ phase[r] = "running"
  BY <1>1, AtItemFact, KeyTypes
<1>4. /\ locateDB \in [Keys -> [at : Coords, metro : BOOLEAN] \cup {None}]
      /\ point \in [Admins -> Nat \ {0}] /\ disturbed \in [Admins -> SUBSET Keys]
  BY DEF IInv, TypeOK, TablesOK, RefreshesOK
<1>5. RequestsOK'
  <2>1. faults' \in Nat
    BY <1>1, FaultType DEF IInv, TypeOK, RequestsOK
  <2> QED  BY <1>2, <2>1 DEF IInv, TypeOK, RequestsOK, requestVars
<1> HIDE DEF it, key
<1>6. /\ disturbed' \in [Admins -> SUBSET Keys]
      /\ disturbed'[r] = disturbed[r] \cup {key}
      /\ \A d \in Admins \ {r} : disturbed'[d] = disturbed[d]
  BY <1>1, <1>3, <1>4 DEF Disturb
<1>7. WrittenInv(r)'
  BY <1>1, <1>2, <1>6, SameWritten
<1>8. point'[r] <= Len(snap[r]) + 1
  BY <1>2, <1>4
<1>9. \A d \in Admins : disturbed[d] \subseteq disturbed'[d]
  BY <1>6
<1> QED
  BY <1>1, <1>2, <1>3, <1>4, <1>5, <1>6, <1>7, <1>8, <1>9, Advance

LEMMA FinishStep ==
    ASSUME IInv, NEW r \in Admins, Finish(r)
    PROVE  IInv'
<1>1. /\ phase[r] = "running" /\ point[r] > Len(snap[r])
      /\ phase' = [phase EXCEPT ![r] = "done"] /\ snap' = [snap EXCEPT ![r] = <<>>]
      /\ point' = [point EXCEPT ![r] = 1]
      /\ UNCHANGED <<requestVars, points, updateDB, locateDB, of, item, sends, faults, disturbed>>
  BY DEF Finish
<1>2. /\ points \in Seq(Points) /\ snap[r] \in Seq(Points) /\ point[r] \in Nat \ {0}
      /\ phase'[r] = "done"
  BY <1>1 DEF IInv, TypeOK, TablesOK, RefreshesOK
<1>3. RequestsOK' /\ TablesOK'
  BY <1>1 DEF IInv, TypeOK, RequestsOK, TablesOK, requestVars
<1>4. RefreshesOK'
  BY <1>1, EmptySeq DEF IInv, TypeOK, RefreshesOK
<1>5. ClientsInv'
  BY <1>1, ClientsFrame DEF IInv, requestVars
<1>6. ASSUME NEW k \in Keys \ disturbed[r], NEW q \in DOMAIN points, points[q].session = of[r]
      PROVE  Written(r, q, k)' <=> Written(r, q, k)
  <2>1. Written(r, q, k)' <=> k \in KeysOf(points[q].items)
    BY <1>1, <1>2 DEF Written
  <2>2. Written(r, q, k) => k \in KeysOf(points[q].items)
    BY WrittenListed
  <2>3. ASSUME k \in KeysOf(points[q].items) PROVE Written(r, q, k)
    <3>1. q \in DOMAIN snap[r]
      BY <1>1, <1>6, <2>3 DEF IInv, AdminsInv, SnapInv
    <3>2. q \in Nat /\ q <= Len(snap[r]) /\ Len(snap[r]) \in Nat
      BY <1>2, <3>1, LenProperties
    <3>3. \A j \in DOMAIN points[q].items : Past(r, q, j)
      BY <1>1, <1>2, <3>2 DEF Past
    <3> QED  BY <1>1, <2>3, <3>1, <3>3, KeysOfFact DEF Written
  <2> QED  BY <2>1, <2>2, <2>3
<1>7. SnapInv(r)' /\ WrittenInv(r)'
  BY <1>1, <1>2, <1>6, SameWritten DEF SnapInv
<1>8. ASSUME NEW d \in Admins \ {r} PROVE SnapInv(d)' /\ WrittenInv(d)'
  <2>1. /\ phase'[d] = phase[d] /\ of'[d] = of[d] /\ snap'[d] = snap[d]
        /\ point'[d] = point[d] /\ item'[d] = item[d] /\ disturbed'[d] = disturbed[d]
    BY <1>1 DEF IInv, TypeOK, RefreshesOK
  <2> QED  BY <1>1, <2>1, Bystander
<1> QED
  BY <1>3, <1>4, <1>5, <1>7, <1>8 DEF IInv, TypeOK, AdminsInv

-----------------------------------------------------------------------------
(* Theorems                                                                *)

LEMMA InitIInv == Init => IInv
<1> SUFFICES ASSUME Init PROVE IInv
  OBVIOUS
<1>1. AnySession \in Sessions /\ AnyRequest \in Requests
  BY SomeAssumption DEF AnySession, AnyRequest
<1>2. RequestsOK
  BY <1>1 DEF Init, RequestsOK
<1>3. TablesOK
  BY EmptySeq DEF Init, TablesOK
<1>4. RefreshesOK
  BY <1>1, EmptySeq DEF Init, RefreshesOK
<1>5. ClientsInv
  BY DEF Init, ClientsInv, ClientInv
<1>6. AdminsInv
  BY DEF Init, AdminsInv, SnapInv, WrittenInv, Written
<1> QED
  BY <1>2, <1>3, <1>4, <1>5, <1>6 DEF IInv, TypeOK

LEMMA NextPreserves == IInv /\ [Next]_vars => IInv'
<1> SUFFICES ASSUME IInv, [Next]_vars PROVE IInv'
  OBVIOUS
<1>1. CASE \E c \in Clients : Request(c)
  BY <1>1, RequestStep
<1>2. CASE Administer
  BY <1>2, UpdatePointStep, BeginStep, NextPointStep, SkipStep, UpsertStep, UpsertFailsStep,
     FinishStep DEF Administer
<1>3. CASE \E row \in updateDB : Copy(row)
  BY <1>3, CopyStep
<1>4. CASE Die
  BY <1>4, DieBeside
<1>5. CASE UNCHANGED vars
  <2>1. UNCHANGED <<requestVars, points, updateDB, locateDB, refreshVars, sends, faults, disturbed>>
    BY <1>5 DEF vars
  <2>2. RequestsOK' /\ TablesOK' /\ RefreshesOK'
    BY <2>1, RefreshesFrame DEF IInv, TypeOK, RequestsOK, TablesOK, requestVars
  <2>3. ClientsInv' /\ AdminsInv'
    BY <2>1, ClientsFrame, AdminsFrame DEF IInv, requestVars
  <2> QED  BY <2>2, <2>3 DEF IInv, TypeOK
<1> QED
  BY <1>1, <1>2, <1>3, <1>4, <1>5 DEF Next

LEMMA InvariantHolds == Spec => []IInv
BY InitIInv, NextPreserves, PTL DEF Spec

\* Type correctness: a cut identifier always fits the column, and no point and
\* no row ever holds anything but what requests and administrators gave.
THEOREM TypeCorrect == Spec => []TypeOK
<1>1. IInv => TypeOK
  BY DEF IInv
<1> QED
  BY <1>1, InvariantHolds, PTL

\* An /update that is answered with success has stored every item, whatever
\* failed, died or was reported by others meanwhile.
THEOREM AcceptedStored == Spec => []AcceptedIsStored
<1>1. IInv => AcceptedIsStored
  BY DEF IInv, ClientsInv, ClientInv, StoredItem, AcceptedIsStored
<1> QED
  BY <1>1, InvariantHolds, PTL

\* A finished session refresh has left its mark on every row that nobody
\* disturbed, with any number of administrators and clients at work.
THEOREM CorrectionsShow == Spec => []CorrectionShows
<1>1. IInv => CorrectionShows
  <2> SUFFICES ASSUME IInv, NEW r \in Admins, phase[r] = "done",
                      NEW k \in Keys \ disturbed[r], NEW p \in DOMAIN points,
                      LastListing(p, of[r], k)
               PROVE  locateDB[k] = [at |-> points[p].at, metro |-> FALSE]
    BY DEF CorrectionShows
  <2>1. Written(r, p, k) /\ points[p].session = of[r]
    BY DEF LastListing, Written
  <2>2. \A later \in DOMAIN points :
            later > p /\ points[later].session = of[r] => ~Written(r, later, k)
    BY DEF LastListing, Written
  <2> QED  BY <2>1, <2>2 DEF IInv, AdminsInv, WrittenInv
<1> QED
  BY <1>1, InvariantHolds, PTL
=============================================================================
