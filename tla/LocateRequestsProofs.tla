------------------------ MODULE LocateRequestsProofs ------------------------
(***************************************************************************)
(* Proofs about LocateRequests for any databases, any request bodies and   *)
(* any number of concurrent requests.                                      *)
(***************************************************************************)
EXTENDS LocateRequests, TLAPS

-----------------------------------------------------------------------------
(* The inductive invariant                                                 *)

\* Nothing in the list s before place n is in S.
NoneBefore(s, n, S) == \A j \in 1..n - 1 : s[j] \notin S

\* What a request has learnt by the time it makes its next query: a place that
\* is behind it held nothing known at arrival.
Searched(p) ==
    /\ pc[p] \in {"cell", "external"} =>
          NoneBefore(body[p].cells, at[p], atStart[p] \cup External)
    /\ pc[p] = "external" => body[p].cells[at[p]] \notin atStart[p]
    /\ pc[p] \in {"wifi", "ip"} /\ cell[p] = None => KnownCells(p) = {}
    /\ pc[p] = "wifi" => NoneBefore(body[p].wifis, at[p], atStart[p])
    /\ pc[p] = "ip" => /\ cell[p] = None
                       /\ KnownWifis(p) = {}
                       /\ NoneBefore(body[p].ips, at[p], atStart[p])

\* A cell that was found has a radio type and comes early enough, and as long
\* as a wifi may confirm it, it was no known metro cell.
CellSettled(p) ==
    cell[p] # None =>
        /\ cell[p] \notin Untyped
        /\ EarlyCell(p, cell[p])
        /\ pc[p] = "wifi" => cell[p] \notin Metro \cap atStart[p]

\* What is still to come has no value yet.
NotYet(p) ==
    /\ pc[p] \in {"new", "session", "cell", "external"} => cell[p] = None
    /\ pc[p] \notin {"point", "done"} => answer[p] = None
    /\ pc[p] # "done" => result[p] = "none"

\* A request without a failed query has its session, and its point at the end.
Sessioned(p) ==
    ~faulty[p] =>
        /\ pc[p] \in {"cell", "external", "wifi", "ip", "point"} => body[p].uuid \in sessions
        /\ result[p] = "located" => recorded[p]

RequestInv(p) ==
    /\ InPlace(p) /\ Searched(p) /\ CellSettled(p) /\ NotYet(p) /\ Sessioned(p)
    /\ atStart[p] \subseteq mirror
    /\ InOrder(p) /\ ConfirmedRightly(p)

\* Every cell owed is stored, dropped or about to be saved, by a request that
\* will not change its mind about its cell.
Owing ==
    /\ owed \subseteq updates \cup dropped \cup {cell[p] : p \in saving}
    /\ \A p \in saving : pc[p] \in {"wifi", "point", "done"}

\* No request is under way behind Shutdown, no goroutine behind Wait.
Shut ==
    /\ phase \in {"waiting", "stopped"} => Idle
    /\ phase = "stopped" => saving = {}

IInv == TypeOK /\ (\A p \in Requests : RequestInv(p)) /\ Owing /\ Shut

-----------------------------------------------------------------------------
(* Lemmas                                                                  *)

Steps == {"new", "done", "session", "cell", "external", "wifi", "ip", "point"}

\* What the request lists is made of.
LEMMA Lists ==
    ASSUME TypeOK, NEW p \in Requests
    PROVE  /\ body[p] \in Bodies
           /\ body[p].cells \in Seq(Cells)
           /\ body[p].wifis \in Seq(Wifis)
           /\ body[p].ips \in Seq(Ips)
BY LocateAssumption DEF TypeOK

\* Request q takes no part in a step.
Same(q) ==
    /\ pc'[q] = pc[q] /\ body'[q] = body[q] /\ at'[q] = at[q] /\ cell'[q] = cell[q]
    /\ answer'[q] = answer[q] /\ result'[q] = result[q] /\ recorded'[q] = recorded[q]
    /\ atStart'[q] = atStart[q] /\ faulty'[q] = faulty[q]

\* What such a request knows stays true while LocateDB and the sessions grow.
LEMMA SameKeeps ==
    ASSUME NEW q \in Requests, RequestInv(q), Same(q),
           mirror \subseteq mirror', sessions \subseteq sessions'
    PROVE  RequestInv(q)'
<1>1. InPlace(q)' /\ NotYet(q)' /\ Sessioned(q)' /\ (atStart[q] \subseteq mirror)'
  BY DEF RequestInv, Same, InPlace, NotYet, Sessioned
<1>2. /\ KnownCells(q)' = KnownCells(q) /\ KnownWifis(q)' = KnownWifis(q)
      /\ KnownIps(q)' = KnownIps(q)
  BY DEF Same, KnownCells, KnownWifis, KnownIps, Elements
<1>3. Searched(q)'
  BY <1>2 DEF RequestInv, Same, Searched, NoneBefore
<1>4. \A c : EarlyCell(q, c) => EarlyCell(q, c)'
  BY <1>2 DEF Same, EarlyCell
<1>5. CellSettled(q)' /\ InOrder(q)' /\ ConfirmedRightly(q)'
  BY <1>2, <1>4 DEF RequestInv, Same, CellSettled, InOrder, ConfirmedRightly
<1> QED  BY <1>1, <1>3, <1>5 DEF RequestInv

\* A step of one request p keeps the invariant if it keeps what p knows and the
\* cells of the requests that have a save under way.
LEMMA RequestStep ==
    ASSUME IInv, NEW p \in Requests, TypeOK', RequestInv(p)',
           \A q \in Requests \ {p} : Same(q),
           mirror' = mirror, sessions \subseteq sessions',
           updates' = updates, dropped' = dropped,
           phase' = phase, phase \in {"up", "draining"},
           owed' \subseteq owed \cup {cell'[q] : q \in saving'},
           saving \subseteq saving',
           \A q \in saving : cell'[q] = cell[q],
           \A q \in saving' : pc'[q] \in {"wifi", "point", "done"}
    PROVE  IInv'
<1>1. \A q \in Requests : RequestInv(q)'
  BY SameKeeps DEF IInv
<1>2. Owing'
  BY DEF IInv, Owing
<1>3. Shut'
  BY DEF Shut
<1> QED  BY <1>1, <1>2, <1>3 DEF IInv

\* A request is only under way before Shutdown has returned.
LEMMA UnderWayBefore ==
    ASSUME IInv, NEW p \in Requests, UnderWay(p), Running
    PROVE  phase \in {"up", "draining"}
BY DEF IInv, Shut, Idle, Running

-----------------------------------------------------------------------------
(* The steps of a request                                                  *)

LEMMA ArrivePreserves ==
    ASSUME IInv, NEW p \in Requests, Arrive(p)
    PROVE  IInv'
<1> USE DEF Arrive, stores, stop
<1>1. TypeOK'
  BY DEF IInv, TypeOK, InPlace
<1>2. RequestInv(p)'
  <2>1. pc'[p] = "session" /\ pc[p] = "new" /\ atStart'[p] = mirror
    BY DEF IInv, TypeOK
  <2>2. RequestInv(p)
    BY DEF IInv
  <2>3. cell'[p] = None /\ answer'[p] = None /\ result'[p] = "none"
    BY <2>1, <2>2 DEF RequestInv, NotYet
  <2> QED
    BY <2>1, <2>3 DEF RequestInv, InPlace, Searched, CellSettled, NotYet, Sessioned, InOrder,
                      ConfirmedRightly
<1>3. \A q \in Requests \ {p} : Same(q)
  BY DEF Same, IInv, TypeOK
<1>4. \A q \in saving : pc'[q] \in {"wifi", "point", "done"}
  BY DEF IInv, Owing, TypeOK
<1> QED  BY <1>1, <1>2, <1>3, <1>4, RequestStep

LEMMA CreateSessionPreserves ==
    ASSUME IInv, NEW p \in Requests, CreateSession(p)
    PROVE  IInv'
<1> USE DEF CreateSession, stores, stop, GoTo, At
<1>0. /\ pc[p] = "session" /\ pc'[p] = "cell" /\ at'[p] = 1
      /\ ~faulty'[p] => ~faulty[p] /\ body[p].uuid \in sessions'
      /\ sessions \subseteq sessions'
  BY DEF IInv, TypeOK, WithSession
<1>1. TypeOK'
  <2>1. Len(body[p].cells) \in Nat
    BY Lists DEF IInv
  <2>2. InPlace(p)'
    BY <1>0, <2>1 DEF InPlace
  <2>3. \A q \in Requests \ {p} : InPlace(q)'
    BY DEF IInv, TypeOK, InPlace
  <2> QED  BY <2>2, <2>3 DEF IInv, TypeOK
<1>2. RequestInv(p)'
  <2>2. RequestInv(p)
    BY DEF IInv
  <2>3. cell'[p] = None /\ answer'[p] = None /\ result'[p] = "none" /\ atStart'[p] \subseteq mirror'
    BY <1>0, <2>2 DEF RequestInv, NotYet
  <2>4. InPlace(p)'
    BY <1>1 DEF TypeOK
  <2> QED
    BY <1>0, <2>3, <2>4 DEF RequestInv, Searched, CellSettled, NotYet, Sessioned, InOrder,
                      ConfirmedRightly, NoneBefore
<1>3. \A q \in Requests \ {p} : Same(q)
  BY DEF Same, IInv, TypeOK
<1>4. \A q \in saving : pc'[q] \in {"wifi", "point", "done"}
  BY <1>0 DEF IInv, Owing, TypeOK
<1>5. phase \in {"up", "draining"}
  BY <1>0, UnderWayBefore DEF UnderWay
<1> QED  BY <1>0, <1>1, <1>2, <1>3, <1>4, <1>5, RequestStep

\* The facts a request's answer and its cell rest on do not change under it.
LEMMA KnownFixed ==
    ASSUME NEW p, body'[p] = body[p], atStart'[p] = atStart[p]
    PROVE  /\ KnownCells(p)' = KnownCells(p) /\ KnownWifis(p)' = KnownWifis(p)
           /\ KnownIps(p)' = KnownIps(p)
           /\ \A c : EarlyCell(p, c)' <=> EarlyCell(p, c)
<1>1. /\ KnownCells(p)' = KnownCells(p) /\ KnownWifis(p)' = KnownWifis(p)
      /\ KnownIps(p)' = KnownIps(p)
  BY DEF KnownCells, KnownWifis, KnownIps, Elements
<1> QED  BY <1>1 DEF EarlyCell

LEMMA FailPreserves ==
    ASSUME IInv, NEW p \in Requests, Fail(p)
    PROVE  IInv'
<1> USE DEF Fail, stores, stop, At
<1>0. /\ pc[p] \in {"cell", "external", "wifi", "ip"} /\ Running
      /\ pc'[p] = "done" /\ result'[p] = "error"
  BY DEF IInv, TypeOK
<1>1. TypeOK'
  BY DEF IInv, TypeOK, InPlace
<1>2. RequestInv(p)'
  <2>1. RequestInv(p)
    BY DEF IInv
  <2>2. answer'[p] = None /\ InPlace(p)' /\ Searched(p)'
    BY <1>0, <2>1 DEF RequestInv, NotYet, InPlace, Searched
  <2>3. CellSettled(p)'
    BY <1>0, <2>1, KnownFixed DEF RequestInv, CellSettled
  <2> QED
    BY <1>0, <2>1, <2>2, <2>3 DEF RequestInv, NotYet, Sessioned, InOrder, ConfirmedRightly
<1>3. \A q \in Requests \ {p} : Same(q)
  BY DEF Same, IInv, TypeOK
<1>4. \A q \in saving : pc'[q] \in {"wifi", "point", "done"}
  BY <1>0 DEF IInv, Owing, TypeOK
<1>5. phase \in {"up", "draining"}
  BY <1>0, UnderWayBefore DEF UnderWay
<1> QED  BY <1>0, <1>1, <1>2, <1>3, <1>4, <1>5, RequestStep DEF IInv, Owing

LEMMA SavePointPreserves ==
    ASSUME IInv, NEW p \in Requests, SavePoint(p)
    PROVE  IInv'
<1> USE DEF SavePoint, stores, stop, At
<1>0. /\ pc[p] = "point" /\ Running
      /\ pc'[p] = "done" /\ result'[p] = "located"
  BY DEF IInv, TypeOK
<1>1. TypeOK'
  BY DEF IInv, TypeOK, InPlace
<1>2. RequestInv(p)'
  <2>1. RequestInv(p)
    BY DEF IInv
  <2>2. InPlace(p)' /\ Searched(p)' /\ NotYet(p)'
    BY <1>0, <2>1 DEF InPlace, Searched, NotYet
  <2>3. CellSettled(p)' /\ InOrder(p)' /\ ConfirmedRightly(p)'
    BY <1>0, <2>1, KnownFixed DEF RequestInv, CellSettled, InOrder, ConfirmedRightly
  <2>4. Sessioned(p)'
    BY <1>0, <2>1 DEF RequestInv, Sessioned, IInv, TypeOK
  <2> QED
    BY <2>1, <2>2, <2>3, <2>4 DEF RequestInv
<1>3. \A q \in Requests \ {p} : Same(q)
  BY DEF Same, IInv, TypeOK
<1>4. \A q \in saving : pc'[q] \in {"wifi", "point", "done"}
  BY <1>0 DEF IInv, Owing, TypeOK
<1>5. phase \in {"up", "draining"}
  BY <1>0, UnderWayBefore DEF UnderWay
<1> QED  BY <1>0, <1>1, <1>2, <1>3, <1>4, <1>5, RequestStep

\* One more place behind the request.
LEMMA OnePlaceOn ==
    ASSUME NEW S, NEW s, NEW n \in Nat, NoneBefore(s, n, S), s[n] \notin S
    PROVE  NoneBefore(s, NextAt(n), S)
BY DEF NoneBefore, NextAt

\* The first known cell of a list is an early one.
LEMMA FirstIsEarly ==
    ASSUME TypeOK, NEW p \in Requests, at[p] \in 1..Len(body[p].cells),
           NoneBefore(body[p].cells, at[p], atStart[p] \cup External)
    PROVE  EarlyCell(p, body[p].cells[at[p]])
BY DEF EarlyCell, KnownCells, NoneBefore

\* A request that finds its answer.
LEMMA AnswersPreserves ==
    ASSUME IInv, NEW p \in Requests, UnderWay(p), Running,
           NEW kind \in {"cell", "confirmed", "wifi", "ip"}, NEW item \in Items,
           NEW c \in (Cells \ Untyped) \cup {None},
           Answers(p, kind, item, c), UNCHANGED <<stores, phase, dropped, saving, owed>>,
           pc[p] \notin {"session", "point"},
           p \in saving => c = cell[p],
           c # None => EarlyCell(p, c),
           kind \in {"cell", "confirmed"} => c # None,
           kind = "confirmed" => <<c, item>> \in Near /\ c \notin Metro \cap atStart[p],
           kind \in {"wifi", "ip"} => KnownCells(p) = {},
           kind = "ip" => KnownWifis(p) = {}
    PROVE  IInv'
<1> USE DEF stores, Answers
<1> DEFINE a == [kind |-> kind, item |-> item, cell |-> c]
<1>0. /\ pc'[p] = "point" /\ cell'[p] = c /\ answer'[p] = a
      /\ a.kind = kind /\ a.item = item /\ a.cell = c
  BY DEF IInv, TypeOK
<1>1. TypeOK'
  <2>1. a \in Locations
    BY DEF Locations
  <2> HIDE DEF a
  <2>2. answer' \in [Requests -> Locations \cup {None}]
    BY <2>1, <1>0 DEF IInv, TypeOK, a
  <2>3. cell' \in [Requests -> Cells \cup {None}]
    BY DEF IInv, TypeOK
  <2>4. saving' \subseteq {q \in Requests : cell'[q] \in External}
    BY DEF IInv, TypeOK
  <2>5. \A q \in Requests : InPlace(q)'
    BY DEF IInv, TypeOK, InPlace
  <2>6. pc' \in [Requests -> Steps]
    BY DEF IInv, TypeOK, Steps
  <2> QED  BY <2>2, <2>3, <2>4, <2>5, <2>6 DEF IInv, TypeOK, Steps
<1>2. RequestInv(p)'
  <2>1. RequestInv(p)
    BY DEF IInv
  <2>2. InPlace(p)' /\ Searched(p)' /\ NotYet(p)'
    BY <1>0, <2>1 DEF RequestInv, InPlace, Searched, NotYet, UnderWay
  <2>3. CellSettled(p)'
    BY <1>0, KnownFixed, LocateAssumption DEF CellSettled
  <2>4. result'[p] = "none"
    BY <2>1 DEF RequestInv, NotYet, UnderWay
  <2>5. InOrder(p)' /\ ConfirmedRightly(p)'
    BY <1>0, <2>4, KnownFixed DEF InOrder, ConfirmedRightly
  <2>6. Sessioned(p)'
    BY <1>0, <2>1, <2>4 DEF RequestInv, Sessioned, UnderWay, IInv, TypeOK
  <2> QED
    BY <2>1, <2>2, <2>3, <2>5, <2>6 DEF RequestInv
<1>3. \A q \in Requests \ {p} : Same(q)
  BY DEF Same, IInv, TypeOK
<1>4. \A q \in saving : pc'[q] \in {"wifi", "point", "done"} /\ cell'[q] = cell[q]
  BY <1>0, <1>3 DEF IInv, Owing, TypeOK, Same
<1>5. phase \in {"up", "draining"}
  BY UnderWayBefore
<1> QED  BY <1>0, <1>1, <1>2, <1>3, <1>4, <1>5, RequestStep

\* A request that goes on with another query, having settled on cell c.
LEMMA GoesOnPreserves ==
    ASSUME IInv, NEW p \in Requests, Running,
           pc[p] \in {"cell", "external", "wifi", "ip"},
           NEW query \in {"cell", "external", "wifi", "ip"}, NEW n \in Nat,
           GoTo(p, query, n),
           NEW c \in Cells \cup {None}, cell' = [cell EXCEPT ![p] = c],
           UNCHANGED <<stores, phase, dropped, body, answer, result, recorded,
                       atStart, faulty>>,
           InPlace(p)', Searched(p)', CellSettled(p)',
           query \in {"cell", "external"} => c = None,
           p \in saving => c = cell[p],
           saving \subseteq saving', saving' \subseteq saving \cup {p},
           p \in saving' => query = "wifi" /\ c \in External,
           owed' \subseteq External,
           owed' \subseteq owed \cup {cell'[q] : q \in saving'}
    PROVE  IInv'
<1> USE DEF stores, GoTo
<1>0. pc'[p] = query /\ at'[p] = n /\ cell'[p] = c
  BY DEF IInv, TypeOK
<1>1. TypeOK'
  <2>1. cell' \in [Requests -> Cells \cup {None}] /\ at' \in [Requests -> Nat]
    BY DEF IInv, TypeOK
  <2>2. saving' \subseteq {q \in Requests : cell'[q] \in External}
    BY <1>0 DEF IInv, TypeOK
  <2>3. \A q \in Requests : InPlace(q)'
    BY DEF IInv, TypeOK, InPlace
  <2>4. pc' \in [Requests -> Steps]
    BY DEF IInv, TypeOK, Steps
  <2> QED  BY <2>1, <2>2, <2>3, <2>4 DEF IInv, TypeOK, Steps
<1>2. RequestInv(p)'
  <2>1. RequestInv(p)
    BY DEF IInv
  <2>2. NotYet(p)'
    BY <1>0, <2>1 DEF RequestInv, NotYet
  <2>3. answer'[p] = None /\ result'[p] = "none"
    BY <2>1 DEF RequestInv, NotYet
  <2>4. Sessioned(p)'
    BY <1>0, <2>1, <2>3 DEF RequestInv, Sessioned
  <2> QED
    BY <2>1, <2>2, <2>3, <2>4 DEF RequestInv, InOrder, ConfirmedRightly
<1>3. \A q \in Requests \ {p} : Same(q)
  BY DEF Same, IInv, TypeOK
<1>4. \A q \in saving : cell'[q] = cell[q]
  BY <1>0, <1>3 DEF Same
<1>5. \A q \in saving' : pc'[q] \in {"wifi", "point", "done"}
  BY <1>0, <1>3 DEF IInv, Owing, Same, TypeOK
<1>6. phase \in {"up", "draining"}
  BY UnderWayBefore DEF UnderWay
<1> QED  BY <1>0, <1>1, <1>2, <1>3, <1>4, <1>5, <1>6, RequestStep

LEMMA FindCellPreserves ==
    ASSUME IInv, NEW p \in Requests, FindCell(p)
    PROVE  IInv'
<1> DEFINE cells == body[p].cells
           c == cells[at[p]]
<1>0. /\ pc[p] = "cell" /\ Running /\ RequestInv(p) /\ TypeOK
      /\ UNCHANGED <<stores, stop, body>>
  BY DEF FindCell, At, IInv, FoundCell, Answers, GoTo
<1>1. /\ cells \in Seq(Cells) /\ Len(cells) \in Nat
      /\ at[p] \in 1..Len(cells) + 1 /\ cell[p] = None
      /\ NoneBefore(cells, at[p], atStart[p] \cup External)
      /\ p \notin saving
  BY <1>0, Lists DEF RequestInv, InPlace, Searched, NotYet, IInv, Owing
<1>2. cell = [cell EXCEPT ![p] = None]
  BY <1>0, <1>1 DEF TypeOK
<1>3. CASE at[p] > Len(cells)
  <2>1. /\ GoTo(p, "wifi", 1)
        /\ UNCHANGED <<body, cell, answer, result, recorded, atStart, faulty>>
    BY <1>3, <1>0, <1>1 DEF FindCell
  <2>2. pc'[p] = "wifi" /\ at'[p] = 1 /\ cell'[p] = None
    BY <2>1, <1>0, <1>1 DEF GoTo, TypeOK
  <2>3. KnownCells(p) = {}
    <3>1. \A j \in 1..Len(cells) : cells[j] \notin atStart[p] \cup External
      <4> HIDE DEF cells
      <4> QED  BY <1>1, <1>3 DEF NoneBefore
    <3> QED  BY <3>1 DEF KnownCells, Elements
  <2>4. InPlace(p)' /\ Searched(p)' /\ CellSettled(p)'
    BY <2>1, <2>2, <2>3, KnownFixed, Lists, <1>0
    DEF InPlace, Searched, CellSettled, NoneBefore
  <2> QED
    BY <1>0, <1>1, <1>2, <2>1, <2>4, GoesOnPreserves DEF stop, IInv, TypeOK
<1>4. CASE at[p] <= Len(cells)
  <2>0. at[p] \in 1..Len(cells) /\ c \in Cells \ Untyped
    BY <1>4, <1>0, <1>1 DEF FindCell
  <2>1. CASE c \in mirror
    <3>1. FoundCell(p, c, c \in Metro)
      BY <2>0, <2>1, <1>0 DEF FindCell, InLocateDB
    <3>2. EarlyCell(p, c) /\ c \in Items /\ c # None
      BY <2>0, <1>0, <1>1, FirstIsEarly, LocateAssumption DEF Items
    <3>3. CASE c \in Metro
      <4>1. Answers(p, "cell", c, c)
        BY <3>1, <3>3 DEF FoundCell
      <4> QED
        BY <4>1, <3>2, <2>0, <1>0, <1>1, AnswersPreserves DEF stop, UnderWay
    <3>4. CASE c \notin Metro
      <4>1. /\ GoTo(p, "wifi", 1) /\ cell' = [cell EXCEPT ![p] = c]
            /\ UNCHANGED <<body, answer, result, recorded, atStart, faulty>>
        BY <3>1, <3>4 DEF FoundCell
      <4>2. pc'[p] = "wifi" /\ at'[p] = 1 /\ cell'[p] = c
        BY <4>1, <1>0 DEF GoTo, TypeOK
      <4>3. InPlace(p)' /\ Searched(p)' /\ CellSettled(p)'
        <5>1. InPlace(p)'
          BY <4>1, <4>2, Lists, <1>0 DEF InPlace
        <5>2. Searched(p)'
          BY <4>1, <4>2, <3>2 DEF Searched, NoneBefore
        <5>3. CellSettled(p)'
          BY <4>1, <4>2, <3>2, <3>4, <2>0, KnownFixed DEF CellSettled
        <5> QED  BY <5>1, <5>2, <5>3
      <4> QED
        BY <1>0, <1>1, <2>0, <4>1, <4>3, GoesOnPreserves DEF stop, IInv, TypeOK
    <3> QED  BY <3>3, <3>4
  <2>2. CASE c \notin mirror
    <3>1. /\ GoTo(p, "external", at[p])
          /\ UNCHANGED <<body, cell, answer, result, recorded, atStart, faulty>>
      BY <2>0, <2>2, <1>0 DEF FindCell, InLocateDB
    <3>2. pc'[p] = "external" /\ at'[p] = at[p] /\ cell'[p] = None
      BY <3>1, <1>0, <1>1 DEF GoTo, TypeOK
    <3>3. c \notin atStart[p]
      BY <2>2, <1>0 DEF RequestInv
    <3>4. InPlace(p)' /\ Searched(p)' /\ CellSettled(p)'
      BY <3>1, <3>2, <3>3, <2>0, <1>1 DEF InPlace, Searched, CellSettled, NoneBefore
    <3> QED
      BY <1>0, <1>1, <1>2, <2>0, <3>1, <3>4, GoesOnPreserves DEF stop, IInv, TypeOK
  <2> QED  BY <2>1, <2>2
<1> QED  BY <1>3, <1>4, <1>1

LEMMA FindExternalPreserves ==
    ASSUME IInv, NEW p \in Requests, FindExternal(p)
    PROVE  IInv'
<1> DEFINE cells == body[p].cells
           c == cells[at[p]]
<1>0. /\ pc[p] = "external" /\ Running /\ RequestInv(p) /\ TypeOK
      /\ UNCHANGED <<stores, phase, dropped, body>>
  BY DEF FindExternal, At, IInv, FoundCell, Answers, GoTo
<1>1. /\ cells \in Seq(Cells) /\ Len(cells) \in Nat
      /\ at[p] \in 1..Len(cells) /\ cell[p] = None
      /\ NoneBefore(cells, at[p], atStart[p] \cup External)
      /\ c \notin atStart[p] /\ c \in Cells
      /\ p \notin saving
  BY <1>0, Lists DEF RequestInv, InPlace, Searched, NotYet, IInv, Owing
<1>2. CASE c \in External
  <2>1. /\ saving' = saving \cup {p} /\ owed' = owed \cup {c}
        /\ GoTo(p, "wifi", 1) /\ cell' = [cell EXCEPT ![p] = c]
        /\ UNCHANGED <<body, answer, result, recorded, atStart, faulty>>
    BY <1>2 DEF FindExternal, InExternalDB, FoundCell
  <2>2. pc'[p] = "wifi" /\ at'[p] = 1 /\ cell'[p] = c
    BY <2>1, <1>0 DEF GoTo, TypeOK
  <2>3. EarlyCell(p, c) /\ c # None /\ c \notin Untyped
    BY <1>0, <1>1, <1>2, FirstIsEarly, LocateAssumption
  <2>4. InPlace(p)'
    BY <2>1, <2>2, Lists, <1>0 DEF InPlace
  <2>5. Searched(p)'
    BY <2>1, <2>2, <2>3 DEF Searched, NoneBefore
  <2>6. CellSettled(p)'
    BY <2>1, <2>2, <2>3, <1>1, KnownFixed DEF CellSettled
  <2>7. owed' \subseteq External /\ owed' \subseteq owed \cup {cell'[q] : q \in saving'}
    BY <2>1, <2>2, <1>0, <1>2 DEF TypeOK
  <2> QED
    BY <1>0, <1>1, <1>2, <2>1, <2>4, <2>5, <2>6, <2>7, GoesOnPreserves
<1>3. CASE c \notin External
  <2>1. /\ GoTo(p, "cell", NextAt(at[p])) /\ UNCHANGED <<saving, owed, cell>>
        /\ UNCHANGED <<body, answer, result, recorded, atStart, faulty>>
    BY <1>3 DEF FindExternal, InExternalDB
  <2>2. pc'[p] = "cell" /\ at'[p] = NextAt(at[p]) /\ cell'[p] = None
    BY <2>1, <1>0, <1>1 DEF GoTo, TypeOK
  <2>3. NoneBefore(cells, NextAt(at[p]), atStart[p] \cup External)
    BY <1>1, <1>3, OnePlaceOn
  <2>4. InPlace(p)' /\ Searched(p)' /\ CellSettled(p)'
    BY <2>1, <2>2, <2>3, <1>1 DEF InPlace, Searched, CellSettled, NextAt
  <2>5. cell' = [cell EXCEPT ![p] = None] /\ NextAt(at[p]) \in Nat
    BY <2>1, <1>0, <1>1 DEF TypeOK, NextAt
  <2>6. owed' \subseteq External
    BY <2>1, <1>0 DEF TypeOK
  <2> QED
    BY <1>0, <1>1, <2>1, <2>4, <2>5, <2>6, GoesOnPreserves
<1> QED  BY <1>2, <1>3

\* Weighing the cell against the wifi w that was found, or against none when the
\* list is exhausted.
LEMMA WeighPreserves ==
    ASSUME IInv, NEW p \in Requests, pc[p] = "wifi", Running,
           NEW w \in Wifis \cup {None}, Weigh(p, w),
           w = None => KnownWifis(p) = {},
           UNCHANGED <<stores, stop>>
    PROVE  IInv'
<1> DEFINE c == cell[p]
<1>0. RequestInv(p) /\ TypeOK /\ UnderWay(p)
  BY DEF IInv, UnderWay
<1>1. /\ c \in (Cells \ Untyped) \cup {None} /\ None \notin Cells /\ None \notin Wifis
      /\ c # None => EarlyCell(p, c) /\ c \notin Metro \cap atStart[p] /\ c \in Items
      /\ c = None => KnownCells(p) = {}
      /\ w # None => w \in Items
  BY <1>0, LocateAssumption DEF RequestInv, TypeOK, CellSettled, Searched, Items
<1>2. CASE Confirms(c, w) /\ Answers(p, "confirmed", w, c)
  BY <1>0, <1>1, <1>2, AnswersPreserves DEF Confirms, stop
<1>3. CASE c # None /\ Answers(p, "cell", c, c)
  BY <1>0, <1>1, <1>3, AnswersPreserves DEF stop
<1>4. CASE c = None /\ w # None /\ Answers(p, "wifi", w, None)
  BY <1>0, <1>1, <1>4, AnswersPreserves DEF stop
<1>5. CASE /\ c = None /\ w = None
           /\ GoTo(p, "ip", 1)
           /\ UNCHANGED <<body, cell, answer, result, recorded, atStart, faulty>>
  <2>1. pc'[p] = "ip" /\ at'[p] = 1 /\ cell'[p] = None
    BY <1>5, <1>0 DEF GoTo, TypeOK
  <2>2. InPlace(p)'
    BY <2>1, <1>5, Lists, <1>0 DEF InPlace
  <2>3. Searched(p)' /\ CellSettled(p)'
    BY <2>1, <1>1, <1>5, KnownFixed DEF Searched, NoneBefore, CellSettled
  <2>4. cell' = [cell EXCEPT ![p] = None] /\ p \notin saving
    BY <1>5, <1>0, <1>1, LocateAssumption DEF TypeOK
  <2> QED
    BY <1>0, <1>5, <2>1, <2>2, <2>3, <2>4, GoesOnPreserves DEF stop, TypeOK
<1> QED  BY <1>2, <1>3, <1>4, <1>5 DEF Weigh

LEMMA FindWifiPreserves ==
    ASSUME IInv, NEW p \in Requests, FindWifi(p)
    PROVE  IInv'
<1> DEFINE wifis == body[p].wifis
<1>0. /\ pc[p] = "wifi" /\ Running /\ RequestInv(p) /\ TypeOK
      /\ UNCHANGED <<stores, stop>>
  BY DEF FindWifi, At, IInv
<1>1. /\ wifis \in Seq(Wifis) /\ Len(wifis) \in Nat
      /\ at[p] \in 1..Len(wifis) + 1
      /\ NoneBefore(wifis, at[p], atStart[p])
  BY <1>0, Lists DEF RequestInv, InPlace, Searched
<1>2. CASE at[p] > Len(wifis) /\ Weigh(p, None)
  <2>1. \A j \in 1..Len(wifis) : wifis[j] \notin atStart[p]
    <3> HIDE DEF wifis
    <3> QED  BY <1>1, <1>2 DEF NoneBefore
  <2>2. KnownWifis(p) = {}
    BY <2>1 DEF KnownWifis, Elements
  <2> QED  BY <1>0, <1>2, <2>2, WeighPreserves
<1>3. CASE at[p] <= Len(wifis) /\ InLocateDB(wifis[at[p]]) /\ Weigh(p, wifis[at[p]])
  <2>1. wifis[at[p]] \in Wifis /\ wifis[at[p]] # None
    BY <1>1, <1>3, LocateAssumption
  <2> QED  BY <1>0, <1>3, <2>1, WeighPreserves
<1>4. CASE /\ at[p] <= Len(wifis) /\ ~InLocateDB(wifis[at[p]])
           /\ GoTo(p, "wifi", NextAt(at[p]))
           /\ UNCHANGED <<body, cell, answer, result, recorded, atStart, faulty>>
  <2>1. pc'[p] = "wifi" /\ at'[p] = NextAt(at[p]) /\ cell'[p] = cell[p]
    BY <1>4, <1>0 DEF GoTo, TypeOK
  <2>2. at[p] \in 1..Len(wifis) /\ wifis[at[p]] \notin atStart[p]
    BY <1>0, <1>1, <1>4 DEF RequestInv, InLocateDB
  <2>3. NoneBefore(wifis, NextAt(at[p]), atStart[p])
    BY <1>1, <2>2, OnePlaceOn
  <2>4. InPlace(p)'
    BY <1>4, <2>1, <2>2, <1>1 DEF InPlace, NextAt
  <2>5. Searched(p)'
    BY <1>0, <1>4, <2>1, <2>3, KnownFixed DEF Searched, RequestInv
  <2>6. CellSettled(p)'
    BY <1>0, <1>4, <2>1, KnownFixed DEF CellSettled, RequestInv
  <2>7. /\ cell' = [cell EXCEPT ![p] = cell[p]] /\ cell[p] \in Cells \cup {None}
        /\ NextAt(at[p]) \in Nat /\ owed \subseteq External
        /\ owed \subseteq owed \cup {cell'[q] : q \in saving'}
        /\ p \in saving => cell[p] \in External
    BY <1>0, <1>4 DEF TypeOK, NextAt
  <2> QED
    BY <1>0, <1>4, <2>4, <2>5, <2>6, <2>7, GoesOnPreserves DEF stop
<1> QED  BY <1>2, <1>3, <1>4 DEF FindWifi

LEMMA FindIPPreserves ==
    ASSUME IInv, NEW p \in Requests, FindIP(p)
    PROVE  IInv'
<1> DEFINE ips == body[p].ips
<1>0. /\ pc[p] = "ip" /\ Running /\ RequestInv(p) /\ TypeOK /\ UnderWay(p)
      /\ UNCHANGED <<stores, stop>>
  BY DEF FindIP, At, IInv, UnderWay
<1>1. /\ ips \in Seq(Ips) /\ Len(ips) \in Nat
      /\ at[p] \in 1..Len(ips) + 1
      /\ cell[p] = None /\ KnownCells(p) = {} /\ KnownWifis(p) = {}
      /\ NoneBefore(ips, at[p], atStart[p])
      /\ p \notin saving
  BY <1>0, Lists, LocateAssumption DEF RequestInv, InPlace, Searched, TypeOK
<1>2. CASE /\ at[p] > Len(ips)
           /\ pc' = [pc EXCEPT ![p] = "done"]
           /\ result' = [result EXCEPT ![p] = NotFound]
           /\ UNCHANGED <<at, body, cell, answer, recorded, atStart, faulty>>
  <2>1. \A j \in 1..Len(ips) : ips[j] \notin atStart[p]
    <3> HIDE DEF ips
    <3> QED  BY <1>1, <1>2 DEF NoneBefore
  <2>2. KnownIps(p) = {}
    BY <2>1 DEF KnownIps, Elements
  <2>3. pc'[p] = "done" /\ result'[p] = "empty"
    BY <1>0, <1>2 DEF TypeOK, NotFound
  <2>4. TypeOK'
    BY <1>0, <1>2 DEF TypeOK, InPlace, NotFound, stores, stop
  <2>5. RequestInv(p)'
    <3>1. InPlace(p)' /\ Searched(p)' /\ NotYet(p)' /\ Sessioned(p)' /\ CellSettled(p)'
      BY <1>1, <1>2, <2>3 DEF InPlace, Searched, NotYet, Sessioned, CellSettled
    <3>2. answer'[p] = None
      BY <1>0, <1>2 DEF RequestInv, NotYet
    <3>3. InOrder(p)' /\ ConfirmedRightly(p)'
      BY <1>1, <1>2, <2>2, <3>2, KnownFixed DEF InOrder, ConfirmedRightly
    <3> QED
      BY <1>0, <1>2, <3>1, <3>3 DEF RequestInv, stores
  <2>6. \A q \in Requests \ {p} : Same(q)
    BY <1>0, <1>2 DEF Same, TypeOK
  <2>7. \A q \in saving : pc'[q] \in {"wifi", "point", "done"}
    BY <1>2, <2>3, <1>0 DEF IInv, Owing, TypeOK
  <2>8. phase \in {"up", "draining"}
    BY <1>0, UnderWayBefore
  <2> QED
    BY <1>0, <1>2, <2>4, <2>5, <2>6, <2>7, <2>8, RequestStep DEF stores, stop
<1>3. CASE /\ at[p] <= Len(ips)
           /\ Answers(p, "ip", ips[at[p]], None)
  <2>1. ips[at[p]] \in Items
    BY <1>1, <1>3 DEF Items
  <2> QED  BY <1>0, <1>1, <1>3, <2>1, AnswersPreserves DEF stop
<1>4. CASE /\ at[p] <= Len(ips) /\ ~InLocateDB(ips[at[p]])
           /\ GoTo(p, "ip", NextAt(at[p]))
           /\ UNCHANGED <<body, cell, answer, result, recorded, atStart, faulty>>
  <2>1. pc'[p] = "ip" /\ at'[p] = NextAt(at[p]) /\ cell'[p] = None
    BY <1>4, <1>0, <1>1 DEF GoTo, TypeOK
  <2>2. at[p] \in 1..Len(ips) /\ ips[at[p]] \notin atStart[p]
    BY <1>0, <1>1, <1>4 DEF RequestInv, InLocateDB
  <2>3. NoneBefore(ips, NextAt(at[p]), atStart[p])
    BY <1>1, <2>2, OnePlaceOn
  <2>4. InPlace(p)'
    BY <1>4, <2>1, <2>2, <1>1 DEF InPlace, NextAt
  <2>5. Searched(p)' /\ CellSettled(p)'
    BY <1>1, <1>4, <2>1, <2>3, KnownFixed DEF Searched, CellSettled
  <2>6. cell' = [cell EXCEPT ![p] = None] /\ NextAt(at[p]) \in Nat /\ owed \subseteq External
    BY <1>0, <1>1, <1>4 DEF TypeOK, NextAt
  <2> QED
    BY <1>0, <1>1, <1>4, <2>4, <2>5, <2>6, GoesOnPreserves DEF stop
<1> QED  BY <1>2, <1>3, <1>4 DEF FindIP

-----------------------------------------------------------------------------
(* The steps around the requests                                           *)

LEMMA LearnPreserves ==
    ASSUME IInv, NEW x \in Items, Learn(x)
    PROVE  IInv'
<1> USE DEF Learn, stop, work
<1>1. TypeOK'
  BY DEF IInv, TypeOK, InPlace
<1>2. \A q \in Requests : RequestInv(q)'
  BY SameKeeps DEF IInv, Same
<1>3. Owing' /\ Shut'
  BY DEF IInv, Owing, Shut, Idle, UnderWay
<1> QED  BY <1>1, <1>2, <1>3 DEF IInv

\* The request whose save ends leaves the set, its cell is stored or dropped.
LEMMA SaveCellPreserves ==
    ASSUME IInv, NEW p \in Requests, SaveCell(p)
    PROVE  IInv'
<1> USE DEF SaveCell, work
<1>1. TypeOK'
  BY DEF IInv, TypeOK, InPlace
<1>2. \A q \in Requests : RequestInv(q)'
  BY SameKeeps DEF IInv, Same
<1>3. Owing'
  BY DEF IInv, Owing
<1>4. Shut'
  BY DEF IInv, Shut, Idle, UnderWay
<1> QED  BY <1>1, <1>2, <1>3, <1>4 DEF IInv

\* A step of main: it closes a phase only behind the work it waited for.
LEMMA PhasePreserves ==
    ASSUME IInv, phase' \in {"draining", "waiting", "stopped", "killed"},
           UNCHANGED <<stores, saving, work, owed, dropped>>,
           phase' \in {"waiting", "stopped"} => Idle,
           phase' = "stopped" => saving = {}
    PROVE  IInv'
<1> USE DEF stores, work
<1>1. TypeOK'
  BY DEF IInv, TypeOK, InPlace
<1>2. \A q \in Requests : RequestInv(q)'
  BY SameKeeps DEF IInv, Same
<1>3. Owing' /\ Shut'
  BY DEF IInv, Owing, Shut, Idle, UnderWay
<1> QED  BY <1>1, <1>2, <1>3 DEF IInv

LEMMA StutterPreserves ==
    ASSUME IInv, UNCHANGED vars
    PROVE  IInv'
<1> USE DEF vars, work
<1>1. TypeOK'
  BY DEF IInv, TypeOK, InPlace
<1>2. \A q \in Requests : RequestInv(q)'
  BY SameKeeps DEF IInv, Same
<1>3. Owing' /\ Shut'
  BY DEF IInv, Owing, Shut, Idle, UnderWay
<1> QED  BY <1>1, <1>2, <1>3 DEF IInv

LEMMA InitEstablishes == Init => IInv
<1> SUFFICES ASSUME Init PROVE IInv
  OBVIOUS
<1>1. TypeOK
  <2>1. body \in [Requests -> Bodies]
    BY LocateAssumption DEF Init
  <2> QED  BY <2>1 DEF Init, TypeOK, InPlace
<1>2. \A p \in Requests : RequestInv(p)
  <2> TAKE p \in Requests
  <2>1. /\ pc[p] = "new" /\ cell[p] = None /\ answer[p] = None /\ result[p] = "none"
        /\ atStart[p] = {}
    BY DEF Init
  <2> QED
    BY <2>1 DEF RequestInv, InPlace, Searched, CellSettled, NotYet, Sessioned, InOrder,
                ConfirmedRightly
<1>3. Owing /\ Shut
  BY DEF Init, Owing, Shut
<1> QED  BY <1>1, <1>2, <1>3 DEF IInv

LEMMA NextPreserves == IInv /\ [Next]_vars => IInv'
<1> SUFFICES ASSUME IInv, [Next]_vars PROVE IInv'
  OBVIOUS
<1>1. ASSUME NEW p \in Requests, Arrive(p) PROVE IInv'
  BY <1>1, ArrivePreserves
<1>2. ASSUME NEW p \in Requests, Progress(p) PROVE IInv'
  BY <1>2, CreateSessionPreserves, FailPreserves, FindCellPreserves, FindExternalPreserves,
     FindWifiPreserves, FindIPPreserves, SavePointPreserves DEF Progress
<1>3. ASSUME NEW p \in Requests, SaveCell(p) PROVE IInv'
  BY <1>3, SaveCellPreserves
<1>4. ASSUME NEW x \in Items, Learn(x) PROVE IInv'
  BY <1>4, LearnPreserves
<1>5. CASE Signal
  BY <1>5, PhasePreserves DEF Signal
<1>6. CASE ShutdownReturns
  BY <1>6, PhasePreserves DEF ShutdownReturns, Drained
<1>7. CASE ShutdownTimesOut
  BY <1>7, PhasePreserves DEF ShutdownTimesOut
<1>8. CASE Stopped
  BY <1>8, PhasePreserves DEF Stopped, Waited, IInv, Shut
<1>9. CASE UNCHANGED vars
  BY <1>9, StutterPreserves
<1> QED  BY <1>1, <1>2, <1>3, <1>4, <1>5, <1>6, <1>7, <1>8, <1>9 DEF Next

-----------------------------------------------------------------------------
(* The theorems                                                            *)

\* What every request has learnt, what is owed and what shutting down waits for
\* hold in every state, whatever the databases hold and however requests,
\* refreshes, background saves and the shutdown interleave.
THEOREM LocateInvariant == Spec => []IInv
BY InitEstablishes, NextPreserves, PTL DEF Spec

\* No list is read outside its bounds, and only cells of ExternalDB are saved.
THEOREM LocateTypeCorrect == Spec => []TypeOK
<1>1. IInv => TypeOK
  BY DEF IInv
<1> QED  BY <1>1, LocateInvariant, PTL

\* Growing databases never make /locate skip a better source it could have
\* used, or answer that nothing was found when an item was known at arrival.
THEOREM SourcesInOrder == Spec => []SourceOrder
<1>1. IInv => SourceOrder
  BY DEF IInv, RequestInv, SourceOrder
<1> QED  BY <1>1, LocateInvariant, PTL

\* A cell known to be in the metro is never confirmed by a wifi, although the
\* second database holds it without the mark.
THEOREM MetroCellsStay == Spec => []MetroStaysPut
<1>1. IInv => MetroStaysPut
  BY DEF IInv, RequestInv, MetroStaysPut
<1> QED  BY <1>1, LocateInvariant, PTL

\* Whoever of several requests created the session, a located request without
\* a failed query has its point.
THEOREM AnswersRecorded == Spec => []AnswerRecorded
<1>1. IInv => AnswerRecorded
  <2> SUFFICES ASSUME IInv, NEW p \in Requests, result[p] = "located", ~faulty[p]
               PROVE  recorded[p]
    BY DEF AnswerRecorded
  <2> QED  BY DEF IInv, RequestInv, Sessioned
<1> QED  BY <1>1, LocateInvariant, PTL

\* The process that stops in order leaves no cell found in ExternalDB unsaved
\* for want of waiting.
THEOREM NothingLost == Spec => []StopLosesNothing
<1>1. IInv => StopLosesNothing
  BY DEF IInv, Owing, Shut, StopLosesNothing
<1> QED  BY <1>1, LocateInvariant, PTL

-----------------------------------------------------------------------------
(* How far a request is from its answer                                    *)

\* The numbers the steps of a request are counted in.
Counted(p) ==
    /\ Len(body[p].cells) \in Nat /\ Len(body[p].wifis) \in Nat /\ Len(body[p].ips) \in Nat
    /\ InPlace(p) /\ at[p] \in Nat /\ pc[p] \in Steps

LEMMA CountedHolds == ASSUME IInv, NEW p \in Requests PROVE Counted(p)
BY Lists DEF IInv, TypeOK, Counted, Steps

LEMMA StepsLeftIs ==
    ASSUME NEW p
    PROVE  LET C == Len(body[p].cells)
               W == Len(body[p].wifis)
               I == Len(body[p].ips)
           IN  /\ pc[p] = "session"  => StepsLeft(p) = 2 * C + W + I + 4
               /\ pc[p] = "cell"     => StepsLeft(p) = 2 * (C + 1 - at[p]) + W + I + 3
               /\ pc[p] = "external" => StepsLeft(p) = 2 * (C + 1 - at[p]) + W + I + 2
               /\ pc[p] = "wifi"     => StepsLeft(p) = W + I + 3 - at[p]
               /\ pc[p] = "ip"       => StepsLeft(p) = I + 2 - at[p]
               /\ pc[p] = "point"    => StepsLeft(p) = 1
               /\ pc[p] = "done"     => StepsLeft(p) = 0
BY DEF StepsLeft

\* A request that is under way has a step to take.
LEMMA StepsRemain ==
    ASSUME IInv, NEW p \in Requests, UnderWay(p)
    PROVE  StepsLeft(p) \in Nat /\ StepsLeft(p) > 0
<1> DEFINE C == Len(body[p].cells)
           W == Len(body[p].wifis)
           I == Len(body[p].ips)
           n == at[p]
           S == StepsLeft(p)
<1>1. /\ C \in Nat /\ W \in Nat /\ I \in Nat /\ n \in Nat
      /\ pc[p] \in {"session", "cell", "external", "wifi", "ip", "point"}
      /\ pc[p] \in {"cell", "external"} => n <= C + 1
      /\ pc[p] = "wifi" => n <= W + 1
      /\ pc[p] = "ip" => n <= I + 1
  BY CountedHolds DEF Counted, InPlace, UnderWay, Steps
<1>2. /\ pc[p] = "session"  => S = 2 * C + W + I + 4
      /\ pc[p] = "cell"     => S = 2 * (C + 1 - n) + W + I + 3
      /\ pc[p] = "external" => S = 2 * (C + 1 - n) + W + I + 2
      /\ pc[p] = "wifi"     => S = W + I + 3 - n
      /\ pc[p] = "ip"       => S = I + 2 - n
      /\ pc[p] = "point"    => S = 1
  BY StepsLeftIs
<1> HIDE DEF C, W, I, n, S
<1>3. S \in Nat /\ S > 0
  BY <1>1, <1>2
<1> QED  BY <1>3 DEF S

\* Where a step of p leads from each of its queries.
Onward(p) ==
    \/ pc'[p] = "done"
    \/ pc[p] \in {"cell", "external", "wifi"} /\ pc'[p] = "point"
    \/ pc[p] = "ip" /\ at[p] <= Len(body[p].ips) /\ pc'[p] = "point"
    \/ pc[p] = "session" /\ pc'[p] = "cell" /\ at'[p] = 1
    \/ pc[p] = "cell" /\ pc'[p] = "external" /\ at'[p] = at[p]
    \/ pc[p] = "external" /\ pc'[p] = "cell" /\ at'[p] = at[p] + 1
    \/ pc[p] \in {"cell", "external"} /\ pc'[p] = "wifi" /\ at'[p] = 1
    \/ pc[p] = "wifi" /\ pc'[p] = "ip" /\ at'[p] = 1
    \/ pc[p] \in {"wifi", "ip"} /\ pc'[p] = pc[p] /\ at'[p] = at[p] + 1

\* What every step of p shares.
OwnStep(p) ==
    /\ UnderWay(p) /\ body'[p] = body[p] /\ Onward(p)
    /\ \A q \in Requests \ {p} : Same(q)

LEMMA ProgressIsOnward ==
    ASSUME IInv, NEW p \in Requests, Progress(p)
    PROVE  OwnStep(p)
<1>0. TypeOK
  BY DEF IInv
<1> USE DEF At, stores, stop
<1>1. CASE CreateSession(p)
  BY <1>0, <1>1 DEF CreateSession, GoTo, TypeOK, UnderWay, Onward, Same, OwnStep
<1>2. CASE Fail(p)
  BY <1>0, <1>2 DEF Fail, TypeOK, UnderWay, Onward, Same, OwnStep
<1>3. CASE FindCell(p)
  BY <1>0, <1>3 DEF FindCell, FoundCell, Answers, GoTo, TypeOK, UnderWay, Onward, Same, OwnStep
<1>4. CASE FindExternal(p)
  BY <1>0, <1>4
     DEF FindExternal, FoundCell, NextAt, GoTo, TypeOK, UnderWay, Onward, Same, OwnStep
<1>5. CASE FindWifi(p)
  <2>1. pc[p] = "wifi" /\ body' = body /\ at' \in [Requests -> Nat]
    BY <1>0, <1>5
       DEF FindWifi, Weigh, NextAt, GoTo, Answers, TypeOK
  <2>2. Onward(p)
    BY <1>0, <1>5
       DEF FindWifi, Weigh, NextAt, GoTo, Answers, TypeOK, Onward
  <2>3. \A q \in Requests \ {p} : Same(q)
    BY <1>0, <1>5 DEF FindWifi, Weigh, NextAt, GoTo, Answers, TypeOK, Same
  <2> QED  BY <2>1, <2>2, <2>3 DEF OwnStep, UnderWay
<1>6. CASE FindIP(p)
  BY <1>0, <1>6 DEF FindIP, NextAt, GoTo, Answers, TypeOK, UnderWay, Onward, Same, OwnStep
<1>7. CASE SavePoint(p)
  BY <1>0, <1>7 DEF SavePoint, TypeOK, UnderWay, Onward, Same, OwnStep
<1> QED
  BY <1>1, <1>2, <1>3, <1>4, <1>5, <1>6, <1>7 DEF Progress

LEMMA OnwardIsLess ==
    ASSUME IInv, NEW p \in Requests, OwnStep(p)
    PROVE  StepsLeft(p)' < StepsLeft(p)
<1> DEFINE C == Len(body[p].cells)
           W == Len(body[p].wifis)
           I == Len(body[p].ips)
           n == at[p]
           m == at'[p]
           S == StepsLeft(p)
           T == StepsLeft(p)'
<1>1. /\ C \in Nat /\ W \in Nat /\ I \in Nat /\ n \in Nat
      /\ pc[p] \in {"session", "cell", "external", "wifi", "ip", "point"}
      /\ pc[p] = "cell" => n <= C + 1
      /\ pc[p] = "external" => n <= C
      /\ pc[p] = "wifi" => n <= W + 1
      /\ pc[p] = "ip" => n <= I + 1
  BY CountedHolds DEF OwnStep, Counted, InPlace, UnderWay, Steps
<1>2. /\ pc[p] = "session"  => S = 2 * C + W + I + 4
      /\ pc[p] = "cell"     => S = 2 * (C + 1 - n) + W + I + 3
      /\ pc[p] = "external" => S = 2 * (C + 1 - n) + W + I + 2
      /\ pc[p] = "wifi"     => S = W + I + 3 - n
      /\ pc[p] = "ip"       => S = I + 2 - n
      /\ pc[p] = "point"    => S = 1
  BY StepsLeftIs
<1>3. /\ pc'[p] = "cell"     => T = 2 * (C + 1 - m) + W + I + 3
      /\ pc'[p] = "external" => T = 2 * (C + 1 - m) + W + I + 2
      /\ pc'[p] = "wifi"     => T = W + I + 3 - m
      /\ pc'[p] = "ip"       => T = I + 2 - m
      /\ pc'[p] = "point"    => T = 1
      /\ pc'[p] = "done"     => T = 0
  BY DEF OwnStep, StepsLeft
<1>4. S \in Nat /\ S > 0
  BY StepsRemain DEF OwnStep
<1>5. Onward(p)
  BY DEF OwnStep
<1>6. T < S
  <2>1. CASE pc'[p] = "done"
    <3> HIDE DEF S, T
    <3> QED  BY <1>3, <1>4, <2>1
  <2>2. CASE pc[p] \in {"cell", "external", "wifi"} /\ pc'[p] = "point"
    <3> HIDE DEF C, W, I, S, T, m, n
    <3> QED  BY <1>1, <1>2, <1>3, <2>2
  <2>3. CASE pc[p] = "ip" /\ n <= I /\ pc'[p] = "point"
    <3> HIDE DEF C, W, I, S, T, m, n
    <3> QED  BY <1>1, <1>2, <1>3, <2>3
  <2>4. CASE pc[p] = "session" /\ pc'[p] = "cell" /\ m = 1
    <3> HIDE DEF C, W, I, S, T, m, n
    <3> QED  BY <1>1, <1>2, <1>3, <2>4
  <2>5. CASE pc[p] = "cell" /\ pc'[p] = "external" /\ m = n
    <3> HIDE DEF C, W, I, S, T, m, n
    <3> QED  BY <1>1, <1>2, <1>3, <2>5
  <2>6. CASE pc[p] = "external" /\ pc'[p] = "cell" /\ m = n + 1
    <3> HIDE DEF C, W, I, S, T, m, n
    <3> QED  BY <1>1, <1>2, <1>3, <2>6
  <2>7. CASE pc[p] \in {"cell", "external"} /\ pc'[p] = "wifi" /\ m = 1
    <3> HIDE DEF C, W, I, S, T, m, n
    <3> QED  BY <1>1, <1>2, <1>3, <2>7
  <2>8. CASE pc[p] = "wifi" /\ pc'[p] = "ip" /\ m = 1
    <3> HIDE DEF C, W, I, S, T, m, n
    <3> QED  BY <1>1, <1>2, <1>3, <2>8
  <2>9. CASE pc[p] \in {"wifi", "ip"} /\ pc'[p] = pc[p] /\ m = n + 1
    <3> HIDE DEF C, W, I, S, T, m, n
    <3> QED  BY <1>1, <1>2, <1>3, <2>9
  <2> HIDE DEF S, T
  <2> QED
    BY <1>5, <2>1, <2>2, <2>3, <2>4, <2>5, <2>6, <2>7, <2>8, <2>9, Zenon DEF Onward
<1> QED  BY <1>6 DEF S, T

\* A request that takes no part in a step stays where it is.
LEMMA OthersStay ==
    ASSUME IInv, [Next]_vars, NEW p \in Requests, UnderWay(p), ~Progress(p)
    PROVE  pc'[p] = pc[p] /\ at'[p] = at[p]
<1>1. ASSUME NEW q \in Requests, Progress(q) PROVE pc'[p] = pc[p] /\ at'[p] = at[p]
  BY <1>1, ProgressIsOnward DEF OwnStep, Same
<1>2. ASSUME NEW q \in Requests, Arrive(q) PROVE pc'[p] = pc[p] /\ at'[p] = at[p]
  BY <1>2 DEF Arrive, IInv, TypeOK, UnderWay
<1> QED
  BY <1>1, <1>2
     DEF Next, SaveCell, Learn, Signal, ShutdownReturns, ShutdownTimesOut, Stopped, vars, work

\* A request makes a bounded number of queries, whatever happens beside it: each
\* of its steps leaves it fewer and no other step of the system takes that back.
THEOREM QueriesAreBounded == Spec => QueriesRunOut
<1>1. ASSUME IInv, [Next]_vars, NEW p \in Requests, UnderWay(p)
      PROVE  /\ StepsLeft(p) > 0
             /\ \/ StepsLeft(p)' < StepsLeft(p)
                \/ pc'[p] = pc[p] /\ at'[p] = at[p]
  <2>1. StepsLeft(p) > 0
    BY <1>1, StepsRemain
  <2>2. CASE Progress(p)
    BY <1>1, <2>1, <2>2, ProgressIsOnward, OnwardIsLess
  <2>3. CASE ~Progress(p)
    BY <1>1, <2>1, <2>3, OthersStay
  <2> QED  BY <2>2, <2>3
<1>2. IInv /\ [Next]_vars =>
        [\A p \in Requests : UnderWay(p) =>
          /\ StepsLeft(p) > 0
          /\ \/ StepsLeft(p)' < StepsLeft(p)
             \/ pc'[p] = pc[p] /\ at'[p] = at[p]]_vars
  BY <1>1
<1> QED
  BY <1>2, LocateInvariant, PTL DEF Spec, QueriesRunOut
=============================================================================
