--------------------------- MODULE LocateRequests ---------------------------
(***************************************************************************)
(* /locate from arrival to answer (handler/locate.go, service/locate.go),  *)
(* one step per query: cells in LocateDB and, one by one, in ExternalDB,   *)
(* then wifi, then ip, while refreshes add to LocateDB; the goroutines     *)
(* that save cells found in ExternalDB to UpdateDB; and the shutdown of    *)
(* the server (cmd/server/main.go), which has to wait for both.            *)
(*                                                                         *)
(* A location is the item it was found for.  Upserts never remove an item  *)
(* from LocateDB, and what ExternalDB holds does not change.               *)
(***************************************************************************)
EXTENDS Naturals, Sequences

CONSTANTS Cells, Wifis, Ips,
          Untyped,      \* cells of a request without lte, gsm or wcdma
          Metro,        \* cells LocateDB marks from_metro
          External,     \* cells in ExternalDB
          Near,         \* pairs of cell and wifi less than 5 km apart
          Bodies,       \* request bodies
          BadUuids,     \* sessionUUIDs Postgres does not take for a UUID
          Requests,     \* bound: the requests that arrive
          Batches,      \* what they may bring: functions from Requests to Bodies
          None          \* the nil *Location

ASSUME LocateAssumption ==
    /\ Untyped \subseteq Cells /\ Metro \subseteq Cells /\ External \subseteq Cells
    /\ Untyped \cap (Metro \cup External) = {}
    /\ Near \subseteq Cells \X Wifis
    /\ None \notin Cells \cup Wifis \cup Ips
    /\ Batches \subseteq [Requests -> Bodies]
    /\ \A b \in Bodies : /\ b.cells \in Seq(Cells)
                        /\ b.wifis \in Seq(Wifis)
                        /\ b.ips \in Seq(Ips)

Items == (Cells \ Untyped) \cup Wifis \cup Ips

VARIABLES
    mirror,    \* items LocateDB has coordinates for
    sessions,  \* sessionUUIDs in the sessions table
    updates,   \* cells in UpdateDB
    phase,     \* main: "up", "draining", "waiting", "stopped" or "killed"
    saving,    \* requests whose goroutine of the WaitGroup has yet to insert
    pc,        \* pc[p]: "new", the query p makes next, or "done"
    body,      \* body[p]: the decoded request
    at,        \* at[p]: place in the list p is searching
    cell,      \* cell[p]: the cell found, or None
    answer,    \* answer[p]: the location found, or None
    result,    \* result[p]: "none", "located", "empty" or "error"
    recorded,  \* recorded[p]: the point was saved
    \* history variables, read by the properties only
    atStart,   \* atStart[p]: mirror when p arrived
    faulty,    \* faulty[p]: a query of p failed
    owed,      \* cells found in ExternalDB
    dropped    \* cells whose insert failed

work   == <<pc, body, at, cell, answer, result, recorded, atStart, faulty>>
vars   == <<mirror, sessions, updates, phase, saving, work, owed, dropped>>
stores == <<mirror, sessions, updates>>
stop   == <<phase, saving, owed, dropped>>

Running == phase \in {"up", "draining", "waiting"}

Init == /\ mirror = {} /\ sessions = {} /\ updates = {}
        /\ phase = "up"
        /\ saving = {}
        /\ pc = [p \in Requests |-> "new"]
        /\ body \in Batches
        /\ at = [p \in Requests |-> 1]
        /\ cell = [p \in Requests |-> None]
        /\ answer = [p \in Requests |-> None]
        /\ result = [p \in Requests |-> "none"]
        /\ recorded = [p \in Requests |-> FALSE]
        /\ atStart = [p \in Requests |-> {}]
        /\ faulty = [p \in Requests |-> FALSE]
        /\ owed = {} /\ dropped = {}

-----------------------------------------------------------------------------
(* FindLocation                                                            *)

\* A connection accepted before Shutdown may still send its request after it.
Arrive(p) ==
    /\ phase \in {"up", "draining"}
    /\ pc[p] = "new"
    /\ pc' = [pc EXCEPT ![p] = "session"]
    /\ atStart' = [atStart EXCEPT ![p] = mirror]
    /\ UNCHANGED <<stores, stop, body, at, cell, answer, result, recorded, faulty>>

\* FindLTE, FindGSM, FindWCDMA, FindWifi and FindIP of the two databases.
InLocateDB(x)   == x \in mirror
InExternalDB(c) == c \in External

At(p, query) == Running /\ pc[p] = query

\* p goes on with another query, at place n of its list.
GoTo(p, query, n) == /\ pc' = [pc EXCEPT ![p] = query]
                     /\ at' = [at EXCEPT ![p] = n]

\* Mutation variant: the session is not created.
NoSession(u) == sessions

\* INSERT ... ON CONFLICT (session_uuid) DO NOTHING
WithSession(u) == sessions \cup {u}

\* CreateIfNotExists; an error is logged and the search goes on.
CreateSession(p) ==
    LET u == body[p].uuid
    IN  /\ At(p, "session")
        /\ \/ u \notin BadUuids /\ sessions' = WithSession(u) /\ UNCHANGED faulty
           \/ UNCHANGED sessions /\ faulty' = [faulty EXCEPT ![p] = TRUE]
        /\ GoTo(p, "cell", 1)
        /\ UNCHANGED <<mirror, updates, stop, body, cell, answer, result, recorded, atStart>>

\* Any failed lookup fails the whole request, whatever was found before.
Fail(p) ==
    /\ \/ \E query \in {"cell", "external", "wifi", "ip"} :
             At(p, query) /\ faulty' = [faulty EXCEPT ![p] = TRUE]
       \/ /\ At(p, "cell")
          /\ at[p] <= Len(body[p].cells)
          /\ body[p].cells[at[p]] \in Untyped
          /\ UNCHANGED faulty
    /\ pc' = [pc EXCEPT ![p] = "done"]
    /\ result' = [result EXCEPT ![p] = "error"]
    /\ UNCHANGED <<stores, stop, body, at, cell, answer, recorded, atStart>>

Answers(p, kind, item, c) ==
    /\ answer' = [answer EXCEPT ![p] = [kind |-> kind, item |-> item, cell |-> c]]
    /\ cell' = [cell EXCEPT ![p] = c]
    /\ pc' = [pc EXCEPT ![p] = "point"]
    /\ UNCHANGED <<at, body, result, recorded, atStart, faulty>>

\* A cell is found: one from the metro settles the search at once.
FoundCell(p, c, fromMetro) ==
    \/ fromMetro /\ Answers(p, "cell", c, c)
    \/ /\ ~fromMetro
       /\ cell' = [cell EXCEPT ![p] = c]
       /\ GoTo(p, "wifi", 1)
       /\ UNCHANGED <<body, answer, result, recorded, atStart, faulty>>

\* findCell, its loop and findCellInRepo over LocateDB.
FindCell(p) ==
    LET cells == body[p].cells
    IN  /\ At(p, "cell")
        /\ \/ /\ at[p] > Len(cells)
              /\ GoTo(p, "wifi", 1)
              /\ UNCHANGED <<body, cell, answer, result, recorded, atStart, faulty>>
           \/ /\ at[p] <= Len(cells)
              /\ cells[at[p]] \notin Untyped
              /\ \/ /\ InLocateDB(cells[at[p]])
                    /\ FoundCell(p, cells[at[p]], cells[at[p]] \in Metro)
                 \/ /\ ~InLocateDB(cells[at[p]])
                    /\ GoTo(p, "external", at[p])
                    /\ UNCHANGED <<body, cell, answer, result, recorded, atStart, faulty>>
        /\ UNCHANGED <<stores, stop>>

\* Mutation variants: the next cell is skipped, or never reached.
SkipOne(n) == n + 2
StayAt(n) == n

NextAt(n) == n + 1

\* findCellInRepo over ExternalDB, which knows nothing of the metro; a cell found
\* there is saved to UpdateDB in the background.
FindExternal(p) ==
    LET c == body[p].cells[at[p]]
    IN  /\ At(p, "external")
        /\ \/ /\ InExternalDB(c)
              /\ saving' = saving \cup {p}
              /\ owed' = owed \cup {c}
              /\ FoundCell(p, c, FALSE)
           \/ /\ ~InExternalDB(c)
              /\ GoTo(p, "cell", NextAt(at[p]))
              /\ UNCHANGED <<saving, owed, body, cell, answer, result, recorded,
                             atStart, faulty>>
        /\ UNCHANGED <<stores, phase, dropped>>

\* Mutation variant: any wifi confirms any cell.
ConfirmsAny(c, w) == c # None /\ w # None
Confirms(c, w) == c # None /\ w # None /\ <<c, w>> \in Near

\* What searchBySource makes of the cell and the wifi found; with neither it
\* turns to the addresses.
Weigh(p, w) ==
    LET c == cell[p]
    IN  \/ Confirms(c, w) /\ Answers(p, "confirmed", w, c)
        \/ c # None /\ ~Confirms(c, w) /\ Answers(p, "cell", c, c)
        \/ c = None /\ w # None /\ Answers(p, "wifi", w, None)
        \/ /\ c = None /\ w = None
           /\ GoTo(p, "ip", 1)
           /\ UNCHANGED <<body, cell, answer, result, recorded, atStart, faulty>>

FindWifi(p) ==
    LET wifis == body[p].wifis
    IN  /\ At(p, "wifi")
        /\ \/ at[p] > Len(wifis) /\ Weigh(p, None)
           \/ at[p] <= Len(wifis) /\ InLocateDB(wifis[at[p]]) /\ Weigh(p, wifis[at[p]])
           \/ /\ at[p] <= Len(wifis) /\ ~InLocateDB(wifis[at[p]])
              /\ GoTo(p, "wifi", NextAt(at[p]))
              /\ UNCHANGED <<body, cell, answer, result, recorded, atStart, faulty>>
        /\ UNCHANGED <<stores, stop>>

\* What a search that found nothing returns: nil, and no error.
NotFound == "empty"

FindIP(p) ==
    LET ips == body[p].ips
    IN  /\ At(p, "ip")
        /\ \/ /\ at[p] > Len(ips)
              /\ pc' = [pc EXCEPT ![p] = "done"]
              /\ result' = [result EXCEPT ![p] = NotFound]
              /\ UNCHANGED <<at, body, cell, answer, recorded, atStart, faulty>>
           \/ /\ at[p] <= Len(ips) /\ InLocateDB(ips[at[p]])
              /\ Answers(p, "ip", ips[at[p]], None)
           \/ /\ at[p] <= Len(ips) /\ ~InLocateDB(ips[at[p]])
              /\ GoTo(p, "ip", NextAt(at[p]))
              /\ UNCHANGED <<body, cell, answer, result, recorded, atStart, faulty>>
        /\ UNCHANGED <<stores, stop>>

\* SavePoint: the foreign key refuses a point without its session.  An error is
\* logged and the answer sent.
SavePoint(p) ==
    /\ At(p, "point")
    /\ \/ /\ body[p].uuid \in sessions
          /\ recorded' = [recorded EXCEPT ![p] = TRUE]
          /\ UNCHANGED faulty
       \/ body[p].uuid \notin sessions /\ UNCHANGED <<recorded, faulty>>
       \/ UNCHANGED recorded /\ faulty' = [faulty EXCEPT ![p] = TRUE]
    /\ pc' = [pc EXCEPT ![p] = "done"]
    /\ result' = [result EXCEPT ![p] = "located"]
    /\ UNCHANGED <<stores, stop, body, at, cell, answer, atStart>>

-----------------------------------------------------------------------------
(* Around the requests                                                     *)

\* A refresh upserts an item.
Learn(x) == /\ Running
            /\ mirror' = mirror \cup {x}
            /\ UNCHANGED <<sessions, updates, stop, work>>

\* The goroutine inserts the cell, or logs that it could not.
SaveCell(p) ==
    /\ Running
    /\ p \in saving
    /\ saving' = saving \ {p}
    /\ \/ updates' = updates \cup {cell[p]} /\ UNCHANGED dropped
       \/ dropped' = dropped \cup {cell[p]} /\ UNCHANGED updates
    /\ UNCHANGED <<mirror, sessions, phase, work, owed>>

\* SIGINT or SIGTERM; main calls server.Shutdown.
Signal == /\ phase = "up"
          /\ phase' = "draining"
          /\ UNCHANGED <<stores, saving, work, owed, dropped>>

UnderWay(p) == pc[p] \notin {"new", "done"}
Idle == \A p \in Requests : ~UnderWay(p)

\* Mutation variant: Shutdown does not wait.
AnyTime == TRUE

\* Shutdown returns nil once no connection is active.
Drained == Idle

ShutdownReturns == /\ phase = "draining"
                   /\ Drained
                   /\ phase' = "waiting"
                   /\ UNCHANGED <<stores, saving, work, owed, dropped>>

\* The five seconds are over: log.Fatalf ends the process.
ShutdownTimesOut == /\ phase = "draining"
                    /\ ~Idle
                    /\ phase' = "killed"
                    /\ UNCHANGED <<stores, saving, work, owed, dropped>>

\* Mutation variant: main does not wait for the group.
NoWait == TRUE

\* wg.Wait()
Waited == saving = {}

Stopped == /\ phase = "waiting"
           /\ Waited
           /\ phase' = "stopped"
           /\ UNCHANGED <<stores, saving, work, owed, dropped>>

Progress(p) == \/ CreateSession(p) \/ Fail(p) \/ FindCell(p) \/ FindExternal(p)
               \/ FindWifi(p) \/ FindIP(p) \/ SavePoint(p)

Next == \/ \E p \in Requests : Arrive(p) \/ Progress(p) \/ SaveCell(p)
        \/ \E x \in Items : Learn(x)
        \/ Signal \/ ShutdownReturns \/ ShutdownTimesOut \/ Stopped

Spec == Init /\ [][Next]_vars

\* Handlers and goroutines run on: every query returns a row or an error.
FairSpec == /\ Spec
            /\ \A p \in Requests : WF_vars(Progress(p)) /\ WF_vars(SaveCell(p))
            /\ WF_vars(ShutdownReturns) /\ WF_vars(Stopped)

-----------------------------------------------------------------------------
(* Properties                                                              *)

Locations == [kind : {"cell", "confirmed", "wifi", "ip"}, item : Items,
              cell : Cells \cup {None}]

\* A request stands at a place of the list it searches, or just past its end.
InPlace(p) ==
    /\ pc[p] = "cell"     => at[p] \in 1..Len(body[p].cells) + 1
    /\ pc[p] = "external" => at[p] \in 1..Len(body[p].cells)
    /\ pc[p] = "wifi"     => at[p] \in 1..Len(body[p].wifis) + 1
    /\ pc[p] = "ip"       => at[p] \in 1..Len(body[p].ips) + 1

\* Every list is searched within its bounds, and only a cell of ExternalDB is
\* ever owed, saved or dropped.
TypeOK ==
    /\ mirror \in SUBSET Items
    /\ updates \in SUBSET External
    /\ phase \in {"up", "draining", "waiting", "stopped", "killed"}
    /\ saving \subseteq {p \in Requests : cell[p] \in External}
    /\ pc \in [Requests -> {"new", "done", "session", "cell", "external", "wifi", "ip", "point"}]
    /\ body \in [Requests -> Bodies]
    /\ at \in [Requests -> Nat]
    /\ \A p \in Requests : InPlace(p)
    /\ cell \in [Requests -> Cells \cup {None}]
    /\ answer \in [Requests -> Locations \cup {None}]
    /\ result \in [Requests -> {"none", "located", "empty", "error"}]
    /\ recorded \in [Requests -> BOOLEAN]
    /\ atStart \in [Requests -> SUBSET Items]
    /\ faulty \in [Requests -> BOOLEAN]
    /\ owed \in SUBSET External /\ dropped \in SUBSET External

Elements(s) == {s[i] : i \in 1..Len(s)}

\* Items of p's request that could be found from the moment it arrived.
KnownCells(p) == Elements(body[p].cells) \cap (atStart[p] \cup External)
KnownWifis(p) == Elements(body[p].wifis) \cap atStart[p]
KnownIps(p)   == Elements(body[p].ips) \cap atStart[p]

\* The cell an answer rests on precedes, or is, the first one known at arrival.
EarlyCell(p, c) ==
    \E i \in 1..Len(body[p].cells) :
        /\ body[p].cells[i] = c
        /\ \A j \in 1..i - 1 : body[p].cells[j] \notin KnownCells(p)

InOrder(p) ==
    /\ answer[p] # None =>
          /\ answer[p].kind \in {"cell", "confirmed"} => EarlyCell(p, answer[p].cell)
          /\ answer[p].kind \in {"wifi", "ip"} => KnownCells(p) = {}
          /\ answer[p].kind = "ip" => KnownWifis(p) = {}
    /\ result[p] = "empty" => KnownCells(p) \cup KnownWifis(p) \cup KnownIps(p) = {}

\* The order of the sources survives that LocateDB grows between two queries of
\* a request: nothing is answered from a source while an earlier one in the
\* order cell, wifi, ip knew an item at arrival; and what is known is found.
SourceOrder == \A p \in Requests : InOrder(p)

ConfirmedRightly(p) ==
    answer[p] # None /\ answer[p].kind = "confirmed" =>
        /\ <<answer[p].cell, answer[p].item>> \in Near
        /\ answer[p].cell \notin Metro \cap atStart[p]

\* A wifi speaks for a cell only when it is near it, and never for one that
\* LocateDB had as a metro cell when the request arrived, although ExternalDB
\* holds the same cell without that mark.
MetroStaysPut == \A p \in Requests : ConfirmedRightly(p)

\* However many requests of a session race to create it, a located request has
\* left its point unless one of its queries failed.
AnswerRecorded ==
    \A p \in Requests : result[p] = "located" /\ ~faulty[p] => recorded[p]

\* When main returns, no request is under way, and every cell that was found in
\* ExternalDB is in UpdateDB or its insert failed: Shutdown before Wait lets no
\* handler start a goroutine that nobody waits for.
StopLosesNothing ==
    phase = "stopped" => Idle /\ owed \subseteq updates \cup dropped

\* Every request is answered, unless the process is killed under it.
RequestsEnd ==
    \A p \in Requests : UnderWay(p) ~> pc[p] = "done" \/ phase = "killed"

\* The most steps p can still take: two for a cell, one for a wifi or an
\* address, one past the end of each list, one for the session and the point.
StepsLeft(p) ==
    LET cells == Len(body[p].cells)
        wifis == Len(body[p].wifis)
        ips   == Len(body[p].ips)
    IN  CASE pc[p] = "session"  -> 2 * cells + wifis + ips + 4
          [] pc[p] = "cell"     -> 2 * (cells + 1 - at[p]) + wifis + ips + 3
          [] pc[p] = "external" -> 2 * (cells + 1 - at[p]) + wifis + ips + 2
          [] pc[p] = "wifi"     -> wifis + ips + 3 - at[p]
          [] pc[p] = "ip"       -> ips + 2 - at[p]
          [] pc[p] = "point"    -> 1
          [] OTHER              -> 0

\* Whatever LocateDB learns meanwhile, and whatever the other requests, the
\* saves and main do, a request makes a number of queries its body fixes: every
\* step of it leaves it fewer, and no step of anything else takes it back.
QueriesRunOut ==
    [][\A p \in Requests : UnderWay(p) =>
          /\ StepsLeft(p) > 0
          /\ \/ StepsLeft(p)' < StepsLeft(p)
             \/ pc'[p] = pc[p] /\ at'[p] = at[p]]_vars
=============================================================================
