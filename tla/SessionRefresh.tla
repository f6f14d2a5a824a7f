--------------------------- MODULE SessionRefresh ---------------------------
(***************************************************************************)
(* What /update stores, and how the administrator's correction of a        *)
(* session's points reaches the lookups (service/update.go,                *)
(* service/session_admin.go).  An /update is a row of queries that can     *)
(* fail one by one: the session, its point, then every item.  /locate      *)
(* saves a point as well, at the position of its answer.                   *)
(* RefreshFromSession reads the points of a session once and writes their  *)
(* items to LocateDB one by one, while requests, corrections, other        *)
(* refreshes and the copy of UpdateDB (RefreshPipeline, here: any row at   *)
(* any time) go on.                                                        *)
(*                                                                         *)
(* One technology stands for the three, an identifier of a cell for its    *)
(* four; ExternalDB and the choice among several answers are               *)
(* LocateRequests' part.                                                   *)
(***************************************************************************)
EXTENDS Integers, Sequences

CONSTANTS Clients, Admins, Sessions,
          Cells,      \* identifiers of cells in requests, some too wide
          Wifis, Addresses,
          Blank,      \* the empty BSSID, which Validate lets through
          Coords,
          Requests,   \* the requests clients send
          None,
          Half,       \* INT holds -Half .. Half - 1
          MaxSends,   \* bound: requests sent
          MaxFaults   \* bound: failed queries and ends of the process

ASSUME IntAssumption == Cells \subseteq Int /\ Half \in Nat \ {0}

Items  == [kind : {"cell"}, id : Cells] \cup [kind : {"wifi"}, id : Wifis]
              \cup [kind : {"ip"}, id : Addresses]
Narrow == (-Half)..(Half - 1)
Keys   == ({"LTE", "lte"} \X Narrow) \cup ({"wifi"} \X Wifis) \cup ({"ip"} \X Addresses)
Points == [session : Sessions, at : Coords, items : Seq(Items)]

\* What Validate accepts, cells before networks before addresses; /locate makes
\* up a session when it has none.
ASSUME RequestAssumption ==
    Requests \subseteq
        [kind : {"update"}, session : Sessions \cup {None}, at : Coords, metro : BOOLEAN,
         items : Seq(Items) \ {<<>>}]
            \cup [kind : {"locate"}, session : Sessions, items : Seq(Items)]

ASSUME SomeAssumption == /\ Sessions # {} /\ Requests # {}
                         /\ None \notin Sessions /\ None \notin Coords

VARIABLES
    step,       \* step[c]: the next query of c's request, or how it ended
    sent,       \* sent[c]: the request
    found,      \* found[c]: the position /locate found
    next,       \* next[c]: the item /update inserts next
    known,      \* the table sessions
    points,     \* session_points, in the order of their timestamps
    updateDB,   \* cells, wifi and ip of UpdateDB
    locateDB,   \* cells, wifi and ip of LocateDB: position and metro mark
    phase,      \* phase[r]: "idle", "running" or "done"
    of,         \* of[r]: the session r refreshes
    snap,       \* snap[r]: the points r has read
    point, item, \* the point and the item r is at
    sends, faults,
    disturbed   \* history: keys whose points or rows others changed since r began

requestVars == <<step, sent, found, next, known>>
refreshVars == <<phase, of, snap, point, item>>
vars == <<requestVars, points, updateDB, locateDB, refreshVars, sends, faults, disturbed>>

Fault == faults < MaxFaults /\ faults' = faults + 1

Goto(c, s) == step' = [step EXCEPT ![c] = s]

-----------------------------------------------------------------------------
(* Keys                                                                    *)

SessionTech == "lte"

\* int32(n).
Cut(n) == ((n + Half) % (2 * Half)) - Half

\* Mutation variant: columns that take every identifier.
FitsAlways(it) == TRUE

Fits(it) == it.kind = "cell" => it.id \in Narrow

\* The key of an item in UpdateDB and in the lookups, and in a session refresh.
LookupKey(it)  == IF it.kind = "cell" THEN <<"LTE", it.id>> ELSE <<it.kind, it.id>>
SessionKey(it) == IF it.kind = "cell" THEN <<SessionTech, Cut(it.id)>>
                                      ELSE <<it.kind, it.id>>

Skipped(it) == it.kind = "wifi" /\ it.id = Blank

\* The keys a session refresh writes for the items of a point.
KeysOf(items) == {SessionKey(items[j]) : j \in {j \in DOMAIN items : ~Skipped(items[j])}}

\* Other writers: what r has written, or read, of these keys no longer counts.
Disturb(keys, others) ==
    disturbed' = [r \in Admins |-> IF r \in others THEN disturbed[r] \cup keys
                                                   ELSE disturbed[r]]

\* The refreshes that read the points of a session.
Readers(s) == {r \in Admins : of[r] = s}

-----------------------------------------------------------------------------
(* Requests                                                                *)

Receive(c, q) ==
    /\ step[c] \in {"idle", "ok", "failed"}
    /\ sends < MaxSends
    /\ sends' = sends + 1
    /\ sent' = [sent EXCEPT ![c] = q]
    /\ next' = [next EXCEPT ![c] = 1]
    /\ Goto(c, IF q.session = None THEN "insert" ELSE "session")
    /\ UNCHANGED <<found, known, points, updateDB, locateDB, refreshVars, faults, disturbed>>

\* A failure is a WARN in the log and the request goes on.
CreateIfNotExists(c) ==
    /\ step[c] = "session"
    /\ \/ known' = known \cup {sent[c].session} /\ UNCHANGED faults
       \/ Fault /\ UNCHANGED known
    /\ Goto(c, IF sent[c].kind = "update" THEN "point" ELSE "search")
    /\ UNCHANGED <<sent, found, next, points, updateDB, locateDB, refreshVars, sends, disturbed>>

\* searchBySource: the position of one of the items. Nothing found ends the
\* request without a point.
Search(c) ==
    /\ step[c] = "search"
    /\ LET items == sent[c].items
           Hits  == {j \in DOMAIN items : Fits(items[j])
                                             /\ locateDB[LookupKey(items[j])] # None}
       IN  \/ \E j \in Hits :
                  /\ found' = [found EXCEPT ![c] = locateDB[LookupKey(items[j])].at]
                  /\ Goto(c, "point")
           \/ Hits = {} /\ Goto(c, "ok") /\ UNCHANGED found
    /\ UNCHANGED <<sent, next, known, points, updateDB, locateDB, refreshVars, sends, faults,
                   disturbed>>

\* A query fails, as it does for a cell that is too wide.
SearchFails(c) ==
    /\ step[c] = "search"
    /\ \/ Fault
       \/ (\E j \in DOMAIN sent[c].items : ~Fits(sent[c].items[j])) /\ UNCHANGED faults
    /\ Goto(c, "failed")
    /\ UNCHANGED <<sent, found, next, known, points, updateDB, locateDB, refreshVars, sends,
                   disturbed>>

AfterPoint(c) == Goto(c, IF sent[c].kind = "update" THEN "insert" ELSE "ok")

SavePoint(c) ==
    /\ step[c] = "point"
    /\ sent[c].session \in known
    /\ LET at == IF sent[c].kind = "update" THEN sent[c].at ELSE found[c]
       IN  points' = Append(points, [session |-> sent[c].session, at |-> at,
                                     items |-> sent[c].items])
    /\ AfterPoint(c)
    /\ Disturb(KeysOf(sent[c].items), Readers(sent[c].session))
    /\ UNCHANGED <<sent, found, next, known, updateDB, locateDB, refreshVars, sends, faults>>

\* Without its session a point violates the foreign key.
SavePointFails(c) ==
    /\ step[c] = "point"
    /\ \/ sent[c].session \notin known /\ UNCHANGED faults
       \/ sent[c].session \in known /\ Fault
    /\ AfterPoint(c)
    /\ UNCHANGED <<sent, found, next, known, points, updateDB, locateDB, refreshVars, sends,
                   disturbed>>

AfterInsert(c) ==
    IF next[c] = Len(sent[c].items)
    THEN Goto(c, "ok") /\ UNCHANGED next
    ELSE next' = [next EXCEPT ![c] = @ + 1] /\ UNCHANGED step

\* InsertCell, InsertWifi, InsertIP: only cells have a unique key, and the type
\* of the others is never read.
Insert(c) ==
    /\ step[c] = "insert"
    /\ LET it  == sent[c].items[next[c]]
           row == [key |-> LookupKey(it), at |-> sent[c].at,
                   metro |-> it.kind = "cell" /\ sent[c].metro]
       IN  /\ Fits(it)
           /\ updateDB' = IF it.kind = "cell" /\ \E old \in updateDB : old.key = row.key
                          THEN updateDB
                          ELSE updateDB \cup {row}
    /\ AfterInsert(c)
    /\ UNCHANGED <<sent, found, known, points, locateDB, refreshVars, sends, faults, disturbed>>

InsertFault(c) == /\ step[c] = "insert"
                  /\ Fault \/ (~Fits(sent[c].items[next[c]]) /\ UNCHANGED faults)
                  /\ UNCHANGED <<sent, found, known, points, updateDB, locateDB, refreshVars,
                                 sends, disturbed>>

\* Mutation variant: the loop goes on after a failed item.
InsertIgnored(c) == InsertFault(c) /\ AfterInsert(c)

\* The first failure ends the request; what came before it stays.
InsertFails(c) == InsertFault(c) /\ Goto(c, "failed") /\ UNCHANGED next

Request(c) == \/ \E q \in Requests : Receive(c, q)
              \/ CreateIfNotExists(c)
              \/ Search(c) \/ SearchFails(c)
              \/ SavePoint(c) \/ SavePointFails(c)
              \/ Insert(c) \/ InsertFails(c)

-----------------------------------------------------------------------------
(* The administrator                                                       *)

\* The session in the path is not looked at.
UpdatePoint(p, at) ==
    /\ points' = [points EXCEPT ![p].at = at]
    /\ Disturb(KeysOf(points[p].items), Readers(points[p].session))
    /\ UNCHANGED <<requestVars, updateDB, locateDB, refreshVars, sends, faults>>

\* Mutation variant: ORDER BY timestamp DESC.
NewestFirst(ps) == [p \in 1..Len(ps) |-> ps[Len(ps) + 1 - p]]

Ordered(ps) == ps

\* RefreshFromSession reads the points; those of other sessions are passed over.
Begin(r, s) ==
    /\ phase[r] # "running"
    /\ phase' = [phase EXCEPT ![r] = "running"]
    /\ of' = [of EXCEPT ![r] = s]
    /\ snap' = [snap EXCEPT ![r] = Ordered(points)]
    /\ point' = [point EXCEPT ![r] = 1]
    /\ item' = [item EXCEPT ![r] = 1]
    /\ disturbed' = [disturbed EXCEPT ![r] = {}]
    /\ UNCHANGED <<requestVars, points, updateDB, locateDB, sends, faults>>

AtPoint(r) == phase[r] = "running" /\ point[r] <= Len(snap[r])
Here(r)    == snap[r][point[r]]
AtItem(r)  == AtPoint(r) /\ Here(r).session = of[r] /\ item[r] <= Len(Here(r).items)

NextPoint(r) ==
    /\ AtPoint(r) /\ ~AtItem(r)
    /\ point' = [point EXCEPT ![r] = @ + 1]
    /\ item' = [item EXCEPT ![r] = 1]
    /\ UNCHANGED <<requestVars, points, updateDB, locateDB, phase, of, snap, sends, faults,
                   disturbed>>

NextItem(r) == /\ item' = [item EXCEPT ![r] = @ + 1]
               /\ UNCHANGED <<requestVars, points, updateDB, phase, of, snap, point, sends>>

Skip(r) == /\ AtItem(r)
           /\ Skipped(Here(r).items[item[r]])
           /\ NextItem(r)
           /\ UNCHANGED <<locateDB, faults, disturbed>>

\* cellToRefreshRow leaves the object type NULL: the mark becomes false.
Upsert(r) ==
    /\ AtItem(r)
    /\ LET it  == Here(r).items[item[r]]
           key == SessionKey(it)
       IN  /\ ~Skipped(it)
           /\ locateDB' = [locateDB EXCEPT ![key] = [at |-> Here(r).at, metro |-> FALSE]]
           /\ Disturb({key}, Admins \ {r})
    /\ NextItem(r)
    /\ UNCHANGED faults

\* A failed upsert is not counted in the statistics, and that is all.
UpsertFails(r) ==
    /\ AtItem(r)
    /\ LET it == Here(r).items[item[r]]
       IN  ~Skipped(it) /\ Disturb({SessionKey(it)}, {r})
    /\ NextItem(r)
    /\ Fault
    /\ UNCHANGED locateDB

Finish(r) ==
    /\ phase[r] = "running" /\ point[r] > Len(snap[r])
    /\ phase' = [phase EXCEPT ![r] = "done"]
    /\ snap' = [snap EXCEPT ![r] = <<>>]
    /\ point' = [point EXCEPT ![r] = 1]
    /\ UNCHANGED <<requestVars, points, updateDB, locateDB, of, item, sends, faults, disturbed>>

Administer == \/ \E p \in DOMAIN points, at \in Coords : UpdatePoint(p, at)
              \/ \E r \in Admins : \/ \E s \in Sessions : Begin(r, s)
                                   \/ NextPoint(r) \/ Skip(r)
                                   \/ Upsert(r) \/ UpsertFails(r)
                                   \/ Finish(r)

-----------------------------------------------------------------------------

\* RefreshService.Refresh writes some row of UpdateDB.
Copy(row) ==
    /\ locateDB' = [locateDB EXCEPT ![row.key] = [at |-> row.at, metro |-> row.metro]]
    /\ Disturb({row.key}, Admins)
    /\ UNCHANGED <<requestVars, points, updateDB, refreshVars, sends, faults>>

\* Requests and refreshes of a process die with it.
Die ==
    /\ Fault
    /\ step' = [c \in Clients |-> IF step[c] \in {"idle", "ok"} THEN step[c] ELSE "failed"]
    /\ phase' = [r \in Admins |-> "idle"]
    /\ UNCHANGED <<sent, found, next, known, points, updateDB, locateDB, of, snap, point, item,
                   sends, disturbed>>

AnySession == CHOOSE s \in Sessions : TRUE
AnyRequest == CHOOSE q \in Requests : TRUE

Init ==
    /\ step = [c \in Clients |-> "idle"]
    /\ sent = [c \in Clients |-> AnyRequest]
    /\ found = [c \in Clients |-> None]
    /\ next = [c \in Clients |-> 1]
    /\ known = {} /\ points = <<>> /\ updateDB = {}
    /\ locateDB = [k \in Keys |-> None]
    /\ phase = [r \in Admins |-> "idle"]
    /\ of = [r \in Admins |-> AnySession]
    /\ snap = [r \in Admins |-> <<>>]
    /\ point = [r \in Admins |-> 1] /\ item = [r \in Admins |-> 1]
    /\ sends = 0 /\ faults = 0
    /\ disturbed = [r \in Admins |-> {}]

Next == \/ \E c \in Clients : Request(c)
        \/ Administer
        \/ \E row \in updateDB : Copy(row)
        \/ Die

Spec == Init /\ [][Next]_vars

-----------------------------------------------------------------------------
(* Properties                                                              *)

Rows == [key : Keys, at : Coords, metro : BOOLEAN]

RequestsOK ==
    /\ step \in [Clients -> {"idle", "session", "search", "point", "insert", "ok", "failed"}]
    /\ sent \in [Clients -> Requests]
    /\ found \in [Clients -> Coords \cup {None}]
    /\ next \in [Clients -> Nat \ {0}]
    /\ sends \in Nat /\ faults \in Nat

TablesOK ==
    /\ known \subseteq Sessions
    /\ points \in Seq(Points)
    /\ updateDB \subseteq Rows
    /\ locateDB \in [Keys -> [at : Coords, metro : BOOLEAN] \cup {None}]

RefreshesOK ==
    /\ phase \in [Admins -> {"idle", "running", "done"}]
    /\ of \in [Admins -> Sessions]
    /\ snap \in [Admins -> Seq(Points)]
    /\ point \in [Admins -> Nat \ {0}] /\ item \in [Admins -> Nat \ {0}]
    /\ disturbed \in [Admins -> SUBSET Keys]

TypeOK == RequestsOK /\ TablesOK /\ RefreshesOK

\* "Location is added to UpdateDB" is said only when every item of the report
\* is there: a cell at some position, as the first report of it keeps its
\* place, a network or an address at the reported one.
AcceptedIsStored ==
    \A c \in Clients : step[c] = "ok" /\ sent[c].kind = "update" =>
        \A j \in DOMAIN sent[c].items :
            \E row \in updateDB :
                /\ row.key = LookupKey(sent[c].items[j])
                /\ sent[c].items[j].kind # "cell" => row.at = sent[c].at

\* The last of a session's points that lists a key.
LastListing(p, s, k) ==
    /\ points[p].session = s
    /\ k \in KeysOf(points[p].items)
    /\ \A later \in DOMAIN points :
           later > p /\ points[later].session = s => k \notin KeysOf(points[later].items)

\* A session refresh leaves every row it writes at the position of the last
\* point that lists it, unless an upsert failed, or others wrote the row or
\* changed a point with it since the points were read.
CorrectionShows ==
    \A r \in Admins : phase[r] = "done" =>
        \A k \in Keys \ disturbed[r], p \in DOMAIN points :
            LastListing(p, of[r], k) =>
                locateDB[k] = [at |-> points[p].at, metro |-> FALSE]

\* The comment on RefreshFromSession promises as much for the cells that
\* lookups find: after a session refresh without failures or other writers,
\* the corrected position of a cell is what a lookup of the cell finds.
CellCorrectionFound ==
    \A r \in Admins : phase[r] = "done" =>
        \A n \in Narrow, p \in DOMAIN points :
            /\ <<"lte", n>> \notin disturbed[r] /\ <<"LTE", n>> \notin disturbed[r]
            /\ LastListing(p, of[r], <<"lte", n>>)
            /\ \E j \in DOMAIN points[p].items : points[p].items[j] = [kind |-> "cell", id |-> n]
            => /\ locateDB[<<"LTE", n>>] # None
               /\ locateDB[<<"LTE", n>>].at = points[p].at
=============================================================================
