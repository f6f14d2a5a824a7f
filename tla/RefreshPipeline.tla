-------------------------- MODULE RefreshPipeline ---------------------------
(***************************************************************************)
(* The data pipeline from UpdateDB to LocateDB.  /update commits rows to   *)
(* UpdateDB (repository/postgres/update.go); RefreshService.Refresh pages  *)
(* through cells, wifi and ip in id order and upserts every row into       *)
(* LocateDB (service/refresh.go, repository/postgres/locate.go).  Nothing  *)
(* keeps two refreshes apart: the auto-refresh goroutine, POST /refresh    *)
(* and the admin page's button each run one of their own.                  *)
(*                                                                         *)
(* A row is its SERIAL id; its natural key (tech, mcc, mnc, area, cell id; *)
(* bssid; address) is a model value and its coordinates are told apart by  *)
(* the id that carries them.  Ids are handed out when an INSERT begins and *)
(* become visible when it commits, so they may appear out of order.        *)
(***************************************************************************)
EXTENDS Naturals, Sequences, SequencesExt

CONSTANTS CellKeys, WifiKeys, IpKeys,
          LongIps,      \* addresses longer than LocateDB's VARCHAR(17)
          Refreshers,   \* concurrent callers of Refresh
          PageSize,     \* refreshPageSize
          MaxRows,      \* bound: ids handed out per table
          MaxFaults     \* bound: failed queries and deaths of the process

ASSUME PipelineAssumption ==
    /\ LongIps \subseteq IpKeys
    /\ PageSize \in Nat \ {0}
    /\ MaxRows \in Nat
    /\ MaxFaults \in Nat

Tables == {"cells", "wifi", "ip"}

Keys == [t \in Tables |-> CASE t = "cells" -> CellKeys
                             [] t = "wifi"  -> WifiKeys
                             [] t = "ip"    -> IpKeys]

\* The ids a table can hand out.
Ids == 1..MaxRows

\* Refresh handles the tables in this order; a phase is an index into it.
Order == <<"cells", "wifi", "ip">>

VARIABLES
    keyOf,     \* keyOf[t][i]: natural key of the row with id i of UpdateDB.t
    pending,   \* pending[t]: ids whose INSERT has not committed yet
    visible,   \* visible[t]: committed ids, ascending (ORDER BY id)
    locate,    \* locate[t][k]: id of the UpdateDB row LocateDB shows for k, or 0
    faults,    \* failed queries and deaths of the process so far
    pc,        \* pc[r]: "idle", "fetch" (before a page) or "upsert" (in it)
    phase,     \* phase[r]: the table being refreshed
    offset,    \* offset[r]: OFFSET of the current page
    fetched,   \* fetched[r]: len(rows) of the current page
    page,      \* page[r]: the rows of the page still to upsert
    result,    \* result[r]: what the last Refresh returned
    \* history variables, read by the properties only
    atStart,   \* atStart[r][t]: ids visible when r's Refresh began
    tried,     \* tried[r][t]: ids r handed to an upsert
    missed,    \* missed[r][t]: ids whose upsert by r failed at least once
    alone,     \* alone[r]: no other Refresh overlapped r's
    floor      \* floor[t]: ids visible when the first of the refreshes that run
               \* now began, less those a failure among them has excused

db     == <<keyOf, pending, visible>>
locals == <<pc, phase, offset, fetched, page, result>>
ghosts == <<atStart, tried, missed, alone, floor>>
vars   == <<db, locate, faults, locals, ghosts>>

Table(r) == Order[phase[r]]
Busy     == {r \in Refreshers : pc[r] # "idle"}

NoIds == [t \in Tables |-> {}]

Init == /\ keyOf = [t \in Tables |-> <<>>]
        /\ pending = NoIds
        /\ visible = [t \in Tables |-> <<>>]
        /\ locate = [t \in Tables |-> [k \in Keys[t] |-> 0]]
        /\ faults = 0
        /\ pc = [r \in Refreshers |-> "idle"]
        /\ phase = [r \in Refreshers |-> 1]
        /\ offset = [r \in Refreshers |-> 0]
        /\ fetched = [r \in Refreshers |-> 0]
        /\ page = [r \in Refreshers |-> <<>>]
        /\ result = [r \in Refreshers |-> "none"]
        /\ atStart = [r \in Refreshers |-> NoIds]
        /\ tried = [r \in Refreshers |-> NoIds]
        /\ missed = [r \in Refreshers |-> NoIds]
        /\ alone = [r \in Refreshers |-> TRUE]
        /\ floor = NoIds

-----------------------------------------------------------------------------
(* UpdateDB: InsertCell, InsertWifi, InsertIP                              *)

KeysHeld(t) == {keyOf[t][i] : i \in pending[t] \cup ToSet(visible[t])}

\* Mutation variant: without the unique index.
AlwaysInsertable(t, k) == TRUE

\* ON CONFLICT DO NOTHING on the unique index of cells: a key that is already
\* there adds no row, and one that is being inserted makes the second INSERT
\* wait.  wifi and ip have no unique index in UpdateDB: every report is a row.
Insertable(t, k) == t = "cells" => k \notin KeysHeld(t)

\* The INSERT takes the next SERIAL id.
BeginInsert(t, k) ==
    /\ Len(keyOf[t]) < MaxRows
    /\ Insertable(t, k)
    /\ keyOf' = [keyOf EXCEPT ![t] = Append(@, k)]
    /\ pending' = [pending EXCEPT ![t] = @ \cup {Len(keyOf[t]) + 1}]
    /\ UNCHANGED <<visible, locate, faults, locals, ghosts>>

\* p is the rank that id i gets under ORDER BY id.
IsRank(s, i, p) == \A q \in 1..Len(s) : IF q < p THEN s[q] < i ELSE s[q] > i

CommitInsert(t, i) ==
    /\ i \in pending[t]
    /\ pending' = [pending EXCEPT ![t] = @ \ {i}]
    /\ \E p \in 1..Len(visible[t]) + 1 :
          /\ IsRank(visible[t], i, p)
          /\ visible' = [visible EXCEPT ![t] = InsertAt(@, p, i)]
    /\ UNCHANGED <<keyOf, locate, faults, locals, ghosts>>

\* The INSERT fails or its connection is lost; the id is never used again.
AbortInsert(t, i) ==
    /\ i \in pending[t]
    /\ pending' = [pending EXCEPT ![t] = @ \ {i}]
    /\ UNCHANGED <<keyOf, visible, locate, faults, locals, ghosts>>

-----------------------------------------------------------------------------
(* RefreshService.Refresh, as run by r                                     *)

StartRefresh(r) ==
    /\ pc[r] = "idle"
    /\ pc' = [pc EXCEPT ![r] = "fetch"]
    /\ phase' = [phase EXCEPT ![r] = 1]
    /\ offset' = [offset EXCEPT ![r] = 0]
    /\ result' = [result EXCEPT ![r] = "none"]
    /\ atStart' = [atStart EXCEPT ![r] = [t \in Tables |-> ToSet(visible[t])]]
    /\ tried' = [tried EXCEPT ![r] = NoIds]
    /\ missed' = [missed EXCEPT ![r] = NoIds]
    /\ alone' = [q \in Refreshers |->
                    IF q = r THEN Busy = {} ELSE alone[q] /\ q \notin Busy]
    /\ floor' = IF Busy = {} THEN [t \in Tables |-> ToSet(visible[t])] ELSE floor
    /\ UNCHANGED <<db, locate, faults, fetched, page>>

Least(a, b) == IF a < b THEN a ELSE b

\* Mutation variants: one row too many; ORDER BY id DESC.
OverlongPage(s, off, limit) == SubSeq(s, off + 1, Least(off + limit + 1, Len(s)))
NewestFirst(s, off, limit) == SubSeq(Reverse(s), off + 1, Least(off + limit, Len(s)))

\* ORDER BY id LIMIT limit OFFSET off
PageOf(s, off, limit) == SubSeq(s, off + 1, Least(off + limit, Len(s)))

FetchPage(r) ==
    /\ pc[r] = "fetch"
    /\ page' = [page EXCEPT ![r] = PageOf(visible[Table(r)], offset[r], PageSize)]
    /\ fetched' = [fetched EXCEPT ![r] = Len(page'[r])]
    /\ pc' = [pc EXCEPT ![r] = "upsert"]
    /\ UNCHANGED <<db, locate, faults, phase, offset, result, ghosts>>

\* Mutation variant: the error is logged and not returned.
ErrorSwallowed == "ok"

\* return stats, err: what was upserted so far stays.
FetchError == "failed"

FetchFails(r) ==
    /\ pc[r] = "fetch"
    /\ faults < MaxFaults
    /\ faults' = faults + 1
    /\ pc' = [pc EXCEPT ![r] = "idle"]
    /\ result' = [result EXCEPT ![r] = FetchError]
    /\ floor' = NoIds
    /\ UNCHANGED <<db, locate, phase, offset, fetched, page, atStart, tried, missed, alone>>

\* Mutation variant: ON CONFLICT ... DO NOTHING.
KeptEntry(entry, i) == IF entry # 0 THEN entry ELSE i

\* ON CONFLICT ... DO UPDATE: the entry of the row's key now shows row i.
Upserted(entry, i) == i

\* LocateDB's ip.address is VARCHAR(17): a longer address is always refused.
TooLong(t, k) == t = "ip" /\ k \in LongIps

\* Common to both outcomes of an upsert: the loop moves to the next row.
TakeRow(r, i) ==
    /\ pc[r] = "upsert"
    /\ page[r] # <<>>
    /\ i = Head(page[r])
    /\ page' = [page EXCEPT ![r] = Tail(@)]
    /\ tried' = [tried EXCEPT ![r][Table(r)] = @ \cup {i}]
    /\ UNCHANGED <<db, pc, phase, offset, fetched, result, atStart, alone>>

UpsertRow(r, i) ==
    LET t == Table(r)
        k == keyOf[t][i]
    IN  /\ TakeRow(r, i)
        /\ ~TooLong(t, k)
        /\ locate' = [locate EXCEPT ![t][k] = Upserted(@, i)]
        /\ UNCHANGED <<faults, missed, floor>>

\* A WARN in the log, and continue.
UpsertFails(r, i) ==
    LET t == Table(r)
        k == keyOf[t][i]
    IN  /\ TakeRow(r, i)
        /\ \/ TooLong(t, k) /\ UNCHANGED faults
           \/ faults < MaxFaults /\ faults' = faults + 1
        /\ missed' = [missed EXCEPT ![r][t] = @ \cup {i}]
        /\ floor' = [floor EXCEPT ![t] = {j \in @ : keyOf[t][j] # k}]
        /\ UNCHANGED locate

\* Mutation variants: a full page taken for the last; offset one row too far;
\* offset never advanced.
FullPageIsLast(n) == n <= PageSize
OffsetTooFar(off, n) == off + n + 1
OffsetStuck(off, n) == off

LastPage(n) == n < PageSize          \* len(rows) < refreshPageSize
NextOffset(off, n) == off + n        \* offset += len(rows)

PageDone(r) == pc[r] = "upsert" /\ page[r] = <<>>

NextPage(r) ==
    /\ PageDone(r)
    /\ ~LastPage(fetched[r])
    /\ offset' = [offset EXCEPT ![r] = NextOffset(@, fetched[r])]
    /\ pc' = [pc EXCEPT ![r] = "fetch"]
    /\ UNCHANGED <<db, locate, faults, phase, fetched, page, result, ghosts>>

NextTable(r) ==
    /\ PageDone(r)
    /\ LastPage(fetched[r])
    /\ phase[r] < Len(Order)
    /\ phase' = [phase EXCEPT ![r] = @ + 1]
    /\ offset' = [offset EXCEPT ![r] = 0]
    /\ pc' = [pc EXCEPT ![r] = "fetch"]
    /\ UNCHANGED <<db, locate, faults, fetched, page, result, ghosts>>

Finish(r) ==
    /\ PageDone(r)
    /\ LastPage(fetched[r])
    /\ phase[r] = Len(Order)
    /\ pc' = [pc EXCEPT ![r] = "idle"]
    /\ result' = [result EXCEPT ![r] = "ok"]
    /\ UNCHANGED <<db, locate, faults, phase, offset, fetched, page, ghosts>>

\* main returns (or the process is killed) without waiting for the refreshes:
\* every one of them ends where it is, in the middle of a page too; its local
\* variables are gone and its caller is told nothing.  A statement under way lands
\* as the UpsertRow or CommitInsert before this step or not at all.
ProcessDies ==
    /\ Busy # {}
    /\ faults < MaxFaults
    /\ faults' = faults + 1
    /\ pc' = [r \in Refreshers |-> "idle"]
    /\ phase' = [r \in Refreshers |-> 1]
    /\ offset' = [r \in Refreshers |-> 0]
    /\ fetched' = [r \in Refreshers |-> 0]
    /\ page' = [r \in Refreshers |-> <<>>]
    /\ floor' = NoIds
    /\ UNCHANGED <<db, locate, result, atStart, tried, missed, alone>>

-----------------------------------------------------------------------------

Insert == \E t \in Tables :
             \/ \E k \in Keys[t] : BeginInsert(t, k)
             \/ \E i \in Ids : CommitInsert(t, i) \/ AbortInsert(t, i)

\* What r does once its Refresh has started, faults aside.
Progress(r) == \/ FetchPage(r)
               \/ \E i \in Ids : UpsertRow(r, i) \/ UpsertFails(r, i)
               \/ NextPage(r) \/ NextTable(r) \/ Finish(r)

Next == \/ Insert
        \/ ProcessDies
        \/ \E r \in Refreshers : StartRefresh(r) \/ FetchFails(r) \/ Progress(r)

Spec == Init /\ [][Next]_vars

\* A running Refresh keeps running: its loop waits for nothing but the two
\* databases, whose every query returns a result or an error.  A process that
\* dies is started again (restart: always), at most MaxFaults times here.
Fairness == \A r \in Refreshers : WF_vars(FetchFails(r) \/ Progress(r))

FairSpec == Spec /\ Fairness

\* With auto-refresh on, the ticker keeps starting refreshes as well.
AutoSpec == FairSpec /\ \A r \in Refreshers : WF_vars(StartRefresh(r))

-----------------------------------------------------------------------------
(* Properties                                                              *)

UpdateDBTypeOK ==
    /\ keyOf \in [Tables -> Seq(CellKeys \cup WifiKeys \cup IpKeys)]
    /\ \A t \in Tables : /\ Len(keyOf[t]) <= MaxRows
                         /\ \A i \in 1..Len(keyOf[t]) : keyOf[t][i] \in Keys[t]
    /\ pending \in [Tables -> SUBSET Ids]
    /\ visible \in [Tables -> Seq(Ids)]

LocateDBTypeOK ==
    /\ DOMAIN locate = Tables
    /\ \A t \in Tables : locate[t] \in [Keys[t] -> Ids \cup {0}]

RefreshTypeOK ==
    /\ pc \in [Refreshers -> {"idle", "fetch", "upsert"}]
    /\ phase \in [Refreshers -> 1..Len(Order)]
    /\ offset \in [Refreshers -> Nat]
    /\ fetched \in [Refreshers -> 0..PageSize]
    /\ page \in [Refreshers -> Seq(Ids)]
    /\ result \in [Refreshers -> {"none", "ok", "failed"}]

HistoryTypeOK ==
    /\ atStart \in [Refreshers -> [Tables -> SUBSET Ids]]
    /\ tried \in [Refreshers -> [Tables -> SUBSET Ids]]
    /\ missed \in [Refreshers -> [Tables -> SUBSET Ids]]
    /\ alone \in [Refreshers -> BOOLEAN]
    /\ floor \in [Tables -> SUBSET Ids]

\* Every id a page or LocateDB holds is one UpdateDB handed out, and a page
\* never holds more than PageSize rows.
TypeOK == /\ UpdateDBTypeOK
          /\ LocateDBTypeOK
          /\ RefreshTypeOK
          /\ HistoryTypeOK
          /\ faults \in 0..MaxFaults

\* Paging by OFFSET loses nothing although rows keep being committed, below
\* the offset too: a Refresh that returns no error has handed every row that
\* was visible when it began to an upsert, however many refreshes overlap.
Coverage ==
    \A r \in Refreshers :
        result[r] = "ok" => \A t \in Tables : atStart[r][t] \subseteq tried[r][t]

\* A Refresh that ran alone, without a failed upsert for key k, leaves k at
\* least as new as every row it had when the Refresh began: no page replays an
\* older row of k last, even when late commits shift the pages.
FreshWhenAlone ==
    [][\A r \in Refreshers : Finish(r) /\ alone[r] =>
          \A t \in Tables : \A i \in atStart[r][t] :
             LET k == keyOf[t][i]
             IN  (\A j \in missed[r][t] : keyOf[t][j] # k) => locate'[t][k] >= i]_vars

\* Refreshes that overlap may put an older row of a key over a newer one, but it
\* does not last: once the last of them has ended, every key is at least as new
\* as the rows that were there when the first one began.  A key whose upsert
\* failed is excused, and so is every key after a failed page or a death of the
\* process in their midst.
OverlapSettles ==
    Busy = {} => \A t \in Tables : \A i \in floor[t] : locate[t][keyOf[t][i]] >= i

\* The first report of a cell wins for good: UpdateDB keeps one row per cell,
\* so once LocateDB shows a cell no later report or refresh moves it.
FirstCellWins ==
    [][\A k \in CellKeys :
          locate["cells"][k] # 0 => locate'["cells"][k] = locate["cells"][k]]_vars

\* When no query ever failed, a Refresh that returned no error has put the key
\* of every row that was visible when it began into LocateDB, if it fits there.
FaultFreeMirrored ==
    \A r \in Refreshers : result[r] = "ok" /\ faults = 0 =>
        \A t \in Tables : \A i \in atStart[r][t] :
            TooLong(t, keyOf[t][i]) \/ locate[t][keyOf[t][i]] # 0

\* LocateDB's ip.address is documented to hold an IPv4 or an IPv6 address, so
\* when no query ever failed a successful Refresh has stored every address.
AddressesStored ==
    \A r \in Refreshers : result[r] = "ok" /\ faults = 0 =>
        \A i \in atStart[r]["ip"] : locate["ip"][keyOf["ip"][i]] # 0

\* What r's Refresh may still have to do, in steps: a row costs one for its
\* upsert and at most two for its page, a table one more page and its end.
TableWork(t) == 3 * Len(visible[t]) + 2

WorkHere(r) ==
    IF pc[r] = "fetch" THEN 3 * (Len(visible[Table(r)]) - offset[r]) + 2
    ELSE IF LastPage(fetched[r]) THEN Len(page[r]) + 1
    ELSE 3 * (Len(visible[Table(r)]) - (offset[r] + fetched[r])) + Len(page[r]) + 3

WorkAfter(r) == CASE phase[r] = 1 -> TableWork(Order[2]) + TableWork(Order[3])
                  [] phase[r] = 2 -> TableWork(Order[3])
                  [] phase[r] = 3 -> 0

WorkLeft(r) == IF pc[r] = "idle" THEN 0 ELSE WorkHere(r) + WorkAfter(r)

CommittedRowCount == Len(visible["cells"]) + Len(visible["wifi"]) + Len(visible["ip"])

Place(r) == <<pc[r], phase[r], offset[r], page[r]>>

\* Every step of a Refresh leaves it less to do, and nothing else gives it more
\* than three steps for each row that is committed meanwhile: it can be kept
\* going by new rows only, never by other refreshes, failures or its own paging.
\* Rows that fill page after page would keep it going for ever.
OnlyCommitsAddWork ==
    [][\A r \in Refreshers : pc[r] # "idle" =>
          /\ WorkLeft(r) > 0
          /\ \/ WorkLeft(r)' < WorkLeft(r)
             \/ /\ Place(r)' = Place(r)
                /\ WorkLeft(r)' <= WorkLeft(r) + 3 * (CommittedRowCount' - CommittedRowCount)]_vars

\* LocateDB shows the newest committed report of every wifi and ip key.
Newest(t, k) == {i \in ToSet(visible[t]) : keyOf[t][i] = k /\
                    \A j \in ToSet(visible[t]) : keyOf[t][j] = k => j <= i}
CaughtUp == \A t \in Tables : \A k \in Keys[t] :
                TooLong(t, k) \/ \A i \in Newest(t, k) : locate[t][k] = i

\* Where that comes from: a Refresh that ran alone, in which no upsert failed
\* but those LocateDB can never take, and beside which no row was committed,
\* leaves LocateDB with the newest report of every key.
QuietRefreshMirrors ==
    [][\A r \in Refreshers :
          /\ Finish(r) /\ alone[r]
          /\ \A t \in Tables : /\ ToSet(visible[t]) = atStart[r][t]
                                /\ \A i \in missed[r][t] : TooLong(t, keyOf[t][i])
          => CaughtUp']_vars

\* With auto-refresh as the only refresher, and once the tables have stopped to
\* grow (MaxRows), LocateDB shows the newest committed report of every storable
\* key again and again, although each Refresh first replays the older ones.
MirrorCatchesUp == []<>CaughtUp

-----------------------------------------------------------------------------
(* The pipeline implements the copy SnapshotCopy describes.                *)

RowOf(t, i) == [table |-> t, id |-> i, key |-> keyOf[t][i]]

CommittedRows == UNION {{RowOf(t, i) : i \in ToSet(visible[t])} : t \in Tables}
Todo(r) == UNION {{RowOf(t, i) : i \in atStart[r][t] \ tried[r][t]} : t \in Tables}

Copying == INSTANCE SnapshotCopy WITH
    committed <- CommittedRows,
    mirror    <- locate,
    todo      <- [r \in Refreshers |-> Todo(r)],
    outcome   <- [r \in Refreshers |->
                     IF pc[r] # "idle" THEN "running" ELSE result[r]]

\* Each step of the pipeline is a step of that copy or changes nothing it sees.
CopiesSnapshot == Copying!Spec
=============================================================================
