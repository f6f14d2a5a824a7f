---------------------------- MODULE SnapshotCopy ----------------------------
(***************************************************************************)
(* What a refresh of LocateDB from UpdateDB promises, without saying how:  *)
(* rows are only ever added to the source; a refresh notes the rows that   *)
(* were committed when it started, copies committed rows one at a time, in *)
(* any order and possibly more than once, may give up on a row, and may    *)
(* report success only when no row of its snapshot is left unattempted.    *)
(* All refreshes under way may end together without reporting anything.    *)
(* The mirror only ever holds rows that were committed to the source.      *)
(***************************************************************************)
EXTENDS Naturals

CONSTANTS Tables,      \* the tables that are copied
          Keys,        \* Keys[t]: the natural keys of the rows of table t
          Ids,         \* the ids a row can have, positive numbers
          Refreshers   \* the processes that run a refresh

VARIABLES committed,   \* the source: records [table, id, key]
          mirror,      \* mirror[t][k]: id of the source row shown, 0 if none
          todo,        \* todo[r]: the snapshot rows r has not attempted
          outcome      \* outcome[r]: "none", "running", "ok" or "failed"

vars == <<committed, mirror, todo, outcome>>

Row == UNION {[table : {t}, id : Ids, key : Keys[t]] : t \in Tables}

Init == /\ committed = {}
        /\ mirror = [t \in Tables |-> [k \in Keys[t] |-> 0]]
        /\ todo = [r \in Refreshers |-> {}]
        /\ outcome = [r \in Refreshers |-> "none"]

Commit(row) == /\ row \notin committed
               /\ committed' = committed \cup {row}
               /\ UNCHANGED <<mirror, todo, outcome>>

Begin(r) == /\ outcome[r] # "running"
            /\ outcome' = [outcome EXCEPT ![r] = "running"]
            /\ todo' = [todo EXCEPT ![r] = committed]
            /\ UNCHANGED <<committed, mirror>>

Copy(r, row) == /\ outcome[r] = "running"
                /\ mirror' = [mirror EXCEPT ![row.table][row.key] = row.id]
                /\ todo' = [todo EXCEPT ![r] = @ \ {row}]
                /\ UNCHANGED <<committed, outcome>>

Skip(r, row) == /\ outcome[r] = "running"
                /\ todo' = [todo EXCEPT ![r] = @ \ {row}]
                /\ UNCHANGED <<committed, mirror, outcome>>

Succeed(r) == /\ outcome[r] = "running"
              /\ todo[r] = {}
              /\ outcome' = [outcome EXCEPT ![r] = "ok"]
              /\ UNCHANGED <<committed, mirror, todo>>

Fail(r) == /\ outcome[r] = "running"
           /\ outcome' = [outcome EXCEPT ![r] = "failed"]
           /\ UNCHANGED <<committed, mirror, todo>>

\* The process that runs the refreshes ends; none of them reports.
Abandon == /\ outcome' = [r \in Refreshers |->
                            IF outcome[r] = "running" THEN "none" ELSE outcome[r]]
           /\ UNCHANGED <<committed, mirror, todo>>

Next == \/ Abandon
        \/ \E row \in Row : Commit(row)
        \/ \E r \in Refreshers : Begin(r) \/ Succeed(r) \/ Fail(r)
        \/ \E r \in Refreshers, row \in committed : Copy(r, row) \/ Skip(r, row)

Spec == Init /\ [][Next]_vars
=============================================================================
