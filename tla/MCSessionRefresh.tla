-------------------------- MODULE MCSessionRefresh --------------------------
(* Small instances of SessionRefresh: an INT holds -2 .. 1; the cell 5 is    *)
(* too wide and becomes 1 when it is cut.                                   *)
EXTENDS SessionRefresh, TLC

CONSTANTS s, t, w, x, y

Cell(n)    == [kind |-> "cell", id |-> n]
Network(b) == [kind |-> "wifi", id |-> b]
Update(session, at, metro, items) ==
    [kind |-> "update", session |-> session, at |-> at, metro |-> metro, items |-> items]
Locate(session, items) == [kind |-> "locate", session |-> session, items |-> items]

Symmetry == Permutations(Clients)

Identifiers == {1, 5}

AllRequests == { Update(s, x, TRUE, <<Cell(1), Network(w)>>),
                 Update(s, y, FALSE, <<Cell(5), Network(w)>>),
                 Update(t, y, FALSE, <<Network(w), Network(Blank)>>),
                 Update(None, y, FALSE, <<Cell(1)>>),
                 Locate(s, <<Cell(1), Network(w)>>) }
=============================================================================
