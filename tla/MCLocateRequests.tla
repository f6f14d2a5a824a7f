-------------------------- MODULE MCLocateRequests --------------------------
(* A small instance of LocateRequests.  c1 is a metro cell that ExternalDB  *)
(* has as well, without that mark; c2 is known only once LocateDB has       *)
(* learnt it; c3 has no radio type.  The wifi is near c1.                   *)
EXTENDS LocateRequests, TLC

CONSTANTS c1, c2, c3, w1, i1, u1, bad, p1, p2

OneNear == {<<c1, w1>>}

CellsWifi == [uuid |-> u1, cells |-> <<c2, c1>>, wifis |-> <<w1>>, ips |-> <<>>]
NoType    == [uuid |-> bad, cells |-> <<c3>>, wifis |-> <<>>, ips |-> <<>>]
WifiIp    == [uuid |-> u1, cells |-> <<>>, wifis |-> <<w1>>, ips |-> <<i1>>]
OneIp     == [uuid |-> u1, cells |-> <<>>, wifis |-> <<>>, ips |-> <<i1>>]

AllBodies == {CellsWifi, NoType, WifiIp, OneIp}

\* Two requests of a session, or a sound one beside one that has a bad
\* sessionUUID; which of the two requests sends which makes no difference.
Pairs == {(p1 :> CellsWifi) @@ (p2 :> NoType), (p1 :> WifiIp) @@ (p2 :> OneIp)}
=============================================================================
