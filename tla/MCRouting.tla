------------------------------ MODULE MCRouting ------------------------------
(* Topologies and bounds for TLC. Row r holds the links, or the distances, *)
(* of router r.                                                            *)
EXTENDS StaticRouting, UpdateLoop

Pair == << <<0, 1>>, <<1, 0>> >>

(* 1-2-3 in a line. *)
Line == << <<0, 1, INF>>, <<1, 0, 1>>, <<INF, 1, 0>> >>
LineDistance == << <<0, 1, 2>>, <<1, 0, 1>>, <<2, 1, 0>> >>

(* The same with a dear link 1-2. *)
SteepLine == << <<0, 3, INF>>, <<3, 0, 1>>, <<INF, 1, 0>> >>
SteepLineDistance == << <<0, 3, 4>>, <<3, 0, 1>>, <<4, 1, 0>> >>

(* The line of 3, and a router 4 without links. *)
LineApart == << <<0, 1, INF, INF>>, <<1, 0, 1, INF>>, <<INF, 1, 0, INF>>, <<INF, INF, INF, 0>> >>
LineApartDistance == << <<0, 1, 2, Far>>, <<1, 0, 1, Far>>, <<2, 1, 0, Far>>, <<Far, Far, Far, 0>> >>

(* 1-2-3-4 in a line. *)
LongLine == << <<0, 1, INF, INF>>, <<1, 0, 1, INF>>, <<INF, 1, 0, 1>>, <<INF, INF, 1, 0>> >>
LongLineDistance == << <<0, 1, 2, 3>>, <<1, 0, 1, 2>>, <<2, 1, 0, 1>>, <<3, 2, 1, 0>> >>

(* A triangle whose direct link 1-3 costs more than the path through 2. *)
Triangle == << <<0, 1, 4>>, <<1, 0, 1>>, <<4, 1, 0>> >>
TriangleDistance == << <<0, 1, 2>>, <<1, 0, 1>>, <<2, 1, 0>> >>

(* As every link costs something, these equations have one solution. *)
ASSUME DistanceIsLeast ==
  \A r, d \in Router : r # d =>
    LET paths == {InitCost[r][s] + Dist[s][d] : s \in Peers(r)} \cup {Far}
    IN  Dist[r][d] \in paths /\ \A c \in paths : Dist[r][d] <= c

Ports == [r \in Router |-> 4000 + r]

(* 1 and 2, on different hosts, use the same port number. *)
SharedPorts == [r \in Router |-> IF r = 2 THEN 4001 ELSE 4000 + r]
=============================================================================
