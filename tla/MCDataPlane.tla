---------------------------- MODULE MCDataPlane ----------------------------
(* A network and its transfers for TLC. *)
EXTENDS DataPlane

(* The second file passes the way of the first. *)
FromOneAndTwo == [t \in Transfer |-> t]
ToThreeAndOne == [t \in Transfer |-> IF t = 1 THEN 3 ELSE 1]
ThreeAndTwoPackets == [t \in Transfer |-> IF t = 1 THEN 3 ELSE 2]
TtlZero == [t \in Transfer |-> 0]

(* A triangle: 1 and 2 reach 3 directly or through each other.             *)
LineTable == [r \in Node |-> [d \in Node |->
                IF r = d THEN r ELSE IF r < d THEN r + 1 ELSE r - 1]]
DetourTables ==
  {[LineTable EXCEPT ![1][3] = h, ![2][3] = k] : h \in {2, 3}, k \in {1, 3}}
=============================================================================
