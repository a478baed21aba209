-------------------------- MODULE ForwardingProofs --------------------------
(***************************************************************************)
(* The proof that no file is lost between routers that are all neighbors,  *)
(* however many they are, whatever the links cost, while datagrams are     *)
(* lost and duplicated and UPDATE changes the costs.                       *)
(***************************************************************************)
EXTENDS Forwarding, StaticRoutingProofs

(* Every link exists. In other topologies a file may be lost although no   *)
(* process fails: see the run farfile.                                     *)
FullMesh == \A r \in Router : Neighbors(r) = Router

(* A running router has a hop to everybody, and no handler has made a NULL *)
(* record of an id that no router has.                                     *)
MeshTables ==
  \A r \in Router : /\ all_nodes[r][Foreign] # "null"
                    /\ status[r] = "up" => \A d \in Router : next_hops[r][d] # INF

(* Once a file is sent, all routers run and go on running.                 *)
FileUnderway ==
  /\ stage # "gone"
  /\ stage # "unsent" => destination \in Router /\ \A s \in Router : status[s] = "up"

(* FileIsNotLost needs more than itself: that routers find the ids of      *)
(* their neighbors by the ip (PeersAreKnown, of Bookkeeping), that the hops*)
(* of their tables are neighbors (CalmInv), and that there are such hops.  *)
MeshInv == Bookkeeping /\ WatcherKnowsRouters /\ CalmInv /\ MeshTables
FileInv == ~overflow => MeshInv /\ FileUnderway

(* An overflow is not forgotten. *)
LEMMA OverflowStays == overflow /\ [Next]_vars => overflow'
BY Zenon DEF Next, vars, Initialize, InitializeAgain, Update, Crash, Broadcast, Receive,
       ReceiveOwnPort, ReceiveFault, Lose, Expire, ExpireFault, ApplyVector

LEMMA MeshNext ==
  ASSUME Calm, FullMesh, MeshInv, ~overflow, [Next]_vars
  PROVE  MeshTables'
<1>1. /\ Bookkeeping /\ WatcherKnowsRouters /\ CalmInv /\ MeshTables
      /\ NobodyFails /\ CalmTables /\ CalmNet /\ CalmWatch
  BY DEF MeshInv, CalmInv
<1>2. /\ status \in [Router -> {"boot", "up", "down"}]
      /\ next_hops \in [Router -> HopVector]
      /\ all_nodes \in [Router -> [Id -> NodeRecord]]
      /\ operating \in [Router -> [Id -> BOOLEAN]]
      /\ net \subseteq Message /\ crashes \in 0..MaxCrashes
      /\ Router \subseteq Id /\ Foreign \in Id /\ Foreign \notin Router
      /\ INF \notin Router
  <2>1. TypeOK
    BY <1>1 DEF Bookkeeping
  <2>2. Router \subseteq Id /\ Foreign \in Id /\ Foreign \notin Router /\ INF \notin Router
    BY SizeAssumption DEF Id, Router, Foreign
  <2> QED BY <2>1, <2>2 DEF TypeOK
<1>3. ASSUME UNCHANGED <<all_nodes, next_hops>>,
             \A r \in Router : status'[r] = "up" => status[r] = "up"
      PROVE  MeshTables'
  BY <1>1, <1>3 DEF MeshTables
(* The tables that INIT and UPDATE rebuild. *)
<1>4. ASSUME NEW r \in Router PROVE \A d \in Router : DirectHops(r, Neighbors(r))[d] # INF
  BY <1>2 DEF DirectHops, FullMesh
<1>5. ASSUME NEW r \in Router, Initialize(r) PROVE MeshTables'
  <2>1. /\ status' = [status EXCEPT ![r] = "up"]
        /\ next_hops' = [next_hops EXCEPT ![r] = DirectHops(r, Neighbors(r))]
        /\ all_nodes' = [all_nodes EXCEPT ![r] =
                           [d \in Id |-> IF d \in Neighbors(r) THEN "ip" ELSE @[d]]]
    BY <1>5 DEF Initialize, ResetTables
  <2>2. \A q \in Router : all_nodes'[q][Foreign] = all_nodes[q][Foreign]
    BY <1>2, <2>1 DEF FullMesh
  <2>3. \A q \in Router : status'[q] = "up" => \A d \in Router : next_hops'[q][d] # INF
    BY <1>1, <1>2, <1>4, <2>1 DEF MeshTables
  <2> QED BY <1>1, <2>2, <2>3 DEF MeshTables
<1>6. ASSUME NEW r \in Router, InitializeAgain(r) \/ Crash(r) PROVE FALSE
  BY <1>2, <1>6 DEF InitializeAgain, Crash, Calm
<1>7. ASSUME NEW r \in Router, NEW d \in Peers(r), NEW c \in UpdateCost, Update(r, d, c)
      PROVE  MeshTables'
  <2>1. /\ next_hops' = [next_hops EXCEPT ![r] = DirectHops(r, Neighbors(r))]
        /\ status' = status /\ all_nodes' = all_nodes
    BY <1>7 DEF Update, ResetTables, nodeVars
  <2> QED BY <1>1, <1>2, <1>4, <2>1 DEF MeshTables
<1>8. ASSUME NEW m \in net, Receive(m) PROVE MeshTables'
  <2> DEFINE r == m.to
             up == LearnOperating(all_nodes[r], operating[r], Router)
             nodes == LearnNodes(all_nodes[r], Router, Neighbors(m.from))
             hops == UpdateHops(DV[r], next_hops[r], up, r, m.from, m.dv)
  <2>1. /\ m.from \in Router /\ r \in Router /\ Names(m.dv, m.from)
        /\ status[r] = "up" /\ status' = status
    BY <1>1, <1>2, <1>8 DEF Message, CalmNet, Receive
  <2>2. SourceIds(m.dv) = {m.from}
    BY <2>1, NamedSource
  <2>3. /\ next_hops' = [next_hops EXCEPT ![r] = hops]
        /\ all_nodes' = [all_nodes EXCEPT ![r] = ProbeNodes(nodes, Router \cup {m.from})]
    BY <1>8, <2>2 DEF Receive, ApplyVector
  <2>4. ProbeNodes(nodes, Router \cup {m.from})[Foreign] = all_nodes[r][Foreign]
    BY <1>2, <2>1 DEF ProbeNodes, LearnNodes, Renewed
  <2>5. \A d \in Router : up[d]
    BY <1>1, <1>2, <2>1 DEF LearnOperating, NobodyFails
  <2>6. \A d \in Router : ~Poisoned(d, up, r, m.from, m.dv)
    <3> HIDE DEF up
    <3> QED BY <2>1, <2>5 DEF Poisoned, Names
  <2>7. \A d \in Router : hops[d] # INF
    <3> HIDE DEF up
    <3> QED BY <1>1, <1>2, <2>1, <2>6 DEF UpdateHops, MeshTables
  <2> HIDE DEF r, nodes, hops
  <2>8. \A q \in Router : all_nodes'[q][Foreign] = all_nodes[q][Foreign]
    BY <1>2, <2>1, <2>3, <2>4
  <2>9. \A q \in Router : status'[q] = "up" => \A d \in Router : next_hops'[q][d] # INF
    BY <1>1, <1>2, <2>1, <2>3, <2>7 DEF MeshTables
  <2> QED BY <1>1, <2>8, <2>9 DEF MeshTables
<1>9. ASSUME NEW m \in net, ReceiveOwnPort(m) \/ Lose(m) PROVE MeshTables'
  BY <1>3, <1>9 DEF ReceiveOwnPort, Lose, table, nodeVars
<1>10. ASSUME NEW m \in net, ReceiveFault(m) PROVE MeshTables'
  BY <1>2, <1>3, <1>10 DEF ReceiveFault, table, nodeVars
<1>11. ASSUME NEW r \in Router, Broadcast(r) PROVE MeshTables'
  BY <1>3, <1>11 DEF Broadcast, table, nodeVars
<1>12. ASSUME NEW r \in Router, NEW x \in Id, Expire(r, x) \/ ExpireFault(r, x) PROVE FALSE
  BY <1>1, <1>12, CalmNeverExpires DEF Expire, ExpireFault
<1>13. CASE UNCHANGED vars
  BY <1>3, <1>13 DEF vars, table, nodeVars
<1> QED
  BY <1>5, <1>6, <1>7, <1>8, <1>9, <1>10, <1>11, <1>12, <1>13 DEF Next

LEMMA MeshStep ==
  ASSUME Calm, FullMesh, MeshInv, ~overflow, [Next]_vars, ~overflow'
  PROVE  MeshInv' /\ \A s \in Router : status[s] = "up" => status'[s] = "up"
<1>1. Bookkeeping' /\ WatcherKnowsRouters' /\ CalmInv'
  BY BookkeepingNext, WatcherNext, CalmNext DEF MeshInv
<1>2. MeshTables'
  BY MeshNext
<1>3. ASSUME NEW s \in Router, status[s] = "up" PROVE status'[s] = "up"
  <2>1. status'[s] # "down" /\ status \in [Router -> {"boot", "up", "down"}]
    BY <1>1 DEF CalmInv, NobodyFails, MeshInv, Bookkeeping, TypeOK
  <2> QED
    BY <1>3, <2>1
       DEF Next, vars, Initialize, InitializeAgain, Update, Crash, Broadcast, Receive,
           ReceiveOwnPort, ReceiveFault, Lose, Expire, ExpireFault
<1> QED BY <1>1, <1>2, <1>3 DEF MeshInv

(* In a running mesh every router knows the way of a file to its end.      *)
LEMMA MeshReaches ==
  ASSUME FullMesh, MeshInv, ~overflow, \A s \in Router : status[s] = "up",
         NEW r \in Router, NEW d \in Router
  PROVE  /\ Addressed(r, d) /\ ~LookupFaults(r, d)
         /\ HopTo(r, d) \in Router /\ Reaches(r, HopTo(r, d))
<1>1. Addressed(r, d) /\ \A k \in Router : all_nodes[r][k] = "ip"
  BY DEF MeshInv, Bookkeeping, PeersAreKnown, FullMesh, Addressed
<1>2. all_nodes[r][Foreign] # "null"
  BY DEF MeshInv, MeshTables
<1>3. ~LookupFaults(r, d)
  BY <1>1, <1>2 DEF LookupFaults, Faults, Id
<1>4. next_hops[r][d] \in Neighbors(r) \cup {INF} /\ next_hops[r][d] # INF
  BY DEF MeshInv, CalmInv, CalmTables, CalmHops, MeshTables
<1>5. HopTo(r, d) = next_hops[r][d] /\ HopTo(r, d) \in Router
  BY <1>4 DEF HopTo, FullMesh
<1> QED BY <1>1, <1>3, <1>4, <1>5 DEF Reaches

LEMMA FileInvInit == ASSUME FullMesh PROVE FileInit => FileInv
<1> SUFFICES ASSUME FileInit PROVE FileInv
  OBVIOUS
<1>1. Bookkeeping /\ WatcherKnowsRouters /\ CalmInv
  BY BookkeepingInit, CalmInit DEF FileInit, Init, WatcherKnowsRouters, Id
<1>2. MeshTables
  BY DEF FileInit, Init, MeshTables, Id
<1> QED BY <1>1, <1>2 DEF FileInit, FileInv, MeshInv, FileUnderway

LEMMA FileInvNext ==
  ASSUME Calm, FullMesh
  PROVE  FileInv /\ [FileNext]_all => FileInv'
<1> SUFFICES ASSUME FileInv, [FileNext]_all, ~overflow' PROVE MeshInv' /\ FileUnderway'
  BY DEF FileInv
(* What changes only the file changes no table.                            *)
<1>1. ASSUME UNCHANGED vars, MeshInv, ~overflow PROVE MeshInv'
  BY <1>1, MeshStep
<1>2. ASSUME [Next]_vars, UNCHANGED file, overflow => overflow'
      PROVE  MeshInv' /\ FileUnderway'
  <2>1. ~overflow /\ MeshInv /\ FileUnderway
    BY <1>2 DEF FileInv
  <2>2. MeshInv' /\ \A s \in Router : status[s] = "up" => status'[s] = "up"
    BY <1>2, <2>1, MeshStep
  <2> QED BY <1>2, <2>1, <2>2 DEF FileUnderway, file
<1>3. ASSUME NEW r \in Router, NEW d \in Router, SendFile(r, d)
      PROVE  MeshInv' /\ FileUnderway'
  <2>1. ~overflow /\ MeshInv /\ FileUnderway /\ \A s \in Router : status[s] = "up"
    BY <1>3 DEF FileInv, SendFile
  <2>2. SendTargets(r, d) = {d} /\ Reaches(r, HopTo(r, d))
    BY <2>1, MeshReaches DEF SendTargets
  <2>3. UNCHANGED vars /\ stage' = "travelling" /\ destination' = d
    BY <1>3, <2>2 DEF SendFile, PassTo, vars
  <2> QED BY <1>1, <2>1, <2>3 DEF FileUnderway, vars
<1>4. ASSUME NEW r \in Router, Keep(r) PROVE MeshInv' /\ FileUnderway'
  <2>1. UNCHANGED vars /\ stage' = "arrived" /\ destination' = destination /\ stage = "travelling"
    BY <1>4 DEF Keep, Holds
  <2>2. ~overflow /\ MeshInv /\ FileUnderway
    BY <2>1 DEF FileInv, vars
  <2> QED BY <1>1, <2>1, <2>2 DEF FileUnderway, vars
<1>5. ASSUME NEW r \in Router, Forward(r) PROVE MeshInv' /\ FileUnderway'
  <2>1. ~overflow /\ MeshInv /\ FileUnderway /\ stage = "travelling"
    BY <1>5 DEF FileInv, Forward, Holds
  <2>2. destination \in Router /\ \A s \in Router : status[s] = "up"
    BY <2>1 DEF FileUnderway
  <2>3. ~LookupFaults(r, destination) /\ ForwardTarget(r, destination) = destination
        /\ Reaches(r, HopTo(r, destination))
    BY <2>1, <2>2, MeshReaches DEF ForwardTarget
  <2>4. UNCHANGED vars /\ stage' = "travelling" /\ destination' = destination
    BY <1>5, <2>3 DEF Forward, PassTo, vars
  <2> QED BY <1>1, <2>1, <2>2, <2>4 DEF FileUnderway, vars
<1>6. CASE UNCHANGED all
  BY <1>2, <1>6 DEF all, vars
<1>7. ASSUME Next, UNCHANGED file PROVE MeshInv' /\ FileUnderway'
  BY <1>2, <1>7, OverflowStays
<1> QED BY <1>3, <1>4, <1>5, <1>6, <1>7 DEF FileNext

(* Between routers that are all neighbors, none of which fails, a file is  *)
(* not lost: sendfile and route_to_next_hop find the record and the hop    *)
(* they look up, although vectors and UPDATE go on changing the tables.    *)
THEOREM MeshLosesNoFile ==
  ASSUME Calm, FullMesh
  PROVE  FileSpec => [](~overflow => FileIsNotLost)
<1>1. FileInv => (~overflow => FileIsNotLost)
  BY DEF FileInv, FileUnderway, FileIsNotLost
<1> QED BY <1>1, FileInvInit, FileInvNext, PTL DEF FileSpec
=============================================================================
