------------------------ MODULE RoutingNetworkProofs ------------------------
(***************************************************************************)
(* Proofs about RoutingNetwork, for every number of routers, topology,     *)
(* assignment of ports and bound.                                          *)
(***************************************************************************)
EXTENDS UpdateLoop, TLAPS, WellFoundedInduction

(* A 16-bit assignment yields a 16-bit cost. *)
LEMMA WrapCost == ASSUME NEW x \in Nat PROVE Wrap(x) \in Cost
BY SizeAssumption DEF Wrap, Cost

(* No id is the hop INF. *)
LEMMA IdIsNotINF == Router \subseteq Nat /\ Id \subseteq Hop /\ INF \in Hop /\ INF \notin Id
BY SizeAssumption DEF Router, Id, Hop, Foreign

(* A sum of costs is a natural number. *)
LEMMA OfferNat ==
  ASSUME NEW d \in Router, NEW dv \in Vector, NEW recv \in Vector, NEW source
  PROVE  Offer(d, dv, source, recv) \in Nat
BY SizeAssumption DEF Offer, CostTo, Vector, Cost

(* update_dv returns tables of the declared types. *)
LEMMA UpdateTypes ==
  ASSUME NEW dv \in Vector, NEW hops \in HopVector, NEW up, NEW local,
         NEW source \in Id, NEW recv \in Vector
  PROVE  /\ UpdateDV(dv, hops, up, local, source, recv) \in Vector
         /\ UpdateHops(dv, hops, up, local, source, recv) \in HopVector
<1>1. UpdateDV(dv, hops, up, local, source, recv) \in Vector
  <2>1. \A d \in Router : Wrap(Offer(d, dv, source, recv)) \in Cost
    BY WrapCost, OfferNat
  <2>2. INF \in Cost /\ \A d \in Router : dv[d] \in Cost
    BY SizeAssumption DEF Vector, Cost
  <2> QED BY <2>1, <2>2 DEF UpdateDV, Vector
<1>2. UpdateHops(dv, hops, up, local, source, recv) \in HopVector
  BY IdIsNotINF DEF UpdateHops, HopVector
<1> QED BY <1>1, <1>2

(* The tables that INIT, UPDATE and CRASH rebuild have their types. *)
LEMMA DirectTypes ==
  ASSUME NEW r \in Router, NEW cost \in Vector, NEW nbrs
  PROVE  DirectDV(r, nbrs, cost) \in Vector /\ DirectHops(r, nbrs) \in HopVector
BY SizeAssumption, IdIsNotINF
   DEF DirectDV, DirectHops, BlankDV, BlankHops, Vector, HopVector, Cost, Id

(* The sender read from a packet is an id. *)
LEMMA SourceTypes == ASSUME NEW recv PROVE SourceIds(recv) \subseteq Id
BY DEF SourceIds, Id

(* The records of the nodes keep their types. *)
LEMMA NodeTypes ==
  ASSUME NEW nodes \in [Id -> NodeRecord], NEW up \in [Id -> BOOLEAN], NEW ids, NEW s
  PROVE  /\ LearnNodes(nodes, ids, s) \in [Id -> NodeRecord]
         /\ ProbeNodes(nodes, ids) \in [Id -> NodeRecord]
         /\ LearnOperating(nodes, up, ids) \in [Id -> BOOLEAN]
BY DEF LearnNodes, ProbeNodes, LearnOperating, NodeRecord, Renewed

-----------------------------------------------------------------------------
(* Type correctness.                                                       *)

(* ResetTables and ApplyVector preserve the types of what they assign. *)
LEMMA ResetTablesTypes ==
  ASSUME TypeOK, NEW r \in Router, NEW cost \in Vector, ResetTables(r, cost)
  PROVE  /\ neighbors' \in [Router -> Vector]
         /\ DV' \in [Router -> Vector]
         /\ next_hops' \in [Router -> HopVector]
BY DirectTypes DEF TypeOK, ResetTables

LEMMA ApplyVectorTypes ==
  ASSUME TypeOK, NEW r \in Router, NEW source \in Id, NEW recv \in Vector,
         NEW dv \in Vector, NEW hops \in HopVector,
         NEW nodes \in [Id -> NodeRecord], NEW up \in [Id -> BOOLEAN],
         ApplyVector(r, source, recv, dv, hops, nodes, up)
  PROVE  /\ DV' \in [Router -> Vector]
         /\ next_hops' \in [Router -> HopVector]
         /\ all_nodes' \in [Router -> [Id -> NodeRecord]]
         /\ operating' \in [Router -> [Id -> BOOLEAN]]
         /\ overflow' \in BOOLEAN
<1>1. DV' \in [Router -> Vector] /\ next_hops' \in [Router -> HopVector]
  BY UpdateTypes DEF TypeOK, ApplyVector
<1>2. all_nodes' \in [Router -> [Id -> NodeRecord]]
  BY NodeTypes DEF TypeOK, ApplyVector
<1>3. operating' \in [Router -> [Id -> BOOLEAN]]
  BY DEF TypeOK, ApplyVector
<1>4. overflow' \in BOOLEAN
  BY DEF TypeOK, ApplyVector, Overflows
<1> QED BY <1>1, <1>2, <1>3, <1>4

(* What a crashed neighbor leaves behind has the types update_dv expects. *)
LEMMA CrashTypes ==
  ASSUME TypeOK, NEW r \in Router, NEW x \in Id
  PROVE  /\ CrashVector(all_nodes[r]) \in Vector
         /\ CrashDV(DV[r], next_hops[r], x) \in Vector
         /\ CrashHops(next_hops[r], x) \in HopVector
         /\ CrashedUp(r, x) \in [Id -> BOOLEAN]
BY SizeAssumption, IdIsNotINF
   DEF TypeOK, CrashVector, CrashDV, CrashHops, CrashedUp, Vector, HopVector, Cost, Id

LEMMA TypeOKInit == Init => TypeOK
<1> SUFFICES ASSUME Init PROVE TypeOK
  OBVIOUS
<1>1. INF \in Cost /\ 0 \in Cost /\ 0 \in Hop
  BY SizeAssumption DEF Cost, Hop, Id, Foreign
<1>2. neighbors \in [Router -> Vector] /\ DV \in [Router -> Vector]
  BY <1>1 DEF Init, Vector
<1>3. next_hops \in [Router -> HopVector]
  BY <1>1 DEF Init, HopVector
<1>4. /\ all_nodes \in [Router -> [Id -> NodeRecord]]
      /\ operating \in [Router -> [Id -> BOOLEAN]]
      /\ next_expected_time \in [Router -> SUBSET Id]
  BY DEF Init, NodeRecord
<1>5. updates \in 0..MaxUpdates /\ crashes \in 0..MaxCrashes
  BY BoundAssumption DEF Init
<1> QED BY <1>2, <1>3, <1>4, <1>5 DEF Init, TypeOK

LEMMA TypeOKNext == TypeOK /\ [Next]_vars => TypeOK'
<1> SUFFICES ASSUME TypeOK, [Next]_vars PROVE TypeOK'
  OBVIOUS
<1> USE DEF TypeOK
<1>1. ASSUME NEW r \in Router, Initialize(r) PROVE TypeOK'
  <2>1. InitCost[r] \in Vector
    BY TopologyAssumption
  <2>2. all_nodes' \in [Router -> [Id -> NodeRecord]]
    BY <1>1 DEF Initialize, NodeRecord
  <2> QED BY <1>1, <2>1, <2>2, ResetTablesTypes DEF Initialize, env
<1>2. ASSUME NEW r \in Router, InitializeAgain(r) PROVE TypeOK'
  <2>1. InitCost[r] \in Vector
    BY TopologyAssumption
  <2>2. all_nodes' \in [Router -> [Id -> NodeRecord]]
    BY <1>2 DEF InitializeAgain, NodeRecord
  <2>3. operating' \in [Router -> [Id -> BOOLEAN]]
    BY <1>2 DEF InitializeAgain
  <2> QED BY <1>2, <2>1, <2>2, <2>3, ResetTablesTypes, BoundAssumption DEF InitializeAgain
<1>3. ASSUME NEW r \in Router, Crash(r) PROVE TypeOK'
  <2>1. [d \in Router |-> INF] \in Vector
    BY SizeAssumption DEF Vector, Cost
  <2> QED BY <1>3, <2>1, ResetTablesTypes, BoundAssumption DEF Crash, nodeVars
<1>4. ASSUME NEW r \in Router, NEW d \in Peers(r), NEW c \in UpdateCost, Update(r, d, c)
      PROVE  TypeOK'
  <2>1. [neighbors[r] EXCEPT ![d] = c] \in Vector
    BY BoundAssumption DEF Vector, Peers, Neighbors
  <2> QED BY <1>4, <2>1, ResetTablesTypes, BoundAssumption DEF Update, nodeVars
<1>5. ASSUME NEW r \in Router, Broadcast(r) PROVE TypeOK'
  BY <1>5 DEF Broadcast, Message, Peers, Neighbors, table, nodeVars, env
<1>6. ASSUME NEW m \in net PROVE m \in Message /\ (Deliver(m) => net' \subseteq Message)
  BY <1>6 DEF Deliver
<1>7. ASSUME NEW m \in net, Receive(m) PROVE TypeOK'
  <2> DEFINE r == m.to
             nodes == LearnNodes(all_nodes[r], Router, Neighbors(m.from))
             up == LearnOperating(all_nodes[r], operating[r], Router)
  <2>1. r \in Router /\ m.dv \in Vector /\ net' \subseteq Message
    BY <1>6, <1>7 DEF Receive, Message
  <2>2. nodes \in [Id -> NodeRecord] /\ up \in [Id -> BOOLEAN]
    BY <2>1, NodeTypes
  <2>3. PICK source \in Id : /\ Watch(r, source)
                             /\ ApplyVector(r, source, m.dv, DV[r], next_hops[r], nodes, up)
    BY <1>7, SourceTypes DEF Receive
  <2>4. next_expected_time' \in [Router -> SUBSET Id]
    BY <2>1, <2>3 DEF Watch
  <2> QED BY <1>7, <2>1, <2>2, <2>3, <2>4, ApplyVectorTypes DEF Receive, env
<1>8. ASSUME NEW m \in net, ReceiveOwnPort(m) PROVE TypeOK'
  BY <1>6, <1>8, SourceTypes DEF ReceiveOwnPort, Watch, Message, table, nodeVars, env
<1>9. ASSUME NEW m \in net, ReceiveFault(m) PROVE TypeOK'
  BY <1>6, <1>9 DEF ReceiveFault, Message, table, nodeVars, env
<1>10. ASSUME NEW m \in net, Lose(m) PROVE TypeOK'
  BY <1>10 DEF Lose, table, nodeVars, env
<1>11. ASSUME NEW r \in Router, NEW x \in Id, Expire(r, x) PROVE TypeOK'
  <2> DEFINE keys == NodeKeys(all_nodes[r])
             nodes == LearnNodes(all_nodes[r], keys, {})
             up == LearnOperating(all_nodes[r], CrashedUp(r, x), keys)
  <2>1. nodes \in [Id -> NodeRecord] /\ up \in [Id -> BOOLEAN]
    BY NodeTypes, CrashTypes
  <2>2. r \in Id
    BY DEF Id
  <2>3. ApplyVector(r, r, CrashVector(all_nodes[r]), CrashDV(DV[r], next_hops[r], x),
                    CrashHops(next_hops[r], x), nodes, up)
    BY <1>11 DEF Expire
  <2>4. /\ status' \in [Router -> {"boot", "up", "down"}]
        /\ next_expected_time' \in [Router -> SUBSET Id]
    BY <1>11 DEF Expire
  <2> QED BY <1>11, <2>1, <2>2, <2>3, <2>4, CrashTypes, ApplyVectorTypes DEF Expire, env
<1>12. ASSUME NEW r \in Router, NEW x \in Id, ExpireFault(r, x) PROVE TypeOK'
  BY <1>12 DEF ExpireFault, table, nodeVars, env
<1>13. CASE UNCHANGED vars
  BY <1>13 DEF vars, table, nodeVars, env
<1> QED
  BY <1>1, <1>2, <1>3, <1>4, <1>5, <1>7, <1>8, <1>9, <1>10, <1>11, <1>12, <1>13 DEF Next

(* Every variable keeps its type: no handler leaves a cost outside 16 bits *)
(* or a hop that names no router.                                          *)
THEOREM TypeCorrect == Spec => []TypeOK
BY TypeOKInit, TypeOKNext, PTL DEF Spec

-----------------------------------------------------------------------------
(* A route without a next hop has no usable cost.                          *)

RouteHasHop(dv, hops) == \A d \in Router : hops[d] = INF => dv[d] \in {Far, INF}

(* The rebuilt tables have the property. *)
LEMMA DirectHasHop ==
  ASSUME NEW r \in Router, NEW cost \in Vector, NEW nbrs
  PROVE  RouteHasHop(DirectDV(r, nbrs, cost), DirectHops(r, nbrs))
BY IdIsNotINF DEF RouteHasHop, DirectDV, DirectHops, BlankDV, BlankHops, Id

(* update_dv preserves it: where it writes a cost it writes a hop. *)
LEMMA UpdateHasHop ==
  ASSUME NEW dv, NEW hops, RouteHasHop(dv, hops),
         NEW up, NEW local, NEW source \in Id, NEW recv
  PROVE  RouteHasHop(UpdateDV(dv, hops, up, local, source, recv),
                     UpdateHops(dv, hops, up, local, source, recv))
BY IdIsNotINF DEF RouteHasHop, UpdateDV, UpdateHops

(* post_crash preserves it. *)
LEMMA CrashHasHop ==
  ASSUME NEW dv, NEW hops, RouteHasHop(dv, hops), NEW x
  PROVE  RouteHasHop(CrashDV(dv, hops, x), CrashHops(hops, x))
BY DEF RouteHasHop, CrashDV, CrashHops

LEMMA FiniteRouteInit == Init => FiniteRouteHasHop
BY SizeAssumption DEF Init, FiniteRouteHasHop

LEMMA FiniteRouteNext == TypeOK /\ FiniteRouteHasHop /\ [Next]_vars => FiniteRouteHasHop'
<1> SUFFICES ASSUME TypeOK, FiniteRouteHasHop, [Next]_vars PROVE FiniteRouteHasHop'
  OBVIOUS
<1>1. \A r \in Router : RouteHasHop(DV[r], next_hops[r])
  BY DEF FiniteRouteHasHop, RouteHasHop
<1>2. SUFFICES \A r \in Router : RouteHasHop(DV'[r], next_hops'[r])
  BY DEF FiniteRouteHasHop, RouteHasHop
<1>3. DV \in [Router -> Vector] /\ next_hops \in [Router -> HopVector]
  BY DEF TypeOK
<1>4. ASSUME NEW s \in Router, NEW cost \in Vector, ResetTables(s, cost)
      PROVE  \A r \in Router : RouteHasHop(DV'[r], next_hops'[r])
  <2>1. RouteHasHop(DV'[s], next_hops'[s])
    BY <1>3, <1>4, DirectHasHop DEF ResetTables
  <2>2. \A r \in Router \ {s} : DV'[r] = DV[r] /\ next_hops'[r] = next_hops[r]
    BY <1>3, <1>4 DEF ResetTables
  <2> QED BY <1>1, <2>1, <2>2
<1>5. ASSUME NEW s \in Router, NEW source \in Id, NEW recv, NEW dv, NEW hops,
             NEW nodes, NEW up, RouteHasHop(dv, hops),
             ApplyVector(s, source, recv, dv, hops, nodes, up)
      PROVE  \A r \in Router : RouteHasHop(DV'[r], next_hops'[r])
  <2>1. RouteHasHop(DV'[s], next_hops'[s])
    BY <1>3, <1>5, UpdateHasHop DEF ApplyVector
  <2>2. \A r \in Router \ {s} : DV'[r] = DV[r] /\ next_hops'[r] = next_hops[r]
    BY <1>3, <1>5 DEF ApplyVector
  <2> QED BY <1>1, <2>1, <2>2
<1>6. ASSUME NEW r \in Router, Initialize(r) \/ InitializeAgain(r) \/ Crash(r)
      PROVE  \E cost \in Vector : ResetTables(r, cost)
  <2>1. InitCost[r] \in Vector /\ [d \in Router |-> INF] \in Vector
    BY TopologyAssumption, SizeAssumption DEF Vector, Cost
  <2> QED BY <1>6, <2>1 DEF Initialize, InitializeAgain, Crash
<1>7. ASSUME NEW r \in Router, NEW d \in Peers(r), NEW c \in UpdateCost, Update(r, d, c)
      PROVE  \E cost \in Vector : ResetTables(r, cost)
  <2>1. [neighbors[r] EXCEPT ![d] = c] \in Vector
    BY BoundAssumption DEF Vector, Peers, Neighbors, TypeOK
  <2> QED BY <1>7, <2>1 DEF Update
<1>8. ASSUME NEW m \in net, Receive(m)
      PROVE  \A r \in Router : RouteHasHop(DV'[r], next_hops'[r])
  <2>1. m.to \in Router /\ SourceIds(m.dv) \subseteq Id
    BY SourceTypes DEF TypeOK, Message
  <2> QED BY <1>1, <1>5, <1>8, <2>1 DEF Receive
<1>9. ASSUME NEW r \in Router, NEW x \in Id, Expire(r, x)
      PROVE  \A s \in Router : RouteHasHop(DV'[s], next_hops'[s])
  <2>1. RouteHasHop(CrashDV(DV[r], next_hops[r], x), CrashHops(next_hops[r], x))
    BY <1>1, CrashHasHop
  <2>2. r \in Id
    BY DEF Id
  <2> QED BY <1>5, <1>9, <2>1, <2>2 DEF Expire
<1>10. ASSUME UNCHANGED table
       PROVE  \A r \in Router : RouteHasHop(DV'[r], next_hops'[r])
  BY <1>1, <1>10 DEF table
<1> QED
  BY <1>4, <1>6, <1>7, <1>8, <1>9, <1>10
     DEF Next, vars, Broadcast, ReceiveOwnPort, ReceiveFault, Lose, ExpireFault

(* A cost below Far, or between Far and INF, always comes with a hop, in   *)
(* every network and after any sequence of handlers.                       *)
THEOREM FiniteRoutesHaveHops == Spec => []FiniteRouteHasHop
<1>1. TypeOK /\ FiniteRouteHasHop /\ [Next]_vars => FiniteRouteHasHop'
  BY FiniteRouteNext
<1> QED BY <1>1, FiniteRouteInit, TypeCorrect, PTL DEF Spec

-----------------------------------------------------------------------------
(* Who holds a record of whom, and who is marked as crashed.               *)

(* Datagrams travel between neighbors. *)
PeersInFlight == \A m \in net : m.to \in Peers(m.from)

(* A router that waits for INIT has marked nobody as crashed. *)
BootIsFresh == \A r \in Router : status[r] = "boot" => \A d \in Id : operating[r][d]

(* A running router knows the ip of its neighbors: it never renews them. *)
PeersAreKnown ==
  \A r \in Router : status[r] = "up" => \A d \in Neighbors(r) : all_nodes[r][d] = "ip"

Bookkeeping ==
  TypeOK /\ PeersInFlight /\ BootIsFresh /\ PeersAreKnown /\ NeverSuspectsItself

(* Taking in a packet keeps a complete record and its mark. *)
LEMMA LearnKeeps ==
  ASSUME NEW nodes \in [Id -> NodeRecord], NEW up \in [Id -> BOOLEAN], NEW ids, NEW s,
         NEW keys
  PROVE  \A d \in Id : nodes[d] = "ip" =>
           /\ ProbeNodes(LearnNodes(nodes, ids, s), keys)[d] = "ip"
           /\ LearnOperating(nodes, up, ids)[d] = up[d]
BY DEF LearnNodes, ProbeNodes, LearnOperating, Renewed, NodeRecord

LEMMA BookkeepingInit == Init => Bookkeeping
<1> SUFFICES ASSUME Init PROVE Bookkeeping
  OBVIOUS
<1>1. \A r \in Router : r \in Id
  BY DEF Id
<1> QED BY <1>1, TypeOKInit
        DEF Init, Bookkeeping, PeersInFlight, BootIsFresh, PeersAreKnown, NeverSuspectsItself

LEMMA BookkeepingNext == Bookkeeping /\ [Next]_vars => Bookkeeping'
<1> SUFFICES ASSUME Bookkeeping, [Next]_vars PROVE Bookkeeping'
  OBVIOUS
<1> USE DEF Bookkeeping
<1>1. TypeOK'
  BY TypeOKNext
<1>2. /\ status \in [Router -> {"boot", "up", "down"}]
      /\ all_nodes \in [Router -> [Id -> NodeRecord]]
      /\ operating \in [Router -> [Id -> BOOLEAN]]
      /\ next_expected_time \in [Router -> SUBSET Id]
      /\ net \subseteq Message
      /\ \A r \in Router : r \in Id /\ Neighbors(r) \subseteq Id
  BY DEF TypeOK, Id, Neighbors
<1>3. PeersInFlight'
  <2>1. ASSUME NEW m \in net, Deliver(m) \/ net' = net \ {m} PROVE net' \subseteq net
    BY <2>1 DEF Deliver
  <2>2. ASSUME NEW r \in Router, Broadcast(r) PROVE PeersInFlight'
    BY <2>2 DEF Broadcast, PeersInFlight, Peers
  <2>3. CASE net' \subseteq net
    BY <2>3 DEF PeersInFlight
  <2> QED
    BY <2>1, <2>2, <2>3
       DEF Next, vars, Initialize, InitializeAgain, Update, Crash, Receive,
           ReceiveOwnPort, ReceiveFault, Lose, Expire, ExpireFault
<1>4. ASSUME NEW r \in Router, Initialize(r) \/ InitializeAgain(r)
      PROVE  BootIsFresh' /\ PeersAreKnown' /\ NeverSuspectsItself'
  <2>1. \A q \in Router \ {r} : /\ all_nodes'[q] = all_nodes[q]
                                /\ operating'[q] = operating[q]
                                /\ status'[q] = status[q]
    BY <1>2, <1>4 DEF Initialize, InitializeAgain
  <2>2. /\ \A d \in Neighbors(r) : all_nodes'[r][d] = "ip"
        /\ operating[r][r] => operating'[r][r]
        /\ status'[r] # "boot"
        /\ next_expected_time' = next_expected_time
    BY <1>2, <1>4 DEF Initialize, InitializeAgain
  <2>3. BootIsFresh'
    BY <2>1, <2>2 DEF BootIsFresh
  <2>4. PeersAreKnown'
    BY <2>1, <2>2 DEF PeersAreKnown
  <2>5. NeverSuspectsItself'
    BY <2>1, <2>2 DEF NeverSuspectsItself
  <2> QED BY <2>3, <2>4, <2>5
<1>5. ASSUME NEW r \in Router, NEW source \in Id, NEW recv, NEW dv, NEW hops,
             NEW ids, NEW s, NEW u \in [Id -> BOOLEAN], u[r],
             ApplyVector(r, source, recv, dv, hops, LearnNodes(all_nodes[r], ids, s),
                         LearnOperating(all_nodes[r], u, ids)),
             status[r] = "up",
             status' = status \/ status' = [status EXCEPT ![r] = "down"],
             r \notin next_expected_time'[r],
             \A q \in Router \ {r} : next_expected_time'[q] = next_expected_time[q]
      PROVE  BootIsFresh' /\ PeersAreKnown' /\ NeverSuspectsItself'
  <2>1. \A q \in Router \ {r} : /\ all_nodes'[q] = all_nodes[q]
                                /\ operating'[q] = operating[q]
                                /\ status'[q] = status[q]
    BY <1>2, <1>5 DEF ApplyVector
  <2>2. /\ all_nodes'[r] = ProbeNodes(LearnNodes(all_nodes[r], ids, s), Router \cup {source})
        /\ operating'[r] = LearnOperating(all_nodes[r], u, ids)
        /\ status'[r] # "boot"
    BY <1>2, <1>5 DEF ApplyVector
  <2>3. /\ all_nodes[r] \in [Id -> NodeRecord]
        /\ \A d \in Neighbors(r) : all_nodes[r][d] = "ip"
    BY <1>2, <1>5 DEF PeersAreKnown
  <2>4. \A d \in Neighbors(r) : all_nodes'[r][d] = "ip"
    BY <1>2, <2>2, <2>3, LearnKeeps
  <2>5. operating'[r][r]
    <3>1. LearnOperating(all_nodes[r], u, ids)[r]
      BY <1>2, <1>5, <2>3 DEF LearnOperating
    <3> QED BY <2>2, <3>1
  <2>6. BootIsFresh'
    BY <2>1, <2>2 DEF BootIsFresh
  <2>7. PeersAreKnown'
    BY <2>1, <2>4 DEF PeersAreKnown
  <2>8. NeverSuspectsItself'
    BY <1>5, <2>1, <2>5 DEF NeverSuspectsItself
  <2> QED BY <2>6, <2>7, <2>8
<1>6. ASSUME NEW m \in net, Receive(m)
      PROVE  BootIsFresh' /\ PeersAreKnown' /\ NeverSuspectsItself'
  <2>1. m.to \in Router /\ SourceIds(m.dv) \subseteq Id
    BY <1>2, SourceTypes DEF Message
  <2>2. PICK source \in Id :
          /\ Watch(m.to, source)
          /\ ApplyVector(m.to, source, m.dv, DV[m.to], next_hops[m.to],
                         LearnNodes(all_nodes[m.to], Router, Neighbors(m.from)),
                         LearnOperating(all_nodes[m.to], operating[m.to], Router))
    BY <1>6, <2>1 DEF Receive
  <2>3. /\ m.to \notin next_expected_time'[m.to]
        /\ \A q \in Router \ {m.to} : next_expected_time'[q] = next_expected_time[q]
    BY <1>2, <2>1, <2>2 DEF Watch, NeverSuspectsItself
  <2>4. operating[m.to] \in [Id -> BOOLEAN] /\ operating[m.to][m.to]
    BY <1>2, <2>1 DEF NeverSuspectsItself
  <2>5. status[m.to] = "up" /\ status' = status
    BY <1>6 DEF Receive
  <2> QED BY <1>5, <2>1, <2>2, <2>3, <2>4, <2>5
<1>7. ASSUME NEW r \in Router, NEW x \in Id, Expire(r, x)
      PROVE  BootIsFresh' /\ PeersAreKnown' /\ NeverSuspectsItself'
  <2>1. x # r /\ status[r] = "up"
    BY <1>7 DEF Expire, MayExpire, NeverSuspectsItself
  <2>2. ApplyVector(r, r, CrashVector(all_nodes[r]), CrashDV(DV[r], next_hops[r], x),
                    CrashHops(next_hops[r], x),
                    LearnNodes(all_nodes[r], NodeKeys(all_nodes[r]), {}),
                    LearnOperating(all_nodes[r], CrashedUp(r, x), NodeKeys(all_nodes[r])))
    BY <1>7 DEF Expire
  <2>3. /\ r \notin next_expected_time'[r]
        /\ \A q \in Router \ {r} : next_expected_time'[q] = next_expected_time[q]
    BY <1>2, <1>7 DEF Expire, NeverSuspectsItself
  <2>4. /\ status' = status \/ status' = [status EXCEPT ![r] = "down"]
        /\ CrashedUp(r, x) \in [Id -> BOOLEAN]
        /\ CrashedUp(r, x)[r]
    BY <1>2, <1>7, <2>1 DEF Expire, CrashedUp, NeverSuspectsItself
  <2> QED BY <1>2, <1>5, <2>1, <2>2, <2>3, <2>4
<1>8. ASSUME NEW r \in Router, Crash(r)
      PROVE  BootIsFresh' /\ PeersAreKnown' /\ NeverSuspectsItself'
  BY <1>2, <1>8 DEF Crash, nodeVars, BootIsFresh, PeersAreKnown, NeverSuspectsItself
<1>9. ASSUME NEW m \in net, ReceiveOwnPort(m)
      PROVE  BootIsFresh' /\ PeersAreKnown' /\ NeverSuspectsItself'
  BY <1>2, <1>9 DEF ReceiveOwnPort, Watch, Message, nodeVars,
                    BootIsFresh, PeersAreKnown, NeverSuspectsItself
<1>10. ASSUME NEW m \in net, ReceiveFault(m)
       PROVE  BootIsFresh' /\ PeersAreKnown' /\ NeverSuspectsItself'
  BY <1>2, <1>10 DEF ReceiveFault, Message, nodeVars,
                     BootIsFresh, PeersAreKnown, NeverSuspectsItself
<1>11. ASSUME NEW r \in Router, NEW x \in Id, ExpireFault(r, x)
       PROVE  BootIsFresh' /\ PeersAreKnown' /\ NeverSuspectsItself'
  BY <1>2, <1>11 DEF ExpireFault, nodeVars, BootIsFresh, PeersAreKnown, NeverSuspectsItself
<1>12. ASSUME UNCHANGED <<status, nodeVars, next_expected_time>>
       PROVE  BootIsFresh' /\ PeersAreKnown' /\ NeverSuspectsItself'
  BY <1>12 DEF nodeVars, BootIsFresh, PeersAreKnown, NeverSuspectsItself
<1> QED
  BY <1>1, <1>3, <1>4, <1>6, <1>7, <1>8, <1>9, <1>10, <1>11, <1>12
     DEF Next, vars, Update, Broadcast, Lose

(* A router never declares itself crashed nor waits for its own broadcast, *)
(* whatever sender the packets it reads seem to have.                      *)
THEOREM NoSelfSuspicion == Spec => []NeverSuspectsItself
BY BookkeepingInit, BookkeepingNext, PTL DEF Spec, Bookkeeping

-----------------------------------------------------------------------------
(* A declared crash is permanent and leaves no route.                      *)

(* The marks that a handler of a running router r takes back: none of a    *)
(* neighbor.                                                               *)
LEMMA MarkIsKept ==
  ASSUME Bookkeeping, [Next]_vars, NEW r \in Router, NEW x \in Peers(r),
         status[r] = "up", status'[r] = "up", ~operating[r][x]
  PROVE  ~operating'[r][x]
<1>1. /\ status \in [Router -> {"boot", "up", "down"}]
      /\ all_nodes \in [Router -> [Id -> NodeRecord]]
      /\ operating \in [Router -> [Id -> BOOLEAN]]
      /\ net \subseteq Message
      /\ x \in Id /\ x \in Neighbors(r) /\ x # r
  BY DEF Bookkeeping, TypeOK, Id, Peers, Neighbors
<1>2. all_nodes[r][x] = "ip" /\ all_nodes[r] \in [Id -> NodeRecord]
  BY <1>1 DEF Bookkeeping, PeersAreKnown
<1>3. ASSUME NEW q \in Router, NEW source, NEW recv, NEW dv, NEW hops, NEW nodes,
             NEW ids, NEW u \in [Id -> BOOLEAN], q = r => ~u[x],
             ApplyVector(q, source, recv, dv, hops, nodes, LearnOperating(all_nodes[q], u, ids))
      PROVE  ~operating'[r][x]
  <2>1. CASE q = r
    <3>1. operating'[r] = LearnOperating(all_nodes[r], u, ids)
      BY <1>1, <1>3, <2>1 DEF ApplyVector
    <3>2. ~LearnOperating(all_nodes[r], u, ids)[x]
      BY <1>1, <1>2, <1>3, <2>1 DEF LearnOperating, Renewed
    <3> QED BY <3>1, <3>2
  <2>2. CASE q # r
    BY <1>1, <1>3, <2>2 DEF ApplyVector
  <2> QED BY <2>1, <2>2
<1>4. ASSUME NEW m \in net, Receive(m) PROVE ~operating'[r][x]
  <2>1. m.to \in Router /\ operating[m.to] \in [Id -> BOOLEAN]
    BY <1>1 DEF Message
  <2> QED BY <1>3, <1>4, <2>1 DEF Receive
<1>5. ASSUME NEW q \in Router, NEW y \in Id, Expire(q, y) PROVE ~operating'[r][x]
  <2>1. CrashedUp(q, y) \in [Id -> BOOLEAN] /\ (q = r => ~CrashedUp(q, y)[x])
    BY <1>1 DEF CrashedUp
  <2> QED BY <1>3, <1>5, <2>1 DEF Expire
<1>6. ASSUME NEW q \in Router, InitializeAgain(q) PROVE ~operating'[r][x]
  BY <1>1, <1>6 DEF InitializeAgain
<1>7. CASE UNCHANGED operating
  BY <1>7
<1> QED
  BY <1>4, <1>5, <1>6, <1>7
     DEF Next, vars, nodeVars, Initialize, Update, Crash, Broadcast, ReceiveOwnPort,
         ReceiveFault, Lose, ExpireFault

(* A running router never takes back that it declared a neighbor crashed.  *)
THEOREM CrashMarksArePermanent == Spec => CrashMarkIsPermanent
<1>1. Bookkeeping /\ [Next]_vars =>
        [\A r \in Router : \A x \in Peers(r) :
           (status[r] = "up" /\ status'[r] = "up" /\ ~operating[r][x])
             => ~operating'[r][x]]_vars
  BY MarkIsKept
<1> QED BY <1>1, BookkeepingInit, BookkeepingNext, PTL DEF Spec, CrashMarkIsPermanent

(* update_dv adopts no route from a source x whose own cost is INF, unless *)
(* x already is the hop.                                                   *)
LEMMA AdoptsAvoidsCrashed ==
  ASSUME NEW dv \in Vector, NEW hops, NEW recv \in Vector, NEW source,
         NEW d \in Router, Adopts(d, dv, hops, source, recv),
         NEW x \in Router, dv[x] = INF, hops[d] # x
  PROVE  source # x
<1> SUFFICES ASSUME source = x PROVE FALSE
  OBVIOUS
<1>1. recv[d] \in Nat /\ dv[d] \in 0..INF
  BY DEF Vector, Cost
<1>2. Offer(d, dv, source, recv) = INF + recv[d]
  BY DEF Offer, CostTo
<1>3. Offer(d, dv, source, recv) < dv[d]
  BY DEF Adopts
<1> QED BY <1>1, <1>2, <1>3, SizeAssumption

(* A handler of r, or of another router, keeps r from using x. *)
AvoidsCrashed(r, x) == DV[r][x] = INF /\ \A d \in Router : next_hops[r][d] # x

LEMMA NoRouteNext == Bookkeeping /\ NoRouteThroughCrashed /\ [Next]_vars => NoRouteThroughCrashed'
<1> SUFFICES ASSUME Bookkeeping, NoRouteThroughCrashed, [Next]_vars, updates' = 0,
                    NEW r \in Router, status'[r] = "up", NEW x \in Peers(r),
                    ~operating'[r][x]
             PROVE  AvoidsCrashed(r, x)'
  BY DEF NoRouteThroughCrashed, AvoidsCrashed
<1>1. /\ status \in [Router -> {"boot", "up", "down"}]
      /\ DV \in [Router -> Vector] /\ next_hops \in [Router -> HopVector]
      /\ all_nodes \in [Router -> [Id -> NodeRecord]]
      /\ operating \in [Router -> [Id -> BOOLEAN]]
      /\ net \subseteq Message
      /\ x \in Router /\ x \in Id /\ x \in Neighbors(r) /\ x # r /\ r \in Id
  BY DEF Bookkeeping, TypeOK, Id, Peers, Neighbors
<1>2. updates = 0 /\ status[r] = "up" /\ ~operating[r][x] => AvoidsCrashed(r, x)
  BY DEF NoRouteThroughCrashed, AvoidsCrashed
<1>3. status[r] = "up" => all_nodes[r] \in [Id -> NodeRecord] /\ all_nodes[r][x] = "ip"
  BY <1>1 DEF Bookkeeping, PeersAreKnown
<1>4. ASSUME NEW source \in Id, NEW recv \in Vector, NEW dv \in Vector,
             NEW hops \in HopVector, NEW nodes, NEW up \in [Id -> BOOLEAN],
             ApplyVector(r, source, recv, dv, hops, nodes, up),
             dv[x] = INF, \A d \in Router : hops[d] # x
      PROVE  AvoidsCrashed(r, x)'
  <2>1. /\ DV'[r] = UpdateDV(dv, hops, up, r, source, recv)
        /\ next_hops'[r] = UpdateHops(dv, hops, up, r, source, recv)
        /\ operating'[r] = up
    BY <1>1, <1>4 DEF ApplyVector
  <2>2. ~up[x]
    BY <2>1
  <2>3. /\ UpdateDV(dv, hops, up, r, source, recv)[x] = INF
        /\ \A d \in Router : UpdateHops(dv, hops, up, r, source, recv)[d] # x
    <3>1. \A d \in Router : Adopts(d, dv, hops, source, recv) => source # x
      BY <1>1, <1>4, AdoptsAvoidsCrashed
    <3>2. x # INF
      BY <1>1, SizeAssumption DEF Router
    <3> QED BY <1>1, <1>4, <2>2, <3>1, <3>2 DEF UpdateDV, UpdateHops, Poisoned
  <2> QED BY <2>1, <2>3 DEF AvoidsCrashed
<1>5. ASSUME updates = 0, status[r] = "up", ~operating[r][x],
             DV'[r] = DV[r], next_hops'[r] = next_hops[r]
      PROVE  AvoidsCrashed(r, x)'
  BY <1>2, <1>5 DEF AvoidsCrashed
<1>6. ASSUME NEW q \in Router, Initialize(q) PROVE AvoidsCrashed(r, x)'
  <2>1. q # r
    BY <1>1, <1>6 DEF Initialize, Bookkeeping, BootIsFresh
  <2> QED BY <1>1, <1>5, <1>6, <2>1 DEF Initialize, ResetTables, env
<1>7. ASSUME NEW q \in Router, InitializeAgain(q) \/ Crash(q) PROVE AvoidsCrashed(r, x)'
  <2>1. q # r
    BY <1>1, <1>7 DEF InitializeAgain, Crash
  <2>2. status[r] = "up" /\ operating'[r] = operating[r] /\ updates' = updates
    BY <1>1, <1>7, <2>1 DEF InitializeAgain, Crash, nodeVars
  <2>3. DV'[r] = DV[r] /\ next_hops'[r] = next_hops[r]
    BY <1>1, <1>7, <2>1 DEF InitializeAgain, Crash, ResetTables
  <2> QED BY <1>5, <2>2, <2>3
<1>8. ASSUME NEW q \in Router, NEW d \in Peers(q), NEW c \in UpdateCost, Update(q, d, c)
      PROVE  FALSE
  BY <1>8, BoundAssumption DEF Update, Bookkeeping, TypeOK
<1>9. ASSUME NEW m \in net, Receive(m) PROVE AvoidsCrashed(r, x)'
  <2>1. /\ m.to \in Router /\ m.dv \in Vector /\ SourceIds(m.dv) \subseteq Id
        /\ status[r] = "up" /\ updates = 0
    BY <1>1, <1>9, SourceTypes DEF Message, Receive, env
  <2> DEFINE Applied(source, nodes) ==
               ApplyVector(m.to, source, m.dv, DV[m.to], next_hops[m.to], nodes,
                           LearnOperating(all_nodes[m.to], operating[m.to], Router))
  <2>5. PICK source \in Id : \E nodes : Applied(source, nodes)
    BY <1>9, <2>1 DEF Receive
  <2>2. PICK nodes : Applied(source, nodes)
    BY <2>5
  <2>3. CASE m.to = r
    <3>1. operating'[r] = LearnOperating(all_nodes[r], operating[r], Router)
      BY <1>1, <2>2, <2>3 DEF ApplyVector
    <3>2. ~LearnOperating(all_nodes[r], operating[r], Router)[x]
      BY <3>1
    <3>3. ~operating[r][x]
      BY <1>1, <3>2 DEF LearnOperating
    <3>4. AvoidsCrashed(r, x)
      BY <1>2, <2>1, <3>3
    <3>5. LearnOperating(all_nodes[r], operating[r], Router) \in [Id -> BOOLEAN]
      BY <1>1, <1>3, <2>1, NodeTypes
    <3> QED BY <1>1, <1>4, <2>1, <2>2, <2>3, <3>4, <3>5 DEF AvoidsCrashed
  <2>4. CASE m.to # r
    BY <1>1, <1>5, <2>1, <2>2, <2>4 DEF ApplyVector
  <2> QED BY <2>3, <2>4
<1>10. ASSUME NEW q \in Router, NEW y \in Id, Expire(q, y) PROVE AvoidsCrashed(r, x)'
  <2>1. status[r] = "up" /\ updates = 0
    BY <1>1, <1>10 DEF Expire, MayExpire, env
  <2>2. PICK nodes :
          ApplyVector(q, q, CrashVector(all_nodes[q]), CrashDV(DV[q], next_hops[q], y),
                      CrashHops(next_hops[q], y), nodes,
                      LearnOperating(all_nodes[q], CrashedUp(q, y), NodeKeys(all_nodes[q])))
    BY <1>10 DEF Expire
  <2>3. CASE q = r
    <3> DEFINE up == LearnOperating(all_nodes[r], CrashedUp(r, y), NodeKeys(all_nodes[r]))
    <3>1. operating'[r] = up
      BY <1>1, <2>2, <2>3 DEF ApplyVector
    <3>2. ~up[x]
      BY <3>1
    <3>3. x = y \/ ~operating[r][x]
      BY <1>1, <3>2 DEF LearnOperating, CrashedUp
    <3>4. x = y \/ AvoidsCrashed(r, x)
      BY <1>2, <2>1, <3>3
    <3>5. /\ CrashDV(DV[r], next_hops[r], y)[x] = INF
          /\ \A d \in Router : CrashHops(next_hops[r], y)[d] # x
      BY <1>1, <3>4, IdIsNotINF DEF CrashDV, CrashHops, LostBy, AvoidsCrashed
    <3>6. /\ CrashVector(all_nodes[r]) \in Vector
          /\ CrashDV(DV[r], next_hops[r], y) \in Vector
          /\ CrashHops(next_hops[r], y) \in HopVector
      BY CrashTypes DEF Bookkeeping
    <3>7. up \in [Id -> BOOLEAN]
      BY <1>1, <1>3, <2>1, CrashTypes, NodeTypes DEF Bookkeeping
    <3> QED BY <1>1, <1>4, <2>2, <2>3, <3>5, <3>6, <3>7
  <2>4. CASE q # r
    BY <1>1, <1>5, <2>1, <2>2, <2>4 DEF ApplyVector
  <2> QED BY <2>3, <2>4
<1>11. ASSUME NEW m \in net, ReceiveFault(m) PROVE AvoidsCrashed(r, x)'
  BY <1>1, <1>5, <1>11 DEF ReceiveFault, Message, table, nodeVars, env
<1>12. ASSUME NEW q \in Router, NEW y \in Id, ExpireFault(q, y) PROVE AvoidsCrashed(r, x)'
  BY <1>1, <1>5, <1>12 DEF ExpireFault, table, nodeVars, env
<1>13. ASSUME UNCHANGED <<status, table, operating, updates>> PROVE AvoidsCrashed(r, x)'
  BY <1>1, <1>5, <1>13 DEF table
<1> QED
  BY <1>6, <1>7, <1>8, <1>9, <1>10, <1>11, <1>12, <1>13
     DEF Next, vars, nodeVars, env, Broadcast, ReceiveOwnPort, Lose

(* While no UPDATE rebuilds the tables, a neighbor declared crashed stays  *)
(* out of every route of the router that declared it.                      *)
THEOREM CrashedAreAvoided == Spec => []NoRouteThroughCrashed
<1>1. Init => NoRouteThroughCrashed
  BY DEF Init, NoRouteThroughCrashed
<1> QED BY <1>1, BookkeepingInit, BookkeepingNext, NoRouteNext, PTL DEF Spec

-----------------------------------------------------------------------------
(* A router that watches anybody holds a record of everybody.              *)

(* Taking in a packet that lists every router leaves a record of each; a   *)
(* complete set of records stays complete.                                 *)
LEMMA LearnCompletes ==
  ASSUME NEW nodes \in [Id -> NodeRecord], NEW ids, NEW s, NEW keys,
         \A d \in Router : nodes[d] # "null",
         ids = Router \/ \A d \in Router : Known(nodes[d])
  PROVE  \A d \in Router : Known(ProbeNodes(LearnNodes(nodes, ids, s), keys)[d])
<1>1. \A d \in Router : d \in Id
  BY DEF Id
<1> QED BY <1>1 DEF LearnNodes, ProbeNodes, Renewed, Known, NodeRecord

(* What WatcherKnowsRouters says of one router. *)
Complete(r) ==
  /\ \A d \in Router : all_nodes[r][d] # "null"
  /\ next_expected_time[r] # {} => \A d \in Router : Known(all_nodes[r][d])

LEMMA WatcherNext == Bookkeeping /\ WatcherKnowsRouters /\ [Next]_vars => WatcherKnowsRouters'
<1> SUFFICES ASSUME Bookkeeping, WatcherKnowsRouters, [Next]_vars, DistinctPorts,
                    NEW r \in Router
             PROVE  Complete(r)'
  BY DEF WatcherKnowsRouters, Complete, DistinctPorts
<1>1. /\ status \in [Router -> {"boot", "up", "down"}]
      /\ all_nodes \in [Router -> [Id -> NodeRecord]]
      /\ next_expected_time \in [Router -> SUBSET Id]
      /\ net \subseteq Message
      /\ Router \subseteq Id
  BY DEF Bookkeeping, TypeOK, Id
<1>2. Complete(r)
  BY DEF WatcherKnowsRouters, Complete
<1>3. ASSUME all_nodes'[r] = all_nodes[r],
             next_expected_time'[r] \subseteq next_expected_time[r]
      PROVE  Complete(r)'
  BY <1>2, <1>3 DEF Complete
<1>4. ASSUME \A d \in Router : Known(all_nodes'[r][d]) PROVE Complete(r)'
  BY <1>4 DEF Complete, Known
<1>5. ASSUME NEW q \in Router, Initialize(q) \/ InitializeAgain(q) PROVE Complete(r)'
  <2>1. next_expected_time' = next_expected_time
    BY <1>5 DEF Initialize, InitializeAgain
  <2>2. \A d \in Router : all_nodes'[r][d] = all_nodes[r][d] \/ all_nodes'[r][d] = "ip"
    BY <1>1, <1>5 DEF Initialize, InitializeAgain
  <2> QED BY <1>2, <2>1, <2>2 DEF Complete, Known
<1>6. ASSUME NEW m \in net, Receive(m) PROVE Complete(r)'
  <2>1. m.to \in Router /\ SourceIds(m.dv) \subseteq Id
    BY <1>1, SourceTypes DEF Message
  <2>2. PICK source \in Id :
          /\ Watch(m.to, source)
          /\ all_nodes' = [all_nodes EXCEPT ![m.to] =
               ProbeNodes(LearnNodes(all_nodes[m.to], Router, Neighbors(m.from)),
                          Router \cup {source})]
    BY <1>6, <2>1 DEF Receive, ApplyVector
  <2>3. CASE m.to = r
    <3>1. \A d \in Router :
            Known(ProbeNodes(LearnNodes(all_nodes[r], Router, Neighbors(m.from)),
                             Router \cup {source})[d])
      BY <1>1, <1>2, LearnCompletes DEF Complete
    <3> QED BY <1>1, <1>4, <2>2, <2>3, <3>1
  <2>4. CASE m.to # r
    BY <1>1, <1>3, <2>1, <2>2, <2>4 DEF Watch
  <2> QED BY <2>3, <2>4
<1>7. ASSUME NEW q \in Router, NEW y \in Id, Expire(q, y) PROVE Complete(r)'
  <2>1. /\ all_nodes' = [all_nodes EXCEPT ![q] =
             ProbeNodes(LearnNodes(all_nodes[q], NodeKeys(all_nodes[q]), {}), Router \cup {q})]
        /\ next_expected_time' = [next_expected_time EXCEPT ![q] = @ \ {y}]
        /\ y \in next_expected_time[q]
    BY <1>7 DEF Expire, ApplyVector, MayExpire
  <2>2. CASE q = r
    <3>1. \A d \in Router : all_nodes[r][d] # "null" /\ Known(all_nodes[r][d])
      BY <1>2, <2>1, <2>2 DEF Complete
    <3>2. \A d \in Router :
            Known(ProbeNodes(LearnNodes(all_nodes[r], NodeKeys(all_nodes[r]), {}),
                             Router \cup {r})[d])
      BY <1>1, <3>1, LearnCompletes
    <3> QED BY <1>1, <1>4, <2>1, <2>2, <3>2
  <2>3. CASE q # r
    BY <1>1, <1>3, <2>1, <2>3
  <2> QED BY <2>2, <2>3
<1>8. ASSUME NEW m \in net, ReceiveOwnPort(m) PROVE FALSE
  <2>1. m.to = m.from
    BY <1>1, <1>8 DEF ReceiveOwnPort, DistinctPorts, Message
  <2> QED BY <2>1 DEF Bookkeeping, PeersInFlight, Peers
<1>9. ASSUME NEW q \in Router, NEW y \in Id, ExpireFault(q, y) PROVE Complete(r)'
  BY <1>1, <1>3, <1>9 DEF ExpireFault, nodeVars
<1>10. ASSUME UNCHANGED <<all_nodes, next_expected_time>> PROVE Complete(r)'
  BY <1>3, <1>10
<1> QED
  BY <1>5, <1>6, <1>7, <1>8, <1>9, <1>10
     DEF Next, vars, nodeVars, Update, Crash, Broadcast, ReceiveFault, Lose

(* With distinct ports no handler dereferences a missing record of a       *)
(* router: a deadline is only ever set by a packet that lists every router.*)
THEOREM WatchersKnowRouters == Spec => []WatcherKnowsRouters
<1>1. Init => WatcherKnowsRouters
  BY DEF Init, WatcherKnowsRouters, Id
<1> QED BY <1>1, BookkeepingInit, BookkeepingNext, WatcherNext, PTL DEF Spec

-----------------------------------------------------------------------------
(* The loop of update_dv. Its tables after each destination are a function *)
(* defined by recursion: that the function it should be solves the same    *)
(* equation is checked directly, and that no other does by the least       *)
(* destination at which two solutions differ.                              *)

(* A set of natural numbers that is not empty has a least element. *)
LEMMA LeastNumber ==
  ASSUME NEW T, T \subseteq Nat, T # {}
  PROVE  \E x \in T : \A y \in T : x <= y
<1> DEFINE R == OpToRel(<, Nat)
<1>1. IsWellFoundedOn(R, Nat)
  BY NatLessThanWellFounded
<1> HIDE DEF R
<1>2. PICK x \in T : \A y \in T : ~ (<<y, x>> \in R)
  BY <1>1, WFMin
<1>3. \A y \in T : ~ (y < x)
  <2> SUFFICES ASSUME NEW y \in T, y < x PROVE <<y, x>> \in R
    BY <1>2
  <2> QED BY DEF R, OpToRel
<1> QED BY <1>2, <1>3

(* One pass decides on its destination by the entries it finds there.      *)
LEMMA PassDecides ==
  ASSUME NEW dv \in Vector, NEW hops \in HopVector, NEW up, NEW local, NEW source \in Id,
         NEW recv \in Vector, NEW d \in Router,
         NEW f \in Vector, NEW h \in HopVector, f[d] = dv[d], h[d] = hops[d]
  PROVE  Pass([dv |-> f, hops |-> h], d, up, local, source, CostTo(dv, source), recv) =
           [dv   |-> [f EXCEPT ![d] = UpdateDV(dv, hops, up, local, source, recv)[d]],
            hops |-> [h EXCEPT ![d] = UpdateHops(dv, hops, up, local, source, recv)[d]]]
<1> DEFINE sum == CostTo(dv, source) + recv[d]
           tables == [dv |-> f, hops |-> h]
           pass == Pass(tables, d, up, local, source, CostTo(dv, source), recv)
           To(cost, hop) == [dv |-> [f EXCEPT ![d] = cost], hops |-> [h EXCEPT ![d] = hop]]
           n == UpdateDV(dv, hops, up, local, source, recv)[d]
           g == UpdateHops(dv, hops, up, local, source, recv)[d]
<1>1. sum \in Nat /\ dv[d] \in Nat /\ sum = Offer(d, dv, source, recv)
  BY OfferNat, SizeAssumption DEF Offer, Vector, Cost
<1>2. tables.dv = f /\ tables.hops = h /\ To(f[d], h[d]) = tables
  BY DEF Vector, HopVector
<1>3. /\ n = IF Poisoned(d, up, local, source, recv) THEN INF
             ELSE IF Adopts(d, dv, hops, source, recv) THEN Wrap(Offer(d, dv, source, recv)) ELSE dv[d]
      /\ g = IF Poisoned(d, up, local, source, recv) THEN INF
             ELSE IF Adopts(d, dv, hops, source, recv) THEN source ELSE hops[d]
  BY DEF UpdateDV, UpdateHops
<1>4. pass = IF ~up[d] THEN To(INF, INF)
             ELSE IF recv[d] = INF /\ source # local
                  THEN IF f[d] = INF /\ h[d] = INF THEN tables ELSE To(INF, INF)
             ELSE IF f[d] <= sum /\ h[d] # source THEN tables
             ELSE IF sum = 0 \/ d = source \/ recv[d] = INF THEN tables
             ELSE To(Wrap(sum), source)
  BY <1>2 DEF Pass
<1> HIDE DEF sum, tables, pass, n, g, To
<1>5. CASE Poisoned(d, up, local, source, recv)
  <2>1. n = INF /\ g = INF
    BY <1>3, <1>5
  <2>2. pass = To(INF, INF)
    BY <1>2, <1>4, <1>5 DEF Poisoned
  <2> QED BY <2>1, <2>2 DEF pass, n, g, To, tables
<1>6. CASE ~Poisoned(d, up, local, source, recv) /\ Adopts(d, dv, hops, source, recv)
  <2>1. n = Wrap(sum) /\ g = source
    BY <1>1, <1>3, <1>6
  <2>2. pass = To(Wrap(sum), source)
    BY <1>1, <1>4, <1>6 DEF Poisoned, Adopts
  <2> QED BY <2>1, <2>2 DEF pass, n, g, To, tables
<1>7. CASE ~Poisoned(d, up, local, source, recv) /\ ~Adopts(d, dv, hops, source, recv)
  <2>1. n = f[d] /\ g = h[d]
    BY <1>3, <1>7
  <2>2. pass = tables
    BY <1>1, <1>4, <1>7 DEF Poisoned, Adopts
  <2> QED BY <1>2, <2>1, <2>2 DEF pass, n, g, To, tables
<1> QED BY <1>5, <1>6, <1>7

(* The loop yields the tables of update_dv, for any vector and any tables. *)
LEMMA LoopDecides ==
  ASSUME NEW dv \in Vector, NEW hops \in HopVector, NEW up, NEW local, NEW source \in Id,
         NEW recv \in Vector
  PROVE  Loop(dv, hops, up, local, source, recv) =
           [dv   |-> UpdateDV(dv, hops, up, local, source, recv),
            hops |-> UpdateHops(dv, hops, up, local, source, recv)]
<1> DEFINE n == UpdateDV(dv, hops, up, local, source, recv)
           g == UpdateHops(dv, hops, up, local, source, recv)
           P(tables, d) == Pass(tables, d, up, local, source, CostTo(dv, source), recv)
           (* The equation of the loop, and its solution: up to d, the     *)
           (* entries are the new ones.                                    *)
           Is(after) == after = [d \in 0..N |-> IF d = 0 THEN [dv |-> dv, hops |-> hops]
                                                ELSE P(after[d - 1], d)]
           nd(d) == [e \in Router |-> IF e <= d THEN n[e] ELSE dv[e]]
           gd(d) == [e \in Router |-> IF e <= d THEN g[e] ELSE hops[e]]
           sol == [d \in 0..N |-> [dv |-> nd(d), hops |-> gd(d)]]
           run == CHOOSE after : Is(after)
<1>1. Loop(dv, hops, up, local, source, recv) = run[N]
  BY DEF Loop
<1>2. n \in Vector /\ g \in HopVector
  BY UpdateTypes
<1>3. N \in Nat /\ N # 0 /\ Router = 1..N
  BY SizeAssumption DEF Router
<1> HIDE DEF run
<1>4. \A d \in 0..N : nd(d) \in Vector /\ gd(d) \in HopVector
  BY <1>2 DEF Vector, HopVector
<1>5. nd(0) = dv /\ gd(0) = hops
  BY <1>3 DEF Vector, HopVector
<1>6. ASSUME NEW d \in 1..N
      PROVE  P([dv |-> nd(d - 1), hops |-> gd(d - 1)], d) = [dv |-> nd(d), hops |-> gd(d)]
  <2>1. d - 1 \in 0..N /\ ~(d <= d - 1) /\ d \in Router
    BY <1>3
  <2>2. nd(d - 1)[d] = dv[d] /\ gd(d - 1)[d] = hops[d]
    BY <2>1
  <2>3. nd(d - 1) \in Vector /\ gd(d - 1) \in HopVector
    BY <1>4, <2>1
  <2>4. \A e \in Router : e <= d <=> e <= d - 1 \/ e = d
    BY <1>3
  <2>5. [nd(d - 1) EXCEPT ![d] = n[d]] = nd(d) /\ [gd(d - 1) EXCEPT ![d] = g[d]] = gd(d)
    <3> HIDE DEF n, g
    <3> QED BY <2>1, <2>4
  <2> HIDE DEF nd, gd
  <2> QED BY <2>1, <2>2, <2>3, <2>5, PassDecides
<1> HIDE DEF nd, gd, n, g, P
<1>7. Is(sol)
  <2> SUFFICES ASSUME NEW d \in 0..N
               PROVE  sol[d] = IF d = 0 THEN [dv |-> dv, hops |-> hops] ELSE P(sol[d - 1], d)
    OBVIOUS
  <2>1. CASE d = 0
    BY <1>5, <2>1
  <2>2. CASE d # 0
    <3>1. d \in 1..N /\ d - 1 \in 0..N
      BY <1>3, <2>2
    <3> QED BY <1>6, <2>2, <3>1
  <2> QED BY <2>1, <2>2
<1>8. Is(run)
  <2> HIDE DEF Is, sol
  <2> QED BY <1>7 DEF run
<1>9. \A d \in 0..N : run[d] = sol[d]
  <2> DEFINE T == {d \in 0..N : run[d] # sol[d]}
  <2> SUFFICES ASSUME T # {} PROVE FALSE
    OBVIOUS
  <2>1. T \subseteq Nat
    <3> HIDE DEF sol
    <3> QED BY <1>3
  <2>2. PICK d \in T : \A e \in T : d <= e
    <3> HIDE DEF T
    <3> QED BY <2>1, LeastNumber
  <2>3. d \in 0..N /\ run[d] # sol[d]
    BY <2>2
  <2>4. /\ run[d] = IF d = 0 THEN [dv |-> dv, hops |-> hops] ELSE P(run[d - 1], d)
        /\ sol[d] = IF d = 0 THEN [dv |-> dv, hops |-> hops] ELSE P(sol[d - 1], d)
    <3> HIDE DEF sol
    <3> QED BY <1>7, <1>8, <2>3
  <2> HIDE DEF sol, Is
  <2>5. d # 0
    BY <2>3, <2>4
  <2>6. d - 1 \in 0..N /\ d - 1 \notin T
    BY <1>3, <2>2, <2>3, <2>5
  <2> QED BY <2>3, <2>4, <2>6
<1>10. run[N] = [dv |-> nd(N), hops |-> gd(N)]
  BY <1>3, <1>9
<1>11. nd(N) = n /\ gd(N) = g
  BY <1>2, <1>3 DEF nd, gd, Vector, HopVector
<1> QED BY <1>1, <1>10, <1>11 DEF n, g

(* update_dv writes the two maps while it reads them; whatever vector is   *)
(* in flight, its receiver decides on each destination by the old entries. *)
THEOREM LoopsDecideOnOldTables == Spec => []LoopDecidesOnOldTables
<1>1. TypeOK => LoopDecidesOnOldTables
  <2> SUFFICES ASSUME TypeOK, NEW m \in net, NEW source \in SourceIds(m.dv)
               PROVE  LET r == m.to
                          up == LearnOperating(all_nodes[r], operating[r], Router)
                      IN  Loop(DV[r], next_hops[r], up, r, source, m.dv) =
                            [dv   |-> UpdateDV(DV[r], next_hops[r], up, r, source, m.dv),
                             hops |-> UpdateHops(DV[r], next_hops[r], up, r, source, m.dv)]
    BY DEF LoopDecidesOnOldTables
  <2>1. m.to \in Router /\ m.dv \in Vector
    BY DEF TypeOK, Message
  <2>2. DV[m.to] \in Vector /\ next_hops[m.to] \in HopVector /\ source \in Id
    BY <2>1, SourceTypes DEF TypeOK
  <2> QED BY <2>1, <2>2, LoopDecides
<1> QED BY <1>1, TypeCorrect, PTL
=============================================================================
