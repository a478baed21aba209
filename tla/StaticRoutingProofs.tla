------------------------- MODULE StaticRoutingProofs -------------------------
(***************************************************************************)
(* Proofs about StaticRouting: in a calm network, of any number of routers *)
(* and any topology, packets are attributed to their senders and no table  *)
(* beats the true distances.                                               *)
(***************************************************************************)
EXTENDS StaticRouting, RoutingNetworkProofs

(* A vector that names r, and r only, as its sender and gives up no route. *)
Names(dv, r) == \A d \in Router : dv[d] # INF /\ (dv[d] = 0 <=> d = r)

(* extract_routing_packet finds the sender of such a vector. *)
LEMMA NamedSource ==
  ASSUME NEW r \in Router, NEW dv, Names(dv, r)
  PROVE  SourceIds(dv) = {r}
<1>1. {d \in Router : dv[d] = 0} = {r}
  BY DEF Names
<1>2. r <= r
  BY SizeAssumption DEF Router
<1> QED BY <1>1, <1>2 DEF SourceIds

(* What calm tables of r look like; the links, the vector and the hops. *)
CalmLinks(r, links) ==
  \A d \in Neighbors(r) : links[d] # INF /\ (links[d] = 0 <=> d = r)
CalmHops(r, hops) ==
  hops[r] = r /\ \A d \in Router : hops[d] \in Neighbors(r) \cup {INF}

(* The tables that INIT and UPDATE rebuild are calm. *)
LEMMA DirectIsCalm ==
  ASSUME NEW r \in Router, NEW links \in Vector, CalmLinks(r, links)
  PROVE  /\ Names(DirectDV(r, Neighbors(r), links), r)
         /\ CalmHops(r, DirectHops(r, Neighbors(r)))
<1>1. r \in Neighbors(r) /\ Neighbors(r) \subseteq Router
  BY TopologyAssumption, SizeAssumption DEF Neighbors
<1>2. Names(DirectDV(r, Neighbors(r), links), r)
  BY <1>1, SizeAssumption DEF DirectDV, BlankDV, Names, CalmLinks
<1>3. CalmHops(r, DirectHops(r, Neighbors(r)))
  BY <1>1 DEF DirectHops, BlankHops, CalmHops
<1> QED BY <1>2, <1>3

(* The sum that update_dv stores, as long as it does not overflow. *)
LEMMA StoredSum ==
  ASSUME NEW x \in Nat, x < INF
  PROVE  Wrap(x) = x
BY SizeAssumption DEF Wrap

(* update_dv with the vector of a neighbor keeps calm tables calm. *)
LEMMA UpdateIsCalm ==
  ASSUME NEW r \in Router, NEW source \in Peers(r),
         NEW dv \in Vector, Names(dv, r), NEW hops \in HopVector, CalmHops(r, hops),
         NEW recv \in Vector, Names(recv, source),
         NEW up, \A d \in Router : up[d],
         ~Overflows(dv, hops, up, r, source, recv)
  PROVE  /\ Names(UpdateDV(dv, hops, up, r, source, recv), r)
         /\ CalmHops(r, UpdateHops(dv, hops, up, r, source, recv))
<1>1. source \in Router /\ source # r /\ source \in Neighbors(r)
  BY DEF Peers, Neighbors
<1>2. \A d \in Router : ~Poisoned(d, up, r, source, recv)
  BY DEF Poisoned, Names
<1>3. ~Adopts(r, dv, hops, source, recv)
  <2>1. dv[r] = 0 /\ hops[r] = r /\ Offer(r, dv, source, recv) \in Nat
    BY OfferNat DEF Names, CalmHops
  <2> QED BY <1>1, <2>1 DEF Adopts
<1>4. ASSUME NEW d \in Router, Adopts(d, dv, hops, source, recv)
      PROVE  Wrap(Offer(d, dv, source, recv)) \in Nat \ {0, INF}
  <2>1. Offer(d, dv, source, recv) \in Nat
    BY OfferNat
  <2>2. Offer(d, dv, source, recv) < INF
    BY <1>2, <1>4, <2>1, SizeAssumption DEF Overflows
  <2>3. Wrap(Offer(d, dv, source, recv)) = Offer(d, dv, source, recv)
    BY <2>1, <2>2, StoredSum
  <2> QED BY <1>4, <2>1, <2>2, <2>3, SizeAssumption DEF Adopts
<1>5. Names(UpdateDV(dv, hops, up, r, source, recv), r)
  BY <1>2, <1>3, <1>4 DEF UpdateDV, Names
<1>6. CalmHops(r, UpdateHops(dv, hops, up, r, source, recv))
  BY <1>1, <1>2, <1>3 DEF UpdateHops, CalmHops
<1> QED BY <1>5, <1>6

-----------------------------------------------------------------------------
(* The inductive invariant of a calm network.                              *)

(* Nobody has ended or is thought to have; running routers have calm       *)
(* tables, datagrams name their senders, and only running neighbors are    *)
(* watched.                                                                *)
NobodyFails == \A r \in Router : status[r] # "down" /\ \A d \in Router : operating[r][d]
CalmTables ==
  \A r \in Router : status[r] = "up" =>
    Names(DV[r], r) /\ CalmHops(r, next_hops[r]) /\ CalmLinks(r, neighbors[r])
CalmNet == \A m \in net : status[m.from] = "up" /\ Names(m.dv, m.from)
CalmWatch == \A r \in Router : \A x \in next_expected_time[r] : x \in Peers(r) /\ status[x] = "up"

CalmInv == ~overflow => NobodyFails /\ CalmTables /\ CalmNet /\ CalmWatch

LEMMA CalmInit == Init => CalmInv
BY DEF Init, CalmInv, NobodyFails, CalmTables, CalmNet, CalmWatch, Id

(* Where a router was running, and running routers stay so, what is in     *)
(* flight and watched remains in order.                                    *)
LEMMA CalmKept ==
  ASSUME CalmNet, CalmWatch, NEW r \in Router,
         TypeOK,
         status' = status \/ status' = [status EXCEPT ![r] = "up"],
         net' \subseteq net,
         \A q \in Router : next_expected_time'[q] \subseteq next_expected_time[q]
  PROVE  CalmNet' /\ CalmWatch'
<1>1. \A q \in Router : status[q] = "up" => status'[q] = "up"
  BY DEF TypeOK
<1>2. \A m \in net : m.from \in Router
  BY DEF TypeOK, Message
<1>3. \A q \in Router : \A x \in Peers(q) : x \in Router
  BY DEF Peers, Neighbors
<1> QED BY <1>1, <1>2, <1>3 DEF CalmNet, CalmWatch, Peers, Neighbors

(* No deadline passes: whoever is watched goes on naming itself. *)
LEMMA CalmNeverExpires ==
  ASSUME Calm, ~overflow, CalmInv, NEW r \in Router, NEW x \in Id
  PROVE  ~MayExpire(r, x)
<1> SUFFICES ASSUME MayExpire(r, x) PROVE FALSE
  OBVIOUS
<1>1. CalmTables /\ CalmWatch
  BY DEF CalmInv
<1>2. x \in Peers(r) /\ x \in Router /\ status[x] = "up" /\ r \in Peers(x)
  BY <1>1 DEF MayExpire, CalmWatch, Peers, Neighbors, Calm
<1>3. SourceIds(DV[x]) = {x}
  BY <1>1, <1>2, NamedSource DEF CalmTables
<1> QED BY <1>2, <1>3 DEF MayExpire, Refreshes, Calm

LEMMA CalmNext ==
  ASSUME Calm
  PROVE  Bookkeeping /\ WatcherKnowsRouters /\ CalmInv /\ [Next]_vars => CalmInv'
<1> SUFFICES ASSUME Bookkeeping, WatcherKnowsRouters, CalmInv, [Next]_vars, ~overflow'
             PROVE  (NobodyFails /\ CalmTables /\ CalmNet /\ CalmWatch)'
  BY DEF CalmInv
<1>1. /\ TypeOK /\ Router \subseteq Id
      /\ status \in [Router -> {"boot", "up", "down"}]
      /\ DV \in [Router -> Vector] /\ next_hops \in [Router -> HopVector]
      /\ neighbors \in [Router -> Vector]
      /\ all_nodes \in [Router -> [Id -> NodeRecord]]
      /\ operating \in [Router -> [Id -> BOOLEAN]]
      /\ next_expected_time \in [Router -> SUBSET Id]
      /\ net \subseteq Message
      /\ overflow \in BOOLEAN /\ crashes \in 0..MaxCrashes
  BY DEF Bookkeeping, TypeOK, Id
<1>2. ~overflow
  BY <1>1
     DEF Next, vars, Initialize, InitializeAgain, Update, Crash, Broadcast, Receive,
         ReceiveOwnPort, ReceiveFault, Lose, Expire, ExpireFault, ApplyVector
<1>3. NobodyFails /\ CalmTables /\ CalmNet /\ CalmWatch
  BY <1>2 DEF CalmInv
<1>4. ASSUME NEW r \in Router, Initialize(r)
      PROVE  (NobodyFails /\ CalmTables /\ CalmNet /\ CalmWatch)'
  <2>1. InitCost[r] \in Vector /\ CalmLinks(r, InitCost[r])
    BY TopologyAssumption DEF CalmLinks, Neighbors
  <2>2. /\ neighbors'[r] = InitCost[r]
        /\ Names(DV'[r], r) /\ CalmHops(r, next_hops'[r])
    BY <1>1, <1>4, <2>1, DirectIsCalm DEF Initialize, ResetTables
  <2>3. CalmTables'
    BY <1>1, <1>3, <1>4, <2>1, <2>2 DEF Initialize, ResetTables, CalmTables
  <2>4. CalmNet' /\ CalmWatch'
    BY <1>1, <1>3, <1>4, CalmKept DEF Initialize
  <2>5. NobodyFails'
    BY <1>1, <1>3, <1>4 DEF Initialize, NobodyFails
  <2> QED BY <2>3, <2>4, <2>5
<1>5. ASSUME NEW r \in Router, InitializeAgain(r) \/ Crash(r) PROVE FALSE
  BY <1>1, <1>5 DEF InitializeAgain, Crash, Calm
<1>6. ASSUME NEW r \in Router, NEW d \in Peers(r), NEW c \in UpdateCost, Update(r, d, c)
      PROVE  (NobodyFails /\ CalmTables /\ CalmNet /\ CalmWatch)'
  <2> DEFINE links == [neighbors[r] EXCEPT ![d] = c]
  <2>1. links \in Vector /\ CalmLinks(r, links)
    <3>1. d \in Router /\ d # r /\ c \in Cost /\ c # 0 /\ c # INF
      BY BoundAssumption DEF Peers, Neighbors, Calm
    <3>2. CalmLinks(r, neighbors[r])
      BY <1>3, <1>6 DEF CalmTables, Update
    <3> QED BY <1>1, <3>1, <3>2 DEF CalmLinks, Vector, Neighbors
  <2>2. /\ neighbors'[r] = links
        /\ Names(DV'[r], r) /\ CalmHops(r, next_hops'[r])
    BY <1>1, <1>6, <2>1, DirectIsCalm DEF Update, ResetTables
  <2>3. CalmTables'
    BY <1>1, <1>3, <1>6, <2>1, <2>2 DEF Update, ResetTables, CalmTables
  <2>4. CalmNet' /\ CalmWatch'
    BY <1>1, <1>3, <1>6, CalmKept DEF Update
  <2>5. NobodyFails'
    BY <1>3, <1>6 DEF Update, NobodyFails, nodeVars
  <2> QED BY <2>3, <2>4, <2>5
<1>7. ASSUME NEW r \in Router, Broadcast(r)
      PROVE  (NobodyFails /\ CalmTables /\ CalmNet /\ CalmWatch)'
  <2>1. CalmNet'
    BY <1>1, <1>3, <1>7 DEF Broadcast, CalmNet, CalmTables
  <2> QED BY <1>3, <1>7, <2>1 DEF Broadcast, NobodyFails, CalmTables, CalmWatch, table, nodeVars
<1>8. ASSUME NEW m \in net, Receive(m)
      PROVE  (NobodyFails /\ CalmTables /\ CalmNet /\ CalmWatch)'
  <2> DEFINE r == m.to
             up == LearnOperating(all_nodes[r], operating[r], Router)
             nodes == LearnNodes(all_nodes[r], Router, Neighbors(m.from))
  <2>1. /\ m.from \in Router /\ r \in Router /\ r \in Peers(m.from) /\ m.from \in Peers(r)
        /\ m.dv \in Vector /\ status[m.from] = "up" /\ Names(m.dv, m.from)
        /\ status[r] = "up" /\ status' = status /\ neighbors' = neighbors
    BY <1>1, <1>3, <1>8 DEF Message, Bookkeeping, PeersInFlight, CalmNet, Calm, Receive
  <2>2. SourceIds(m.dv) = {m.from}
    BY <2>1, NamedSource
  <2>3. /\ Watch(r, m.from)
        /\ ApplyVector(r, m.from, m.dv, DV[r], next_hops[r], nodes, up)
        /\ net' \subseteq net
    BY <1>8, <2>2 DEF Receive, Deliver
  <2>4. \A d \in Router : up[d]
    BY <1>1, <1>3, <2>1 DEF LearnOperating, NobodyFails
  <2>5. /\ DV' = [DV EXCEPT ![r] = UpdateDV(DV[r], next_hops[r], up, r, m.from, m.dv)]
        /\ next_hops' = [next_hops EXCEPT ![r] = UpdateHops(DV[r], next_hops[r], up, r, m.from, m.dv)]
        /\ operating' = [operating EXCEPT ![r] = up]
        /\ ~Overflows(DV[r], next_hops[r], up, r, m.from, m.dv)
    BY <2>3 DEF ApplyVector
  <2>6. Names(DV[r], r) /\ CalmHops(r, next_hops[r])
    BY <1>3, <2>1 DEF CalmTables
  <2>7. Names(DV'[r], r) /\ CalmHops(r, next_hops'[r])
    BY <1>1, <2>1, <2>4, <2>5, <2>6, UpdateIsCalm
  <2>8. CalmTables'
    BY <1>1, <1>3, <2>1, <2>5, <2>7 DEF CalmTables
  <2>9. NobodyFails'
    BY <1>1, <1>3, <2>1, <2>4, <2>5 DEF NobodyFails
  <2>10. CalmNet'
    BY <1>3, <2>1, <2>3 DEF CalmNet
  <2>11. CalmWatch'
    BY <1>1, <1>3, <2>1, <2>3 DEF CalmWatch, Watch, Peers, Neighbors
  <2> QED BY <2>8, <2>9, <2>10, <2>11
<1>9. ASSUME NEW m \in net, ReceiveOwnPort(m) PROVE FALSE
  <2>1. m.to = m.from
    BY <1>1, <1>9 DEF ReceiveOwnPort, Calm, DistinctPorts, Message
  <2> QED BY <2>1 DEF Bookkeeping, PeersInFlight, Peers
<1>10. ASSUME NEW m \in net, ReceiveFault(m) PROVE FALSE
  BY <1>1, <1>10 DEF ReceiveFault, Faults, WatcherKnowsRouters, Calm, Message
<1>11. ASSUME NEW m \in net, Lose(m)
       PROVE  (NobodyFails /\ CalmTables /\ CalmNet /\ CalmWatch)'
  BY <1>3, <1>11 DEF Lose, NobodyFails, CalmTables, CalmNet, CalmWatch, table, nodeVars
<1>12. ASSUME NEW r \in Router, NEW x \in Id, Expire(r, x) \/ ExpireFault(r, x) PROVE FALSE
  BY <1>2, <1>12, CalmNeverExpires DEF Expire, ExpireFault
<1>13. ASSUME UNCHANGED vars PROVE (NobodyFails /\ CalmTables /\ CalmNet /\ CalmWatch)'
  BY <1>3, <1>13 DEF vars, NobodyFails, CalmTables, CalmNet, CalmWatch, table, nodeVars
<1> QED
  BY <1>4, <1>5, <1>6, <1>7, <1>8, <1>9, <1>10, <1>11, <1>12, <1>13 DEF Next

LEMMA CalmAlways ==
  ASSUME Calm
  PROVE  Spec => [](Bookkeeping /\ WatcherKnowsRouters /\ CalmInv)
BY CalmInit, CalmNext, WatchersKnowRouters, BookkeepingInit, BookkeepingNext, PTL DEF Spec

(* In a calm network a packet is attributed to its sender.                 *)
THEOREM SendersAreIdentified ==
  ASSUME Calm
  PROVE  Spec => []SenderIsIdentified
<1>1. Bookkeeping /\ CalmInv => SenderIsIdentified
  <2> SUFFICES ASSUME Bookkeeping, CalmInv, ~overflow, NEW m \in net
               PROVE  SourceIds(m.dv) = {m.from}
    BY DEF SenderIsIdentified
  <2> QED BY NamedSource DEF Bookkeeping, TypeOK, Message, CalmInv, CalmNet
<1> QED BY <1>1, CalmAlways, PTL

(* In a calm network next hops are neighbors.                              *)
THEOREM NextHopsAreNeighbors ==
  ASSUME Calm
  PROVE  Spec => []HopsAreNeighbors
<1>1. CalmInv => HopsAreNeighbors
  BY DEF CalmInv, CalmTables, CalmHops, HopsAreNeighbors
<1> QED BY <1>1, CalmAlways, PTL

(* In a calm network the documented entry of a router for itself stays as  *)
(* it is: cost 0, by itself.                                               *)
THEOREM SelfEntriesAreZero ==
  ASSUME Calm
  PROVE  Spec => [](~overflow => SelfEntryIsZero)
<1>1. CalmInv => (~overflow => SelfEntryIsZero)
  BY DEF CalmInv, CalmTables, CalmHops, Names, SelfEntryIsZero
<1> QED BY <1>1, CalmAlways, PTL

-----------------------------------------------------------------------------
(* The tables against the true distances.                                  *)

(* What the tables of r claim, and what a vector of r claims, is no better *)
(* than the truth.                                                         *)
Modest(r, dv) == \A d \in Router : dv[d] >= Dist[r][d]
ModestHops(r, dv, hops) ==
  \A d \in Router : hops[d] \in Router => dv[d] >= Dist[r][hops[d]] + Dist[hops[d]][d]

ModestInv ==
  ~overflow /\ updates = 0 =>
    /\ \A r \in Router : status[r] = "up" =>
         Modest(r, DV[r]) /\ ModestHops(r, DV[r], next_hops[r])
    /\ \A m \in net : Modest(m.from, m.dv)

(* The direct links, and what is not known, claim nothing untrue. *)
LEMMA DirectIsModest ==
  ASSUME NEW r \in Router
  PROVE  /\ Modest(r, DirectDV(r, Neighbors(r), InitCost[r]))
         /\ ModestHops(r, DirectDV(r, Neighbors(r), InitCost[r]), DirectHops(r, Neighbors(r)))
<1> DEFINE dv == DirectDV(r, Neighbors(r), InitCost[r])
           hops == DirectHops(r, Neighbors(r))
<1>1. \A d \in Router : /\ Dist[r][d] \in Nat /\ Dist[r][r] = 0 /\ Dist[d][d] = 0
                        /\ Dist[r][d] <= InitCost[r][d] /\ Dist[r][d] <= Far
                        /\ InitCost[r][d] \in Nat
  BY DistAssumption, TopologyAssumption DEF Vector, Cost
<1>2. r \in Neighbors(r) /\ INF \notin Router
  BY TopologyAssumption, SizeAssumption DEF Neighbors, Router
<1>3. Modest(r, dv)
  BY <1>1, SizeAssumption DEF Modest, DirectDV, BlankDV
<1>4. ASSUME NEW d \in Router, hops[d] \in Router PROVE hops[d] = d
  BY <1>2, <1>4 DEF DirectHops, BlankHops
<1>5. ModestHops(r, dv, hops)
  <2> SUFFICES ASSUME NEW d \in Router, hops[d] \in Router
               PROVE  dv[d] >= Dist[r][hops[d]] + Dist[hops[d]][d]
    BY DEF ModestHops
  <2>1. dv[d] >= Dist[r][d]
    BY <1>3 DEF Modest
  <2> QED BY <1>1, <1>4, <2>1
<1> QED BY <1>3, <1>5

(* A route through a neighbor whose vector is modest is no better than the *)
(* true path through that neighbor.                                        *)
LEMMA UpdateIsModest ==
  ASSUME NEW r \in Router, NEW source \in Router,
         NEW dv \in Vector, NEW hops, NEW recv \in Vector,
         Modest(r, dv), ModestHops(r, dv, hops), Modest(source, recv),
         NEW up, \A d \in Router : up[d],
         \A d \in Router : recv[d] # INF,
         ~Overflows(dv, hops, up, r, source, recv)
  PROVE  /\ Modest(r, UpdateDV(dv, hops, up, r, source, recv))
         /\ ModestHops(r, UpdateDV(dv, hops, up, r, source, recv),
                          UpdateHops(dv, hops, up, r, source, recv))
<1>1. \A d \in Router : ~Poisoned(d, up, r, source, recv)
  BY DEF Poisoned
<1>2. ASSUME NEW d \in Router, Adopts(d, dv, hops, source, recv)
      PROVE  /\ Wrap(Offer(d, dv, source, recv)) >= Dist[r][source] + Dist[source][d]
             /\ Wrap(Offer(d, dv, source, recv)) >= Dist[r][d]
  <2>1. Offer(d, dv, source, recv) \in Nat
    BY OfferNat
  <2>2. Offer(d, dv, source, recv) < INF
    BY <1>1, <1>2, <2>1, SizeAssumption DEF Overflows
  <2>3. Wrap(Offer(d, dv, source, recv)) = dv[source] + recv[d]
    BY <2>1, <2>2, StoredSum DEF Offer, CostTo
  <2>4. dv[source] >= Dist[r][source] /\ recv[d] >= Dist[source][d]
    BY DEF Modest
  <2>5. /\ dv[source] \in Nat /\ recv[d] \in Nat
        /\ Dist[r][source] \in Nat /\ Dist[source][d] \in Nat /\ Dist[r][d] \in Nat
        /\ Dist[r][d] <= Dist[r][source] + Dist[source][d]
    BY DistAssumption DEF Vector, Cost
  <2> QED BY <2>3, <2>4, <2>5
<1>3. Modest(r, UpdateDV(dv, hops, up, r, source, recv))
  BY <1>1, <1>2 DEF UpdateDV, Modest
<1>4. ModestHops(r, UpdateDV(dv, hops, up, r, source, recv),
                    UpdateHops(dv, hops, up, r, source, recv))
  BY <1>1, <1>2 DEF UpdateDV, UpdateHops, ModestHops
<1> QED BY <1>3, <1>4

LEMMA ModestNext ==
  ASSUME Calm
  PROVE  Bookkeeping /\ WatcherKnowsRouters /\ CalmInv /\ CalmInv' /\ ModestInv /\ [Next]_vars
           => ModestInv'
<1> SUFFICES ASSUME Bookkeeping, WatcherKnowsRouters, CalmInv, CalmInv', ModestInv, [Next]_vars,
                    ~overflow', updates' = 0
             PROVE  /\ \A r \in Router : status'[r] = "up" =>
                         Modest(r, DV'[r]) /\ ModestHops(r, DV'[r], next_hops'[r])
                    /\ \A m \in net' : Modest(m.from, m.dv)
  BY DEF ModestInv
<1>1. /\ status \in [Router -> {"boot", "up", "down"}]
      /\ DV \in [Router -> Vector] /\ next_hops \in [Router -> HopVector]
      /\ net \subseteq Message /\ overflow \in BOOLEAN /\ updates \in 0..MaxUpdates
      /\ operating \in [Router -> [Id -> BOOLEAN]]
      /\ Router \subseteq Id
  BY DEF Bookkeeping, TypeOK, Id
<1> DEFINE Tables(r) == Modest(r, DV[r]) /\ ModestHops(r, DV[r], next_hops[r])
           Claims == \A m \in net : Modest(m.from, m.dv)
<1>2. ~overflow /\ updates = 0
  <2>1. ~overflow
    BY <1>1
       DEF Next, vars, Initialize, InitializeAgain, Update, Crash, Broadcast, Receive,
           ReceiveOwnPort, ReceiveFault, Lose, Expire, ExpireFault, ApplyVector
  <2>2. updates' = updates \/ updates' = updates + 1
    BY DEF Next, vars, env, Initialize, InitializeAgain, Update, Crash, Broadcast, Receive,
           ReceiveOwnPort, ReceiveFault, Lose, Expire, ExpireFault
  <2> QED BY <1>1, <2>1, <2>2, BoundAssumption
<1>3. /\ \A r \in Router : status[r] = "up" => Tables(r)
      /\ Claims
      /\ NobodyFails /\ CalmTables /\ CalmNet
  BY <1>2 DEF ModestInv, CalmInv
<1>4. NobodyFails'
  BY DEF CalmInv
<1>5. ASSUME NEW r \in Router, Initialize(r)
      PROVE  (\A q \in Router : status'[q] = "up" => Tables(q)') /\ Claims'
  BY <1>1, <1>3, <1>5, DirectIsModest DEF Initialize, ResetTables
<1>6. ASSUME NEW r \in Router, InitializeAgain(r) \/ Crash(r) PROVE FALSE
  BY <1>1, <1>4, <1>6 DEF InitializeAgain, Crash, NobodyFails
<1>7. ASSUME NEW r \in Router, NEW d \in Peers(r), NEW c \in UpdateCost, Update(r, d, c)
      PROVE  FALSE
  BY <1>1, <1>2, <1>7, BoundAssumption DEF Update
<1>8. ASSUME NEW r \in Router, Broadcast(r)
      PROVE  (\A q \in Router : status'[q] = "up" => Tables(q)') /\ Claims'
  BY <1>3, <1>8 DEF Broadcast, table
<1>9. ASSUME NEW m \in net, Receive(m)
      PROVE  (\A q \in Router : status'[q] = "up" => Tables(q)') /\ Claims'
  <2> DEFINE r == m.to
             up == LearnOperating(all_nodes[r], operating[r], Router)
             nodes == LearnNodes(all_nodes[r], Router, Neighbors(m.from))
  <2>1. /\ m.from \in Router /\ r \in Router /\ m.dv \in Vector
        /\ Names(m.dv, m.from) /\ Modest(m.from, m.dv)
        /\ status[r] = "up" /\ status' = status
    BY <1>1, <1>3, <1>9 DEF Message, CalmNet, Receive
  <2>2. SourceIds(m.dv) = {m.from}
    BY <2>1, NamedSource
  <2>3. /\ ApplyVector(r, m.from, m.dv, DV[r], next_hops[r], nodes, up)
        /\ net' \subseteq net
    BY <1>9, <2>2 DEF Receive, Deliver
  <2>4. \A d \in Router : up[d]
    BY <1>1, <1>3, <2>1 DEF LearnOperating, NobodyFails
  <2>5. /\ DV' = [DV EXCEPT ![r] = UpdateDV(DV[r], next_hops[r], up, r, m.from, m.dv)]
        /\ next_hops' = [next_hops EXCEPT ![r] = UpdateHops(DV[r], next_hops[r], up, r, m.from, m.dv)]
        /\ ~Overflows(DV[r], next_hops[r], up, r, m.from, m.dv)
    BY <2>3 DEF ApplyVector
  <2>6. DV[r] \in Vector /\ Tables(r) /\ \A d \in Router : m.dv[d] # INF
    BY <1>1, <1>3, <2>1 DEF Names
  <2>7. Modest(r, DV'[r]) /\ ModestHops(r, DV'[r], next_hops'[r])
    BY <1>1, <2>1, <2>4, <2>5, <2>6, UpdateIsModest
  <2> QED BY <1>1, <1>3, <2>1, <2>3, <2>5, <2>7
<1>10. ASSUME NEW m \in net, ReceiveOwnPort(m) \/ Lose(m)
       PROVE  (\A q \in Router : status'[q] = "up" => Tables(q)') /\ Claims'
  BY <1>3, <1>10 DEF ReceiveOwnPort, Lose, Deliver, table
<1>11. ASSUME NEW m \in net, ReceiveFault(m) PROVE FALSE
  BY <1>1, <1>4, <1>11 DEF ReceiveFault, NobodyFails, Message
<1>12. ASSUME NEW r \in Router, NEW x \in Id, Expire(r, x) \/ ExpireFault(r, x) PROVE FALSE
  BY <1>2, <1>12, CalmNeverExpires DEF Expire, ExpireFault
<1>13. ASSUME UNCHANGED vars
       PROVE  (\A q \in Router : status'[q] = "up" => Tables(q)') /\ Claims'
  BY <1>3, <1>13 DEF vars, table
<1> QED
  BY <1>5, <1>6, <1>7, <1>8, <1>9, <1>10, <1>11, <1>12, <1>13 DEF Next

LEMMA ModestAlways ==
  ASSUME Calm
  PROVE  Spec => []ModestInv
<1>1. Init => ModestInv
  BY DEF Init, ModestInv
<1>2. Bookkeeping /\ WatcherKnowsRouters /\ CalmInv /\ CalmInv' /\ ModestInv /\ [Next]_vars
        => ModestInv'
  BY ModestNext
<1> QED BY <1>1, <1>2, CalmAlways, PTL DEF Spec

(* In a calm network no table claims a path cheaper than the best one.     *)
THEOREM CostsAreNotTooLow ==
  ASSUME Calm
  PROVE  Spec => []NeverUnderestimates
<1>1. ModestInv => NeverUnderestimates
  BY DEF ModestInv, Modest, NeverUnderestimates
<1> QED BY <1>1, ModestAlways, PTL

(* In a calm network every next hop is on the way that the cost stands for.*)
THEOREM HopsAreOnTheWay ==
  ASSUME Calm
  PROVE  Spec => []HopIsOnTheWay
<1>1. ModestInv => HopIsOnTheWay
  BY DEF ModestInv, ModestHops, HopIsOnTheWay
<1> QED BY <1>1, ModestAlways, PTL
=============================================================================
