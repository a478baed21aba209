---------------------------- MODULE RoutingReport ----------------------------
(***************************************************************************)
(* The ROUTING_TABLE command beside the protocol of RoutingNetwork. While  *)
(* it collects the table, routing() erases the routers with an id above 5  *)
(* from DV and next_hops. A key that is missing reads as 0 and comes back  *)
(* with that value when operator[] looks it up, so here the key sets of    *)
(* the two maps are state; a missing key has the value 0 in DV, next_hops. *)
(***************************************************************************)
EXTENDS StaticRouting

CONSTANT MaxReported   \* the largest id that ROUTING_TABLE reports (5)

VARIABLES
  noCost,   \* noCost[r]: the routers that are not keys of DV
  noHop     \* noHop[r]: those that are not keys of next_hops

keys == <<noCost, noHop>>
allVars == <<vars, keys>>

ReportInit == Init /\ noCost = [r \in Router |-> {}] /\ noHop = [r \in Router |-> {}]

(* initialize_dv writes both maps for all routers. *)
AllKeys(r) ==
  /\ noCost' = [noCost EXCEPT ![r] = {}]
  /\ noHop' = [noHop EXCEPT ![r] = {}]

-----------------------------------------------------------------------------
(* routing(). The loop goes on from the erased element of next_hops: that  *)
(* works or ends the process.                                              *)
RoutingTable(r) ==
  LET erased == {d \in Router : d > MaxReported} \ noHop[r]
  IN  /\ status[r] = "up"
      /\ DV' = [DV EXCEPT ![r] = [d \in Router |-> IF d \in erased THEN 0 ELSE @[d]]]
      /\ next_hops' = [next_hops EXCEPT ![r] =
                         [d \in Router |-> IF d \in erased THEN 0 ELSE @[d]]]
      /\ noCost' = [noCost EXCEPT ![r] = @ \cup erased]
      /\ noHop' = [noHop EXCEPT ![r] = @ \cup erased]
      /\ status' \in {status} \cup
           (IF erased = {} THEN {} ELSE {[status EXCEPT ![r] = "down"]})
      /\ UNCHANGED <<neighbors, nodeVars, next_expected_time, net, env, overflow>>

(* The cost that an entry of the answer carries. *)
ReportedCost(r, d) == IF DV[r][d] = Far THEN INF ELSE DV[r][d]

(* udp_broad_cast_DV looks up DV of every router. *)
BroadcastAll(r) ==
  /\ Broadcast(r)
  /\ noCost' = [noCost EXCEPT ![r] = {}]
  /\ UNCHANGED noHop

(* update_dv looks up DV[source_id], then visits the keys of DV only; it   *)
(* writes the hop of every router that is not operating.                   *)
Merge(r, source, recv, dv, hops, missing, nodes, up) ==
  LET visited == (Router \ missing) \cup ({source} \cap Router)
      newDV == UpdateDV(dv, hops, up, r, source, recv)
      newHops == UpdateHops(dv, hops, up, r, source, recv)
  IN  /\ DV' = [DV EXCEPT ![r] = [d \in Router |-> IF d \in visited THEN newDV[d] ELSE dv[d]]]
      /\ next_hops' = [next_hops EXCEPT ![r] =
           [d \in Router |-> IF d \in visited THEN newHops[d]
                             ELSE IF ~up[d] THEN INF ELSE hops[d]]]
      /\ all_nodes' = [all_nodes EXCEPT ![r] = ProbeNodes(nodes, visited \cup {source})]
      /\ operating' = [operating EXCEPT ![r] = up]
      /\ overflow' = (overflow \/ Overflows(dv, hops, up, r, source, recv))
      /\ noCost' = [noCost EXCEPT ![r] = Router \ visited]
      /\ noHop' = [noHop EXCEPT ![r] = {d \in @ \ visited : up[d]}]

ReceiveVector(m) ==
  LET r == m.to
      nodes == LearnNodes(all_nodes[r], Router, Neighbors(m.from))
      up == LearnOperating(all_nodes[r], operating[r], Router)
  IN  /\ status[r] = "up" /\ Port[m.from] # Port[r]
      /\ ~Faults(all_nodes[r], Router)
      /\ \E source \in SourceIds(m.dv) :
           /\ Watch(r, source)
           /\ Merge(r, source, m.dv, DV[r], next_hops[r], noCost[r], nodes, up)
      /\ Deliver(m)
      /\ UNCHANGED <<status, neighbors, env>>

(* post_crash writes both maps for x, and DV for the routers whose key in  *)
(* next_hops names x.                                                      *)
ExpireDeadline(r, x) ==
  LET nodeKeys == NodeKeys(all_nodes[r])
      nodes == LearnNodes(all_nodes[r], nodeKeys, {})
      up == LearnOperating(all_nodes[r], CrashedUp(r, x), nodeKeys)
      missing == {d \in noCost[r] : ~LostBy(x, next_hops[r], d)}
  IN  /\ MayExpire(r, x) /\ ~ExpireFaults(r, x)
      /\ next_expected_time' = [next_expected_time EXCEPT ![r] = @ \ {x}]
      /\ Merge(r, r, CrashVector(all_nodes[r]), CrashDV(DV[r], next_hops[r], x),
               CrashHops(next_hops[r], x), missing, nodes, up)
      /\ status' \in {status, [status EXCEPT ![r] = "down"]}
      /\ UNCHANGED <<neighbors, net, env>>

ReportNext ==
  \/ \E r \in Router : RoutingTable(r) \/ BroadcastAll(r)
  \/ \E r \in Router : (Initialize(r) \/ InitializeAgain(r) \/ Crash(r)) /\ AllKeys(r)
  \/ \E r \in Router : \E d \in Peers(r), c \in UpdateCost : Update(r, d, c) /\ AllKeys(r)
  \/ \E m \in net : ReceiveVector(m)
  \/ \E m \in net : (ReceiveOwnPort(m) \/ ReceiveFault(m) \/ Lose(m)) /\ UNCHANGED keys
  \/ \E r \in Router, x \in Id : ExpireDeadline(r, x)
  \/ \E r \in Router, x \in Id : ExpireFault(r, x) /\ UNCHANGED keys

ReportSpec == ReportInit /\ [][ReportNext]_allVars

(* The answer to ROUTING_TABLE gives "the next hop router ID (on the least *)
(* cost path to that router) and the cost of the path to it"               *)
(* (control_handler.cpp:486): no reported cost is below that of the best   *)
(* path, whoever has been asked for its table before.                      *)
ReportsAreHonest ==
  (~overflow /\ updates = 0) =>
    \A r \in Router : status[r] = "up" =>
      \A d \in Router : d <= MaxReported => ReportedCost(r, d) >= Dist[r][d]
=============================================================================
