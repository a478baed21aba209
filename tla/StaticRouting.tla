---------------------------- MODULE StaticRouting ----------------------------
(***************************************************************************)
(* What the protocol computes: the tables of RoutingNetwork against the    *)
(* true distances of the topology that the controller distributed.         *)
(***************************************************************************)
EXTENDS RoutingNetwork

CONSTANT Dist     \* Dist[r][d]: cost of a least cost path of InitCost

(* What the safety properties below rely on. *)
ASSUME DistAssumption ==
  /\ Dist \in [Router -> [Router -> Nat]]
  /\ \A r \in Router : Dist[r][r] = 0
  /\ \A r, d \in Router : Dist[r][d] <= InitCost[r][d] /\ Dist[r][d] <= Far
  /\ \A r, s, d \in Router : Dist[r][d] <= Dist[r][s] + Dist[s][d]

(* Nobody ends, no link is given up, no live neighbor is suspected: what   *)
(* the theorems of StaticRoutingProofs assume of the network. Datagrams    *)
(* may be lost and duplicated, and the costs of links may change.          *)
Calm ==
  /\ MaxCrashes = 0 /\ ~SuspectLive /\ INF \notin UpdateCost
  /\ DistinctPorts
  /\ \A r \in Router : \A s \in Peers(r) : r \in Peers(s)

(* The entry of a running router for itself has cost 0 and itself as hop.  *)
SelfEntryIsZero ==
  \A r \in Router : status[r] = "up" => DV[r][r] = 0 /\ next_hops[r][r] = r

(* A packet carries no sender id: the receiver infers it from the entry of *)
(* cost 0. As long as no sum overflows, it infers the true sender.         *)
SenderIsIdentified ==
  ~overflow => \A m \in net : SourceIds(m.dv) = {m.from}

(* As long as no sum overflows, a next hop is a neighbor. *)
HopsAreNeighbors ==
  ~overflow => \A r, d \in Router :
                 status[r] = "up" => next_hops[r][d] \in Neighbors(r) \cup {INF}

(* As long as links keep their costs and no sum overflows, no table claims *)
(* a path cheaper than the best one, whatever datagrams are lost, delayed, *)
(* duplicated or reordered.                                                *)
NeverUnderestimates ==
  (~overflow /\ updates = 0) =>
    \A r, d \in Router : status[r] = "up" => DV[r][d] >= Dist[r][d]

(* Every router is up and has the cost of a least cost path to each other. *)
Converged == \A r \in Router : status[r] = "up" /\ DV[r] = Dist[r]

(* Without faults the tables reach the true distances and stay there. *)
Converges == <>[]Converged

(* The cost of a route is never below that of a best path which goes on    *)
(* from its next hop, whatever datagrams are lost, delayed, duplicated or  *)
(* reordered. In tables that hold the true distances each hop is therefore *)
(* nearer to the destination than the one before it. (The link to the hop  *)
(* may cost more than the path: network_utils.cpp:207 takes the cost of    *)
(* the best known path to the hop.)                                        *)
HopIsOnTheWay ==
  (~overflow /\ updates = 0) =>
    \A r, d \in Router :
      (status[r] = "up" /\ next_hops[r][d] \in Router) =>
        DV[r][d] >= Dist[r][next_hops[r][d]] + Dist[next_hops[r][d]][d]
=============================================================================
