--------------------------- MODULE RoutingNetwork ---------------------------
(***************************************************************************)
(* The routing protocol run by N router processes. Each process is one     *)
(* select() loop (main_loop, connection_manager.cpp), so each of its       *)
(* handlers is one atomic action: the controller's INIT, UPDATE and CRASH  *)
(* commands, the periodic UDP broadcast of its distance vector, the        *)
(* receipt of a neighbor's vector, and the expiry of a silent neighbor.    *)
(* The handlers of different routers interleave freely and the datagrams   *)
(* between them are reordered and, when Unreliable, lost or duplicated.    *)
(***************************************************************************)
EXTENDS DistanceVector, FiniteSets

CONSTANTS
  InitCost,       \* InitCost[r][d]: cost of the link r-d in r's INIT payload, INF if none
  Port,           \* router_port of each router
  UpdateCost,     \* the costs an UPDATE command may carry
  MaxUpdates,     \* bound: UPDATE commands in a behavior
  MaxCrashes,     \* bound: CRASH and repeated INIT commands in a behavior
  MaxInFlight,    \* bound: datagrams in flight on a directed link
  Unreliable,     \* TRUE: datagrams may be lost or duplicated
  SuspectLive     \* TRUE: a neighbor may expire although it keeps broadcasting

ASSUME TopologyAssumption ==
  /\ InitCost \in [Router -> Vector]
  /\ \A r, d \in Router : InitCost[r][d] = 0 <=> r = d
ASSUME PortAssumption == Port \in [Router -> Nat]
ASSUME BoundAssumption ==
  /\ UpdateCost \subseteq Cost \ {0}
  /\ MaxUpdates \in Nat /\ MaxCrashes \in Nat /\ MaxInFlight \in Nat
  /\ Unreliable \in BOOLEAN /\ SuspectLive \in BOOLEAN

VARIABLES
  status,              \* "boot" before INIT, "up", or "down": the process has ended
  neighbors,           \* neighbors[r][d]: cost_from_source of the link to d
  DV,
  next_hops,
  all_nodes,           \* the record r holds of each id
  operating,           \* all_nodes[d]->operating; TRUE where there is no record
  next_expected_time,  \* the ids whose next broadcast r has a deadline for
  net,                 \* datagrams in flight
  updates, crashes,    \* commands spent, for the bounds
  overflow             \* history: some stored cost has reached INF or wrapped

table == <<neighbors, DV, next_hops>>
nodeVars == <<all_nodes, operating>>
env == <<updates, crashes>>
vars == <<status, table, nodeVars, next_expected_time, net, env, overflow>>

(* The keys of the map `neighbors`, r itself among them. *)
Neighbors(r) == {d \in Router : InitCost[r][d] # INF}
Peers(r) == Neighbors(r) \ {r}

Message == [from : Router, to : Router, dv : Vector]

TypeOK ==
  /\ status \in [Router -> {"boot", "up", "down"}]
  /\ neighbors \in [Router -> Vector]
  /\ DV \in [Router -> Vector]
  /\ next_hops \in [Router -> HopVector]
  /\ all_nodes \in [Router -> [Id -> NodeRecord]]
  /\ operating \in [Router -> [Id -> BOOLEAN]]
  /\ next_expected_time \in [Router -> SUBSET Id]
  /\ net \subseteq Message
  /\ updates \in 0..MaxUpdates /\ crashes \in 0..MaxCrashes
  /\ overflow \in BOOLEAN

Init ==
  /\ status = [r \in Router |-> "boot"]
  /\ neighbors = [r \in Router |-> [d \in Router |-> INF]]
  /\ DV = [r \in Router |-> [d \in Router |-> 0]]
  /\ next_hops = [r \in Router |-> [d \in Router |-> 0]]
  /\ all_nodes = [r \in Router |-> [d \in Id |-> "absent"]]
  /\ operating = [r \in Router |-> [d \in Id |-> TRUE]]
  /\ next_expected_time = [r \in Router |-> {}]
  /\ net = {}
  /\ updates = 0 /\ crashes = 0
  /\ overflow = FALSE

-----------------------------------------------------------------------------
(* Commands of the controller.                                             *)

(* Rebuild the tables of r from the direct links in cost. *)
ResetTables(r, cost) ==
  /\ neighbors' = [neighbors EXCEPT ![r] = cost]
  /\ DV' = [DV EXCEPT ![r] = DirectDV(r, Neighbors(r), cost)]
  /\ next_hops' = [next_hops EXCEPT ![r] = DirectHops(r, Neighbors(r))]

(* INIT: links, tables and the records of the neighbors; sockets and timer *)
(* start. next_expected_time stays empty until a neighbor is heard.        *)
Initialize(r) ==
  /\ status[r] = "boot"
  /\ status' = [status EXCEPT ![r] = "up"]
  /\ ResetTables(r, InitCost[r])
  /\ all_nodes' = [all_nodes EXCEPT ![r] =
                     [d \in Id |-> IF d \in Neighbors(r) THEN "ip" ELSE @[d]]]
  /\ UNCHANGED <<operating, next_expected_time, net, env, overflow>>

(* A second INIT rebuilds the tables, then the bind of the data port, on   *)
(* which the process itself listens, fails: ERROR ends the process.        *)
InitializeAgain(r) ==
  /\ status[r] = "up" /\ crashes < MaxCrashes
  /\ crashes' = crashes + 1
  /\ status' = [status EXCEPT ![r] = "down"]
  /\ ResetTables(r, InitCost[r])
  /\ all_nodes' = [all_nodes EXCEPT ![r] =
                     [d \in Id |-> IF d \in Neighbors(r) THEN "ip" ELSE @[d]]]
  /\ operating' = [operating EXCEPT ![r] = [d \in Id |-> @[d] \/ d \in Neighbors(r)]]
  /\ UNCHANGED <<next_expected_time, net, updates, overflow>>

(* UPDATE: the link to the neighbor d costs c; everything learnt is lost.  *)
Update(r, d, c) ==
  /\ status[r] = "up" /\ updates < MaxUpdates
  /\ updates' = updates + 1
  /\ ResetTables(r, [neighbors[r] EXCEPT ![d] = c])
  /\ UNCHANGED <<status, nodeVars, next_expected_time, net, crashes, overflow>>

(* CRASH: every link of r costs INF, its own entry included, and the loop  *)
(* ends before r broadcasts again.                                         *)
Crash(r) ==
  /\ status[r] = "up" /\ crashes < MaxCrashes
  /\ crashes' = crashes + 1
  /\ status' = [status EXCEPT ![r] = "down"]
  /\ ResetTables(r, [d \in Router |-> INF])
  /\ UNCHANGED <<nodeVars, next_expected_time, net, updates, overflow>>

-----------------------------------------------------------------------------
(* The UDP protocol.                                                       *)

InFlight(r, d) == {m \in net : m.from = r /\ m.to = d}
Room(r) == \A d \in Peers(r) : Cardinality(InFlight(r, d)) < MaxInFlight

(* udp_broad_cast_DV, run by the loop when next_send_time is reached: the  *)
(* whole vector goes to every neighbor, those known to be down included.   *)
Broadcast(r) ==
  /\ status[r] = "up" /\ Room(r)
  /\ net' = net \cup {[from |-> r, to |-> d, dv |-> DV[r]] : d \in Peers(r)}
  /\ UNCHANGED <<status, table, nodeVars, next_expected_time, env, overflow>>

(* A duplicated datagram stays in flight after it is delivered. *)
Deliver(m) == net' = net \ {m} \/ (Unreliable /\ net' = net)

(* extract_routing_packet yields the source; every id but r's own gets a   *)
(* new deadline, before the vector is used or ignored.                     *)
(* Mutant: a packet without sender may set a deadline for r itself. *)
WatchAnyone(r, source) ==
  next_expected_time' = [next_expected_time EXCEPT ![r] = @ \cup {source}]

Watch(r, source) ==
  next_expected_time' = [next_expected_time EXCEPT ![r] =
                           IF source = r THEN @ ELSE @ \cup {source}]

(* Mutant of ApplyVector: a router that is heard is operating again. *)
ApplyAndRevive(r, source, recv, dv, hops, nodes, up) ==
  /\ DV' = [DV EXCEPT ![r] = UpdateDV(dv, hops, up, r, source, recv)]
  /\ next_hops' = [next_hops EXCEPT ![r] = UpdateHops(dv, hops, up, r, source, recv)]
  /\ all_nodes' = [all_nodes EXCEPT ![r] = ProbeNodes(nodes, Router \cup {source})]
  /\ operating' = [operating EXCEPT ![r] = [up EXCEPT ![source] = TRUE]]
  /\ overflow' = (overflow \/ Overflows(dv, hops, up, r, source, recv))

(* update_dv of r for the vector of source, after the records `nodes` and  *)
(* `up` have taken in the packet. The map DV now holds the key source.     *)
ApplyVector(r, source, recv, dv, hops, nodes, up) ==
  /\ DV' = [DV EXCEPT ![r] = UpdateDV(dv, hops, up, r, source, recv)]
  /\ next_hops' = [next_hops EXCEPT ![r] = UpdateHops(dv, hops, up, r, source, recv)]
  /\ all_nodes' = [all_nodes EXCEPT ![r] = ProbeNodes(nodes, Router \cup {source})]
  /\ operating' = [operating EXCEPT ![r] = up]
  /\ overflow' = (overflow \/ Overflows(dv, hops, up, r, source, recv))

(* A packet from a router with r's own port number is dropped: r takes it  *)
(* for its own.                                                            *)
ReceiveOwnPort(m) ==
  /\ status[m.to] = "up" /\ Port[m.from] = Port[m.to]
  /\ \E source \in SourceIds(m.dv) : Watch(m.to, source)
  /\ Deliver(m)
  /\ UNCHANGED <<status, table, nodeVars, env, overflow>>

Receive(m) ==
  LET r == m.to
      nodes == LearnNodes(all_nodes[r], Router, Neighbors(m.from))
      up == LearnOperating(all_nodes[r], operating[r], Router)
  IN  /\ status[r] = "up" /\ Port[m.from] # Port[r]
      /\ ~Faults(all_nodes[r], Router)
      /\ \E source \in SourceIds(m.dv) :
           /\ Watch(r, source)
           /\ ApplyVector(r, source, m.dv, DV[r], next_hops[r], nodes, up)
      /\ Deliver(m)
      /\ UNCHANGED <<status, neighbors, env>>

(* A NULL record of one of the routers in the packet is dereferenced. *)
ReceiveFault(m) ==
  /\ status[m.to] = "up" /\ Port[m.from] # Port[m.to]
  /\ Faults(all_nodes[m.to], Router)
  /\ status' = [status EXCEPT ![m.to] = "down"]
  /\ Deliver(m)
  /\ UNCHANGED <<table, nodeVars, next_expected_time, env, overflow>>

(* Loss of a datagram, in the network or at a router whose port is closed. *)
Lose(m) ==
  /\ Unreliable \/ status[m.to] # "up"
  /\ net' = net \ {m}
  /\ UNCHANGED <<status, table, nodeVars, next_expected_time, env, overflow>>

-----------------------------------------------------------------------------
(* Expiry of next_expected_time, checked on every pass of the loop.        *)

(* x broadcasts to r and names itself, so that its deadline moves on. *)
Refreshes(x, r) ==
  /\ x \in Router /\ status[x] = "up" /\ r \in Peers(x)
  /\ SourceIds(DV[x]) = {x}

MayExpire(r, x) ==
  /\ status[r] = "up" /\ x \in next_expected_time[r]
  /\ SuspectLive \/ ~Refreshes(x, r)

(* post_crash hands update_dv a record of cost INF for each key of         *)
(* all_nodes, as if r had sent it; other routers read as 0.                *)
CrashVector(nodes) == [d \in Router |-> IF nodes[d] = "absent" THEN 0 ELSE INF]
(* Mutant: the record of x is not marked. *)
CrashUnmarked(r, x) == operating[r]
CrashedUp(r, x) == [operating[r] EXCEPT ![x] = FALSE]
NodeKeys(nodes) == {d \in Id : nodes[d] # "absent"}

(* all_nodes[x]->operating, then the ip of every record, are dereferenced. *)
ExpireFaults(r, x) == ~Known(all_nodes[r][x]) \/ Faults(all_nodes[r], Id)

(* The deadline of x is erased and x declared crashed. The loop then goes  *)
(* on from the erased map element, which either works or ends the process. *)
Expire(r, x) ==
  LET keys == NodeKeys(all_nodes[r])
      nodes == LearnNodes(all_nodes[r], keys, {})
      up == LearnOperating(all_nodes[r], CrashedUp(r, x), keys)
  IN  /\ MayExpire(r, x) /\ ~ExpireFaults(r, x)
      /\ next_expected_time' = [next_expected_time EXCEPT ![r] = @ \ {x}]
      /\ ApplyVector(r, r, CrashVector(all_nodes[r]), CrashDV(DV[r], next_hops[r], x),
                     CrashHops(next_hops[r], x), nodes, up)
      /\ status' \in {status, [status EXCEPT ![r] = "down"]}
      /\ UNCHANGED <<neighbors, net, env>>

ExpireFault(r, x) ==
  /\ MayExpire(r, x) /\ ExpireFaults(r, x)
  /\ next_expected_time' = [next_expected_time EXCEPT ![r] = @ \ {x}]
  /\ status' = [status EXCEPT ![r] = "down"]
  /\ UNCHANGED <<table, nodeVars, net, env, overflow>>

-----------------------------------------------------------------------------
Next ==
  \/ \E r \in Router : Initialize(r) \/ InitializeAgain(r) \/ Crash(r) \/ Broadcast(r)
  \/ \E r \in Router : \E d \in Peers(r), c \in UpdateCost : Update(r, d, c)
  \/ \E m \in net : Receive(m) \/ ReceiveOwnPort(m) \/ ReceiveFault(m) \/ Lose(m)
  \/ \E r \in Router : \E x \in Id : Expire(r, x) \/ ExpireFault(r, x)

Spec == Init /\ [][Next]_vars

(***************************************************************************)
(* Fairness. The controller initializes every router, and the select()     *)
(* timeout makes every running router broadcast again (BroadcastTimer      *)
(* gives the condition); a datagram leaves its link, read or lost; the     *)
(* deadlines are looked at on every pass of the loop.                      *)
(***************************************************************************)
Leave(s, r) == \E m \in InFlight(s, r) :
                 Receive(m) \/ ReceiveOwnPort(m) \/ ReceiveFault(m) \/ Lose(m)
Expiry(r, x) == Expire(r, x) \/ ExpireFault(r, x)

Fairness ==
  /\ \A r \in Router : WF_vars(Initialize(r) \/ Broadcast(r))
  /\ \A r \in Router : \A s \in Peers(r) : WF_vars(Leave(s, r))
  /\ \A r \in Router, x \in Id : WF_vars(Expiry(r, x))

FairSpec == Spec /\ Fairness

-----------------------------------------------------------------------------
(* Properties that hold whatever is lost, delayed, suspected or crashed.   *)

(* A route that names no next hop never claims a usable cost: what         *)
(* initialize_dv, update_dv and post_crash write to DV and next_hops in    *)
(* separate statements agrees after any sequence of handlers. routing()    *)
(* and sendfile() read the two maps as one table.                          *)
FiniteRouteHasHop ==
  \A r, d \in Router : next_hops[r][d] = INF => DV[r][d] \in {Far, INF}

(* With distinct ports, a router that has a deadline to watch holds a      *)
(* record of every router: the packet that set the deadline was also used. *)
(* So neither update_dv nor post_crash meets a NULL record of a router.    *)
DistinctPorts == \A r, s \in Router : Port[r] = Port[s] => r = s
WatcherKnowsRouters ==
  DistinctPorts =>
    \A r \in Router : /\ \A d \in Router : all_nodes[r][d] # "null"
                      /\ next_expected_time[r] # {} =>
                           \A d \in Router : Known(all_nodes[r][d])

(* A router never sets a deadline for itself nor marks itself as crashed,  *)
(* even when source_id is garbage.                                         *)
NeverSuspectsItself ==
  \A r \in Router : r \notin next_expected_time[r] /\ operating[r][r]

(* While no UPDATE rebuilds the tables, a router that declared a neighbor  *)
(* crashed has no route to it nor through it: a delayed, duplicated or     *)
(* misattributed datagram does not bring one back.                         *)
NoRouteThroughCrashed ==
  updates = 0 =>
    \A r \in Router : status[r] = "up" =>
      \A x \in Peers(r) : ~operating[r][x] =>
        /\ DV[r][x] = INF
        /\ \A d \in Router : next_hops[r][d] # x

(* A running router never takes back that it declared a neighbor crashed:  *)
(* update_dv renews only the records whose ip is 0.                        *)
CrashMarkIsPermanent ==
  [][\A r \in Router : \A x \in Peers(r) :
       (status[r] = "up" /\ status'[r] = "up" /\ ~operating[r][x])
         => ~operating'[r][x]]_vars

(* A neighbor that has been heard and then ends is declared crashed, by    *)
(* every router that outlives the detection.                               *)
HeardCrashIsDetected ==
  \A r \in Router : \A x \in Peers(r) :
    (x \in next_expected_time[r] /\ status[x] = "down")
      ~> (~operating[r][x] \/ status[r] = "down")
=============================================================================
