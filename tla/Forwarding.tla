----------------------------- MODULE Forwarding -----------------------------
(***************************************************************************)
(* One packet of a file on its way through the routers of RoutingNetwork:  *)
(* what sendfile and route_to_next_hop look up in all_nodes and next_hops  *)
(* when a router handles it, while vectors go on changing the tables. The  *)
(* connections, the accept queues and the ttl are the subject of DataPlane.*)
(***************************************************************************)
EXTENDS StaticRouting

VARIABLES
  stage,        \* of the packet: "unsent", "travelling", "arrived" or "gone"
  at,           \* the router it is at while it travels, otherwise Foreign
  destination

file == <<stage, at, destination>>
all == <<vars, file>>

FileInit == Init /\ stage = "unsent" /\ at = Foreign /\ destination = Foreign

-----------------------------------------------------------------------------
(* A record with the ip of d, by which the code finds the id d. *)
Addressed(r, d) == all_nodes[r][d] = "ip"

(* sendfile skips NULL records; it leaves destination_id uninitialized     *)
(* when no record has the ip.                                              *)
SendTargets(r, d) == IF Addressed(r, d) THEN {d} ELSE Id

(* route_to_next_hop starts from destination_id 0 and dereferences every   *)
(* record before the one it looks for.                                     *)
ForwardTarget(r, d) == IF Addressed(r, d) THEN d ELSE Foreign
LookupFaults(r, d) == Faults(all_nodes[r], {k \in Id : Addressed(r, d) => k < d})

(* next_hops[destination_id]: 0 where there is no such key. *)
HopTo(r, target) == IF target \in Router THEN next_hops[r][target] ELSE Foreign

(* The next hop needs a record (NULL is dereferenced) with a data port,    *)
(* which only INIT supplies, and a process that listens there (otherwise   *)
(* connect() fails). If not, the process of r ends.                        *)
Reaches(r, hop) == hop \in Neighbors(r) /\ status[hop] = "up"

Lost(r) ==
  /\ status' = [status EXCEPT ![r] = "down"]
  /\ stage' = "gone" /\ at' = Foreign

PassTo(r, hop) ==
  IF Reaches(r, hop)
  THEN stage' = "travelling" /\ at' = hop /\ UNCHANGED status
  ELSE Lost(r)

(* SENDFILE. The controller waits until all routers run and the table of r *)
(* shows a route to d.                                                     *)
SendFile(r, d) ==
  /\ stage = "unsent"
  /\ \A s \in Router : status[s] = "up"
  /\ DV[r][d] < Far
  /\ destination' = d
  /\ \E target \in SendTargets(r, d) : PassTo(r, HopTo(r, target))
  /\ UNCHANGED <<table, nodeVars, next_expected_time, net, env, overflow>>

Holds(r) == stage = "travelling" /\ at = r /\ status[r] = "up"

(* self.ip == destination_ip. Mutant: self is never filled in. *)
MineUnset(r) == FALSE
Mine(r) == destination = r

Keep(r) ==
  /\ Holds(r) /\ Mine(r)
  /\ stage' = "arrived" /\ at' = Foreign
  /\ UNCHANGED <<vars, destination>>

Forward(r) ==
  /\ Holds(r) /\ ~Mine(r)
  /\ IF LookupFaults(r, destination) THEN Lost(r)
     ELSE PassTo(r, HopTo(r, ForwardTarget(r, destination)))
  /\ UNCHANGED <<table, nodeVars, next_expected_time, net, env, overflow, destination>>

FileNext ==
  \/ Next /\ UNCHANGED file
  \/ \E r, d \in Router : SendFile(r, d)
  \/ \E r \in Router : Keep(r) \/ Forward(r)

(* A router serves its data socket once a packet waits there. *)
FileSpec == FileInit /\ [][FileNext]_all /\ WF_all(\E r \in Router : Keep(r) \/ Forward(r))

-----------------------------------------------------------------------------
(* The program is "capable of sending files through TCP packets"           *)
(* (README.md:4): once the routing table shows a route to the destination, *)
(* no router that the packet comes to fails to pass it on, although the    *)
(* tables still change under way.                                          *)
FileIsNotLost == stage # "gone"

(* The packet arrives: tables that are still changing, each right for its  *)
(* own moment, never send it round for ever.                               *)
FileArrives == (stage = "travelling") ~> (stage = "arrived")
=============================================================================
