--------------------------- MODULE DistanceVector ---------------------------
(***************************************************************************)
(* The routing arithmetic of one router: what initialize_dv, update_dv and *)
(* post_crash of network_utils.cpp compute from the DV and next_hops maps. *)
(* These are pure operators; RoutingNetwork runs them concurrently.        *)
(*                                                                         *)
(* A std::map<uint16_t, uint16_t> is a total function whose missing keys   *)
(* read as 0, which is what the code's operator[] returns for them.        *)
(***************************************************************************)
EXTENDS Naturals

CONSTANTS
  N,     \* router_number: the routers are numbered 1..N
  INF,   \* the largest uint16_t: a crashed or absent route (65535 in the code)
  Far    \* the cost initialize_dv gives to a router not heard of (10000)

ASSUME SizeAssumption ==
  /\ N \in Nat \ {0}
  /\ INF \in Nat /\ Far \in Nat
  /\ N < INF /\ 0 < Far /\ Far < INF

Router == 1..N
Foreign == 0               \* any id no router has: the value of an unset id
Id == Router \cup {Foreign}
Cost == 0..INF
Hop == Id \cup {INF}       \* INF as a hop: there is no route

(* Mutant: the sum is kept as an int. *)
WrapNot(x) == x
Wrap(x) == x % (INF + 1)   \* assignment of an int to a uint16_t

Vector == [Router -> Cost]
HopVector == [Router -> Hop]

-----------------------------------------------------------------------------
(* initialize_dv: only the router itself is reachable. *)
BlankDV(r) == [d \in Router |-> IF d = r THEN 0 ELSE Far]
BlankHops(r) == [d \in Router |-> IF d = r THEN r ELSE INF]

(* The loop over `neighbors` that follows initialize_dv in initialize,     *)
(* update and crash: every entry of the map becomes a direct route.        *)
DirectDV(r, nbrs, cost) ==
  [d \in Router |-> IF d \in nbrs THEN cost[d] ELSE BlankDV(r)[d]]
(* Mutant: the links get their costs but no hops. *)
DirectHopsUnset(r, nbrs) == BlankHops(r)
DirectHops(r, nbrs) ==
  [d \in Router |-> IF d \in nbrs THEN d ELSE BlankHops(r)[d]]

-----------------------------------------------------------------------------
(* extract_routing_packet: the sender is the id of the last entry whose    *)
(* cost is 0. With no such entry source_id is left uninitialized: it holds *)
(* the id of an earlier packet, or what was on the stack before the first. *)
SourceIds(recv) ==
  LET zero == {d \in Router : recv[d] = 0}
  IN  IF zero = {} THEN Id ELSE {s \in zero : \A d \in zero : d <= s}

(***************************************************************************)
(* update_dv, for a vector recv attributed to the router source. `up` is   *)
(* all_nodes[d]->operating. Each pass of its loop reads and writes its own *)
(* destination only, and the cost to the source is read before the loop,   *)
(* so the loop is a pointwise function.                                    *)
(***************************************************************************)
CostTo(dv, source) == IF source \in Router THEN dv[source] ELSE 0

(* Mutant: the cost of the link to the source is left out. *)
OfferWithoutLink(d, dv, source, recv) == recv[d]
Offer(d, dv, source, recv) == CostTo(dv, source) + recv[d]

(* Mutant: an unknown route is taken for a crashed one. *)
PoisonedByFar(d, up, local, source, recv) ==
  ~up[d] \/ (recv[d] >= Far /\ source # local)

Poisoned(d, up, local, source, recv) ==
  \/ ~up[d]
  \/ recv[d] = INF /\ source # local

(* Mutant: only the present next hop is listened to. *)
AdoptsFromHop(d, dv, hops, source, recv) ==
  recv[d] # INF /\ d # source /\ hops[d] = source

Adopts(d, dv, hops, source, recv) ==
  /\ recv[d] # INF
  /\ d # source
  /\ Offer(d, dv, source, recv) # 0
  /\ hops[d] = source \/ Offer(d, dv, source, recv) < dv[d]

UpdateDV(dv, hops, up, local, source, recv) ==
  [d \in Router |->
     IF Poisoned(d, up, local, source, recv) THEN INF
     ELSE IF Adopts(d, dv, hops, source, recv) THEN Wrap(Offer(d, dv, source, recv))
     ELSE dv[d]]

(* Mutant: the destination is stored as the next hop. *)
UpdateHopsDirect(dv, hops, up, local, source, recv) ==
  [d \in Router |->
     IF Poisoned(d, up, local, source, recv) THEN INF
     ELSE IF Adopts(d, dv, hops, source, recv) THEN d
     ELSE hops[d]]

(* Mutant: any offer replaces the hop, only a cheaper one the cost. *)
UpdateHopsAlways(dv, hops, up, local, source, recv) ==
  [d \in Router |->
     IF Poisoned(d, up, local, source, recv) THEN INF
     ELSE IF recv[d] # INF /\ d # source THEN source
     ELSE hops[d]]

UpdateHops(dv, hops, up, local, source, recv) ==
  [d \in Router |->
     IF Poisoned(d, up, local, source, recv) THEN INF
     ELSE IF Adopts(d, dv, hops, source, recv) THEN source
     ELSE hops[d]]

(* Some stored sum reaches the sentinel or no longer fits 16 bits. *)
Overflows(dv, hops, up, local, source, recv) ==
  \E d \in Router : /\ ~Poisoned(d, up, local, source, recv)
                    /\ Adopts(d, dv, hops, source, recv)
                    /\ Offer(d, dv, source, recv) >= INF

-----------------------------------------------------------------------------
(* post_crash, before the update_dv it ends with: the crashed router x and *)
(* every destination reached through it lose their route.                  *)
(* Mutants: routes through x are kept; their cost is kept. *)
LostDirectly(x, hops, d) == d = x
CrashDVDirect(dv, hops, x) == [dv EXCEPT ![x] = INF]

LostBy(x, hops, d) == d = x \/ hops[d] = x
CrashDV(dv, hops, x) == [d \in Router |-> IF LostBy(x, hops, d) THEN INF ELSE dv[d]]
CrashHops(hops, x) == [d \in Router |-> IF LostBy(x, hops, d) THEN INF ELSE hops[d]]

-----------------------------------------------------------------------------
(***************************************************************************)
(* all_nodes[d] is absent, a NULL that operator[] put there, a router with *)
(* ip 0 (learnt from a packet whose sender is not its neighbor) or one     *)
(* whose ip is known.                                                      *)
(***************************************************************************)
NodeRecord == {"absent", "null", "noip", "ip"}
Known(node) == node \in {"noip", "ip"}

(* The first loop of update_dv over the ids of the packet: a router that   *)
(* is absent or has ip 0 is created again, with operating = 1.             *)
Renewed(nodes, ids, d) == d \in ids /\ nodes[d] \in {"absent", "noip"}
(* Mutant: the record of a new router is not stored. *)
LearnNothing(nodes, ids, withIp) == nodes
LearnNodes(nodes, ids, withIp) ==
  [d \in Id |-> IF Renewed(nodes, ids, d)
                THEN (IF d \in withIp THEN "ip" ELSE "noip")
                ELSE nodes[d]]
LearnOperating(nodes, up, ids) ==
  [d \in Id |-> up[d] \/ Renewed(nodes, ids, d)]

(* Its second loop reads all_nodes[d] for every key d of DV. *)
ProbeNodes(nodes, keys) ==
  [d \in Id |-> IF d \in keys /\ nodes[d] = "absent" THEN "null" ELSE nodes[d]]

(* all_nodes[d]->ip, for the ids of a packet, dereferences a NULL. *)
Faults(nodes, ids) == \E d \in ids : nodes[d] = "null"
=============================================================================
