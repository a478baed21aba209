----------------------------- MODULE UpdateLoop -----------------------------
(***************************************************************************)
(* update_dv as its loop runs: one destination after the other, in the     *)
(* order of the keys of DV, over the two maps it is writing.               *)
(***************************************************************************)
EXTENDS RoutingNetwork

(* One pass. A branch that ends in `continue` without a write keeps both.  *)
Pass(tables, d, up, local, source, cost_to_source, recv) ==
  LET sum == cost_to_source + recv[d]
      Set(cost, hop) == [dv   |-> [tables.dv EXCEPT ![d] = cost],
                         hops |-> [tables.hops EXCEPT ![d] = hop]]
  IN  IF ~up[d] THEN Set(INF, INF)
      ELSE IF recv[d] = INF /\ source # local
           THEN IF tables.dv[d] = INF /\ tables.hops[d] = INF THEN tables ELSE Set(INF, INF)
      ELSE IF tables.dv[d] <= sum /\ tables.hops[d] # source THEN tables
      ELSE IF sum = 0 \/ d = source \/ recv[d] = INF THEN tables
      ELSE Set(Wrap(sum), source)

(* Mutant: DV[source_id] is read again in each pass. *)
LoopRereading(dv, hops, up, local, source, recv) ==
  LET after[d \in 0..N] ==
        IF d = 0 THEN [dv |-> dv, hops |-> hops]
        ELSE Pass(after[d - 1], d, up, local, source, CostTo(after[d - 1].dv, source), recv)
  IN  after[N]

Loop(dv, hops, up, local, source, recv) ==
  LET after[d \in 0..N] ==
        IF d = 0 THEN [dv |-> dv, hops |-> hops]
        ELSE Pass(after[d - 1], d, up, local, source, CostTo(dv, source), recv)
  IN  after[N]

(* The two maps are written entry by entry while they are read, and each   *)
(* test of the loop leaves it early. For any vector that may arrive at a   *)
(* router, whatever its tables are by then, the loop yields the tables in  *)
(* which every destination is decided on by the old ones.                  *)
LoopDecidesOnOldTables ==
  \A m \in net :
    LET r == m.to
        up == LearnOperating(all_nodes[r], operating[r], Router)
    IN  \A source \in SourceIds(m.dv) :
          Loop(DV[r], next_hops[r], up, r, source, m.dv) =
            [dv   |-> UpdateDV(DV[r], next_hops[r], up, r, source, m.dv),
             hops |-> UpdateHops(DV[r], next_hops[r], up, r, source, m.dv)]
=============================================================================
