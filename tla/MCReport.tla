------------------------------ MODULE MCReport ------------------------------
(* ROUTING_TABLE in the topologies of MCRouting. *)
EXTENDS MCRouting, RoutingReport
=============================================================================
