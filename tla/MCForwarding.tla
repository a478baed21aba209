---------------------------- MODULE MCForwarding ----------------------------
(* The packet of Forwarding in the topologies of MCRouting. *)
EXTENDS MCRouting, Forwarding
=============================================================================
