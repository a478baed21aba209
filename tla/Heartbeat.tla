------------------------------ MODULE Heartbeat ------------------------------
(***************************************************************************)
(* What a router promises its neighbors: while it is not silent, it        *)
(* broadcasts at intervals of at most MaxInterval; it may fall silent at   *)
(* any time, and then stays so. BroadcastTimer implements this.            *)
(***************************************************************************)
EXTENDS Naturals

CONSTANT MaxInterval

VARIABLES
  silence,   \* time since the last broadcast, as far as it matters
  silent     \* there will be no other

Init == silence = 0 /\ silent = FALSE

Beat == ~silent /\ silence' = 0 /\ UNCHANGED silent

Pass ==
  /\ \/ silence <= MaxInterval /\ silence' = silence + 1
     \/ UNCHANGED silence
  /\ silent => silent'
  /\ silence' > MaxInterval => silent'

Spec == Init /\ [][Beat \/ Pass]_<<silence, silent>>
=============================================================================
