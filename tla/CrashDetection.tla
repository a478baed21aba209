--------------------------- MODULE CrashDetection ---------------------------
(***************************************************************************)
(* A perfect failure detector: a router that has fallen silent is          *)
(* suspected in the end, no other one ever is, and a suspicion stays.      *)
(* FailureDetector implements this for one watcher.                        *)
(***************************************************************************)
VARIABLES silent, suspected

Init == ~silent /\ ~suspected

FallSilent == silent' = TRUE /\ UNCHANGED suspected
Suspect == silent /\ suspected' = TRUE /\ UNCHANGED silent

Spec == Init /\ [][FallSilent \/ Suspect]_<<silent, suspected>>
             /\ WF_<<silent, suspected>>(Suspect)
=============================================================================
