------------------------------ MODULE Delivery ------------------------------
(***************************************************************************)
(* What the network of routers promises of file transfer when routes may   *)
(* change at any moment: any packet of a file that has been commanded may  *)
(* arrive, in any order, or never; but none arrives twice or elsewhere,    *)
(* and a file is written once, by its last packet, and is what the         *)
(* receiver holds then.                                                    *)
(***************************************************************************)
EXTENDS Naturals, Sequences

CONSTANTS Node, Transfer, Dst, Length   \* as in DataPlane

VARIABLES started, received_data, files

content(t) == [i \in 1..Length[t] |-> [t |-> t, seq |-> i]]
Holds(r, data) == \E i \in DOMAIN received_data[r] : received_data[r][i] = data

Init ==
  /\ started = {}
  /\ received_data = [r \in Node |-> <<>>]
  /\ files = [t \in Transfer |-> <<>>]

Command(t) ==
  /\ t \notin started
  /\ started' = started \cup {t}
  /\ UNCHANGED <<received_data, files>>

Arrive(t, i) ==
  LET r == Dst[t]
      data == content(t)[i]
  IN  /\ t \in started /\ ~Holds(r, data)
      /\ received_data' = [received_data EXCEPT ![r] = Append(@, data)]
      /\ files' = IF i = Length[t] THEN [files EXCEPT ![t] = received_data'[r]] ELSE files
      /\ UNCHANGED started

Next == \E t \in Transfer : Command(t) \/ \E i \in 1..Length[t] : Arrive(t, i)
Spec == Init /\ [][Next]_<<started, received_data, files>>
=============================================================================
