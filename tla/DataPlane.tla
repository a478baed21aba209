------------------------------ MODULE DataPlane ------------------------------
(***************************************************************************)
(* File transfer. SENDFILE cuts a file into packets; each packet goes to   *)
(* the next hop over a TCP connection of its own, and the next hop, once   *)
(* back in its select() loop, accepts one connection, reads the packet and *)
(* keeps it or passes it on. Every handler runs to its end before the loop *)
(* goes on, so a router that waits in connect() accepts nothing.           *)
(***************************************************************************)
EXTENDS Naturals, Sequences
Ext == INSTANCE SequencesExt

CONSTANTS
  Node,        \* the routers
  Transfer,    \* the SENDFILE commands of the controller
  Src, Dst,    \* Src[t], Dst[t]: sender and receiver of the file of t
  Length,      \* Length[t]: packets of the file of t
  init_TTL,    \* init_TTL[t]: time to live given by the controller
  TTLMod,      \* the ttl is an unsigned integer below TTLMod (256)
  Backlog,     \* connections a data socket holds before they are accepted: the
               \* kernel's queue for listen(sock, 5)
  Tables,      \* the next_hops tables the routing protocol may install
  MaxReroutes, \* bound: changes of a router's table
  MaxEarly     \* bound: SENDFILE_STATS asked of a router that has seen no packet

ASSUME TransferAssumption ==
  /\ Src \in [Transfer -> Node] /\ Dst \in [Transfer -> Node]
  /\ Length \in [Transfer -> Nat \ {0}]
  /\ TTLMod \in Nat \ {0, 1} /\ init_TTL \in [Transfer -> 0..(TTLMod - 1)]
ASSUME NetworkAssumption ==
  /\ Tables # {} /\ Tables \subseteq [Node -> [Node -> Node]]
  /\ Backlog \in Nat \ {0} /\ MaxReroutes \in Nat /\ MaxEarly \in Nat

VARIABLES
  proc,              \* "idle" in select(), "sending" in sendfile, "forwarding" in
                     \* route_to_next_hop, or "down": the process has ended
  outgoing,          \* packets the running handler has still to connect for
  queue,             \* connections waiting at the data socket, with their packet
  ttl_seq_mapping,   \* the map from a ttl to the packets seen with it, in order
  received_data,     \* payloads received, never cleared
  files,             \* files[t]: what write_datas_to_file wrote, <<>> if nothing
  next_hops,
  started,           \* transfers commanded
  reroutes, early    \* for the bounds

vars == <<proc, outgoing, queue, ttl_seq_mapping, received_data, files,
          next_hops, started, reroutes, early>>

Payload == [t : Transfer, seq : Nat]
TTL == 0..(TTLMod - 1)
Packet == [t : Transfer, seq : Nat, ttl : TTL]
data(p) == [t |-> p.t, seq |-> p.seq]
content(t) == [i \in 1..Length[t] |-> [t |-> t, seq |-> i]]

DataTypeOK ==
  /\ proc \in [Node -> {"idle", "sending", "forwarding", "down"}]
  /\ outgoing \in [Node -> Seq(Packet)] /\ queue \in [Node -> Seq(Packet)]
  /\ DOMAIN ttl_seq_mapping = Node
  /\ \A r \in Node : /\ DOMAIN ttl_seq_mapping[r] \subseteq TTL
                     /\ \A k \in DOMAIN ttl_seq_mapping[r] : ttl_seq_mapping[r][k] \in Seq(Payload)
  /\ received_data \in [Node -> Seq(Payload)] /\ files \in [Transfer -> Seq(Payload)]
  /\ next_hops \in [Node -> [Node -> Node]]
  /\ started \subseteq Transfer /\ reroutes \in 0..MaxReroutes /\ early \in 0..MaxEarly
  /\ \A r \in Node : proc[r] = "idle" => outgoing[r] = <<>>

Init ==
  /\ proc = [r \in Node |-> "idle"]
  /\ outgoing = [r \in Node |-> <<>>] /\ queue = [r \in Node |-> <<>>]
  /\ ttl_seq_mapping = [r \in Node |-> <<>>]
  /\ received_data = [r \in Node |-> <<>>] /\ files = [t \in Transfer |-> <<>>]
  /\ next_hops \in Tables
  /\ started = {} /\ reroutes = 0 /\ early = 0

-----------------------------------------------------------------------------
(* The process ends and its connections are reset. *)
End(r) ==
  /\ proc' = [proc EXCEPT ![r] = "down"]
  /\ queue' = [queue EXCEPT ![r] = <<>>]
  /\ UNCHANGED <<outgoing, ttl_seq_mapping, received_data, files, next_hops, started, reroutes, early>>

(* SENDFILE *)
SendFile(t) ==
  LET r == Src[t]
  IN  /\ proc[r] = "idle" /\ t \notin started
      /\ started' = started \cup {t}
      /\ proc' = [proc EXCEPT ![r] = "sending"]
      /\ outgoing' = [outgoing EXCEPT ![r] =
                        [i \in 1..Length[t] |-> [t |-> t, seq |-> i, ttl |-> init_TTL[t]]]]
      /\ UNCHANGED <<queue, ttl_seq_mapping, received_data, files, next_hops, reroutes, early>>

Busy(r) == proc[r] \in {"sending", "forwarding"}
Hop(r) == next_hops[r][Dst[Head(outgoing[r]).t]]

(* ttl_seq_mapping[k].push_back(seq): a missing key is created.            *)
Seqs(m, k) == IF k \in DOMAIN m THEN m[k] ELSE <<>>
(* Mutant: the newest packet comes first. *)
PushedFirst(m, k, d) ==
  [j \in DOMAIN m \cup {k} |-> IF j = k THEN <<d>> \o Seqs(m, k) ELSE m[j]]
Pushed(m, k, d) ==
  [j \in DOMAIN m \cup {k} |-> IF j = k THEN Append(Seqs(m, k), d) ELSE m[j]]
(* Mutant: the packet is noted with the ttl it arrived with. *)
NoteArrival(r, p, k) ==
  ttl_seq_mapping' = [ttl_seq_mapping EXCEPT ![r] = Pushed(@, p.ttl, data(p))]
Note(r, p, k) ==
  ttl_seq_mapping' = [ttl_seq_mapping EXCEPT ![r] = Pushed(@, k, data(p))]

(* tcp_send_pkt_to_neighbor: connect, write, close. A sender notes the     *)
(* packet right before it connects, a router that forwards when it reads.  *)
Transmit(r) ==
  LET p == Head(outgoing[r])
  IN  /\ Busy(r)
      /\ proc[Hop(r)] # "down" /\ Len(queue[Hop(r)]) < Backlog
      /\ queue' = [queue EXCEPT ![Hop(r)] = Append(@, p)]
      /\ outgoing' = [outgoing EXCEPT ![r] = Tail(@)]
      /\ proc' = [proc EXCEPT ![r] = IF Len(outgoing[r]) = 1 THEN "idle" ELSE @]
      /\ IF proc[r] = "sending" THEN Note(r, p, p.ttl) ELSE UNCHANGED ttl_seq_mapping
      /\ UNCHANGED <<received_data, files, next_hops, started, reroutes, early>>

(* connect() is refused by a process that has ended, and gives up where    *)
(* routers wait for each other in connect(): ERROR ends the process.       *)
Waiting(r) == Busy(r) /\ Len(queue[Hop(r)]) >= Backlog
Stuck(r) == \E S \in SUBSET Node : r \in S /\ \A s \in S : Waiting(s) /\ Hop(s) \in S
ConnectFails(r) ==
  /\ Busy(r)
  /\ proc[Hop(r)] = "down" \/ Stuck(r)
  /\ End(r)

-----------------------------------------------------------------------------
(* The data socket is ready: one connection is accepted and its packet     *)
(* read; post_ttl is the new time to live.                                 *)
(* Mutant: the ttl is a signed integer. *)
post_ttl_signed(p) == p.ttl - 1
post_ttl(p) == (p.ttl + TTLMod - 1) % TTLMod
Accepts(r) == proc[r] = "idle" /\ queue[r] # <<>>

(* "pkts dropped": main_loop returns, so run and main do. *)
Drop(r) ==
  /\ Accepts(r) /\ post_ttl(Head(queue[r])) = 0
  /\ End(r)

(* LAST_FIN. Mutants: set on the packet before the last; never set. *)
LastButOne(p) == p.seq + 1 = Length[p.t]
NeverLast(p) == FALSE
LastFin(p) == p.seq = Length[p.t]

(* Mutant: the connection is not taken off the queue. *)
KeepAgain(r) ==
  LET p == Head(queue[r])
  IN  /\ Accepts(r) /\ post_ttl(p) # 0 /\ Dst[p.t] = r
      /\ Note(r, p, post_ttl(p))
      /\ received_data' = [received_data EXCEPT ![r] = Append(@, data(p))]
      /\ files' = (IF LastFin(p) THEN [files EXCEPT ![p.t] = received_data'[r]] ELSE files)
      /\ UNCHANGED <<proc, outgoing, queue, next_hops, started, reroutes, early>>

(* The packet is for r; the last packet of a file writes the file.         *)
Keep(r) ==
  LET p == Head(queue[r])
  IN  /\ Accepts(r) /\ post_ttl(p) # 0 /\ Dst[p.t] = r
      /\ queue' = [queue EXCEPT ![r] = Tail(@)]
      /\ Note(r, p, post_ttl(p))
      /\ received_data' = [received_data EXCEPT ![r] = Append(@, data(p))]
      /\ files' = (IF LastFin(p) THEN [files EXCEPT ![p.t] = received_data'[r]] ELSE files)
      /\ UNCHANGED <<proc, outgoing, next_hops, started, reroutes, early>>

Forward(r) ==
  LET p == Head(queue[r])
  IN  /\ Accepts(r) /\ post_ttl(p) # 0 /\ Dst[p.t] # r
      /\ queue' = [queue EXCEPT ![r] = Tail(@)]
      /\ Note(r, p, post_ttl(p))
      /\ proc' = [proc EXCEPT ![r] = "forwarding"]
      /\ outgoing' = [outgoing EXCEPT ![r] = <<[p EXCEPT !.ttl = post_ttl(p)]>>]
      /\ UNCHANGED <<received_data, files, next_hops, started, reroutes, early>>

(* Between two handlers the routing protocol replaces the table of r.      *)
Reroute(r) ==
  /\ proc[r] = "idle" /\ reroutes < MaxReroutes
  /\ reroutes' = reroutes + 1
  /\ \E table \in Tables : next_hops' = [next_hops EXCEPT ![r] = table[r]]
  /\ UNCHANGED <<proc, outgoing, queue, ttl_seq_mapping, received_data, files, started, early>>

(* SENDFILE_STATS: the largest ttl of the map, with the packets seen with  *)
(* it; the transfer asked for is not looked at.                            *)
Answer(r) == LET k == CHOOSE k \in DOMAIN ttl_seq_mapping[r] :
                        \A j \in DOMAIN ttl_seq_mapping[r] : j <= k
             IN  [ttl |-> k, seqs |-> ttl_seq_mapping[r][k]]

(* Asked before any packet, the uninitialized ttl of the answer becomes a  *)
(* key of the map. Where there is a packet an answer changes nothing.      *)
StatsEarly(r) ==
  /\ proc[r] = "idle" /\ ttl_seq_mapping[r] = <<>> /\ early < MaxEarly
  /\ early' = early + 1
  /\ \E k \in TTL : ttl_seq_mapping' = [ttl_seq_mapping EXCEPT ![r] = [j \in {k} |-> <<>>]]
  /\ UNCHANGED <<proc, outgoing, queue, received_data, files, next_hops, started, reroutes>>

Next ==
  \/ \E t \in Transfer : SendFile(t)
  \/ \E r \in Node : \/ Transmit(r) \/ ConnectFails(r)
                     \/ Drop(r) \/ Keep(r) \/ Forward(r)
                     \/ Reroute(r) \/ StatsEarly(r)

Spec == Init /\ [][Next]_vars

(* A ready descriptor is served; connect() succeeds once there is room and *)
(* gives up in the end where there will be none.                           *)
Fairness ==
  \A r \in Node : /\ WF_vars(Transmit(r)) /\ WF_vars(ConnectFails(r))
                  /\ WF_vars(Drop(r) \/ Keep(r) \/ Forward(r))
FairSpec == Spec /\ Fairness

-----------------------------------------------------------------------------
(* The packets that r noted under ttl k. *)
Noted(r, k) == Ext!Range(Seqs(ttl_seq_mapping[r], k))

(* Whatever tables are installed while packets travel, loops included: the *)
(* packets noted under a ttl trace a path. No two routers note a packet    *)
(* with one ttl, and who notes the next smaller ttl is a next hop. This is *)
(* what SENDFILE_STATS, which reports a ttl and its packets, relies on.    *)
TraceIsPath ==
  \A r, s \in Node, k \in TTL :
    /\ r # s => Noted(r, k) \cap Noted(s, k) = {}
    /\ k > 1 => \A d \in Noted(r, k) \cap Noted(s, k - 1) :
                 \E table \in Tables : s = table[r][Dst[d.t]]

(* As long as no route changes, SENDFILE_STATS shows a file travelling in  *)
(* order wherever it passes: of any transfer, an answer of any router      *)
(* lists the first packets, each once and after the one before; and once   *)
(* the file is written its receiver lists them all, unless it was asked    *)
(* too early or tells of another transfer.                                 *)
InOrder(s) ==
  /\ \A i, j \in DOMAIN s : s[i] = s[j] => i = j
  /\ \A j \in DOMAIN s :
       /\ s[j].seq \in 1..Length[s[j].t]
       /\ s[j].seq > 1 => \E i \in 1..(j - 1) : s[i] = [s[j] EXCEPT !.seq = @ - 1]
Lists(s, t) == \A n \in 1..Length[t] : \E i \in DOMAIN s : s[i] = content(t)[n]
StatsShowTransfer ==
  reroutes = 0 =>
    \A r \in Node : ttl_seq_mapping[r] # <<>> =>
      LET seqs == Answer(r).seqs
      IN  /\ InOrder(seqs)
          /\ \A t \in Transfer : r = Dst[t] /\ files[t] # <<>> /\ early = 0 =>
               Lists(seqs, t) \/ \E i \in DOMAIN seqs : seqs[i].t # t

(* Seen from the ends, routers that forward, block, loop and drop are the  *)
(* network of Delivery: nothing arrives twice although senders do not      *)
(* remember what they sent and nothing is acknowledged, and no file is     *)
(* written a second time.                                                  *)
Network == INSTANCE Delivery
DeliversOnce == Network!Spec

(* The application is "capable of sending files through TCP packets"       *)
(* (README.md:4): unless routes change under way, or a router receives a   *)
(* second file (received_data is never cleared), the file written at the   *)
(* destination is the file sent, its packets in order.                     *)
FileIsWhatWasSent ==
  reroutes = 0 =>
    \A t \in Transfer : (\A u \in started \ {t} : Dst[u] # Dst[t]) =>
      files[t] \in {<<>>, content(t)}

(* A transfer ends, with its file or with a router: the ttl takes care of  *)
(* loops, and connect() does not wait for ever.                            *)
TransferEnds ==
  \A t \in Transfer : (t \in started) ~> (files[t] # <<>> \/ \E r \in Node : proc[r] = "down")
=============================================================================
