--------------------------- MODULE DataPlaneProofs ---------------------------
(***************************************************************************)
(* Proofs about DataPlane, for every network, every set of transfers, any  *)
(* tables and any changes of them.                                         *)
(***************************************************************************)
EXTENDS DataPlane, TLAPS

-----------------------------------------------------------------------------
(* Sequences: what Head, Tail and Append leave.                            *)

LEMMA TailFacts ==
  ASSUME NEW S, NEW s \in Seq(S), s # <<>>
  PROVE  /\ Head(s) \in S /\ Tail(s) \in Seq(S)
         /\ Len(s) \in Nat \ {0} /\ Head(s) = s[1]
         /\ Len(Tail(s)) = Len(s) - 1
         /\ \A i \in 1..Len(Tail(s)) : Tail(s)[i] = s[i + 1]
OBVIOUS

LEMMA AppendFacts ==
  ASSUME NEW S, NEW s \in Seq(S), NEW e \in S
  PROVE  /\ Append(s, e) \in Seq(S)
         /\ Len(Append(s, e)) = Len(s) + 1
         /\ \A i \in 1..Len(s) : Append(s, e)[i] = s[i]
         /\ Append(s, e)[Len(s) + 1] = e
OBVIOUS

LEMMA EmptySeq == ASSUME NEW S, NEW s \in Seq(S) PROVE Len(s) = 0 <=> s = <<>>
OBVIOUS

LEMMA FunctionIsSeq ==
  ASSUME NEW S, NEW n \in Nat, NEW f \in [1..n -> S]
  PROVE  f \in Seq(S) /\ Len(f) = n
OBVIOUS

-----------------------------------------------------------------------------
(* Type correctness.                                                       *)

(* A handler that sends has packets left. *)
BusyHasPackets ==
  \A r \in Node : /\ Busy(r) => outgoing[r] # <<>>
                  /\ proc[r] = "forwarding" => Len(outgoing[r]) = 1

DataInv == DataTypeOK /\ BusyHasPackets

(* What SENDFILE has to send. *)
LEMMA FilePackets ==
  ASSUME NEW t \in Transfer,
         NEW f, f = [i \in 1..Length[t] |-> [t |-> t, seq |-> i, ttl |-> init_TTL[t]]]
  PROVE  /\ Src[t] \in Node /\ Dst[t] \in Node /\ Length[t] \in Nat \ {0}
         /\ f \in Seq(Packet) /\ Len(f) = Length[t]
<1>1. Src[t] \in Node /\ Dst[t] \in Node /\ Length[t] \in Nat \ {0} /\ init_TTL[t] \in TTL
  BY TransferAssumption DEF TTL
<1>2. f \in [1..Length[t] -> Packet]
  BY <1>1 DEF Packet
<1> QED BY <1>1, <1>2, FunctionIsSeq

LEMMA PostTtl == ASSUME NEW p \in Packet PROVE post_ttl(p) \in TTL
BY TransferAssumption DEF Packet, TTL, post_ttl

(* Noting a packet keeps the type of the map. *)
TraceType(m) == DOMAIN m \subseteq TTL /\ \A k \in DOMAIN m : m[k] \in Seq(Payload)
LEMMA PushedType ==
  ASSUME NEW m, TraceType(m), NEW k \in TTL, NEW d \in Payload
  PROVE  TraceType(Pushed(m, k, d))
<1>1. Seqs(m, k) \in Seq(Payload)
  BY DEF Seqs, TraceType
<1>2. Append(Seqs(m, k), d) \in Seq(Payload)
  BY <1>1, AppendFacts
<1> QED BY <1>2 DEF TraceType, Pushed

LEMMA DataInit == Init => DataInv
BY NetworkAssumption, TransferAssumption
   DEF Init, DataInv, DataTypeOK, BusyHasPackets, Busy

(* What the handlers know of the packet at the head of a queue. *)
LEMMA HeadPacket ==
  ASSUME NEW s \in Seq(Packet), s # <<>>
  PROVE  /\ Head(s) \in Packet /\ Head(s).t \in Transfer /\ Dst[Head(s).t] \in Node
         /\ data(Head(s)) \in Payload /\ Tail(s) \in Seq(Packet)
         /\ post_ttl(Head(s)) \in TTL
<1>1. Head(s) \in Packet /\ Tail(s) \in Seq(Packet)
  BY TailFacts
<1> QED BY <1>1, PostTtl, TransferAssumption DEF Packet, Payload, data

(* The two halves of what a handler does to the trace and to a queue. *)
LEMMA NoteType ==
  ASSUME DataTypeOK, NEW r \in Node, NEW p, NEW k \in TTL, data(p) \in Payload, Note(r, p, k)
  PROVE  \A q \in Node : TraceType(ttl_seq_mapping'[q])
<1>1. \A q \in Node : TraceType(ttl_seq_mapping[q])
  BY DEF DataTypeOK, TraceType
<1>2. \A q \in Node : ttl_seq_mapping'[q] = ttl_seq_mapping[q] \/
                     ttl_seq_mapping'[q] = Pushed(ttl_seq_mapping[q], k, data(p))
  BY DEF Note, DataTypeOK
<1> QED BY <1>1, <1>2, PushedType

LEMMA DataNext == DataInv /\ [Next]_vars => DataInv'
<1> SUFFICES ASSUME DataInv, [Next]_vars PROVE DataInv'
  OBVIOUS
<1> USE DEF DataInv
<1>1. /\ proc \in [Node -> {"idle", "sending", "forwarding", "down"}]
      /\ outgoing \in [Node -> Seq(Packet)] /\ queue \in [Node -> Seq(Packet)]
      /\ DOMAIN ttl_seq_mapping = Node
      /\ received_data \in [Node -> Seq(Payload)] /\ files \in [Transfer -> Seq(Payload)]
      /\ next_hops \in [Node -> [Node -> Node]]
      /\ started \subseteq Transfer /\ reroutes \in 0..MaxReroutes /\ early \in 0..MaxEarly
      /\ \A r \in Node : proc[r] = "idle" => outgoing[r] = <<>>
  BY DEF DataTypeOK
<1>2. ASSUME NEW t \in Transfer, SendFile(t) PROVE DataInv'
  <2> DEFINE r == Src[t]
             f == [i \in 1..Length[t] |-> [t |-> t, seq |-> i, ttl |-> init_TTL[t]]]
  <2>1. r \in Node /\ Length[t] \in Nat \ {0} /\ f \in Seq(Packet) /\ Len(f) = Length[t]
    BY FilePackets
  <2>2. outgoing' = [outgoing EXCEPT ![r] = f] /\ proc' = [proc EXCEPT ![r] = "sending"]
    BY <1>2 DEF SendFile
  <2> HIDE DEF f, r
  <2>3. f # <<>>
    BY <2>1
  <2>4. /\ outgoing' \in [Node -> Seq(Packet)]
        /\ proc' \in [Node -> {"idle", "sending", "forwarding", "down"}]
        /\ \A q \in Node : proc'[q] = "idle" => outgoing'[q] = <<>>
    BY <1>1, <2>1, <2>2
  <2>5. DataTypeOK'
    BY <1>1, <1>2, <2>4 DEF SendFile, DataTypeOK
  <2>6. BusyHasPackets'
    BY <1>1, <2>1, <2>2, <2>3 DEF BusyHasPackets, Busy
  <2> QED BY <2>5, <2>6
<1>3. ASSUME NEW r \in Node, Transmit(r) PROVE DataInv'
  <2> DEFINE p == Head(outgoing[r])
             h == Hop(r)
  <2>1. outgoing[r] \in Seq(Packet) /\ outgoing[r] # <<>> /\ Busy(r)
    BY <1>1, <1>3 DEF Transmit, BusyHasPackets
  <2>2. p \in Packet /\ Dst[p.t] \in Node /\ data(p) \in Payload
    BY <2>1, HeadPacket
  <2>3. /\ Tail(outgoing[r]) \in Seq(Packet) /\ Len(outgoing[r]) \in Nat \ {0}
        /\ Len(Tail(outgoing[r])) = Len(outgoing[r]) - 1
    BY <2>1, TailFacts
  <2>4. Tail(outgoing[r]) = <<>> <=> Len(outgoing[r]) = 1
    <3>1. Len(Tail(outgoing[r])) = 0 <=> Tail(outgoing[r]) = <<>>
      BY <2>3, EmptySeq
    <3> QED BY <2>3, <3>1
  <2>5. h \in Node
    BY <1>1, <2>2 DEF Hop
  <2>6. /\ queue' = [queue EXCEPT ![h] = Append(@, p)]
        /\ outgoing' = [outgoing EXCEPT ![r] = Tail(@)]
        /\ proc' = [proc EXCEPT ![r] = IF Len(outgoing[r]) = 1 THEN "idle" ELSE @]
        /\ UNCHANGED <<received_data, files, next_hops, started, reroutes, early>>
    BY <1>3 DEF Transmit
  <2> HIDE DEF h
  <2>7. queue' \in [Node -> Seq(Packet)] /\ outgoing' \in [Node -> Seq(Packet)]
    <3>1. Append(queue[h], p) \in Seq(Packet)
      BY <1>1, <2>2, <2>5, AppendFacts
    <3> QED BY <1>1, <2>3, <2>6, <3>1
  <2>8. \A q \in Node : TraceType(ttl_seq_mapping'[q])
    <3>1. CASE proc[r] = "sending"
      BY <1>3, <2>2, <3>1, NoteType DEF Transmit, Packet
    <3>2. CASE proc[r] # "sending"
      BY <1>3, <3>2 DEF Transmit, DataTypeOK, TraceType
    <3> QED BY <3>1, <3>2
  <2>9. DOMAIN ttl_seq_mapping' = Node
    BY <1>1, <1>3 DEF Transmit, Note
  <2>10. \A q \in Node : proc'[q] = "idle" => outgoing'[q] = <<>>
    BY <1>1, <2>1, <2>6, <2>4 DEF Busy
  <2>11. proc' \in [Node -> {"idle", "sending", "forwarding", "down"}]
    BY <1>1, <2>6
  <2>12. DataTypeOK'
    BY <1>1, <2>6, <2>7, <2>8, <2>9, <2>10, <2>11 DEF DataTypeOK, TraceType
  <2>13. BusyHasPackets'
    <3>1. proc[r] = "forwarding" => Len(outgoing[r]) = 1
      BY DEF BusyHasPackets
    <3>2. /\ proc'[r] = "forwarding" => FALSE
          /\ proc'[r] = "sending" => outgoing'[r] # <<>>
      BY <1>1, <2>1, <2>6, <2>4, <3>1 DEF Busy
    <3>3. \A q \in Node \ {r} : proc'[q] = proc[q] /\ outgoing'[q] = outgoing[q]
      BY <1>1, <2>6
    <3> QED BY <3>2, <3>3 DEF BusyHasPackets, Busy
  <2> QED BY <2>12, <2>13
<1>4. ASSUME NEW r \in Node, ConnectFails(r) \/ Drop(r) PROVE DataInv'
  <2>1. End(r)
    BY <1>4 DEF ConnectFails, Drop
  <2>2. /\ queue' \in [Node -> Seq(Packet)]
        /\ proc' \in [Node -> {"idle", "sending", "forwarding", "down"}]
        /\ \A q \in Node : proc'[q] = "idle" => outgoing'[q] = <<>>
    BY <1>1, <2>1 DEF End
  <2>3. DataTypeOK'
    BY <1>1, <2>1, <2>2 DEF End, DataTypeOK
  <2>4. BusyHasPackets'
    BY <1>1, <2>1 DEF End, BusyHasPackets, Busy
  <2> QED BY <2>3, <2>4
<1>5. ASSUME NEW r \in Node, Keep(r) \/ Forward(r) PROVE DataInv'
  <2> DEFINE p == Head(queue[r])
  <2>1. queue[r] \in Seq(Packet) /\ queue[r] # <<>> /\ proc[r] = "idle"
    BY <1>1, <1>5 DEF Keep, Forward, Accepts
  <2>2. /\ p \in Packet /\ p.t \in Transfer /\ data(p) \in Payload
        /\ Tail(queue[r]) \in Seq(Packet) /\ post_ttl(p) \in TTL
    BY <2>1, HeadPacket
  <2>3. queue' = [queue EXCEPT ![r] = Tail(@)] /\ Note(r, p, post_ttl(p))
    BY <1>5 DEF Keep, Forward
  <2>4. \A q \in Node : TraceType(ttl_seq_mapping'[q])
    BY <2>2, <2>3, NoteType
  <2>5. DOMAIN ttl_seq_mapping' = Node
    BY <1>1, <2>3 DEF Note
  <2>6. queue' \in [Node -> Seq(Packet)]
    BY <1>1, <2>2, <2>3
  <2>7. CASE Keep(r)
    <3>1. /\ received_data' = [received_data EXCEPT ![r] = Append(@, data(p))]
          /\ files' = IF LastFin(p) THEN [files EXCEPT ![p.t] = received_data'[r]] ELSE files
          /\ UNCHANGED <<proc, outgoing, next_hops, started, reroutes, early>>
      BY <2>7 DEF Keep
    <3>2. Append(received_data[r], data(p)) \in Seq(Payload)
      BY <1>1, <2>2, AppendFacts
    <3>3. received_data' \in [Node -> Seq(Payload)]
      BY <1>1, <3>1, <3>2
    <3>4. files' \in [Transfer -> Seq(Payload)]
      BY <1>1, <2>2, <3>1, <3>3
    <3>5. DataTypeOK'
      BY <1>1, <2>4, <2>5, <2>6, <3>1, <3>3, <3>4 DEF DataTypeOK, TraceType
    <3> QED BY <3>1, <3>5 DEF BusyHasPackets, Busy
  <2>8. CASE Forward(r)
    <3> DEFINE fwd == <<[p EXCEPT !.ttl = post_ttl(p)]>>
    <3>1. /\ proc' = [proc EXCEPT ![r] = "forwarding"]
          /\ outgoing' = [outgoing EXCEPT ![r] = fwd]
          /\ UNCHANGED <<received_data, files, next_hops, started, reroutes, early>>
      BY <2>8 DEF Forward
    <3>2. fwd \in Seq(Packet) /\ Len(fwd) = 1 /\ fwd # <<>>
      BY <2>2 DEF Packet
    <3> HIDE DEF fwd
    <3>3. DataTypeOK'
      BY <1>1, <2>4, <2>5, <2>6, <3>1, <3>2 DEF DataTypeOK, TraceType
    <3>4. BusyHasPackets'
      BY <1>1, <3>1, <3>2 DEF BusyHasPackets, Busy
    <3> QED BY <3>3, <3>4
  <2> QED BY <1>5, <2>7, <2>8
<1>6. ASSUME NEW r \in Node, Reroute(r) PROVE DataInv'
  BY <1>1, <1>6, NetworkAssumption DEF Reroute, DataTypeOK, BusyHasPackets, Busy
<1>7. ASSUME NEW r \in Node, StatsEarly(r) PROVE DataInv'
  <2>1. PICK k \in TTL : ttl_seq_mapping' = [ttl_seq_mapping EXCEPT ![r] = [j \in {k} |-> <<>>]]
    BY <1>7 DEF StatsEarly
  <2>2. \A q \in Node : TraceType(ttl_seq_mapping'[q])
    BY <1>1, <2>1 DEF DataTypeOK, TraceType
  <2>3. early' \in 0..MaxEarly
    BY <1>1, <1>7, NetworkAssumption DEF StatsEarly
  <2> QED BY <1>1, <1>7, <2>1, <2>2, <2>3 DEF StatsEarly, DataTypeOK, TraceType, BusyHasPackets, Busy
<1>8. CASE UNCHANGED vars
  BY <1>8 DEF vars, DataTypeOK, BusyHasPackets, Busy
<1> QED BY <1>2, <1>3, <1>4, <1>5, <1>6, <1>7, <1>8 DEF Next

(* The variables of the data plane keep their types; the time to live stays*)
(* in its 8 bits.                                                          *)
THEOREM DataTypeCorrect == Spec => []DataTypeOK
<1>1. DataInv => DataTypeOK
  BY DEF DataInv
<1> QED BY <1>1, DataInit, DataNext, PTL DEF Spec

-----------------------------------------------------------------------------
(* The refinement: routers, queues and handlers implement Delivery.        *)

(* The payloads a sequence of packets carries, and that each comes once.   *)
Payloads(s) == {data(s[i]) : i \in 1..Len(s)}
Distinct(s) == \A i, j \in 1..Len(s) : data(s[i]) = data(s[j]) => i = j

LEMMA PayloadsOfTail ==
  ASSUME NEW s \in Seq(Packet), s # <<>>, Distinct(s)
  PROVE  /\ data(Head(s)) \in Payloads(s)
         /\ Payloads(Tail(s)) = Payloads(s) \ {data(Head(s))}
         /\ Distinct(Tail(s))
<1> DEFINE tl == Tail(s)
           n == Len(s)
<1>1. /\ n \in Nat \ {0} /\ Head(s) = s[1] /\ Len(tl) = n - 1
      /\ \A i \in 1..(n - 1) : tl[i] = s[i + 1]
  BY TailFacts
<1> HIDE DEF tl, n
<1>2. \A i \in 1..n : i # 1 => \E j \in 1..(n - 1) : i = j + 1
  <2> SUFFICES ASSUME NEW i \in 1..n, i # 1 PROVE i - 1 \in 1..(n - 1) /\ i = (i - 1) + 1
    OBVIOUS
  <2> QED BY <1>1
<1>3. \A j \in 1..(n - 1) : j + 1 \in 1..n /\ j + 1 # 1
  BY <1>1
<1>4. 1 \in 1..n
  BY <1>1
<1>5. Payloads(tl) = {data(s[j + 1]) : j \in 1..(n - 1)}
  BY <1>1 DEF Payloads
<1>6. Payloads(s) = {data(s[i]) : i \in 1..n}
  BY DEF Payloads, n
<1>7. \A i \in 1..n : data(s[i]) = data(s[1]) => i = 1
  BY <1>4 DEF Distinct, n
<1>8. Payloads(tl) = Payloads(s) \ {data(s[1])}
  BY <1>2, <1>3, <1>5, <1>6, <1>7
<1>9. Distinct(tl)
  <2> SUFFICES ASSUME NEW i \in 1..(n - 1), NEW j \in 1..(n - 1), data(tl[i]) = data(tl[j])
               PROVE  i = j
    BY <1>1 DEF Distinct
  <2>1. i + 1 = j + 1
    BY <1>1, <1>3 DEF Distinct, n
  <2> QED BY <2>1
<1> QED BY <1>1, <1>4, <1>6, <1>8, <1>9 DEF tl

LEMMA PayloadsOfAppend ==
  ASSUME NEW s \in Seq(Packet), NEW p \in Packet, Distinct(s), data(p) \notin Payloads(s)
  PROVE  /\ Payloads(Append(s, p)) = Payloads(s) \cup {data(p)}
         /\ Distinct(Append(s, p))
<1> DEFINE a == Append(s, p)
           n == Len(s)
<1>1. /\ n \in Nat /\ Len(a) = n + 1 /\ a[n + 1] = p
      /\ \A i \in 1..n : a[i] = s[i]
  BY AppendFacts
<1> HIDE DEF a, n
<1>2. \A i : i \in 1..(n + 1) <=> i \in 1..n \/ i = n + 1
  BY <1>1
<1>3. Payloads(a) = {data(a[i]) : i \in 1..(n + 1)} /\ Payloads(s) = {data(s[i]) : i \in 1..n}
  BY <1>1 DEF Payloads, n
<1>4. Payloads(a) = Payloads(s) \cup {data(p)}
  BY <1>1, <1>2, <1>3
<1>5. Distinct(a)
  <2> SUFFICES ASSUME NEW i \in 1..(n + 1), NEW j \in 1..(n + 1), data(a[i]) = data(a[j])
               PROVE  i = j
    BY <1>1 DEF Distinct
  <2>1. CASE i \in 1..n /\ j \in 1..n
    BY <1>1, <2>1 DEF Distinct, n
  <2>2. CASE ~(i \in 1..n /\ j \in 1..n)
    <3>1. \A k \in 1..n : data(a[k]) # data(p)
      BY <1>1, <1>3
    <3> QED BY <1>1, <1>2, <2>2, <3>1
  <2> QED BY <2>1, <2>2
<1> QED BY <1>4, <1>5 DEF a

(* Where a payload may be, and the payloads that are there.                *)
Place == {"outgoing", "queue", "received"} \X Node
Held == [x \in Place |->
          IF x[1] = "outgoing" THEN Payloads(outgoing[x[2]])
          ELSE IF x[1] = "queue" THEN Payloads(queue[x[2]])
          ELSE {received_data[x[2]][i] : i \in 1..Len(received_data[x[2]])}]

(* No payload is in two places or twice in one; it belongs to a file that  *)
(* has been commanded.                                                     *)
Apart ==
  /\ \A r \in Node : Distinct(outgoing[r]) /\ Distinct(queue[r])
  /\ \A x, y \in Place : x # y => Held[x] \cap Held[y] = {}
  /\ \A x \in Place : \A d \in Held[x] : d.t \in started /\ d.seq \in 1..Length[d.t]

LEMMA HeldAt ==
  ASSUME NEW r \in Node
  PROVE  /\ <<"outgoing", r>> \in Place /\ <<"queue", r>> \in Place /\ <<"received", r>> \in Place
         /\ Held[<<"outgoing", r>>] = Payloads(outgoing[r])
         /\ Held[<<"queue", r>>] = Payloads(queue[r])
         /\ Held[<<"received", r>>] = {received_data[r][i] : i \in 1..Len(received_data[r])}
BY DEF Place, Held

(* A payload that moves from one place to another leaves all apart.        *)
LEMMA Moved ==
  ASSUME NEW P, NEW H, NEW G, NEW a \in P, NEW b \in P, a # b, NEW d, d \in H[a],
         \A x, y \in P : x # y => H[x] \cap H[y] = {},
         G[a] = H[a] \ {d}, G[b] = H[b] \cup {d}, \A x \in P \ {a, b} : G[x] = H[x]
  PROVE  /\ \A x, y \in P : x # y => G[x] \cap G[y] = {}
         /\ \A x \in P : \A e \in G[x] : \E y \in P : e \in H[y]
<1>1. \A x \in P : \A e \in G[x] : \E y \in P : e \in H[y]
  BY SMT
<1>2. \A x, y \in P : x # y => G[x] \cap G[y] = {}
  <2> SUFFICES ASSUME NEW x \in P, NEW y \in P, x # y, NEW e \in G[x], e \in G[y] PROVE FALSE
    OBVIOUS
  <2>1. \A z \in P : e \in H[z] /\ e \in H[a] => z = a
    OBVIOUS
  <2>2. \A z \in P : e \in G[z] => e \in H[z] \/ (z = b /\ e = d)
    OBVIOUS
  <2>3. d \notin G[a] /\ \A z \in P \ {a} : d \notin H[z]
    OBVIOUS
  <2>4. CASE e = d
    BY <2>2, <2>3, <2>4
  <2>5. CASE e # d
    BY <2>2, <2>5
  <2> QED BY <2>4, <2>5
<1> QED BY <1>1, <1>2

LEMMA ApartInit == Init => Apart
<1> SUFFICES ASSUME Init PROVE Apart
  OBVIOUS
<1>1. \A r \in Node : /\ outgoing[r] = <<>> /\ queue[r] = <<>> /\ received_data[r] = <<>>
  BY DEF Init
<1>2. Payloads(<<>>) = {} /\ Distinct(<<>>)
  BY DEF Payloads, Distinct
<1>3. \A x \in Place : Held[x] = {}
  BY <1>1, <1>2 DEF Place, Held
<1> QED BY <1>1, <1>2, <1>3 DEF Apart

(* The step of a handler that takes a payload from one place to another.   *)
LEMMA MoveKeepsApart ==
  ASSUME Apart, NEW a \in Place, NEW b \in Place, a # b, NEW d, d \in Held[a],
         Held'[a] = Held[a] \ {d}, Held'[b] = Held[b] \cup {d},
         \A x \in Place \ {a, b} : Held'[x] = Held[x],
         \A r \in Node : Distinct(outgoing'[r]) /\ Distinct(queue'[r]),
         started' = started
  PROVE  Apart'
<1> DEFINE H == Held
           G == Held'
<1>1. \A x, y \in Place : x # y => H[x] \cap H[y] = {}
  BY DEF Apart
<1>2. /\ d \in H[a] /\ G[a] = H[a] \ {d} /\ G[b] = H[b] \cup {d}
      /\ \A x \in Place \ {a, b} : G[x] = H[x]
  OBVIOUS
<1>3. \A x \in Place : \A e \in H[x] : e.t \in started /\ e.seq \in 1..Length[e.t]
  BY DEF Apart
<1> HIDE DEF H, G
<1>4. /\ \A x, y \in Place : x # y => G[x] \cap G[y] = {}
      /\ \A x \in Place : \A e \in G[x] : \E y \in Place : e \in H[y]
  BY <1>1, <1>2, Moved
<1>5. \A x \in Place : \A e \in G[x] : e.t \in started /\ e.seq \in 1..Length[e.t]
  BY <1>3, <1>4
<1> QED BY <1>4, <1>5 DEF Apart, G

LEMMA ApartNext == DataInv /\ Apart /\ [Next]_vars => Apart'
<1> SUFFICES ASSUME DataInv, Apart, [Next]_vars PROVE Apart'
  OBVIOUS
<1>1. /\ outgoing \in [Node -> Seq(Packet)] /\ queue \in [Node -> Seq(Packet)]
      /\ received_data \in [Node -> Seq(Payload)]
      /\ next_hops \in [Node -> [Node -> Node]]
      /\ \A r \in Node : proc[r] = "idle" => outgoing[r] = <<>>
      /\ \A r \in Node : Busy(r) => outgoing[r] # <<>>
  BY DEF DataInv, DataTypeOK, BusyHasPackets
<1>2. /\ \A r \in Node : Distinct(outgoing[r]) /\ Distinct(queue[r])
      /\ \A x, y \in Place : x # y => Held[x] \cap Held[y] = {}
      /\ \A x \in Place : \A d \in Held[x] : d.t \in started /\ d.seq \in 1..Length[d.t]
  BY DEF Apart
<1>3. Payloads(<<>>) = {} /\ Distinct(<<>>)
  BY DEF Payloads, Distinct
<1>4. ASSUME NEW t \in Transfer, SendFile(t) PROVE Apart'
  <2> DEFINE r == Src[t]
             f == [i \in 1..Length[t] |-> [t |-> t, seq |-> i, ttl |-> init_TTL[t]]]
             a == <<"outgoing", r>>
  <2>1. r \in Node /\ Length[t] \in Nat \ {0} /\ f \in Seq(Packet) /\ Len(f) = Length[t]
    BY FilePackets
  <2>2. /\ outgoing' = [outgoing EXCEPT ![r] = f] /\ outgoing[r] = <<>>
        /\ t \notin started /\ started' = started \cup {t}
        /\ queue' = queue /\ received_data' = received_data
    BY <1>1, <1>4, <2>1 DEF SendFile
  <2>3. \A i \in 1..Len(f) : data(f[i]).t = t /\ data(f[i]).seq = i
    BY <2>1 DEF data
  <2> HIDE DEF f, r
  <2>4. \A d \in Payloads(f) : d.t = t /\ d.seq \in 1..Length[t]
    BY <2>1, <2>3 DEF Payloads
  <2>5. Distinct(f)
    BY <2>3 DEF Distinct
  <2>6. /\ a \in Place /\ Held'[a] = Payloads(f)
        /\ \A x \in Place \ {a} : Held'[x] = Held[x]
    BY <1>1, <2>1, <2>2 DEF Place, Held
  <2>7. \A x, y \in Place : x # y => Held'[x] \cap Held'[y] = {}
    BY <1>2, <2>2, <2>4, <2>6
  <2>8. \A x \in Place : \A d \in Held'[x] : d.t \in started' /\ d.seq \in 1..Length[d.t]
    BY <1>2, <2>2, <2>4, <2>6
  <2>9. \A q \in Node : Distinct(outgoing'[q]) /\ Distinct(queue'[q])
    BY <1>1, <1>2, <2>2, <2>5
  <2> QED BY <2>7, <2>8, <2>9 DEF Apart
<1>5. ASSUME NEW r \in Node, Transmit(r) PROVE Apart'
  <2> DEFINE p == Head(outgoing[r])
             h == Hop(r)
             a == <<"outgoing", r>>
             b == <<"queue", h>>
  <2>1. outgoing[r] \in Seq(Packet) /\ outgoing[r] # <<>>
    BY <1>1, <1>5 DEF Transmit
  <2>2. p \in Packet /\ h \in Node
    BY <1>1, <2>1, HeadPacket DEF Hop
  <2>3. /\ queue' = [queue EXCEPT ![h] = Append(@, p)]
        /\ outgoing' = [outgoing EXCEPT ![r] = Tail(@)]
        /\ started' = started /\ received_data' = received_data
    BY <1>5 DEF Transmit
  <2> HIDE DEF h
  <2>4. /\ a \in Place /\ b \in Place /\ a # b
        /\ Held[a] = Payloads(outgoing[r]) /\ Held[b] = Payloads(queue[h])
    BY <2>2, HeldAt
  <2>5. /\ data(p) \in Payloads(outgoing[r]) /\ Distinct(Tail(outgoing[r]))
        /\ Payloads(Tail(outgoing[r])) = Payloads(outgoing[r]) \ {data(p)}
    BY <1>2, <2>1, PayloadsOfTail
  <2>6. data(p) \notin Payloads(queue[h])
    BY <1>2, <2>4, <2>5
  <2>7. /\ Payloads(Append(queue[h], p)) = Payloads(queue[h]) \cup {data(p)}
        /\ Distinct(Append(queue[h], p))
    BY <1>1, <1>2, <2>2, <2>6, PayloadsOfAppend
  <2>8. /\ Held'[a] = Held[a] \ {data(p)} /\ Held'[b] = Held[b] \cup {data(p)}
        /\ \A x \in Place \ {a, b} : Held'[x] = Held[x]
    BY <1>1, <2>2, <2>3, <2>4, <2>5, <2>7 DEF Place, Held
  <2>9. \A q \in Node : Distinct(outgoing'[q]) /\ Distinct(queue'[q])
    BY <1>1, <1>2, <2>2, <2>3, <2>5, <2>7
  <2>10. data(p) \in Held[a]
    BY <2>4, <2>5
  <2> HIDE DEF a, b, p
  <2> QED BY <2>3, <2>4, <2>8, <2>9, <2>10, MoveKeepsApart
<1>6. ASSUME NEW r \in Node, ConnectFails(r) \/ Drop(r) PROVE Apart'
  <2>1. /\ queue' = [queue EXCEPT ![r] = <<>>]
        /\ UNCHANGED <<outgoing, received_data, started>>
    BY <1>6 DEF ConnectFails, Drop, End
  <2>2. \A x \in Place : Held'[x] = Held[x] \/ Held'[x] = {}
    BY <1>1, <1>3, <2>1 DEF Place, Held
  <2>3. \A q \in Node : Distinct(outgoing'[q]) /\ Distinct(queue'[q])
    BY <1>1, <1>2, <1>3, <2>1
  <2>4. /\ \A x, y \in Place : x # y => Held'[x] \cap Held'[y] = {}
        /\ \A x \in Place : \A d \in Held'[x] : d.t \in started' /\ d.seq \in 1..Length[d.t]
    BY <1>2, <2>1, <2>2
  <2> QED BY <2>3, <2>4 DEF Apart
<1>7. ASSUME NEW r \in Node, Keep(r) \/ Forward(r) PROVE Apart'
  <2> DEFINE p == Head(queue[r])
             a == <<"queue", r>>
  <2>1. queue[r] \in Seq(Packet) /\ queue[r] # <<>> /\ outgoing[r] = <<>>
    BY <1>1, <1>7 DEF Keep, Forward, Accepts
  <2>2. p \in Packet /\ data(p) \in Payload /\ post_ttl(p) \in TTL
    BY <2>1, HeadPacket
  <2>3. queue' = [queue EXCEPT ![r] = Tail(@)] /\ started' = started
    BY <1>7 DEF Keep, Forward
  <2>4. /\ data(p) \in Payloads(queue[r]) /\ Distinct(Tail(queue[r]))
        /\ Payloads(Tail(queue[r])) = Payloads(queue[r]) \ {data(p)}
    BY <1>2, <2>1, PayloadsOfTail
  <2>5. a \in Place /\ Held[a] = Payloads(queue[r])
    BY HeldAt
  <2>6. CASE Keep(r)
    <3> DEFINE b == <<"received", r>>
               g == Append(received_data[r], data(p))
    <3>1. received_data' = [received_data EXCEPT ![r] = g] /\ outgoing' = outgoing
      BY <2>6 DEF Keep
    <3>2. /\ Len(g) = Len(received_data[r]) + 1 /\ g[Len(received_data[r]) + 1] = data(p)
          /\ \A i \in 1..Len(received_data[r]) : g[i] = received_data[r][i]
          /\ Len(received_data[r]) \in Nat
      BY <1>1, <2>2, AppendFacts
    <3> HIDE DEF g
    <3>3. {g[i] : i \in 1..Len(g)}
            = {received_data[r][i] : i \in 1..Len(received_data[r])} \cup {data(p)}
      BY <3>2
    <3>4. b \in Place /\ a # b
      BY HeldAt
    <3>5. /\ Held'[a] = Held[a] \ {data(p)} /\ Held'[b] = Held[b] \cup {data(p)}
          /\ \A x \in Place \ {a, b} : Held'[x] = Held[x]
      <4>1. queue'[r] = Tail(queue[r]) /\ received_data'[r] = g
        BY <1>1, <2>3, <3>1
      <4>2. \A q \in Node \ {r} : queue'[q] = queue[q] /\ received_data'[q] = received_data[q]
        BY <1>1, <2>3, <3>1
      <4>3. Held'[a] = Payloads(Tail(queue[r]))
        BY <4>1 DEF Place, Held
      <4>4. Held'[b] = {g[i] : i \in 1..Len(g)}
        BY <4>1 DEF Place, Held
      <4>5. Held[b] = {received_data[r][i] : i \in 1..Len(received_data[r])}
        BY HeldAt
      <4>6. \A x \in Place \ {a, b} : Held'[x] = Held[x]
        <5> SUFFICES ASSUME NEW k \in {"outgoing", "queue", "received"}, NEW q \in Node,
                            <<k, q>> # a, <<k, q>> # b
                     PROVE  Held'[<<k, q>>] = Held[<<k, q>>]
          BY DEF Place
        <5>1. k = "outgoing" \/ q # r
          OBVIOUS
        <5>2. <<k, q>> \in Place /\ <<k, q>>[1] = k /\ <<k, q>>[2] = q
          BY DEF Place
        <5>3. CASE k = "outgoing"
          BY <3>1, <5>2, <5>3 DEF Held
        <5>4. CASE k # "outgoing"
          <6>1. queue'[q] = queue[q] /\ received_data'[q] = received_data[q]
            BY <4>2, <5>1, <5>4
          <6> QED BY <5>2, <5>4, <6>1 DEF Held
        <5> QED BY <5>3, <5>4
      <4> QED BY <2>4, <2>5, <3>3, <4>3, <4>4, <4>5, <4>6
    <3>6. \A q \in Node : Distinct(outgoing'[q]) /\ Distinct(queue'[q])
      BY <1>1, <1>2, <2>3, <2>4, <3>1
    <3> QED BY <2>3, <2>4, <2>5, <3>4, <3>5, <3>6, MoveKeepsApart
  <2>7. CASE Forward(r)
    <3> DEFINE b == <<"outgoing", r>>
               fwd == <<[p EXCEPT !.ttl = post_ttl(p)]>>
    <3>1. outgoing' = [outgoing EXCEPT ![r] = fwd] /\ received_data' = received_data
      BY <2>7 DEF Forward
    <3>2. Len(fwd) = 1 /\ data(fwd[1]) = data(p)
      BY <2>2 DEF Packet, data
    <3> HIDE DEF fwd
    <3>3. Payloads(fwd) = {data(p)} /\ Distinct(fwd)
      BY <3>2 DEF Payloads, Distinct
    <3>4. b \in Place /\ a # b /\ Held[b] = {}
      BY <1>3, <2>1, HeldAt
    <3>5. /\ Held'[a] = Held[a] \ {data(p)} /\ Held'[b] = Held[b] \cup {data(p)}
          /\ \A x \in Place \ {a, b} : Held'[x] = Held[x]
      BY <1>1, <2>3, <2>4, <3>1, <3>3, <3>4 DEF Place, Held
    <3>6. \A q \in Node : Distinct(outgoing'[q]) /\ Distinct(queue'[q])
      BY <1>1, <1>2, <2>3, <2>4, <3>1, <3>3
    <3> QED BY <2>3, <2>4, <2>5, <3>4, <3>5, <3>6, MoveKeepsApart
  <2> QED BY <1>7, <2>6, <2>7
<1>8. ASSUME UNCHANGED <<outgoing, queue, received_data, started>> PROVE Apart'
  <2>1. \A x \in Place : Held'[x] = Held[x]
    BY <1>8 DEF Place, Held
  <2> QED BY <1>2, <1>8, <2>1 DEF Apart
<1>9. ASSUME NEW r \in Node, Reroute(r) \/ StatsEarly(r) PROVE Apart'
  BY <1>8, <1>9 DEF Reroute, StatsEarly
<1>10. CASE UNCHANGED vars
  BY <1>8, <1>10 DEF vars
<1> QED BY <1>4, <1>5, <1>6, <1>7, <1>9, <1>10 DEF Next

(* Commands are commands, the receiver's handler is an arrival, and no     *)
(* other handler is seen from the ends.                                    *)
LEMMA StepRefines ==
  DataInv /\ Apart /\ [Next]_vars
    => [Network!Next]_<<started, received_data, files>>
<1> SUFFICES ASSUME DataInv, Apart, [Next]_vars
             PROVE  Network!Next \/ UNCHANGED <<started, received_data, files>>
  OBVIOUS
<1>1. ASSUME NEW t \in Transfer, SendFile(t) PROVE Network!Next
  BY <1>1 DEF SendFile, Network!Next, Network!Command
<1>2. ASSUME NEW r \in Node, Keep(r) PROVE Network!Next
  <2> DEFINE p == Head(queue[r])
  <2>1. queue[r] \in Seq(Packet) /\ queue[r] # <<>>
    BY <1>2 DEF DataInv, DataTypeOK, Keep, Accepts
  <2>2. p.t \in Transfer /\ data(p) \in Payload /\ data(p) \in Payloads(queue[r])
    BY <2>1, HeadPacket, PayloadsOfTail DEF Apart
  <2>3. data(p).t = p.t /\ data(p).seq = p.seq
    BY DEF data
  <2>4. data(p) \in Held[<<"queue", r>>] /\ <<"queue", r>> \in Place
    BY <2>2, HeldAt
  <2>5. p.t \in started /\ p.seq \in 1..Length[p.t]
    BY <2>3, <2>4 DEF Apart
  <2>6. data(p) \notin {received_data[r][i] : i \in 1..Len(received_data[r])}
    <3>1. <<"queue", r>> # <<"received", r>> /\ <<"received", r>> \in Place
      BY HeldAt
    <3>2. data(p) \notin Held[<<"received", r>>]
      BY <2>4, <3>1 DEF Apart
    <3> QED BY <3>2, HeldAt
  <2>7. DOMAIN received_data[r] = 1..Len(received_data[r])
    BY DEF DataInv, DataTypeOK
  <2>8. ~Network!Holds(r, data(p))
    BY <2>6, <2>7 DEF Network!Holds
  <2>9. Network!content(p.t)[p.seq] = data(p)
    BY <2>5 DEF Network!content, data
  <2>10. /\ Dst[p.t] = r
         /\ received_data' = [received_data EXCEPT ![r] = Append(@, data(p))]
         /\ files' = IF p.seq = Length[p.t] THEN [files EXCEPT ![p.t] = received_data'[r]] ELSE files
         /\ started' = started
    BY <1>2 DEF Keep, LastFin
  <2> HIDE DEF p
  <2>11. Network!Arrive(p.t, p.seq)
    BY <2>5, <2>8, <2>9, <2>10 DEF Network!Arrive
  <2> QED BY <2>2, <2>5, <2>11 DEF Network!Next
<1>3. ASSUME NEW r \in Node,
             Transmit(r) \/ ConnectFails(r) \/ Drop(r) \/ Forward(r) \/ Reroute(r) \/ StatsEarly(r)
      PROVE  UNCHANGED <<started, received_data, files>>
  BY <1>3 DEF Transmit, ConnectFails, Drop, Forward, Reroute, StatsEarly, End
<1>4. CASE UNCHANGED vars
  BY <1>4 DEF vars
<1> QED BY <1>1, <1>2, <1>3, <1>4 DEF Next

(* Routers that queue, block, forward, loop and end implement the network  *)
(* of Delivery: for all routes and changes of routes, no packet arrives    *)
(* twice or at another router, and no file is written a second time.       *)
THEOREM RoutersDeliverOnce == Spec => DeliversOnce
<1>1. Init => Network!Init
  BY DEF Init, Network!Init
<1> QED BY <1>1, DataInit, DataNext, ApartInit, ApartNext, StepRefines, PTL
        DEF Spec, DeliversOnce, Network!Spec
=============================================================================
