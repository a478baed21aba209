---------------------------- MODULE OrderProofs ----------------------------
(***************************************************************************)
(* The proofs that files keep their order. As long as no route changes,    *)
(* packets of a file do not overtake each other, on any network, in any    *)
(* tables (loops included), whichever routers end meanwhile.               *)
(***************************************************************************)
EXTENDS TraceProofs, WellFoundedInduction

-----------------------------------------------------------------------------
(* What holds whether routes change or not.                                *)

List(r, k) == Seqs(ttl_seq_mapping[r], k)

(* A router that ended may still have packets that it will never send.     *)
Moving(r) == Members(queue[r]) \cup Members(outgoing[r])

(* No packet has more hops to go than at its source; and its source has    *)
(* noted it, unless it has not sent it yet.                                *)
Underway(p) == /\ p.seq \in 1..Length[p.t]
               /\ rank(p.ttl) <= rank(init_TTL[p.t])
AtSource(M, d) == d \in M[Src[d.t]][init_TTL[d.t]]
FromSource ==
  /\ \A r \in Node : \A p \in Moving(r) : Underway(p)
  /\ \A r \in Node : \A p \in Members(queue[r]) : AtSource(Notes, data(p))
  /\ \A r \in Node : proc[r] = "forwarding" => \A p \in Members(outgoing[r]) : AtSource(Notes, data(p))
  /\ \A r \in Node : proc[r] = "sending" => \A p \in Members(outgoing[r]) :
       r = Src[p.t] /\ p.ttl = init_TTL[p.t]
  /\ \A r \in Node, k \in TTL : \A d \in Notes[r][k] : d.seq \in 1..Length[d.t] /\ AtSource(Notes, d)

(* A receiver has received what it noted as a receiver, under one ttl. The *)
(* ttl given by the controller is that of a sender.                        *)
NotedAtEnd(M, d, k) == k # init_TTL[d.t] /\ d \in M[Dst[d.t]][k]
ReceivedOnce ==
  /\ \A d \in Payload, k \in TTL : NotedAtEnd(Notes, d, k) => d \in Members(received_data[Dst[d.t]])
  /\ \A d \in Payload, j, k \in TTL : NotedAtEnd(Notes, d, j) /\ NotedAtEnd(Notes, d, k) => j = k
  /\ \A r \in Node : \A d \in Members(received_data[r]) : Dst[d.t] = r /\ \E k \in TTL : NotedAtEnd(Notes, d, k)

(* A file is written when its last packet has been received.               *)
lastOf(t) == [t |-> t, seq |-> Length[t]]
WrittenIsReceived == \A t \in Transfer : files[t] # <<>> => lastOf(t) \in Members(received_data[Dst[t]])

(* The map of a router: its keys have a list without repetition, and the   *)
(* list is empty only where SENDFILE_STATS has made the key.               *)
Once(s) == \A i, j \in 1..Len(s) : s[i] = s[j] => i = j
IsMap(m) == m = [k \in DOMAIN m |-> m[k]]
NoEmptyList(m) == \A k \in DOMAIN m : m[k] # <<>>
ListsAreLists ==
  \A r \in Node :
    /\ IsMap(ttl_seq_mapping[r])
    /\ \A k \in TTL : Once(List(r, k))
    /\ early = 0 => NoEmptyList(ttl_seq_mapping[r])

PlaceInv == FromSource /\ ReceivedOnce /\ WrittenIsReceived /\ ListsAreLists

-----------------------------------------------------------------------------
(* What holds as long as no route changes.                                 *)

(* The packet of the same file that was sent before.                       *)
prev(d) == [t |-> d.t, seq |-> d.seq - 1]

(* d has reached h with ttl k: it waits there, or has been noted on its    *)
(* arrival.                                                                *)
Waits(s, k, d) == \E i \in 1..Len(s) : s[i].ttl = k /\ data(s[i]) = d
Reached(N, s, k, d) == d \in N[rank(k)] \/ Waits(s, k, d)
NextHop(r, d) == next_hops[r][Dst[d.t]]

(* In a queue, a packet waits behind the one sent before, unless that one  *)
(* has been read already; N are the notes of the router.                   *)
Behind(s, n) == \E m \in 1..(n - 1) : s[m].ttl = s[n].ttl /\ data(s[m]) = prev(data(s[n]))
InLine(s, N) ==
  \A n \in 1..Len(s) : s[n].seq > 1 =>
    prev(data(s[n])) \in N[rank(s[n].ttl)] \/ Behind(s, n)
QueuesInOrder == \A h \in Node : InLine(queue[h], Notes[h])

(* When a router connects to send a packet, the one before has reached its *)
(* next hop, unless that has ended.                                        *)
SentInOrder ==
  \A r \in Node : Busy(r) =>
    LET p == Head(outgoing[r])
    IN  p.seq > 1 => \/ proc[Hop(r)] = "down"
                     \/ Reached(Notes[Hop(r)], queue[Hop(r)], p.ttl, prev(data(p)))

(* A sender has a rest of its file left, and has noted what it sent.       *)
RestOfFile(s) == \A i \in 1..Len(s) : s[i].t = s[1].t /\ s[i].seq = s[1].seq + i - 1
SendersInOrder ==
  \A r \in Node : proc[r] = "sending" =>
    LET p == Head(outgoing[r])
    IN  /\ RestOfFile(outgoing[r])
        /\ p.seq > 1 => prev(data(p)) \in Notes[r][p.ttl]

(* What a router noted it has handed to its next hop, unless it keeps it,  *)
(* still has it, or one of the two has ended.                              *)
HandedOn ==
  \A r \in Node, k \in TTL : \A d \in Notes[r][k] :
    \/ Dst[d.t] = r \/ proc[r] = "down" \/ proc[NextHop(r, d)] = "down"
    \/ [t |-> d.t, seq |-> d.seq, ttl |-> k] \in Members(outgoing[r])
    \/ Reached(Notes[NextHop(r, d)], queue[NextHop(r, d)], k, d)

(* In the list of a ttl each packet comes after the one sent before.       *)
After(s) == \A j \in 1..Len(s) : s[j].seq > 1 => \E i \in 1..(j - 1) : s[i] = prev(s[j])
ListsInOrder == \A r \in Node, k \in TTL : After(List(r, k))

(* A receiver of one file has its first packets in order.                  *)
OnlyFile(t) == \A u \in started \ {t} : Dst[u] # Dst[t]
StartOf(t, s) == Len(s) <= Length[t] /\ \A i \in 1..Len(s) : s[i] = [t |-> t, seq |-> i]
FilesInOrder ==
  \A t \in Transfer : OnlyFile(t) =>
    StartOf(t, received_data[Dst[t]]) /\ files[t] \in {<<>>, content(t)}

OrderInv ==
  /\ QueuesInOrder /\ SentInOrder /\ SendersInOrder
  /\ HandedOn /\ ListsInOrder /\ FilesInOrder
-----------------------------------------------------------------------------
(* Sequences of packets, of payloads, and the lists of a map.              *)

(* Every set of numbers has a least one: induction, in the form that the   *)
(* theorems about the model use.                                           *)
LEMMA LeastNumber ==
  ASSUME NEW T, T \subseteq Nat, T # {}
  PROVE  \E x \in T : \A y \in T : x <= y
<1> DEFINE R == OpToRel(<, Nat)
<1>1. IsWellFoundedOn(R, Nat)
  BY NatLessThanWellFounded
<1> HIDE DEF R
<1>2. PICK x \in T : \A y \in T : ~ (<<y, x>> \in R)
  BY <1>1, WFMin
<1>3. \A y \in T : ~ (y < x)
  <2> SUFFICES ASSUME NEW y \in T, y < x PROVE <<y, x>> \in R
    BY <1>2
  <2> QED BY DEF R, OpToRel
<1> QED BY <1>2, <1>3

LEMMA PacketIs ==
  ASSUME NEW p \in Packet
  PROVE  /\ p = [t |-> p.t, seq |-> p.seq, ttl |-> p.ttl]
         /\ p.t \in Transfer /\ p.seq \in Nat /\ p.ttl \in TTL
         /\ data(p) \in Payload /\ data(p).t = p.t /\ data(p).seq = p.seq
         /\ prev(data(p)).t = p.t /\ prev(data(p)).seq = p.seq - 1
         /\ (p.seq > 1 => prev(data(p)) \in Payload)
BY DEF Packet, Payload, data, prev

LEMMA WaitsAppend ==
  ASSUME NEW s \in Seq(Packet), NEW p \in Packet, NEW k, NEW d
  PROVE  /\ Waits(s, k, d) => Waits(Append(s, p), k, d)
         /\ p.ttl = k /\ data(p) = d => Waits(Append(s, p), k, d)
<1> DEFINE a == Append(s, p)
<1>1. /\ Len(a) = Len(s) + 1 /\ \A i \in 1..Len(s) : a[i] = s[i]
      /\ a[Len(s) + 1] = p /\ Len(s) \in Nat
  BY AppendFacts
<1> HIDE DEF a
<1>2. \A i \in 1..Len(s) : i \in 1..Len(a)
  BY <1>1
<1>3. Len(s) + 1 \in 1..Len(a)
  BY <1>1
<1> QED BY <1>1, <1>2, <1>3 DEF Waits, a

LEMMA WaitsTail ==
  ASSUME NEW s \in Seq(Packet), s # <<>>, NEW k, NEW d, Waits(s, k, d)
  PROVE  Waits(Tail(s), k, d) \/ (Head(s).ttl = k /\ data(Head(s)) = d)
<1>1. /\ Len(s) \in Nat \ {0} /\ Head(s) = s[1] /\ Len(Tail(s)) = Len(s) - 1
      /\ \A i \in 1..Len(Tail(s)) : Tail(s)[i] = s[i + 1]
  BY TailFacts
<1>2. PICK i \in 1..Len(s) : s[i].ttl = k /\ data(s[i]) = d
  BY DEF Waits
<1>3. CASE i = 1
  BY <1>1, <1>2, <1>3
<1>4. CASE i # 1
  <2>1. i - 1 \in 1..Len(Tail(s)) /\ (i - 1) + 1 = i
    BY <1>1, <1>4
  <2> QED BY <1>1, <1>2, <2>1 DEF Waits
<1> QED BY <1>3, <1>4

LEMMA InLineMore ==
  ASSUME NEW s \in Seq(Packet), NEW N, NEW M, InLine(s, N), \A k \in TTL : N[k] \subseteq M[k]
  PROVE  InLine(s, M)
<1>1. \A n \in 1..Len(s) : rank(s[n].ttl) \in TTL
  <2> SUFFICES ASSUME NEW n \in 1..Len(s) PROVE rank(s[n].ttl) \in TTL
    OBVIOUS
  <2>1. s[n] \in Packet
    OBVIOUS
  <2> QED BY <2>1, PacketIs, RankFacts
<1> QED BY <1>1 DEF InLine

LEMMA InLineAppend ==
  ASSUME NEW s \in Seq(Packet), NEW p \in Packet, NEW N, InLine(s, N),
         p.seq > 1 => prev(data(p)) \in N[rank(p.ttl)] \/ Waits(s, p.ttl, prev(data(p)))
  PROVE  InLine(Append(s, p), N)
<1> DEFINE a == Append(s, p)
<1>1. /\ Len(a) = Len(s) + 1 /\ \A i \in 1..Len(s) : a[i] = s[i]
      /\ a[Len(s) + 1] = p /\ Len(s) \in Nat
  BY AppendFacts
<1> HIDE DEF a
<1> SUFFICES ASSUME NEW n \in 1..Len(a), a[n].seq > 1
             PROVE  prev(data(a[n])) \in N[rank(a[n].ttl)] \/ Behind(a, n)
  BY DEF InLine, a
<1>2. CASE n \in 1..Len(s)
  <2>1. \A m \in 1..(n - 1) : m \in 1..Len(s)
    BY <1>1, <1>2
  <2>2. a[n] = s[n] /\ \A m \in 1..(n - 1) : a[m] = s[m]
    BY <1>1, <1>2, <2>1
  <2>3. prev(data(s[n])) \in N[rank(s[n].ttl)] \/ Behind(s, n)
    BY <1>2, <2>2 DEF InLine
  <2> QED BY <2>2, <2>3 DEF Behind
<1>3. CASE n = Len(s) + 1
  <2>1. ASSUME Waits(s, p.ttl, prev(data(p))) PROVE Behind(a, n)
    <3>1. PICK i \in 1..Len(s) : s[i].ttl = p.ttl /\ data(s[i]) = prev(data(p))
      BY <2>1 DEF Waits
    <3>2. i \in 1..(n - 1) /\ a[i] = s[i] /\ a[n] = p
      BY <1>1, <1>3
    <3> QED BY <3>1, <3>2 DEF Behind
  <2> QED BY <1>1, <1>3, <2>1
<1> QED BY <1>1, <1>2, <1>3

LEMMA InLineTail ==
  ASSUME NEW s \in Seq(Packet), s # <<>>, NEW N, NEW M, InLine(s, N),
         \A k \in TTL : N[k] \subseteq M[k], data(Head(s)) \in M[rank(Head(s).ttl)]
  PROVE  InLine(Tail(s), M)
<1> DEFINE b == Tail(s)
<1>1. /\ Len(s) \in Nat \ {0} /\ Head(s) = s[1] /\ Len(b) = Len(s) - 1
      /\ \A i \in 1..Len(b) : b[i] = s[i + 1]
  BY TailFacts
<1> HIDE DEF b
<1>2. InLine(s, M)
  BY InLineMore
<1> SUFFICES ASSUME NEW n \in 1..Len(b), b[n].seq > 1
             PROVE  prev(data(b[n])) \in M[rank(b[n].ttl)] \/ Behind(b, n)
  BY DEF InLine, b
<1>3. n + 1 \in 1..Len(s) /\ b[n] = s[n + 1]
  BY <1>1
<1>4. prev(data(s[n + 1])) \in M[rank(s[n + 1].ttl)] \/ Behind(s, n + 1)
  BY <1>2, <1>3 DEF InLine
<1>5. ASSUME Behind(s, n + 1)
      PROVE  prev(data(b[n])) \in M[rank(b[n].ttl)] \/ Behind(b, n)
  <2>1. PICK m \in 1..((n + 1) - 1) : s[m].ttl = s[n + 1].ttl /\ data(s[m]) = prev(data(s[n + 1]))
    BY <1>5 DEF Behind
  <2>2. CASE m = 1
    BY <1>1, <1>3, <2>1, <2>2
  <2>3. CASE m # 1
    <3>1. m - 1 \in 1..(n - 1) /\ m - 1 \in 1..Len(b) /\ (m - 1) + 1 = m
      BY <1>1, <2>3
    <3>2. b[m - 1] = s[m]
      BY <1>1, <3>1
    <3> QED BY <1>3, <2>1, <3>1, <3>2 DEF Behind
  <2> QED BY <2>2, <2>3
<1> QED BY <1>3, <1>4, <1>5

LEMMA InLineHead ==
  ASSUME NEW s \in Seq(Packet), s # <<>>, NEW N, InLine(s, N), Head(s).seq > 1
  PROVE  prev(data(Head(s))) \in N[rank(Head(s).ttl)]
<1>1. Head(s) = s[1] /\ 1 \in 1..Len(s)
  BY TailFacts
<1>2. ~Behind(s, 1)
  BY DEF Behind
<1> QED BY <1>1, <1>2 DEF InLine

(* Lists of payloads. *)
LEMMA ListAppend ==
  ASSUME NEW s \in Seq(Payload), NEW d \in Payload
  PROVE  /\ Once(s) /\ (\A i \in 1..Len(s) : s[i] # d) => Once(Append(s, d))
         /\ After(s) /\ (d.seq > 1 => \E i \in 1..Len(s) : s[i] = prev(d)) => After(Append(s, d))
         /\ Append(s, d) # <<>>
<1> DEFINE a == Append(s, d)
           n == Len(s)
<1>1. /\ Len(a) = n + 1 /\ \A i \in 1..n : a[i] = s[i]
      /\ a[n + 1] = d /\ n \in Nat
  BY AppendFacts
<1> HIDE DEF a, n
<1>2. a # <<>>
  BY <1>1
<1>3. \A i : i \in 1..(n + 1) <=> i \in 1..n \/ i = n + 1
  BY <1>1
<1>4. ASSUME Once(s), \A i \in 1..n : s[i] # d PROVE Once(a)
  BY <1>1, <1>3, <1>4 DEF Once, n
<1>5. ASSUME After(s), d.seq > 1 => \E i \in 1..n : s[i] = prev(d) PROVE After(a)
  <2> SUFFICES ASSUME NEW j \in 1..(n + 1), a[j].seq > 1
               PROVE  \E i \in 1..(j - 1) : a[i] = prev(a[j])
    BY <1>1 DEF After
  <2>1. CASE j \in 1..n
    <3>1. PICK i \in 1..(j - 1) : s[i] = prev(s[j])
      BY <1>1, <1>5, <2>1 DEF After, n
    <3>2. i \in 1..n
      BY <1>1, <2>1
    <3> QED BY <1>1, <2>1, <3>1, <3>2
  <2>2. CASE j = n + 1
    <3>1. PICK i \in 1..n : s[i] = prev(d)
      BY <1>1, <1>5, <2>2
    <3>2. i \in 1..(j - 1)
      BY <1>1, <2>2
    <3> QED BY <1>1, <2>2, <3>1, <3>2
  <2> QED BY <1>3, <2>1, <2>2
<1> QED BY <1>2, <1>4, <1>5 DEF a, n

(* What is noted is listed. *)
LEMMA NotesAreLists ==
  ASSUME DataTypeOK, NEW r \in Node, NEW k \in TTL
  PROVE  /\ List(r, k) \in Seq(Payload)
         /\ \A d : d \in Notes[r][k] <=> \E i \in 1..Len(List(r, k)) : List(r, k)[i] = d
<1>1. TraceType(ttl_seq_mapping[r])
  BY DEF DataTypeOK, TraceType
<1>2. Notes[r][k] = Noted(r, k)
  BY DEF Notes
<1>3. /\ List(r, k) \in Seq(Payload)
      /\ Noted(r, k) = {List(r, k)[i] : i \in 1..Len(List(r, k))}
  BY <1>1, NotedIs DEF List, Noted
<1> QED BY <1>2, <1>3

LEMMA NoteLists ==
  ASSUME DataTypeOK, NEW r \in Node, NEW p, NEW k \in TTL, Note(r, p, k)
  PROVE  /\ \A q \in Node, j \in TTL :
              List(q, j)' = IF q = r /\ j = k THEN Append(List(q, j), data(p)) ELSE List(q, j)
         /\ \A q \in Node : ttl_seq_mapping'[q] = ttl_seq_mapping[q] \/
                            ttl_seq_mapping'[q] = Pushed(ttl_seq_mapping[q], k, data(p))
<1>1. /\ ttl_seq_mapping' = [ttl_seq_mapping EXCEPT ![r] = Pushed(@, k, data(p))]
      /\ DOMAIN ttl_seq_mapping = Node
  BY DEF Note, DataTypeOK
<1>2. /\ ttl_seq_mapping'[r] = Pushed(ttl_seq_mapping[r], k, data(p))
      /\ \A q \in Node \ {r} : ttl_seq_mapping'[q] = ttl_seq_mapping[q]
  BY <1>1
<1>3. \A j \in TTL : Seqs(Pushed(ttl_seq_mapping[r], k, data(p)), j) =
        IF j = k THEN Append(Seqs(ttl_seq_mapping[r], j), data(p)) ELSE Seqs(ttl_seq_mapping[r], j)
  BY DEF Seqs, Pushed
<1> QED BY <1>2, <1>3 DEF List

-----------------------------------------------------------------------------
(* What each handler does, with what the earlier invariants tell of it.    *)
Known == DataInv /\ Apart /\ TraceInv

LEMMA KnownTypes ==
  ASSUME Known
  PROVE  /\ outgoing \in [Node -> Seq(Packet)] /\ queue \in [Node -> Seq(Packet)]
         /\ proc \in [Node -> {"idle", "sending", "forwarding", "down"}]
         /\ received_data \in [Node -> Seq(Payload)] /\ files \in [Transfer -> Seq(Payload)]
         /\ next_hops \in [Node -> [Node -> Node]]
         /\ \A r \in Node : proc[r] = "idle" => outgoing[r] = <<>>
         /\ \A r \in Node : Busy(r) => outgoing[r] # <<>>
         /\ \A r \in Node : proc[r] = "forwarding" => Len(outgoing[r]) = 1
         /\ DataTypeOK /\ Notes \in NoteSets
         /\ Members(<<>>) = {}
<1>1. Notes \in NoteSets
  BY NotesType DEF Known, DataInv
<1>2. Members(<<>>) = {}
  BY DEF Members
<1> QED BY <1>1, <1>2 DEF Known, DataInv, DataTypeOK, BusyHasPackets

LEMMA TransmitDoes ==
  ASSUME Known, NEW r \in Node, Transmit(r), NEW p, p = Head(outgoing[r]), NEW h, h = Hop(r)
  PROVE  /\ p \in Packet /\ p \in Members(outgoing[r]) /\ h \in Node
         /\ h = next_hops[r][Dst[p.t]] /\ proc[h] # "down"
         /\ outgoing[r] # <<>> /\ proc[r] \in {"sending", "forwarding"}
         /\ queue' = [queue EXCEPT ![h] = Append(@, p)]
         /\ outgoing' = [outgoing EXCEPT ![r] = Tail(@)]
         /\ proc' = [proc EXCEPT ![r] = IF Len(outgoing[r]) = 1 THEN "idle" ELSE @]
         /\ UNCHANGED <<received_data, files, next_hops, started, reroutes, early>>
         /\ \/ /\ proc[r] = "sending" /\ Note(r, p, p.ttl) /\ data(p) \notin Notes[r][p.ttl]
               /\ Notes' = Added(Notes, r, p.ttl, data(p))
            \/ /\ proc[r] = "forwarding" /\ ttl_seq_mapping' = ttl_seq_mapping /\ Notes' = Notes
               /\ Len(outgoing[r]) = 1
<1>1. outgoing[r] # <<>> /\ outgoing[r] \in Seq(Packet) /\ proc[r] \in {"sending", "forwarding"}
  BY KnownTypes DEF Transmit, Busy
<1>2. p \in Packet /\ data(p) \in Payload /\ Dst[p.t] \in Node /\ p.ttl \in TTL
  BY <1>1, HeadPacket DEF Packet
<1>3. p \in Members(outgoing[r])
  BY <1>1, SentIsNowhereElse DEF Known, DataInv
<1>4. h = next_hops[r][Dst[p.t]] /\ h \in Node
  BY <1>2, KnownTypes DEF Hop
<1>5. /\ proc[h] # "down"
      /\ queue' = [queue EXCEPT ![h] = Append(@, p)]
      /\ outgoing' = [outgoing EXCEPT ![r] = Tail(@)]
      /\ proc' = [proc EXCEPT ![r] = IF Len(outgoing[r]) = 1 THEN "idle" ELSE @]
      /\ UNCHANGED <<received_data, files, next_hops, started, reroutes, early>>
  BY DEF Transmit
<1>6. ASSUME proc[r] = "sending"
      PROVE  /\ Note(r, p, p.ttl) /\ data(p) \notin Notes[r][p.ttl]
             /\ Notes' = Added(Notes, r, p.ttl, data(p))
  <2>1. Note(r, p, p.ttl)
    BY <1>6 DEF Transmit
  <2>2. Unnoted(Notes, data(p))
    BY <1>3, <1>6 DEF Known, TraceInv
  <2>3. data(p) \notin Notes[r][p.ttl]
    BY <1>2, <2>2 DEF Unnoted
  <2> QED BY <1>2, <2>1, <2>3, NoteAdds, KnownTypes
<1>7. ASSUME proc[r] = "forwarding"
      PROVE  ttl_seq_mapping' = ttl_seq_mapping /\ Notes' = Notes /\ Len(outgoing[r]) = 1
  <2>1. ttl_seq_mapping' = ttl_seq_mapping
    BY <1>7 DEF Transmit
  <2> QED BY <1>7, <2>1, KnownTypes DEF Notes, Noted
<1> QED BY <1>1, <1>2, <1>3, <1>4, <1>5, <1>6, <1>7

LEMMA ReadDoes ==
  ASSUME Known, NEW r \in Node, Keep(r) \/ Forward(r), NEW p, p = Head(queue[r]),
         NEW c, c = rank(p.ttl)
  PROVE  /\ p \in Packet /\ p \in Members(queue[r]) /\ queue[r] # <<>>
         /\ p.ttl \in TTL /\ c \in TTL /\ rank(c) < c
         /\ proc[r] = "idle" /\ outgoing[r] = <<>>
         /\ queue' = [queue EXCEPT ![r] = Tail(@)]
         /\ Note(r, p, c) /\ data(p) \notin Notes[r][c]
         /\ Notes' = Added(Notes, r, c, data(p))
         /\ UNCHANGED <<next_hops, started, reroutes, early>>
         /\ \/ /\ Keep(r) /\ Dst[p.t] = r /\ UNCHANGED <<proc, outgoing>>
               /\ received_data' = [received_data EXCEPT ![r] = Append(@, data(p))]
               /\ files' = IF p.seq = Length[p.t] THEN [files EXCEPT ![p.t] = received_data'[r]]
                           ELSE files
            \/ /\ Dst[p.t] # r /\ UNCHANGED <<received_data, files>>
               /\ proc' = [proc EXCEPT ![r] = "forwarding"]
               /\ outgoing' = [outgoing EXCEPT ![r] = <<[p EXCEPT !.ttl = c]>>]
<1>1. post_ttl(p) = c
  BY DEF post_ttl, rank
<1>2. /\ proc[r] = "idle" /\ queue[r] # <<>> /\ c # 0
      /\ queue' = [queue EXCEPT ![r] = Tail(@)] /\ Note(r, p, c)
      /\ UNCHANGED <<next_hops, started, reroutes, early>>
  BY <1>1 DEF Keep, Forward, Accepts
<1>3. queue[r] \in Seq(Packet) /\ outgoing[r] = <<>>
  BY <1>2, KnownTypes
<1>4. p \in Packet /\ data(p) \in Payload /\ p.ttl \in TTL
  BY <1>2, <1>3, HeadPacket DEF Packet
<1>5. c \in TTL
  BY <1>4, RankFacts
<1>6. rank(c) < c
  BY <1>2, <1>5, RankFacts DEF TTL
<1>7. p \in Members(queue[r])
  BY <1>2, <1>3, ReadIsNowhereElse DEF Known, DataInv
<1>8. data(p) \notin Notes[r][c]
  <2>1. Queued(Notes, r, p)
    BY <1>7 DEF Known, TraceInv
  <2>2. c \in Nat /\ rank(c) \in Nat
    BY <1>5, RankFacts DEF TTL
  <2> QED BY <1>5, <1>6, <2>1, <2>2 DEF Queued
<1>9. Notes' = Added(Notes, r, c, data(p))
  BY <1>2, <1>4, <1>5, NoteAdds, KnownTypes
<1>10. ASSUME Keep(r)
       PROVE  /\ Dst[p.t] = r /\ UNCHANGED <<proc, outgoing>>
              /\ received_data' = [received_data EXCEPT ![r] = Append(@, data(p))]
              /\ files' = IF p.seq = Length[p.t] THEN [files EXCEPT ![p.t] = received_data'[r]]
                           ELSE files
  BY <1>10 DEF Keep, LastFin
<1>11. ASSUME Forward(r)
       PROVE  /\ Dst[p.t] # r /\ UNCHANGED <<received_data, files>>
              /\ proc' = [proc EXCEPT ![r] = "forwarding"]
              /\ outgoing' = [outgoing EXCEPT ![r] = <<[p EXCEPT !.ttl = c]>>]
  BY <1>1, <1>11 DEF Forward
<1> QED BY <1>2, <1>3, <1>4, <1>5, <1>6, <1>7, <1>8, <1>9, <1>10, <1>11

(* A process ends. *)
LEMMA EndDoes ==
  ASSUME NEW r \in Node, ConnectFails(r) \/ Drop(r)
  PROVE  /\ proc' = [proc EXCEPT ![r] = "down"] /\ queue' = [queue EXCEPT ![r] = <<>>]
         /\ UNCHANGED <<outgoing, ttl_seq_mapping, received_data, files, next_hops,
                        started, reroutes, early>>
         /\ Notes' = Notes
BY DEF ConnectFails, Drop, End, Notes, Noted

(* SENDFILE makes the list of the packets to send. *)
LEMMA SendFileDoes ==
  ASSUME Known, NEW t \in Transfer, SendFile(t)
  PROVE  \E f \in Seq(Packet) :
           /\ Len(f) = Length[t] /\ f # <<>>
           /\ \A i \in 1..Len(f) : /\ f[i].t = t /\ f[i].seq = i /\ f[i].ttl = init_TTL[t]
           /\ Src[t] \in Node /\ proc[Src[t]] = "idle" /\ outgoing[Src[t]] = <<>>
           /\ outgoing' = [outgoing EXCEPT ![Src[t]] = f]
           /\ proc' = [proc EXCEPT ![Src[t]] = "sending"]
           /\ t \notin started /\ started' = started \cup {t}
           /\ UNCHANGED <<queue, ttl_seq_mapping, received_data, files, next_hops, reroutes, early>>
           /\ Notes' = Notes
<1> DEFINE f == [i \in 1..Length[t] |-> [t |-> t, seq |-> i, ttl |-> init_TTL[t]]]
<1>1. /\ Src[t] \in Node /\ Length[t] \in Nat \ {0} /\ f \in Seq(Packet) /\ Len(f) = Length[t]
  BY FilePackets
<1>2. \A i \in 1..Len(f) : f[i].t = t /\ f[i].seq = i /\ f[i].ttl = init_TTL[t]
  BY <1>1
<1>3. outgoing' = [outgoing EXCEPT ![Src[t]] = f]
  BY DEF SendFile
<1> HIDE DEF f
<1>4. f # <<>>
  BY <1>1
<1>5. proc[Src[t]] = "idle" /\ outgoing[Src[t]] = <<>>
  BY <1>1, KnownTypes DEF SendFile
<1>6. /\ proc' = [proc EXCEPT ![Src[t]] = "sending"]
      /\ t \notin started /\ started' = started \cup {t}
      /\ UNCHANGED <<queue, ttl_seq_mapping, received_data, files, next_hops, reroutes, early>>
      /\ Notes' = Notes
  BY DEF SendFile, Notes, Noted
<1> QED BY <1>1, <1>2, <1>3, <1>4, <1>5, <1>6

(* What changes no route and no packet: an early question of SENDFILE_STATS*)
(* makes an empty list.                                                    *)
LEMMA EarlyDoes ==
  ASSUME Known, NEW r \in Node, StatsEarly(r)
  PROVE  /\ UNCHANGED <<proc, outgoing, queue, received_data, files, next_hops, started, reroutes>>
         /\ Notes' = Notes /\ \A q \in Node, k \in TTL : List(q, k)' = List(q, k)
         /\ early \in Nat /\ early' = early + 1
         /\ \A q \in Node : ttl_seq_mapping'[q] = ttl_seq_mapping[q] \/
                            \E k \in TTL : ttl_seq_mapping'[q] = [j \in {k} |-> <<>>]
<1>1. PICK k \in TTL : ttl_seq_mapping' = [ttl_seq_mapping EXCEPT ![r] = [j \in {k} |-> <<>>]]
  BY DEF StatsEarly
<1>2. DOMAIN ttl_seq_mapping = Node /\ ttl_seq_mapping[r] = <<>>
  BY KnownTypes DEF StatsEarly, DataTypeOK
<1>3. \A q \in Node, j \in TTL : Seqs(ttl_seq_mapping'[q], j) = Seqs(ttl_seq_mapping[q], j)
  BY <1>1, <1>2 DEF Seqs
<1>4. Notes' = Notes
  BY <1>3 DEF Notes, Noted
<1>5. \A q \in Node : ttl_seq_mapping'[q] = ttl_seq_mapping[q] \/
                      ttl_seq_mapping'[q] = [j \in {k} |-> <<>>]
  BY <1>1, <1>2
<1>6. early \in Nat /\ early' = early + 1
  BY KnownTypes, NetworkAssumption DEF StatsEarly, DataTypeOK
<1> QED BY <1>3, <1>4, <1>5, <1>6 DEF StatsEarly, List

LEMMA NotesGrow ==
  ASSUME Known, [Next]_vars
  PROVE  \A r \in Node, k \in TTL : Notes[r][k] \subseteq Notes'[r][k]
<1>1. Notes \in NoteSets
  BY KnownTypes
<1>2. ASSUME Notes' = Notes PROVE \A r \in Node, k \in TTL : Notes[r][k] \subseteq Notes'[r][k]
  BY <1>2
<1>3. ASSUME NEW r \in Node, NEW k \in TTL, NEW d \in Payload, Notes' = Added(Notes, r, k, d)
      PROVE  \A q \in Node, j \in TTL : Notes[q][j] \subseteq Notes'[q][j]
  BY <1>1, <1>3, AddedFacts
<1>4. ASSUME NEW t \in Transfer, SendFile(t) PROVE Notes' = Notes
  BY <1>4, SendFileDoes
<1>5. ASSUME NEW r \in Node, Transmit(r)
      PROVE  \A q \in Node, j \in TTL : Notes[q][j] \subseteq Notes'[q][j]
  <2> DEFINE p == Head(outgoing[r])
  <2>1. /\ p \in Packet
        /\ Notes' = Notes \/ Notes' = Added(Notes, r, p.ttl, data(p))
    BY <1>5, TransmitDoes
  <2> HIDE DEF p
  <2> QED BY <1>2, <1>3, <2>1, PacketIs
<1>6. ASSUME NEW r \in Node, ConnectFails(r) \/ Drop(r) PROVE Notes' = Notes
  BY <1>6, EndDoes
<1>7. ASSUME NEW r \in Node, Keep(r) \/ Forward(r)
      PROVE  \A q \in Node, j \in TTL : Notes[q][j] \subseteq Notes'[q][j]
  <2> DEFINE p == Head(queue[r])
             c == rank(p.ttl)
  <2>1. p \in Packet /\ c \in TTL /\ Notes' = Added(Notes, r, c, data(p))
    BY <1>7, ReadDoes
  <2> HIDE DEF p, c
  <2> QED BY <1>3, <2>1, PacketIs
<1>8. ASSUME NEW r \in Node, Reroute(r) PROVE Notes' = Notes
  BY <1>8 DEF Reroute, Notes, Noted
<1>9. ASSUME NEW r \in Node, StatsEarly(r) PROVE Notes' = Notes
  BY <1>9, EarlyDoes
<1>10. CASE UNCHANGED vars
  BY <1>2, <1>10 DEF vars, Notes, Noted
<1> QED BY <1>2, <1>4, <1>5, <1>6, <1>7, <1>8, <1>9, <1>10 DEF Next

LEMMA SourceKept ==
  ASSUME Known, [Next]_vars, NEW d, d.t \in Transfer, AtSource(Notes, d)
  PROVE  AtSource(Notes', d)
<1>1. Src[d.t] \in Node /\ init_TTL[d.t] \in TTL
  BY TransferAssumption DEF TTL
<1> QED BY <1>1, NotesGrow DEF AtSource

LEMMA PacketsType ==
  ASSUME NEW s \in Seq(Packet), NEW p \in Members(s)
  PROVE  p \in Packet
BY DEF Members

LEMMA MovingType ==
  ASSUME Known, NEW r \in Node
  PROVE  /\ \A p \in Members(queue[r]) : p \in Packet
         /\ \A p \in Members(outgoing[r]) : p \in Packet
         /\ (queue[r] # <<>> => Members(Tail(queue[r])) \subseteq Members(queue[r]))
         /\ (outgoing[r] # <<>> => Members(Tail(outgoing[r])) \subseteq Members(outgoing[r]))
<1>1. queue[r] \in Seq(Packet) /\ outgoing[r] \in Seq(Packet)
  BY KnownTypes
<1>2. Distinct(queue[r]) /\ Distinct(outgoing[r])
  BY DEF Known, Apart
<1> QED BY <1>1, <1>2, PacketsType, MembersTail

LEMMA FromSourceNext == Known /\ FromSource /\ [Next]_vars => FromSource'
<1> SUFFICES ASSUME Known, FromSource, [Next]_vars PROVE FromSource'
  OBVIOUS
<1>1. /\ outgoing \in [Node -> Seq(Packet)] /\ queue \in [Node -> Seq(Packet)]
      /\ proc \in [Node -> {"idle", "sending", "forwarding", "down"}]
      /\ Members(<<>>) = {} /\ Notes \in NoteSets
  BY KnownTypes
<1>2. /\ \A r \in Node : \A p \in Members(queue[r]) \cup Members(outgoing[r]) : Underway(p)
      /\ \A r \in Node : \A p \in Members(queue[r]) : AtSource(Notes, data(p))
      /\ \A r \in Node : proc[r] = "forwarding" =>
           \A p \in Members(outgoing[r]) : AtSource(Notes, data(p))
      /\ \A r \in Node : proc[r] = "sending" => \A p \in Members(outgoing[r]) :
           r = Src[p.t] /\ p.ttl = init_TTL[p.t]
      /\ \A r \in Node, k \in TTL : \A d \in Notes[r][k] : d.seq \in 1..Length[d.t] /\ AtSource(Notes, d)
  BY DEF FromSource, Moving
<1>3. \A p \in Packet : AtSource(Notes, data(p)) => AtSource(Notes', data(p))
  <2> SUFFICES ASSUME NEW p \in Packet, AtSource(Notes, data(p)) PROVE AtSource(Notes', data(p))
    OBVIOUS
  <2> QED BY PacketIs, SourceKept
<1>4. \A r \in Node, k \in TTL : \A d \in Notes[r][k] : AtSource(Notes', d)
  <2> SUFFICES ASSUME NEW r \in Node, NEW k \in TTL, NEW d \in Notes[r][k] PROVE AtSource(Notes', d)
    OBVIOUS
  <2>1. d.t \in Transfer
    BY <1>1 DEF NoteSets, Payload
  <2> QED BY <1>2, <2>1, SourceKept
<1>5. \A r \in Node : /\ \A p \in Members(queue[r]) : p \in Packet
                      /\ \A p \in Members(outgoing[r]) : p \in Packet
  BY MovingType
(* Every packet was somewhere before, as what is now said of it. *)
<1>6. ASSUME \A r \in Node : \A p \in Members(queue'[r]) : Underway(p) /\ AtSource(Notes', data(p)),
             \A r \in Node : \A p \in Members(outgoing'[r]) :
               /\ Underway(p)
               /\ (proc'[r] = "forwarding" => AtSource(Notes', data(p)))
               /\ (proc'[r] = "sending" => r = Src[p.t] /\ p.ttl = init_TTL[p.t]),
             \A r \in Node, k \in TTL : \A d \in Notes'[r][k] :
               d \in Notes[r][k] \/ (d.seq \in 1..Length[d.t] /\ AtSource(Notes', d))
      PROVE  FromSource'
  BY <1>2, <1>4, <1>6 DEF FromSource, Moving
<1>7. ASSUME NEW t \in Transfer, SendFile(t) PROVE FromSource'
  <2>1. PICK f \in Seq(Packet) :
           /\ Len(f) = Length[t]
           /\ \A i \in 1..Len(f) : f[i].t = t /\ f[i].seq = i /\ f[i].ttl = init_TTL[t]
           /\ outgoing' = [outgoing EXCEPT ![Src[t]] = f] /\ Src[t] \in Node
           /\ proc' = [proc EXCEPT ![Src[t]] = "sending"]
           /\ queue' = queue /\ Notes' = Notes
    BY <1>7, SendFileDoes
  <2>2. \A p \in Members(f) : p.t = t /\ p.ttl = init_TTL[t] /\ p.seq \in 1..Length[t]
    BY <2>1 DEF Members
  <2>3. rank(init_TTL[t]) <= rank(init_TTL[t])
    BY RankFacts, TransferAssumption DEF TTL
  <2>4. \A p \in Members(f) : Underway(p)
    BY <2>2, <2>3 DEF Underway
  <2>5. \A q \in Node : \/ q = Src[t] /\ outgoing'[q] = f /\ proc'[q] = "sending"
                        \/ outgoing'[q] = outgoing[q] /\ proc'[q] = proc[q]
    BY <1>1, <2>1
  <2> QED BY <1>2, <1>3, <1>5, <1>6, <2>1, <2>2, <2>4, <2>5
<1>8. ASSUME NEW r \in Node, Transmit(r) PROVE FromSource'
  <2> DEFINE p == Head(outgoing[r])
             h == Hop(r)
  <2>1. /\ p \in Packet /\ p \in Members(outgoing[r]) /\ h \in Node
        /\ outgoing[r] # <<>> /\ proc[r] \in {"sending", "forwarding"}
        /\ queue' = [queue EXCEPT ![h] = Append(@, p)]
        /\ outgoing' = [outgoing EXCEPT ![r] = Tail(@)]
        /\ proc' = [proc EXCEPT ![r] = IF Len(outgoing[r]) = 1 THEN "idle" ELSE @]
        /\ \/ proc[r] = "sending" /\ Notes' = Added(Notes, r, p.ttl, data(p))
           \/ proc[r] = "forwarding" /\ Notes' = Notes
    BY <1>8, TransmitDoes
  <2>2. Members(Append(queue[h], p)) = Members(queue[h]) \cup {p}
    BY <1>1, <2>1, MembersAppend
  <2>3. Members(Tail(outgoing[r])) \subseteq Members(outgoing[r])
    BY <2>1, MovingType
  <2> HIDE DEF p, h
  <2>4. Underway(p) /\ p.ttl \in TTL /\ data(p) \in Payload /\ data(p).t = p.t /\ data(p).seq = p.seq
    BY <1>2, <2>1, PacketIs
  <2>5. \A q \in Node, k \in TTL : \A d : d \in Notes'[q][k] =>
          d \in Notes[q][k] \/ (proc[r] = "sending" /\ q = r /\ k = p.ttl /\ d = data(p))
    BY <1>1, <2>1, <2>4, AddedFacts
  <2>6. AtSource(Notes', data(p))
    <3>1. CASE proc[r] = "sending"
      <4>1. data(p) \in Notes'[r][p.ttl]
        BY <1>1, <2>1, <2>4, <3>1, AddedFacts
      <4> QED BY <1>2, <2>1, <2>4, <3>1, <4>1 DEF AtSource
    <3>2. CASE proc[r] = "forwarding"
      BY <1>2, <1>3, <2>1, <3>2
    <3> QED BY <2>1, <3>1, <3>2
  <2>7. \A q \in Node : \A x \in Members(queue'[q]) : x \in Members(queue[q]) \/ x = p
    BY <1>1, <2>1, <2>2
  <2>8. \A q \in Node : /\ Members(outgoing'[q]) \subseteq Members(outgoing[q])
                        /\ proc'[q] \in {"sending", "forwarding"} => proc'[q] = proc[q]
    BY <1>1, <2>1, <2>3
  <2>9. \A q \in Node : \A x \in Members(queue'[q]) : Underway(x) /\ AtSource(Notes', data(x))
    BY <1>2, <1>3, <1>5, <2>4, <2>6, <2>7
  <2>10. \A q \in Node : \A x \in Members(outgoing'[q]) :
           /\ Underway(x)
           /\ (proc'[q] = "forwarding" => AtSource(Notes', data(x)))
           /\ (proc'[q] = "sending" => q = Src[x.t] /\ x.ttl = init_TTL[x.t])
    <3> SUFFICES ASSUME NEW q \in Node, NEW x \in Members(outgoing'[q])
                 PROVE  /\ Underway(x)
                        /\ (proc'[q] = "forwarding" => AtSource(Notes', data(x)))
                        /\ (proc'[q] = "sending" => q = Src[x.t] /\ x.ttl = init_TTL[x.t])
      OBVIOUS
    <3>1. x \in Members(outgoing[q]) /\ x \in Packet
      BY <1>5, <2>8
    <3>2. Underway(x)
      BY <1>2, <3>1
    <3>3. proc'[q] = "forwarding" => AtSource(Notes', data(x))
      BY <1>2, <1>3, <2>8, <3>1
    <3>4. proc'[q] = "sending" => q = Src[x.t] /\ x.ttl = init_TTL[x.t]
      BY <1>2, <2>8, <3>1
    <3> QED BY <3>2, <3>3, <3>4
  <2>11. \A q \in Node, k \in TTL : \A d \in Notes'[q][k] :
           d \in Notes[q][k] \/ (d.seq \in 1..Length[d.t] /\ AtSource(Notes', d))
    BY <2>4, <2>5, <2>6 DEF Underway
  <2> QED BY <1>6, <2>9, <2>10, <2>11
<1>9. ASSUME NEW r \in Node, ConnectFails(r) \/ Drop(r) PROVE FromSource'
  <2>1. /\ proc' = [proc EXCEPT ![r] = "down"] /\ queue' = [queue EXCEPT ![r] = <<>>]
        /\ outgoing' = outgoing /\ Notes' = Notes
    BY <1>9, EndDoes
  <2>2. \A q \in Node : /\ Members(queue'[q]) \subseteq Members(queue[q])
                        /\ proc'[q] \in {"sending", "forwarding"} => proc'[q] = proc[q]
    BY <1>1, <2>1
  <2>3. \A q \in Node : \A x \in Members(queue'[q]) : Underway(x) /\ AtSource(Notes', data(x))
    BY <1>2, <1>3, <1>5, <2>2
  <2>4. \A q \in Node : \A x \in Members(outgoing'[q]) :
           /\ Underway(x)
           /\ (proc'[q] = "forwarding" => AtSource(Notes', data(x)))
           /\ (proc'[q] = "sending" => q = Src[x.t] /\ x.ttl = init_TTL[x.t])
    <3> SUFFICES ASSUME NEW q \in Node, NEW x \in Members(outgoing[q])
                 PROVE  /\ Underway(x)
                        /\ (proc'[q] = "forwarding" => AtSource(Notes', data(x)))
                        /\ (proc'[q] = "sending" => q = Src[x.t] /\ x.ttl = init_TTL[x.t])
      BY <2>1
    <3>1. x \in Packet /\ Underway(x)
      BY <1>2, <1>5
    <3>2. proc'[q] = "forwarding" => AtSource(Notes', data(x))
      BY <1>2, <1>3, <2>2, <3>1
    <3>3. proc'[q] = "sending" => q = Src[x.t] /\ x.ttl = init_TTL[x.t]
      BY <1>2, <2>2
    <3> QED BY <3>1, <3>2, <3>3
  <2>5. \A q \in Node, k \in TTL : \A d \in Notes'[q][k] : d \in Notes[q][k]
    BY <2>1
  <2> QED BY <1>6, <2>3, <2>4, <2>5
<1>10. ASSUME NEW r \in Node, Keep(r) \/ Forward(r) PROVE FromSource'
  <2> DEFINE p == Head(queue[r])
             c == rank(p.ttl)
             f == [p EXCEPT !.ttl = c]
  <2>1. /\ p \in Packet /\ p \in Members(queue[r]) /\ queue[r] # <<>>
        /\ p.ttl \in TTL /\ c \in TTL /\ rank(c) < c
        /\ queue' = [queue EXCEPT ![r] = Tail(@)]
        /\ Notes' = Added(Notes, r, c, data(p))
        /\ \/ UNCHANGED <<proc, outgoing>>
           \/ /\ proc' = [proc EXCEPT ![r] = "forwarding"]
              /\ outgoing' = [outgoing EXCEPT ![r] = <<f>>]
    BY <1>10, ReadDoes
  <2>2. Members(Tail(queue[r])) \subseteq Members(queue[r])
    BY <2>1, MovingType
  <2>3. data(f) = data(p) /\ f.t = p.t /\ f.seq = p.seq /\ f.ttl = c
    BY <2>1 DEF Packet, data
  <2>4. Members(<<f>>) = {f}
    BY DEF Members
  <2>5. Underway(p) /\ AtSource(Notes, data(p)) /\ AtSource(Notes', data(p))
    BY <1>2, <1>3, <2>1
  <2>6. Underway(f)
    <3>1. c <= rank(init_TTL[p.t]) /\ p.t \in Transfer
      BY <2>1, <2>5, PacketIs DEF Underway
    <3>2. rank(init_TTL[p.t]) \in TTL /\ rank(c) \in TTL
      BY <2>1, <3>1, RankFacts, TransferAssumption DEF TTL
    <3>3. rank(c) <= rank(init_TTL[p.t])
      <4> HIDE DEF c
      <4> QED BY <2>1, <3>1, <3>2 DEF TTL
    <3> QED BY <2>3, <2>5, <3>3 DEF Underway
  <2>7. data(p) \in Payload /\ data(p).t = p.t /\ data(p).seq = p.seq
    BY <2>1, PacketIs
  <2> HIDE DEF p, c, f
  <2>8. \A q \in Node, k \in TTL : \A d : d \in Notes'[q][k] => d \in Notes[q][k] \/ d = data(p)
    BY <1>1, <2>1, <2>7, AddedFacts
  <2>9. \A q \in Node : Members(queue'[q]) \subseteq Members(queue[q])
    BY <1>1, <2>1, <2>2
  <2>10. ASSUME NEW q \in Node
         PROVE  \/ outgoing'[q] = outgoing[q] /\ proc'[q] = proc[q]
                \/ outgoing'[q] = <<f>> /\ proc'[q] = "forwarding"
    <3>1. CASE UNCHANGED <<proc, outgoing>>
      BY <3>1
    <3>2. CASE /\ proc' = [proc EXCEPT ![r] = "forwarding"]
               /\ outgoing' = [outgoing EXCEPT ![r] = <<f>>]
      BY <1>1, <3>2
    <3> QED BY <2>1, <3>1, <3>2
  <2>11. \A q \in Node : \A x \in Members(queue'[q]) : Underway(x) /\ AtSource(Notes', data(x))
    BY <1>2, <1>3, <1>5, <2>9
  <2>12. \A q \in Node : \A x \in Members(outgoing'[q]) :
           /\ Underway(x)
           /\ (proc'[q] = "forwarding" => AtSource(Notes', data(x)))
           /\ (proc'[q] = "sending" => q = Src[x.t] /\ x.ttl = init_TTL[x.t])
    BY <1>2, <1>3, <1>5, <2>3, <2>4, <2>5, <2>6, <2>10
  <2>13. \A q \in Node, k \in TTL : \A d \in Notes'[q][k] :
           d \in Notes[q][k] \/ (d.seq \in 1..Length[d.t] /\ AtSource(Notes', d))
    BY <2>5, <2>7, <2>8 DEF Underway
  <2> QED BY <1>6, <2>11, <2>12, <2>13
<1>11. ASSUME UNCHANGED <<proc, outgoing, queue>>, Notes' = Notes PROVE FromSource'
  BY <1>2, <1>3, <1>5, <1>6, <1>11
<1>12. ASSUME NEW r \in Node, Reroute(r) \/ StatsEarly(r) PROVE FromSource'
  <2>1. UNCHANGED <<proc, outgoing, queue>>
    BY <1>12 DEF Reroute, StatsEarly
  <2>2. Notes' = Notes
    BY <1>12, EarlyDoes DEF Reroute, Notes, Noted
  <2> QED BY <1>11, <2>1, <2>2
<1>13. CASE UNCHANGED vars
  BY <1>11, <1>13 DEF vars, Notes, Noted
<1> QED BY <1>7, <1>8, <1>9, <1>10, <1>12, <1>13 DEF Next

(* Apart, of a packet that is read: it has not been received yet. *)
LEMMA ReadIsNew ==
  ASSUME Known, NEW r \in Node, NEW p \in Members(queue[r])
  PROVE  \A q \in Node : data(p) \notin Members(received_data[q])
<1>1. data(p) \in Held[<<"queue", r>>] /\ <<"queue", r>> \in Place
  BY PayloadOfPacket, HeldAt
<1>2. ASSUME NEW q \in Node PROVE data(p) \notin Members(received_data[q])
  <2>1. <<"received", q>> \in Place /\ <<"queue", r>> # <<"received", q>>
    BY HeldAt
  <2>2. data(p) \notin Held[<<"received", q>>]
    BY <1>1, <2>1 DEF Known, Apart
  <2> QED BY <2>2, HeldAt DEF Members
<1> QED BY <1>2

(* A step that receives nothing, and notes no packet at its receiver.      *)
LEMMA NothingReceived ==
  ASSUME Known, ReceivedOnce, WrittenIsReceived, [Next]_vars, UNCHANGED <<received_data, files>>,
         \A d \in Payload, k \in TTL : NotedAtEnd(Notes', d, k) => NotedAtEnd(Notes, d, k)
  PROVE  ReceivedOnce' /\ WrittenIsReceived'
<1>1. \A r \in Node : Members(received_data[r]) \subseteq Payload
  BY KnownTypes DEF Members
<1>2. \A d \in Payload, k \in TTL : NotedAtEnd(Notes, d, k) => NotedAtEnd(Notes', d, k)
  BY NotesGrow, TransferAssumption DEF NotedAtEnd, Payload
<1> QED BY <1>1, <1>2 DEF ReceivedOnce, WrittenIsReceived

LEMMA ReceivedNext ==
  Known /\ FromSource /\ ReceivedOnce /\ WrittenIsReceived /\ [Next]_vars
    => ReceivedOnce' /\ WrittenIsReceived'
<1> SUFFICES ASSUME Known, FromSource, ReceivedOnce, WrittenIsReceived, [Next]_vars
             PROVE  ReceivedOnce' /\ WrittenIsReceived'
  OBVIOUS
<1>1. /\ received_data \in [Node -> Seq(Payload)] /\ files \in [Transfer -> Seq(Payload)]
      /\ Notes \in NoteSets
  BY KnownTypes
<1>2. /\ \A d \in Payload, k \in TTL :
           NotedAtEnd(Notes, d, k) => d \in Members(received_data[Dst[d.t]])
      /\ \A d \in Payload, j, k \in TTL :
           NotedAtEnd(Notes, d, j) /\ NotedAtEnd(Notes, d, k) => j = k
      /\ \A r \in Node : \A d \in Members(received_data[r]) :
           Dst[d.t] = r /\ \E k \in TTL : NotedAtEnd(Notes, d, k)
      /\ \A t \in Transfer : files[t] # <<>> => lastOf(t) \in Members(received_data[Dst[t]])
  BY DEF ReceivedOnce, WrittenIsReceived
<1>3. \A d \in Payload : Dst[d.t] \in Node /\ d.t \in Transfer
  BY TransferAssumption DEF Payload
<1>4. ASSUME UNCHANGED <<received_data, files>>, Notes' = Notes
      PROVE  ReceivedOnce' /\ WrittenIsReceived'
  BY <1>4, NothingReceived
<1>5. ASSUME NEW t \in Transfer, SendFile(t) PROVE ReceivedOnce' /\ WrittenIsReceived'
  BY <1>4, <1>5, SendFileDoes
<1>6. ASSUME NEW r \in Node, Transmit(r) PROVE ReceivedOnce' /\ WrittenIsReceived'
  <2> DEFINE p == Head(outgoing[r])
  <2>1. /\ p \in Packet /\ p \in Members(outgoing[r])
        /\ UNCHANGED <<received_data, files>>
        /\ \/ proc[r] = "sending" /\ Notes' = Added(Notes, r, p.ttl, data(p))
           \/ proc[r] = "forwarding" /\ Notes' = Notes
    BY <1>6, TransmitDoes
  <2> HIDE DEF p
  <2>2. CASE proc[r] = "sending"
    <3>1. p.ttl = init_TTL[p.t] /\ p.ttl \in TTL /\ data(p) \in Payload /\ data(p).t = p.t
      BY <2>1, <2>2, PacketIs DEF FromSource
    <3>2. ASSUME NEW d \in Payload, NEW k \in TTL, NotedAtEnd(Notes', d, k)
          PROVE  NotedAtEnd(Notes, d, k)
      <4>1. k # init_TTL[d.t] /\ d \in Notes'[Dst[d.t]][k]
        BY <3>2 DEF NotedAtEnd
      <4>2. d \in Notes[Dst[d.t]][k] \/ (k = p.ttl /\ d = data(p))
        BY <1>1, <1>3, <2>1, <2>2, <3>1, <4>1, AddedFacts
      <4> QED BY <3>1, <4>1, <4>2 DEF NotedAtEnd
    <3> QED BY <2>1, <3>2, NothingReceived
  <2>3. CASE proc[r] = "forwarding"
    BY <1>4, <2>1, <2>3
  <2> QED BY <2>1, <2>2, <2>3
<1>7. ASSUME NEW r \in Node, ConnectFails(r) \/ Drop(r) PROVE ReceivedOnce' /\ WrittenIsReceived'
  BY <1>4, <1>7, EndDoes
<1>8. ASSUME NEW r \in Node, Keep(r) \/ Forward(r) PROVE ReceivedOnce' /\ WrittenIsReceived'
  <2> DEFINE p == Head(queue[r])
             c == rank(p.ttl)
             e == data(p)
  <2>1. /\ p \in Packet /\ p \in Members(queue[r]) /\ c \in TTL /\ p.ttl \in TTL
        /\ rank(c) < c /\ Notes' = Added(Notes, r, c, e)
        /\ \/ /\ Dst[p.t] = r
              /\ received_data' = [received_data EXCEPT ![r] = Append(@, e)]
              /\ files' = IF p.seq = Length[p.t] THEN [files EXCEPT ![p.t] = received_data'[r]]
                          ELSE files
           \/ Dst[p.t] # r /\ UNCHANGED <<received_data, files>>
    BY <1>8, ReadDoes
  <2>2. e \in Payload /\ e.t = p.t /\ e.seq = p.seq /\ p.t \in Transfer
    BY <2>1, PacketIs
  <2>3. \A q \in Node : e \notin Members(received_data[q])
    BY <2>1, ReadIsNew
  <2>4. c # init_TTL[p.t]
    <3>1. c <= rank(init_TTL[p.t])
      BY <2>1 DEF FromSource, Moving, Underway
    <3>2. c \in Nat /\ rank(c) \in Nat
      BY <2>1, RankFacts DEF TTL
    <3> HIDE DEF c
    <3> QED BY <2>1, <3>1, <3>2
  <2>5. Members(Append(received_data[r], e)) = Members(received_data[r]) \cup {e}
    BY <1>1, <2>2, MembersAppend
  <2> HIDE DEF p, c, e
  <2>6. \A q \in Node, k \in TTL : \A d :
          d \in Notes'[q][k] <=> d \in Notes[q][k] \/ (q = r /\ k = c /\ d = e)
    BY <1>1, <2>1, <2>2, AddedFacts
  <2>7. CASE Dst[p.t] # r
    <3>1. ASSUME NEW d \in Payload, NEW k \in TTL, NotedAtEnd(Notes', d, k)
          PROVE  NotedAtEnd(Notes, d, k)
      <4>1. d # e \/ Dst[d.t] # r
        BY <2>2, <2>7
      <4> QED BY <1>3, <2>6, <3>1, <4>1 DEF NotedAtEnd
    <3> QED BY <2>1, <2>7, <3>1, NothingReceived
  <2>8. CASE Dst[p.t] = r
    <3>1. /\ received_data' = [received_data EXCEPT ![r] = Append(@, e)]
          /\ files' = IF p.seq = Length[p.t] THEN [files EXCEPT ![p.t] = received_data'[r]]
                      ELSE files
      BY <2>1, <2>8
    <3>2. \A q \in Node : Members(received_data'[q]) =
            IF q = r THEN Members(received_data[q]) \cup {e} ELSE Members(received_data[q])
      BY <1>1, <2>5, <3>1
    <3>3. \A d \in Payload, k \in TTL :
            NotedAtEnd(Notes', d, k) <=> NotedAtEnd(Notes, d, k) \/ (k = c /\ d = e)
      BY <1>3, <2>2, <2>4, <2>6, <2>8 DEF NotedAtEnd
    <3>4. \A k \in TTL : ~NotedAtEnd(Notes, e, k)
      BY <1>2, <1>3, <2>2, <2>3
    <3>5. ASSUME NEW d \in Payload, NEW k \in TTL, NotedAtEnd(Notes', d, k)
          PROVE  d \in Members(received_data'[Dst[d.t]])
      <4>1. CASE NotedAtEnd(Notes, d, k)
        BY <1>2, <1>3, <3>2, <4>1
      <4>2. CASE d = e
        <5>1. Dst[d.t] = r
          BY <2>2, <2>8, <4>2
        <5> QED BY <3>2, <4>2, <5>1
      <4> QED BY <3>3, <3>5, <4>1, <4>2
    <3>6. ASSUME NEW d \in Payload, NEW j \in TTL, NEW k \in TTL,
                 NotedAtEnd(Notes', d, j), NotedAtEnd(Notes', d, k)
          PROVE  j = k
      BY <1>2, <3>3, <3>4, <3>6
    <3>7. ASSUME NEW q \in Node, NEW d \in Members(received_data'[q])
          PROVE  Dst[d.t] = q /\ \E k \in TTL : NotedAtEnd(Notes', d, k)
      <4>1. CASE d \in Members(received_data[q])
        <5>1. d \in Payload
          BY <1>1, <4>1 DEF Members
        <5> QED BY <1>2, <3>3, <4>1, <5>1
      <4>2. CASE q = r /\ d = e
        BY <2>1, <2>2, <2>8, <3>3, <4>2
      <4> QED BY <3>2, <3>7, <4>1, <4>2
    <3>8. ASSUME NEW t \in Transfer, files'[t] # <<>>
          PROVE  lastOf(t) \in Members(received_data'[Dst[t]])
      <4>1. CASE files'[t] = files[t]
        BY <1>2, <3>2, <3>8, <4>1, TransferAssumption
      <4>2. CASE files'[t] # files[t]
        <5>1. t = p.t /\ p.seq = Length[p.t]
          BY <1>1, <2>2, <3>1, <4>2
        <5>2. e = lastOf(t)
          BY <2>2, <5>1 DEF lastOf, Payload
        <5> QED BY <2>8, <3>2, <5>1, <5>2, TransferAssumption
      <4> QED BY <4>1, <4>2
    <3> QED BY <3>5, <3>6, <3>7, <3>8 DEF ReceivedOnce, WrittenIsReceived
  <2> QED BY <2>7, <2>8
<1>9. ASSUME NEW r \in Node, Reroute(r) \/ StatsEarly(r) PROVE ReceivedOnce' /\ WrittenIsReceived'
  <2>1. UNCHANGED <<received_data, files>>
    BY <1>9 DEF Reroute, StatsEarly
  <2>2. Notes' = Notes
    BY <1>9, EarlyDoes DEF Reroute, Notes, Noted
  <2> QED BY <1>4, <2>1, <2>2
<1>10. CASE UNCHANGED vars
  BY <1>4, <1>10 DEF vars, Notes, Noted
<1> QED BY <1>5, <1>6, <1>7, <1>8, <1>9, <1>10 DEF Next

LEMMA ListsAreListsNext == Known /\ ListsAreLists /\ [Next]_vars => ListsAreLists'
<1> SUFFICES ASSUME Known, ListsAreLists, [Next]_vars PROVE ListsAreLists'
  OBVIOUS
<1>1. DataTypeOK
  BY KnownTypes
<1>2. ASSUME NEW r \in Node
      PROVE  /\ IsMap(ttl_seq_mapping[r])
             /\ \A k \in TTL : Once(List(r, k))
             /\ early = 0 => NoEmptyList(ttl_seq_mapping[r])
  BY DEF ListsAreLists
<1>3. ASSUME ttl_seq_mapping' = ttl_seq_mapping, early' = early PROVE ListsAreLists'
  BY <1>2, <1>3 DEF ListsAreLists, List
<1>4. ASSUME NEW r \in Node, NEW k \in TTL, NEW p \in Packet, Note(r, p, k),
             data(p) \notin Notes[r][k], early' = early
      PROVE  ListsAreLists'
  <2>1. /\ \A q \in Node, j \in TTL :
             List(q, j)' = IF q = r /\ j = k THEN Append(List(q, j), data(p)) ELSE List(q, j)
        /\ \A q \in Node : ttl_seq_mapping'[q] = ttl_seq_mapping[q] \/
                           ttl_seq_mapping'[q] = Pushed(ttl_seq_mapping[q], k, data(p))
    BY <1>1, <1>4, NoteLists
  <2>2. data(p) \in Payload
    BY PacketIs
  <2>3. List(r, k) \in Seq(Payload) /\ \A i \in 1..Len(List(r, k)) : List(r, k)[i] # data(p)
    BY <1>1, <1>4, NotesAreLists
  <2>4. Once(Append(List(r, k), data(p)))
    BY <1>2, <2>2, <2>3, ListAppend
  <2>5. \A q \in Node, j \in TTL : Once(List(q, j)')
    BY <1>2, <2>1, <2>4
  <2>6. \A q \in Node : IsMap(ttl_seq_mapping'[q])
    BY <1>2, <2>1 DEF IsMap, Pushed
  <2>7. ASSUME NEW q \in Node, early = 0 PROVE NoEmptyList(ttl_seq_mapping'[q])
    <3>1. Seqs(ttl_seq_mapping[q], k) \in Seq(Payload)
      BY <1>1, NotesAreLists DEF List
    <3>2. Append(Seqs(ttl_seq_mapping[q], k), data(p)) # <<>>
      BY <2>2, <3>1, ListAppend
    <3>3. NoEmptyList(ttl_seq_mapping[q])
      BY <1>2, <2>7
    <3>4. NoEmptyList(Pushed(ttl_seq_mapping[q], k, data(p)))
      BY <3>2, <3>3 DEF NoEmptyList, Pushed
    <3> QED BY <2>1, <3>3, <3>4
  <2> QED BY <1>4, <2>5, <2>6, <2>7 DEF ListsAreLists
<1>5. ASSUME NEW t \in Transfer, SendFile(t) PROVE ListsAreLists'
  BY <1>3, <1>5, SendFileDoes
<1>6. ASSUME NEW r \in Node, Transmit(r) PROVE ListsAreLists'
  <2> DEFINE p == Head(outgoing[r])
  <2>1. /\ p \in Packet /\ early' = early
        /\ \/ Note(r, p, p.ttl) /\ data(p) \notin Notes[r][p.ttl]
           \/ ttl_seq_mapping' = ttl_seq_mapping
    BY <1>6, TransmitDoes
  <2> HIDE DEF p
  <2>2. p.ttl \in TTL
    BY <2>1, PacketIs
  <2> QED BY <1>3, <1>4, <2>1, <2>2
<1>7. ASSUME NEW r \in Node, ConnectFails(r) \/ Drop(r) PROVE ListsAreLists'
  BY <1>3, <1>7, EndDoes
<1>8. ASSUME NEW r \in Node, Keep(r) \/ Forward(r) PROVE ListsAreLists'
  <2> DEFINE p == Head(queue[r])
             c == rank(p.ttl)
  <2>1. p \in Packet /\ c \in TTL /\ early' = early /\ Note(r, p, c) /\ data(p) \notin Notes[r][c]
    BY <1>8, ReadDoes
  <2> HIDE DEF p, c
  <2> QED BY <1>4, <2>1
<1>9. ASSUME NEW r \in Node, Reroute(r) PROVE ListsAreLists'
  BY <1>3, <1>9 DEF Reroute
<1>10. ASSUME NEW r \in Node, StatsEarly(r) PROVE ListsAreLists'
  <2>1. /\ early \in Nat /\ early' = early + 1
        /\ \A q \in Node, k \in TTL : List(q, k)' = List(q, k)
        /\ \A q \in Node : ttl_seq_mapping'[q] = ttl_seq_mapping[q] \/
                           \E k \in TTL : ttl_seq_mapping'[q] = [j \in {k} |-> <<>>]
    BY <1>10, EarlyDoes
  <2>4. early' # 0
    BY <2>1
  <2>2. \A q \in Node : IsMap(ttl_seq_mapping'[q])
    BY <1>2, <2>1 DEF IsMap
  <2>3. \A q \in Node, k \in TTL : Once(List(q, k)')
    BY <1>2, <2>1
  <2> QED BY <2>2, <2>3, <2>4 DEF ListsAreLists
<1>11. CASE UNCHANGED vars
  BY <1>3, <1>11 DEF vars
<1> QED BY <1>5, <1>6, <1>7, <1>8, <1>9, <1>10, <1>11 DEF Next

LEMMA PlaceInit == Init => PlaceInv
<1> SUFFICES ASSUME Init PROVE PlaceInv
  OBVIOUS
<1>1. /\ \A r \in Node : /\ queue[r] = <<>> /\ outgoing[r] = <<>> /\ proc[r] = "idle"
                         /\ ttl_seq_mapping[r] = <<>> /\ received_data[r] = <<>>
      /\ \A t \in Transfer : files[t] = <<>>
  BY DEF Init
<1>2. Members(<<>>) = {}
  BY DEF Members
<1>3. \A r \in Node, k \in TTL : List(r, k) = <<>> /\ Notes[r][k] = {}
  <2>1. Ext!Range(<<>>) = {}
    BY DEF Ext!Range
  <2> QED BY <1>1, <2>1 DEF List, Seqs, Notes, Noted
<1>4. FromSource
  BY <1>1, <1>2, <1>3 DEF FromSource, Moving
<1>5. ReceivedOnce /\ WrittenIsReceived
  BY <1>1, <1>2, <1>3, TransferAssumption DEF ReceivedOnce, WrittenIsReceived, NotedAtEnd, Payload
<1>6. ListsAreLists
  BY <1>1, <1>3 DEF ListsAreLists, IsMap, NoEmptyList, Once
<1> QED BY <1>4, <1>5, <1>6 DEF PlaceInv

LEMMA PlaceNext == Known /\ PlaceInv /\ [Next]_vars => PlaceInv'
BY FromSourceNext, ReceivedNext, ListsAreListsNext DEF PlaceInv

-----------------------------------------------------------------------------
(* The order of packets, step by step.                                     *)

LEMMA DownStays ==
  ASSUME Known, [Next]_vars, NEW h \in Node, proc[h] = "down"
  PROVE  proc'[h] = "down"
<1>1. proc \in [Node -> {"idle", "sending", "forwarding", "down"}]
  BY KnownTypes
<1>2. ASSUME NEW t \in Transfer, SendFile(t) PROVE proc'[h] = "down"
  BY <1>1, <1>2, SendFileDoes
<1>3. ASSUME NEW r \in Node, Transmit(r) PROVE proc'[h] = "down"
  BY <1>1, <1>3 DEF Transmit, Busy
<1>4. ASSUME NEW r \in Node, ConnectFails(r) \/ Drop(r) PROVE proc'[h] = "down"
  BY <1>1, <1>4, EndDoes
<1>5. ASSUME NEW r \in Node, Keep(r) \/ Forward(r) PROVE proc'[h] = "down"
  BY <1>1, <1>5 DEF Keep, Forward, Accepts
<1>6. ASSUME NEW r \in Node, Reroute(r) \/ StatsEarly(r) PROVE proc'[h] = "down"
  BY <1>6 DEF Reroute, StatsEarly
<1> QED BY <1>2, <1>3, <1>4, <1>5, <1>6 DEF Next, vars

(* What has reached a router stays there, in its queue or in its notes, as *)
(* long as the router lives.                                               *)
LEMMA ReachedStays ==
  ASSUME Known, [Next]_vars, NEW h \in Node, NEW k \in TTL, NEW d,
         proc[h] = "down" \/ Reached(Notes[h], queue[h], k, d)
  PROVE  proc'[h] = "down" \/ Reached(Notes'[h], queue'[h], k, d)
<1> SUFFICES ASSUME proc'[h] # "down" PROVE Reached(Notes'[h], queue'[h], k, d)
  OBVIOUS
<1>1. /\ queue \in [Node -> Seq(Packet)] /\ Notes \in NoteSets
      /\ proc \in [Node -> {"idle", "sending", "forwarding", "down"}]
  BY KnownTypes
<1>2. Reached(Notes[h], queue[h], k, d)
  BY DownStays
<1>3. CASE d \in Notes[h][rank(k)]
  BY <1>3, NotesGrow, RankFacts DEF Reached
<1>4. ASSUME Waits(queue[h], k, d), queue' = queue PROVE Reached(Notes'[h], queue'[h], k, d)
  BY <1>4 DEF Reached
<1>5. ASSUME Waits(queue[h], k, d), NEW r \in Node, Transmit(r)
      PROVE  Reached(Notes'[h], queue'[h], k, d)
  <2> DEFINE p == Head(outgoing[r])
             g == Hop(r)
  <2>1. p \in Packet /\ g \in Node /\ queue' = [queue EXCEPT ![g] = Append(@, p)]
    BY <1>5, TransmitDoes
  <2> HIDE DEF p, g
  <2>2. CASE h = g
    <3>1. Waits(Append(queue[h], p), k, d)
      BY <1>1, <1>5, <2>1, WaitsAppend
    <3> QED BY <1>1, <2>1, <2>2, <3>1 DEF Reached
  <2>3. CASE h # g
    BY <1>1, <1>5, <2>1, <2>3 DEF Reached
  <2> QED BY <2>2, <2>3
<1>6. ASSUME Waits(queue[h], k, d), NEW r \in Node, ConnectFails(r) \/ Drop(r)
      PROVE  Reached(Notes'[h], queue'[h], k, d)
  <2>1. proc' = [proc EXCEPT ![r] = "down"] /\ queue' = [queue EXCEPT ![r] = <<>>]
    BY <1>6, EndDoes
  <2>2. h # r
    BY <1>1, <2>1
  <2> QED BY <1>1, <1>6, <2>1, <2>2 DEF Reached
<1>7. ASSUME Waits(queue[h], k, d), NEW r \in Node, Keep(r) \/ Forward(r)
      PROVE  Reached(Notes'[h], queue'[h], k, d)
  <2> DEFINE p == Head(queue[r])
             c == rank(p.ttl)
  <2>1. /\ p \in Packet /\ queue[r] # <<>> /\ c \in TTL
        /\ queue' = [queue EXCEPT ![r] = Tail(@)]
        /\ Notes' = Added(Notes, r, c, data(p))
    BY <1>7, ReadDoes
  <2>2. data(p) \in Notes'[r][c]
    BY <1>1, <2>1, PacketIs, AddedFacts
  <2>3. CASE h = r
    <3>1. Waits(Tail(queue[r]), k, d) \/ (p.ttl = k /\ data(p) = d)
      BY <1>1, <1>7, <2>1, <2>3, WaitsTail
    <3>2. queue'[h] = Tail(queue[r])
      BY <1>1, <2>1, <2>3
    <3> HIDE DEF p
    <3> QED BY <2>2, <2>3, <3>1, <3>2 DEF Reached
  <2>4. CASE h # r
    BY <1>1, <1>7, <2>1, <2>4 DEF Reached
  <2> QED BY <2>3, <2>4
<1>8. ASSUME Waits(queue[h], k, d), NEW t \in Transfer, SendFile(t)
      PROVE  Reached(Notes'[h], queue'[h], k, d)
  BY <1>4, <1>8 DEF SendFile
<1>9. ASSUME Waits(queue[h], k, d), NEW r \in Node, Reroute(r) \/ StatsEarly(r)
      PROVE  Reached(Notes'[h], queue'[h], k, d)
  BY <1>4, <1>9 DEF Reroute, StatsEarly
<1>10. ASSUME Waits(queue[h], k, d), UNCHANGED vars PROVE Reached(Notes'[h], queue'[h], k, d)
  BY <1>4, <1>10 DEF vars
<1> QED BY <1>2, <1>3, <1>5, <1>6, <1>7, <1>8, <1>9, <1>10 DEF Next, Reached

LEMMA QueuesNext == Known /\ QueuesInOrder /\ SentInOrder /\ [Next]_vars => QueuesInOrder'
<1> SUFFICES ASSUME Known, QueuesInOrder, SentInOrder, [Next]_vars PROVE QueuesInOrder'
  OBVIOUS
<1>1. queue \in [Node -> Seq(Packet)] /\ Notes \in NoteSets
  BY KnownTypes
<1>2. \A h \in Node, k \in TTL : Notes[h][k] \subseteq Notes'[h][k]
  BY NotesGrow
<1>3. \A h \in Node : InLine(queue[h], Notes'[h])
  BY <1>1, <1>2, InLineMore DEF QueuesInOrder
<1>4. ASSUME queue' = queue PROVE QueuesInOrder'
  BY <1>3, <1>4 DEF QueuesInOrder
<1>5. ASSUME NEW r \in Node, Transmit(r) PROVE QueuesInOrder'
  <2> DEFINE p == Head(outgoing[r])
             g == Hop(r)
  <2>1. /\ p \in Packet /\ g \in Node /\ queue' = [queue EXCEPT ![g] = Append(@, p)]
        /\ proc[g] # "down" /\ proc[r] \in {"sending", "forwarding"}
    BY <1>5, TransmitDoes
  <2>2. p.seq > 1 => Reached(Notes[g], queue[g], p.ttl, prev(data(p)))
    BY <2>1 DEF SentInOrder, Busy
  <2> HIDE DEF p, g
  <2>3. rank(p.ttl) \in TTL
    BY <2>1, PacketIs, RankFacts
  <2>4. p.seq > 1 => prev(data(p)) \in Notes'[g][rank(p.ttl)] \/ Waits(queue[g], p.ttl, prev(data(p)))
    BY <1>2, <2>1, <2>2, <2>3 DEF Reached
  <2>5. InLine(Append(queue[g], p), Notes'[g])
    BY <1>1, <1>3, <2>1, <2>4, InLineAppend
  <2> QED BY <1>1, <1>3, <2>1, <2>5 DEF QueuesInOrder
<1>6. ASSUME NEW r \in Node, ConnectFails(r) \/ Drop(r) PROVE QueuesInOrder'
  <2>1. queue' = [queue EXCEPT ![r] = <<>>]
    BY <1>6, EndDoes
  <2>2. InLine(<<>>, Notes'[r])
    BY DEF InLine
  <2> QED BY <1>1, <1>3, <2>1, <2>2 DEF QueuesInOrder
<1>7. ASSUME NEW r \in Node, Keep(r) \/ Forward(r) PROVE QueuesInOrder'
  <2> DEFINE p == Head(queue[r])
             c == rank(p.ttl)
  <2>1. /\ p \in Packet /\ queue[r] # <<>> /\ c \in TTL
        /\ queue' = [queue EXCEPT ![r] = Tail(@)]
        /\ Notes' = Added(Notes, r, c, data(p))
    BY <1>7, ReadDoes
  <2>2. data(p) \in Notes'[r][c]
    BY <1>1, <2>1, PacketIs, AddedFacts
  <2>3. InLine(Tail(queue[r]), Notes'[r])
    BY <1>1, <1>2, <1>3, <2>1, <2>2, InLineTail DEF QueuesInOrder
  <2> QED BY <1>1, <1>3, <2>1, <2>3 DEF QueuesInOrder
<1>8. ASSUME NEW t \in Transfer, SendFile(t) PROVE QueuesInOrder'
  BY <1>4, <1>8 DEF SendFile
<1>9. ASSUME NEW r \in Node, Reroute(r) \/ StatsEarly(r) PROVE QueuesInOrder'
  BY <1>4, <1>9 DEF Reroute, StatsEarly
<1>10. CASE UNCHANGED vars
  BY <1>4, <1>10 DEF vars
<1> QED BY <1>5, <1>6, <1>7, <1>8, <1>9, <1>10 DEF Next

(* Of a file, what is left to send when its head has been sent. *)
LEMMA SecondPacket ==
  ASSUME NEW s \in Seq(Packet), s # <<>>, Len(s) # 1
  PROVE  /\ Tail(s) \in Seq(Packet) /\ Tail(s) # <<>> /\ Head(s) = s[1]
         /\ Head(Tail(s)) = s[2] /\ Tail(s)[1] = s[2] /\ s[2] \in Members(s) /\ 2 \in 1..Len(s)
         /\ s[1] \in Packet /\ s[2] \in Packet
         /\ \A i \in 1..Len(Tail(s)) : Tail(s)[i] = s[i + 1] /\ i + 1 \in 1..Len(s)
<1> DEFINE b == Tail(s)
<1>1. /\ Len(s) \in Nat \ {0} /\ Head(s) = s[1] /\ Len(b) = Len(s) - 1
      /\ b \in Seq(Packet) /\ \A i \in 1..Len(b) : b[i] = s[i + 1]
  BY TailFacts
<1>2. 1 \in 1..Len(s) /\ 2 \in 1..Len(s)
  BY <1>1
<1>3. s[1] \in Packet /\ s[2] \in Packet /\ s[2] \in Members(s)
  BY <1>2 DEF Members
<1> HIDE DEF b
<1>4. Len(b) # 0 /\ 1 \in 1..Len(b)
  BY <1>1
<1>5. b # <<>>
  BY <1>4
<1>6. Head(b) = b[1] /\ b[1] = s[2]
  BY <1>1, <1>4, <1>5, TailFacts
<1>7. \A i \in 1..Len(b) : i + 1 \in 1..Len(s)
  BY <1>1
<1> QED BY <1>1, <1>2, <1>3, <1>5, <1>6, <1>7 DEF b

LEMMA PrevIs ==
  ASSUME NEW x \in Packet, NEW p \in Packet, x.t = p.t, x.seq = p.seq + 2 - 1
  PROVE  prev(data(x)) = data(p)
<1>1. p.seq \in Nat /\ x.seq - 1 = p.seq
  BY PacketIs
<1> QED BY <1>1 DEF prev, data

LEMMA SentNext ==
  Known /\ FromSource /\ OrderInv /\ [Next]_vars /\ next_hops' = next_hops => SentInOrder'
<1> SUFFICES ASSUME Known, FromSource, OrderInv, [Next]_vars, next_hops' = next_hops
             PROVE  SentInOrder'
  OBVIOUS
<1> DEFINE Good(q, p) ==
      p.seq > 1 => \/ proc'[next_hops[q][Dst[p.t]]] = "down"
                   \/ Reached(Notes'[next_hops[q][Dst[p.t]]], queue'[next_hops[q][Dst[p.t]]],
                              p.ttl, prev(data(p)))
<1>1. /\ outgoing \in [Node -> Seq(Packet)] /\ queue \in [Node -> Seq(Packet)]
      /\ proc \in [Node -> {"idle", "sending", "forwarding", "down"}]
      /\ next_hops \in [Node -> [Node -> Node]] /\ Notes \in NoteSets
      /\ \A q \in Node : proc[q] \in {"sending", "forwarding"} => outgoing[q] # <<>>
  BY KnownTypes DEF Busy
<1>2. (\A q \in Node : proc'[q] \in {"sending", "forwarding"} => Good(q, Head(outgoing'[q])))
        => SentInOrder'
  BY DEF SentInOrder, Busy, Hop
<1>3. \A p \in Packet : p.ttl \in TTL /\ Dst[p.t] \in Node
  BY PacketIs, TransferAssumption
<1>4. ASSUME NEW q \in Node, NEW p \in Packet,
             p.seq > 1 => \/ proc[next_hops[q][Dst[p.t]]] = "down"
                          \/ Reached(Notes[next_hops[q][Dst[p.t]]], queue[next_hops[q][Dst[p.t]]],
                                     p.ttl, prev(data(p)))
      PROVE  Good(q, p)
  <2>1. next_hops[q][Dst[p.t]] \in Node
    BY <1>1, <1>3
  <2> QED BY <1>3, <1>4, <2>1, ReachedStays
<1>5. ASSUME NEW q \in Node, proc[q] \in {"sending", "forwarding"}
      PROVE  Good(q, Head(outgoing[q]))
  <2>1. Head(outgoing[q]) \in Packet
    BY <1>1, <1>5, HeadPacket
  <2> DEFINE p == Head(outgoing[q])
  <2>2. p.seq > 1 => \/ proc[next_hops[q][Dst[p.t]]] = "down"
                     \/ Reached(Notes[next_hops[q][Dst[p.t]]], queue[next_hops[q][Dst[p.t]]],
                                p.ttl, prev(data(p)))
    BY <1>5 DEF OrderInv, SentInOrder, Busy, Hop
  <2> HIDE DEF p, Good
  <2> QED BY <1>4, <2>1, <2>2 DEF p
<1> HIDE DEF Good
(* Nobody starts, and nobody sends. *)
<1>6. ASSUME \A q \in Node : proc'[q] \in {"sending", "forwarding"} =>
               (proc'[q] = proc[q] /\ outgoing'[q] = outgoing[q]) \/ Good(q, Head(outgoing'[q]))
      PROVE  SentInOrder'
  BY <1>2, <1>5, <1>6
<1>7. ASSUME NEW t \in Transfer, SendFile(t) PROVE SentInOrder'
  <2>1. PICK f \in Seq(Packet) :
           /\ Len(f) = Length[t] /\ f # <<>>
           /\ \A i \in 1..Len(f) : f[i].t = t /\ f[i].seq = i /\ f[i].ttl = init_TTL[t]
           /\ outgoing' = [outgoing EXCEPT ![Src[t]] = f] /\ Src[t] \in Node
           /\ proc' = [proc EXCEPT ![Src[t]] = "sending"]
    BY <1>7, SendFileDoes
  <2>2. Head(f).seq = 1
    BY <2>1, TailFacts
  <2>3. Good(Src[t], f[1])
    BY <2>1, <2>2, TailFacts DEF Good
  <2> QED BY <1>1, <1>6, <2>1, <2>3, TailFacts
<1>8. ASSUME NEW r \in Node, Transmit(r) PROVE SentInOrder'
  <2> DEFINE p == Head(outgoing[r])
             h == Hop(r)
             b == Tail(outgoing[r])
             x == Head(b)
  <2>1. /\ p \in Packet /\ p \in Members(outgoing[r]) /\ h \in Node
        /\ h = next_hops[r][Dst[p.t]]
        /\ outgoing[r] # <<>> /\ proc[r] \in {"sending", "forwarding"}
        /\ queue' = [queue EXCEPT ![h] = Append(@, p)]
        /\ outgoing' = [outgoing EXCEPT ![r] = b]
        /\ proc' = [proc EXCEPT ![r] = IF Len(outgoing[r]) = 1 THEN "idle" ELSE @]
        /\ proc[r] = "forwarding" => Len(outgoing[r]) = 1
    BY <1>8, TransmitDoes
  <2>2. ASSUME Len(outgoing[r]) # 1 PROVE Good(r, x)
    <3>1. outgoing[r] \in Seq(Packet)
      BY <1>1
    <3>3. /\ p = outgoing[r][1] /\ x = outgoing[r][2] /\ 2 \in 1..Len(outgoing[r])
          /\ x \in Packet /\ x \in Members(outgoing[r])
      BY <2>1, <2>2, <3>1, SecondPacket
    <3>4. proc[r] = "sending" /\ x \in Members(outgoing[r])
      BY <2>1, <2>2, <3>3
    <3>5. x.ttl = init_TTL[x.t] /\ p.ttl = init_TTL[p.t]
      BY <2>1, <3>4 DEF FromSource
    <3>6. x.t = p.t /\ x.seq = p.seq + 2 - 1
      BY <3>3, <3>4 DEF OrderInv, SendersInOrder, RestOfFile
    <3>7. prev(data(x)) = data(p) /\ x.ttl = p.ttl
      <4> HIDE DEF x, b, p
      <4> QED BY <2>1, <3>3, <3>5, <3>6, PrevIs
    <3>8. Waits(queue'[h], p.ttl, data(p))
      BY <1>1, <2>1, WaitsAppend
    <3> HIDE DEF x, b, p
    <3> QED BY <2>1, <3>6, <3>7, <3>8 DEF Good, Reached
  <2> HIDE DEF p, h, x
  <2>3. outgoing'[r] = b
    BY <1>1, <2>1
  <2> QED BY <1>1, <1>6, <2>1, <2>2, <2>3 DEF x
<1>9. ASSUME NEW r \in Node, ConnectFails(r) \/ Drop(r) PROVE SentInOrder'
  <2>1. proc' = [proc EXCEPT ![r] = "down"] /\ outgoing' = outgoing
    BY <1>9, EndDoes
  <2> QED BY <1>1, <1>6, <2>1
<1>10. ASSUME NEW r \in Node, Keep(r) \/ Forward(r) PROVE SentInOrder'
  <2> DEFINE p == Head(queue[r])
             c == rank(p.ttl)
             f == [p EXCEPT !.ttl = c]
             h == next_hops[r][Dst[p.t]]
  <2>1. /\ p \in Packet /\ queue[r] # <<>> /\ p.ttl \in TTL /\ c \in TTL
        /\ proc[r] = "idle" /\ outgoing[r] = <<>>
        /\ \/ UNCHANGED <<proc, outgoing>>
           \/ /\ Dst[p.t] # r
              /\ proc' = [proc EXCEPT ![r] = "forwarding"]
              /\ outgoing' = [outgoing EXCEPT ![r] = <<f>>]
    BY <1>10, ReadDoes
  <2>2. ASSUME Dst[p.t] # r PROVE Good(r, f)
    <3>1. f \in Packet /\ data(f) = data(p) /\ f.t = p.t /\ f.seq = p.seq /\ f.ttl = c
      BY <2>1 DEF Packet, data
    <3>2. ASSUME p.seq > 1
          PROVE  proc[h] = "down" \/ Reached(Notes[h], queue[h], c, prev(data(p)))
      <4>1. prev(data(p)) \in Notes[r][c]
        BY <1>1, <2>1, <3>2, InLineHead DEF OrderInv, QueuesInOrder
      <4>2. prev(data(p)).t = p.t
        BY <2>1, PacketIs
      <4>3. Members(outgoing[r]) = {}
        BY <2>1, KnownTypes
      <4> DEFINE e == prev(data(p))
      <4>4. \/ Dst[e.t] = r \/ proc[r] = "down" \/ proc[NextHop(r, e)] = "down"
            \/ [t |-> e.t, seq |-> e.seq, ttl |-> c] \in Members(outgoing[r])
            \/ Reached(Notes[NextHop(r, e)], queue[NextHop(r, e)], c, e)
        BY <2>1, <4>1 DEF OrderInv, HandedOn
      <4>5. NextHop(r, e) = h
        BY <4>2 DEF NextHop
      <4> HIDE DEF e, h, p, c
      <4> QED BY <2>1, <2>2, <4>2, <4>3, <4>4, <4>5 DEF e
    <3> HIDE DEF f, c, p
    <3> QED BY <1>4, <3>1, <3>2
  <2> HIDE DEF p, c, f, h
  <2>3. CASE UNCHANGED <<proc, outgoing>>
    BY <1>6, <2>3
  <2>4. CASE /\ Dst[p.t] # r
             /\ proc' = [proc EXCEPT ![r] = "forwarding"]
             /\ outgoing' = [outgoing EXCEPT ![r] = <<f>>]
    <3>1. Head(<<f>>) = f
      OBVIOUS
    <3> QED BY <1>1, <1>6, <2>2, <2>4, <3>1
  <2> QED BY <2>1, <2>3, <2>4
<1>11. ASSUME NEW r \in Node, Reroute(r) \/ StatsEarly(r) PROVE SentInOrder'
  BY <1>6, <1>11 DEF Reroute, StatsEarly
<1>12. CASE UNCHANGED vars
  BY <1>6, <1>12 DEF vars
<1> QED BY <1>7, <1>8, <1>9, <1>10, <1>11, <1>12 DEF Next

LEMMA SendersNext == Known /\ FromSource /\ SendersInOrder /\ [Next]_vars => SendersInOrder'
<1> SUFFICES ASSUME Known, FromSource, SendersInOrder, [Next]_vars PROVE SendersInOrder'
  OBVIOUS
<1> DEFINE Good(q, s) ==
      /\ RestOfFile(s)
      /\ Head(s).seq > 1 => prev(data(Head(s))) \in Notes'[q][Head(s).ttl]
<1>1. /\ outgoing \in [Node -> Seq(Packet)] /\ Notes \in NoteSets
      /\ proc \in [Node -> {"idle", "sending", "forwarding", "down"}]
      /\ \A q \in Node : proc[q] = "sending" => outgoing[q] # <<>>
  BY KnownTypes DEF Busy
<1>2. ASSUME NEW q \in Node, proc[q] = "sending" PROVE Good(q, outgoing[q])
  <2>1. Head(outgoing[q]).ttl \in TTL
    BY <1>1, <1>2, HeadPacket, PacketIs
  <2> QED BY <1>2, <2>1, NotesGrow DEF SendersInOrder
<1>3. ASSUME \A q \in Node : proc'[q] = "sending" =>
               (proc[q] = "sending" /\ outgoing'[q] = outgoing[q]) \/ Good(q, outgoing'[q])
      PROVE  SendersInOrder'
  BY <1>2, <1>3 DEF SendersInOrder
<1> HIDE DEF Good
<1>4. ASSUME NEW t \in Transfer, SendFile(t) PROVE SendersInOrder'
  <2>1. PICK f \in Seq(Packet) :
           /\ Len(f) = Length[t] /\ f # <<>>
           /\ \A i \in 1..Len(f) : f[i].t = t /\ f[i].seq = i /\ f[i].ttl = init_TTL[t]
           /\ outgoing' = [outgoing EXCEPT ![Src[t]] = f] /\ Src[t] \in Node
           /\ proc' = [proc EXCEPT ![Src[t]] = "sending"]
    BY <1>4, SendFileDoes
  <2>2. Head(f) = f[1] /\ 1 \in 1..Len(f) /\ Len(f) \in Nat
    BY TailFacts, <2>1
  <2>3. Head(f).seq = 1 /\ \A i \in 1..Len(f) : f[i].t = f[1].t /\ f[i].seq = f[1].seq + i - 1
    BY <2>1, <2>2
  <2>4. Good(Src[t], f)
    BY <2>3 DEF Good, RestOfFile
  <2> QED BY <1>1, <1>3, <2>1, <2>4
<1>5. ASSUME NEW r \in Node, Transmit(r) PROVE SendersInOrder'
  <2> DEFINE s == outgoing[r]
             p == Head(s)
             b == Tail(s)
  <2>1. /\ p \in Packet /\ p \in Members(s) /\ s # <<>>
        /\ proc[r] \in {"sending", "forwarding"}
        /\ outgoing' = [outgoing EXCEPT ![r] = b]
        /\ proc' = [proc EXCEPT ![r] = IF Len(s) = 1 THEN "idle" ELSE @]
        /\ proc[r] = "sending" => Notes' = Added(Notes, r, p.ttl, data(p))
    BY <1>5, TransmitDoes
  <2>2. ASSUME Len(s) # 1, proc[r] = "sending" PROVE Good(r, b)
    <3>1. /\ p = s[1] /\ Head(b) = s[2] /\ b[1] = s[2] /\ s[2] \in Members(s) /\ 2 \in 1..Len(s)
          /\ s[1] \in Packet /\ s[2] \in Packet
          /\ \A i \in 1..Len(b) : b[i] = s[i + 1] /\ i + 1 \in 1..Len(s)
      BY <1>1, <2>1, <2>2, SecondPacket
    <3>3. \A i \in 1..Len(s) : s[i].t = s[1].t /\ s[i].seq = s[1].seq + i - 1
      BY <2>2 DEF SendersInOrder, RestOfFile
    <3>4. s[1].seq \in Nat
      BY <3>1, PacketIs
    <3>5. RestOfFile(b)
      <4> SUFFICES ASSUME NEW i \in 1..Len(b)
                   PROVE  b[i].t = b[1].t /\ b[i].seq = b[1].seq + i - 1
        BY DEF RestOfFile
      <4>1. b[i].t = s[1].t /\ b[i].seq = s[1].seq + (i + 1) - 1
        BY <3>1, <3>3
      <4>2. b[1].t = s[1].t /\ b[1].seq = s[1].seq + 2 - 1
        BY <3>1, <3>3
      <4> HIDE DEF s, b
      <4> QED BY <3>4, <4>1, <4>2
    <3>7. s[2].ttl = init_TTL[s[2].t] /\ p.ttl = init_TTL[p.t]
      BY <2>1, <2>2, <3>1 DEF FromSource
    <3>8. prev(data(s[2])) = data(p) /\ s[2].ttl = p.ttl
      <4>1. s[2].t = p.t /\ s[2].seq = p.seq + 2 - 1
        BY <3>1, <3>3
      <4> HIDE DEF p, s
      <4> QED BY <2>1, <3>1, <3>7, <4>1, PrevIs
    <3>9. data(p) \in Notes'[r][p.ttl]
      BY <1>1, <2>1, <2>2, PacketIs, AddedFacts
    <3> QED BY <3>1, <3>5, <3>8, <3>9 DEF Good
  <2> HIDE DEF p
  <2>3. outgoing'[r] = b
    BY <1>1, <2>1
  <2> HIDE DEF s, b
  <2>4. \A q \in Node \ {r} : proc'[q] = proc[q] /\ outgoing'[q] = outgoing[q]
    BY <1>1, <2>1
  <2>5. proc'[r] = "sending" => proc[r] = "sending" /\ Len(s) # 1
    BY <1>1, <2>1
  <2> QED BY <1>3, <2>2, <2>3, <2>4, <2>5
<1>6. ASSUME NEW r \in Node, ConnectFails(r) \/ Drop(r) PROVE SendersInOrder'
  <2>1. proc' = [proc EXCEPT ![r] = "down"] /\ outgoing' = outgoing
    BY <1>6, EndDoes
  <2> QED BY <1>1, <1>3, <2>1
<1>7. ASSUME NEW r \in Node, Keep(r) \/ Forward(r) PROVE SendersInOrder'
  <2> DEFINE f == [Head(queue[r]) EXCEPT !.ttl = rank(Head(queue[r]).ttl)]
  <2>1. \/ UNCHANGED <<proc, outgoing>>
        \/ /\ proc' = [proc EXCEPT ![r] = "forwarding"]
           /\ outgoing' = [outgoing EXCEPT ![r] = <<f>>]
    BY <1>7, ReadDoes
  <2> HIDE DEF f
  <2> QED BY <1>1, <1>3, <2>1
<1>8. ASSUME NEW r \in Node, Reroute(r) \/ StatsEarly(r) PROVE SendersInOrder'
  BY <1>3, <1>8 DEF Reroute, StatsEarly
<1>9. CASE UNCHANGED vars
  BY <1>3, <1>9 DEF vars
<1> QED BY <1>4, <1>5, <1>6, <1>7, <1>8, <1>9 DEF Next

LEMMA HeadOrTail ==
  ASSUME NEW s \in Seq(Packet), s # <<>>, NEW x \in Members(s)
  PROVE  x = Head(s) \/ x \in Members(Tail(s))
<1> DEFINE b == Tail(s)
<1>1. /\ Len(s) \in Nat /\ Head(s) = s[1] /\ Len(b) = Len(s) - 1
      /\ \A j \in 1..Len(b) : b[j] = s[j + 1]
  BY TailFacts
<1> HIDE DEF b
<1>2. PICK i \in 1..Len(s) : x = s[i]
  BY DEF Members
<1>3. i # 1 => i - 1 \in 1..Len(b) /\ (i - 1) + 1 = i
  BY <1>1
<1> QED BY <1>1, <1>2, <1>3 DEF Members, b

LEMMA HandedOnNext ==
  Known /\ HandedOn /\ [Next]_vars /\ next_hops' = next_hops => HandedOn'
<1> SUFFICES ASSUME Known, HandedOn, [Next]_vars, next_hops' = next_hops PROVE HandedOn'
  OBVIOUS
<1> DEFINE as(d, k) == [t |-> d.t, seq |-> d.seq, ttl |-> k]
           Good(r, k, d) ==
             \/ Dst[d.t] = r \/ proc'[r] = "down" \/ proc'[NextHop(r, d)] = "down"
             \/ as(d, k) \in Members(outgoing'[r])
             \/ Reached(Notes'[NextHop(r, d)], queue'[NextHop(r, d)], k, d)
<1>1. /\ outgoing \in [Node -> Seq(Packet)] /\ queue \in [Node -> Seq(Packet)]
      /\ proc \in [Node -> {"idle", "sending", "forwarding", "down"}]
      /\ next_hops \in [Node -> [Node -> Node]] /\ Notes \in NoteSets
      /\ Members(<<>>) = {}
  BY KnownTypes
<1>2. \A r \in Node, k \in TTL : \A d \in Notes[r][k] : NextHop(r, d) \in Node /\ d \in Payload
  BY <1>1, TransferAssumption DEF NextHop, NoteSets, Payload
<1>3. (\A r \in Node, k \in TTL : \A d \in Notes'[r][k] : Good(r, k, d)) => HandedOn'
  BY DEF HandedOn, NextHop
(* Of what was noted before: it is enough to follow what the router had.   *)
<1>4. ASSUME NEW r \in Node, NEW k \in TTL, NEW d \in Notes[r][k],
             as(d, k) \in Members(outgoing[r]) => Good(r, k, d)
      PROVE  Good(r, k, d)
  <2>1. \/ Dst[d.t] = r \/ proc[r] = "down" \/ proc[NextHop(r, d)] = "down"
        \/ as(d, k) \in Members(outgoing[r])
        \/ Reached(Notes[NextHop(r, d)], queue[NextHop(r, d)], k, d)
    BY DEF HandedOn
  <2>2. NextHop(r, d) \in Node
    BY <1>2
  <2> QED BY <1>4, <2>1, <2>2, DownStays, ReachedStays
<1> HIDE DEF Good, as
<1>5. ASSUME Notes' = Notes,
             \A r \in Node : outgoing'[r] = outgoing[r] \/ Members(outgoing[r]) = {}
      PROVE  HandedOn'
  <2> SUFFICES ASSUME NEW r \in Node, NEW k \in TTL, NEW d \in Notes[r][k] PROVE Good(r, k, d)
    BY <1>3, <1>5
  <2>1. as(d, k) \in Members(outgoing[r]) => Good(r, k, d)
    BY <1>5 DEF Good
  <2> QED BY <1>4, <2>1
<1>6. ASSUME NEW t \in Transfer, SendFile(t) PROVE HandedOn'
  <2>1. PICK f : /\ outgoing' = [outgoing EXCEPT ![Src[t]] = f]
                 /\ Notes' = Notes /\ outgoing[Src[t]] = <<>>
    BY <1>6, SendFileDoes
  <2> QED BY <1>1, <1>5, <2>1
<1>7. ASSUME NEW r \in Node, Transmit(r) PROVE HandedOn'
  <2> DEFINE p == Head(outgoing[r])
             h == Hop(r)
             b == Tail(outgoing[r])
  <2>1. /\ p \in Packet /\ h \in Node /\ h = next_hops[r][Dst[p.t]] /\ outgoing[r] # <<>>
        /\ queue' = [queue EXCEPT ![h] = Append(@, p)]
        /\ outgoing' = [outgoing EXCEPT ![r] = b]
        /\ Notes' = Notes \/ Notes' = Added(Notes, r, p.ttl, data(p))
    BY <1>7, TransmitDoes
  <2>2. \A x \in Members(outgoing[r]) : x = p \/ x \in Members(b)
    BY <1>1, <2>1, HeadOrTail
  <2>3. Waits(queue'[h], p.ttl, data(p))
    BY <1>1, <2>1, WaitsAppend
  <2>4. p.ttl \in TTL /\ data(p) \in Payload /\ data(p).t = p.t
    BY <2>1, PacketIs
  <2>5. ASSUME NEW d \in Payload, as(d, p.ttl) = p PROVE d = data(p)
    BY <2>5 DEF as, data, Payload
  <2>6. outgoing'[r] = b /\ \A q \in Node \ {r} : outgoing'[q] = outgoing[q]
    BY <1>1, <2>1
  <2> HIDE DEF p, h, b
  <2>7. Good(r, p.ttl, data(p))
    <3>1. NextHop(r, data(p)) = h
      BY <2>1, <2>4 DEF NextHop
    <3> QED BY <2>3, <3>1 DEF Good, Reached
  <2>8. ASSUME NEW q \in Node, NEW k \in TTL, NEW d \in Notes[q][k] PROVE Good(q, k, d)
    <3>1. CASE q # r
      BY <1>4, <2>6, <3>1 DEF Good
    <3>2. CASE q = r /\ as(d, k) = p
      <4>1. k = p.ttl
        BY <3>2 DEF as
      <4>2. d = data(p)
        BY <1>2, <2>5, <3>2, <4>1
      <4> QED BY <2>7, <3>2, <4>1, <4>2
    <3>3. CASE q = r /\ as(d, k) # p
      <4>1. as(d, k) \in Members(outgoing[r]) => as(d, k) \in Members(outgoing'[r])
        BY <2>2, <2>6, <3>3
      <4> QED BY <1>4, <3>3, <4>1 DEF Good
    <3> QED BY <3>1, <3>2, <3>3
  <2>9. \A q \in Node, k \in TTL : \A d \in Notes'[q][k] :
          d \in Notes[q][k] \/ (q = r /\ k = p.ttl /\ d = data(p))
    BY <1>1, <2>1, <2>4, AddedFacts
  <2> QED BY <1>3, <2>7, <2>8, <2>9
<1>8. ASSUME NEW r \in Node, ConnectFails(r) \/ Drop(r) PROVE HandedOn'
  BY <1>5, <1>8, EndDoes
<1>9. ASSUME NEW r \in Node, Keep(r) \/ Forward(r) PROVE HandedOn'
  <2> DEFINE p == Head(queue[r])
             c == rank(p.ttl)
             f == [p EXCEPT !.ttl = c]
  <2>1. /\ p \in Packet /\ c \in TTL /\ outgoing[r] = <<>>
        /\ Notes' = Added(Notes, r, c, data(p))
        /\ \/ Dst[p.t] = r /\ UNCHANGED <<proc, outgoing>>
           \/ outgoing' = [outgoing EXCEPT ![r] = <<f>>]
    BY <1>9, ReadDoes
  <2>2. data(p) \in Payload /\ data(p).t = p.t /\ data(p).seq = p.seq
    BY <2>1, PacketIs
  <2>3. f = [t |-> p.t, seq |-> p.seq, ttl |-> c]
    BY <2>1 DEF Packet
  <2>4. Members(<<f>>) = {f}
    BY DEF Members
  <2> HIDE DEF p, c, f
  <2>5. Good(r, c, data(p))
    <3>1. as(data(p), c) = f
      BY <2>2, <2>3 DEF as
    <3>2. CASE Dst[p.t] = r
      BY <2>2, <3>2 DEF Good
    <3>3. CASE outgoing' = [outgoing EXCEPT ![r] = <<f>>]
      BY <1>1, <2>4, <3>1, <3>3 DEF Good
    <3> QED BY <2>1, <3>2, <3>3
  <2>6. \A q \in Node : outgoing'[q] = outgoing[q] \/ outgoing[q] = <<>>
    BY <1>1, <2>1
  <2>7. ASSUME NEW q \in Node, NEW k \in TTL, NEW d \in Notes[q][k] PROVE Good(q, k, d)
    <3>1. as(d, k) \in Members(outgoing[q]) => Good(q, k, d)
      BY <1>1, <2>6 DEF Good
    <3> QED BY <1>4, <3>1
  <2>8. \A q \in Node, k \in TTL : \A d \in Notes'[q][k] :
          d \in Notes[q][k] \/ (q = r /\ k = c /\ d = data(p))
    BY <1>1, <2>1, <2>2, AddedFacts
  <2> QED BY <1>3, <2>5, <2>7, <2>8
<1>10. ASSUME NEW r \in Node, Reroute(r) \/ StatsEarly(r) PROVE HandedOn'
  <2>1. outgoing' = outgoing
    BY <1>10 DEF Reroute, StatsEarly
  <2>2. Notes' = Notes
    BY <1>10, EarlyDoes DEF Reroute, Notes, Noted
  <2> QED BY <1>5, <2>1, <2>2
<1>11. CASE UNCHANGED vars
  BY <1>5, <1>11 DEF vars, Notes, Noted
<1> QED BY <1>6, <1>7, <1>8, <1>9, <1>10, <1>11 DEF Next

LEMMA ListsInOrderNext ==
  Known /\ QueuesInOrder /\ SendersInOrder /\ ListsInOrder /\ [Next]_vars => ListsInOrder'
<1> SUFFICES ASSUME Known, QueuesInOrder, SendersInOrder, ListsInOrder, [Next]_vars
             PROVE  ListsInOrder'
  OBVIOUS
<1>1. DataTypeOK /\ queue \in [Node -> Seq(Packet)]
  BY KnownTypes
<1>2. ASSUME \A r \in Node, k \in TTL : List(r, k)' = List(r, k) PROVE ListsInOrder'
  BY <1>2 DEF ListsInOrder
<1>3. ASSUME NEW r \in Node, NEW k \in TTL, NEW p \in Packet, Note(r, p, k),
             p.seq > 1 => prev(data(p)) \in Notes[r][k]
      PROVE  ListsInOrder'
  <2>1. \A q \in Node, j \in TTL :
          List(q, j)' = IF q = r /\ j = k THEN Append(List(q, j), data(p)) ELSE List(q, j)
    BY <1>1, <1>3, NoteLists
  <2>2. data(p) \in Payload /\ data(p).seq = p.seq
    BY PacketIs
  <2>3. /\ List(r, k) \in Seq(Payload)
        /\ p.seq > 1 => \E i \in 1..Len(List(r, k)) : List(r, k)[i] = prev(data(p))
    BY <1>1, <1>3, NotesAreLists
  <2>4. After(Append(List(r, k), data(p)))
    BY <2>2, <2>3, ListAppend DEF ListsInOrder
  <2> QED BY <2>1, <2>4 DEF ListsInOrder
<1>4. ASSUME ttl_seq_mapping' = ttl_seq_mapping PROVE ListsInOrder'
  BY <1>2, <1>4 DEF List
<1>5. ASSUME NEW t \in Transfer, SendFile(t) PROVE ListsInOrder'
  BY <1>4, <1>5 DEF SendFile
<1>6. ASSUME NEW r \in Node, Transmit(r) PROVE ListsInOrder'
  <2> DEFINE p == Head(outgoing[r])
  <2>1. /\ p \in Packet
        /\ \/ proc[r] = "sending" /\ Note(r, p, p.ttl)
           \/ ttl_seq_mapping' = ttl_seq_mapping
    BY <1>6, TransmitDoes
  <2>2. proc[r] = "sending" => (p.seq > 1 => prev(data(p)) \in Notes[r][p.ttl])
    BY DEF SendersInOrder
  <2> HIDE DEF p
  <2> QED BY <1>3, <1>4, <2>1, <2>2, PacketIs
<1>7. ASSUME NEW r \in Node, ConnectFails(r) \/ Drop(r) PROVE ListsInOrder'
  BY <1>4, <1>7, EndDoes
<1>8. ASSUME NEW r \in Node, Keep(r) \/ Forward(r) PROVE ListsInOrder'
  <2> DEFINE p == Head(queue[r])
             c == rank(p.ttl)
  <2>1. p \in Packet /\ c \in TTL /\ Note(r, p, c) /\ queue[r] # <<>>
    BY <1>8, ReadDoes
  <2>2. p.seq > 1 => prev(data(p)) \in Notes[r][c]
    BY <1>1, <2>1, InLineHead DEF QueuesInOrder
  <2> HIDE DEF p, c
  <2> QED BY <1>3, <2>1, <2>2
<1>9. ASSUME NEW r \in Node, Reroute(r) \/ StatsEarly(r) PROVE ListsInOrder'
  <2>1. CASE Reroute(r)
    BY <1>4, <2>1 DEF Reroute
  <2>2. CASE StatsEarly(r)
    BY <1>2, <2>2, EarlyDoes
  <2> QED BY <1>9, <2>1, <2>2
<1>10. CASE UNCHANGED vars
  BY <1>4, <1>10 DEF vars
<1> QED BY <1>5, <1>6, <1>7, <1>8, <1>9, <1>10 DEF Next

(* What a receiver reads has not its source's ttl, and is part of its file.*)
LEMMA ReadIsBelow ==
  ASSUME Known, FromSource, NEW r \in Node, Keep(r) \/ Forward(r), NEW p, p = Head(queue[r])
  PROVE  p.seq \in 1..Length[p.t] /\ p.t \in started /\ rank(p.ttl) # init_TTL[p.t]
<1> DEFINE c == rank(p.ttl)
<1>1. p \in Members(queue[r]) /\ queue[r] # <<>> /\ c \in TTL /\ rank(c) < c
  BY ReadDoes
<1>2. p.seq \in 1..Length[p.t] /\ c <= rank(init_TTL[p.t])
  BY <1>1 DEF FromSource, Moving, Underway
<1>3. data(p).t \in started
  BY <1>1, ReadIsNowhereElse, KnownTypes DEF Known
<1>4. c \in Nat /\ rank(c) \in Nat
  BY <1>1, RankFacts DEF TTL
<1> HIDE DEF c
<1>5. c # init_TTL[p.t]
  BY <1>1, <1>2, <1>4
<1> QED BY <1>2, <1>3, <1>5 DEF data, c

LEMMA SeqIsFunction == ASSUME NEW S, NEW a \in Seq(S) PROVE a = [i \in 1..Len(a) |-> a[i]]
OBVIOUS

LEMMA StartAppend ==
  ASSUME NEW t \in Transfer, NEW s \in Seq(Payload), StartOf(t, s),
         NEW e \in Payload, e.t = t, e.seq = Len(s) + 1, e.seq <= Length[t]
  PROVE  StartOf(t, Append(s, e)) /\ (e.seq = Length[t] => Append(s, e) = content(t))
<1> DEFINE a == Append(s, e)
           n == Len(s)
<1>1. n \in Nat /\ Len(a) = n + 1 /\ a[n + 1] = e /\ \A i \in 1..n : a[i] = s[i]
  BY AppendFacts
<1>2. a \in Seq(Payload)
  BY AppendFacts
<1>3. n <= Length[t] /\ (\A i \in 1..n : s[i] = [t |-> t, seq |-> i]) /\ e.seq = n + 1
  BY DEF StartOf
<1>4. e = [t |-> t, seq |-> n + 1]
  BY <1>3 DEF Payload
<1>5. \A i : i \in 1..(n + 1) <=> i \in 1..n \/ i = n + 1
  BY <1>1
<1> HIDE DEF a, n
<1>6. a = [i \in 1..Len(a) |-> a[i]]
  BY <1>2, SeqIsFunction
<1>7. \A i \in 1..(n + 1) : a[i] = [t |-> t, seq |-> i]
  BY <1>1, <1>3, <1>4, <1>5
<1>8. n + 1 <= Length[t]
  BY <1>3
<1>9. ASSUME n + 1 = Length[t] PROVE a = content(t)
  BY <1>1, <1>6, <1>7, <1>9 DEF content
<1> QED BY <1>1, <1>3, <1>7, <1>8, <1>9 DEF StartOf, a

LEMMA FilesNext ==
  Known /\ PlaceInv /\ QueuesInOrder /\ FilesInOrder /\ [Next]_vars => FilesInOrder'
<1> SUFFICES ASSUME Known, PlaceInv, QueuesInOrder, FilesInOrder, [Next]_vars PROVE FilesInOrder'
  OBVIOUS
<1>1. /\ received_data \in [Node -> Seq(Payload)] /\ files \in [Transfer -> Seq(Payload)]
      /\ queue \in [Node -> Seq(Packet)] /\ Notes \in NoteSets
  BY KnownTypes
<1>2. ASSUME UNCHANGED <<received_data, files>>, started \subseteq started' PROVE FilesInOrder'
  BY <1>2 DEF FilesInOrder, OnlyFile
<1>3. ASSUME NEW r \in Node, Keep(r) \/ Forward(r) PROVE FilesInOrder'
  <2> DEFINE p == Head(queue[r])
             c == rank(p.ttl)
             e == data(p)
             s == received_data[r]
  <2>1. /\ p \in Packet /\ p \in Members(queue[r]) /\ queue[r] # <<>> /\ c \in TTL
        /\ started' = started
        /\ \/ /\ Dst[p.t] = r
              /\ received_data' = [received_data EXCEPT ![r] = Append(@, e)]
              /\ files' = IF p.seq = Length[p.t] THEN [files EXCEPT ![p.t] = received_data'[r]]
                          ELSE files
           \/ UNCHANGED <<received_data, files>>
    BY <1>3, ReadDoes
  <2>2. /\ e \in Payload /\ e.t = p.t /\ e.seq = p.seq /\ p.t \in Transfer
        /\ prev(e).t = p.t /\ prev(e).seq = p.seq - 1 /\ (p.seq > 1 => prev(e) \in Payload)
    BY <2>1, PacketIs
  <2>3. p.seq \in 1..Length[p.t] /\ p.t \in started /\ c # init_TTL[p.t]
    BY <1>3, ReadIsBelow DEF PlaceInv
  <2>4. e \notin Members(s)
    BY <2>1, ReadIsNew
  <2>5. p.seq > 1 => prev(e) \in Notes[r][c]
    BY <1>1, <2>1, InLineHead DEF QueuesInOrder
  <2> HIDE DEF p, c, e
  <2>6. Dst[p.t] = r => (p.seq > 1 => prev(e) \in Members(s))
    <3> SUFFICES ASSUME Dst[p.t] = r, p.seq > 1 PROVE prev(e) \in Members(s)
      OBVIOUS
    <3>1. NotedAtEnd(Notes, prev(e), c)
      BY <2>2, <2>3, <2>5 DEF NotedAtEnd
    <3> QED BY <2>1, <2>2, <3>1 DEF PlaceInv, ReceivedOnce
  <2>7. ASSUME Dst[p.t] = r, NEW t \in Transfer, OnlyFile(t), Dst[t] = r
        PROVE  StartOf(t, Append(s, e)) /\ (p.seq = Length[t] => Append(s, e) = content(t)) /\ t = p.t
    <3>1. t = p.t
      BY <2>3, <2>7 DEF OnlyFile
    <3>2. s \in Seq(Payload) /\ StartOf(t, s)
      BY <1>1, <2>7 DEF FilesInOrder
    <3>3. Len(s) \in Nat /\ Length[t] \in Nat
      BY <3>2, TransferAssumption
    <3>4. \A i \in 1..Len(s) : s[i] = [t |-> t, seq |-> i]
      BY <3>2 DEF StartOf
    <3>5. p.seq \notin 1..Len(s)
      <4> SUFFICES ASSUME p.seq \in 1..Len(s) PROVE FALSE
        OBVIOUS
      <4>1. s[p.seq] = e
        BY <2>2, <3>1, <3>4 DEF Payload
      <4> QED BY <2>4, <4>1 DEF Members
    <3>6. p.seq > 1 => p.seq - 1 \in 1..Len(s)
      <4> SUFFICES ASSUME p.seq > 1 PROVE p.seq - 1 \in 1..Len(s)
        OBVIOUS
      <4>1. PICK i \in 1..Len(s) : prev(e) = s[i]
        BY <2>6, <2>7 DEF Members
      <4>2. prev(e) = [t |-> t, seq |-> i]
        BY <3>4, <4>1
      <4>3. p.seq - 1 = i
        BY <2>2, <4>2
      <4> QED BY <4>3
    <3> HIDE DEF s
    <3>7. p.seq = Len(s) + 1 /\ p.seq <= Length[t]
      BY <2>3, <3>1, <3>3, <3>5, <3>6
    <3> QED BY <2>2, <3>1, <3>2, <3>7, StartAppend
  <2>8. ASSUME Dst[p.t] = r, received_data' = [received_data EXCEPT ![r] = Append(@, e)],
               files' = IF p.seq = Length[p.t] THEN [files EXCEPT ![p.t] = received_data'[r]]
                        ELSE files
        PROVE  FilesInOrder'
    <3> SUFFICES ASSUME NEW t \in Transfer, OnlyFile(t)
                 PROVE  /\ StartOf(t, received_data'[Dst[t]])
                        /\ files'[t] \in {<<>>, content(t)}
      BY <2>1 DEF FilesInOrder, OnlyFile
    <3>1. StartOf(t, received_data[Dst[t]]) /\ files[t] \in {<<>>, content(t)}
      BY DEF FilesInOrder
    <3>2. received_data'[r] = Append(s, e)
      BY <1>1, <2>8
    <3>3. CASE Dst[t] = r
      <4>1. StartOf(t, Append(s, e)) /\ (p.seq = Length[t] => Append(s, e) = content(t)) /\ t = p.t
        BY <2>7, <2>8, <3>3
      <4> QED BY <1>1, <2>8, <3>1, <3>2, <3>3, <4>1
    <3>4. CASE Dst[t] # r
      <4>1. received_data'[Dst[t]] = received_data[Dst[t]]
        BY <1>1, <2>8, <3>4, TransferAssumption
      <4>2. files'[t] = files[t]
        BY <1>1, <2>8, <3>4
      <4> QED BY <3>1, <4>1, <4>2
    <3> QED BY <3>3, <3>4
  <2> QED BY <1>2, <2>1, <2>8
<1>4. ASSUME NEW t \in Transfer, SendFile(t) PROVE FilesInOrder'
  BY <1>2, <1>4 DEF SendFile
<1>5. ASSUME NEW r \in Node, Transmit(r) PROVE FilesInOrder'
  BY <1>2, <1>5 DEF Transmit
<1>6. ASSUME NEW r \in Node, ConnectFails(r) \/ Drop(r) PROVE FilesInOrder'
  BY <1>2, <1>6, EndDoes
<1>7. ASSUME NEW r \in Node, Reroute(r) \/ StatsEarly(r) PROVE FilesInOrder'
  BY <1>2, <1>7 DEF Reroute, StatsEarly
<1>8. CASE UNCHANGED vars
  BY <1>2, <1>8 DEF vars
<1> QED BY <1>3, <1>4, <1>5, <1>6, <1>7, <1>8 DEF Next

-----------------------------------------------------------------------------
(* The invariants, together.                                               *)

LEMMA OrderInit == Init => OrderInv
<1> SUFFICES ASSUME Init PROVE OrderInv
  OBVIOUS
<1>1. /\ \A r \in Node : /\ queue[r] = <<>> /\ proc[r] = "idle"
                         /\ ttl_seq_mapping[r] = <<>> /\ received_data[r] = <<>>
      /\ \A t \in Transfer : files[t] = <<>>
  BY DEF Init
<1>2. \A r \in Node, k \in TTL : List(r, k) = <<>> /\ Notes[r][k] = {}
  <2>1. Ext!Range(<<>>) = {}
    BY DEF Ext!Range
  <2> QED BY <1>1, <2>1 DEF List, Seqs, Notes, Noted
<1>3. QueuesInOrder
  BY <1>1 DEF QueuesInOrder, InLine
<1>4. SentInOrder /\ SendersInOrder
  BY <1>1 DEF SentInOrder, SendersInOrder, Busy
<1>5. HandedOn /\ ListsInOrder
  BY <1>2 DEF HandedOn, ListsInOrder, After
<1>6. FilesInOrder
  <2>1. \A t \in Transfer : Dst[t] \in Node /\ 0 <= Length[t]
    BY TransferAssumption
  <2> QED BY <1>1, <2>1 DEF FilesInOrder, StartOf
<1> QED BY <1>3, <1>4, <1>5, <1>6 DEF OrderInv

(* A route that has changed stays counted. *)
LEMMA RoutesStay ==
  ASSUME Known, [Next]_vars, reroutes' = 0
  PROVE  reroutes = 0 /\ next_hops' = next_hops
<1>1. reroutes \in Nat
  BY KnownTypes, NetworkAssumption DEF DataTypeOK
<1>2. ASSUME NEW r \in Node, Reroute(r) PROVE FALSE
  BY <1>1, <1>2 DEF Reroute
<1>3. ASSUME NEW r \in Node, Keep(r) \/ Forward(r) \/ Transmit(r) \/ StatsEarly(r)
      PROVE  reroutes = 0 /\ next_hops' = next_hops
  BY <1>3 DEF Keep, Forward, Transmit, StatsEarly
<1>4. ASSUME NEW r \in Node, ConnectFails(r) \/ Drop(r)
      PROVE  reroutes = 0 /\ next_hops' = next_hops
  BY <1>4, EndDoes
<1>5. ASSUME NEW t \in Transfer, SendFile(t) PROVE reroutes = 0 /\ next_hops' = next_hops
  BY <1>5 DEF SendFile
<1>6. CASE UNCHANGED vars
  BY <1>6 DEF vars
<1> QED BY <1>2, <1>3, <1>4, <1>5, <1>6 DEF Next

InOrderInv == PlaceInv /\ (reroutes = 0 => OrderInv)

LEMMA OrderNext == Known /\ InOrderInv /\ [Next]_vars => InOrderInv'
<1> SUFFICES ASSUME Known, InOrderInv, [Next]_vars PROVE InOrderInv'
  OBVIOUS
<1>1. PlaceInv'
  BY PlaceNext DEF InOrderInv
<1>2. ASSUME reroutes' = 0 PROVE OrderInv'
  <2>1. OrderInv /\ next_hops' = next_hops /\ FromSource /\ PlaceInv
    BY <1>2, RoutesStay DEF InOrderInv, PlaceInv
  <2>2. /\ QueuesInOrder /\ SentInOrder /\ SendersInOrder
        /\ HandedOn /\ ListsInOrder /\ FilesInOrder
    BY <2>1 DEF OrderInv
  <2>3. QueuesInOrder' /\ SentInOrder' /\ SendersInOrder'
    BY <2>1, <2>2, QueuesNext, SentNext, SendersNext
  <2>4. HandedOn' /\ ListsInOrder' /\ FilesInOrder'
    BY <2>1, <2>2, HandedOnNext, ListsInOrderNext, FilesNext
  <2> QED BY <2>3, <2>4 DEF OrderInv
<1> QED BY <1>1, <1>2 DEF InOrderInv

LEMMA OrderAlways == Spec => [](Known /\ InOrderInv)
<1>1. Init => Known /\ InOrderInv
  BY DataInit, ApartInit, TraceInit, PlaceInit, OrderInit DEF Known, InOrderInv
<1>2. (Known /\ InOrderInv) /\ [Next]_vars => (Known /\ InOrderInv)'
  BY DataNext, ApartNext, TraceNext, OrderNext DEF Known
<1> QED BY <1>1, <1>2, PTL DEF Spec

(* The file written at the destination is the file sent, its packets in    *)
(* order, unless routes change under way or the receiver gets a second     *)
(* file: write_datas_to_file writes received_data as it is, and no packet  *)
(* of a file overtakes another on connections of their own.                *)
THEOREM FilesArriveInOrder == Spec => []FileIsWhatWasSent
<1>1. InOrderInv => FileIsWhatWasSent
  BY DEF InOrderInv, OrderInv, FilesInOrder, OnlyFile, FileIsWhatWasSent
<1> QED BY <1>1, OrderAlways, PTL

-----------------------------------------------------------------------------
(* What SENDFILE_STATS shows.                                              *)

(* The answer takes the list of a key that the map has. *)
LEMMA LargestKey ==
  ASSUME Known, ListsAreLists, NEW r \in Node, ttl_seq_mapping[r] # <<>>
  PROVE  \E k \in TTL : /\ k \in DOMAIN ttl_seq_mapping[r]
                        /\ Answer(r).seqs = List(r, k) /\ List(r, k) = ttl_seq_mapping[r][k]
<1> DEFINE m == ttl_seq_mapping[r]
           T == {x \in Nat : TTLMod - x \in DOMAIN m}
<1>1. DOMAIN m \subseteq TTL /\ m = [k \in DOMAIN m |-> m[k]]
  BY KnownTypes DEF DataTypeOK, ListsAreLists, IsMap
<1>2. DOMAIN m # {}
  <2> SUFFICES ASSUME DOMAIN m = {} PROVE m = <<>>
    OBVIOUS
  <2>1. m = [k \in {} |-> m[k]]
    BY <1>1
  <2> HIDE DEF m
  <2> QED BY <2>1
<1> HIDE DEF m
<1>3. \A k \in TTL : k \in Nat /\ TTLMod - k \in Nat /\ TTLMod - (TTLMod - k) = k
  BY TransferAssumption DEF TTL
<1>4. T # {}
  <2>1. PICK k \in DOMAIN m : TRUE
    BY <1>2
  <2> QED BY <1>1, <1>3, <2>1
<1>5. PICK x \in T : \A y \in T : x <= y
  <2>1. T \subseteq Nat
    OBVIOUS
  <2> HIDE DEF T
  <2> QED BY <1>4, <2>1, LeastNumber
<1> DEFINE k == TTLMod - x
<1>6. k \in DOMAIN m
  BY <1>5
<1>7. ASSUME NEW j \in DOMAIN m PROVE j <= k
  <2>1. TTLMod - j \in T /\ j \in Nat
    BY <1>1, <1>3
  <2> QED BY <1>5, <2>1, TransferAssumption
<1> HIDE DEF k
<1>8. \E j \in DOMAIN m : \A i \in DOMAIN m : i <= j
  BY <1>6, <1>7
<1> DEFINE g == CHOOSE j \in DOMAIN m : \A i \in DOMAIN m : i <= j
<1>9. g \in DOMAIN m
  BY <1>8
<1>10. Answer(r).seqs = m[g]
  BY DEF Answer, m
<1> HIDE DEF g
<1>11. g \in TTL /\ List(r, g) = m[g]
  BY <1>1, <1>9 DEF List, Seqs, m
<1> QED BY <1>9, <1>10, <1>11 DEF m

(* A list that has a packet has those of its file that were sent before.   *)
LEMMA BeforeIt ==
  ASSUME NEW s, After(s), NEW t, NEW n \in Nat \ {0}, \E i \in 1..Len(s) : s[i] = [t |-> t, seq |-> n],
         Len(s) \in Nat
  PROVE  \A q \in 1..n : \E i \in 1..Len(s) : s[i] = [t |-> t, seq |-> q]
<1> DEFINE Has(q) == \E i \in 1..Len(s) : s[i] = [t |-> t, seq |-> q]
           T == {x \in 0..(n - 1) : ~Has(n - x)}
<1>1. ASSUME NEW q \in Nat, q > 1, Has(q) PROVE Has(q - 1)
  <2>1. PICK j \in 1..Len(s) : s[j] = [t |-> t, seq |-> q]
    BY <1>1
  <2>2. PICK i \in 1..(j - 1) : s[i] = prev(s[j])
    BY <1>1, <2>1 DEF After
  <2>3. i \in 1..Len(s) /\ s[i] = [t |-> t, seq |-> q - 1]
    BY <2>1, <2>2 DEF prev
  <2> QED BY <2>3
<1>2. Has(n)
  OBVIOUS
<1> HIDE DEF Has
<1>3. T = {}
  <2> SUFFICES ASSUME T # {} PROVE FALSE
    OBVIOUS
  <2>1. T \subseteq Nat
    OBVIOUS
  <2>2. PICK x \in T : \A y \in T : x <= y
    <3> HIDE DEF T
    <3> QED BY <2>1, LeastNumber
  <2>3. x \in 0..(n - 1) /\ ~Has(n - x)
    BY <2>2
  <2>4. x # 0
    BY <1>2, <2>3
  <2>5. x - 1 \in 0..(n - 1) /\ x - 1 \notin T
    BY <2>2, <2>3, <2>4
  <2>6. Has(n - (x - 1))
    BY <2>5
  <2>7. n - (x - 1) \in Nat /\ n - (x - 1) > 1 /\ (n - (x - 1)) - 1 = n - x
    BY <2>3, <2>4
  <2> QED BY <1>1, <2>3, <2>6, <2>7
<1>4. ASSUME NEW q \in 1..n PROVE Has(q)
  <2>1. n - q \in 0..(n - 1) /\ n - (n - q) = q
    OBVIOUS
  <2> QED BY <1>3, <2>1
<1> QED BY <1>4 DEF Has

LEMMA AnswerInOrder ==
  ASSUME Known, PlaceInv, OrderInv, NEW r \in Node, NEW k \in TTL
  PROVE  InOrder(List(r, k))
<1> DEFINE s == List(r, k)
<1>1. s \in Seq(Payload) /\ \A j \in 1..Len(s) : s[j] \in Notes[r][k]
  BY KnownTypes, NotesAreLists
<1>2. Once(s) /\ After(s)
  BY DEF PlaceInv, ListsAreLists, OrderInv, ListsInOrder
<1>3. \A j \in 1..Len(s) : s[j].seq \in 1..Length[s[j].t]
  BY <1>1 DEF PlaceInv, FromSource
<1>4. \A j \in 1..Len(s) : prev(s[j]) = [s[j] EXCEPT !.seq = @ - 1]
  <2> SUFFICES ASSUME NEW j \in 1..Len(s) PROVE prev(s[j]) = [s[j] EXCEPT !.seq = @ - 1]
    OBVIOUS
  <2>1. s[j] \in Payload
    BY <1>1
  <2> QED BY <2>1 DEF prev, Payload
<1>5. DOMAIN s = 1..Len(s)
  BY <1>1
<1> HIDE DEF s
<1> QED BY <1>2, <1>3, <1>4, <1>5 DEF InOrder, Once, After, s

(* The receiver lists a file that is written, under the ttl it tells of.   *)
LEMMA AnswerLists ==
  ASSUME Known, PlaceInv, OrderInv, NEW t \in Transfer, files[t] # <<>>,
         NEW k \in TTL, List(Dst[t], k) # <<>>,
         \A i \in 1..Len(List(Dst[t], k)) : List(Dst[t], k)[i].t = t
  PROVE  Lists(List(Dst[t], k), t)
<1> DEFINE r == Dst[t]
           s == List(r, k)
           first == [t |-> t, seq |-> 1]
<1>1. /\ r \in Node /\ Src[t] \in Node /\ init_TTL[t] \in TTL /\ Length[t] \in Nat \ {0}
  BY TransferAssumption DEF TTL
<1>2. first \in Payload /\ lastOf(t) \in Payload /\ lastOf(t).t = t /\ first.t = t
  BY <1>1 DEF Payload, lastOf
<1>3. \A j \in TTL : /\ List(r, j) \in Seq(Payload) /\ After(List(r, j))
                     /\ \A d : d \in Notes[r][j] <=> \E i \in 1..Len(List(r, j)) : List(r, j)[i] = d
  <2> SUFFICES ASSUME NEW j \in TTL
               PROVE  /\ List(r, j) \in Seq(Payload) /\ After(List(r, j))
                      /\ \A d : d \in Notes[r][j] <=> \E i \in 1..Len(List(r, j)) : List(r, j)[i] = d
    OBVIOUS
  <2> HIDE DEF r
  <2>1. After(List(r, j))
    BY <1>1 DEF OrderInv, ListsInOrder
  <2>2. /\ List(r, j) \in Seq(Payload)
        /\ \A d : d \in Notes[r][j] <=> \E i \in 1..Len(List(r, j)) : List(r, j)[i] = d
    BY <1>1, KnownTypes, NotesAreLists
  <2> QED BY <2>1, <2>2
<1>4. ASSUME NEW j \in TTL, NEW n \in Nat \ {0}, [t |-> t, seq |-> n] \in Notes[r][j]
      PROVE  \A q \in 1..n : [t |-> t, seq |-> q] \in Notes[r][j]
  <2>1. Len(List(r, j)) \in Nat
    BY <1>3
  <2> HIDE DEF r
  <2> DEFINE l == List(r, j)
  <2>2. After(l) /\ \E i \in 1..Len(l) : l[i] = [t |-> t, seq |-> n]
    BY <1>3, <1>4
  <2>3. \A q \in 1..n : \E i \in 1..Len(l) : l[i] = [t |-> t, seq |-> q]
    <3> HIDE DEF l
    <3> QED BY <2>1, <2>2, BeforeIt DEF l
  <2> QED BY <1>3, <2>3
<1>5. first \in Notes[r][k]
  <2>1. 1 \in 1..Len(s) /\ s[1] \in Payload
    BY <1>3
  <2>2. s[1] \in Notes[r][k]
    BY <1>3, <2>1
  <2>3. s[1].t = t /\ s[1].seq \in 1..Length[t]
    BY <1>1, <2>1, <2>2 DEF PlaceInv, FromSource
  <2>4. s[1] = [t |-> t, seq |-> s[1].seq] /\ s[1].seq \in Nat \ {0} /\ 1 \in 1..s[1].seq
    BY <1>1, <2>1, <2>3 DEF Payload
  <2> HIDE DEF s, r
  <2> QED BY <1>4, <2>2, <2>4
<1>6. PICK j \in TTL : j # init_TTL[t] /\ lastOf(t) \in Notes[r][j]
  BY <1>1, <1>2 DEF PlaceInv, WrittenIsReceived, ReceivedOnce, NotedAtEnd
<1>7. lastOf(t) \in Notes[r][k]
  <2>1. CASE k = init_TTL[t]
    <3>1. first \in Notes[Src[t]][k] /\ lastOf(t) \in Notes[Src[t]][k]
      BY <1>1, <1>2, <1>5, <1>6, <2>1 DEF PlaceInv, FromSource, AtSource
    <3>2. r = Src[t]
      BY <1>1, <1>5, <3>1 DEF Known, TraceInv, Path
    <3> QED BY <3>1, <3>2
  <2>2. CASE k # init_TTL[t]
    <3>1. first \in Notes[r][j]
      <4>1. 1 \in 1..Length[t]
        BY <1>1
      <4> HIDE DEF r
      <4> QED BY <1>1, <1>4, <1>6, <4>1 DEF lastOf
    <3>2. NotedAtEnd(Notes, first, j) /\ NotedAtEnd(Notes, first, k)
      BY <1>2, <1>5, <1>6, <2>2, <3>1 DEF NotedAtEnd
    <3>3. j = k
      BY <1>2, <3>2 DEF PlaceInv, ReceivedOnce
    <3> QED BY <1>6, <3>3
  <2> QED BY <2>1, <2>2
<1>8. \A n \in 1..Length[t] : [t |-> t, seq |-> n] \in Notes[r][k]
  <2> HIDE DEF r
  <2> QED BY <1>1, <1>4, <1>7 DEF lastOf
<1>9. \A n \in 1..Length[t] : \E i \in 1..Len(s) : s[i] = content(t)[n]
  BY <1>3, <1>8 DEF content
<1>10. DOMAIN s = 1..Len(s)
  BY <1>3
<1> QED BY <1>9, <1>10 DEF Lists

(* As long as no route changes, SENDFILE_STATS shows a file travelling in  *)
(* order wherever it passes, and its receiver shows all of it once it is   *)
(* written. The answer looks at one list of the map only, that of the      *)
(* largest ttl, and says nothing of the transfer it was asked for.         *)
THEOREM StatsShowTransfers == Spec => []StatsShowTransfer
<1>1. ASSUME Known, InOrderInv PROVE StatsShowTransfer
  <2> SUFFICES ASSUME reroutes = 0, NEW r \in Node, ttl_seq_mapping[r] # <<>>
               PROVE  /\ InOrder(Answer(r).seqs)
                      /\ \A t \in Transfer : r = Dst[t] /\ files[t] # <<>> /\ early = 0 =>
                           Lists(Answer(r).seqs, t) \/
                           \E i \in DOMAIN Answer(r).seqs : Answer(r).seqs[i].t # t
    BY DEF StatsShowTransfer
  <2>1. PlaceInv /\ OrderInv
    BY <1>1 DEF InOrderInv
  <2>2. PICK k \in TTL : /\ k \in DOMAIN ttl_seq_mapping[r]
                         /\ Answer(r).seqs = List(r, k) /\ List(r, k) = ttl_seq_mapping[r][k]
    BY <1>1, <2>1, LargestKey DEF PlaceInv
  <2>3. InOrder(List(r, k))
    BY <1>1, <2>1, AnswerInOrder
  <2>4. List(r, k) \in Seq(Payload)
    BY <1>1, KnownTypes, NotesAreLists
  <2>5. ASSUME NEW t \in Transfer, r = Dst[t], files[t] # <<>>, early = 0,
               \A i \in DOMAIN List(r, k) : List(r, k)[i].t = t
        PROVE  Lists(List(r, k), t)
    <3>1. List(r, k) # <<>>
      BY <2>1, <2>2, <2>5 DEF PlaceInv, ListsAreLists, NoEmptyList
    <3>2. \A i \in 1..Len(List(r, k)) : List(r, k)[i].t = t
      BY <2>4, <2>5
    <3> QED BY <1>1, <2>1, <2>5, <3>1, <3>2, AnswerLists
  <2> QED BY <2>2, <2>3, <2>5
<1> QED BY <1>1, OrderAlways, PTL
=============================================================================
