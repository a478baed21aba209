---------------------------- MODULE TraceProofs ----------------------------
(***************************************************************************)
(* The proof that the packets which routers note trace a path, for every   *)
(* network, every set of transfers, any tables and any changes of them.    *)
(***************************************************************************)
EXTENDS DataPlaneProofs

-----------------------------------------------------------------------------
(* What has been noted, as one value: Notes[r][k] are the packets that r   *)
(* noted under ttl k.                                                      *)
Notes == [r \in Node |-> [k \in TTL |-> Noted(r, k)]]
NoteSets == [Node -> [TTL -> SUBSET Payload]]
Added(M, r, k, d) == [M EXCEPT ![r][k] = @ \cup {d}]

(* A packet passes its ttls in this order: from 0 it goes to the largest.  *)
rank(k) == (k + TTLMod - 1) % TTLMod

(* Of a packet that waits at h, that r has accepted and forwards, and that *)
(* nobody has sent yet.                                                    *)
Queued(M, h, p) ==
  \A q \in Node, k \in TTL : data(p) \in M[q][k] =>
    /\ rank(k) >= rank(p.ttl)
    /\ k = p.ttl => \E table \in Tables : h = table[q][Dst[p.t]]
Carried(M, r, p) ==
  \A q \in Node, k \in TTL : data(p) \in M[q][k] =>
    /\ rank(k) >= rank(p.ttl)
    /\ k = p.ttl => q = r
Unnoted(M, d) == \A q \in Node, k \in TTL : d \notin M[q][k]

(* TraceIsPath, of the notes. *)
Path(M) ==
  \A r, s \in Node, k \in TTL :
    /\ r # s => M[r][k] \cap M[s][k] = {}
    /\ k > 1 => \A d \in M[r][k] \cap M[s][k - 1] :
                 \E table \in Tables : s = table[r][Dst[d.t]]

LEMMA RankFacts ==
  ASSUME NEW k \in TTL
  PROVE  rank(k) \in TTL /\ rank(k) = IF k = 0 THEN TTLMod - 1 ELSE k - 1
BY TransferAssumption, Z3 DEF rank, TTL

LEMMA AddedFacts ==
  ASSUME NEW M \in NoteSets, NEW r \in Node, NEW k \in TTL, NEW d \in Payload
  PROVE  /\ Added(M, r, k, d) \in NoteSets
         /\ \A q \in Node, j \in TTL : \A e :
              e \in Added(M, r, k, d)[q][j] <=> e \in M[q][j] \/ (q = r /\ j = k /\ e = d)
BY DEF Added, NoteSets

(* A note says nothing of other packets. *)
LEMMA OthersStay ==
  ASSUME NEW M \in NoteSets, NEW r \in Node, NEW k \in TTL, NEW d \in Payload,
         NEW p, data(p) # d
  PROVE  /\ \A h \in Node : Queued(M, h, p) => Queued(Added(M, r, k, d), h, p)
         /\ \A h \in Node : Carried(M, h, p) => Carried(Added(M, r, k, d), h, p)
         /\ Unnoted(M, data(p)) => Unnoted(Added(M, r, k, d), data(p))
<1> DEFINE A == Added(M, r, k, d)
<1>1. \A q \in Node, j \in TTL : data(p) \in A[q][j] <=> data(p) \in M[q][j]
  BY AddedFacts
<1> HIDE DEF A
<1> QED BY <1>1 DEF Queued, Carried, Unnoted, A

(* The sender notes a packet that nobody has noted. *)
LEMMA FirstNote ==
  ASSUME NEW M \in NoteSets, Path(M), NEW r \in Node, NEW p \in Packet,
         Unnoted(M, data(p)), data(p) \in Payload,
         NEW table \in Tables
  PROVE  /\ Path(Added(M, r, p.ttl, data(p)))
         /\ Queued(Added(M, r, p.ttl, data(p)), table[r][Dst[p.t]], p)
<1> DEFINE A == Added(M, r, p.ttl, data(p))
           e == data(p)
<1>1. p.ttl \in TTL
  BY DEF Packet
<1>2. \A q \in Node, j \in TTL : \A d :
        d \in A[q][j] <=> d \in M[q][j] \/ (q = r /\ j = p.ttl /\ d = e)
  BY <1>1, AddedFacts
<1>3. \A q \in Node, j \in TTL : e \in A[q][j] <=> q = r /\ j = p.ttl
  BY <1>2 DEF Unnoted
<1>4. \A q \in Node, j \in TTL : \A d : d # e => (d \in A[q][j] <=> d \in M[q][j])
  BY <1>2
<1>5. rank(p.ttl) \in Nat
  BY <1>1, RankFacts DEF TTL
<1> HIDE DEF A, e
<1>6. Queued(A, table[r][Dst[p.t]], p)
  BY <1>3, <1>5 DEF Queued, e
<1>7. ASSUME NEW q \in Node, NEW s \in Node, NEW j \in TTL, q # s
      PROVE  A[q][j] \cap A[s][j] = {}
  <2> SUFFICES ASSUME NEW d, d \in A[q][j], d \in A[s][j] PROVE FALSE
    OBVIOUS
  <2>1. d # e
    BY <1>3, <1>7
  <2> QED BY <1>4, <1>7, <2>1 DEF Path
<1>8. ASSUME NEW q \in Node, NEW s \in Node, NEW j \in TTL, j > 1, NEW d \in A[q][j] \cap A[s][j - 1]
      PROVE  \E tb \in Tables : s = tb[q][Dst[d.t]]
  <2>1. j - 1 \in TTL /\ j - 1 # j
    BY <1>8, TransferAssumption DEF TTL
  <2>2. d # e
    BY <1>3, <2>1
  <2> QED BY <1>4, <1>8, <2>1, <2>2 DEF Path
<1> QED BY <1>6, <1>7, <1>8 DEF Path, A, e

(* The router that accepts a packet notes it under the next ttl. *)
LEMMA NextNote ==
  ASSUME NEW M \in NoteSets, Path(M), NEW r \in Node, NEW p \in Packet,
         Queued(M, r, p), data(p) \in Payload, post_ttl(p) # 0
  PROVE  /\ Path(Added(M, r, post_ttl(p), data(p)))
         /\ Carried(Added(M, r, post_ttl(p), data(p)), r, [p EXCEPT !.ttl = post_ttl(p)])
<1> DEFINE c == post_ttl(p)
           A == Added(M, r, c, data(p))
           e == data(p)
           f == [p EXCEPT !.ttl = c]
<1>1. p.ttl \in TTL /\ c = rank(p.ttl) /\ c \in TTL /\ c > 0
  BY RankFacts DEF Packet, post_ttl, rank, TTL
<1>2. \A q \in Node, j \in TTL : \A d :
        d \in A[q][j] <=> d \in M[q][j] \/ (q = r /\ j = c /\ d = e)
  BY <1>1, AddedFacts
<1>3. data(f) = e /\ f.ttl = c /\ f.t = p.t
  BY DEF Packet, data
<1>4. e.t = p.t
  BY DEF data
<1> HIDE DEF A, e, c, f
<1>5. \A q \in Node, j \in TTL : e \in M[q][j] =>
        rank(j) >= c /\ (j = p.ttl => \E tb \in Tables : r = tb[q][Dst[p.t]])
  BY <1>1 DEF Queued, e
<1>6. rank(c) = c - 1
  BY <1>1, RankFacts
<1>7. \A q \in Node : e \notin M[q][c]
  BY <1>1, <1>5, <1>6 DEF TTL
<1>8. \A q \in Node, j \in TTL : e \in A[q][j] => rank(j) >= c - 1 /\ (j = c => q = r)
  BY <1>1, <1>2, <1>5, <1>6, <1>7, RankFacts DEF TTL
<1>9. Carried(A, r, f)
  BY <1>3, <1>6, <1>8 DEF Carried
<1>10. ASSUME NEW q \in Node, NEW s \in Node, NEW j \in TTL, q # s
       PROVE  A[q][j] \cap A[s][j] = {}
  <2> SUFFICES ASSUME NEW d, d \in A[q][j], d \in A[s][j] PROVE FALSE
    OBVIOUS
  <2>1. CASE d = e /\ j = c
    BY <1>8, <1>10, <2>1
  <2>2. CASE d # e \/ j # c
    BY <1>2, <1>10, <2>2 DEF Path
  <2> QED BY <2>1, <2>2
<1>11. ASSUME NEW q \in Node, NEW s \in Node, NEW j \in TTL, j > 1, NEW d \in A[q][j] \cap A[s][j - 1]
       PROVE  \E tb \in Tables : s = tb[q][Dst[d.t]]
  <2>1. j - 1 \in TTL /\ j - 1 # j
    BY <1>11, TransferAssumption DEF TTL
  <2>2. CASE d \in M[q][j] /\ d \in M[s][j - 1]
    BY <1>11, <2>1, <2>2 DEF Path
  <2>3. CASE d \notin M[s][j - 1]
    <3>1. s = r /\ j - 1 = c /\ d = e /\ d \in M[q][j]
      BY <1>2, <1>11, <2>1, <2>3
    <3>2. j = p.ttl
      BY <1>1, <1>11, <3>1, RankFacts DEF TTL
    <3> QED BY <1>4, <1>5, <3>1, <3>2
  <2>4. CASE d \notin M[q][j]
    <3>1. j = c /\ d = e /\ d \in M[s][j - 1]
      BY <1>2, <1>11, <2>1, <2>4
    <3>2. rank(j - 1) = j - 2
      BY <1>11, <2>1, RankFacts DEF TTL
    <3> QED BY <1>1, <1>5, <1>11, <2>1, <3>1, <3>2 DEF TTL
  <2> QED BY <2>2, <2>3, <2>4
<1> QED BY <1>9, <1>10, <1>11 DEF Path, A, e, c, f

(* The forwarding router hands the packet to its next hop. *)
LEMMA HandOver ==
  ASSUME NEW M, NEW r \in Node, NEW p, Carried(M, r, p), NEW table \in Tables
  PROVE  Queued(M, table[r][Dst[p.t]], p)
BY DEF Carried, Queued

-----------------------------------------------------------------------------
(* The inductive invariant: where a packet is tells what has been noted of *)
(* it. TraceIsPath alone does not relate notes to packets on their way.    *)
Members(s) == {s[i] : i \in 1..Len(s)}

TraceInv ==
  /\ \A r \in Node : \A p \in Members(queue[r]) : Queued(Notes, r, p)
  /\ \A r \in Node : proc[r] = "forwarding" =>
       \A p \in Members(outgoing[r]) : Carried(Notes, r, p)
  /\ \A r \in Node : proc[r] = "sending" =>
       \A p \in Members(outgoing[r]) : Unnoted(Notes, data(p))
  /\ \A r \in Node, k \in TTL : \A d \in Notes[r][k] : d.t \in started
  /\ \A r \in Node : \E table \in Tables : next_hops[r] = table[r]
  /\ Path(Notes)

LEMMA MembersTail ==
  ASSUME NEW s \in Seq(Packet), s # <<>>, Distinct(s)
  PROVE  /\ Head(s) \in Members(s)
         /\ \A p \in Members(Tail(s)) : p \in Members(s) /\ data(p) # data(Head(s))
<1>1. \A p \in Members(Tail(s)) : data(p) \in Payloads(Tail(s))
  BY DEF Members, Payloads
<1>2. \A p \in Members(Tail(s)) : data(p) # data(Head(s))
  BY <1>1, PayloadsOfTail
<1>3. /\ Len(s) \in Nat \ {0} /\ Head(s) = s[1] /\ Len(Tail(s)) = Len(s) - 1
      /\ \A i \in 1..Len(Tail(s)) : Tail(s)[i] = s[i + 1]
  BY TailFacts
<1>4. \A i \in 1..Len(Tail(s)) : i + 1 \in 1..Len(s)
  BY <1>3
<1> QED BY <1>2, <1>3, <1>4 DEF Members

LEMMA MembersAppend ==
  ASSUME NEW S, NEW s \in Seq(S), NEW p \in S
  PROVE  Members(Append(s, p)) = Members(s) \cup {p}
<1> DEFINE a == Append(s, p)
           n == Len(s)
<1>1. n \in Nat /\ Len(a) = n + 1 /\ a[n + 1] = p /\ \A i \in 1..n : a[i] = s[i]
  BY AppendFacts
<1> HIDE DEF a, n
<1>2. Members(a) = {a[i] : i \in 1..(n + 1)} /\ Members(s) = {s[i] : i \in 1..n}
  BY <1>1 DEF Members, n
<1>3. \A i : i \in 1..(n + 1) <=> i \in 1..n \/ i = n + 1
  BY <1>1
<1> QED BY <1>1, <1>2, <1>3 DEF a

(* A packet that is somewhere holds the payload of that place. *)
LEMMA PayloadOfPacket ==
  ASSUME NEW s, NEW p \in Members(s)
  PROVE  data(p) \in Payloads(s)
BY DEF Members, Payloads

(* Range, of the community modules, over the list of one ttl. *)
LEMMA NotedIs ==
  ASSUME NEW m, TraceType(m), NEW k \in TTL
  PROVE  /\ Seqs(m, k) \in Seq(Payload)
         /\ Ext!Range(Seqs(m, k)) = {Seqs(m, k)[i] : i \in 1..Len(Seqs(m, k))}
<1>1. Seqs(m, k) \in Seq(Payload)
  BY DEF Seqs, TraceType
<1> QED BY <1>1 DEF Ext!Range

LEMMA PushedAdds ==
  ASSUME NEW m, TraceType(m), NEW k \in TTL, NEW d \in Payload, NEW j \in TTL
  PROVE  Ext!Range(Seqs(Pushed(m, k, d), j)) =
           IF j = k THEN Ext!Range(Seqs(m, j)) \cup {d} ELSE Ext!Range(Seqs(m, j))
<1> DEFINE s == Seqs(m, k)
           a == Append(s, d)
<1>1. s \in Seq(Payload) /\ Ext!Range(s) = {s[i] : i \in 1..Len(s)}
  BY NotedIs
<1>2. CASE j = k
  <2>1. Seqs(Pushed(m, k, d), j) = a
    BY <1>2 DEF Seqs, Pushed
  <2>2. /\ Len(s) \in Nat /\ Len(a) = Len(s) + 1 /\ a[Len(s) + 1] = d
        /\ \A i \in 1..Len(s) : a[i] = s[i]
    BY <1>1, AppendFacts
  <2>3. Ext!Range(a) = {a[i] : i \in 1..Len(a)}
    <3>1. a \in Seq(Payload)
      BY <1>1, AppendFacts
    <3> QED BY <3>1 DEF Ext!Range
  <2> HIDE DEF a, s
  <2>4. \A i : i \in 1..Len(a) <=> i \in 1..Len(s) \/ i = Len(s) + 1
    BY <2>2
  <2>5. {a[i] : i \in 1..Len(a)} = {s[i] : i \in 1..Len(s)} \cup {d}
    BY <2>2, <2>4
  <2> QED BY <1>1, <1>2, <2>1, <2>3, <2>5 DEF s
<1>3. CASE j # k
  <2>1. Seqs(Pushed(m, k, d), j) = Seqs(m, j)
    BY <1>3 DEF Seqs, Pushed
  <2> QED BY <1>3, <2>1
<1> QED BY <1>2, <1>3

LEMMA NotesType == DataTypeOK => Notes \in NoteSets
<1> SUFFICES ASSUME DataTypeOK PROVE Notes \in NoteSets
  OBVIOUS
<1>1. ASSUME NEW r \in Node, NEW k \in TTL PROVE Noted(r, k) \in SUBSET Payload
  <2> DEFINE s == Seqs(ttl_seq_mapping[r], k)
  <2>1. TraceType(ttl_seq_mapping[r])
    BY DEF DataTypeOK, TraceType
  <2>2. s \in Seq(Payload) /\ Noted(r, k) = {s[i] : i \in 1..Len(s)}
    BY <2>1, NotedIs DEF Noted
  <2> HIDE DEF s
  <2> QED BY <2>2
<1> QED BY <1>1 DEF Notes, NoteSets

(* What a note does. *)
LEMMA NoteAdds ==
  ASSUME DataTypeOK, NEW r \in Node, NEW p, NEW k \in TTL, data(p) \in Payload, Note(r, p, k)
  PROVE  Notes' = Added(Notes, r, k, data(p))
<1>1. \A q \in Node : TraceType(ttl_seq_mapping[q])
  BY DEF DataTypeOK, TraceType
<1>2. ttl_seq_mapping' = [ttl_seq_mapping EXCEPT ![r] = Pushed(@, k, data(p))]
      /\ DOMAIN ttl_seq_mapping = Node
  BY DEF Note, DataTypeOK
<1>3. \A j \in TTL : Noted(r, j)' = IF j = k THEN Noted(r, j) \cup {data(p)} ELSE Noted(r, j)
  <2>1. ttl_seq_mapping'[r] = Pushed(ttl_seq_mapping[r], k, data(p))
    BY <1>2
  <2> QED BY <1>1, <2>1, PushedAdds DEF Noted
<1>4. \A q \in Node \ {r}, j \in TTL : Noted(q, j)' = Noted(q, j)
  <2>1. \A q \in Node \ {r} : ttl_seq_mapping'[q] = ttl_seq_mapping[q]
    BY <1>2
  <2> QED BY <2>1 DEF Noted
<1>5. Notes' = [q \in Node |-> [j \in TTL |-> Noted(q, j)']]
  BY DEF Notes
<1>6. Added(Notes, r, k, data(p)) =
        [q \in Node |-> [j \in TTL |->
          IF q = r /\ j = k THEN Noted(q, j) \cup {data(p)} ELSE Noted(q, j)]]
  BY DEF Added, Notes
<1> QED BY <1>3, <1>4, <1>5, <1>6

LEMMA PathOfNotes == DataTypeOK /\ Path(Notes) => TraceIsPath
<1> SUFFICES ASSUME Path(Notes) PROVE TraceIsPath
  OBVIOUS
<1>1. \A r \in Node, k \in TTL : Notes[r][k] = Noted(r, k)
  BY DEF Notes
<1>2. \A k \in TTL : k > 1 => k - 1 \in TTL
  BY TransferAssumption DEF TTL
<1> QED BY <1>1, <1>2 DEF Path, TraceIsPath

LEMMA TraceInit == Init => TraceInv
<1> SUFFICES ASSUME Init PROVE TraceInv
  OBVIOUS
<1>1. /\ \A r \in Node : queue[r] = <<>> /\ outgoing[r] = <<>> /\ proc[r] = "idle"
      /\ \A r \in Node : ttl_seq_mapping[r] = <<>>
      /\ next_hops \in Tables
  BY DEF Init
<1>2. Members(<<>>) = {}
  BY DEF Members
<1>3. Ext!Range(<<>>) = {}
  BY DEF Ext!Range
<1>4. \A r \in Node, k \in TTL : Notes[r][k] = {}
  BY <1>1, <1>3 DEF Notes, Noted, Seqs
<1>5. Path(Notes)
  <2>1. \A k \in TTL : k > 1 => k - 1 \in TTL
    BY TransferAssumption DEF TTL
  <2> QED BY <1>4, <2>1 DEF Path
<1> QED BY <1>1, <1>2, <1>4, <1>5 DEF TraceInv

(* The payload that a handler sends next is nowhere else. *)
LEMMA SentIsNowhereElse ==
  ASSUME DataTypeOK, Apart, NEW r \in Node, outgoing[r] # <<>>
  PROVE  /\ Head(outgoing[r]) \in Members(outgoing[r])
         /\ data(Head(outgoing[r])).t \in started
         /\ \A q \in Node : \A x \in Members(queue[q]) : data(x) # data(Head(outgoing[r]))
         /\ \A q \in Node \ {r} : \A x \in Members(outgoing[q]) :
              data(x) # data(Head(outgoing[r]))
         /\ \A x \in Members(Tail(outgoing[r])) :
              x \in Members(outgoing[r]) /\ data(x) # data(Head(outgoing[r]))
<1>1. outgoing[r] \in Seq(Packet) /\ Distinct(outgoing[r])
  BY DEF DataTypeOK, Apart
<1>2. Head(outgoing[r]) \in Members(outgoing[r])
  BY <1>1, MembersTail
<1>3. data(Head(outgoing[r])) \in Held[<<"outgoing", r>>] /\ <<"outgoing", r>> \in Place
  BY <1>2, PayloadOfPacket, HeldAt
<1>4. data(Head(outgoing[r])).t \in started
  BY <1>3 DEF Apart
<1>5. ASSUME NEW q \in Node, NEW x \in Members(queue[q]) PROVE data(x) # data(Head(outgoing[r]))
  <2>1. data(x) \in Payloads(queue[q])
    BY <1>5, PayloadOfPacket
  <2>2. Held[<<"queue", q>>] = Payloads(queue[q]) /\ <<"queue", q>> \in Place
    BY <1>5, HeldAt
  <2>3. <<"queue", q>> # <<"outgoing", r>>
    BY <1>5
  <2> QED BY <1>3, <2>1, <2>2, <2>3 DEF Apart
<1>6. ASSUME NEW q \in Node \ {r}, NEW x \in Members(outgoing[q])
      PROVE  data(x) # data(Head(outgoing[r]))
  <2>1. data(x) \in Payloads(outgoing[q])
    BY <1>6, PayloadOfPacket
  <2>2. Held[<<"outgoing", q>>] = Payloads(outgoing[q]) /\ <<"outgoing", q>> \in Place
    BY <1>6, HeldAt
  <2>3. <<"outgoing", q>> # <<"outgoing", r>>
    BY <1>6
  <2> QED BY <1>3, <2>1, <2>2, <2>3 DEF Apart
<1> QED BY <1>1, <1>2, <1>4, <1>5, <1>6, MembersTail

(* Nor is the one that it reads. *)
LEMMA ReadIsNowhereElse ==
  ASSUME DataTypeOK, Apart, NEW r \in Node, queue[r] # <<>>
  PROVE  /\ Head(queue[r]) \in Members(queue[r])
         /\ data(Head(queue[r])).t \in started
         /\ \A q \in Node : \A x \in Members(outgoing[q]) : data(x) # data(Head(queue[r]))
         /\ \A q \in Node \ {r} : \A x \in Members(queue[q]) :
              data(x) # data(Head(queue[r]))
         /\ \A x \in Members(Tail(queue[r])) :
              x \in Members(queue[r]) /\ data(x) # data(Head(queue[r]))
<1>1. queue[r] \in Seq(Packet) /\ Distinct(queue[r])
  BY DEF DataTypeOK, Apart
<1>2. Head(queue[r]) \in Members(queue[r])
  BY <1>1, MembersTail
<1>3. data(Head(queue[r])) \in Held[<<"queue", r>>] /\ <<"queue", r>> \in Place
  BY <1>2, PayloadOfPacket, HeldAt
<1>4. data(Head(queue[r])).t \in started
  BY <1>3 DEF Apart
<1>5. ASSUME NEW q \in Node, NEW x \in Members(outgoing[q]) PROVE data(x) # data(Head(queue[r]))
  <2>1. data(x) \in Payloads(outgoing[q])
    BY <1>5, PayloadOfPacket
  <2>2. Held[<<"outgoing", q>>] = Payloads(outgoing[q]) /\ <<"outgoing", q>> \in Place
    BY <1>5, HeldAt
  <2>3. <<"outgoing", q>> # <<"queue", r>>
    BY <1>5
  <2> QED BY <1>3, <2>1, <2>2, <2>3 DEF Apart
<1>6. ASSUME NEW q \in Node \ {r}, NEW x \in Members(queue[q])
      PROVE  data(x) # data(Head(queue[r]))
  <2>1. data(x) \in Payloads(queue[q])
    BY <1>6, PayloadOfPacket
  <2>2. Held[<<"queue", q>>] = Payloads(queue[q]) /\ <<"queue", q>> \in Place
    BY <1>6, HeldAt
  <2>3. <<"queue", q>> # <<"queue", r>>
    BY <1>6
  <2> QED BY <1>3, <2>1, <2>2, <2>3 DEF Apart
<1> QED BY <1>1, <1>2, <1>4, <1>5, <1>6, MembersTail

LEMMA TraceNext == DataInv /\ Apart /\ TraceInv /\ [Next]_vars => TraceInv'
<1> SUFFICES ASSUME DataInv, Apart, TraceInv, [Next]_vars PROVE TraceInv'
  OBVIOUS
<1>1. /\ outgoing \in [Node -> Seq(Packet)] /\ queue \in [Node -> Seq(Packet)]
      /\ proc \in [Node -> {"idle", "sending", "forwarding", "down"}]
      /\ next_hops \in [Node -> [Node -> Node]]
      /\ DataTypeOK /\ \A r \in Node : Busy(r) => outgoing[r] # <<>>
  BY DEF DataInv, DataTypeOK, BusyHasPackets
<1>2. /\ \A r \in Node : \A p \in Members(queue[r]) : Queued(Notes, r, p)
      /\ \A r \in Node : proc[r] = "forwarding" =>
           \A p \in Members(outgoing[r]) : Carried(Notes, r, p)
      /\ \A r \in Node : proc[r] = "sending" =>
           \A p \in Members(outgoing[r]) : Unnoted(Notes, data(p))
      /\ \A r \in Node, k \in TTL : \A d \in Notes[r][k] : d.t \in started
      /\ \A r \in Node : \E table \in Tables : next_hops[r] = table[r]
      /\ Path(Notes)
  BY DEF TraceInv
<1>3. Notes \in NoteSets
  BY <1>1, NotesType
<1>4. Members(<<>>) = {}
  BY DEF Members
<1>5. ASSUME ttl_seq_mapping' = ttl_seq_mapping PROVE Notes' = Notes
  BY <1>5 DEF Notes, Noted
<1>6. ASSUME NEW t \in Transfer, SendFile(t) PROVE TraceInv'
  <2> DEFINE r == Src[t]
             f == [i \in 1..Length[t] |-> [t |-> t, seq |-> i, ttl |-> init_TTL[t]]]
  <2>1. r \in Node /\ Len(f) = Length[t]
    BY FilePackets
  <2>2. /\ outgoing' = [outgoing EXCEPT ![r] = f] /\ proc' = [proc EXCEPT ![r] = "sending"]
        /\ t \notin started /\ started' = started \cup {t}
        /\ queue' = queue /\ next_hops' = next_hops /\ ttl_seq_mapping' = ttl_seq_mapping
    BY <1>6 DEF SendFile
  <2>7. \A i \in 1..Len(f) : data(f[i]).t = t
    BY <2>1 DEF data
  <2> HIDE DEF f, r
  <2>3. \A p \in Members(f) : data(p).t = t
    BY <2>7 DEF Members
  <2>4. \A p \in Members(f) : Unnoted(Notes, data(p))
    BY <1>2, <2>2, <2>3 DEF Unnoted
  <2>5. Notes' = Notes
    BY <1>5, <2>2
  <2>6. \A q \in Node : \/ q = r /\ proc'[q] = "sending" /\ outgoing'[q] = f
                        \/ proc'[q] = proc[q] /\ outgoing'[q] = outgoing[q]
    BY <1>1, <2>1, <2>2
  <2> QED BY <1>2, <2>2, <2>4, <2>5, <2>6 DEF TraceInv
<1>7. ASSUME NEW r \in Node, Transmit(r) PROVE TraceInv'
  <2> DEFINE p == Head(outgoing[r])
             e == data(p)
             h == Hop(r)
  <2>1. /\ queue' = [queue EXCEPT ![h] = Append(@, p)]
        /\ outgoing' = [outgoing EXCEPT ![r] = Tail(@)]
        /\ proc' = [proc EXCEPT ![r] = IF Len(outgoing[r]) = 1 THEN "idle" ELSE @]
        /\ UNCHANGED <<next_hops, started>>
        /\ outgoing[r] # <<>> /\ outgoing[r] \in Seq(Packet) /\ Busy(r)
    BY <1>1, <1>7 DEF Transmit
  <2>2. p \in Packet /\ p.t \in Transfer /\ e \in Payload /\ p.ttl \in TTL /\ e.t = p.t
    BY <2>1, HeadPacket DEF Packet, data
  <2>3. PICK table \in Tables : next_hops[r] = table[r]
    BY <1>2
  <2>4. h = table[r][Dst[p.t]] /\ h \in Node
    <3>1. h = next_hops[r][Dst[p.t]] /\ Dst[p.t] \in Node
      BY <2>1, HeadPacket DEF Hop
    <3> QED BY <1>1, <2>3, <3>1
  <2>5. /\ p \in Members(outgoing[r]) /\ e.t \in started
        /\ \A q \in Node : \A x \in Members(queue[q]) : data(x) # e
        /\ \A q \in Node \ {r} : \A x \in Members(outgoing[q]) : data(x) # e
        /\ \A x \in Members(Tail(outgoing[r])) : x \in Members(outgoing[r]) /\ data(x) # e
    BY <1>1, <2>1, SentIsNowhereElse
  <2>6. Members(Append(queue[h], p)) = Members(queue[h]) \cup {p}
    <3>1. queue[h] \in Seq(Packet)
      BY <1>1, <2>4
    <3> HIDE DEF h, p
    <3> QED BY <2>2, <3>1, MembersAppend
  <2>7. /\ Queued(Notes', h, p) /\ Path(Notes')
        /\ \A q \in Node, k \in TTL : \A d \in Notes'[q][k] : d.t \in started
        /\ \A x : data(x) # e =>
             /\ \A q \in Node : Queued(Notes, q, x) => Queued(Notes', q, x)
             /\ \A q \in Node : Carried(Notes, q, x) => Carried(Notes', q, x)
             /\ Unnoted(Notes, data(x)) => Unnoted(Notes', data(x))
    <3>1. CASE proc[r] = "sending"
      <4>1. Note(r, p, p.ttl)
        BY <1>7, <3>1 DEF Transmit
      <4>2. Notes' = Added(Notes, r, p.ttl, e)
        BY <1>1, <2>2, <4>1, NoteAdds
      <4>3. Unnoted(Notes, e)
        BY <1>2, <2>5, <3>1
      <4> HIDE DEF p, e, h
      <4>4. Queued(Notes', h, p) /\ Path(Notes')
        BY <1>2, <1>3, <2>2, <2>4, <4>2, <4>3, FirstNote DEF e
      <4>5. \A q \in Node, k \in TTL : \A d \in Notes'[q][k] : d.t \in started
        BY <1>2, <1>3, <2>2, <2>5, <4>2, AddedFacts
      <4>6. ASSUME NEW x, data(x) # e
            PROVE  /\ \A q \in Node : Queued(Notes, q, x) => Queued(Notes', q, x)
                   /\ \A q \in Node : Carried(Notes, q, x) => Carried(Notes', q, x)
                   /\ Unnoted(Notes, data(x)) => Unnoted(Notes', data(x))
        BY <1>3, <2>2, <4>2, <4>6, OthersStay
      <4> QED BY <4>4, <4>5, <4>6
    <3>2. CASE proc[r] = "forwarding"
      <4>1. Notes' = Notes
        BY <1>5, <1>7, <3>2 DEF Transmit
      <4>2. Carried(Notes, r, p)
        BY <1>2, <2>5, <3>2
      <4>3. Queued(Notes, h, p)
        BY <2>4, <4>2, HandOver
      <4> HIDE DEF p, e, h
      <4> QED BY <1>2, <4>1, <4>3
    <3> QED BY <2>1, <3>1, <3>2 DEF Busy
  <2> HIDE DEF p, e, h
  <2>8. ASSUME NEW q \in Node, NEW x \in Members(queue'[q]) PROVE Queued(Notes', q, x)
    <3>1. x \in Members(queue[q]) \/ (q = h /\ x = p)
      BY <1>1, <2>1, <2>4, <2>6, <2>8
    <3> QED BY <1>2, <2>5, <2>7, <3>1
  <2>9. ASSUME NEW q \in Node, NEW x \in Members(outgoing'[q])
        PROVE  x \in Members(outgoing[q]) /\ data(x) # e
    BY <1>1, <2>1, <2>5, <2>9
  <2>10. \A q \in Node : proc'[q] \in {"forwarding", "sending"} => proc'[q] = proc[q]
    BY <1>1, <2>1
  <2>11. /\ \A q \in Node : proc'[q] = "forwarding" =>
              \A x \in Members(outgoing'[q]) : Carried(Notes', q, x)
         /\ \A q \in Node : proc'[q] = "sending" =>
              \A x \in Members(outgoing'[q]) : Unnoted(Notes', data(x))
    BY <1>2, <2>7, <2>9, <2>10
  <2> QED BY <1>2, <2>1, <2>7, <2>8, <2>11 DEF TraceInv
<1>8. ASSUME NEW r \in Node, ConnectFails(r) \/ Drop(r) PROVE TraceInv'
  <2>1. /\ queue' = [queue EXCEPT ![r] = <<>>] /\ proc' = [proc EXCEPT ![r] = "down"]
        /\ UNCHANGED <<outgoing, ttl_seq_mapping, next_hops, started>>
    BY <1>8 DEF ConnectFails, Drop, End
  <2>2. Notes' = Notes
    BY <1>5, <2>1
  <2>3. /\ \A q \in Node : queue'[q] = queue[q] \/ queue'[q] = <<>>
        /\ \A q \in Node : proc'[q] \in {"forwarding", "sending"} => proc'[q] = proc[q]
    BY <1>1, <2>1
  <2> QED BY <1>2, <1>4, <2>1, <2>2, <2>3 DEF TraceInv
<1>9. ASSUME NEW r \in Node, Keep(r) \/ Forward(r) PROVE TraceInv'
  <2> DEFINE p == Head(queue[r])
             e == data(p)
             c == post_ttl(p)
             f == [p EXCEPT !.ttl = c]
  <2>1. /\ queue' = [queue EXCEPT ![r] = Tail(@)] /\ Note(r, p, c) /\ c # 0
        /\ UNCHANGED <<next_hops, started>>
        /\ queue[r] # <<>> /\ queue[r] \in Seq(Packet)
    BY <1>1, <1>9 DEF Keep, Forward, Accepts
  <2>2. p \in Packet /\ e \in Payload /\ c \in TTL /\ data(f) = e
    BY <2>1, HeadPacket DEF Packet, data
  <2>3. /\ p \in Members(queue[r]) /\ e.t \in started
        /\ \A q \in Node : \A x \in Members(outgoing[q]) : data(x) # e
        /\ \A q \in Node \ {r} : \A x \in Members(queue[q]) : data(x) # e
        /\ \A x \in Members(Tail(queue[r])) : x \in Members(queue[r]) /\ data(x) # e
    BY <1>1, <2>1, ReadIsNowhereElse
  <2>4. Notes' = Added(Notes, r, c, e)
    BY <1>1, <2>1, <2>2, NoteAdds
  <2>5. Path(Notes') /\ Carried(Notes', r, f)
    BY <1>2, <1>3, <2>1, <2>2, <2>3, <2>4, NextNote
  <2>6. \/ outgoing' = outgoing /\ proc' = proc
        \/ outgoing' = [outgoing EXCEPT ![r] = <<f>>] /\ proc' = [proc EXCEPT ![r] = "forwarding"]
    BY <1>9 DEF Keep, Forward
  <2> HIDE DEF p, e, c, f
  <2>7. \A q \in Node, k \in TTL : \A d \in Notes'[q][k] : d.t \in started
    BY <1>2, <1>3, <2>2, <2>3, <2>4, AddedFacts
  <2>8. ASSUME NEW x, data(x) # e
        PROVE  /\ \A q \in Node : Queued(Notes, q, x) => Queued(Notes', q, x)
               /\ \A q \in Node : Carried(Notes, q, x) => Carried(Notes', q, x)
               /\ Unnoted(Notes, data(x)) => Unnoted(Notes', data(x))
    BY <1>3, <2>2, <2>4, <2>8, OthersStay
  <2>9. ASSUME NEW q \in Node, NEW x \in Members(queue'[q]) PROVE Queued(Notes', q, x)
    <3>1. x \in Members(queue[q]) /\ data(x) # e
      BY <1>1, <2>1, <2>3, <2>9
    <3> QED BY <1>2, <2>8, <3>1
  <2>10. Members(<<f>>) = {f}
    BY DEF Members
  <2>11. ASSUME NEW q \in Node
         PROVE  \/ outgoing'[q] = outgoing[q] /\ proc'[q] = proc[q]
                \/ q = r /\ outgoing'[q] = <<f>> /\ proc'[q] = "forwarding"
    BY <1>1, <2>6
  <2>12. /\ \A q \in Node : proc'[q] = "forwarding" =>
              \A x \in Members(outgoing'[q]) : Carried(Notes', q, x)
         /\ \A q \in Node : proc'[q] = "sending" =>
              \A x \in Members(outgoing'[q]) : Unnoted(Notes', data(x))
    BY <1>2, <2>3, <2>5, <2>8, <2>10, <2>11
  <2> QED BY <1>2, <2>1, <2>5, <2>7, <2>9, <2>12 DEF TraceInv
<1>10. ASSUME NEW r \in Node, Reroute(r) PROVE TraceInv'
  <2>1. PICK table \in Tables : next_hops' = [next_hops EXCEPT ![r] = table[r]]
    BY <1>10 DEF Reroute
  <2>2. \A q \in Node : \E tb \in Tables : next_hops'[q] = tb[q]
    BY <1>1, <1>2, <2>1
  <2>3. Notes' = Notes /\ UNCHANGED <<proc, outgoing, queue, started>>
    BY <1>5, <1>10 DEF Reroute
  <2> QED BY <1>2, <2>2, <2>3 DEF TraceInv
<1>11. ASSUME NEW r \in Node, StatsEarly(r) PROVE TraceInv'
  <2>1. PICK k \in TTL : ttl_seq_mapping' = [ttl_seq_mapping EXCEPT ![r] = [j \in {k} |-> <<>>]]
    BY <1>11 DEF StatsEarly
  <2>2. DOMAIN ttl_seq_mapping = Node /\ ttl_seq_mapping[r] = <<>>
    BY <1>1, <1>11 DEF StatsEarly, DataTypeOK
  <2>3. \A q \in Node, j \in TTL : Seqs(ttl_seq_mapping'[q], j) = Seqs(ttl_seq_mapping[q], j)
    BY <2>1, <2>2 DEF Seqs
  <2>4. Notes' = Notes
    BY <2>3 DEF Notes, Noted
  <2>5. UNCHANGED <<proc, outgoing, queue, started, next_hops>>
    BY <1>11 DEF StatsEarly
  <2> QED BY <1>2, <2>4, <2>5 DEF TraceInv
<1>12. CASE UNCHANGED vars
  BY <1>2, <1>5, <1>12 DEF vars, TraceInv
<1> QED BY <1>6, <1>7, <1>8, <1>9, <1>10, <1>11, <1>12 DEF Next

(* For any routes and changes of routes, loops included: no two routers    *)
(* note a packet under one ttl, and who notes the next smaller one is a    *)
(* next hop of the router before.                                          *)
THEOREM TracesArePaths == Spec => []TraceIsPath
<1>1. DataInv /\ TraceInv => TraceIsPath
  BY PathOfNotes DEF DataInv, TraceInv
<1> QED BY <1>1, DataInit, DataNext, ApartInit, ApartNext, TraceInit, TraceNext, PTL DEF Spec
=============================================================================
