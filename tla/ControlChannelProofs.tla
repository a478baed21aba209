------------------------ MODULE ControlChannelProofs ------------------------
(***************************************************************************)
(* Proofs about ControlChannel, for every set of descriptor numbers that   *)
(* holds the sockets and the connections allowed at once.                  *)
(***************************************************************************)
EXTENDS ControlChannel, FiniteSetTheorems, WellFoundedInduction, TLAPS

-----------------------------------------------------------------------------
(* The least free descriptor.                                              *)

(* A set of natural numbers that is not empty has its Min. *)
LEMMA MinOfSet ==
  ASSUME NEW S \in SUBSET Nat, S # {}
  PROVE  Min(S) \in S /\ \A y \in S : Min(S) <= y
<1> DEFINE R == OpToRel(<, Nat)
<1>1. IsWellFoundedOn(R, Nat)
  BY NatLessThanWellFounded
<1>2. \A x, y \in Nat : <<y, x>> \notin R => x <= y
  BY DEF OpToRel
<1> HIDE DEF R
<1>3. \E x \in S : \A y \in S : <<y, x>> \notin R
  BY <1>1, WFMin
<1>4. \E x \in S : \A y \in S : x <= y
  BY <1>2, <1>3
<1> QED BY <1>4 DEF Min

(* Fewer open descriptors than numbers: one is free. *)
LEMMA SomeFree ==
  ASSUME NEW S \in SUBSET Fd, Cardinality(S) < Cardinality(Fd)
  PROVE  Min(Fd \ S) \in Fd \ S
<1>1. S # Fd
  BY FS_CardinalityType, DescriptorAssumption
<1>2. Fd \ S # {} /\ Fd \ S \subseteq Nat
  BY <1>1, DescriptorAssumption
<1> QED BY <1>2, MinOfSet

-----------------------------------------------------------------------------
(* The inductive invariant.                                                *)

(* INIT opens both sockets or none, under numbers of their own. *)
SocketsApart ==
  \/ router_socket = 0 /\ data_socket = 0
  \/ /\ router_socket \in Fd \ {control_socket} /\ data_socket \in Fd \ {control_socket}
     /\ router_socket # data_socket

(* The pass serves what is open, and the control socket only for a call,   *)
(* which leaves room for its connection.                                   *)
PassInv ==
  /\ watch_list \subseteq open
  /\ control_socket \in watch_list => calling
Room ==
  /\ Cardinality(Connections) <= MaxConns
  /\ calling => Cardinality(Connections) < MaxConns

Lists ==
  /\ master_list = open /\ control_conn_list = Connections
  /\ control_socket \in open /\ Sockets \subseteq open

ChannelInv == ChannelTypeOK /\ SocketsApart /\ PassInv /\ Room /\ Lists

LEMMA FdFacts ==
  /\ 0 \notin Fd /\ Fd \subseteq Nat /\ control_socket \in Fd /\ IsFiniteSet(Fd)
  /\ MaxConns \in Nat /\ Cardinality(Fd) \in Nat /\ Cardinality(Fd) >= MaxConns + 3
BY DescriptorAssumption, FS_CardinalityType

(* Besides the connections only three descriptors can be open. *)
LEMMA OpenCount ==
  ASSUME ChannelInv
  PROVE  /\ IsFiniteSet(Connections) /\ Cardinality(Connections) \in Nat
         /\ Cardinality(open) \in Nat
         /\ Cardinality(open) <= Cardinality(Connections) + 3
         /\ router_socket = 0 => Cardinality(open) <= Cardinality(Connections) + 1
<1>1. IsFiniteSet(Connections) /\ IsFiniteSet(open)
  BY FdFacts, FS_Subset DEF ChannelInv, ChannelTypeOK, Connections
<1> DEFINE A == Connections \cup {control_socket}
           B == A \cup {router_socket}
           C == B \cup {data_socket}
<1>2. Cardinality(Connections) \in Nat /\ Cardinality(open) \in Nat
  BY <1>1, FS_CardinalityType
<1>3. /\ IsFiniteSet(A) /\ Cardinality(A) \in Nat
      /\ Cardinality(A) <= Cardinality(Connections) + 1
  BY <1>1, <1>2, FS_AddElement
<1>4. /\ IsFiniteSet(B) /\ Cardinality(B) \in Nat
      /\ Cardinality(B) <= Cardinality(A) + 1
  BY <1>3, FS_AddElement
<1>5. /\ IsFiniteSet(C) /\ Cardinality(C) \in Nat
      /\ Cardinality(C) <= Cardinality(B) + 1
  BY <1>4, FS_AddElement
<1>6. open \subseteq C
  BY DEF Connections, Sockets
<1>7. Cardinality(open) <= Cardinality(C)
  BY <1>5, <1>6, FS_Subset
<1>8. ASSUME router_socket = 0 PROVE Cardinality(open) <= Cardinality(A)
  <2>1. open \subseteq A
    BY <1>8, FdFacts DEF ChannelInv, SocketsApart, Connections, Sockets
  <2> QED BY <2>1, <1>3, FS_Subset
<1> QED BY <1>1, <1>2, <1>3, <1>4, <1>5, <1>7, <1>8

LEMMA ChannelInit == Init => ChannelInv
<1> SUFFICES ASSUME Init PROVE ChannelInv
  OBVIOUS
<1>1. Sockets = {} /\ Connections = {}
  BY DEF Init, Sockets, Connections
<1>2. Room
  BY <1>1, FS_EmptySet, FdFacts DEF Init, Room
<1> QED BY <1>1, <1>2, FdFacts
        DEF Init, ChannelInv, ChannelTypeOK, SocketsApart, PassInv, Lists

(* Steps that leave the descriptors alone. *)
LEMMA ChannelKept ==
  ASSUME ChannelInv, ChannelTypeOK',
         UNCHANGED <<open, master_list, control_conn_list, router_socket, data_socket, calling>>,
         watch_list' \subseteq watch_list
  PROVE  ChannelInv'
BY DEF ChannelInv, SocketsApart, PassInv, Room, Lists, Connections, Sockets

(* The descriptor that is served was found ready. *)
LEMMA ServedIsReady ==
  ASSUME ChannelTypeOK, NEW f, Serving(f)
  PROVE  f \in watch_list
BY FdFacts, MinOfSet DEF ChannelTypeOK, Serving

LEMMA ChannelNext == ChannelInv /\ [Next]_vars => ChannelInv'
<1> SUFFICES ASSUME ChannelInv, [Next]_vars PROVE ChannelInv'
  OBVIOUS
<1> USE DEF ChannelInv
<1>1. CASE Call
  BY <1>1, OpenCount DEF Call, process, ChannelTypeOK, SocketsApart, PassInv, Room, Lists, Connections, Sockets
<1>2. ASSUME NEW f \in Fd, Begin(f) \/ Finish(f) \/ Close(f) PROVE ChannelInv'
  <2>1. ChannelTypeOK'
    BY <1>2 DEF Begin, Finish, Close, process, ChannelTypeOK
  <2> QED BY <1>2, <2>1, ChannelKept DEF Begin, Finish, Close, process
<1>3. CASE Select
  <2>1. watch_list' \subseteq master_list
    BY <1>3 DEF Select
  <2>2. control_socket \in watch_list' => calling
    BY <1>3 DEF Select, Ready, Connections, SocketsApart, Sockets
  <2> QED BY <1>3, <2>1, <2>2
          DEF Select, ChannelTypeOK, SocketsApart, PassInv, Room, Lists, Connections, Sockets
<1>4. ASSUME NEW f \in Fd, NewControlConn(f) PROVE ChannelInv'
  <2>1. calling
    BY <1>4, ServedIsReady DEF NewControlConn, PassInv
  <2>2. LowestFree \in Fd \ open
    <3>1. Cardinality(open) < Cardinality(Fd)
      BY <2>1, OpenCount, FdFacts DEF Room
    <3> QED BY <3>1, SomeFree DEF LowestFree, ChannelTypeOK
  <2>3. Connections' = Connections \cup {LowestFree} /\ LowestFree \notin Connections
    BY <1>4, <2>2 DEF NewControlConn, Connections, Sockets, Lists
  <2>4. Room'
    <3>1. Cardinality(Connections)' = Cardinality(Connections) + 1
      <4> DEFINE conns == Connections
      <4>1. IsFiniteSet(conns)
        BY OpenCount
      <4> HIDE DEF conns
      <4>2. Cardinality(conns \cup {LowestFree}) =
              IF LowestFree \in conns THEN Cardinality(conns) ELSE Cardinality(conns) + 1
        BY <4>1, FS_AddElement
      <4> QED BY <2>3, <4>2 DEF conns
    <3>2. ~calling' /\ Cardinality(Connections) < MaxConns
      BY <1>4, <2>1 DEF NewControlConn, Room
    <3> QED BY <3>1, <3>2, OpenCount, FdFacts DEF Room
  <2>5. PassInv'
    BY <1>4 DEF NewControlConn, Served, PassInv, Serving
  <2>6. Lists'
    BY <1>4, <2>3 DEF NewControlConn, Lists, Sockets
  <2> QED BY <1>4, <2>2, <2>4, <2>5, <2>6 DEF NewControlConn, Served, ChannelTypeOK, SocketsApart
<1>5. ASSUME NEW f \in Fd, ServeSocket(f) \/ Command(f) PROVE ChannelInv'
  <2>1. ChannelTypeOK'
    BY <1>5 DEF ServeSocket, Command, Served, ChannelTypeOK
  <2> QED BY <1>5, <2>1, ChannelKept DEF ServeSocket, Command, Served
<1>6. ASSUME NEW f \in Fd, Initialize(f) PROVE ChannelInv'
  <2>1. CASE router_socket # 0
    <3>1. ChannelTypeOK'
      BY <1>6, <2>1 DEF Initialize, Served, ChannelTypeOK
    <3> QED BY <1>6, <2>1, <3>1, ChannelKept DEF Initialize, Served
  <2>2. CASE router_socket = 0
    <3> DEFINE a == LowestFree
               b == Min(Fd \ (open \cup {a}))
    <3>1. /\ router_socket' = a /\ data_socket' = b
          /\ open' = open \cup {a, b} /\ master_list' = master_list \cup {a, b}
      BY <1>6, <2>2 DEF Initialize
    <3>2. a \in Fd \ open
      BY <2>2, OpenCount, FdFacts, SomeFree DEF Room, ChannelTypeOK, LowestFree
    <3>3. b \in Fd \ (open \cup {a})
      <4>1. Cardinality(open \cup {a}) = Cardinality(open) + 1
        BY <3>2, FdFacts, FS_Subset, FS_AddElement DEF ChannelTypeOK
      <4>2. Cardinality(open \cup {a}) < Cardinality(Fd)
        BY <2>2, <4>1, OpenCount, FdFacts DEF Room
      <4>3. open \cup {a} \in SUBSET Fd
        BY <3>2 DEF ChannelTypeOK
      <4> QED BY <4>2, <4>3, SomeFree
    <3> HIDE DEF a, b
    <3>4. Sockets = {} /\ Sockets' = {a, b}
      BY <2>2, <3>1, <3>2, <3>3, FdFacts DEF Sockets, SocketsApart
    <3>5. Connections' = Connections
      BY <3>1, <3>2, <3>3, <3>4 DEF Connections
    <3>6. Room'
      BY <1>6, <3>5 DEF Room, Initialize
    <3>7. Lists'
      BY <1>6, <3>1, <3>4, <3>5 DEF Lists, Initialize
    <3>8. SocketsApart'
      BY <3>1, <3>2, <3>3 DEF SocketsApart, Lists
    <3>9. ChannelTypeOK' /\ PassInv'
      BY <1>6, <2>2, <3>1, <3>2, <3>3 DEF Initialize, Served, ChannelTypeOK, PassInv
    <3> QED BY <3>6, <3>7, <3>8, <3>9
  <2> QED BY <2>1, <2>2
<1>7. ASSUME NEW f \in Fd, RemoveControlConn(f) PROVE ChannelInv'
  <2>1. f \in Connections /\ f # control_socket /\ f \notin Sockets
    BY <1>7 DEF RemoveControlConn, isControl, Lists
  <2>2. Connections' = Connections \ {f}
    BY <1>7 DEF RemoveControlConn, Connections, Sockets
  <2>3. Room'
    <3>1. Cardinality(Connections)' = Cardinality(Connections) - 1
      <4> DEFINE conns == Connections
      <4>1. IsFiniteSet(conns)
        BY OpenCount
      <4> HIDE DEF conns
      <4>2. Cardinality(conns \ {f}) =
              IF f \in conns THEN Cardinality(conns) - 1 ELSE Cardinality(conns)
        BY <4>1, FS_RemoveElement
      <4> QED BY <2>1, <2>2, <4>2 DEF conns
    <3>2. calling' = calling
      BY <1>7 DEF RemoveControlConn
    <3> QED BY <3>1, <3>2, OpenCount, FdFacts DEF Room
  <2>4. Lists'
    BY <1>7, <2>1, <2>2 DEF RemoveControlConn, Lists, Sockets
  <2> QED BY <1>7, <2>3, <2>4
          DEF RemoveControlConn, Served, ChannelTypeOK, SocketsApart, PassInv
<1>8. CASE EndPass
  <2>1. ChannelTypeOK'
    BY <1>8 DEF EndPass, ChannelTypeOK
  <2> QED BY <1>8, <2>1, ChannelKept DEF EndPass
<1>9. CASE UNCHANGED vars
  <2>1. ChannelTypeOK'
    BY <1>9 DEF vars, process, ChannelTypeOK
  <2> QED BY <1>9, <2>1, ChannelKept DEF vars, process
<1> QED BY <1>1, <1>2, <1>3, <1>4, <1>5, <1>6, <1>7, <1>8, <1>9 DEF Next, Serve

(* The variables of the channel keep their types.                          *)
THEOREM ChannelTypeCorrect == Spec => []ChannelTypeOK
<1>1. ChannelInv => ChannelTypeOK
  BY DEF ChannelInv
<1> QED BY <1>1, ChannelInit, ChannelNext, PTL DEF Spec

(* What the loop selects on is what is open, and every open descriptor has *)
(* exactly one role.                                                       *)
THEOREM ListsAreExact == Spec => []MasterListIsExact
<1>1. ChannelInv => MasterListIsExact
  <2> SUFFICES ASSUME ChannelInv, router_socket # 0
               PROVE  Cardinality(Sockets) = 2
    BY DEF ChannelInv, Lists, MasterListIsExact
  <2>1. Sockets = {router_socket} \cup {data_socket} /\ data_socket \notin {router_socket}
    BY FdFacts DEF ChannelInv, SocketsApart, Sockets
  <2>2. IsFiniteSet({router_socket}) /\ Cardinality({router_socket}) = 1
    BY FS_Singleton
  <2>3. Cardinality({router_socket} \cup {data_socket}) =
          IF data_socket \in {router_socket} THEN 1 ELSE 1 + 1
    BY <2>2, FS_AddElement
  <2> QED BY <2>1, <2>3
<1> QED BY <1>1, ChannelInit, ChannelNext, PTL DEF Spec

(* ERROR("Unknown socket index") is never reached.                         *)
THEOREM SocketsAreKnown == Spec => []NoUnknownSocket
<1>1. ChannelInv => NoUnknownSocket
  BY DEF ChannelInv, PassInv, Lists, Connections, NoUnknownSocket
<1> QED BY <1>1, ChannelInit, ChannelNext, PTL DEF Spec
=============================================================================
