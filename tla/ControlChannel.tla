--------------------------- MODULE ControlChannel ---------------------------
(***************************************************************************)
(* The descriptors of one router. main_loop selects on master_list and     *)
(* serves the ready ones in ascending order: the listening control socket, *)
(* the router and data sockets that INIT opens, and the connections of     *)
(* controllers, each of which carries commands one after another. The      *)
(* kernel reuses the number of a closed descriptor.                        *)
(***************************************************************************)
EXTENDS Naturals, FiniteSets, FiniteSetsExt

CONSTANTS
  Fd,              \* the descriptor numbers the process can get
  control_socket,
  MaxConns         \* bound: open connections of controllers

ASSUME DescriptorAssumption ==
  /\ Fd \subseteq Nat \ {0} /\ IsFiniteSet(Fd) /\ control_socket \in Fd
  /\ MaxConns \in Nat /\ Cardinality(Fd) >= MaxConns + 3

VARIABLES
  open,               \* descriptors open in the kernel
  master_list,
  control_conn_list,
  router_socket, data_socket,   \* 0 before INIT
  watch_list,         \* ready descriptors this pass has still to serve
  mode,               \* "select", "serve", or "ended": the process has ended
  crashed,
  inbox,              \* a connection has no, a "partial" or a "full" command
  closed,             \* connections whose controller has closed its end
  calling             \* a controller waits to be accepted

process == <<open, master_list, control_conn_list, router_socket, data_socket,
             watch_list, mode, crashed>>
vars == <<process, inbox, closed, calling>>

Sockets == {router_socket, data_socket} \ {0}
Connections == open \ ({control_socket} \cup Sockets)
(* Mutant: a number above all that are open. *)
NextFree == Max(open) + 1
LowestFree == Min(Fd \ open)

ChannelTypeOK ==
  /\ open \subseteq Fd /\ master_list \subseteq Fd
  /\ control_conn_list \subseteq Fd /\ watch_list \subseteq Fd
  /\ router_socket \in Fd \cup {0} /\ data_socket \in Fd \cup {0}
  /\ mode \in {"select", "serve", "ended"} /\ crashed \in BOOLEAN
  /\ inbox \in [Fd -> {"empty", "partial", "full"}]
  /\ closed \subseteq Fd /\ calling \in BOOLEAN

(* run() *)
Init ==
  /\ open = {control_socket} /\ master_list = {control_socket}
  /\ control_conn_list = {} /\ router_socket = 0 /\ data_socket = 0
  /\ watch_list = {} /\ mode = "select" /\ crashed = FALSE
  /\ inbox = [f \in Fd |-> "empty"] /\ closed = {}
  /\ calling = FALSE

-----------------------------------------------------------------------------
(* Controllers: they call, begin a command, send its rest, and close.      *)

Writable(f) == mode # "ended" /\ f \in Connections \ closed

Call ==
  /\ mode # "ended" /\ ~calling /\ Cardinality(Connections) < MaxConns
  /\ calling' = TRUE
  /\ UNCHANGED <<process, inbox, closed>>

Begin(f) ==
  /\ Writable(f) /\ inbox[f] = "empty"
  /\ inbox' = [inbox EXCEPT ![f] = "partial"]
  /\ UNCHANGED <<process, closed, calling>>

Finish(f) ==
  /\ Writable(f) /\ inbox[f] = "partial"
  /\ inbox' = [inbox EXCEPT ![f] = "full"]
  /\ UNCHANGED <<process, closed, calling>>

Close(f) ==
  /\ Writable(f)
  /\ closed' = closed \cup {f}
  /\ UNCHANGED <<process, inbox, calling>>

-----------------------------------------------------------------------------
(* The router. The router and data sockets may be ready at any time; what  *)
(* their handlers do to the tables is the subject of other modules.        *)

Ready(f) ==
  \/ f = control_socket /\ calling
  \/ f \in Connections /\ (inbox[f] # "empty" \/ f \in closed)

Select ==
  /\ mode = "select" /\ ~crashed
  /\ \E traffic \in SUBSET Sockets :
       watch_list' = master_list \cap ({f \in open : Ready(f)} \cup traffic)
  /\ watch_list' # {}
  /\ mode' = "serve"
  /\ UNCHANGED <<open, master_list, control_conn_list, router_socket, data_socket,
                 crashed, inbox, closed, calling>>

(* The descriptor the loop is at, and the end of its turn. *)
Serving(f) == mode = "serve" /\ watch_list # {} /\ f = Min(watch_list)
Served(f) == watch_list' = watch_list \ {f}

(* Mutants: the connection is not listed; it is not watched. *)
AcceptUnlisted(f) ==
  /\ Serving(f) /\ f = control_socket
  /\ open' = open \cup {LowestFree}
  /\ master_list' = master_list \cup {LowestFree}
  /\ calling' = FALSE
  /\ Served(f)
  /\ UNCHANGED <<control_conn_list, router_socket, data_socket, mode, crashed, inbox, closed>>
AcceptUnwatched(f) ==
  /\ Serving(f) /\ f = control_socket
  /\ open' = open \cup {LowestFree}
  /\ control_conn_list' = control_conn_list \cup {LowestFree}
  /\ calling' = FALSE
  /\ Served(f)
  /\ UNCHANGED <<master_list, router_socket, data_socket, mode, crashed, inbox, closed>>

NewControlConn(f) ==
  /\ Serving(f) /\ f = control_socket
  /\ open' = open \cup {LowestFree}
  /\ master_list' = master_list \cup {LowestFree}
  /\ control_conn_list' = control_conn_list \cup {LowestFree}
  /\ calling' = FALSE
  /\ Served(f)
  /\ UNCHANGED <<router_socket, data_socket, mode, crashed, inbox, closed>>

(* A datagram or a data connection. *)
ServeSocket(f) ==
  /\ Serving(f) /\ f # control_socket /\ f \in Sockets
  /\ Served(f)
  /\ UNCHANGED <<open, master_list, control_conn_list, router_socket, data_socket,
                 mode, crashed, inbox, closed, calling>>

isControl(f) == Serving(f) /\ f # control_socket /\ f \notin Sockets /\ f \in control_conn_list

(* control_recv_hook: recvALL waits for the whole command, so that nothing *)
(* happens on a partial one; if the controller closes then, it never ends. *)
(* Every command is answered. CRASH sets crashed.                          *)
Command(f) ==
  /\ isControl(f) /\ inbox[f] = "full"
  /\ inbox' = [inbox EXCEPT ![f] = "empty"]
  /\ crashed' \in {crashed, TRUE}
  /\ Served(f)
  /\ UNCHANGED <<open, master_list, control_conn_list, router_socket, data_socket,
                 mode, closed, calling>>

(* INIT answers, then opens the router and the data socket; the bind of a  *)
(* second INIT fails.                                                      *)
Initialize(f) ==
  /\ isControl(f) /\ inbox[f] = "full"
  /\ inbox' = [inbox EXCEPT ![f] = "empty"]
  /\ IF router_socket # 0
     THEN /\ mode' = "ended"
          /\ UNCHANGED <<open, master_list, router_socket, data_socket>>
     ELSE /\ router_socket' = LowestFree
          /\ data_socket' = Min(Fd \ (open \cup {LowestFree}))
          /\ open' = open \cup {router_socket', data_socket'}
          /\ master_list' = master_list \cup {router_socket', data_socket'}
          /\ UNCHANGED mode
  /\ Served(f)
  /\ UNCHANGED <<control_conn_list, crashed, closed, calling>>

(* recvALL returns -1 at the end of the stream: the hook closes the        *)
(* connection and the loop clears its bit.                                 *)
(* Mutant: the bit in master_list is kept. *)
RemoveKeepsBit(f) ==
  /\ isControl(f) /\ inbox[f] = "empty" /\ f \in closed
  /\ control_conn_list' = control_conn_list \ {f}
  /\ open' = open \ {f} /\ closed' = closed \ {f}
  /\ Served(f)
  /\ UNCHANGED <<master_list, router_socket, data_socket, mode, crashed, inbox, calling>>

RemoveControlConn(f) ==
  /\ isControl(f) /\ inbox[f] = "empty" /\ f \in closed
  /\ control_conn_list' = control_conn_list \ {f}
  /\ open' = open \ {f} /\ closed' = closed \ {f}
  /\ master_list' = master_list \ {f}
  /\ Served(f)
  /\ UNCHANGED <<router_socket, data_socket, mode, crashed, inbox, calling>>

(* The pass is over: the loop breaks if a command has set crashed. *)
EndPass ==
  /\ mode = "serve" /\ watch_list = {}
  /\ mode' = (IF crashed THEN "ended" ELSE "select")
  /\ UNCHANGED <<open, master_list, control_conn_list, router_socket, data_socket,
                 watch_list, crashed, inbox, closed, calling>>

Serve(f) == \/ NewControlConn(f) \/ ServeSocket(f)
            \/ Command(f) \/ Initialize(f) \/ RemoveControlConn(f)

Next == \/ Call \/ (\E f \in Fd : Begin(f) \/ Finish(f) \/ Close(f))
        \/ Select \/ (\E f \in Fd : Serve(f)) \/ EndPass

Spec == Init /\ [][Next]_vars

(* select() returns when a descriptor is ready, the loop goes through its  *)
(* pass, and a controller that keeps its connection ends what it began.    *)
Fairness ==
  /\ WF_vars(Select) /\ WF_vars(EndPass)
  /\ WF_vars(\E f \in Fd : Serve(f))
  /\ \A f \in Fd : WF_vars(Finish(f))
FairSpec == Spec /\ Fairness

-----------------------------------------------------------------------------
(* The three records of the open descriptors agree after any sequence of   *)
(* connections, closes and INIT, although the kernel reuses numbers: what  *)
(* the loop selects on is what is open, and every descriptor has exactly   *)
(* one role.                                                               *)
MasterListIsExact ==
  /\ master_list = open
  /\ control_conn_list = Connections
  /\ control_socket \in open /\ Sockets \subseteq open
  /\ router_socket # 0 => Cardinality(Sockets) = 2

(* A descriptor that was ready when select() returned still has its role   *)
(* when the loop comes to it, whatever the handlers before it in the pass  *)
(* opened and closed: ERROR("Unknown socket index") is never reached.      *)
NoUnknownSocket ==
  mode = "serve" =>
    watch_list \subseteq {control_socket} \cup Sockets \cup control_conn_list

(* No connection is starved, and a handler blocks for good only on a       *)
(* command that its controller has cut off: a command that has been sent   *)
(* as a whole is read and answered, unless the process ends.               *)
CutOff == \E f \in closed : inbox[f] = "partial"
CommandsAnswered ==
  \A f \in Fd : (inbox[f] = "full") ~> (inbox[f] = "empty" \/ mode = "ended" \/ CutOff)
=============================================================================
