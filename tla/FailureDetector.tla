--------------------------- MODULE FailureDetector ---------------------------
(***************************************************************************)
(* One neighbor watching the router of BroadcastTimer by the clock. The    *)
(* deadline kept in next_expected_time is in whole seconds and is checked  *)
(* at the start of a pass of the watcher's loop, before the pass reads the *)
(* datagram that may wait at its router socket. The watcher's clock has    *)
(* its own phase; the network delivers within a tick or not at all.        *)
(***************************************************************************)
EXTENDS BroadcastTimer

CONSTANTS
  MaxLost,      \* bound: datagrams lost in a row
  WatcherWork   \* bound: ticks that one pass of the watcher's loop takes

ASSUME WatcherAssumption == MaxLost \in Nat /\ WatcherWork \in Nat

VARIABLES
  pass,        \* the watcher waits in "select" or is in the "handler" part of a pass
  pass_budget, \* ticks left for this pass
  readable,    \* router_socket is in the watch_list of this pass
  queued,      \* a datagram waits at the router socket
  lost,        \* datagrams lost since the last one that arrived
  clock,       \* the watcher's now, modulo a second
  left,        \* next_expected_time - now in seconds (-1: passed), None: no deadline
  suspected    \* the watcher has run post_crash

watcher == <<pass, pass_budget, readable, queued, lost, clock, left, suspected>>

None == -2

WatcherTypeOK ==
  /\ TimerTypeOK
  /\ pass \in {"select", "handler"} /\ pass_budget \in 0..WatcherWork
  /\ readable \in BOOLEAN /\ queued \in BOOLEAN /\ suspected \in BOOLEAN
  /\ lost \in 0..MaxLost /\ clock \in 0..(TPS - 1)
  /\ left \in None..(3 * time_period)

(* The watcher has just heard the router for the first time. *)
WatcherInit ==
  /\ TimerInit
  /\ pass = "select" /\ pass_budget = 0
  /\ readable = FALSE /\ queued = FALSE /\ suspected = FALSE
  /\ lost = 0 /\ clock \in 0..(TPS - 1)
  /\ left = 3 * time_period

(* Time passes for both. select() returns at once when a datagram waits.   *)
Tick ==
  /\ TimerTick
  /\ \/ pass = "select" /\ ~queued /\ UNCHANGED pass_budget
     \/ pass = "handler" /\ pass_budget > 0 /\ pass_budget' = pass_budget - 1
  /\ clock' = (clock + 1) % TPS
  /\ left' = (IF clock' = 0 /\ left >= 0 THEN left - 1 ELSE left)
  /\ UNCHANGED <<pass, readable, queued, lost, suspected>>

(* A broadcast of the router, delivered or lost. *)
Send ==
  /\ Timeout
  /\ \/ queued' = TRUE /\ lost' = 0
     \/ lost < MaxLost /\ lost' = lost + 1 /\ UNCHANGED queued
  /\ UNCHANGED <<pass, pass_budget, readable, clock, left, suspected>>

(* select() returns for whatever reason: the deadline is checked (an       *)
(* expired one is erased), then the ready descriptors are served.          *)
(* Mutant: the expired deadline is not erased. *)
StartPassAgain ==
  /\ pass = "select"
  /\ pass' = "handler" /\ pass_budget' = WatcherWork
  /\ readable' = queued
  /\ left' = left - 1
  /\ suspected' = (suspected \/ left = -1)
  /\ UNCHANGED <<timer, queued, lost, clock>>

(* Mutant: the deadline is checked only when a datagram has come. *)
StartPassOnDatagram ==
  /\ pass = "select"
  /\ pass' = "handler" /\ pass_budget' = WatcherWork
  /\ readable' = queued
  /\ left' = (IF left = -1 /\ queued THEN None ELSE left)
  /\ suspected' = (suspected \/ (left = -1 /\ queued))
  /\ UNCHANGED <<timer, queued, lost, clock>>

StartPass ==
  /\ pass = "select"
  /\ pass' = "handler" /\ pass_budget' = WatcherWork
  /\ readable' = queued
  /\ left' = (IF left = -1 THEN None ELSE left)
  /\ suspected' = (suspected \/ left = -1)
  /\ UNCHANGED <<timer, queued, lost, clock>>

(* The router socket is read after the descriptors with smaller numbers.   *)
(* Mutant: the deadline is two periods away. *)
ReadDatagramTwice ==
  /\ pass = "handler" /\ readable
  /\ readable' = FALSE /\ queued' = FALSE
  /\ left' = 2 * time_period
  /\ UNCHANGED <<timer, pass, pass_budget, lost, clock, suspected>>

ReadDatagram ==
  /\ pass = "handler" /\ readable
  /\ readable' = FALSE /\ queued' = FALSE
  /\ left' = 3 * time_period
  /\ UNCHANGED <<timer, pass, pass_budget, lost, clock, suspected>>

EndPass ==
  /\ pass = "handler" /\ ~readable
  /\ pass' = "select"
  /\ UNCHANGED <<timer, pass_budget, readable, queued, lost, clock, left, suspected>>

WatcherNext ==
  \/ Tick \/ Send \/ StartPass \/ ReadDatagram \/ EndPass
  \/ (Ready \/ Return) /\ UNCHANGED watcher

WatcherSpec == WatcherInit /\ [][WatcherNext]_<<timer, watcher>>

(* Time passes; handlers return; a due timeout is acted upon; select() of  *)
(* the watcher returns again and again and its pass goes through.          *)
FairWatcherSpec ==
  /\ WatcherSpec
  /\ SF_<<timer, watcher>>(Tick)
  /\ WF_<<timer, watcher>>(Return /\ UNCHANGED watcher)
  /\ WF_<<timer, watcher>>(Send)
  /\ WF_<<timer, watcher>>(StartPass)
  /\ WF_<<timer, watcher>>(ReadDatagram)
  /\ WF_<<timer, watcher>>(EndPass)

(* A router is declared crashed only if its broadcasts have stopped for    *)
(* good: not because they drift by up to a second each, because up to      *)
(* MaxLost of them in a row are lost, or because the watcher checks the    *)
(* deadline before it reads the datagram that would move it on.            *)
OnlySilentIsSuspected == suspected => due = -TPS

(* The clocks, the deadline and the lossy network together implement the   *)
(* perfect detector of CrashDetection: a router that has stopped is always *)
(* suspected in the end, for good, and no other is.                        *)
Detection == INSTANCE CrashDetection WITH silent <- due = -TPS
DetectsSilence == Detection!Spec
=============================================================================
