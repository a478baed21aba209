--------------------------- MODULE BroadcastTimer ---------------------------
(***************************************************************************)
(* The timer of one router after INIT: main_loop passes `tv` to select(),  *)
(* which counts it down (Linux) only while it blocks. Time spent in the    *)
(* handlers of ready descriptors is not counted, so select() times out     *)
(* late by that much, and the loop broadcasts only if it is less than one  *)
(* second late. Time passes in ticks, TPS to a second; times are relative  *)
(* to now, so that the module has finitely many states.                    *)
(***************************************************************************)
EXTENDS Integers

CONSTANTS
  TPS,          \* ticks per second
  time_period,  \* seconds between two broadcasts
  Work          \* bound: ticks spent in handlers between two broadcasts

ASSUME TimerAssumption ==
  /\ TPS \in Nat \ {0, 1} /\ time_period \in Nat \ {0} /\ Work \in Nat

VARIABLES
  mode,      \* "select": blocked in select(), "handler": serving descriptors
  tv,        \* what is left of the timeout
  due,       \* next_send_time - now, kept from going below -TPS
  phase,     \* now, modulo a second
  budget,    \* handler ticks left until the next broadcast
  silence    \* history: ticks since the last broadcast, or since INIT

timer == <<mode, tv, due, phase, budget, silence>>

Period == time_period * TPS

(* Two broadcasts are this far apart at most when no timeout is a second   *)
(* late: up to a second is lost to the unchanged tv_usec of next_send_time *)
(* and up to a second to the handlers.                                     *)
MaxInterval == Period + 2 * TPS - 2
Later(x) == IF x <= MaxInterval THEN x + 1 ELSE x

TimerTypeOK ==
  /\ mode \in {"select", "handler"}
  /\ tv \in 0..(Period + TPS) /\ due \in (-TPS)..(Period + TPS)
  /\ phase \in 0..(TPS - 1) /\ budget \in 0..Work
  /\ silence \in 0..(MaxInterval + 1)

(* The end of initialize. *)
TimerInit ==
  /\ mode = "handler"
  /\ tv = Period /\ due = Period
  /\ phase \in 0..(TPS - 1)
  /\ budget = Work /\ silence = 0

(* diff_tv(curr_time, next_send_time).tv_sec == 0 *)
(* Mutant: the timeout must come at the very tick of next_send_time. *)
OnTimeExactly == due = 0
(* Mutant: a late timeout is acted upon. *)
OnTimeOrLate == due <= 0
OnTime == due <= 0 /\ -due < TPS

(* Time passes in a blocked select(), in a handler, or, when the timeout   *)
(* came too late, in a loop that polls with tv = 0.                        *)
TimerTick ==
  /\ \/ mode = "select" /\ tv > 0 /\ tv' = tv - 1 /\ UNCHANGED budget
     \/ mode = "select" /\ tv = 0 /\ ~OnTime /\ UNCHANGED <<tv, budget>>
     \/ mode = "handler" /\ budget > 0 /\ budget' = budget - 1 /\ UNCHANGED tv
  /\ due' = (IF due > -TPS THEN due - 1 ELSE due)
  /\ phase' = (phase + 1) % TPS
  /\ silence' = Later(silence)
  /\ UNCHANGED mode

(* A descriptor is ready; its handler returns. *)
Ready ==
  /\ mode = "select" /\ budget > 0
  /\ mode' = "handler"
  /\ UNCHANGED <<tv, due, phase, budget, silence>>

Return ==
  /\ mode = "handler"
  /\ mode' = "select"
  /\ UNCHANGED <<tv, due, phase, budget, silence>>

(* Mutant of Timeout: next_send_time is two periods away. *)
TimeoutTwice ==
  /\ mode = "select" /\ tv = 0 /\ OnTime
  /\ due' = (2 * Period - phase) + ((phase + due) % TPS)
  /\ tv' = due'
  /\ budget' = Work /\ silence' = 0
  /\ UNCHANGED <<mode, phase>>

(* select() returns 0 in time: broadcast, and add the period to the second *)
(* of now. The microseconds of next_send_time stay those of INIT.          *)
Timeout ==
  /\ mode = "select" /\ tv = 0 /\ OnTime
  /\ due' = (Period - phase) + ((phase + due) % TPS)
  /\ tv' = due'
  /\ budget' = Work /\ silence' = 0
  /\ UNCHANGED <<mode, phase>>

TimerNext == TimerTick \/ Ready \/ Return \/ Timeout

TimerSpec == TimerInit /\ [][TimerNext]_timer

(* Unless handlers have used a second since the last broadcast, the router *)
(* has not been silent for longer than MaxInterval, however they interleave*)
(* with the timeout and with the truncation of next_send_time.             *)
BroadcastsInTime == Work - budget < TPS => silence <= MaxInterval

(* Whatever the handlers take: a router falls silent only by a timeout     *)
(* that comes a second late, which no later pass of the loop makes up for. *)
SilentOnlyIfLate == silence > MaxInterval => due = -TPS

(* To its neighbors the router is a Heartbeat: it broadcasts at bounded    *)
(* intervals until it falls silent, and from then on never again.          *)
Beating == INSTANCE Heartbeat WITH silent <- due = -TPS
BeatsUntilSilent == Beating!Spec

(* The initial message gives "the periodic interval (in seconds) for the   *)
(* routing updates to be broadcast to all neighbors"                       *)
(* (control_handler.cpp:300): the broadcasts go on for ever, provided that *)
(* time passes, handlers return and a timeout is acted upon.               *)
FairTimerSpec ==
  TimerSpec /\ SF_timer(TimerTick) /\ WF_timer(Return) /\ WF_timer(Timeout)
BroadcastsForever == []<>(silence = 0)
=============================================================================
