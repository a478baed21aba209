------------------------ MODULE FailureDetectorProofs ------------------------
(***************************************************************************)
(* Proofs about BroadcastTimer, for every period and resolution of time,   *)
(* and about FailureDetector, for every bound on losses and work that      *)
(* leaves enough time before the deadline.                                 *)
(***************************************************************************)
EXTENDS FailureDetector, TLAPS

(* The remainder of a number that is less than a second off [0, TPS). *)
LEMMA Remainder ==
  ASSUME NEW x \in Int, -TPS < x, x < TPS
  PROVE  x % TPS = IF x >= 0 THEN x ELSE x + TPS
BY TimerAssumption, Z3

LEMMA NextPhase == ASSUME NEW x \in 0..(TPS - 1) PROVE (x + 1) % TPS \in 0..(TPS - 1)
BY TimerAssumption, Z3

(* Until it is a second late, a timeout is late by the ticks the handlers  *)
(* have used since the last broadcast, and silence and due add up to the   *)
(* interval set at that broadcast. The two properties alone do not say     *)
(* when the next timeout comes.                                            *)
TimerInv ==
  /\ TimerTypeOK
  /\ due > -TPS => due = tv - (Work - budget) /\ silence + due <= Period + TPS - 1
  /\ due = -TPS => Work - budget >= TPS

LEMMA PeriodNat == Period \in Nat /\ Period >= TPS
BY TimerAssumption, Z3 DEF Period

LEMMA TimerInvInit == TimerInit => TimerInv
BY TimerAssumption, PeriodNat DEF TimerInit, TimerInv, TimerTypeOK, MaxInterval

LEMMA TimerInvNext == TimerInv /\ [TimerNext]_timer => TimerInv'
<1> SUFFICES ASSUME TimerInv, [TimerNext]_timer PROVE TimerInv'
  OBVIOUS
<1> USE TimerAssumption, PeriodNat DEF TimerInv, TimerTypeOK, MaxInterval
<1>1. CASE TimerTick
  <2>1. phase' \in 0..(TPS - 1)
    BY <1>1, NextPhase DEF TimerTick
  <2>2. silence' \in 0..(MaxInterval + 1) /\ (silence <= MaxInterval => silence' = silence + 1)
    BY <1>1 DEF TimerTick, Later
  <2>3. CASE mode = "select" /\ tv > 0 /\ tv' = tv - 1 /\ UNCHANGED budget
    BY <1>1, <2>1, <2>2, <2>3 DEF TimerTick
  <2>4. CASE mode = "select" /\ tv = 0 /\ ~OnTime /\ UNCHANGED <<tv, budget>>
    <3>1. due = -TPS
      BY <2>4 DEF OnTime
    <3> QED BY <1>1, <2>1, <2>2, <2>4, <3>1 DEF TimerTick
  <2>5. CASE mode = "handler" /\ budget > 0 /\ budget' = budget - 1 /\ UNCHANGED tv
    BY <1>1, <2>1, <2>2, <2>5 DEF TimerTick
  <2> QED BY <1>1, <2>3, <2>4, <2>5 DEF TimerTick
<1>2. CASE Ready
  BY <1>2 DEF Ready
<1>3. CASE Return
  BY <1>3 DEF Return
<1>4. CASE Timeout
  <2>1. /\ tv = 0 /\ due <= 0 /\ -due < TPS
        /\ due' = (Period - phase) + ((phase + due) % TPS)
        /\ tv' = due' /\ budget' = Work /\ silence' = 0
        /\ UNCHANGED <<mode, phase>>
    BY <1>4 DEF Timeout, OnTime
  <2>2. (phase + due) % TPS = IF phase + due >= 0 THEN phase + due ELSE phase + due + TPS
    <3>1. phase + due \in Int /\ -TPS < phase + due /\ phase + due < TPS
      BY <2>1
    <3> QED BY <3>1, Remainder
  <2>3. due' \in Int /\ 0 <= due' /\ due' <= Period + TPS - 1
    BY <2>1, <2>2
  <2>4. TimerTypeOK'
    BY <2>1, <2>3
  <2> QED BY <2>1, <2>3, <2>4
<1>5. CASE UNCHANGED timer
  BY <1>5 DEF timer
<1> QED BY <1>1, <1>2, <1>3, <1>4, <1>5 DEF TimerNext

LEMMA TimerInvImplies == TimerInv => BroadcastsInTime /\ SilentOnlyIfLate
BY TimerAssumption, PeriodNat
   DEF TimerInv, TimerTypeOK, BroadcastsInTime, SilentOnlyIfLate, MaxInterval

(* As long as handlers take less than a second between two broadcasts, no  *)
(* silence exceeds MaxInterval.                                            *)
THEOREM NeverSilent == TimerSpec => []BroadcastsInTime
BY TimerInvInit, TimerInvNext, TimerInvImplies, PTL DEF TimerSpec

(* A timeout that comes a second late is the only way to fall silent.      *)
THEOREM SilenceIsLateness == TimerSpec => []SilentOnlyIfLate
BY TimerInvInit, TimerInvNext, TimerInvImplies, PTL DEF TimerSpec

-----------------------------------------------------------------------------
(* The refinement: a tick lets time pass for the Heartbeat, a timeout in   *)
(* time is its beat, and the other steps are stutters.                     *)
LEMMA HeartbeatStep ==
  TimerInv /\ SilentOnlyIfLate' /\ [TimerNext]_timer
    => [Beating!Beat \/ Beating!Pass]_<<silence, due = -TPS>>
<1> SUFFICES ASSUME TimerInv, SilentOnlyIfLate', [TimerNext]_timer
             PROVE  \/ Beating!Beat \/ Beating!Pass
                    \/ UNCHANGED <<silence, due = -TPS>>
  OBVIOUS
<1> USE TimerAssumption, PeriodNat DEF TimerInv, TimerTypeOK
<1>1. CASE TimerTick
  <2>1. \/ silence <= MaxInterval /\ silence' = silence + 1
        \/ UNCHANGED silence
    BY <1>1 DEF TimerTick, Later
  <2>2. due = -TPS => due' = -TPS
    BY <1>1 DEF TimerTick
  <2> QED BY <2>1, <2>2 DEF Beating!Pass, SilentOnlyIfLate
<1>2. CASE Ready \/ Return \/ UNCHANGED timer
  BY <1>2 DEF Ready, Return, timer
<1>3. CASE Timeout
  <2>1. due # -TPS /\ silence' = 0
    BY <1>3 DEF Timeout, OnTime
  <2>2. phase + due \in Int /\ -TPS < phase + due /\ phase + due < TPS
    BY <1>3 DEF Timeout, OnTime
  <2>3. due' # -TPS
    BY <1>3, <2>2, Remainder DEF Timeout
  <2> QED BY <2>1, <2>3 DEF Beating!Beat
<1> QED BY <1>1, <1>2, <1>3 DEF TimerNext

(* A router is a Heartbeat for its neighbors, whatever its handlers take:  *)
(* intervals are bounded until a timeout is a second late, and that ends   *)
(* the broadcasts for good.                                                *)
THEOREM TimerIsHeartbeat == TimerSpec => BeatsUntilSilent
<1>1. TimerInit => Beating!Init
  BY TimerAssumption, PeriodNat DEF TimerInit, Beating!Init
<1> QED
  BY <1>1, TimerInvInit, TimerInvNext, TimerInvImplies, HeartbeatStep, PTL
     DEF TimerSpec, BeatsUntilSilent, Beating!Spec

-----------------------------------------------------------------------------

(* Up to a second is added to each interval, the last timeout may be late  *)
(* by another, and a pass of the watcher comes on top.                     *)
Slack == MaxLost * (Period + TPS) + 2 * TPS - 2 + WatcherWork <= 2 * Period

(* Ticks until the deadline has passed.                                    *)
rem == (left + 1) * TPS - clock

(* What losses can still add to the time until a datagram arrives.         *)
drift(l) == (MaxLost - l) * (Period + TPS)

(* While the router broadcasts, the deadline leaves the time for all the   *)
(* datagrams that may still be lost, for a late timeout and for a pass; or *)
(* a datagram waits, and what is left covers the pass that is going on; or *)
(* this pass reads it. The property alone does not speak of the deadline.  *)
WatchInv ==
  /\ WatcherTypeOK /\ TimerInv
  /\ readable => queued /\ pass = "handler"
  /\ due > -TPS =>
       /\ ~suspected /\ left # None
       /\ ~queued => rem >= drift(lost) + due + TPS + WatcherWork
       /\ queued /\ ~readable => rem >= 1 /\ (pass = "handler" => rem >= pass_budget + 1)

(* Products of a variable, taken apart for the prover.                     *)
LEMMA DriftStep ==
  ASSUME NEW l \in 0..MaxLost
  PROVE  /\ drift(l) \in Nat
         /\ l < MaxLost => drift(l + 1) = drift(l) - (Period + TPS)
         /\ drift(l) <= MaxLost * (Period + TPS)
<1>1. Period + TPS \in Nat /\ MaxLost \in Nat
  BY TimerAssumption, WatcherAssumption, PeriodNat
<1> DEFINE c == Period + TPS
<1> HIDE DEF c
<1>2. \A m, n \in Nat : m * n \in Nat
  BY Z3
<1>3. \A m \in Int, n \in Nat : (m - 1) * n = m * n - n
  BY Z3
<1>4. \A m, k, n \in Nat : k <= m => (m - k) * n <= m * n
  <2> SUFFICES ASSUME NEW m \in Nat, NEW k \in Nat, NEW n \in Nat, k <= m
               PROVE  (m - k) * n <= m * n
    OBVIOUS
  <2>1. (m - k) * n = m * n - k * n /\ k * n >= 0
    BY Z3
  <2> QED BY <2>1
<1>5. c \in Nat /\ MaxLost - l \in Nat
  BY <1>1 DEF c
<1>6. drift(l) = (MaxLost - l) * c /\ drift(l + 1) = ((MaxLost - l) - 1) * c
  BY <1>1, <1>5 DEF drift, c
<1> QED BY <1>1, <1>2, <1>3, <1>4, <1>5, <1>6 DEF c

LEMMA RemStep ==
  ASSUME NEW n \in Int, NEW c \in 0..(TPS - 1)
  PROVE  /\ (n + 1) * TPS - c \in Int
         /\ (n + 1) * TPS - c >= 1 <=> n >= 0
         /\ n * TPS = (n + 1) * TPS - TPS
<1>1. TPS \in Nat \ {0, 1}
  BY TimerAssumption
<1>2. n * TPS = (n + 1) * TPS - TPS
  BY <1>1, Z3
<1>3. n >= 0 => (n + 1) * TPS >= TPS
  BY <1>1, Z3
<1>4. n < 0 => (n + 1) * TPS <= 0
  BY <1>1, Z3
<1> QED BY <1>1, <1>2, <1>3, <1>4

LEMMA TickClock ==
  ASSUME NEW c \in 0..(TPS - 1)
  PROVE  (c + 1) % TPS = IF c + 1 = TPS THEN 0 ELSE c + 1
BY TimerAssumption, Z3

LEMMA WatchInit == ASSUME Slack PROVE WatcherInit => WatchInv
<1> SUFFICES ASSUME WatcherInit PROVE WatchInv
  OBVIOUS
<1>1. TimerInv /\ TimerTypeOK
  BY TimerInvInit DEF WatcherInit, TimerInv
<1>2. WatcherTypeOK
  <2>1. 3 * time_period \in None..(3 * time_period) /\ 0 \in 0..WatcherWork /\ 0 \in 0..MaxLost
    BY TimerAssumption, WatcherAssumption DEF None
  <2> QED BY <1>1, <2>1 DEF WatcherInit, WatcherTypeOK
<1>3. /\ clock \in 0..(TPS - 1) /\ left = 3 * time_period /\ lost = 0
      /\ ~queued /\ ~readable /\ ~suspected /\ pass = "select" /\ due = Period
  BY DEF WatcherInit, TimerInit
<1>4. rem = 3 * Period + TPS - clock
  <2>1. (3 * time_period + 1) * TPS = 3 * Period + TPS
    BY TimerAssumption, Z3 DEF Period
  <2>2. rem = (3 * time_period + 1) * TPS - clock
    BY <1>3, Zenon DEF rem
  <2> QED BY <1>3, <2>1, <2>2, TimerAssumption, PeriodNat
<1>5. drift(lost) <= MaxLost * (Period + TPS) /\ drift(lost) \in Nat
  BY <1>3, WatcherAssumption, DriftStep
<1>6. MaxLost * (Period + TPS) \in Nat
  BY TimerAssumption, WatcherAssumption, PeriodNat, Z3
<1>7. rem >= drift(lost) + due + TPS + WatcherWork
  BY <1>3, <1>4, <1>5, <1>6, TimerAssumption, WatcherAssumption, PeriodNat DEF Slack
<1> QED BY <1>1, <1>2, <1>3, <1>7, TimerAssumption DEF WatchInv, None

(* The timer steps of the watched router keep its invariant.               *)
LEMMA WatchedTimer ==
  TimerInv /\ [WatcherNext]_<<timer, watcher>> => TimerInv' /\ [TimerNext]_timer
<1> SUFFICES ASSUME TimerInv, [WatcherNext]_<<timer, watcher>> PROVE TimerInv' /\ [TimerNext]_timer
  OBVIOUS
<1>1. [TimerNext]_timer
  BY DEF WatcherNext, Tick, Send, StartPass, ReadDatagram, EndPass, TimerNext
<1> QED BY <1>1, TimerInvNext

(* A late timeout is never made up for; on time, the next one is set.      *)
LEMMA DueStep ==
  ASSUME TimerInv
  PROVE  /\ TimerTick => due' = IF due > -TPS THEN due - 1 ELSE due
         /\ Timeout => /\ due \in (1 - TPS)..0
                       /\ due' <= Period + TPS + due
<1> USE TimerAssumption, PeriodNat DEF TimerInv, TimerTypeOK
<1>1. ASSUME Timeout PROVE due \in (1 - TPS)..0 /\ due' <= Period + TPS + due
  <2>1. due \in (1 - TPS)..0 /\ due' = (Period - phase) + ((phase + due) % TPS)
    BY <1>1 DEF Timeout, OnTime
  <2>2. (phase + due) % TPS = IF phase + due >= 0 THEN phase + due ELSE phase + due + TPS
    <3>1. phase + due \in Int /\ -TPS < phase + due /\ phase + due < TPS
      BY <2>1
    <3> QED BY <3>1, Remainder
  <2> QED BY <2>1, <2>2
<1> QED BY <1>1 DEF TimerTick

LEMMA WatchNext ==
  ASSUME Slack
  PROVE  WatchInv /\ [WatcherNext]_<<timer, watcher>> => WatchInv'
<1> SUFFICES ASSUME WatchInv, [WatcherNext]_<<timer, watcher>> PROVE WatchInv'
  OBVIOUS
<1>1. TimerInv /\ TimerInv' /\ TimerTypeOK'
  BY WatchedTimer DEF WatchInv, TimerInv
<1>2. /\ pass \in {"select", "handler"} /\ pass_budget \in 0..WatcherWork
      /\ readable \in BOOLEAN /\ queued \in BOOLEAN /\ suspected \in BOOLEAN
      /\ lost \in 0..MaxLost /\ clock \in 0..(TPS - 1) /\ left \in None..(3 * time_period)
      /\ due \in Int /\ due >= -TPS /\ TPS \in Nat \ {0, 1} /\ WatcherWork \in Nat
      /\ time_period \in Nat \ {0} /\ Period \in Nat /\ MaxLost \in Nat
  BY TimerAssumption, WatcherAssumption, PeriodNat DEF WatchInv, WatcherTypeOK, TimerTypeOK
<1>3. /\ readable => queued /\ pass = "handler"
      /\ due > -TPS =>
           /\ ~suspected /\ left # None
           /\ ~queued => rem >= drift(lost) + due + TPS + WatcherWork
           /\ queued /\ ~readable => rem >= 1 /\ (pass = "handler" => rem >= pass_budget + 1)
  BY DEF WatchInv
<1>4. drift(lost) \in Nat /\ (lost < MaxLost => drift(lost + 1) = drift(lost) - (Period + TPS))
  BY <1>2, DriftStep
<1>5. rem \in Int /\ (rem >= 1 <=> left >= 0)
  BY <1>2, RemStep DEF rem, None
<1>6. CASE Tick
  <2>1. /\ TimerTick /\ left' = (IF clock' = 0 /\ left >= 0 THEN left - 1 ELSE left)
        /\ clock' = (clock + 1) % TPS
        /\ \/ pass = "select" /\ ~queued /\ UNCHANGED pass_budget
           \/ pass = "handler" /\ pass_budget > 0 /\ pass_budget' = pass_budget - 1
        /\ UNCHANGED <<pass, readable, queued, lost, suspected>>
    BY <1>6 DEF Tick
  <2>2. due' = IF due > -TPS THEN due - 1 ELSE due
    BY <1>1, <2>1, DueStep
  <2>3. clock' = IF clock + 1 = TPS THEN 0 ELSE clock + 1
    BY <1>2, <2>1, TickClock
  <2>4. WatcherTypeOK'
    BY <1>1, <1>2, <2>1, <2>3 DEF WatcherTypeOK, None
  <2>5. left >= 0 => rem' = rem - 1
    <3>1. left * TPS = (left + 1) * TPS - TPS
      BY <1>2, RemStep DEF None
    <3>2. left' + 1 = left \/ left' = left
      BY <1>2, <2>1 DEF None
    <3>3. rem' = (left' + 1) * TPS - clock' /\ rem = (left + 1) * TPS - clock
      BY DEF rem
    <3>4. (left + 1) * TPS \in Int
      BY <1>2 DEF None
    <3>5. CASE clock + 1 = TPS /\ left >= 0
      <4>1. clock' = 0 /\ left' + 1 = left
        BY <1>2, <2>1, <2>3, <3>5 DEF None
      <4>2. rem' = left * TPS
        BY <1>2, <3>3, <4>1 DEF None
      <4> QED BY <1>2, <3>1, <3>3, <3>4, <3>5, <4>2
    <3>6. CASE clock + 1 # TPS
      <4>1. clock' = clock + 1 /\ left' = left
        BY <1>2, <2>1, <2>3, <3>6
      <4> QED BY <1>2, <3>3, <3>4, <4>1
    <3> QED BY <3>5, <3>6
  <2>6. ASSUME due' > -TPS
        PROVE  /\ ~suspected' /\ left' # None
               /\ ~queued' => rem' >= drift(lost') + due' + TPS + WatcherWork
               /\ queued' /\ ~readable' =>
                    rem' >= 1 /\ (pass' = "handler" => rem' >= pass_budget' + 1)
    <3>1. due > -TPS /\ due' = due - 1
      BY <1>2, <2>2, <2>6
    <3>2. left # None => left' # None
      BY <1>2, <2>1 DEF None
    <3>3. ~queued => left >= 0
      BY <1>2, <1>3, <1>4, <1>5, <3>1
    <3>4. drift(lost') = drift(lost)
      BY <2>1
    <3>5. ~queued' => rem' >= drift(lost') + due' + TPS + WatcherWork
      BY <1>2, <1>3, <1>4, <1>5, <2>1, <2>5, <3>1, <3>3, <3>4
    <3>6. queued' /\ ~readable' =>
            rem' >= 1 /\ (pass' = "handler" => rem' >= pass_budget' + 1)
      BY <1>2, <1>3, <1>5, <2>1, <2>5, <3>1
    <3> QED BY <1>3, <2>1, <3>1, <3>2, <3>5, <3>6
  <2> QED BY <1>1, <1>3, <2>1, <2>4, <2>6 DEF WatchInv
<1>7. CASE Send
  <2>1. /\ Timeout /\ UNCHANGED <<pass, pass_budget, readable, clock, left, suspected>>
        /\ \/ queued' = TRUE /\ lost' = 0
           \/ lost < MaxLost /\ lost' = lost + 1 /\ UNCHANGED queued
    BY <1>7 DEF Send
  <2>2. due \in (1 - TPS)..0 /\ due' <= Period + TPS + due /\ due' \in Int
    BY <1>1, <2>1, DueStep DEF TimerTypeOK
  <2>3. WatcherTypeOK'
    <3>1. queued' \in BOOLEAN
      BY <1>2, <2>1, Zenon
    <3>2. lost' \in 0..MaxLost
      BY <1>2, <2>1
    <3> QED BY <1>1, <1>2, <2>1, <3>1, <3>2, Zenon DEF WatcherTypeOK
  <2>4. rem' = rem
    BY <2>1 DEF rem
  <2>5. due > -TPS
    BY <1>2, <2>2
  <2>6. ~queued' => rem' >= drift(lost') + due' + TPS + WatcherWork
    <3>1. ASSUME ~queued' PROVE drift(lost') = drift(lost) - (Period + TPS) /\ ~queued
      BY <1>2, <1>4, <2>1, <3>1
    <3> QED BY <1>2, <1>3, <1>4, <1>5, <2>2, <2>4, <2>5, <3>1
  <2>7. ~queued => rem >= WatcherWork + 1
    BY <1>2, <1>3, <1>4, <1>5, <2>2, <2>5
  <2>8. ~readable => rem >= 1 /\ (pass = "handler" => rem >= pass_budget + 1)
    BY <1>2, <1>3, <1>5, <2>5, <2>7
  <2> QED BY <1>1, <1>3, <2>1, <2>3, <2>4, <2>5, <2>6, <2>8 DEF WatchInv
<1>8. CASE StartPass
  <2>1. /\ pass = "select" /\ pass' = "handler" /\ pass_budget' = WatcherWork
        /\ readable' = queued
        /\ left' = (IF left = -1 THEN None ELSE left)
        /\ suspected' = (suspected \/ left = -1)
        /\ UNCHANGED <<timer, queued, lost, clock>>
    BY <1>8 DEF StartPass
  <2>2. due' = due
    BY <2>1 DEF timer
  <2>3. WatcherTypeOK'
    BY <1>1, <1>2, <2>1 DEF WatcherTypeOK, None
  <2>4. due > -TPS => left >= 0
    BY <1>2, <1>3, <1>4, <1>5, <2>1
  <2>5. left >= 0 => left' = left /\ rem' = rem /\ suspected' = suspected
    BY <1>2, <2>1 DEF rem
  <2>6. drift(lost') = drift(lost)
    BY <2>1
  <2>7. due' > -TPS /\ ~queued' => rem' >= drift(lost') + due' + TPS + WatcherWork
    BY <1>3, <2>1, <2>2, <2>4, <2>5, <2>6
  <2> QED BY <1>1, <1>3, <2>1, <2>2, <2>3, <2>4, <2>5, <2>7 DEF WatchInv
<1>9. CASE ReadDatagram
  <2>1. /\ readable /\ ~readable' /\ ~queued' /\ left' = 3 * time_period
        /\ UNCHANGED <<timer, pass, pass_budget, lost, clock, suspected>>
    BY <1>9 DEF ReadDatagram
  <2>2. due' = due /\ TimerTypeOK
    BY <2>1 DEF timer, WatchInv, WatcherTypeOK
  <2>3. WatcherTypeOK'
    <3>1. 3 * time_period \in None..(3 * time_period)
      BY <1>2 DEF None
    <3> QED BY <1>1, <1>2, <1>9, <3>1, Zenon DEF WatcherTypeOK, ReadDatagram
  <2>4. rem' = 3 * Period + TPS - clock
    <3>1. (3 * time_period + 1) * TPS = 3 * Period + TPS
      BY TimerAssumption, Z3 DEF Period
    <3>2. rem' = (3 * time_period + 1) * TPS - clock
      BY <2>1, Zenon DEF rem
    <3> QED BY <1>2, <3>1, <3>2
  <2>5. drift(lost') <= MaxLost * (Period + TPS) /\ drift(lost') \in Nat
    BY <1>2, <2>1, DriftStep
  <2>6. MaxLost * (Period + TPS) \in Nat
    BY <1>2, Z3
  <2>7. due > -TPS => due <= Period + TPS - 1
    BY <1>1, <1>2, <2>2 DEF TimerInv, TimerTypeOK
  <2>8. due' > -TPS => rem' >= drift(lost') + due' + TPS + WatcherWork
    BY <1>2, <2>2, <2>4, <2>5, <2>6, <2>7 DEF Slack
  <2>9. left' # None
    BY <1>2, <2>1 DEF None
  <2> QED BY <1>1, <1>3, <2>1, <2>2, <2>3, <2>8, <2>9 DEF WatchInv
<1>10. CASE EndPass
  <2>1. /\ ~readable /\ pass' = "select"
        /\ UNCHANGED <<timer, pass_budget, readable, queued, lost, clock, left, suspected>>
    BY <1>10 DEF EndPass
  <2>2. due' = due /\ rem' = rem /\ drift(lost') = drift(lost)
    BY <2>1 DEF timer, rem
  <2> QED BY <1>1, <1>2, <1>3, <2>1, <2>2 DEF WatchInv, WatcherTypeOK
<1>11. CASE (Ready \/ Return \/ UNCHANGED timer) /\ UNCHANGED watcher
  <2>1. due' = due /\ UNCHANGED watcher
    BY <1>11 DEF Ready, Return, timer
  <2>2. rem' = rem /\ drift(lost') = drift(lost)
    BY <2>1 DEF watcher, rem
  <2> QED BY <1>1, <1>2, <1>3, <2>1, <2>2 DEF WatchInv, WatcherTypeOK, watcher
<1> QED BY <1>6, <1>7, <1>8, <1>9, <1>10, <1>11 DEF WatcherNext

(* The strengthened invariant holds throughout. *)
LEMMA WatchAlways == ASSUME Slack PROVE WatcherSpec => []WatchInv
BY WatchInit, WatchNext, PTL DEF WatcherSpec

(* The detector keeps its types; the deadline stays within three periods.  *)
THEOREM WatcherTypeCorrect ==
  ASSUME Slack
  PROVE  WatcherSpec => []WatcherTypeOK
<1>1. WatchInv => WatcherTypeOK
  BY DEF WatchInv
<1> QED BY <1>1, WatchAlways, PTL

(* No router that still broadcasts is declared crashed, for every period,  *)
(* number of losses in a row and pass of the watcher that Slack allows.    *)
THEOREM NoFalseSuspicion ==
  ASSUME Slack
  PROVE  WatcherSpec => []OnlySilentIsSuspected
<1>1. WatchInv => OnlySilentIsSuspected
  BY TimerAssumption DEF WatchInv, WatcherTypeOK, TimerTypeOK, OnlySilentIsSuspected
<1> QED BY <1>1, WatchAlways, PTL

-----------------------------------------------------------------------------
(* The safety part of the refinement: all steps are steps of the perfect   *)
(* detector. That it suspects in the end is left to the run.               *)
LEMMA DetectionStep ==
  WatchInv /\ WatchInv' /\ [WatcherNext]_<<timer, watcher>>
    => [Detection!FallSilent \/ Detection!Suspect]_<<due = -TPS, suspected>>
<1> DEFINE G == [Detection!FallSilent \/ Detection!Suspect]_<<due = -TPS, suspected>>
<1> SUFFICES ASSUME WatchInv, WatchInv', [WatcherNext]_<<timer, watcher>> PROVE G
  OBVIOUS
<1>1. /\ due \in Int /\ due >= -TPS /\ TPS \in Nat \ {0, 1}
      /\ suspected \in BOOLEAN /\ suspected' \in BOOLEAN
      /\ TimerInv /\ (due' > -TPS => ~suspected') /\ due' \in Int /\ due' >= -TPS
  BY TimerAssumption DEF WatchInv, WatcherTypeOK, TimerTypeOK
<1>2. CASE Tick
  <2>1. (due = -TPS => due' = -TPS) /\ suspected' = suspected
    BY <1>1, <1>2, DueStep DEF Tick
  <2> QED BY <2>1 DEF Detection!FallSilent
<1>3. CASE Send
  <2>1. due # -TPS /\ suspected' = suspected
    BY <1>1, <1>3, DueStep DEF Send
  <2>2. CASE due' = -TPS
    BY <2>1, <2>2 DEF Detection!FallSilent
  <2>3. CASE due' # -TPS
    BY <2>1, <2>3
  <2> QED BY <2>2, <2>3
<1>4. CASE StartPass
  <2>1. due' = due /\ suspected' = (suspected \/ left = -1)
    BY <1>4 DEF StartPass, timer
  <2>2. CASE suspected' = suspected
    BY <2>1, <2>2
  <2>3. CASE suspected' # suspected
    <3>1. suspected'
      BY <1>1, <2>1, <2>3
    <3>2. due = -TPS
      BY <1>1, <2>1, <3>1
    <3> QED BY <1>1, <2>1, <3>1, <3>2 DEF Detection!Suspect
  <2> QED BY <2>2, <2>3
<1>5. CASE ReadDatagram \/ EndPass
  BY <1>5 DEF ReadDatagram, EndPass, timer
<1>6. CASE (Ready \/ Return \/ UNCHANGED timer) /\ UNCHANGED watcher
  BY <1>6 DEF Ready, Return, timer, watcher
<1> HIDE DEF G
<1> QED BY <1>2, <1>3, <1>4, <1>5, <1>6 DEF WatcherNext

(* The clocks, the deadline and the lossy network implement the safety of  *)
(* CrashDetection: only a router that is silent for good gets suspected,   *)
(* and a suspicion stays.                                                  *)
THEOREM WatcherDetectsSafely ==
  ASSUME Slack
  PROVE  WatcherSpec => /\ Detection!Init
                        /\ [][Detection!FallSilent \/ Detection!Suspect]_<<due = -TPS, suspected>>
<1>1. WatcherInit => Detection!Init
  BY TimerAssumption, PeriodNat DEF WatcherInit, TimerInit, Detection!Init
<1> QED BY <1>1, WatchAlways, DetectionStep, PTL DEF WatcherSpec
=============================================================================
