---------------------------- MODULE RecordProofs ----------------------------
(***************************************************************************)
(* Theorems about Record for any periods and any number of episodes and    *)
(* restarts.                                                               *)
(*                                                                         *)
(* The argument: sync_at is set exactly from the moment a change schedules *)
(* a write until the data is taken for it, so in that time nobody sends    *)
(* again, the message is there for sync_task to receive, and it finds the  *)
(* deadline it is to wait for; the deadline and the age of the last write  *)
(* add up to at least SYNC_PERIOD.                                         *)
(***************************************************************************)
EXTENDS Record, TLAPS

USE RecordAssumption

\* One write is scheduled at a time.
OneSchedule ==
  /\ logPc = "send" \/ notify => sync_at # None /\ syncPc \in {"receive", "store"}
  /\ logPc = "send" => ~ notify
  /\ syncPc \in {"peek", "timer"} => sync_at # None
  /\ syncPc = "timer" => timer = sync_at

\* The deadline is never nearer than the rest of the period.
Spaced ==
  \/ sync_at = None
  \/ sinceSync = SyncPeriod
  \/ sync_at \in 1 .. SyncPeriod /\ sync_at + sinceSync >= SyncPeriod

\* The flash, what is being stored, and the record.
Order ==
  /\ flash <= data
  /\ syncPc = "store" => flash <= copy /\ copy <= data

IInv == TypeOK /\ OneSchedule /\ Spaced /\ Order /\ NothingForgotten

-----------------------------------------------------------------------------
LEMMA QuietType ==
  ASSUME NEW v \in Count
  PROVE  Quiet(v) \in [val : Count, unread : SUBSET Subs]
<1>1. {} \in SUBSET Subs
  OBVIOUS
<1>2. QED
  BY <1>1 DEF Quiet

LEMMA PublishType ==
  ASSUME NEW v \in Count, NEW c
  PROVE  Publish(c, v, Subs) \in [val : Count, unread : SUBSET Subs]
  BY DEF Publish

LEMMA ReadType ==
  ASSUME NEW c \in [val : Count, unread : SUBSET Subs], NEW s
  PROVE  /\ Read(c, s) \in [val : Count, unread : SUBSET Subs]
         /\ c.val \in Count
  BY DEF Read

LEMMA RemainingType ==
  ASSUME NEW n \in Nat, NEW t \in {None} \cup -1 .. n
  PROVE  /\ Remaining(t) \in {None} \cup -1 .. n
         /\ t = None <=> Remaining(t) = None
         /\ t # None => Remaining(t) = IF t < 0 THEN -1 ELSE t - 1
<1>1. CASE t = None
  BY <1>1 DEF Remaining
<1>2. CASE t # None
  BY <1>2 DEF Remaining
<1>3. QED
  BY <1>1, <1>2

LEMMA InitIInv == Init => IInv
<1> SUFFICES ASSUME Init PROVE IInv
  OBVIOUS
<1>1. 0 \in Count
  BY DEF Count
<1>2. chan \in [val : Count, unread : SUBSET Subs]
  BY <1>1, QuietType DEF Init
<1>3. DataOK
  BY <1>1, <1>2 DEF Init, DataOK
<1>4. ControlOK /\ TimersOK
  <2>1. notify \in BOOLEAN
    BY DEF Init
  <2>2. pushTimer = PushPeriod /\ sinceSync = SyncPeriod /\ timer = 0
        /\ sync_at = None /\ logPc = "idle" /\ syncPc = "receive"
    BY DEF Init
  <2>3. QED
    BY <2>1, <2>2 DEF ControlOK, TimersOK
<1>5. OneSchedule /\ Spaced /\ Order /\ NothingForgotten
  BY DEF Init, OneSchedule, Spaced, Order, NothingForgotten
<1>6. QED
  BY <1>3, <1>4, <1>5 DEF IInv, TypeOK

\* The invariant does not read the variables of the channel's users.
LEMMA PushIInv ==
  ASSUME IInv, UNCHANGED <<logVars, syncVars, restarts>>,
         chan' \in [val : Count, unread : SUBSET Subs],
         pushTimer' \in -1 .. PushPeriod, seen' \in Count \cup {None}
  PROVE  IInv'
  BY DEF IInv, TypeOK, ControlOK, TimersOK, DataOK, OneSchedule, Spaced, Order,
         NothingForgotten, logVars, syncVars

LEMMA NextIInv == IInv /\ [Next]_vars => IInv'
<1> SUFFICES ASSUME IInv, [Next]_vars PROVE IInv'
  OBVIOUS
<1>0. /\ ControlOK /\ TimersOK /\ DataOK /\ OneSchedule /\ Spaced /\ Order
      /\ NothingForgotten
  BY DEF IInv, TypeOK
<1>1. CASE LogOvercurrent
  <2>1. data + 1 \in Count
    BY <1>0, <1>1 DEF LogOvercurrent, DataOK, Count
  <2>2. chan' \in [val : Count, unread : SUBSET Subs]
    BY <1>1, <2>1, PublishType DEF LogOvercurrent
  <2>3. DataOK'
    BY <1>0, <1>1, <2>1, <2>2 DEF LogOvercurrent, DataOK, syncVars
  <2>4. ControlOK' /\ TimersOK' /\ OneSchedule' /\ Spaced'
    BY <1>0, <1>1
    DEF LogOvercurrent, Unlocked, ControlOK, TimersOK, OneSchedule, Spaced,
        syncVars
  <2>5. data \in Nat /\ data' = data + 1 /\ flash \in Nat /\ copy \in Nat
    BY <1>0, <1>1 DEF LogOvercurrent, DataOK, Count
  <2>6. Order' /\ NothingForgotten'
    BY <1>0, <1>1, <2>5
    DEF LogOvercurrent, Order, NothingForgotten, syncVars
  <2>7. QED
    BY <2>3, <2>4, <2>6 DEF IInv, TypeOK
<1>2. CASE LogSend
  BY <1>0, <1>2
  DEF LogSend, IInv, TypeOK, ControlOK, TimersOK, DataOK, OneSchedule, Spaced,
      Order, NothingForgotten, syncVars, pushVars
<1>3. CASE SyncReceive
  BY <1>0, <1>3
  DEF SyncReceive, IInv, TypeOK, ControlOK, TimersOK, DataOK, OneSchedule,
      Spaced, Order, NothingForgotten, pushVars
<1>4. CASE SyncPeek
  BY <1>0, <1>4
  DEF SyncPeek, IInv, TypeOK, ControlOK, TimersOK, DataOK, OneSchedule,
      Spaced, Order, NothingForgotten, Unlocked, logVars, pushVars
<1>5. CASE SyncTake
  BY <1>0, <1>5
  DEF SyncTake, IInv, TypeOK, ControlOK, TimersOK, DataOK, OneSchedule, Spaced,
      Order, NothingForgotten, Unlocked, Count, pushVars
<1>6. CASE SyncStore
  BY <1>0, <1>6
  DEF SyncStore, IInv, TypeOK, ControlOK, TimersOK, DataOK, OneSchedule, Spaced,
      Order, NothingForgotten, Count, logVars, pushVars
<1>7. CASE PushMessage
  <2>1. chan' \in [val : Count, unread : SUBSET Subs]
    BY <1>0, <1>7, ReadType DEF PushMessage, DataOK
  <2>2. QED
    BY <1>0, <1>7, <2>1, PushIInv DEF PushMessage, DataOK
<1>8. CASE PushTimer
  <2>1. chan' \in [val : Count, unread : SUBSET Subs]
    BY <1>0, <1>8, ReadType, PublishType DEF PushTimer, DataOK
  <2>2. QED
    BY <1>0, <1>8, <2>1, PushIInv DEF PushTimer, DataOK
<1>9. CASE PublishImmediate
  <2>1. chan' \in [val : Count, unread : SUBSET Subs]
    BY <1>0, <1>9, PublishType DEF PublishImmediate, DataOK
  <2>2. QED
    BY <1>0, <1>9, <2>1, PushIInv DEF PublishImmediate, DataOK, TimersOK
<1>10. CASE Consume
  <2>1. chan' \in [val : Count, unread : SUBSET Subs] /\ chan.val \in Count
    BY <1>0, <1>10, ReadType DEF Consume, DataOK
  <2>2. QED
    BY <1>0, <1>10, <2>1, PushIInv DEF Consume, TimersOK
<1>11. CASE Tick
  <2>1. /\ sync_at' \in {None} \cup -1 .. SyncPeriod
        /\ sync_at = None <=> sync_at' = None
        /\ sync_at # None
             => sync_at' = IF sync_at < 0 THEN -1 ELSE sync_at - 1
    BY <1>0, <1>11, RemainingType DEF Tick, TimersOK
  <2>2. timer' \in -1 .. SyncPeriod
    BY <1>0, <1>11 DEF Tick, TimersOK, Remaining
  <2>3. pushTimer' \in -1 .. PushPeriod
    BY <1>0, <1>11 DEF Tick, TimersOK, Remaining
  <2>4. sinceSync' \in 0 .. SyncPeriod
    BY <1>0, <1>11 DEF Tick, TimersOK
  <2>5. ControlOK' /\ DataOK' /\ Order'
    BY <1>0, <1>11 DEF Tick, ControlOK, DataOK, Order
  <2>6. OneSchedule' /\ NothingForgotten'
    BY <1>0, <1>11, <2>1
    DEF Tick, OneSchedule, NothingForgotten
  <2>7. Spaced'
    BY <1>0, <1>11, <2>1 DEF Tick, Spaced, TimersOK
  <2>8. QED
    BY <2>1, <2>2, <2>3, <2>4, <2>5, <2>6, <2>7 DEF IInv, TypeOK, TimersOK
<1>12. CASE Restart
  <2>1. chan' \in [val : Count, unread : SUBSET Subs]
    BY <1>0, <1>12, QuietType DEF Restart, DataOK
  <2>2. DataOK'
    BY <1>0, <1>12, <2>1 DEF Restart, DataOK
  <2>3. ControlOK' /\ TimersOK'
    <3>1. notify' \in BOOLEAN
      BY <1>12 DEF Restart
    <3>2. pushTimer' = PushPeriod /\ sinceSync' = SyncPeriod /\ timer' = 0
          /\ sync_at' = None /\ logPc' = "idle" /\ syncPc' = "receive"
      BY <1>12 DEF Restart
    <3>3. QED
      BY <3>1, <3>2 DEF ControlOK, TimersOK
  <2>4. OneSchedule' /\ Spaced'
    BY <1>12 DEF Restart, OneSchedule, Spaced
  <2>5. Order' /\ NothingForgotten'
    BY <1>0, <1>12 DEF Restart, Order, NothingForgotten, DataOK, Count
  <2>6. QED
    BY <2>2, <2>3, <2>4, <2>5 DEF IInv, TypeOK
<1>13. CASE UNCHANGED vars
  <2>1. UNCHANGED <<logVars, syncVars, pushVars, restarts>>
    BY <1>13 DEF vars
  <2>2. QED
    BY <1>0, <2>1, PushIInv DEF pushVars, DataOK, TimersOK
<1>14. QED
  BY <1>1, <1>2, <1>3, <1>4, <1>5, <1>6, <1>7, <1>8, <1>9, <1>10, <1>11, <1>12,
     <1>13 DEF Next, SyncTask

LEMMA Invariance == Spec => []IInv
<1>1. QED
  BY InitIInv, NextIInv, PTL DEF Spec

-----------------------------------------------------------------------------
\* Every reachable state is well typed: the deadline is set whenever sync_task
\* waits for it.
THEOREM TypeCorrect == Spec => []TypeOK
<1>1. IInv => TypeOK
  BY DEF IInv
<1>2. QED
  BY <1>1, Invariance, PTL

\* monitor_task is never blocked by record.rs's channel (record.rs:75-82).
THEOREM LoggingNeverBlocks == Spec => []SendNeverWaits
<1>1. IInv => SendNeverWaits
  BY DEF IInv, OneSchedule, SendNeverWaits
<1>2. QED
  BY <1>1, Invariance, PTL

\* sync_task never panics for want of a deadline (record.rs:98-103).
THEOREM UnwrapIsSafe == Spec => []DeadlineKnown
<1>1. IInv => DeadlineKnown
  BY DEF IInv, OneSchedule, DeadlineKnown
<1>2. QED
  BY <1>1, Invariance, PTL

\* What is not on flash has its write scheduled or started, however episodes
\* and writes interleave (record.rs:68-82, 95-115).
THEOREM NothingIsForgotten == Spec => []NothingForgotten
<1>1. IInv => NothingForgotten
  BY DEF IInv
<1>2. QED
  BY <1>1, Invariance, PTL

\* Writes start at least SYNC_PERIOD apart, whatever the period and however
\* many episodes there are (record.rs:17-18).
THEOREM WearIsLimited == Spec => WearLimited
<1> DEFINE Apart == syncPc # "store" /\ syncPc' = "store"
                      => sinceSync >= SyncPeriod
<1>1. ASSUME IInv, [Next]_vars PROVE [Apart]_vars
  <2>1. CASE SyncTake
    BY <1>1, <2>1 DEF SyncTake, IInv, TypeOK, TimersOK, OneSchedule, Spaced
  <2>2. CASE SyncReceive \/ SyncPeek \/ SyncStore
    BY <2>2 DEF SyncReceive, SyncPeek, SyncStore
  <2>3. CASE \/ LogOvercurrent \/ LogSend \/ PushMessage \/ PushTimer
             \/ PublishImmediate \/ Consume
    BY <2>3 DEF LogOvercurrent, LogSend, PushMessage, PushTimer,
                PublishImmediate, Consume, syncVars
  <2>4. CASE Tick \/ Restart
    BY <2>4 DEF Tick, Restart
  <2>5. QED
    BY <1>1, <2>1, <2>2, <2>3, <2>4 DEF Next, SyncTask
<1>2. QED
  BY <1>1, Invariance, PTL DEF Spec, WearLimited

\* The record and the flash implement write-behind storage
\* (record.rs:47, 68-82, 95-115).
THEOREM RecordImplementsWriteBehind == Spec => FollowsRecord
<1>1. Init => Durable!Init
  BY DEF Init, Durable!Init
<1>2. IInv /\ [Next]_vars => [Durable!Next]_Durable!vars
  <2> SUFFICES ASSUME IInv, [Next]_vars
               PROVE  [Durable!Next]_Durable!vars
    OBVIOUS
  <2> USE DEF Durable!Next, Durable!Enter, Durable!Sync, Durable!Lose,
              Durable!vars
  <2>1. CASE LogOvercurrent
    BY <2>1 DEF LogOvercurrent, syncVars
  <2>2. CASE SyncStore
    BY <2>2 DEF SyncStore, logVars, IInv, TypeOK, DataOK, Count, Order
  <2>3. CASE Restart
    BY <2>3 DEF Restart
  <2>4. CASE \/ LogSend \/ SyncReceive \/ SyncPeek \/ SyncTake \/ PushMessage
             \/ PushTimer \/ PublishImmediate \/ Consume \/ Tick
    BY <2>4 DEF LogSend, SyncReceive, SyncPeek, SyncTake, PushMessage,
                PushTimer, PublishImmediate, Consume, Tick, logVars, syncVars
  <2>5. CASE UNCHANGED vars
    BY <2>5 DEF vars, logVars, syncVars
  <2>6. QED
    BY <2>1, <2>2, <2>3, <2>4, <2>5 DEF Next, SyncTask
<1>3. QED
  BY <1>1, <1>2, Invariance, PTL DEF Spec, FollowsRecord, Durable!Spec
=============================================================================
