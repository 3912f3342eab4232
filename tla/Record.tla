------------------------------- MODULE Record -------------------------------
(***************************************************************************)
(* systems/record.rs: the record of over-current episodes in RAM, which    *)
(* sync_task writes to flash SYNC_PERIOD after the first change and        *)
(* push_task repeats to consumers.  monitor_task of power_ext.rs logs from *)
(* the high-priority executor and may do so between any two steps of the   *)
(* thread's tasks.  What is done while Inner is locked is one step, except *)
(* for the send of schedule_sync, the only await that holds the lock.      *)
(*                                                                         *)
(* The record is the number of episodes in it.  As in PowerExt an Instant  *)
(* is the ticks that remain until it, and -1 is past.                      *)
(***************************************************************************)
EXTENDS Integers, PubSub

CONSTANTS
  SyncPeriod,   \* SYNC_PERIOD
  PushPeriod,   \* PUSH_PERIOD
  MaxCount,     \* episodes in the record (a bound)
  MaxRestarts,  \* restarts in a behaviour (a bound)
  None          \* Option::None

ASSUME RecordAssumption ==
  /\ SyncPeriod \in Nat /\ PushPeriod \in Nat
  /\ MaxCount \in Nat /\ MaxRestarts \in Nat
  /\ None \notin Int

VARIABLES
  data, sync_at,  \* Inner
  notify,         \* sync_notifier holds its one message
  logPc,          \* log_overcurrent: "idle", or in "send" with Inner locked
  syncPc,         \* sync_task
  timer, copy,    \* its Timer::at, and the data it is to store
  flash,          \* what Storage holds under RecordData
  chan,           \* data_notifier
  pushTimer,      \* the timer of push_task's select
  seen,           \* what publish_task of events.rs last took since the start
  sinceSync,      \* ghost: ticks since data was last taken to be stored
  restarts

logVars  == <<data, sync_at, notify, logPc>>
syncVars == <<syncPc, timer, copy, flash, sinceSync>>
pushVars == <<chan, pushTimer, seen>>
vars == <<logVars, syncVars, pushVars, restarts>>

\* push_task, and publish_task of events.rs.
Subs == {"push", "publish"}

Unlocked == logPc = "idle"

Init ==
  /\ data = 0 /\ sync_at = None /\ notify = FALSE /\ logPc = "idle"
  /\ syncPc = "receive" /\ timer = 0 /\ copy = 0 /\ flash = 0
  /\ chan = Quiet(0) /\ pushTimer = PushPeriod /\ seen = None
  /\ sinceSync = SyncPeriod
  /\ restarts = 0

-----------------------------------------------------------------------------
(* Record::log_overcurrent and schedule_sync.                              *)

\* Slip: the record is to be stored at once.
LogOvercurrentNow ==
  /\ Unlocked
  /\ data < MaxCount
  /\ data' = data + 1
  /\ chan' = Publish(chan, data + 1, Subs)
  /\ IF sync_at = None
     THEN sync_at' = 0 /\ logPc' = "send"
     ELSE UNCHANGED <<sync_at, logPc>>
  /\ UNCHANGED <<notify, syncVars, pushTimer, seen, restarts>>

LogOvercurrent ==
  /\ Unlocked
  /\ data < MaxCount
  /\ data' = data + 1
  /\ chan' = Publish(chan, data + 1, Subs)
  /\ \/ /\ sync_at = None
        /\ sync_at' = SyncPeriod
        /\ logPc' = "send"
     \/ /\ sync_at # None
        /\ UNCHANGED <<sync_at, logPc>>
  /\ UNCHANGED <<notify, syncVars, pushTimer, seen, restarts>>

\* Slip: the lock is released without a word to sync_task.
LogSendNothing ==
  /\ logPc = "send"
  /\ logPc' = "idle"
  /\ UNCHANGED <<data, sync_at, notify, syncVars, pushVars, restarts>>

\* The send finds room, and Inner is released.
LogSend ==
  /\ logPc = "send"
  /\ ~ notify
  /\ notify' = TRUE
  /\ logPc' = "idle"
  /\ UNCHANGED <<data, sync_at, syncVars, pushVars, restarts>>

-----------------------------------------------------------------------------
(* sync_task.                                                              *)

SyncReceive ==
  /\ syncPc = "receive"
  /\ notify
  /\ notify' = FALSE
  /\ syncPc' = "peek"
  /\ UNCHANGED <<data, sync_at, logPc, timer, copy, flash, sinceSync, pushVars,
                 restarts>>

\* The deadline is read; sync_at.unwrap() panics if there is none.
SyncPeek ==
  /\ syncPc = "peek"
  /\ Unlocked
  /\ timer' = sync_at
  /\ syncPc' = "timer"
  /\ UNCHANGED <<logVars, copy, flash, sinceSync, pushVars, restarts>>

\* The timer has fired; the next change is scheduled anew.
SyncTake ==
  /\ syncPc = "timer"
  /\ timer <= 0
  /\ Unlocked
  /\ sync_at' = None
  /\ copy' = data
  /\ sinceSync' = 0
  /\ syncPc' = "store"
  /\ UNCHANGED <<data, notify, logPc, timer, flash, pushVars, restarts>>

\* Slip: sync_at is reset after the store and not when the data is taken.
SyncStoreResets ==
  /\ syncPc = "store"
  /\ flash' = copy
  /\ sync_at' = None
  /\ syncPc' = "receive"
  /\ UNCHANGED <<data, notify, logPc, timer, copy, sinceSync, pushVars,
                 restarts>>

SyncStore ==
  /\ syncPc = "store"
  /\ flash' = copy
  /\ syncPc' = "receive"
  /\ UNCHANGED <<logVars, timer, copy, sinceSync, pushVars, restarts>>

-----------------------------------------------------------------------------
(* push_task, whose subscriber lives for one round, and the other users.   *)

\* Another's publication starts a new round.
PushMessage ==
  /\ HasMessage(chan, "push")
  /\ chan' = Read(chan, "push")
  /\ pushTimer' = PushPeriod
  /\ UNCHANGED <<logVars, syncVars, seen, restarts>>

\* Slip: the period only starts again.
PushTimerSilent ==
  /\ ~ HasMessage(chan, "push")
  /\ pushTimer <= 0
  /\ pushTimer' = PushPeriod
  /\ UNCHANGED <<logVars, syncVars, chan, seen, restarts>>

\* The period is over: publish_immediate; its own message is missed.
PushTimer ==
  /\ ~ HasMessage(chan, "push")
  /\ pushTimer <= 0
  /\ Unlocked
  /\ chan' = Read(Publish(chan, data, Subs), "push")
  /\ pushTimer' = PushPeriod
  /\ UNCHANGED <<logVars, syncVars, seen, restarts>>

\* Record::publish_immediate, by net_task of events.rs when MQTT connects.
PublishImmediate ==
  /\ Unlocked
  /\ chan' = Publish(chan, data, Subs)
  /\ UNCHANGED <<logVars, syncVars, pushTimer, seen, restarts>>

\* publish_task of events.rs takes the record to send it, at a time of its own
\* or never again: it waits for the network in between.
Consume ==
  /\ HasMessage(chan, "publish")
  /\ chan' = Read(chan, "publish")
  /\ seen' = chan.val
  /\ UNCHANGED <<logVars, syncVars, pushTimer, restarts>>

-----------------------------------------------------------------------------
Remaining(t) == IF t = None THEN None ELSE IF t < 0 THEN -1 ELSE t - 1

Tick ==
  /\ sync_at' = Remaining(sync_at)
  /\ timer' = Remaining(timer)
  /\ pushTimer' = Remaining(pushTimer)
  /\ sinceSync' = IF sinceSync < SyncPeriod THEN sinceSync + 1 ELSE sinceSync
  /\ UNCHANGED <<data, notify, logPc, syncPc, copy, flash, chan, seen, restarts>>

\* Slip: init starts from the default record.
RestartDefault ==
  /\ restarts < MaxRestarts
  /\ restarts' = restarts + 1
  /\ data' = 0 /\ sync_at' = None /\ notify' = FALSE /\ logPc' = "idle"
  /\ syncPc' = "receive" /\ timer' = 0 /\ copy' = 0
  /\ chan' = Quiet(0) /\ pushTimer' = PushPeriod
  /\ sinceSync' = SyncPeriod /\ seen' = None
  /\ UNCHANGED flash

\* A reset in any state; Record::init fetches the stored record.
Restart ==
  /\ restarts < MaxRestarts
  /\ restarts' = restarts + 1
  /\ data' = flash /\ sync_at' = None /\ notify' = FALSE /\ logPc' = "idle"
  /\ syncPc' = "receive" /\ timer' = 0 /\ copy' = flash
  /\ chan' = Quiet(flash) /\ pushTimer' = PushPeriod
  /\ sinceSync' = SyncPeriod /\ seen' = None
  /\ UNCHANGED flash

SyncTask == SyncReceive \/ SyncPeek \/ SyncTake \/ SyncStore

Next ==
  \/ LogOvercurrent \/ LogSend
  \/ SyncTask
  \/ PushMessage \/ PushTimer \/ PublishImmediate \/ Consume
  \/ Tick
  \/ Restart

\* Tasks that were woken are polled and time passes.  Nobody is obliged to log,
\* nor publish_task to read.
Fairness ==
  /\ WF_vars(LogSend)
  /\ WF_vars(SyncTask)
  /\ WF_vars(PushMessage) /\ WF_vars(PushTimer)
  /\ WF_vars(Tick)

Spec == Init /\ [][Next]_vars

FairSpec == Spec /\ Fairness

-----------------------------------------------------------------------------
Count == 0 .. MaxCount

ControlOK ==
  /\ logPc \in {"idle", "send"}
  /\ syncPc \in {"receive", "peek", "timer", "store"}
  /\ notify \in BOOLEAN

TimersOK ==
  /\ sync_at \in {None} \cup -1 .. SyncPeriod
  /\ timer \in -1 .. SyncPeriod
  /\ pushTimer \in -1 .. PushPeriod
  /\ sinceSync \in 0 .. SyncPeriod

DataOK ==
  /\ data \in Count /\ copy \in Count /\ flash \in Count
  /\ seen \in Count \cup {None}
  /\ chan \in [val : Count, unread : SUBSET Subs]
  /\ restarts \in 0 .. MaxRestarts

TypeOK == ControlOK /\ TimersOK /\ DataOK

\* log_overcurrent never waits in send: monitor_task would hold the output's
\* lock and sync_task would need Inner's to make room (record.rs:75-82).
SendNeverWaits == logPc = "send" => ~ notify

\* sync_task's sync_at.unwrap() does not panic (record.rs:98-103).
DeadlineKnown == syncPc = "peek" => sync_at # None

\* Whatever is not on flash has its write scheduled, or is being written: no
\* change falls between the copy that is stored and the next schedule
\* (record.rs:78-81, 106-112).
NothingForgotten ==
  data > flash => sync_at # None \/ (syncPc = "store" /\ copy = data)

\* "Write records every once in a while to prevent flash wear" (record.rs:17):
\* between restarts, writes start at least SYNC_PERIOD apart.
WearLimited ==
  [][syncPc # "store" /\ syncPc' = "store" => sinceSync >= SyncPeriod]_vars

\* The flash follows the record, never back, and a restart loses only what was
\* not written (record.rs:47, 95-115).
Durable == INSTANCE WriteBehind WITH memory <- data, disk <- flash
FollowsRecord == Durable!Spec

\* Every episode gets to the flash unless a restart forgets it.
RecordReachesFlash ==
  \A n \in 1 .. MaxCount : data >= n ~> flash >= n \/ data < n

\* In the end publish_task has taken the record as it is kept, or finds it when
\* it reads, however late that is, whatever it missed, and also after a restart
\* that took episodes back which were already sent (record.rs:118-131).
RecordOffered ==
  <>[]( /\ chan.val = data
        /\ HasMessage(chan, "publish") \/ seen = data )
=============================================================================
