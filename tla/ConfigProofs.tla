---------------------------- MODULE ConfigProofs ----------------------------
(***************************************************************************)
(* Theorems about Config, and about Events, for any number of changes and  *)
(* restarts, and any consumers.                                            *)
(*                                                                         *)
(* The argument: versions are handed on in one direction, from RAM and     *)
(* flash to the channel, to config_task's message and to the converter,    *)
(* and each is at most the one it came from.  push_task cannot be waiting  *)
(* for update's lock, because all tasks waited since its period began and  *)
(* any later message would have begun a new one.                           *)
(*                                                                         *)
(* The assembly of Events implements Config: publish_task is a consumer,   *)
(* and net_task of events.rs publishes what is set already.  So all that   *)
(* holds of Config for any consumers holds in the assembly.                *)
(***************************************************************************)
EXTENDS Events, TLAPS

USE ConfigAssumption

\* The order in which versions are handed on.
Order ==
  /\ settings = flash
  /\ chan.val <= flash
  /\ applied <= chan.val
  /\ applyPc = "persist" => applied <= applying /\ applying <= chan.val

IInv == TypeOK /\ Order

\* An empty channel is a channel.
LEMMA QuietType ==
  ASSUME NEW v \in Version
  PROVE  /\ Quiet(v) \in [val : Version, unread : SUBSET Subs]
         /\ Quiet(v).val = v
<1>1. {} \in SUBSET Subs
  OBVIOUS
<1>2. QED
  BY <1>1 DEF Quiet

LEMMA InitIInv == ConfigInit => IInv
<1> SUFFICES ASSUME ConfigInit PROVE IInv
  OBVIOUS
<1>1. 0 \in Version
  BY DEF Version
<1>2. /\ chan \in [val : Version, unread : SUBSET Subs]
      /\ chan.val = 0
  BY <1>1, QuietType DEF ConfigInit
<1>3. /\ settings = 0 /\ flash = 0 /\ upPc = "idle" /\ pushPc = "select"
      /\ rested = FALSE /\ applyPc = "next" /\ applying = 0 /\ applied = 0
      /\ restarts = 0
  BY DEF ConfigInit
<1>4. TypeOK
  <2>1. restarts \in 0 .. MaxRestarts
    BY <1>3
  <2>2. rested \in BOOLEAN
    BY <1>3
  <2>3. QED
    BY <1>1, <1>2, <1>3, <2>1, <2>2 DEF TypeOK
<1>5. Order
  BY <1>2, <1>3 DEF Order
<1>6. QED
  BY <1>4, <1>5 DEF IInv

LEMMA NextIInv == IInv /\ [Next]_configVars => IInv'
<1> SUFFICES ASSUME IInv, [Next]_configVars PROVE IInv'
  OBVIOUS
<1> USE DEF IInv, Version
<1>1. CASE UpdateChanged
  <2>1. TypeOK'
    BY <1>1 DEF UpdateChanged, TypeOK, Publish
  <2>2. Order'
    BY <1>1 DEF UpdateChanged, TypeOK, Order, Publish
  <2>3. QED
    BY <2>1, <2>2
<1>2. CASE UpdatePublish
  <2>1. TypeOK'
    BY <1>2 DEF UpdatePublish, TypeOK, Publish
  <2>2. Order'
    BY <1>2 DEF UpdatePublish, TypeOK, Order, Publish
  <2>3. QED
    BY <2>1, <2>2
<1>3. CASE Rest
  BY <1>3 DEF Rest, TypeOK, Order
<1>4. CASE PushMessage
  <2>1. TypeOK'
    BY <1>4 DEF PushMessage, TypeOK, Read
  <2>2. Order'
    BY <1>4 DEF PushMessage, TypeOK, Order, Read
  <2>3. QED
    BY <2>1, <2>2
<1>5. CASE PushTimer
  <2>1. TypeOK'
    BY <1>5 DEF PushTimer, PushImmediate, TypeOK, Publish, Read
  <2>2. Order'
    BY <1>5 DEF PushTimer, PushImmediate, TypeOK, Order, Publish, Read
  <2>3. QED
    BY <2>1, <2>2
<1>6. CASE PushLocked
  <2>1. TypeOK'
    BY <1>6 DEF PushLocked, PushImmediate, TypeOK, Publish, Read
  <2>2. Order'
    BY <1>6 DEF PushLocked, PushImmediate, TypeOK, Order, Publish, Read
  <2>3. QED
    BY <2>1, <2>2
<1>7. CASE ApplyMessage
  <2>1. TypeOK'
    BY <1>7 DEF ApplyMessage, TypeOK, Read
  <2>2. Order'
    BY <1>7 DEF ApplyMessage, TypeOK, Order, Read
  <2>3. QED
    BY <2>1, <2>2
<1>8. CASE ApplyPersist
  BY <1>8 DEF ApplyPersist, TypeOK, Order
<1>9. CASE ConfigRestart
  <2>1. flash \in Version
    BY DEF TypeOK
  <2>2. /\ chan' \in [val : Version, unread : SUBSET Subs]
        /\ chan'.val = flash
    BY <1>9, <2>1, QuietType DEF ConfigRestart
  <2>3. restarts' \in 0 .. MaxRestarts
    BY <1>9 DEF ConfigRestart, TypeOK
  <2>4. TypeOK'
    BY <1>9, <2>1, <2>2, <2>3 DEF ConfigRestart, TypeOK
  <2>5. Order'
    BY <1>9, <2>1, <2>2 DEF ConfigRestart, Order
  <2>6. QED
    BY <2>4, <2>5
<1>10. ASSUME NEW s \in Subs, Consume(s) PROVE IInv'
  <2>1. TypeOK'
    BY <1>10 DEF Consume, TypeOK, Read
  <2>2. Order'
    BY <1>10 DEF Consume, TypeOK, Order, Read
  <2>3. QED
    BY <2>1, <2>2
<1>11. CASE Republish
  <2>1. TypeOK'
    BY <1>11 DEF Republish, PublishImmediate, TypeOK, Publish
  <2>2. Order'
    BY <1>11 DEF Republish, PublishImmediate, TypeOK, Order, Publish
  <2>3. QED
    BY <2>1, <2>2
<1>12. CASE UNCHANGED configVars
  BY <1>12 DEF configVars, TypeOK, Order
<1>13. QED
  BY <1>1, <1>2, <1>3, <1>4, <1>5, <1>6, <1>7, <1>8, <1>9, <1>10, <1>11,
     <1>12
  DEF Next, Push, Apply

LEMMA Invariance == Spec => []IInv
<1>1. QED
  BY InitIInv, NextIInv, PTL DEF Spec, Init

-----------------------------------------------------------------------------
\* Every reachable state is well typed; no subscriber outside of Subs ever has
\* a message (util.rs:10-15, config.rs:118-120).
THEOREM TypeCorrect == Spec => []TypeOK
<1>1. IInv => TypeOK
  BY DEF IInv
<1>2. QED
  BY <1>1, Invariance, PTL

\* For any consumers, changes and restarts: nothing is published or applied
\* that is not stored (config.rs:92-98).
THEOREM VisibleIsDurable == Spec => []DurableBeforeVisible
<1>1. IInv => DurableBeforeVisible
  BY DEF IInv, TypeOK, Version, Order, DurableBeforeVisible
<1>2. QED
  BY <1>1, Invariance, PTL

\* A step of Config is one of the replica, or none.
LEMMA ConfigStepFollows ==
  IInv /\ [Next]_configVars => [ReplicaOfFlash!Next]_ReplicaOfFlash!vars
<1> SUFFICES ASSUME IInv, [Next]_configVars
             PROVE  [ReplicaOfFlash!Next]_ReplicaOfFlash!vars
  OBVIOUS
<1> USE DEF IInv, TypeOK, Version, Order, ReplicaOfFlash!Next,
            ReplicaOfFlash!Advance, ReplicaOfFlash!Follow,
            ReplicaOfFlash!vars
<1>1. CASE UpdateChanged
  BY <1>1 DEF UpdateChanged
<1>2. CASE UpdatePublish \/ Push \/ ApplyMessage \/ Republish
  BY <1>2 DEF UpdatePublish, Push, Rest, PushMessage, PushTimer, PushLocked,
              ApplyMessage, Republish
<1>3. CASE ApplyPersist
  BY <1>3 DEF ApplyPersist
<1>4. CASE ConfigRestart
  BY <1>4 DEF ConfigRestart
<1>5. ASSUME NEW s \in Subs, Consume(s)
      PROVE  UNCHANGED <<flash, applied>>
  BY <1>5 DEF Consume
<1>6. CASE UNCHANGED configVars
  BY <1>6 DEF configVars
<1>7. QED
  BY <1>1, <1>2, <1>3, <1>4, <1>5, <1>6 DEF Next, Apply

\* For any consumers, changes and restarts: the converter's settings implement
\* a replica of the stored ones that never runs ahead and never goes back
\* (config.rs:66-105, power_ext.rs:83, 137-144).
THEOREM ConfigImplementsReplica == Spec => FollowsFlash
<1>1. ConfigInit => ReplicaOfFlash!Init
  BY DEF ConfigInit, ReplicaOfFlash!Init
<1>2. QED
  BY <1>1, ConfigStepFollows, Invariance, PTL DEF Spec, Init, FollowsFlash,
     ReplicaOfFlash!Spec

-----------------------------------------------------------------------------
\* push_task is never due while a message of its period waits somewhere: either
\* that message is its own to read, or all tasks have read theirs.
Due ==
  /\ pushPc = "select"
  /\ rested /\ ~ HasMessage(chan, "push") => ~ Full(chan) /\ upPc = "idle"

\* In the assembly where only push_task and config_task subscribe, update and
\* push_task never wait for each other, for any number of changes and restarts
\* (config.rs:88-105, 124-138).
THEOREM PushNeverBlocksUpdate ==
  ASSUME Subs \subseteq {"push", "power"}
  PROVE  Spec => []NeverStuck
<1> USE DEF HasMessage, Full, Read, Publish
<1>1. ConfigInit => Due
  BY DEF ConfigInit, Due, Quiet
<1>2. IInv /\ Due /\ [Next]_configVars => Due'
  <2> SUFFICES ASSUME IInv, Due, [Next]_configVars PROVE Due'
    OBVIOUS
  <2> USE DEF IInv, TypeOK, Due
  <2>1. CASE UpdateChanged
    BY <2>1 DEF UpdateChanged
  <2>2. CASE UpdatePublish
    BY <2>2 DEF UpdatePublish
  <2>3. CASE Rest
    <3>1. ~ HasMessage(chan, "power") /\ ~ HasMessage(chan, "push")
      BY <2>3 DEF Rest, Runnable
    <3>2. chan.unread = {}
      BY <3>1
    <3>3. QED
      BY <2>3, <3>2 DEF Rest, Runnable
  <2>4. CASE PushMessage
    BY <2>4 DEF PushMessage
  <2>5. CASE PushTimer
    BY <2>5 DEF PushTimer, PushImmediate, Unlocked
  <2>6. CASE PushLocked
    BY <2>6 DEF PushLocked
  <2>7. CASE ApplyMessage
    BY <2>7 DEF ApplyMessage
  <2>8. CASE ApplyPersist
    BY <2>8 DEF ApplyPersist
  <2>9. CASE ConfigRestart
    BY <2>9 DEF ConfigRestart, Quiet
  <2>10. ASSUME NEW s \in Subs, Consume(s) PROVE FALSE
    BY <2>10 DEF Consume
  <2>11. CASE Republish
    BY <2>11 DEF Republish
  <2>12. CASE UNCHANGED configVars
    BY <2>12 DEF configVars
  <2>13. QED
    BY <2>1, <2>2, <2>3, <2>4, <2>5, <2>6, <2>7, <2>8, <2>9, <2>10, <2>11,
       <2>12
    DEF Next, Push, Apply
<1>3. Due => NeverStuck
  BY DEF Due, NeverStuck
<1>4. QED
  BY <1>1, <1>2, <1>3, Invariance, PTL DEF Spec, Init

-----------------------------------------------------------------------------
\* Where the tasks of net.rs and events.rs are.
TasksType ==
  /\ netPc \in {"down", "select", "sending"}
  /\ upPc # "idle" => netPc = "select"
  /\ outgoing \in Topics /\ pubMsg \in Topics
  /\ connected \in BOOLEAN
  /\ reports \subseteq {"stats", "record"}
  /\ evPc \in {"next", "lock"}

EventsIInv == IInv /\ TasksType

\* What a poll of publish_task takes first is something it has.
LEMMA FirstIsThere ==
  ASSUME NEW T \in SUBSET {"stats", "record", "config"}
  PROVE  First(T) \in T \cup {"none"}
  BY DEF First

\* A poll of publish_task reads its message, or leaves the channel alone.
LEMMA PublishTaskConsumes ==
  ASSUME "publish" \in Subs, TasksType, PublishTask
  PROVE  Consume("publish") \/ UNCHANGED configVars
<1>1. /\ Pending \in SUBSET {"stats", "record", "config"}
      /\ "config" \in Pending => HasMessage(chan, "publish")
  BY DEF Pending, TasksType
<1>2. ASSUME NEW topics, Take(topics), "config" \in topics => "config" \in Pending
      PROVE  \/ HasMessage(chan, "publish") /\ chan' = Read(chan, "publish")
             \/ chan' = chan
  BY <1>1, <1>2 DEF Take
<1>3. CASE PublishWait
  <2>1. First(Pending) \in Pending \cup {"none"}
    BY <1>1, FirstIsThere
  <2>2. QED
    BY <1>2, <1>3, <2>1 DEF PublishWait, PublishTask, Consume, configVars
<1>4. CASE PublishSend
  <2> DEFINE sent == IF pubMsg # "none" THEN pubMsg ELSE First(Pending)
             left == IF pubMsg # "none" THEN Pending ELSE Pending \ {sent}
             taken == (Pending \ left) \cup {First(left)}
  <2>1. First(left) \in left \cup {"none"} /\ left \subseteq Pending
    BY <1>1, FirstIsThere
  <2>2. Take(taken)
    BY <1>4 DEF PublishSend
  <2>3. "config" \in taken => "config" \in Pending
    BY <2>1
  <2> HIDE DEF taken
  <2>4. QED
    BY <1>2, <2>2, <2>3 DEF PublishTask, Consume, configVars
<1>5. QED
  BY <1>3, <1>4 DEF PublishTask

\* What a step of the assembly is to Config.
LEMMA StepOfConfig ==
  ASSUME "publish" \in Subs, TasksType, [EventsNext]_allVars
  PROVE  [Next]_configVars
<1>1. CASE PublishTask
  BY <1>1, PublishTaskConsumes DEF Next
<1>2. CASE EventsNetTask
  BY <1>2 DEF EventsNetTask, Connected, ConnectedLocked, Republish, Next,
              configVars
<1>3. CASE NetTask \/ NetConnect \/ NetDisconnect \/ Report
  BY <1>3 DEF NetTask, NetTakeOutgoing, NetSent, NetConnect, NetDisconnect,
              Report
<1>4. CASE Keep(UpdatePublish) \/ Keep(Apply) \/ EventsRest
             \/ Keep(PushMessage) \/ Keep(PushTimer) \/ Keep(PushLocked)
             \/ NetTakeIncoming \/ Restart
  BY <1>4 DEF Keep, EventsRest, NetTakeIncoming, Restart, Next, Push
<1>5. CASE UNCHANGED allVars
  BY <1>5 DEF allVars
<1>6. QED
  BY <1>1, <1>2, <1>3, <1>4, <1>5 DEF EventsNext

LEMMA EventsInit0 == EventsInit => EventsIInv
<1> SUFFICES ASSUME EventsInit PROVE EventsIInv
  OBVIOUS
<1>1. IInv
  BY InitIInv DEF EventsInit
<1>2. connected \in BOOLEAN
  BY DEF EventsInit
<1>3. TasksType
  BY <1>2 DEF EventsInit, ConfigInit, TasksType, Topics
<1>4. QED
  BY <1>1, <1>3 DEF EventsIInv

LEMMA EventsStep ==
  ASSUME "publish" \in Subs
  PROVE  EventsIInv /\ [EventsNext]_allVars => EventsIInv'
<1> SUFFICES ASSUME EventsIInv, [EventsNext]_allVars PROVE EventsIInv'
  OBVIOUS
<1>1. IInv /\ TasksType /\ upPc \in {"idle", "publish"}
  BY DEF EventsIInv, IInv, TypeOK
<1>2. IInv'
  BY <1>1, StepOfConfig, NextIInv
<1>3. First(Pending) \in Topics /\ \A S : First(S) \in Topics
  BY DEF First, Topics
<1>4. TasksType'
  <2>1. CASE Restart
    <3>1. netPc' = "down" /\ outgoing' = "none" /\ reports' = {}
          /\ pubMsg' = "none" /\ evPc' = "next" /\ upPc' = "idle"
      BY <2>1 DEF Restart, ConfigRestart
    <3>2. connected' \in BOOLEAN
      BY <2>1 DEF Restart
    <3>3. QED
      BY <3>1, <3>2 DEF TasksType, Topics
  <2>2. CASE PublishTask
    <3>1. reports' \subseteq reports
      BY <2>2 DEF PublishTask, PublishSend, PublishWait, Take
    <3>2. outgoing' \in Topics /\ pubMsg' \in Topics
      BY <1>1, <1>3, <2>2 DEF PublishTask, PublishSend, PublishWait, TasksType
    <3>3. UNCHANGED <<netPc, upPc, connected, evPc>>
      BY <2>2 DEF PublishTask
    <3>4. QED
      BY <1>1, <3>1, <3>2, <3>3 DEF TasksType
  <2>3. CASE EventsNetTask
    <3>1. UNCHANGED <<netPc, upPc, outgoing, pubMsg>>
      BY <2>3 DEF EventsNetTask, Connected, ConnectedLocked
    <3>2. connected' \in BOOLEAN
      BY <1>1, <2>3 DEF EventsNetTask, Connected, ConnectedLocked, TasksType
    <3>3. reports' \subseteq {"stats", "record"} /\ evPc' \in {"next", "lock"}
      BY <1>1, <2>3 DEF EventsNetTask, Connected, ConnectedLocked, TasksType
    <3>4. QED
      BY <1>1, <3>1, <3>2, <3>3 DEF TasksType
  <2>4. CASE Report
    BY <1>1, <2>4 DEF Report, TasksType, configVars
  <2>5. CASE NetConnect
    <3>1. connected' \in BOOLEAN
      BY <2>5 DEF NetConnect
    <3>2. QED
      BY <1>1, <2>5, <3>1 DEF NetConnect, TasksType, configVars
  <2>6. CASE NetTask \/ NetDisconnect
    BY <1>1, <2>6 DEF NetTask, NetTakeOutgoing, NetSent, NetDisconnect,
       NetSelecting, Unlocked, TasksType, Topics, configVars
  <2>7. CASE NetTakeIncoming
    BY <1>1, <2>7 DEF NetTakeIncoming, NetSelecting, TasksType, eventsVars
  <2>8. CASE Keep(UpdatePublish)
    BY <1>1, <2>8 DEF Keep, UpdatePublish, TasksType, eventsVars
  <2>9. CASE Keep(Apply) \/ EventsRest \/ Keep(PushMessage)
               \/ Keep(PushTimer) \/ Keep(PushLocked)
    BY <1>1, <2>9 DEF Keep, Apply, ApplyMessage, ApplyPersist, EventsRest,
       Rest, PushMessage, PushTimer, PushLocked, TasksType, eventsVars
  <2>10. CASE UNCHANGED allVars
    BY <1>1, <2>10 DEF allVars, eventsVars, configVars, TasksType
  <2>11. QED
    BY <2>1, <2>2, <2>3, <2>4, <2>5, <2>6, <2>7, <2>8, <2>9, <2>10
    DEF EventsNext
<1>5. QED
  BY <1>2, <1>4 DEF EventsIInv

LEMMA EventsInvariance ==
  ASSUME "publish" \in Subs
  PROVE  EventsSpec => []EventsIInv
  BY EventsInit0, EventsStep, PTL DEF EventsSpec

-----------------------------------------------------------------------------
\* Every reachable state of the assembly is well typed; an update that waits is
\* one of a net_task that is connected (net.rs:141-165, 202-216).
THEOREM EventsTypeCorrect ==
  ASSUME "publish" \in Subs
  PROVE  EventsSpec => []EventsTypeOK
<1>1. EventsIInv => EventsTypeOK
  BY DEF EventsIInv, IInv, TasksType, EventsTypeOK
<1>2. QED
  BY <1>1, EventsInvariance, PTL

\* Whatever consumers there are, net_task and publish_task wait for each other
\* until the restart, once they do (net.rs:202-216, config.rs:98).
THEOREM CycleEndsInRestart ==
  ASSUME "publish" \in Subs
  PROVE  EventsSpec => CyclePermanent
<1>1. ASSUME EventsIInv, [EventsNext]_allVars, NetCycle
      PROVE  NetCycle' \/ Restart
  <2> USE DEF NetCycle, HasMessage
  <2>1. CASE Keep(UpdatePublish) \/ Keep(PushTimer) \/ Keep(PushLocked)
               \/ EventsNetTask
    BY <1>1, <2>1 DEF Keep, UpdatePublish, Full, PushTimer, PushLocked,
       PushImmediate, EventsNetTask, Connected, ConnectedLocked,
       PublishImmediate, Unlocked, eventsVars
  <2>2. CASE Keep(Apply) \/ Keep(PushMessage)
    <3>1. chan \in [val : Version, unread : SUBSET Subs]
      BY <1>1 DEF EventsIInv, IInv, TypeOK
    <3>2. QED
      BY <1>1, <2>2, <3>1 DEF Keep, Apply, ApplyMessage, ApplyPersist, PushMessage,
         Read, eventsVars
  <2>3. CASE EventsRest \/ Report
    BY <1>1, <2>3 DEF EventsRest, Rest, Report, eventsVars, configVars
  <2>4. CASE NetTakeIncoming \/ NetTakeOutgoing \/ NetDisconnect
    BY <1>1, <2>4 DEF NetTakeIncoming, NetTakeOutgoing, NetDisconnect,
       NetSelecting, Unlocked
  <2>5. CASE NetSent \/ NetConnect
    BY <1>1, <2>5 DEF NetSent, NetConnect, configVars
  <2>6. CASE PublishTask
    BY <1>1, <2>6 DEF PublishTask, PublishSend, PublishWait
  <2>7. CASE UNCHANGED allVars
    BY <1>1, <2>7 DEF allVars, configVars, eventsVars
  <2>8. QED
    BY <1>1, <2>1, <2>2, <2>3, <2>4, <2>5, <2>6, <2>7 DEF EventsNext, NetTask
<1>2. QED
  BY <1>1, EventsInvariance, PTL DEF EventsSpec, CyclePermanent

\* With the network, the broker's messages and every report in place, the
\* settings are handled as Config says (config.rs:66-139, events.rs:27-91).
THEOREM EventsImplementsConfig ==
  ASSUME "publish" \in Subs
  PROVE  EventsSpec => Spec
<1>1. EventsInit => Init
  BY DEF EventsInit, Init
<1>2. EventsIInv /\ [EventsNext]_allVars => [Next]_configVars
  BY StepOfConfig DEF EventsIInv
<1>3. QED
  BY <1>1, <1>2, EventsInvariance, PTL DEF EventsSpec, Spec

\* So what is published or applied in the assembly is stored before
\* (config.rs:92-98), and the converter follows the stored settings: never
\* ahead, never back (config.rs:66-105, events.rs:27-91).
THEOREM EventsFollowsFlash ==
  ASSUME "publish" \in Subs
  PROVE  EventsSpec => []DurableBeforeVisible /\ FollowsFlash
  BY EventsImplementsConfig, VisibleIsDurable, ConfigImplementsReplica, PTL
=============================================================================
