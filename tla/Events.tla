------------------------------- MODULE Events -------------------------------
(***************************************************************************)
(* systems/events.rs with the parts of systems/net.rs it meets: net_task   *)
(* of net.rs alternates between sending the outgoing channel's messages    *)
(* and processing received ones, which update Config; publish_task feeds   *)
(* the outgoing channel from the notifiers of stats, record and config;    *)
(* net_task of events.rs republishes after a connection.  The assembly is  *)
(* that of main.rs with its lines 68-81 in place.                          *)
(***************************************************************************)
EXTENDS Config

VARIABLES
  netPc,        \* net_task of net.rs, outside of process_message
  outgoing,     \* Net::outgoing_channel, of capacity 1: a topic or "none"
  connected,    \* ConnectedMQTT is unread on Net::event_channel
  reports,      \* "stats" and "record": publish_task has it to read
  pubMsg,       \* the message publish_task waits to send, or "none"
  evPc          \* net_task of events.rs

eventsVars ==
  <<netPc, outgoing, connected, reports, pubMsg, evPc>>

allVars == <<configVars, eventsVars>>

EventsInit ==
  /\ ConfigInit
  /\ netPc = "down"
  /\ outgoing = "none"
  /\ connected = FALSE /\ reports = {}
  /\ pubMsg = "none"
  /\ evPc = "next"

-----------------------------------------------------------------------------
(* net_task of net.rs.  While upPc is "publish" it is in process_message. *)

NetSelecting == netPc = "select" /\ Unlocked

\* link_up reaches the broker.
NetConnect ==
  /\ netPc = "down"
  /\ netPc' = "select"
  /\ connected' = TRUE
  /\ UNCHANGED <<configVars, outgoing, reports, pubMsg, evPc>>

\* Slip: the select goes on while a message is processed.
NetTakeOutgoingBusy ==
  /\ netPc = "select"
  /\ outgoing # "none"
  /\ outgoing' = "none"
  /\ netPc' = "sending"
  /\ UNCHANGED <<configVars, connected, reports, pubMsg, evPc>>

\* The select polls the outgoing channel first.
NetTakeOutgoing ==
  /\ NetSelecting
  /\ outgoing # "none"
  /\ outgoing' = "none"
  /\ netPc' = "sending"
  /\ UNCHANGED <<configVars, connected, reports, pubMsg, evPc>>

\* send_message_qos1 ends, acknowledged or not.
NetSent ==
  /\ netPc = "sending"
  /\ netPc' = "select"
  /\ UNCHANGED <<configVars, outgoing, connected, reports, pubMsg,
                 evPc>>

\* A message on the config topic arrives and is processed.
NetTakeIncoming ==
  /\ NetSelecting
  /\ outgoing = "none"
  /\ UpdateChanged
  /\ UNCHANGED eventsVars

\* receive_message fails with NetworkError.
NetDisconnect ==
  /\ NetSelecting
  /\ outgoing = "none"
  /\ netPc' = "down"
  /\ UNCHANGED <<configVars, outgoing, connected, reports, pubMsg,
                 evPc>>

-----------------------------------------------------------------------------
(* The tasks of events.rs.                                                 *)

\* What publish_task's select finds, and which of it the select takes first.
Pending ==
  reports \cup (IF HasMessage(chan, "publish") THEN {"config"} ELSE {})

First(topics) ==
  IF topics = {} THEN "none"
  ELSE IF "stats" \in topics THEN "stats"
  ELSE IF "record" \in topics THEN "record"
  ELSE "config"

Take(topics) ==
  /\ reports' = reports \ topics
  /\ chan' = IF "config" \in topics THEN Read(chan, "publish") ELSE chan

\* Slip: a sender that waits is not woken when there is room again.
PublishSendNoWake ==
  /\ outgoing = "none"
  /\ pubMsg = "none" /\ Pending # {}
  /\ LET sent == First(Pending)
         left == Pending \ {sent}
     IN /\ outgoing' = sent
        /\ pubMsg' = First(left)
        /\ Take((Pending \ left) \cup {First(left)})

\* One poll of publish_task: the first message finds room in the outgoing
\* channel, and the task waits in Net::send with the next one.
PublishSend ==
  /\ outgoing = "none"
  /\ pubMsg # "none" \/ Pending # {}
  /\ LET sent == IF pubMsg # "none" THEN pubMsg ELSE First(Pending)
         left == IF pubMsg # "none" THEN Pending ELSE Pending \ {sent}
     IN /\ outgoing' = sent
        /\ pubMsg' = First(left)
        /\ Take((Pending \ left) \cup {First(left)})

\* One poll of publish_task: there is no room for the first message.
PublishWait ==
  /\ outgoing # "none"
  /\ pubMsg = "none"
  /\ Pending # {}
  /\ pubMsg' = First(Pending)
  /\ Take({First(Pending)})
  /\ UNCHANGED outgoing

PublishTask ==
  /\ PublishSend \/ PublishWait
  /\ UNCHANGED <<settings, flash, upPc, pushPc, rested, applyPc, applying,
                 applied, restarts>>
  /\ UNCHANGED <<netPc, connected, evPc>>

\* ConnectedMQTT: record.publish_immediate, then config.publish_immediate.
Connected ==
  /\ evPc = "next"
  /\ connected
  /\ connected' = FALSE
  /\ reports' = reports \cup {"record"}
  /\ \/ PublishImmediate /\ UNCHANGED evPc
     \/ ~ Unlocked /\ evPc' = "lock" /\ UNCHANGED chan
  /\ UNCHANGED <<settings, flash, upPc, pushPc, rested, applyPc,
                 applying, applied, restarts>>
  /\ UNCHANGED <<netPc, outgoing, pubMsg>>

ConnectedLocked ==
  /\ evPc = "lock"
  /\ PublishImmediate
  /\ evPc' = "next"
  /\ UNCHANGED <<settings, flash, upPc, pushPc, rested, applyPc,
                 applying, applied, restarts>>
  /\ UNCHANGED <<netPc, outgoing, connected, reports, pubMsg>>

\* Stats publishes every second, Record every ten and when it is logged to.
Report ==
  /\ \E r \in {"stats", "record"} \ reports : reports' = reports \cup {r}
  /\ UNCHANGED <<configVars, netPc, outgoing, connected, pubMsg, evPc>>

-----------------------------------------------------------------------------
EventsRunnable ==
  \/ NetSelecting /\ outgoing # "none"
  \/ pubMsg = "none" /\ Pending # {}
  \/ pubMsg # "none" /\ outgoing = "none"
  \/ evPc = "next" /\ connected
  \/ evPc = "lock" /\ Unlocked

EventsRest == ~ EventsRunnable /\ Rest /\ UNCHANGED eventsVars

Restart ==
  /\ ConfigRestart
  /\ netPc' = "down"
  /\ outgoing' = "none"
  /\ connected' = FALSE /\ reports' = {}
  /\ pubMsg' = "none"
  /\ evPc' = "next"

Keep(A) == A /\ UNCHANGED eventsVars

NetTask == NetTakeOutgoing \/ NetSent

EventsNetTask == Connected \/ ConnectedLocked

EventsNext ==
  \/ Keep(UpdatePublish) \/ Keep(Apply)
  \/ EventsRest \/ Keep(PushMessage) \/ Keep(PushTimer) \/ Keep(PushLocked)
  \/ NetConnect \/ NetDisconnect \/ NetTakeIncoming
  \/ NetTask \/ PublishTask \/ EventsNetTask
  \/ Report
  \/ Restart

\* As in Config; and the network's operations end, by their timeouts if not
\* otherwise.  Nothing obliges the broker to be there or to send.
EventsFairness ==
  /\ WF_allVars(Keep(UpdatePublish)) /\ WF_allVars(Keep(Apply))
  /\ SF_allVars(EventsRest)
  /\ WF_allVars(Keep(PushMessage)) /\ WF_allVars(Keep(PushTimer))
  /\ WF_allVars(Keep(PushLocked))
  /\ WF_allVars(NetTask) /\ WF_allVars(PublishTask) /\ WF_allVars(EventsNetTask)

EventsSpec == EventsInit /\ [][EventsNext]_allVars

FairEventsSpec == EventsSpec /\ EventsFairness

-----------------------------------------------------------------------------
Topics == {"none", "stats", "record", "config"}

EventsTypeOK ==
  /\ TypeOK
  /\ netPc \in {"down", "select", "sending"}
  /\ upPc # "idle" => netPc = "select"
  /\ outgoing \in Topics /\ pubMsg \in Topics
  /\ connected \in BOOLEAN
  /\ reports \subseteq {"stats", "record"}
  /\ evPc \in {"next", "lock"}

\* net_task of net.rs waits in update for publish_task to read the settings,
\* and publish_task waits in Net::send for net_task to take its message.
NetCycle ==
  upPc = "publish" /\ HasMessage(chan, "publish")
    /\ pubMsg # "none" /\ outgoing # "none"

\* update waits for push_task to read and push_task for update's lock.
PushCycle == ~ NeverStuck

\* Nothing but these two cycles keeps an update from returning
\* (config.rs:88-105, net.rs:141-165, events.rs:52-91).
UpdateReturnsOrCycle ==
  upPc = "publish" ~> upPc = "idle" \/ NetCycle \/ PushCycle

\* The first of them is for good: no timer, message or reader ends it, only a
\* restart does (net.rs:202-216, config.rs:98, util.rs:10-15).
CyclePermanent == [][NetCycle => NetCycle' \/ Restart]_allVars
=============================================================================
