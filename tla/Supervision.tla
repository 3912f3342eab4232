----------------------------- MODULE Supervision -----------------------------
(***************************************************************************)
(* systems/net.rs as a holder of a watchdog ticket: net_task (pc netPc)    *)
(* goes from the link to a session with the broker and back, and feeds its *)
(* ticket only on the way and between messages; connection_task (conPc)    *)
(* keeps the link up.  Both run on one executor with app of main.rs.  The  *)
(* other holders keep their promise, net_task makes none.                  *)
(***************************************************************************)
EXTENDS Watchdog

CONSTANTS
  ConnectTimeout,  \* seconds of TcpSocket::set_timeout (net.rs:246)
  Attempts         \* of send_message_qos1

ASSUME SupervisionAssumption ==
  /\ ConnectTimeout \in Nat \ {0}
  /\ Attempts \in Nat \ {0}

VARIABLES
  ap, broker,      \* the access point and the broker are reachable
  link, ip,        \* the stack's link, and its address
  conPc,           \* connection_task
  netPc,           \* net_task; "spin": connect fails without suspending
  wait,            \* seconds the present connect has taken
  sock,            \* the session's socket: "open" or "dead"
  outgoing,        \* Net::outgoing_channel is full
  tries,           \* attempts of send_message_qos1 that did not end it
  outage, calm     \* ghosts: seconds since, and of, service and messages

air == <<ap, broker, link, ip>>
session == <<wait, sock, outgoing, tries>>
ghosts == <<outage, calm>>
supVars == <<vars, air, conPc, netPc, session, ghosts>>

\* Tickets of app and of net_task, two of them as soon as Capacity is at least 2.
App == 0
Net == Capacity - 1

Service == link /\ ip /\ broker
InSession == netPc \in {"feed", "select", "process", "sending"}

SupInit ==
  /\ Init
  /\ ap = TRUE /\ broker = TRUE /\ link = FALSE /\ ip = FALSE
  /\ conPc = "start" /\ netPc = "boot"
  /\ wait = 0 /\ sock = "open" /\ outgoing = FALSE
  /\ tries = 0
  /\ outage = 0 /\ calm = 0

-----------------------------------------------------------------------------
(* The surroundings.  In an outage the service is not whole, there is      *)
(* nothing to send, or an update of the settings waits for its consumers;  *)
(* it is over after a calm longer than ConnectTimeout.                     *)

Disturb == calm' = (IF Service' THEN calm ELSE 0) /\ UNCHANGED outage

ApChanges ==
  /\ ap' = ~ ap
  /\ UNCHANGED <<vars, broker, link, ip, conPc, netPc, session, ghosts>>

BrokerChanges ==
  /\ broker' = ~ broker
  /\ UNCHANGED <<vars, ap, link, ip, conPc, netPc, session>>
  /\ Disturb

\* The link drops.  connection_task sees it only while it waits for it.
LinkDown ==
  /\ link /\ ~ ap
  /\ link' = FALSE
  /\ conPc' = IF conPc = "wait" THEN "pause" ELSE conPc
  /\ UNCHANGED <<vars, ap, broker, ip, netPc, session>>
  /\ Disturb

Running == count = Capacity /\ hung = {}

\* The thread executor polls its tasks: nothing halts or occupies it.
Polling == Running /\ netPc # "spin"

\* stack_task drops the address without a link, or asks for one.
StackRuns ==
  /\ Polling
  /\ \/ ip /\ ~ (link /\ ap) /\ ip' = FALSE
     \/ ~ ip /\ link /\ ip' = TRUE
  /\ UNCHANGED <<vars, ap, broker, link, conPc, netPc, session>>
  /\ Disturb

-----------------------------------------------------------------------------
(* connection_task.                                                        *)

SessionForgotten ==
  wait' = 0 /\ sock' = "open" /\ outgoing' = FALSE /\ tries' = 0

\* Every task halts in the panic handler of esp_backtrace, and where it was
\* does not matter any more.
Panic ==
  /\ hung' = Registered(count)
  /\ conPc' = "start" /\ netPc' = "boot"
  /\ SessionForgotten
  /\ outage' = 0 /\ calm' = 0
  /\ UNCHANGED <<count, mask, age, hwAge, air>>

ConMoves(from, to) ==
  /\ Polling
  /\ conPc = from
  /\ conPc' = to
  /\ UNCHANGED <<vars, ap, broker, ip, netPc, session>>

ConStart == ConMoves("start", "connect") /\ UNCHANGED <<link, ghosts>>

ConStartFails == Polling /\ conPc = "start" /\ Panic

ConCheck ==
  /\ ConMoves("check", IF link THEN "arm" ELSE "connect")
  /\ UNCHANGED <<link, ghosts>>

\* wait_for_event begins to listen; what happened before is not seen.
ConArm == ConMoves("arm", "wait") /\ UNCHANGED <<link, ghosts>>

ConPause == ConMoves("pause", "check") /\ UNCHANGED <<link, ghosts>>

ConConnect ==
  /\ ap
  /\ ConMoves("connect", "check")
  /\ link' = TRUE
  /\ Disturb

ConConnectFails ==
  /\ ~ ap
  /\ ConMoves("connect", "pause")
  /\ UNCHANGED <<link, ghosts>>

ConTask ==
  \/ ConStart \/ ConCheck \/ ConArm \/ ConPause \/ ConConnect
  \/ ConConnectFails

-----------------------------------------------------------------------------
(* net_task.                                                               *)

\* main hands out the tickets, net_task's last, and spawns the tasks.
Boot ==
  /\ Ticket
  /\ netPc' = IF count' = Capacity THEN "link" ELSE netPc
  /\ UNCHANGED <<air, conPc, session, ghosts>>

NetMoves(from, to) ==
  /\ Polling
  /\ netPc = from
  /\ netPc' = to
  /\ UNCHANGED <<air, conPc, ghosts>>

NetFeeds(from, to) ==
  /\ NetMoves(from, to)
  /\ InnerFeed(Net, count)
  /\ UNCHANGED <<count, hung, session>>

\* Slip: the ticket is fed while there is no link.
NetLinkSeenFeeds ==
  \/ link /\ NetMoves("link", "ip") /\ UNCHANGED <<vars, session>>
  \/ ~ link /\ NetFeeds("link", "link")

NetLinkSeen == link /\ NetMoves("link", "ip") /\ UNCHANGED <<vars, session>>

NetGotAddress == ip /\ NetFeeds("ip", "up")

NetLinkUp == NetFeeds("up", "check")

\* Slip: a session that broke down is resumed on the same socket.
NetCheckOldSocket ==
  /\ NetMoves("check", IF ~ link THEN "link"
                       ELSE IF sock = "dead" THEN "feed"
                       ELSE IF ip THEN "connect" ELSE "spin")
  /\ UNCHANGED <<vars, session>>

\* A new socket.  Without an address connect fails at once, the loop's only
\* await does not suspend, and the link's state is stack_task's to change.
NetCheck ==
  /\ NetMoves("check", IF ~ link THEN "link"
                       ELSE IF ip THEN "connect" ELSE "spin")
  /\ sock' = "open"
  /\ UNCHANGED <<vars, wait, outgoing, tries>>

NetConnect ==
  /\ Service
  /\ NetMoves("connect", "handshake")
  /\ wait' = 0
  /\ UNCHANGED <<vars, sock, outgoing, tries>>

NetConnectFails ==
  /\ ~ Service \/ wait = ConnectTimeout
  /\ NetMoves("connect", "check")
  /\ wait' = 0
  /\ UNCHANGED <<vars, sock, outgoing, tries>>

\* connect_to_broker and subscribe_to_topic.
NetHandshake ==
  /\ Service /\ sock = "open"
  /\ NetMoves("handshake", "feed")
  /\ UNCHANGED <<vars, session>>

\* They fail in an outage, when the broker refuses, or when another packet
\* comes before the acknowledgement.
NetHandshakeFails == Polling /\ netPc = "handshake" /\ Panic

\* Slip: the ticket is fed before mqtt_connected's loop only.
NetLoopUnfed ==
  NetMoves("feed", "select") /\ UNCHANGED <<vars, session>>

NetLoop == NetFeeds("feed", "select")

NetTakeOutgoing ==
  /\ outgoing
  /\ NetMoves("select", "sending")
  /\ outgoing' = FALSE
  /\ UNCHANGED <<vars, wait, sock, tries>>

\* A packet ends the select: a message, or an error that does not matter.
NetReceive ==
  /\ ~ outgoing /\ Service /\ sock = "open"
  /\ \E to \in {"process", "feed"} : NetMoves("select", to)
  /\ UNCHANGED <<vars, session>>

\* process_message returns.  With new settings that is after Config::update has
\* found room for them, which takes its consumers' time or is never (Events).
NetProcessed == NetMoves("process", "feed") /\ UNCHANGED <<vars, session>>

NetNetworkError ==
  /\ ~ outgoing /\ sock = "dead"
  /\ NetMoves("select", "check")
  /\ UNCHANGED <<vars, session>>

\* An attempt of send_message_qos1 reads an unrelated packet.
SendUnrelated ==
  /\ Service /\ sock = "open"
  /\ LET again == tries + 1 < Attempts IN
       /\ NetMoves("sending", IF again THEN "sending" ELSE "feed")
       /\ tries' = IF again THEN tries + 1 ELSE 0
  /\ UNCHANGED <<vars, wait, sock, outgoing>>

\* An attempt is acknowledged, or fails for the broker's or the socket's
\* reasons, which ends the sending and is logged.
SendEnds ==
  /\ Service \/ sock = "dead"
  /\ NetMoves("sending", "feed")
  /\ tries' = 0
  /\ UNCHANGED <<vars, wait, sock, outgoing>>

\* The socket's timeout, a reset by the peer, or the broker ends the session.
SocketAborts ==
  /\ Running
  /\ sock = "open" /\ netPc \in {"select", "process", "sending"}
  /\ sock' = "dead"
  /\ UNCHANGED <<vars, air, conPc, netPc, ghosts>>
  /\ UNCHANGED <<wait, outgoing, tries>>

-----------------------------------------------------------------------------
\* Holders other than net_task feed on a timer; app only between polls of
\* others, and from its loop only.
OtherFeeds ==
  /\ \E i \in Slots \ {Net} : (i = App => Polling) /\ Feed(i)
  /\ UNCHANGED <<air, conPc, netPc, session, ghosts>>

\* net_task has nothing to do before a second is over.
NetWaits ==
  \/ netPc \in {"boot", "spin", "process"}
  \/ netPc = "link" /\ ~ link
  \/ netPc = "ip" /\ ~ ip
  \/ netPc = "check" /\ ~ Service
  \/ netPc = "connect" /\ wait < ConnectTimeout /\ (Service => wait > 0)
  \/ netPc \in {"handshake", "sending"} /\ ~ Service /\ sock = "open"
  \/ netPc = "select" /\ ~ outgoing /\ sock = "open"

\* Nor connection_task and stack_task: joining a reachable access point and
\* getting an address take less than a second.
LinkWaits ==
  Polling =>
    /\ conPc \in {"wait", "pause"} \/ (conPc = "connect" /\ ~ ap)
    /\ ap /\ link => ip

\* A second passes, with or without a message of publish_task.  What takes no
\* time has been done before.
Second ==
  /\ count > 0 /\ hwAge < Duration
  /\ hung = {} =>
       /\ NetWaits /\ LinkWaits
       /\ \A i \in Registered(count) \ {Net} :
            age[i] < Deadline \/ (i = App /\ netPc = "spin")
  /\ age' = [i \in Slots |-> IF i < count THEN Older(age[i]) ELSE age[i]]
  /\ hwAge' = hwAge + 1
  /\ wait' = IF netPc = "connect" /\ hung = {} THEN wait + 1 ELSE wait
  /\ outgoing' \in {outgoing, outgoing \/ Running}
  /\ calm' = IF ~ (Service /\ outgoing' /\ netPc # "process") THEN 0 ELSE
             IF calm > ConnectTimeout THEN calm ELSE calm + 1
  /\ outage' = IF calm' > ConnectTimeout THEN 0 ELSE
               IF outage < Duration THEN outage + 1 ELSE outage
  /\ UNCHANGED <<count, mask, hung, air, conPc, netPc, sock, tries>>

\* The chip is reset, and with it the radio.
ChipReset ==
  /\ Expire
  /\ link' = FALSE /\ ip' = FALSE
  /\ conPc' = "start" /\ netPc' = "boot"
  /\ SessionForgotten
  /\ outage' = 0 /\ calm' = 0
  /\ UNCHANGED <<ap, broker>>

NetTask ==
  \/ NetLinkSeen \/ NetGotAddress \/ NetLinkUp \/ NetCheck
  \/ NetConnect \/ NetConnectFails \/ NetHandshake \/ NetLoop
  \/ NetTakeOutgoing \/ NetNetworkError
  \/ SendUnrelated \/ SendEnds

SupNext ==
  \/ ApChanges \/ BrokerChanges \/ LinkDown \/ StackRuns
  \/ ConStartFails \/ ConTask
  \/ Boot \/ NetTask \/ NetReceive \/ NetProcessed \/ NetHandshakeFails
  \/ SocketAborts
  \/ OtherFeeds \/ Second \/ ChipReset

\* The executor polls woken tasks and time passes.  Nothing obliges the
\* surroundings, the broker to publish, a socket to notice its peer is gone, or
\* the consumers of an update to read.
SupFairness ==
  /\ WF_supVars(ConTask) /\ WF_supVars(Boot) /\ WF_supVars(NetTask)
  /\ WF_supVars(StackRuns) /\ WF_supVars(OtherFeeds)
  /\ WF_supVars(Second) /\ WF_supVars(ChipReset)

SupSpec == SupInit /\ [][SupNext]_supVars

FairSupSpec == SupSpec /\ SupFairness

-----------------------------------------------------------------------------
SupTypeOK ==
  /\ TypeOK
  /\ ap \in BOOLEAN /\ broker \in BOOLEAN /\ link \in BOOLEAN /\ ip \in BOOLEAN
  /\ conPc \in {"start", "check", "arm", "wait", "pause", "connect"}
  /\ netPc \in {"boot", "link", "ip", "up", "check", "connect", "spin",
                "handshake", "feed", "select", "process", "sending"}
  /\ wait \in 0 .. ConnectTimeout /\ sock \in {"open", "dead"}
  /\ outgoing \in BOOLEAN
  /\ tries \in 0 .. Attempts - 1
  /\ outage \in 0 .. Duration /\ calm \in 0 .. ConnectTimeout + 1

\* net_task promises nothing, and it keeps what it needs to: its ticket is no
\* older than the outage (net.rs:199-205, 233, 320).  However the link, the
\* address and the broker come and go and updates wait, an outage that ends a
\* second before the timeout resets nothing, unless net_task occupies the
\* executor.  What is no outage of the network counts as one for its ticket: a
\* time in which nothing is sent (select), or a received update waits for its
\* consumers (net.rs:214, config.rs:98); Events shows that this may be for ever.
ResetNeedsOutage ==
  hwAge = Duration /\ hung = {} =>
    outage + 1 >= Duration \/ netPc = "spin"

\* The surroundings are fine: the radio starts, what it needs is there, and the
\* broker accepts the session.
Fine ==
  /\ <>[](ap /\ broker)
  /\ <>[][~ ConStartFails /\ (NetHandshakeFails => ~ Service)]_supVars

\* Whatever happened before, a reachable access point and broker end in a
\* session: missed disconnections, halts, a spinning net_task, updates that do
\* not return and sockets that never notice are all ended by the watchdog
\* (net.rs:226-357).
Recovers == Fine => []<>InSession

\* Stats and Events are assembled: a message goes out each second.
Reporting == <>[][Second => outgoing']_supVars

\* The broker does not end a session it can serve.
SessionsKept == <>[][SocketAborts => ~ Service]_supVars

\* Updates return within a second: the consumers read, as in none of the cycles
\* of Events.
UpdatesReturn == <>[][Second => netPc # "process"]_supVars

\* When nothing more goes wrong, updates return and messages go out, sessions
\* last.  (With an update that does not return, the watchdog ends them.)
SessionsLast ==
  Fine /\ Reporting /\ SessionsKept /\ UpdatesReturn => <>[]InSession

\* As long as time passes, whatever the surroundings do, net_task never waits
\* for ever in its select, even with a socket nobody answers and nothing to
\* send (net.rs:205, 246).
SelectEnds ==
  []<><<Second>>_supVars => (netPc = "select" ~> netPc # "select")
=============================================================================
