-------------------------- MODULE SupervisionProofs --------------------------
(***************************************************************************)
(* Theorems about Watchdog for every capacity, timeout and wiggle, and     *)
(* about Supervision for every number of attempts and connect timeout.     *)
(*                                                                         *)
(* The argument: a ticket whose bit is set was fed since the peripheral    *)
(* was, one whose bit is clear was not, and some bit is always clear.  So  *)
(* the peripheral is as old as the oldest promise that is still open.      *)
(* Any holder keeps these rounds, whatever it promises; so a reset names a *)
(* ticket nobody fed for the whole time, and where net_task is shows how   *)
(* long the service was not whole.                                         *)
(***************************************************************************)
EXTENDS Supervision, TLAPS

LEMMA DeadlineType == Deadline \in Nat /\ Deadline <= Duration
  BY WatchdogAssumption DEF Deadline

USE WatchdogAssumption, DeadlineType DEF Slots, Registered

\* A set bit: the ticket was fed since the peripheral was.  A clear bit: not.
MaskMeansFed ==
  \A i \in Registered(count) :
    /\ i \in mask => age[i] <= hwAge
    /\ i \notin mask => hwAge <= age[i]

\* A round that is complete is over: some ticket is always still to be fed.
RoundOpen ==
  IF count = 0 THEN hwAge = 0 ELSE \E i \in Registered(count) : i \notin mask

Rounds == MaskMeansFed /\ RoundOpen

\* What a feed of ticket i does, be its holder new, late or on time.
LEMMA FeedRounds ==
  ASSUME NEW n \in 1 .. Capacity, NEW i \in 0 .. n - 1,
         TypeOK, Rounds, count <= n,
         \A k \in 0 .. n - 1 : k # i => k < count,
         count' = n, InnerFeed(i, n), hung' = hung
  PROVE  /\ TypeOK' /\ Rounds'
         /\ age'[i] = 0 /\ \A k \in Slots : k # i => age'[k] = age[k]
<1>1. /\ age' \in [Slots -> Nat] /\ age'[i] = 0
      /\ \A k \in Slots : k # i => age'[k] = age[k]
  BY DEF InnerFeed, TypeOK
<1>2. CASE 0 .. n - 1 \subseteq mask \cup {i}
  <2>1. mask' = {} /\ hwAge' = 0 BY <1>2 DEF InnerFeed
  <2>2. TypeOK' BY <1>1, <2>1 DEF TypeOK
  <2>3. \A j \in 0 .. n - 1 : 0 <= age'[j] BY <1>1
  <2>4. Rounds' BY <2>1, <2>3 DEF Rounds, MaskMeansFed, RoundOpen
  <2> QED BY <1>1, <2>2, <2>4
<1>3. CASE ~ (0 .. n - 1 \subseteq mask \cup {i})
  <2>1. mask' = mask \cup {i} /\ hwAge' = hwAge BY <1>3 DEF InnerFeed
  <2>2. TypeOK' BY <1>1, <2>1 DEF TypeOK
  <2>3. ASSUME NEW j \in 0 .. n - 1
        PROVE  /\ j \in mask' => age'[j] <= hwAge'
               /\ j \notin mask' => hwAge' <= age'[j]
    <3>1. CASE j = i
      BY <1>1, <2>1, <3>1 DEF TypeOK
    <3>2. CASE j # i
      <4>1. j < count /\ age'[j] = age[j] BY <1>1, <3>2
      <4>2. j \in mask' <=> j \in mask BY <2>1, <3>2
      <4> QED BY <2>1, <4>1, <4>2 DEF TypeOK, Rounds, MaskMeansFed, RoundOpen
    <3> QED BY <3>1, <3>2
  <2>4. Rounds' BY <1>3, <2>1, <2>3 DEF Rounds, MaskMeansFed, RoundOpen
  <2> QED BY <1>1, <2>2, <2>4
<1> QED BY <1>2, <1>3

\* Ages grow with the peripheral's, or are beyond its longest.
LEMMA OlderGrows ==
  ASSUME NEW a \in Nat
  PROVE  /\ Older(a) \in Nat
         /\ a <= Older(a) /\ Older(a) <= a + 1
         /\ a < Duration => Older(a) = a + 1
  BY DEF Older

-----------------------------------------------------------------------------
(* The watchdog, with holders that keep the contract until they hang.      *)

\* Holders that are alive keep the contract.
ContractKept ==
  \A i \in Registered(count) \ hung : age[i] <= Deadline

WatchdogIInv ==
  /\ TypeOK
  /\ MaskMeansFed
  /\ RoundOpen
  /\ ContractKept
  /\ HangDetected

LEMMA WatchdogInit == Init => WatchdogIInv
  BY DEF Init, WatchdogIInv, TypeOK, MaskMeansFed, RoundOpen, ContractKept,
         HangDetected

\* What one feed of a ticket does to the invariant, given that the round it
\* closes, if any, is no older than Deadline.
LEMMA FeedIInv ==
  ASSUME NEW n \in 1 .. Capacity, NEW i \in 0 .. n - 1,
         WatchdogIInv, count <= n,
         \A k \in 0 .. n - 1 : k # i => k < count,
         0 .. n - 1 \subseteq mask \cup {i} => hwAge <= Deadline,
         count' = n, InnerFeed(i, n), hung' = hung
  PROVE  WatchdogIInv'
<1> USE DEF WatchdogIInv
<1>1. /\ TypeOK' /\ Rounds'
      /\ age'[i] = 0 /\ \A k \in Slots : k # i => age'[k] = age[k]
  BY FeedRounds DEF Rounds
<1>2. CASE 0 .. n - 1 \subseteq mask \cup {i}
  <2>1. hwAge' = 0
    BY <1>2 DEF InnerFeed
  <2>2. \A j \in 0 .. n - 1 : age'[j] <= Deadline
    BY <1>1, <1>2 DEF MaskMeansFed, TypeOK
  <2>3. QED
    BY <1>1, <2>1, <2>2 DEF Rounds, ContractKept, HangDetected
<1>3. CASE ~ (0 .. n - 1 \subseteq mask \cup {i})
  <2>1. hwAge' = hwAge /\ hwAge \in Nat
    BY <1>3 DEF InnerFeed, TypeOK
  <2>2. ASSUME NEW j \in 0 .. n - 1
        PROVE  /\ j \notin hung' => age'[j] <= Deadline
               /\ age'[j] <= hwAge' + Deadline
    <3>1. CASE j = i
      BY <1>1, <2>1, <3>1
    <3>2. CASE j # i
      <4>1. j < count /\ age'[j] = age[j]
        BY <1>1, <3>2
      <4>2. QED
        BY <2>1, <4>1 DEF TypeOK, ContractKept, HangDetected
    <3>3. QED
      BY <3>1, <3>2
  <2>3. QED
    BY <1>1, <2>2 DEF Rounds, ContractKept, HangDetected
<1>4. QED
  BY <1>2, <1>3

\* As long as a round is open because of a live ticket, it is not too old.
LEMMA OpenRoundIsYoung ==
  ASSUME WatchdogIInv, NEW i \in Registered(count) \ hung,
         Registered(count) \subseteq mask \cup {i}
  PROVE  hwAge <= Deadline
<1>1. i \notin mask
  BY DEF WatchdogIInv, RoundOpen
<1>2. QED
  BY <1>1 DEF WatchdogIInv, TypeOK, MaskMeansFed, ContractKept

LEMMA WatchdogStep == WatchdogIInv /\ [Next]_vars => WatchdogIInv'
<1> SUFFICES ASSUME WatchdogIInv, [Next]_vars PROVE WatchdogIInv'
  OBVIOUS
<1>1. CASE Ticket
  <2>1. count \in Slots /\ count' = count + 1 /\ hung' = hung
        /\ InnerFeed(count, count + 1)
    BY <1>1 DEF Ticket, WatchdogIInv, TypeOK
  <2>2. 0 .. count \subseteq mask \cup {count} => hwAge <= Deadline
    BY DEF WatchdogIInv, RoundOpen, TypeOK
  <2>3. QED
    BY <2>1, <2>2, FeedIInv DEF WatchdogIInv, TypeOK
<1>2. ASSUME NEW i \in Slots, Feed(i) PROVE WatchdogIInv'
  <2>1. i \in Registered(count) \ hung /\ InnerFeed(i, count)
        /\ count' = count /\ hung' = hung
    BY <1>2 DEF Feed
  <2>2. Registered(count) \subseteq mask \cup {i} => hwAge <= Deadline
    BY <2>1, OpenRoundIsYoung
  <2>3. QED
    BY <2>1, <2>2, FeedIInv DEF WatchdogIInv, TypeOK
<1>3. ASSUME NEW i \in Slots, Hang(i) PROVE WatchdogIInv'
  BY <1>3 DEF Hang, WatchdogIInv, TypeOK, MaskMeansFed, RoundOpen, ContractKept,
              HangDetected
<1>4. CASE Tick
  <2>1. ASSUME NEW i \in Slots
        PROVE  /\ age'[i] \in Nat
               /\ i < count => age[i] <= age'[i] /\ age'[i] <= age[i] + 1
               /\ i < count /\ age[i] < Duration => age'[i] = age[i] + 1
    BY <1>4, OlderGrows DEF Tick, WatchdogIInv, TypeOK
  <2>2. age' \in [Slots -> Nat]
    BY <1>4, <2>1 DEF Tick
  <2>3. /\ count' = count /\ mask' = mask /\ hung' = hung
        /\ hwAge' = hwAge + 1 /\ hwAge < Duration /\ hwAge \in Nat
    BY <1>4 DEF Tick, WatchdogIInv, TypeOK
  <2>4. TypeOK'
    BY <2>2, <2>3 DEF WatchdogIInv, TypeOK
  <2>5. RoundOpen'
    BY <1>4, <2>3 DEF Tick, WatchdogIInv, RoundOpen
  <2>6. ASSUME NEW i \in Registered(count)
        PROVE  /\ i \in mask => age'[i] <= hwAge + 1
               /\ i \notin mask => hwAge + 1 <= age'[i]
               /\ i \notin hung => age'[i] <= Deadline
               /\ age'[i] <= hwAge + 1 + Deadline
    <3>1. i \in Slots /\ i < count /\ age[i] \in Nat
      BY DEF WatchdogIInv, TypeOK
    <3>2. age'[i] \in Nat /\ age'[i] <= age[i] + 1
          /\ (age[i] < Duration => age'[i] = age[i] + 1)
          /\ age[i] <= age'[i]
      BY <2>1, <3>1
    <3>3. i \in mask => age[i] <= hwAge
      BY DEF WatchdogIInv, MaskMeansFed
    <3>4. i \notin mask => hwAge <= age[i]
      BY DEF WatchdogIInv, MaskMeansFed
    <3>5. age[i] <= hwAge + Deadline
      BY DEF WatchdogIInv, HangDetected
    <3>6. i \notin hung => age[i] < Deadline
      BY <1>4 DEF Tick
    <3>7. QED
      BY <2>3, <3>1, <3>2, <3>3, <3>4, <3>5, <3>6
  <2>7. MaskMeansFed' /\ ContractKept' /\ HangDetected'
    BY <2>3, <2>6 DEF MaskMeansFed, ContractKept, HangDetected
  <2>8. QED
    BY <2>4, <2>5, <2>7 DEF WatchdogIInv
<1>5. CASE Expire
  BY <1>5 DEF Expire, WatchdogIInv, TypeOK, MaskMeansFed, RoundOpen, ContractKept,
              HangDetected
<1>6. CASE UNCHANGED vars
  BY <1>6 DEF vars, WatchdogIInv, TypeOK, MaskMeansFed, RoundOpen, ContractKept,
              HangDetected
<1>7. QED
  BY <1>1, <1>2, <1>3, <1>4, <1>5, <1>6 DEF Next

LEMMA WatchdogInvariance == Spec => []WatchdogIInv
<1>1. QED
  BY WatchdogInit, WatchdogStep, PTL DEF Spec

-----------------------------------------------------------------------------
\* Every reachable state is well typed: the mask never holds a bit of a ticket
\* that was not handed out (watchdog.rs:63-66).
THEOREM WatchdogTypeCorrect == Spec => []TypeOK
<1>1. WatchdogIInv => TypeOK
  BY DEF WatchdogIInv
<1>2. QED
  BY <1>1, WatchdogInvariance, PTL

\* For any number of tickets and any phases of their holders: while every
\* holder is alive, the peripheral is fed Wiggle seconds before its timeout
\* (watchdog.rs:25-27).
THEOREM ContractSuffices == Spec => []NoSpuriousReset
<1>1. WatchdogIInv => NoSpuriousReset
  BY DEF WatchdogIInv, TypeOK, MaskMeansFed, RoundOpen, ContractKept, NoSpuriousReset
<1>2. QED
  BY <1>1, WatchdogInvariance, PTL

\* For any number of tickets: one that is no longer fed is at most a round and
\* a timeout old, so no number of live holders can hide a dead one.
THEOREM HangCannotHide == Spec => []HangDetected
<1>1. WatchdogIInv => HangDetected
  BY DEF WatchdogIInv
<1>2. QED
  BY <1>1, WatchdogInvariance, PTL

\* For any number of tickets: the peripheral is fed only in a step that
\* completes a round of all of them (watchdog.rs:65-71).
THEOREM PeripheralFedByAll == Spec => FedByAll
<1> DEFINE Fed == hwAge > 0 /\ hwAge' = 0 /\ count' > 0
                    => \A i \in Registered(count') : age'[i] <= hwAge
<1>1. ASSUME WatchdogIInv, [Next]_vars PROVE [Fed]_vars
  <2>1. CASE Ticket
    BY <1>1, <2>1 DEF Ticket, InnerFeed, WatchdogIInv, TypeOK, MaskMeansFed
  <2>2. ASSUME NEW i \in Slots, Feed(i) PROVE Fed
    BY <1>1, <2>2 DEF Feed, InnerFeed, WatchdogIInv, TypeOK, MaskMeansFed
  <2>3. ASSUME NEW i \in Slots, Hang(i) PROVE Fed
    BY <2>3 DEF Hang
  <2>4. CASE Tick
    BY <1>1, <2>4 DEF Tick, WatchdogIInv, TypeOK
  <2>5. CASE Expire
    BY <2>5 DEF Expire
  <2>6. QED
    BY <1>1, <2>1, <2>2, <2>3, <2>4, <2>5 DEF Next
<1>2. QED
  BY <1>1, WatchdogInvariance, PTL DEF Spec, FedByAll

-----------------------------------------------------------------------------
(* net_task among the holders.                                             *)

LEMMA Constants ==
  /\ Capacity \in Nat /\ Capacity >= 1 /\ Duration \in Nat
  /\ Deadline \in Nat /\ Deadline < Duration
  /\ ConnectTimeout \in Nat /\ ConnectTimeout >= 1
  /\ Attempts \in Nat /\ Attempts >= 1
  /\ Net \in Slots /\ Net = Capacity - 1 /\ App = 0
  BY WatchdogAssumption, SupervisionAssumption DEF Deadline, Net, App, Slots

USE Constants DEF MaskMeansFed, RoundOpen

\* What the holders but net_task promise.
OthersKept ==
  hung = {} =>
    \A i \in Registered(count) \ {Net} :
      age[i] <= Deadline \/ (i = App /\ netPc = "spin")

\* Where net_task is, and what that says about its ticket and the service.
NetKept ==
  /\ hung = {} =>
       /\ netPc = "boot" <=> count < Capacity
       /\ netPc = "boot" => age[Net] = 0
       /\ netPc = "spin" => ~ ip
       /\ netPc = "connect" /\ wait > 0 => calm < wait
       /\ netPc # "connect" => wait = 0
       /\ calm > 0 /\ netPc = "select" /\ ~ outgoing => age[Net] = 0
       /\ age[Net] <= outage + 1 \/ outage = Duration
  /\ ~ Service => calm = 0

IInv == Net # App /\ SupTypeOK /\ Rounds /\ OthersKept /\ NetKept

\* Nothing of the watchdog changes but, perhaps, who hangs.
LEMMA RoundsKept ==
  ASSUME TypeOK, Rounds, UNCHANGED <<count, mask, age, hwAge>>,
         hung' \in SUBSET Registered(count)
  PROVE  TypeOK' /\ Rounds'
  BY DEF TypeOK, Rounds

LEMMA InitInv == Net # App /\ SupInit => IInv
<1> SUFFICES ASSUME Net # App, SupInit PROVE IInv OBVIOUS
<1>1. SupTypeOK
  <2>1. /\ ap \in BOOLEAN /\ broker \in BOOLEAN /\ link \in BOOLEAN
        /\ ip \in BOOLEAN /\ outgoing \in BOOLEAN
    BY DEF SupInit
  <2>2. TypeOK BY DEF SupInit, Init, TypeOK
  <2> QED BY <2>1, <2>2 DEF SupInit, SupTypeOK
<1>2. Rounds BY DEF SupInit, Init, Rounds
<1>3. OthersKept BY DEF SupInit, Init, OthersKept
<1>4. NetKept BY DEF SupInit, Init, NetKept, Service
<1> QED BY <1>1, <1>2, <1>3, <1>4 DEF IInv

\* The invariant's parts for a step of the surroundings.
LEMMA AirInv ==
  ASSUME IInv,
         ApChanges \/ BrokerChanges \/ LinkDown \/ StackRuns \/ SocketAborts
  PROVE  IInv'
<1> USE DEF vars, air, session, ghosts
<1>t. SupTypeOK /\ TypeOK /\ Rounds /\ OthersKept /\ NetKept
  BY DEF IInv, SupTypeOK
<1>1. CASE ApChanges
  <2>1. TypeOK' /\ Rounds'
    BY <1>1, <1>t, RoundsKept DEF ApChanges, TypeOK
  <2>2. SupTypeOK'
    BY <1>1, <1>t, <2>1 DEF ApChanges, SupTypeOK
  <2>3. OthersKept'
    BY <1>1, <1>t DEF ApChanges, OthersKept
  <2>4. NetKept'
    BY <1>1, <1>t DEF ApChanges, NetKept, Service
  <2> QED BY <2>1, <2>2, <2>3, <2>4 DEF IInv
<1>2. CASE BrokerChanges
  <2>1. TypeOK' /\ Rounds'
    BY <1>2, <1>t, RoundsKept DEF BrokerChanges, Disturb, TypeOK
  <2>2. SupTypeOK'
    BY <1>2, <1>t, <2>1 DEF BrokerChanges, Disturb, SupTypeOK
  <2>3. OthersKept'
    BY <1>2, <1>t DEF BrokerChanges, Disturb, OthersKept
  <2>4. NetKept'
    BY <1>2, <1>t DEF BrokerChanges, Disturb, NetKept, Service
  <2> QED BY <2>1, <2>2, <2>3, <2>4 DEF IInv
<1>3. CASE LinkDown
  <2>1. TypeOK' /\ Rounds'
    BY <1>3, <1>t, RoundsKept DEF LinkDown, TypeOK
  <2>2. SupTypeOK'
    <3>1. link' \in BOOLEAN BY <1>3 DEF LinkDown
    <3>2. calm' \in 0 .. ConnectTimeout + 1 /\ outage' = outage
      BY <1>3, <1>t DEF LinkDown, Disturb, SupTypeOK
    <3>3. UNCHANGED <<wait, sock, outgoing, tries, netPc, ap, broker>>
      BY <1>3 DEF LinkDown
    <3>4. conPc' \in {"start", "check", "arm", "wait", "pause", "connect"}
      BY <1>3, <1>t DEF LinkDown, SupTypeOK
    <3>5. UNCHANGED ip BY <1>3 DEF LinkDown
    <3> QED BY <1>t, <2>1, <3>1, <3>2, <3>3, <3>4, <3>5 DEF SupTypeOK
  <2>3. OthersKept'
    BY <1>3, <1>t DEF LinkDown, OthersKept
  <2>4. NetKept'
    BY <1>3, <1>t DEF LinkDown, Disturb, Service, NetKept
  <2> QED BY <2>1, <2>2, <2>3, <2>4 DEF IInv
<1>4. CASE StackRuns
  <2>1. TypeOK' /\ Rounds'
    BY <1>4, <1>t, RoundsKept DEF StackRuns, TypeOK
  <2>2. SupTypeOK'
    <3>1. ip' \in BOOLEAN BY <1>4 DEF StackRuns
    <3>2. calm' \in 0 .. ConnectTimeout + 1 /\ outage' = outage
      BY <1>4, <1>t DEF StackRuns, Disturb, SupTypeOK
    <3>3. UNCHANGED <<wait, sock, outgoing, tries, netPc, ap, broker>>
      BY <1>4 DEF StackRuns
    <3>4. conPc' \in {"start", "check", "arm", "wait", "pause", "connect"}
      BY <1>4, <1>t DEF StackRuns, SupTypeOK
    <3>5. UNCHANGED link BY <1>4 DEF StackRuns
    <3> QED BY <1>t, <2>1, <3>1, <3>2, <3>3, <3>4, <3>5 DEF SupTypeOK
  <2>3. OthersKept'
    BY <1>4, <1>t DEF StackRuns, OthersKept
  <2>4. NetKept'
    BY <1>4, <1>t DEF StackRuns, Disturb, Service, Polling, Running, NetKept
  <2> QED BY <2>1, <2>2, <2>3, <2>4 DEF IInv
<1>5. CASE SocketAborts
  <2>1. TypeOK' /\ Rounds'
    BY <1>5, <1>t, RoundsKept DEF SocketAborts, Running, TypeOK
  <2>2. SupTypeOK'
    BY <1>5, <1>t, <2>1 DEF SocketAborts, Running, SupTypeOK
  <2>3. OthersKept'
    BY <1>5, <1>t DEF SocketAborts, Running, OthersKept
  <2>4. NetKept'
    BY <1>5, <1>t DEF SocketAborts, Running, NetKept, Service
  <2> QED BY <2>1, <2>2, <2>3, <2>4 DEF IInv
<1> QED BY <1>1, <1>2, <1>3, <1>4, <1>5

\* For a step of connection_task.
LEMMA ConInv ==
  ASSUME IInv, ConTask
  PROVE  IInv'
<1> USE DEF vars, air, session, ghosts, ConMoves, Polling, Running
<1>t. SupTypeOK /\ TypeOK /\ Rounds /\ OthersKept /\ NetKept
  BY DEF IInv, SupTypeOK
<1>1. CASE ConStart
  <2>1. TypeOK' /\ Rounds'
    BY <1>1, <1>t, RoundsKept DEF ConStart, TypeOK
  <2>2. SupTypeOK'
    BY <1>1, <1>t, <2>1 DEF ConStart, SupTypeOK
  <2>3. OthersKept'
    BY <1>1, <1>t DEF ConStart, OthersKept
  <2>4. NetKept'
    BY <1>1, <1>t DEF ConStart, NetKept, Service
  <2> QED BY <2>1, <2>2, <2>3, <2>4 DEF IInv
<1>2. CASE ConCheck
  <2>1. TypeOK' /\ Rounds'
    BY <1>2, <1>t, RoundsKept DEF ConCheck, TypeOK
  <2>2. SupTypeOK'
    BY <1>2, <1>t, <2>1 DEF ConCheck, SupTypeOK
  <2>3. OthersKept'
    BY <1>2, <1>t DEF ConCheck, OthersKept
  <2>4. NetKept'
    BY <1>2, <1>t DEF ConCheck, NetKept, Service
  <2> QED BY <2>1, <2>2, <2>3, <2>4 DEF IInv
<1>3. CASE ConArm
  <2>1. TypeOK' /\ Rounds'
    BY <1>3, <1>t, RoundsKept DEF ConArm, TypeOK
  <2>2. SupTypeOK'
    BY <1>3, <1>t, <2>1 DEF ConArm, SupTypeOK
  <2>3. OthersKept'
    BY <1>3, <1>t DEF ConArm, OthersKept
  <2>4. NetKept'
    BY <1>3, <1>t DEF ConArm, NetKept, Service
  <2> QED BY <2>1, <2>2, <2>3, <2>4 DEF IInv
<1>4. CASE ConPause
  <2>1. TypeOK' /\ Rounds'
    BY <1>4, <1>t, RoundsKept DEF ConPause, TypeOK
  <2>2. SupTypeOK'
    BY <1>4, <1>t, <2>1 DEF ConPause, SupTypeOK
  <2>3. OthersKept'
    BY <1>4, <1>t DEF ConPause, OthersKept
  <2>4. NetKept'
    BY <1>4, <1>t DEF ConPause, NetKept, Service
  <2> QED BY <2>1, <2>2, <2>3, <2>4 DEF IInv
<1>5. CASE ConConnect
  <2>1. TypeOK' /\ Rounds'
    BY <1>5, <1>t, RoundsKept DEF ConConnect, Disturb, TypeOK
  <2>2. SupTypeOK'
    BY <1>5, <1>t, <2>1 DEF ConConnect, Disturb, SupTypeOK
  <2>3. OthersKept'
    BY <1>5, <1>t DEF ConConnect, Disturb, OthersKept
  <2>4. NetKept'
    BY <1>5, <1>t DEF ConConnect, Disturb, NetKept, Service
  <2> QED BY <2>1, <2>2, <2>3, <2>4 DEF IInv
<1>6. CASE ConConnectFails
  <2>1. TypeOK' /\ Rounds'
    BY <1>6, <1>t, RoundsKept DEF ConConnectFails, TypeOK
  <2>2. SupTypeOK'
    BY <1>6, <1>t, <2>1 DEF ConConnectFails, SupTypeOK
  <2>3. OthersKept'
    BY <1>6, <1>t DEF ConConnectFails, OthersKept
  <2>4. NetKept'
    BY <1>6, <1>t DEF ConConnectFails, NetKept, Service
  <2> QED BY <2>1, <2>2, <2>3, <2>4 DEF IInv
<1> QED BY <1>1, <1>2, <1>3, <1>4, <1>5, <1>6 DEF ConTask

\* For a step of net_task that feeds nothing.
LEMMA NetInv ==
  ASSUME IInv,
         \/ NetLinkSeen \/ NetCheck \/ NetConnect \/ NetConnectFails
         \/ NetHandshake \/ NetTakeOutgoing \/ NetReceive \/ NetProcessed
         \/ NetNetworkError \/ SendUnrelated \/ SendEnds
  PROVE  IInv'
<1> USE DEF vars, air, session, ghosts, NetMoves, Polling, Running
<1>t. SupTypeOK /\ TypeOK /\ Rounds /\ OthersKept /\ NetKept
  BY DEF IInv, SupTypeOK
<1>1. CASE NetLinkSeen
  <2>1. TypeOK' /\ Rounds'
    BY <1>1, <1>t, RoundsKept DEF NetLinkSeen, TypeOK
  <2>2. SupTypeOK'
    BY <1>1, <1>t, <2>1 DEF NetLinkSeen, SupTypeOK
  <2>3. OthersKept'
    BY <1>1, <1>t DEF NetLinkSeen, OthersKept
  <2>4. NetKept'
    BY <1>1, <1>t DEF NetLinkSeen, NetKept, Service
  <2> QED BY <2>1, <2>2, <2>3, <2>4 DEF IInv
<1>2. CASE NetCheck
  <2>1. TypeOK' /\ Rounds'
    BY <1>2, <1>t, RoundsKept DEF NetCheck, TypeOK
  <2>2. SupTypeOK'
    BY <1>2, <1>t, <2>1 DEF NetCheck, SupTypeOK
  <2>3. OthersKept'
    BY <1>2, <1>t DEF NetCheck, OthersKept
  <2>4. NetKept'
    BY <1>2, <1>t DEF NetCheck, NetKept, Service
  <2> QED BY <2>1, <2>2, <2>3, <2>4 DEF IInv
<1>3. CASE NetConnect
  <2>1. TypeOK' /\ Rounds'
    BY <1>3, <1>t, RoundsKept DEF NetConnect, TypeOK
  <2>2. SupTypeOK'
    BY <1>3, <1>t, <2>1 DEF NetConnect, SupTypeOK
  <2>3. OthersKept'
    BY <1>3, <1>t DEF NetConnect, OthersKept
  <2>4. NetKept'
    BY <1>3, <1>t DEF NetConnect, NetKept, Service
  <2> QED BY <2>1, <2>2, <2>3, <2>4 DEF IInv
<1>4. CASE NetConnectFails
  <2>1. TypeOK' /\ Rounds'
    BY <1>4, <1>t, RoundsKept DEF NetConnectFails, TypeOK
  <2>2. SupTypeOK'
    BY <1>4, <1>t, <2>1 DEF NetConnectFails, SupTypeOK
  <2>3. OthersKept'
    BY <1>4, <1>t DEF NetConnectFails, OthersKept
  <2>4. NetKept'
    BY <1>4, <1>t DEF NetConnectFails, NetKept, Service
  <2> QED BY <2>1, <2>2, <2>3, <2>4 DEF IInv
<1>5. CASE NetHandshake
  <2>1. TypeOK' /\ Rounds'
    BY <1>5, <1>t, RoundsKept DEF NetHandshake, TypeOK
  <2>2. SupTypeOK'
    BY <1>5, <1>t, <2>1 DEF NetHandshake, SupTypeOK
  <2>3. OthersKept'
    BY <1>5, <1>t DEF NetHandshake, OthersKept
  <2>4. NetKept'
    BY <1>5, <1>t DEF NetHandshake, NetKept, Service
  <2> QED BY <2>1, <2>2, <2>3, <2>4 DEF IInv
<1>6. CASE NetTakeOutgoing
  <2>1. TypeOK' /\ Rounds'
    BY <1>6, <1>t, RoundsKept DEF NetTakeOutgoing, TypeOK
  <2>2. SupTypeOK'
    BY <1>6, <1>t, <2>1 DEF NetTakeOutgoing, SupTypeOK
  <2>3. OthersKept'
    BY <1>6, <1>t DEF NetTakeOutgoing, OthersKept
  <2>4. NetKept'
    BY <1>6, <1>t DEF NetTakeOutgoing, NetKept, Service
  <2> QED BY <2>1, <2>2, <2>3, <2>4 DEF IInv
<1>7. CASE NetReceive
  <2>1. TypeOK' /\ Rounds'
    BY <1>7, <1>t, RoundsKept DEF NetReceive, TypeOK
  <2>2. SupTypeOK'
    BY <1>7, <1>t, <2>1 DEF NetReceive, SupTypeOK
  <2>3. OthersKept'
    BY <1>7, <1>t DEF NetReceive, OthersKept
  <2>4. NetKept'
    BY <1>7, <1>t DEF NetReceive, NetKept, Service
  <2> QED BY <2>1, <2>2, <2>3, <2>4 DEF IInv
<1>8. CASE NetNetworkError
  <2>1. TypeOK' /\ Rounds'
    BY <1>8, <1>t, RoundsKept DEF NetNetworkError, TypeOK
  <2>2. SupTypeOK'
    BY <1>8, <1>t, <2>1 DEF NetNetworkError, SupTypeOK
  <2>3. OthersKept'
    BY <1>8, <1>t DEF NetNetworkError, OthersKept
  <2>4. NetKept'
    BY <1>8, <1>t DEF NetNetworkError, NetKept, Service
  <2> QED BY <2>1, <2>2, <2>3, <2>4 DEF IInv
<1>9. CASE SendUnrelated
  <2>1. TypeOK' /\ Rounds'
    BY <1>9, <1>t, RoundsKept DEF SendUnrelated, TypeOK
  <2>2. SupTypeOK'
    BY <1>9, <1>t, <2>1 DEF SendUnrelated, SupTypeOK
  <2>3. OthersKept'
    BY <1>9, <1>t DEF SendUnrelated, OthersKept
  <2>4. NetKept'
    BY <1>9, <1>t DEF SendUnrelated, NetKept, Service
  <2> QED BY <2>1, <2>2, <2>3, <2>4 DEF IInv
<1>10. CASE SendEnds
  <2>1. TypeOK' /\ Rounds'
    BY <1>10, <1>t, RoundsKept DEF SendEnds, TypeOK
  <2>2. SupTypeOK'
    BY <1>10, <1>t, <2>1 DEF SendEnds, SupTypeOK
  <2>3. OthersKept'
    BY <1>10, <1>t DEF SendEnds, OthersKept
  <2>4. NetKept'
    BY <1>10, <1>t DEF SendEnds, NetKept, Service
  <2> QED BY <2>1, <2>2, <2>3, <2>4 DEF IInv
<1>11. CASE NetProcessed
  <2>1. TypeOK' /\ Rounds'
    BY <1>11, <1>t, RoundsKept DEF NetProcessed, TypeOK
  <2>2. SupTypeOK'
    BY <1>11, <1>t, <2>1 DEF NetProcessed, SupTypeOK
  <2>3. OthersKept'
    BY <1>11, <1>t DEF NetProcessed, OthersKept
  <2>4. NetKept'
    BY <1>11, <1>t DEF NetProcessed, NetKept, Service
  <2> QED BY <2>1, <2>2, <2>3, <2>4 DEF IInv
<1> QED
  BY <1>1, <1>2, <1>3, <1>4, <1>5, <1>6, <1>7, <1>8, <1>9, <1>10, <1>11

\* For a step that feeds net_task's ticket.
LEMMA NetFeedsInv ==
  ASSUME IInv, NetGotAddress \/ NetLinkUp \/ NetLoop
  PROVE  IInv'
<1> USE DEF air, session, ghosts
<1>t. SupTypeOK /\ TypeOK /\ Rounds /\ OthersKept /\ NetKept
  BY DEF IInv, SupTypeOK
<1>1. \E from, to : /\ NetFeeds(from, to)
                   /\ <<from, to>> \in {<<"ip", "up">>, <<"up", "check">>,
                                         <<"feed", "select">>}
  BY DEF NetGotAddress, NetLinkUp, NetLoop
<1>2. PICK from, to : /\ NetFeeds(from, to)
                      /\ <<from, to>> \in {<<"ip", "up">>, <<"up", "check">>,
                                            <<"feed", "select">>}
  BY <1>1
<1>3. /\ count = Capacity /\ hung = {} /\ netPc = from /\ netPc' = to
      /\ InnerFeed(Net, count)
      /\ UNCHANGED <<count, hung, air, conPc, session, ghosts>>
  BY <1>2 DEF NetFeeds, NetMoves, Polling, Running
<1>4. TypeOK' /\ Rounds' /\ age'[Net] = 0
      /\ \A k \in Slots : k # Net => age'[k] = age[k]
  BY <1>3, <1>t, FeedRounds
<1>5. SupTypeOK' BY <1>2, <1>3, <1>4, <1>t DEF SupTypeOK
<1>6. OthersKept'
  <2>1. netPc # "spin" BY <1>2, <1>3
  <2> QED BY <1>3, <1>4, <1>t, <2>1 DEF OthersKept
<1>7. NetKept'
  <2>1. to \in {"up", "check", "select"} /\ from \in {"ip", "up", "feed"}
    BY <1>2
  <2>2. outage \in Nat BY <1>t DEF SupTypeOK
  <2> QED BY <1>3, <1>4, <1>t, <2>1, <2>2 DEF NetKept, Service
<1> QED BY <1>4, <1>5, <1>6, <1>7 DEF IInv

\* For a panic, from wherever it comes.
LEMMA PanicInv ==
  ASSUME IInv, Polling, Panic
  PROVE  IInv'
<1> USE DEF air, session, ghosts, Panic, SessionForgotten
<1>t. SupTypeOK /\ TypeOK /\ Rounds /\ OthersKept /\ NetKept
  BY DEF IInv, SupTypeOK
<1>1. TypeOK' /\ Rounds' BY <1>t, RoundsKept
<1>2. SupTypeOK'
  <2>1. outgoing' \in BOOLEAN OBVIOUS
  <2> QED BY <1>t, <1>1, <2>1 DEF SupTypeOK
<1>3. hung' # {} BY DEF Polling, Running
<1>4. OthersKept' BY <1>3 DEF OthersKept
<1>5. NetKept' BY <1>3 DEF NetKept
<1> QED BY <1>1, <1>2, <1>4, <1>5 DEF IInv

\* For a ticket handed out.
LEMMA BootInv ==
  ASSUME IInv, Boot
  PROVE  IInv'
<1> USE DEF air, session, ghosts
<1>t. SupTypeOK /\ TypeOK /\ Rounds /\ OthersKept /\ NetKept
  BY DEF IInv, SupTypeOK
<1>1. /\ count < Capacity /\ count \in Nat /\ count' = count + 1 /\ hung' = hung
      /\ InnerFeed(count, count + 1)
      /\ UNCHANGED <<air, conPc, session, ghosts>>
      /\ netPc' = IF count' = Capacity THEN "link" ELSE netPc
  BY <1>t DEF Boot, Ticket, TypeOK
<1>2. TypeOK' /\ Rounds' /\ age'[count] = 0
      /\ \A k \in Slots : k # count => age'[k] = age[k]
  BY <1>1, <1>t, FeedRounds
<1>3. SupTypeOK' BY <1>1, <1>2, <1>t DEF SupTypeOK
<1>4. OthersKept'
  <2>1. ASSUME hung = {}, NEW i \in Registered(count') \ {Net}
        PROVE  age'[i] <= Deadline
    <3>1. CASE i = count BY <1>2, <3>1
    <3>2. CASE i # count
      <4>1. i \in Registered(count) \ {Net} /\ age'[i] = age[i]
        BY <1>1, <1>2, <2>1, <3>2
      <4>2. netPc = "boot" BY <1>1, <1>t, <2>1 DEF NetKept
      <4> QED BY <1>t, <2>1, <4>1, <4>2 DEF OthersKept
    <3> QED BY <3>1, <3>2
  <2> QED BY <1>1, <2>1 DEF OthersKept
<1>5. NetKept'
  <2>1. ASSUME hung = {}
        PROVE  netPc = "boot" /\ age[Net] = 0 /\ age'[Net] = 0
    BY <1>1, <1>2, <1>t, <2>1 DEF NetKept
  <2>2. outage \in Nat BY <1>t DEF SupTypeOK
  <2> QED BY <1>1, <1>t, <2>1, <2>2 DEF NetKept, Service
<1> QED BY <1>2, <1>3, <1>4, <1>5 DEF IInv

\* For a feed of another holder.
LEMMA OtherInv ==
  ASSUME IInv, OtherFeeds
  PROVE  IInv'
<1> USE DEF air, session, ghosts
<1>t. SupTypeOK /\ TypeOK /\ Rounds /\ OthersKept /\ NetKept
  BY DEF IInv, SupTypeOK
<1>1. PICK i \in Slots \ {Net} : Feed(i) BY DEF OtherFeeds
<1>2. /\ i \in Registered(count) /\ InnerFeed(i, count)
      /\ UNCHANGED <<count, hung, air, conPc, netPc, session, ghosts>>
  BY <1>1 DEF OtherFeeds, Feed
<1>3. TypeOK' /\ Rounds' /\ age'[i] = 0
      /\ \A k \in Slots : k # i => age'[k] = age[k]
  <2>1. count \in 1 .. Capacity BY <1>2, <1>t DEF TypeOK
  <2> QED BY <1>2, <1>t, <2>1, FeedRounds
<1>4. SupTypeOK' BY <1>2, <1>3, <1>t DEF SupTypeOK
<1>5. OthersKept'
  <2>1. ASSUME hung = {}, NEW j \in Registered(count) \ {Net}
        PROVE  age'[j] <= Deadline \/ (j = App /\ netPc = "spin")
    <3>1. CASE j = i BY <1>3, <3>1
    <3>2. CASE j # i
      <4>1. age'[j] = age[j] BY <1>3, <1>t, <3>2 DEF TypeOK
      <4> QED BY <1>t, <2>1, <4>1 DEF OthersKept
    <3> QED BY <3>1, <3>2
  <2> QED BY <1>2, <2>1 DEF OthersKept
<1>6. NetKept' BY <1>1, <1>2, <1>3, <1>t DEF NetKept, Service
<1> QED BY <1>3, <1>4, <1>5, <1>6 DEF IInv

\* For a second that passes.
LEMMA SecondInv ==
  ASSUME IInv, Second
  PROVE  IInv'
<1> USE DEF air, session, ghosts
<1>t. SupTypeOK /\ TypeOK /\ Rounds /\ OthersKept /\ NetKept
  BY DEF IInv, SupTypeOK
<1>1. /\ UNCHANGED <<count, mask, hung, air, conPc, netPc, sock, tries>>
      /\ hwAge' = hwAge + 1 /\ hwAge < Duration /\ hwAge \in Nat
      /\ count \in Nat /\ count > 0 /\ count <= Capacity
      /\ age \in [Slots -> Nat]
  BY <1>t DEF Second, TypeOK
<1>2. ASSUME NEW i \in Slots
      PROVE  /\ age'[i] \in Nat /\ age[i] \in Nat
             /\ i < count => age[i] <= age'[i] /\ age'[i] <= age[i] + 1
             /\ i < count /\ age[i] < Duration => age'[i] = age[i] + 1
             /\ ~ (i < count) => age'[i] = age[i]
  BY <1>1, OlderGrows DEF Second
<1>3. TypeOK'
  <2>1. age' \in [Slots -> Nat] BY <1>2 DEF Second
  <2> QED BY <1>1, <1>t, <2>1 DEF TypeOK
<1>4. Rounds'
  <2>1. ASSUME NEW i \in Registered(count)
        PROVE  /\ i \in mask => age'[i] <= hwAge + 1
               /\ i \notin mask => hwAge + 1 <= age'[i]
    <3>1. i \in Slots /\ i < count BY <1>1
    <3>2. i \in mask => age[i] <= hwAge BY <1>t DEF Rounds
    <3>3. i \notin mask => hwAge <= age[i] BY <1>t DEF Rounds
    <3> QED BY <1>1, <1>2, <3>1, <3>2, <3>3
  <2> QED BY <1>1, <1>t, <2>1 DEF Rounds
<1>5. SupTypeOK'
  <2>1. outgoing' \in BOOLEAN BY <1>t DEF Second, SupTypeOK
  <2>2. wait' \in 0 .. ConnectTimeout
    BY <1>t DEF Second, NetWaits, SupTypeOK
  <2>3. outage' \in 0 .. Duration /\ calm' \in 0 .. ConnectTimeout + 1
    BY <1>t DEF Second, SupTypeOK
  <2> QED BY <1>1, <1>3, <1>t, <2>1, <2>2, <2>3 DEF SupTypeOK
<1>6. OthersKept'
  <2>1. ASSUME hung = {}, NEW i \in Registered(count) \ {Net}
        PROVE  age'[i] <= Deadline \/ (i = App /\ netPc = "spin")
    <3>1. age[i] < Deadline \/ (i = App /\ netPc = "spin")
      BY <2>1 DEF Second
    <3>2. i \in Slots /\ i < count BY <1>1
    <3> QED BY <1>2, <3>1, <3>2
  <2> QED BY <1>1, <2>1 DEF OthersKept
<1>7. NetKept'
  <2>1. /\ calm \in Nat /\ wait \in Nat /\ outage \in Nat
        /\ calm <= ConnectTimeout + 1 /\ outage <= Duration
    BY <1>t DEF SupTypeOK
  <2>2. ~ Service' => calm' = 0 BY <1>1, <1>t DEF Second, NetKept, Service
  <2>3. ASSUME hung = {}
        PROVE  /\ netPc = "boot" <=> count < Capacity
               /\ netPc = "boot" => age'[Net] = 0
               /\ netPc = "spin" => ~ ip
               /\ netPc # "connect" => wait' = 0
    BY <1>1, <1>2, <1>t, <2>3 DEF NetKept, Second
  <2>4. ASSUME hung = {}, netPc = "connect", wait' > 0 PROVE calm' < wait'
    <3>1. wait' = wait + 1 /\ NetWaits BY <2>4 DEF Second
    <3>2. CASE Service
      <4>1. wait > 0 BY <2>4, <3>1, <3>2 DEF NetWaits
      <4> QED BY <1>t, <2>1, <2>4, <3>1, <4>1 DEF NetKept, Second
    <3>3. CASE ~ Service
      BY <1>t, <2>1, <3>1, <3>3 DEF NetKept, Second
    <3> QED BY <3>2, <3>3
  <2>5. ASSUME hung = {}, calm' > 0, netPc = "select" PROVE outgoing'
    BY <2>1, <2>5 DEF Second
  <2>6. ASSUME hung = {}
        PROVE  age'[Net] <= outage' + 1 \/ outage' = Duration
    <3>1. age[Net] <= outage + 1 \/ outage = Duration
      BY <1>t, <2>6 DEF NetKept
    <3>2. age'[Net] <= age[Net] + 1 /\ age[Net] \in Nat /\ age'[Net] \in Nat
      BY <1>2
    <3>3. CASE ~ (calm' > ConnectTimeout)
      <4>1. outage' = IF outage < Duration THEN outage + 1 ELSE outage
        BY <3>3 DEF Second
      <4> QED BY <2>1, <3>1, <3>2, <4>1
    <3>4. CASE calm' > ConnectTimeout
      <4>1. NetWaits BY <2>6 DEF Second
      <4>2. Service /\ calm >= ConnectTimeout /\ calm > 0 /\ netPc # "process"
        BY <2>1, <3>4 DEF Second
      <4>3. ASSUME netPc = "connect" PROVE FALSE
        <5>1. wait > 0 /\ wait < ConnectTimeout
          BY <4>1, <4>2, <4>3 DEF NetWaits
        <5>2. calm < wait BY <1>t, <2>6, <4>3, <5>1 DEF NetKept
        <5> QED BY <2>1, <4>2, <5>1, <5>2
      <4>4. netPc = "boot" \/ (netPc = "select" /\ ~ outgoing)
        BY <1>t, <2>6, <4>1, <4>2, <4>3 DEF NetWaits, Service, NetKept
      <4>5. age[Net] = 0 BY <1>t, <2>6, <4>2, <4>4 DEF NetKept
      <4>6. outage' = 0 BY <3>4 DEF Second
      <4> QED BY <3>2, <4>5, <4>6
    <3> QED BY <3>3, <3>4
  <2> QED BY <1>1, <2>2, <2>3, <2>4, <2>5, <2>6 DEF NetKept
<1> QED BY <1>4, <1>5, <1>6, <1>7 DEF IInv

LEMMA NextInv == IInv /\ [SupNext]_supVars => IInv'
<1> SUFFICES ASSUME IInv, [SupNext]_supVars PROVE IInv' OBVIOUS
<1>t. SupTypeOK /\ TypeOK /\ Rounds /\ OthersKept /\ NetKept
  BY DEF IInv, SupTypeOK
<1>1. CASE ConStartFails \/ NetHandshakeFails
  BY <1>1, PanicInv DEF ConStartFails, NetHandshakeFails
<1>2. CASE ChipReset
  <2> USE DEF ChipReset, Expire, SessionForgotten
  <2>1. TypeOK' /\ Rounds' BY <1>2 DEF TypeOK, Rounds
  <2>2. SupTypeOK'
    <3>1. link' \in BOOLEAN /\ ip' \in BOOLEAN /\ outgoing' \in BOOLEAN
      BY <1>2
    <3>2. UNCHANGED <<ap, broker>> BY <1>2
    <3> QED BY <1>2, <1>t, <2>1, <3>1, <3>2 DEF SupTypeOK
  <2>3. OthersKept' BY <1>2 DEF OthersKept
  <2>4. NetKept' BY <1>2 DEF NetKept
  <2> QED BY <2>1, <2>2, <2>3, <2>4 DEF IInv
<1>3. CASE UNCHANGED supVars
  <2> USE DEF supVars, vars, air, session, ghosts
  <2>1. TypeOK' /\ Rounds' BY <1>3, <1>t DEF TypeOK, Rounds
  <2>2. SupTypeOK' BY <1>3, <1>t, <2>1 DEF SupTypeOK
  <2>3. OthersKept' BY <1>3, <1>t DEF OthersKept
  <2>4. NetKept' BY <1>3, <1>t DEF NetKept, Service
  <2> QED BY <2>1, <2>2, <2>3, <2>4 DEF IInv
<1> QED
  BY <1>1, <1>2, <1>3, AirInv, ConInv, NetInv, NetFeedsInv, BootInv, OtherInv,
     SecondInv
  DEF SupNext, NetTask

LEMMA Invariance ==
  ASSUME Net # App
  PROVE  SupSpec => []IInv
  BY InitInv, NextInv, PTL DEF SupSpec

-----------------------------------------------------------------------------
\* Every reachable state is well typed: net_task never makes an attempt too
\* many, nor is a connect older than its timeout.
THEOREM TypeCorrect ==
  ASSUME Net # App
  PROVE  SupSpec => []SupTypeOK
<1>1. IInv => SupTypeOK BY DEF IInv
<1> QED BY <1>1, Invariance, PTL

\* For every timeout, capacity and number of attempts the watchdog resets a
\* chip that has not halted only when net_task occupies the executor, or after
\* an outage that lasted for the timeout: of the network, without anything to
\* send, or with a received update that waits for its consumers.
THEOREM OutagesOnlyReset ==
  ASSUME Net # App
  PROVE  SupSpec => []ResetNeedsOutage
<1>1. IInv => ResetNeedsOutage
  <2> SUFFICES ASSUME IInv, hwAge = Duration, hung = {}, netPc # "spin"
               PROVE  outage + 1 >= Duration
    BY DEF ResetNeedsOutage
  <2>1. SupTypeOK /\ TypeOK /\ Rounds /\ OthersKept /\ NetKept
    BY DEF IInv, SupTypeOK
  <2>2. count # 0 BY <2>1 DEF Rounds
  <2>3. PICK i \in Registered(count) : i \notin mask BY <2>1, <2>2 DEF Rounds
  <2>4. age[i] >= Duration BY <2>1, <2>3 DEF Rounds
  <2>5. i \in Slots /\ age[i] \in Nat BY <2>1 DEF TypeOK
  <2>6. i = Net BY <2>1, <2>4, <2>5 DEF OthersKept
  <2> QED BY <2>1, <2>4, <2>5, <2>6 DEF NetKept, SupTypeOK
<1> QED BY <1>1, Invariance, PTL
=============================================================================
