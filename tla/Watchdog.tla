------------------------------ MODULE Watchdog ------------------------------
(***************************************************************************)
(* The shared watchdog of systems/watchdog.rs.  Tasks hold tickets; the    *)
(* hardware watchdog is fed only when every registered ticket was fed      *)
(* since the last time.  Times are ages in seconds, so no clock grows      *)
(* without bound.  A holder may hang, and then stops feeding its ticket.   *)
(***************************************************************************)
EXTENDS Naturals

CONSTANTS
  Capacity,   \* tickets the mask can hold (the u16 of Inner::mask has 16)
  Duration,   \* WATCHDOG_DURATION_SECS
  Wiggle      \* WATCHDOG_WIGGLE_SECS

ASSUME WatchdogAssumption ==
  /\ Capacity \in Nat \ {0}
  /\ Duration \in Nat
  /\ Wiggle \in 1 .. Duration

VARIABLES
  count,      \* Inner::count, the tickets handed out since boot
  mask,       \* Inner::mask, as the set of its set bits
  age,        \* age[i]: seconds since ticket i was last fed
  hwAge,      \* seconds since the peripheral was last fed
  hung        \* tickets whose holder stopped for good

vars == <<count, mask, age, hwAge, hung>>

Slots == 0 .. Capacity - 1

\* WATCHDOG_DEADLINE: how often a holder promises to feed its ticket.
Deadline == Duration - Wiggle

Registered(n) == 0 .. n - 1

Init ==
  /\ count = 0
  /\ mask = {}
  /\ age = [i \in Slots |-> 0]
  /\ hwAge = 0
  /\ hung = {}

-----------------------------------------------------------------------------
\* Slip: the mask keeps its bits when the peripheral is fed.
InnerFeedKeepsMask(i, n) ==
  LET fed == mask \cup {i} IN
    /\ age' = [age EXCEPT ![i] = 0]
    /\ mask' = fed
    /\ hwAge' = IF Registered(n) \subseteq fed THEN 0 ELSE hwAge

\* Slip: any fed ticket feeds the peripheral (slice.any() for slice.all()).
InnerFeedAny(i, n) ==
  /\ age' = [age EXCEPT ![i] = 0]
  /\ mask' = {}
  /\ hwAge' = 0

\* Inner::feed on ticket i while n tickets are registered.
InnerFeed(i, n) ==
  LET fed == mask \cup {i} IN
    /\ age' = [age EXCEPT ![i] = 0]
    /\ \/ /\ Registered(n) \subseteq fed
          /\ mask' = {}
          /\ hwAge' = 0
       \/ /\ ~ (Registered(n) \subseteq fed)
          /\ mask' = fed
          /\ UNCHANGED hwAge

\* Slip: a new ticket is not fed when it is handed out.
TicketUnfed ==
  /\ count < Capacity
  /\ count' = count + 1
  /\ UNCHANGED <<mask, age, hwAge, hung>>

\* Watchdog::ticket.  The bound is the mask's width: setting a bit beyond it
\* panics, and main hands out three tickets.
Ticket ==
  /\ count < Capacity
  /\ count' = count + 1
  /\ InnerFeed(count, count + 1)
  /\ UNCHANGED hung

\* WatchdogTicket::feed by the holder of ticket i.
Feed(i) ==
  /\ i \in Registered(count) \ hung
  /\ InnerFeed(i, count)
  /\ UNCHANGED <<count, hung>>

\* The holder of ticket i blocks forever or panics.
Hang(i) ==
  /\ i \in Registered(count) \ hung
  /\ hung' = hung \cup {i}
  /\ UNCHANGED <<count, mask, age, hwAge>>

\* Ages beyond any that can be reached are not told apart.
Older(a) == IF a < 2 * Duration THEN a + 1 ELSE a

\* A second passes.  Holders that are alive keep the contract of
\* WATCHDOG_DEADLINE, and the peripheral resets the chip no later than its
\* timeout.  main takes its ticket right after init, before time passes.
Tick ==
  /\ count > 0
  /\ hwAge < Duration
  /\ \A i \in Registered(count) \ hung : age[i] < Deadline
  /\ age' = [i \in Slots |-> IF i < count THEN Older(age[i]) ELSE age[i]]
  /\ hwAge' = hwAge + 1
  /\ UNCHANGED <<count, mask, hung>>

\* The peripheral times out and resets the chip, which boots anew.
Expire ==
  /\ hwAge = Duration
  /\ count' = 0
  /\ mask' = {}
  /\ age' = [i \in Slots |-> 0]
  /\ hwAge' = 0
  /\ hung' = {}

Next ==
  \/ Ticket
  \/ \E i \in Slots : Feed(i)
  \/ \E i \in Slots : Hang(i)
  \/ Tick
  \/ Expire

\* Time passes, the peripheral acts, and a live holder feeds: its timer fires
\* and its task is polled.  Nothing obliges the program to take more tickets.
Fairness ==
  /\ WF_vars(Tick)
  /\ WF_vars(Expire)
  /\ \A i \in Slots : WF_vars(Feed(i))

Spec == Init /\ [][Next]_vars

FairSpec == Spec /\ Fairness

-----------------------------------------------------------------------------
TypeOK ==
  /\ count \in 0 .. Capacity
  /\ mask \in SUBSET Registered(count)
  /\ age \in [Slots -> Nat]
  /\ hwAge \in 0 .. Duration
  /\ hung \in SUBSET Registered(count)

\* "If you feed the watchdog every deadline, you should be OK"
\* (watchdog.rs:25): as long as no holder hangs, the peripheral is always fed
\* at least Wiggle seconds before it would reset the chip, whatever the phases
\* of the holders and whenever new tickets are handed out.
NoSpuriousReset == hung = {} => hwAge <= Deadline

\* A ticket that is no longer fed cannot be covered up by the others for more
\* than the round it was last fed in plus one timeout (watchdog.rs:68-71).
HangDetected == \A i \in Registered(count) : age[i] <= hwAge + Deadline

\* The peripheral is fed only if every registered ticket was fed since the
\* previous time it was fed (watchdog.rs:65-71).
FedByAll ==
  [][hwAge > 0 /\ hwAge' = 0 /\ count' > 0
       => \A i \in Registered(count') : age'[i] <= hwAge]_vars

\* A hung holder always ends in a reset of the chip.
HangEndsInReset == hung # {} ~> hung = {}
=============================================================================
