--------------------------- MODULE ExecutorProofs ---------------------------
(***************************************************************************)
(* For any tasks on the two executors, and whatever wakes them.            *)
(***************************************************************************)
EXTENDS Executor, TLAPS

\* Tasks that were taken are those of an executor that is polling.
Positions ==
  /\ pc # "run" => batch \cap Low = {}
  /\ high # "run" => batch \cap High = {}
  /\ pc = "asleep" => ThreadRuns /\ queue \cap Low = {}
  /\ high = "off" => queue \cap High = {} /\ irqs \cap High = {}

Durations ==
  /\ pc # "asleep" => nap = 0
  /\ sleep + nap <= total

IInv == TypeOK /\ Positions /\ WorkIsSignalled /\ Durations

-----------------------------------------------------------------------------
\* Waking tasks keeps what is queued and signalled, and signals what it adds.
LEMMA WakeSignals ==
  ASSUME TypeOK, NEW w \in SUBSET Tasks, NEW b, Wake(w, queue, b)
  PROVE  /\ queue' \in SUBSET Tasks /\ queue \subseteq queue'
         /\ queue' \subseteq queue \cup w
         /\ signal' \in BOOLEAN /\ swi' \in BOOLEAN
         /\ signal => signal'
         /\ swi => swi'
         /\ queue' \cap Low # {} => signal' \/ queue \cap Low # {}
         /\ queue' \cap High # {} => swi' \/ queue \cap High # {}
<1> DEFINE new == w \ (queue \cup b)
<1>1. /\ queue' = queue \cup new
      /\ signal' = (signal \/ (new \cap Low # {} /\ queue \cap Low = {}))
      /\ swi' = (swi \/ (new \cap High # {} /\ queue \cap High = {}))
  BY DEF Wake, Pend
<1>2. signal' \in BOOLEAN /\ swi' \in BOOLEAN BY <1>1
<1>3. (signal => signal') /\ (swi => swi') BY <1>1
<1>4. /\ queue' \in SUBSET Tasks /\ queue \subseteq queue'
      /\ queue' \subseteq queue \cup w
  BY <1>1 DEF TypeOK
<1>5. queue' \cap Low # {} => signal' \/ queue \cap Low # {} BY <1>1
<1>6. queue' \cap High # {} => swi' \/ queue \cap High # {} BY <1>1
<1> QED BY <1>2, <1>3, <1>4, <1>5, <1>6

LEMMA InitInv == Init => IInv
<1> SUFFICES ASSUME Init PROVE IInv OBVIOUS
<1>1. PICK t \in Low : queue = {t} BY DEF Init
<1>2. TypeOK
  <2>1. signal \in BOOLEAN /\ swi \in BOOLEAN BY DEF Init
  <2> QED BY <1>1, <2>1 DEF Init, TypeOK, Tasks
<1>3. Positions BY <1>1, ExecutorAssumption DEF Init, Positions
<1>4. WorkIsSignalled BY <1>1, ExecutorAssumption DEF Init, WorkIsSignalled
<1>5. Durations BY DEF Init, Durations
<1> QED BY <1>2, <1>3, <1>4, <1>5 DEF IInv

\* Steps of handle_interrupt keep the invariant.
LEMMA HandlerInv ==
  ASSUME IInv, Handler
  PROVE  IInv'
<1> USE DEF work, stats
<1>t. TypeOK /\ Positions /\ WorkIsSignalled /\ Durations BY DEF IInv
<1>1. CASE HighEnter
  <2>1. TypeOK'
    <3>1. swi' \in BOOLEAN BY <1>1 DEF HighEnter
    <3> QED BY <1>1, <1>t, <3>1 DEF HighEnter, TypeOK
  <2>2. Positions' BY <1>1, <1>t DEF HighEnter, Positions, ThreadRuns, Masked
  <2>3. WorkIsSignalled' BY <1>1, <1>t DEF HighEnter, WorkIsSignalled
  <2>4. Durations' BY <1>1, <1>t DEF HighEnter, Durations
  <2> QED BY <2>1, <2>2, <2>3, <2>4 DEF IInv
<1>2. CASE HighDequeue
  <2>1. TypeOK' BY <1>2, <1>t DEF HighDequeue, TypeOK
  <2>2. Positions'
    BY <1>2, <1>t, ExecutorAssumption DEF HighDequeue, Positions, ThreadRuns
  <2>3. WorkIsSignalled'
    BY <1>2, <1>t, ExecutorAssumption DEF HighDequeue, WorkIsSignalled
  <2>4. Durations' BY <1>2, <1>t DEF HighDequeue, Durations
  <2> QED BY <2>1, <2>2, <2>3, <2>4 DEF IInv
<1>3. CASE HighExit
  <2>1. TypeOK' BY <1>3, <1>t DEF HighExit, TypeOK
  <2>2. Positions' BY <1>3, <1>t DEF HighExit, Positions, ThreadRuns
  <2>3. WorkIsSignalled' BY <1>3, <1>t DEF HighExit, WorkIsSignalled
  <2>4. Durations' BY <1>3, <1>t DEF HighExit, Durations
  <2> QED BY <2>1, <2>2, <2>3, <2>4 DEF IInv
<1>4. ASSUME NEW t \in High, HighPoll(t) PROVE IInv'
  <2>1. PICK w \in SUBSET Tasks : Wake(w, queue, batch \ {t})
    BY <1>4 DEF HighPoll
  <2>2. /\ queue' \in SUBSET Tasks
        /\ signal' \in BOOLEAN /\ swi' \in BOOLEAN
        /\ signal => signal'
        /\ swi => swi'
        /\ queue' \cap Low # {} => signal' \/ queue \cap Low # {}
        /\ queue' \cap High # {} => swi' \/ queue \cap High # {}
    BY <1>t, <2>1, WakeSignals
  <2>3. TypeOK' BY <1>4, <1>t, <2>2 DEF HighPoll, TypeOK
  <2>4. Positions'
    BY <1>4, <1>t, ExecutorAssumption DEF HighPoll, Positions, ThreadRuns
  <2>5. WorkIsSignalled'
    BY <1>4, <1>t, <2>2 DEF HighPoll, WorkIsSignalled
  <2>6. Durations' BY <1>4, <1>t DEF HighPoll, Durations
  <2> QED BY <2>3, <2>4, <2>5, <2>6 DEF IInv
<1> QED BY <1>1, <1>2, <1>3, <1>4 DEF Handler

\* Steps of Executor::run keep it.
LEMMA ThreadInv ==
  ASSUME IInv, Thread \/ Start \/ WakeUp \/ CurrentRestart
  PROVE  IInv'
<1> USE DEF work, stats
<1>t. TypeOK /\ Positions /\ WorkIsSignalled /\ Durations BY DEF IInv
<1>1. CASE Dequeue
  <2>1. TypeOK' BY <1>1, <1>t DEF Dequeue, TypeOK
  <2>2. Positions'
    BY <1>1, <1>t, ExecutorAssumption DEF Dequeue, Positions, ThreadRuns
  <2>3. WorkIsSignalled'
    BY <1>1, <1>t, ExecutorAssumption DEF Dequeue, WorkIsSignalled
  <2>4. Durations' BY <1>1, <1>t DEF Dequeue, Durations
  <2> QED BY <2>1, <2>2, <2>3, <2>4 DEF IInv
<1>2. CASE PollEnds
  <2>1. TypeOK' BY <1>2, <1>t DEF PollEnds, TypeOK
  <2>2. Positions' BY <1>2, <1>t DEF PollEnds, Positions, ThreadRuns
  <2>3. WorkIsSignalled' BY <1>2, <1>t DEF PollEnds, WorkIsSignalled
  <2>4. Durations' BY <1>2, <1>t DEF PollEnds, Durations
  <2> QED BY <2>1, <2>2, <2>3, <2>4 DEF IInv
<1>3. CASE WaitImpl
  <2>1. TypeOK'
    <3>1. signal' \in BOOLEAN BY <1>3 DEF WaitImpl
    <3>2. nap' \in Nat /\ pc' \in {"poll", "asleep"}
      BY <1>3, <1>t DEF WaitImpl, TypeOK
    <3> QED BY <1>3, <1>t, <3>1, <3>2 DEF WaitImpl, TypeOK
  <2>2. Positions'
    BY <1>3, <1>t DEF WaitImpl, Positions, ThreadRuns, WorkIsSignalled
  <2>3. WorkIsSignalled' BY <1>3, <1>t DEF WaitImpl, WorkIsSignalled
  <2>4. Durations' BY <1>3, <1>t DEF WaitImpl, Durations, TypeOK
  <2> QED BY <2>1, <2>2, <2>3, <2>4 DEF IInv
<1>4. ASSUME NEW t \in Low, Poll(t) PROVE IInv'
  <2>1. PICK w \in SUBSET Present : Wake(w, queue, batch \ {t})
    BY <1>4 DEF Poll
  <2>2. Present \subseteq Tasks BY DEF Present, Tasks
  <2>3. /\ queue' \in SUBSET Tasks
        /\ queue' \subseteq queue \cup w
        /\ signal' \in BOOLEAN /\ swi' \in BOOLEAN
        /\ signal => signal'
        /\ swi => swi'
        /\ queue' \cap Low # {} => signal' \/ queue \cap Low # {}
        /\ queue' \cap High # {} => swi' \/ queue \cap High # {}
    BY <1>t, <2>1, <2>2, WakeSignals
  <2>4. TypeOK' BY <1>4, <1>t, <2>3 DEF Poll, TypeOK
  <2>5. Positions'
    BY <1>4, <1>t, <2>1, <2>3, ExecutorAssumption
       DEF Poll, Positions, ThreadRuns, Present
  <2>6. WorkIsSignalled'
    BY <1>4, <1>t, <2>3 DEF Poll, WorkIsSignalled
  <2>7. Durations' BY <1>4, <1>t DEF Poll, Durations
  <2> QED BY <2>4, <2>5, <2>6, <2>7 DEF IInv
<1>5. CASE Start
  <2>1. TypeOK' BY <1>5, <1>t DEF Start, TypeOK
  <2>2. Positions' BY <1>5, <1>t DEF Start, Positions, ThreadRuns
  <2>3. WorkIsSignalled' BY <1>5, <1>t DEF Start, WorkIsSignalled
  <2>4. Durations' BY <1>5, <1>t DEF Start, Durations
  <2> QED BY <2>1, <2>2, <2>3, <2>4 DEF IInv
<1>6. CASE WakeUp
  <2>1. TypeOK' BY <1>6, <1>t DEF WakeUp, TypeOK
  <2>2. Positions' BY <1>6, <1>t DEF WakeUp, Positions, ThreadRuns
  <2>3. WorkIsSignalled' BY <1>6, <1>t DEF WakeUp, WorkIsSignalled
  <2>4. Durations' BY <1>6, <1>t DEF WakeUp, Durations, TypeOK
  <2> QED BY <2>1, <2>2, <2>3, <2>4 DEF IInv
<1>7. CASE CurrentRestart
  <2>1. TypeOK' BY <1>7, <1>t DEF CurrentRestart, TypeOK
  <2>2. Positions' BY <1>7, <1>t DEF CurrentRestart, Positions, ThreadRuns
  <2>3. WorkIsSignalled' BY <1>7, <1>t DEF CurrentRestart, WorkIsSignalled
  <2>4. Durations' BY <1>7, <1>t DEF CurrentRestart, Durations
  <2> QED BY <2>1, <2>2, <2>3, <2>4 DEF IInv
<1> QED BY <1>1, <1>2, <1>3, <1>4, <1>5, <1>6, <1>7 DEF Thread

\* Drivers and time keep it.
LEMMA DriverInv ==
  ASSUME IInv, \/ \E t \in Tasks : Interrupt(t) \/ Serve(t)
               \/ Tick
  PROVE  IInv'
<1> USE DEF work, stats
<1>t. TypeOK /\ Positions /\ WorkIsSignalled /\ Durations BY DEF IInv
<1>1. ASSUME NEW t \in Tasks, Interrupt(t) PROVE IInv'
  <2>1. TypeOK' BY <1>1, <1>t DEF Interrupt, TypeOK
  <2>2. Positions'
    BY <1>1, <1>t, ExecutorAssumption
       DEF Interrupt, Positions, ThreadRuns, Present
  <2>3. WorkIsSignalled' BY <1>1, <1>t DEF Interrupt, WorkIsSignalled
  <2>4. Durations' BY <1>1, <1>t DEF Interrupt, Durations
  <2> QED BY <2>1, <2>2, <2>3, <2>4 DEF IInv
<1>2. ASSUME NEW t \in Tasks, Serve(t) PROVE IInv'
  <2>1. /\ queue' \in SUBSET Tasks
        /\ queue' \subseteq queue \cup {t}
        /\ signal' \in BOOLEAN /\ swi' \in BOOLEAN
        /\ signal => signal'
        /\ swi => swi'
        /\ queue' \cap Low # {} => signal' \/ queue \cap Low # {}
        /\ queue' \cap High # {} => swi' \/ queue \cap High # {}
    BY <1>2, <1>t, WakeSignals DEF Serve
  <2>2. TypeOK' BY <1>2, <1>t, <2>1 DEF Serve, TypeOK
  <2>3. Positions'
    BY <1>2, <1>t, <2>1 DEF Serve, Positions, ThreadRuns, Masked
  <2>4. WorkIsSignalled' BY <1>2, <1>t, <2>1 DEF Serve, WorkIsSignalled
  <2>5. Durations' BY <1>2, <1>t DEF Serve, Durations
  <2> QED BY <2>2, <2>3, <2>4, <2>5 DEF IInv
<1>3. CASE Tick
  <2>1. TypeOK' BY <1>3, <1>t DEF Tick, TypeOK
  <2>2. Positions' BY <1>3, <1>t DEF Tick, Positions, ThreadRuns
  <2>3. WorkIsSignalled' BY <1>3, <1>t DEF Tick, WorkIsSignalled
  <2>4. Durations' BY <1>3, <1>t DEF Tick, Durations, TypeOK
  <2> QED BY <2>1, <2>2, <2>3, <2>4 DEF IInv
<1> QED BY <1>1, <1>2, <1>3

LEMMA NextInv == IInv /\ [Next]_vars => IInv'
<1> SUFFICES ASSUME IInv, [Next]_vars PROVE IInv' OBVIOUS
<1>1. CASE UNCHANGED vars
  BY <1>1 DEF vars, work, stats, IInv, TypeOK, Positions, ThreadRuns,
              WorkIsSignalled, Durations
<1>2. CASE Handler BY <1>2, HandlerInv
<1>3. CASE Thread \/ Start \/ WakeUp \/ CurrentRestart BY <1>3, ThreadInv
<1>4. CASE \/ \E t \in Tasks : Interrupt(t) \/ Serve(t)
           \/ Tick
  BY <1>4, DriverInv
<1> QED BY <1>1, <1>2, <1>3, <1>4 DEF Next

LEMMA Invariant == Spec => []IInv
BY InitInv, NextInv, PTL DEF Spec

\* The executors are well typed for any tasks.
THEOREM TypeCorrect == Spec => []TypeOK
<1>1. IInv => TypeOK BY DEF IInv
<1> QED BY <1>1, Invariant, PTL

\* A task with work never waits for an executor that was not told.
THEOREM WorkGetsSignalled == Spec => []WorkIsSignalled
<1>1. IInv => WorkIsSignalled BY DEF IInv
<1> QED BY <1>1, Invariant, PTL

\* The processor never sleeps while a task of the thread-mode executor is woken.
THEOREM NoWakeUpIsSleptOver == Spec => []NothingSleptOver
<1>1. IInv => NothingSleptOver BY DEF IInv, Positions, NothingSleptOver
<1> QED BY <1>1, Invariant, PTL

\* The idle share that is reported is at most the whole.
THEOREM IdleIsAShare == Spec => []IdleAtMostAll
<1>1. IInv => IdleAtMostAll BY DEF IInv, TypeOK, Durations, IdleAtMostAll
<1> QED BY <1>1, Invariant, PTL
=============================================================================
