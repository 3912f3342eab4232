------------------------------ MODULE Executor ------------------------------
(***************************************************************************)
(* executors: the thread-mode executor, which sleeps when nothing signals   *)
(* work, and the interrupt-mode executor of bsp/rev1.rs, which a software   *)
(* interrupt runs above it.  Interrupts come at any time; while they are    *)
(* masked they stay pending.  embassy's raw executor is external: wake      *)
(* queues a task and calls the pender if the queue was empty; poll takes    *)
(* the whole queue and polls each task, which may wake others or itself.    *)
(***************************************************************************)
EXTENDS Integers

CONSTANTS
  Low, High,    \* tasks of the thread-mode and of the interrupt-mode executor
  Horizon       \* ticks at most from one SleepStats to the next (a bound)

ASSUME ExecutorAssumption ==
  /\ Low \cap High = {} /\ Low # {}
  /\ Horizon \in Nat

VARIABLES
  queue,        \* tasks in the run queues
  batch,        \* tasks taken from them and still to be polled
  signal,       \* SIGNAL_WORK_THREAD_MODE
  swi,          \* the software interrupt is raised
  irqs,         \* pending interrupts of drivers, by the task they will wake
  pc, high,     \* positions of Executor::run and of handle_interrupt
  nap,          \* ticks since start, in wait_impl
  sleep,        \* SLEEP_TOTAL_TICKS
  total         \* ticks since SLEEP_COUNT_FROM

work == <<queue, batch>>
stats == <<nap, sleep, total>>
vars == <<work, signal, swi, irqs, pc, high, stats>>

Tasks == Low \cup High

\* Interrupts are masked from the critical section's start to the wake-up.
Masked == pc = "asleep"

\* run spawns app; its executor's queue is not empty, and signalled.
Init ==
  /\ queue \in {{t} : t \in Low} /\ batch = {}
  /\ signal = TRUE
  /\ swi = FALSE
  /\ irqs = {}
  /\ pc = "poll" /\ high = "off"
  /\ nap = 0 /\ sleep = 0 /\ total = 0

-----------------------------------------------------------------------------
(* The pender, and what the raw executor makes of it.                      *)

\* __pender, called for the thread-mode executor, the other, both or neither.
Pend(low, hi) ==
  /\ signal' = (signal \/ low)
  /\ swi' = (swi \/ hi)

\* The tasks of w are woken when q is queued and b is to be polled: those are
\* in there already.  Only a queue that was empty calls the pender.
Wake(w, q, b) ==
  LET new == w \ (q \cup b) IN
    /\ queue' = q \cup new
    /\ Pend(new \cap Low # {} /\ q \cap Low = {},
            new \cap High # {} /\ q \cap High = {})

\* The tasks that can be woken: there is no task on an executor not started.
Present == IF high = "off" THEN Low ELSE Tasks

-----------------------------------------------------------------------------
(* executors/interrupt.rs.                                                 *)

\* InterruptExecutor::start, called by app in Bsp::init.
Start ==
  /\ pc = "run" /\ high = "off"
  /\ high' = "idle"
  /\ UNCHANGED <<work, signal, swi, irqs, pc, stats>>

\* The software interrupt is taken; its handler resets it.
HighEnter ==
  /\ swi /\ high = "idle" /\ ~ Masked
  /\ swi' = FALSE
  /\ high' = "poll"
  /\ UNCHANGED <<work, signal, irqs, pc, stats>>

\* executor.poll() begins.
HighDequeue ==
  /\ high = "poll"
  /\ batch' = batch \cup (queue \cap High)
  /\ queue' = queue \ High
  /\ high' = "run"
  /\ UNCHANGED <<signal, swi, irqs, pc, stats>>

HighPoll(t) ==
  /\ high = "run" /\ t \in batch \cap High
  /\ batch' = batch \ {t}
  /\ \E w \in SUBSET Tasks : Wake(w, queue, batch \ {t})
  /\ UNCHANGED <<irqs, pc, high, stats>>

\* Slip: the software interrupt is reset after the poll.
HighExitResets ==
  /\ high = "run" /\ batch \cap High = {}
  /\ high' = "idle"
  /\ swi' = FALSE
  /\ UNCHANGED <<work, signal, irqs, pc, stats>>

HighExit ==
  /\ high = "run" /\ batch \cap High = {}
  /\ high' = "idle"
  /\ UNCHANGED <<work, signal, swi, irqs, pc, stats>>

-----------------------------------------------------------------------------
(* executors/thread.rs, which runs when the other executor does not.       *)

ThreadRuns == high \in {"off", "idle"}

\* self.inner.poll() begins.
Dequeue ==
  /\ ThreadRuns /\ pc = "poll"
  /\ batch' = batch \cup (queue \cap Low)
  /\ queue' = queue \ Low
  /\ pc' = "run"
  /\ UNCHANGED <<signal, swi, irqs, high, stats>>

Poll(t) ==
  /\ ThreadRuns /\ pc = "run" /\ t \in batch \cap Low
  /\ batch' = batch \ {t}
  /\ \E w \in SUBSET Present : Wake(w, queue, batch \ {t})
  /\ UNCHANGED <<irqs, pc, high, stats>>

PollEnds ==
  /\ ThreadRuns /\ pc = "run" /\ batch \cap Low = {}
  /\ pc' = "wait"
  /\ UNCHANGED <<work, signal, swi, irqs, high, stats>>

\* Slip: the signal is cleared in either case.
WaitImplClears ==
  /\ ThreadRuns /\ pc = "wait"
  /\ pc' = "asleep" /\ nap' = 0
  /\ signal' = FALSE
  /\ UNCHANGED <<work, swi, irqs, high, sleep, total>>

\* wait_impl: with work signalled poll again, else sleep, interrupts masked.
WaitImpl ==
  /\ ThreadRuns /\ pc = "wait"
  /\ \/ signal /\ pc' = "poll" /\ UNCHANGED nap
     \/ ~ signal /\ pc' = "asleep" /\ nap' = 0
  /\ signal' = FALSE
  /\ UNCHANGED <<work, swi, irqs, high, sleep, total>>

\* A pending interrupt ends wfi; it is served when it is no longer masked.
WakeUp ==
  /\ pc = "asleep"
  /\ irqs # {} \/ swi
  /\ pc' = "poll"
  /\ sleep' = sleep + nap
  /\ nap' = 0
  /\ UNCHANGED <<work, signal, swi, irqs, high, total>>

\* Slip: the count of sleep is read and not reset.
CurrentRestartKeeps ==
  /\ ThreadRuns /\ pc = "run"
  /\ total' = 0
  /\ UNCHANGED <<work, signal, swi, irqs, pc, high, nap, sleep>>

\* SleepStats::current_restart, by the statistics' task.
CurrentRestart ==
  /\ ThreadRuns /\ pc = "run"
  /\ sleep' = 0 /\ total' = 0
  /\ UNCHANGED <<work, signal, swi, irqs, pc, high, nap>>

-----------------------------------------------------------------------------
(* Drivers and time.                                                       *)

Interrupt(t) ==
  /\ t \in Present \ irqs
  /\ irqs' = irqs \cup {t}
  /\ UNCHANGED <<work, signal, swi, pc, high, stats>>

\* A driver's handler wakes its task, at any priority.
Serve(t) ==
  /\ t \in irqs /\ ~ Masked
  /\ irqs' = irqs \ {t}
  /\ Wake({t}, queue, batch)
  /\ UNCHANGED <<batch, pc, high, stats>>

Tick ==
  /\ total < Horizon
  /\ total' = total + 1
  /\ nap' = IF pc = "asleep" THEN nap + 1 ELSE nap
  /\ UNCHANGED <<work, signal, swi, irqs, pc, high, sleep>>

Thread ==
  \/ Dequeue \/ PollEnds \/ WaitImpl
  \/ \E t \in Low : Poll(t)

Handler ==
  \/ HighEnter \/ HighDequeue \/ HighExit
  \/ \E t \in High : HighPoll(t)

Next ==
  \/ Start \/ Handler \/ Thread \/ WakeUp \/ CurrentRestart
  \/ \E t \in Tasks : Interrupt(t) \/ Serve(t)
  \/ Tick

Spec == Init /\ [][Next]_vars

\* Instructions are executed, and interrupts are taken when they are no longer
\* masked.  Tasks in interrupt mode and drivers leave time to the others.
Fairness ==
  /\ SF_vars(Handler) /\ SF_vars(Thread) /\ WF_vars(WakeUp)
  /\ \A t \in Tasks : SF_vars(Serve(t))

FairSpec == Spec /\ Fairness

-----------------------------------------------------------------------------
TypeOK ==
  /\ queue \in SUBSET Tasks /\ batch \in SUBSET Tasks /\ irqs \in SUBSET Tasks
  /\ signal \in BOOLEAN /\ swi \in BOOLEAN
  /\ pc \in {"poll", "run", "wait", "asleep"}
  /\ high \in {"off", "idle", "poll", "run"}
  /\ nap \in Nat /\ sleep \in Nat /\ total \in Nat

\* The thread-mode executor never sleeps over a task that was woken after the
\* queue was taken, however the interrupt falls before the critical section
\* (thread.rs:95-113).
NothingSleptOver == pc = "asleep" => (queue \cup batch) \cap Low = {}

\* A woken task's executor has been told, or is about to look: no pend is lost
\* between a reset of the signal or interrupt and the poll after it.
WorkIsSignalled ==
  /\ queue \cap Low # {} => signal \/ pc = "poll"
  /\ queue \cap High # {} => swi \/ high = "poll"

\* What the statistics report as idle is at most all of the time
\* (thread.rs:27-39, 106-108).
IdleAtMostAll == sleep + (IF pc = "asleep" THEN nap ELSE 0) <= total

\* A task whose interrupt came is polled, on either executor.
InterruptsReachTasks ==
  \A t \in Tasks : t \in irqs \/ t \in queue ~> t \in batch
=============================================================================
