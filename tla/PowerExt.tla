------------------------------ MODULE PowerExt ------------------------------
(***************************************************************************)
(* Output control of systems/power_ext.rs: monitor_task trips the output   *)
(* on over-current, waits out the back-off, enables it again and records   *)
(* the episode once the output is stable; config_task writes new settings  *)
(* to the same converter.  The two share Inner behind an unfair mutex and  *)
(* interleave at every await.                                              *)
(*                                                                         *)
(* An Instant is kept as the ticks that remain until it: 0 is now, -1 is   *)
(* past; but ocp_since as the ticks since.  A step takes any time, ticks   *)
(* may come between any two.                                               *)
(***************************************************************************)
EXTENDS Integers

CONSTANTS
  Settings,       \* settings, told apart by their backoff_ms (in ticks)
  Stabilization,  \* STABILIZATION_DURATION
  MaxWait,        \* MAX_DURATION
  MaxResets,      \* resets of the processor in a behaviour (a bound)
  Horizon,        \* where the ghost ages stop counting (a bound)
  None            \* Option::None

ASSUME PowerExtAssumption ==
  /\ Settings \subseteq Nat /\ Settings # {}
  /\ Stabilization \in Nat
  /\ MaxWait \in Nat
  /\ MaxResets \in Nat
  /\ Horizon \in Nat
  /\ Stabilization < Horizon /\ \A s \in Settings : s < Horizon
  /\ None \notin Int

VARIABLES
  pc,             \* where init and then monitor_task are
  cfgPc, cfgArg,  \* where config_task is in persist, and its argument
  lock,           \* who holds Inner: "free", "monitor" or "config"
  state, backoff_duration,           \* Inner
  enabled, backoff_until, stabilized_at, ocp_since, \* monitor_task's locals
  wake,           \* the timer of the select
  oe, vref, limit, fault,  \* registers of the converter; dischg is ~oe
  pin,            \* the level asked of usb_pd's pin
  resets,         \* resets so far
  offFor, owed,   \* ghost: ticks since the last trip, and its back-off
  onFor,          \* ghost: ticks since the output was last turned on
  episode,        \* ghost: ticks since the first trip after the last stable time
  unrecorded      \* ghost: episodes begun minus episodes logged

inner   == <<state, backoff_duration>>
locals  == <<enabled, backoff_until, stabilized_at, ocp_since>>
chip    == <<oe, vref, limit, fault>>
config  == <<cfgPc, cfgArg>>
episodes == <<episode, unrecorded>>
ghosts  == <<offFor, owed, onFor, episodes>>
vars == <<pc, config, lock, inner, locals, wake, chip, pin, resets, ghosts>>

Booting == pc \in {"boot_off", "boot_vref", "boot_limit"}

\* monitor_task is inside the scope of its guard of Inner.
Working == pc \in {"read", "faulty", "fine", "trip", "trip_pin", "enable",
                   "enable_pin", "record"}

Init ==
  /\ pc = "boot_off"
  /\ cfgPc = "idle" /\ cfgArg = None
  /\ lock = "free"
  /\ state = "Disabled" /\ backoff_duration = 0
  /\ enabled = FALSE /\ backoff_until = None /\ stabilized_at = None
  /\ ocp_since = None
  /\ wake = 0
  /\ oe = FALSE /\ vref = None /\ limit = None /\ fault = FALSE
  /\ pin = FALSE
  /\ resets = 0
  /\ offFor = None /\ owed = 0 /\ onFor = 0
  /\ episode = None /\ unrecorded = 0

-----------------------------------------------------------------------------
(* PowerExt::init: the output is off and configured before the tasks run.  *)

BootOff ==
  /\ pc = "boot_off"
  /\ oe' = FALSE
  /\ onFor' = 0
  /\ pc' = "boot_vref"
  /\ UNCHANGED <<config, lock, inner, locals, wake, vref, limit, fault, pin,
                 resets, offFor, owed, episodes>>

\* persist(config.fetch()), first write.  Nobody else runs on Inner yet.
BootVref ==
  /\ pc = "boot_vref"
  /\ \E s \in Settings :
       /\ backoff_duration' = s
       /\ vref' = s
  /\ pc' = "boot_limit"
  /\ UNCHANGED <<config, lock, state, locals, wake, oe, limit, fault, pin,
                 resets, ghosts>>

BootLimit ==
  /\ pc = "boot_limit"
  /\ limit' = backoff_duration
  /\ pc' = "lock"
  /\ UNCHANGED <<config, lock, inner, locals, wake, oe, vref, fault, pin,
                 resets, ghosts>>

\* A panic or the watchdog resets the processor.  The converter and the pin
\* keep their levels until init reaches them; the back-off is forgotten.
Reset ==
  /\ pc # "boot_off"
  /\ resets < MaxResets
  /\ resets' = resets + 1
  /\ pc' = "boot_off"
  /\ cfgPc' = "idle" /\ cfgArg' = None
  /\ lock' = "free"
  /\ state' = "Disabled" /\ backoff_duration' = 0
  /\ enabled' = FALSE /\ backoff_until' = None /\ stabilized_at' = None
  /\ ocp_since' = None
  /\ wake' = 0
  /\ offFor' = None /\ owed' = 0
  /\ episode' = None /\ unrecorded' = 0
  /\ UNCHANGED <<chip, pin, onFor>>

-----------------------------------------------------------------------------
(* config_task.  Slips of persist come first.                              *)

\* A message arrives from the configuration's channel.
PersistStart(s) ==
  /\ ~ Booting
  /\ cfgPc = "idle"
  /\ cfgPc' = "lock" /\ cfgArg' = s
  /\ UNCHANGED <<pc, lock, inner, locals, wake, chip, pin, resets, ghosts>>

\* Slip: the registers are written without holding Inner.
PersistLockLater ==
  /\ cfgPc = "lock"
  /\ backoff_duration' = cfgArg
  /\ cfgPc' = "vref"
  /\ UNCHANGED <<pc, lock, cfgArg, state, locals, wake, chip, pin, resets,
                 ghosts>>

PersistLock ==
  /\ cfgPc = "lock"
  /\ lock = "free"
  /\ lock' = "config"
  /\ backoff_duration' = cfgArg
  /\ cfgPc' = "vref"
  /\ UNCHANGED <<pc, cfgArg, state, locals, wake, chip, pin, resets, ghosts>>

PersistVref ==
  /\ cfgPc = "vref"
  /\ vref' = cfgArg
  /\ cfgPc' = "limit"
  /\ UNCHANGED <<pc, cfgArg, lock, inner, locals, wake, oe, limit, fault, pin,
                 resets, ghosts>>

PersistLimit ==
  /\ cfgPc = "limit"
  /\ limit' = cfgArg
  /\ lock' = "free"
  /\ cfgPc' = "idle" /\ cfgArg' = None
  /\ UNCHANGED <<pc, inner, locals, wake, oe, vref, fault, pin, resets,
                 ghosts>>

-----------------------------------------------------------------------------
(* monitor_task.                                                           *)

\* earliest_deadline over the deadlines that are set.
EarliestDeadline(ds) ==
  LET set == ds \ {None} IN CHOOSE d \in set : \A e \in set : d <= e

\* Slip: only the deadlines of the state machine wake the task.
SleepUntilDeadline(backoff, stabilized) ==
  /\ lock' = "free"
  /\ pc' = "sleep"
  /\ wake' = IF {backoff, stabilized} = {None} THEN None
             ELSE EarliestDeadline({backoff, stabilized})

\* The guard of Inner is dropped and the select starts to listen for a
\* falling edge, until the earliest deadline.
Sleep(backoff, stabilized) ==
  /\ lock' = "free"
  /\ pc' = "sleep"
  /\ wake' = EarliestDeadline({MaxWait, backoff, stabilized})

\* The timer ends the select.  (The edge that ends it is in Fault.)
Awaken ==
  /\ pc = "sleep"
  /\ wake # None /\ wake <= 0
  /\ pc' = "lock"
  /\ UNCHANGED <<config, lock, inner, locals, wake, chip, pin, resets, ghosts>>

MonitorLock ==
  /\ pc = "lock"
  /\ lock = "free"
  /\ lock' = "monitor"
  /\ pc' = "read"
  /\ UNCHANGED <<config, inner, locals, wake, chip, pin, resets, ghosts>>

\* The status register is read, which clears its fault bits.  What it held is
\* acted on when the watchdog's feed has returned.
ReadStatus ==
  /\ pc = "read"
  /\ fault' = FALSE
  /\ pc' = IF fault THEN "faulty" ELSE "fine"
  /\ UNCHANGED <<config, lock, inner, locals, wake, oe, vref, limit, pin,
                 resets, ghosts>>

\* Slip: the back-off is over as soon as the task is woken.
ActivateOnWake(until) == TRUE

Activate(until) == until # None => until < 0

\* Slip: the guard is dropped before the output is turned off.
ReadFaultUnguarded ==
  /\ pc = "faulty"
  /\ state' = "Ocp"
  /\ lock' = "free"
  /\ pc' = "trip"
  /\ UNCHANGED <<config, backoff_duration, locals, wake, chip, pin, resets,
                 ghosts>>

ReadFault ==
  /\ pc = "faulty"
  /\ state' = "Ocp"
  /\ pc' = "trip"
  /\ UNCHANGED <<config, lock, backoff_duration, locals, wake, chip, pin, resets,
                 ghosts>>

ReadDisabled ==
  /\ pc = "fine"
  /\ ~ enabled
  /\ \/ /\ Activate(backoff_until)
        /\ state' = "Enabling"
        /\ pc' = "enable"
        /\ UNCHANGED <<lock, wake>>
     \/ /\ ~ Activate(backoff_until)
        /\ Sleep(backoff_until, stabilized_at)
        /\ UNCHANGED state
  /\ UNCHANGED <<config, backoff_duration, locals, chip, pin, resets, ghosts>>

\* Slip: stabilised as soon as the task is woken.
StabilizedOnWake == stabilized_at # None

Stabilized == stabilized_at # None /\ stabilized_at < 0

ReadEnabled ==
  /\ pc = "fine"
  /\ enabled
  /\ \/ /\ Stabilized
        /\ state' = "Enabled"
        /\ stabilized_at' = None
        /\ episode' = None
        /\ IF ocp_since # None
           THEN pc' = "record" /\ UNCHANGED <<lock, wake>>
           ELSE Sleep(backoff_until, None)
     \/ /\ ~ Stabilized
        /\ Sleep(backoff_until, stabilized_at)
        /\ UNCHANGED <<state, stabilized_at, episode>>
  /\ UNCHANGED <<config, backoff_duration, enabled, backoff_until, ocp_since,
                 chip, pin, resets, offFor, owed, onFor, unrecorded>>

Since(t) == IF t = None THEN 0 ELSE t

\* The output is turned off and the back-off starts, and an episode does if none
\* runs.
Trip ==
  /\ pc = "trip"
  /\ oe' = FALSE
  /\ enabled' = FALSE
  /\ backoff_until' = backoff_duration
  /\ stabilized_at' = None
  /\ ocp_since' = Since(ocp_since)
  /\ offFor' = 0 /\ owed' = backoff_duration /\ onFor' = 0
  /\ episode' = Since(episode)
  /\ unrecorded' = unrecorded + (IF episode = None THEN 1 ELSE 0)
  /\ pc' = "trip_pin"
  /\ UNCHANGED <<config, lock, inner, wake, vref, limit, fault, pin, resets>>

TripPin ==
  /\ pc = "trip_pin"
  /\ pin' = FALSE
  /\ Sleep(backoff_until, stabilized_at)
  /\ UNCHANGED <<config, inner, locals, chip, resets, ghosts>>

Enable ==
  /\ pc = "enable"
  /\ oe' = TRUE
  /\ enabled' = TRUE
  /\ backoff_until' = None
  /\ onFor' = 0
  /\ pc' = "enable_pin"
  /\ UNCHANGED <<config, lock, inner, stabilized_at, ocp_since, wake, vref,
                 limit, fault, pin, resets, offFor, owed, episodes>>

\* Slip: the stabilisation is never started.
EnablePinOnly ==
  /\ pc = "enable_pin"
  /\ pin' = TRUE
  /\ Sleep(backoff_until, stabilized_at)
  /\ UNCHANGED <<config, inner, locals, chip, resets, ghosts>>

EnablePin ==
  /\ pc = "enable_pin"
  /\ pin' = TRUE
  /\ stabilized_at' = Stabilization
  /\ Sleep(backoff_until, Stabilization)
  /\ UNCHANGED <<config, inner, enabled, backoff_until, ocp_since, chip, resets,
                 ghosts>>

\* Slip: the start of the episode that was logged is kept.
LogOvercurrentKeeps ==
  /\ pc = "record"
  /\ unrecorded' = unrecorded - 1
  /\ Sleep(backoff_until, stabilized_at)
  /\ UNCHANGED <<config, inner, locals, chip, pin, resets, offFor, owed, onFor,
                 episode>>

\* record.log_overcurrent returns.
LogOvercurrent ==
  /\ pc = "record"
  /\ ocp_since' = None
  /\ unrecorded' = unrecorded - 1
  /\ Sleep(backoff_until, stabilized_at)
  /\ UNCHANGED <<config, inner, enabled, backoff_until, stabilized_at, chip, pin,
                 resets, offFor, owed, onFor, episode>>

-----------------------------------------------------------------------------
\* The converter latches an over-current or a short circuit of its output and
\* pulls its interrupt pin down.  The edge is seen only by a select that is
\* listening; otherwise it is lost.
Fault ==
  /\ oe
  /\ ~ fault
  /\ fault' = TRUE
  /\ pc' = IF pc = "sleep" THEN "lock" ELSE pc
  /\ UNCHANGED <<config, lock, inner, locals, wake, oe, vref, limit, pin,
                 resets, ghosts>>

Remaining(t) == IF t = None THEN None ELSE IF t < 0 THEN -1 ELSE t - 1
Elapsed(t) == IF t = None \/ t = Horizon THEN t ELSE t + 1

Tick ==
  /\ backoff_until' = Remaining(backoff_until)
  /\ stabilized_at' = Remaining(stabilized_at)
  /\ wake' = Remaining(wake)
  /\ offFor' = Elapsed(offFor)
  /\ onFor' = Elapsed(onFor)
  /\ ocp_since' = Elapsed(ocp_since)
  /\ episode' = Elapsed(episode)
  /\ UNCHANGED <<pc, config, lock, inner, enabled, chip, pin, resets, owed,
                 unrecorded>>

Boot == BootOff \/ BootVref \/ BootLimit

Persist == PersistVref \/ PersistLimit

Monitor ==
  \/ Awaken \/ ReadStatus \/ ReadFault \/ ReadDisabled \/ ReadEnabled
  \/ Trip \/ TripPin \/ Enable \/ EnablePin \/ LogOvercurrent

Next ==
  \/ Boot
  \/ \E s \in Settings : PersistStart(s)
  \/ PersistLock
  \/ Persist
  \/ MonitorLock
  \/ Monitor
  \/ Fault
  \/ Tick
  \/ Reset

\* The executor polls a task that was woken, bus transfers end, time passes.
\* The mutex is unfair, but config_task needs a new message before it can take
\* it again, and messages do not keep arriving at the moment of each release.
Fairness ==
  /\ WF_vars(Boot) /\ WF_vars(Persist) /\ WF_vars(Monitor) /\ WF_vars(Tick)
  /\ SF_vars(MonitorLock) /\ SF_vars(PersistLock)

Spec == Init /\ [][Next]_vars

FairSpec == Spec /\ Fairness

-----------------------------------------------------------------------------
ControlOK ==
  /\ pc \in {"boot_off", "boot_vref", "boot_limit", "sleep", "lock", "read",
             "faulty", "fine", "trip", "trip_pin", "enable", "enable_pin",
             "record"}
  /\ cfgPc \in {"idle", "lock", "vref", "limit"}
  /\ lock \in {"free", "monitor", "config"}
  /\ lock = "monitor" <=> Working
  /\ lock = "config" <=> cfgPc \in {"vref", "limit"}
  /\ state \in {"Disabled", "Enabled", "Enabling", "Ocp"}

FlagsOK ==
  /\ enabled \in BOOLEAN
  /\ oe \in BOOLEAN /\ fault \in BOOLEAN /\ pin \in BOOLEAN

SettingsOK ==
  /\ IF cfgPc = "idle" THEN cfgArg = None ELSE cfgArg \in Settings
  /\ backoff_duration \in Settings \cup {0}
  /\ vref \in Settings \cup {None} /\ limit \in Settings \cup {None}
  /\ owed \in Settings \cup {0}

TimersOK ==
  /\ backoff_until \in {None} \cup Int
  /\ stabilized_at \in {None} \cup Int
  /\ wake \in {None} \cup Int
  /\ resets \in 0 .. MaxResets
  /\ offFor \in {None} \cup 0 .. Horizon
  /\ onFor \in 0 .. Horizon
  /\ ocp_since \in {None} \cup 0 .. Horizon
  /\ episode \in {None} \cup 0 .. Horizon
  /\ unrecorded \in Int

\* Types, and that Inner is held exactly where the code holds its guard.
TypeOK == ControlOK /\ FlagsOK /\ SettingsOK /\ TimersOK

\* Whoever takes Inner (PowerExt::state, reported by the statistics) finds a
\* state that agrees with the output, its pin and monitor_task's own view,
\* however monitor_task and config_task interleaved (power_ext.rs:114-117).
StateMatchesOutput ==
  ~ Booting /\ lock # "monitor" =>
    /\ oe <=> state \in {"Enabling", "Enabled"}
    /\ enabled <=> oe
    /\ state # "Disabled" => (pin <=> oe)

\* After a trip the output stays off for the whole back-off that was set when
\* it tripped, however often the settings change and the task is woken
\* meanwhile (power_ext.rs:177, 186-190).
BackoffRespected ==
  [][~ oe /\ oe' /\ offFor # None => offFor > owed]_vars

\* The output is turned on only with a voltage and a current limit of the same
\* settings, never with one of the old and one of the new (power_ext.rs:99-109).
CoherentOnEnable ==
  [][~ oe /\ oe' => vref # None /\ vref = limit]_vars

\* Enabled is reported only of an output that has been on, without a trip that
\* was seen, for longer than the stabilisation time (power_ext.rs:209-213).
EnabledIsStable ==
  [][state # "Enabled" /\ state' = "Enabled" => oe /\ onFor > Stabilization]_vars

\* Trips that follow each other before the output is stable are one episode.
\* Whoever takes Inner finds each episode that is over recorded, once, the one
\* that runs not yet, and none behind an output reported Enabled; and what is
\* recorded is the time from the episode's first trip (power_ext.rs:180-182,
\* 209-221).
EpisodeRecorded ==
  /\ [](~ Booting /\ lock # "monitor" =>
         /\ unrecorded = IF episode = None THEN 0 ELSE 1
         /\ state = "Enabled" => episode = None)
  /\ [][pc # "record" /\ pc' = "record" => ocp_since = episode]_vars

\* A fault turns the output off even when its falling edge was lost
\* (power_ext.rs:165-174, 226-236).
FaultTurnsOff == fault ~> ~ oe

\* Once faults stop, the output comes back, stable and recorded.
Recovers == <>[](~ fault) => <>[](state = "Enabled" /\ oe /\ unrecorded = 0)
=============================================================================
