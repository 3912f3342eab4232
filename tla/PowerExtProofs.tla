--------------------------- MODULE PowerExtProofs ---------------------------
(***************************************************************************)
(* Theorems about PowerExt for every set of settings and all durations.    *)
(*                                                                         *)
(* The argument: Inner's lock makes monitor_task's steps from reading the  *)
(* status to dropping the guard atomic for config_task, so what a step     *)
(* assumes of the registers still holds when the next one acts on it; and  *)
(* a timer and the age of what it measures always add up to at least the   *)
(* duration it was set to.                                                 *)
(***************************************************************************)
EXTENDS PowerExt, TLAPS

\* A timer t set to d, age ticks ago: it is past only after more than d ticks.
Covers(t, age, d) ==
  /\ t >= 0 => t + age >= d
  /\ t < 0 => age > d

\* monitor_task's view and the output, where the code is between two awaits.
Agreement ==
  /\ Booting => ~ enabled /\ state = "Disabled"
  /\ pc \in {"boot_vref", "boot_limit"} => ~ oe
  /\ ~ Booting => (enabled <=> oe)
  /\ pc = "trip" => state = "Ocp"
  /\ pc = "trip_pin" => state = "Ocp" /\ ~ oe
  /\ pc = "enable" => state = "Enabling" /\ ~ oe
  /\ pc = "enable_pin" => state = "Enabling" /\ oe
  /\ pc = "record" => state = "Enabled" /\ oe /\ pin
  /\ pc \in {"sleep", "lock", "read", "faulty", "fine"} =>
       /\ oe <=> state \in {"Enabling", "Enabled"}
       /\ state # "Disabled" => (pin <=> oe)

\* An output that is off after a trip has a back-off timer that covers it.
BackoffCovered ==
  /\ ~ Booting /\ ~ oe /\ offFor # None =>
       backoff_until # None /\ Covers(backoff_until, offFor, owed)
  /\ pc = "enable" => Activate(backoff_until)
  /\ offFor # None => ~ Booting

\* A stabilisation timer runs only while the output is on, and covers it.
StabilizationCovered ==
  stabilized_at # None =>
    ~ Booting /\ oe /\ Covers(stabilized_at, onFor, Stabilization)

\* The registers are of one settings except between persist's two writes.
RegistersCoherent ==
  /\ Booting => cfgPc = "idle"
  /\ pc = "boot_limit" => vref = backoff_duration /\ vref \in Settings
  /\ ~ Booting /\ cfgPc # "limit" => vref # None /\ vref = limit
  /\ ~ Booting => vref # None /\ limit # None
  /\ cfgPc = "limit" => vref = cfgArg

\* monitor_task remembers an episode, and since when it runs, until it is logged.
EpisodeKept ==
  /\ pc # "record" => ocp_since = episode
  /\ pc = "record" => episode = None
  /\ unrecorded = IF episode = None /\ pc # "record" THEN 0 ELSE 1
  /\ state = "Enabled" => episode = None

IInv ==
  /\ TypeOK
  /\ Agreement
  /\ BackoffCovered
  /\ StabilizationCovered
  /\ RegistersCoherent
  /\ EpisodeKept
-----------------------------------------------------------------------------
USE PowerExtAssumption

\* The earliest of the deadlines is an instant: MAX_DURATION is always set.
LEMMA EarliestDeadlineType ==
  ASSUME NEW b \in {None} \cup Int, NEW t \in {None} \cup Int
  PROVE  EarliestDeadline({MaxWait, b, t}) \in Int
<1> DEFINE S == {MaxWait, b, t} \ {None}
<1>1. S \subseteq Int /\ MaxWait \in S
  OBVIOUS
<1>2. \E d \in S : \A e \in S : d <= e
  <2>1. ASSUME NEW x \in Int, NEW y \in Int, NEW z \in Int,
               S = {x, y, z}
        PROVE  \E d \in S : \A e \in S : d <= e
    <3>1. CASE x <= y /\ x <= z
      BY <2>1, <3>1
    <3>2. CASE y <= x /\ y <= z
      BY <2>1, <3>2
    <3>3. CASE z <= x /\ z <= y
      BY <2>1, <3>3
    <3>4. QED
      BY <3>1, <3>2, <3>3
  <2>2. \E x, y, z \in Int : S = {x, y, z}
    <3>1. CASE b = None /\ t = None
      <4>1. S = {MaxWait, MaxWait, MaxWait}
        BY <3>1
      <4>2. QED
        BY <4>1, <1>1
    <3>2. CASE b = None /\ t # None
      <4>1. S = {MaxWait, t, t} /\ t \in Int
        BY <3>2
      <4>2. QED
        BY <4>1, <1>1
    <3>3. CASE b # None /\ t = None
      <4>1. S = {MaxWait, b, b} /\ b \in Int
        BY <3>3
      <4>2. QED
        BY <4>1, <1>1
    <3>4. CASE b # None /\ t # None
      <4>1. S = {MaxWait, b, t} /\ t \in Int /\ b \in Int
        BY <3>4
      <4>2. QED
        BY <4>1, <1>1
    <3>5. QED
      BY <3>1, <3>2, <3>3, <3>4
  <2>3. QED
    BY <2>1, <2>2
<1>3. (CHOOSE d \in S : \A e \in S : d <= e) \in S
  BY <1>2
<1>4. QED
  BY <1>1, <1>3 DEF EarliestDeadline

\* What Sleep does to the variables the invariant reads.
LEMMA SleepType ==
  ASSUME NEW b \in {None} \cup Int, NEW t \in {None} \cup Int, Sleep(b, t)
  PROVE  lock' = "free" /\ pc' = "sleep" /\ wake' \in {None} \cup Int
  BY EarliestDeadlineType DEF Sleep

LEMMA InitIInv == Init => IInv
<1> SUFFICES ASSUME Init PROVE IInv
  OBVIOUS
<1>1. TypeOK
  <2>1. ControlOK
    BY DEF Init, ControlOK, Working
  <2>2. FlagsOK
    BY DEF Init, FlagsOK
  <2>3. SettingsOK
    BY DEF Init, SettingsOK
  <2>4. TimersOK
    BY DEF Init, TimersOK
  <2>5. QED
    BY <2>1, <2>2, <2>3, <2>4 DEF TypeOK
<1>2. Agreement
  BY DEF Init, Agreement, Booting
<1>3. BackoffCovered /\ StabilizationCovered
  BY DEF Init, BackoffCovered, StabilizationCovered
<1>4. RegistersCoherent /\ EpisodeKept
  BY DEF Init, RegistersCoherent, EpisodeKept, Booting
<1>5. QED
  BY <1>1, <1>2, <1>3, <1>4 DEF IInv
\* A tick keeps what a timer covers: it loses what the age gains.
LEMMA TickCovers ==
  ASSUME NEW t \in Int, NEW age \in 0 .. Horizon, NEW d \in Nat, d < Horizon,
         Covers(t, age, d)
  PROVE  Covers(Remaining(t), Elapsed(age), d)
<1>1. t # None /\ age # None
  OBVIOUS
<1>2. Remaining(t) = (IF t < 0 THEN -1 ELSE t - 1)
  BY <1>1 DEF Remaining
<1>3. Elapsed(age) = (IF age = Horizon THEN age ELSE age + 1)
  BY <1>1 DEF Elapsed
<1>4. QED
  BY <1>2, <1>3 DEF Covers

LEMMA NextIInv == IInv /\ [Next]_vars => IInv'
<1> SUFFICES ASSUME IInv, [Next]_vars PROVE IInv'
  OBVIOUS
<1> USE DEF IInv, TypeOK, inner, locals, chip, config, ghosts, episodes, Booting,
        Working
<1>1. CASE BootOff
  <2>1. ControlOK' /\ FlagsOK' /\ SettingsOK'
    <3>1. ControlOK'
      BY <1>1 DEF BootOff, ControlOK
    <3>2. FlagsOK' /\ SettingsOK'
      BY <1>1 DEF BootOff, FlagsOK, SettingsOK
    <3>3. QED
      BY <3>1, <3>2
  <2>2. TimersOK'
    BY <1>1 DEF BootOff, TimersOK
  <2>3. Agreement'
    BY <1>1 DEF BootOff, Agreement, ControlOK, FlagsOK
  <2>4. BackoffCovered' /\ StabilizationCovered'
    BY <1>1 DEF BootOff, BackoffCovered, Covers, TimersOK, Agreement, Activate,
       StabilizationCovered
  <2>5. RegistersCoherent' /\ EpisodeKept'
    BY <1>1 DEF BootOff, RegistersCoherent, SettingsOK, ControlOK, EpisodeKept,
       FlagsOK, Agreement
  <2>6. QED
    BY <2>1, <2>2, <2>3, <2>4, <2>5
<1>2. CASE BootVref
  <2>1. ControlOK' /\ FlagsOK' /\ SettingsOK' /\ TimersOK'
    <3>1. ControlOK' /\ FlagsOK'
      BY <1>2 DEF BootVref, ControlOK, FlagsOK
    <3>2. SettingsOK'
      BY <1>2 DEF BootVref, SettingsOK, RegistersCoherent, ControlOK
    <3>3. TimersOK'
      BY <1>2 DEF BootVref, TimersOK
    <3>4. QED
      BY <3>1, <3>2, <3>3
  <2>2. Agreement' /\ BackoffCovered' /\ StabilizationCovered' /\ EpisodeKept'
    BY <1>2 DEF BootVref, Agreement, ControlOK, FlagsOK, BackoffCovered,
       Covers, TimersOK, Activate, StabilizationCovered, EpisodeKept
  <2>3. RegistersCoherent'
    BY <1>2 DEF BootVref, RegistersCoherent, SettingsOK, ControlOK
  <2>4. QED
    BY <2>1, <2>2, <2>3
<1>3. CASE BootLimit
  <2>1. ControlOK' /\ FlagsOK' /\ SettingsOK' /\ TimersOK'
    <3>1. ControlOK' /\ FlagsOK'
      BY <1>3 DEF BootLimit, ControlOK, FlagsOK
    <3>2. SettingsOK'
      BY <1>3 DEF BootLimit, SettingsOK, RegistersCoherent, ControlOK
    <3>3. TimersOK'
      BY <1>3 DEF BootLimit, TimersOK
    <3>4. QED
      BY <3>1, <3>2, <3>3
  <2>2. Agreement' /\ BackoffCovered' /\ StabilizationCovered' /\ EpisodeKept'
    BY <1>3 DEF BootLimit, Agreement, ControlOK, FlagsOK, BackoffCovered,
       Covers, TimersOK, Activate, StabilizationCovered, EpisodeKept
  <2>3. RegistersCoherent'
    BY <1>3 DEF BootLimit, RegistersCoherent, SettingsOK, ControlOK
  <2>4. QED
    BY <2>1, <2>2, <2>3
<1>4. CASE Reset
  <2>1. ControlOK' /\ FlagsOK' /\ SettingsOK'
    BY <1>4 DEF Reset, ControlOK, FlagsOK, SettingsOK
  <2>2. TimersOK'
    BY <1>4 DEF Reset, TimersOK
  <2>3. Agreement'
    BY <1>4 DEF Reset, Agreement, ControlOK, FlagsOK
  <2>4. BackoffCovered' /\ StabilizationCovered'
    BY <1>4 DEF Reset, BackoffCovered, Covers, TimersOK, Agreement, Activate,
       StabilizationCovered
  <2>5. RegistersCoherent' /\ EpisodeKept'
    BY <1>4 DEF Reset, RegistersCoherent, SettingsOK, ControlOK, EpisodeKept,
       FlagsOK, Agreement
  <2>6. QED
    BY <2>1, <2>2, <2>3, <2>4, <2>5
<1>5. ASSUME NEW s \in Settings, PersistStart(s) PROVE IInv'
  <2>1. ControlOK' /\ FlagsOK' /\ SettingsOK' /\ TimersOK'
    <3>1. ControlOK' /\ FlagsOK'
      BY <1>5 DEF PersistStart, ControlOK, FlagsOK
    <3>2. SettingsOK'
      BY <1>5 DEF PersistStart, SettingsOK, RegistersCoherent, ControlOK
    <3>3. TimersOK'
      BY <1>5 DEF PersistStart, TimersOK
    <3>4. QED
      BY <3>1, <3>2, <3>3
  <2>2. Agreement' /\ BackoffCovered' /\ StabilizationCovered' /\ EpisodeKept'
    BY <1>5 DEF PersistStart, Agreement, ControlOK, FlagsOK, BackoffCovered,
       Covers, TimersOK, Activate, StabilizationCovered, EpisodeKept
  <2>3. RegistersCoherent'
    BY <1>5 DEF PersistStart, RegistersCoherent, SettingsOK, ControlOK
  <2>4. QED
    BY <2>1, <2>2, <2>3
<1>6. CASE PersistLock
  <2>1. ControlOK' /\ FlagsOK' /\ SettingsOK' /\ TimersOK'
    <3>1. ControlOK' /\ FlagsOK'
      BY <1>6 DEF PersistLock, ControlOK, FlagsOK
    <3>2. SettingsOK'
      BY <1>6 DEF PersistLock, SettingsOK, RegistersCoherent, ControlOK
    <3>3. TimersOK'
      BY <1>6 DEF PersistLock, TimersOK
    <3>4. QED
      BY <3>1, <3>2, <3>3
  <2>2. Agreement' /\ BackoffCovered' /\ StabilizationCovered' /\ EpisodeKept'
    BY <1>6 DEF PersistLock, Agreement, ControlOK, FlagsOK, BackoffCovered,
       Covers, TimersOK, Activate, StabilizationCovered, EpisodeKept
  <2>3. RegistersCoherent'
    BY <1>6 DEF PersistLock, RegistersCoherent, SettingsOK, ControlOK
  <2>4. QED
    BY <2>1, <2>2, <2>3
<1>7. CASE PersistVref
  <2>1. ControlOK' /\ FlagsOK' /\ SettingsOK' /\ TimersOK'
    <3>1. ControlOK' /\ FlagsOK'
      BY <1>7 DEF PersistVref, ControlOK, FlagsOK
    <3>2. SettingsOK'
      BY <1>7 DEF PersistVref, SettingsOK, RegistersCoherent, ControlOK
    <3>3. TimersOK'
      BY <1>7 DEF PersistVref, TimersOK
    <3>4. QED
      BY <3>1, <3>2, <3>3
  <2>2. Agreement' /\ BackoffCovered' /\ StabilizationCovered' /\ EpisodeKept'
    BY <1>7 DEF PersistVref, Agreement, ControlOK, FlagsOK, BackoffCovered,
       Covers, TimersOK, Activate, StabilizationCovered, EpisodeKept
  <2>3. RegistersCoherent'
    <3>1. /\ cfgPc = "vref" /\ cfgPc' = "limit" /\ vref' = cfgArg
          /\ cfgArg' = cfgArg /\ limit' = limit /\ pc' = pc
      BY <1>7 DEF PersistVref
    <3>2. ~ Booting /\ limit # None
      BY <3>1 DEF RegistersCoherent
    <3>3. cfgArg \in Settings
      BY <3>1 DEF SettingsOK
    <3>4. cfgArg # None
      BY <3>3
    <3>5. ~ Booting' /\ vref' # None /\ limit' # None
      BY <3>1, <3>2, <3>4
    <3>6. QED
      BY <3>1, <3>5 DEF RegistersCoherent
  <2>4. QED
    BY <2>1, <2>2, <2>3
<1>8. CASE PersistLimit
  <2>1. ControlOK' /\ FlagsOK' /\ SettingsOK' /\ TimersOK'
    <3>1. ControlOK' /\ FlagsOK'
      BY <1>8 DEF PersistLimit, ControlOK, FlagsOK
    <3>2. SettingsOK'
      BY <1>8 DEF PersistLimit, SettingsOK, RegistersCoherent, ControlOK
    <3>3. TimersOK'
      BY <1>8 DEF PersistLimit, TimersOK
    <3>4. QED
      BY <3>1, <3>2, <3>3
  <2>2. Agreement' /\ BackoffCovered' /\ StabilizationCovered' /\ EpisodeKept'
    BY <1>8 DEF PersistLimit, Agreement, ControlOK, FlagsOK, BackoffCovered,
       Covers, TimersOK, Activate, StabilizationCovered, EpisodeKept
  <2>3. RegistersCoherent'
    BY <1>8 DEF PersistLimit, RegistersCoherent, SettingsOK, ControlOK
  <2>4. QED
    BY <2>1, <2>2, <2>3
<1>9. CASE Awaken
  <2>1. ControlOK' /\ FlagsOK' /\ SettingsOK' /\ TimersOK'
    <3>1. ControlOK' /\ FlagsOK'
      BY <1>9 DEF Awaken, ControlOK, FlagsOK
    <3>2. SettingsOK'
      BY <1>9 DEF Awaken, SettingsOK, RegistersCoherent, ControlOK
    <3>3. TimersOK'
      BY <1>9 DEF Awaken, TimersOK
    <3>4. QED
      BY <3>1, <3>2, <3>3
  <2>2. Agreement'
    BY <1>9 DEF Awaken, Agreement, ControlOK, FlagsOK
  <2>3. BackoffCovered' /\ StabilizationCovered'
    BY <1>9 DEF Awaken, BackoffCovered, Covers, TimersOK, Agreement, Activate,
       StabilizationCovered
  <2>4. RegistersCoherent' /\ EpisodeKept'
    BY <1>9 DEF Awaken, RegistersCoherent, SettingsOK, ControlOK, EpisodeKept,
       FlagsOK, Agreement
  <2>5. QED
    BY <2>1, <2>2, <2>3, <2>4
<1>10. CASE MonitorLock
  <2>1. ControlOK' /\ FlagsOK' /\ SettingsOK' /\ TimersOK'
    <3>1. ControlOK' /\ FlagsOK'
      BY <1>10 DEF MonitorLock, ControlOK, FlagsOK
    <3>2. SettingsOK'
      BY <1>10 DEF MonitorLock, SettingsOK, RegistersCoherent, ControlOK
    <3>3. TimersOK'
      BY <1>10 DEF MonitorLock, TimersOK
    <3>4. QED
      BY <3>1, <3>2, <3>3
  <2>2. Agreement'
    BY <1>10 DEF MonitorLock, Agreement, ControlOK, FlagsOK
  <2>3. BackoffCovered' /\ StabilizationCovered'
    BY <1>10 DEF MonitorLock, BackoffCovered, Covers, TimersOK, Agreement,
       Activate, StabilizationCovered
  <2>4. RegistersCoherent' /\ EpisodeKept'
    BY <1>10 DEF MonitorLock, RegistersCoherent, SettingsOK, ControlOK,
       EpisodeKept, FlagsOK, Agreement
  <2>5. QED
    BY <2>1, <2>2, <2>3, <2>4
<1>11. CASE ReadFault
  <2>1. ControlOK' /\ FlagsOK' /\ SettingsOK'
    BY <1>11 DEF ReadFault, ControlOK, FlagsOK, SettingsOK
  <2>2. TimersOK'
    BY <1>11 DEF ReadFault, TimersOK
  <2>3. Agreement'
    BY <1>11 DEF ReadFault, Agreement, ControlOK, FlagsOK
  <2>4. BackoffCovered' /\ StabilizationCovered'
    BY <1>11 DEF ReadFault, BackoffCovered, Covers, TimersOK, Agreement,
       Activate, StabilizationCovered
  <2>5. RegistersCoherent' /\ EpisodeKept'
    BY <1>11 DEF ReadFault, RegistersCoherent, SettingsOK, ControlOK,
       EpisodeKept, FlagsOK, Agreement
  <2>6. QED
    BY <2>1, <2>2, <2>3, <2>4, <2>5
<1>11a. CASE ReadStatus
  <2>1. ControlOK' /\ FlagsOK' /\ SettingsOK' /\ TimersOK'
    <3>1. ControlOK'
      BY <1>11a DEF ReadStatus, ControlOK
    <3>2. FlagsOK'
      BY <1>11a DEF ReadStatus, FlagsOK
    <3>3. SettingsOK'
      BY <1>11a DEF ReadStatus, SettingsOK
    <3>4. TimersOK'
      BY <1>11a DEF ReadStatus, TimersOK
    <3>5. QED
      BY <3>1, <3>2, <3>3, <3>4
  <2>2. Agreement'
    BY <1>11a DEF ReadStatus, Agreement, ControlOK, FlagsOK
  <2>3. BackoffCovered' /\ StabilizationCovered'
    BY <1>11a DEF ReadStatus, BackoffCovered, Covers, TimersOK, Agreement,
       Activate, StabilizationCovered
  <2>4. RegistersCoherent' /\ EpisodeKept'
    BY <1>11a DEF ReadStatus, RegistersCoherent, SettingsOK, ControlOK,
       EpisodeKept, FlagsOK, Agreement
  <2>5. QED
    BY <2>1, <2>2, <2>3, <2>4
<1>12. CASE ReadDisabled
  <2>1. ControlOK' /\ FlagsOK' /\ SettingsOK'
    BY <1>12 DEF ReadDisabled, ControlOK, Sleep, FlagsOK, SettingsOK
  <2>2. TimersOK'
    BY <1>12, SleepType DEF ReadDisabled, TimersOK
  <2>3. Agreement'
    BY <1>12 DEF ReadDisabled, Agreement, Sleep, ControlOK, FlagsOK
  <2>4. BackoffCovered' /\ StabilizationCovered'
    BY <1>12 DEF ReadDisabled, BackoffCovered, Sleep, Covers, TimersOK,
       Agreement, Activate, StabilizationCovered
  <2>5. RegistersCoherent' /\ EpisodeKept'
    BY <1>12 DEF ReadDisabled, RegistersCoherent, Sleep, SettingsOK, ControlOK,
       EpisodeKept, FlagsOK, Agreement
  <2>6. QED
    BY <2>1, <2>2, <2>3, <2>4, <2>5
<1>13. CASE ReadEnabled
  <2>1. ControlOK' /\ FlagsOK' /\ SettingsOK'
    BY <1>13 DEF ReadEnabled, ControlOK, Sleep, FlagsOK, SettingsOK
  <2>2. TimersOK'
    BY <1>13, SleepType DEF ReadEnabled, TimersOK
  <2>3. Agreement'
    BY <1>13 DEF ReadEnabled, Agreement, Sleep, ControlOK, FlagsOK
  <2>4. BackoffCovered' /\ StabilizationCovered'
    BY <1>13 DEF ReadEnabled, BackoffCovered, Sleep, Covers, TimersOK,
       Agreement, Activate, StabilizationCovered, Stabilized
  <2>5. RegistersCoherent' /\ EpisodeKept'
    BY <1>13 DEF ReadEnabled, RegistersCoherent, Sleep, SettingsOK, ControlOK,
       EpisodeKept, FlagsOK, Agreement
  <2>6. QED
    BY <2>1, <2>2, <2>3, <2>4, <2>5
<1>14. CASE Trip
  <2>1. ControlOK' /\ FlagsOK' /\ SettingsOK'
    BY <1>14 DEF Trip, ControlOK, FlagsOK, SettingsOK, RegistersCoherent
  <2>2. TimersOK'
    BY <1>14 DEF Trip, TimersOK, SettingsOK, Since
  <2>3. Agreement'
    BY <1>14 DEF Trip, Agreement, ControlOK, FlagsOK
  <2>4. BackoffCovered' /\ StabilizationCovered'
    BY <1>14 DEF Trip, BackoffCovered, Covers, TimersOK, Agreement, Activate,
       SettingsOK, StabilizationCovered
  <2>5. RegistersCoherent'
    BY <1>14 DEF Trip, RegistersCoherent, SettingsOK, ControlOK
  <2>6. EpisodeKept'
    <3>1. pc = "trip" /\ pc' = "trip_pin" /\ state' = "Ocp"
      BY <1>14 DEF Trip, Agreement
    <3>2. Since(episode) # None
      BY DEF Since, TimersOK
    <3>3. unrecorded' = 1
      BY <1>14, <3>1 DEF Trip, EpisodeKept
    <3>4. QED
      BY <1>14, <3>1, <3>2, <3>3 DEF Trip, EpisodeKept
  <2>7. QED
    BY <2>1, <2>2, <2>3, <2>4, <2>5, <2>6
<1>15. CASE TripPin
  <2>1. ControlOK' /\ FlagsOK' /\ SettingsOK'
    BY <1>15 DEF TripPin, ControlOK, Sleep, FlagsOK, SettingsOK
  <2>2. TimersOK'
    BY <1>15, SleepType DEF TripPin, TimersOK
  <2>3. Agreement'
    BY <1>15 DEF TripPin, Agreement, Sleep, ControlOK, FlagsOK
  <2>4. BackoffCovered' /\ StabilizationCovered'
    BY <1>15 DEF TripPin, BackoffCovered, Sleep, Covers, TimersOK, Agreement,
       Activate, StabilizationCovered
  <2>5. RegistersCoherent' /\ EpisodeKept'
    BY <1>15 DEF TripPin, RegistersCoherent, Sleep, SettingsOK, ControlOK,
       EpisodeKept, FlagsOK, Agreement
  <2>6. QED
    BY <2>1, <2>2, <2>3, <2>4, <2>5
<1>16. CASE Enable
  <2>1. ControlOK' /\ FlagsOK' /\ SettingsOK'
    BY <1>16 DEF Enable, ControlOK, FlagsOK, SettingsOK
  <2>2. TimersOK'
    BY <1>16 DEF Enable, TimersOK
  <2>3. Agreement'
    BY <1>16 DEF Enable, Agreement, ControlOK, FlagsOK
  <2>4. BackoffCovered' /\ StabilizationCovered'
    BY <1>16 DEF Enable, BackoffCovered, Covers, TimersOK, Agreement, Activate,
       StabilizationCovered
  <2>5. RegistersCoherent' /\ EpisodeKept'
    BY <1>16 DEF Enable, RegistersCoherent, SettingsOK, ControlOK, EpisodeKept,
       FlagsOK, Agreement
  <2>6. QED
    BY <2>1, <2>2, <2>3, <2>4, <2>5
<1>17. CASE EnablePin
  <2>1. ControlOK' /\ FlagsOK' /\ SettingsOK'
    BY <1>17 DEF EnablePin, ControlOK, Sleep, FlagsOK, SettingsOK
  <2>2. TimersOK'
    BY <1>17, SleepType DEF EnablePin, TimersOK
  <2>3. Agreement'
    BY <1>17 DEF EnablePin, Agreement, Sleep, ControlOK, FlagsOK
  <2>4. BackoffCovered' /\ StabilizationCovered'
    BY <1>17 DEF EnablePin, BackoffCovered, Sleep, Covers, TimersOK, Agreement,
       Activate, StabilizationCovered
  <2>5. RegistersCoherent' /\ EpisodeKept'
    BY <1>17 DEF EnablePin, RegistersCoherent, Sleep, SettingsOK, ControlOK,
       EpisodeKept, FlagsOK, Agreement
  <2>6. QED
    BY <2>1, <2>2, <2>3, <2>4, <2>5
<1>18. CASE LogOvercurrent
  <2>1. ControlOK' /\ FlagsOK' /\ SettingsOK'
    BY <1>18 DEF LogOvercurrent, ControlOK, Sleep, FlagsOK, SettingsOK
  <2>2. TimersOK'
    BY <1>18, SleepType DEF LogOvercurrent, TimersOK
  <2>3. Agreement'
    BY <1>18 DEF LogOvercurrent, Agreement, Sleep, ControlOK, FlagsOK
  <2>4. BackoffCovered' /\ StabilizationCovered'
    BY <1>18 DEF LogOvercurrent, BackoffCovered, Sleep, Covers, TimersOK,
       Agreement, Activate, StabilizationCovered
  <2>5. RegistersCoherent' /\ EpisodeKept'
    BY <1>18 DEF LogOvercurrent, RegistersCoherent, Sleep, SettingsOK,
       ControlOK, EpisodeKept, FlagsOK, Agreement
  <2>6. QED
    BY <2>1, <2>2, <2>3, <2>4, <2>5
<1>19. CASE Fault
  <2>1. ControlOK' /\ FlagsOK' /\ SettingsOK' /\ TimersOK'
    <3>1. ControlOK' /\ FlagsOK'
      BY <1>19 DEF Fault, ControlOK, FlagsOK
    <3>2. SettingsOK'
      BY <1>19 DEF Fault, SettingsOK, RegistersCoherent, ControlOK
    <3>3. TimersOK'
      BY <1>19 DEF Fault, TimersOK
    <3>4. QED
      BY <3>1, <3>2, <3>3
  <2>2. Agreement'
    BY <1>19 DEF Fault, Agreement, ControlOK, FlagsOK
  <2>3. BackoffCovered' /\ StabilizationCovered'
    BY <1>19 DEF Fault, BackoffCovered, Covers, TimersOK, Agreement, Activate,
       StabilizationCovered
  <2>4. RegistersCoherent' /\ EpisodeKept'
    BY <1>19 DEF Fault, RegistersCoherent, SettingsOK, ControlOK, EpisodeKept,
       FlagsOK, Agreement
  <2>5. QED
    BY <2>1, <2>2, <2>3, <2>4
<1>20. CASE Tick
  <2>1. ControlOK' /\ FlagsOK' /\ SettingsOK'
    BY <1>20 DEF Tick, ControlOK, FlagsOK, SettingsOK
  <2>2. TimersOK'
    BY <1>20 DEF Tick, TimersOK, Remaining, Elapsed
  <2>3. BackoffCovered'
    <3>1. ASSUME ~ oe /\ offFor # None /\ ~ Booting
          PROVE  backoff_until # None /\ Covers(backoff_until', offFor', owed)
      <4>1. /\ backoff_until \in Int /\ offFor \in 0 .. Horizon
            /\ owed \in Nat /\ owed < Horizon
            /\ Covers(backoff_until, offFor, owed)
        BY <3>1 DEF TimersOK, SettingsOK, BackoffCovered
      <4>2. QED
        BY <1>20, <4>1, TickCovers DEF Tick
    <3>2. QED
      BY <1>20, <3>1
      DEF Tick, BackoffCovered, TimersOK, Remaining, Elapsed, Activate
  <2>4. StabilizationCovered'
    <3>1. ASSUME stabilized_at # None
          PROVE  /\ stabilized_at # None
                 /\ Covers(stabilized_at', onFor', Stabilization)
      <4>1. /\ stabilized_at \in Int /\ onFor \in 0 .. Horizon
            /\ Stabilization \in Nat /\ Stabilization < Horizon
            /\ Covers(stabilized_at, onFor, Stabilization)
        BY <3>1 DEF TimersOK, SettingsOK, StabilizationCovered
      <4>2. QED
        BY <1>20, <4>1, TickCovers DEF Tick
    <3>2. QED
      BY <1>20, <3>1
      DEF Tick, StabilizationCovered, TimersOK, Remaining, Elapsed
  <2>5. Agreement' /\ RegistersCoherent'
    BY <1>20 DEF Tick, Agreement, ControlOK, FlagsOK, RegistersCoherent,
       SettingsOK
  <2>6. EpisodeKept'
    <3>1. \A t \in {None} \cup 0 .. Horizon : Elapsed(t) = None <=> t = None
      BY DEF Elapsed
    <3>2. QED
      BY <1>20, <3>1 DEF Tick, EpisodeKept, TimersOK
  <2>7. QED
    BY <2>1, <2>2, <2>3, <2>4, <2>5, <2>6
<1>21. CASE UNCHANGED vars
  BY <1>21 DEF vars, ControlOK, FlagsOK, SettingsOK, TimersOK, Agreement,
     BackoffCovered, Activate, StabilizationCovered, RegistersCoherent,
     EpisodeKept
<1>22. QED
  BY <1>1, <1>2, <1>3, <1>4, <1>5, <1>6, <1>7, <1>8, <1>9, <1>10, <1>11,
     <1>12, <1>13, <1>14, <1>15, <1>16, <1>17, <1>18, <1>19, <1>20, <1>21,
     <1>11a
  DEF Next, Boot, Persist, Monitor

LEMMA Invariance == Spec => []IInv
<1>1. QED
  BY InitIInv, NextIInv, PTL DEF Spec

-----------------------------------------------------------------------------
\* Inner is held by monitor_task from the status read until the end of the
\* block, and by config_task across its two register writes, and by no two at
\* once (power_ext.rs:99-109, 157-224).
THEOREM TypeCorrect == Spec => []TypeOK
<1>1. IInv => TypeOK
  BY DEF IInv
<1>2. QED
  BY <1>1, Invariance, PTL

\* For every set of settings: a reader of PowerExt::state that holds Inner sees
\* a state that agrees with the output and its pin (power_ext.rs:114-117).
THEOREM ReadersSeeTheOutput == Spec => []StateMatchesOutput
<1>1. IInv => StateMatchesOutput
  BY DEF IInv, TypeOK, ControlOK, Agreement, StateMatchesOutput, Working,
         Booting
<1>2. QED
  BY <1>1, Invariance, PTL

\* monitor_task logs when the output has stabilised after an episode only.
LEMMA OnlyStabilizedLogs ==
  IInv /\ [Next]_vars /\ pc # "record" /\ pc' = "record"
    => ReadEnabled
  BY DEF Next, Boot, BootOff, BootVref, BootLimit, Reset, Persist, PersistStart,
     PersistLock, PersistVref, PersistLimit, Monitor, Awaken, MonitorLock,
     ReadStatus, ReadFault, ReadDisabled, Sleep, Trip, TripPin, Enable,
     EnablePin, LogOvercurrent, Fault, Tick, vars

\* For every set of settings and all durations: each episode that is over was
\* logged exactly once, the one that runs was not, and what is logged is the
\* time from its first trip (power_ext.rs:180-182, 209-221).
THEOREM EpisodesAreRecorded == Spec => EpisodeRecorded
<1> DEFINE Settled ==
      ~ Booting /\ lock # "monitor" =>
         /\ unrecorded = IF episode = None THEN 0 ELSE 1
         /\ state = "Enabled" => episode = None
<1>1. IInv => Settled
  BY DEF IInv, TypeOK, ControlOK, EpisodeKept, Working
<1>2. IInv /\ [Next]_vars
        => [pc # "record" /\ pc' = "record" => ocp_since = episode]_vars
  BY OnlyStabilizedLogs DEF IInv, EpisodeKept
<1>3. QED
  BY <1>1, <1>2, Invariance, PTL DEF Spec, EpisodeRecorded

\* The output is turned on by Enable and by nothing else.
LEMMA OnlyEnable == IInv /\ [Next]_vars /\ ~ oe /\ oe' => Enable
  BY DEF Next, Boot, BootOff, BootVref, BootLimit, Reset, Persist, PersistStart,
     PersistLock, PersistVref, PersistLimit, Monitor, Awaken, MonitorLock,
     ReadStatus, ReadFault, ReadDisabled, ReadEnabled, Trip, TripPin, EnablePin,
     LogOvercurrent, Fault, Tick, vars, chip

\* For every back-off: after a trip the output stays off for longer than the
\* back-off in force at the trip, whatever config_task does meanwhile
\* (power_ext.rs:177, 186-190).
THEOREM BackoffIsRespected == Spec => BackoffRespected
<1>1. IInv /\ Enable /\ offFor # None => offFor > owed
  BY DEF IInv, BackoffCovered, Covers, Activate, Enable, Agreement, TypeOK,
         TimersOK, Booting
<1>2. IInv /\ [Next]_vars
        => [~ oe /\ oe' /\ offFor # None => offFor > owed]_vars
  BY <1>1, OnlyEnable
<1>3. QED
  BY <1>2, Invariance, PTL DEF Spec, BackoffRespected

\* For every set of settings: the output is turned on only when both registers
\* were written from one settings value (power_ext.rs:99-109, 195-201).
THEOREM EnableIsCoherent == Spec => CoherentOnEnable
<1>1. IInv /\ Enable => vref # None /\ vref = limit
  BY DEF IInv, RegistersCoherent, Enable, TypeOK, ControlOK, Working, Booting
<1>2. IInv /\ [Next]_vars => [~ oe /\ oe' => vref # None /\ vref = limit]_vars
  BY <1>1, OnlyEnable
<1>3. QED
  BY <1>2, Invariance, PTL DEF Spec, CoherentOnEnable

\* Only monitor_task's own check of the timer reports Enabled.
LEMMA OnlyStabilized ==
  IInv /\ [Next]_vars /\ state # "Enabled" /\ state' = "Enabled" => Stabilized
  BY DEF Next, Boot, BootOff, BootVref, BootLimit, Reset, Persist, PersistStart,
     PersistLock, PersistVref, PersistLimit, Monitor, Awaken, MonitorLock,
     ReadStatus, ReadFault, ReadDisabled, ReadEnabled, Trip, TripPin, Enable, EnablePin,
     LogOvercurrent, Fault, Tick, vars, inner

\* For every stabilisation time: Enabled is reported only of an output that has
\* been on for longer than that (power_ext.rs:207-213).
THEOREM EnabledMeansStable == Spec => EnabledIsStable
<1>1. IInv /\ Stabilized => oe /\ onFor > Stabilization
  BY DEF IInv, StabilizationCovered, Covers, Stabilized, TypeOK, TimersOK
<1>2. IInv /\ [Next]_vars
        => [state # "Enabled" /\ state' = "Enabled"
              => oe /\ onFor > Stabilization]_vars
  BY <1>1, OnlyStabilized
<1>3. QED
  BY <1>2, Invariance, PTL DEF Spec, EnabledIsStable
=============================================================================
