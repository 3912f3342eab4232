------------------------------- MODULE Config -------------------------------
(***************************************************************************)
(* systems/config.rs: settings in RAM and on flash, and the channel that   *)
(* carries them to consumers.  net_task calls update; push_task repeats    *)
(* the settings every PUSH_PERIOD; power_ext's config_task applies them.   *)
(* A setting is its version.  update is called by one task only and storage *)
(* operations never suspend, so an update is one step up to the point where *)
(* publish waits for room; that is the only await that holds the lock.     *)
(***************************************************************************)
EXTENDS Naturals, PubSub

CONSTANTS
  Subs,         \* who subscribes: "push", "power" if power_ext is there, others
  MaxVersion,   \* changes of the settings in a behaviour (a bound)
  MaxRestarts   \* restarts in a behaviour (a bound)

ASSUME ConfigAssumption ==
  /\ "push" \in Subs
  /\ MaxVersion \in Nat
  /\ MaxRestarts \in Nat

VARIABLES
  settings,     \* Inner::settings
  flash,        \* what Storage holds under ConfigSettings
  chan,         \* Config::notifier
  upPc,         \* update, as called by net_task: "idle", or in "publish"
  pushPc,       \* push_task
  rested,       \* all tasks waited at some time since its timer was set
  applyPc, applying,  \* config_task of power_ext.rs, and its message
  applied,      \* the settings persist has written to the converter
  restarts

configVars ==
  <<settings, flash, chan, upPc, pushPc, rested, applyPc, applying,
    applied, restarts>>

ConfigInit ==
  /\ settings = 0 /\ flash = 0
  /\ chan = Quiet(0)
  /\ upPc = "idle" /\ pushPc = "select" /\ rested = FALSE
  /\ applyPc = "next" /\ applying = 0 /\ applied = 0
  /\ restarts = 0

-----------------------------------------------------------------------------
(* Config::update.                                                         *)

\* Nobody holds the lock of Inner across an await.
Unlocked == upPc # "publish"

\* Slip: the settings are stored only after they were published.
UpdateStoreLast ==
  /\ upPc = "idle"
  /\ settings < MaxVersion
  /\ settings' = settings + 1
  /\ chan' = Publish(chan, settings + 1, Subs)
  /\ upPc' = "publish"
  /\ UNCHANGED <<flash, pushPc, rested, applyPc, applying, applied, restarts>>

\* Changed settings are kept, stored, and published if there is room.  (What is
\* set already is neither stored nor published.)
UpdateChanged ==
  /\ upPc = "idle"
  /\ settings < MaxVersion
  /\ settings' = settings + 1
  /\ flash' = settings + 1
  /\ \/ /\ ~ Full(chan)
        /\ chan' = Publish(chan, settings + 1, Subs)
        /\ UNCHANGED upPc
     \/ /\ Full(chan)
        /\ upPc' = "publish"
        /\ UNCHANGED chan
  /\ UNCHANGED <<pushPc, rested, applyPc, applying, applied, restarts>>

\* publish finds room; the guard is dropped and update returns.
UpdatePublish ==
  /\ upPc = "publish"
  /\ ~ Full(chan)
  /\ chan' = Publish(chan, settings, Subs)
  /\ upPc' = "idle"
  /\ UNCHANGED <<settings, flash, pushPc, rested, applyPc, applying, applied,
                 restarts>>

\* Config::publish_immediate, once the lock is free.
PublishImmediate ==
  /\ Unlocked
  /\ chan' = Publish(chan, settings, Subs)

\* The same by push_task, which reads its own message in the same poll.
PushImmediate ==
  /\ Unlocked
  /\ chan' = Read(Publish(chan, settings, Subs), "push")

-----------------------------------------------------------------------------
(* push_task.                                                              *)

\* Some task has been woken and will be polled.
Runnable ==
  \/ upPc = "publish" /\ ~ Full(chan)
  \/ pushPc = "select" /\ HasMessage(chan, "push")
  \/ pushPc = "lock" /\ Unlocked
  \/ applyPc = "next" /\ HasMessage(chan, "power")
  \/ applyPc = "persist"

\* PUSH_PERIOD is so long that all tasks wait at some time before it is over.
Rest ==
  /\ ~ rested
  /\ ~ Runnable
  /\ rested' = TRUE
  /\ UNCHANGED <<settings, flash, chan, upPc, pushPc, applyPc, applying,
                 applied, restarts>>

\* Slip: the period goes on when a message is read (one Timer for all rounds).
PushMessageKeepsPeriod ==
  /\ pushPc = "select"
  /\ HasMessage(chan, "push")
  /\ chan' = Read(chan, "push")
  /\ UNCHANGED <<settings, flash, upPc, pushPc, rested, applyPc,
                 applying, applied, restarts>>

\* Any message restarts the period.
PushMessage ==
  /\ pushPc = "select"
  /\ HasMessage(chan, "push")
  /\ chan' = Read(chan, "push")
  /\ rested' = FALSE
  /\ UNCHANGED <<settings, flash, upPc, pushPc, applyPc, applying,
                 applied, restarts>>

\* The period is over; the lock is taken at once or waited for.
PushTimer ==
  /\ pushPc = "select"
  /\ ~ HasMessage(chan, "push")
  /\ rested
  /\ \/ PushImmediate /\ UNCHANGED pushPc
     \/ ~ Unlocked /\ pushPc' = "lock" /\ UNCHANGED chan
  /\ rested' = FALSE
  /\ UNCHANGED <<settings, flash, upPc, applyPc, applying, applied,
                 restarts>>

PushLocked ==
  /\ pushPc = "lock"
  /\ PushImmediate
  /\ pushPc' = "select"
  /\ UNCHANGED <<settings, flash, upPc, rested, applyPc, applying,
                 applied, restarts>>

-----------------------------------------------------------------------------
(* config_task of power_ext.rs.                                            *)

ApplyMessage ==
  /\ applyPc = "next"
  /\ HasMessage(chan, "power")
  /\ chan' = Read(chan, "power")
  /\ applying' = chan.val
  /\ applyPc' = "persist"
  /\ UNCHANGED <<settings, flash, upPc, pushPc, rested, applied, restarts>>

\* Slip: the next message ends a persist that is not through.
ApplyPersistSuperseded ==
  /\ applyPc = "persist"
  /\ applied' = IF HasMessage(chan, "power") THEN applied ELSE applying
  /\ applyPc' = "next"
  /\ UNCHANGED <<settings, flash, chan, upPc, pushPc, rested, applying,
                 restarts>>

\* persist returns: both registers are written (PowerExt has the detail).
ApplyPersist ==
  /\ applyPc = "persist"
  /\ applied' = applying
  /\ applyPc' = "next"
  /\ UNCHANGED <<settings, flash, chan, upPc, pushPc, rested, applying,
                 restarts>>

\* Another consumer reads its message, at a time of its own or never again:
\* publish_task of events.rs, which waits for the network (Events has the
\* detail).
Consume(s) ==
  /\ s \in Subs \ {"push", "power"}
  /\ HasMessage(chan, s)
  /\ chan' = Read(chan, s)
  /\ UNCHANGED <<settings, flash, upPc, pushPc, rested, applyPc, applying,
                 applied, restarts>>

\* events.rs is there as well, and repeats the settings after a connection.
Republish ==
  /\ ~ Subs \subseteq {"push", "power"}
  /\ PublishImmediate
  /\ UNCHANGED <<settings, flash, upPc, pushPc, rested, applyPc, applying,
                 applied, restarts>>

-----------------------------------------------------------------------------
\* A reset in any state.  Config::init fetches the stored settings, and
\* PowerExt::init persists them before config_task runs.
ConfigRestart ==
  /\ restarts < MaxRestarts
  /\ restarts' = restarts + 1
  /\ settings' = flash
  /\ chan' = Quiet(flash)
  /\ upPc' = "idle" /\ pushPc' = "select" /\ rested' = FALSE
  /\ applyPc' = "next" /\ applying' = flash /\ applied' = flash
  /\ UNCHANGED flash

Push == Rest \/ PushMessage \/ PushTimer \/ PushLocked

Apply == ApplyMessage \/ ApplyPersist

Init == ConfigInit

Next ==
  \/ UpdateChanged \/ UpdatePublish \/ Push \/ Apply
  \/ \E s \in Subs : Consume(s)
  \/ Republish
  \/ ConfigRestart

\* Woken tasks are polled, timers fire, and the bus transfers of persist end.
\* Updates do not keep the processor busy forever: all tasks wait now and then.
\* Nobody is obliged to send an update, and no consumer but the two of this
\* module to read one.
Fairness ==
  /\ WF_configVars(UpdatePublish)
  /\ SF_configVars(Rest)
  /\ WF_configVars(PushMessage)
  /\ WF_configVars(PushTimer)
  /\ WF_configVars(PushLocked)
  /\ WF_configVars(Apply)

Spec == Init /\ [][Next]_configVars

FairSpec == Spec /\ Fairness

-----------------------------------------------------------------------------
Version == 0 .. MaxVersion

TypeOK ==
  /\ settings \in Version /\ flash \in Version
  /\ chan \in [val : Version, unread : SUBSET Subs]
  /\ upPc \in {"idle", "publish"}
  /\ pushPc \in {"select", "lock"} /\ rested \in BOOLEAN
  /\ applyPc \in {"next", "persist"}
  /\ applying \in Version /\ applied \in Version
  /\ restarts \in 0 .. MaxRestarts

\* No consumer is shown settings that a restart would take back: they are on
\* flash before they are published (config.rs:92-98).
DurableBeforeVisible ==
  /\ chan.val <= flash
  /\ applyPc = "persist" => applying <= flash
  /\ applied <= flash

\* The converter follows the stored settings: never ahead, never back, over
\* evicted messages, concurrent pushes and restarts.
ReplicaOfFlash == INSTANCE Replica WITH current <- flash, replica <- applied
FollowsFlash == ReplicaOfFlash!Spec

\* update never waits, the lock taken, for push_task to read while push_task
\* waits for that lock: each message restarts push_task's period, so it is not
\* over while an update waits for room (config.rs:88-105, 124-138).
NeverStuck ==
  ~ (upPc = "publish" /\ pushPc = "lock" /\ HasMessage(chan, "push"))

\* "Await until all consumers had their fill" (config.rs:98): an update that
\* waits for its consumers ends, because they have their fill.
UpdateReturns == upPc = "publish" ~> upPc = "idle"

\* The last settings reach the converter although messages are evicted
\* (config.rs:98, 134).
LastSettingsApplied == <>[](applied = settings)

\* The same next to a consumer that reads late or never again, as publish_task
\* does without a network: only an update that waits for room for ever can keep
\* settings from the converter, not the message that nobody takes, nor
\* push_task, which waits for the lock meanwhile (config.rs:98, 133-134).
SettingsGetThrough == <>[]Unlocked => LastSettingsApplied
=============================================================================
