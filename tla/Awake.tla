------------------------------- MODULE Awake -------------------------------
(***************************************************************************)
(* What wakes one cloud machine and what keeps it running: the wakes of    *)
(* src/server.ts, WakeCoordinator (src/environment-waker.ts),              *)
(* KeepAliveCoordinator (src/environment-keepalive.ts), PresenceTracker    *)
(* (src/presence.ts) and the scheduled wakes (src/wake-scheduler.ts).      *)
(*                                                                         *)
(* A machine nobody holds is suspended.  Its uplink then looks open to the *)
(* relay until a ping is missed.                                           *)
(***************************************************************************)
EXTENDS Naturals, FiniteSets

CONSTANTS
  Tab,       \* browser connections to the machine
  Trigger    \* bound: wakes attempted at a time, apart from scheduled ones

VARIABLES
  machine,   \* "running" or "suspended"
  uplink,    \* the hub's uplink: "none", "open", or "dead": open, and nothing comes
  target,    \* the uplink's keepAliveTarget: "unknown", "pending" or "known"
  recent,    \* the uplink's last frame is no older than KEEPALIVE_IDLE_MS
  held,      \* the hold: "no", or "fresh" or "quiet" by the age of its last activity
  tabs,      \* connections the hub has
  present,   \* whether PresenceTracker has an entry
  trigger,   \* per attempt: "idle", "find" or "wake"
  calls,     \* wakes the provider is working on
  wakeAt,    \* the schedule: "none", "later" or "due"
  sweep,     \* the scheduler: "idle", "read", "online", "offline" or "wake"
  letgo      \* history: a failed wake let the hold go, and no activity since

link == <<uplink, target, recent>>
people == <<tabs, present>>
schedule == <<wakeAt, sweep>>
vars == <<machine, link, held, people, trigger, calls, schedule, letgo>>

Online == uplink # "none"

Awaits(t) == trigger[t] = "wake"
AnyWaits == \E t \in Trigger : Awaits(t)

\* WakeCoordinator.inFlight
InFlight == sweep = "wake" \/ AnyWaits

\* noteActivity: hold, or hold on.
Notes == held' = "fresh" /\ letgo' = FALSE

\* Mutant: every caller gets a wake of its own.
WakesAlone == calls' = calls + 1

\* WakeCoordinator.wake: start one, or join the one in flight.
Wakes == calls' = IF InFlight THEN calls ELSE calls + 1

(***************************************************************************)
(* Triggers.  None is awaited.                                             *)
(***************************************************************************)
Looks == \E t \in Trigger : trigger[t] = "idle" /\ trigger' = [trigger EXCEPT ![t] = "find"]

\* wakeSleepingEnvironment of a device without an uplink
WakesSleeping == IF InFlight THEN UNCHANGED trigger ELSE Looks

\* Both can have changed while the lookup ran.
StillAsleep == ~Online /\ ~InFlight

\* The lookup answers: hold the machine and wake it, or leave it be.
Finds(t) ==
  /\ trigger[t] = "find"
  /\ IF StillAsleep
     THEN Notes /\ Wakes /\ trigger' = [trigger EXCEPT ![t] = "wake"]
     ELSE trigger' = [trigger EXCEPT ![t] = "idle"] /\ UNCHANGED <<held, letgo, calls>>
  /\ UNCHANGED <<machine, link, people, schedule>>

FindFails(t) ==
  /\ trigger[t] = "find"
  /\ trigger' = [trigger EXCEPT ![t] = "idle"]
  /\ UNCHANGED <<machine, link, held, people, calls, schedule, letgo>>

\* Mutant: a wake that is over stays in the map of those in flight.
SettlesNever ==
  /\ sweep' = IF sweep = "wake" THEN "idle" ELSE sweep
  /\ calls' = 0
  /\ UNCHANGED trigger

\* The wake is over for everybody who awaits it.
Settles ==
  /\ trigger' = [t \in Trigger |-> IF Awaits(t) THEN "idle" ELSE trigger[t]]
  /\ sweep' = IF sweep = "wake" THEN "idle" ELSE sweep
  /\ calls' = 0

\* An exit code came back.  A socket that froze with the machine may thaw.
WakeSucceeds ==
  /\ calls > 0
  /\ Settles
  /\ machine' = "running"
  /\ uplink' \in IF uplink = "dead" THEN {"open", "dead"} ELSE {uplink}
  /\ UNCHANGED <<target, recent, held, people, wakeAt, letgo>>

\* Refused, timed out, or the answer lost.  A trigger lets the hold go, whether
\* or not the uplink is back; the scheduler has none.
WakeFails(awakened) ==
  /\ calls > 0
  /\ Settles
  /\ machine' = IF awakened THEN "running" ELSE machine
  /\ IF AnyWaits THEN held' = "no" /\ letgo' = TRUE ELSE UNCHANGED <<held, letgo>>
  /\ UNCHANGED <<link, people, wakeAt>>

TriggerStep ==
  \/ \E t \in Trigger : Finds(t) \/ FindFails(t)
  \/ WakeSucceeds \/ \E awakened \in BOOLEAN : WakeFails(awakened)

(***************************************************************************)
(* The uplink.                                                             *)
(***************************************************************************)
\* A new socket attaches; its target is looked up at once.
Links ==
  /\ machine = "running" /\ uplink = "none"
  /\ uplink' = "open" /\ target' = "pending" /\ recent' = FALSE
  /\ UNCHANGED <<machine, held, people, trigger, calls, schedule, letgo>>

\* Mutant: what arrived during the lookup waits for another frame.
TargetOnly ==
  /\ target = "pending"
  /\ target' = "known"
  /\ UNCHANGED <<machine, uplink, recent, held, people, trigger, calls, schedule, letgo>>

\* The lookup answers; what arrived meanwhile is protected now.
TargetFound ==
  /\ target = "pending"
  /\ target' = "known"
  /\ IF recent THEN Notes ELSE UNCHANGED <<held, letgo>>
  /\ UNCHANGED <<machine, uplink, recent, people, trigger, calls, schedule>>

TargetFails ==
  /\ target = "pending"
  /\ target' = "unknown"
  /\ UNCHANGED <<machine, uplink, recent, held, people, trigger, calls, schedule, letgo>>

\* A frame arrives.  After a failed lookup the next one waits five seconds.
Frame ==
  /\ machine = "running" /\ uplink = "open"
  /\ recent' = TRUE
  /\ IF target = "known"
     THEN Notes /\ UNCHANGED target
     ELSE target' \in {target, "pending"} /\ UNCHANGED <<held, letgo>>
  /\ UNCHANGED <<machine, uplink, people, trigger, calls, schedule>>

\* Mutant: what was known of this socket is believed of the next one.
DropsAlone ==
  /\ Online
  /\ uplink' = "none"
  /\ IF present THEN WakesSleeping ELSE UNCHANGED trigger
  /\ UNCHANGED <<machine, target, recent, held, people, calls, schedule, letgo>>

\* The socket closes, or is terminated after a missed ping: detach.  The hold
\* stays, and somebody present has the machine woken.
Drops ==
  /\ Online
  /\ uplink' = "none" /\ target' = "unknown" /\ recent' = FALSE
  /\ IF present THEN WakesSleeping ELSE UNCHANGED trigger
  /\ UNCHANGED <<machine, held, people, calls, schedule, letgo>>

\* The network fails, not the machine: nothing more comes, and nobody says so.
GoesDead ==
  /\ uplink = "open"
  /\ uplink' = "dead"
  /\ UNCHANGED <<machine, target, recent, held, people, trigger, calls, schedule, letgo>>

UplinkStep == Links \/ TargetFound \/ TargetFails \/ Frame \/ Drops \/ GoesDead

(***************************************************************************)
(* The browser.                                                            *)
(***************************************************************************)
\* Attaching wakes, whatever the hub says at that moment.
Attaches(b) ==
  /\ b \notin tabs
  /\ tabs' = tabs \cup {b}
  /\ Looks
  /\ UNCHANGED <<machine, link, held, present, calls, schedule, letgo>>

\* Presence is the device's: any tab asserts it for all, or withdraws it.
SaysPresence(b, isPresent) ==
  /\ b \in tabs
  /\ present' = isPresent
  /\ UNCHANGED <<machine, link, held, tabs, trigger, calls, schedule, letgo>>

PresenceLapses ==
  /\ present
  /\ present' = FALSE
  /\ UNCHANGED <<machine, link, held, tabs, trigger, calls, schedule, letgo>>

\* close; forgetIfLastClient
Leaves(b) ==
  /\ b \in tabs
  /\ tabs' = tabs \ {b}
  /\ present' = (present /\ tabs' # {})
  /\ UNCHANGED <<machine, link, held, trigger, calls, schedule, letgo>>

\* A frame that costs nothing goes to the hub, which has no uplink for it.  (One
\* that may cost something is bounced before it gets there, and wakes nothing.)
FreeFrameOffline(b) ==
  /\ b \in tabs /\ ~Online
  /\ WakesSleeping
  /\ UNCHANGED <<machine, link, held, people, calls, schedule, letgo>>

BrowserStep ==
  \/ PresenceLapses
  \/ \E b \in Tab :
       \/ Attaches(b) \/ Leaves(b) \/ FreeFrameOffline(b)
       \/ \E isPresent \in BOOLEAN : SaysPresence(b, isPresent)

(***************************************************************************)
(* The schedule.                                                           *)
(***************************************************************************)
\* /api/environment/wake-at, from the machine
HostSchedules(at) ==
  /\ machine = "running"
  /\ wakeAt' = at
  /\ UNCHANGED <<machine, link, held, people, trigger, calls, sweep, letgo>>

ComesDue ==
  /\ wakeAt = "later"
  /\ wakeAt' = "due"
  /\ UNCHANGED <<machine, link, held, people, trigger, calls, sweep, letgo>>

\* dueForWake; those before it in the batch are waited for
SweepReads ==
  /\ sweep = "idle" /\ wakeAt = "due"
  /\ sweep' = "read"
  /\ UNCHANGED <<machine, link, held, people, trigger, calls, wakeAt, letgo>>

SweepLooks ==
  /\ sweep = "read"
  /\ sweep' = IF Online THEN "online" ELSE "offline"
  /\ UNCHANGED <<machine, link, held, people, trigger, calls, wakeAt, letgo>>

\* setWakeAt(null), before the wake and whether or not it works
SweepClears(works) ==
  /\ sweep \in {"online", "offline"}
  /\ wakeAt' = IF works THEN "none" ELSE wakeAt
  /\ IF sweep = "online"
     THEN sweep' = "idle" /\ UNCHANGED calls
     ELSE sweep' = "wake" /\ Wakes
  /\ UNCHANGED <<machine, link, held, people, trigger, letgo>>

ScheduleStep ==
  \/ \E at \in {"none", "later"} : HostSchedules(at)
  \/ ComesDue \/ SweepReads \/ SweepLooks \/ \E works \in BOOLEAN : SweepClears(works)

(***************************************************************************)
(* Time.                                                                   *)
(***************************************************************************)
RecentAges ==
  /\ recent
  /\ recent' = FALSE
  /\ UNCHANGED <<machine, uplink, target, held, people, trigger, calls, schedule, letgo>>

\* A hold is no older than the last frame of a known target, and a wake is over
\* long before a hold is old.
HoldAges ==
  /\ held = "fresh"
  /\ ~(recent /\ target = "known") /\ ~AnyWaits
  /\ held' = "quiet"
  /\ UNCHANGED <<machine, link, people, trigger, calls, schedule, letgo>>

\* Mutant: only a machine that is linked is looked at.
SweepsLinked == held = "quiet" /\ Online

\* KeepAliveCoordinator.sweep takes those that have gone quiet.
SweepsQuiet == held = "quiet"

HoldReleased ==
  /\ SweepsQuiet
  /\ held' = "no"
  /\ UNCHANGED <<machine, link, people, trigger, calls, schedule, letgo>>

\* The provider suspends what nobody holds; its sockets freeze.
Suspends ==
  /\ machine = "running" /\ held = "no"
  /\ machine' = "suspended"
  /\ uplink' = IF Online THEN "dead" ELSE uplink
  /\ UNCHANGED <<target, recent, held, people, trigger, calls, schedule, letgo>>

\* The relay restarts: everything but the schedule was in its memory.
Crashes ==
  /\ uplink' = "none" /\ target' = "unknown" /\ recent' = FALSE
  /\ held' = "no" /\ tabs' = {} /\ present' = FALSE
  /\ trigger' = [t \in Trigger |-> "idle"] /\ calls' = 0 /\ sweep' = "idle"
  /\ letgo' = FALSE
  /\ UNCHANGED <<machine, wakeAt>>

TimeStep == RecentAges \/ HoldAges \/ HoldReleased \/ Suspends \/ Crashes

Init ==
  /\ machine = "suspended" /\ uplink = "none" /\ target = "unknown" /\ recent = FALSE
  /\ held = "no" /\ tabs = {} /\ present = FALSE
  /\ trigger = [t \in Trigger |-> "idle"] /\ calls = 0
  /\ wakeAt = "none" /\ sweep = "idle" /\ letgo = FALSE

Next == TriggerStep \/ UplinkStep \/ BrowserStep \/ ScheduleStep \/ TimeStep

Spec == Init /\ [][Next]_vars

(***************************************************************************)
(* Fairness: timers run, calls are answered, sometimes well; a ping finds  *)
(* a dead socket; a host that is up dials again; and the page's probes,    *)
(* ready frames, go on while it is offline.                                *)
(***************************************************************************)
Answers == \E t \in Trigger : Finds(t)
Probes == \E b \in Tab : FreeFrameOffline(b)
PingMisses == uplink = "dead" /\ Drops

Fairness ==
  /\ SF_vars(Answers) /\ SF_vars(WakeSucceeds) /\ SF_vars(Links)
  /\ SF_vars(Probes) /\ SF_vars(PingMisses)
  /\ WF_vars(HoldAges) /\ WF_vars(HoldReleased) /\ WF_vars(RecentAges)

TypeOK ==
  /\ machine \in {"running", "suspended"}
  /\ uplink \in {"none", "open", "dead"}
  /\ target \in {"unknown", "pending", "known"}
  /\ recent \in BOOLEAN
  /\ uplink = "none" => target = "unknown" /\ ~recent
  /\ held \in {"no", "fresh", "quiet"}
  /\ tabs \subseteq Tab /\ present \in BOOLEAN
  /\ trigger \in [Trigger -> {"idle", "find", "wake"}]
  /\ calls \in Nat
  /\ wakeAt \in {"none", "later", "due"}
  /\ sweep \in {"idle", "read", "online", "offline", "wake"}
  /\ letgo \in BOOLEAN

(***************************************************************************)
(* Properties.                                                             *)
(***************************************************************************)
\* However many tabs attach, frames bounce and schedules come due, the provider
\* is asked to wake the machine once at a time.
OneWake == calls <= 1

\* A machine the relay knows for a cloud machine and had a frame of within the
\* idle time is held, also when its uplink came, went and came meanwhile; unless
\* a wake that failed has let go of it since.
WorkIsHeld == recent /\ target = "known" => held = "fresh" \/ letgo

\* A connection that stays, and probes, finds the machine linked again and
\* again, whatever wakes fail and however often it is suspended.
Reachable == <>[](tabs # {}) => []<>(uplink = "open")

\* The hold of a machine that nobody reaches any more is let go.
HoldsLapse == <>[](uplink = "none" /\ ~InFlight) => <>[](held = "no")
=============================================================================
