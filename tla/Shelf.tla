------------------------------- MODULE Shelf -------------------------------
(***************************************************************************)
(* The shelf of cloud machines built ahead of demand: the filler's sweep   *)
(* (src/pool-filler.ts), the table of pooled machines                      *)
(* (src/environment-pool-store.ts), the provider's create and destroy      *)
(* (src/environment-provisioner.ts), the machines that install themselves  *)
(* and report ready, and the claim that hands one to a person.             *)
(*                                                                         *)
(* Everything a sweep does is a chain of calls to the table and to the     *)
(* provider.  An action is one call, its effect over there, and what the   *)
(* filler does with the answer.  A filler is one relay process: it can     *)
(* crash between any two calls, and then forgets all but the table.        *)
(*                                                                         *)
(* The clock is abstract: `aged` holds the rows older than                 *)
(* BUILD_TIMEOUT_MS, and a sweep decides by the clock it read at its start.*)
(* A build attempt (one create, one exec of at most EXEC_TIMEOUT_MS) is    *)
(* over long before its row is that old.                                   *)
(***************************************************************************)
EXTENDS Naturals, FiniteSets

CONSTANTS
  Machine,      \* machine names; a build draws one that was never drawn
  Filler,       \* relay processes that run a filler
  Nobody,       \* no filler, no machine
  Target,       \* CLOUD_POOL_SIZE
  MaxPerSweep,  \* MAX_BUILDS_PER_SWEEP
  MaxCrashes,   \* bound: crashes of relay processes
  LostAnswers,  \* whether the provider may do what it was asked and fail to say so
  LateReports   \* whether a report may come in after its row has aged

ShelfAssumption ==
  /\ IsFiniteSet(Machine) /\ IsFiniteSet(Filler)
  /\ Nobody \notin Machine \cup Filler
  /\ Target \in Nat \ {0} /\ MaxPerSweep \in Nat /\ MaxCrashes \in Nat
  /\ LostAnswers \in BOOLEAN /\ LateReports \in BOOLEAN

VARIABLES
  row,      \* environment_pool: the state of each row, or "none"
  aged,     \* rows older than BUILD_TIMEOUT_MS
  machine,  \* the provider: does the machine exist
  install,  \* how far the machine's own installation has got
  reports,  \* readiness reports on their way to the relay
  given,    \* machines a claim has returned
  mishap,   \* history: created without an answer, or reported after ageing
  job,      \* how far the build of each name has got
  owner,    \* the filler that builds it
  pc,       \* where the sweep of each filler is
  asOf,     \* the rows that had aged when the sweep read the clock
  todo,     \* stale builds the sweep has still to scrap
  victim,   \* the one it has destroyed and has still to mark
  seen,     \* the ready rows it has counted
  holds,    \* machines the filler keeps awake
  bad,      \* failedLaunches
  crashes   \* crashes so far

table == <<row, aged>>
cloud == <<machine, install, reports>>
people == <<given, mishap>>
builds == <<job, owner>>
sweep == <<pc, asOf, todo, victim, seen>>
memory == <<holds, bad>>
vars == <<table, cloud, people, builds, sweep, memory, crashes>>

Building == {m \in Machine : row[m] = "building"}
Ready == {m \in Machine : row[m] = "ready"}

(***************************************************************************)
(* The decisions.                                                          *)
(***************************************************************************)
\* Mutants: none is adopted; none is let go.
AdoptedNone(r) == holds[r] \cap Building
AdoptedForever(r) == holds[r] \cup (Building \ bad[r])

\* What a filler holds after it has adopted what is building and let go of
\* what is not.
Adopted(r) == (holds[r] \cap Building) \cup (Building \ bad[r])

\* Mutant: any old row is stale.
StaleOfAnyState(old) == {m \in Machine : row[m] # "none" /\ m \in old}

\* staleBuilds
StaleBuilds(old) == Building \cap old

\* Mutant: builds in flight are not counted.
OnShelfReady(r) == seen[r]

\* counts, as the sweep adds it up: the ready rows it read before, and the
\* builds it still believes in.
OnShelf(r) == seen[r] + Cardinality(Building \ asOf[r])

BuildsToStart(have) ==
  LET short == IF Target > have THEN Target - have ELSE 0
  IN IF short < MaxPerSweep THEN short ELSE MaxPerSweep

(***************************************************************************)
(* The sweep.                                                              *)
(***************************************************************************)
\* The timer fires and no sweep is running: building() is asked, and answers
\* or fails.
SweepAdopts(r) ==
  /\ pc[r] = "idle"
  /\ pc' = [pc EXCEPT ![r] = "stale"]
  /\ asOf' = [asOf EXCEPT ![r] = aged]
  /\ holds' = [holds EXCEPT ![r] = Adopted(r)]
  /\ UNCHANGED <<table, cloud, people, builds, todo, victim, seen, bad, crashes>>

SweepAdoptsNot(r) ==
  /\ pc[r] = "idle"
  /\ pc' = [pc EXCEPT ![r] = "stale"]
  /\ asOf' = [asOf EXCEPT ![r] = aged]
  /\ UNCHANGED <<table, cloud, people, builds, todo, victim, seen, memory, crashes>>

\* staleBuilds answers, or fails and names nobody.
FindsStale(r) ==
  /\ pc[r] = "stale"
  /\ pc' = [pc EXCEPT ![r] = "scrap"]
  /\ todo' = [todo EXCEPT ![r] = StaleBuilds(asOf[r])]
  /\ UNCHANGED <<table, cloud, people, builds, asOf, victim, seen, memory, crashes>>

FindsNone(r) ==
  /\ pc[r] = "stale"
  /\ pc' = [pc EXCEPT ![r] = "scrap"]
  /\ UNCHANGED <<table, cloud, people, builds, asOf, todo, victim, seen, memory, crashes>>

Scrapping(r, m) == pc[r] = "scrap" /\ victim[r] = Nobody /\ m \in todo[r]

Destroyed(m) == [machine EXCEPT ![m] = IF @ = "up" THEN "gone" ELSE @]

\* Mutant: a destroy of what does not exist is a failure.
DestroyTakesExisting(r, m) ==
  /\ Scrapping(r, m)
  /\ machine[m] = "up"
  /\ machine' = Destroyed(m)
  /\ victim' = [victim EXCEPT ![r] = m]
  /\ UNCHANGED <<table, install, reports, people, builds, pc, asOf, todo, seen,
                 memory, crashes>>

\* The provider has destroyed it, or has no such machine.
DestroyTakes(r, m) ==
  /\ Scrapping(r, m)
  /\ machine' = Destroyed(m)
  /\ victim' = [victim EXCEPT ![r] = m]
  /\ UNCHANGED <<table, install, reports, people, builds, pc, asOf, todo, seen,
                 memory, crashes>>

\* Mutant: the row is buried whether or not the machine is gone.
DestroyFailsBuried(r, m) ==
  /\ Scrapping(r, m)
  /\ row' = [row EXCEPT ![m] = IF @ = "building" THEN "failed" ELSE @]
  /\ todo' = [todo EXCEPT ![r] = @ \ {m}]
  /\ UNCHANGED <<aged, cloud, people, builds, pc, asOf, victim, seen, memory, crashes>>

\* It did not answer that it has; the next sweep tries again.
DestroyFails(r, m) ==
  /\ Scrapping(r, m)
  /\ machine' \in {machine} \cup (IF LostAnswers THEN {Destroyed(m)} ELSE {})
  /\ todo' = [todo EXCEPT ![r] = @ \ {m}]
  /\ UNCHANGED <<table, install, reports, people, builds, pc, asOf, victim, seen,
                 memory, crashes>>

\* markFailed, which leaves a row that is no longer building alone; and the
\* hold goes whatever the table says.
Buries(r, failing) ==
  LET m == victim[r]
  IN /\ m # Nobody
     /\ row' = IF failing \/ row[m] # "building" THEN row
               ELSE [row EXCEPT ![m] = "failed"]
     /\ victim' = [victim EXCEPT ![r] = Nobody]
     /\ todo' = [todo EXCEPT ![r] = @ \ {m}]
     /\ holds' = [holds EXCEPT ![r] = @ \ {m}]
     /\ UNCHANGED <<aged, cloud, people, builds, pc, asOf, seen, bad, crashes>>

MarksFailed(r) == Buries(r, FALSE)
MarkIsLost(r) == Buries(r, TRUE)

\* counts is two queries: the ready rows, then the builds.
CountsReady(r) ==
  /\ pc[r] = "scrap"
  /\ victim[r] = Nobody
  /\ todo[r] = {}
  /\ pc' = [pc EXCEPT ![r] = "counted"]
  /\ seen' = [seen EXCEPT ![r] = Cardinality(Ready)]
  /\ UNCHANGED <<table, cloud, people, builds, asOf, todo, victim, memory, crashes>>

CountFails(r) ==
  /\ pc[r] = "counted"
  /\ pc' = [pc EXCEPT ![r] = "idle"]
  /\ seen' = [seen EXCEPT ![r] = 0]
  /\ asOf' = [asOf EXCEPT ![r] = {}]
  /\ UNCHANGED <<table, cloud, people, builds, todo, victim, memory, crashes>>

Unused == {m \in Machine : job[m] = "unused"}

\* The builds start together, as many as there are names left for.
StartsBuilds(r) ==
  /\ pc[r] = "counted"
  /\ \E N \in SUBSET Unused :
       /\ \/ Cardinality(N) = BuildsToStart(OnShelf(r))
          \/ N = Unused /\ Cardinality(N) < BuildsToStart(OnShelf(r))
       /\ job' = [m \in Machine |-> IF m \in N THEN "reserve" ELSE job[m]]
       /\ owner' = [m \in Machine |-> IF m \in N THEN r ELSE owner[m]]
  /\ pc' = [pc EXCEPT ![r] = "build"]
  /\ seen' = [seen EXCEPT ![r] = 0]
  /\ asOf' = [asOf EXCEPT ![r] = {}]
  /\ UNCHANGED <<table, cloud, people, todo, victim, memory, crashes>>

Over(m) == job[m] \in {"unused", "done"}

SweepEnds(r) ==
  /\ pc[r] = "build"
  /\ \A m \in Machine : owner[m] = r => Over(m)
  /\ pc' = [pc EXCEPT ![r] = "idle"]
  /\ UNCHANGED <<table, cloud, people, builds, asOf, todo, victim, seen, memory, crashes>>

(***************************************************************************)
(* One build: reserve, create, hold, launch.                               *)
(***************************************************************************)
At(m, j) == job[m] = j
Goes(m, j) == job' = [job EXCEPT ![m] = j] /\ UNCHANGED owner

Reserves(m) ==
  /\ At(m, "reserve")
  /\ row' = [row EXCEPT ![m] = "building"]
  /\ Goes(m, "create")
  /\ UNCHANGED <<aged, cloud, people, sweep, memory, crashes>>

\* add answers false: the row may be there all the same.
ReserveFails(m) ==
  /\ At(m, "reserve")
  /\ row' \in {row} \cup (IF LostAnswers THEN {[row EXCEPT ![m] = "building"]} ELSE {})
  /\ Goes(m, "done")
  /\ UNCHANGED <<aged, cloud, people, sweep, memory, crashes>>

Creates(m) ==
  /\ At(m, "create")
  /\ machine' = [machine EXCEPT ![m] = "up"]
  /\ holds' = [holds EXCEPT ![owner[m]] = @ \cup {m}]
  /\ Goes(m, "launch")
  /\ UNCHANGED <<table, install, reports, people, sweep, bad, crashes>>

\* createNamed does not answer ok: the reservation is given back.
CreateFails(m) ==
  /\ At(m, "create")
  /\ Goes(m, "release")
  /\ UNCHANGED <<table, cloud, people, sweep, memory, crashes>>

CreateIsLost(m) ==
  /\ LostAnswers
  /\ At(m, "create")
  /\ machine' = [machine EXCEPT ![m] = "up"]
  /\ mishap' = mishap \cup {m}
  /\ Goes(m, "release")
  /\ UNCHANGED <<table, install, reports, given, sweep, memory, crashes>>

Releases(m) ==
  /\ At(m, "release")
  /\ row' \in {row, [row EXCEPT ![m] = "none"]}
  /\ Goes(m, "done")
  /\ UNCHANGED <<aged, cloud, people, sweep, memory, crashes>>

Installing(m) == [install EXCEPT ![m] = "running"]

Launches(m) ==
  /\ At(m, "launch")
  /\ install' = IF machine[m] = "up" THEN Installing(m) ELSE install
  /\ Goes(m, "done")
  /\ UNCHANGED <<table, machine, reports, people, sweep, memory, crashes>>

\* Mutant: the slot is given back, as it is when the create fails.
LaunchFailsReleased(m) ==
  /\ At(m, "launch")
  /\ row' = [row EXCEPT ![m] = "none"]
  /\ bad' = [bad EXCEPT ![owner[m]] = @ \cup {m}]
  /\ holds' = [holds EXCEPT ![owner[m]] = @ \ {m}]
  /\ Goes(m, "done")
  /\ UNCHANGED <<aged, cloud, people, sweep, crashes>>

\* The command did not go out, or ran and nobody heard.
LaunchFails(m) ==
  /\ At(m, "launch")
  /\ install' \in {install} \cup (IF LostAnswers THEN {Installing(m)} ELSE {})
  /\ bad' = [bad EXCEPT ![owner[m]] = @ \cup {m}]
  /\ holds' = [holds EXCEPT ![owner[m]] = @ \ {m}]
  /\ Goes(m, "done")
  /\ UNCHANGED <<table, machine, reports, people, sweep, crashes>>

(***************************************************************************)
(* Relay processes die and come back.                                      *)
(***************************************************************************)
Crashes(r) ==
  /\ pc[r] # "down"
  /\ crashes < MaxCrashes
  /\ crashes' = crashes + 1
  /\ pc' = [pc EXCEPT ![r] = "down"]
  /\ asOf' = [asOf EXCEPT ![r] = {}]
  /\ todo' = [todo EXCEPT ![r] = {}]
  /\ victim' = [victim EXCEPT ![r] = Nobody]
  /\ seen' = [seen EXCEPT ![r] = 0]
  /\ holds' = [holds EXCEPT ![r] = {}]
  /\ bad' = [bad EXCEPT ![r] = {}]
  /\ job' = [m \in Machine |-> IF owner[m] = r THEN "done" ELSE job[m]]
  /\ UNCHANGED <<table, cloud, people, owner>>

Restarts(r) ==
  /\ pc[r] = "down"
  /\ pc' = [pc EXCEPT ![r] = "idle"]
  /\ UNCHANGED <<table, cloud, people, builds, asOf, todo, victim, seen, memory, crashes>>

(***************************************************************************)
(* The machines, the clock, and the people.                                *)
(***************************************************************************)
Ages(m) ==
  /\ row[m] # "none"
  /\ m \notin aged
  /\ Over(m)
  /\ aged' = aged \cup {m}
  /\ UNCHANGED <<row, cloud, people, builds, sweep, memory, crashes>>

Installs(m) ==
  /\ machine[m] = "up"
  /\ install[m] = "running"
  /\ install' = [install EXCEPT ![m] = "done"]
  /\ UNCHANGED <<table, machine, reports, people, builds, sweep, memory, crashes>>

\* On every boot, until somebody's identity has been written to the machine:
\* a report that failed, or that was answered to nobody, is sent again.
SendsReport(m) ==
  /\ machine[m] = "up"
  /\ install[m] = "done"
  /\ m \notin reports
  /\ reports' = reports \cup {m}
  /\ UNCHANGED <<table, machine, install, people, builds, sweep, memory, crashes>>

\* Mutant: the state of the row is not looked at.
ReportArrivesAnyway(m) ==
  /\ m \in reports
  /\ reports' = reports \ {m}
  /\ row' = IF row[m] = "none" THEN row ELSE [row EXCEPT ![m] = "ready"]
  /\ UNCHANGED <<aged, machine, install, people, builds, sweep, memory, crashes>>

\* markReady
ReportArrives(m) ==
  /\ m \in reports
  /\ LateReports \/ m \notin aged
  /\ reports' = reports \ {m}
  /\ row' = IF row[m] = "building" THEN [row EXCEPT ![m] = "ready"] ELSE row
  /\ mishap' = IF m \in aged THEN mishap \cup {m} ELSE mishap
  /\ UNCHANGED <<aged, machine, install, given, builds, sweep, memory, crashes>>

\* claim_pool_sprite: one statement, under FOR UPDATE SKIP LOCKED.
Claims(m) ==
  /\ row[m] = "ready"
  /\ row' = [row EXCEPT ![m] = "claimed"]
  /\ given' = given \cup {m}
  /\ UNCHANGED <<aged, cloud, mishap, builds, sweep, memory, crashes>>

\* The open that claimed it has written its environment and removes the row.
Leaves(m) ==
  /\ row[m] = "claimed"
  /\ row' = [row EXCEPT ![m] = "none"]
  /\ UNCHANGED <<aged, cloud, people, builds, sweep, memory, crashes>>

(***************************************************************************)
(* The specification.                                                      *)
(***************************************************************************)
Init ==
  /\ row = [m \in Machine |-> "none"]
  /\ aged = {}
  /\ machine = [m \in Machine |-> "none"]
  /\ install = [m \in Machine |-> "none"]
  /\ reports = {}
  /\ given = {} /\ mishap = {}
  /\ job = [m \in Machine |-> "unused"]
  /\ owner = [m \in Machine |-> Nobody]
  /\ pc = [r \in Filler |-> "idle"]
  /\ asOf = [r \in Filler |-> {}]
  /\ todo = [r \in Filler |-> {}]
  /\ victim = [r \in Filler |-> Nobody]
  /\ seen = [r \in Filler |-> 0]
  /\ holds = [r \in Filler |-> {}]
  /\ bad = [r \in Filler |-> {}]
  /\ crashes = 0

SweepStep(r) ==
  \/ SweepAdopts(r) \/ SweepAdoptsNot(r)
  \/ FindsStale(r) \/ FindsNone(r)
  \/ \E m \in Machine : DestroyTakes(r, m) \/ DestroyFails(r, m)
  \/ MarksFailed(r) \/ MarkIsLost(r)
  \/ CountsReady(r) \/ CountFails(r) \/ StartsBuilds(r) \/ SweepEnds(r)

BuildStep(m) ==
  \/ Reserves(m) \/ ReserveFails(m)
  \/ Creates(m) \/ CreateFails(m) \/ CreateIsLost(m) \/ Releases(m)
  \/ Launches(m) \/ LaunchFails(m)

WorldStep(m) ==
  Ages(m) \/ Installs(m) \/ SendsReport(m) \/ ReportArrives(m) \/ Claims(m) \/ Leaves(m)

Next ==
  \/ \E r \in Filler : SweepStep(r) \/ Crashes(r) \/ Restarts(r)
  \/ \E m \in Machine : BuildStep(m) \/ WorldStep(m)

Spec == Init /\ [][Next]_vars

(***************************************************************************)
(* Fairness.  A process that runs goes on, one that died is restarted, and *)
(* a call that is made again and again is answered at last.  Nothing is    *)
(* assumed of the machines, of the people, or of how soon a row ages.      *)
(***************************************************************************)
Fairness ==
  /\ \A r \in Filler :
       /\ WF_vars(SweepStep(r)) /\ WF_vars(Restarts(r))
       /\ SF_vars(SweepAdopts(r)) /\ SF_vars(FindsStale(r)) /\ SF_vars(MarksFailed(r))
       /\ \A m \in Machine : SF_vars(DestroyTakes(r, m))
  /\ \A m \in Machine : WF_vars(BuildStep(m))

FairSpec == Spec /\ Fairness

TypeOK ==
  /\ row \in [Machine -> {"none", "building", "ready", "claimed", "failed"}]
  /\ machine \in [Machine -> {"none", "up", "gone"}]
  /\ install \in [Machine -> {"none", "running", "done"}]
  /\ job \in [Machine -> {"unused", "reserve", "create", "release", "launch", "done"}]
  /\ owner \in [Machine -> Filler \cup {Nobody}]
  /\ aged \subseteq Machine /\ reports \subseteq Machine
  /\ given \subseteq Machine /\ mishap \subseteq Machine
  /\ pc \in [Filler -> {"idle", "stale", "scrap", "counted", "build", "down"}]
  /\ asOf \in [Filler -> SUBSET Machine]
  /\ todo \in [Filler -> SUBSET Machine]
  /\ victim \in [Filler -> Machine \cup {Nobody}]
  /\ seen \in [Filler -> Nat]
  /\ holds \in [Filler -> SUBSET Machine]
  /\ bad \in [Filler -> SUBSET Machine]
  /\ crashes \in 0..MaxCrashes

(***************************************************************************)
(* Safety.                                                                 *)
(***************************************************************************)
\* A machine is handed over once: whatever reports are replayed or delayed, and
\* whatever a sweep does to a row it read before, a machine that a claim has
\* returned never comes back on the shelf for the next claim.
GivenIsOffShelf == \A m \in given : row[m] \in {"claimed", "none"}

\* No process ever has more than a target's worth of builds in flight, however
\* its sweeps interleave with claims, reports and other processes, and whether
\* or not it died between two of them (buildsToStart counts what is building).
BuildsBounded ==
  \A r \in Filler :
    Cardinality({m \in Building \ aged : owner[m] = r}) <= Target

\* A row is buried only when its machine is gone, so no sweep stops looking at
\* a machine that is still being paid for.
FailedIsGone == \A m \in Machine : row[m] = "failed" => machine[m] # "up"

\* The table and the provider agree, but for a create that was never answered and a
\* report that came late: a machine that exists has a row or was handed over, and a
\* machine on the shelf exists.
TableIsTrue ==
  \A m \in Machine \ mishap :
    /\ machine[m] = "up" => row[m] # "none" \/ m \in given
    /\ row[m] = "ready" => machine[m] = "up"

\* A process does not hold a machine awake whose launch it saw fail.
FailedLaunchNotHeld == \A r \in Filler : holds[r] \cap bad[r] = {}

\* A row with no machine heals: it is not for sale.
RowsWithoutMachineHeal ==
  \A m \in Machine : row[m] = "ready" => machine[m] = "up"

(***************************************************************************)
(* Liveness.                                                               *)
(***************************************************************************)
\* A build that was given up on is buried, or turns out to be ready: also one
\* whose machine was never made, or whose process died.
StaleIsSettled ==
  \A m \in Machine : (m \in aged /\ row[m] = "building") ~> row[m] # "building"

\* No process goes on paying for a machine that is no longer building.
HoldsEnd ==
  \A r \in Filler, m \in Machine :
    (m \in holds[r] /\ row[m] # "building") ~> m \notin holds[r]

\* An installation that was launched is held awake in the end, by the process
\* that launched it or by the one that took its place, unless it ages first.
InstallIsHeld ==
  \A m \in Machine :
    (row[m] = "building" /\ install[m] = "running" /\ Over(m)) ~>
      \/ row[m] # "building" \/ m \in aged
      \/ \E r \in Filler : m \in holds[r] \cup bad[r]
=============================================================================
