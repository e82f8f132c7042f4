---------------------------- MODULE ShelfProofs ----------------------------
(***************************************************************************)
(* Proofs about Shelf, for any number of machines and of relay processes,  *)
(* any target and any number of crashes, whatever answers are lost and     *)
(* reports come late.                                                      *)
(***************************************************************************)
EXTENDS Shelf, FiniteSetTheorems, TLAPS

(***************************************************************************)
(* The inductive invariant, in parts.                                      *)
(***************************************************************************)
\* A name that is not reserved yet has no row and was given to nobody, and
\* a build under way has a process, whose sweep waits for it.
Lifecycle ==
  /\ \A m \in Machine :
       /\ job[m] \in {"unused", "reserve"} => row[m] = "none" /\ m \notin given
       /\ job[m] = "unused" <=> owner[m] = Nobody
  /\ \A r \in Filler, m \in Machine :
       pc[r] # "build" /\ owner[m] = r => job[m] = "done"

\* Only an old row is scrapped, nobody is building behind an old row, and what
\* is to be marked failed has been destroyed.
Graves ==
  /\ \A m \in aged : job[m] = "done"
  /\ \A m \in Machine : row[m] = "failed" => m \in aged /\ machine[m] # "up"
  /\ \A r \in Filler :
       /\ asOf[r] \subseteq aged /\ todo[r] \subseteq aged
       /\ victim[r] # Nobody => victim[r] \in aged /\ machine[victim[r]] # "up"

\* A launch that a process saw fail is over, and is not held.
Launched ==
  \A r \in Filler : \A m \in bad[r] : job[m] = "done" /\ m \notin holds[r]

\* The builds of one process that count: reserved, or about to be.
Mine(r) ==
  {m \in Machine : owner[m] = r /\ (job[m] = "reserve" \/ m \in Building \ aged)}

Bounded == \A r \in Filler : Cardinality(Mine(r)) <= Target

\* What TableIsTrue rests on: the provider has nothing of a name before its create;
\* who reports exists, or was destroyed since, and only old machines are destroyed;
\* and what a sweep is about to destroy is not on the shelf.
Truth ==
  /\ \A m \in Machine :
       /\ job[m] \in {"unused", "reserve", "create"} => machine[m] = "none"
       /\ job[m] = "create" => row[m] = "building"
       /\ job[m] = "release" => machine[m] = "none" \/ m \in mishap
       /\ machine[m] = "gone" => m \in aged
       /\ row[m] = "claimed" => m \in given
  /\ \A m \in reports : machine[m] # "none"
  /\ \A r \in Filler : \A m \in todo[r] \ mishap : row[m] # "ready"
  /\ TableIsTrue

Parts == TypeOK /\ Lifecycle /\ Graves /\ Launched /\ GivenIsOffShelf

ShelfInv == Parts /\ Bounded /\ Truth

(***************************************************************************)
(* Every part but the bound.                                               *)
(***************************************************************************)
LEMMA InitParts == ShelfAssumption /\ Init => Parts
<1> SUFFICES ASSUME ShelfAssumption, Init PROVE Parts
  OBVIOUS
<1>1. TypeOK
  BY DEF ShelfAssumption, Init, TypeOK
<1>2. QED
  BY <1>1 DEF ShelfAssumption, Init, Parts, Lifecycle, Graves, Launched, GivenIsOffShelf

\* The parts of the sweep that touch neither rows nor machines nor builds.
LEMMA LookingParts ==
  ASSUME ShelfAssumption, Parts, NEW r \in Filler,
         \/ SweepAdopts(r) \/ SweepAdoptsNot(r) \/ FindsStale(r) \/ FindsNone(r)
         \/ CountsReady(r) \/ CountFails(r) \/ SweepEnds(r) \/ Restarts(r)
  PROVE  Parts'
<1> USE DEF ShelfAssumption, Parts, TypeOK, Lifecycle, Graves, Launched, GivenIsOffShelf,
         table, cloud, people, builds, memory
<1>1. CASE SweepAdopts(r)
  BY <1>1 DEF SweepAdopts, Adopted, Building
<1>2. CASE SweepAdoptsNot(r)
  BY <1>2 DEF SweepAdoptsNot
<1>3. CASE FindsStale(r)
  BY <1>3 DEF FindsStale, StaleBuilds, Building
<1>4. CASE FindsNone(r)
  BY <1>4 DEF FindsNone
<1>5. CASE CountsReady(r)
  <2>1. Cardinality(Ready) \in Nat
    BY FS_Subset, FS_CardinalityType DEF Ready
  <2>2. QED
    BY <1>5, <2>1 DEF CountsReady
<1>6. CASE CountFails(r)
  BY <1>6 DEF CountFails
<1>7. CASE SweepEnds(r)
  BY <1>7 DEF SweepEnds, Over
<1>8. CASE Restarts(r)
  BY <1>8 DEF Restarts
<1>9. QED
  BY <1>1, <1>2, <1>3, <1>4, <1>5, <1>6, <1>7, <1>8

LEMMA ScrappingParts ==
  ASSUME ShelfAssumption, Parts, NEW r \in Filler, NEW m \in Machine,
         DestroyTakes(r, m) \/ DestroyFails(r, m)
  PROVE  Parts'
<1> USE DEF ShelfAssumption, Parts, TypeOK, Lifecycle, Graves, Launched, GivenIsOffShelf,
         table, people, builds, memory, Scrapping
<1>1. /\ Destroyed(m) \in [Machine -> {"none", "up", "gone"}]
      /\ Destroyed(m)[m] # "up"
      /\ \A n \in Machine : machine[n] # "up" => Destroyed(m)[n] # "up"
  BY DEF Destroyed
<1>2. CASE DestroyTakes(r, m)
  BY <1>1, <1>2 DEF DestroyTakes
<1>3. CASE DestroyFails(r, m)
  BY <1>1, <1>3 DEF DestroyFails
<1>4. QED
  BY <1>2, <1>3

LEMMA BuryingParts ==
  ASSUME ShelfAssumption, Parts, NEW r \in Filler, MarksFailed(r) \/ MarkIsLost(r)
  PROVE  Parts'
<1> USE DEF ShelfAssumption, Parts, TypeOK, Lifecycle, Graves, Launched, GivenIsOffShelf,
         cloud, people, builds
<1>1. PICK failing \in BOOLEAN : Buries(r, failing)
  BY DEF MarksFailed, MarkIsLost
<1>2. victim[r] \in aged /\ machine[victim[r]] # "up"
  BY <1>1 DEF Buries
<1>3. QED
  BY <1>1, <1>2 DEF Buries

LEMMA StartingParts ==
  ASSUME ShelfAssumption, Parts, NEW r \in Filler, StartsBuilds(r)
  PROVE  Parts'
BY DEF ShelfAssumption, Parts, TypeOK, Lifecycle, Graves, Launched, GivenIsOffShelf,
       table, cloud, people, memory, StartsBuilds, Unused

LEMMA CrashingParts ==
  ASSUME ShelfAssumption, Parts, NEW r \in Filler, Crashes(r)
  PROVE  Parts'
BY DEF ShelfAssumption, Parts, TypeOK, Lifecycle, Graves, Launched, GivenIsOffShelf,
       table, cloud, people, Crashes

LEMMA BuildingParts ==
  ASSUME ShelfAssumption, Parts, NEW m \in Machine, BuildStep(m)
  PROVE  Parts'
<1> USE DEF ShelfAssumption, Parts, TypeOK, Lifecycle, Graves, Launched, GivenIsOffShelf,
         people, sweep, memory, table, cloud, At, Goes
<1>1. owner[m] \in Filler /\ m \notin aged /\ pc[owner[m]] = "build"
  BY DEF BuildStep, Reserves, ReserveFails, Creates, CreateFails, CreateIsLost, Releases,
         Launches, LaunchFails
<1>2. CASE Reserves(m)
  BY <1>1, <1>2 DEF Reserves
<1>3. CASE ReserveFails(m)
  <2>1. row' = row \/ row' = [row EXCEPT ![m] = "building"]
    BY <1>3 DEF ReserveFails
  <2>2. job' = [job EXCEPT ![m] = "done"] /\ UNCHANGED <<aged, cloud, people, sweep, memory, owner, crashes>>
    BY <1>3 DEF ReserveFails
  <2>3. CASE row' = row
    BY <1>1, <2>2, <2>3
  <2>4. CASE row' = [row EXCEPT ![m] = "building"]
    BY <1>1, <1>3, <2>2, <2>4 DEF ReserveFails
  <2>5. QED
    BY <2>1, <2>3, <2>4
<1>4. CASE Creates(m)
  BY <1>1, <1>4 DEF Creates
<1>5. CASE CreateFails(m)
  BY <1>1, <1>5 DEF CreateFails
<1>6. CASE CreateIsLost(m)
  BY <1>1, <1>6 DEF CreateIsLost
<1>7. CASE Releases(m)
  <2>1. row' = row \/ row' = [row EXCEPT ![m] = "none"]
    BY <1>7 DEF Releases
  <2>2. job' = [job EXCEPT ![m] = "done"] /\ UNCHANGED <<aged, cloud, people, sweep, memory, owner, crashes>>
    BY <1>7 DEF Releases
  <2>3. CASE row' = row
    BY <1>1, <2>2, <2>3
  <2>4. CASE row' = [row EXCEPT ![m] = "none"]
    BY <1>1, <2>2, <2>4
  <2>5. QED
    BY <2>1, <2>3, <2>4
<1>8. CASE Launches(m)
  BY <1>1, <1>8 DEF Launches, Installing
<1>9. CASE LaunchFails(m)
  BY <1>1, <1>9 DEF LaunchFails, Installing
<1>10. QED
  BY <1>2, <1>3, <1>4, <1>5, <1>6, <1>7, <1>8, <1>9 DEF BuildStep

LEMMA WorldParts ==
  ASSUME ShelfAssumption, Parts, NEW m \in Machine, WorldStep(m)
  PROVE  Parts'
<1> USE DEF ShelfAssumption, Parts, TypeOK, Lifecycle, Graves, Launched, GivenIsOffShelf,
         people, builds, sweep, memory, table, cloud
<1>1. CASE Ages(m)
  BY <1>1 DEF Ages, Over
<1>2. CASE Installs(m)
  BY <1>2 DEF Installs
<1>3. CASE SendsReport(m)
  BY <1>3 DEF SendsReport
<1>4. CASE ReportArrives(m)
  BY <1>4 DEF ReportArrives
<1>5. CASE Claims(m)
  BY <1>5 DEF Claims
<1>6. CASE Leaves(m)
  BY <1>6 DEF Leaves
<1>7. QED
  BY <1>1, <1>2, <1>3, <1>4, <1>5, <1>6 DEF WorldStep

LEMMA StepParts == ShelfAssumption /\ Parts /\ [Next]_vars => Parts'
<1> SUFFICES ASSUME ShelfAssumption, Parts, [Next]_vars PROVE Parts'
  OBVIOUS
<1>1. CASE UNCHANGED vars
  BY <1>1 DEF vars, table, cloud, people, builds, sweep, memory, Parts, TypeOK, Lifecycle,
              Graves, Launched, GivenIsOffShelf
<1>2. ASSUME NEW r \in Filler, SweepStep(r) \/ Crashes(r) \/ Restarts(r)
      PROVE  Parts'
  BY <1>2, LookingParts, ScrappingParts, BuryingParts, StartingParts, CrashingParts
     DEF SweepStep
<1>3. ASSUME NEW m \in Machine, BuildStep(m) \/ WorldStep(m)
      PROVE  Parts'
  BY <1>3, BuildingParts, WorldParts
<1>4. QED
  BY <1>1, <1>2, <1>3 DEF Next

(***************************************************************************)
(* The bound on the builds of one process.                                 *)
(***************************************************************************)
LEMMA SubsetBound ==
  ASSUME ShelfAssumption, NEW S \in SUBSET Machine, NEW T \in SUBSET S
  PROVE  /\ Cardinality(S) \in Nat /\ Cardinality(T) \in Nat
         /\ Cardinality(T) <= Cardinality(S)
BY FS_Subset, FS_CardinalityType DEF ShelfAssumption

LEMMA InitBounded == ShelfAssumption /\ Init => Bounded
<1> SUFFICES ASSUME ShelfAssumption, Init, NEW r \in Filler PROVE Cardinality(Mine(r)) <= Target
  BY DEF Bounded
<1>1. Mine(r) = {}
  BY DEF ShelfAssumption, Init, Mine, Building
<1>2. QED
  BY <1>1, FS_EmptySet DEF ShelfAssumption

\* Where no process gains a build, none passes its bound.
LEMMA ShrinkingBounded ==
  ASSUME ShelfAssumption, Bounded, \A r \in Filler : Mine(r)' \subseteq Mine(r)
  PROVE  Bounded'
<1> SUFFICES ASSUME NEW r \in Filler PROVE Cardinality(Mine(r)') <= Target
  BY DEF Bounded
<1>1. Mine(r)' \in SUBSET Mine(r) /\ Mine(r) \in SUBSET Machine
  BY DEF Mine
<1>2. QED
  BY <1>1, SubsetBound DEF ShelfAssumption, Bounded

\* A sweep starts no more than what it is short of, and what it counted is at
\* least what it has in flight.
LEMMA StartingBounded ==
  ASSUME ShelfAssumption, Parts, Bounded, NEW r \in Filler, StartsBuilds(r)
  PROVE  Bounded'
<1> USE DEF ShelfAssumption, Parts
<1>1. PICK N \in SUBSET Unused :
        /\ \/ Cardinality(N) = BuildsToStart(OnShelf(r))
           \/ N = Unused /\ Cardinality(N) < BuildsToStart(OnShelf(r))
        /\ job' = [m \in Machine |-> IF m \in N THEN "reserve" ELSE job[m]]
        /\ owner' = [m \in Machine |-> IF m \in N THEN r ELSE owner[m]]
  BY DEF StartsBuilds
<1>2. UNCHANGED <<row, aged>>
  BY DEF StartsBuilds, table
<1> DEFINE Kept == Mine(r)
           Counted == Building \ asOf[r]
<1>3. \A s \in Filler \ {r} : Mine(s)' \subseteq Mine(s)
  BY <1>1, <1>2 DEF Mine, Building, Unused, Lifecycle, TypeOK
<1>4. Mine(r)' \subseteq N \cup Kept
  BY <1>1, <1>2 DEF Mine, Building
<1>5. Kept \subseteq Counted
  BY DEF StartsBuilds, Mine, Lifecycle, Graves
<1>6. /\ Counted \in SUBSET Machine /\ N \in SUBSET Machine
      /\ N \cup Kept \in SUBSET Machine
  BY DEF Building, Unused, Mine
<1>7. Cardinality(N) + Cardinality(Kept) <= Target
  <2>1. /\ Cardinality(N) \in Nat /\ Cardinality(Kept) \in Nat
        /\ Cardinality(Counted) \in Nat
        /\ Cardinality(Kept) <= Cardinality(Counted)
    BY <1>5, <1>6, SubsetBound
  <2>2. Cardinality(N) <= BuildsToStart(OnShelf(r))
    <3>1. BuildsToStart(OnShelf(r)) \in Nat
      BY <2>1 DEF BuildsToStart, OnShelf, TypeOK
    <3>2. QED
      BY <1>1, <2>1, <3>1
  <2>3. Cardinality(Kept) <= Target
    BY DEF Bounded
  <2>4. seen[r] \in Nat /\ OnShelf(r) = seen[r] + Cardinality(Counted)
    BY DEF TypeOK, OnShelf
  <2> HIDE DEF Kept, Counted
  <2>5. CASE OnShelf(r) < Target
    BY <2>1, <2>2, <2>4, <2>5 DEF BuildsToStart
  <2>6. CASE ~(OnShelf(r) < Target)
    BY <2>1, <2>2, <2>3, <2>4, <2>6 DEF BuildsToStart
  <2>7. QED
    BY <2>5, <2>6
<1>8. Cardinality(N \cup Kept) <= Cardinality(N) + Cardinality(Kept)
  <2>1. IsFiniteSet(N) /\ IsFiniteSet(Kept)
    BY <1>6, FS_Subset
  <2>2. /\ Cardinality(N \cup Kept) = Cardinality(N) + Cardinality(Kept) - Cardinality(N \cap Kept)
        /\ Cardinality(N \cap Kept) \in Nat
    BY <2>1, FS_Union, FS_Intersection, FS_CardinalityType
  <2>3. Cardinality(N) \in Nat /\ Cardinality(Kept) \in Nat
    BY <2>1, FS_CardinalityType
  <2> HIDE DEF Kept
  <2>4. QED
    BY <2>2, <2>3
<1>9. Cardinality(Mine(r)') <= Target
  <2>1. /\ Cardinality(Mine(r)') \in Nat /\ Cardinality(N \cup Kept) \in Nat
        /\ Cardinality(Mine(r)') <= Cardinality(N \cup Kept)
    BY <1>4, <1>6, SubsetBound
  <2>2. Cardinality(N) \in Nat /\ Cardinality(Kept) \in Nat
    BY <1>6, SubsetBound
  <2> HIDE DEF Kept
  <2>3. QED
    BY <1>7, <1>8, <2>1, <2>2
<1>10. ASSUME NEW s \in Filler, s # r
       PROVE  Cardinality(Mine(s)') <= Target
  <2>1. Mine(s)' \in SUBSET Mine(s) /\ Mine(s) \in SUBSET Machine
    BY <1>3, <1>10 DEF Mine
  <2>2. QED
    BY <2>1, SubsetBound DEF Bounded
<1>11. QED
  BY <1>9, <1>10 DEF Bounded

LEMMA StepBounded == ShelfAssumption /\ Parts /\ Bounded /\ [Next]_vars => Bounded'
<1> SUFFICES ASSUME ShelfAssumption, Parts, Bounded, [Next]_vars PROVE Bounded'
  OBVIOUS
<1> USE DEF ShelfAssumption, Mine, Building, Parts, TypeOK, Lifecycle, vars, table, cloud, people, builds, sweep,
         memory
<1>1. CASE UNCHANGED vars
  BY <1>1, ShrinkingBounded
<1>2. ASSUME NEW r \in Filler, SweepStep(r) \/ Crashes(r) \/ Restarts(r)
      PROVE  Bounded'
  <2>1. CASE StartsBuilds(r)
    BY <2>1, StartingBounded
  <2>2. CASE Crashes(r)
    BY <2>2, ShrinkingBounded DEF Crashes
  <2>3. CASE Restarts(r) \/ (SweepStep(r) /\ ~StartsBuilds(r) /\ ~MarksFailed(r) /\ ~MarkIsLost(r))
    <3>1. UNCHANGED <<row, aged, job, owner>>
      BY <2>3 DEF SweepStep, Restarts, SweepAdopts, SweepAdoptsNot, FindsStale, FindsNone,
         DestroyTakes, DestroyFails, CountsReady, CountFails, SweepEnds
    <3>2. QED
      BY <3>1, ShrinkingBounded
  <2>4. CASE MarksFailed(r) \/ MarkIsLost(r)
    BY <2>4, ShrinkingBounded DEF MarksFailed, MarkIsLost, Buries
  <2>5. QED
    BY <1>2, <2>1, <2>2, <2>3, <2>4
<1>3. ASSUME NEW m \in Machine, BuildStep(m)
      PROVE  Bounded'
  <2>1. \A r \in Filler : Mine(r)' \subseteq Mine(r)
    BY <1>3 DEF BuildStep, Reserves, ReserveFails, Creates, CreateFails, CreateIsLost,
       Releases, Launches, LaunchFails, At, Goes
  <2>2. QED
    BY <2>1, ShrinkingBounded
<1>4. ASSUME NEW m \in Machine, WorldStep(m)
      PROVE  Bounded'
  <2>1. \A r \in Filler : Mine(r)' \subseteq Mine(r)
    BY <1>4 DEF WorldStep, Ages, Installs, SendsReport, ReportArrives, Claims, Leaves
  <2>2. QED
    BY <2>1, ShrinkingBounded
<1>5. QED
  BY <1>1, <1>2, <1>3, <1>4 DEF Next

(***************************************************************************)
(* The table and the provider.                                             *)
(***************************************************************************)
LEMMA InitTruth == ShelfAssumption /\ Init => Truth
  BY DEF Init, Truth, TableIsTrue

LEMMA SweepTruth ==
  ASSUME ShelfAssumption, Parts, Truth, NEW r \in Filler,
         SweepStep(r) \/ Crashes(r) \/ Restarts(r)
  PROVE  Truth'
<1> USE DEF Parts, TypeOK, Lifecycle, Graves, Truth, TableIsTrue, table, cloud, people,
            builds, memory
<1>1. CASE SweepAdopts(r) \/ SweepAdoptsNot(r) \/ FindsNone(r) \/ CountsReady(r)
             \/ CountFails(r) \/ SweepEnds(r) \/ Restarts(r)
  BY <1>1 DEF SweepAdopts, SweepAdoptsNot, FindsNone, CountsReady, CountFails, SweepEnds,
     Restarts
<1>2. CASE FindsStale(r)
  BY <1>2 DEF FindsStale, StaleBuilds, Building
<1>3. ASSUME NEW m \in Machine, DestroyTakes(r, m) \/ DestroyFails(r, m) PROVE Truth'
  <2>1. /\ m \in todo[r] /\ machine' \in {machine, Destroyed(m)}
        /\ UNCHANGED <<table, install, reports, people, builds>>
        /\ \A s \in Filler : todo'[s] \subseteq todo[s]
    BY <1>3 DEF DestroyTakes, DestroyFails, Scrapping
  <2>2. m \in aged /\ job[m] = "done" /\ (row[m] = "ready" => m \in mishap)
    BY <2>1
  <2> QED
    BY <2>1, <2>2 DEF Destroyed
<1>4. CASE MarksFailed(r) \/ MarkIsLost(r)
  BY <1>4 DEF MarksFailed, MarkIsLost, Buries
<1>5. CASE StartsBuilds(r)
  BY <1>5 DEF StartsBuilds, Unused
<1>6. CASE Crashes(r)
  BY <1>6 DEF Crashes
<1> QED
  BY <1>1, <1>2, <1>3, <1>4, <1>5, <1>6 DEF SweepStep

LEMMA BuildTruth ==
  ASSUME ShelfAssumption, Parts, Truth, NEW m \in Machine, BuildStep(m)
  PROVE  Truth'
<1> USE DEF Parts, TypeOK, Lifecycle, Graves, Truth, TableIsTrue, table, cloud, people,
            sweep, memory, At, Goes
<1>1. m \notin aged
  BY DEF BuildStep, Reserves, ReserveFails, Creates, CreateFails, CreateIsLost, Releases,
         Launches, LaunchFails
<1>2. CASE Reserves(m) \/ ReserveFails(m)
  BY <1>1, <1>2 DEF Reserves, ReserveFails
<1>3. CASE Creates(m)
  BY <1>1, <1>3 DEF Creates
<1>4. CASE CreateFails(m) \/ CreateIsLost(m)
  BY <1>1, <1>4 DEF CreateFails, CreateIsLost
<1>5. CASE Releases(m)
  BY <1>1, <1>5 DEF Releases
<1>6. CASE Launches(m) \/ LaunchFails(m)
  BY <1>1, <1>6 DEF Launches, LaunchFails
<1> QED
  BY <1>2, <1>3, <1>4, <1>5, <1>6 DEF BuildStep

LEMMA WorldTruth ==
  ASSUME ShelfAssumption, Parts, Truth, NEW m \in Machine, WorldStep(m)
  PROVE  Truth'
<1> USE DEF Parts, TypeOK, Lifecycle, Graves, Truth, TableIsTrue, table, cloud, people,
            builds, sweep, memory
<1>1. CASE Ages(m)
  BY <1>1 DEF Ages, Over
<1>2. CASE Installs(m) \/ SendsReport(m)
  BY <1>2 DEF Installs, SendsReport
<1>3. CASE ReportArrives(m)
  BY <1>3 DEF ReportArrives
<1>4. CASE Claims(m)
  BY <1>4 DEF Claims
<1>5. CASE Leaves(m)
  BY <1>5 DEF Leaves
<1> QED
  BY <1>1, <1>2, <1>3, <1>4, <1>5 DEF WorldStep

LEMMA StepTruth == ShelfAssumption /\ Parts /\ Truth /\ [Next]_vars => Truth'
<1> SUFFICES ASSUME ShelfAssumption, Parts, Truth, [Next]_vars PROVE Truth'
  OBVIOUS
<1>1. CASE UNCHANGED vars
  BY <1>1 DEF vars, table, cloud, people, builds, sweep, memory, Truth, TableIsTrue
<1> QED
  BY <1>1, SweepTruth, BuildTruth, WorldTruth DEF Next

LEMMA ShelfInvariant == ShelfAssumption => (Spec => []ShelfInv)
<1> SUFFICES ASSUME ShelfAssumption PROVE Spec => []ShelfInv
  OBVIOUS
<1>1. Init => ShelfInv
  BY InitParts, InitBounded, InitTruth DEF ShelfInv
<1>2. ShelfInv /\ [Next]_vars => ShelfInv'
  BY StepParts, StepBounded, StepTruth DEF ShelfInv
<1>3. QED
  BY <1>1, <1>2, PTL DEF Spec

(***************************************************************************)
(* The theorems.                                                           *)
(***************************************************************************)
\* Every variable of the shelf keeps its type.
THEOREM ShelfTypes == ShelfAssumption => (Spec => []TypeOK)
<1> SUFFICES ASSUME ShelfAssumption PROVE Spec => []TypeOK
  OBVIOUS
<1>1. ShelfInv => TypeOK
  BY DEF ShelfInv, Parts
<1>2. QED
  BY <1>1, ShelfInvariant, PTL

\* No machine that a claim has returned is ever on the shelf again, however
\* reports are replayed and whichever processes sweep.
THEOREM HandedOverOnce == ShelfAssumption => (Spec => []GivenIsOffShelf)
<1> SUFFICES ASSUME ShelfAssumption PROVE Spec => []GivenIsOffShelf
  OBVIOUS
<1>1. ShelfInv => GivenIsOffShelf
  BY DEF ShelfInv, Parts
<1>2. QED
  BY <1>1, ShelfInvariant, PTL

\* A row is marked failed only when its machine is gone, and no build brings
\* that machine back.
THEOREM BuriedIsDestroyed == ShelfAssumption => (Spec => []FailedIsGone)
<1> SUFFICES ASSUME ShelfAssumption PROVE Spec => []FailedIsGone
  OBVIOUS
<1>1. ShelfInv => FailedIsGone
  BY DEF ShelfInv, Parts, Graves, FailedIsGone
<1>2. QED
  BY <1>1, ShelfInvariant, PTL

\* The table and the provider agree, but for a create that was never answered and a
\* report that came after its row had aged: a machine that exists has a row or was
\* handed over, and one on the shelf exists, whatever a sweep is about to destroy.
THEOREM TableAgrees == ShelfAssumption => (Spec => []TableIsTrue)
<1> SUFFICES ASSUME ShelfAssumption PROVE Spec => []TableIsTrue
  OBVIOUS
<1>1. ShelfInv => TableIsTrue
  BY DEF ShelfInv, Truth
<1>2. QED
  BY <1>1, ShelfInvariant, PTL

\* A process that saw a launch fail does not hold that machine.
THEOREM FailedLaunchesSleep == ShelfAssumption => (Spec => []FailedLaunchNotHeld)
<1> SUFFICES ASSUME ShelfAssumption PROVE Spec => []FailedLaunchNotHeld
  OBVIOUS
<1>1. ShelfInv => FailedLaunchNotHeld
  BY DEF ShelfInv, Parts, Launched, FailedLaunchNotHeld
<1>2. QED
  BY <1>1, ShelfInvariant, PTL

\* Each process has at most one target of builds in flight, for any number of
\* processes, of crashes and of claims in between.
THEOREM OneTargetEach == ShelfAssumption => (Spec => []BuildsBounded)
<1> SUFFICES ASSUME ShelfAssumption PROVE Spec => []BuildsBounded
  OBVIOUS
<1>1. ShelfInv => BuildsBounded
  <2> SUFFICES ASSUME ShelfInv, NEW r \in Filler
               PROVE  Cardinality({m \in Building \ aged : owner[m] = r}) <= Target
    BY DEF BuildsBounded
  <2> DEFINE B == {m \in Building \ aged : owner[m] = r}
  <2>1. B \in SUBSET Mine(r) /\ Mine(r) \in SUBSET Machine
    BY DEF Mine, Building
  <2>2. Cardinality(B) \in Nat /\ Cardinality(Mine(r)) \in Nat
        /\ Cardinality(B) <= Cardinality(Mine(r))
    BY <2>1, SubsetBound
  <2>3. Cardinality(Mine(r)) <= Target
    BY DEF ShelfInv, Bounded
  <2>4. QED
    BY <2>2, <2>3 DEF ShelfAssumption
<1>2. QED
  BY <1>1, ShelfInvariant, PTL
=============================================================================
