----------------------------- MODULE DeskProofs -----------------------------
(***************************************************************************)
(* Proofs about the properties that the runs of MCDesk check, for every    *)
(* value of the constants.  A step of the desk is a step of one part, and  *)
(* a step or a stutter of each; what holds of the parts holds of the desk. *)
(* Boot, the cloud and the shelf have their proofs in modules of their     *)
(* own; those of Awake and Credential are here.                            *)
(***************************************************************************)
EXTENDS MCDesk, TLAPS

deskVars == <<awakeVars, bootVars, credentialVars, cloudVars, shelfVars, part>>

(***************************************************************************)
(* The steps of the desk.                                                  *)
(***************************************************************************)
LEMMA AwakeSteps == (Init => A!Init) /\ ([Next]_deskVars => [A!Next]_A!vars)
  BY DEF Init, Next, deskVars, awakeVars, A!vars, A!link, A!people, A!schedule

LEMMA BootSteps == (Init => B!Init) /\ ([Next]_deskVars => [B!Next]_B!vars)
  BY DEF Init, Next, deskVars, bootVars, B!next, B!build, B!life, B!vars

LEMMA CredentialSteps == (Init => K!Init) /\ ([Next]_deskVars => [K!Next]_K!vars)
  BY DEF Init, Next, deskVars, credentialVars, K!vars, K!slots, K!history

(***************************************************************************)
(* Awake: what holds a machine, and what wakes it.                         *)
(***************************************************************************)
\* A wake the provider works on is in flight, for the next caller to join.
WakesAreJoined == calls <= 1 /\ (calls > 0 => A!InFlight)

LEMMA AwakeTypes ==
  ASSUME A!TypeOK, [A!Next]_A!vars
  PROVE  A!TypeOK'
<1> USE DEF A!TypeOK, A!vars, A!link, A!people, A!schedule, A!Online, A!Notes
<1>1. ASSUME NEW t \in Trigger, A!Finds(t) \/ A!FindFails(t) PROVE A!TypeOK'
  <2>1. CASE A!Finds(t)
    <3>1. calls' \in Nat
      BY <1>1, <2>1 DEF A!Finds, A!Wakes
    <3>2. trigger' \in [Trigger -> {"idle", "find", "wake"}]
      BY <1>1, <2>1 DEF A!Finds
    <3>3. held' \in {"no", "fresh", "quiet"} /\ letgo' \in BOOLEAN
      BY <1>1, <2>1 DEF A!Finds
    <3> QED
      BY <2>1, <3>1, <3>2, <3>3 DEF A!Finds
  <2>2. CASE A!FindFails(t)
    BY <1>1, <2>2 DEF A!FindFails
  <2> QED
    BY <1>1, <2>1, <2>2
<1>2. CASE A!WakeSucceeds
  BY <1>2 DEF A!WakeSucceeds, A!Settles
<1>3. ASSUME NEW awakened \in BOOLEAN, A!WakeFails(awakened) PROVE A!TypeOK'
  BY <1>3 DEF A!WakeFails, A!Settles
<1>4. CASE A!UplinkStep
  BY <1>4 DEF A!UplinkStep, A!Links, A!TargetFound, A!TargetFails, A!Frame, A!Drops,
              A!GoesDead, A!WakesSleeping, A!Looks
<1>5. CASE A!PresenceLapses
  BY <1>5 DEF A!PresenceLapses
<1>6. ASSUME NEW b \in Tab, A!Attaches(b) \/ A!FreeFrameOffline(b) PROVE A!TypeOK'
  BY <1>6 DEF A!Attaches, A!FreeFrameOffline, A!WakesSleeping, A!Looks
<1>7. ASSUME NEW b \in Tab, A!Leaves(b) PROVE A!TypeOK'
  <2>1. present' \in BOOLEAN
    BY <1>7 DEF A!Leaves
  <2> QED
    BY <1>7, <2>1 DEF A!Leaves
<1>8. ASSUME NEW b \in Tab, NEW isPresent \in BOOLEAN, A!SaysPresence(b, isPresent)
      PROVE  A!TypeOK'
  BY <1>8 DEF A!SaysPresence
<1>9. ASSUME NEW at_ \in {"none", "later"}, A!HostSchedules(at_) PROVE A!TypeOK'
  BY <1>9 DEF A!HostSchedules
<1>10. CASE A!ComesDue \/ A!SweepReads \/ A!SweepLooks
  BY <1>10 DEF A!ComesDue, A!SweepReads, A!SweepLooks
<1>11. ASSUME NEW works \in BOOLEAN, A!SweepClears(works) PROVE A!TypeOK'
  BY <1>11 DEF A!SweepClears, A!Wakes
<1>12. CASE A!TimeStep
  <2>1. CASE A!RecentAges
    BY <2>1 DEF A!RecentAges
  <2>2. CASE A!HoldAges
    BY <2>2 DEF A!HoldAges
  <2>3. CASE A!HoldReleased
    BY <2>3 DEF A!HoldReleased
  <2>4. CASE A!Suspends
    BY <2>4 DEF A!Suspends
  <2>5. CASE A!Crashes
    BY <2>5 DEF A!Crashes
  <2> QED
    BY <1>12, <2>1, <2>2, <2>3, <2>4, <2>5 DEF A!TimeStep
<1>13. CASE UNCHANGED A!vars
  BY <1>13
<1> QED
  BY <1>1, <1>2, <1>3, <1>4, <1>5, <1>6, <1>7, <1>8, <1>9, <1>10, <1>11, <1>12, <1>13
     DEF A!Next, A!TriggerStep, A!BrowserStep, A!ScheduleStep

LEMMA AwakeStays ==
  ASSUME A!TypeOK, WakesAreJoined, A!WorkIsHeld, [A!Next]_A!vars
  PROVE  WakesAreJoined' /\ A!WorkIsHeld'
<1> USE DEF A!TypeOK, WakesAreJoined, A!WorkIsHeld, A!InFlight, A!AnyWaits, A!Awaits,
            A!vars, A!link, A!people, A!schedule, A!Notes
<1>1. ASSUME NEW t \in Trigger, A!Finds(t) PROVE WakesAreJoined' /\ A!WorkIsHeld'
  BY <1>1 DEF A!Finds, A!Wakes
<1>2. ASSUME NEW t \in Trigger, A!FindFails(t) PROVE WakesAreJoined' /\ A!WorkIsHeld'
  BY <1>2 DEF A!FindFails
<1>3. CASE A!WakeSucceeds
  BY <1>3 DEF A!WakeSucceeds, A!Settles
<1>4. ASSUME NEW awakened \in BOOLEAN, A!WakeFails(awakened)
      PROVE  WakesAreJoined' /\ A!WorkIsHeld'
  BY <1>4 DEF A!WakeFails, A!Settles
<1>5. CASE A!UplinkStep \/ A!BrowserStep
  BY <1>5 DEF A!UplinkStep, A!Links, A!TargetFound, A!TargetFails, A!Frame, A!Drops,
              A!GoesDead, A!WakesSleeping, A!Looks, A!BrowserStep, A!PresenceLapses,
              A!Attaches, A!FreeFrameOffline, A!Leaves, A!SaysPresence
<1>6. CASE A!ScheduleStep
  BY <1>6 DEF A!ScheduleStep, A!HostSchedules, A!ComesDue, A!SweepReads, A!SweepLooks,
              A!SweepClears, A!Wakes
<1>7. CASE A!TimeStep
  BY <1>7 DEF A!TimeStep, A!RecentAges, A!HoldAges, A!HoldReleased, A!SweepsQuiet, A!Suspends,
              A!Crashes
<1>8. CASE UNCHANGED A!vars
  BY <1>8
<1> QED
  BY <1>1, <1>2, <1>3, <1>4, <1>5, <1>6, <1>7, <1>8 DEF A!Next, A!TriggerStep

LEMMA AwakeHolds == Spec => [](A!TypeOK /\ WakesAreJoined /\ A!WorkIsHeld)
<1>1. Init => A!TypeOK /\ WakesAreJoined /\ A!WorkIsHeld
  <2> SUFFICES ASSUME A!Init PROVE A!TypeOK /\ WakesAreJoined /\ A!WorkIsHeld
    BY AwakeSteps
  <2>1. A!TypeOK
    BY DEF A!Init, A!TypeOK
  <2> QED
    BY <2>1 DEF A!Init, WakesAreJoined, A!WorkIsHeld
<1>2. A!TypeOK /\ WakesAreJoined /\ A!WorkIsHeld /\ [Next]_deskVars =>
        (A!TypeOK /\ WakesAreJoined /\ A!WorkIsHeld)'
  BY AwakeSteps, AwakeTypes, AwakeStays
<1> QED
  BY <1>1, <1>2, PTL DEF Spec, deskVars

\* However many tabs attach, frames bounce and schedules come due, the provider is
\* asked to wake the machine once at a time.
THEOREM WakesAreOne == Spec => []OneWake
<1>1. WakesAreJoined => OneWake
  BY DEF WakesAreJoined, OneWake, A!OneWake
<1> QED
  BY <1>1, AwakeHolds, PTL

\* A machine that has just sent something is held, however its uplink came and
\* went, unless a wake that failed has let go of it since.
THEOREM WorkIsProtected == Spec => []WorkIsHeld
<1>1. A!WorkIsHeld <=> WorkIsHeld
  BY DEF WorkIsHeld
<1> QED
  BY <1>1, AwakeHolds, PTL

(***************************************************************************)
(* Credential: the registry, its cache and the verifications under way.    *)
(***************************************************************************)
\* Whichever slot is evicted and however long a lookup takes.
LEMMA CredentialTypes == K!CredentialAssumption => (K!Spec => []K!TypeOK)
<1> SUFFICES ASSUME K!CredentialAssumption PROVE K!Spec => []K!TypeOK
  OBVIOUS
<1>1. K!Init => K!TypeOK
  BY DEF K!Init, K!TypeOK, K!Idle
<1>2. K!TypeOK /\ [K!Next]_K!vars => K!TypeOK'
  <2> SUFFICES ASSUME K!TypeOK, [K!Next]_K!vars PROVE K!TypeOK'
    OBVIOUS
  <2> USE DEF K!TypeOK, K!slots, K!history, K!Idle, K!Request
  <2>1. ASSUME NEW k \in Kid, K!Hits(k) PROVE K!TypeOK'
    BY <2>1 DEF K!Hits, K!TtlAfterHit
  <2>2. ASSUME NEW k \in Kid, K!Issues(k) PROVE K!TypeOK'
    BY <2>2 DEF K!Issues
  <2>3. ASSUME NEW k \in Kid, K!RevokeCommits(k) PROVE K!TypeOK'
    BY <2>3 DEF K!RevokeCommits
  <2>4. ASSUME NEW k \in Kid, K!RevokeReturns(k) PROVE K!TypeOK'
    BY <2>4 DEF K!RevokeReturns, K!KeptAfter
  <2>5. ASSUME NEW k \in Kid, K!RevokeIsLost(k) PROVE K!TypeOK'
    BY <2>5 DEF K!RevokeIsLost
  <2>6. ASSUME NEW l \in Lookup, K!Reads(l) PROVE K!TypeOK'
    BY <2>6 DEF K!Reads
  <2>7. ASSUME NEW l \in Lookup, K!ReadFails(l) PROVE K!TypeOK'
    BY <2>7 DEF K!ReadFails
  <2>8. ASSUME NEW l \in Lookup, K!Caches(l) PROVE K!TypeOK'
    BY <2>8 DEF K!Caches, K!CredentialAssumption
  <2>9. ASSUME NEW l \in Lookup, NEW k \in Kid, K!Misses(l, k) PROVE K!TypeOK'
    BY <2>9 DEF K!Misses
  <2>10. CASE K!Ticks
    BY <2>10 DEF K!Ticks
  <2>11. CASE UNCHANGED K!vars
    BY <2>11 DEF K!vars
  <2> QED
    BY <2>1, <2>2, <2>3, <2>4, <2>5, <2>6, <2>7, <2>8, <2>9, <2>10, <2>11 DEF K!Next
<1> QED
  BY <1>1, <1>2, PTL DEF K!Spec

(***************************************************************************)
(* The strengthening: a revocation that has returned leaves the key's row  *)
(* neither in the cache nor in the hands of a verification, but for the    *)
(* two cases the history names.                                            *)
(***************************************************************************)
Excused(k) == k \in unanswered \cup straddled

Forgotten(k) ==
  /\ ~(k \in cached /\ found[k])
  /\ \A l \in Lookup : ~(lookup[l].at = "read" /\ lookup[l].kid = k /\ lookup[l].live)

AllForgotten ==
  \A k \in Kid : row[k] = "revoked" /\ k \notin revoking /\ ~Excused(k) => Forgotten(k)

\* Inductive with the types.
LEMMA RevocationHolds == K!CredentialAssumption => (K!Spec => []K!RevokedIsRefused)
<1> SUFFICES ASSUME K!CredentialAssumption PROVE K!Spec => []K!RevokedIsRefused
  OBVIOUS
<1>1. K!Init => AllForgotten
  BY DEF K!Init, AllForgotten, Forgotten, Excused
<1>2. K!TypeOK /\ AllForgotten /\ [K!Next]_K!vars => AllForgotten'
  <2> SUFFICES ASSUME K!TypeOK, AllForgotten, [K!Next]_K!vars,
                      NEW k \in Kid, row'[k] = "revoked", k \notin revoking', ~Excused(k)'
               PROVE Forgotten(k)'
    BY DEF AllForgotten
  <2> USE DEF AllForgotten, Forgotten, Excused, K!slots, K!history, K!Idle, K!Request
  <2>0. row[k] = "revoked" /\ k \notin revoking /\ ~Excused(k) => Forgotten(k)
    OBVIOUS
  <2>1. ASSUME NEW j \in Kid, K!Hits(j) PROVE Forgotten(k)'
    BY <2>0, <2>1 DEF K!Hits
  <2>2. ASSUME NEW j \in Kid, K!Issues(j) PROVE Forgotten(k)'
    BY <2>0, <2>2 DEF K!Issues, K!TypeOK
  <2>3. ASSUME NEW j \in Kid, K!RevokeCommits(j) PROVE Forgotten(k)'
    BY <2>0, <2>3 DEF K!RevokeCommits, K!TypeOK
  <2>4. ASSUME NEW j \in Kid, K!RevokeReturns(j) PROVE Forgotten(k)'
    BY <2>0, <2>4 DEF K!RevokeReturns, K!KeptAfter
  <2>5. ASSUME NEW j \in Kid, K!RevokeIsLost(j) PROVE Forgotten(k)'
    BY <2>0, <2>5 DEF K!RevokeIsLost
  <2>6. ASSUME NEW l \in Lookup, K!Reads(l) PROVE Forgotten(k)'
    BY <2>0, <2>6 DEF K!Reads, K!TypeOK
  <2>7. ASSUME NEW l \in Lookup, K!ReadFails(l) PROVE Forgotten(k)'
    BY <2>0, <2>7 DEF K!ReadFails, K!TypeOK
  <2>8. ASSUME NEW l \in Lookup, K!Caches(l) PROVE Forgotten(k)'
    <3>1. Forgotten(k)
      BY <2>0, <2>8 DEF K!Caches
    <3>2. lookup[l].kid = k => ~lookup[l].live
      BY <3>1, <2>8 DEF K!Caches
    <3> QED
      BY <3>1, <3>2, <2>8 DEF K!Caches, K!TypeOK, K!Evicted
  <2>9. ASSUME NEW l \in Lookup, NEW j \in Kid, K!Misses(l, j) PROVE Forgotten(k)'
    BY <2>0, <2>9 DEF K!Misses, K!TypeOK
  <2>10. CASE K!Ticks
    BY <2>0, <2>10 DEF K!Ticks
  <2>11. CASE UNCHANGED K!vars
    BY <2>0, <2>11 DEF K!vars
  <2> QED
    BY <2>1, <2>2, <2>3, <2>4, <2>5, <2>6, <2>7, <2>8, <2>9, <2>10, <2>11 DEF K!Next
<1>3. AllForgotten => K!RevokedIsRefused
  BY DEF AllForgotten, Forgotten, Excused, K!RevokedIsRefused, K!Admits
<1> QED
  BY <1>1, <1>2, <1>3, CredentialTypes, PTL DEF K!Spec

LEMMA CredentialIsSpec == Spec => K!Spec
<1>1. (Init => K!Init) /\ ([Next]_deskVars => [K!Next]_K!vars)
  BY CredentialSteps
<1> QED
  BY <1>1, PTL DEF Spec, K!Spec, deskVars

\* Once a revocation has returned, the key is refused from then on, whatever is
\* cached, evicted or looked up for other keys meanwhile.
THEOREM TokenIsRefused == Spec => []RevokedIsRefused
<1>1. K!Spec => []K!RevokedIsRefused
  BY DeskAssumption, RevocationHolds
<1>2. K!RevokedIsRefused <=> RevokedIsRefused
  BY DEF RevokedIsRefused
<1> QED
  BY <1>1, <1>2, CredentialIsSpec, PTL

(***************************************************************************)
(* Boot.                                                                   *)
(***************************************************************************)
LEMMA BootIsSpec == Spec => B!Spec
<1>1. (Init => B!Init) /\ ([Next]_deskVars => [B!Next]_B!vars)
  BY BootSteps
<1> QED
  BY <1>1, PTL DEF Spec, B!Spec, deskVars

\* A machine that is reported ready, or was claimed, has all that its host needs to
\* start, whatever its script was cut off at.
THEOREM SoldMachinesStart == Spec => []ReadyCanStart
<1>1. B!Spec => []B!ReadyCanStart
  BY DeskAssumption, B!SoldMachinesStart
<1>2. B!ReadyCanStart <=> ReadyCanStart
  BY DEF ReadyCanStart
<1> QED
  BY <1>1, <1>2, BootIsSpec, PTL

\* A download that is gone on with is gone on with from the build it began with.
THEOREM PartialsAreOfOneBuild == Spec => []NoMixedBuild
<1>1. B!Spec => []B!NoMixedBuild
  BY DeskAssumption, B!PartialsAreOfOneBuild
<1>2. B!NoMixedBuild <=> NoMixedBuild
  BY DEF NoMixedBuild
<1> QED
  BY <1>1, <1>2, BootIsSpec, PTL

(***************************************************************************)
(* The types of all five.                                                  *)
(***************************************************************************)
LEMMA CloudIsSpec == Spec => C!Spec
<1>1. (Init => C!Init) /\ ([Next]_deskVars => [C!Next]_C!vars)
  BY DEF Init, Next, deskVars, cloudVars, C!vars, C!rows, C!cloud, C!history
<1> QED
  BY <1>1, PTL DEF Spec, C!Spec, deskVars

LEMMA ShelfIsSpec == Spec => S!Spec
<1>1. (Init => S!Init) /\ ([Next]_deskVars => [S!Next]_S!vars)
  BY DEF Init, Next, deskVars, shelfVars, S!vars, S!table, S!cloud, S!people, S!builds,
         S!sweep, S!memory
<1> QED
  BY <1>1, PTL DEF Spec, S!Spec, deskVars

\* Whatever tabs, triggers, builds, keys, requests and machines there are, every part
\* of the desk keeps its types.
THEOREM DeskTypes == Spec => []TypeOK
<1>1. Spec => []A!TypeOK
  BY AwakeHolds, PTL
<1>2. Spec => []B!TypeOK
  <2>1. B!Spec => []B!TypeOK
    BY DeskAssumption, B!BootTypes
  <2> QED
    BY <2>1, BootIsSpec, PTL
<1>3. Spec => []K!TypeOK
  <2>1. K!Spec => []K!TypeOK
    BY DeskAssumption, CredentialTypes
  <2> QED
    BY <2>1, CredentialIsSpec, PTL
<1>4. Spec => []C!TypeOK
  <2>1. C!Spec => []C!TypeOK
    BY DeskAssumption, C!CloudTypes
  <2> QED
    BY <2>1, CloudIsSpec, PTL
<1>5. Spec => []S!TypeOK
  <2>1. S!Spec => []S!TypeOK
    BY DeskAssumption, S!ShelfTypes
  <2> QED
    BY <2>1, ShelfIsSpec, PTL
<1>6. A!TypeOK /\ B!TypeOK /\ K!TypeOK /\ C!TypeOK /\ S!TypeOK <=> TypeOK
  BY DEF TypeOK
<1> QED
  BY <1>1, <1>2, <1>3, <1>4, <1>5, <1>6, PTL
=============================================================================
