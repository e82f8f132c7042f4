------------------------------- MODULE MCDesk -------------------------------
(***************************************************************************)
(* Five parts of the relay that share no state, side by side, for TLC: a   *)
(* machine kept awake (Awake), its boot script (Boot), the verification of *)
(* a token (Credential) and, for their liveness, the account's cloud       *)
(* machine (Cloud) and the shelf (Shelf).  A behaviour is one of a single  *)
(* part: part says of which, and the fairness a liveness property needs is *)
(* that of its part.                                                       *)
(***************************************************************************)
EXTENDS Naturals, FiniteSets

CONSTANTS Tab, Trigger                                        \* Awake
CONSTANTS Builds                                              \* Boot
CONSTANTS Kid, Lookup, Ttl, NegTtl, MaxEntries                \* Credential
CONSTANTS Pooled, Own, Device, Nobody, Open, Reset            \* Cloud
CONSTANTS Spare, Filler, Target, MaxPerSweep, MaxCrashes, LostAnswers, LateReports  \* Shelf

VARIABLES machine, uplink, target, recent, held, tabs, present, trigger, calls,
          wakeAt, sweep, letgo
VARIABLES latest, at, asset, root, old, parts, whole, unpacked, partialOf, record, kind,
          checked, installed, claimed, ordered, reported
VARIABLES row, cached, found, ttl, lookup, revoking, unanswered, straddled
VARIABLES provider, pool, device, env, identity, code, open, reset, job, removing,
          condemned, ghosts, raced
VARIABLES shelfRow, aged, shelfMachine, install, reports, given, mishap, build, owner,
          pc, asOf, todo, victim, seen, holds, bad, crashes
VARIABLE part

awakeVars == <<machine, uplink, target, recent, held, tabs, present, trigger, calls,
               wakeAt, sweep, letgo>>
bootVars == <<latest, at, asset, root, old, parts, whole, unpacked, partialOf, record, kind,
              checked, installed, claimed, ordered, reported>>
credentialVars == <<row, cached, found, ttl, lookup, revoking, unanswered, straddled>>
cloudVars == <<provider, pool, device, env, identity, code, open, reset, job, removing,
               condemned, ghosts, raced>>
shelfVars == <<shelfRow, aged, shelfMachine, install, reports, given, mishap, build, owner,
               pc, asOf, todo, victim, seen, holds, bad, crashes>>

A == INSTANCE Awake
B == INSTANCE BootProofs
K == INSTANCE Credential
C == INSTANCE CloudProofs WITH machine <- provider
S == INSTANCE ShelfProofs WITH Machine <- Spare, row <- shelfRow, machine <- shelfMachine, job <- build

\* What the parts assume of their constants.
ASSUME DeskAssumption ==
  /\ B!BootAssumption /\ K!CredentialAssumption /\ C!CloudAssumption
  /\ S!ShelfAssumption

Init ==
  /\ A!Init /\ B!Init /\ K!Init /\ C!Init /\ S!Init
  /\ part \in {"awake", "boot", "credential", "cloud", "shelf"}
  /\ part # "boot" => latest = 0 /\ ordered

Next ==
  /\ UNCHANGED part
  /\ \/ /\ part = "awake" /\ A!Next
        /\ UNCHANGED <<bootVars, credentialVars, cloudVars, shelfVars>>
     \/ /\ part = "boot" /\ B!Next
        /\ UNCHANGED <<awakeVars, credentialVars, cloudVars, shelfVars>>
     \/ /\ part = "credential" /\ K!Next
        /\ UNCHANGED <<awakeVars, bootVars, cloudVars, shelfVars>>
     \/ /\ part = "cloud" /\ C!Next
        /\ UNCHANGED <<awakeVars, bootVars, credentialVars, shelfVars>>
     \/ /\ part = "shelf" /\ S!Next
        /\ UNCHANGED <<awakeVars, bootVars, credentialVars, cloudVars>>

Spec ==
  Init /\ [][Next]_<<awakeVars, bootVars, credentialVars, cloudVars, shelfVars, part>>

\* Every part keeps its types.
TypeOK == A!TypeOK /\ B!TypeOK /\ K!TypeOK /\ C!TypeOK /\ S!TypeOK

\* The properties of Awake, which says what each is about.
OneWake == A!OneWake
WorkIsHeld == A!WorkIsHeld
Reachable == part = "awake" /\ A!Fairness => A!Reachable
HoldsLapse == part = "awake" /\ A!Fairness => A!HoldsLapse

\* The properties of Boot.
ReadyCanStart == B!ReadyCanStart
NoMixedBuild == B!NoMixedBuild
UpdatesArrive == part = "boot" /\ B!Fairness => B!UpdatesArrive
HostIsNeverLost == B!HostIsNeverLost

\* The properties of Credential.
RevokedIsRefused == K!RevokedIsRefused
RefusedInTheEnd == part = "credential" /\ K!Fairness => K!RefusedInTheEnd

\* The liveness of Cloud.
ResetSucceeds == part = "cloud" /\ C!Fairness => C!ResetSucceeds

\* The liveness of Shelf.
StaleIsSettled == part = "shelf" /\ S!Fairness => S!StaleIsSettled
HoldsEnd == part = "shelf" /\ S!Fairness => S!HoldsEnd
InstallIsHeld == part = "shelf" /\ S!Fairness => S!InstallIsHeld
=============================================================================
