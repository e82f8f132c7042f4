------------------------------ MODULE Linking ------------------------------
(***************************************************************************)
(* Linking a device to an account: LinkStore (src/link-store.ts),          *)
(* /api/link/approve (src/server.ts) and countMachines (src/limits.ts).    *)
(* An extension starts a link and polls it, a person approves it, in as    *)
(* many tabs as they like, with a plan or without one.  Of the account's   *)
(* cloud machine (Cloud) it has what the count sees: its device, and       *)
(* whether the environments table has a row for it.                        *)
(***************************************************************************)
EXTENDS Naturals, FiniteSets

CONSTANTS
  Machine,     \* computers
  NoInstall,   \* an extension too old to say which install it is
  Code,        \* link codes; one is never made twice
  Device,      \* devices the account is ever issued
  NoDevice,    \* no device
  Approval,    \* bound: approvals under way at a time
  Limit        \* freeTier.devices; without a free tier, 0

\* What the constants are assumed to be.
LinkingAssumption ==
  /\ IsFiniteSet(Device) /\ Limit \in Nat
  /\ NoInstall \notin Machine \X {"editor", "desktop"}
  /\ NoDevice \notin Device

\* <machine> and <machine>:desktop
Install == Machine \X {"editor", "desktop"}

VARIABLES
  row,         \* the devices table: "unused", "live" or "revoked"
  install,     \* the install each device was issued to
  link,        \* LinkStore: per code its status and install
  approval,    \* how far each approval has got
  listed,      \* devices that the environments table names
  opening,     \* the device of an open that has not written its environment yet
  clouds,      \* history: devices issued for the cloud
  overlapped,  \* history: two approvals have been under way at once
  stripped     \* history: of the refusals that had superseded a device, what each counted

cloud == <<listed, opening, clouds>>
vars == <<row, install, link, approval, cloud, overlapped, stripped>>

Live == {d \in Device : row[d] = "live"}

Idle == [at |-> "idle"]
At(a, step) == approval[a].at = step
Ends(a) == approval' = [approval EXCEPT ![a] = Idle]
InstallOf(a) == link[approval[a].code].install

Individuals(ds) == {d \in ds : install[d] = NoInstall}
MachinesOf(installs) == {i[1] : i \in installs}

\* How many machines a set of devices is.
MachinesIn(ds) ==
  Cardinality(Individuals(ds)) + Cardinality(MachinesOf({install[d] : d \in ds} \ {NoInstall}))

\* countMachines of the devices ds and one more, with install new.
CountMachines(ds, new) ==
  LET installs == {install[d] : d \in ds} \cup {new}
  IN IF \A i \in installs \ {NoInstall} : i[2] # "desktop"
     THEN Cardinality(ds) + 1
     ELSE Cardinality(Individuals(ds)) + (IF new = NoInstall THEN 1 ELSE 0)
          + Cardinality(MachinesOf(installs \ {NoInstall}))

(***************************************************************************)
(* The link store.                                                         *)
(***************************************************************************)
Starts(c, i) ==
  /\ link[c].status = "none"
  /\ link' = [link EXCEPT ![c] = [status |-> "pending", install |-> i]]
  /\ UNCHANGED <<row, install, approval, cloud, overlapped, stripped>>

\* Ten minutes after its start, approved or not.
Expires(c) ==
  /\ link[c].status \in {"pending", "approved"}
  /\ link' = [link EXCEPT ![c].status = "expired"]
  /\ UNCHANGED <<row, install, approval, cloud, overlapped, stripped>>

(***************************************************************************)
(* /api/link/approve                                                       *)
(***************************************************************************)
\* Where an approval goes once nothing is left to supersede: the limit is asked of
\* those without a plan.
Onward(entitled) == IF entitled THEN "issue" ELSE "own"

\* The code is pending.  The session says, once, whether the person has a plan: it may
\* have lapsed since the last link.  The install decides what comes first.
Begins(a, c, entitled) ==
  /\ approval[a] = Idle
  /\ link[c].status = "pending"
  /\ approval' = [approval EXCEPT ![a] =
       [at |-> IF link[c].install = NoInstall THEN Onward(entitled) ELSE "list",
        code |-> c, entitled |-> entitled, over |-> MachinesIn(Live \ clouds) > Limit,
        old |-> {}, superseded |-> FALSE, owned |-> {}]]
  /\ overlapped' = (overlapped \/ \E b \in Approval \ {a} : approval[b] # Idle)
  /\ UNCHANGED <<row, install, link, cloud, stripped>>

\* Mutant: nothing is superseded.
SameInstallNone(i) == {}

\* Live devices of the account with this install.
SameInstall(i) == {d \in Live : install[d] = i}

Lists(a) ==
  /\ At(a, "list")
  /\ LET old == SameInstall(InstallOf(a))
     IN approval' = [approval EXCEPT
          ![a].at = IF old = {} THEN Onward(approval[a].entitled) ELSE "revoke", ![a].old = old]
  /\ UNCHANGED <<row, install, link, cloud, overlapped, stripped>>

\* One after the other; each may be gone already.
Supersedes(a, d) ==
  /\ At(a, "revoke") /\ d \in approval[a].old
  /\ row' = [row EXCEPT ![d] = "revoked"]
  /\ approval' = [approval EXCEPT
       ![a].at = IF approval[a].old = {d} THEN Onward(approval[a].entitled) ELSE "revoke",
       ![a].old = approval[a].old \ {d}, ![a].superseded = TRUE]
  /\ UNCHANGED <<install, link, cloud, overlapped, stripped>>

\* The devices of the account are listed,
Owns(a) ==
  /\ At(a, "own")
  /\ approval' = [approval EXCEPT ![a].at = "count", ![a].owned = Live]
  /\ UNCHANGED <<row, install, link, cloud, overlapped, stripped>>

\* and then its environments, whose devices do not count.  Where these cannot be
\* listed there are none, and the cloud's device counts like any other.
Countable(a, known) == approval[a].owned \ (IF known THEN listed ELSE {})

\* Mutants: the new device is not counted; a superseded one still is.
OwnedBefore(a, known) == CountMachines(Countable(a, known), InstallOf(a)) - 1

OwnedWithOld(a, known) ==
  CountMachines(Countable(a, known), InstallOf(a)) + (IF approval[a].superseded THEN 1 ELSE 0)

\* The account's machines with the new one.
Owned(a, known) == CountMachines(Countable(a, known), InstallOf(a))

\* What a refusal counted: a device of the cloud; machines of a plan that has lapsed,
\* more than the limit when the approval began; or neither.
Ground(a, known) ==
  IF Countable(a, known) \cap clouds # {} THEN "cloud" ELSE IF approval[a].over THEN "over" ELSE "none"

Counts(a, known) ==
  /\ At(a, "count")
  /\ IF Owned(a, known) > Limit
     THEN /\ Ends(a)
          /\ stripped' = IF approval[a].superseded THEN stripped \cup {Ground(a, known)} ELSE stripped
     ELSE approval' = [approval EXCEPT ![a].at = "issue"] /\ UNCHANGED stripped
  /\ UNCHANGED <<row, install, link, cloud, overlapped>>

\* devices.issue, then store.approve, whose answer is not asked for: a link that
\* is approved already gets the new token, one that expired gets none.
Issues(a, d, answered) ==
  /\ At(a, "issue")
  /\ row[d] = "unused"
  /\ row' = [row EXCEPT ![d] = "live"]
  /\ LET c == approval[a].code
     IN /\ install' = [install EXCEPT ![d] = link[c].install]
        /\ IF answered /\ link[c].status \in {"pending", "approved"}
           THEN link' = [link EXCEPT ![c].status = "approved"]
           ELSE UNCHANGED link
  /\ Ends(a)
  /\ UNCHANGED <<cloud, overlapped, stripped>>

\* A call fails: 500, with what was done done.
Fails(a) ==
  /\ approval[a] # Idle
  /\ Ends(a)
  /\ UNCHANGED <<row, install, link, cloud, overlapped, stripped>>

(***************************************************************************)
(* The cloud's device.                                                     *)
(***************************************************************************)
\* An open that found no environment issues the device of its machine, which has no
\* install; one open is under way at a time.
CloudIssues(d) ==
  /\ opening = NoDevice /\ listed = {}
  /\ row[d] = "unused"
  /\ row' = [row EXCEPT ![d] = "live"]
  /\ opening' = d /\ clouds' = clouds \cup {d}
  /\ UNCHANGED <<install, link, approval, listed, overlapped, stripped>>

\* Then the environment is written,
CloudLists ==
  /\ opening # NoDevice
  /\ listed' = listed \cup {opening} /\ opening' = NoDevice
  /\ UNCHANGED <<row, install, link, approval, clouds, overlapped, stripped>>

\* or the call fails, and the device stays.
CloudFails ==
  /\ opening # NoDevice
  /\ opening' = NoDevice
  /\ UNCHANGED <<row, install, link, approval, listed, clouds, overlapped, stripped>>

\* A reset revokes the device and then removes the environment.
ResetRevokes(d) ==
  /\ d \in listed /\ row[d] = "live"
  /\ row' = [row EXCEPT ![d] = "revoked"]
  /\ UNCHANGED <<install, link, approval, cloud, overlapped, stripped>>

ResetRemoves(d) ==
  /\ d \in listed /\ row[d] = "revoked"
  /\ listed' = listed \ {d}
  /\ UNCHANGED <<row, install, link, approval, opening, clouds, overlapped, stripped>>

(***************************************************************************)
(* The rest.                                                               *)
(***************************************************************************)
\* The person removes a device, or the extension signs out; one with an environment is
\* refused.  An environment written between the look and the revocation is as one
\* written after both.
Deletes(d) ==
  /\ row[d] = "live" /\ d \notin listed
  /\ row' = [row EXCEPT ![d] = "revoked"]
  /\ UNCHANGED <<install, link, approval, cloud, overlapped, stripped>>

\* The relay restarts and knows no links.
Crashes ==
  /\ link' = [c \in Code |-> IF link[c].status = "none" THEN link[c]
                             ELSE [link[c] EXCEPT !.status = "expired"]]
  /\ approval' = [a \in Approval |-> Idle]
  /\ opening' = NoDevice
  /\ UNCHANGED <<row, install, listed, clouds, overlapped, stripped>>

Init ==
  /\ row = [d \in Device |-> "unused"] /\ install = [d \in Device |-> NoInstall]
  /\ link = [c \in Code |-> [status |-> "none", install |-> NoInstall]]
  /\ approval = [a \in Approval |-> Idle]
  /\ listed = {} /\ opening = NoDevice /\ clouds = {}
  /\ overlapped = FALSE /\ stripped = {}

Next ==
  \/ \E c \in Code : Expires(c) \/ \E i \in Install \cup {NoInstall} : Starts(c, i)
  \/ \E a \in Approval :
       \/ Lists(a) \/ Owns(a) \/ Fails(a)
       \/ \E c \in Code, entitled \in BOOLEAN : Begins(a, c, entitled)
       \/ \E d \in Device : Supersedes(a, d) \/ \E answered \in BOOLEAN : Issues(a, d, answered)
       \/ \E known \in BOOLEAN : Counts(a, known)
  \/ \E d \in Device : CloudIssues(d) \/ ResetRevokes(d) \/ ResetRemoves(d) \/ Deletes(d)
  \/ CloudLists \/ CloudFails
  \/ Crashes

Spec == Init /\ [][Next]_vars

LinkRecord ==
  [status : {"none", "pending", "approved", "expired"},
   install : Install \cup {NoInstall}]

Working ==
  [at : {"list", "revoke", "own", "count", "issue"}, code : Code,
   entitled : BOOLEAN, over : BOOLEAN,
   old : SUBSET Device, superseded : BOOLEAN, owned : SUBSET Device]

TypeOK ==
  /\ row \in [Device -> {"unused", "live", "revoked"}]
  /\ install \in [Device -> Install \cup {NoInstall}]
  /\ link \in [Code -> LinkRecord]
  /\ approval \in [Approval -> {Idle} \cup Working]
  /\ listed \subseteq Device /\ opening \in Device \cup {NoDevice} /\ clouds \subseteq Device
  /\ overlapped \in BOOLEAN /\ stripped \subseteq {"cloud", "over", "none"}

(***************************************************************************)
(* Properties.                                                             *)
(***************************************************************************)
\* An approval without a plan leaves the account no more machines than its limit allows,
\* the cloud's apart, whatever was linked with a plan, linked again, removed or lost
\* half way before, as long as no two approvals were ever under way at once.
LimitHolds ==
  [][\A a \in Approval :
       At(a, "issue") /\ ~approval[a].entitled /\ approval'[a] = Idle /\ row' # row =>
         overlapped \/ MachinesIn(Live \ clouds)' <= Limit]_vars

\* An install that says which it is has one live device, with the same exception.
InstallIsOne ==
  overlapped \/ \A d, e \in Live : install[d] = install[e] /\ install[d] # NoInstall => d = e

\* What server.ts:827-836 means to prevent: that linking a machine again ends at the
\* limit, here with the machine's device already revoked.
RelinkIsFree == overlapped \/ stripped = {}

\* A refusal at the limit that has revoked the device it was to replace counted a device
\* of the cloud, issued before its environment was written, or not found among the
\* environments; or the account was over its limit when the approval began.
RefusedRelinkIsExcused == overlapped \/ "none" \notin stripped
=============================================================================
