----------------------------- MODULE MCAccount -----------------------------
(***************************************************************************)
(* Four parts of the relay that share no state, side by side, for TLC: an  *)
(* account's cloud machine (Cloud), the devices it links (Linking), the    *)
(* update feed (Feed) and the shelf of ready machines (Shelf).  Linking    *)
(* has a cloud device of its own, of which it knows what countMachines     *)
(* sees, and Cloud a shelf of its own, which only claims touch.  A         *)
(* behaviour is one of a single part: part says of which.                  *)
(***************************************************************************)
EXTENDS Naturals, FiniteSets, TLC

CONSTANTS Pooled, Own, Device, Nobody, Open, Reset
CONSTANTS Computer, NoInstall, Code, Linked, NoDevice, Approval, Limit
CONSTANTS Versions, MaxCandidates, Ttl
CONSTANTS Spare, Filler, Target, MaxPerSweep, MaxCrashes, LostAnswers, LateReports

VARIABLES machine, pool, device, env, identity, code, open, reset, job, removing,
          condemned, ghosts, raced
VARIABLES row, install, link, approval, listed, opening, clouds, overlapped, stripped
VARIABLES state, since, known, list, listAge, listing, entry, entryAge, backoff,
          flight, todo, erred, outdated
VARIABLES shelfRow, aged, shelfMachine, shelfInstall, reports, given, mishap, build, owner,
          pc, asOf, shelfTodo, victim, seen, holds, bad, crashes
VARIABLE part

cloudVars == <<machine, pool, device, env, identity, code, open, reset, job, removing,
               condemned, ghosts, raced>>
linkVars == <<row, install, link, approval, listed, opening, clouds, overlapped, stripped>>
feedVars == <<state, since, known, list, listAge, listing, entry, entryAge, backoff,
              flight, todo, erred, outdated>>
shelfVars == <<shelfRow, aged, shelfMachine, shelfInstall, reports, given, mishap, build, owner,
               pc, asOf, shelfTodo, victim, seen, holds, bad, crashes>>

C == INSTANCE CloudProofs
L == INSTANCE LinkingProofs WITH Machine <- Computer, Device <- Linked
F == INSTANCE Feed WITH Releases <- Versions
S == INSTANCE ShelfProofs
  WITH Machine <- Spare, row <- shelfRow, machine <- shelfMachine, install <- shelfInstall,
       job <- build, todo <- shelfTodo

\* What the parts assume of their constants.
ASSUME AccountAssumption ==
  /\ C!CloudAssumption /\ L!LinkingAssumption /\ F!FeedAssumption
  /\ S!ShelfAssumption

Init ==
  /\ C!Init /\ L!Init /\ F!Init /\ S!Init
  /\ part \in {"cloud", "linking", "feed", "shelf"}

Next ==
  /\ UNCHANGED part
  /\ \/ part = "cloud" /\ C!Next /\ UNCHANGED <<linkVars, feedVars, shelfVars>>
     \/ part = "linking" /\ L!Next /\ UNCHANGED <<cloudVars, feedVars, shelfVars>>
     \/ part = "feed" /\ F!Next /\ UNCHANGED <<cloudVars, linkVars, shelfVars>>
     \/ part = "shelf" /\ S!Next /\ UNCHANGED <<cloudVars, linkVars, feedVars>>

Spec == Init /\ [][Next]_<<cloudVars, linkVars, feedVars, shelfVars, part>>

\* The parts are given the same model values for sets of the same size, which keeps
\* the group small: Linked = Spare = Device, Approval = Open, Code = Reset.
Symmetric ==
  Permutations(Pooled) \cup Permutations(Device) \cup Permutations(Open)
    \cup Permutations(Reset)

\* The properties of Linking say nothing once two approvals have overlapped, and it is
\* not followed further.
NoOverlap == ~overlapped

\* The properties of Cloud, which says what each is about.
OneEnvironment == C!OneEnvironment
NothingUnnamed == C!NothingUnnamed
NoGhostDevice == C!NoGhostDevice
StandsUntilReset == C!StandsUntilReset
IdentityIsOwners == C!IdentityIsOwners

\* The properties of Linking.
LimitHolds == L!LimitHolds
InstallIsOne == L!InstallIsOne
RefusedRelinkIsExcused == L!RefusedRelinkIsExcused

\* The properties of Feed.
PulledIsGone == F!PulledIsGone

\* The properties of Shelf.
GivenIsOffShelf == S!GivenIsOffShelf
BuildsBounded == S!BuildsBounded
FailedIsGone == S!FailedIsGone
TableIsTrue == S!TableIsTrue
=============================================================================
