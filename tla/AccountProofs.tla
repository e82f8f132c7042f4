---------------------------- MODULE AccountProofs ----------------------------
(***************************************************************************)
(* Proofs of the properties that the run of MCAccount checks, for every    *)
(* value of the constants.  A step of the account is a step of one part,   *)
(* and a step or a stutter of each, so that each part's theorem, proved in *)
(* its own module, or below for the feed, holds of the whole.              *)
(***************************************************************************)
EXTENDS MCAccount, FiniteSetTheorems, TLAPS

accountVars == <<cloudVars, linkVars, feedVars, shelfVars, part>>

(***************************************************************************)
(* The parts.                                                              *)
(***************************************************************************)
LEMMA CloudIsSpec == Spec => C!Spec
<1>1. Init => C!Init
  BY DEF Init
<1>2. [Next]_accountVars => [C!Next]_C!vars
  BY DEF Next, accountVars, cloudVars, C!vars, C!rows, C!cloud, C!history
<1> QED
  BY <1>1, <1>2, PTL DEF Spec, C!Spec, accountVars

LEMMA LinkingIsSpec == Spec => L!Spec
<1>1. Init => L!Init
  BY DEF Init
<1>2. [Next]_accountVars => [L!Next]_L!vars
  BY DEF Next, accountVars, linkVars, L!vars, L!cloud
<1> QED
  BY <1>1, <1>2, PTL DEF Spec, L!Spec, accountVars

LEMMA FeedIsSpec == Spec => F!Spec
<1>1. Init => F!Init
  BY DEF Init
<1>2. [Next]_accountVars => [F!Next]_F!vars
  BY DEF Next, accountVars, feedVars, F!vars, F!github, F!lists, F!feed, F!walk
<1> QED
  BY <1>1, <1>2, PTL DEF Spec, F!Spec, accountVars

LEMMA ShelfIsSpec == Spec => S!Spec
<1>1. Init => S!Init
  BY DEF Init
<1>2. [Next]_accountVars => [S!Next]_S!vars
  BY DEF Next, accountVars, shelfVars, S!vars, S!table, S!cloud, S!people, S!builds,
         S!sweep, S!memory
<1> QED
  BY <1>1, <1>2, PTL DEF Spec, S!Spec, accountVars

(***************************************************************************)
(* Cloud.                                                                  *)
(***************************************************************************)
\* An account has one environment, however many open requests, resets and crashes
\* there are.
THEOREM EnvironmentIsOne == Spec => []OneEnvironment
<1>1. C!Spec => []C!OneEnvironment
  BY AccountAssumption, C!EnvironmentIsOne
<1>2. C!OneEnvironment <=> OneEnvironment
  BY DEF OneEnvironment
<1> QED
  BY <1>1, <1>2, CloudIsSpec, PTL

\* A pooled machine that left the shelf's table is named by the row of an
\* environment, until that one is reset.
THEOREM NothingIsUnnamed == Spec => []NothingUnnamed
<1>1. C!Spec => []C!NothingUnnamed
  BY AccountAssumption, C!NothingIsUnnamed
<1>2. C!NothingUnnamed <=> NothingUnnamed
  BY DEF NothingUnnamed
<1> QED
  BY <1>1, <1>2, CloudIsSpec, PTL

\* A live device of the cloud has an environment, is about to get one, or is left over
\* from an open that failed just then.
THEOREM NoDeviceIsAGhost == Spec => []NoGhostDevice
<1>1. C!Spec => []C!NoGhostDevice
  BY AccountAssumption, C!NoDeviceIsAGhost
<1>2. C!NoGhostDevice <=> NoGhostDevice
  BY DEF NoGhostDevice
<1> QED
  BY <1>1, <1>2, CloudIsSpec, PTL

\* An environment on a pooled machine keeps its machine and its device until somebody
\* resets it, unless a removal looked before the environment was written.
THEOREM EnvironmentStands == Spec => []StandsUntilReset
<1>1. C!Spec => []C!StandsUntilReset
  BY AccountAssumption, C!EnvironmentStands
<1>2. C!StandsUntilReset <=> StandsUntilReset
  BY DEF StandsUntilReset
<1> QED
  BY <1>1, <1>2, CloudIsSpec, PTL

\* The identity on a pooled machine is that of the environment which names it.
THEOREM OwnersIdentity == Spec => []IdentityIsOwners
<1>1. C!Spec => []C!IdentityIsOwners
  BY AccountAssumption, C!OwnersIdentity
<1>2. C!IdentityIsOwners <=> IdentityIsOwners
  BY DEF IdentityIsOwners
<1> QED
  BY <1>1, <1>2, CloudIsSpec, PTL

(***************************************************************************)
(* Linking.                                                                *)
(***************************************************************************)
\* What is issued without a plan leaves the account no more machines than its limit,
\* the cloud's apart, unless two approvals overlapped.
THEOREM LimitIsKept == Spec => LimitHolds
<1>1. L!Spec => L!LimitHolds
  BY AccountAssumption, L!LimitIsKept
<1>2. L!LimitHolds <=> LimitHolds
  BY DEF LimitHolds
<1> QED
  BY <1>1, <1>2, LinkingIsSpec, PTL

\* An install has one live device, unless two approvals overlapped.
THEOREM InstallsAreOne == Spec => []InstallIsOne
<1>1. L!Spec => []L!InstallIsOne
  BY AccountAssumption, L!InstallsAreOne
<1>2. L!InstallIsOne <=> InstallIsOne
  BY DEF InstallIsOne
<1> QED
  BY <1>1, <1>2, LinkingIsSpec, PTL

\* A refusal at the limit that has revoked the device it was to replace counted a device
\* of the cloud, or the account was over its limit when the approval began, unless two
\* approvals overlapped.
THEOREM RefusalsAreExcused == Spec => []RefusedRelinkIsExcused
<1>1. L!Spec => []L!RefusedRelinkIsExcused
  BY AccountAssumption, L!RefusalsAreExcused
<1>2. L!RefusedRelinkIsExcused <=> RefusedRelinkIsExcused
  BY DEF RefusedRelinkIsExcused
<1> QED
  BY <1>1, <1>2, LinkingIsSpec, PTL

(***************************************************************************)
(* Feed, for any number of releases and candidates and any time to live:   *)
(* how old what the relay serves can be.  A refresh makes an entry from a  *)
(* list, so the argument goes from the age of the list to that of the      *)
(* candidates of a walk, and from those to that of the entry.              *)
(***************************************************************************)
\* Near enough to the newest to be among the candidates of any walk.
Near(r) == Versions - r < MaxCandidates

\* A list misses nothing for longer than it is old, nor does it name a release
\* that was pulled before.
ListInv ==
  listAge < Ttl =>
    \A r \in F!Release :
      /\ r \in list /\ state[r] \in {"bare", "pulled"} => since[r] <= listAge
      /\ state[r] = "good" /\ since[r] > listAge => r \in list

\* A refresh under way has no fresh entry behind it; its candidates are those of
\* a list that was fresh, unless GitHub refused a new one.
WalkInv ==
  /\ flight # "idle" => entryAge = Ttl
  /\ flight = "walk" /\ ~outdated =>
       \A r \in F!Release :
         /\ r \in todo /\ state[r] = "bare" => since[r] < Ttl
         /\ state[r] = "good" /\ Near(r) /\ since[r] >= Ttl => erred \/ r \in todo

\* An entry was right when it was made, as far as its list was.
EntryInv ==
  F!EntryIsFresh =>
    /\ \A r \in F!Release : entry = r =>
         /\ state[r] = "pulled" => since[r] <= entryAge
         /\ state[r] = "bare" /\ ~outdated => since[r] < Ttl + entryAge
    /\ entry = F!NotFound /\ ~outdated =>
         \A r \in F!Release : state[r] = "good" /\ Near(r) => since[r] < Ttl + entryAge

FeedInv == F!TypeOK /\ ListInv /\ WalkInv /\ EntryInv

(***************************************************************************)
(* Types.                                                                  *)
(***************************************************************************)
LEMMA FeedInitIsTyped ==
  ASSUME F!FeedAssumption, F!Init
  PROVE  F!TypeOK
<1>1. Ttl \in 0..Ttl /\ 0 \in 0..2 * Ttl /\ 0 \in 0..Versions
  BY DEF F!FeedAssumption
<1> QED
  BY <1>1 DEF F!Init, F!TypeOK, F!NotFound

LEMMA WalkedIsTyped ==
  ASSUME NEW rs \in SUBSET F!Release
  PROVE  F!Walked(rs) \in SUBSET F!Release /\ F!Walked(rs) \subseteq rs
  BY DEF F!Walked

LEMMA FeedTypesStay ==
  ASSUME F!FeedAssumption, F!TypeOK, [F!Next]_F!vars
  PROVE  F!TypeOK'
<1> USE DEF F!TypeOK, F!vars, F!github, F!lists, F!feed, F!walk
<1>1. ASSUME NEW r \in F!Release, F!Publishes(r) \/ F!Pulls(r) \/ F!PullsInstallers(r)
      PROVE  F!TypeOK'
  <2>1. PICK s \in {"good", "bad", "bare", "pulled"} : F!Becomes(r, s)
    BY <1>1 DEF F!Publishes, F!Pulls, F!PullsInstallers
  <2>2. 0 \in 0..2 * Ttl
    BY DEF F!FeedAssumption
  <2> QED
    BY <2>1, <2>2 DEF F!Becomes
<1>2. ASSUME NEW r \in F!Release, F!WalkFinds(r) \/ F!WalkRejects(r) \/ F!WalkErrs(r) PROVE F!TypeOK'
  <2>1. 0 \in 0..Ttl /\ r \in 0..Versions
    BY DEF F!FeedAssumption, F!Release
  <2> QED
    BY <1>2, <2>1 DEF F!WalkFinds, F!WalkRejects, F!WalkErrs, F!Caches
<1>3. F!Candidates \in SUBSET F!Release
  BY DEF F!Candidates
<1>4. CASE F!ListArrives
  <2>1. outdated' \in BOOLEAN
    BY <1>4 DEF F!ListArrives
  <2>2. 0 \in 0..Ttl
    BY DEF F!FeedAssumption
  <2> QED
    BY <1>3, <1>4, <2>1, <2>2, WalkedIsTyped DEF F!ListArrives, F!Resumes
<1>5. CASE F!ListFailsOver
  <2>1. outdated' \in BOOLEAN
    BY <1>5 DEF F!ListFailsOver
  <2> QED
    BY <1>5, <2>1, WalkedIsTyped DEF F!ListFailsOver, F!Resumes
<1>6. CASE F!FeedAsks
  BY <1>6, WalkedIsTyped DEF F!FeedAsks
<1>7. CASE F!DownloadAsks \/ F!ListFails \/ F!BackoffEnds
  BY <1>7 DEF F!DownloadAsks, F!ListFails, F!BackoffEnds
<1>8. CASE F!WalkEndsEmpty \/ F!WalkFails
  <2>1. 0 \in 0..Ttl /\ 0 \in 0..Versions
    BY DEF F!FeedAssumption
  <2> QED
    BY <1>8, <2>1 DEF F!WalkEndsEmpty, F!WalkFails, F!Caches, F!NotFound
<1>9. CASE F!Ticks
  <2>1. /\ \A r \in F!Release : F!Older(since[r], 2 * Ttl) \in 0..2 * Ttl
        /\ F!Older(listAge, Ttl) \in 0..Ttl /\ F!Older(entryAge, Ttl) \in 0..Ttl
    BY DEF F!Older, F!FeedAssumption
  <2> QED
    BY <1>9, <2>1 DEF F!Ticks
<1>10. CASE UNCHANGED F!vars
  BY <1>10
<1> QED
  BY <1>1, <1>2, <1>4, <1>5, <1>6, <1>7, <1>8, <1>9, <1>10 DEF F!Next

\* Everything the relay remembers of GitHub's releases keeps its type.
THEOREM FeedTypes == F!FeedAssumption => (F!Spec => []F!TypeOK)
<1> SUFFICES ASSUME F!FeedAssumption PROVE F!Spec => []F!TypeOK
  OBVIOUS
<1>1. F!Init => F!TypeOK
  BY FeedInitIsTyped
<1>2. F!TypeOK /\ [F!Next]_F!vars => F!TypeOK'
  BY FeedTypesStay
<1> QED
  BY <1>1, <1>2, PTL DEF F!Spec

(***************************************************************************)
(* Ages.                                                                   *)
(***************************************************************************)
\* Feed counts as FiniteSets does.
LEMMA FeedCounts ==
  ASSUME NEW X
  PROVE  F!Cardinality(X) = Cardinality(X)
  BY DEF F!Cardinality, Cardinality

\* However many of the releases of a list are newer, one that is near is walked.
LEMMA NearIsWalked ==
  ASSUME F!FeedAssumption, NEW rs \in SUBSET F!Release, NEW r \in rs, Near(r)
  PROVE  r \in F!Walked(rs)
<1> DEFINE newer == {s \in rs : s > r}
<1>0. rs \subseteq 1..Versions /\ r \in 1..Versions /\ Versions \in Nat
  BY DEF F!Release, F!FeedAssumption
<1>1. \A s \in newer : s \in r + 1 .. Versions
  <2> SUFFICES ASSUME NEW s \in rs, s > r PROVE s \in r + 1 .. Versions
    OBVIOUS
  <2>1. s \in Int /\ s <= Versions /\ r \in Int
    BY <1>0
  <2> QED
    BY <1>0, <2>1
<1>2. IsFiniteSet(r + 1 .. Versions) /\ Cardinality(r + 1 .. Versions) = Versions - r
  BY FS_Interval DEF F!Release, F!FeedAssumption
<1>3. Cardinality(newer) \in Nat /\ Cardinality(newer) <= Versions - r
  <2> HIDE DEF newer
  <2> QED
    BY <1>1, <1>2, newer \subseteq r + 1 .. Versions, FS_Subset, FS_CardinalityType
<1> QED
  BY <1>3, FeedCounts DEF F!Walked, Near, F!Release, F!FeedAssumption

LEMMA FeedAgesStay ==
  ASSUME F!FeedAssumption, FeedInv, [F!Next]_F!vars
  PROVE  ListInv' /\ WalkInv' /\ EntryInv'
<1> USE DEF FeedInv
<1>0. Ttl \in Nat \ {0} /\ Versions \in Nat /\ 0 \notin F!Release
  BY DEF F!FeedAssumption, F!Release
<1>1. ASSUME NEW r \in F!Release, F!Publishes(r) \/ F!Pulls(r) \/ F!PullsInstallers(r)
      PROVE  ListInv' /\ WalkInv' /\ EntryInv'
  <2>1. /\ UNCHANGED <<list, listAge, entry, entryAge, flight, todo, erred, outdated>>
        /\ since' = [since EXCEPT ![r] = 0]
        /\ \A q \in F!Release \ {r} : state'[q] = state[q]
    BY <1>1 DEF F!Publishes, F!Pulls, F!PullsInstallers, F!Becomes, F!lists, F!feed, F!walk,
       F!TypeOK
  <2>2. since'[r] = 0 /\ \A q \in F!Release \ {r} : since'[q] = since[q]
    BY <2>1 DEF F!TypeOK
  <2>3. ListInv'
    BY <1>0, <2>1, <2>2 DEF ListInv, F!TypeOK
  <2>4. WalkInv'
    BY <1>0, <2>1, <2>2 DEF WalkInv, F!TypeOK, Near
  <2>5. EntryInv'
    BY <1>0, <2>1, <2>2 DEF EntryInv, F!EntryIsFresh, F!TypeOK, Near
  <2> QED
    BY <2>3, <2>4, <2>5
<1>2. ASSUME NEW r \in F!Release, F!WalkFinds(r) PROVE ListInv' /\ WalkInv' /\ EntryInv'
  <2>1. /\ UNCHANGED <<state, since, list, listAge, outdated>>
        /\ flight = "walk" /\ r \in todo /\ state[r] \in {"good", "bare"}
        /\ entry' = r /\ entryAge' = 0 /\ flight' = "idle"
    BY <1>2 DEF F!WalkFinds, F!Trying, F!Fetched, F!Caches, F!github, F!lists
  <2>2. EntryInv'
    BY <1>0, <2>1 DEF EntryInv, F!EntryIsFresh, WalkInv, F!TypeOK, F!NotFound
  <2> QED
    BY <2>1, <2>2 DEF ListInv, WalkInv
<1>3. ASSUME NEW r \in F!Release, F!WalkRejects(r) \/ F!WalkErrs(r)
      PROVE  ListInv' /\ WalkInv' /\ EntryInv'
  <2>1. /\ UNCHANGED <<state, since, list, listAge, entry, entryAge, flight, outdated>>
        /\ todo' = todo \ {r} /\ (erred => erred')
        /\ erred' \/ state[r] # "good"
    BY <1>3 DEF F!WalkRejects, F!WalkErrs, F!Fetched, F!github, F!lists, F!feed
  <2> QED
    BY <2>1 DEF ListInv, WalkInv, EntryInv, F!EntryIsFresh, Near
<1>4. CASE F!WalkEndsEmpty
  <2>1. /\ UNCHANGED <<state, since, list, listAge, outdated>>
        /\ flight = "walk" /\ todo = {} /\ ~erred
        /\ entry' = F!NotFound /\ entryAge' = 0 /\ flight' = "idle"
    BY <1>4 DEF F!WalkEndsEmpty, F!Caches, F!github, F!lists
  <2>2. EntryInv'
    BY <1>0, <2>1 DEF EntryInv, F!EntryIsFresh, WalkInv, F!TypeOK, F!NotFound, Near
  <2> QED
    BY <2>1, <2>2 DEF ListInv, WalkInv
<1>5. CASE F!ListArrives
  <2>1. /\ UNCHANGED <<state, since, entry, entryAge, erred>>
        /\ list' = F!Candidates /\ listAge' = 0 /\ (outdated' <=> outdated /\ flight # "list")
        /\ \/ flight = "list" /\ flight' = "walk" /\ todo' = F!Walked(F!Candidates)
           \/ flight # "list" /\ UNCHANGED <<flight, todo>>
    BY <1>5 DEF F!ListArrives, F!Resumes, F!github, F!feed
  <2>2. F!Candidates \in SUBSET F!Release
    BY DEF F!Candidates
  <2>3. ListInv'
    BY <2>1 DEF ListInv, F!Candidates
  <2>4. /\ \A r \in F!Walked(F!Candidates) : state[r] # "bare"
        /\ \A r \in F!Release : state[r] = "good" /\ Near(r) => r \in F!Walked(F!Candidates)
    BY <2>2, NearIsWalked, WalkedIsTyped DEF F!Candidates
  <2>5. WalkInv'
    BY <2>1, <2>4 DEF WalkInv, Near
  <2>6. EntryInv'
    BY <1>0, <2>1 DEF EntryInv, F!EntryIsFresh, WalkInv, Near
  <2> QED
    BY <2>3, <2>5, <2>6
<1>6. CASE F!ListFailsOver
  <2>1. UNCHANGED <<state, since, list, listAge, entry, entryAge, erred>>
    BY <1>6 DEF F!ListFailsOver, F!github, F!feed
  <2>2. /\ outdated => outdated'
        /\ flight = "list" => outdated'
    BY <1>6 DEF F!ListFailsOver
  <2>3. flight = "list" \/ UNCHANGED <<flight, todo>>
    BY <1>6 DEF F!ListFailsOver, F!Resumes
  <2> QED
    BY <2>1, <2>2, <2>3 DEF ListInv, WalkInv, EntryInv, F!EntryIsFresh, Near
<1>7. CASE F!FeedAsks
  <2>1. /\ UNCHANGED <<state, since, list, listAge, entry, entryAge>>
        /\ ~F!EntryIsFresh
        /\ \/ listAge < Ttl /\ flight' = "walk" /\ todo' = F!Walked(list)
           \/ flight' = "list"
    BY <1>7 DEF F!FeedAsks, F!ListIsFresh, F!github, F!feed
  <2>2. /\ \A r \in F!Walked(list) : r \in F!Release /\ r \in list
        /\ \A r \in list : Near(r) => r \in F!Walked(list)
    BY NearIsWalked, WalkedIsTyped DEF F!TypeOK
  <2>3. entryAge = Ttl
    BY <1>0, <2>1 DEF F!EntryIsFresh, F!TypeOK
  <2>4. WalkInv'
    BY <1>0, <2>1, <2>2, <2>3 DEF WalkInv, ListInv, Near, F!TypeOK
  <2> QED
    BY <2>1, <2>4 DEF ListInv, EntryInv, F!EntryIsFresh
<1>8. CASE F!DownloadAsks \/ F!ListFails \/ F!WalkFails \/ F!BackoffEnds \/ UNCHANGED F!vars
  <2>1. /\ UNCHANGED <<state, since, list, listAge, entry, entryAge, todo, erred, outdated>>
        /\ flight' \in {flight, "idle"}
    BY <1>8 DEF F!DownloadAsks, F!ListFails, F!WalkFails, F!BackoffEnds, F!vars, F!github,
       F!lists, F!feed, F!walk
  <2> QED
    BY <2>1 DEF ListInv, WalkInv, EntryInv, F!EntryIsFresh, Near
<1>9. CASE F!Ticks
  <2>1. /\ UNCHANGED <<state, list, entry, outdated>> /\ flight' = "idle"
        /\ \A r \in F!Release : since'[r] <= since[r] + 1 /\ since'[r] \in Nat
        /\ listAge' = F!Older(listAge, Ttl) /\ entryAge' = F!Older(entryAge, Ttl)
    BY <1>0, <1>9 DEF F!Ticks, F!walk, F!Older, F!TypeOK
  <2>2. /\ listAge' < Ttl => listAge < Ttl /\ listAge' = listAge + 1
        /\ entryAge' < Ttl => entryAge < Ttl /\ entryAge' = entryAge + 1
    BY <1>0, <2>1 DEF F!Older, F!TypeOK
  <2>3. \A r \in F!Release : since'[r] >= since[r]
    BY <1>0, <1>9 DEF F!Ticks, F!Older, F!TypeOK
  <2>4. ListInv'
    BY <1>0, <2>1, <2>2 DEF ListInv, F!TypeOK
  <2>5. EntryInv'
    BY <1>0, <2>1, <2>2 DEF EntryInv, F!EntryIsFresh, F!TypeOK, Near
  <2> QED
    BY <2>1, <2>4, <2>5 DEF WalkInv
<1> QED
  BY <1>1, <1>2, <1>3, <1>4, <1>5, <1>6, <1>7, <1>8, <1>9 DEF F!Next

LEMMA FeedInvHolds ==
  ASSUME F!FeedAssumption
  PROVE  F!Spec => []FeedInv
<1>1. F!Init => FeedInv
  BY FeedInitIsTyped DEF F!Init, FeedInv, ListInv, WalkInv, EntryInv, F!EntryIsFresh
<1>2. FeedInv /\ [F!Next]_F!vars => FeedInv'
  BY FeedTypesStay, FeedAgesStay DEF FeedInv
<1> QED
  BY <1>1, <1>2, PTL DEF F!Spec

\* A file that was pulled is served for one time to live at most, one whose
\* installers were pulled for two, unless GitHub refused a new list.
THEOREM PulledLapses == Spec => []PulledIsGone
<1>1. FeedInv => F!PulledIsGone
  <2> SUFFICES ASSUME FeedInv, F!EntryIsFresh, entry # F!NotFound
               PROVE  /\ state[entry] = "pulled" => since[entry] < Ttl
                      /\ state[entry] = "bare" => since[entry] < 2 * Ttl \/ outdated
    BY DEF F!PulledIsGone
  <2>1. entry \in F!Release /\ entryAge \in Nat /\ since[entry] \in Nat /\ Ttl \in Nat
    BY AccountAssumption DEF FeedInv, F!TypeOK, F!NotFound, F!Release, F!FeedAssumption
  <2> QED
    BY <2>1 DEF FeedInv, EntryInv, F!EntryIsFresh
<1>2. F!PulledIsGone <=> PulledIsGone
  BY DEF PulledIsGone
<1>3. F!Spec => []FeedInv
  BY AccountAssumption, FeedInvHolds
<1> QED
  BY <1>1, <1>2, <1>3, FeedIsSpec, PTL

\* A channel that has a file which can be published is not told 404 for longer
\* than two times to live, unless it lies behind too many newer ones.
THEOREM NotFoundLapses == F!FeedAssumption => (F!Spec => []F!NotFoundIsBrief)
<1> SUFFICES ASSUME F!FeedAssumption PROVE F!Spec => []F!NotFoundIsBrief
  OBVIOUS
<1>1. FeedInv => F!NotFoundIsBrief
  <2> SUFFICES ASSUME FeedInv, F!EntryIsFresh, entry = F!NotFound, ~outdated,
                      NEW r \in F!Release, state[r] = "good", Versions - r < MaxCandidates
               PROVE  since[r] < 2 * Ttl
    BY DEF F!NotFoundIsBrief
  <2>1. entryAge \in Nat /\ since[r] \in Nat /\ Ttl \in Nat
    BY DEF FeedInv, F!TypeOK, F!FeedAssumption
  <2> QED
    BY <2>1 DEF FeedInv, EntryInv, F!EntryIsFresh, Near
<1> QED
  BY <1>1, FeedInvHolds, PTL

(***************************************************************************)
(* Shelf.                                                                  *)
(***************************************************************************)
\* A machine that a claim has returned never comes back on the shelf.
THEOREM HandedOverOnce == Spec => []GivenIsOffShelf
<1>1. S!Spec => []S!GivenIsOffShelf
  BY AccountAssumption, S!HandedOverOnce
<1>2. S!GivenIsOffShelf <=> GivenIsOffShelf
  BY DEF GivenIsOffShelf
<1> QED
  BY <1>1, <1>2, ShelfIsSpec, PTL

\* No process builds more at a time than the shelf is to hold.
THEOREM OneTargetEach == Spec => []BuildsBounded
<1>1. S!Spec => []S!BuildsBounded
  BY AccountAssumption, S!OneTargetEach
<1>2. S!BuildsBounded <=> BuildsBounded
  BY DEF BuildsBounded
<1> QED
  BY <1>1, <1>2, ShelfIsSpec, PTL

\* A row is buried only when its machine is gone.
THEOREM BuriedIsDestroyed == Spec => []FailedIsGone
<1>1. S!Spec => []S!FailedIsGone
  BY AccountAssumption, S!BuriedIsDestroyed
<1>2. S!FailedIsGone <=> FailedIsGone
  BY DEF FailedIsGone
<1> QED
  BY <1>1, <1>2, ShelfIsSpec, PTL

\* A machine that exists has a row or was handed over, and one on the shelf exists, but
\* for a create never answered and a report that came late.
THEOREM TableAgrees == Spec => []TableIsTrue
<1>1. S!Spec => []S!TableIsTrue
  BY AccountAssumption, S!TableAgrees
<1>2. S!TableIsTrue <=> TableIsTrue
  BY DEF TableIsTrue
<1> QED
  BY <1>1, <1>2, ShelfIsSpec, PTL
=============================================================================
