----------------------------- MODULE CloudProofs -----------------------------
(***************************************************************************)
(* Proofs about Cloud, for any number of machines, devices and requests,   *)
(* whatever calls fail or lose their answers and wherever the relay dies.  *)
(***************************************************************************)
EXTENDS Cloud, FiniteSetTheorems, TLAPS

(***************************************************************************)
(* Types.                                                                  *)
(***************************************************************************)
AttemptStep == {"idle", "list", "claim", "create", "issue", "write", "unshelve"}
Attempt == [at : AttemptStep, m : Machine \cup {Nobody}, d : Device \cup {Nobody}]
ResetStage == {"idle", "destroy", "revoke", "remove"}
ResetOrder == [at : ResetStage, m : Machine \cup {Nobody}, d : Device \cup {Nobody}]
Setup == [at : {"none", "install", "hand", "done"}, m : Machine \cup {Nobody}]

OpenTyped ==
  /\ open \in [Open -> Attempt]
  /\ \A o \in Open : open[o].at = "write" => open[o].d \in Device
ResetTyped == reset \in [Reset -> ResetOrder]
JobTyped == job \in [Device -> Setup]

LEMMA OpensTyped ==
  ASSUME OpenTyped, NEW o \in Open, NEW step \in AttemptStep,
         NEW m \in Machine \cup {Nobody}, NEW d \in Device \cup {Nobody},
         step = "write" => d \in Device, Opens(o, step, m, d)
  PROVE  OpenTyped'
  BY DEF OpenTyped, Attempt, Opens

LEMMA EndsTyped ==
  ASSUME OpenTyped, NEW o \in Open, Ends(o)
  PROVE  OpenTyped'
  BY DEF OpenTyped, Attempt, AttemptStep, Ends, Idle

LEMMA ResetsTyped ==
  ASSUME ResetTyped, NEW r \in Reset, NEW step \in ResetStage, Resets(r, step)
  PROVE  ResetTyped'
<1>1. [reset[r] EXCEPT !.at = step] \in ResetOrder
  BY DEF ResetTyped, ResetOrder
<1> QED
  BY <1>1 DEF ResetTyped, Resets

LEMMA StopsTyped ==
  ASSUME ResetTyped, NEW r \in Reset, Stops(r)
  PROVE  ResetTyped'
  BY DEF ResetTyped, ResetOrder, ResetStage, Stops, Idle

LEMMA StepsTyped ==
  ASSUME JobTyped, NEW d \in Device, NEW step \in {"install", "hand", "done"}, Steps(d, step)
  PROVE  JobTyped'
<1>1. [job[d] EXCEPT !.at = step] \in Setup
  BY DEF JobTyped, Setup
<1> QED
  BY <1>1 DEF JobTyped, Steps

LEMMA HandsOverTyped ==
  ASSUME OpenTyped, JobTyped, code \in [Device -> {"none", "held", "spent"}],
         NEW o \in Open, NEW d \in Device \cup {Nobody}, NEW m \in Machine \cup {Nobody},
         HandsOver(o, d, m)
  PROVE  OpenTyped' /\ JobTyped' /\ code' \in [Device -> {"none", "held", "spent"}]
<1>1. OpenTyped'
  BY EndsTyped DEF HandsOver
<1>2. JobTyped'
  BY DEF HandsOver, JobTyped, Setup
<1> QED
  BY <1>1, <1>2 DEF HandsOver

\* TypeOK, with the parts named.
Typed ==
  /\ machine \in [Machine -> {"none", "bare", "built"}]
  /\ pool \in [Pooled -> {"none", "ready", "claimed", "gone"}]
  /\ device \in [Device -> {"unused", "live", "revoked"}]
  /\ env \in [Device -> Machine \cup {Nobody}]
  /\ identity \in [Machine -> Device \cup {Nobody}]
  /\ code \in [Device -> {"none", "held", "spent"}]
  /\ OpenTyped /\ ResetTyped /\ JobTyped
  /\ removing \subseteq Device /\ condemned \subseteq Device
  /\ ghosts \subseteq Device /\ raced \subseteq Device

LEMMA TypedIsTypeOK == Typed => TypeOK
  BY DEF Typed, TypeOK, OpenTyped, Attempt, AttemptStep, ResetTyped, ResetOrder, ResetStage,
         JobTyped, Setup

LEMMA OpenStepTyped ==
  ASSUME CloudAssumption, Typed, NEW o \in Open, OpenStep(o)
  PROVE  Typed'
<1> USE DEF Typed, rows, cloud, history
<1>1. /\ "list" \in AttemptStep /\ "claim" \in AttemptStep /\ "create" \in AttemptStep
      /\ "issue" \in AttemptStep /\ "write" \in AttemptStep /\ "unshelve" \in AttemptStep
  BY DEF AttemptStep
<1>2. CASE Attempts(o) \/ Lists(o) \/ ClaimsNone(o)
  <2>1. OpenTyped'
    BY <1>1, <1>2, OpensTyped, EndsTyped DEF Attempts, Lists, ClaimsNone
  <2> QED
    BY <1>2, <2>1 DEF Attempts, Lists, ClaimsNone, ResetTyped, JobTyped
<1>3. CASE OpenFails(o)
  <2>1. OpenTyped'
    BY <1>3, EndsTyped DEF OpenFails
  <2>2. open[o].at = "write" => open[o].d \in Device
    BY DEF OpenTyped
  <2>3. ghosts' \subseteq Device
    BY <1>3, <2>2 DEF OpenFails, OpenAt
  <2> QED
    BY <1>3, <2>1, <2>3 DEF OpenFails, ResetTyped, JobTyped
<1>4. ASSUME NEW m \in Pooled, NEW answered \in BOOLEAN, Claims(o, m, answered) PROVE Typed'
  <2>1. OpenTyped'
    BY <1>1, <1>4, OpensTyped DEF Claims, Machine
  <2> QED
    BY <1>4, <2>1 DEF Claims, ResetTyped, JobTyped
<1>5. ASSUME NEW answered \in BOOLEAN, Creates(o, answered) PROVE Typed'
  <2>1. OpenTyped'
    BY <1>1, <1>5, OpensTyped, EndsTyped DEF Creates, Machine
  <2> QED
    BY <1>5, <2>1 DEF Creates, ResetTyped, JobTyped
<1>6. ASSUME NEW answered \in BOOLEAN, Writes(o, answered) PROVE Typed'
  <2>1. PICK m \in Machine \cup {Nobody}, d \in Device \cup {Nobody} : m = open[o].m /\ d = open[o].d
    BY DEF OpenTyped, Attempt
  <2>2. UNCHANGED <<pool, device, machine, identity, reset, removing, history>>
    BY <1>6 DEF Writes
  <2>3. env' \in [Device -> Machine \cup {Nobody}]
    BY <1>6, <2>1 DEF Writes
  <2>4. OpenTyped' /\ JobTyped' /\ code' \in [Device -> {"none", "held", "spent"}]
    <3>1. CASE HandsOver(o, d, m)
      BY <3>1, <2>1, HandsOverTyped
    <3>2. CASE Ends(o) /\ UNCHANGED <<code, job>>
      BY <3>2, EndsTyped DEF JobTyped
    <3>3. CASE Opens(o, "unshelve", m, d) /\ UNCHANGED <<code, job>>
      BY <1>1, <3>3, <2>1, OpensTyped DEF JobTyped
    <3> QED
      BY <1>6, <2>1, <3>1, <3>2, <3>3 DEF Writes
  <2> QED
    BY <2>2, <2>3, <2>4 DEF ResetTyped
<1>7. ASSUME NEW d \in Device, NEW answered \in BOOLEAN, Issues(o, d, answered) PROVE Typed'
  <2>1. open[o].m \in Machine \cup {Nobody}
    BY DEF OpenTyped, Attempt
  <2>2. OpenTyped'
    BY <1>1, <1>7, <2>1, OpensTyped, EndsTyped DEF Issues
  <2> QED
    BY <1>7, <2>2 DEF Issues, ResetTyped, JobTyped
<1>8. ASSUME NEW works \in BOOLEAN, Unshelves(o, works) PROVE Typed'
  <2>1. open[o].m \in Machine \cup {Nobody} /\ open[o].d \in Device \cup {Nobody}
    BY DEF OpenTyped, Attempt
  <2>2. OpenTyped' /\ JobTyped' /\ code' \in [Device -> {"none", "held", "spent"}]
    BY <1>8, <2>1, HandsOverTyped DEF Unshelves
  <2>3. pool' \in [Pooled -> {"none", "ready", "claimed", "gone"}]
    BY <1>8 DEF Unshelves
  <2> QED
    BY <1>8, <2>2, <2>3 DEF Unshelves, ResetTyped
<1> QED
  BY <1>2, <1>3, <1>4, <1>5, <1>6, <1>7, <1>8 DEF OpenStep

LEMMA ResetStepTyped ==
  ASSUME CloudAssumption, Typed, NEW r \in Reset, ResetStep(r)
  PROVE  Typed'
<1> USE DEF Typed, rows, cloud, history
<1>1. "destroy" \in ResetStage /\ "revoke" \in ResetStage /\ "remove" \in ResetStage
  BY DEF ResetStage
<1>2. reset[r].m \in Machine \cup {Nobody} /\ reset[r].d \in Device \cup {Nobody}
  BY DEF ResetTyped, ResetOrder
<1>3. ASSUME NEW d \in Device, ResetLists(r, d) PROVE Typed'
  <2>1. ResetTyped'
    BY <1>1, <1>3 DEF ResetLists, ResetTyped, ResetOrder
  <2> QED
    BY <1>3, <2>1 DEF ResetLists, OpenTyped, JobTyped
<1>4. ASSUME NEW answered \in BOOLEAN, Destroys(r, answered) PROVE Typed'
  <2>1. ResetTyped'
    BY <1>1, <1>4, ResetsTyped, StopsTyped DEF Destroys
  <2> QED
    BY <1>4, <2>1 DEF Destroys, OpenTyped, JobTyped
<1>5. ASSUME NEW answered \in BOOLEAN, Revokes(r, answered) PROVE Typed'
  <2>1. ResetTyped'
    BY <1>1, <1>5, ResetsTyped, StopsTyped DEF Revokes
  <2> QED
    BY <1>5, <2>1 DEF Revokes, OpenTyped, JobTyped
<1>6. CASE RevokesAgain(r) \/ Removes(r) \/ ResetFails(r)
  <2>1. ResetTyped'
    BY <1>1, <1>6, ResetsTyped, StopsTyped DEF RevokesAgain, Removes, ResetFails
  <2> QED
    BY <1>6, <2>1 DEF RevokesAgain, Removes, ResetFails, OpenTyped, JobTyped
<1> QED
  BY <1>3, <1>4, <1>5, <1>6 DEF ResetStep

LEMMA DeviceStepTyped ==
  ASSUME CloudAssumption, Typed, NEW d \in Device, JobStep(d) \/ RemovalStep(d)
  PROVE  Typed'
<1> USE DEF Typed, rows, cloud, history
<1>1. CASE CodeExpires(d)
  BY <1>1 DEF CodeExpires, OpenTyped, ResetTyped, JobTyped
<1>2. CASE JobFails(d)
  <2>1. JobTyped'
    BY <1>2, StepsTyped DEF JobFails
  <2> QED
    BY <1>2, <2>1 DEF JobFails, OpenTyped, ResetTyped
<1>3. ASSUME NEW works \in BOOLEAN, JobInstalls(d, works) PROVE Typed'
  <2>1. JobTyped'
    BY <1>3, StepsTyped DEF JobInstalls
  <2> QED
    BY <1>3, <2>1 DEF JobInstalls, OpenTyped, ResetTyped
<1>4. ASSUME NEW e \in Device, NEW arrives \in BOOLEAN, JobHands(d, e, arrives) PROVE Typed'
  <2>1. JobTyped'
    BY <1>4, StepsTyped DEF JobHands
  <2> QED
    BY <1>4, <2>1 DEF JobHands, OpenTyped, ResetTyped
<1>5. CASE RemovalStep(d)
  BY <1>5 DEF RemovalStep, RemovalChecks, RemovalRevokes, RemovalFails,
              OpenTyped, ResetTyped, JobTyped
<1> QED
  BY <1>1, <1>2, <1>3, <1>4, <1>5 DEF JobStep

LEMMA InitIsTyped ==
  ASSUME CloudAssumption, Init
  PROVE  Typed
  BY DEF Init, Typed, OpenTyped, Attempt, AttemptStep, ResetTyped, ResetOrder, ResetStage,
         JobTyped, Setup, Idle, Machine

LEMMA TypedStays ==
  ASSUME CloudAssumption, Typed, [Next]_vars
  PROVE  Typed'
<1>1. ASSUME NEW m \in Pooled, Shelved(m) PROVE Typed'
  BY <1>1 DEF Shelved, Typed, OpenTyped, ResetTyped, JobTyped, history, Machine
<1>2. CASE Crashes
  <2>1. OpenTyped' /\ ResetTyped'
    BY <1>2 DEF Crashes, OpenTyped, Attempt, AttemptStep, ResetTyped, ResetOrder,
                ResetStage, Idle
  <2>2. JobTyped'
    BY <1>2 DEF Crashes, Typed, JobTyped, Setup
  <2>3. ghosts' \subseteq Device
    <3>1. \A o \in Open : OpenAt(o, "write") => open[o].d \in Device
      BY DEF Typed, OpenTyped, OpenAt
    <3> QED
      BY <1>2, <3>1 DEF Crashes, Typed
  <2> QED
    BY <1>2, <2>1, <2>2, <2>3 DEF Crashes, Typed, rows
<1>3. CASE UNCHANGED vars
  BY <1>3 DEF vars, rows, cloud, history, Typed, OpenTyped, ResetTyped, JobTyped
<1> QED
  BY <1>1, <1>2, <1>3, OpenStepTyped, ResetStepTyped, DeviceStepTyped DEF Next

\* Every variable of the account's cloud keeps its type, wherever requests,
\* setups and removals fail, lose an answer or die.
THEOREM CloudTypes == CloudAssumption => (Spec => []TypeOK)
<1> SUFFICES ASSUME CloudAssumption PROVE Spec => []TypeOK
  OBVIOUS
<1>1. Init => Typed
  BY InitIsTyped
<1>2. Typed /\ [Next]_vars => Typed'
  BY TypedStays
<1>3. Typed => TypeOK
  BY TypedIsTypeOK
<1> QED
  BY <1>1, <1>2, <1>3, PTL DEF Spec

(***************************************************************************)
(* What a call may have done, whatever became of its answer.               *)
(***************************************************************************)
LEMMA ListsEffect ==
  ASSUME NEW o \in Open, Lists(o)
  PROVE  /\ open[o].at = "list"
         /\ UNCHANGED <<rows, cloud, reset, job, removing, history>>
         /\ \/ Opens(o, "claim", Nobody, Nobody) /\ \A d \in Device : env[d] = Nobody
            \/ Ends(o)
<1>1. CASE Environments = {}
  BY <1>1 DEF Lists, OpenAt, Environments
<1>2. CASE Environments # {}
  BY <1>2 DEF Lists, OpenAt
<1> QED
  BY <1>1, <1>2

LEMMA ClaimsEffect ==
  ASSUME NEW o \in Open, NEW m \in Pooled, NEW b \in BOOLEAN, Claims(o, m, b)
  PROVE  /\ open[o].at = "claim" /\ pool[m] = "ready"
         /\ pool' = [pool EXCEPT ![m] = "claimed"]
         /\ UNCHANGED <<device, env, cloud, reset, job, removing, history>>
         /\ Opens(o, "issue", m, Nobody) \/ Opens(o, "create", Nobody, Nobody)
  BY DEF Claims, OpenAt

LEMMA CreatesEffect ==
  ASSUME NEW o \in Open, NEW b \in BOOLEAN, Creates(o, b)
  PROVE  /\ open[o].at = "create"
         /\ machine' = [machine EXCEPT ![Own] = IF @ = "none" THEN "bare" ELSE @]
         /\ UNCHANGED <<rows, identity, code, reset, job, removing, history>>
         /\ Opens(o, "issue", Own, Nobody) \/ Ends(o)
  BY DEF Creates, OpenAt

LEMMA IssuesEffect ==
  ASSUME NEW o \in Open, NEW d \in Device, NEW b \in BOOLEAN, Issues(o, d, b)
  PROVE  /\ open[o].at = "issue" /\ device[d] = "unused"
         /\ device' = [device EXCEPT ![d] = "live"]
         /\ UNCHANGED <<pool, env, cloud, reset, job, removing, condemned, raced>>
         /\ \/ Opens(o, "write", open[o].m, d) /\ UNCHANGED ghosts
            \/ Ends(o) /\ ghosts' = ghosts \cup {d}
  BY DEF Issues, OpenAt

LEMMA WritesEffect ==
  ASSUME NEW o \in Open, NEW b \in BOOLEAN, Writes(o, b)
  PROVE  /\ open[o].at = "write"
         /\ env' = [env EXCEPT ![open[o].d] = open[o].m]
         /\ UNCHANGED <<pool, device, machine, identity, reset, removing, history>>
         /\ \/ Ends(o) /\ UNCHANGED <<code, job>>
            \/ open[o].m = Own /\ HandsOver(o, open[o].d, open[o].m)
            \/ /\ open[o].m # Own /\ Opens(o, "unshelve", open[o].m, open[o].d)
               /\ UNCHANGED <<code, job>>
  BY DEF Writes, OpenAt

LEMMA UnshelvesEffect ==
  ASSUME NEW o \in Open, NEW b \in BOOLEAN, Unshelves(o, b)
  PROVE  /\ open[o].at = "unshelve"
         /\ pool' = [pool EXCEPT ![open[o].m] = "gone"] \/ pool' = pool
         /\ HandsOver(o, open[o].d, open[o].m)
         /\ UNCHANGED <<device, env, machine, identity, reset, removing, history>>
  BY DEF Unshelves, OpenAt

LEMMA DestroysEffect ==
  ASSUME NEW r \in Reset, NEW b \in BOOLEAN, Destroys(r, b)
  PROVE  /\ reset[r].at = "destroy"
         /\ machine' = [machine EXCEPT ![reset[r].m] = "none"]
         /\ identity' = [identity EXCEPT ![reset[r].m] = Nobody]
         /\ Resets(r, "revoke") \/ Stops(r)
         /\ UNCHANGED <<rows, code, open, job, removing, history>>
  BY DEF Destroys, ResetAt

LEMMA RevokesEffect ==
  ASSUME NEW r \in Reset, NEW b \in BOOLEAN, Revokes(r, b)
  PROVE  /\ reset[r].at = "revoke"
         /\ device[reset[r].d] = "live"
         /\ device' = [device EXCEPT ![reset[r].d] = "revoked"]
         /\ Resets(r, "remove") \/ Stops(r)
         /\ UNCHANGED <<pool, env, cloud, open, job, removing, history>>
  BY DEF Revokes, ResetAt


(***************************************************************************)
(* The strengthening, in parts.                                            *)
(***************************************************************************)
\* There is one attempt at a time; past its list the account has no
\* environment but the one the attempt writes.
AttemptInv ==
  /\ \A o, p \in Open : open[o].at # "idle" /\ open[p].at # "idle" => o = p
  /\ \A o \in Open, d \in Device :
       /\ open[o].at \in {"claim", "create", "issue", "write"} => env[d] = Nobody
       /\ open[o].at = "unshelve" /\ env[d] # Nobody => d = open[o].d
  /\ \A d, e \in Device : env[d] # Nobody /\ env[e] # Nobody => d = e

\* What an attempt has in hand: a machine, and a device nobody is resetting.
HandInv ==
  \A o \in Open :
    /\ open[o].at \in {"issue", "write"} => open[o].m \in Machine
    /\ open[o].at = "unshelve" => open[o].m \in Pooled /\ open[o].d \in Device
    /\ open[o].at = "write" =>
         /\ device[open[o].d] # "unused"
         /\ \A r \in Reset : reset[r].at # "idle" => reset[r].d # open[o].d

\* What a reset has in hand, and what it has done.
ResetInv ==
  /\ \A r \in Reset : reset[r].at # "idle" =>
       /\ reset[r].d \in condemned /\ reset[r].m \in Machine
       /\ device[reset[r].d] # "unused"
       /\ env[reset[r].d] \in {reset[r].m, Nobody}
       /\ reset[r].at \in {"revoke", "remove"} /\ reset[r].m \in Pooled =>
            machine[reset[r].m] = "none"
       /\ reset[r].at = "remove" => device[reset[r].d] = "revoked"
  /\ \A d \in Device : env[d] # Nobody => device[d] # "unused"

\* Anything that puts device d and machine m together.
Tied(m, d) ==
  \/ env[d] = m
  \/ identity[m] = d
  \/ job[d].at # "none" /\ job[d].m = m
  \/ \E o \in Open : open[o].at \in {"write", "unshelve"} /\ open[o].m = m /\ open[o].d = d
  \/ \E r \in Reset : reset[r].at # "idle" /\ reset[r].m = m /\ reset[r].d = d

\* A machine with a name of its own is tied to one device for ever, and to none
\* while it is for sale or an attempt has only just claimed it.
TieInv ==
  \A m \in Pooled :
    /\ \A d, e \in Device : Tied(m, d) /\ Tied(m, e) => d = e
    /\ \A d \in Device : Tied(m, d) => pool[m] \in {"claimed", "gone"}
    /\ \A o \in Open : open[o].at = "issue" /\ open[o].m = m =>
         pool[m] = "claimed" /\ \A d \in Device : ~Tied(m, d)

\* A machine with a name of its own is there for whoever is to have it.
StandInv ==
  /\ \A m \in Pooled : pool[m] = "ready" => machine[m] # "none"
  /\ \A o \in Open :
       /\ open[o].at \in {"issue", "write"} /\ open[o].m \in Pooled =>
            machine[open[o].m] # "none"
       /\ open[o].at = "write" /\ open[o].m \in Pooled => pool[open[o].m] = "claimed"
       /\ open[o].at = "unshelve" =>
            env[open[o].d] = open[o].m \/ machine[open[o].m] = "none"
  /\ \A d \in Device : env[d] \in Pooled /\ d \notin condemned => machine[env[d]] # "none"
  /\ NothingUnnamed

\* A device is live as long as it is needed, and no longer.
DeviceInv ==
  /\ \A d \in removing :
       /\ device[d] # "unused"
       /\ d \in raced \/ (env[d] = Nobody /\ \A o \in Open : open[o].at = "write" => open[o].d # d)
  /\ \A d \in Device : env[d] # Nobody /\ d \notin condemned => d \in raced \/ device[d] = "live"
  /\ \A o \in Open : open[o].at = "write" => open[o].d \in raced \/ device[open[o].d] = "live"
  /\ NoGhostDevice

Inv == Typed /\ AttemptInv /\ HandInv /\ ResetInv /\ TieInv /\ StandInv /\ DeviceInv
\* A reset that goes on or stops keeps what it has in hand.
LEMMA ResetsAdvance ==
  ASSUME Typed, NEW r \in Reset, NEW step \in ResetStage,
         reset[r].at # "idle", Resets(r, step) \/ Stops(r)
  PROVE  \A p \in Reset : reset'[p].at # "idle" =>
           /\ reset[p].at # "idle"
           /\ reset'[p].d = reset[p].d /\ reset'[p].m = reset[p].m
           /\ reset'[p].at = IF p = r THEN step ELSE reset[p].at
<1>1. CASE Resets(r, step)
  BY <1>1 DEF Resets, Typed, ResetTyped, ResetOrder
<1>2. CASE Stops(r)
  BY <1>2 DEF Stops, Idle, Typed, ResetTyped
<1> QED
  BY <1>1, <1>2

LEMMA AttemptMoves ==
  ASSUME Typed, AttemptInv, env' = env,
         NEW o \in Open, open[o].at \in {"claim", "create", "issue", "write"},
         NEW step \in {"create", "issue", "write"}, NEW m, NEW d,
         Opens(o, step, m, d) \/ Ends(o)
  PROVE  AttemptInv'
<1>1. CASE Opens(o, step, m, d)
  BY <1>1 DEF Opens, AttemptInv, Typed, OpenTyped
<1>2. CASE Ends(o)
  BY <1>2 DEF Ends, Idle, AttemptInv, Typed, OpenTyped
<1> QED
  BY <1>1, <1>2

LEMMA AttemptStays ==
  ASSUME CloudAssumption, Inv, [Next]_vars
  PROVE  AttemptInv'
<1> USE DEF Inv
<1>1. ASSUME NEW o \in Open, Attempts(o) PROVE AttemptInv'
  BY <1>1 DEF Attempts, MayAttempt, OpenAt, Opens, rows, AttemptInv, Typed, OpenTyped
<1>2. ASSUME NEW o \in Open, Lists(o) PROVE AttemptInv'
  <2>1. open[o].at = "list" /\ env' = env
    BY <1>2, ListsEffect DEF rows
  <2>2. CASE Ends(o)
    BY <2>1, <2>2 DEF Ends, Idle, AttemptInv, Typed, OpenTyped
  <2>3. CASE Opens(o, "claim", Nobody, Nobody) /\ \A d \in Device : env[d] = Nobody
    BY <2>1, <2>3 DEF Opens, AttemptInv, Typed, OpenTyped
  <2> QED
    BY <1>2, <2>2, <2>3, ListsEffect
<1>3. ASSUME NEW o \in Open, ClaimsNone(o) PROVE AttemptInv'
  BY <1>3, AttemptMoves DEF ClaimsNone, OpenAt, rows
<1>4. ASSUME NEW o \in Open, NEW m \in Pooled, NEW b \in BOOLEAN, Claims(o, m, b)
      PROVE  AttemptInv'
  BY <1>4, ClaimsEffect, AttemptMoves
<1>5. ASSUME NEW o \in Open, NEW b \in BOOLEAN, Creates(o, b) PROVE AttemptInv'
  BY <1>5, CreatesEffect, AttemptMoves DEF rows
<1>6. ASSUME NEW o \in Open, NEW d \in Device, NEW b \in BOOLEAN, Issues(o, d, b)
      PROVE  AttemptInv'
  <2>1. Opens(o, "write", open[o].m, d) \/ Ends(o)
    BY <1>6, IssuesEffect
  <2>2. open[o].at = "issue" /\ env' = env
    BY <1>6, IssuesEffect
  <2> QED
    BY <2>1, <2>2, AttemptMoves
<1>7. ASSUME NEW o \in Open, NEW b \in BOOLEAN, Writes(o, b) PROVE AttemptInv'
  <2>1. /\ open[o].at = "write" /\ env' = [env EXCEPT ![open[o].d] = open[o].m]
        /\ Ends(o) \/ Opens(o, "unshelve", open[o].m, open[o].d)
    BY <1>7, WritesEffect DEF HandsOver
  <2>2. open[o].d \in Device /\ \A d \in Device : env[d] = Nobody
    BY <2>1 DEF AttemptInv, Typed, OpenTyped
  <2>3. \A d \in Device : env'[d] # Nobody => d = open[o].d
    BY <2>1, <2>2 DEF Typed
  <2>4. \A p \in Open \ {o} : open[p].at = "idle"
    BY <2>1 DEF AttemptInv
  <2>5. CASE Ends(o)
    BY <2>3, <2>4, <2>5 DEF Ends, Idle, AttemptInv, Typed, OpenTyped
  <2>6. CASE Opens(o, "unshelve", open[o].m, open[o].d)
    BY <2>3, <2>4, <2>6 DEF Opens, AttemptInv, Typed, OpenTyped
  <2> QED
    BY <2>1, <2>5, <2>6
<1>8. ASSUME NEW o \in Open, OpenFails(o) PROVE AttemptInv'
  BY <1>8 DEF OpenFails, Ends, Idle, rows, AttemptInv, Typed, OpenTyped
<1>9. ASSUME NEW o \in Open, NEW b \in BOOLEAN, Unshelves(o, b) PROVE AttemptInv'
  <2>1. env' = env /\ Ends(o)
    BY <1>9, UnshelvesEffect DEF HandsOver
  <2> QED
    BY <2>1 DEF Ends, Idle, AttemptInv, Typed, OpenTyped
<1>10. ASSUME NEW r \in Reset, Removes(r) PROVE AttemptInv'
  BY <1>10 DEF Removes, AttemptInv, Typed
<1>11. CASE Crashes
  BY <1>11 DEF Crashes, rows, Idle, AttemptInv
<1>12. CASE UNCHANGED <<env, open>>
  BY <1>12 DEF AttemptInv
<1>13. ASSUME NEW r \in Reset, ResetStep(r) PROVE AttemptInv'
  <2>1. Removes(r) \/ UNCHANGED <<env, open>>
    BY <1>13 DEF ResetStep, ResetLists, Destroys, Revokes, RevokesAgain, ResetFails, rows
  <2> QED
    BY <1>10, <1>12, <2>1
<1>14. ASSUME NEW d \in Device, JobStep(d) \/ RemovalStep(d) PROVE UNCHANGED <<env, open>>
  BY <1>14 DEF JobStep, CodeExpires, JobFails, JobInstalls, JobHands,
               RemovalStep, RemovalChecks, RemovalRevokes, RemovalFails, rows
<1>15. ASSUME NEW m \in Pooled, Shelved(m) PROVE UNCHANGED <<env, open>>
  BY <1>15 DEF Shelved
<1>16. CASE UNCHANGED vars
  BY <1>16 DEF vars, rows, AttemptInv
<1> QED
  BY <1>1, <1>2, <1>3, <1>4, <1>5, <1>6, <1>7, <1>8, <1>9, <1>11, <1>12, <1>13, <1>14,
     <1>15, <1>16 DEF Next, OpenStep

LEMMA HandMoves ==
  ASSUME Typed, HandInv, UNCHANGED <<device, reset>>, NEW o \in Open,
         \/ Ends(o)
         \/ \E step \in {"list", "claim", "create"} : \E m, d : Opens(o, step, m, d)
         \/ \E m \in Machine : \E d : Opens(o, "issue", m, d)
  PROVE  HandInv'
<1>1. CASE Ends(o)
  BY <1>1 DEF Ends, Idle, HandInv, Typed, OpenTyped
<1>2. ASSUME NEW step \in {"list", "claim", "create"}, NEW m, NEW d, Opens(o, step, m, d)
      PROVE  HandInv'
  BY <1>2 DEF Opens, HandInv, Typed, OpenTyped
<1>3. ASSUME NEW m \in Machine, NEW d, Opens(o, "issue", m, d) PROVE HandInv'
  BY <1>3 DEF Opens, HandInv, Typed, OpenTyped
<1> QED
  BY <1>1, <1>2, <1>3

LEMMA HandStays ==
  ASSUME CloudAssumption, Inv, [Next]_vars
  PROVE  HandInv'
<1> USE DEF Inv
<1>1. ASSUME NEW o \in Open, Attempts(o) \/ Lists(o) \/ ClaimsNone(o) \/ OpenFails(o)
      PROVE  HandInv'
  <2>1. /\ UNCHANGED <<device, reset>>
        /\ \/ Ends(o) \/ Opens(o, "list", Nobody, Nobody)
           \/ Opens(o, "claim", Nobody, Nobody) \/ Opens(o, "create", Nobody, Nobody)
    BY <1>1 DEF Attempts, Lists, ClaimsNone, OpenFails, rows
  <2> QED
    BY <2>1, HandMoves
<1>2. ASSUME NEW o \in Open, NEW m \in Pooled, NEW b \in BOOLEAN, Claims(o, m, b)
      PROVE  HandInv'
  <2>1. /\ UNCHANGED <<device, reset>>
        /\ Opens(o, "issue", m, Nobody) \/ Opens(o, "create", Nobody, Nobody)
    BY <1>2, ClaimsEffect
  <2> QED
    BY <2>1, HandMoves DEF Machine
<1>3. ASSUME NEW o \in Open, NEW b \in BOOLEAN, Creates(o, b) PROVE HandInv'
  <2>1. UNCHANGED <<device, reset>> /\ (Ends(o) \/ Opens(o, "issue", Own, Nobody))
    BY <1>3, CreatesEffect DEF rows
  <2> QED
    BY <2>1, HandMoves DEF Machine
<1>4. ASSUME NEW o \in Open, NEW d \in Device, NEW b \in BOOLEAN, Issues(o, d, b)
      PROVE  HandInv'
  <2>1. /\ open[o].at = "issue" /\ device[d] = "unused" /\ reset' = reset
        /\ device' = [device EXCEPT ![d] = "live"]
        /\ Opens(o, "write", open[o].m, d) \/ Ends(o)
    BY <1>4, IssuesEffect
  <2>2. \A r \in Reset : reset[r].at # "idle" => reset[r].d # d
    BY <2>1 DEF ResetInv
  <2>3. \A e \in Device : device[e] # "unused" => device'[e] # "unused"
    BY <2>1 DEF Typed
  <2>4. CASE Opens(o, "write", open[o].m, d)
    BY <2>1, <2>2, <2>3, <2>4 DEF Opens, HandInv, Typed, OpenTyped
  <2>5. CASE Ends(o)
    BY <2>1, <2>3, <2>5 DEF Ends, Idle, HandInv, Typed, OpenTyped
  <2> QED
    BY <2>1, <2>4, <2>5
<1>5. ASSUME NEW o \in Open, NEW b \in BOOLEAN, Writes(o, b) PROVE HandInv'
  <2>1. open[o].at = "write" /\ UNCHANGED <<device, reset>>
    BY <1>5, WritesEffect
  <2>2. Ends(o) \/ (open[o].m # Own /\ Opens(o, "unshelve", open[o].m, open[o].d))
    BY <1>5, WritesEffect DEF HandsOver
  <2>3. open[o].m \in Machine /\ open[o].d \in Device
    BY <2>1 DEF HandInv, Typed, OpenTyped
  <2>4. CASE open[o].m # Own /\ Opens(o, "unshelve", open[o].m, open[o].d)
    BY <2>1, <2>3, <2>4 DEF Opens, Machine, HandInv, Typed, OpenTyped
  <2> QED
    BY <2>1, <2>2, <2>4, HandMoves
<1>6. ASSUME NEW o \in Open, NEW b \in BOOLEAN, Unshelves(o, b) PROVE HandInv'
  <2>1. UNCHANGED <<device, reset>> /\ Ends(o)
    BY <1>6, UnshelvesEffect DEF HandsOver
  <2> QED
    BY <2>1, HandMoves
<1>7. ASSUME NEW r \in Reset, NEW d \in Device, ResetLists(r, d) PROVE HandInv'
  <2>1. /\ env[d] # Nobody /\ UNCHANGED <<device, open>>
        /\ reset' = [reset EXCEPT ![r] = [at |-> "destroy", m |-> env[d], d |-> d]]
    BY <1>7 DEF ResetLists, rows
  <2>2. \A o \in Open : open[o].at = "write" => open[o].d # d
    BY <2>1 DEF AttemptInv
  <2> QED
    BY <2>1, <2>2 DEF HandInv, Typed, ResetTyped
<1>8. ASSUME NEW r \in Reset,
             \/ \E b \in BOOLEAN : Destroys(r, b) \/ Revokes(r, b)
             \/ RevokesAgain(r) \/ Removes(r) \/ ResetFails(r)
      PROVE  HandInv'
  <2>1. /\ open' = open
        /\ \A d \in Device : device[d] # "unused" => device'[d] # "unused"
    BY <1>8, DestroysEffect, RevokesEffect DEF RevokesAgain, Removes, ResetFails, rows, Typed
  <2>2. /\ reset[r].at # "idle"
        /\ Stops(r) \/ \E step \in {"revoke", "remove"} : Resets(r, step)
    BY <1>8, DestroysEffect, RevokesEffect DEF RevokesAgain, Removes, ResetFails, ResetAt
  <2>3. \A p \in Reset : reset'[p].at # "idle" => reset[p].at # "idle" /\ reset'[p].d = reset[p].d
    BY <2>2, ResetsAdvance DEF ResetStage
  <2> QED
    BY <2>1, <2>3 DEF HandInv, Typed, OpenTyped
<1>9. ASSUME NEW d \in Device, JobStep(d) PROVE HandInv'
  BY <1>9 DEF JobStep, CodeExpires, JobFails, JobInstalls, JobHands, rows, HandInv
<1>10. ASSUME NEW d \in Device, RemovalStep(d) PROVE HandInv'
  <2>1. /\ UNCHANGED <<open, reset>>
        /\ \A e \in Device : device[e] # "unused" => device'[e] # "unused"
    BY <1>10 DEF RemovalStep, RemovalChecks, RemovalRevokes, RemovalFails, rows, Typed
  <2> QED
    BY <2>1 DEF HandInv, Typed, OpenTyped
<1>11. ASSUME NEW m \in Pooled, Shelved(m) PROVE HandInv'
  BY <1>11 DEF Shelved, HandInv
<1>12. CASE Crashes
  BY <1>12 DEF Crashes, Idle, HandInv
<1>13. CASE UNCHANGED vars
  BY <1>13 DEF vars, rows, HandInv
<1> QED
  BY <1>1, <1>2, <1>3, <1>4, <1>5, <1>6, <1>7, <1>8, <1>9, <1>10, <1>11, <1>12, <1>13
     DEF Next, OpenStep, ResetStep

LEMMA ResetStays ==
  ASSUME CloudAssumption, Inv, [Next]_vars
  PROVE  ResetInv'
<1> USE DEF Inv
<1>1. ASSUME NEW o \in Open, Attempts(o) \/ Lists(o) \/ ClaimsNone(o) \/ OpenFails(o)
      PROVE  ResetInv'
  <2>1. UNCHANGED <<machine, device, env, reset, condemned>>
    BY <1>1 DEF Attempts, Lists, ClaimsNone, OpenFails, rows, cloud, history
  <2> QED
    BY <2>1 DEF ResetInv
<1>2. ASSUME NEW o \in Open, NEW m \in Pooled, NEW b \in BOOLEAN, Claims(o, m, b)
      PROVE  ResetInv'
  BY <1>2 DEF Claims, cloud, history, ResetInv
<1>3. ASSUME NEW o \in Open, NEW b \in BOOLEAN, Creates(o, b) PROVE ResetInv'
  <2>1. \A m \in Pooled : machine'[m] = machine[m]
    BY <1>3, CreatesEffect DEF CloudAssumption, Typed, Machine
  <2> QED
    BY <1>3, <2>1, CreatesEffect DEF rows, history, ResetInv
<1>4. ASSUME NEW o \in Open, NEW d \in Device, NEW b \in BOOLEAN, Issues(o, d, b)
      PROVE  ResetInv'
  <2>1. /\ device[d] = "unused" /\ device' = [device EXCEPT ![d] = "live"]
        /\ UNCHANGED <<env, machine, reset, condemned>>
    BY <1>4, IssuesEffect DEF cloud
  <2>2. \A e \in Device : device[e] # "unused" => device'[e] = device[e]
    BY <2>1 DEF Typed
  <2> QED
    BY <2>1, <2>2 DEF ResetInv, Typed, ResetTyped, ResetOrder
<1>5. ASSUME NEW o \in Open, NEW b \in BOOLEAN, Writes(o, b) PROVE ResetInv'
  <2>1. /\ open[o].at = "write" /\ env' = [env EXCEPT ![open[o].d] = open[o].m]
        /\ UNCHANGED <<device, machine, reset, condemned>>
    BY <1>5, WritesEffect DEF history
  <2>2. /\ open[o].d \in Device /\ device[open[o].d] # "unused"
        /\ \A r \in Reset : reset[r].at # "idle" => reset[r].d # open[o].d
    BY <2>1 DEF HandInv, Typed, OpenTyped
  <2>3. \A d \in Device \ {open[o].d} : env'[d] = env[d]
    BY <2>1 DEF Typed
  <2> QED
    BY <2>1, <2>2, <2>3 DEF ResetInv, Typed, ResetTyped, ResetOrder
<1>6. ASSUME NEW o \in Open, NEW b \in BOOLEAN, Unshelves(o, b) PROVE ResetInv'
  BY <1>6, UnshelvesEffect DEF history, ResetInv
<1>7. ASSUME NEW r \in Reset, NEW d \in Device, ResetLists(r, d) PROVE ResetInv'
  BY <1>7 DEF ResetLists, rows, cloud, ResetInv, Typed, ResetTyped, ResetOrder
<1>8. ASSUME NEW r \in Reset, NEW b \in BOOLEAN, Destroys(r, b) PROVE ResetInv'
  <2>1. /\ reset[r].at = "destroy" /\ (Resets(r, "revoke") \/ Stops(r))
        /\ UNCHANGED <<device, env, condemned>>
        /\ machine' = [machine EXCEPT ![reset[r].m] = "none"]
    BY <1>8, DestroysEffect DEF rows, history
  <2>2. machine'[reset[r].m] = "none" /\ \A m \in Pooled : machine[m] = "none" => machine'[m] = "none"
    BY <2>1 DEF ResetInv, Typed, Machine
  <2> QED
    BY <2>1, <2>2, ResetsAdvance DEF ResetInv, ResetStage
<1>9. ASSUME NEW r \in Reset, NEW b \in BOOLEAN, Revokes(r, b) PROVE ResetInv'
  <2>1. /\ reset[r].at = "revoke" /\ (Resets(r, "remove") \/ Stops(r))
        /\ UNCHANGED <<machine, env, condemned>>
        /\ device' = [device EXCEPT ![reset[r].d] = "revoked"]
    BY <1>9, RevokesEffect DEF cloud, history
  <2>2. /\ \A d \in Device : device[d] # "unused" => device'[d] # "unused"
        /\ \A d \in Device : device[d] = "revoked" => device'[d] = "revoked"
        /\ reset[r].d \in Device => device'[reset[r].d] = "revoked"
    BY <2>1 DEF Typed
  <2> QED
    BY <2>1, <2>2, ResetsAdvance DEF ResetInv, ResetStage, Typed
<1>10. ASSUME NEW r \in Reset, RevokesAgain(r) PROVE ResetInv'
  <2>1. /\ reset[r].at = "revoke" /\ device[reset[r].d] # "live" /\ Resets(r, "remove")
        /\ UNCHANGED <<machine, device, env, condemned>>
    BY <1>10 DEF RevokesAgain, ResetAt, rows, cloud, history
  <2>2. device[reset[r].d] = "revoked"
    BY <2>1 DEF ResetInv, Typed
  <2> QED
    BY <2>1, <2>2, ResetsAdvance DEF ResetInv, ResetStage
<1>11. ASSUME NEW r \in Reset, Removes(r) PROVE ResetInv'
  <2>1. /\ reset[r].at = "remove" /\ Stops(r) /\ env' = [env EXCEPT ![reset[r].d] = Nobody]
        /\ UNCHANGED <<machine, device, condemned>>
    BY <1>11 DEF Removes, ResetAt, cloud, history
  <2>2. \A d \in Device : env'[d] = env[d] \/ env'[d] = Nobody
    BY <2>1 DEF Typed
  <2> QED
    BY <2>1, <2>2, ResetsAdvance DEF ResetInv, ResetStage, Typed
<1>12. ASSUME NEW r \in Reset, ResetFails(r) PROVE ResetInv'
  <2>1. reset[r].at # "idle" /\ Stops(r) /\ UNCHANGED <<machine, device, env, condemned>>
    BY <1>12 DEF ResetFails, ResetAt, rows, cloud, history
  <2> QED
    BY <2>1, ResetsAdvance DEF ResetInv, ResetStage
<1>13. ASSUME NEW d \in Device, JobStep(d) PROVE ResetInv'
  <2>1. /\ UNCHANGED <<device, env, reset, condemned>>
        /\ \A m \in Machine : machine[m] = "none" => machine'[m] = "none"
    BY <1>13 DEF JobStep, CodeExpires, JobFails, JobInstalls, JobHands, rows, cloud, history,
       Typed
  <2> QED
    BY <2>1 DEF ResetInv, Machine
<1>14. ASSUME NEW d \in Device, RemovalStep(d) PROVE ResetInv'
  <2>1. /\ UNCHANGED <<env, machine, reset, condemned>>
        /\ \A e \in Device : device[e] # "unused" => device'[e] # "unused"
        /\ \A e \in Device : device[e] = "revoked" => device'[e] = "revoked"
    BY <1>14 DEF RemovalStep, RemovalChecks, RemovalRevokes, RemovalFails, rows, cloud,
       history, Typed
  <2> QED
    BY <2>1 DEF ResetInv, Typed
<1>15. ASSUME NEW m \in Pooled, Shelved(m) PROVE ResetInv'
  <2>1. /\ pool[m] = "none" /\ UNCHANGED <<device, env, reset, condemned>>
        /\ machine' = [machine EXCEPT ![m] = "built"]
    BY <1>15 DEF Shelved, history
  <2>2. \A r \in Reset : reset[r].at # "idle" => reset[r].m # m
    BY <2>1 DEF TieInv, Tied, ResetInv, Typed
  <2>3. \A n \in Machine \ {m} : machine'[n] = machine[n]
    BY <2>1 DEF Typed
  <2> QED
    BY <2>1, <2>2, <2>3 DEF ResetInv
<1>16. CASE Crashes
  BY <1>16 DEF Crashes, Idle, rows, ResetInv
<1>17. CASE UNCHANGED vars
  BY <1>17 DEF vars, rows, cloud, history, ResetInv
<1> QED
  BY <1>1, <1>2, <1>3, <1>4, <1>5, <1>6, <1>7, <1>8, <1>9, <1>10, <1>11, <1>12, <1>13,
     <1>14, <1>15, <1>16, <1>17 DEF Next, OpenStep, ResetStep

\* Ties are made when a device is issued for a machine, and at no other time.
LEMMA TiesAreIssued ==
  ASSUME CloudAssumption, Inv, [Next]_vars, NEW m \in Pooled, NEW d \in Device, Tied(m, d)'
  PROVE  \/ Tied(m, d)
         \/ \E o \in Open, b \in BOOLEAN : Issues(o, d, b) /\ open[o].m = m
<1> USE DEF Inv
<1>0. d # Nobody /\ m # Nobody /\ m # Own
  BY DEF CloudAssumption
<1>1. ASSUME NEW o \in Open, Attempts(o) \/ Lists(o) \/ ClaimsNone(o) \/ OpenFails(o)
      PROVE  Tied(m, d)
  <2>1. /\ UNCHANGED <<env, identity, job, reset>>
        /\ \/ Ends(o) \/ Opens(o, "list", Nobody, Nobody)
           \/ Opens(o, "claim", Nobody, Nobody) \/ Opens(o, "create", Nobody, Nobody)
    BY <1>1 DEF Attempts, Lists, ClaimsNone, OpenFails, rows, cloud
  <2> QED
    BY <2>1 DEF Tied, Ends, Opens, Idle, Typed, OpenTyped
<1>2. ASSUME NEW o \in Open, NEW n \in Pooled, NEW b \in BOOLEAN, Claims(o, n, b)
      PROVE  Tied(m, d)
  <2>1. /\ UNCHANGED <<env, identity, job, reset>>
        /\ Opens(o, "issue", n, Nobody) \/ Opens(o, "create", Nobody, Nobody)
    BY <1>2, ClaimsEffect DEF cloud
  <2> QED
    BY <2>1 DEF Tied, Opens, Typed, OpenTyped
<1>3. ASSUME NEW o \in Open, NEW b \in BOOLEAN, Creates(o, b) PROVE Tied(m, d)
  <2>1. /\ UNCHANGED <<env, identity, job, reset>>
        /\ Opens(o, "issue", Own, Nobody) \/ Ends(o)
    BY <1>3, CreatesEffect DEF rows
  <2> QED
    BY <2>1 DEF Tied, Ends, Opens, Idle, Typed, OpenTyped
<1>4. ASSUME NEW o \in Open, NEW e \in Device, NEW b \in BOOLEAN, Issues(o, e, b)
      PROVE  Tied(m, d) \/ (d = e /\ open[o].m = m)
  <2>1. /\ UNCHANGED <<env, identity, job, reset>>
        /\ Opens(o, "write", open[o].m, e) \/ Ends(o)
    BY <1>4, IssuesEffect DEF cloud
  <2> QED
    BY <2>1 DEF Tied, Ends, Opens, Idle, Typed, OpenTyped
<1>5. ASSUME NEW o \in Open, NEW b \in BOOLEAN, Writes(o, b) PROVE Tied(m, d)
  <2>1. /\ open[o].at = "write" /\ env' = [env EXCEPT ![open[o].d] = open[o].m]
        /\ UNCHANGED <<identity, reset>>
    BY <1>5, WritesEffect
  <2>2. \/ Ends(o) /\ job' = job
        \/ open[o].m = Own /\ HandsOver(o, open[o].d, open[o].m)
        \/ Opens(o, "unshelve", open[o].m, open[o].d) /\ job' = job
    BY <1>5, WritesEffect
  <2>3. env'[d] = m => Tied(m, d)
    BY <2>1 DEF Tied, Typed
  <2>4. job'[d].at # "none" /\ job'[d].m = m => Tied(m, d)
    BY <1>0, <2>2 DEF HandsOver, Tied, Typed, JobTyped
  <2>5. ASSUME NEW p \in Open, open'[p].at \in {"write", "unshelve"},
               open'[p].m = m, open'[p].d = d
        PROVE  Tied(m, d)
    BY <2>1, <2>2, <2>5 DEF HandsOver, Tied, Ends, Opens, Idle, Typed, OpenTyped
  <2> QED
    BY <2>1, <2>3, <2>4, <2>5 DEF Tied
<1>6. ASSUME NEW o \in Open, NEW b \in BOOLEAN, Unshelves(o, b) PROVE Tied(m, d)
  <2>1. /\ open[o].at = "unshelve" /\ HandsOver(o, open[o].d, open[o].m)
        /\ UNCHANGED <<env, identity, reset>>
    BY <1>6, UnshelvesEffect
  <2>2. job'[d].at # "none" /\ job'[d].m = m => Tied(m, d)
    BY <2>1 DEF HandsOver, Tied, Typed, JobTyped
  <2>3. ASSUME NEW p \in Open, open'[p].at \in {"write", "unshelve"} PROVE open'[p] = open[p]
    BY <2>1, <2>3 DEF HandsOver, Ends, Idle, Typed, OpenTyped
  <2> QED
    BY <2>1, <2>2, <2>3 DEF Tied
<1>7. ASSUME NEW r \in Reset, NEW e \in Device, ResetLists(r, e) PROVE Tied(m, d)
  <2>1. /\ UNCHANGED <<env, identity, job, open>>
        /\ reset' = [reset EXCEPT ![r] = [at |-> "destroy", m |-> env[e], d |-> e]]
    BY <1>7 DEF ResetLists, rows, cloud
  <2> QED
    BY <2>1 DEF Tied, Typed, ResetTyped
<1>8. ASSUME NEW r \in Reset,
             \/ \E b \in BOOLEAN : Destroys(r, b) \/ Revokes(r, b)
             \/ RevokesAgain(r) \/ Removes(r) \/ ResetFails(r)
      PROVE  Tied(m, d)
  <2>1. /\ reset[r].at # "idle" /\ UNCHANGED <<job, open>>
        /\ Stops(r) \/ \E step \in ResetStage : Resets(r, step)
    BY <1>8, DestroysEffect, RevokesEffect
       DEF RevokesAgain, Removes, ResetFails, ResetAt, ResetStage
  <2>2. env'[d] = env[d] \/ env'[d] = Nobody
    BY <1>8, DestroysEffect, RevokesEffect DEF RevokesAgain, Removes, ResetFails, rows, Typed
  <2>3. identity'[m] = identity[m] \/ identity'[m] = Nobody
    BY <1>8, DestroysEffect, RevokesEffect
       DEF RevokesAgain, Removes, ResetFails, cloud, Typed, Machine
  <2>4. "idle" \in ResetStage
    BY DEF ResetStage
  <2>5. ASSUME NEW p \in Reset, reset'[p].at # "idle", reset'[p].m = m, reset'[p].d = d
        PROVE  Tied(m, d)
    BY <2>1, <2>4, <2>5, ResetsAdvance DEF Tied
  <2> QED
    BY <1>0, <2>1, <2>2, <2>3, <2>5 DEF Tied
<1>9. ASSUME NEW e \in Device, JobStep(e) PROVE Tied(m, d)
  <2>1. UNCHANGED <<env, open, reset>>
    BY <1>9 DEF JobStep, CodeExpires, JobFails, JobInstalls, JobHands, rows
  <2>2. job'[d].m = job[d].m /\ (job'[d].at # "none" => job[d].at # "none")
    BY <1>9 DEF JobStep, CodeExpires, JobFails, JobInstalls, JobHands, JobAt, Steps,
                Typed, JobTyped, Setup
  <2>3. identity'[m] = d => Tied(m, d)
    <3>1. CASE UNCHANGED identity
      BY <3>1 DEF Tied
    <3>2. ASSUME NEW x \in Device, NEW b \in BOOLEAN, JobHands(e, x, b),
                 identity' = [identity EXCEPT ![job[e].m] = x]
          PROVE  identity'[m] = d => Tied(m, d)
      <4>1. x = e /\ job[e].at = "hand"
        BY <3>2 DEF JobHands, Redeems, JobAt
      <4> QED
        BY <3>2, <4>1 DEF Tied, Typed, Machine
    <3>3. \/ UNCHANGED identity
          \/ \E x \in Device, b \in BOOLEAN :
               JobHands(e, x, b) /\ identity' = [identity EXCEPT ![job[e].m] = x]
      <4>1. ASSUME NEW x \in Device, NEW b \in BOOLEAN, JobHands(e, x, b)
            PROVE  identity' = [identity EXCEPT ![job[e].m] = x] \/ UNCHANGED identity
        BY <4>1 DEF JobHands
      <4> QED
        BY <1>9, <4>1 DEF JobStep, CodeExpires, JobFails, JobInstalls, cloud
    <3> QED
      BY <3>1, <3>2, <3>3
  <2> QED
    BY <2>1, <2>2, <2>3 DEF Tied
<1>10. ASSUME NEW e \in Device, RemovalStep(e) PROVE Tied(m, d)
  BY <1>10 DEF RemovalStep, RemovalChecks, RemovalRevokes, RemovalFails, rows, cloud, Tied
<1>11. ASSUME NEW n \in Pooled, Shelved(n) PROVE Tied(m, d)
  BY <1>11 DEF Shelved, Tied
<1>12. CASE Crashes
  <2>1. /\ UNCHANGED <<env, identity>>
        /\ \A o \in Open : open'[o].at = "idle"
        /\ \A r \in Reset : reset'[r].at = "idle"
        /\ job'[d].m = job[d].m /\ (job'[d].at # "none" => job[d].at # "none")
    BY <1>12 DEF Crashes, Idle, rows, Typed, JobTyped, Setup
  <2> QED
    BY <2>1 DEF Tied
<1>13. CASE UNCHANGED vars
  BY <1>13 DEF vars, rows, cloud, Tied
<1> QED
  BY <1>1, <1>2, <1>3, <1>4, <1>5, <1>6, <1>7, <1>8, <1>9, <1>10, <1>11, <1>12, <1>13
     DEF Next, OpenStep, ResetStep

LEMMA TiesStay ==
  ASSUME CloudAssumption, Inv, [Next]_vars
  PROVE  TieInv'
<1> USE DEF Inv
<1>1. \A m \in Pooled : pool[m] \in {"claimed", "gone"} => pool'[m] \in {"claimed", "gone"}
  <2>1. ASSUME NEW o \in Open, NEW b \in BOOLEAN, Unshelves(o, b)
        PROVE  \A m \in Pooled : pool'[m] \in {pool[m], "gone"}
    BY <2>1, UnshelvesEffect DEF Typed
  <2>2. ASSUME NEW o \in Open, NEW n \in Pooled, NEW b \in BOOLEAN, Claims(o, n, b)
        PROVE  \A m \in Pooled : pool'[m] \in {pool[m], "claimed"}
    BY <2>2, ClaimsEffect DEF Typed
  <2>3. ASSUME NEW n \in Pooled, Shelved(n)
        PROVE  \A m \in Pooled : pool'[m] = pool[m] \/ pool[m] = "none"
    BY <2>3 DEF Shelved, Typed
  <2>4. \/ pool' = pool
        \/ \E o \in Open, b \in BOOLEAN : Unshelves(o, b) \/ \E n \in Pooled : Claims(o, n, b)
        \/ \E n \in Pooled : Shelved(n)
    BY DEF Next, OpenStep, ResetStep, JobStep, RemovalStep, vars, rows,
           Attempts, Lists, ClaimsNone, OpenFails, Creates, Issues, Writes,
           ResetLists, Destroys, Revokes, RevokesAgain, Removes, ResetFails,
           CodeExpires, JobFails, JobInstalls, JobHands,
           RemovalChecks, RemovalRevokes, RemovalFails, Crashes
  <2> QED
    BY <2>1, <2>2, <2>3, <2>4
<1>2. ASSUME NEW o \in Open, NEW e \in Device, NEW b \in BOOLEAN, Issues(o, e, b)
      PROVE  TieInv'
  <2>1. /\ open[o].at = "issue" /\ pool' = pool
        /\ Opens(o, "write", open[o].m, e) \/ Ends(o)
    BY <1>2, IssuesEffect
  <2>2. \A m \in Pooled, d \in Device : Tied(m, d)' => Tied(m, d) \/ (d = e /\ open[o].m = m)
    <3>1. \A p \in Open, d \in Device, c \in BOOLEAN : Issues(p, d, c) => p = o /\ d = e
      <4> SUFFICES ASSUME NEW p \in Open, NEW d \in Device, NEW c \in BOOLEAN, Issues(p, d, c)
                   PROVE  p = o /\ d = e
        OBVIOUS
      <4>1. open[p].at = "issue" /\ device[d] = "unused" /\ device' = [device EXCEPT ![d] = "live"]
        BY IssuesEffect
      <4>2. device[e] = "unused" /\ device' = [device EXCEPT ![e] = "live"]
        BY <1>2, IssuesEffect
      <4> QED
        BY <2>1, <4>1, <4>2 DEF AttemptInv, Typed
    <3> QED
      BY <3>1, TiesAreIssued
  <2>3. \A m \in Pooled : open[o].m = m => pool[m] = "claimed" /\ \A d \in Device : ~Tied(m, d)
    BY <2>1 DEF TieInv
  <2>4. \A p \in Open : open'[p].at # "issue"
    BY <2>1 DEF Opens, Ends, Idle, AttemptInv, Typed, OpenTyped
  <2> QED
    BY <2>1, <2>2, <2>3, <2>4 DEF TieInv
<1>3. ASSUME \A m \in Pooled, d \in Device : Tied(m, d)' => Tied(m, d),
             \A p \in Open, m \in Pooled : open'[p].at = "issue" /\ open'[p].m = m =>
               pool'[m] = "claimed" /\ \A d \in Device : ~Tied(m, d)
      PROVE  TieInv'
  BY <1>1, <1>3 DEF TieInv
<1>4. ASSUME NEW o \in Open, NEW n \in Pooled, NEW b \in BOOLEAN, Claims(o, n, b)
      PROVE  \A p \in Open, m \in Pooled : open'[p].at = "issue" /\ open'[p].m = m =>
               pool'[m] = "claimed" /\ \A d \in Device : ~Tied(m, d)
  <2>1. /\ open[o].at = "claim" /\ pool[n] = "ready" /\ pool' = [pool EXCEPT ![n] = "claimed"]
        /\ Opens(o, "issue", n, Nobody) \/ Opens(o, "create", Nobody, Nobody)
    BY <1>4, ClaimsEffect
  <2>2. \A p \in Open \ {o} : open'[p].at # "issue"
    BY <2>1 DEF Opens, AttemptInv, Typed, OpenTyped
  <2>3. open'[o].at = "issue" => open'[o].m = n
    BY <2>1 DEF Opens, Typed, OpenTyped
  <2>4. pool'[n] = "claimed" /\ \A d \in Device : ~Tied(n, d)
    BY <2>1 DEF TieInv, Typed
  <2> QED
    BY <2>2, <2>3, <2>4
<1>5. ASSUME NEW o \in Open, NEW b \in BOOLEAN, Unshelves(o, b)
      PROVE  \A p \in Open : open'[p].at # "issue"
  <2>1. open[o].at = "unshelve" /\ Ends(o)
    BY <1>5, UnshelvesEffect DEF HandsOver
  <2> QED
    BY <2>1 DEF Ends, Idle, AttemptInv, Typed, OpenTyped
<1>6. ASSUME NEW n \in Pooled, Shelved(n)
      PROVE  \A p \in Open, m \in Pooled : open'[p].at = "issue" /\ open'[p].m = m =>
               pool'[m] = "claimed" /\ \A d \in Device : ~Tied(m, d)
  BY <1>6 DEF Shelved, TieInv, Typed
<1>7. ASSUME pool' = pool,
             \A p \in Open, m \in Pooled :
               open'[p].at = "issue" /\ open'[p].m = m => open[p].at = "issue" /\ open[p].m = m
      PROVE  \A p \in Open, m \in Pooled : open'[p].at = "issue" /\ open'[p].m = m =>
               pool'[m] = "claimed" /\ \A d \in Device : ~Tied(m, d)
  BY <1>7 DEF TieInv
<1>8. ASSUME NEW o \in Open,
             \/ Attempts(o) \/ Lists(o) \/ ClaimsNone(o) \/ OpenFails(o)
             \/ \E b \in BOOLEAN : Creates(o, b) \/ Writes(o, b)
      PROVE  /\ pool' = pool
             /\ \A p \in Open, m \in Pooled :
                  open'[p].at = "issue" /\ open'[p].m = m => open[p].at = "issue" /\ open[p].m = m
  <2>1. /\ pool' = pool
        /\ \/ Ends(o)
           \/ \E step \in AttemptStep \ {"issue"} : \E m, d : Opens(o, step, m, d)
           \/ Opens(o, "issue", Own, Nobody)
    BY <1>8, CreatesEffect, WritesEffect
       DEF Attempts, Lists, ClaimsNone, OpenFails, HandsOver, rows, AttemptStep
  <2>2. Own \notin Pooled
    BY DEF CloudAssumption
  <2> QED
    BY <2>1, <2>2 DEF Ends, Opens, Idle, Typed, OpenTyped
<1>9. \/ \E o \in Open :
           \/ Attempts(o) \/ Lists(o) \/ ClaimsNone(o) \/ OpenFails(o)
           \/ \E b \in BOOLEAN : Creates(o, b) \/ Writes(o, b) \/ Unshelves(o, b)
           \/ \E e \in Device, b \in BOOLEAN : Issues(o, e, b)
           \/ \E m \in Pooled, b \in BOOLEAN : Claims(o, m, b)
      \/ \E m \in Pooled : Shelved(m)
      \/ Crashes
      \/ UNCHANGED <<pool, open>>
  BY DEF Next, OpenStep, ResetStep, JobStep, RemovalStep, vars, rows,
         ResetLists, Destroys, Revokes, RevokesAgain, Removes, ResetFails,
         CodeExpires, JobFails, JobInstalls, JobHands,
         RemovalChecks, RemovalRevokes, RemovalFails
<1>10. ASSUME Crashes PROVE pool' = pool /\ \A p \in Open : open'[p].at # "issue"
  BY <1>10 DEF Crashes, Idle, rows
<1>11. CASE \E o \in Open, e \in Device, b \in BOOLEAN : Issues(o, e, b)
  BY <1>2, <1>11
<1>12. CASE ~\E o \in Open, e \in Device, b \in BOOLEAN : Issues(o, e, b)
  <2>1. \A m \in Pooled, d \in Device : Tied(m, d)' => Tied(m, d)
    BY <1>12, TiesAreIssued
  <2>2. \A p \in Open, m \in Pooled : open'[p].at = "issue" /\ open'[p].m = m =>
          pool'[m] = "claimed" /\ \A d \in Device : ~Tied(m, d)
    BY <1>4, <1>5, <1>6, <1>7, <1>8, <1>9, <1>10, <1>12
  <2> QED
    BY <1>3, <2>1, <2>2
<1> QED
  BY <1>11, <1>12

\* The machine that an attempt holds belongs to no reset.
LEMMA HeldIsNotReset ==
  ASSUME Inv, NEW o \in Open, open[o].at \in {"issue", "write"}, open[o].m \in Pooled,
         NEW r \in Reset, reset[r].at # "idle"
  PROVE  reset[r].m # open[o].m
<1> USE DEF Inv
<1>1. reset[r].d \in Device
  BY DEF ResetInv, Typed
<1>2. CASE open[o].at = "issue"
  BY <1>1, <1>2 DEF TieInv, Tied
<1>3. CASE open[o].at = "write"
  <2>1. open[o].d \in Device /\ reset[r].d # open[o].d
    BY <1>3 DEF HandInv, Typed, OpenTyped
  <2> QED
    BY <1>1, <1>3, <2>1 DEF TieInv, Tied
<1> QED
  BY <1>2, <1>3

\* Nothing is destroyed, put on sale, taken off sale, named or forgotten.
LEMMA StandsAsItDid ==
  ASSUME Inv, UNCHANGED <<pool, env>>, condemned \subseteq condemned',
         \A m \in Pooled : machine'[m] = "none" <=> machine[m] = "none",
         \A o \in Open : open'[o].at \in {"issue", "write", "unshelve"} =>
           \/ open'[o] = open[o]
           \/ open'[o].at \in {"issue", "write"} /\ open'[o].m \notin Pooled
           \/ /\ open[o].at = "issue" /\ open'[o].at = "write"
              /\ open'[o].m = open[o].m
  PROVE  StandInv'
<1> USE DEF Inv
<1>1. \A o \in Open : open[o].at = "unshelve" => open[o].m \in Pooled
  BY DEF HandInv
<1>2. \A o \in Open : open[o].at = "issue" /\ open[o].m \in Pooled => pool[open[o].m] = "claimed"
  BY DEF TieInv
<1> QED
  BY <1>1, <1>2 DEF StandInv, NothingUnnamed

LEMMA StandStays ==
  ASSUME CloudAssumption, Inv, [Next]_vars
  PROVE  StandInv'
<1> USE DEF Inv
<1>0. Own \notin Pooled /\ Nobody \notin Pooled
  BY DEF CloudAssumption
<1>1. ASSUME NEW o \in Open, Attempts(o) \/ Lists(o) \/ ClaimsNone(o) \/ OpenFails(o)
      PROVE  StandInv'
  <2>1. /\ UNCHANGED <<pool, env, machine, condemned>>
        /\ Ends(o) \/ \E step \in {"list", "claim", "create"} : \E m, d : Opens(o, step, m, d)
    BY <1>1 DEF Attempts, Lists, ClaimsNone, OpenFails, rows, cloud, history
  <2>2. \A p \in Open : open'[p].at \in {"issue", "write", "unshelve"} => open'[p] = open[p]
    BY <2>1 DEF Ends, Opens, Idle, Typed, OpenTyped
  <2> QED
    BY <2>1, <2>2, StandsAsItDid
<1>2. ASSUME NEW o \in Open, NEW m \in Pooled, NEW b \in BOOLEAN, Claims(o, m, b)
      PROVE  StandInv'
  <2>1. /\ open[o].at = "claim" /\ pool[m] = "ready" /\ pool' = [pool EXCEPT ![m] = "claimed"]
        /\ UNCHANGED <<env, machine, condemned>>
        /\ Opens(o, "issue", m, Nobody) \/ Opens(o, "create", Nobody, Nobody)
    BY <1>2, ClaimsEffect DEF cloud, history
  <2>2. /\ machine[m] # "none" /\ \A n \in Pooled \ {m} : pool'[n] = pool[n]
        /\ pool'[m] = "claimed"
    BY <2>1 DEF StandInv, Typed
  <2>3. \A p \in Open : open'[p].at \in {"issue", "write", "unshelve"} =>
          open'[p].at = "issue" /\ open'[p].m = m
    BY <2>1 DEF Opens, AttemptInv, Typed, OpenTyped
  <2> QED
    BY <2>1, <2>2, <2>3 DEF StandInv, NothingUnnamed
<1>3. ASSUME NEW o \in Open, NEW b \in BOOLEAN, Creates(o, b) PROVE StandInv'
  <2>1. /\ UNCHANGED <<pool, env, condemned>> /\ (Opens(o, "issue", Own, Nobody) \/ Ends(o))
        /\ machine' = [machine EXCEPT ![Own] = IF @ = "none" THEN "bare" ELSE @]
    BY <1>3, CreatesEffect DEF rows, history
  <2>2. \A m \in Pooled : machine'[m] = machine[m]
    BY <1>0, <2>1 DEF Typed, Machine
  <2>3. \A p \in Open : open'[p].at \in {"issue", "write", "unshelve"} =>
          open'[p] = open[p] \/ (open'[p].at = "issue" /\ open'[p].m = Own)
    BY <2>1 DEF Ends, Opens, Idle, Typed, OpenTyped
  <2> QED
    BY <1>0, <2>1, <2>2, <2>3, StandsAsItDid
<1>4. ASSUME NEW o \in Open, NEW d \in Device, NEW b \in BOOLEAN, Issues(o, d, b)
      PROVE  StandInv'
  <2>1. /\ open[o].at = "issue" /\ UNCHANGED <<pool, env, machine, condemned>>
        /\ Opens(o, "write", open[o].m, d) \/ Ends(o)
    BY <1>4, IssuesEffect DEF cloud
  <2>2. \A p \in Open : open'[p].at \in {"issue", "write", "unshelve"} =>
          \/ open'[p] = open[p]
          \/ p = o /\ open'[p].at = "write" /\ open'[p].m = open[o].m
    BY <2>1 DEF Ends, Opens, Idle, Typed, OpenTyped
  <2> QED
    BY <2>1, <2>2, StandsAsItDid
<1>5. ASSUME NEW o \in Open, NEW b \in BOOLEAN, Writes(o, b) PROVE StandInv'
  <2>1. /\ open[o].at = "write" /\ env' = [env EXCEPT ![open[o].d] = open[o].m]
        /\ UNCHANGED <<pool, machine, condemned>>
        /\ Ends(o) \/ Opens(o, "unshelve", open[o].m, open[o].d)
    BY <1>5, WritesEffect DEF HandsOver, history
  <2>2. /\ open[o].d \in Device /\ env'[open[o].d] = open[o].m
        /\ \A d \in Device \ {open[o].d} : env'[d] = Nobody /\ env[d] = Nobody
        /\ env[open[o].d] = Nobody
    BY <2>1 DEF AttemptInv, Typed, OpenTyped
  <2>3. \A p \in Open : open'[p].at \in {"issue", "write", "unshelve"} =>
          open'[p].at = "unshelve" /\ open'[p].m = open[o].m /\ open'[p].d = open[o].d
    BY <2>1 DEF Ends, Opens, Idle, AttemptInv, Typed, OpenTyped
  <2> QED
    BY <1>0, <2>1, <2>2, <2>3 DEF StandInv, NothingUnnamed
<1>6. ASSUME NEW o \in Open, NEW b \in BOOLEAN, Unshelves(o, b) PROVE StandInv'
  <2>1. /\ open[o].at = "unshelve" /\ Ends(o) /\ UNCHANGED <<env, machine, condemned>>
        /\ pool' = [pool EXCEPT ![open[o].m] = "gone"] \/ pool' = pool
    BY <1>6, UnshelvesEffect DEF HandsOver, history
  <2>2. open[o].d \in Device /\ (env[open[o].d] = open[o].m \/ machine[open[o].m] = "none")
    BY <2>1 DEF StandInv, HandInv
  <2>3. \A m \in Pooled : pool'[m] = pool[m] \/ (pool'[m] = "gone" /\ m = open[o].m)
    BY <2>1 DEF Typed
  <2>4. \A p \in Open : open'[p].at \notin {"issue", "write", "unshelve"}
    BY <2>1 DEF Ends, Idle, AttemptInv, Typed, OpenTyped
  <2> QED
    BY <2>1, <2>2, <2>3, <2>4 DEF StandInv, NothingUnnamed
<1>7. ASSUME NEW r \in Reset, NEW d \in Device, ResetLists(r, d) PROVE StandInv'
  <2>1. UNCHANGED <<pool, env, machine, open>> /\ condemned \subseteq condemned'
    BY <1>7 DEF ResetLists, rows, cloud
  <2> QED
    BY <2>1, StandsAsItDid
<1>8. ASSUME NEW r \in Reset, NEW b \in BOOLEAN, Destroys(r, b) PROVE StandInv'
  <2>1. /\ reset[r].at = "destroy" /\ UNCHANGED <<pool, env, open, condemned>>
        /\ machine' = [machine EXCEPT ![reset[r].m] = "none"]
    BY <1>8, DestroysEffect DEF rows, history
  <2>2. reset[r].m \in Machine /\ reset[r].d \in Device \cap condemned
    BY <2>1 DEF ResetInv, Typed
  <2>3. /\ \A m \in Machine : m # reset[r].m => machine'[m] = machine[m]
        /\ machine'[reset[r].m] = "none"
    BY <2>1, <2>2 DEF Typed
  <2>4. reset[r].m \in Pooled => pool[reset[r].m] \in {"claimed", "gone"}
    BY <2>1, <2>2 DEF TieInv, Tied
  <2>5. \A d \in Device : env[d] = reset[r].m /\ reset[r].m \in Pooled => d \in condemned
    BY <2>1, <2>2 DEF TieInv, Tied
  <2>6. \A o \in Open :
          open[o].at \in {"issue", "write"} /\ open[o].m \in Pooled => reset[r].m # open[o].m
    BY <2>1, HeldIsNotReset
  <2>7. \A o \in Open : open[o].at = "unshelve" => open[o].m \in Machine
    BY DEF HandInv, Machine
  <2> QED
    BY <2>1, <2>3, <2>4, <2>5, <2>6, <2>7 DEF StandInv, NothingUnnamed, Machine
<1>9. ASSUME NEW r \in Reset,
             \/ \E b \in BOOLEAN : Revokes(r, b)
             \/ RevokesAgain(r) \/ ResetFails(r)
      PROVE  StandInv'
  <2>1. UNCHANGED <<pool, env, machine, open, condemned>>
    BY <1>9, RevokesEffect DEF RevokesAgain, ResetFails, rows, cloud, history
  <2> QED
    BY <2>1, StandsAsItDid
<1>10. ASSUME NEW r \in Reset, Removes(r) PROVE StandInv'
  <2>1. /\ reset[r].at = "remove" /\ UNCHANGED <<pool, machine, open, condemned>>
        /\ env' = [env EXCEPT ![reset[r].d] = Nobody]
    BY <1>10 DEF Removes, ResetAt, cloud, history
  <2>2. \A d \in Device : env'[d] = env[d] \/ (d = reset[r].d /\ env'[d] = Nobody)
    BY <2>1 DEF Typed
  <2>3. \A m \in Pooled : env[reset[r].d] = m => machine[m] = "none"
    BY <1>0, <2>1 DEF ResetInv
  <2>4. \A o \in Open : open[o].at = "unshelve" => open[o].m \in Pooled /\ open[o].d \in Device
    BY DEF HandInv
  <2> QED
    BY <1>0, <2>1, <2>2, <2>3, <2>4 DEF StandInv, NothingUnnamed
<1>11. ASSUME NEW d \in Device, JobStep(d) PROVE StandInv'
  <2>1. UNCHANGED <<pool, env, open, condemned>>
    BY <1>11 DEF JobStep, CodeExpires, JobFails, JobInstalls, JobHands, rows, history
  <2>2. ASSUME NEW works \in BOOLEAN, JobInstalls(d, works)
        PROVE  machine' = machine \/
                 (machine[job[d].m] # "none" /\ machine' = [machine EXCEPT ![job[d].m] = "built"])
    BY <2>2 DEF JobInstalls
  <2>3. \/ machine' = machine
        \/ machine[job[d].m] # "none" /\ machine' = [machine EXCEPT ![job[d].m] = "built"]
    BY <1>11, <2>2 DEF JobStep, CodeExpires, JobFails, JobHands, cloud
  <2>4. \A m \in Pooled : machine'[m] = "none" <=> machine[m] = "none"
    BY <2>3 DEF Typed, Machine
  <2> QED
    BY <2>1, <2>4, StandsAsItDid
<1>12. ASSUME NEW d \in Device, RemovalStep(d) PROVE StandInv'
  <2>1. UNCHANGED <<pool, env, machine, open, condemned>>
    BY <1>12 DEF RemovalStep, RemovalChecks, RemovalRevokes, RemovalFails, rows, cloud, history
  <2> QED
    BY <2>1, StandsAsItDid
<1>13. ASSUME NEW m \in Pooled, Shelved(m) PROVE StandInv'
  <2>1. /\ pool[m] = "none" /\ pool' = [pool EXCEPT ![m] = "ready"]
        /\ machine' = [machine EXCEPT ![m] = "built"] /\ UNCHANGED <<env, open, condemned>>
    BY <1>13 DEF Shelved, history
  <2>2. /\ pool'[m] = "ready" /\ machine'[m] = "built"
        /\ \A n \in Pooled \ {m} : pool'[n] = pool[n] /\ machine'[n] = machine[n]
    BY <2>1 DEF Typed, Machine
  <2>3. \A d \in Device : ~Tied(m, d)
    BY <2>1 DEF TieInv
  <2>4. \A o \in Open : open[o].at = "unshelve" => open[o].m # m /\ open[o].m \in Pooled
    BY <2>3 DEF HandInv, Tied
  <2>5. \A o \in Open : open[o].at = "write" => open[o].m # m
    BY <2>3 DEF Tied, Typed, OpenTyped
  <2> QED
    BY <2>1, <2>2, <2>4, <2>5 DEF StandInv, NothingUnnamed
<1>14. CASE Crashes
  <2>1. /\ UNCHANGED <<pool, env, machine, condemned>>
        /\ \A o \in Open : open'[o].at = "idle"
    BY <1>14 DEF Crashes, Idle, rows
  <2> QED
    BY <2>1, StandsAsItDid
<1>15. CASE UNCHANGED vars
  BY <1>15, StandsAsItDid DEF vars, rows, cloud, history
<1> QED
  BY <1>1, <1>2, <1>3, <1>4, <1>5, <1>6, <1>7, <1>8, <1>9, <1>10, <1>11, <1>12, <1>13,
     <1>14, <1>15 DEF Next, OpenStep, ResetStep

\* No device is revoked or left alone, and nobody is about to write another.
LEMMA DevicesAsTheyWere ==
  ASSUME Inv, UNCHANGED <<device, env>>, condemned \subseteq condemned', raced \subseteq raced',
         ghosts \subseteq ghosts', removing' \subseteq removing,
         \A o \in Open : open'[o].at = "write" => open'[o] = open[o],
         \A o \in Open : open[o].at = "write" =>
           open'[o] = open[o] \/ open[o].d \in ghosts'
  PROVE  DeviceInv'
<1> USE DEF Inv
<1>1. NoGhostDevice'
  BY DEF DeviceInv, NoGhostDevice, OpenAt
<1> QED
  BY <1>1 DEF DeviceInv

LEMMA DeviceStays ==
  ASSUME CloudAssumption, Inv, [Next]_vars
  PROVE  DeviceInv'
<1> USE DEF Inv
<1>0. Nobody \notin Device
  BY DEF CloudAssumption
<1>1. ASSUME NEW o \in Open, Attempts(o) \/ Lists(o) \/ ClaimsNone(o) PROVE DeviceInv'
  <2>1. /\ UNCHANGED <<device, env, removing, history>> /\ open[o].at # "write"
        /\ Ends(o) \/ \E step \in {"list", "claim", "create"} : \E m, d : Opens(o, step, m, d)
    BY <1>1 DEF Attempts, MayAttempt, Lists, ClaimsNone, OpenAt, rows
  <2>2. \A p \in Open : /\ open'[p].at = "write" => open'[p] = open[p]
                        /\ open[p].at = "write" => open'[p] = open[p]
    BY <2>1 DEF Ends, Opens, Idle, Typed, OpenTyped
  <2> QED
    BY <2>1, <2>2, DevicesAsTheyWere DEF history
<1>2. ASSUME NEW o \in Open, OpenFails(o) PROVE DeviceInv'
  <2>1. /\ UNCHANGED <<device, env, removing, condemned, raced>> /\ Ends(o)
        /\ ghosts \subseteq ghosts' /\ (open[o].at = "write" => open[o].d \in ghosts')
    BY <1>2 DEF OpenFails, OpenAt, rows
  <2>2. \A p \in Open : /\ open'[p].at = "write" => open'[p] = open[p]
                        /\ p = o \/ open'[p] = open[p]
    BY <2>1 DEF Ends, Idle, Typed, OpenTyped
  <2> QED
    BY <2>1, <2>2, DevicesAsTheyWere
<1>3. ASSUME NEW o \in Open, NEW b \in BOOLEAN,
             (\E m \in Pooled : Claims(o, m, b)) \/ Creates(o, b) \/ Unshelves(o, b)
      PROVE  DeviceInv'
  <2>1. ASSUME NEW m \in Pooled, Claims(o, m, b) PROVE DeviceInv'
    <3>1. /\ UNCHANGED <<device, env, removing, history>> /\ open[o].at # "write"
          /\ Opens(o, "issue", m, Nobody) \/ Opens(o, "create", Nobody, Nobody)
      BY <2>1, ClaimsEffect
    <3>2. \A p \in Open : /\ open'[p].at = "write" => open'[p] = open[p]
                          /\ open[p].at = "write" => open'[p] = open[p]
      BY <3>1 DEF Opens, Typed, OpenTyped
    <3> QED
      BY <3>1, <3>2, DevicesAsTheyWere DEF history
  <2>2. CASE Creates(o, b)
    <3>1. /\ UNCHANGED <<device, env, removing, history>> /\ open[o].at # "write"
          /\ Opens(o, "issue", Own, Nobody) \/ Ends(o)
      BY <2>2, CreatesEffect DEF rows
    <3>2. \A p \in Open : /\ open'[p].at = "write" => open'[p] = open[p]
                          /\ open[p].at = "write" => open'[p] = open[p]
      BY <3>1 DEF Ends, Opens, Idle, Typed, OpenTyped
    <3> QED
      BY <3>1, <3>2, DevicesAsTheyWere DEF history
  <2>3. CASE Unshelves(o, b)
    <3>1. /\ UNCHANGED <<device, env, removing, history>> /\ open[o].at # "write"
          /\ Ends(o)
      BY <2>3, UnshelvesEffect DEF HandsOver
    <3>2. \A p \in Open : /\ open'[p].at = "write" => open'[p] = open[p]
                          /\ open[p].at = "write" => open'[p] = open[p]
      BY <3>1 DEF Ends, Idle, Typed, OpenTyped
    <3> QED
      BY <3>1, <3>2, DevicesAsTheyWere DEF history
  <2> QED
    BY <1>3, <2>1, <2>2, <2>3
<1>4. ASSUME NEW o \in Open, NEW d \in Device, NEW b \in BOOLEAN, Issues(o, d, b)
      PROVE  DeviceInv'
  <2>1. /\ open[o].at = "issue" /\ device[d] = "unused"
        /\ device' = [device EXCEPT ![d] = "live"]
        /\ UNCHANGED <<env, removing, condemned, raced>>
        /\ \/ Opens(o, "write", open[o].m, d) /\ UNCHANGED ghosts
           \/ Ends(o) /\ ghosts' = ghosts \cup {d}
    BY <1>4, IssuesEffect
  <2>2. device'[d] = "live" /\ \A e \in Device \ {d} : device'[e] = device[e]
    BY <2>1 DEF Typed
  <2>3. d \notin removing /\ env[d] = Nobody
    BY <2>1 DEF DeviceInv, ResetInv
  <2>4. \A p \in Open : open[p].at # "write"
    BY <2>1 DEF AttemptInv
  <2>5. \A p \in Open : open'[p].at = "write" => p = o /\ open'[p].d = d
    BY <2>1, <2>4 DEF Ends, Opens, Idle, Typed, OpenTyped
  <2>6. \/ open'[o].at = "write" /\ open'[o].d = d
        \/ d \in ghosts'
    BY <2>1 DEF Opens, Typed, OpenTyped
  <2>7. NoGhostDevice'
    BY <2>1, <2>2, <2>4, <2>6 DEF DeviceInv, NoGhostDevice, OpenAt
  <2> QED
    BY <2>1, <2>2, <2>3, <2>5, <2>7 DEF DeviceInv, Typed
<1>5. ASSUME NEW o \in Open, NEW b \in BOOLEAN, Writes(o, b) PROVE DeviceInv'
  <2>1. /\ open[o].at = "write" /\ env' = [env EXCEPT ![open[o].d] = open[o].m]
        /\ UNCHANGED <<device, removing, history>>
        /\ Ends(o) \/ Opens(o, "unshelve", open[o].m, open[o].d)
    BY <1>5, WritesEffect DEF HandsOver
  <2>2. open[o].d \in Device /\ open[o].m \in Machine /\ open[o].m # Nobody
    BY <2>1 DEF HandInv, Typed, OpenTyped, CloudAssumption, Machine
  <2>3. env'[open[o].d] # Nobody /\ \A d \in Device \ {open[o].d} : env'[d] = env[d]
    BY <2>1, <2>2 DEF Typed
  <2>4. \A p \in Open : /\ open'[p].at # "write"
                        /\ open[p].at = "write" => p = o
    BY <2>1 DEF Ends, Opens, Idle, AttemptInv, Typed, OpenTyped
  <2>5. NoGhostDevice'
    BY <2>1, <2>3, <2>4 DEF DeviceInv, NoGhostDevice, OpenAt, history
  <2> QED
    BY <2>1, <2>2, <2>3, <2>4, <2>5 DEF DeviceInv, history, Typed
<1>6. ASSUME NEW r \in Reset,
             \/ \E d \in Device : ResetLists(r, d)
             \/ \E b \in BOOLEAN : Destroys(r, b)
             \/ RevokesAgain(r) \/ ResetFails(r)
      PROVE  DeviceInv'
  <2>1. /\ UNCHANGED <<device, env, removing, open, ghosts, raced>>
        /\ condemned \subseteq condemned'
    BY <1>6, DestroysEffect DEF ResetLists, RevokesAgain, ResetFails, rows, history
  <2> QED
    BY <2>1, DevicesAsTheyWere
<1>7. ASSUME NEW r \in Reset, NEW b \in BOOLEAN, Revokes(r, b) PROVE DeviceInv'
  <2>1. /\ reset[r].at # "idle" /\ UNCHANGED <<env, open, removing, history>>
        /\ device' = [device EXCEPT ![reset[r].d] = "revoked"]
    BY <1>7, RevokesEffect
  <2>2. reset[r].d \in condemned /\ \A o \in Open : open[o].at = "write" => open[o].d # reset[r].d
    BY <2>1 DEF ResetInv, HandInv
  <2>3. \A d \in Device : device'[d] = device[d] \/ (d = reset[r].d /\ device'[d] = "revoked")
    BY <2>1 DEF Typed
  <2>4. NoGhostDevice'
    BY <2>1, <2>3 DEF DeviceInv, NoGhostDevice, OpenAt, history
  <2> QED
    BY <2>1, <2>2, <2>3, <2>4 DEF DeviceInv, history, Typed, OpenTyped
<1>8. ASSUME NEW r \in Reset, Removes(r) PROVE DeviceInv'
  <2>1. /\ reset[r].at = "remove" /\ UNCHANGED <<device, open, removing, history>>
        /\ env' = [env EXCEPT ![reset[r].d] = Nobody]
    BY <1>8 DEF Removes, ResetAt
  <2>2. device[reset[r].d] = "revoked"
    BY <2>1 DEF ResetInv
  <2>3. \A d \in Device : env'[d] = env[d] \/ (d = reset[r].d /\ env'[d] = Nobody)
    BY <2>1 DEF Typed
  <2>4. NoGhostDevice'
    BY <2>1, <2>2, <2>3 DEF DeviceInv, NoGhostDevice, OpenAt, history
  <2> QED
    BY <2>1, <2>3, <2>4 DEF DeviceInv, history, Typed
<1>9. ASSUME NEW d \in Device, JobStep(d) PROVE DeviceInv'
  <2>1. UNCHANGED <<device, env, removing, open, history>>
    BY <1>9 DEF JobStep, CodeExpires, JobFails, JobInstalls, JobHands, rows
  <2> QED
    BY <2>1, DevicesAsTheyWere DEF history
<1>10. ASSUME NEW d \in Device, RemovalChecks(d) PROVE DeviceInv'
  <2>1. /\ device[d] = "live" /\ env[d] = Nobody /\ removing' = removing \cup {d}
        /\ raced \subseteq raced' /\ UNCHANGED <<device, env, open, condemned, ghosts>>
        /\ (\E o \in Open : open[o].d = d) => d \in raced'
    BY <1>10 DEF RemovalChecks, rows
  <2>2. NoGhostDevice'
    BY <2>1 DEF DeviceInv, NoGhostDevice, OpenAt
  <2> QED
    BY <2>1, <2>2 DEF DeviceInv
<1>11. ASSUME NEW d \in Device, RemovalRevokes(d) PROVE DeviceInv'
  <2>1. /\ d \in removing /\ removing' = removing \ {d}
        /\ device' = [device EXCEPT ![d] = "revoked"] /\ UNCHANGED <<env, open, history>>
    BY <1>11 DEF RemovalRevokes
  <2>2. \A e \in Device : device'[e] = device[e] \/ (e = d /\ device'[e] = "revoked")
    BY <2>1 DEF Typed
  <2>3. NoGhostDevice'
    BY <2>1, <2>2 DEF DeviceInv, NoGhostDevice, OpenAt, history
  <2> QED
    BY <2>1, <2>2, <2>3 DEF DeviceInv, history, Typed, OpenTyped
<1>12. ASSUME NEW d \in Device, RemovalFails(d) PROVE DeviceInv'
  <2>1. UNCHANGED <<device, env, open, history>> /\ removing' \subseteq removing
    BY <1>12 DEF RemovalFails, rows
  <2> QED
    BY <2>1, DevicesAsTheyWere DEF history
<1>13. ASSUME NEW m \in Pooled, Shelved(m) PROVE DeviceInv'
  BY <1>13, DevicesAsTheyWere DEF Shelved, history
<1>14. CASE Crashes
  <2>1. /\ UNCHANGED <<device, env, condemned, raced>> /\ removing' \subseteq removing
        /\ \A o \in Open : open'[o].at = "idle"
        /\ ghosts \subseteq ghosts'
        /\ \A o \in Open : open[o].at = "write" => open[o].d \in ghosts'
    BY <1>14 DEF Crashes, Idle, OpenAt, rows
  <2> QED
    BY <2>1, DevicesAsTheyWere
<1>15. CASE UNCHANGED vars
  <2>1. UNCHANGED <<device, env, removing, open, history>>
    BY <1>15 DEF vars, rows
  <2> QED
    BY <2>1, DevicesAsTheyWere DEF history
<1> QED
  BY <1>1, <1>2, <1>3, <1>4, <1>5, <1>6, <1>7, <1>8, <1>9, <1>10, <1>11, <1>12, <1>13,
     <1>14, <1>15 DEF Next, OpenStep, ResetStep, RemovalStep


LEMMA InitIsInv ==
  ASSUME CloudAssumption, Init
  PROVE  Inv
<1> USE DEF Init, Idle
<1>1. Typed
  BY InitIsTyped
<1>2. AttemptInv /\ HandInv
  BY DEF AttemptInv, HandInv
<1>3. ResetInv /\ DeviceInv
  BY DEF ResetInv, DeviceInv, NoGhostDevice
<1>4. \A m \in Pooled, d \in Device : ~Tied(m, d)
  BY DEF Tied, Machine, CloudAssumption
<1>5. TieInv
  BY <1>4 DEF TieInv
<1>6. StandInv
  BY DEF StandInv, NothingUnnamed, Machine, CloudAssumption
<1> QED
  BY <1>1, <1>2, <1>3, <1>5, <1>6 DEF Inv

\* The conjunction of the parts is inductive.
LEMMA InvHolds ==
  ASSUME CloudAssumption
  PROVE  Spec => []Inv
<1>1. Init => Inv
  BY InitIsInv
<1>2. Inv /\ [Next]_vars => Inv'
  <2> SUFFICES ASSUME Inv, [Next]_vars PROVE Inv'
    OBVIOUS
  <2>1. Typed
    BY DEF Inv
  <2> QED
    BY <2>1, TypedStays, AttemptStays, HandStays, ResetStays, TiesStay, StandStays, DeviceStays
       DEF Inv
<1> QED
  BY <1>1, <1>2, PTL DEF Spec

\* However many taps and tabs open it, whatever is reset meanwhile and wherever
\* an attempt failed or died, the account has one environment at most.
THEOREM EnvironmentIsOne == CloudAssumption => (Spec => []OneEnvironment)
<1> SUFFICES ASSUME CloudAssumption PROVE Spec => []OneEnvironment
  OBVIOUS
<1>1. Inv => OneEnvironment
  <2> SUFFICES ASSUME Inv PROVE Cardinality(Environments) <= 1
    BY DEF OneEnvironment
  <2>1. \A d, e \in Environments : d = e
    BY DEF Inv, AttemptInv, Environments
  <2>2. CASE Environments = {}
    BY <2>2, FS_EmptySet
  <2>3. CASE Environments # {}
    <3>1. PICK d \in Environments : Environments = {d}
      BY <2>1, <2>3
    <3> QED
      BY <3>1, FS_Singleton
  <2> QED
    BY <2>2, <2>3
<1> QED
  BY <1>1, InvHolds, PTL

\* No crash, failure or order of open and reset leaves a machine taken off the
\* shelf running with no row that refers to it.
THEOREM NothingIsUnnamed == CloudAssumption => (Spec => []NothingUnnamed)
<1> SUFFICES ASSUME CloudAssumption PROVE Spec => []NothingUnnamed
  OBVIOUS
<1>1. Inv => NothingUnnamed
  BY DEF Inv, StandInv
<1> QED
  BY <1>1, InvHolds, PTL

\* A reset leaves no live device of the cloud behind without an environment.
THEOREM NoDeviceIsAGhost == CloudAssumption => (Spec => []NoGhostDevice)
<1> SUFFICES ASSUME CloudAssumption PROVE Spec => []NoGhostDevice
  OBVIOUS
<1>1. Inv => NoGhostDevice
  BY DEF Inv, DeviceInv
<1> QED
  BY <1>1, InvHolds, PTL

\* An environment whose machine has a name of its own keeps its machine and its
\* device until somebody resets it.
THEOREM EnvironmentStands == CloudAssumption => (Spec => []StandsUntilReset)
<1> SUFFICES ASSUME CloudAssumption PROVE Spec => []StandsUntilReset
  OBVIOUS
<1>1. Inv => StandsUntilReset
  BY DEF Inv, StandInv, DeviceInv, StandsUntilReset
<1> QED
  BY <1>1, InvHolds, PTL

\* No machine with a name of its own ever carries the identity of another
\* environment than the one which names it.
THEOREM OwnersIdentity == CloudAssumption => (Spec => []IdentityIsOwners)
<1> SUFFICES ASSUME CloudAssumption PROVE Spec => []IdentityIsOwners
  OBVIOUS
<1>1. Inv => IdentityIsOwners
  <2> SUFFICES ASSUME Inv, NEW m \in Pooled, NEW d \in Device, env[d] = m
               PROVE  identity[m] \in {d, Nobody}
    BY DEF IdentityIsOwners
  <2>1. identity[m] \in Device \cup {Nobody}
    BY DEF Inv, Typed, Machine
  <2> QED
    BY <2>1 DEF Inv, TieInv, Tied
<1> QED
  BY <1>1, InvHolds, PTL
==============================================================================
