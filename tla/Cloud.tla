------------------------------- MODULE Cloud -------------------------------
(***************************************************************************)
(* The cloud machine of one account: /api/cloud/open, /api/cloud/reset,    *)
(* the handover of an identity to the machine, and the removal of a device *)
(* (src/server.ts), over the environments table                            *)
(* (src/environment-store.ts), the registry (src/devices-supabase.ts), the *)
(* pool and the provider.                                                  *)
(*                                                                         *)
(* Open, reset and removal are chains of calls; an action is one call, its *)
(* effect over there and what the handler does with the answer.  A call    *)
(* fails before its effect, or takes effect and loses its answer, or both  *)
(* arrive.  The relay can crash between any two calls.                     *)
(*                                                                         *)
(* A pooled machine has a name of its own, used once.  A machine made to   *)
(* order has the account's name, Own, every time it is made.               *)
(***************************************************************************)
EXTENDS Naturals, FiniteSets

CONSTANTS
  Pooled,   \* names of machines built for the shelf
  Own,      \* spriteNameFor(userId)
  Device,   \* registry rows this account is ever issued for a machine
  Nobody,   \* no device, no machine
  Open,     \* requests to open
  Reset     \* requests to reset

\* What the constants are assumed to be.
CloudAssumption ==
  /\ IsFiniteSet(Device)
  /\ Own \notin Pooled /\ Nobody \notin Pooled \cup Device \cup {Own}

Machine == Pooled \cup {Own}

VARIABLES
  machine,    \* the provider: "none", "bare" or "built"
  pool,       \* environment_pool: the row of each pooled machine
  device,     \* the registry: the row of each device
  env,        \* environments: the machine each device's row names
  identity,   \* the device whose token the machine holds
  code,       \* handover codes
  open,       \* how far each open has got, with what in hand
  reset,      \* how far each reset has got, with what in hand
  job,        \* the setup that runs on after an open has answered
  removing,   \* devices about to be revoked: found not to be an environment
  condemned,  \* history: devices whose environment somebody asked to reset
  ghosts,     \* history: devices whose open failed before the environment was known
  raced       \* history: devices whose removal looked before their environment was there

rows == <<pool, device, env>>
cloud == <<machine, identity, code>>
history == <<condemned, ghosts, raced>>
vars == <<rows, cloud, open, reset, job, removing, history>>

Idle == [at |-> "idle", m |-> Nobody, d |-> Nobody]

Environments == {d \in Device : env[d] # Nobody}

OpenAt(o, step) == open[o].at = step
Opens(o, step, m, d) == open' = [open EXCEPT ![o] = [at |-> step, m |-> m, d |-> d]]
Ends(o) == open' = [open EXCEPT ![o] = Idle]

(***************************************************************************)
(* Open.                                                                   *)
(***************************************************************************)
\* Mutant: every request makes an attempt of its own.
AttemptsAlone(o) == OpenAt(o, "idle")

\* cloudOpens: a request starts an attempt only if none is under way; the
\* others wait for that one's answer.
MayAttempt(o) == \A p \in Open : OpenAt(p, "idle")

\* listByUser finds nothing, so the attempt goes on.  (It finds a row, or
\* fails: answered, with nothing changed.)
Lists(o) ==
  /\ OpenAt(o, "list")
  /\ IF Environments = {} THEN Opens(o, "claim", Nobody, Nobody) ELSE Ends(o)
  /\ UNCHANGED <<rows, cloud, reset, job, removing, history>>

Attempts(o) ==
  /\ MayAttempt(o)
  /\ Opens(o, "list", Nobody, Nobody)
  /\ UNCHANGED <<rows, cloud, reset, job, removing, history>>

\* claim_pool_sprite hands over a ready row; an unanswered claim counts as none.
Claims(o, m, answered) ==
  /\ OpenAt(o, "claim")
  /\ pool[m] = "ready"
  /\ pool' = [pool EXCEPT ![m] = "claimed"]
  /\ IF answered THEN Opens(o, "issue", m, Nobody) ELSE Opens(o, "create", Nobody, Nobody)
  /\ UNCHANGED <<device, env, cloud, reset, job, removing, history>>

ClaimsNone(o) ==
  /\ OpenAt(o, "claim")
  /\ Opens(o, "create", Nobody, Nobody)
  /\ UNCHANGED <<rows, cloud, reset, job, removing, history>>

\* The machine is made, or was there already: adopted.
Creates(o, answered) ==
  /\ OpenAt(o, "create")
  /\ machine' = [machine EXCEPT ![Own] = IF @ = "none" THEN "bare" ELSE @]
  /\ IF answered THEN Opens(o, "issue", Own, Nobody) ELSE Ends(o)
  /\ UNCHANGED <<rows, identity, code, reset, job, removing, history>>

Issues(o, d, answered) ==
  /\ OpenAt(o, "issue")
  /\ device[d] = "unused"
  /\ device' = [device EXCEPT ![d] = "live"]
  /\ IF answered
     THEN Opens(o, "write", open[o].m, d) /\ UNCHANGED ghosts
     ELSE Ends(o) /\ ghosts' = ghosts \cup {d}
  /\ UNCHANGED <<pool, env, cloud, reset, job, removing, condemned, raced>>

\* The rest of a successful attempt is one turn: mint a code, start the setup
\* in the background, answer.
HandsOver(o, d, m) ==
  /\ code' = [code EXCEPT ![d] = "held"]
  /\ job' = [job EXCEPT ![d] = [at |-> IF m = Own THEN "install" ELSE "hand", m |-> m]]
  /\ Ends(o)

\* Mutant: the pool row is dropped before the environment is written.
UnshelvesFirst(o, answered) ==
  /\ OpenAt(o, "write")
  /\ pool' = [m \in Pooled |-> IF m = open[o].m THEN "gone" ELSE pool[m]]
  /\ IF answered
     THEN /\ env' = [env EXCEPT ![open[o].d] = open[o].m]
          /\ HandsOver(o, open[o].d, open[o].m) /\ UNCHANGED ghosts
     ELSE Ends(o) /\ UNCHANGED <<env, code, job>> /\ ghosts' = ghosts \cup {open[o].d}
  /\ UNCHANGED <<device, machine, identity, reset, removing, condemned, raced>>

\* environments.create; a lost answer ends the attempt with the row there and
\* nothing to set the machine up.
Writes(o, answered) ==
  /\ OpenAt(o, "write")
  /\ LET d == open[o].d
         m == open[o].m
     IN /\ env' = [env EXCEPT ![d] = m]
        /\ CASE ~answered -> Ends(o) /\ UNCHANGED <<code, job>>
             [] answered /\ m = Own -> HandsOver(o, d, m)
             [] OTHER -> Opens(o, "unshelve", m, d) /\ UNCHANGED <<code, job>>
  /\ UNCHANGED <<pool, device, machine, identity, reset, removing, history>>

\* pool.remove: the environment's row owns the machine now.  Whether it worked
\* is not asked.
Unshelves(o, works) ==
  /\ OpenAt(o, "unshelve")
  /\ pool' = IF works THEN [pool EXCEPT ![open[o].m] = "gone"] ELSE pool
  /\ HandsOver(o, open[o].d, open[o].m)
  /\ UNCHANGED <<device, env, machine, identity, reset, removing, history>>

\* A call that throws or is refused before its effect: 503 or 429.
OpenFails(o) ==
  /\ open[o].at \in {"list", "create", "issue", "write"}
  /\ Ends(o)
  /\ ghosts' = IF OpenAt(o, "write") THEN ghosts \cup {open[o].d} ELSE ghosts
  /\ UNCHANGED <<rows, cloud, reset, job, removing, condemned, raced>>

OpenStep(o) ==
  \/ Attempts(o) \/ Lists(o) \/ ClaimsNone(o) \/ OpenFails(o)
  \/ \E m \in Pooled, answered \in BOOLEAN : Claims(o, m, answered)
  \/ \E answered \in BOOLEAN : Creates(o, answered) \/ Writes(o, answered)
  \/ \E d \in Device, answered \in BOOLEAN : Issues(o, d, answered)
  \/ \E works \in BOOLEAN : Unshelves(o, works)

(***************************************************************************)
(* Setting the machine up: not awaited by the open, tried once.            *)
(***************************************************************************)
JobAt(d, step) == job[d].at = step
Steps(d, step) == job' = [job EXCEPT ![d].at = step]

\* The installer goes out; whether it did, the handover follows.
JobInstalls(d, works) ==
  /\ JobAt(d, "install")
  /\ machine' = IF works /\ machine[job[d].m] # "none"
                THEN [machine EXCEPT ![job[d].m] = "built"] ELSE machine
  /\ Steps(d, "hand")
  /\ UNCHANGED <<rows, identity, code, open, reset, removing, history>>

\* Mutant: the machine collects whatever code is held.
RedeemsAny(d) == {e \in Device : code[e] = "held"}

\* redeem: the code it was given, if the relay still holds it.
Redeems(d) == {d} \cap {e \in Device : code[e] = "held"}

\* The command runs on the machine of that name: it trades the code for the
\* environment file and puts it in place, if the download arrives.
JobHands(d, e, arrives) ==
  /\ JobAt(d, "hand")
  /\ machine[job[d].m] # "none"
  /\ e \in Redeems(d)
  /\ code' = [code EXCEPT ![e] = "spent"]
  /\ identity' = IF arrives THEN [identity EXCEPT ![job[d].m] = e] ELSE identity
  /\ Steps(d, "done")
  /\ UNCHANGED <<rows, machine, open, reset, removing, history>>

\* It does not go out, or its code is refused.
JobFails(d) ==
  /\ JobAt(d, "hand")
  /\ Steps(d, "done")
  /\ UNCHANGED <<rows, cloud, open, reset, removing, history>>

CodeExpires(d) ==
  /\ code[d] = "held"
  /\ code' = [code EXCEPT ![d] = "spent"]
  /\ UNCHANGED <<rows, machine, identity, open, reset, job, removing, history>>

JobStep(d) ==
  \/ CodeExpires(d) \/ JobFails(d)
  \/ \E works \in BOOLEAN : JobInstalls(d, works)
  \/ \E e \in Device, arrives \in BOOLEAN : JobHands(d, e, arrives)

(***************************************************************************)
(* Reset.                                                                  *)
(***************************************************************************)
ResetAt(r, step) == reset[r].at = step
Resets(r, step) == reset' = [reset EXCEPT ![r].at = step]
Stops(r) == reset' = [reset EXCEPT ![r] = Idle]

\* listByUser finds the environment.  (It finds none: answered, nothing done.)
ResetLists(r, d) ==
  /\ ResetAt(r, "idle")
  /\ env[d] # Nobody
  /\ reset' = [reset EXCEPT ![r] = [at |-> "destroy", m |-> env[d], d |-> d]]
  /\ condemned' = condemned \cup {d}
  /\ UNCHANGED <<rows, cloud, open, job, removing, ghosts, raced>>

\* provisioner.destroy, by name; one that is gone already counts as destroyed.
Destroys(r, answered) ==
  /\ ResetAt(r, "destroy")
  /\ machine' = [machine EXCEPT ![reset[r].m] = "none"]
  /\ identity' = [identity EXCEPT ![reset[r].m] = Nobody]
  /\ IF answered THEN Resets(r, "revoke") ELSE Stops(r)
  /\ UNCHANGED <<rows, code, open, job, removing, history>>

\* Mutant: the answer of the revocation is not looked at.
RevokesCarelessly(r, answered) ==
  /\ ResetAt(r, "revoke")
  /\ device' = IF answered THEN [device EXCEPT ![reset[r].d] = "revoked"] ELSE device
  /\ Resets(r, "remove")
  /\ UNCHANGED <<pool, env, cloud, open, job, removing, history>>

\* devices.revoke
Revokes(r, answered) ==
  /\ ResetAt(r, "revoke")
  /\ device[reset[r].d] = "live"
  /\ device' = [device EXCEPT ![reset[r].d] = "revoked"]
  /\ IF answered THEN Resets(r, "remove") ELSE Stops(r)
  /\ UNCHANGED <<pool, env, cloud, open, job, removing, history>>

\* Mutant: a device that was revoked already is a failure.
RevokesNever(r) ==
  /\ ResetAt(r, "revoke")
  /\ device[reset[r].d] # "live"
  /\ Stops(r)
  /\ UNCHANGED <<rows, cloud, open, job, removing, history>>

\* It finds nothing to revoke, and findOwned agrees.
RevokesAgain(r) ==
  /\ ResetAt(r, "revoke")
  /\ device[reset[r].d] # "live"
  /\ Resets(r, "remove")
  /\ UNCHANGED <<rows, cloud, open, job, removing, history>>

\* environments.remove
Removes(r) ==
  /\ ResetAt(r, "remove")
  /\ env' = [env EXCEPT ![reset[r].d] = Nobody]
  /\ Stops(r)
  /\ UNCHANGED <<pool, device, cloud, open, job, removing, history>>

\* A call fails before its effect: 503, and the row stays for another try.
ResetFails(r) ==
  /\ ~ResetAt(r, "idle")
  /\ Stops(r)
  /\ UNCHANGED <<rows, cloud, open, job, removing, history>>

ResetStep(r) ==
  \/ \E d \in Device : ResetLists(r, d)
  \/ \E answered \in BOOLEAN : Destroys(r, answered) \/ Revokes(r, answered)
  \/ RevokesAgain(r) \/ Removes(r) \/ ResetFails(r)

(***************************************************************************)
(* DELETE /api/devices/:id and /api/device/unlink.                         *)
(***************************************************************************)
\* Mutant: a lookup that failed means it is only a laptop.
RemovalFailsOpen(d) ==
  /\ device[d] = "live" /\ d \notin removing
  /\ removing' = removing \cup {d}
  /\ raced' = IF \E o \in Open : open[o].d = d /\ env[d] = Nobody
              THEN raced \cup {d} ELSE raced
  /\ UNCHANGED <<rows, cloud, open, reset, job, condemned, ghosts>>

\* The device is the account's and no environment: it may be revoked.
RemovalChecks(d) ==
  /\ device[d] = "live" /\ d \notin removing
  /\ env[d] = Nobody
  /\ removing' = removing \cup {d}
  /\ raced' = IF \E o \in Open : open[o].d = d THEN raced \cup {d} ELSE raced
  /\ UNCHANGED <<rows, cloud, open, reset, job, condemned, ghosts>>

RemovalRevokes(d) ==
  /\ d \in removing
  /\ device' = [device EXCEPT ![d] = "revoked"]
  /\ removing' = removing \ {d}
  /\ UNCHANGED <<pool, env, cloud, open, reset, job, history>>

RemovalFails(d) ==
  /\ d \in removing
  /\ removing' = removing \ {d}
  /\ UNCHANGED <<rows, cloud, open, reset, job, history>>

RemovalStep(d) == RemovalChecks(d) \/ RemovalRevokes(d) \/ RemovalFails(d)

(***************************************************************************)
(* The world.                                                              *)
(***************************************************************************)
\* The shelf (module Shelf) has one more machine for sale.
Shelved(m) ==
  /\ pool[m] = "none"
  /\ pool' = [pool EXCEPT ![m] = "ready"]
  /\ machine' = [machine EXCEPT ![m] = "built"]
  /\ UNCHANGED <<device, env, identity, code, open, reset, job, removing, history>>

\* The process dies: requests, setups and codes are gone.
Crashes ==
  /\ open' = [o \in Open |-> Idle]
  /\ reset' = [r \in Reset |-> Idle]
  /\ job' = [d \in Device |-> [job[d] EXCEPT !.at = IF @ = "none" THEN "none" ELSE "done"]]
  /\ code' = [d \in Device |-> IF code[d] = "held" THEN "spent" ELSE code[d]]
  /\ removing' = {}
  /\ ghosts' = ghosts \cup {open[o].d : o \in {p \in Open : OpenAt(p, "write")}}
  /\ UNCHANGED <<rows, machine, identity, condemned, raced>>

Init ==
  /\ machine = [m \in Machine |-> "none"]
  /\ pool = [m \in Pooled |-> "none"]
  /\ device = [d \in Device |-> "unused"]
  /\ env = [d \in Device |-> Nobody]
  /\ identity = [m \in Machine |-> Nobody]
  /\ code = [d \in Device |-> "none"]
  /\ open = [o \in Open |-> Idle]
  /\ reset = [r \in Reset |-> Idle]
  /\ job = [d \in Device |-> [at |-> "none", m |-> Nobody]]
  /\ removing = {} /\ condemned = {} /\ ghosts = {} /\ raced = {}

Next ==
  \/ \E o \in Open : OpenStep(o)
  \/ \E r \in Reset : ResetStep(r)
  \/ \E d \in Device : JobStep(d) \/ RemovalStep(d)
  \/ \E m \in Pooled : Shelved(m)
  \/ Crashes

Spec == Init /\ [][Next]_vars

(***************************************************************************)
(* Fairness, for a person who presses Reset until there is nothing left: a *)
(* call that is made again and again is answered at last.                  *)
(***************************************************************************)
Fairness ==
  \A r \in Reset :
    /\ \A d \in Device : SF_vars(ResetLists(r, d))
    /\ SF_vars(Destroys(r, TRUE)) /\ SF_vars(Revokes(r, TRUE))
    /\ SF_vars(RevokesAgain(r)) /\ SF_vars(Removes(r))

TypeOK ==
  /\ machine \in [Machine -> {"none", "bare", "built"}]
  /\ pool \in [Pooled -> {"none", "ready", "claimed", "gone"}]
  /\ device \in [Device -> {"unused", "live", "revoked"}]
  /\ env \in [Device -> Machine \cup {Nobody}]
  /\ identity \in [Machine -> Device \cup {Nobody}]
  /\ code \in [Device -> {"none", "held", "spent"}]
  /\ open \in [Open -> [at : {"idle", "list", "claim", "create", "issue", "write", "unshelve"},
                        m : Machine \cup {Nobody}, d : Device \cup {Nobody}]]
  /\ reset \in [Reset -> [at : {"idle", "destroy", "revoke", "remove"},
                          m : Machine \cup {Nobody}, d : Device \cup {Nobody}]]
  /\ job \in [Device -> [at : {"none", "install", "hand", "done"}, m : Machine \cup {Nobody}]]
  /\ removing \subseteq Device /\ condemned \subseteq Device
  /\ ghosts \subseteq Device /\ raced \subseteq Device

(***************************************************************************)
(* Safety.                                                                 *)
(***************************************************************************)
\* An account never has two environments, however many taps and tabs open it,
\* whatever is reset meanwhile and wherever an attempt failed or died.
OneEnvironment == Cardinality(Environments) <= 1

\* A machine taken off the shelf is always named by something: its pool row, or
\* an environment.  No crash, failure or order of open and reset leaves one
\* running that nothing refers to.
NothingUnnamed ==
  \A m \in Pooled :
    machine[m] # "none" => pool[m] \in {"ready", "claimed"} \/ \E d \in Device : env[d] = m

\* A live device of the cloud has an environment, is about to get one, or is
\* left over from an open that failed just then: no reset leaves one behind,
\* to be counted against the account's limit of devices.
NoGhostDevice ==
  \A d \in Device :
    device[d] = "live" =>
      \/ env[d] # Nobody \/ d \in ghosts
      \/ \E o \in Open : OpenAt(o, "write") /\ open[o].d = d

\* An environment of a machine with a name of its own stands until somebody
\* resets it: its machine is there and its device can link.  The one exception
\* is a removal that looked before the environment was written.
StandsUntilReset ==
  \A d \in Device :
    env[d] # Nobody /\ d \notin condemned =>
      /\ env[d] \in Pooled => machine[env[d]] # "none"
      /\ d \in raced \/ device[d] = "live"

\* The identity on a machine with a name of its own is that of the environment
\* which names the machine.
IdentityIsOwners ==
  \A m \in Pooled, d \in Device : env[d] = m => identity[m] \in {d, Nobody}

\* The same of every environment, also of one made to order: a reset concerns
\* the environment it was asked to reset, and no later one.
ResetHitsItsOwn ==
  \A d \in Device : env[d] # Nobody /\ d \notin condemned => machine[env[d]] # "none"

(***************************************************************************)
(* Liveness.                                                               *)
(***************************************************************************)
\* Pressing Reset again finishes what an earlier reset began and did not
\* finish, wherever it stopped, whatever crashed.
ResetSucceeds == \A d \in Device : env[d] # Nobody ~> env[d] = Nobody
=============================================================================
