---------------------------- MODULE LinkingProofs ----------------------------
(***************************************************************************)
(* Proofs about Linking, for any number of devices, codes and approvals    *)
(* and any limit.                                                          *)
(***************************************************************************)
EXTENDS Linking, FiniteSetTheorems, TLAPS

(***************************************************************************)
(* Counting machines.                                                      *)
(***************************************************************************)
\* The installs that devices may be of.
Installs == [Device -> Install \cup {NoInstall}]

\* The devices of a set that do not say which install they are, those that do, and
\* the computers of these.
Solo(ins, ds) == {d \in ds : ins[d] = NoInstall}
Named(ins, ds) == {d \in ds : ins[d] # NoInstall}
Computers(ins, ds) == {ins[d][1] : d \in Named(ins, ds)}

\* The machines that ds is.
Machines(ins, ds) == Cardinality(Solo(ins, ds)) + Cardinality(Computers(ins, ds))

\* And with one more device, of install i.
MachinesWith(ins, ds, i) ==
  IF i = NoInstall
  THEN Cardinality(Solo(ins, ds)) + 1 + Cardinality(Computers(ins, ds))
  ELSE Cardinality(Solo(ins, ds)) + Cardinality(Computers(ins, ds) \cup {i[1]})

LEMMA ComputersAreMachines ==
  ASSUME NEW ins \in Installs, NEW ds \in SUBSET Device, NEW i
  PROVE  /\ MachinesOf({ins[d] : d \in ds} \ {NoInstall}) = Computers(ins, ds)
         /\ MachinesOf(({ins[d] : d \in ds} \cup {i}) \ {NoInstall}) =
              IF i = NoInstall THEN Computers(ins, ds) ELSE Computers(ins, ds) \cup {i[1]}
  BY DEF MachinesOf, Computers, Named

LEMMA CountsAreFinite ==
  ASSUME LinkingAssumption, NEW ins \in Installs, NEW ds \in SUBSET Device
  PROVE  /\ IsFiniteSet(ds) /\ IsFiniteSet(Solo(ins, ds)) /\ IsFiniteSet(Named(ins, ds))
         /\ IsFiniteSet(Computers(ins, ds))
         /\ Cardinality(Computers(ins, ds)) <= Cardinality(Named(ins, ds))
         /\ (\A d, e \in Named(ins, ds) : ins[d][1] = ins[e][1] => d = e) =>
              Cardinality(Computers(ins, ds)) = Cardinality(Named(ins, ds))
<1>1. IsFiniteSet(ds)
  BY FS_Subset DEF LinkingAssumption
<1>2. IsFiniteSet(Solo(ins, ds)) /\ IsFiniteSet(Named(ins, ds))
  BY <1>1, FS_Subset, Solo(ins, ds) \subseteq ds, Named(ins, ds) \subseteq ds
     DEF Solo, Named
<1> DEFINE computer == [d \in Named(ins, ds) |-> ins[d][1]]
<1>3. computer \in Surjection(Named(ins, ds), Computers(ins, ds))
  BY DEF Surjection, Computers
<1>4. (\A d, e \in Named(ins, ds) : ins[d][1] = ins[e][1] => d = e) =>
        computer \in Injection(Named(ins, ds), Computers(ins, ds))
  BY DEF Injection, IsInjective, Computers
<1> QED
  BY <1>1, <1>2, <1>3, <1>4, FS_Surjection

LEMMA MachinesAreNumbers ==
  ASSUME LinkingAssumption, NEW ins \in Installs, NEW ds \in SUBSET Device, NEW i
  PROVE  /\ Cardinality(ds) \in Nat /\ Cardinality(Solo(ins, ds)) \in Nat
         /\ Cardinality(Named(ins, ds)) \in Nat /\ Cardinality(Computers(ins, ds)) \in Nat
         /\ Cardinality(Computers(ins, ds) \cup {i[1]}) \in Nat
         /\ Cardinality(ds) = Cardinality(Solo(ins, ds)) + Cardinality(Named(ins, ds))
<1>1. /\ IsFiniteSet(ds) /\ IsFiniteSet(Solo(ins, ds)) /\ IsFiniteSet(Named(ins, ds))
      /\ IsFiniteSet(Computers(ins, ds)) /\ IsFiniteSet(Computers(ins, ds) \cup {i[1]})
  BY CountsAreFinite, FS_AddElement
<1>2. ds = Solo(ins, ds) \cup Named(ins, ds) /\ Solo(ins, ds) \cap Named(ins, ds) = {}
  BY DEF Solo, Named
<1>3. /\ Cardinality(ds) \in Nat /\ Cardinality(Solo(ins, ds)) \in Nat
      /\ Cardinality(Named(ins, ds)) \in Nat /\ Cardinality(Computers(ins, ds)) \in Nat
      /\ Cardinality(Computers(ins, ds) \cup {i[1]}) \in Nat
  BY <1>1, FS_CardinalityType
<1>4. Cardinality(ds) = Cardinality(Solo(ins, ds)) + Cardinality(Named(ins, ds)) - Cardinality({})
  BY <1>1, <1>2, FS_Union
<1> QED
  BY <1>3, <1>4, FS_EmptySet

LEMMA MachinesAreNat ==
  ASSUME LinkingAssumption, NEW ins \in Installs, NEW ds \in SUBSET Device
  PROVE  Machines(ins, ds) \in Nat /\ \A i : MachinesWith(ins, ds, i) \in Nat
<1>1. Machines(ins, ds) \in Nat
  <2>1. Cardinality(Solo(ins, ds)) \in Nat /\ Cardinality(Computers(ins, ds)) \in Nat
    BY MachinesAreNumbers
  <2> QED
    BY <2>1 DEF Machines
<1>2. ASSUME NEW i PROVE MachinesWith(ins, ds, i) \in Nat
  <2>1. /\ Cardinality(Solo(ins, ds)) \in Nat /\ Cardinality(Computers(ins, ds)) \in Nat
        /\ Cardinality(Computers(ins, ds) \cup {i[1]}) \in Nat
    BY MachinesAreNumbers
  <2> QED
    BY <2>1 DEF MachinesWith
<1> QED
  BY <1>1, <1>2

\* A smaller set is no more machines.
LEMMA FewerDevices ==
  ASSUME LinkingAssumption, NEW ins \in Installs,
         NEW es \in SUBSET Device, NEW ds \in SUBSET es, NEW i
  PROVE  /\ MachinesWith(ins, ds, i) <= MachinesWith(ins, es, i)
         /\ Machines(ins, ds) <= Machines(ins, es)
<1>1. /\ Solo(ins, ds) \subseteq Solo(ins, es) /\ Computers(ins, ds) \subseteq Computers(ins, es)
      /\ Computers(ins, ds) \cup {i[1]} \subseteq Computers(ins, es) \cup {i[1]}
  BY DEF Solo, Computers, Named
<1>2. /\ IsFiniteSet(Solo(ins, es)) /\ IsFiniteSet(Computers(ins, es))
      /\ IsFiniteSet(Computers(ins, es) \cup {i[1]})
  BY CountsAreFinite, FS_AddElement
<1>3. /\ Cardinality(Solo(ins, ds)) <= Cardinality(Solo(ins, es))
      /\ Cardinality(Computers(ins, ds)) <= Cardinality(Computers(ins, es))
      /\ Cardinality(Computers(ins, ds) \cup {i[1]}) <= Cardinality(Computers(ins, es) \cup {i[1]})
  BY <1>1, <1>2, FS_Subset
<1>4. /\ Cardinality(Solo(ins, ds)) \in Nat /\ Cardinality(Solo(ins, es)) \in Nat
      /\ Cardinality(Computers(ins, ds)) \in Nat /\ Cardinality(Computers(ins, es)) \in Nat
      /\ Cardinality(Computers(ins, ds) \cup {i[1]}) \in Nat
      /\ Cardinality(Computers(ins, es) \cup {i[1]}) \in Nat
  BY MachinesAreNumbers
<1>5. /\ Machines(ins, ds) = Cardinality(Solo(ins, ds)) + Cardinality(Computers(ins, ds))
      /\ Machines(ins, es) = Cardinality(Solo(ins, es)) + Cardinality(Computers(ins, es))
  BY DEF Machines
<1>6. MachinesWith(ins, ds, i) <= MachinesWith(ins, es, i)
  BY <1>3, <1>4 DEF MachinesWith
<1> QED
  BY <1>3, <1>4, <1>5, <1>6

\* One more device of an install that is there is no more machines.
LEMMA SameInstallIsFree ==
  ASSUME NEW ins \in Installs, NEW ds \in SUBSET Device, NEW d \in ds, ins[d] # NoInstall
  PROVE  MachinesWith(ins, ds, ins[d]) = Machines(ins, ds)
<1>1. Computers(ins, ds) \cup {ins[d][1]} = Computers(ins, ds)
  BY DEF Computers, Named
<1> QED
  BY <1>1 DEF MachinesWith, Machines

\* countMachines never says too few.
LEMMA CountIsEnough ==
  ASSUME LinkingAssumption, install \in Installs, NEW ds \in SUBSET Device,
         NEW i \in Install \cup {NoInstall}
  PROVE  MachinesWith(install, ds, i) <= CountMachines(ds, i) /\ CountMachines(ds, i) \in Nat
<1> DEFINE installs == {install[d] : d \in ds} \cup {i}
           plain == \A n \in installs \ {NoInstall} : n[2] # "desktop"
<1>1. /\ Cardinality(ds) \in Nat /\ Cardinality(Solo(install, ds)) \in Nat
      /\ Cardinality(Named(install, ds)) \in Nat /\ Cardinality(Computers(install, ds)) \in Nat
      /\ Cardinality(Computers(install, ds) \cup {i[1]}) \in Nat
      /\ Cardinality(ds) = Cardinality(Solo(install, ds)) + Cardinality(Named(install, ds))
  BY MachinesAreNumbers
<1>2. Cardinality(Computers(install, ds)) <= Cardinality(Named(install, ds))
  BY CountsAreFinite
<1>3. Cardinality(Computers(install, ds) \cup {i[1]}) <= Cardinality(Computers(install, ds)) + 1
  <2>1. IsFiniteSet(Computers(install, ds))
    BY CountsAreFinite
  <2>2. Cardinality(Computers(install, ds) \cup {i[1]}) =
          IF i[1] \in Computers(install, ds) THEN Cardinality(Computers(install, ds))
          ELSE Cardinality(Computers(install, ds)) + 1
    BY <2>1, FS_AddElement
  <2> QED
    BY <1>1, <2>2
<1>4. CASE plain
  <2>1. CountMachines(ds, i) = Cardinality(ds) + 1
    BY <1>4 DEF CountMachines, Individuals, Solo
  <2> QED
    BY <1>1, <1>2, <1>3, <2>1 DEF MachinesWith
<1>5. CASE ~plain
  <2>1. CountMachines(ds, i) =
          Cardinality(Solo(install, ds)) + (IF i = NoInstall THEN 1 ELSE 0)
            + Cardinality(MachinesOf(installs \ {NoInstall}))
    BY <1>5 DEF CountMachines, Individuals, Solo
  <2>2. MachinesOf(installs \ {NoInstall}) =
          IF i = NoInstall THEN Computers(install, ds) ELSE Computers(install, ds) \cup {i[1]}
    BY ComputersAreMachines
  <2> QED
    BY <1>1, <2>1, <2>2 DEF MachinesWith
<1> QED
  BY <1>4, <1>5

\* Nor too many, of an install that has no other device.
LEMMA CountIsExact ==
  ASSUME LinkingAssumption, install \in Installs, NEW ds \in SUBSET Device, NEW i \in Install,
         \A d \in ds : install[d] # i,
         \A d, e \in ds : install[d] = install[e] /\ install[d] # NoInstall => d = e
  PROVE  CountMachines(ds, i) = MachinesWith(install, ds, i)
<1> DEFINE installs == {install[d] : d \in ds} \cup {i}
           plain == \A n \in installs \ {NoInstall} : n[2] # "desktop"
<1>0. i # NoInstall
  BY DEF LinkingAssumption, Install
<1>1. /\ Cardinality(Solo(install, ds)) \in Nat
      /\ Cardinality(Named(install, ds)) \in Nat /\ Cardinality(Computers(install, ds)) \in Nat
      /\ Cardinality(ds) = Cardinality(Solo(install, ds)) + Cardinality(Named(install, ds))
  BY MachinesAreNumbers
<1>2. CASE plain
  <2>1. CountMachines(ds, i) = Cardinality(ds) + 1
    BY <1>2 DEF CountMachines, Individuals, Solo
  <2>2. \A d \in Named(install, ds) : install[d] = <<install[d][1], "editor">>
    <3> SUFFICES ASSUME NEW d \in Named(install, ds) PROVE install[d] = <<install[d][1], "editor">>
      OBVIOUS
    <3>1. install[d] \in Machine \X {"editor", "desktop"} /\ install[d] \in installs \ {NoInstall}
      BY DEF Named, Installs, Install
    <3>2. install[d][2] # "desktop"
      BY <1>2, <3>1
    <3> QED
      BY <3>1, <3>2
  <2>3. i = <<i[1], "editor">>
    BY <1>0, <1>2 DEF Install
  <2>4. \A d, e \in Named(install, ds) : install[d][1] = install[e][1] => d = e
    BY <2>2 DEF Named
  <2>5. i[1] \notin Computers(install, ds)
    BY <2>2, <2>3 DEF Computers, Named
  <2>6. Cardinality(Computers(install, ds)) = Cardinality(Named(install, ds))
    BY <2>4, CountsAreFinite
  <2>7. Cardinality(Computers(install, ds) \cup {i[1]}) = Cardinality(Computers(install, ds)) + 1
    BY <2>5, CountsAreFinite, FS_AddElement
  <2> QED
    BY <1>0, <1>1, <2>1, <2>6, <2>7 DEF MachinesWith
<1>3. CASE ~plain
  <2>1. CountMachines(ds, i) =
          Cardinality(Solo(install, ds)) + 0 + Cardinality(MachinesOf(installs \ {NoInstall}))
    BY <1>0, <1>3 DEF CountMachines, Individuals, Solo
  <2>2. MachinesOf(installs \ {NoInstall}) = Computers(install, ds) \cup {i[1]}
    BY <1>0, ComputersAreMachines
  <2>3. Cardinality(Computers(install, ds) \cup {i[1]}) \in Nat
    BY MachinesAreNumbers
  <2>4. MachinesWith(install, ds, i) =
          Cardinality(Solo(install, ds)) + Cardinality(Computers(install, ds) \cup {i[1]})
    BY <1>0 DEF MachinesWith
  <2>5. Cardinality(MachinesOf(installs \ {NoInstall})) =
          Cardinality(Computers(install, ds) \cup {i[1]})
    BY <2>2, Zenon
  <2> QED
    BY <1>1, <2>1, <2>3, <2>4, <2>5
<1> QED
  BY <1>2, <1>3

\* MachinesIn is that count.
LEMMA MachinesInIs ==
  ASSUME TypeOK, NEW ds \in SUBSET Device
  PROVE  MachinesIn(ds) = Machines(install, ds)
  BY ComputersAreMachines DEF TypeOK, Installs, Machines, MachinesIn, Individuals, Solo

(***************************************************************************)
(* The strengthening: what an approval under way has found, and the room   *)
(* there is for what it is about to issue.                                 *)
(***************************************************************************)
Busy(a) == approval[a].at # "idle"

\* The devices that somebody linked.
Theirs == Live \ clouds

\* The environments table names devices of the cloud only, and these have no install.
CloudInv ==
  /\ listed \subseteq clouds
  /\ opening # NoDevice => opening \in clouds
  /\ \A d \in clouds : row[d] # "unused"
  /\ \A d \in Device : row[d] = "unused" \/ d \in clouds => install[d] = NoInstall

\* The code of an approval has been started, and those that list are of installs
\* that have a name.
CodeInv ==
  \A a \in Approval : Busy(a) =>
    /\ link[approval[a].code].status # "none"
    /\ approval[a].at \in {"list", "revoke"} \/ approval[a].superseded =>
         InstallOf(a) # NoInstall
    /\ approval[a].at = "list" => ~approval[a].superseded

\* The devices of the install that is linked are to be listed, or superseded.
OldIsListed(a) ==
  \A d \in Live : install[d] = InstallOf(a) /\ install[d] # NoInstall =>
    approval[a].at = "list" \/ (approval[a].at = "revoke" /\ d \in approval[a].old)

\* An account within its limit has room for the device that replaces one, and there
\* is room for one that is about to be issued without a plan.
HasRoom(a) ==
  /\ approval[a].at = "list" /\ ~approval[a].over => Machines(install, Theirs) <= Limit
  /\ approval[a].at = "revoke" \/ (approval[a].at = "own" /\ approval[a].superseded) =>
       approval[a].over \/ MachinesWith(install, Theirs, InstallOf(a)) <= Limit
  /\ approval[a].at = "issue" =>
       approval[a].entitled \/ MachinesWith(install, Theirs, InstallOf(a)) <= Limit

\* What was listed to be counted: everything that is live now and somebody's, each
\* install once, and none of what was superseded.
OwnedIsFair(a) ==
  approval[a].at = "count" =>
    /\ Theirs \subseteq approval[a].owned
    /\ \A d \in approval[a].owned : row[d] # "unused"
    /\ \A d, e \in approval[a].owned :
         install[d] = install[e] /\ install[d] # NoInstall => d = e
    /\ approval[a].superseded => \A d \in approval[a].owned : install[d] # InstallOf(a)
    /\ approval[a].superseded =>
         \/ approval[a].over
         \/ MachinesWith(install, approval[a].owned \ clouds, InstallOf(a)) <= Limit

AloneInv ==
  /\ \A a, b \in Approval : Busy(a) /\ Busy(b) => a = b
  /\ \A a \in Approval : Busy(a) => OldIsListed(a) /\ HasRoom(a) /\ OwnedIsFair(a)
  /\ \A d, e \in Live : install[d] = install[e] /\ install[d] # NoInstall => d = e
  /\ "none" \notin stripped

Inv == TypeOK /\ CloudInv /\ CodeInv /\ (overlapped \/ AloneInv)

(***************************************************************************)
(* What a step does to the approval that takes it.                         *)
(***************************************************************************)
OthersStay(a) == \A b \in Approval \ {a} : approval'[b] = approval[b]

LEMMA BusyIsWorking ==
  ASSUME TypeOK, NEW a \in Approval
  PROVE  /\ approval[a] = Idle \/ approval[a] \in Working
         /\ Busy(a) <=> approval[a] \in Working
         /\ Busy(a) <=> approval[a] # Idle
  BY DEF TypeOK, Busy, Idle, Working

LEMMA Becomes ==
  ASSUME TypeOK, NEW a \in Approval, NEW w \in {Idle} \cup Working,
         approval' = [approval EXCEPT ![a] = w]
  PROVE  /\ approval' \in [Approval -> {Idle} \cup Working]
         /\ approval'[a] = w /\ OthersStay(a)
  BY DEF TypeOK, OthersStay

\* What an approval leaves as it is while it goes on.
Keeps(a) ==
  /\ approval'[a].code = approval[a].code /\ approval'[a].over = approval[a].over
  /\ approval'[a].entitled = approval[a].entitled

LEMMA BeginsEffect ==
  ASSUME TypeOK, NEW a \in Approval, NEW c \in Code, NEW entitled \in BOOLEAN,
         Begins(a, c, entitled)
  PROVE  /\ approval' \in [Approval -> {Idle} \cup Working] /\ OthersStay(a)
         /\ ~Busy(a) /\ link[c].status # "none"
         /\ \/ approval'[a].at = "list" /\ link[c].install # NoInstall
            \/ approval'[a].at = "own"
            \/ approval'[a].at = "issue" /\ approval'[a].entitled
         /\ approval'[a].code = c /\ approval'[a].superseded = FALSE
         /\ ~approval'[a].over => ~(MachinesIn(Theirs) > Limit)
         /\ overlapped' \/ \A b \in Approval : ~Busy(b)
         /\ overlapped' = overlapped \/ overlapped' = TRUE
         /\ UNCHANGED <<row, install, link, cloud, stripped>>
<1> DEFINE over == MachinesIn(Theirs) > Limit
           at == IF link[c].install = NoInstall THEN Onward(entitled) ELSE "list"
           w == [at |-> at, code |-> c, entitled |-> entitled, over |-> over,
                 old |-> {}, superseded |-> FALSE, owned |-> {}]
<1>1. approval' = [approval EXCEPT ![a] = w]
  BY DEF Begins, Theirs
<1>2. /\ at \in {"list", "own", "issue"} /\ over \in BOOLEAN
      /\ at = "list" => link[c].install # NoInstall
      /\ at = "issue" => entitled
  BY DEF Onward
<1>3. ~over => ~(MachinesIn(Theirs) > Limit)
  OBVIOUS
<1> HIDE DEF over, at
<1>4. /\ w \in Working /\ w.code = c /\ w.superseded = FALSE /\ w.at = at
      /\ w.entitled = entitled /\ w.over = over
  BY <1>2 DEF Working
<1> HIDE DEF w
<1>5. approval' \in [Approval -> {Idle} \cup Working] /\ OthersStay(a) /\ approval'[a] = w
  BY <1>1, <1>4, Becomes
<1>6. overlapped' \/ \A b \in Approval : ~Busy(b)
  BY BusyIsWorking DEF Begins
<1>7. overlapped' = overlapped \/ overlapped' = TRUE
  BY DEF Begins, TypeOK
<1>8. ~Busy(a) /\ link[c].status # "none" /\ UNCHANGED <<row, install, link, cloud, stripped>>
  BY BusyIsWorking DEF Begins
<1> QED
  BY <1>2, <1>3, <1>4, <1>5, <1>6, <1>7, <1>8

LEMMA ListsEffect ==
  ASSUME TypeOK, NEW a \in Approval, Lists(a)
  PROVE  /\ approval' \in [Approval -> {Idle} \cup Working] /\ OthersStay(a)
         /\ approval[a].at = "list" /\ Keeps(a)
         /\ approval'[a].superseded = approval[a].superseded
         /\ \/ /\ SameInstall(InstallOf(a)) = {}
               /\ \/ approval'[a].at = "own"
                  \/ approval'[a].at = "issue" /\ approval[a].entitled
            \/ /\ approval'[a].at = "revoke" /\ SameInstall(InstallOf(a)) # {}
               /\ approval'[a].old = SameInstall(InstallOf(a))
         /\ UNCHANGED <<row, install, link, cloud, overlapped, stripped>>
<1> DEFINE found == SameInstall(InstallOf(a))
           at == IF found = {} THEN Onward(approval[a].entitled) ELSE "revoke"
           w == [approval[a] EXCEPT !.at = at, !.old = found]
<1>1. approval[a].at = "list" /\ approval[a] \in Working
  BY BusyIsWorking DEF Lists, At, Busy
<1>2. approval' = [approval EXCEPT ![a] = w]
  BY <1>1 DEF Lists, TypeOK
<1>3. /\ at \in {"own", "issue", "revoke"} /\ found \in SUBSET Device
      /\ found # {} => at = "revoke"
      /\ found = {} => at = "own" \/ (at = "issue" /\ approval[a].entitled)
  BY DEF Onward, SameInstall, Live
<1> HIDE DEF found, at
<1>4. /\ w \in Working /\ w.code = approval[a].code /\ w.superseded = approval[a].superseded
      /\ w.at = at /\ w.old = found
      /\ w.over = approval[a].over /\ w.entitled = approval[a].entitled
  BY <1>1, <1>3 DEF Working
<1> HIDE DEF w
<1>5. approval' \in [Approval -> {Idle} \cup Working] /\ OthersStay(a) /\ approval'[a] = w
  BY <1>2, <1>4, Becomes
<1>6. UNCHANGED <<row, install, link, cloud, overlapped, stripped>>
  BY DEF Lists
<1> QED
  BY <1>1, <1>3, <1>4, <1>5, <1>6 DEF found, Keeps

LEMMA SupersedesEffect ==
  ASSUME TypeOK, NEW a \in Approval, NEW d \in Device, Supersedes(a, d)
  PROVE  /\ approval' \in [Approval -> {Idle} \cup Working] /\ OthersStay(a)
         /\ approval[a].at = "revoke" /\ d \in approval[a].old /\ Keeps(a)
         /\ approval'[a].old = approval[a].old \ {d}
         /\ \/ /\ approval[a].old = {d}
               /\ \/ approval'[a].at = "own"
                  \/ approval'[a].at = "issue" /\ approval[a].entitled
            \/ approval'[a].at = "revoke"
         /\ row' = [row EXCEPT ![d] = "revoked"]
         /\ UNCHANGED <<install, link, cloud, overlapped, stripped>>
<1> DEFINE at == IF approval[a].old = {d} THEN Onward(approval[a].entitled) ELSE "revoke"
           w == [approval[a] EXCEPT !.at = at, !.old = approval[a].old \ {d},
                                    !.superseded = TRUE]
<1>1. approval[a].at = "revoke" /\ d \in approval[a].old /\ approval[a] \in Working
  BY BusyIsWorking DEF Supersedes, At, Busy
<1>2. approval' = [approval EXCEPT ![a] = w]
  BY <1>1 DEF Supersedes, TypeOK
<1>3. /\ at \in {"own", "issue", "revoke"}
      /\ at # "revoke" =>
           approval[a].old = {d} /\ (at = "own" \/ (at = "issue" /\ approval[a].entitled))
  BY DEF Onward
<1> HIDE DEF at
<1>4. /\ w \in Working /\ w.code = approval[a].code /\ w.old = approval[a].old \ {d}
      /\ w.at = at /\ w.over = approval[a].over /\ w.entitled = approval[a].entitled
  BY <1>1, <1>3 DEF Working
<1> HIDE DEF w
<1>5. approval' \in [Approval -> {Idle} \cup Working] /\ OthersStay(a) /\ approval'[a] = w
  BY <1>2, <1>4, Becomes
<1>6. /\ row' = [row EXCEPT ![d] = "revoked"]
      /\ UNCHANGED <<install, link, cloud, overlapped, stripped>>
  BY DEF Supersedes
<1> QED
  BY <1>1, <1>3, <1>4, <1>5, <1>6 DEF Keeps

LEMMA OwnsEffect ==
  ASSUME TypeOK, NEW a \in Approval, Owns(a)
  PROVE  /\ approval' \in [Approval -> {Idle} \cup Working] /\ OthersStay(a)
         /\ approval[a].at = "own" /\ Keeps(a)
         /\ approval'[a].at = "count" /\ approval'[a].owned = Live
         /\ approval'[a].superseded = approval[a].superseded
         /\ UNCHANGED <<row, install, link, cloud, overlapped, stripped>>
<1> DEFINE w == [approval[a] EXCEPT !.at = "count", !.owned = Live]
<1>1. approval[a].at = "own" /\ approval[a] \in Working
  BY BusyIsWorking DEF Owns, At, Busy
<1>2. approval' = [approval EXCEPT ![a] = w]
  BY <1>1 DEF Owns, TypeOK
<1>3. Live \in SUBSET Device
  BY DEF Live
<1>4. /\ w \in Working /\ w.code = approval[a].code /\ w.superseded = approval[a].superseded
      /\ w.at = "count" /\ w.owned = Live
      /\ w.over = approval[a].over /\ w.entitled = approval[a].entitled
  BY <1>1, <1>3 DEF Working
<1> HIDE DEF w
<1>5. approval' \in [Approval -> {Idle} \cup Working] /\ OthersStay(a) /\ approval'[a] = w
  BY <1>2, <1>4, Becomes
<1>6. UNCHANGED <<row, install, link, cloud, overlapped, stripped>>
  BY DEF Owns
<1> QED
  BY <1>1, <1>4, <1>5, <1>6 DEF Keeps

LEMMA EndsEffect ==
  ASSUME TypeOK, NEW a \in Approval, Ends(a)
  PROVE  /\ approval' \in [Approval -> {Idle} \cup Working] /\ OthersStay(a)
         /\ ~Busy(a)' /\ approval'[a] = Idle
  BY Becomes DEF Ends, Busy, Idle

LEMMA CountsEffect ==
  ASSUME TypeOK, NEW a \in Approval, NEW known \in BOOLEAN, Counts(a, known)
  PROVE  /\ approval' \in [Approval -> {Idle} \cup Working] /\ OthersStay(a)
         /\ approval[a].at = "count"
         /\ \/ ~Busy(a)' /\ approval'[a] = Idle /\ stripped' = stripped
            \/ /\ ~Busy(a)' /\ approval'[a] = Idle
               /\ stripped' = stripped \cup {Ground(a, known)}
               /\ approval[a].superseded /\ Owned(a, known) > Limit
            \/ /\ approval'[a].at = "issue" /\ Keeps(a)
               /\ approval'[a].superseded = approval[a].superseded
               /\ ~(Owned(a, known) > Limit)
               /\ stripped' = stripped
         /\ UNCHANGED <<row, install, link, cloud, overlapped>>
<1>1. approval[a].at = "count" /\ approval[a] \in Working
  BY BusyIsWorking DEF Counts, At, Busy
<1>2. CASE Owned(a, known) > Limit
  <2>1. Ends(a)
    BY <1>2 DEF Counts
  <2>2. \/ stripped' = stripped
        \/ stripped' = stripped \cup {Ground(a, known)} /\ approval[a].superseded
    BY <1>2 DEF Counts
  <2> QED
    BY <1>1, <1>2, <2>1, <2>2, EndsEffect DEF Counts
<1>3. CASE ~(Owned(a, known) > Limit)
  <2> DEFINE w == [approval[a] EXCEPT !.at = "issue"]
  <2>1. /\ w \in Working /\ w.code = approval[a].code /\ w.at = "issue"
        /\ w.superseded = approval[a].superseded
        /\ w.over = approval[a].over /\ w.entitled = approval[a].entitled
    BY <1>1 DEF Working
  <2>2. approval' = [approval EXCEPT ![a] = w] /\ stripped' = stripped
    BY <1>1, <1>3 DEF Counts, TypeOK
  <2> HIDE DEF w
  <2>3. approval' \in [Approval -> {Idle} \cup Working] /\ OthersStay(a) /\ approval'[a] = w
    BY <2>1, <2>2, Becomes
  <2> QED
    BY <1>1, <1>3, <2>1, <2>2, <2>3 DEF Counts, Keeps
<1> QED
  BY <1>2, <1>3

LEMMA IssuesEffect ==
  ASSUME TypeOK, NEW a \in Approval, NEW d \in Device, NEW answered \in BOOLEAN,
         Issues(a, d, answered)
  PROVE  /\ approval' \in [Approval -> {Idle} \cup Working] /\ OthersStay(a) /\ ~Busy(a)'
         /\ approval[a].at = "issue" /\ approval[a] \in Working
         /\ row[d] = "unused" /\ row' = [row EXCEPT ![d] = "live"]
         /\ install' = [install EXCEPT ![d] = InstallOf(a)]
         /\ link' \in [Code -> LinkRecord]
         /\ \A c \in Code : /\ link'[c].install = link[c].install
                            /\ link[c].status # "none" => link'[c].status # "none"
         /\ UNCHANGED <<cloud, overlapped, stripped>>
<1>1. approval[a].at = "issue" /\ approval[a] \in Working
  BY BusyIsWorking DEF Issues, At, Busy
<1>2. Ends(a) /\ row[d] = "unused" /\ row' = [row EXCEPT ![d] = "live"]
  BY DEF Issues
<1>3. install' = [install EXCEPT ![d] = InstallOf(a)] /\ UNCHANGED <<cloud, overlapped, stripped>>
  BY DEF Issues, InstallOf
<1>4. approval[a].code \in Code
  BY <1>1 DEF Working
<1>5. \/ link' = link
      \/ link' = [link EXCEPT ![approval[a].code].status = "approved"]
  BY DEF Issues
<1>6. /\ link' \in [Code -> LinkRecord]
      /\ \A c \in Code : /\ link'[c].install = link[c].install
                         /\ link[c].status # "none" => link'[c].status # "none"
  BY <1>4, <1>5 DEF TypeOK, LinkRecord
<1> QED
  BY <1>1, <1>2, <1>3, <1>6, EndsEffect

(***************************************************************************)
(* Steps.                                                                  *)
(***************************************************************************)
LEMMA LiveIsTyped == Live \in SUBSET Device /\ Theirs \in SUBSET Device
  BY DEF Live, Theirs

\* Room stays when devices go.
LEMMA FewerHaveRoom ==
  ASSUME LinkingAssumption, NEW ins \in Installs, NEW es \in SUBSET Device,
         NEW ds \in SUBSET es, NEW i
  PROVE  /\ MachinesWith(ins, es, i) <= Limit => MachinesWith(ins, ds, i) <= Limit
         /\ Machines(ins, es) <= Limit => Machines(ins, ds) <= Limit
<1>1. /\ MachinesWith(ins, es, i) \in Nat /\ MachinesWith(ins, ds, i) \in Nat
      /\ Machines(ins, es) \in Nat /\ Machines(ins, ds) \in Nat
  BY MachinesAreNat
<1>2. /\ MachinesWith(ins, ds, i) <= MachinesWith(ins, es, i)
      /\ Machines(ins, ds) <= Machines(ins, es)
  BY FewerDevices
<1> QED
  BY <1>1, <1>2 DEF LinkingAssumption

\* No approval goes on, and nothing is issued but the cloud's device.
LEMMA QuietSteps ==
  ASSUME LinkingAssumption, Inv, TypeOK', CloudInv',
         UNCHANGED <<install, overlapped, stripped>>, clouds \subseteq clouds',
         \A d \in Live' : d \in Live \/ install[d] = NoInstall,
         Theirs' \subseteq Theirs,
         \A d \in Device : row[d] # "unused" => row'[d] # "unused",
         \A a \in Approval : approval'[a] \in {approval[a], Idle},
         \A c \in Code : link[c].status # "none" =>
           link'[c].status # "none" /\ link'[c].install = link[c].install
  PROVE  Inv'
<1> USE DEF Inv
<1>1. \A a \in Approval : Busy(a)' =>
        /\ Busy(a) /\ approval'[a] = approval[a] /\ approval[a].code \in Code
        /\ approval[a].owned \in SUBSET Device
        /\ link[approval[a].code].status # "none" /\ InstallOf(a)' = InstallOf(a)
        /\ link'[approval[a].code].status # "none"
  BY BusyIsWorking DEF Busy, Idle, Working, CodeInv, InstallOf
<1>2. CodeInv'
  BY <1>1 DEF CodeInv
<1>3. ASSUME AloneInv PROVE AloneInv'
  <2>1. \A a, b \in Approval : Busy(a)' /\ Busy(b)' => a = b
    BY <1>1, <1>3 DEF AloneInv
  <2>2. ASSUME NEW a \in Approval, Busy(a)'
        PROVE  OldIsListed(a)' /\ HasRoom(a)' /\ OwnedIsFair(a)'
    <3>1. /\ approval'[a] = approval[a] /\ InstallOf(a)' = InstallOf(a)
          /\ OldIsListed(a) /\ HasRoom(a) /\ OwnedIsFair(a)
          /\ approval[a].owned \in SUBSET Device
      BY <1>1, <1>3, <2>2 DEF AloneInv
    <3>2. OldIsListed(a)'
      BY <3>1 DEF OldIsListed
    <3>3. /\ MachinesWith(install, Theirs, InstallOf(a)) <= Limit =>
               MachinesWith(install, Theirs', InstallOf(a)) <= Limit
          /\ Machines(install, Theirs) <= Limit => Machines(install, Theirs') <= Limit
      BY LiveIsTyped, FewerHaveRoom DEF TypeOK, Installs
    <3>4. HasRoom(a)'
      BY <3>1, <3>3 DEF HasRoom
    <3> DEFINE before == approval[a].owned \ clouds
               after == approval[a].owned \ clouds'
    <3>5. before \in SUBSET Device /\ after \in SUBSET before /\ install \in Installs
      BY <3>1 DEF TypeOK, Installs
    <3> HIDE DEF before, after
    <3>6. MachinesWith(install, before, InstallOf(a)) <= Limit =>
            MachinesWith(install, after, InstallOf(a)) <= Limit
      BY <3>5, FewerHaveRoom
    <3> USE DEF before, after
    <3>7. OwnedIsFair(a)'
      BY <3>1, <3>6 DEF OwnedIsFair
    <3> QED
      BY <3>2, <3>4, <3>7
  <2>3. \A d, e \in Live' : install'[d] = install'[e] /\ install'[d] # NoInstall => d = e
    BY <1>3 DEF AloneInv
  <2> QED
    BY <1>3, <2>1, <2>2, <2>3 DEF AloneInv
<1> QED
  BY <1>2, <1>3

\* A step of the approval a alone.
LEMMA OthersAreIdle ==
  ASSUME AloneInv, NEW a \in Approval, OthersStay(a),
         Busy(a) \/ \A b \in Approval : ~Busy(b)
  PROVE  \A b \in Approval : Busy(b)' => b = a
<1> SUFFICES ASSUME NEW b \in Approval, Busy(b)', b # a PROVE FALSE
  OBVIOUS
<1>1. approval'[b] = approval[b]
  BY DEF OthersStay
<1>2. Busy(b)
  BY <1>1 DEF Busy
<1> QED
  BY <1>2 DEF AloneInv

\* The codes of the others are as they were.
LEMMA CodesOfOthers ==
  ASSUME TypeOK, CodeInv, NEW a \in Approval, OthersStay(a), link' = link,
         Busy(a)' =>
           /\ link[approval'[a].code].status # "none"
           /\ approval'[a].at \in {"list", "revoke"} \/ approval'[a].superseded =>
                InstallOf(a)' # NoInstall
           /\ approval'[a].at = "list" => ~approval'[a].superseded
  PROVE  CodeInv'
<1>1. ASSUME NEW b \in Approval, Busy(b)', b # a
      PROVE  /\ link'[approval'[b].code].status # "none"
             /\ approval'[b].at \in {"list", "revoke"} \/ approval'[b].superseded =>
                  InstallOf(b)' # NoInstall
             /\ approval'[b].at = "list" => ~approval'[b].superseded
  <2>1. approval'[b] = approval[b]
    BY <1>1 DEF OthersStay
  <2>2. Busy(b) /\ InstallOf(b)' = InstallOf(b)
    BY <1>1, <2>1 DEF Busy, InstallOf
  <2> QED
    BY <2>1, <2>2 DEF CodeInv
<1> QED
  BY <1>1 DEF CodeInv

LEMMA CloudStays ==
  ASSUME CloudInv, UNCHANGED <<row, install, cloud>>
  PROVE  CloudInv' /\ Live' = Live /\ Theirs' = Theirs
  BY DEF CloudInv, cloud, Live, Theirs

LEMMA BeginsStays ==
  ASSUME LinkingAssumption, Inv, NEW a \in Approval, NEW c \in Code, NEW entitled \in BOOLEAN,
         Begins(a, c, entitled)
  PROVE  Inv'
<1> USE DEF Inv
<1>1. /\ approval' \in [Approval -> {Idle} \cup Working] /\ OthersStay(a)
      /\ ~Busy(a) /\ link[c].status # "none"
      /\ \/ approval'[a].at = "list" /\ link[c].install # NoInstall
         \/ approval'[a].at = "own"
         \/ approval'[a].at = "issue" /\ approval'[a].entitled
      /\ approval'[a].code = c /\ approval'[a].superseded = FALSE
      /\ ~approval'[a].over => ~(MachinesIn(Theirs) > Limit)
      /\ UNCHANGED <<row, install, link, cloud, stripped>>
  BY BeginsEffect
<1>2. TypeOK' /\ CloudInv' /\ Live' = Live /\ Theirs' = Theirs
  <2>1. overlapped' \in BOOLEAN
    BY BeginsEffect DEF TypeOK
  <2>2. TypeOK'
    BY <1>1, <2>1 DEF TypeOK, cloud
  <2> QED
    BY <1>1, <2>2, CloudStays
<1>3. InstallOf(a)' = link[c].install
  BY <1>1 DEF InstallOf
<1>4. CodeInv'
  BY <1>1, <1>3, CodesOfOthers
<1>5. ASSUME ~overlapped' PROVE AloneInv'
  <2>1. AloneInv /\ \A b \in Approval : ~Busy(b)
    BY <1>5, BeginsEffect
  <2>2. \A b \in Approval : Busy(b)' => b = a
    BY <1>1, <2>1, OthersAreIdle
  <2>3. OldIsListed(a)'
    <3>1. CASE approval'[a].at = "list"
      BY <3>1 DEF OldIsListed
    <3>2. CASE approval'[a].at # "list"
      <4>1. link[c].install = NoInstall
        BY <3>2 DEF Begins, Onward, TypeOK
      <4> QED
        BY <1>3, <4>1 DEF OldIsListed
    <3> QED
      BY <3>1, <3>2
  <2>4. ~approval'[a].over => Machines(install, Theirs) <= Limit
    <3>1. MachinesIn(Theirs) = Machines(install, Theirs)
      BY LiveIsTyped, MachinesInIs
    <3>2. Machines(install, Theirs) \in Nat
      BY LiveIsTyped, MachinesAreNat DEF TypeOK, Installs
    <3> QED
      BY <1>1, <3>1, <3>2 DEF LinkingAssumption
  <2>5. HasRoom(a)' /\ OwnedIsFair(a)'
    BY <1>1, <1>2, <2>4 DEF HasRoom, OwnedIsFair
  <2>6. /\ \A d, e \in Live' : install'[d] = install'[e] /\ install'[d] # NoInstall => d = e
        /\ "none" \notin stripped'
    BY <1>1, <1>2, <2>1 DEF AloneInv
  <2> QED
    BY <2>2, <2>3, <2>5, <2>6 DEF AloneInv
<1> QED
  BY <1>2, <1>4, <1>5

LEMMA ListsStays ==
  ASSUME LinkingAssumption, Inv, NEW a \in Approval, Lists(a)
  PROVE  Inv'
<1> USE DEF Inv
<1>1. /\ approval' \in [Approval -> {Idle} \cup Working] /\ OthersStay(a)
      /\ approval[a].at = "list" /\ Keeps(a)
      /\ approval'[a].superseded = approval[a].superseded
      /\ \/ /\ SameInstall(InstallOf(a)) = {}
            /\ \/ approval'[a].at = "own"
               \/ approval'[a].at = "issue" /\ approval[a].entitled
         \/ /\ approval'[a].at = "revoke" /\ SameInstall(InstallOf(a)) # {}
            /\ approval'[a].old = SameInstall(InstallOf(a))
      /\ UNCHANGED <<row, install, link, cloud, overlapped, stripped>>
  BY ListsEffect
<1>2. TypeOK' /\ CloudInv' /\ Live' = Live /\ Theirs' = Theirs
  <2>1. TypeOK'
    BY <1>1 DEF TypeOK, cloud
  <2> QED
    BY <1>1, <2>1, CloudStays
<1>3. /\ Busy(a) /\ InstallOf(a)' = InstallOf(a) /\ InstallOf(a) # NoInstall
      /\ ~approval[a].superseded /\ link[approval[a].code].status # "none"
  <2>1. Busy(a) /\ InstallOf(a)' = InstallOf(a)
    BY <1>1 DEF Busy, InstallOf, Keeps
  <2> QED
    BY <1>1, <2>1 DEF CodeInv
<1>4. CodeInv'
  BY <1>1, <1>3, CodesOfOthers DEF Keeps
<1>5. ASSUME AloneInv PROVE AloneInv'
  <2>1. \A b \in Approval : Busy(b)' => b = a
    BY <1>1, <1>3, <1>5, OthersAreIdle
  <2>2. HasRoom(a)
    BY <1>3, <1>5 DEF AloneInv
  <2>3. OwnedIsFair(a)'
    BY <1>1 DEF OwnedIsFair
  <2>4. OldIsListed(a)'
    BY <1>1, <1>2, <1>3 DEF OldIsListed, SameInstall
  <2>5. CASE SameInstall(InstallOf(a)) = {}
    <3>1. HasRoom(a)'
      BY <1>1, <1>3, <2>5 DEF HasRoom, Keeps
    <3> QED
      BY <1>1, <1>2, <1>5, <2>1, <2>3, <2>4, <3>1 DEF AloneInv
  <2>6. CASE approval'[a].at = "revoke" /\ SameInstall(InstallOf(a)) # {}
    <3>1. PICK d \in Live : install[d] = InstallOf(a)
      BY <2>6 DEF SameInstall
    <3>2. d \in Theirs /\ d \in Device /\ install[d] # NoInstall
      BY <1>3, <3>1, LiveIsTyped DEF Theirs, CloudInv
    <3>3. MachinesWith(install, Theirs, InstallOf(a)) = Machines(install, Theirs)
      BY <3>1, <3>2, LiveIsTyped, SameInstallIsFree DEF TypeOK, Installs
    <3>4. HasRoom(a)'
      BY <1>1, <1>2, <1>3, <2>2, <2>6, <3>3 DEF HasRoom, Keeps
    <3> QED
      BY <1>1, <1>2, <1>5, <2>1, <2>3, <2>4, <3>4 DEF AloneInv
  <2> QED
    BY <1>1, <2>5, <2>6
<1> QED
  BY <1>1, <1>2, <1>4, <1>5

LEMMA SupersedesStays ==
  ASSUME LinkingAssumption, Inv, NEW a \in Approval, NEW d \in Device, Supersedes(a, d)
  PROVE  Inv'
<1> USE DEF Inv
<1>1. /\ approval' \in [Approval -> {Idle} \cup Working] /\ OthersStay(a)
      /\ approval[a].at = "revoke" /\ d \in approval[a].old /\ Keeps(a)
      /\ approval'[a].old = approval[a].old \ {d}
      /\ \/ /\ approval[a].old = {d}
            /\ \/ approval'[a].at = "own"
               \/ approval'[a].at = "issue" /\ approval[a].entitled
         \/ approval'[a].at = "revoke"
      /\ row' = [row EXCEPT ![d] = "revoked"]
      /\ UNCHANGED <<install, link, cloud, overlapped, stripped>>
  BY SupersedesEffect
<1>2. TypeOK'
  BY <1>1 DEF TypeOK, cloud
<1>3. /\ Busy(a) /\ InstallOf(a)' = InstallOf(a) /\ InstallOf(a) # NoInstall
      /\ link[approval[a].code].status # "none"
  <2>1. Busy(a) /\ InstallOf(a)' = InstallOf(a)
    BY <1>1 DEF Busy, InstallOf, Keeps
  <2> QED
    BY <1>1, <2>1 DEF CodeInv
<1>4. Live' = Live \ {d} /\ Theirs' \subseteq Theirs
  BY <1>1 DEF Live, TypeOK, Theirs, cloud
<1>5. CloudInv'
  BY <1>1 DEF CloudInv, TypeOK, cloud
<1>6. CodeInv'
  BY <1>1, <1>3, CodesOfOthers DEF Keeps
<1>7. ASSUME AloneInv PROVE AloneInv'
  <2>1. \A b \in Approval : Busy(b)' => b = a
    BY <1>1, <1>3, <1>7, OthersAreIdle
  <2>2. OldIsListed(a)'
    BY <1>1, <1>3, <1>4, <1>7 DEF AloneInv, OldIsListed
  <2>3. approval[a].over \/ MachinesWith(install, Theirs, InstallOf(a)) <= Limit
    BY <1>1, <1>3, <1>7 DEF AloneInv, HasRoom
  <2>4. approval[a].over \/ MachinesWith(install, Theirs', InstallOf(a)) <= Limit
    BY <1>4, <2>3, LiveIsTyped, FewerHaveRoom DEF TypeOK, Installs
  <2>5. HasRoom(a)' /\ OwnedIsFair(a)'
    BY <1>1, <1>3, <2>4 DEF HasRoom, OwnedIsFair, Keeps
  <2>6. \A e, f \in Live' : install'[e] = install'[f] /\ install'[e] # NoInstall => e = f
    BY <1>1, <1>4, <1>7 DEF AloneInv
  <2> QED
    BY <1>1, <1>7, <2>1, <2>2, <2>5, <2>6 DEF AloneInv
<1> QED
  BY <1>1, <1>2, <1>5, <1>6, <1>7

LEMMA OwnsStays ==
  ASSUME LinkingAssumption, Inv, NEW a \in Approval, Owns(a)
  PROVE  Inv'
<1> USE DEF Inv
<1>1. /\ approval' \in [Approval -> {Idle} \cup Working] /\ OthersStay(a)
      /\ approval[a].at = "own" /\ Keeps(a)
      /\ approval'[a].at = "count" /\ approval'[a].owned = Live
      /\ approval'[a].superseded = approval[a].superseded
      /\ UNCHANGED <<row, install, link, cloud, overlapped, stripped>>
  BY OwnsEffect
<1>2. TypeOK' /\ CloudInv' /\ Live' = Live /\ Theirs' = Theirs
  <2>1. TypeOK'
    BY <1>1 DEF TypeOK, cloud
  <2> QED
    BY <1>1, <2>1, CloudStays
<1>3. /\ Busy(a) /\ InstallOf(a)' = InstallOf(a) /\ link[approval[a].code].status # "none"
      /\ approval[a].superseded => InstallOf(a) # NoInstall
  <2>1. Busy(a) /\ InstallOf(a)' = InstallOf(a)
    BY <1>1 DEF Busy, InstallOf, Keeps
  <2> QED
    BY <2>1 DEF CodeInv
<1>4. CodeInv'
  BY <1>1, <1>3, CodesOfOthers DEF Keeps
<1>5. ASSUME AloneInv PROVE AloneInv'
  <2>1. \A b \in Approval : Busy(b)' => b = a
    BY <1>1, <1>3, <1>5, OthersAreIdle
  <2>2. OldIsListed(a) /\ HasRoom(a)
    BY <1>3, <1>5 DEF AloneInv
  <2>3. OldIsListed(a)' /\ HasRoom(a)'
    BY <1>1, <1>2, <1>3, <2>2 DEF OldIsListed, HasRoom
  <2>4. \A e, f \in Live : install[e] = install[f] /\ install[e] # NoInstall => e = f
    BY <1>5 DEF AloneInv
  <2>5. approval[a].superseded => \A d \in Live : install[d] # InstallOf(a)
    BY <1>1, <1>3, <2>2 DEF OldIsListed
  <2>6. approval[a].superseded =>
          approval[a].over \/ MachinesWith(install, Live \ clouds, InstallOf(a)) <= Limit
    BY <1>1, <2>2 DEF HasRoom, Theirs
  <2>7. Theirs \subseteq Live /\ \A d \in Live : row[d] # "unused"
    BY DEF Theirs, Live
  <2>8. OwnedIsFair(a)'
    BY <1>1, <1>2, <1>3, <2>4, <2>5, <2>6, <2>7 DEF OwnedIsFair, Keeps, cloud
  <2> QED
    BY <1>1, <1>2, <1>5, <2>1, <2>3, <2>4, <2>8 DEF AloneInv
<1> QED
  BY <1>1, <1>2, <1>4, <1>5

LEMMA CountsStays ==
  ASSUME LinkingAssumption, Inv, NEW a \in Approval, NEW known \in BOOLEAN, Counts(a, known)
  PROVE  Inv'
<1> USE DEF Inv
<1> DEFINE counted == Countable(a, known)
<1>1. /\ approval' \in [Approval -> {Idle} \cup Working] /\ OthersStay(a)
      /\ approval[a].at = "count" /\ UNCHANGED <<row, install, link, cloud, overlapped>>
  BY CountsEffect
<1>2. CloudInv' /\ Live' = Live /\ Theirs' = Theirs
  BY <1>1, CloudStays
<1>3. /\ Busy(a) /\ InstallOf(a) \in Install \cup {NoInstall}
      /\ link[approval[a].code].status # "none"
      /\ approval[a].superseded => InstallOf(a) # NoInstall
      /\ approval[a].owned \in SUBSET Device /\ counted \in SUBSET approval[a].owned
      /\ install \in Installs
  <2>1. Busy(a)
    BY <1>1 DEF Busy
  <2>2. approval[a].code \in Code /\ approval[a].owned \in SUBSET Device
    BY <2>1, BusyIsWorking DEF Working
  <2>3. counted \in SUBSET approval[a].owned
    BY DEF Countable
  <2> QED
    BY <2>1, <2>2, <2>3 DEF InstallOf, TypeOK, LinkRecord, Installs, CodeInv
<1> HIDE DEF counted
<1>4. CASE ~Busy(a)' /\ approval'[a] = Idle /\ stripped' = stripped
  <2>1. \A b \in Approval : approval'[b] \in {approval[b], Idle}
    BY <1>1, <1>4 DEF OthersStay
  <2>2. TypeOK'
    BY <1>1, <1>4 DEF TypeOK, cloud
  <2> QED
    BY <1>1, <1>2, <1>4, <2>1, <2>2, QuietSteps DEF cloud
<1>5. CASE /\ ~Busy(a)' /\ approval'[a] = Idle
           /\ stripped' = stripped \cup {Ground(a, known)}
           /\ approval[a].superseded /\ Owned(a, known) > Limit
  <2>1. ASSUME AloneInv PROVE Ground(a, known) # "none"
    <3> SUFFICES ASSUME Ground(a, known) = "none" PROVE FALSE
      OBVIOUS
    <3>1. counted \cap clouds = {} /\ ~approval[a].over
      BY DEF Ground, counted
    <3>2. OwnedIsFair(a)
      BY <1>3, <2>1 DEF AloneInv
    <3> DEFINE theirs == approval[a].owned \ clouds
    <3>3. /\ theirs \in SUBSET Device /\ counted \in SUBSET theirs
          /\ MachinesWith(install, theirs, InstallOf(a)) <= Limit
          /\ \A d \in counted : install[d] # InstallOf(a)
          /\ \A d, e \in counted : install[d] = install[e] /\ install[d] # NoInstall => d = e
      BY <1>1, <1>3, <1>5, <3>1, <3>2 DEF OwnedIsFair
    <3> HIDE DEF theirs
    <3>4. MachinesWith(install, counted, InstallOf(a)) <= Limit
      BY <1>3, <3>3, FewerHaveRoom
    <3>5. counted \in SUBSET Device /\ InstallOf(a) \in Install
      BY <1>3, <1>5
    <3>6. CountMachines(counted, InstallOf(a)) = MachinesWith(install, counted, InstallOf(a))
      BY <1>3, <3>3, <3>5, CountIsExact
    <3>7. MachinesWith(install, counted, InstallOf(a)) \in Nat
      BY <1>3, <3>5, MachinesAreNat
    <3>8. CountMachines(counted, InstallOf(a)) > Limit
      BY <1>5 DEF Owned, counted
    <3> QED
      BY <3>4, <3>6, <3>7, <3>8 DEF LinkingAssumption
  <2>2. Ground(a, known) \in {"cloud", "over", "none"}
    BY DEF Ground
  <2>3. TypeOK'
    BY <1>1, <1>5, <2>2 DEF TypeOK, cloud
  <2>4. CodeInv'
    BY <1>1, <1>5, CodesOfOthers
  <2>5. ASSUME AloneInv PROVE AloneInv'
    <3>1. \A b \in Approval : ~Busy(b)'
      BY <1>1, <1>3, <1>5, <2>5, OthersAreIdle
    <3> QED
      BY <1>1, <1>2, <1>5, <2>1, <2>5, <3>1 DEF AloneInv
  <2> QED
    BY <1>1, <1>2, <2>3, <2>4, <2>5
<1>6. CASE /\ approval'[a].at = "issue" /\ Keeps(a)
           /\ approval'[a].superseded = approval[a].superseded
           /\ ~(Owned(a, known) > Limit)
           /\ stripped' = stripped
  <2>1. InstallOf(a)' = InstallOf(a)
    BY <1>1, <1>6 DEF InstallOf, Keeps
  <2>2. TypeOK'
    BY <1>1, <1>6 DEF TypeOK, cloud
  <2>3. CodeInv'
    BY <1>1, <1>3, <1>6, <2>1, CodesOfOthers DEF Keeps
  <2>4. ASSUME AloneInv PROVE AloneInv'
    <3>1. \A b \in Approval : Busy(b)' => b = a
      BY <1>1, <1>3, <2>4, OthersAreIdle
    <3>2. OldIsListed(a) /\ OwnedIsFair(a)
      BY <1>3, <2>4 DEF AloneInv
    <3>3. OldIsListed(a)' /\ OwnedIsFair(a)'
      BY <1>1, <1>2, <1>6, <2>1, <3>2 DEF OldIsListed, OwnedIsFair
    <3>4. Theirs \in SUBSET counted
      BY <1>1, <3>2 DEF OwnedIsFair, counted, Countable, Theirs, CloudInv
    <3>5. counted \in SUBSET Device
      BY <1>3
    <3>6. /\ MachinesWith(install, counted, InstallOf(a)) <= CountMachines(counted, InstallOf(a))
          /\ CountMachines(counted, InstallOf(a)) \in Nat
      BY <1>3, <3>5, CountIsEnough
    <3>7. MachinesWith(install, counted, InstallOf(a)) \in Nat
      BY <1>3, <3>5, MachinesAreNat
    <3>8. ~(CountMachines(counted, InstallOf(a)) > Limit)
      BY <1>6 DEF Owned, counted
    <3>9. MachinesWith(install, counted, InstallOf(a)) <= Limit
      BY <3>6, <3>7, <3>8 DEF LinkingAssumption
    <3>10. MachinesWith(install, Theirs, InstallOf(a)) <= Limit
      BY <1>3, <3>4, <3>5, <3>9, FewerHaveRoom
    <3>11. HasRoom(a)'
      BY <1>1, <1>2, <1>6, <2>1, <3>10 DEF HasRoom
    <3> QED
      BY <1>1, <1>2, <1>6, <2>4, <3>1, <3>3, <3>11 DEF AloneInv
  <2> QED
    BY <1>1, <1>2, <2>2, <2>3, <2>4
<1> QED
  BY <1>4, <1>5, <1>6, CountsEffect

\* The device that is issued is one of the machines the approval had room for.
LEMMA IssuedIsCounted ==
  ASSUME LinkingAssumption, Inv, NEW a \in Approval, NEW d \in Device,
         NEW answered \in BOOLEAN, Issues(a, d, answered)
  PROVE  /\ Live' = Live \cup {d} /\ Theirs' = Theirs \cup {d} /\ d \notin Live
         /\ install' \in Installs /\ install'[d] = InstallOf(a)
         /\ \A e \in Live : install'[e] = install[e]
         /\ Machines(install', Theirs') = MachinesWith(install, Theirs, InstallOf(a))
<1> USE DEF Inv
<1>1. /\ approval[a] \in Working /\ row[d] = "unused" /\ row' = [row EXCEPT ![d] = "live"]
      /\ install' = [install EXCEPT ![d] = InstallOf(a)] /\ UNCHANGED cloud
  BY IssuesEffect
<1>2. InstallOf(a) \in Install \cup {NoInstall} /\ install \in Installs
  BY <1>1 DEF Working, InstallOf, TypeOK, LinkRecord, Installs
<1>3. d \notin clouds /\ d \notin Live /\ d \notin Theirs
  BY <1>1 DEF CloudInv, Live, Theirs
<1>4. Live' = Live \cup {d} /\ Theirs' = Theirs \cup {d}
  BY <1>1, <1>3 DEF Live, TypeOK, Theirs, cloud
<1>5. /\ install'[d] = InstallOf(a) /\ install' \in Installs
      /\ \A e \in Live : install'[e] = install[e]
  BY <1>1, <1>2, <1>3, LiveIsTyped DEF Installs
<1>6. \A e \in Theirs : install'[e] = install[e]
  BY <1>5 DEF Theirs
<1>7. Machines(install', Theirs') = MachinesWith(install, Theirs, InstallOf(a))
  <2>1. CASE InstallOf(a) = NoInstall
    <3>1. /\ Solo(install', Theirs') = Solo(install, Theirs) \cup {d}
          /\ Computers(install', Theirs') = Computers(install, Theirs)
          /\ d \notin Solo(install, Theirs)
      BY <1>3, <1>4, <1>5, <1>6, <2>1 DEF Solo, Computers, Named
    <3>2. Cardinality(Solo(install, Theirs) \cup {d}) = Cardinality(Solo(install, Theirs)) + 1
      BY <1>2, <3>1, LiveIsTyped, CountsAreFinite, FS_AddElement
    <3>3. Machines(install', Theirs') =
            Cardinality(Solo(install, Theirs) \cup {d}) + Cardinality(Computers(install, Theirs))
      BY <3>1, Zenon DEF Machines
    <3> QED
      BY <2>1, <3>2, <3>3 DEF MachinesWith
  <2>2. CASE InstallOf(a) # NoInstall
    <3>1. /\ Solo(install', Theirs') = Solo(install, Theirs)
          /\ Computers(install', Theirs') = Computers(install, Theirs) \cup {InstallOf(a)[1]}
      BY <1>4, <1>5, <1>6, <2>2 DEF Solo, Computers, Named
    <3>2. Machines(install', Theirs') =
            Cardinality(Solo(install, Theirs))
              + Cardinality(Computers(install, Theirs) \cup {InstallOf(a)[1]})
      BY <3>1, Zenon DEF Machines
    <3> QED
      BY <2>2, <3>2 DEF MachinesWith
  <2> QED
    BY <2>1, <2>2
<1> QED
  BY <1>3, <1>4, <1>5, <1>7

LEMMA IssuesStays ==
  ASSUME LinkingAssumption, Inv, NEW a \in Approval, NEW d \in Device,
         NEW answered \in BOOLEAN, Issues(a, d, answered)
  PROVE  Inv'
<1> USE DEF Inv
<1>1. /\ approval' \in [Approval -> {Idle} \cup Working] /\ OthersStay(a) /\ ~Busy(a)'
      /\ approval[a].at = "issue" /\ approval[a] \in Working
      /\ row[d] = "unused" /\ row' = [row EXCEPT ![d] = "live"]
      /\ install' = [install EXCEPT ![d] = InstallOf(a)]
      /\ link' \in [Code -> LinkRecord]
      /\ \A c \in Code : /\ link'[c].install = link[c].install
                         /\ link[c].status # "none" => link'[c].status # "none"
      /\ UNCHANGED <<cloud, overlapped, stripped>>
  BY IssuesEffect
<1>2. /\ Live' = Live \cup {d} /\ d \notin Live /\ install' \in Installs
      /\ install'[d] = InstallOf(a) /\ \A e \in Live : install'[e] = install[e]
  BY IssuedIsCounted
<1>3. TypeOK'
  BY <1>1, <1>2 DEF TypeOK, Installs, cloud
<1>4. CloudInv'
  BY <1>1 DEF CloudInv, TypeOK, cloud
<1>5. Busy(a)
  BY <1>1 DEF Busy
<1>6. \A b \in Approval : Busy(b)' =>
        /\ b # a /\ approval'[b] = approval[b] /\ Busy(b) /\ approval[b].code \in Code
  BY <1>1, BusyIsWorking DEF OthersStay, Busy, Working
<1>7. CodeInv'
  <2>1. ASSUME NEW b \in Approval, Busy(b)'
        PROVE  /\ link'[approval'[b].code].status # "none"
               /\ approval'[b].at \in {"list", "revoke"} \/ approval'[b].superseded =>
                    link'[approval'[b].code].install # NoInstall
               /\ approval'[b].at = "list" => ~approval'[b].superseded
    <3>1. approval'[b] = approval[b] /\ Busy(b) /\ approval[b].code \in Code
      BY <1>6, <2>1
    <3>2. /\ link[approval[b].code].status # "none"
          /\ approval[b].at \in {"list", "revoke"} \/ approval[b].superseded =>
               link[approval[b].code].install # NoInstall
          /\ approval[b].at = "list" => ~approval[b].superseded
      BY <3>1 DEF CodeInv, InstallOf
    <3>3. /\ link'[approval[b].code].install = link[approval[b].code].install
          /\ link[approval[b].code].status # "none" => link'[approval[b].code].status # "none"
      BY <1>1, <3>1, Zenon
    <3> QED
      BY <3>1, <3>2, <3>3
  <2> QED
    BY <2>1 DEF CodeInv, InstallOf
<1>8. ASSUME AloneInv PROVE AloneInv'
  <2>1. \A b \in Approval : ~Busy(b)'
    BY <1>5, <1>6, <1>8 DEF AloneInv
  <2>2. \A e \in Live : install[e] = InstallOf(a) => install[e] = NoInstall
    BY <1>1, <1>5, <1>8 DEF AloneInv, OldIsListed
  <2>3. \A e, f \in Live' : install'[e] = install'[f] /\ install'[e] # NoInstall => e = f
    BY <1>2, <1>8, <2>2 DEF AloneInv
  <2> QED
    BY <1>1, <1>8, <2>1, <2>3 DEF AloneInv
<1> QED
  BY <1>1, <1>3, <1>4, <1>7, <1>8

\* Steps of the cloud's device, and the removal of a device.
LEMMA CloudMoves ==
  ASSUME LinkingAssumption, Inv,
         \/ \E d \in Device : CloudIssues(d) \/ ResetRevokes(d) \/ ResetRemoves(d) \/ Deletes(d)
         \/ CloudLists \/ CloudFails
  PROVE  Inv'
<1> USE DEF Inv
<1>1. UNCHANGED <<install, link, approval, overlapped, stripped>>
  BY DEF CloudIssues, ResetRevokes, ResetRemoves, Deletes, CloudLists, CloudFails
<1>2. ASSUME NEW d \in Device, CloudIssues(d)
      PROVE  Inv'
  <2>1. /\ row[d] = "unused" /\ row' = [row EXCEPT ![d] = "live"] /\ listed' = listed
        /\ opening' = d /\ clouds' = clouds \cup {d}
    BY <1>2 DEF CloudIssues
  <2>2. TypeOK' /\ CloudInv'
    BY <1>1, <2>1 DEF TypeOK, CloudInv
  <2>3. /\ Live' = Live \cup {d} /\ install[d] = NoInstall /\ Theirs' \subseteq Theirs
        /\ \A e \in Device : row[e] # "unused" => row'[e] # "unused"
    BY <2>1 DEF Live, Theirs, TypeOK, CloudInv
  <2> QED
    BY <1>1, <2>1, <2>2, <2>3, QuietSteps
<1>3. ASSUME NEW d \in Device, ResetRevokes(d) \/ Deletes(d)
      PROVE  Inv'
  <2>1. row[d] = "live" /\ row' = [row EXCEPT ![d] = "revoked"] /\ UNCHANGED cloud
    BY <1>3 DEF ResetRevokes, Deletes
  <2>2. TypeOK' /\ CloudInv'
    BY <1>1, <2>1 DEF TypeOK, CloudInv, cloud
  <2>3. /\ Live' \subseteq Live /\ Theirs' \subseteq Theirs
        /\ \A e \in Device : row[e] # "unused" => row'[e] # "unused"
    BY <2>1 DEF Live, Theirs, TypeOK, cloud
  <2> QED
    BY <1>1, <2>1, <2>2, <2>3, QuietSteps DEF cloud
<1>4. ASSUME CloudLists \/ CloudFails \/ \E d \in Device : ResetRemoves(d)
      PROVE  Inv'
  <2>1. /\ UNCHANGED <<row, clouds>>
        /\ listed' \subseteq clouds /\ opening' \in {NoDevice, opening}
    BY <1>4 DEF CloudLists, CloudFails, ResetRemoves, CloudInv
  <2>2. TypeOK' /\ CloudInv'
    BY <1>1, <2>1 DEF TypeOK, CloudInv
  <2>3. Live' = Live /\ Theirs' = Theirs
    BY <2>1 DEF Live, Theirs
  <2> QED
    BY <1>1, <2>1, <2>2, <2>3, QuietSteps
<1> QED
  BY <1>2, <1>3, <1>4

LEMMA InvStays ==
  ASSUME LinkingAssumption, Inv, [Next]_vars
  PROVE  Inv'
<1> USE DEF Inv
<1>1. ASSUME NEW c \in Code, Expires(c) \/ \E i \in Install \cup {NoInstall} : Starts(c, i)
      PROVE  Inv'
  <2>1. /\ UNCHANGED <<row, install, approval, cloud, overlapped, stripped>>
        /\ link' \in [Code -> LinkRecord]
    BY <1>1 DEF Expires, Starts, TypeOK, LinkRecord
  <2>2. \A b \in Code : link[b].status # "none" =>
          link'[b].status # "none" /\ link'[b].install = link[b].install
    BY <1>1 DEF Expires, Starts, TypeOK, LinkRecord
  <2>3. TypeOK' /\ CloudInv' /\ Live' = Live /\ Theirs' = Theirs
    BY <2>1, CloudStays DEF TypeOK, cloud
  <2> QED
    BY <2>1, <2>2, <2>3, QuietSteps DEF cloud
<1>2. ASSUME NEW a \in Approval, Fails(a) PROVE Inv'
  <2>1. /\ UNCHANGED <<row, install, link, cloud, overlapped, stripped>> /\ OthersStay(a)
        /\ approval' \in [Approval -> {Idle} \cup Working] /\ approval'[a] = Idle
    BY <1>2, EndsEffect DEF Fails
  <2>2. /\ TypeOK' /\ CloudInv' /\ Live' = Live /\ Theirs' = Theirs
        /\ \A b \in Approval : approval'[b] \in {approval[b], Idle}
    BY <2>1, CloudStays DEF TypeOK, cloud, OthersStay
  <2> QED
    BY <2>1, <2>2, QuietSteps DEF cloud
<1>3. CASE Crashes
  <2>1. /\ UNCHANGED <<row, install, listed, clouds, overlapped, stripped>>
        /\ opening' = NoDevice /\ link' \in [Code -> LinkRecord]
        /\ \A c \in Code : link[c].status # "none" =>
             link'[c].status # "none" /\ link'[c].install = link[c].install
    BY <1>3 DEF Crashes, TypeOK, LinkRecord
  <2>2. \A a \in Approval : approval'[a] = Idle
    BY <1>3 DEF Crashes
  <2>3. approval' \in [Approval -> {Idle} \cup Working]
    BY <1>3 DEF Crashes
  <2>4. TypeOK' /\ CloudInv' /\ Live' = Live /\ Theirs' = Theirs
    BY <2>1, <2>3 DEF TypeOK, CloudInv, Live, Theirs
  <2> QED
    BY <2>1, <2>2, <2>4, QuietSteps
<1>4. CASE UNCHANGED vars
  <2>1. TypeOK' /\ CloudInv' /\ Live' = Live /\ Theirs' = Theirs
    BY <1>4, CloudStays DEF vars, cloud, TypeOK
  <2> QED
    BY <1>4, <2>1, QuietSteps DEF vars, cloud
<1> QED
  BY <1>1, <1>2, <1>3, <1>4, CloudMoves, BeginsStays, ListsStays, SupersedesStays, OwnsStays,
     CountsStays, IssuesStays DEF Next

LEMMA InitIsInv ==
  ASSUME LinkingAssumption, Init
  PROVE  Inv
<1> USE DEF Init
<1>1. TypeOK
  BY DEF TypeOK, LinkRecord
<1>2. \A a \in Approval : ~Busy(a)
  BY DEF Busy, Idle
<1>3. Live = {} /\ CloudInv
  BY DEF Live, CloudInv
<1> QED
  BY <1>1, <1>2, <1>3 DEF Inv, CodeInv, AloneInv

LEMMA InvHolds ==
  ASSUME LinkingAssumption
  PROVE  Spec => []Inv
<1>1. Init => Inv
  BY InitIsInv
<1>2. Inv /\ [Next]_vars => Inv'
  BY InvStays
<1> QED
  BY <1>1, <1>2, PTL DEF Spec

\* The registry, the links, the approvals under way and the environments keep their types.
THEOREM LinkingTypes == LinkingAssumption => (Spec => []TypeOK)
<1> SUFFICES ASSUME LinkingAssumption PROVE Spec => []TypeOK
  OBVIOUS
<1>1. Inv => TypeOK
  BY DEF Inv
<1> QED
  BY <1>1, InvHolds, PTL

\* A step that ends an approval which was to issue, and changes the registry, issued.
LEMMA OnlyIssuesIssues ==
  ASSUME Inv, NEW a \in Approval, At(a, "issue"), approval'[a] = Idle, row' # row, [Next]_vars
  PROVE  \E d \in Device, answered \in BOOLEAN : Issues(a, d, answered)
<1> USE DEF Inv
<1>1. approval[a] # Idle /\ Busy(a)
  BY BusyIsWorking DEF At, Busy
<1>2. approval' # approval
  BY <1>1
<1>3. PICK b \in Approval, d \in Device :
        Supersedes(b, d) \/ \E answered \in BOOLEAN : Issues(b, d, answered)
  BY <1>2 DEF Next, vars, Expires, Starts, Lists, Owns, Fails, Begins, Counts, CloudIssues,
     ResetRevokes, ResetRemoves, Deletes, CloudLists, CloudFails, Crashes
<1>4. OthersStay(b)
  BY <1>3, SupersedesEffect, IssuesEffect
<1>5. b = a
  BY <1>1, <1>4 DEF OthersStay
<1>6. ~Supersedes(a, d)
  BY DEF Supersedes, At
<1> QED
  BY <1>3, <1>5, <1>6

LEMMA TheirMachines == TypeOK => MachinesIn(Theirs) = Machines(install, Theirs)
  BY LiveIsTyped, MachinesInIs

\* As long as no two approvals are under way at once, what is issued without a plan
\* leaves the account no more machines than its limit, whatever calls fail and
\* whatever is removed or opened meanwhile.
THEOREM LimitIsKept == LinkingAssumption => (Spec => LimitHolds)
<1> SUFFICES ASSUME LinkingAssumption PROVE Spec => LimitHolds
  OBVIOUS
<1> DEFINE kept ==
      \A a \in Approval :
        At(a, "issue") /\ ~approval[a].entitled /\ approval'[a] = Idle /\ row' # row =>
          overlapped \/ MachinesIn(Live \ clouds)' <= Limit
<1>1. ASSUME Inv, Inv', [Next]_vars PROVE kept
  <2> SUFFICES ASSUME NEW a \in Approval, At(a, "issue"), ~approval[a].entitled,
                      approval'[a] = Idle, row' # row, ~overlapped
               PROVE  MachinesIn(Theirs)' <= Limit
    BY DEF Theirs
  <2>1. PICK d \in Device, answered \in BOOLEAN : Issues(a, d, answered)
    BY <1>1, OnlyIssuesIssues
  <2>2. Machines(install', Theirs') = MachinesWith(install, Theirs, InstallOf(a))
    BY <1>1, <2>1, IssuedIsCounted
  <2>3. Busy(a) /\ AloneInv
    BY <1>1 DEF At, Busy, Inv
  <2>4. MachinesWith(install, Theirs, InstallOf(a)) <= Limit
    BY <2>3 DEF At, AloneInv, HasRoom
  <2>5. TypeOK'
    BY <1>1 DEF Inv
  <2>6. (MachinesIn(Theirs) = Machines(install, Theirs))'
    BY <2>5, TheirMachines, PTL
  <2> QED
    BY <2>2, <2>4, <2>6
<1>2. Inv /\ Inv' /\ [Next]_vars => [kept]_vars
  BY <1>1
<1> QED
  BY <1>2, InvHolds, PTL DEF Spec, LimitHolds

\* And an install has no more than one live device that says which it is.
THEOREM InstallsAreOne == LinkingAssumption => (Spec => []InstallIsOne)
<1> SUFFICES ASSUME LinkingAssumption PROVE Spec => []InstallIsOne
  OBVIOUS
<1>1. Inv => InstallIsOne
  BY DEF Inv, AloneInv, InstallIsOne
<1> QED
  BY <1>1, InvHolds, PTL

\* A refusal that has revoked the device it was to replace counted a device of the
\* cloud, or an account that was over its limit when the approval began: there is
\* no third way to it.
THEOREM RefusalsAreExcused == LinkingAssumption => (Spec => []RefusedRelinkIsExcused)
<1> SUFFICES ASSUME LinkingAssumption PROVE Spec => []RefusedRelinkIsExcused
  OBVIOUS
<1>1. Inv => RefusedRelinkIsExcused
  BY DEF Inv, AloneInv, RefusedRelinkIsExcused
<1> QED
  BY <1>1, InvHolds, PTL
=============================================================================
