--------------------------------- MODULE Boot ---------------------------------
(***************************************************************************)
(* The script a cloud machine runs on every boot (src/pool-bootstrap.ts):  *)
(* the first install, the readiness report, the wait for its owner, the    *)
(* weekly update of the host, the start of the host; and the operator's    *)
(* scripts/refresh-sprite-hosts.mjs on a machine that has an owner.        *)
(*                                                                         *)
(* An action is one command of the script.  The machine can be paused or   *)
(* its service restarted between any two of them: the files stay, the      *)
(* process is gone.  Releases are numbered in the order they appear.       *)
(***************************************************************************)
EXTENDS Naturals

CONSTANT Builds    \* bound: releases that carry an AppImage

\* What the constant is assumed to be.
BootAssumption == Builds \in Nat \ {0}

Nothing == 0
Damage == 0        \* bytes of no build
Build == 1..Builds

VARIABLES
  latest,     \* GitHub: the newest release with an AppImage
  at,         \* the command the script has reached; "off" without a process
  asset,      \* what its release lookup found
  root, old,  \* builds in squashfs-root and squashfs-root.old
  parts,      \* next/afkpilot.AppImage: the builds its bytes come from
  whole,      \* and whether a download of it was finished
  unpacked,   \* the build in next/squashfs-root
  partialOf,  \* next/.asset
  record,     \* .afkpilot-asset
  kind,       \* .afkpilot-kind
  checked,    \* .afkpilot-host-checked: "no", "fresh" or "stale"
  installed,  \* .afkpilot-installed
  claimed,    \* .afkpilot.env
  ordered,    \* made to order: no pool row to report to
  reported    \* the pool row is ready

next == <<parts, whole, unpacked, partialOf>>
build == <<root, old, record, kind>>
life == <<installed, claimed, ordered, reported>>
vars == <<latest, at, asset, next, build, checked, life>>

Goes(from, to) == at = from /\ at' = to

NextRemoved == parts' = {} /\ whole' = FALSE /\ unpacked' = Nothing /\ partialOf' = Nothing

\* The host can be started from what is on the disk.
CanStart == kind = "source" \/ (kind = "appimage" /\ root # Nothing)

(***************************************************************************)
(* The install.                                                            *)
(***************************************************************************)
Boots ==
  /\ Goes("off", IF installed THEN "report" ELSE "look")
  /\ asset' = Nothing
  /\ UNCHANGED <<latest, next, build, checked, life>>

\* Mutant: a kind that is there is enough.
InstallBelieves ==
  /\ Goes("look", IF kind = "none" THEN "get" ELSE "stamp")
  /\ latest # Nothing /\ kind' = "appimage" /\ asset' = latest
  /\ UNCHANGED <<latest, next, root, old, record, checked, life>>

\* apt, the lookup, and a clean directory if there is a build to put into it.
InstallLooks ==
  /\ Goes("look", IF latest = Nothing THEN "source" ELSE "get")
  /\ asset' = latest
  /\ IF latest = Nothing
     THEN UNCHANGED <<next, build, checked>>
     ELSE /\ NextRemoved /\ root' = Nothing /\ old' = Nothing
          /\ record' = Nothing /\ kind' = "none" /\ checked' = "no"
  /\ UNCHANGED <<latest, life>>

\* Downloaded and unpacked, or discarded.
InstallUnpacks(works) ==
  /\ Goes("get", IF works THEN "kind" ELSE "source")
  /\ root' = IF works THEN asset ELSE Nothing
  /\ UNCHANGED <<latest, asset, next, old, record, kind, checked, life>>

InstallSaysKind ==
  /\ Goes("kind", "note")
  /\ kind' = "appimage"
  /\ UNCHANGED <<latest, asset, next, root, old, record, checked, life>>

InstallRecords ==
  /\ Goes("note", "stamp")
  /\ record' = asset /\ checked' = "fresh"
  /\ UNCHANGED <<latest, asset, next, root, old, kind, life>>

\* Without a kind, from source; that removes the directory first.
InstallFromSource ==
  /\ Goes("source", "stamp")
  /\ IF kind = "none"
     THEN /\ kind' = "source" /\ root' = Nothing /\ old' = Nothing /\ record' = Nothing
          /\ NextRemoved /\ checked' = "no"
     ELSE UNCHANGED <<next, build, checked>>
  /\ UNCHANGED <<latest, asset, life>>

\* The agents, then the stamp.
InstallStamps ==
  /\ Goes("stamp", "report")
  /\ installed' = TRUE
  /\ UNCHANGED <<latest, asset, next, build, checked, claimed, ordered, reported>>

(***************************************************************************)
(* The report, and the owner.                                              *)
(***************************************************************************)
\* Once the report is answered nobody asks again before the next boot.
Reports(arrives) ==
  /\ Goes("report", "wait")
  /\ reported' = (reported \/ (arrives /\ ~claimed /\ ~ordered))
  /\ UNCHANGED <<latest, asset, next, build, checked, installed, claimed, ordered>>

\* handoverCommand: the environment file is put in place, the service restarted
\* if that works.  A machine made to order gets it whatever it is doing.
Claimed(restarted) ==
  /\ ~claimed /\ (ordered \/ reported)
  /\ claimed' = TRUE
  /\ at' = IF restarted THEN "off" ELSE at
  /\ UNCHANGED <<latest, asset, next, build, checked, installed, ordered, reported>>

Leaves ==
  /\ claimed
  /\ Goes("wait", "refresh")
  /\ UNCHANGED <<latest, asset, next, build, checked, life>>

(***************************************************************************)
(* refresh_host_if_stale                                                   *)
(***************************************************************************)
\* Not an AppImage, or looked at within the week.
RefreshSkips ==
  /\ Goes("refresh", "start")
  /\ kind # "appimage" \/ checked = "fresh"
  /\ UNCHANGED <<latest, asset, next, build, checked, life>>

\* The lookup fails, or finds nothing to install.
RefreshFindsNone ==
  /\ Goes("refresh", "start")
  /\ kind = "appimage" /\ checked # "fresh"
  /\ UNCHANGED <<latest, asset, next, build, checked, life>>

RefreshLooks ==
  /\ Goes("refresh", IF latest = record THEN "start" ELSE "id")
  /\ kind = "appimage" /\ checked # "fresh" /\ latest # Nothing
  /\ asset' = latest /\ checked' = "fresh"
  /\ UNCHANGED <<latest, next, build, life>>

\* Mutant: whatever there is is resumed.
AnyPartial == {}

\* A partial that came from another asset.
StalePartial == IF asset = partialOf THEN {} ELSE parts

RefreshChecksId ==
  /\ Goes("id", "fetch")
  /\ parts' = parts \ StalePartial
  /\ whole' = (whole /\ parts' # {})
  /\ partialOf' = asset
  /\ UNCHANGED <<latest, asset, unpacked, build, checked, life>>

\* The resumed download adds bytes, of the build or broken ones, if any are missing.
More(bytes) == parts' = IF whole THEN parts ELSE parts \cup bytes

RefreshFetches(bytes) ==
  /\ Goes("fetch", "unpack")
  /\ More({asset} \cup bytes) /\ whole' = TRUE
  /\ UNCHANGED <<latest, asset, unpacked, partialOf, build, checked, life>>

\* Unfinished: the check is forgotten, and the next boot goes on.
RefreshFetchFails(bytes) ==
  /\ Goes("fetch", "start")
  /\ More(bytes) /\ UNCHANGED whole
  /\ checked' = "no"
  /\ UNCHANGED <<latest, asset, unpacked, partialOf, build, life>>

RefreshUnpacks ==
  /\ Goes("unpack", "clear")
  /\ parts = {asset}
  /\ unpacked' = asset
  /\ UNCHANGED <<latest, asset, parts, whole, partialOf, build, checked, life>>

\* Mutant: the file that did not unpack is kept.
KeepsBroken ==
  /\ Goes("unpack", "start")
  /\ parts # {asset}
  /\ UNCHANGED <<latest, asset, next, build, checked, life>>

RefreshDiscards ==
  /\ Goes("unpack", "start")
  /\ parts # {asset}
  /\ NextRemoved
  /\ UNCHANGED <<latest, asset, build, checked, life>>

\* The swap: rm the .old, mv the root there, mv the new one in, record, rm.
SwapClears ==
  /\ Goes("clear", "away")
  /\ old' = Nothing
  /\ UNCHANGED <<latest, asset, next, root, record, kind, checked, life>>

SwapMovesAway ==
  /\ Goes("away", "in")
  /\ root' = Nothing /\ old' = root
  /\ UNCHANGED <<latest, asset, next, record, kind, checked, life>>

SwapMovesIn ==
  /\ Goes("in", "record")
  /\ root' = unpacked /\ unpacked' = Nothing
  /\ UNCHANGED <<latest, asset, parts, whole, partialOf, old, record, kind, checked, life>>

SwapRecords ==
  /\ Goes("record", "tidy")
  /\ record' = asset
  /\ UNCHANGED <<latest, asset, next, root, old, kind, checked, life>>

SwapTidies ==
  /\ Goes("tidy", "start")
  /\ NextRemoved /\ old' = Nothing
  /\ UNCHANGED <<latest, asset, root, record, kind, checked, life>>

\* The second mv fails: put it back.
SwapRestores ==
  /\ Goes("in", "start")
  /\ root' = old /\ old' = Nothing
  /\ NextRemoved
  /\ UNCHANGED <<latest, asset, record, kind, checked, life>>

(***************************************************************************)
(* The host, and the world.                                                *)
(***************************************************************************)
Starts ==
  /\ CanStart
  /\ Goes("start", "up")
  /\ UNCHANGED <<latest, asset, next, build, checked, life>>

\* The process ends: a command that exits, a host that is not there, a restart
\* of the service, a pause.  A download that was running leaves what it has.
Stops ==
  /\ at # "off" /\ at' = "off"
  /\ \E bytes \in {{}, {asset}} : IF at = "fetch" THEN More(bytes) ELSE UNCHANGED parts
  /\ UNCHANGED <<latest, asset, whole, unpacked, partialOf, build, checked, life>>

\* The operator clears the stamp (--apply); --force-host restarts the service too,
\* which is Stops.
Arms ==
  /\ checked' = "no"
  /\ UNCHANGED <<latest, at, asset, next, build, life>>

WeekPasses ==
  /\ checked = "fresh"
  /\ checked' = "stale"
  /\ UNCHANGED <<latest, at, asset, next, build, life>>

Publishes ==
  /\ latest < Builds
  /\ latest' = latest + 1
  /\ UNCHANGED <<at, asset, next, build, checked, life>>

Init ==
  /\ latest \in 0..Builds /\ at = "off" /\ asset = Nothing
  /\ root = Nothing /\ old = Nothing
  /\ parts = {} /\ whole = FALSE /\ unpacked = Nothing /\ partialOf = Nothing
  /\ record = Nothing /\ kind = "none" /\ checked = "no"
  /\ installed = FALSE /\ claimed = FALSE /\ ordered \in BOOLEAN /\ reported = FALSE

Next ==
  \/ Boots \/ InstallLooks \/ InstallSaysKind \/ InstallRecords
  \/ InstallFromSource \/ InstallStamps \/ Leaves
  \/ \E yes \in BOOLEAN : InstallUnpacks(yes) \/ Reports(yes) \/ Claimed(yes)
  \/ RefreshSkips \/ RefreshFindsNone \/ RefreshLooks \/ RefreshChecksId
  \/ \E bytes \in {{}, {Damage}} : RefreshFetches(bytes)
  \/ \E bytes \in {{}, {asset}} : RefreshFetchFails(bytes)
  \/ RefreshUnpacks \/ RefreshDiscards
  \/ SwapClears \/ SwapMovesAway \/ SwapMovesIn \/ SwapRecords \/ SwapTidies \/ SwapRestores
  \/ Starts \/ Stops \/ Arms \/ WeekPasses \/ Publishes

Spec == Init /\ [][Next]_vars

(***************************************************************************)
(* Fairness: the script runs, the machine is paused and booted again and   *)
(* again, weeks pass, what is tried again and again works at last, and     *)
(* from some time on no pause falls into the minutes of a boot.            *)
(***************************************************************************)
Script ==
  \/ Boots \/ Reports(TRUE) \/ Leaves \/ RefreshSkips \/ RefreshFindsNone \/ RefreshChecksId
  \/ RefreshFetchFails({}) \/ RefreshUnpacks \/ RefreshDiscards
  \/ SwapClears \/ SwapMovesAway \/ SwapRestores \/ SwapRecords \/ SwapTidies \/ Starts

Fairness ==
  /\ WF_vars(Script) /\ WF_vars(WeekPasses) /\ WF_vars(at \in {"start", "up"} /\ Stops)
  /\ SF_vars(RefreshLooks) /\ SF_vars(RefreshFetches({})) /\ SF_vars(SwapMovesIn)
  /\ <>[][Stops => at \in {"start", "up"}]_vars

Place ==
  {"off", "look", "get", "kind", "note", "source", "stamp", "report", "wait", "refresh", "id",
   "fetch", "unpack", "clear", "away", "in", "record", "tidy", "start", "up"}

TypeOK ==
  /\ latest \in 0..Builds /\ at \in Place /\ asset \in 0..Builds
  /\ root \in 0..Builds /\ old \in 0..Builds
  /\ parts \subseteq 0..Builds /\ whole \in BOOLEAN
  /\ unpacked \in 0..Builds /\ partialOf \in 0..Builds
  /\ record \in 0..Builds /\ kind \in {"none", "appimage", "source"}
  /\ checked \in {"no", "fresh", "stale"}
  /\ installed \in BOOLEAN /\ claimed \in BOOLEAN /\ ordered \in BOOLEAN /\ reported \in BOOLEAN

(***************************************************************************)
(* Properties.                                                             *)
(***************************************************************************)
\* A machine on the shelf can start its host, however often its install was cut
\* short and begun again.
ReadyCanStart == installed /\ ~claimed => CanStart

\* What a download leaves to be unpacked is of the build that was looked up, or
\* damaged: never the head of one release and the tail of another.
NoMixedBuild == at = "unpack" => parts \subseteq {asset, Damage}

\* The record, which is what keeps an update from being fetched again, never names
\* a newer build than the one on the machine.
RecordIsNotAhead == root # Nothing => record <= root

\* A machine whose script is not in the middle of a swap has a host to start: what
\* an update leaves unfinished leaves the machine as it was.
HostIsNeverLost == installed /\ at \in {"off", "start"} => CanStart

\* The newest release reaches every machine that has an owner and came with an
\* AppImage, over interrupted downloads, broken files and half-finished swaps.
UpdatesArrive ==
  claimed /\ installed /\ kind = "appimage" /\ latest = Builds ~> root = Builds
=============================================================================
