----------------------------- MODULE BootProofs -----------------------------
(***************************************************************************)
(* Proofs about Boot, for any number of releases and any sequence of       *)
(* pauses, restarts, failed downloads and failed moves.                    *)
(***************************************************************************)
EXTENDS Boot, TLAPS

LEMMA RemovedIsTyped ==
  ASSUME BootAssumption, NextRemoved
  PROVE  /\ parts' \subseteq 0..Builds /\ whole' \in BOOLEAN
         /\ unpacked' \in 0..Builds /\ partialOf' \in 0..Builds
<1>1. parts' \subseteq 0..Builds
  BY DEF NextRemoved
<1>2. whole' \in BOOLEAN
  BY DEF NextRemoved
<1>3. unpacked' \in 0..Builds /\ partialOf' \in 0..Builds
  BY DEF NextRemoved, BootAssumption, Nothing
<1> QED
  BY <1>1, <1>2, <1>3

\* Every variable of the machine keeps its type.
THEOREM BootTypes == BootAssumption => (Spec => []TypeOK)
<1> SUFFICES ASSUME BootAssumption PROVE Spec => []TypeOK
  OBVIOUS
<1>1. Init => TypeOK
  <2> SUFFICES ASSUME Init PROVE TypeOK
    OBVIOUS
  <2>1. whole \in BOOLEAN /\ installed \in BOOLEAN /\ claimed \in BOOLEAN /\ reported \in BOOLEAN
    BY DEF Init
  <2> QED
    BY <2>1 DEF Init, TypeOK, Place, BootAssumption, Nothing
<1>2. TypeOK /\ [Next]_vars => TypeOK'
  <2> SUFFICES ASSUME TypeOK, [Next]_vars PROVE TypeOK'
    OBVIOUS
  <2> USE DEF BootAssumption, TypeOK, Place, Nothing, Damage, Build, Goes, next, build, life
  <2>1. CASE Boots
    BY <2>1 DEF Boots
  <2>2. CASE InstallLooks
    <3>1. /\ parts' \subseteq 0..Builds /\ whole' \in BOOLEAN
          /\ unpacked' \in 0..Builds /\ partialOf' \in 0..Builds
      BY <2>2, RemovedIsTyped DEF InstallLooks
    <3> QED
      BY <2>2, <3>1 DEF InstallLooks
  <2>3. ASSUME NEW yes \in BOOLEAN, InstallUnpacks(yes) PROVE TypeOK'
    BY <2>3 DEF InstallUnpacks
  <2>4. CASE InstallSaysKind
    BY <2>4 DEF InstallSaysKind
  <2>5. CASE InstallRecords
    BY <2>5 DEF InstallRecords
  <2>6. CASE InstallFromSource
    <3>1. /\ parts' \subseteq 0..Builds /\ whole' \in BOOLEAN
          /\ unpacked' \in 0..Builds /\ partialOf' \in 0..Builds
      BY <2>6, RemovedIsTyped DEF InstallFromSource
    <3> QED
      BY <2>6, <3>1 DEF InstallFromSource
  <2>7. CASE InstallStamps
    BY <2>7 DEF InstallStamps
  <2>8. ASSUME NEW yes \in BOOLEAN, Reports(yes) PROVE TypeOK'
    BY <2>8 DEF Reports
  <2>9. ASSUME NEW yes \in BOOLEAN, Claimed(yes) PROVE TypeOK'
    BY <2>9 DEF Claimed
  <2>10. CASE Leaves
    BY <2>10 DEF Leaves
  <2>11. CASE RefreshSkips
    BY <2>11 DEF RefreshSkips
  <2>12. CASE RefreshFindsNone
    BY <2>12 DEF RefreshFindsNone
  <2>13. CASE RefreshLooks
    BY <2>13 DEF RefreshLooks
  <2>14. CASE RefreshChecksId
    BY <2>14 DEF RefreshChecksId, StalePartial
  <2>15. ASSUME NEW bytes \in {{}, {Damage}}, RefreshFetches(bytes) PROVE TypeOK'
    <3>1. whole' \in BOOLEAN
      BY <2>15 DEF RefreshFetches
    <3>2. parts' \subseteq parts \cup {asset, Damage}
      BY <2>15 DEF RefreshFetches, More
    <3> QED
      BY <2>15, <3>1, <3>2 DEF RefreshFetches
  <2>16. ASSUME NEW bytes \in {{}, {asset}}, RefreshFetchFails(bytes) PROVE TypeOK'
    BY <2>16 DEF RefreshFetchFails, More
  <2>17. CASE RefreshUnpacks
    BY <2>17 DEF RefreshUnpacks
  <2>18. CASE RefreshDiscards
    BY <2>18, RemovedIsTyped DEF RefreshDiscards
  <2>19. CASE SwapClears
    BY <2>19 DEF SwapClears
  <2>20. CASE SwapMovesAway
    BY <2>20 DEF SwapMovesAway
  <2>21. CASE SwapMovesIn
    BY <2>21 DEF SwapMovesIn
  <2>22. CASE SwapRecords
    BY <2>22 DEF SwapRecords
  <2>23. CASE SwapTidies
    BY <2>23, RemovedIsTyped DEF SwapTidies
  <2>24. CASE SwapRestores
    BY <2>24, RemovedIsTyped DEF SwapRestores
  <2>25. CASE Starts
    BY <2>25 DEF Starts
  <2>26. CASE Stops
    BY <2>26 DEF Stops, More
  <2>27. CASE Arms
    BY <2>27 DEF Arms
  <2>28. CASE WeekPasses
    BY <2>28 DEF WeekPasses
  <2>29. CASE Publishes
    BY <2>29 DEF Publishes
  <2>30. CASE UNCHANGED vars
    BY <2>30 DEF vars
  <2> QED
    BY <2>1, <2>2, <2>3, <2>4, <2>5, <2>6, <2>7, <2>8, <2>9, <2>10, <2>11, <2>12,
       <2>13, <2>14, <2>15, <2>16, <2>17, <2>18, <2>19, <2>20, <2>21, <2>22, <2>23,
       <2>24, <2>25, <2>26, <2>27, <2>28, <2>29, <2>30 DEF Next
<1> QED
  BY <1>1, <1>2, PTL DEF Spec

(***************************************************************************)
(* The strengthening.  Where the script stands says what is on the disk:   *)
(* before the stamp an install that says its kind has a build, after it    *)
(* the machine has an owner before anything is updated, and an update      *)
(* carries what it looked up from its lookup to the record.                *)
(***************************************************************************)
Installing == {"look", "get", "kind", "note", "source", "stamp"}
Updating == {"id", "fetch", "unpack", "clear", "away", "in", "record", "tidy"}

\* How an install gets to its stamp, and who gets past the wait.
InstallInv ==
  /\ at \in Installing => ~installed
  /\ at \notin Installing \cup {"off"} => installed
  /\ at \in Updating \cup {"refresh", "start", "up"} => claimed
  /\ ~installed => (kind = "appimage" => root # Nothing)
  /\ at = "get" => asset # Nothing /\ kind = "none" /\ record = Nothing
  /\ at \in {"kind", "note"} => asset # Nothing /\ root = asset /\ record = Nothing
  /\ at = "note" => kind = "appimage"
  /\ at = "stamp" => CanStart
  /\ ReadyCanStart

\* Bytes are of the asset whose id lies beside them, or damaged.
PartsInv ==
  /\ parts \subseteq {partialOf, Damage}
  /\ at \in {"fetch", "unpack"} => partialOf = asset

\* Releases only get newer, and so does what is recorded.
RecordInv ==
  /\ asset <= latest /\ record <= latest
  /\ root # Nothing => record <= root
  /\ at \in Updating => record <= asset
  /\ at \in {"clear", "away", "in"} => unpacked = asset
  /\ at = "in" /\ old # Nothing => record <= old
  /\ at \in {"record", "tidy"} => root = asset

\* The install and the wait are what they say, wherever the script is cut short.
LEMMA InstallStays == BootAssumption => (Spec => []InstallInv)
<1> SUFFICES ASSUME BootAssumption PROVE Spec => []InstallInv
  OBVIOUS
<1>1. Init => InstallInv
  BY DEF Init, InstallInv, ReadyCanStart, Installing, Updating
<1>2. TypeOK /\ InstallInv /\ [Next]_vars => InstallInv'
  <2> SUFFICES ASSUME TypeOK, InstallInv, [Next]_vars PROVE InstallInv'
    OBVIOUS
  <2> USE DEF InstallInv, ReadyCanStart, CanStart, Installing, Updating, Nothing, Goes,
              NextRemoved, next, build, life, TypeOK
  <2>1. CASE Boots
    BY <2>1 DEF Boots
  <2>2. CASE InstallLooks
    BY <2>2 DEF InstallLooks
  <2>3. ASSUME NEW yes \in BOOLEAN, InstallUnpacks(yes) PROVE InstallInv'
    BY <2>3 DEF InstallUnpacks
  <2>4. CASE InstallSaysKind
    BY <2>4 DEF InstallSaysKind
  <2>5. CASE InstallRecords
    BY <2>5 DEF InstallRecords
  <2>6. CASE InstallFromSource
    BY <2>6 DEF InstallFromSource
  <2>7. CASE InstallStamps
    BY <2>7 DEF InstallStamps
  <2>8. ASSUME NEW yes \in BOOLEAN, Reports(yes) PROVE InstallInv'
    BY <2>8 DEF Reports
  <2>9. ASSUME NEW yes \in BOOLEAN, Claimed(yes) PROVE InstallInv'
    BY <2>9 DEF Claimed
  <2>10. CASE Leaves
    BY <2>10 DEF Leaves
  <2>11. CASE RefreshSkips
    BY <2>11 DEF RefreshSkips
  <2>12. CASE RefreshFindsNone
    BY <2>12 DEF RefreshFindsNone
  <2>13. CASE RefreshLooks
    BY <2>13 DEF RefreshLooks
  <2>14. CASE RefreshChecksId
    BY <2>14 DEF RefreshChecksId, StalePartial
  <2>15. ASSUME NEW bytes \in {{}, {Damage}}, RefreshFetches(bytes) PROVE InstallInv'
    BY <2>15 DEF RefreshFetches, More
  <2>16. ASSUME NEW bytes \in {{}, {asset}}, RefreshFetchFails(bytes) PROVE InstallInv'
    BY <2>16 DEF RefreshFetchFails, More
  <2>17. CASE RefreshUnpacks
    BY <2>17 DEF RefreshUnpacks
  <2>18. CASE RefreshDiscards
    BY <2>18 DEF RefreshDiscards
  <2>19. CASE SwapClears
    BY <2>19 DEF SwapClears
  <2>20. CASE SwapMovesAway
    BY <2>20 DEF SwapMovesAway
  <2>21. CASE SwapMovesIn
    BY <2>21 DEF SwapMovesIn
  <2>22. CASE SwapRecords
    BY <2>22 DEF SwapRecords
  <2>23. CASE SwapTidies
    BY <2>23 DEF SwapTidies
  <2>24. CASE SwapRestores
    BY <2>24 DEF SwapRestores
  <2>25. CASE Starts
    BY <2>25 DEF Starts
  <2>26. CASE Stops
    BY <2>26 DEF Stops, More
  <2>27. CASE Arms
    BY <2>27 DEF Arms
  <2>28. CASE WeekPasses
    BY <2>28 DEF WeekPasses
  <2>29. CASE Publishes
    BY <2>29 DEF Publishes
  <2>30. CASE UNCHANGED vars
    BY <2>30 DEF vars
  <2> QED
    BY <2>1, <2>2, <2>3, <2>4, <2>5, <2>6, <2>7, <2>8, <2>9, <2>10, <2>11, <2>12,
       <2>13, <2>14, <2>15, <2>16, <2>17, <2>18, <2>19, <2>20, <2>21, <2>22, <2>23,
       <2>24, <2>25, <2>26, <2>27, <2>28, <2>29, <2>30 DEF Next
<1> QED
  BY <1>1, <1>2, BootTypes, PTL DEF Spec

\* A machine that can be sold can be started, wherever its install was cut
\* short and begun again.
THEOREM SoldMachinesStart == BootAssumption => (Spec => []ReadyCanStart)
<1>1. InstallInv => ReadyCanStart
  BY DEF InstallInv
<1> QED
  BY <1>1, InstallStays, PTL

\* A file that is unpacked never has the head of one release and the tail of
\* another, wherever downloads of several releases broke off.
THEOREM PartialsAreOfOneBuild == BootAssumption => (Spec => []NoMixedBuild)
<1>1. Init => PartsInv
  BY DEF Init, PartsInv
<1>2. PartsInv /\ [Next]_vars => PartsInv'
  <2> SUFFICES ASSUME PartsInv, [Next]_vars PROVE PartsInv'
    OBVIOUS
  <2> USE DEF PartsInv, Nothing, Damage, Goes, NextRemoved, next, build, life
  <2>1. CASE Boots
    BY <2>1 DEF Boots
  <2>2. CASE InstallLooks
    BY <2>2 DEF InstallLooks
  <2>3. ASSUME NEW yes \in BOOLEAN, InstallUnpacks(yes) PROVE PartsInv'
    BY <2>3 DEF InstallUnpacks
  <2>4. CASE InstallSaysKind
    BY <2>4 DEF InstallSaysKind
  <2>5. CASE InstallRecords
    BY <2>5 DEF InstallRecords
  <2>6. CASE InstallFromSource
    BY <2>6 DEF InstallFromSource
  <2>7. CASE InstallStamps
    BY <2>7 DEF InstallStamps
  <2>8. ASSUME NEW yes \in BOOLEAN, Reports(yes) PROVE PartsInv'
    BY <2>8 DEF Reports
  <2>9. ASSUME NEW yes \in BOOLEAN, Claimed(yes) PROVE PartsInv'
    BY <2>9 DEF Claimed
  <2>10. CASE Leaves
    BY <2>10 DEF Leaves
  <2>11. CASE RefreshSkips
    BY <2>11 DEF RefreshSkips
  <2>12. CASE RefreshFindsNone
    BY <2>12 DEF RefreshFindsNone
  <2>13. CASE RefreshLooks
    BY <2>13 DEF RefreshLooks
  <2>14. CASE RefreshChecksId
    BY <2>14 DEF RefreshChecksId, StalePartial
  <2>15. ASSUME NEW bytes \in {{}, {Damage}}, RefreshFetches(bytes) PROVE PartsInv'
    BY <2>15 DEF RefreshFetches, More
  <2>16. ASSUME NEW bytes \in {{}, {asset}}, RefreshFetchFails(bytes) PROVE PartsInv'
    BY <2>16 DEF RefreshFetchFails, More
  <2>17. CASE RefreshUnpacks
    BY <2>17 DEF RefreshUnpacks
  <2>18. CASE RefreshDiscards
    BY <2>18 DEF RefreshDiscards
  <2>19. CASE SwapClears
    BY <2>19 DEF SwapClears
  <2>20. CASE SwapMovesAway
    BY <2>20 DEF SwapMovesAway
  <2>21. CASE SwapMovesIn
    BY <2>21 DEF SwapMovesIn
  <2>22. CASE SwapRecords
    BY <2>22 DEF SwapRecords
  <2>23. CASE SwapTidies
    BY <2>23 DEF SwapTidies
  <2>24. CASE SwapRestores
    BY <2>24 DEF SwapRestores
  <2>25. CASE Starts
    BY <2>25 DEF Starts
  <2>26. CASE Stops
    BY <2>26 DEF Stops, More
  <2>27. CASE Arms
    BY <2>27 DEF Arms
  <2>28. CASE WeekPasses
    BY <2>28 DEF WeekPasses
  <2>29. CASE Publishes
    BY <2>29 DEF Publishes
  <2>30. CASE UNCHANGED vars
    BY <2>30 DEF vars
  <2> QED
    BY <2>1, <2>2, <2>3, <2>4, <2>5, <2>6, <2>7, <2>8, <2>9, <2>10, <2>11, <2>12,
       <2>13, <2>14, <2>15, <2>16, <2>17, <2>18, <2>19, <2>20, <2>21, <2>22, <2>23,
       <2>24, <2>25, <2>26, <2>27, <2>28, <2>29, <2>30 DEF Next
<1>3. PartsInv => NoMixedBuild
  BY DEF PartsInv, NoMixedBuild
<1> QED
  BY <1>1, <1>2, <1>3, PTL DEF Spec

\* The record never names a newer build than the one on the machine, whichever
\* move of a swap failed or was never reached.
THEOREM RecordIsHonest == BootAssumption => (Spec => []RecordIsNotAhead)
<1> SUFFICES ASSUME BootAssumption PROVE Spec => []RecordIsNotAhead
  OBVIOUS
<1>1. Init => RecordInv
  BY DEF Init, RecordInv, BootAssumption, Updating, Nothing
<1>2. TypeOK /\ InstallInv /\ RecordInv /\ [Next]_vars => RecordInv'
  <2> SUFFICES ASSUME TypeOK, InstallInv, RecordInv, [Next]_vars PROVE RecordInv'
    OBVIOUS
  <2> USE DEF RecordInv, Updating, Nothing, Goes, NextRemoved, next, build, life,
              TypeOK, BootAssumption
  <2>1. CASE Boots
    BY <2>1 DEF Boots
  <2>2. CASE InstallLooks
    BY <2>2 DEF InstallLooks
  <2>3. ASSUME NEW yes \in BOOLEAN, InstallUnpacks(yes) PROVE RecordInv'
    BY <2>3 DEF InstallUnpacks, InstallInv
  <2>4. CASE InstallSaysKind
    BY <2>4 DEF InstallSaysKind
  <2>5. CASE InstallRecords
    BY <2>5 DEF InstallRecords, InstallInv
  <2>6. CASE InstallFromSource
    BY <2>6 DEF InstallFromSource
  <2>7. CASE InstallStamps
    BY <2>7 DEF InstallStamps
  <2>8. ASSUME NEW yes \in BOOLEAN, Reports(yes) PROVE RecordInv'
    BY <2>8 DEF Reports
  <2>9. ASSUME NEW yes \in BOOLEAN, Claimed(yes) PROVE RecordInv'
    BY <2>9 DEF Claimed
  <2>10. CASE Leaves
    BY <2>10 DEF Leaves
  <2>11. CASE RefreshSkips
    BY <2>11 DEF RefreshSkips
  <2>12. CASE RefreshFindsNone
    BY <2>12 DEF RefreshFindsNone
  <2>13. CASE RefreshLooks
    BY <2>13 DEF RefreshLooks
  <2>14. CASE RefreshChecksId
    BY <2>14 DEF RefreshChecksId, StalePartial
  <2>15. ASSUME NEW bytes \in {{}, {Damage}}, RefreshFetches(bytes) PROVE RecordInv'
    BY <2>15 DEF RefreshFetches, More
  <2>16. ASSUME NEW bytes \in {{}, {asset}}, RefreshFetchFails(bytes) PROVE RecordInv'
    BY <2>16 DEF RefreshFetchFails, More
  <2>17. CASE RefreshUnpacks
    BY <2>17 DEF RefreshUnpacks
  <2>18. CASE RefreshDiscards
    BY <2>18 DEF RefreshDiscards
  <2>19. CASE SwapClears
    BY <2>19 DEF SwapClears
  <2>20. CASE SwapMovesAway
    BY <2>20 DEF SwapMovesAway
  <2>21. CASE SwapMovesIn
    BY <2>21 DEF SwapMovesIn
  <2>22. CASE SwapRecords
    BY <2>22 DEF SwapRecords
  <2>23. CASE SwapTidies
    BY <2>23 DEF SwapTidies
  <2>24. CASE SwapRestores
    BY <2>24 DEF SwapRestores
  <2>25. CASE Starts
    BY <2>25 DEF Starts
  <2>26. CASE Stops
    BY <2>26 DEF Stops, More
  <2>27. CASE Arms
    BY <2>27 DEF Arms
  <2>28. CASE WeekPasses
    BY <2>28 DEF WeekPasses
  <2>29. CASE Publishes
    BY <2>29 DEF Publishes
  <2>30. CASE UNCHANGED vars
    BY <2>30 DEF vars
  <2> QED
    BY <2>1, <2>2, <2>3, <2>4, <2>5, <2>6, <2>7, <2>8, <2>9, <2>10, <2>11, <2>12,
       <2>13, <2>14, <2>15, <2>16, <2>17, <2>18, <2>19, <2>20, <2>21, <2>22, <2>23,
       <2>24, <2>25, <2>26, <2>27, <2>28, <2>29, <2>30 DEF Next
<1>3. RecordInv => RecordIsNotAhead
  BY DEF RecordInv, RecordIsNotAhead
<1> QED
  BY <1>1, <1>2, <1>3, BootTypes, InstallStays, PTL DEF Spec
=============================================================================
