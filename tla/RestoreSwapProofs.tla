------------------------- MODULE RestoreSwapProofs --------------------------
(***************************************************************************)
(* For every number of copies, folders, attempts and cuts: whatever is     *)
(* interrupted, a start goes by a record that fits the files it finds, so  *)
(* the shop keeps a database, opens only what was checked, and counts its  *)
(* attempts.                                                               *)
(***************************************************************************)
EXTENDS RestoreSwap, TLAPS

(***************************************************************************)
(* What a start knows at each of its steps.                                *)
(***************************************************************************)
UndoSteps == {"toFailed", "fromKept", "report", "forgetApplied", "tidyUndo"}

Stages ==
    /\ at \in SwapSteps \cup PutBackSteps \cup {"decide", "forget", "confirm", "close"}
         => applied # None
    /\ at \in {"up", "judge", "clear", "tidy", "tidyUndo"} => applied = None
    /\ at \in BootSteps \ {"tidy", "tidyUndo"} => memory.record = applied
    /\ at \in {"tidy", "tidyUndo"} => memory.record # None
    /\ at \in UndoSteps => memory.failed \in Folders \ {memory.record.kept}
    /\ at \notin SwapSteps \cup {"off"} /\ applied # None => pending = None
    /\ at \in {"forgetApplied", "tidyUndo"} => pending = None
    /\ Opened => live.db # None
    /\ applied = None /\ pending # None => live.db # None
    /\ applied # None => pending # Damaged

Places == [kind : {"unused", "before", "failed"},
           db : Databases \cup {None}, wal : Databases \cup {None}]
LivePlaces == [db : Databases \cup {None}, wal : Databases \cup {None}]

LEMMA Distinct ==
    /\ None \notin Copies /\ None \notin Folders /\ None \notin Databases
    /\ Damaged \notin Copies /\ Template \notin Copies /\ Template # Damaged
    /\ Shop \notin {Template, Damaged}
BY RestoreSwapAssumption DEF Copies, Folders, Databases

\* A rename moves one file and changes nothing else of the two places.
LEMMA FolderMoves ==
    ASSUME NEW place \in Places, NEW from \in LivePlaces
    PROVE  /\ Plus(place, from) \in Places
           /\ Without(place) \in Places
           /\ Plus(from, place) \in LivePlaces
BY DEF Plus, Without, Places, LivePlaces

LEMMA LiveLeaves ==
    ASSUME NEW from \in LivePlaces
    PROVE  Without(from) \in LivePlaces
BY DEF Without, LivePlaces

LEMMA RecordIsTyped ==
    ASSUME TypeOK, memory.record # None
    PROVE  memory.record \in AppliedRecords
BY DEF TypeOK

LEMMA InitTyped == Init => TypeOK
<1>. SUFFICES ASSUME Init PROVE TypeOK
  OBVIOUS
<1>. USE DEF Init
<1>1. live \in LivePlaces /\ folders \in [Folders -> Places]
  BY DEF LivePlaces, Places, Databases, Unused
<1>2. memory \in [record : AppliedRecords \cup {None}, failed : Folders \cup {None}]
  BY DEF Forgotten
<1>3. work \in [stage : {"none", "fetching", "checking"}, asks : BOOLEAN]
  BY DEF Idle
<1>4. fetched \in 0 .. MaxCopies /\ cuts \in 0 .. MaxCuts /\ tries \in Nat
  BY RestoreSwapAssumption
<1>. QED
  BY <1>1, <1>2, <1>3, <1>4 DEF TypeOK, LivePlaces, Places

(***************************************************************************)
(* Each step of the shop, of a start and of the world keeps the types.     *)
(***************************************************************************)
\* Whatever touches the staged file moves no other, and once a record is on the disk
\* leaves its name.
LEMMA DisturbLeaves ==
    ASSUME TypeOK, Disturb
    PROVE  /\ UNCHANGED <<live, folders, applied, result, at, memory, requests, manifest, apply>>
           /\ pending' \in {pending, Damaged} /\ pending # None
           /\ applied # None => pending' = pending
           /\ at \in {"up", "off"} /\ UNCHANGED <<tries, torn, cuts>>
           /\ applied = None => spoilt' = spoilt
           /\ spoilt' \in {spoilt, spoilt \cup {pending}}
           /\ UNCHANGED <<files, records>>
BY DEF Disturb, files, records, TypeOK

LEMMA ShopTyped ==
    ASSUME TypeOK, ShopStep
    PROVE  TypeOK'
<1>. USE DEF TypeOK
<1>1. CASE Stop
  BY <1>1 DEF Stop, staged, records, ghosts, Idle
<1>2. CASE BeginStaging
  BY <1>2 DEF BeginStaging, Staging, ClearStaged, files, records, ghosts
<1>3. CASE PlaceCopy
  <2>1. fetched' \in 0 .. MaxCopies /\ fetched' \in Copies
    BY <1>3, RestoreSwapAssumption DEF PlaceCopy, Copies
  <2>. QED
    BY <1>3, <2>1 DEF PlaceCopy, Staging, files, records, ghosts
<1>4. CASE Describe
  BY <1>4 DEF Describe, Staging, files, records, ghosts
<1>5. CASE StagingFails
  BY <1>5 DEF StagingFails, Staging, ClearStaged, files, records, ghosts
<1>6. CASE AskApply
  BY <1>6, ZenonT(60) DEF AskApply, Asking, files, staged, records, ghosts
<1>7. CASE AskRefused
  BY <1>7, ZenonT(60) DEF AskRefused, Asking, ClearStaged, files, records, ghosts
<1>8. CASE WriteApply
  BY <1>8, ZenonT(60) DEF WriteApply, Asking, files, records, ghosts
<1>9. CASE CancelStaged
  BY <1>9, ZenonT(60) DEF CancelStaged, ClearStaged, files, records, requests, ghosts
<1>. QED
  BY <1>1, <1>2, <1>3, <1>4, <1>5, <1>6, <1>7, <1>8, <1>9 DEF ShopStep

LEMMA CutTyped ==
    ASSUME TypeOK, Cut
    PROVE  TypeOK'
BY RestoreSwapAssumption
   DEF TypeOK, Cut, HalfBack, files, staged, records, Forgotten, Idle

\* One attempt more is a record still: the attempts stay within their limit.
LEMMA AttemptIsRecorded ==
    ASSUME TypeOK, Stages, TryAgain
    PROVE  applied' \in AppliedRecords
<1>1. memory.record \in AppliedRecords
  BY RecordIsTyped DEF TryAgain, Counted, Step, Stages, BootSteps
<1>2. memory.record.boots + 1 \in 1 .. MaxBoots
  BY <1>1, RestoreSwapAssumption DEF TryAgain, Counted, Hopeless, AppliedRecords
<1>. QED
  BY <1>1, <1>2 DEF TryAgain, Counted, AppliedRecords

LEMMA RestoreIsRecorded ==
    ASSUME TypeOK, Stages, NEW f \in Folders, Record(f)
    PROVE  applied' \in AppliedRecords
<1>1. pending \in Copies /\ manifest = pending
  BY Distinct DEF Record, AsChecked, TypeOK
<1>2. live.db \in Databases
  BY <1>1, Distinct DEF Record, Step, Stages, TypeOK
<1>. QED
  BY <1>1, <1>2, RestoreSwapAssumption DEF Record, AppliedRecords

\* A start's step keeps the types, given what it knows at that step.
LEMMA BootTyped ==
    ASSUME TypeOK, Stages, BootStep
    PROVE  TypeOK'
<1>. USE DEF TypeOK
<1>1. CASE Boot
  <2>1. memory' \in [record : AppliedRecords \cup {None}, failed : Folders \cup {None}]
    BY <1>1 DEF Boot, Start, Forgotten
  <2>2. at' \in {"off", "up"} \cup BootSteps
    BY <1>1 DEF Boot, Start, Step, BootSteps, SwapSteps
  <2>. QED
    BY <1>1, <2>1, <2>2 DEF Boot, Start, files, staged, records, requests, ghosts
<1>2. CASE Refuse
  <2>1. result' \in Results
    BY <1>2 DEF Refuse, Results
  <2>. QED
    BY <1>2, <2>1 DEF Refuse, Step, files, staged, requests, ghosts, BootSteps
<1>3. CASE RemoveStaged
  <2>1. /\ pending' \in {pending, None}
        /\ manifest' \in {manifest, None}
        /\ apply' \in {apply, FALSE}
        /\ at' \in {at, "place"}
    BY <1>3, Zenon DEF RemoveStaged, Step
  <2>2. UNCHANGED <<files, records, memory, requests, ghosts>>
    BY <1>3 DEF RemoveStaged
  <2>3. /\ pending' \in Copies \cup {Damaged, None}
        /\ manifest' \in Copies \cup {None}
        /\ apply' \in BOOLEAN
    BY <2>1
  <2>4. at' \in {"off", "up"} \cup BootSteps
    BY <2>1 DEF BootSteps
  <2>. QED
    BY <2>2, <2>3, <2>4 DEF files, records, requests, ghosts
<1>4. CASE SwapDone
  BY <1>4 DEF SwapDone, Step, AfterSwap, files, staged, records, requests, ghosts, BootSteps
<1>5. CASE MoveAside
  <2>1. live \in LivePlaces /\ folders \in [Folders -> Places]
    BY DEF LivePlaces, Places
  <2>2. ASSUME NEW place \in Places PROVE [place EXCEPT !.kind = "before"] \in Places
    BY DEF Places
  <2>3. folders' \in [Folders -> Places]
    BY <1>5, <2>1, <2>2, FolderMoves DEF MoveAside
  <2>4. live' \in LivePlaces
    BY <1>5, <2>1, LiveLeaves DEF MoveAside
  <2>. QED
    BY <1>5, <2>3, <2>4 DEF MoveAside, LivePlaces, Places, staged, records, requests, ghosts
<1>6. CASE MoveIn
  <2>1. live' \in LivePlaces
    BY <1>6 DEF MoveIn, LivePlaces, Databases
  <2>. QED
    BY <1>6, <2>1 DEF MoveIn, AfterSwap, LivePlaces, records, requests, ghosts, BootSteps
<1>7. CASE GiveUp
  BY <1>7 DEF GiveUp, Step, files, staged, records, requests, ghosts, BootSteps, PutBackSteps
<1>8. CASE TryAgain
  <2>3. applied' \in AppliedRecords
    BY <1>8, AttemptIsRecorded
  <2>4. memory' \in [record : AppliedRecords \cup {None}, failed : Folders \cup {None}]
    BY <1>8, <2>3 DEF TryAgain, Counted
  <2>. QED
    BY <1>8, <2>3, <2>4
    DEF TryAgain, Counted, Step, files, staged, requests, ghosts, BootSteps
<1>9. CASE ToFailed
  <2>1. live \in LivePlaces /\ folders \in [Folders -> Places]
    BY DEF LivePlaces, Places
  <2>2. live' \in LivePlaces
    BY <1>9, <2>1, LiveLeaves DEF ToFailed, files
  <2>3. folders' \in [Folders -> Places]
    BY <1>9, <2>1, FolderMoves DEF ToFailed, files
  <2>. QED
    BY <1>9, <2>2, <2>3
    DEF ToFailed, Step, LivePlaces, Places, files, staged, records, requests, ghosts, BootSteps,
        PutBackSteps
<1>10. CASE FromKept
  <2>1. live \in LivePlaces /\ folders \in [Folders -> Places]
    BY DEF LivePlaces, Places
  <2>2. memory.record \in AppliedRecords
    BY <1>10, RecordIsTyped DEF FromKept, Step, Stages, BootSteps, PutBackSteps
  <2>3. folders[memory.record.kept] \in Places
    BY <2>1, <2>2 DEF AppliedRecords
  <2>4. live' \in LivePlaces /\ folders' \in [Folders -> Places]
    BY <1>10, <2>1, <2>3, FolderMoves DEF FromKept, files
  <2>. QED
    BY <1>10, <2>4
    DEF FromKept, Step, LivePlaces, Places, files, staged, records, requests, ghosts, BootSteps,
        PutBackSteps
<1>11. CASE Report
  <2>1. memory.record \in AppliedRecords
    BY <1>11, RecordIsTyped DEF Report, Step, Stages, BootSteps, PutBackSteps
  <2>2. result' \in Results
    BY <1>11, <2>1 DEF Report, Results, AppliedRecords
  <2>. QED
    BY <1>11, <2>2 DEF Report, Step, files, staged, requests, ghosts, BootSteps, PutBackSteps
<1>12. CASE ForgetApplied
  BY <1>12 DEF ForgetApplied, Step, files, staged, requests, ghosts, BootSteps, ConfirmSteps
<1>13. CASE Tidy
  <2>1. Unused \in Places
    BY DEF Unused, Places
  <2>2. folders' \in [Folders -> Places]
    BY <1>13, <2>1 DEF Tidy, files, Places
  <2>3. memory' \in [record : AppliedRecords \cup {None}, failed : Folders \cup {None}]
    BY <1>13 DEF Tidy, Forgotten
  <2>4. at' \in {"off", "up"} \cup BootSteps
    BY <1>13 DEF Tidy, Step, BootSteps
  <2>5. UNCHANGED <<live, staged, records, requests, ghosts>>
    BY <1>13 DEF Tidy, files
  <2>. QED
    BY <2>2, <2>3, <2>4, <2>5 DEF Places, staged, records, requests, ghosts
<1>14. CASE Place
  <2>1. live' \in LivePlaces
    BY <1>14 DEF Place, LivePlaces, Databases
  <2>2. tries' \in Nat
    BY <1>14 DEF Place
  <2>. QED
    BY <1>14, <2>1, <2>2 DEF Place, Step, LivePlaces, staged, records, requests, BootSteps
<1>15. CASE Serve
  <2>1. live' \in LivePlaces
    BY <1>15 DEF Serve, LivePlaces
  <2>. QED
    BY <1>15, <2>1
    DEF Serve, Step, LivePlaces, staged, records, requests, ghosts, BootSteps, ConfirmSteps
<1>16. CASE ServeFails
  <2>1. live' \in LivePlaces
    BY <1>16 DEF ServeFails, LivePlaces
  <2>2. applied' \in AppliedRecords
    BY <1>16, RecordIsTyped DEF ServeFails, AppliedRecords
  <2>3. memory' \in [record : AppliedRecords \cup {None}, failed : Folders \cup {None}]
    BY <1>16 DEF ServeFails, Forgotten
  <2>. QED
    BY <1>16, <2>1, <2>2, <2>3 DEF ServeFails, Step, LivePlaces, staged, requests, ghosts
<1>17. CASE Confirm
  <2>1. memory.record \in AppliedRecords
    BY <1>17, RecordIsTyped DEF Confirm, Step, Stages, BootSteps, ConfirmSteps
  <2>2. result' \in Results
    BY <1>17, <2>1 DEF Confirm, Results, AppliedRecords
  <2>. QED
    BY <1>17, <2>2 DEF Confirm, Step, files, staged, requests, ghosts, BootSteps, ConfirmSteps
<1>18. ASSUME NEW f \in Folders, Record(f) PROVE TypeOK'
  <2>3. applied' \in AppliedRecords
    BY <1>18, RestoreIsRecorded
  <2>4. memory' \in [record : AppliedRecords \cup {None}, failed : Folders \cup {None}]
    BY <1>18, <2>3 DEF Record
  <2>. QED
    BY <1>18, <2>3, <2>4 DEF Record, Step, files, staged, requests, BootSteps, SwapSteps
<1>19. ASSUME NEW f \in Folders, Undo(f) PROVE TypeOK'
  <2>1. folders' \in [Folders -> Places]
    BY <1>19 DEF Undo, Places
  <2>. QED
    BY <1>19, <2>1
    DEF Undo, Step, Places, staged, records, requests, ghosts, BootSteps, PutBackSteps
<1>. QED
  BY <1>1, <1>2, <1>3, <1>4, <1>5, <1>6, <1>7, <1>8, <1>9, <1>10, <1>11, <1>12, <1>13, <1>14,
     <1>15, <1>16, <1>17, <1>18, <1>19 DEF BootStep

(***************************************************************************)
(* Each step leaves the next one knowing what it goes by.                  *)
(***************************************************************************)
LEMMA InitStaged == Init => Stages
BY RestoreSwapAssumption
   DEF Init, Stages, SwapSteps, PutBackSteps, ConfirmSteps, BootSteps, UndoSteps, Opened

LEMMA ShopStaged ==
    ASSUME TypeOK, Stages, ShopStep
    PROVE  Stages'
<1>. USE DEF Stages, SwapSteps, PutBackSteps, ConfirmSteps, BootSteps, UndoSteps, Opened
<1>1. /\ at = "up" /\ at' \in {"up", "off"}
      /\ live'.db = live.db
      /\ UNCHANGED <<records, memory>>
  <2>1. CASE Stop
    <3>1. [live EXCEPT !.wal = None].db = live.db
      BY DEF TypeOK
    <3>. QED
      BY <2>1, <3>1 DEF Stop
  <2>2. ASSUME CancelStaged
        PROVE  at = "up" /\ UNCHANGED <<files, records, at, memory>>
    BY <2>2 DEF CancelStaged
  <2>. QED
    BY <2>1, <2>2
    DEF ShopStep, BeginStaging, PlaceCopy, Describe, StagingFails, Staging, AskApply, AskRefused,
        WriteApply, Asking, files
<1>. QED
  BY <1>1 DEF records

LEMMA CutStaged ==
    ASSUME TypeOK, Stages, Cut
    PROVE  Stages'
BY DEF Stages, SwapSteps, PutBackSteps, ConfirmSteps, BootSteps, UndoSteps, Opened,
       Cut, files, staged, records, TypeOK

LEMMA BootStaged ==
    ASSUME TypeOK, Stages, BootStep
    PROVE  Stages'
<1>. USE DEF Stages, SwapSteps, PutBackSteps, ConfirmSteps, BootSteps, UndoSteps, Opened,
             Step, files, staged, records
<1>1. CASE Boot
  <2>1. memory'.record = applied
    BY <1>1 DEF Boot, Start, Forgotten
  <2>. QED
    BY <1>1, <2>1 DEF Boot, Start
<1>2. CASE Refuse
  BY <1>2 DEF Refuse
<1>3. CASE RemoveStaged
  BY <1>3 DEF RemoveStaged
<1>4. CASE SwapDone
  BY <1>4 DEF SwapDone, AfterSwap
<1>5. CASE MoveAside
  BY <1>5 DEF MoveAside
<1>6. CASE MoveIn
  BY <1>6, RestoreSwapAssumption DEF MoveIn, AfterSwap, TypeOK
<1>7. CASE GiveUp
  BY <1>7 DEF GiveUp
<1>8. CASE TryAgain
  <2>1. memory'.record = applied'
    BY <1>8 DEF TryAgain, Counted, TypeOK
  <2>2. applied' # None
    BY <1>8, AttemptIsRecorded, NoneIsNoRecord
  <2>. QED
    BY <1>8, <2>1, <2>2 DEF TryAgain, Counted
<1>9. CASE ToFailed
  BY <1>9 DEF ToFailed
<1>10. CASE FromKept
  BY <1>10 DEF FromKept
<1>11. CASE Report
  BY <1>11 DEF Report
<1>12. CASE ForgetApplied
  BY <1>12 DEF ForgetApplied
<1>13. CASE Tidy
  BY <1>13 DEF Tidy, Forgotten
<1>14. CASE Place
  BY <1>14, Distinct DEF Place, Databases
<1>15. CASE Serve
  BY <1>15 DEF Serve, TypeOK
<1>16. CASE ServeFails
  BY <1>16 DEF ServeFails, TypeOK
<1>17. CASE Confirm
  BY <1>17 DEF Confirm
<1>18. ASSUME NEW f \in Folders, Record(f) PROVE Stages'
  <2>1. applied' # None /\ pending # None /\ pending # Damaged
    BY <1>18, RestoreIsRecorded, NoneIsNoRecord, Distinct DEF Record, AsChecked, TypeOK
  <2>2. memory'.record = applied'
    BY <1>18 DEF Record, TypeOK
  <2>. QED
    BY <1>18, <2>1, <2>2 DEF Record
<1>19. ASSUME NEW f \in Folders, Undo(f) PROVE Stages'
  BY <1>19 DEF Undo, TypeOK, Free, FreeNames
<1>. QED
  BY <1>1, <1>2, <1>3, <1>4, <1>5, <1>6, <1>7, <1>8, <1>9, <1>10, <1>11, <1>12, <1>13, <1>14,
     <1>15, <1>16, <1>17, <1>18, <1>19 DEF BootStep

LEMMA DisturbTyped ==
    ASSUME TypeOK, Stages, Disturb
    PROVE  TypeOK' /\ Stages'
<1>1. spoilt' \in SUBSET Copies
  <2>1. applied # None => pending \in Copies
    BY DisturbLeaves DEF TypeOK, Stages
  <2>. QED
    BY <2>1, DisturbLeaves DEF TypeOK
<1>2. TypeOK'
  BY <1>1, DisturbLeaves DEF TypeOK, requests
<1>3. Stages'
  BY DisturbLeaves DEF Stages, Opened, SwapSteps, PutBackSteps, ConfirmSteps, BootSteps, UndoSteps
<1>. QED
  BY <1>2, <1>3

LEMMA StepTyped ==
    ASSUME TypeOK, Stages, [Next]_vars
    PROVE  TypeOK' /\ Stages'
<1>1. CASE UNCHANGED vars
  BY <1>1 DEF vars, files, staged, records, requests, ghosts, TypeOK, Stages, Opened
<1>. QED
  BY <1>1, DisturbTyped, BootTyped, BootStaged, ShopTyped, ShopStaged, CutTyped, CutStaged DEF Next

LEMMA AlwaysTyped == Spec => [](TypeOK /\ Stages)
BY InitTyped, InitStaged, StepTyped, PTL DEF Spec

\* Files, records and requests keep their types through every cut, and a start finds
\* at each of its steps the record that step goes by.
THEOREM SwapTypes == Spec => []TypeOK
BY AlwaysTyped, PTL

(***************************************************************************)
(* The record counts an attempt before the database is opened for it.      *)
(***************************************************************************)
Attempts ==
    /\ BootsAreCounted
    /\ applied # None => tries <= applied.boots
    /\ at \in {"swap", "forget", "place"} /\ applied # None => tries + 1 <= applied.boots

LEMMA AttemptStep ==
    ASSUME TypeOK, Stages, Attempts, [Next]_vars
    PROVE  Attempts'
<1>. USE DEF Attempts, BootsAreCounted
<1>1. applied # None => applied.boots \in 1 .. MaxBoots
  BY DEF TypeOK, AppliedRecords
<1>2. tries \in Nat /\ MaxBoots \in Nat \ {0}
  BY RestoreSwapAssumption DEF TypeOK
<1>3. ASSUME UNCHANGED <<applied, tries>>, at' \in {"swap", "forget", "place"} => at' = at
      PROVE  Attempts'
  BY <1>3
<1>4. CASE TryAgain
  <2>1. /\ at = "decide" /\ at' = "place" /\ tries' = tries
        /\ memory.record = applied /\ applied # None
    BY <1>4 DEF TryAgain, Counted, Step, Stages, BootSteps, ghosts
  <2>2. applied' = [applied EXCEPT !.boots = applied.boots + 1]
    BY <1>4, <2>1 DEF TryAgain, Counted
  <2>3. applied'.boots = applied.boots + 1
    BY <2>1, <2>2 DEF TypeOK, AppliedRecords
  <2>. QED
    BY <1>1, <1>2, <2>1, <2>3
<1>5. ASSUME NEW f \in Folders, Record(f) PROVE Attempts'
  BY <1>2, <1>5 DEF Record, Step
<1>6. CASE Place
  <2>1. memory.record = applied
    BY <1>6 DEF Place, Step, Stages, BootSteps
  <2>. QED
    BY <1>1, <1>2, <1>6, <2>1 DEF Place, Step, records
<1>7. CASE ServeFails
  <2>1. /\ at = "serve" /\ at' = "off" /\ tries' = tries
        /\ memory.record = applied /\ applied # None
    BY <1>7 DEF ServeFails, Step, Stages, BootSteps, ghosts
  <2>2. applied' = [applied EXCEPT !.rollback = TRUE]
    BY <1>7, <2>1 DEF ServeFails
  <2>3. applied'.boots = applied.boots
    BY <2>1, <2>2 DEF TypeOK, AppliedRecords
  <2>. QED
    BY <1>1, <1>2, <2>1, <2>3
<1>8. CASE ForgetApplied
  BY <1>8 DEF ForgetApplied, Step, ghosts
<1>9. CASE SwapDone
  BY <1>3, <1>9 DEF SwapDone, Step, AfterSwap, records, ghosts
<1>10. CASE MoveIn
  BY <1>10 DEF MoveIn, AfterSwap, SwapSteps, records, ghosts
<1>11. CASE RemoveStaged
  BY <1>11, <1>2 DEF RemoveStaged, Step, records, ghosts, Stages
<1>12. CASE Boot
  <2>1. at' = "place" => applied = None
    BY <1>12 DEF Boot, Start, Step
  <2>. QED
    BY <1>12, <2>1 DEF Boot, Start, Step, records, ghosts
<1>13. CASE Tidy
  <2>1. applied = None /\ UNCHANGED <<applied, tries>>
    BY <1>13 DEF Tidy, Step, Stages, records, ghosts, Untidy
  <2>. QED
    BY <2>1
<1>14. CASE \/ Refuse \/ MoveAside \/ GiveUp \/ ToFailed \/ FromKept \/ Report \/ Serve \/ Confirm
            \/ \E f \in Folders : Undo(f)
  BY <1>3, <1>14
  DEF Refuse, MoveAside, GiveUp, ToFailed, FromKept, Report, Serve, Confirm, Undo, Step, records,
      ghosts
<1>15. CASE ShopStep
  <2>1. /\ UNCHANGED <<applied, tries>>
        /\ at' \in {"up", "off"}
    BY <1>15
    DEF ShopStep, Stop, BeginStaging, PlaceCopy, Describe, StagingFails, Staging, AskApply,
        AskRefused, WriteApply, Asking, CancelStaged, records, ghosts
  <2>. QED
    BY <2>1
<1>16. CASE Cut \/ Disturb
  BY <1>3, <1>16 DEF Cut, Disturb, records
<1>17. CASE UNCHANGED vars
  BY <1>17 DEF vars, records, ghosts
<1>. QED
  BY <1>4, <1>5, <1>6, <1>7, <1>8, <1>9, <1>10, <1>11, <1>12, <1>13, <1>14, <1>15, <1>16, <1>17
  DEF Next, BootStep

\* However often the process is killed, a restored copy that was not confirmed is
\* opened at most MAX_RESTORED_BOOTS times.
THEOREM AttemptsAreBounded == Spec => []BootsAreCounted
<1>1. Init => Attempts
  BY RestoreSwapAssumption DEF Init, Attempts, BootsAreCounted
<1>2. Attempts => BootsAreCounted
  BY DEF Attempts
<1>. QED
  BY <1>1, <1>2, AttemptStep, AlwaysTyped, PTL DEF Spec

(***************************************************************************)
(* Where the database files go.                                            *)
(***************************************************************************)
LEMMA MovedDatabase ==
    ASSUME NEW place \in Places, NEW from \in LivePlaces
    PROVE  /\ Plus(place, from).db = IF from.db # None THEN from.db ELSE place.db
           /\ Plus(from, place).db = IF place.db # None THEN place.db ELSE from.db
           /\ Without(place).db = None
           /\ Without(from).db = None
           /\ [place EXCEPT !.kind = "before"].db = place.db
BY DEF Plus, Without, Places, LivePlaces

\* MoveAside takes the live database, if it is still there, to the kept folder.
LEMMA AsideMoves ==
    ASSUME TypeOK, Stages, MoveAside
    PROVE  /\ applied.kept \in Folders
           /\ live'.db = None
           /\ \A f \in Folders :
                 folders'[f].db = IF f = applied.kept /\ live.db # None THEN live.db
                                  ELSE folders[f].db
<1>1. live \in LivePlaces /\ folders \in [Folders -> Places]
  BY DEF TypeOK, LivePlaces, Places
<1>2. memory.record = applied /\ applied.kept \in Folders
  BY DEF MoveAside, Stages, SwapSteps, BootSteps, TypeOK, AppliedRecords
<1>3. live'.db = None
  BY <1>1, <1>2, MovedDatabase DEF MoveAside
<1>4. ASSUME NEW f \in Folders
      PROVE  folders'[f].db = IF f = applied.kept /\ live.db # None THEN live.db
                              ELSE folders[f].db
  <2>1. CASE f = applied.kept
    <3>1. folders'[f] = [Plus(folders[f], live) EXCEPT !.kind = "before"]
      BY <1>1, <1>2, <2>1 DEF MoveAside
    <3>2. Plus(folders[f], live) \in Places
      BY <1>1, FolderMoves
    <3>. QED
      BY <1>1, <2>1, <3>1, <3>2, MovedDatabase
  <2>2. CASE f # applied.kept
    BY <1>1, <1>2, <2>2 DEF MoveAside
  <2>. QED
    BY <2>1, <2>2
<1>. QED
  BY <1>2, <1>3, <1>4

\* ToFailed takes it to the failed folder, which is not the kept one.
LEMMA FailedMoves ==
    ASSUME TypeOK, Stages, ToFailed, ~Gone(live)
    PROVE  /\ live'.db = None
           /\ \A f \in Folders :
                 folders'[f].db = IF f = memory.failed /\ live.db # None THEN live.db
                                  ELSE folders[f].db
<1>1. live \in LivePlaces /\ folders \in [Folders -> Places]
  BY DEF TypeOK, LivePlaces, Places
<1>2. live' = Without(live) /\ folders' = [folders EXCEPT ![memory.failed] = Plus(@, live)]
  BY DEF ToFailed
<1>3. live'.db = None
  BY <1>1, <1>2 DEF Without, LivePlaces
<1>. QED
  BY <1>1, <1>2, <1>3, MovedDatabase

\* FromKept brings it back.
LEMMA KeptMoves ==
    ASSUME TypeOK, Stages, FromKept, ~Gone(folders[applied.kept])
    PROVE  /\ applied.kept \in Folders
           /\ live'.db = IF folders[applied.kept].db # None THEN folders[applied.kept].db
                         ELSE live.db
           /\ \A f \in Folders :
                 folders'[f].db = IF f = applied.kept THEN None ELSE folders[f].db
<1>1. live \in LivePlaces /\ folders \in [Folders -> Places]
  BY DEF TypeOK, LivePlaces, Places
<1>2. memory.record = applied /\ applied.kept \in Folders
  BY DEF FromKept, Step, Stages, PutBackSteps, BootSteps, TypeOK, AppliedRecords
<1>3. /\ live' = Plus(live, folders[applied.kept])
      /\ folders' = [folders EXCEPT ![applied.kept] = Without(@)]
  BY <1>2 DEF FromKept
<1>. QED
  BY <1>1, <1>2, <1>3, MovedDatabase

(***************************************************************************)
(* The copy a start moves in is the one its record was written for, as it  *)
(* was when that start looked at it; a later start, which does not look,    *)
(* moves one in only because an earlier one was cut.                       *)
(***************************************************************************)
Checked ==
    /\ live.db # Damaged
    /\ \A f \in Folders : folders[f].db # Damaged
    /\ applied # None /\ pending # None => pending = applied.copy

Interrupted ==
    /\ spoilt # {} => cuts > 0
    /\ at \in {"off", "again"} /\ applied # None /\ pending # None => cuts > 0

LEMMA CheckedStep ==
    ASSUME TypeOK, Stages, Checked, [Next]_vars
    PROVE  Checked'
<1>. USE Distinct, NoneIsNoRecord DEF Checked
<1>1. Damaged # None
  BY RestoreSwapAssumption
<1>2. ASSUME UNCHANGED <<files, applied>>, pending' \in {pending, None} PROVE Checked'
  BY <1>2 DEF files
<1>3. CASE MoveAside
  BY <1>1, <1>3, AsideMoves DEF MoveAside, staged, records
<1>4. CASE ToFailed
  <2>1. CASE Gone(live)
    BY <1>2, <1>4, <2>1 DEF ToFailed, staged, records
  <2>2. CASE ~Gone(live)
    BY <1>1, <1>4, <2>2, FailedMoves DEF ToFailed, staged, records
  <2>. QED
    BY <2>1, <2>2
<1>5. CASE FromKept
  <2>1. memory.record = applied
    BY <1>5 DEF FromKept, Step, Stages, PutBackSteps, BootSteps
  <2>2. CASE Gone(folders[applied.kept])
    BY <1>2, <1>5, <2>1, <2>2 DEF FromKept, staged, records
  <2>3. CASE ~Gone(folders[applied.kept])
    BY <1>1, <1>5, <2>1, <2>3, KeptMoves DEF FromKept, staged, records
  <2>. QED
    BY <2>2, <2>3
<1>6. CASE MoveIn
  <2>1. /\ pending = applied.copy /\ applied.copy \in Copies
        /\ folders' = folders /\ pending' = None
    BY <1>6 DEF MoveIn, Stages, TypeOK, AppliedRecords
  <2>2. live'.db = pending
    BY <1>6 DEF MoveIn, TypeOK
  <2>. QED
    BY <2>1, <2>2
<1>7. CASE Place
  <2>1. live'.db \in {live.db, Template}
    BY <1>7 DEF Place
  <2>. QED
    BY <1>7, <2>1 DEF Place, staged, records
<1>8. CASE Serve \/ ServeFails \/ Stop
  <2>1. live'.db = live.db /\ folders' = folders /\ pending' = pending
    BY <1>8 DEF Serve, ServeFails, Stop, staged, TypeOK
  <2>2. CASE ServeFails
    <3>1. applied'.copy = applied.copy /\ applied # None
      BY <2>2, RecordIsTyped DEF ServeFails, Step, Stages, BootSteps, AppliedRecords
    <3>. QED
      BY <2>1, <3>1
  <2>. QED
    BY <1>8, <2>1, <2>2 DEF Serve, Stop, records
<1>9. CASE TryAgain
  <2>1. applied'.copy = applied.copy /\ applied # None
    BY <1>9, RecordIsTyped DEF TryAgain, Counted, Step, Stages, BootSteps, AppliedRecords
  <2>. QED
    BY <1>9, <2>1 DEF TryAgain, Counted, files, staged
<1>10. ASSUME NEW f \in Folders, Record(f) PROVE Checked'
  <2>1. applied'.copy = manifest /\ pending = manifest
    BY <1>10 DEF Record, AsChecked
  <2>. QED
    BY <1>10, <2>1 DEF Record, files, staged
<1>11. ASSUME NEW f \in Folders, Undo(f) PROVE Checked'
  <2>1. \A g \in Folders : folders'[g].db = folders[g].db
    BY <1>11 DEF Undo, TypeOK
  <2>. QED
    BY <1>11, <2>1 DEF Undo, staged, records
<1>12. CASE Tidy
  <2>1. \A g \in Folders : folders'[g].db \in {folders[g].db, None}
    BY <1>12 DEF Tidy, Unused, files, TypeOK
  <2>2. live' = live /\ pending' = pending /\ applied' = applied
    BY <1>12 DEF Tidy, files, staged, records
  <2>. QED
    BY <1>1, <2>1, <2>2
<1>13. CASE ForgetApplied
  BY <1>13 DEF ForgetApplied, files
<1>14. CASE RemoveStaged
  <2>1. pending' \in {pending, None}
    BY <1>14, Zenon DEF RemoveStaged
  <2>. QED
    BY <1>2, <1>14, <2>1 DEF RemoveStaged, records
<1>15. CASE Boot \/ Refuse \/ SwapDone \/ GiveUp \/ Report \/ Confirm
  BY <1>2, <1>15 DEF Boot, Start, Refuse, SwapDone, GiveUp, Report, Confirm, staged, records
<1>16. CASE (ShopStep /\ ~Stop) \/ (Disturb /\ applied = None)
  <2>1. applied = None /\ applied' = None /\ UNCHANGED files
    BY <1>16
    DEF ShopStep, Disturb, BeginStaging, PlaceCopy, Describe, StagingFails, Staging, AskApply,
        AskRefused, WriteApply, Asking, CancelStaged, records, Stages
  <2>. QED
    BY <2>1 DEF files
<1>17. CASE Cut \/ (Disturb /\ applied # None)
  BY <1>2, <1>17, DisturbLeaves DEF Cut, staged, records
<1>18. CASE UNCHANGED vars
  BY <1>2, <1>18 DEF vars, staged, records
<1>. QED
  BY <1>3, <1>4, <1>5, <1>6, <1>7, <1>8, <1>9, <1>10, <1>11, <1>12, <1>13, <1>14, <1>15, <1>16,
     <1>17, <1>18 DEF Next, BootStep, ShopStep

LEMMA InterruptedStep ==
    ASSUME TypeOK, Stages, Interrupted, [Next]_vars
    PROVE  Interrupted'
<1>. USE DEF Interrupted, Step
<1>1. cuts \in Nat
  BY RestoreSwapAssumption DEF TypeOK
<1>2. /\ at \in {"up", "judge", "clear", "tidy", "tidyUndo"} => applied = None
      /\ at \notin SwapSteps \cup {"off"} /\ applied # None => pending = None
      /\ at = "serve" /\ memory.record # None => applied # None
  BY DEF Stages, BootSteps
<1>3. ASSUME UNCHANGED <<spoilt, cuts>>, at' \notin {"off", "again"} PROVE Interrupted'
  BY <1>3
<1>4. CASE Cut
  BY <1>1, <1>4 DEF Cut
<1>5. CASE Disturb
  BY <1>2, <1>5, DisturbLeaves
<1>6. CASE Boot
  BY <1>6 DEF Boot, Start, staged, records, ghosts
<1>7. CASE Stop
  BY <1>2, <1>7 DEF Stop, records, ghosts
<1>8. CASE ServeFails
  BY <1>2, <1>8 DEF ServeFails, SwapSteps, staged, ghosts
<1>9. CASE MoveAside
  BY <1>9 DEF MoveAside, staged, records, ghosts
<1>10. CASE RemoveStaged
  <2>1. at' \in {at, "place"} /\ at \in {"clear", "forget"} /\ UNCHANGED ghosts
    BY <1>10, Zenon DEF RemoveStaged, Step
  <2>. QED
    BY <1>3, <2>1 DEF ghosts
<1>11. CASE ShopStep /\ ~Stop
  <2>1. at = "up" /\ at' = "up" /\ UNCHANGED ghosts
    BY <1>11
    DEF ShopStep, BeginStaging, PlaceCopy, Describe, StagingFails, Staging, AskApply, AskRefused,
        WriteApply, Asking, CancelStaged
  <2>. QED
    BY <1>3, <2>1 DEF ghosts
<1>12. CASE \/ Refuse \/ SwapDone \/ MoveIn \/ GiveUp \/ TryAgain \/ ToFailed \/ FromKept \/ Report
            \/ ForgetApplied \/ Tidy \/ Place \/ Serve \/ Confirm
            \/ \E f \in Folders : Record(f) \/ Undo(f)
  <2>1. UNCHANGED <<spoilt, cuts>> /\ at' \notin {"off", "again"}
    BY <1>12
    DEF Refuse, SwapDone, MoveIn, AfterSwap, GiveUp, TryAgain, Counted, ToFailed, FromKept, Report,
        ForgetApplied, Tidy, Untidy, Place, Serve, Confirm, Record, Undo, ghosts
  <2>. QED
    BY <1>3, <2>1
<1>13. CASE UNCHANGED vars
  BY <1>13 DEF vars, staged, records, ghosts
<1>. QED
  BY <1>4, <1>5, <1>6, <1>7, <1>8, <1>9, <1>10, <1>11, <1>12, <1>13 DEF Next, BootStep

LEMMA InitChecked == Init => Checked /\ Interrupted
<1>1. Init => live.db = Shop /\ \A f \in Folders : folders[f].db = None
  BY DEF Init, Unused
<1>. QED
  BY <1>1, RestoreSwapAssumption DEF Init, Checked, Interrupted

\* A staged file that changed before a start looked at it is never opened.  One that
\* changed afterwards is opened only where a cut had left its swap to another start.
THEOREM OnlyTheCheckedIsOpened == Spec => []OnlyCheckedIsOpened
<1>1. Checked /\ Interrupted => OnlyCheckedIsOpened
  BY DEF Checked, Interrupted, OnlyCheckedIsOpened
<1>. QED
  BY <1>1, InitChecked, CheckedStep, InterruptedStep, AlwaysTyped, PTL DEF Spec

(***************************************************************************)
(* Where the shop is, at every step of a swap and of its undoing.  While a *)
(* record is on the disk the kept folder holds the previous database once  *)
(* the copy has moved in; the live one is missing only while the swap is   *)
(* unfinished or while a record that no start will try again is undone.    *)
(***************************************************************************)
Shopful(db) == db \notin {None, Template}
KeptDb == folders[applied.kept].db
Doomed == applied.rollback \/ applied.boots + 1 > MaxBoots
EmptyHanded == {"off", "again", "decide", "undo", "toFailed", "fromKept"}
HalfBackSteps == {"fromKept", "report", "forgetApplied"}

Whole ==
    /\ live.db # Template
    /\ applied = None => Shopful(live.db)
    /\ applied # None /\ pending # None => Shopful(live.db) \/ Shopful(KeptDb)
    /\ applied # None /\ pending = None /\ at \notin HalfBackSteps => Shopful(KeptDb)
    /\ applied # None /\ pending = None /\ ~Shopful(live.db) => Doomed /\ at \in EmptyHanded
    /\ at \in {"undo", "toFailed", "fromKept"} => Doomed
    /\ at = "fromKept" => \/ live.db = None /\ Shopful(KeptDb)
                          \/ Shopful(live.db) /\ KeptDb = None
    /\ at \in {"report", "forgetApplied"} => Shopful(live.db)

WholeUnlessTorn == ~torn => Whole

LEMMA WholeIsKept == ASSUME TypeOK, Stages, WholeUnlessTorn PROVE ShopIsKept
BY DEF WholeUnlessTorn, Whole, ShopIsKept, Stages, Shopful

\* The steps of the shop, of confirming and of tidying leave the live database alone.
LEMMA ShopWhole ==
    ASSUME TypeOK, Stages, Whole, ShopStep
    PROVE  Whole'
<1>1. /\ at = "up" /\ at' \in {"up", "off"} /\ applied = None /\ applied' = None
      /\ live'.db = live.db
  <2>1. CASE Stop
    BY <2>1 DEF Stop, Stages, records, TypeOK
  <2>2. ASSUME CancelStaged
        PROVE  at = "up" /\ UNCHANGED <<files, records, at>>
    BY <2>2 DEF CancelStaged
  <2>. QED
    BY <2>1, <2>2
    DEF ShopStep, BeginStaging, PlaceCopy, Describe, StagingFails, Staging, AskApply, AskRefused,
        WriteApply, Asking, files, records, Stages
<1>. QED
  BY <1>1 DEF Whole, Shopful, EmptyHanded

\* Nor does a cut: outside the window, what it leaves is a record the next start
\* can go by.
LEMMA CutWhole ==
    ASSUME TypeOK, Stages, Whole, Cut, ~torn'
    PROVE  Whole'
<1>1. ~HalfBack /\ at' = "off" /\ UNCHANGED <<live, folders, pending, applied>>
  BY DEF Cut, files, staged, records, TypeOK
<1>2. at \notin {"report", "forgetApplied"} /\ (at = "fromKept" => live.db = None)
  BY <1>1 DEF HalfBack, Gone
<1>3. KeptDb' = KeptDb /\ Doomed' = Doomed
  BY <1>1 DEF KeptDb, Doomed
<1>. QED
  BY <1>1, <1>2, <1>3 DEF Whole, Shopful, EmptyHanded, HalfBackSteps, Stages, PutBackSteps

LEMMA BootWholeStep ==
    ASSUME TypeOK, Stages, Whole, BootStep
    PROVE  Whole'
<1>. USE Distinct, NoneIsNoRecord
     DEF Whole, Shopful, EmptyHanded, HalfBackSteps, SwapSteps, PutBackSteps, ConfirmSteps
<1>1. Template # None
  BY RestoreSwapAssumption
<1>2. /\ at \in BootSteps \ {"tidy", "tidyUndo"} => memory.record = applied
      /\ at \in SwapSteps \cup PutBackSteps \cup {"decide", "forget", "confirm", "close"}
           => applied # None
      /\ at \in {"up", "judge", "clear", "tidy", "tidyUndo"} => applied = None
      /\ at \notin SwapSteps \cup {"off"} /\ applied # None => pending = None
      /\ at \in {"forgetApplied", "tidyUndo"} => pending = None
  BY DEF Stages
<1>3. ASSUME UNCHANGED <<live, folders, applied>> PROVE KeptDb' = KeptDb /\ Doomed' = Doomed
  BY <1>3 DEF KeptDb, Doomed
<1>4. CASE Boot
  BY <1>3, <1>4 DEF Boot, Start, Step, files, staged, records
<1>5. CASE Refuse
  BY <1>2, <1>5 DEF Refuse, Step, files, staged
<1>6. CASE RemoveStaged
  BY <1>2, <1>3, <1>6 DEF RemoveStaged, Step, files, records
<1>7. CASE SwapDone
  BY <1>3, <1>7 DEF SwapDone, Step, AfterSwap, files, staged, records
<1>8. CASE MoveAside
  <2>1. /\ at \in SwapSteps /\ at' = at /\ applied # None /\ pending # None
        /\ UNCHANGED <<applied, pending>>
    BY <1>2, <1>8 DEF MoveAside, staged, records
  <2>2. live'.db = None /\ KeptDb' = IF live.db # None THEN live.db ELSE KeptDb
    BY <1>8, <2>1, AsideMoves DEF KeptDb
  <2>. QED
    BY <1>1, <2>1, <2>2
<1>9. CASE MoveIn
  <2>1. /\ applied # None /\ pending # None /\ live.db = None
        /\ pending' = None /\ UNCHANGED <<applied, folders>>
        /\ at' \in {"forget", "decide"}
    BY <1>2, <1>9 DEF MoveIn, AfterSwap, Gone, records
  <2>2. live'.db = pending /\ Shopful(pending)
    BY <1>1, <1>9, <2>1, RestoreSwapAssumption DEF MoveIn, TypeOK
  <2>3. KeptDb' = KeptDb
    BY <2>1 DEF KeptDb
  <2>. QED
    BY <2>1, <2>2, <2>3
<1>10. CASE GiveUp
  <2>1. Doomed
    BY <1>2, <1>10 DEF GiveUp, Step, Hopeless, Doomed, BootSteps
  <2>. QED
    BY <1>2, <1>3, <1>10, <2>1 DEF GiveUp, Step, files, staged, records
<1>11. CASE TryAgain
  <2>1. applied # None /\ memory.record = applied /\ pending = None /\ ~Doomed
    BY <1>2, <1>11 DEF TryAgain, Counted, Step, Hopeless, Doomed, BootSteps
  <2>2. applied'.kept = applied.kept /\ applied' # None
    BY <1>11, <2>1, AttemptIsRecorded DEF TryAgain, Counted, TypeOK, AppliedRecords
  <2>3. KeptDb' = KeptDb /\ UNCHANGED <<live, pending>>
    BY <1>11, <2>2 DEF TryAgain, Counted, KeptDb, files, staged
  <2>. QED
    BY <1>11, <2>1, <2>2, <2>3 DEF TryAgain, Counted, Step
<1>12. CASE ToFailed
  <2>1. /\ at = "toFailed" /\ applied # None /\ pending = None /\ memory.record = applied
        /\ UNCHANGED <<applied, pending>> /\ at' \in {"toFailed", "fromKept"}
        /\ applied.kept \in Folders /\ memory.failed # applied.kept
    BY <1>2, <1>12
    DEF ToFailed, Step, staged, records, BootSteps, Stages, UndoSteps, TypeOK, AppliedRecords
  <2>2. CASE Gone(live)
    BY <1>1, <1>3, <1>12, <2>1, <2>2 DEF ToFailed, Step, Gone, files
  <2>3. CASE ~Gone(live)
    <3>1. live'.db = None /\ KeptDb' = KeptDb
      BY <1>12, <2>1, <2>3, FailedMoves DEF KeptDb
    <3>2. at' = at /\ Shopful(KeptDb)
      BY <1>12, <2>1, <2>3 DEF ToFailed
    <3>. QED
      BY <1>1, <2>1, <3>1, <3>2 DEF Doomed
  <2>. QED
    BY <2>2, <2>3
<1>13. CASE FromKept
  <2>1. /\ at = "fromKept" /\ applied # None /\ pending = None /\ memory.record = applied
        /\ UNCHANGED <<applied, pending>> /\ at' \in {"fromKept", "report"}
    BY <1>2, <1>13 DEF FromKept, Step, staged, records, BootSteps
  <2>2. CASE Gone(folders[applied.kept])
    BY <1>1, <1>3, <1>13, <2>1, <2>2 DEF FromKept, Step, Gone, KeptDb, files
  <2>3. CASE ~Gone(folders[applied.kept])
    <3>1. KeptDb' = None /\ live'.db = IF KeptDb # None THEN KeptDb ELSE live.db
      BY <1>13, <2>1, <2>3, KeptMoves DEF KeptDb
    <3>2. at' = at
      BY <1>13, <2>1, <2>3 DEF FromKept
    <3>. QED
      BY <1>1, <2>1, <3>1, <3>2 DEF Doomed
  <2>. QED
    BY <2>2, <2>3
<1>14. CASE Report
  BY <1>2, <1>3, <1>14 DEF Report, Step, files, staged
<1>15. CASE ForgetApplied
  BY <1>2, <1>15 DEF ForgetApplied, Step, files, staged
<1>16. CASE Tidy
  <2>1. applied = None /\ UNCHANGED <<live, applied>>
    BY <1>2, <1>16 DEF Tidy, Untidy, Step, files, records
  <2>2. at \in {"tidy", "tidyUndo"} /\ at' \in {"tidy", "tidyUndo", "place", "up"}
    BY <1>16 DEF Tidy, Untidy, Step
  <2>. QED
    BY <2>1, <2>2
<1>17. CASE Place
  <2>1. live.db # None
    BY <1>2, <1>17 DEF Place, Step
  <2>. QED
    BY <1>2, <1>3, <1>17, <2>1 DEF Place, Step, staged, records
<1>18. CASE Serve
  <2>1. live'.db = live.db /\ UNCHANGED <<folders, pending, applied>>
        /\ at = "serve" /\ at' \in {"up", "confirm"}
    BY <1>18 DEF Serve, Step, staged, records, TypeOK
  <2>2. KeptDb' = KeptDb
    BY <2>1 DEF KeptDb
  <2>. QED
    BY <1>2, <2>1, <2>2
<1>19. CASE ServeFails
  <2>1. /\ at = "serve" /\ at' = "off" /\ applied # None /\ memory.record = applied
        /\ live'.db = live.db /\ UNCHANGED <<folders, pending>>
    BY <1>2, <1>19 DEF ServeFails, Step, staged, TypeOK, BootSteps
  <2>2. applied'.kept = applied.kept
    BY <1>19, <2>1 DEF ServeFails, TypeOK, AppliedRecords
  <2>3. KeptDb' = KeptDb
    BY <2>1, <2>2 DEF KeptDb
  <2>. QED
    BY <1>2, <2>1, <2>3
<1>20. CASE Confirm
  BY <1>2, <1>3, <1>20 DEF Confirm, Step, files, staged
<1>21. ASSUME NEW f \in Folders, Record(f) PROVE Whole'
  <2>1. pending # None
    BY <1>21 DEF Record, AsChecked
  <2>. QED
    BY <1>2, <1>21, <2>1 DEF Record, Step, files, staged
<1>22. ASSUME NEW f \in Folders, Undo(f) PROVE Whole'
  <2>1. \A g \in Folders : folders'[g].db = folders[g].db
    BY <1>22 DEF Undo, TypeOK
  <2>2. applied.kept \in Folders
    BY <1>2, <1>22 DEF Undo, Step, TypeOK, AppliedRecords
  <2>3. UNCHANGED <<live, applied, pending>> /\ at = "undo" /\ at' = "toFailed"
    BY <1>22 DEF Undo, Step, staged, records
  <2>4. KeptDb' = KeptDb /\ Doomed' = Doomed
    BY <2>1, <2>2, <2>3 DEF KeptDb, Doomed
  <2>. QED
    BY <2>3, <2>4
<1>. QED
  BY <1>4, <1>5, <1>6, <1>7, <1>8, <1>9, <1>10, <1>11, <1>12, <1>13, <1>14, <1>15, <1>16, <1>17,
     <1>18, <1>19, <1>20, <1>21, <1>22 DEF BootStep

LEMMA WholeStep ==
    ASSUME TypeOK, Stages, WholeUnlessTorn, [Next]_vars
    PROVE  WholeUnlessTorn'
<1>1. SUFFICES ASSUME ~torn' PROVE Whole'
  BY DEF WholeUnlessTorn
<1>2. torn' = torn \/ Cut
  BY DEF Next, BootStep, ShopStep, vars, ghosts, Boot, Start, Refuse, RemoveStaged, SwapDone,
         MoveAside, MoveIn, GiveUp, TryAgain, Counted, ToFailed, FromKept, Report, ForgetApplied,
         Tidy, Place, Serve, ServeFails, Confirm, Record, Undo, Stop, BeginStaging, PlaceCopy,
         Describe, StagingFails, Staging, AskApply, AskRefused, WriteApply, Asking, CancelStaged, Disturb
<1>3. ~torn
  BY <1>1, <1>2 DEF Cut
<1>4. Whole
  BY <1>3 DEF WholeUnlessTorn
<1>5. CASE UNCHANGED vars
  BY <1>4, <1>5 DEF vars, files, staged, records, Whole, KeptDb, Doomed
<1>6. CASE Disturb
  BY <1>4, <1>6, DisturbLeaves DEF Whole, KeptDb, Doomed
<1>. QED
  BY <1>1, <1>4, <1>5, <1>6, ShopWhole, CutWhole, BootWholeStep DEF Next

\* Wherever a restore is interrupted, and however often, no start finds the shop
\* without a database or puts the empty template in its place: unless a cut fell
\* in the window of rollbackRestore that torn records.
THEOREM ShopSurvivesCuts == Spec => []ShopIsKept
<1>1. Init => WholeUnlessTorn
  BY RestoreSwapAssumption DEF Init, WholeUnlessTorn, Whole, Shopful
<1>. QED
  BY <1>1, WholeStep, WholeIsKept, AlwaysTyped, PTL DEF Spec

(***************************************************************************)
(* No rename lands on a database: the live one is replaced only when it is *)
(* gone, and a failed folder is new.                                       *)
(***************************************************************************)
NoneOverwritten ==
    /\ PreviousIsKept
    /\ applied # None /\ pending # None => live.db \in {None, applied.was}
    /\ at = "toFailed" /\ live.db # None => folders[memory.failed].db = None
    /\ at = "fromKept" /\ KeptDb # None => live.db = None

LEMMA OverwriteStep ==
    ASSUME TypeOK, Stages, NoneOverwritten, [Next]_vars
    PROVE  NoneOverwritten'
<1>. USE Distinct, NoneIsNoRecord DEF NoneOverwritten, PreviousIsKept
<1>1. applied # None => applied.was \in Databases /\ applied.was # None /\ applied.kept \in Folders
  BY DEF TypeOK, AppliedRecords
<1>2. ASSUME applied' = None, at' \notin {"toFailed", "fromKept"} PROVE NoneOverwritten'
  BY <1>2
<1>3. ASSUME UNCHANGED <<live, folders, applied>>, pending' \in {pending, None},
             at' \in {"toFailed", "fromKept"} => at' = at /\ memory' = memory
      PROVE  NoneOverwritten'
  BY <1>3 DEF KeptDb
<1>4. CASE MoveAside
  <2>1. applied # None /\ at' = at /\ at \in SwapSteps /\ pending # None
        /\ UNCHANGED <<applied, pending>>
    BY <1>4 DEF MoveAside, Stages, SwapSteps, staged, records
  <2>2. CASE live.db = None
    BY <1>1, <1>4, <2>1, <2>2, AsideMoves DEF SwapSteps
  <2>3. CASE live.db # None
    <3>1. folders'[applied.kept].db = applied.was /\ live'.db = None
      BY <1>1, <1>4, <2>1, <2>3, AsideMoves
    <3>. QED
      BY <1>1, <2>1, <3>1 DEF SwapSteps
  <2>. QED
    BY <2>2, <2>3
<1>5. CASE MoveIn
  <2>1. /\ applied # None /\ live.db = None /\ UNCHANGED <<applied, folders>>
        /\ pending' = None /\ at' \in {"forget", "decide"}
    BY <1>5 DEF MoveIn, Stages, SwapSteps, AfterSwap, Gone, records
  <2>. QED
    BY <1>1, <2>1
<1>6. CASE ToFailed
  <2>1. /\ at = "toFailed" /\ applied # None /\ pending = None
        /\ UNCHANGED <<applied, pending, memory>> /\ memory.failed \in Folders
        /\ at' \in {"toFailed", "fromKept"}
    BY <1>6
    DEF ToFailed, Step, Stages, PutBackSteps, UndoSteps, SwapSteps, staged, records
  <2>2. CASE Gone(live)
    <3>1. at' = "fromKept" /\ UNCHANGED <<live, folders>> /\ live.db = None
      BY <1>6, <2>2 DEF ToFailed, Step, Gone, files
    <3>. QED
      BY <2>1, <3>1
  <2>3. CASE ~Gone(live)
    <3>1. at' = at /\ live'.db = None
      BY <1>6, <2>1, <2>3, FailedMoves DEF ToFailed
    <3>2. \A f \in Folders :
             folders'[f].db = IF f = memory.failed /\ live.db # None THEN live.db
                              ELSE folders[f].db
      BY <1>6, <2>3, FailedMoves
    <3>3. live.db = applied.was \/ \E f \in Folders : folders[f].db = applied.was
      BY <2>1
    <3>4. CASE live.db = applied.was
      BY <1>1, <2>1, <3>1, <3>2, <3>4
    <3>5. ASSUME NEW f \in Folders, folders[f].db = applied.was PROVE NoneOverwritten'
      <4>1. folders'[f].db = applied.was \/ folders'[memory.failed].db = applied.was
        BY <1>1, <2>1, <3>2, <3>5
      <4>. QED
        BY <1>1, <2>1, <3>1, <4>1
    <3>. QED
      BY <3>3, <3>4, <3>5
  <2>. QED
    BY <2>2, <2>3
<1>7. CASE FromKept
  <2>1. /\ at = "fromKept" /\ applied # None /\ pending = None /\ memory.record = applied
        /\ UNCHANGED <<applied, pending, memory>> /\ at' \in {"fromKept", "report"}
    BY <1>7
    DEF FromKept, Step, Stages, PutBackSteps, BootSteps, SwapSteps, staged, records
  <2>2. CASE Gone(folders[applied.kept])
    <3>1. at' = "report" /\ UNCHANGED <<live, folders>>
      BY <1>7, <2>1, <2>2 DEF FromKept, Step, files
    <3>. QED
      BY <2>1, <3>1
  <2>3. CASE ~Gone(folders[applied.kept])
    <3>1. /\ live'.db = IF KeptDb # None THEN KeptDb ELSE live.db
          /\ \A f \in Folders :
                folders'[f].db = IF f = applied.kept THEN None ELSE folders[f].db
          /\ KeptDb' = None
      BY <1>1, <1>7, <2>1, <2>3, KeptMoves DEF KeptDb
    <3>2. at' = at
      BY <1>7, <2>1, <2>3 DEF FromKept
    <3>3. live'.db = applied.was \/ \E f \in Folders : folders'[f].db = applied.was
      BY <1>1, <2>1, <3>1 DEF KeptDb
    <3>. QED
      BY <2>1, <3>1, <3>2, <3>3
  <2>. QED
    BY <2>2, <2>3
<1>8. ASSUME NEW f \in Folders, Record(f) PROVE NoneOverwritten'
  <2>1. applied'.was = live.db /\ UNCHANGED <<live, folders>> /\ at' = "swap"
    BY <1>8 DEF Record, Step, files
  <2>. QED
    BY <2>1
<1>9. ASSUME NEW f \in Folders, Undo(f) PROVE NoneOverwritten'
  <2>1. /\ \A g \in Folders : folders'[g].db = folders[g].db
        /\ memory'.failed = f /\ folders[f].db = None
        /\ UNCHANGED <<live, applied, pending>> /\ at' = "toFailed"
    BY <1>9 DEF Undo, Step, Free, FreeNames, Unused, TypeOK, staged, records
  <2>. QED
    BY <2>1
<1>10. CASE TryAgain
  <2>1. applied # None /\ memory.record = applied /\ at' = "place" /\ pending = None
    BY <1>10 DEF TryAgain, Counted, Step, Stages, BootSteps, SwapSteps
  <2>2. applied'.was = applied.was /\ UNCHANGED <<live, folders, pending>>
    BY <1>10, <2>1 DEF TryAgain, Counted, files, staged, TypeOK, AppliedRecords
  <2>. QED
    BY <2>1, <2>2
<1>11. CASE ServeFails
  <2>1. applied # None /\ memory.record = applied /\ at' = "off" /\ pending = None
    BY <1>11 DEF ServeFails, Step, Stages, BootSteps, SwapSteps
  <2>2. /\ applied'.was = applied.was /\ live'.db = live.db
        /\ UNCHANGED <<folders, pending>>
    BY <1>11, <2>1 DEF ServeFails, staged, TypeOK, AppliedRecords
  <2>. QED
    BY <2>1, <2>2
<1>12. CASE Place
  <2>1. /\ at = "place" /\ at' = "serve" /\ UNCHANGED <<folders, applied, pending>>
        /\ live.db # None => live' = live
        /\ applied # None => pending = None
    BY <1>12 DEF Place, Step, Stages, SwapSteps, staged, records
  <2>. QED
    BY <1>1, <2>1
<1>13. CASE Serve
  <2>1. /\ at' \in {"up", "confirm"} /\ live'.db = live.db
        /\ UNCHANGED <<folders, applied, pending>>
    BY <1>13 DEF Serve, Step, staged, records, TypeOK
  <2>. QED
    BY <2>1
<1>14. CASE ForgetApplied
  BY <1>2, <1>14 DEF ForgetApplied, Step
<1>15. CASE Tidy
  <2>1. applied' = None /\ at' \notin {"toFailed", "fromKept"}
    BY <1>15 DEF Tidy, Untidy, Step, Stages, records
  <2>. QED
    BY <1>2, <2>1
<1>16. CASE RemoveStaged
  <2>1. pending' \in {pending, None} /\ at' \in {at, "place"}
    BY <1>16, Zenon DEF RemoveStaged, Step
  <2>. QED
    BY <1>3, <1>16, <2>1 DEF RemoveStaged, files, records
<1>17. CASE Boot \/ Refuse \/ SwapDone \/ GiveUp \/ Report \/ Confirm
  BY <1>3, <1>17
  DEF Boot, Start, Refuse, SwapDone, AfterSwap, GiveUp, Report, Confirm, Step, files, staged,
      records
<1>18. CASE ShopStep \/ (Disturb /\ applied = None)
  <2>1. applied' = None /\ at' \in {"up", "off"}
    BY <1>18
    DEF ShopStep, Disturb, Stop, BeginStaging, PlaceCopy, Describe, StagingFails, Staging, AskApply,
        AskRefused, WriteApply, Asking, CancelStaged, records, Stages
  <2>. QED
    BY <1>2, <2>1
<1>19. CASE Cut \/ (Disturb /\ applied # None)
  BY <1>3, <1>19, DisturbLeaves DEF Cut, files, staged, records
<1>20. CASE UNCHANGED vars
  BY <1>3, <1>20 DEF vars, files, staged, records
<1>. QED
  BY <1>4, <1>5, <1>6, <1>7, <1>8, <1>9, <1>10, <1>11, <1>12, <1>13, <1>14, <1>15, <1>16, <1>17,
     <1>18, <1>19, <1>20 DEF Next, BootStep

\* Until a restore is confirmed or undone, the database it replaced lies in its
\* place or in a folder, even when a cut has torn the files apart.
THEOREM NothingIsThrownAway == Spec => []PreviousIsKept
<1>1. Init => NoneOverwritten
  BY DEF Init, NoneOverwritten, PreviousIsKept
<1>2. NoneOverwritten => PreviousIsKept
  BY DEF NoneOverwritten
<1>. QED
  BY <1>1, <1>2, OverwriteStep, AlwaysTyped, PTL DEF Spec

(***************************************************************************)
(* Whose files lie where.  A record's kept folder holds files of the       *)
(* previous database only; the live ones are the previous database's until *)
(* the copy has moved in, the copy's while a start may still try it, and   *)
(* the previous database's again once they come back.                      *)
(***************************************************************************)
Kept == folders[applied.kept]
OfPrevious(place) == place.db \in {None, applied.was} /\ place.wal \in {None, applied.was}
OfCopy(place) == place.db \in {None, applied.copy} /\ place.wal \in {None, applied.copy}
Whose(place) == place.wal \in {None, place.db}
Trusted == ~Doomed \/ at \in {"forget", "place", "serve", "confirm", "close"}
SaysDone(record) == result = [ok |-> TRUE, copy |-> record.copy, kept |-> record.kept]

SwapInFlight ==
    applied # None =>
        /\ OfPrevious(Kept)
        /\ Kept.db # None => Kept.kind = "before"
        /\ pending # None => OfPrevious(live) /\ applied.was \in {live.db, Kept.db}
        /\ pending = None /\ Trusted => OfCopy(live) /\ live.db # None /\ Kept.db # None
        /\ at \in PutBackSteps => Doomed
        /\ at \in HalfBackSteps => OfPrevious(live)

Reported ==
    /\ at = "close" => SaysDone(applied)
    /\ at = "tidy" => SaysDone(memory.record)
    /\ at \in {"forgetApplied", "tidyUndo"} => ~result.ok
    /\ applied = None /\ result # None /\ result.ok =>
          /\ result.copy # None /\ result.kept \in Folders
          /\ live.db = result.copy
          /\ folders[result.kept].kind = "before"
          /\ folders[result.kept].db # None /\ Whose(folders[result.kept])

SwapInv ==
    /\ SwapInFlight /\ Reported
    /\ applied = None /\ live.db # None => Whose(live)

\* What a record and the places hold, and what a step of the start goes by.
LEMMA Knowledge ==
    ASSUME TypeOK, Stages
    PROVE  /\ live \in LivePlaces /\ folders \in [Folders -> Places]
           /\ applied # None => /\ applied \in AppliedRecords
                                /\ applied.kept \in Folders /\ applied.was # None
                                /\ applied.copy \in Copies /\ applied.copy # None
           /\ at \in BootSteps \ {"tidy", "tidyUndo"} => memory.record = applied
           /\ at \in SwapSteps \cup PutBackSteps \cup {"decide", "forget", "confirm", "close"}
                => applied # None
           /\ at \in {"up", "judge", "clear", "tidy", "tidyUndo"} => applied = None
           /\ at \notin SwapSteps \cup {"off"} /\ applied # None => pending = None
BY Distinct, NoneIsNoRecord
   DEF TypeOK, LivePlaces, Places, Stages, AppliedRecords, SwapSteps, PutBackSteps

\* A rename takes the database first and its WAL next, and nothing else.
LEMMA MovedFiles ==
    ASSUME NEW place \in Places, NEW from \in LivePlaces
    PROVE  /\ Plus(place, from).wal = IF from.db # None THEN place.wal ELSE from.wal
           /\ Plus(from, place).wal = IF place.db # None THEN from.wal ELSE place.wal
           /\ Plus(place, from).kind = place.kind
           /\ Without(place).wal = IF place.db # None THEN place.wal ELSE None
           /\ Without(from).wal = IF from.db # None THEN from.wal ELSE None
           /\ Without(place).kind = place.kind
           /\ [place EXCEPT !.kind = "before"].wal = place.wal
           /\ [place EXCEPT !.kind = "before"].kind = "before"
BY DEF Plus, Without, Places, LivePlaces

\* MoveAside carries the first live file into the record's kept folder.
LEMMA AsideCarries ==
    ASSUME TypeOK, Stages, MoveAside
    PROVE  /\ live'.db = None
           /\ live'.wal = IF live.db # None THEN live.wal ELSE None
           /\ folders'[applied.kept].db = IF live.db # None THEN live.db ELSE Kept.db
           /\ folders'[applied.kept].wal = IF live.db # None THEN Kept.wal ELSE live.wal
           /\ folders'[applied.kept].kind = "before"
           /\ \A f \in Folders \ {applied.kept} : folders'[f] = folders[f]
           /\ at \in SwapSteps /\ at' = at /\ applied # None /\ pending # None
           /\ UNCHANGED <<applied, pending, result, memory>>
<1>1. /\ live \in LivePlaces /\ folders \in [Folders -> Places]
      /\ memory.record = applied /\ applied.kept \in Folders /\ applied # None
  BY Knowledge DEF MoveAside, SwapSteps, BootSteps
<1>2. /\ live' = Without(live)
      /\ folders' = [folders EXCEPT ![applied.kept] = [Plus(@, live) EXCEPT !.kind = "before"]]
      /\ at \in SwapSteps /\ at' = at /\ pending # None
      /\ UNCHANGED <<applied, pending, result, memory>>
  BY <1>1 DEF MoveAside, staged, records
<1>3. Plus(Kept, live) \in Places /\ folders'[applied.kept] = [Plus(Kept, live) EXCEPT !.kind = "before"]
  BY <1>1, <1>2, FolderMoves DEF Kept
<1>. QED
  BY <1>1, <1>2, <1>3, MovedDatabase, MovedFiles DEF Kept

\* ToFailed carries a live file to the folder of the failed copy, or goes on.
LEMMA FailedCarries ==
    ASSUME TypeOK, Stages, ToFailed
    PROVE  /\ at = "toFailed" /\ applied # None /\ pending = None
           /\ memory.failed \in Folders \ {applied.kept}
           /\ UNCHANGED <<applied, pending, result, memory>>
           /\ \/ Gone(live) /\ at' = "fromKept" /\ UNCHANGED <<live, folders>>
              \/ /\ ~Gone(live) /\ at' = at
                 /\ live'.db = None
                 /\ live'.wal = IF live.db # None THEN live.wal ELSE None
                 /\ folders'[memory.failed].db
                       = IF live.db # None THEN live.db ELSE folders[memory.failed].db
                 /\ folders'[memory.failed].wal
                       = IF live.db # None THEN folders[memory.failed].wal ELSE live.wal
                 /\ \A f \in Folders \ {memory.failed} : folders'[f] = folders[f]
<1>1. /\ live \in LivePlaces /\ folders \in [Folders -> Places]
      /\ at = "toFailed" /\ applied # None /\ pending = None /\ memory.record = applied
      /\ memory.failed \in Folders \ {applied.kept}
      /\ UNCHANGED <<applied, pending, result, memory>>
  BY Knowledge
  DEF ToFailed, Step, Stages, UndoSteps, PutBackSteps, SwapSteps, BootSteps, staged, records
<1>2. CASE Gone(live)
  BY <1>1, <1>2 DEF ToFailed, Step, files
<1>3. CASE ~Gone(live)
  <2>1. /\ live' = Without(live) /\ at' = at
        /\ folders' = [folders EXCEPT ![memory.failed] = Plus(@, live)]
    BY <1>3 DEF ToFailed
  <2>. QED
    BY <1>1, <1>3, <2>1, MovedDatabase, MovedFiles
<1>. QED
  BY <1>2, <1>3

\* FromKept carries a kept file back to the live path, or goes on.
LEMMA KeptCarries ==
    ASSUME TypeOK, Stages, FromKept
    PROVE  /\ at = "fromKept" /\ applied # None /\ pending = None
           /\ UNCHANGED <<applied, pending, result, memory>>
           /\ \/ Gone(Kept) /\ at' = "report" /\ UNCHANGED <<live, folders>>
              \/ /\ ~Gone(Kept) /\ at' = at
                 /\ live'.db = IF Kept.db # None THEN Kept.db ELSE live.db
                 /\ live'.wal = IF Kept.db # None THEN live.wal ELSE Kept.wal
                 /\ folders'[applied.kept].db = None
                 /\ folders'[applied.kept].wal = IF Kept.db # None THEN Kept.wal ELSE None
                 /\ folders'[applied.kept].kind = Kept.kind
                 /\ \A f \in Folders \ {applied.kept} : folders'[f] = folders[f]
<1>1. /\ live \in LivePlaces /\ folders \in [Folders -> Places]
      /\ at = "fromKept" /\ applied # None /\ pending = None /\ memory.record = applied
      /\ applied.kept \in Folders
      /\ UNCHANGED <<applied, pending, result, memory>>
  BY Knowledge DEF FromKept, Step, PutBackSteps, SwapSteps, BootSteps, staged, records
<1>2. CASE Gone(Kept)
  BY <1>1, <1>2 DEF FromKept, Step, files, Kept
<1>3. CASE ~Gone(Kept)
  <2>1. /\ live' = Plus(live, Kept) /\ at' = at
        /\ folders' = [folders EXCEPT ![applied.kept] = Without(@)]
    BY <1>1, <1>3 DEF FromKept, Kept
  <2>. QED
    BY <1>1, <1>3, <2>1, MovedDatabase, MovedFiles DEF Kept
<1>. QED
  BY <1>2, <1>3

\* Steps that move no file and change no record keep it.
LEMMA SwapFrame ==
    ASSUME SwapInv, UNCHANGED <<live, folders, applied, result>>,
           applied # None => pending' = pending,
           applied # None => (Trusted' => Trusted),
           applied # None => at' \notin PutBackSteps \/ Doomed,
           applied # None => at' \notin HalfBackSteps \/ OfPrevious(live),
           at' \notin {"close", "tidy", "forgetApplied", "tidyUndo"}
    PROVE  SwapInv'
<1>1. Kept' = Kept /\ Doomed' = Doomed
  BY DEF Kept, Doomed
<1>. QED
  BY <1>1
  DEF SwapInv, SwapInFlight, Reported, OfPrevious, OfCopy, Whose

\* The shop, and asking for a restore, leave every swap as it was.
LEMMA SwapShop ==
    ASSUME TypeOK, Stages, SwapInv, ShopStep
    PROVE  SwapInv'
<1>1. /\ at = "up" /\ at' \in {"up", "off"} /\ applied = None /\ applied' = None
      /\ live'.db = live.db /\ live'.wal \in {live.wal, None}
      /\ UNCHANGED <<folders, result>>
  <2>1. CASE Stop
    BY <2>1 DEF Stop, Stages, records, TypeOK
  <2>2. ASSUME CancelStaged
        PROVE  at = "up" /\ UNCHANGED <<files, records, at>>
    BY <2>2 DEF CancelStaged
  <2>. QED
    BY <2>1, <2>2
    DEF ShopStep, BeginStaging, PlaceCopy, Describe, StagingFails, Staging, AskApply, AskRefused,
        WriteApply, Asking, files, records, Stages
<1>. QED
  BY <1>1 DEF SwapInv, SwapInFlight, Reported, Whose

\* Each step of the start keeps it: the copy moves in, or the previous comes back.
LEMMA SwapBoot ==
    ASSUME TypeOK, Stages, SwapInv, Checked, BootStep
    PROVE  SwapInv'
<1>. USE DEF SwapSteps, PutBackSteps, ConfirmSteps, HalfBackSteps
<1>1. /\ live \in LivePlaces /\ folders \in [Folders -> Places]
      /\ applied # None => /\ applied \in AppliedRecords
                           /\ applied.kept \in Folders /\ applied.was # None
                           /\ applied.copy \in Copies /\ applied.copy # None
      /\ at \in BootSteps \ {"tidy", "tidyUndo"} => memory.record = applied
      /\ at \in SwapSteps \cup PutBackSteps \cup {"decide", "forget", "confirm", "close"}
           => applied # None
      /\ at \in {"up", "judge", "clear", "tidy", "tidyUndo"} => applied = None
      /\ at \notin SwapSteps \cup {"off"} /\ applied # None => pending = None
  BY Knowledge
<1>2. /\ SwapInFlight /\ Reported
      /\ applied = None /\ live.db # None => Whose(live)
  BY DEF SwapInv
<1>3. UNCHANGED applied => Doomed' = Doomed
  BY DEF Doomed
<1>4. CASE Boot
  BY <1>1, <1>2, <1>3, <1>4, SwapFrame DEF Boot, Start, Step, files, staged, records, Trusted
<1>5. CASE Refuse
  <2>1. applied = None /\ applied' = None /\ UNCHANGED <<live, folders>> /\ at' = "clear"
        /\ ~result'.ok
    BY <1>1, <1>5 DEF Refuse, Step, files
  <2>. QED
    BY <1>2, <2>1 DEF SwapInv, SwapInFlight, Reported, Whose
<1>6. CASE RemoveStaged
  <2>1. /\ UNCHANGED <<live, folders, applied, result>> /\ at \in {"clear", "forget"}
        /\ at' \in {at, "place"} /\ (at = "forget" => pending' = pending)
    BY <1>6 DEF RemoveStaged, Step, files, records
  <2>. QED
    BY <1>1, <1>3, <2>1, SwapFrame DEF Trusted
<1>7. CASE SwapDone \/ GiveUp
  <2>1. /\ UNCHANGED <<live, folders, applied, result, pending>>
        /\ at \in {"again", "decide"} /\ at' \in {"decide", "undo"}
        /\ at' = "undo" => Doomed
    BY <1>1, <1>7
    DEF SwapDone, GiveUp, Step, AfterSwap, Hopeless, Doomed, BootSteps, files, staged, records
  <2>. QED
    BY <1>3, <2>1, SwapFrame DEF Trusted
<1>8. CASE MoveAside
  <2>1. OfPrevious(live) /\ OfPrevious(Kept) /\ applied.was \in {live.db, Kept.db}
    BY <1>2, <1>8, AsideCarries DEF SwapInFlight
  <2>2. OfPrevious(live)' /\ OfPrevious(Kept)' /\ (applied.was \in {live.db, Kept.db})'
        /\ Kept'.kind = "before"
    BY <1>1, <1>8, <2>1, AsideCarries DEF OfPrevious, Kept
  <2>. QED
    BY <1>8, <2>2, AsideCarries DEF SwapInv, SwapInFlight, Reported
<1>9. CASE MoveIn
  <2>1. /\ applied # None /\ pending # None /\ pending = applied.copy /\ Gone(live)
        /\ pending' = None /\ UNCHANGED <<applied, folders, result>>
        /\ at' \in {"forget", "decide"} /\ at \in SwapSteps
    BY <1>1, <1>9 DEF MoveIn, AfterSwap, records, Checked
  <2>2. live'.db = applied.copy /\ live'.wal = None
    BY <1>1, <1>9, <2>1 DEF MoveIn, Gone, LivePlaces
  <2>3. Kept' = Kept /\ Kept.db # None
    BY <1>1, <1>2, <2>1 DEF SwapInFlight, Kept, Gone
  <2>. QED
    BY <1>1, <1>2, <2>1, <2>2, <2>3 DEF SwapInv, SwapInFlight, Reported, OfCopy, OfPrevious
<1>10. CASE TryAgain
  <2>1. /\ applied # None /\ memory.record = applied /\ pending = None /\ ~Doomed
        /\ at' = "place" /\ UNCHANGED <<live, folders, pending, result>>
    BY <1>1, <1>10
    DEF TryAgain, Counted, Step, Hopeless, Doomed, BootSteps, files, staged
  <2>2. applied'.kept = applied.kept /\ applied'.was = applied.was /\ applied'.copy = applied.copy
        /\ applied' # None
    BY <1>10, <2>1, AttemptIsRecorded, NoneIsNoRecord
    DEF TryAgain, Counted, TypeOK, AppliedRecords
  <2>3. Kept' = Kept /\ Trusted
    BY <2>1, <2>2 DEF Kept, Trusted
  <2>. QED
    BY <1>2, <2>1, <2>2, <2>3 DEF SwapInv, SwapInFlight, Reported, OfCopy, OfPrevious
<1>11. CASE ToFailed
  <2>1. /\ at = "toFailed" /\ applied # None /\ pending = None /\ Doomed
        /\ UNCHANGED <<applied, pending, result>> /\ at' \in {"toFailed", "fromKept"}
        /\ folders'[applied.kept] = folders[applied.kept]
        /\ at' = "fromKept" => live' = live /\ Gone(live)
    BY <1>1, <1>2, <1>11, FailedCarries DEF SwapInFlight
  <2>2. Kept' = Kept /\ Doomed' = Doomed
    BY <2>1 DEF Kept, Doomed
  <2>. QED
    BY <1>2, <2>1, <2>2 DEF SwapInv, SwapInFlight, Reported, OfPrevious, Trusted, Gone
<1>12. CASE FromKept
  <2>1. /\ at = "fromKept" /\ applied # None /\ pending = None /\ Doomed
        /\ UNCHANGED <<applied, pending, result>> /\ at' \in {"fromKept", "report"}
        /\ OfPrevious(live) /\ OfPrevious(Kept)
    BY <1>1, <1>2, <1>12, KeptCarries DEF SwapInFlight
  <2>2. OfPrevious(live)' /\ OfPrevious(Kept)' /\ (Kept'.db # None => Kept'.kind = "before")
    <3>1. CASE UNCHANGED <<live, folders>>
      BY <1>2, <2>1, <3>1 DEF OfPrevious, Kept, SwapInFlight
    <3>2. CASE ~UNCHANGED <<live, folders>>
      BY <1>12, <2>1, <3>2, KeptCarries DEF OfPrevious, Kept
    <3>. QED
      BY <3>1, <3>2
  <2>. QED
    BY <1>3, <2>1, <2>2 DEF SwapInv, SwapInFlight, Reported, Trusted
<1>13. CASE Report
  <2>1. /\ at = "report" /\ at' = "forgetApplied" /\ applied # None /\ pending = None /\ ~result'.ok
        /\ UNCHANGED <<live, folders, applied, pending>>
    BY <1>1, <1>13 DEF Report, Step, files, staged
  <2>2. Kept' = Kept
    BY <2>1 DEF Kept
  <2>. QED
    BY <1>2, <1>3, <2>1, <2>2 DEF SwapInv, SwapInFlight, Reported, Trusted, OfPrevious
<1>14. CASE Step("forgetApplied", "tidyUndo") /\ ForgetApplied
  <2>1. /\ applied' = None /\ UNCHANGED <<live, folders, result>> /\ ~result.ok
        /\ at' = "tidyUndo" /\ OfPrevious(live)
    BY <1>1, <1>2, <1>14 DEF ForgetApplied, Step, files, SwapInFlight, Reported
  <2>. QED
    BY <2>1 DEF SwapInv, SwapInFlight, Reported, OfPrevious, Whose
<1>15. CASE Step("close", "tidy") /\ ForgetApplied
  <2>1. /\ applied' = None /\ UNCHANGED <<live, folders, result, memory>>
        /\ at = "close" /\ at' = "tidy" /\ memory.record = applied /\ SaysDone(applied)
        /\ applied # None /\ pending = None
    BY <1>1, <1>2, <1>15 DEF ForgetApplied, Step, files, Reported, BootSteps
  <2>2. /\ OfCopy(live) /\ live.db # None /\ Kept.db # None /\ OfPrevious(Kept)
        /\ Kept.kind = "before"
    BY <1>2, <2>1 DEF SwapInFlight, Trusted
  <2>3. result.copy = applied.copy /\ result.kept = applied.kept
    BY <2>1 DEF SaysDone
  <2>. QED
    BY <1>1, <2>1, <2>2, <2>3
    DEF SwapInv, SwapInFlight, Reported, SaysDone, OfCopy, OfPrevious, Whose, Kept
<1>16. CASE Tidy
  <2>1. /\ applied = None /\ applied' = None /\ UNCHANGED <<live, result>>
        /\ at \in {"tidy", "tidyUndo"}
        /\ (at' = at /\ memory' = memory) \/ at' \in {"place", "up"}
    BY <1>1, <1>16 DEF Tidy, Untidy, Step, files, records
  <2>2. result # None /\ result.ok => folders'[result.kept] = folders[result.kept]
    BY <1>1, <1>2, <1>16, <2>1 DEF Tidy, Untidy, Step, files, Reported, SaysDone
  <2>. QED
    BY <1>2, <2>1, <2>2 DEF SwapInv, SwapInFlight, Reported, Whose, SaysDone
<1>17. CASE Place
  <2>1. /\ at = "place" /\ at' = "serve" /\ UNCHANGED <<folders, applied, result, pending>>
        /\ live.db # None => live' = live
        /\ live.db = None => live' = [db |-> Template, wal |-> None]
    BY <1>17 DEF Place, Step, staged, records
  <2>2. applied # None => live' = live /\ Kept' = Kept /\ Trusted
    BY <1>1, <1>2, <2>1 DEF SwapInFlight, Trusted, Kept
  <2>3. applied = None => live'.db = None \/ Whose(live)'
    BY <1>2, <2>1 DEF Whose
  <2>. QED
    BY <1>1, <1>2, <2>1, <2>2, <2>3
    DEF SwapInv, SwapInFlight, Reported, OfCopy, OfPrevious, Whose
<1>18. CASE Serve
  <2>1. /\ at = "serve" /\ at' \in {"up", "confirm"} /\ UNCHANGED <<folders, applied, result, pending>>
        /\ live'.db = live.db /\ live'.wal = live.db
    BY <1>1, <1>18 DEF Serve, Step, staged, records, LivePlaces
  <2>2. applied # None => Kept' = Kept /\ Trusted
    BY <2>1 DEF Trusted, Kept
  <2>. QED
    BY <1>1, <1>2, <2>1, <2>2 DEF SwapInv, SwapInFlight, Reported, OfCopy, OfPrevious, Whose
<1>19. CASE ServeFails
  <2>1. /\ at = "serve" /\ at' = "off" /\ applied # None /\ memory.record = applied
        /\ pending = None /\ UNCHANGED <<folders, pending>>
    BY <1>1, <1>19 DEF ServeFails, Step, staged, BootSteps
  <2>2. /\ applied'.kept = applied.kept /\ applied'.was = applied.was /\ applied' # None
        /\ Doomed'
    BY <1>1, <1>19, <2>1, NoneIsNoRecord DEF ServeFails, AppliedRecords, Doomed
  <2>3. Kept' = Kept
    BY <2>1, <2>2 DEF Kept
  <2>. QED
    BY <1>2, <2>1, <2>2, <2>3 DEF SwapInv, SwapInFlight, Reported, Trusted, OfPrevious
<1>20. CASE Confirm
  <2>1. /\ at = "confirm" /\ at' = "close" /\ applied # None /\ memory.record = applied
        /\ UNCHANGED <<live, folders, applied, pending>> /\ SaysDone(applied)'
    BY <1>1, <1>20 DEF Confirm, Step, files, staged, BootSteps, SaysDone
  <2>2. Kept' = Kept /\ Trusted
    BY <2>1 DEF Kept, Trusted
  <2>. QED
    BY <1>2, <2>1, <2>2 DEF SwapInv, SwapInFlight, Reported, OfCopy, OfPrevious
<1>21. ASSUME NEW f \in Folders, Record(f) PROVE SwapInv'
  <2>1. /\ applied = None /\ pending # None /\ live.db # None /\ folders[f] = Unused
        /\ applied'.kept = f /\ applied'.was = live.db /\ applied' # None
        /\ UNCHANGED <<live, folders, pending, result>> /\ at' = "swap"
    BY <1>1, <1>21, RestoreIsRecorded, NoneIsNoRecord
    DEF Record, AsChecked, Step, Free, FreeNames, Stages, files, staged
  <2>2. Whose(live)
    BY <1>2, <2>1
  <2>3. Kept' = Unused
    BY <2>1 DEF Kept
  <2>. QED
    BY <2>1, <2>2, <2>3 DEF SwapInv, SwapInFlight, Reported, OfPrevious, Whose, Unused
<1>22. ASSUME NEW f \in Folders, Undo(f) PROVE SwapInv'
  <2>1. /\ at = "undo" /\ at' = "toFailed" /\ applied # None /\ pending = None
        /\ f # applied.kept /\ folders'[applied.kept] = folders[applied.kept]
        /\ UNCHANGED <<live, applied, pending, result>>
    BY <1>1, <1>22 DEF Undo, Step, Free, FreeNames, staged, records, BootSteps
  <2>2. Kept' = Kept /\ Doomed /\ Doomed'
    BY <1>2, <1>3, <2>1 DEF Kept, SwapInFlight
  <2>. QED
    BY <1>2, <2>1, <2>2 DEF SwapInv, SwapInFlight, Reported, OfPrevious, Trusted
<1>. QED
  BY <1>4, <1>5, <1>6, <1>7, <1>8, <1>9, <1>10, <1>11, <1>12, <1>13, <1>14, <1>15, <1>16, <1>17,
     <1>18, <1>19, <1>20, <1>21, <1>22 DEF BootStep, ForgetApplied

\* So does every step: a cut moves nothing.
LEMMA SwapStep ==
    ASSUME TypeOK, Stages, SwapInv, Checked, [Next]_vars
    PROVE  SwapInv'
<1>1. CASE Cut
  BY <1>1, SwapFrame DEF Cut, files, staged, records, PutBackSteps, HalfBackSteps, Trusted, Doomed
<1>2. CASE UNCHANGED vars
  BY <1>2
  DEF vars, files, staged, records, SwapInv, SwapInFlight, Reported, SaysDone, OfCopy, OfPrevious,
      Whose, Kept, Trusted, Doomed
<1>3. CASE Disturb
  BY <1>3, DisturbLeaves
  DEF SwapInv, SwapInFlight, Reported, SaysDone, OfCopy, OfPrevious, Whose, Kept, Trusted, Doomed
<1>. QED
  BY <1>1, <1>2, <1>3, SwapShop, SwapBoot DEF Next

(***************************************************************************)
(* Every fetch writes a file of its own, so a staged copy is none of those *)
(* that were ever opened.                                                  *)
(***************************************************************************)
Used(x) ==
    \/ x \in {live.db, live.wal}
    \/ \E f \in Folders : x \in {folders[f].db, folders[f].wal}

Fresh ==
    /\ pending \in Copies => pending = fetched
    /\ \A x \in Copies : Used(x) => x <= fetched /\ x # pending

\* Renames carry files about: only MoveIn brings one that was not there.
LEMMA UsedStays ==
    ASSUME TypeOK, Stages, [Next]_vars, NEW x \in Copies, Used(x)'
    PROVE  Used(x) \/ (MoveIn /\ x = pending)
<1>. USE Distinct DEF Used
<1>1. live \in LivePlaces /\ folders \in [Folders -> Places] /\ x # None /\ x # Template
  BY Knowledge
<1>2. CASE UNCHANGED files
  BY <1>2 DEF files
<1>3. CASE MoveAside
  BY <1>1, <1>3, AsideCarries, Knowledge DEF Kept
<1>4. CASE ToFailed
  BY <1>1, <1>4, FailedCarries
<1>5. CASE FromKept
  BY <1>1, <1>5, KeptCarries, Knowledge DEF Kept
<1>6. CASE MoveIn
  BY <1>1, <1>6 DEF MoveIn, LivePlaces
<1>7. CASE Place
  BY <1>1, <1>7 DEF Place
<1>8. CASE Serve \/ ServeFails \/ Stop
  BY <1>1, <1>8 DEF Serve, ServeFails, Stop, LivePlaces
<1>9. ASSUME NEW f \in Folders, Undo(f) PROVE Used(x)
  <2>1. \A g \in Folders : folders'[g].db = folders[g].db /\ folders'[g].wal = folders[g].wal
    BY <1>1, <1>9 DEF Undo, Places
  <2>. QED
    BY <1>9, <2>1 DEF Undo
<1>10. CASE Tidy
  <2>1. \A g \in Folders : folders'[g] \in {folders[g], Unused}
    BY <1>1, <1>10 DEF Tidy, files
  <2>. QED
    BY <1>1, <1>10, <2>1 DEF Tidy, files, Unused
<1>. QED
  BY <1>2, <1>3, <1>4, <1>5, <1>6, <1>7, <1>8, <1>9, <1>10
  DEF Next, BootStep, ShopStep, vars, Boot, Start, Refuse, RemoveStaged, SwapDone, GiveUp, TryAgain,
      Counted, Report, ForgetApplied, Confirm, Record, BeginStaging, PlaceCopy, Describe,
      StagingFails, Staging, AskApply, AskRefused, WriteApply, Asking, CancelStaged, Disturb, Cut

\* Only MoveIn uses up a fetched copy, and its place is gone with it.
LEMMA FreshStep ==
    ASSUME TypeOK, Stages, Fresh, [Next]_vars
    PROVE  Fresh'
<1>. USE Distinct
<1>1. fetched \in Nat /\ Copies \subseteq Nat /\ MaxCopies \in Nat
  BY RestoreSwapAssumption DEF TypeOK, Copies
<1>2. \/ PlaceCopy /\ ~MoveIn
      \/ fetched' = fetched /\ (pending' = pending \/ pending' \in {None, Damaged})
  BY RestoreSwapAssumption
  DEF Next, BootStep, ShopStep, vars, requests, staged, Boot, Start, Refuse, RemoveStaged, SwapDone,
      MoveAside, MoveIn, GiveUp, TryAgain, Counted, ToFailed, FromKept, Report, ForgetApplied, Tidy,
      Place, Serve, ServeFails, Confirm, Record, Undo, Stop, BeginStaging, PlaceCopy, Describe,
      StagingFails, Staging, AskApply, AskRefused, WriteApply, Asking, CancelStaged, Disturb, Cut, ClearStaged,
      SwapSteps
<1>3. MoveIn => pending' = None /\ fetched' = fetched
  BY DEF MoveIn, requests
<1>4. CASE PlaceCopy /\ ~MoveIn
  BY <1>1, <1>4, UsedStays DEF PlaceCopy, Fresh
<1>5. CASE fetched' = fetched /\ (pending' = pending \/ pending' \in {None, Damaged})
  BY <1>1, <1>3, <1>5, UsedStays DEF Fresh
<1>. QED
  BY <1>2, <1>4, <1>5

(***************************************************************************)
(* No WAL of a database that is live, or that may yet come back, lies in a *)
(* folder other than the one it would come back from.                      *)
(***************************************************************************)
WalsApart ==
    /\ applied = None => \A f \in Folders : folders[f].wal # live.db
    /\ applied # None =>
          /\ applied.was # applied.copy
          /\ \A f \in Folders \ {applied.kept} : folders[f].wal # applied.was
          /\ pending # None \/ live.db = applied.copy =>
                \A f \in Folders : folders[f].wal # applied.copy
          /\ pending = None /\ at \notin HalfBackSteps => OfCopy(live)
          /\ at \in {"report", "forgetApplied"} => Gone(Kept)

WalsApartUnlessTorn == ~torn => WalsApart

\* Steps that move no file keep each WAL with its database.
LEMMA WalsFrame ==
    ASSUME WalsApart, UNCHANGED <<live, folders, applied>>,
           applied # None => pending' = pending,
           at' \notin {"report", "forgetApplied"} \/ at' = at,
           at \in HalfBackSteps => at' \in HalfBackSteps \/ Gone(live)
    PROVE  WalsApart'
<1>1. Kept' = Kept
  BY DEF Kept
<1>. QED
  BY <1>1 DEF WalsApart, OfCopy, Gone

\* So does every step, until a cut has torn the files apart.
LEMMA WalsStep ==
    ASSUME TypeOK, Stages, SwapInv, Checked, Fresh, Whole, WalsApart, [Next]_vars, ~torn'
    PROVE  WalsApart'
<1>. USE DEF SwapSteps, PutBackSteps, ConfirmSteps, HalfBackSteps
<1>1. /\ live \in LivePlaces /\ folders \in [Folders -> Places]
      /\ applied # None => /\ applied \in AppliedRecords
                           /\ applied.kept \in Folders /\ applied.was # None
                           /\ applied.copy \in Copies /\ applied.copy # None
      /\ at \in BootSteps \ {"tidy", "tidyUndo"} => memory.record = applied
      /\ at \in SwapSteps \cup PutBackSteps \cup {"decide", "forget", "confirm", "close"}
           => applied # None
      /\ at \in {"up", "judge", "clear", "tidy", "tidyUndo"} => applied = None
      /\ at \notin SwapSteps \cup {"off"} /\ applied # None => pending = None
  BY Knowledge
<1>2. applied = None => live.db # None
  BY DEF Whole, Shopful
<1>3. CASE MoveAside
  <2>1. OfPrevious(live) /\ live'.db = None /\ applied.was # applied.copy
    BY <1>3, AsideCarries DEF SwapInv, SwapInFlight, WalsApart
  <2>2. \A f \in Folders : folders'[f].wal # applied.copy
    BY <1>1, <1>3, <2>1, AsideCarries DEF WalsApart, OfPrevious, Kept
  <2>. QED
    BY <1>1, <1>3, <2>1, <2>2, AsideCarries DEF WalsApart
<1>4. CASE MoveIn
  <2>1. /\ applied # None /\ pending # None /\ pending = applied.copy /\ Gone(live)
        /\ pending' = None /\ UNCHANGED <<applied, folders>>
        /\ at' \in {"forget", "decide"}
    BY <1>1, <1>4 DEF MoveIn, AfterSwap, records, Checked
  <2>2. live'.db = applied.copy /\ live'.wal = None
    BY <1>1, <1>4, <2>1 DEF MoveIn, Gone, LivePlaces
  <2>. QED
    BY <1>1, <2>1, <2>2 DEF WalsApart, OfCopy
<1>5. CASE ToFailed
  <2>1. OfCopy(live) /\ applied.was # applied.copy
    BY <1>1, <1>5, FailedCarries DEF WalsApart
  <2>2. CASE Gone(live)
    BY <1>1, <1>5, <2>1, <2>2, FailedCarries, WalsFrame
  <2>3. CASE ~Gone(live)
    <3>1. live'.db = None /\ OfCopy(live)'
      BY <1>5, <2>1, <2>3, FailedCarries DEF OfCopy
    <3>2. \A f \in Folders \ {applied.kept} : folders'[f].wal # applied.was
      BY <1>1, <1>5, <2>1, <2>3, FailedCarries DEF WalsApart, OfCopy
    <3>. QED
      BY <1>1, <1>5, <2>1, <2>3, <3>1, <3>2, FailedCarries DEF WalsApart
  <2>. QED
    BY <2>2, <2>3
<1>6. CASE FromKept
  <2>1. applied # None /\ OfPrevious(live) /\ OfPrevious(Kept) /\ applied.was # applied.copy
    BY <1>1, <1>6, KeptCarries DEF SwapInv, SwapInFlight, WalsApart
  <2>2. CASE UNCHANGED <<live, folders>>
    <3>1. at = "fromKept" /\ at' = "report" /\ Gone(Kept) /\ UNCHANGED <<applied, pending>>
      BY <1>6, <2>2, KeptCarries DEF Gone, Kept
    <3>2. Kept' = Kept
      BY <2>2, <3>1 DEF Kept
    <3>. QED
      BY <1>1, <2>2, <3>1, <3>2 DEF WalsApart, Gone
  <2>3. CASE ~UNCHANGED <<live, folders>>
    <3>1. /\ at = "fromKept" /\ at' = at /\ UNCHANGED <<applied, pending>> /\ pending = None
          /\ live'.db \in {applied.was, None}
          /\ \A f \in Folders \ {applied.kept} : folders'[f] = folders[f]
      BY <1>6, <2>1, <2>3, KeptCarries DEF OfPrevious
    <3>. QED
      BY <1>1, <2>1, <3>1 DEF WalsApart
  <2>. QED
    BY <2>2, <2>3
<1>7. CASE ForgetApplied
  <2>1. /\ applied' = None /\ UNCHANGED <<live, folders>> /\ applied # None /\ pending = None
        /\ at \in {"forgetApplied", "close"}
    BY <1>1, <1>7 DEF ForgetApplied, Step, files
  <2>2. CASE at = "close"
    <3>1. live.db = applied.copy
      BY <2>1, <2>2 DEF SwapInv, SwapInFlight, Trusted, OfCopy
    <3>. QED
      BY <1>1, <2>1, <3>1 DEF WalsApart
  <2>3. CASE at = "forgetApplied"
    <3>1. live.db = applied.was
      BY <2>1, <2>3 DEF SwapInv, SwapInFlight, OfPrevious, Whole, Shopful
    <3>2. Kept.wal = None
      BY <2>1, <2>3 DEF WalsApart, Gone
    <3>. QED
      BY <1>1, <2>1, <3>1, <3>2 DEF WalsApart, Kept
  <2>. QED
    BY <2>1, <2>2, <2>3
<1>8. CASE TryAgain
  <2>1. /\ applied # None /\ memory.record = applied /\ pending = None /\ at = "decide"
        /\ at' = "place" /\ UNCHANGED <<live, folders, pending>>
    BY <1>1, <1>8 DEF TryAgain, Counted, Step, BootSteps, files, staged
  <2>2. applied'.kept = applied.kept /\ applied'.was = applied.was /\ applied'.copy = applied.copy
        /\ applied' # None
    BY <1>8, <2>1, AttemptIsRecorded, NoneIsNoRecord
    DEF TryAgain, Counted, TypeOK, AppliedRecords
  <2>. QED
    BY <2>1, <2>2 DEF WalsApart, OfCopy
<1>9. CASE Serve \/ ServeFails \/ Stop
  <2>1. /\ UNCHANGED <<folders, pending>> /\ live'.db = live.db
        /\ live'.wal \in {live.wal, live.db, None}
        /\ at \in {"serve", "up"} /\ at' \in {"up", "confirm", "off"}
    BY <1>1, <1>9 DEF Serve, ServeFails, Stop, Step, staged, LivePlaces
  <2>2. /\ applied = None => applied' = None
        /\ applied # None => /\ applied' # None /\ applied'.kept = applied.kept
                             /\ applied'.was = applied.was /\ applied'.copy = applied.copy
    BY <1>1, <1>9, NoneIsNoRecord
    DEF Serve, ServeFails, Stop, Step, records, BootSteps, AppliedRecords
  <2>. QED
    BY <1>1, <2>1, <2>2 DEF WalsApart, OfCopy
<1>10. CASE Place
  <2>1. live' = live
    BY <1>1, <1>2, <1>10 DEF Place, Step, SwapInv, SwapInFlight, Trusted
  <2>. QED
    BY <1>1, <1>10, <2>1, WalsFrame DEF Place, Step, staged, records
<1>11. ASSUME NEW f \in Folders, Record(f) PROVE WalsApart'
  <2>1. /\ applied = None /\ pending # None /\ live.db # None
        /\ applied'.kept = f /\ applied'.was = live.db /\ applied' # None
        /\ applied'.copy = pending /\ pending \in Copies
        /\ UNCHANGED <<live, folders, pending>> /\ at' = "swap"
    BY <1>1, <1>2, <1>11, RestoreIsRecorded, NoneIsNoRecord
    DEF Record, AsChecked, Step, files, staged, AppliedRecords
  <2>2. live.db # pending /\ \A g \in Folders : folders[g].wal # pending
    BY <2>1 DEF Fresh, Used
  <2>. QED
    BY <2>1, <2>2 DEF WalsApart
<1>12. ASSUME NEW f \in Folders, Undo(f) PROVE WalsApart'
  <2>1. /\ \A g \in Folders : folders'[g].wal = folders[g].wal
        /\ UNCHANGED <<live, applied, pending>> /\ at = "undo" /\ at' = "toFailed"
    BY <1>1, <1>12 DEF Undo, Step, staged, records, Places
  <2>. QED
    BY <1>1, <2>1 DEF WalsApart, OfCopy
<1>13. CASE Tidy
  <2>1. /\ applied = None /\ applied' = None /\ UNCHANGED live
        /\ \A g \in Folders : folders'[g] \in {folders[g], Unused}
    BY <1>1, <1>13 DEF Tidy, Untidy, Step, files, records
  <2>. QED
    BY <1>2, <2>1 DEF WalsApart, Unused
<1>14. CASE Cut
  <2>1. at \in HalfBackSteps => Gone(live)
    BY <1>14 DEF Cut, HalfBack
  <2>. QED
    BY <1>14, <2>1, WalsFrame DEF Cut, files, staged, records
<1>20. CASE Disturb
  BY <1>20, DisturbLeaves, WalsFrame
<1>15. CASE ShopStep /\ ~Stop
  <2>1. applied = None /\ UNCHANGED <<live, folders, applied>> /\ at' = at /\ at = "up"
    BY <1>1, <1>15
    DEF ShopStep, BeginStaging, PlaceCopy, Describe, StagingFails, Staging, AskApply,
        AskRefused, WriteApply, Asking, CancelStaged, records, files
  <2>. QED
    BY <2>1, WalsFrame
<1>16. CASE Refuse \/ RemoveStaged
  <2>1. /\ UNCHANGED <<live, folders, applied>> /\ at \in {"judge", "clear", "forget"}
        /\ at' \in {"clear", "forget", "place"} /\ (at = "forget" => pending' = pending)
    BY <1>16 DEF Refuse, RemoveStaged, Step, files, records
  <2>. QED
    BY <1>1, <2>1, WalsFrame
<1>17. CASE Boot \/ SwapDone \/ GiveUp \/ Confirm
  BY <1>17, WalsFrame
  DEF Boot, Start, SwapDone, AfterSwap, GiveUp, Confirm, Step, files, staged, records
<1>18. CASE Report
  <2>1. /\ UNCHANGED <<live, folders, applied, pending>> /\ at = "report" /\ at' = "forgetApplied"
    BY <1>18 DEF Report, Step, files, staged
  <2>2. Kept' = Kept
    BY <2>1 DEF Kept
  <2>. QED
    BY <1>1, <2>1, <2>2 DEF WalsApart, Gone
<1>19. CASE UNCHANGED vars
  BY <1>19, WalsFrame DEF vars, files, staged, records
<1>. QED
  BY <1>3, <1>4, <1>5, <1>6, <1>7, <1>8, <1>9, <1>10, <1>11, <1>12, <1>13, <1>14, <1>15, <1>16,
     <1>17, <1>18, <1>19, <1>20 DEF Next, BootStep, ShopStep

\* However often a restore is cut and resumed: a start opens a copy as it was checked,
\* or one changed while a cut held up its swap; never beside another database's WAL,
\* unless a cut fell in the torn window; MAX_RESTORED_BOOTS times at most; and what is
\* reported as done is the copy the shop runs on, its predecessor whole where the
\* report says.
THEOREM RestoresAreClean == Spec => []SwapIsClean
<1>. DEFINE IInv == TypeOK /\ Stages /\ Checked /\ Interrupted /\ Attempts /\ SwapInv /\ Fresh
                      /\ WholeUnlessTorn /\ WalsApartUnlessTorn
<1>1. Init => IInv
  <2>. SUFFICES ASSUME Init PROVE Attempts /\ SwapInv /\ Fresh /\ WholeUnlessTorn /\ WalsApartUnlessTorn
    BY InitTyped, InitStaged, InitChecked
  <2>1. /\ live.db = Shop /\ live.wal = None /\ Shop # None
        /\ \A f \in Folders : folders[f].db = None /\ folders[f].wal = None
    BY RestoreSwapAssumption DEF Init, Unused
  <2>2. Attempts
    BY RestoreSwapAssumption DEF Init, Attempts, BootsAreCounted
  <2>3. SwapInv
    BY DEF Init, SwapInv, SwapInFlight, Reported, Whose
  <2>4. Fresh
    BY <2>1, Distinct, RestoreSwapAssumption DEF Init, Fresh, Used, Copies
  <2>5. WholeUnlessTorn
    BY RestoreSwapAssumption DEF Init, WholeUnlessTorn, Whole, Shopful
  <2>6. WalsApartUnlessTorn
    BY <2>1 DEF Init, WalsApartUnlessTorn, WalsApart
  <2>. QED
    BY <2>2, <2>3, <2>4, <2>5, <2>6
<1>2. IInv /\ [Next]_vars => IInv'
  <2>. SUFFICES ASSUME IInv, [Next]_vars PROVE IInv'
    OBVIOUS
  <2>1. /\ TypeOK' /\ Stages' /\ Checked' /\ Interrupted' /\ Attempts' /\ SwapInv' /\ Fresh'
        /\ WholeUnlessTorn'
    BY StepTyped, CheckedStep, InterruptedStep, AttemptStep, SwapStep, FreshStep, WholeStep
  <2>2. torn => torn'
    BY DEF Next, BootStep, ShopStep, vars, ghosts, Boot, Start, Refuse, RemoveStaged, SwapDone,
         MoveAside, MoveIn, GiveUp, TryAgain, Counted, ToFailed, FromKept, Report, ForgetApplied,
         Tidy, Place, Serve, ServeFails, Confirm, Record, Undo, Stop, BeginStaging, PlaceCopy,
         Describe, StagingFails, Staging, AskApply, AskRefused, WriteApply, Asking, CancelStaged, Disturb, Cut
  <2>3. WalsApartUnlessTorn'
    BY <2>2, WalsStep DEF WalsApartUnlessTorn, WholeUnlessTorn
  <2>. QED
    BY <2>1, <2>3
<1>3. IInv => SwapIsClean
  <2>. SUFFICES ASSUME IInv PROVE WalFollows /\ DoneIsDone
    BY DEF SwapIsClean, Checked, Interrupted, OnlyCheckedIsOpened, Attempts
  <2>0. /\ live \in LivePlaces
        /\ at \in ConfirmSteps \cup {"serve"} /\ applied # None => pending = None
        /\ at \in {"up", "tidy"} => applied = None
        /\ Opened => live.db # None
    BY Knowledge DEF Stages, SwapSteps, ConfirmSteps
  <2>1. ASSUME ~torn, Opened
        PROVE  live.wal \in {None, live.db} /\ \A f \in Folders : folders[f].wal # live.db
    <3>1. CASE applied = None
      BY <2>0, <2>1, <3>1 DEF SwapInv, Whose, WalsApartUnlessTorn, WalsApart
    <3>2. CASE applied # None
      <4>1. Trusted /\ pending = None
        BY <2>0, <2>1, <3>2 DEF Trusted, Opened, ConfirmSteps
      <4>2. OfCopy(live) /\ live.db # None
        BY <3>2, <4>1 DEF SwapInv, SwapInFlight
      <4>. QED
        BY <2>1, <3>2, <4>2 DEF OfCopy, WalsApartUnlessTorn, WalsApart
    <3>. QED
      BY <3>1, <3>2
  <2>2. DoneIsDone
    BY <2>0 DEF DoneIsDone, SwapInv, Reported, Whose
  <2>. QED
    BY <2>1, <2>2 DEF WalFollows
<1>. QED
  BY <1>1, <1>2, <1>3, PTL DEF Spec
=============================================================================
