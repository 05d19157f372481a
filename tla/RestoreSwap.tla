----------------------------- MODULE RestoreSwap -----------------------------
(***************************************************************************)
(* Putting a restored copy in place of the shop's database.                *)
(*                                                                         *)
(* The owner stages a checked copy and confirms it while the service runs. *)
(* The next start moves the live files aside and the copy in, one rename   *)
(* at a time, and closes the restore once it serves, or puts the previous  *)
(* files back.  A power cut, a kill or a rename that throws ends the       *)
(* process at any step; the next start goes by what is on the disk.        *)
(***************************************************************************)
EXTENDS Naturals

CONSTANTS
    MaxCopies,   \* bound: copies fetched, each fetch a file of its own
    MaxFolders,  \* bound: folders beside the database at one time
    MaxBoots,    \* MAX_RESTORED_BOOTS
    MaxCuts,     \* bound: how often the process ends unasked
    Shop,        \* the shop's own database
    Template,    \* the empty database a start installs when it finds none
    Damaged,     \* a staged file changed after it was checked, and before a start looked
    None

Copies == 1 .. MaxCopies
Folders == 1 .. MaxFolders
Databases == Copies \cup {Shop, Template, Damaged}

ASSUME RestoreSwapAssumption ==
    /\ MaxCopies \in Nat /\ MaxFolders \in Nat
    /\ MaxBoots \in Nat \ {0} /\ MaxCuts \in Nat
    /\ Shop \notin {Template, Damaged} /\ Template # Damaged
    /\ {Shop, Template, Damaged} \cap Nat = {}
    /\ None \notin Nat \cup {Shop, Template, Damaged}

VARIABLES
    live,        \* the database file and its WAL
    folders,     \* the before- and failed- folders
    pending,     \* pending.db
    manifest,    \* pending.json: the copy it describes
    apply,       \* apply.json
    applied,     \* applied.json
    result,      \* last-result.json
    at,          \* the step the process is at, "off" when there is none
    memory,      \* this start's record of the restore, and its failed- folder
    work,        \* the staging under way, and the confirmation awaiting a backup
    fetched,     \* how many copies were fetched
    spoilt,      \* history: the copies changed after a start had checked and recorded them
    tries,       \* history: how often the unconfirmed copy was opened
    torn,        \* history: a cut fell while the previous files were half back
    cuts

files == <<live, folders>>
staged == <<pending, manifest, apply>>
records == <<applied, result>>
requests == <<work, fetched>>
ghosts == <<spoilt, tries, torn, cuts>>
vars == <<files, staged, records, at, memory, requests, ghosts>>

(***************************************************************************)
(* Files.  A database is a file and, beside it, perhaps a WAL holding its  *)
(* latest sales: both are known by the database they belong to.  The -shm  *)
(* file holds nothing of its own and is left out.                          *)
(***************************************************************************)
Unused == [kind |-> "unused", db |-> None, wal |-> None]

\* A slip: a place without a database is empty, whatever its WAL.
NoDatabase(place) == place.db = None

Gone(place) == place.db = None /\ place.wal = None

\* moveSet renames the database before its WAL, whatever is there of the two.
Without(place) ==
    IF place.db # None THEN [place EXCEPT !.db = None] ELSE [place EXCEPT !.wal = None]
Plus(place, from) ==
    IF from.db # None THEN [place EXCEPT !.db = from.db] ELSE [place EXCEPT !.wal = from.wal]

AppliedRecords == [kept : Folders, copy : Copies, was : Databases,
                   boots : 1 .. MaxBoots, rollback : BOOLEAN]
Results == [ok : BOOLEAN, copy : Copies \cup {None}, kept : Folders \cup {None}]

ASSUME NoneIsNoRecord == None \notin AppliedRecords \cup Results

SwapSteps == {"swap", "again"}
PutBackSteps == {"undo", "toFailed", "fromKept", "report", "forgetApplied"}
ConfirmSteps == {"confirm", "close", "tidy"}
BootSteps == SwapSteps \cup PutBackSteps \cup ConfirmSteps \cup
             {"judge", "clear", "forget", "decide", "tidyUndo", "place", "serve"}

Idle == [stage |-> "none", asks |-> FALSE]
Forgotten == [record |-> None, failed |-> None]

TypeOK ==
    /\ live \in [db : Databases \cup {None}, wal : Databases \cup {None}]
    /\ folders \in [Folders -> [kind : {"unused", "before", "failed"},
                                db : Databases \cup {None}, wal : Databases \cup {None}]]
    /\ pending \in Copies \cup {Damaged, None}
    /\ manifest \in Copies \cup {None}
    /\ apply \in BOOLEAN
    /\ applied \in AppliedRecords \cup {None}
    /\ result \in Results \cup {None}
    /\ at \in {"off", "up"} \cup BootSteps
    /\ memory \in [record : AppliedRecords \cup {None}, failed : Folders \cup {None}]
    /\ work \in [stage : {"none", "fetching", "checking"}, asks : BOOLEAN]
    /\ fetched \in 0 .. MaxCopies
    /\ spoilt \in SUBSET Copies
    /\ tries \in Nat
    /\ torn \in BOOLEAN
    /\ cuts \in 0 .. MaxCuts

Init ==
    /\ live = [db |-> Shop, wal |-> None]
    /\ folders = [f \in Folders |-> Unused]
    /\ pending = None /\ manifest = None /\ apply = FALSE
    /\ applied = None /\ result = None
    /\ at = "off" /\ memory = Forgotten
    /\ work = Idle /\ fetched = 0
    /\ spoilt = {} /\ tries = 0 /\ torn = FALSE /\ cuts = 0

(***************************************************************************)
(* The running shop.                                                       *)
(***************************************************************************)
\* shutdown folds the WAL into the database, unless a reader lingers.
Stop ==
    /\ at = "up" /\ at' = "off"
    /\ live' \in {live, [live EXCEPT !.wal = None]}
    /\ work' = Idle
    /\ UNCHANGED <<folders, staged, records, memory, fetched, ghosts>>

ClearStaged == pending' = None /\ manifest' = None /\ apply' = FALSE

Staging(from, to) ==
    /\ at = "up"
    /\ work.stage = from
    /\ work' = [work EXCEPT !.stage = to]
    /\ UNCHANGED <<files, records, at, memory, ghosts>>

\* stageRestore: what was staged is forgotten; the copy is fetched, decrypted and
\* brought to this build's schema, and then described.
BeginStaging == Staging("none", "fetching") /\ ClearStaged /\ UNCHANGED fetched

PlaceCopy ==
    /\ Staging("fetching", "checking")
    /\ fetched < MaxCopies
    /\ fetched' = fetched + 1
    /\ pending' = fetched'
    /\ UNCHANGED <<manifest, apply>>

Describe ==
    /\ Staging("checking", "none")
    /\ pending \in Copies
    /\ manifest' = pending
    /\ UNCHANGED <<pending, apply, fetched>>

StagingFails ==
    /\ \E from \in {"fetching", "checking"} : Staging(from, "none")
    /\ ClearStaged /\ UNCHANGED fetched

\* A slip: a staged file is enough.
Present == manifest # None /\ pending # None

AsChecked == manifest # None /\ pending = manifest

Asking(from, to) ==
    /\ at = "up"
    /\ work.asks = from
    /\ work' = [work EXCEPT !.asks = to]
    /\ UNCHANGED <<files, records, at, memory, fetched, ghosts>>

\* requestApply finds the staged copy as it was checked, and awaits a backup of
\* the present; a copy that has changed is forgotten.
AskApply == Asking(FALSE, TRUE) /\ AsChecked /\ UNCHANGED staged

AskRefused == Asking(FALSE, FALSE) /\ Present /\ ~AsChecked /\ ClearStaged

\* The request is written if the backup succeeds, whatever is staged by now.
WriteApply ==
    /\ Asking(TRUE, FALSE)
    /\ apply' \in {apply, TRUE}
    /\ UNCHANGED <<pending, manifest>>

CancelStaged ==
    /\ at = "up"
    /\ pending # None
    /\ ClearStaged
    /\ UNCHANGED <<files, records, at, memory, requests, ghosts>>

\* Something changes the staged file: while the service runs or while it is off, and
\* there also between a swap that was cut and the start that goes on with it, which
\* does not hash the file again.  Such a copy keeps its name and is spoilt.
Disturb ==
    /\ at \in {"up", "off"}
    /\ pending # None
    /\ IF applied = None
       THEN pending' = Damaged /\ UNCHANGED spoilt
       ELSE spoilt' = spoilt \cup {pending} /\ UNCHANGED pending
    /\ UNCHANGED <<files, manifest, apply, records, at, memory, requests, tries, torn, cuts>>

(***************************************************************************)
(* A start: applyStagedRestore.                                            *)
(***************************************************************************)
Step(here, next) == at = here /\ at' = next

Start ==
    /\ Step("off", IF applied # None THEN "again" ELSE IF apply THEN "judge" ELSE "place")
    /\ memory' = [Forgotten EXCEPT !.record = applied]
    /\ UNCHANGED <<files, staged, records, requests, ghosts>>

\* A slip: a start that finds no database ends at once.
BootWhole == (Start /\ live.db # None) \/ (at = "off" /\ live.db = None /\ UNCHANGED vars)

\* A slip: the request is looked at before the restore in flight.
BootByRequest ==
    /\ Step("off", IF apply THEN "judge" ELSE IF applied # None THEN "again" ELSE "place")
    /\ memory' = [Forgotten EXCEPT !.record = applied]
    /\ UNCHANGED <<files, staged, records, requests, ghosts>>

\* applied.json comes first: an earlier start has not finished its restore.
Boot == Start

\* A name no folder has, nor any the record at hand gives out.
FreeNames(named) == {f \in Folders \ named : folders[f] = Unused}
Free(f, named) == f \in FreeNames(named) /\ \A g \in FreeNames(named) : f <= g

\* What is about to happen is written down before the first rename.
Record(f) ==
    /\ Step("judge", "swap")
    /\ AsChecked
    /\ Free(f, {})
    /\ applied' = [kept |-> f, copy |-> manifest, was |-> live.db, boots |-> 1,
                   rollback |-> FALSE]
    /\ memory' = [memory EXCEPT !.record = applied']
    /\ tries' = 0
    /\ UNCHANGED <<files, staged, result, requests, spoilt, torn, cuts>>

\* A staged file that is missing or changed is recorded as a failed restore.
Refuse ==
    /\ Step("judge", "clear")
    /\ ~AsChecked
    /\ result' = [ok |-> FALSE, copy |-> manifest, kept |-> None]
    /\ UNCHANGED <<files, staged, applied, memory, requests, ghosts>>

\* clearStaged after a refusal, and the two removals after a swap: one file at
\* a time, apply.json last in the one and first in the other.
RemoveStaged ==
    /\ \/ /\ at = "clear" /\ pending # None
          /\ pending' = None /\ UNCHANGED <<manifest, apply, at>>
       \/ /\ at = "clear" /\ pending = None /\ manifest # None
          /\ manifest' = None /\ UNCHANGED <<pending, apply, at>>
       \/ /\ Step("clear", "place") /\ pending = None /\ manifest = None
          /\ apply' = FALSE /\ UNCHANGED <<pending, manifest>>
       \/ /\ at = "forget" /\ apply
          /\ apply' = FALSE /\ UNCHANGED <<pending, manifest, at>>
       \/ /\ Step("forget", "place") /\ ~apply
          /\ manifest' = None /\ UNCHANGED <<pending, apply>>
    /\ UNCHANGED <<files, records, memory, requests, ghosts>>

AfterSwap == IF at = "swap" THEN "forget" ELSE "decide"

\* swapIn: nothing is left to do once the staged file has moved in.
SwapDone ==
    /\ Step("again", AfterSwap)
    /\ pending = None
    /\ UNCHANGED <<files, staged, records, memory, requests, ghosts>>

MoveAside ==
    /\ at \in SwapSteps
    /\ pending # None /\ ~Gone(live)
    /\ folders' = [folders EXCEPT ![memory.record.kept] =
                       [Plus(@, live) EXCEPT !.kind = "before"]]
    /\ live' = Without(live)
    /\ UNCHANGED <<staged, records, at, memory, requests, ghosts>>

\* A slip: the copy is renamed over what is there.
MoveInOver ==
    /\ at \in SwapSteps /\ at' = AfterSwap
    /\ pending # None
    /\ live' = [live EXCEPT !.db = pending]
    /\ pending' = None
    /\ UNCHANGED <<folders, manifest, apply, records, memory, requests, ghosts>>

MoveIn ==
    /\ at \in SwapSteps /\ at' = AfterSwap
    /\ pending # None /\ Gone(live)
    /\ live' = [live EXCEPT !.db = pending]
    /\ pending' = None
    /\ UNCHANGED <<folders, manifest, apply, records, memory, requests, ghosts>>

(***************************************************************************)
(* An unconfirmed restore is rolled back when a start on it failed, or     *)
(* after MAX_RESTORED_BOOTS of them; otherwise it is tried again.          *)
(***************************************************************************)
Hopeless == memory.record.rollback \/ memory.record.boots + 1 > MaxBoots

GiveUp ==
    /\ Step("decide", "undo")
    /\ Hopeless
    /\ UNCHANGED <<files, staged, records, memory, requests, ghosts>>

Counted(boots) ==
    /\ Step("decide", "place")
    /\ ~Hopeless
    /\ applied' = [memory.record EXCEPT !.boots = boots]
    /\ memory' = [memory EXCEPT !.record = applied']
    /\ UNCHANGED <<files, staged, result, requests, ghosts>>

TryAgain == Counted(memory.record.boots + 1)

(***************************************************************************)
(* rollbackRestore.                                                        *)
(***************************************************************************)
Undo(f) ==
    /\ Step("undo", "toFailed")
    /\ Free(f, {memory.record.kept})
    /\ folders' = [folders EXCEPT ![f].kind = "failed"]
    /\ memory' = [memory EXCEPT !.failed = f]
    /\ UNCHANGED <<live, staged, records, requests, ghosts>>

ToFailed ==
    \/ /\ at = "toFailed" /\ ~Gone(live)
       /\ folders' = [folders EXCEPT ![memory.failed] = Plus(@, live)]
       /\ live' = Without(live)
       /\ UNCHANGED <<staged, records, at, memory, requests, ghosts>>
    \/ /\ Step("toFailed", "fromKept") /\ Gone(live)
       /\ UNCHANGED <<files, staged, records, memory, requests, ghosts>>

FromKept ==
    LET kept == folders[memory.record.kept] IN
    \/ /\ at = "fromKept" /\ ~Gone(kept)
       /\ live' = Plus(live, kept)
       /\ folders' = [folders EXCEPT ![memory.record.kept] = Without(@)]
       /\ UNCHANGED <<staged, records, at, memory, requests, ghosts>>
    \/ /\ Step("fromKept", "report") /\ Gone(kept)
       /\ UNCHANGED <<files, staged, records, memory, requests, ghosts>>

Report ==
    /\ Step("report", "forgetApplied")
    /\ result' = [ok |-> FALSE, copy |-> memory.record.copy, kept |-> None]
    /\ UNCHANGED <<files, staged, applied, memory, requests, ghosts>>

ForgetApplied ==
    /\ Step("forgetApplied", "tidyUndo") \/ Step("close", "tidy")
    /\ applied' = None
    /\ UNCHANGED <<files, staged, result, memory, requests, ghosts>>

\* After a rollback, the kept folder if it is empty and every older failed copy;
\* after a restore, every folder but the kept one.
Untidy ==
    {f \in Folders :
        \/ at = "tidyUndo" /\ f = memory.record.kept
              /\ folders[f].kind = "before" /\ Gone(folders[f])
        \/ at = "tidyUndo" /\ f # memory.failed /\ folders[f].kind = "failed"
        \/ at = "tidy" /\ f # memory.record.kept /\ folders[f] # Unused}

Tidy ==
    \/ /\ \E f \in Untidy : folders' = [folders EXCEPT ![f] = Unused]
       /\ UNCHANGED <<live, staged, records, at, memory, requests, ghosts>>
    \/ /\ Untidy = {}
       /\ Step("tidyUndo", "place") \/ Step("tidy", "up")
       /\ memory' = Forgotten
       /\ UNCHANGED <<files, staged, records, requests, ghosts>>

(***************************************************************************)
(* The rest of the start, and confirmRestore once it serves.               *)
(***************************************************************************)
\* installDatabaseTemplateIfAbsent parks a WAL that has no database, and puts the
\* empty template where it finds none.
Place ==
    /\ Step("place", "serve")
    /\ live' = IF live.db = None THEN [db |-> Template, wal |-> None] ELSE live
    /\ tries' = IF memory.record = None THEN tries ELSE tries + 1
    /\ UNCHANGED <<folders, staged, records, memory, requests, spoilt, torn, cuts>>

\* An open database has a WAL, where every committed sale goes first.
Serve ==
    /\ Step("serve", IF memory.record = None THEN "up" ELSE "confirm")
    /\ live' = [live EXCEPT !.wal = live.db]
    /\ UNCHANGED <<folders, staged, records, memory, requests, ghosts>>

\* requestRollback: the next start puts the previous files back.
ServeFails ==
    /\ Step("serve", "off")
    /\ memory.record # None
    /\ live' \in {live, [live EXCEPT !.wal = live.db]}
    /\ applied' = [memory.record EXCEPT !.rollback = TRUE]
    /\ memory' = Forgotten
    /\ UNCHANGED <<folders, staged, result, requests, ghosts>>

Confirm ==
    /\ Step("confirm", "close")
    /\ result' = [ok |-> TRUE, copy |-> memory.record.copy, kept |-> memory.record.kept]
    /\ UNCHANGED <<files, staged, applied, memory, requests, ghosts>>

(***************************************************************************)
(* The power goes, the process is killed, or a rename throws.              *)
(***************************************************************************)
\* The previous files are half back, or back while applied.json still asks for it.
HalfBack == (at = "fromKept" /\ ~Gone(live)) \/ at \in {"report", "forgetApplied"}

Cut ==
    /\ at # "off" /\ at' = "off"
    /\ cuts < MaxCuts /\ cuts' = cuts + 1
    /\ torn' = (torn \/ HalfBack)
    /\ memory' = Forgotten /\ work' = Idle
    /\ UNCHANGED <<files, staged, records, fetched, spoilt, tries>>

BootStep ==
    \/ Boot \/ Refuse \/ RemoveStaged \/ SwapDone \/ MoveAside \/ MoveIn
    \/ GiveUp \/ TryAgain \/ ToFailed \/ FromKept \/ Report \/ ForgetApplied \/ Tidy
    \/ Place \/ Serve \/ ServeFails \/ Confirm
    \/ \E f \in Folders : Record(f) \/ Undo(f)

ShopStep ==
    \/ Stop
    \/ BeginStaging \/ PlaceCopy \/ Describe \/ StagingFails
    \/ AskApply \/ AskRefused \/ WriteApply \/ CancelStaged

Next == BootStep \/ ShopStep \/ Disturb \/ Cut

Spec == Init /\ [][Next]_vars

\* The service host starts the process again whenever it has ended.
FairSpec == Spec /\ WF_vars(BootStep)

(***************************************************************************)
(* Safety.                                                                 *)
(***************************************************************************)
Opened == at \in {"serve", "up"} \cup ConfirmSteps

\* Unless a cut fell while they were half back, no start finds the shop without a
\* database: the empty template is never put in place of one, whatever else is
\* interrupted and however often.
ShopIsKept == ~torn => live.db # Template /\ (Opened => live.db # None)

\* Nor is a database opened beside another's WAL, or while its own, with the
\* latest sales, lies in some folder.
WalFollows ==
    ~torn /\ Opened => /\ live.wal \in {None, live.db}
                       /\ \A f \in Folders : folders[f].wal # live.db

\* An unconfirmed restore is opened at most MAX_RESTORED_BOOTS times.
BootsAreCounted == tries <= MaxBoots

\* A file that has changed since it was staged is refused by the start that looks at
\* it.  One changed later is opened only where a cut left the swap to another start.
OnlyCheckedIsOpened ==
    /\ live.db # Damaged
    /\ live.db \in spoilt => cuts > 0

\* A restore reported as done is the one the shop runs on (its file, spoilt or not),
\* and what it replaced is whole in the folder it names.
DoneIsDone ==
    result # None /\ result.ok /\ at = "up" =>
        /\ live.db = result.copy
        /\ folders[result.kept].kind = "before"
        /\ folders[result.kept].db # None
        /\ folders[result.kept].wal \in {None, folders[result.kept].db}

\* What a restore opens was checked (unless changed while a cut held up the swap) and
\* lies beside no other database's WAL (unless a cut fell in the torn window); it is
\* tried MAX_RESTORED_BOOTS times at most, and reported as done only when both
\* databases are where the report says.
SwapIsClean == OnlyCheckedIsOpened /\ WalFollows /\ BootsAreCounted /\ DoneIsDone

\* While a restore is not confirmed, what it replaced is there to go back to.
PreviousIsKept ==
    applied # None =>
        live.db = applied.was \/ \E f \in Folders : folders[f].db = applied.was

(***************************************************************************)
(* Liveness.                                                               *)
(***************************************************************************)
\* However a start ended, the shop opens again.
ShopReopens == at = "off" ~> at = "up"
=============================================================================
