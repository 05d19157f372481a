------------------------------ MODULE Backups -------------------------------
(***************************************************************************)
(* Backups: the key and its ceremony, the nightly and every-N-sales        *)
(* schedule, a run under the one lock (snapshot, archive, one copy per     *)
(* destination, retention, the row it leaves), the restore test, and the   *)
(* safety copy before a restore.                                           *)
(*                                                                         *)
(* The database is the number of writes it has committed.  Destinations    *)
(* come and go, Drive's grant with them; the process may end at any step,  *)
(* and a file may refuse to be removed.  An archive is named after the     *)
(* clock, which somebody may set back.                                     *)
(***************************************************************************)
EXTENDS Integers, Sequences, FiniteSets

CONSTANTS
    Scheduler, Managers,   \* who starts a run
    Keys,
    None,
    Keep,          \* BACKUP_KEEP
    EverySales,    \* BACKUP_EVERY_TRANSACTIONS
    UsbDir,        \* whether BACKUP_USB_DIR is set
    MaxWrites, MaxFaults, MaxClock   \* bounds

Actors == {Scheduler} \cup Managers

ASSUME BackupAssumption ==
    /\ Scheduler \notin Managers /\ None \notin Keys
    /\ {Keep, EverySales} \subseteq Nat \ {0} /\ UsbDir \in BOOLEAN
    /\ {MaxWrites, MaxFaults, MaxClock} \subseteq Nat

VARIABLES
    clock,       \* in units within which archives are named in the order they are made
    writes,      \* writes committed to the database
    latest,      \* the time of the latest BACKUP_COMPLETED row
    since,       \* of the writes, sales dated after that row
    slotOpen,    \* the latest daily slot is not covered by a success
    resting,     \* the last attempt did not complete, and is recent
    key, confirmed,   \* BACKUP_KEY; keys with a BACKUP_KEY_CONFIRMED row
    copies,      \* what each destination lists, the latest name first
    grant,       \* Drive: "none", "live", or "dead" at Google
    locked,      \* inFlight
    staging,     \* what the scratch directory holds: snapshot.db, and archives
    run,         \* what each actor is doing
    request,     \* the restore request: the state its undo must hold
    promised,    \* history: the state the last BACKUP_COMPLETED row stands for
    unswept,     \* history: clearings of the scratch directory in a row that left something
    faults

scheduleVars == <<clock, latest, since, slotOpen, resting>>
keyVars == <<key, confirmed>>
scratch == <<staging, unswept>>
vars == <<writes, scheduleVars, keyVars, copies, grant, locked, scratch, run, request,
          promised, faults>>

\* resolveDestinations: the local directory, the USB disk if there is to be one, and
\* Drive when connected.
PlaceNames == {"local", "usb", "drive"}
Destinations(connected) ==
    <<"local">> \o (IF UsbDir THEN <<"usb">> ELSE <<>>)
                \o (IF connected THEN <<"drive">> ELSE <<>>)

Idle == [kind |-> None, stage |-> "idle", named |-> 0, from |-> 0, key |-> None, holds |-> 0,
         todo |-> <<>>, landed |-> <<>>]
Cleared == [snapshot |-> None, archives |-> 0]
Archives == [named : 0..MaxClock, holds : 0..MaxWrites, key : Keys, whole : BOOLEAN]

\* A state that a copy stands for, and whether the clock was behind the copies listed.
Assurances == [from : 0..MaxWrites, late : BOOLEAN]

TypeOK ==
    /\ {clock, latest} \subseteq 0..MaxClock /\ {writes, since} \subseteq 0..MaxWrites
    /\ slotOpen \in BOOLEAN /\ resting \in BOOLEAN /\ locked \in BOOLEAN
    /\ key \in Keys \cup {None} /\ confirmed \subseteq Keys
    /\ \A place \in PlaceNames : \A i \in DOMAIN copies[place] : copies[place][i] \in Archives
    /\ grant \in {"none", "live", "dead"}
    /\ staging \in [snapshot : 0..MaxWrites \cup {None}, archives : Nat]
    /\ \A p \in Actors :
          /\ run[p].kind \in {"backup", "verify", "safety", None}
          /\ run[p].stage \in {"idle", "gate", "sentinel", "snapshot", "archive", "copy", "put",
                               "record", "fetch"}
    /\ {request, promised} \subseteq Assurances \cup {None}
    /\ unswept \in Nat /\ faults \in 0..MaxFaults

Init ==
    /\ clock = 0 /\ latest = 0 /\ writes = 0 /\ since = 0 /\ slotOpen = TRUE /\ resting = FALSE
    /\ key = None /\ confirmed = {}
    /\ copies = [place \in PlaceNames |-> <<>>]
    /\ grant = "none" /\ locked = FALSE /\ staging = Cleared
    /\ run = [p \in Actors |-> Idle]
    /\ request = None /\ promised = None /\ unswept = 0 /\ faults = 0

Fault == faults < MaxFaults /\ faults' = faults + 1

-----------------------------------------------------------------------------
\* The key ceremony.
GenerateKey ==
    /\ key = None
    /\ key' \in Keys
    /\ UNCHANGED <<writes, scheduleVars, confirmed, copies, grant, locked, scratch, run, request,
                   promised, faults>>

\* The key typed back.
ConfirmKey ==
    /\ key # None /\ key \notin confirmed
    /\ confirmed' = confirmed \cup {key}
    /\ UNCHANGED <<writes, scheduleVars, key, copies, grant, locked, scratch, run, request,
                   promised, faults>>

\* assertBackupsEnabled: the confirmation is bound to the key in use.
Enabled == key # None /\ key \in confirmed

-----------------------------------------------------------------------------

NoRunInFlight == ~locked

Start(p, kind) ==
    /\ run[p].stage = "idle" /\ NoRunInFlight
    /\ locked' = TRUE
    /\ run' = [run EXCEPT ![p] = [Idle EXCEPT !.kind = kind, !.stage = "gate",
                                              !.named = clock, !.from = writes,
                                              !.todo = Destinations(grant # "none")]]

Press(p, kind) ==
    /\ p \in Managers
    /\ Start(p, kind)
    /\ UNCHANGED <<writes, scheduleVars, keyVars, copies, grant, scratch, request, promised, faults>>

\* decide: what is owed, unless the last attempt failed a moment ago.
Due == (slotOpen \/ since >= EverySales) /\ ~resting

Tick ==
    /\ Enabled /\ Due
    /\ Start(Scheduler, "backup")
    /\ UNCHANGED <<writes, scheduleVars, keyVars, copies, grant, scratch, request, promised, faults>>

\* A tick that finds a run in flight leaves a BACKUP_SKIPPED row, due or not.
Skip ==
    /\ Enabled /\ locked
    /\ resting' = TRUE
    /\ UNCHANGED <<writes, clock, latest, since, slotOpen, keyVars, copies, grant, locked, scratch, run, request,
                   promised, faults>>

\* A slip: nothing lets go of the lock.
Hold == locked

\* withBackupLock's finally.
Release == FALSE

Ends(p) ==
    /\ run' = [run EXCEPT ![p] = Idle]
    /\ locked' = Release

\* The gate refuses, or the staging directory cannot be made: no row is left.
Refuse(p) ==
    /\ run[p].stage = "gate"
    /\ \/ ~Enabled /\ UNCHANGED faults
       \/ Fault
    /\ Ends(p)
    /\ UNCHANGED <<writes, scheduleVars, keyVars, copies, grant, scratch, request, promised>>

\* A restore test writes its sentinel before the backup it tests.
WriteSentinel(p) ==
    /\ run[p].stage = "gate" /\ run[p].kind = "verify" /\ Enabled
    /\ writes' = IF writes < MaxWrites THEN writes + 1 ELSE writes
    /\ run' = [run EXCEPT ![p].stage = "sentinel", ![p].from = writes']
    /\ UNCHANGED <<scheduleVars, keyVars, copies, grant, locked, scratch, request, promised, faults>>

\* A slip: only the last run's snapshot is deleted.
DropSnapshot == [staging EXCEPT !.snapshot = None]

\* prepareStaging: whatever an interrupted run left goes.
Sweep == Cleared

\* Of what is there, a file that is locked stays, and the run carries on.
Leftovers == [snapshot : {staging.snapshot, None}, archives : 0..staging.archives] \ {Cleared}

Prepare(p) ==
    /\ run[p].stage = IF run[p].kind = "verify" THEN "sentinel" ELSE "gate"
    /\ Enabled
    /\ \/ staging' = Sweep /\ unswept' = 0 /\ UNCHANGED faults
       \/ staging' \in Leftovers /\ unswept' = unswept + 1 /\ Fault
    /\ run' = [run EXCEPT ![p].stage = "snapshot", ![p].key = key]
    /\ UNCHANGED <<writes, scheduleVars, keyVars, copies, grant, locked, request, promised>>

\* VACUUM INTO, once a snapshot that is there is removed.
Snapshot == writes

TakeSnapshot(p) ==
    /\ run[p].stage = "snapshot"
    /\ staging' = [staging EXCEPT !.snapshot = Snapshot]
    /\ run' = [run EXCEPT ![p].stage = "archive"]
    /\ UNCHANGED <<writes, scheduleVars, keyVars, copies, grant, locked, unswept, request, promised,
                   faults>>

\* The archive is sealed with the key read at the gate; the snapshot goes.
WriteArchive(p) ==
    /\ run[p].stage = "archive" /\ staging.snapshot # None
    /\ staging' = [snapshot |-> None, archives |-> staging.archives + 1]
    /\ run' = [run EXCEPT ![p].stage = "copy", ![p].holds = staging.snapshot]
    /\ UNCHANGED <<writes, scheduleVars, keyVars, copies, grant, locked, unswept, request, promised,
                   faults>>

\* The archives there may be when a step of p ends halfway: with a part of its own, or
\* with the copy that a restore test fetched.
Halfway(p) ==
    staging.archives..staging.archives + (IF run[p].stage \in {"archive", "fetch"} THEN 1 ELSE 0)

\* No room, a disk error, or a snapshot that is gone or cannot be removed: recorded,
\* and thrown.  What is there is removed, unless the disk refuses that as well.
Break(p) ==
    /\ run[p].stage \in {"snapshot", "archive"}
    /\ \/ Fault /\ staging' \in [snapshot : {staging.snapshot, None}, archives : Halfway(p)]
       \/ /\ run[p].stage = "archive" /\ staging.snapshot = None
          /\ UNCHANGED <<staging, faults>>
    /\ resting' = TRUE
    /\ Ends(p)
    /\ UNCHANGED <<writes, clock, latest, since, slotOpen, keyVars, copies, grant, unswept, request,
                   promised>>

-----------------------------------------------------------------------------
Place(p) == Head(run[p].todo)
Archive(p, whole) ==
    [named |-> run[p].named, holds |-> run[p].holds, key |-> run[p].key, whole |-> whole]

\* A slip: the copy is made under its final name.
InPlace(p) == [copies EXCEPT ![Place(p)] = <<Archive(p, FALSE)>> \o @]

\* The copy is made under another name, which nothing lists.
Aside(p) == copies

BeginCopy(p) ==
    /\ run[p].stage = "copy" /\ run[p].todo # <<>>
    /\ copies' = Aside(p)
    /\ run' = [run EXCEPT ![p].stage = "put"]
    /\ UNCHANGED <<writes, scheduleVars, keyVars, grant, locked, scratch, request, promised, faults>>

\* list: where an archive comes in the order of the names.
Positions(list, new) ==
    {i \in 1..Len(list) + 1 : \A j \in DOMAIN list : j < i <=> list[j].named > new.named}

Filed(list, new) ==
    {SubSeq(list, 1, i - 1) \o <<new>> \o SubSeq(list, i, Len(list)) : i \in Positions(list, new)}

\* prune.
KeepNewest(list) == SubSeq(list, 1, IF Len(list) > Keep THEN Keep ELSE Len(list))

\* The newest stay, and of those to be removed all or the last ones.
Spared(list) == {KeepNewest(list) \o SubSeq(list, i, Len(list)) : i \in Keep + 1..Len(list)}

\* Renamed into place, or finished at Google: with the grant of the start, which
\* may be disconnected here and still good there.
EndCopy(p) ==
    /\ run[p].stage = "put"
    /\ Place(p) = "drive" => grant # "dead"
    /\ \E list \in Filed(copies[Place(p)], Archive(p, TRUE)) :
          copies' = [copies EXCEPT ![Place(p)] = KeepNewest(list)]
    /\ run' = [run EXCEPT ![p].stage = "copy", ![p].todo = Tail(@), ![p].landed = Append(@, Place(p))]
    /\ UNCHANGED <<writes, scheduleVars, keyVars, grant, locked, scratch, request, promised, faults>>

\* The copy arrived, and the older ones cannot be listed or removed: the destination
\* counts as failed, but Drive passes over a removal that was refused.
PruneFails(p) ==
    /\ run[p].stage = "put"
    /\ Place(p) = "drive" => grant # "dead"
    /\ Fault
    /\ \E list \in Filed(copies[Place(p)], Archive(p, TRUE)) :
          \E left \in Spared(list) \cup {list} : copies' = [copies EXCEPT ![Place(p)] = left]
    /\ \E landed \in {run[p].landed} \cup
                      (IF Place(p) = "drive" THEN {Append(run[p].landed, "drive")} ELSE {}) :
          run' = [run EXCEPT ![p].stage = "copy", ![p].todo = Tail(@), ![p].landed = landed]
    /\ UNCHANGED <<writes, scheduleVars, keyVars, grant, locked, scratch, request, promised>>

\* Unplugged, full, offline, revoked, not licensed: this destination alone reports it.
CopyFails(p) ==
    /\ run[p].stage \in {"copy", "put"} /\ run[p].todo # <<>>
    /\ IF Place(p) = "drive" /\ grant # "live" THEN UNCHANGED faults ELSE Fault
    /\ run' = [run EXCEPT ![p].stage = "copy", ![p].todo = Tail(@)]
    /\ UNCHANGED <<writes, scheduleVars, keyVars, copies, grant, locked, scratch, request, promised>>

Ok(p) == run[p].landed # <<>>

\* Wherever the archive landed, the clock was behind one that is listed there.
Late(p) ==
    \A i \in DOMAIN run[p].landed :
        \E j \in DOMAIN copies[run[p].landed[i]] :
            copies[run[p].landed[i]][j].named > run[p].named

\* The row that the schedule, reading the latest by its time, goes by.
RecordSuccess(p) ==
    /\ latest' = IF clock < latest THEN latest ELSE clock
    /\ since' = IF clock < latest THEN since ELSE 0
    /\ slotOpen' = FALSE /\ resting' = FALSE
    /\ promised' = [from |-> run[p].from, late |-> Late(p)]

\* The row, the clean-up and, unless a restore test goes on, the lock.  A restore
\* is requested only behind a copy of the present, and not if the clean-up throws.
Record(p) ==
    /\ run[p].stage = "copy" /\ run[p].todo = <<>>
    /\ IF Ok(p)
         THEN RecordSuccess(p)
         ELSE resting' = TRUE /\ UNCHANGED <<latest, since, slotOpen, promised>>
    /\ \/ /\ staging' = [staging EXCEPT !.archives = @ - 1] /\ UNCHANGED faults
          /\ request' = IF Ok(p) /\ run[p].kind = "safety" THEN promised' ELSE request
          /\ IF Ok(p) /\ run[p].kind = "verify"
               THEN run' = [run EXCEPT ![p].stage = "fetch"] /\ UNCHANGED locked
               ELSE Ends(p)
       \/ Fault /\ Ends(p) /\ UNCHANGED <<staging, request>>
    /\ UNCHANGED <<writes, clock, keyVars, copies, grant, unswept>>

\* The copy comes back from the first destination it reached, if it is there.  Passed
\* or failed goes to the trail; the schedule reads neither.
Verify(p) ==
    /\ run[p].stage = "fetch"
    /\ Ends(p)
    /\ \/ UNCHANGED <<staging, faults>>
       \/ Fault /\ staging' = [staging EXCEPT !.archives = @ + 1]
    /\ UNCHANGED <<writes, scheduleVars, keyVars, copies, grant, unswept, request, promised>>
-----------------------------------------------------------------------------
\* Counted from the latest row on, by its time.
Sale ==
    /\ writes < MaxWrites
    /\ writes' = writes + 1 /\ since' = IF clock < latest THEN since ELSE since + 1
    /\ UNCHANGED <<clock, latest, slotOpen, resting, keyVars, copies, grant, locked, scratch, run,
                   request, promised, faults>>

\* The daily time comes round, or RETRY_AFTER_MS has passed.
SlotComes ==
    /\ ~slotOpen /\ clock >= latest /\ slotOpen' = TRUE
    /\ UNCHANGED <<writes, clock, latest, since, resting, keyVars, copies, grant, locked, scratch, run,
                   request, promised, faults>>

RestEnds ==
    /\ resting /\ resting' = FALSE
    /\ UNCHANGED <<writes, clock, latest, since, slotOpen, keyVars, copies, grant, locked, scratch, run,
                   request, promised, faults>>

\* Time passes, or somebody sets the clock back: to before the row that covers the
\* slot, perhaps.
ClockMoves ==
    /\ \/ clock' = clock + 1 /\ UNCHANGED <<slotOpen, faults>>
       \/ clock' = clock - 1 /\ Fault /\ slotOpen' = (slotOpen /\ latest < clock)
    /\ clock' \in 0..MaxClock
    /\ UNCHANGED <<writes, latest, since, resting, keyVars, copies, grant, locked, scratch, run,
                   request, promised>>

\* Consent, a revocation at Google, «فصل الحساب».
GrantChanges ==
    /\ grant' \in (IF grant = "none" THEN {"live"} ELSE {"none", "live", "dead"} \ {grant})
    /\ Fault
    /\ UNCHANGED <<writes, scheduleVars, keyVars, copies, locked, scratch, run, request, promised>>

\* A cut; and the key in the environment file may be another one at the next start.
Crash ==
    /\ Fault
    /\ \E p \in Actors : \E n \in Halfway(p) : staging' = [staging EXCEPT !.archives = n]
    /\ run' = [p \in Actors |-> Idle] /\ locked' = FALSE
    /\ key' \in {key} \cup (IF key = None THEN {} ELSE Keys)
    /\ UNCHANGED <<writes, scheduleVars, confirmed, copies, grant, unswept, request, promised>>

Step(p) ==
    \/ Refuse(p) \/ WriteSentinel(p) \/ Prepare(p)
    \/ TakeSnapshot(p) \/ WriteArchive(p) \/ Break(p)
    \/ BeginCopy(p) \/ EndCopy(p) \/ PruneFails(p) \/ CopyFails(p)
    \/ Record(p) \/ Verify(p)

Next ==
    \/ GenerateKey \/ ConfirmKey
    \/ \E p \in Managers, kind \in {"backup", "verify", "safety"} : Press(p, kind)
    \/ Tick \/ Skip
    \/ \E p \in Actors : Step(p)
    \/ Sale \/ SlotComes \/ RestEnds \/ ClockMoves \/ GrantChanges \/ Crash

\* The ticks keep coming, a run that can go on does, and time passes.
Spec ==
    /\ Init /\ [][Next]_vars
    /\ WF_vars(Tick) /\ WF_vars(RestEnds)
    /\ \A p \in Actors : WF_vars(Step(p))

-----------------------------------------------------------------------------
Listed(place) == {copies[place][i] : i \in DOMAIN copies[place]}
Kept(n) == \E place \in PlaceNames : \E copy \in Listed(place) : copy.whole /\ copy.holds >= n

(* What runs leave behind never piles up by itself: the scratch directory   *)
(* holds one archive at most for the run that left it and one for each      *)
(* clearing since then that a locked file got in the way of, however many   *)
(* runs fail, are cut or cannot remove their own.                           *)
NothingPilesUp == staging.archives <= 1 + unswept
(* Both hold however runs fail, are cut or find the lock taken.            *)
Inv == TypeOK /\ NothingPilesUp

(* Every archive the owner is shown at any destination is whole, and sealed *)
(* with a key typed back once: one he can open without this machine, after  *)
(* a cut in the middle of a copy or a key replaced between two starts.      *)
ListedIsOpenable ==
    \A place \in PlaceNames : \A copy \in Listed(place) : copy.whole /\ copy.key \in confirmed

(* The last BACKUP_COMPLETED row stands for a copy, at some destination,    *)
(* with every write from before the run began; a restore that was let       *)
(* through has the state it replaces in such a copy: whatever later runs    *)
(* and their retention do, with a clock set back or a removal refused.      *)
(* Except a row written behind the clock of a copy listed wherever its own  *)
(* landed (late): by its name that one is older, and retention may have     *)
(* removed it at once.                                                      *)
PromiseIsKept ==
    \A promise \in {promised, request} \ {None} : promise.late \/ Kept(promise.from)

CopiesServe == ListedIsOpenable /\ PromiseIsKept

(* A daily slot that comes round is covered, as long as the key stays       *)
(* confirmed: a failed run, a run in the way and a cut only delay it.       *)
SlotIsCovered == (Enabled /\ slotOpen) ~> (~slotOpen \/ ~Enabled)
=============================================================================
