---------------------------- MODULE BackupsProofs ----------------------------
(***************************************************************************)
(* For any number of managers, keys, writes and mishaps: every archive     *)
(* listed can be opened, and what a success stands for is in one of them.  *)
(*                                                                         *)
(* The lock admits one run, so the scratch directory and the key read at   *)
(* the gate are that run's alone.  A run holds what had been written when  *)
(* it began, which is more than any success before it stands for.  Neither *)
(* retention nor a removal that fails touches the first of a list: a new   *)
(* archive takes its place, and all it stood for, or comes behind it.      *)
(***************************************************************************)
EXTENDS Backups, TLAPS

States == 0..MaxWrites
Stages == {"idle", "gate", "sentinel", "snapshot", "archive", "copy", "put", "record", "fetch"}
Times == 0..MaxClock
Scratch == [snapshot : States \cup {None}, archives : Nat]
Runs == [kind : {"backup", "verify", "safety", None}, stage : Stages, named : Times, from : States,
         key : Keys \cup {None}, holds : States, todo : Seq(PlaceNames), landed : Seq(PlaceNames)]

Values ==
    /\ clock \in Times /\ latest \in Times
    /\ writes \in States /\ since \in 0..writes
    /\ slotOpen \in BOOLEAN /\ resting \in BOOLEAN /\ locked \in BOOLEAN
    /\ key \in Keys \cup {None} /\ confirmed \subseteq Keys
    /\ copies \in [PlaceNames -> Seq(Archives)]
    /\ grant \in {"none", "live", "dead"}
    /\ staging \in Scratch /\ unswept \in Nat
    /\ run \in [Actors -> Runs]
    /\ request \in Assurances \cup {None} /\ promised \in Assurances \cup {None}
    /\ faults \in 0..MaxFaults

\* One run at a time, and it has the lock.
Alone ==
    /\ \A p \in Actors : run[p].stage # "idle" => locked
    /\ \A p, q \in Actors : run[p].stage # "idle" /\ run[q].stage # "idle" => p = q

\* The first of a list has state n, and what stands there by its name: n or a later name.
Covers(place, n) == copies[place] # <<>> /\ copies[place][1].holds >= n
Leads(place, n, name) ==
    /\ copies[place] # <<>>
    /\ copies[place][1].holds >= n \/ copies[place][1].named > name

\* A promise is kept by the first of some list.
Promises == {promised, request} \ {None}
Honoured(promise) == promise.late \/ \E place \in PlaceNames : Covers(place, promise.from)

\* What a run goes by at each of its stages.
Sealing == {"snapshot", "archive", "copy", "put"}
Copying == {"copy", "put"}

RunGoesBy(p) ==
    /\ run[p].from <= writes
    /\ run[p].stage \in Sealing => run[p].key \in confirmed
    /\ run[p].stage \in {"snapshot", "archive", "fetch"} => staging.archives <= unswept
    /\ run[p].stage = "archive" => staging.snapshot = None \/ run[p].from <= staging.snapshot
    /\ run[p].stage \in Copying => staging.archives >= 1 /\ run[p].from <= run[p].holds
    /\ run[p].stage = "put" => run[p].todo # <<>>
    /\ run[p].stage \in Copying =>
          \A i \in DOMAIN run[p].landed : Leads(run[p].landed[i], run[p].from, run[p].named)
    /\ run[p].stage \in Stages \ (Copying \cup {"fetch"}) => run[p].landed = <<>>
    /\ run[p].stage # "idle" => \A promise \in Promises : promise.from <= run[p].from

IInv ==
    /\ Values /\ Alone /\ ListedIsOpenable /\ NothingPilesUp
    /\ \A promise \in Promises : promise.from <= writes /\ Honoured(promise)
    /\ \A p \in Actors : RunGoesBy(p)

(***************************************************************************)
(* Lists, and what they keep.                                              *)
(***************************************************************************)
LEMMA Constants ==
    /\ MaxWrites \in Nat /\ MaxFaults \in Nat /\ MaxClock \in Nat
    /\ Keep \in Nat \ {0} /\ None \notin Keys
  BY BackupAssumption

\* Where a run may go: nowhere but to the three places.
LEMMA Bound ==
    /\ Destinations(TRUE) \in Seq(PlaceNames)
    /\ Destinations(FALSE) \in Seq(PlaceNames)
<1>1. /\ <<"local">> \in Seq(PlaceNames) /\ <<"usb">> \in Seq(PlaceNames)
      /\ <<"drive">> \in Seq(PlaceNames) /\ <<>> \in Seq(PlaceNames)
  BY DEF PlaceNames
<1>. QED
  BY <1>1 DEF Destinations

\* An archive is filed first, or behind a first one with a later name.
LEMMA FiledFirst ==
    ASSUME NEW list \in Seq(Archives), NEW new \in Archives, NEW to \in Filed(list, new)
    PROVE  /\ to \in Seq(Archives) /\ Len(to) = Len(list) + 1
           /\ to[1] = new \/ (list # <<>> /\ to[1] = list[1] /\ list[1].named > new.named)
           /\ \A k \in 1..Len(to) : to[k] = new \/ \E j \in 1..Len(list) : to[k] = list[j]
<1>1. PICK i \in Positions(list, new) :
         to = SubSeq(list, 1, i - 1) \o <<new>> \o SubSeq(list, i, Len(list))
  BY DEF Filed
<1>. DEFINE before == SubSeq(list, 1, i - 1)
            after == SubSeq(list, i, Len(list))
<1>2. /\ i \in 1..Len(list) + 1 /\ Len(list) \in Nat /\ DOMAIN list = 1..Len(list)
      /\ \A j \in 1..Len(list) : j < i <=> list[j].named > new.named
  BY <1>1 DEF Positions
<1>3. /\ before \in Seq(Archives) /\ Len(before) = i - 1
      /\ \A k \in 1..i - 1 : before[k] = list[k]
  BY <1>2
<1>4. /\ after \in Seq(Archives) /\ Len(after) = Len(list) - i + 1
      /\ \A k \in 1..Len(list) - i + 1 : after[k] = list[k + i - 1]
  BY <1>2
<1>. DEFINE begun == before \o <<new>>
<1>4a. to = begun \o after
  BY <1>1
<1>. HIDE DEF before, after
<1>4b. /\ begun \in Seq(Archives) /\ Len(begun) = i
       /\ \A k \in 1..i : begun[k] = IF k < i THEN before[k] ELSE new
  BY <1>2, <1>3
<1>. HIDE DEF begun
<1>5. /\ to \in Seq(Archives) /\ Len(to) = Len(list) + 1
      /\ \A k \in 1..Len(to) : to[k] = IF k < i THEN before[k] ELSE IF k = i THEN new ELSE after[k - i]
  <2>1. /\ to \in Seq(Archives) /\ Len(to) = Len(begun) + Len(after)
        /\ \A k \in 1..Len(to) : to[k] = IF k <= Len(begun) THEN begun[k] ELSE after[k - Len(begun)]
    BY <1>4, <1>4a, <1>4b
  <2>. QED
    BY <1>2, <1>4, <1>4b, <2>1
<1>6. \A k \in 1..Len(to) : to[k] = new \/ \E j \in 1..Len(list) : to[k] = list[j]
  <2>. SUFFICES ASSUME NEW k \in 1..Len(to), k # i
                PROVE  \E j \in 1..Len(list) : to[k] = list[j]
    BY <1>2, <1>5
  <2>1. CASE k < i
    <3>1. to[k] = list[k] /\ k \in 1..Len(list)
      BY <1>2, <1>3, <1>5, <2>1
    <3>. QED
      BY <3>1
  <2>2. CASE k > i
    <3>1. k - i \in 1..Len(list) - i + 1 /\ k - 1 \in 1..Len(list)
      BY <1>2, <1>5, <2>2
    <3>2. to[k] = list[k - 1]
      BY <1>2, <1>4, <1>5, <2>2, <3>1
    <3>. QED
      BY <3>1, <3>2
  <2>. QED
    BY <1>2, <2>1, <2>2
<1>7. to[1] = new \/ (list # <<>> /\ to[1] = list[1] /\ list[1].named > new.named)
  <2>0. 1 \in 1..Len(to)
    BY <1>2, <1>5
  <2>1. CASE i = 1
    <3>1. to[1] = IF 1 < i THEN before[1] ELSE IF 1 = i THEN new ELSE after[1 - i]
      BY <1>5, <2>0
    <3>2. ~(1 < i)
      BY <2>1
    <3>. QED
      BY <2>1, <3>1, <3>2
  <2>2. CASE i > 1
    <3>1. 1 \in 1..Len(list) /\ 1 \in 1..i - 1
      BY <1>2, <2>2
    <3>2. list # <<>> /\ to[1] = list[1]
      BY <1>2, <1>3, <1>5, <2>0, <2>2, <3>1
    <3>. QED
      BY <1>2, <2>2, <3>1, <3>2
  <2>. QED
    BY <1>2, <2>1, <2>2
<1>. QED
  BY <1>5, <1>6, <1>7

\* Retention leaves the first of a list, whatever of the others it fails to remove.
LEMMA FirstStays ==
    ASSUME NEW list \in Seq(Archives), Len(list) >= 1,
           NEW left \in {KeepNewest(list), list} \cup Spared(list)
    PROVE  /\ left \in Seq(Archives) /\ Len(left) >= 1 /\ left[1] = list[1]
           /\ \A k \in 1..Len(left) : \E j \in 1..Len(list) : left[k] = list[j]
<1>. DEFINE n == IF Len(list) > Keep THEN Keep ELSE Len(list)
            kept == KeepNewest(list)
<1>1. n \in 1..Len(list) /\ Len(list) \in Nat
  BY Constants
<1>2. kept \in Seq(Archives) /\ Len(kept) = n /\ \A k \in 1..n : kept[k] = list[k]
  BY <1>1 DEF KeepNewest
<1>. HIDE DEF n, kept
<1>3. CASE left = list
  BY <1>3
<1>4. CASE left = kept
  BY <1>1, <1>2, <1>4
<1>5. CASE left \in Spared(list)
  <2>1. PICK i \in Keep + 1..Len(list) : left = kept \o SubSeq(list, i, Len(list))
    BY <1>5 DEF Spared, kept
  <2>. DEFINE rest == SubSeq(list, i, Len(list))
  <2>2. i \in 1..Len(list)
    BY <2>1, <1>1, Constants
  <2>3. /\ rest \in Seq(Archives) /\ Len(rest) = Len(list) - i + 1
        /\ \A k \in 1..Len(list) - i + 1 : rest[k] = list[k + i - 1]
    BY <1>1, <2>2
  <2>3a. left = kept \o rest
    BY <2>1
  <2>. HIDE DEF rest
  <2>3b. /\ left \in Seq(Archives) /\ Len(left) = Len(kept) + Len(rest)
         /\ \A k \in 1..Len(left) : left[k] = IF k <= Len(kept) THEN kept[k] ELSE rest[k - Len(kept)]
    <3>1. Len(kept) \in Nat /\ Len(rest) \in Nat
      BY <1>1, <1>2, <2>2, <2>3
    <3>2. left \in Seq(Archives) /\ Len(left) = Len(kept) + Len(rest)
      <4>1. kept \in Seq(Archives) /\ rest \in Seq(Archives)
        BY <1>2, <2>3
      <4>. QED
        BY <2>3a, <4>1
    <3>3. \A k \in 1..Len(kept) + Len(rest) :
             (kept \o rest)[k] = IF k <= Len(kept) THEN kept[k] ELSE rest[k - Len(kept)]
      BY <1>2, <2>3, <3>1
    <3>. QED
      BY <2>3a, <3>2, <3>3
  <2>4. /\ left \in Seq(Archives) /\ Len(left) = n + Len(list) - i + 1
        /\ \A k \in 1..Len(left) : left[k] = IF k <= n THEN list[k] ELSE list[k - n + i - 1]
    <3>1. ASSUME NEW k \in 1..Len(left), k > n
          PROVE  left[k] = list[k - n + i - 1]
      <4>1. k - n \in 1..Len(list) - i + 1
        BY <1>1, <1>2, <2>2, <2>3, <2>3b, <3>1
      <4>2. left[k] = rest[k - n]
        BY <1>1, <1>2, <2>3b, <3>1
      <4>. QED
        BY <1>1, <2>2, <2>3, <4>1, <4>2
    <3>. QED
      BY <1>1, <1>2, <2>2, <2>3, <2>3b, <3>1
  <2>5. \A k \in 1..Len(left) : IF k <= n THEN k \in 1..Len(list) ELSE k - n + i - 1 \in 1..Len(list)
    BY <1>1, <2>2, <2>4
  <2>. QED
    BY <1>1, <2>2, <2>4, <2>5
<1>. QED
  BY <1>3, <1>4, <1>5 DEF kept

(***************************************************************************)
(* The lock.                                                               *)
(***************************************************************************)
\* When one run moves, the others are idle and stay as they were.
LEMMA OneMoves ==
    ASSUME IInv, NEW p \in Actors, NEW r \in Runs, run' = [run EXCEPT ![p] = r],
           run[p].stage # "idle" \/ ~locked, r.stage # "idle" => locked',
           writes' \in States, writes <= writes'
    PROVE  /\ run' \in [Actors -> Runs] /\ run'[p] = r /\ Alone'
           /\ \A q \in Actors \ {p} : RunGoesBy(q)'
<1>1. /\ run \in [Actors -> Runs] /\ writes \in States /\ MaxWrites \in Nat
      /\ \A q \in Actors \ {p} : run[q].stage = "idle"
  BY Constants DEF IInv, Values, Alone
<1>2. /\ run' \in [Actors -> Runs] /\ run'[p] = r
      /\ \A q \in Actors \ {p} : run'[q] = run[q] /\ run'[q].stage = "idle"
  BY <1>1
<1>3. Alone'
  BY <1>2 DEF Alone
<1>4. ASSUME NEW q \in Actors \ {p}
      PROVE  RunGoesBy(q)'
  <2>1. run'[q].from \in Nat /\ run'[q].from <= writes'
    <3>1. run[q].from \in States /\ run[q].from <= writes /\ run'[q] = run[q]
      BY <1>1, <1>2 DEF IInv, RunGoesBy, Runs
    <3>. QED
      BY <1>1, <3>1 DEF States
  <2>2. run'[q].stage = "idle" /\ run'[q].landed = <<>>
    BY <1>1, <1>2 DEF IInv, RunGoesBy, Copying, Stages
  <2>. QED
    BY <2>1, <2>2 DEF RunGoesBy, Sealing, Copying, Stages
<1>. QED
  BY <1>2, <1>3, <1>4

\* A step that moves no run leaves each where it was.
LEMMA NoneMoves ==
    ASSUME IInv, UNCHANGED <<run, copies, scratch, promised, request>>, locked' = locked,
           confirmed \subseteq confirmed', writes' \in States, writes <= writes'
    PROVE  /\ Alone' /\ NothingPilesUp' /\ \A p \in Actors : RunGoesBy(p)'
           /\ \A promise \in Promises' : promise.from <= writes' /\ Honoured(promise)'
<1>1. Promises' = Promises /\ Promises \subseteq Assurances /\ writes \in States /\ MaxWrites \in Nat
  BY Constants DEF Promises, IInv, Values
<1>2. /\ \A promise : Honoured(promise)' <=> Honoured(promise)
      /\ \A place, n, name : Leads(place, n, name)' <=> Leads(place, n, name)
  BY DEF Honoured, Covers, Leads
<1>3. Alone' /\ NothingPilesUp'
  BY DEF IInv, Alone, NothingPilesUp, scratch
<1>4. \A promise \in Promises' : promise.from <= writes' /\ Honoured(promise)'
  BY <1>1, <1>2 DEF IInv, States, Assurances
<1>5. ASSUME NEW p \in Actors
      PROVE  RunGoesBy(p)'
  <2>1. run[p].from \in States /\ run[p].from <= writes /\ RunGoesBy(p)
    BY DEF IInv, Values, Runs, RunGoesBy
  <2>2. run[p].from <= writes'
    BY <1>1, <2>1 DEF States
  <2>. QED
    BY <1>1, <1>2, <2>1, <2>2 DEF RunGoesBy, scratch
<1>. QED
  BY <1>3, <1>4, <1>5

(***************************************************************************)
(* A run, step by step.                                                    *)
(***************************************************************************)
\* A step of one run that leaves the lists and the promises alone.
LEMMA Advances ==
    ASSUME IInv, NEW p \in Actors, NEW r \in Runs, run' = [run EXCEPT ![p] = r],
           run[p].stage # "idle" \/ ~locked, r.stage # "idle" => locked', locked' \in BOOLEAN,
           UNCHANGED <<clock, latest, copies, promised, request, key, confirmed, grant>>,
           writes' \in States, writes <= writes', since' = since,
           staging' \in Scratch, unswept' \in Nat, NothingPilesUp',
           slotOpen' = slotOpen, resting' \in BOOLEAN, faults' \in 0..MaxFaults, RunGoesBy(p)'
    PROVE  IInv'
<1>1. /\ run' \in [Actors -> Runs] /\ Alone'
      /\ \A q \in Actors : RunGoesBy(q)'
  BY OneMoves
<1>2. since' \in 0..writes'
  BY DEF IInv, Values, States
<1>3. Values'
  BY <1>1, <1>2 DEF IInv, Values
<1>4. Promises' = Promises /\ \A promise : Honoured(promise)' <=> Honoured(promise)
  BY DEF Promises, Honoured, Covers
<1>5. ListedIsOpenable'
  BY DEF IInv, ListedIsOpenable, Listed
<1>6. \A promise \in Promises' : promise.from <= writes' /\ Honoured(promise)'
  <2>1. Promises \subseteq Assurances /\ writes \in States /\ MaxWrites \in Nat
    BY Constants DEF IInv, Values, Promises
  <2>. QED
    BY <1>4, <2>1 DEF IInv, Assurances, States
<1>. QED
  BY <1>1, <1>3, <1>5, <1>6 DEF IInv

\* The fields of a run, and of the idle one.
LEMMA RunFields ==
    ASSUME IInv, NEW p \in Actors
    PROVE  /\ run \in [Actors -> Runs] /\ run[p] \in Runs /\ RunGoesBy(p)
           /\ run[p].named \in Times /\ run[p].from \in States /\ run[p].key \in Keys \cup {None} /\ run[p].holds \in States
           /\ run[p].todo \in Seq(PlaceNames) /\ run[p].landed \in Seq(PlaceNames)
           /\ run[p].stage \in Stages /\ run[p].kind \in {"backup", "verify", "safety", None}
  BY DEF IInv, Values, Runs

\* An idle run holds nothing, and is a run.
LEMMA IdleRun == Idle \in Runs /\ Idle.stage = "idle" /\ Idle.from = 0 /\ Idle.landed = <<>>
<1>1. 0 \in States /\ 0 \in Times /\ <<>> \in Seq(PlaceNames)
  BY Constants DEF States, Times
<1>. QED
  BY <1>1 DEF Idle, Runs, Stages

\* A fault is counted, and stays within its bound.
LEMMA Counted ==
    ASSUME IInv, faults' = faults \/ Fault
    PROVE  faults' \in 0..MaxFaults
  BY Constants DEF IInv, Values, Fault

\* What the scratch directory holds, and the promises, as far as every step needs it.
LEMMA ScratchAndPromises ==
    ASSUME IInv
    PROVE  /\ staging \in Scratch /\ staging.archives \in Nat /\ unswept \in Nat
           /\ staging.snapshot \in States \cup {None} /\ staging.archives <= 1 + unswept
           /\ Promises \subseteq Assurances
           /\ \A promise \in Promises : promise.from \in States /\ promise.from <= writes
           /\ writes \in States /\ writes <= writes
  BY Constants DEF IInv, Values, Scratch, NothingPilesUp, Promises, Assurances, States

\* A run that ends keeps no promise of its own.
LEMMA Ending ==
    ASSUME IInv, NEW p \in Actors, run[p].stage # "idle", run' = [run EXCEPT ![p] = Idle], locked' = FALSE,
           UNCHANGED <<clock, latest, copies, promised, request, key, confirmed, grant, writes, since,
                       slotOpen, unswept>>,
           staging' \in Scratch, staging'.archives <= 1 + unswept,
           resting' \in BOOLEAN, faults' \in 0..MaxFaults
    PROVE  IInv'
<1>1. run'[p] = Idle /\ writes \in States /\ writes <= writes /\ 0 <= writes
  BY RunFields, ScratchAndPromises, Constants DEF States
<1>2. RunGoesBy(p)'
  BY <1>1, IdleRun DEF RunGoesBy, Sealing, Copying, Stages
<1>3. NothingPilesUp' /\ unswept' \in Nat
  BY ScratchAndPromises DEF NothingPilesUp
<1>. QED
  BY <1>1, <1>2, <1>3, IdleRun, Advances

\* A run begins with what is written by then, and with nothing landed.
LEMMA StartStep ==
    ASSUME IInv, NEW p \in Actors, NEW kind \in {"backup", "verify", "safety"}, Start(p, kind),
           UNCHANGED <<writes, scheduleVars, keyVars, copies, grant, scratch, request, promised, faults>>
    PROVE  IInv'
<1>. DEFINE to == Destinations(grant # "none")
            r == [Idle EXCEPT !.kind = kind, !.stage = "gate", !.named = clock, !.from = writes,
                              !.todo = to]
<1>1. writes \in States /\ writes <= writes /\ run \in [Actors -> Runs] /\ clock \in Times
  BY Constants DEF IInv, Values, States
<1>2. to \in Seq(PlaceNames)
  <2>1. (grant # "none") \in BOOLEAN
    OBVIOUS
  <2>. QED
    BY <2>1, Bound
<1>. HIDE DEF to
<1>3. r \in Runs /\ r.stage = "gate" /\ r.from = writes /\ r.landed = <<>>
  BY <1>1, <1>2, IdleRun DEF Idle, Runs, Stages
<1>. HIDE DEF r
<1>4. run' = [run EXCEPT ![p] = r] /\ locked' = TRUE /\ ~locked
  BY DEF Start, NoRunInFlight, r, to
<1>5. run'[p] = r /\ Promises' = Promises
  BY <1>1, <1>4 DEF Promises
<1>6. RunGoesBy(p)'
  BY <1>1, <1>3, <1>5, ScratchAndPromises DEF RunGoesBy, Sealing, Copying, Stages
<1>7. NothingPilesUp' /\ staging' \in Scratch /\ unswept' \in Nat
  BY ScratchAndPromises DEF NothingPilesUp, scratch
<1>. QED
  BY <1>1, <1>3, <1>4, <1>6, <1>7, Advances DEF IInv, Values, scheduleVars, keyVars

\* Refused at the gate, or through it with a confirmed key and the scratch cleared as
\* far as it can be.
LEMMA GateSteps ==
    ASSUME IInv, NEW p \in Actors, Refuse(p) \/ WriteSentinel(p) \/ Prepare(p)
    PROVE  IInv'
<1>. USE RunFields, ScratchAndPromises DEF scheduleVars, keyVars, scratch
<1>1. MaxWrites \in Nat /\ locked \in BOOLEAN /\ resting \in BOOLEAN /\ faults \in 0..MaxFaults
  BY Constants DEF IInv, Values
<1>2. CASE Refuse(p)
  <2>1. faults' \in 0..MaxFaults
    BY <1>2, Counted DEF Refuse
  <2>. QED
    BY <1>1, <1>2, <2>1, Ending DEF Refuse, Ends, Release
<1>3. CASE WriteSentinel(p)
  <2>. DEFINE r == [run[p] EXCEPT !.stage = "sentinel", !.from = writes']
  <2>1. writes' \in States /\ writes <= writes' /\ writes' <= writes'
    BY <1>1, <1>3 DEF WriteSentinel, States
  <2>2. r \in Runs /\ r.stage = "sentinel" /\ r.from = writes' /\ r.landed = run[p].landed
    BY <2>1 DEF Runs, Stages
  <2>3. run' = [run EXCEPT ![p] = r] /\ run'[p] = r /\ run[p].stage = "gate"
    BY <1>3 DEF WriteSentinel
  <2>. HIDE DEF r
  <2>4. \A promise \in Promises' : promise.from <= writes'
    <3>1. Promises' = Promises
      BY <1>3 DEF WriteSentinel, Promises
    <3>. QED
      BY <1>1, <2>1, <3>1 DEF States
  <2>5. run[p].landed = <<>>
    BY <2>3 DEF RunGoesBy, Copying, Stages
  <2>6. RunGoesBy(p)'
    BY <2>1, <2>2, <2>3, <2>4, <2>5 DEF RunGoesBy, Sealing, Copying, Stages
  <2>7. NothingPilesUp' /\ staging' \in Scratch /\ unswept' \in Nat
    BY <1>3 DEF WriteSentinel, NothingPilesUp
  <2>. QED
    BY <1>1, <1>3, <2>1, <2>2, <2>3, <2>6, <2>7, Advances DEF WriteSentinel, IInv, Alone
<1>4. CASE Prepare(p)
  <2>. DEFINE r == [run[p] EXCEPT !.stage = "snapshot", !.key = key]
  <2>1. key \in confirmed /\ key \in Keys
    BY <1>4 DEF Prepare, Enabled, IInv, Values
  <2>2. r \in Runs /\ r.stage = "snapshot" /\ r.from = run[p].from /\ r.key = key /\ r.landed = run[p].landed
    BY <2>1 DEF Runs, Stages
  <2>3. run' = [run EXCEPT ![p] = r] /\ run'[p] = r /\ run[p].stage \in {"gate", "sentinel"}
    BY <1>4 DEF Prepare
  <2>. HIDE DEF r
  <2>4. staging' \in Scratch /\ unswept' \in Nat /\ staging'.archives <= unswept'
    <3>1. CASE staging' = Sweep /\ unswept' = 0
      BY <3>1 DEF Sweep, Cleared, Scratch
    <3>2. CASE staging' \in Leftovers /\ unswept' = unswept + 1
      <4>1. staging' \in [snapshot : {staging.snapshot, None}, archives : 0..staging.archives]
        BY <3>2 DEF Leftovers
      <4>. QED
        BY <3>2, <4>1 DEF Scratch
    <3>. QED
      BY <1>4, <3>1, <3>2 DEF Prepare
  <2>5. faults' \in 0..MaxFaults
    BY <1>4, Counted DEF Prepare
  <2>6. run[p].landed = <<>>
    BY <2>3 DEF RunGoesBy, Copying, Stages
  <2>7. RunGoesBy(p)'
    BY <1>4, <2>1, <2>2, <2>3, <2>4, <2>6 DEF Prepare, RunGoesBy, Sealing, Copying, Stages, Promises
  <2>8. NothingPilesUp'
    BY <2>4 DEF NothingPilesUp, Scratch
  <2>. QED
    BY <1>1, <1>4, <2>2, <2>3, <2>4, <2>5, <2>7, <2>8, Advances DEF Prepare, IInv, Alone
<1>. QED
  BY <1>2, <1>3, <1>4

\* The snapshot is of the present or later, and the archive of the snapshot.
LEMMA SealSteps ==
    ASSUME IInv, NEW p \in Actors, TakeSnapshot(p) \/ WriteArchive(p) \/ Break(p)
    PROVE  IInv'
<1>. USE RunFields, ScratchAndPromises DEF scheduleVars, keyVars
<1>1. /\ MaxWrites \in Nat /\ resting \in BOOLEAN /\ faults \in 0..MaxFaults
      /\ run[p].stage # "idle" => locked /\ locked \in BOOLEAN
  BY Constants DEF IInv, Values, Alone
<1>2. CASE TakeSnapshot(p)
  <2>. DEFINE r == [run[p] EXCEPT !.stage = "archive"]
  <2>1. /\ r \in Runs /\ r.stage = "archive" /\ r.from = run[p].from /\ r.key = run[p].key
        /\ r.landed = run[p].landed
    BY DEF Runs, Stages
  <2>2. run' = [run EXCEPT ![p] = r] /\ run'[p] = r /\ run[p].stage = "snapshot"
    BY <1>2 DEF TakeSnapshot
  <2>. HIDE DEF r
  <2>3. /\ staging' \in Scratch /\ unswept' = unswept
        /\ staging'.archives = staging.archives /\ staging'.snapshot = writes
    BY <1>1, <1>2 DEF TakeSnapshot, Snapshot, Scratch
  <2>4. RunGoesBy(p)'
    BY <1>2, <2>1, <2>2, <2>3 DEF TakeSnapshot, RunGoesBy, Sealing, Copying, Stages, Promises
  <2>5. NothingPilesUp'
    BY <2>3 DEF NothingPilesUp
  <2>. QED
    BY <1>1, <1>2, <2>1, <2>2, <2>3, <2>4, <2>5, Advances DEF TakeSnapshot
<1>3. CASE WriteArchive(p)
  <2>. DEFINE r == [run[p] EXCEPT !.stage = "copy", !.holds = staging.snapshot]
  <2>1. staging.snapshot \in States /\ run[p].stage = "archive" /\ staging.archives <= unswept
    BY <1>1, <1>3 DEF WriteArchive, RunGoesBy
  <2>2. /\ r \in Runs /\ r.stage = "copy" /\ r.from = run[p].from /\ r.key = run[p].key
        /\ r.landed = run[p].landed /\ r.holds = staging.snapshot
    BY <2>1 DEF Runs, Stages
  <2>3. run' = [run EXCEPT ![p] = r] /\ run'[p] = r
    BY <1>3 DEF WriteArchive
  <2>. HIDE DEF r
  <2>4. /\ staging' \in Scratch /\ staging'.archives = staging.archives + 1 /\ unswept' = unswept
    BY <1>3, <2>1 DEF WriteArchive, Scratch
  <2>5. run[p].landed = <<>> /\ run[p].from <= staging.snapshot
    BY <1>3, <2>1 DEF WriteArchive, RunGoesBy, Copying, Stages
  <2>6. RunGoesBy(p)'
    BY <1>3, <2>1, <2>2, <2>3, <2>4, <2>5
    DEF WriteArchive, RunGoesBy, Sealing, Copying, Stages, Promises
  <2>7. NothingPilesUp'
    BY <2>1, <2>4 DEF NothingPilesUp
  <2>. QED
    BY <1>1, <1>3, <2>1, <2>2, <2>3, <2>4, <2>6, <2>7, Advances DEF WriteArchive
<1>4. CASE Break(p)
  <2>1. faults' \in 0..MaxFaults /\ staging.archives <= unswept
    BY <1>4, Counted DEF Break, RunGoesBy
  <2>2. staging' \in Scratch /\ staging'.archives <= 1 + unswept
    <3>1. CASE staging' = staging
      BY <3>1
    <3>2. CASE staging' \in [snapshot : {staging.snapshot, None}, archives : Halfway(p)]
      <4>1. Halfway(p) \subseteq staging.archives..staging.archives + 1
        BY DEF Halfway
      <4>. QED
        BY <2>1, <3>2, <4>1 DEF Scratch
    <3>. QED
      BY <1>4, <3>1, <3>2 DEF Break
  <2>. QED
    BY <1>4, <2>1, <2>2, Ending DEF Break, Ends, Release
<1>. QED
  BY <1>2, <1>3, <1>4

\* A copy is begun aside, or fails: the lists stay as they were.
LEMMA CopySteps ==
    ASSUME IInv, NEW p \in Actors, BeginCopy(p) \/ CopyFails(p)
    PROVE  IInv'
<1>. USE RunFields, ScratchAndPromises DEF scheduleVars, keyVars, scratch
<1>1. /\ run[p].todo # <<>> /\ run[p].stage \in Copying
      /\ locked /\ locked \in BOOLEAN /\ resting \in BOOLEAN
  BY Constants DEF IInv, Values, Alone, BeginCopy, CopyFails, Copying
<1>2. ASSUME NEW r \in Runs, run' = [run EXCEPT ![p] = r], r.from = run[p].from, r.key = run[p].key,
             r.named = run[p].named, r.holds = run[p].holds, r.landed = run[p].landed,
             r.stage \in Copying, r.stage = "put" => r.todo # <<>>, faults' \in 0..MaxFaults,
             UNCHANGED <<writes, scheduleVars, keyVars, copies, grant, locked, scratch, request, promised>>
      PROVE  IInv'
  <2>1. run'[p] = r /\ Promises' = Promises
    BY <1>2 DEF Promises
  <2>2. \A place, n, name : Leads(place, n, name)' <=> Leads(place, n, name)
    BY <1>2 DEF Leads
  <2>3. RunGoesBy(p)'
    BY <1>1, <1>2, <2>1, <2>2 DEF RunGoesBy, Sealing, Copying, Stages
  <2>4. NothingPilesUp'
    BY <1>2 DEF NothingPilesUp
  <2>. QED
    BY <1>1, <1>2, <2>3, <2>4, Advances DEF Copying
<1>3. CASE BeginCopy(p)
  <2>. DEFINE r == [run[p] EXCEPT !.stage = "put"]
  <2>1. /\ r \in Runs /\ r.from = run[p].from /\ r.key = run[p].key /\ r.holds = run[p].holds
        /\ r.named = run[p].named
        /\ r.landed = run[p].landed /\ r.todo = run[p].todo /\ r.stage = "put"
    BY DEF Runs, Stages
  <2>2. run' = [run EXCEPT ![p] = r] /\ faults' \in 0..MaxFaults
    BY <1>3, Counted DEF BeginCopy
  <2>. HIDE DEF r
  <2>. QED
    BY <1>1, <1>2, <1>3, <2>1, <2>2 DEF BeginCopy, Aside, Copying
<1>4. CASE CopyFails(p)
  <2>. DEFINE r == [run[p] EXCEPT !.stage = "copy", !.todo = Tail(@)]
  <2>1. Tail(run[p].todo) \in Seq(PlaceNames)
    BY <1>1
  <2>2. /\ r \in Runs /\ r.from = run[p].from /\ r.key = run[p].key /\ r.holds = run[p].holds
        /\ r.named = run[p].named /\ r.landed = run[p].landed /\ r.stage = "copy"
    BY <2>1 DEF Runs, Stages
  <2>3. run' = [run EXCEPT ![p] = r]
    BY <1>4 DEF CopyFails
  <2>4. faults' \in 0..MaxFaults
    BY <1>4, Counted DEF CopyFails
  <2>. HIDE DEF r
  <2>. QED
    BY <1>1, <1>2, <1>4, <2>2, <2>3, <2>4 DEF CopyFails, Copying
<1>. QED
  BY <1>3, <1>4

\* A copy that arrives and comes first holds what every promise stands for, and what
\* its own run will promise; one that comes behind the first leaves that where it is.
LEMMA ArriveStep ==
    ASSUME IInv, NEW p \in Actors, EndCopy(p) \/ PruneFails(p)
    PROVE  IInv'
<1>. USE RunFields, ScratchAndPromises DEF scheduleVars, keyVars, scratch
<1>. DEFINE place == Place(p)
            new == Archive(p, TRUE)
<1>1. /\ run[p].stage = "put" /\ place \in PlaceNames /\ Tail(run[p].todo) \in Seq(PlaceNames)
      /\ run[p].key \in confirmed /\ run[p].key \in Keys /\ staging.archives >= 1
      /\ run[p].from <= run[p].holds /\ MaxWrites \in Nat
  <2>1. run[p].stage = "put"
    BY DEF EndCopy, PruneFails
  <2>2. /\ run[p].key \in confirmed /\ staging.archives >= 1 /\ run[p].from <= run[p].holds
        /\ run[p].todo # <<>>
    BY <2>1 DEF RunGoesBy, Sealing, Copying
  <2>3. place \in PlaceNames /\ Tail(run[p].todo) \in Seq(PlaceNames)
    BY <2>2 DEF Place
  <2>. QED
    BY <2>1, <2>2, <2>3, Constants DEF IInv, Values
<1>2. /\ new \in Archives /\ new.whole = TRUE /\ new.key \in confirmed /\ new.holds = run[p].holds
      /\ new.named = run[p].named
  BY <1>1 DEF Archive, Archives, States, Times
<1>3. PICK list \in Filed(copies[place], new) :
         \E left \in {KeepNewest(list), list} \cup Spared(list) : copies' = [copies EXCEPT ![place] = left]
  BY DEF EndCopy, PruneFails
<1>3a. PICK left \in {KeepNewest(list), list} \cup Spared(list) : copies' = [copies EXCEPT ![place] = left]
  BY <1>3
<1>4. PICK landed \in {run[p].landed, Append(run[p].landed, place)} :
         run' = [run EXCEPT ![p] = [run[p] EXCEPT !.stage = "copy", !.todo = Tail(@), !.landed = landed]]
  BY DEF EndCopy, PruneFails
<1>5. /\ UNCHANGED <<writes, scheduleVars, keyVars, grant, locked, scratch, request, promised>>
      /\ faults' \in 0..MaxFaults
  BY Counted DEF EndCopy, PruneFails
<1>. DEFINE r == [run[p] EXCEPT !.stage = "copy", !.todo = Tail(@), !.landed = landed]
<1>. HIDE DEF place, new
<1>6. landed \in Seq(PlaceNames)
  <2>1. run[p].landed \in Seq(PlaceNames) /\ place \in PlaceNames
    BY <1>1
  <2>2. Append(run[p].landed, place) \in Seq(PlaceNames)
    BY <2>1
  <2>. QED
    BY <1>4, <2>1, <2>2
<1>7. /\ r \in Runs /\ r.stage = "copy" /\ r.from = run[p].from /\ r.key = run[p].key
      /\ r.named = run[p].named /\ r.holds = run[p].holds /\ r.landed = landed
  BY <1>1, <1>6 DEF Runs, Stages
<1>8. run' = [run EXCEPT ![p] = r] /\ run'[p] = r
  BY <1>4
<1>. HIDE DEF r
<1>9. copies \in [PlaceNames -> Seq(Archives)] /\ copies[place] \in Seq(Archives)
  BY <1>1 DEF IInv, Values
<1>10. /\ list \in Seq(Archives) /\ Len(list) >= 1
       /\ \/ list[1] = new
          \/ copies[place] # <<>> /\ list[1] = copies[place][1] /\ list[1].named > new.named
       /\ \A k \in 1..Len(list) :
             list[k] = new \/ \E j \in 1..Len(copies[place]) : list[k] = copies[place][j]
  <2>1. new \in Archives /\ copies[place] \in Seq(Archives) /\ list \in Filed(copies[place], new)
    BY <1>2, <1>3, <1>9
  <2>2. /\ list \in Seq(Archives) /\ Len(list) = Len(copies[place]) + 1
        /\ list[1] = new \/ (copies[place] # <<>> /\ list[1] = copies[place][1]
                                /\ list[1].named > new.named)
        /\ \A k \in 1..Len(list) :
              list[k] = new \/ \E j \in 1..Len(copies[place]) : list[k] = copies[place][j]
    BY <2>1, FiledFirst
  <2>3. Len(copies[place]) \in Nat
    BY <1>9
  <2>. QED
    BY <2>2, <2>3
<1>11. /\ left \in Seq(Archives) /\ Len(left) >= 1 /\ left[1] = list[1]
       /\ \A k \in 1..Len(left) : \E j \in 1..Len(list) : left[k] = list[j]
  BY <1>10, FirstStays
<1>12. /\ copies' \in [PlaceNames -> Seq(Archives)] /\ copies'[place] = left
       /\ \A q \in PlaceNames \ {place} : copies'[q] = copies[q]
  BY <1>1, <1>3a, <1>9, <1>11
<1>13. ListedIsOpenable'
  <2>. SUFFICES ASSUME NEW q \in PlaceNames, NEW copy \in Listed(q)'
                PROVE  copy.whole /\ copy.key \in confirmed
    BY <1>5 DEF ListedIsOpenable
  <2>1. CASE q # place
    BY <1>12, <2>1 DEF Listed, IInv, ListedIsOpenable
  <2>2. CASE q = place
    <3>1. PICK k \in 1..Len(left) : copy = left[k]
      BY <1>11, <1>12, <2>2 DEF Listed
    <3>2. PICK j \in 1..Len(list) : copy = list[j]
      BY <1>11, <3>1
    <3>3. CASE copy = new
      BY <1>2, <3>3
    <3>4. CASE \E i \in 1..Len(copies[place]) : copy = copies[place][i]
      BY <1>1, <1>9, <3>4 DEF Listed, IInv, ListedIsOpenable
    <3>. QED
      BY <1>10, <3>2, <3>3, <3>4
  <2>. QED
    BY <2>1, <2>2
<1>14. ASSUME NEW n \in States, n <= run[p].from, NEW q \in PlaceNames
       PROVE  /\ Covers(q, n) => Covers(q, n)'
              /\ \A name \in Times : name = run[p].named /\ (q = place \/ Leads(q, n, name))
                                      => Leads(q, n, name)'
  <2>1. CASE q # place
    BY <1>12, <2>1 DEF Covers, Leads
  <2>2. CASE q = place
    <3>1. copies'[q] # <<>> /\ copies'[q][1] = list[1]
      BY <1>11, <1>12, <2>2
    <3>2. CASE list[1] = new
      <4>1. list[1].holds >= n
        BY <1>1, <1>2, <1>14, <3>2 DEF States
      <4>. QED
        BY <3>1, <4>1 DEF Covers, Leads
    <3>3. CASE list[1] = copies[place][1] /\ list[1].named > new.named
      BY <1>2, <2>2, <3>1, <3>3 DEF Covers, Leads
    <3>. QED
      BY <1>10, <3>2, <3>3
  <2>. QED
    BY <2>1, <2>2
<1>15. /\ Promises' = Promises
       /\ \A promise \in Promises : /\ promise.from \in States /\ promise.from <= run[p].from
                                     /\ promise.from <= writes /\ Honoured(promise)
  BY <1>1, <1>5 DEF Promises, IInv, RunGoesBy
<1>16. \A promise \in Promises' : promise.from <= writes' /\ Honoured(promise)'
  BY <1>5, <1>14, <1>15 DEF Honoured
<1>17. \A i \in DOMAIN landed : Leads(landed[i], run[p].from, run[p].named)'
  <2>. SUFFICES ASSUME NEW i \in DOMAIN landed
                PROVE  Leads(landed[i], run[p].from, run[p].named)'
    OBVIOUS
  <2>1. landed[i] \in PlaceNames
    BY <1>6
  <2>2. landed[i] = place \/ Leads(landed[i], run[p].from, run[p].named)
    <3>1. \A k \in DOMAIN run[p].landed : Leads(run[p].landed[k], run[p].from, run[p].named)
      BY <1>1 DEF RunGoesBy, Copying
    <3>2. landed[i] = place \/ \E k \in DOMAIN run[p].landed : landed[i] = run[p].landed[k]
      BY <1>1, <1>4
    <3>. QED
      BY <3>1, <3>2
  <2>3. PICK q \in PlaceNames, n \in States, name \in Times :
           q = landed[i] /\ n = run[p].from /\ name = run[p].named
    BY <2>1
  <2>4. n <= run[p].from /\ (q = place \/ Leads(q, n, name))
    BY <2>2, <2>3 DEF States
  <2>5. Leads(q, n, name)'
    BY <1>14, <2>3, <2>4
  <2>6. run'[p].from = n /\ run'[p].named = name
    BY <1>7, <1>8, <2>3
  <2>. QED
    BY <2>3, <2>5, <2>6
<1>18. RunGoesBy(p)'
  BY <1>1, <1>5, <1>7, <1>8, <1>15, <1>17 DEF RunGoesBy, Sealing, Copying, Stages
<1>19. Values' /\ NothingPilesUp'
  BY <1>5, <1>7, <1>8, <1>12 DEF IInv, Values, NothingPilesUp
<1>20. locked /\ locked'
  BY <1>1, <1>5 DEF IInv, Alone
<1>21. Alone' /\ \A q \in Actors \ {p} : RunGoesBy(q)'
  BY <1>1, <1>5, <1>7, <1>8, <1>20, OneMoves
<1>. QED
  BY <1>13, <1>16, <1>18, <1>19, <1>21 DEF IInv

\* The row: a run that reached a place, with the clock behind no copy there, has come
\* first in its list.
LEMMA RecordStep ==
    ASSUME IInv, NEW p \in Actors, Record(p)
    PROVE  IInv'
<1>. USE RunFields, ScratchAndPromises DEF scheduleVars, keyVars
<1>. DEFINE mine == [from |-> run[p].from, late |-> Late(p)]
<1>1. /\ run[p].stage = "copy" /\ run[p].from <= writes /\ staging.archives >= 1 /\ locked
      /\ \A promise \in Promises : promise.from <= run[p].from
      /\ MaxWrites \in Nat /\ run[p].from <= run[p].from
  BY Constants DEF Record, RunGoesBy, Copying, IInv, Values, Alone, States
<1>2. /\ UNCHANGED <<writes, clock, key, confirmed, copies, grant, unswept>>
      /\ faults' \in 0..MaxFaults
  BY Counted DEF Record
<1>3. /\ staging' \in Scratch /\ staging'.archives \in {staging.archives, staging.archives - 1}
      /\ NothingPilesUp'
  <2>1. staging' \in Scratch /\ staging'.archives \in {staging.archives, staging.archives - 1}
    <3>1. CASE staging' = staging
      BY <3>1
    <3>2. CASE staging' = [staging EXCEPT !.archives = @ - 1]
      <4>1. staging.archives - 1 \in Nat
        BY <1>1
      <4>. QED
        BY <3>2, <4>1 DEF Scratch
    <3>. QED
      BY <3>1, <3>2 DEF Record
  <2>. QED
    BY <1>2, <2>1 DEF NothingPilesUp
<1>4. mine \in Assurances /\ mine.from = run[p].from /\ mine.late = Late(p)
  BY DEF Assurances, States, Late
<1>5. Ok(p) => Honoured(mine)
  <2>. SUFFICES ASSUME Ok(p), ~Late(p)
                PROVE  \E place \in PlaceNames : Covers(place, run[p].from)
    BY <1>4 DEF Honoured
  <2>1. PICK i \in DOMAIN run[p].landed :
           \A j \in DOMAIN copies[run[p].landed[i]] : ~(copies[run[p].landed[i]][j].named > run[p].named)
    BY DEF Late
  <2>2. run[p].landed[i] \in PlaceNames /\ Leads(run[p].landed[i], run[p].from, run[p].named)
    BY <1>1, <2>1 DEF RunGoesBy, Copying
  <2>3. copies[run[p].landed[i]] \in Seq(Archives)
    BY <2>2 DEF IInv, Values
  <2>4. 1 \in DOMAIN copies[run[p].landed[i]]
    BY <2>2, <2>3 DEF Leads
  <2>. QED
    BY <2>1, <2>2, <2>4 DEF Leads, Covers
<1>. HIDE DEF mine
<1>6. /\ promised' \in {promised, mine} /\ (promised' = mine => Ok(p) \/ promised' = promised)
      /\ request' \in {request, promised'} /\ (request' = promised' => Ok(p) \/ request' = request)
  <2>1. CASE Ok(p)
    <3>1. promised' = mine /\ request' \in {request, promised'}
      BY <2>1 DEF Record, RecordSuccess, mine
    <3>. QED
      BY <2>1, <3>1
  <2>2. CASE ~Ok(p)
    BY <2>2 DEF Record
  <2>. QED
    BY <2>1, <2>2
<1>7. Promises' \subseteq Promises \cup {mine} /\ (Promises' \subseteq Promises \/ Ok(p))
  BY <1>6 DEF Promises
<1>8. \A promise \in Promises' :
         promise.from \in States /\ promise.from <= run[p].from /\ promise.from <= writes /\ Honoured(promise)
  <2>1. \A promise \in Promises : Honoured(promise)
    BY DEF IInv
  <2>. QED
    BY <1>1, <1>4, <1>5, <1>7, <2>1
<1>9. \A promise \in Promises' : promise.from <= writes' /\ Honoured(promise)'
  <2>1. \A promise : Honoured(promise) => Honoured(promise)'
    BY <1>2 DEF Honoured, Covers
  <2>. QED
    BY <1>2, <1>8, <2>1
<1>10. ListedIsOpenable'
  BY <1>2 DEF ListedIsOpenable, Listed, IInv
<1>11. /\ promised' \in Assurances \cup {None} /\ request' \in Assurances \cup {None}
       /\ latest' \in Times /\ since' \in 0..writes /\ slotOpen' \in BOOLEAN /\ resting' \in BOOLEAN
  <2>1. 0 \in 0..writes /\ since \in 0..writes /\ slotOpen \in BOOLEAN /\ clock \in Times /\ latest \in Times
        /\ promised \in Assurances \cup {None} /\ request \in Assurances \cup {None}
    BY DEF IInv, Values, States
  <2>2. CASE Ok(p)
    BY <1>4, <1>6, <2>1, <2>2 DEF Record, RecordSuccess
  <2>3. CASE ~Ok(p)
    BY <1>4, <1>6, <2>1, <2>3 DEF Record
  <2>. QED
    BY <2>2, <2>3
<1>12. PICK r \in Runs :
        /\ run' = [run EXCEPT ![p] = r] /\ r.stage \in {"idle", "fetch"}
        /\ r.from \in {0, run[p].from}
        /\ (r.stage = "fetch" => r.from = run[p].from /\ staging'.archives = staging.archives - 1)
        /\ (r.stage = "idle" => r.landed = <<>>) /\ (r.stage # "idle" => locked')
        /\ locked' \in BOOLEAN
  <2>1. CASE run' = [run EXCEPT ![p].stage = "fetch"] /\ locked' = locked
             /\ staging' = [staging EXCEPT !.archives = @ - 1]
    <3>. DEFINE r == [run[p] EXCEPT !.stage = "fetch"]
    <3>1. r \in Runs /\ r.stage = "fetch" /\ r.from = run[p].from
      BY DEF Runs, Stages
    <3>2. run' = [run EXCEPT ![p] = r] /\ staging'.archives = staging.archives - 1
      BY <2>1 DEF Scratch
    <3>. HIDE DEF r
    <3>. QED
      BY <1>1, <2>1, <3>1, <3>2
  <2>2. CASE Ends(p)
    <3>1. run' = [run EXCEPT ![p] = Idle] /\ locked' = FALSE
      BY <2>2 DEF Ends, Release
    <3>. QED
      BY <3>1, IdleRun
  <2>. QED
    BY <2>1, <2>2 DEF Record
<1>13. /\ run' \in [Actors -> Runs] /\ run'[p] = r /\ Alone'
       /\ \A q \in Actors \ {p} : RunGoesBy(q)'
  BY <1>1, <1>2, <1>12, OneMoves
<1>14. r.from <= writes
  BY <1>1, <1>12 DEF States
<1>15. RunGoesBy(p)'
  BY <1>2, <1>3, <1>8, <1>12, <1>13, <1>14 DEF RunGoesBy, Sealing, Copying, Stages
<1>16. Values'
  BY <1>2, <1>3, <1>11, <1>12, <1>13 DEF IInv, Values
<1>. QED
  BY <1>3, <1>9, <1>10, <1>13, <1>15, <1>16 DEF IInv

\* The restore test lets go of the lock, and may leave what it fetched.
LEMMA VerifyStep ==
    ASSUME IInv, NEW p \in Actors, Verify(p)
    PROVE  IInv'
<1>. USE RunFields, ScratchAndPromises DEF scheduleVars, keyVars
<1>1. faults' \in 0..MaxFaults /\ staging.archives <= unswept /\ run[p].stage = "fetch"
  BY Counted DEF Verify, RunGoesBy
<1>2. staging' \in Scratch /\ staging'.archives <= 1 + unswept
  BY <1>1 DEF Verify, Scratch
<1>. QED
  BY <1>1, <1>2, Ending DEF Verify, Ends, Release, IInv, Values

(***************************************************************************)
(* What happens around a run.                                              *)
(***************************************************************************)
\* A step that moves no run, no list and no promise.
LEMMA AroundStep ==
    ASSUME IInv, UNCHANGED <<run, copies, scratch, promised, request, locked>>,
           confirmed \subseteq confirmed', confirmed' \subseteq Keys, key' \in Keys \cup {None},
           clock' \in Times, latest' = latest,
           writes' \in States, writes <= writes', since' \in 0..writes',
           slotOpen' \in BOOLEAN, resting' \in BOOLEAN, grant' \in {"none", "live", "dead"},
           faults' \in 0..MaxFaults
    PROVE  IInv'
<1>1. Values'
  BY DEF IInv, Values, scratch
<1>2. ListedIsOpenable'
  BY DEF IInv, ListedIsOpenable, Listed
<1>. QED
  BY <1>1, <1>2, NoneMoves DEF IInv

\* The key, sales, the clock and Drive's grant, while runs go on.
LEMMA AroundSteps ==
    ASSUME IInv,
           \/ GenerateKey \/ ConfirmKey \/ Skip \/ Sale \/ SlotComes \/ RestEnds \/ ClockMoves
           \/ GrantChanges \/ UNCHANGED vars
    PROVE  IInv'
<1>. USE DEF scheduleVars, keyVars
<1>1. Values /\ writes \in States /\ writes <= writes /\ faults \in 0..MaxFaults /\ MaxWrites \in Nat
  BY Constants DEF IInv, Values, States
<1>2. CASE GenerateKey
  BY <1>1, <1>2, AroundStep DEF GenerateKey, Values
<1>3. CASE ConfirmKey
  BY <1>1, <1>3, AroundStep DEF ConfirmKey, Values
<1>4. CASE Skip
  BY <1>1, <1>4, AroundStep DEF Skip, Values
<1>5. CASE Sale
  <2>1. writes' \in States /\ writes <= writes' /\ since' \in 0..writes'
    BY <1>1, <1>5 DEF Sale, Values, States
  <2>. QED
    BY <1>1, <1>5, <2>1, AroundStep DEF Sale, Values
<1>6. CASE SlotComes
  BY <1>1, <1>6, AroundStep DEF SlotComes, Values
<1>7. CASE RestEnds
  BY <1>1, <1>7, AroundStep DEF RestEnds, Values
<1>8. CASE ClockMoves
  <2>1. faults' \in 0..MaxFaults /\ clock' \in Times
    BY <1>8, Counted DEF ClockMoves, Times
  <2>2. slotOpen' \in BOOLEAN
    BY <1>1, <1>8 DEF ClockMoves, Values
  <2>. QED
    BY <1>1, <1>8, <2>1, <2>2, AroundStep DEF ClockMoves, Values
<1>9. CASE GrantChanges
  <2>1. faults' \in 0..MaxFaults
    BY <1>9, Counted DEF GrantChanges
  <2>2. grant' \in {"none", "live", "dead"}
    BY <1>1, <1>9 DEF GrantChanges, Values
  <2>. QED
    BY <1>1, <1>9, <2>1, <2>2, AroundStep DEF GrantChanges, Values
<1>10. CASE UNCHANGED vars
  BY <1>1, <1>10, AroundStep DEF vars, Values
<1>. QED
  BY <1>2, <1>3, <1>4, <1>5, <1>6, <1>7, <1>8, <1>9, <1>10

\* A cut: every run is gone, with its hold on the lock; the scratch stays, and perhaps
\* a part of an archive in it.
LEMMA CrashStep ==
    ASSUME IInv, Crash
    PROVE  IInv'
<1>. USE ScratchAndPromises DEF scheduleVars
<1>1. faults' \in 0..MaxFaults
  BY Counted DEF Crash
<1>2. run' = [p \in Actors |-> Idle] /\ locked' = FALSE /\ key' \in Keys \cup {None}
  BY DEF Crash, IInv, Values
<1>3. UNCHANGED <<writes, clock, latest, since, slotOpen, resting, confirmed, copies, grant, unswept,
                  request, promised>>
  BY DEF Crash
<1>4. staging' \in Scratch /\ staging'.archives <= 1 + unswept
  <2>0. PICK p \in Actors : \E n \in Halfway(p) : staging' = [staging EXCEPT !.archives = n]
    BY DEF Crash
  <2>1. PICK n \in Halfway(p) : staging' = [staging EXCEPT !.archives = n]
    BY <2>0
  <2>2. n \in Nat /\ n <= 1 + unswept
    <3>1. CASE run[p].stage \in {"archive", "fetch"}
      <4>1. staging.archives <= unswept
        BY <3>1, RunFields DEF RunGoesBy
      <4>. QED
        BY <2>1, <3>1, <4>1 DEF Halfway
    <3>2. CASE run[p].stage \notin {"archive", "fetch"}
      BY <2>1, <3>2 DEF Halfway
    <3>. QED
      BY <3>1, <3>2
  <2>. QED
    BY <2>1, <2>2 DEF Scratch
<1>5. Values'
  BY <1>1, <1>2, <1>3, <1>4, IdleRun DEF IInv, Values
<1>6. Promises' = Promises /\ \A promise : Honoured(promise)' <=> Honoured(promise)
  BY <1>3 DEF Promises, Honoured, Covers
<1>7. /\ ListedIsOpenable' /\ NothingPilesUp'
      /\ \A promise \in Promises' : promise.from <= writes' /\ Honoured(promise)'
  BY <1>3, <1>4, <1>6 DEF IInv, ListedIsOpenable, Listed, NothingPilesUp
<1>8. Alone'
  BY <1>2, IdleRun DEF Alone
<1>9. ASSUME NEW p \in Actors
      PROVE  RunGoesBy(p)'
  <2>1. run'[p] = Idle
    BY <1>2
  <2>2. 0 <= writes'
    BY <1>3, Constants DEF States
  <2>. QED
    BY <2>1, <2>2, IdleRun DEF RunGoesBy, Sealing, Copying, Stages
<1>. QED
  BY <1>5, <1>7, <1>8, <1>9 DEF IInv

\* Nothing is listed, promised or under way.
LEMMA InitIInv == Init => IInv
<1>. SUFFICES ASSUME Init
              PROVE  IInv
  OBVIOUS
<1>1. run \in [Actors -> Runs] /\ \A p \in Actors : run[p] = Idle
  BY IdleRun DEF Init
<1>2. copies \in [PlaceNames -> Seq(Archives)] /\ \A q \in PlaceNames : copies[q] = <<>>
  <2>1. <<>> \in Seq(Archives)
    OBVIOUS
  <2>. QED
    BY <2>1 DEF Init
<1>3. Values /\ NothingPilesUp
  <2>1. 0 \in States /\ 0 \in Times /\ 0 \in 0..0 /\ 0 \in Nat /\ 0 \in 0..MaxFaults
    BY Constants DEF States, Times
  <2>2. staging \in Scratch /\ staging.archives = 0
    BY <2>1 DEF Init, Cleared, Scratch
  <2>3. /\ clock = 0 /\ latest = 0 /\ writes = 0 /\ since = 0 /\ unswept = 0 /\ faults = 0
        /\ slotOpen \in BOOLEAN /\ resting \in BOOLEAN /\ locked \in BOOLEAN
        /\ key = None /\ confirmed = {} /\ grant = "none" /\ request = None /\ promised = None
    BY DEF Init
  <2>. QED
    BY <1>1, <1>2, <2>1, <2>2, <2>3 DEF Values, NothingPilesUp
<1>4. Alone
  BY <1>1, IdleRun DEF Alone
<1>5. ListedIsOpenable
  BY <1>2 DEF ListedIsOpenable, Listed
<1>6. Promises = {}
  BY DEF Init, Promises
<1>7. \A p \in Actors : RunGoesBy(p)
  BY <1>1, <1>6, IdleRun, Constants DEF Init, RunGoesBy, Sealing, Copying, Stages
<1>. QED
  BY <1>3, <1>4, <1>5, <1>6, <1>7 DEF IInv

\* One step of anybody.
LEMMA NextIInv == IInv /\ [Next]_vars => IInv'
<1>. SUFFICES ASSUME IInv, [Next]_vars
              PROVE  IInv'
  OBVIOUS
<1>1. ASSUME NEW p \in Managers, NEW kind \in {"backup", "verify", "safety"}, Press(p, kind)
      PROVE  IInv'
  BY <1>1, StartStep DEF Press, Actors
<1>2. CASE Tick
  BY <1>2, StartStep DEF Tick, Actors
<1>3. ASSUME NEW p \in Actors, Step(p)
      PROVE  IInv'
  BY <1>3, GateSteps, SealSteps, CopySteps, ArriveStep, RecordStep, VerifyStep DEF Step
<1>. QED
  BY <1>1, <1>2, <1>3, CrashStep, AroundSteps DEF Next

\* The inductive invariant, of every behaviour.
LEMMA Invariance == Spec => []IInv
  BY InitIInv, NextIInv, PTL DEF Spec

(***************************************************************************)
(* Scratch is bounded: every variable stays in its type, and whatever is   *)
(* cut, refused, broken or locked, the scratch directory holds one archive *)
(* at most for the run that left it and one for each clearing since then   *)
(* that a removal failed (prepareStaging and the clean-up of               *)
(* backup.service.ts).                                                     *)
(***************************************************************************)
THEOREM ScratchIsBounded == Spec => []Inv
<1>1. IInv => Inv
  <2>. SUFFICES ASSUME IInv
                PROVE  Inv
    OBVIOUS
  <2>. USE DEF IInv, Values
  <2>1. staging \in [snapshot : States \cup {None}, archives : Nat]
    BY DEF Scratch
  <2>2. \A place \in PlaceNames : \A i \in DOMAIN copies[place] : copies[place][i] \in Archives
    <3>. SUFFICES ASSUME NEW place \in PlaceNames, NEW i \in DOMAIN copies[place]
                  PROVE  copies[place][i] \in Archives
      OBVIOUS
    <3>1. copies[place] \in Seq(Archives)
      OBVIOUS
    <3>. QED
      BY <3>1
  <2>3. \A p \in Actors :
           /\ run[p].kind \in {"backup", "verify", "safety", None}
           /\ run[p].stage \in {"idle", "gate", "sentinel", "snapshot", "archive", "copy", "put",
                                "record", "fetch"}
    BY RunFields DEF Stages
  <2>4. since \in 0..MaxWrites
    BY Constants DEF States
  <2>. QED
    BY <2>1, <2>2, <2>3, <2>4 DEF Inv, TypeOK, States, Times
<1>. QED
  BY <1>1, Invariance, PTL

(***************************************************************************)
(* Every archive listed anywhere is whole and sealed with a key that was   *)
(* typed back.  The last success, and the safety copy a restore waits for, *)
(* are in a listed archive with every write they stand for, whatever later *)
(* runs do, the clock set back or a removal refused: unless the row itself *)
(* was written with the clock behind a copy listed wherever its own landed *)
(* (runBackupUnlocked, prune, requestApply).                               *)
(***************************************************************************)
THEOREM BackupsAreOpenable == Spec => []CopiesServe
<1>1. IInv => CopiesServe
  <2>. SUFFICES ASSUME IInv
                PROVE  CopiesServe
    OBVIOUS
  <2>1. ASSUME NEW promise \in Promises, ~promise.late
        PROVE  Kept(promise.from)
    <3>1. PICK place \in PlaceNames : Covers(place, promise.from)
      BY <2>1 DEF IInv, Honoured
    <3>2. copies[place] \in Seq(Archives)
      BY DEF IInv, Values
    <3>3. copies[place][1] \in Listed(place)
      BY <3>1, <3>2 DEF Covers, Listed
    <3>4. copies[place][1].whole
      BY <3>3 DEF IInv, ListedIsOpenable
    <3>. QED
      BY <3>1, <3>3, <3>4 DEF Kept, Covers
  <2>2. PromiseIsKept
    BY <2>1 DEF PromiseIsKept, Promises
  <2>. QED
    BY <2>2 DEF IInv, CopiesServe
<1>. QED
  BY <1>1, Invariance, PTL

=============================================================================
