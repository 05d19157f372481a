------------------------------- MODULE Licence -------------------------------
(***************************************************************************)
(* The licence service: which codes an installation holds, what it keeps   *)
(* of them outside the database, how it remembers the last status it could *)
(* confirm, and what it answers when asked whether a sale may be recorded. *)
(*                                                                         *)
(* The database can be replaced by an older copy while the service is      *)
(* down; the mirror of codes and two of the three clock anchors lie        *)
(* outside it.  The native module is loaded, or not, for the life of a     *)
(* process.  A check is two steps, because it awaits between reading the   *)
(* codes and remembering what they came to, and the status it remembers    *)
(* reaches the disk later still.  One code is entered at a time, a bound.  *)
(* Times are whole units; a unit is shorter than any window.               *)
(***************************************************************************)
EXTENDS LicenceRules

CONSTANTS
    Codes,       \* licence codes a manager may paste
    Payload,     \* Payload[c]: what code c carries
    Unlocks,     \* emergency codes
    Until,       \* Until[u]: the end of u's window
    Checks,      \* requests that ask for the status
    Env,         \* which disturbances a run admits
    MaxTime, MaxWrites, MaxFaults   \* bounds

ASSUME LicenceAssumption ==
    /\ Payload \in [Codes -> Payloads]
    /\ Until \in [Unlocks -> Nat]
    /\ Codes \cap Unlocks = {}
    /\ None \notin Codes \cup Unlocks
    /\ IsFiniteSet(Codes) /\ IsFiniteSet(Unlocks)
    /\ MaxTime \in Nat \ {0} /\ {MaxWrites, MaxFaults} \subseteq Nat

VARIABLES
    now,         \* the system clock
    db,          \* the database: codes, those whose stored text no longer
                 \* verifies, unlocks, the remembered status, a clock anchor
    mirror,      \* license-codes.json
    outside,     \* the registry and file anchors
    copy,        \* an older copy of the database
    up, works,   \* the process, and whether its module loaded
    seen,        \* installation.latestSeen; None before it is loaded
    known,       \* rememberedStatus, the key claimed in memory
    inflight,    \* status rows issued and not yet written
    check,       \* requests for the status
    entry,       \* the request that enters a code
    paid,        \* a manager was told that a perpetual licence is active
    peak,        \* the latest time this installation recorded
    faults

diskVars == <<db, mirror, outside, copy>>
processVars == <<up, works, seen, known, inflight>>
historyVars == <<paid, peak>>
licenceVars == <<now, diskVars, processVars, check, entry, historyVars, faults>>

Time == 0..MaxTime
Moments == Int \cup {None}
Places == {"registry", "file"}
Rows == {r \in [status : Statuses, until : Moments, at : Moments] :
            r.status \in TimeLimited => None \notin {r.until, r.at}}
Unknown == [status |-> "UNLICENSED", until |-> None, at |-> None]
Holdings == [codes : SUBSET Codes, spoiled : SUBSET Codes, unlocks : SUBSET Unlocks]
NoCodes == [codes |-> {}, spoiled |-> {}, unlocks |-> {}]
Databases == [held : Holdings, row : Rows, anchor : Moments]
Idle == [stage |-> "idle", held |-> NoCodes, paid |-> FALSE, status |-> None, degraded |-> FALSE]
NoEntry == [stage |-> "idle", code |-> None, latest |-> None, reset |-> FALSE]

LicenceTypeOK ==
    /\ now \in Time
    /\ db \in Databases /\ copy \in Databases
    /\ mirror \in [codes : SUBSET Codes, unlocks : SUBSET Unlocks]
    /\ outside \in [Places -> Moments]
    /\ up \in BOOLEAN /\ works \in BOOLEAN
    /\ seen \in Moments
    /\ known \in {None} \cup (Statuses \X Moments)
    /\ inflight \in SUBSET Rows
    /\ check \in [Checks -> [stage : {"idle", "read", "answered"}, held : Holdings, paid : BOOLEAN,
                             status : Statuses \cup {None}, degraded : BOOLEAN]]
    /\ entry \in [stage : {"idle", "commit", "mirror", "anchors", "answer"},
                  code : Codes \cup Unlocks \cup {None}, latest : Moments, reset : BOOLEAN]
    /\ paid \in BOOLEAN
    /\ peak \in Moments
    /\ faults \in 0..MaxFaults

LicenceInit ==
    /\ now = 1
    /\ db = [held |-> NoCodes, row |-> Unknown, anchor |-> None]
    /\ mirror = [codes |-> {}, unlocks |-> {}]
    /\ outside = [p \in Places |-> None]
    /\ copy = db
    /\ up = FALSE /\ works = TRUE
    /\ seen = None /\ known = None /\ inflight = {}
    /\ check = [c \in Checks |-> Idle]
    /\ entry = NoEntry
    /\ paid = FALSE /\ peak = None
    /\ faults = 0

-----------------------------------------------------------------------------
(* What stored codes come to.  A spoiled one fails its own check.          *)
Valid(held) == {Payload[c] : c \in held.codes \ held.spoiled}
Windows(unlocks) == {Until[u] : u \in unlocks}
HasPerpetual(held) == \E p \in Valid(held) : p.kind = "perpetual"

StatusOf(held, recorded) ==
    EvaluateAll(Valid(held), held.spoiled # {}, Windows(held.unlocks), now, recorded)

With(held, code) ==
    [held EXCEPT !.codes = @ \cup ({code} \cap Codes), !.unlocks = @ \cup ({code} \cap Unlocks)]

\* The texts the mirror is written from: a spoiled one no longer carries its code.
Texts(held) == [codes |-> held.codes \ held.spoiled, unlocks |-> held.unlocks]

\* A slip: a status is remembered without the time it was confirmed.
UndatedRow(result) == [status |-> result.status, until |-> result.until, at |-> None]

RowOf(result) == [status |-> result.status, until |-> result.until, at |-> now]
KeyOf(result) == <<result.status, result.until>>

\* A slip: nothing is put back.
NothingRecovered(latest) == db.held

\* syncMirror: a code is put back unless its licence has a row already, an
\* emergency window only while it runs.
Recovered(latest) ==
    [db.held EXCEPT !.codes = @ \cup mirror.codes,
                    !.unlocks = @ \cup {u \in mirror.unlocks : Later(now, latest) < Until[u]}]

\* loadInstallation, once per process and before any check or entry: resolve
\* the anchors, put back what the mirror holds, rewrite it, touch the anchors.
Load ==
    LET latest == Resolve({db.anchor} \cup {outside[p] : p \in Places})
        first == Later(now, latest)
    IN  /\ up /\ works /\ seen = None
        /\ db' = [db EXCEPT !.held = Recovered(latest), !.anchor = first]
        /\ mirror' = Texts(Recovered(latest))
        /\ outside' = [p \in Places |-> first]
        /\ seen' = first
        /\ peak' = Later(first, peak)
        /\ UNCHANGED <<now, copy, up, works, known, inflight, check, entry, paid, faults>>

\* touch: every ten minutes; the anchors move together, never back.
Touch ==
    LET at == Later(now, seen) IN
    /\ up /\ seen # None /\ at # seen
    /\ seen' = at
    /\ db' = [db EXCEPT !.anchor = at]
    /\ outside' = [p \in Places |-> at]
    /\ peak' = Later(at, peak)
    /\ UNCHANGED <<now, mirror, copy, up, works, known, inflight, check, entry, paid, faults>>

(***************************************************************************)
(* A check: evaluateNow, or degradedState when the module is not there.    *)
(***************************************************************************)
ReadCodes(c) ==
    /\ up /\ works /\ seen # None
    /\ check[c].stage # "read"
    /\ check' = [check EXCEPT ![c] = [Idle EXCEPT !.stage = "read", !.held = db.held, !.paid = paid]]
    /\ UNCHANGED <<now, diskVars, processVars, entry, historyVars, faults>>

\* rememberStatus claims the key in memory and issues the row without waiting
\* for it; one that has not changed is written again every ten minutes.
Remember(result) ==
    \/ /\ known' = KeyOf(result)
       /\ inflight' = inflight \cup {RowOf(result)}
       /\ Cardinality(inflight') <= MaxWrites
    \/ /\ known = KeyOf(result)
       /\ UNCHANGED <<known, inflight>>

Answered(c, status, degraded) ==
    check' = [check EXCEPT ![c] = [Idle EXCEPT !.stage = "answered", !.status = status,
                                               !.degraded = degraded]]

Conclude(c) ==
    LET result == StatusOf(check[c].held, seen) IN
    /\ check[c].stage = "read"
    /\ Remember(result)
    /\ Answered(c, result.status, FALSE)
    /\ UNCHANGED <<now, diskVars, up, works, seen, entry, historyVars, faults>>

\* A slip: the fallback trusts the system clock alone.
SystemTime == None

\* The recorded time as the fallback reads it, without the registry.
ReadableTime == Resolve({db.anchor, outside["file"]})

\* What the last recorded status still authorises; recorded time moves on
\* with the clock, the status never does.
Degrade(c) ==
    /\ up /\ ~works
    /\ Answered(c, FallbackStatus(db.row, now, ReadableTime), TRUE)
    /\ \/ /\ ReadableTime # now /\ Later(now, ReadableTime) = now
          /\ db' = [db EXCEPT !.anchor = now]
          /\ outside' = [outside EXCEPT !["file"] = Later(now, outside["file"])]
          /\ peak' = Later(now, peak)
       \/ UNCHANGED <<db, outside, peak>>
    /\ UNCHANGED <<now, mirror, copy, processVars, entry, paid, faults>>

LandStatus ==
    /\ up
    /\ \E row \in inflight :
          /\ db' = [db EXCEPT !.row = row]
          /\ inflight' = inflight \ {row}
    /\ UNCHANGED <<now, mirror, outside, copy, up, works, seen, known, check, entry,
                   historyVars, faults>>

(***************************************************************************)
(* Entering a code: activateLicense and enterUnlock.                       *)
(***************************************************************************)
Ready == up /\ works /\ seen # None /\ entry.stage = "idle"

\* The status is checked first, and remembered like any other.  A trial is
\* refused before its issue, after its end and beside a perpetual licence.  A
\* recorded time well past the code's issue is one this machine cannot have
\* seen, and the commit is judged by the time that replaces it.
PasteCode(c) ==
    LET p == Payload[c]
        reset == seen > p.iat + Tolerance
    IN  /\ Ready /\ c \notin db.held.codes
        /\ p.kind = "trial" =>
              p.iat <= now + Tolerance /\ now < p.exp /\ ~HasPerpetual(db.held)
        /\ entry' = [stage |-> "commit", code |-> c, reset |-> reset,
                     latest |-> IF reset THEN Later(now, p.iat) ELSE seen]
        /\ Remember(StatusOf(db.held, seen))
        /\ UNCHANGED <<now, diskVars, up, works, seen, check, historyVars, faults>>

TypeUnlock(u) ==
    /\ Ready /\ u \notin db.held.unlocks
    /\ Later(now, seen) < Until[u]
    /\ entry' = [stage |-> "commit", code |-> u, reset |-> FALSE, latest |-> seen]
    /\ UNCHANGED <<now, diskVars, processVars, check, historyVars, faults>>

\* One that has a row is answered as already active, once its status is on disk.
RepeatCode(c) ==
    LET result == StatusOf(db.held, seen) IN
    /\ Ready /\ c \in db.held.codes
    /\ inflight = {}
    /\ \/ /\ known' = KeyOf(result)
          /\ db' = [db EXCEPT !.row = RowOf(result)]
       \/ /\ known = KeyOf(result)
          /\ UNCHANGED <<known, db>>
    /\ paid' = (paid \/ Payload[c].kind = "perpetual")
    /\ UNCHANGED <<now, mirror, outside, copy, up, works, seen, inflight, check, entry, peak, faults>>

\* commitWithStatus: the code and the status it brings, in one transaction.
Commit ==
    LET result == StatusOf(With(db.held, entry.code), entry.latest) IN
    /\ entry.stage = "commit"
    /\ db' = [db EXCEPT !.held = With(@, entry.code), !.row = RowOf(result)]
    /\ known' = KeyOf(result)
    /\ entry' = [entry EXCEPT !.stage = "mirror"]
    /\ UNCHANGED <<now, mirror, outside, copy, up, works, seen, inflight, check, historyVars, faults>>

RefreshMirror ==
    /\ entry.stage = "mirror"
    /\ mirror' = Texts(db.held)
    /\ entry' = [entry EXCEPT !.stage = IF entry.reset THEN "anchors" ELSE "answer"]
    /\ UNCHANGED <<now, db, outside, copy, processVars, check, historyVars, faults>>

\* The vendor's clock outranks a recorded time that never was.
ResetAnchors ==
    /\ entry.stage = "anchors"
    /\ seen' = entry.latest
    /\ db' = [db EXCEPT !.anchor = entry.latest]
    /\ outside' = [p \in Places |-> entry.latest]
    /\ peak' = entry.latest
    /\ entry' = [entry EXCEPT !.stage = "answer"]
    /\ UNCHANGED <<now, mirror, copy, up, works, known, inflight, check, paid, faults>>

\* The answer carries the status, checked once more.
AnswerEntry ==
    /\ entry.stage = "answer"
    /\ paid' = (paid \/ HasPerpetual(With(NoCodes, entry.code)))
    /\ entry' = NoEntry
    /\ Remember(StatusOf(db.held, seen))
    /\ UNCHANGED <<now, diskVars, up, works, seen, check, peak, faults>>

-----------------------------------------------------------------------------
\* The process and the machine around it.
Start ==
    /\ ~up /\ up' = TRUE
    /\ UNCHANGED <<now, diskVars, works, seen, known, inflight, check, entry, historyVars, faults>>

Stop ==
    /\ up /\ up' = FALSE
    /\ seen' = None /\ known' = None /\ inflight' = {}
    /\ check' = [c \in Checks |-> Idle]
    /\ entry' = NoEntry
    /\ UNCHANGED <<now, diskVars, works, historyVars, faults>>

ClockTicks ==
    /\ now < MaxTime /\ now' = now + 1
    /\ UNCHANGED <<diskVars, processVars, check, entry, historyVars, faults>>

Fault == faults < MaxFaults /\ faults' = faults + 1

ClockIsSet(t) ==
    /\ "clock" \in Env /\ Fault /\ t < now /\ now' = t
    /\ UNCHANGED <<diskVars, processVars, check, entry, historyVars>>

ModuleChanges ==
    /\ "module" \in Env /\ ~up /\ works' = ~works
    /\ UNCHANGED <<now, diskVars, up, seen, known, inflight, check, entry, historyVars, faults>>

\* One copy of a shop on its trial, taken when the service is quiet.
TakeCopy ==
    /\ "restore" \in Env /\ up /\ Fault
    /\ entry = NoEntry /\ inflight = {}
    /\ db.held.codes # {} /\ ~HasPerpetual(db.held)
    /\ copy' = db
    /\ UNCHANGED <<now, db, mirror, outside, processVars, check, entry, historyVars>>

RestoreCopy ==
    /\ "restore" \in Env /\ ~up /\ db' = copy
    /\ copy.held.codes # {}
    /\ UNCHANGED <<now, mirror, outside, copy, processVars, check, entry, historyVars, faults>>

SpoilCode(c) ==
    /\ "damage" \in Env /\ ~up /\ Fault
    /\ c \in db.held.codes /\ db' = [db EXCEPT !.held.spoiled = @ \cup {c}]
    /\ UNCHANGED <<now, mirror, outside, copy, processVars, check, entry, historyVars>>

LoseAnchor(p) ==
    /\ "anchors" \in Env /\ ~up /\ Fault
    /\ outside' = [outside EXCEPT ![p] = None]
    /\ UNCHANGED <<now, db, mirror, copy, processVars, check, entry, historyVars>>

CheckStep(c) == ReadCodes(c) \/ Conclude(c) \/ Degrade(c)
EntryStep ==
    \/ \E c \in Codes : PasteCode(c) \/ RepeatCode(c)
    \/ \E u \in Unlocks : TypeUnlock(u)
    \/ Commit \/ RefreshMirror \/ ResetAnchors \/ AnswerEntry
Disturbance ==
    \/ ClockTicks \/ ModuleChanges \/ TakeCopy \/ RestoreCopy
    \/ \E t \in Time : ClockIsSet(t)
    \/ \E c \in Codes : SpoilCode(c)
    \/ \E p \in Places : LoseAnchor(p)

LicenceNext ==
    \/ Load \/ Touch \/ LandStatus \/ Start \/ Stop
    \/ \E c \in Checks : CheckStep(c)
    \/ EntryStep
    \/ Disturbance

LicenceSpec == LicenceInit /\ [][LicenceNext]_licenceVars
-----------------------------------------------------------------------------
Working(status) == status \notin ReadOnlyStatuses

Answers(c) == check[c].stage # "answered" /\ check'[c].stage = "answered"

\* A shop that was told its perpetual licence is active is never refused while
\* the module can read its code: not after a crash in the middle of an
\* activation, a clock set back, a lost anchor or a database from before it
\* (unless a stored code is damaged as well).
PaidIsNeverStopped ==
    [][\A c \in Checks :
          Answers(c) /\ ~check'[c].degraded /\ check[c].paid /\ check[c].held.spoiled = {} =>
            check'[c].status = "PERPETUAL"]_licenceVars

\* Whatever is done to the clock, the anchors, the module or the database, a
\* time-limited status keeps working only until the last end a code of this
\* installation carries, judged by the latest time the installation recorded:
\* winding the clock back, or taking the module away, never adds a day.  A run
\* may put an older database back, or lose an anchor, not both.
NoDayIsAdded ==
    [][\A c \in Checks : Answers(c) /\ Working(check'[c].status) /\ check'[c].status # "PERPETUAL" =>
          \E end \in Windows(Unlocks) \cup ({Payload[p].exp : p \in Codes} \ {None}) :
              peak < end + Grace + Tolerance]_licenceVars

\* The clock shows a time before one that a stored code is for: before the window
\* of an emergency code, or before a trial's issue.
BeforeWindow == \E end \in Windows(db.held.unlocks) : now < end - UnlockCover
BeforeTrial == \E p \in Valid(db.held) : p.kind = "trial" /\ now < p.iat - IssueLead

\* A sale the status allows now is one RecordingAllowed would accept later from
\* the same stored codes, if its till has to queue it, whatever the clock is set to
\* meanwhile, and with the module gone, unless a stored code is damaged or the
\* clock was set to a time before a window, or, where only the remembered status
\* was asked, before a trial's issue.
AllowedIsCovered ==
    [][\A c \in Checks :
          Answers(c) /\ Working(check'[c].status) /\ db.held.spoiled = {} =>
             \/ RecordingAllowed(Valid(db.held), Windows(db.held.unlocks), now)
             \/ BeforeWindow
             \/ check'[c].degraded /\ BeforeTrial]_licenceVars
=============================================================================
