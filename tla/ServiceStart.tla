---------------------------- MODULE ServiceStart ----------------------------
(***************************************************************************)
(* A start of the service on a merchant's machine: placing the database,   *)
(* checking the build and the file, the marker of an unclean stop,         *)
(* migrations, identity and integrity, serving, and the service host that  *)
(* starts the API again and gives up on a failure that repeats.            *)
(*                                                                         *)
(* The process may die at any step; a step is one change that outlives it. *)
(* NODE_ENV is production without LOYALTY_DB_OVERRIDE, and the build is    *)
(* not a demo.  While the service is down, support may reinstall another   *)
(* version, put another database in place, or permit migrations.           *)
(***************************************************************************)
EXTENDS Naturals

CONSTANTS
    Latest,      \* schema versions and migrations are 1..Latest
    Placed,      \* the databases somebody may put in the data directory
    Limit,       \* IDENTICAL_FAILURES_BEFORE_GIVING_UP
    None,
    MaxFaults, MaxVisits    \* bounds: mishaps, and changes made by support

VARIABLES
    file,        \* the live database; None: absent or zero bytes
    stale,       \* a -wal or -shm of another database beside its path
    unmoved,     \* a template was put beside a log that could not be moved (history)
    copies,      \* pre-migration snapshots, and databases moved aside
    marker,      \* the runtime state file
    unmarked,    \* a run could not write its marker (history)
    build, sound,    \* the installed version; its migrations are its own
    permitted,   \* LOYALTY_ALLOW_MIGRATIONS
    at, previous,    \* the API's process: where it is, the marker it read
    host, same, last,    \* the host; failures alike, and the last one's reason
    faults, visits

logVars == <<stale, unmoved>>
fileVars == <<file, logVars, copies>>
markerVars == <<marker, unmarked>>
installVars == <<build, sound, permitted>>
hostVars == <<host, same, last>>
vars == <<fileVars, markerVars, installVars, at, previous, hostVars, faults, visits>>

Odd == Latest + 1    \* a schema no version has
Tables == {"business", "other"}    \* the five censusBusinessData counts, the rest

Files == [shape : 0..Odd, ledger : 0..Latest, settled : BOOLEAN, rows : SUBSET Tables,
          of : {"nobody", "shop", "stranger"}, id : {None, "template", "adopted", "theirs"},
          state : {"whole", "torn", "cut"}]

\* What is put in place was not spoilt by a stop of this service; who has rows
\* is somebody; and another shop's database is signed as theirs, or unsigned
\* with its trade in it, or of a schema no version has.
Placeable(f) ==
    /\ f.state # "torn"
    /\ f.of = "nobody" <=> f.rows = {}
    /\ f.of = "stranger" =>
         \/ f.id = "theirs"
         \/ f.id = None /\ (f.shape = Odd \/ "business" \in f.rows)

ASSUME ServiceStartAssumption ==
    /\ Latest \in Nat \ {0} /\ Limit \in Nat \ {0}
    /\ {MaxFaults, MaxVisits} \subseteq Nat
    /\ None \notin Files \cup {"template", "adopted", "theirs", "running", "stopped"}
    /\ Placed \subseteq Files /\ \A f \in Placed : Placeable(f)

\* What the builder ships with version b, and what SQLite creates on connecting.
Template(b) == [shape |-> b, ledger |-> b, settled |-> TRUE, rows |-> {}, of |-> "nobody",
                id |-> "template", state |-> "whole"]
Bare == [Template(0) EXCEPT !.id = None]

Unmarked == [state |-> None, recent |-> FALSE]
Running == {"placing", "copying", "building", "triage", "sidecars", "replacing",
            "recopying", "marking", "opening", "pending", "applying", "identity",
            "checking", "serving"}
Opened == {"pending", "applying", "identity", "checking", "serving"}
Reasons == {"build", "unreadable", "ledger", "pending", "snapshot", "migration",
            "shape", "stranger", "damage", "died"}

Init ==
    /\ file \in Placed \cup {None} /\ stale = FALSE /\ unmoved = FALSE /\ copies = {}
    /\ marker = Unmarked /\ unmarked = FALSE
    /\ build \in 1..Latest /\ sound = TRUE /\ permitted = FALSE
    /\ at = "off" /\ previous = Unmarked
    /\ host = "up" /\ same = 0 /\ last = None
    /\ faults = 0 /\ visits = 0

Fault == faults < MaxFaults /\ faults' = faults + 1

(***************************************************************************)
(* The host: supervise.  A failure is known by its reason, and a process   *)
(* that leaves none died.                                                  *)
(***************************************************************************)
Alike(why) == IF last = why THEN same + 1 ELSE 1

Fails(why) ==
    /\ at' = "off" /\ last' = why /\ same' = Alike(why)
    /\ host' = IF Alike(why) >= Limit THEN "parked" ELSE host

\* A slip: a refusal that says the process stopped cleanly.
RefuseAsStopped(why) ==
    /\ Fails(why)
    /\ marker' = [marker EXCEPT !.state = "stopped"]
    /\ UNCHANGED <<fileVars, unmarked, installVars, previous, faults, visits>>

Refuse(why) ==
    /\ Fails(why)
    /\ UNCHANGED <<fileVars, markerVars, installVars, previous, faults, visits>>

Launch ==
    /\ host = "up" /\ at = "off"
    /\ at' = "placing"
    /\ UNCHANGED <<fileVars, markerVars, installVars, previous, hostVars, faults, visits>>

(***************************************************************************)
(* Placing: installDatabaseTemplateIfAbsent, reached at the start and      *)
(* again after an empty database is moved aside.  A process that dies in   *)
(* the copy leaves part of a file.                                         *)
(***************************************************************************)
Installing(begin, copying, done) ==
    \/ /\ at = begin /\ file = None
       /\ \/ stale' = FALSE /\ UNCHANGED <<unmoved, faults>>
          \/ stale /\ Fault /\ unmoved' = TRUE /\ UNCHANGED stale    \* renameSync failed
       /\ file' = [Bare EXCEPT !.state = "cut"]
       /\ at' = copying
       /\ UNCHANGED copies
    \/ /\ at = begin /\ file = None
       /\ Fault                           \* copyFileSync failed
       /\ stale' \in {stale, FALSE}
       /\ at' = done
       /\ UNCHANGED <<file, unmoved, copies>>
    \/ /\ at = copying
       /\ file' = Template(build)
       /\ at' = done
       /\ UNCHANGED <<logVars, copies, faults>>

InstallTemplate ==
    /\ \/ /\ at = "placing" /\ file # None
          /\ at' = "building"
          /\ UNCHANGED <<fileVars, faults>>
       \/ Installing("placing", "copying", "building")
       \/ Installing("replacing", "recopying", "marking")
    /\ UNCHANGED <<markerVars, installVars, previous, hostVars, visits>>

AssertMigrationsMatchBuild ==
    /\ at = "building"
    /\ \/ ~sound /\ Refuse("build")
       \/ /\ sound
          /\ at' = "triage"
          /\ UNCHANGED <<fileVars, markerVars, installVars, previous, hostVars, faults, visits>>

(***************************************************************************)
(* supersedeUnusableDatabase: an empty database of another shape is moved  *)
(* aside.  Whatever it cannot be certain of it leaves for the checks.      *)
(***************************************************************************)
\* censusBusinessData (as censusEveryTable, a slip).
FiveTables(f) == f.rows \cap {"business"} = {}

\* censusEveryTable.
CountsNothing(f) == f.rows = {}

Readable(f) == f # None /\ f.state # "cut"
Expendable(f) == f.shape # build /\ CountsNothing(f)

\* SQLite takes a log beside a database for its own, and may spoil what is there.
Replayed ==
    IF stale THEN {file, [file EXCEPT !.state = "torn"], [file EXCEPT !.shape = Odd]} ELSE {file}

Supersede ==
    /\ at = "triage"
    /\ \/ /\ ~Readable(file)
          /\ at' = "marking"
          /\ UNCHANGED <<fileVars, faults>>
       \/ /\ Readable(file)
          /\ \E f \in Replayed :
                \/ /\ ~Expendable(f) /\ UNCHANGED faults
                   /\ file' = f /\ stale' = FALSE /\ UNCHANGED copies
                   /\ at' = "marking"
                \/ /\ Expendable(f) /\ Fault      \* a handle is open on it
                   /\ file' = f /\ stale' = FALSE /\ UNCHANGED copies
                   /\ at' = "marking"
                \/ /\ Expendable(f) /\ UNCHANGED faults
                   /\ copies' = copies \cup {f} /\ file' = None
                   /\ stale' \in BOOLEAN          \* it had sidecars, or not
                   /\ at' = "sidecars"
          /\ UNCHANGED unmoved
    /\ UNCHANGED <<markerVars, installVars, previous, hostVars, visits>>

\* A slip: leaves the database to be created.
MoveSidecarsOnly ==
    /\ at = "sidecars"
    /\ stale' = FALSE
    /\ at' = "marking"
    /\ UNCHANGED <<file, unmoved, copies, markerVars, installVars, previous, hostVars, faults, visits>>

\* One that cannot be renamed stays, and no template is installed.
MoveSidecars ==
    /\ at = "sidecars"
    /\ \/ stale' = FALSE /\ at' = "replacing" /\ UNCHANGED faults
       \/ stale /\ Fault /\ at' = "marking" /\ UNCHANGED stale
    /\ UNCHANGED <<file, unmoved, copies, markerVars, installVars, previous, hostVars, visits>>

(***************************************************************************)
(* The marker: read, then replaced; a write that fails is swallowed.       *)
(***************************************************************************)
MarkRunning ==
    /\ at = "marking"
    /\ previous' = marker
    /\ \/ /\ marker' = [marker EXCEPT !.state = "running"]
          /\ UNCHANGED <<unmarked, faults>>
       \/ Fault /\ unmarked' = TRUE /\ UNCHANGED marker
    /\ at' = "opening"
    /\ UNCHANGED <<fileVars, installVars, hostVars, visits>>

(***************************************************************************)
(* ensureDatabaseReady: the connection creates a missing file; the ledger  *)
(* must be sound; a merchant's machine migrates only when permitted, after *)
(* a snapshot, one transaction for each migration.                         *)
(***************************************************************************)
Open ==
    /\ at = "opening"
    /\ \/ file # None /\ file.state = "cut" /\ Refuse("unreadable")
       \/ file # None /\ file.state # "cut" /\ ~file.settled /\ Refuse("ledger")
       \/ /\ file # None => file.state # "cut" /\ file.settled
          /\ file' \in IF file = None THEN {Bare} ELSE Replayed
          /\ stale' = FALSE                \* a log beside an empty database is deleted
          /\ at' = "pending"
          /\ UNCHANGED <<unmoved, copies, markerVars, installVars, previous, hostVars, faults, visits>>

ListPending ==
    /\ at = "pending"
    /\ \/ /\ file.ledger >= build
          /\ at' = "identity"
          /\ UNCHANGED <<fileVars, hostVars, faults>>
       \/ /\ file.ledger < build /\ ~permitted
          /\ Fails("pending")
          /\ UNCHANGED <<fileVars, faults>>
       \/ /\ file.ledger < build /\ permitted
          /\ copies' = copies \cup {file}
          /\ at' = "applying"
          /\ UNCHANGED <<file, logVars, hostVars, faults>>
       \/ /\ file.ledger < build /\ permitted
          /\ Fault /\ Fails("snapshot")   \* no room, or no right to write
          /\ UNCHANGED fileVars
    /\ UNCHANGED <<markerVars, installVars, previous, visits>>

ApplyMigration ==
    /\ at = "applying"
    /\ \/ /\ file.ledger < build /\ file.shape = file.ledger
          /\ file' = [file EXCEPT !.shape = @ + 1, !.ledger = @ + 1]
          /\ UNCHANGED <<at, hostVars>>
       \/ /\ file.ledger < build /\ file.shape # file.ledger
          /\ Fails("migration")           \* its statements do not apply
          /\ UNCHANGED file
       \/ /\ file.ledger >= build
          /\ at' = "identity"
          /\ UNCHANGED <<file, hostVars>>
    /\ UNCHANGED <<logVars, copies, markerVars, installVars, previous, faults, visits>>

(***************************************************************************)
(* verifyDatabaseIdentity and verifyDatabaseIntegrity.                     *)
(***************************************************************************)
Recognised(f) == f.id # None
Adoptable(f) == ~Recognised(f) /\ FiveTables(f)

VerifyIdentity ==
    /\ at = "identity"
    /\ \/ file.shape # build /\ Refuse("shape")
       \/ file.shape = build /\ ~Recognised(file) /\ ~Adoptable(file) /\ Refuse("stranger")
       \/ /\ file.shape = build /\ (Recognised(file) \/ Adoptable(file))
          /\ file' = IF Recognised(file) THEN file ELSE [file EXCEPT !.id = "adopted"]
          /\ at' = "checking"
          /\ UNCHANGED <<logVars, copies, markerVars, installVars, previous, hostVars, faults, visits>>

\* decideIntegrityDepth: the full check after an unclean stop, or weekly.
FullCheck(m) == m.state # "stopped" \/ ~m.recent

\* What recordFullCheck leaves.
Checked(m) == [state |-> IF m.state = None THEN "running" ELSE m.state, recent |-> TRUE]

VerifyIntegrity ==
    /\ at = "checking"
    /\ \/ file.state = "torn" /\ FullCheck(previous) /\ Refuse("damage")
       \/ /\ file.state # "torn" \/ ~FullCheck(previous)
          /\ marker' = IF FullCheck(previous) THEN Checked(marker) ELSE marker
          /\ at' = "serving"
          /\ UNCHANGED <<fileVars, unmarked, installVars, previous, hostVars, faults, visits>>

(***************************************************************************)
(* Serving, and the ways it ends.                                          *)
(***************************************************************************)
Trade ==
    /\ at = "serving"
    /\ file' = [file EXCEPT !.rows = Tables, !.of = IF @ = "nobody" THEN "shop" ELSE @]
    /\ UNCHANGED <<logVars, copies, markerVars, installVars, at, previous, hostVars, faults, visits>>

\* HEALTHY_AFTER: the failures before it are forgiven.
RunsAMinute ==
    /\ at = "serving"
    /\ same' = 0 /\ last' = None
    /\ UNCHANGED <<fileVars, markerVars, installVars, at, previous, host, faults, visits>>

WeekPasses ==
    /\ at = "serving"
    /\ marker' = [marker EXCEPT !.recent = FALSE]
    /\ UNCHANGED <<fileVars, unmarked, installVars, at, previous, hostVars, faults, visits>>

\* The shutdown: asked by the host, or by the API itself to apply a restore,
\* which the host answers with a fresh start.
Shutdown ==
    /\ at = "serving"
    /\ marker' = [marker EXCEPT !.state = "stopped"]
    /\ at' = "off" /\ same' = 0 /\ last' = None
    /\ host' \in {"up", "down"}
    /\ UNCHANGED <<fileVars, unmarked, installVars, previous, faults, visits>>

StopHost ==
    /\ at = "off" /\ host # "down"
    /\ host' = "down" /\ same' = 0 /\ last' = None
    /\ UNCHANGED <<fileVars, markerVars, installVars, at, previous, faults, visits>>

\* The process dies, alone or with the machine, which starts the host afresh.
Die ==
    /\ at \in Running /\ Fault
    /\ \/ Fails("died")
       \/ at' = "off" /\ host' = "up" /\ same' = 0 /\ last' = None
    /\ file' \in IF at \in Opened THEN {file, [file EXCEPT !.state = "torn"]} ELSE {file}
    /\ UNCHANGED <<logVars, copies, markerVars, installVars, previous, visits>>

(***************************************************************************)
(* Support, with the service down.                                         *)
(***************************************************************************)
Visit == host = "down" /\ visits < MaxVisits /\ visits' = visits + 1

Reinstall ==
    /\ Visit
    /\ build' \in 1..Latest /\ sound' \in BOOLEAN
    /\ UNCHANGED <<fileVars, markerVars, permitted, at, previous, hostVars, faults>>

Permit ==
    /\ Visit
    /\ permitted' = ~permitted
    /\ UNCHANGED <<fileVars, markerVars, build, sound, at, previous, hostVars, faults>>

PlaceFile ==
    /\ Visit
    /\ file' \in Placed \cup {None}
    /\ stale' \in IF file' = None THEN BOOLEAN ELSE {FALSE}
    /\ UNCHANGED <<unmoved, copies, markerVars, installVars, at, previous, hostVars, faults>>

StartHost ==
    /\ host = "down"
    /\ host' = "up"
    /\ UNCHANGED <<fileVars, markerVars, installVars, at, previous, same, last, faults, visits>>

Boot ==
    \/ Launch \/ InstallTemplate \/ AssertMigrationsMatchBuild \/ Supersede \/ MoveSidecars
    \/ MarkRunning \/ Open \/ ListPending \/ ApplyMigration \/ VerifyIdentity \/ VerifyIntegrity

Next ==
    \/ Boot \/ Trade \/ RunsAMinute \/ WeekPasses \/ Shutdown \/ StopHost \/ Die
    \/ Reinstall \/ Permit \/ PlaceFile \/ StartHost

Spec == Init /\ [][Next]_vars

\* The host launches the API and the API's start runs: nothing in it waits.
FairSpec == Spec /\ WF_vars(Boot)

(***************************************************************************)
(* Properties.                                                             *)
(***************************************************************************)
TypeOK ==
    /\ file \in Files \cup {None} /\ copies \subseteq Files /\ {stale, unmoved} \subseteq BOOLEAN
    /\ {marker, previous} \subseteq [state : {None, "running", "stopped"}, recent : BOOLEAN]
    /\ unmarked \in BOOLEAN /\ build \in 1..Latest /\ sound \in BOOLEAN /\ permitted \in BOOLEAN
    /\ at \in Running \cup {"off"} /\ host \in {"up", "parked", "down"}
    /\ same \in 0..Limit /\ last \in Reasons \cup {None}
    /\ faults \in 0..MaxFaults /\ visits \in 0..MaxVisits

\* What is served has the shape of this build, is signed, and is not another
\* shop's unless that came with a signature (db-identity.ts).  A database that
\* an unclean stop or another database's log has damaged is served only if a
\* run could not write its marker (db-integrity.ts), or a log that could not be
\* moved aside had the template copied beside it all the same (migrate.ts).
ServedIsFit ==
    at = "serving" =>
        /\ sound /\ file.shape = build /\ Recognised(file)
        /\ file.of = "stranger" => file.id = "theirs"
        /\ file.state = "torn" => unmarked \/ unmoved

\* Both hold over every start, mishap and visit of support.
Inv == TypeOK /\ ServedIsFit

\* Over any number of starts, crashes and versions, the service never moves
\* aside, replaces or empties a database that holds rows, and changes its
\* schema only when a copy of those rows in the earlier schema exists.
RecordsAreKept ==
    [][(file # None /\ file.rows # {} /\ file' # file /\ visits' = visits) =>
         /\ file' # None /\ file.rows \subseteq file'.rows /\ file'.of = file.of
         /\ file'.shape # file.shape =>
              \E c \in copies : c.rows = file.rows /\ c.shape < file'.shape]_vars

\* A machine somebody is entitled to open the shop on: nothing there, an
\* empty database, or the shop's own of this version.
Fit ==
    /\ sound
    /\ \/ file = None
       \/ at \in {"copying", "recopying"}
       \/ /\ file.state = "whole" /\ file.rows = {}
          /\ file.shape = build => file.settled /\ file.ledger >= build
       \/ /\ file.state = "whole" /\ file.shape = build /\ Recognised(file)
          /\ file.settled /\ file.ledger >= build

\* Such a machine comes to serve, however its starts are cut, unless the
\* service is stopped or a crash spoils the file: the host does not give up
\* before the starts have put it right.
OpensAgain == (Fit /\ host = "up") ~> (at = "serving" \/ host = "down" \/ ~Fit)
=============================================================================
