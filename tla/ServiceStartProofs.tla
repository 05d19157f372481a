-------------------------- MODULE ServiceStartProofs --------------------------
(***************************************************************************)
(* For any number of versions, mishaps and visits of support: only a fit   *)
(* database is served, and records are kept.                               *)
(***************************************************************************)
EXTENDS ServiceStart, TLAPS

\* The host gives up at the limit, and only while the API is off.
HostRuns ==
    /\ at # "off" => host = "up"
    /\ same = Limit => host = "parked"
    /\ host = "down" => same = 0

\* What each point of the start has made sure of.
Built == {"triage", "sidecars", "replacing", "recopying", "marking", "opening"} \cup Opened
Ensured ==
    /\ at \in Built => sound
    /\ at \in Opened => file # None
    /\ stale => at \notin Opened
    /\ stale /\ file # None => unmoved /\ file.rows = {}
    /\ at \in {"copying", "recopying"} => file # None /\ file.rows = {}
    /\ at \in {"checking", "serving"} => file.shape = build /\ Recognised(file)
    /\ at = "applying" => \E c \in copies : c.rows = file.rows /\ c.shape <= file.shape

\* Whose rows they are, through adoption, trade and migrations.
Owned ==
    file # None =>
        /\ file.of = "nobody" <=> file.rows = {}
        /\ file.of = "stranger" =>
             \/ file.id = "theirs"
             \/ file.id = None /\ (file.shape = Odd \/ "business" \in file.rows)

\* A file damaged by a run is known by the marker that run wrote, which stays
\* until a full check or another database; only a log that could not be moved
\* aside damages one unmarked.
Torn == file # None /\ file.state = "torn"
Unclean ==
    /\ at \in Opened \cup {"opening"} => unmarked \/ marker.state = "running"
    /\ Torn => \/ unmarked \/ unmoved
               \/ /\ marker.state # "stopped" /\ at # "serving"
                  /\ at \in Opened \cup {"opening"} => previous.state # "stopped"

(***************************************************************************)
(* The databases a step writes.                                            *)
(***************************************************************************)
LEMMA Constants ==
    /\ Latest \in Nat \ {0} /\ Limit \in Nat \ {0} /\ MaxFaults \in Nat /\ MaxVisits \in Nat
    /\ Odd = Latest + 1 /\ Odd \notin 0..Latest
    /\ None \notin Files /\ None \notin {"template", "adopted", "theirs", "running", "stopped"}
    /\ Placed \subseteq Files /\ \A f \in Placed : Placeable(f)
  BY ServiceStartAssumption DEF Odd

\* The ranges of a database's fields.
LEMMA Fields ==
    ASSUME NEW f \in Files
    PROVE  /\ f.shape \in 0..Odd /\ f.ledger \in 0..Latest /\ f.settled \in BOOLEAN
           /\ f.rows \subseteq Tables /\ f.of \in {"nobody", "shop", "stranger"}
           /\ f.id \in {None, "template", "adopted", "theirs"}
           /\ f.state \in {"whole", "torn", "cut"}
  BY DEF Files

\* A template, and what SQLite or half a copy leaves, are empty and nobody's.
LEMMA Empty ==
    ASSUME NEW b \in 0..Latest
    PROVE  \A f \in {Template(b), Bare, [Bare EXCEPT !.state = "cut"]} :
              /\ f \in Files /\ f # None
              /\ f.rows = {} /\ f.of = "nobody" /\ f.state # "torn"
<1>1. 0 \in 0..Odd /\ 0 \in 0..Latest /\ b \in 0..Odd
  BY Constants
<1>2. Template(b) \in Files /\ Template(0) \in Files
  BY <1>1 DEF Template, Files
<1>3. Bare \in Files /\ [Bare EXCEPT !.state = "cut"] \in Files
  BY <1>1 DEF Bare, Template, Files
<1>4. /\ Template(b).rows = {} /\ Template(b).of = "nobody" /\ Template(b).state = "whole"
      /\ Bare.rows = {} /\ Bare.of = "nobody" /\ Bare.state = "whole"
  BY DEF Template, Bare
<1>5. LET f == [Bare EXCEPT !.state = "cut"]
      IN  f.rows = {} /\ f.of = "nobody" /\ f.state = "cut"
  BY DEF Template, Bare
<1>. QED
  BY <1>2, <1>3, <1>4, <1>5, Constants

\* What a step changes in a database, and what it leaves.
LEMMA Spoiling ==
    ASSUME NEW f \in Files
    PROVE  LET g == [f EXCEPT !.state = "torn"] IN
              /\ g \in Files /\ g # None
              /\ g.shape = f.shape /\ g.rows = f.rows /\ g.of = f.of /\ g.id = f.id
  BY Constants DEF Files

\* What a log that is not its own makes of a database.
LEMMA Replaying ==
    ASSUME NEW f \in Files, f \in Replayed, file \in Files
    PROVE  /\ f.rows = file.rows /\ f.of = file.of /\ f.id = file.id
           /\ f.shape = file.shape \/ f.shape = Odd
           /\ f # file => stale
  BY DEF Replayed, Files

LEMMA ReplayedFiles ==
    ASSUME file \in Files
    PROVE  Replayed \subseteq Files
  BY Constants DEF Replayed, Files

\* The file changes its identity only.
LEMMA Adopting ==
    ASSUME NEW f \in Files
    PROVE  LET g == [f EXCEPT !.id = "adopted"] IN
              /\ g \in Files /\ g # None /\ g.id = "adopted"
              /\ g.shape = f.shape /\ g.rows = f.rows /\ g.of = f.of /\ g.state = f.state
  BY Constants DEF Files

\* One migration: shape and ledger move up together.
LEMMA Migrating ==
    ASSUME NEW f \in Files, f.ledger < Latest, f.shape = f.ledger
    PROVE  LET g == [f EXCEPT !.shape = @ + 1, !.ledger = @ + 1] IN
              /\ g \in Files /\ g # None /\ g.shape = f.shape + 1 /\ g.shape # f.shape
              /\ g.rows = f.rows /\ g.of = f.of /\ g.id = f.id /\ g.state = f.state
<1>1. f.ledger + 1 \in 0..Latest /\ f.shape + 1 \in 0..Odd /\ f.shape \in Nat
  BY Fields, Constants
<1>. DEFINE g == [f EXCEPT !.shape = @ + 1, !.ledger = @ + 1]
<1>2. g \in Files
  BY <1>1 DEF Files
<1>3. /\ g.shape = f.shape + 1
      /\ g.rows = f.rows /\ g.of = f.of /\ g.id = f.id /\ g.state = f.state
  BY DEF Files
<1>. QED
  BY <1>1, <1>2, <1>3, Constants

\* Trading fills the tables, and the file becomes the shop's if nobody's.
LEMMA Trading ==
    ASSUME NEW f \in Files
    PROVE  LET g == [f EXCEPT !.rows = Tables, !.of = IF @ = "nobody" THEN "shop" ELSE @] IN
              /\ g \in Files /\ g # None /\ g.rows = Tables
              /\ g.of = IF f.of = "nobody" THEN "shop" ELSE f.of
              /\ g.shape = f.shape /\ g.id = f.id /\ g.state = f.state
  BY Constants DEF Files

(***************************************************************************)
(* The host.                                                               *)
(***************************************************************************)
HostTyped ==
    /\ at \in Running \cup {"off"} /\ host \in {"up", "parked", "down"}
    /\ same \in 0..Limit /\ last \in Reasons \cup {None}

\* A failure counts one more, and the count that reaches the limit parks it.
LEMMA FailStep ==
    ASSUME HostTyped, HostRuns, at # "off", NEW why \in Reasons, Fails(why)
    PROVE  HostTyped' /\ HostRuns'
<1>1. Alike(why) \in 0..Limit /\ same \in Nat
  BY Constants DEF HostTyped, HostRuns, Alike
<1>. QED
  BY <1>1, Constants DEF Fails, HostTyped, HostRuns

\* What the host counts and why it stopped stay in step with the process.
LEMMA HostStep ==
    ASSUME HostTyped, HostRuns, [Next]_vars
    PROVE  HostTyped' /\ HostRuns'
<1>. USE DEF hostVars
<1>1. ASSUME NEW why \in Reasons, Fails(why), at # "off"
      PROVE  HostTyped' /\ HostRuns'
  BY <1>1, FailStep
<1>2. ASSUME UNCHANGED hostVars, at' \in Running \cup {"off"}, at # "off" \/ at' = at \/ host = "up"
      PROVE  HostTyped' /\ HostRuns'
  BY <1>2 DEF HostTyped, HostRuns
<1>3. ASSUME at' = "off" \/ (at' = at /\ host' = host), at' \in Running \cup {"off"},
             same' = 0, last' = None, host' \in {"up", "down"} \/ host' = host
      PROVE  HostTyped' /\ HostRuns'
  BY <1>3, Constants DEF HostTyped, HostRuns
<1>4. CASE Launch
  BY <1>2, <1>4 DEF Launch, Running
<1>5. CASE InstallTemplate
  BY <1>2, <1>5 DEF InstallTemplate, Installing, Running
<1>6. CASE AssertMigrationsMatchBuild
  BY <1>1, <1>2, <1>6 DEF AssertMigrationsMatchBuild, Refuse, Running, Reasons
<1>7. CASE Supersede \/ MoveSidecars \/ MarkRunning
  BY <1>2, <1>7 DEF Supersede, MoveSidecars, MarkRunning, Running
<1>8. CASE Open
  BY <1>1, <1>2, <1>8 DEF Open, Refuse, Running, Reasons
<1>9. CASE ListPending
  BY <1>1, <1>2, <1>9 DEF ListPending, Running, Reasons
<1>10. CASE ApplyMigration
  BY <1>1, <1>2, <1>10 DEF ApplyMigration, Running, Reasons
<1>11. CASE VerifyIdentity
  BY <1>1, <1>2, <1>11 DEF VerifyIdentity, Refuse, Running, Reasons
<1>12. CASE VerifyIntegrity
  BY <1>1, <1>2, <1>12 DEF VerifyIntegrity, Refuse, Running, Reasons
<1>13. CASE Trade \/ WeekPasses \/ Reinstall \/ Permit \/ PlaceFile \/ UNCHANGED vars
  BY <1>2, <1>13 DEF Trade, WeekPasses, Reinstall, Permit, PlaceFile, vars, HostTyped
<1>14. CASE RunsAMinute \/ Shutdown \/ StopHost
  BY <1>3, <1>14 DEF RunsAMinute, Shutdown, StopHost, HostTyped
<1>15. CASE Die
  BY <1>1, <1>3, <1>15 DEF Die, Running, Reasons
<1>16. CASE StartHost
  BY <1>16, Constants DEF StartHost, HostTyped, HostRuns
<1>. QED
  BY <1>4, <1>5, <1>6, <1>7, <1>8, <1>9, <1>10, <1>11, <1>12, <1>13, <1>14, <1>15, <1>16
  DEF Next, Boot

(***************************************************************************)
(* The database and what the start knows of it.                            *)
(***************************************************************************)
FileTyped ==
    /\ file \in Files \cup {None} /\ copies \subseteq Files /\ {stale, unmoved} \subseteq BOOLEAN
    /\ build \in 1..Latest /\ sound \in BOOLEAN /\ permitted \in BOOLEAN
FileInv == FileTyped /\ Ensured /\ Owned

\* A step that leaves the files alone carries what it has made sure of.
LEMMA Passing ==
    ASSUME FileInv, UNCHANGED <<fileVars, build, sound>>, permitted' \in BOOLEAN,
           at' \in Built => sound,
           at' \in Opened => file # None,
           stale => at' \notin Opened,
           at' \in {"copying", "recopying", "applying"} => at' = at,
           at' \in {"checking", "serving"} => file.shape = build /\ Recognised(file)
    PROVE  FileInv'
  BY DEF FileInv, FileTyped, Ensured, Owned, Recognised, logVars, fileVars

\* Only an absent database is installed over, with one that is nobody's.
LEMMA InstallStep ==
    ASSUME FileInv, InstallTemplate
    PROVE  FileInv'
<1>. USE DEF markerVars, installVars, logVars, fileVars
<1>1. build \in 0..Latest
  BY Constants DEF FileInv, FileTyped
<1>2. ASSUME NEW begin \in {"placing", "replacing"}, NEW copying \in {"copying", "recopying"},
             NEW done \in {"building", "marking"}, done = "marking" => begin = "replacing",
             copying = "recopying" <=> begin = "replacing", done = "marking" <=> begin = "replacing",
             Installing(begin, copying, done), UNCHANGED <<build, sound, permitted>>
      PROVE  FileInv'
  <2>1. CASE at = begin /\ file = None /\ file' = [Bare EXCEPT !.state = "cut"]
             /\ \/ stale' = FALSE /\ unmoved' = unmoved
                \/ stale' = TRUE /\ unmoved' = TRUE
             /\ at' = copying /\ copies' = copies
    BY <1>1, <1>2, <2>1, Empty DEF FileInv, FileTyped, Ensured, Owned, Built, Opened
  <2>2. CASE at = begin /\ file' = file /\ file = None /\ stale' \in {stale, FALSE}
             /\ unmoved' = unmoved /\ at' = done /\ copies' = copies
    BY <1>2, <2>2 DEF FileInv, FileTyped, Ensured, Owned, Built, Opened
  <2>3. CASE at = copying /\ file' = Template(build) /\ at' = done /\ UNCHANGED <<logVars, copies>>
    BY <1>1, <1>2, <2>3, Empty DEF FileInv, FileTyped, Ensured, Owned, Built, Opened
  <2>. QED
    BY <1>2, <2>1, <2>2, <2>3 DEF Installing
<1>3. CASE at = "placing" /\ file # None /\ at' = "building" /\ UNCHANGED <<fileVars, installVars>>
  BY <1>3, Passing DEF FileInv, FileTyped, Ensured, Built, Opened
<1>. QED
  BY <1>2, <1>3 DEF InstallTemplate

\* The empty database of another shape is moved aside with its sidecars.
LEMMA SupersedeStep ==
    ASSUME FileInv, Supersede \/ MoveSidecars
    PROVE  FileInv'
<1>. USE DEF markerVars, installVars, logVars, fileVars
<1>1. CASE MoveSidecars
  BY <1>1 DEF MoveSidecars, FileInv, FileTyped, Ensured, Owned, Built, Opened
<1>2. ASSUME NEW f \in Replayed, at = "triage", Readable(file), UNCHANGED <<unmoved, installVars>>,
             \/ /\ file' = f /\ stale' = FALSE /\ copies' = copies /\ at' = "marking"
             \/ /\ copies' = copies \cup {f} /\ file' = None /\ stale' \in BOOLEAN
                /\ at' = "sidecars"
      PROVE  FileInv'
  <2>1. /\ file \in Files /\ file # None /\ f \in Files /\ f # None
        /\ f.rows = file.rows /\ f.of = file.of /\ f.id = file.id
        /\ f.shape = file.shape \/ f.shape = Odd
    BY <1>2, Replaying, ReplayedFiles, Constants DEF Readable, FileInv, FileTyped
  <2>2. CASE file' = f /\ stale' = FALSE /\ copies' = copies /\ at' = "marking"
    BY <1>2, <2>1, <2>2 DEF FileInv, FileTyped, Ensured, Owned, Built, Opened
  <2>3. CASE copies' = copies \cup {f} /\ file' = None /\ stale' \in BOOLEAN /\ at' = "sidecars"
    BY <1>2, <2>1, <2>3 DEF FileInv, FileTyped, Ensured, Owned, Built, Opened
  <2>. QED
    BY <1>2, <2>2, <2>3
<1>3. CASE at = "triage" /\ at' = "marking" /\ UNCHANGED <<fileVars, installVars>>
  BY <1>3, Passing DEF FileInv, FileTyped, Ensured, Built, Opened
<1>. QED
  BY <1>1, <1>2, <1>3 DEF Supersede

\* Opening, and listing what is pending, serves nothing yet.
LEMMA OpenStep ==
    ASSUME FileInv, Open \/ ListPending
    PROVE  FileInv'
<1>. USE DEF markerVars, installVars, logVars, fileVars
<1>1. CASE at \in Opened \cup {"opening"} /\ at' = "off" /\ UNCHANGED <<fileVars, installVars>>
  BY <1>1, Passing DEF FileInv, FileTyped, Ensured, Built, Opened
<1>2. CASE /\ at = "opening" /\ file' \in IF file = None THEN {Bare} ELSE Replayed
           /\ stale' = FALSE /\ at' = "pending" /\ UNCHANGED <<unmoved, copies, installVars>>
  <2>1. 0 \in 0..Latest
    BY Constants
  <2>2. CASE file = None
    BY <1>2, <2>1, <2>2, Empty DEF FileInv, FileTyped, Ensured, Owned, Built, Opened
  <2>3. CASE file # None
    <3>1. /\ file \in Files /\ file' \in Files /\ file' # None
          /\ file'.rows = file.rows /\ file'.of = file.of /\ file'.id = file.id
          /\ file'.shape = file.shape \/ file'.shape = Odd
      BY <1>2, <2>3, Replaying, ReplayedFiles, Constants DEF FileInv, FileTyped
    <3>. QED
      BY <1>2, <2>3, <3>1 DEF FileInv, FileTyped, Ensured, Owned, Built, Opened
  <2>. QED
    BY <2>2, <2>3
<1>3. CASE at = "pending" /\ at' = "identity" /\ UNCHANGED <<fileVars, installVars>>
  BY <1>3, Passing DEF FileInv, FileTyped, Ensured, Built, Opened
<1>4. CASE /\ at = "pending" /\ copies' = copies \cup {file} /\ at' = "applying"
           /\ UNCHANGED <<file, logVars, installVars>>
  <2>1. file \in Files /\ file.shape \in Nat
    BY <1>4, Fields DEF FileInv, FileTyped, Ensured, Opened
  <2>. QED
    BY <1>4, <2>1 DEF FileInv, FileTyped, Ensured, Owned, Built, Opened
<1>. QED
  BY <1>1, <1>2, <1>3, <1>4 DEF Open, ListPending, Refuse, Fails, Opened

\* A migration leaves the rows, their owner and the snapshot as they were.
LEMMA ApplyStep ==
    ASSUME FileInv, ApplyMigration
    PROVE  FileInv'
<1>. USE DEF markerVars, installVars, logVars, fileVars
<1>1. /\ at = "applying" /\ file \in Files /\ file # None /\ build \in 1..Latest
      /\ file.shape \in Nat /\ file.ledger \in 0..Latest /\ \A c \in copies : c.shape \in Nat
  BY Fields DEF ApplyMigration, FileInv, FileTyped, Ensured, Opened
<1>2. CASE /\ file.ledger < build /\ file.shape = file.ledger /\ at' = at
           /\ file' = [file EXCEPT !.shape = @ + 1, !.ledger = @ + 1]
           /\ UNCHANGED <<logVars, copies, installVars>>
  <2>1. file.ledger < Latest /\ file.shape # Odd
    BY <1>1, <1>2, Constants
  <2>2. /\ file' \in Files /\ file' # None /\ file'.shape = file.shape + 1
        /\ file'.rows = file.rows /\ file'.of = file.of /\ file'.id = file.id
    BY <1>1, <1>2, <2>1, Migrating
  <2>. QED
    BY <1>1, <1>2, <2>1, <2>2 DEF FileInv, FileTyped, Ensured, Owned, Built, Opened
<1>3. CASE at' \in {"off", "identity"} /\ UNCHANGED <<fileVars, installVars>>
  BY <1>1, <1>3, Passing DEF FileInv, FileTyped, Ensured, Built, Opened
<1>. QED
  BY <1>2, <1>3 DEF ApplyMigration, Fails

\* What is adopted is nobody's or this shop's: a stranger's trade is counted.
LEMMA IdentityStep ==
    ASSUME FileInv, VerifyIdentity
    PROVE  FileInv'
<1>. USE DEF markerVars, installVars, logVars, fileVars
<1>1. /\ at = "identity" /\ file \in Files /\ file # None /\ build \in 1..Latest
  BY DEF VerifyIdentity, FileInv, FileTyped, Ensured, Opened
<1>2. CASE at' = "off" /\ UNCHANGED <<fileVars, installVars>>
  BY <1>1, <1>2, Passing DEF FileInv, FileTyped, Ensured, Built, Opened
<1>3. CASE file.shape = build /\ Recognised(file) /\ at' = "checking" /\ UNCHANGED <<fileVars, installVars>>
  BY <1>1, <1>3, Passing DEF FileInv, FileTyped, Ensured, Built, Opened
<1>4. CASE /\ file.shape = build /\ Adoptable(file) /\ at' = "checking"
           /\ file' = [file EXCEPT !.id = "adopted"] /\ UNCHANGED <<logVars, copies, installVars>>
  <2>1. /\ file' \in Files /\ file' # None /\ file'.id = "adopted"
        /\ file'.shape = build /\ file'.rows = file.rows /\ file'.of = file.of
    BY <1>1, <1>4, Adopting
  <2>2. file.shape # Odd
    BY <1>1, <1>4, Constants
  <2>3. file.of # "stranger"
    BY <1>1, <1>4, <2>2, Constants DEF Adoptable, Recognised, FiveTables, FileInv, Owned
  <2>. QED
    BY <1>1, <1>4, <2>1, <2>3, Constants
    DEF Recognised, FileInv, FileTyped, Ensured, Owned, Built, Opened
<1>. QED
  BY <1>2, <1>3, <1>4 DEF VerifyIdentity, Refuse, Fails, Adoptable

\* A sale is written to the file that was ensured.
LEMMA TradeStep ==
    ASSUME FileInv, Trade
    PROVE  FileInv'
<1>1. /\ at = "serving" /\ file \in Files /\ file # None
  BY DEF Trade, FileInv, FileTyped, Ensured, Opened
<1>2. /\ file' \in Files /\ file' # None /\ file'.rows = Tables /\ file'.of # "nobody"
      /\ file'.of = "stranger" => file.of = "stranger"
      /\ file'.shape = file.shape /\ file'.id = file.id
  <2>1. /\ file' \in Files /\ file' # None /\ file'.rows = Tables
        /\ file'.of = IF file.of = "nobody" THEN "shop" ELSE file.of
        /\ file'.shape = file.shape /\ file'.id = file.id
    BY <1>1, Trading, Zenon DEF Trade
  <2>. QED
    BY <2>1
<1>3. Tables # {} /\ "business" \in Tables
  BY DEF Tables
<1>. QED
  BY <1>1, <1>2, <1>3
  DEF Trade, logVars, installVars, Recognised, FileInv, FileTyped, Ensured, Owned, Built, Opened

\* A stop spoils no more than the state; support brings what may be placed.
LEMMA OutsideStep ==
    ASSUME FileInv, HostRuns, Die \/ PlaceFile \/ Reinstall
    PROVE  FileInv'
<1>. USE DEF markerVars, installVars, logVars, fileVars
<1>1. CASE Die
  <2>1. at' = "off" /\ UNCHANGED <<logVars, copies, installVars>>
    BY <1>1 DEF Die, Fails
  <2>2. CASE file' = file
    BY <2>1, <2>2, Passing DEF FileInv, FileTyped, Ensured, Built, Opened
  <2>3. CASE at \in Opened /\ file' = [file EXCEPT !.state = "torn"]
    <3>1. file \in Files /\ file # None
      BY <2>3 DEF FileInv, FileTyped, Ensured
    <3>. QED
      BY <2>1, <2>3, <3>1, Spoiling DEF FileInv, FileTyped, Ensured, Owned, Built, Opened
  <2>. QED
    BY <1>1, <2>2, <2>3 DEF Die
<1>2. CASE PlaceFile
  <2>1. at = "off" /\ at' = "off" /\ UNCHANGED <<unmoved, copies, installVars>>
    BY <1>2 DEF PlaceFile, Visit, HostRuns
  <2>2. /\ file' \in Files \cup {None} /\ stale' \in BOOLEAN
        /\ stale' => file' = None
        /\ file' # None => Placeable(file')
    BY <1>2, Constants DEF PlaceFile
  <2>3. Owned'
    BY <2>2 DEF Placeable, Owned
  <2>4. Ensured'
    BY <2>1, <2>2 DEF Ensured, Built, Opened
  <2>. QED
    BY <2>1, <2>2, <2>3, <2>4 DEF FileInv, FileTyped
<1>3. CASE Reinstall
  <2>1. at = "off" /\ at' = "off" /\ UNCHANGED <<fileVars, permitted>>
    BY <1>3 DEF Reinstall, Visit, HostRuns
  <2>. QED
    BY <1>3, <2>1 DEF Reinstall, FileInv, FileTyped, Ensured, Owned, Built, Opened
<1>. QED
  BY <1>1, <1>2, <1>3

\* Every step keeps what is known of the file at each stage of a start.
LEMMA FileStep ==
    ASSUME FileInv, HostRuns, [Next]_vars
    PROVE  FileInv'
<1>. USE DEF markerVars, installVars, logVars, fileVars
<1>1. CASE Launch \/ AssertMigrationsMatchBuild
  BY <1>1, Passing
  DEF Launch, AssertMigrationsMatchBuild, Refuse, Fails, FileInv, FileTyped, Ensured, Built, Opened
<1>2. CASE MarkRunning \/ VerifyIntegrity
  BY <1>2, Passing
  DEF MarkRunning, VerifyIntegrity, Refuse, Fails, FileInv, FileTyped, Ensured, Built, Opened
<1>3. CASE RunsAMinute \/ WeekPasses \/ Shutdown \/ StopHost \/ StartHost
  BY <1>3, Passing
  DEF RunsAMinute, WeekPasses, Shutdown, StopHost, StartHost, FileInv, FileTyped, Ensured, Built,
      Opened
<1>4. CASE Permit \/ UNCHANGED vars
  BY <1>4, Passing DEF Permit, vars, FileInv, FileTyped, Ensured, Built, Opened
<1>. QED
  BY <1>1, <1>2, <1>3, <1>4, InstallStep, SupersedeStep, OpenStep, ApplyStep, IdentityStep,
     TradeStep, OutsideStep DEF Next, Boot

(***************************************************************************)
(* The marker.                                                             *)
(***************************************************************************)
Markers == [state : {None, "running", "stopped"}, recent : BOOLEAN]
MarkerTyped == {marker, previous} \subseteq Markers /\ unmarked \in BOOLEAN
Marked == Opened \cup {"opening"}

\* A file is damaged by a run that dies with it open, or by a log that could
\* not be moved aside, and by nothing else.
LEMMA Damage ==
    ASSUME FileInv, HostRuns, [Next]_vars, Torn'
    PROVE  Torn \/ (at \in Opened /\ at' = "off") \/ unmoved'
<1>. USE DEF Torn, logVars, fileVars, markerVars, installVars
<1>1. build \in 0..Latest /\ file \in Files \cup {None}
  BY Constants DEF FileInv, FileTyped
<1>2. CASE InstallTemplate
  <2>1. file' \in {file, [Bare EXCEPT !.state = "cut"], Template(build)}
    BY <1>2 DEF InstallTemplate, Installing
  <2>. QED
    BY <1>1, <2>1, Empty
<1>3. CASE Supersede
  <2>1. file' = file \/ file' = None \/ (file # None /\ file' \in Replayed /\ unmoved' = unmoved)
    BY <1>3 DEF Supersede, Readable
  <2>2. ASSUME file # None, file' \in Replayed, unmoved' = unmoved, file' # file
        PROVE  unmoved'
    BY <1>1, <2>2, ReplayedFiles, Replaying DEF FileInv, Ensured
  <2>. QED
    BY <2>1, <2>2
<1>4. CASE Open
  <2>1. \/ file' = file \/ file' = Bare
        \/ file # None /\ file' \in Replayed /\ unmoved' = unmoved
    BY <1>4 DEF Open, Refuse
  <2>2. ASSUME file # None, file' \in Replayed, unmoved' = unmoved, file' # file
        PROVE  unmoved'
    BY <1>1, <2>2, ReplayedFiles, Replaying DEF FileInv, Ensured
  <2>. QED
    BY <1>1, <2>1, <2>2, Empty
<1>5. CASE ApplyMigration
  <2>1. file # None /\ file \in Files /\ build \in 1..Latest
    BY <1>1, <1>5 DEF ApplyMigration, Opened, FileInv, FileTyped, Ensured
  <2>2. file' = file \/ /\ file.ledger < Latest /\ file.shape = file.ledger
                        /\ file' = [file EXCEPT !.shape = @ + 1, !.ledger = @ + 1]
    BY <1>5, <2>1, Fields, Constants DEF ApplyMigration
  <2>. QED
    BY <2>1, <2>2, Migrating
<1>6. CASE VerifyIdentity \/ Trade
  <2>1. file # None /\ file \in Files
    BY <1>1, <1>6 DEF VerifyIdentity, Trade, Opened, FileInv, FileTyped, Ensured
  <2>2. CASE VerifyIdentity
    BY <2>1, <2>2, Adopting DEF VerifyIdentity, Refuse
  <2>3. CASE Trade
    BY <2>1, <2>3, Trading DEF Trade
  <2>. QED
    BY <1>6, <2>2, <2>3
<1>7. CASE Die
  BY <1>7 DEF Die, Fails
<1>8. CASE PlaceFile
  BY <1>8, Constants DEF PlaceFile, Placeable
<1>9. CASE file' = file
  BY <1>9
<1>10. CASE Launch \/ AssertMigrationsMatchBuild \/ MoveSidecars \/ MarkRunning \/ ListPending
            \/ VerifyIntegrity
  BY <1>9, <1>10
  DEF Launch, AssertMigrationsMatchBuild, Refuse, MoveSidecars, MarkRunning, ListPending,
      VerifyIntegrity
<1>11. CASE RunsAMinute \/ WeekPasses \/ Shutdown \/ StopHost \/ StartHost \/ Reinstall \/ Permit
            \/ UNCHANGED vars
  BY <1>9, <1>11
  DEF RunsAMinute, WeekPasses, Shutdown, StopHost, StartHost, Reinstall, Permit, vars
<1>. QED
  BY <1>2, <1>3, <1>4, <1>5, <1>6, <1>7, <1>8, <1>10, <1>11 DEF Next, Boot

\* A run that starts writes its marker or is remembered as unmarked.
LEMMA MarkStep ==
    ASSUME MarkerTyped, Unclean, MarkRunning
    PROVE  MarkerTyped' /\ Unclean'
<1>1. /\ marker \in Markers /\ previous' = marker /\ at' = "opening" /\ file' = file
      /\ unmoved' = unmoved
  BY DEF MarkRunning, MarkerTyped, logVars, fileVars
<1>2. CASE marker' = [marker EXCEPT !.state = "running"] /\ unmarked' = unmarked
  <2>1. marker' \in Markers /\ marker'.state = "running"
    BY <1>1, <1>2 DEF Markers
  <2>. QED
    BY <1>1, <1>2, <2>1 DEF MarkerTyped, Unclean, Torn
<1>3. CASE unmarked' = TRUE /\ marker' = marker
  BY <1>1, <1>3 DEF MarkerTyped, Unclean
<1>. QED
  BY <1>2, <1>3 DEF MarkRunning

\* A damaged file whose run was marked gets the full check, and is refused.
LEMMA CheckStep ==
    ASSUME MarkerTyped, Unclean, VerifyIntegrity
    PROVE  MarkerTyped' /\ Unclean'
<1>. USE DEF logVars, fileVars, markerVars
<1>1. /\ at = "checking" /\ previous' = previous /\ file' = file
      /\ unmarked' = unmarked /\ unmoved' = unmoved
  BY DEF VerifyIntegrity, Refuse
<1>2. CASE at' = "off" /\ marker' = marker
  BY <1>1, <1>2 DEF MarkerTyped, Unclean, Torn, Opened
<1>3. CASE /\ file.state # "torn" \/ ~FullCheck(previous)
           /\ marker' = IF FullCheck(previous) THEN Checked(marker) ELSE marker
           /\ at' = "serving"
  <2>1. marker \in Markers
    BY DEF MarkerTyped
  <2>2. /\ Checked(marker) \in Markers
        /\ Checked(marker).state = IF marker.state = None THEN "running" ELSE marker.state
    BY <2>1 DEF Checked, Markers
  <2>3. Torn => unmarked \/ unmoved
    BY <1>1, <1>3 DEF Unclean, Torn, FullCheck, Opened
  <2>4. unmarked \/ (marker.state = "running" /\ marker'.state = "running")
    BY <1>1, <1>3, <2>2, Constants DEF Unclean, Opened
  <2>5. marker' \in Markers
    BY <1>3, <2>1, <2>2
  <2>. QED
    BY <1>1, <1>3, <2>3, <2>4, <2>5 DEF MarkerTyped, Unclean, Torn, Opened
<1>. QED
  BY <1>2, <1>3 DEF VerifyIntegrity, Refuse, Fails

\* Nothing takes back that a template was put beside a log.
LEMMA LogsStay ==
    ASSUME FileInv, [Next]_vars
    PROVE  unmoved => unmoved'
<1>. USE DEF logVars, fileVars, markerVars, installVars
<1>1. CASE InstallTemplate
  BY <1>1 DEF InstallTemplate, Installing
<1>2. CASE Launch \/ AssertMigrationsMatchBuild \/ Supersede \/ MoveSidecars \/ MarkRunning
  BY <1>2 DEF Launch, AssertMigrationsMatchBuild, Refuse, Supersede, MoveSidecars, MarkRunning
<1>3. CASE Open \/ ListPending \/ ApplyMigration \/ VerifyIdentity \/ VerifyIntegrity
  BY <1>3 DEF Open, ListPending, ApplyMigration, VerifyIdentity, VerifyIntegrity, Refuse
<1>4. CASE Trade \/ RunsAMinute \/ WeekPasses \/ Shutdown \/ StopHost \/ Die
  BY <1>4 DEF Trade, RunsAMinute, WeekPasses, Shutdown, StopHost, Die
<1>5. CASE Reinstall \/ Permit \/ PlaceFile \/ StartHost \/ UNCHANGED vars
  BY <1>5 DEF Reinstall, Permit, PlaceFile, StartHost, vars
<1>. QED
  BY <1>1, <1>2, <1>3, <1>4, <1>5 DEF Next, Boot

\* The marker says unclean for as long as a cut may have torn the file.
LEMMA MarkerStep ==
    ASSUME MarkerTyped, Unclean, FileInv, HostRuns, [Next]_vars
    PROVE  MarkerTyped' /\ Unclean'
<1>. USE DEF logVars, fileVars, markerVars
<1>1. /\ Torn' => Torn \/ (at \in Opened /\ at' = "off") \/ unmoved'
      /\ unmoved => unmoved'
  BY Damage, LogsStay
<1>2. ASSUME UNCHANGED <<markerVars, previous>>,
             at' \in Marked => at \in Marked, at' = "serving" => at = "serving"
      PROVE  MarkerTyped' /\ Unclean'
  BY <1>1, <1>2 DEF MarkerTyped, Unclean, Marked, Opened
<1>3. CASE Launch \/ InstallTemplate \/ AssertMigrationsMatchBuild \/ Supersede \/ MoveSidecars
  BY <1>2, <1>3
  DEF Launch, InstallTemplate, Installing, AssertMigrationsMatchBuild, Refuse, Fails, Supersede,
      MoveSidecars, Marked, Opened
<1>4. CASE MarkRunning
  BY <1>4, MarkStep
<1>5. CASE VerifyIntegrity
  BY <1>5, CheckStep
<1>6. CASE Open \/ ListPending \/ ApplyMigration \/ VerifyIdentity \/ Trade
  BY <1>2, <1>6
  DEF Open, ListPending, ApplyMigration, VerifyIdentity, Trade, Refuse, Fails, Marked, Opened
<1>7. CASE RunsAMinute \/ StopHost \/ Reinstall \/ Permit \/ PlaceFile \/ StartHost \/ UNCHANGED vars
  BY <1>2, <1>7
  DEF RunsAMinute, StopHost, Reinstall, Permit, PlaceFile, StartHost, vars, Marked, Opened
<1>8. CASE WeekPasses \/ Shutdown
  <2>1. /\ at = "serving" /\ at' \in {"off", "serving"} /\ file' = file
        /\ previous' = previous /\ unmarked' = unmarked /\ unmoved' = unmoved
    BY <1>8 DEF WeekPasses, Shutdown
  <2>2. /\ marker' \in Markers
        /\ marker'.state = marker.state \/ at' = "off"
    BY <1>8 DEF WeekPasses, Shutdown, MarkerTyped, Markers
  <2>. QED
    BY <2>1, <2>2 DEF MarkerTyped, Unclean, Torn, Opened
<1>9. CASE Die
  BY <1>2, <1>9 DEF Die, Fails, Marked, Opened
<1>. QED
  BY <1>3, <1>4, <1>5, <1>6, <1>7, <1>8, <1>9 DEF Next, Boot

(***************************************************************************)
(* The theorems.                                                           *)
(***************************************************************************)
Bounds == faults \in 0..MaxFaults /\ visits \in 0..MaxVisits

\* Faults and visits stay within their bounds.
LEMMA BoundsStep ==
    ASSUME Bounds, [Next]_vars
    PROVE  Bounds'
<1>. USE Constants DEF Bounds, Fault, Visit, Refuse
<1>1. CASE UNCHANGED <<faults, visits>>
  BY <1>1
<1>2. ASSUME Fault, visits' = visits
      PROVE  Bounds'
  BY <1>2
<1>3. CASE Visit /\ faults' = faults
  BY <1>3
<1>. HIDE DEF Fault, Visit
<1>4. CASE Launch \/ AssertMigrationsMatchBuild \/ Open \/ ApplyMigration
           \/ VerifyIdentity \/ VerifyIntegrity
  BY <1>1, <1>4
  DEF Launch, AssertMigrationsMatchBuild, Open, ApplyMigration, VerifyIdentity,
      VerifyIntegrity
<1>5. CASE InstallTemplate \/ Supersede \/ MoveSidecars \/ MarkRunning \/ ListPending \/ Die
  BY <1>1, <1>2, <1>5
  DEF InstallTemplate, Installing, Supersede, MoveSidecars, MarkRunning, ListPending, Die
<1>6. CASE Trade \/ RunsAMinute \/ WeekPasses \/ Shutdown \/ StopHost \/ StartHost \/ UNCHANGED vars
  BY <1>1, <1>6 DEF Trade, RunsAMinute, WeekPasses, Shutdown, StopHost, StartHost, vars
<1>7. CASE Reinstall \/ Permit \/ PlaceFile
  BY <1>3, <1>7 DEF Reinstall, Permit, PlaceFile
<1>. QED
  BY <1>4, <1>5, <1>6, <1>7 DEF Next, Boot

StartInv == HostTyped /\ HostRuns /\ FileInv /\ MarkerTyped /\ Unclean /\ Bounds

\* The three inductions together.
LEMMA AlwaysStarts == Spec => []StartInv
<1>1. Init => StartInv
  <2>. SUFFICES ASSUME Init PROVE StartInv
    OBVIOUS
  <2>1. HostTyped /\ HostRuns /\ Bounds
    BY Constants DEF Init, HostTyped, HostRuns, Bounds
  <2>2. FileInv
    BY Constants DEF Init, FileInv, FileTyped, Ensured, Owned, Placeable, Built, Opened
  <2>3. Unmarked \in Markers /\ Unmarked.state # "stopped"
    BY Constants DEF Unmarked, Markers
  <2>4. MarkerTyped
    BY <2>3 DEF Init, MarkerTyped
  <2>5. Unclean
    BY Constants DEF Init, Unclean, Torn, Placeable, Opened
  <2>. QED
    BY <2>1, <2>2, <2>4, <2>5 DEF StartInv
<1>2. StartInv /\ [Next]_vars => StartInv'
  BY HostStep, FileStep, MarkerStep, BoundsStep DEF StartInv
<1>. QED
  BY <1>1, <1>2, PTL DEF Spec

\* Over any number of versions, mishaps and visits of support, the API serves
\* nothing but a database of its own build's schema, signed, that is this
\* shop's or came signed, and undamaged if its runs could be marked.
THEOREM OnlyFitIsServed == Spec => []Inv
<1>1. StartInv => TypeOK
  BY DEF StartInv, HostTyped, FileInv, FileTyped, MarkerTyped, Markers, Bounds, TypeOK
<1>2. StartInv => ServedIsFit
  BY Constants DEF StartInv, FileInv, FileTyped, Ensured, Owned, Unclean, Torn, Built, Opened,
         ServedIsFit, Recognised
<1>. QED
  BY <1>1, <1>2, AlwaysStarts, PTL DEF Inv

\* What RecordsAreKept asks of a step, named for the proof.
KeepsRecords ==
    (file # None /\ file.rows # {} /\ file' # file /\ visits' = visits) =>
         /\ file' # None /\ file.rows \subseteq file'.rows /\ file'.of = file.of
         /\ file'.shape # file.shape =>
              \E c \in copies : c.rows = file.rows /\ c.shape < file'.shape

\* A file with records gives them up to nobody but support.
LEMMA RecordsStep ==
    ASSUME StartInv, [Next]_vars
    PROVE  KeepsRecords
<1>. USE DEF logVars, fileVars, StartInv
<1>. SUFFICES ASSUME file # None, file.rows # {}, file' # file, visits' = visits
              PROVE  /\ file' # None /\ file.rows \subseteq file'.rows /\ file'.of = file.of
                     /\ file'.shape # file.shape =>
                          \E c \in copies : c.rows = file.rows /\ c.shape < file'.shape
  BY DEF KeepsRecords
<1>1. file \in Files /\ build \in 1..Latest
  BY DEF FileInv, FileTyped
<1>2. CASE ApplyMigration
  <2>1. /\ file.ledger < Latest /\ file.shape = file.ledger
        /\ file' = [file EXCEPT !.shape = @ + 1, !.ledger = @ + 1]
    BY <1>1, <1>2, Fields, Constants DEF ApplyMigration
  <2>2. PICK c \in copies : c.rows = file.rows /\ c.shape <= file.shape
    BY <1>2 DEF ApplyMigration, FileInv, Ensured
  <2>3. c.shape \in Nat /\ file.shape \in Nat
    BY <1>1, Fields DEF FileInv, FileTyped
  <2>4. /\ file' # None /\ file'.rows = file.rows /\ file'.of = file.of
        /\ file'.shape = file.shape + 1
    BY <1>1, <2>1, Migrating
  <2>. QED
    BY <2>2, <2>3, <2>4
<1>3. CASE Trade
  <2>1. /\ file' # None /\ file'.rows = Tables /\ file'.shape = file.shape
        /\ file'.of = IF file.of = "nobody" THEN "shop" ELSE file.of
    BY <1>1, <1>3, Trading, Zenon DEF Trade
  <2>2. file.rows \subseteq Tables /\ file.of # "nobody"
    BY <1>1, Fields DEF FileInv, Owned
  <2>. QED
    BY <2>1, <2>2
<1>4. CASE VerifyIdentity
  BY <1>1, <1>4, Adopting DEF VerifyIdentity, Refuse
<1>5. CASE Die
  BY <1>1, <1>5, Spoiling DEF Die
<1>6. CASE InstallTemplate
  BY <1>6 DEF InstallTemplate, Installing, FileInv, Ensured
<1>7. CASE Supersede \/ Open
  <2>1. ~stale
    BY DEF FileInv, Ensured
  <2>2. Replayed = {file}
    BY <2>1 DEF Replayed
  <2>3. CASE Supersede
    BY <2>2, <2>3 DEF Supersede, Expendable, CountsNothing
  <2>4. CASE Open
    BY <2>2, <2>4 DEF Open, Refuse
  <2>. QED
    BY <1>7, <2>3, <2>4
<1>9. CASE Reinstall \/ Permit \/ PlaceFile
  <2>1. visits' = visits + 1
    BY <1>9, Zenon DEF Reinstall, Permit, PlaceFile, Visit
  <2>2. visits' # visits
    BY <2>1, Constants DEF Bounds
  <2>. QED
    BY <2>2
<1>10. CASE Launch \/ AssertMigrationsMatchBuild \/ MoveSidecars \/ MarkRunning \/ ListPending
            \/ VerifyIntegrity
  BY <1>10
  DEF Launch, AssertMigrationsMatchBuild, Refuse, MoveSidecars, MarkRunning, ListPending,
      VerifyIntegrity
<1>11. CASE RunsAMinute \/ WeekPasses \/ Shutdown \/ StopHost \/ StartHost \/ UNCHANGED vars
  BY <1>11 DEF RunsAMinute, WeekPasses, Shutdown, StopHost, StartHost, vars
<1>. QED
  BY <1>2, <1>3, <1>4, <1>5, <1>6, <1>7, <1>9, <1>10, <1>11 DEF Next, Boot

\* No start, mishap or version takes rows away, gives them to another or moves
\* them to another schema unless a copy of them in the earlier one exists.
THEOREM RecordsSurviveStarts == Spec => RecordsAreKept
<1>1. StartInv /\ [Next]_vars => KeepsRecords
  BY RecordsStep
<1>. QED
  BY <1>1, AlwaysStarts, PTL DEF Spec, RecordsAreKept, KeepsRecords

===============================================================================
