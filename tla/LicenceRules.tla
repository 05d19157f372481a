---------------------------- MODULE LicenceRules ----------------------------
(***************************************************************************)
(* What a licence allows: the status the native module (crate              *)
(* loyalty-pro-license) computes from the codes stored on an installation  *)
(* and two clocks, the system's and the latest time ever recorded here;    *)
(* and what the API makes of a remembered status when the module is gone.  *)
(* Everything is a function of its arguments.  A licence is its signed     *)
(* payload; signatures and device identity are external, so a stored code  *)
(* either verifies or is counted among the spoiled ones.                   *)
(***************************************************************************)
EXTENDS Absent, Integers, FiniteSets

CONSTANTS
    Grace,        \* GRACE_DAYS: full operation after a time-limited end
    Tolerance,    \* CLOCK_TOLERANCE_SECS: how far the clock may be behind
    Fallback,     \* FALLBACK_DAYS: how long an unchecked status is trusted
    IssueLead,    \* the day before its issue from which a licence covers a sale
    UnlockCover   \* how far before its end an emergency window covers a sale

ASSUME LicenceRulesAssumption ==
    /\ {Grace, Tolerance, Fallback, IssueLead, UnlockCover} \subseteq Nat
    /\ Tolerance <= IssueLead
    /\ None \notin Int

Kinds == {"trial", "perpetual"}
Statuses == {"UNLICENSED", "TRIAL", "EMERGENCY", "GRACE", "EXPIRED", "PERPETUAL", "TAMPERED"}
ReadOnlyStatuses == {"UNLICENSED", "EXPIRED", "TAMPERED"}
TimeLimited == {"TRIAL", "EMERGENCY", "GRACE"}

\* Payload::is_consistent: a trial ends after it was issued, a perpetual never.
Payloads == {p \in [kind : Kinds, iat : Int, exp : Int \cup {None}] :
                IF p.kind = "trial" THEN p.exp \in Int /\ p.exp > p.iat ELSE p.exp = None}

Latest(times) == CHOOSE t \in times : \A u \in times : u <= t
Soonest(times) == CHOOSE t \in times : \A u \in times : t <= u

\* The clock anchors, reduced to the most restrictive reading there is.
Resolve(readings) ==
    LET present == readings \ {None} IN IF present = {} THEN None ELSE Latest(present)

Later(t, recorded) == IF recorded = None THEN t ELSE Latest({t, recorded})

\* The licence that governs: a perpetual one, otherwise the trial that ends last.
Best(licences) ==
    LET perpetual == {p \in licences : p.kind = "perpetual"} IN
    IF perpetual # {} THEN CHOOSE p \in perpetual : TRUE
    ELSE CHOOSE p \in licences : \A q \in licences : q.exp <= p.exp

RolledBack(now, recorded) == recorded # None /\ now + Tolerance < recorded

Evaluation(status, until) == [status |-> status, until |-> until]

\* The status of the licences alone; until is the end of the grace days.
Evaluate(licences, now, recorded) ==
    IF licences = {} THEN Evaluation("UNLICENSED", None)
    ELSE LET licence == Best(licences) IN
         IF licence.kind = "perpetual" THEN Evaluation("PERPETUAL", None)
         ELSE LET until == licence.exp + Grace IN
              CASE RolledBack(now, Later(licence.iat, recorded)) -> Evaluation("TAMPERED", until)
                [] ~RolledBack(now, Later(licence.iat, recorded)) /\ now < licence.exp
                       -> Evaluation("TRIAL", until)
                [] ~RolledBack(now, Later(licence.iat, recorded)) /\ licence.exp <= now /\ now < until
                       -> Evaluation("GRACE", until)
                [] OTHER -> Evaluation("EXPIRED", until)

\* Emergency windows over it: they only ever raise a status that would stop the
\* shop, and are judged by the later of the two clocks.
EvaluateAll(licences, spoiled, ends, now, recorded) ==
    LET under == IF licences = {} /\ spoiled THEN Evaluation("TAMPERED", None)
                 ELSE Evaluate(licences, now, recorded)
        until == Latest(ends)
        moment == Later(now, recorded)
    IN  CASE under.status \in {"TRIAL", "PERPETUAL"} \/ ends = {} -> under
          [] under.status \notin {"TRIAL", "PERPETUAL"} /\ ends # {} /\ moment < until
                 -> Evaluation("EMERGENCY", until + Grace)
          [] under.status \notin {"TRIAL", "PERPETUAL"} /\ ends # {} /\ until <= moment
             /\ moment < until + Grace
                 -> IF under.status = "GRACE" /\ under.until >= until + Grace THEN under
                    ELSE Evaluation("GRACE", until + Grace)
          [] OTHER -> under

\* Whether recording was allowed at t: for a sale that arrives after the fact.
\* The clocks are not consulted, for this asks about the past.
RecordingAllowed(licences, ends, t) ==
    \/ \E p \in licences :
          \/ p.kind = "perpetual"
          \/ p.kind = "trial" /\ p.iat - IssueLead <= t /\ t < p.exp + Grace
    \/ \E end \in ends : end - UnlockCover <= t /\ t < end + Grace

\* A slip: a week from its confirmation, whatever end was recorded.
FallbackByConfirmation(row, now, recorded) ==
    CASE row.status \notin TimeLimited -> row.status
      [] row.status \in TimeLimited /\ RolledBack(now, recorded) -> "TAMPERED"
      [] OTHER -> IF Later(now, recorded) < row.at + Fallback THEN row.status ELSE "EXPIRED"

\* fallbackVerdict: the status shown while the module cannot check, from the row
\* it last wrote.  at is when it confirmed the status.
FallbackStatus(row, now, recorded) ==
    LET until == Soonest({row.until, row.at + Fallback}) IN
    CASE row.status \notin TimeLimited -> row.status
      [] row.status \in TimeLimited /\ None \in {row.until, row.at} -> "EXPIRED"
      [] row.status \in TimeLimited /\ None \notin {row.until, row.at}
         /\ RolledBack(now, recorded) -> "TAMPERED"
      [] OTHER -> IF Later(now, recorded) < until THEN row.status ELSE "EXPIRED"
=============================================================================
