--------------------------- MODULE DiscountPolicy ---------------------------
(***************************************************************************)
(* What an invoice earns: the discount settings and the ladder of brackets *)
(* a manager edits, and the discount a scan works out from them.           *)
(*                                                                         *)
(* Settings and ladder are two tables, written by two requests.  A new     *)
(* ladder is judged against settings read before its transaction, and a    *)
(* scan reads the settings and then the ladder, so each may change between *)
(* the two steps of the other.                                             *)
(***************************************************************************)
EXTENDS Absent, Integers, FiniteSets

CONSTANTS
    Amounts,     \* invoice totals, in whole dinars
    Rules,       \* the brackets a manager may enter
    Limits,      \* the settings a manager may enter
    Defaults,    \* the settings a new shop starts with
    Managers, Scans

RuleTypes == {"PERCENTAGE", "FIXED_AMOUNT"}

ASSUME DiscountPolicyAssumption ==
    /\ Amounts \subseteq Nat \ {0}
    /\ None \notin Nat
    /\ Rules \subseteq [threshold : Nat, type : RuleTypes, rate : Nat, cap : Nat \cup {None}]
    /\ Limits \subseteq [type : RuleTypes \cup {"NONE"}, minRate : Nat, maxRate : Nat, cap : Nat]
    /\ Defaults \in Limits

VARIABLES
    settings,    \* the discount_settings row
    ladder,      \* the discount_rule rows
    edit,        \* edit[m]: the ladder a manager's request has found legal
    pricing      \* pricing[s]: what a scan has read, and the discount it found

vars == <<settings, ladder, edit, pricing>>

Ladders == SUBSET Rules

Unpriced ==
    [stage |-> "new", gross |-> 0, settings |-> None, rule |-> None, value |-> 0]

Pricings ==
    {Unpriced} \cup
    [stage : {"rules", "priced"}, gross : Amounts, settings : Limits,
     rule : Rules \cup {None}, value : Nat]

TypeOK ==
    /\ settings \in Limits
    /\ ladder \in Ladders
    /\ edit \in [Managers -> Ladders \cup {None}]
    /\ pricing \in [Scans -> Pricings]

\* A new shop has settings and no brackets.
Init ==
    /\ settings = Defaults
    /\ ladder = {}
    /\ edit = [m \in Managers |-> None]
    /\ pricing = [s \in Scans |-> Unpriced]

(***************************************************************************)
(* computeDiscount.                                                        *)
(***************************************************************************)
Least(a, b) == IF a <= b THEN a ELSE b

Reached(rules, gross) == {r \in rules : r.threshold <= gross}

\* The highest bracket reached, if there is one.
Applicable(rules, gross) ==
    {r \in Reached(rules, gross) : \A q \in Reached(rules, gross) : q.threshold <= r.threshold}

Uncapped(r, gross) == IF r.type = "PERCENTAGE" THEN (gross * r.rate) \div 100 ELSE r.rate

\* A slip: a bracket with a cap of its own is held to that one only.
OwnCapOnly(r, limits, gross) ==
    LET cap == IF r.cap = None THEN limits.cap ELSE r.cap
    IN  Least(Least(Uncapped(r, gross), cap), gross)

\* The bracket's own cap, the settings' cap, and never more than the invoice.
Grant(r, limits, gross) ==
    LET own == IF r.cap = None THEN Uncapped(r, gross) ELSE Least(Uncapped(r, gross), r.cap)
    IN  Least(Least(own, limits.cap), gross)

(***************************************************************************)
(* Which ladders are accepted.                                             *)
(***************************************************************************)
Adjacent(rules, p, q) ==
    /\ p.threshold < q.threshold
    /\ ~ \E r \in rules : p.threshold < r.threshold /\ r.threshold < q.threshold

\* UpdateDiscountRulesRequestSchema compares neighbours of one type.
WellFormed(rules) ==
    /\ rules # {}
    /\ \A p, q \in rules : p.threshold = q.threshold => p = q
    /\ \A p, q \in rules : Adjacent(rules, p, q) /\ p.type = q.type => p.rate < q.rate

\* validateRulesAgainstSettings.
WithinLimits(r, limits) ==
    /\ r.type = "PERCENTAGE" => limits.minRate <= r.rate /\ r.rate <= limits.maxRate
    /\ r.type = "FIXED_AMOUNT" => r.rate <= limits.cap
    /\ r.cap # None => r.cap <= limits.cap

Legal(rules, limits) == WellFormed(rules) /\ \A r \in rules : WithinLimits(r, limits)

(***************************************************************************)
(* The manager.                                                            *)
(***************************************************************************)
\* updateDiscountSettings replaces the row; the ladder is not looked at.
UpdateSettings(limits) ==
    /\ limits.minRate <= limits.maxRate /\ limits.cap > 0
    /\ settings' = limits
    /\ UNCHANGED <<ladder, edit, pricing>>

JudgeRules(m, rules) ==
    /\ edit[m] = None
    /\ Legal(rules, settings)
    /\ edit' = [edit EXCEPT ![m] = rules]
    /\ UNCHANGED <<settings, ladder, pricing>>

\* A slip: the new brackets are added to the old ones.
MergeRules(m) ==
    /\ edit[m] # None
    /\ ladder' = ladder \cup edit[m]
    /\ edit' = [edit EXCEPT ![m] = None]
    /\ UNCHANGED <<settings, pricing>>

\* One transaction replaces the whole ladder.
ReplaceRules(m) ==
    /\ edit[m] # None
    /\ ladder' = edit[m]
    /\ edit' = [edit EXCEPT ![m] = None]
    /\ UNCHANGED <<settings, pricing>>

(***************************************************************************)
(* The till.                                                               *)
(***************************************************************************)

\* The settings are read, or written with their defaults, and then read.
ReadSettings(s, gross) ==
    /\ pricing[s].stage = "new"
    /\ pricing' = [pricing EXCEPT ![s] =
                     [Unpriced EXCEPT !.stage = "rules", !.gross = gross, !.settings = settings]]
    /\ UNCHANGED <<settings, ladder, edit>>

\* A ladder without a bracket for the invoice, or a shop that has switched
\* discounts off, gives none.
ReadRules(s) ==
    LET p == pricing[s] IN
    /\ p.stage = "rules"
    /\ \/ /\ p.settings.type # "NONE"
          /\ \E r \in Applicable(ladder, p.gross) :
                pricing' = [pricing EXCEPT ![s] =
                    [p EXCEPT !.stage = "priced", !.rule = r,
                              !.value = Grant(r, p.settings, p.gross)]]
       \/ /\ p.settings.type = "NONE" \/ Applicable(ladder, p.gross) = {}
          /\ pricing' = [pricing EXCEPT ![s] = [p EXCEPT !.stage = "priced"]]
    /\ UNCHANGED <<settings, ladder, edit>>

\* The till turns to its next customer.
NextCustomer(s) ==
    /\ pricing[s].stage = "priced"
    /\ pricing' = [pricing EXCEPT ![s] = Unpriced]
    /\ UNCHANGED <<settings, ladder, edit>>

Next ==
    \/ \E limits \in Limits : UpdateSettings(limits)
    \/ \E m \in Managers : ReplaceRules(m) \/ \E rules \in Ladders : JudgeRules(m, rules)
    \/ \E s \in Scans :
          ReadRules(s) \/ NextCustomer(s) \/ \E gross \in Amounts : ReadSettings(s, gross)

Spec == Init /\ [][Next]_vars

(***************************************************************************)
(* Safety.                                                                 *)
(***************************************************************************)
\* The last line of defence: whatever was edited since, by whomever, a discount
\* never exceeds the ceiling the scan read nor the invoice itself.
GrantIsCapped ==
    \A s \in Scans :
        pricing[s].value > 0 =>
            /\ pricing[s].value <= pricing[s].gross
            /\ pricing[s].value <= pricing[s].settings.cap

\* Two managers' edits never mix: the ladder in force is one that was submitted
\* whole, so no amount reaches two brackets at once.
OneBracket == \A gross \in Amounts : Cardinality(Applicable(ladder, gross)) <= 1
=============================================================================
