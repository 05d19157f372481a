------------------------ MODULE AdministrationProofs ------------------------
(***************************************************************************)
(* What the manager's administration promises, for every value of the      *)
(* constants: the discount ladder, the settings and the licence.  The three *)
(* share no state; each part proves one component by an invariant of its own. *)
(***************************************************************************)
EXTENDS DiscountPolicy, SettingsEngine, Licence, FiniteSetTheorems, WellFoundedInduction, TLAPS

(***************************************************************************)
(* The discount ladder.  For every ladder, ceiling and number of managers and *)
(* tills: a discount never exceeds the invoice or the ceiling, and the ladder *)
(* in force is one that was submitted whole.                               *)
(***************************************************************************)

\* A grant is a whole number of dinars that no cap lets above the invoice or the
\* settings' ceiling.
LEMMA GrantBounds ==
    ASSUME NEW r \in Rules, NEW limits \in Limits, NEW gross \in Amounts
    PROVE  /\ Grant(r, limits, gross) \in Nat
           /\ Grant(r, limits, gross) <= gross
           /\ Grant(r, limits, gross) <= limits.cap
<1>1. /\ gross \in Nat /\ r.rate \in Nat /\ limits.cap \in Nat
      /\ r.cap # None => r.cap \in Nat
  BY DiscountPolicyAssumption
<1>2. gross * r.rate \in Nat
  BY <1>1
<1>3. (gross * r.rate) \div 100 \in Nat
  BY <1>2
<1>4. Uncapped(r, gross) \in Nat
  BY <1>1, <1>3 DEF Uncapped
<1>. QED
  BY <1>1, <1>4 DEF Grant, Least

Readings ==
    [stage : {"rules", "priced"}, gross : Amounts, settings : Limits,
     rule : Rules \cup {None}, value : Nat]

\* A till that has read the settings holds a reading, not the empty record.
LEMMA ReadingIsTyped ==
    ASSUME TypeOK, NEW s \in Scans, pricing[s].stage = "rules"
    PROVE  pricing[s] \in Readings
<1>1. pricing[s] \in {Unpriced} \cup Readings
  BY DEF TypeOK, Pricings, Readings
<1>2. Unpriced.stage = "new"
  BY DEF Unpriced
<1>3. pricing[s] # Unpriced
  BY <1>2
<1>. QED
  BY <1>1, <1>3

\* Every step keeps the two tables, the edits and the readings of their types.
THEOREM PolicyIsTyped == Spec => []TypeOK
<1>1. Init => TypeOK
  BY DiscountPolicyAssumption DEF Init, TypeOK, Ladders, Pricings
<1>2. TypeOK /\ [Next]_vars => TypeOK'
  <2>. SUFFICES ASSUME TypeOK, [Next]_vars PROVE TypeOK'
    OBVIOUS
  <2>. USE DEF TypeOK, Ladders
  <2>1. ASSUME NEW limits \in Limits, UpdateSettings(limits) PROVE TypeOK'
    BY <2>1 DEF UpdateSettings
  <2>2. ASSUME NEW m \in Managers, ReplaceRules(m) PROVE TypeOK'
    BY <2>2 DEF ReplaceRules
  <2>3. ASSUME NEW m \in Managers, NEW rules \in Ladders, JudgeRules(m, rules) PROVE TypeOK'
    BY <2>3 DEF JudgeRules
  <2>4. ASSUME NEW s \in Scans, ReadRules(s) PROVE TypeOK'
    <3>1. /\ pricing[s] \in Readings
          /\ UNCHANGED <<settings, ladder, edit>>
      BY <2>4, ReadingIsTyped DEF ReadRules
    <3>2. CASE pricing' = [pricing EXCEPT ![s] = [pricing[s] EXCEPT !.stage = "priced"]]
      BY <3>1, <3>2, <2>4 DEF ReadRules, Pricings, Readings
    <3>3. ASSUME NEW r \in Applicable(ladder, pricing[s].gross),
                 pricing' = [pricing EXCEPT ![s] =
                     [pricing[s] EXCEPT !.stage = "priced", !.rule = r,
                              !.value = Grant(r, pricing[s].settings, pricing[s].gross)]]
          PROVE  TypeOK'
      <4>1. r \in Rules
        BY DEF Applicable, Reached
      <4>2. Grant(r, pricing[s].settings, pricing[s].gross) \in Nat
        BY <4>1, <3>1, GrantBounds DEF Readings
      <4>. QED
        BY <3>1, <3>3, <4>1, <4>2 DEF Pricings, Readings
    <3>. QED
      BY <3>2, <3>3, <2>4 DEF ReadRules
  <2>5. ASSUME NEW s \in Scans, NextCustomer(s) PROVE TypeOK'
    BY <2>5 DEF NextCustomer, Pricings
  <2>6. ASSUME NEW s \in Scans, NEW gross \in Amounts, ReadSettings(s, gross) PROVE TypeOK'
    BY <2>6 DEF ReadSettings, Pricings, Unpriced
  <2>7. CASE UNCHANGED vars
    BY <2>7 DEF vars
  <2>. QED
    BY <2>1, <2>2, <2>3, <2>4, <2>5, <2>6, <2>7 DEF Next
<1>. QED
  BY <1>1, <1>2, PTL DEF Spec

\* computeDiscount's last line of defence, whatever the managers edit and in
\* whatever order their requests and the till's readings fall.
THEOREM CeilingHolds == Spec => []GrantIsCapped
<1>1. Init => GrantIsCapped
  BY DEF Init, GrantIsCapped, Unpriced
<1>2. TypeOK /\ GrantIsCapped /\ [Next]_vars => GrantIsCapped'
  <2>. SUFFICES ASSUME TypeOK, GrantIsCapped, [Next]_vars PROVE GrantIsCapped'
    OBVIOUS
  <2>1. CASE UNCHANGED pricing
    BY <2>1 DEF GrantIsCapped
  <2>2. ASSUME NEW s \in Scans, ReadRules(s) PROVE GrantIsCapped'
    <3>1. /\ pricing[s] \in Readings
          /\ pricing \in [Scans -> Pricings]
      BY <2>2, ReadingIsTyped DEF ReadRules, TypeOK
    <3>2. CASE pricing' = [pricing EXCEPT ![s] = [pricing[s] EXCEPT !.stage = "priced"]]
      BY <3>1, <3>2, <2>2 DEF ReadRules, GrantIsCapped, Readings
    <3>3. ASSUME NEW r \in Applicable(ladder, pricing[s].gross),
                 pricing' = [pricing EXCEPT ![s] =
                     [pricing[s] EXCEPT !.stage = "priced", !.rule = r,
                              !.value = Grant(r, pricing[s].settings, pricing[s].gross)]]
          PROVE  GrantIsCapped'
      <4>1. r \in Rules
        BY DEF Applicable, Reached, TypeOK, Ladders
      <4>2. /\ Grant(r, pricing[s].settings, pricing[s].gross) <= pricing[s].gross
            /\ Grant(r, pricing[s].settings, pricing[s].gross) <= pricing[s].settings.cap
        BY <4>1, <3>1, GrantBounds DEF Readings
      <4>. QED
        BY <3>1, <3>3, <4>2 DEF GrantIsCapped, Readings
    <3>. QED
      BY <3>2, <3>3, <2>2 DEF ReadRules
  <2>3. ASSUME NEW s \in Scans, NextCustomer(s) PROVE GrantIsCapped'
    BY <2>3 DEF NextCustomer, GrantIsCapped, TypeOK, Unpriced
  <2>4. ASSUME NEW s \in Scans, NEW gross \in Amounts, ReadSettings(s, gross)
        PROVE  GrantIsCapped'
    BY <2>4 DEF ReadSettings, GrantIsCapped, TypeOK, Unpriced
  <2>. QED
    BY <2>1, <2>2, <2>3, <2>4
    DEF Next, vars, UpdateSettings, ReplaceRules, JudgeRules
<1>. QED
  BY <1>1, <1>2, PolicyIsTyped, PTL DEF Spec

(***************************************************************************)
(* The ladder.                                                             *)
(***************************************************************************)
Whole(rules) == \A p, q \in rules : p.threshold = q.threshold => p = q

\* The ladder in force, and every ladder about to be, was submitted whole.
LaddersAreWhole ==
    /\ Whole(ladder)
    /\ \A m \in Managers : edit[m] # None => Whole(edit[m])

LEMMA WholeHasOneBracket ==
    ASSUME NEW rules \in Ladders, Whole(rules), NEW gross \in Amounts
    PROVE  Cardinality(Applicable(rules, gross)) <= 1
<1>1. \A p, q \in Applicable(rules, gross) : p.threshold = q.threshold
  BY DiscountPolicyAssumption DEF Applicable, Reached, Ladders
<1>2. \A p, q \in Applicable(rules, gross) : p = q
  BY <1>1 DEF Whole, Applicable, Reached
<1>3. CASE Applicable(rules, gross) = {}
  BY <1>3, FS_EmptySet
<1>4. ASSUME NEW p \in Applicable(rules, gross)
      PROVE  Cardinality(Applicable(rules, gross)) <= 1
  <2>1. Applicable(rules, gross) = {p}
    BY <1>2, <1>4
  <2>2. Cardinality({p}) = 1
    BY FS_Singleton
  <2>. QED
    BY <2>1, <2>2
<1>. QED
  BY <1>3, <1>4

\* Two managers' edits never mix, so no invoice falls in two brackets.
THEOREM EditsNeverMix == Spec => []OneBracket
<1>1. Init => LaddersAreWhole
  BY DEF Init, LaddersAreWhole, Whole
<1>2. TypeOK /\ LaddersAreWhole /\ [Next]_vars => LaddersAreWhole'
  <2>. SUFFICES ASSUME TypeOK, LaddersAreWhole, [Next]_vars PROVE LaddersAreWhole'
    OBVIOUS
  <2>1. CASE UNCHANGED <<ladder, edit>>
    BY <2>1 DEF LaddersAreWhole
  <2>2. ASSUME NEW m \in Managers, ReplaceRules(m) PROVE LaddersAreWhole'
    BY <2>2 DEF ReplaceRules, LaddersAreWhole, TypeOK
  <2>3. ASSUME NEW m \in Managers, NEW rules \in Ladders, JudgeRules(m, rules)
        PROVE  LaddersAreWhole'
    <3>1. Whole(rules)
      BY <2>3 DEF JudgeRules, Legal, WellFormed, Whole
    <3>. QED
      BY <2>3, <3>1 DEF JudgeRules, LaddersAreWhole, TypeOK
  <2>. QED
    BY <2>1, <2>2, <2>3
    DEF Next, vars, UpdateSettings, ReadRules, ReadSettings, NextCustomer
<1>3. TypeOK /\ LaddersAreWhole => OneBracket
  BY WholeHasOneBracket DEF TypeOK, LaddersAreWhole, OneBracket
<1>. QED
  BY <1>1, <1>2, <1>3, PolicyIsTyped, PTL DEF Spec

-----------------------------------------------------------------------------
(***************************************************************************)
(* The settings.  For any managers, keys, values, builds and restarts: the *)
(* versions of a layer are numbered 1..n, a row each; the trail is true; and *)
(* the value in force is one the running build admits.                     *)
(*                                                                         *)
(* SettingsInv adds what a request has read.  Between its read and its write *)
(* others publish, and what keeps its number and its "before" true is that the *)
(* history only grows and that the unique index refuses a number twice.    *)
(***************************************************************************)

Requests ==
    [stage : {"idle", "save", "look", "insert", "clean", "record"}, layer : Layers,
     id : 0..MaxDrafts, values : Overrides, seen : 0..MaxVersions, before : Overrides,
     from : 0..MaxVersions]

SettingsTypes ==
    /\ registry \in Registries
    /\ draft \in [Layers -> DraftRows \cup {None}]
    /\ versions \in SUBSET VersionRows
    /\ audit \in SUBSET AuditRows
    /\ req \in [Editors -> Requests]
    /\ drafts \in 0..MaxDrafts
    /\ restarts \in 0..MaxRestarts

\* The history holds these values under this number.
OnFile(layer, version, values) ==
    \E row \in History(layer) : row.version = version /\ row.values = values

\* What was in force before version n + 1: version n, or nothing.
Before(layer, n, values) == IF n = 0 THEN values = Nothing ELSE OnFile(layer, n, values)

\* What a request read stays true while it waits: rows are only ever added.
ReadIsOnFile ==
    \A m \in Editors :
        req[m].stage \in {"insert", "clean", "record"} =>
            Before(req[m].layer, req[m].seen, req[m].before)

\* A request that has inserted its version still finds it there.
InsertedIsOnFile ==
    \A m \in Editors :
        req[m].stage \in {"clean", "record"} =>
            /\ req[m].seen < MaxVersions
            /\ OnFile(req[m].layer, req[m].seen + 1, req[m].values)

HistoryInv == IsFiniteSet(versions) /\ OneVersionEach

SettingsInv ==
    /\ SettingsTypes /\ HistoryInv /\ ReadIsOnFile /\ InsertedIsOnFile /\ AuditIsTrue

-----------------------------------------------------------------------------
\* What a layer sets is a function on some keys.
LEMMA OverridesDef ==
    ASSUME NEW f
    PROVE  f \in Overrides <=> \E K \in SUBSET Keys : f \in [K -> Values]
BY DEF Overrides

\* Setting nothing is a set of overrides.
LEMMA NothingIsOverride == Nothing \in Overrides
<1>1. Nothing \in [{} -> Values]
  BY DEF Nothing
<1>. QED
  BY <1>1, OverridesDef

\* What the running build accepts of a row is a set of overrides.
LEMMA AcceptedIsOverride ==
    ASSUME NEW layer, NEW f \in Overrides
    PROVE  Accepted(layer, f) \in Overrides
<1>1. PICK K \in SUBSET Keys : f \in [K -> Values]
  BY OverridesDef
<1>2. Accepted(layer, f) \in [{k \in K : Allowed(layer, k, f[k])} -> Values]
  BY <1>1 DEF Accepted
<1>3. {k \in K : Allowed(layer, k, f[k])} \in SUBSET Keys
  BY <1>1
<1>. QED
  BY <1>2, <1>3, OverridesDef

\* Taking keys away leaves a set of overrides.
LEMMA DropIsOverride ==
    ASSUME NEW f \in Overrides, NEW C \in SUBSET Keys
    PROVE  Drop(f, C) \in Overrides
<1>1. PICK K \in SUBSET Keys : f \in [K -> Values]
  BY OverridesDef
<1>2. Drop(f, C) \in [K \ C -> Values]
  BY <1>1 DEF Drop
<1>. QED
  BY <1>1, <1>2, OverridesDef

\* Laying one set of overrides over another gives one.
LEMMA MergeIsOverride ==
    ASSUME NEW f \in Overrides, NEW g \in Overrides
    PROVE  Merge(f, g) \in Overrides
<1>1. PICK K \in SUBSET Keys : f \in [K -> Values]
  BY OverridesDef
<1>2. PICK L \in SUBSET Keys : g \in [L -> Values]
  BY OverridesDef
<1>3. Merge(f, g) \in [K \cup L -> Values]
  BY <1>1, <1>2 DEF Merge
<1>. QED
  BY <1>1, <1>2, <1>3, OverridesDef

\* A history that is not empty has a newest row: the versions are 1 to their count.
LEMMA NewestExists ==
    ASSUME HistoryInv, SettingsTypes, NEW l \in Layers, History(l) # {}
    PROVE  \E row \in Newest(l) : TRUE
<1>1. IsFiniteSet(History(l))
  BY FS_Subset DEF HistoryInv, History
<1>2. PICK n \in Nat : n = Cardinality(History(l))
  BY <1>1, FS_CardinalityType
<1>3. {r.version : r \in History(l)} = 1..n
  BY <1>2 DEF HistoryInv, OneVersionEach
<1>4. n # 0
  BY <1>3
<1>5. n \in 1..n
  BY <1>2, <1>4
<1>6. PICK row \in History(l) : row.version = n
  BY <1>3, <1>5
<1>7. \A q \in History(l) : q.version \in 1..n
  BY <1>3
<1>8. \A q \in History(l) : q.version <= row.version
  BY <1>6, <1>7, <1>2
<1>. QED
  BY <1>6, <1>8 DEF Newest

\* What a request reads of a layer is its newest row, or that there is none.
LEMMA PublishedIsOnFile ==
    ASSUME HistoryInv, SettingsTypes, NEW l \in Layers
    PROVE  /\ PublishedVersion(l) \in 0..MaxVersions
           /\ Published(l) \in Overrides
           /\ Before(l, PublishedVersion(l), Published(l))
<1>1. CASE History(l) = {}
  BY <1>1, NothingIsOverride, SettingsAssumption DEF PublishedVersion, Published, Before
<1>2. CASE History(l) # {}
  <2>1. PICK row : row = CHOOSE r \in Newest(l) : TRUE
    OBVIOUS
  <2>2. row \in Newest(l)
    BY <2>1, <1>2, NewestExists
  <2>3. row \in History(l) /\ row \in VersionRows
    BY <2>2 DEF Newest, History, SettingsTypes
  <2>4. PublishedVersion(l) = row.version /\ Published(l) = row.values
    BY <1>2, <2>1 DEF PublishedVersion, Published
  <2>5. row.version \in 1..MaxVersions /\ row.values \in Overrides
    BY <2>3 DEF VersionRows
  <2>6. MaxVersions \in Nat
    BY SettingsAssumption
  <2>7. row.version # 0
    BY <2>5, <2>6
  <2>8. OnFile(l, row.version, row.values)
    BY <2>3 DEF OnFile
  <2>. QED
    BY <2>4, <2>5, <2>6, <2>7, <2>8 DEF Before
<1>. QED
  BY <1>1, <1>2

\* Rows are only added, so what is on file stays on file.
LEMMA OnFileStays ==
    ASSUME versions \subseteq versions', NEW l, NEW n, NEW values
    PROVE  /\ OnFile(l, n, values) => OnFile(l, n, values)'
           /\ Before(l, n, values) => Before(l, n, values)'
<1>1. History(l) \subseteq History(l)'
  BY DEF History
<1>2. OnFile(l, n, values) => OnFile(l, n, values)'
  BY <1>1 DEF OnFile
<1>. QED
  BY <1>2 DEF Before

\* The trail is true when each entry names a version on file and the one before it.
LEMMA AuditMeans ==
    AuditIsTrue <=> \A e \in audit : /\ OnFile(e.layer, e.version, e.after)
                                     /\ IF e.version = 1 THEN e.before = Nothing
                                        ELSE OnFile(e.layer, e.version - 1, e.before)
BY DEF AuditIsTrue, OnFile

\* An empty history satisfies the invariant.
LEMMA SettingsInitInv == SettingsInit => SettingsInv
<1>. SUFFICES ASSUME SettingsInit PROVE SettingsInv
  OBVIOUS
<1>1. /\ {MaxVersions, MaxDrafts, MaxRestarts} \subseteq Nat
      /\ 0 \in 0..MaxVersions /\ 0 \in 0..MaxDrafts /\ 0 \in 0..MaxRestarts
  BY SettingsAssumption
<1>2. NoRequest \in Requests
  BY <1>1, NothingIsOverride DEF NoRequest, Requests, Layers
<1>3. SettingsTypes
  BY <1>1, <1>2 DEF SettingsInit, SettingsTypes
<1>4. \A l \in Layers : History(l) = {}
  BY DEF SettingsInit, History
<1>5. HistoryInv
  BY <1>4, FS_EmptySet DEF SettingsInit, HistoryInv, OneVersionEach
<1>6. \A m \in Editors : req[m].stage = "idle"
  BY DEF SettingsInit, NoRequest
<1>. QED
  BY <1>3, <1>5, <1>6 DEF SettingsInit, SettingsInv, ReadIsOnFile, InsertedIsOnFile, AuditIsTrue

-----------------------------------------------------------------------------
\* A step that adds no row, and whose request either has not read a layer yet or
\* keeps what it read, keeps all but the types.
LEMMA RowsAreKept ==
    ASSUME SettingsInv, UNCHANGED <<versions, audit>>, SettingsTypes',
           \A k \in Editors :
               \/ req'[k].stage \in {"idle", "save", "look"}
               \/ req'[k] = req[k]
    PROVE  SettingsInv'
<1>1. HistoryInv' /\ AuditIsTrue'
  BY DEF SettingsInv, HistoryInv, OneVersionEach, AuditIsTrue, History
<1>2. ReadIsOnFile'
  BY DEF SettingsInv, ReadIsOnFile, Before, OnFile, History
<1>3. InsertedIsOnFile'
  BY DEF SettingsInv, InsertedIsOnFile, OnFile, History
<1>. QED
  BY <1>1, <1>2, <1>3 DEF SettingsInv

\* A request moves on alone.
LEMMA StageEffect ==
    ASSUME req \in [Editors -> Requests], NEW m \in Editors, NEW r \in Requests, Stage(m, r)
    PROVE  /\ req' \in [Editors -> Requests]
           /\ req'[m] = r
           /\ \A k \in Editors : k # m => req'[k] = req[k]
BY DEF Stage

\* A manager with no request is in one of the states of a request.
LEMMA NoRequestTyped == NoRequest \in Requests
<1>1. 0 \in 0..MaxVersions /\ 0 \in 0..MaxDrafts
  BY SettingsAssumption
<1>. QED
  BY <1>1, NothingIsOverride DEF NoRequest, Requests, Layers

\* Reading the draft to be saved keeps the invariant.
LEMMA BeginSaveInv ==
    ASSUME SettingsInv, NEW m \in Editors, BeginSave(m)
    PROVE  SettingsInv'
<1>1. PICK l \in Layers, p \in Patches :
        Stage(m, [NoRequest EXCEPT
            !.stage = "save", !.layer = l,
            !.id = IF draft[l] = None THEN 0 ELSE draft[l].id,
            !.values = Merge(Drop(IF draft[l] = None THEN Nothing ELSE draft[l].values, p.clear),
                             Accepted(l, p.set))])
  BY DEF BeginSave
<1>2. PICK base : base = IF draft[l] = None THEN Nothing ELSE draft[l].values
  OBVIOUS
<1>3. PICK id : id = IF draft[l] = None THEN 0 ELSE draft[l].id
  OBVIOUS
<1>4. base \in Overrides /\ id \in 0..MaxDrafts
  <2>1. draft[l] \in DraftRows \cup {None}
    BY DEF SettingsInv, SettingsTypes
  <2>. QED
    BY <1>2, <1>3, <2>1, NothingIsOverride, SettingsAssumption DEF DraftRows
<1>5. p.set \in Overrides /\ p.clear \in SUBSET Keys
  BY DEF Patches
<1>6. PICK v : v = Merge(Drop(base, p.clear), Accepted(l, p.set))
  OBVIOUS
<1>7. v \in Overrides
  BY <1>4, <1>5, <1>6, DropIsOverride, AcceptedIsOverride, MergeIsOverride
<1>8. PICK r : r = [NoRequest EXCEPT !.stage = "save", !.layer = l, !.id = id, !.values = v]
  OBVIOUS
<1>9. r \in Requests /\ r.stage = "save"
  BY <1>4, <1>7, <1>8, NoRequestTyped DEF Requests
<1>10. Stage(m, r)
  BY <1>1, <1>2, <1>3, <1>6, <1>8
<1>11. UNCHANGED <<registry, tables, restarts>>
  BY DEF BeginSave
<1>12. SettingsTypes'
  BY <1>9, <1>10, <1>11, StageEffect DEF SettingsInv, SettingsTypes, tables
<1>. QED
  BY <1>9, <1>10, <1>11, <1>12, StageEffect, RowsAreKept DEF SettingsInv, SettingsTypes, tables

\* Writing the draft keeps the invariant: no row of the history is touched.
LEMMA SaveInv ==
    ASSUME SettingsInv, NEW m \in Editors, Save(m)
    PROVE  SettingsInv'
<1>1. Stage(m, NoRequest) /\ UNCHANGED <<registry, versions, audit, restarts>>
  BY DEF Save, Finish
<1>2. /\ req' \in [Editors -> Requests]
      /\ \A k \in Editors : req'[k].stage = "idle" \/ req'[k] = req[k]
  BY <1>1, StageEffect, NoRequestTyped DEF SettingsInv, SettingsTypes, NoRequest
<1>3. /\ draft \in [Layers -> DraftRows \cup {None}]
      /\ drafts \in 0..MaxDrafts /\ MaxDrafts \in Nat
      /\ req[m] \in Requests
  BY SettingsAssumption DEF SettingsInv, SettingsTypes
<1>4. draft' \in [Layers -> DraftRows \cup {None}] /\ drafts' \in 0..MaxDrafts
  <2>1. CASE UNCHANGED <<draft, drafts>>
    BY <2>1, <1>3
  <2>2. ASSUME NEW id, id = IF req[m].id = 0 THEN drafts + 1 ELSE req[m].id,
               draft' = [draft EXCEPT ![req[m].layer] = [id |-> id, values |-> req[m].values]],
               drafts' = IF req[m].id = 0 THEN id ELSE drafts
        PROVE  draft' \in [Layers -> DraftRows \cup {None}] /\ drafts' \in 0..MaxDrafts
    <3>1. req[m].id = 0 => drafts < MaxDrafts
      BY DEF Save
    <3>2. req[m].id \in 0..MaxDrafts /\ req[m].values \in Overrides /\ req[m].layer \in Layers
      BY <1>3 DEF Requests
    <3>3. id \in 1..MaxDrafts
      BY <1>3, <2>2, <3>1, <3>2
    <3>4. [id |-> id, values |-> req[m].values] \in DraftRows
      BY <3>2, <3>3 DEF DraftRows
    <3>. QED
      BY <1>3, <2>2, <3>2, <3>3, <3>4
  <2>. QED
    BY <2>1, <2>2 DEF Save
<1>5. SettingsTypes'
  BY <1>1, <1>2, <1>4 DEF SettingsInv, SettingsTypes
<1>. QED
  BY <1>1, <1>2, <1>5, RowsAreKept

\* Reading the draft to be published keeps the invariant.
LEMMA BeginPublishInv ==
    ASSUME SettingsInv, NEW m \in Editors, BeginPublish(m)
    PROVE  SettingsInv'
<1>1. PICK l \in Layers :
        /\ draft[l] # None
        /\ Stage(m, [NoRequest EXCEPT !.stage = "look", !.layer = l, !.id = draft[l].id,
                         !.values = Accepted(l, draft[l].values)])
  BY DEF BeginPublish
<1>2. draft[l] \in DraftRows
  BY <1>1 DEF SettingsInv, SettingsTypes
<1>3. PICK v : v = Accepted(l, draft[l].values)
  OBVIOUS
<1>4. PICK id : id = draft[l].id
  OBVIOUS
<1>5. v \in Overrides /\ id \in 0..MaxDrafts
  BY <1>2, <1>3, <1>4, AcceptedIsOverride, SettingsAssumption DEF DraftRows
<1>6. PICK r : r = [NoRequest EXCEPT !.stage = "look", !.layer = l, !.id = id, !.values = v]
  OBVIOUS
<1>7. r \in Requests /\ r.stage = "look"
  BY <1>5, <1>6, NoRequestTyped DEF Requests
<1>8. Stage(m, r) /\ UNCHANGED <<registry, tables, restarts>>
  BY <1>1, <1>3, <1>4, <1>6 DEF BeginPublish
<1>9. SettingsTypes'
  BY <1>7, <1>8, StageEffect DEF SettingsInv, SettingsTypes, tables
<1>. QED
  BY <1>7, <1>8, <1>9, StageEffect, RowsAreKept DEF SettingsInv, SettingsTypes, tables

\* Reading the version to be restored keeps the invariant.
LEMMA BeginRollbackInv ==
    ASSUME SettingsInv, NEW m \in Editors, BeginRollback(m)
    PROVE  SettingsInv'
<1>1. PICK row \in versions :
        Stage(m, [NoRequest EXCEPT !.stage = "look", !.layer = row.layer, !.from = row.version,
                      !.values = Accepted(row.layer, row.values)])
  BY DEF BeginRollback
<1>2. /\ row.layer \in Layers /\ row.values \in Overrides
      /\ row.version \in 0..MaxVersions
  BY SettingsAssumption DEF SettingsInv, SettingsTypes, VersionRows
<1>3. PICK v : v = Accepted(row.layer, row.values)
  OBVIOUS
<1>4. v \in Overrides
  BY <1>2, <1>3, AcceptedIsOverride
<1>5. PICK r : r = [NoRequest EXCEPT !.stage = "look", !.layer = row.layer, !.from = row.version,
                                     !.values = v]
  OBVIOUS
<1>6. r \in Requests /\ r.stage = "look"
  BY <1>2, <1>4, <1>5, NoRequestTyped DEF Requests
<1>7. Stage(m, r) /\ UNCHANGED <<registry, tables, restarts>>
  BY <1>1, <1>3, <1>5 DEF BeginRollback
<1>8. SettingsTypes'
  BY <1>6, <1>7, StageEffect DEF SettingsInv, SettingsTypes, tables
<1>. QED
  BY <1>6, <1>7, <1>8, StageEffect, RowsAreKept DEF SettingsInv, SettingsTypes, tables

\* What a request reads as the newest version is on file, under the largest number.
LEMMA LookInv ==
    ASSUME SettingsInv, NEW m \in Editors, LookAtPublished(m)
    PROVE  SettingsInv'
<1>1. UNCHANGED <<registry, tables, restarts>>
  BY DEF LookAtPublished
<1>2. req[m] \in Requests /\ req[m].layer \in Layers
  BY DEF SettingsInv, SettingsTypes, Requests
<1>3. CASE Finish(m)
  <2>1. /\ req' \in [Editors -> Requests]
        /\ \A k \in Editors : req'[k].stage = "idle" \/ req'[k] = req[k]
    BY <1>3, StageEffect, NoRequestTyped DEF Finish, SettingsInv, SettingsTypes, NoRequest
  <2>2. SettingsTypes'
    BY <1>1, <2>1 DEF SettingsInv, SettingsTypes, tables
  <2>. QED
    BY <1>1, <2>1, <2>2, RowsAreKept DEF tables
<1>4. CASE Stage(m, [req[m] EXCEPT !.stage = "insert",
                                   !.seen = PublishedVersion(req[m].layer),
                                   !.before = Published(req[m].layer)])
  <2>1. PICK l, n, before : l = req[m].layer /\ n = PublishedVersion(l) /\ before = Published(l)
    OBVIOUS
  <2>2. /\ l \in Layers /\ n \in 0..MaxVersions /\ before \in Overrides
        /\ Before(l, n, before)
    BY <1>2, <2>1, PublishedIsOnFile DEF SettingsInv
  <2>3. PICK r : r = [req[m] EXCEPT !.stage = "insert", !.seen = n, !.before = before]
    OBVIOUS
  <2>4. /\ r \in Requests /\ r.stage = "insert" /\ r.layer = l
        /\ r.seen = n /\ r.before = before
    BY <1>2, <2>1, <2>2, <2>3 DEF Requests
  <2>5. /\ req' \in [Editors -> Requests]
        /\ req'[m] = r
        /\ \A k \in Editors : k # m => req'[k] = req[k]
    BY <1>4, <2>1, <2>3, <2>4, StageEffect DEF SettingsInv, SettingsTypes
  <2>6. SettingsTypes'
    BY <1>1, <2>5 DEF SettingsInv, SettingsTypes, tables
  <2>7. HistoryInv' /\ AuditIsTrue'
    BY <1>1 DEF SettingsInv, HistoryInv, OneVersionEach, AuditIsTrue, History, tables
  <2>8. ReadIsOnFile'
    BY <1>1, <2>2, <2>4, <2>5 DEF SettingsInv, ReadIsOnFile, Before, OnFile, History, tables
  <2>9. InsertedIsOnFile'
    BY <1>1, <2>4, <2>5 DEF SettingsInv, InsertedIsOnFile, OnFile, History, tables
  <2>. QED
    BY <2>6, <2>7, <2>8, <2>9 DEF SettingsInv
<1>. QED
  BY <1>3, <1>4 DEF LookAtPublished

\* A number that is not taken is the next one: the request read the newest version,
\* and no other has published since.
LEMMA FreeNumberIsNext ==
    ASSUME SettingsInv, NEW m \in Editors, req[m].stage = "insert", ~Taken(m)
    PROVE  /\ IsFiniteSet(History(req[m].layer))
           /\ req[m].seen = Cardinality(History(req[m].layer))
<1>1. PICK l, n : l = req[m].layer /\ n = req[m].seen
  OBVIOUS
<1>2. req[m] \in Requests /\ l \in Layers /\ n \in Nat
  BY <1>1, SettingsAssumption DEF SettingsInv, SettingsTypes, Requests
<1>3. IsFiniteSet(History(l))
  BY FS_Subset DEF SettingsInv, HistoryInv, History
<1>4. PICK c \in Nat : c = Cardinality(History(l))
  BY <1>3, FS_CardinalityType
<1>5. {r.version : r \in History(l)} = 1..c
  BY <1>2, <1>4 DEF SettingsInv, HistoryInv, OneVersionEach
<1>6. n + 1 \notin 1..c
  BY <1>1, <1>5 DEF Taken, NewVersion
<1>7. n # 0 => n \in 1..c
  BY <1>1, <1>5 DEF SettingsInv, ReadIsOnFile, Before, OnFile
<1>8. n = c
  BY <1>2, <1>4, <1>6, <1>7
<1>. QED
  BY <1>1, <1>3, <1>4, <1>8

\* The inserted row takes the number after the newest one read: the unique index refuses
\* it when another publish was first, so the numbers stay 1..n.
LEMMA InsertInv ==
    ASSUME SettingsInv, NEW m \in Editors, InsertVersion(m)
    PROVE  SettingsInv'
<1>1. UNCHANGED <<registry, draft, audit, drafts, restarts>>
  BY DEF InsertVersion
<1>2. req[m] \in Requests /\ req[m].layer \in Layers
  BY DEF SettingsInv, SettingsTypes, Requests
<1>3. CASE Taken(m)
  <2>1. Finish(m) /\ UNCHANGED versions
    BY <1>3 DEF InsertVersion
  <2>2. /\ req' \in [Editors -> Requests]
        /\ \A k \in Editors : req'[k].stage = "idle" \/ req'[k] = req[k]
    BY <2>1, StageEffect, NoRequestTyped DEF Finish, SettingsInv, SettingsTypes, NoRequest
  <2>3. SettingsTypes'
    BY <1>1, <2>1, <2>2 DEF SettingsInv, SettingsTypes
  <2>. QED
    BY <1>1, <2>1, <2>2, <2>3, RowsAreKept
<1>4. CASE ~Taken(m)
  <2>1. PICK l, n, v, f : l = req[m].layer /\ n = req[m].seen /\ v = req[m].values /\ f = req[m].from
    OBVIOUS
  <2>2. PICK row : row = [layer |-> l, version |-> n + 1, values |-> v, rolledBackFrom |-> f]
    OBVIOUS
  <2>3. /\ versions' = versions \cup {row}
        /\ Stage(m, [req[m] EXCEPT !.stage = "clean"])
        /\ n < MaxVersions /\ req[m].stage = "insert"
    BY <1>4, <2>1, <2>2 DEF InsertVersion, NewVersion
  <2>4. /\ l \in Layers /\ n \in 0..MaxVersions /\ v \in Overrides /\ f \in 0..MaxVersions
        /\ MaxVersions \in Nat
    BY <1>2, <2>1, SettingsAssumption DEF Requests
  <2>5. row \in VersionRows
    BY <2>2, <2>3, <2>4 DEF VersionRows
  <2>6. PICK r : r = [req[m] EXCEPT !.stage = "clean"]
    OBVIOUS
  <2>7. /\ r \in Requests /\ r.stage = "clean" /\ r.layer = l /\ r.seen = n /\ r.values = v
        /\ r.before = req[m].before
    BY <1>2, <2>1, <2>6 DEF Requests
  <2>8. /\ req' \in [Editors -> Requests]
        /\ req'[m] = r
        /\ \A k \in Editors : k # m => req'[k] = req[k]
    BY <2>3, <2>6, <2>7, StageEffect DEF SettingsInv, SettingsTypes
  <2>9. SettingsTypes'
    BY <1>1, <2>3, <2>5, <2>8 DEF SettingsInv, SettingsTypes
  <2>10. IsFiniteSet(versions')
    BY <2>3, FS_AddElement DEF SettingsInv, HistoryInv
  <2>11. OneVersionEach'
    <3>. SUFFICES ASSUME NEW k \in Layers
                  PROVE  {q.version : q \in History(k)'} = 1..Cardinality(History(k)')
      BY DEF OneVersionEach
    <3>1. CASE k # l
      <4>1. History(k)' = History(k)
        BY <2>2, <2>3, <3>1 DEF History
      <4>. QED
        BY <4>1 DEF SettingsInv, HistoryInv, OneVersionEach
    <3>2. CASE k = l
      <4>1. History(k)' = History(k) \cup {row}
        BY <2>2, <2>3, <3>2 DEF History
      <4>2. IsFiniteSet(History(k)) /\ n = Cardinality(History(k))
        BY <1>4, <2>1, <2>3, <3>2, FreeNumberIsNext
      <4>3. {q.version : q \in History(k)} = 1..n
        BY <4>2 DEF SettingsInv, HistoryInv, OneVersionEach
      <4>4. row \notin History(k)
        BY <2>2, <2>4, <4>3
      <4>5. Cardinality(History(k)') = n + 1
        BY <4>1, <4>2, <4>4, FS_AddElement
      <4>6. {q.version : q \in History(k)'} = (1..n) \cup {n + 1}
        BY <2>2, <4>1, <4>3
      <4>7. (1..n) \cup {n + 1} = 1..(n + 1)
        BY <2>4
      <4>. QED
        BY <4>5, <4>6, <4>7
    <3>. QED
      BY <3>1, <3>2
  <2>12. \A k : History(k) \subseteq History(k)'
    BY <2>3 DEF History
  <2>13. row \in History(l)'
    BY <2>2, <2>3 DEF History
  <2>14. AuditIsTrue'
    BY <1>1, <2>12 DEF SettingsInv, AuditIsTrue
  <2>15. ReadIsOnFile'
    <3>. SUFFICES ASSUME NEW k \in Editors, req'[k].stage \in {"insert", "clean", "record"}
                  PROVE  Before(req[k].layer, req[k].seen, req[k].before)'
      BY DEF ReadIsOnFile
    <3>1. /\ req'[k].layer = req[k].layer /\ req'[k].seen = req[k].seen
          /\ req'[k].before = req[k].before
          /\ req[k].stage \in {"insert", "clean", "record"}
      BY <2>1, <2>3, <2>7, <2>8
    <3>. QED
      BY <2>3, <3>1 DEF SettingsInv, ReadIsOnFile, Before, OnFile, History
  <2>16. InsertedIsOnFile'
    <3>1. ASSUME NEW k \in Editors, k # m, req'[k].stage \in {"clean", "record"}
          PROVE  req'[k].seen < MaxVersions /\ OnFile(req[k].layer, req[k].seen + 1, req[k].values)'
      BY <2>3, <2>8, <3>1 DEF SettingsInv, InsertedIsOnFile, OnFile, History
    <3>2. req'[m].seen < MaxVersions /\ OnFile(req[m].layer, req[m].seen + 1, req[m].values)'
      BY <2>2, <2>3, <2>7, <2>8, <2>13 DEF OnFile, History
    <3>. QED
      BY <3>1, <3>2 DEF InsertedIsOnFile
  <2>. QED
    BY <2>9, <2>10, <2>11, <2>14, <2>15, <2>16 DEF SettingsInv, HistoryInv
<1>. QED
  BY <1>3, <1>4

\* Deleting the published draft keeps the invariant.
LEMMA CleanInv ==
    ASSUME SettingsInv, NEW m \in Editors, CleanDraft(m)
    PROVE  SettingsInv'
<1>1. UNCHANGED <<registry, versions, audit, drafts, restarts>> /\ req[m].stage = "clean"
  BY DEF CleanDraft
<1>2. req[m] \in Requests
  BY DEF SettingsInv, SettingsTypes
<1>3. PICK r : r = [req[m] EXCEPT !.stage = "record"]
  OBVIOUS
<1>4. /\ r \in Requests /\ r.stage = "record" /\ r.layer = req[m].layer
      /\ r.seen = req[m].seen /\ r.before = req[m].before /\ r.values = req[m].values
  BY <1>2, <1>3 DEF Requests
<1>5. \/ Stage(m, r) /\ draft' = [draft EXCEPT ![req[m].layer] = None]
      \/ Stage(m, NoRequest) /\ UNCHANGED draft
  BY <1>3 DEF CleanDraft, Finish
<1>6. /\ req' \in [Editors -> Requests]
      /\ req'[m] = r \/ req'[m].stage = "idle"
      /\ \A k \in Editors : k # m => req'[k] = req[k]
  BY <1>4, <1>5, StageEffect, NoRequestTyped DEF SettingsInv, SettingsTypes, NoRequest
<1>7. SettingsTypes'
  BY <1>1, <1>5, <1>6 DEF SettingsInv, SettingsTypes
<1>8. HistoryInv' /\ AuditIsTrue'
  BY <1>1 DEF SettingsInv, HistoryInv, OneVersionEach, AuditIsTrue, History
<1>9. ReadIsOnFile'
  BY <1>1, <1>4, <1>6 DEF SettingsInv, ReadIsOnFile, Before, OnFile, History
<1>10. InsertedIsOnFile'
  BY <1>1, <1>4, <1>6 DEF SettingsInv, InsertedIsOnFile, OnFile, History
<1>. QED
  BY <1>7, <1>8, <1>9, <1>10 DEF SettingsInv

\* The entry written says what the insertion put on file and what was there before.
LEMMA RecordInv ==
    ASSUME SettingsInv, NEW m \in Editors, RecordAudit(m)
    PROVE  SettingsInv'
<1>1. /\ UNCHANGED <<registry, draft, versions, drafts, restarts>> /\ req[m].stage = "record"
      /\ Stage(m, NoRequest)
  BY DEF RecordAudit, Finish
<1>2. PICK l, n, before, after : /\ l = req[m].layer /\ n = req[m].seen
                                 /\ before = req[m].before /\ after = req[m].values
  OBVIOUS
<1>3. PICK e : e = [layer |-> l, version |-> n + 1, before |-> before, after |-> after]
  OBVIOUS
<1>4. audit' = audit \cup {e}
  BY <1>2, <1>3 DEF RecordAudit
<1>5. /\ l \in Layers /\ n \in 0..MaxVersions /\ MaxVersions \in Nat
      /\ before \in Overrides /\ after \in Overrides
  BY <1>2, SettingsAssumption DEF SettingsInv, SettingsTypes, Requests
<1>6. /\ n < MaxVersions /\ OnFile(l, n + 1, after)
      /\ Before(l, n, before)
  BY <1>1, <1>2 DEF SettingsInv, ReadIsOnFile, InsertedIsOnFile
<1>7. e \in AuditRows
  BY <1>3, <1>5, <1>6 DEF AuditRows
<1>8. /\ req' \in [Editors -> Requests]
      /\ \A k \in Editors : req'[k].stage = "idle" \/ req'[k] = req[k]
  BY <1>1, StageEffect, NoRequestTyped DEF SettingsInv, SettingsTypes, NoRequest
<1>9. SettingsTypes'
  BY <1>1, <1>4, <1>7, <1>8 DEF SettingsInv, SettingsTypes
<1>10. HistoryInv' /\ ReadIsOnFile' /\ InsertedIsOnFile'
  BY <1>1, <1>8
  DEF SettingsInv, HistoryInv, OneVersionEach, ReadIsOnFile, InsertedIsOnFile, Before, OnFile, History
<1>11. AuditIsTrue'
  <2>1. \A k : History(k)' = History(k)
    BY <1>1 DEF History
  <2>2. /\ \E r \in History(e.layer) : r.version = e.version /\ r.values = e.after
        /\ IF e.version = 1 THEN e.before = Nothing
           ELSE \E r \in History(e.layer) : r.version = e.version - 1 /\ r.values = e.before
    <3>1. e.version = n + 1 /\ (e.version = 1 <=> n = 0) /\ e.version - 1 = n
      BY <1>3, <1>5
    <3>. QED
      BY <1>3, <1>6, <3>1 DEF OnFile, Before
  <2>. QED
    BY <1>4, <2>1, <2>2 DEF SettingsInv, AuditIsTrue
<1>. QED
  BY <1>9, <1>10, <1>11 DEF SettingsInv

\* Discarding a draft keeps the invariant.
LEMMA DiscardInv ==
    ASSUME SettingsInv, NEW m \in Editors, Discard(m)
    PROVE  SettingsInv'
<1>1. UNCHANGED <<registry, versions, audit, req, drafts, restarts>>
  BY DEF Discard
<1>2. SettingsTypes'
  BY <1>1 DEF Discard, SettingsInv, SettingsTypes
<1>. QED
  BY <1>1, <1>2, RowsAreKept

\* A restart drops the requests and keeps the tables.
LEMMA RestartInv ==
    ASSUME SettingsInv, Restart
    PROVE  SettingsInv'
<1>1. UNCHANGED tables /\ \A k \in Editors : req'[k].stage = "idle"
  BY DEF Restart, NoRequest
<1>2. SettingsTypes'
  BY <1>1, NoRequestTyped, SettingsAssumption DEF Restart, SettingsInv, SettingsTypes, tables
<1>. QED
  BY <1>1, <1>2, RowsAreKept DEF tables

\* Every step of the settings engine keeps the invariant.
LEMMA SettingsNextInv == SettingsInv /\ [SettingsNext]_settingsVars => SettingsInv'
<1>. SUFFICES ASSUME SettingsInv, [SettingsNext]_settingsVars PROVE SettingsInv'
  OBVIOUS
<1>1. ASSUME NEW m \in Editors,
             \/ BeginSave(m) \/ Save(m) \/ Discard(m)
             \/ BeginPublish(m) \/ BeginRollback(m)
             \/ LookAtPublished(m) \/ InsertVersion(m) \/ CleanDraft(m) \/ RecordAudit(m)
      PROVE  SettingsInv'
  BY <1>1, BeginSaveInv, SaveInv, DiscardInv, BeginPublishInv, BeginRollbackInv, LookInv,
     InsertInv, CleanInv, RecordInv
<1>2. CASE Restart
  BY <1>2, RestartInv
<1>3. CASE UNCHANGED settingsVars
  <2>1. SettingsTypes'
    BY <1>3 DEF settingsVars, tables, SettingsInv, SettingsTypes
  <2>. QED
    BY <1>3, <2>1, RowsAreKept DEF settingsVars, tables
<1>. QED
  BY <1>1, <1>2, <1>3 DEF SettingsNext

\* The history has one row for each number up to its length, in every reachable state,
\* and every waiting request read what is still on file.
THEOREM SettingsInvariant == SettingsSpec => []SettingsInv
BY SettingsInitInv, SettingsNextInv, PTL DEF SettingsSpec

\* The three things the settings' run checks, for any number of managers, keys, values,
\* builds, versions and restarts: no two publishes take one number, none is skipped, and
\* the trail says what each publish really replaced.
THEOREM SettingsHistoryIsTrue == SettingsSpec => []Inv
<1>1. SettingsInv => Inv
  BY DEF SettingsInv, HistoryInv, Inv, SettingsTypes, Requests, SettingsTypeOK
<1>. QED
  BY <1>1, SettingsInvariant, PTL

\* Whatever older builds published, the value in force is one the running build admits.
THEOREM EffectiveIsAlwaysAllowed == SettingsSpec => []EffectiveIsAllowed
<1>1. SettingsTypes => EffectiveIsAllowed
  <2>. SUFFICES ASSUME SettingsTypes PROVE EffectiveIsAllowed
    OBVIOUS
  <2>1. /\ DOMAIN registry \subseteq Keys
        /\ \A k \in DOMAIN registry : registry[k].default \in registry[k].values
    BY SettingsAssumption DEF SettingsTypes
  <2>2. \A l \in Layers : \A k \in DOMAIN Layer(l) :
            /\ k \in DOMAIN registry /\ l \in registry[k].scopes
            /\ Layer(l)[k] \in registry[k].values
    BY DEF Layer, Accepted, Allowed
  <2>3. "MERCHANT" \in Layers /\ "STATION" \in Layers
    BY DEF Layers
  <2>4. ASSUME NEW k \in DOMAIN registry
        PROVE  Effective[k] \in registry[k].values
    <3>1. PICK d, f, g : /\ d = [j \in DOMAIN registry |-> registry[j].default]
                         /\ f = Layer("MERCHANT") /\ g = Layer("STATION")
      OBVIOUS
    <3>2. Effective = Merge(Merge(d, f), g)
      BY <3>1 DEF Effective
    <3>3. /\ d[k] \in registry[k].values
          /\ k \in DOMAIN f => f[k] \in registry[k].values
          /\ k \in DOMAIN g => g[k] \in registry[k].values
      BY <2>1, <2>2, <2>3, <2>4, <3>1
    <3>4. PICK h : h = Merge(d, f)
      OBVIOUS
    <3>5. k \in DOMAIN h /\ h[k] \in registry[k].values
      BY <2>4, <3>1, <3>3, <3>4 DEF Merge
    <3>. QED
      BY <3>2, <3>3, <3>4, <3>5 DEF Merge
  <2>. QED
    BY <2>2, <2>4 DEF EffectiveIsAllowed
<1>. QED
  BY <1>1, SettingsInvariant, PTL DEF SettingsInv

\* No two rows of a layer share a version, so the values in force are those of one row,
\* whatever order the database returns them in.
OneRowInForce == \A l \in Layers : \A r, q \in History(l) : r.version = q.version => r = q

\* The read that takes the newest version finds one row: settings-engine.service.ts asks
\* for the first row by descending version, and no other row has that number.
THEOREM InForceIsOneRow == SettingsSpec => []OneRowInForce
<1>1. SettingsInv => OneRowInForce
  <2>. SUFFICES ASSUME SettingsInv, NEW l \in Layers,
                       NEW r \in History(l), NEW q \in History(l), r.version = q.version
                PROVE  r = q
    BY DEF OneRowInForce
  <2>1. IsFiniteSet(History(l))
    BY FS_Subset DEF SettingsInv, HistoryInv, History
  <2>2. PICK n \in Nat : n = Cardinality(History(l))
    BY <2>1, FS_CardinalityType
  <2>3. {p.version : p \in History(l)} = 1..n
    BY <2>2 DEF SettingsInv, HistoryInv, OneVersionEach
  <2>4. PICK f : f = [p \in History(l) |-> p.version]
    OBVIOUS
  <2>5. f \in Surjection(History(l), 1..n)
    BY <2>3, <2>4 DEF Surjection
  <2>6. Cardinality(1..n) = n
    BY <2>2, FS_Interval
  <2>7. f \in Injection(History(l), 1..n)
    BY <2>1, <2>2, <2>5, <2>6, FS_SurjSameCardinalityImpliesInj
  <2>. QED
    BY <2>4, <2>7 DEF Injection, IsInjective
<1>. QED
  BY <1>1, SettingsInvariant, PTL

-----------------------------------------------------------------------------
(***************************************************************************)
(* The licence.  For any codes, windows, requests and disturbances:        *)
(* ShopInv (types, what a process has read, remembered statuses that the codes *)
(* beside them come to) holds whatever is done.  On it rest a paid licence *)
(* that is never refused (PaidInv: the codes are in the database or in the *)
(* mirror that puts them back) and days that are never added (PeakInv: the *)
(* latest recorded time is on an anchor that survives).  The two last have a *)
(* hypothesis on the disturbances a run admits; without it each is false.  *)
(***************************************************************************)



\* A set of numbers has a smallest.
LEMMA SmallestOf ==
    ASSUME NEW S \in SUBSET Nat, S # {}
    PROVE  \E n \in S : \A m \in S : n <= m
<1>1. \E n \in S : \A m \in S : <<m, n>> \notin OpToRel(<, Nat)
  BY NatLessThanWellFounded, WFMin, Zenon
<1>2. \A m, n \in Nat : <<m, n>> \notin OpToRel(<, Nat) => n <= m
  BY DEF OpToRel
<1>. QED
  BY <1>1, <1>2

\* Finitely many times have a latest one: the one that fewest are later than.
LEMMA LatestOf ==
    ASSUME NEW S \in SUBSET Int, IsFiniteSet(S), S # {}
    PROVE  Latest(S) \in S /\ \A u \in S : u <= Latest(S)
<1>. DEFINE above(x) == {y \in S : y > x}
            sizes == {Cardinality(above(x)) : x \in S}
<1>1. \A x \in S : IsFiniteSet(above(x)) /\ Cardinality(above(x)) \in Nat
  <2>. SUFFICES ASSUME NEW x \in S PROVE IsFiniteSet(above(x)) /\ Cardinality(above(x)) \in Nat
    OBVIOUS
  <2>1. above(x) \in SUBSET S
    OBVIOUS
  <2>2. IsFiniteSet(above(x))
    BY <2>1, FS_Subset
  <2>. QED
    BY <2>2, FS_CardinalityType
<1>2. sizes \in SUBSET Nat /\ sizes # {}
  BY <1>1
<1>3. PICK x \in S : \A y \in S : Cardinality(above(x)) <= Cardinality(above(y))
  <2>. HIDE DEF above
  <2>1. \E n \in sizes : \A m \in sizes : n <= m
    <3>. HIDE DEF sizes
    <3>. QED
      BY <1>2, SmallestOf, Zenon
  <2>2. PICK n \in sizes : \A m \in sizes : n <= m
    BY <2>1
  <2>3. PICK x \in S : n = Cardinality(above(x))
    OBVIOUS
  <2>4. \A y \in S : Cardinality(above(y)) \in sizes
    OBVIOUS
  <2>5. \A y \in S : n <= Cardinality(above(y))
    <3>. HIDE DEF sizes
    <3>. QED
      BY <2>2, <2>4, Zenon
  <2>6. \A y \in S : Cardinality(above(x)) <= Cardinality(above(y))
    BY <2>3, <2>5
  <2>. QED
    BY <2>6
<1>4. \A u \in S : u <= x
  <2>. SUFFICES ASSUME NEW u \in S, u > x PROVE FALSE
    OBVIOUS
  <2>0. u \in Int /\ x \in Int /\ \A y \in S : y \in Int
    OBVIOUS
  <2>1. above(u) \in SUBSET above(x) /\ u \in above(x) /\ u \notin above(u)
    <3>1. \A y \in S : y > u => y > x
      BY <2>0
    <3>2. ~(u > u)
      BY <2>0
    <3>. QED
      BY <3>1, <3>2
  <2>2. /\ Cardinality(above(u)) <= Cardinality(above(x))
        /\ Cardinality(above(x)) = Cardinality(above(u)) => above(x) = above(u)
    <3>. HIDE DEF above
    <3>. QED
      BY <1>1, <2>1, FS_Subset
  <2>3. Cardinality(above(x)) = Cardinality(above(u))
    <3>. HIDE DEF above
    <3>. QED
      BY <1>1, <1>3, <2>2
  <2>. QED
    BY <2>1, <2>2, <2>3
<1>. QED
  BY <1>4 DEF Latest

\* The later of two clocks is one of them and not before either.
LEMMA LaterOf ==
    ASSUME NEW t \in Int, NEW recorded \in Moments
    PROVE  /\ Later(t, recorded) \in Int
           /\ t <= Later(t, recorded)
           /\ recorded # None => recorded <= Later(t, recorded)
           /\ Later(t, recorded) \in {t, recorded}
<1>1. CASE recorded = None
  BY <1>1 DEF Later
<1>2. CASE recorded \in Int /\ recorded # None
  <2>1. PICK m \in {t, recorded} : \A u \in {t, recorded} : u <= m
    BY <1>2
  <2>2. Latest({t, recorded}) \in {t, recorded} /\ \A u \in {t, recorded} : u <= Latest({t, recorded})
    BY <2>1 DEF Latest
  <2>. QED
    BY <1>2, <2>2 DEF Later
<1>. QED
  BY <1>1, <1>2 DEF Moments

\* The sooner of two times is one of them and not after either.
LEMMA SoonestOf ==
    ASSUME NEW a \in Int, NEW b \in Int
    PROVE  /\ Soonest({a, b}) \in {a, b}
           /\ Soonest({a, b}) <= a /\ Soonest({a, b}) <= b
<1>1. PICK m \in {a, b} : \A u \in {a, b} : m <= u
  OBVIOUS
<1>. QED
  BY <1>1 DEF Soonest

\* The anchors resolve to a reading, and to none only when all are missing.
LEMMA ResolveOf ==
    ASSUME NEW readings \in SUBSET Moments, IsFiniteSet(readings)
    PROVE  /\ Resolve(readings) \in Moments /\ Resolve(readings) \in readings \cup {None}
           /\ \A r \in readings : r # None => Resolve(readings) # None /\ r <= Resolve(readings)
<1>. DEFINE present == readings \ {None}
<1>1. present \in SUBSET Int /\ IsFiniteSet(present)
  BY FS_RemoveElement DEF Moments
<1>2. CASE present = {}
  BY <1>2 DEF Resolve, Moments
<1>3. CASE present # {}
  <2>1. Latest(present) \in present /\ \A u \in present : u <= Latest(present)
    BY <1>1, <1>3, LatestOf
  <2>2. Resolve(readings) = Latest(present)
    BY <1>3 DEF Resolve
  <2>. QED
    BY <1>1, <2>1, <2>2, LicenceRulesAssumption DEF Moments
<1>. QED
  BY <1>2, <1>3

-----------------------------------------------------------------------------
(* What the codes of an installation come to.                              *)

\* The licence that governs is one of those there, and a perpetual one if there is one.
LEMMA BestOf ==
    ASSUME NEW licences \in SUBSET Payloads, IsFiniteSet(licences), licences # {}
    PROVE  /\ Best(licences) \in licences
           /\ (\E p \in licences : p.kind = "perpetual") => Best(licences).kind = "perpetual"
<1>. DEFINE perpetual == {p \in licences : p.kind = "perpetual"}
<1>1. CASE perpetual # {}
  <2>1. Best(licences) = CHOOSE p \in perpetual : TRUE
    BY <1>1 DEF Best
  <2>2. Best(licences) \in perpetual
    BY <1>1, <2>1
  <2>. QED
    BY <2>2
<1>2. CASE perpetual = {}
  <2>. DEFINE ends == {p.exp : p \in licences}
              end == [p \in licences |-> p.exp]
  <2>1. \A p \in licences : p.kind = "trial" /\ p.exp \in Int
    BY <1>2 DEF Payloads, Kinds
  <2>2. ends \in SUBSET Int /\ ends # {}
    BY <2>1
  <2>3. IsFiniteSet(ends)
    <3>1. end \in Surjection(licences, ends)
      BY DEF Surjection
    <3>. QED
      BY <3>1, FS_Surjection
  <2>4. Latest(ends) \in ends /\ \A u \in ends : u <= Latest(ends)
    BY <2>2, <2>3, LatestOf
  <2>5. PICK p \in licences : \A q \in licences : q.exp <= p.exp
    BY <2>4
  <2>6. Best(licences) = CHOOSE r \in licences : \A q \in licences : q.exp <= r.exp
    BY <1>2 DEF Best
  <2>7. Best(licences) \in licences
    BY <2>5, <2>6
  <2>. QED
    BY <1>2, <2>7
<1>. QED
  BY <1>1, <1>2
Evaluations == [status : Statuses, until : Moments]

\* The constants are numbers, and a missing time is not.
LEMMA Numbers ==
    /\ Grace \in Nat /\ Tolerance \in Nat /\ Fallback \in Nat
    /\ IssueLead \in Nat /\ UnlockCover \in Nat /\ Tolerance <= IssueLead /\ None \notin Int
    /\ Int \subseteq Moments /\ None \in Moments /\ \A m \in Moments : m # None => m \in Int
BY LicenceRulesAssumption DEF Moments

\* The status of the licences: a perpetual one decides; a trial's end is what
\* the status carries, and it runs by both clocks.
LEMMA EvaluateOf ==
    ASSUME NEW licences \in SUBSET Payloads, IsFiniteSet(licences),
           NEW n \in Int, NEW recorded \in Moments
    PROVE  LET e == Evaluate(licences, n, recorded) IN
           /\ e \in Evaluations /\ e.status # "EMERGENCY"
           /\ (\E p \in licences : p.kind = "perpetual") => e.status = "PERPETUAL"
           /\ e.status = "PERPETUAL" => \E p \in licences : p.kind = "perpetual"
           /\ e.status \in {"TRIAL", "GRACE"} =>
                 \E p \in licences :
                    /\ p.kind = "trial" /\ p.exp \in Int /\ e.until = p.exp + Grace /\ n < e.until
                    /\ p.iat <= n + Tolerance
                    /\ recorded # None => recorded <= n + Tolerance
<1>. DEFINE e == Evaluate(licences, n, recorded)
            best == Best(licences)
<1>1. CASE licences = {}
  <2>1. e = [status |-> "UNLICENSED", until |-> None]
    BY <1>1 DEF Evaluate, Evaluation
  <2>. QED
    BY <1>1, <2>1, Numbers DEF Evaluations, Statuses
<1>2. CASE licences # {} /\ best.kind = "perpetual"
  <2>1. best \in licences
    BY <1>2, BestOf
  <2>2. e = [status |-> "PERPETUAL", until |-> None]
    BY <1>2 DEF Evaluate, Evaluation
  <2>. QED
    BY <1>2, <2>1, <2>2, Numbers DEF Evaluations, Statuses
<1>3. CASE licences # {} /\ best.kind # "perpetual"
  <2>1. best \in licences /\ ~ \E p \in licences : p.kind = "perpetual"
    BY <1>3, BestOf
  <2>2. best.kind = "trial" /\ best.exp \in Int /\ best.iat \in Int
    BY <1>3, <2>1 DEF Payloads, Kinds
  <2>. DEFINE until == best.exp + Grace
              back == RolledBack(n, Later(best.iat, recorded))
  <2>3. until \in Int /\ n < best.exp => n < until
    BY <2>2, Numbers
  <2>4. ~back => /\ best.iat <= n + Tolerance
                 /\ recorded # None => recorded <= n + Tolerance
    <3>1. /\ Later(best.iat, recorded) \in Int /\ best.iat <= Later(best.iat, recorded)
          /\ recorded # None => recorded <= Later(best.iat, recorded)
      BY <2>2, LaterOf
    <3>2. n + Tolerance \in Int /\ (recorded # None => recorded \in Int)
      BY Numbers
    <3>. QED
      BY <2>2, <3>1, <3>2, Numbers DEF RolledBack
  <2>5. \/ e = [status |-> "TAMPERED", until |-> until]
        \/ e = [status |-> "EXPIRED", until |-> until]
        \/ e = [status |-> "TRIAL", until |-> until] /\ ~back /\ n < best.exp
        \/ e = [status |-> "GRACE", until |-> until] /\ ~back /\ n < until
    <3>. HIDE DEF until, back
    <3>1. e = CASE back -> Evaluation("TAMPERED", until)
                [] ~back /\ n < best.exp -> Evaluation("TRIAL", until)
                [] ~back /\ best.exp <= n /\ n < until -> Evaluation("GRACE", until)
                [] OTHER -> Evaluation("EXPIRED", until)
      BY <1>3, Zenon DEF Evaluate, until, back
    <3>2. CASE back
      BY <3>1, <3>2 DEF Evaluation
    <3>3. CASE ~back /\ n < best.exp
      <4>1. ~(best.exp <= n)
        BY <2>2, <3>3
      <4>. QED
        BY <3>1, <3>3, <4>1 DEF Evaluation
    <3>4. CASE ~back /\ ~(n < best.exp) /\ best.exp <= n /\ n < until
      BY <3>1, <3>4 DEF Evaluation
    <3>5. CASE ~back /\ ~(n < best.exp) /\ ~(best.exp <= n /\ n < until)
      BY <3>1, <3>5 DEF Evaluation
    <3>. QED
      BY <3>2, <3>3, <3>4, <3>5
  <2>6. until \in Moments /\ (n < best.exp => n < until)
    BY <2>2, Numbers DEF Moments
  <2>. HIDE DEF until, back
  <2>7. e \in Evaluations /\ e.status \in {"TAMPERED", "EXPIRED", "TRIAL", "GRACE"} /\ e.until = until
    BY <2>5, <2>6 DEF Evaluations, Statuses
  <2>8. e.status \in {"TRIAL", "GRACE"} => n < until /\ ~back
    BY <2>5, <2>6
  <2>9. e.status \in {"TRIAL", "GRACE"} =>
          \E p \in licences :
             /\ p.kind = "trial" /\ p.exp \in Int /\ e.until = p.exp + Grace /\ n < e.until
             /\ p.iat <= n + Tolerance
             /\ recorded # None => recorded <= n + Tolerance
    BY <2>1, <2>2, <2>4, <2>7, <2>8 DEF until
  <2>. QED
    BY <2>1, <2>7, <2>9
<1>. QED
  BY <1>1, <1>2, <1>3
\* What a status promises: it is typed, a perpetual licence decides, and a
\* time-limited status runs by both clocks to an end that a window carries, or
\* a trial that the clock is not before, and the grace days after it.
Carries(licences, ends, n, end) ==
    end \in ends \/ \E p \in licences : p.kind = "trial" /\ p.exp = end /\ p.iat <= n + Tolerance

StatusIsSound(licences, ends, n, recorded, e) ==
    /\ e \in Evaluations
    /\ (\E p \in licences : p.kind = "perpetual") => e.status = "PERPETUAL"
    /\ e.status = "PERPETUAL" => \E p \in licences : p.kind = "perpetual"
    /\ e.status \in TimeLimited =>
          \E end \in ends \cup {p.exp : p \in {q \in licences : q.kind = "trial"}} :
             /\ end \in Int /\ e.until = end + Grace /\ n < e.until
             /\ Carries(licences, ends, n, end)
             /\ recorded # None => recorded < end + Grace + Tolerance

\* With emergency windows over the licences, the status is as it promises.
LEMMA EvaluateAllOf ==
    ASSUME NEW licences \in SUBSET Payloads, IsFiniteSet(licences), NEW spoiled \in BOOLEAN,
           NEW ends \in SUBSET Int, IsFiniteSet(ends),
           NEW n \in Int, NEW recorded \in Moments
    PROVE  StatusIsSound(licences, ends, n, recorded, EvaluateAll(licences, spoiled, ends, n, recorded))
<1>. DEFINE under == IF licences = {} /\ spoiled THEN Evaluation("TAMPERED", None)
                     ELSE Evaluate(licences, n, recorded)
            e == EvaluateAll(licences, spoiled, ends, n, recorded)
            until == Latest(ends)
            moment == Later(n, recorded)
            Runs(v) == \E end \in ends \cup {p.exp : p \in {q \in licences : q.kind = "trial"}} :
                          /\ end \in Int /\ v.until = end + Grace /\ n < v.until
                          /\ Carries(licences, ends, n, end)
                          /\ recorded # None => recorded < end + Grace + Tolerance
            Sound(v) == /\ v \in Evaluations
                        /\ (\E p \in licences : p.kind = "perpetual") => v.status = "PERPETUAL"
                        /\ v.status = "PERPETUAL" => \E p \in licences : p.kind = "perpetual"
                        /\ v.status \in TimeLimited => Runs(v)
<1>1. Sound(under) /\ under.status # "EMERGENCY"
  <2>1. CASE licences = {} /\ spoiled
    <3>1. under = [status |-> "TAMPERED", until |-> None]
      BY <2>1 DEF Evaluation
    <3>. HIDE DEF under
    <3>2. under \in Evaluations /\ under.status = "TAMPERED"
      BY <3>1, Numbers DEF Evaluations, Statuses
    <3>. QED
      BY <2>1, <3>2 DEF TimeLimited
  <2>2. CASE ~(licences = {} /\ spoiled)
    <3>1. under = Evaluate(licences, n, recorded)
      BY <2>2
    <3>. HIDE DEF under
    <3>2. /\ under \in Evaluations /\ under.status # "EMERGENCY"
          /\ (\E p \in licences : p.kind = "perpetual") => under.status = "PERPETUAL"
          /\ under.status = "PERPETUAL" => \E p \in licences : p.kind = "perpetual"
          /\ under.status \in {"TRIAL", "GRACE"} =>
                \E p \in licences :
                   /\ p.kind = "trial" /\ p.exp \in Int /\ under.until = p.exp + Grace /\ n < under.until
                   /\ p.iat <= n + Tolerance
                   /\ recorded # None => recorded <= n + Tolerance
      BY <3>1, EvaluateOf
    <3>3. under.status \in TimeLimited => Runs(under)
      <4>. SUFFICES ASSUME under.status \in TimeLimited PROVE Runs(under)
        OBVIOUS
      <4>1. PICK p \in licences :
              /\ p.kind = "trial" /\ p.exp \in Int /\ under.until = p.exp + Grace /\ n < under.until
              /\ p.iat <= n + Tolerance
              /\ recorded # None => recorded <= n + Tolerance
        BY <3>2 DEF TimeLimited
      <4>2. recorded # None => recorded < p.exp + Grace + Tolerance
        BY <4>1, Numbers
      <4>3. p.exp \in ends \cup {r.exp : r \in {q \in licences : q.kind = "trial"}}
        BY <4>1
      <4>4. Carries(licences, ends, n, p.exp)
        BY <4>1 DEF Carries
      <4>. QED
        BY <4>1, <4>2, <4>3, <4>4
    <3>. QED
      BY <3>2, <3>3
  <2>. QED
    BY <2>1, <2>2
<1>2. CASE under.status \in {"TRIAL", "PERPETUAL"} \/ ends = {}
  <2>1. e = under
    BY <1>2 DEF EvaluateAll
  <2>2. Sound(e)
    <3>. HIDE DEF e, under
    <3>. QED
      BY <1>1, <2>1
  <2>. HIDE DEF under
  <2>. QED
    BY <2>2, Zenon DEF StatusIsSound
<1>3. CASE under.status \notin {"TRIAL", "PERPETUAL"} /\ ends # {}
  <2>0. until \in ends
    <3>. HIDE DEF under
    <3>. QED
      BY <1>3, LatestOf
  <2>1. until \in ends /\ until \in Int /\ until + Grace \in Int
    <3>. HIDE DEF until
    <3>. QED
      BY <2>0, Numbers
  <2>2. moment \in Int /\ n <= moment /\ (recorded # None => recorded <= moment)
    BY LaterOf
  <2>3. ~ \E p \in licences : p.kind = "perpetual"
    <3>. HIDE DEF under
    <3>. QED
      BY <1>1, <1>3
  <2>. DEFINE alike == under.status = "GRACE" /\ under.until >= until + Grace
  <2>4. \/ e = under
        \/ e = [status |-> "EMERGENCY", until |-> until + Grace] /\ moment < until
        \/ e = [status |-> "GRACE", until |-> until + Grace] /\ moment < until + Grace
    <3>1. e = CASE under.status \in {"TRIAL", "PERPETUAL"} \/ ends = {} -> under
                [] under.status \notin {"TRIAL", "PERPETUAL"} /\ ends # {} /\ moment < until
                     -> Evaluation("EMERGENCY", until + Grace)
                [] under.status \notin {"TRIAL", "PERPETUAL"} /\ ends # {} /\ until <= moment
                   /\ moment < until + Grace
                     -> IF alike THEN under ELSE Evaluation("GRACE", until + Grace)
                [] OTHER -> under
      BY Zenon DEF EvaluateAll
    <3>. HIDE DEF e, under, until, moment, alike
    <3>2. CASE moment < until
      <4>1. ~(until <= moment)
        BY <2>1, <2>2, <3>2
      <4>. QED
        BY <1>3, <3>1, <3>2, <4>1 DEF Evaluation
    <3>3. CASE ~(moment < until) /\ until <= moment /\ moment < until + Grace
      BY <1>3, <3>1, <3>3 DEF Evaluation
    <3>4. CASE ~(moment < until) /\ ~(until <= moment /\ moment < until + Grace)
      BY <1>3, <3>1, <3>4
    <3>. QED
      BY <3>2, <3>3, <3>4
  <2>5. ASSUME e # under
        PROVE  /\ e.status \in {"EMERGENCY", "GRACE"} /\ e.until = until + Grace
               /\ moment < until + Grace
    <3>. HIDE DEF e, under, until, moment
    <3>1. moment < until => moment < until + Grace
      BY <2>1, <2>2, Numbers
    <3>. QED
      BY <2>4, <2>5, <3>1
  <2>6. ASSUME e # under
        PROVE  Runs(e)
    <3>. HIDE DEF e, under, until, moment
    <3>1. n < until + Grace /\ (recorded # None => recorded < until + Grace + Tolerance)
      BY <2>1, <2>2, <2>5, <2>6, Numbers
    <3>2. Carries(licences, ends, n, until)
      BY <2>1 DEF Carries
    <3>. QED
      BY <2>1, <2>5, <2>6, <3>1, <3>2
  <2>7. ASSUME e # under
        PROVE  e \in Evaluations
    <3>. HIDE DEF e, under, until, moment
    <3>. QED
      BY <2>1, <2>4, <2>7, Numbers DEF Evaluations, Statuses
  <2>8. Sound(e)
    <3>1. CASE e = under
      <4>. HIDE DEF e, under
      <4>. QED
        BY <1>1, <3>1
    <3>2. CASE e # under
      <4>. HIDE DEF e, under, until, moment, Runs
      <4>. QED
        BY <2>3, <2>5, <2>6, <2>7, <3>2
    <3>. QED
      BY <3>1, <3>2
  <2>. HIDE DEF under, until, moment
  <2>. QED
    BY <2>8, Zenon DEF StatusIsSound
<1>. QED
  BY <1>2, <1>3

-----------------------------------------------------------------------------
(* The same of stored codes.  An end is carried by a trial or a window.    *)
Perpetual(codes) == \E c \in codes : Payload[c].kind = "perpetual"
EndsOf(codes, unlocks) ==
    {Payload[c].exp : c \in {d \in codes : Payload[d].kind = "trial"}} \cup {Until[u] : u \in unlocks}

\* What a code carries: a trial has an end, a perpetual licence none.
LEMMA PayloadOf ==
    ASSUME NEW c \in Codes
    PROVE  /\ Payload[c] \in Payloads /\ Payload[c].kind \in {"trial", "perpetual"}
           /\ Payload[c].iat \in Int
           /\ Payload[c].kind = "trial" => Payload[c].exp \in Int
           /\ Payload[c].kind = "perpetual" => Payload[c].exp = None
BY LicenceAssumption DEF Payloads, Kinds

\* The licences and windows of a database are finitely many.
LEMMA HoldingTypes ==
    ASSUME NEW held \in Holdings
    PROVE  /\ Valid(held) \in SUBSET Payloads /\ IsFiniteSet(Valid(held))
           /\ Windows(held.unlocks) \in SUBSET Int /\ IsFiniteSet(Windows(held.unlocks))
<1>1. held.codes \ held.spoiled \in SUBSET Codes /\ held.unlocks \in SUBSET Unlocks
  BY DEF Holdings
<1>2. IsFiniteSet(held.codes \ held.spoiled) /\ IsFiniteSet(held.unlocks)
  BY <1>1, LicenceAssumption, FS_Subset
<1>3. IsFiniteSet(Valid(held))
  <2>. DEFINE f == [c \in held.codes \ held.spoiled |-> Payload[c]]
  <2>1. f \in Surjection(held.codes \ held.spoiled, Valid(held))
    BY DEF Surjection, Valid
  <2>. HIDE DEF f
  <2>. QED
    BY <1>2, <2>1, FS_Surjection
<1>4. IsFiniteSet(Windows(held.unlocks))
  <2>. DEFINE f == [u \in held.unlocks |-> Until[u]]
  <2>1. f \in Surjection(held.unlocks, Windows(held.unlocks))
    BY DEF Surjection, Windows
  <2>. HIDE DEF f
  <2>. QED
    BY <1>2, <2>1, FS_Surjection
<1>5. Valid(held) \in SUBSET Payloads
  BY <1>1, PayloadOf DEF Valid
<1>6. Windows(held.unlocks) \in SUBSET Int
  BY <1>1, LicenceAssumption DEF Windows
<1>. QED
  BY <1>3, <1>4, <1>5, <1>6

\* The end of a window, or of a trial that the clock is not before.
Begun(held, end) ==
    \/ end \in Windows(held.unlocks)
    \/ \E c \in held.codes :
          Payload[c].kind = "trial" /\ Payload[c].exp = end /\ Payload[c].iat <= now + Tolerance

\* A perpetual code that verifies decides; a time-limited status runs by both clocks to the
\* end of a stored trial or window and the grace days after it.
LEMMA StatusOfIs ==
    ASSUME NEW held \in Holdings, now \in Int, NEW recorded \in Moments
    PROVE  LET e == StatusOf(held, recorded) IN
           /\ e \in Evaluations
           /\ Perpetual(held.codes \ held.spoiled) => e.status = "PERPETUAL"
           /\ e.status = "PERPETUAL" => Perpetual(held.codes)
           /\ e.status \in TimeLimited =>
                 \E end \in EndsOf(held.codes, held.unlocks) :
                    /\ end \in Int /\ e.until = end + Grace /\ now < e.until
                    /\ Begun(held, end)
                    /\ recorded # None => recorded < end + Grace + Tolerance
<1>. DEFINE e == StatusOf(held, recorded)
            licences == Valid(held)
            ends == Windows(held.unlocks)
            trials == {p.exp : p \in {q \in licences : q.kind = "trial"}}
<1>1. /\ licences \in SUBSET Payloads /\ IsFiniteSet(licences)
      /\ ends \in SUBSET Int /\ IsFiniteSet(ends)
  BY HoldingTypes
<1>2. e = EvaluateAll(licences, held.spoiled # {}, ends, now, recorded)
  BY DEF StatusOf
<1>3. /\ e \in Evaluations
      /\ (\E p \in licences : p.kind = "perpetual") => e.status = "PERPETUAL"
      /\ e.status = "PERPETUAL" => \E p \in licences : p.kind = "perpetual"
      /\ e.status \in TimeLimited =>
            \E end \in ends \cup trials :
               /\ end \in Int /\ e.until = end + Grace /\ now < e.until
               /\ Carries(licences, ends, now, end)
               /\ recorded # None => recorded < end + Grace + Tolerance
  <2>. DEFINE s == held.spoiled # {}
  <2>1. s \in BOOLEAN /\ e = EvaluateAll(licences, s, ends, now, recorded)
    BY <1>2
  <2>. HIDE DEF e, licences, ends, s
  <2>2. StatusIsSound(licences, ends, now, recorded, e)
    BY <1>1, <2>1, EvaluateAllOf
  <2>. QED
    BY <2>2 DEF StatusIsSound
<1>4. Perpetual(held.codes \ held.spoiled) => \E p \in licences : p.kind = "perpetual"
  BY DEF Perpetual, Valid
<1>5. (\E p \in licences : p.kind = "perpetual") => Perpetual(held.codes)
  BY DEF Perpetual, Valid
<1>6. ends \cup trials \subseteq EndsOf(held.codes, held.unlocks)
  <2>1. trials \subseteq EndsOf(held.codes, held.unlocks)
    <3>. SUFFICES ASSUME NEW p \in licences, p.kind = "trial"
         PROVE  p.exp \in EndsOf(held.codes, held.unlocks)
      OBVIOUS
    <3>1. PICK c \in held.codes : p = Payload[c]
      BY DEF Valid
    <3>. QED
      BY <3>1 DEF EndsOf
  <2>. QED
    BY <2>1 DEF EndsOf, Windows
<1>7. ASSUME NEW end, Carries(licences, ends, now, end)
      PROVE  Begun(held, end)
  <2>1. CASE \E p \in licences : p.kind = "trial" /\ p.exp = end /\ p.iat <= now + Tolerance
    <3>1. PICK p \in licences : p.kind = "trial" /\ p.exp = end /\ p.iat <= now + Tolerance
      BY <2>1
    <3>2. PICK c \in held.codes : p = Payload[c]
      BY DEF Valid
    <3>. QED
      BY <3>1, <3>2 DEF Begun
  <2>. QED
    BY <1>7, <2>1 DEF Carries, Begun
<1>. QED
  <2>. HIDE DEF e, licences, ends, trials
  <2>1. e.status \in TimeLimited =>
            \E end \in EndsOf(held.codes, held.unlocks) :
               /\ end \in Int /\ e.until = end + Grace /\ now < e.until
               /\ Begun(held, end)
               /\ recorded # None => recorded < end + Grace + Tolerance
    BY <1>3, <1>6, <1>7
  <2>. QED
    BY <1>3, <1>4, <1>5, <2>1 DEF e
-----------------------------------------------------------------------------
(* The types.                                                              *)
CheckStates == [stage : {"idle", "read", "answered"}, held : Holdings, paid : BOOLEAN,
                status : Statuses \cup {None}, degraded : BOOLEAN]
EntryStates == [stage : {"idle", "commit", "mirror", "anchors", "answer"},
                code : Codes \cup Unlocks \cup {None}, latest : Moments, reset : BOOLEAN]
Mirrors == [codes : SUBSET Codes, unlocks : SUBSET Unlocks]

\* The states that requests start from are among those they may have.
LEMMA IdleTypes ==
    /\ NoCodes \in Holdings /\ Idle \in CheckStates /\ NoEntry \in EntryStates
    /\ Unknown \in Rows
    /\ \A held \in Holdings, p \in BOOLEAN :
          [Idle EXCEPT !.stage = "read", !.held = held, !.paid = p] \in CheckStates
    /\ \A s \in Statuses, d \in BOOLEAN :
          [Idle EXCEPT !.stage = "answered", !.status = s, !.degraded = d] \in CheckStates
<1>1. NoCodes \in Holdings
  BY DEF NoCodes, Holdings
<1>. QED
  BY <1>1, Numbers DEF Idle, NoEntry, CheckStates, EntryStates, Unknown, Rows, Statuses, TimeLimited

\* A fresh installation has the types.
LEMMA InitTypes == LicenceInit => LicenceTypeOK
<1>. SUFFICES ASSUME LicenceInit PROVE LicenceTypeOK
  OBVIOUS
<1>1. now \in Time /\ faults \in 0..MaxFaults
  BY LicenceAssumption DEF LicenceInit, Time
<1>2. db \in Databases /\ copy \in Databases
  BY IdleTypes, Numbers DEF LicenceInit, Databases
<1>3. outside \in [Places -> Moments] /\ check \in [Checks -> CheckStates]
  BY IdleTypes, Numbers DEF LicenceInit
<1>4. entry \in EntryStates
  BY IdleTypes DEF LicenceInit
<1>. QED
  BY <1>1, <1>2, <1>3, <1>4, Numbers DEF LicenceInit, LicenceTypeOK, CheckStates, EntryStates

\* What a status is remembered as, and what it is answered with.
LEMMA RowTypes ==
    ASSUME NEW e \in Evaluations, now \in Int, e.status \in TimeLimited => e.until \in Int
    PROVE  RowOf(e) \in Rows /\ KeyOf(e) \in Statuses \X Moments /\ e.status \in Statuses
           /\ RowOf(e).status = e.status /\ RowOf(e).until = e.until
<1>1. now \in Moments /\ now # None
  BY Numbers
<1>2. e.status \in Statuses /\ e.until \in Moments
  BY DEF Evaluations
<1>3. RowOf(e) \in Rows
  BY <1>1, <1>2, Numbers DEF RowOf, Rows
<1>. QED
  BY <1>2, <1>3 DEF RowOf, KeyOf

\* What stored codes come to can be remembered.
LEMMA StatusTypes ==
    ASSUME NEW held \in Holdings, now \in Int, NEW recorded \in Moments
    PROVE  LET e == StatusOf(held, recorded) IN
           RowOf(e) \in Rows /\ KeyOf(e) \in Statuses \X Moments /\ e.status \in Statuses
           /\ RowOf(e).status = e.status /\ RowOf(e).until = e.until
<1>. DEFINE e == StatusOf(held, recorded)
<1>1. e \in Evaluations /\ (e.status \in TimeLimited => e.until \in Int)
  <2>1. /\ e \in Evaluations
        /\ e.status \in TimeLimited => \E end \in EndsOf(held.codes, held.unlocks) :
              end \in Int /\ e.until = end + Grace
    BY StatusOfIs
  <2>. HIDE DEF e
  <2>. QED
    BY <2>1, Numbers
<1>. HIDE DEF e
<1>. QED
  BY <1>1, RowTypes DEF e

\* Entering a code adds it and nothing else.
LEMMA WithTypes ==
    ASSUME NEW held \in Holdings, NEW code
    PROVE  /\ With(held, code) \in Holdings
           /\ With(held, code).codes = held.codes \cup ({code} \cap Codes)
           /\ With(held, code).unlocks = held.unlocks \cup ({code} \cap Unlocks)
           /\ With(held, code).spoiled = held.spoiled
BY DEF With, Holdings

\* What the mirror puts back is added to what is stored.
LEMMA RecoveredTypes ==
    ASSUME db \in Databases, mirror \in Mirrors, NEW latest
    PROVE  /\ Recovered(latest) \in Holdings
           /\ Recovered(latest).codes = db.held.codes \cup mirror.codes
           /\ db.held.unlocks \subseteq Recovered(latest).unlocks
           /\ Recovered(latest).spoiled = db.held.spoiled
BY DEF Recovered, Databases, Holdings, Mirrors

\* What the mirror is written from is what still verifies.
LEMMA TextsTypes ==
    ASSUME NEW held \in Holdings
    PROVE  Texts(held) \in Mirrors /\ Texts(held).codes = held.codes \ held.spoiled
BY DEF Texts, Holdings, Mirrors

\* A database and its fields.
LEMMA DatabaseParts ==
    ASSUME NEW d \in Databases
    PROVE  /\ d.held \in Holdings /\ d.row \in Rows /\ d.anchor \in Moments
           /\ \A h \in Holdings : [d EXCEPT !.held = h] \in Databases
           /\ \A r \in Rows : [d EXCEPT !.row = r] \in Databases
           /\ \A m \in Moments : [d EXCEPT !.anchor = m] \in Databases
           /\ \A h \in Holdings, m \in Moments : [d EXCEPT !.held = h, !.anchor = m] \in Databases
           /\ \A h \in Holdings, r \in Rows : [d EXCEPT !.held = h, !.row = r] \in Databases
BY DEF Databases

\* The fallback answers a status.
LEMMA FallbackTypes ==
    ASSUME NEW row \in Rows, NEW n \in Int, NEW recorded \in Moments
    PROVE  FallbackStatus(row, n, recorded) \in Statuses
BY DEF FallbackStatus, Rows, Statuses

\* The time both clocks that a failed module leaves readable agree on.
LEMMA ReadableIs ==
    ASSUME LicenceTypeOK
    PROVE  /\ ReadableTime \in Moments /\ ReadableTime \in {db.anchor, outside["file"], None}
           /\ db.anchor # None => ReadableTime # None /\ db.anchor <= ReadableTime
           /\ outside["file"] # None => ReadableTime # None /\ outside["file"] <= ReadableTime
<1>. DEFINE readings == {db.anchor, outside["file"]}
<1>1. readings \in SUBSET Moments
  BY DatabaseParts DEF LicenceTypeOK, Places
<1>2. IsFiniteSet(readings)
  <2>1. IsFiniteSet({db.anchor})
    BY FS_Singleton
  <2>2. readings = {db.anchor} \cup {outside["file"]}
    OBVIOUS
  <2>. QED
    BY <2>1, <2>2, FS_AddElement
<1>3. ReadableTime = Resolve(readings)
  BY DEF ReadableTime
<1>. HIDE DEF readings
<1>4. /\ Resolve(readings) \in Moments /\ Resolve(readings) \in readings \cup {None}
      /\ \A r \in readings : r # None => Resolve(readings) # None /\ r <= Resolve(readings)
  BY <1>1, <1>2, ResolveOf
<1>. QED
  BY <1>3, <1>4 DEF readings

Anchors == {db.anchor} \cup {outside[p] : p \in Places}

\* What the three anchors resolve to is not before any of them.
LEMMA AnchorsResolve ==
    ASSUME LicenceTypeOK
    PROVE  /\ Resolve(Anchors) \in Moments
           /\ \A r \in Anchors : r # None => Resolve(Anchors) # None /\ r <= Resolve(Anchors)
<1>1. Anchors \in SUBSET Moments
  <2>1. db.anchor \in Moments /\ \A p \in Places : outside[p] \in Moments
    BY DatabaseParts DEF LicenceTypeOK
  <2>. QED
    BY <2>1 DEF Anchors
<1>2. IsFiniteSet(Anchors)
  <2>1. IsFiniteSet({db.anchor}) /\ IsFiniteSet({db.anchor} \cup {outside["registry"]})
    BY FS_Singleton, FS_AddElement
  <2>2. Anchors = ({db.anchor} \cup {outside["registry"]}) \cup {outside["file"]}
    BY DEF Anchors, Places
  <2>. QED
    BY <2>1, <2>2, FS_AddElement
<1>. QED
  BY <1>1, <1>2, ResolveOf
TypeFacts ==
    /\ now \in Int /\ db \in Databases /\ copy \in Databases /\ mirror \in Mirrors
    /\ outside \in [Places -> Moments] /\ up \in BOOLEAN /\ works \in BOOLEAN
    /\ seen \in Moments /\ known \in {None} \cup (Statuses \X Moments) /\ inflight \in SUBSET Rows
    /\ check \in [Checks -> CheckStates] /\ entry \in EntryStates
    /\ paid \in BOOLEAN /\ peak \in Moments /\ faults \in 0..MaxFaults
    /\ db.held \in Holdings /\ db.row \in Rows /\ db.anchor \in Moments
    /\ copy.held \in Holdings /\ copy.row \in Rows

\* The types as the lemmas use them.
LEMMA Typed == LicenceTypeOK => TypeFacts
<1>1. \A t \in Time : t \in Int
  BY LicenceAssumption DEF Time
<1>. QED
  BY <1>1, DatabaseParts DEF LicenceTypeOK, TypeFacts, Mirrors, CheckStates, EntryStates

\* Remembering a status keeps the types.
LEMMA RememberTypes ==
    ASSUME LicenceTypeOK, NEW held \in Holdings, NEW recorded \in Moments,
           Remember(StatusOf(held, recorded))
    PROVE  known' \in {None} \cup (Statuses \X Moments) /\ inflight' \in SUBSET Rows
<1>. DEFINE e == StatusOf(held, recorded)
<1>1. RowOf(e) \in Rows /\ KeyOf(e) \in Statuses \X Moments
  BY StatusTypes, Typed DEF TypeFacts
<1>2. \/ known' = KeyOf(e) /\ inflight' = inflight \cup {RowOf(e)}
      \/ UNCHANGED <<known, inflight>>
  BY DEF Remember
<1>. HIDE DEF e
<1>. QED
  BY <1>1, <1>2, Typed DEF TypeFacts

\* Every step keeps the types.
LEMMA TypesStep ==
    ASSUME LicenceTypeOK, [LicenceNext]_licenceVars
    PROVE  LicenceTypeOK'
<1>. USE DEF LicenceTypeOK
<1>0. TypeFacts
  BY Typed
<1>1. CASE Load
  <2>. DEFINE latest == Resolve(Anchors)
              first == Later(now, latest)
  <2>1. latest \in Moments /\ first \in Int /\ first \in Moments
    BY <1>0, AnchorsResolve, LaterOf, Numbers DEF TypeFacts
  <2>2. /\ db' = [db EXCEPT !.held = Recovered(latest), !.anchor = first]
        /\ mirror' = Texts(Recovered(latest))
        /\ outside' = [p \in Places |-> first]
        /\ seen' = first
        /\ peak' = Later(first, peak)
        /\ UNCHANGED <<now, copy, up, works, known, inflight, check, entry, paid, faults>>
    BY <1>1 DEF Load, Anchors
  <2>. HIDE DEF latest, first
  <2>3. Recovered(latest) \in Holdings
    BY <1>0, RecoveredTypes DEF TypeFacts
  <2>4. db' \in Databases /\ mirror' \in Mirrors
    BY <1>0, <2>1, <2>2, <2>3, DatabaseParts, TextsTypes DEF TypeFacts
  <2>5. peak' \in Moments /\ outside' \in [Places -> Moments]
    BY <1>0, <2>1, <2>2, LaterOf, Numbers DEF TypeFacts
  <2>. QED
    BY <2>1, <2>2, <2>4, <2>5 DEF Mirrors
<1>2. CASE Touch
  <2>. DEFINE at == Later(now, seen)
  <2>1. at \in Int /\ at \in Moments
    BY <1>0, LaterOf, Numbers DEF TypeFacts
  <2>2. /\ seen' = at /\ db' = [db EXCEPT !.anchor = at] /\ outside' = [p \in Places |-> at]
        /\ peak' = Later(at, peak)
        /\ UNCHANGED <<now, mirror, copy, up, works, known, inflight, check, entry, paid, faults>>
    BY <1>2 DEF Touch
  <2>. HIDE DEF at
  <2>3. db' \in Databases /\ peak' \in Moments /\ outside' \in [Places -> Moments]
    BY <1>0, <2>1, <2>2, DatabaseParts, LaterOf, Numbers DEF TypeFacts
  <2>. QED
    BY <2>1, <2>2, <2>3
<1>3. ASSUME NEW c \in Checks, ReadCodes(c)
      PROVE  LicenceTypeOK'
  <2>1. check' \in [Checks -> CheckStates]
    BY <1>0, <1>3, IdleTypes DEF ReadCodes, TypeFacts
  <2>. QED
    BY <1>3, <2>1 DEF ReadCodes, CheckStates, diskVars, processVars, historyVars
<1>4. ASSUME NEW c \in Checks, Conclude(c)
      PROVE  LicenceTypeOK'
  <2>1. check[c].held \in Holdings
    BY <1>0 DEF TypeFacts, CheckStates
  <2>2. StatusOf(check[c].held, seen).status \in Statuses
    BY <1>0, <2>1, StatusTypes DEF TypeFacts
  <2>3. known' \in {None} \cup (Statuses \X Moments) /\ inflight' \in SUBSET Rows
    BY <1>0, <1>4, <2>1, RememberTypes DEF Conclude, TypeFacts
  <2>4. check' \in [Checks -> CheckStates]
    BY <1>0, <1>4, <2>2, IdleTypes DEF Conclude, Answered, TypeFacts
  <2>. QED
    BY <1>4, <2>3, <2>4 DEF Conclude, CheckStates, diskVars, historyVars
<1>5. ASSUME NEW c \in Checks, Degrade(c)
      PROVE  LicenceTypeOK'
  <2>1. FallbackStatus(db.row, now, ReadableTime) \in Statuses
    BY <1>0, FallbackTypes, ReadableIs DEF TypeFacts
  <2>2. check' \in [Checks -> CheckStates]
    BY <1>0, <1>5, <2>1, IdleTypes DEF Degrade, Answered, TypeFacts
  <2>3. db' \in Databases /\ outside' \in [Places -> Moments] /\ peak' \in Moments
    <3>1. CASE UNCHANGED <<db, outside, peak>>
      BY <1>0, <3>1 DEF TypeFacts
    <3>2. CASE /\ db' = [db EXCEPT !.anchor = now]
               /\ outside' = [outside EXCEPT !["file"] = Later(now, outside["file"])]
               /\ peak' = Later(now, peak)
      <4>1. outside["file"] \in Moments /\ now \in Moments
        BY <1>0, Numbers DEF TypeFacts, Places
      <4>2. Later(now, outside["file"]) \in Moments /\ Later(now, peak) \in Moments
        BY <1>0, <4>1, LaterOf, Numbers DEF TypeFacts
      <4>. QED
        BY <1>0, <3>2, <4>1, <4>2, DatabaseParts DEF TypeFacts
    <3>. QED
      BY <1>5, <3>1, <3>2 DEF Degrade
  <2>. QED
    BY <1>5, <2>2, <2>3 DEF Degrade, CheckStates, processVars
<1>6. CASE LandStatus
  <2>0. PICK row \in inflight : db' = [db EXCEPT !.row = row] /\ inflight' = inflight \ {row}
    BY <1>6 DEF LandStatus
  <2>1. db' \in Databases /\ inflight' \in SUBSET Rows
    <3>1. row \in Rows
      BY <1>0 DEF TypeFacts
    <3>2. [db EXCEPT !.row = row] \in Databases
      BY <1>0, <3>1, DatabaseParts DEF TypeFacts
    <3>. QED
      BY <1>0, <2>0, <3>2 DEF TypeFacts
  <2>. QED
    BY <1>6, <2>1 DEF LandStatus, historyVars
<1>7. ASSUME NEW c \in Codes, PasteCode(c)
      PROVE  LicenceTypeOK'
  <2>1. known' \in {None} \cup (Statuses \X Moments) /\ inflight' \in SUBSET Rows
    BY <1>0, <1>7, RememberTypes DEF PasteCode, TypeFacts
  <2>2. Later(now, Payload[c].iat) \in Moments
    BY <1>0, PayloadOf, LaterOf, Numbers DEF TypeFacts
  <2>. DEFINE reset == seen > Payload[c].iat + Tolerance
  <2>3. entry' = [stage |-> "commit", code |-> c, reset |-> reset,
                  latest |-> IF reset THEN Later(now, Payload[c].iat) ELSE seen]
        /\ UNCHANGED <<now, diskVars, up, works, seen, check, historyVars, faults>>
    BY <1>7 DEF PasteCode
  <2>4. reset \in BOOLEAN
    OBVIOUS
  <2>. HIDE DEF reset
  <2>5. entry' \in EntryStates
    BY <1>0, <2>2, <2>3, <2>4 DEF EntryStates, TypeFacts
  <2>. QED
    BY <2>1, <2>3, <2>5 DEF EntryStates, diskVars, historyVars
<1>8. ASSUME NEW u \in Unlocks, TypeUnlock(u)
      PROVE  LicenceTypeOK'
  <2>1. entry' \in EntryStates
    BY <1>0, <1>8 DEF TypeUnlock, EntryStates, TypeFacts
  <2>. QED
    BY <1>8, <2>1 DEF TypeUnlock, EntryStates, diskVars, processVars, historyVars
<1>9. ASSUME NEW c \in Codes, RepeatCode(c)
      PROVE  LicenceTypeOK'
  <2>. DEFINE e == StatusOf(db.held, seen)
  <2>1. RowOf(e) \in Rows /\ KeyOf(e) \in Statuses \X Moments
    BY <1>0, StatusTypes DEF TypeFacts
  <2>2. \/ known' = KeyOf(e) /\ db' = [db EXCEPT !.row = RowOf(e)]
        \/ UNCHANGED <<known, db>>
    BY <1>9 DEF RepeatCode
  <2>. HIDE DEF e
  <2>3. known' \in {None} \cup (Statuses \X Moments) /\ db' \in Databases
    <3>1. [db EXCEPT !.row = RowOf(e)] \in Databases
      BY <1>0, <2>1, DatabaseParts DEF TypeFacts
    <3>. QED
      BY <1>0, <2>1, <2>2, <3>1 DEF TypeFacts
  <2>4. paid' \in BOOLEAN
    BY <1>0, <1>9 DEF RepeatCode, TypeFacts
  <2>. QED
    BY <1>9, <2>3, <2>4 DEF RepeatCode
<1>10. CASE Commit
  <2>. DEFINE held == With(db.held, entry.code)
              e == StatusOf(held, entry.latest)
  <2>1. held \in Holdings /\ entry.latest \in Moments
    BY <1>0, WithTypes DEF TypeFacts, EntryStates
  <2>2. RowOf(e) \in Rows /\ KeyOf(e) \in Statuses \X Moments
    <3>. HIDE DEF held
    <3>. QED
      BY <1>0, <2>1, StatusTypes DEF TypeFacts
  <2>3. /\ db' = [db EXCEPT !.held = held, !.row = RowOf(e)] /\ known' = KeyOf(e)
        /\ entry' = [entry EXCEPT !.stage = "mirror"]
        /\ UNCHANGED <<now, mirror, outside, copy, up, works, seen, inflight, check, historyVars, faults>>
    BY <1>10 DEF Commit
  <2>. HIDE DEF held, e
  <2>4. db' \in Databases
    BY <1>0, <2>1, <2>2, <2>3, DatabaseParts DEF TypeFacts
  <2>5. entry' \in EntryStates
    BY <1>0, <2>3 DEF TypeFacts, EntryStates
  <2>. QED
    BY <2>2, <2>3, <2>4, <2>5 DEF EntryStates, historyVars
<1>11. CASE RefreshMirror
  <2>1. mirror' \in Mirrors
    BY <1>0, <1>11, TextsTypes DEF RefreshMirror, TypeFacts
  <2>2. entry' \in EntryStates
    BY <1>0, <1>11 DEF RefreshMirror, TypeFacts, EntryStates
  <2>. QED
    BY <1>11, <2>1, <2>2 DEF RefreshMirror, Mirrors, EntryStates, processVars, historyVars
<1>12. CASE ResetAnchors
  <2>1. entry.latest \in Moments
    BY <1>0 DEF TypeFacts, EntryStates
  <2>2. db' \in Databases /\ outside' \in [Places -> Moments] /\ entry' \in EntryStates
    BY <1>0, <1>12, <2>1, DatabaseParts DEF ResetAnchors, TypeFacts, EntryStates
  <2>. QED
    BY <1>12, <2>1, <2>2 DEF ResetAnchors, EntryStates
<1>13. CASE AnswerEntry
  <2>1. known' \in {None} \cup (Statuses \X Moments) /\ inflight' \in SUBSET Rows
    BY <1>0, <1>13, RememberTypes DEF AnswerEntry, TypeFacts
  <2>2. entry' \in EntryStates /\ paid' \in BOOLEAN
    BY <1>0, <1>13, IdleTypes DEF AnswerEntry, TypeFacts, HasPerpetual
  <2>. QED
    BY <1>13, <2>1, <2>2 DEF AnswerEntry, EntryStates, diskVars
<1>14. CASE Start \/ ClockTicks \/ ModuleChanges
  <2>1. now' \in Time /\ up' \in BOOLEAN /\ works' \in BOOLEAN
    <3>1. CASE Start \/ ModuleChanges
      BY <1>0, <3>1 DEF Start, ModuleChanges, TypeFacts
    <3>2. CASE ClockTicks
      <4>1. now' \in Time
        BY <3>2, LicenceAssumption DEF ClockTicks, Time
      <4>. QED
        BY <1>0, <3>2, <4>1 DEF ClockTicks, processVars, TypeFacts
    <3>. QED
      BY <1>14, <3>1, <3>2
  <2>. QED
    BY <1>14, <2>1 DEF Start, ClockTicks, ModuleChanges, diskVars, processVars, historyVars
<1>15. CASE Stop
  <2>1. check' \in [Checks -> CheckStates] /\ entry' \in EntryStates
    BY <1>15, IdleTypes DEF Stop
  <2>. QED
    BY <1>15, <2>1, Numbers DEF Stop, CheckStates, EntryStates, diskVars, historyVars
<1>16. CASE Fault /\ ((\E t \in Time : ClockIsSet(t)) \/ TakeCopy \/ (\E c \in Codes : SpoilCode(c))
                      \/ \E p \in Places : LoseAnchor(p))
  <2>1. faults' \in 0..MaxFaults
    BY <1>16, LicenceAssumption DEF Fault
  <2>2. ASSUME NEW t \in Time, ClockIsSet(t)
        PROVE  LicenceTypeOK'
    BY <2>1, <2>2 DEF ClockIsSet, diskVars, processVars, historyVars
  <2>3. CASE TakeCopy
    BY <2>1, <2>3 DEF TakeCopy, processVars, historyVars
  <2>4. ASSUME NEW c \in Codes, SpoilCode(c)
        PROVE  LicenceTypeOK'
    <3>1. db' = [db EXCEPT !.held = [db.held EXCEPT !.spoiled = @ \cup {c}]]
      BY <1>0, <2>4 DEF SpoilCode, TypeFacts, Databases
    <3>2. [db.held EXCEPT !.spoiled = @ \cup {c}] \in Holdings
      BY <1>0 DEF TypeFacts, Holdings
    <3>3. db' \in Databases
      BY <1>0, <3>1, <3>2, DatabaseParts DEF TypeFacts
    <3>. QED
      BY <2>1, <2>4, <3>3 DEF SpoilCode, processVars, historyVars
  <2>5. ASSUME NEW p \in Places, LoseAnchor(p)
        PROVE  LicenceTypeOK'
    <3>1. outside' \in [Places -> Moments]
      BY <1>0, <2>5, Numbers DEF LoseAnchor, TypeFacts
    <3>. QED
      BY <2>1, <2>5, <3>1 DEF LoseAnchor, processVars, historyVars
  <2>. QED
    BY <1>16, <2>2, <2>3, <2>4, <2>5
<1>17. CASE RestoreCopy
  BY <1>17 DEF RestoreCopy, processVars, historyVars
<1>18. CASE UNCHANGED licenceVars
  BY <1>18 DEF licenceVars, diskVars, processVars, historyVars
<1>19. CASE LicenceNext
  <2>1. CASE Disturbance
    BY <1>14, <1>16, <1>17, <2>1 DEF Disturbance, ClockIsSet, TakeCopy, SpoilCode, LoseAnchor
  <2>2. CASE EntryStep
    BY <1>7, <1>8, <1>9, <1>10, <1>11, <1>12, <1>13, <2>2 DEF EntryStep
  <2>3. CASE \E c \in Checks : CheckStep(c)
    BY <1>3, <1>4, <1>5, <2>3 DEF CheckStep
  <2>. QED
    BY <1>1, <1>2, <1>6, <1>14, <1>15, <1>19, <2>1, <2>2, <2>3 DEF LicenceNext
<1>. QED
  BY <1>18, <1>19
-----------------------------------------------------------------------------
(* What lives in the process.                                              *)
InOneRun ==
    /\ seen # None => up /\ works
    /\ inflight # {} => seen # None
    /\ \A c \in Checks : check[c].stage = "read" =>
          /\ seen # None
          /\ check[c].held.codes \subseteq db.held.codes
          /\ check[c].held.unlocks \subseteq db.held.unlocks
    /\ entry.stage # "idle" => seen # None /\ entry.code \in Codes \cup Unlocks /\ entry.latest # None
    /\ entry.stage \in {"mirror", "anchors", "answer"} =>
          entry.code \in db.held.codes \cup db.held.unlocks

\* The stored codes only grow, outside a restore.
DbGrows == db.held.codes \subseteq db'.held.codes /\ db.held.unlocks \subseteq db'.held.unlocks

\* The stages of the records that requests are set to.
LEMMA IdleStages ==
    /\ Idle.stage = "idle" /\ NoEntry.stage = "idle"
    /\ \A held, p : /\ [Idle EXCEPT !.stage = "read", !.held = held, !.paid = p].stage = "read"
                    /\ [Idle EXCEPT !.stage = "read", !.held = held, !.paid = p].held = held
                    /\ [Idle EXCEPT !.stage = "read", !.held = held, !.paid = p].paid = p
    /\ \A s, d : /\ [Idle EXCEPT !.stage = "answered", !.status = s, !.degraded = d].stage = "answered"
                 /\ [Idle EXCEPT !.stage = "answered", !.status = s, !.degraded = d].status = s
                 /\ [Idle EXCEPT !.stage = "answered", !.status = s, !.degraded = d].degraded = d
BY DEF Idle, NoEntry

\* Which codes each step leaves in the database.
LEMMA HeldAfter ==
    ASSUME LicenceTypeOK, LicenceNext
    PROVE  /\ RestoreCopy \/ DbGrows
           /\ ~RestoreCopy /\ ~(\E c \in Codes : SpoilCode(c)) => db'.held.spoiled = db.held.spoiled
           /\ Load \/ Commit \/ RestoreCopy \/ db'.held.codes = db.held.codes
           /\ ~Load /\ ~Commit /\ ~RestoreCopy /\ ~(\E c \in Codes : SpoilCode(c)) => db'.held = db.held
<1>0. db \in Databases /\ db.held \in Holdings /\ mirror \in Mirrors
  BY Typed DEF TypeFacts
<1>1. CASE Load
  <2>1. PICK latest, first : db' = [db EXCEPT !.held = Recovered(latest), !.anchor = first]
    BY <1>1 DEF Load
  <2>2. db'.held = Recovered(latest)
    BY <1>0, <2>1 DEF Databases
  <2>. QED
    BY <1>0, <1>1, <2>2, RecoveredTypes DEF DbGrows
<1>2. CASE Commit
  <2>1. db'.held = With(db.held, entry.code)
    BY <1>0, <1>2 DEF Commit, Databases
  <2>. QED
    BY <1>0, <1>2, <2>1, WithTypes DEF DbGrows
<1>3. ASSUME NEW c \in Codes, SpoilCode(c)
      PROVE  db'.held.codes = db.held.codes /\ db'.held.unlocks = db.held.unlocks
  BY <1>0, <1>3 DEF SpoilCode, Databases, Holdings
<1>4. ASSUME ~Load, ~Commit, ~RestoreCopy, ~(\E c \in Codes : SpoilCode(c))
      PROVE  db'.held = db.held
  <2>1. CASE Touch \/ ResetAnchors \/ LandStatus
    BY <1>0, <2>1 DEF Touch, ResetAnchors, LandStatus, Databases
  <2>2. ASSUME NEW c \in Codes, RepeatCode(c)
        PROVE  db'.held = db.held
    BY <1>0, <2>2 DEF RepeatCode, Databases
  <2>3. ASSUME NEW c \in Checks, Degrade(c)
        PROVE  db'.held = db.held
    BY <1>0, <2>3 DEF Degrade, Databases
  <2>4. ASSUME NEW c \in Codes, PasteCode(c)
        PROVE  db' = db
    BY <2>4 DEF PasteCode, diskVars
  <2>5. ASSUME NEW u \in Unlocks, TypeUnlock(u)
        PROVE  db' = db
    BY <2>5 DEF TypeUnlock, diskVars
  <2>6. ASSUME NEW c \in Checks, ReadCodes(c) \/ Conclude(c)
        PROVE  db' = db
    BY <2>6 DEF ReadCodes, Conclude, diskVars
  <2>7. ASSUME Start \/ Stop \/ RefreshMirror \/ AnswerEntry
        PROVE  db' = db
    BY <2>7 DEF Start, Stop, RefreshMirror, AnswerEntry, diskVars
  <2>8. ASSUME Disturbance
        PROVE  db' = db
    BY <1>4, <2>8 DEF Disturbance, ClockTicks, ModuleChanges, TakeCopy, ClockIsSet, LoseAnchor, diskVars
  <2>. QED
    BY <1>4, <2>1, <2>2, <2>3, <2>4, <2>5, <2>6, <2>7, <2>8 DEF LicenceNext, EntryStep, CheckStep
<1>5. \A c \in Codes : SpoilCode(c) => ~RestoreCopy \/ DbGrows
  BY <1>3 DEF DbGrows
<1>. QED
  BY <1>1, <1>2, <1>3, <1>4, <1>5 DEF DbGrows

\* What a process has read belongs to the process that runs.
LEMMA InOneRunStep ==
    ASSUME LicenceTypeOK, InOneRun, [LicenceNext]_licenceVars
    PROVE  InOneRun'
<1>0. TypeFacts
  BY Typed
<1>. DEFINE Same == UNCHANGED <<up, works, seen, inflight, check, entry>>
<1>1. ASSUME Same, DbGrows
      PROVE  InOneRun'
  BY <1>1 DEF InOneRun, DbGrows
<1>2. CASE LicenceNext
  <2>1. RestoreCopy \/ DbGrows
    BY <1>2, HeldAfter
  <2>2. CASE Load
    <3>1. DbGrows /\ up /\ works /\ seen = None
          /\ UNCHANGED <<up, works, inflight, check, entry>>
      BY <2>1, <2>2 DEF Load, RestoreCopy
    <3>2. inflight = {} /\ entry.stage = "idle" /\ \A c \in Checks : check[c].stage # "read"
      BY <3>1 DEF InOneRun
    <3>. QED
      BY <3>1, <3>2 DEF InOneRun
  <2>3. CASE Touch \/ ResetAnchors
    <3>1. DbGrows /\ seen # None /\ seen' # None /\ UNCHANGED <<up, works, inflight, check>>
      <4>1. DbGrows
        BY <2>1, <2>3 DEF RestoreCopy, Touch, ResetAnchors, InOneRun
      <4>2. CASE Touch
        BY <1>0, <4>1, <4>2, LaterOf, Numbers DEF Touch, TypeFacts
      <4>3. CASE ResetAnchors
        BY <4>1, <4>3 DEF ResetAnchors, InOneRun
      <4>. QED
        BY <2>3, <4>2, <4>3
    <3>2. CASE Touch
      <4>1. entry' = entry
        BY <3>2 DEF Touch
      <4>. QED
        BY <3>1, <4>1 DEF InOneRun, DbGrows
    <3>3. CASE ResetAnchors
      <4>1. entry.stage = "anchors" /\ entry' = [entry EXCEPT !.stage = "answer"]
        BY <3>3 DEF ResetAnchors
      <4>2. entry'.code = entry.code /\ entry'.latest = entry.latest /\ entry'.stage = "answer"
        BY <1>0, <4>1 DEF TypeFacts, EntryStates
      <4>. QED
        BY <3>1, <4>1, <4>2 DEF InOneRun, DbGrows
    <3>. QED
      BY <2>3, <3>2, <3>3
  <2>4. ASSUME NEW c \in Checks, ReadCodes(c)
        PROVE  InOneRun'
    <3>1. /\ seen # None /\ check' = [check EXCEPT ![c] = [Idle EXCEPT !.stage = "read", !.held = db.held, !.paid = paid]]
          /\ UNCHANGED <<up, works, seen, inflight, entry, db>>
      BY <2>4 DEF ReadCodes, diskVars, processVars
    <3>. DEFINE read == [Idle EXCEPT !.stage = "read", !.held = db.held, !.paid = paid]
    <3>2. read.held = db.held
      BY IdleStages, Zenon
    <3>3. \A d \in Checks : check'[d].stage = "read" => check'[d].held = db.held \/ check'[d] = check[d]
      <4>. HIDE DEF read
      <4>1. check' = [check EXCEPT ![c] = read]
        BY <3>1 DEF read
      <4>. QED
        BY <1>0, <3>2, <4>1 DEF TypeFacts
    <3>. QED
      BY <3>1, <3>3 DEF InOneRun
  <2>5. ASSUME NEW c \in Checks, Conclude(c) \/ Degrade(c)
        PROVE  InOneRun'
    <3>1. \A d \in Checks : check'[d].stage = "read" => check'[d] = check[d]
      <4>1. PICK s, g : check' = [check EXCEPT ![c] = [Idle EXCEPT !.stage = "answered", !.status = s, !.degraded = g]]
        BY <2>5 DEF Conclude, Degrade, Answered
      <4>. QED
        BY <1>0, <4>1, IdleStages DEF TypeFacts
    <3>2. DbGrows
      BY <2>1, <2>5 DEF RestoreCopy, Conclude, Degrade, InOneRun
    <3>3. UNCHANGED <<up, works, seen, entry>>
      BY <2>5 DEF Conclude, Degrade, processVars
    <3>4. inflight' # {} => seen # None
      <4>1. CASE Conclude(c)
        BY <4>1 DEF Conclude, InOneRun
      <4>2. CASE Degrade(c)
        BY <4>2 DEF Degrade, processVars, InOneRun
      <4>. QED
        BY <2>5, <4>1, <4>2
    <3>. QED
      BY <3>1, <3>2, <3>3, <3>4 DEF InOneRun, DbGrows
  <2>6. CASE LandStatus
    <3>1. up /\ inflight' \subseteq inflight /\ UNCHANGED <<up, works, seen, check, entry>>
      BY <2>6 DEF LandStatus
    <3>2. DbGrows
      BY <2>1, <3>1 DEF RestoreCopy
    <3>. QED
      BY <3>1, <3>2 DEF InOneRun, DbGrows
  <2>7. ASSUME NEW c \in Codes, PasteCode(c)
        PROVE  InOneRun'
    <3>1. /\ seen # None /\ up /\ works /\ entry'.stage = "commit" /\ entry'.code = c
          /\ entry'.latest \in {seen, Later(now, Payload[c].iat)}
          /\ UNCHANGED <<up, works, seen, check, db>>
      BY <2>7 DEF PasteCode, Ready, diskVars
    <3>2. entry'.latest # None
      BY <1>0, <3>1, PayloadOf, LaterOf, Numbers DEF TypeFacts
    <3>. QED
      BY <3>1, <3>2 DEF InOneRun
  <2>8. ASSUME NEW u \in Unlocks, TypeUnlock(u)
        PROVE  InOneRun'
    BY <2>8 DEF TypeUnlock, Ready, diskVars, processVars, InOneRun
  <2>9. ASSUME NEW c \in Codes, RepeatCode(c)
        PROVE  InOneRun'
    <3>1. Same /\ up
      BY <2>9 DEF RepeatCode, Ready
    <3>. QED
      BY <1>1, <2>1, <3>1 DEF RestoreCopy
  <2>10. CASE Commit
    <3>1. entry.stage = "commit" /\ entry' = [entry EXCEPT !.stage = "mirror"]
          /\ UNCHANGED <<up, works, seen, inflight, check>>
      BY <2>10 DEF Commit
    <3>2. entry'.code = entry.code /\ entry'.latest = entry.latest /\ entry'.stage = "mirror"
      BY <1>0, <3>1 DEF TypeFacts, EntryStates
    <3>3. db'.held = With(db.held, entry.code)
      BY <1>0, <2>10 DEF Commit, TypeFacts, Databases
    <3>4. entry.code \in db'.held.codes \cup db'.held.unlocks
      <4>1. entry.code \in Codes \cup Unlocks
        BY <3>1 DEF InOneRun
      <4>2. /\ db'.held.codes = db.held.codes \cup ({entry.code} \cap Codes)
            /\ db'.held.unlocks = db.held.unlocks \cup ({entry.code} \cap Unlocks)
        BY <1>0, <3>3, WithTypes DEF TypeFacts
      <4>. QED
        BY <4>1, <4>2
    <3>5. DbGrows
      BY <2>1, <3>1 DEF RestoreCopy, InOneRun
    <3>. QED
      BY <3>1, <3>2, <3>4, <3>5 DEF InOneRun, DbGrows
  <2>11. CASE RefreshMirror
    <3>1. entry.stage = "mirror" /\ entry' = [entry EXCEPT !.stage = IF entry.reset THEN "anchors" ELSE "answer"]
          /\ UNCHANGED <<up, works, seen, inflight, check, db>>
      BY <2>11 DEF RefreshMirror, processVars
    <3>2. entry'.code = entry.code /\ entry'.latest = entry.latest /\ entry'.stage \in {"anchors", "answer"}
      BY <1>0, <3>1 DEF TypeFacts, EntryStates
    <3>. QED
      BY <3>1, <3>2 DEF InOneRun
  <2>12. CASE AnswerEntry
    <3>1. entry.stage = "answer" /\ entry'.stage = "idle" /\ UNCHANGED <<up, works, seen, check, db>>
      BY <2>12, IdleStages DEF AnswerEntry, diskVars
    <3>. QED
      BY <3>1 DEF InOneRun
  <2>13. CASE Stop
    BY <2>13, IdleStages DEF Stop, InOneRun
  <2>14. CASE ~up /\ (Start \/ Disturbance)
    <3>1. /\ seen = None /\ inflight = {} /\ entry.stage = "idle"
          /\ \A c \in Checks : check[c].stage # "read"
      BY <2>14 DEF InOneRun
    <3>2. UNCHANGED <<seen, inflight, check, entry>>
      BY <2>14 DEF Start, Disturbance, ClockTicks, ModuleChanges, TakeCopy, RestoreCopy, ClockIsSet,
                   SpoilCode, LoseAnchor, processVars
    <3>. QED
      BY <3>1, <3>2 DEF InOneRun
  <2>15. CASE up /\ (Start \/ Disturbance)
    <3>1. Same /\ DbGrows
      BY <2>1, <2>15 DEF Start, Disturbance, ClockTicks, ModuleChanges, TakeCopy, RestoreCopy, ClockIsSet,
                   SpoilCode, LoseAnchor, processVars
    <3>. QED
      BY <1>1, <3>1
  <2>. QED
    BY <1>0, <1>2, <2>2, <2>3, <2>4, <2>5, <2>6, <2>7, <2>8, <2>9, <2>10, <2>11, <2>12, <2>13, <2>14, <2>15
       DEF LicenceNext, CheckStep, EntryStep, TypeFacts
<1>3. CASE UNCHANGED licenceVars
  <2>1. Same /\ db' = db
    BY <1>3 DEF licenceVars, diskVars, processVars
  <2>. QED
    BY <1>1, <2>1 DEF DbGrows
<1>. QED
  BY <1>2, <1>3
-----------------------------------------------------------------------------
(* A remembered status is one the stored codes came to.                    *)
Covered(row, held) ==
    /\ row.status = "PERPETUAL" => Perpetual(held.codes)
    /\ row.status \in TimeLimited =>
          \E end \in EndsOf(held.codes, held.unlocks) : end \in Int /\ row.until = end + Grace

RowsCovered ==
    /\ Covered(db.row, db.held) /\ Covered(copy.row, copy.held)
    /\ \A row \in inflight : Covered(row, db.held)

\* A remembered status stays true of a database that holds more.
LEMMA CoverGrows ==
    ASSUME NEW row, NEW held, NEW more, Covered(row, held),
           held.codes \subseteq more.codes, held.unlocks \subseteq more.unlocks
    PROVE  Covered(row, more)
<1>1. EndsOf(held.codes, held.unlocks) \subseteq EndsOf(more.codes, more.unlocks)
  BY DEF EndsOf
<1>2. Perpetual(held.codes) => Perpetual(more.codes)
  BY DEF Perpetual
<1>. QED
  BY <1>1, <1>2 DEF Covered

\* A status that was computed is one its codes come to.
LEMMA StatusCovered ==
    ASSUME now \in Int, NEW held \in Holdings, NEW recorded \in Moments
    PROVE  Covered(RowOf(StatusOf(held, recorded)), held)
<1>. DEFINE e == StatusOf(held, recorded)
<1>1. RowOf(e).status = e.status /\ RowOf(e).until = e.until
  BY StatusTypes
<1>2. /\ e.status = "PERPETUAL" => Perpetual(held.codes)
      /\ e.status \in TimeLimited => \E end \in EndsOf(held.codes, held.unlocks) :
            end \in Int /\ e.until = end + Grace
  BY StatusOfIs
<1>. HIDE DEF e
<1>3. Covered(RowOf(e), held)
  BY <1>1, <1>2 DEF Covered
<1>. QED
  BY <1>3 DEF e

\* A fresh installation remembers nothing.
LEMMA InitRows == LicenceInit => RowsCovered
BY DEF LicenceInit, RowsCovered, Covered, Unknown, TimeLimited

\* What a step must show: the row it leaves and those it issues.
LEMMA RowsKept ==
    ASSUME RowsCovered, DbGrows, copy' = copy, db'.row = db.row \/ Covered(db'.row, db'.held),
           \A row \in inflight' : row \in inflight \/ Covered(row, db'.held)
    PROVE  RowsCovered'
<1>1. Covered(db'.row, db'.held)
  BY CoverGrows DEF RowsCovered, DbGrows
<1>2. \A row \in inflight' : Covered(row, db'.held)
  BY CoverGrows DEF RowsCovered, DbGrows
<1>. QED
  BY <1>1, <1>2 DEF RowsCovered, Covered

\* A status remembered in memory keeps the remembered rows true.
LEMMA IssuedCovered ==
    ASSUME RowsCovered, TypeFacts, NEW held \in Holdings, UNCHANGED <<db, copy>>,
           held.codes \subseteq db.held.codes, held.unlocks \subseteq db.held.unlocks,
           Remember(StatusOf(held, seen))
    PROVE  RowsCovered'
<1>. DEFINE row == RowOf(StatusOf(held, seen))
<1>1. inflight' \subseteq inflight \cup {row}
  BY DEF Remember
<1>2. Covered(row, held)
  BY StatusCovered DEF TypeFacts
<1>. HIDE DEF row
<1>3. Covered(row, db.held)
  BY <1>2, CoverGrows
<1>. QED
  BY <1>1, <1>3, RowsKept DEF DbGrows

\* Every step, a restored copy among them, keeps the remembered rows true of the codes beside them.
LEMMA RowsStep ==
    ASSUME LicenceTypeOK, InOneRun, RowsCovered, [LicenceNext]_licenceVars
    PROVE  RowsCovered'
<1>0. TypeFacts
  BY Typed
<1>1. CASE LicenceNext
  <2>1. RestoreCopy \/ DbGrows
    BY <1>1, HeldAfter
  <2>2. CASE RestoreCopy
    BY <2>2 DEF RestoreCopy, processVars, RowsCovered, InOneRun
  <2>3. CASE TakeCopy
    BY <2>3 DEF TakeCopy, processVars, RowsCovered
  <2>4. ASSUME NEW c \in Checks, Conclude(c)
        PROVE  RowsCovered'
    <3>1. check[c].held \in Holdings /\ UNCHANGED <<db, copy>>
          /\ check[c].held.codes \subseteq db.held.codes /\ check[c].held.unlocks \subseteq db.held.unlocks
          /\ Remember(StatusOf(check[c].held, seen))
      BY <1>0, <2>4 DEF Conclude, diskVars, TypeFacts, CheckStates, InOneRun
    <3>. QED
      BY <1>0, <3>1, IssuedCovered
  <2>5. ASSUME Remember(StatusOf(db.held, seen)), UNCHANGED <<db, copy>>
        PROVE  RowsCovered'
    BY <1>0, <2>5, IssuedCovered DEF TypeFacts
  <2>6. ASSUME NEW c \in Codes, RepeatCode(c)
        PROVE  RowsCovered'
    <3>. DEFINE row == RowOf(StatusOf(db.held, seen))
    <3>1. Covered(row, db.held)
      BY <1>0, StatusCovered DEF TypeFacts
    <3>2. db' = [db EXCEPT !.row = row] \/ db' = db
      BY <2>6 DEF RepeatCode
    <3>. HIDE DEF row
    <3>3. db'.held = db.held /\ (db'.row = row \/ db'.row = db.row)
      BY <1>0, <3>2 DEF TypeFacts, Databases
    <3>4. DbGrows
      BY <3>3 DEF DbGrows
    <3>5. UNCHANGED <<copy, inflight>>
      BY <2>6 DEF RepeatCode
    <3>. QED
      BY <3>1, <3>3, <3>4, <3>5, RowsKept
  <2>7. CASE Commit
    <3>. DEFINE held == With(db.held, entry.code)
                row == RowOf(StatusOf(held, entry.latest))
    <3>1. held \in Holdings /\ entry.latest \in Moments
      BY <1>0, WithTypes DEF TypeFacts, EntryStates
    <3>2. db' = [db EXCEPT !.held = held, !.row = row] /\ UNCHANGED <<copy, inflight>>
      BY <2>7 DEF Commit
    <3>3. Covered(row, held)
      <4>. HIDE DEF held
      <4>. QED
        BY <1>0, <3>1, StatusCovered DEF TypeFacts
    <3>. HIDE DEF held, row
    <3>4. db'.held = held /\ db'.row = row
      BY <1>0, <3>2 DEF TypeFacts, Databases
    <3>5. DbGrows
      BY <2>1, <2>7 DEF RestoreCopy, Commit, InOneRun
    <3>. QED
      BY <3>2, <3>3, <3>4, <3>5, RowsKept
  <2>8. CASE LandStatus
    <3>1. PICK row \in inflight : db' = [db EXCEPT !.row = row] /\ inflight' = inflight \ {row}
      BY <2>8 DEF LandStatus
    <3>2. db'.held = db.held /\ db'.row = row /\ copy' = copy
      BY <1>0, <2>8, <3>1 DEF LandStatus, TypeFacts, Databases
    <3>3. Covered(row, db.held) /\ DbGrows
      BY <3>2 DEF RowsCovered, DbGrows
    <3>. QED
      BY <3>1, <3>2, <3>3, RowsKept
  <2>9. ASSUME db'.row = db.row, inflight' \subseteq inflight, copy' = copy
        PROVE  RowsCovered'
    BY <2>1, <2>2, <2>9, RowsKept
  <2>10. CASE Load \/ Touch \/ ResetAnchors
    <3>1. db'.row = db.row
      BY <1>0, <2>10 DEF Load, Touch, ResetAnchors, TypeFacts, Databases
    <3>. QED
      BY <2>9, <2>10, <3>1 DEF Load, Touch, ResetAnchors
  <2>11. ASSUME NEW c \in Checks, ReadCodes(c) \/ Degrade(c)
         PROVE  RowsCovered'
    <3>1. db'.row = db.row
      BY <1>0, <2>11 DEF ReadCodes, Degrade, diskVars, TypeFacts, Databases
    <3>. QED
      BY <2>9, <2>11, <3>1 DEF ReadCodes, Degrade, diskVars, processVars
  <2>12. ASSUME NEW u \in Unlocks, TypeUnlock(u)
         PROVE  RowsCovered'
    BY <2>9, <2>12 DEF TypeUnlock, diskVars, processVars
  <2>13. ASSUME NEW c \in Codes, SpoilCode(c)
         PROVE  RowsCovered'
    <3>1. db'.row = db.row
      BY <1>0, <2>13 DEF SpoilCode, TypeFacts, Databases
    <3>. QED
      BY <2>9, <2>13, <3>1 DEF SpoilCode, processVars
  <2>14. CASE RefreshMirror \/ Start \/ Stop \/ ClockTicks \/ ModuleChanges
              \/ (\E t \in Time : ClockIsSet(t)) \/ \E p \in Places : LoseAnchor(p)
    BY <2>9, <2>14 DEF RefreshMirror, Start, Stop, ClockTicks, ModuleChanges, ClockIsSet, LoseAnchor,
                       diskVars, processVars
  <2>15. ASSUME NEW c \in Codes, PasteCode(c)
         PROVE  RowsCovered'
    BY <2>5, <2>15 DEF PasteCode, diskVars
  <2>16. CASE AnswerEntry
    BY <2>5, <2>16 DEF AnswerEntry, diskVars
  <2>. QED
    BY <1>1, <2>2, <2>3, <2>4, <2>6, <2>7, <2>8, <2>10, <2>11, <2>12, <2>13, <2>14, <2>15, <2>16
       DEF LicenceNext, CheckStep, EntryStep, Disturbance
<1>2. CASE UNCHANGED licenceVars
  BY <1>2 DEF licenceVars, diskVars, processVars, RowsCovered
<1>. QED
  BY <1>1, <1>2
-----------------------------------------------------------------------------
(* A status is remembered only by an installation that has recorded a time. *)
PeakKnown ==
    peak = None => /\ seen = None
                   /\ db.row.status \notin TimeLimited /\ copy.row.status \notin TimeLimited

\* A recorded time is never forgotten.
LEMMA PeakStays ==
    ASSUME LicenceTypeOK, InOneRun, LicenceNext
    PROVE  peak' = peak \/ peak' # None
<1>0. TypeFacts
  BY Typed
<1>1. CASE Load
  <2>1. PICK latest : seen' = Later(now, latest) /\ peak' = Later(seen', peak) /\ latest = Resolve(Anchors)
    BY <1>1 DEF Load, Anchors
  <2>2. seen' \in Int
    BY <1>0, <2>1, AnchorsResolve, LaterOf DEF TypeFacts
  <2>. QED
    BY <1>0, <2>1, <2>2, LaterOf, Numbers DEF TypeFacts
<1>2. CASE Touch
  <2>1. Later(now, seen) \in Int /\ peak' = Later(Later(now, seen), peak)
    BY <1>0, <1>2, LaterOf DEF Touch, TypeFacts
  <2>. QED
    BY <1>0, <2>1, LaterOf, Numbers DEF TypeFacts
<1>3. ASSUME NEW c \in Checks, Degrade(c)
      PROVE  peak' = peak \/ peak' # None
  <2>1. Later(now, peak) # None
    BY <1>0, LaterOf, Numbers DEF TypeFacts
  <2>. QED
    BY <1>3, <2>1 DEF Degrade
<1>4. CASE ResetAnchors
  BY <1>4 DEF ResetAnchors, InOneRun
<1>5. CASE Commit \/ RefreshMirror \/ AnswerEntry \/ LandStatus \/ Start \/ Stop \/ Disturbance
  BY <1>5 DEF Commit, RefreshMirror, AnswerEntry, LandStatus, Start, Stop, Disturbance, ClockTicks,
              ModuleChanges, TakeCopy, RestoreCopy, ClockIsSet, SpoilCode, LoseAnchor, historyVars
<1>6. ASSUME NEW c \in Codes, PasteCode(c) \/ RepeatCode(c)
      PROVE  peak' = peak
  BY <1>6 DEF PasteCode, RepeatCode, historyVars
<1>7. ASSUME NEW u \in Unlocks, TypeUnlock(u)
      PROVE  peak' = peak
  BY <1>7 DEF TypeUnlock, historyVars
<1>8. ASSUME NEW c \in Checks, ReadCodes(c) \/ Conclude(c)
      PROVE  peak' = peak
  BY <1>8 DEF ReadCodes, Conclude, historyVars
<1>. QED
  BY <1>1, <1>2, <1>3, <1>4, <1>5, <1>6, <1>7, <1>8 DEF LicenceNext, CheckStep, EntryStep

\* Every step keeps this: a time is recorded before a status is.
LEMMA PeakKnownStep ==
    ASSUME LicenceTypeOK, InOneRun, PeakKnown, [LicenceNext]_licenceVars
    PROVE  PeakKnown'
<1>0. TypeFacts
  BY Typed
<1>1. CASE LicenceNext
  <2>. SUFFICES ASSUME peak' = None PROVE PeakKnown'
    BY DEF PeakKnown
  <2>1. peak = None /\ seen = None
    BY <1>1, PeakStays DEF PeakKnown
  <2>2. /\ entry.stage = "idle" /\ inflight = {} /\ \A c \in Checks : check[c].stage # "read"
        /\ db.row.status \notin TimeLimited /\ copy.row.status \notin TimeLimited
    BY <2>1 DEF InOneRun, PeakKnown
  <2>3. ~Load
    <3>. SUFFICES ASSUME Load PROVE FALSE
      OBVIOUS
    <3>1. PICK first : peak' = Later(first, peak) /\ first = Later(now, Resolve(Anchors))
      BY DEF Load, Anchors
    <3>2. first \in Int
      BY <1>0, <3>1, AnchorsResolve, LaterOf DEF TypeFacts
    <3>. QED
      BY <1>0, <3>1, <3>2, LaterOf, Numbers DEF TypeFacts
  <2>4. \A c \in Checks : Degrade(c) => UNCHANGED <<seen, db, copy>>
    <3>. SUFFICES ASSUME NEW c \in Checks, Degrade(c) PROVE UNCHANGED <<seen, db, copy>>
      OBVIOUS
    <3>1. Later(now, peak) # None
      BY <1>0, LaterOf, Numbers DEF TypeFacts
    <3>. QED
      BY <3>1 DEF Degrade, processVars
  <2>5. CASE \E c \in Checks : Degrade(c)
    BY <2>1, <2>2, <2>4, <2>5 DEF PeakKnown
  <2>6. CASE Start \/ Stop \/ Disturbance
    <3>1. seen' = None
      BY <2>1, <2>6 DEF Start, Stop, Disturbance, ClockTicks, ModuleChanges, TakeCopy, RestoreCopy,
                        ClockIsSet, SpoilCode, LoseAnchor, processVars
    <3>2. db'.row \in {db.row, copy.row} /\ copy'.row \in {db.row, copy.row}
      <4>1. CASE Start \/ Stop \/ ClockTicks \/ ModuleChanges \/ TakeCopy \/ RestoreCopy
                 \/ (\E t \in Time : ClockIsSet(t)) \/ \E p \in Places : LoseAnchor(p)
        BY <4>1 DEF Start, Stop, ClockTicks, ModuleChanges, TakeCopy, RestoreCopy, ClockIsSet,
                    LoseAnchor, diskVars
      <4>2. ASSUME NEW c \in Codes, SpoilCode(c)
            PROVE  db'.row = db.row /\ copy'.row = copy.row
        BY <1>0, <4>2 DEF SpoilCode, TypeFacts, Databases
      <4>. QED
        BY <2>6, <4>1, <4>2 DEF Disturbance
    <3>. QED
      BY <2>2, <3>1, <3>2 DEF PeakKnown
  <2>. QED
    BY <1>1, <2>1, <2>2, <2>3, <2>5, <2>6
       DEF LicenceNext, CheckStep, EntryStep, Touch, LandStatus, ReadCodes, Conclude, PasteCode, TypeUnlock,
           RepeatCode, Ready, Commit, RefreshMirror, ResetAnchors, AnswerEntry
<1>2. CASE UNCHANGED licenceVars
  BY <1>2 DEF licenceVars, diskVars, processVars, historyVars, PeakKnown
<1>. QED
  BY <1>1, <1>2

\* What holds whatever is done to the shop.
ShopInv == LicenceTypeOK /\ InOneRun /\ RowsCovered /\ PeakKnown

\* The four parts hold in every reachable state.
LEMMA ShopInvHolds == LicenceSpec => []ShopInv
<1>1. LicenceInit => ShopInv
  <2>. SUFFICES ASSUME LicenceInit PROVE ShopInv
    OBVIOUS
  <2>1. InOneRun
    BY IdleStages DEF LicenceInit, InOneRun
  <2>2. PeakKnown
    BY DEF LicenceInit, PeakKnown, Unknown, TimeLimited
  <2>. QED
    BY <2>1, <2>2, InitTypes, InitRows DEF ShopInv
<1>2. ShopInv /\ [LicenceNext]_licenceVars => ShopInv'
  BY TypesStep, InOneRunStep, RowsStep, PeakKnownStep DEF ShopInv
<1>. QED
  BY <1>1, <1>2, PTL DEF LicenceSpec

\* For any codes, windows, requests and disturbances, the tables, the anchors, the mirror and
\* every request of license.service.ts keep their types.
THEOREM LicenceTypes == LicenceSpec => []LicenceTypeOK
<1>1. ShopInv => LicenceTypeOK
  BY DEF ShopInv
<1>. QED
  BY <1>1, ShopInvHolds, PTL
-----------------------------------------------------------------------------
(* A paid licence is not stopped.                                          *)
Copied == copy.held.codes # {}

\* Not both a copy put back and a stored code damaged.  With both, a code may be
\* damaged before the mirror has it, and the copy is from before it.
PaidEnv == ~({"restore", "damage"} \subseteq Env) \/ MaxFaults <= 1

Budget ==
    /\ Copied => /\ "restore" \in Env /\ faults >= 1
                 /\ copy.held.spoiled = {} /\ db.held.spoiled = {}
    /\ db.held.spoiled # {} => "damage" \in Env /\ faults >= 1

\* The mirror holds every stored code that verifies, except the one a request
\* has just committed.
MirrorWhole ==
    seen # None /\ entry.stage # "mirror" => db.held.codes \ db.held.spoiled \subseteq mirror.codes

PaidKept ==
    /\ paid /\ (seen # None \/ ~Copied) => Perpetual(db.held.codes)
    /\ paid /\ db.held.spoiled = {} => Perpetual(mirror.codes)
    /\ \A c \in Checks : check[c].stage = "read" /\ check[c].paid => Perpetual(check[c].held.codes)

PaidInv == Budget /\ MirrorWhole /\ PaidKept

\* More codes hold a perpetual licence still.
LEMMA PerpetualGrows ==
    ASSUME NEW codes, NEW more, codes \subseteq more, Perpetual(codes)
    PROVE  Perpetual(more)
BY DEF Perpetual

\* A fault is counted, and the copy changes only where one is taken.
LEMMA FaultsGrow ==
    ASSUME LicenceTypeOK, LicenceNext
    PROVE  /\ MaxFaults \in Nat /\ faults \in Nat /\ faults' \in Nat /\ faults <= faults'
           /\ TakeCopy \/ copy' = copy
           /\ (TakeCopy \/ (\E c \in Codes : SpoilCode(c)) \/ (\E p \in Places : LoseAnchor(p))) =>
                 faults < MaxFaults /\ faults' = faults + 1
<1>0. MaxFaults \in Nat
  BY LicenceAssumption
<1>1. faults \in Nat
  BY DEF LicenceTypeOK
<1>2. faults' = faults \/ faults' = faults + 1
  BY DEF LicenceNext, CheckStep, EntryStep, Disturbance, Load, Touch, ReadCodes, Conclude, Degrade, LandStatus,
         PasteCode, TypeUnlock, RepeatCode, Commit, RefreshMirror, ResetAnchors, AnswerEntry, Start, Stop,
         ClockTicks, ModuleChanges, TakeCopy, RestoreCopy, ClockIsSet, SpoilCode, LoseAnchor, Fault
<1>3. TakeCopy \/ copy' = copy
  BY DEF LicenceNext, CheckStep, EntryStep, Disturbance, Load, Touch, ReadCodes, Conclude, Degrade, LandStatus,
         PasteCode, TypeUnlock, RepeatCode, Commit, RefreshMirror, ResetAnchors, AnswerEntry, Start, Stop,
         ClockTicks, ModuleChanges, RestoreCopy, ClockIsSet, SpoilCode, LoseAnchor, diskVars
<1>4. (TakeCopy \/ (\E c \in Codes : SpoilCode(c)) \/ (\E p \in Places : LoseAnchor(p))) =>
        faults < MaxFaults /\ faults' = faults + 1
  BY DEF TakeCopy, SpoilCode, LoseAnchor, Fault
<1>. QED
  BY <1>0, <1>1, <1>2, <1>3, <1>4

\* Of a restored copy and a damaged code, a run that admits both has room for one.
LEMMA BudgetStep ==
    ASSUME PaidEnv, LicenceTypeOK, Budget, LicenceNext
    PROVE  Budget'
<1>1. /\ faults \in Nat /\ faults' \in Nat /\ faults <= faults'
      /\ TakeCopy \/ copy' = copy
      /\ (TakeCopy \/ \E c \in Codes : SpoilCode(c)) => faults < MaxFaults /\ faults' = faults + 1
  BY FaultsGrow
<1>0. MaxFaults \in Nat
  BY LicenceAssumption
<1>2. CASE TakeCopy
  <2>1. copy' = db /\ db' = db /\ "restore" \in Env
    BY <1>2 DEF TakeCopy
  <2>2. db.held.spoiled = {}
    BY <1>0, <1>1, <1>2, <2>1 DEF PaidEnv, Budget
  <2>. QED
    BY <1>0, <1>1, <1>2, <2>1, <2>2 DEF Budget, Copied
<1>3. CASE RestoreCopy
  <2>1. db' = copy /\ Copied /\ faults' = faults /\ copy' = copy
    BY <1>3 DEF RestoreCopy, Copied
  <2>. QED
    BY <2>1 DEF Budget, Copied
<1>4. ASSUME NEW c \in Codes, SpoilCode(c)
      PROVE  Budget'
  <2>1. "damage" \in Env /\ copy' = copy /\ faults < MaxFaults /\ faults' = faults + 1
    BY <1>1, <1>4 DEF SpoilCode
  <2>2. ~Copied
    BY <1>0, <1>1, <2>1 DEF PaidEnv, Budget
  <2>. QED
    BY <1>0, <1>1, <2>1, <2>2 DEF Budget, Copied
<1>5. ASSUME ~TakeCopy, ~RestoreCopy, ~(\E c \in Codes : SpoilCode(c))
      PROVE  Budget'
  <2>1. db'.held.spoiled = db.held.spoiled /\ copy' = copy
    BY <1>1, <1>5, HeldAfter
  <2>. QED
    BY <1>0, <1>1, <2>1 DEF Budget, Copied
<1>. QED
  BY <1>2, <1>3, <1>4, <1>5

\* The steps that neither store a code, nor write the mirror, nor answer that a
\* licence is active.
Apart ==
    \/ Touch \/ LandStatus \/ Start \/ Stop \/ ResetAnchors
    \/ (\E c \in Checks : Conclude(c) \/ Degrade(c))
    \/ (\E c \in Codes : PasteCode(c)) \/ (\E u \in Unlocks : TypeUnlock(u))
    \/ ClockTicks \/ ModuleChanges \/ (\E t \in Time : ClockIsSet(t)) \/ \E p \in Places : LoseAnchor(p)

\* Those steps leave the codes, the mirror and the promise alone.
LEMMA ApartKeeps ==
    ASSUME LicenceTypeOK, InOneRun, LicenceNext, Apart
    PROVE  /\ db'.held = db.held /\ copy' = copy /\ mirror' = mirror /\ paid' = paid
           /\ seen' # None => seen # None
           /\ seen' # None /\ entry'.stage # "mirror" => entry.stage # "mirror"
           /\ \A c \in Checks : check'[c].stage = "read" => check'[c] = check[c]
<1>0. TypeFacts
  BY Typed
<1>1. CASE Touch \/ LandStatus \/ ResetAnchors
  <2>1. db'.held = db.held
    BY <1>0, <1>1 DEF Touch, LandStatus, ResetAnchors, TypeFacts, Databases
  <2>2. seen # None
    BY <1>1 DEF Touch, LandStatus, ResetAnchors, InOneRun
  <2>. QED
    BY <1>1, <2>1, <2>2 DEF Touch, LandStatus, ResetAnchors, historyVars
<1>2. CASE Start \/ Stop \/ ClockTicks \/ ModuleChanges \/ (\E t \in Time : ClockIsSet(t))
           \/ \E p \in Places : LoseAnchor(p)
  BY <1>2, IdleStages DEF Start, Stop, ClockTicks, ModuleChanges, ClockIsSet, LoseAnchor, diskVars, processVars,
                          historyVars
<1>3. ASSUME NEW c \in Checks, Conclude(c) \/ Degrade(c)
      PROVE  /\ db'.held = db.held /\ copy' = copy /\ mirror' = mirror /\ paid' = paid
             /\ seen' = seen /\ entry' = entry
             /\ \A d \in Checks : check'[d].stage = "read" => check'[d] = check[d]
  <2>1. db'.held = db.held
    BY <1>0, <1>3 DEF Conclude, Degrade, diskVars, TypeFacts, Databases
  <2>2. \A d \in Checks : check'[d].stage = "read" => check'[d] = check[d]
    <3>1. PICK s, g : check' = [check EXCEPT ![c] = [Idle EXCEPT !.stage = "answered", !.status = s, !.degraded = g]]
      BY <1>3 DEF Conclude, Degrade, Answered
    <3>. QED
      BY <1>0, <3>1, IdleStages DEF TypeFacts
  <2>. QED
    BY <1>3, <2>1, <2>2 DEF Conclude, Degrade, diskVars, processVars, historyVars
<1>4. ASSUME NEW c \in Codes, PasteCode(c)
      PROVE  seen # None /\ UNCHANGED <<db, copy, mirror, paid, seen, check>> /\ entry.stage = "idle"
  BY <1>4 DEF PasteCode, Ready, diskVars, historyVars
<1>5. ASSUME NEW u \in Unlocks, TypeUnlock(u)
      PROVE  seen # None /\ UNCHANGED <<db, copy, mirror, paid, seen, check>> /\ entry.stage = "idle"
  BY <1>5 DEF TypeUnlock, Ready, diskVars, processVars, historyVars
<1>. QED
  BY <1>1, <1>2, <1>3, <1>4, <1>5 DEF Apart

\* Every step is one of those or one of the nine others.
LEMMA NextIsApartOr ==
    LicenceNext =>
        \/ Apart
        \/ Load \/ Commit \/ RefreshMirror \/ AnswerEntry \/ TakeCopy \/ RestoreCopy
        \/ (\E c \in Codes : RepeatCode(c)) \/ (\E c \in Codes : SpoilCode(c))
        \/ \E c \in Checks : ReadCodes(c)
BY DEF LicenceNext, Apart, CheckStep, EntryStep, Disturbance

\* What the mirror is written from at a load.
LEMMA LoadIs ==
    ASSUME LicenceTypeOK, Load
    PROVE  /\ db'.held.codes = db.held.codes \cup mirror.codes /\ db'.held.spoiled = db.held.spoiled
           /\ mirror'.codes = db'.held.codes \ db'.held.spoiled
           /\ copy' = copy /\ paid' = paid /\ check' = check /\ entry' = entry
<1>0. TypeFacts
  BY Typed
<1>1. PICK latest, first : db' = [db EXCEPT !.held = Recovered(latest), !.anchor = first]
                           /\ mirror' = Texts(Recovered(latest))
  BY DEF Load
<1>2. db'.held = Recovered(latest)
  BY <1>0, <1>1 DEF TypeFacts, Databases
<1>3. /\ Recovered(latest) \in Holdings
      /\ Recovered(latest).codes = db.held.codes \cup mirror.codes
      /\ Recovered(latest).spoiled = db.held.spoiled
  BY <1>0, RecoveredTypes DEF TypeFacts
<1>4. mirror'.codes = Recovered(latest).codes \ Recovered(latest).spoiled
  BY <1>1, <1>3, TextsTypes
<1>. QED
  BY <1>2, <1>3, <1>4 DEF Load

\* What the mirror holds once it is refreshed.
LEMMA RefreshIs ==
    ASSUME LicenceTypeOK, RefreshMirror
    PROVE  mirror'.codes = db.held.codes \ db.held.spoiled
BY Typed, TextsTypes DEF TypeFacts, RefreshMirror

\* Every step keeps the mirror whole.
LEMMA MirrorStep ==
    ASSUME LicenceTypeOK, InOneRun, MirrorWhole, LicenceNext
    PROVE  MirrorWhole'
<1>0. TypeFacts
  BY Typed
<1>1. CASE Apart
  BY <1>1, ApartKeeps DEF MirrorWhole
<1>2. CASE Load
  BY <1>2, LoadIs DEF MirrorWhole
<1>3. CASE Commit
  <2>1. entry'.stage = "mirror"
    BY <1>0, <1>3 DEF Commit, TypeFacts, EntryStates
  <2>. QED
    BY <2>1 DEF MirrorWhole
<1>4. CASE RefreshMirror
  BY <1>4, RefreshIs DEF MirrorWhole, RefreshMirror
<1>5. CASE AnswerEntry
  BY <1>5 DEF AnswerEntry, diskVars, MirrorWhole
<1>6. CASE TakeCopy
  BY <1>6 DEF TakeCopy, processVars, MirrorWhole
<1>7. CASE RestoreCopy \/ \E c \in Codes : SpoilCode(c)
  BY <1>7 DEF RestoreCopy, SpoilCode, processVars, MirrorWhole, InOneRun
<1>8. ASSUME NEW c \in Codes, RepeatCode(c)
      PROVE  MirrorWhole'
  <2>1. db'.held = db.held
    BY <1>0, <1>8 DEF RepeatCode, TypeFacts, Databases
  <2>. QED
    BY <1>8, <2>1 DEF RepeatCode, MirrorWhole
<1>9. CASE \E c \in Checks : ReadCodes(c)
  BY <1>9 DEF ReadCodes, diskVars, processVars, MirrorWhole
<1>. QED
  BY <1>1, <1>2, <1>3, <1>4, <1>5, <1>6, <1>7, <1>8, <1>9, NextIsApartOr

\* Every step keeps a paid licence where the service finds it.
LEMMA PaidKeptStep ==
    ASSUME LicenceTypeOK, InOneRun, PaidInv, LicenceNext
    PROVE  PaidKept'
<1>0. TypeFacts
  BY Typed
<1>1. CASE Apart
  BY <1>1, ApartKeeps DEF PaidInv, PaidKept, Copied
<1>2. CASE Load
  <2>1. /\ db'.held.codes = db.held.codes \cup mirror.codes /\ db'.held.spoiled = db.held.spoiled
        /\ mirror'.codes = db'.held.codes \ db'.held.spoiled
        /\ copy' = copy /\ paid' = paid /\ check' = check
    BY <1>2, LoadIs
  <2>2. paid => Perpetual(db'.held.codes)
    <3>1. CASE db.held.spoiled = {}
      BY <2>1, <3>1, PerpetualGrows DEF PaidInv, PaidKept
    <3>2. CASE db.held.spoiled # {}
      BY <2>1, <3>2, PerpetualGrows DEF PaidInv, PaidKept, Budget
    <3>. QED
      BY <3>1, <3>2
  <2>3. db'.held.spoiled = {} => mirror'.codes = db'.held.codes
    BY <2>1
  <2>. QED
    BY <2>1, <2>2, <2>3 DEF PaidInv, PaidKept
<1>3. CASE Commit
  <2>1. db'.held = With(db.held, entry.code) /\ seen # None
        /\ UNCHANGED <<mirror, copy, paid, seen, check>>
    BY <1>0, <1>3 DEF Commit, TypeFacts, Databases, historyVars, InOneRun
  <2>2. db.held.codes \subseteq db'.held.codes /\ db'.held.spoiled = db.held.spoiled
    BY <1>0, <2>1, WithTypes DEF TypeFacts
  <2>. QED
    BY <2>1, <2>2, PerpetualGrows DEF PaidInv, PaidKept
<1>4. CASE RefreshMirror
  <2>1. mirror'.codes = db.held.codes \ db.held.spoiled /\ seen # None
        /\ UNCHANGED <<db, copy, paid, seen, check>>
    BY <1>4, RefreshIs DEF RefreshMirror, processVars, historyVars, InOneRun
  <2>2. db.held.spoiled = {} => mirror'.codes = db.held.codes
    BY <2>1
  <2>. QED
    BY <2>1, <2>2 DEF PaidInv, PaidKept, Copied
<1>5. CASE AnswerEntry
  <2>1. entry.stage = "answer" /\ seen # None /\ UNCHANGED <<db, copy, mirror, seen, check>>
        /\ paid' = (paid \/ HasPerpetual(With(NoCodes, entry.code)))
    BY <1>5 DEF AnswerEntry, diskVars, InOneRun
  <2>2. HasPerpetual(With(NoCodes, entry.code)) => Perpetual(db.held.codes)
    <3>. SUFFICES ASSUME HasPerpetual(With(NoCodes, entry.code)) PROVE Perpetual(db.held.codes)
      OBVIOUS
    <3>1. With(NoCodes, entry.code).codes = NoCodes.codes \cup ({entry.code} \cap Codes)
      BY IdleTypes, WithTypes
    <3>2. entry.code \in Codes /\ Payload[entry.code].kind = "perpetual"
      BY <3>1 DEF HasPerpetual, Valid, NoCodes
    <3>3. entry.code \in db.held.codes \cup db.held.unlocks /\ db.held.unlocks \subseteq Unlocks
      BY <1>0, <2>1 DEF InOneRun, TypeFacts, Holdings
    <3>4. entry.code \in db.held.codes
      BY <3>2, <3>3, LicenceAssumption
    <3>. QED
      BY <3>2, <3>4 DEF Perpetual
  <2>3. paid' => Perpetual(db.held.codes)
    BY <2>1, <2>2 DEF PaidInv, PaidKept
  <2>4. db.held.spoiled = {} => db.held.codes \subseteq mirror.codes
    BY <2>1 DEF PaidInv, MirrorWhole
  <2>. QED
    BY <2>1, <2>3, <2>4, PerpetualGrows DEF PaidInv, PaidKept
<1>6. CASE TakeCopy
  <2>1. UNCHANGED <<db, mirror, paid, seen, check>> /\ Copied'
    BY <1>6 DEF TakeCopy, processVars, historyVars, Copied
  <2>. QED
    BY <2>1 DEF PaidInv, PaidKept
<1>7. CASE RestoreCopy
  <2>1. seen = None /\ Copied /\ db' = copy /\ UNCHANGED <<copy, mirror, paid, seen, check>>
    BY <1>7 DEF RestoreCopy, processVars, historyVars, InOneRun, Copied
  <2>2. db.held.spoiled = {}
    BY <2>1 DEF PaidInv, Budget
  <2>. QED
    BY <2>1, <2>2 DEF PaidInv, PaidKept, Copied
<1>8. ASSUME NEW c \in Codes, SpoilCode(c)
      PROVE  PaidKept'
  <2>1. seen = None /\ UNCHANGED <<copy, mirror, paid, seen, check>>
    BY <1>8 DEF SpoilCode, processVars, historyVars, InOneRun
  <2>2. db'.held.codes = db.held.codes /\ db'.held.spoiled # {}
    BY <1>0, <1>8 DEF SpoilCode, TypeFacts, Databases, Holdings
  <2>. QED
    BY <2>1, <2>2 DEF PaidInv, PaidKept, Copied
<1>9. ASSUME NEW c \in Codes, RepeatCode(c)
      PROVE  PaidKept'
  <2>1. db'.held = db.held
    BY <1>0, <1>9 DEF RepeatCode, TypeFacts, Databases
  <2>2. c \in db.held.codes /\ seen # None /\ entry.stage = "idle" /\ UNCHANGED <<copy, mirror, seen, check>>
        /\ paid' = (paid \/ Payload[c].kind = "perpetual")
    BY <1>9 DEF RepeatCode, Ready
  <2>3. paid' => Perpetual(db.held.codes)
    BY <2>2 DEF PaidInv, PaidKept, Perpetual
  <2>4. db.held.spoiled = {} => db.held.codes \subseteq mirror.codes
    BY <2>2 DEF PaidInv, MirrorWhole
  <2>. QED
    BY <2>1, <2>2, <2>3, <2>4, PerpetualGrows DEF PaidInv, PaidKept
<1>10. ASSUME NEW c \in Checks, ReadCodes(c)
       PROVE  PaidKept'
  <2>. DEFINE read == [Idle EXCEPT !.stage = "read", !.held = db.held, !.paid = paid]
  <2>1. read.held = db.held /\ read.paid = paid
    BY DEF Idle
  <2>2. seen # None /\ check' = [check EXCEPT ![c] = read] /\ UNCHANGED <<db, copy, mirror, paid, seen>>
    BY <1>10 DEF ReadCodes, diskVars, processVars, historyVars
  <2>. HIDE DEF read
  <2>3. \A d \in Checks : check'[d] = IF d = c THEN read ELSE check[d]
    BY <1>0, <2>2 DEF TypeFacts
  <2>. QED
    BY <2>1, <2>2, <2>3 DEF PaidInv, PaidKept, Copied
<1>. QED
  BY <1>1, <1>2, <1>3, <1>4, <1>5, <1>6, <1>7, <1>8, <1>9, <1>10, NextIsApartOr

\* Within that hypothesis a paid licence is kept, in every reachable state.
LEMMA PaidInvHolds ==
    ASSUME PaidEnv
    PROVE  LicenceSpec => [](ShopInv /\ PaidInv)
<1>1. LicenceInit => PaidInv
  <2>. SUFFICES ASSUME LicenceInit PROVE PaidInv
    OBVIOUS
  <2>1. db.held = NoCodes /\ copy.held = NoCodes /\ seen = None /\ paid = FALSE
    BY DEF LicenceInit
  <2>2. \A c \in Checks : check[c].stage # "read"
    BY IdleStages DEF LicenceInit
  <2>. QED
    BY <2>1, <2>2 DEF PaidInv, Budget, MirrorWhole, PaidKept, Copied, NoCodes
<1>2. ShopInv /\ PaidInv /\ [LicenceNext]_licenceVars => PaidInv'
  <2>. SUFFICES ASSUME ShopInv, PaidInv, [LicenceNext]_licenceVars PROVE PaidInv'
    OBVIOUS
  <2>1. CASE LicenceNext
    BY <2>1, BudgetStep, MirrorStep, PaidKeptStep DEF ShopInv, PaidInv
  <2>2. CASE UNCHANGED licenceVars
    BY <2>2 DEF licenceVars, diskVars, processVars, historyVars, PaidInv, Budget, MirrorWhole, PaidKept, Copied
  <2>. QED
    BY <2>1, <2>2
<1>. QED
  BY <1>1, <1>2, ShopInvHolds, PTL DEF LicenceSpec

\* Only the end of a check answers, by the native module or by the fallback.
LEMMA AnswersOnly ==
    ASSUME LicenceTypeOK, LicenceNext, NEW c \in Checks, Answers(c)
    PROVE  \/ /\ Conclude(c) /\ check'[c].degraded = FALSE
              /\ check'[c].status = StatusOf(check[c].held, seen).status
           \/ /\ Degrade(c) /\ check'[c].degraded = TRUE
              /\ check'[c].status = FallbackStatus(db.row, now, ReadableTime)
<1>0. check \in [Checks -> CheckStates]
  BY Typed DEF TypeFacts
<1>1. CASE check' = check \/ check' = [d \in Checks |-> Idle]
  BY <1>1, IdleStages DEF Answers
<1>2. ASSUME NEW d \in Checks, ReadCodes(d)
      PROVE  FALSE
  <2>. DEFINE read == [Idle EXCEPT !.stage = "read", !.held = db.held, !.paid = paid]
  <2>1. read.stage = "read"
    BY DEF Idle
  <2>2. check' = [check EXCEPT ![d] = read]
    BY <1>2 DEF ReadCodes
  <2>. HIDE DEF read
  <2>. QED
    BY <1>0, <2>1, <2>2 DEF Answers
<1>3. ASSUME NEW d \in Checks, NEW s, NEW g, Answered(d, s, g)
      PROVE  d = c /\ check'[c].status = s /\ check'[c].degraded = g
  <2>. DEFINE answer == [Idle EXCEPT !.stage = "answered", !.status = s, !.degraded = g]
  <2>1. answer.status = s /\ answer.degraded = g
    BY DEF Idle
  <2>2. check' = [check EXCEPT ![d] = answer]
    BY <1>3 DEF Answered
  <2>. HIDE DEF answer
  <2>. QED
    BY <1>0, <2>1, <2>2 DEF Answers
<1>4. ASSUME NEW d \in Checks, Conclude(d)
      PROVE  d = c /\ check'[c].degraded = FALSE /\ check'[c].status = StatusOf(check[c].held, seen).status
  <2>1. Answered(d, StatusOf(check[d].held, seen).status, FALSE)
    BY <1>4 DEF Conclude
  <2>. QED
    BY <1>3, <2>1
<1>5. ASSUME NEW d \in Checks, Degrade(d)
      PROVE  d = c /\ check'[c].degraded = TRUE /\ check'[c].status = FallbackStatus(db.row, now, ReadableTime)
  <2>1. Answered(d, FallbackStatus(db.row, now, ReadableTime), TRUE)
    BY <1>5 DEF Degrade
  <2>. QED
    BY <1>3, <2>1
<1>6. \/ check' = check \/ check' = [d \in Checks |-> Idle]
      \/ \E d \in Checks : ReadCodes(d) \/ Conclude(d) \/ Degrade(d)
  BY DEF LicenceNext, CheckStep, EntryStep, Disturbance, Load, Touch, LandStatus, PasteCode, TypeUnlock, RepeatCode,
         Commit, RefreshMirror, ResetAnchors, AnswerEntry, Start, Stop, ClockTicks, ModuleChanges, TakeCopy,
         RestoreCopy, ClockIsSet, SpoilCode, LoseAnchor
<1>. QED
  BY <1>1, <1>2, <1>4, <1>5, <1>6

\* A shop that was told its perpetual licence is active is answered PERPETUAL whenever the
\* module reads its codes undamaged, after any crash, lost anchor, clock set back or older
\* database, unless a copy is put back and a code damaged as well: evaluateNow and syncMirror of license.service.ts.
THEOREM PaidIsNeverRefused ==
    ASSUME PaidEnv
    PROVE  LicenceSpec => PaidIsNeverStopped
<1>. DEFINE Kept == \A c \in Checks :
                       Answers(c) /\ ~check'[c].degraded /\ check[c].paid /\ check[c].held.spoiled = {} =>
                         check'[c].status = "PERPETUAL"
<1>1. ShopInv /\ PaidInv /\ [LicenceNext]_licenceVars => [Kept]_licenceVars
  <2>. SUFFICES ASSUME ShopInv, PaidInv, LicenceNext, NEW c \in Checks,
                       Answers(c), ~check'[c].degraded, check[c].paid, check[c].held.spoiled = {}
                PROVE  check'[c].status = "PERPETUAL"
    OBVIOUS
  <2>1. LicenceTypeOK /\ TypeFacts
    BY Typed DEF ShopInv
  <2>2. Conclude(c) /\ check'[c].status = StatusOf(check[c].held, seen).status
    BY <2>1, AnswersOnly
  <2>3. Perpetual(check[c].held.codes)
    BY <2>2 DEF Conclude, PaidInv, PaidKept
  <2>4. check[c].held \in Holdings /\ check[c].held.codes \ check[c].held.spoiled = check[c].held.codes
    BY <2>1 DEF TypeFacts, CheckStates
  <2>. QED
    BY <2>1, <2>2, <2>3, <2>4, StatusOfIs DEF TypeFacts
<1>. QED
  BY <1>1, PaidInvHolds, PTL DEF LicenceSpec, PaidIsNeverStopped
-----------------------------------------------------------------------------
(* No day is added.                                                        *)

\* Not both a copy put back and an anchor lost.  With both, the database and a
\* file beside it can each show an earlier time.
PeakEnv == ~({"restore", "anchors"} \subseteq Env) \/ MaxFaults <= 1

PeakInv ==
    /\ Copied => "restore" \in Env /\ faults >= 1
    /\ ~Copied => db.anchor = peak
    /\ Copied \/ "anchors" \notin Env \/ faults = 0 => outside["file"] = peak
    /\ seen # None => seen = peak

\* The steps that leave the recorded times alone.
LEMMA PeakApart ==
    ASSUME LicenceTypeOK, PeakInv, LicenceNext, ~TakeCopy,
           db'.anchor = db.anchor, outside' = outside, peak' = peak, seen' = seen \/ seen' = None
    PROVE  PeakInv'
<1>1. faults \in Nat /\ faults' \in Nat /\ faults <= faults' /\ copy' = copy
  BY FaultsGrow
<1>. QED
  BY <1>1 DEF PeakInv, Copied

\* A time at least as late as the latest recorded becomes the latest recorded.
LEMMA LaterThanPeak ==
    ASSUME peak \in Moments, NEW t \in Int, peak # None => peak <= t
    PROVE  Later(t, peak) = t
<1>1. CASE peak = None
  BY <1>1 DEF Later
<1>2. CASE peak # None
  <2>1. peak \in Int /\ peak <= t
    BY <1>2, Numbers
  <2>2. Later(t, peak) \in {t, peak} /\ t <= Later(t, peak)
    BY LaterOf
  <2>. QED
    BY <2>1, <2>2
<1>. QED
  BY <1>1, <1>2

\* The steps that set the anchors together.
LEMMA AnchorsTogether ==
    ASSUME LicenceTypeOK, PeakInv, LicenceNext, copy' = copy,
           NEW t, db'.anchor = t, outside'["file"] = t, peak' = t, seen' \in {None, t}
    PROVE  PeakInv'
<1>1. faults \in Nat /\ faults' \in Nat /\ faults <= faults'
  BY FaultsGrow
<1>. QED
  BY <1>1 DEF PeakInv, Copied

\* Every step keeps the latest recorded time on an anchor that survives.
LEMMA PeakInvStep ==
    ASSUME PeakEnv, LicenceTypeOK, InOneRun, PeakInv, LicenceNext
    PROVE  PeakInv'
<1>0. TypeFacts /\ "file" \in Places
  BY Typed DEF Places
<1>1. /\ MaxFaults \in Nat /\ faults \in Nat /\ faults' \in Nat /\ faults <= faults'
      /\ TakeCopy \/ copy' = copy
      /\ (TakeCopy \/ \E p \in Places : LoseAnchor(p)) => faults < MaxFaults /\ faults' = faults + 1
  BY FaultsGrow
<1>2. CASE Load
  <2>1. PICK first : /\ first = Later(now, Resolve(Anchors)) /\ db' = [db EXCEPT !.held = Recovered(Resolve(Anchors)), !.anchor = first]
                     /\ outside' = [p \in Places |-> first] /\ seen' = first /\ peak' = Later(first, peak)
    BY <1>2 DEF Load, Anchors
  <2>2. Resolve(Anchors) \in Moments /\ \A r \in Anchors : r # None => Resolve(Anchors) # None /\ r <= Resolve(Anchors)
    BY AnchorsResolve
  <2>3. first \in Int /\ (Resolve(Anchors) # None => Resolve(Anchors) <= first)
    BY <1>0, <2>1, <2>2, LaterOf DEF TypeFacts
  <2>4. peak # None => peak <= first
    <3>1. peak \in Anchors
      BY <1>0 DEF PeakInv, Anchors
    <3>2. peak # None => peak \in Int /\ Resolve(Anchors) \in Int
      BY <1>0, <2>2, <3>1, Numbers DEF TypeFacts
    <3>. QED
      BY <2>2, <2>3, <3>1, <3>2
  <2>5. peak' = first
    BY <1>0, <2>1, <2>3, <2>4, LaterThanPeak DEF TypeFacts
  <2>6. db'.anchor = first /\ outside'["file"] = first /\ copy' = copy
    BY <1>0, <1>2, <2>1 DEF Load, TypeFacts, Databases
  <2>7. seen' = first
    BY <2>1
  <2>. QED
    BY AnchorsTogether, <2>5, <2>6, <2>7, SMTT(30)
<1>3. CASE Touch
  <2>1. PICK at : at = Later(now, seen) /\ seen # None /\ seen' = at /\ db' = [db EXCEPT !.anchor = at]
                  /\ outside' = [p \in Places |-> at] /\ peak' = Later(at, peak)
    BY <1>3 DEF Touch
  <2>2. at \in Int /\ seen <= at /\ seen = peak
    BY <1>0, <2>1, LaterOf DEF TypeFacts, PeakInv
  <2>3. peak' = at
    BY <1>0, <2>1, <2>2, LaterThanPeak DEF TypeFacts
  <2>4. db'.anchor = at /\ outside'["file"] = at /\ copy' = copy
    BY <1>0, <1>3, <2>1 DEF Touch, TypeFacts, Databases
  <2>. QED
    BY AnchorsTogether, <2>1, <2>3, <2>4
<1>4. CASE ResetAnchors
  <2>1. db'.anchor = entry.latest /\ outside'["file"] = entry.latest /\ copy' = copy
    BY <1>0, <1>4 DEF ResetAnchors, TypeFacts, Databases
  <2>. QED
    BY <1>4, AnchorsTogether, <2>1 DEF ResetAnchors
<1>5. ASSUME NEW c \in Checks, Degrade(c)
      PROVE  PeakInv'
  <2>0. faults' = faults /\ seen = None /\ seen' = None /\ copy' = copy
    BY <1>5 DEF Degrade, processVars, InOneRun
  <2>1. ~TakeCopy /\ seen = None /\ seen' = None /\ copy' = copy
    BY <1>1, <2>0
  <2>2. CASE UNCHANGED <<db, outside, peak>>
    BY <2>1, <2>2, PeakApart
  <2>3. CASE /\ Later(now, ReadableTime) = now /\ db' = [db EXCEPT !.anchor = now]
             /\ outside' = [outside EXCEPT !["file"] = Later(now, outside["file"])]
             /\ peak' = Later(now, peak)
    <3>1. peak # None => peak <= now
      <4>1. /\ ReadableTime \in Moments
            /\ db.anchor # None => ReadableTime # None /\ db.anchor <= ReadableTime
            /\ outside["file"] # None => ReadableTime # None /\ outside["file"] <= ReadableTime
        BY ReadableIs
      <4>2. peak # None => ReadableTime # None /\ peak <= ReadableTime
        BY <4>1 DEF PeakInv
      <4>3. ReadableTime # None => ReadableTime <= now
        BY <1>0, <2>3, <4>1, LaterOf DEF TypeFacts
      <4>4. (peak # None => peak \in Int) /\ (ReadableTime # None => ReadableTime \in Int) /\ now \in Int
        BY <1>0, <4>1, Numbers DEF TypeFacts
      <4>. QED
        BY <4>2, <4>3, <4>4
    <3>2. peak' = now
      BY <1>0, <2>3, <3>1, LaterThanPeak DEF TypeFacts
    <3>3. db'.anchor = now /\ outside'["file"] = Later(now, outside["file"])
      BY <1>0, <2>3 DEF TypeFacts, Databases
    <3>4. outside["file"] = peak => outside'["file"] = now
      BY <2>3, <3>2, <3>3
    <3>. QED
      BY <1>1, <2>1, <3>2, <3>3, <3>4 DEF PeakInv, Copied
  <2>. QED
    BY <1>5, <2>2, <2>3 DEF Degrade
<1>6. CASE TakeCopy
  <2>1. "restore" \in Env /\ UNCHANGED <<db, outside, peak, seen>> /\ copy' = db /\ db.held.codes # {}
    BY <1>6 DEF TakeCopy, processVars, historyVars
  <2>2. outside["file"] = peak
    BY <1>6, <1>1, <2>1 DEF PeakEnv, PeakInv
  <2>. QED
    BY <1>6, <1>1, <2>1, <2>2 DEF PeakInv, Copied
<1>7. CASE RestoreCopy
  <2>1. Copied /\ UNCHANGED <<copy, outside, peak, seen, faults>>
    BY <1>7 DEF RestoreCopy, processVars, historyVars, Copied
  <2>. QED
    BY <2>1 DEF PeakInv, Copied
<1>8. ASSUME NEW p \in Places, LoseAnchor(p)
      PROVE  PeakInv'
  <2>1. "anchors" \in Env /\ UNCHANGED <<db, copy, peak, seen>> /\ faults < MaxFaults /\ faults' = faults + 1
    BY <1>8, <1>1 DEF LoseAnchor, processVars, historyVars
  <2>2. ~Copied
    BY <1>1, <2>1 DEF PeakEnv, PeakInv
  <2>. QED
    BY <1>1, <2>1, <2>2 DEF PeakInv, Copied
<1>9. CASE LandStatus \/ Commit \/ \E c \in Codes : RepeatCode(c)
  <2>1. db'.anchor = db.anchor /\ ~TakeCopy
    <3>1. CASE LandStatus
      BY <1>0, <3>1 DEF LandStatus, TakeCopy, TypeFacts, Databases, Fault, historyVars
    <3>2. CASE Commit
      BY <1>0, <3>2 DEF Commit, TakeCopy, TypeFacts, Databases, NoEntry
    <3>3. ASSUME NEW c \in Codes, RepeatCode(c)
          PROVE  db'.anchor = db.anchor /\ ~TakeCopy
      <4>1. db'.anchor = db.anchor
        BY <1>0, <3>3 DEF RepeatCode, TypeFacts, Databases
      <4>2. faults' = faults
        BY <3>3 DEF RepeatCode
      <4>. QED
        BY <1>1, <4>1, <4>2
    <3>. QED
      BY <1>9, <3>1, <3>2, <3>3
  <2>. QED
    BY <1>9, <2>1, PeakApart DEF LandStatus, Commit, RepeatCode, historyVars
<1>10. CASE RefreshMirror \/ AnswerEntry \/ Start \/ Stop \/ ClockTicks \/ ModuleChanges
           \/ (\E t \in Time : ClockIsSet(t))
  <2>1. copy' = copy /\ db' = db /\ outside' = outside /\ peak' = peak /\ (seen' = seen \/ seen' = None)
    BY <1>10 DEF RefreshMirror, AnswerEntry, Start, Stop, ClockTicks, ModuleChanges, ClockIsSet, diskVars,
                processVars, historyVars
  <2>. QED
    BY <1>1, <2>1 DEF PeakInv, Copied
<1>11. ASSUME NEW c \in Codes, PasteCode(c) \/ SpoilCode(c)
       PROVE  PeakInv'
  <2>1. db'.anchor = db.anchor
    BY <1>0, <1>11 DEF PasteCode, SpoilCode, diskVars, TypeFacts, Databases
  <2>2. copy' = copy /\ outside' = outside /\ peak' = peak /\ seen' = seen
    BY <1>11 DEF PasteCode, SpoilCode, diskVars, processVars, historyVars
  <2>. QED
    BY <1>1, <2>1, <2>2 DEF PeakInv, Copied
<1>12. ASSUME NEW u \in Unlocks, TypeUnlock(u)
       PROVE  PeakInv'
  <2>1. UNCHANGED <<db, copy, outside, peak, seen>>
    BY <1>12 DEF TypeUnlock, diskVars, processVars, historyVars
  <2>. QED
    BY <1>1, <2>1 DEF PeakInv, Copied
<1>13. ASSUME NEW c \in Checks, ReadCodes(c) \/ Conclude(c)
       PROVE  PeakInv'
  <2>1. UNCHANGED <<db, copy, outside, peak, seen>>
    BY <1>13 DEF ReadCodes, Conclude, diskVars, processVars, historyVars
  <2>. QED
    BY <1>1, <2>1 DEF PeakInv, Copied
<1>. QED
  BY <1>2, <1>3, <1>4, <1>5, <1>6, <1>7, <1>8, <1>9, <1>10, <1>11, <1>12, <1>13
     DEF LicenceNext, CheckStep, EntryStep, Disturbance

\* Within that hypothesis the latest recorded time is never lost, in every reachable state.
LEMMA PeakInvHolds ==
    ASSUME PeakEnv
    PROVE  LicenceSpec => [](ShopInv /\ PeakInv)
<1>1. LicenceInit => PeakInv
  <2>. SUFFICES ASSUME LicenceInit PROVE PeakInv
    OBVIOUS
  <2>1. copy.held = NoCodes /\ db.anchor = None /\ outside["file"] = None /\ peak = None /\ seen = None
    BY DEF LicenceInit, Places
  <2>. QED
    BY <2>1 DEF PeakInv, Copied, NoCodes
<1>2. ShopInv /\ PeakInv /\ [LicenceNext]_licenceVars => PeakInv'
  <2>. SUFFICES ASSUME ShopInv, PeakInv, [LicenceNext]_licenceVars PROVE PeakInv'
    OBVIOUS
  <2>1. CASE LicenceNext
    BY <2>1, PeakInvStep DEF ShopInv
  <2>2. CASE UNCHANGED licenceVars
    BY <2>2 DEF licenceVars, diskVars, processVars, historyVars, PeakInv, Copied
  <2>. QED
    BY <2>1, <2>2
<1>. QED
  BY <1>1, <1>2, ShopInvHolds, PTL DEF LicenceSpec

\* What the fallback still lets work: a perpetual licence, or a time-limited
\* status before the end it was remembered with.
LEMMA FallbackOf ==
    ASSUME NEW row \in Rows, NEW n \in Int, NEW recorded \in Moments,
           Working(FallbackStatus(row, n, recorded))
    PROVE  \/ row.status = "PERPETUAL" /\ FallbackStatus(row, n, recorded) = "PERPETUAL"
           \/ /\ row.status \in TimeLimited /\ row.until \in Int /\ n < row.until
              /\ recorded # None => recorded < row.until
<1>. DEFINE until == Soonest({row.until, row.at + Fallback})
            status == FallbackStatus(row, n, recorded)
<1>0. row.status \in Statuses
  BY DEF Rows
<1>1. CASE row.status \notin TimeLimited
  <2>1. status = row.status
    BY <1>1 DEF FallbackStatus
  <2>. QED
    BY <1>0, <1>1, <2>1 DEF Statuses, TimeLimited, Working, ReadOnlyStatuses
<1>2. CASE row.status \in TimeLimited
  <2>1. row.until \in Int /\ row.at \in Int /\ None \notin {row.until, row.at}
    BY <1>2, Numbers DEF Rows
  <2>2. until \in Int /\ until <= row.until
    <3>1. row.at + Fallback \in Int
      BY <2>1, Numbers
    <3>2. /\ until \in {row.until, row.at + Fallback}
          /\ until <= row.until /\ until <= row.at + Fallback
      BY <2>1, <3>1, SoonestOf
    <3>. HIDE DEF until
    <3>. QED
      BY <2>1, <3>1, <3>2
  <2>3. CASE RolledBack(n, recorded)
    <3>1. status = "TAMPERED"
      BY <1>2, <2>1, <2>3 DEF FallbackStatus
    <3>. QED
      BY <3>1 DEF Working, ReadOnlyStatuses
  <2>4. CASE ~RolledBack(n, recorded)
    <3>1. status = IF Later(n, recorded) < until THEN row.status ELSE "EXPIRED"
      <4>. HIDE DEF until
      <4>1. status = CASE row.status \notin TimeLimited -> row.status
                       [] row.status \in TimeLimited /\ None \in {row.until, row.at} -> "EXPIRED"
                       [] row.status \in TimeLimited /\ None \notin {row.until, row.at}
                          /\ RolledBack(n, recorded) -> "TAMPERED"
                       [] OTHER -> IF Later(n, recorded) < until THEN row.status ELSE "EXPIRED"
        BY Zenon DEF FallbackStatus, until
      <4>. QED
        BY <1>2, <2>1, <2>4, <4>1
    <3>2. Later(n, recorded) < until
      <4>. HIDE DEF until
      <4>. QED
        BY <3>1 DEF Working, ReadOnlyStatuses
    <3>3. /\ Later(n, recorded) \in Int /\ n <= Later(n, recorded)
          /\ recorded # None => recorded \in Int /\ recorded <= Later(n, recorded)
      BY LaterOf, Numbers
    <3>4. n < row.until /\ (recorded # None => recorded < row.until)
      <4>. HIDE DEF until
      <4>. QED
        BY <2>1, <2>2, <3>2, <3>3
    <3>. QED
      BY <1>2, <2>1, <3>4
  <2>. QED
    BY <2>3, <2>4
<1>. QED
  BY <1>1, <1>2

\* The ends of what an installation holds are ends of the codes there are.
LEMMA EndsAreIssued ==
    ASSUME NEW codes \in SUBSET Codes, NEW unlocks \in SUBSET Unlocks,
           NEW end \in EndsOf(codes, unlocks)
    PROVE  end \in Windows(Unlocks) \cup ({Payload[p].exp : p \in Codes} \ {None})
<1>1. CASE \E c \in codes : Payload[c].kind = "trial" /\ end = Payload[c].exp
  <2>1. PICK c \in codes : Payload[c].kind = "trial" /\ end = Payload[c].exp
    BY <1>1
  <2>2. c \in Codes /\ end # None
    BY <2>1, PayloadOf, Numbers
  <2>. QED
    BY <2>1, <2>2
<1>2. CASE \E u \in unlocks : end = Until[u]
  BY <1>2 DEF Windows
<1>. QED
  BY <1>1, <1>2 DEF EndsOf

\* No clock set back, anchor lost, module taken away or database put back makes a
\* time-limited status work past the last end that a code carries, its grace days and the
\* tolerance, unless a copy is put back and an anchor lost as well: evaluateAll of the crate and fallbackVerdict of the service.
THEOREM NoDayIsEverAdded ==
    ASSUME PeakEnv
    PROVE  LicenceSpec => NoDayIsAdded
<1>. DEFINE Ends == Windows(Unlocks) \cup ({Payload[p].exp : p \in Codes} \ {None})
            Bounded == \A c \in Checks :
                          Answers(c) /\ Working(check'[c].status) /\ check'[c].status # "PERPETUAL" =>
                            \E end \in Ends : peak < end + Grace + Tolerance
<1>1. ShopInv /\ PeakInv /\ [LicenceNext]_licenceVars => [Bounded]_licenceVars
  <2>. SUFFICES ASSUME ShopInv, PeakInv, LicenceNext, NEW c \in Checks,
                       Answers(c), Working(check'[c].status), check'[c].status # "PERPETUAL"
                PROVE  \E end \in Ends : peak < end + Grace + Tolerance
    OBVIOUS
  <2>0. LicenceTypeOK /\ TypeFacts /\ InOneRun /\ RowsCovered /\ PeakKnown
    BY Typed DEF ShopInv
  <2>1. CASE Conclude(c) /\ check'[c].status = StatusOf(check[c].held, seen).status
    <3>1. check[c].held \in Holdings
      BY <2>0 DEF TypeFacts, CheckStates
    <3>2. seen # None /\ seen = peak
      BY <2>0, <2>1 DEF Conclude, InOneRun, PeakInv
    <3>. DEFINE e == StatusOf(check[c].held, seen)
    <3>3. /\ e \in Evaluations
          /\ e.status \in TimeLimited =>
                \E end \in EndsOf(check[c].held.codes, check[c].held.unlocks) :
                   /\ end \in Int /\ e.until = end + Grace /\ now < e.until
                   /\ seen # None => seen < end + Grace + Tolerance
      BY <2>0, <3>1, StatusOfIs DEF TypeFacts
    <3>. HIDE DEF e
    <3>4. e.status \in TimeLimited
      BY <2>1, <3>3 DEF e, Evaluations, Statuses, TimeLimited, Working, ReadOnlyStatuses
    <3>5. PICK end \in EndsOf(check[c].held.codes, check[c].held.unlocks) : peak < end + Grace + Tolerance
      BY <3>2, <3>3, <3>4
    <3>6. end \in Ends
      BY <3>1, EndsAreIssued DEF Holdings
    <3>. QED
      BY <3>5, <3>6
  <2>2. CASE Degrade(c) /\ check'[c].status = FallbackStatus(db.row, now, ReadableTime)
    <3>1. /\ ReadableTime \in Moments
          /\ db.anchor # None => ReadableTime # None /\ db.anchor <= ReadableTime
          /\ outside["file"] # None => ReadableTime # None /\ outside["file"] <= ReadableTime
      BY <2>0, ReadableIs
    <3>2. db.row.status \in TimeLimited /\ (ReadableTime # None => ReadableTime < db.row.until)
      BY <2>0, <2>2, <3>1, FallbackOf DEF TypeFacts
    <3>3. peak # None
      BY <2>0, <3>2 DEF PeakKnown
    <3>4. ReadableTime # None /\ peak <= ReadableTime
      BY <3>1, <3>3 DEF PeakInv
    <3>5. PICK end \in EndsOf(db.held.codes, db.held.unlocks) : end \in Int /\ db.row.until = end + Grace
      BY <2>0, <3>2 DEF RowsCovered, Covered
    <3>6. peak \in Int /\ ReadableTime \in Int
      BY <2>0, <3>1, <3>3, <3>4, Numbers DEF TypeFacts
    <3>7. peak < end + Grace + Tolerance
      BY <3>2, <3>4, <3>5, <3>6, Numbers
    <3>8. end \in Ends
      BY <2>0, EndsAreIssued DEF TypeFacts, Holdings
    <3>. QED
      BY <3>7, <3>8
  <2>. QED
    BY <2>0, <2>1, <2>2, AnswersOnly
<1>. QED
  BY <1>1, PeakInvHolds, PTL DEF LicenceSpec, NoDayIsAdded
-----------------------------------------------------------------------------
(* What the status allows, recording allows.                               *)
\* A sale that the status allows, by the module or from the remembered status, is one
\* that recordingAllowed of the crate accepts later from the codes then stored, unless one is
\* damaged or the clock was set to a time before a window, or, where only the remembered
\* status was asked, before a trial's issue.
THEOREM WhatIsAllowedIsCovered == LicenceSpec => AllowedIsCovered
<1>. DEFINE Accepts == RecordingAllowed(Valid(db.held), Windows(db.held.unlocks), now)
            Fits == \A c \in Checks :
                       Answers(c) /\ Working(check'[c].status) /\ db.held.spoiled = {} =>
                         \/ Accepts
                         \/ BeforeWindow
                         \/ check'[c].degraded /\ BeforeTrial
<1>1. ShopInv /\ [LicenceNext]_licenceVars => [Fits]_licenceVars
  <2>. SUFFICES ASSUME ShopInv, LicenceNext, NEW c \in Checks,
                       Answers(c), Working(check'[c].status), db.held.spoiled = {}
                PROVE  Accepts \/ BeforeWindow \/ (check'[c].degraded /\ BeforeTrial)
    OBVIOUS
  <2>0. LicenceTypeOK /\ TypeFacts /\ InOneRun /\ RowsCovered
    BY Typed DEF ShopInv
  <2>1. now \in Int /\ db.held.codes \subseteq Codes /\ db.held.unlocks \subseteq Unlocks
    BY <2>0, LicenceAssumption DEF LicenceTypeOK, Time, TypeFacts, Holdings
  <2>2. Valid(db.held) = {Payload[d] : d \in db.held.codes}
    BY DEF Valid
  <2>3. ASSUME Perpetual(db.held.codes)
        PROVE  Accepts
    BY <2>2, <2>3 DEF Perpetual, RecordingAllowed
  <2>4. ASSUME NEW d \in db.held.codes, Payload[d].kind = "trial", now < Payload[d].exp + Grace
        PROVE  Accepts \/ now < Payload[d].iat - IssueLead
    <3>1. Payload[d].iat \in Int
      BY <2>1, PayloadOf
    <3>2. CASE Payload[d].iat - IssueLead <= now
      BY <2>2, <2>4, <3>2 DEF RecordingAllowed
    <3>3. CASE ~(Payload[d].iat - IssueLead <= now)
      BY <2>1, <3>1, <3>3, Numbers
    <3>. QED
      BY <3>2, <3>3
  <2>5. ASSUME NEW end \in Windows(db.held.unlocks), now < end + Grace
        PROVE  Accepts \/ BeforeWindow
    <3>1. end \in Int
      BY <2>1, LicenceAssumption DEF Windows
    <3>2. CASE end - UnlockCover <= now
      BY <2>5, <3>2 DEF RecordingAllowed
    <3>3. CASE ~(end - UnlockCover <= now)
      <4>1. now < end - UnlockCover
        BY <2>1, <3>1, <3>3, Numbers
      <4>. QED
        BY <2>5, <4>1 DEF BeforeWindow
    <3>. QED
      BY <3>2, <3>3
  <2>. HIDE DEF Accepts
  <2>6. CASE Conclude(c) /\ check'[c].status = StatusOf(check[c].held, seen).status
    <3>1. check[c].held \in Holdings /\ check[c].held.codes \subseteq db.held.codes
          /\ check[c].held.unlocks \subseteq db.held.unlocks
      BY <2>0, <2>6 DEF TypeFacts, CheckStates, Conclude, InOneRun
    <3>. DEFINE e == StatusOf(check[c].held, seen)
    <3>2. /\ e \in Evaluations
          /\ e.status = "PERPETUAL" => Perpetual(check[c].held.codes)
          /\ e.status \in TimeLimited =>
                \E end : end \in Int /\ e.until = end + Grace /\ now < e.until /\ Begun(check[c].held, end)
      BY <2>0, <3>1, StatusOfIs DEF TypeFacts
    <3>. HIDE DEF e
    <3>3. e.status \in TimeLimited \cup {"PERPETUAL"}
      BY <2>6, <3>2 DEF e, Evaluations, Statuses, TimeLimited, Working, ReadOnlyStatuses
    <3>4. CASE e.status = "PERPETUAL"
      BY <2>3, <3>1, <3>2, <3>4, PerpetualGrows
    <3>5. CASE e.status \in TimeLimited
      <4>1. PICK end : now < end + Grace /\ Begun(check[c].held, end)
        BY <3>2, <3>5
      <4>2. CASE end \in Windows(check[c].held.unlocks)
        BY <2>5, <3>1, <4>1, <4>2 DEF Windows
      <4>3. CASE \E d \in check[c].held.codes :
                    Payload[d].kind = "trial" /\ Payload[d].exp = end /\ Payload[d].iat <= now + Tolerance
        <5>1. PICK d \in db.held.codes :
                 Payload[d].kind = "trial" /\ Payload[d].exp = end /\ Payload[d].iat <= now + Tolerance
          BY <3>1, <4>3
        <5>2. Payload[d].iat \in Int
          BY <2>1, PayloadOf
        <5>3. ~(now < Payload[d].iat - IssueLead)
          BY <2>1, <5>1, <5>2, Numbers
        <5>. QED
          BY <2>4, <4>1, <5>1, <5>3
      <4>. QED
        BY <4>1, <4>2, <4>3 DEF Begun
    <3>. QED
      BY <3>3, <3>4, <3>5
  <2>7. CASE /\ Degrade(c) /\ check'[c].degraded = TRUE
             /\ check'[c].status = FallbackStatus(db.row, now, ReadableTime)
    <3>1. \/ db.row.status = "PERPETUAL"
          \/ db.row.status \in TimeLimited /\ now < db.row.until
      BY <2>0, <2>7, ReadableIs, FallbackOf DEF TypeFacts
    <3>2. CASE db.row.status = "PERPETUAL"
      BY <2>0, <2>3, <3>2 DEF RowsCovered, Covered
    <3>3. CASE db.row.status \in TimeLimited /\ now < db.row.until
      <4>1. PICK end \in EndsOf(db.held.codes, db.held.unlocks) : now < end + Grace
        BY <2>0, <3>3 DEF RowsCovered, Covered
      <4>2. CASE \E u \in db.held.unlocks : end = Until[u]
        BY <2>5, <4>1, <4>2 DEF Windows
      <4>3. CASE \E d \in db.held.codes : Payload[d].kind = "trial" /\ end = Payload[d].exp
        <5>1. PICK d \in db.held.codes : Payload[d].kind = "trial" /\ end = Payload[d].exp
          BY <4>3
        <5>2. Accepts \/ now < Payload[d].iat - IssueLead
          BY <2>4, <4>1, <5>1
        <5>3. now < Payload[d].iat - IssueLead => BeforeTrial
          BY <2>2, <5>1 DEF BeforeTrial
        <5>. QED
          BY <2>7, <5>2, <5>3
      <4>. QED
        BY <4>1, <4>2, <4>3 DEF EndsOf
    <3>. QED
      BY <3>1, <3>2, <3>3
  <2>. QED
    BY <2>0, <2>6, <2>7, AnswersOnly
<1>. QED
  BY <1>1, ShopInvHolds, PTL DEF LicenceSpec, AllowedIsCovered
=============================================================================
