--------------------------- MODULE SettingsEngine ---------------------------
(***************************************************************************)
(* The settings engine: a draft and a history of published versions for    *)
(* each layer, edited by several managers, and the value in force that the *)
(* layers come to under the registry of the build that runs.               *)
(*                                                                         *)
(* A request is one step per statement it awaits: none of the operations   *)
(* runs in a transaction, so others come between its reads and its writes, *)
(* and the process may end between any two.                                *)
(***************************************************************************)
EXTENDS Absent, Integers, FiniteSets

CONSTANTS
    Keys, Values,
    Registries,   \* what each build admits: per key its scopes, values and default
    Editors,      \* managers, one request each at a time
    MaxVersions, MaxDrafts, MaxRestarts   \* bounds

Layers == {"MERCHANT", "STATION"}

ASSUME SettingsAssumption ==
    /\ Registries \subseteq UNION {[K -> [scopes : SUBSET Layers, values : SUBSET Values,
                                          default : Values]] : K \in SUBSET Keys}
    /\ \A r \in Registries, k \in Keys : k \in DOMAIN r => r[k].default \in r[k].values
    /\ {MaxVersions, MaxDrafts, MaxRestarts} \subseteq Nat

VARIABLES
    registry,   \* SETTING_DEFINITIONS of the running build
    draft,      \* setting_draft: one row or none per layer
    versions,   \* setting_version
    audit,      \* the audit trail of publishes and rollbacks
    req,        \* what each manager's request is in the middle of
    drafts,     \* draft rows ever made, for their ids
    restarts

tables == <<draft, versions, audit, drafts>>
settingsVars == <<registry, tables, req, restarts>>

\* What a layer sets: some keys, each to a value.
Overrides == UNION {[K -> Values] : K \in SUBSET Keys}
Nothing == [k \in {} |-> None]

DraftRows == [id : 1..MaxDrafts, values : Overrides]
VersionRows == [layer : Layers, version : 1..MaxVersions, values : Overrides, rolledBackFrom : 0..MaxVersions]
AuditRows == [layer : Layers, version : 1..MaxVersions, before : Overrides, after : Overrides]
Patches == {[set |-> s, clear |-> c] : s \in {f \in Overrides : Cardinality(DOMAIN f) <= 1}, c \in SUBSET Keys}
OneEdit(p) == Cardinality(DOMAIN p.set) + Cardinality(p.clear) = 1

NoRequest == [stage |-> "idle", layer |-> "MERCHANT", id |-> 0, values |-> Nothing,
         seen |-> 0, before |-> Nothing, from |-> 0]

SettingsTypeOK ==
    /\ registry \in Registries
    /\ draft \in [Layers -> DraftRows \cup {None}]
    /\ versions \subseteq VersionRows
    /\ audit \subseteq AuditRows
    /\ \A m \in Editors :
        /\ req[m].stage \in {"idle", "save", "look", "insert", "clean", "record"}
        /\ req[m].layer \in Layers /\ req[m].id \in 0..MaxDrafts
        /\ {req[m].values, req[m].before} \subseteq Overrides
        /\ req[m].seen \in 0..MaxVersions /\ req[m].from \in 0..MaxVersions
    /\ drafts \in 0..MaxDrafts
    /\ restarts \in 0..MaxRestarts

SettingsInit ==
    /\ registry \in Registries
    /\ draft = [l \in Layers |-> None]
    /\ versions = {} /\ audit = {}
    /\ req = [m \in Editors |-> NoRequest]
    /\ drafts = 0 /\ restarts = 0

-----------------------------------------------------------------------------
(* Validation, the layers, and the value in force.                         *)
Allowed(layer, k, v) ==
    /\ k \in DOMAIN registry
    /\ layer \in registry[k].scopes
    /\ v \in registry[k].values

Accepted(layer, f) == [k \in {k \in DOMAIN f : Allowed(layer, k, f[k])} |-> f[k]]

Merge(f, g) == [k \in DOMAIN f \cup DOMAIN g |-> IF k \in DOMAIN g THEN g[k] ELSE f[k]]
Drop(f, K) == [k \in DOMAIN f \ K |-> f[k]]

History(layer) == {r \in versions : r.layer = layer}
Newest(layer) == {r \in History(layer) : \A q \in History(layer) : q.version <= r.version}
PublishedVersion(layer) == IF History(layer) = {} THEN 0 ELSE (CHOOSE r \in Newest(layer) : TRUE).version
Published(layer) == IF History(layer) = {} THEN Nothing ELSE (CHOOSE r \in Newest(layer) : TRUE).values

\* A slip: a stored value is obeyed whatever the registry now says of it.
Stored(layer) == Published(layer)

Layer(layer) == Accepted(layer, Published(layer))

\* resolveSettings: the default, under the merchant's value, under the station's.
Effective ==
    LET default == [k \in DOMAIN registry |-> registry[k].default]
    IN  Merge(Merge(default, Layer("MERCHANT")), Layer("STATION"))

-----------------------------------------------------------------------------
Stage(m, r) == req' = [req EXCEPT ![m] = r]
Finish(m) == Stage(m, NoRequest)

\* saveDraft reads the layer's draft; an empty one is the base when there is none.
BeginSave(m) ==
    /\ req[m].stage = "idle"
    /\ \E l \in Layers, p \in Patches :
        /\ OneEdit(p)
        /\ LET row == draft[l]
               base == IF row = None THEN Nothing ELSE row.values
               accepted == Accepted(l, p.set)
           IN  Stage(m, [NoRequest EXCEPT
                   !.stage = "save", !.layer = l,
                   !.id = IF row = None THEN 0 ELSE row.id,
                   !.values = Merge(Drop(base, p.clear), accepted)])
    /\ UNCHANGED <<registry, tables, restarts>>

\* The draft is still the row the request read, or still absent.
SameRow(m) ==
    LET row == draft[req[m].layer]
    IN  IF row = None THEN req[m].id = 0 ELSE row.id = req[m].id

\* The update by id, or the insert: both fail when another request came between.
Save(m) ==
    /\ req[m].stage = "save"
    /\ req[m].id = 0 => drafts < MaxDrafts
    /\ IF SameRow(m)
         THEN LET id == IF req[m].id = 0 THEN drafts + 1 ELSE req[m].id
              IN  /\ draft' = [draft EXCEPT ![req[m].layer] =
                                 [id |-> id, values |-> req[m].values]]
                  /\ drafts' = IF req[m].id = 0 THEN id ELSE drafts
         ELSE UNCHANGED <<draft, drafts>>
    /\ Finish(m)
    /\ UNCHANGED <<registry, versions, audit, restarts>>

BeginPublish(m) ==
    /\ req[m].stage = "idle"
    /\ \E l \in Layers :
        /\ draft[l] # None
        /\ Stage(m, [NoRequest EXCEPT !.stage = "look", !.layer = l, !.id = draft[l].id,
                        !.values = Accepted(l, draft[l].values)])
    /\ UNCHANGED <<registry, tables, restarts>>

BeginRollback(m) ==
    /\ req[m].stage = "idle"
    /\ \E row \in versions :
        Stage(m, [NoRequest EXCEPT !.stage = "look", !.layer = row.layer, !.from = row.version,
                     !.values = Accepted(row.layer, row.values)])
    /\ UNCHANGED <<registry, tables, restarts>>

\* publishedLayer.  A publish of what is in force already is refused.
LookAtPublished(m) ==
    /\ req[m].stage = "look"
    /\ LET l == req[m].layer
           nothingNew == History(l) # {} /\ req[m].values = Published(l)
       IN  IF nothingNew /\ req[m].from = 0
             THEN Finish(m)
             ELSE Stage(m, [req[m] EXCEPT !.stage = "insert", !.seen = PublishedVersion(l),
                               !.before = Published(l)])
    /\ UNCHANGED <<registry, tables, restarts>>

\* A slip: the number is taken at the insert, after whatever came in between.
NumberedLate(m) ==
    [layer |-> req[m].layer, version |-> PublishedVersion(req[m].layer) + 1,
     values |-> req[m].values, rolledBackFrom |-> req[m].from]

NewVersion(m) ==
    [layer |-> req[m].layer, version |-> req[m].seen + 1, values |-> req[m].values,
     rolledBackFrom |-> req[m].from]

Taken(m) == \E row \in History(req[m].layer) : row.version = NewVersion(m).version

InsertVersion(m) ==
    /\ req[m].stage = "insert" /\ req[m].seen < MaxVersions
    /\ IF Taken(m)
         THEN Finish(m) /\ UNCHANGED versions
         ELSE /\ versions' = versions \cup {NewVersion(m)}
              /\ Stage(m, [req[m] EXCEPT !.stage = "clean"])
    /\ UNCHANGED <<registry, draft, audit, drafts, restarts>>

\* A publish deletes the row it read, by id, and fails when it is gone; a
\* rollback deletes whatever draft the layer has.
CleanDraft(m) ==
    /\ req[m].stage = "clean"
    /\ LET l == req[m].layer
       IN  IF req[m].from # 0 \/ SameRow(m)
             THEN /\ draft' = [draft EXCEPT ![l] = None]
                  /\ Stage(m, [req[m] EXCEPT !.stage = "record"])
             ELSE Finish(m) /\ UNCHANGED draft
    /\ UNCHANGED <<registry, versions, audit, drafts, restarts>>

RecordAudit(m) ==
    /\ req[m].stage = "record"
    /\ audit' = audit \cup {[layer |-> req[m].layer, version |-> req[m].seen + 1,
                             before |-> req[m].before, after |-> req[m].values]}
    /\ Finish(m)
    /\ UNCHANGED <<registry, draft, versions, drafts, restarts>>

Discard(m) ==
    /\ req[m].stage = "idle"
    /\ \E l \in Layers : draft[l] # None /\ draft' = [draft EXCEPT ![l] = None]
    /\ UNCHANGED <<registry, versions, audit, req, drafts, restarts>>

\* The process ends and starts again, perhaps as another build.
Restart ==
    /\ restarts < MaxRestarts
    /\ registry' \in Registries
    /\ req' = [m \in Editors |-> NoRequest]
    /\ restarts' = restarts + 1
    /\ UNCHANGED tables

SettingsNext ==
    \/ \E m \in Editors :
        \/ BeginSave(m) \/ Save(m) \/ Discard(m)
        \/ BeginPublish(m) \/ BeginRollback(m)
        \/ LookAtPublished(m) \/ InsertVersion(m) \/ CleanDraft(m) \/ RecordAudit(m)
    \/ Restart

SettingsSpec == SettingsInit /\ [][SettingsNext]_settingsVars

-----------------------------------------------------------------------------
(* Each layer's versions are numbered one by one, whoever publishes at the *)
(* same time: "the settings in force" never depend on row order.           *)
OneVersionEach ==
    \A l \in Layers :
        /\ {r.version : r \in History(l)} = 1..Cardinality(History(l))

(* The trail tells what really changed: an entry's before is the version   *)
(* its author replaced, and its after is the version that is on file.      *)
AuditIsTrue ==
    \A entry \in audit :
        /\ \E r \in History(entry.layer) : r.version = entry.version /\ r.values = entry.after
        /\ IF entry.version = 1 THEN entry.before = Nothing
           ELSE \E r \in History(entry.layer) : r.version = entry.version - 1 /\ r.values = entry.before

(* The three together, however publishes, rollbacks and saves interleave.   *)
Inv == SettingsTypeOK /\ OneVersionEach /\ AuditIsTrue

(* Whatever older builds published, every setting of the running one has a *)
(* value it admits, and every override one set where it may be set.        *)
EffectiveIsAllowed ==
    /\ \A k \in DOMAIN registry : Effective[k] \in registry[k].values
    /\ \A l \in Layers : \A k \in DOMAIN Layer(l) : k \in DOMAIN registry /\ l \in registry[k].scopes
=============================================================================
