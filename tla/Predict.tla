------------------------------- MODULE Predict --------------------------------
(***************************************************************************)
(* The predictions of crates/plsql-cicd/src/predict.rs: the rule table     *)
(* over the changed objects, the merge of what impact() found, the         *)
(* posture of crates/plsql-core, the plan of plan.rs and the gate of       *)
(* gate.rs.                                                                *)
(*                                                                         *)
(* A name stands for an owner and a name.  Of a row are left its key, its  *)
(* confidence and its distance; of an uncertainty its reason and what it   *)
(* is about; the final sort changes neither.                               *)
(***************************************************************************)
EXTENDS DepGraph, Sequences, FiniteSets

VARIABLES
    direct,      \* predicted_invalidations, as predict() leaves them
    lineage,     \* lineage_rows: the rows predict_with_lineage() adds
    recompile,   \* recompile_rows: the keys to recompile
    unc,         \* uncertainties
    posture      \* completeness.posture

predictVars == <<direct, lineage, recompile, unc, posture>>

(* The rules that emit a row, by the kind of change: its object_type.      *)
(* "OTHER" is the type an OtherKnownKind carries.                          *)
RowType ==
    [PackageSpec |-> "PACKAGE", StandaloneRoutineSignature |-> "ROUTINE",
     TableAdditiveDdl |-> "TABLE", TableDestructiveDdl |-> "TABLE",
     TypeEvolution |-> "TYPE", SynonymRetargeting |-> "SYNONYM",
     GrantOrRevoke |-> "PRIVILEGE", EditionedObjectChange |-> "EDITIONED",
     MaterializedViewRefreshAffecting |-> "MATERIALIZED_VIEW",
     ViewDefinitionChange |-> "VIEW", TriggerChange |-> "TRIGGER",
     OtherKnownKind |-> "OTHER"]

(* The rules that emit an uncertainty instead: its reason.                 *)
RuleDoubt ==
    [PackageBody |-> "ConditionalCompilationBranch",
     IndexChange |-> "MissingCatalogObject", SequenceChange |-> "MissingCatalogObject",
     Unclassified |-> "ParserRecoveryRegion"]

(* StandaloneRoutineBody has neither.                                      *)
Kind == DOMAIN RowType \cup DOMAIN RuleDoubt \cup {"StandaloneRoutineBody"}

Reason == {"DynamicSqlOpaque", "DbLinkRemoteObject", "WrappedSource",
           "MissingCatalogObject", "MissingPackageBody",
           "ConditionalCompilationBranch", "ParserRecoveryRegion"}

Mode == {"SourceOnly", "CatalogAware", "LiveSnapshot"}

Posture == {"Clean", "Partial", "LowConfidence", "Degraded"}

(* A changed object; doubts are its own uncertainties.                     *)
Change == [name : Object, kind : Kind, doubts : Seq(Reason)]

Type == {RowType[k] : k \in DOMAIN RowType} \cup {"PACKAGE BODY"}

Key == [name : Object, type : Type]

Row == [key : Key, conf : Level, distance : Nat]

Doubt == [reason : Reason, about : Object]

KeysOf(rows) == {rows[i].key : i \in DOMAIN rows}

-----------------------------------------------------------------------------
(* completeness.finalize_posture(), for a prediction: it has no files.     *)
PostureOf(objects, unrecognized, diagnostics) ==
    LET extracted == objects - unrecognized
        doubtful  == \/ unrecognized > 0
                     \/ 100 * extracted < 85 * objects
                     \/ 2 * diagnostics >= objects
    IN IF objects = 0 THEN "Clean"
       ELSE IF 10 * extracted < objects THEN "Degraded"
       ELSE IF doubtful THEN "LowConfidence"
       ELSE IF diagnostics > 0 THEN "Partial" ELSE "Clean"

Unrecognized(changes) ==
    Cardinality({i \in DOMAIN changes : changes[i].doubts # <<>>})

PredictParked ==
    /\ direct = <<>>
    /\ lineage = <<>>
    /\ recompile = {}
    /\ unc = <<>>
    /\ posture = "Degraded"

(* apply_oracle_invalidation_rules()                                       *)
RuleConf(kind, mode) ==
    IF kind = "OtherKnownKind" \/ mode = "SourceOnly" THEN Low ELSE High

RuleRows(c, mode) ==
    IF c.kind \in DOMAIN RowType
    THEN <<[key |-> [name |-> c.name, type |-> RowType[c.kind]],
            conf |-> RuleConf(c.kind, mode), distance |-> 1]>>
    ELSE <<>>

RuleDoubts(c) ==
    IF c.kind \in DOMAIN RuleDoubt
    THEN <<[reason |-> RuleDoubt[c.kind], about |-> c.name]>>
    ELSE <<>>

ModeDoubts(c, mode) ==
    IF mode = "SourceOnly" /\ direct' # <<>>
    THEN <<[reason |-> "MissingCatalogObject", about |-> c.name]>>
    ELSE <<>>

OwnDoubts(c) ==
    [i \in DOMAIN c.doubts |-> [reason |-> c.doubts[i], about |-> c.name]]

(* for object in &changeset.objects                                        *)
PredictObject(c, mode) ==
    /\ direct' = direct \o RuleRows(c, mode)
    /\ unc' = unc \o RuleDoubts(c) \o ModeDoubts(c, mode) \o OwnDoubts(c)
    /\ UNCHANGED <<lineage, recompile, posture>>

Finish(changes) ==
    /\ UNCHANGED <<direct, lineage, recompile, unc>>
    /\ posture' = PostureOf(Len(changes), Unrecognized(changes), Len(unc))

-----------------------------------------------------------------------------
(* predict_with_lineage()                                                  *)
LevelOf(conf) ==
    CASE conf = Exact     -> High
      [] conf = Heuristic -> Medium
      [] conf = Unknown   -> Opaque

(* prediction_row_is_stronger()                                            *)
StrongerBug(a, b) ==
    a.conf > b.conf \/ (a.conf = b.conf /\ a.distance < b.distance)

Stronger(a, b) ==
    a.distance < b.distance \/ (a.distance = b.distance /\ a.conf > b.conf)

Keep(row) ==
    lineage' = [k \in DOMAIN lineage \cup {row.key} |->
                   IF k = row.key /\ (k \in DOMAIN lineage => Stronger(row, lineage[k]))
                   THEN row ELSE lineage[k]]

(* for node in &impact.affected_nodes, with the key its metadata gives it  *)
UnresolvedBug(x) == UNCHANGED predictVars

Unresolved(x) ==
    /\ unc' = Append(unc, [reason |-> "MissingCatalogObject", about |-> x.object])
    /\ UNCHANGED <<direct, lineage, recompile, posture>>

ResolvedBug(x, key) ==
    /\ IF key \in KeysOf(direct)
       THEN UNCHANGED lineage
       ELSE Keep([key |-> key, conf |-> LevelOf(x.conf), distance |-> x.hops])
    /\ recompile' = recompile \cup {key}
    /\ UNCHANGED <<direct, unc, posture>>

Resolved(x, key) ==
    /\ IF key \in KeysOf(direct)
       THEN UNCHANGED <<lineage, recompile>>
       ELSE /\ Keep([key |-> key, conf |-> LevelOf(x.conf), distance |-> x.hops])
            /\ recompile' = recompile \cup {key}
    /\ UNCHANGED <<direct, unc, posture>>

(* A node comes before another by confidence, then by hops.                *)
Before(x, y) == x.conf > y.conf \/ (x.conf = y.conf /\ x.hops < y.hops)

(* for unknown in &impact.unknown_edges                                    *)
MergeEdge(e, why) ==
    /\ unc' = Append(unc, [reason |-> why, about |-> e.from])
    /\ UNCHANGED <<direct, lineage, recompile, posture>>

(* What the prediction lists in the end.                                   *)
AllKeys == KeysOf(direct) \cup DOMAIN lineage

RowCount == Len(direct) + Cardinality(DOMAIN lineage)

Levels == {direct[i].conf : i \in DOMAIN direct}
          \cup {lineage[k].conf : k \in DOMAIN lineage}

-----------------------------------------------------------------------------
(* plan_changeset().  Left out are the order of the statements and that    *)
(* two objects of one name have one each.                                  *)
Statement == [kind : {"Ddl", "Recompile"}, name : Object]

StatementsFor(changes) ==
    LET emitted == {changes[i].name : i \in DOMAIN changes}
    IN {[kind |-> "Ddl", name |-> n] : n \in emitted}
       \cup {[kind |-> "Recompile", name |-> k.name] :
               k \in {r \in recompile : r.name \notin emitted}}

(* run_gate(): the rules that fail.  A policy that has no cap, no floor    *)
(* or no blocked kinds has None, Opaque or {} there.                       *)
Policy == [cap : Nat \cup {None}, kinds : SUBSET Type, floor : Level,
           reasons : SUBSET Reason]

Failures(p) ==
    {r \in {"cap", "kind", "floor", "reason"} :
       \/ r = "cap" /\ p.cap # None /\ RowCount > p.cap
       \/ r = "kind" /\ \E k \in AllKeys : k.type \in p.kinds
       \/ r = "floor" /\ \E l \in Levels : l < p.floor
       \/ r = "reason" /\ \E i \in DOMAIN unc : unc[i].reason \in p.reasons}

-----------------------------------------------------------------------------
PredictTypeOK ==
    /\ direct \in Seq(Row)
    /\ DOMAIN lineage \subseteq Key
    /\ \A k \in DOMAIN lineage : lineage[k] \in Row /\ lineage[k].key = k
    /\ recompile = DOMAIN lineage
    /\ unc \in Seq(Doubt)
    /\ posture \in Posture
=============================================================================
