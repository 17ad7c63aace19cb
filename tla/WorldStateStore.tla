--------------------------- MODULE WorldStateStore ---------------------------
(***************************************************************************)
(* The SQLite store (output/store.py): its tables, and the statements that *)
(* change them, each with the commit that follows it.  A row's number is   *)
(* its position in the table.  Two processes use it: the pipeline writes   *)
(* messages, updates and entities; the operators' API writes corrections   *)
(* and overrides.                                                          *)
(***************************************************************************)
EXTENDS CoPUpdate, Integers, SequencesExt, FiniteSetsExt

VARIABLES
    audit,        \* audit_log: the messages, by their identity
    rows,         \* updates
    entities,     \* entities: a function of entity_key
    corrections,  \* corrections: of which update
    overrides     \* overrides: of which update, and its data at that time

tables    == <<audit, rows, entities, corrections, overrides>>
judgements == <<corrections, overrides>>

StoreInit ==
    /\ audit = <<>> /\ rows = <<>> /\ entities = <<>>
    /\ corrections = <<>> /\ overrides = <<>>

\* write_audit.
WriteAudit(m) == audit' = Append(audit, m) /\ UNCHANGED <<rows, entities, judgements>>

\* The first half of write_update: the row.
InsertRow(u) == rows' = Append(rows, u) /\ UNCHANGED <<audit, entities, judgements>>

\* The columns of an entity that a report may leave open.
Fields == {"track", "callsign", "affiliation", "status", "latitude"}

StoreKey(e) == IF e.track # None THEN e.track ELSE e.callsign
Coalesce(new, old) == IF new # None THEN new ELSE old

\* The table of entities with that row for a key.
With(key, row) == [k \in DOMAIN entities \union {key} |->
                     IF k = key THEN row ELSE entities[k]]

\* Fault: a field that the new report leaves open is cleared.
UpsertOverwrites(e, ts) ==
    /\ entities' = IF Named(e)
                   THEN With(StoreKey(e), [data |-> Restrict(e, Fields), updated |-> ts])
                   ELSE entities
    /\ UNCHANGED <<audit, rows, judgements>>

\* _upsert_entity: INSERT, or UPDATE of the fields the report gives.
UpsertEntity(e, ts) ==
    LET key   == StoreKey(e)
        known == key \in DOMAIN entities
        data  == IF known THEN [f \in Fields |-> Coalesce(e[f], entities[key].data[f])]
                 ELSE Restrict(e, Fields)
    IN  /\ entities' = IF Named(e) THEN With(key, [data |-> data, updated |-> ts])
                       ELSE entities
        /\ UNCHANGED <<audit, rows, judgements>>

\* write_correction and record_override: an update that does not exist is
\* refused (ValueError, a 404 to the operator).
WriteCorrection(id) ==
    /\ id \in DOMAIN rows
    /\ corrections' = Append(corrections, [update |-> id])
    /\ UNCHANGED <<audit, rows, entities, overrides>>

RecordOverride(id) ==
    /\ id \in DOMAIN rows
    /\ overrides' = Append(overrides, [update |-> id, original |-> rows[id]])
    /\ UNCHANGED <<audit, rows, entities, corrections>>

\* override_stats and correction_stats: the total, and the counts after the
\* join with the updates.
Joined(list) == {j \in DOMAIN list : list[j].update \in DOMAIN rows}
Stats(list) ==
    [total      |-> Len(list),
     by_channel |-> [c \in Channels |->
        Cardinality({j \in Joined(list) : rows[list[j].update].channel = c})],
     by_speaker |-> [s \in Speakers |->
        Cardinality({j \in Joined(list) : rows[list[j].update].speaker = s})]]

\* analyze, of scripts/analyze_overrides.py: for each speaker, type or channel with
\* overrides, how many of its updates were overridden, each counted once.
Overridden == {overrides[j].update : j \in Joined(overrides)}
AnalysisBy(group) ==
    [g \in {rows[r][group] : r \in Overridden} |->
        [overridden |-> Cardinality({r \in Overridden : rows[r][group] = g}),
         total      |-> Cardinality({r \in DOMAIN rows : rows[r][group] = g})]]
Analyze ==
    [total_updates |-> Len(rows), total_overrides |-> Len(overrides),
     by_speaker |-> AnalysisBy("speaker"), by_type |-> AnalysisBy("kind"),
     by_channel |-> AnalysisBy("channel")]
==============================================================================
