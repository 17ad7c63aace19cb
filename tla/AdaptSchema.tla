----------------------------- MODULE AdaptSchema ------------------------------
(***************************************************************************)
(* The two files the schema adapter reads, the schema of the CoP and the   *)
(* mapping of records onto it, and who writes them while the pipeline      *)
(* runs: an operator with an editor, and the tool that makes both from the *)
(* database that is handed over (cli/adapt_schema.py).                     *)
(*                                                                         *)
(* A source is [is, tables], a table the sequence of its columns           *)
(* [name, lower, notnull, pk], lower being the name in lower case.  A      *)
(* mapping gives a target the path of the record's field it is taken from  *)
(* and, if not as it is, a transform.  A version stands for a file's       *)
(* modification time.                                                      *)
(***************************************************************************)
EXTENDS CoPRecords, Integers

CONSTANTS FirstSchema,   \* the schema at first, [properties, required]
          FirstMapping,  \* and the mapping
          Mappings,      \* bound: mappings an operator writes
          Notes,         \* targets that are notes (they begin with an underscore)
          Malformed,     \* a file that is not a JSON object, or is gone
          Unreadable,    \* a file that cannot be opened
          Handovers,     \* what may be handed over
          Proposals,     \* mappings the model may propose
          MaxEdits       \* bound: changes of the mapping file

ASSUME FilesAssumption ==
    /\ MaxEdits \in Nat /\ "_description" \in Notes
    /\ Malformed \notin Mappings \cup Proposals /\ Unreadable \notin Mappings \cup Proposals
    /\ FirstMapping \in Mappings /\ Malformed # FirstSchema

VARIABLES
    file,       \* the mapping file: its version and content
    schema,     \* the schema file
    backup,     \* the mapping file the operator started with and may put back
    versions,   \* how many versions there have been
    writing,    \* where the tool is
    made        \* the schema and the mapping it writes

disk == <<file, schema, backup, versions, writing, made>>

-----------------------------------------------------------------------------
\* What the tool makes.

\* ingest_sqlite, ingest_excel, ingest_database: a sheet has only names (and one
\* without a row is passed over); reflecting a primary key raises.
Bare(table) == [k \in DOMAIN table |-> [table[k] EXCEPT !.notnull = FALSE, !.pk = FALSE]]
Ingest(source) ==
    CASE source.is = "sqlite" -> source.tables
      [] source.is \in {"excel", "csv"} ->
            LET filled == SelectSeq(source.tables, LAMBDA t : t # <<>>)
            IN  [k \in DOMAIN filled |-> Bare(filled[k])]
      [] source.is = "database" /\ ~\E t \in Range(source.tables) : \E c \in Range(t) : c.pk ->
            source.tables
      [] OTHER -> <<>>

\* common_mappings.
From(path) == [source |-> path]
CommonMappings ==
    [id            |-> From(<<"track", "track_id">>),
     track_id      |-> From(<<"track", "track_id">>),
     track_number  |-> From(<<"track", "track_number">>),
     callsign      |-> From(<<"track", "callsign">>),
     platform      |-> From(<<"track", "platform_type">>),
     platform_type |-> From(<<"track", "platform_type">>),
     affiliation   |-> From(<<"track", "affiliation">>),
     latitude      |-> From(<<"track", "position", "latitude">>),
     longitude     |-> From(<<"track", "position", "longitude">>),
     altitude      |-> From(<<"track", "position", "altitude_m">>),
     status        |-> From(<<"track", "operational_status">>),
     confidence    |-> From(<<"extraction_confidence">>),
     source        |-> From(<<"source_channel">>),
     timestamp     |-> [source |-> <<"timestamp">>, transform |-> "iso_datetime"],
     message       |-> From(<<"source_message">>)]

\* generate_template_mapping: a target for every column of every table.
Columns(tables) == UNION {Range(t) : t \in Range(tables)}
EntryFor(c) == IF c.lower \in DOMAIN CommonMappings THEN CommonMappings[c.lower]
               ELSE From(<<"track", "metadata", c.name>>)
TemplateMapping(tables) ==
    LET named(n) == CHOOSE c \in Columns(tables) : c.name = n
    IN  [n \in {c.name : c \in Columns(tables)} |-> EntryFor(named(n))]
          @@ ("_description" :> From(None))

\* _generate_target_json_schema: the first of the tables with most columns.
Largest(tables) ==
    LET widest == {k \in DOMAIN tables : \A j \in DOMAIN tables : Len(tables[j]) <= Len(tables[k])}
    IN  tables[CHOOSE k \in widest : \A j \in widest : k <= j]
TargetSchema(tables) ==
    LET columns == Range(Largest(tables))
    IN  [properties |-> {c.name : c \in columns},
         required   |-> {c.name : c \in {d \in columns : d.notnull \/ d.pk}}]

-----------------------------------------------------------------------------
\* The writers.

FilesInit ==
    /\ schema = FirstSchema /\ versions = 1
    /\ file = [version |-> 1, content |-> FirstMapping]
    /\ backup = file /\ writing = "nothing" /\ made = [schema |-> Malformed, mapping |-> Malformed]

\* The operator writes a new version of the mapping, or puts the old one back.
EditMapping ==
    /\ writing # "emptied"
    /\ \/ /\ versions <= MaxEdits
          /\ \E m \in (Mappings \cup {Malformed, Unreadable}) \ {file.content} :
                file' = [version |-> versions + 1, content |-> m]
          /\ versions' = versions + 1
       \/ /\ file # backup
          /\ file' = backup /\ versions' = versions
    /\ UNCHANGED <<schema, backup, writing, made>>

\* main, up to the confirmation, which opens the schema file for writing: the
\* model's proposal or, without a model or when its answer is of no use, the
\* template.  Each file is empty before it is filled.
MakeMapping ==
    /\ writing = "nothing" /\ versions <= MaxEdits
    /\ \E source \in Handovers :
          LET tables == Ingest(source)
          IN  /\ tables # <<>>
              /\ \E m \in Proposals \cup {TemplateMapping(tables)} :
                    made' = [schema |-> TargetSchema(tables), mapping |-> m]
    /\ schema' = Malformed /\ writing' = "schema"
    /\ UNCHANGED <<file, backup, versions>>

FillSchema ==
    /\ writing = "schema" /\ writing' = "mapping"
    /\ schema' = made.schema
    /\ UNCHANGED <<file, backup, versions, made>>

EmptyMapping ==
    /\ writing = "mapping" /\ writing' = "emptied"
    /\ file' = [version |-> versions + 1, content |-> Malformed] /\ versions' = versions + 1
    /\ UNCHANGED <<schema, backup, made>>

\* Within the resolution of the clock, or later.
FillMapping(later) ==
    /\ writing = "emptied" /\ writing' = "done"
    /\ versions' = IF later THEN versions + 1 ELSE versions
    /\ file' = [version |-> versions', content |-> made.mapping]
    /\ UNCHANGED <<schema, backup, made>>
==============================================================================
