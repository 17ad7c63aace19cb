-------------------------- MODULE HotReloadAdapter ---------------------------
(***************************************************************************)
(* The schema adapter of the CoP client (output/schema_adapter.py).  Its   *)
(* two files may change between any two of its accesses to them.           *)
(***************************************************************************)
EXTENDS AdaptSchema

CONSTANTS NumberOf,      \* the texts that read as numbers, and these in thousandths
          Failed         \* there is no payload: map raised

VARIABLES
    inner,      \* _inner: the schema and the version and content in force
    lastMtime,  \* _last_mtime
    mtime,      \* current_mtime, of a check that is under way
    read,       \* the schema as a constructor under way has read it
    checked,    \* history: the last check saw the files as they are
    gap         \* history: the time that was noted with another version of the
                \* mapping, or with an older schema; 0 for none

adapter == <<disk, inner, lastMtime, mtime, read, checked, gap>>

\* _TRANSFORMS; a text that is no number (no whole number, for int) or a
\* dictionary cannot become one.
Transforms == {"pass", "upper", "lower", "int", "float", "iso_datetime"}

ToNumber(v, unit) ==
    CASE v.is = "null"   -> v
      [] v.is = "number" -> Number((v.of \div unit) * unit)
      [] v.is = "text" /\ v.of \in DOMAIN NumberOf /\ NumberOf[v.of] % unit = 0 ->
            Number(NumberOf[v.of])
      [] OTHER -> Failed

Transformed(name, v) ==
    CASE name \in {"upper", "lower"} -> IF v.is = "text" THEN [v EXCEPT !.case = name] ELSE v
      [] name = "int"          -> ToNumber(v, 1000)
      [] name = "float"        -> ToNumber(v, 1)
      [] name = "iso_datetime" -> IF v.is = "null" THEN v ELSE Text(v.of)
      [] OTHER -> v

\* _parse_mapping_entry: the short form is the path alone.
TransformOf(entry) == IF "transform" \in DOMAIN entry THEN entry.transform ELSE "pass"
WellFormed(entry)  == entry.source # None /\ TransformOf(entry) \in Transforms

\* The constructor of JsonSchemaAdapter: the entries it keeps, and whether it
\* accepts the mapping.
Normalized(m) == Restrict(m, DOMAIN m \ Notes)
Valid(m, s) ==
    /\ m \notin {Malformed, Unreadable} /\ s # Malformed
    /\ s.properties # {} => DOMAIN Normalized(m) \subseteq s.properties
    /\ \A t \in DOMAIN Normalized(m) : WellFormed(m[t])
    /\ s.required \subseteq DOMAIN Normalized(m)

AdapterInit ==
    /\ FilesInit /\ Valid(file.content, schema)
    /\ inner = [schema |-> schema, version |-> file.version, content |-> file.content]
    /\ lastMtime = 0 /\ mtime = 0 /\ read = Malformed
    /\ checked = FALSE /\ gap = 0

\* The mapping or the schema changes.
Change ==
    /\ EditMapping \/ MakeMapping \/ FillSchema \/ EmptyMapping
         \/ \E later \in BOOLEAN : FillMapping(later)
    /\ checked' = FALSE
    /\ UNCHANGED <<inner, lastMtime, mtime, read, gap>>

\* The constructor of JsonSchemaAdapter reads the schema ...
ReadSchema ==
    /\ read' = schema
    /\ UNCHANGED <<disk, inner, lastMtime, mtime, checked, gap>>

\* ... and then the mapping, when the constructor of HotReloadAdapter calls it ...
ReadMapping ==
    /\ Valid(file.content, read)
    /\ inner' = [schema |-> read, version |-> file.version, content |-> file.content]
    /\ gap' = IF read # schema THEN file.version ELSE 0
    /\ checked' = FALSE /\ read' = Malformed
    /\ UNCHANGED <<disk, lastMtime, mtime>>

\* ... which asks for its modification time last.
NoteMtime ==
    /\ lastMtime' = file.version
    /\ gap' = IF inner.version # file.version THEN file.version ELSE gap
    /\ UNCHANGED <<disk, inner, mtime, read, checked>>

\* _maybe_reload once the interval has passed: the modification time ...
CheckMtime == mtime' = file.version /\ UNCHANGED <<disk, inner, lastMtime, read, checked, gap>>

\* Fault: only a file that is newer counts as changed.
ChangedIfNewer == mtime > lastMtime

Changed == mtime # lastMtime

\* ... and, when it differs, the schema and the mapping, which may have changed
\* again.  An invalid one is kept out, and looked at again at the next check.
Reload ==
    /\ IF Changed /\ Valid(file.content, read)
       THEN /\ inner' = [schema |-> read, version |-> file.version, content |-> file.content]
            /\ lastMtime' = mtime
            /\ gap' = IF mtime # file.version THEN mtime ELSE 0
       ELSE UNCHANGED <<inner, lastMtime, gap>>
    /\ checked' = (mtime = file.version /\ (Changed => read = schema))
    /\ read' = Malformed
    /\ UNCHANGED <<disk, mtime>>

\* The reload of a file that cannot be opened: its error leaves map.  A malformed
\* schema is found before.
Blocked == Changed /\ read # Malformed /\ file.content = Unreadable

\* _resolve_source: Null wherever the path leads out of the record.
ResolveSource(record, path) ==
    FoldLeft(LAMBDA v, part :
               IF v.is = "dict" /\ part \in DOMAIN v.of THEN v.of[part] ELSE Null,
             Dict(record), path)

\* map, with this schema and mapping in force.  A required field is sent even when there is
\* no value for it.
Payload(force, record) ==
    LET mapping  == Normalized(force.content)
        value(t) == ResolveSource(record, mapping[t].source)
        sent     == {t \in DOMAIN mapping : value(t) # Null \/ t \in force.schema.required}
        payload  == [t \in sent |-> Transformed(TransformOf(mapping[t]), value(t))]
    IN  IF Failed \in Range(payload) THEN Failed ELSE payload
==============================================================================
