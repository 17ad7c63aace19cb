------------------------------ MODULE CoPUpdate ------------------------------
(***************************************************************************)
(* The records that go through the pipeline (models/cop_update.py).        *)
(*                                                                         *)
(* An update is [from, ts, channel, speaker, kind, conf, suspect,          *)
(* entities]: from is the sequence of reports it stands for, its own and   *)
(* those merged into it (context_messages); conf is in thousandths;        *)
(* suspect says that detect_injection matches its text.  An entity has the *)
(* fields below, None for one without a value; task is the task_uid among  *)
(* its metadata.                                                           *)
(***************************************************************************)
EXTENDS Naturals, Sequences

CONSTANTS Channels, Speakers,
          Kinds,      \* UpdateType, "none" included
          None        \* a field without a value

ASSUME KindsAssumption == "none" \in Kinds

EntityFields == {"track", "callsign", "affiliation", "status", "latitude", "bearing",
                 "range", "speed", "task"}

IsEntity(e) == DOMAIN e = EntityFields
IsUpdate(u) ==
    /\ DOMAIN u = {"from", "ts", "channel", "speaker", "kind", "conf", "suspect", "entities"}
    /\ u.ts \in Nat /\ u.channel \in Channels /\ u.speaker \in Speakers
    /\ u.kind \in Kinds /\ u.conf \in 0 .. 1000 /\ u.suspect \in BOOLEAN
    /\ u.entities \in Seq({u.entities[k] : k \in DOMAIN u.entities})
    /\ \A k \in DOMAIN u.entities : IsEntity(u.entities[k])

\* parse_bullseye_bearing, on an entity whose bearing is as the model wrote it: None
\* or [text, parts], the parts of a text that are no numbers being None.
ParseBullseye(e) ==
    IF e.bearing = None THEN e
    ELSE LET parts == e.bearing.parts
             range == IF e.bearing.text /\ Len(parts) = 2 /\ parts[1] # None
                      THEN parts[2] ELSE None
         IN  [e EXCEPT !.bearing = parts[1], !.range = IF @ = None THEN range ELSE @]

\* An entity one can refer to.
Named(e) == e.track # None \/ e.callsign # None
==============================================================================
