------------------------------ MODULE CoPRecords ------------------------------
(***************************************************************************)
(* The records an update is sent as, and their form on the wire            *)
(* (output/cop_schema.py).  A value is a dictionary, a text, a number (in  *)
(* thousandths) or Null.  Fields that are copied as they are appear only   *)
(* where a decision or a key depends on them.                              *)
(***************************************************************************)
EXTENDS CoPUpdate, SequencesExt

CONSTANTS AutoThreshold, FlagThreshold, HighRiskKinds,   \* of CoPWriterConfig
          BattleKinds,     \* _BATTLE_EFFECT_TYPES
          EffectOf,        \* _UPDATE_TYPE_TO_EFFECT
          Affiliations,    \* members of Affiliation, and of OperationalStatus
          Statuses,
          Unknown,         \* the member for a text that is none of the others
          Fresh            \* an identifier made up for the record (uuid4)

ASSUME RecordsAssumption ==
    /\ AutoThreshold \in 0 .. 1000 /\ FlagThreshold \in 0 .. 1000
    /\ HighRiskKinds \subseteq Kinds
    /\ BattleKinds \subseteq Kinds /\ DOMAIN EffectOf = BattleKinds

Null      == [is |-> "null"]
Dict(f)   == [is |-> "dict", of |-> f]
Number(n) == [is |-> "number", of |-> n]
Text(x)   == IF x = None THEN Null ELSE [is |-> "text", of |-> x, case |-> "given"]

\* classify_write_authority, and why an operator should look at it.
TierOf(u) ==
    IF u.conf < FlagThreshold \/ u.kind \in HighRiskKinds THEN "human"
    ELSE IF u.conf < AutoThreshold THEN "flagged" ELSE "auto"

ReviewFlag(u) ==
    CASE u.conf < FlagThreshold    -> Text("low confidence")
      [] u.kind \in HighRiskKinds  -> Text("high-risk type")
      [] u.conf < AutoThreshold    -> Text("confidence")
      [] OTHER                     -> Null

\* An entity's position and speed, if it has any part of them.
BuildPosition(e) ==
    IF {e.latitude, e.bearing, e.range} = {None} THEN Null
    ELSE Dict([latitude |-> Text(e.latitude), bearing_deg |-> Text(e.bearing),
               range_nm |-> Text(e.range)])
BuildVelocity(e) ==
    IF e.speed = None THEN Null ELSE Dict([speed_kts |-> Text(e.speed)])

TrackId(e) == IF e.track # None THEN e.track
              ELSE IF e.callsign # None THEN e.callsign ELSE Fresh

Member(x, members) == IF x \in members THEN Text(x) ELSE Text(Unknown)

\* _entity_to_track.
Track(e, u) ==
    Dict([track_id |-> Text(TrackId(e)), callsign |-> Text(e.callsign),
          affiliation |-> Member(e.affiliation, Affiliations),
          operational_status |-> Member(e.status, Statuses),
          position |-> BuildPosition(e), velocity |-> BuildVelocity(e),
          source |-> Text(u.channel)])

\* _entity_to_battle_effect.
BattleEffect(e, u) ==
    Dict([effect_id |-> Text(IF e.task # None THEN e.task ELSE Fresh),
          effect_type |-> Text(EffectOf[u.kind]),
          target_track_number |-> Text(e.track), shooter_callsign |-> Text(e.callsign),
          position |-> BuildPosition(e), source_channel |-> Text(u.channel)])

Record(type, track, effect, u) ==
    [record_type |-> Text(type), track |-> track, battle_effect |-> effect,
     write_authority |-> Text(TierOf(u)), extraction_confidence |-> Number(u.conf),
     source_channel |-> Text(u.channel), source_speaker |-> Text(u.speaker),
     review_flag |-> ReviewFlag(u)]

\* cop_update_to_records: a track for each entity, with the effect on it for the
\* types that have one; a track without an entity for an update without any.
RecordsOf(u) ==
    IF u.entities = <<>>
    THEN <<Record("track", Dict([track_id |-> Text(u.kind), source |-> Text(u.channel)]), Null, u)>>
    ELSE FlattenSeq([k \in DOMAIN u.entities |->
           LET e == u.entities[k]
           IN  <<Record("track", Track(e, u), Null, u)>>
                 \o (IF u.kind \in BattleKinds
                     THEN <<Record("battle_effect", Null, BattleEffect(e, u), u)>>
                     ELSE <<>>)])
==============================================================================
