----------------------------- MODULE MCPipeline ------------------------------
(* Instances of Pipeline for TLC. *)
EXTENDS Pipeline

CONSTANTS t1, t2, red, blue, stt, other, ann, bob, op, dead, north, west, far

E0 == [f \in EntityFields |-> None]
Seen(t)      == ParseBullseye([E0 EXCEPT !.track = t, !.latitude = north,
                                         !.bearing = [text |-> TRUE, parts |-> <<west, far>>]])
State(t, s)  == [E0 EXCEPT !.track = t, !.status = s]
Called(c, s) == [E0 EXCEPT !.callsign = c, !.status = s]

Make(s, kind, conf, suspect, es) ==
    [speaker |-> s, kind |-> kind, conf |-> conf, suspect |-> suspect, entities |-> es]

\* Agreement and contradiction about one entity, on one channel and on two; a
\* second entity; reports without an entity; noise, and what is handed on for a shed channel.
Intact  == Make(ann, "status", 950, FALSE, <<State(t1, op)>>)
Lost    == Make(bob, "status", 1000, FALSE, <<State(t1, dead)>>)
Two     == Make(bob, "tasking", 900, FALSE, <<Seen(t1), Called(t2, dead)>>)
Spoken  == Make(ann, "weapons", 800, TRUE, <<>>)
Chatter == Make(ann, "none", 900, FALSE, <<>>)
Shed    == Make(ann, "none", 0, FALSE, <<>>)

Line(clock, c, what) == [form |-> "combined", clock |-> clock, channel |-> c, what |-> what]
Plain(clock, what)   == [form |-> "plain", clock |-> clock, channel |-> None, what |-> what]
Junk                 == [form |-> "blank", clock |-> 0, channel |-> None, what |-> Chatter]

Name(kind, c) == [matches |-> TRUE, channel |-> c, stem |-> other, kind |-> kind]
Log_(kind, c, lines) == [name |-> Name(kind, c), lines |-> lines]
NoParts == <<None>>

\* One window of 30 and what follows it; a report that comes late.
Live == <<Line(0, red, Intact), Line(20, blue, Lost), Line(25, red, Two), Line(60, stt, Spoken)>>
Late == <<Line(20, red, Intact), Line(30, red, Two), Line(0, blue, Lost), Line(45, stt, Chatter)>>
LiveFeed(lines) == [mode |-> "live", log |-> ParseLines(lines, other, DefaultDay)]
Replay(path)    == [mode |-> "replay", path |-> path]

\* Two reports that disagree after one of the speakers has been confirmed.
OneFile ==
    [is |-> "file", parts |-> <<None, 2>>,
     file |-> Log_("log", red, <<Plain(0, Intact), Line(20, blue, Lost), Junk, Line(25, stt, Shed),
                                 Line(60, blue, Lost), Plain(70, Intact)>>)]

\* The late report again, now in an archive; with a combined log beside another.
Combined ==
    [is |-> "zip", parts |-> NoParts,
     files |-> <<Log_("log", red, <<Plain(5, Lost)>>), Log_("combined", other, Late)>>]

\* Logs by channel, one of them over midnight; the same report twice.
Directory ==
    [is |-> "dir", texts |-> <<>>, logs |-> <<>>,
     zips |-> <<[is |-> "zip", parts |-> NoParts,
                 files |-> <<Log_("log", red, <<Plain(86390, Two), Plain(10, Two)>>),
                             Log_("other", red, <<Plain(5, Lost)>>),
                             Log_("log", stt, <<Plain(15, Spoken)>>)>>]>>]
Folder ==
    [is |-> "dir", zips |-> <<>>,
     texts |-> <<[parts |-> NoParts,
                 file |-> [name |-> [Name("other", red) EXCEPT !.matches = FALSE],
                           lines |-> <<Plain(20, Two), Plain(0, Two)>>]]>>,
     logs  |-> <<[parts |-> NoParts, file |-> Log_("log", stt, <<Plain(25, Spoken)>>)]>>]

MCFeeds == {LiveFeed(Live), LiveFeed(Late)}
             \cup {Replay(p) : p \in {OneFile, Combined, Directory, Folder, [is |-> "missing"]}}

\* Complete, with fields that a record may lack; complete, with a transform that
\* fails on a name; one with a bad entry and no required field.
MCMappings ==
    {("id" :> [source |-> <<"track", "track_id">>, transform |-> "upper"])
       @@ ("level" :> [source |-> <<"track", "position", "range_nm">>, transform |-> "float"])
       @@ ("_description" :> [source |-> None]),
     ("id" :> [source |-> <<"battle_effect", "target_track_number">>, transform |-> "iso_datetime"])
       @@ ("level" :> [source |-> <<"source_speaker">>, transform |-> "int"]),
     ("level" :> [source |-> <<"review_flag">>, transform |-> "sixfold"])}
MCFirstMapping ==
    CHOOSE m \in MCMappings : "id" \in DOMAIN m /\ "_description" \in DOMAIN m
MCFirstSchema == [properties |-> {"id", "level"}, required |-> {"id"}]

\* A database of two tables, and the same one reflected, which fails on its key.
Column(n, l, nn, pk) == [name |-> n, lower |-> l, notnull |-> nn, pk |-> pk]
Key    == Column("Id", "id", FALSE, TRUE)
Tracks == <<Key, Column("notes", "notes", TRUE, FALSE),
            Column("confidence", "confidence", FALSE, FALSE)>>
MCHandovers == {[is |-> "sqlite", tables |-> <<<<Key>>, Tracks>>],
                [is |-> "database", tables |-> <<<<Key>>, Tracks>>]}
MCProposals == {"Id" :> [source |-> <<"track", "callsign">>]}

MCEffectOf == [k \in {"weapons", "tasking"} |-> "strike"]
MCNumberOf == far :> 405000
=============================================================================
