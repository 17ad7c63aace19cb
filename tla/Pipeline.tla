------------------------------ MODULE Pipeline -------------------------------
(***************************************************************************)
(* The loop of run_replay (replay.py): read, audit, route, fuse every      *)
(* Batch messages, store, push to the CoP.  It composes the recorded chat, *)
(* the fusion agent, the store, the records of an update and the schema    *)
(* adapter.  The supervisor and the agents appear as what they return for  *)
(* a message, none or one update; the CoP writer as the payloads it sends. *)
(* A check of the mapping file falls on the first record of an update.     *)
(*                                                                         *)
(* The process may die between any two steps (a crash, or an error of the  *)
(* store, which nothing catches); a live one is started again and goes on  *)
(* with the feed.  Operators edit the mapping file and judge updates at    *)
(* any time.                                                               *)
(***************************************************************************)
EXTENDS FusionAgent, WorldStateStore, HotReloadAdapter, ChatLogs

CONSTANTS Feeds,           \* what the source may be: live messages or a path
          Batch,           \* messages between two fusions (5)
          MaxDisturbances  \* bound: fusions that raise, deaths of the process,
                           \* judgements, and changes of the schema and mapping

\* A message is what the agents make of it: an update without from.  One of kind
\* "none" without confidence and entities is handed on for the message of a channel
\* that is shed, or whose agent failed; for any other of that kind they return nothing.
Report(l, n) ==
    [x \in DOMAIN l[n] \union {"from"} |-> IF x = "from" THEN <<n>> ELSE l[n][x]]

\* The messages of the live feed, or those of the path.
Log(f) == IF f.mode = "live" THEN f.log ELSE ParsePath(f.path)

ASSUME PipelineAssumption ==
    /\ \A f \in Feeds : /\ f.mode \in {"live", "replay"}
                         /\ Log(f) \in Seq(Range(Log(f)))
                         /\ \A n \in DOMAIN Log(f) : IsUpdate(Report(Log(f), n))
    /\ Batch \in Nat \ {0} /\ MaxDisturbances \in Nat

VARIABLES
    mode,      \* the source: the "live" feed, or a "replay"
    log,       \* the messages it has
    source,    \* what it has still to give: positions in log
    pc,        \* where the loop is
    total,     \* total_messages
    pending,   \* pending_updates
    out,       \* the fused updates that are still to be written
    at,        \* the entity of the first of them that is written next
    pushed,    \* history: what was pushed: the row, its tier and what was sent
    written,   \* history: for each row, how many of its entities were written
    lost,      \* history: reports that were in memory when the process died
    failures, deaths

loop    == <<pc, total, pending, out, at>>
history == <<pushed, written, lost>>
vars    == <<mode, log, source, loop, history, failures, deaths, fusion, tables, adapter>>

Places == {"boot", "building", "built", "ready", "routing", "row", "entities", "push",
           "check", "reload", "done"}

Init ==
    /\ \E f \in Feeds : mode = f.mode /\ log = Log(f)
    /\ source = [n \in DOMAIN log |-> n]
    /\ pc = "boot" /\ total = 0 /\ pending = <<>> /\ out = <<>> /\ at = 1
    /\ pushed = <<>> /\ written = <<>> /\ lost = {} /\ failures = 0 /\ deaths = 0
    /\ FusionInit /\ StoreInit /\ AdapterInit

-----------------------------------------------------------------------------
\* Building the components, the adapter among them.

Boot ==
    /\ \/ pc = "boot" /\ ReadSchema /\ pc' = "building"
       \/ pc = "building" /\ ReadMapping /\ pc' = "built"
    /\ UNCHANGED <<mode, log, source, total, pending, out, at, history, failures,
                   deaths, fusion, tables>>

\* The files are refused: the program ends, and is started again some time.
BootFails ==
    /\ pc = "building" /\ ~Valid(file.content, read) /\ pc' = "boot"
    /\ UNCHANGED <<mode, log, source, total, pending, out, at, history, failures,
                   deaths, fusion, tables, adapter>>

Built ==
    /\ pc = "built" /\ NoteMtime /\ pc' = "ready"
    /\ UNCHANGED <<mode, log, source, total, pending, out, at, history, failures,
                   deaths, fusion, tables>>

-----------------------------------------------------------------------------
\* A turn of the loop.

\* The next message, and its entry in the audit log.
Read ==
    /\ pc = "ready" /\ source # <<>>
    /\ total' = total + 1 /\ WriteAudit(Head(source)) /\ pc' = "routing"
    /\ UNCHANGED <<mode, log, source, pending, out, at, history, failures, deaths,
                   fusion, adapter>>

\* The filter in front of the store.
Storable(updates) == Chosen(updates, {k \in DOMAIN updates : updates[k].kind # "none"})

FilesChange == versions > 1 \/ writing # "nothing"
Calm == failures + deaths + Len(corrections) + Len(overrides)
          + (IF FilesChange THEN 1 ELSE 0) < MaxDisturbances

\* Fusion of the batch, up to the first write; _fuse may raise.  The list is
\* cleared after the last write.
Fuse(batch) ==
    \E fails \in BOOLEAN :
        /\ fails => Calm
        /\ failures' = failures + (IF fails THEN 1 ELSE 0)
        /\ ProcessUpdates(batch, fails)
        /\ out' = Storable(Outcome(batch, fails))
        /\ IF out' = <<>> THEN pc' = "ready" /\ pending' = <<>>
           ELSE pc' = "row" /\ pending' = batch

\* What route_message returns, and a fusion when it is time for one.
Passthrough(m) == m.kind = "none" /\ m.conf = 0 /\ m.entities = <<>>
Routed(n) == IF log[n].kind = "none" /\ ~Passthrough(log[n]) THEN <<>> ELSE <<Report(log, n)>>
Route ==
    /\ pc = "routing"
    /\ source' = Tail(source)
    /\ LET batch == pending \o Routed(Head(source))
       IN  IF total % Batch = 0 /\ batch # <<>>
           THEN Fuse(batch)
           ELSE /\ pending' = batch /\ pc' = "ready"
                /\ UNCHANGED <<out, failures, fusion>>
    /\ UNCHANGED <<mode, log, total, at, history, deaths, tables, adapter>>

\* Fault: the end of the source leaves what is pending where it is.
ExhaustedWithoutFlush ==
    /\ pc = "ready" /\ source = <<>> /\ mode # "live"
    /\ pc' = "done"
    /\ UNCHANGED <<mode, log, source, total, pending, out, at, history, failures,
                   deaths, fusion, tables, adapter>>

\* The end of the source: what is pending is fused and written as well.
Exhausted ==
    /\ pc = "ready" /\ source = <<>> /\ mode # "live"
    /\ IF pending # <<>> THEN Fuse(pending)
       ELSE pc' = "done" /\ UNCHANGED <<pending, out, failures, fusion>>
    /\ UNCHANGED <<mode, log, source, total, at, history, deaths, tables, adapter>>

\* write_update: the row, then its entities one by one.
WriteRow ==
    /\ pc = "row"
    /\ InsertRow(Head(out)) /\ written' = Append(written, 0)
    /\ at' = 1
    /\ pc' = IF Head(out).entities = <<>> THEN "push" ELSE "entities"
    /\ UNCHANGED <<mode, log, source, total, pending, out, pushed, lost, failures,
                   deaths, fusion, adapter>>

WriteEntity ==
    /\ pc = "entities"
    /\ UpsertEntity(Head(out).entities[at], Head(out).ts)
    /\ written' = [written EXCEPT ![Len(rows)] = at]
    /\ at' = at + 1
    /\ pc' = IF at = Len(Head(out).entities) THEN "push" ELSE "entities"
    /\ UNCHANGED <<mode, log, source, total, pending, out, pushed, lost, failures,
                   deaths, fusion, adapter>>

\* What goes out for an update: nothing while it waits for an operator, or else a
\* payload for each record, where the mapping gives one.
Sent(u, force, blocked) ==
    LET records == RecordsOf(u)
    IN  IF TierOf(u) = "human" THEN <<>>
        ELSE [k \in DOMAIN records |->
                IF k = 1 /\ blocked THEN Failed ELSE Payload(force, records[k])]

\* The rest of the turn after a push.  A send that fails is reported, not raised.
Pushed(blocked) ==
    /\ pushed' = Append(pushed, [row |-> Len(rows), tier |-> TierOf(Head(out)),
                                 schema |-> inner'.schema,
                                 sent |-> Sent(Head(out), inner', blocked)])
    /\ out' = Tail(out)
    /\ IF Len(out) = 1 THEN pc' = "ready" /\ pending' = <<>>
       ELSE pc' = "row" /\ UNCHANGED pending
    /\ UNCHANGED <<mode, log, source, total, at, written, lost, failures, deaths,
                   fusion, tables>>

\* push_update, with the mapping in force: the interval has not passed, or the
\* record waits for an operator and is not mapped.
Push == pc = "push" /\ UNCHANGED adapter /\ Pushed(FALSE)

\* push_update, when the interval has passed.
Check ==
    /\ pc = "push" /\ TierOf(Head(out)) # "human"
    /\ CheckMtime /\ pc' = "check"
    /\ UNCHANGED <<mode, log, source, total, pending, out, at, history, failures,
                   deaths, fusion, tables>>

CheckFurther ==
    /\ pc = "check" /\ Changed /\ ReadSchema /\ pc' = "reload"
    /\ UNCHANGED <<mode, log, source, total, pending, out, at, history, failures,
                   deaths, fusion, tables>>

PushAfterCheck ==
    /\ pc = "reload" \/ (pc = "check" /\ ~Changed)
    /\ Reload /\ Pushed(Blocked)

-----------------------------------------------------------------------------
\* The surroundings.

\* What only memory holds: pending updates that no row stands for.
Held  == {n \in DOMAIN log : \E k \in DOMAIN pending : n \in Range(pending[k].from)}
Kept  == {n \in DOMAIN log : \E r \in DOMAIN rows : n \in Range(rows[r].from)}
Unwritten == (Held \cup (IF pc = "routing" THEN {Head(source)} ELSE {})) \ Kept

Dies ==
    /\ pc \notin {"boot", "building", "built", "done"} /\ Calm
    /\ deaths' = deaths + 1
    /\ lost' = lost \cup Unwritten
    /\ source' = IF pc = "routing" THEN Tail(source) ELSE source
    /\ total' = 0 /\ pending' = <<>> /\ out' = <<>> /\ at' = 1
    /\ speakerStats' = [s \in Speakers |-> [confirmed |-> 0, total |-> 0]]
    /\ channelStats' = [c \in Channels |-> [noise |-> 0, total |-> 0]]
    /\ lastFeedback' = <<>>
    /\ pc' = IF mode = "live" THEN "boot" ELSE "done"
    /\ UNCHANGED <<mode, log, pushed, written, failures, tables, adapter>>

\* What a live feed brings while the process is down or starting is not seen.
Missed ==
    /\ pc \in {"boot", "building", "built"} /\ mode = "live" /\ source # <<>>
    /\ source' = Tail(source)
    /\ UNCHANGED <<mode, log, loop, history, failures, deaths, fusion, tables, adapter>>

Operators ==
    /\ \/ (Calm \/ FilesChange) /\ Change /\ UNCHANGED tables
       \/ /\ Calm /\ UNCHANGED adapter
          /\ \E id \in DOMAIN rows : WriteCorrection(id) \/ RecordOverride(id)
    /\ UNCHANGED <<mode, log, source, loop, history, failures, deaths, fusion>>

Turn == Route \/ Exhausted \/ WriteRow \/ WriteEntity \/ Push \/ Check \/ CheckFurther
          \/ PushAfterCheck

Next == Boot \/ BootFails \/ Built \/ Read \/ Turn \/ Dies \/ Missed \/ Operators

\* Turn can be taken.
Going == \/ pc \in {"routing", "row", "entities", "push", "check", "reload"}
         \/ pc = "ready" /\ source = <<>> /\ mode # "live"

\* The loop goes on, and a file always gives its next message; the live feed need
\* not.  The first conjunct is WF_vars(Turn) with its ENABLED written out, for TLC
\* computes the fusion of a batch too often when it has to find that out by itself.
Spec == /\ Init /\ [][Next]_vars
        /\ ([]<>~Going) \/ ([]<><<Turn>>_vars)
        /\ WF_vars(mode # "live" /\ Read)

-----------------------------------------------------------------------------
(***************************************************************************)
(* PROPERTIES                                                              *)
(***************************************************************************)

\* The loop's variables have their types; confidences stay within 0 and 1, and
\* a speaker is never confirmed more often than judged.
TypeOK ==
    /\ pc \in Places /\ total \in Nat /\ at \in Nat \ {0}
    /\ \A u \in Range(pending) \cup Range(out) \cup Range(rows) : IsUpdate(u)
    /\ \A s \in Speakers : speakerStats[s].confirmed \in 0 .. speakerStats[s].total
    /\ \A c \in Channels : channelStats[c].noise \in 0 .. channelStats[c].total
    /\ Len(written) = Len(rows)
    /\ \A k \in DOMAIN pushed : pushed[k].row \in DOMAIN rows

\* The places among the provenance of those updates where a report appears.
Copies(n, updates) ==
    {p \in UNION {{k} \X DOMAIN updates[k].from : k \in DOMAIN updates} :
        updates[p[1]].from[p[2]] = n}

\* Where the reports are that no row stands for yet.
InMemory == IF out = <<>> THEN pending ELSE IF pc = "row" THEN out ELSE Tail(out)

\* Every report of a message that was read is in exactly one place: in one stored
\* row, as its subject or as provenance of a merged one; in memory, on its way to
\* one; or gone with a process that died before.  So batching, merging with others
\* and with what the filter takes out, the fallback of a failed fusion and a restart
\* neither drop nor repeat a report.
EveryReportOnce ==
    \A n \in Range(audit) :
        log[n].kind # "none" =>
            Cardinality(Copies(n, rows)) + Cardinality(Copies(n, InMemory))
              + (IF n \in lost THEN 1 ELSE 0)
              + (IF pc = "routing" /\ n = Head(source) THEN 1 ELSE 0) = 1

\* What the store was told of entities: the places among the rows of those it was
\* given, and the order in which it was.
Entity(m) == rows[m[1]].entities[m[2]]
Mentions  == {m \in UNION {{r} \X (1 .. written[r]) : r \in DOMAIN rows} : Named(Entity(m))}
Later(m, n) == m[1] > n[1] \/ (m[1] = n[1] /\ m[2] > n[2])
Latest(ms)  == CHOOSE m \in ms : \A n \in ms \ {m} : Later(m, n)

About(key)     == {m \in Mentions : StoreKey(Entity(m)) = key}
Giving(key, f) == {m \in About(key) : Entity(m)[f] # None}
LastGiven(key, f) ==
    IF Giving(key, f) = {} THEN None ELSE Entity(Latest(Giving(key, f)))[f]

\* Each field of an entity is the last value a stored row gave it, and its time
\* that of the last row about it.
EntitiesFollowRows ==
    /\ DOMAIN entities = {StoreKey(Entity(m)) : m \in Mentions}
    /\ \A key \in DOMAIN entities :
        /\ \A f \in Fields : entities[key].data[f] = LastGiven(key, f)
        /\ entities[key].updated = rows[Latest(About(key))[1]].ts

\* The entities of a row are all written, but for the row in progress and for
\* one row at each death of the process.
CutRows == {r \in DOMAIN rows : written[r] < Len(rows[r].entities)}
RowsAreComplete == Cardinality(CutRows) <= deaths + (IF pc = "entities" THEN 1 ELSE 0)

\* The operators' statistics by channel and by speaker add up to the total, and
\* the analysis after the event counts every overridden update once.
AddedUp(f) == Cardinality(UNION {{x} \X (1 .. f[x]) : x \in DOMAIN f})
StatsAddUp ==
    /\ \A list \in {corrections, overrides} :
        LET s == Stats(list)
        IN  AddedUp(s.by_channel) = s.total /\ AddedUp(s.by_speaker) = s.total
    /\ \A by \in {Analyze.by_speaker, Analyze.by_type, Analyze.by_channel} :
        /\ AddedUp([g \in DOMAIN by |-> by[g].overridden]) <= Analyze.total_overrides
        /\ \A g \in DOMAIN by : by[g].overridden \in 1 .. by[g].total

\* What was pushed about an entity one can refer to went out under the key that
\* the store has for it.
CoPHasSameKeys ==
    \A k \in DOMAIN pushed : \A e \in Range(rows[pushed[k].row].entities) :
        Named(e) => TrackId(e) \in DOMAIN entities

\* The tables agree with each other in every state that another process, or the
\* next start of the pipeline, may find: after each commit, and after a crash; and
\* with what the CoP was told.
StoreIsConsistent ==
    EntitiesFollowRows /\ RowsAreComplete /\ StatsAddUp /\ CoPHasSameKeys

\* Reports that contradict each other and were merged never reach the CoP
\* without a mark for review, however much confidence the kept one has gained
\* from its speaker's record.
ContradictionsAreReviewed ==
    \A k \in DOMAIN pushed :
        (\E i, j \in Range(rows[pushed[k].row].from) : i # j /\ Contradict(log[i], log[j]))
            => pushed[k].tier # "auto"

\* After a check of the mapping file, and until the next change, the mapping in
\* force is the file's, if it is valid, together with the schema it was written
\* for.  The exceptions are a file with the very time that was noted while another
\* version was read, because it changed between two looks at the files, and an old
\* mapping put back with a new schema.  And whatever was changed, what was sent has
\* the fields that the schema it was made for requires and no others.
MappingIsCurrent ==
    /\ checked /\ gap # file.version /\ writing \in {"nothing", "done"} /\ Valid(file.content, schema) =>
          /\ inner.content = file.content
          /\ file = backup \/ inner.schema = schema
    /\ \A k \in DOMAIN pushed : \A payload \in Range(pushed[k].sent) \ {Failed} :
          /\ pushed[k].schema.required \subseteq DOMAIN payload
          /\ pushed[k].schema.properties # {} =>
                DOMAIN payload \subseteq pushed[k].schema.properties

\* A report that was read is stored in the end, unless the process dies: again and
\* again there is none that only memory holds.  In a live feed a report may wait
\* for the rest of its batch for as long as the feed is silent.
WaitsForBatch == mode = "live" /\ pc = "ready" /\ total % Batch # 0
EveryReportIsStored == []<>(Unwritten = {} \/ WaitsForBatch)
==============================================================================
