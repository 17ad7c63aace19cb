------------------------------- MODULE ChatLogs -------------------------------
(***************************************************************************)
(* Recorded chat as a source of messages (ingestion/replay.py): log files, *)
(* chat.zip archives and directories of them.                              *)
(*                                                                         *)
(* A line is [form, clock, channel, what]: its form is "combined" (with a  *)
(* channel), "plain" or anything else; clock is its time of day in seconds *)
(* and what is what the agents will make of it.  A file is [name, lines],  *)
(* a name [matches, channel, stem, kind]: whether it begins with #channel  *)
(* and a date, that channel, the name without its extension, and           *)
(* "combined", "log" or another kind.  A path is                           *)
(*   [is |-> "file", parts, file],  [is |-> "zip", parts, files],          *)
(*   [is |-> "dir", zips, texts, logs]  or  [is |-> "missing"],            *)
(* with files in the order of their names; parts are the days that its     *)
(* directories name, with None for one that names no day.                  *)
(***************************************************************************)
EXTENDS CoPUpdate, Integers, SequencesExt, FiniteSetsExt

CONSTANTS UnknownChannel,   \* #unknown
          DefaultDay        \* the day of a path that names none

ASSUME LogsAssumption == UnknownChannel \in Channels /\ DefaultDay \in Nat

SecondsPerDay == 86400

\* _channel_from_filename: what is left of the name when it has another form may
\* still hold the date.
ChannelFromFilename(name) == IF name.matches THEN name.channel ELSE name.stem

\* _extract_date_from_path: the first directory that names a day.
DayOf(parts) ==
    LET days == SelectSeq(parts, LAMBDA p : p # None)
    IN  IF days = <<>> THEN DefaultDay ELSE Head(days)

\* _parse_time: the lines of a file are all of one day, whatever midnight they cross.
ParseTime(clock, day) == day * SecondsPerDay + clock

\* parse_line: one message or none.
ParseLine(line, default, day) ==
    LET message(c) == <<[channel |-> c, ts |-> ParseTime(line.clock, day)] @@ line.what>>
    IN  CASE line.form = "combined" -> message(line.channel)
          [] line.form = "plain"    -> message(default)
          [] OTHER                  -> <<>>

ParseLines(lines, default, day) ==
    FlattenSeq([n \in DOMAIN lines |-> ParseLine(lines[n], default, day)])

\* Equal times stay in the order of reading.
InTimeOrder(messages) ==
    LET earlier(i, j) == \/ messages[i].ts < messages[j].ts
                         \/ messages[i].ts = messages[j].ts /\ i < j
        order == SetToSortSeq(DOMAIN messages, earlier)
    IN  [n \in DOMAIN messages |-> messages[order[n]]]

ParseFile(file, parts) ==
    ParseLines(file.lines, ChannelFromFilename(file.name), DayOf(parts))

\* parse_zip: the combined log if there is one, or else the logs of the channels.
ParseZip(zip) ==
    LET Of(kind) == SelectSeq(zip.files, LAMBDA f : f.name.kind = kind)
        combined == Of("combined")
        logs     == Of("log")
    IN  InTimeOrder(
          IF combined # <<>> THEN ParseLines(combined[1].lines, UnknownChannel, DayOf(zip.parts))
          ELSE FlattenSeq([n \in DOMAIN logs |-> ParseFile(logs[n], zip.parts)]))

\* parse_path and replay_messages: a single file is given in its own order.
ParsePath(path) ==
    CASE path.is = "file" -> ParseFile(path.file, path.parts)
      [] path.is = "zip"  -> ParseZip(path)
      [] path.is = "dir"  ->
           InTimeOrder(
             IF path.zips # <<>>
             THEN FlattenSeq([n \in DOMAIN path.zips |-> ParseZip(path.zips[n])])
             ELSE LET files == path.texts \o path.logs
                  IN  FlattenSeq([n \in DOMAIN files |->
                                    ParseFile(files[n].file, files[n].parts)]))
      [] OTHER -> <<>>
==============================================================================
