------------------------------ MODULE LabelStore ------------------------------
(***************************************************************************)
(* Label files and what is read out of them (labels.py, and the readers    *)
(* and writers of scripts/ that go through the same files).  A file is the *)
(* sequence of its lines.  Every writer appends; one that is cut off may   *)
(* leave a line without its end, and what the next writer appends then     *)
(* continues that line: neither of the two can be read any more.           *)
(***************************************************************************)
EXTENDS Naturals, Sequences, SequencesExt, FiniteSets

CONSTANTS UpdateTypes,       \* the values of UpdateType
          NoType             \* a field that a label does not have

ASSUME TypeAssumption == "none" \in UpdateTypes /\ NoType \notin UpdateTypes

Sources == {"human", "llm_judge", "synthetic"}

\* Lines that do not parse: one that ends, and the beginning of one at the end of a file.
Garbled == [kind |-> "garbled"]
Cut     == [kind |-> "cut"]

\* A line that ends within a character (labels are not escaped to ASCII): the file is
\* no UTF-8, and whatever reads it raises an error.
SplitCharacter == [kind |-> "split character"]

\* A whole label that lacks only the end of its line: it parses.
Unended(label) == [label EXCEPT !.kind = "unended"]

IsLabel(line) == line.kind \in {"label", "unended"}

Decodes(file) == \A i \in DOMAIN file : file[i] # SplitCharacter

-----------------------------------------------------------------------------
\* TRUST_ORDER, _trust_rank: lower is trusted more; an unknown source ranks last.
TrustRank(source) ==
    CASE source = "human"     -> 0
      [] source = "llm_judge" -> 1
      [] source = "synthetic" -> 2
      [] OTHER                -> 3

\* The elements of s at those places, in the order they have in s.
Chosen(s, places) ==
    LET chosen[n \in 0 .. Len(s)] ==
            IF n = 0 THEN <<>>
            ELSE IF n \in places THEN Append(chosen[n - 1], s[n]) ELSE chosen[n - 1]
    IN  chosen[Len(s)]

\* What a reader gets: the lines that parse, in order.
ReadFile(file) == Chosen(file, {i \in DOMAIN file : IsLabel(file[i])})

\* _load_existing_labels: the raw lines that have a label already.
ExistingLabels(file) == {file[i].raw : i \in {i \in DOMAIN file : IsLabel(file[i])}}

EndsOpen(file) == file # <<>> /\ Last(file).kind \in {"cut", "unended"}

\* A writer appends a line: behind a line without its end it is lost together with that.
AppendLine(file, line) ==
    IF EndsOpen(file) THEN Append(Front(file), Garbled) ELSE Append(file, line)

\* What there may be of a label whose writer is cut off.
Remains(label) == {Cut, SplitCharacter, Unended(label)}

\* A writer is cut off: this is the rest of its line, or of one that was open already.
CutLine(file, rest) ==
    IF EndsOpen(file)
    THEN Append(Front(file), IF rest = SplitCharacter THEN rest ELSE Cut)
    ELSE Append(file, rest)

\* Fault: the label read first is kept, whoever gave it.
Prefers_First(label, kept) == FALSE

Prefers(label, kept) == TrustRank(label.source) < TrustRank(kept.source)

\* load_labels, the deduplication: one label for each raw line, where its first one was.
Keep(best, label) ==
    IF \E k \in DOMAIN best : best[k].raw = label.raw
    THEN [k \in DOMAIN best |-> IF best[k].raw = label.raw /\ Prefers(label, best[k])
                               THEN label ELSE best[k]]
    ELSE Append(best, label)

\* load_labels, over the lines of the directory's files in the order of their names.
LoadLabels(lines) ==
    LET labels == ReadFile(lines)
        best[n \in 0 .. Len(labels)] ==
            IF n = 0 THEN <<>> ELSE Keep(best[n - 1], labels[n])
    IN  best[Len(labels)]

\* merge_labels, one label: it is skipped when its raw line has a label in the file.
Merges(file, label) == label.raw \notin ExistingLabels(file)

\* validate_label: the fields that are required, and the values that are allowed.
IsValid(label) ==
    /\ label.source \in Sources
    /\ label.expected \in UpdateTypes \union {NoType}
    /\ label.extracted \in UpdateTypes \union {NoType}

\* label_stats: the type a label is counted under.
StatsType(label) == IF label.expected # NoType THEN label.expected ELSE label.extracted

\* validate_file: how many lines there are, and how many of them are valid.
ValidateFile(file) ==
    [total |-> Len(file),
     valid |-> Cardinality({i \in DOMAIN file : IsLabel(file[i]) /\ IsValid(file[i])})]

\* compare_labels: of the raw lines that both sets have, those on whose type they agree
\* (a later label of a raw line replaces an earlier one).
LastOf(labels, raw) ==
    LET places == {k \in DOMAIN labels : labels[k].raw = raw}
    IN  labels[CHOOSE k \in places : \A j \in places : j <= k]

CompareLabels(a, b) ==
    LET raws(labels) == {label.raw : label \in ToSet(labels)}
        shared == raws(a) \intersect raws(b)
        agreed == {raw \in shared : StatsType(LastOf(a, raw)) = StatsType(LastOf(b, raw))}
    IN  [matched   |-> Cardinality(shared),
         agreed    |-> Cardinality(agreed),
         disagreed |-> Cardinality(shared \ agreed),
         onlyA     |-> Cardinality(raws(a) \ raws(b)),
         onlyB     |-> Cardinality(raws(b) \ raws(a))]
===============================================================================
