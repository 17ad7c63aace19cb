--------------------------- MODULE MCChannelAgent ----------------------------
(* Instances of ChannelAgent for TLC. *)
EXTENDS ChannelAgent, TLC

CONSTANTS ann, bob, note1, note2

Say(ts, s, noise, says) == [ts |-> ts, sender |-> s, noise |-> noise, says |-> says]

\* A conversation that fills the window and outlives it; one where a message comes
\* late; one speaker alone, who is inferred again; noise.
Steady == <<Say(0, ann, FALSE, {"tracks", "status"}), Say(5, bob, FALSE, {}),
            Say(6, ann, FALSE, {"fuel"}), Say(30, ann, FALSE, {})>>
LateOne == <<Say(20, ann, FALSE, {"threat"}), Say(2, bob, TRUE, {}),
             Say(21, ann, FALSE, {"coordinates"}), Say(36, bob, FALSE, {"status"})>>
Alone == <<Say(0, ann, FALSE, {"weapons"}), Say(1, ann, TRUE, {}),
           Say(2, ann, FALSE, {}), Say(3, ann, FALSE, {"weapons", "down"})>>
MCChats == {Steady, LateOne, Alone}

MCTypes == {"none", "entity_id", "fuel", "csar", "weapons", "threat", "location", "status_change"}
MCThresholds == [u \in MCTypes |->
    CASE u = "csar" -> 85 [] u = "threat" -> 75 [] u = "weapons" -> 70
      [] u = "fuel" -> 55 [] u = "none" -> 50 [] OTHER -> 65]
Word(w)   == [is |-> "word", of |-> w]
Number(n) == [is |-> "number", of |-> n]
MCAnswers == {[type |-> Word("communication"), confidence |-> [is |-> "other", of |-> Nothing]],
              [type |-> Word("fuel"), confidence |-> Word("high")],
              [type |-> Word("fuel"), confidence |-> Number(9000)]}

Guess(r, ns, a) == [role |-> r, notes |-> ns, activity |-> a]
MCInferences == {Guess("tanker", <<note1, note1>>, "sensing"),
                 Guess(Nothing, <<note2, note1>>, "acting")}

\* All labelled samples of up to four predictions at some confidences.
Predictions  == [conf : {20, 50, 90}, right : BOOLEAN]
UpToFour     == UNION {[1 .. n -> Predictions] : n \in 1 .. 4}
Of(way, s)   == [method |-> way, samples |-> s]
MCTrainings  == [method : Methods, samples : UpToFour]
Sample(c, r) == [conf |-> c, right |-> r]
MCDeployed   == {Of("isotonic", <<Sample(20, FALSE), Sample(50, TRUE), Sample(90, TRUE)>>)}
==============================================================================
