--------------------------- MODULE MCChatIteration ---------------------------
(* Three pieces of evidence, two of one document version and two with one  *)
(* text, so that the third is new evidence without being new content.       *)
EXTENDS ChatIteration, TLC

MCEvidence == {"a", "b", "c"}
MCText == [a |-> 1, b |-> 2, c |-> 1]
MCDocVersion == [a |-> 1, b |-> 2, c |-> 2]
MCFacts == 1 .. 3
MCFirst == [S \in (SUBSET MCFacts) \ {{}} |-> CHOOSE f \in S : \A g \in S : f <= g]
MCRequired == {1, 2}
MCQueries == {"question", "first", "second", "third"}
MCGapQuery == <<"first", "second", "third">>

Hits ==
  <<[question |-> {"a"}, first |-> {"b"}, second |-> {"c"}, third |-> {}],
    [question |-> {"a", "b"}, first |-> {"a"}, second |-> {"b"}, third |-> {"c"}],
    [question |-> {"a", "b"}, first |-> {}, second |-> {"b", "c"}, third |-> {"a"}]>>

\* Nothing is dropped; b supersedes a; a is out of the time asked for.
Stages == <<[S \in SUBSET MCEvidence |-> S],
            [S \in SUBSET MCEvidence |-> IF "b" \in S THEN S \ {"a"} ELSE S],
            [S \in SUBSET MCEvidence |-> S \ {"a"}]>>

\* Which facts a piece of evidence supports, and what the others are.
Supports == <<[a |-> {1}, b |-> {2}, c |-> {3}],
              [a |-> {1, 2}, b |-> {1}, c |-> {2}],
              [a |-> {}, b |-> {1}, c |-> {1, 2}]>>

\* Every index with every stage, each pair with one judge.
MCWorlds ==
    {w \in [hits : 1 .. 3, stage : 1 .. 3, supports : 1 .. 3,
            conflict : BOOLEAN, other : {"missing", "not_retrievable"}] :
        /\ (w.hits + w.stage + w.supports) % 3 = 0
        /\ w.conflict => w.other = "missing" /\ w.hits = 1
        /\ w.other = "not_retrievable" => w.supports = 1}

MCWorld ==
    [w \in MCWorlds |->
        [hits |-> Hits[w.hits],
         kept |-> Stages[w.stage],
         contradicted |-> {S \in SUBSET MCEvidence :
                             w.conflict /\ {"b", "c"} \subseteq Stages[w.stage][S]},
         assess |-> [S \in SUBSET MCEvidence |-> [f \in MCFacts |->
             IF \E e \in S : f \in Supports[w.supports][e] THEN "supported" ELSE w.other]]]]
=============================================================================
