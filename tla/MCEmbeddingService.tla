-------------------------- MODULE MCEmbeddingService --------------------------
(* The embedding service on small instances: see README.md for the bounds. *)
EXTENDS EmbeddingService, TLC

LOCAL INSTANCE SequencesExt

CONSTANTS k1, k2, d1, d2

OneEach == (k1 :> d1) @@ (k2 :> d2)
TwoAndOne == (k1 :> 2) @@ (k2 :> 1)

\* A word of n letters that begins the next paragraph or the next sentence, or goes on
\* the sentence before it after some white space.
AddWord(t, word) ==
    LET letters == [i \in 1..word.n |-> t.n + i]
        p == Len(t.text)
        s == IF p = 0 THEN 0 ELSE Len(t.text[p])
    IN  [n |-> t.n + word.n,
         text |-> CASE word.after = "paragraph" \/ p = 0 -> Append(t.text, <<letters>>)
                    [] word.after = "sentence" /\ p > 0 -> [t.text EXCEPT ![p] = Append(@, letters)]
                    [] OTHER -> [t.text EXCEPT ![p][s] = @ \o word.white \o letters]]

Plain == <<Space>>
Line == <<OtherSpace>>
Mixed == [i \in 1..6 |-> IF i % 2 = 0 THEN Space ELSE OtherSpace]

Words == [n : {1, 2, 6}, after : {"sentence", "paragraph"}, white : {<<>>}]
            \cup [n : {1, 2}, after : {"word"}, white : {Plain, Line}]
            \cup {[n |-> 1, after |-> "word", white |-> Mixed],
                  [n |-> 6, after |-> "word", white |-> Plain]}

\* Every text of up to four words.
SmallTexts ==
    {FoldLeft(AddWord, [n |-> 0, text |-> <<>>], words).text :
        words \in UNION {[1..n -> Words] : n \in 0..4}}
===============================================================================
