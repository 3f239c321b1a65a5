-------------------------------- MODULE Chunker --------------------------------
(***************************************************************************)
(* ml-service/app/embeddings/chunking.py: a text cut into units that fit   *)
(* the budget, and the units packed into overlapping chunks.               *)
(*                                                                         *)
(* A text is a sequence of paragraphs, a paragraph a sequence of sentences *)
(* (what the two regular expressions split), a sentence a sequence of      *)
(* characters: the letters of a text are numbered from 1 on, so that every *)
(* letter of a chunk tells where it comes from; 0 is the plain space, and  *)
(* -1 any other white space, which strip() removes as well.                *)
(***************************************************************************)
EXTENDS Integers, Sequences, SequencesExt

CONSTANTS ChunkSize,  \* chunk_size_chars
          Overlap     \* overlap_chars

ASSUME ChunkerAssumption ==   \* Chunker.__init__
    ChunkSize \in Nat \ {0} /\ Overlap \in Nat /\ Overlap < ChunkSize

Space == 0
OtherSpace == -1
White == {Space, OtherSpace}
Characters == Nat \cup {OtherSpace}

Strip(s) ==
    LET inked == {i \in DOMAIN s : s[i] \notin White} IN
    IF inked = {} THEN <<>> ELSE SubSeq(s, Min(inked), Max(inked))

Joined(a, b) == IF a = <<>> THEN b ELSE IF b = <<>> THEN a ELSE a \o <<Space>> \o b

HardSplit(s) ==
    [i \in 1 .. ((Len(s) + ChunkSize - 1) \div ChunkSize) |->
        SubSeq(s, (i - 1) * ChunkSize + 1, Min({i * ChunkSize, Len(s)}))]

SentenceUnits(sentence) ==
    IF Len(sentence) <= ChunkSize THEN <<sentence>> ELSE HardSplit(sentence)

\* The paragraph that its sentences are.
Whole(paragraph) ==
    LET upTo[n \in 0..Len(paragraph)] ==
            IF n = 0 THEN <<>> ELSE Joined(upTo[n - 1], paragraph[n])
    IN  upTo[Len(paragraph)]

ParagraphUnits(paragraph) ==
    IF Len(Whole(paragraph)) <= ChunkSize THEN <<Whole(paragraph)>>
    ELSE FlattenSeq([i \in DOMAIN paragraph |-> SentenceUnits(paragraph[i])])

\* _split_into_units
Units(text) == FlattenSeq([i \in DOMAIN text |-> ParagraphUnits(text[i])])

\* The end of a finished chunk, from behind the first plain space in it.
OverlapTail(s) ==
    IF Overlap = 0 THEN <<>>
    ELSE IF Len(s) <= Overlap THEN s
    ELSE LET tail == SubSeq(s, Len(s) - Overlap + 1, Len(s))
             spaces == {i \in DOMAIN tail : tail[i] = Space}
         IN  IF spaces = {} THEN tail ELSE SubSeq(tail, Min(spaces) + 1, Len(tail))

\* One unit of the loop of _pack.
PackUnit(packed, unit) ==
    LET candidate == Strip(Joined(packed.current, unit)) IN
    IF packed.current = <<>> THEN [packed EXCEPT !.current = unit]
    ELSE IF Len(candidate) <= ChunkSize THEN [packed EXCEPT !.current = candidate]
    ELSE [chunks  |-> Append(packed.chunks, packed.current),
          current |-> Strip(Joined(OverlapTail(packed.current), unit))]

Packed(units) ==
    LET after[n \in 0..Len(units)] ==
            IF n = 0 THEN [chunks |-> <<>>, current |-> <<>>]
            ELSE PackUnit(after[n - 1], units[n])
    IN  after[Len(units)]

PackFinished(units) == Packed(units).chunks   \* faulty variant: the last chunk is dropped

Pack(units) ==
    LET packed == Packed(units) IN
    IF packed.current = <<>> THEN packed.chunks ELSE Append(packed.chunks, packed.current)

Chunk(text) == Pack(Units(text))
--------------------------------------------------------------------------------
Ink(s) == {s[i] : i \in DOMAIN s} \ White

InOrder(s) ==
    \A i, j \in DOMAIN s : i < j /\ s[i] \notin White /\ s[j] \notin White => s[i] < s[j]

\* The letters of s are those from one to another, each once and in order.
Excerpt(s, from, to) == InOrder(s) /\ Ink(s) = from..to

IsSentence(s) ==
    s # <<>> /\ s[1] \notin White /\ Last(s) \notin White /\ Excerpt(s, s[1], Last(s))

\* What the regular expressions make of a document, letters numbered from 1 on.
IsText(text) ==
    /\ text \in Seq(Seq(Seq(Characters)))
    /\ \A p \in DOMAIN text : text[p] # <<>> /\ \A n \in DOMAIN text[p] : IsSentence(text[p][n])
    /\ text # <<>> => text[1][1][1] = 1
    /\ \A p \in 2..Len(text) : text[p][1][1] = Last(Last(text[p - 1])) + 1
    /\ \A p \in DOMAIN text : \A n \in 2..Len(text[p]) :
          text[p][n][1] = Last(text[p][n - 1]) + 1

Size(text) == IF text = <<>> THEN 0 ELSE Last(Last(Last(text)))

\* Reference: the chunks of a text have all its letters; each is an excerpt without a
\* gap, goes on where the one before ended or overlaps it by no more than Overlap
\* letters, and is no longer than the budget and the overlap.
Excerpts(chunks, text) ==
    LET from(i) == Min(Ink(chunks[i]))
        to(i) == Max(Ink(chunks[i]))
    IN  /\ UNION {Ink(chunks[i]) : i \in DOMAIN chunks} = 1..Size(text)
        /\ \A i \in DOMAIN chunks : /\ Ink(chunks[i]) # {}
                                    /\ Excerpt(chunks[i], from(i), to(i))
                                    /\ Len(chunks[i]) <= ChunkSize + Overlap + 1
        /\ \A i \in 1 .. Len(chunks) - 1 : /\ from(i + 1) \in to(i) + 1 - Overlap .. to(i) + 1
                                           /\ to(i) <= to(i + 1)
================================================================================
