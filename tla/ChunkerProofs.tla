----------------------------- MODULE ChunkerProofs -----------------------------
(***************************************************************************)
(* What Chunker makes of a text, for any text, chunk size and overlap: all *)
(* its letters, in excerpts without gaps that overlap by at most Overlap   *)
(* letters and keep within the budget.                                     *)
(*                                                                         *)
(* The loops of chunking.py are recursive functions here.  That they are   *)
(* defined, and what they compute, is shown by Induction, which takes the  *)
(* induction hypothesis as a set of numbers.                               *)
(***************************************************************************)
EXTENDS Chunker, FiniteSetTheorems, SequenceTheorems, TLAPS

LEMMA Sizes == ChunkSize \in Nat \ {0} /\ Overlap \in Nat /\ Overlap < ChunkSize
BY ChunkerAssumption

--------------------------------------------------------------------------------
(* Induction, and the least and largest of a set *)

\* A set of numbers that has 0, and with each number below N the next, has all up to N.
LEMMA Induction ==
    ASSUME NEW N \in Nat, NEW P, 0 \in P, \A n \in 0 .. N - 1 : n \in P => n + 1 \in P
    PROVE  \A n \in 0..N : n \in P
<1> DEFINE R == StrictSubsetOrdering(0..N)
           T == {0..n : n \in {m \in 0..N : m \notin P}}
<1> SUFFICES ASSUME NEW k \in 0..N, k \notin P PROVE FALSE
  OBVIOUS
<1>1. T \subseteq FiniteSubsetsOf(0..N) /\ T # {}
  <2>1. \A n \in 0..N : 0..n \in SUBSET (0..N) /\ IsFiniteSet(0..n)
    BY FS_Interval
  <2> QED
    BY <2>1 DEF FiniteSubsetsOf
<1>2. IsWellFoundedOn(R, FiniteSubsetsOf(0..N))
  BY FS_StrictSubsetOrderingWellFounded
<1>3. PICK x \in T : \A y \in T : ~(<<y, x>> \in R)
  <2> HIDE DEF T, R
  <2> QED
    BY <1>1, <1>2, WFMin
<1>4. PICK n \in 0..N : n \notin P /\ x = 0..n
  OBVIOUS
<1>5. n - 1 \in 0 .. N - 1 /\ n - 1 \in 0..N /\ n - 1 \notin P
  <2>1. n # 0
    BY <1>4
  <2>2. n - 1 \in 0 .. N - 1 /\ (n - 1) + 1 = n
    BY <2>1
  <2> QED
    BY <2>2, <1>4
<1> DEFINE y == 0 .. n - 1
<1>6. y \in T /\ y \in SUBSET (0..N) /\ x \in SUBSET (0..N) /\ y \subseteq x
  BY <1>4, <1>5
<1>7. n \in x /\ n \notin y
  BY <1>4
<1>8. <<y, x>> \in R
  <2> HIDE DEF y
  <2> QED
    BY <1>6, <1>7 DEF StrictSubsetOrdering
<1> QED
  BY <1>3, <1>6, <1>8

LEMMA Extremes ==
    ASSUME NEW N \in Nat, NEW S \in SUBSET (1..N), S # {}
    PROVE  /\ Min(S) \in S /\ \A x \in S : Min(S) <= x
           /\ Max(S) \in S /\ \A x \in S : x <= Max(S)
<1> DEFINE P == {n \in 0..N : \A U \in SUBSET (1..n) : U # {} =>
                    /\ \E m \in U : \A x \in U : m <= x
                    /\ \E m \in U : \A x \in U : m >= x}
<1>1. 0 \in P
  <2>1. 0 \in 0..N
    OBVIOUS
  <2>2. \A U \in SUBSET (1..0) : U = {}
    OBVIOUS
  <2> QED
    BY <2>1, <2>2, Zenon
<1>2. ASSUME NEW n \in 0 .. N - 1, n \in P PROVE n + 1 \in P
  <2> SUFFICES ASSUME NEW U \in SUBSET (1 .. n + 1), U # {}
               PROVE  /\ \E m \in U : \A x \in U : m <= x
                      /\ \E m \in U : \A x \in U : m >= x
    OBVIOUS
  <2> DEFINE V == U \ {n + 1}
  <2>1. V \in SUBSET (1..n)
    OBVIOUS
  <2>2. CASE V = {}
    <3>1. U = {n + 1}
      BY <2>2
    <3> QED
      BY <3>1
  <2>3. CASE V # {}
    <3>1. PICK l \in V, h \in V : \A x \in V : l <= x /\ h >= x
      <4> HIDE DEF V
      <4> QED
        BY <2>1, <2>3, <1>2
    <3>2. l \in U /\ \A x \in U : l <= x
      BY <3>1, <2>1
    <3>3. CASE n + 1 \in U
      <4>1. \A x \in U : n + 1 >= x
        OBVIOUS
      <4> QED
        BY <3>2, <3>3, <4>1
    <3>4. CASE n + 1 \notin U
      BY <3>1, <3>2, <3>4
    <3> QED
      BY <3>3, <3>4
  <2> QED
    BY <2>2, <2>3
<1>3. N \in P
  <2> HIDE DEF P
  <2> QED
    BY <1>1, <1>2, Induction
<1>4. /\ \E m \in S : \A x \in S : m <= x
      /\ \E m \in S : \A x \in S : m >= x
  BY <1>3
<1> QED
  BY <1>4 DEF Min, Max

LEMMA IntervalExtremes ==
    ASSUME NEW a \in Nat, NEW b \in Nat, a <= b
    PROVE  Min(a..b) = a /\ Max(a..b) = b
<1>1. a \in a..b /\ b \in a..b /\ \A x \in a..b : a <= x /\ b >= x
  OBVIOUS
<1>2. \A x \in a..b : (\A y \in a..b : x <= y) => x = a
  BY <1>1
<1>3. \A x \in a..b : (\A y \in a..b : x >= y) => x = b
  BY <1>1
<1> QED
  BY <1>1, <1>2, <1>3 DEF Min, Max
--------------------------------------------------------------------------------
(* Letters of a part, of a stripped and of a joined string *)

Strings == Seq(Characters)
Between(s, j, k) == {s[i] : i \in j..k} \ White

LEMMA Slice ==
    ASSUME NEW s \in Strings, NEW j \in 1 .. Len(s) + 1, NEW k \in j - 1 .. Len(s)
    PROVE  LET part == SubSeq(s, j, k)
           IN  /\ part \in Strings
               /\ Len(part) = k - j + 1
               /\ \A i \in 1 .. k - j + 1 : part[i] = s[j + i - 1]
               /\ Ink(part) = Between(s, j, k)
               /\ InOrder(s) => InOrder(part)
<1> DEFINE part == SubSeq(s, j, k)
<1>1. /\ Len(s) \in Nat /\ j \in Nat \ {0} /\ k \in Nat /\ k <= Len(s) /\ k - j + 1 \in Nat
      /\ \A i \in j..k : s[i] \in Characters
  BY DEF Strings
<1>2. part \in Strings /\ Len(part) = k - j + 1 /\ \A i \in 1 .. k - j + 1 : part[i] = s[j + i - 1]
  <2>1. /\ part \in Seq(Characters)
        /\ Len(part) = (IF j <= k THEN k - j + 1 ELSE 0)
        /\ \A i \in 1 .. k - j + 1 : part[i] = s[j + i - 1]
    BY <1>1, SubSeqProperties
  <2> QED
    BY <2>1, <1>1 DEF Strings
<1> HIDE DEF part
<1>3. DOMAIN part = 1 .. k - j + 1
  BY <1>2 DEF Strings
<1>4. Ink(part) = Between(s, j, k)
  <2>1. ASSUME NEW x \in Ink(part) PROVE x \in Between(s, j, k)
    <3>1. PICK i \in 1 .. k - j + 1 : part[i] = x /\ x \notin White
      BY <1>3, <2>1 DEF Ink
    <3>2. j + i - 1 \in j..k /\ s[j + i - 1] = x
      BY <1>1, <1>2, <3>1
    <3> QED
      BY <3>1, <3>2 DEF Between
  <2>2. ASSUME NEW x \in Between(s, j, k) PROVE x \in Ink(part)
    <3>1. PICK i \in j..k : s[i] = x /\ x \notin White
      BY <2>2 DEF Between
    <3>2. i - j + 1 \in 1 .. k - j + 1 /\ j + (i - j + 1) - 1 = i
      BY <1>1
    <3>3. part[i - j + 1] = x
      BY <1>2, <3>1, <3>2
    <3> QED
      BY <1>3, <3>1, <3>2, <3>3 DEF Ink
  <2> QED
    BY <2>1, <2>2
<1>5. ASSUME InOrder(s) PROVE InOrder(part)
  <2> SUFFICES ASSUME NEW a \in 1 .. k - j + 1, NEW b \in 1 .. k - j + 1, a < b,
                      part[a] \notin White, part[b] \notin White
               PROVE  part[a] < part[b]
    BY <1>3 DEF InOrder
  <2>1. /\ j + a - 1 \in 1..Len(s) /\ j + b - 1 \in 1..Len(s) /\ j + a - 1 < j + b - 1
        /\ part[a] = s[j + a - 1] /\ part[b] = s[j + b - 1]
    BY <1>1, <1>2
  <2>2. DOMAIN s = 1..Len(s)
    BY DEF Strings
  <2> QED
    BY <1>5, <2>1, <2>2 DEF InOrder
<1> QED
  BY <1>2, <1>4, <1>5 DEF part

\* The ink of a string is what its positions hold, and is split by any cut.
LEMMA WholeInk ==
    ASSUME NEW s \in Strings
    PROVE  /\ Ink(s) = Between(s, 1, Len(s)) /\ Ink(s) \subseteq Nat \ {0}
           /\ \A k \in 0..Len(s) : Ink(s) = Between(s, 1, k) \cup Between(s, k + 1, Len(s))
<1>1. DOMAIN s = 1..Len(s) /\ Len(s) \in Nat /\ \A i \in 1..Len(s) : s[i] \in Characters
  BY DEF Strings
<1>2. Ink(s) = Between(s, 1, Len(s)) /\ Ink(s) \subseteq Nat \ {0}
  BY <1>1 DEF Ink, Between, Characters, White, Space, OtherSpace
<1>3. ASSUME NEW k \in 0..Len(s)
      PROVE  Between(s, 1, Len(s)) = Between(s, 1, k) \cup Between(s, k + 1, Len(s))
  <2>1. 1..Len(s) = (1..k) \cup (k + 1 .. Len(s))
    BY <1>1
  <2> QED
    BY <2>1 DEF Between
<1> QED
  BY <1>2, <1>3

\* Wherever an excerpt is cut, both parts are excerpts, one going on after the other.
LEMMA Cut ==
    ASSUME NEW s \in Strings, NEW f \in Nat \ {0}, NEW t \in Nat, Excerpt(s, f, t), f <= t + 1,
           NEW k \in 0..Len(s)
    PROVE  \E r \in f - 1 .. t : /\ Between(s, 1, k) = f..r
                                 /\ Between(s, k + 1, Len(s)) = r + 1 .. t
<1> DEFINE A == Between(s, 1, k)
           B == Between(s, k + 1, Len(s))
<1>1. A \cup B = f..t
  BY WholeInk DEF Excerpt
<1>2. \A x \in A, y \in B : x < y
  <2> SUFFICES ASSUME NEW x \in A, NEW y \in B PROVE x < y
    OBVIOUS
  <2>1. PICK i \in 1..k : s[i] = x /\ x \notin White
    BY DEF Between
  <2>2. PICK j \in k + 1 .. Len(s) : s[j] = y /\ y \notin White
    BY DEF Between
  <2>3. i \in DOMAIN s /\ j \in DOMAIN s /\ i < j
    BY DEF Strings
  <2> QED
    BY <2>1, <2>2, <2>3 DEF Excerpt, InOrder
<1> HIDE DEF A, B
<1>3. CASE A = {}
  <2>1. f - 1 \in f - 1 .. t /\ f .. f - 1 = {} /\ (f - 1) + 1 = f
    OBVIOUS
  <2> QED
    BY <1>1, <1>3, <2>1 DEF A, B
<1>4. CASE A # {}
  <2>1. A \in SUBSET (1..t)
    BY <1>1
  <2>2. PICK r \in A : \A x \in A : x <= r
    BY <1>4, <2>1, Extremes
  <2>3. r \in f..t
    BY <1>1
  <2>4. A = f..r
    <3>1. ASSUME NEW x \in A PROVE x \in f..r
      BY <1>1, <2>2, <2>3
    <3>2. ASSUME NEW x \in f..r PROVE x \in A
      <4>1. x \in A \cup B /\ x <= r
        BY <1>1, <2>3
      <4> QED
        BY <1>2, <2>2, <2>3, <4>1
    <3> QED
      BY <3>1, <3>2
  <2>5. B = r + 1 .. t
    <3>1. ASSUME NEW x \in B PROVE x \in r + 1 .. t
      <4>1. x \in f..t /\ r < x
        BY <1>1, <1>2, <2>2
      <4> QED
        BY <4>1, <2>3
    <3>2. ASSUME NEW x \in r + 1 .. t PROVE x \in B
      <4>1. x \in A \cup B /\ x \notin A
        BY <1>1, <2>2, <2>3
      <4> QED
        BY <4>1
    <3> QED
      BY <3>1, <3>2
  <2> QED
    BY <2>3, <2>4, <2>5 DEF A, B
<1> QED
  BY <1>3, <1>4

\* What is between two cuts.
LEMMA Middle ==
    ASSUME NEW s \in Strings, NEW f \in Nat \ {0}, NEW t \in Nat, Excerpt(s, f, t), f <= t + 1,
           NEW k \in 0..Len(s), NEW l \in k..Len(s), NEW q \in f - 1 .. t, NEW r \in f - 1 .. t,
           Between(s, 1, k) = f..q, Between(s, k + 1, Len(s)) = q + 1 .. t,
           Between(s, 1, l) = f..r
    PROVE  q <= r /\ Between(s, k + 1, l) = q + 1 .. r
<1>1. Between(s, 1, k) \subseteq Between(s, 1, l)
  <2>1. 1..k \subseteq 1..l
    OBVIOUS
  <2> QED
    BY <2>1 DEF Between
<1>2. q <= r
  <2>1. CASE q = f - 1
    BY <2>1
  <2>2. CASE q \in f..t
    <3>1. q \in f..q
      BY <2>2
    <3>2. q \in f..r
      BY <1>1, <3>1
    <3> QED
      BY <3>2
  <2> QED
    BY <2>1, <2>2
<1>3. ASSUME NEW x \in Between(s, k + 1, l) PROVE x \in q + 1 .. r
  <2>1. PICK i \in k + 1 .. l : s[i] = x /\ x \notin White
    BY <1>3 DEF Between
  <2>2. i \in 1..l /\ i \in k + 1 .. Len(s)
    BY DEF Strings
  <2>3. x \in f..r /\ x \in q + 1 .. t
    BY <2>1, <2>2 DEF Between
  <2> QED
    BY <2>3
<1>4. ASSUME NEW x \in q + 1 .. r PROVE x \in Between(s, k + 1, l)
  <2>1. x \in f..r /\ x \in q + 1 .. t
    OBVIOUS
  <2>2. PICK i \in 1..l : s[i] = x /\ x \notin White
    BY <2>1 DEF Between
  <2>3. PICK j \in k + 1 .. Len(s) : s[j] = x
    BY <2>1 DEF Between
  <2>4. i \in DOMAIN s /\ j \in DOMAIN s /\ i \in Nat /\ j \in Nat
    BY DEF Strings
  <2>5. ~(i < j) /\ ~(j < i)
    BY <2>1, <2>2, <2>3, <2>4 DEF Excerpt, InOrder
  <2>6. i \in k + 1 .. l
    BY <2>3, <2>4, <2>5
  <2> QED
    BY <2>2, <2>6 DEF Between
<1> QED
  BY <1>2, <1>3, <1>4

\* Stripping takes white space away, and no more of it than there is.
LEMMA StripKeeps ==
    ASSUME NEW s \in Strings
    PROVE  /\ Strip(s) \in Strings /\ Len(Strip(s)) <= Len(s)
           /\ Ink(Strip(s)) = Ink(s)
           /\ InOrder(s) => InOrder(Strip(s))
           /\ \A k \in 0..Len(s) : Between(s, 1, k) = {} => Len(Strip(s)) <= Len(s) - k
<1> DEFINE inked == {i \in DOMAIN s : s[i] \notin White}
<1>1. DOMAIN s = 1..Len(s) /\ Len(s) \in Nat
  BY DEF Strings
<1>2. CASE inked = {}
  <2>1. Strip(s) = <<>>
    BY <1>2 DEF Strip
  <2>2. Ink(s) = {}
    BY <1>2 DEF Ink
  <2>3. Ink(<<>>) = {} /\ InOrder(<<>>) /\ <<>> \in Strings /\ Len(<<>>) = 0
    BY DEF Ink, InOrder, Strings
  <2> QED
    BY <1>1, <2>1, <2>2, <2>3
<1>3. CASE inked # {}
  <2> DEFINE lo == Min(inked)
             hi == Max(inked)
  <2>1. inked \in SUBSET (1..Len(s))
    BY <1>1
  <2>2. lo \in inked /\ hi \in inked /\ \A i \in inked : lo <= i /\ i <= hi
    <3> HIDE DEF inked
    <3> QED
      BY <1>1, <1>3, <2>1, Extremes
  <2>3. Strip(s) = SubSeq(s, lo, hi)
    BY <1>3 DEF Strip
  <2> HIDE DEF lo, hi
  <2>4. lo \in 1..Len(s) /\ hi \in 1..Len(s) /\ lo <= hi
    BY <2>1, <2>2
  <2>5. lo \in 1 .. Len(s) + 1 /\ hi \in lo - 1 .. Len(s)
    BY <1>1, <2>4
  <2>6. /\ Strip(s) \in Strings /\ Len(Strip(s)) = hi - lo + 1
        /\ Ink(Strip(s)) = Between(s, lo, hi)
        /\ InOrder(s) => InOrder(Strip(s))
    BY <2>3, <2>5, Slice
  <2>7. Between(s, lo, hi) = Ink(s)
    <3>1. ASSUME NEW x \in Ink(s) PROVE x \in Between(s, lo, hi)
      <4>1. PICK i \in inked : s[i] = x /\ x \notin White
        BY <3>1 DEF Ink
      <4>2. i \in lo..hi
        BY <1>1, <2>2, <2>4
      <4> QED
        BY <4>1, <4>2 DEF Between
    <3>2. lo..hi \subseteq DOMAIN s
      BY <1>1, <2>4
    <3> QED
      BY <3>1, <3>2 DEF Between, Ink
  <2>8. ASSUME NEW k \in 0..Len(s), Between(s, 1, k) = {}
        PROVE  hi - lo + 1 <= Len(s) - k
    <3>1. lo \notin 1..k
      BY <2>2, <2>8 DEF Between
    <3> QED
      BY <1>1, <2>4, <3>1
  <2> QED
    BY <1>1, <2>4, <2>6, <2>7, <2>8
<1> QED
  BY <1>2, <1>3

LEMMA Shift ==
    ASSUME NEW m \in Nat, NEW n \in Nat, NEW i \in Nat, i > m, i <= m + n
    PROVE  i - m \in 1..n /\ m + (i - m) = i
OBVIOUS

\* One sequence after another.
LEMMA Concat ==
    ASSUME NEW S, NEW a \in Seq(S), NEW b \in Seq(S)
    PROVE  /\ a \o b \in Seq(S) /\ Len(a \o b) = Len(a) + Len(b)
           /\ \A i \in 1..Len(a) : (a \o b)[i] = a[i]
           /\ \A i \in 1..Len(b) : (a \o b)[Len(a) + i] = b[i]
<1> DEFINE c == a \o b
<1>1. Len(a) \in Nat /\ Len(b) \in Nat
  OBVIOUS
<1>2. /\ c \in Seq(S) /\ Len(c) = Len(a) + Len(b)
      /\ \A i \in 1 .. Len(a) + Len(b) : c[i] = IF i <= Len(a) THEN a[i] ELSE b[i - Len(a)]
  BY ConcatProperties, Zenon
<1> HIDE DEF c
<1>3. \A i \in 1..Len(a) : i \in 1 .. Len(a) + Len(b) /\ i <= Len(a)
  BY <1>1
<1>4. \A i \in 1..Len(b) : /\ Len(a) + i \in 1 .. Len(a) + Len(b)
                           /\ ~(Len(a) + i <= Len(a)) /\ Len(a) + i - Len(a) = i
  BY <1>1
<1>5. ASSUME NEW i \in 1..Len(a) PROVE c[i] = a[i]
  BY <1>2, <1>3
<1>6. ASSUME NEW i \in 1..Len(b) PROVE c[Len(a) + i] = b[i]
  BY <1>2, <1>4
<1> QED
  BY <1>2, <1>5, <1>6, Zenon DEF c

\* Joining two strings makes no letter, loses none and keeps their order.
LEMMA JoinedKeeps ==
    ASSUME NEW a \in Strings, NEW b \in Strings
    PROVE  LET s == Joined(a, b)
           IN  /\ s \in Strings /\ Len(s) <= Len(a) + 1 + Len(b)
               /\ Ink(s) = Ink(a) \cup Ink(b)
               /\ Ink(a) = {} => \E k \in 0..Len(s) :
                                    Between(s, 1, k) = {} /\ Len(s) - k = Len(b)
               /\ InOrder(a) /\ InOrder(b) /\ (\A x \in Ink(a), y \in Ink(b) : x < y) => InOrder(s)
<1> DEFINE s == Joined(a, b)
           Joins(w) == /\ w \in Strings /\ Len(w) <= Len(a) + 1 + Len(b)
                       /\ Ink(w) = Ink(a) \cup Ink(b)
                       /\ Ink(a) = {} => \E k \in 0..Len(w) :
                                            Between(w, 1, k) = {} /\ Len(w) - k = Len(b)
                       /\ InOrder(a) /\ InOrder(b) /\ (\A x \in Ink(a), y \in Ink(b) : x < y)
                             => InOrder(w)
<1>1. Len(a) \in Nat /\ DOMAIN a = 1..Len(a) /\ Len(b) \in Nat /\ DOMAIN b = 1..Len(b)
  BY DEF Strings
<1>2. Ink(<<>>) = {} /\ Len(<<>>) = 0
  BY DEF Ink
<1>3. CASE a = <<>>
  <2>1. Between(b, 1, 0) = {}
    BY DEF Between
  <2>2. 0 \in 0..Len(b) /\ Len(b) - 0 = Len(b) /\ Len(b) <= Len(a) + 1 + Len(b)
    BY <1>1
  <2>3. Ink(b) = Ink(a) \cup Ink(b)
    BY <1>2, <1>3
  <2>4. Joins(b)
    BY <2>1, <2>2, <2>3, Zenon
  <2> QED
    BY <1>3, <2>4 DEF Joined
<1>4. CASE a # <<>> /\ b = <<>>
  <2>1. Len(a) \in 0..Len(a) /\ Len(a) - Len(a) = Len(b)
    BY <1>1, <1>2, <1>4
  <2>2. Ink(a) = {} => Between(a, 1, Len(a)) = {}
    BY WholeInk
  <2>3. Ink(a) = Ink(a) \cup Ink(b) /\ Len(a) <= Len(a) + 1 + Len(b)
    BY <1>1, <1>2, <1>4
  <2>4. Joins(a)
    BY <2>1, <2>2, <2>3, Zenon
  <2> QED
    BY <1>4, <2>4 DEF Joined
<1>5. CASE a # <<>> /\ b # <<>>
  <2> DEFINE j == a \o <<Space>> \o b
  <2>1. /\ j \in Strings /\ Len(j) = Len(a) + 1 + Len(b)
        /\ \A i \in 1..Len(a) : j[i] = a[i]
        /\ j[Len(a) + 1] \in White
        /\ \A i \in 1..Len(b) : j[Len(a) + 1 + i] = b[i]
    <3>1. <<Space>> \in Seq(Characters) /\ Len(<<Space>>) = 1 /\ <<Space>>[1] = Space
      BY DEF Space, Characters
    <3>2. PICK m : m = a \o <<Space>>
      OBVIOUS
    <3>3. m \in Seq(Characters) /\ Len(m) = Len(a) + 1 /\ m[Len(a) + 1] = Space
          /\ \A i \in 1..Len(a) : m[i] = a[i]
      BY <1>1, <3>1, <3>2, Concat DEF Strings
    <3>4. j = m \o b
      BY <3>2
    <3> HIDE DEF j
    <3>5. /\ j \in Seq(Characters) /\ Len(j) = Len(m) + Len(b)
          /\ \A i \in 1..Len(m) : j[i] = m[i]
          /\ \A i \in 1..Len(b) : j[Len(m) + i] = b[i]
      <4>1. b \in Seq(Characters)
        BY DEF Strings
      <4>2. m \in Seq(Characters)
        BY <3>3
      <4>3. /\ m \o b \in Seq(Characters) /\ Len(m \o b) = Len(m) + Len(b)
            /\ \A i \in 1..Len(m) : (m \o b)[i] = m[i]
            /\ \A i \in 1..Len(b) : (m \o b)[Len(m) + i] = b[i]
        BY <4>1, <4>2, Concat, SMT
      <4> QED
        BY <3>4, <4>3, Zenon
    <3>6. \A i \in 1..Len(a) : i \in 1 .. Len(a) + 1
      BY <1>1
    <3>7. Len(a) + 1 \in 1 .. Len(a) + 1
      BY <1>1
    <3> QED
      BY <3>3, <3>5, <3>6, <3>7 DEF Strings, White
  <2> HIDE DEF j
  <2>2. DOMAIN j = 1 .. Len(a) + 1 + Len(b)
    BY <2>1 DEF Strings
  <2>3. \A i \in DOMAIN j : \/ i \in 1..Len(a) \/ i = Len(a) + 1
                            \/ i - (Len(a) + 1) \in 1..Len(b) /\ Len(a) + 1 + (i - (Len(a) + 1)) = i
    BY <1>1, <2>2
  <2>4. Ink(j) = Ink(a) \cup Ink(b)
    <3>1. ASSUME NEW x \in Ink(j) PROVE x \in Ink(a) \cup Ink(b)
      <4>1. PICK i \in DOMAIN j : j[i] = x /\ x \notin White
        BY <3>1 DEF Ink
      <4>2. CASE i \in 1..Len(a)
        BY <1>1, <2>1, <4>1, <4>2 DEF Ink
      <4>3. CASE i - (Len(a) + 1) \in 1..Len(b) /\ Len(a) + 1 + (i - (Len(a) + 1)) = i
        <5>1. b[i - (Len(a) + 1)] = x
          BY <2>1, <4>1, <4>3
        <5> QED
          BY <1>1, <4>1, <4>3, <5>1 DEF Ink
      <4> QED
        BY <2>1, <2>3, <4>1, <4>2, <4>3
    <3>2. Ink(a) \subseteq Ink(j)
      BY <1>1, <2>1, <2>2 DEF Ink
    <3>3. ASSUME NEW x \in Ink(b) PROVE x \in Ink(j)
      <4>1. PICK i \in 1..Len(b) : b[i] = x /\ x \notin White
        BY <1>1, <3>3 DEF Ink
      <4>2. Len(a) + 1 + i \in DOMAIN j /\ j[Len(a) + 1 + i] = x
        BY <1>1, <2>1, <2>2, <4>1
      <4> QED
        BY <4>1, <4>2 DEF Ink
    <3> QED
      BY <3>1, <3>2, <3>3
  <2>5. ASSUME Ink(a) = {} PROVE Between(j, 1, Len(a) + 1) = {}
    <3>1. \A i \in 1..Len(a) : a[i] \in White
      BY <1>1, <2>5 DEF Ink
    <3>2. \A i \in 1 .. Len(a) + 1 : i \in 1..Len(a) \/ i = Len(a) + 1
      BY <1>1
    <3> QED
      BY <2>1, <3>1, <3>2 DEF Between
  <2>6. ASSUME InOrder(a), InOrder(b), \A x \in Ink(a), y \in Ink(b) : x < y PROVE InOrder(j)
    <3> SUFFICES ASSUME NEW i \in DOMAIN j, NEW k \in DOMAIN j, i < k,
                        j[i] \notin White, j[k] \notin White
                 PROVE  j[i] < j[k]
      BY DEF InOrder
    <3>1. i \in Nat /\ k \in Nat /\ i # Len(a) + 1 /\ k # Len(a) + 1
      BY <2>1, <2>2
    <3>2. CASE i \in 1..Len(a) /\ k \in 1..Len(a)
      BY <1>1, <2>1, <2>6, <3>2 DEF InOrder
    <3>3. CASE i \in 1..Len(a) /\ k \notin 1..Len(a)
      <4>1. k - (Len(a) + 1) \in 1..Len(b) /\ Len(a) + 1 + (k - (Len(a) + 1)) = k
        BY <2>3, <3>1, <3>3
      <4>2. j[i] = a[i] /\ j[k] = b[k - (Len(a) + 1)]
        BY <2>1, <3>3, <4>1
      <4>3. j[i] \in Ink(a) /\ j[k] \in Ink(b)
        BY <1>1, <3>3, <4>1, <4>2 DEF Ink
      <4> QED
        BY <2>6, <4>3
    <3>4. CASE i \notin 1..Len(a)
      <4>1. /\ i - (Len(a) + 1) \in 1..Len(b) /\ Len(a) + 1 + (i - (Len(a) + 1)) = i
            /\ k - (Len(a) + 1) \in 1..Len(b) /\ Len(a) + 1 + (k - (Len(a) + 1)) = k
            /\ i - (Len(a) + 1) < k - (Len(a) + 1)
        <5>1. i > Len(a) + 1 /\ k > Len(a) + 1
          BY <1>1, <2>2, <3>1, <3>4
        <5>2. i <= Len(a) + 1 + Len(b) /\ k <= Len(a) + 1 + Len(b)
          BY <1>1, <2>2
        <5>3. Len(a) + 1 \in Nat
          BY <1>1
        <5>4. /\ i - (Len(a) + 1) \in 1..Len(b) /\ Len(a) + 1 + (i - (Len(a) + 1)) = i
              /\ k - (Len(a) + 1) \in 1..Len(b) /\ Len(a) + 1 + (k - (Len(a) + 1)) = k
          BY <1>1, <3>1, <5>1, <5>2, <5>3, Shift
        <5>5. i - (Len(a) + 1) < k - (Len(a) + 1)
          BY <3>1, <5>3
        <5> QED
          BY <5>4, <5>5
      <4>2. j[i] = b[i - (Len(a) + 1)] /\ j[k] = b[k - (Len(a) + 1)]
        BY <2>1, <4>1
      <4> QED
        BY <1>1, <2>6, <4>1, <4>2 DEF InOrder
    <3> QED
      BY <3>2, <3>3, <3>4, <2>2, <1>1, <3>1
  <2>7. Len(a) + 1 \in 0..Len(j) /\ Len(j) - (Len(a) + 1) = Len(b)
    BY <1>1, <2>1
  <2>8. Joins(j)
    <3>1. Len(j) <= Len(a) + 1 + Len(b)
      BY <1>1, <2>1
    <3> QED
      BY <2>1, <2>4, <2>5, <2>6, <2>7, <3>1, Zenon
  <2>9. s = j
    BY <1>5 DEF Joined, j
  <2> QED
    BY <2>8, <2>9
<1> QED
  BY <1>3, <1>4, <1>5

\* The tail that the next chunk begins with is an end of the chunk, no longer than Overlap.
LEMMA TailIsEnd ==
    ASSUME NEW s \in Strings
    PROVE  \E k \in 0..Len(s) : /\ Len(s) - k <= Overlap
                                /\ OverlapTail(s) \in Strings
                                /\ Len(OverlapTail(s)) = Len(s) - k
                                /\ Ink(OverlapTail(s)) = Between(s, k + 1, Len(s))
                                /\ InOrder(s) => InOrder(OverlapTail(s))
<1> DEFINE End(w, k) == /\ Len(s) - k <= Overlap /\ w \in Strings
                        /\ Len(w) = Len(s) - k
                        /\ Ink(w) = Between(s, k + 1, Len(s))
                        /\ InOrder(s) => InOrder(w)
<1> USE Sizes
<1>1. Len(s) \in Nat
  BY DEF Strings
<1>2. CASE Overlap = 0
  <2>1. Ink(<<>>) = {} /\ InOrder(<<>>) /\ <<>> \in Strings /\ Len(<<>>) = 0
    BY DEF Ink, InOrder, Strings
  <2>2. Between(s, Len(s) + 1, Len(s)) = {}
    BY <1>1 DEF Between
  <2>3. Len(s) \in 0..Len(s) /\ Len(s) - Len(s) <= Overlap /\ Len(s) - Len(s) = 0
    BY <1>1, <1>2
  <2>4. OverlapTail(s) = <<>>
    BY <1>2 DEF OverlapTail
  <2>5. End(<<>>, Len(s))
    BY <2>1, <2>2, <2>3
  <2> QED
    BY <2>3, <2>4, <2>5, Zenon
<1>3. CASE Overlap # 0 /\ Len(s) <= Overlap
  <2>1. OverlapTail(s) = s
    BY <1>3 DEF OverlapTail
  <2>2. 0 \in 0..Len(s) /\ Len(s) - 0 = Len(s) /\ 0 + 1 = 1
    BY <1>1
  <2>3. End(s, 0)
    BY <1>3, <2>2, WholeInk
  <2> QED
    BY <2>1, <2>2, <2>3, Zenon
<1>4. CASE Overlap # 0 /\ ~(Len(s) <= Overlap)
  <2> DEFINE k == Len(s) - Overlap
             tail == SubSeq(s, Len(s) - Overlap + 1, Len(s))
             spaces == {i \in DOMAIN tail : tail[i] = Space}
  <2>1. /\ k \in 0..Len(s) /\ k + 1 \in 1 .. Len(s) + 1 /\ Len(s) \in (k + 1) - 1 .. Len(s)
        /\ Len(s) - k = Overlap /\ Len(s) - (k + 1) + 1 = Overlap
    BY <1>1, <1>4
  <2>2. /\ tail \in Strings /\ Len(tail) = Overlap /\ Ink(tail) = Between(s, k + 1, Len(s))
        /\ \A i \in 1..Overlap : tail[i] = s[k + i]
        /\ InOrder(s) => InOrder(tail)
    <3>1. \A i \in 1..Overlap : k + 1 + i - 1 = k + i
      BY <1>1
    <3> HIDE DEF k
    <3>2. tail = SubSeq(s, k + 1, Len(s))
      BY DEF k
    <3> HIDE DEF tail
    <3>3. /\ tail \in Strings /\ Len(tail) = Len(s) - (k + 1) + 1
          /\ Ink(tail) = Between(s, k + 1, Len(s))
          /\ \A i \in 1 .. Len(s) - (k + 1) + 1 : tail[i] = s[k + 1 + i - 1]
          /\ InOrder(s) => InOrder(tail)
      BY <2>1, <3>2, Slice
    <3> QED
      BY <2>1, <3>1, <3>3
  <2>3. CASE spaces = {}
    <3>1. OverlapTail(s) = tail
      BY <1>4, <2>3 DEF OverlapTail
    <3>2. End(tail, k)
      BY <2>1, <2>2
    <3> QED
      BY <2>1, <3>1, <3>2, Zenon
  <2>4. CASE spaces # {}
    <3> DEFINE m == Min(spaces)
               rest == SubSeq(tail, m + 1, Len(tail))
    <3>1. OverlapTail(s) = rest
      BY <1>4, <2>4 DEF OverlapTail
    <3>2. m \in 1..Overlap
      <4>1. spaces \in SUBSET (1..Overlap)
        BY <2>2 DEF Strings
      <4> HIDE DEF spaces
      <4> QED
        BY <2>4, <4>1, Extremes
    <3> HIDE DEF m, tail
    <3>3. /\ m + 1 \in 1 .. Len(tail) + 1 /\ Len(tail) \in (m + 1) - 1 .. Len(tail)
          /\ Len(tail) - (m + 1) + 1 = Overlap - m
      BY <2>2, <3>2
    <3>4. /\ rest \in Strings /\ Len(rest) = Overlap - m
          /\ Ink(rest) = Between(tail, m + 1, Overlap)
          /\ InOrder(s) => InOrder(rest)
      BY <2>2, <3>3, Slice
    <3>5. k + m \in 0..Len(s) /\ Len(s) - (k + m) = Overlap - m /\ Overlap - m <= Overlap
      BY <1>1, <2>1, <3>2
    <3>6. Between(tail, m + 1, Overlap) = Between(s, k + m + 1, Len(s))
      <4>1. ASSUME NEW x \in Between(tail, m + 1, Overlap)
            PROVE  x \in Between(s, k + m + 1, Len(s))
        <5>1. PICK i \in m + 1 .. Overlap : tail[i] = x /\ x \notin White
          BY DEF Between
        <5>2. k + i \in k + m + 1 .. Len(s) /\ i \in 1..Overlap
          BY <1>1, <3>2
        <5> QED
          BY <2>2, <5>1, <5>2 DEF Between
      <4>2. ASSUME NEW x \in Between(s, k + m + 1, Len(s))
            PROVE  x \in Between(tail, m + 1, Overlap)
        <5>1. PICK i \in k + m + 1 .. Len(s) : s[i] = x /\ x \notin White
          BY DEF Between
        <5>2. i - k \in m + 1 .. Overlap /\ i - k \in 1..Overlap /\ k + (i - k) = i
          BY <1>1, <1>4, <3>2
        <5>3. tail[i - k] = x
          BY <2>2, <5>1, <5>2
        <5> QED
          BY <5>1, <5>2, <5>3 DEF Between
      <4> QED
        BY <4>1, <4>2
    <3>7. End(rest, k + m)
      BY <3>4, <3>5, <3>6
    <3> QED
      BY <3>1, <3>5, <3>7, Zenon
  <2> QED
    BY <2>3, <2>4
<1> QED
  BY <1>2, <1>3, <1>4

\* A part of a string has no more letters than places.
LEMMA Counted ==
    ASSUME NEW s \in Strings, NEW k \in 0..Len(s), NEW r \in Nat, NEW t \in Nat,
           Between(s, k + 1, Len(s)) = r + 1 .. t
    PROVE  t - r <= Len(s) - k
<1>1. CASE t <= r
  BY <1>1 DEF Strings
<1>2. CASE r < t
  <2> DEFINE places == {i \in k + 1 .. Len(s) : s[i] \in r + 1 .. t}
             letter == [i \in places |-> s[i]]
  <2>1. letter \in Surjection(places, r + 1 .. t)
    <3>1. letter \in [places -> r + 1 .. t]
      OBVIOUS
    <3>2. ASSUME NEW x \in r + 1 .. t PROVE \E i \in places : letter[i] = x
      <4>1. PICK i \in k + 1 .. Len(s) : s[i] = x
        BY DEF Between
      <4> QED
        BY <4>1
    <3> QED
      BY <3>1, <3>2 DEF Surjection
  <2>2. IsFiniteSet(k + 1 .. Len(s)) /\ Cardinality(k + 1 .. Len(s)) <= Len(s) - k
    <3>1. k + 1 \in Int /\ Len(s) \in Int /\ k <= Len(s)
      BY DEF Strings
    <3>2. /\ IsFiniteSet(k + 1 .. Len(s))
          /\ Cardinality(k + 1 .. Len(s)) = IF k + 1 > Len(s) THEN 0 ELSE Len(s) - (k + 1) + 1
      BY <3>1, FS_Interval
    <3> QED
      BY <3>1, <3>2
  <2>3. IsFiniteSet(r + 1 .. t) /\ Cardinality(r + 1 .. t) = t - r
    <3>1. /\ IsFiniteSet(r + 1 .. t)
          /\ Cardinality(r + 1 .. t) = IF r + 1 > t THEN 0 ELSE t - (r + 1) + 1
      BY FS_Interval
    <3> QED
      BY <1>2, <3>1
  <2>4. IsFiniteSet(places) /\ Cardinality(places) <= Cardinality(k + 1 .. Len(s))
    <3>1. places \in SUBSET (k + 1 .. Len(s))
      OBVIOUS
    <3> HIDE DEF places
    <3> QED
      BY <2>2, <3>1, FS_Subset
  <2>5. Cardinality(r + 1 .. t) <= Cardinality(places)
    <3> HIDE DEF places, letter
    <3> QED
      BY <2>1, <2>4, FS_Surjection
  <2>6. Cardinality(places) \in Nat /\ Cardinality(k + 1 .. Len(s)) \in Nat
    BY <2>2, <2>4, FS_CardinalityType
  <2> HIDE DEF places
  <2> QED
    BY <2>2, <2>3, <2>4, <2>5, <2>6 DEF Strings
<1> QED
  BY <1>1, <1>2

LEMMA TailContinues ==
    ASSUME NEW s \in Strings, NEW f \in Nat \ {0}, NEW t \in Nat, Excerpt(s, f, t), f <= t + 1
    PROVE  \E b \in f .. t + 1 : /\ t + 1 <= b + Overlap
                                /\ Excerpt(OverlapTail(s), b, t)
                                /\ OverlapTail(s) \in Strings
                                /\ Len(OverlapTail(s)) <= Overlap
<1>1. PICK k \in 0..Len(s) : /\ Len(s) - k <= Overlap
                             /\ OverlapTail(s) \in Strings
                             /\ Len(OverlapTail(s)) = Len(s) - k
                             /\ Ink(OverlapTail(s)) = Between(s, k + 1, Len(s))
                             /\ InOrder(s) => InOrder(OverlapTail(s))
  BY TailIsEnd
<1>2. PICK r \in f - 1 .. t : Between(s, k + 1, Len(s)) = r + 1 .. t
  BY Cut
<1>3. r \in Nat /\ r + 1 \in f .. t + 1
  OBVIOUS
<1>4. t - r <= Len(s) - k
  BY <1>2, <1>3, Counted
<1>5. t + 1 <= (r + 1) + Overlap
  BY <1>1, <1>3, <1>4, Sizes DEF Strings
<1>6. Excerpt(OverlapTail(s), r + 1, t)
  BY <1>1, <1>2 DEF Excerpt
<1>7. Len(OverlapTail(s)) <= Overlap
  BY <1>1
<1> QED
  BY <1>1, <1>3, <1>5, <1>6, <1>7
--------------------------------------------------------------------------------
(* The loops: what each function is defined by *)

\* g holds what h makes, from base on, of each number up to N and the value before.
Computes(g, N, base, h) == g[0] = base /\ \A n \in 1..N : g[n] = h[<<g[n - 1], n>>]

LEMMA Recursion ==
    ASSUME NEW N \in Nat, NEW A, NEW base \in A, NEW h \in [A \X (1..N) -> A]
    PROVE  \E g \in [0..N -> A] : Computes(g, N, base, h)
<1> DEFINE Upto(g, n) == g[0] = base /\ \A i \in 1..n : g[i] = h[<<g[i - 1], i>>]
           P == {n \in 0..N : \E g \in [0..n -> A] : Upto(g, n)}
<1>1. 0 \in P
  <2> DEFINE g == [i \in 0..0 |-> base]
  <2>1. g \in [0..0 -> A] /\ g[0] = base /\ 1..0 = {} /\ 0 \in 0..N
    OBVIOUS
  <2> QED
    BY <2>1
<1>2. ASSUME NEW n \in 0 .. N - 1, n \in P PROVE n + 1 \in P
  <2>1. PICK g \in [0..n -> A] : Upto(g, n)
    BY <1>2
  <2>2. n + 1 \in 0..N /\ n + 1 \in 1..N /\ n \in Nat
    OBVIOUS
  <2>3. h[<<g[n], n + 1>>] \in A
    BY <2>2
  <2> DEFINE more == [i \in 0 .. n + 1 |-> IF i = n + 1 THEN h[<<g[n], n + 1>>] ELSE g[i]]
  <2>4. \A i \in 0 .. n + 1 : i # n + 1 => i \in 0..n
    OBVIOUS
  <2>5. more \in [0 .. n + 1 -> A]
    BY <2>3, <2>4
  <2>6. more[0] = base
    BY <2>1, <2>2
  <2>7. ASSUME NEW i \in 1 .. n + 1 PROVE more[i] = h[<<more[i - 1], i>>]
    <3>1. i - 1 \in 0 .. n + 1 /\ i - 1 # n + 1 /\ i \in 0 .. n + 1
      OBVIOUS
    <3>2. more[i - 1] = g[i - 1]
      BY <3>1
    <3>3. CASE i = n + 1
      <4>1. i - 1 = n /\ more[i] = h[<<g[n], n + 1>>]
        BY <3>1, <3>3
      <4> QED
        BY <3>2, <3>3, <4>1
    <3>4. CASE i # n + 1
      <4>1. i \in 1..n /\ more[i] = g[i]
        BY <3>1, <3>4
      <4> QED
        BY <2>1, <3>2, <4>1
    <3> QED
      BY <3>3, <3>4
  <2> HIDE DEF more
  <2> QED
    BY <2>2, <2>5, <2>6, <2>7
<1>3. N \in P
  <2> HIDE DEF P
  <2> QED
    BY <1>1, <1>2, Induction
<1> QED
  BY <1>3 DEF Computes

LEMMA WholeIs ==
    ASSUME NEW paragraph \in Seq(Strings)
    PROVE  \E g : /\ g[0] = <<>> /\ Whole(paragraph) = g[Len(paragraph)]
                 /\ \A n \in 1..Len(paragraph) : g[n] = Joined(g[n - 1], paragraph[n])
<1> DEFINE N == Len(paragraph)
           Sol(g) == g = [n \in 0..N |-> IF n = 0 THEN <<>> ELSE Joined(g[n - 1], paragraph[n])]
           loop == CHOOSE g : Sol(g)
           h == [x \in Strings \X (1..N) |-> Joined(x[1], paragraph[x[2]])]
<1>1. N \in Nat /\ <<>> \in Strings
  BY DEF Strings
<1>2. h \in [Strings \X (1..N) -> Strings]
  <2>1. \A n \in 1..N : paragraph[n] \in Strings
    OBVIOUS
  <2>2. \A x \in Strings \X (1..N) : Joined(x[1], paragraph[x[2]]) \in Strings
    BY <2>1, JoinedKeeps
  <2> QED
    BY <2>2
<1>3. \A a \in Strings, n \in 1..N : h[<<a, n>>] = Joined(a, paragraph[n])
  OBVIOUS
<1>4. PICK g \in [0..N -> Strings] : Computes(g, N, <<>>, h)
  <2> HIDE DEF N, h
  <2> QED
    BY <1>1, <1>2, Recursion
<1> HIDE DEF h
<1>5. \A n \in 1..N : n - 1 \in 0..N /\ n # 0 /\ n \in 0..N
  BY <1>1
<1>6. \A n \in 0..N : n # 0 => n \in 1..N
  BY <1>1
<1>7. Sol(g)
  BY <1>3, <1>4, <1>5, <1>6 DEF Computes
<1>8. Sol(loop)
  BY <1>7, Zenon
<1> HIDE DEF loop
<1>9. loop[0] = <<>> /\ \A n \in 1..N : loop[n] = Joined(loop[n - 1], paragraph[n])
  BY <1>1, <1>5, <1>8
<1>10. Whole(paragraph) = loop[N]
  BY DEF Whole, loop
<1> QED
  BY <1>9, <1>10

Packings == [chunks : Seq(Strings), current : Strings]

LEMMA PackUnitType ==
    ASSUME NEW p \in Packings, NEW u \in Strings
    PROVE  PackUnit(p, u) \in Packings
<1>1. Joined(p.current, u) \in Strings
  BY JoinedKeeps DEF Packings
<1>2. Strip(Joined(p.current, u)) \in Strings
  BY <1>1, StripKeeps
<1>3. Joined(OverlapTail(p.current), u) \in Strings
  BY TailIsEnd, JoinedKeeps DEF Packings
<1>4. Strip(Joined(OverlapTail(p.current), u)) \in Strings
  BY <1>3, StripKeeps
<1>5. Append(p.chunks, p.current) \in Seq(Strings)
  BY DEF Packings
<1> QED
  BY <1>2, <1>4, <1>5 DEF PackUnit, Packings

LEMMA PackedIs ==
    ASSUME NEW units \in Seq(Strings)
    PROVE  \E g : /\ g[0] = [chunks |-> <<>>, current |-> <<>>] /\ Packed(units) = g[Len(units)]
                 /\ \A n \in 1..Len(units) : g[n] = PackUnit(g[n - 1], units[n])
<1> DEFINE N == Len(units)
           Sol(g) == g = [n \in 0..N |-> IF n = 0 THEN [chunks |-> <<>>, current |-> <<>>] ELSE PackUnit(g[n - 1], units[n])]
           loop == CHOOSE g : Sol(g)
           h == [x \in Packings \X (1..N) |-> PackUnit(x[1], units[x[2]])]
<1>1. N \in Nat /\ [chunks |-> <<>>, current |-> <<>>] \in Packings
  BY DEF Strings, Packings
<1>2. h \in [Packings \X (1..N) -> Packings]
  <2>1. \A n \in 1..N : units[n] \in Strings
    OBVIOUS
  <2>2. \A x \in Packings \X (1..N) : PackUnit(x[1], units[x[2]]) \in Packings
    BY <2>1, PackUnitType
  <2> QED
    BY <2>2
<1>3. \A a \in Packings, n \in 1..N : h[<<a, n>>] = PackUnit(a, units[n])
  OBVIOUS
<1>4. PICK g \in [0..N -> Packings] : Computes(g, N, [chunks |-> <<>>, current |-> <<>>], h)
  <2> HIDE DEF N, h
  <2> QED
    BY <1>1, <1>2, Recursion
<1> HIDE DEF h
<1>5. \A n \in 1..N : n - 1 \in 0..N /\ n # 0 /\ n \in 0..N
  BY <1>1
<1>6. \A n \in 0..N : n # 0 => n \in 1..N
  BY <1>1
<1>7. Sol(g)
  BY <1>3, <1>4, <1>5, <1>6 DEF Computes
<1>8. Sol(loop)
  BY <1>7, Zenon
<1> HIDE DEF loop
<1>9. loop[0] = [chunks |-> <<>>, current |-> <<>>] /\ \A n \in 1..N : loop[n] = PackUnit(loop[n - 1], units[n])
  BY <1>1, <1>5, <1>8
<1>10. Packed(units) = loop[N]
  BY DEF Packed, loop
<1> QED
  BY <1>9, <1>10

LEMMA FlattenIs ==
    ASSUME NEW lists \in Seq(Seq(Strings)), lists # <<>>
    PROVE  \E g : /\ g[1] = lists[1] /\ FlattenSeq(lists) = g[Len(lists)]
                 /\ \A n \in 2..Len(lists) : g[n] = g[n - 1] \o lists[n]
<1> DEFINE N == Len(lists)
           Sol(g) == g = [n \in 1..N |-> IF n = 1 THEN lists[n] ELSE g[n - 1] \o lists[n]]
           loop == CHOOSE g : Sol(g)
           h == [x \in Seq(Strings) \X (1..N) |-> x[1] \o lists[x[2]]]
<1>1. N \in Nat \ {0} /\ <<>> \in Seq(Strings)
  BY EmptySeq
<1>2. h \in [Seq(Strings) \X (1..N) -> Seq(Strings)]
  <2>1. \A n \in 1..N : lists[n] \in Seq(Strings)
    OBVIOUS
  <2>2. \A x \in Seq(Strings) \X (1..N) : x[1] \o lists[x[2]] \in Seq(Strings)
    BY <2>1
  <2> QED
    BY <2>2
<1>3. \A a \in Seq(Strings), n \in 1..N : h[<<a, n>>] = a \o lists[n]
  OBVIOUS
<1>4. PICK g \in [0..N -> Seq(Strings)] : Computes(g, N, <<>>, h)
  <2>1. N \in Nat
    BY <1>1
  <2> HIDE DEF N, h
  <2> QED
    BY <1>1, <1>2, <2>1, Recursion
<1> HIDE DEF h
<1> DEFINE first == [n \in 1..N |-> g[n]]
<1>5. \A n \in 1..N : n - 1 \in 0..N /\ n \in 0..N /\ (n # 1 => n - 1 \in 1..N)
  BY <1>1
<1>6. Sol(first)
  <2>1. \A n \in 1..N : g[n] = g[n - 1] \o lists[n]
    BY <1>3, <1>4, <1>5 DEF Computes
  <2>2. g[1] = lists[1]
    <3>1. 1 \in 1..N /\ 1 - 1 = 0 /\ lists[1] \in Seq(Strings)
      BY <1>1
    <3>2. g[1] = <<>> \o lists[1]
      BY <1>4, <2>1, <3>1 DEF Computes
    <3> QED
      BY <3>1, <3>2, ConcatEmptySeq
  <2>3. ASSUME NEW n \in 1..N
        PROVE  first[n] = IF n = 1 THEN lists[n] ELSE first[n - 1] \o lists[n]
    BY <1>5, <2>1, <2>2
  <2> QED
    BY <2>3
<1>7. Sol(loop)
  BY <1>6, Zenon
<1> HIDE DEF loop
<1>8. loop[1] = lists[1] /\ \A n \in 2..N : loop[n] = loop[n - 1] \o lists[n]
  <2>1. 1 \in 1..N /\ \A n \in 2..N : n \in 1..N /\ n # 1
    BY <1>1
  <2> QED
    BY <1>7, <2>1
<1>9. FlattenSeq(lists) = loop[N]
  <2>1. Len(lists) # 0
    BY <1>1
  <2> QED
    BY <2>1 DEF FlattenSeq, loop
<1> QED
  BY <1>8, <1>9
--------------------------------------------------------------------------------
(* The units of a text *)

\* A unit that has the letters after one up to another.
IsUnit(u, from, to) == from <= to /\ Len(u) <= ChunkSize /\ Excerpt(u, from + 1, to)

\* reach tells the last letter up to each unit; the last unit has a letter.
Reaches(units, reach) ==
    /\ \A i \in 1..Len(units) : IsUnit(units[i], reach[i - 1], reach[i])
    /\ Len(units) # 0 => reach[Len(units) - 1] < reach[Len(units)]

Covers(units, from, to) ==
    /\ units \in Seq(Strings)
    /\ \E reach \in [0..Len(units) -> Nat] :
          reach[0] = from /\ reach[Len(units)] = to /\ Reaches(units, reach)

LEMMA OneUnit ==
    ASSUME NEW u \in Strings, NEW from \in Nat, NEW to \in Nat, IsUnit(u, from, to), from < to
    PROVE  Covers(<<u>>, from, to)
<1> DEFINE units == <<u>>
           reach == [i \in 0..1 |-> IF i = 0 THEN from ELSE to]
<1>1. units \in Seq(Strings) /\ Len(units) = 1 /\ units[1] = u
  OBVIOUS
<1>2. reach \in [0..1 -> Nat] /\ reach[0] = from /\ reach[1] = to
  OBVIOUS
<1> HIDE DEF units, reach
<1>3. \A i \in 1..1 : i = 1 /\ i - 1 = 0
  OBVIOUS
<1>4. Reaches(units, reach)
  BY <1>1, <1>2, <1>3 DEF Reaches
<1> QED
  BY <1>1, <1>2, <1>4 DEF Covers, units

LEMMA CoversConcat ==
    ASSUME NEW a \in Nat, NEW b \in Nat, NEW c \in Nat, NEW u, NEW v,
           Covers(u, a, b), Covers(v, b, c)
    PROVE  Covers(u \o v, a, c)
<1> DEFINE L == Len(u)
           M == Len(v)
           w == u \o v
<1>1. u \in Seq(Strings) /\ v \in Seq(Strings) /\ L \in Nat /\ M \in Nat
  BY DEF Covers
<1>2. PICK r \in [0..L -> Nat] : r[0] = a /\ r[L] = b /\ Reaches(u, r)
  BY DEF Covers
<1>3. PICK q \in [0..M -> Nat] : q[0] = b /\ q[M] = c /\ Reaches(v, q)
  BY DEF Covers
<1>4. /\ w \in Seq(Strings) /\ Len(w) = L + M
      /\ \A i \in 1..L : w[i] = u[i]
      /\ \A i \in 1..M : w[L + i] = v[i]
  BY <1>1, Concat
<1> DEFINE reach == [i \in 0 .. L + M |-> IF i <= L THEN r[i] ELSE q[i - L]]
<1> HIDE DEF L, M, w
<1>5. /\ reach \in [0 .. L + M -> Nat]
      /\ \A i \in 0..L : reach[i] = r[i]
      /\ \A i \in 0..M : reach[L + i] = q[i]
  <2>1. \A i \in 0 .. L + M : IF i <= L THEN i \in 0..L ELSE i - L \in 0..M
    BY <1>1
  <2>2. \A i \in 0..L : i \in 0 .. L + M /\ i <= L
    BY <1>1
  <2>3. \A i \in 0..M : L + i \in 0 .. L + M /\ (L + i <= L => i = 0) /\ L + i - L = i /\ L + 0 = L
    BY <1>1
  <2> QED
    BY <1>1, <1>2, <1>3, <2>1, <2>2, <2>3
<1> HIDE DEF reach
<1>6. ASSUME NEW i \in 1 .. L + M PROVE IsUnit(w[i], reach[i - 1], reach[i])
  <2>1. CASE i \in 1..L
    <3>1. i - 1 \in 0..L /\ i \in 0..L
      BY <1>1, <2>1
    <3>2. IsUnit(u[i], r[i - 1], r[i])
      BY <1>2, <2>1 DEF Reaches, L
    <3> QED
      BY <1>4, <1>5, <2>1, <3>1, <3>2
  <2>2. CASE i \notin 1..L
    <3>1. PICK j \in 1..M : i = L + j
      <4>1. i - L \in 1..M /\ L + (i - L) = i
        BY <1>1, <2>2
      <4> QED
        BY <4>1
    <3>2. i - 1 = L + (j - 1) /\ j - 1 \in 0..M /\ j \in 0..M
      BY <1>1, <3>1
    <3>3. IsUnit(v[j], q[j - 1], q[j])
      BY <1>3 DEF Reaches, M
    <3> QED
      BY <1>4, <1>5, <3>1, <3>2, <3>3
  <2> QED
    BY <2>1, <2>2
<1>7. ASSUME L + M # 0 PROVE reach[(L + M) - 1] < reach[L + M]
  <2>1. CASE M = 0
    <3>1. L # 0 /\ L + M = L /\ L - 1 \in 0..L /\ L \in 0..L
      BY <1>1, <1>7, <2>1
    <3>2. r[L - 1] < r[L]
      BY <1>2, <3>1 DEF Reaches, L
    <3> QED
      BY <1>5, <3>1, <3>2
  <2>2. CASE M # 0
    <3>1. (L + M) - 1 = L + (M - 1) /\ M - 1 \in 0..M /\ M \in 0..M
      BY <1>1, <2>2
    <3>2. q[M - 1] < q[M]
      BY <1>3, <2>2 DEF Reaches, M
    <3> QED
      BY <1>5, <3>1, <3>2
  <2> QED
    BY <2>1, <2>2
<1>8. Reaches(w, reach)
  BY <1>4, <1>6, <1>7 DEF Reaches
<1>9. reach[0] = a /\ reach[L + M] = c
  <2>1. 0 \in 0..L /\ M \in 0..M
    BY <1>1
  <2> QED
    BY <1>2, <1>3, <1>5, <2>1
<1>10. \E g \in [0..Len(w) -> Nat] : g[0] = a /\ g[Len(w)] = c /\ Reaches(w, g)
  BY <1>4, <1>5, <1>8, <1>9
<1> QED
  BY <1>4, <1>10 DEF Covers, w

LEMMA CoversFlatten ==
    ASSUME NEW lists \in Seq(Seq(Strings)), NEW ends \in [0..Len(lists) -> Nat],
           \A i \in 1..Len(lists) : Covers(lists[i], ends[i - 1], ends[i])
    PROVE  Covers(FlattenSeq(lists), ends[0], ends[Len(lists)])
<1> DEFINE N == Len(lists)
<1>1. N \in Nat
  OBVIOUS
<1>2. CASE N = 0
  <2>1. FlattenSeq(lists) = <<>>
    BY <1>2 DEF FlattenSeq
  <2> DEFINE none == <<>>
             reach == [i \in 0..0 |-> ends[0]]
  <2>2. none \in Seq(Strings) /\ Len(none) = 0
    BY EmptySeq
  <2>3. reach \in [0..0 -> Nat] /\ reach[0] = ends[0] /\ 1..0 = {}
    BY <1>2
  <2> HIDE DEF none, reach
  <2>4. Covers(none, ends[0], ends[0])
    BY <2>2, <2>3 DEF Covers, Reaches
  <2> QED
    BY <1>2, <2>1, <2>4 DEF none
<1>3. CASE N # 0
  <2>1. PICK g : /\ g[1] = lists[1] /\ FlattenSeq(lists) = g[N]
                 /\ \A n \in 2..N : g[n] = g[n - 1] \o lists[n]
    <3>1. lists # <<>>
      BY <1>3
    <3> QED
      BY <3>1, FlattenIs, Zenon
  <2> DEFINE P == {n \in 0..N : n # 0 => Covers(g[n], ends[0], ends[n])}
  <2>2. 0 \in P
    BY <1>1
  <2>3. ASSUME NEW n \in 0 .. N - 1, n \in P PROVE n + 1 \in P
    <3>1. n + 1 \in 1..N /\ n + 1 \in 0..N /\ (n + 1) - 1 = n /\ n \in 0..N /\ 0 \in 0..N
      BY <1>1
    <3>2. ends[0] \in Nat /\ ends[n] \in Nat /\ ends[n + 1] \in Nat
      BY <3>1
    <3>3. Covers(lists[n + 1], ends[n], ends[n + 1])
      BY <3>1
    <3>4. CASE n = 0
      BY <2>1, <3>1, <3>3, <3>4
    <3>5. CASE n # 0
      <4>1. n + 1 \in 2..N
        BY <1>1, <3>5
      <4>2. g[n + 1] = g[n] \o lists[n + 1]
        BY <2>1, <3>1, <4>1
      <4>3. Covers(g[n], ends[0], ends[n])
        BY <2>3, <3>5
      <4>4. Covers(g[n] \o lists[n + 1], ends[0], ends[n + 1])
        BY <3>2, <3>3, <4>3, CoversConcat
      <4> QED
        BY <3>1, <4>2, <4>4
    <3> QED
      BY <3>4, <3>5
  <2>4. N \in P
    <3> HIDE DEF P, N
    <3>1. \A n \in 0..N : n \in P
      BY <1>1, <2>2, <2>3, Induction
    <3> QED
      BY <1>1, <3>1
  <2> QED
    BY <1>3, <2>1, <2>4
<1> QED
  BY <1>2, <1>3

\* The arithmetic of HardSplit.
LEMMA Divided ==
    ASSUME NEW L \in Nat \ {0}, NEW c \in Nat \ {0}
    PROVE  LET q == (L + c - 1) \div c IN q \in Nat \ {0} /\ (q - 1) * c < L /\ L <= q * c
<1> DEFINE q == (L + c - 1) \div c
           m == (L + c - 1) % c
<1>1. q \in Int /\ m \in 0 .. c - 1 /\ L + c - 1 = q * c + m
  OBVIOUS
<1> HIDE DEF q, m
<1>2. q * c \in Int /\ (q - 1) * c = q * c - c
  BY <1>1
<1>3. (q - 1) * c < L /\ L <= q * c
  BY <1>1, <1>2
<1>4. q > 0
  <2>1. q <= 0 => q * c <= 0
    BY <1>1
  <2> QED
    BY <1>1, <1>3, <2>1
<1> QED
  BY <1>1, <1>3, <1>4 DEF q

LEMMA Times ==
    ASSUME NEW c \in Nat, NEW i \in Nat, NEW j \in Nat, i <= j
    PROVE  i * c <= j * c /\ i * c \in Nat /\ (i + 1) * c = i * c + c
<1>1. (j - i) * c \in Nat /\ i * c \in Nat
  OBVIOUS
<1>2. j * c = i * c + (j - i) * c
  OBVIOUS
<1>3. (i + 1) * c = i * c + c
  OBVIOUS
<1> QED
  BY <1>1, <1>2, <1>3

\* Where the pieces of L characters end.
LEMMA PieceEnds ==
    ASSUME NEW L \in Nat \ {0}
    PROVE  LET P == (L + ChunkSize - 1) \div ChunkSize
           IN  /\ P \in Nat \ {0}
               /\ \E end \in [0..P -> 0..L] :
                     /\ end[0] = 0 /\ end[P] = L /\ end[P - 1] < L
                     /\ \A i \in 1..P : /\ end[i - 1] = (i - 1) * ChunkSize
                                        /\ end[i] = Min({i * ChunkSize, L})
                                        /\ end[i - 1] <= end[i]
                                        /\ end[i] - end[i - 1] <= ChunkSize
<1> DEFINE C == ChunkSize
           P == (L + C - 1) \div C
           end == [i \in 0..P |-> IF i * C <= L THEN i * C ELSE L]
<1>1. C \in Nat \ {0}
  BY Sizes
<1>2. P \in Nat \ {0} /\ (P - 1) * C < L /\ L <= P * C
  BY <1>1, Divided
<1> HIDE DEF P, C
<1>3. \A i \in 0..P : i * C \in Nat
  BY <1>1, Times
<1>4. end \in [0..P -> 0..L]
  BY <1>3
<1>5. ASSUME NEW i \in 1..P PROVE (i - 1) * C < L /\ i * C = (i - 1) * C + C
  <2>1. i - 1 \in Nat /\ P - 1 \in Nat /\ i - 1 <= P - 1 /\ (i - 1) + 1 = i
    BY <1>2
  <2>2. (i - 1) * C <= (P - 1) * C /\ (i - 1) * C \in Nat /\ (P - 1) * C \in Nat
        /\ ((i - 1) + 1) * C = (i - 1) * C + C
    BY <1>1, <2>1, Times
  <2> QED
    BY <1>2, <2>1, <2>2
<1>6. end[0] = 0
  <2>1. 0 \in 0..P /\ 0 * C = 0
    BY <1>1, <1>2
  <2> QED
    BY <2>1
<1>7. end[P] = L
  <2>1. P \in 0..P /\ P * C \in Nat /\ (P * C <= L => P * C = L)
    BY <1>2, <1>3
  <2> QED
    BY <2>1
<1>8. ASSUME NEW i \in 1..P
      PROVE  /\ end[i - 1] = (i - 1) * C /\ end[i - 1] < L
             /\ end[i] = Min({i * C, L})
             /\ end[i - 1] <= end[i] /\ end[i] - end[i - 1] <= C
  <2>1. i - 1 \in 0..P /\ i \in 0..P
    BY <1>2
  <2>2. (i - 1) * C \in Nat /\ i * C \in Nat /\ (i - 1) * C < L /\ i * C = (i - 1) * C + C
    BY <1>3, <1>5, <2>1
  <2>3. end[i - 1] = (i - 1) * C
    BY <2>1, <2>2
  <2>4. end[i] = IF i * C <= L THEN i * C ELSE L
    BY <2>1
  <2> HIDE DEF end
  <2>5. ASSUME NEW a \in Nat, NEW b \in Nat PROVE Min({a, b}) = IF a <= b THEN a ELSE b
    <3>1. \A x \in {a, b} : (\A y \in {a, b} : x <= y) => x = IF a <= b THEN a ELSE b
      OBVIOUS
    <3>2. \E x \in {a, b} : \A y \in {a, b} : x <= y
      <4>1. CASE a <= b
        BY <4>1
      <4>2. CASE ~(a <= b)
        BY <4>2
      <4> QED
        BY <4>1, <4>2
    <3> QED
      BY <3>1, <3>2 DEF Min
  <2>6. Min({i * C, L}) = IF i * C <= L THEN i * C ELSE L
    BY <2>2, <2>5
  <2>7. end[i - 1] <= end[i] /\ end[i] - end[i - 1] <= C
    BY <1>1, <2>2, <2>3, <2>4
  <2> QED
    BY <2>2, <2>3, <2>4, <2>6, <2>7
<1>9. end[P - 1] < L
  <2>1. P \in 1..P
    BY <1>2
  <2> QED
    BY <1>8, <2>1
<1> QED
  BY <1>2, <1>4, <1>6, <1>7, <1>8, <1>9 DEF P, C

LEMMA SentenceFacts ==
    ASSUME NEW s \in Strings, IsSentence(s)
    PROVE  /\ s[1] \in Nat \ {0} /\ Last(s) \in Nat \ {0} /\ s[1] <= Last(s)
           /\ Len(s) \in Nat \ {0}
<1>1. Len(s) \in Nat \ {0} /\ 1 \in DOMAIN s /\ Len(s) \in DOMAIN s
  BY DEF IsSentence, Strings
<1>2. s[1] \in Nat \ {0} /\ Last(s) \in Nat \ {0}
  BY <1>1 DEF IsSentence, Strings, Characters, White, Space, OtherSpace, Last
<1>3. s[1] \in Ink(s)
  BY <1>1 DEF Ink, IsSentence
<1>4. s[1] \in s[1]..Last(s)
  BY <1>3 DEF IsSentence, Excerpt
<1> QED
  BY <1>1, <1>2, <1>4

LEMMA HardSplitCovers ==
    ASSUME NEW s \in Strings, IsSentence(s)
    PROVE  Covers(HardSplit(s), s[1] - 1, Last(s))
<1> DEFINE L == Len(s)
           f == s[1]
           t == Last(s)
           P == (L + ChunkSize - 1) \div ChunkSize
           pieces == HardSplit(s)
<1>1. f \in Nat \ {0} /\ t \in Nat \ {0} /\ f <= t /\ L \in Nat \ {0}
  BY SentenceFacts
<1>2. Excerpt(s, f, t) /\ s[L] = t
  BY DEF IsSentence, Last
<1>3. PICK end \in [0..P -> 0..L] :
         /\ P \in Nat \ {0}
         /\ end[0] = 0 /\ end[P] = L /\ end[P - 1] < L
         /\ \A i \in 1..P : /\ end[i - 1] = (i - 1) * ChunkSize
                            /\ end[i] = Min({i * ChunkSize, L})
                            /\ end[i - 1] <= end[i]
                            /\ end[i] - end[i - 1] <= ChunkSize
  <2> HIDE DEF L
  <2> QED
    BY <1>1, PieceEnds
<1>4. pieces = [i \in 1..P |-> SubSeq(s, end[i - 1] + 1, end[i])]
  BY <1>3 DEF HardSplit
<1> HIDE DEF f, t, P, pieces
<1> DEFINE Splits(k, r) == Between(s, 1, k) = f..r /\ Between(s, k + 1, L) = r + 1 .. t
           reach == [i \in 0..P |-> CHOOSE r \in f - 1 .. t : Splits(end[i], r)]
<1>5. ASSUME NEW i \in 0..P
      PROVE  reach[i] \in f - 1 .. t /\ reach[i] \in Nat /\ Splits(end[i], reach[i])
  <2>1. end[i] \in 0..L
    BY <1>3
  <2>2. \E r \in f - 1 .. t : Splits(end[i], r)
    BY <1>1, <1>2, <2>1, Cut
  <2> HIDE DEF Splits
  <2>3. reach[i] \in f - 1 .. t /\ Splits(end[i], reach[i])
    BY <2>2
  <2> QED
    BY <1>1, <2>3
<1> HIDE DEF reach
<1>6. reach[0] = f - 1
  <2>1. 0 \in 0..P
    BY <1>3
  <2>2. Between(s, 1, 0) = {}
    BY DEF Between
  <2>3. f..reach[0] = {}
    BY <1>3, <1>5, <2>1, <2>2
  <2> QED
    BY <1>1, <1>5, <2>1, <2>3
<1>7. reach[P] = t
  <2>1. P \in 0..P
    BY <1>3
  <2>2. Between(s, L + 1, L) = {}
    BY <1>1 DEF Between
  <2>3. reach[P] + 1 .. t = {}
    BY <1>3, <1>5, <2>1, <2>2
  <2>4. t \notin reach[P] + 1 .. t
    BY <2>3
  <2>5. reach[P] \in f - 1 .. t
    BY <1>5, <2>1
  <2> QED
    BY <1>1, <2>4, <2>5
<1>8. ASSUME NEW i \in 1..P
      PROVE  /\ reach[i - 1] <= reach[i]
             /\ Between(s, end[i - 1] + 1, end[i]) = reach[i - 1] + 1 .. reach[i]
             /\ pieces[i] \in Strings /\ Len(pieces[i]) <= ChunkSize
             /\ Excerpt(pieces[i], reach[i - 1] + 1, reach[i])
  <2>1. i - 1 \in 0..P /\ i \in 0..P
    BY <1>3
  <2>2. end[i - 1] \in 0..L /\ end[i] \in end[i - 1]..L
    <3>1. end[i - 1] \in 0..L /\ end[i] \in 0..L
      BY <1>3, <2>1
    <3>2. end[i - 1] <= end[i]
      BY <1>3
    <3> QED
      BY <1>1, <3>1, <3>2
  <2>3. /\ reach[i - 1] \in f - 1 .. t /\ Splits(end[i - 1], reach[i - 1])
        /\ reach[i] \in f - 1 .. t /\ Splits(end[i], reach[i])
    BY <1>5, <2>1
  <2>4. /\ reach[i - 1] <= reach[i]
        /\ Between(s, end[i - 1] + 1, end[i]) = reach[i - 1] + 1 .. reach[i]
    <3>1. f <= t + 1
      BY <1>1
    <3>2. PICK k, l, q, r : k = end[i - 1] /\ l = end[i] /\ q = reach[i - 1] /\ r = reach[i]
      OBVIOUS
    <3>3. /\ k \in 0..L /\ l \in k..L /\ q \in f - 1 .. t /\ r \in f - 1 .. t
          /\ Between(s, 1, k) = f..q /\ Between(s, k + 1, L) = q + 1 .. t
          /\ Between(s, 1, l) = f..r
      BY <2>2, <2>3, <3>2
    <3>4. q <= r /\ Between(s, k + 1, l) = q + 1 .. r
      BY <1>1, <1>2, <3>1, <3>3, Middle
    <3> QED
      BY <3>2, <3>4
  <2>5. /\ end[i - 1] + 1 \in 1 .. L + 1 /\ end[i] \in (end[i - 1] + 1) - 1 .. L
        /\ end[i] - (end[i - 1] + 1) + 1 = end[i] - end[i - 1]
    BY <1>1, <2>2
  <2>6. pieces[i] = SubSeq(s, end[i - 1] + 1, end[i])
    BY <1>4
  <2>7. /\ pieces[i] \in Strings /\ Len(pieces[i]) = end[i] - (end[i - 1] + 1) + 1
        /\ Ink(pieces[i]) = Between(s, end[i - 1] + 1, end[i])
        /\ InOrder(s) => InOrder(pieces[i])
    BY <2>5, <2>6, Slice
  <2>8. Len(pieces[i]) <= ChunkSize
    BY <1>3, <2>5, <2>7
  <2> QED
    BY <1>2, <2>4, <2>7, <2>8 DEF Excerpt
<1>9. reach[P - 1] < reach[P]
  <2>1. P \in 1..P /\ P - 1 \in 0..P /\ P \in 0..P
    BY <1>3
  <2>2. L \in end[P - 1] + 1 .. L
    BY <1>1, <1>3, <2>1
  <2>3. t \notin White
    BY <1>1 DEF White, Space, OtherSpace
  <2>4. t \in Between(s, end[P - 1] + 1, L)
    BY <1>2, <2>2, <2>3 DEF Between
  <2>5. t \in reach[P - 1] + 1 .. reach[P]
    BY <1>3, <1>8, <2>1, <2>4
  <2> QED
    BY <1>5, <2>1, <2>5
<1>10. pieces \in Seq(Strings) /\ Len(pieces) = P
  <2>1. \A i \in 1..P : SubSeq(s, end[i - 1] + 1, end[i]) \in Strings
    BY <1>4, <1>8
  <2> QED
    BY <1>3, <1>4, <2>1
<1>11. Reaches(pieces, reach)
  BY <1>8, <1>9, <1>10 DEF Reaches, IsUnit
<1>12. reach \in [0..P -> Nat]
  BY <1>5 DEF reach
<1>13. Covers(pieces, f - 1, t)
  BY <1>6, <1>7, <1>10, <1>11, <1>12 DEF Covers
<1> QED
  BY <1>13 DEF f, t, pieces

LEMMA SentenceUnitsCover ==
    ASSUME NEW s \in Strings, IsSentence(s)
    PROVE  Covers(SentenceUnits(s), s[1] - 1, Last(s))
<1>1. s[1] \in Nat \ {0} /\ Last(s) \in Nat \ {0} /\ s[1] <= Last(s)
  BY SentenceFacts
<1>2. CASE Len(s) <= ChunkSize
  <2>1. /\ s[1] - 1 \in Nat /\ Last(s) \in Nat /\ s[1] - 1 < Last(s) /\ s[1] - 1 <= Last(s)
        /\ (s[1] - 1) + 1 = s[1]
    BY <1>1
  <2>2. IsUnit(s, s[1] - 1, Last(s))
    BY <1>2, <2>1 DEF IsUnit, IsSentence
  <2>3. Covers(<<s>>, s[1] - 1, Last(s))
    BY <2>1, <2>2, OneUnit
  <2> QED
    BY <1>2, <2>3 DEF SentenceUnits
<1>3. CASE ~(Len(s) <= ChunkSize)
  BY <1>3, HardSplitCovers DEF SentenceUnits
<1> QED
  BY <1>2, <1>3

\* Sentences whose letters follow each other.
IsParagraph(p) ==
    /\ p \in Seq(Strings) /\ p # <<>>
    /\ \A n \in 1..Len(p) : IsSentence(p[n])
    /\ \A n \in 2..Len(p) : p[n][1] = Last(p[n - 1]) + 1

LEMMA ParagraphFacts ==
    ASSUME NEW p, IsParagraph(p)
    PROVE  /\ Len(p) \in Nat \ {0} /\ p[1][1] \in Nat \ {0}
           /\ \A n \in 1..Len(p) :
                 p[n] \in Strings /\ Last(p[n]) \in Nat \ {0} /\ p[1][1] <= Last(p[n])
<1>1. Len(p) \in Nat \ {0} /\ \A n \in 1..Len(p) : p[n] \in Strings
  BY DEF IsParagraph
<1>2. \A n \in 1..Len(p) :
         p[n][1] \in Nat \ {0} /\ Last(p[n]) \in Nat \ {0} /\ p[n][1] <= Last(p[n])
  BY <1>1, SentenceFacts DEF IsParagraph
<1>3. 1 \in 1..Len(p)
  BY <1>1
<1> DEFINE P == {n \in 0..Len(p) : n # 0 => p[1][1] <= Last(p[n])}
<1>4. 0 \in P
  BY <1>1
<1>5. ASSUME NEW n \in 0 .. Len(p) - 1, n \in P PROVE n + 1 \in P
  <2>1. n + 1 \in 0..Len(p) /\ n + 1 \in 1..Len(p) /\ (n + 1) - 1 = n
    BY <1>1
  <2>2. CASE n = 0
    BY <1>2, <1>3, <2>1, <2>2
  <2>3. CASE n # 0
    <3>1. n + 1 \in 2..Len(p) /\ n \in 1..Len(p)
      BY <1>1, <2>3
    <3>2. p[n + 1][1] = Last(p[n]) + 1
      BY <2>1, <3>1 DEF IsParagraph
    <3>3. p[1][1] <= Last(p[n])
      BY <1>5, <2>3
    <3> QED
      BY <1>2, <1>3, <2>1, <3>1, <3>2, <3>3
  <2> QED
    BY <2>2, <2>3
<1>6. \A n \in 0..Len(p) : n \in P
  <2> HIDE DEF P
  <2> QED
    BY <1>1, <1>4, <1>5, Induction
<1>7. \A n \in 1..Len(p) : p[1][1] <= Last(p[n])
  BY <1>1, <1>6
<1> QED
  BY <1>1, <1>2, <1>3, <1>7

\* Joining two excerpts that follow each other.
LEMMA JoinExcerpts ==
    ASSUME NEW u \in Strings, NEW v \in Strings, NEW f \in Nat, NEW t \in Nat, NEW q \in Nat,
           f <= t + 1, t <= q, Excerpt(u, f, t), Excerpt(v, t + 1, q)
    PROVE  Joined(u, v) \in Strings /\ Excerpt(Joined(u, v), f, q)
<1>1. \A x \in Ink(u), y \in Ink(v) : x < y
  BY DEF Excerpt
<1>2. Ink(u) \cup Ink(v) = f..q
  <2>1. (f..t) \cup (t + 1 .. q) = f..q
    OBVIOUS
  <2> QED
    BY <2>1 DEF Excerpt
<1> QED
  BY <1>1, <1>2, JoinedKeeps DEF Excerpt

LEMMA WholeIsExcerpt ==
    ASSUME NEW p, IsParagraph(p)
    PROVE  Whole(p) \in Strings /\ Excerpt(Whole(p), p[1][1], Last(Last(p)))
<1> DEFINE N == Len(p)
<1>1. p \in Seq(Strings)
  BY DEF IsParagraph
<1>2. /\ N \in Nat \ {0} /\ p[1][1] \in Nat \ {0}
      /\ \A n \in 1..N : p[n] \in Strings /\ Last(p[n]) \in Nat \ {0} /\ p[1][1] <= Last(p[n])
  BY ParagraphFacts
<1>3. PICK g : /\ g[0] = <<>> /\ Whole(p) = g[N]
               /\ \A n \in 1..N : g[n] = Joined(g[n - 1], p[n])
  BY <1>1, WholeIs
<1> DEFINE P == {n \in 0..N : n # 0 => g[n] \in Strings /\ Excerpt(g[n], p[1][1], Last(p[n]))}
<1>4. 0 \in P
  BY <1>2
<1>5. ASSUME NEW n \in 0 .. N - 1, n \in P PROVE n + 1 \in P
  <2>1. n + 1 \in 0..N /\ n + 1 \in 1..N /\ (n + 1) - 1 = n
    BY <1>2
  <2>2. g[n + 1] = Joined(g[n], p[n + 1])
    BY <1>3, <2>1
  <2>3. Excerpt(p[n + 1], p[n + 1][1], Last(p[n + 1]))
    BY <2>1 DEF IsParagraph, IsSentence
  <2>4. CASE n = 0
    <3>1. g[n + 1] = p[1] /\ n + 1 = 1
      BY <1>3, <2>2, <2>4 DEF Joined
    <3> QED
      BY <1>2, <2>1, <2>3, <3>1
  <2>5. CASE n # 0
    <3>1. n + 1 \in 2..N /\ n \in 1..N
      BY <1>2, <2>5
    <3>2. p[n + 1][1] = Last(p[n]) + 1
      BY <2>1, <3>1 DEF IsParagraph
    <3>3. g[n] \in Strings /\ Excerpt(g[n], p[1][1], Last(p[n]))
      BY <1>5, <2>5
    <3>4. /\ p[n + 1] \in Strings /\ p[1][1] \in Nat /\ Last(p[n]) \in Nat /\ Last(p[n + 1]) \in Nat
          /\ p[1][1] <= Last(p[n]) + 1
      BY <1>2, <2>1, <3>1
    <3>5. Last(p[n]) <= Last(p[n + 1])
      <4>1. p[n + 1][1] \in Nat /\ p[n + 1][1] <= Last(p[n + 1])
        BY <2>1, <3>4, SentenceFacts DEF IsParagraph
      <4> QED
        BY <3>2, <3>4, <4>1
    <3>6. Joined(g[n], p[n + 1]) \in Strings
          /\ Excerpt(Joined(g[n], p[n + 1]), p[1][1], Last(p[n + 1]))
      BY <2>3, <3>2, <3>3, <3>4, <3>5, JoinExcerpts
    <3> QED
      BY <2>1, <2>2, <3>6
  <2> QED
    BY <2>4, <2>5
<1>6. N \in P
  <2> HIDE DEF P, N
  <2>1. \A n \in 0..N : n \in P
    BY <1>2, <1>4, <1>5, Induction
  <2> QED
    BY <1>2, <2>1
<1>7. Last(p) = p[N]
  BY DEF Last
<1> QED
  BY <1>2, <1>3, <1>6, <1>7

LEMMA ParagraphUnitsCover ==
    ASSUME NEW p, IsParagraph(p)
    PROVE  Covers(ParagraphUnits(p), p[1][1] - 1, Last(Last(p)))
<1> DEFINE N == Len(p)
           from == p[1][1] - 1
           to == Last(Last(p))
<1>1. p \in Seq(Strings) /\ DOMAIN p = 1..N /\ Last(p) = p[N]
  BY DEF IsParagraph, Last
<1>2. /\ N \in Nat \ {0} /\ p[1][1] \in Nat \ {0}
      /\ \A n \in 1..N : p[n] \in Strings /\ Last(p[n]) \in Nat \ {0} /\ p[1][1] <= Last(p[n])
  BY ParagraphFacts
<1>3. from \in Nat /\ to \in Nat /\ from < to /\ from <= to /\ from + 1 = p[1][1]
  <2>1. N \in 1..N
    BY <1>2
  <2>2. to \in Nat \ {0} /\ p[1][1] <= to
    BY <1>1, <1>2, <2>1
  <2> QED
    BY <1>2, <2>2
<1>4. CASE Len(Whole(p)) <= ChunkSize
  <2>1. Whole(p) \in Strings /\ IsUnit(Whole(p), from, to)
    BY <1>3, <1>4, WholeIsExcerpt DEF IsUnit
  <2> HIDE DEF from, to
  <2>2. Covers(<<Whole(p)>>, from, to)
    BY <1>3, <2>1, OneUnit
  <2>3. ParagraphUnits(p) = <<Whole(p)>>
    BY <1>4 DEF ParagraphUnits
  <2> QED
    BY <2>2, <2>3 DEF from, to
<1>5. CASE ~(Len(Whole(p)) <= ChunkSize)
  <2> DEFINE lists == [n \in 1..N |-> SentenceUnits(p[n])]
             ends == [n \in 0..N |-> IF n = 0 THEN from ELSE Last(p[n])]
  <2>1. ends \in [0..N -> Nat]
    <3>1. \A n \in 0..N : n # 0 => n \in 1..N
      BY <1>2
    <3> HIDE DEF from
    <3> QED
      BY <1>2, <1>3, <3>1
  <2>2. ASSUME NEW n \in 1..N PROVE Covers(lists[n], ends[n - 1], ends[n])
    <3>1. n \in 0..N /\ n - 1 \in 0..N /\ n # 0
      BY <1>2
    <3>2. Covers(SentenceUnits(p[n]), p[n][1] - 1, Last(p[n]))
      BY <1>2, SentenceUnitsCover DEF IsParagraph
    <3>3. ends[n - 1] = p[n][1] - 1
      <4>1. CASE n = 1
        BY <1>2, <4>1
      <4>2. CASE n # 1
        <5>1. n \in 2..N /\ n - 1 # 0 /\ n - 1 \in 1..N
          BY <1>2, <4>2
        <5>2. p[n][1] = Last(p[n - 1]) + 1
          BY <5>1 DEF IsParagraph
        <5>3. ends[n - 1] = Last(p[n - 1])
          BY <3>1, <5>1
        <5>4. Last(p[n - 1]) \in Nat
          BY <1>2, <5>1
        <5> QED
          BY <5>2, <5>3, <5>4
      <4> QED
        BY <4>1, <4>2
    <3> QED
      BY <3>1, <3>2, <3>3
  <2>3. lists \in Seq(Seq(Strings)) /\ Len(lists) = N
    <3>1. \A n \in 1..N : SentenceUnits(p[n]) \in Seq(Strings)
      BY <2>2 DEF Covers
    <3> QED
      BY <1>2, <3>1
  <2>4. ends[0] = from /\ ends[N] = to
    BY <1>1, <1>2
  <2>5. ParagraphUnits(p) = FlattenSeq(lists)
    BY <1>1, <1>5 DEF ParagraphUnits
  <2> HIDE DEF lists, ends
  <2>6. Covers(FlattenSeq(lists), ends[0], ends[N])
    BY <2>1, <2>2, <2>3, CoversFlatten
  <2> QED
    BY <2>4, <2>5, <2>6
<1> QED
  BY <1>4, <1>5

LEMMA UnitsCover ==
    ASSUME NEW text, IsText(text)
    PROVE  Covers(Units(text), 0, Size(text)) /\ Size(text) \in Nat
<1> DEFINE N == Len(text)
           lists == [i \in 1..N |-> ParagraphUnits(text[i])]
           ends == [i \in 0..N |-> IF i = 0 THEN 0 ELSE Last(Last(text[i]))]
<1>1. text \in Seq(Seq(Strings)) /\ N \in Nat /\ DOMAIN text = 1..N
  BY DEF IsText, Strings
<1>2. ASSUME NEW i \in 1..N PROVE IsParagraph(text[i])
  <2>1. text[i] \in Seq(Strings) /\ DOMAIN text[i] = 1..Len(text[i])
    BY <1>1
  <2> QED
    BY <1>1, <2>1 DEF IsText, IsParagraph
<1>3. \A i \in 1..N : text[i][1][1] \in Nat \ {0} /\ Last(Last(text[i])) \in Nat
  <2>1. TAKE i \in 1..N
  <2>2. Last(text[i]) = text[i][Len(text[i])]
    BY DEF Last
  <2> QED
    BY <1>2, <2>2, ParagraphFacts
<1>4. \A i \in 0..N : i # 0 => i \in 1..N
  BY <1>1
<1>5. ends \in [0..N -> Nat]
  BY <1>3, <1>4
<1>6. ASSUME NEW i \in 1..N PROVE Covers(lists[i], ends[i - 1], ends[i])
  <2>1. i \in 0..N /\ i - 1 \in 0..N /\ i # 0
    BY <1>1
  <2>2. Covers(ParagraphUnits(text[i]), text[i][1][1] - 1, Last(Last(text[i])))
    BY <1>2, ParagraphUnitsCover
  <2>3. ends[i - 1] = text[i][1][1] - 1
    <3>1. CASE i = 1
      <4>1. text # <<>> /\ i - 1 = 0
        BY <1>1, <3>1
      <4>2. text[i][1][1] = 1
        BY <3>1, <4>1 DEF IsText
      <4> QED
        BY <2>1, <4>1, <4>2
    <3>2. CASE i # 1
      <4>1. i \in 2..N /\ i - 1 # 0 /\ i - 1 \in 1..N
        BY <1>1, <3>2
      <4>2. text[i][1][1] = Last(Last(text[i - 1])) + 1
        BY <4>1 DEF IsText
      <4>3. ends[i - 1] = Last(Last(text[i - 1]))
        BY <2>1, <4>1
      <4> QED
        BY <1>3, <4>1, <4>2, <4>3
    <3> QED
      BY <3>1, <3>2
  <2> QED
    BY <2>1, <2>2, <2>3
<1>7. lists \in Seq(Seq(Strings)) /\ Len(lists) = N
  <2>1. \A i \in 1..N : ParagraphUnits(text[i]) \in Seq(Strings)
    BY <1>6 DEF Covers
  <2> QED
    BY <1>1, <2>1
<1>8. ends[0] = 0 /\ ends[N] = Size(text)
  <2>1. 0 \in 0..N /\ N \in 0..N /\ (N = 0 <=> text = <<>>)
    BY <1>1
  <2>2. Last(text) = text[N]
    BY DEF Last
  <2> QED
    BY <2>1, <2>2 DEF Size
<1>9. Units(text) = FlattenSeq(lists)
  BY <1>1 DEF Units
<1>10. ends[N] \in Nat
  BY <1>1, <1>5
<1> HIDE DEF lists, ends
<1>11. Covers(FlattenSeq(lists), ends[0], ends[N])
  BY <1>5, <1>6, <1>7, CoversFlatten
<1> QED
  BY <1>8, <1>9, <1>10, <1>11
--------------------------------------------------------------------------------
(* Packing the units *)

Budget == ChunkSize + Overlap + 1

\* A chunk that goes on where the last one ended, or overlaps it.
Follows(chunk, last, f, t) ==
    /\ 1 <= f /\ f <= last + 1 /\ last + 1 <= f + Overlap
    /\ f <= t /\ last <= t
    /\ Excerpt(chunk, f, t) /\ Len(chunk) <= Budget

Starts(chunks, from, to) ==
    \A i \in 1..Len(chunks) : Follows(chunks[i], to[i - 1], from[i], to[i])

\* The chunks are excerpts that follow each other and reach letter m.
Run(chunks, m) ==
    /\ chunks \in Seq(Strings)
    /\ \E from \in [0..Len(chunks) -> Nat], to \in [0..Len(chunks) -> Nat] :
          to[0] = 0 /\ to[Len(chunks)] = m /\ Starts(chunks, from, to)

\* The chunks reach letter m; the current one has what the next is to begin with, and
\* all up to the last letter of the units so far.
IsPacked(packed, last) ==
    /\ packed \in Packings /\ Len(packed.current) <= Budget
    /\ \E m \in 0..last : \E a \in 1 .. m + 1 :
          Run(packed.chunks, m) /\ m + 1 <= a + Overlap /\ Excerpt(packed.current, a, last)

LEMMA RunAppend ==
    ASSUME NEW chunks, NEW m \in Nat, Run(chunks, m), NEW chunk \in Strings,
           NEW f \in Nat, NEW t \in Nat, Follows(chunk, m, f, t)
    PROVE  Run(Append(chunks, chunk), t)
<1> DEFINE L == Len(chunks)
           more == Append(chunks, chunk)
<1>1. chunks \in Seq(Strings) /\ L \in Nat
  BY DEF Run
<1>2. PICK from \in [0..L -> Nat], to \in [0..L -> Nat] :
         to[0] = 0 /\ to[L] = m /\ Starts(chunks, from, to)
  BY DEF Run
<1>3. /\ more \in Seq(Strings) /\ Len(more) = L + 1 /\ more[L + 1] = chunk
      /\ \A i \in 1..L : more[i] = chunks[i]
  BY <1>1, AppendProperties
<1> DEFINE from2 == [i \in 0 .. L + 1 |-> IF i = L + 1 THEN f ELSE from[i]]
           to2 == [i \in 0 .. L + 1 |-> IF i = L + 1 THEN t ELSE to[i]]
<1> HIDE DEF L, more
<1>4. \A i \in 0 .. L + 1 : i # L + 1 => i \in 0..L
  BY <1>1
<1>5. from2 \in [0 .. L + 1 -> Nat] /\ to2 \in [0 .. L + 1 -> Nat]
  BY <1>2, <1>4
<1>6. 0 \in 0 .. L + 1 /\ 0 # L + 1 /\ L + 1 \in 0 .. L + 1
  BY <1>1
<1>7. to2[0] = 0 /\ to2[L + 1] = t
  BY <1>2, <1>6
<1>8. ASSUME NEW i \in 1 .. L + 1 PROVE Follows(more[i], to2[i - 1], from2[i], to2[i])
  <2>1. i - 1 \in 0 .. L + 1 /\ i - 1 # L + 1 /\ i \in 0 .. L + 1
    BY <1>1
  <2>2. to2[i - 1] = to[i - 1]
    BY <2>1
  <2>3. CASE i = L + 1
    <3>1. i - 1 = L /\ from2[i] = f /\ to2[i] = t
      BY <1>1, <2>1, <2>3
    <3> QED
      BY <1>2, <1>3, <2>2, <2>3, <3>1
  <2>4. CASE i # L + 1
    <3>1. i \in 1..L /\ from2[i] = from[i] /\ to2[i] = to[i]
      BY <1>1, <2>1, <2>4
    <3>2. Follows(chunks[i], to[i - 1], from[i], to[i])
      BY <1>2, <3>1 DEF Starts, L
    <3> QED
      BY <1>3, <2>2, <3>1, <3>2
  <2> QED
    BY <2>3, <2>4
<1> HIDE DEF from2, to2
<1>9. Starts(more, from2, to2)
  BY <1>3, <1>8 DEF Starts
<1>10. Run(more, t)
  BY <1>3, <1>5, <1>7, <1>9 DEF Run
<1> QED
  BY <1>10 DEF more

\* What is joined to an excerpt and stripped goes on with it.
LEMMA StripJoined ==
    ASSUME NEW u \in Strings, NEW v \in Strings, NEW f \in Nat, NEW t \in Nat, NEW q \in Nat,
           f <= t + 1, t <= q, Excerpt(u, f, t), Excerpt(v, t + 1, q)
    PROVE  LET w == Strip(Joined(u, v))
           IN  /\ w \in Strings /\ Excerpt(w, f, q) /\ Len(w) <= Len(u) + 1 + Len(v)
               /\ Ink(u) = {} => Len(w) <= Len(v)
<1> DEFINE j == Joined(u, v)
           w == Strip(j)
<1>1. j \in Strings /\ Excerpt(j, f, q)
  BY JoinExcerpts
<1>2. /\ Len(j) <= Len(u) + 1 + Len(v)
      /\ Ink(u) = {} => \E k \in 0..Len(j) : Between(j, 1, k) = {} /\ Len(j) - k = Len(v)
  BY JoinedKeeps
<1> HIDE DEF j
<1>3. /\ w \in Strings /\ Len(w) <= Len(j) /\ Ink(w) = Ink(j)
      /\ InOrder(j) => InOrder(w)
      /\ \A k \in 0..Len(j) : Between(j, 1, k) = {} => Len(w) <= Len(j) - k
  BY <1>1, StripKeeps
<1> HIDE DEF w
<1>4. Excerpt(w, f, q)
  BY <1>1, <1>3 DEF Excerpt
<1>5. Len(w) <= Len(u) + 1 + Len(v)
  <2>1. Len(w) \in Nat /\ Len(j) \in Nat /\ Len(u) \in Nat /\ Len(v) \in Nat
    BY <1>1, <1>3 DEF Strings
  <2> QED
    BY <1>2, <1>3, <2>1
<1>6. ASSUME Ink(u) = {} PROVE Len(w) <= Len(v)
  <2>1. PICK k \in 0..Len(j) : Between(j, 1, k) = {} /\ Len(j) - k = Len(v)
    BY <1>2, <1>6
  <2> QED
    BY <1>3, <2>1
<1> QED
  BY <1>3, <1>4, <1>5, <1>6 DEF w, j

LEMMA PackUnitKeeps ==
    ASSUME NEW p, NEW last \in Nat, NEW q \in Nat, NEW u \in Strings,
           IsPacked(p, last), IsUnit(u, last, q)
    PROVE  /\ IsPacked(PackUnit(p, u), q)
           /\ last < q => Ink(PackUnit(p, u).current) # {}
<1> DEFINE r == PackUnit(p, u)
           cur == p.current
           candidate == Strip(Joined(cur, u))
<1>1. /\ p \in Packings /\ Len(cur) <= Budget /\ cur \in Strings
      /\ p = [chunks |-> p.chunks, current |-> cur]
  BY DEF IsPacked, Packings
<1>2. PICK m \in 0..last : \E a \in 1 .. m + 1 :
         Run(p.chunks, m) /\ m + 1 <= a + Overlap /\ Excerpt(cur, a, last)
  BY DEF IsPacked
<1>3. PICK a \in 1 .. m + 1 :
         Run(p.chunks, m) /\ m + 1 <= a + Overlap /\ Excerpt(cur, a, last)
  BY <1>2
<1>4. /\ last <= q /\ Len(u) <= ChunkSize /\ Excerpt(u, last + 1, q)
      /\ a \in Nat \ {0} /\ m \in Nat /\ a <= last + 1 /\ a <= m + 1
  BY DEF IsUnit
<1>5. Len(u) \in Nat /\ Len(cur) \in Nat /\ Budget \in Nat /\ ChunkSize <= Budget
      /\ Budget = ChunkSize + Overlap + 1
  BY <1>1, Sizes DEF Strings, Budget
<1>6. r \in Packings
  BY <1>1, PackUnitType
<1>7. ASSUME NEW b, Excerpt(r.current, b, q), b \in 1 .. last + 1
      PROVE  last < q => Ink(r.current) # {}
  <2>1. last < q => q \in b..q
    BY <1>7
  <2> QED
    BY <1>7, <2>1 DEF Excerpt
<1> DEFINE Kept == r.chunks = p.chunks /\ Excerpt(r.current, a, q) /\ Len(r.current) <= Budget
<1>8. ASSUME Kept PROVE IsPacked(r, q) /\ (last < q => Ink(r.current) # {})
  <2>1. m \in 0..q /\ a \in 1 .. m + 1 /\ a \in 1 .. last + 1
    BY <1>4
  <2> HIDE DEF r
  <2>2. Run(r.chunks, m)
    BY <1>3, <1>8
  <2>3. IsPacked(r, q)
    BY <1>3, <1>6, <1>8, <2>1, <2>2 DEF IsPacked
  <2>4. last < q => Ink(r.current) # {}
    BY <1>7, <1>8, <2>1
  <2> QED
    BY <2>3, <2>4
<1>9. /\ candidate \in Strings /\ Excerpt(candidate, a, q)
      /\ Ink(cur) = {} => Len(candidate) <= Len(u)
  BY <1>1, <1>3, <1>4, StripJoined
<1>10. CASE cur = <<>>
  <2>1. r.current = u /\ r.chunks = p.chunks
    BY <1>1, <1>10 DEF PackUnit
  <2>2. a = last + 1
    <3>1. Ink(cur) = {}
      BY <1>10 DEF Ink
    <3>2. a..last = {}
      BY <1>3, <3>1 DEF Excerpt
    <3> QED
      BY <1>4, <3>2
  <2>3. Excerpt(u, a, q) /\ Len(u) <= Budget
    BY <1>4, <1>5, <2>2, Sizes
  <2>4. Kept
    BY <2>1, <2>3
  <2> QED
    BY <1>8, <2>4
<1>11. CASE cur # <<>> /\ Len(candidate) <= ChunkSize
  <2>1. r.current = candidate /\ r.chunks = p.chunks
    BY <1>1, <1>11 DEF PackUnit
  <2>2. Len(candidate) <= Budget
    <3>1. Len(candidate) \in Nat
      BY <1>9 DEF Strings
    <3> QED
      BY <1>5, <1>11, <3>1, Sizes
  <2>3. Kept
    BY <1>9, <2>1, <2>2
  <2> QED
    BY <1>8, <2>3
<1>12. CASE cur # <<>> /\ ~(Len(candidate) <= ChunkSize)
  <2> DEFINE tail == OverlapTail(cur)
             fresh == Strip(Joined(tail, u))
  <2>1. r.current = fresh /\ r.chunks = Append(p.chunks, cur)
    BY <1>12 DEF PackUnit
  <2>2. a <= last
    <3>1. Ink(cur) # {}
      <4>1. Len(candidate) \in Nat
        BY <1>9 DEF Strings
      <4> QED
        BY <1>4, <1>5, <1>9, <1>12, <4>1, Sizes
    <3>2. a..last # {}
      BY <1>3, <3>1 DEF Excerpt
    <3> QED
      BY <1>4, <3>2
  <2>3. Follows(cur, m, a, last)
    BY <1>1, <1>3, <1>4, <2>2 DEF Follows
  <2>4. Run(Append(p.chunks, cur), last)
    BY <1>1, <1>3, <1>4, <2>3, RunAppend
  <2>5. PICK b \in a .. last + 1 : /\ last + 1 <= b + Overlap
                                  /\ Excerpt(tail, b, last)
                                  /\ tail \in Strings /\ Len(tail) <= Overlap
    BY <1>1, <1>3, <1>4, TailContinues
  <2>6. b \in Nat /\ b <= last + 1 /\ b \in 1 .. last + 1
    BY <1>4
  <2> HIDE DEF tail
  <2>7. fresh \in Strings /\ Excerpt(fresh, b, q) /\ Len(fresh) <= Len(tail) + 1 + Len(u)
    BY <1>4, <2>5, <2>6, StripJoined
  <2> HIDE DEF fresh
  <2>8. Len(fresh) <= Budget
    <3>1. Len(fresh) \in Nat /\ Len(tail) \in Nat
      BY <2>5, <2>7 DEF Strings
    <3> QED
      BY <1>4, <1>5, <2>5, <2>7, <3>1, Sizes
  <2> HIDE DEF r
  <2>9. last \in 0..q
    BY <1>4
  <2>10. IsPacked(r, q)
    BY <1>6, <2>1, <2>4, <2>5, <2>6, <2>7, <2>8, <2>9 DEF IsPacked
  <2>11. last < q => Ink(r.current) # {}
    BY <1>7, <2>1, <2>6, <2>7
  <2> QED
    BY <2>10, <2>11 DEF r
<1> QED
  BY <1>10, <1>11, <1>12

LEMMA NothingIsPacked ==
    Run(<<>>, 0) /\ IsPacked([chunks |-> <<>>, current |-> <<>>], 0)
<1> DEFINE none == <<>>
           nil == [i \in 0..0 |-> 0]
           p == [chunks |-> none, current |-> none]
<1>1. none \in Seq(Strings) /\ none \in Strings /\ Len(none) = 0 /\ Ink(none) = {} /\ InOrder(none)
  BY EmptySeq DEF Ink, InOrder, Strings
<1>2. nil \in [0..0 -> Nat] /\ nil[0] = 0 /\ 1..0 = {}
  OBVIOUS
<1> HIDE DEF none, nil
<1>3. Run(none, 0)
  BY <1>1, <1>2 DEF Run, Starts
<1>4. 0 \in 0..0 /\ 1 \in 1 .. 0 + 1 /\ 0 + 1 <= 1 + Overlap /\ 0 <= Budget
  BY Sizes DEF Budget
<1>5. Excerpt(none, 1, 0)
  BY <1>1, <1>2 DEF Excerpt
<1>6. p \in Packings /\ p.chunks = none /\ p.current = none
  BY <1>1 DEF Packings
<1> HIDE DEF p
<1>7. \E m \in 0..0 : \E a \in 1 .. m + 1 :
         Run(p.chunks, m) /\ m + 1 <= a + Overlap /\ Excerpt(p.current, a, 0)
  BY <1>3, <1>4, <1>5, <1>6
<1>8. IsPacked(p, 0)
  BY <1>1, <1>4, <1>6, <1>7 DEF IsPacked
<1> QED
  BY <1>3, <1>8 DEF p, none

LEMMA PackRuns ==
    ASSUME NEW units, NEW last \in Nat, Covers(units, 0, last)
    PROVE  Run(Pack(units), last)
<1> DEFINE N == Len(units)
<1>1. units \in Seq(Strings) /\ N \in Nat
  BY DEF Covers
<1>2. PICK reach \in [0..N -> Nat] : reach[0] = 0 /\ reach[N] = last /\ Reaches(units, reach)
  BY DEF Covers
<1>3. PICK g : /\ g[0] = [chunks |-> <<>>, current |-> <<>>] /\ Packed(units) = g[N]
               /\ \A n \in 1..N : g[n] = PackUnit(g[n - 1], units[n])
  BY <1>1, PackedIs
<1>4. ASSUME NEW n \in 1..N
      PROVE  /\ n - 1 \in 0..N /\ n \in 0..N /\ units[n] \in Strings
             /\ reach[n - 1] \in Nat /\ reach[n] \in Nat
             /\ IsUnit(units[n], reach[n - 1], reach[n])
  <2>1. n - 1 \in 0..N /\ n \in 0..N
    BY <1>1
  <2>2. units[n] \in Strings
    BY <1>1
  <2>3. reach[n - 1] \in Nat /\ reach[n] \in Nat
    BY <1>2, <2>1
  <2>4. IsUnit(units[n], reach[n - 1], reach[n])
    BY <1>2 DEF Reaches
  <2> QED
    BY <2>1, <2>2, <2>3, <2>4
<1> DEFINE P == {n \in 0..N : IsPacked(g[n], reach[n])}
<1>5. 0 \in P
  BY <1>1, <1>2, <1>3, NothingIsPacked
<1>6. ASSUME NEW n \in 0 .. N - 1, n \in P PROVE n + 1 \in P
  <2>1. n + 1 \in 1..N /\ (n + 1) - 1 = n
    BY <1>1
  <2>2. /\ units[n + 1] \in Strings /\ reach[n] \in Nat /\ reach[n + 1] \in Nat
        /\ IsUnit(units[n + 1], reach[n], reach[n + 1]) /\ n + 1 \in 0..N
    BY <1>4, <2>1
  <2>3. IsPacked(PackUnit(g[n], units[n + 1]), reach[n + 1])
    BY <1>6, <2>2, PackUnitKeeps
  <2> QED
    BY <1>3, <2>1, <2>2, <2>3
<1>7. \A n \in 0..N : IsPacked(g[n], reach[n])
  <2> HIDE DEF N
  <2>1. \A n \in 0..N : n \in P
    <3> HIDE DEF P
    <3> QED
      BY <1>1, <1>5, <1>6, Induction
  <2> QED
    BY <2>1
<1>8. CASE N = 0
  <2>1. Pack(units) = <<>>
    BY <1>3, <1>8 DEF Pack
  <2> QED
    BY <1>2, <1>8, <2>1, NothingIsPacked
<1>9. CASE N # 0
  <2> DEFINE p == g[N]
  <2>1. N \in 1..N /\ N \in 0..N /\ N - 1 \in 0..N
    BY <1>1, <1>9
  <2>2. IsPacked(g[N - 1], reach[N - 1]) /\ IsPacked(p, last)
    BY <1>2, <1>7, <2>1
  <2>3. Ink(p.current) # {}
    <3>1. p = PackUnit(g[N - 1], units[N])
      BY <1>3, <2>1
    <3>2. /\ units[N] \in Strings /\ reach[N - 1] \in Nat /\ reach[N] \in Nat
          /\ IsUnit(units[N], reach[N - 1], reach[N])
      BY <1>4, <2>1
    <3>3. reach[N - 1] < reach[N]
      BY <1>2, <1>9 DEF Reaches
    <3> HIDE DEF p, N
    <3> QED
      BY <2>2, <3>1, <3>2, <3>3, PackUnitKeeps
  <2>4. Packed(units) = p
    BY <1>3
  <2> HIDE DEF p
  <2>5. p.current # <<>>
    BY <2>3 DEF Ink
  <2>6. Pack(units) = Append(p.chunks, p.current)
    BY <2>4, <2>5 DEF Pack
  <2>7. PICK m \in 0..last : \E a \in 1 .. m + 1 :
           Run(p.chunks, m) /\ m + 1 <= a + Overlap /\ Excerpt(p.current, a, last)
    BY <2>2 DEF IsPacked
  <2>8. PICK a \in 1 .. m + 1 :
           Run(p.chunks, m) /\ m + 1 <= a + Overlap /\ Excerpt(p.current, a, last)
    BY <2>7
  <2>9. a <= last
    <3>1. a..last # {}
      BY <2>3, <2>8 DEF Excerpt
    <3> QED
      BY <3>1
  <2>10. p.current \in Strings /\ Len(p.current) <= Budget
    BY <2>2 DEF IsPacked, Packings
  <2>11. Follows(p.current, m, a, last)
    BY <2>8, <2>9, <2>10 DEF Follows
  <2>12. m \in Nat /\ a \in Nat
    OBVIOUS
  <2> QED
    BY <2>6, <2>8, <2>10, <2>11, <2>12, RunAppend
<1> QED
  BY <1>8, <1>9

InkUpTo(chunks, n) == UNION {Ink(chunks[i]) : i \in 1..n}

\* A run of chunks has all the letters up to the one it reaches.
LEMMA RunInk ==
    ASSUME NEW N \in Nat, NEW chunks, N = Len(chunks),
           NEW from \in [0..N -> Nat], NEW to \in [0..N -> Nat],
           to[0] = 0, Starts(chunks, from, to)
    PROVE  InkUpTo(chunks, N) = 1..to[N]
<1> DEFINE P == {n \in 0..N : UNION {Ink(chunks[i]) : i \in 1..n} = 1..to[n]}
<1>1. 0 \in P
  <2>1. 0 \in 0..N /\ 1..0 = {}
    OBVIOUS
  <2> QED
    BY <2>1
<1>2. ASSUME NEW n \in 0 .. N - 1, n \in P PROVE n + 1 \in P
  <2>1. n + 1 \in 1..N /\ n + 1 \in 0..N /\ n \in 0..N /\ (n + 1) - 1 = n
    OBVIOUS
  <2>2. Follows(chunks[n + 1], to[n], from[n + 1], to[n + 1])
    BY <2>1 DEF Starts
  <2>3. Ink(chunks[n + 1]) = from[n + 1]..to[n + 1]
    BY <2>2 DEF Follows, Excerpt
  <2>4. 1 <= from[n + 1] /\ from[n + 1] <= to[n] + 1 /\ to[n] <= to[n + 1]
    BY <2>2 DEF Follows
  <2>5. to[n] \in Nat /\ to[n + 1] \in Nat /\ from[n + 1] \in Nat
    BY <2>1
  <2>6. (1..to[n]) \cup (from[n + 1]..to[n + 1]) = 1..to[n + 1]
    BY <2>4, <2>5
  <2>7. 1 .. n + 1 = (1..n) \cup {n + 1}
    OBVIOUS
  <2>8. UNION {Ink(chunks[i]) : i \in 1 .. n + 1}
           = (UNION {Ink(chunks[i]) : i \in 1..n}) \cup Ink(chunks[n + 1])
    BY <2>7
  <2>9. UNION {Ink(chunks[i]) : i \in 1..n} = 1..to[n]
    BY <1>2
  <2>10. UNION {Ink(chunks[i]) : i \in 1 .. n + 1} = 1..to[n + 1]
    BY <2>3, <2>6, <2>8, <2>9
  <2> QED
    BY <2>1, <2>10
<1>3. \A n \in 0..N : n \in P
  <2> HIDE DEF P
  <2> QED
    BY <1>1, <1>2, Induction
<1>4. N \in P
  <2> HIDE DEF P
  <2> QED
    BY <1>3
<1> QED
  BY <1>4 DEF InkUpTo

LEMMA RunIsExcerpts ==
    ASSUME NEW chunks, NEW text, Size(text) \in Nat, Run(chunks, Size(text))
    PROVE  Excerpts(chunks, text)
<1> DEFINE N == Len(chunks)
<1>1. chunks \in Seq(Strings) /\ N \in Nat /\ DOMAIN chunks = 1..N
  BY DEF Run
<1>2. PICK f \in [0..N -> Nat], t \in [0..N -> Nat] :
         t[0] = 0 /\ t[N] = Size(text) /\ Starts(chunks, f, t)
  BY DEF Run
<1>3. ASSUME NEW i \in 1..N
      PROVE  /\ i - 1 \in 0..N /\ f[i] \in Nat /\ t[i] \in Nat /\ t[i - 1] \in Nat
             /\ Follows(chunks[i], t[i - 1], f[i], t[i])
             /\ Ink(chunks[i]) = f[i]..t[i] /\ Ink(chunks[i]) # {}
             /\ Min(Ink(chunks[i])) = f[i] /\ Max(Ink(chunks[i])) = t[i]
  <2>1. i \in 0..N /\ i - 1 \in 0..N
    BY <1>1
  <2>2. f[i] \in Nat /\ t[i] \in Nat /\ t[i - 1] \in Nat
    BY <1>2, <2>1
  <2>3. Follows(chunks[i], t[i - 1], f[i], t[i])
    BY <1>2 DEF Starts
  <2>4. Ink(chunks[i]) = f[i]..t[i] /\ f[i] <= t[i]
    BY <2>3 DEF Follows, Excerpt
  <2>5. f[i] \in f[i]..t[i]
    BY <2>2, <2>4
  <2>6. Min(f[i]..t[i]) = f[i] /\ Max(f[i]..t[i]) = t[i]
    BY <2>2, <2>4, IntervalExtremes
  <2>7. Ink(chunks[i]) # {}
    BY <2>4, <2>5
  <2>8. Min(Ink(chunks[i])) = f[i] /\ Max(Ink(chunks[i])) = t[i]
    BY <2>4, <2>6, Zenon
  <2> QED
    BY <2>1, <2>2, <2>3, <2>4, <2>7, <2>8, Zenon
<1>4. UNION {Ink(chunks[i]) : i \in 1..N} = 1..Size(text)
  <2>1. N \in Nat /\ N = Len(chunks)
    BY <1>1
  <2> HIDE DEF N
  <2>2. InkUpTo(chunks, N) = 1..t[N]
    BY <1>2, <2>1, RunInk
  <2> QED
    BY <1>2, <2>2 DEF InkUpTo
<1>5. ASSUME NEW i \in 1..N
      PROVE  /\ Ink(chunks[i]) # {}
             /\ Excerpt(chunks[i], Min(Ink(chunks[i])), Max(Ink(chunks[i])))
             /\ Len(chunks[i]) <= ChunkSize + Overlap + 1
  BY <1>3 DEF Follows, Budget
<1>6. ASSUME NEW i \in 1 .. N - 1
      PROVE  /\ Min(Ink(chunks[i + 1])) \in Max(Ink(chunks[i])) + 1 - Overlap
                                             .. Max(Ink(chunks[i])) + 1
             /\ Max(Ink(chunks[i])) <= Max(Ink(chunks[i + 1]))
  <2>1. i \in 1..N /\ i + 1 \in 1..N /\ (i + 1) - 1 = i
    BY <1>1
  <2>2. Follows(chunks[i + 1], t[i], f[i + 1], t[i + 1])
    BY <1>3, <2>1
  <2>3. f[i + 1] \in Nat /\ t[i] \in Nat /\ Overlap \in Nat
    BY <1>3, <2>1, Sizes
  <2>4. f[i + 1] \in t[i] + 1 - Overlap .. t[i] + 1 /\ t[i] <= t[i + 1]
    BY <2>2, <2>3 DEF Follows
  <2> QED
    BY <1>3, <2>1, <2>4
<1> QED
  BY <1>1, <1>4, <1>5, <1>6 DEF Excerpts

\* Whatever the text, the chunk size and the overlap, no letter is lost by splitting into
\* units, cutting them hard, stripping and packing with a tail; no chunk leaves a gap,
\* repeats more than the overlap or outgrows the budget (Chunker.chunk).
THEOREM ChunkIsFaithful ==
    ASSUME NEW text, IsText(text)
    PROVE  Excerpts(Chunk(text), text)
<1>1. Covers(Units(text), 0, Size(text)) /\ Size(text) \in Nat
  BY UnitsCover
<1>2. Run(Pack(Units(text)), Size(text))
  BY <1>1, PackRuns
<1> QED
  BY <1>1, <1>2, RunIsExcerpts DEF Chunk
================================================================================
