-------------------------- MODULE ConfigStore_proofs -------------------------
(****************************************************************************)
(* A save that goes through is what the file holds, the next start loads    *)
(* it, and removed texts never come back: for any forms, texts and bound.   *)
(* What is printed is read again by the deserializer, for texts of any      *)
(* length.                                                                  *)
(****************************************************************************)
EXTENDS ConfigCard, Integers, FiniteSetTheorems, WellFoundedInduction, TLAPS

------------------------------------------------------------------------------
(* Folds and joins of sequences.                                            *)

\* Induction, in a form the provers can use: what has 0, and with every number
\* the next one, has them all.
LEMMA Induction ==
    ASSUME NEW S, 0 \in S, \A n \in Nat : n \in S => n + 1 \in S
    PROVE  Nat \subseteq S
<1> DEFINE R == OpToRel(<, Nat)
           T == Nat \ S
<1> SUFFICES ASSUME T # {} PROVE FALSE
  OBVIOUS
<1>1. PICK i \in T : \A j \in T : ~ (<<j, i>> \in R)
  <2>1. IsWellFoundedOn(R, Nat)
    BY NatLessThanWellFounded
  <2>2. T \subseteq Nat
    OBVIOUS
  <2> HIDE DEF R, T
  <2> QED BY <2>1, <2>2, WFMin
<1>2. \A j \in T : j < i => <<j, i>> \in R
  BY DEF OpToRel
<1> HIDE DEF R
<1>3. \A j \in T : ~ (j < i)
  BY <1>1, <1>2
<1>4. i # 0 /\ i - 1 \in Nat /\ i - 1 < i
  OBVIOUS
<1> QED BY <1>3, <1>4

\* A set of numbers up to n that has n has n as its maximum.
LEMMA MaxIs ==
    ASSUME NEW x, NEW n \in Nat, n \in x, x \subseteq 1..n
    PROVE  SX!Max(x) = n
<1>1. \A y \in x : n >= y
  OBVIOUS
<1> DEFINE IsMax(m) == \A y \in x : m >= y
<1>2. PICK m : m = CHOOSE z \in x : IsMax(z)
  OBVIOUS
<1>3. m \in x /\ IsMax(m)
  BY <1>1, <1>2
<1>4. m = n
  BY <1>1, <1>3
<1> QED BY <1>2, <1>4 DEF SX!Max

\* f is the function behind the fold of Eat over the places in D of a line.
FoldOf(f, D, s, line) ==
    f = [x \in SUBSET D |-> IF x = {} THEN s ELSE Eat(f[x \ {SX!Max(x)}], line[SX!Max(x)])]

\* The function that a fold over any line is defined by exists.
LEMMA FoldExists ==
    ASSUME NEW s, NEW line, NEW N \in Nat
    PROVE  \E f : FoldOf(f, 1..N, s, line)
<1> DEFINE IsFold(f, n) == FoldOf(f, 1..n, s, line)
           S == {n \in Nat : \E f : IsFold(f, n)}
<1>1. 0 \in S
  <2> DEFINE f == [x \in SUBSET (1..0) |-> s]
  <2>1. \A x \in SUBSET (1..0) : x = {}
    OBVIOUS
  <2>2. IsFold(f, 0)
    BY <2>1 DEF FoldOf
  <2> QED BY <2>2
<1>2. ASSUME NEW n \in Nat, n \in S PROVE n + 1 \in S
  <2>1. PICK f : IsFold(f, n)
    BY <1>2
  <2> DEFINE g == [x \in SUBSET (1..(n + 1)) |->
                    IF n + 1 \in x THEN Eat(f[x \ {n + 1}], line[n + 1]) ELSE f[x]]
  <2>2. ASSUME NEW x \in SUBSET (1..(n + 1))
        PROVE  g[x] = IF x = {} THEN s ELSE Eat(g[x \ {SX!Max(x)}], line[SX!Max(x)])
    <3>1. CASE n + 1 \in x
      <4>1. SX!Max(x) = n + 1
        <5>1. n + 1 \in Nat /\ x \subseteq 1..(n + 1)
          OBVIOUS
        <5> QED BY <3>1, <5>1, MaxIs
      <4>2. x \ {n + 1} \in SUBSET (1..(n + 1)) /\ n + 1 \notin x \ {n + 1}
        OBVIOUS
      <4>3. g[x \ {n + 1}] = f[x \ {n + 1}]
        BY <4>2
      <4>4. g[x] = Eat(f[x \ {n + 1}], line[n + 1])
        BY <3>1
      <4> QED BY <3>1, <4>1, <4>3, <4>4
    <3>2. CASE n + 1 \notin x
      <4>1. PICK m : m = SX!Max(x)
        OBVIOUS
      <4>2. x \in SUBSET (1..n)
        <5>1. \A i \in 1..(n + 1) : i # n + 1 => i \in 1..n
          OBVIOUS
        <5> QED BY <3>2, <5>1
      <4>5. x \ {m} \in SUBSET (1..(n + 1)) /\ n + 1 \notin x \ {m}
        BY <3>2
      <4>3. f[x] = IF x = {} THEN s ELSE Eat(f[x \ {m}], line[m])
        BY <2>1, <4>1, <4>2 DEF FoldOf
      <4>4. g[x] = f[x] /\ g[x \ {m}] = f[x \ {m}]
        BY <3>2, <4>5
      <4> QED BY <4>1, <4>3, <4>4
    <3> QED BY <3>1, <3>2
  <2>3. IsFold(g, n + 1)
    BY <2>2 DEF FoldOf
  <2>4. \E e : IsFold(e, n + 1)
    <3> HIDE DEF g, IsFold
    <3> QED BY <2>3, Zenon
  <2> HIDE DEF IsFold
  <2> QED BY <2>4
<1> HIDE DEF S
<1>3. Nat \subseteq S
  BY <1>1, <1>2, Induction
<1> QED BY <1>3 DEF S

\* The parse from s on over a line.
Run(s, line) == SX!FoldLeft(Eat, s, line)

\* h[n] is where the run from s on is behind the first n characters.
StepsOf(h, s, line, N) == h[0] = s /\ \A n \in 1..N : h[n] = Eat(h[n - 1], line[n])

\* A run over a line goes through one state for each of its characters.
LEMMA RunSteps ==
    ASSUME NEW s, NEW line, NEW N \in Nat, DOMAIN line = 1..N
    PROVE  \E h : StepsOf(h, s, line, N) /\ Run(s, line) = h[N]
<1> DEFINE D == DOMAIN line
           iter == CHOOSE f : FoldOf(f, D, s, line)
<1>1. D = 1..N
  OBVIOUS
<1>2. Run(s, line) = iter[D]
  BY Zenon DEF FoldOf, Run, SX!FoldLeft, SX!MapThenFoldSet
<1>3. FoldOf(iter, 1..N, s, line)
  <2>1. \E f : FoldOf(f, 1..N, s, line)
    BY <1>1, FoldExists
  <2> QED BY <1>1, <2>1
<1> DEFINE h == [n \in 0..N |-> iter[1..n]]
<1> HIDE DEF iter, D
<1>4. h[0] = s
  <2>1. 1..0 = {} /\ 1..0 \in SUBSET (1..N) /\ 0 \in 0..N
    BY <1>1
  <2> QED BY <1>3, <2>1 DEF FoldOf
<1>5. ASSUME NEW n \in 1..N PROVE h[n] = Eat(h[n - 1], line[n])
  <2>1. SX!Max(1..n) = n
    <3>1. n \in Nat /\ n \in 1..n
      BY <1>1
    <3> QED BY <3>1, MaxIs
  <2>2. n \in 1..n /\ 1..n \in SUBSET (1..N) /\ (1..n) \ {n} = 1..(n - 1)
    OBVIOUS
  <2>3. n \in 0..N /\ n - 1 \in 0..N
    BY <1>1
  <2>4. iter[1..n] = Eat(iter[(1..n) \ {n}], line[n])
    BY <1>3, <2>1, <2>2 DEF FoldOf
  <2> QED BY <2>2, <2>3, <2>4
<1>6. Run(s, line) = h[N]
  BY <1>1, <1>2
<1>7. StepsOf(h, s, line, N)
  BY <1>4, <1>5 DEF StepsOf
<1> HIDE DEF h
<1> QED BY <1>6, <1>7

\* The characters alone decide where a run goes.
LEMMA StepsAgree ==
    ASSUME NEW h, NEW g, NEW s, NEW line, NEW N \in Nat,
           StepsOf(h, s, line, N), StepsOf(g, s, line, N)
    PROVE  h[N] = g[N]
<1> DEFINE S == {n \in Nat : n <= N => h[n] = g[n]}
<1>1. 0 \in S
  BY DEF StepsOf
<1>2. ASSUME NEW n \in Nat, n \in S PROVE n + 1 \in S
  <2> SUFFICES ASSUME n + 1 <= N PROVE h[n + 1] = g[n + 1]
    OBVIOUS
  <2>1. h[n] = g[n]
    BY <1>2
  <2>2. n + 1 \in 1..N /\ (n + 1) - 1 = n
    OBVIOUS
  <2>3. h[n + 1] = Eat(h[n], line[n + 1]) /\ g[n + 1] = Eat(g[n], line[n + 1])
    BY <2>2 DEF StepsOf
  <2> QED BY <2>1, <2>3
<1> HIDE DEF S
<1>3. Nat \subseteq S
  BY <1>1, <1>2, Induction
<1> QED BY <1>3 DEF S

\* A run over nothing, and over one character.
LEMMA RunShort ==
    ASSUME NEW s, NEW c
    PROVE  Run(s, <<>>) = s /\ Run(s, <<c>>) = Eat(s, c)
<1>1. Run(s, <<>>) = s
  <2>1. DOMAIN <<>> = 1..0 /\ 0 \in Nat
    OBVIOUS
  <2> QED BY <2>1, RunSteps DEF StepsOf
<1>2. PICK e : e = <<c>>
  OBVIOUS
<1>3. DOMAIN e = 1..1 /\ e[1] = c /\ 1 \in Nat
  BY <1>2
<1>4. PICK h : StepsOf(h, s, e, 1) /\ Run(s, e) = h[1]
  BY <1>3, RunSteps
<1>5. 1 \in 1..1 /\ 1 - 1 = 0
  OBVIOUS
<1>6. h[1] = Eat(h[0], e[1])
  BY <1>4, <1>5 DEF StepsOf
<1> QED BY <1>1, <1>2, <1>3, <1>4, <1>6 DEF StepsOf

\* A line that is two lines is run over in two runs.
LEMMA RunConcat ==
    ASSUME NEW s, NEW T, NEW u \in Seq(T), NEW v \in Seq(T)
    PROVE  Run(s, u \o v) = Run(Run(s, u), v)
<1>1. PICK w : w = u \o v
  OBVIOUS
<1>2. PICK m \in Nat : m = Len(u) /\ DOMAIN u = 1..m
  OBVIOUS
<1>3. PICK n \in Nat : n = Len(v) /\ DOMAIN v = 1..n
  OBVIOUS
<1>4. PICK k \in Nat : k = m + n
  OBVIOUS
<1>5. /\ DOMAIN w = 1..k
      /\ \A i \in 1..m : w[i] = u[i]
      /\ \A i \in 1..n : w[m + i] = v[i]
  BY <1>1, <1>2, <1>3, <1>4
<1>6. PICK h : StepsOf(h, s, w, k) /\ Run(s, w) = h[k]
  BY <1>5, RunSteps
<1>7. PICK f : StepsOf(f, s, u, m) /\ Run(s, u) = f[m]
  BY <1>2, RunSteps
<1>8. PICK g : StepsOf(g, Run(s, u), v, n) /\ Run(Run(s, u), v) = g[n]
  BY <1>3, RunSteps
<1>9. h[m] = f[m]
  <2>1. StepsOf(h, s, u, m)
    BY <1>4, <1>5, <1>6 DEF StepsOf
  <2> QED BY <1>7, <2>1, StepsAgree
<1>10. h[k] = g[n]
  <2> DEFINE e == [i \in 0..n |-> h[m + i]]
  <2>1. e[0] = Run(s, u)
    BY <1>7, <1>9
  <2>2. ASSUME NEW i \in 1..n PROVE e[i] = Eat(e[i - 1], v[i])
    <3>1. m + i \in 1..k /\ (m + i) - 1 = m + (i - 1) /\ i - 1 \in 0..n /\ i \in 0..n
      BY <1>4
    <3>2. h[m + i] = Eat(h[m + (i - 1)], w[m + i])
      BY <1>6, <3>1 DEF StepsOf
    <3> QED BY <1>5, <3>1, <3>2
  <2>3. e[n] = h[k]
    BY <1>4
  <2> HIDE DEF e
  <2>4. StepsOf(e, Run(s, u), v, n)
    BY <2>1, <2>2 DEF StepsOf
  <2> QED BY <1>8, <2>3, <2>4, StepsAgree
<1> QED BY <1>1, <1>6, <1>8, <1>10

\* f is the function behind FlattenSeq of n sequences.
JoinOf(f, n, seqs) == f = [i \in 1..n |-> IF i = 1 THEN seqs[i] ELSE f[i - 1] \o seqs[i]]

\* The function that joins sequences exists.
LEMMA JoinExists ==
    ASSUME NEW seqs, NEW N \in Nat
    PROVE  \E f : JoinOf(f, N, seqs)
<1> DEFINE S == {n \in Nat : \E f : JoinOf(f, n, seqs)}
<1>1. 0 \in S
  <2>1. JoinOf([i \in 1..0 |-> 0], 0, seqs)
    BY DEF JoinOf
  <2> QED BY <2>1
<1>2. ASSUME NEW n \in Nat, n \in S PROVE n + 1 \in S
  <2>1. PICK f : JoinOf(f, n, seqs)
    BY <1>2
  <2> DEFINE g == [i \in 1..(n + 1) |->
                     IF i = n + 1 THEN IF i = 1 THEN seqs[1] ELSE f[n] \o seqs[i]
                                  ELSE f[i]]
  <2>2. ASSUME NEW i \in 1..(n + 1)
        PROVE  g[i] = IF i = 1 THEN seqs[i] ELSE g[i - 1] \o seqs[i]
    <3>1. CASE i = n + 1
      BY <3>1
    <3>2. CASE i # n + 1
      <4>1. i \in 1..n /\ i # n + 1 /\ (i # 1 => i - 1 \in 1..(n + 1) /\ i - 1 # n + 1)
        BY <3>2
      <4>2. f[i] = IF i = 1 THEN seqs[i] ELSE f[i - 1] \o seqs[i]
        BY <2>1, <4>1 DEF JoinOf
      <4>3. g[i] = f[i] /\ (i # 1 => g[i - 1] = f[i - 1])
        BY <4>1
      <4> QED BY <4>2, <4>3
    <3> QED BY <3>1, <3>2
  <2>3. JoinOf(g, n + 1, seqs)
    BY <2>2 DEF JoinOf
  <2> QED BY <2>3
<1> HIDE DEF S
<1>3. Nat \subseteq S
  BY <1>1, <1>2, Induction
<1> QED BY <1>3 DEF S

\* g[i] is the first i of the sequences, one behind the other.
JoinsOf(g, seqs, N, T) ==
    /\ g[0] = <<>> /\ \A i \in 0..N : g[i] \in Seq(T)
    /\ \A i \in 1..N : g[i] = g[i - 1] \o seqs[i]

\* What FlattenSeq gives is joined step by step.
LEMMA JoinSteps ==
    ASSUME NEW T, NEW seqs \in Seq(Seq(T))
    PROVE  \E g : JoinsOf(g, seqs, Len(seqs), T) /\ SX!FlattenSeq(seqs) = g[Len(seqs)]
<1> DEFINE N == Len(seqs)
           flatten == CHOOSE f : JoinOf(f, N, seqs)
<1>1. N \in Nat
  OBVIOUS
<1>2. JoinOf(flatten, N, seqs)
  BY <1>1, JoinExists
<1>3. SX!FlattenSeq(seqs) = IF N = 0 THEN seqs ELSE flatten[N]
  BY Zenon DEF SX!FlattenSeq, JoinOf
<1> DEFINE g == [i \in 0..N |-> IF i = 0 THEN <<>> ELSE flatten[i]]
           S == {n \in Nat : n <= N => g[n] \in Seq(T)}
<1>4. \A i \in 1..N : seqs[i] \in Seq(T)
  OBVIOUS
<1> HIDE DEF flatten
<1>5. N = 0 => seqs = <<>>
  OBVIOUS
<1> HIDE DEF N
<1>6. g[0] = <<>> /\ SX!FlattenSeq(seqs) = g[N]
  BY <1>1, <1>3, <1>5
<1>7. ASSUME NEW i \in 1..N PROVE g[i] = IF i = 1 THEN seqs[1] ELSE g[i - 1] \o seqs[i]
  <2>1. flatten[i] = IF i = 1 THEN seqs[i] ELSE flatten[i - 1] \o seqs[i]
    BY <1>2 DEF JoinOf
  <2> QED BY <1>1, <2>1
<1> HIDE DEF g
<1>8. 0 \in S
  <2>1. <<>> \in Seq(T)
    OBVIOUS
  <2> QED BY <1>6, <2>1
<1>9. ASSUME NEW n \in Nat, n \in S PROVE n + 1 \in S
  <2> SUFFICES ASSUME n + 1 <= N PROVE g[n + 1] \in Seq(T)
    OBVIOUS
  <2>1. n + 1 \in 1..N /\ (n + 1) - 1 = n /\ g[n] \in Seq(T)
    BY <1>1, <1>9
  <2>2. seqs[n + 1] \in Seq(T)
    BY <1>4, <2>1
  <2>3. g[n + 1] = IF n + 1 = 1 THEN seqs[1] ELSE g[n] \o seqs[n + 1]
    BY <1>7, <2>1
  <2> QED BY <2>1, <2>2, <2>3
<1>10. Nat \subseteq S
  <2> HIDE DEF S
  <2> QED BY <1>8, <1>9, Induction
<1>11. \A i \in 0..N : g[i] \in Seq(T)
  BY <1>1, <1>10
<1>12. ASSUME NEW i \in 1..N PROVE g[i] = g[i - 1] \o seqs[i]
  <2>1. seqs[1] = <<>> \o seqs[1] /\ 1 - 1 = 0
    BY <1>4
  <2> QED BY <1>6, <1>7, <2>1
<1>13. JoinsOf(g, seqs, N, T)
  BY <1>6, <1>11, <1>12 DEF JoinsOf
<1> QED BY <1>6, <1>13 DEF N

\* Joining more makes nothing shorter.
LEMMA JoinGrows ==
    ASSUME NEW T, NEW seqs, NEW N \in Nat, NEW g, JoinsOf(g, seqs, N, T),
           \A i \in 1..N : seqs[i] \in Seq(T), NEW m \in 0..N
    PROVE  Len(g[m]) <= Len(g[N])
<1> DEFINE S == {n \in Nat : m + n <= N => Len(g[m]) <= Len(g[m + n])}
<1>1. 0 \in S
  BY DEF JoinsOf
<1>2. ASSUME NEW n \in Nat, n \in S PROVE n + 1 \in S
  <2> SUFFICES ASSUME m + (n + 1) <= N PROVE Len(g[m]) <= Len(g[m + (n + 1)])
    OBVIOUS
  <2>1. Len(g[m]) <= Len(g[m + n])
    BY <1>2
  <2>2. PICK k \in 1..N : k = m + (n + 1) /\ k - 1 = m + n /\ k - 1 \in 0..N
    OBVIOUS
  <2>3. g[k] = g[k - 1] \o seqs[k] /\ g[k - 1] \in Seq(T) /\ seqs[k] \in Seq(T) /\ g[m] \in Seq(T)
    BY <2>2 DEF JoinsOf
  <2>4. PICK u \in Seq(T) : u = g[k - 1]
    BY <2>3
  <2>5. PICK v \in Seq(T) : v = seqs[k]
    BY <2>3
  <2>6. Len(u \o v) = Len(u) + Len(v) /\ Len(u) \in Nat /\ Len(v) \in Nat
    OBVIOUS
  <2>7. PICK w \in Seq(T) : w = g[m]
    BY <2>3
  <2>8. Len(w) <= Len(u) /\ Len(w) \in Nat
    BY <2>1, <2>2, <2>4, <2>7
  <2>9. Len(w) <= Len(u \o v)
    BY <2>6, <2>8
  <2> QED BY <2>2, <2>3, <2>4, <2>5, <2>7, <2>9
<1> HIDE DEF S
<1>3. Nat \subseteq S
  BY <1>1, <1>2, Induction
<1>4. PICK n \in Nat : m + n = N
  OBVIOUS
<1>5. m + n <= N => Len(g[m]) <= Len(g[m + n])
  BY <1>3 DEF S
<1>6. m + n <= N
  BY <1>4
<1> QED BY <1>4, <1>5, <1>6, Zenon

------------------------------------------------------------------------------
(* One character of a line.                                                 *)

\* A state of the parse is a record of these fields.
Parts(s) == DOMAIN s = {"at", "stop", "text", "key", "doc", "room", "saved"}

\* The characters of a file.
Char == Typed \cup {"{", "}", "\r", "\n"}
\* The characters of a line that are no letter of a text.
Quote      == "\""
ColonSign  == ":"
CommaSign  == ","
OpenBrace  == "{"
CloseBrace == "}"

\* What is printed around keys and texts are characters of a line.
LEMMA SignsInChar ==
    /\ Quote \in Char /\ ColonSign \in Char /\ CommaSign \in Char
    /\ OpenBrace \in Char /\ CloseBrace \in Char
BY Zenon DEF Quote, ColonSign, CommaSign, OpenBrace, CloseBrace, Char, Typed, Quotes

\* The letters are characters of a line, and no quote character.
LEMMA LettersInChar == Letters \subseteq Char /\ Quote \notin Letters
BY LettersAssumption, Zenon DEF Char, Typed, Quotes, Quote

\* What unquoted means.
LEMMA NoQuote == \A t : Unquoted(t) <=> \A i \in DOMAIN t : t[i] # Quote
BY Zenon DEF Unquoted, Quote

\* Keeping a string takes its characters and one more byte from the room.
LEMMA KeptParts ==
    ASSUME NEW s, Parts(s), s.room \in Int, NEW t \in Seq(Char), NEW n, n = Kept(s, t)
    PROVE  /\ Parts(n) /\ n.room \in Int /\ n.room >= s.room - (Len(t) + 1)
           /\ n.at = s.at /\ n.stop = s.stop /\ n.text = s.text /\ n.key = s.key /\ n.doc = s.doc
BY DEF Kept, Parts

\* A character of a text is put behind the ones before it, if there is room.
LEMMA EatChar ==
    ASSUME NEW s, Parts(s), s.room \in Int, s.at = "inText", s.text \in Seq(Char),
           NEW c, c # s.stop, Len(s.text) + 1 < s.room, NEW n, n = Eat(s, c)
    PROVE  /\ Parts(n) /\ n.room \in Int /\ n.at = "inText" /\ n.stop = s.stop
           /\ n.key = s.key /\ n.doc = s.doc /\ n.room = s.room
           /\ n.text = Append(s.text, c)
BY DEF Eat, Parts, Longer

\* The quote character that began a text ends it, and gives it to its key.
LEMMA EatTextEnd ==
    ASSUME NEW s, Parts(s), s.room \in Int, s.at = "inText", s.text \in Seq(Char), NEW n,
           n = Eat(s, s.stop)
    PROVE  /\ Parts(n) /\ n.room \in Int /\ n.at = "comma"
           /\ n.room >= s.room - (Len(s.text) + 1)
           /\ n.doc = [s.doc EXCEPT ![s.key] = s.text]
<1> PICK m : m = Kept(s, s.text)
  OBVIOUS
<1>1. /\ Parts(m) /\ m.room \in Int /\ m.key = s.key /\ m.doc = s.doc
      /\ m.room >= s.room - (Len(s.text) + 1)
  BY KeptParts
<1>2. n = Valued(m, s.text)
  BY DEF Eat
<1>3. PICK d : d = [m.doc EXCEPT ![m.key] = s.text]
  OBVIOUS
<1>4. n = [m EXCEPT !.at = "comma", !.doc = d]
  BY <1>2, <1>3, Zenon DEF Valued
<1> QED BY <1>1, <1>3, <1>4 DEF Parts

\* Behind the colon a new key has a member of its own, if there is room.
LEMMA EatColon ==
    ASSUME NEW s, Parts(s), s.room \in Int, s.at = "colon", s.text \in Seq(Char),
           s.text \notin DOMAIN s.doc, s.room >= Len(s.text) + 1 + SlotSize,
           NEW n, n = Eat(s, ColonSign)
    PROVE  /\ Parts(n) /\ n.room \in Int /\ n.at = "value" /\ n.key = s.text
           /\ n.room >= s.room - (Len(s.text) + 1) - SlotSize
           /\ n.doc = [k \in DOMAIN s.doc \cup {s.text} |-> IF k = s.text THEN <<>> ELSE s.doc[k]]
<1> PICK m : m = Kept(s, s.text)
  OBVIOUS
<1>1. Parts(m) /\ m.room \in Int /\ m.doc = s.doc /\ m.room >= s.room - (Len(s.text) + 1)
  BY KeptParts
<1>2. n = Keyed(s)
  BY Zenon DEF Eat, Colon, Spaces, ColonSign
<1>3. PICK d : d = [k \in DOMAIN s.doc \cup {s.text} |-> IF k = s.text THEN <<>> ELSE s.doc[k]]
  OBVIOUS
<1>4. m.room >= SlotSize
  BY <1>1, SlotAssumption DEF Parts
<1>5. PICK r \in Int : r = m.room - SlotSize
  BY <1>1, SlotAssumption DEF Parts
<1>6. n = [m EXCEPT !.at = "value", !.key = s.text, !.room = r, !.doc = d]
  BY <1>1, <1>2, <1>3, <1>4, <1>5, SlotAssumption DEF Keyed, Parts
<1>7. Parts(n) /\ n.at = "value" /\ n.key = s.text /\ n.room = r /\ n.doc = d
  BY <1>1, <1>6 DEF Parts
<1>8. r >= s.room - (Len(s.text) + 1) - SlotSize
  BY <1>1, <1>5, SlotAssumption DEF Parts
<1> QED BY <1>3, <1>7, <1>8

\* A quote character begins a key where one may stand.
LEMMA EatKeyBegin ==
    ASSUME NEW s, Parts(s), s.room \in Int, s.at \in {"first", "key"}, s.room # 0, NEW n,
           n = Eat(s, Quote)
    PROVE  /\ Parts(n) /\ n.room \in Int /\ n.at = "inKey" /\ n.stop = Quote
           /\ n.text = <<>> /\ n.room = s.room /\ n.doc = s.doc
BY LettersAssumption, Zenon DEF Eat, Key, Begun, Bare, Parts, Quotes, Spaces, Quote

\* The letter of a key.
LEMMA EatKeyChar ==
    ASSUME NEW s, Parts(s), s.room \in Int, s.at = "inKey", s.text = <<>>, s.room > 1,
           NEW k, k # s.stop, NEW n, n = Eat(s, k)
    PROVE  /\ Parts(n) /\ n.room \in Int /\ n.at = "inKey" /\ n.stop = s.stop
           /\ n.text = <<k>> /\ n.room = s.room /\ n.doc = s.doc
<1>1. Len(s.text) = 0 /\ Append(s.text, k) = <<k>>
  BY DEF Parts
<1> QED BY <1>1 DEF Eat, Longer, Parts

\* The quote character that began a key ends it.
LEMMA EatKeyEnd ==
    ASSUME NEW s, Parts(s), s.room \in Int, s.at = "inKey", NEW n, n = Eat(s, s.stop)
    PROVE  /\ Parts(n) /\ n.room \in Int /\ n.at = "colon" /\ n.text = s.text
           /\ n.room = s.room /\ n.doc = s.doc
BY DEF Eat, Parts

\* A quote character begins a text behind the colon.
LEMMA EatTextBegin ==
    ASSUME NEW s, Parts(s), s.room \in Int, s.at = "value", s.room # 0, NEW n, n = Eat(s, Quote)
    PROVE  /\ Parts(n) /\ n.room \in Int /\ n.at = "inText" /\ n.stop = Quote
           /\ n.text = <<>> /\ n.room = s.room /\ n.doc = s.doc /\ n.key = s.key
BY Zenon DEF Eat, Begun, Parts, Quotes, Spaces, Quote

\* Between members there is a comma, behind the last one the brace.
LEMMA EatBetween ==
    ASSUME NEW s, Parts(s), s.room \in Int, s.at = "comma"
    PROVE  /\ Parts(Eat(s, CommaSign)) /\ Eat(s, CommaSign).room \in Int
           /\ Eat(s, CommaSign).at = "key" /\ Eat(s, CommaSign).room = s.room
           /\ Eat(s, CommaSign).doc = s.doc
           /\ Eat(s, CloseBrace).at = "done" /\ Eat(s, CloseBrace).doc = s.doc
BY Zenon DEF Eat, Parts, Comma, Spaces, CommaSign, CloseBrace

\* The brace ends an object, with members or without.
LEMMA EatClose ==
    ASSUME NEW s, Parts(s), s.at \in {"first", "comma"}
    PROVE  Eat(s, CloseBrace).at = "done" /\ Eat(s, CloseBrace).doc = s.doc
BY Zenon DEF Eat, Parts, Comma, Spaces, CloseBrace

\* The brace begins an object.
LEMMA EatOpen ==
    ASSUME NEW s, Parts(s), s.at = "begin"
    PROVE  Parts(Eat(s, OpenBrace)) /\ Eat(s, OpenBrace).at = "first"
           /\ Eat(s, OpenBrace).doc = s.doc /\ Eat(s, OpenBrace).room = s.room
BY Zenon DEF Eat, Parts, Spaces, OpenBrace

\* Behind the object the parse is at rest.
LEMMA EatDone ==
    ASSUME NEW s, s.at = "done", NEW c PROVE Eat(s, c) = s
BY DEF Eat, Behind

------------------------------------------------------------------------------
(* A line, a file, and what is read from it.                                *)

\* A text without the quote character that began it is read whole, whatever else
\* is in it, if the pool has room for it.
LEMMA RunText ==
    ASSUME NEW s, Parts(s), s.room \in Int, s.at = "inText", s.text = <<>>, NEW t \in Seq(Char),
           \A i \in DOMAIN t : t[i] # s.stop, Len(t) < s.room, NEW n, n = Run(s, t)
    PROVE  Parts(n) /\ n.room \in Int /\ n.at = "inText" /\ n.stop = s.stop /\ n.text = t
           /\ n.key = s.key /\ n.doc = s.doc /\ n.room = s.room
<1> PICK N \in Nat : N = Len(t)
  OBVIOUS
<1>1. DOMAIN t = 1..N
  OBVIOUS
<1>2. PICK h : StepsOf(h, s, t, N) /\ Run(s, t) = h[N]
  BY <1>1, RunSteps
<1> DEFINE Reads(i) == /\ Parts(h[i]) /\ h[i].room \in Int /\ h[i].at = "inText"
                       /\ h[i].stop = s.stop
                    /\ h[i].key = s.key /\ h[i].doc = s.doc /\ h[i].room = s.room
                    /\ h[i].text \in Seq(Char) /\ Len(h[i].text) = i
                    /\ \A j \in 1..i : h[i].text[j] = t[j]
           S == {i \in Nat : i <= N => Reads(i)}
<1>3. 0 \in S
  <2>1. h[0] = s
    BY <1>2 DEF StepsOf
  <2>3. PICK x : x = h[0].text
    OBVIOUS
  <2>4. x = <<>>
    BY <2>1, <2>3
  <2>5. x \in Seq(Char) /\ Len(x) = 0
    BY <2>4
  <2>2. h[0].text \in Seq(Char) /\ Len(h[0].text) = 0
    BY <2>3, <2>5
  <2> QED BY <2>1, <2>2
<1>4. ASSUME NEW i \in Nat, i \in S PROVE i + 1 \in S
  <2> SUFFICES ASSUME i + 1 <= N PROVE Reads(i + 1)
    OBVIOUS
  <2> PICK a : a = h[i]
    OBVIOUS
  <2> PICK b : b = h[i + 1]
    OBVIOUS
  <2>1. Reads(i)
    BY <1>4
  <2>2. i + 1 \in 1..N /\ (i + 1) - 1 = i
    OBVIOUS
  <2>3. h[i + 1] = Eat(h[i], t[i + 1]) /\ t[i + 1] \in Char /\ t[i + 1] # s.stop
    BY <1>1, <1>2, <2>2 DEF StepsOf
  <2>4. Len(h[i].text) + 1 < s.room
    BY <2>1
  <2>5. /\ Parts(h[i + 1]) /\ h[i + 1].room \in Int /\ h[i + 1].at = "inText"
        /\ h[i + 1].stop = s.stop
        /\ h[i + 1].key = s.key /\ h[i + 1].doc = s.doc /\ h[i + 1].room = s.room
        /\ h[i + 1].text = Append(h[i].text, t[i + 1])
    BY <2>1, <2>3, <2>4, EatChar
  <2> QED BY <2>1, <2>3, <2>5
<1>5. Nat \subseteq S
  <2> HIDE DEF S
  <2> QED BY <1>3, <1>4, Induction
<1>6. Reads(N)
  BY <1>5
<1>7. n.text = t
  BY <1>2, <1>6
<1> QED BY <1>2, <1>6, <1>7

\* A run over five characters.
LEMMA RunFive ==
    ASSUME NEW s, NEW a, NEW b, NEW c, NEW d, NEW e
    PROVE  Run(s, <<a, b, c, d, e>>) = Eat(Eat(Eat(Eat(Eat(s, a), b), c), d), e)
<1>1. PICK l : l = <<a, b, c, d, e>>
  OBVIOUS
<1>2. DOMAIN l = 1..5 /\ 5 \in Nat /\ l[1] = a /\ l[2] = b /\ l[3] = c /\ l[4] = d /\ l[5] = e
  BY <1>1
<1>3. PICK h : StepsOf(h, s, l, 5) /\ Run(s, l) = h[5]
  BY <1>2, RunSteps
<1>4. /\ h[0] = s /\ h[1] = Eat(h[0], l[1]) /\ h[2] = Eat(h[1], l[2]) /\ h[3] = Eat(h[2], l[3])
      /\ h[4] = Eat(h[3], l[4]) /\ h[5] = Eat(h[4], l[5])
  BY <1>3 DEF StepsOf
<1> QED BY <1>1, <1>2, <1>3, <1>4

\* A document with one more member.
With(d, k, t) == [q \in DOMAIN d \cup {<<k>>} |-> IF q = <<k>> THEN t ELSE d[q]]

\* A key that is printed is read, up to the quote character behind the colon.
LEMMA EatsKey ==
    ASSUME NEW s, Parts(s), s.room \in Int, s.at \in {"first", "key"}, NEW k \in Letters,
           <<k>> \notin DOMAIN s.doc, s.room >= 3 + SlotSize,
           NEW n, n = Eat(Eat(Eat(Eat(Eat(s, Quote), k), Quote), ColonSign), Quote)
    PROVE  /\ Parts(n) /\ n.room \in Int /\ n.at = "inText" /\ n.stop = Quote /\ n.text = <<>>
           /\ n.key = <<k>> /\ n.room >= s.room - 2 - SlotSize
           /\ n.doc = With(s.doc, k, <<>>)
<1>0. k # Quote /\ SlotSize \in Nat
  BY LettersInChar, SlotAssumption
<1>1. PICK a : a = Eat(s, Quote)
  OBVIOUS
<1>2. PICK b : b = Eat(a, k)
  OBVIOUS
<1>3. PICK c : c = Eat(b, Quote)
  OBVIOUS
<1>4. PICK d : d = Eat(c, ColonSign)
  OBVIOUS
<1>5. n = Eat(d, Quote)
  BY <1>1, <1>2, <1>3, <1>4
<1>6. /\ Parts(a) /\ a.room \in Int /\ a.at = "inKey" /\ a.stop = Quote /\ a.text = <<>>
      /\ a.room = s.room /\ a.doc = s.doc
  BY <1>0, <1>1, EatKeyBegin
<1>7. /\ Parts(b) /\ b.room \in Int /\ b.at = "inKey" /\ b.stop = Quote /\ b.text = <<k>>
      /\ b.room = s.room /\ b.doc = s.doc
  <2>1. a.room > 1 /\ k # a.stop
    BY <1>0, <1>6
  <2> QED BY <1>2, <1>6, <2>1, EatKeyChar
<1>8. /\ Parts(c) /\ c.room \in Int /\ c.at = "colon" /\ c.text = <<k>>
      /\ c.room = s.room /\ c.doc = s.doc
  BY <1>3, <1>7, EatKeyEnd
<1>9. PICK x : x = <<k>>
  OBVIOUS
<1>10. x \in Seq(Char) /\ Len(x) = 1
  BY <1>9, LettersInChar
<1>11. c.text = x /\ x \notin DOMAIN c.doc /\ c.room >= Len(c.text) + 1 + SlotSize
  BY <1>0, <1>8, <1>9, <1>10
<1>12. /\ Parts(d) /\ d.room \in Int /\ d.at = "value" /\ d.key = c.text
       /\ d.room >= c.room - (Len(c.text) + 1) - SlotSize
       /\ d.doc = [q \in DOMAIN c.doc \cup {c.text} |-> IF q = c.text THEN <<>> ELSE c.doc[q]]
  <2>1. c.text \in Seq(Char) /\ c.text \notin DOMAIN c.doc
    BY <1>10, <1>11
  <2> QED BY <1>4, <1>8, <1>11, <2>1, EatColon
<1>13. d.room >= s.room - 2 - SlotSize /\ d.room # 0
  BY <1>0, <1>8, <1>10, <1>11, <1>12
<1>14. /\ Parts(n) /\ n.room \in Int /\ n.at = "inText" /\ n.stop = Quote /\ n.text = <<>>
       /\ n.room = d.room /\ n.doc = d.doc /\ n.key = d.key
  BY <1>5, <1>12, <1>13, EatTextBegin
<1>15. n.doc = With(s.doc, k, <<>>)
  BY <1>8, <1>9, <1>11, <1>12, <1>14 DEF With
<1> QED BY <1>8, <1>9, <1>11, <1>12, <1>13, <1>14, <1>15

\* A member that is printed is read: its key is new, and the line leaves room.
LEMMA RunMember ==
    ASSUME NEW s, Parts(s), s.room \in Int, s.at \in {"first", "key"}, NEW k \in Letters,
           NEW t \in Seq(Char),
           <<k>> \notin DOMAIN s.doc, \A i \in DOMAIN t : t[i] # Quote,
           s.room >= Len(t) + 3 + SlotSize, NEW n, n = Run(s, Member(k, t))
    PROVE  /\ Parts(n) /\ n.room \in Int /\ n.at = "comma"
           /\ n.room >= s.room - (Len(t) + 3 + SlotSize)
           /\ n.doc = With(s.doc, k, t)
<1>0. SlotSize \in Nat /\ Len(t) \in Nat
  BY SlotAssumption
<1>1. PICK e : e = <<Quote, k, Quote, ColonSign, Quote>>
  OBVIOUS
<1>2. PICK f : f = <<Quote>>
  OBVIOUS
<1>3. Member(k, t) = (<<Quote, k, Quote, ColonSign, Quote>> \o t) \o <<Quote>>
  BY Zenon DEF Member, Quote, ColonSign
<1>4. e \in Seq(Char) /\ f \in Seq(Char) /\ e \o t \in Seq(Char)
  <2>1. e \in Seq(Char) /\ f \in Seq(Char)
    BY <1>1, <1>2, SignsInChar, LettersInChar
  <2> QED BY <2>1
<1>5. n = Run(Run(Run(s, e), t), f)
  <2>1. PICK w \in Seq(Char) : w = e \o t
    BY <1>4
  <2>2. Run(s, w \o f) = Run(Run(s, w), f)
    BY <1>4, RunConcat
  <2>3. Run(s, w) = Run(Run(s, e), t)
    BY <1>4, <2>1, RunConcat
  <2>4. Member(k, t) = w \o f
    BY <1>1, <1>2, <1>3, <2>1
  <2> QED BY <2>2, <2>3, <2>4
<1>6. PICK a : a = Run(s, e)
  OBVIOUS
<1>7. /\ Parts(a) /\ a.room \in Int /\ a.at = "inText" /\ a.stop = Quote /\ a.text = <<>>
      /\ a.key = <<k>> /\ a.room >= s.room - 2 - SlotSize
      /\ a.doc = With(s.doc, k, <<>>)
  <2>1. a = Eat(Eat(Eat(Eat(Eat(s, Quote), k), Quote), ColonSign), Quote)
    BY <1>1, <1>6, RunFive
  <2>2. s.room >= 3 + SlotSize
    BY <1>0
  <2> QED BY <2>1, <2>2, EatsKey
<1>8. PICK b : b = Run(a, t)
  OBVIOUS
<1>9. /\ Parts(b) /\ b.room \in Int /\ b.at = "inText" /\ b.stop = Quote /\ b.text = t
      /\ b.key = a.key /\ b.doc = a.doc /\ b.room = a.room
  <2>1. Len(t) < a.room
    BY <1>0, <1>7
  <2>2. \A i \in DOMAIN t : t[i] # a.stop
    BY <1>7
  <2> QED BY <1>7, <1>8, <2>1, <2>2, RunText
<1>10. n = Eat(b, b.stop)
  BY <1>2, <1>5, <1>6, <1>8, <1>9, RunShort
<1>11. /\ Parts(n) /\ n.room \in Int /\ n.at = "comma" /\ n.room >= b.room - (Len(t) + 1)
       /\ n.doc = [b.doc EXCEPT ![b.key] = t]
  BY <1>9, <1>10, EatTextEnd
<1>12. n.room >= s.room - (Len(t) + 3 + SlotSize)
  BY <1>0, <1>7, <1>9, <1>11
<1>13. n.doc = With(s.doc, k, t)
  <2>1. PICK x : x = <<k>>
    OBVIOUS
  <2>2. a.doc = [q \in DOMAIN s.doc \cup {x} |-> IF q = x THEN <<>> ELSE s.doc[q]]
    BY <1>7, <2>1 DEF With
  <2>3. n.doc = [a.doc EXCEPT ![x] = t]
    BY <1>7, <1>9, <1>11, <2>1
  <2>4. n.doc = [q \in DOMAIN s.doc \cup {x} |-> IF q = x THEN t ELSE s.doc[q]]
    BY <2>2, <2>3
  <2> QED BY <2>1, <2>4 DEF With
<1> QED BY <1>11, <1>12, <1>13

\* Whatever follows the object, the parse stays at rest.
LEMMA RunDone ==
    ASSUME NEW s, s.at = "done", NEW line \in Seq(Char)
    PROVE  Run(s, line) = s
<1>1. PICK N \in Nat : N = Len(line)
  OBVIOUS
<1>2. DOMAIN line = 1..N
  BY <1>1
<1>3. PICK h : StepsOf(h, s, line, N) /\ Run(s, line) = h[N]
  BY <1>2, RunSteps
<1> DEFINE S == {n \in Nat : n <= N => h[n] = s}
<1>4. 0 \in S
  BY <1>3 DEF StepsOf
<1>5. ASSUME NEW n \in Nat, n \in S PROVE n + 1 \in S
  <2> SUFFICES ASSUME n + 1 <= N PROVE h[n + 1] = s
    OBVIOUS
  <2>1. h[n] = s /\ n + 1 \in 1..N /\ (n + 1) - 1 = n
    BY <1>5
  <2>2. h[n + 1] = Eat(s, line[n + 1])
    BY <1>3, <2>1 DEF StepsOf
  <2> QED BY <2>2, EatDone
<1>6. Nat \subseteq S
  <2> HIDE DEF S
  <2> QED BY <1>4, <1>5, Induction
<1>7. h[N] = s
  BY <1>6
<1> QED BY <1>3, <1>7

\* The member on place i of an object.
Place(keys, texts, i) ==
    (IF i = 1 THEN <<>> ELSE <<CommaSign>>) \o Member(keys[i], texts[keys[i]])

\* The members of an object, in their order.
Members(keys, texts) == [i \in DOMAIN keys |-> Place(keys, texts, i)]

\* A member is six characters longer than its text.
LEMMA MemberType ==
    ASSUME NEW k \in Letters, NEW t \in Seq(Char)
    PROVE  Member(k, t) \in Seq(Char) /\ Len(Member(k, t)) = Len(t) + 6
<1>1. PICK e : e = <<Quote, k, Quote, ColonSign, Quote>>
  OBVIOUS
<1>2. PICK f : f = <<Quote>>
  OBVIOUS
<1>3. Member(k, t) = (<<Quote, k, Quote, ColonSign, Quote>> \o t) \o <<Quote>>
  BY Zenon DEF Member, Quote, ColonSign
<1>4. e \in Seq(Char) /\ f \in Seq(Char)
  BY <1>1, <1>2, SignsInChar, LettersInChar
<1>5. Len(e) = 5 /\ Len(f) = 1
  BY <1>1, <1>2
<1>6. PICK n \in Nat : n = Len(t)
  OBVIOUS
<1>7. PICK v \in Seq(Char) : v = e \o t /\ Len(v) = 5 + n
  <2>1. e \o t \in Seq(Char) /\ Len(e \o t) = Len(e) + Len(t)
    BY <1>4
  <2> QED BY <1>5, <1>6, <2>1
<1>8. PICK w \in Seq(Char) : w = v \o f /\ Len(w) = n + 6
  <2>1. v \o f \in Seq(Char) /\ Len(v \o f) = Len(v) + Len(f)
    BY <1>4
  <2>2. Len(v) + Len(f) = n + 6
    BY <1>5, <1>7
  <2> QED BY <2>1, <2>2
<1>9. Member(k, t) = w
  BY <1>1, <1>2, <1>3, <1>7, <1>8
<1> QED BY <1>6, <1>8, <1>9

\* A member on its place, with the comma before it, is a piece of a line.
LEMMA PlaceType ==
    ASSUME NEW keys \in Seq(Letters), NEW texts, NEW i \in DOMAIN keys,
           texts[keys[i]] \in Seq(Char)
    PROVE  /\ Place(keys, texts, i) \in Seq(Char)
           /\ Len(Place(keys, texts, i)) >= Len(texts[keys[i]]) + 6
<1>1. PICK t \in Seq(Char) : t = texts[keys[i]]
  OBVIOUS
<1>2. keys[i] \in Letters
  OBVIOUS
<1>3. PICK m \in Seq(Char) : m = Member(keys[i], texts[keys[i]]) /\ Len(m) = Len(t) + 6
  BY <1>1, <1>2, MemberType
<1>4. PICK c \in Seq(Char) : c = (IF i = 1 THEN <<>> ELSE <<CommaSign>>)
  <2>1. <<>> \in Seq(Char) /\ <<CommaSign>> \in Seq(Char)
    BY SignsInChar
  <2> QED BY <2>1
<1>5. Place(keys, texts, i) = c \o m
  BY <1>3, <1>4 DEF Place
<1>6. c \o m \in Seq(Char) /\ Len(c \o m) >= Len(t) + 6
  BY <1>3
<1> QED BY <1>1, <1>5, <1>6

\* What the object's members up to place i leave in the document.
Holds(d, keys, texts, i) ==
    /\ DOMAIN d = {<<keys[j]>> : j \in 1..i}
    /\ \A j \in 1..i : d[<<keys[j]>>] = texts[keys[j]]

\* If the members before it are in the document, the next one joins them, and
\* takes no more room than it has characters, and the slot of its member.
LEMMA RunPlace ==
    ASSUME NEW keys \in Seq(Letters), NEW texts, NEW i \in DOMAIN keys,
           \A j \in DOMAIN keys : keys[j] = keys[i] => j = i,
           texts[keys[i]] \in Seq(Char), Unquoted(texts[keys[i]]),
           NEW s, Parts(s), s.room \in Int, s.at = (IF i = 1 THEN "first" ELSE "comma"),
           Holds(s.doc, keys, texts, i - 1),
           s.room >= Len(texts[keys[i]]) + 3 + SlotSize,
           NEW n, n = Run(s, Place(keys, texts, i))
    PROVE  /\ Parts(n) /\ n.room \in Int /\ n.at = "comma" /\ Holds(n.doc, keys, texts, i)
           /\ n.room >= s.room - (Len(texts[keys[i]]) + 3 + SlotSize)
<1>0. PICK k \in Letters : k = keys[i]
  OBVIOUS
<1>1. PICK t \in Seq(Char) : t = texts[k]
  BY <1>0
<1>2. PICK m \in Seq(Char) : m = Member(k, t)
  BY MemberType
<1>3. PICK r : /\ Parts(r) /\ r.room = s.room /\ r.at \in {"first", "key"} /\ r.doc = s.doc
               /\ n = Run(r, m)
  <2>1. CASE i = 1
    <3>1. <<>> \o m = m
      OBVIOUS
    <3>2. n = Run(s, m)
      BY <1>0, <1>1, <1>2, <2>1, <3>1 DEF Place
    <3> QED BY <2>1, <3>2
  <2>2. CASE i # 1
    <3>1. PICK c \in Seq(Char) : c = <<CommaSign>>
      <4>1. <<CommaSign>> \in Seq(Char)
        BY SignsInChar
      <4> QED BY <4>1
    <3>2. n = Run(s, c \o m)
      BY <1>0, <1>1, <1>2, <2>2, <3>1 DEF Place
    <3>3. n = Run(Eat(s, CommaSign), m)
      <4>1. Run(s, c \o m) = Run(Run(s, c), m)
        BY RunConcat
      <4>2. Run(s, c) = Eat(s, CommaSign)
        BY <3>1, RunShort
      <4> QED BY <3>2, <4>1, <4>2, Zenon
    <3> QED BY <2>2, <3>3, EatBetween
  <2> QED BY <2>1, <2>2
<1>4. <<k>> \notin DOMAIN r.doc
  <2>1. ASSUME NEW j \in 1..(i - 1), <<keys[j]>> = <<k>> PROVE FALSE
    <3>1. keys[j] = keys[i] /\ j \in DOMAIN keys /\ j # i
      BY <1>0, <2>1
    <3> QED BY <3>1
  <2> QED BY <1>3, <2>1 DEF Holds
<1>5. /\ Parts(n) /\ n.room \in Int /\ n.at = "comma"
      /\ n.room >= r.room - (Len(t) + 3 + SlotSize)
      /\ n.doc = With(r.doc, k, t)
  <2>1. r.room \in Int /\ r.room >= Len(t) + 3 + SlotSize /\ \A j \in DOMAIN t : t[j] # Quote
    BY <1>0, <1>1, <1>3, NoQuote
  <2>2. n = Run(r, Member(k, t)) /\ Parts(r) /\ r.at \in {"first", "key"}
    BY <1>2, <1>3
  <2> QED BY <1>4, <2>1, <2>2, RunMember, ZenonT(30)
<1>6. DOMAIN n.doc = {<<keys[j]>> : j \in 1..i}
  <2>1. DOMAIN n.doc = {<<keys[j]>> : j \in 1..(i - 1)} \cup {<<keys[i]>>}
    BY <1>0, <1>3, <1>5 DEF Holds, With
  <2>2. 1..i = 1..(i - 1) \cup {i}
    OBVIOUS
  <2> QED BY <2>1, <2>2
<1>7. ASSUME NEW j \in 1..i PROVE n.doc[<<keys[j]>>] = texts[keys[j]]
  <2>1. CASE j = i
    BY <1>0, <1>1, <1>5, <2>1 DEF With
  <2>2. CASE j # i
    <3>1. j \in 1..(i - 1) /\ keys[j] # k /\ j \in DOMAIN keys
      BY <1>0, <2>2
    <3>2. /\ <<keys[j]>> # <<k>> /\ <<keys[j]>> \in DOMAIN r.doc
          /\ r.doc[<<keys[j]>>] = texts[keys[j]]
      BY <1>3, <3>1 DEF Holds
    <3> QED BY <1>5, <3>2 DEF With
  <2> QED BY <2>1, <2>2
<1> QED BY <1>0, <1>1, <1>3, <1>5, <1>6, <1>7 DEF Holds

\* An object with a member for each of different keys, for which there are
\* slots, and with texts without the quote character that ends them.
Texted(keys, texts) ==
    keys \in Seq(Letters) /\ \A i \in DOMAIN keys : texts[keys[i]] \in Seq(Char)

\* A key of its own for every text, and a slot; texts that nothing ends early.
Printable(keys, texts) ==
    /\ keys \in Seq(Letters) /\ Len(keys) <= Slots
    /\ \A i, j \in DOMAIN keys : keys[i] = keys[j] => i = j
    /\ \A i \in DOMAIN keys : texts[keys[i]] \in Seq(Char) /\ Unquoted(texts[keys[i]])

\* The members of an object are pieces of a line.
LEMMA MembersType ==
    ASSUME NEW keys, NEW texts, Texted(keys, texts)
    PROVE  /\ Members(keys, texts) \in Seq(Seq(Char)) /\ Len(Members(keys, texts)) = Len(keys)
           /\ \A i \in DOMAIN keys : Members(keys, texts)[i] = Place(keys, texts, i)
<1>1. \A i \in DOMAIN keys : Place(keys, texts, i) \in Seq(Char)
  BY PlaceType DEF Texted
<1>2. DOMAIN keys = 1..Len(keys) /\ Len(keys) \in Nat
  BY DEF Texted
<1> QED BY <1>1, <1>2 DEF Members

\* The slots of the document can be taken one by one.
LEMMA SlotsLeft ==
    \E R : /\ R[0] = Slots * SlotSize
           /\ \A i \in 0..Slots : R[i] \in Nat
           /\ \A i \in 1..Slots : R[i - 1] = R[i] + SlotSize
<1> USE SlotAssumption
<1> DEFINE R == [i \in 0..Slots |-> (Slots - i) * SlotSize]
<1>1. R[0] = Slots * SlotSize
  OBVIOUS
<1>2. ASSUME NEW i \in 0..Slots PROVE R[i] \in Nat
  <2>1. PICK n \in Nat : n = Slots - i
    OBVIOUS
  <2>2. n * SlotSize \in Nat
    OBVIOUS
  <2> QED BY <2>1, <2>2
<1>3. ASSUME NEW i \in 1..Slots PROVE R[i - 1] = R[i] + SlotSize
  <2>1. R[i - 1] = (Slots - (i - 1)) * SlotSize /\ R[i] = (Slots - i) * SlotSize
    OBVIOUS
  <2>2. PICK n \in Nat : n = Slots - i /\ Slots - (i - 1) = n + 1
    OBVIOUS
  <2>3. (n + 1) * SlotSize = n * SlotSize + SlotSize
    OBVIOUS
  <2> HIDE DEF R
  <2> QED BY <2>1, <2>2, <2>3
<1> HIDE DEF R
<1> QED BY <1>1, <1>2, <1>3

\* All members of an object are read: after each there is room for what the line
\* has left, and for the slots that are left.
LEMMA RunMembers ==
    ASSUME NEW keys, NEW texts, Printable(keys, texts),
           NEW line, line = SX!FlattenSeq(Members(keys, texts)),
           NEW s, Parts(s), s.room \in Int, s.at = "first", s.doc = <<>>,
           s.room >= Len(line) + Slots * SlotSize, NEW n, n = Run(s, line)
    PROVE  /\ line \in Seq(Char)
           /\ Parts(n) /\ n.at \in {"first", "comma"} /\ Holds(n.doc, keys, texts, Len(keys))
<1>1. PICK N \in Nat : N = Len(keys) /\ N <= Slots /\ DOMAIN keys = 1..N
  BY DEF Printable
<1>2. PICK M \in Seq(Seq(Char)) : /\ M = Members(keys, texts) /\ Len(M) = N
                                  /\ \A i \in 1..N : M[i] = Place(keys, texts, i)
  BY <1>1, MembersType DEF Texted, Printable
<1>3. PICK g : JoinsOf(g, M, N, Char) /\ line = g[N]
  BY <1>2, JoinSteps
<1>4. PICK R : /\ R[0] = Slots * SlotSize
               /\ \A i \in 0..Slots : R[i] \in Nat
               /\ \A i \in 1..Slots : R[i - 1] = R[i] + SlotSize
  BY SlotsLeft
<1>5. \A i \in 0..N : g[i] \in Seq(Char) /\ Len(g[i]) <= Len(line) /\ Len(g[i]) \in Nat
  <2>1. \A i \in 1..N : M[i] \in Seq(Char)
    BY <1>2
  <2>2. ASSUME NEW i \in 0..N PROVE g[i] \in Seq(Char) /\ Len(g[i]) <= Len(line)
    BY <1>3, <2>1, JoinGrows DEF JoinsOf
  <2> QED BY <2>2
<1> DEFINE At(r, i) ==
      /\ Parts(r) /\ r.room \in Int /\ r.at = (IF i = 0 THEN "first" ELSE "comma")
      /\ Holds(r.doc, keys, texts, i) /\ r.room >= Len(line) - Len(g[i]) + R[i]
           S == {i \in Nat : i <= N => At(Run(s, g[i]), i)}
<1>6. 0 \in S
  <2>1. Run(s, g[0]) = s
    BY <1>3, RunShort DEF JoinsOf
  <2>2. g[0] = <<>> /\ Len(g[0]) = 0
    BY <1>3 DEF JoinsOf
  <2>3. Holds(s.doc, keys, texts, 0)
    BY DEF Holds
  <2>4. s.room >= Len(line) - Len(g[0]) + R[0]
    BY <1>4, <1>5, <2>2, SlotAssumption
  <2> QED BY <2>1, <2>3, <2>4
<1>7. ASSUME NEW i \in Nat, i \in S PROVE i + 1 \in S
  <2> SUFFICES ASSUME i + 1 <= N PROVE At(Run(s, g[i + 1]), i + 1)
    OBVIOUS
  <2>1. PICK r : r = Run(s, g[i])
    OBVIOUS
  <2>2. At(r, i)
    BY <1>7, <2>1
  <2>0. PICK j \in 1..N : j = i + 1
    OBVIOUS
  <2>3. j = i + 1 /\ j - 1 = i /\ j \in 1..Slots /\ i \in 0..N /\ j \in DOMAIN keys
    <3>1. j \in 1..Slots
      BY <1>1, SlotAssumption
    <3> QED BY <1>1, <2>0, <3>1
  <2>4. PICK p \in Seq(Char) : p = Place(keys, texts, j) /\ p = M[j]
    BY <1>2, <2>3
  <2>5. PICK n1 : n1 = Run(r, p)
    OBVIOUS
  <2>6. g[j] = g[i] \o p /\ Run(s, g[j]) = n1
    <3>1. g[j] = g[i] \o p
      BY <1>3, <2>3, <2>4 DEF JoinsOf
    <3> QED BY <1>5, <2>1, <2>3, <2>5, <3>1, RunConcat
  <2>7. PICK t \in Seq(Char) : t = texts[keys[j]] /\ Unquoted(t) /\ Len(p) >= Len(t) + 6
    BY <2>3, <2>4, PlaceType DEF Printable
  <2>8. Len(g[j]) = Len(g[i]) + Len(p) /\ Len(p) \in Nat /\ Len(t) \in Nat
    <3>1. PICK u \in Seq(Char) : u = g[i]
      BY <1>5, <2>3
    <3> QED BY <2>6, <3>1
  <2>9. R[i] = R[j] + SlotSize /\ R[j] \in Nat /\ SlotSize \in Nat
    BY <1>4, <2>3, SlotAssumption
  <2>10. Len(g[j]) <= Len(line) /\ Len(line) \in Nat /\ Len(g[i]) \in Nat
    BY <1>3, <1>5, <2>3
  <2>14. PICK a \in Nat : a = Len(g[i])
    BY <2>10
  <2>15. PICK b \in Nat : b = Len(g[j])
    BY <1>5, <2>3
  <2>16. PICK l \in Nat : l = Len(line)
    BY <2>10
  <2>17. PICK x \in Nat : x = R[i]
    BY <1>4, <2>3, <2>9
  <2>18. PICK y \in Nat : y = R[j]
    BY <2>9
  <2>19. r.room \in Int /\ r.room >= l - a + x
    BY <2>2, <2>14, <2>16, <2>17
  <2>20. b = a + Len(p) /\ b <= l /\ x = y + SlotSize /\ Len(p) >= Len(t) + 6
    BY <2>7, <2>8, <2>9, <2>10, <2>14, <2>15, <2>16, <2>17, <2>18
  <2>11. r.room >= Len(t) + 3 + SlotSize
    BY <2>8, <2>9, <2>19, <2>20
  <2>12. /\ Parts(n1) /\ n1.room \in Int /\ n1.at = "comma" /\ Holds(n1.doc, keys, texts, j)
         /\ n1.room >= r.room - (Len(t) + 3 + SlotSize)
    <3>1. keys \in Seq(Letters) /\ \A k \in DOMAIN keys : keys[k] = keys[j] => k = j
      BY <2>3 DEF Printable
    <3>2. r.at = (IF j = 1 THEN "first" ELSE "comma") /\ Holds(r.doc, keys, texts, j - 1)
      BY <2>2, <2>3
    <3> QED BY <2>2, <2>3, <2>4, <2>5, <2>7, <2>11, <3>1, <3>2, RunPlace
  <2>13. n1.room >= Len(line) - Len(g[j]) + R[j]
    <3>1. PICK q \in Int : q = r.room
      BY <2>19
    <3>2. PICK z \in Int : z = n1.room
      BY <2>12
    <3>3. PICK w \in Nat : w = Len(t)
      BY <2>8
    <3>4. PICK v \in Nat : v = Len(p)
      BY <2>8
    <3>5. q >= l - a + x /\ z >= q - (w + 3 + SlotSize)
      BY <2>12, <2>19, <3>1, <3>2, <3>3
    <3>6. b = a + v /\ x = y + SlotSize /\ v >= w + 6 /\ SlotSize \in Nat
      BY <2>9, <2>20, <3>3, <3>4
    <3>7. z >= l - b + y
      BY <3>5, <3>6
    <3> QED BY <2>15, <2>16, <2>18, <3>2, <3>7
  <2> QED BY <2>3, <2>6, <2>12, <2>13
<1>8. Nat \subseteq S
  <2> HIDE DEF S
  <2> QED BY <1>6, <1>7, Induction
<1>9. At(n, N)
  <2>1. N \in S
    BY <1>8
  <2>2. At(Run(s, g[N]), N)
    BY <2>1
  <2> HIDE DEF At
  <2> QED BY <1>3, <2>2
<1>10. line \in Seq(Char)
  BY <1>3 DEF JoinsOf
<1> QED BY <1>1, <1>9, <1>10

\* What ends a line.
Return  == "\r"
Newline == "\n"
LineEnd == <<CloseBrace, Return, Newline>>

\* Three characters are one and two.
LEMMA ThreeInOne ==
    ASSUME NEW T, NEW a \in T, NEW b \in T, NEW c \in T
    PROVE  <<a, b, c>> = <<a>> \o <<b, c>>
<1> PICK x : x = <<a>>
  OBVIOUS
<1> PICK y : y = <<b, c>>
  OBVIOUS
<1> PICK z : z = <<a, b, c>>
  OBVIOUS
<1> PICK w : w = x \o y
  OBVIOUS
<1>1. x \in Seq(T) /\ Len(x) = 1 /\ x[1] = a
  OBVIOUS
<1>2. y \in Seq(T) /\ Len(y) = 2 /\ y[1] = b /\ y[2] = c
  OBVIOUS
<1>3. z \in Seq(T) /\ Len(z) = 3 /\ z[1] = a /\ z[2] = b /\ z[3] = c
  OBVIOUS
<1>4. w \in Seq(T) /\ Len(w) = 3 /\ w[1] = x[1] /\ w[2] = y[1] /\ w[3] = y[2]
  OBVIOUS
<1>5. w = z
  <2>1. DOMAIN w = 1..3 /\ DOMAIN z = 1..3
    BY <1>3, <1>4
  <2>2. w = [i \in 1..3 |-> w[i]] /\ z = [i \in 1..3 |-> z[i]]
    BY <2>1
  <2>3. \A i \in 1..3 : w[i] = z[i]
    BY <1>1, <1>2, <1>3, <1>4
  <2> QED BY <2>2, <2>3
<1> QED BY <1>1, <1>2, <1>3, <1>4, <1>5

\* The end of a line is the brace and what println() adds.
LEMMA LineEndParts ==
    /\ LineEnd \in Seq(Char)
    /\ \E v \in Seq(Char) : LineEnd = <<CloseBrace>> \o v
<1>1. CloseBrace \in Char /\ Return \in Char /\ Newline \in Char
  BY Zenon DEF CloseBrace, Return, Newline, Char
<1>2. PICK v : v = <<Return, Newline>>
  OBVIOUS
<1>3. v \in Seq(Char)
  BY <1>1, <1>2
<1>4. <<CloseBrace>> \o v = LineEnd
  BY <1>1, <1>2, ThreeInOne DEF LineEnd
<1>5. LineEnd \in Seq(Char)
  BY <1>1 DEF LineEnd
<1> QED BY <1>3, <1>4, <1>5

\* A line is a brace, the members, and the end of the line.
LEMMA PrintedParts ==
    ASSUME NEW keys, NEW texts
    PROVE  Printed(keys, texts) =
               (<<OpenBrace>> \o SX!FlattenSeq(Members(keys, texts))) \o LineEnd
BY Zenon DEF Printed, Members, Place, LineEnd, OpenBrace, CloseBrace, CommaSign, Return, Newline

\* What is printed is a line.
LEMMA PrintedType ==
    ASSUME NEW keys, NEW texts, Texted(keys, texts)
    PROVE  Printed(keys, texts) \in Seq(Char)
<1>1. PICK M \in Seq(Seq(Char)) : M = Members(keys, texts)
  BY MembersType
<1>2. PICK g : JoinsOf(g, M, Len(M), Char) /\ SX!FlattenSeq(M) = g[Len(M)]
  BY JoinSteps
<1>3. SX!FlattenSeq(M) \in Seq(Char)
  BY <1>2 DEF JoinsOf
<1>4. <<OpenBrace>> \in Seq(Char)
  BY SignsInChar
<1>5. PICK x : x = <<OpenBrace>> \o SX!FlattenSeq(Members(keys, texts))
  OBVIOUS
<1>8. x \in Seq(Char)
  BY <1>1, <1>3, <1>4, <1>5
<1>6. PICK y \in Seq(Char) : y = LineEnd
  BY LineEndParts
<1>7. Printed(keys, texts) = x \o y
  BY <1>5, <1>6, PrintedParts
<1> QED BY <1>6, <1>7, <1>8

\* A document begins empty, with all of its memory.
LEMMA StartParts ==
    ASSUME NEW C
    PROVE  /\ Parts(Start(C)) /\ Start(C).at = "begin" /\ Start(C).doc = <<>>
           /\ Start(C).room = C
BY DEF Start, Parts

\* A line that was printed is parsed, and the document has its texts.
LEMMA RunPrinted ==
    ASSUME NEW keys, NEW texts, Printable(keys, texts),
           NEW C \in Nat, C >= Len(Printed(keys, texts)) + Slots * SlotSize,
           NEW n, n = Run(Start(C), Printed(keys, texts))
    PROVE  n.at = "done" /\ Holds(n.doc, keys, texts, Len(keys))
<1>0. Texted(keys, texts)
  BY DEF Printable, Texted
<1>1. PICK M \in Seq(Seq(Char)) : M = Members(keys, texts)
  BY <1>0, MembersType
<1>2. PICK g : JoinsOf(g, M, Len(M), Char) /\ SX!FlattenSeq(M) = g[Len(M)]
  BY JoinSteps
<1>3. PICK l \in Seq(Char) : l = SX!FlattenSeq(Members(keys, texts))
  BY <1>1, <1>2 DEF JoinsOf
<1>4. PICK u \in Seq(Char) : u = <<OpenBrace>>
  <2>1. <<OpenBrace>> \in Seq(Char)
    BY SignsInChar
  <2> QED BY <2>1
<1>5. PICK v \in Seq(Char) : LineEnd = <<CloseBrace>> \o v
  BY LineEndParts
<1>6. PICK w \in Seq(Char) : w = <<CloseBrace>>
  <2>1. <<CloseBrace>> \in Seq(Char)
    BY SignsInChar
  <2> QED BY <2>1
<1>7. Printed(keys, texts) = (u \o l) \o (w \o v)
  BY <1>3, <1>4, <1>5, <1>6, PrintedParts
<1>8. u \o l \in Seq(Char) /\ w \o v \in Seq(Char)
  OBVIOUS
<1>9. Run(Start(C), Printed(keys, texts)) = Run(Run(Run(Run(Start(C), u), l), w), v)
  <2>1. Run(Start(C), (u \o l) \o (w \o v)) = Run(Run(Start(C), u \o l), w \o v)
    <3>1. PICK x \in Seq(Char) : x = u \o l
      BY <1>8
    <3>2. PICK y \in Seq(Char) : y = w \o v
      BY <1>8
    <3>3. Run(Start(C), x \o y) = Run(Run(Start(C), x), y)
      BY RunConcat
    <3> QED BY <3>1, <3>2, <3>3
  <2>2. Run(Start(C), u \o l) = Run(Run(Start(C), u), l)
    BY RunConcat
  <2>3. \A s : Run(s, w \o v) = Run(Run(s, w), v)
    BY RunConcat
  <2> QED BY <1>7, <2>1, <2>2, <2>3
<1>10. PICK a : a = Run(Start(C), u)
  OBVIOUS
<1>11. Parts(a) /\ a.at = "first" /\ a.doc = <<>> /\ a.room = C
  <2>1. a = Eat(Start(C), OpenBrace)
    BY <1>4, <1>10, RunShort
  <2>2. PICK s : s = Start(C)
    OBVIOUS
  <2>3. Parts(s) /\ s.at = "begin" /\ s.doc = <<>> /\ s.room = C
    BY <2>2, StartParts
  <2> QED BY <2>1, <2>2, <2>3, EatOpen
<1>12. PICK b : b = Run(a, l)
  OBVIOUS
<1>13. Parts(b) /\ b.at \in {"first", "comma"} /\ Holds(b.doc, keys, texts, Len(keys))
  <2>1. Len(l) <= Len((u \o l) \o (w \o v))
    <3>1. PICK x \in Seq(Char) : x = u \o l
      BY <1>8
    <3>2. PICK y \in Seq(Char) : y = w \o v
      BY <1>8
    <3>3. Len(x) >= Len(l)
      BY <3>1
    <3>4. Len(x \o y) >= Len(x)
      OBVIOUS
    <3>5. Len(x \o y) >= Len(l)
      BY <3>3, <3>4
    <3> QED BY <3>1, <3>2, <3>5
  <2>2. PICK U \in Nat : U = Slots * SlotSize
    BY SlotAssumption
  <2>3. PICK p \in Nat : p = Len(Printed(keys, texts))
    BY <1>7, <1>8
  <2>4. Len(l) <= p /\ C >= p + U
    BY <1>7, <2>1, <2>2, <2>3
  <2>5. C >= Len(l) + U
    BY <2>4
  <2>6. a.room \in Int /\ a.room >= Len(l) + Slots * SlotSize
    BY <1>11, <2>2, <2>5
  <2> QED BY <1>3, <1>11, <1>12, <2>6, RunMembers
<1>14. PICK c : c = Run(b, w)
  OBVIOUS
<1>15. c.at = "done" /\ c.doc = b.doc
  BY <1>6, <1>13, <1>14, RunShort, EatClose
<1>16. n = c
  BY <1>9, <1>10, <1>12, <1>14, <1>15, RunDone
<1> QED BY <1>13, <1>15, <1>16

\* Of a file of several objects the first one is read: the others add to the
\* memory of the document, and are not looked at.
LEMMA RunLines ==
    ASSUME NEW keys, NEW O, NEW objects \in Seq(O), objects # <<>>,
           \A i \in DOMAIN objects : Texted(keys, objects[i]), Printable(keys, objects[1]),
           NEW n, n = Parse(Lines(keys, objects))
    PROVE  Parsed(n) /\ Holds(n.doc, keys, objects[1], Len(keys))
<1>1. PICK N \in Nat : N = Len(objects) /\ N >= 1 /\ DOMAIN objects = 1..N
  <2>1. Len(objects) \in Nat /\ Len(objects) >= 1 /\ DOMAIN objects = 1..Len(objects)
    OBVIOUS
  <2> QED BY <2>1
<1>2. PICK P : P = [i \in DOMAIN objects |-> Printed(keys, objects[i])]
  OBVIOUS
<1>3. /\ P \in Seq(Seq(Char)) /\ Len(P) = N
      /\ \A i \in 1..N : P[i] = Printed(keys, objects[i]) /\ P[i] \in Seq(Char)
  <2>1. \A i \in 1..N : Printed(keys, objects[i]) \in Seq(Char)
    BY <1>1, PrintedType
  <2> QED BY <1>1, <1>2, <2>1
<1>4. PICK g : JoinsOf(g, P, N, Char) /\ SX!FlattenSeq(P) = g[N]
  BY <1>3, JoinSteps
<1>5. Lines(keys, objects) = g[N]
  BY <1>2, <1>4 DEF Lines
<1>6. /\ g[0] = <<>> /\ \A i \in 0..N : g[i] \in Seq(Char)
      /\ \A i \in 1..N : g[i] = g[i - 1] \o P[i]
  BY <1>4 DEF JoinsOf
<1>7. g[1] = P[1] /\ 1 \in 0..N /\ 1 \in 1..N
  <2>1. 1 \in 1..N /\ 1 \in 0..N /\ 1 - 1 = 0
    BY <1>1
  <2>2. PICK p \in Seq(Char) : p = P[1]
    BY <1>3, <2>1
  <2>3. g[1] = <<>> \o p
    BY <1>6, <2>1, <2>2
  <2> QED BY <2>1, <2>2, <2>3
<1>8. PICK C \in Nat : C = Len(Lines(keys, objects)) + Slots * SlotSize
  <2>1. Len(Lines(keys, objects)) \in Nat /\ Slots * SlotSize \in Nat
    BY <1>1, <1>5, <1>6, SlotAssumption
  <2> QED BY <2>1
<1>9. C >= Len(Printed(keys, objects[1])) + Slots * SlotSize
  <2>1. Len(g[1]) <= Len(g[N])
    BY <1>1, <1>3, <1>4, <1>7, JoinGrows
  <2>2. PICK a \in Nat : a = Len(g[1])
    BY <1>6, <1>7
  <2>3. PICK b \in Nat : b = Len(g[N])
    BY <1>1, <1>6
  <2>4. PICK U \in Nat : U = Slots * SlotSize
    BY SlotAssumption
  <2>5. b + U >= a + U
    BY <2>1, <2>2, <2>3
  <2> QED BY <1>3, <1>5, <1>7, <1>8, <2>2, <2>3, <2>4, <2>5
<1>10. PICK r : r = Run(Start(C), Printed(keys, objects[1]))
  OBVIOUS
<1>11. r.at = "done" /\ Holds(r.doc, keys, objects[1], Len(keys))
  BY <1>9, <1>10, RunPrinted
<1> DEFINE Up == {i \in Nat : i + 1 <= N => Run(Start(C), g[i + 1]) = r}
<1>12. 0 \in Up
  BY <1>1, <1>3, <1>7, <1>10
<1>13. ASSUME NEW i \in Nat, i \in Up PROVE i + 1 \in Up
  <2> SUFFICES ASSUME (i + 1) + 1 <= N PROVE Run(Start(C), g[(i + 1) + 1]) = r
    OBVIOUS
  <2>1. Run(Start(C), g[i + 1]) = r
    BY <1>1, <1>13
  <2>2. PICK j \in 1..N : j = (i + 1) + 1
    BY <1>1
  <2>3. PICK u \in Seq(Char) : u = g[i + 1]
    BY <1>6, <2>2
  <2>4. PICK v \in Seq(Char) : v = P[j]
    BY <1>3
  <2>5. g[j] = u \o v
    <3>1. j - 1 = i + 1
      BY <2>2
    <3> QED BY <1>6, <2>3, <2>4, <3>1
  <2>6. Run(Start(C), u \o v) = Run(r, v)
    BY <2>1, <2>3, RunConcat
  <2>7. Run(r, v) = r
    BY <1>11, RunDone
  <2> QED BY <2>2, <2>5, <2>6, <2>7
<1>14. Nat \subseteq Up
  <2> HIDE DEF Up
  <2> QED BY <1>12, <1>13, Induction
<1>15. Run(Start(C), g[N]) = r
  <2>1. PICK m \in Nat : m + 1 = N
    BY <1>1
  <2>2. m \in Up
    BY <1>14
  <2>3. Run(Start(C), g[m + 1]) = r
    BY <1>1, <2>1, <2>2
  <2> QED BY <2>1, <2>3
<1>16. n = r
  BY <1>5, <1>8, <1>15 DEF Parse, Run
<1> QED BY <1>11, <1>16 DEF Parsed

\* The constructor finds each text under its key.
LEMMA TextHeld ==
    ASSUME NEW keys \in Seq(Letters), NEW texts, NEW s, Holds(s.doc, keys, texts, Len(keys)),
           NEW i \in DOMAIN keys
    PROVE  TextOf(s, keys[i]) = texts[keys[i]]
<1>1. i \in 1..Len(keys)
  OBVIOUS
<1> QED BY <1>1 DEF Holds, TextOf

\* Keys without repetition, one for each element of D, and a slot for each.
KeyPerText(keys, D) ==
    /\ D \subseteq Letters /\ keys \in Seq(D) /\ Len(keys) <= Slots
    /\ \A i, j \in DOMAIN keys : keys[i] = keys[j] => i = j
    /\ \A x \in D : \E i \in DOMAIN keys : keys[i] = x

\* The objects of a file; nothing ends a text of the first one early.
Written(objects, D) ==
    /\ objects \in Seq([D -> Seq(Typed)]) /\ objects # <<>>
    /\ \A x \in D : Unquoted(objects[1][x])

\* A parse that succeeds, with the texts of one object.
Gives(s, D, o) == Parsed(s) /\ \A x \in D : TextOf(s, x) = o[x]

\* The parse of a file gives the texts of its first object.
LEMMA LinesGive ==
    ASSUME NEW D, NEW keys, KeyPerText(keys, D), NEW objects, Written(objects, D)
    PROVE  Gives(Parse(Lines(keys, objects)), D, objects[1])
<1>1. keys \in Seq(Letters) /\ \A i \in DOMAIN keys : keys[i] \in D
  BY DEF KeyPerText
<1>2. Seq(Typed) \subseteq Seq(Char)
  <2>1. Typed \subseteq Char
    BY Zenon DEF Char
  <2> QED BY <2>1
<1>3. objects \in Seq([D -> Seq(Typed)]) /\ objects # <<>>
  BY DEF Written
<1>4. ASSUME NEW j \in DOMAIN objects PROVE Texted(keys, objects[j])
  <2>1. objects[j] \in [D -> Seq(Typed)]
    BY <1>3
  <2> QED BY <1>1, <1>2, <2>1 DEF Texted
<1>5. Printable(keys, objects[1])
  <2>1. 1 \in DOMAIN objects
    BY <1>3
  <2>2. Texted(keys, objects[1])
    BY <1>4, <2>1
  <2> QED BY <1>1, <2>2 DEF Texted, Printable, KeyPerText, Written
<1>6. PICK s : s = Parse(Lines(keys, objects))
  OBVIOUS
<1>7. Parsed(s) /\ Holds(s.doc, keys, objects[1], Len(keys))
  BY <1>3, <1>4, <1>5, <1>6, RunLines
<1>8. ASSUME NEW x \in D PROVE TextOf(s, x) = objects[1][x]
  <2>1. PICK i \in DOMAIN keys : keys[i] = x
    BY DEF KeyPerText
  <2> QED BY <1>1, <1>7, <2>1, TextHeld
<1> QED BY <1>6, <1>7, <1>8 DEF Gives

\* What setConfig and setCalibrations print, deserializeJson reads: for any keys,
\* as many as there are slots, and any texts without the quote character that
\* ends them, of any length, the file is parsed and every text comes back, however
\* many objects failed saves have left behind the first.
THEOREM JsonReadsBack ==
    ASSUME NEW D, D \subseteq Letters, NEW keys \in Seq(D), Len(keys) <= Slots,
           \A i, j \in DOMAIN keys : keys[i] = keys[j] => i = j,
           \A x \in D : \E i \in DOMAIN keys : keys[i] = x,
           NEW objects \in Seq([D -> Seq(Typed)]), objects # <<>>,
           \A x \in D : Unquoted(objects[1][x])
    PROVE  LET s == Parse(Lines(keys, objects))
           IN  Parsed(s) /\ \A x \in D : TextOf(s, x) = objects[1][x]
<1>1. KeyPerText(keys, D) /\ Written(objects, D)
  BY DEF KeyPerText, Written
<1>2. Gives(Parse(Lines(keys, objects)), D, objects[1])
  BY <1>1, LinesGive
<1> QED BY <1>2 DEF Gives

\* SetToSeq lists a finite set, each element once.
LEMMA KeysOnce ==
    ASSUME NEW S, IsFiniteSet(S)
    PROVE  /\ SX!SetToSeq(S) \in Seq(S) /\ Len(SX!SetToSeq(S)) = Cardinality(S)
           /\ \A i, j \in DOMAIN SX!SetToSeq(S) : SX!SetToSeq(S)[i] = SX!SetToSeq(S)[j] => i = j
           /\ \A x \in S : \E i \in DOMAIN SX!SetToSeq(S) : SX!SetToSeq(S)[i] = x
<1>1. PICK n \in Nat : n = Cardinality(S) /\ ExistsBijection(1..n, S)
  BY FS_CardinalityType
<1>2. SX!SetToSeq(S) = CHOOSE f \in [1..n -> S] : \A a, b \in DOMAIN f : f[a] = f[b] => a = b
  <2>1. SX!Cardinality(S) = Cardinality(S)
    BY DEF SX!Cardinality, Cardinality
  <2> QED BY <1>1, <2>1, Zenon DEF SX!SetToSeq, SX!IsInjective
<1>3. \E f \in [1..n -> S] : \A a, b \in DOMAIN f : f[a] = f[b] => a = b
  <2>1. PICK f : f \in Bijection(1..n, S)
    BY <1>1 DEF ExistsBijection
  <2>2. f \in [1..n -> S] /\ \A a, b \in DOMAIN f : f[a] = f[b] => a = b
    BY <2>1, Zenon DEF Bijection, Injection, IsInjective
  <2> QED BY <2>2
<1>4. PICK f \in [1..n -> S] : f = SX!SetToSeq(S) /\ \A a, b \in DOMAIN f : f[a] = f[b] => a = b
  BY <1>2, <1>3, Zenon
<1>5. f \in Surjection(1..n, S)
  <2>1. f \in Injection(1..n, S)
    BY <1>4, Zenon DEF Injection, IsInjective
  <2>2. IsFiniteSet(1..n) /\ Cardinality(1..n) = n
    BY <1>1, FS_Interval
  <2> QED BY <1>1, <2>1, <2>2, FS_Injection
<1>6. \A x \in S : \E i \in DOMAIN f : f[i] = x
  BY <1>5, Zenon DEF Surjection
<1>7. f \in Seq(S) /\ Len(f) = n
  OBVIOUS
<1> QED BY <1>1, <1>4, <1>6, <1>7

\* The same for the lines that the run makes, with any text under any key and
\* any other under the rest.
THEOREM JsonRoundTrips ==
    ASSUME IsFiniteSet(Letters), Cardinality(Letters) <= Slots
    PROVE  RoundTrips
<1> DEFINE texts == UNION {[1..n -> Typed \ {"\""}] : n \in 0..LongText}
<1>1. PICK keys : keys = SX!SetToSeq(Letters)
  OBVIOUS
<1>2. /\ keys \in Seq(Letters) /\ Len(keys) <= Slots
      /\ \A i, j \in DOMAIN keys : keys[i] = keys[j] => i = j
      /\ \A x \in Letters : \E i \in DOMAIN keys : keys[i] = x
  BY <1>1, KeysOnce
<1>3. \A t \in texts : t \in Seq(Char) /\ Unquoted(t)
  <2>1. Quote = "\"" /\ Typed \subseteq Char
    BY Zenon DEF Quote, Char
  <2> HIDE DEF texts
  <2> DEFINE T == Typed \ {Quote}
  <2>2. texts = UNION {[1..n -> T] : n \in 0..LongText}
    BY <2>1, Zenon DEF texts
  <2> HIDE DEF T
  <2>3. \A c \in T : c \in Char /\ c # Quote
    BY <2>1, Zenon DEF T
  <2>4. ASSUME NEW n \in 0..LongText, NEW t \in [1..n -> T]
        PROVE  t \in Seq(Char) /\ Unquoted(t)
    <3>1. n \in Nat
      BY SlotAssumption
    <3>2. t \in [1..n -> Char] /\ DOMAIN t = 1..n /\ \A i \in 1..n : t[i] # Quote
      BY <2>3
    <3>3. t \in Seq(Char)
      BY <3>1, <3>2
    <3> QED BY <3>2, <3>3, NoQuote
  <2> QED BY <2>2, <2>4, Zenon
<1>4. ASSUME NEW k \in Letters, NEW t \in texts, NEW u \in texts,
             NEW printed, printed = [x \in Letters |-> IF x = k THEN t ELSE u],
             NEW s, s = Parse(Printed(keys, printed))
      PROVE  Parsed(s) /\ \A x \in Letters : TextOf(s, x) = printed[x]
  <2> HIDE DEF texts
  <2>1. \A x \in Letters : printed[x] \in Seq(Char) /\ Unquoted(printed[x])
    BY <1>3, <1>4
  <2>2. Printable(keys, printed)
    BY <1>2, <2>1 DEF Printable
  <2>3. PICK line \in Seq(Char) : line = Printed(keys, printed)
    BY <2>2, PrintedType DEF Printable, Texted
  <2>4. PICK C \in Nat : C = Len(line) + Slots * SlotSize
    <3>1. Len(line) \in Nat /\ Slots * SlotSize \in Nat
      BY SlotAssumption
    <3> QED BY <3>1
  <2>5. C >= Len(Printed(keys, printed)) + Slots * SlotSize
    <3>1. Slots * SlotSize \in Nat
      BY SlotAssumption
    <3> QED BY <2>3, <2>4, <3>1
  <2>6. s = Run(Start(C), Printed(keys, printed))
    BY <1>4, <2>3, <2>4 DEF Parse, Run
  <2>7. s.at = "done" /\ Holds(s.doc, keys, printed, Len(keys))
    BY <2>2, <2>5, <2>6, RunPrinted
  <2>8. ASSUME NEW x \in Letters PROVE TextOf(s, x) = printed[x]
    <3>1. PICK i \in DOMAIN keys : keys[i] = x
      BY <1>2
    <3> QED BY <1>2, <2>7, <3>1, TextHeld
  <2> QED BY <2>7, <2>8 DEF Parsed
<1>5. ASSUME NEW k \in Letters, NEW t \in texts, NEW u \in texts
      PROVE  LET printed == [x \in Letters |-> IF x = k THEN t ELSE u]
                 s       == Parse(Printed(SX!SetToSeq(Letters), printed))
             IN  Parsed(s) /\ \A x \in Letters : TextOf(s, x) = printed[x]
  <2> HIDE DEF texts
  <2>1. PICK printed : printed = [x \in Letters |-> IF x = k THEN t ELSE u]
    OBVIOUS
  <2>2. PICK s : s = Parse(Printed(SX!SetToSeq(Letters), printed))
    OBVIOUS
  <2>3. Parsed(s) /\ \A x \in Letters : TextOf(s, x) = printed[x]
    BY <1>1, <1>4, <2>1, <2>2
  <2> QED BY <2>1, <2>2, <2>3
<1> QED BY <1>5, Zenon DEF RoundTrips

\* What a file of plain texts reads as: its first object.
LEMMA OutcomeFirst ==
    ASSUME NEW f \in Files, NEW objects \in Seq(Objects(f)), objects # <<>>,
           IsPlain(f, Head(objects))
    PROVE  Outcome(f, objects) = Head(objects)
<1>1. PICK D : D = In(f)
  OBVIOUS
<1>2. PICK keys \in Seq(D) :
        /\ keys = Keys[f] /\ Len(keys) <= Slots /\ D \subseteq Letters
        /\ \A i, j \in DOMAIN keys : keys[i] = keys[j] => i = j
        /\ \A x \in D : \E i \in DOMAIN keys : keys[i] = x
  <2>1. In(f) \subseteq Letters
    BY KeyLetters DEF In, Forms
  <2> QED BY <1>1, <2>1, KeysAssumption
<1>3. PICK o \in [D -> Texts] : o = objects[1] /\ o = Head(objects) /\ 1 \in DOMAIN objects
  BY <1>1 DEF Objects
<1>4. PICK P : P = [i \in DOMAIN objects |-> Spelled(objects[i])]
  OBVIOUS
<1>5. P \in Seq([D -> Seq(Typed)]) /\ P # <<>> /\ P[1] = Spelled(o)
  <2>1. \A i \in DOMAIN objects : Spelled(objects[i]) \in [D -> Seq(Typed)]
    <3>1. \A i \in DOMAIN objects : objects[i] \in [D -> Texts]
      BY <1>1 DEF Objects
    <3>2. \A t \in Texts : Spelling[t] \in Seq(Typed)
      BY SpellingAssumption
    <3> QED BY <3>1, <3>2 DEF Spelled
  <2>2. PICK n \in Nat : n = Len(objects) /\ DOMAIN objects = 1..n
    OBVIOUS
  <2>3. P \in [1..n -> [D -> Seq(Typed)]]
    BY <1>4, <2>1, <2>2
  <2> QED BY <1>3, <1>4, <2>2, <2>3
<1>6. \A x \in D : P[1][x] = Spelling[o[x]] /\ o[x] \in Texts /\ Unquoted(P[1][x])
  <2>1. \A x \in D : o[x] \in Plain
    BY <1>1, <1>3 DEF IsPlain
  <2> QED BY <1>3, <1>5, <2>1, SpellingAssumption DEF Spelled
<1>7. PICK s : s = Parse(Lines(keys, P))
  OBVIOUS
<1>8. Parsed(s) /\ \A x \in D : TextOf(s, x) = Spelling[o[x]]
  <2>1. \A x \in D : Unquoted(P[1][x])
    BY <1>6
  <2>2. KeyPerText(keys, D)
    BY <1>2 DEF KeyPerText
  <2>3. Written(P, D)
    BY <1>5, <2>1 DEF Written
  <2>4. Gives(s, D, P[1])
    BY <1>7, <2>2, <2>3, LinesGive
  <2> QED BY <1>6, <2>4 DEF Gives
<1>9. Outcome(f, objects) = [x \in D |-> CHOOSE t \in Texts : Spelling[t] = TextOf(s, x)]
  <2>1. s = Parse(Lines(Keys[f], [i \in DOMAIN objects |-> Spelled(objects[i])]))
    BY <1>2, <1>4, <1>7, Zenon
  <2>2. Outcome(f, objects) = TextsIn(f, s)
    BY <2>1, Zenon DEF Outcome
  <2> QED BY <1>1, <1>8, <2>2 DEF TextsIn
<1>10. ASSUME NEW x \in D
       PROVE  (CHOOSE t \in Texts : Spelling[t] = TextOf(s, x)) = o[x]
  <2>1. TextOf(s, x) = Spelling[o[x]] /\ o[x] \in Texts
    BY <1>6, <1>8
  <2>2. \A t \in Texts : Spelling[t] = TextOf(s, x) => t = o[x]
    BY <2>1, SpellingAssumption
  <2> QED BY <2>1, <2>2
<1> QED BY <1>3, <1>9, <1>10

------------------------------------------------------------------------------
(* Saves and starts, whatever fails.                                        *)

\* A save that has not failed works on an empty file from its second call on.
Cleared == pc \in {"open", "print"} /\ whole[writing] => card[writing] = <<>>

\* Once the configuration is read its texts are in memory.
ConfigRead ==
    pc = "calibrations" /\ Readable("config.txt") =>
        \A x \in ConfigForms : edit[x] = Read("config.txt", card["config.txt"])[x]

IInv == TypeOK /\ SaveHolds /\ Cleared /\ ConfigRead

------------------------------------------------------------------------------

\* What is loaded from a file are texts, the others stay: the loops over the
\* keys of the JSON object in the constructor and in getCalibrations.
LEMMA LoadedType == TypeOK => \A f \in Files : Loaded(f) \in [Forms -> Texts]
BY DEF TypeOK, Loaded, Readable, Objects

\* The settings in use are typed after the configuration is read.
LEMMA LoadedTempType == TypeOK => LoadedTemp \in [ConfigForms -> Texts]
BY DEF TypeOK, LoadedTemp, Readable, Objects, In

\* The device starts with empty files and nothing saved.
LEMMA InitIInv == Init => IInv
<1> SUFFICES ASSUME Init PROVE IInv
  OBVIOUS
<1>1. \A f \in Files : Blanks(In(f)) \in Objects(f)
  BY TextsAssumption DEF Blanks, Objects
<1>2. \A f \in Files : <<>> \in Seq(Objects(f))
  OBVIOUS
<1>3. TypeOK
  BY <1>1, <1>2, TextsAssumption DEF Init, TypeOK, Blanks, Forms, Files
<1>4. SaveHolds /\ Cleared /\ ConfigRead
  BY DEF Init, SaveHolds, Saved, Cleared, ConfigRead
<1> QED BY <1>3, <1>4 DEF IInv

\* No step of the device, of its user or of the power breaks the invariant.
LEMMA NextIInv == IInv /\ [Next]_vars => IInv'
<1> SUFFICES ASSUME IInv, [Next]_vars PROVE IInv'
  OBVIOUS
<1> USE DEF IInv
<1>1. CASE PowerCycle
  <2>1. TypeOK'
    BY <1>1, TextsAssumption DEF PowerCycle, TypeOK, Blanks, Forms
  <2>2. SaveHolds'
    BY <1>1 DEF PowerCycle, SaveHolds, Saved, Saving, TypeOK, Files
  <2>3. Cleared' /\ ConfigRead'
    BY <1>1 DEF PowerCycle, Cleared, ConfigRead
  <2> QED BY <2>1, <2>2, <2>3
<1>2. CASE ReadConfig
  <2>1. TypeOK'
    BY <1>2, LoadedType, LoadedTempType DEF ReadConfig, TypeOK, seen, Files
  <2>2. SaveHolds' /\ Cleared'
    BY <1>2 DEF ReadConfig, SaveHolds, Saved, Saving, Cleared, seen
  <2>3. ConfigRead'
    BY <1>2 DEF ReadConfig, ConfigRead, Loaded, Readable, In, Forms, seen
  <2> QED BY <2>1, <2>2, <2>3
<1>3. CASE ReadCalibrations
  <2>1. TypeOK'
    BY <1>3, LoadedType DEF ReadCalibrations, TypeOK, seen, Files
  <2>2. SaveHolds' /\ Cleared' /\ ConfigRead'
    BY <1>3 DEF ReadCalibrations, SaveHolds, Saved, Saving, Cleared, ConfigRead, seen
  <2> QED BY <2>1, <2>2
<1>4. CASE Edit
  BY <1>4 DEF Edit, TypeOK, SaveHolds, Saved, Saving, Cleared, ConfigRead, seen
<1>5. CASE Restore
  BY <1>5 DEF Restore, TypeOK, SaveHolds, Saved, Saving, Cleared, ConfigRead, Forms, seen
<1>6. ASSUME NEW f \in Files, Save(f),
             UNCHANGED temp \/ \E x \in ConfigForms : temp' = [temp EXCEPT ![x] = edit[x]]
      PROVE  IInv'
  <2>1. In(f) \subseteq Forms
    BY DEF In, Forms
  <2>2. temp' \in [ConfigForms -> Texts]
    BY <1>6 DEF TypeOK, Forms
  <2>3. passed'[f] \in Objects(f)
    BY <1>6, <2>1 DEF Save, TypeOK, Objects
  <2>4. TypeOK'
    BY <1>6, <2>2, <2>3 DEF Save, TypeOK, Files
  <2>5. SaveHolds'
    BY <1>6 DEF Save, SaveHolds, Saved, Saving, TypeOK
  <2>6. Cleared' /\ ConfigRead'
    BY <1>6 DEF Save, Cleared, ConfigRead
  <2> QED BY <2>4, <2>5, <2>6
<1>7. CASE SaveConfig
  BY <1>6, <1>7 DEF SaveConfig, Files
<1>8. CASE SaveCalibrations
  BY <1>6, <1>8 DEF SaveCalibrations, Files
<1>9. CASE Remove
  <2>0. \A f \in Files : <<>> \in Seq(Objects(f))
    OBVIOUS
  <2>1. TypeOK'
    <3>1. CASE card' = [card EXCEPT ![writing] = <<>>] /\ UNCHANGED <<whole, failed>>
      BY <1>9, <2>0, <3>1 DEF Remove, TypeOK, ram
    <3>2. CASE Fail
      BY <1>9, <3>2 DEF Remove, Fail, TypeOK, ram
    <3> QED BY <1>9, <3>1, <3>2 DEF Remove
  <2>2. SaveHolds' /\ Cleared'
    BY <1>9 DEF Remove, Fail, SaveHolds, Saved, Saving, Cleared, TypeOK, ram
  <2>3. ConfigRead'
    BY <1>9 DEF Remove, ConfigRead
  <2> QED BY <2>1, <2>2, <2>3
<1>10. CASE Open
  <2>1. TypeOK'
    BY <1>10 DEF Open, Fail, TypeOK, ram
  <2>2. SaveHolds' /\ Cleared' /\ ConfigRead'
    BY <1>10 DEF Open, Fail, SaveHolds, Saved, Saving, Cleared, ConfigRead, TypeOK, ram
  <2> QED BY <2>1, <2>2
<1>11. CASE Println
  <2>1. passed[writing] \in Objects(writing) /\ card[writing] \in Seq(Objects(writing))
    BY DEF TypeOK
  <2>2. Append(card[writing], passed[writing]) \in Seq(Objects(writing))
    BY <2>1
  <2>3. TypeOK'
    BY <1>11, <2>2 DEF Println, TypeOK, ram, seen, Files
  <2>4. whole[writing] => card'[writing] = <<passed[writing]>>
    BY <1>11 DEF Println, Cleared, TypeOK
  <2>5. SaveHolds'
    BY <1>11, <2>4 DEF Println, SaveHolds, Saved, Saving, TypeOK, ram, seen
  <2>6. Cleared' /\ ConfigRead'
    BY <1>11 DEF Println, Cleared, ConfigRead
  <2> QED BY <2>3, <2>5, <2>6
<1>12. CASE UNCHANGED vars
  <2>1. TypeOK'
    BY <1>12 DEF TypeOK, vars
  <2>2. SaveHolds' /\ Cleared' /\ ConfigRead'
    BY <1>12 DEF SaveHolds, Saved, Saving, Cleared, ConfigRead, Readable, vars
  <2> QED BY <2>1, <2>2
<1> QED
  BY <1>1, <1>2, <1>3, <1>4, <1>5, <1>7, <1>8, <1>9, <1>10, <1>11, <1>12 DEF Next

\* The invariant holds at every moment.
LEMMA StoreIInv == Spec => []IInv
BY InitIInv, NextIInv, PTL DEF Spec

------------------------------------------------------------------------------

\* Type correctness of the two files and of what is in memory.
THEOREM StoreTypeOK == Spec => []TypeOK
<1>1. IInv => TypeOK
  BY DEF IInv
<1> QED BY <1>1, StoreIInv, PTL

\* A save whose calls went through leaves its own object alone in the file,
\* whatever the saves that were cut off or failed before it have left there.
THEOREM StoreSaveHolds == Spec => []SaveHolds
<1>1. IInv => SaveHolds
  BY DEF IInv
<1> QED BY <1>1, StoreIInv, PTL

\* What is on the card and has no quote character is read as it was printed, by
\* the deserializer, whatever failed saves have left behind it.
THEOREM StoreReadsBack ==
    ASSUME ReadAsParsed
    PROVE  Spec => []ReadsBack
<1>1. TypeOK => ReadsBack
  BY OutcomeFirst DEF TypeOK, ReadsBack, ReadAsParsed
<1> QED BY <1>1, StoreTypeOK, PTL

\* Every line that a text can be printed into without a quote character gives
\* the text back, under each of the keys, which fit into the document.
THEOREM StoreRoundTrip ==
    ASSUME IsFiniteSet(Letters), Cardinality(Letters) <= Slots
    PROVE  Spec => []RoundTrip
<1>1. RoundTrip
  BY JsonRoundTrips DEF RoundTrip
<1> QED BY <1>1, PTL

\* The constructor ends with the texts of the last save of each file that went
\* through and has no quote character, although it may return early.
THEOREM StoreLoadsLastSave ==
    ASSUME ReadAsParsed
    PROVE  Spec => LoadsLastSave
<1> DEFINE Loads == (Booting /\ pc' = "run" /\
                     (card["config.txt"] = <<>> \/ Readable("config.txt"))) =>
                      \A f \in Files : Saved(f) /\ IsPlain(f, passed[f]) =>
                          \A x \in In(f) : edit'[x] = passed[f][x]
<1>1. IInv /\ ReadsBack /\ [Next]_vars => [Loads]_vars
  <2> SUFFICES ASSUME IInv, ReadsBack, Next, Booting, pc' = "run",
                      card["config.txt"] = <<>> \/ Readable("config.txt"),
                      NEW f \in Files, Saved(f), IsPlain(f, passed[f]), NEW x \in In(f)
               PROVE  edit'[x] = passed[f][x]
    OBVIOUS
  <2>1. card[f] = <<passed[f]>> /\ passed[f] \in Objects(f)
    BY DEF IInv, SaveHolds, TypeOK
  <2>2. Readable(f) /\ Read(f, card[f]) = passed[f]
    BY <2>1 DEF Readable, ReadsBack
  <2>3. ReadCalibrations
    BY DEF Files, Next, Booting, PowerCycle, ReadConfig, Readable, Edit, Restore, Save,
           SaveConfig, SaveCalibrations, Remove, Open, Println
  <2>4. x \in Forms
    BY DEF In, Forms
  <2>5. CASE f = "standar.txt"
    BY <2>2, <2>3, <2>4, <2>5 DEF ReadCalibrations, Loaded
  <2>6. CASE f = "config.txt"
    <3>1. x \in ConfigForms /\ x \notin CalForms
      BY <2>6, FormsAssumption DEF In
    <3>2. edit'[x] = edit[x]
      BY <2>3, <2>4, <3>1 DEF ReadCalibrations, Loaded, In
    <3>3. edit[x] = Read("config.txt", card["config.txt"])[x]
      BY <2>2, <2>3, <2>6, <3>1 DEF IInv, ConfigRead, ReadCalibrations
    <3> QED BY <2>2, <2>6, <3>2, <3>3
  <2> QED BY <2>5, <2>6 DEF Files
<1> QED BY <1>1, StoreIInv, StoreReadsBack, PTL DEF Spec, LoadsLastSave

\* As long as no call to the card fails, whatever is done to a file leaves it
\* empty or with the object of its last save, however often the power fails.
THEOREM StoreNeverOlder == Spec => NeverOlder
<1> DEFINE Newest == \A f \in Files : ~failed /\ card'[f] # card[f] =>
                       card'[f] = <<>> \/ (card'[f] = <<passed[f]>> /\ whole[f])
           Ready == ~failed /\ pc \in {"open", "print"} => card[writing] = <<>> /\ whole[writing]
           Asked == ~failed /\ pc = "remove" => whole[writing]
<1>1. Init => Ready /\ Asked
  BY DEF Init
<1>2. IInv /\ Ready /\ Asked /\ [Next]_vars => (Ready /\ Asked)'
  <2> SUFFICES ASSUME IInv, Ready, Asked, [Next]_vars PROVE (Ready /\ Asked)'
    OBVIOUS
  <2>1. CASE SaveConfig \/ SaveCalibrations
    BY <2>1 DEF SaveConfig, SaveCalibrations, Save, IInv, TypeOK, Files
  <2>2. CASE Remove
    BY <2>2 DEF Remove, Fail, ram, IInv, TypeOK
  <2>3. CASE Open
    BY <2>3 DEF Open, Fail, ram
  <2>4. CASE UNCHANGED vars
    BY <2>4 DEF vars
  <2>5. CASE PowerCycle \/ ReadConfig \/ ReadCalibrations \/ Edit \/ Restore \/ Println
    BY <2>5 DEF PowerCycle, ReadConfig, ReadCalibrations, Edit, Restore, Println
  <2> QED BY <2>1, <2>2, <2>3, <2>4, <2>5 DEF Next
<1>3. IInv /\ Ready /\ [Next]_vars => [Newest]_vars
  <2> SUFFICES ASSUME IInv, Ready, Next, NEW f \in Files, ~failed, card'[f] # card[f]
               PROVE  card'[f] = <<>> \/ (card'[f] = <<passed[f]>> /\ whole[f])
    OBVIOUS
  <2>1. CASE Remove
    BY <2>1 DEF Remove, Fail, IInv, TypeOK
  <2>2. CASE Println
    BY <2>2 DEF Println, IInv, TypeOK
  <2> QED
    BY <2>1, <2>2 DEF Next, PowerCycle, ReadConfig, ReadCalibrations, Edit, Restore,
                      Save, SaveConfig, SaveCalibrations, Open, Fail
<1> QED BY <1>1, <1>2, <1>3, StoreIInv, PTL DEF Spec, NeverOlder

------------------------------------------------------------------------------
(* A file removed, opened and printed is a file saved.                      *)

File(x) == IF x \in ConfigForms THEN "config.txt" ELSE "standar.txt"

\* The texts that the next start would find.
OnCard == [x \in Forms |-> IF card[File(x)] = <<>> THEN Blank
                                                  ELSE Read(File(x), card[File(x)])[x]]

\* While the constructor reads, the texts in memory count as read.
Edited == IF Booting THEN OnCard ELSE edit
Used   == IF Booting THEN [x \in ConfigForms |-> OnCard[x]] ELSE temp
Writes == IF Saving THEN In(writing) ELSE {}

S == INSTANCE Storage WITH
         edit <- Edited, temp <- Used, saved <- OnCard, saving <- Writes

\* No call has failed and all texts are without quote characters: a file has at
\* most one object, and none when it is opened; what is being printed are the
\* texts still being edited; and the constructor has read what it says.
OneObject ==
    \A f \in Files : card[f] = <<>> \/ \E o \in Objects(f) : card[f] = <<o>>

Emptied == pc \in {"open", "print"} => card[writing] = <<>>

Handed == Saving => \A x \in In(writing) : passed[writing][x] = edit[x]

Starting ==
    /\ pc = "config" => edit = Blanks(Forms) /\ temp = Blanks(ConfigForms)
    /\ pc = "calibrations" =>
         /\ \A x \in ConfigForms : edit[x] = OnCard[x] /\ temp[x] = OnCard[x]
         /\ \A x \in CalForms : edit[x] = Blank

Stored == OneObject /\ Emptied /\ Handed /\ Starting

\* A text is in one file.
LEMMA FileOf ==
    /\ \A x \in Forms : File(x) \in Files /\ x \in In(File(x))
    /\ \A f \in Files : \A x \in In(f) : x \in Forms /\ File(x) = f
BY FormsAssumption DEF File, Files, In, Forms

\* A file that is not empty is read as its one object.
LEMMA ReadObject ==
    ASSUME Plain = Texts, ReadsBack, OneObject, NEW f \in Files, card[f] # <<>>
    PROVE  Readable(f) /\ Read(f, card[f]) \in Objects(f) /\ card[f] = <<Read(f, card[f])>>
<1>1. PICK o \in Objects(f) : card[f] = <<o>>
  BY DEF OneObject
<1>2. Head(card[f]) = o /\ IsPlain(f, o)
  BY <1>1 DEF IsPlain, Objects
<1>3. Read(f, card[f]) = o
  BY <1>2 DEF ReadsBack
<1> QED BY <1>1, <1>3 DEF Readable

\* What the card holds are texts.
LEMMA OnCardType ==
    ASSUME Plain = Texts, ReadsBack, OneObject
    PROVE  OnCard \in [Forms -> Texts]
<1> SUFFICES ASSUME NEW x \in Forms, card[File(x)] # <<>>
             PROVE  Read(File(x), card[File(x)])[x] \in Texts
  BY TextsAssumption DEF OnCard
<1>1. File(x) \in Files /\ x \in In(File(x))
  BY FileOf
<1>2. Read(File(x), card[File(x)]) \in Objects(File(x))
  BY <1>1, ReadObject
<1> QED BY <1>1, <1>2 DEF Objects

\* Reading the configuration and then the calibrations reads what is on the card.
LEMMA ReadsConfig ==
    ASSUME Plain = Texts, ReadsBack, Stored, ReadConfig
    PROVE  pc' = "calibrations" /\ Starting'
<1>1. card' = card /\ OnCard' = OnCard
  BY DEF ReadConfig, OnCard, File
<1>2. pc' = "calibrations"
  BY ReadObject DEF ReadConfig, Stored, Files
<1>3. edit = Blanks(Forms) /\ temp = Blanks(ConfigForms)
  BY DEF Stored, Starting, ReadConfig
<1>4. \A x \in ConfigForms : x \in Forms /\ x \in In("config.txt") /\ File(x) = "config.txt"
  BY DEF Forms, In, File
<1>5. CASE card["config.txt"] = <<>>
  <2>1. edit' = edit /\ temp' = temp
    BY <1>3, <1>5 DEF ReadConfig, Loaded, LoadedTemp, Readable, Blanks
  <2> QED BY <1>1, <1>2, <1>3, <1>4, <1>5, <2>1 DEF Starting, OnCard, Blanks, Forms
<1>6. CASE card["config.txt"] # <<>>
  <2>1. Readable("config.txt")
    BY <1>6, ReadObject DEF Stored, Files
  <2>2. \A x \in ConfigForms : edit'[x] = Read("config.txt", card["config.txt"])[x]
    BY <1>4, <2>1 DEF ReadConfig, Loaded
  <2>3. \A x \in CalForms : edit'[x] = Blank
    BY <1>3, FormsAssumption DEF ReadConfig, Loaded, In, Forms, Blanks
  <2>4. temp' = Read("config.txt", card["config.txt"])
    BY <2>1 DEF ReadConfig, LoadedTemp
  <2>5. \A x \in ConfigForms : OnCard[x] = Read("config.txt", card["config.txt"])[x]
    BY <1>4, <1>6 DEF OnCard
  <2> QED BY <1>1, <1>2, <2>2, <2>3, <2>4, <2>5 DEF Starting
<1> QED BY <1>5, <1>6

\* The last file read at the start leaves in use what the card has.
LEMMA ReadsCalibrations ==
    ASSUME Plain = Texts, TypeOK, ReadsBack, Stored, ReadCalibrations
    PROVE  edit' = OnCard /\ temp' = [x \in ConfigForms |-> OnCard[x]]
<1>1. \A x \in ConfigForms : edit[x] = OnCard[x] /\ temp[x] = OnCard[x]
  BY DEF Stored, Starting, ReadCalibrations
<1>2. temp' = [x \in ConfigForms |-> OnCard[x]]
  BY <1>1 DEF ReadCalibrations, TypeOK
<1>3. edit' = Loaded("standar.txt")
  BY DEF ReadCalibrations
<1>4. ASSUME NEW x \in ConfigForms PROVE Loaded("standar.txt")[x] = OnCard[x]
  BY <1>1, FormsAssumption DEF Loaded, In, Forms
<1>5. ASSUME NEW x \in CalForms PROVE Loaded("standar.txt")[x] = OnCard[x]
  <2>1. x \in Forms /\ x \in In("standar.txt") /\ File(x) = "standar.txt" /\ edit[x] = Blank
    BY FormsAssumption DEF Forms, In, File, Stored, Starting, ReadCalibrations
  <2>2. CASE card["standar.txt"] = <<>>
    BY <2>1, <2>2 DEF Loaded, Readable, OnCard
  <2>3. CASE card["standar.txt"] # <<>>
    <3>1. Readable("standar.txt")
      BY <2>3, ReadObject DEF Stored, Files
    <3> QED BY <2>1, <2>3, <3>1 DEF Loaded, OnCard
  <2> QED BY <2>2, <2>3
<1>6. Loaded("standar.txt") = OnCard
  BY <1>4, <1>5 DEF Loaded, OnCard, Forms
<1> QED BY <1>2, <1>3, <1>6

\* What the calls that replace a file make of what is on the card.
LEMMA CardCleared ==
    ASSUME TypeOK, pc = "remove", card' = [card EXCEPT ![writing] = <<>>]
    PROVE  OnCard' = [x \in Forms |-> IF x \in In(writing) THEN Blank ELSE OnCard[x]]
<1>1. \A x \in Forms : x \in In(writing) <=> File(x) = writing
  BY FileOf DEF TypeOK
<1>2. \A x \in Forms : File(x) \in DOMAIN card
  BY FileOf DEF TypeOK
<1> QED BY <1>1, <1>2 DEF OnCard, File

\* Once a file is written, the card has its edited texts and keeps the others.
LEMMA CardWritten ==
    ASSUME Plain = Texts, TypeOK, Stored, ReadsBack', Println
    PROVE  /\ card' = [card EXCEPT ![writing] = <<passed[writing]>>]
           /\ OnCard' = [x \in Forms |-> IF x \in In(writing) THEN edit[x] ELSE OnCard[x]]
<1>1. writing \in Files /\ writing \in DOMAIN card /\ passed[writing] \in Objects(writing)
  BY DEF TypeOK
<1>2. card[writing] = <<>>
  BY DEF Println, Stored, Emptied
<1>3. card' = [card EXCEPT ![writing] = <<passed[writing]>>]
  BY <1>2 DEF Println
<1>4. card'[writing] = <<passed[writing]>>
  BY <1>1, <1>3
<1>5. IsPlain(writing, passed[writing])
  BY <1>1 DEF IsPlain, Objects
<1>6. Read(writing, card'[writing]) = passed[writing]
  <2>1. Head(card'[writing]) = passed[writing] /\ card'[writing] # <<>>
    BY <1>4
  <2> QED BY <1>1, <1>5, <2>1 DEF ReadsBack
<1>7. \A x \in In(writing) : passed[writing][x] = edit[x]
  BY DEF Stored, Handed, Saving, Println
<1>8. ASSUME NEW x \in Forms, File(x) = writing
      PROVE  x \in In(writing) /\ OnCard'[x] = edit[x]
  <2>1. x \in In(writing)
    BY <1>8, FileOf
  <2>2. OnCard'[x] = Read(writing, card'[writing])[x]
    BY <1>4, <1>8 DEF OnCard, File
  <2> QED BY <1>6, <1>7, <2>1, <2>2
<1>9. ASSUME NEW x \in Forms, File(x) # writing
      PROVE  x \notin In(writing) /\ OnCard'[x] = OnCard[x]
  <2>1. x \notin In(writing)
    BY <1>1, <1>9, FileOf
  <2>2. File(x) \in DOMAIN card
    BY FileOf DEF TypeOK
  <2>3. card'[File(x)] = card[File(x)]
    BY <1>3, <1>9, <2>2
  <2> QED BY <2>1, <2>3 DEF OnCard, File
<1>10. OnCard' = [x \in Forms |-> OnCard'[x]]
  BY DEF OnCard
<1> QED BY <1>3, <1>8, <1>9, <1>10

\* None of this is disturbed as long as no call fails.
LEMMA NextStored ==
    ASSUME Plain = Texts, TypeOK, ReadsBack, Stored, [Next]_vars, ~failed'
    PROVE  Stored'
<1> USE DEF Stored
<1>1. CASE PowerCycle
  BY <1>1 DEF PowerCycle, OneObject, Emptied, Handed, Saving, Starting
<1>2. CASE ReadConfig
  <2>1. Starting' /\ pc' = "calibrations" /\ card' = card
    BY <1>2, ReadsConfig DEF ReadConfig
  <2> QED BY <2>1 DEF OneObject, Emptied, Handed, Saving
<1>3. CASE ReadCalibrations \/ Edit \/ Restore
  BY <1>3 DEF ReadCalibrations, Edit, Restore, OneObject, Emptied, Handed, Saving, Starting
<1>4. CASE SaveConfig \/ SaveCalibrations
  <2>1. PICK f \in Files : Save(f)
    BY <1>4 DEF SaveConfig, SaveCalibrations, Files
  <2>2. passed'[f] = [x \in In(f) |-> edit[x]] /\ writing' = f /\ edit' = edit
          /\ card' = card /\ pc' = "remove"
    BY <2>1 DEF Save, TypeOK
  <2> QED BY <2>2 DEF OneObject, Emptied, Handed, Starting
<1>5. CASE Remove
  <2>1. card' = [card EXCEPT ![writing] = <<>>]
    BY <1>5 DEF Remove, Fail
  <2>2. pc' = "open" /\ UNCHANGED <<edit, writing, passed>> /\ Saving
    BY <1>5 DEF Remove, ram, Saving
  <2> QED BY <2>1, <2>2 DEF OneObject, Emptied, Handed, Saving, Starting, TypeOK
<1>6. CASE Open
  <2>1. card' = card /\ pc' = "print" /\ UNCHANGED <<edit, writing, passed>> /\ pc = "open"
    BY <1>6 DEF Open, Fail, ram
  <2> QED BY <2>1 DEF OneObject, Emptied, Handed, Saving, Starting
<1>7. CASE Println
  <2>1. card[writing] = <<>> /\ writing \in Files /\ passed[writing] \in Objects(writing)
    BY <1>7 DEF Println, Emptied, TypeOK
  <2>2. card' = [card EXCEPT ![writing] = <<passed[writing]>>] /\ pc' = "run"
    BY <1>7, <2>1 DEF Println
  <2> QED BY <2>1, <2>2 DEF OneObject, Emptied, Handed, Saving, Starting, TypeOK
<1>8. CASE UNCHANGED vars
  <2>1. OnCard' = OnCard
    BY <1>8 DEF vars, OnCard, File
  <2> QED BY <1>8, <2>1 DEF vars, OneObject, Emptied, Handed, Saving, Starting
<1> QED BY <1>1, <1>2, <1>3, <1>4, <1>5, <1>6, <1>7, <1>8 DEF Next

\* The abstract steps: a save begins, its old texts go, its new ones are there;
\* whatever the constructor does is part of the power coming back.
LEMMA StepStores ==
    ASSUME Plain = Texts, TypeOK, ReadsBack, ReadsBack', Stored, [Next]_vars, ~failed'
    PROVE  [S!Next]_S!vars
<1> USE DEF S!vars
<1>1. CASE PowerCycle
  <2>1. Booting' /\ ~Saving' /\ OnCard' = OnCard
    BY <1>1 DEF PowerCycle, Booting, Saving, OnCard, File
  <2>2. Edited' = OnCard /\ Used' = [x \in ConfigForms |-> OnCard[x]] /\ Writes' = {}
    BY <2>1 DEF Edited, Used, Writes
  <2>3. S!PowerCycle
    BY <2>1, <2>2 DEF S!PowerCycle
  <2> QED BY <2>3 DEF S!Next
<1>2. CASE ReadConfig
  <2>1. Booting /\ Booting' /\ ~Saving /\ ~Saving' /\ OnCard' = OnCard
    BY <1>2, ReadsConfig DEF ReadConfig, Booting, Saving, OnCard, File
  <2> QED BY <2>1 DEF Edited, Used, Writes
<1>3. CASE ReadCalibrations
  <2>1. Booting /\ ~Booting' /\ ~Saving /\ ~Saving' /\ OnCard' = OnCard
    BY <1>3 DEF ReadCalibrations, Booting, Saving, OnCard, File
  <2>2. edit' = OnCard /\ temp' = [x \in ConfigForms |-> OnCard[x]]
    BY <1>3, ReadsCalibrations
  <2> QED BY <2>1, <2>2 DEF Edited, Used, Writes
<1>4. CASE Edit \/ Restore
  <2>1. ~Booting /\ ~Booting' /\ ~Saving /\ ~Saving' /\ OnCard' = OnCard
    BY <1>4 DEF Edit, Restore, Booting, Saving, OnCard, File
  <2>2. Edited = edit /\ Edited' = edit' /\ Used = temp /\ Used' = temp' /\ Writes = {}
          /\ Writes' = {} /\ temp' = temp
    BY <1>4, <2>1 DEF Edited, Used, Writes, Edit, Restore
  <2>3. S!Edit \/ S!Restore
    BY <1>4, <2>1, <2>2 DEF Edit, Restore, S!Edit, S!Restore, Forms, S!Forms
  <2> QED BY <2>3 DEF S!Next
<1>5. CASE SaveConfig \/ SaveCalibrations
  <2>1. ~Booting /\ ~Booting' /\ ~Saving /\ Saving' /\ OnCard' = OnCard /\ edit' = edit
    BY <1>5 DEF SaveConfig, SaveCalibrations, Save, Booting, Saving, OnCard, File
  <2>2. Edited = edit /\ Edited' = edit /\ Used = temp /\ Used' = temp' /\ Writes = {}
          /\ Writes' = In(writing')
    BY <2>1 DEF Edited, Used, Writes
  <2>3. CASE SaveConfig
    <3>1. In(writing') = ConfigForms
      BY <2>3 DEF SaveConfig, Save, In
    <3>2. S!SaveConfig
      BY <2>1, <2>2, <2>3, <3>1 DEF SaveConfig, S!SaveConfig, S!Save
    <3> QED BY <3>2 DEF S!Next
  <2>4. CASE SaveCalibrations
    <3>1. In(writing') = CalForms
      BY <2>4 DEF SaveCalibrations, Save, In
    <3>2. S!SaveCalibrations
      BY <2>1, <2>2, <2>4, <3>1 DEF SaveCalibrations, S!SaveCalibrations, S!Save
    <3> QED BY <3>2 DEF S!Next
  <2> QED BY <1>5, <2>3, <2>4
<1>6. CASE Remove
  <2>1. card' = [card EXCEPT ![writing] = <<>>]
    BY <1>6 DEF Remove, Fail
  <2>2. ~Booting /\ ~Booting' /\ Saving /\ Saving' /\ UNCHANGED <<edit, temp, writing>>
    BY <1>6 DEF Remove, ram, Booting, Saving
  <2>3. OnCard' = [x \in Forms |-> IF x \in In(writing) THEN Blank ELSE OnCard[x]]
    BY <1>6, <2>1, CardCleared DEF Remove
  <2>4. Edited' = Edited /\ Used' = Used /\ Writes = In(writing) /\ Writes' = In(writing)
    BY <2>2 DEF Edited, Used, Writes
  <2>5. S!Clear
    BY <2>3, <2>4 DEF S!Clear, Forms, S!Forms
  <2> QED BY <2>5 DEF S!Next
<1>7. CASE Open
  <2>1. ~Booting /\ ~Booting' /\ Saving /\ Saving' /\ UNCHANGED <<card, edit, temp, writing>>
    BY <1>7 DEF Open, Fail, ram, Booting, Saving
  <2>2. OnCard' = OnCard
    BY <2>1 DEF OnCard, File
  <2> QED BY <2>1, <2>2 DEF Edited, Used, Writes
<1>8. CASE Println
  <2>1. ~Booting /\ ~Booting' /\ Saving /\ ~Saving' /\ UNCHANGED <<edit, temp>>
    BY <1>8 DEF Println, ram, Booting, Saving
  <2>2. OnCard' = [x \in Forms |-> IF x \in In(writing) THEN edit[x] ELSE OnCard[x]]
    BY <1>8, CardWritten
  <2>3. Edited = edit /\ Edited' = edit /\ Used' = Used /\ Writes = In(writing) /\ Writes' = {}
    BY <2>1 DEF Edited, Used, Writes
  <2>4. S!Finish
    BY <2>2, <2>3 DEF S!Finish, S!Written, Forms, S!Forms
  <2> QED BY <2>4 DEF S!Next
<1>9. CASE UNCHANGED vars
  BY <1>9 DEF vars, Edited, Used, Writes, OnCard, File, Booting, Saving
<1> QED BY <1>1, <1>2, <1>3, <1>4, <1>5, <1>6, <1>7, <1>8, <1>9 DEF Next

\* As long as no call to the card fails, and if the texts are those without a
\* quote character, the files implement Storage however often the power fails
\* and whenever: at a start all the texts of a file are those of one save, or
\* those of the save under way, or none.
THEOREM StoreImplementsStorage ==
    ASSUME Plain = Texts, ReadAsParsed
    PROVE  Spec /\ []~failed => S!Spec
<1>1. Init => Stored
  BY DEF Init, Stored, OneObject, Emptied, Handed, Saving, Starting
<1>2. TypeOK /\ ReadsBack /\ Stored /\ ~failed' /\ [Next]_vars => Stored'
  BY NextStored
<1>3. Init /\ ReadsBack => S!Init
  <2> SUFFICES ASSUME Init, ReadsBack PROVE S!Init
    OBVIOUS
  <2>1. Booting /\ ~Saving
    BY DEF Init, Booting, Saving
  <2>2. Stored
    BY <1>1
  <2>3. OnCard \in [Forms -> Texts]
    BY <2>2, OnCardType DEF Stored
  <2> QED BY <2>1, <2>3 DEF S!Init, Edited, Used, Writes, Forms, S!Forms
<1>4. TypeOK /\ ReadsBack /\ ReadsBack' /\ Stored /\ ~failed' /\ [Next]_vars => [S!Next]_S!vars
  BY StepStores
<1>5. Spec => []TypeOK
  BY StoreTypeOK
<1>6. Spec => []ReadsBack
  BY StoreReadsBack
<1> QED BY <1>1, <1>2, <1>3, <1>4, <1>5, <1>6, PTL DEF Spec, S!Spec
==============================================================================
