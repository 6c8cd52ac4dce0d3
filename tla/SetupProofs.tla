------------------------------ MODULE SetupProofs ------------------------------
(***************************************************************************)
(* What is promised of what a watch process finds, for any value of the         *)
(* constants.                                                                *)
(***************************************************************************)
EXTENDS Setup, FiniteSetTheorems, WellFoundedInduction, SequenceTheorems, TLAPS

----------------------------------------------------------------------------
(* Numbers and sequences *)

\* A set of numbers that is not empty has a least one.
LEMMA LeastNumber == ASSUME NEW T, T \subseteq Nat, T # {} PROVE \E x \in T : \A y \in T : x <= y
<1> DEFINE R == {ss \in Nat \X Nat : ss[1] < ss[2]}
<1>1. R = OpToRel(<, Nat)
  BY DEF OpToRel
<1>2. IsWellFoundedOn(R, Nat)
  BY <1>1, NatLessThanWellFounded
<1>3. PICK x \in T : \A y \in T : <<y, x>> \notin R
  BY <1>2, WFMin
<1>4. ASSUME NEW y \in T PROVE x <= y
  <2>1. x \in Nat /\ y \in Nat /\ <<y, x>> \notin R
    BY <1>3
  <2>2. ~(y < x)
    BY <2>1
  <2> QED BY <2>1, <2>2
<1> QED BY <1>4

\* A set of numbers up to n that has 0, and with each its successor, has all of them.
LEMMA UpTo ==
    ASSUME NEW n \in Nat, NEW T, 0 \in T, \A i \in T : i \in 0..(n - 1) => i + 1 \in T
    PROVE  \A i \in 0..n : i \in T
<1> SUFFICES ASSUME NEW j \in 0..n, j \notin T PROVE FALSE
  OBVIOUS
<1> DEFINE out == {i \in 0..n : i \notin T}
<1>1. PICK x \in out : \A y \in out : x <= y
  <2>1. out \subseteq Nat /\ out # {}
    OBVIOUS
  <2> HIDE DEF out
  <2> QED BY <2>1, LeastNumber
<1>2. x # 0 /\ x - 1 \in 0..(n - 1) /\ x - 1 \notin out /\ (x - 1) + 1 = x /\ x \notin T
  BY <1>1
<1>3. x - 1 \in T
  BY <1>2
<1> HIDE DEF out
<1> QED BY <1>1, <1>2, <1>3

\* What is in two sequences put together.
LEMMA ToSetOfJoin ==
    ASSUME NEW S, NEW s \in Seq(S), NEW t \in Seq(S)
    PROVE  s \o t \in Seq(S) /\ ToSet(s \o t) = ToSet(s) \cup ToSet(t)
<1>1. /\ s \o t \in Seq(S) /\ DOMAIN s = 1..Len(s) /\ DOMAIN t = 1..Len(t) /\ DOMAIN (s \o t) = 1..(Len(s) + Len(t))
      /\ Len(s) \in Nat /\ Len(t) \in Nat
      /\ \A i \in 1..(Len(s) + Len(t)) : (s \o t)[i] = IF i <= Len(s) THEN s[i] ELSE t[i - Len(s)]
  BY LenProperties, ConcatProperties
<1>2. ASSUME NEW i \in 1..Len(s) PROVE s[i] \in ToSet(s \o t)
  BY <1>1 DEF ToSet
<1>3. ASSUME NEW i \in 1..Len(t) PROVE t[i] \in ToSet(s \o t)
  <2>1. i + Len(s) \in 1..(Len(s) + Len(t)) /\ ~(i + Len(s) <= Len(s)) /\ (i + Len(s)) - Len(s) = i
    BY <1>1
  <2>2. (s \o t)[i + Len(s)] = t[i]
    BY <1>1, <2>1
  <2> QED BY <1>1, <2>1, <2>2 DEF ToSet
<1>4. ASSUME NEW i \in 1..(Len(s) + Len(t)) PROVE (s \o t)[i] \in ToSet(s) \cup ToSet(t)
  <2>1. CASE i <= Len(s)
    BY <1>1, <2>1 DEF ToSet
  <2>2. CASE ~(i <= Len(s))
    <3>1. i - Len(s) \in 1..Len(t)
      BY <1>1, <2>2
    <3> QED BY <1>1, <2>2, <3>1 DEF ToSet
  <2> QED BY <2>1, <2>2
<1> QED BY <1>1, <1>2, <1>3, <1>4 DEF ToSet

\* FlattenSeq joins the sequences.
LEMMA FlattenIs ==
    ASSUME NEW S, NEW seqs \in Seq(Seq(S))
    PROVE  /\ FlattenSeq(seqs) \in Seq(S)
           /\ ToSet(FlattenSeq(seqs)) = UNION {ToSet(seqs[i]) : i \in DOMAIN seqs}
<1> DEFINE n == Len(seqs)
<1>1. n \in Nat /\ DOMAIN seqs = 1..n /\ \A i \in 1..n : seqs[i] \in Seq(S)
  BY LenProperties, ElementOfSeq
<1>2. CASE n = 0
  <2>1. seqs = <<>>
    BY <1>2, <1>1, EmptySeq
  <2>2. FlattenSeq(seqs) = <<>>
    BY <2>1, <1>2 DEF FlattenSeq
  <2>3. DOMAIN <<>> = {} /\ <<>> \in Seq(S)
    OBVIOUS
  <2> QED BY <2>1, <2>2, <2>3 DEF ToSet
<1>3. CASE n # 0
  <2> DEFINE Flat(g, m) == \A i \in 1..m : g[i] = IF i = 1 THEN seqs[i] ELSE g[i - 1] \o seqs[i]
             T == {m \in 0..n : \E g \in [1..m -> Seq(S)] : Flat(g, m)}
  <2>1. 0 \in T
    <3> DEFINE g == [i \in 1..0 |-> seqs]
    <3>1. g \in [1..0 -> Seq(S)] /\ Flat(g, 0)
      OBVIOUS
    <3>2. 0 \in 0..n
      BY <1>1
    <3> HIDE DEF g, Flat
    <3> QED BY <3>1, <3>2
  <2>2. ASSUME NEW m \in T, m \in 0..(n - 1) PROVE m + 1 \in T
    <3>1. PICK g \in [1..m -> Seq(S)] : Flat(g, m)
      OBVIOUS
    <3>2. m \in Nat /\ m + 1 \in 0..n /\ m + 1 \in 1..n
      BY <2>2, <1>1
    <3> DEFINE last == IF m = 0 THEN seqs[1] ELSE g[m] \o seqs[m + 1]
               h == [i \in 1..(m + 1) |-> IF i = m + 1 THEN last ELSE g[i]]
    <3>3. last \in Seq(S)
      <4>1. CASE m = 0
        BY <4>1, <3>2, <1>1
      <4>2. CASE m # 0
        <5>1. m \in 1..m /\ g[m] \in Seq(S) /\ seqs[m + 1] \in Seq(S)
          BY <4>2, <3>2, <1>1
        <5> QED BY <4>2, <5>1, ConcatProperties
      <4> QED BY <4>1, <4>2
    <3>4. h \in [1..(m + 1) -> Seq(S)]
      BY <3>2, <3>3
    <3>5. ASSUME NEW i \in 1..(m + 1) PROVE h[i] = IF i = 1 THEN seqs[i] ELSE h[i - 1] \o seqs[i]
      <4>1. CASE i = m + 1
        <5>1. h[i] = last
          BY <4>1
        <5>2. m # 0 => i # 1 /\ i - 1 = m /\ h[i - 1] = g[m]
          BY <4>1, <3>2
        <5> QED BY <4>1, <5>1, <5>2, <3>2
      <4>2. CASE i # m + 1
        <5>1. i \in 1..m /\ h[i] = g[i]
          BY <4>2, <3>2
        <5>2. i # 1 => i - 1 \in 1..m /\ i - 1 # m + 1 /\ h[i - 1] = g[i - 1]
          BY <5>1, <3>2
        <5> QED BY <5>1, <5>2, <3>1
      <4> QED BY <4>1, <4>2
    <3> HIDE DEF h
    <3> QED BY <3>2, <3>4, <3>5
  <2>3. n \in T
    <3> HIDE DEF T
    <3>1. \A i \in 0..n : i \in T
      BY <1>1, <2>1, <2>2, UpTo
    <3> QED BY <3>1, <1>1
  <2>4. PICK g \in [1..n -> Seq(S)] : Flat(g, n)
    BY <2>3
  <2> DEFINE flatten == CHOOSE f : f = [i \in 1..n |-> IF i = 1 THEN seqs[i] ELSE f[i - 1] \o seqs[i]]
  <2>5. g = [i \in 1..n |-> IF i = 1 THEN seqs[i] ELSE g[i - 1] \o seqs[i]]
    BY <2>4
  <2>6. flatten = [i \in 1..n |-> IF i = 1 THEN seqs[i] ELSE flatten[i - 1] \o seqs[i]]
    BY <2>5
  <2>7. FlattenSeq(seqs) = flatten[n]
    BY <1>3 DEF FlattenSeq
  <2> HIDE DEF flatten
  <2> DEFINE U == {m \in 0..n : m # 0 => /\ flatten[m] \in Seq(S)
                                         /\ ToSet(flatten[m]) = UNION {ToSet(seqs[i]) : i \in 1..m}}
  <2>8. 0 \in U
    BY <1>1
  <2>9. ASSUME NEW m \in U, m \in 0..(n - 1) PROVE m + 1 \in U
    <3>1. m + 1 \in 1..n /\ m + 1 \in 0..n /\ m \in Nat
      <4> HIDE DEF U, n
      <4> QED BY <1>1, <2>9
    <3>2. CASE m = 0
      <4>1. flatten[1] = seqs[1]
        BY <2>6, <3>1, <3>2
      <4>2. {ToSet(seqs[i]) : i \in 1..1} = {ToSet(seqs[1])}
        OBVIOUS
      <4> QED BY <4>1, <4>2, <3>1, <3>2, <1>1
    <3>3. CASE m # 0
      <4>1. flatten[m] \in Seq(S) /\ ToSet(flatten[m]) = UNION {ToSet(seqs[i]) : i \in 1..m}
        BY <3>3
      <4>2. flatten[m + 1] = flatten[m] \o seqs[m + 1] /\ seqs[m + 1] \in Seq(S)
        <5>1. seqs[m + 1] \in Seq(S) /\ m + 1 # 1 /\ (m + 1) - 1 = m
          <6> HIDE DEF U, n
          <6>1. seqs[m + 1] \in Seq(S)
            BY <3>1, <1>1
          <6> QED BY <6>1, <3>1, <3>3
        <5>2. flatten[m + 1] = IF m + 1 = 1 THEN seqs[m + 1] ELSE flatten[(m + 1) - 1] \o seqs[m + 1]
          <6> HIDE DEF U, n
          <6> QED BY <2>6, <3>1
        <5> QED BY <5>1, <5>2
      <4>3. flatten[m + 1] \in Seq(S) /\ ToSet(flatten[m + 1]) = ToSet(flatten[m]) \cup ToSet(seqs[m + 1])
        BY <4>1, <4>2, ToSetOfJoin
      <4>4. 1..(m + 1) = (1..m) \cup {m + 1}
        BY <3>1
      <4>5. UNION {ToSet(seqs[i]) : i \in 1..(m + 1)} = (UNION {ToSet(seqs[i]) : i \in 1..m}) \cup ToSet(seqs[m + 1])
        BY <4>4
      <4> QED BY <4>1, <4>3, <4>5, <3>1
    <3> QED BY <3>2, <3>3
  <2>10. n \in U
    <3> HIDE DEF U
    <3>1. \A i \in 0..n : i \in U
      BY <1>1, <2>8, <2>9, UpTo
    <3> QED BY <3>1, <1>1
  <2> QED BY <2>7, <2>10, <1>3, <1>1
<1> QED BY <1>2, <1>3

\* A set of numbers from 1 to n that is not empty has a greatest one.
LEMMA GreatestIs ==
    ASSUME NEW n \in Nat, NEW T, T \subseteq 1..n, T # {}
    PROVE  Walks!Max(T) \in T /\ \A i \in T : i <= Walks!Max(T)
<1> DEFINE R == {n - i : i \in T}
<1>1. R \subseteq Nat /\ R # {}
  <2>1. \A i \in T : n - i \in Nat
    OBVIOUS
  <2> QED BY <2>1
<1>2. PICK x \in R : \A y \in R : x <= y
  <2> HIDE DEF R
  <2> QED BY <1>1, LeastNumber
<1>3. PICK m \in T : x = n - m
  OBVIOUS
<1>4. ASSUME NEW i \in T PROVE m >= i
  <2>1. n - i \in R
    OBVIOUS
  <2>2. n - m <= n - i
    BY <2>1, <1>2, <1>3
  <2> QED BY <2>2
<1>5. \E y \in T : \A i \in T : y >= i
  BY <1>4
<1>6. Walks!Max(T) \in T /\ \A i \in T : Walks!Max(T) >= i
  BY <1>5 DEF Walks!Max
<1> QED BY <1>6

----------------------------------------------------------------------------
(* Which files are ignored *)

Hits(stack, f) == {i \in DOMAIN stack : Walks!Matches(stack[i], f)}

\* The last line that matches decides.
LEMMA LastDecides ==
    ASSUME NEW S, NEW stack \in Seq(S), NEW f
    PROVE  Walks!IgnoredBy(stack, f) <=>
             \E i \in Hits(stack, f) : ~stack[i].line.neg /\ \A j \in Hits(stack, f) : j <= i
<1> DEFINE hits == Hits(stack, f)
<1>1. hits \subseteq 1..Len(stack) /\ Len(stack) \in Nat
  BY LenProperties DEF Hits
<1>2. Walks!IgnoredBy(stack, f) <=> hits # {} /\ ~stack[Walks!Max(hits)].line.neg
  BY DEF Walks!IgnoredBy, Walks!Matching, Hits
<1> HIDE DEF hits
<1>3. ASSUME hits # {} PROVE Walks!Max(hits) \in hits /\ \A i \in hits : i <= Walks!Max(hits)
  BY <1>1, <1>3, GreatestIs
<1>4. ASSUME NEW i \in hits, \A j \in hits : j <= i PROVE i = Walks!Max(hits)
  <2>1. Walks!Max(hits) \in hits /\ i <= Walks!Max(hits) /\ Walks!Max(hits) <= i
    BY <1>3, <1>4
  <2>2. i \in 1..Len(stack) /\ Walks!Max(hits) \in 1..Len(stack)
    BY <2>1, <1>1
  <2> QED BY <2>1, <2>2, <1>1
<1>5. (\E i \in hits : ~stack[i].line.neg /\ \A j \in hits : j <= i) <=> hits # {} /\ ~stack[Walks!Max(hits)].line.neg
  BY <1>3, <1>4
<1> QED BY <1>2, <1>5 DEF hits

\* The directories whose ignore files are asked about a file, and the lines of those.
Asked(f) == {<<>>} \cup {SubSeq(PathOf[f], 1, n) : n \in 0..Len(PathOf[f])}
Rows(rs, f) == UNION {ToSet(Walks!Read(rs, "ignore", d)) \cup ToSet(Walks!Read(rs, "git", d)) : d \in Asked(f)}

LEMMA ReadIs ==
    ASSUME NEW rs \in RuleSets, NEW y, NEW d
    PROVE  /\ Walks!Read(rs, y, d) \in Seq(ToSet(Walks!Read(rs, y, d)))
           /\ \A x \in ToSet(Walks!Read(rs, y, d)) : \E p \in DOMAIN rs : \E l \in ToSet(rs[p]) : x.line = l
<1> DEFINE place == [layer |-> y, dir |-> d]
           lines == IF place \in DOMAIN rs THEN rs[place] ELSE <<>>
           read == Walks!Read(rs, y, d)
<1>1. lines \in Seq(ToSet(lines))
  <2>1. CASE place \in DOMAIN rs
    BY <2>1, WalksAssumption
  <2>2. CASE place \notin DOMAIN rs
    BY <2>2
  <2> QED BY <2>1, <2>2
<1>2. DOMAIN lines = 1..Len(lines) /\ Len(lines) \in Nat
  BY <1>1, LenProperties
<1>3. read = [i \in DOMAIN lines |-> [line |-> lines[i], layer |-> y, dir |-> d]]
  BY Zenon DEF Walks!Read
<1>4. \A l \in ToSet(lines) : \E p \in DOMAIN rs : l \in ToSet(rs[p])
  <2>1. CASE place \in DOMAIN rs
    BY <2>1
  <2>2. CASE place \notin DOMAIN rs
    <3>1. ToSet(lines) = {}
      BY <2>2 DEF ToSet
    <3> QED BY <3>1
  <2> QED BY <2>1, <2>2
<1> HIDE DEF lines, place, read
<1>5. DOMAIN read = 1..Len(lines) /\ \A i \in 1..Len(lines) : read[i] = [line |-> lines[i], layer |-> y, dir |-> d]
  BY <1>2, <1>3
<1>6. read \in [1..Len(lines) -> ToSet(read)]
  BY <1>2, <1>3 DEF ToSet
<1>7. read \in Seq(ToSet(read))
  BY <1>2, <1>6
<1>8. ASSUME NEW x \in ToSet(read) PROVE \E p \in DOMAIN rs : \E l \in ToSet(rs[p]) : x.line = l
  <2>1. PICK i \in 1..Len(lines) : x = read[i]
    BY <1>5 DEF ToSet
  <2>2. x.line = lines[i]
    BY <2>1, <1>5
  <2>3. lines[i] \in ToSet(lines)
    BY <1>2 DEF ToSet
  <2> QED BY <2>2, <2>3, <1>4
<1> QED BY <1>7, <1>8 DEF read

\* s begins with t, and goes on with what is in R.
Begins(s, t, R) ==
    /\ s \in Seq(ToSet(t) \cup R) /\ Len(t) <= Len(s)
    /\ \A i \in 1..Len(t) : s[i] = t[i]
    /\ \A i \in 1..Len(s) : i > Len(t) => s[i] \in R

LEMMA BeginsStill ==
    ASSUME NEW S, NEW t \in Seq(S), NEW R, NEW s, Begins(s, t, R), NEW more \in Seq(R) PROVE Begins(s \o more, t, R)
<1> DEFINE E == ToSet(t) \cup R
<1>1. s \in Seq(E) /\ more \in Seq(E) /\ Len(t) \in Nat /\ Len(s) \in Nat /\ Len(more) \in Nat /\ Len(t) <= Len(s)
  <2>1. R \subseteq E
    OBVIOUS
  <2> HIDE DEF E
  <2>2. more \in Seq(E)
    BY <2>1
  <2>3. s \in Seq(E)
    BY DEF Begins, E
  <2> QED BY <2>2, <2>3, LenProperties DEF Begins
<1>2. /\ s \o more \in Seq(E) /\ Len(s \o more) = Len(s) + Len(more)
      /\ \A i \in 1..(Len(s) + Len(more)) : (s \o more)[i] = IF i <= Len(s) THEN s[i] ELSE more[i - Len(s)]
  <2> HIDE DEF E
  <2> QED BY <1>1, ConcatProperties
<1>3. ASSUME NEW i \in 1..Len(t) PROVE (s \o more)[i] = t[i]
  <2>1. i <= Len(s) /\ i \in 1..(Len(s) + Len(more))
    BY <1>1
  <2> QED BY <2>1, <1>2 DEF Begins
<1>4. ASSUME NEW i \in 1..(Len(s) + Len(more)), i > Len(t) PROVE (s \o more)[i] \in R
  <2>1. CASE i <= Len(s)
    <3>1. i \in 1..Len(s)
      BY <2>1, <1>1
    <3> QED BY <3>1, <2>1, <1>4, <1>2 DEF Begins
  <2>2. CASE ~(i <= Len(s))
    <3>1. i - Len(s) \in 1..Len(more)
      BY <2>2, <1>1
    <3>2. more[i - Len(s)] \in R
      BY <3>1, ElementOfSeq
    <3> QED BY <2>2, <3>2, <1>2
  <2> QED BY <2>1, <2>2
<1>5. Len(t) <= Len(s \o more)
  BY <1>1, <1>2
<1> QED BY <1>2, <1>3, <1>4, <1>5 DEF Begins

LEMMA FlattenBridge == ASSUME NEW s PROVE Walks!FlattenSeq(s) = FlattenSeq(s)
BY Zenon DEF Walks!FlattenSeq, FlattenSeq

\* The lines that are asked about a file: the defaults, then lines of the ignore files.
LEMMA StackIs ==
    ASSUME NEW rs \in RuleSets, NEW f \in DOMAIN PathOf
    PROVE  /\ Walks!Defaults \in Seq(ToSet(Walks!Defaults))
           /\ Begins(Walks!Stack(rs, Walks!TopLines(rs), PathOf[f]), Walks!Defaults, Rows(rs, f))
<1> DEFINE dir == PathOf[f]
           nested == Walks!OnTheWay(dir, 1)
           gits == Walks!OnTheWay(dir, 0)
           A == [i \in DOMAIN nested |-> Walks!Read(rs, "ignore", nested[i])]
           B == [i \in DOMAIN gits |-> Walks!Read(rs, "git", gits[i])]
           R == Rows(rs, f)
           D == Walks!Defaults
<1>1. D \in Seq(ToSet(D))
  <2>1. DOMAIN Builtin = 1..Len(Builtin) /\ Len(Builtin) \in Nat
    BY WalksAssumption, LenProperties
  <2>2. D \in [1..Len(Builtin) -> ToSet(D)]
    BY <2>1 DEF Walks!Defaults, ToSet
  <2> HIDE DEF D
  <2> QED BY <2>1, <2>2
<1>2. Len(dir) \in Nat
  BY WalksAssumption, LenProperties
<1>3. ASSUME NEW d \in Asked(f) PROVE Walks!Read(rs, "ignore", d) \in Seq(R) /\ Walks!Read(rs, "git", d) \in Seq(R)
  <2>1. ToSet(Walks!Read(rs, "ignore", d)) \subseteq R /\ ToSet(Walks!Read(rs, "git", d)) \subseteq R
    BY DEF Rows
  <2>2. Walks!Read(rs, "ignore", d) \in Seq(ToSet(Walks!Read(rs, "ignore", d))) /\ Walks!Read(rs, "git", d) \in Seq(ToSet(Walks!Read(rs, "git", d)))
    BY ReadIs
  <2> HIDE DEF R
  <2> QED BY <2>1, <2>2
<1>4. DOMAIN nested = 1..Len(dir) /\ \A i \in 1..Len(dir) : nested[i] \in Asked(f)
  <2>1. nested = [i \in 1..(Len(dir) + 1 - 1) |-> SubSeq(dir, 1, i - 1 + 1)]
    BY Zenon DEF Walks!OnTheWay
  <2>2. Len(dir) + 1 - 1 = Len(dir)
    BY <1>2
  <2>3. ASSUME NEW i \in 1..Len(dir) PROVE SubSeq(dir, 1, i - 1 + 1) \in Asked(f)
    <3>1. i - 1 + 1 = i /\ i \in 0..Len(dir)
      BY <1>2
    <3> QED BY <3>1 DEF Asked
  <2> HIDE DEF nested, dir
  <2> QED BY <2>1, <2>2, <2>3
<1>5. DOMAIN gits = 1..(Len(dir) + 1) /\ \A i \in 1..(Len(dir) + 1) : gits[i] \in Asked(f)
  <2>1. gits = [i \in 1..(Len(dir) + 1 - 0) |-> SubSeq(dir, 1, i - 1 + 0)]
    BY Zenon DEF Walks!OnTheWay
  <2>2. Len(dir) + 1 - 0 = Len(dir) + 1
    BY <1>2
  <2>3. ASSUME NEW i \in 1..(Len(dir) + 1) PROVE SubSeq(dir, 1, i - 1 + 0) \in Asked(f)
    <3>1. i - 1 + 0 \in 0..Len(dir)
      BY <1>2
    <3> QED BY <3>1 DEF Asked
  <2> HIDE DEF gits, dir
  <2> QED BY <2>1, <2>2, <2>3
<1> HIDE DEF nested, gits, R
<1>6. A \in Seq(Seq(R)) /\ B \in Seq(Seq(R))
  <2>1. A \in [1..Len(dir) -> Seq(R)]
    BY <1>3, <1>4
  <2>2. B \in [1..(Len(dir) + 1) -> Seq(R)]
    BY <1>3, <1>5
  <2> HIDE DEF A, B, dir
  <2> QED BY <2>1, <2>2, <1>2
<1>7. Walks!FlattenSeq(A) \in Seq(R) /\ Walks!FlattenSeq(B) \in Seq(R)
  <2> HIDE DEF A, B
  <2> QED BY <1>6, FlattenIs, FlattenBridge
<1>8. Walks!TopLines(rs) \in Seq(R)
  BY <1>3 DEF Walks!TopLines, Asked
<1>9. Walks!Stack(rs, Walks!TopLines(rs), dir) = D \o Walks!TopLines(rs) \o Walks!FlattenSeq(A) \o Walks!FlattenSeq(B)
  BY Zenon DEF Walks!Stack, nested, gits
<1>10. Begins(D, D, R)
  <2> HIDE DEF D
  <2>1. D \in Seq(ToSet(D) \cup R) /\ Len(D) \in Nat
    BY <1>1, LenProperties
  <2> QED BY <2>1 DEF Begins
<1> HIDE DEF A, B, D, dir
<1>11. Begins(D \o Walks!TopLines(rs), D, R)
  BY <1>1, <1>8, <1>10, BeginsStill
<1>12. Begins(D \o Walks!TopLines(rs) \o Walks!FlattenSeq(A), D, R)
  BY <1>1, <1>7, <1>11, BeginsStill
<1>13. Begins(D \o Walks!TopLines(rs) \o Walks!FlattenSeq(A) \o Walks!FlattenSeq(B), D, R)
  BY <1>1, <1>7, <1>12, BeginsStill
<1> QED BY <1>1, <1>9, <1>13 DEF D, R, dir

\* The flow passes by a file only if a rule ignores it.
LEMMA PassedIsIgnored ==
    ASSUME NEW rs \in RuleSets, NEW f \in Walks!Files, f \notin Walks!FlowWalk(rs) PROVE Walks!Ignored(rs, f)
<1> DEFINE D == Walks!Defaults
           R == Rows(rs, f)
           stack == Walks!Stack(rs, Walks!TopLines(rs), PathOf[f])
<1>1. D \in Seq(ToSet(D)) /\ Begins(stack, D, R)
  BY StackIs DEF Walks!Files
<1>2. ASSUME NEW x \in R PROVE ~x.line.neg
  <2>1. PICK d \in Asked(f) : x \in ToSet(Walks!Read(rs, "ignore", d)) \/ x \in ToSet(Walks!Read(rs, "git", d))
    BY DEF Rows
  <2>2. \E p \in DOMAIN rs : \E l \in ToSet(rs[p]) : x.line = l
    BY <2>1, ReadIs
  <2>3. \A p \in DOMAIN rs : \A l \in ToSet(rs[p]) : ~l.neg
    BY Zenon DEF Walks!FlowWalk, Walks!Permissive, ToSet, Walks!ToSet
  <2> HIDE DEF R
  <2> QED BY <2>2, <2>3
<1>3. Walks!IgnoredBy(D, f)
  BY Zenon DEF Walks!FlowWalk
<1> HIDE DEF D, R, stack
<1>4. PICK i \in Hits(D, f) : ~D[i].line.neg /\ \A j \in Hits(D, f) : j <= i
  BY <1>1, <1>3, LastDecides
<1>5. /\ stack \in Seq(ToSet(D) \cup R) /\ Len(D) \in Nat /\ Len(stack) \in Nat /\ Len(D) <= Len(stack)
      /\ DOMAIN D = 1..Len(D) /\ DOMAIN stack = 1..Len(stack)
  <2>1. stack \in Seq(ToSet(D) \cup R) /\ Len(D) <= Len(stack)
    BY <1>1 DEF Begins
  <2> QED BY <2>1, <1>1, LenProperties
<1>6. i \in Hits(stack, f)
  BY <1>1, <1>5 DEF Hits, Begins
<1>7. PICK m \in Hits(stack, f) : \A j \in Hits(stack, f) : j <= m
  <2>1. Hits(stack, f) \subseteq 1..Len(stack) /\ Hits(stack, f) # {}
    BY <1>5, <1>6 DEF Hits
  <2> QED BY <2>1, <1>5, GreatestIs
<1>8. ~stack[m].line.neg
  <2>1. CASE m > Len(D)
    <3>1. m \in 1..Len(stack)
      BY <1>5 DEF Hits
    <3>2. stack[m] \in R
      BY <1>1, <2>1, <3>1 DEF Begins
    <3> QED BY <3>2, <1>2
  <2>2. CASE ~(m > Len(D))
    <3>1. m \in 1..Len(D) /\ stack[m] = D[m]
      BY <1>1, <1>5, <2>2 DEF Hits, Begins
    <3>2. m \in Hits(D, f)
      BY <3>1, <1>5 DEF Hits
    <3>3. m <= i /\ i <= m /\ i \in 1..Len(D)
      BY <3>2, <1>4, <1>5, <1>6, <1>7 DEF Hits
    <3>4. m = i
      BY <3>1, <3>3, <1>5
    <3> QED BY <3>1, <3>4, <1>4
  <2> QED BY <2>1, <2>2
<1>9. Walks!IgnoredBy(stack, f)
  BY <1>5, <1>7, <1>8, LastDecides
<1> QED BY <1>9, Zenon DEF Walks!Ignored, stack

\* What the lines up to i make of a file.
LEMMA AfterIs ==
    ASSUME NEW S, NEW stack \in Seq(S), NEW f, NEW i \in 0..Len(stack)
    PROVE  Walks!IgnoredBy(SubSeq(stack, 1, i), f) <=>
             \E k \in Hits(stack, f) : /\ k <= i /\ ~stack[k].line.neg
                                       /\ \A j \in Hits(stack, f) : j <= i => j <= k
<1> DEFINE upto == SubSeq(stack, 1, i)
<1>1. Len(stack) \in Nat /\ DOMAIN stack = 1..Len(stack)
  BY LenProperties
<1>2. upto \in Seq(S) /\ Len(upto) = i /\ \A k \in 1..i : upto[k] = stack[k]
  <2>1. 1 \in 1..(Len(stack) + 1) /\ i \in (1 - 1)..Len(stack) /\ i - 1 + 1 = i /\ \A k \in 1..i : 1 + k - 1 = k
    BY <1>1
  <2> QED BY <2>1, SubSeqProperties
<1>3. DOMAIN upto = 1..i
  BY <1>2, LenProperties
<1> HIDE DEF upto
<1>4. Hits(upto, f) = {k \in Hits(stack, f) : k <= i}
  BY <1>1, <1>2, <1>3 DEF Hits
<1>5. \A k \in Hits(upto, f) : upto[k] = stack[k]
  BY <1>2, <1>3 DEF Hits
<1>6. Walks!IgnoredBy(upto, f) <=> \E k \in Hits(upto, f) : ~upto[k].line.neg /\ \A j \in Hits(upto, f) : j <= k
  BY <1>2, LastDecides
<1> QED BY <1>4, <1>5, <1>6 DEF upto

\* The line that is blamed for an ignored file.
LEMMA BlameIs ==
    ASSUME NEW S, NEW stack \in Seq(S), NEW f, Walks!IgnoredBy(stack, f)
    PROVE  LET w == Walks!Winning(stack, f)
           IN  /\ w \in DOMAIN stack /\ Walks!Matches(stack[w], f) /\ ~stack[w].line.neg
               /\ \A i \in DOMAIN stack : i > w /\ Walks!Matches(stack[i], f) => ~stack[i].line.neg
<1> DEFINE hits == Hits(stack, f)
           neg(k) == stack[k].line.neg
           n == Len(stack)
           After(i) == Walks!IgnoredBy(SubSeq(stack, 1, i), f)
           turns == {i \in DOMAIN stack : After(i) # After(i - 1)}
           w == Walks!Max({1} \cup turns)
<1>1. n \in Nat /\ DOMAIN stack = 1..n /\ hits \subseteq 1..n
  BY LenProperties DEF Hits
<1>2. Walks!Winning(stack, f) = w
  BY Zenon DEF Walks!Winning
<1>3. \A i \in 0..n : After(i) <=> \E k \in hits : k <= i /\ ~neg(k) /\ \A j \in hits : j <= i => j <= k
  BY AfterIs
<1>4. \E k \in hits : ~neg(k) /\ \A j \in hits : j <= k
  BY LastDecides
<1>5. \A i : After(i) \in BOOLEAN
  BY DEF Walks!IgnoredBy
<1> HIDE DEF After, hits, neg, n
<1>6. After(n) /\ ~After(0)
  <2>1. After(n)
    BY <1>1, <1>3, <1>4
  <2>2. ~After(0)
    BY <1>1, <1>3
  <2> QED BY <2>1, <2>2
<1>7. \A i \in turns : i \in 1..n /\ i - 1 \in 0..n /\ After(i) # After(i - 1)
  BY <1>1
<1>8. \A i \in 1..n : i \notin turns => After(i) = After(i - 1)
  BY <1>1
<1> HIDE DEF turns
<1>9. turns # {}
  <2> SUFFICES ASSUME turns = {} PROVE FALSE
    OBVIOUS
  <2> DEFINE T == {i \in 0..n : ~After(i)}
  <2>1. 0 \in T
    BY <1>1, <1>6
  <2>2. ASSUME NEW i \in T, i \in 0..(n - 1) PROVE i + 1 \in T
    <3>1. i + 1 \in 1..n /\ i + 1 \in 0..n /\ (i + 1) - 1 = i
      BY <1>1, <2>2
    <3>2. After(i + 1) = After(i)
      BY <1>8, <3>1
    <3> QED BY <3>1, <3>2
  <2> HIDE DEF T
  <2>3. \A i \in 0..n : i \in T
    BY <1>1, <2>1, <2>2, UpTo
  <2>4. n \in T
    BY <2>3, <1>1
  <2> QED BY <2>4, <1>6 DEF T
<1>10. w \in turns /\ \A i \in turns : i <= w
  <2>1. PICK c \in turns : c \in 1..n
    BY <1>7, <1>9
  <2>2. 1 \in 1..n
    BY <2>1, <1>1
  <2>3. {1} \cup turns \subseteq 1..n /\ {1} \cup turns # {}
    BY <1>7, <2>2
  <2>4. w \in {1} \cup turns /\ \A i \in {1} \cup turns : i <= w
    <3> HIDE DEF w
    <3> QED BY <2>3, <1>1, GreatestIs DEF w
  <2>5. CASE w = 1
    <3>1. c <= 1 /\ c \in 1..n
      BY <2>1, <2>4, <2>5
    <3>2. c = 1
      BY <3>1, <1>1
    <3> QED BY <3>2, <2>1, <2>4, <2>5
  <2>6. CASE w # 1
    BY <2>4, <2>6
  <2> QED BY <2>5, <2>6
<1> HIDE DEF w
<1>11. w \in 1..n /\ w - 1 \in 0..n /\ After(w) # After(w - 1)
  BY <1>7, <1>10
<1>12. \A i \in w..n : After(i)
  <2> DEFINE T == {i \in 0..n : After(n - i) \/ n - i < w}
  <2>1. 0 \in T
    BY <1>1, <1>6
  <2>2. ASSUME NEW i \in T, i \in 0..(n - 1) PROVE i + 1 \in T
    <3>1. i + 1 \in 0..n /\ n - i \in 1..n /\ n - (i + 1) = (n - i) - 1
      BY <1>1, <2>2
    <3>2. CASE n - (i + 1) < w
      BY <3>1, <3>2
    <3>3. CASE ~(n - (i + 1) < w)
      <4>1. ~(n - i <= w) /\ ~(n - i < w)
        BY <3>1, <3>3, <1>1, <1>11
      <4>2. n - i \notin turns
        BY <4>1, <1>10
      <4>3. After(n - i) = After((n - i) - 1)
        BY <4>2, <3>1, <1>8
      <4> QED BY <3>1, <4>1, <4>3
    <3> QED BY <3>2, <3>3
  <2> HIDE DEF T
  <2>3. \A i \in 0..n : i \in T
    BY <1>1, <2>1, <2>2, UpTo
  <2>4. ASSUME NEW i \in w..n PROVE After(i)
    <3>1. n - i \in 0..n /\ n - (n - i) = i /\ ~(i < w)
      BY <1>1, <1>11
    <3>2. n - i \in T
      BY <2>3, <3>1
    <3> QED BY <3>1, <3>2 DEF T
  <2> QED BY <2>4
<1>13. After(w) /\ ~After(w - 1)
  <2>1. w \in w..n
    BY <1>1, <1>11
  <2>2. After(w)
    BY <2>1, <1>12
  <2> QED BY <2>2, <1>11, <1>5
<1>14. w \in hits /\ ~neg(w)
  <2>1. PICK k \in hits : k <= w /\ ~neg(k) /\ \A j \in hits : j <= w => j <= k
    BY <1>3, <1>11, <1>13, <1>1
  <2>2. CASE k = w
    BY <2>1, <2>2
  <2>3. CASE k # w
    <3>1. k \in 1..n /\ k <= w - 1 /\ \A j \in hits : j <= w - 1 => j <= w
      BY <2>1, <2>3, <1>1, <1>11
    <3>2. After(w - 1)
      BY <2>1, <3>1, <1>3, <1>11
    <3> QED BY <3>2, <1>13
  <2> QED BY <2>2, <2>3
<1>15. ASSUME NEW i \in hits, i > w PROVE ~neg(i)
  <2>1. i \in w..n /\ i \in 0..n
    BY <1>1, <1>11, <1>15
  <2>2. After(i)
    BY <2>1, <1>12
  <2>3. PICK k \in hits : k <= i /\ ~neg(k) /\ \A j \in hits : j <= i => j <= k
    BY <2>1, <2>2, <1>3
  <2>4. k = i
    BY <2>3, <1>1
  <2> QED BY <2>3, <2>4
<1> QED BY <1>1, <1>2, <1>14, <1>15 DEF hits, neg, Hits

----------------------------------------------------------------------------
(* The indexes follow the sources *)

Counts(f) == ~Walks!Ignored(rules, f)

\* What the memo says of the file's present revision, if it says anything.
MemoTrue(f) == memo[f] # None /\ memo[f].version = revision[f] => (memo[f].kept <=> Counts(f))

\* Both indexes have the file as they should.
Current(f) ==
    /\ walked[f] = (IF Counts(f) THEN revision[f] ELSE 0)
    /\ sources[f] = (IF Walks!Pruned(f) THEN 0 ELSE walked[f])

WalkTypes ==
    /\ rules \in RuleSets /\ revision \in [Walks!Files -> Nat] /\ touched \subseteq Walks!Files
    /\ \E T : learned \in [Walks!Dirs -> T]
    /\ \A f \in Walks!Files : memo[f] # None => memo[f].version \in Nat /\ memo[f].version <= revision[f]

\* What the daemon knows of the rules.
Knows ==
    /\ project = Walks!TopLines(rules)
    /\ \A d \in Walks!Dirs : learned[d] = None \/ learned[d] = Walks!Stack(rules, project, d)

WalkInv ==
    /\ WalkTypes
    /\ settled => \A f \in Walks!Files : MemoTrue(f)
    /\ watching /\ calm => Knows /\ \A f \in touched : MemoTrue(f)
    /\ fresh /\ settled => \A f \in Walks!Files : Current(f)
    /\ watching /\ calm /\ ~noticed => \A f \in touched : Counts(f) => Current(f)

\* An index run makes current what the memo does not lie about.
LEMMA RunMakesCurrent ==
    ASSUME WalkTypes, Walks!IndexRun, UNCHANGED <<rules, revision>>
    PROVE  /\ \A f \in Walks!Files : memo'[f] # None => memo'[f].version \in Nat /\ memo'[f].version <= revision'[f]
           /\ \A f \in Walks!Files : MemoTrue(f) => MemoTrue(f)' /\ Current(f)'
<1> SUFFICES ASSUME NEW f \in Walks!Files
             PROVE  /\ memo'[f] # None => memo'[f].version \in Nat /\ memo'[f].version <= revision'[f]
                    /\ MemoTrue(f) => MemoTrue(f)' /\ Current(f)'
  OBVIOUS
<1> DEFINE walks == f \in Walks!FlowWalk(rules)
           keeps == memo[f] # None /\ memo[f].version = revision[f]
           done == Walks!Processed(f)
<1>1. revision[f] \in Nat /\ rules \in RuleSets /\ revision' = revision /\ rules' = rules
  BY DEF WalkTypes
<1>2. Counts(f)' <=> Counts(f)
  BY <1>1 DEF Counts
<1>3. ~walks => ~Counts(f)
  BY <1>1, PassedIsIgnored DEF Counts
<1>4. /\ memo'[f] = IF walks THEN done ELSE None
      /\ walked'[f] = IF walks /\ done.kept THEN revision[f] ELSE 0
      /\ sources'[f] = IF f \in Walks!GraphWalk(rules) THEN revision[f] ELSE 0
  <2> HIDE DEF walks, done
  <2>1. memo' = [g \in Walks!Files |-> IF g \in Walks!FlowWalk(rules) THEN Walks!Processed(g) ELSE None]
    BY Zenon DEF Walks!IndexRun
  <2>2. walked' = [g \in Walks!Files |-> IF g \in Walks!FlowWalk(rules) /\ Walks!Processed(g).kept THEN revision[g] ELSE 0]
    BY Zenon DEF Walks!IndexRun
  <2>3. sources' = [g \in Walks!Files |-> IF g \in Walks!GraphWalk(rules) THEN revision[g] ELSE 0]
    BY Zenon DEF Walks!IndexRun
  <2>4. memo'[f] = IF walks THEN done ELSE None
    BY <2>1 DEF walks, done
  <2>5. walked'[f] = IF walks /\ done.kept THEN revision[f] ELSE 0
    BY <2>2 DEF walks, done
  <2>6. sources'[f] = IF f \in Walks!GraphWalk(rules) THEN revision[f] ELSE 0
    BY <2>3
  <2> QED BY <2>4, <2>5, <2>6
<1>5. f \in Walks!GraphWalk(rules) <=> ~Walks!Pruned(f) /\ Counts(f)
  BY DEF Walks!GraphWalk, Counts
<1>6. /\ keeps => done = memo[f]
      /\ ~keeps => done.version = revision[f] /\ (done.kept <=> Counts(f))
  <2>1. keeps => done = memo[f]
    BY Zenon DEF Walks!Processed
  <2> DEFINE now == [version |-> revision[f], kept |-> ~Walks!Ignored(rules, f)]
  <2>2. ~keeps => done = now
    BY Zenon DEF Walks!Processed
  <2>3. now.version = revision[f] /\ (now.kept <=> Counts(f))
    BY DEF Counts
  <2> HIDE DEF done, keeps, now
  <2> QED BY <2>1, <2>2, <2>3
<1> HIDE DEF walks, done
<1>7. done.version = revision[f]
  BY <1>6
<1>8. memo'[f] # None => memo'[f].version \in Nat /\ memo'[f].version <= revision'[f]
  BY <1>1, <1>4, <1>7
<1>9. ASSUME MemoTrue(f) PROVE MemoTrue(f)' /\ Current(f)'
  <2>1. done.kept <=> Counts(f)
    BY <1>6, <1>9 DEF MemoTrue
  <2>2. MemoTrue(f)'
    <3>1. memo'[f] # None => (memo'[f].kept <=> Counts(f))
      BY <1>4, <2>1
    <3> QED BY <3>1, <1>2 DEF MemoTrue
  <2>3. walked'[f] = IF Counts(f) THEN revision[f] ELSE 0
    BY <1>3, <1>4, <2>1
  <2>4. sources'[f] = IF Walks!Pruned(f) THEN 0 ELSE walked'[f]
    BY <1>4, <1>5, <2>3
  <2>5. Walks!Pruned(f)' <=> Walks!Pruned(f)
    BY DEF Walks!Pruned
  <2> QED BY <1>1, <1>2, <2>2, <2>3, <2>4, <2>5 DEF Current
<1> QED BY <1>8, <1>9

\* So does building the vectors from nothing, whatever the memo said.
LEMMA ReprocessMakesCurrent ==
    ASSUME WalkTypes, Walks!Reprocess
    PROVE  \A f \in Walks!Files :
             /\ memo'[f] # None => memo'[f].version \in Nat /\ memo'[f].version <= revision'[f]
             /\ MemoTrue(f)' /\ Current(f)'
<1> SUFFICES ASSUME NEW f \in Walks!Files
             PROVE  /\ memo'[f] # None => memo'[f].version \in Nat /\ memo'[f].version <= revision'[f]
                    /\ MemoTrue(f)' /\ Current(f)'
  OBVIOUS
<1> DEFINE walks == f \in Walks!FlowWalk(rules)
           done == [version |-> revision[f], kept |-> ~Walks!Ignored(rules, f)]
<1>1. revision[f] \in Nat /\ rules \in RuleSets /\ revision' = revision /\ rules' = rules
  BY DEF WalkTypes, Walks!Reprocess
<1>2. Counts(f)' <=> Counts(f)
  BY <1>1 DEF Counts
<1>3. ~walks => ~Counts(f)
  BY <1>1, PassedIsIgnored DEF Counts
<1>4. /\ memo'[f] = IF walks THEN done ELSE None
      /\ walked'[f] = IF walks /\ Counts(f) THEN revision[f] ELSE 0
      /\ sources'[f] = IF ~Walks!Pruned(f) /\ Counts(f) THEN revision[f] ELSE 0
  <2> HIDE DEF walks
  <2>1. memo' = [g \in Walks!Files |-> IF g \in Walks!FlowWalk(rules)
                                   THEN [version |-> revision[g], kept |-> ~Walks!Ignored(rules, g)] ELSE None]
    BY Zenon DEF Walks!Reprocess
  <2>2. walked' = [g \in Walks!Files |-> IF g \in Walks!FlowWalk(rules) /\ ~Walks!Ignored(rules, g) THEN revision[g] ELSE 0]
    BY Zenon DEF Walks!Reprocess
  <2>3. sources' = [g \in Walks!Files |-> IF g \in Walks!GraphWalk(rules) THEN revision[g] ELSE 0]
    BY Zenon DEF Walks!Reprocess
  <2>4. memo'[f] = IF walks THEN done ELSE None
    BY Zenon, <2>1 DEF walks
  <2>5. walked'[f] = IF walks /\ Counts(f) THEN revision[f] ELSE 0
    BY <2>2 DEF walks, Counts
  <2>6. sources'[f] = IF ~Walks!Pruned(f) /\ Counts(f) THEN revision[f] ELSE 0
    BY <2>3 DEF Walks!GraphWalk, Counts
  <2> QED BY Zenon, <2>4, <2>5, <2>6
<1>5. done.version = revision[f] /\ (done.kept <=> Counts(f))
  BY DEF Counts
<1> HIDE DEF walks, done
<1>6. memo'[f] # None => memo'[f].version = revision[f] /\ (memo'[f].kept <=> Counts(f))
  BY <1>4, <1>5
<1>7. MemoTrue(f)'
  BY <1>2, <1>6 DEF MemoTrue
<1>8. walked'[f] = IF Counts(f) THEN revision[f] ELSE 0
  BY <1>3, <1>4
<1>9. sources'[f] = IF Walks!Pruned(f) THEN 0 ELSE walked'[f]
  BY <1>4, <1>8
<1>10. Walks!Pruned(f)' <=> Walks!Pruned(f)
  BY DEF Walks!Pruned
<1> QED BY <1>1, <1>2, <1>6, <1>7, <1>8, <1>9, <1>10 DEF Current

LEMMA KnowsStill == ASSUME Knows, UNCHANGED <<rules, project, learned>> PROVE Knows'
<1>1. Walks!TopLines(rules)' = Walks!TopLines(rules)
  OBVIOUS
<1>2. \A d : Walks!Stack(rules, project, d)' = Walks!Stack(rules, project, d)
  OBVIOUS
<1> QED BY <1>1, <1>2 DEF Knows, Walks!Dirs

\* An index run keeps the invariant, and leaves nothing to be noticed.
LEMMA RunKeepsWalkInv ==
    ASSUME WalkInv, Walks!IndexRun,
           UNCHANGED <<rules, revision, watching, project, learned, touched, calm, settled>>
    PROVE  WalkInv'
<1>1. WalkTypes /\ UNCHANGED <<rules, revision>>
  BY DEF WalkInv
<1>2. /\ \A f \in Walks!Files : memo'[f] # None => memo'[f].version \in Nat /\ memo'[f].version <= revision'[f]
      /\ \A f \in Walks!Files : MemoTrue(f) => MemoTrue(f)' /\ Current(f)'
  BY <1>1, RunMakesCurrent
<1>3. WalkTypes'
  BY <1>1, <1>2 DEF WalkTypes, Walks!Files, Walks!Dirs
<1>4. settled' => \A f \in Walks!Files : MemoTrue(f)' /\ Current(f)'
  BY <1>2 DEF WalkInv
<1>5. watching' /\ calm' => Knows' /\ \A f \in touched' : MemoTrue(f)' /\ Current(f)'
  <2>1. watching /\ calm => Knows /\ \A f \in touched : MemoTrue(f)
    BY DEF WalkInv
  <2>2. Knows => Knows'
    BY KnowsStill
  <2>3. touched' \subseteq Walks!Files
    BY <1>1 DEF WalkTypes
  <2> QED BY <1>2, <2>1, <2>2, <2>3
<1> QED BY <1>3, <1>4, <1>5 DEF WalkInv, Walks!Files

LEMMA WalkInvBegins == Walks!Init => WalkInv
<1> SUFFICES ASSUME NEW rs \in RuleSets, Walks!Start(rs) PROVE WalkInv
  BY DEF Walks!Init
<1>1. learned \in [Walks!Dirs -> {None}] /\ revision \in [Walks!Files -> Nat]
  BY DEF Walks!Start
<1>2. \A f \in Walks!Files : memo[f] = None
  BY DEF Walks!Start
<1>3. rules \in RuleSets /\ touched = {} /\ ~watching /\ ~fresh
  BY DEF Walks!Start
<1> QED BY <1>1, <1>2, <1>3 DEF WalkInv, WalkTypes, MemoTrue

LEMMA WalkInvStays == WalkInv /\ [Walks!Next]_Walks!vars => WalkInv'
<1> SUFFICES ASSUME WalkInv, [Walks!Next]_Walks!vars PROVE WalkInv'
  OBVIOUS
<1>0. WalkTypes
  BY DEF WalkInv
<1>1. CASE Walks!Increment
  BY <1>1, RunKeepsWalkInv DEF Walks!Increment
<1>2. CASE Walks!Reindex
  BY <1>2, RunKeepsWalkInv DEF Walks!Reindex
<1>3. CASE Walks!Reprocess
  <2>1. \A f \in Walks!Files :
           /\ memo'[f] # None => memo'[f].version \in Nat /\ memo'[f].version <= revision'[f]
           /\ MemoTrue(f)' /\ Current(f)'
    BY <1>0, <1>3, ReprocessMakesCurrent
  <2>2. UNCHANGED <<rules, revision, edits, watching, project, learned, noticed, touched, calm>>
    BY <1>3 DEF Walks!Reprocess
  <2>3. WalkTypes'
    BY <1>0, <2>1, <2>2 DEF WalkTypes, Walks!Files, Walks!Dirs
  <2>4. Knows => Knows'
    BY <2>2, KnowsStill
  <2>5. touched' \subseteq Walks!Files
    BY <1>0, <2>2 DEF WalkTypes
  <2> QED BY <2>1, <2>2, <2>3, <2>4, <2>5 DEF WalkInv, Walks!Files
<1>4. CASE Walks!StartWatching
  <2>1. UNCHANGED <<rules, revision, sources, walked, memo, settled, fresh>>
    BY <1>4 DEF Walks!StartWatching
  <2>2. touched' = {} /\ project' = Walks!TopLines(rules) /\ learned' \in [Walks!Dirs -> {None}]
    BY <1>4 DEF Walks!StartWatching
  <2>3. \A f : (MemoTrue(f) => MemoTrue(f)') /\ (Current(f) => Current(f)')
    BY <2>1 DEF MemoTrue, Current, Counts, Walks!Pruned
  <2>4. WalkTypes'
    BY <1>0, <2>1, <2>2 DEF WalkTypes, Walks!Files, Walks!Dirs
  <2>5. Knows'
    <3>1. Walks!TopLines(rules)' = Walks!TopLines(rules)
      BY <2>1
    <3> QED BY <2>2, <3>1 DEF Knows, Walks!Dirs
  <2> QED BY <2>1, <2>2, <2>3, <2>4, <2>5 DEF WalkInv, Walks!Files
<1>5. CASE Walks!StopWatching
  <2>1. UNCHANGED <<rules, revision, sources, walked, memo, settled, fresh>>
    BY <1>5 DEF Walks!StopWatching
  <2>2. touched' = {} /\ ~watching' /\ learned' \in [Walks!Dirs -> {None}]
    BY <1>5 DEF Walks!StopWatching
  <2>3. \A f : (MemoTrue(f) => MemoTrue(f)') /\ (Current(f) => Current(f)')
    BY <2>1 DEF MemoTrue, Current, Counts, Walks!Pruned
  <2>4. WalkTypes'
    BY <1>0, <2>1, <2>2 DEF WalkTypes, Walks!Files, Walks!Dirs
  <2> QED BY <2>1, <2>2, <2>3, <2>4 DEF WalkInv, Walks!Files
<1>6. ASSUME NEW f \in Walks!Files, Walks!EditSource(f) PROVE WalkInv'
  <2>1. UNCHANGED <<rules, sources, walked, memo, watching, project, calm, settled>>
    BY <1>6 DEF Walks!EditSource
  <2>2. /\ revision' = [revision EXCEPT ![f] = @ + 1] /\ ~fresh'
        /\ learned' = Walks!Learned(rules, PathOf[f])
        /\ touched' = IF watching THEN touched \cup {f} ELSE touched
    BY <1>6 DEF Walks!EditSource
  <2>3. noticed' = (noticed \/ (watching /\ ~Walks!IgnoredBy(learned'[PathOf[f]], f)))
    BY <1>6 DEF Walks!EditSource
  <2>4. PathOf[f] \in Walks!Dirs
    BY DEF Walks!Dirs
  <2>5. PICK T : learned \in [Walks!Dirs -> T]
    BY <1>0 DEF WalkTypes
  <2>6. /\ learned' \in [Walks!Dirs -> T \cup {Walks!Stack(rules, project, PathOf[f])}]
        /\ watching => \A d \in Walks!Dirs : learned'[d] =
             IF d = PathOf[f] /\ learned[d] = None THEN Walks!Stack(rules, project, d) ELSE learned[d]
    <3> DEFINE s == Walks!Stack(rules, project, PathOf[f])
    <3>1. learned' = IF watching /\ PathOf[f] \in Walks!Dirs /\ learned[PathOf[f]] = None
                     THEN [learned EXCEPT ![PathOf[f]] = s] ELSE learned
      BY Zenon, <2>2 DEF Walks!Learned
    <3>2. \A d : d = PathOf[f] => Walks!Stack(rules, project, d) = s
      OBVIOUS
    <3> HIDE DEF s
    <3>3. learned' \in [Walks!Dirs -> T \cup {s}]
      BY <2>4, <2>5, <3>1
    <3>4. watching => \A d \in Walks!Dirs : learned'[d] = IF d = PathOf[f] /\ learned[d] = None THEN s ELSE learned[d]
      BY <2>4, <2>5, <3>1
    <3> QED BY <3>2, <3>3, <3>4 DEF s
  <2>7. /\ revision' \in [Walks!Files -> Nat] /\ revision'[f] = revision[f] + 1 /\ revision[f] \in Nat
        /\ \A g \in Walks!Files : g # f => revision'[g] = revision[g]
    BY <1>0, <2>2 DEF WalkTypes
  <2>8. \A g \in Walks!Files : memo'[g] # None => /\ memo'[g].version \in Nat /\ memo'[g].version <= revision'[g]
                                                  /\ (g = f => memo'[g].version # revision'[g])
    <3> SUFFICES ASSUME NEW g \in Walks!Files, memo[g] # None
                 PROVE  /\ memo[g].version \in Nat /\ memo[g].version <= revision'[g]
                        /\ (g = f => memo[g].version # revision'[g])
      BY <2>1
    <3>1. memo[g].version \in Nat /\ memo[g].version <= revision[g]
      BY <1>0 DEF WalkTypes
    <3> QED BY <2>7, <3>1
  <2>9. WalkTypes'
    <3>1. rules' \in RuleSets /\ touched' \subseteq Walks!Files
      BY <1>0, <2>1, <2>2 DEF WalkTypes
    <3>2. \E U : learned' \in [Walks!Dirs -> U]
      BY <2>6
    <3> QED BY <2>7, <2>8, <3>1, <3>2 DEF WalkTypes, Walks!Files, Walks!Dirs
  <2>10. \A g \in Walks!Files : g # f => (MemoTrue(g) => MemoTrue(g)') /\ (Current(g) => Current(g)') /\ (Counts(g)' <=> Counts(g))
    BY <2>1, <2>7 DEF MemoTrue, Current, Counts, Walks!Pruned
  <2>11. MemoTrue(f)' /\ (Counts(f)' <=> Counts(f))
    BY <2>1, <2>8 DEF MemoTrue, Counts
  <2>12. ASSUME watching, calm PROVE Knows' /\ learned'[PathOf[f]] = Walks!Stack(rules, project, PathOf[f])
    <3>1. Knows
      BY <2>12 DEF WalkInv
    <3>2. \A d \in Walks!Dirs : learned'[d] = None \/ learned'[d] = Walks!Stack(rules, project, d)
      BY <3>1, <2>6, <2>12 DEF Knows
    <3>3. learned'[PathOf[f]] = Walks!Stack(rules, project, PathOf[f])
      BY <3>1, <2>4, <2>6, <2>12 DEF Knows
    <3>4. project' = project /\ Walks!TopLines(rules)' = Walks!TopLines(rules) /\ project = Walks!TopLines(rules)
      BY <3>1, <2>1 DEF Knows
    <3>5. \A d : Walks!Stack(rules, project, d)' = Walks!Stack(rules, project, d)
      BY <2>1
    <3> QED BY <3>2, <3>3, <3>4, <3>5 DEF Knows, Walks!Dirs
  <2>13. ASSUME watching, calm, ~noticed' PROVE \A g \in touched' : Counts(g)' => Current(g)'
    <3>1. ~noticed /\ Walks!IgnoredBy(learned'[PathOf[f]], f)
      BY <2>3, <2>13
    <3>2. project = Walks!TopLines(rules)
      BY <2>13 DEF WalkInv, Knows
    <3>3. ~Counts(f)
      BY <3>1, <3>2, <2>12, <2>13 DEF Counts, Walks!Ignored
    <3>4. \A g \in touched : Counts(g) => Current(g)
      BY <3>1, <2>13 DEF WalkInv
    <3>5. touched \subseteq Walks!Files /\ touched' \subseteq touched \cup {f}
      BY <1>0, <2>2 DEF WalkTypes
    <3> QED BY <3>3, <3>4, <3>5, <2>10, <2>11
  <2>14. settled' => \A g \in Walks!Files : MemoTrue(g)'
    BY <2>1, <2>10, <2>11 DEF WalkInv
  <2>15. watching' /\ calm' => \A g \in touched' : MemoTrue(g)'
    <3>1. touched \subseteq Walks!Files /\ touched' \subseteq touched \cup {f}
      BY <1>0, <2>2 DEF WalkTypes
    <3> QED BY <3>1, <2>1, <2>10, <2>11 DEF WalkInv
  <2> QED BY <2>1, <2>2, <2>9, <2>12, <2>13, <2>14, <2>15 DEF WalkInv, Walks!Files
<1>7. ASSUME NEW rs \in RuleSets, Walks!EditRules(rs) PROVE WalkInv'
  <2>1. UNCHANGED <<revision, memo, watching, touched>>
    BY <1>7 DEF Walks!EditRules
  <2>2. rules' \in RuleSets /\ ~settled' /\ ~fresh' /\ calm' = ~watching
    BY <1>7 DEF Walks!EditRules
  <2>3. \E T : learned' \in [Walks!Dirs -> T]
    <3> DEFINE place(p) == IF p \in DOMAIN rules THEN rules[p] ELSE <<>>
               changed == {p \in DOMAIN rs : p.layer = "git" /\ place(p) # rs[p]}
               value(d) == IF \E p \in changed : p.dir = d THEN Walks!Learned(rs, d)[d] ELSE learned[d]
    <3>1. learned' = [d \in Walks!Dirs |-> value(d)]
      BY Zenon, <1>7 DEF Walks!EditRules
    <3> HIDE DEF value
    <3>2. learned' \in [Walks!Dirs -> {value(d) : d \in Walks!Dirs}]
      BY <3>1
    <3> QED BY <3>2
  <2>4. WalkTypes'
    BY <1>0, <2>1, <2>2, <2>3 DEF WalkTypes, Walks!Files, Walks!Dirs
  <2> QED BY <2>1, <2>2, <2>4 DEF WalkInv
<1>8. CASE UNCHANGED Walks!vars
  <2>1. /\ UNCHANGED <<rules, revision, edits, sources, walked, memo, watching, project>>
        /\ UNCHANGED <<learned, noticed, touched, calm, settled, fresh>>
    BY <1>8 DEF Walks!vars
  <2>2. \A f : (MemoTrue(f) => MemoTrue(f)') /\ (Current(f) => Current(f)') /\ (Counts(f)' <=> Counts(f))
    BY <2>1 DEF MemoTrue, Current, Counts, Walks!Pruned
  <2>3. WalkTypes'
    BY <1>0, <2>1 DEF WalkTypes, Walks!Files, Walks!Dirs
  <2>4. Knows => Knows'
    BY <2>1, KnowsStill
  <2> QED BY <2>1, <2>2, <2>3, <2>4 DEF WalkInv, Walks!Files
<1> QED BY <1>1, <1>2, <1>3, <1>4, <1>5, <1>6, <1>7, <1>8 DEF Walks!Next

LEMMA WalksAreTrue == WalkInv => Walks!SourcesAreFollowed
<1> SUFFICES ASSUME WalkInv PROVE Walks!SourcesAreFollowed
  OBVIOUS
<1>1. ASSUME fresh, settled, NEW f \in Walks!Files
      PROVE  /\ walked[f] = (IF Walks!Ignored(rules, f) THEN 0 ELSE revision[f])
             /\ sources[f] = (IF Walks!Pruned(f) THEN 0 ELSE walked[f])
  BY <1>1 DEF WalkInv, Current, Counts
<1>2. ASSUME NEW f \in Walks!Files, Walks!Ignored(rules, f)
      PROVE  LET stack == Walks!Stack(rules, Walks!TopLines(rules), PathOf[f])  w == Walks!Winning(stack, f)
             IN  /\ w \in DOMAIN stack /\ Walks!Matches(stack[w], f) /\ ~stack[w].line.neg
                 /\ \A i \in DOMAIN stack : i > w /\ Walks!Matches(stack[i], f) => ~stack[i].line.neg
  <2> DEFINE stack == Walks!Stack(rules, Walks!TopLines(rules), PathOf[f])
             S == ToSet(Walks!Defaults) \cup Rows(rules, f)
  <2>1. rules \in RuleSets
    BY DEF WalkInv, WalkTypes
  <2>2. stack \in Seq(S)
    BY <2>1, StackIs DEF Begins, Walks!Files
  <2>3. Walks!IgnoredBy(stack, f)
    BY <1>2 DEF Walks!Ignored
  <2> HIDE DEF stack, S
  <2>4. LET w == Walks!Winning(stack, f)
        IN  /\ w \in DOMAIN stack /\ Walks!Matches(stack[w], f) /\ ~stack[w].line.neg
            /\ \A i \in DOMAIN stack : i > w /\ Walks!Matches(stack[i], f) => ~stack[i].line.neg
    BY <2>2, <2>3, BlameIs
  <2> QED BY Zenon, <2>4 DEF stack
<1>3. Walks!WalksAgree
  BY Zenon, <1>1, <1>2 DEF Walks!WalksAgree
<1>4. Walks!EditsAreSeen
  <2> SUFFICES ASSUME watching, calm, ~noticed, NEW f \in touched, ~Walks!Ignored(rules, f)
               PROVE  walked[f] = revision[f] /\ (Walks!Pruned(f) \/ sources[f] = revision[f])
    BY DEF Walks!EditsAreSeen
  <2> QED BY DEF WalkInv, Current, Counts
<1> QED BY <1>3, <1>4 DEF Walks!SourcesAreFollowed

\* What was indexed under rules that have not changed since is what counts, an ignored
\* file has a line to blame, and the daemon misses no edit (graph/path_filtering.py and
\* watch/watcher.py, Walks!SourcesAreFollowed).
THEOREM SourcesStayFollowed ==
    /\ Walks!Spec => []Walks!SourcesAreFollowed
    /\ SetupSpec => []SourcesAreFollowed
<1> DEFINE Inv == part = "walks" => WalkInv
<1>1. Walks!Spec => []Walks!SourcesAreFollowed
  BY WalkInvBegins, WalkInvStays, WalksAreTrue, PTL DEF Walks!Spec
<1>2. SetupInit => Inv
  BY WalkInvBegins DEF SetupInit
<1>3. Inv /\ [SetupNext]_setupVars => Inv'
  <2> SUFFICES ASSUME WalkInv, part = "walks", [SetupNext]_setupVars PROVE WalkInv'
    BY DEF SetupNext, setupVars
  <2>1. [Walks!Next]_Walks!vars
    BY DEF SetupNext, setupVars, walkVars, Walks!vars
  <2> QED BY <2>1, WalkInvStays
<1>4. Inv => SourcesAreFollowed
  BY WalksAreTrue DEF SourcesAreFollowed
<1>5. SetupSpec => []SourcesAreFollowed
  BY <1>2, <1>3, <1>4, PTL DEF SetupSpec
<1> QED BY <1>1, <1>5

----------------------------------------------------------------------------
(* The installer *)

\* What is in a sequence made of a finite set.
LEMMA SetToSeqIs ==
    ASSUME NEW S, IsFiniteSet(S)
    PROVE  Install!SetToSeq(S) \in Seq(S) /\ ToSet(Install!SetToSeq(S)) = S
<1> DEFINE n == Cardinality(S)
           s == CHOOSE f \in [1..n -> S] : IsInjective(f)
<1>1. n \in Nat /\ ExistsBijection(1..n, S)
  BY FS_CardinalityType
<1>2. PICK b \in Bijection(1..n, S) : TRUE
  BY <1>1 DEF ExistsBijection
<1>3. b \in [1..n -> S] /\ IsInjective(b)
  BY <1>2 DEF Bijection, Injection, IsInjective
<1>4. s \in [1..n -> S] /\ IsInjective(s)
  BY <1>3
<1>5. Install!SetToSeq(S) = s
  BY Zenon DEF Install!SetToSeq, Install!IsInjective, IsInjective, Install!Cardinality, Cardinality
<1> HIDE DEF s
<1>6. s \in Injection(1..n, S)
  BY <1>4 DEF Injection, IsInjective
<1>7. IsFiniteSet(1..n) /\ Cardinality(1..n) = n
  BY <1>1, FS_Interval
<1>8. s \in Surjection(1..n, S)
  BY <1>6, <1>7, FS_Injection
<1>9. ToSet(s) = S
  BY <1>4, <1>8 DEF Surjection, ToSet
<1>10. s \in Seq(S)
  BY <1>1, <1>4
<1> QED BY <1>5, <1>9, <1>10

----------------------------------------------------------------------------
(* What an update does to the hosts *)

Kinds(s) == (IF s = "mcp" THEN {"mcp"} ELSE {}) \cup ToSet(FileKinds)
Ops == [do : {"deploy", "refresh", "remove"}, at : Places, surface : {"mcp", "cli"}, kind : {"mcp"} \cup ToSet(FileKinds)]

\* The operations of one kind on a place.
LEMMA OpsAre ==
    ASSUME NEW do \in {"deploy", "refresh", "remove"}, NEW p \in Places, NEW s \in {"mcp", "cli"}
    PROVE  /\ Install!Ops(do, p, s) \in Seq(Ops)
           /\ ToSet(Install!Ops(do, p, s)) = {op \in Ops : op.do = do /\ op.at = p /\ op.surface = s /\ op.kind \in Kinds(s)}
<1> DEFINE m == Install!Manifest(s)
           ops == Install!Ops(do, p, s)
           A == {"mcp"} \cup ToSet(FileKinds)
<1>1. m \in Seq(A) /\ ToSet(m) = Kinds(s)
  <2> DEFINE entry == IF s = "mcp" THEN <<"mcp">> ELSE <<>>
  <2>1. entry \in Seq(A) /\ ToSet(entry) = IF s = "mcp" THEN {"mcp"} ELSE {}
    <3>1. CASE s = "mcp"
      <4>1. entry = <<"mcp">>
        BY <3>1
      <4>2. <<"mcp">> \in Seq({"mcp"}) /\ DOMAIN <<"mcp">> = {1} /\ <<"mcp">>[1] = "mcp"
        OBVIOUS
      <4>3. {"mcp"} \subseteq A
        OBVIOUS
      <4> HIDE DEF entry, A
      <4>4. entry \in Seq(A)
        BY <4>1, <4>3
      <4> QED BY <4>1, <4>2, <4>4, <3>1 DEF ToSet
    <3>2. CASE s # "mcp"
      <4>1. entry = <<>> /\ DOMAIN <<>> = {} /\ <<>> \in Seq(A)
        BY <3>2
      <4> HIDE DEF entry, A
      <4> QED BY <4>1, <3>2 DEF ToSet
    <3> QED BY <3>1, <3>2
  <2>2. FileKinds \in Seq(A)
    <3>1. ToSet(FileKinds) \subseteq A /\ FileKinds \in Seq(ToSet(FileKinds))
      BY InstallAssumption
    <3> HIDE DEF A
    <3> QED BY <3>1
  <2>3. m = entry \o FileKinds
    BY Zenon DEF Install!Manifest
  <2> HIDE DEF entry, A, m
  <2>4. m \in Seq(A) /\ ToSet(m) = ToSet(entry) \cup ToSet(FileKinds)
    BY <2>1, <2>2, <2>3, ToSetOfJoin
  <2> QED BY <2>1, <2>4 DEF Kinds
<1>2. ops = [i \in DOMAIN m |-> [do |-> do, at |-> p, surface |-> s, kind |-> m[i]]]
  BY Zenon DEF Install!Ops
<1> HIDE DEF m, ops, A
<1>3. DOMAIN m = 1..Len(m) /\ Len(m) \in Nat /\ \A i \in 1..Len(m) : m[i] \in A
  BY <1>1, LenProperties, ElementOfSeq
<1>4. \A i \in 1..Len(m) : ops[i] = [do |-> do, at |-> p, surface |-> s, kind |-> m[i]] /\ ops[i] \in Ops
  BY <1>2, <1>3 DEF Ops, A
<1>5. DOMAIN ops = 1..Len(m)
  BY <1>2, <1>3
<1>6. ops \in [1..Len(m) -> Ops]
  BY <1>2, <1>3, <1>4
<1>7. ops \in Seq(Ops)
  BY <1>3, <1>6
<1>8. ASSUME NEW i \in 1..Len(m)
      PROVE  ops[i].do = do /\ ops[i].at = p /\ ops[i].surface = s /\ ops[i].kind \in Kinds(s)
  <2>1. m[i] \in Kinds(s)
    BY <1>1, <1>3 DEF ToSet
  <2>2. ops[i] = [do |-> do, at |-> p, surface |-> s, kind |-> m[i]]
    BY <1>4
  <2>3. ops[i].do = do /\ ops[i].at = p /\ ops[i].surface = s /\ ops[i].kind = m[i]
    BY <2>2
  <2> QED BY Zenon, <2>1, <2>3
<1>9. ASSUME NEW op \in Ops, op.do = do, op.at = p, op.surface = s, op.kind \in Kinds(s)
      PROVE  \E i \in 1..Len(m) : ops[i] = op
  <2>1. PICK i \in 1..Len(m) : m[i] = op.kind
    BY <1>1, <1>3, <1>9 DEF ToSet
  <2>2. op = [do |-> do, at |-> p, surface |-> s, kind |-> m[i]]
    BY <1>9, <2>1 DEF Ops
  <2> QED BY <2>2, <1>4
<1>10. ToSet(ops) = {op \in Ops : op.do = do /\ op.at = p /\ op.surface = s /\ op.kind \in Kinds(s)}
  BY <1>4, <1>5, <1>8, <1>9 DEF ToSet
<1> QED BY <1>7, <1>10 DEF ops

Confs  == {"absent", "broken", "plain", "stale", "current"}
Slots  == Places \X {"mcp", "cli"} \X ToSet(FileKinds)
States == {"absent", "current", "other"}

Updates == cmd # None /\ cmd.verb = "update"
SurfaceOf(p) == IF p \in cmd.moved THEN cmd.surface ELSE cmd.detected[p]

\* The command as its start leaves it.
CommandOK ==
    cmd # None =>
        /\ cmd.verb \in {"install", "update"} /\ ToSet(cmd.hosts) \subseteq Places
        /\ cmd.verb = "install" => cmd.surface \in {"mcp", "cli"} /\ ~cmd.dry
        /\ cmd.verb = "update" =>
             /\ cmd.detected \in [ToSet(cmd.hosts) -> {"mcp", "cli"}]
             /\ cmd.moved \subseteq ToSet(cmd.hosts)
             /\ \A p \in cmd.moved : cmd.surface \in {"mcp", "cli"} /\ cmd.detected[p] # cmd.surface

InstallTypes ==
    /\ config \in [Places -> Confs] /\ files \in [Slots -> States]
    /\ marker \notin {None, Broken} => \E S \in SUBSET Places : marker \in [S -> {"mcp", "cli"}]
    /\ stage \in {"artifacts", "marker", "index", "ended"} /\ faulty \in BOOLEAN
    /\ steps \in Seq(Ops)
    /\ CommandOK

\* Whether the update means to do an operation, and whether it stands.
Planned(op) ==
    /\ op.at \in ToSet(cmd.hosts) /\ op.kind \in Kinds(op.surface)
    /\ \/ op.do = "remove" /\ op.at \in cmd.moved /\ op.surface = cmd.detected[op.at]
       \/ op.do = "deploy" /\ op.at \in cmd.moved /\ op.surface = cmd.surface
       \/ op.do = "refresh" /\ op.at \notin cmd.moved /\ op.surface = cmd.detected[op.at]
Stands(op) ==
    IF op.kind = "mcp" THEN config[op.at] \in (IF op.do = "remove" THEN {"absent", "plain"} ELSE {"current"})
    ELSE files[<<op.at, op.surface, op.kind>>] = (IF op.do = "remove" THEN "absent" ELSE "current")

\* An update that is not a dry run and has not ended otherwise than with 0.
Honest == Updates /\ ~cmd.dry /\ (stage # "ended" \/ exit = 0)

StepsOK ==
    /\ \A op \in ToSet(steps) : Planned(op)
    /\ \A op \in Ops : Planned(op) => op \in ToSet(steps) \/ faulty \/ Stands(op)
MarkerOK ==
    stage # "artifacts" /\ cmd.moved # {} /\ ~unmarked => marker = [p \in ToSet(cmd.hosts) |-> SurfaceOf(p)]

InstallInv ==
    /\ InstallTypes
    /\ Updates /\ cmd.dry => Install!disk = disk0
    /\ Honest => /\ StepsOK /\ MarkerOK
                 /\ stage # "artifacts" => steps = <<>>
                 /\ stage = "ended" => ~faulty /\ (yaml = "vectors" => index \in {"absent", "whole"})

\* At the end of an update that tells 0 everything planned stands.
LEMMA WholeIsTold == InstallInv => Install!UpdateTellsTruth
<1> SUFFICES ASSUME InstallInv, cmd # None, stage = "ended", cmd.verb = "update"
             PROVE  /\ cmd.dry => Install!disk = disk0
                    /\ ~cmd.dry /\ exit = 0 =>
                        /\ \A p \in ToSet(cmd.hosts) : Install!Shipped(p, Install!SurfaceAfter(p))
                        /\ \A p \in cmd.moved : Install!Gone(p, Install!Opposite(cmd.surface))
                        /\ cmd.moved # {} /\ ~unmarked => Install!Detected = [p \in ToSet(cmd.hosts) |-> Install!SurfaceAfter(p)]
                        /\ yaml = "vectors" => index \in {"absent", "whole"}
  BY Zenon DEF Install!UpdateTellsTruth, ToSet, Install!ToSet
<1>1. cmd.dry => Install!disk = disk0
  BY DEF InstallInv, Updates
<1> SUFFICES ASSUME ~cmd.dry, exit = 0
             PROVE  /\ \A p \in ToSet(cmd.hosts) : Install!Shipped(p, Install!SurfaceAfter(p))
                    /\ \A p \in cmd.moved : Install!Gone(p, Install!Opposite(cmd.surface))
                    /\ cmd.moved # {} /\ ~unmarked => Install!Detected = [p \in ToSet(cmd.hosts) |-> Install!SurfaceAfter(p)]
                    /\ yaml = "vectors" => index \in {"absent", "whole"}
  BY <1>1
<1>2. /\ Honest /\ steps = <<>> /\ ~faulty /\ StepsOK /\ MarkerOK /\ CommandOK /\ InstallTypes
      /\ yaml = "vectors" => index \in {"absent", "whole"}
  BY DEF InstallInv, Honest, Updates, InstallTypes
<1>3. ToSet(steps) = {}
  <2>1. DOMAIN <<>> = {}
    OBVIOUS
  <2> QED BY <1>2, <2>1 DEF ToSet
<1>4. \A op \in Ops : Planned(op) => Stands(op)
  BY <1>2, <1>3 DEF StepsOK
<1>5. /\ ToSet(cmd.hosts) \subseteq Places /\ cmd.detected \in [ToSet(cmd.hosts) -> {"mcp", "cli"}]
      /\ cmd.moved \subseteq ToSet(cmd.hosts)
      /\ \A p \in cmd.moved : cmd.surface \in {"mcp", "cli"} /\ cmd.detected[p] # cmd.surface
  BY <1>2 DEF CommandOK
<1>6. \A p : Install!SurfaceAfter(p) = SurfaceOf(p)
  BY DEF Install!SurfaceAfter, SurfaceOf
<1>7. ASSUME NEW p \in ToSet(cmd.hosts) PROVE Install!Shipped(p, SurfaceOf(p))
  <2> DEFINE s == SurfaceOf(p)
             do == IF p \in cmd.moved THEN "deploy" ELSE "refresh"
             op(k) == [do |-> do, at |-> p, surface |-> s, kind |-> k]
  <2>1. s \in {"mcp", "cli"} /\ p \in Places
    BY <1>5 DEF SurfaceOf
  <2>2. ASSUME NEW k \in Kinds(s) PROVE op(k) \in Ops /\ Planned(op(k))
    <3>1. op(k) \in Ops
      <4>1. k \in {"mcp"} \cup ToSet(FileKinds)
        BY <2>2 DEF Kinds
      <4> QED BY <2>1, <4>1 DEF Ops
    <3>2. Planned(op(k))
      BY <1>7 DEF Planned, SurfaceOf
    <3> QED BY <3>1, <3>2
  <2>3. \A k \in Kinds(s) : Stands(op(k))
    BY <2>2, <1>4
  <2> HIDE DEF s
  <2>4. s = "mcp" => config[p] = "current"
    <3>1. s = "mcp" => "mcp" \in Kinds(s)
      BY DEF Kinds
    <3>2. s = "mcp" => Stands(op("mcp"))
      BY <2>3, <3>1
    <3> QED BY <3>2 DEF Stands
  <2>5. ASSUME NEW k \in ToSet(FileKinds) PROVE files[<<p, s, k>>] = "current"
    <3>1. k \in Kinds(s) /\ k # "mcp"
      BY InstallAssumption DEF Kinds
    <3>2. Stands(op(k))
      BY <2>3, <3>1
    <3> QED BY <3>1, <3>2 DEF Stands
  <2>6. Install!ShippedKinds = ToSet(FileKinds)
    BY Zenon DEF Install!ShippedKinds, ToSet, Install!ToSet
  <2> QED BY <2>4, <2>5, <2>6 DEF Install!Shipped, s
<1>8. ASSUME NEW p \in cmd.moved PROVE Install!Gone(p, Install!Opposite(cmd.surface))
  <2> DEFINE s == cmd.detected[p]
             op(k) == [do |-> "remove", at |-> p, surface |-> s, kind |-> k]
  <2>1. s \in {"mcp", "cli"} /\ p \in Places /\ p \in ToSet(cmd.hosts) /\ cmd.surface \in {"mcp", "cli"} /\ s # cmd.surface
    BY <1>5
  <2>2. ASSUME NEW k \in Kinds(s) PROVE op(k) \in Ops /\ Planned(op(k))
    <3>1. op(k) \in Ops
      <4>1. k \in {"mcp"} \cup ToSet(FileKinds)
        BY <2>2 DEF Kinds
      <4> QED BY <2>1, <4>1 DEF Ops
    <3>2. Planned(op(k))
      BY <2>1 DEF Planned
    <3> QED BY <3>1, <3>2
  <2>3. \A k \in Kinds(s) : Stands(op(k))
    BY <2>2, <1>4
  <2> HIDE DEF s
  <2>4. s = "mcp" => config[p] \in {"absent", "plain"}
    <3>1. s = "mcp" => "mcp" \in Kinds(s)
      BY DEF Kinds
    <3>2. s = "mcp" => Stands(op("mcp"))
      BY <2>3, <3>1
    <3> QED BY <3>2 DEF Stands
  <2>5. ASSUME NEW k \in ToSet(FileKinds) PROVE files[<<p, s, k>>] = "absent"
    <3>1. k \in Kinds(s) /\ k # "mcp"
      BY InstallAssumption DEF Kinds
    <3>2. Stands(op(k))
      BY <2>3, <3>1
    <3> QED BY <3>1, <3>2 DEF Stands
  <2>6. Install!ShippedKinds = ToSet(FileKinds)
    BY Zenon DEF Install!ShippedKinds, ToSet, Install!ToSet
  <2>7. Install!Opposite(cmd.surface) = s
    <3>1. \A t \in {"mcp", "cli"} : t # cmd.surface <=> t = s
      BY <2>1
    <3> QED BY <2>1, <3>1 DEF Install!Opposite, Install!Surfaces
  <2> QED BY <2>4, <2>5, <2>6, <2>7 DEF Install!Gone
<1>9. ASSUME cmd.moved # {}, ~unmarked PROVE Install!Detected = [p \in ToSet(cmd.hosts) |-> Install!SurfaceAfter(p)]
  <2>1. marker = [p \in ToSet(cmd.hosts) |-> SurfaceOf(p)]
    BY <1>2, <1>9 DEF MarkerOK
  <2>2. \A p \in ToSet(cmd.hosts) : SurfaceOf(p) \in {"mcp", "cli"}
    BY <1>5 DEF SurfaceOf
  <2>3. marker \in [ToSet(cmd.hosts) -> {"mcp", "cli"}] /\ ToSet(cmd.hosts) \in SUBSET Places
    BY <2>1, <2>2, <1>5
  <2>4. marker \notin {None, Broken}
    BY <2>3, InstallAssumption
  <2>5. Install!Detected = marker
    BY <2>4 DEF Install!Detected
  <2> QED BY <2>1, <2>5, <1>6
<1> QED BY <1>2, <1>6, <1>7, <1>8, <1>9

\* What handling one artifact comes to.
LEMMA Handling ==
    ASSUME InstallTypes, cmd # None,
           Install!ArtifactFails \/ Install!HandleEntry \/ Install!HandleFile
    PROVE  LET op == Head(steps)
           IN  /\ stage # "ended" /\ steps # <<>> /\ steps' = Tail(steps)
               /\ UNCHANGED <<marker, yaml, index, cmd, stage, unmarked, exit, disk0>>
               /\ \/ faulty' = TRUE /\ config' = config /\ files' = files
                  \/ cmd.dry /\ faulty' = faulty /\ config' = config /\ files' = files
                  \/ /\ ~cmd.dry /\ op.kind = "mcp" /\ faulty' = faulty /\ files' = files
                     /\ \E v \in (IF op.do = "remove" THEN {"absent", "plain"} ELSE {"current"}) : config' = [config EXCEPT ![op.at] = v]
                  \/ /\ ~cmd.dry /\ op.kind # "mcp" /\ faulty' = faulty /\ config' = config
                     /\ files' = [files EXCEPT ![<<op.at, op.surface, op.kind>>] = IF op.do = "remove" THEN "absent" ELSE "current"]
<1> DEFINE op == Head(steps)
           conf == config[op.at]
           file == files[<<op.at, op.surface, op.kind>>]
<1>0. Install!Op = op /\ Install!FileOf(op) = <<op.at, op.surface, op.kind>> /\ faulty \in BOOLEAN
  BY DEF Install!Op, Install!FileOf, InstallTypes
<1>1. /\ \A c, f : Install!Done(TRUE, c, f) =>
           /\ steps' = Tail(steps) /\ faulty' = TRUE /\ config' = config /\ files' = files
           /\ UNCHANGED <<marker, yaml, index, cmd, stage, unmarked, exit, disk0>>
      /\ \A c, f : Install!Done(FALSE, c, f) =>
           /\ steps' = Tail(steps) /\ faulty' = faulty
           /\ UNCHANGED <<marker, yaml, index, cmd, stage, unmarked, exit, disk0>>
           /\ config' = IF op.kind = "mcp" THEN [config EXCEPT ![op.at] = c] ELSE config
           /\ files' = IF op.kind # "mcp" THEN [files EXCEPT ![<<op.at, op.surface, op.kind>>] = f] ELSE files
  BY <1>0 DEF Install!Done
<1>2. [config EXCEPT ![op.at] = conf] = config /\ [files EXCEPT ![<<op.at, op.surface, op.kind>>] = file] = files
  BY DEF InstallTypes
<1>3. CASE Install!ArtifactFails
  <2>1. Install!Running /\ steps # <<>> /\ Install!Done(TRUE, None, None)
    BY <1>3 DEF Install!ArtifactFails
  <2> HIDE DEF op
  <2> QED BY <1>1, <2>1 DEF Install!Running, op
<1>4. CASE Install!HandleEntry
  <2>1. Install!Running /\ steps # <<>> /\ op.kind = "mcp"
    BY <1>0, <1>4 DEF Install!HandleEntry
  <2>2. CASE conf = "broken"
    <3>1. Install!Done(TRUE, None, None)
      BY <1>0, <1>4, <2>2 DEF Install!HandleEntry
    <3> HIDE DEF op
    <3> QED BY <1>1, <2>1, <3>1 DEF Install!Running, op
  <2>3. CASE conf # "broken" /\ cmd.dry
    <3>1. Install!Done(FALSE, conf, None)
      BY <1>0, <1>4, <2>3 DEF Install!HandleEntry
    <3> HIDE DEF op, conf
    <3> QED BY <1>1, <1>2, <2>1, <2>3, <3>1 DEF Install!Running, op
  <2>4. CASE conf # "broken" /\ ~cmd.dry /\ op.do = "remove"
    <3>1. Install!Done(FALSE, IF conf = "absent" THEN "absent" ELSE "plain", None)
      BY <1>0, <1>4, <2>4 DEF Install!HandleEntry
    <3> HIDE DEF op, conf
    <3> QED BY <1>1, <2>1, <2>4, <3>1 DEF Install!Running, op
  <2>5. CASE conf # "broken" /\ ~cmd.dry /\ op.do # "remove"
    <3>1. Install!Done(FALSE, "current", None)
      BY <1>0, <1>4, <2>5 DEF Install!HandleEntry
    <3> HIDE DEF op, conf
    <3> QED BY <1>1, <2>1, <2>5, <3>1 DEF Install!Running, op
  <2> QED BY <2>2, <2>3, <2>4, <2>5
<1>5. CASE Install!HandleFile
  <2> DEFINE left == op.do = "deploy" /\ file = "other" /\ ~cmd.interactive
  <2>1. Install!Running /\ steps # <<>> /\ op.kind # "mcp"
    BY <1>0, <1>5 DEF Install!HandleFile
  <2>2. CASE cmd.dry
    <3>1. Install!Done(FALSE, None, file)
      BY <1>0, <1>5, <2>2 DEF Install!HandleFile
    <3> HIDE DEF op, file
    <3> QED BY <1>1, <1>2, <2>1, <2>2, <3>1 DEF Install!Running, op
  <2>3. CASE ~cmd.dry /\ op.do = "remove"
    <3>1. Install!Done(FALSE, None, "absent")
      BY <1>0, <1>5, <2>3 DEF Install!HandleFile
    <3> HIDE DEF op, file
    <3> QED BY <1>1, <2>1, <2>3, <3>1 DEF Install!Running, op
  <2>4. CASE ~cmd.dry /\ op.do # "remove" /\ left
    <3>1. Install!Done(TRUE, None, None)
      BY <1>0, <1>5, <2>4 DEF Install!HandleFile
    <3> HIDE DEF op, file
    <3> QED BY <1>1, <2>1, <2>4, <3>1 DEF Install!Running, op
  <2>5. CASE ~cmd.dry /\ op.do # "remove" /\ ~left
    <3>1. Install!Done(FALSE, None, "current")
      BY <1>0, <1>5, <2>5 DEF Install!HandleFile
    <3> HIDE DEF op, file, left
    <3> QED BY <1>1, <2>1, <2>5, <3>1 DEF Install!Running, op
  <2> QED BY <2>2, <2>3, <2>4, <2>5
<1> QED BY <1>3, <1>4, <1>5

LEMMA HeadAndTail ==
    ASSUME NEW S, NEW s \in Seq(S), s # <<>>
    PROVE  Head(s) \in S /\ Head(s) \in ToSet(s) /\ Tail(s) \in Seq(S) /\ ToSet(s) = {Head(s)} \cup ToSet(Tail(s))
<1>1. /\ Len(s) \in Nat /\ Len(s) # 0 /\ DOMAIN s = 1..Len(s) /\ Head(s) = s[1] /\ Tail(s) \in Seq(S)
      /\ Len(Tail(s)) = Len(s) - 1 /\ \A i \in 1..Len(Tail(s)) : Tail(s)[i] = s[i + 1]
  BY HeadTailProperties, LenProperties, EmptySeq
<1>2. DOMAIN Tail(s) = 1..(Len(s) - 1)
  BY <1>1, LenProperties
<1>3. Head(s) \in S /\ Head(s) \in ToSet(s)
  <2>1. 1 \in 1..Len(s)
    BY <1>1
  <2> QED BY <1>1, <2>1, ElementOfSeq DEF ToSet
<1>4. ASSUME NEW i \in 1..(Len(s) - 1) PROVE Tail(s)[i] \in ToSet(s)
  <2>1. i + 1 \in 1..Len(s)
    BY <1>1
  <2> QED BY <1>1, <2>1 DEF ToSet
<1>5. ASSUME NEW i \in 1..Len(s), i # 1 PROVE s[i] \in ToSet(Tail(s))
  <2>1. i - 1 \in 1..(Len(s) - 1) /\ (i - 1) + 1 = i
    BY <1>1, <1>5
  <2>2. Tail(s)[i - 1] = s[i]
    BY <1>1, <2>1
  <2> QED BY <1>2, <2>1, <2>2 DEF ToSet
<1>6. \A x \in ToSet(s) : x = Head(s) \/ x \in ToSet(Tail(s))
  BY <1>1, <1>5 DEF ToSet
<1>7. \A x \in ToSet(Tail(s)) : x \in ToSet(s)
  BY <1>2, <1>4 DEF ToSet
<1> QED BY <1>1, <1>3, <1>6, <1>7

\* An operation that is handled keeps what the others of the update have done.
LEMMA HandlingKeeps ==
    ASSUME InstallInv, cmd # None, Install!ArtifactFails \/ Install!HandleEntry \/ Install!HandleFile
    PROVE  InstallInv'
<1> DEFINE op == Head(steps)
           slot == <<op.at, op.surface, op.kind>>
<1>1. InstallTypes
  BY DEF InstallInv
<1>2. /\ stage # "ended" /\ steps # <<>> /\ steps' = Tail(steps)
      /\ UNCHANGED <<marker, yaml, index, cmd, stage, unmarked, exit, disk0>>
      /\ \/ faulty' = TRUE /\ config' = config /\ files' = files
         \/ cmd.dry /\ faulty' = faulty /\ config' = config /\ files' = files
         \/ /\ ~cmd.dry /\ op.kind = "mcp" /\ faulty' = faulty /\ files' = files
            /\ \E v \in (IF op.do = "remove" THEN {"absent", "plain"} ELSE {"current"}) : config' = [config EXCEPT ![op.at] = v]
         \/ /\ ~cmd.dry /\ op.kind # "mcp" /\ faulty' = faulty /\ config' = config
            /\ files' = [files EXCEPT ![slot] = IF op.do = "remove" THEN "absent" ELSE "current"]
  BY <1>1, Handling
<1>3. op \in Ops /\ op \in ToSet(steps) /\ steps' \in Seq(Ops) /\ ToSet(steps) = {op} \cup ToSet(steps')
  BY <1>1, <1>2, HeadAndTail DEF InstallTypes
<1>4. op.at \in Places /\ op.surface \in {"mcp", "cli"} /\ (op.kind # "mcp" => slot \in Slots)
  BY <1>3 DEF Ops, Slots
<1> HIDE DEF op
<1>5. config' \in [Places -> Confs] /\ files' \in [Slots -> States] /\ faulty' \in BOOLEAN
  BY <1>1, <1>2, <1>4 DEF InstallTypes, Confs, States
<1>6. InstallTypes'
  <2>1. CommandOK'
    BY <1>1, <1>2 DEF InstallTypes, CommandOK
  <2> QED BY <1>1, <1>2, <1>3, <1>5, <2>1 DEF InstallTypes, Slots
<1>7. Updates' /\ cmd'.dry => Install!disk' = disk0'
  <2>1. Updates /\ cmd.dry => Install!disk = disk0
    BY DEF InstallInv
  <2> QED BY <1>2, <2>1 DEF Updates, Install!disk
<1>8. Honest' => Honest
  BY <1>2 DEF Honest, Updates
<1>9. Honest => stage = "artifacts"
  BY <1>2 DEF InstallInv
<1>10. Honest => StepsOK /\ ~cmd.dry
  BY DEF InstallInv, Honest
<1>11. \A o : Planned(o)' <=> Planned(o)
  BY <1>2 DEF Planned
<1>12. ASSUME Honest PROVE StepsOK'
  <2>1. \A o \in ToSet(steps') : Planned(o)'
    BY <1>3, <1>10, <1>11, <1>12 DEF StepsOK
  <2>2. ASSUME NEW o \in Ops, Planned(o) PROVE o \in ToSet(steps') \/ faulty' \/ Stands(o)'
    <3>1. CASE faulty'
      BY <3>1
    <3>2. CASE ~faulty'
      <4>1. ~faulty
        BY <1>2, <3>2
      <4>2. o \in ToSet(steps') \/ o = op \/ Stands(o)
        BY <1>3, <1>10, <1>12, <2>2, <4>1 DEF StepsOK
      <4>3. Planned(op)
        BY <1>3, <1>10, <1>12 DEF StepsOK
      <4>4. \A p \in cmd.moved : cmd.detected[p] # cmd.surface
        BY <1>1, <1>12 DEF InstallTypes, CommandOK, Honest, Updates
      <4>5. CASE op.kind = "mcp"
        <5>1. PICK v \in (IF op.do = "remove" THEN {"absent", "plain"} ELSE {"current"}) :
                config' = [config EXCEPT ![op.at] = v] /\ files' = files
          BY <1>2, <1>10, <1>12, <3>2, <4>5
        <5>2. config'[op.at] = v /\ \A p \in Places : p # op.at => config'[p] = config[p]
          BY <1>1, <1>4, <5>1 DEF InstallTypes
        <5>3. CASE o.kind = "mcp" /\ o.at = op.at
          <6>1. op.surface = "mcp" /\ o.surface = "mcp"
            BY <2>2, <4>3, <4>5, <5>3, InstallAssumption DEF Planned, Kinds
          <6>2. o.do = "remove" <=> op.do = "remove"
            BY <2>2, <4>3, <4>4, <5>3, <6>1 DEF Planned
          <6> QED BY <5>1, <5>2, <5>3, <6>2 DEF Stands
        <5>4. CASE ~(o.kind = "mcp" /\ o.at = op.at)
          <6>1. o.at \in Places
            BY <2>2 DEF Ops
          <6>2. Stands(o) => Stands(o)'
            BY <5>1, <5>2, <5>4, <6>1 DEF Stands
          <6>3. o # op
            BY <4>5, <5>4
          <6> QED BY <4>2, <6>2, <6>3
        <5> QED BY <5>3, <5>4
      <4>6. CASE op.kind # "mcp"
        <5> DEFINE w == IF op.do = "remove" THEN "absent" ELSE "current"
        <5>1. files' = [files EXCEPT ![slot] = w] /\ config' = config
          BY <1>2, <1>10, <1>12, <3>2, <4>6
        <5>2. files'[slot] = w /\ \A x \in Slots : x # slot => files'[x] = files[x]
          <6> HIDE DEF slot, w
          <6> QED BY <1>1, <1>4, <4>6, <5>1 DEF InstallTypes
        <5>3. CASE o.kind # "mcp" /\ o.at = op.at /\ o.surface = op.surface /\ o.kind = op.kind
          <6>1. o.do = "remove" <=> op.do = "remove"
            BY <2>2, <4>3, <4>4, <5>3 DEF Planned
          <6> QED BY <5>2, <5>3, <6>1 DEF Stands
        <5>4. CASE ~(o.kind # "mcp" /\ o.at = op.at /\ o.surface = op.surface /\ o.kind = op.kind)
          <6>1. o.kind # "mcp" => <<o.at, o.surface, o.kind>> \in Slots /\ <<o.at, o.surface, o.kind>> # slot
            BY <2>2, <5>4 DEF Ops, Slots
          <6>2. Stands(o) => Stands(o)'
            BY <5>1, <5>2, <6>1 DEF Stands
          <6>3. o # op
            BY <4>6, <5>4
          <6> QED BY <4>2, <6>2, <6>3
        <5> QED BY <5>3, <5>4
      <4> QED BY <4>5, <4>6
    <3> QED BY <3>1, <3>2
  <2> QED BY <1>11, <2>1, <2>2 DEF StepsOK, Ops
<1>13. Honest' => stage' = "artifacts"
  BY <1>2, <1>8, <1>9
<1> QED BY <1>6, <1>7, <1>8, <1>12, <1>13 DEF InstallInv, MarkerOK

LEMMA InstallBridge ==
    /\ \A s : Install!FlattenSeq(s) = FlattenSeq(s)
    /\ \A s : Install!ToSet(s) = ToSet(s)
    /\ Install!Surfaces = {"mcp", "cli"} /\ Install!ShippedKinds = ToSet(FileKinds)
<1>1. ASSUME NEW s PROVE Install!FlattenSeq(s) = FlattenSeq(s)
  BY Zenon DEF Install!FlattenSeq, FlattenSeq
<1>2. ASSUME NEW s PROVE Install!ToSet(s) = ToSet(s)
  BY Zenon DEF Install!ToSet, ToSet
<1>3. Install!ShippedKinds = ToSet(FileKinds)
  BY <1>2, Zenon DEF Install!ShippedKinds
<1>4. Install!Surfaces = {"mcp", "cli"}
  BY DEF Install!Surfaces
<1> QED BY <1>1, <1>2, <1>3, <1>4

\* install begins.
LEMMA InstallBegins == ASSUME InstallInv, Install!StartInstall PROVE InstallInv'
<1>1. PICK places \in Selections, s \in {"mcp", "cli"}, interactive \in BOOLEAN, mode \in {"vectors", "bm25"} :
        /\ cmd' = [verb |-> "install", surface |-> s, interactive |-> interactive, mode |-> mode, dry |-> FALSE,
                   hosts |-> places, moved |-> {}]
        /\ steps' = Install!FlattenSeq([i \in DOMAIN places |-> Install!Ops("deploy", places[i], s)])
        /\ Install!Begin(None)
  BY Zenon, InstallBridge DEF Install!StartInstall
<1>2. cmd'.verb = "install" /\ cmd'.surface = s /\ cmd'.hosts = places /\ ~cmd'.dry
  <2>1. cmd'.verb = "install" /\ cmd'.surface = s /\ cmd'.hosts = places
    BY <1>1
  <2>2. ~cmd'.dry
    BY <1>1
  <2> QED BY <2>1, <2>2
<1>3. places \in Seq(Places) /\ DOMAIN places = 1..Len(places) /\ Len(places) \in Nat
      /\ \A i \in 1..Len(places) : places[i] \in Places
  <2>1. places \in Seq(Places)
    BY InstallAssumption
  <2> QED BY <2>1, LenProperties, ElementOfSeq
<1>4. steps' \in Seq(Ops)
  <2> DEFINE seqs == [i \in DOMAIN places |-> Install!Ops("deploy", places[i], s)]
  <2>1. \A i \in 1..Len(places) : Install!Ops("deploy", places[i], s) \in Seq(Ops)
    BY <1>3, OpsAre
  <2>2. seqs \in [1..Len(places) -> Seq(Ops)]
    BY <2>1, <1>3
  <2>3. seqs \in Seq(Seq(Ops))
    <3> HIDE DEF seqs
    <3> QED BY <2>2, <1>3
  <2>4. steps' = FlattenSeq(seqs)
    BY Zenon, <1>1, InstallBridge
  <2> HIDE DEF seqs
  <2> QED BY <2>3, <2>4, FlattenIs
<1>5. UNCHANGED <<config, files, marker>> /\ faulty' = FALSE /\ stage' = "artifacts"
  BY <1>1 DEF Install!Begin, Install!disk
<1>6. CommandOK'
  <2>1. ToSet(places) \subseteq Places
    BY <1>3 DEF ToSet
  <2> QED BY <1>2, <2>1 DEF CommandOK
<1>7. InstallTypes'
  BY <1>4, <1>5, <1>6 DEF InstallInv, InstallTypes, Slots
<1> QED BY <1>2, <1>7 DEF InstallInv, Updates, Honest

\* The hosts an update finds have each a surface.
LEMMA DetectedIs ==
    ASSUME InstallTypes
    PROVE  /\ Install!Detected \in [DOMAIN Install!Detected -> {"mcp", "cli"}]
           /\ DOMAIN Install!Detected \subseteq Places /\ IsFiniteSet(DOMAIN Install!Detected)
<1> DEFINE entries == {q \in Places : config[q] \in {"stale", "current"}}
<1>1. CASE marker \notin {None, Broken}
  <2>1. PICK S \in SUBSET Places : marker \in [S -> {"mcp", "cli"}]
    BY <1>1 DEF InstallTypes
  <2>2. Install!Detected = marker
    BY <1>1 DEF Install!Detected
  <2>3. IsFiniteSet(S)
    BY FS_Subset, InstallAssumption
  <2> QED BY <2>1, <2>2, <2>3
<1>2. CASE ~(marker \notin {None, Broken})
  <2>1. Install!Detected = [p \in entries |-> "mcp"]
    BY <1>2 DEF Install!Detected
  <2>2. entries \subseteq Places /\ IsFiniteSet(entries)
    BY FS_Subset, InstallAssumption
  <2> QED BY <2>1, <2>2
<1> QED BY <1>1, <1>2

\* update begins, with all it means to do in its list.
LEMMA UpdateBegins == ASSUME InstallInv, Install!StartUpdate PROVE InstallInv'
<1> DEFINE D == Install!Detected
           hosts == Install!SetToSeq(DOMAIN D)
           moved(s) == {p \in DOMAIN D : s # None /\ D[p] # s}
           opsOf(p, s, dry) == IF p \notin moved(s) THEN Install!Ops("refresh", p, D[p])
                               ELSE IF dry THEN <<>> ELSE Install!Migrate(p, D[p], s)
           refused(s, dry, found) == hosts = <<>> \/ (moved(s) # {} /\ ~dry /\ ~found)
<1>1. PICK s \in {"mcp", "cli"} \cup {None}, dry \in BOOLEAN, found \in BOOLEAN :
        /\ cmd' = [verb |-> "update", surface |-> s, interactive |-> FALSE, dry |-> dry, hosts |-> hosts,
                   detected |-> D, moved |-> moved(s)]
        /\ steps' = IF refused(s, dry, found) THEN <<>> ELSE Install!FlattenSeq([i \in DOMAIN hosts |-> opsOf(hosts[i], s, dry)])
        /\ Install!Begin(IF hosts = <<>> THEN 2 ELSE IF refused(s, dry, found) THEN 1 ELSE None)
  BY Zenon, InstallBridge DEF Install!StartUpdate
<1>2. InstallTypes
  BY DEF InstallInv
<1>3. D \in [DOMAIN D -> {"mcp", "cli"}] /\ DOMAIN D \subseteq Places /\ IsFiniteSet(DOMAIN D)
  BY <1>2, DetectedIs
<1>4. hosts \in Seq(DOMAIN D) /\ ToSet(hosts) = DOMAIN D
  <2> HIDE DEF D
  <2> QED BY <1>3, SetToSeqIs
<1>5. DOMAIN hosts = 1..Len(hosts) /\ Len(hosts) \in Nat /\ \A i \in 1..Len(hosts) : hosts[i] \in DOMAIN D
  <2> HIDE DEF D, hosts
  <2> QED BY <1>4, LenProperties, ElementOfSeq
<1> DEFINE M == moved(s)
           off == refused(s, dry, found)
           seqs == [i \in DOMAIN hosts |-> opsOf(hosts[i], s, dry)]
           plan(p) == IF p \notin M THEN Install!Ops("refresh", p, D[p]) ELSE IF dry THEN <<>> ELSE Install!Migrate(p, D[p], s)
<1>6. M \subseteq DOMAIN D /\ \A p \in M : s \in {"mcp", "cli"} /\ D[p] # s
  OBVIOUS
<1>7. /\ cmd'.verb = "update" /\ cmd'.surface = s /\ cmd'.hosts = hosts /\ cmd'.detected = D /\ cmd'.moved = M
      /\ cmd'.dry <=> dry
  <2> HIDE DEF D, hosts, moved, opsOf, refused
  <2>1. cmd'.verb = "update" /\ cmd'.surface = s /\ cmd'.hosts = hosts /\ cmd'.detected = D /\ cmd'.moved = moved(s)
    BY <1>1
  <2>2. cmd'.dry = dry
    BY <1>1
  <2> QED BY <2>1, <2>2
<1>8. /\ UNCHANGED <<config, files, marker, yaml, index>> /\ faulty' = FALSE
      /\ disk0' = IF cmd'.dry THEN Install!disk ELSE <<>>
      /\ off => stage' = "ended" /\ exit' \in {1, 2}
      /\ ~off => stage' = "artifacts"
  <2> DEFINE out == IF hosts = <<>> THEN 2 ELSE IF off THEN 1 ELSE None
  <2>1. Install!Begin(out)
    BY <1>1
  <2>2. off => out \in {1, 2} /\ out # None
    BY InstallAssumption
  <2>3. ~off => out = None
    BY DEF refused
  <2> HIDE DEF out, off
  <2>4. UNCHANGED <<config, files, marker, yaml, index>> /\ faulty' = FALSE /\ disk0' = (IF cmd'.dry THEN Install!disk ELSE <<>>)
    BY <2>1 DEF Install!Begin, Install!disk
  <2>5. exit' = out /\ stage' = IF out = None THEN "artifacts" ELSE "ended"
    BY <2>1 DEF Install!Begin
  <2> QED BY <2>2, <2>3, <2>4, <2>5
<1>9. ASSUME NEW p \in DOMAIN D
      PROVE  /\ plan(p) \in Seq(Ops)
             /\ ~dry => ToSet(plan(p)) = {op \in Ops : op.at = p /\ Planned(op)'}
  <2>1. p \in Places /\ D[p] \in {"mcp", "cli"}
    BY <1>3
  <2>2. \A op : Planned(op)' <=>
          /\ op.at \in DOMAIN D /\ op.kind \in Kinds(op.surface)
          /\ \/ op.do = "remove" /\ op.at \in M /\ op.surface = D[op.at]
             \/ op.do = "deploy" /\ op.at \in M /\ op.surface = s
             \/ op.do = "refresh" /\ op.at \notin M /\ op.surface = D[op.at]
    <3> HIDE DEF D, M, hosts
    <3> QED BY <1>4, <1>7 DEF Planned, Kinds
  <2>3. CASE p \notin M
    <3>1. plan(p) = Install!Ops("refresh", p, D[p])
      BY <2>3
    <3>2. plan(p) \in Seq(Ops) /\ ToSet(plan(p)) = {op \in Ops : op.do = "refresh" /\ op.at = p /\ op.surface = D[p] /\ op.kind \in Kinds(D[p])}
      <4> HIDE DEF plan, D, M
      <4> QED BY <2>1, <3>1, OpsAre
    <3>3. {op \in Ops : op.do = "refresh" /\ op.at = p /\ op.surface = D[p] /\ op.kind \in Kinds(D[p])} = {op \in Ops : op.at = p /\ Planned(op)'}
      <4> HIDE DEF plan, D, M
      <4> QED BY <2>2, <2>3
    <3> QED BY <3>2, <3>3
  <2>4. CASE p \in M /\ dry
    <3>1. plan(p) = <<>>
      BY <2>4
    <3> HIDE DEF plan
    <3> QED BY <3>1, <2>4
  <2>5. CASE p \in M /\ ~dry
    <3> DEFINE out == Install!Ops("remove", p, D[p])
               into == Install!Ops("deploy", p, s)
    <3>1. plan(p) = out \o into
      BY <2>5 DEF Install!Migrate
    <3>2. s \in {"mcp", "cli"}
      BY <1>6, <2>5
    <3>3. /\ out \in Seq(Ops) /\ ToSet(out) = {op \in Ops : op.do = "remove" /\ op.at = p /\ op.surface = D[p] /\ op.kind \in Kinds(D[p])}
          /\ into \in Seq(Ops) /\ ToSet(into) = {op \in Ops : op.do = "deploy" /\ op.at = p /\ op.surface = s /\ op.kind \in Kinds(s)}
      <4> HIDE DEF D, M
      <4> QED BY <2>1, <3>2, OpsAre
    <3>4. plan(p) \in Seq(Ops) /\ ToSet(plan(p)) = ToSet(out) \cup ToSet(into)
      <4> HIDE DEF plan, out, into
      <4> QED BY <3>1, <3>3, ToSetOfJoin
    <3>5. ToSet(out) \cup ToSet(into) = {op \in Ops : op.at = p /\ Planned(op)'}
      <4> HIDE DEF plan, out, into, D, M
      <4> QED BY <2>2, <2>5, <3>3
    <3> QED BY <3>4, <3>5
  <2> QED BY <2>3, <2>4, <2>5
<1>10. seqs \in Seq(Seq(Ops)) /\ DOMAIN seqs = 1..Len(hosts) /\ \A i \in 1..Len(hosts) : seqs[i] = plan(hosts[i])
  <2>1. seqs = [i \in DOMAIN hosts |-> plan(hosts[i])]
    BY DEF opsOf
  <2> HIDE DEF seqs, plan, D, hosts
  <2>2. seqs \in [1..Len(hosts) -> Seq(Ops)]
    BY <1>5, <1>9, <2>1
  <2> QED BY <2>1, <2>2, <1>5
<1>11. /\ steps' \in Seq(Ops) /\ (off => steps' = <<>>)
       /\ ~off /\ ~dry => ToSet(steps') = {op \in Ops : Planned(op)'}
  <2>1. FlattenSeq(seqs) \in Seq(Ops) /\ ToSet(FlattenSeq(seqs)) = UNION {ToSet(seqs[i]) : i \in DOMAIN seqs}
    <3> HIDE DEF seqs
    <3> QED BY <1>10, FlattenIs
  <2>2. steps' = IF off THEN <<>> ELSE FlattenSeq(seqs)
    BY Zenon, <1>1, InstallBridge
  <2>3. \A op : Planned(op)' => op.at \in DOMAIN D
    <3> HIDE DEF D, hosts
    <3> QED BY <1>4, <1>7 DEF Planned
  <2>4. ~dry => UNION {ToSet(seqs[i]) : i \in DOMAIN seqs} = {op \in Ops : Planned(op)'}
    <3> SUFFICES ASSUME ~dry PROVE UNION {ToSet(seqs[i]) : i \in DOMAIN seqs} = {op \in Ops : Planned(op)'}
      OBVIOUS
    <3> HIDE DEF seqs, plan, D, hosts
    <3>1. \A i \in 1..Len(hosts) : ToSet(seqs[i]) = {op \in Ops : op.at = hosts[i] /\ Planned(op)'}
      BY <1>5, <1>9, <1>10
    <3>2. ASSUME NEW op \in Ops, Planned(op)' PROVE \E i \in 1..Len(hosts) : op \in ToSet(seqs[i])
      <4>1. op.at \in ToSet(hosts)
        BY <2>3, <3>2, <1>4
      <4>2. PICK i \in 1..Len(hosts) : hosts[i] = op.at
        BY <4>1, <1>5 DEF ToSet
      <4> QED BY <4>2, <3>1, <3>2
    <3> QED BY <3>1, <3>2, <1>10
  <2> HIDE DEF seqs, off
  <2> QED BY <2>1, <2>2, <2>4
<1> HIDE DEF D, hosts, moved, M, off, seqs, plan, opsOf, refused
<1>12. InstallTypes'
  <2>1. CommandOK'
    <3>1. cmd'.detected \in [ToSet(cmd'.hosts) -> {"mcp", "cli"}] /\ cmd'.moved \subseteq ToSet(cmd'.hosts) /\ ToSet(cmd'.hosts) \subseteq Places
      BY <1>3, <1>4, <1>6, <1>7
    <3>2. \A p \in cmd'.moved : cmd'.surface \in {"mcp", "cli"} /\ cmd'.detected[p] # cmd'.surface
      BY <1>6, <1>7
    <3> QED BY <3>1, <3>2, <1>7 DEF CommandOK
  <2>2. stage' \in {"artifacts", "ended"}
    BY <1>8
  <2> QED BY <1>2, <1>8, <1>11, <2>1, <2>2 DEF InstallTypes, Slots
<1>13. Updates' /\ cmd'.dry => Install!disk' = disk0'
  BY <1>8 DEF Install!disk
<1>14. ASSUME Honest' PROVE ~off /\ ~dry /\ stage' = "artifacts"
  <2>1. ~cmd'.dry /\ (stage' # "ended" \/ exit' = 0)
    BY <1>14 DEF Honest
  <2> QED BY <2>1, <1>7, <1>8
<1>15. ASSUME Honest' PROVE StepsOK'
  <2>1. ToSet(steps') = {op \in Ops : Planned(op)'}
    BY <1>11, <1>14, <1>15
  <2> QED BY <2>1 DEF StepsOK, Ops
<1> QED BY <1>12, <1>13, <1>14, <1>15 DEF InstallInv, MarkerOK

\* The artifacts are done with, and the marker is written.
LEMMA MarkerIsWritten == ASSUME InstallInv, cmd # None, Install!WriteMarker PROVE InstallInv'
<1>1. /\ steps = <<>> /\ stage = "artifacts"
      /\ UNCHANGED <<config, files, yaml, index, cmd, steps, faulty, disk0>>
  BY DEF Install!WriteMarker
<1>2. InstallTypes /\ CommandOK
  BY DEF InstallInv, InstallTypes
<1>3. CommandOK'
  BY <1>1, <1>2 DEF CommandOK
<1>4. CASE critical
  <2>1. stage' = "ended" /\ exit' = 1 /\ UNCHANGED <<marker, unmarked>>
    BY <1>4 DEF Install!WriteMarker, Install!End
  <2>2. ~Honest'
    BY <2>1 DEF Honest
  <2>3. InstallTypes'
    BY <1>1, <1>2, <1>3, <2>1 DEF InstallTypes, Slots
  <2>4. Updates' /\ cmd'.dry => Install!disk' = disk0'
    BY <1>1, <2>1 DEF InstallInv, Updates, Install!disk
  <2> QED BY <2>2, <2>3, <2>4 DEF InstallInv
<1>5. CASE ~critical
  <2> DEFINE told == cmd.verb = "install" \/ (cmd.moved # {} /\ ~cmd.dry)
             new == [p \in Install!ToSet(cmd.hosts) |-> Install!SurfaceAfter(p)]
  <2>1. stage' = "marker" /\ exit' = exit
    BY <1>5 DEF Install!WriteMarker
  <2>2. IF told THEN (marker' = new /\ unmarked' = unmarked) \/ (unmarked' = TRUE /\ marker' = marker)
        ELSE marker' = marker /\ unmarked' = unmarked
    BY <1>5 DEF Install!WriteMarker
  <2>3. new \in [ToSet(cmd.hosts) -> {"mcp", "cli"}] /\ ToSet(cmd.hosts) \in SUBSET Places
    <3>1. Install!ToSet(cmd.hosts) = ToSet(cmd.hosts)
      BY InstallBridge
    <3>2. \A p \in ToSet(cmd.hosts) : Install!SurfaceAfter(p) \in {"mcp", "cli"}
      BY <1>2 DEF CommandOK, Install!SurfaceAfter
    <3>3. ToSet(cmd.hosts) \subseteq Places
      BY <1>2 DEF CommandOK
    <3> QED BY <3>1, <3>2, <3>3
  <2>4. Updates => new = [p \in ToSet(cmd.hosts) |-> SurfaceOf(p)]
    <3>1. Install!ToSet(cmd.hosts) = ToSet(cmd.hosts)
      BY InstallBridge
    <3>2. Updates => \A p : Install!SurfaceAfter(p) = SurfaceOf(p)
      BY DEF Updates, Install!SurfaceAfter, SurfaceOf
    <3> QED BY <3>1, <3>2
  <2> HIDE DEF new
  <2>5. marker' \notin {None, Broken} => \E S \in SUBSET Places : marker' \in [S -> {"mcp", "cli"}]
    <3>1. CASE marker' = new
      BY <2>3, <3>1
    <3>2. CASE marker' = marker
      BY <1>2, <3>2 DEF InstallTypes
    <3> QED BY <2>2, <3>1, <3>2
  <2>6. InstallTypes'
    BY <1>1, <1>2, <1>3, <2>1, <2>5 DEF InstallTypes, Slots
  <2>7. Updates' /\ cmd'.dry => Install!disk' = disk0'
    <3> SUFFICES ASSUME Updates, cmd.dry PROVE Install!disk' = disk0'
      BY <1>1 DEF Updates
    <3>1. ~told
      BY DEF Updates
    <3> QED BY <1>1, <2>2, <3>1 DEF InstallInv, Install!disk
  <2>8. ASSUME Honest' PROVE Honest /\ StepsOK' /\ MarkerOK'
    <3>1. Honest /\ StepsOK /\ ~cmd.dry /\ Updates
      BY <1>1, <2>8 DEF Honest, Updates, InstallInv
    <3>2. StepsOK'
      <4>1. \A o : (Planned(o)' <=> Planned(o)) /\ (Stands(o)' <=> Stands(o))
        BY <1>1 DEF Planned, Stands
      <4> QED BY <1>1, <3>1, <4>1 DEF StepsOK, Ops
    <3>3. ASSUME cmd'.moved # {}, ~unmarked' PROVE marker' = [p \in ToSet(cmd'.hosts) |-> SurfaceOf(p)']
      <4>1. marker' = new
        BY <1>1, <2>2, <3>1, <3>3
      <4>2. cmd' = cmd /\ \A p : SurfaceOf(p)' = SurfaceOf(p)
        BY <1>1 DEF SurfaceOf
      <4> QED BY <2>4, <3>1, <4>1, <4>2
    <3> QED BY <3>1, <3>2, <3>3 DEF MarkerOK
  <2> QED BY <1>1, <2>1, <2>6, <2>7, <2>8 DEF InstallInv
<1> QED BY <1>4, <1>5

\* Steps of the command that come after the marker, or end it.
LEMMA LaterKeeps ==
    ASSUME InstallInv, cmd # None,
           UNCHANGED <<config, files, marker, cmd, steps, faulty, unmarked, disk0>>,
           stage' \in {"index", "ended"},
           Updates /\ cmd.dry => yaml' = yaml /\ index' = index,
           Honest' => /\ Honest /\ stage # "artifacts"
                      /\ stage' = "ended" => ~faulty /\ (yaml' = "vectors" => index' \in {"absent", "whole"})
    PROVE  InstallInv'
<1>1. InstallTypes /\ CommandOK
  BY DEF InstallInv, InstallTypes
<1>2. CommandOK'
  BY <1>1 DEF CommandOK
<1>3. InstallTypes'
  BY <1>1, <1>2 DEF InstallTypes, Slots
<1>4. Updates' /\ cmd'.dry => Install!disk' = disk0'
  BY DEF InstallInv, Updates, Install!disk
<1>5. ASSUME Honest' PROVE StepsOK' /\ MarkerOK' /\ steps' = <<>>
  <2>1. Honest /\ stage # "artifacts" /\ StepsOK /\ MarkerOK /\ steps = <<>>
    BY <1>5 DEF InstallInv
  <2>2. StepsOK'
    <3>1. \A o : (Planned(o)' <=> Planned(o)) /\ (Stands(o)' <=> Stands(o))
      BY DEF Planned, Stands
    <3> QED BY <2>1, <3>1 DEF StepsOK, Ops
  <2>3. MarkerOK'
    <3>1. \A p : SurfaceOf(p)' = SurfaceOf(p)
      BY DEF SurfaceOf
    <3> QED BY <2>1, <3>1 DEF MarkerOK
  <2> QED BY <2>1, <2>2, <2>3
<1> QED BY <1>3, <1>4, <1>5 DEF InstallInv

LEMMA InstallInvBegins == Install!Init => InstallInv
<1> SUFFICES ASSUME Install!Init PROVE InstallInv
  OBVIOUS
<1>1. cmd = None /\ steps = <<>> /\ stage = "artifacts" /\ faulty = FALSE /\ marker = None
  BY DEF Install!Init
<1>2. config \in [Places -> Confs]
  BY DEF Install!Init, Confs
<1>3. files \in [Slots -> States]
  BY InstallBridge DEF Install!Init, Slots, States
<1>4. steps \in Seq(Ops)
  BY <1>1
<1>5. InstallTypes
  BY <1>1, <1>2, <1>3, <1>4 DEF InstallTypes, CommandOK
<1> QED BY <1>1, <1>5 DEF InstallInv, Updates, Honest

LEMMA InstallInvStays == InstallInv /\ [Install!Next]_Install!vars => InstallInv'
<1> SUFFICES ASSUME InstallInv, [Install!Next]_Install!vars PROVE InstallInv'
  OBVIOUS
<1>0. InstallTypes
  BY DEF InstallInv
<1>1. CASE Install!StartInstall
  BY <1>1, InstallBegins
<1>2. CASE Install!StartUpdate
  BY <1>2, UpdateBegins
<1>3. CASE Install!ArtifactFails \/ Install!HandleEntry \/ Install!HandleFile
  <2>1. cmd # None
    BY <1>3 DEF Install!ArtifactFails, Install!HandleEntry, Install!HandleFile, Install!Running
  <2> QED BY <1>3, <2>1, HandlingKeeps
<1>4. CASE Install!Abort
  <2>1. /\ cmd # None /\ stage' = "ended" /\ exit' = 2
        /\ UNCHANGED <<config, files, marker, yaml, index, cmd, steps, faulty, unmarked, disk0>>
    BY <1>4 DEF Install!Abort, Install!Running, Install!End, Install!disk
  <2>2. ~Honest'
    BY <2>1 DEF Honest
  <2> QED BY <2>1, <2>2, LaterKeeps
<1>5. CASE Install!WriteMarker
  <2>1. cmd # None
    BY <1>5 DEF Install!WriteMarker, Install!Running
  <2> QED BY <1>5, <2>1, MarkerIsWritten
<1>6. CASE Install!WriteYaml
  <2>1. /\ cmd # None /\ stage = "marker" /\ stage' = "index"
        /\ UNCHANGED <<config, files, marker, index, cmd, steps, faulty, unmarked, exit, disk0>>
        /\ Updates => yaml' = yaml
    BY <1>6 DEF Install!WriteYaml, Install!Running, Updates
  <2>2. Honest' => Honest
    BY <2>1 DEF Honest, Updates
  <2> QED BY <2>1, <2>2, LaterKeeps
<1>7. CASE Install!InstallIndex
  <2>1. /\ cmd # None /\ cmd.verb = "install" /\ stage' = "ended"
        /\ UNCHANGED <<config, files, marker, yaml, cmd, steps, faulty, unmarked, disk0>>
    BY <1>7 DEF Install!InstallIndex, Install!Running, Install!End
  <2>2. ~Updates /\ ~Honest'
    BY <2>1 DEF Honest, Updates
  <2> QED BY <2>1, <2>2, LaterKeeps
<1>8. CASE Install!UpdateIndex
  <2>1. /\ cmd # None /\ stage = "index" /\ stage' = "ended"
        /\ UNCHANGED <<config, files, marker, yaml, cmd, steps, faulty, unmarked, disk0>>
    BY <1>8 DEF Install!UpdateIndex, Install!Running, Install!End
  <2>2. exit' = 0 => /\ ~faulty
                     /\ ~cmd.dry /\ yaml = "vectors" => index' \in {"absent", "whole"}
    BY <1>8, InstallAssumption DEF Install!UpdateIndex, Install!End
  <2>3. cmd.dry => index' = index
    BY <1>8 DEF Install!UpdateIndex
  <2>4. Honest' => Honest /\ exit' = 0 /\ ~cmd.dry
    BY <2>1 DEF Honest, Updates
  <2> QED BY <2>1, <2>2, <2>3, <2>4, LaterKeeps
<1>9. CASE Install!Killed \/ Install!Leave
  <2>1. /\ cmd' = None /\ steps' = <<>> /\ stage' = "artifacts" /\ faulty' = FALSE
        /\ UNCHANGED <<config, files, marker>>
    BY <1>9 DEF Install!Killed, Install!Leave, Install!Clear, Install!disk
  <2>2. ~Updates' /\ ~Honest' /\ CommandOK'
    BY <2>1 DEF Updates, Honest, CommandOK
  <2>3. steps' \in Seq(Ops)
    BY <2>1
  <2>4. InstallTypes'
    BY <1>0, <2>1, <2>2, <2>3 DEF InstallTypes, Slots
  <2> QED BY <2>2, <2>4 DEF InstallInv
<1>10. CASE Install!Upgrade
  <2>1. cmd = None /\ UNCHANGED <<cmd, steps, stage, faulty, marker>>
    BY <1>10 DEF Install!Upgrade, Install!Event, Install!run
  <2>2. ~Updates' /\ ~Honest' /\ CommandOK'
    BY <2>1 DEF Updates, Honest, CommandOK
  <2>3. files' \in [Slots -> States]
    <3>1. files' = [a \in DOMAIN files |-> IF files[a] = "current" THEN "other" ELSE files[a]]
      BY <1>10 DEF Install!Upgrade
    <3> QED BY <1>0, <3>1 DEF InstallTypes, States
  <2>4. config' \in [Places -> Confs]
    <3>1. config' = [p \in Places |-> IF config[p] = "current" THEN "stale" ELSE config[p]]
      BY <1>10 DEF Install!Upgrade
    <3> QED BY <1>0, <3>1 DEF InstallTypes, Confs
  <2> QED BY <1>0, <2>1, <2>2, <2>3, <2>4 DEF InstallInv, InstallTypes, Slots
<1>11. CASE Install!Edit
  <2>1. cmd = None /\ UNCHANGED <<cmd, steps, stage, faulty>>
    BY <1>11 DEF Install!Edit, Install!Event, Install!run
  <2>2. ~Updates' /\ ~Honest' /\ CommandOK'
    BY <2>1 DEF Updates, Honest, CommandOK
  <2>3. files' \in [Slots -> States]
    BY <1>0, <1>11 DEF Install!Edit, InstallTypes, States
  <2>4. config' \in [Places -> Confs]
    BY <1>0, <1>11 DEF Install!Edit, InstallTypes, Confs
  <2>5. marker' = marker \/ marker' \in {None, Broken}
    BY <1>11 DEF Install!Edit
  <2> QED BY <1>0, <2>1, <2>2, <2>3, <2>4, <2>5 DEF InstallInv, InstallTypes, Slots
<1>12. CASE UNCHANGED Install!vars
  <2>1. UNCHANGED <<config, files, marker, yaml, index, cmd, steps, stage, faulty, unmarked, exit, disk0>>
    BY <1>12 DEF Install!vars, Install!disk, Install!run
  <2>2. CommandOK'
    BY <1>0, <2>1 DEF InstallTypes, CommandOK
  <2>3. InstallTypes'
    BY <1>0, <2>1, <2>2 DEF InstallTypes, Slots
  <2>4. \A o : (Planned(o)' <=> Planned(o)) /\ (Stands(o)' <=> Stands(o))
    BY <2>1 DEF Planned, Stands
  <2>5. StepsOK => StepsOK'
    BY <2>1, <2>4 DEF StepsOK, Ops
  <2>6. MarkerOK => MarkerOK'
    <3>1. \A p : SurfaceOf(p)' = SurfaceOf(p)
      BY <2>1 DEF SurfaceOf
    <3> QED BY <2>1, <3>1 DEF MarkerOK
  <2>7. Honest' => Honest
    BY <2>1 DEF Honest, Updates
  <2>8. Updates' /\ cmd'.dry => Install!disk' = disk0'
    BY <2>1 DEF InstallInv, Updates, Install!disk
  <2> QED BY <2>1, <2>3, <2>5, <2>6, <2>7, <2>8 DEF InstallInv
<1> QED BY <1>1, <1>2, <1>3, <1>4, <1>5, <1>6, <1>7, <1>8, <1>9, <1>10, <1>11, <1>12 DEF Install!Next

\* An update that exits with 0 has brought every host it found to its surface, and a dry
\* run changes nothing, whatever was installed, failed or killed before (installer.py's
\* run_update, Install!UpdateTellsTruth).
THEOREM UpdatesTellTruth ==
    /\ Install!Spec => []Install!UpdateTellsTruth
    /\ SetupSpec => []UpdateTellsTruth
<1> DEFINE Inv == part = "install" => InstallInv
<1>1. Install!Spec => []Install!UpdateTellsTruth
  BY InstallInvBegins, InstallInvStays, WholeIsTold, PTL DEF Install!Spec
<1>2. SetupInit => Inv
  BY InstallInvBegins DEF SetupInit
<1>3. Inv /\ [SetupNext]_setupVars => Inv'
  <2> SUFFICES ASSUME InstallInv, part = "install", [SetupNext]_setupVars PROVE InstallInv'
    BY DEF SetupNext, setupVars
  <2>1. [Install!Next]_Install!vars
    BY DEF SetupNext, setupVars, installVars, Install!vars, Install!disk, Install!run
  <2> QED BY <2>1, InstallInvStays
<1>4. Inv => UpdateTellsTruth
  BY WholeIsTold DEF UpdateTellsTruth
<1>5. SetupSpec => []UpdateTellsTruth
  BY <1>2, <1>3, <1>4, PTL DEF SetupSpec
<1> QED BY <1>1, <1>5

----------------------------------------------------------------------------
(* The settings of the project: sequences and values *)

\* The first n of a sequence.
LEMMA FirstIs ==
    ASSUME NEW S, NEW t \in Seq(S), NEW n \in Int, n <= Len(t)
    PROVE  /\ SubSeq(t, 1, n) \in Seq(S) /\ Len(SubSeq(t, 1, n)) = (IF 1 <= n THEN n ELSE 0)
           /\ \A i \in 1..n : SubSeq(t, 1, n)[i] = t[i]
<1>1. Len(t) \in Nat /\ \A i \in 1..Len(t) : t[i] \in S
  BY LenProperties, ElementOfSeq
<1>2. 1 \in Int /\ n \in Int /\ \A i \in 1..n : t[i] \in S
  BY <1>1
<1>3. /\ SubSeq(t, 1, n) \in Seq(S) /\ Len(SubSeq(t, 1, n)) = (IF 1 <= n THEN n - 1 + 1 ELSE 0)
      /\ \A i \in 1..(n - 1 + 1) : SubSeq(t, 1, n)[i] = t[1 + i - 1]
  BY <1>2, SubSeqProperties
<1>4. n - 1 + 1 = n /\ \A i \in 1..n : 1 + i - 1 = i
  OBVIOUS
<1> QED BY <1>3, <1>4

\* The first m of the first n.
LEMMA FirstOfFirst ==
    ASSUME NEW S, NEW t \in Seq(S), NEW m \in Nat, NEW n \in Nat, m <= n, n <= Len(t)
    PROVE  SubSeq(SubSeq(t, 1, n), 1, m) = SubSeq(t, 1, m)
<1> DEFINE u == SubSeq(t, 1, n)
           x == SubSeq(u, 1, m)
           y == SubSeq(t, 1, m)
<1>1. Len(t) \in Nat /\ m \in Int /\ n \in Int /\ m <= Len(t) /\ (IF 1 <= n THEN n ELSE 0) = n /\ (IF 1 <= m THEN m ELSE 0) = m
  BY LenProperties
<1>2. u \in Seq(S) /\ Len(u) = n /\ \A i \in 1..n : u[i] = t[i]
  BY <1>1, FirstIs
<1>3. y \in Seq(S) /\ Len(y) = m /\ \A i \in 1..m : y[i] = t[i]
  BY <1>1, FirstIs
<1> HIDE DEF u
<1>4. x \in Seq(S) /\ Len(x) = m /\ \A i \in 1..m : x[i] = u[i]
  BY <1>1, <1>2, FirstIs
<1> HIDE DEF x, y
<1>5. \A i \in 1..m : x[i] = y[i]
  BY <1>2, <1>3, <1>4
<1>6. x = y
  BY <1>3, <1>4, <1>5, SeqEqual
<1> QED BY <1>6 DEF x, y, u

\* The directories above one, and the one itself, are what it begins with.
LEMMA PrefixIs ==
    ASSUME NEW S, NEW t \in Seq(S), NEW d \in Configs!PrefixesOf(t)
    PROVE  d \in Seq(S) /\ Len(d) \in Nat /\ Len(d) <= Len(t) /\ d = SubSeq(t, 1, Len(d)) /\ Configs!IsPrefix(d, t)
<1>1. PICK n \in 0..Len(t) : d = SubSeq(t, 1, n)
  BY DEF Configs!PrefixesOf
<1>2. Len(t) \in Nat /\ n \in Int /\ n <= Len(t) /\ n \in Nat /\ (IF 1 <= n THEN n ELSE 0) = n
  BY LenProperties
<1>3. d \in Seq(S) /\ Len(d) = n
  BY <1>1, <1>2, FirstIs
<1>4. SubSeq(d, 1, Len(d)) = d
  BY <1>3, SubSeqFull
<1> QED BY <1>1, <1>2, <1>3, <1>4 DEF Configs!IsPrefix

\* And the other way round.
LEMMA PrefixOf ==
    ASSUME NEW S, NEW s \in Seq(S), NEW t \in Seq(S), Configs!IsPrefix(s, t)
    PROVE  s \in Configs!PrefixesOf(t)
<1>1. Len(s) \in 0..Len(t) /\ SubSeq(s, 1, Len(s)) = s /\ SubSeq(s, 1, Len(s)) = SubSeq(t, 1, Len(s))
  BY LenProperties, SubSeqFull DEF Configs!IsPrefix
<1> QED BY <1>1 DEF Configs!PrefixesOf

\* Of two of them the shorter lies above the longer.
LEMMA Nested ==
    ASSUME NEW S, NEW t \in Seq(S), NEW d \in Configs!PrefixesOf(t), NEW e \in Configs!PrefixesOf(t)
    PROVE  (Len(d) < Len(e) => Configs!IsStrictPrefix(d, e)) /\ (Len(d) = Len(e) => d = e)
<1>1. /\ d \in Seq(S) /\ Len(d) \in Nat /\ Len(d) <= Len(t) /\ d = SubSeq(t, 1, Len(d))
      /\ e \in Seq(S) /\ Len(e) \in Nat /\ Len(e) <= Len(t) /\ e = SubSeq(t, 1, Len(e))
  BY PrefixIs
<1>2. ASSUME Len(d) < Len(e) PROVE Configs!IsStrictPrefix(d, e)
  <2> DEFINE m == Len(d)
             n == Len(e)
  <2>1. m \in Nat /\ n \in Nat /\ m <= n /\ n <= Len(t)
    BY <1>1, <1>2
  <2>2. SubSeq(SubSeq(t, 1, n), 1, m) = SubSeq(t, 1, m)
    <3> HIDE DEF m, n
    <3> QED BY <2>1, FirstOfFirst
  <2>3. SubSeq(e, 1, Len(d)) = SubSeq(t, 1, Len(d))
    BY <1>1, <2>2
  <2>4. SubSeq(d, 1, Len(d)) = d
    BY <1>1, SubSeqFull
  <2>5. d # e
    BY <1>1, <1>2
  <2> QED BY <1>1, <1>2, <2>3, <2>4, <2>5 DEF Configs!IsStrictPrefix, Configs!IsPrefix
<1> QED BY <1>1, <1>2

\* The tier is the first that says something.
LEMMA TierIs ==
    ASSUME NEW t
    PROVE  Configs!Tier(t) = IF t[1] # None THEN 1 ELSE IF t[2] # None THEN 2 ELSE IF t[3] # None THEN 3 ELSE 4
<1> DEFINE S == {4} \cup {i \in 1..3 : t[i] # None}
           m == IF t[1] # None THEN 1 ELSE IF t[2] # None THEN 2 ELSE IF t[3] # None THEN 3 ELSE 4
<1>1. m \in S /\ S \subseteq Int /\ \A y \in S : m <= y
  OBVIOUS
<1>2. Configs!Tier(t) = CHOOSE x \in S : \A y \in S : x =< y
  BY DEF Configs!Tier, Configs!Min
<1> HIDE DEF m, S
<1>3. \A x \in S : (\A y \in S : x =< y) => x = m
  BY <1>1
<1>4. (CHOOSE x \in S : \A y \in S : x =< y) = m
  BY <1>1, <1>3
<1> QED BY <1>2, <1>4 DEF m

\* A path that was put behind a directory is taken as it is.
LEMMA BasedIs ==
    ASSUME NEW base \in Directories, NEW v \in PathValues
    PROVE  Configs!Based(base, v) \in PathValues /\ ~Configs!Based(base, v).rel /\ Configs!Based(base, v).path \in Directories
<1> DEFINE n == Len(base) - v.up
<1>1. v.rel \in BOOLEAN /\ v.up \in Nat /\ v.path \in Directories
  BY DEF PathValues
<1>2. Len(base) \in Nat /\ n \in Int /\ n <= Len(base)
  BY <1>1, LenProperties DEF Directories
<1>3. SubSeq(base, 1, n) \in Directories
  <2> HIDE DEF n
  <2> QED BY <1>2, FirstIs DEF Directories
<1>4. SubSeq(base, 1, n) \o v.path \in Directories
  <2> HIDE DEF n
  <2> QED BY <1>1, <1>3, ConcatProperties DEF Directories
<1>5. CASE v.rel
  <2>1. Configs!Based(base, v) = [rel |-> FALSE, up |-> 0, path |-> SubSeq(base, 1, n) \o v.path]
    BY <1>5 DEF Configs!Based
  <2> QED BY <1>4, <2>1 DEF PathValues
<1>6. CASE ~v.rel
  BY <1>1, <1>6 DEF Configs!Based
<1> QED BY <1>1, <1>5, <1>6

LEMMA BasedStays == ASSUME NEW base, NEW v, ~v.rel PROVE Configs!Based(base, v) = v
BY DEF Configs!Based

HasIn(ys, d)   == d \in DOMAIN ys /\ ys[d] # None
SaidIn(ys, d)  == IF HasIn(ys, d) THEN ys[d] ELSE Configs!Unset
FoundIn(ys, c) ==
    [dir |-> c, said |-> SaidIn(ys, c),
     root |-> IF SaidIn(ys, c)["source_root"] # None THEN Configs!Based(c, SaidIn(ys, c)["source_root"]).path ELSE c]
Bare      == [cwd |-> <<>>, flags |-> Configs!Unset, env |-> Configs!Unset]
At(ys, c) == Configs!SettingsAt(Bare, FoundIn(ys, c))
RootOf(s) == s.by["source_root"].path

\* The nearest anchor is discovered.
LEMMA DiscoverIs ==
    ASSUME NEW cwd \in Directories, NEW d \in Configs!PrefixesOf(cwd),
           Configs!IsPrefix(Home, cwd) => Configs!IsPrefix(Home, d), Configs!Anchors(d),
           \A e \in Configs!PrefixesOf(cwd) : Configs!IsStrictPrefix(d, e) => ~Configs!Anchors(e)
    PROVE  Configs!Discover(cwd) = d
<1> DEFINE up    == {e \in Configs!PrefixesOf(cwd) : Configs!IsPrefix(Home, cwd) => Configs!IsPrefix(Home, e)}
           found == {e \in up : Configs!Anchors(e)}
           Nearest(x) == \A e \in found : Len(e) <= Len(x)
<1>1. Configs!Discover(cwd) = IF found = {} THEN cwd ELSE CHOOSE x \in found : Nearest(x)
  BY Zenon DEF Configs!Discover
<1>2. d \in found
  OBVIOUS
<1>3. \A e \in found : e \in Configs!PrefixesOf(cwd) /\ ~Configs!IsStrictPrefix(d, e)
  OBVIOUS
<1>4. ASSUME NEW e \in found PROVE Len(e) \in Nat /\ Len(d) \in Nat /\ ~(Len(d) < Len(e)) /\ (Len(d) = Len(e) => d = e)
  BY <1>3, PrefixIs, Nested DEF Directories
<1>5. Nearest(d)
  BY <1>4
<1>6. ASSUME NEW x \in found, Nearest(x) PROVE x = d
  BY <1>2, <1>4, <1>6
<1> HIDE DEF found
<1>7. (CHOOSE x \in found : Nearest(x)) = d
  <2> DEFINE z == CHOOSE x \in found : Nearest(x)
  <2>1. z \in found /\ Nearest(z)
    BY <1>2, <1>5
  <2> QED BY <2>1, <1>6
<1> QED BY <1>1, <1>2, <1>7

\* Whatever is discovered is a directory.
LEMMA DiscoverType == ASSUME NEW cwd \in Directories PROVE Configs!Discover(cwd) \in Directories
<1> DEFINE up    == {e \in Configs!PrefixesOf(cwd) : Configs!IsPrefix(Home, cwd) => Configs!IsPrefix(Home, e)}
           found == {e \in up : Configs!Anchors(e)}
           Nearest(x) == \A e \in found : Len(e) <= Len(x)
           T == {Len(cwd) - Len(e) : e \in found}
<1>1. Configs!Discover(cwd) = IF found = {} THEN cwd ELSE CHOOSE x \in found : Nearest(x)
  BY Zenon DEF Configs!Discover
<1>2. ASSUME NEW e \in found PROVE e \in Directories /\ Len(e) \in Nat /\ Len(e) <= Len(cwd)
  <2>1. e \in Configs!PrefixesOf(cwd)
    OBVIOUS
  <2> QED BY <2>1, PrefixIs DEF Directories
<1>3. Len(cwd) \in Nat
  BY LenProperties DEF Directories
<1> HIDE DEF found
<1>4. CASE found = {}
  BY <1>1, <1>4
<1>5. CASE found # {}
  <2>1. T \subseteq Nat /\ T # {}
    BY <1>2, <1>3, <1>5
  <2>2. PICK m \in T : \A y \in T : m <= y
    <3> HIDE DEF T
    <3> QED BY <2>1, LeastNumber
  <2>3. PICK x \in found : m = Len(cwd) - Len(x)
    OBVIOUS
  <2>4. ASSUME NEW e \in found PROVE Len(e) <= Len(x)
    <3>1. m <= Len(cwd) - Len(e)
      BY <2>2
    <3> QED BY <1>2, <1>3, <2>3, <3>1
  <2>5. (CHOOSE y \in found : Nearest(y)) \in found
    BY <2>4
  <2> QED BY <1>1, <1>2, <1>5, <2>5
<1> QED BY <1>4, <1>5

\* There is one tree per directory that its YAML can speak of.
LEMMA FoundType ==
    ASSUME ConfigAssumption, NEW ys \in YamlSets, NEW c \in Directories
    PROVE  /\ SaidIn(ys, c)["source_root"] \in PathValues \cup {None} /\ FoundIn(ys, c).root \in Directories
           /\ (~HasIn(ys, c) => FoundIn(ys, c).root = c)
<1>1. "source_root" \in Configs!Paths /\ "source_root" \in DOMAIN Default
  BY DEF ConfigAssumption, Configs!Paths
<1>2. ~HasIn(ys, c) => SaidIn(ys, c)["source_root"] = None
  BY <1>1 DEF SaidIn, Configs!Unset, Configs!Keys
<1>3. HasIn(ys, c) => SaidIn(ys, c)["source_root"] \in PathValues \cup {None}
  <2>1. HasIn(ys, c) => Gives(ys[c])
    BY DEF ConfigAssumption, HasIn
  <2> QED BY <1>1, <2>1 DEF SaidIn, Gives
<1>4. SaidIn(ys, c)["source_root"] \in PathValues => Configs!Based(c, SaidIn(ys, c)["source_root"]).path \in Directories
  BY BasedIs
<1> QED BY <1>2, <1>3, <1>4 DEF FoundIn

\* What is to be read of the settings, key by key.
LEMMA SettingIs ==
    ASSUME ConfigAssumption, NEW p, NEW found
    PROVE  /\ DOMAIN Configs!SettingsAt(p, found) = Configs!Keys
           /\ Configs!SettingsAt(p, found)["source_root"] = [rel |-> FALSE, up |-> 0, path |-> found.root]
           /\ \A key \in {"index_dir", "embedding_model"} :
                Configs!SettingsAt(p, found)[key] = Configs!Placed(Configs!Tiers(p, found.said, key), found)
           /\ \A key \in {"embedding_device", "retrieval", "language", "debounce_ms"} :
                Configs!SettingsAt(p, found)[key] = Configs!Pick(Configs!Tiers(p, found.said, key), key)
<1>1. Configs!Keys = {"source_root", "index_dir", "embedding_model", "embedding_device", "retrieval", "language", "debounce_ms"}
  BY DEF ConfigAssumption, Configs!Keys, Configs!Paths
<1>2. \A key \in Configs!Keys : Configs!SettingsAt(p, found)[key] = Configs!Setting(key, Configs!Tiers(p, found.said, key), found)
  BY DEF Configs!SettingsAt
<1>3. \A t : Configs!Setting("source_root", t, found) = [rel |-> FALSE, up |-> 0, path |-> found.root]
  BY DEF Configs!Setting
<1>4. \A t : \A key \in {"index_dir", "embedding_model"} : Configs!Setting(key, t, found) = Configs!Placed(t, found)
  BY DEF Configs!Setting
<1>5. \A t : \A key \in {"embedding_device", "retrieval", "language", "debounce_ms"} : Configs!Setting(key, t, found) = Configs!Pick(t, key)
  BY DEF Configs!Setting
<1>6. DOMAIN Configs!SettingsAt(p, found) = Configs!Keys
  BY DEF Configs!SettingsAt
<1> QED BY <1>1, <1>2, <1>3, <1>4, <1>5, <1>6

\* The tree that settings name.
LEMMA RootIs == ASSUME ConfigAssumption, NEW ys, NEW c PROVE At(ys, c)["source_root"].path = FoundIn(ys, c).root
<1>1. Configs!SettingsAt(Bare, FoundIn(ys, c))["source_root"] = [rel |-> FALSE, up |-> 0, path |-> FoundIn(ys, c).root]
  BY SettingIs
<1> QED BY <1>1 DEF At

\* Who sets nothing gets what is found where its YAML is looked for.
LEMMA PlainIs ==
    ASSUME ConfigAssumption, NEW p, p.flags = Configs!Unset, p.env = Configs!Unset
    PROVE  /\ Configs!Explicit(p) = None
           /\ Configs!ConfigDir(p) = Configs!Effective(Configs!Discover(p.cwd))
           /\ Configs!Settings(p) = At(layers, Configs!ConfigDir(p))
<1>1. "source_root" \in DOMAIN Default
  BY DEF ConfigAssumption, Configs!Paths
<1>2. Configs!Explicit(p) = None
  BY <1>1 DEF Configs!Explicit, Configs!Unset, Configs!Keys
<1>3. Configs!Located(p) = FoundIn(layers, Configs!ConfigDir(p))
  <2>1. \A d : Configs!Said(d) = SaidIn(layers, d)
    BY Zenon DEF Configs!Said, SaidIn, Configs!HasYaml, HasIn
  <2>2. Configs!Located(p) = Configs!LocatedAt(Configs!ConfigDir(p), None)
    BY <1>2 DEF Configs!Located
  <2> QED BY <2>1, <2>2 DEF Configs!LocatedAt, FoundIn
<1>4. \A said, key : Configs!Tiers(p, said, key) = Configs!Tiers(Bare, said, key)
  BY DEF Configs!Tiers, Bare
<1>5. \A f : Configs!SettingsAt(p, f) = Configs!SettingsAt(Bare, f)
  BY <1>4 DEF Configs!SettingsAt
<1>6. Configs!Settings(p) = At(layers, Configs!ConfigDir(p))
  BY <1>3, <1>5 DEF Configs!Settings, At
<1> QED BY <1>2, <1>6 DEF Configs!ConfigDir

\* From a bare index to the YAML it points to, if that is there.
LEMMA EffectiveIs ==
    ASSUME NEW d
    PROVE  \/ /\ ~HasIn(layers, d) /\ Configs!HasIndex(d) /\ HasIn(layers, stores[Append(d, IndexName)].pointer)
              /\ Configs!Effective(d) = stores[Append(d, IndexName)].pointer
           \/ /\ HasIn(layers, d) \/ ~Configs!HasIndex(d) \/ stores[Append(d, IndexName)].pointer = None
                 \/ ~HasIn(layers, stores[Append(d, IndexName)].pointer)
              /\ Configs!Effective(d) = d
<1> DEFINE target == IF Configs!HasIndex(d) THEN stores[Append(d, IndexName)].pointer ELSE None
<1>1. \A e : Configs!HasYaml(e) <=> HasIn(layers, e)
  BY Zenon DEF Configs!HasYaml, HasIn
<1>2. Configs!Effective(d) = IF ~Configs!HasYaml(d) /\ target # None /\ Configs!HasYaml(target) THEN target ELSE d
  BY Zenon DEF Configs!Effective
<1> QED BY <1>1, <1>2

\* And that is a directory.
LEMMA EffectiveType ==
    ASSUME ConfigAssumption, layers \in YamlSets, NEW d \in Directories
    PROVE  Configs!Effective(d) \in Directories
<1>1. \A e : HasIn(layers, e) => e \in Directories
  BY DEF ConfigAssumption, HasIn
<1> QED BY <1>1, EffectiveIs

----------------------------------------------------------------------------
\* What a build that is steady has left.
Sound(i, s) ==
    /\ s.config \in Directories /\ s.by = At(s.yaml, s.config)
    /\ i = Append(RootOf(s), IndexName)
       => s.by = At(s.yaml, IF HasIn(s.yaml, s.pointer) THEN s.pointer ELSE RootOf(s))
Steadily(ys, ss) == ys \in YamlSets /\ \A i \in DOMAIN ss : ss[i].steady => Sound(i, ss[i])
ConfigInv == Steadily(layers, stores)

\* Whoever is in the tree finds the index and its settings.
LEMMA IndexIsThere == ASSUME ConfigAssumption, ConfigInv PROVE Configs!IndexIsFound
<1> SUFFICES ASSUME NEW i \in DOMAIN stores, stores[i].steady, stores[i].yaml = layers,
                    i = Append(RootOf(stores[i]), IndexName),
                    HasIn(layers, RootOf(stores[i])) => stores[i].config = RootOf(stores[i]),
                    RootOf(stores[i]) = Home => HasIn(layers, Home),
                    NEW cwd \in WorkDirs, Configs!IsPrefix(RootOf(stores[i]), cwd),
                    Configs!IsPrefix(Home, cwd) => Configs!IsPrefix(Home, RootOf(stores[i])),
                    \A d \in Configs!PrefixesOf(cwd) :
                        Configs!IsStrictPrefix(RootOf(stores[i]), d) => ~Configs!HasYaml(d) /\ ~Configs!HasIndex(d)
             PROVE  Configs!Settings([cwd |-> cwd, flags |-> Configs!Unset, env |-> Configs!Unset]) = stores[i].by
  BY Zenon DEF Configs!IndexIsFound, RootOf, HasIn, Configs!HasYaml
<1> DEFINE s    == stores[i]
           root == RootOf(s)
           q    == [cwd |-> cwd, flags |-> Configs!Unset, env |-> Configs!Unset]
<1>1. layers \in YamlSets /\ Sound(i, s)
  BY DEF ConfigInv, Steadily
<1>2. s.config \in Directories /\ s.by = At(layers, s.config)
  BY <1>1 DEF Sound
<1>3. s.by = At(layers, IF HasIn(layers, s.pointer) THEN s.pointer ELSE root)
  BY <1>1 DEF Sound
<1>4. root \in Directories /\ cwd \in Directories
  BY <1>1, <1>2, RootIs, FoundType DEF RootOf, ConfigAssumption
<1>5. root \in Configs!PrefixesOf(cwd)
  BY <1>4, PrefixOf DEF Directories
<1>6. Configs!HasIndex(root)
  BY DEF Configs!HasIndex
<1>7. Configs!Anchors(root)
  BY <1>6 DEF Configs!Anchors, Configs!HasYaml, HasIn
<1>8. \A e \in Configs!PrefixesOf(cwd) : Configs!IsStrictPrefix(root, e) => ~Configs!Anchors(e)
  BY DEF Configs!Anchors
<1>9. Configs!Discover(cwd) = root
  <2> HIDE DEF root
  <2>1. Configs!IsPrefix(Home, cwd) => Configs!IsPrefix(Home, root)
    BY DEF root
  <2> QED BY <1>4, <1>5, <1>7, <1>8, <2>1, DiscoverIs
<1>10. Configs!ConfigDir(q) = Configs!Effective(root) /\ Configs!Settings(q) = At(layers, Configs!ConfigDir(q))
  BY <1>9, PlainIs
<1>11. stores[Append(root, IndexName)].pointer = s.pointer
  OBVIOUS
<1> HIDE DEF root
<1>12. CASE HasIn(layers, root)
  <2>1. Configs!Effective(root) = root
    BY <1>12, EffectiveIs
  <2>2. s.config = root
    BY <1>12 DEF root
  <2> QED BY <1>2, <1>10, <2>1, <2>2
<1>13. CASE ~HasIn(layers, root) /\ HasIn(layers, s.pointer)
  <2>1. s.pointer # None
    BY <1>1, <1>13 DEF HasIn, ConfigAssumption
  <2>2. Configs!Effective(root) = s.pointer
    BY <1>6, <1>11, <1>13, <2>1, EffectiveIs
  <2> QED BY <1>3, <1>10, <1>13, <2>2
<1>14. CASE ~HasIn(layers, root) /\ ~HasIn(layers, s.pointer)
  <2>1. Configs!Effective(root) = root
    BY <1>11, <1>14, EffectiveIs
  <2> QED BY <1>3, <1>10, <1>14, <2>1
<1> QED BY <1>12, <1>13, <1>14

\* Another index keeps what it is.
LEMMA WriteStays ==
    ASSUME ConfigAssumption, ConfigInv, NEW i0, NEW s0, s0.steady => Sound(i0, s0),
           layers' = layers, stores' = [i \in DOMAIN stores \cup {i0} |-> IF i = i0 THEN s0 ELSE stores[i]]
    PROVE  ConfigInv'
<1>1. \A i \in DOMAIN stores' : stores'[i].steady => Sound(i, stores'[i])
  BY DEF ConfigInv, Steadily
<1>2. Steadily(layers', stores')
  BY <1>1 DEF ConfigInv, Steadily
<1> QED BY <1>2 DEF ConfigInv

\* A build that is steady is by the YAML that its index then leads to.
LEMMA BuildStays ==
    ASSUME ConfigAssumption, ConfigInv, NEW p \in Builders, NEW full \in BOOLEAN, NEW ok \in BOOLEAN, Configs!Build(p, full, ok)
    PROVE  ConfigInv'
<1> DEFINE plain == p.flags = Configs!Unset /\ p.env = Configs!Unset
           now   == Configs!Settings(p)
           old   == Configs!Store(p)
           kept  == IF full THEN ok ELSE old.steady /\ old.by = now /\ old.yaml = layers
           c     == Configs!ConfigDir(p)
           i0    == Configs!IndexOf(p)
           ptr   == Configs!Recorded(p, ok)
           s0    == [built |-> TRUE, steady |-> plain /\ kept, by |-> now, config |-> c, yaml |-> layers, pointer |-> ptr]
           x     == Configs!Discover(p.cwd)
<1>1. layers' = layers /\ Configs!Write(p, s0)
  BY Zenon DEF Configs!Build
<1>2. stores' = [i \in DOMAIN stores \cup {i0} |-> IF i = i0 THEN s0 ELSE stores[i]]
  BY <1>1 DEF Configs!Write
<1>3. ASSUME s0.steady PROVE Sound(i0, s0)
  <2>1. plain /\ kept
    BY <1>3
  <2>2. c = Configs!Effective(x) /\ now = At(layers, c)
    BY <2>1, PlainIs
  <2>3. layers \in YamlSets
    BY DEF ConfigInv, Steadily
  <2>4. x \in Directories /\ c \in Directories
    BY <2>2, <2>3, DiscoverType, EffectiveType DEF ConfigAssumption
  <2>5. now["source_root"].path = FoundIn(layers, c).root
    BY <2>2, RootIs
  <2>6. \A e : HasIn(layers, e) <=> Configs!HasYaml(e)
    BY Zenon DEF HasIn, Configs!HasYaml
  <2>7. ptr = IF ok /\ HasIn(layers, c) THEN c ELSE old.pointer
    BY <2>6 DEF Configs!Recorded
  <2>8. i0 \in DOMAIN stores => old = stores[i0]
    BY DEF Configs!Store
  <2>9. i0 \notin DOMAIN stores => old.pointer = None /\ old.steady = FALSE
    BY DEF Configs!Store
  <2> DEFINE r == now["source_root"].path
  <2>10. ASSUME i0 = Append(r, IndexName) PROVE now = At(layers, IF HasIn(layers, ptr) THEN ptr ELSE r)
    <3>1. CASE ok /\ HasIn(layers, c)
      BY <2>2, <2>7, <3>1
    <3>2. CASE ~(ok /\ HasIn(layers, c)) /\ ~full
      <4>1. old.steady /\ old.by = now /\ old.yaml = layers
        BY <2>1, <3>2
      <4>2. i0 \in DOMAIN stores /\ old = stores[i0]
        BY <2>8, <2>9, <4>1
      <4>3. Sound(i0, old)
        BY <4>1, <4>2 DEF ConfigInv, Steadily
      <4>4. RootOf(old) = r
        BY <4>1 DEF RootOf
      <4>5. old.by = At(old.yaml, IF HasIn(old.yaml, old.pointer) THEN old.pointer ELSE r)
        BY <2>10, <4>3, <4>4 DEF Sound
      <4>6. ptr = old.pointer
        BY <2>7, <3>2
      <4> QED BY <4>1, <4>5, <4>6
    <3>3. CASE ~(ok /\ HasIn(layers, c)) /\ full
      <4>1. ok /\ ~HasIn(layers, c)
        BY <2>1, <3>3
      <4>2. r = c
        BY <2>3, <2>4, <2>5, <4>1, FoundType
      <4>3. ptr = old.pointer
        BY <2>7, <4>1
      <4>4. ~HasIn(layers, ptr)
        <5>1. CASE i0 \notin DOMAIN stores
          <6>1. ~HasIn(layers, None)
            BY <2>3 DEF HasIn, ConfigAssumption
          <6> QED BY <2>9, <4>3, <5>1, <6>1
        <5>2. CASE i0 \in DOMAIN stores
          <6>1. Configs!HasIndex(c) /\ stores[Append(c, IndexName)].pointer = ptr
            BY <2>8, <2>10, <4>2, <4>3, <5>2 DEF Configs!HasIndex
          <6>2. c = x
            BY <2>2, <4>1, EffectiveIs
          <6>3. ptr = None => ~HasIn(layers, ptr)
            BY <2>3 DEF HasIn, ConfigAssumption
          <6> QED BY <2>2, <4>1, <6>1, <6>2, <6>3, EffectiveIs
        <5> QED BY <5>1, <5>2
      <4> QED BY <2>2, <4>2, <4>4
    <3> QED BY <3>1, <3>2, <3>3
  <2>11. RootOf(s0) = r
    BY DEF RootOf
  <2> QED BY <2>2, <2>4, <2>10, <2>11 DEF Sound
<1> HIDE DEF i0, s0
<1> QED BY <1>1, <1>2, <1>3, WriteStays

\* The invariant holds at the start and is kept.
LEMMA ConfigInvBegins == ASSUME NEW ys \in YamlSets, Configs!Start(ys) PROVE ConfigInv
BY DEF Configs!Start, ConfigInv, Steadily

LEMMA ConfigInvStays == ASSUME ConfigAssumption, ConfigInv, [Configs!Next]_Configs!vars PROVE ConfigInv'
<1>1. ASSUME NEW p \in Builders, NEW ok \in BOOLEAN,
             Configs!InitIndex(p, ok) \/ Configs!ReprocessIndex(p, ok) \/ Configs!IncrementIndex(p, ok) PROVE ConfigInv'
  <2>1. PICK full \in BOOLEAN : Configs!Build(p, full, ok)
    BY <1>1 DEF Configs!InitIndex, Configs!ReprocessIndex, Configs!IncrementIndex
  <2> QED BY <2>1, BuildStays
<1>2. ASSUME NEW p \in Builders, NEW left \in BOOLEAN, Configs!EraseIndex(p, left) PROVE ConfigInv'
  <2> DEFINE i0 == Configs!IndexOf(p)
             s0 == [built |-> FALSE, steady |-> FALSE, by |-> Configs!Store(p).by, config |-> Configs!Store(p).config,
                    yaml |-> Configs!Store(p).yaml, pointer |-> None]
  <2>1. layers' = layers
    BY <1>2 DEF Configs!EraseIndex
  <2>2. CASE left
    <3>1. stores' = [i \in DOMAIN stores \cup {i0} |-> IF i = i0 THEN s0 ELSE stores[i]]
      BY <1>2, <2>2 DEF Configs!EraseIndex, Configs!Write
    <3>2. ~s0.steady
      OBVIOUS
    <3> HIDE DEF i0, s0
    <3> QED BY <2>1, <3>1, <3>2, WriteStays
  <2>3. CASE ~left
    <3>1. stores' = [i \in DOMAIN stores \ {i0} |-> stores[i]]
      BY <1>2, <2>3 DEF Configs!EraseIndex
    <3>2. Steadily(layers', stores')
      BY <2>1, <3>1 DEF ConfigInv, Steadily
    <3> QED BY <3>2 DEF ConfigInv
  <2> QED BY <2>2, <2>3
<1>3. ASSUME NEW ys \in YamlSets, Configs!EditYaml(ys) PROVE ConfigInv'
  <2>1. Steadily(layers', stores')
    BY <1>3 DEF Configs!EditYaml, ConfigInv, Steadily
  <2> QED BY <2>1 DEF ConfigInv
<1>4. CASE UNCHANGED Configs!vars
  <2>1. Steadily(layers', stores')
    BY <1>4 DEF Configs!vars, ConfigInv
  <2> QED BY <2>1 DEF ConfigInv
<1> QED BY <1>1, <1>2, <1>3, <1>4 DEF Configs!Next

\* Where the value comes from is one of four, and what is chosen is something if any of them is.
LEMMA ChosenIs ==
    ASSUME NEW t
    PROVE  /\ t[1] # None => Configs!Tier(t) = 1 /\ t[Configs!Tier(t)] = t[1]
           /\ t[1] = None /\ t[2] # None => Configs!Tier(t) = 2 /\ t[Configs!Tier(t)] = t[2]
           /\ t[1] = None /\ t[2] = None /\ t[3] # None => Configs!Tier(t) = 3 /\ t[Configs!Tier(t)] = t[3]
           /\ t[1] = None /\ t[2] = None /\ t[3] = None => Configs!Tier(t) = 4 /\ t[Configs!Tier(t)] = t[4]
BY TierIs

\* The parts of a list of values.
LEMMA TiersAre ==
    ASSUME NEW p, NEW said, NEW key
    PROVE  LET t == Configs!Tiers(p, said, key) IN
           t[1] = p.flags[key] /\ t[2] = p.env[key] /\ t[3] = said[key] /\ t[4] = Default[key]
BY DEF Configs!Tiers

\* A path of the settings is taken as it is.
LEMMA PlacedIs ==
    ASSUME NEW t, NEW found, found.dir \in Directories, found.root \in Directories, None \notin PathValues,
           \A i \in 1..3 : t[i] \in PathValues \cup {None}, t[4] \in PathValues
    PROVE  Configs!Placed(t, found) \in PathValues /\ ~Configs!Placed(t, found).rel
<1>1. t[Configs!Tier(t)] \in PathValues
  BY ChosenIs
<1> QED BY <1>1, BasedIs DEF Configs!Placed

\* What a process works with has its type.
LEMMA LocatedType ==
    ASSUME ConfigAssumption, layers \in YamlSets, NEW p, p.cwd \in Directories, Gives(p.flags), Gives(p.env)
    PROVE  /\ Configs!Located(p).dir = Configs!ConfigDir(p) /\ Configs!Located(p).dir \in Directories
           /\ Configs!Located(p).said = SaidIn(layers, Configs!ConfigDir(p))
           /\ Configs!Located(p).root \in Directories /\ Configs!Explicit(p) \in Directories \cup {None}
           /\ (Configs!Explicit(p) # None => Configs!Located(p).root = Configs!Explicit(p))
<1>1. p.flags["source_root"] \in PathValues \cup {None} /\ p.env["source_root"] \in PathValues \cup {None}
  BY DEF Gives, Configs!Paths
<1>2. Configs!Explicit(p) \in Directories \cup {None}
  BY <1>1, BasedIs DEF Configs!Explicit
<1>3. Configs!ConfigDir(p) \in Directories
  <2>1. Configs!Discover(p.cwd) \in Directories
    BY DiscoverType
  <2> QED BY <1>2, <2>1, EffectiveType DEF Configs!ConfigDir
<1>4. \A d : Configs!Said(d) = SaidIn(layers, d)
  BY Zenon DEF Configs!Said, SaidIn, Configs!HasYaml, HasIn
<1> DEFINE c == Configs!ConfigDir(p)
           root == IF Configs!Explicit(p) # None THEN Configs!Explicit(p) ELSE FoundIn(layers, c).root
<1>5. Configs!Located(p) = [dir |-> c, said |-> SaidIn(layers, c), root |-> root]
  BY <1>4 DEF Configs!Located, Configs!LocatedAt, FoundIn
<1>6. root \in Directories
  BY <1>2, <1>3, FoundType
<1> QED BY <1>2, <1>3, <1>5, <1>6

\* The paths that a YAML, or none, gives.
LEMMA SaidGives ==
    ASSUME ConfigAssumption, NEW ys \in YamlSets, NEW c, NEW key \in Configs!Paths
    PROVE  SaidIn(ys, c)[key] \in PathValues \cup {None}
<1>1. HasIn(ys, c) => Gives(ys[c])
  BY DEF ConfigAssumption, HasIn
<1>2. key \in DOMAIN Default
  BY DEF ConfigAssumption
<1> QED BY <1>1, <1>2 DEF SaidIn, Gives, Configs!Unset, Configs!Keys

\* A daemon resolves what it is handed to what its parent had.
LEMMA DaemonAgrees ==
    ASSUME ConfigAssumption, layers \in YamlSets, NEW p \in Watchers
    PROVE  Configs!Detaches(p, Configs!Settings(p))
<1> DEFINE mine == Configs!Settings(p)
           d    == Configs!Detached(p, mine)
           its  == Configs!Settings(d)
           f    == Configs!Located(p)
           g    == Configs!Located(d)
<1>1. p.cwd \in Directories /\ Gives(p.flags) /\ Gives(p.env) /\ p.env["debounce_ms"] = None /\ None \notin PathValues /\ None \notin Directories
  BY DEF ConfigAssumption
<1>2. /\ f.dir = Configs!ConfigDir(p) /\ f.dir \in Directories /\ f.said = SaidIn(layers, Configs!ConfigDir(p)) /\ f.root \in Directories
      /\ Configs!Explicit(p) \in Directories \cup {None} /\ (Configs!Explicit(p) # None => f.root = Configs!Explicit(p))
  BY <1>1, LocatedType
<1>3. mine = Configs!SettingsAt(p, f) /\ its = Configs!SettingsAt(d, g)
  BY Zenon DEF Configs!Settings
<1>4. /\ mine["source_root"] = [rel |-> FALSE, up |-> 0, path |-> f.root]
      /\ \A key \in {"index_dir", "embedding_model"} : mine[key] = Configs!Placed(Configs!Tiers(p, f.said, key), f)
      /\ \A key \in {"embedding_device", "retrieval", "language", "debounce_ms"} :
            mine[key] = Configs!Pick(Configs!Tiers(p, f.said, key), key)
  BY <1>3, SettingIs
<1>5. /\ its["source_root"] = [rel |-> FALSE, up |-> 0, path |-> g.root]
      /\ \A key \in {"index_dir", "embedding_model"} : its[key] = Configs!Placed(Configs!Tiers(d, g.said, key), g)
      /\ \A key \in {"embedding_device", "retrieval", "language", "debounce_ms"} :
            its[key] = Configs!Pick(Configs!Tiers(d, g.said, key), key)
  BY <1>3, SettingIs
<1>6. DOMAIN mine = Configs!Keys /\ DOMAIN its = Configs!Keys /\ mine = [key \in Configs!Keys |-> mine[key]] /\ its = [key \in Configs!Keys |-> its[key]]
  BY <1>3, SettingIs DEF Configs!SettingsAt
<1>7. Configs!Keys = {"source_root", "index_dir", "embedding_model", "embedding_device", "retrieval", "language", "debounce_ms"}
  BY DEF ConfigAssumption, Configs!Keys, Configs!Paths
<1>8. /\ d.cwd = p.cwd
      /\ \A key \in {"source_root", "index_dir", "embedding_model", "retrieval", "language"} : d.env[key] = mine[key]
      /\ d.env["embedding_device"] = IF mine["embedding_device"] # None THEN mine["embedding_device"] ELSE p.env["embedding_device"]
      /\ d.env["debounce_ms"] = None
      /\ \A key \in {"index_dir", "debounce_ms"} : d.flags[key] = p.flags[key]
      /\ \A key \in {"source_root", "embedding_model", "embedding_device", "retrieval", "language"} : d.flags[key] = None
  <2> HIDE DEF mine
  <2>1. /\ d.cwd = p.cwd /\ d.env = Configs!Published(p, mine)
        /\ d.flags = [key \in Configs!Keys |-> IF key \in {"index_dir", "debounce_ms"} THEN p.flags[key] ELSE None]
    BY DEF Configs!Detached
  <2>2. \A key \in Configs!Keys : d.flags[key] = IF key \in {"index_dir", "debounce_ms"} THEN p.flags[key] ELSE None
    BY <2>1
  <2>3. \A key \in {"source_root", "index_dir", "embedding_model", "retrieval", "language"} : d.env[key] = mine[key]
    BY <1>7, <2>1 DEF Configs!Published, Configs!Paths
  <2>4. d.env["embedding_device"] = IF mine["embedding_device"] # None THEN mine["embedding_device"] ELSE p.env["embedding_device"]
    BY <1>7, <2>1 DEF Configs!Published, Configs!Paths
  <2>5. d.env["debounce_ms"] = None
    BY <1>7, <2>1 DEF Configs!Published, Configs!Paths
  <2> HIDE DEF d
  <2> QED BY <1>7, <2>1, <2>2, <2>3, <2>4, <2>5
<1> HIDE DEF mine, d, its, f, g
<1>9. mine["source_root"] \in PathValues /\ ~mine["source_root"].rel
  BY <1>2, <1>4 DEF PathValues
<1>10. Configs!Explicit(d) = f.root
  <2>1. d.flags["source_root"] = None /\ d.env["source_root"] = mine["source_root"]
    BY <1>8
  <2>2. Configs!Based(d.cwd, mine["source_root"]) = mine["source_root"]
    BY <1>9, BasedStays
  <2>3. d.env["source_root"] # None
    BY <1>1, <1>9, <2>1
  <2>4. mine["source_root"].path = f.root
    BY <1>4
  <2> HIDE DEF d
  <2> QED BY <2>1, <2>2, <2>3, <2>4 DEF Configs!Explicit
<1>11. g = [dir |-> Configs!ConfigDir(d), said |-> SaidIn(layers, Configs!ConfigDir(d)), root |-> f.root]
  <2>1. \A e : Configs!Said(e) = SaidIn(layers, e)
    BY Zenon DEF Configs!Said, SaidIn, Configs!HasYaml, HasIn
  <2>2. f.root # None
    BY <1>1, <1>2
  <2>3. g = Configs!LocatedAt(Configs!ConfigDir(d), f.root)
    BY <1>10 DEF g, Configs!Located
  <2> QED BY <2>1, <2>2, <2>3 DEF Configs!LocatedAt
<1>12. g.root = f.root /\ g.said = SaidIn(layers, Configs!ConfigDir(d)) /\ g.dir = Configs!ConfigDir(d)
  BY <1>11
<1>13. its["source_root"] = mine["source_root"]
  BY <1>4, <1>5, <1>12
<1>14. ASSUME NEW key \in {"index_dir", "embedding_model"} PROVE its[key] = mine[key]
  <2> DEFINE t == Configs!Tiers(p, f.said, key)
             u == Configs!Tiers(d, g.said, key)
  <2>1. t[1] = p.flags[key] /\ t[2] = p.env[key] /\ t[3] = f.said[key] /\ t[4] = Default[key]
    BY TiersAre
  <2>2. u[1] = d.flags[key] /\ u[2] = d.env[key]
    BY TiersAre
  <2>3. mine[key] = Configs!Placed(t, f) /\ its[key] = Configs!Placed(u, g)
    BY <1>4, <1>5
  <2>4. key \in Configs!Paths
    BY DEF Configs!Paths
  <2>5. p.flags[key] \in PathValues \cup {None} /\ p.env[key] \in PathValues \cup {None} /\ f.said[key] \in PathValues \cup {None} /\ Default[key] \in PathValues
    <3>1. p.flags[key] \in PathValues \cup {None} /\ p.env[key] \in PathValues \cup {None}
      BY <1>1, <2>4 DEF Gives
    <3>2. SaidIn(layers, Configs!ConfigDir(p))[key] \in PathValues \cup {None}
      BY <2>4, SaidGives
    <3>3. Default[key] \in PathValues
      BY DEF ConfigAssumption
    <3> QED BY <1>2, <3>1, <3>2, <3>3
  <2> HIDE DEF t, u
  <2>6. \A i \in 1..3 : t[i] \in PathValues \cup {None}
    BY <2>1, <2>5
  <2>7. mine[key] \in PathValues /\ ~mine[key].rel
    BY <1>1, <1>2, <2>1, <2>3, <2>5, <2>6, PlacedIs
  <2>8. d.env[key] = mine[key] /\ mine[key] # None
    BY <1>1, <1>8, <2>7
  <2>9. CASE d.flags[key] # None
    <3>1. d.flags[key] = p.flags[key]
      BY <1>8, <2>9
    <3>2. Configs!Tier(t) = 1 /\ t[Configs!Tier(t)] = t[1] /\ Configs!Tier(u) = 1 /\ u[Configs!Tier(u)] = u[1]
      BY <2>1, <2>2, <2>9, <3>1, ChosenIs
    <3>3. Configs!Placed(t, f) = Configs!Based(f.root, p.flags[key]) /\ Configs!Placed(u, g) = Configs!Based(f.root, p.flags[key])
      BY <1>12, <2>1, <2>2, <3>1, <3>2 DEF Configs!Placed
    <3> QED BY <2>3, <3>3
  <2>10. CASE d.flags[key] = None
    <3>1. Configs!Tier(u) = 2 /\ u[Configs!Tier(u)] = mine[key]
      BY <2>2, <2>8, <2>10, ChosenIs
    <3>2. Configs!Placed(u, g) = Configs!Based(g.root, mine[key])
      BY <3>1 DEF Configs!Placed
    <3>3. Configs!Based(g.root, mine[key]) = mine[key]
      BY <2>7, BasedStays
    <3> QED BY <2>3, <3>2, <3>3
  <2> QED BY <2>9, <2>10
<1>15. ASSUME NEW key \in {"retrieval", "language"} PROVE its[key] = mine[key]
  <2> DEFINE t == Configs!Tiers(p, f.said, key)
             u == Configs!Tiers(d, g.said, key)
  <2>1. t[1] = p.flags[key] /\ t[2] = p.env[key] /\ t[3] = f.said[key] /\ t[4] = Default[key]
    BY TiersAre
  <2>2. u[1] = d.flags[key] /\ u[2] = d.env[key]
    BY TiersAre
  <2>3. mine[key] = Configs!Pick(t, key) /\ its[key] = Configs!Pick(u, key)
    BY <1>4, <1>5
  <2>4. Default[key] # None
    BY DEF ConfigAssumption
  <2> HIDE DEF t, u
  <2>5. t[Configs!Tier(t)] # None
    BY <2>1, <2>4, ChosenIs
  <2>6. mine[key] # None
    BY <2>3, <2>4, <2>5 DEF Configs!Pick
  <2>7. Configs!Tier(u) = 2 /\ u[Configs!Tier(u)] = mine[key]
    BY <1>8, <2>2, <2>6, ChosenIs
  <2>8. Configs!Pick(u, key) = mine[key]
    <3>1. key \in DOMAIN Closed /\ mine[key] \notin Closed[key] => mine[key] = Default[key]
      BY <2>3 DEF Configs!Pick
    <3> QED BY <2>7, <3>1 DEF Configs!Pick
  <2> QED BY <2>3, <2>8
<1>16. ASSUME NEW key \in {"embedding_device", "debounce_ms"}, NEW t PROVE Configs!Pick(t, key) = t[Configs!Tier(t)]
  <2>1. key \notin DOMAIN Closed
    BY DEF ConfigAssumption
  <2> QED BY <2>1 DEF Configs!Pick
<1>17. ASSUME mine["embedding_device"] # None PROVE its["embedding_device"] = mine["embedding_device"]
  <2> DEFINE u == Configs!Tiers(d, g.said, "embedding_device")
  <2>1. u[1] = d.flags["embedding_device"] /\ u[2] = d.env["embedding_device"]
    BY TiersAre
  <2>2. its["embedding_device"] = u[Configs!Tier(u)]
    BY <1>5, <1>16
  <2> HIDE DEF u
  <2>3. u[1] = None /\ u[2] = mine["embedding_device"]
    BY <1>8, <1>17, <2>1
  <2> QED BY <1>17, <2>2, <2>3, ChosenIs
<1>18. ASSUME Configs!ConfigDir(d) = Configs!ConfigDir(p) PROVE its = mine
  <2>1. g.said = f.said
    BY <1>2, <1>12, <1>18
  <2>2. its["embedding_device"] = mine["embedding_device"]
    <3> DEFINE t == Configs!Tiers(p, f.said, "embedding_device")
               u == Configs!Tiers(d, g.said, "embedding_device")
    <3>1. t[1] = p.flags["embedding_device"] /\ t[2] = p.env["embedding_device"] /\ t[3] = f.said["embedding_device"] /\ t[4] = Default["embedding_device"]
      BY TiersAre
    <3>2. u[1] = d.flags["embedding_device"] /\ u[2] = d.env["embedding_device"] /\ u[3] = g.said["embedding_device"] /\ u[4] = Default["embedding_device"]
      BY TiersAre
    <3>3. mine["embedding_device"] = t[Configs!Tier(t)] /\ its["embedding_device"] = u[Configs!Tier(u)]
      BY <1>4, <1>5, <1>16
    <3> HIDE DEF t, u
    <3>4. CASE mine["embedding_device"] = None
      <4>1. t[1] = None /\ t[2] = None /\ t[3] = None /\ t[4] = None
        BY <3>3, <3>4, ChosenIs
      <4>2. u[1] = None /\ u[2] = None /\ u[3] = None /\ u[4] = None
        BY <1>8, <2>1, <3>1, <3>2, <3>4, <4>1
      <4> QED BY <3>3, <3>4, <4>2, ChosenIs
    <3> QED BY <1>17, <3>4
  <2>3. its["debounce_ms"] = mine["debounce_ms"]
    <3>1. Configs!Tiers(p, f.said, "debounce_ms") = Configs!Tiers(d, g.said, "debounce_ms")
      BY <1>1, <1>8, <2>1 DEF Configs!Tiers
    <3> QED BY <1>4, <1>5, <3>1
  <2>4. \A key \in Configs!Keys : its[key] = mine[key]
    BY <1>7, <1>13, <1>14, <1>15, <2>2, <2>3
  <2> QED BY <1>6, <2>4
<1>19. ASSUME p.flags = Configs!Unset PROVE Configs!Settings(Configs!Server(p)) = mine
  <2> DEFINE e == Configs!Server(p)
             h == Configs!Located(e)
  <2>1. e.cwd = p.cwd /\ e.env = p.env /\ e.flags = [Configs!Unset EXCEPT !["source_root"] = p.env["source_root"]]
    BY DEF Configs!Server
  <2>2. \A key \in Configs!Keys : p.flags[key] = None /\ e.flags[key] = IF key = "source_root" THEN p.env["source_root"] ELSE None
    BY <1>7, <1>19, <2>1 DEF Configs!Unset
  <2> HIDE DEF e
  <2>3. Configs!Explicit(e) = Configs!Explicit(p)
    BY <1>7, <2>1, <2>2 DEF Configs!Explicit
  <2>4. h = f
    BY <2>1, <2>3 DEF f, Configs!Located, Configs!ConfigDir
  <2>5. /\ Configs!SettingsAt(e, f)["source_root"] = [rel |-> FALSE, up |-> 0, path |-> f.root]
        /\ \A key \in {"index_dir", "embedding_model"} :
            Configs!SettingsAt(e, f)[key] = Configs!Placed(Configs!Tiers(e, f.said, key), f)
        /\ \A key \in {"embedding_device", "retrieval", "language", "debounce_ms"} :
            Configs!SettingsAt(e, f)[key] = Configs!Pick(Configs!Tiers(e, f.said, key), key)
    BY SettingIs
  <2>6. \A key \in Configs!Keys \ {"source_root"} : Configs!Tiers(e, f.said, key) = Configs!Tiers(p, f.said, key)
    BY <2>1, <2>2 DEF Configs!Tiers
  <2>7. \A key \in Configs!Keys : Configs!SettingsAt(e, f)[key] = mine[key]
    BY <1>4, <1>7, <2>5, <2>6
  <2>8. Configs!SettingsAt(e, f) = [key \in Configs!Keys |-> Configs!SettingsAt(e, f)[key]]
    BY DEF Configs!SettingsAt
  <2>9. Configs!SettingsAt(e, f) = mine
    BY <1>6, <2>7, <2>8
  <2>10. Configs!Settings(e) = Configs!SettingsAt(e, h)
    BY Zenon DEF Configs!Settings
  <2> QED BY <2>4, <2>9, <2>10 DEF e
<1>20. \A key \in Configs!Paths \cup {"retrieval", "language"} : its[key] = mine[key]
  BY <1>13, <1>14, <1>15 DEF Configs!Paths
<1>21. Configs!HandsOver(p, mine, d, its)
  BY <1>17, <1>18, <1>19, <1>20 DEF Configs!HandsOver
<1> QED BY <1>21 DEF Configs!Detaches, mine, d, its

\* Together, what the two promise.
LEMMA ConfigsAreShared == ASSUME ConfigAssumption, ConfigInv PROVE Configs!ConfigIsShared
<1>1. layers \in YamlSets
  BY DEF ConfigInv, Steadily
<1> QED BY <1>1, IndexIsThere, DaemonAgrees DEF Configs!ConfigIsShared, Configs!SettingsAreHandedOver

\* An index is found, with the settings it was built with, from wherever in its tree one
\* works, and a detached daemon and the MCP server resolve the settings of the command
\* (config.py, jrag.py's _cmd_watch_detach, Configs!ConfigIsShared).
THEOREM ConfigStaysShared ==
    /\ Configs!Spec => []Configs!ConfigIsShared
    /\ SetupSpec => []ConfigIsShared
<1> DEFINE Inv == part = "config" => ConfigInv
<1>1. Configs!Init => ConfigInv
  BY ConfigInvBegins DEF Configs!Init
<1>2. ConfigInv /\ [Configs!Next]_Configs!vars => ConfigInv'
  BY ConfigInvStays, ConfigAssumption
<1>3. ConfigInv => Configs!ConfigIsShared
  BY ConfigsAreShared, ConfigAssumption
<1>4. Configs!Spec => []Configs!ConfigIsShared
  BY <1>1, <1>2, <1>3, PTL DEF Configs!Spec
<1>5. SetupInit => Inv
  BY <1>1 DEF SetupInit
<1>6. Inv /\ [SetupNext]_setupVars => Inv'
  <2> SUFFICES ASSUME ConfigInv, part = "config", [SetupNext]_setupVars PROVE ConfigInv'
    BY DEF SetupNext, setupVars
  <2>1. [Configs!Next]_Configs!vars
    BY DEF SetupNext, setupVars, configVars, Configs!vars
  <2> QED BY <1>2, <2>1
<1>7. Inv => ConfigIsShared
  BY <1>3 DEF ConfigIsShared
<1>8. SetupSpec => []ConfigIsShared
  BY <1>5, <1>6, <1>7, PTL DEF SetupSpec
<1> QED BY <1>4, <1>8
=============================================================================
