----------------------------- MODULE CommandProofs -----------------------------
(***************************************************************************)
(* What is promised of every command, for any value of the constants: that it   *)
(* picks a node only when the identifier names no other, that the output of a    *)
(* subprocess reaches the operator whole, that the journal of the commands       *)
(* accounts for each of them and that what a diff changes is found and weighed.   *)
(***************************************************************************)
EXTENDS UsageJournal, CommandParts, FiniteSetTheorems, WellFoundedInduction, SequenceTheorems, TLAPS

----------------------------------------------------------------------------
(* Members of a finite set in order *)

\* A set of numbers that is not empty has a least one.
LEMMA LeastNumber == ASSUME NEW T, T \subseteq Nat, T # {} PROVE \E x \in T : \A y \in T : x <= y
<1> DEFINE R == {ss \in Nat \X Nat : ss[1] < ss[2]}
<1>1. R = OpToRel(<, Nat)
  BY DEF OpToRel
<1>2. IsWellFoundedOn(R, Nat)
  BY <1>1, NatLessThanWellFounded
<1>3. PICK x \in T : \A y \in T : <<y, x>> \notin R
  BY <1>2, WFMin
<1>4. ASSUME NEW y \in T PROVE x <= y
  <2>1. x \in Nat /\ y \in Nat /\ <<y, x>> \notin R
    BY <1>3
  <2>2. ~(y < x)
    BY <2>1
  <2> QED BY <2>1, <2>2
<1> QED BY <1>4

\* What comes before x.
Under(R, S, x) == {y \in S : <<y, x>> \in R}

\* R orders the members of S, which are finitely many; Totally: each two of them.
Orders(R, S) ==
    /\ IsFiniteSet(S)
    /\ \A x \in S : <<x, x>> \notin R
    /\ \A x, y, z \in S : <<x, y>> \in R /\ <<y, z>> \in R => <<x, z>> \in R
Totally(R, S) == \A x, y \in S : x = y \/ <<x, y>> \in R \/ <<y, x>> \in R

\* At each place the member that as many others come before.
Placed(R, S) == [i \in 1..Cardinality(S) |-> CHOOSE x \in S : Cardinality(Under(R, S, x)) = i - 1]

\* Of two members of a finite set, the one that comes first has fewer before it.
LEMMA FewerUnder ==
    ASSUME NEW R, NEW S, Orders(R, S)
    PROVE  /\ \A x \in S : /\ Cardinality(Under(R, S, x)) \in Nat
                           /\ Cardinality(Under(R, S, x)) < Cardinality(S)
           /\ \A x, y \in S : <<x, y>> \in R => Cardinality(Under(R, S, x)) < Cardinality(Under(R, S, y))
<1>0. IsFiniteSet(S) /\ Cardinality(S) \in Nat
  BY FS_CardinalityType DEF Orders
<1>1. ASSUME NEW T, NEW U \in SUBSET S, T \subseteq U, T # U PROVE Cardinality(T) \in Nat /\ Cardinality(T) < Cardinality(U)
  <2>1. IsFiniteSet(U)
    BY <1>0, FS_Subset
  <2>2. IsFiniteSet(T) /\ Cardinality(T) <= Cardinality(U) /\ (Cardinality(U) = Cardinality(T) => U = T)
    BY <1>1, <2>1, FS_Subset
  <2>3. Cardinality(T) \in Nat /\ Cardinality(U) \in Nat
    BY <2>1, <2>2, FS_CardinalityType
  <2> QED BY <1>1, <2>2, <2>3
<1>2. ASSUME NEW x \in S PROVE Under(R, S, x) \subseteq S /\ x \notin Under(R, S, x)
  BY DEF Under, Orders
<1>3. ASSUME NEW x \in S, NEW y \in S, <<x, y>> \in R
      PROVE  Under(R, S, x) \subseteq Under(R, S, y) /\ x \in Under(R, S, y)
  BY <1>3 DEF Under, Orders
<1>4. \A x \in S : Cardinality(Under(R, S, x)) \in Nat /\ Cardinality(Under(R, S, x)) < Cardinality(S)
  BY <1>1, <1>2
<1>5. ASSUME NEW x \in S, NEW y \in S, <<x, y>> \in R PROVE Cardinality(Under(R, S, x)) < Cardinality(Under(R, S, y))
  BY <1>1, <1>2, <1>3, <1>5
<1> QED BY <1>4, <1>5

\* A finite set has a member that nothing comes before.
LEMMA FirstExists ==
    ASSUME NEW R, NEW S, Orders(R, S), S # {}
    PROVE  \E x \in S : \A y \in S : <<y, x>> \notin R
<1> DEFINE count(x) == Cardinality(Under(R, S, x))
           counts == {count(x) : x \in S}
<1>1. /\ \A x \in S : count(x) \in Nat
      /\ \A x, y \in S : <<x, y>> \in R => count(x) < count(y)
  BY FewerUnder
<1> HIDE DEF count
<1>2. PICK k \in counts : \A j \in counts : k <= j
  <2>1. counts \subseteq Nat /\ counts # {}
    BY <1>1
  <2> QED BY <2>1, LeastNumber
<1>3. PICK x \in S : k = count(x)
  OBVIOUS
<1>4. ASSUME NEW y \in S, <<y, x>> \in R PROVE FALSE
  <2>1. count(y) < count(x) /\ count(x) <= count(y) /\ count(x) \in Nat /\ count(y) \in Nat
    BY <1>1, <1>2, <1>3, <1>4
  <2> QED BY <2>1
<1> QED BY <1>4

\* Members of a finite set in a total order, each at the place that the number of those before
\* it says: a sequence of all of them.
LEMMA PlacesAreFilled ==
    ASSUME NEW R, NEW S, Orders(R, S), Totally(R, S)
    PROVE  Placed(R, S) \in Seq(S) /\ Len(Placed(R, S)) = Cardinality(S) /\ ToSet(Placed(R, S)) = S
<1> DEFINE n == Cardinality(S)
           count(x) == Cardinality(Under(R, S, x))
<1>1. n \in Nat /\ IsFiniteSet(S)
  BY FS_CardinalityType DEF Orders
<1>2. /\ \A x \in S : count(x) \in Nat /\ count(x) < n
      /\ \A x, y \in S : <<x, y>> \in R => count(x) < count(y)
  BY FewerUnder
<1> HIDE DEF n, count
<1>3. ASSUME NEW x \in S, NEW y \in S, count(x) = count(y) PROVE x = y
  <2>1. count(x) \in Nat /\ ~(count(x) < count(y)) /\ ~(count(y) < count(x))
    BY <1>2, <1>3
  <2>2. <<x, y>> \notin R /\ <<y, x>> \notin R
    BY <1>2, <2>1
  <2> QED BY <2>2 DEF Totally
<1> DEFINE place == [x \in S |-> count(x) + 1]
<1>4. place \in Injection(S, 1..n)
  <2>1. place \in [S -> 1..n]
    BY <1>1, <1>2
  <2>2. \A x, y \in S : place[x] = place[y] => x = y
    BY <1>2, <1>3
  <2> QED BY <2>1, <2>2 DEF Injection, IsInjective
<1>5. place \in Surjection(S, 1..n)
  <2>1. IsFiniteSet(1..n) /\ Cardinality(1..n) = n
    BY <1>1, FS_Interval
  <2> QED BY <1>4, <2>1, FS_Injection DEF n
<1>6. ASSUME NEW i \in 1..n PROVE \E x \in S : count(x) = i - 1
  <2>1. PICK x \in S : place[x] = i
    BY <1>5, <1>6 DEF Surjection
  <2> QED BY <1>1, <1>2, <2>1
<1> DEFINE s == [i \in 1..n |-> CHOOSE x \in S : count(x) = i - 1]
<1>7. ASSUME NEW i \in 1..n PROVE s[i] \in S /\ count(s[i]) = i - 1
  <2>1. s[i] = CHOOSE x \in S : count(x) = i - 1
    OBVIOUS
  <2> HIDE DEF s
  <2> QED BY <1>6, <2>1
<1>8. DOMAIN s = 1..n
  OBVIOUS
<1> HIDE DEF s
<1>9. s \in Seq(S) /\ Len(s) = n
  <2>1. s \in [1..n -> S]
    <3>1. s = [i \in 1..n |-> s[i]]
      BY DEF s
    <3> QED BY <1>7, <3>1
  <2> QED BY <1>1, <2>1, SeqDef, LenProperties
<1>10. ASSUME NEW x \in S PROVE \E i \in 1..n : s[i] = x
  <2>1. count(x) + 1 \in 1..n /\ (count(x) + 1) - 1 = count(x)
    BY <1>1, <1>2
  <2> QED BY <1>3, <1>7, <2>1
<1>11. ToSet(s) = S
  <2>1. ToSet(s) = {s[i] : i \in 1..n}
    BY <1>8 DEF ToSet
  <2> QED BY <2>1, <1>7, <1>10
<1> QED BY <1>9, <1>11 DEF s, n, count, Placed

----------------------------------------------------------------------------
(* What an identifier names *)

Reasons ==
    {"exact_id", "exact_fqn", "fqn_suffix", "short_name", "route_method_path", "route_template", "route_topic",
     "route_topic_prefix", "client_target_path", "client_target", "client_name", "client_fqn", "producer_topic",
     "producer_topic_prefix"}

\* Candidates for nodes of a graph: numbered, finitely many, and one for a node from each query.
Found(net, C) ==
    /\ IsFiniteSet(C)
    /\ C \subseteq [node : net, reason : Reasons, spec : Nat, left : Nat]
    /\ \A c, d \in C : c.node = d.node /\ c.left = d.left => c = d

NodesIn(C) == {c.node : c \in C}

\* Of the candidates of a node, one that comes before another.
Beats(d, c) == Resolve!Stronger(d, c) \/ (Resolve!Alike(c, d) /\ d.left > c.left)

\* What the instance of the library calls Cardinality and ToSet is what they are here.
LEMMA SameSize == \A S : Resolve!Cardinality(S) = Cardinality(S)
BY Zenon DEF Resolve!Cardinality, Cardinality

LEMMA SameMembers == \A s : Resolve!ToSet(s) = ToSet(s)
BY Zenon DEF Resolve!ToSet, ToSet

\* Every reason has a rank.
LEMMA PriorityIsNumber == \A reason : Resolve!Priority(reason) \in Nat
BY DEF Resolve!Priority

\* By the reason, then by what was matched: of two candidates that differ in these one is stronger.
LEMMA StrongerIs ==
    ASSUME NEW net, NEW C, Found(net, C), NEW c \in C, NEW d \in C
    PROVE  LET p == Resolve!Priority(c.reason) q == Resolve!Priority(d.reason)
           IN  /\ p \in Nat /\ q \in Nat /\ c.spec \in Nat /\ d.spec \in Nat /\ c.left \in Nat /\ d.left \in Nat
               /\ Resolve!Stronger(c, d) <=> p < q \/ (p = q /\ c.spec > d.spec)
               /\ Resolve!Stronger(d, c) <=> q < p \/ (p = q /\ d.spec > c.spec)
               /\ Resolve!Alike(c, d) <=> p = q /\ c.spec = d.spec
<1>1. c \in [node : net, reason : Reasons, spec : Nat, left : Nat] /\ d \in [node : net, reason : Reasons, spec : Nat, left : Nat]
  BY DEF Found
<1>2. c.spec \in Nat /\ d.spec \in Nat /\ c.left \in Nat /\ d.left \in Nat
  BY <1>1
<1> QED BY <1>2, PriorityIsNumber DEF Resolve!Stronger, Resolve!Alike

\* The strongest candidates of each node, of equals the first: one for every node.
LEMMA DedupeIs ==
    ASSUME NEW net, NEW C, Found(net, C)
    PROVE  /\ Resolve!Dedupe(C) \subseteq C
           /\ NodesIn(Resolve!Dedupe(C)) = NodesIn(C)
           /\ \A c, d \in Resolve!Dedupe(C) : c.node = d.node => c = d
<1> DEFINE D == Resolve!Dedupe(C)
<1>1. D = {c \in C : ~\E d \in C : d.node = c.node /\ Beats(d, c)}
  BY Zenon DEF Resolve!Dedupe, Beats
<1> HIDE DEF D
<1>2. ASSUME NEW c \in D, NEW d \in D, c.node = d.node PROVE c = d
  <2>1. c \in C /\ d \in C /\ ~Beats(d, c) /\ ~Beats(c, d)
    BY <1>1, <1>2
  <2>2. c.left = d.left
    BY <2>1, StrongerIs DEF Beats
  <2> QED BY <1>2, <2>1, <2>2 DEF Found
<1>3. ASSUME NEW c \in C PROVE \E d \in D : d.node = c.node
  <2> DEFINE S == {d \in C : d.node = c.node}
             R == {ss \in S \X S : Beats(ss[1], ss[2])}
  <2>1. IsFiniteSet(S) /\ S # {}
    BY FS_Subset DEF Found
  <2>2. ASSUME NEW x \in S PROVE ~Beats(x, x)
    BY StrongerIs DEF Beats
  <2>3. ASSUME NEW x \in S, NEW y \in S, NEW z \in S, Beats(x, y), Beats(y, z) PROVE Beats(x, z)
    <3>1. x \in C /\ y \in C /\ z \in C
      OBVIOUS
    <3> DEFINE p == Resolve!Priority(x.reason)
               q == Resolve!Priority(y.reason)
               r == Resolve!Priority(z.reason)
    <3>2. /\ p \in Nat /\ q \in Nat /\ r \in Nat
          /\ x.spec \in Nat /\ y.spec \in Nat /\ z.spec \in Nat /\ x.left \in Nat /\ y.left \in Nat /\ z.left \in Nat
      BY <3>1, StrongerIs
    <3>3. p < q \/ (p = q /\ x.spec > y.spec) \/ (p = q /\ x.spec = y.spec /\ x.left > y.left)
      BY <2>3, <3>1, StrongerIs DEF Beats
    <3>4. q < r \/ (q = r /\ y.spec > z.spec) \/ (q = r /\ y.spec = z.spec /\ y.left > z.left)
      BY <2>3, <3>1, StrongerIs DEF Beats
    <3>5. Beats(x, z) <=> p < r \/ (p = r /\ x.spec > z.spec) \/ (p = r /\ x.spec = z.spec /\ x.left > z.left)
      BY <3>1, StrongerIs DEF Beats
    <3> HIDE DEF p, q, r
    <3> QED BY <3>2, <3>3, <3>4, <3>5
  <2>4. PICK x \in S : \A y \in S : <<y, x>> \notin R
    <3>1. Orders(R, S)
      BY <2>1, <2>2, <2>3 DEF Orders
    <3> HIDE DEF S, R
    <3> QED BY <2>1, <3>1, FirstExists
  <2>5. ASSUME NEW d \in C, d.node = x.node PROVE ~Beats(d, x)
    <3>1. d \in S
      BY <2>4, <2>5
    <3> QED BY <2>4, <3>1
  <2>6. x \in C /\ x.node = c.node
    OBVIOUS
  <2> QED BY <1>1, <2>5, <2>6
<1>4. D \subseteq C
  BY <1>1
<1>5. NodesIn(D) = NodesIn(C)
  BY <1>3, <1>4 DEF NodesIn
<1> QED BY <1>2, <1>4, <1>5 DEF D

\* Ranking orders the candidates, one of each node, and loses none.
LEMMA RankIs ==
    ASSUME NEW net \in LookupGraphs, NEW D, Found(net, D), \A c, d \in D : c.node = d.node => c = d
    PROVE  Resolve!Rank(D) \in Seq(D) /\ Len(Resolve!Rank(D)) = Cardinality(D) /\ ToSet(Resolve!Rank(D)) = D
<1> DEFINE R == {ss \in D \X D : Resolve!Before(ss[1], ss[2])}
<1>1. ASSUME NEW x \in D, NEW y \in D
      PROVE  LET p == Resolve!Priority(x.reason) q == Resolve!Priority(y.reason)
             IN  /\ p \in Nat /\ q \in Nat /\ x.spec \in Nat /\ y.spec \in Nat /\ x.node.nr \in Nat /\ y.node.nr \in Nat
                 /\ x.node.nr = y.node.nr => x = y
                 /\ <<x, y>> \in R <=> p < q \/ (p = q /\ x.spec > y.spec) \/ (p = q /\ x.spec = y.spec /\ x.node.nr < y.node.nr)
  <2>1. x.node \in net /\ y.node \in net
    BY DEF Found
  <2>2. x.node.nr \in Nat /\ y.node.nr \in Nat /\ (x.node.nr = y.node.nr => x.node = y.node)
    BY <2>1, LookupAssumption
  <2>3. <<x, y>> \in R <=> Resolve!Before(x, y)
    OBVIOUS
  <2> HIDE DEF R
  <2> QED BY <2>2, <2>3, StrongerIs DEF Resolve!Before
<1>2. \A x \in D : <<x, x>> \notin R
  BY <1>1
<1>3. ASSUME NEW x \in D, NEW y \in D, NEW z \in D, <<x, y>> \in R, <<y, z>> \in R PROVE <<x, z>> \in R
  <2> HIDE DEF R
  <2> DEFINE p == Resolve!Priority(x.reason)
             q == Resolve!Priority(y.reason)
             r == Resolve!Priority(z.reason)
  <2>1. /\ p \in Nat /\ q \in Nat /\ r \in Nat /\ x.spec \in Nat /\ y.spec \in Nat /\ z.spec \in Nat
        /\ x.node.nr \in Nat /\ y.node.nr \in Nat /\ z.node.nr \in Nat
    BY <1>1
  <2>2. p < q \/ (p = q /\ x.spec > y.spec) \/ (p = q /\ x.spec = y.spec /\ x.node.nr < y.node.nr)
    BY <1>1, <1>3
  <2>3. q < r \/ (q = r /\ y.spec > z.spec) \/ (q = r /\ y.spec = z.spec /\ y.node.nr < z.node.nr)
    BY <1>1, <1>3
  <2>4. <<x, z>> \in R <=> p < r \/ (p = r /\ x.spec > z.spec) \/ (p = r /\ x.spec = z.spec /\ x.node.nr < z.node.nr)
    BY <1>1
  <2> HIDE DEF p, q, r
  <2> QED BY <2>1, <2>2, <2>3, <2>4
<1>4. ASSUME NEW x \in D, NEW y \in D PROVE x = y \/ <<x, y>> \in R \/ <<y, x>> \in R
  <2> HIDE DEF R
  <2> DEFINE p == Resolve!Priority(x.reason)
             q == Resolve!Priority(y.reason)
  <2>1. /\ p \in Nat /\ q \in Nat /\ x.spec \in Nat /\ y.spec \in Nat
        /\ x.node.nr \in Nat /\ y.node.nr \in Nat /\ (x.node.nr = y.node.nr => x = y)
    BY <1>1
  <2>2. <<x, y>> \in R <=> p < q \/ (p = q /\ x.spec > y.spec) \/ (p = q /\ x.spec = y.spec /\ x.node.nr < y.node.nr)
    BY <1>1
  <2>3. <<y, x>> \in R <=> q < p \/ (p = q /\ y.spec > x.spec) \/ (p = q /\ y.spec = x.spec /\ y.node.nr < x.node.nr)
    BY <1>1
  <2> HIDE DEF p, q
  <2> QED BY <2>1, <2>2, <2>3
<1>5. \A c \in D : {d \in D : Resolve!Before(d, c)} = Under(R, D, c)
  BY DEF Under
<1> HIDE DEF R
<1>6. Resolve!Rank(D) = [i \in 1..Cardinality(D) |-> CHOOSE c \in D : Cardinality(Under(R, D, c)) = i - 1]
  <2>1. Resolve!Rank(D) = [i \in 1..Cardinality(D) |-> CHOOSE c \in D : Cardinality({d \in D : Resolve!Before(d, c)}) = i - 1]
    <3>1. Resolve!Rank(D) = [i \in 1..Resolve!Cardinality(D) |->
                              CHOOSE c \in D : Resolve!Cardinality({d \in D : Resolve!Before(d, c)}) = i - 1]
      BY Zenon DEF Resolve!Rank
    <3> QED BY <3>1, SameSize, Zenon
  <2> QED BY <1>5, <2>1, ZenonT(60)
<1>7. IsFiniteSet(D)
  BY DEF Found
<1>8. Resolve!Rank(D) = Placed(R, D)
  BY <1>6 DEF Placed
<1>9. Orders(R, D) /\ Totally(R, D)
  BY <1>2, <1>3, <1>4, <1>7 DEF Orders, Totally
<1> QED BY <1>8, <1>9, PlacesAreFilled

\* No candidate is cut when there are no more than the cap.
LEMMA CappedIs ==
    ASSUME NEW S, NEW s \in Seq(S), Len(s) <= CandidateCap PROVE Resolve!Capped(s) = s
<1>1. Len(s) \in Nat /\ CandidateCap \in Nat
  BY LenProperties, LookupAssumption
<1>2. Resolve!Capped(s) = SubSeq(s, 1, Len(s))
  BY <1>1 DEF Resolve!Capped
<1>3. SubSeq(s, 1, Len(s)) = s
  BY <1>1, SubSeqProperties
<1> QED BY <1>2, <1>3

\* What one query may return: rows for nodes of a graph, one of each.
RowSets(net) ==
    {rs \in SUBSET [node : net, reason : Reasons, spec : Nat] : \A r, q \in rs : (r.node = q.node => r = q)}

\* The texts that candidates are matched against have a length.
LEMMA TextsHaveLength ==
    ASSUME known \in LookupGraphs, asked \in Lookups
    PROVE  /\ Len(Resolve!Text) \in Nat
           /\ \A w \in ToSet(asked.words) : Len(w) \in Nat
           /\ \A i \in 1..Len(asked.words) : asked.words[i] \in ToSet(asked.words)
           /\ Len(asked.words) \in Nat
           /\ \A n \in known : /\ (n.kind = "symbol" => Len(n.fqn) \in Nat)
                              /\ (n.kind = "route" => Len(n.path) \in Nat /\ Len(n.template) \in Nat)
                              /\ (n.kind = "client" => Len(n.by.fqn) \in Nat)
<1>1. asked.words \in Seq(ToSet(asked.words)) /\ \A w \in ToSet(asked.words) : w \in Seq(ToSet(w))
  BY LookupAssumption
<1>2. Len(asked.words) \in Nat /\ \A w \in ToSet(asked.words) : Len(w) \in Nat
  BY <1>1, LenProperties
<1>3. \A i \in 1..Len(asked.words) : asked.words[i] \in ToSet(asked.words)
  BY <1>1, ElementOfSeq
<1>4. Len(Resolve!Text) \in Nat
  <2>1. CASE Len(asked.words) = 1
    <3>1. Resolve!Text = asked.words[1]
      BY <2>1 DEF Resolve!Text
    <3> QED BY <1>2, <1>3, <2>1, <3>1
  <2>2. CASE Len(asked.words) # 1
    <3>1. Resolve!Text = <<>>
      BY <2>2 DEF Resolve!Text
    <3> QED BY <3>1
  <2> QED BY <2>1, <2>2
<1>5. ASSUME NEW n \in known
      PROVE  /\ (n.kind = "symbol" => Len(n.fqn) \in Nat)
             /\ n.kind = "route" => Len(n.path) \in Nat /\ Len(n.template) \in Nat
             /\ n.kind = "client" => Len(n.by.fqn) \in Nat
  <2>1. /\ n.kind = "symbol" => n.fqn \in Seq(ToSet(n.fqn))
        /\ n.kind = "route" => n.path \in Seq(ToSet(n.path)) /\ n.template \in Seq(ToSet(n.template))
        /\ n.kind = "client" => n.by.fqn \in Seq(ToSet(n.by.fqn))
    BY LookupAssumption
  <2> QED BY <2>1, LenProperties
<1> QED BY <1>2, <1>3, <1>4, <1>5

\* A query whose rows match the same text, and one whose rows match the node's own.
LEMMA FoundIsRows ==
    ASSUME NEW net, NEW N, N \subseteq net, NEW r \in Reasons, NEW k \in Nat PROVE Resolve!Found(N, r, k) \in RowSets(net)
BY DEF Resolve!Found, RowSets

\* Each kind's queries find rows of nodes.
LEMMA SymbolQueriesAre ==
    ASSUME known \in LookupGraphs, asked \in Lookups
    PROVE  Resolve!SymbolQueries \in Seq(RowSets(known))
<1>1. Len(Resolve!Text) \in Nat /\ Len(Resolve!Text) + 1 \in Nat
  BY TextsHaveLength
<1>2. /\ "exact_id" \in Reasons /\ "short_name" \in Reasons /\ "fqn_suffix" \in Reasons /\ "exact_fqn" \in Reasons
      /\ Resolve!NodesOf("symbol") \subseteq known
  BY DEF Reasons, Resolve!NodesOf
<1>3. Resolve!ById("symbol") \in RowSets(known)
  BY <1>1, <1>2, FoundIsRows, Zenon DEF Resolve!ById
<1>4. PICK q2, q3, q4, q6 \in RowSets(known), ns \in SUBSET Resolve!NodesOf("symbol") :
        Resolve!SymbolQueries = <<Resolve!ById("symbol"), q2, q3, q4,
                                  UNION {Resolve!Found({n}, "fqn_suffix", Len(n.fqn)) : n \in ns}, q6>>
  BY <1>1, <1>2, FoundIsRows, Zenon DEF Resolve!SymbolQueries, Resolve!FoundBy
<1>5. UNION {Resolve!Found({n}, "fqn_suffix", Len(n.fqn)) : n \in ns} \in RowSets(known)
  <2>1. \A n \in ns : Len(n.fqn) \in Nat
    BY TextsHaveLength DEF Resolve!NodesOf
  <2>2. ns \subseteq known /\ "fqn_suffix" \in Reasons
    BY <1>2
  <2> QED BY <2>1, <2>2 DEF Resolve!Found, RowSets
<1> QED BY <1>3, <1>4, <1>5

\* Those of the routes.
LEMMA RouteQueriesAre ==
    ASSUME known \in LookupGraphs, asked \in Lookups
    PROVE  Resolve!RouteQueries \in Seq(RowSets(known))
<1> DEFINE size == Len(asked.words)
           last == IF size = 0 THEN <<>> ELSE asked.words[size]
<1>1. Len(Resolve!Text) \in Nat /\ Len(last) \in Nat
  <2>1. CASE size = 0
    BY <2>1, TextsHaveLength
  <2>2. CASE size # 0
    <3>1. size \in 1..Len(asked.words) /\ last = asked.words[size]
      BY <2>2, TextsHaveLength
    <3> QED BY <3>1, TextsHaveLength
  <2> QED BY <2>1, <2>2
<1>2. /\ "exact_id" \in Reasons /\ "route_method_path" \in Reasons /\ "route_template" \in Reasons
      /\ "route_topic" \in Reasons /\ "route_topic_prefix" \in Reasons /\ Resolve!NodesOf("route") \subseteq known
  BY DEF Reasons, Resolve!NodesOf
<1>3. Resolve!ById("route") \in RowSets(known)
  BY <1>1, <1>2, FoundIsRows, Zenon DEF Resolve!ById
<1>4. PICK q2, q3, q5, q6 \in RowSets(known), ns \in SUBSET Resolve!NodesOf("route") :
        Resolve!RouteQueries = <<Resolve!ById("route"), q2, q3,
                                 UNION {Resolve!Found({n}, "route_template", Len(Resolve!Template(n))) : n \in ns}, q5, q6>>
  BY <1>1, <1>2, FoundIsRows, Zenon DEF Resolve!RouteQueries, Resolve!FoundBy
<1>5. UNION {Resolve!Found({n}, "route_template", Len(Resolve!Template(n))) : n \in ns} \in RowSets(known)
  <2>1. \A n \in ns : Len(Resolve!Template(n)) \in Nat
    <3>1. \A n \in ns : Len(n.path) \in Nat /\ Len(n.template) \in Nat
      BY TextsHaveLength DEF Resolve!NodesOf
    <3> QED BY <3>1 DEF Resolve!Template
  <2>2. ns \subseteq known /\ "route_template" \in Reasons
    BY <1>2
  <2> QED BY <2>1, <2>2 DEF Resolve!Found, RowSets
<1> QED BY <1>3, <1>4, <1>5

\* Those of the clients.
LEMMA ClientQueriesAre ==
    ASSUME known \in LookupGraphs, asked \in Lookups
    PROVE  Resolve!ClientQueries \in Seq(RowSets(known))
<1> DEFINE prefix == IF Len(asked.words) = 2 THEN asked.words[2] ELSE <<>>
<1>1. Len(Resolve!Text) \in Nat /\ Len(prefix) \in Nat
  <2>1. CASE Len(asked.words) # 2
    BY <2>1, TextsHaveLength
  <2>2. CASE Len(asked.words) = 2
    BY <2>2, TextsHaveLength
  <2> QED BY <2>1, <2>2
<1>2. /\ "exact_id" \in Reasons /\ "client_target_path" \in Reasons /\ "client_target" \in Reasons
      /\ "client_name" \in Reasons /\ "client_fqn" \in Reasons /\ Resolve!NodesOf("client") \subseteq known
  BY DEF Reasons, Resolve!NodesOf
<1>3. Resolve!ById("client") \in RowSets(known)
  BY <1>1, <1>2, FoundIsRows, Zenon DEF Resolve!ById
<1>4. PICK q2, q3, q4 \in RowSets(known), ns \in SUBSET Resolve!NodesOf("client") :
        Resolve!ClientQueries = <<Resolve!ById("client"), q2, q3, q4,
                                  UNION {Resolve!Found({n}, "client_fqn", Len(n.by.fqn)) : n \in ns}>>
  BY <1>1, <1>2, FoundIsRows, Zenon DEF Resolve!ClientQueries, Resolve!FoundBy
<1>5. UNION {Resolve!Found({n}, "client_fqn", Len(n.by.fqn)) : n \in ns} \in RowSets(known)
  <2>1. \A n \in ns : Len(n.by.fqn) \in Nat
    BY TextsHaveLength DEF Resolve!NodesOf
  <2>2. ns \subseteq known /\ "client_fqn" \in Reasons
    BY <1>2
  <2> QED BY <2>1, <2>2 DEF Resolve!Found, RowSets
<1> QED BY <1>3, <1>4, <1>5

\* Those of the producers.
LEMMA ProducerQueriesAre ==
    ASSUME known \in LookupGraphs, asked \in Lookups
    PROVE  Resolve!ProducerQueries \in Seq(RowSets(known))
<1>1. Len(Resolve!Text) \in Nat
  BY TextsHaveLength
<1>2. /\ "exact_id" \in Reasons /\ "producer_topic" \in Reasons /\ "producer_topic_prefix" \in Reasons
      /\ Resolve!NodesOf("producer") \subseteq known
  BY DEF Reasons, Resolve!NodesOf
<1>3. Resolve!ById("producer") \in RowSets(known)
  BY <1>1, <1>2, FoundIsRows, Zenon DEF Resolve!ById
<1>4. PICK q2, q3 \in RowSets(known) : Resolve!ProducerQueries = <<Resolve!ById("producer"), q2, q3>>
  BY <1>1, <1>2, FoundIsRows, Zenon DEF Resolve!ProducerQueries
<1> QED BY <1>3, <1>4

\* The queries that are run, whichever the kind.
LEMMA QueriesAre ==
    ASSUME known \in LookupGraphs, asked \in Lookups PROVE Resolve!Queries \in Seq(RowSets(known))
<1>1. /\ Resolve!SymbolQueries \in Seq(RowSets(known)) /\ Resolve!RouteQueries \in Seq(RowSets(known))
      /\ Resolve!ClientQueries \in Seq(RowSets(known)) /\ Resolve!ProducerQueries \in Seq(RowSets(known))
  BY SymbolQueriesAre, RouteQueriesAre, ClientQueriesAre, ProducerQueriesAre
<1>2. CASE asked.hint = Nothing
  <2>1. Resolve!Queries = Resolve!SymbolQueries \o Resolve!RouteQueries \o Resolve!ClientQueries \o Resolve!ProducerQueries
    BY <1>2 DEF Resolve!Queries
  <2> QED BY <1>1, <2>1, ConcatProperties
<1>3. CASE asked.hint # Nothing
  <2>1. Resolve!Queries = Resolve!QueriesOf(asked.hint)
    BY <1>3 DEF Resolve!Queries
  <2>2. asked.hint \in {"symbol", "route", "client", "producer"}
    BY <1>3, LookupAssumption
  <2> QED BY <1>1, <2>1, <2>2 DEF Resolve!QueriesOf
<1> QED BY <1>2, <1>3

\* A request and its graph stay, and with them what is asked.
LEMMA AsksStay ==
    ASSUME known' = known, asked' = asked
    PROVE  /\ Resolve!Text' = Resolve!Text /\ (Resolve!Refused' <=> Resolve!Refused)
           /\ \A n : Resolve!InScope(n)' <=> Resolve!InScope(n)
           /\ \A k : Resolve!NodesOf(k)' = Resolve!NodesOf(k)
           /\ \A n : Resolve!Passes(n)' <=> Resolve!Passes(n)
BY DEF Resolve!Text, Resolve!Refused, Resolve!InScope, Resolve!NodesOf, Resolve!Passes

\* The query by id that each kind begins with.
LEMMA IdsStay == ASSUME known' = known, asked' = asked, NEW k PROVE Resolve!ById(k)' = Resolve!ById(k)
BY AsksStay DEF Resolve!ById, Resolve!Found

\* All queries.
LEMMA QueriesStay ==
    ASSUME known' = known, asked' = asked PROVE Resolve!Queries' = Resolve!Queries
<1>1. Resolve!SymbolQueries' = Resolve!SymbolQueries
  <2>1. Resolve!ById("symbol")' = Resolve!ById("symbol")
    BY IdsStay
  <2> QED BY AsksStay, <2>1, SMTT(60) DEF Resolve!SymbolQueries, Resolve!FoundBy, Resolve!Found
<1>2. Resolve!RouteQueries' = Resolve!RouteQueries
  <2>1. Resolve!ById("route")' = Resolve!ById("route")
    BY IdsStay
  <2> DEFINE routes == Resolve!NodesOf("route")
             size == Len(asked.words)
             last == IF size = 0 THEN <<>> ELSE asked.words[size]
             method == IF size > 1 /\ Resolve!IsPath(last) THEN asked.words[size - 1] ELSE <<>>
             service == IF asked.service = Nothing THEN asked.words[1] ELSE <<asked.service>>
             ofThree == {n \in routes : /\ size = 3 /\ <<n.service>> = service /\ <<n.method>> = method
                                         /\ Resolve!Serves(n, last) /\ Resolve!InScope(n)}
             ofTwo   == {n \in routes : size = 2 /\ <<n.method>> = method /\ Resolve!Serves(n, last) /\ Resolve!InScope(n)}
             byPath  == {n \in routes : Resolve!IsPath(Resolve!Text) /\ (n.path = Resolve!Text \/ (n.template = Resolve!Text /\ Resolve!InScope(n)))}
             byTopic == {n \in routes : Resolve!Text # <<>> /\ n.topic = Resolve!Text /\ Resolve!InScope(n)}
             byStart == {n \in routes : Resolve!Text # <<>> /\ ~Resolve!IsPath(Resolve!Text) /\ Resolve!IsPrefix(Resolve!Text, n.topic) /\ Resolve!InScope(n)}
             templates == {Resolve!Found({n}, "route_template", Len(Resolve!Template(n))) : n \in byPath}
  <2>2. /\ size' = size /\ last' = last /\ method' = method /\ service' = service /\ routes' = routes
        /\ Resolve!Text' = Resolve!Text /\ \A n : Resolve!InScope(n)' <=> Resolve!InScope(n)
    BY AsksStay
  <2>3. ofThree' = ofThree /\ ofTwo' = ofTwo
    BY <2>2
  <2>4. byPath' = byPath /\ byTopic' = byTopic /\ byStart' = byStart
    BY <2>2
  <2>5. templates' = templates
    BY <2>4
  <2> DEFINE all == << Resolve!ById("route"), Resolve!Found(ofThree, "route_method_path", Len(last)),
                       Resolve!Found(ofTwo, "route_method_path", Len(last)), UNION templates,
                       Resolve!Found(byTopic, "route_topic", Len(Resolve!Text)),
                       Resolve!Found(byStart, "route_topic_prefix", Len(Resolve!Text)) >>
  <2>6. Resolve!RouteQueries = all /\ Resolve!RouteQueries' = all'
    BY Zenon DEF Resolve!RouteQueries, Resolve!FoundBy
  <2> HIDE DEF ofThree, ofTwo, templates, byTopic, byStart, last
  <2>7. all' = all
    BY Zenon, <2>1, <2>2, <2>3, <2>4, <2>5
  <2> QED BY Zenon, <2>6, <2>7
<1>3. Resolve!ClientQueries' = Resolve!ClientQueries
  BY AsksStay DEF Resolve!ClientQueries, Resolve!ById, Resolve!Found, Resolve!FoundBy
<1>4. Resolve!ProducerQueries' = Resolve!ProducerQueries
  BY AsksStay DEF Resolve!ProducerQueries, Resolve!ById, Resolve!Found, Resolve!FoundBy
<1>5. \A k : Resolve!QueriesOf(k)' = Resolve!QueriesOf(k)
  BY <1>1, <1>2, <1>3, <1>4 DEF Resolve!QueriesOf
<1> QED BY <1>1, <1>2, <1>3, <1>4, <1>5 DEF Resolve!Queries

\* Dropping the mirrors adds no candidate, and which ones it drops depends on the nodes alone.
LEMMA DropMirrorsIs == ASSUME NEW C PROVE Resolve!DropMirrors(C) \subseteq C
BY DEF Resolve!DropMirrors

\* Candidates for the same nodes are left with the same nodes.
LEMMA SameNodes ==
    ASSUME NEW C, NEW D, NodesIn(C) = NodesIn(D)
    PROVE  NodesIn(Resolve!DropMirrors(C)) = NodesIn(Resolve!DropMirrors(D))
<1> DEFINE Kept(N) == {n \in N : n.kind # "route" \/ n.exposed \/ ~\E m \in N : m.kind = "route" /\ m.exposed /\ Resolve!Fqn(m) = Resolve!Fqn(n)}
<1>1. ASSUME NEW X PROVE NodesIn(Resolve!DropMirrors(X)) = Kept(NodesIn(X))
  <2>1. \A c \in X : c \in Resolve!DropMirrors(X) <=>
            c.node.kind # "route" \/ c.node.exposed \/
              ~\E d \in X : d.node.kind = "route" /\ d.node.exposed /\ Resolve!Fqn(d.node) = Resolve!Fqn(c.node)
    BY DEF Resolve!DropMirrors
  <2>2. \A c \in X : c \in Resolve!DropMirrors(X) <=> c.node \in Kept(NodesIn(X))
    BY <2>1 DEF NodesIn
  <2>3. Kept(NodesIn(X)) \subseteq NodesIn(X)
    OBVIOUS
  <2> HIDE DEF Kept
  <2> QED BY <2>2, <2>3, DropMirrorsIs DEF NodesIn
<1> HIDE DEF Kept
<1> QED BY <1>1

\* The nodes that the first k queries find.
NodesOfFirst(k) == UNION {NodesIn(Resolve!Queries[i]) : i \in 1..k}

\* Of k queries the candidates have been merged, each with the number of those that were left;
\* as long as no limit cuts anything they are candidates for all the nodes that the k queries find.
LookupInv ==
    /\ known \in LookupGraphs /\ asked \in Lookups
    /\ ~Resolve!Refused =>
        /\ Found(known, raw) /\ \A c \in raw : c.left > Len(queries)
        /\ \E k \in 0..Len(Resolve!Queries) :
            /\ queries = SubSeq(Resolve!Queries, k + 1, Len(Resolve!Queries))
            /\ Resolve!Whole =>
                NodesIn(raw) = IF k < Len(Resolve!Queries) THEN NodesOfFirst(k) ELSE Resolve!Named
    /\ PickIsUnique

\* The nodes of all the queries, without their mirrors, are those that are named.
LEMMA NamedIs == ASSUME known \in LookupGraphs, asked \in Lookups
    PROVE  /\ NodesIn(UNION ToSet(Resolve!Queries)) = NodesOfFirst(Len(Resolve!Queries))
           /\ \A C : NodesIn(C) = NodesOfFirst(Len(Resolve!Queries)) => NodesIn(Resolve!DropMirrors(C)) = Resolve!Named
<1> DEFINE Q == Resolve!Queries
<1>1. Q \in Seq(RowSets(known)) /\ DOMAIN Q = 1..Len(Q)
  BY QueriesAre, LenProperties
<1> HIDE DEF Q
<1>2. NodesIn(UNION ToSet(Q)) = NodesOfFirst(Len(Q))
  <2>1. ToSet(Q) = {Q[i] : i \in 1..Len(Q)}
    BY <1>1 DEF ToSet
  <2> QED BY <2>1 DEF NodesOfFirst, NodesIn, Q
<1>3. Resolve!Named = NodesIn(Resolve!DropMirrors(UNION ToSet(Q)))
  BY SameMembers DEF Resolve!Named, NodesIn, Q
<1> QED BY <1>2, <1>3, SameNodes DEF Q

\* The queries that are left after k: the next one, and those after it.
LEMMA QueriesLeft ==
    ASSUME NEW S, NEW s \in Seq(S), NEW k \in 0..Len(s)
    PROVE  LET left == SubSeq(s, k + 1, Len(s))
           IN  /\ Len(left) = Len(s) - k
               /\ k < Len(s) => /\ left # <<>> /\ Head(left) = s[k + 1] /\ s[k + 1] \in S /\ s[k + 1] \in ToSet(s)
                                /\ Tail(left) = SubSeq(s, k + 2, Len(s))
               /\ k = Len(s) => left = <<>>
               /\ k = 0 => left = s
<1> DEFINE n == Len(s)
           left == SubSeq(s, k + 1, n)
<1>1. n \in Nat /\ DOMAIN s = 1..n /\ \A i \in 1..n : s[i] \in S
  BY LenProperties, ElementOfSeq
<1>0. n \in Nat /\ k \in Nat /\ k <= n
  BY <1>1
<1>2. left \in Seq(S) /\ Len(left) = n - k
  <2>1. k + 1 \in Int /\ n \in Int /\ \A i \in (k + 1)..n : s[i] \in S
    BY <1>1
  <2>2. left \in Seq(S) /\ Len(left) = IF k + 1 <= n THEN (n - (k + 1)) + 1 ELSE 0
    BY <2>1, SubSeqProperties
  <2> HIDE DEF left, n
  <2> QED BY <1>0, <2>2
<1>3. k < n => /\ left # <<>> /\ Head(left) = s[k + 1] /\ s[k + 1] \in S /\ s[k + 1] \in ToSet(s)
               /\ Tail(left) = SubSeq(s, k + 2, n)
  <2> SUFFICES ASSUME k < n PROVE /\ left # <<>> /\ Head(left) = s[k + 1] /\ s[k + 1] \in S /\ s[k + 1] \in ToSet(s)
                                  /\ Tail(left) = SubSeq(s, k + 2, n)
    OBVIOUS
  <2>1. k + 1 \in 1..n /\ n \in (k + 1)..n /\ (k + 1) + 1 = k + 2
    BY <1>1
  <2>2. Head(left) = s[k + 1] /\ Tail(left) = SubSeq(s, (k + 1) + 1, n)
    BY <2>1, HeadTailOfSubSeq
  <2>3. left # <<>>
    <3> HIDE DEF left, n
    <3>1. Len(left) # 0
      BY <1>0, <1>2
    <3> QED BY <3>1
  <2> QED BY <1>1, <2>1, <2>2, <2>3 DEF ToSet
<1>4. k = n => left = <<>>
  BY <1>1, SubSeqEmpty
<1>5. k = 0 => left = s
  BY SubSeqFull
<1> QED BY <1>2, <1>3, <1>4, <1>5

\* A request starts with all its queries and no candidate.
LEMMA LookupStarts == Resolve!Init => LookupInv
<1> SUFFICES ASSUME Resolve!Init PROVE LookupInv
  OBVIOUS
<1> DEFINE Q == Resolve!Queries
<1>1. known \in LookupGraphs /\ asked \in Lookups /\ raw = {} /\ answer = Nothing
  BY DEF Resolve!Init
<1>2. PickIsUnique
  BY <1>1 DEF PickIsUnique, Resolve!PickIsUnique
<1>3. ASSUME ~Resolve!Refused PROVE queries = Q
  BY <1>3 DEF Resolve!Init
<1>4. Found(known, raw) /\ \A c \in raw : c.left > Len(queries)
  BY <1>1, FS_EmptySet DEF Found
<1>5. Q \in Seq(RowSets(known)) /\ Len(Q) \in Nat
  BY <1>1, QueriesAre, LenProperties
<1>6. NodesIn(raw) = {} /\ NodesOfFirst(0) = {}
  BY <1>1 DEF NodesIn, NodesOfFirst
<1>7. Len(Q) = 0 => Resolve!Named = {}
  <2>1. NodesIn(Resolve!DropMirrors(raw)) = {}
    BY <1>1, DropMirrorsIs DEF NodesIn
  <2> QED BY <1>1, <1>6, <2>1, NamedIs
<1>8. ASSUME ~Resolve!Refused PROVE queries = SubSeq(Q, 0 + 1, Len(Q))
  BY <1>3, <1>5, <1>8, QueriesLeft
<1>9. NodesIn(raw) = IF 0 < Len(Q) THEN NodesOfFirst(0) ELSE Resolve!Named
  BY <1>5, <1>6, <1>7
<1>10. 0 \in 0..Len(Q)
  BY <1>5
<1> QED BY <1>1, <1>2, <1>4, <1>8, <1>9, <1>10 DEF LookupInv

\* The candidates that the rows of a query add, which `k` others wait behind.
Added(rs, k) == {[node |-> r.node, reason |-> r.reason, spec |-> r.spec, left |-> k] : r \in rs}

\* They are candidates for the nodes of the rows.
LEMMA AddedIs ==
    ASSUME NEW net, IsFiniteSet(net), NEW rs \in RowSets(net), NEW k \in Nat
    PROVE  Found(net, Added(rs, k)) /\ NodesIn(Added(rs, k)) = NodesIn(rs) /\ \A c \in Added(rs, k) : c.left = k
<1> DEFINE C == Added(rs, k)
<1>1. /\ \A r \in rs : r.node \in net /\ r.reason \in Reasons /\ r.spec \in Nat
      /\ \A r, q \in rs : r.node = q.node => r = q
  BY DEF RowSets
<1>2. C \subseteq [node : net, reason : Reasons, spec : Nat, left : Nat] /\ \A c \in C : c.left = k
  BY <1>1 DEF Added
<1>3. \A c, d \in C : c.node = d.node => c = d
  BY <1>1 DEF Added
<1>4. NodesIn(C) = NodesIn(rs)
  <2>1. ASSUME NEW r \in rs PROVE \E c \in C : c.node = r.node
    <3> DEFINE c == [node |-> r.node, reason |-> r.reason, spec |-> r.spec, left |-> k]
    <3>1. c \in C
      BY DEF Added
    <3> QED BY <3>1
  <2>2. ASSUME NEW c \in C PROVE \E r \in rs : c.node = r.node
    BY DEF Added
  <2> HIDE DEF C
  <2> QED BY <2>1, <2>2 DEF NodesIn
<1>5. IsFiniteSet(C)
  <2> DEFINE nodeOf == [c \in C |-> c.node]
  <2>1. \A c \in C : c.node \in net
    BY <1>2
  <2> HIDE DEF C
  <2>2. nodeOf \in Injection(C, net)
    BY <1>3, <2>1 DEF Injection, IsInjective
  <2> QED BY <2>2, FS_Injection
<1> QED BY <1>2, <1>3, <1>4, <1>5 DEF Found

\* Candidates of different queries.
Apart(C, D) == \A c \in C, d \in D : c.left # d.left

\* Candidates that were found earlier, with those of the next query.
LEMMA FoundMore ==
    ASSUME NEW net, NEW C, Found(net, C), NEW D, Found(net, D), Apart(C, D)
    PROVE  Found(net, C \cup D) /\ NodesIn(C \cup D) = NodesIn(C) \cup NodesIn(D)
<1>1. IsFiniteSet(C \cup D)
  BY FS_Union DEF Found
<1>2. NodesIn(C \cup D) = NodesIn(C) \cup NodesIn(D)
  BY DEF NodesIn
<1> QED BY <1>1, <1>2 DEF Found, Apart

\* Fewer candidates.
LEMMA FoundLess == ASSUME NEW net, NEW C, Found(net, C), NEW D \in SUBSET C PROVE Found(net, D)
BY FS_Subset DEF Found

\* No query is cut when none has more rows than the limit.
LEMMA CutIs ==
    ASSUME NEW net, NEW all \in RowSets(net), NEW rs \in Resolve!Cut(all)
    PROVE  rs \in RowSets(net) /\ (Resolve!Cardinality(all) <= RowLimit => rs = all)
<1>1. CASE Resolve!Cardinality(all) <= RowLimit
  BY <1>1 DEF Resolve!Cut
<1>2. CASE ~(Resolve!Cardinality(all) <= RowLimit)
  <2>1. rs \subseteq all
    BY <1>2 DEF Resolve!Cut, Resolve!kSubset
  <2> QED BY <1>2, <2>1 DEF RowSets
<1> QED BY <1>1, <1>2

\* What is named stays, and with it what is promised of an answer.
LEMMA WholeStays ==
    ASSUME known' = known, asked' = asked
    PROVE  /\ (Resolve!Whole' <=> Resolve!Whole) /\ Resolve!Named' = Resolve!Named
           /\ \A k : NodesOfFirst(k)' = NodesOfFirst(k)
           /\ (Resolve!Refused' <=> Resolve!Refused)
           /\ answer' = answer => (PickIsUnique => PickIsUnique')
<1>1. Resolve!Named' = Resolve!Named
  BY QueriesStay DEF Resolve!Named
<1>2. Resolve!Whole' <=> Resolve!Whole
  BY <1>1, QueriesStay DEF Resolve!Whole
<1>3. \A k : NodesOfFirst(k)' = NodesOfFirst(k)
  BY QueriesStay DEF NodesOfFirst
<1>4. Resolve!Refused' <=> Resolve!Refused
  BY AsksStay
<1>5. ASSUME answer' = answer, PickIsUnique PROVE PickIsUnique'
  BY <1>1, <1>2, <1>4, <1>5, AsksStay DEF PickIsUnique, Resolve!PickIsUnique
<1> QED BY <1>1, <1>2, <1>3, <1>4, <1>5

\* A query adds its rows; after the last the mirrors are dropped.
LEMMA QueryOK == ASSUME LookupInv, Resolve!Query PROVE LookupInv'
<1> DEFINE Q == Resolve!Queries
           n == Len(Q)
<1>1. known' = known /\ asked' = asked /\ answer' = answer /\ queries # <<>> /\ queries' = Tail(queries)
  BY DEF Resolve!Query
<1>2. known \in LookupGraphs /\ asked \in Lookups /\ PickIsUnique
  BY DEF LookupInv
<1>3. known' \in LookupGraphs /\ asked' \in Lookups /\ PickIsUnique'
  BY <1>1, <1>2, WholeStays
<1>4. ASSUME ~Resolve!Refused
      PROVE  /\ (Found(known, raw) /\ \A c \in raw : c.left > Len(queries))'
             /\ \E k \in 0..n : /\ queries' = SubSeq(Q, k + 1, n)
                                /\ Resolve!Whole => NodesIn(raw') = IF k < n THEN NodesOfFirst(k) ELSE Resolve!Named
  <2>1. PICK k \in 0..n : /\ queries = SubSeq(Q, k + 1, n)
                          /\ Resolve!Whole => NodesIn(raw) = IF k < n THEN NodesOfFirst(k) ELSE Resolve!Named
    BY <1>4 DEF LookupInv
  <2>2. Q \in Seq(RowSets(known)) /\ n \in Nat
    BY <1>2, QueriesAre, LenProperties
  <2>3. k < n
    BY <1>1, <2>1, <2>2, QueriesLeft
  <2>4. /\ Len(queries) = n - k /\ Head(queries) = Q[k + 1] /\ Q[k + 1] \in RowSets(known) /\ Q[k + 1] \in ToSet(Q)
        /\ queries' = SubSeq(Q, k + 2, n)
    BY <1>1, <2>1, <2>2, <2>3, QueriesLeft
  <2>5. PICK rs \in Resolve!Cut(Head(queries)) :
          raw' = IF Len(queries) > 1 THEN raw \cup Added(rs, Len(queries))
                 ELSE Resolve!DropMirrors(raw \cup Added(rs, Len(queries)))
    BY DEF Resolve!Query, Added
  <2>6. rs \in RowSets(known) /\ (Resolve!Whole => rs = Q[k + 1])
    <3>1. Resolve!Whole => Resolve!Cardinality(Q[k + 1]) <= RowLimit
      BY <2>4, SameMembers DEF Resolve!Whole
    <3> QED BY <2>4, <2>5, <3>1, CutIs
  <2> DEFINE more == Added(rs, Len(queries))
  <2>7. Found(known, more) /\ NodesIn(more) = NodesIn(rs) /\ \A c \in more : c.left = n - k
    <3>1. IsFiniteSet(known) /\ n - k \in Nat
      BY <1>2, <2>2, <2>3, LookupAssumption
    <3> QED BY <2>4, <2>6, <3>1, AddedIs
  <2>8. Found(known, raw) /\ \A c \in raw : c.left > n - k
    BY <1>4, <2>4 DEF LookupInv
  <2> HIDE DEF more
  <2>9. Found(known, raw \cup more) /\ NodesIn(raw \cup more) = NodesIn(raw) \cup NodesIn(more)
    <3>1. \A c \in raw : c.left \in Nat
      BY <2>8 DEF Found
    <3>2. n - k \in Nat
      BY <2>2, <2>3
    <3>3. Apart(raw, more)
      BY <2>7, <2>8, <3>1, <3>2 DEF Apart
    <3> QED BY <2>7, <2>8, <3>3, FoundMore
  <2>10. raw' \subseteq raw \cup more
    BY <2>5, DropMirrorsIs DEF more
  <2>11. k + 1 \in 0..n /\ Len(queries') = n - (k + 1) /\ queries' = SubSeq(Q, (k + 1) + 1, n)
    <3>1. k + 1 \in 0..n /\ (k + 1) + 1 = k + 2
      BY <2>2, <2>3
    <3> QED BY <2>2, <2>4, <3>1, QueriesLeft
  <2>12. Found(known, raw)' /\ \A c \in raw' : c.left > Len(queries')
    <3>1. Found(known, raw')
      BY <2>9, <2>10, FoundLess
    <3>2. \A c \in raw \cup more : c.left \in Nat /\ c.left >= n - k
      BY <2>2, <2>3, <2>7, <2>8, <2>9 DEF Found
    <3>3. n \in Nat /\ k \in Nat
      BY <2>2
    <3> QED BY <1>1, <2>10, <2>11, <3>1, <3>2, <3>3
  <2>13. ASSUME Resolve!Whole PROVE NodesIn(raw') = IF k + 1 < n THEN NodesOfFirst(k + 1) ELSE Resolve!Named
    <3>1. NodesIn(raw) = NodesOfFirst(k) /\ NodesIn(more) = NodesIn(Q[k + 1])
      BY <2>1, <2>3, <2>6, <2>7, <2>13
    <3>2. NodesIn(raw \cup more) = NodesOfFirst(k + 1)
      <4>1. 1..(k + 1) = (1..k) \cup {k + 1}
        BY <2>2, <2>3
      <4> QED BY <2>9, <3>1, <4>1 DEF NodesOfFirst
    <3>3. CASE k + 1 < n
      <4>1. Len(queries) > 1
        BY <2>2, <2>4, <3>3
      <4> QED BY <2>5, <3>2, <3>3, <4>1 DEF more
    <3>4. CASE ~(k + 1 < n)
      <4>1. ~(Len(queries) > 1) /\ k + 1 = n
        BY <2>2, <2>3, <2>4, <3>4
      <4>2. raw' = Resolve!DropMirrors(raw \cup more)
        BY <2>5, <4>1 DEF more
      <4> QED BY <1>2, <3>2, <3>4, <4>1, <4>2, NamedIs
    <3> QED BY <3>3, <3>4
  <2> QED BY <2>11, <2>12, <2>13
<1>5. Q' = Q
  BY <1>1, QueriesStay
<1>6. /\ (Resolve!Whole' <=> Resolve!Whole) /\ Resolve!Named' = Resolve!Named /\ \A k : NodesOfFirst(k)' = NodesOfFirst(k)
      /\ (Resolve!Refused' <=> Resolve!Refused)
  BY <1>1, WholeStays
<1>7. \A C : NodesIn(C)' = NodesIn(C)
  OBVIOUS
<1> QED BY <1>3, <1>4, <1>5, <1>6 DEF LookupInv, NodesIn

\* The answer tells the nodes that fit.
Fits(picked, fit) ==
    \/ picked.status = "ok" /\ picked.node \in fit /\ \A m \in fit \ {picked.node} : Resolve!ConstructorOf(m, picked.node)
    \/ picked.status = "ambiguous" /\ picked.candidates = fit /\ Cardinality(fit) > 1
    \/ picked.status = "not_found" /\ fit = {}

\* The answer that is picked from all the nodes that are named.
LEMMA PickIs ==
    ASSUME NEW s, NEW N, IsFiniteSet(N), NodesIn(ToSet(s)) = N
    PROVE  Fits(Resolve!Pick(s), {m \in N : Resolve!Passes(m)})
<1> DEFINE named == {c.node : c \in Resolve!ToSet(s)}
           fit == {m \in named : Resolve!Passes(m)}
           types == {m \in fit : ~Resolve!IsMember(m)}
           picked == Resolve!Pick(s)
           Sole(m) == fit = {m} \/ (types = {m} /\ \A c \in fit \ {m} : Resolve!ConstructorOf(c, m))
<1>0. named = N
  BY SameMembers DEF NodesIn
<1>1. picked = IF fit = {} THEN Resolve!NotFound
               ELSE IF \E m \in fit : Sole(m) THEN Resolve!Picked(CHOOSE m \in fit : fit = {m} \/ types = {m})
               ELSE [status |-> "ambiguous", node |-> Nothing, candidates |-> fit]
  BY Zenon DEF Resolve!Pick
<1> SUFFICES Fits(picked, fit)
  <2>1. fit = {m \in N : Resolve!Passes(m)}
    BY <1>0
  <2> HIDE DEF fit
  <2> QED BY <2>1
<1> HIDE DEF named
<1> HIDE DEF picked
<1>2. CASE fit = {}
  <2>1. picked.status = "not_found"
    BY <1>1, <1>2 DEF Resolve!NotFound
  <2> HIDE DEF fit
  <2> QED BY <1>2, <2>1 DEF Fits
<1>3. CASE fit # {} /\ \E m \in fit : Sole(m)
  <2>1. PICK m \in fit : Sole(m)
    BY <1>3
  <2> DEFINE chosen == CHOOSE x \in fit : fit = {x} \/ types = {x}
  <2>2. chosen \in fit /\ (fit = {chosen} \/ types = {chosen})
    BY <2>1
  <2>3. types \subseteq fit
    OBVIOUS
  <2> HIDE DEF fit, types, chosen
  <2>4. chosen = m
    BY <2>1, <2>2, <2>3
  <2>5. picked = Resolve!Picked(chosen)
    BY <1>1, <1>3 DEF chosen
  <2>6. picked.status = "ok" /\ picked.node = m
    BY <2>4, <2>5 DEF Resolve!Picked
  <2>7. \A c \in fit \ {m} : Resolve!ConstructorOf(c, m)
    BY <2>1
  <2>8. m \in fit
    BY <2>1
  <2> QED BY <2>6, <2>7, <2>8 DEF Fits
<1>4. CASE fit # {} /\ ~\E m \in fit : Sole(m)
  <2>1. picked.status = "ambiguous" /\ picked.candidates = fit
    BY <1>1, <1>4
  <2>2. IsFiniteSet(fit)
    BY <1>0, FS_Subset
  <2>3. Cardinality(fit) # 0 /\ Cardinality(fit) # 1 /\ Cardinality(fit) \in Nat
    <3>1. \A x : fit # {x}
      BY <1>4
    <3> HIDE DEF fit
    <3> QED BY <1>4, <2>2, <3>1, FS_EmptySet, FS_Singleton, FS_CardinalityType
  <2> HIDE DEF fit
  <2>4. Cardinality(fit) > 1
    BY <2>3
  <2> QED BY <2>1, <2>4 DEF Fits
<1> QED BY <1>2, <1>3, <1>4

\* The answer is picked from all that is named: deduplication, ranking and the cap lose no node.
LEMMA AnswerOK == ASSUME LookupInv, Resolve!Answer PROVE LookupInv'
<1>1. /\ known' = known /\ asked' = asked /\ queries' = queries /\ raw' = raw
      /\ ~Resolve!Refused /\ queries = <<>> /\ answer' = Resolve!Pick(Resolve!Capped(Resolve!Rank(Resolve!Dedupe(raw))))
  BY DEF Resolve!Answer
<1>2. known \in LookupGraphs /\ asked \in Lookups /\ Found(known, raw)
  BY <1>1 DEF LookupInv
<1>3. Resolve!Whole => NodesIn(raw) = Resolve!Named
  <2> DEFINE Q == Resolve!Queries
             n == Len(Q)
  <2>1. PICK k \in 0..n : /\ queries = SubSeq(Q, k + 1, n)
                          /\ Resolve!Whole => NodesIn(raw) = IF k < n THEN NodesOfFirst(k) ELSE Resolve!Named
    BY <1>1 DEF LookupInv
  <2>2. Q \in Seq(RowSets(known))
    BY <1>2, QueriesAre
  <2>3. ~(k < n)
    BY <1>1, <2>1, <2>2, QueriesLeft
  <2> QED BY <2>1, <2>3
<1>4. ASSUME Resolve!Whole
      PROVE  LET fit == {m \in Resolve!Named : Resolve!Passes(m)}
             IN  CASE answer'.status = "ok" ->
                        answer'.node \in fit /\ \A m \in fit \ {answer'.node} : Resolve!ConstructorOf(m, answer'.node)
                   [] answer'.status = "ambiguous" -> answer'.candidates = fit /\ Cardinality(fit) > 1
                   [] answer'.status = "not_found" -> fit = {}
  <2> DEFINE D == Resolve!Dedupe(raw)
  <2>1. D \subseteq raw /\ NodesIn(D) = Resolve!Named /\ \A c, d \in D : c.node = d.node => c = d
    BY <1>2, <1>3, <1>4, DedupeIs
  <2>2. Found(known, D)
    BY <1>2, <2>1, FoundLess
  <2> HIDE DEF D
  <2>3. Resolve!Rank(D) \in Seq(D) /\ Len(Resolve!Rank(D)) = Cardinality(D) /\ ToSet(Resolve!Rank(D)) = D
    BY <1>2, <2>1, <2>2, RankIs
  <2>4. IsFiniteSet(Resolve!Named)
    <3>1. Resolve!Named \subseteq known /\ IsFiniteSet(known)
      BY <1>2, <2>1, <2>2, LookupAssumption DEF Found, NodesIn
    <3> QED BY <3>1, FS_Subset
  <2>5. Cardinality(D) <= Cardinality(Resolve!Named)
    <3> DEFINE nodeOf == [c \in D |-> c.node]
    <3>1. nodeOf \in Injection(D, Resolve!Named)
      BY <2>1 DEF Injection, IsInjective, NodesIn
    <3> QED BY <2>4, <3>1, FS_Injection
  <2>6. Len(Resolve!Rank(D)) <= CandidateCap
    <3>1. Cardinality(Resolve!Named) <= CandidateCap
      BY <1>4, SameSize DEF Resolve!Whole
    <3>2. Cardinality(D) \in Nat /\ Cardinality(Resolve!Named) \in Nat /\ CandidateCap \in Nat
      BY <2>2, <2>4, FS_CardinalityType, LookupAssumption DEF Found
    <3> QED BY <2>3, <2>5, <3>1, <3>2
  <2>7. answer' = Resolve!Pick(Resolve!Rank(D))
    BY <1>1, <2>3, <2>6, CappedIs DEF D
  <2> DEFINE fit == {m \in Resolve!Named : Resolve!Passes(m)}
  <2>8. \/ answer'.status = "ok" /\ answer'.node \in fit /\ \A m \in fit \ {answer'.node} : Resolve!ConstructorOf(m, answer'.node)
        \/ answer'.status = "ambiguous" /\ answer'.candidates = fit /\ Cardinality(fit) > 1
        \/ answer'.status = "not_found" /\ fit = {}
    <3>1. Fits(answer', fit)
      BY <2>1, <2>3, <2>4, <2>7, PickIs
    <3> HIDE DEF fit
    <3> QED BY <3>1 DEF Fits
  <2> HIDE DEF fit
  <2> QED BY <2>8 DEF fit
<1>5. PickIsUnique'
  <2>1. Resolve!Named' = Resolve!Named /\ (Resolve!Whole' <=> Resolve!Whole) /\ \A m : Resolve!Passes(m)' <=> Resolve!Passes(m)
    BY <1>1, WholeStays, AsksStay
  <2> QED BY <1>4, <2>1, SameSize DEF PickIsUnique, Resolve!PickIsUnique
<1>6. /\ (Resolve!Whole' <=> Resolve!Whole) /\ Resolve!Named' = Resolve!Named /\ \A k : NodesOfFirst(k)' = NodesOfFirst(k)
      /\ (Resolve!Refused' <=> Resolve!Refused) /\ Resolve!Queries' = Resolve!Queries
  BY <1>1, WholeStays, QueriesStay
<1> QED BY <1>1, <1>5, <1>6 DEF LookupInv

\* Every step of a request.
LEMMA LookupSteps == LookupInv /\ [Resolve!Next]_(Resolve!vars) => LookupInv'
<1> SUFFICES ASSUME LookupInv, [Resolve!Next]_(Resolve!vars) PROVE LookupInv'
  OBVIOUS
<1>1. CASE Resolve!Refuse
  <2>1. known' = known /\ asked' = asked /\ Resolve!Refused
    BY <1>1 DEF Resolve!Refuse
  <2>2. Resolve!Refused'
    BY <2>1, AsksStay
  <2> QED BY <2>1, <2>2 DEF LookupInv, PickIsUnique, Resolve!PickIsUnique
<1>2. CASE Resolve!Query
  BY <1>2, QueryOK
<1>3. CASE Resolve!Answer
  BY <1>3, AnswerOK
<1>4. CASE UNCHANGED Resolve!vars
  <2>1. known' = known /\ asked' = asked /\ queries' = queries /\ raw' = raw /\ answer' = answer
    BY <1>4 DEF Resolve!vars
  <2>2. /\ (Resolve!Whole' <=> Resolve!Whole) /\ Resolve!Named' = Resolve!Named /\ \A k : NodesOfFirst(k)' = NodesOfFirst(k)
        /\ (Resolve!Refused' <=> Resolve!Refused) /\ Resolve!Queries' = Resolve!Queries /\ (PickIsUnique => PickIsUnique')
    BY <2>1, WholeStays, QueriesStay
  <2> QED BY <2>1, <2>2 DEF LookupInv
<1> QED BY <1>1, <1>2, <1>3, <1>4 DEF Resolve!Next

\* When no limit cuts the search, a command answers with a node only if nothing else that the
\* identifier names fits, its own constructors apart, with the list when several do, and with
\* "not found" only if nothing does, whatever the graph, the identifier, the limits and the
\* rows that a query returns first.
THEOREM PickStaysUnique == Resolve!Spec => []PickIsUnique
<1>1. LookupInv => PickIsUnique
  BY DEF LookupInv
<1> QED BY LookupStarts, LookupSteps, <1>1, PTL DEF Resolve!Spec

----------------------------------------------------------------------------
(* Counting up *)

\* A set of numbers up to n that has 0, and with each its successor, has all of them.
LEMMA UpTo ==
    ASSUME NEW n \in Nat, NEW T, 0 \in T, \A i \in T : i \in 0..(n - 1) => i + 1 \in T
    PROVE  \A i \in 0..n : i \in T
<1> SUFFICES ASSUME NEW j \in 0..n, j \notin T PROVE FALSE
  OBVIOUS
<1> DEFINE out == {i \in 0..n : i \notin T}
<1>1. PICK x \in out : \A y \in out : x <= y
  <2>1. out \subseteq Nat /\ out # {}
    OBVIOUS
  <2> HIDE DEF out
  <2> QED BY <2>1, LeastNumber
<1>2. x # 0 /\ x - 1 \in 0..(n - 1) /\ x - 1 \notin out /\ (x - 1) + 1 = x /\ x \notin T
  BY <1>1
<1>3. x - 1 \in T
  BY <1>2
<1> HIDE DEF out
<1> QED BY <1>1, <1>2, <1>3

----------------------------------------------------------------------------
(* The relay.  It keeps of all the child writes the halves that are not written,  *)
(* in the pipe and captured; the filter knows what was captured so far.           *)

\* What the child writes to stderr.
W == Relay!Written

\* The lines that m halves complete; without a filter a line is shown at its first half.
Lines(m) == IF filter = "none" THEN (m + 1) \div 2 ELSE m \div 2

\* The numbers of the lines, in order.
Lists(numbers, those) ==
    /\ numbers \in Seq(Nat) /\ ToSet(numbers) = those
    /\ \A i \in DOMAIN numbers : \A j \in 1..(i - 1) : numbers[j] < numbers[i]

\* What the filter keeps.
States == [suppress : BOOLEAN, shown : Seq(Nat), events : Seq(Nat), held : Seq([line : Nat, half : {1, 2}])]

\* The lines taken for progress events.
Taken == IF filter = "progress" THEN Relay!ProgressEvents ELSE {}

\* The filter once it has been fed m halves.
After(f, m) ==
    /\ f \in States
    /\ Lists(f.shown, Relay!LinesToShow \cap (1..Lines(m))) /\ Lists(f.events, Taken \cap (1..Lines(m)))
    /\ f.held = IF filter # "none" /\ m % 2 = 1 THEN <<[line |-> (m + 1) \div 2, half |-> 1]>> ELSE <<>>
    /\ filter # "none" => (f.suppress <=> Relay!UnderNoise(Lines(m) + 1))

\* The filter, the lines of the child, and whether the last has its newline.
Scripted ==
    /\ filter \in {"none", "lines", "progress"} /\ script \in Seq(Relay!LineKinds) /\ ended \in BOOLEAN

\* A number of halves is even or odd.
LEMMA Parity ==
    ASSUME NEW m \in Nat
    PROVE  \E c \in Nat : \/ m = 2 * c /\ m \div 2 = c /\ (m + 1) \div 2 = c /\ (m + 2) \div 2 = c + 1 /\ m % 2 = 0 /\ (m + 1) % 2 = 1
                          \/ m = 2 * c + 1 /\ m \div 2 = c /\ (m + 1) \div 2 = c + 1 /\ (m + 2) \div 2 = c + 1 /\ m % 2 = 1 /\ (m + 1) % 2 = 0
<1>1. m \div 2 \in Nat
  OBVIOUS
<1> DEFINE c == m \div 2
<1> QED BY <1>1

\* What the child writes: each line's halves in turn, but for the newline that may lack.
LEMMA WrittenIs ==
    ASSUME Scripted
    PROVE  /\ W \in Seq([line : Nat, half : {1, 2}])
           /\ Len(W) = IF ended \/ script = <<>> THEN 2 * Len(script) ELSE 2 * Len(script) - 1
           /\ \A i \in 1..Len(W) : W[i] = [line |-> (i + 1) \div 2, half |-> IF i % 2 = 1 THEN 1 ELSE 2]
<1> DEFINE H == Relay!Halves
           n == Len(script)
<1>1. n \in Nat /\ (script # <<>> => n > 0)
  BY LenProperties, EmptySeq DEF Scripted
<1>2. H = [i \in 1..(2 * n) |-> [line |-> (i + 1) \div 2, half |-> IF i % 2 = 1 THEN 1 ELSE 2]]
  BY DEF Relay!Halves, Relay!Half
<1> HIDE DEF H
<1>3. H \in Seq([line : Nat, half : {1, 2}]) /\ Len(H) = 2 * n
  <2>1. \A i \in 1..(2 * n) : (i + 1) \div 2 \in Nat
    BY <1>1
  <2> QED BY <1>1, <1>2, <2>1
<1>4. CASE ended \/ script = <<>>
  <2>1. W = H
    BY <1>4 DEF W, Relay!Written, H
  <2> QED BY <1>2, <1>3, <1>4, <2>1
<1>5. CASE ~(ended \/ script = <<>>)
  <2>1. W = SubSeq(H, 1, 2 * n - 1)
    BY <1>3, <1>5 DEF W, Relay!Written, Relay!Front, H
  <2> DEFINE m == 2 * n - 1
  <2>2. m \in Int /\ 1 \in Int /\ 1 <= m /\ m <= 2 * n /\ m - 1 + 1 = m
    BY <1>1, <1>5
  <2>3. W = SubSeq(H, 1, m) /\ \A i \in 1..m : i \in 1..(2 * n)
    BY <2>1, <2>2
  <2> HIDE DEF m, n
  <2>4. \A i \in 1..m : H[i] \in [line : Nat, half : {1, 2}]
    <3>1. \A i \in 1..Len(H) : H[i] \in [line : Nat, half : {1, 2}]
      BY <1>3, ElementOfSeq
    <3> QED BY <1>3, <2>3, <3>1
  <2>5. /\ SubSeq(H, 1, m) \in Seq([line : Nat, half : {1, 2}])
        /\ Len(SubSeq(H, 1, m)) = (IF 1 <= m THEN m - 1 + 1 ELSE 0)
        /\ \A i \in 1..(m - 1 + 1) : SubSeq(H, 1, m)[i] = H[1 + i - 1]
    BY <2>2, <2>4, SubSeqProperties
  <2>6. \A i \in 1..m : 1 + i - 1 = i
    BY <2>2
  <2>7. W \in Seq([line : Nat, half : {1, 2}]) /\ Len(W) = m /\ \A i \in 1..m : W[i] = H[i]
    BY <2>2, <2>3, <2>5, <2>6
  <2> QED BY <1>2, <1>5, <2>3, <2>7 DEF m, n
<1> QED BY <1>4, <1>5

\* One more number, beyond those that are listed.
LEMMA ListsMore ==
    ASSUME NEW numbers, NEW T, Lists(numbers, T), NEW x \in Nat, \A y \in T : y < x
    PROVE  Lists(Append(numbers, x), T \cup {x})
<1> DEFINE s == Append(numbers, x)
           n == Len(numbers)
<1>1. numbers \in Seq(Nat) /\ n \in Nat /\ DOMAIN numbers = 1..n
  BY LenProperties DEF Lists
<1>2. s \in Seq(Nat) /\ DOMAIN s = 1..(n + 1) /\ s[n + 1] = x /\ \A i \in 1..n : s[i] = numbers[i]
  BY <1>1, AppendProperties, LenProperties
<1> HIDE DEF s, n
<1>3. \A i \in 1..n : numbers[i] \in T /\ numbers[i] < x
  BY <1>1 DEF Lists, ToSet
<1>4. ToSet(s) = T \cup {x}
  <2>1. ToSet(s) = {s[i] : i \in 1..(n + 1)} /\ T = {numbers[i] : i \in 1..n}
    BY <1>1, <1>2 DEF Lists, ToSet
  <2>2. 1..(n + 1) = (1..n) \cup {n + 1}
    BY <1>1
  <2> QED BY <1>2, <2>1, <2>2
<1>5. ASSUME NEW i \in 1..(n + 1), NEW j \in 1..(i - 1) PROVE s[j] < s[i]
  <2>1. CASE i <= n
    <3>1. i \in DOMAIN numbers /\ s[i] = numbers[i] /\ s[j] = numbers[j]
      BY <1>1, <1>2, <2>1
    <3> QED BY <3>1 DEF Lists
  <2>2. CASE ~(i <= n)
    <3>1. i = n + 1 /\ j \in 1..n
      BY <1>1, <2>2
    <3> QED BY <1>2, <1>3, <3>1
  <2> QED BY <2>1, <2>2
<1> QED BY <1>2, <1>4, <1>5 DEF Lists, s

\* The numbers up to one more.
LEMMA ListsNext ==
    ASSUME NEW numbers, NEW T, NEW c \in Nat, Lists(numbers, T \cap (1..c))
    PROVE  Lists(IF c + 1 \in T THEN Append(numbers, c + 1) ELSE numbers, T \cap (1..(c + 1)))
<1>1. 1..(c + 1) = (1..c) \cup {c + 1} /\ c + 1 \in Nat /\ \A y \in 1..c : y < c + 1
  OBVIOUS
<1>2. CASE c + 1 \in T
  <2>1. T \cap (1..(c + 1)) = (T \cap (1..c)) \cup {c + 1}
    BY <1>1, <1>2
  <2>2. \A y \in T \cap (1..c) : y < c + 1
    BY <1>1
  <2>3. Lists(Append(numbers, c + 1), (T \cap (1..c)) \cup {c + 1})
    BY <1>1, <2>2, ListsMore
  <2> QED BY <1>2, <2>1, <2>3
<1>3. CASE c + 1 \notin T
  <2>1. T \cap (1..(c + 1)) = T \cap (1..c)
    BY <1>1, <1>3
  <2> QED BY <1>3, <2>1
<1> QED BY <1>2, <1>3

\* A line is under noise when the one before is noise, or is indented and under noise.
LEMMA UnderNoiseIs ==
    ASSUME Scripted, NEW c \in Nat, c < Len(script)
    PROVE  Relay!UnderNoise(c + 2) <=> script[c + 1] = "noise" \/ (script[c + 1] = "indented" /\ Relay!UnderNoise(c + 1))
<1>1. (c + 2) - 1 = c + 1 /\ (c + 1) - 1 = c
  OBVIOUS
<1>2. Relay!UnderNoise(c + 2) <=> \E j \in 1..(c + 1) : script[j] = "noise" /\ \A k \in (j + 1)..(c + 1) : script[k] \in {"noise", "indented"}
  BY <1>1 DEF Relay!UnderNoise
<1>3. Relay!UnderNoise(c + 1) <=> \E j \in 1..c : script[j] = "noise" /\ \A k \in (j + 1)..c : script[k] \in {"noise", "indented"}
  BY <1>1 DEF Relay!UnderNoise
<1>4. ASSUME script[c + 1] = "noise" PROVE Relay!UnderNoise(c + 2)
  BY <1>2, <1>4
<1>5. ASSUME script[c + 1] = "indented", Relay!UnderNoise(c + 1) PROVE Relay!UnderNoise(c + 2)
  <2>1. PICK j \in 1..c : script[j] = "noise" /\ \A k \in (j + 1)..c : script[k] \in {"noise", "indented"}
    BY <1>3, <1>5
  <2>2. \A k \in (j + 1)..(c + 1) : script[k] \in {"noise", "indented"}
    BY <1>5, <2>1
  <2> QED BY <1>2, <2>1, <2>2
<1>6. ASSUME Relay!UnderNoise(c + 2), script[c + 1] # "noise"
      PROVE  script[c + 1] = "indented" /\ Relay!UnderNoise(c + 1)
  <2>1. PICK j \in 1..(c + 1) : script[j] = "noise" /\ \A k \in (j + 1)..(c + 1) : script[k] \in {"noise", "indented"}
    BY <1>2, <1>6
  <2>2. j \in 1..c /\ c + 1 \in (j + 1)..(c + 1)
    BY <1>6, <2>1
  <2>3. \A k \in (j + 1)..c : script[k] \in {"noise", "indented"}
    BY <2>1
  <2> QED BY <1>3, <1>6, <2>1, <2>2, <2>3
<1> QED BY <1>4, <1>5, <1>6

\* A line is meant to be shown, if it has its newline, by what the filter remembers.
LEMMA MeantIs ==
    ASSUME Scripted, NEW c \in Nat, c < Len(script), filter # "none", ended \/ c + 1 < Len(script) \/ filter = "progress"
    PROVE  c + 1 \in Relay!LinesToShow <=>
             ~(\/ script[c + 1] = "progress" /\ filter = "progress"
               \/ script[c + 1] = "noise"
               \/ Relay!UnderNoise(c + 1) /\ script[c + 1] = "indented")
<1>1. c + 1 \in DOMAIN script /\ Len(script) \in Nat
  BY LenProperties DEF Scripted
<1>2. ~(filter = "lines" /\ c + 1 = Len(script) /\ ~ended)
  BY <1>1
<1>3. Relay!Meant(c + 1) <=> ~(\/ script[c + 1] = "progress" /\ filter = "progress"
                               \/ script[c + 1] = "noise"
                               \/ Relay!UnderNoise(c + 1) /\ script[c + 1] = "indented")
  BY <1>2, Zenon DEF Relay!Meant
<1> QED BY <1>1, <1>3 DEF Relay!LinesToShow

\* A line that is routed is added to those before it.
LEMMA RouteAdds ==
    ASSUME Scripted, NEW c \in Nat, c < Len(script), filter # "none", NEW f \in States,
           Lists(f.shown, Relay!LinesToShow \cap (1..c)), Lists(f.events, Taken \cap (1..c)),
           f.suppress <=> Relay!UnderNoise(c + 1), ended \/ c + 1 < Len(script) \/ filter = "progress",
           NEW g, g = Relay!RouteLine(f, c + 1)
    PROVE  /\ g \in States /\ g.held = <<>>
           /\ Lists(g.shown, Relay!LinesToShow \cap (1..(c + 1))) /\ Lists(g.events, Taken \cap (1..(c + 1)))
           /\ g.suppress <=> Relay!UnderNoise(c + 2)
<1> DEFINE kind == script[c + 1]
           event == kind = "progress" /\ filter = "progress"
           frame == f.suppress /\ kind = "indented"
<1>1. g = [ suppress |-> kind = "noise" \/ frame,
            shown    |-> IF event \/ kind = "noise" \/ frame THEN f.shown ELSE Append(f.shown, c + 1),
            events   |-> IF event THEN Append(f.events, c + 1) ELSE f.events,
            held     |-> <<>> ]
  BY Zenon DEF Relay!RouteLine
<1>2. c + 1 \in DOMAIN script
  BY LenProperties DEF Scripted
<1>3. c + 1 \in Relay!LinesToShow <=> ~(event \/ kind = "noise" \/ frame)
  BY MeantIs
<1>4. c + 1 \in Taken <=> event
  BY <1>2 DEF Taken, Relay!ProgressEvents
<1>5. Lists(IF c + 1 \in Relay!LinesToShow THEN Append(f.shown, c + 1) ELSE f.shown, Relay!LinesToShow \cap (1..(c + 1)))
  BY ListsNext
<1>6. Lists(IF c + 1 \in Taken THEN Append(f.events, c + 1) ELSE f.events, Taken \cap (1..(c + 1)))
  BY ListsNext
<1> DEFINE quiet == kind = "noise" \/ frame
           after == IF event \/ kind = "noise" \/ frame THEN f.shown ELSE Append(f.shown, c + 1)
           taken == IF event THEN Append(f.events, c + 1) ELSE f.events
<1>0. g.suppress = quiet /\ g.shown = after /\ g.events = taken /\ g.held = <<>>
  <2>1. g = [suppress |-> quiet, shown |-> after, events |-> taken, held |-> <<>>]
    BY <1>1, Zenon
  <2> HIDE DEF quiet, after, taken
  <2> QED BY <2>1
<1>7. Lists(g.shown, Relay!LinesToShow \cap (1..(c + 1))) /\ Lists(g.events, Taken \cap (1..(c + 1)))
  <2>1. after = IF c + 1 \in Relay!LinesToShow THEN Append(f.shown, c + 1) ELSE f.shown
    BY <1>3, Zenon
  <2>2. taken = IF c + 1 \in Taken THEN Append(f.events, c + 1) ELSE f.events
    BY <1>4, Zenon
  <2> HIDE DEF after, taken
  <2> QED BY <1>0, <1>5, <1>6, <2>1, <2>2, Zenon
<1>8. g.suppress <=> Relay!UnderNoise(c + 2)
  <2>1. g.suppress <=> (kind = "noise" \/ frame)
    BY <1>0, Zenon
  <2> QED BY <2>1, UnderNoiseIs
<1>9. g \in States
  <2>1. g.shown \in Seq(Nat) /\ g.events \in Seq(Nat)
    BY <1>7 DEF Lists
  <2>2. g = [suppress |-> g.suppress, shown |-> g.shown, events |-> g.events, held |-> g.held]
    BY <1>1
  <2>3. g.held \in Seq([line : Nat, half : {1, 2}]) /\ g.suppress \in BOOLEAN
    <3>1. g.held = <<>> /\ g.suppress = (kind = "noise" \/ frame)
      BY <1>0, Zenon
    <3> QED BY <3>1, EmptySeq
  <2> HIDE DEF kind, event, frame
  <2> QED BY <2>1, <2>2, <2>3, Zenon DEF States
<1> QED BY <1>1, <1>7, <1>8, <1>9

\* One more half.
LEMMA FeedStep ==
    ASSUME Scripted, NEW m \in Nat, m < Len(W), NEW f, After(f, m)
    PROVE  After(Relay!Feed(f, W[m + 1]), m + 1)
<1> DEFINE n == Len(script)
           g == Relay!Feed(f, W[m + 1])
<1>1. n \in Nat /\ Len(W) \in Nat /\ ((Len(W) = 2 * n /\ (ended \/ n = 0)) \/ (Len(W) = 2 * n - 1 /\ ~ended))
  <2>1. script = <<>> => n = 0
    OBVIOUS
  <2> QED BY <2>1, WrittenIs, LenProperties DEF Scripted
<1>2. W[m + 1] = [line |-> (m + 2) \div 2, half |-> IF (m + 1) % 2 = 1 THEN 1 ELSE 2]
  BY <1>1, WrittenIs
<1>3. f \in States
  BY DEF After
<1>4. PICK c \in Nat : \/ m = 2 * c /\ m \div 2 = c /\ (m + 1) \div 2 = c /\ (m + 2) \div 2 = c + 1 /\ m % 2 = 0 /\ (m + 1) % 2 = 1
                       \/ m = 2 * c + 1 /\ m \div 2 = c /\ (m + 1) \div 2 = c + 1 /\ (m + 2) \div 2 = c + 1 /\ m % 2 = 1 /\ (m + 1) % 2 = 0
  BY Parity
<1>5. c < n /\ (m = 2 * c + 1 => ended \/ c + 1 < n)
  <2> HIDE DEF n
  <2>1. m < 2 * n /\ (m < 2 * n - 1 \/ ended)
    BY <1>1
  <2>2. m = 2 * c \/ m = 2 * c + 1
    BY <1>4
  <2> QED BY <1>1, <2>1, <2>2
<1>6. CASE m = 2 * c
  <2>1. W[m + 1] = [line |-> c + 1, half |-> 1] /\ m % 2 = 0 /\ (m + 1) % 2 = 1 /\ (m + 1) \div 2 = c /\ (m + 2) \div 2 = c + 1 /\ m \div 2 = c
    BY <1>2, <1>4, <1>6
  <2>2. CASE filter = "none"
    <3>1. Lines(m) = c /\ Lines(m + 1) = c + 1
      BY <2>1, <2>2 DEF Lines
    <3>2. g = [f EXCEPT !.shown = Append(f.shown, c + 1)]
      BY <2>1, <2>2 DEF Relay!Feed
    <3>3. c + 1 \in Relay!LinesToShow /\ c + 1 \notin Taken
      BY <1>5, <2>2, LenProperties DEF Relay!LinesToShow, Relay!Meant, Taken, Scripted
    <3>4. Lists(f.shown, Relay!LinesToShow \cap (1..c)) /\ Lists(f.events, Taken \cap (1..c)) /\ f.held = <<>>
      BY <2>2, <3>1 DEF After
    <3>5. Lists(Append(f.shown, c + 1), Relay!LinesToShow \cap (1..(c + 1))) /\ Lists(f.events, Taken \cap (1..(c + 1)))
      BY <3>3, <3>4, ListsNext
    <3>6. g \in States
      <4>1. Append(f.shown, c + 1) \in Seq(Nat)
        BY <3>5 DEF Lists
      <4> QED BY <1>3, <3>2, <4>1 DEF States
    <3>7. g.shown = Append(f.shown, c + 1) /\ g.events = f.events /\ g.held = <<>>
      BY <1>3, <3>2, <3>4 DEF States
    <3> QED BY <2>2, <3>1, <3>5, <3>6, <3>7 DEF After
  <2>3. CASE filter # "none"
    <3>1. Lines(m) = c /\ Lines(m + 1) = c
      BY <2>1, <2>3 DEF Lines
    <3>2. g = [f EXCEPT !.held = <<[line |-> c + 1, half |-> 1]>>]
      BY <2>1, <2>3 DEF Relay!Feed
    <3>3. g \in States
      <4>1. [line |-> c + 1, half |-> 1] \in [line : Nat, half : {1, 2}]
        OBVIOUS
      <4> DEFINE halves == [line : Nat, half : {1, 2}]
                 h == [line |-> c + 1, half |-> 1]
      <4>2. g = [f EXCEPT !.held = <<h>>] /\ f \in [suppress : BOOLEAN, shown : Seq(Nat), events : Seq(Nat), held : Seq(halves)] /\ h \in halves
        BY <1>3, <3>2, <4>1 DEF States
      <4> HIDE DEF halves, h
      <4>3. <<h>> \in Seq(halves)
        BY <4>2
      <4> HIDE DEF g
      <4>4. g \in [suppress : BOOLEAN, shown : Seq(Nat), events : Seq(Nat), held : Seq(halves)]
        BY <4>2, <4>3
      <4> QED BY <4>4 DEF States, halves
    <3>4. g.shown = f.shown /\ g.events = f.events /\ g.held = <<[line |-> c + 1, half |-> 1]>> /\ g.suppress = f.suppress
      BY <1>3, <3>2 DEF States
    <3>5. (m + 1) + 1 = m + 2
      OBVIOUS
    <3> QED BY <2>1, <2>3, <3>1, <3>3, <3>4, <3>5 DEF After
  <2> QED BY <2>2, <2>3
<1>7. CASE m = 2 * c + 1
  <2>1. W[m + 1] = [line |-> c + 1, half |-> 2] /\ m % 2 = 1 /\ (m + 1) % 2 = 0 /\ (m + 1) \div 2 = c + 1 /\ (m + 2) \div 2 = c + 1 /\ m \div 2 = c
    BY <1>2, <1>4, <1>7
  <2>2. CASE filter = "none"
    <3>1. Lines(m) = c + 1 /\ Lines(m + 1) = c + 1 /\ g = f
      BY <2>1, <2>2 DEF Lines, Relay!Feed
    <3> QED BY <2>2, <3>1 DEF After
  <2>3. CASE filter # "none"
    <3>1. Lines(m) = c /\ Lines(m + 1) = c + 1 /\ g = Relay!RouteLine(f, c + 1)
      BY <2>1, <2>3 DEF Lines, Relay!Feed
    <3>2. /\ Lists(f.shown, Relay!LinesToShow \cap (1..c)) /\ Lists(f.events, Taken \cap (1..c))
          /\ f.suppress <=> Relay!UnderNoise(c + 1)
      BY <2>3, <3>1 DEF After
    <3>3. /\ g \in States /\ g.held = <<>>
          /\ Lists(g.shown, Relay!LinesToShow \cap (1..(c + 1))) /\ Lists(g.events, Taken \cap (1..(c + 1)))
          /\ g.suppress <=> Relay!UnderNoise(c + 2)
      BY <1>3, <1>5, <1>7, <2>3, <3>1, <3>2, RouteAdds
    <3>4. (c + 1) + 1 = c + 2 /\ (m + 1) % 2 # 1
      BY <2>1
    <3>5. /\ Lists(g.shown, Relay!LinesToShow \cap (1..Lines(m + 1))) /\ Lists(g.events, Taken \cap (1..Lines(m + 1)))
          /\ g.suppress <=> Relay!UnderNoise(Lines(m + 1) + 1)
      BY <3>1, <3>3, <3>4
    <3>6. g.held = IF filter # "none" /\ (m + 1) % 2 = 1 THEN <<[line |-> ((m + 1) + 1) \div 2, half |-> 1]>> ELSE <<>>
      BY <3>3, <3>4
    <3> HIDE DEF g
    <3>7. After(g, m + 1)
      BY <3>3, <3>5, <3>6, Zenon DEF After
    <3> QED BY <3>7 DEF g
  <2> QED BY <2>2, <2>3
<1> QED BY <1>4, <1>6, <1>7

\* g is the filter after each of the first k halves of the chunk.
FedInTurn(g, f, chunk, k) == g = [n \in 0..k |-> IF n = 0 THEN f ELSE Relay!Feed(g[n - 1], chunk[n])]
CanFeed(f, chunk, k) == \E g : FedInTurn(g, f, chunk, k)

\* One half more.
LEMMA FitsMore ==
    ASSUME NEW f, NEW chunk, NEW k \in Nat, CanFeed(f, chunk, k)
    PROVE  CanFeed(f, chunk, k + 1)
<1>1. PICK g : FedInTurn(g, f, chunk, k)
  BY DEF CanFeed
<1> DEFINE h == [n \in 0..(k + 1) |-> IF n = k + 1 THEN Relay!Feed(g[k], chunk[k + 1]) ELSE g[n]]
<1>2. ASSUME NEW n \in 0..(k + 1) PROVE h[n] = IF n = 0 THEN f ELSE Relay!Feed(h[n - 1], chunk[n])
  <2>1. CASE n = k + 1
    <3>1. n # 0 /\ n - 1 = k /\ k \in 0..(k + 1) /\ k # k + 1
      BY <2>1
    <3> QED BY <2>1, <3>1
  <2>2. CASE n # k + 1
    <3>1. n \in 0..k /\ (n # 0 => n - 1 \in 0..(k + 1) /\ n - 1 # k + 1)
      BY <2>2
    <3>2. h[n] = g[n] /\ (n # 0 => h[n - 1] = g[n - 1])
      BY <2>2, <3>1
    <3>3. g[n] = IF n = 0 THEN f ELSE Relay!Feed(g[n - 1], chunk[n])
      BY <1>1, <3>1 DEF FedInTurn
    <3> QED BY <3>2, <3>3
  <2> QED BY <2>1, <2>2
<1>3. h = [n \in 0..(k + 1) |-> IF n = 0 THEN f ELSE Relay!Feed(h[n - 1], chunk[n])]
  <2>1. h = [n \in 0..(k + 1) |-> h[n]]
    OBVIOUS
  <2> HIDE DEF h
  <2> QED BY <1>2, <2>1
<1> QED BY <1>3, Zenon DEF FedInTurn, CanFeed

\* A chunk is fed half by half.
LEMMA FedIs ==
    ASSUME NEW f, NEW chunk, Len(chunk) \in Nat
    PROVE  \E g : FedInTurn(g, f, chunk, Len(chunk)) /\ Relay!Fed(f, chunk) = g[Len(chunk)]
<1> DEFINE L == Len(chunk)
           T == {k \in 0..L : CanFeed(f, chunk, k)}
<1>1. CanFeed(f, chunk, 0)
  <2> DEFINE g == [n \in 0..0 |-> f]
  <2>1. g = [n \in 0..0 |-> IF n = 0 THEN f ELSE Relay!Feed(g[n - 1], chunk[n])]
    OBVIOUS
  <2> QED BY <2>1, Zenon DEF FedInTurn, CanFeed
<1>2. CanFeed(f, chunk, L)
  <2>1. 0 \in T
    BY <1>1
  <2>2. \A k \in T : k \in 0..(L - 1) => k + 1 \in T
    <3> SUFFICES ASSUME NEW k \in T, k \in 0..(L - 1) PROVE k + 1 \in T
      OBVIOUS
    <3>1. k \in Nat /\ k + 1 \in 0..L /\ CanFeed(f, chunk, k)
      OBVIOUS
    <3> QED BY <3>1, FitsMore
  <2> HIDE DEF T
  <2>3. \A k \in 0..L : k \in T
    BY <2>1, <2>2, UpTo
  <2>4. L \in 0..L
    OBVIOUS
  <2> QED BY <2>3, <2>4 DEF T
<1> DEFINE fed == CHOOSE g : g = [n \in 0..Len(chunk) |-> IF n = 0 THEN f ELSE Relay!Feed(g[n - 1], chunk[n])]
<1>3. Relay!Fed(f, chunk) = fed[Len(chunk)]
  BY Zenon DEF Relay!Fed
<1>4. FedInTurn(fed, f, chunk, Len(chunk))
  BY <1>2, Zenon DEF FedInTurn, CanFeed
<1> QED BY <1>3, <1>4

\* A chunk of what the child writes brings the filter as far as the chunk goes.
LEMMA FedAfter ==
    ASSUME Scripted, NEW a \in Nat, NEW b \in Nat, a <= b, b <= Len(W), NEW f, After(f, a)
    PROVE  After(Relay!Fed(f, SubSeq(W, a + 1, b)), b)
<1> DEFINE chunk == SubSeq(W, a + 1, b)
           n == b - a
<1>1. Len(W) \in Nat /\ n \in Nat
  BY WrittenIs, LenProperties
<1>2. Len(chunk) = n /\ \A i \in 1..n : chunk[i] = W[a + i]
  <2>1. \A i \in (a + 1)..b : W[i] \in [line : Nat, half : {1, 2}]
    <3>1. \A i \in 1..Len(W) : W[i] \in [line : Nat, half : {1, 2}]
      BY WrittenIs, ElementOfSeq
    <3> QED BY <1>1, <3>1
  <2> DEFINE c == a + 1
  <2>2. c \in Int /\ b \in Int /\ (IF c <= b THEN b - c + 1 ELSE 0) = n /\ b - c + 1 = n /\ \A i \in 1..n : c + i - 1 = a + i
    OBVIOUS
  <2>3. /\ Len(SubSeq(W, c, b)) = (IF c <= b THEN b - c + 1 ELSE 0)
        /\ \A i \in 1..(b - c + 1) : SubSeq(W, c, b)[i] = W[c + i - 1]
    <3> HIDE DEF n
    <3>1. \A i \in c..b : W[i] \in [line : Nat, half : {1, 2}]
      BY <2>1
    <3> HIDE DEF c
    <3> QED BY <2>2, <3>1, SubSeqProperties
  <2> HIDE DEF n, c
  <2> QED BY <2>2, <2>3 DEF c
<1> HIDE DEF chunk
<1>3. PICK g : FedInTurn(g, f, chunk, n) /\ Relay!Fed(f, chunk) = g[n]
  BY <1>1, <1>2, FedIs
<1> DEFINE T == {k \in 0..n : After(g[k], a + k)}
<1>4. \A k \in 0..n : g[k] = IF k = 0 THEN f ELSE Relay!Feed(g[k - 1], chunk[k])
  BY <1>3 DEF FedInTurn
<1>5. 0 \in T
  <2>1. 0 \in 0..n /\ a + 0 = a
    BY <1>1
  <2>2. g[0] = f
    BY <1>4, <2>1
  <2> QED BY <2>1, <2>2
<1>6. \A k \in T : k \in 0..(n - 1) => k + 1 \in T
  <2> SUFFICES ASSUME NEW k \in T, k \in 0..(n - 1) PROVE k + 1 \in T
    OBVIOUS
  <2>1. k + 1 \in 0..n /\ k + 1 # 0 /\ (k + 1) - 1 = k /\ k + 1 \in 1..n /\ a + k \in Nat /\ a + k < Len(W)
        /\ a + (k + 1) = (a + k) + 1
    BY <1>1
  <2>2. g[k + 1] = Relay!Feed(g[k], W[(a + k) + 1])
    BY <1>2, <1>4, <2>1
  <2>3. After(g[k], a + k)
    OBVIOUS
  <2>4. After(g[k + 1], (a + k) + 1)
    BY <2>1, <2>2, <2>3, FeedStep
  <2> QED BY <2>1, <2>4
<1> HIDE DEF T, n
<1>7. \A k \in 0..n : k \in T
  BY <1>1, <1>5, <1>6, UpTo
<1>8. n \in 0..n
  BY <1>1
<1>9. a + n = b
  BY DEF n
<1> QED BY <1>3, <1>7, <1>8, <1>9 DEF T, chunk

\* What the child writes to stdout.
Out == [i \in 1..MaxOut |-> MaxOut + 1 - i]

\* The drain has a units of what the child writes, b are written, the rest of these is in the pipe.
Streams(whole, buf, pipe, a, b) ==
    /\ a \in Nat /\ b \in Nat /\ a <= b /\ b <= Len(whole)
    /\ buf = SubSeq(whole, 1, a) /\ pipe = SubSeq(whole, a + 1, b)

\* Part of a sequence.
LEMMA PartIs ==
    ASSUME NEW S, NEW s \in Seq(S), NEW a \in Nat, NEW b \in Nat, a <= b, b <= Len(s)
    PROVE  /\ SubSeq(s, a + 1, b) \in Seq(S) /\ Len(SubSeq(s, a + 1, b)) = b - a
           /\ \A i \in 1..(b - a) : SubSeq(s, a + 1, b)[i] = s[a + i]
<1> DEFINE c == a + 1
<1>1. Len(s) \in Nat /\ \A i \in 1..Len(s) : s[i] \in S
  BY LenProperties, ElementOfSeq
<1>2. c \in Int /\ b \in Int /\ \A i \in c..b : s[i] \in S
  BY <1>1
<1>3. (IF c <= b THEN b - c + 1 ELSE 0) = b - a /\ b - c + 1 = b - a /\ \A i \in 1..(b - a) : c + i - 1 = a + i
  OBVIOUS
<1> HIDE DEF c
<1>4. /\ SubSeq(s, c, b) \in Seq(S) /\ Len(SubSeq(s, c, b)) = (IF c <= b THEN b - c + 1 ELSE 0)
      /\ \A i \in 1..(b - c + 1) : SubSeq(s, c, b)[i] = s[c + i - 1]
  BY <1>2, SubSeqProperties
<1> QED BY <1>3, <1>4 DEF c

\* One unit more is written to the pipe.
LEMMA PipeGrows ==
    ASSUME NEW S, NEW s \in Seq(S), NEW buf, NEW pipe, NEW a, NEW b, Streams(s, buf, pipe, a, b), b < Len(s)
    PROVE  Streams(s, buf, Append(pipe, s[b + 1]), a, b + 1)
<1>1. a \in Nat /\ b \in Nat /\ a <= b /\ b + 1 \in Nat /\ a <= b + 1 /\ b + 1 <= Len(s) /\ b <= Len(s) /\ Len(s) \in Nat
  BY LenProperties DEF Streams
<1>2. s[b + 1] \in S
  BY <1>1, ElementOfSeq
<1>3. /\ pipe \in Seq(S) /\ Len(pipe) = b - a /\ \A i \in 1..(b - a) : pipe[i] = s[a + i]
  BY <1>1, PartIs DEF Streams
<1> DEFINE p == SubSeq(s, a + 1, b + 1)
<1>4. /\ p \in Seq(S) /\ Len(p) = (b + 1) - a /\ \A i \in 1..((b + 1) - a) : p[i] = s[a + i]
  <2> DEFINE d == b + 1
  <2>1. d \in Nat /\ a <= d /\ d <= Len(s)
    BY <1>1
  <2> HIDE DEF d
  <2> QED BY <1>1, <2>1, PartIs DEF d
<1> DEFINE q == Append(pipe, s[b + 1])
<1>5. q \in Seq(S) /\ Len(q) = (b - a) + 1 /\ (\A i \in 1..(b - a) : q[i] = s[a + i]) /\ q[(b - a) + 1] = s[b + 1]
  BY <1>2, <1>3, AppendProperties
<1> HIDE DEF p, q
<1>6. (b + 1) - a = (b - a) + 1 /\ a + ((b - a) + 1) = b + 1 /\ b - a \in Nat
  BY <1>1
<1>7. q = p
  <2>1. \A i \in 1..Len(q) : q[i] = p[i]
    <3> SUFFICES ASSUME NEW i \in 1..((b - a) + 1) PROVE q[i] = p[i]
      BY <1>5
    <3>1. p[i] = s[a + i]
      BY <1>4, <1>6
    <3>2. i \in 1..(b - a) \/ i = (b - a) + 1
      BY <1>6
    <3> QED BY <1>5, <1>6, <3>1, <3>2
  <2> QED BY <1>4, <1>5, <1>6, <2>1, SeqEqual
<1> QED BY <1>1, <1>7 DEF Streams, p, q

\* The drain reads so many units.
LEMMA PipeDrains ==
    ASSUME NEW S, NEW s \in Seq(S), NEW buf, NEW pipe, NEW a, NEW b, Streams(s, buf, pipe, a, b), NEW n \in 1..Len(pipe)
    PROVE  /\ Streams(s, buf \o SubSeq(pipe, 1, n), SubSeq(pipe, n + 1, Len(pipe)), a + n, b)
           /\ SubSeq(pipe, 1, n) = SubSeq(s, a + 1, a + n) /\ a + n <= b /\ a + n \in Nat
<1>1. a \in Nat /\ b \in Nat /\ a <= b /\ b <= Len(s) /\ Len(s) \in Nat
  BY LenProperties DEF Streams
<1>2. pipe \in Seq(S) /\ Len(pipe) = b - a /\ \A i \in 1..(b - a) : pipe[i] = s[a + i]
  BY <1>1, PartIs DEF Streams
<1> DEFINE m == a + n
<1>3. n \in Nat /\ n <= Len(pipe) /\ m \in Nat /\ m <= b /\ m <= Len(s) /\ a <= m /\ Len(pipe) \in Nat /\ m - a = n
      /\ Len(pipe) - n = b - m
  BY <1>1, <1>2
<1> HIDE DEF m
<1>4. SubSeq(pipe, 1, n) = SubSeq(s, a + 1, m)
  <2>1. /\ SubSeq(pipe, 0 + 1, n) \in Seq(S) /\ Len(SubSeq(pipe, 0 + 1, n)) = n - 0
        /\ \A i \in 1..(n - 0) : SubSeq(pipe, 0 + 1, n)[i] = pipe[0 + i]
    <3>1. 0 \in Nat /\ 0 <= n
      BY <1>3
    <3> QED BY <1>2, <1>3, <3>1, PartIs
  <2>2. /\ SubSeq(s, a + 1, m) \in Seq(S) /\ Len(SubSeq(s, a + 1, m)) = m - a
        /\ \A i \in 1..(m - a) : SubSeq(s, a + 1, m)[i] = s[a + i]
    BY <1>1, <1>3, PartIs
  <2>3. 0 + 1 = 1 /\ n - 0 = n /\ \A i \in 1..n : 0 + i = i /\ i \in 1..(b - a)
    BY <1>2, <1>3
  <2> DEFINE x == SubSeq(pipe, 1, n)
             y == SubSeq(s, a + 1, m)
  <2>4. x \in Seq(S) /\ Len(x) = n /\ \A i \in 1..n : x[i] = s[a + i]
    BY <1>2, <2>1, <2>3
  <2>5. y \in Seq(S) /\ Len(y) = n /\ \A i \in 1..n : y[i] = s[a + i]
    BY <1>3, <2>2
  <2> HIDE DEF x, y
  <2>6. x = y
    BY <2>4, <2>5, SeqEqual
  <2> QED BY <2>6 DEF x, y
<1>5. SubSeq(pipe, n + 1, Len(pipe)) = SubSeq(s, m + 1, b)
  <2> DEFINE x == SubSeq(pipe, n + 1, Len(pipe))
             y == SubSeq(s, m + 1, b)
             k == Len(pipe)
  <2>1. x \in Seq(S) /\ Len(x) = k - n /\ \A i \in 1..(k - n) : x[i] = pipe[n + i]
    <3>1. k <= Len(pipe) /\ k \in Nat /\ n <= k
      BY <1>3
    <3> QED BY <1>2, <1>3, <3>1, PartIs
  <2>2. y \in Seq(S) /\ Len(y) = b - m /\ \A i \in 1..(b - m) : y[i] = s[m + i]
    BY <1>1, <1>3, PartIs
  <2> HIDE DEF x, y
  <2>3. ASSUME NEW i \in 1..(b - m) PROVE n + i \in 1..(b - a) /\ pipe[n + i] = s[m + i]
    <3>1. n + i \in 1..(b - a) /\ a + (n + i) = m + i
      BY <1>1, <1>2, <1>3 DEF m
    <3> QED BY <1>2, <3>1
  <2>4. \A i \in 1..Len(x) : x[i] = y[i]
    BY ZenonT(60), <1>3, <2>1, <2>2, <2>3
  <2>5. Len(x) = Len(y)
    BY <1>3, <2>1, <2>2
  <2>6. x = y
    BY <2>1, <2>2, <2>4, <2>5, SeqEqual
  <2> QED BY <2>6 DEF x, y
<1>6. SubSeq(s, 1, a) \o SubSeq(s, a + 1, m) = SubSeq(s, 1, m)
  <2>1. 1 \in 1..(Len(s) + 1) /\ a \in (1 - 1)..Len(s) /\ m \in a..Len(s)
    BY <1>1, <1>3
  <2> QED BY <2>1, ConcatAdjacentSubSeq
<1> QED BY <1>1, <1>3, <1>4, <1>5, <1>6 DEF Streams, m

\* A sequence that has been read to its end has been read whole.
LEMMA ReadWhole ==
    ASSUME NEW S, NEW s \in Seq(S), NEW buf, NEW pipe, NEW a, NEW b, Streams(s, buf, pipe, a, b), pipe = <<>>, b = Len(s)
    PROVE  buf = s
<1>1. a \in Nat /\ b \in Nat /\ a <= b /\ b <= Len(s) /\ buf = SubSeq(s, 1, a) /\ pipe = SubSeq(s, a + 1, b)
  BY DEF Streams
<1>2. Len(pipe) = b - a /\ Len(pipe) = 0
  BY SMTT(30), <1>1, PartIs
<1>3. a = Len(s)
  BY <1>1, <1>2
<1> QED BY <1>1, <1>3, SubSeqFull

\* What the drain has captured.
LEMMA BufIs ==
    ASSUME NEW S, NEW s \in Seq(S), NEW buf, NEW pipe, NEW a, NEW b, Streams(s, buf, pipe, a, b)
    PROVE  Len(buf) = a
<1>1. a \in Nat /\ b \in Nat /\ a <= b /\ b <= Len(s) /\ Len(s) \in Nat /\ buf = SubSeq(s, 1, a)
  BY LenProperties DEF Streams
<1>2. Len(SubSeq(s, 0 + 1, a)) = a - 0 /\ 0 \in Nat /\ 0 <= a /\ a <= Len(s)
  <2>1. 0 \in Nat /\ 0 <= a /\ a <= Len(s)
    BY <1>1
  <2> QED BY <1>1, <2>1, PartIs
<1> QED BY <1>1, <1>2

\* Nothing is left out of a sequence that has nothing left.
LEMMA NoneLeft ==
    ASSUME NEW S, NEW s \in Seq(S), NEW b \in Nat, b <= Len(s), SubSeq(s, b + 1, Len(s)) = <<>>
    PROVE  b = Len(s)
<1>1. b \in 0..Len(s) /\ Len(s) \in Nat
  BY LenProperties
<1>2. Len(SubSeq(s, b + 1, Len(s))) = Len(s) - b
  BY <1>1, QueriesLeft
<1>3. Len(SubSeq(s, b + 1, Len(s))) = Len(<<>>)
  BY Zenon
<1>4. Len(<<>>) = 0
  OBVIOUS
<1> QED BY <1>1, <1>2, <1>3, <1>4

\* The child writes numbers to stdout.
LEMMA OutIs == Out \in Seq(Nat) /\ Len(Out) = MaxOut /\ MaxOut \in Nat /\ \A i \in 1..MaxOut : Out[i] = MaxOut + 1 - i
<1>1. MaxOut \in Nat
  BY RelayAssumption
<1> QED BY <1>1 DEF Out

\* The first of some numbers, in order, begin the list of all.
LEMMA ListsBegins ==
    ASSUME NEW numbers, NEW T, T \subseteq Nat \ {0}, NEW k \in Nat, Lists(numbers, T \cap (1..k))
    PROVE  Relay!Begins(numbers, T)
<1>1. numbers \in Seq(Nat) /\ \A i \in DOMAIN numbers : numbers[i] \in T \cap (1..k)
  BY DEF Lists, ToSet
<1>2. ASSUME NEW i \in DOMAIN numbers, NEW line \in T, line < numbers[i] PROVE line \in Relay!ToSet(numbers)
  <2>1. line \in T \cap (1..k)
    BY <1>1, <1>2
  <2>2. ToSet(numbers) = T \cap (1..k)
    BY DEF Lists
  <2> QED BY <2>1, <2>2 DEF ToSet, Relay!ToSet
<1> QED BY <1>1, <1>2 DEF Lists, Relay!Begins

\* The filter has nothing left to tell.
Told == Lists(shown, Relay!LinesToShow) /\ Lists(events, Taken)

\* After the flush of all that was written.
LEMMA FlushTells ==
    ASSUME Scripted, NEW f, After(f, Len(W)), NEW g, g = Relay!Flushed(f)
    PROVE  Lists(g.shown, Relay!LinesToShow) /\ Lists(g.events, Taken)
<1> DEFINE n == Len(script)
           m == Len(W)
<1>1. n \in Nat /\ m \in Nat /\ ((m = 2 * n /\ (ended \/ n = 0)) \/ (m = 2 * n - 1 /\ n > 0 /\ ~ended))
  <2>1. (script = <<>> => n = 0) /\ (script # <<>> => n > 0) /\ n \in Nat
    BY LenProperties, EmptySeq DEF Scripted
  <2>2. m = IF ended \/ script = <<>> THEN 2 * n ELSE 2 * n - 1
    BY WrittenIs
  <2> QED BY <2>1, <2>2
<1>2. Relay!LinesToShow \cap (1..n) = Relay!LinesToShow /\ Taken \cap (1..n) = Taken
  BY LenProperties DEF Relay!LinesToShow, Taken, Relay!ProgressEvents, Scripted
<1>3. f \in States /\ Lists(f.shown, Relay!LinesToShow \cap (1..Lines(m))) /\ Lists(f.events, Taken \cap (1..Lines(m)))
  BY DEF After
<1>4. CASE filter = "none" \/ m = 2 * n
  <2>1. Lines(m) = n /\ (filter = "none" \/ m % 2 # 1)
    <3> HIDE DEF m, n
    <3> QED BY <1>1, <1>4 DEF Lines
  <2>2. f.held = <<>>
    BY <2>1 DEF After
  <2>3. g = f
    BY <2>2 DEF Relay!Flushed
  <2> QED BY <1>2, <1>3, <2>1, <2>3
<1>5. CASE filter # "none" /\ m = 2 * n - 1 /\ n > 0 /\ ~ended
  <2> DEFINE c == n - 1
  <2>1. c \in Nat /\ c < n /\ c + 1 = n /\ m % 2 = 1 /\ (m + 1) \div 2 = c + 1 /\ m \div 2 = c
    <3>1. m = 2 * c + 1 /\ c \in Nat /\ c + 1 = n
      BY SMTT(60), <1>1, <1>5
    <3> HIDE DEF c, m, n
    <3> QED BY <3>1
  <2>2. Lines(m) = c
    BY <1>5, <2>1 DEF Lines
  <2>3. f.held = <<[line |-> c + 1, half |-> 1]>> /\ (f.suppress <=> Relay!UnderNoise(c + 1))
    BY <1>5, <2>1, <2>2 DEF After
  <2>4. f.held # <<>> /\ f.held[1].line = c + 1
    BY <2>3
  <2>5. Lists(f.shown, Relay!LinesToShow \cap (1..c)) /\ Lists(f.events, Taken \cap (1..c))
    BY <1>3, <2>2
  <2> HIDE DEF c
  <2>6. CASE filter = "progress"
    <3>1. g = Relay!RouteLine(f, c + 1)
      BY <2>4, <2>6 DEF Relay!Flushed
    <3>2. Lists(g.shown, Relay!LinesToShow \cap (1..(c + 1))) /\ Lists(g.events, Taken \cap (1..(c + 1)))
      BY <1>3, <1>5, <2>1, <2>3, <2>5, <2>6, <3>1, RouteAdds
    <3> QED BY <1>2, <2>1, <3>2
  <2>7. CASE filter # "progress"
    <3>1. filter = "lines"
      BY <1>5, <2>7 DEF Scripted
    <3>2. c + 1 \in DOMAIN script
      BY <2>1, LenProperties DEF Scripted
    <3>3. c + 1 \in Relay!LinesToShow <=> script[c + 1] # "noise"
      BY <1>5, <2>1, <3>1, <3>2 DEF Relay!LinesToShow, Relay!Meant
    <3>4. c + 1 \notin Taken
      BY <3>1 DEF Taken
    <3>5. Lists(IF c + 1 \in Relay!LinesToShow THEN Append(f.shown, c + 1) ELSE f.shown, Relay!LinesToShow \cap (1..(c + 1)))
      BY <2>1, <2>5, ListsNext
    <3>6. Lists(f.events, Taken \cap (1..(c + 1)))
      BY <2>1, <2>5, <3>4, ListsNext
    <3>7. CASE script[c + 1] = "noise"
      <4>1. g = [f EXCEPT !.held = <<>>]
        BY <2>4, <3>1, <3>7 DEF Relay!Flushed
      <4>2. g.shown = f.shown /\ g.events = f.events
        BY <1>3, <4>1 DEF States
      <4> QED BY <1>2, <2>1, <3>3, <3>5, <3>6, <3>7, <4>2
    <3>8. CASE script[c + 1] # "noise"
      <4>1. g = [suppress |-> f.suppress, shown |-> Append(f.shown, c + 1), events |-> f.events, held |-> <<>>]
        BY <2>4, <3>1, <3>8 DEF Relay!Flushed
      <4>2. g.shown = Append(f.shown, c + 1) /\ g.events = f.events
        BY <4>1
      <4> QED BY <1>2, <2>1, <3>3, <3>5, <3>6, <3>8, <4>2
    <3> QED BY <3>7, <3>8
  <2> QED BY <2>6, <2>7
<1> QED BY <1>1, <1>4, <1>5

\* Each half is written, in a pipe, or captured; and so is each unit of stdout.
ErrFlows == \E a, b \in Nat : Streams(W, errBuf, errPipe, a, b) /\ unwritten = SubSeq(W, b + 1, Len(W))
OutFlows == \E a, b \in Nat : Streams(Out, outBuf, outPipe, a, b) /\ outLeft = MaxOut - b

\* The filter knows what the drain has captured, until it is flushed of everything.
FilterKnows ==
    IF main = "returned" THEN Told /\ outBuf = Out /\ errBuf = W
    ELSE After(Relay!Filtered, Len(errBuf))

\* Who waits for whom.
Threads ==
    /\ writer \in {"runs", "hangs", "exited", "gone"}
    /\ main \in {"wait", "join_out", "join_err", "flush", "returned", "raised"}
    /\ main \in {"join_out", "join_err", "flush", "returned"} => writer \in {"exited", "gone"}
    /\ writer \in {"exited", "gone"} /\ main # "raised" => unwritten = <<>> /\ outLeft = 0
    /\ outDrain = "eof" => writer = "gone" /\ outPipe = <<>>
    /\ errDrain = "eof" => writer = "gone" /\ errPipe = <<>>
    /\ main \in {"join_err", "flush", "returned"} => outDrain = "eof"
    /\ main \in {"flush", "returned"} => errDrain = "eof"

\* The inductive invariant of the relay.
RelayInv == Scripted /\ ErrFlows /\ OutFlows /\ FilterKnows /\ Threads

\* It says that nothing is lost.
LEMMA RelayTells == RelayInv => NothingLostInRelay
<1> SUFFICES ASSUME RelayInv PROVE Relay!NothingLostInRelay
  BY DEF NothingLostInRelay
<1> DEFINE n == Len(script)
<1>1. Scripted /\ FilterKnows /\ n \in Nat /\ DOMAIN script = 1..n
  BY LenProperties DEF RelayInv, Scripted
<1>2. /\ Relay!LinesToShow \subseteq Nat \ {0} /\ Taken \subseteq Nat \ {0} /\ Taken \subseteq Relay!ProgressEvents
      /\ Relay!LinesToShow \cap (1..n) = Relay!LinesToShow /\ Taken \cap (1..n) = Taken
  BY <1>1 DEF Relay!LinesToShow, Taken, Relay!ProgressEvents
<1>3. PICK k \in Nat : Lists(shown, Relay!LinesToShow \cap (1..k)) /\ Lists(events, Taken \cap (1..k))
  <2>1. CASE main = "returned"
    BY <1>1, <1>2, <2>1 DEF FilterKnows, Told
  <2>2. CASE main # "returned"
    <3> DEFINE m == Len(errBuf)
    <3>1. m \in Nat
      BY WrittenIs, BufIs DEF RelayInv, ErrFlows, Streams
    <3>2. Lines(m) \in Nat
      BY <3>1 DEF Lines
    <3>3. After(Relay!Filtered, m)
      BY <1>1, <2>2 DEF FilterKnows
    <3>4. Relay!Filtered.shown = shown /\ Relay!Filtered.events = events
      BY DEF Relay!Filtered
    <3> HIDE DEF m
    <3> QED BY <3>2, <3>3, <3>4, Zenon DEF After
  <2> QED BY <2>1, <2>2
<1>4. Relay!Begins(shown, Relay!LinesToShow)
  BY <1>2, <1>3, ListsBegins
<1>5. Relay!Begins(events, Relay!ProgressEvents)
  <2>1. CASE filter = "progress"
    BY <1>2, <1>3, <2>1, ListsBegins DEF Taken
  <2>2. CASE filter # "progress"
    <3>1. DOMAIN events = {}
      BY <1>3, <2>2 DEF Taken, Lists, ToSet
    <3> QED BY <3>1 DEF Relay!Begins
  <2> QED BY <2>1, <2>2
<1>6. ASSUME main = "returned"
      PROVE  /\ outBuf = [i \in 1..MaxOut |-> MaxOut + 1 - i] /\ errBuf = Relay!Written
             /\ Relay!LinesToShow \subseteq Relay!ToSet(shown)
             /\ filter = "progress" => Relay!ProgressEvents \subseteq Relay!ToSet(events)
  <2>1. Told /\ outBuf = Out /\ errBuf = W
    BY <1>1, <1>6 DEF FilterKnows
  <2>2. ToSet(shown) = Relay!LinesToShow /\ ToSet(events) = Taken
    BY <2>1 DEF Told, Lists
  <2>3. Relay!ToSet(shown) = ToSet(shown) /\ Relay!ToSet(events) = ToSet(events)
    BY Zenon DEF ToSet, Relay!ToSet
  <2> QED BY <2>1, <2>2, <2>3 DEF Out, W, Taken
<1> QED BY <1>4, <1>5, <1>6, Zenon DEF Relay!NothingLostInRelay

\* It holds at the start.
LEMMA RelayStarts == Relay!Init => RelayInv
<1> SUFFICES ASSUME Relay!Init PROVE RelayInv
  OBVIOUS
<1>1. Scripted
  <2>1. PICK n \in 0..MaxLines : script \in [1..n -> Relay!LineKinds]
    BY DEF Relay!Init
  <2>2. n \in Nat
    BY <2>1, RelayAssumption
  <2>3. script \in Seq(Relay!LineKinds)
    BY <2>1, <2>2
  <2> QED BY <2>3 DEF Relay!Init, Scripted
<1>2. /\ unwritten = W /\ outLeft = MaxOut /\ outPipe = <<>> /\ errPipe = <<>> /\ outBuf = <<>> /\ errBuf = <<>>
      /\ writer \in {"runs", "hangs"} /\ main = "wait" /\ outDrain = "reads" /\ errDrain = "reads"
      /\ held = <<>> /\ suppress = FALSE /\ shown = <<>> /\ events = <<>>
  BY DEF Relay!Init, W
<1>3. ASSUME NEW S, NEW s \in Seq(S) PROVE Streams(s, <<>>, <<>>, 0, 0) /\ s = SubSeq(s, 0 + 1, Len(s))
  <2>1. SubSeq(s, 1, 0) = <<>> /\ SubSeq(s, 0 + 1, 0) = <<>>
    BY SubSeqEmpty
  <2>2. Len(s) \in Nat /\ SubSeq(s, 0 + 1, Len(s)) = s
    BY SubSeqFull, LenProperties
  <2> QED BY <2>1, <2>2 DEF Streams
<1>4. ErrFlows
  BY <1>1, <1>2, <1>3, WrittenIs DEF ErrFlows
<1>5. OutFlows
  <2>1. MaxOut = MaxOut - 0
    BY OutIs
  <2> QED BY <1>2, <1>3, <2>1, OutIs DEF OutFlows
<1>6. After(Relay!Filtered, 0)
  <2> DEFINE f == Relay!Filtered
  <2>1. f = [suppress |-> FALSE, shown |-> <<>>, events |-> <<>>, held |-> <<>>]
    BY <1>2, Zenon DEF Relay!Filtered
  <2>2. f \in States
    <3>1. <<>> \in Seq(Nat) /\ <<>> \in Seq([line : Nat, half : {1, 2}])
      BY EmptySeq
    <3> QED BY <2>1, <3>1 DEF States
  <2>3. Lines(0) = 0
    BY DEF Lines
  <2>4. Lists(<<>>, {})
    BY EmptySeq DEF Lists, ToSet
  <2>5. Relay!LinesToShow \cap (1..0) = {} /\ Taken \cap (1..0) = {}
    OBVIOUS
  <2>6. ~Relay!UnderNoise(0 + 1)
    BY DEF Relay!UnderNoise
  <2>7. f.shown = <<>> /\ f.events = <<>> /\ f.held = <<>> /\ ~f.suppress /\ 0 % 2 # 1
    BY <2>1
  <2> HIDE DEF f
  <2>8. After(f, 0)
    BY <2>2, <2>3, <2>4, <2>5, <2>6, <2>7 DEF After
  <2> QED BY <2>8 DEF f
<1>7. FilterKnows
  BY <1>2, <1>6 DEF FilterKnows
<1>8. Threads
  BY <1>2 DEF Threads
<1> QED BY <1>1, <1>4, <1>5, <1>7, <1>8 DEF RelayInv

\* What is fixed at the start stays.
LEMMA RelayStays ==
    ASSUME filter' = filter, script' = script, ended' = ended
    PROVE  /\ W' = W /\ Relay!LinesToShow' = Relay!LinesToShow /\ Taken' = Taken /\ (Scripted => Scripted')
           /\ \A m : Lines(m)' = Lines(m)
           /\ \A m : Relay!UnderNoise(m)' <=> Relay!UnderNoise(m)
<1>1. W' = W
  BY Zenon DEF W, Relay!Written, Relay!Halves, Relay!Half, Relay!Front
<1>2. \A m : Relay!UnderNoise(m)' <=> Relay!UnderNoise(m)
  BY Zenon DEF Relay!UnderNoise
<1>3. Relay!LinesToShow' = Relay!LinesToShow
  BY Zenon DEF Relay!LinesToShow, Relay!Meant, Relay!UnderNoise
<1>4. Taken' = Taken
  BY Zenon DEF Taken, Relay!ProgressEvents
<1>5. \A m : Lines(m)' = Lines(m)
  BY Zenon DEF Lines
<1>6. Scripted => Scripted'
  BY Zenon DEF Scripted, Relay!LineKinds
<1> QED BY <1>1, <1>2, <1>3, <1>4, <1>5, <1>6

\* What is known of the filter stays.
LEMMA FilterStays ==
    ASSUME filter' = filter, script' = script, ended' = ended, NEW f, NEW m, After(f, m), Relay!Becomes(f), Len(errBuf') = m
    PROVE  After(Relay!Filtered, Len(errBuf))'
<1>1. f = [suppress |-> suppress', shown |-> shown', events |-> events', held |-> held']
  <2>1. f \in [suppress : BOOLEAN, shown : Seq(Nat), events : Seq(Nat), held : Seq([line : Nat, half : {1, 2}])]
    BY DEF After, States
  <2>2. f = [suppress |-> f.suppress, shown |-> f.shown, events |-> f.events, held |-> f.held]
    BY <2>1
  <2> QED BY <2>2 DEF Relay!Becomes
<1>2. f = Relay!Filtered'
  BY <1>1, Zenon DEF Relay!Filtered
<1> QED BY <1>2, RelayStays, Zenon DEF After, States

\* What the subprocess and the verb were started with.
fixed == <<filter, script, ended>>

\* The filter when no chunk is read and no flush made.
LEMMA FilterRests ==
    ASSUME RelayInv, fixed' = fixed, errBuf' = errBuf, <<suppress, shown, events, held>>' = <<suppress, shown, events, held>>,
           main' # "returned", main # "returned"
    PROVE  FilterKnows'
<1>1. After(Relay!Filtered, Len(errBuf))
  BY DEF RelayInv, FilterKnows
<1>2. Relay!Becomes(Relay!Filtered)
  BY DEF Relay!Becomes, Relay!Filtered
<1>3. After(Relay!Filtered, Len(errBuf))'
  <2>1. filter' = filter /\ script' = script /\ ended' = ended /\ Len(errBuf') = Len(errBuf)
    BY DEF fixed
  <2> DEFINE f == Relay!Filtered
             m == Len(errBuf)
  <2>2. After(f, m) /\ Relay!Becomes(f) /\ Len(errBuf') = m
    BY <1>1, <1>2, <2>1
  <2> HIDE DEF f, m
  <2> QED BY <2>1, <2>2, FilterStays
<1> QED BY <1>3 DEF FilterKnows

\* What flows on stderr and on stdout when nothing is moved there.
LEMMA ErrRests ==
    ASSUME RelayInv, fixed' = fixed, errBuf' = errBuf, errPipe' = errPipe, unwritten' = unwritten PROVE ErrFlows'
<1>1. W' = W
  BY RelayStays DEF fixed
<1>2. PICK a \in Nat, b \in Nat : Streams(W, errBuf, errPipe, a, b) /\ unwritten = SubSeq(W, b + 1, Len(W))
  BY DEF RelayInv, ErrFlows
<1>3. Streams(W', errBuf', errPipe', a, b) /\ unwritten' = SubSeq(W', b + 1, Len(W'))
  BY <1>1, <1>2
<1> QED BY <1>3, Zenon DEF ErrFlows, Streams

\* And on stdout.
LEMMA OutRests ==
    ASSUME RelayInv, outBuf' = outBuf, outPipe' = outPipe, outLeft' = outLeft PROVE OutFlows'
BY Zenon DEF RelayInv, OutFlows, Streams, Out

\* A unit of stdout is written.
LEMMA WriteOutOK == ASSUME RelayInv, Relay!WriteOut PROVE RelayInv'
<1>1. /\ fixed' = fixed /\ errBuf' = errBuf /\ errPipe' = errPipe /\ unwritten' = unwritten /\ main' = main /\ writer' = writer
      /\ outBuf' = outBuf /\ outDrain' = outDrain /\ errDrain' = errDrain
      /\ <<suppress, shown, events, held>>' = <<suppress, shown, events, held>>
      /\ writer \in {"runs", "hangs"} /\ outLeft > 0 /\ outLeft' = outLeft - 1 /\ outPipe' = Append(outPipe, outLeft)
  BY DEF Relay!WriteOut, Relay!drainVars, Relay!filterVars, fixed
<1>2. Scripted' /\ ErrFlows'
  BY <1>1, ErrRests, RelayStays DEF RelayInv, fixed
<1>3. Threads /\ main # "returned" /\ outDrain # "eof" /\ errDrain # "eof"
  BY <1>1 DEF RelayInv, Threads
<1>4. FilterKnows'
  BY <1>1, <1>3, FilterRests
<1>5. OutFlows'
  <2>1. PICK a \in Nat, b \in Nat : Streams(Out, outBuf, outPipe, a, b) /\ outLeft = MaxOut - b
    BY DEF RelayInv, OutFlows
  <2>2. b < MaxOut /\ b + 1 \in Nat /\ outLeft' = MaxOut - (b + 1) /\ b + 1 \in 1..MaxOut /\ MaxOut + 1 - (b + 1) = outLeft
    BY <1>1, <2>1, OutIs
  <2>3. Out[b + 1] = outLeft
    BY <2>2, OutIs
  <2>4. Streams(Out, outBuf', outPipe', a, b + 1)
    BY <1>1, <2>1, <2>2, <2>3, OutIs, PipeGrows
  <2> QED BY <2>2, <2>4, Zenon DEF OutFlows, Streams, Out
<1>6. Threads'
  BY <1>1, <1>3 DEF Threads
<1> QED BY <1>2, <1>4, <1>5, <1>6 DEF RelayInv

\* A half of a line of stderr is written.
LEMMA WriteErrOK == ASSUME RelayInv, Relay!WriteErr PROVE RelayInv'
<1>1. /\ fixed' = fixed /\ errBuf' = errBuf /\ main' = main /\ writer' = writer
      /\ outBuf' = outBuf /\ outPipe' = outPipe /\ outLeft' = outLeft /\ outDrain' = outDrain /\ errDrain' = errDrain
      /\ <<suppress, shown, events, held>>' = <<suppress, shown, events, held>>
      /\ writer \in {"runs", "hangs"} /\ unwritten # <<>>
      /\ unwritten' = Tail(unwritten) /\ errPipe' = Append(errPipe, Head(unwritten))
  BY DEF Relay!WriteErr, Relay!drainVars, Relay!filterVars, fixed
<1>2. Scripted' /\ W' = W /\ Scripted
  BY <1>1, RelayStays DEF RelayInv, fixed
<1>3. Threads /\ main # "returned" /\ outDrain # "eof" /\ errDrain # "eof"
  BY <1>1 DEF RelayInv, Threads
<1>4. FilterKnows' /\ OutFlows'
  BY <1>1, <1>3, FilterRests, OutRests
<1>5. ErrFlows'
  <2>1. PICK a \in Nat, b \in Nat : Streams(W, errBuf, errPipe, a, b) /\ unwritten = SubSeq(W, b + 1, Len(W))
    BY DEF RelayInv, ErrFlows
  <2> DEFINE S == [line : Nat, half : {1, 2}]
  <2>2. W \in Seq(S) /\ Len(W) \in Nat /\ b \in 0..Len(W)
    BY <1>2, <2>1, WrittenIs, LenProperties DEF Streams
  <2> HIDE DEF S
  <2>3. b < Len(W)
    BY <1>1, <2>1, <2>2, QueriesLeft
  <2>4. Head(unwritten) = W[b + 1] /\ Tail(unwritten) = SubSeq(W, b + 2, Len(W))
    BY <2>1, <2>2, <2>3, QueriesLeft
  <2>5. Streams(W, errBuf, errPipe', a, b + 1)
    BY <1>1, <2>1, <2>2, <2>3, <2>4, PipeGrows
  <2>6. b + 1 \in Nat /\ (b + 1) + 1 = b + 2
    OBVIOUS
  <2>7. Streams(W', errBuf', errPipe', a, b + 1) /\ unwritten' = SubSeq(W', (b + 1) + 1, Len(W'))
    BY <1>1, <1>2, <2>4, <2>5, <2>6
  <2> QED BY <2>6, <2>7, Zenon DEF ErrFlows, Streams
<1>6. Threads'
  BY <1>1, <1>3 DEF Threads
<1> QED BY <1>2, <1>4, <1>5, <1>6 DEF RelayInv

\* The drain of stdout reads.
LEMMA DrainOutOK == ASSUME RelayInv, NEW n, Relay!DrainOut(n) PROVE RelayInv'
<1>1. /\ fixed' = fixed /\ errBuf' = errBuf /\ errPipe' = errPipe /\ unwritten' = unwritten /\ main' = main /\ writer' = writer
      /\ outLeft' = outLeft /\ outDrain' = outDrain /\ errDrain' = errDrain
      /\ <<suppress, shown, events, held>>' = <<suppress, shown, events, held>>
      /\ outDrain = "reads" /\ n \in 1..Len(outPipe)
      /\ outPipe' = SubSeq(outPipe, n + 1, Len(outPipe)) /\ outBuf' = outBuf \o SubSeq(outPipe, 1, n)
  BY DEF Relay!DrainOut, Relay!childVars, Relay!filterVars, fixed
<1>2. Scripted' /\ ErrFlows'
  BY <1>1, ErrRests, RelayStays DEF RelayInv, fixed
<1>3. Threads /\ main # "returned" /\ outDrain # "eof"
  BY <1>1 DEF RelayInv, Threads
<1>4. FilterKnows'
  BY <1>1, <1>3, FilterRests
<1>5. OutFlows'
  <2>1. PICK a \in Nat, b \in Nat : Streams(Out, outBuf, outPipe, a, b) /\ outLeft = MaxOut - b
    BY DEF RelayInv, OutFlows
  <2>2. Streams(Out, outBuf', outPipe', a + n, b) /\ a + n \in Nat
    BY <1>1, <2>1, OutIs, PipeDrains
  <2> QED BY <1>1, <2>1, <2>2, Zenon DEF OutFlows, Streams, Out
<1>6. Threads'
  BY <1>1, <1>3 DEF Threads
<1> QED BY <1>2, <1>4, <1>5, <1>6 DEF RelayInv

\* The drain of stderr reads, and feeds the filter.
LEMMA DrainErrOK == ASSUME RelayInv, NEW n, Relay!DrainErr(n) PROVE RelayInv'
<1>1. /\ fixed' = fixed /\ unwritten' = unwritten /\ main' = main /\ writer' = writer
      /\ outBuf' = outBuf /\ outPipe' = outPipe /\ outLeft' = outLeft /\ outDrain' = outDrain /\ errDrain' = errDrain
      /\ errDrain = "reads" /\ n \in 1..Len(errPipe)
      /\ errPipe' = SubSeq(errPipe, n + 1, Len(errPipe)) /\ errBuf' = errBuf \o SubSeq(errPipe, 1, n)
      /\ Relay!Becomes(Relay!Fed(Relay!Filtered, SubSeq(errPipe, 1, n)))
  BY DEF Relay!DrainErr, Relay!childVars, fixed
<1>2. Scripted' /\ W' = W /\ Scripted /\ filter' = filter /\ script' = script /\ ended' = ended
  BY <1>1, RelayStays DEF RelayInv, fixed
<1>3. Threads /\ main # "returned" /\ errDrain # "eof"
  BY <1>1 DEF RelayInv, Threads
<1>4. OutFlows'
  BY <1>1, OutRests
<1>5. PICK a \in Nat, b \in Nat : Streams(W, errBuf, errPipe, a, b) /\ unwritten = SubSeq(W, b + 1, Len(W))
  BY DEF RelayInv, ErrFlows
<1> DEFINE S == [line : Nat, half : {1, 2}]
<1>6. W \in Seq(S) /\ Len(W) \in Nat /\ b <= Len(W)
  BY <1>2, <1>5, WrittenIs, LenProperties DEF Streams
<1> HIDE DEF S
<1>7. /\ Streams(W, errBuf', errPipe', a + n, b)
      /\ SubSeq(errPipe, 1, n) = SubSeq(W, a + 1, a + n) /\ a + n <= b /\ a + n \in Nat
  <2>1. Streams(W, errBuf, errPipe, a, b) /\ W \in Seq(S) /\ n \in 1..Len(errPipe)
    BY <1>1, <1>5, <1>6
  <2>2. /\ Streams(W, errBuf \o SubSeq(errPipe, 1, n), SubSeq(errPipe, n + 1, Len(errPipe)), a + n, b)
        /\ SubSeq(errPipe, 1, n) = SubSeq(W, a + 1, a + n) /\ a + n <= b /\ a + n \in Nat
    BY <2>1, PipeDrains
  <2> QED BY <1>1, <2>2
<1>8. ErrFlows'
  <2>1. Streams(W', errBuf', errPipe', a + n, b) /\ unwritten' = SubSeq(W', b + 1, Len(W'))
    BY <1>1, <1>2, <1>5, <1>7
  <2> QED BY <1>7, <2>1, Zenon DEF ErrFlows, Streams
<1>9. FilterKnows'
  <2>1. After(Relay!Filtered, a)
    <3>1. After(Relay!Filtered, Len(errBuf))
      BY <1>3 DEF RelayInv, FilterKnows
    <3> QED BY <1>5, <1>6, <3>1, BufIs
  <2> DEFINE m == a + n
             f == Relay!Fed(Relay!Filtered, SubSeq(errPipe, 1, n))
  <2>2. m \in Nat /\ a <= m /\ m <= Len(W)
    <3>1. n \in Nat
      BY <1>1
    <3> QED BY <1>6, <1>7, <3>1
  <2>3. SubSeq(errPipe, 1, n) = SubSeq(W, a + 1, m)
    BY <1>7
  <2>4. Len(errBuf') = m
    BY <1>6, <1>7, BufIs
  <2>5. Relay!Becomes(f)
    BY <1>1
  <2> HIDE DEF m
  <2>6. After(f, m)
    <3> DEFINE g == Relay!Filtered
    <3>1. After(g, a)
      BY <2>1
    <3> HIDE DEF g
    <3>2. After(Relay!Fed(g, SubSeq(W, a + 1, m)), m)
      BY <1>2, <2>2, <3>1, FedAfter
    <3> QED BY <2>3, <3>2 DEF g
  <2> HIDE DEF f
  <2>7. After(Relay!Filtered, Len(errBuf))'
    BY <1>2, <2>4, <2>5, <2>6, FilterStays
  <2> QED BY <1>1, <1>3, <2>7 DEF FilterKnows
<1>10. Threads'
  BY <1>1, <1>3 DEF Threads
<1> QED BY <1>2, <1>4, <1>8, <1>9, <1>10 DEF RelayInv

\* Steps that move no data and do not flush.
LEMMA OthersOK ==
    ASSUME RelayInv, main # "returned",
           Relay!ChildExits \/ Relay!PipesClose \/ Relay!DrainEof \/ Relay!WaitChild \/ Relay!JoinOut \/ Relay!JoinErr \/ Relay!Interrupt
    PROVE  RelayInv'
<1>1. /\ fixed' = fixed /\ errBuf' = errBuf /\ errPipe' = errPipe /\ unwritten' = unwritten
      /\ outBuf' = outBuf /\ outPipe' = outPipe /\ outLeft' = outLeft
      /\ <<suppress, shown, events, held>>' = <<suppress, shown, events, held>>
  BY DEF Relay!ChildExits, Relay!PipesClose, Relay!DrainEof, Relay!WaitChild, Relay!JoinOut, Relay!JoinErr, Relay!Interrupt,
         Relay!Goto, Relay!pipeVars, Relay!drainVars, Relay!filterVars, Relay!childVars, fixed
<1>2. Scripted' /\ ErrFlows' /\ OutFlows'
  BY <1>1, ErrRests, OutRests, RelayStays DEF RelayInv, fixed
<1>3. Threads /\ main \in {"wait", "join_out", "join_err", "flush", "raised"}
  BY DEF RelayInv, Threads
<1>4. Threads' /\ main' # "returned"
  <2>1. CASE Relay!ChildExits
    BY <1>1, <1>3, <2>1 DEF Threads, Relay!ChildExits, Relay!drainVars
  <2>2. CASE Relay!PipesClose
    BY <1>1, <1>3, <2>2 DEF Threads, Relay!PipesClose, Relay!drainVars
  <2>3. CASE Relay!DrainEof
    BY <1>1, <1>3, <2>3 DEF Threads, Relay!DrainEof, Relay!childVars
  <2>4. CASE Relay!WaitChild
    BY <1>1, <1>3, <2>4 DEF Threads, Relay!WaitChild, Relay!Goto, Relay!drainVars, Relay!childVars
  <2>5. CASE Relay!JoinOut
    BY <1>1, <1>3, <2>5 DEF Threads, Relay!JoinOut, Relay!Goto, Relay!drainVars, Relay!childVars
  <2>6. CASE Relay!JoinErr
    BY <1>1, <1>3, <2>6 DEF Threads, Relay!JoinErr, Relay!Goto, Relay!drainVars, Relay!childVars
  <2>7. CASE Relay!Interrupt
    BY <1>1, <1>3, <2>7 DEF Threads, Relay!Interrupt, Relay!drainVars
  <2> QED BY <2>1, <2>2, <2>3, <2>4, <2>5, <2>6, <2>7
<1>5. FilterKnows'
  BY <1>1, <1>4, FilterRests
<1> QED BY <1>2, <1>4, <1>5 DEF RelayInv

\* The flush comes when everything has been read.
LEMMA FlushOK == ASSUME RelayInv, Relay!Flush PROVE RelayInv'
<1>1. /\ fixed' = fixed /\ errBuf' = errBuf /\ errPipe' = errPipe /\ unwritten' = unwritten
      /\ outBuf' = outBuf /\ outPipe' = outPipe /\ outLeft' = outLeft
      /\ writer' = writer /\ outDrain' = outDrain /\ errDrain' = errDrain
      /\ main = "flush" /\ main' = "returned" /\ Relay!Becomes(Relay!Flushed(Relay!Filtered))
  BY DEF Relay!Flush, Relay!Goto, Relay!pipeVars, Relay!drainVars, Relay!childVars, fixed
<1>2. Scripted' /\ ErrFlows' /\ OutFlows' /\ Scripted
  BY <1>1, ErrRests, OutRests, RelayStays DEF RelayInv, fixed
<1>3. /\ Threads /\ outDrain = "eof" /\ errDrain = "eof" /\ outPipe = <<>> /\ errPipe = <<>> /\ writer = "gone"
      /\ unwritten = <<>> /\ outLeft = 0
  BY <1>1 DEF RelayInv, Threads
<1>4. Threads'
  BY <1>1, <1>3 DEF Threads
<1> DEFINE S == [line : Nat, half : {1, 2}]
<1>5. W \in Seq(S)
  BY <1>2, WrittenIs
<1> HIDE DEF S
<1>6. errBuf = W
  <2>1. PICK a \in Nat, b \in Nat : Streams(W, errBuf, errPipe, a, b) /\ unwritten = SubSeq(W, b + 1, Len(W))
    BY DEF RelayInv, ErrFlows
  <2>2. b = Len(W)
    BY <1>3, <1>5, <2>1, NoneLeft DEF Streams
  <2> QED BY <1>3, <1>5, <2>1, <2>2, ReadWhole
<1>7. outBuf = Out
  <2>1. PICK a \in Nat, b \in Nat : Streams(Out, outBuf, outPipe, a, b) /\ outLeft = MaxOut - b
    BY DEF RelayInv, OutFlows
  <2>2. b = Len(Out)
    BY <1>3, <2>1, OutIs
  <2> QED BY <1>3, <2>1, <2>2, OutIs, ReadWhole
<1>8. /\ Lists(shown', Relay!LinesToShow) /\ Lists(events', Taken)
  <2> DEFINE f == Relay!Filtered
             g == Relay!Flushed(f)
  <2>1. After(f, Len(W))
    BY <1>1, <1>6 DEF RelayInv, FilterKnows
  <2>2. shown' = g.shown /\ events' = g.events
    BY <1>1 DEF Relay!Becomes
  <2> HIDE DEF f
  <2>3. Lists(g.shown, Relay!LinesToShow) /\ Lists(g.events, Taken)
    BY <1>2, <2>1, FlushTells
  <2> QED BY <2>2, <2>3
<1>9. Told'
  <2>1. Relay!LinesToShow' = Relay!LinesToShow /\ Taken' = Taken
    BY <1>1, RelayStays DEF fixed
  <2>2. Lists(shown', Relay!LinesToShow') /\ Lists(events', Taken')
    BY <1>8, <2>1
  <2> QED BY <2>2, Zenon DEF Told, Lists, ToSet
<1>10. FilterKnows'
  <2>1. W' = W /\ Out' = Out
    BY <1>1, RelayStays DEF fixed, Out
  <2> QED BY <1>1, <1>6, <1>7, <1>9, <2>1 DEF FilterKnows
<1> QED BY <1>2, <1>4, <1>10 DEF RelayInv

\* When it has returned nothing happens any more.
LEMMA ReturnedRests ==
    ASSUME RelayInv, main = "returned", [Relay!Next]_(Relay!vars) PROVE Relay!vars' = Relay!vars
<1>1. writer = "gone" /\ outDrain = "eof" /\ errDrain = "eof"
  BY DEF RelayInv, Threads
<1> SUFFICES ASSUME Relay!Next PROVE FALSE
  OBVIOUS
<1> QED BY <1>1 DEF Relay!Next, Relay!Child, Relay!Drains, Relay!Main, Relay!WriteOut, Relay!WriteErr, Relay!ChildExits,
                   Relay!PipesClose, Relay!DrainEof, Relay!DrainOut, Relay!DrainErr, Relay!WaitChild, Relay!JoinOut,
                   Relay!JoinErr, Relay!Flush, Relay!Interrupt, Relay!Goto

\* Nothing changes.
LEMMA RelayStutters == ASSUME RelayInv, Relay!vars' = Relay!vars PROVE RelayInv'
<1>1. /\ fixed' = fixed /\ errBuf' = errBuf /\ errPipe' = errPipe /\ unwritten' = unwritten /\ main' = main
      /\ outBuf' = outBuf /\ outPipe' = outPipe /\ outLeft' = outLeft
      /\ writer' = writer /\ outDrain' = outDrain /\ errDrain' = errDrain
      /\ <<suppress, shown, events, held>>' = <<suppress, shown, events, held>>
  BY DEF Relay!vars, Relay!childVars, Relay!pipeVars, Relay!drainVars, Relay!filterVars, fixed
<1>2. Scripted' /\ ErrFlows' /\ OutFlows'
  BY <1>1, ErrRests, OutRests, RelayStays DEF RelayInv, fixed
<1>3. Threads'
  BY <1>1 DEF RelayInv, Threads
<1>4. CASE main = "returned"
  <2>1. W' = W /\ Taken' = Taken /\ Relay!LinesToShow' = Relay!LinesToShow
    BY <1>1, RelayStays DEF fixed
  <2>2. Told /\ outBuf = Out /\ errBuf = W
    BY <1>4 DEF RelayInv, FilterKnows
  <2>3. Lists(shown', Relay!LinesToShow') /\ Lists(events', Taken')
    BY <1>1, <2>1, <2>2 DEF Told
  <2>4. Told'
    BY <2>3, Zenon DEF Told, Lists, ToSet
  <2>5. Out' = Out
    BY DEF Out
  <2> QED BY <1>1, <1>2, <1>3, <1>4, <2>1, <2>2, <2>4, <2>5 DEF RelayInv, FilterKnows
<1>5. CASE main # "returned"
  <2>1. FilterKnows'
    BY <1>1, <1>5, FilterRests
  <2> QED BY <1>2, <1>3, <2>1 DEF RelayInv
<1> QED BY <1>4, <1>5

\* Every step keeps the invariant.
LEMMA RelaySteps == RelayInv /\ [Relay!Next]_(Relay!vars) => RelayInv'
<1> SUFFICES ASSUME RelayInv, [Relay!Next]_(Relay!vars) PROVE RelayInv'
  OBVIOUS
<1>1. CASE Relay!vars' = Relay!vars
  BY <1>1, RelayStutters
<1>2. CASE main = "returned"
  BY <1>2, ReturnedRests, RelayStutters
<1>3. CASE main # "returned" /\ Relay!Next
  <2>1. CASE Relay!WriteOut
    BY <2>1, WriteOutOK
  <2>2. CASE Relay!WriteErr
    BY <2>2, WriteErrOK
  <2>3. ASSUME NEW n \in 1..PipeSize, Relay!DrainOut(n) PROVE RelayInv'
    BY <2>3, DrainOutOK
  <2>4. ASSUME NEW n \in 1..PipeSize, Relay!DrainErr(n) PROVE RelayInv'
    BY <2>4, DrainErrOK
  <2>5. CASE Relay!Flush
    BY <2>5, FlushOK
  <2>6. CASE Relay!ChildExits \/ Relay!PipesClose \/ Relay!DrainEof \/ Relay!WaitChild \/ Relay!JoinOut \/ Relay!JoinErr \/ Relay!Interrupt
    BY <1>3, <2>6, OthersOK
  <2> QED BY <1>3, <2>1, <2>2, <2>3, <2>4, <2>5, <2>6 DEF Relay!Next, Relay!Child, Relay!Drains, Relay!Main
<1> QED BY <1>1, <1>2, <1>3

\* However the output of a subprocess is cut into chunks, and whenever the operator interrupts:
\* nothing is shown or taken for a progress event that should not have been, twice or out of
\* order, and what is returned is all the child wrote (_popen_capturing_stderr of pipeline.py).
THEOREM RelayLosesNothing == Relay!Spec => []NothingLostInRelay
<1>1. Relay!Init => RelayInv
  BY RelayStarts
<1>2. RelayInv /\ [Relay!Next]_(Relay!vars) => RelayInv'
  BY RelaySteps
<1>3. RelayInv => NothingLostInRelay
  BY RelayTells
<1> QED BY <1>1, <1>2, <1>3, PTL DEF Relay!Spec

----------------------------------------------------------------------------
(* The journal.  An event that was asked for and is neither in the file nor in the *)
(* counter is on its way in a process, so that the proof counts those processes;    *)
(* a process between reading the counter and writing it carries the count.         *)

\* Processes whose event is neither written nor counted yet.
InFlight(d) == {p \in Procs : pc[p] \in {"check", "append"} \cup Bumping /\ today[p] = d}

\* Processes that found room in the file and have not used it yet.
Admitted(d) == {p \in Procs : pc[p] = "append" /\ today[p] = d}

\* Processes that carry the count of the day.
Carrying(d) == {p \in Procs : pc[p] \in {"bump_truncate", "bump_write"} /\ today[p] = d}

Truncated(d) == \E p \in Procs : pc[p] = "bump_write" /\ today[p] = d

NoDayAhead == \A p \in Procs : today[p] <= day

\* Room is granted below the cap only, to each process once.
RoomIsCapped == \A d \in Days : lines[d] + Cardinality(Admitted(d)) <= DayCap + Cardinality(Procs) - 1

\* No event is both in the file or the counter and on its way.
Twice(d) ==
    /\ lines[d] + Count(d) + Cardinality(InFlight(d)) <= emitted[d]
    /\ \A p \in Carrying(d) : lines[d] + seen[p] + Cardinality(InFlight(d)) <= emitted[d]
NoneTwice == \A d \in Days : Twice(d)

\* On a day without trouble one process at a time carries the count, and it has all of it
\* while the file is truncated.
Whole(d) ==
    /\ \A p, q \in Carrying(d) : p = q
    /\ \A p \in Carrying(d) : lines[d] + seen[p] + Cardinality(InFlight(d)) = emitted[d]
    /\ ~Truncated(d) => lines[d] + Count(d) + Cardinality(InFlight(d)) = emitted[d]
NoneMissing == \A d \in Days \ disturbed : d >= day - Retention => Whole(d)

IInv == TypeOK /\ NoDayAhead /\ RoomIsCapped /\ NoneTwice /\ NoneMissing

USE ProcsAssumption, DayCapAssumption, RetentionAssumption, LastDayAssumption

----------------------------------------------------------------------------
\* Cardinalities of sets of processes.
LEMMA Sizes ==
    ASSUME NEW S \in SUBSET Procs, NEW p \in Procs
    PROVE  /\ Cardinality(S) \in Nat /\ Cardinality(Procs) \in Nat
           /\ Cardinality(S) <= Cardinality(Procs)
           /\ Cardinality(S \cup {p}) = IF p \in S THEN Cardinality(S) ELSE Cardinality(S) + 1
           /\ Cardinality(S \ {p}) = IF p \in S THEN Cardinality(S) - 1 ELSE Cardinality(S)
<1>1. IsFiniteSet(S) /\ Cardinality(S) <= Cardinality(Procs)
  BY FS_Subset
<1> QED BY <1>1, FS_CardinalityType, FS_AddElement, FS_RemoveElement

\* A set that changes in whether p is in it, and in nothing else.
LEMMA Toggle ==
    ASSUME NEW S \in SUBSET Procs, NEW T \in SUBSET Procs, NEW p \in Procs,
           \A q \in Procs \ {p} : q \in S <=> q \in T
    PROVE  /\ Cardinality(S) \in Nat /\ Cardinality(T) \in Nat /\ Cardinality(Procs) \in Nat
           /\ Cardinality(T) <= Cardinality(Procs)
           /\ Cardinality(T) = IF p \in T /\ p \notin S THEN Cardinality(S) + 1
                               ELSE IF p \in S /\ p \notin T THEN Cardinality(S) - 1 ELSE Cardinality(S)
<1>1. T = IF p \in T THEN S \cup {p} ELSE S \ {p}
  BY Zenon
<1> QED BY <1>1, Sizes

\* What a step of p alone does to the three sets.
LEMMA OneMoves ==
    ASSUME TypeOK, TypeOK', NEW p \in Procs, NEW d \in Days,
           \A q \in Procs \ {p} : pc'[q] = pc[q] /\ today'[q] = today[q]
    PROVE  /\ Cardinality(InFlight(d)) \in Nat /\ Cardinality(InFlight(d)') \in Nat
           /\ Cardinality(InFlight(d)') =
                IF p \in InFlight(d)' /\ p \notin InFlight(d) THEN Cardinality(InFlight(d)) + 1
                ELSE IF p \in InFlight(d) /\ p \notin InFlight(d)' THEN Cardinality(InFlight(d)) - 1
                ELSE Cardinality(InFlight(d))
           /\ Cardinality(Admitted(d)) \in Nat /\ Cardinality(Procs) \in Nat
           /\ Cardinality(Admitted(d)') <= Cardinality(Procs)
           /\ Cardinality(Admitted(d)') =
                IF p \in Admitted(d)' /\ p \notin Admitted(d) THEN Cardinality(Admitted(d)) + 1
                ELSE IF p \in Admitted(d) /\ p \notin Admitted(d)' THEN Cardinality(Admitted(d)) - 1
                ELSE Cardinality(Admitted(d))
           /\ \A q \in Procs \ {p} : q \in Carrying(d) <=> q \in Carrying(d)'
<1>1. \A q \in Procs \ {p} : /\ q \in InFlight(d) <=> q \in InFlight(d)'
                             /\ q \in Admitted(d) <=> q \in Admitted(d)'
                             /\ q \in Carrying(d) <=> q \in Carrying(d)'
  BY DEF InFlight, Admitted, Carrying
<1>2. /\ InFlight(d) \in SUBSET Procs /\ InFlight(d)' \in SUBSET Procs
      /\ Admitted(d) \in SUBSET Procs /\ Admitted(d)' \in SUBSET Procs
  BY DEF InFlight, Admitted
<1> QED BY <1>1, <1>2, Toggle

----------------------------------------------------------------------------
LEMMA Types == TypeOK /\ [Next]_vars => TypeOK'
<1> SUFFICES ASSUME TypeOK, [Next]_vars PROVE TypeOK'
  OBVIOUS
<1> USE DEF TypeOK, Bumping, Blank
<1>0. ASSUME UNCHANGED vars PROVE TypeOK'
  BY <1>0 DEF vars
<1>1. ASSUME Midnight PROVE TypeOK'
  BY <1>1 DEF Midnight, Days
<1>2. ASSUME NEW p \in Procs, Emit(p) PROVE TypeOK'
  BY <1>2 DEF Emit, Goto
<1>3. ASSUME NEW p \in Procs, CheckSize(p) PROVE TypeOK'
  BY <1>3 DEF CheckSize, Goto
<1>4. ASSUME NEW p \in Procs, AppendLine(p) PROVE TypeOK'
  BY <1>4 DEF AppendLine, Goto
<1>5. ASSUME NEW p \in Procs, PruneOld(p) PROVE TypeOK'
  BY <1>5 DEF PruneOld, Goto
<1>6. ASSUME NEW p \in Procs, BumpRead(p) PROVE TypeOK'
  <2>1. Count(today[p]) \in Nat
    BY DEF Count
  <2> QED BY <1>6, <2>1 DEF BumpRead, Goto
<1>7. ASSUME NEW p \in Procs, BumpTruncate(p) \/ BumpWrite(p) \/ GiveUp(p) PROVE TypeOK'
  BY <1>7 DEF BumpTruncate, BumpWrite, GiveUp, Goto
<1> QED BY <1>0, <1>1, <1>2, <1>3, <1>4, <1>5, <1>6, <1>7 DEF Next, Record, Bump

----------------------------------------------------------------------------
LEMMA NoDayIsAhead == TypeOK /\ NoDayAhead /\ [Next]_vars => NoDayAhead'
<1> SUFFICES ASSUME TypeOK, NoDayAhead, [Next]_vars PROVE NoDayAhead'
  OBVIOUS
<1> USE DEF TypeOK, NoDayAhead, Days
<1>1. CASE Midnight
  BY <1>1 DEF Midnight
<1>2. ASSUME NEW p \in Procs, Emit(p) PROVE NoDayAhead'
  BY <1>2 DEF Emit
<1>3. CASE UNCHANGED <<day, today>>
  BY <1>3
<1> QED BY <1>1, <1>2, <1>3 DEF Next, vars, Record, Bump, CheckSize, AppendLine, PruneOld, BumpRead, BumpTruncate, BumpWrite, GiveUp

\* What a step of p leaves alone of the others.
OnlyMoves(p) == \A q \in Procs \ {p} : pc'[q] = pc[q] /\ today'[q] = today[q] /\ seen'[q] = seen[q]

LEMMA Alone ==
    ASSUME TypeOK, NEW p \in Procs, Record(p) \/ Bump(p) \/ GiveUp(p)
    PROVE  OnlyMoves(p)
  BY DEF TypeOK, OnlyMoves, Record, Bump, Emit, CheckSize, AppendLine, PruneOld, BumpRead, BumpTruncate, BumpWrite, GiveUp, Goto

LEMMA RoomStaysCapped ==
    ASSUME IInv, TypeOK', NEW p \in Procs, Record(p) \/ Bump(p) \/ GiveUp(p)
    PROVE  RoomIsCapped'
<1> SUFFICES ASSUME NEW d \in Days
             PROVE  lines'[d] + Cardinality(Admitted(d)') <= DayCap + Cardinality(Procs) - 1
  BY DEF RoomIsCapped, Days
<1> USE DEF IInv, TypeOK
<1>1. OnlyMoves(p) /\ lines[d] \in Nat /\ lines[d] + Cardinality(Admitted(d)) <= DayCap + Cardinality(Procs) - 1
  BY Alone DEF RoomIsCapped
<1>2. /\ Cardinality(Admitted(d)) \in Nat /\ Cardinality(Procs) \in Nat
      /\ Cardinality(Admitted(d)') <= Cardinality(Procs)
      /\ Cardinality(Admitted(d)') =
                IF p \in Admitted(d)' /\ p \notin Admitted(d) THEN Cardinality(Admitted(d)) + 1
                ELSE IF p \in Admitted(d) /\ p \notin Admitted(d)' THEN Cardinality(Admitted(d)) - 1
                ELSE Cardinality(Admitted(d))
  BY <1>1, OneMoves DEF OnlyMoves
<1>3. CASE CheckSize(p)
  BY <1>1, <1>2, <1>3 DEF CheckSize, Goto, Admitted
<1>4. CASE AppendLine(p)
  BY <1>1, <1>2, <1>4 DEF AppendLine, Goto, Admitted
<1>5. CASE PruneOld(p)
  BY <1>1, <1>2, <1>5 DEF PruneOld, Goto, Admitted
<1>6. CASE Emit(p) \/ Bump(p) \/ GiveUp(p)
  <2>1. lines' = lines /\ p \notin Admitted(d)'
    BY <1>6 DEF Emit, Bump, BumpRead, BumpTruncate, BumpWrite, GiveUp, Goto, Admitted
  <2> QED BY <1>1, <1>2, <2>1
<1> QED BY <1>3, <1>4, <1>5, <1>6 DEF Record

----------------------------------------------------------------------------
LEMMA NoneBecomesTwice ==
    ASSUME IInv, TypeOK', NEW p \in Procs, Record(p) \/ Bump(p) \/ GiveUp(p), NEW d \in Days
    PROVE  Twice(d)'
<1> USE DEF IInv, TypeOK
<1> DEFINE n == Cardinality(InFlight(d))
           m == Cardinality(InFlight(d)')
<1>1. OnlyMoves(p) /\ Twice(d) /\ Count(d) \in Nat
  BY Alone DEF NoneTwice, Count, Blank
<1>2. /\ n \in Nat /\ m \in Nat
      /\ m = IF p \in InFlight(d)' /\ p \notin InFlight(d) THEN n + 1
             ELSE IF p \in InFlight(d) /\ p \notin InFlight(d)' THEN n - 1 ELSE n
      /\ \A q \in Procs \ {p} : q \in Carrying(d) <=> q \in Carrying(d)'
  BY <1>1, OneMoves DEF OnlyMoves
<1>3. SUFFICES /\ lines'[d] + Count(d)' + m <= emitted'[d]
               /\ p \in Carrying(d)' => lines'[d] + seen'[p] + m <= emitted'[d]
               /\ \A q \in Carrying(d) \ {p} : lines'[d] + seen[q] + m <= emitted'[d]
  BY <1>1, <1>2 DEF Twice, Carrying, OnlyMoves
<1> HIDE DEF n, m
<1>4. CASE Emit(p)
  <2>1. p \notin Carrying(d)' /\ Count(d)' = Count(d)
    BY <1>4 DEF Emit, Goto, Carrying, Count
  <2>2. CASE d = day
    <3>1. m <= n + 1 /\ emitted'[d] = emitted[d] + 1 /\ lines' = lines
      BY <1>2, <1>4, <2>2 DEF Emit
    <3> QED BY <1>1, <1>2, <2>1, <3>1 DEF Twice, n, Carrying
  <2>3. CASE d # day
    <3>1. p \notin InFlight(d)' /\ emitted'[d] = emitted[d] /\ lines' = lines
      BY <1>4, <2>3 DEF Emit, InFlight
    <3> QED BY <1>1, <1>2, <2>1, <3>1 DEF Twice, n, Carrying
  <2> QED BY <2>2, <2>3
<1>5. CASE CheckSize(p)
  BY <1>1, <1>2, <1>5 DEF CheckSize, Goto, InFlight, Carrying, Count, Bumping, Twice, n
<1>6. CASE AppendLine(p)
  <2>1. p \notin InFlight(d)' /\ p \notin Carrying(d)' /\ Count(d)' = Count(d) /\ emitted' = emitted
    BY <1>6 DEF AppendLine, Goto, InFlight, Carrying, Count, Bumping
  <2>2. CASE d = today[p]
    <3>1. p \in InFlight(d) /\ lines'[d] = lines[d] + 1
      BY <1>6, <2>2 DEF AppendLine, Goto, InFlight
    <3>2. m = n - 1 /\ lines[d] \in Nat
      BY <1>2, <2>1, <3>1
    <3> QED BY <1>1, <1>2, <2>1, <3>1, <3>2 DEF Twice, n, Carrying
  <2>3. CASE d # today[p]
    <3>1. p \notin InFlight(d) /\ lines'[d] = lines[d]
      BY <1>6, <2>3 DEF AppendLine, InFlight
    <3> QED BY <1>1, <1>2, <2>1, <3>1 DEF Twice, n
  <2> QED BY <2>2, <2>3
<1>7. CASE PruneOld(p)
  <2>1. p \notin InFlight(d)' /\ p \notin InFlight(d) /\ p \notin Carrying(d)' /\ emitted' = emitted
    BY <1>7 DEF PruneOld, Goto, InFlight, Carrying, Bumping
  <2>2. lines'[d] \in Nat /\ lines'[d] <= lines[d] /\ Count(d)' \in Nat /\ Count(d)' <= Count(d)
    BY <1>7 DEF PruneOld, Count, Blank
  <2> QED BY <1>1, <1>2, <2>1, <2>2 DEF Twice, n, Carrying
<1>8. CASE BumpRead(p)
  BY <1>1, <1>2, <1>8 DEF BumpRead, Goto, InFlight, Carrying, Count, Bumping, Twice, n
<1>9. CASE BumpTruncate(p)
  BY <1>1, <1>2, <1>9 DEF BumpTruncate, Goto, InFlight, Carrying, Count, Bumping, Twice, n
<1>10. CASE BumpWrite(p)
  <2>1. p \notin InFlight(d)' /\ p \notin Carrying(d)' /\ lines' = lines /\ emitted' = emitted
    BY <1>10 DEF BumpWrite, Goto, InFlight, Carrying, Bumping
  <2>2. CASE d = today[p]
    <3>1. p \in InFlight(d) /\ p \in Carrying(d) /\ Count(d)' = seen[p] + 1
      BY <1>10, <2>2 DEF BumpWrite, Goto, InFlight, Carrying, Bumping, Count, Blank
    <3> QED BY <1>1, <1>2, <2>1, <3>1 DEF Twice, n, Carrying
  <2>3. CASE d # today[p]
    <3>1. p \notin InFlight(d) /\ Count(d)' = Count(d)
      BY <1>10, <2>3 DEF BumpWrite, InFlight, Count
    <3> QED BY <1>1, <1>2, <2>1, <3>1 DEF Twice, n, Carrying
  <2> QED BY <2>2, <2>3
<1>11. CASE GiveUp(p)
  <2>1. /\ p \notin InFlight(d)' /\ p \notin Carrying(d)' /\ lines' = lines /\ emitted' = emitted
        /\ Count(d)' = Count(d)
    BY <1>11 DEF GiveUp, InFlight, Carrying, Bumping, Count
  <2> QED BY <1>1, <1>2, <2>1 DEF Twice, n, Carrying
<1> QED BY <1>4, <1>5, <1>6, <1>7, <1>8, <1>9, <1>10, <1>11 DEF Record, Bump
LEMMA NoneGoesMissing ==
    ASSUME IInv, TypeOK', NEW p \in Procs, Record(p) \/ Bump(p) \/ GiveUp(p),
           NEW d \in Days \ disturbed', d >= day - Retention
    PROVE  Whole(d)'
<1> USE DEF IInv, TypeOK
<1> DEFINE n == Cardinality(InFlight(d))
           m == Cardinality(InFlight(d)')
<1>0. d \in Days \ disturbed
  BY DEF Record, Bump, Emit, CheckSize, AppendLine, PruneOld, BumpRead, BumpTruncate, BumpWrite, GiveUp
<1>1. OnlyMoves(p) /\ Whole(d) /\ Count(d) \in Nat
  BY <1>0, Alone DEF NoneMissing, Count, Blank
<1>2. /\ n \in Nat /\ m \in Nat
      /\ m = IF p \in InFlight(d)' /\ p \notin InFlight(d) THEN n + 1
             ELSE IF p \in InFlight(d) /\ p \notin InFlight(d)' THEN n - 1 ELSE n
      /\ \A q \in Procs \ {p} : q \in Carrying(d) <=> q \in Carrying(d)'
  BY <1>0, <1>1, OneMoves DEF OnlyMoves
<1>3. SUFFICES /\ p \in Carrying(d)' => /\ lines'[d] + seen'[p] + m = emitted'[d]
                                        /\ Carrying(d) \subseteq {p}
               /\ \A q \in Carrying(d) \ {p} : lines'[d] + seen[q] + m = emitted'[d]
               /\ ~Truncated(d)' => lines'[d] + Count(d)' + m = emitted'[d]
  <2>1. \A q \in Carrying(d)' : q = p \/ q \in Carrying(d) \ {p}
    BY <1>2 DEF Carrying
  <2> QED BY <1>1, <1>2, <2>1 DEF Whole, Carrying, OnlyMoves
<1> HIDE DEF n, m
<1>4. CASE Emit(p)
  <2>1. /\ p \notin Carrying(d)' /\ p \notin Carrying(d) /\ p \notin InFlight(d)
        /\ Count(d)' = Count(d) /\ lines' = lines
    BY <1>4 DEF Emit, Goto, InFlight, Carrying, Count, Bumping
  <2>2. Truncated(d) => Truncated(d)'
    BY <1>1, <1>4 DEF Emit, Goto, Truncated, OnlyMoves
  <2>3. CASE d = day
    <3>1. p \in InFlight(d)' /\ emitted'[d] = emitted[d] + 1
      BY <1>4, <2>3 DEF Emit, Goto, InFlight, Bumping
    <3> QED BY <1>0, <1>1, <1>2, <2>1, <2>2, <3>1 DEF Whole, n, Carrying
  <2>4. CASE d # day
    <3>1. p \notin InFlight(d)' /\ emitted'[d] = emitted[d]
      BY <1>0, <1>4, <2>4 DEF Emit, InFlight
    <3> QED BY <1>0, <1>1, <1>2, <2>1, <2>2, <3>1 DEF Whole, n, Carrying
  <2> QED BY <2>3, <2>4
<1>5. CASE CheckSize(p)
  <2>1. /\ p \notin Carrying(d)' /\ p \notin Carrying(d) /\ (p \in InFlight(d) <=> p \in InFlight(d)')
        /\ Count(d)' = Count(d) /\ lines' = lines /\ emitted' = emitted
    BY <1>5 DEF CheckSize, Goto, InFlight, Carrying, Count, Bumping
  <2>2. Truncated(d) => Truncated(d)'
    BY <1>1, <1>5 DEF CheckSize, Goto, Truncated, OnlyMoves
  <2> QED BY <1>1, <1>2, <2>1, <2>2 DEF Whole, n, Carrying
<1>6. CASE AppendLine(p)
  <2>1. /\ p \notin InFlight(d)' /\ p \notin Carrying(d)' /\ p \notin Carrying(d)
        /\ Count(d)' = Count(d) /\ emitted' = emitted
    BY <1>6 DEF AppendLine, Goto, InFlight, Carrying, Count, Bumping
  <2>2. Truncated(d) => Truncated(d)'
    BY <1>1, <1>6 DEF AppendLine, Goto, Truncated, OnlyMoves
  <2>3. CASE d = today[p]
    <3>1. p \in InFlight(d) /\ lines'[d] = lines[d] + 1
      BY <1>6, <2>3 DEF AppendLine, Goto, InFlight
    <3> QED BY <1>0, <1>1, <1>2, <2>1, <2>2, <3>1 DEF Whole, n, Carrying
  <2>4. CASE d # today[p]
    <3>1. p \notin InFlight(d) /\ lines'[d] = lines[d]
      BY <1>0, <1>6, <2>4 DEF AppendLine, InFlight
    <3> QED BY <1>0, <1>1, <1>2, <2>1, <2>2, <3>1 DEF Whole, n, Carrying
  <2> QED BY <2>3, <2>4
<1>7. CASE PruneOld(p)
  <2>1. /\ p \notin InFlight(d)' /\ p \notin InFlight(d) /\ p \notin Carrying(d)' /\ p \notin Carrying(d)
        /\ emitted' = emitted
    BY <1>7 DEF PruneOld, Goto, InFlight, Carrying, Bumping
  <2>2. ~(d < today[p] - Retention)
    <3>1. d \in Int /\ day \in Int /\ today[p] \in Int /\ today[p] <= day
      BY <1>0 DEF NoDayAhead, Days
    <3> QED BY <3>1
  <2>3. lines'[d] = lines[d] /\ Count(d)' = Count(d)
    BY <1>0, <1>7, <2>2 DEF PruneOld, Count
  <2>4. Truncated(d) => Truncated(d)'
    BY <1>1, <1>7 DEF PruneOld, Goto, Truncated, OnlyMoves
  <2> QED BY <1>1, <1>2, <2>1, <2>3, <2>4 DEF Whole, n, Carrying
<1>8. CASE BumpRead(p)
  <2>1. /\ p \notin Carrying(d) /\ (p \in InFlight(d) <=> p \in InFlight(d)')
        /\ Count(d)' = Count(d) /\ lines' = lines /\ emitted' = emitted
    BY <1>8 DEF BumpRead, Goto, InFlight, Carrying, Count, Bumping
  <2>2. Truncated(d) => Truncated(d)'
    BY <1>1, <1>8 DEF BumpRead, Goto, Truncated, OnlyMoves
  <2>3. CASE d = today[p]
    <3>1. Carrying(d) = {} /\ seen'[p] = Count(d)
      BY <1>8, <2>1, <2>3 DEF BumpRead, Carrying
    <3>2. ~Truncated(d)
      BY <3>1 DEF Carrying, Truncated
    <3> QED BY <1>1, <1>2, <2>1, <2>2, <3>1, <3>2 DEF Whole, n, Carrying
  <2>4. CASE d # today[p]
    <3>1. p \notin Carrying(d)'
      BY <1>8, <2>4 DEF BumpRead, Carrying
    <3> QED BY <1>1, <1>2, <2>1, <2>2, <3>1 DEF Whole, n, Carrying
  <2> QED BY <2>3, <2>4
<1>9. CASE BumpTruncate(p)
  <2>1. /\ (p \in Carrying(d) <=> p \in Carrying(d)') /\ (p \in InFlight(d) <=> p \in InFlight(d)')
        /\ p \in Carrying(d) <=> d = today[p]
        /\ seen' = seen /\ lines' = lines /\ emitted' = emitted
    BY <1>9 DEF BumpTruncate, Goto, InFlight, Carrying, Bumping
  <2>2. CASE d = today[p]
    <3>1. Truncated(d)'
      BY <1>9, <2>2 DEF BumpTruncate, Goto, Truncated
    <3> QED BY <1>1, <1>2, <2>1, <3>1 DEF Whole, n, Carrying
  <2>3. CASE d # today[p]
    <3>1. Count(d)' = Count(d) /\ (Truncated(d) => Truncated(d)')
      BY <1>0, <1>1, <1>9, <2>3 DEF BumpTruncate, Goto, Count, Truncated, OnlyMoves
    <3> QED BY <1>1, <1>2, <2>1, <3>1 DEF Whole, n, Carrying
  <2> QED BY <2>2, <2>3
<1>10. CASE BumpWrite(p)
  <2>1. p \notin InFlight(d)' /\ p \notin Carrying(d)' /\ lines' = lines /\ emitted' = emitted
    BY <1>10 DEF BumpWrite, Goto, InFlight, Carrying, Bumping
  <2>2. CASE d = today[p]
    <3>1. p \in InFlight(d) /\ p \in Carrying(d) /\ Count(d)' = seen[p] + 1
      BY <1>0, <1>10, <2>2 DEF BumpWrite, Goto, InFlight, Carrying, Bumping, Count, Blank
    <3>2. Carrying(d) = {p}
      BY <1>1, <3>1 DEF Whole
    <3> QED BY <1>0, <1>1, <1>2, <2>1, <3>1, <3>2 DEF Whole, n
  <2>3. CASE d # today[p]
    <3>1. p \notin InFlight(d) /\ p \notin Carrying(d) /\ Count(d)' = Count(d) /\ (Truncated(d) => Truncated(d)')
      BY <1>0, <1>1, <1>10, <2>3 DEF BumpWrite, InFlight, Carrying, Count, Goto, Truncated, OnlyMoves
    <3> QED BY <1>1, <1>2, <2>1, <3>1 DEF Whole, n, Carrying
  <2> QED BY <2>2, <2>3
<1>11. CASE GiveUp(p)
  <2>1. /\ p \notin InFlight(d) /\ p \notin InFlight(d)' /\ p \notin Carrying(d)' /\ p \notin Carrying(d)
        /\ lines' = lines /\ emitted' = emitted /\ Count(d)' = Count(d)
    BY <1>11 DEF GiveUp, InFlight, Carrying, Bumping, Count
  <2>2. Truncated(d) => Truncated(d)'
    BY <1>1, <1>11, <2>1 DEF GiveUp, Truncated, OnlyMoves, Carrying
  <2> QED BY <1>1, <1>2, <2>1, <2>2 DEF Whole, n
<1> QED BY <1>4, <1>5, <1>6, <1>7, <1>8, <1>9, <1>10, <1>11 DEF Record, Bump

----------------------------------------------------------------------------
LEMMA Initially == Init => IInv
<1> SUFFICES ASSUME Init PROVE IInv
  OBVIOUS
<1>1. TypeOK
  BY DEF Init, TypeOK, Days, Blank, Bumping
<1>2. NoDayAhead
  BY DEF Init, NoDayAhead
<1>3. \A d \in Days : Admitted(d) = {} /\ InFlight(d) = {} /\ Carrying(d) = {} /\ Count(d) = 0
  BY DEF Init, Admitted, InFlight, Carrying, Count, Bumping, Blank
<1>4. /\ Cardinality(Procs) \in Nat
      /\ \A d \in Days : Cardinality(Admitted(d)) = 0 /\ Cardinality(InFlight(d)) = 0
  BY <1>3, FS_EmptySet, FS_CardinalityType
<1>5. RoomIsCapped
  BY <1>3, <1>4 DEF Init, RoomIsCapped
<1>6. NoneTwice /\ NoneMissing
  BY <1>3, <1>4 DEF Init, NoneTwice, NoneMissing, Twice, Whole
<1> QED BY <1>1, <1>2, <1>5, <1>6 DEF IInv

\* At midnight a day may come to lie past retention, and no other changes.
LEMMA Steps == IInv /\ [Next]_vars => IInv'
<1> SUFFICES ASSUME IInv, [Next]_vars PROVE IInv'
  OBVIOUS
<1>1. TypeOK' /\ NoDayAhead'
  BY Types, NoDayIsAhead DEF IInv
<1>2. ASSUME NEW p \in Procs, Record(p) \/ Bump(p) \/ GiveUp(p) PROVE IInv'
  <2>1. RoomIsCapped'
    BY <1>1, <1>2, RoomStaysCapped
  <2>2. NoneTwice'
    BY <1>1, <1>2, NoneBecomesTwice DEF NoneTwice, Days
  <2>3. NoneMissing'
    <3> SUFFICES ASSUME NEW d \in Days \ disturbed', d >= day' - Retention PROVE Whole(d)'
      BY DEF NoneMissing, Days
    <3>1. day' = day
      BY <1>2 DEF Record, Bump, Emit, CheckSize, AppendLine, PruneOld, BumpRead, BumpTruncate, BumpWrite, GiveUp
    <3> QED BY <1>1, <1>2, <3>1, NoneGoesMissing
  <2> QED BY <1>1, <2>1, <2>2, <2>3 DEF IInv
<1>3. CASE Midnight \/ UNCHANGED vars
  <2>1. /\ lines' = lines /\ drops' = drops /\ pc' = pc /\ today' = today /\ seen' = seen /\ emitted' = emitted
        /\ disturbed' = disturbed /\ (day' = day \/ day' = day + 1)
    BY <1>3 DEF Midnight, vars
  <2>2. RoomIsCapped'
    BY <2>1 DEF IInv, RoomIsCapped, Admitted
  <2>3. NoneTwice'
    BY <2>1 DEF IInv, NoneTwice, Twice, InFlight, Carrying, Count
  <2>4. \A d \in Days : Whole(d) => Whole(d)'
    BY <2>1 DEF Whole, InFlight, Carrying, Count, Truncated
  <2>5. ASSUME NEW d \in Days, d >= day' - Retention PROVE d >= day - Retention
    <3>1. day \in Int /\ d \in Int
      BY DEF IInv, TypeOK, Days
    <3>2. CASE day' = day
      BY <2>5, <3>2
    <3>3. CASE day' = day + 1
      BY <2>5, <3>1, <3>3
    <3> QED BY <2>1, <3>2, <3>3
  <2>6. NoneMissing'
    BY <2>1, <2>4, <2>5 DEF IInv, NoneMissing, Days
  <2> QED BY <1>1, <2>2, <2>3, <2>6 DEF IInv
<1> QED BY <1>2, <1>3 DEF Next

\* What the invariant says where nothing is on its way.
LEMMA Adds == IInv => JournalAddsUp
<1> SUFFICES ASSUME IInv PROVE JournalAddsUp
  OBVIOUS
<1> USE DEF IInv, TypeOK
<1>1. \A d \in Days : /\ Admitted(d) \in SUBSET Procs /\ InFlight(d) \in SUBSET Procs
                      /\ Cardinality(Admitted(d)) \in Nat /\ Cardinality(InFlight(d)) \in Nat
                      /\ Cardinality(Procs) \in Nat /\ Count(d) \in Nat
  <2>1. \A S \in SUBSET Procs : Cardinality(S) \in Nat
    BY FS_Subset, FS_CardinalityType
  <2>2. \A d \in Days : Admitted(d) \in SUBSET Procs /\ InFlight(d) \in SUBSET Procs
    BY DEF Admitted, InFlight
  <2> QED BY <2>1, <2>2 DEF Count, Blank
<1>2. DayIsBounded
  BY <1>1 DEF DayIsBounded, RoomIsCapped
<1>3. ASSUME NEW d \in Days, d >= day - Retention
      PROVE  /\ lines[d] + Count(d) <= emitted[d]
             /\ d \notin disturbed /\ Quiet(d) => lines[d] + Count(d) = emitted[d]
  <2>1. lines[d] + Count(d) <= emitted[d]
    BY <1>1 DEF NoneTwice, Twice
  <2>2. ASSUME d \notin disturbed, Quiet(d) PROVE lines[d] + Count(d) = emitted[d]
    <3>1. InFlight(d) = {} /\ ~Truncated(d)
      BY <2>2 DEF Quiet, InFlight, Truncated, Bumping
    <3>2. lines[d] + Count(d) + Cardinality({}) = emitted[d]
      BY <1>3, <2>2, <3>1 DEF NoneMissing, Whole
    <3> QED BY <1>1, <3>2, FS_EmptySet
  <2> QED BY <2>1, <2>2
<1> QED BY <1>2, <1>3 DEF JournalAddsUp, EventsAreAccounted

----------------------------------------------------------------------------
\* The journal's variables keep their types: a counter file is a number or blank, and
\* no process is anywhere but in a step of record_event.
THEOREM TypeCorrect == Spec => []TypeOK
<1>1. Init => TypeOK
  BY Initially DEF IInv
<1> QED BY <1>1, Types, PTL DEF Spec

\* A day's file exceeds its cap by at most one line for each process but one, an event is
\* never counted twice, and on a day without trouble all of them are in the file or in the
\* counter: "overflow is dropped and counted" (usage/writer.py).
THEOREM JournalIsSound == Spec => []JournalAddsUp
<1> QED BY Initially, Steps, Adds, PTL DEF Spec

----------------------------------------------------------------------------
(* PrAnalysis: the lines of a hunk are those of the symbols that the graph has there. *)

\* The instance counts like the library.
LEMMA DiffSize == \A S : Diffs!Cardinality(S) = Cardinality(S)
BY Zenon DEF Diffs!Cardinality, Cardinality

\* The images of a finite set are finitely many.
LEMMA ImageIsFinite == ASSUME NEW S, IsFiniteSet(S), NEW g PROVE IsFiniteSet({g[x] : x \in S})
<1> DEFINE T == {g[x] : x \in S}
           h == [x \in S |-> g[x]]
<1>1. h \in Surjection(S, T)
  BY DEF Surjection
<1> QED BY <1>1, FS_Surjection

\* The least and the greatest of some numbers up to n.
LEMMA BoundsAre ==
    ASSUME NEW n \in Nat, NEW S, S \subseteq 0..n, NEW x \in S
    PROVE  /\ Diffs!Min(S) \in S /\ (\A y \in S : Diffs!Min(S) <= y)
           /\ Diffs!Max(S) \in S /\ (\A y \in S : Diffs!Max(S) >= y)
<1>1. PICK a \in S : \A y \in S : a <= y
  <2>1. S \subseteq Nat /\ S # {}
    OBVIOUS
  <2> QED BY <2>1, LeastNumber
<1>2. PICK b \in S : \A y \in S : b >= y
  <2> DEFINE T == {n - y : y \in S}
  <2>1. T \subseteq Nat /\ T # {}
    <3>1. \A y \in S : y \in 0..n
      OBVIOUS
    <3> QED BY <3>1
  <2>2. PICK m \in T : \A y \in T : m <= y
    <3> HIDE DEF T
    <3> QED BY <2>1, LeastNumber
  <2>3. PICK b \in S : m = n - b
    OBVIOUS
  <2>4. ASSUME NEW y \in S PROVE b >= y
    <3>1. m <= n - y
      BY <2>2
    <3>2. y \in 0..n /\ b \in 0..n
      BY Zenon
    <3> HIDE DEF T
    <3> QED BY <2>3, <3>1, <3>2
  <2> QED BY <2>4
<1>3. Diffs!Min(S) \in S /\ (\A y \in S : Diffs!Min(S) <= y)
  BY <1>1 DEF Diffs!Min
<1>4. Diffs!Max(S) \in S /\ (\A y \in S : Diffs!Max(S) >= y)
  BY <1>2 DEF Diffs!Max
<1> QED BY <1>3, <1>4

----------------------------------------------------------------------------
\* How many of the numbers up to i are in a set.
UpToIn(S, i) == {k \in 1..i : k \in S}

\* Each number in the set has a place of its own.
LEMMA PlaceIs ==
    ASSUME NEW n \in Nat, NEW S, S \subseteq 1..n, NEW i \in 1..n
    PROVE  /\ Cardinality(UpToIn(S, i)) \in 0..i
           /\ i \in S => Cardinality(UpToIn(S, i)) \in 1..Cardinality(S)
           /\ Cardinality(S) \in Nat
<1>1. IsFiniteSet(1..n) /\ IsFiniteSet(1..i) /\ Cardinality(1..i) = i
  BY FS_Interval
<1>2. IsFiniteSet(S) /\ Cardinality(S) \in Nat
  BY <1>1, FS_Subset, FS_CardinalityType
<1>3. UpToIn(S, i) \in SUBSET (1..i) /\ UpToIn(S, i) \in SUBSET S
  BY DEF UpToIn
<1>4. IsFiniteSet(UpToIn(S, i)) /\ Cardinality(UpToIn(S, i)) <= i /\ Cardinality(UpToIn(S, i)) <= Cardinality(S) /\ Cardinality(UpToIn(S, i)) \in Nat
  BY <1>1, <1>2, <1>3, FS_Subset, FS_CardinalityType
<1>5. ASSUME i \in S PROVE Cardinality(UpToIn(S, i)) # 0
  <2>1. UpToIn(S, i) # {}
    BY <1>5 DEF UpToIn
  <2> QED BY <1>4, <2>1, FS_EmptySet
<1> QED BY <1>2, <1>4, <1>5

\* And no two have the same.
LEMMA PlacesDiffer ==
    ASSUME NEW n \in Nat, NEW S, S \subseteq 1..n, NEW i \in S, NEW j \in S, i < j
    PROVE  Cardinality(UpToIn(S, i)) # Cardinality(UpToIn(S, j))
<1>1. IsFiniteSet(1..j)
  BY FS_Interval
<1>2. UpToIn(S, j) \in SUBSET (1..j) /\ UpToIn(S, i) \in SUBSET UpToIn(S, j) /\ j \in UpToIn(S, j) /\ j \notin UpToIn(S, i)
  BY DEF UpToIn
<1>3. IsFiniteSet(UpToIn(S, j))
  BY <1>1, <1>2, FS_Subset
<1> QED BY <1>2, <1>3, FS_Subset

\* A row's line in a text without the rows of a tag, and who owns it.
LEMMA LineIs ==
    ASSUME NEW f, NEW tag, NEW n \in Nat, DOMAIN texts[f] = 1..n, NEW i \in 1..n
    PROVE  /\ Diffs!LineOf(f, i, tag) \in 0..i
           /\ i \in Diffs!Rows(f, tag) =>
                /\ Diffs!LineOf(f, i, tag) \in DOMAIN Diffs!Text(f, tag)
                /\ Diffs!Text(f, tag)[Diffs!LineOf(f, i, tag)] = texts[f][i].owner
           /\ \E m \in Nat : DOMAIN Diffs!Text(f, tag) = 1..m
<1> DEFINE S == Diffs!Rows(f, tag)
<1>1. S \subseteq 1..n
  BY DEF Diffs!Rows
<1>2. ASSUME NEW k \in 1..n PROVE Diffs!LineOf(f, k, tag) = Cardinality(UpToIn(S, k))
  <2>1. {j \in 1..k : texts[f][j].tag # tag} = UpToIn(S, k)
    BY DEF UpToIn, Diffs!Rows
  <2>2. Diffs!LineOf(f, k, tag) = Cardinality({j \in 1..k : texts[f][j].tag # tag})
    BY Zenon, DiffSize DEF Diffs!LineOf
  <2> QED BY <2>1, <2>2
<1>3. Diffs!Text(f, tag) = [m \in 1..Cardinality(S) |-> texts[f][CHOOSE k \in S : Diffs!LineOf(f, k, tag) = m].owner]
  BY Zenon, DiffSize DEF Diffs!Text
<1> HIDE DEF S
<1>4. /\ Cardinality(UpToIn(S, i)) \in 0..i /\ Cardinality(S) \in Nat
      /\ i \in S => Cardinality(UpToIn(S, i)) \in 1..Cardinality(S)
  BY <1>1, PlaceIs
<1>5. ASSUME i \in S PROVE Diffs!Text(f, tag)[Diffs!LineOf(f, i, tag)] = texts[f][i].owner
  <2> DEFINE x == CHOOSE k \in S : Diffs!LineOf(f, k, tag) = Diffs!LineOf(f, i, tag)
  <2>1. x \in S /\ Diffs!LineOf(f, x, tag) = Diffs!LineOf(f, i, tag)
    BY <1>5
  <2> HIDE DEF x
  <2>2. Cardinality(UpToIn(S, x)) = Cardinality(UpToIn(S, i)) /\ x \in 1..n
    BY <1>1, <1>2, <2>1
  <2>3. ~(x < i)
    BY <1>1, <1>5, <2>1, <2>2, PlacesDiffer
  <2>4. ~(i < x)
    BY <1>1, <1>5, <2>1, <2>2, PlacesDiffer
  <2>5. x = i
    BY <2>2, <2>3, <2>4
  <2>6. Diffs!LineOf(f, i, tag) \in 1..Cardinality(S)
    BY <1>2, <1>4, <1>5
  <2>7. Diffs!Text(f, tag)[Diffs!LineOf(f, i, tag)] = texts[f][x].owner
    BY <1>3, <2>6 DEF x
  <2> QED BY <2>5, <2>7
<1>6. DOMAIN Diffs!Text(f, tag) = 1..Cardinality(S)
  BY <1>3
<1> QED BY <1>2, <1>4, <1>5, <1>6 DEF S

\* A text has lines from 1 on.
LEMMA TextEnds ==
    ASSUME NEW f, NEW tag, NEW n \in Nat, DOMAIN texts[f] = 1..n
    PROVE  \E m \in Nat : DOMAIN Diffs!Text(f, tag) = 1..m
<1>1. IsFiniteSet(1..n) /\ Diffs!Rows(f, tag) \in SUBSET (1..n)
  BY FS_Interval DEF Diffs!Rows
<1>2. Cardinality(Diffs!Rows(f, tag)) \in Nat
  BY <1>1, FS_Subset, FS_CardinalityType
<1>3. DOMAIN Diffs!Text(f, tag) = 1..Cardinality(Diffs!Rows(f, tag))
  BY Zenon, DiffSize DEF Diffs!Text
<1> QED BY <1>2, <1>3

----------------------------------------------------------------------------
\* Every changed row is in a hunk.
LEMMA RunHolds ==
    ASSUME NEW txt, NEW n \in Nat, DOMAIN txt = 1..n, NEW c \in 1..n, txt[c].tag # "kept", DiffContext \in Nat
    PROVE  \E run \in Diffs!Runs(txt) : run[1] \in Nat /\ run[2] \in Nat /\ run[1] <= c /\ c <= run[2]
<1> DEFINE changed == {i \in DOMAIN txt : txt[i].tag # "kept"}
           near    == {i \in DOMAIN txt : \E d \in changed : i \in (d - DiffContext)..(d + DiffContext)}
           first   == {i \in near : i - 1 \notin near}
           Ends(i) == {j \in near : j >= i /\ j + 1 \notin near}
<1>1. Diffs!Runs(txt) = {<<i, Diffs!Min(Ends(i))>> : i \in first}
  BY Zenon DEF Diffs!Runs
<1>2. c \in near /\ near \subseteq 1..n
  <2>1. c \in changed /\ c \in (c - DiffContext)..(c + DiffContext)
    OBVIOUS
  <2> QED BY <2>1
<1> HIDE DEF near, changed
<1> DEFINE A == {j \in Nat : j <= c /\ \A k \in j..c : k \in near}
<1>3. A \subseteq Nat /\ A # {}
  <2>1. c \in A
    <3>1. c \in Nat /\ c <= c /\ \A k \in c..c : k \in near
      BY <1>2
    <3> QED BY <3>1
  <2> QED BY <2>1
<1>4. PICK a \in A : \A y \in A : a <= y
  <2> HIDE DEF A
  <2> QED BY <1>3, LeastNumber
<1>5. a \in near /\ a \in Nat /\ a <= c
  OBVIOUS
<1>6. a - 1 \notin near
  <2> SUFFICES ASSUME a - 1 \in near PROVE FALSE
    OBVIOUS
  <2>1. a - 1 \in Nat /\ a - 1 <= c /\ \A k \in (a - 1)..c : k \in near
    <3>1. a - 1 \in 1..n
      BY <1>2
    <3>2. ASSUME NEW k \in (a - 1)..c PROVE k \in near
      <4>1. k = a - 1 \/ k \in a..c
        BY <1>5
      <4> QED BY <4>1
    <3> QED BY <1>5, <3>1, <3>2
  <2>2. a - 1 \in A
    BY <2>1
  <2> QED BY <1>4, <1>5, <2>2
<1>7. \E m \in Ends(a) : m >= c
  <2> DEFINE D == {k \in Nat : k >= c /\ k + 1 \notin near}
  <2>1. D \subseteq Nat /\ D # {}
    <3>1. n \in D
      BY <1>2
    <3> QED BY <3>1
  <2>2. PICK m \in D : \A y \in D : m <= y
    <3> HIDE DEF D
    <3> QED BY <2>1, LeastNumber
  <2>3. m \in near
    <3>1. CASE m = c
      BY <1>2, <3>1
    <3>2. CASE m # c
      <4>1. m - 1 \in Nat /\ m - 1 >= c /\ m - 1 \notin D /\ m - 1 + 1 = m
        BY <2>2, <3>2
      <4> QED BY <4>1
    <3> QED BY <3>1, <3>2
  <2> QED BY <1>5, <2>3
<1>8. Ends(a) \subseteq 0..n
  <2>1. Ends(a) \subseteq near
    OBVIOUS
  <2>2. \A j \in near : j \in 0..n
    BY <1>2
  <2> HIDE DEF Ends
  <2> QED BY Zenon, <2>1, <2>2
<1> DEFINE b == Diffs!Min(Ends(a))
<1>9. b \in Ends(a)
  <2> HIDE DEF Ends
  <2> QED BY <1>7, <1>8, BoundsAre
<1> HIDE DEF b
<1>10. b \in Nat /\ b >= a /\ b + 1 \notin near
  BY <1>2, <1>9
<1>11. c <= b
  <2> SUFFICES ASSUME b < c PROVE FALSE
    BY <1>10
  <2>1. b + 1 \in a..c
    BY <1>5, <1>10
  <2> QED BY <1>4, <1>10, <2>1
<1>12. <<a, b>> \in Diffs!Runs(txt)
  BY <1>1, <1>5, <1>6 DEF b
<1> QED BY <1>5, <1>10, <1>11, <1>12

\* And its line in it.
LEMMA HunkHolds ==
    ASSUME NEW f, NEW n \in Nat, DOMAIN texts[f] = 1..n, NEW c \in 1..n, texts[f][c].tag # "kept", DiffContext \in Nat
    PROVE  \E h \in Diffs!Hunks(f) :
                /\ h.source \subseteq 0..n /\ h.target \subseteq 0..n
                /\ c \in Diffs!Rows(f, "added") => Diffs!LineOf(f, c, "added") \in h.source
                /\ c \in Diffs!Rows(f, "removed") => Diffs!LineOf(f, c, "removed") \in h.target
                /\ Diffs!Rows(f, "removed") = {} => h.target = {}
<1>1. PICK run \in Diffs!Runs(texts[f]) : run[1] \in Nat /\ run[2] \in Nat /\ run[1] <= c /\ c <= run[2]
  BY RunHolds
<1> DEFINE h == [source |-> Diffs!LinesOf(f, run[1], run[2], "added"), target |-> Diffs!LinesOf(f, run[1], run[2], "removed")]
<1>2. h \in Diffs!Hunks(f)
  BY Zenon DEF Diffs!Hunks
<1>3. ASSUME NEW tag PROVE Diffs!LinesOf(f, run[1], run[2], tag) \subseteq 0..n
  <2>1. \A k \in Diffs!Rows(f, tag) : k \in 1..n
    BY DEF Diffs!Rows
  <2>2. \A k \in 1..n : Diffs!LineOf(f, k, tag) \in 0..n
    <3> SUFFICES ASSUME NEW k \in 1..n PROVE Diffs!LineOf(f, k, tag) \in 0..n
      OBVIOUS
    <3>1. Diffs!LineOf(f, k, tag) \in 0..k
      BY LineIs
    <3> QED BY <3>1
  <2> QED BY <2>1, <2>2 DEF Diffs!LinesOf
<1>4. ASSUME NEW tag, c \in Diffs!Rows(f, tag) PROVE Diffs!LineOf(f, c, tag) \in Diffs!LinesOf(f, run[1], run[2], tag)
  <2>1. c \in (run[1]..run[2]) \cap Diffs!Rows(f, tag)
    BY <1>1, <1>4
  <2> QED BY <2>1 DEF Diffs!LinesOf
<1>5. Diffs!Rows(f, "removed") = {} => Diffs!LinesOf(f, run[1], run[2], "removed") = {}
  BY DEF Diffs!LinesOf
<1>6. h.source = Diffs!LinesOf(f, run[1], run[2], "added") /\ h.target = Diffs!LinesOf(f, run[1], run[2], "removed")
  OBVIOUS
<1> HIDE DEF h
<1> QED BY <1>2, <1>3, <1>4, <1>5, <1>6

\* The owner of a line, and its type, are under every hunk with the line.
LEMMA UnderHolds ==
    ASSUME NEW p, p # Nothing, NEW n \in Nat, NEW m \in Nat, DOMAIN built[p] = 1..m,
           NEW span, span \subseteq 0..n, NEW l \in span, l \in 1..m, built[p][l] # Nothing,
           NEW s \in {built[p][l], DiffTypes[built[p][l]]}
    PROVE  s \in Diffs!Under(p, span)
<1> DEFINE own == Diffs!Owned(p, s)
<1>1. own = {i \in DOMAIN built[p] : built[p][i] # Nothing /\ s \in {built[p][i], DiffTypes[built[p][i]]}}
  BY Zenon DEF Diffs!Owned
<1>2. l \in own /\ own \subseteq 1..m
  BY <1>1
<1>3. s \in Diffs!Symbols(p)
  <2>1. built[p][l] \in Diffs!Range(built[p]) \ {Nothing}
    BY DEF Diffs!Range
  <2>2. Diffs!Symbols(p) = UNION {{o, DiffTypes[o]} : o \in Diffs!Range(built[p]) \ {Nothing}}
    BY Zenon DEF Diffs!Symbols
  <2> QED BY <2>1, <2>2
<1> HIDE DEF own
<1>4. Diffs!Min(own) \in own /\ Diffs!Min(own) <= l /\ Diffs!Max(own) \in own /\ Diffs!Max(own) >= l
  <2>1. own \subseteq 0..m
    BY <1>2
  <2> QED BY <1>2, <2>1, BoundsAre
<1>5. Diffs!Min(span) \in span /\ Diffs!Min(span) <= l /\ Diffs!Max(span) \in span /\ Diffs!Max(span) >= l
  BY BoundsAre
<1>6. Diffs!Min(own) <= Diffs!Max(span) /\ Diffs!Max(own) >= Diffs!Min(span)
  <2>1. Diffs!Min(own) \in 1..m /\ Diffs!Max(own) \in 1..m /\ Diffs!Min(span) \in 0..n /\ Diffs!Max(span) \in 0..n /\ l \in 1..m
    BY <1>2, <1>4, <1>5
  <2> QED BY <1>4, <1>5, <2>1
<1>7. Diffs!Under(p, span) = {t \in Diffs!Symbols(p) : Diffs!Min(Diffs!Owned(p, t)) <= Diffs!Max(span) /\ Diffs!Max(Diffs!Owned(p, t)) >= Diffs!Min(span)}
  <2>1. ~(p = Nothing \/ span = {})
    OBVIOUS
  <2> QED BY Zenon, <2>1 DEF Diffs!Under
<1> QED BY <1>3, <1>6, <1>7 DEF own

----------------------------------------------------------------------------
\* Each text is a sequence of rows.
DiffRow  == [tag : {"kept", "added", "removed"},
             owner : {Nothing} \cup DOMAIN DiffTypes \cup UNION {ToSet(DiffBase[f]) : f \in DOMAIN DiffBase}]
TextsAre == texts \in [DOMAIN DiffBase -> Seq(DiffRow)]
\* No line of the old text is lost: each of these lines has a row that was not added.
CoveredBy(D, txt) ==
    \E e \in [D -> {i \in DOMAIN txt : txt[i].tag # "added"}] : \A i, j \in D : e[i] = e[j] => i = j
\* What the graph was built from are lists of lines.
SourcesAre(b) == IsFiniteSet(DOMAIN b) /\ \A p \in DOMAIN b : \E n \in Nat : DOMAIN b[p] = 1..n
DiffInv == TextsAre /\ (\A f \in DOMAIN DiffBase : CoveredBy(DOMAIN DiffBase[f], texts[f])) /\ SourcesAre(built)

\* The rows of a text are numbered.
LEMMA RowsAre ==
    ASSUME TextsAre, NEW f \in DOMAIN DiffBase
    PROVE  /\ texts[f] \in Seq(DiffRow) /\ Len(texts[f]) \in Nat /\ DOMAIN texts[f] = 1..Len(texts[f])
           /\ \E n \in Nat : DOMAIN texts[f] = 1..n
<1>1. texts[f] \in Seq(DiffRow)
  BY DEF TextsAre
<1> QED BY <1>1

\* What the mapping says of a file that was not moved.
LEMMA MappingIs ==
    ASSUME NEW f \in DOMAIN DiffBase, f \notin renamed
    PROVE  /\ Diffs!Mapping[f].modified = UNION {Diffs!Modified(f, h) : h \in Diffs!Hunks(f)}
           /\ Diffs!Mapping[f].removed = UNION {Diffs!Removed(f, h) : h \in Diffs!Hunks(f)}
<1> DEFINE M(g) == LET hunks == IF g \in renamed THEN {} ELSE Diffs!Hunks(g)
                   IN  [modified |-> UNION {Diffs!Modified(g, h) : h \in hunks}, removed |-> UNION {Diffs!Removed(g, h) : h \in hunks}]
<1>1. Diffs!Mapping = [g \in DOMAIN DiffBase |-> M(g)]
  BY Zenon DEF Diffs!Mapping, Diffs!Files
<1>2. Diffs!Mapping[f] = M(f)
  <2> HIDE DEF M
  <2> QED BY <1>1
<1>3. M(f) = [modified |-> UNION {Diffs!Modified(f, h) : h \in Diffs!Hunks(f)}, removed |-> UNION {Diffs!Removed(f, h) : h \in Diffs!Hunks(f)}]
  BY Zenon
<1> HIDE DEF M
<1> QED BY <1>2, <1>3

\* The new sources of a file that is where it was.
LEMMA NewIs ==
    ASSUME DiffAssumption, NEW f \in DOMAIN DiffBase, f \notin renamed, ~Diffs!IsGone(f)
    PROVE  DiffPaths[f] \in DOMAIN Diffs!New /\ Diffs!New[DiffPaths[f]] = Diffs!Text(f, "removed")
<1> DEFINE there == {g \in DOMAIN DiffBase : ~Diffs!IsGone(g)}
           x     == CHOOSE g \in there : Diffs!Path(g) = DiffPaths[f]
<1>1. Diffs!New = [p \in {Diffs!Path(g) : g \in there} |-> Diffs!Text(CHOOSE g \in there : Diffs!Path(g) = p, "removed")]
  BY Zenon DEF Diffs!New, Diffs!Files
<1>2. f \in there /\ Diffs!Path(f) = DiffPaths[f]
  BY Zenon DEF Diffs!Path
<1>3. ASSUME NEW g \in there, Diffs!Path(g) = DiffPaths[f] PROVE g = f
  <2>1. CASE g \in renamed
    <3>1. Diffs!Path(g) = <<"moved">> \o DiffPaths[g]
      BY Zenon, <2>1 DEF Diffs!Path
    <3>2. DiffPaths[f] # <<"moved">> \o DiffPaths[g]
      BY Zenon DEF DiffAssumption
    <3> QED BY <1>3, <3>1, <3>2
  <2>2. CASE g \notin renamed
    <3>1. Diffs!Path(g) = DiffPaths[g]
      BY Zenon, <2>2 DEF Diffs!Path
    <3> QED BY Zenon, <1>3, <3>1 DEF DiffAssumption
  <2> QED BY <2>1, <2>2
<1>4. x = f
  <2>1. x \in there /\ Diffs!Path(x) = DiffPaths[f]
    BY Zenon, <1>2
  <2> HIDE DEF x
  <2> QED BY Zenon, <1>3, <2>1
<1>5. DiffPaths[f] \in {Diffs!Path(g) : g \in there}
  BY Zenon, <1>2
<1> HIDE DEF there
<1>6. Diffs!New[DiffPaths[f]] = Diffs!Text(x, "removed") /\ DiffPaths[f] \in DOMAIN Diffs!New
  BY Zenon, <1>1, <1>5
<1> HIDE DEF x
<1> QED BY <1>4, <1>6

\* The old sources of a file.
LEMMA OldIs ==
    ASSUME DiffAssumption, NEW f \in DOMAIN DiffBase
    PROVE  DiffPaths[f] \in DOMAIN Diffs!Old /\ Diffs!Old[DiffPaths[f]] = DiffBase[f]
<1> DEFINE x == CHOOSE g \in DOMAIN DiffBase : DiffPaths[g] = DiffPaths[f]
<1>1. Diffs!Old = [p \in Diffs!Range(DiffPaths) |-> DiffBase[CHOOSE g \in DOMAIN DiffBase : DiffPaths[g] = p]]
  BY Zenon DEF Diffs!Old, Diffs!Files
<1>2. DiffPaths[f] \in Diffs!Range(DiffPaths)
  BY Zenon DEF Diffs!Range, DiffAssumption
<1>3. x = f
  <2>1. x \in DOMAIN DiffBase /\ DiffPaths[x] = DiffPaths[f]
    BY Zenon
  <2> HIDE DEF x
  <2> QED BY Zenon, <2>1 DEF DiffAssumption
<1>4. Diffs!Old[DiffPaths[f]] = DiffBase[x] /\ DiffPaths[f] \in DOMAIN Diffs!Old
  BY Zenon, <1>1, <1>2
<1> HIDE DEF x
<1> QED BY <1>3, <1>4

----------------------------------------------------------------------------
\* Every line that was added is of a symbol that is reported as modified.
LEMMA AddedIsFound ==
    ASSUME DiffAssumption, DiffInv, built = Diffs!New,
           NEW f \in Diffs!Plain, NEW s \in Diffs!Owners(f, "added"), NEW t \in {s, DiffTypes[s]}
    PROVE  Diffs!ChangeOf(Diffs!Mapping, t) = "modified"
<1>1. f \in DOMAIN DiffBase /\ f \notin renamed /\ Diffs!Resolve(Diffs!TargetPath(f)) = DiffPaths[f]
  BY Zenon DEF Diffs!Plain, Diffs!Files
<1>2. PICK n \in Nat : DOMAIN texts[f] = 1..n
  BY Zenon, <1>1, RowsAre DEF DiffInv
<1>3. PICK c \in 1..n : texts[f][c].tag = "added" /\ texts[f][c].owner = s /\ s # Nothing
  <2>1. s \in {texts[f][i].owner : i \in {k \in DOMAIN texts[f] : texts[f][k].tag = "added"}} \ {Nothing}
    BY Zenon DEF Diffs!Owners
  <2> QED BY <1>2, <2>1
<1>4. c \in Diffs!Rows(f, "removed") /\ texts[f][c].tag # "kept"
  BY <1>2, <1>3 DEF Diffs!Rows
<1>5. ~Diffs!IsGone(f)
  BY Zenon, <1>4 DEF Diffs!IsGone
<1> DEFINE p == DiffPaths[f]
           l == Diffs!LineOf(f, c, "removed")
<1>6. built[p] = Diffs!Text(f, "removed")
  BY Zenon, <1>1, <1>5, NewIs
<1>7. PICK h \in Diffs!Hunks(f) : h.target \subseteq 0..n /\ l \in h.target
  BY <1>2, <1>4, HunkHolds DEF DiffAssumption
<1>8. l \in DOMAIN built[p] /\ built[p][l] = s /\ \E m \in Nat : DOMAIN built[p] = 1..m
  BY <1>2, <1>3, <1>4, <1>6, LineIs
<1>9. PICK m \in Nat : DOMAIN built[p] = 1..m
  BY <1>8
<1>10. p # Nothing
  BY Zenon, <1>1 DEF DiffAssumption
<1> HIDE DEF l
<1>11. t \in Diffs!Under(p, h.target)
  <2>1. l \in 1..m /\ built[p][l] # Nothing /\ t \in {built[p][l], DiffTypes[built[p][l]]}
    BY Zenon, <1>3, <1>8, <1>9
  <2> HIDE DEF p
  <2> QED BY <1>7, <1>9, <1>10, <2>1, UnderHolds
<1>12. t \in Diffs!Modified(f, h)
  BY Zenon, <1>1, <1>11 DEF Diffs!Modified
<1>13. t \in Diffs!Mapping[f].modified
  <2>1. Diffs!Mapping[f].modified = UNION {Diffs!Modified(f, k) : k \in Diffs!Hunks(f)}
    BY Zenon, <1>1, MappingIs
  <2> QED BY Zenon, <1>12, <2>1
<1> QED BY Zenon, <1>1, <1>13 DEF Diffs!ChangeOf, Diffs!Files

\* The symbols of a file that is gone are reported.
LEMMA GoneIsFound ==
    ASSUME DiffAssumption, DiffInv, built = Diffs!Old,
           NEW f \in Diffs!Plain, Diffs!IsGone(f), NEW s \in Diffs!Range(DiffBase[f]) \ {Nothing}
    PROVE  Diffs!ChangeOf(Diffs!Mapping, s) # "none"
<1>1. f \in DOMAIN DiffBase /\ f \notin renamed /\ Diffs!Resolve(DiffOuter \o DiffPaths[f]) = DiffPaths[f]
  BY Zenon DEF Diffs!Plain, Diffs!Files
<1>2. PICK n \in Nat : DOMAIN texts[f] = 1..n
  BY Zenon, <1>1, RowsAre DEF DiffInv
<1>3. PICK m \in Nat : DOMAIN DiffBase[f] = 1..m /\ Len(DiffBase[f]) = m
  <2>1. DiffBase[f] \in Seq(ToSet(DiffBase[f]))
    BY Zenon, <1>1 DEF DiffAssumption
  <2> QED BY <2>1
<1>4. PICK l \in 1..m : DiffBase[f][l] = s /\ s # Nothing
  BY <1>3 DEF Diffs!Range
<1>5. m <= n
  <2>1. PICK e \in [1..m -> Diffs!Rows(f, "added")] : \A i, j \in 1..m : e[i] = e[j] => i = j
    <3>1. CoveredBy(DOMAIN DiffBase[f], texts[f])
      BY Zenon, <1>1 DEF DiffInv
    <3>2. \E e \in [DOMAIN DiffBase[f] -> Diffs!Rows(f, "added")] : \A i, j \in DOMAIN DiffBase[f] : e[i] = e[j] => i = j
      BY Zenon, <3>1 DEF CoveredBy, Diffs!Rows
    <3> QED BY ZenonT(60), <1>3, <3>2
  <2>2. Diffs!Rows(f, "added") \subseteq 1..n
    BY <1>2 DEF Diffs!Rows
  <2>3. e \in Injection(1..m, 1..n)
    <3>1. e \in [1..m -> 1..n]
      BY <2>1, <2>2
    <3> QED BY <2>1, <3>1 DEF Injection, IsInjective
  <2>4. IsFiniteSet(1..n) /\ Cardinality(1..n) = n /\ Cardinality(1..m) = m
    BY FS_Interval
  <2>5. Cardinality(1..m) <= Cardinality(1..n)
    BY <2>3, <2>4, FS_Injection
  <2> QED BY <2>4, <2>5
<1>6. \A k \in 1..n : texts[f][k].tag = "removed"
  BY <1>2 DEF Diffs!IsGone, Diffs!Rows
<1>7. l \in 1..n /\ l \in Diffs!Rows(f, "added") /\ texts[f][l].tag # "kept"
  BY <1>2, <1>5, <1>6 DEF Diffs!Rows
<1>8. Diffs!LineOf(f, l, "added") = l
  <2>1. {k \in 1..l : texts[f][k].tag # "added"} = 1..l
    BY <1>6, <1>7
  <2>2. Cardinality(1..l) = l
    BY FS_Interval
  <2> QED BY Zenon, <2>1, <2>2, DiffSize DEF Diffs!LineOf
<1>9. PICK h \in Diffs!Hunks(f) : h.source \subseteq 0..n /\ l \in h.source /\ h.target = {}
  <2>1. Diffs!Rows(f, "removed") = {}
    BY Zenon DEF Diffs!IsGone
  <2>2. DiffContext \in Nat
    BY Zenon DEF DiffAssumption
  <2>3. \E h \in Diffs!Hunks(f) :
            /\ h.source \subseteq 0..n /\ h.target \subseteq 0..n
            /\ l \in Diffs!Rows(f, "added") => Diffs!LineOf(f, l, "added") \in h.source
            /\ l \in Diffs!Rows(f, "removed") => Diffs!LineOf(f, l, "removed") \in h.target
            /\ Diffs!Rows(f, "removed") = {} => h.target = {}
    BY <1>2, <1>7, <2>2, HunkHolds
  <2> QED BY Zenon, <1>7, <1>8, <2>1, <2>3
<1> DEFINE p == DiffPaths[f]
<1>10. built[p] = DiffBase[f]
  BY Zenon, <1>1, OldIs
<1>11. p # Nothing
  BY Zenon, <1>1 DEF DiffAssumption
<1>12. s \in Diffs!Under(p, h.source)
  <2>1. l \in 1..m /\ built[p][l] # Nothing /\ s \in {built[p][l], DiffTypes[built[p][l]]} /\ DOMAIN built[p] = 1..m
    BY Zenon, <1>3, <1>4, <1>10
  <2> HIDE DEF p
  <2> QED BY <1>9, <1>11, <2>1, UnderHolds
<1>13. Diffs!Resolve(Diffs!SourcePath(f)) = p
  <2>1. DiffBase[f] # <<>>
    BY <1>3, <1>4
  <2> QED BY Zenon, <1>1, <2>1 DEF Diffs!SourcePath
<1>14. s \in Diffs!Removed(f, h)
  BY Zenon, <1>9, <1>12, <1>13 DEF Diffs!Removed
<1>15. s \in Diffs!Mapping[f].removed
  <2>1. Diffs!Mapping[f].removed = UNION {Diffs!Removed(f, k) : k \in Diffs!Hunks(f)}
    BY Zenon, <1>1, MappingIs
  <2> QED BY Zenon, <1>14, <2>1
<1>16. "modified" # "none" /\ "removed" # "none"
  OBVIOUS
<1> QED BY Zenon, <1>1, <1>15, <1>16 DEF Diffs!ChangeOf, Diffs!Files

\* So the changes are found.
LEMMA ChangesFound == ASSUME DiffAssumption, DiffInv PROVE Diffs!ChangesAreFound
<1>1. ASSUME built = Diffs!New, NEW f \in Diffs!Plain, NEW s \in Diffs!Owners(f, "added")
      PROVE  {Diffs!ChangeOf(Diffs!Mapping, s), Diffs!ChangeOf(Diffs!Mapping, DiffTypes[s])} = {"modified"}
  <2>1. Diffs!ChangeOf(Diffs!Mapping, s) = "modified" /\ Diffs!ChangeOf(Diffs!Mapping, DiffTypes[s]) = "modified"
    BY Zenon, <1>1, AddedIsFound
  <2> QED BY <2>1
<1>2. ASSUME built = Diffs!Old, NEW f \in Diffs!Plain, Diffs!IsGone(f), NEW s \in Diffs!Range(DiffBase[f]) \ {Nothing}
      PROVE  Diffs!ChangeOf(Diffs!Mapping, s) # "none"
  BY Zenon, <1>2, GoneIsFound
<1>3. ASSUME NEW f \in Diffs!Files, Diffs!Hunks(f) # {}, f \in renamed \/ Diffs!Ambiguous(Diffs!TargetPath(f))
      PROVE  Diffs!Notes(Diffs!Mapping, f) # {}
  <2>1. CASE f \in renamed
    <3>1. Diffs!Notes(Diffs!Mapping, f) = {"rename"}
      BY Zenon, <2>1 DEF Diffs!Notes
    <3> QED BY <3>1
  <2>2. CASE f \notin renamed
    <3>1. "ambiguous" \in Diffs!Notes(Diffs!Mapping, f)
      BY Zenon, <1>3, <2>2 DEF Diffs!Notes
    <3> QED BY <3>1
  <2> QED BY <2>1, <2>2
<1> QED BY Zenon, <1>1, <1>2, <1>3 DEF Diffs!ChangesAreFound

\* A part of finitely many is no more of them.
LEMMA FewerAre ==
    ASSUME NEW B, IsFiniteSet(B), NEW A, A \subseteq B
    PROVE  IsFiniteSet(A) /\ Diffs!Cardinality(A) \in Nat /\ Diffs!Cardinality(B) \in Nat /\ Diffs!Cardinality(A) <= Diffs!Cardinality(B)
<1>1. A \in SUBSET B
  OBVIOUS
<1>2. IsFiniteSet(A) /\ Cardinality(A) <= Cardinality(B)
  BY <1>1, FS_Subset
<1>3. Cardinality(A) \in Nat /\ Cardinality(B) \in Nat
  BY <1>2, FS_CardinalityType
<1> QED BY <1>2, <1>3, DiffSize

\* A capped number grows with the number.
LEMMA CappedGrows ==
    ASSUME NEW c \in Nat, NEW a \in Nat, NEW b \in Nat, a <= b
    PROVE  Diffs!Capped(a, c) \in Nat /\ Diffs!Capped(b, c) \in Nat /\ Diffs!Capped(a, c) <= Diffs!Capped(b, c)
<1>1. ASSUME NEW n \in Nat PROVE Diffs!Capped(n, c) = IF n <= c THEN n ELSE c
  <2>1. Diffs!Capped(n, c) = Diffs!Min({n, c})
    BY Zenon DEF Diffs!Capped
  <2>2. Diffs!Min({n, c}) \in {n, c} /\ \A y \in {n, c} : Diffs!Min({n, c}) <= y
    <3>1. \E x \in {n, c} : \A y \in {n, c} : x <= y
      <4>1. CASE n <= c
        BY <4>1
      <4>2. CASE c <= n
        BY <4>2
      <4> QED BY <4>1, <4>2
    <3> QED BY Zenon, <3>1 DEF Diffs!Min
  <2> QED BY <2>1, <2>2
<1> QED BY <1>1

\* The second fields of finitely many pairs are finitely many.
LEMMA SecondsAreFinite == ASSUME NEW U, IsFiniteSet(U) PROVE IsFiniteSet({e[2] : e \in U})
<1> DEFINE T == {e[2] : e \in U}
           h == [e \in U |-> e[2]]
<1>1. h \in Surjection(U, T)
  BY DEF Surjection
<1> QED BY <1>1, FS_Surjection

\* More symbols have as many links, and more.
LEMMA CountsGrow ==
    ASSUME DiffAssumption, NEW B, IsFiniteSet(B), NEW A, A \subseteq B
    PROVE  /\ Diffs!Blast(A) \in Nat /\ Diffs!Blast(B) \in Nat /\ Diffs!Blast(A) <= Diffs!Blast(B)
           /\ Diffs!Cross(A) \in Nat /\ Diffs!Cross(B) \in Nat /\ Diffs!Cross(A) <= Diffs!Cross(B)
           /\ Diffs!Cardinality(Diffs!Routes(A)) \in Nat /\ Diffs!Cardinality(Diffs!Routes(B)) \in Nat
           /\ Diffs!Cardinality(Diffs!Routes(A)) <= Diffs!Cardinality(Diffs!Routes(B))
           /\ Diffs!Cardinality(Diffs!Callees(A)) \in Nat /\ Diffs!Cardinality(Diffs!Callees(B)) \in Nat
           /\ Diffs!Cardinality(Diffs!Callees(A)) <= Diffs!Cardinality(Diffs!Callees(B))
<1>0. /\ IsFiniteSet(DOMAIN DiffTypes) /\ IsFiniteSet(DiffCalls) /\ IsFiniteSet(DiffExposes) /\ IsFiniteSet(DiffRemote)
  BY Zenon DEF DiffAssumption
<1>1. Diffs!Blast(A) \in Nat /\ Diffs!Blast(B) \in Nat /\ Diffs!Blast(A) <= Diffs!Blast(B)
  <2> DEFINE P(S) == {p \in S \X DOMAIN DiffTypes : p[2] \in Diffs!Impact(DiffTypes[p[1]])}
  <2>1. P(A) \subseteq P(B) /\ P(B) \subseteq B \X DOMAIN DiffTypes
    OBVIOUS
  <2>2. \A S : Diffs!Blast(S) = Diffs!Cardinality(P(S))
    BY Zenon DEF Diffs!Blast
  <2> HIDE DEF P
  <2>3. IsFiniteSet(B \X DOMAIN DiffTypes)
    BY <1>0, FS_Product
  <2>4. IsFiniteSet(P(B))
    BY <2>1, <2>3, FewerAre
  <2>5. Diffs!Cardinality(P(A)) \in Nat /\ Diffs!Cardinality(P(B)) \in Nat /\ Diffs!Cardinality(P(A)) <= Diffs!Cardinality(P(B))
    BY <2>1, <2>4, FewerAre
  <2> QED BY <2>2, <2>5
<1>2. Diffs!Cross(A) \in Nat /\ Diffs!Cross(B) \in Nat /\ Diffs!Cross(A) <= Diffs!Cross(B)
  <2> DEFINE P(S) == {p \in S \X DiffCalls : p[2] \in Diffs!Callers(p[1]) /\ Diffs!Crosses(p[2])}
  <2>1. P(A) \subseteq P(B) /\ P(B) \subseteq B \X DiffCalls
    OBVIOUS
  <2>2. \A S : Diffs!Cross(S) = Diffs!Cardinality(P(S))
    BY Zenon DEF Diffs!Cross
  <2> HIDE DEF P
  <2>3. IsFiniteSet(B \X DiffCalls)
    BY <1>0, FS_Product
  <2>4. IsFiniteSet(P(B))
    BY <2>1, <2>3, FewerAre
  <2>5. Diffs!Cardinality(P(A)) \in Nat /\ Diffs!Cardinality(P(B)) \in Nat /\ Diffs!Cardinality(P(A)) <= Diffs!Cardinality(P(B))
    BY <2>1, <2>4, FewerAre
  <2> QED BY <2>2, <2>5
<1>3. Diffs!Touched(A) \subseteq Diffs!Touched(B) /\ Diffs!Touched(B) \subseteq DiffExposes
  BY Zenon DEF Diffs!Touched
<1>4. IsFiniteSet(Diffs!Touched(B))
  BY <1>0, <1>3, FewerAre
<1>5. /\ Diffs!Cardinality(Diffs!Routes(A)) \in Nat /\ Diffs!Cardinality(Diffs!Routes(B)) \in Nat
      /\ Diffs!Cardinality(Diffs!Routes(A)) <= Diffs!Cardinality(Diffs!Routes(B))
  <2>1. Diffs!Routes(A) \subseteq Diffs!Routes(B)
    BY Zenon, <1>3 DEF Diffs!Routes
  <2>2. IsFiniteSet({e[2] : e \in Diffs!Touched(B)})
    BY <1>4, SecondsAreFinite
  <2>3. IsFiniteSet(Diffs!Routes(B))
    BY Zenon, <2>2 DEF Diffs!Routes
  <2> QED BY <2>1, <2>3, FewerAre
<1>6. /\ Diffs!Cardinality(Diffs!Callees(A)) \in Nat /\ Diffs!Cardinality(Diffs!Callees(B)) \in Nat
      /\ Diffs!Cardinality(Diffs!Callees(A)) <= Diffs!Cardinality(Diffs!Callees(B))
  <2>1. Diffs!Callees(A) \subseteq Diffs!Callees(B) /\ Diffs!Callees(B) \subseteq Diffs!Touched(B) \X DiffRemote
    BY <1>3 DEF Diffs!Callees
  <2>2. IsFiniteSet(Diffs!Touched(B) \X DiffRemote)
    BY <1>0, <1>4, FS_Product
  <2>3. IsFiniteSet(Diffs!Callees(B))
    BY <2>1, <2>2, FewerAre
  <2> QED BY <2>1, <2>3, FewerAre
<1> QED BY <1>1, <1>2, <1>5, <1>6

\* And their risk is no less.
LEMMA ScoreGrows ==
    ASSUME DiffAssumption, NEW B, IsFiniteSet(B), NEW A, A \subseteq B
    PROVE  Diffs!Score(A) <= Diffs!Score(B)
<1> DEFINE surface(S) == IF \E s \in S : Diffs!IsPublicInterface(s) THEN 200 ELSE 0
           blast(S)  == Diffs!Capped(Diffs!Blast(S), 100)
           cross(S)  == Diffs!Capped(Diffs!Cross(S), 20)
           routes(S) == Diffs!Capped(Diffs!Cardinality(Diffs!Routes(S)), 5)
           remote(S) == Diffs!Capped(Diffs!Cardinality(Diffs!Callees(S)), 5)
           first(S)  == 4 * blast(S)
           second(S) == 15 * cross(S)
           fourth(S) == 20 * routes(S)
           fifth(S)  == 200 * remote(S)
           all(S) == first(S) + second(S) + surface(S) + fourth(S) + fifth(S)
<1>1. \A S : Diffs!Score(S) = Diffs!Capped(all(S), 1000)
  BY Zenon DEF Diffs!Score
<1>2. surface(A) \in Nat /\ surface(B) \in Nat /\ surface(A) <= surface(B)
  OBVIOUS
<1>3. blast(A) \in Nat /\ blast(B) \in Nat /\ blast(A) <= blast(B)
  BY CountsGrow, CappedGrows
<1>4. cross(A) \in Nat /\ cross(B) \in Nat /\ cross(A) <= cross(B)
  BY CountsGrow, CappedGrows
<1>5. routes(A) \in Nat /\ routes(B) \in Nat /\ routes(A) <= routes(B)
  BY CountsGrow, CappedGrows
<1>6. remote(A) \in Nat /\ remote(B) \in Nat /\ remote(A) <= remote(B)
  BY CountsGrow, CappedGrows
<1> HIDE DEF surface, blast, cross, routes, remote
<1>7. all(A) \in Nat /\ all(B) \in Nat /\ all(A) <= all(B)
  <2>1. first(A) \in Nat /\ first(B) \in Nat /\ first(A) <= first(B)
    BY <1>3
  <2>2. second(A) \in Nat /\ second(B) \in Nat /\ second(A) <= second(B)
    BY <1>4
  <2>3. fourth(A) \in Nat /\ fourth(B) \in Nat /\ fourth(A) <= fourth(B)
    BY <1>5
  <2>4. fifth(A) \in Nat /\ fifth(B) \in Nat /\ fifth(A) <= fifth(B)
    BY <1>6
  <2> HIDE DEF first, second, fourth, fifth
  <2> DEFINE a1 == first(A)   b1 == first(B)
             a2 == second(A)  b2 == second(B)
             a3 == surface(A)    b3 == surface(B)
             a4 == fourth(A)  b4 == fourth(B)
             a5 == fifth(A)   b5 == fifth(B)
  <2>5. /\ a1 \in Nat /\ b1 \in Nat /\ a1 <= b1 /\ a2 \in Nat /\ b2 \in Nat /\ a2 <= b2 /\ a3 \in Nat /\ b3 \in Nat /\ a3 <= b3
        /\ a4 \in Nat /\ b4 \in Nat /\ a4 <= b4 /\ a5 \in Nat /\ b5 \in Nat /\ a5 <= b5
    BY Zenon, <1>2, <2>1, <2>2, <2>3, <2>4
  <2>6. all(A) = a1 + a2 + a3 + a4 + a5 /\ all(B) = b1 + b2 + b3 + b4 + b5
    BY Zenon
  <2> HIDE DEF a1, a2, a3, a4, a5, b1, b2, b3, b4, b5, all
  <2> QED BY <2>5, <2>6
<1> HIDE DEF all
<1>8. Diffs!Capped(all(A), 1000) <= Diffs!Capped(all(B), 1000)
  BY <1>7, CappedGrows
<1> QED BY <1>1, <1>8

----------------------------------------------------------------------------
\* What the mapping says of a file is of its hunks, or of none.
LEMMA MappingWithin ==
    ASSUME NEW f \in DOMAIN DiffBase
    PROVE  \E H : /\ Diffs!Mapping[f].modified = UNION {Diffs!Modified(f, h) : h \in H}
                 /\ Diffs!Mapping[f].removed = UNION {Diffs!Removed(f, h) : h \in H}
<1> DEFINE H(g) == IF g \in renamed THEN {} ELSE Diffs!Hunks(g)
           M(g) == [modified |-> UNION {Diffs!Modified(g, h) : h \in H(g)}, removed |-> UNION {Diffs!Removed(g, h) : h \in H(g)}]
<1>1. Diffs!Mapping = [g \in DOMAIN DiffBase |-> M(g)]
  BY Zenon DEF Diffs!Mapping, Diffs!Files
<1> HIDE DEF H
<1>2. Diffs!Mapping[f] = M(f)
  <2> HIDE DEF M
  <2> QED BY <1>1
<1> QED BY <1>2

\* What is under the lines of a hunk are symbols of the graph, finitely many.
LEMMA ReportIsFinite ==
    ASSUME SourcesAre(built)
    PROVE  IsFiniteSet(Diffs!Reported(Diffs!Mapping, DOMAIN DiffBase))
<1> DEFINE syms == [p \in DOMAIN built |-> Diffs!Symbols(p)]
           T == {syms[p] : p \in DOMAIN built}
<1>1. IsFiniteSet(T)
  <2> HIDE DEF syms
  <2> QED BY ImageIsFinite DEF SourcesAre
<1>2. ASSUME NEW p \in DOMAIN built PROVE IsFiniteSet(Diffs!Symbols(p))
  <2>1. PICK n \in Nat : DOMAIN built[p] = 1..n
    BY Zenon DEF SourcesAre
  <2> DEFINE R == {built[p][i] : i \in 1..n}
             D == [o \in R |-> {o, DiffTypes[o]}]
  <2>2. IsFiniteSet(R)
    <3>1. IsFiniteSet(1..n)
      BY FS_Interval
    <3> DEFINE b == built[p]
    <3>2. R = {b[i] : i \in 1..n}
      OBVIOUS
    <3> HIDE DEF b
    <3> QED BY <3>1, <3>2, ImageIsFinite
  <2>3. Diffs!Symbols(p) \subseteq UNION {D[o] : o \in R}
    <3>1. Diffs!Symbols(p) = UNION {{o, DiffTypes[o]} : o \in Diffs!Range(built[p]) \ {Nothing}}
      BY Zenon DEF Diffs!Symbols
    <3>2. \A o \in Diffs!Range(built[p]) : o \in R /\ D[o] = {o, DiffTypes[o]}
      BY <2>1 DEF Diffs!Range
    <3> HIDE DEF D, R
    <3> QED BY <3>1, <3>2
  <2>4. \A o \in R : IsFiniteSet(D[o])
    <3> SUFFICES ASSUME NEW o \in R PROVE IsFiniteSet(D[o])
      OBVIOUS
    <3>1. D[o] = {o} \cup {DiffTypes[o]}
      OBVIOUS
    <3>2. IsFiniteSet({o}) /\ IsFiniteSet({DiffTypes[o]})
      BY FS_Singleton
    <3> HIDE DEF D, R
    <3>3. IsFiniteSet({o} \cup {DiffTypes[o]})
      BY <3>2, FS_Union
    <3> QED BY Zenon, <3>1, <3>3
  <2>5. IsFiniteSet({D[o] : o \in R})
    <3> HIDE DEF D, R
    <3> QED BY <2>2, ImageIsFinite
  <2>6. \A d \in {D[o] : o \in R} : IsFiniteSet(d)
    <3> HIDE DEF D, R
    <3> QED BY <2>4
  <2> HIDE DEF D, R
  <2>7. IsFiniteSet(UNION {D[o] : o \in R})
    BY <2>5, <2>6, FS_UNION
  <2> QED BY <2>3, <2>7, FewerAre
<1>3. \A t \in T : IsFiniteSet(t)
  BY <1>2
<1>4. ASSUME NEW path, NEW span PROVE Diffs!Under(Diffs!Resolve(path), span) \subseteq UNION T
  <2> DEFINE q == Diffs!Resolve(path)
  <2>1. q \in DOMAIN built \/ q = Nothing
    <3>1. CASE Diffs!Strip(path) \in DOMAIN built
      BY Zenon, <3>1 DEF Diffs!Resolve
    <3>2. CASE Diffs!Strip(path) \notin DOMAIN built /\ Diffs!Cardinality(Diffs!Namesakes(path)) = 1
      <4>1. q = CHOOSE p \in Diffs!Namesakes(path) : TRUE
        BY Zenon, <3>2 DEF Diffs!Resolve
      <4>2. Diffs!Namesakes(path) # {}
        <5>1. Cardinality(Diffs!Namesakes(path)) = 1
          BY <3>2, DiffSize
        <5>2. Cardinality({}) = 0
          BY FS_EmptySet
        <5> QED BY <5>1, <5>2
      <4>3. q \in Diffs!Namesakes(path)
        BY Zenon, <4>1, <4>2
      <4> QED BY Zenon, <4>3 DEF Diffs!Namesakes
    <3>3. CASE Diffs!Strip(path) \notin DOMAIN built /\ ~(Diffs!Cardinality(Diffs!Namesakes(path)) = 1)
      BY Zenon, <3>3 DEF Diffs!Resolve
    <3> QED BY <3>1, <3>2, <3>3
  <2>2. Diffs!Under(q, span) \subseteq Diffs!Symbols(q) /\ (q = Nothing => Diffs!Under(q, span) = {})
    BY Zenon DEF Diffs!Under
  <2>3. q \in DOMAIN built => Diffs!Symbols(q) \in T
    OBVIOUS
  <2> HIDE DEF q, T
  <2> QED BY Zenon, <2>1, <2>2, <2>3 DEF q
<1> HIDE DEF T
<1>5. ASSUME NEW f \in DOMAIN DiffBase PROVE Diffs!Mapping[f].modified \cup Diffs!Mapping[f].removed \subseteq UNION T
  <2>1. \A h : Diffs!Modified(f, h) \subseteq UNION T /\ Diffs!Removed(f, h) \subseteq UNION T
    BY Zenon, <1>4 DEF Diffs!Modified, Diffs!Removed
  <2>2. PICK H : Diffs!Mapping[f].modified = UNION {Diffs!Modified(f, h) : h \in H} /\ Diffs!Mapping[f].removed = UNION {Diffs!Removed(f, h) : h \in H}
    BY MappingWithin
  <2> QED BY Zenon, <2>1, <2>2
<1>6. Diffs!Reported(Diffs!Mapping, DOMAIN DiffBase) \subseteq UNION T
  BY Zenon, <1>5 DEF Diffs!Reported
<1>7. IsFiniteSet(UNION T)
  BY <1>1, <1>3, FS_UNION
<1> QED BY <1>6, <1>7, FewerAre

\* A diff of more files is of no less risk.
LEMMA MoreRiskier == ASSUME DiffAssumption, DiffInv PROVE Diffs!MoreIsRiskier
<1> SUFFICES ASSUME NEW F \in SUBSET {f \in DOMAIN DiffBase : Diffs!Hunks(f) # {}}
             PROVE  Diffs!Score(Diffs!Reported(Diffs!Mapping, F)) <= Diffs!Score(Diffs!Reported(Diffs!Mapping, DOMAIN DiffBase))
  BY Zenon DEF Diffs!MoreIsRiskier, Diffs!Files
<1>1. IsFiniteSet(Diffs!Reported(Diffs!Mapping, DOMAIN DiffBase))
  BY Zenon, ReportIsFinite DEF DiffInv
<1>2. Diffs!Reported(Diffs!Mapping, F) \subseteq Diffs!Reported(Diffs!Mapping, DOMAIN DiffBase)
  BY Zenon DEF Diffs!Reported
<1> QED BY Zenon, <1>1, <1>2, ScoreGrows

\* A row is put after the i-th.
LEMMA InsertIs ==
    ASSUME NEW S, NEW s \in Seq(S), NEW i \in 0..Len(s), NEW e \in S
    PROVE  LET t == Diffs!InsertAt(s, i + 1, e)
           IN  /\ t \in Seq(S) /\ Len(t) = Len(s) + 1
               /\ \A j \in 1..Len(s) + 1 : t[j] = IF j <= i THEN s[j] ELSE IF j = i + 1 THEN e ELSE s[j - 1]
<1> DEFINE a == SubSeq(s, 1, i)
           b == SubSeq(s, i + 1, Len(s))
           m == a \o <<e>>
<1>1. Diffs!InsertAt(s, i + 1, e) = a \o <<e>> \o b
  <2>1. (i + 1) - 1 = i
    OBVIOUS
  <2>2. Diffs!InsertAt(s, i + 1, e) = SubSeq(s, 1, (i + 1) - 1) \o <<e>> \o SubSeq(s, i + 1, Len(s))
    BY Zenon DEF Diffs!InsertAt
  <2> QED BY Zenon, <2>1, <2>2
<1>2. a \in Seq(S) /\ Len(a) = i /\ \A j \in 1..i : a[j] = s[j]
  <2>1. \A j \in 1..i : s[j] \in S
    OBVIOUS
  <2>2. /\ SubSeq(s, 1, i) \in Seq(S) /\ Len(SubSeq(s, 1, i)) = IF 1 <= i THEN i - 1 + 1 ELSE 0
        /\ \A j \in 1..i - 1 + 1 : SubSeq(s, 1, i)[j] = s[1 + j - 1]
    BY <2>1, SubSeqProperties
  <2> HIDE DEF a
  <2>3. a = SubSeq(s, 1, i)
    BY DEF a
  <2> QED BY <2>2, <2>3
<1>3. b \in Seq(S) /\ Len(b) = Len(s) - i /\ \A j \in 1..Len(s) - i : b[j] = s[i + j]
  <2>1. \A j \in (i + 1)..Len(s) : s[j] \in S
    OBVIOUS
  <2>2. /\ SubSeq(s, i + 1, Len(s)) \in Seq(S)
        /\ Len(SubSeq(s, i + 1, Len(s))) = IF i + 1 <= Len(s) THEN Len(s) - (i + 1) + 1 ELSE 0
        /\ \A j \in 1..Len(s) - (i + 1) + 1 : SubSeq(s, i + 1, Len(s))[j] = s[i + 1 + j - 1]
    BY <2>1, SubSeqProperties
  <2> HIDE DEF b
  <2>3. b = SubSeq(s, i + 1, Len(s))
    BY DEF b
  <2> QED BY <2>2, <2>3
<1> HIDE DEF a, b
<1>4. m \in Seq(S) /\ Len(m) = i + 1 /\ \A j \in 1..i + 1 : m[j] = IF j <= i THEN s[j] ELSE e
  <2>1. <<e>> \in Seq(S) /\ Len(<<e>>) = 1 /\ <<e>>[1] = e
    OBVIOUS
  <2>2. a \o <<e>> \in Seq(S) /\ Len(a \o <<e>>) = Len(a) + Len(<<e>>)
        /\ \A j \in 1..Len(a) + Len(<<e>>) : (a \o <<e>>)[j] = IF j <= Len(a) THEN a[j] ELSE <<e>>[j - Len(a)]
    BY <1>2, <2>1, ConcatProperties
  <2> DEFINE one == <<e>>
  <2> HIDE DEF one, m
  <2>3. m = a \o one /\ Len(one) = 1 /\ one[1] = e
    BY DEF one, m
  <2>4. m \in Seq(S) /\ Len(m) = Len(a) + Len(one) /\ \A j \in 1..Len(a) + Len(one) : m[j] = IF j <= Len(a) THEN a[j] ELSE one[j - Len(a)]
    BY Zenon, <2>2 DEF one, m
  <2> QED BY <1>2, <2>3, <2>4
<1> HIDE DEF m
<1>5. m \o b \in Seq(S) /\ Len(m \o b) = Len(m) + Len(b)
      /\ \A j \in 1..Len(m) + Len(b) : (m \o b)[j] = IF j <= Len(m) THEN m[j] ELSE b[j - Len(m)]
  BY <1>3, <1>4, ConcatProperties
<1> DEFINE t == m \o b
<1> HIDE DEF t
<1>6. t \in Seq(S) /\ Len(t) = Len(m) + Len(b) /\ \A j \in 1..Len(m) + Len(b) : t[j] = IF j <= Len(m) THEN m[j] ELSE b[j - Len(m)]
  BY Zenon, <1>5 DEF t
<1>7. Len(t) = Len(s) + 1
  BY <1>3, <1>4, <1>6
<1>8. ASSUME NEW j \in 1..Len(s) + 1 PROVE t[j] = IF j <= i THEN s[j] ELSE IF j = i + 1 THEN e ELSE s[j - 1]
  <2>1. CASE j <= i + 1
    BY <1>3, <1>4, <1>6, <2>1
  <2>2. CASE j > i + 1
    <3> DEFINE k == j - (i + 1)
    <3>1. k \in 1..Len(s) - i /\ i + k = j - 1 /\ j \in 1..Len(m) + Len(b) /\ ~(j <= Len(m)) /\ j - Len(m) = k /\ ~(j <= i) /\ j # i + 1
      BY <1>3, <1>4, <2>2
    <3> HIDE DEF k
    <3>2. t[j] = b[k]
      BY <1>6, <3>1
    <3>3. b[k] = s[i + k]
      BY <1>3, <3>1
    <3> QED BY <3>1, <3>2, <3>3
  <2> QED BY <2>1, <2>2
<1>9. Diffs!InsertAt(s, i + 1, e) = t
  BY Zenon, <1>1 DEF t, m
<1> QED BY <1>6, <1>7, <1>8, <1>9

\* A row is taken out.
LEMMA RemoveIs ==
    ASSUME NEW S, NEW s \in Seq(S), NEW i \in 1..Len(s)
    PROVE  LET t == Diffs!RemoveAt(s, i)
           IN  /\ t \in Seq(S) /\ Len(t) = Len(s) - 1
               /\ \A j \in 1..Len(s) - 1 : t[j] = IF j < i THEN s[j] ELSE s[j + 1]
<1> DEFINE a == SubSeq(s, 1, i - 1)
           b == SubSeq(s, i + 1, Len(s))
<1>1. Diffs!RemoveAt(s, i) = a \o b
  BY Zenon DEF Diffs!RemoveAt
<1>2. a \in Seq(S) /\ Len(a) = i - 1 /\ \A j \in 1..i - 1 : a[j] = s[j]
  <2>1. \A j \in 1..i - 1 : s[j] \in S
    OBVIOUS
  <2>2. /\ SubSeq(s, 1, i - 1) \in Seq(S) /\ Len(SubSeq(s, 1, i - 1)) = IF 1 <= i - 1 THEN i - 1 - 1 + 1 ELSE 0
        /\ \A j \in 1..i - 1 - 1 + 1 : SubSeq(s, 1, i - 1)[j] = s[1 + j - 1]
    BY <2>1, SubSeqProperties
  <2> HIDE DEF a
  <2>3. a = SubSeq(s, 1, i - 1)
    BY DEF a
  <2> QED BY <2>2, <2>3
<1>3. b \in Seq(S) /\ Len(b) = Len(s) - i /\ \A j \in 1..Len(s) - i : b[j] = s[i + j]
  <2>1. \A j \in (i + 1)..Len(s) : s[j] \in S
    OBVIOUS
  <2>2. /\ SubSeq(s, i + 1, Len(s)) \in Seq(S)
        /\ Len(SubSeq(s, i + 1, Len(s))) = IF i + 1 <= Len(s) THEN Len(s) - (i + 1) + 1 ELSE 0
        /\ \A j \in 1..Len(s) - (i + 1) + 1 : SubSeq(s, i + 1, Len(s))[j] = s[i + 1 + j - 1]
    BY <2>1, SubSeqProperties
  <2> HIDE DEF b
  <2>3. b = SubSeq(s, i + 1, Len(s))
    BY DEF b
  <2> QED BY <2>2, <2>3
<1> HIDE DEF a, b
<1>4. a \o b \in Seq(S) /\ Len(a \o b) = Len(a) + Len(b)
      /\ \A j \in 1..Len(a) + Len(b) : (a \o b)[j] = IF j <= Len(a) THEN a[j] ELSE b[j - Len(a)]
  BY <1>2, <1>3, ConcatProperties
<1> DEFINE t == a \o b
<1> HIDE DEF t
<1>5. t \in Seq(S) /\ Len(t) = Len(a) + Len(b) /\ \A j \in 1..Len(a) + Len(b) : t[j] = IF j <= Len(a) THEN a[j] ELSE b[j - Len(a)]
  BY Zenon, <1>4 DEF t
<1>6. Len(t) = Len(s) - 1
  BY <1>2, <1>3, <1>5
<1>7. ASSUME NEW j \in 1..Len(s) - 1 PROVE t[j] = IF j < i THEN s[j] ELSE s[j + 1]
  <2>1. CASE j < i
    <3>1. j \in 1..i - 1 /\ j \in 1..Len(a) + Len(b) /\ j <= Len(a)
      BY <1>2, <1>3, <2>1
    <3>2. t[j] = a[j] /\ a[j] = s[j]
      BY <1>2, <1>5, <3>1
    <3> QED BY <2>1, <3>2
  <2>2. CASE j >= i
    <3> DEFINE k == j - (i - 1)
    <3>1. k \in 1..Len(s) - i /\ i + k = j + 1 /\ j \in 1..Len(a) + Len(b) /\ ~(j <= Len(a)) /\ j - Len(a) = k /\ ~(j < i)
      BY <1>2, <1>3, <2>2
    <3> HIDE DEF k
    <3>2. t[j] = b[k]
      BY <1>5, <3>1
    <3>3. b[k] = s[i + k]
      BY <1>3, <3>1
    <3> QED BY <3>1, <3>2, <3>3
  <2> QED BY <2>1, <2>2
<1>8. Diffs!RemoveAt(s, i) = t
  BY Zenon, <1>1 DEF t
<1> QED BY <1>5, <1>6, <1>7, <1>8

----------------------------------------------------------------------------
\* An edit keeps the old lines.
LEMMA InsertCovers ==
    ASSUME NEW D, NEW s \in Seq(DiffRow), NEW i \in 0..Len(s), NEW e \in DiffRow, CoveredBy(D, s)
    PROVE  CoveredBy(D, Diffs!InsertAt(s, i + 1, e))
<1> DEFINE t == Diffs!InsertAt(s, i + 1, e)
           old == {k \in DOMAIN s : s[k].tag # "added"}
           new == {k \in DOMAIN t : t[k].tag # "added"}
<1>1. /\ t \in Seq(DiffRow) /\ Len(t) = Len(s) + 1
      /\ \A j \in 1..Len(s) + 1 : t[j] = IF j <= i THEN s[j] ELSE IF j = i + 1 THEN e ELSE s[j - 1]
  BY InsertIs
<1>2. PICK place \in [D -> old] : \A j, k \in D : place[j] = place[k] => j = k
  BY Zenon DEF CoveredBy
<1> HIDE DEF t
<1> DEFINE to == [j \in D |-> IF place[j] <= i THEN place[j] ELSE place[j] + 1]
<1>3. ASSUME NEW j \in D PROVE to[j] \in new
  <2>1. place[j] \in 1..Len(s) /\ s[place[j]].tag # "added"
    BY <1>2
  <2>2. to[j] \in 1..Len(s) + 1 /\ t[to[j]] = s[place[j]]
    BY <1>1, <2>1
  <2>3. DOMAIN t = 1..Len(s) + 1
    BY <1>1
  <2> QED BY <2>1, <2>2, <2>3
<1>4. ASSUME NEW j \in D, NEW k \in D, to[j] = to[k] PROVE j = k
  <2>1. place[j] \in 1..Len(s) /\ place[k] \in 1..Len(s)
    BY <1>2
  <2>2. place[j] = place[k]
    BY <1>4, <2>1
  <2> QED BY <1>2, <2>2
<1>5. to \in [D -> new]
  BY <1>3
<1> HIDE DEF to
<1> QED BY Zenon, <1>4, <1>5 DEF CoveredBy, t

\* Taking out a row that was added keeps them,
LEMMA RemoveCovers ==
    ASSUME NEW D, NEW s \in Seq(DiffRow), NEW i \in 1..Len(s), s[i].tag = "added", CoveredBy(D, s)
    PROVE  CoveredBy(D, Diffs!RemoveAt(s, i))
<1> DEFINE t == Diffs!RemoveAt(s, i)
           old == {k \in DOMAIN s : s[k].tag # "added"}
           new == {k \in DOMAIN t : t[k].tag # "added"}
<1>1. /\ t \in Seq(DiffRow) /\ Len(t) = Len(s) - 1
      /\ \A j \in 1..Len(s) - 1 : t[j] = IF j < i THEN s[j] ELSE s[j + 1]
  BY RemoveIs
<1>2. PICK place \in [D -> old] : \A j, k \in D : place[j] = place[k] => j = k
  BY Zenon DEF CoveredBy
<1> HIDE DEF t
<1> DEFINE to == [j \in D |-> IF place[j] < i THEN place[j] ELSE place[j] - 1]
<1>3. ASSUME NEW j \in D PROVE to[j] \in new
  <2>1. place[j] \in 1..Len(s) /\ s[place[j]].tag # "added" /\ place[j] # i
    BY <1>2
  <2>2. to[j] \in 1..Len(s) - 1 /\ t[to[j]] = s[place[j]]
    <3>1. CASE place[j] < i
      BY <1>1, <2>1, <3>1
    <3>2. CASE place[j] > i
      <4> DEFINE k == place[j] - 1
      <4>1. to[j] = k
        BY <2>1, <3>2
      <4>2. k \in 1..Len(s) - 1 /\ ~(k < i) /\ k + 1 = place[j]
        BY <2>1, <3>2
      <4> HIDE DEF k, to
      <4> QED BY <1>1, <4>1, <4>2
    <3> QED BY <2>1, <3>1, <3>2
  <2>3. DOMAIN t = 1..Len(s) - 1
    BY <1>1
  <2> QED BY <2>1, <2>2, <2>3
<1>4. ASSUME NEW j \in D, NEW k \in D, to[j] = to[k] PROVE j = k
  <2>1. place[j] \in 1..Len(s) /\ place[k] \in 1..Len(s) /\ place[j] # i /\ place[k] # i
    BY <1>2
  <2>2. place[j] = place[k]
    BY <1>4, <2>1
  <2> QED BY <1>2, <2>2
<1>5. to \in [D -> new]
  BY <1>3
<1> HIDE DEF to
<1> QED BY Zenon, <1>4, <1>5 DEF CoveredBy, t

\* and so does marking a row as removed.
LEMMA MarkCovers ==
    ASSUME NEW D, NEW s \in Seq(DiffRow), NEW i \in 1..Len(s), CoveredBy(D, s)
    PROVE  LET t == [s EXCEPT ![i].tag = "removed"] IN t \in Seq(DiffRow) /\ CoveredBy(D, t)
<1> DEFINE t == [s EXCEPT ![i].tag = "removed"]
<1>1. t \in Seq(DiffRow)
  <2>1. s[i] \in DiffRow
    OBVIOUS
  <2>2. [s[i] EXCEPT !.tag = "removed"] \in DiffRow
    BY <2>1 DEF DiffRow
  <2> DEFINE e == [s[i] EXCEPT !.tag = "removed"]
  <2>3. t = [s EXCEPT ![i] = e]
    OBVIOUS
  <2> HIDE DEF e, t
  <2>4. e \in DiffRow
    BY <2>2 DEF e
  <2> QED BY <2>3, <2>4
<1>2. DOMAIN t = DOMAIN s /\ \A k \in DOMAIN s : s[k].tag # "added" => t[k].tag # "added"
  <2>1. \A k \in 1..Len(s) : s[k] \in DiffRow
    OBVIOUS
  <2> QED BY <2>1 DEF DiffRow
<1> HIDE DEF t
<1> DEFINE old == {k \in DOMAIN s : s[k].tag # "added"}
           new == {k \in DOMAIN t : t[k].tag # "added"}
<1>3. PICK place \in [D -> old] : \A j, k \in D : place[j] = place[k] => j = k
  BY Zenon DEF CoveredBy
<1>4. place \in [D -> new]
  <2>1. old \subseteq new
    BY <1>2
  <2> HIDE DEF old, new
  <2> QED BY <1>3, <2>1
<1>5. CoveredBy(D, t)
  BY Zenon, <1>3, <1>4 DEF CoveredBy
<1> QED BY <1>1, <1>5 DEF t

\* The rows as they were, or all removed.
LEMMA BaseCovers ==
    ASSUME DiffAssumption, NEW f \in DOMAIN DiffBase, NEW tag \in {"kept", "removed"}
    PROVE  LET t == [i \in DOMAIN DiffBase[f] |-> [tag |-> tag, owner |-> DiffBase[f][i]]]
           IN  t \in Seq(DiffRow) /\ CoveredBy(DOMAIN DiffBase[f], t)
<1> DEFINE b == DiffBase[f]
           t == [i \in DOMAIN b |-> [tag |-> tag, owner |-> b[i]]]
<1>1. b \in Seq(ToSet(b))
  BY Zenon DEF DiffAssumption
<1>2. ToSet(b) \subseteq UNION {ToSet(DiffBase[g]) : g \in DOMAIN DiffBase}
  BY Zenon
<1>3. \A o \in ToSet(b) : [tag |-> tag, owner |-> o] \in DiffRow
  <2>1. \A o \in ToSet(b) : o \in {Nothing} \cup DOMAIN DiffTypes \cup UNION {ToSet(DiffBase[g]) : g \in DOMAIN DiffBase}
    BY Zenon, <1>2
  <2> QED BY <2>1 DEF DiffRow
<1> DEFINE T == ToSet(b)
<1> HIDE DEF b
<1>4. DOMAIN b = 1..Len(b) /\ Len(b) \in Nat /\ \A i \in 1..Len(b) : b[i] \in T
  <2>1. b \in Seq(T)
    BY <1>1
  <2> HIDE DEF T
  <2> QED BY <2>1
<1>5. t \in Seq(DiffRow)
  <2>1. \A i \in 1..Len(b) : [tag |-> tag, owner |-> b[i]] \in DiffRow
    BY Zenon, <1>3, <1>4
  <2> QED BY <1>4, <2>1
<1>6. CoveredBy(DOMAIN b, t)
  <2> DEFINE id == [i \in DOMAIN b |-> i]
  <2>1. \A i \in DOMAIN b : t[i].tag = tag /\ tag # "added"
    OBVIOUS
  <2>2. id \in [DOMAIN b -> {i \in DOMAIN t : t[i].tag # "added"}] /\ \A i, j \in DOMAIN b : id[i] = id[j] => i = j
    BY <2>1
  <2> HIDE DEF id, t
  <2> QED BY Zenon, <2>2 DEF CoveredBy
<1> QED BY Zenon, <1>5, <1>6 DEF b

\* The sources of either moment are lists of lines.
LEMMA OldSources == ASSUME DiffAssumption PROVE SourcesAre(Diffs!Old)
<1>1. Diffs!Old = [p \in Diffs!Range(DiffPaths) |-> DiffBase[CHOOSE g \in DOMAIN DiffBase : DiffPaths[g] = p]]
  BY Zenon DEF Diffs!Old, Diffs!Files
<1>2. Diffs!Range(DiffPaths) = {DiffPaths[g] : g \in DOMAIN DiffBase} /\ IsFiniteSet(DOMAIN DiffBase)
  BY Zenon DEF Diffs!Range, DiffAssumption
<1>3. IsFiniteSet({DiffPaths[g] : g \in DOMAIN DiffBase})
  BY <1>2, ImageIsFinite
<1>4. ASSUME NEW p \in Diffs!Range(DiffPaths) PROVE \E n \in Nat : DOMAIN Diffs!Old[p] = 1..n
  <2> DEFINE x == CHOOSE g \in DOMAIN DiffBase : DiffPaths[g] = p
  <2>1. x \in DOMAIN DiffBase
    BY Zenon, <1>2
  <2>2. Diffs!Old[p] = DiffBase[x]
    BY Zenon, <1>1
  <2> HIDE DEF x
  <2>3. DiffBase[x] \in Seq(ToSet(DiffBase[x]))
    BY Zenon, <2>1 DEF DiffAssumption
  <2> DEFINE b == DiffBase[x]
             T == ToSet(b)
  <2>4. b \in Seq(T)
    BY Zenon, <2>3
  <2> HIDE DEF b, T
  <2>5. Len(b) \in Nat /\ DOMAIN b = 1..Len(b)
    BY <2>4
  <2> QED BY Zenon, <2>2, <2>5 DEF b
<1> QED BY Zenon, <1>1, <1>2, <1>3, <1>4 DEF SourcesAre

\* After the edits too.
LEMMA NewSources == ASSUME DiffAssumption, TextsAre PROVE SourcesAre(Diffs!New)
<1> DEFINE there == {g \in DOMAIN DiffBase : ~Diffs!IsGone(g)}
           path  == [g \in there |-> Diffs!Path(g)]
<1>1. Diffs!New = [p \in {Diffs!Path(g) : g \in there} |-> Diffs!Text(CHOOSE g \in there : Diffs!Path(g) = p, "removed")]
  BY Zenon DEF Diffs!New, Diffs!Files
<1>2. IsFiniteSet(there)
  <2>1. there \subseteq DOMAIN DiffBase /\ IsFiniteSet(DOMAIN DiffBase)
    BY Zenon DEF DiffAssumption
  <2> HIDE DEF there
  <2> QED BY <2>1, FewerAre
<1>3. path \in Surjection(there, {Diffs!Path(g) : g \in there})
  <2> HIDE DEF there
  <2> QED BY DEF Surjection
<1>4. \A g \in there : g \in DOMAIN DiffBase
  OBVIOUS
<1> HIDE DEF there, path
<1>5. IsFiniteSet({Diffs!Path(g) : g \in there})
  BY <1>2, <1>3, FS_Surjection
<1>6. ASSUME NEW p \in {Diffs!Path(g) : g \in there} PROVE \E n \in Nat : DOMAIN Diffs!New[p] = 1..n
  <2> DEFINE x == CHOOSE g \in there : Diffs!Path(g) = p
  <2>1. x \in there
    BY Zenon
  <2>2. Diffs!New[p] = Diffs!Text(x, "removed")
    BY Zenon, <1>1
  <2> HIDE DEF x
  <2>3. \E n \in Nat : DOMAIN texts[x] = 1..n
    BY Zenon, <1>4, <2>1, RowsAre
  <2>4. \E n \in Nat : DOMAIN Diffs!Text(x, "removed") = 1..n
    BY <2>3, TextEnds
  <2> QED BY Zenon, <2>2, <2>4
<1> QED BY Zenon, <1>1, <1>5, <1>6 DEF SourcesAre

----------------------------------------------------------------------------
\* The invariant holds at first.
LEMMA DiffStarts == ASSUME DiffAssumption, Diffs!Init PROVE DiffInv
<1>1. texts = [f \in DOMAIN DiffBase |-> [i \in DOMAIN DiffBase[f] |-> [tag |-> "kept", owner |-> DiffBase[f][i]]]] /\ built = Diffs!Old
  BY Zenon DEF Diffs!Init, Diffs!Start, Diffs!Files
<1>2. ASSUME NEW f \in DOMAIN DiffBase PROVE texts[f] \in Seq(DiffRow) /\ CoveredBy(DOMAIN DiffBase[f], texts[f])
  <2> DEFINE t == [i \in DOMAIN DiffBase[f] |-> [tag |-> "kept", owner |-> DiffBase[f][i]]]
  <2>1. texts[f] = t
    BY Zenon, <1>1
  <2>2. "kept" \in {"kept", "removed"}
    OBVIOUS
  <2>3. t \in Seq(DiffRow) /\ CoveredBy(DOMAIN DiffBase[f], t)
    BY Zenon, <2>2, BaseCovers
  <2> QED BY Zenon, <2>1, <2>3
<1>3. TextsAre
  <2>1. texts = [f \in DOMAIN DiffBase |-> texts[f]]
    BY <1>1
  <2> QED BY Zenon, <1>2, <2>1 DEF TextsAre
<1>4. SourcesAre(built)
  BY Zenon, <1>1, OldSources
<1> QED BY Zenon, <1>2, <1>3, <1>4 DEF DiffInv

\* A file's text is replaced by one that keeps its old lines.
LEMMA EditKeeps ==
    ASSUME DiffInv, NEW f \in DOMAIN DiffBase, NEW t \in Seq(DiffRow), CoveredBy(DOMAIN DiffBase[f], t),
           texts' = [texts EXCEPT ![f] = t], built' = built
    PROVE  DiffInv'
<1>1. TextsAre'
  BY DEF DiffInv, TextsAre
<1>2. ASSUME NEW g \in DOMAIN DiffBase PROVE CoveredBy(DOMAIN DiffBase[g], texts'[g])
  <2>1. texts'[g] = IF g = f THEN t ELSE texts[g]
    BY DEF DiffInv, TextsAre
  <2> QED BY Zenon, <2>1 DEF DiffInv
<1>3. SourcesAre(built')
  BY Zenon DEF DiffInv
<1> QED BY Zenon, <1>1, <1>2, <1>3 DEF DiffInv

\* And every edit keeps it.
LEMMA DiffSteps == ASSUME DiffAssumption, DiffInv, [Diffs!Next]_(Diffs!vars) PROVE DiffInv'
<1>1. CASE UNCHANGED Diffs!vars
  <2>1. texts' = texts /\ built' = built
    BY Zenon, <1>1 DEF Diffs!vars
  <2> QED BY Zenon, <2>1 DEF DiffInv, TextsAre
<1>2. ASSUME NEW f \in DOMAIN DiffBase,
             NEW owner \in {Nothing} \cup {s \in DOMAIN DiffTypes : DiffTypes[s] \in {DiffTypes[o] : o \in Diffs!Range(DiffBase[f]) \ {Nothing}}},
             NEW i \in 0..Len(texts[f]), Diffs!AddLine(f, i, owner)
      PROVE  DiffInv'
  <2> DEFINE e == [tag |-> "added", owner |-> owner]
             t == Diffs!InsertAt(texts[f], i + 1, e)
  <2>1. e \in DiffRow
    BY DEF DiffRow
  <2>2. texts[f] \in Seq(DiffRow) /\ CoveredBy(DOMAIN DiffBase[f], texts[f])
    BY Zenon, RowsAre DEF DiffInv
  <2>3. texts' = [texts EXCEPT ![f] = t] /\ built' = built
    BY Zenon, <1>2 DEF Diffs!AddLine
  <2> HIDE DEF e
  <2>4. t \in Seq(DiffRow)
    BY <2>1, <2>2, InsertIs
  <2>5. CoveredBy(DOMAIN DiffBase[f], t)
    BY <2>1, <2>2, InsertCovers
  <2> HIDE DEF t
  <2> QED BY Zenon, <2>3, <2>4, <2>5, EditKeeps
<1>3. ASSUME NEW f \in DOMAIN DiffBase, NEW i \in DOMAIN texts[f], Diffs!RemoveLine(f, i)
      PROVE  DiffInv'
  <2> DEFINE s == texts[f]
             t == IF s[i].tag = "added" THEN Diffs!RemoveAt(s, i) ELSE [s EXCEPT ![i].tag = "removed"]
  <2>1. s \in Seq(DiffRow) /\ CoveredBy(DOMAIN DiffBase[f], s) /\ DOMAIN s = 1..Len(s)
    BY Zenon, RowsAre DEF DiffInv
  <2>2. texts' = [texts EXCEPT ![f] = t] /\ built' = built
    BY Zenon, <1>3 DEF Diffs!RemoveLine
  <2>3. i \in 1..Len(s)
    BY Zenon, <1>3, <2>1
  <2> HIDE DEF s
  <2>4. t \in Seq(DiffRow) /\ CoveredBy(DOMAIN DiffBase[f], t)
    <3>1. CASE s[i].tag = "added"
      <4>1. Diffs!RemoveAt(s, i) \in Seq(DiffRow)
        BY <2>1, <2>3, RemoveIs
      <4>2. CoveredBy(DOMAIN DiffBase[f], Diffs!RemoveAt(s, i))
        BY <2>1, <2>3, <3>1, RemoveCovers
      <4> QED BY Zenon, <3>1, <4>1, <4>2
    <3>2. CASE s[i].tag # "added"
      <4>1. [s EXCEPT ![i].tag = "removed"] \in Seq(DiffRow) /\ CoveredBy(DOMAIN DiffBase[f], [s EXCEPT ![i].tag = "removed"])
        BY <2>1, <2>3, MarkCovers
      <4> QED BY Zenon, <3>2, <4>1
    <3> QED BY Zenon, <3>1, <3>2
  <2> HIDE DEF t
  <2> QED BY Zenon, <2>2, <2>4, EditKeeps
<1>4. ASSUME NEW f \in DOMAIN DiffBase, Diffs!DeleteFile(f) PROVE DiffInv'
  <2> DEFINE t == [i \in DOMAIN DiffBase[f] |-> [tag |-> "removed", owner |-> DiffBase[f][i]]]
  <2>1. texts' = [texts EXCEPT ![f] = t] /\ built' = built
    BY Zenon, <1>4 DEF Diffs!DeleteFile
  <2>2. "removed" \in {"kept", "removed"}
    OBVIOUS
  <2>3. t \in Seq(DiffRow) /\ CoveredBy(DOMAIN DiffBase[f], t)
    BY Zenon, <2>2, BaseCovers
  <2> HIDE DEF t
  <2> QED BY Zenon, <2>1, <2>3, EditKeeps
<1>5. ASSUME NEW f \in DOMAIN DiffBase, Diffs!MoveFile(f) PROVE DiffInv'
  <2>1. texts' = texts /\ built' = built
    BY Zenon, <1>5 DEF Diffs!MoveFile
  <2> QED BY Zenon, <2>1 DEF DiffInv, TextsAre
<1>6. CASE Diffs!Reindex
  <2>1. texts' = texts /\ built' = Diffs!New
    BY Zenon, <1>6 DEF Diffs!Reindex
  <2>2. SourcesAre(Diffs!New)
    BY Zenon, NewSources DEF DiffInv
  <2> QED BY Zenon, <2>1, <2>2 DEF DiffInv, TextsAre
<1>7. Diffs!Next =>
        \/ \E f \in DOMAIN DiffBase : \E owner \in {Nothing} \cup {s \in DOMAIN DiffTypes : DiffTypes[s] \in {DiffTypes[o] : o \in Diffs!Range(DiffBase[f]) \ {Nothing}}},
               i \in 0..Len(texts[f]) : Diffs!AddLine(f, i, owner)
        \/ \E f \in DOMAIN DiffBase : \E i \in DOMAIN texts[f] : Diffs!RemoveLine(f, i)
        \/ \E f \in DOMAIN DiffBase : Diffs!DeleteFile(f) \/ Diffs!MoveFile(f)
        \/ Diffs!Reindex
  BY Zenon DEF Diffs!Next, Diffs!Files
<1> QED BY Zenon, <1>1, <1>2, <1>3, <1>4, <1>5, <1>6, <1>7

\* What a diff touches is found, and a diff of more files is of no less risk.
THEOREM DiffStaysWeighed == Diffs!Spec => []DiffIsWeighed
<1>1. Diffs!Init => DiffInv
  BY DiffStarts, DiffAssumption
<1>2. DiffInv /\ [Diffs!Next]_(Diffs!vars) => DiffInv'
  BY DiffSteps, DiffAssumption
<1>3. DiffInv => DiffIsWeighed
  BY Zenon, DiffAssumption, ChangesFound, MoreRiskier DEF DiffIsWeighed, Diffs!DiffIsWeighed
<1> QED BY <1>1, <1>2, <1>3, PTL DEF Diffs!Spec
=============================================================================
