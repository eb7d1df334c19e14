---------------------- MODULE RadixTreeOneThreadProofs ----------------------
(***************************************************************************)
(* Proofs about module RadixTree on a runtime with one worker thread, with *)
(* all the operations of Tree: operations and passes take place one at a   *)
(* time, and what each of them promises can be stated.  Matches return the *)
(* longest prefix, remove_tenant leaves nothing behind, counts are exact   *)
(* and a pass meets its limit.                                             *)
(*                                                                         *)
(* The paths of the nodes (Path) are defined by recursion along the        *)
(* parents.  No induction is needed to reason about them: the invariant    *)
(* says that there are paths, each step extends them, and that climbing    *)
(* ends at the root makes them unique.                                     *)
(***************************************************************************)
EXTENDS RadixTreeChargeProofs

\* F gives the texts from the root to the attached nodes of N.
Spells(N, F) ==
  /\ \A n \in Att(N) : F[n] \in Seq(Char)
  /\ F[Root] = << >>
  /\ \A n \in Att(N) \ {Root} : F[n] = F[N[n].parent] \o N[n].text

\* Nodes S of the tree, each with its parent.
Closed(N, S) == S \subseteq Att(N) /\ \A n \in S \ {Root} : N[n].parent \in S

\* The first o characters of x are the first of s; more than o of them are.
Along(s, x, o) == Len(s) >= o /\ Len(x) >= o /\ \A i \in 1 .. o : s[i] = x[i]
Beyond(s, x, o) == Len(s) > o /\ Len(x) > o /\ \A i \in 1 .. o + 1 : s[i] = x[i]

\* A node of S that shares more than o characters with x is reached through a.
Narrow(N, F, S, x, a, o) ==
  \A n \in S \ {Root} :
    Beyond(F[n], x, o) => N[n].parent = a \/ Beyond(F[N[n].parent], x, o)

----------------------------------------------------------------------------
(* Walking down a tree. *)

\* Nodes that have their parents among them, but not the root, are none.
LEMMA ClosedEmpty ==
  ASSUME NEW N, Climbs(N), NEW S \in SUBSET (Att(N) \ {Root}),
         \A n \in S : N[n].parent \in S
  PROVE  S = {}
BY DEF Climbs

\* u is s and then t, which is not empty.
Joined(u, s, t) ==
  /\ s \in Seq(Char) /\ t \in Seq(Char) /\ u \in Seq(Char)
  /\ Len(s) \in Nat /\ Len(t) \in Nat /\ Len(t) > 0
  /\ Len(u) = Len(s) + Len(t)
  /\ \A i \in 1 .. Len(s) : u[i] = s[i]
  /\ \A i \in 1 .. Len(t) : u[Len(s) + i] = t[i]

\* What joining texts gives.
LEMMA JoinedIs ==
  ASSUME NEW s \in Seq(Char), NEW t \in Seq(Char), t # << >>
  PROVE  Joined(s \o t, s, t)
<1>1. Len(t) \in Nat /\ Len(s) \in Nat /\ Len(t) > 0
  OBVIOUS
<1>2. s \o t \in Seq(Char) /\ Len(s \o t) = Len(s) + Len(t)
  BY ConcatProperties
<1>3. \A i \in 1 .. Len(s) : (s \o t)[i] = s[i]
  OBVIOUS
<1>4. \A i \in 1 .. Len(t) : (s \o t)[Len(s) + i] = t[i]
  OBVIOUS
<1> QED
  BY <1>1, <1>2, <1>3, <1>4 DEF Joined

\* The path of a node is that of its parent and its own text.
LEMMA PathStep ==
  ASSUME NEW N, Shape(N), NEW F, Spells(N, F), NEW n \in Att(N), n # Root
  PROVE  N[n].parent \in Att(N) /\ Joined(F[n], F[N[n].parent], N[n].text)
<1> DEFINE s == F[N[n].parent]
           t == N[n].text
<1>1. N[n].parent \in Att(N) /\ n \in DOMAIN N
  BY ParentLink, AttType
<1>2. N \in Seq(NodeRec) /\ t # << >>
  BY <1>1, ShapeNode
<1>3. t \in Seq(Char)
  BY <1>1, <1>2, NodeType
<1>4. F[n] = s \o t /\ s \in Seq(Char)
  BY <1>1 DEF Spells
<1> HIDE DEF s, t
<1>5. Joined(F[n], s, t)
  BY <1>2, <1>3, <1>4, JoinedIs
<1> QED
  BY <1>1, <1>5 DEF s, t

\* Sharing more characters, and the prefixes of a text that shares some.
LEMMA BeyondLess ==
  ASSUME NEW s \in Seq(Char), NEW x \in Seq(Char), NEW o \in Nat, NEW m \in Nat,
         Beyond(s, x, m), o <= m
  PROVE  Beyond(s, x, o)
BY DEF Beyond

\* The character after s.
LEMMA JoinedNext ==
  ASSUME NEW u, NEW s, NEW t, Joined(u, s, t)
  PROVE  u[Len(s) + 1] = t[1] /\ Len(u) > Len(s) /\ Len(u) \in Nat /\ Len(s) \in Nat
BY DEF Joined

\* A walk without a child to go to has gone as far as the tree goes.
LEMMA WalkEnd ==
  ASSUME NEW N, Shape(N), Climbs(N), NEW F, Spells(N, F), NEW S, Closed(N, S),
         NEW x \in Seq(Char), NEW a \in Att(N), NEW o \in Nat, o = Len(F[a]),
         Narrow(N, F, S, x, a, o),
         o < Len(x) => \A n \in S \ {Root} : N[n].parent = a => N[n].text[1] # x[o + 1]
  PROVE  \A n \in S : ~Beyond(F[n], x, o)
<1> DEFINE B == {n \in S \ {Root} : Beyond(F[n], x, o)}
<1>1. ~Beyond(F[Root], x, o)
  BY DEF Spells, Beyond
<1>2. ASSUME NEW n \in B PROVE N[n].parent \in B
  <2>1. n \in S /\ n \in Att(N) /\ n # Root /\ Beyond(F[n], x, o) /\ N[n].parent \in S
    BY DEF Closed
  <2>2. CASE N[n].parent = a
    <3>1. Joined(F[n], F[a], N[n].text)
      BY <2>1, <2>2, PathStep
    <3>2. F[n][o + 1] = N[n].text[1]
      BY <3>1, JoinedNext
    <3>3. F[n][o + 1] = x[o + 1] /\ o < Len(x)
      BY <2>1 DEF Beyond
    <3> QED
      BY <2>1, <2>2, <3>2, <3>3
  <2>3. CASE N[n].parent # a
    BY <1>1, <2>1, <2>3 DEF Narrow
  <2> QED
    BY <2>2, <2>3
<1>3. B \in SUBSET (Att(N) \ {Root})
  BY DEF Closed
<1>4. B = {}
  <2> HIDE DEF B
  <2> QED
    BY <1>2, <1>3, ClosedEmpty
<1> QED
  BY <1>1, <1>4

\* s begins with w.
Begins(s, w) == Len(w) <= Len(s) /\ \A i \in 1 .. Len(w) : s[i] = w[i]

\* Facts about texts that begin with one another.
LEMMA BeginsFacts ==
  ASSUME NEW u, NEW s, NEW t, Joined(u, s, t), NEW w \in Seq(Char), NEW x \in Seq(Char),
         NEW o \in Nat
  PROVE  /\ Begins(s, w) => Begins(u, w)
         /\ Beyond(u, x, o) /\ Len(s) > o => Beyond(s, x, o)
         /\ Beyond(u, x, o) /\ Len(s) <= o => Along(s, x, Len(s))
         /\ Along(u, x, Len(u)) => Along(s, x, Len(s))
<1> USE DEF Joined
<1>1. Begins(s, w) => Begins(u, w)
  BY DEF Begins
<1>2. Beyond(u, x, o) /\ Len(s) > o => Beyond(s, x, o)
  BY DEF Beyond
<1>3. Beyond(u, x, o) /\ Len(s) <= o => Along(s, x, Len(s))
  BY DEF Beyond, Along
<1>4. Along(u, x, Len(u)) => Along(s, x, Len(s))
  BY DEF Along
<1> QED
  BY <1>1, <1>2, <1>3, <1>4

\* The step of a walk: the texts alone.
LEMMA WalkText ==
  ASSUME NEW u, NEW s, NEW t, Joined(u, s, t), NEW x \in Seq(Char), Along(s, x, Len(s)),
         NEW j, j = SharedCount(Advance(x, Len(s)), t)
  PROVE  LET o == Len(s)
         IN  /\ j \in Nat /\ o \in Nat /\ Along(u, x, o + j)
             /\ j = Len(t) => Len(u) = o + j
             /\ j # Len(t) => o + j = Len(x) \/ (Len(u) > o + j /\ u[o + j + 1] # x[o + j + 1])
<1> DEFINE o == Len(s)
           rest == Advance(x, o)
<1>1. /\ o \in Nat /\ Len(t) \in Nat /\ Len(x) \in Nat /\ o <= Len(x) /\ t \in Seq(Char)
      /\ Len(u) = o + Len(t) /\ \A i \in 1 .. o : u[i] = s[i] /\ s[i] = x[i]
      /\ \A i \in 1 .. Len(t) : u[o + i] = t[i]
  BY DEF Joined, Along
<1>2. /\ rest \in Seq(Char) /\ Len(rest) = Len(x) - o
      /\ \A i \in 1 .. Len(x) - o : rest[i] = x[o + i]
  BY <1>1, HalfText
<1>3. /\ j \in 0 .. Len(rest) /\ j <= Len(t) /\ \A i \in 1 .. j : rest[i] = t[i]
      /\ j < Len(rest) /\ j < Len(t) => rest[j + 1] # t[j + 1]
  <2>1. rest \in Seq(Char) /\ t \in Seq(Char) /\ j = SharedCount(rest, t)
    BY <1>1, <1>2
  <2> HIDE DEF rest
  <2> QED
    BY <2>1, SharedCountIs
<1> HIDE DEF o, rest
<1>4. j \in Nat /\ o + j <= Len(x) /\ o + j <= Len(u)
  BY <1>1, <1>2, <1>3
<1>5. ASSUME NEW i \in 1 .. o + j PROVE u[i] = x[i]
  <2>1. CASE i <= o
    BY <1>1, <2>1
  <2>2. CASE i > o
    <3> DEFINE d == i - o
    <3>1. d \in 1 .. j /\ d \in 1 .. Len(t) /\ d \in 1 .. Len(x) - o /\ o + d = i
      BY <1>1, <1>2, <1>3, <1>4, <2>2
    <3> HIDE DEF d
    <3>2. rest[d] = t[d] /\ rest[d] = x[o + d] /\ u[o + d] = t[d]
      BY <1>1, <1>2, <1>3, <3>1
    <3> QED
      BY <3>1, <3>2
  <2> QED
    BY <1>1, <1>4, <2>1, <2>2
<1>6. Along(u, x, o + j)
  BY <1>1, <1>4, <1>5 DEF Along
<1>7. ASSUME j # Len(t), o + j # Len(x)
      PROVE  Len(u) > o + j /\ u[o + j + 1] # x[o + j + 1]
  <2>1. j < Len(t) /\ j < Len(rest) /\ j + 1 \in 1 .. Len(t) /\ j + 1 \in 1 .. Len(x) - o
    <3> DEFINE b == Len(t)
               l == Len(x)
               v == Len(rest)
    <3>1. /\ o \in Nat /\ b \in Nat /\ l \in Nat /\ o <= l /\ v = l - o
          /\ j \in Nat /\ j <= v /\ j <= b /\ j # b /\ o + j # l
      BY <1>1, <1>2, <1>3, <1>7
    <3> HIDE DEF b, l, v
    <3>2. j < b /\ j < v /\ j + 1 \in 1 .. b /\ j + 1 \in 1 .. l - o
      BY <3>1
    <3> QED
      BY <3>2 DEF b, l, v
  <2>2. rest[j + 1] # t[j + 1] /\ rest[j + 1] = x[o + (j + 1)] /\ u[o + (j + 1)] = t[j + 1]
    <3>1. rest[j + 1] # t[j + 1]
      BY <1>3, <2>1
    <3>2. rest[j + 1] = x[o + (j + 1)]
      BY <1>2, <2>1
    <3>3. u[o + (j + 1)] = t[j + 1]
      BY <1>1, <2>1
    <3> QED
      BY <3>1, <3>2, <3>3
  <2>3. o + (j + 1) = o + j + 1
    BY <1>1, <1>4
  <2>4. Len(u) > o + j
    <3> DEFINE b == Len(t)
    <3>1. j < b /\ b \in Nat /\ Len(u) = o + b
      BY <1>1, <2>1
    <3> HIDE DEF b
    <3> QED
      BY <1>1, <1>4, <3>1
  <2> QED
    BY <2>2, <2>3, <2>4
<1> QED
  BY <1>1, <1>4, <1>6, <1>7 DEF o

\* A walk from a, where it has matched the o characters of the path, to its child n.
Down(N, F, S, x, a, o, n) ==
  /\ a \in Att(N) /\ o \in Nat /\ o = Len(F[a]) /\ Along(F[a], x, o)
  /\ Narrow(N, F, S, x, a, o)
  /\ n \in S \ {Root} /\ N[n].parent = a
  /\ o < Len(x) /\ N[n].text[1] = x[o + 1]

\* No other child of a shares the next character.
LEMMA OnlyChild ==
  ASSUME NEW N, Shape(N), NEW F, Spells(N, F), NEW S, Closed(N, S),
         NEW x \in Seq(Char), NEW a, NEW o, NEW n, Down(N, F, S, x, a, o, n),
         NEW m \in S \ {Root}, N[m].parent = a, Beyond(F[m], x, o)
  PROVE  m = n
<1>1. n \in Att(N) /\ n # Root /\ m \in Att(N) /\ m # Root /\ N[n].parent = a /\ o = Len(F[a])
  BY DEF Down, Closed
<1>2. Joined(F[m], F[a], N[m].text)
  BY <1>1, PathStep
<1>3. F[m][o + 1] = N[m].text[1]
  BY <1>1, <1>2, JoinedNext
<1>4. N[m].text[1] = N[n].text[1]
  BY <1>3 DEF Down, Beyond
<1>5. N[a].children[N[n].text[1]] = n /\ N[a].children[N[m].text[1]] = m
  BY <1>1, ParentLink
<1> QED
  BY <1>4, <1>5

\* A child that matches in part: nothing in the tree shares more with the text.
LEMMA WalkPart ==
  ASSUME NEW N, Shape(N), Climbs(N), NEW F, Spells(N, F), NEW S, Closed(N, S),
         NEW x \in Seq(Char), NEW a, NEW o, NEW n, Down(N, F, S, x, a, o, n),
         NEW e \in Nat, o <= e,
         e = Len(x) \/ (Len(F[n]) > e /\ F[n][e + 1] # x[e + 1])
  PROVE  \A m \in S : ~Beyond(F[m], x, e)
<1> DEFINE Y == {m \in S \ {Root} : Beyond(F[m], x, o) /\ ~Begins(F[m], F[n])}
<1>0. /\ o \in Nat /\ F[n] \in Seq(Char) /\ Len(F[n]) \in Nat /\ S \subseteq Att(N)
      /\ n \in S /\ Len(x) \in Nat
  <2>1. o \in Nat /\ n \in S /\ S \subseteq Att(N)
    BY DEF Down, Closed
  <2> QED
    BY <2>1 DEF Spells
<1>1. Y \in SUBSET (Att(N) \ {Root})
  BY <1>0
<1>2. ASSUME NEW m \in Y PROVE N[m].parent \in Y
  <2> DEFINE q == N[m].parent
  <2>1. m \in S \ {Root} /\ m \in Att(N) /\ Beyond(F[m], x, o) /\ ~Begins(F[m], F[n]) /\ q \in S
    BY <1>0 DEF Closed
  <2>2. Begins(F[n], F[n])
    BY <1>0 DEF Begins
  <2>3. q # a
    BY <2>1, <2>2, OnlyChild
  <2>4. Beyond(F[q], x, o)
    BY <2>1, <2>3 DEF Down, Narrow
  <2>5. q # Root
    BY <1>0, <2>4 DEF Spells, Beyond
  <2>6. Joined(F[m], F[q], N[m].text)
    BY <2>1, PathStep
  <2>7. ~Begins(F[q], F[n])
    BY <1>0, <2>1, <2>6, BeginsFacts
  <2> QED
    BY <2>1, <2>4, <2>5, <2>7
<1>3. Y = {}
  <2> HIDE DEF Y
  <2> QED
    BY <1>1, <1>2, ClosedEmpty
<1>4. ASSUME NEW m \in S, Beyond(F[m], x, e) PROVE FALSE
  <2>1. m # Root
    BY <1>4 DEF Spells, Beyond
  <2>2. F[m] \in Seq(Char)
    BY <1>0 DEF Spells
  <2>3. Beyond(F[m], x, o)
    BY <1>0, <1>4, <2>2, BeyondLess
  <2>4. Begins(F[m], F[n])
    BY <1>3, <2>1, <2>3
  <2>5. e < Len(x) /\ F[m][e + 1] = x[e + 1]
    BY <1>4 DEF Beyond
  <2>6. F[m][e + 1] = F[n][e + 1]
    <3>1. Len(F[n]) > e
      BY <1>0, <2>5
    <3>2. e + 1 \in 1 .. Len(F[n])
      BY <1>0, <3>1
    <3> QED
      BY <2>4, <3>2 DEF Begins
  <2> QED
    BY <1>0, <2>5, <2>6
<1> QED
  BY <1>4

\* A child that matches as a whole: what shares more with the text is below it.
LEMMA WalkThrough ==
  ASSUME NEW N, Shape(N), Climbs(N), NEW F, Spells(N, F), NEW S, Closed(N, S),
         NEW x \in Seq(Char), NEW a, NEW o, NEW n, Down(N, F, S, x, a, o, n),
         NEW e \in Nat, o <= e, e = Len(F[n])
  PROVE  Narrow(N, F, S, x, n, e)
<1> DEFINE Z == {m \in S \ {Root} : /\ m # n /\ Beyond(F[m], x, o)
                                    /\ Len(F[m]) <= e /\ Along(F[m], x, Len(F[m]))}
<1>0. o \in Nat /\ S \subseteq Att(N) /\ n \in S
  BY DEF Down, Closed
<1>1. Z \in SUBSET (Att(N) \ {Root})
  BY <1>0
<1>2. ASSUME NEW m \in Z PROVE N[m].parent \in Z
  <2> DEFINE q == N[m].parent
  <2>1. /\ m \in S \ {Root} /\ m \in Att(N) /\ m # n /\ Beyond(F[m], x, o) /\ q \in S
        /\ Len(F[m]) <= e /\ Along(F[m], x, Len(F[m]))
    BY <1>0 DEF Closed
  <2>2. q # a
    BY <2>1, OnlyChild
  <2>3. Beyond(F[q], x, o)
    BY <2>1, <2>2 DEF Down, Narrow
  <2>4. q # Root
    BY <1>0, <2>3 DEF Spells, Beyond
  <2>5. Joined(F[m], F[q], N[m].text)
    BY <2>1, PathStep
  <2>6. Along(F[q], x, Len(F[q]))
    BY <1>0, <2>1, <2>5, BeginsFacts
  <2>7. Len(F[m]) > Len(F[q]) /\ Len(F[q]) \in Nat /\ Len(F[m]) \in Nat
    BY <2>5, JoinedNext
  <2>8. q # n /\ Len(F[q]) <= e
    BY <2>1, <2>7
  <2> QED
    BY <2>1, <2>3, <2>4, <2>6, <2>8
<1>3. Z = {}
  <2> HIDE DEF Z
  <2> QED
    BY <1>1, <1>2, ClosedEmpty
<1>4. ASSUME NEW m \in S \ {Root}, Beyond(F[m], x, e), N[m].parent # n
      PROVE  Beyond(F[N[m].parent], x, e)
  <2> DEFINE q == N[m].parent
  <2>1. m \in Att(N) /\ q \in S
    BY <1>0 DEF Closed
  <2>2. F[m] \in Seq(Char)
    BY <2>1 DEF Spells
  <2>3. Beyond(F[m], x, o)
    BY <1>0, <1>4, <2>2, BeyondLess
  <2>4. m # n
    BY <1>4 DEF Beyond
  <2>5. q # a
    BY <1>4, <2>3, <2>4, OnlyChild
  <2>6. Beyond(F[q], x, o)
    BY <1>4, <2>3, <2>5 DEF Down, Narrow
  <2>7. q # Root
    BY <1>0, <2>6 DEF Spells, Beyond
  <2>8. Joined(F[m], F[q], N[m].text)
    BY <2>1, PathStep
  <2>9. Len(F[q]) \in Nat
    BY <2>8, JoinedNext
  <2>10. CASE Len(F[q]) > e
    BY <1>4, <2>8, <2>10, BeginsFacts
  <2>11. CASE Len(F[q]) <= e
    <3>1. Along(F[q], x, Len(F[q]))
      BY <1>4, <2>8, <2>11, BeginsFacts
    <3> QED
      BY <1>3, <1>4, <2>1, <2>6, <2>7, <2>11, <3>1
  <2> QED
    BY <2>9, <2>10, <2>11
<1> QED
  BY <1>4 DEF Narrow

----------------------------------------------------------------------------
(* The paths of the nodes. *)

\* The equation of Path has a solution.
SolvedBy(N, F) ==
  /\ F \in [DOMAIN N -> Seq(Char)]
  /\ \A n \in DOMAIN N : F[n] = IF n = Root THEN << >> ELSE F[N[n].parent] \o N[n].text
Spelled(N) == \E F : SolvedBy(N, F)

\* It has one as long as texts and parents stay,
LEMMA SpelledKept ==
  ASSUME NEW N, Spelled(N), NEW M, DOMAIN M = DOMAIN N,
         \A n \in DOMAIN N : M[n].text = N[n].text /\ M[n].parent = N[n].parent
  PROVE  Spelled(M)
<1>1. PICK F : SolvedBy(N, F)
  BY DEF Spelled
<1>2. SolvedBy(M, F)
  BY <1>1 DEF SolvedBy
<1> QED
  BY <1>2 DEF Spelled

\* with a new leaf,
LEMMA SpelledLeaf ==
  ASSUME NEW N, Shape(N), Spelled(N), NEW M, NEW h, h \notin DOMAIN N,
         DOMAIN M = DOMAIN N \cup {h},
         \A n \in DOMAIN N : M[n].text = N[n].text /\ M[n].parent = N[n].parent,
         M[h].parent \in DOMAIN N, M[h].text \in Seq(Char)
  PROVE  Spelled(M)
<1>1. PICK F : SolvedBy(N, F)
  BY DEF Spelled
<1> DEFINE s == F[M[h].parent] \o M[h].text
           G == [n \in DOMAIN M |-> IF n = h THEN s ELSE F[n]]
<1>2. h # Root
  BY DEF Shape
<1>3. F \in [DOMAIN N -> Seq(Char)] /\ F[M[h].parent] \in Seq(Char)
  BY <1>1 DEF SolvedBy
<1>4. s \in Seq(Char)
  BY <1>3, ConcatProperties
<1>5. \A n \in DOMAIN N : N[n].parent \in DOMAIN N
  BY ShapeNode
<1> HIDE DEF s
<1>6. G \in [DOMAIN M -> Seq(Char)]
  BY <1>3, <1>4
<1>7. ASSUME NEW n \in DOMAIN M
      PROVE  G[n] = IF n = Root THEN << >> ELSE G[M[n].parent] \o M[n].text
  <2>1. CASE n = h
    BY <1>2, <2>1 DEF s
  <2>2. CASE n # h
    <3>1. n \in DOMAIN N /\ M[n].text = N[n].text /\ M[n].parent = N[n].parent
      BY <2>2
    <3>2. G[n] = F[n] /\ G[M[n].parent] = F[N[n].parent]
      BY <1>5, <2>2, <3>1
    <3>3. F[n] = IF n = Root THEN << >> ELSE F[N[n].parent] \o N[n].text
      BY <1>1, <3>1 DEF SolvedBy
    <3> HIDE DEF G
    <3> QED
      BY <3>1, <3>2, <3>3
  <2> QED
    BY <2>1, <2>2
<1>8. SolvedBy(M, G)
  <2> HIDE DEF G
  <2> QED
    BY <1>6, <1>7 DEF SolvedBy
<1> QED
  BY <1>8 DEF Spelled

\* The two halves of a text make it up.
LEMMA HalvesJoin ==
  ASSUME NEW r \in Seq(Char), NEW s \in Seq(Char), NEW i \in 0 .. Len(s)
  PROVE  (r \o Take(s, i)) \o Advance(s, i) = r \o s
<1> DEFINE a == Take(s, i)
           b == Advance(s, i)
<1>1. /\ a \in Seq(Char) /\ Len(a) = i /\ \A j \in 1 .. i : a[j] = s[j]
      /\ b \in Seq(Char) /\ Len(b) = Len(s) - i /\ \A j \in 1 .. Len(s) - i : b[j] = s[i + j]
  BY HalfText
<1> HIDE DEF a, b
<1>2. Len(s) \in Nat /\ Len(r) \in Nat /\ i \in Nat /\ i <= Len(s)
  OBVIOUS
<1> DEFINE u == (r \o a) \o b
           v == r \o s
<1>3. u \in Seq(Char) /\ v \in Seq(Char)
  BY <1>1, ConcatProperties
<1>4. Len(r \o a) = Len(r) + i /\ r \o a \in Seq(Char)
  BY <1>1, ConcatProperties
<1>5. Len(u) = Len(r) + Len(s) /\ Len(v) = Len(r) + Len(s)
  <2> DEFINE ra == r \o a
  <2>1. Len(u) = Len(r) + i + (Len(s) - i)
    <3>1. ra \in Seq(Char) /\ Len(ra) = Len(r) + i /\ u = ra \o b
      BY <1>4
    <3>2. Len(ra \o b) = Len(ra) + Len(b)
      BY <1>1, <3>1, ConcatProperties
    <3> HIDE DEF ra, u
    <3> QED
      BY <1>1, <3>1, <3>2
  <2>2. Len(v) = Len(r) + Len(s)
    BY ConcatProperties
  <2> QED
    BY <1>2, <2>1, <2>2
<1>6. ASSUME NEW j \in 1 .. Len(r) + Len(s) PROVE u[j] = v[j]
  <2>1. CASE j <= Len(r)
    <3>1. u[j] = (r \o a)[j] /\ (r \o a)[j] = r[j] /\ v[j] = r[j]
      BY <1>1, <1>2, <1>4, <2>1
    <3> QED
      BY <3>1
  <2>2. CASE j > Len(r) /\ j <= Len(r) + i
    <3>1. u[j] = (r \o a)[j]
      BY <1>1, <1>2, <1>4, <2>2
    <3>2. (r \o a)[j] = a[j - Len(r)]
      BY <1>1, <1>2, <2>2
    <3>3. v[j] = s[j - Len(r)] /\ j - Len(r) \in 1 .. i
      BY <1>2, <2>2
    <3> QED
      BY <1>1, <3>1, <3>2, <3>3
  <2>3. CASE j > Len(r) + i
    <3>1. u[j] = b[j - (Len(r) + i)]
      BY <1>1, <1>2, <1>4, <2>3
    <3>2. v[j] = s[j - Len(r)]
      BY <1>2, <2>3
    <3> DEFINE d == j - (Len(r) + i)
    <3>3. d \in 1 .. Len(s) - i /\ i + d = j - Len(r)
      BY <1>2, <2>3
    <3>4. b[d] = s[i + d]
      BY <1>1, <3>3
    <3> QED
      BY <3>1, <3>2, <3>3, <3>4
  <2> HIDE DEF u, v
  <2>4. j \in Nat /\ (j <= Len(r) \/ (j > Len(r) /\ j <= Len(r) + i) \/ j > Len(r) + i)
    BY <1>2
  <2> QED
    BY <2>1, <2>2, <2>3, <2>4
<1>7. u = v
  <2>1. Len(u) = Len(v) /\ \A j \in 1 .. Len(u) : u[j] = v[j]
    BY <1>5, <1>6
  <2> HIDE DEF u, v
  <2> QED
    BY <1>3, <2>1, SeqEqual
<1> QED
  BY <1>7 DEF a, b

\* and when a node is split.
LEMMA SpelledSplit ==
  ASSUME NEW N, Shape(N), Spelled(N), NEW M, NEW n \in Att(N), n # Root, NEW i \in Nat,
         i < Len(N[n].text), SplitAt(N, M, n, N[n].parent, i),
         DOMAIN M = DOMAIN N \cup {Len(N) + 1}, Len(N) + 1 \notin DOMAIN N
  PROVE  Spelled(M)
<1>1. PICK F : SolvedBy(N, F)
  BY DEF Spelled
<1> DEFINE h == Len(N) + 1
           p == N[n].parent
           w == N[n].text
           s == F[p] \o Take(w, i)
           G == [m \in DOMAIN M |-> IF m = h THEN s ELSE F[m]]
<1>2. n \in DOMAIN N /\ p \in DOMAIN N /\ p # n /\ h \notin DOMAIN N /\ h # Root
  <2>1. n \in DOMAIN N /\ p \in DOMAIN N /\ p # n
    BY AttType, ParentLink
  <2>2. Root \in DOMAIN N
    BY DEF Shape
  <2> QED
    BY <2>1, <2>2
<1>3. w \in Seq(Char) /\ i \in 0 .. Len(w)
  <2>1. N \in Seq(NodeRec)
    BY <1>2, ShapeNode
  <2>2. w \in Seq(Char)
    BY <1>2, <2>1, NodeType
  <2> QED
    BY <2>2
<1>4. /\ \A m \in DOMAIN N \ {n} : M[m].text = N[m].text /\ M[m].parent = N[m].parent
      /\ M[n].parent = h /\ M[n].text = Advance(w, i)
      /\ M[h].parent = p /\ M[h].text = Take(w, i)
  BY DEF SplitAt
<1>5. F \in [DOMAIN N -> Seq(Char)] /\ F[p] \in Seq(Char)
  BY <1>1, <1>2 DEF SolvedBy
<1>6. s \in Seq(Char)
  <2>1. Take(w, i) \in Seq(Char)
    BY <1>3, HalfText
  <2> QED
    BY <1>5, <2>1, ConcatProperties
<1>7. F[n] = s \o Advance(w, i)
  <2>1. F[n] = F[p] \o w
    BY <1>1, <1>2 DEF SolvedBy
  <2> HIDE DEF w, p
  <2> QED
    BY <1>3, <1>5, <2>1, HalvesJoin
<1>8. \A m \in DOMAIN N : N[m].parent \in DOMAIN N
  BY ShapeNode
<1> HIDE DEF s, h, p, w
<1>9. DOMAIN M = DOMAIN N \cup {h}
  BY DEF h
<1>10. G \in [DOMAIN M -> Seq(Char)]
  BY <1>5, <1>6, <1>9
<1>11. ASSUME NEW m \in DOMAIN M
       PROVE  G[m] = IF m = Root THEN << >> ELSE G[M[m].parent] \o M[m].text
  <2>1. CASE m = h
    <3>1. G[h] = s /\ G[p] = F[p]
      BY <1>2, <1>9
    <3> HIDE DEF G
    <3> QED
      BY <1>2, <1>4, <2>1, <3>1 DEF s
  <2>2. CASE m = n
    <3>1. G[h] = s /\ G[n] = F[n]
      BY <1>2, <1>9
    <3> HIDE DEF G
    <3> QED
      BY <1>4, <1>7, <2>2, <3>1
  <2>3. CASE m # h /\ m # n
    <3>1. m \in DOMAIN N /\ M[m].text = N[m].text /\ M[m].parent = N[m].parent
      BY <1>4, <1>9, <2>3
    <3>2. G[m] = F[m] /\ G[M[m].parent] = F[N[m].parent]
      BY <1>2, <1>8, <1>9, <2>3, <3>1
    <3>3. F[m] = IF m = Root THEN << >> ELSE F[N[m].parent] \o N[m].text
      BY <1>1, <3>1 DEF SolvedBy
    <3> HIDE DEF G
    <3> QED
      BY <3>1, <3>2, <3>3
  <2> QED
    BY <2>1, <2>2, <2>3
<1>12. SolvedBy(M, G)
  <2> HIDE DEF G
  <2> QED
    BY <1>10, <1>11 DEF SolvedBy
<1> QED
  BY <1>12 DEF Spelled

\* Where climbing ends at the root, Path is that solution on the attached nodes.
LEMMA PathSpells ==
  ASSUME Shape(node), Climbs(node), Spelled(node)
  PROVE  Spells(node, Path)
<1>1. PICK F : SolvedBy(node, F)
  BY DEF Spelled
<1> DEFINE Sol(P) == P = [n \in Nodes |-> IF n = Root THEN << >>
                                          ELSE P[node[n].parent] \o node[n].text]
<1>2. Sol(F)
  BY <1>1 DEF SolvedBy, Nodes
<1>3. Path = CHOOSE P : Sol(P)
  BY DEF Path
<1>4. Sol(Path)
  <2> HIDE DEF Sol
  <2> QED
    BY <1>2, <1>3
<1> HIDE DEF Path
<1>5. \A n \in DOMAIN node :
        Path[n] = IF n = Root THEN << >> ELSE Path[node[n].parent] \o node[n].text
  BY <1>4 DEF Nodes
<1>6. /\ \A n \in DOMAIN node : F[n] \in Seq(Char)
      /\ \A n \in DOMAIN node :
           F[n] = IF n = Root THEN << >> ELSE F[node[n].parent] \o node[n].text
  BY <1>1 DEF SolvedBy
<1>7. Att(node) \subseteq DOMAIN node /\ Root \in DOMAIN node
  BY AttType DEF Shape
<1> DEFINE D == {n \in Att(node) \ {Root} : Path[n] # F[n]}
<1>8. D = {}
  <2>1. ASSUME NEW n \in D PROVE node[n].parent \in D
    <3>1. n \in Att(node) /\ n # Root /\ n \in DOMAIN node /\ Path[n] # F[n]
      BY <1>7
    <3>2. node[n].parent \in Att(node)
      BY <3>1, ParentLink
    <3>3. Path[node[n].parent] # F[node[n].parent]
      BY <1>5, <1>6, <3>1
    <3>4. Path[Root] = F[Root]
      BY <1>5, <1>6, <1>7
    <3> QED
      BY <3>2, <3>3, <3>4
  <2>2. D \in SUBSET (Att(node) \ {Root})
    OBVIOUS
  <2> HIDE DEF D
  <2> QED
    BY <2>1, <2>2, ClosedEmpty
<1>9. Path[Root] = << >>
  BY <1>5, <1>7
<1>10. ASSUME NEW n \in Att(node) PROVE Path[n] \in Seq(Char)
  <2>1. Path[n] = F[n]
    BY <1>5, <1>6, <1>7, <1>8
  <2> QED
    BY <1>6, <1>7, <2>1
<1>11. \A n \in Att(node) \ {Root} : Path[n] = Path[node[n].parent] \o node[n].text
  BY <1>5, <1>7
<1> QED
  BY <1>9, <1>10, <1>11 DEF Spells

----------------------------------------------------------------------------
(* Who holds what, when nothing is stale. *)

\* Whoever holds a node holds its parent, only workers do below the root, and only the
\* nodes X, which are about to be unlinked, may be held by nobody.
Neat(N, X) ==
  \A n \in Att(N) \ {Root} :
    /\ DOMAIN N[n].access \subseteq Tenant
    /\ DOMAIN N[n].access \subseteq DOMAIN N[N[n].parent].access
    /\ n \in X \/ DOMAIN N[n].access # {}

\* The tenants that nobody below n holds.
LeafAt(N, n) ==
  {t \in DOMAIN N[n].access :
     \A m \in Att(N) \ {Root} : N[m].parent = n => t \notin DOMAIN N[m].access}

\* The nodes of one tenant have their parents among them.
LEMMA HoldClosed ==
  ASSUME NEW N, Shape(N), NEW X, Neat(N, X), NEW t
  PROVE  Closed(N, Hold(N, t))
BY ParentLink DEF Closed, Hold, Neat

\* So have all nodes of the tree.
LEMMA AttClosed ==
  ASSUME NEW N, Shape(N)
  PROVE  Closed(N, Att(N))
BY ParentLink DEF Closed

\* A tree is neat as long as the tenants of its nodes stay,
LEMMA NeatKept ==
  ASSUME NEW N, NEW X, Neat(N, X), NEW M, Att(M) \subseteq Att(N),
         \A n \in Att(M) \ {Root} :
           /\ M[n].parent = N[n].parent
           /\ DOMAIN M[n].access = DOMAIN N[n].access
           /\ DOMAIN M[N[n].parent].access = DOMAIN N[N[n].parent].access
  PROVE  Neat(M, X)
BY DEF Neat

\* when a tenant comes to a node whose parent it holds,
LEMMA NeatGain ==
  ASSUME NEW N, Shape(N), NEW X, Neat(N, X), NEW M \in Seq(NodeRec), SameLinks(N, M),
         NEW n \in DOMAIN N, NEW t, DOMAIN M[n].access = DOMAIN N[n].access \cup {t},
         \A m \in DOMAIN N : m # n => M[m].access = N[m].access,
         n = Root \/ (t \in Tenant /\ t \in DOMAIN N[N[n].parent].access)
  PROVE  Neat(M, X)
<1>1. Att(M) = Att(N) /\ Att(N) \subseteq DOMAIN N
  <2> HIDE DEF NodeRec
  <2> QED
    BY LinksKept, AttType
<1>2. ASSUME NEW m \in Att(M) \ {Root}
      PROVE  /\ DOMAIN M[m].access \subseteq Tenant
             /\ DOMAIN M[m].access \subseteq DOMAIN M[M[m].parent].access
             /\ m \in X \/ DOMAIN M[m].access # {}
  <2> DEFINE p == N[m].parent
  <2>1. m \in DOMAIN N /\ m \in Att(N) /\ m # Root /\ p \in DOMAIN N /\ p # m /\ M[m].parent = p
    BY <1>1, ParentLink DEF SameLinks
  <2>2. /\ DOMAIN N[m].access \subseteq Tenant /\ DOMAIN N[m].access \subseteq DOMAIN N[p].access
        /\ m \in X \/ DOMAIN N[m].access # {}
    BY <2>1 DEF Neat
  <2>3. DOMAIN N[p].access \subseteq DOMAIN M[p].access
    BY <2>1
  <2> HIDE DEF p
  <2>4. CASE m = n
    BY <2>1, <2>2, <2>3, <2>4 DEF p
  <2>5. CASE m # n
    BY <2>1, <2>2, <2>3, <2>5
  <2> QED
    BY <2>4, <2>5
<1> QED
  BY <1>2 DEF Neat

\* with a new leaf,
LEMMA NeatLeaf ==
  ASSUME NEW N, Shape(N), NEW X, Neat(N, X), NEW M, NEW h, h \notin DOMAIN N,
         Att(M) = Att(N) \cup {h}, SameAccess(N, M),
         \A n \in DOMAIN N : M[n].parent = N[n].parent,
         M[h].parent \in DOMAIN N, NEW t \in Tenant, DOMAIN M[h].access = {t},
         t \in DOMAIN N[M[h].parent].access
  PROVE  Neat(M, X)
<1>1. Att(N) \subseteq DOMAIN N
  BY AttType
<1>2. ASSUME NEW m \in Att(M) \ {Root}
      PROVE  /\ DOMAIN M[m].access \subseteq Tenant
             /\ DOMAIN M[m].access \subseteq DOMAIN M[M[m].parent].access
             /\ m \in X \/ DOMAIN M[m].access # {}
  <2>1. CASE m = h
    BY <2>1 DEF SameAccess
  <2>2. CASE m # h
    <3>1. m \in Att(N) \ {Root} /\ m \in DOMAIN N /\ N[m].parent \in DOMAIN N
      BY <1>1, <2>2, ParentLink
    <3>2. M[m].parent = N[m].parent /\ M[m].access = N[m].access
          /\ M[N[m].parent].access = N[N[m].parent].access
      BY <3>1 DEF SameAccess
    <3> QED
      BY <3>1, <3>2 DEF Neat
  <2> QED
    BY <2>1, <2>2
<1> QED
  BY <1>2 DEF Neat

\* when a node is split, because the head gets its tenants,
LEMMA NeatSplit ==
  ASSUME NEW N, Shape(N), Neat(N, {}), NEW M, NEW h, h \notin DOMAIN N,
         Att(M) = Att(N) \cup {h}, SameAccess(N, M), NEW n \in Att(N), n # Root,
         \A m \in DOMAIN N \ {n} : M[m].parent = N[m].parent,
         M[n].parent = h, M[h].parent = N[n].parent, M[h].access = N[n].access
  PROVE  Neat(M, {})
<1>1. Att(N) \subseteq DOMAIN N
  BY AttType
<1>2. ASSUME NEW m \in Att(M) \ {Root}
      PROVE  /\ DOMAIN M[m].access \subseteq Tenant
             /\ DOMAIN M[m].access \subseteq DOMAIN M[M[m].parent].access
             /\ DOMAIN M[m].access # {}
  <2>0. n \in DOMAIN N /\ N[n].parent \in DOMAIN N /\ M[n].access = N[n].access
        /\ M[N[n].parent].access = N[N[n].parent].access
    BY <1>1, ParentLink DEF SameAccess
  <2>1. CASE m = h
    BY <2>0, <2>1 DEF Neat
  <2>2. CASE m = n
    BY <2>0, <2>2 DEF Neat
  <2>3. CASE m # h /\ m # n
    <3>1. m \in Att(N) \ {Root} /\ m \in DOMAIN N /\ N[m].parent \in DOMAIN N
      BY <1>1, <2>3, ParentLink
    <3>2. M[m].parent = N[m].parent /\ M[m].access = N[m].access
          /\ M[N[m].parent].access = N[N[m].parent].access
      BY <2>3, <3>1 DEF SameAccess
    <3> QED
      BY <3>1, <3>2 DEF Neat
  <2> QED
    BY <2>1, <2>2, <2>3
<1> QED
  BY <1>2 DEF Neat

\* and, but for the node itself, when a tenant is taken off a leaf of it.
LEMMA NeatLoss ==
  ASSUME NEW N, Shape(N), Neat(N, {}), NEW M \in Seq(NodeRec), SameLinks(N, M),
         NEW n \in Att(N), NEW t \in LeafAt(N, n),
         DOMAIN M[n].access = DOMAIN N[n].access \ {t},
         \A m \in DOMAIN N : m # n => M[m].access = N[m].access
  PROVE  Neat(M, {n})
<1>1. Att(M) = Att(N) /\ Att(N) \subseteq DOMAIN N
  <2> HIDE DEF NodeRec
  <2> QED
    BY LinksKept, AttType
<1>2. ASSUME NEW m \in Att(M) \ {Root}
      PROVE  /\ DOMAIN M[m].access \subseteq Tenant
             /\ DOMAIN M[m].access \subseteq DOMAIN M[M[m].parent].access
             /\ m \in {n} \/ DOMAIN M[m].access # {}
  <2> DEFINE p == N[m].parent
  <2>1. m \in DOMAIN N /\ m \in Att(N) /\ m # Root /\ p \in DOMAIN N /\ p # m /\ M[m].parent = p
    BY <1>1, ParentLink DEF SameLinks
  <2>2. /\ DOMAIN N[m].access \subseteq Tenant /\ DOMAIN N[m].access \subseteq DOMAIN N[p].access
        /\ DOMAIN N[m].access # {}
    BY <2>1 DEF Neat
  <2>3. p = n => t \notin DOMAIN N[m].access
    BY <2>1 DEF LeafAt
  <2> HIDE DEF p
  <2>4. CASE m = n
    BY <2>1, <2>2, <2>4
  <2>5. CASE m # n
    BY <2>1, <2>2, <2>3, <2>5
  <2> QED
    BY <2>4, <2>5
<1> QED
  BY <1>2 DEF Neat

\* A map without keys.
LEMMA NoKeys ==
  ASSUME NEW D, NEW R, NEW f \in Maps(D, R), DOMAIN f = {}
  PROVE  f = << >>
<1>1. PICK d \in SUBSET D : f \in [d -> R]
  BY DEF Maps
<1>2. d = {}
  BY <1>1
<1>3. f \in [{} -> R] /\ << >> \in [{} -> R]
  BY <1>1, <1>2
<1> QED
  BY <1>3

\* What eviction and remove_tenant do to a node of the tree once they have taken a tenant
\* off it.
LEMMA AttUnlinks ==
  ASSUME Shape(node), NEW n \in Att(node)
  PROVE  Pruned(node, Unlinked(n))
<1>1. n \in DOMAIN node
  BY AttType
<1>2. n # Root /\ node[n].text[1] \in DOMAIN node[node[n].parent].children =>
        node[node[n].parent].children[node[n].text[1]] = n
  BY ParentLink
<1> QED
  BY <1>1, <1>2, UnlinkedPrunes

\* A node that nobody holds has no children, and so it can be unlinked.
LEMMA NeatUnlinked ==
  ASSUME Shape(node), NEW n \in Att(node), Neat(node, {n})
  PROVE  Neat(Unlinked(n), {})
<1> DEFINE M == Unlinked(n)
<1>1. Pruned(node, M) /\ Att(node) \subseteq DOMAIN node
  BY AttUnlinks, AttType
<1>2. n = Root \/ DOMAIN node[n].access # {} \/ n \notin Att(M)
  <2> SUFFICES ASSUME n # Root, DOMAIN node[n].access = {} PROVE n \notin Att(M)
    OBVIOUS
  <2>1. n \in DOMAIN node /\ node \in Seq(NodeRec)
    BY <1>1, ShapeNode
  <2>2. node[n].children \in Maps(Char, Nat) /\ node[n].access \in Maps(Holder, Stamp)
    BY <2>1, NodeType DEF Kids, Accesses
  <2>3. DOMAIN node[n].children = {}
    <3> SUFFICES ASSUME NEW c \in DOMAIN node[n].children PROVE FALSE
      OBVIOUS
    <3> DEFINE m == node[n].children[c]
    <3>1. m \in Att(node) /\ m # Root /\ m # n /\ node[m].parent = n
      BY <2>1, ShapeLink, AttIs
    <3> QED
      BY <3>1 DEF Neat
  <2>4. node[n].children = << >> /\ node[n].access = << >>
    BY <2>2, <2>3, NoKeys
  <2>5. Unlinked(n) = CutOff(node, n)
    BY <2>4 DEF Unlinked, CutOff, SetKids
  <2> HIDE DEF NodeRec
  <2>6. CutOff(node, n) \in Seq(NodeRec) /\ Cut(node, CutOff(node, n), n)
    BY <2>1, ShapeNode, CutOffCuts
  <2>7. Att(CutOff(node, n)) = Att(node) \ {n}
    BY <2>3, <2>6, LinksCut
  <2> QED
    BY <2>5, <2>7
<1> HIDE DEF M
<1>3. ASSUME NEW m \in Att(M) \ {Root}
      PROVE  /\ DOMAIN M[m].access \subseteq Tenant
             /\ DOMAIN M[m].access \subseteq DOMAIN M[M[m].parent].access
             /\ DOMAIN M[m].access # {}
  <2>1. m \in Att(node) \ {Root} /\ m \in DOMAIN node /\ node[m].parent \in DOMAIN node
    BY <1>1, ParentLink DEF Pruned
  <2>2. /\ M[m].parent = node[m].parent /\ M[m].access = node[m].access
        /\ M[node[m].parent].access = node[node[m].parent].access
    BY <1>1, <2>1 DEF Pruned, SameAccess
  <2>3. /\ DOMAIN node[m].access \subseteq Tenant
        /\ DOMAIN node[m].access \subseteq DOMAIN node[node[m].parent].access
        /\ m = n \/ DOMAIN node[m].access # {}
    BY <2>1 DEF Neat
  <2> QED
    BY <1>2, <2>1, <2>2, <2>3
<1>4. Neat(M, {})
  BY <1>3 DEF Neat
<1> QED
  BY <1>4 DEF M

----------------------------------------------------------------------------
(* One worker thread: operations and passes take place one at a time. *)

Alone ==
  /\ \A j, k \in Task : task[j].pc # "idle" /\ task[k].pc # "idle" => j = k
  /\ Evicting => \A k \in Task : task[k].pc = "idle"

\* A tenant that a match has picked is still where it was, and "empty" is picked only
\* at a root where nobody is.
Fresh ==
  \A k \in Task :
    task[k].pc \in {"touch", "stamp"} =>
      LET held == DOMAIN node[task[k].at].access
      IN  \/ task[k].tenant \in held
          \/ task[k].at = Root /\ held = {} /\ task[k].tenant = Empty

\* Tenant t is being removed.
Leaving(t) == \E k \in Task : task[k].pc \in {"remove", "unlink"} /\ task[k].tenant = t

Exact == \A t \in Tenant : count[t] = Used(node, t) \/ Leaving(t)

\* The pass is about to find out whether n has become a leaf of t.
Awaits(N, ev, n, t) ==
  ev.pc = "prune" /\ ev.tenant = t /\ ev.at # Root /\ N[ev.at].parent = n

\* Every entry of a heap is there a number of times.
Counted(B) == \A e \in DOMAIN B : B[e] \in Nat \ {0}

\* During a pass, every leaf of a tenant that is over the limit is in the heap.
Scanned(N, ev, ct) ==
  ev.pc \in {"pop", "prune"} =>
    /\ Counted(ev.heap) /\ (ev.pc = "prune" => ev.at \in Att(N))
    /\ \A n \in Att(N), t \in Tenant :
         t \in LeafAt(N, n) /\ ct[t] > ev.limit =>
           Awaits(N, ev, n, t) \/ \E e \in DOMAIN ev.heap : e.node = n /\ e.tenant = t

\* The nodes that a tenant has just been taken off.
LooseIn(T, ev) == (IF ev.pc = "prune" THEN {ev.at} ELSE {})
                  \cup {T[k].at : k \in {j \in Task : T[j].pc = "unlink"}}
Loose == LooseIn(task, evict)

\* Nobody holds a node that has been unlinked.
Forgotten(N) == \A n \in DOMAIN N \ Att(N) : DOMAIN N[n].access = {}

\* The tree is neat, its paths are defined, and nothing has come back to what has left it.
Tidy(N, X) == Neat(N, X) /\ Spelled(N) /\ Forgotten(N)


\* LeafAt is the model's LeafOf, with the tree as a parameter.
LEMMA LeafAtIs ==
  ASSUME Shape(node), NEW n \in Att(node), NEW t
  PROVE  t \in LeafAt(node, n) <=> t \in LeafOf(n)
<1>1. ASSUME t \in LeafAt(node, n) PROVE t \in LeafOf(n)
  <2>1. ASSUME NEW c \in Children(n) PROVE ~Has(c, t)
    <3>1. PICK x \in DOMAIN node[n].children : c = node[n].children[x]
      BY DEF Children
    <3>2. n \in DOMAIN node
      BY AttType
    <3>3. c \in Att(node) \ {Root} /\ node[c].parent = n
      BY <3>1, <3>2, ShapeLink, AttIs
    <3> QED
      BY <1>1, <3>3 DEF LeafAt, Has
  <2> QED
    BY <1>1, <2>1 DEF LeafAt, LeafOf
<1>2. ASSUME t \in LeafOf(n) PROVE t \in LeafAt(node, n)
  BY <1>2, LeafIs DEF LeafAt
<1> QED
  BY <1>1, <1>2

\* With one thread, a free thread means that nothing is under way.
LEMMA OneThreadFree ==
  ASSUME NThreads = 1, FreeThread
  PROVE  ~Evicting /\ \A k \in Task : task[k].pc = "idle"
<1>1. IsFiniteSet(Busy) /\ Cardinality(Busy) \in Nat
  <2>1. IsFiniteSet(Task) /\ Busy \in SUBSET Task
    BY TreeAssumption DEF Busy
  <2> QED
    BY <2>1, FS_Subset, FS_CardinalityType
<1>2. ~Evicting /\ Cardinality(Busy) = 0
  BY <1>1 DEF FreeThread
<1>3. Busy = {}
  BY <1>1, <1>2, FS_EmptySet
<1> QED
  BY <1>2, <1>3 DEF Busy

\* A step of an operation moves its own task only.
LEMMA OwnTask ==
  ASSUME IndInv, NEW k \in Task, InsertStep(k) \/ MatchStep(k) \/ Touch(k)
  PROVE  /\ task[k].pc # "idle" /\ evict' = evict
         /\ \A j \in Task \ {k} : task'[j] = task[j]
<1>1. task \in [Task -> TaskRec]
  BY TaskDomain
<1>2. CASE InsertStep(k)
  BY <1>1, <1>2 DEF InsertStep, LockTimeout, InsertAtRoot, InsertLeaf, InsertDown, InsertEnd,
                    Reach, Goto, Draw
<1>3. CASE MatchStep(k)
  BY <1>1, <1>3 DEF MatchStep, MatchGet, MatchRead, MatchPick, MatchTouch, Draw
<1>4. CASE Touch(k)
  BY <1>1, <1>4 DEF Touch, Drawn
<1> QED
  BY <1>2, <1>3, <1>4

\* A match is about to refresh only what it has just picked, or picked the step before,
LEMMA OnlyPickTouches ==
  ASSUME IndInv, NEW k \in Task, InsertStep(k) \/ MatchStep(k) \/ Touch(k),
         task'[k].pc \in {"touch", "stamp"}
  PROVE  \/ \E t \in Holder : MatchPick(k, t)
         \/ /\ task[k].pc = "touch" /\ node' = node
            /\ task'[k].at = task[k].at /\ task'[k].tenant = task[k].tenant
<1>1. task \in [Task -> TaskRec]
  BY TaskDomain
<1>2. DOMAIN task[k] = {"pc", "text", "tenant", "at", "child", "off", "queue", "stamp"}
  BY <1>1 DEF TaskRec
<1>3. CASE InsertStep(k)
  <2>1. CASE LockTimeout(k) \/ InsertLeaf(k)
    BY <1>1, <2>1 DEF LockTimeout, InsertLeaf, Idle
  <2>2. CASE InsertAtRoot(k)
    BY <1>1, <1>2, <2>2 DEF InsertAtRoot, Goto
  <2>3. CASE InsertDown(k)
    BY <1>1, <1>2, <2>3 DEF InsertDown, Reach
  <2>4. CASE InsertEnd(k)
    BY <1>1, <1>2, <2>4 DEF InsertEnd, Draw
  <2> QED
    BY <1>3, <2>1, <2>2, <2>3, <2>4 DEF InsertStep
<1>4. CASE MatchStep(k)
  <2>1. CASE MatchGet(k)
    BY <1>1, <1>2, <2>1 DEF MatchGet
  <2>2. CASE MatchRead(k)
    BY <1>1, <1>2, <2>2 DEF MatchRead
  <2>3. CASE MatchTouch(k)
    BY <1>1, <1>2, <2>3 DEF MatchTouch, Draw, Idle
  <2> QED
    BY <1>4, <2>1, <2>2, <2>3 DEF MatchStep, Holder
<1>5. CASE Touch(k)
  BY <1>1, <1>5 DEF Touch, Idle
<1> QED
  BY <1>3, <1>4, <1>5

\* and what it has picked holds the node.
LEMMA PickedIsThere ==
  ASSUME IndInv, NEW k \in Task, NEW t \in Holder, MatchPick(k, t),
         Tidy(node, {}), task[k].at \in Att(node)
  PROVE  LET held == DOMAIN node'[task'[k].at].access
         IN  /\ task'[k].tenant = t
             /\ t \in held \/ (task'[k].at = Root /\ held = {} /\ t = Empty)
<1> DEFINE n == task[k].at
<1>1. task \in [Task -> TaskRec]
  BY TaskDomain
<1>2. DOMAIN task[k] = {"pc", "text", "tenant", "at", "child", "off", "queue", "stamp"}
  BY <1>1 DEF TaskRec
<1>3. task'[k].tenant = t /\ task'[k].at = n
  BY <1>1, <1>2 DEF MatchPick
<1>4. t \in DOMAIN node[n].access \/ (n = Root /\ DOMAIN node[n].access = {} /\ t = Empty)
  BY DEF MatchPick, Pickable, Has, Tidy, Neat
<1>5. node' = SetLast(node, n, t) /\ node \in Seq(NodeRec) /\ n \in DOMAIN node
  BY DEF MatchPick, SetLast, IndInv, Tasks, TaskOK, Shape
<1>6. t \in Holder \cup {NoTenant}
  OBVIOUS
<1> HIDE DEF NodeRec, Holder, n
<1>7. SameAccess(node, node')
  BY <1>5, <1>6, LastSet
<1> QED
  BY <1>3, <1>4, <1>5, <1>7 DEF SameAccess

----------------------------------------------------------------------------
(* A pass finds every leaf. *)

\* A pass takes a tenant off nodes of the tree only.
LEMMA TakenInTree ==
  ASSUME IndInv, Forgotten(node), NEW e, EvictRemove(e)
  PROVE  e.node \in Att(node)
<1>1. e.node \in DOMAIN node
  BY PoppedIs DEF EvictRemove
<1>2. DOMAIN node[e.node].access # {}
  BY DEF EvictRemove, LeafOf
<1> QED
  BY <1>1, <1>2 DEF Forgotten

\* What is left of a heap after a pop,
LEMMA HeapPopped ==
  ASSUME NEW B, Counted(B), NEW e
  PROVE  LET R == B (-) SetToBag({e})
         IN  Counted(R) /\ DOMAIN B \ {e} \subseteq DOMAIN R
BY DEF Counted, (-), SetToBag

\* and what a heap becomes with a push.
LEMMA HeapPushed ==
  ASSUME NEW B, Counted(B), NEW S
  PROVE  Counted(B (+) SetToBag(S))
BY DEF Counted, (+), SetToBag

\* The first scan of a pass collects every leaf.
LEMMA EvictStartScans ==
  ASSUME IndInv, EvictStart
  PROVE  Scanned(node', evict', count')
<1>1. node' = node /\ Shape(node)
  BY DEF EvictStart, treeVars, IndInv
<1>2. evict'.heap = SetToBag(Leaves) /\ evict'.pc = "pop"
  BY DEF EvictStart, IndInv, Pass
<1>3. DOMAIN evict'.heap = Leaves /\ Counted(evict'.heap)
  BY <1>2 DEF SetToBag, Counted
<1>4. ASSUME NEW n \in Att(node'), NEW t \in Tenant, t \in LeafAt(node', n)
      PROVE  \E e \in DOMAIN evict'.heap : e.node = n /\ e.tenant = t
  <2>1. t \in LeafOf(n) /\ n \in Attached
    BY <1>1, <1>4, LeafAtIs, AttachedIs
  <2>2. EvictionEntry(n, t) \in Leaves
    BY <2>1 DEF Leaves
  <2>3. EvictionEntry(n, t).node = n /\ EvictionEntry(n, t).tenant = t
    BY DEF EvictionEntry
  <2> QED
    BY <1>3, <2>2, <2>3
<1> QED
  BY <1>2, <1>3, <1>4 DEF Scanned

\* A tenant that is skipped is within its limit.
LEMMA EvictSkipScans ==
  ASSUME IndInv, Scanned(node, evict, count), NEW e, EvictSkip(e)
  PROVE  Scanned(node', evict', count')
<1>1. node' = node /\ count' = count /\ Popped(e) /\ evict.pc = "pop"
      /\ (Within(e.tenant) \/ e.tenant \notin LeafOf(e.node))
  BY DEF EvictSkip, treeVars, Popped
<1>2. evict'.heap = Rest(e) /\ evict'.limit = evict.limit /\ evict'.pc = "pop"
  BY <1>1 DEF EvictSkip, IndInv, Pass
<1>3. Counted(evict'.heap) /\ DOMAIN evict.heap \ {e} \subseteq DOMAIN evict'.heap /\ Shape(node)
  <2>1. Counted(evict.heap) /\ Shape(node)
    BY <1>1 DEF Scanned, IndInv
  <2> QED
    BY <1>2, <2>1, HeapPopped DEF Rest
<1>4. ASSUME NEW n \in Att(node'), NEW t \in Tenant, t \in LeafAt(node', n),
             count'[t] > evict'.limit
      PROVE  \E f \in DOMAIN evict'.heap : f.node = n /\ f.tenant = t
  <2>1. PICK f \in DOMAIN evict.heap : f.node = n /\ f.tenant = t
    BY <1>1, <1>2, <1>4 DEF Scanned, Awaits
  <2>2. t \in LeafOf(n)
    BY <1>1, <1>3, <1>4, LeafAtIs
  <2>3. ~Within(t)
    <3>1. count[t] \in Nat /\ evict.limit \in Nat
      BY DEF IndInv, Counters, Pass
    <3> QED
      BY <1>1, <1>2, <1>4, <3>1 DEF Within
  <2>4. f # e
    BY <1>1, <2>1, <2>2, <2>3
  <2> QED
    BY <1>3, <2>1, <2>4
<1> QED
  BY <1>2, <1>3, <1>4 DEF Scanned

\* A removal uncovers at most the parent as a leaf,
LEMMA EvictRemoveScans ==
  ASSUME IndInv, Scanned(node, evict, count), Forgotten(node), NEW e, EvictRemove(e)
  PROVE  Scanned(node', evict', count')
<1> DEFINE n == e.node
           t == e.tenant
<1>1. /\ Popped(e) /\ evict.pc = "pop" /\ node' = Detach(node, n, t)
      /\ count' = Uncharge(t, Len(node[n].text))
  BY DEF EvictRemove, Popped, Detach, SetAccess
<1>2. /\ evict'.heap = Rest(e) /\ evict'.limit = evict.limit /\ evict'.pc = "prune"
      /\ evict'.at = n /\ evict'.tenant = t
  BY <1>1 DEF EvictRemove, IndInv, Pass
<1>3. /\ Counted(evict'.heap) /\ DOMAIN evict.heap \ {e} \subseteq DOMAIN evict'.heap
      /\ n \in DOMAIN node /\ n \in Att(node)
  <2>1. Counted(evict.heap)
    BY <1>1 DEF Scanned
  <2>2. Counted(evict'.heap) /\ DOMAIN evict.heap \ {e} \subseteq DOMAIN evict'.heap
    BY <1>2, <2>1, HeapPopped DEF Rest
  <2> QED
    BY <1>1, <2>2, PoppedIs, TakenInTree
<1>4. /\ Shape(node) /\ node \in Seq(NodeRec) /\ count \in [Tenant -> Nat]
      /\ evict.limit \in Nat
  BY DEF IndInv, Shape, Counters, Pass
<1> HIDE DEF NodeRec, n, t
<1>5. /\ node' \in Seq(NodeRec) /\ SameLinks(node, node')
      /\ DOMAIN node'[n].access = DOMAIN node[n].access \ {t}
      /\ \A m \in DOMAIN node : m # n => node'[m].access = node[m].access
  BY <1>1, <1>3, <1>4, DetachNode
<1>6. Att(node') = Att(node) /\ Att(node) \subseteq DOMAIN node
  BY <1>4, <1>5, LinksKept, AttType
<1>7. ASSUME NEW s \in Tenant PROVE count'[s] <= count[s] /\ count[s] \in Nat /\ count'[s] \in Nat
  <2>1. Len(node[n].text) \in Nat
    BY <1>3, <1>4, NodeCells
  <2> DEFINE len == Len(node[n].text)
  <2>2. count'[s] = IF t \in Tenant /\ s = t
                      THEN IF count[s] >= len THEN count[s] - len ELSE 0
                      ELSE count[s]
    BY <1>1, <1>4 DEF Uncharge
  <2> DEFINE c == count[s]
             d == count'[s]
  <2>3. c \in Nat /\ len \in Nat /\ (d = c \/ d = IF c >= len THEN c - len ELSE 0)
    BY <1>4, <2>1, <2>2
  <2> HIDE DEF c, d, len
  <2>4. d <= c /\ c \in Nat /\ d \in Nat
    BY <2>3
  <2> QED
    BY <2>4 DEF c, d
<1>8. ASSUME NEW m \in Att(node'), NEW s \in Tenant, s \in LeafAt(node', m),
             count'[s] > evict'.limit
      PROVE  \/ Awaits(node', evict', m, s)
             \/ \E f \in DOMAIN evict'.heap : f.node = m /\ f.tenant = s
  <2>1. count[s] > evict.limit
    BY <1>2, <1>4, <1>7, <1>8
  <2>2. m \in Att(node) /\ m \in DOMAIN node /\ ~(m = n /\ s = t)
    BY <1>5, <1>6, <1>8 DEF LeafAt
  <2>3. s \in DOMAIN node[m].access
    BY <1>5, <1>8, <2>2 DEF LeafAt
  <2>4. CASE s \in LeafAt(node, m)
    <3>1. PICK f \in DOMAIN evict.heap : f.node = m /\ f.tenant = s
      BY <1>1, <2>1, <2>2, <2>4 DEF Scanned, Awaits
    <3>2. f # e
      BY <2>2, <3>1 DEF n, t
    <3> QED
      BY <1>3, <3>1, <3>2
  <2>5. CASE s \notin LeafAt(node, m)
    <3>1. PICK c \in Att(node) \ {Root} : node[c].parent = m /\ s \in DOMAIN node[c].access
      BY <2>3, <2>5 DEF LeafAt
    <3>2. c \in DOMAIN node /\ node'[c].parent = m
      BY <1>5, <1>6, <3>1 DEF SameLinks
    <3>3. s \notin DOMAIN node'[c].access
      BY <1>6, <1>8, <3>1, <3>2 DEF LeafAt
    <3>4. c = n /\ s = t
      BY <1>5, <3>1, <3>2, <3>3
    <3> QED
      BY <1>2, <3>1, <3>2, <3>4 DEF Awaits
  <2> QED
    BY <2>4, <2>5
<1> QED
  BY <1>2, <1>3, <1>6, <1>8 DEF Scanned

\* which the next step pushes.
LEMMA EvictPruneScans ==
  ASSUME IndInv, Scanned(node, evict, count), EvictPrune
  PROVE  Scanned(node', evict', count')
<1> DEFINE n == evict.at
           P == Pushed(n, evict.tenant)
<1>1. evict.pc = "prune" /\ node' = Unlinked(n) /\ count' = count
  BY DEF EvictPrune
<1>2. /\ evict'.heap = evict.heap (+) SetToBag(P) /\ evict'.limit = evict.limit
      /\ evict'.pc = "pop"
  BY DEF EvictPrune, IndInv, Pass
<1>3. DOMAIN evict'.heap = DOMAIN evict.heap \cup P /\ Counted(evict'.heap)
  <2>1. Counted(evict.heap)
    BY <1>1 DEF Scanned
  <2> HIDE DEF P
  <2> QED
    BY <1>2, <2>1, BagPlus, HeapPushed
<1>4. Shape(node) /\ n \in Att(node)
  BY <1>1 DEF IndInv, Scanned
<1>5. Pruned(node, node') /\ Att(node) \subseteq DOMAIN node
  BY <1>1, <1>4, AttUnlinks, AttType
<1>6. ASSUME NEW m \in Att(node'), NEW t \in Tenant, t \in LeafAt(node', m),
             count'[t] > evict'.limit
      PROVE  \E f \in DOMAIN evict'.heap : f.node = m /\ f.tenant = t
  <2>1. m \in Att(node) /\ m \in DOMAIN node /\ t \in DOMAIN node[m].access
    BY <1>5, <1>6 DEF Pruned, SameAccess, LeafAt
  <2>2. ASSUME NEW c \in Att(node) \ {Root}, node[c].parent = m
        PROVE  t \notin DOMAIN node[c].access
    <3> SUFFICES ASSUME t \in DOMAIN node[c].access PROVE FALSE
      OBVIOUS
    <3>1. c \in DOMAIN node /\ c \in Att(node') /\ node'[c].parent = m
          /\ node'[c].access = node[c].access
      BY <1>5, <2>2 DEF Pruned, SameAccess
    <3> QED
      BY <1>6, <3>1 DEF LeafAt
  <2>3. t \in LeafAt(node, m)
    BY <2>1, <2>2 DEF LeafAt
  <2>4. CASE Awaits(node, evict, m, t)
    <3>1. m = node[n].parent /\ n # Root /\ t = evict.tenant
      BY <2>4 DEF Awaits
    <3>2. t \in LeafOf(m)
      BY <1>4, <2>1, <2>3, LeafAtIs
    <3>3. m \in NewLeaf(n, t)
      BY <3>1, <3>2 DEF NewLeaf, LeafOf, Has
    <3>4. EvictionEntry(m, t) \in P
      BY <3>1, <3>3 DEF Pushed
    <3>5. EvictionEntry(m, t).node = m /\ EvictionEntry(m, t).tenant = t
      BY DEF EvictionEntry
    <3> QED
      BY <1>3, <3>4, <3>5
  <2>5. CASE ~Awaits(node, evict, m, t)
    <3>1. \E f \in DOMAIN evict.heap : f.node = m /\ f.tenant = t
      BY <1>1, <1>2, <1>6, <2>1, <2>3, <2>5 DEF Scanned
    <3> QED
      BY <1>3, <3>1
  <2> QED
    BY <2>4, <2>5
<1> QED
  BY <1>2, <1>3, <1>6 DEF Scanned

----------------------------------------------------------------------------
(* The steps of the router keep the tree tidy. *)

\* While the router alone is at work, only a pass leaves a node loose.
LEMMA LooseIs ==
  ASSUME NEW T \in [Task -> TaskRec], NEW ev
  PROVE  LooseIn(T, ev) = IF ev.pc = "prune" THEN {ev.at} ELSE {}
<1>1. ASSUME NEW k \in Task PROVE T[k].pc # "unlink"
  <2>1. T[k] \in TaskRec
    <3> HIDE DEF TaskRec
    <3> QED
      OBVIOUS
  <2> QED
    BY <2>1 DEF TaskRec
<1>2. {T[k].at : k \in {j \in Task : T[j].pc = "unlink"}} = {}
  BY <1>1
<1> QED
  BY <1>2 DEF LooseIn

\* Steps that change timestamps and last tenants only.
LEMMA TidyKept ==
  ASSUME NEW N, Shape(N), NEW X, Tidy(N, X), NEW M \in Seq(NodeRec), SameLinks(N, M),
         \A m \in DOMAIN N : DOMAIN M[m].access = DOMAIN N[m].access
  PROVE  Tidy(M, X)
<1> HIDE DEF NodeRec
<1>1. Att(M) = Att(N) /\ Att(N) \subseteq DOMAIN N /\ DOMAIN M = DOMAIN N
  BY LinksKept, AttType
<1>2. ASSUME NEW n \in Att(M) \ {Root}
      PROVE  /\ M[n].parent = N[n].parent
             /\ DOMAIN M[n].access = DOMAIN N[n].access
             /\ DOMAIN M[N[n].parent].access = DOMAIN N[N[n].parent].access
  <2>1. n \in DOMAIN N /\ N[n].parent \in DOMAIN N
    BY <1>1, ParentLink
  <2> QED
    BY <2>1 DEF SameLinks
<1>3. Neat(M, X)
  BY <1>1, <1>2, NeatKept DEF Tidy
<1>4. Spelled(M)
  BY <1>1, SpelledKept DEF Tidy, SameLinks
<1>5. Forgotten(M)
  BY <1>1 DEF Tidy, Forgotten
<1> QED
  BY <1>3, <1>4, <1>5 DEF Tidy

\* A tenant comes to a node whose parent it holds, or has its timestamp refreshed.
LEMMA TidyAttach ==
  ASSUME NEW N, Shape(N), NEW X, Tidy(N, X), NEW n \in DOMAIN N, NEW t \in Holder,
         NEW v \in Stamp,
         \/ t \in DOMAIN N[n].access \/ n = Root
         \/ (n \in Att(N) /\ t \in Tenant /\ t \in DOMAIN N[N[n].parent].access)
  PROVE  Tidy(Attach(N, n, t, v), X)
<1> DEFINE M == Attach(N, n, t, v)
<1>1. N \in Seq(NodeRec)
  BY ShapeNode
<1> HIDE DEF NodeRec, Holder, Stamp
<1>2. /\ M \in Seq(NodeRec) /\ SameLinks(N, M)
      /\ DOMAIN M[n].access = DOMAIN N[n].access \cup {t}
      /\ \A m \in DOMAIN N : m # n => M[m].access = N[m].access
  BY <1>1, AttachNode
<1> HIDE DEF M
<1>3. CASE t \in DOMAIN N[n].access
  <2>1. \A m \in DOMAIN N : DOMAIN M[m].access = DOMAIN N[m].access
    BY <1>2, <1>3
  <2>2. Tidy(M, X)
    BY <1>2, <2>1, TidyKept
  <2> QED
    BY <2>2 DEF M
<1>4. CASE n = Root \/ (n \in Att(N) /\ t \in Tenant /\ t \in DOMAIN N[N[n].parent].access)
  <2>1. Neat(M, X)
    BY <1>2, <1>4, NeatGain DEF Tidy
  <2>2. DOMAIN M = DOMAIN N /\ Att(M) = Att(N) /\ n \in Att(N)
    BY <1>2, <1>4, LinksKept, AttIs
  <2>3. Spelled(M)
    BY <1>2, <2>2, SpelledKept DEF Tidy, SameLinks
  <2>4. Forgotten(M)
    BY <1>2, <2>2 DEF Tidy, Forgotten
  <2> QED
    BY <2>1, <2>3, <2>4 DEF M, Tidy
<1> QED
  BY <1>3, <1>4

\* insert starts at the root,
LEMMA InsertAtRootTidy ==
  ASSUME IndInv, NEW X, Tidy(node, X), NEW k \in Task, InsertAtRoot(k)
  PROVE  Tidy(node', X)
<1> DEFINE t == task[k].tenant
<1>1. Shape(node) /\ Root \in DOMAIN node /\ t \in Tenant /\ t \in Holder
  BY DEF IndInv, Tasks, TaskOK, InsertAtRoot, Shape, Holder
<1>2. node' = node \/ node' = Attach(node, Root, t, 0)
  BY DEF InsertAtRoot, Attach, SetAccess
<1>3. 0 \in Stamp
  BY TreeAssumption DEF Stamp
<1> HIDE DEF t, Holder
<1> QED
  BY <1>1, <1>2, <1>3, TidyAttach

\* adds the rest of its text as a leaf,
LEMMA InsertLeafTidy ==
  ASSUME IndInv, NEW X, Tidy(node, X), NEW k \in Task, InsertLeaf(k)
  PROVE  Tidy(node', X)
<1> DEFINE p == task[k].at
           t == task[k].tenant
           rest == Remaining(k)
           a == [s \in {t} |-> epoch]
           leaf == NewNode(rest, p, a, t)
           h == Len(node) + 1
<1>1. /\ task[k].pc = "insert" /\ rest # << >> /\ rest[1] \notin DOMAIN node[p].children
      /\ node' = AddLeaf(node, p, rest[1], leaf)
  BY DEF InsertLeaf, Vacant, AddLeaf, SetKids
<1>2. /\ Shape(node) /\ node \in Seq(NodeRec)
      /\ t \in Tenant /\ t \in Holder /\ p \in DOMAIN node /\ p \in Att(node)
      /\ epoch \in Stamp /\ t \in DOMAIN node[p].access
  BY <1>1, InsertNow DEF Holder, Stamp
<1>3. rest \in Seq(Char) /\ rest[1] \in Char
  BY <1>1, InsertRest
<1>4. p \in Nat
  BY <1>2, NodeIndex
<1>5. a \in Accesses /\ DOMAIN a = {t}
  BY <1>2, OneMap DEF Accesses
<1> HIDE DEF NodeRec, rest, p, t, a
<1>6. /\ leaf \in NodeRec /\ leaf.children = << >> /\ leaf.parent = p
      /\ leaf.text = rest /\ leaf.access = a
  BY <1>2, <1>3, <1>4, <1>5, NewNodeType
<1> HIDE DEF leaf
<1>7. /\ node' \in Seq(NodeRec) /\ LeafAdded(node, node', p, rest[1])
      /\ SameAccess(node, node') /\ node'[h] = leaf
  BY <1>1, <1>2, <1>3, <1>6, LeafAdd
<1>8. Att(node') = Att(node) \cup {h} /\ DOMAIN node' = DOMAIN node \cup {h}
  BY <1>1, <1>2, <1>3, <1>7, LinksLeaf
<1>9. h \notin DOMAIN node
  <2>1. Len(node') = Len(node) + 1
    BY <1>7 DEF LeafAdded
  <2> QED
    BY <1>2, <1>7, <2>1, OneMore
<1>10. /\ \A n \in DOMAIN node : node'[n].text = node[n].text /\ node'[n].parent = node[n].parent
       /\ node'[h].parent = p /\ node'[h].text = rest /\ DOMAIN node'[h].access = {t}
  BY <1>5, <1>6, <1>7 DEF LeafAdded
<1> HIDE DEF h
<1>11. Neat(node', X)
  BY <1>2, <1>7, <1>8, <1>9, <1>10, NeatLeaf DEF Tidy
<1>12. Spelled(node')
  BY <1>2, <1>3, <1>8, <1>9, <1>10, SpelledLeaf DEF Tidy
<1>13. Forgotten(node')
  BY <1>7, <1>8 DEF Tidy, Forgotten, SameAccess
<1> QED
  BY <1>11, <1>12, <1>13 DEF Tidy

\* reaches a node and attaches its tenant there,
LEMMA ReachTidy ==
  ASSUME NEW k \in Task, NEW M, Shape(M), NEW X, Tidy(M, X), NEW m \in Att(M), m # Root,
         task[k].tenant \in Tenant, task[k].tenant \in DOMAIN M[M[m].parent].access,
         Reach(k, M, m)
  PROVE  Tidy(node', X)
<1> DEFINE t == task[k].tenant
<1>1. node' = M \/ node' = Attach(M, m, t, 0)
  BY DEF Reach, Attach, SetAccess
<1>2. 0 \in Stamp /\ t \in Holder /\ m \in DOMAIN M
  BY TreeAssumption, AttType DEF Stamp, Holder
<1> HIDE DEF t, Holder, Stamp
<1> QED
  BY <1>1, <1>2, TidyAttach DEF t

\* after it has split the node, if its text matches in part.
LEMMA InsertDownTidy ==
  ASSUME IndInv, Tidy(node, {}), NEW k \in Task, InsertDown(k)
  PROVE  Tidy(node', {})
<1> DEFINE n == ChildOf(k)
           p == task[k].at
           t == task[k].tenant
           c == Remaining(k)[1]
           shared == SharedCount(Remaining(k), node[n].text)
           h == Len(node) + 1
<1>1. task[k].pc = "insert" /\ Remaining(k) # << >> /\ ~Vacant(k)
  BY DEF InsertDown
<1>2. /\ Shape(node) /\ node \in Seq(NodeRec) /\ p \in DOMAIN node
      /\ t \in Tenant /\ t \in DOMAIN node[p].access
  BY <1>1, InsertNow
<1>3. Remaining(k) \in Seq(Char)
  BY <1>1, InsertRest
<1>4. /\ c \in DOMAIN node[p].children /\ n = node[p].children[c]
      /\ n \in DOMAIN node /\ n \in Att(node) /\ n # Root /\ node[n].parent = p
      /\ shared \in Nat /\ 1 <= shared
  BY <1>1, <1>2, <1>3, ChildFound
<1>5. \/ shared < Len(node[n].text) /\ Reach(k, Split(n, p, shared), h)
      \/ Reach(k, node, n)
  BY DEF InsertDown
<1> HIDE DEF n, p, c, shared, NodeRec
<1>6. CASE shared < Len(node[n].text) /\ Reach(k, Split(n, p, shared), h)
  <2> DEFINE M == Split(n, p, shared)
  <2>1. /\ M \in Seq(NodeRec) /\ SplitAt(node, M, n, p, shared) /\ SameAccess(node, M)
        /\ M[h].access = node[n].access
    BY <1>2, <1>4, <1>6, SplitSplits DEF Nodes
  <2>2. Reach(k, M, h)
    BY <1>6
  <2> HIDE DEF M
  <2>3. Shape(M) /\ Att(M) = Att(node) \cup {h} /\ DOMAIN M = DOMAIN node \cup {h}
    BY <1>2, <1>4, <1>6, <2>1, LinksSplit
  <2>4. /\ Len(M) = h /\ M[n].parent = h /\ M[h].parent = p
        /\ \A m \in DOMAIN node \ {n} : M[m].parent = node[m].parent
    BY <2>1 DEF SplitAt
  <2>5. h \notin DOMAIN node /\ h # Root
    <3>1. h \notin DOMAIN node
      BY <1>2, <2>1, <2>4, OneMore
    <3>2. Root \in DOMAIN node
      BY <1>2 DEF Shape
    <3> QED
      BY <3>1, <3>2
  <2>6. Spelled(M)
    <3>1. SplitAt(node, M, n, node[n].parent, shared) /\ shared < Len(node[n].text)
      BY <1>4, <1>6, <2>1
    <3> QED
      BY <1>2, <1>4, <2>3, <2>5, <3>1, SpelledSplit DEF Tidy
  <2> HIDE DEF h
  <2>7. Neat(M, {})
    <3>1. M[h].parent = node[n].parent
      BY <1>4, <2>4
    <3> QED
      BY <1>2, <1>4, <2>1, <2>3, <2>4, <2>5, <3>1, NeatSplit DEF Tidy
  <2>8. h \in Att(M) /\ t \in DOMAIN M[M[h].parent].access
    BY <1>2, <2>1, <2>3, <2>4 DEF SameAccess
  <2>9. Forgotten(M)
    BY <2>1, <2>3 DEF Tidy, Forgotten, SameAccess
  <2> QED
    BY <1>2, <2>2, <2>3, <2>5, <2>6, <2>7, <2>8, <2>9, ReachTidy DEF Tidy
<1>7. CASE Reach(k, node, n)
  BY <1>2, <1>4, <1>7, ReachTidy
<1> QED
  BY <1>5, <1>6, <1>7


\* A match changes the last tenant of a node.
LEMMA MatchPickTidy ==
  ASSUME IndInv, NEW X, Tidy(node, X), NEW k \in Task, NEW t \in Holder, MatchPick(k, t)
  PROVE  Tidy(node', X) /\ SameLinks(node, node') /\ node' \in Seq(NodeRec)
<1> DEFINE n == task[k].at
<1>1. /\ node' = SetLast(node, n, t) /\ node \in Seq(NodeRec) /\ n \in DOMAIN node
      /\ Shape(node)
  BY DEF MatchPick, SetLast, IndInv, Tasks, TaskOK, Shape
<1>2. t \in Holder \cup {NoTenant}
  OBVIOUS
<1> HIDE DEF NodeRec, Holder, n
<1>3. SameAccess(node, node') /\ node' \in Seq(NodeRec) /\ SameLinks(node, node')
  BY <1>1, <1>2, LastSet
<1> QED
  BY <1>1, <1>3, TidyKept DEF SameAccess

\* A timestamp is refreshed.
LEMMA TouchTidy ==
  ASSUME IndInv, Tidy(node, {}), Fresh, NEW k \in Task, Touch(k)
  PROVE  Tidy(node', {})
<1> DEFINE n == task[k].at
           t == task[k].tenant
           v == task[k].stamp
<1>1. task[k].pc \in {"stamp", "refresh"} /\ node' = Attach(node, n, t, v)
  BY DEF Touch, Drawn, Attach, SetAccess
<1>2. TaskOK(node, task[k]) /\ Shape(node)
  BY DEF IndInv, Tasks
<1>3. v \in Stamp
  <2>1. task[k] \in TaskRec
    BY <1>2 DEF TaskOK
  <2> QED
    BY <2>1 DEF TaskRec
<1>4. /\ n \in DOMAIN node /\ t \in Holder
      /\ task[k].pc = "refresh" => t \in DOMAIN node[n].access
  <2> HIDE DEF TaskRec
  <2> QED
    BY <1>1, <1>2 DEF TaskOK, Holder
<1>5. t \in DOMAIN node[n].access \/ n = Root
  BY <1>1, <1>4 DEF Fresh
<1> HIDE DEF n, t, v, Holder, Stamp
<1> QED
  BY <1>1, <1>2, <1>3, <1>4, <1>5, TidyAttach


\* A pass takes tenants off leaves,
LEMMA EvictRemoveTidy ==
  ASSUME IndInv, Tidy(node, {}), NEW e, EvictRemove(e)
  PROVE  Tidy(node', {e.node})
<1> DEFINE n == e.node
           t == e.tenant
<1>1. Popped(e) /\ node' = Detach(node, n, t) /\ t \in LeafOf(n)
  BY DEF EvictRemove, Detach, SetAccess
<1>2. n \in DOMAIN node /\ n \in Att(node) /\ Shape(node) /\ node \in Seq(NodeRec)
  BY <1>1, PoppedIs, TakenInTree DEF IndInv, Shape, Tidy
<1>3. t \in LeafAt(node, n)
  BY <1>1, <1>2, LeafAtIs
<1> HIDE DEF NodeRec, n, t
<1>4. /\ node' \in Seq(NodeRec) /\ SameLinks(node, node')
      /\ DOMAIN node'[n].access = DOMAIN node[n].access \ {t}
      /\ \A m \in DOMAIN node : m # n => node'[m].access = node[m].access
  BY <1>1, <1>2, DetachNode
<1>5. Neat(node', {n})
  BY <1>2, <1>3, <1>4, NeatLoss DEF Tidy
<1>6. DOMAIN node' = DOMAIN node /\ Att(node') = Att(node)
  BY <1>2, <1>4, LinksKept
<1>7. Spelled(node')
  BY <1>4, <1>6, SpelledKept DEF Tidy, SameLinks
<1>8. Forgotten(node')
  BY <1>2, <1>4, <1>6 DEF Tidy, Forgotten
<1> QED
  BY <1>5, <1>7, <1>8 DEF Tidy, n

\* and unlinks what nobody holds.
LEMMA UnlinkTidy ==
  ASSUME Shape(node), NEW n \in Att(node), Tidy(node, {n})
  PROVE  Tidy(Unlinked(n), {})
<1>1. Neat(Unlinked(n), {})
  BY NeatUnlinked DEF Tidy
<1>2. Pruned(node, Unlinked(n))
  BY AttUnlinks
<1>3. Spelled(Unlinked(n))
  BY <1>2, SpelledKept DEF Tidy, Pruned
<1>4. Forgotten(Unlinked(n))
  BY <1>2 DEF Tidy, Forgotten, Pruned, SameAccess
<1> QED
  BY <1>1, <1>3, <1>4 DEF Tidy

----------------------------------------------------------------------------
(* How far a match has come. *)

Searching == {"walk", "read", "pick", "touch"}
TenantSearching == {"tenant_walk", "tenant_read", "tenant_touch"}

\* The walk r among the nodes S of the tree N, whose paths are F: the first off characters
\* of the text are on the path of the node it is at; while it goes on, what shares more
\* with the text is below that node, and once it has ended nothing does.
Way(N, F, S, r) ==
  /\ r.at \in S \cup {Root} /\ Along(F[r.at], r.text, r.off)
  /\ r.pc \in {"walk", "read", "tenant_walk", "tenant_read"} =>
       Len(F[r.at]) = r.off /\ Narrow(N, F, S, r.text, r.at, r.off)
  /\ r.pc \in {"read", "tenant_read"} =>
       /\ r.child \in S \ {Root} /\ N[r.child].parent = r.at
       /\ r.off < Len(r.text) /\ N[r.child].text[1] = r.text[r.off + 1]
  /\ r.pc \in {"pick", "touch", "tenant_touch"} => \A n \in S : ~Beyond(F[n], r.text, r.off)

WayOK(N, r) ==
  \A F : Spells(N, F) =>
    /\ r.pc \in Searching => Way(N, F, Att(N), r)
    /\ r.pc \in TenantSearching => Way(N, F, Hold(N, r.tenant), r)

Ways == \A k \in Task : WayOK(node, task[k])

\* A walk starts at the root.
LEMMA WayStart ==
  ASSUME NEW N, Shape(N), NEW F, Spells(N, F), NEW S, Closed(N, S), NEW r,
         r.text \in Seq(Char), r.at = Root, r.off = 0, r.pc \in {"walk", "tenant_walk"}
  PROVE  Way(N, F, S, r)
<1> DEFINE x == r.text
<1>1. F[Root] = << >>
  BY DEF Spells
<1>2. Along(F[Root], x, 0) /\ Len(F[Root]) = 0
  BY <1>1 DEF Along
<1>3. ASSUME NEW n \in S \ {Root}, Beyond(F[n], x, 0), N[n].parent # Root
      PROVE  Beyond(F[N[n].parent], x, 0)
  <2> DEFINE q == N[n].parent
             g == N[q].parent
  <2>1. n \in Att(N) /\ q \in Att(N) /\ Joined(F[n], F[q], N[n].text)
    BY PathStep DEF Closed
  <2>2. Joined(F[q], F[g], N[q].text)
    BY <1>3, <2>1, PathStep
  <2>3. Len(F[q]) > 0
    BY <2>2, JoinedNext
  <2> QED
    BY <1>3, <2>1, <2>3, BeginsFacts
<1>4. Narrow(N, F, S, x, Root, 0)
  BY <1>3 DEF Narrow
<1> QED
  BY <1>2, <1>4 DEF Way

\* A walk without a node to go to ends.
LEMMA WayEnds ==
  ASSUME NEW N, Shape(N), Climbs(N), NEW F, Spells(N, F), NEW S, Closed(N, S),
         NEW r, Way(N, F, S, r), r.pc \in {"walk", "tenant_walk"},
         r.text \in Seq(Char), r.off \in Nat,
         r.off < Len(r.text) =>
           \A n \in S \ {Root} : N[n].parent = r.at => N[n].text[1] # r.text[r.off + 1],
         NEW q, q.text = r.text, q.at = r.at, q.off = r.off, q.pc \in {"pick", "tenant_touch"}
  PROVE  Way(N, F, S, q)
<1>1. /\ r.at \in S \cup {Root} /\ Along(F[r.at], r.text, r.off)
      /\ Len(F[r.at]) = r.off /\ Narrow(N, F, S, r.text, r.at, r.off)
  BY DEF Way
<1>2. r.at \in Att(N)
  BY <1>1, AttIs DEF Closed
<1>3. \A n \in S : ~Beyond(F[n], r.text, r.off)
  BY <1>1, <1>2, WalkEnd
<1> QED
  BY <1>1, <1>3 DEF Way

\* A walk with one goes on.
LEMMA WayChild ==
  ASSUME NEW N, NEW F, NEW S, NEW r, Way(N, F, S, r), r.pc \in {"walk", "tenant_walk"},
         NEW q, q.text = r.text, q.at = r.at, q.off = r.off, q.pc \in {"read", "tenant_read"},
         q.child \in S \ {Root}, N[q.child].parent = r.at, r.off < Len(r.text),
         N[q.child].text[1] = r.text[r.off + 1]
  PROVE  Way(N, F, S, q)
BY DEF Way

\* It ends inside a node that matches in part, and goes on from one that matches.
LEMMA WayReads ==
  ASSUME NEW N, Shape(N), Climbs(N), NEW F, Spells(N, F), NEW S, Closed(N, S),
         NEW r, Way(N, F, S, r), r.pc \in {"read", "tenant_read"},
         r.text \in Seq(Char), r.off \in Nat,
         NEW j, j = SharedCount(Advance(r.text, r.off), N[r.child].text),
         NEW q, q.text = r.text, q.at = r.child, q.off = r.off + j,
         \/ j = Len(N[r.child].text) /\ q.pc \in {"walk", "tenant_walk"}
         \/ j # Len(N[r.child].text) /\ q.pc \in {"pick", "tenant_touch"}
  PROVE  Way(N, F, S, q)
<1> DEFINE x == r.text
           o == r.off
           a == r.at
           n == r.child
           e == o + j
<1>1. /\ a \in S \cup {Root} /\ Along(F[a], x, o) /\ Len(F[a]) = o
      /\ Narrow(N, F, S, x, a, o)
      /\ n \in S \ {Root} /\ N[n].parent = a /\ o < Len(x) /\ N[n].text[1] = x[o + 1]
  BY DEF Way
<1>2. a \in Att(N) /\ n \in Att(N) /\ n # Root
  BY <1>1, AttIs DEF Closed
<1>3. Down(N, F, S, x, a, o, n)
  BY <1>1, <1>2 DEF Down
<1>4. Joined(F[n], F[a], N[n].text)
  BY <1>1, <1>2, PathStep
<1>5. /\ j \in Nat /\ Along(F[n], x, e)
      /\ j = Len(N[n].text) => Len(F[n]) = e
      /\ j # Len(N[n].text) => e = Len(x) \/ (Len(F[n]) > e /\ F[n][e + 1] # x[e + 1])
  <2>1. /\ Along(F[a], x, Len(F[a])) /\ j = SharedCount(Advance(x, Len(F[a])), N[n].text)
        /\ x \in Seq(Char) /\ e = Len(F[a]) + j
    BY <1>1
  <2> HIDE DEF x, a, n, o, e
  <2>2. LET b == Len(F[a])
        IN  /\ j \in Nat /\ Along(F[n], x, b + j)
            /\ j = Len(N[n].text) => Len(F[n]) = b + j
            /\ j # Len(N[n].text) =>
                 b + j = Len(x) \/ (Len(F[n]) > b + j /\ F[n][b + j + 1] # x[b + j + 1])
    <3> DEFINE u == F[n]
               s == F[a]
               t == N[n].text
    <3>1. /\ Joined(u, s, t) /\ x \in Seq(Char) /\ Along(s, x, Len(s))
          /\ j = SharedCount(Advance(x, Len(s)), t)
      BY <1>4, <2>1
    <3> HIDE DEF u, s, t
    <3>2. LET b == Len(s)
          IN  /\ j \in Nat /\ Along(u, x, b + j)
              /\ j = Len(t) => Len(u) = b + j
              /\ j # Len(t) => b + j = Len(x) \/ (Len(u) > b + j /\ u[b + j + 1] # x[b + j + 1])
      BY <3>1, WalkText
    <3> QED
      BY <3>2 DEF u, s, t
  <2> QED
    BY <2>1, <2>2
<1>6. e \in Nat /\ o <= e
  BY <1>5
<1> HIDE DEF e, o, x, n, a
<1>7. x \in Seq(Char)
  BY DEF x
<1>8. q.at = n /\ q.text = x /\ q.off = e
  BY DEF x, n, e, o
<1>9. CASE j = Len(N[n].text)
  <2>1. Narrow(N, F, S, x, n, e)
    BY <1>3, <1>5, <1>6, <1>7, <1>9, WalkThrough
  <2>2. q.pc \in {"walk", "tenant_walk"}
    BY <1>9 DEF n
  <2> QED
    BY <1>1, <1>5, <1>8, <1>9, <2>1, <2>2 DEF Way
<1>10. CASE j # Len(N[n].text)
  <2>1. \A m \in S : ~Beyond(F[m], x, e)
    BY <1>3, <1>5, <1>6, <1>7, <1>10, WalkPart
  <2>2. q.pc \in {"pick", "tenant_touch"}
    BY <1>10 DEF n
  <2> QED
    BY <1>1, <1>5, <1>8, <2>1, <2>2 DEF Way
<1> QED
  BY <1>9, <1>10

\* Nothing is said of other tasks.
LEMMA NoWay ==
  ASSUME NEW N, NEW r, r.pc \notin Searching \cup TenantSearching
  PROVE  WayOK(N, r)
BY DEF WayOK

\* The next character of a text.
LEMMA NextChar ==
  ASSUME NEW x \in Seq(Char), NEW o \in Nat, o <= Len(x)
  PROVE  /\ Advance(x, o) \in Seq(Char)
         /\ Advance(x, o) # << >> <=> o < Len(x)
         /\ o < Len(x) => Advance(x, o)[1] = x[o + 1]
<1> DEFINE rest == Advance(x, o)
<1>1. /\ rest \in Seq(Char) /\ Len(rest) = Len(x) - o
      /\ \A i \in 1 .. Len(x) - o : rest[i] = x[o + i]
  BY HalfText
<1>2. o < Len(x) => 1 \in 1 .. Len(x) - o
  OBVIOUS
<1>3. Len(x) \in Nat
  OBVIOUS
<1> HIDE DEF rest
<1>4. o < Len(x) => rest[1] = x[o + 1]
  BY <1>1, <1>2
<1>5. rest # << >> <=> Len(rest) # 0
  BY <1>1
<1>6. rest # << >> <=> o < Len(x)
  BY <1>1, <1>3, <1>5
<1> QED
  BY <1>1, <1>4, <1>6 DEF rest

\* What the lookup of a child finds, and what it means that it finds none.
LEMMA LookUp ==
  ASSUME Shape(node), NEW k \in Task, task[k].text \in Seq(Char), task[k].off \in Nat,
         task[k].off <= Len(task[k].text), task[k].at \in Att(node)
  PROVE  LET r == task[k]
             n == ChildOf(k)
             next == r.text[r.off + 1]
         IN  IF Remaining(k) = << >> \/ Vacant(k)
             THEN r.off < Len(r.text) =>
                    \A m \in Att(node) \ {Root} : node[m].parent = r.at => node[m].text[1] # next
             ELSE /\ n \in Att(node) \ {Root} /\ node[n].parent = r.at
                  /\ r.off < Len(r.text) /\ node[n].text[1] = next
                  /\ \A m \in Att(node) \ {Root} :
                       node[m].parent = r.at /\ node[m].text[1] = next => m = n
<1> DEFINE r == task[k]
           n == ChildOf(k)
           next == r.text[r.off + 1]
<1>1. /\ Remaining(k) \in Seq(Char)
      /\ Remaining(k) # << >> <=> r.off < Len(r.text)
      /\ r.off < Len(r.text) => Remaining(k)[1] = next
  BY NextChar DEF Remaining
<1>2. r.at \in DOMAIN node
  BY AttType
<1>3. CASE Remaining(k) = << >> \/ Vacant(k)
  <2>1. ASSUME r.off < Len(r.text), NEW m \in Att(node) \ {Root}, node[m].parent = r.at
        PROVE  node[m].text[1] # next
    BY <1>1, <1>3, <2>1, ParentLink DEF Vacant
  <2> QED
    BY <1>3, <2>1
<1>4. CASE ~(Remaining(k) = << >> \/ Vacant(k))
  <2>1. r.off < Len(r.text) /\ next \in DOMAIN node[r.at].children /\ n = node[r.at].children[next]
    BY <1>1, <1>4 DEF Vacant, ChildOf
  <2>2. n \in Att(node) \ {Root} /\ node[n].parent = r.at /\ node[n].text[1] = next
    <3> HIDE DEF r, n, next
    <3>1. n # Root /\ node[n].parent = r.at /\ node[n].text[1] = next
      BY <1>2, <2>1, ShapeLink
    <3>2. n \in Att(node)
      BY <1>2, <2>1, AttIs
    <3> QED
      BY <3>1, <3>2
  <2>3. ASSUME NEW m \in Att(node) \ {Root}, node[m].parent = r.at, node[m].text[1] = next
        PROVE  m = n
    <3> HIDE DEF r, n, next
    <3>1. m = node[node[m].parent].children[node[m].text[1]]
      BY ParentLink
    <3> QED
      BY <2>1, <2>3, <3>1
  <2> QED
    BY <1>4, <2>1, <2>2, <2>3
<1> QED
  BY <1>3, <1>4

\* A task of the router.
LEMMA TaskText ==
  ASSUME IndInv, NEW k \in Task
  PROVE  /\ task[k].text \in Seq(Char) /\ task[k].off \in Nat /\ task[k].off <= Len(task[k].text)
         /\ DOMAIN task[k] = {"pc", "text", "tenant", "at", "child", "off", "queue", "stamp"}
         /\ task \in [Task -> TaskRec]
<1>1. task \in [Task -> TaskRec] /\ TaskOK(node, task[k])
  BY DEF IndInv, Tasks
<1>2. task[k] \in TaskRec
  <2> HIDE DEF TaskRec
  <2> QED
    BY <1>1
<1>3. task[k].text \in Text \cup {<< >>} /\ task[k].off \in Nat
      /\ DOMAIN task[k] = {"pc", "text", "tenant", "at", "child", "off", "queue", "stamp"}
  BY <1>2 DEF TaskRec
<1>4. task[k].text \in Seq(Char) /\ Len(task[k].text) \in Nat
  BY <1>3, TextType
<1> QED
  BY <1>1, <1>3, <1>4 DEF TaskOK

\* The steps of a match: it looks up the next child,
LEMMA MatchGetWay ==
  ASSUME IndInv, Climbs(node), Ways, NEW k \in Task, MatchGet(k)
  PROVE  WayOK(node', task'[k])
<1> DEFINE r == task[k]
           q == task'[k]
<1>1. /\ r.text \in Seq(Char) /\ r.off \in Nat /\ r.off <= Len(r.text)
      /\ DOMAIN r = {"pc", "text", "tenant", "at", "child", "off", "queue", "stamp"}
      /\ task \in [Task -> TaskRec] /\ Shape(node) /\ WayOK(node, r)
  BY TaskText DEF IndInv, Ways
<1>2. node' = node /\ r.pc = "walk"
  BY DEF MatchGet, treeVars
<1>3. /\ q.text = r.text /\ q.at = r.at /\ q.off = r.off
      /\ IF Remaining(k) = << >> \/ Vacant(k) THEN q.pc = "pick"
                                              ELSE q.pc = "read" /\ q.child = ChildOf(k)
  BY <1>1 DEF MatchGet
<1> SUFFICES ASSUME NEW F, Spells(node, F) PROVE Way(node, F, Att(node), q)
  BY <1>2, <1>3 DEF WayOK, TenantSearching
<1>4. Way(node, F, Att(node), r)
  BY <1>1, <1>2 DEF WayOK, Searching
<1>5. r.at \in Att(node) /\ Closed(node, Att(node))
  BY <1>1, <1>4, AttIs, AttClosed DEF Way
<1>6. IF Remaining(k) = << >> \/ Vacant(k)
      THEN r.off < Len(r.text) =>
             \A m \in Att(node) \ {Root} : node[m].parent = r.at => node[m].text[1] # r.text[r.off + 1]
      ELSE /\ ChildOf(k) \in Att(node) \ {Root} /\ node[ChildOf(k)].parent = r.at
           /\ r.off < Len(r.text) /\ node[ChildOf(k)].text[1] = r.text[r.off + 1]
  BY <1>1, <1>5, LookUp
<1> HIDE DEF r, q
<1>7. CASE Remaining(k) = << >> \/ Vacant(k)
  BY <1>1, <1>2, <1>3, <1>4, <1>5, <1>6, <1>7, WayEnds
<1>8. CASE ~(Remaining(k) = << >> \/ Vacant(k))
  BY <1>2, <1>3, <1>4, <1>6, <1>8, WayChild
<1> QED
  BY <1>7, <1>8

\* compares its text,
LEMMA MatchReadWay ==
  ASSUME IndInv, Climbs(node), Ways, NEW k \in Task, MatchRead(k)
  PROVE  WayOK(node', task'[k])
<1> DEFINE r == task[k]
           q == task'[k]
           j == SharedCount(Advance(r.text, r.off), node[r.child].text)
<1>1. /\ r.text \in Seq(Char) /\ r.off \in Nat /\ r.off <= Len(r.text)
      /\ DOMAIN r = {"pc", "text", "tenant", "at", "child", "off", "queue", "stamp"}
      /\ task \in [Task -> TaskRec] /\ Shape(node) /\ WayOK(node, r)
  BY TaskText DEF IndInv, Ways
<1>2. node' = node /\ r.pc = "read"
  BY DEF MatchRead, treeVars
<1>3. /\ q.text = r.text /\ q.at = r.child /\ q.off = r.off + j
      /\ q.pc = IF j = Len(node[r.child].text) THEN "walk" ELSE "pick"
  BY <1>1 DEF MatchRead, Remaining
<1> SUFFICES ASSUME NEW F, Spells(node, F) PROVE Way(node, F, Att(node), q)
  BY <1>2, <1>3 DEF WayOK, TenantSearching
<1>4. Way(node, F, Att(node), r) /\ Closed(node, Att(node))
  BY <1>1, <1>2, AttClosed DEF WayOK, Searching
<1> HIDE DEF r, q
<1> QED
  BY <1>1, <1>2, <1>3, <1>4, WayReads

\* and picks a tenant where it ends.
LEMMA MatchPickWay ==
  ASSUME IndInv, Ways, NEW k \in Task, NEW t, MatchPick(k, t),
         SameLinks(node, node'), node' \in Seq(NodeRec)
  PROVE  WayOK(node', task'[k])
<1> DEFINE r == task[k]
           q == task'[k]
<1>1. /\ DOMAIN r = {"pc", "text", "tenant", "at", "child", "off", "queue", "stamp"}
      /\ task \in [Task -> TaskRec] /\ Shape(node) /\ WayOK(node, r)
  BY TaskText DEF IndInv, Ways
<1>2. r.pc = "pick" /\ q.pc = "touch" /\ q.text = r.text /\ q.at = r.at /\ q.off = r.off
  BY <1>1 DEF MatchPick
<1>3. Att(node') = Att(node) /\ Att(node) \subseteq DOMAIN node
  <2> HIDE DEF NodeRec
  <2> QED
    BY <1>1, LinksKept, AttType
<1> SUFFICES ASSUME NEW F, Spells(node', F) PROVE Way(node', F, Att(node'), q)
  BY <1>2 DEF WayOK, TenantSearching
<1>4. Spells(node, F)
  BY <1>3 DEF Spells, SameLinks
<1>5. Way(node, F, Att(node), r)
  BY <1>1, <1>2, <1>4 DEF WayOK, Searching
<1> HIDE DEF r, q
<1> QED
  BY <1>2, <1>3, <1>5 DEF Way

\* It has started at the root.
LEMMA MatchWay ==
  ASSUME Shape(node), task \in [Task -> TaskRec], NEW k \in Task, NEW x \in Text, Match(k, x)
  PROVE  WayOK(node', task'[k])
<1> DEFINE q == task'[k]
<1>1. /\ node' = node /\ q.pc = "walk" /\ q.text = x /\ q.at = Root /\ q.off = 0
  BY DEF Match, treeVars, Idle
<1>2. x \in Seq(Char)
  BY TextType
<1> SUFFICES ASSUME NEW F, Spells(node, F) PROVE Way(node, F, Att(node), q)
  BY <1>1 DEF WayOK, TenantSearching
<1>3. Closed(node, Att(node))
  BY AttClosed
<1> HIDE DEF q
<1> QED
  BY <1>1, <1>2, <1>3, WayStart

----------------------------------------------------------------------------
(* The steps of the router on one worker thread. *)

\* With nothing stale in hand every step keeps the counts exact.
LEMMA ExactStep ==
  ASSUME IndInv, IndInv', Accounts, Fresh, Forgotten(node), Exact, [RouterNext]_vars
  PROVE  Exact'
<1> SUFFICES ASSUME NEW t \in Tenant PROVE count'[t] = Used(node', t)
  BY DEF Exact
<1>1. ~StaleTouch(t)
  BY TreeAssumption DEF StaleTouch, Fresh, Has
<1>2. count[t] = Used(node, t)
  <2>1. ~Leaving(t)
    <3> SUFFICES ASSUME NEW k \in Task, task[k].pc \in {"remove", "unlink"} PROVE FALSE
      BY DEF Leaving
    <3>1. task[k] \in TaskRec
      BY TaskDomain
    <3> QED
      BY <3>1 DEF TaskRec
  <2> QED
    BY <2>1 DEF Exact
<1>3. Balance(t)
  <2>1. CASE \E e \in BagToSet(evict.heap) : EvictRemove(e)
    BY <1>2, <2>1, TakenInTree, EvictRemoveAccounts
  <2> QED
    BY <1>1, <2>1, NextAccounts
<1> DEFINE u == Used(node, t)
           v == Used(node', t)
           d == count'[t]
<1>4. u \in Nat /\ v \in Nat /\ d \in Nat
  <2>1. Shape(node) /\ Shape(node') /\ count' \in [Tenant -> Nat]
    BY DEF IndInv, Counters
  <2> QED
    BY <2>1, UsedType
<1>5. v + u = u + d
  BY <1>2, <1>3 DEF Balance
<1> HIDE DEF u, v, d
<1>6. d = v
  BY <1>4, <1>5
<1> QED
  BY <1>6 DEF d, v

\* Steps that leave the thread to whom it belongs.
LEMMA StillAlone ==
  ASSUME Alone, task' = task, evict'.pc \in {"pop", "prune"} => \A k \in Task : task[k].pc = "idle"
  PROVE  Alone'
BY DEF Alone, Evicting

\* Nothing is claimed outside a pass.
LEMMA NoPassScanned ==
  ASSUME NEW N, NEW ev, NEW ct, ev.pc \notin {"pop", "prune"}
  PROVE  Scanned(N, ev, ct)
BY DEF Scanned

\* What is true between operations and during those of the router.
Quiet ==
  /\ Alone /\ Fresh /\ Scanned(node, evict, count)
  /\ Climbs(node) /\ Tidy(node, Loose) /\ Ways

\* A match stands at a node of the tree.
LEMMA MatchAttached ==
  ASSUME IndInv, Quiet, NEW k \in Task, task[k].pc \in Searching
  PROVE  task[k].at \in Att(node)
<1>1. Shape(node) /\ Spells(node, Path)
  BY PathSpells DEF IndInv, Quiet, Tidy
<1>2. Way(node, Path, Att(node), task[k])
  BY <1>1 DEF Quiet, Ways, WayOK
<1> QED
  BY <1>2, AttIs DEF Way

\* An operation starts when nothing else is under way,
LEMMA QuietStart ==
  ASSUME NThreads = 1, IndInv, IndInv', Quiet, Climbs(node'),
         NEW k \in Task, NEW x \in Text, NEW t, Match(k, x) \/ Record(k, x, t)
  PROVE  Quiet'
<1> USE DEF Evicting
<1>1. FreeThread /\ node' = node /\ evict' = evict
  BY DEF Match, Record, treeVars
<1>2. ~Evicting /\ \A j \in Task : task[j].pc = "idle"
  BY <1>1, OneThreadFree
<1>3. task \in [Task -> TaskRec] /\ task' \in [Task -> TaskRec] /\ Shape(node)
  BY DEF IndInv, Tasks
<1>4. \A j \in Task \ {k} : task'[j] = task[j]
  BY <1>3 DEF Match, Record
<1>5. task'[k].pc \notin {"touch", "stamp"} /\ (Record(k, x, t) => task'[k].pc = "lock")
  BY <1>3 DEF Match, Record, Idle
<1>6. Alone'
  BY <1>1, <1>2, <1>4 DEF Alone
<1>7. Fresh'
  BY <1>2, <1>4, <1>5 DEF Fresh
<1>8. Scanned(node', evict', count')
  BY <1>1, <1>2, NoPassScanned
<1>9. Tidy(node', Loose')
  <2>1. Loose' = Loose
    BY <1>1, <1>3, LooseIs DEF Loose
  <2> QED
    BY <1>1, <2>1 DEF Quiet
<1>10. ASSUME NEW j \in Task PROVE WayOK(node', task'[j])
  <2>1. CASE j # k
    <3>1. task'[j].pc = "idle"
      BY <1>2, <1>4, <2>1
    <3> QED
      BY <3>1, NoWay DEF Searching, TenantSearching
  <2>2. CASE j = k /\ Record(k, x, t)
    BY <1>5, <2>2, NoWay DEF Searching, TenantSearching
  <2>3. CASE j = k /\ Match(k, x)
    BY <1>3, <2>3, MatchWay
  <2> QED
    BY <2>1, <2>2, <2>3
<1> QED
  BY <1>6, <1>7, <1>8, <1>9, <1>10 DEF Quiet, Ways

\* goes on,
LEMMA QuietTask ==
  ASSUME IndInv, IndInv', Quiet, Climbs(node'),
         NEW k \in Task, InsertStep(k) \/ MatchStep(k) \/ Touch(k)
  PROVE  Quiet'
<1> USE DEF Evicting
<1>1. /\ task[k].pc # "idle" /\ evict' = evict
      /\ \A j \in Task \ {k} : task'[j] = task[j]
  BY OwnTask
<1>2. ~Evicting /\ \A j \in Task \ {k} : task'[j].pc = "idle"
  BY <1>1 DEF Quiet, Alone
<1>3. task \in [Task -> TaskRec] /\ task' \in [Task -> TaskRec] /\ Shape(node)
  BY DEF IndInv, Tasks
<1>4. Loose = {} /\ Loose' = {}
  BY <1>1, <1>2, <1>3, LooseIs DEF Loose
<1>5. Tidy(node, {}) /\ Climbs(node) /\ Ways /\ Fresh
  BY <1>4 DEF Quiet
<1>6. Alone'
  BY <1>1, <1>2 DEF Alone
<1>7. Fresh'
  <2> SUFFICES ASSUME NEW j \in Task, task'[j].pc \in {"touch", "stamp"}
               PROVE  LET held == DOMAIN node'[task'[j].at].access
                      IN  \/ task'[j].tenant \in held
                          \/ task'[j].at = Root /\ held = {} /\ task'[j].tenant = Empty
    BY DEF Fresh
  <2>1. j = k
    BY <1>2
  <2>2. ASSUME NEW t \in Holder, MatchPick(k, t)
        PROVE  LET held == DOMAIN node'[task'[k].at].access
               IN  \/ task'[k].tenant \in held
                   \/ task'[k].at = Root /\ held = {} /\ task'[k].tenant = Empty
    <3>1. task[k].at \in Att(node)
      BY <2>2, MatchAttached DEF MatchPick, Searching
    <3> QED
      BY <1>5, <2>2, <3>1, PickedIsThere
  <2>3. CASE /\ task[k].pc = "touch" /\ node' = node
             /\ task'[k].at = task[k].at /\ task'[k].tenant = task[k].tenant
    BY <1>5, <2>1, <2>3 DEF Fresh
  <2> QED
    BY <2>1, <2>2, <2>3, OnlyPickTouches
<1>8. Scanned(node', evict', count')
  BY <1>1, <1>2, NoPassScanned
<1>9. Tidy(node', {})
  <2>1. CASE LockTimeout(k) \/ InsertEnd(k) \/ MatchGet(k) \/ MatchRead(k) \/ MatchTouch(k)
    BY <1>5, <2>1 DEF LockTimeout, InsertEnd, MatchGet, MatchRead, MatchTouch, treeVars
  <2>2. CASE Touch(k)
    BY <1>5, <2>2, TouchTidy
  <2>3. ASSUME NEW t \in Tenant \cup {Empty}, MatchPick(k, t) PROVE Tidy(node', {})
    BY <1>5, <2>3, MatchPickTidy DEF Holder
  <2> QED
    BY <1>5, <2>1, <2>2, <2>3, InsertAtRootTidy, InsertLeafTidy, InsertDownTidy
       DEF InsertStep, MatchStep
<1>10. ASSUME NEW j \in Task PROVE WayOK(node', task'[j])
  <2>1. CASE j # k
    BY <1>2, <2>1, NoWay DEF Searching, TenantSearching
  <2>2. CASE j = k /\ InsertStep(k)
    <3>1. DOMAIN task[k] = {"pc", "text", "tenant", "at", "child", "off", "queue", "stamp"}
      BY TaskText
    <3>2. task'[k].pc \in {"idle", "insert", "refresh"}
      <4>1. CASE LockTimeout(k) \/ InsertLeaf(k)
        BY <1>3, <4>1 DEF LockTimeout, InsertLeaf, Idle
      <4>2. CASE InsertAtRoot(k)
        BY <1>3, <3>1, <4>2 DEF InsertAtRoot, Goto
      <4>3. CASE InsertDown(k)
        BY <1>3, <3>1, <4>3 DEF InsertDown, Reach
      <4>4. CASE InsertEnd(k)
        BY <1>3, <3>1, <4>4 DEF InsertEnd, Draw
      <4> QED
        BY <2>2, <4>1, <4>2, <4>3, <4>4 DEF InsertStep
    <3> QED
      BY <2>2, <3>2, NoWay DEF Searching, TenantSearching
  <2>3. CASE j = k /\ MatchStep(k)
    <3>1. CASE MatchTouch(k)
      <4>1. DOMAIN task[k] = {"pc", "text", "tenant", "at", "child", "off", "queue", "stamp"}
        BY TaskText
      <4>2. task'[k].pc \in {"idle", "stamp"}
        BY <1>3, <3>1, <4>1 DEF MatchTouch, Draw, Idle
      <4> QED
        BY <2>3, <4>2, NoWay DEF Searching, TenantSearching
    <3>2. ASSUME NEW t \in Tenant \cup {Empty}, MatchPick(k, t) PROVE WayOK(node', task'[k])
      BY <1>5, <3>2, MatchPickTidy, MatchPickWay DEF Holder
    <3> QED
      BY <1>5, <2>3, <3>1, <3>2, MatchGetWay, MatchReadWay DEF MatchStep
  <2>4. CASE j = k /\ Touch(k)
    <3>1. task'[k].pc = "idle"
      BY <1>3, <2>4 DEF Touch, Idle
    <3> QED
      BY <2>4, <3>1, NoWay DEF Searching, TenantSearching
  <2> QED
    BY <2>1, <2>2, <2>3, <2>4
<1> QED
  BY <1>4, <1>6, <1>7, <1>8, <1>9, <1>10 DEF Quiet, Ways

\* and a pass has the thread to itself.
LEMMA QuietEvict ==
  ASSUME NThreads = 1, IndInv, IndInv', Quiet, Climbs(node'), EvictStep
  PROVE  Quiet'
<1> USE DEF Evicting
<1>1. task' = task /\ \A k \in Task : task[k].pc = "idle"
  <2>1. CASE EvictStart
    BY <2>1, OneThreadFree DEF EvictStart
  <2>2. CASE EvictPrune \/ EvictEnd
    BY <2>2 DEF EvictPrune, EvictEnd, Quiet, Alone
  <2>3. CASE \E e \in BagToSet(evict.heap) : EvictSkip(e) \/ EvictRemove(e)
    BY <2>3 DEF EvictSkip, EvictRemove, Popped, Quiet, Alone
  <2> QED
    BY <2>1, <2>2, <2>3 DEF EvictStep
<1>2. Alone'
  BY <1>1, StillAlone DEF Quiet
<1>3. Fresh'
  BY <1>1 DEF Fresh
<1>4. Scanned(node', evict', count')
  <2>1. CASE EvictEnd
    <3>1. evict'.pc \notin {"pop", "prune"}
      BY <2>1 DEF EvictEnd, IndInv, Pass
    <3> QED
      BY <3>1, NoPassScanned
  <2> QED
    BY <2>1, EvictStartScans, EvictSkipScans, EvictRemoveScans, EvictPruneScans
       DEF EvictStep, Quiet, Tidy
<1>5. /\ Loose = IF evict.pc = "prune" THEN {evict.at} ELSE {}
      /\ Loose' = IF evict'.pc = "prune" THEN {evict'.at} ELSE {}
  BY LooseIs DEF Loose, IndInv, Tasks
<1>6. Tidy(node', Loose')
  <2>0. Tidy(node, Loose) /\ DOMAIN evict = {"pc", "limit", "final", "heap", "at", "tenant"}
    BY DEF Quiet, IndInv, Pass
  <2>1. CASE EvictStart
    <3>1. node' = node /\ evict.pc = "wait" /\ evict'.pc = "pop"
      BY <2>0, <2>1 DEF EvictStart, treeVars
    <3> QED
      BY <1>5, <2>0, <3>1
  <2>2. CASE EvictEnd
    <3>1. node' = node /\ evict.pc = "pop" /\ evict'.pc \in {"stopped", "wait"}
      BY <2>0, <2>2 DEF EvictEnd, treeVars
    <3> QED
      BY <1>5, <2>0, <3>1
  <2>3. ASSUME NEW e \in BagToSet(evict.heap), EvictSkip(e) PROVE Tidy(node', Loose')
    <3>1. node' = node /\ evict.pc = "pop" /\ evict'.pc = "pop"
      BY <2>0, <2>3 DEF EvictSkip, Popped, treeVars
    <3> QED
      BY <1>5, <2>0, <3>1
  <2>4. ASSUME NEW e \in BagToSet(evict.heap), EvictRemove(e) PROVE Tidy(node', Loose')
    <3>1. evict.pc = "pop" /\ evict'.pc = "prune" /\ evict'.at = e.node
      BY <2>0, <2>4 DEF EvictRemove, Popped
    <3> QED
      BY <1>5, <2>0, <2>4, <3>1, EvictRemoveTidy
  <2>5. CASE EvictPrune
    <3>1. evict.pc = "prune" /\ evict'.pc = "pop" /\ node' = Unlinked(evict.at)
      BY <2>0, <2>5 DEF EvictPrune
    <3>2. Shape(node) /\ evict.at \in Att(node)
      BY <3>1 DEF IndInv, Quiet, Scanned
    <3> QED
      BY <1>5, <2>0, <3>1, <3>2, UnlinkTidy
  <2> QED
    BY <2>1, <2>2, <2>3, <2>4, <2>5 DEF EvictStep
<1>7. ASSUME NEW j \in Task PROVE WayOK(node', task'[j])
  BY <1>1, NoWay DEF Searching, TenantSearching
<1> QED
  BY <1>2, <1>3, <1>4, <1>6, <1>7 DEF Quiet, Ways

\* With one thread operations run one at a time, each in the tree the last one left.
LEMMA QuietStep1 ==
  ASSUME NThreads = 1, IndInv, IndInv', Quiet, Climbs(node'), [RouterNext]_vars
  PROVE  Quiet'
<1>1. CASE \E k \in Task, x \in Text : Match(k, x) \/ \E t \in Tenant : Record(k, x, t)
  BY <1>1, QuietStart
<1>2. CASE \E k \in Task : InsertStep(k) \/ MatchStep(k) \/ Touch(k)
  BY <1>2, QuietTask
<1>3. CASE EvictStep
  BY <1>3, QuietEvict
<1>4. CASE DropRouter \/ UNCHANGED vars
  <2>1. node' = node /\ count' = count /\ task' = task /\ evict' = evict
    BY <1>4 DEF DropRouter, vars, treeVars
  <2> QED
    BY <2>1 DEF Quiet, Alone, Fresh, Ways, Loose, Evicting
<1> QED
  BY <1>1, <1>2, <1>3, <1>4 DEF RouterNext

----------------------------------------------------------------------------
(* remove_tenant and prefix_match_tenant. *)

DirectRec ==
  [pc : {"remove", "unlink", "tenant_walk", "tenant_read", "tenant_touch"},
   text : Text \cup {<< >>}, tenant : Tenant, at : Nat, child : Nat, off : Nat,
   queue : SUBSET Nat, stamp : Stamp]

\* The nodes where t is a leaf, and the parent of n, if it has become one.
LeavesOf(N, t) == {n \in Att(N) : t \in LeafAt(N, n)}
Bared(N, n, t) == {p \in {N[n].parent} : n # Root /\ t \in LeafAt(N, p)}

\* A removal has the leaves of its tenant in its queue, but for the one that it is about to
\* find.
Removal(N, r) ==
  /\ r.pc = "remove" => r.queue = LeavesOf(N, r.tenant)
  /\ r.pc = "unlink" =>
       r.at \in Att(N) /\ r.queue \cup Bared(N, r.at, r.tenant) = LeavesOf(N, r.tenant)

\* The record of task k in the middle of one of the two operations, in the tree N.
DirectOK(N, ep, r) ==
  /\ r \in DirectRec
  /\ r.at \in DOMAIN N /\ r.child \in DOMAIN N /\ r.off <= Len(r.text)
  /\ r.queue \subseteq DOMAIN N /\ Removal(N, r)
  /\ ep <= MaxEpoch /\ (r.pc \in TenantSearching => ep < MaxEpoch /\ r.queue = {})

\* Task k is in the middle of one, and alone.
Direct(k) ==
  /\ DirectOps /\ Shape(node) /\ Counters /\ Pass /\ ~Evicting
  /\ task \in [Task -> TaskRec \cup DirectRec]
  /\ DirectOK(node, epoch, task[k])
  /\ \A j \in Task \ {k} : TaskOK(node, task[j]) /\ task[j].pc = "idle"

\* The invariant of one worker thread.
Solo ==
  /\ Quiet /\ Grounded(node) /\ Exact
  /\ (IndInv /\ Accounts) \/ \E k \in Task : Direct(k)

\* A task in the middle of such an operation.
LEMMA DirectTask ==
  ASSUME NEW r \in DirectRec
  PROVE  /\ r.pc \in {"remove", "unlink"} \cup TenantSearching
         /\ r.text \in Seq(Char) /\ r.off \in Nat /\ r.tenant \in Tenant
         /\ DOMAIN r = {"pc", "text", "tenant", "at", "child", "off", "queue", "stamp"}
         /\ r.stamp \in Stamp
<1>1. /\ r.pc \in {"remove", "unlink"} \cup TenantSearching /\ r.stamp \in Stamp
      /\ r.text \in Text \cup {<< >>} /\ r.off \in Nat /\ r.tenant \in Tenant
      /\ DOMAIN r = {"pc", "text", "tenant", "at", "child", "off", "queue", "stamp"}
  BY DEF DirectRec, TenantSearching
<1> QED
  BY <1>1, TextType

\* Nobody else may start anything meanwhile.
LEMMA DirectOnly ==
  ASSUME NThreads = 1, NEW k \in Task, Direct(k), [Next]_vars
  PROVE  DirectStep(k) \/ UNCHANGED vars
<1>1. task[k].pc \in {"remove", "unlink"} \cup TenantSearching
  BY DirectTask DEF Direct, DirectOK
<1>2. task[k].pc \notin {"idle", "lock", "insert", "refresh", "stamp"} \cup Searching
  BY <1>1 DEF Searching, TenantSearching
<1>3. ~FreeThread
  BY <1>2, OneThreadFree
<1>4. ~Evicting /\ \A j \in Task \ {k} : task[j].pc = "idle"
  BY DEF Direct
<1>5. ~EvictStep
  BY <1>3, <1>4 DEF EvictStep, EvictStart, EvictSkip, EvictRemove, EvictPrune, EvictEnd, Popped,
                    Evicting
<1>6. ~DropRouter
  BY <1>2 DEF DropRouter, Busy
<1>7. ASSUME NEW j \in Task, TaskStep(j) PROVE DirectStep(k)
  <2>1. CASE j # k
    <3>1. task[j].pc = "idle"
      BY <1>4, <2>1
    <3>2. ~InsertStep(j)
      BY <3>1 DEF InsertStep, LockTimeout, InsertAtRoot, InsertLeaf, InsertDown, InsertEnd
    <3>3. ~MatchStep(j) /\ ~Touch(j)
      BY <3>1 DEF MatchStep, MatchGet, MatchRead, MatchPick, MatchTouch, Touch, Drawn
    <3>4. ~DirectStep(j)
      BY <3>1 DEF DirectStep, RemoveTake, RemoveUnlink, RemoveEnd, TenantGet, TenantRead,
                  TenantTouch
    <3> QED
      BY <1>7, <3>2, <3>3, <3>4 DEF TaskStep
  <2>2. CASE j = k
    BY <1>2, <1>7, <2>2
       DEF TaskStep, InsertStep, LockTimeout, InsertAtRoot, InsertLeaf, InsertDown, InsertEnd,
           MatchStep, MatchGet, MatchRead, MatchPick, MatchTouch, Searching, Touch, Drawn
  <2> QED
    BY <2>1, <2>2
<1>8. ~\E j \in Task, x \in Text :
         Match(j, x) \/ \E t \in Tenant : Record(j, x, t) \/ MatchTenant(j, x, t)
  BY <1>3 DEF Match, Record, MatchTenant
<1>9. ~\E j \in Task, t \in Tenant : RemoveTenant(j, t)
  BY <1>3 DEF RemoveTenant
<1> QED
  BY <1>5, <1>6, <1>7, <1>8, <1>9 DEF Next

\* What is known in the middle of it.
LEMMA DirectNow ==
  ASSUME Solo, NEW k \in Task, Direct(k)
  PROVE  /\ Tidy(node, IF task[k].pc = "unlink" THEN {task[k].at} ELSE {})
         /\ \A t \in Tenant : \/ count[t] = Used(node, t)
                              \/ task[k].pc \in {"remove", "unlink"} /\ task[k].tenant = t
         /\ WayOK(node, task[k]) /\ Grounded(node) /\ Climbs(node)
<1>1. \A j \in Task \ {k} : task[j].pc = "idle"
  BY DEF Direct
<1>2. evict.pc # "prune"
  BY DEF Direct, Evicting
<1>3. Loose = IF task[k].pc = "unlink" THEN {task[k].at} ELSE {}
  BY <1>1, <1>2 DEF Loose, LooseIn
<1>4. ASSUME NEW t \in Tenant, count[t] # Used(node, t)
      PROVE  task[k].pc \in {"remove", "unlink"} /\ task[k].tenant = t
  BY <1>1, <1>4 DEF Solo, Exact, Leaving
<1> QED
  BY <1>3, <1>4 DEF Solo, Quiet, Ways

\* The pass that is not under way stays so.
LEMMA StillNoPass ==
  ASSUME Pass, ~Evicting, evict' = evict, DOMAIN node \subseteq DOMAIN node'
  PROVE  Pass'
<1>1. DOMAIN evict.heap = {} /\ evict.pc # "prune"
  BY DEF Pass, Evicting
<1>2. Found(node', {})
  BY DEF Found
<1>3. HeapOK(node', evict')
  BY <1>1, <1>2 DEF HeapOK
<1> QED
  BY <1>1, <1>3 DEF Pass, Evicting

\* The operation goes on,
LEMMA DirectGoesOn ==
  ASSUME NEW k \in Task, DirectOps, Counters', Pass, ~Evicting, evict' = evict,
         task \in [Task -> TaskRec \cup DirectRec], NEW q, task' = [task EXCEPT ![k] = q],
         \A j \in Task \ {k} : TaskOK(node, task[j]) /\ task[j].pc = "idle",
         Shape(node), Shape(node'), DOMAIN node \subseteq DOMAIN node',
         DirectOK(node', epoch', q), Grounded(node'),
         Tidy(node', IF q.pc = "unlink" THEN {q.at} ELSE {}), WayOK(node', q),
         \A t \in Tenant : \/ count'[t] = Used(node', t)
                           \/ q.pc \in {"remove", "unlink"} /\ q.tenant = t
  PROVE  Solo'
<1> USE DEF Evicting
<1>1. q \in DirectRec
  BY DEF DirectOK
<1>2. q.pc \in {"remove", "unlink"} \cup TenantSearching
  BY <1>1, DirectTask
<1>3. q.pc \notin {"idle", "touch", "stamp"}
  BY <1>2 DEF TenantSearching
<1>4. task' \in [Task -> TaskRec \cup DirectRec] /\ task'[k] = q
  <2> HIDE DEF TaskRec, DirectRec
  <2> QED
    BY <1>1
<1>5. \A j \in Task \ {k} : task'[j] = task[j]
  BY DEF TaskOK
<1>6. Pass'
  BY StillNoPass
<1>7. ASSUME NEW j \in Task \ {k} PROVE TaskOK(node', task'[j]) /\ task'[j].pc = "idle"
  <2>1. TaskOK(node, task[j]) /\ task[j].pc = "idle" /\ task'[j] = task[j]
    BY <1>5
  <2> QED
    BY <2>1, TaskStays
<1>8. Direct(k)'
  BY <1>4, <1>6, <1>7 DEF Direct
<1>9. Alone'
  BY <1>7 DEF Alone
<1>10. Fresh'
  BY <1>3, <1>4, <1>7 DEF Fresh
<1>11. Scanned(node', evict', count')
  BY NoPassScanned
<1>12. Loose' = IF q.pc = "unlink" THEN {q.at} ELSE {}
  BY <1>4, <1>7 DEF Loose, LooseIn
<1>13. ASSUME NEW j \in Task PROVE WayOK(node', task'[j])
  <2>1. CASE j = k
    BY <1>4, <2>1
  <2>2. CASE j # k
    BY <1>7, <2>2, NoWay DEF Searching, TenantSearching
  <2> QED
    BY <2>1, <2>2
<1>14. Exact'
  BY <1>4 DEF Exact, Leaving
<1>15. Quiet'
  BY <1>9, <1>10, <1>11, <1>12, <1>13 DEF Quiet, Ways, Grounded
<1> QED
  BY <1>8, <1>14, <1>15 DEF Solo

\* or returns, but for the timestamp that it may still have to write.
LEMMA DirectReturns ==
  ASSUME NEW k \in Task, Direct(k), Counters', evict' = evict,
         Shape(node'), DOMAIN node \subseteq DOMAIN node', NEW q, task' = [task EXCEPT ![k] = q],
         TaskOK(node', q), q.pc \in {"idle", "stamp"},
         q.pc = "stamp" => q.tenant \in DOMAIN node'[q.at].access,
         epoch' <= MaxEpoch, Grounded(node'), Tidy(node', {}),
         \A t \in Tenant : count'[t] = Used(node', t)
  PROVE  Solo'
<1> USE DEF Evicting
<1>1. /\ task \in [Task -> TaskRec \cup DirectRec] /\ ~Evicting /\ Pass /\ Shape(node)
      /\ \A j \in Task \ {k} : TaskOK(node, task[j]) /\ task[j].pc = "idle"
  BY DEF Direct
<1>2. task'[k] = q /\ \A j \in Task \ {k} : task'[j] = task[j]
  BY <1>1
<1>3. ASSUME NEW j \in Task
      PROVE  /\ TaskOK(node', task'[j]) /\ task'[j].pc \in {"idle", "stamp"}
             /\ j # k => task'[j].pc = "idle"
  <2>1. CASE j = k
    BY <1>2, <2>1
  <2>2. CASE j # k
    <3>1. TaskOK(node, task[j]) /\ task[j].pc = "idle" /\ task'[j] = task[j]
      BY <1>1, <1>2, <2>2
    <3> QED
      BY <1>1, <3>1, TaskStays
  <2> QED
    BY <2>1, <2>2
<1>4. task' \in [Task -> TaskRec]
  <2>1. \A j \in Task : task'[j] \in TaskRec
    BY <1>3 DEF TaskOK
  <2> HIDE DEF TaskRec, DirectRec
  <2> QED
    BY <1>1, <2>1
<1>5. Tasks'
  BY <1>3, <1>4 DEF Tasks
<1>6. Epochs'
  <2>1. Undrawn' = {}
    BY <1>3 DEF Undrawn, Busy, Drawn
  <2>2. Cardinality({}) = 0 /\ epoch' \in Nat
    BY FS_EmptySet DEF Counters
  <2> QED
    BY <2>1, <2>2 DEF Epochs
<1>7. Locked' /\ Pass'
  BY <1>1, StillNoPass DEF Locked
<1>8. IndInv'
  BY <1>5, <1>6, <1>7 DEF IndInv
<1>9. ASSUME NEW t \in Tenant PROVE Ledger(node', t, Stands(task', t), count'[t])
  <2> DEFINE Q == Hold(node', t)
  <2>1. Stands(task', t) = {}
    BY <1>3 DEF Stands
  <2>2. Closed(node', Q)
    BY HoldClosed DEF Tidy
  <2>3. Held(node', t, Q) /\ Q \in SUBSET Att(node')
    BY <2>2 DEF Held, Closed, Direct
  <2>4. count'[t] <= Size(node', Q)
    <3>1. count'[t] = Size(node', Q) /\ count'[t] \in Nat
      BY DEF Used, Counters
    <3> QED
      BY <3>1
  <2> QED
    BY <2>1, <2>3, <2>4 DEF Ledger
<1>10. Accounts'
  BY <1>9 DEF Accounts, Charged
<1>11. Alone' /\ Fresh'
  BY <1>1, <1>2, <1>3 DEF Alone, Fresh
<1>12. Scanned(node', evict', count')
  BY <1>1, NoPassScanned
<1>13. Loose' = {}
  BY <1>1, <1>4, LooseIs DEF Loose
<1>14. ASSUME NEW j \in Task PROVE WayOK(node', task'[j])
  BY <1>3, NoWay DEF Searching, TenantSearching
<1>15. Quiet' /\ Exact'
  BY <1>11, <1>12, <1>13, <1>14 DEF Quiet, Ways, Grounded, Exact
<1> QED
  BY <1>8, <1>10, <1>15 DEF Solo

\* An operation starts when nothing else is under way.
LEMMA DirectStarts ==
  ASSUME NThreads = 1, Solo, IndInv, DirectOps, FreeThread, NEW k \in Task,
         NEW q, task' = [task EXCEPT ![k] = q], node' = node, count' = count, epoch' = epoch,
         evict' = evict, q \in DirectRec, q.pc # "unlink", q.at = Root, q.child = Root, q.off = 0,
         q.queue \subseteq DOMAIN node, Removal(node, q), WayOK(node, q),
         q.pc \in TenantSearching => epoch < MaxEpoch /\ q.queue = {}
  PROVE  Solo'
<1>1. ~Evicting /\ \A j \in Task : task[j].pc = "idle"
  BY OneThreadFree
<1>2. /\ Shape(node) /\ Counters /\ Pass /\ Epochs /\ task \in [Task -> TaskRec]
      /\ \A j \in Task : TaskOK(node, task[j])
  BY DEF IndInv, Tasks
<1>3. task \in [Task -> TaskRec \cup DirectRec]
  <2> HIDE DEF TaskRec, DirectRec
  <2> QED
    BY <1>2
<1>4. Counters'
  BY <1>2 DEF Counters
<1>5. epoch <= MaxEpoch
  <2>1. Cardinality(Undrawn) \in Nat /\ epoch \in Nat /\ MaxEpoch \in Nat
    BY <1>2, UndrawnFinite, TreeAssumption DEF Counters
  <2> QED
    BY <1>2, <2>1 DEF Epochs
<1>6. DirectOK(node', epoch', q)
  <2>1. Len(q.text) \in Nat
    <3>1. q.text \in Seq(Char)
      BY DirectTask
    <3> QED
      BY <3>1
  <2>2. Root \in DOMAIN node
    BY <1>2 DEF Shape
  <2> QED
    BY <1>5, <2>1, <2>2 DEF DirectOK
<1>7. Tidy(node', {}) /\ Grounded(node')
  <2>1. Loose = {}
    BY <1>1, <1>2, LooseIs DEF Loose, Evicting
  <2> QED
    BY <2>1 DEF Solo, Quiet
<1>8. \A t \in Tenant : count'[t] = Used(node', t)
  BY <1>1 DEF Solo, Exact, Leaving
<1> HIDE DEF TaskRec, DirectRec
<1> QED
  BY <1>1, <1>2, <1>3, <1>4, <1>6, <1>7, <1>8, DirectGoesOn

\* prefix_match_tenant starts at the root,
LEMMA MatchTenantSolo ==
  ASSUME NThreads = 1, Solo, IndInv, NEW k \in Task, NEW x \in Text, NEW t \in Tenant,
         MatchTenant(k, x, t)
  PROVE  Solo'
<1> DEFINE q == [Idle EXCEPT !.pc = "tenant_walk", !.text = x, !.tenant = t]
<1>1. /\ DirectOps /\ FreeThread /\ EpochLeft /\ task' = [task EXCEPT ![k] = q]
      /\ node' = node /\ count' = count /\ epoch' = epoch /\ evict' = evict
  BY DEF MatchTenant, treeVars
<1>2. /\ q.pc = "tenant_walk" /\ q.text = x /\ q.tenant = t /\ q.at = Root /\ q.child = Root
      /\ q.off = 0 /\ q.queue = {}
  BY DEF Idle
<1>3. q \in DirectRec
  <2>1. 0 \in Stamp
    BY TreeAssumption DEF Stamp
  <2> HIDE DEF Stamp
  <2> QED
    BY <2>1 DEF Idle, DirectRec, Root
<1>4. Shape(node) /\ Tidy(node, Loose) /\ epoch \in Nat
  BY DEF IndInv, Counters, Solo, Quiet
<1>5. epoch < MaxEpoch
  <2>1. Cardinality(Undrawn) \in Nat /\ MaxEpoch \in Nat
    BY UndrawnFinite, TreeAssumption
  <2> QED
    BY <1>1, <1>4, <2>1 DEF EpochLeft
<1>6. x \in Seq(Char)
  BY TextType
<1> HIDE DEF q, DirectRec
<1>7. Removal(node, q)
  BY <1>2 DEF Removal
<1>8. WayOK(node, q)
  <2> SUFFICES ASSUME NEW F, Spells(node, F) PROVE Way(node, F, Hold(node, q.tenant), q)
    BY <1>2 DEF WayOK, Searching
  <2>1. Closed(node, Hold(node, q.tenant))
    BY <1>4, HoldClosed DEF Tidy
  <2> QED
    BY <1>2, <1>4, <1>6, <2>1, WayStart
<1> QED
  BY <1>1, <1>2, <1>3, <1>5, <1>7, <1>8, DirectStarts

\* and remove_tenant with the leaves of the tenant.
LEMMA RemoveTenantSolo ==
  ASSUME NThreads = 1, Solo, IndInv, NEW k \in Task, NEW t \in Tenant, RemoveTenant(k, t)
  PROVE  Solo'
<1> DEFINE L == {n \in Attached : t \in LeafOf(n)}
           q == [Idle EXCEPT !.pc = "remove", !.tenant = t, !.queue = L]
<1>1. /\ DirectOps /\ FreeThread /\ task' = [task EXCEPT ![k] = q]
      /\ node' = node /\ count' = count /\ epoch' = epoch /\ evict' = evict
  BY DEF RemoveTenant, treeVars
<1>2. Shape(node)
  BY DEF IndInv
<1>3. L = LeavesOf(node, t)
  BY <1>2, AttachedIs, LeafAtIs DEF LeavesOf
<1>4. L \subseteq Nat /\ L \subseteq DOMAIN node
  <2>1. ASSUME NEW n \in Att(node) PROVE n \in Nat /\ n \in DOMAIN node
    BY <1>2, AttType, NodeIndex
  <2> QED
    BY <2>1, AttachedIs
<1> HIDE DEF L
<1>5. /\ q.pc = "remove" /\ q.tenant = t /\ q.at = Root /\ q.child = Root
      /\ q.off = 0 /\ q.queue = L
  BY DEF Idle
<1>6. q \in DirectRec
  <2>1. 0 \in Stamp
    BY TreeAssumption DEF Stamp
  <2> HIDE DEF Stamp
  <2> QED
    BY <1>4, <2>1 DEF Idle, DirectRec, Root
<1> HIDE DEF q, DirectRec
<1>7. Removal(node, q)
  BY <1>3, <1>5 DEF Removal
<1>8. WayOK(node, q) /\ q.pc \notin TenantSearching
  BY <1>5, NoWay DEF Searching, TenantSearching
<1> QED
  BY <1>1, <1>4, <1>5, <1>6, <1>7, <1>8, DirectStarts

\* A step of remove_tenant in a tree with the same nodes.
LEMMA RemovalGoesOn ==
  ASSUME Solo, NEW k \in Task, Direct(k), task[k].pc \in {"remove", "unlink"},
         count' = count, epoch' = epoch, evict' = evict,
         NEW q, task' = [task EXCEPT ![k] = q], q \in DirectRec, q.pc \in {"remove", "unlink"},
         q.tenant = task[k].tenant, q.at \in DOMAIN node, q.child = task[k].child,
         q.off = task[k].off, q.text = task[k].text,
         Shape(node'), DOMAIN node' = DOMAIN node, Removal(node', q),
         Grounded(node'), Tidy(node', IF q.pc = "unlink" THEN {q.at} ELSE {}),
         \A t \in Tenant : t # task[k].tenant =>
           Kept(node, node', t) /\ Hold(node', t) = Hold(node, t)
  PROVE  Solo'
<1>1. /\ DirectOps /\ Shape(node) /\ Counters /\ Pass /\ ~Evicting
      /\ task \in [Task -> TaskRec \cup DirectRec] /\ DirectOK(node, epoch, task[k])
      /\ \A j \in Task \ {k} : TaskOK(node, task[j]) /\ task[j].pc = "idle"
  BY DEF Direct
<1>2. Counters'
  BY <1>1 DEF Counters
<1>3. DirectOK(node', epoch', q)
  <2>1. q.queue \subseteq LeavesOf(node', q.tenant)
    BY DEF Removal
  <2>2. q.queue \subseteq DOMAIN node'
    BY <2>1, AttType DEF LeavesOf
  <2> QED
    BY <1>1, <2>2 DEF DirectOK, TenantSearching
<1>4. WayOK(node', q)
  BY NoWay DEF Searching, TenantSearching
<1>5. ASSUME NEW t \in Tenant, q.tenant # t PROVE count'[t] = Used(node', t)
  <2>1. count[t] = Used(node, t)
    BY <1>5, DirectNow
  <2>2. Used(node', t) = Used(node, t)
    BY <1>5, UsedSame
  <2> QED
    BY <2>1, <2>2
<1> HIDE DEF TaskRec, DirectRec
<1> QED
  BY <1>1, <1>2, <1>3, <1>4, <1>5, DirectGoesOn

\* remove_tenant takes the tenant off a leaf, which leaves its parent as the only new one,
LEMMA RemoveTakeSolo ==
  ASSUME Solo, NEW k \in Task, Direct(k), NEW n, RemoveTake(k, n)
  PROVE  Solo'
<1> DEFINE r == task[k]
           t == task[k].tenant
           q == [r EXCEPT !.pc = "unlink", !.at = n, !.queue = @ \ {n}]
<1>1. /\ r.pc = "remove" /\ n \in r.queue /\ node' = Detach(node, n, t)
      /\ count' = count /\ epoch' = epoch /\ evict' = evict
  BY DEF RemoveTake, Detach, SetAccess
<1>2. /\ Shape(node) /\ task \in [Task -> TaskRec \cup DirectRec] /\ r \in DirectRec
      /\ Removal(node, r)
  BY DEF Direct, DirectOK
<1>3. DOMAIN r = {"pc", "text", "tenant", "at", "child", "off", "queue", "stamp"}
  BY <1>2, DirectTask
<1>4. task' = [task EXCEPT ![k] = q]
  BY DEF RemoveTake
<1>5. r.queue = LeavesOf(node, t)
  BY <1>1, <1>2 DEF Removal
<1>6. n \in Att(node) /\ t \in LeafAt(node, n)
  BY <1>1, <1>5 DEF LeavesOf
<1>7. n \in DOMAIN node /\ n \in Nat /\ node \in Seq(NodeRec)
  BY <1>2, <1>6, AttType, NodeIndex, ShapeNode
<1>8. /\ q.pc = "unlink" /\ q.at = n /\ q.queue = r.queue \ {n} /\ q.tenant = t
      /\ q.child = r.child /\ q.off = r.off /\ q.text = r.text
  BY <1>3
<1>9. q \in DirectRec
  BY <1>2, <1>7 DEF DirectRec
<1> HIDE DEF NodeRec, DirectRec, q, r, t
<1>10. /\ node' \in Seq(NodeRec) /\ SameLinks(node, node')
       /\ DOMAIN node'[n].access = DOMAIN node[n].access \ {t}
       /\ \A s \in DOMAIN node[n].access : s # t => node'[n].access[s] = node[n].access[s]
       /\ \A m \in DOMAIN node : m # n => node'[m].access = node[m].access
  BY <1>1, <1>7, DetachNode
<1>11. /\ Shape(node') /\ Att(node') = Att(node) /\ DOMAIN node' = DOMAIN node
       /\ Att(node) \subseteq DOMAIN node
  BY <1>2, <1>10, LinksKept, AttType
<1>12. (r.queue \ {n}) \cup Bared(node', n, t) = LeavesOf(node', t)
  <2>0. \A m \in DOMAIN node : node'[m].parent = node[m].parent
    BY <1>10 DEF SameLinks
  <2>1. ASSUME NEW m \in r.queue \ {n} PROVE m \in LeavesOf(node', t)
    <3>1. m \in Att(node) /\ m \in DOMAIN node /\ m # n /\ t \in LeafAt(node, m)
      BY <1>5, <1>11 DEF LeavesOf
    <3>2. t \in DOMAIN node'[m].access
      BY <1>10, <3>1 DEF LeafAt
    <3>3. ASSUME NEW c \in Att(node') \ {Root}, node'[c].parent = m
          PROVE  t \notin DOMAIN node'[c].access
      <4>1. c \in Att(node) \ {Root} /\ c \in DOMAIN node /\ node[c].parent = m
        BY <1>11, <2>0, <3>3
      <4>2. t \notin DOMAIN node[c].access
        BY <3>1, <4>1 DEF LeafAt
      <4> QED
        BY <1>10, <4>1, <4>2
    <3> QED
      BY <1>11, <3>1, <3>2, <3>3 DEF LeavesOf, LeafAt
  <2>2. ASSUME NEW m \in Bared(node', n, t) PROVE m \in LeavesOf(node', t)
    <3>1. n # Root /\ m = node'[n].parent /\ t \in LeafAt(node', m)
      BY DEF Bared
    <3>2. m \in Att(node')
      BY <1>2, <1>6, <1>7, <1>11, <2>0, <3>1, ParentLink
    <3> QED
      BY <3>1, <3>2 DEF LeavesOf
  <2>3. ASSUME NEW m \in LeavesOf(node', t)
        PROVE  m \in (r.queue \ {n}) \cup Bared(node', n, t)
    <3>1. m \in Att(node) /\ m \in DOMAIN node /\ t \in LeafAt(node', m)
      BY <1>11 DEF LeavesOf
    <3>2. m # n /\ t \in DOMAIN node[m].access
      BY <1>10, <3>1 DEF LeafAt
    <3>3. CASE t \in LeafAt(node, m)
      BY <1>5, <3>1, <3>2, <3>3 DEF LeavesOf
    <3>4. CASE t \notin LeafAt(node, m)
      <4>1. PICK c \in Att(node) \ {Root} : node[c].parent = m /\ t \in DOMAIN node[c].access
        BY <3>2, <3>4 DEF LeafAt
      <4>2. c \in DOMAIN node /\ c \in Att(node') \ {Root} /\ node'[c].parent = m
        BY <1>11, <2>0, <4>1
      <4>3. t \notin DOMAIN node'[c].access
        BY <3>1, <4>2 DEF LeafAt
      <4>4. c = n
        BY <1>10, <4>1, <4>2, <4>3
      <4> QED
        BY <3>1, <4>1, <4>2, <4>4 DEF Bared
    <3> QED
      BY <3>3, <3>4
  <2> QED
    BY <2>1, <2>2, <2>3
<1>13. Removal(node', q)
  BY <1>6, <1>8, <1>11, <1>12 DEF Removal
<1>14. Forgotten(node') <=> Forgotten(node)
  BY <1>6, <1>10, <1>11 DEF Forgotten
<1>15. Tidy(node, {}) /\ Grounded(node)
  BY <1>1, DirectNow DEF r
<1>16. Grounded(node')
  BY <1>2, <1>10, <1>15, GroundKept
<1>17. Neat(node', {n})
  BY <1>2, <1>6, <1>10, <1>15, NeatLoss DEF Tidy
<1>18. Spelled(node')
  BY <1>10, <1>11, <1>15, SpelledKept DEF Tidy, SameLinks
<1>19. ASSUME NEW s \in Tenant, s # t
       PROVE  Kept(node, node', s) /\ Hold(node', s) = Hold(node, s)
  <2>1. \A m \in DOMAIN node : s \in DOMAIN node'[m].access <=> s \in DOMAIN node[m].access
    BY <1>10, <1>19
  <2> QED
    BY <1>2, <1>10, <1>11, <2>1, AccessKept
<1>20. Tidy(node', IF q.pc = "unlink" THEN {q.at} ELSE {})
  BY <1>8, <1>14, <1>15, <1>17, <1>18 DEF Tidy
<1> QED
  BY <1>1, <1>4, <1>7, <1>8, <1>9, <1>11, <1>13, <1>16, <1>19, <1>20, RemovalGoesOn
     DEF r, t

\* which the next step finds,
LEMMA RemoveUnlinkSolo ==
  ASSUME Solo, NEW k \in Task, Direct(k), RemoveUnlink(k)
  PROVE  Solo'
<1> DEFINE r == task[k]
           t == task[k].tenant
           n == task[k].at
           B == NewLeaf(n, t)
           q == [r EXCEPT !.pc = "remove", !.queue = @ \cup B]
<1>1. /\ r.pc = "unlink" /\ node' = Unlinked(n)
      /\ count' = count /\ epoch' = epoch /\ evict' = evict
  BY DEF RemoveUnlink
<1>2. /\ Shape(node) /\ task \in [Task -> TaskRec \cup DirectRec] /\ r \in DirectRec
      /\ Removal(node, r)
  BY DEF Direct, DirectOK
<1>3. DOMAIN r = {"pc", "text", "tenant", "at", "child", "off", "queue", "stamp"}
  BY <1>2, DirectTask
<1>4. task' = [task EXCEPT ![k] = q]
  BY DEF RemoveUnlink
<1>5. n \in Att(node) /\ r.queue \cup Bared(node, n, t) = LeavesOf(node, t)
  BY <1>1, <1>2 DEF Removal
<1>6. B = Bared(node, n, t)
  <2>1. ASSUME n # Root
        PROVE  LET p == node[n].parent
               IN  (Has(p, t) /\ \A c \in Children(p) : ~Has(c, t)) <=> t \in LeafAt(node, p)
    <3> DEFINE p == node[n].parent
    <3>1. p \in Att(node)
      BY <1>2, <1>5, <2>1, ParentLink
    <3>2. t \in LeafAt(node, p) <=> t \in LeafOf(p)
      BY <1>2, <3>1, LeafAtIs
    <3> HIDE DEF p
    <3>3. (Has(p, t) /\ \A c \in Children(p) : ~Has(c, t)) <=> t \in LeafAt(node, p)
      BY <3>2 DEF LeafOf, Has
    <3> QED
      BY <3>3 DEF p
  <2> QED
    BY <2>1 DEF NewLeaf, Bared
<1>7. n \in DOMAIN node /\ \A m \in Att(node) : m \in Nat
  BY <1>2, <1>5, AttType, NodeIndex
<1>8. r.queue \cup B = LeavesOf(node, t) /\ LeavesOf(node, t) \subseteq Nat
  BY <1>5, <1>6, <1>7 DEF LeavesOf
<1> HIDE DEF B
<1>9. /\ q.pc = "remove" /\ q.at = n /\ q.queue = r.queue \cup B /\ q.tenant = t
      /\ q.child = r.child /\ q.off = r.off /\ q.text = r.text
  BY <1>3
<1>10. q \in DirectRec
  BY <1>2, <1>8 DEF DirectRec
<1> HIDE DEF NodeRec, DirectRec, q, r, t, n
<1>11. /\ Shape(node') /\ DOMAIN node' = DOMAIN node /\ SameAccess(node, node')
       /\ \A m \in DOMAIN node : node'[m].parent = node[m].parent /\ node'[m].text = node[m].text
       /\ Att(node') \subseteq Att(node)
       /\ \A m \in Att(node) : DOMAIN node[m].access # {} => m \in Att(node')
       /\ Att(node) \subseteq DOMAIN node
  BY <1>1, <1>2, <1>5, AttUnlinks, AttType DEF Pruned
<1>12. \A m \in DOMAIN node : node'[m].access = node[m].access
  BY <1>11 DEF SameAccess
<1>13. LeavesOf(node', t) = LeavesOf(node, t)
  <2>1. ASSUME NEW m \in LeavesOf(node, t) PROVE m \in LeavesOf(node', t)
    <3>1. m \in Att(node) /\ m \in DOMAIN node /\ t \in LeafAt(node, m)
      BY <1>11 DEF LeavesOf
    <3>2. m \in Att(node') /\ t \in DOMAIN node'[m].access
      BY <1>11, <1>12, <3>1 DEF LeafAt
    <3> QED
      BY <1>11, <1>12, <3>1, <3>2 DEF LeavesOf, LeafAt
  <2>2. ASSUME NEW m \in LeavesOf(node', t) PROVE m \in LeavesOf(node, t)
    <3>1. m \in Att(node) /\ m \in DOMAIN node /\ t \in LeafAt(node', m)
      BY <1>11 DEF LeavesOf
    <3>2. ASSUME NEW c \in Att(node) \ {Root}, node[c].parent = m
          PROVE  t \notin DOMAIN node[c].access
      <4> SUFFICES ASSUME t \in DOMAIN node[c].access PROVE FALSE
        OBVIOUS
      <4>1. c \in DOMAIN node /\ c \in Att(node') /\ node'[c].parent = m
            /\ node'[c].access = node[c].access
        BY <1>11, <1>12, <3>2
      <4> QED
        BY <3>1, <3>2, <4>1 DEF LeafAt
    <3>3. t \in DOMAIN node[m].access
      BY <1>12, <3>1 DEF LeafAt
    <3> QED
      BY <3>1, <3>2, <3>3 DEF LeavesOf, LeafAt
  <2> QED
    BY <2>1, <2>2
<1>14. Removal(node', q)
  BY <1>8, <1>9, <1>13 DEF Removal
<1>15. Tidy(node, {n}) /\ Grounded(node)
  BY <1>1, DirectNow DEF r, n
<1>16. Grounded(node')
  BY <1>11, <1>15, GroundSub
<1>17. Tidy(node', IF q.pc = "unlink" THEN {q.at} ELSE {})
  BY <1>1, <1>2, <1>5, <1>9, <1>15, UnlinkTidy
<1>18. ASSUME NEW s \in Tenant
       PROVE  Kept(node, node', s) /\ Hold(node', s) = Hold(node, s)
  <2>1. Hold(node', s) = Hold(node, s)
    BY <1>11, <1>12 DEF Hold
  <2> QED
    BY <1>11, <2>1 DEF Kept, Hold
<1> QED
  BY <1>1, <1>4, <1>7, <1>9, <1>10, <1>11, <1>14, <1>16, <1>17, <1>18, RemovalGoesOn
     DEF r, t

\* A tenant without leaves has no nodes.
LEMMA NothingLeft ==
  ASSUME NEW N, Grounded(N), NEW t, LeavesOf(N, t) = {}
  PROVE  Hold(N, t) = {}
<1> SUFFICES ASSUME Hold(N, t) # {} PROVE FALSE
  OBVIOUS
<1>1. Hold(N, t) \in SUBSET Att(N)
  BY DEF Hold
<1>2. PICK n \in Hold(N, t) : \A m \in Hold(N, t) \ {Root} : N[m].parent # n
  BY <1>1 DEF Grounded, Descends
<1>3. n \in LeavesOf(N, t)
  BY <1>2 DEF Hold, LeavesOf, LeafAt
<1> QED
  BY <1>3

\* until nothing of the tenant is left, and nothing is charged to it.
LEMMA RemoveEndSolo ==
  ASSUME Solo, NEW k \in Task, Direct(k), RemoveEnd(k)
  PROVE  Solo'
<1> DEFINE t == task[k].tenant
<1>1. /\ task[k].pc = "remove" /\ task[k].queue = {} /\ count' = [count EXCEPT ![t] = 0]
      /\ task' = [task EXCEPT ![k] = Idle] /\ node' = node /\ epoch' = epoch /\ evict' = evict
  BY DEF RemoveEnd
<1>2. /\ Shape(node) /\ Counters /\ task[k] \in DirectRec /\ Removal(node, task[k])
      /\ epoch <= MaxEpoch
  BY DEF Direct, DirectOK
<1>3. t \in Tenant
  BY <1>2, DirectTask
<1>4. LeavesOf(node, t) = {}
  BY <1>1, <1>2 DEF Removal
<1>5. /\ Tidy(node, {}) /\ Grounded(node)
      /\ \A s \in Tenant : s # t => count[s] = Used(node, s)
  BY <1>1, DirectNow
<1>6. Hold(node, t) = {}
  BY <1>4, <1>5, NothingLeft
<1>7. Used(node, t) = 0
  BY <1>6, NoNodesNoSize DEF Used
<1>8. count \in [Tenant -> Nat]
  BY <1>2 DEF Counters
<1>9. Counters'
  BY <1>1, <1>2, <1>8 DEF Counters
<1>10. TaskOK(node, Idle) /\ Idle.pc = "idle"
  BY <1>2, IdleOK DEF Idle
<1> HIDE DEF t, DirectRec, Idle
<1>11. \A s \in Tenant : count'[s] = Used(node', s)
  BY <1>1, <1>3, <1>5, <1>7, <1>8
<1> QED
  BY <1>1, <1>2, <1>5, <1>9, <1>10, <1>11, DirectReturns

\* A step of prefix_match_tenant that leaves the tree alone.
LEMMA SearchGoesOn ==
  ASSUME Solo, NEW k \in Task, Direct(k), task[k].pc \in TenantSearching,
         node' = node, count' = count, epoch' = epoch, evict' = evict,
         NEW q, task' = [task EXCEPT ![k] = q], q \in DirectRec, q.pc \in TenantSearching,
         q.at \in DOMAIN node, q.child \in DOMAIN node, q.off <= Len(q.text),
         q.queue = task[k].queue, WayOK(node, q)
  PROVE  Solo'
<1>1. /\ DirectOps /\ Shape(node) /\ Counters /\ Pass /\ ~Evicting
      /\ task \in [Task -> TaskRec \cup DirectRec] /\ DirectOK(node, epoch, task[k])
      /\ \A j \in Task \ {k} : TaskOK(node, task[j]) /\ task[j].pc = "idle"
  BY DEF Direct
<1>2. Counters'
  BY <1>1 DEF Counters
<1>3. task[k].pc \notin {"remove", "unlink"} /\ q.pc \notin {"remove", "unlink"}
  BY DEF TenantSearching
<1>4. DirectOK(node', epoch', q)
  BY <1>1, <1>3 DEF DirectOK, Removal
<1>5. Tidy(node', {}) /\ Grounded(node') /\ \A t \in Tenant : count'[t] = Used(node', t)
  BY <1>3, DirectNow
<1> HIDE DEF TaskRec, DirectRec
<1> QED
  BY <1>1, <1>2, <1>3, <1>4, <1>5, DirectGoesOn

\* prefix_match_tenant looks for a child that the tenant holds,
LEMMA TenantGetSolo ==
  ASSUME Solo, NEW k \in Task, Direct(k), TenantGet(k)
  PROVE  Solo'
<1> DEFINE r == task[k]
           n == ChildOf(k)
           S == Hold(node, r.tenant)
           own == Remaining(k) # << >> /\ ~Vacant(k) /\ OwnNode(k, n)
           q == IF own THEN [r EXCEPT !.pc = "tenant_read", !.child = n]
                       ELSE [r EXCEPT !.pc = "tenant_touch"]
<1>1. /\ r.pc = "tenant_walk" /\ node' = node
      /\ count' = count /\ epoch' = epoch /\ evict' = evict
  BY DEF TenantGet, treeVars
<1>2. /\ Shape(node) /\ task \in [Task -> TaskRec \cup DirectRec] /\ r \in DirectRec
      /\ r.at \in DOMAIN node /\ r.child \in DOMAIN node /\ r.off <= Len(r.text)
  BY DEF Direct, DirectOK
<1>3. /\ DOMAIN r = {"pc", "text", "tenant", "at", "child", "off", "queue", "stamp"}
      /\ r.text \in Seq(Char) /\ r.off \in Nat
  BY <1>2, DirectTask
<1>4. task' = [task EXCEPT ![k] = q]
  BY DEF TenantGet
<1>5. Tidy(node, {}) /\ Climbs(node) /\ WayOK(node, r) /\ Spelled(node)
  BY <1>1, DirectNow DEF Tidy
<1>6. Closed(node, S)
  BY <1>2, <1>5, HoldClosed DEF Tidy
<1>7. \A F : Spells(node, F) => Way(node, F, S, r)
  BY <1>1, <1>5 DEF WayOK, TenantSearching
<1>8. r.at \in Att(node)
  <2>1. Spells(node, Path)
    BY <1>2, <1>5, PathSpells
  <2>2. r.at \in S \cup {Root}
    BY <1>7, <2>1 DEF Way
  <2> QED
    BY <1>6, <2>2, AttIs DEF Closed
<1>9. IF Remaining(k) = << >> \/ Vacant(k)
      THEN r.off < Len(r.text) =>
             \A m \in Att(node) \ {Root} : node[m].parent = r.at => node[m].text[1] # r.text[r.off + 1]
      ELSE /\ n \in Att(node) \ {Root} /\ node[n].parent = r.at
           /\ r.off < Len(r.text) /\ node[n].text[1] = r.text[r.off + 1]
           /\ \A m \in Att(node) \ {Root} :
                node[m].parent = r.at /\ node[m].text[1] = r.text[r.off + 1] => m = n
  BY <1>2, <1>3, <1>8, LookUp
<1>10. S \subseteq Att(node) /\ (n \in Att(node) => (n \in S <=> OwnNode(k, n)))
  BY DEF Hold, OwnNode, Has
<1>11. CASE own
  <2>1. /\ n \in S \ {Root} /\ node[n].parent = r.at
        /\ r.off < Len(r.text) /\ node[n].text[1] = r.text[r.off + 1] /\ n \in DOMAIN node
        /\ n \in Nat
    BY <1>2, <1>9, <1>10, <1>11, AttType, NodeIndex
  <2>2. q = [r EXCEPT !.pc = "tenant_read", !.child = n]
    BY <1>11
  <2> HIDE DEF n, own, q
  <2>3. /\ q.pc = "tenant_read" /\ q.child = n /\ q.text = r.text /\ q.at = r.at
        /\ q.off = r.off /\ q.tenant = r.tenant /\ q.queue = r.queue
    BY <1>3, <2>2
  <2>4. q \in DirectRec
    BY <1>2, <2>1, <2>2 DEF DirectRec
  <2> HIDE DEF r, S
  <2>5. ASSUME NEW F, Spells(node, F) PROVE Way(node, F, S, q)
    <3>1. Way(node, F, S, r)
      BY <1>7, <2>5
    <3> QED
      BY <1>1, <2>1, <2>3, <3>1, WayChild
  <2>6. WayOK(node, q)
    BY <2>3, <2>5 DEF WayOK, Searching, S
  <2>7. q.pc \in TenantSearching /\ r.pc \in TenantSearching
    BY <1>1, <2>3 DEF TenantSearching
  <2> QED
    BY <1>1, <1>2, <1>4, <2>1, <2>3, <2>4, <2>6, <2>7, SearchGoesOn DEF r
<1>12. CASE ~own
  <2>1. r.off < Len(r.text) =>
          \A m \in S \ {Root} : node[m].parent = r.at => node[m].text[1] # r.text[r.off + 1]
    BY <1>9, <1>10, <1>12
  <2>2. q = [r EXCEPT !.pc = "tenant_touch"]
    BY <1>12
  <2> HIDE DEF n, own, q
  <2>3. /\ q.pc = "tenant_touch" /\ q.child = r.child /\ q.text = r.text /\ q.at = r.at
        /\ q.off = r.off /\ q.tenant = r.tenant /\ q.queue = r.queue
    BY <1>3, <2>2
  <2>4. q \in DirectRec
    BY <1>2, <2>2 DEF DirectRec
  <2> HIDE DEF r, S
  <2>5. ASSUME NEW F, Spells(node, F) PROVE Way(node, F, S, q)
    <3>1. Way(node, F, S, r)
      BY <1>7, <2>5
    <3> QED
      BY <1>1, <1>2, <1>3, <1>5, <1>6, <2>1, <2>3, <2>5, <3>1, WayEnds
  <2>6. WayOK(node, q)
    BY <2>3, <2>5 DEF WayOK, Searching, S
  <2>7. q.pc \in TenantSearching /\ r.pc \in TenantSearching
    BY <1>1, <2>3 DEF TenantSearching
  <2> QED
    BY <1>1, <1>2, <1>4, <2>3, <2>4, <2>6, <2>7, SearchGoesOn DEF r
<1> QED
  BY <1>11, <1>12

\* compares its text,
LEMMA TenantReadSolo ==
  ASSUME Solo, NEW k \in Task, Direct(k), TenantRead(k)
  PROVE  Solo'
<1> DEFINE r == task[k]
           n == r.child
           S == Hold(node, r.tenant)
           j == SharedCount(Advance(r.text, r.off), node[n].text)
           next == IF j = Len(node[n].text) THEN "tenant_walk" ELSE "tenant_touch"
           q == [r EXCEPT !.pc = next, !.at = n, !.off = @ + j]
<1>1. /\ r.pc = "tenant_read" /\ node' = node
      /\ count' = count /\ epoch' = epoch /\ evict' = evict
  BY DEF TenantRead, treeVars
<1>2. /\ Shape(node) /\ task \in [Task -> TaskRec \cup DirectRec] /\ r \in DirectRec
      /\ n \in DOMAIN node /\ r.off <= Len(r.text)
  BY DEF Direct, DirectOK
<1>3. /\ DOMAIN r = {"pc", "text", "tenant", "at", "child", "off", "queue", "stamp"}
      /\ r.text \in Seq(Char) /\ r.off \in Nat
  BY <1>2, DirectTask
<1>4. task' = [task EXCEPT ![k] = q]
  BY DEF TenantRead, Remaining
<1>5. Tidy(node, {}) /\ Climbs(node) /\ WayOK(node, r)
  BY <1>1, DirectNow DEF Tidy
<1>6. Closed(node, S)
  BY <1>2, <1>5, HoldClosed DEF Tidy
<1>7. \A F : Spells(node, F) => Way(node, F, S, r)
  BY <1>1, <1>5 DEF WayOK, TenantSearching
<1>8. j \in Nat /\ j <= Len(r.text) - r.off
  <2> DEFINE rest == Advance(r.text, r.off)
  <2>1. rest \in Seq(Char) /\ Len(rest) = Len(r.text) - r.off
    BY <1>2, <1>3, HalfText
  <2>2. node[n].text \in Seq(Char)
    BY <1>2, ShapeNode, NodeType
  <2>3. j = SharedCount(rest, node[n].text)
    OBVIOUS
  <2> HIDE DEF rest, j
  <2>4. j \in 0 .. Len(rest)
    BY <2>1, <2>2, <2>3, SharedCountIs
  <2> QED
    BY <2>1, <2>4
<1> HIDE DEF j
<1>9. /\ q.pc = next /\ q.at = n /\ q.off = r.off + j /\ q.child = n /\ q.text = r.text
      /\ q.tenant = r.tenant /\ q.queue = r.queue
  BY <1>3
<1>10. n \in Nat /\ next \in {"tenant_walk", "tenant_touch"}
  BY <1>2, NodeIndex
<1>11. r.off + j \in Nat /\ r.off + j <= Len(r.text)
  <2>1. Len(r.text) \in Nat
    BY <1>3
  <2> QED
    BY <1>2, <1>3, <1>8, <2>1
<1> HIDE DEF next
<1>12. q \in DirectRec
  BY <1>2, <1>10, <1>11 DEF DirectRec
<1>13. \/ j = Len(node[n].text) /\ q.pc \in {"walk", "tenant_walk"}
       \/ j # Len(node[n].text) /\ q.pc \in {"pick", "tenant_touch"}
  BY <1>9 DEF next
<1>14. q.pc \in TenantSearching /\ r.pc \in TenantSearching
  BY <1>1, <1>9, <1>10 DEF TenantSearching
<1> HIDE DEF q
<1>15. ASSUME NEW F, Spells(node, F) PROVE Way(node, F, S, q)
  <2>1. Way(node, F, S, r)
    BY <1>7, <1>15
  <2>2. q.at = r.child /\ r.pc \in {"read", "tenant_read"}
        /\ j = SharedCount(Advance(r.text, r.off), node[r.child].text)
    BY <1>1, <1>9 DEF j
  <2> HIDE DEF r, S
  <2> QED
    BY <1>2, <1>3, <1>5, <1>6, <1>9, <1>13, <1>15, <2>1, <2>2, WayReads
<1>16. WayOK(node, q)
  BY <1>9, <1>14, <1>15 DEF WayOK, Searching, TenantSearching
<1> QED
  BY <1>1, <1>2, <1>4, <1>9, <1>11, <1>12, <1>14, <1>16, SearchGoesOn

\* and takes an epoch for the timestamp where it ends.
LEMMA TenantTouchSolo ==
  ASSUME Solo, NEW k \in Task, Direct(k), TenantTouch(k)
  PROVE  Solo'
<1> DEFINE r == task[k]
           q == [r EXCEPT !.pc = "stamp", !.stamp = epoch]
<1>1. /\ r.pc = "tenant_touch" /\ node' = node /\ count' = count /\ evict' = evict
      /\ \/ task' = [task EXCEPT ![k] = Idle] /\ epoch' = epoch
         \/ /\ r.tenant \in DOMAIN node[r.at].access
            /\ task' = [task EXCEPT ![k] = q] /\ epoch' = epoch + 1
  BY DEF TenantTouch, Draw, Has
<1>2. /\ Shape(node) /\ Counters /\ r \in DirectRec /\ r.at \in DOMAIN node
      /\ r.child \in DOMAIN node /\ r.off <= Len(r.text)
      /\ epoch < MaxEpoch /\ r.queue = {}
  BY <1>1 DEF Direct, DirectOK, TenantSearching
<1>3. epoch \in Nat /\ MaxEpoch \in Nat /\ epoch \in Stamp /\ epoch + 1 <= MaxEpoch
  BY <1>2, TreeAssumption DEF Counters, Stamp
<1>4. /\ Tidy(node, {}) /\ Grounded(node)
      /\ \A s \in Tenant : count[s] = Used(node, s)
  BY <1>1, DirectNow
<1>5. Counters'
  BY <1>1, <1>2, <1>3 DEF Counters
<1>6. CASE task' = [task EXCEPT ![k] = Idle] /\ epoch' = epoch
  <2>1. TaskOK(node, Idle) /\ Idle.pc = "idle"
    BY <1>2, IdleOK, IdleType DEF Idle
  <2>2. epoch' <= MaxEpoch
    BY <1>3, <1>6
  <2> HIDE DEF Idle
  <2> QED
    BY <1>1, <1>2, <1>4, <1>5, <1>6, <2>1, <2>2, DirectReturns
<1>7. CASE /\ r.tenant \in DOMAIN node[r.at].access
           /\ task' = [task EXCEPT ![k] = q] /\ epoch' = epoch + 1
  <2>1. /\ DOMAIN r = {"pc", "text", "tenant", "at", "child", "off", "queue", "stamp"}
        /\ r.tenant \in Tenant
    BY <1>2, DirectTask
  <2>2. /\ q.pc = "stamp" /\ q.at = r.at /\ q.child = r.child /\ q.off = r.off
        /\ q.text = r.text /\ q.tenant = r.tenant
    BY <2>1
  <2>3. q \in TaskRec
    <3> HIDE DEF Stamp
    <3> QED
      BY <1>2, <1>3 DEF DirectRec, TaskRec, Holder
  <2> HIDE DEF q, r, TaskRec, DirectRec
  <2>4. TaskOK(node, q)
    BY <1>2, <2>1, <2>2, <2>3 DEF TaskOK, Holder
  <2>5. epoch' <= MaxEpoch
    BY <1>3, <1>7
  <2> QED
    BY <1>1, <1>2, <1>4, <1>5, <1>7, <2>2, <2>4, <2>5, DirectReturns
<1> QED
  BY <1>1, <1>6, <1>7

----------------------------------------------------------------------------
(* The invariant of one worker thread. *)

\* Every step of every operation keeps it.
LEMMA SoloStep ==
  ASSUME NThreads = 1, Solo, [Next]_vars
  PROVE  Solo'
<1>1. CASE IndInv /\ Accounts
  <2>1. CASE [RouterNext]_vars
    <3>1. IndInv' /\ Accounts'
      BY <1>1, <2>1, NextInv, NextAccounts
    <3>2. Climbs(node') /\ Grounded(node')
      BY <3>1 DEF Accounts, Grounded
    <3>3. Quiet'
      BY <1>1, <2>1, <3>1, <3>2, QuietStep1 DEF Solo
    <3>4. Exact'
      BY <1>1, <2>1, <3>1, ExactStep DEF Solo, Quiet, Tidy
    <3> QED
      BY <3>1, <3>2, <3>3, <3>4 DEF Solo
  <2> QED
    BY <1>1, <2>1, RouterStep, MatchTenantSolo, RemoveTenantSolo
<1>2. ASSUME NEW k \in Task, Direct(k) PROVE Solo'
  <2>1. CASE UNCHANGED vars
    <3>1. node' = node /\ count' = count /\ epoch' = epoch /\ task' = task /\ evict' = evict
      BY <2>1 DEF vars, treeVars
    <3>2. Direct(k)'
      BY <1>2, <3>1 DEF Direct, Counters, Pass, Evicting
    <3>3. Quiet' /\ Exact' /\ Grounded(node')
      BY <3>1 DEF Solo, Quiet, Exact, Leaving, Alone, Fresh, Ways, Loose, Evicting
    <3> QED
      BY <3>2, <3>3 DEF Solo
  <2>2. CASE DirectStep(k)
    BY <1>2, <2>2, RemoveTakeSolo, RemoveUnlinkSolo, RemoveEndSolo, TenantGetSolo,
       TenantReadSolo, TenantTouchSolo DEF DirectStep
  <2> QED
    BY <1>2, <2>1, <2>2, DirectOnly
<1> QED
  BY <1>1, <1>2 DEF Solo

\* At first nothing runs, and the root is all there is.
LEMMA SoloInit ==
  ASSUME Init
  PROVE  Solo
<1>1. \A k \in Task : task[k].pc = "idle"
  BY DEF Init, Idle
<1>2. evict.pc = "wait"
  BY DEF Init
<1>3. Alone /\ Fresh
  BY <1>1, <1>2 DEF Alone, Fresh, Evicting
<1>4. Scanned(node, evict, count)
  BY <1>2, NoPassScanned
<1>5. IndInv /\ Accounts /\ Shape(node)
  BY InitInv, InitAccounts DEF IndInv
<1>6. DOMAIN node = {Root} /\ node[Root].text = << >>
  BY DEF Init, NewNode, Root
<1>7. Att(node) \subseteq {Root}
  BY <1>5, <1>6, AttType
<1>8. Neat(node, Loose) /\ Forgotten(node)
  BY <1>6, <1>7, AttIs DEF Neat, Forgotten
<1>9. Spelled(node)
  <2> DEFINE F == [n \in {Root} |-> << >>]
  <2>1. F \in [{Root} -> Seq(Char)] /\ F[Root] = << >>
    OBVIOUS
  <2> HIDE DEF F
  <2>2. SolvedBy(node, F)
    BY <1>6, <2>1 DEF SolvedBy
  <2> QED
    BY <2>2 DEF Spelled
<1>10. Ways
  BY <1>1, NoWay DEF Ways, Searching, TenantSearching
<1>11. ASSUME NEW t \in Tenant PROVE count[t] = Used(node, t)
  <2>1. count[t] = 0
    BY DEF Init
  <2>2. Hold(node, t) \in SUBSET {Root}
    BY <1>5, <1>6, HoldType
  <2>3. Cells(node, Hold(node, t)) = {}
    <3> SUFFICES ASSUME NEW x \in Cells(node, Hold(node, t)) PROVE FALSE
      OBVIOUS
    <3>1. x \in {Root} \X (1 .. Len(node[Root].text))
      BY <2>2, CellIs
    <3>2. 1 .. Len(node[Root].text) = {}
      BY <1>6
    <3> QED
      BY <3>1, <3>2
  <2> QED
    BY <2>1, <2>3, FS_EmptySet DEF Used, Size
<1> QED
  BY <1>3, <1>4, <1>5, <1>8, <1>9, <1>10, <1>11
     DEF Solo, Quiet, Exact, Tidy, Accounts, Grounded

\* On one worker thread, with all the operations of Tree: operations do not overlap, counts
\* are exact but for a tenant that is being removed, whoever holds a node holds its parent,
\* a pass and a removal know every leaf that they still have to look at, and a match has
\* matched as much as the tree has.
THEOREM OneThreadInvariance ==
  ASSUME NThreads = 1
  PROVE  Spec => []Solo
<1>1. Init => Solo
  BY SoloInit
<1>2. Solo /\ [Next]_vars => Solo'
  BY SoloStep
<1> QED
  BY <1>1, <1>2, PTL DEF Spec

\* Who may be in which operation.
LEMMA WhoRuns ==
  ASSUME Solo, NEW k \in Task
  PROVE  /\ task[k].pc \in {"remove", "unlink"} \cup TenantSearching => Direct(k)
         /\ task[k].pc \in Searching \/ Evicting => IndInv /\ Accounts
<1>1. ASSUME IndInv PROVE task[k].pc \notin {"remove", "unlink"} \cup TenantSearching
  <2>1. task[k] \in TaskRec
    BY <1>1, TaskDomain
  <2> QED
    BY <2>1 DEF TaskRec, TenantSearching
<1>2. ASSUME NEW j \in Task, Direct(j)
      PROVE  /\ ~Evicting /\ task[k].pc \notin Searching
             /\ k # j => task[k].pc = "idle"
  <2>1. task[j].pc \in {"remove", "unlink"} \cup TenantSearching
    BY <1>2, DirectTask DEF Direct, DirectOK
  <2>2. ~Evicting /\ (k # j => task[k].pc = "idle")
    BY <1>2 DEF Direct
  <2> QED
    BY <2>1, <2>2 DEF Searching, TenantSearching
<1> QED
  BY <1>1, <1>2 DEF Solo, TenantSearching

\* The records and the links of the tree are in order in the middle of remove_tenant and
\* prefix_match_tenant, too.
THEOREM OneThreadTree ==
  ASSUME NThreads = 1
  PROVE  Spec => [](TypeOK /\ LinksAgree)
<1>1. ASSUME NEW k \in Task, Direct(k) PROVE TypeOK
  <2>1. /\ Shape(node) /\ Counters /\ Pass /\ ~Evicting /\ DirectOK(node, epoch, task[k])
        /\ \A j \in Task \ {k} : TaskOK(node, task[j]) /\ task[j].pc = "idle"
    BY <1>1 DEF Direct
  <2>2. count \in [Tenant -> Nat] /\ epoch \in 0 .. MaxEpoch
    BY <2>1, TreeAssumption DEF Counters, DirectOK
  <2>3. ASSUME NEW j \in Task
        PROVE  /\ task[j].pc \in {"idle", "lock", "insert", "walk", "read", "pick", "touch",
                                  "remove", "unlink", "tenant_walk", "tenant_read", "tenant_touch"}
                                 \cup Drawn
               /\ task[j].at \in Nodes /\ task[j].child \in Nodes
               /\ task[j].queue \subseteq Nodes
               /\ task[j].off \in 0 .. Len(task[j].text)
               /\ task[j].stamp \in 0 .. MaxEpoch
    <3>1. CASE j = k
      <4>1. task[k] \in DirectRec
        BY <2>1 DEF DirectOK
      <4>2. /\ task[k].pc \in {"remove", "unlink"} \cup TenantSearching
            /\ task[k].text \in Seq(Char) /\ task[k].off \in Nat
            /\ task[k].stamp \in 0 .. MaxEpoch
        BY <4>1, DirectTask DEF Stamp
      <4>3. task[k].off \in 0 .. Len(task[k].text)
        BY <2>1, <4>2 DEF DirectOK
      <4> QED
        BY <2>1, <3>1, <4>2, <4>3 DEF DirectOK, TenantSearching, Nodes
    <3>2. CASE j # k
      <4>1. TaskOK(node, task[j]) /\ task[j] \in TaskRec /\ task[j].pc = "idle"
        BY <2>1, <3>2 DEF TaskOK
      <4>2. /\ task[j].text \in Text \cup {<< >>} /\ task[j].off \in Nat /\ task[j].queue = {}
            /\ task[j].stamp \in 0 .. MaxEpoch
        BY <4>1 DEF TaskRec, Stamp
      <4>3. Len(task[j].text) \in Nat
        BY <4>2, TextType
      <4> QED
        BY <4>1, <4>2, <4>3 DEF TaskOK, Nodes
    <3> QED
      BY <3>1, <3>2
  <2>4. evict.pc \in {"wait", "pop", "prune", "stopped"}
    BY <2>1 DEF Pass
  <2> QED
    BY <2>1, <2>2, <2>3, <2>4, NodesTyped DEF TypeOK
<1>2. Solo => TypeOK /\ LinksAgree
  BY <1>1, Typed, Linked DEF Solo, IndInv, Direct
<1> QED
  BY <1>2, OneThreadInvariance, PTL

\* "Maintained counts should match computed counts": on one worker thread they do, after
\* every step of every operation and pass.
THEOREM OneThreadCountExact ==
  ASSUME NThreads = 1
  PROVE  Spec => []CountExact
<1>1. Solo => CountExact
  BY UsedIs DEF Solo, Exact, Leaving, CountExact
<1> QED
  BY <1>1, OneThreadInvariance, PTL

\* On one worker thread a pass brings every tenant down to the limit, although it
\* looks only at the leaves of its first scan and at the parents of what it takes.
THEOREM OneThreadPassMeetsLimit ==
  ASSUME NThreads = 1
  PROVE  Spec => []PassMeetsLimit
<1>1. Solo => PassMeetsLimit
  <2> SUFFICES ASSUME Solo, PassDone, NEW t \in Tenant
               PROVE  UsedSize(t) <= evict.limit
    BY DEF PassMeetsLimit
  <2>1. evict.pc = "pop" /\ DOMAIN evict.heap = {} /\ Evicting
    BY DEF PassDone, BagToSet, Evicting
  <2>2. IndInv /\ Grounded(node)
    BY <2>1 DEF Solo, Direct
  <2>3. count[t] \in Nat /\ evict.limit \in Nat
    BY <2>2 DEF IndInv, Counters, Pass
  <2>4. count[t] = UsedSize(t)
    <3>1. ~Leaving(t)
      BY <2>1 DEF Leaving, Solo, Quiet, Alone
    <3> QED
      BY <3>1, UsedIs DEF Solo, Exact
  <2>5. CASE LeavesOf(node, t) = {}
    <3>1. UsedSize(t) = 0
      BY <2>2, <2>5, NothingLeft, NoNodesNoSize, UsedIs DEF Used
    <3> QED
      BY <2>3, <3>1
  <2>6. CASE LeavesOf(node, t) # {}
    <3>1. PICK n \in Att(node) : t \in LeafAt(node, n)
      BY <2>6 DEF LeavesOf
    <3>2. ~(count[t] > evict.limit)
      BY <2>1, <3>1 DEF Solo, Quiet, Scanned, Awaits
    <3> QED
      BY <2>3, <2>4, <3>2
  <2> QED
    BY <2>5, <2>6
<1> QED
  BY <1>1, OneThreadInvariance, PTL

\* When remove_tenant returns, the tenant holds no node of the tree, and every node is held
\* by somebody: it climbs from the leaves and looks at no node twice.
THEOREM OneThreadRemoveComplete ==
  ASSUME NThreads = 1
  PROVE  Spec => []RemoveComplete
<1>1. Solo => RemoveComplete
  <2> SUFFICES ASSUME Solo, NEW k \in Task, task[k].pc = "remove", task[k].queue = {},
                      NEW n \in Attached
               PROVE  /\ ~Has(n, task[k].tenant)
                      /\ n = Root \/ node[n].access # << >> \/ node[n].children # << >>
    BY DEF RemoveComplete
  <2>1. Direct(k) /\ n \in Att(node)
    BY WhoRuns, AttachedIs
  <2>2. LeavesOf(node, task[k].tenant) = {}
    BY <2>1 DEF Direct, DirectOK, Removal
  <2>3. Tidy(node, {}) /\ Grounded(node)
    BY <2>1, DirectNow
  <2>4. Hold(node, task[k].tenant) = {}
    BY <2>2, <2>3, NothingLeft
  <2>5. ~Has(n, task[k].tenant)
    BY <2>1, <2>4 DEF Hold, Has
  <2>6. n = Root \/ DOMAIN node[n].access # {}
    BY <2>1, <2>3 DEF Tidy, Neat
  <2>7. n = Root \/ node[n].access # << >>
    <3>1. DOMAIN << >> = {}
      OBVIOUS
    <3> QED
      BY <2>6, <3>1
  <2> QED
    BY <2>5, <2>7
<1> QED
  BY <1>1, OneThreadInvariance, PTL

\* What two texts share, from above and from below.
LEMMA SharedBounds ==
  ASSUME NEW x \in Seq(Char), NEW s \in Seq(Char), NEW o \in Nat
  PROVE  /\ SharedCount(x, s) \in Nat
         /\ ~Beyond(s, x, o) => SharedCount(x, s) <= o
         /\ Along(s, x, o) => SharedCount(x, s) >= o
<1> DEFINE c == SharedCount(x, s)
<1>1. /\ c \in 0 .. Len(x) /\ c <= Len(s) /\ \A i \in 1 .. c : x[i] = s[i]
      /\ c < Len(x) /\ c < Len(s) => x[c + 1] # s[c + 1]
  BY SharedCountIs
<1>2. Len(x) \in Nat /\ Len(s) \in Nat
  OBVIOUS
<1> HIDE DEF c
<1>3. c \in Nat
  BY <1>1, <1>2
<1>4. ASSUME c > o PROVE Beyond(s, x, o)
  BY <1>1, <1>2, <1>3, <1>4 DEF Beyond
<1>5. ASSUME Along(s, x, o), c < o PROVE FALSE
  <2>1. c < Len(x) /\ c < Len(s) /\ c + 1 \in 1 .. o
    BY <1>2, <1>3, <1>5 DEF Along
  <2> QED
    BY <1>1, <1>5, <2>1 DEF Along
<1>6. c \in Nat /\ (~Beyond(s, x, o) => c <= o) /\ (Along(s, x, o) => c >= o)
  BY <1>3, <1>4, <1>5
<1> QED
  BY <1>6 DEF c

\* What the end of a walk means for SharedCount.
LEMMA WayCounts ==
  ASSUME Shape(node), Spells(node, Path), NEW S, S \subseteq Att(node), NEW r,
         Way(node, Path, S, r), r.pc \in {"pick", "touch", "tenant_touch"},
         r.text \in Seq(Char), r.off \in Nat
  PROVE  /\ \A n \in S : SharedCount(r.text, Path[n]) <= r.off
         /\ r.at \in S => SharedCount(r.text, Path[r.at]) = r.off
         /\ r.at \in S \cup {Root} /\ (r.at = Root => r.off = 0)
<1> HIDE DEF Path
<1>1. /\ r.at \in S \cup {Root} /\ Along(Path[r.at], r.text, r.off)
      /\ \A n \in S : ~Beyond(Path[n], r.text, r.off)
  BY DEF Way
<1>2. \A n \in Att(node) : Path[n] \in Seq(Char)
  BY DEF Spells
<1>3. ASSUME NEW n \in S PROVE SharedCount(r.text, Path[n]) <= r.off
  BY <1>1, <1>2, SharedBounds
<1>4. ASSUME r.at \in S PROVE SharedCount(r.text, Path[r.at]) = r.off
  <2> DEFINE c == SharedCount(r.text, Path[r.at])
  <2>1. c \in Nat /\ c <= r.off /\ c >= r.off
    BY <1>1, <1>2, <1>4, SharedBounds
  <2> HIDE DEF c
  <2>2. c = r.off
    BY <2>1
  <2> QED
    BY <2>2 DEF c
<1>5. ASSUME r.at = Root PROVE r.off = 0
  <2>1. Path[r.at] = << >>
    BY <1>5 DEF Spells
  <2> QED
    BY <1>1, <2>1 DEF Along
<1> QED
  BY <1>1, <1>3, <1>4, <1>5

\* A match that no other operation disturbs returns the longest prefix that the tree shares
\* with the text, and a tenant that holds the node where it ends.
THEOREM OneThreadMatchExact ==
  ASSUME NThreads = 1
  PROVE  Spec => []MatchExact
<1>1. Solo => MatchExact
  <2> SUFFICES ASSUME Solo, NEW k \in Task, Matched(k)
               PROVE  /\ \A n \in Attached : SharedCount(task[k].text, Path[n]) <= task[k].off
                      /\ \E n \in Attached : SharedCount(task[k].text, Path[n]) = task[k].off
                      /\ DOMAIN node[task[k].at].access # {} => Has(task[k].at, task[k].tenant)
    BY DEF MatchExact
  <2>1. task[k].pc = "touch"
    BY DEF Matched
  <2>2. IndInv
    BY <2>1, WhoRuns DEF Searching
  <2>3. Shape(node) /\ Spells(node, Path)
    BY <2>2, PathSpells DEF IndInv, Solo, Quiet, Tidy
  <2>4. Way(node, Path, Att(node), task[k])
    BY <2>1, <2>3 DEF Solo, Quiet, Ways, WayOK, Searching
  <2>5. task[k].text \in Seq(Char) /\ task[k].off \in Nat
    BY <2>2, TaskText
  <2>6. /\ \A n \in Att(node) : SharedCount(task[k].text, Path[n]) <= task[k].off
        /\ task[k].at \in Att(node) => SharedCount(task[k].text, Path[task[k].at]) = task[k].off
        /\ task[k].at \in Att(node) \cup {Root}
    BY <2>1, <2>3, <2>4, <2>5, WayCounts
  <2>7. task[k].at \in Att(node)
    BY <2>6, AttIs
  <2>8. DOMAIN node[task[k].at].access # {} => Has(task[k].at, task[k].tenant)
    BY <2>1 DEF Solo, Quiet, Fresh, Has
  <2> QED
    BY <2>6, <2>7, <2>8, AttachedIs
<1> QED
  BY <1>1, OneThreadInvariance, PTL

\* prefix_match_tenant that no other operation disturbs returns the longest prefix that the
\* text shares with what the tenant has in the tree.
THEOREM OneThreadTenantMatchExact ==
  ASSUME NThreads = 1
  PROVE  Spec => []TenantMatchExact
<1>1. Solo => TenantMatchExact
  <2> SUFFICES ASSUME Solo, NEW k \in Task, task[k].pc = "tenant_touch"
               PROVE  LET own == {SharedCount(task[k].text, Path[n]) :
                                    n \in {n \in Attached : Has(n, task[k].tenant)}}
                      IN  task[k].off \in own \cup {0} /\ \A i \in own : i <= task[k].off
    BY DEF TenantMatchExact
  <2> DEFINE S == Hold(node, task[k].tenant)
  <2>1. Direct(k)
    BY WhoRuns DEF TenantSearching
  <2>2. Shape(node) /\ task[k] \in DirectRec
    BY <2>1 DEF Direct, DirectOK
  <2>3. task[k].text \in Seq(Char) /\ task[k].off \in Nat
    BY <2>2, DirectTask
  <2>4. Spells(node, Path)
    BY <2>2, PathSpells DEF Solo, Quiet, Tidy
  <2>5. Way(node, Path, S, task[k])
    BY <2>4 DEF Solo, Quiet, Ways, WayOK, TenantSearching
  <2>6. S \subseteq Att(node)
    BY DEF Hold
  <2> HIDE DEF S
  <2>7. /\ \A n \in S : SharedCount(task[k].text, Path[n]) <= task[k].off
        /\ task[k].at \in S => SharedCount(task[k].text, Path[task[k].at]) = task[k].off
        /\ task[k].at \in S \cup {Root} /\ (task[k].at = Root => task[k].off = 0)
    BY <2>2, <2>3, <2>4, <2>5, <2>6, WayCounts
  <2>8. S = {n \in Attached : Has(n, task[k].tenant)}
    BY AttachedIs DEF S, Hold, Has
  <2> QED
    BY <2>7, <2>8
<1> QED
  BY <1>1, OneThreadInvariance, PTL

=============================================================================
