-------------------------- MODULE RadixTreeProofs --------------------------
(***************************************************************************)
(* Proofs about module RadixTree: the tree as the router uses it (without  *)
(* remove_tenant and prefix_match_tenant), for any number of request       *)
(* tasks, threads and workers and any texts.                               *)
(*                                                                         *)
(* The operators below take the sequence of nodes as an argument, so that  *)
(* a lemma about them holds of the tree before a step, of the tree after   *)
(* it and of the tree in the middle of an insert.                          *)
(***************************************************************************)
EXTENDS RadixTree, TLAPS, FiniteSetTheorems, SequenceTheorems, WellFoundedInduction

\* Functions from some of D to R.
Maps(D, R) == UNION {[d -> R] : d \in SUBSET D}

Holder == Tenant \cup {Empty}
Stamp == 0 .. MaxEpoch
Accesses == Maps(Holder, Stamp)
Kids == Maps(Char, Nat)

NodeRec == [text : Seq(Char), children : Kids, parent : Nat, access : Accesses,
            last : Holder \cup {NoTenant}]

Att(N) ==
  {Root} \cup UNION {{N[n].children[c] : c \in DOMAIN N[n].children} : n \in DOMAIN N}

\* Every node but the root has a text, and a child agrees with the node that
\* has it on their link.
Shape(N) ==
  /\ N \in Seq(NodeRec) /\ Root \in DOMAIN N
  /\ N[Root].text = << >> /\ N[Root].parent = Root
  /\ \A n \in DOMAIN N : N[n].parent \in DOMAIN N /\ (n # Root => N[n].text # << >>)
  /\ \A p \in DOMAIN N : \A c \in DOMAIN N[p].children :
       /\ N[p].children[c] \in DOMAIN N \ {Root, p}
       /\ p \in Att(N)
       /\ N[N[p].children[c]].parent = p
       /\ N[N[p].children[c]].text[1] = c

----------------------------------------------------------------------------
(* Maps, sequences and bags. *)

\* Inserting into a map.
LEMMA PutMap ==
  ASSUME NEW D, NEW R, NEW f \in Maps(D, R), NEW k \in D, NEW v \in R
  PROVE  Put(f, k, v) \in Maps(D, R)
<1>1. PICK d \in SUBSET D : f \in [d -> R]
  BY DEF Maps
<1>2. Put(f, k, v) \in [d \cup {k} -> R]
  BY <1>1 DEF Put
<1>3. d \cup {k} \in SUBSET D
  OBVIOUS
<1> QED
  BY <1>2, <1>3 DEF Maps

\* Removing from a map.
LEMMA RemoveMap ==
  ASSUME NEW D, NEW R, NEW f \in Maps(D, R), NEW k
  PROVE  Remove(f, k) \in Maps(D, R)
<1>1. PICK d \in SUBSET D : f \in [d -> R]
  BY DEF Maps
<1>2. Remove(f, k) \in [d \ {k} -> R]
  BY <1>1 DEF Remove
<1>3. d \ {k} \in SUBSET D
  OBVIOUS
<1> QED
  BY <1>2, <1>3 DEF Maps

\* Keys and values of a map.
LEMMA MapType ==
  ASSUME NEW D, NEW R, NEW f \in Maps(D, R)
  PROVE  DOMAIN f \subseteq D /\ \A x \in DOMAIN f : f[x] \in R
BY DEF Maps

\* The empty map.
LEMMA EmptyMap ==
  ASSUME NEW D, NEW R
  PROVE  << >> \in Maps(D, R) /\ DOMAIN << >> = {}
<1>1. << >> \in [{} -> R] /\ {} \in SUBSET D
  OBVIOUS
<1> QED
  BY <1>1 DEF Maps

\* A map with one key.
LEMMA OneMap ==
  ASSUME NEW D, NEW R, NEW k \in D, NEW v \in R
  PROVE  [x \in {k} |-> v] \in Maps(D, R)
<1>1. [x \in {k} |-> v] \in [{k} -> R] /\ {k} \in SUBSET D
  OBVIOUS
<1> QED
  BY <1>1 DEF Maps

\* The two halves of a text.
LEMMA HalfText ==
  ASSUME NEW S, NEW s \in Seq(S), NEW n \in 0 .. Len(s)
  PROVE  /\ Take(s, n) \in Seq(S) /\ Len(Take(s, n)) = n
         /\ \A i \in 1 .. n : Take(s, n)[i] = s[i]
         /\ Advance(s, n) \in Seq(S) /\ Len(Advance(s, n)) = Len(s) - n
         /\ \A i \in 1 .. Len(s) - n : Advance(s, n)[i] = s[n + i]
<1>1. Len(s) \in Nat /\ \A i \in 1 .. Len(s) : s[i] \in S
  OBVIOUS
<1>2. \A i \in 1 .. n : s[i] \in S
  BY <1>1
<1>3. \A i \in n + 1 .. Len(s) : s[i] \in S
  BY <1>1
<1>4. n \in Int /\ n + 1 \in Int /\ 1 \in Int /\ Len(s) \in Int
  BY <1>1
<1>5. /\ Take(s, n) \in Seq(S)
      /\ Len(Take(s, n)) = IF 1 <= n THEN n - 1 + 1 ELSE 0
      /\ \A i \in 1 .. n - 1 + 1 : Take(s, n)[i] = s[1 + i - 1]
  BY <1>2, <1>4, SubSeqProperties DEF Take
<1>6. /\ Advance(s, n) \in Seq(S)
      /\ Len(Advance(s, n)) = IF n + 1 <= Len(s) THEN Len(s) - (n + 1) + 1 ELSE 0
      /\ \A i \in 1 .. Len(s) - (n + 1) + 1 : Advance(s, n)[i] = s[n + 1 + i - 1]
  BY <1>3, <1>4, SubSeqProperties DEF Advance
<1>7. /\ Len(Take(s, n)) = n /\ \A i \in 1 .. n : Take(s, n)[i] = s[i]
  BY <1>1, <1>5
<1>8. /\ Len(Advance(s, n)) = Len(s) - n
      /\ \A i \in 1 .. Len(s) - n : Advance(s, n)[i] = s[n + i]
  BY <1>1, <1>6
<1> QED
  BY <1>5, <1>6, <1>7, <1>8

\* A set of naturals that is not empty has a least member.
LEMMA LeastNatural ==
  ASSUME NEW S \in SUBSET Nat, S # {}
  PROVE  \E n \in S : \A m \in S : n <= m
<1>1. PICK n \in S : \A m \in S : <<m, n>> \notin OpToRel(<, Nat)
  <2> HIDE DEF OpToRel
  <2> QED
    BY NatLessThanWellFounded, WFMin
<1>2. \A m \in S : ~(m < n)
  BY <1>1 DEF OpToRel
<1> QED
  BY <1>2

\* shared_prefix_count does count what the texts share.
LEMMA SharedCountIs ==
  ASSUME NEW S, NEW s \in Seq(S), NEW t \in Seq(S)
  PROVE  LET k == SharedCount(s, t)
         IN  /\ k \in 0 .. Len(s) /\ k <= Len(t)
             /\ \A i \in 1 .. k : s[i] = t[i]
             /\ k < Len(s) /\ k < Len(t) => s[k + 1] # t[k + 1]
<1> DEFINE Ends == {k \in Nat : k >= Len(s) \/ k >= Len(t) \/ s[k + 1] # t[k + 1]}
<1>1. Len(s) \in Nat /\ Len(t) \in Nat
  OBVIOUS
<1>2. Len(s) \in Ends /\ Len(t) \in Ends
  BY <1>1
<1>3. PICK k \in Ends : \A m \in Ends : k <= m
  <2>1. Ends \in SUBSET Nat /\ Ends # {}
    BY <1>2
  <2> HIDE DEF Ends
  <2> QED
    BY <2>1, LeastNatural
<1>4. k \in 0 .. Len(s) /\ k <= Len(t)
  BY <1>1, <1>2, <1>3
<1>5. \A i \in 1 .. k : s[i] = t[i]
  <2> TAKE i \in 1 .. k
  <2>1. i - 1 \in Nat /\ i - 1 < k /\ i - 1 + 1 = i
    BY <1>3
  <2>2. i - 1 \notin Ends
    <3>1. k \in Nat
      BY <1>3
    <3> HIDE DEF Ends
    <3> QED
      BY <2>1, <1>3, <3>1
  <2> QED
    BY <2>1, <2>2
<1>6. k < Len(s) /\ k < Len(t) => s[k + 1] # t[k + 1]
  BY <1>1, <1>3
<1> QED
  BY <1>4, <1>5, <1>6 DEF SharedCount

\* Popping from a heap brings nothing in.
LEMMA BagMinus ==
  ASSUME NEW B, NEW e
  PROVE  DOMAIN (B (-) SetToBag({e})) \subseteq DOMAIN B
BY DEF (-), SetToBag

\* Pushing onto a heap.
LEMMA BagPlus ==
  ASSUME NEW B, NEW S
  PROVE  DOMAIN (B (+) SetToBag(S)) = DOMAIN B \cup S
BY DEF (+), SetToBag

----------------------------------------------------------------------------
(* What a step does to the links of the tree N, which becomes M. *)

\* Timestamps and tenants change and links do not.
SameLinks(N, M) ==
  /\ Len(M) = Len(N)
  /\ \A n \in DOMAIN N : /\ M[n].text = N[n].text
                         /\ M[n].children = N[n].children
                         /\ M[n].parent = N[n].parent

\* p gets a leaf on the character c.
LeafAdded(N, M, p, c) ==
  LET h == Len(N) + 1
  IN  /\ Len(M) = h
      /\ \A n \in DOMAIN N : M[n].text = N[n].text /\ M[n].parent = N[n].parent
      /\ \A n \in DOMAIN N \ {p} : M[n].children = N[n].children
      /\ M[p].children = Put(N[p].children, c, h)
      /\ M[h].children = << >> /\ M[h].parent = p
      /\ M[h].text # << >> /\ M[h].text[1] = c

\* The child n of p is split after i characters.
SplitAt(N, M, n, p, i) ==
  LET h == Len(N) + 1
      whole == N[n].text
  IN  /\ Len(M) = h
      /\ \A m \in DOMAIN N \ {n} : M[m].text = N[m].text /\ M[m].parent = N[m].parent
      /\ \A m \in DOMAIN N \ {p} : M[m].children = N[m].children
      /\ DOMAIN M[p].children = DOMAIN N[p].children
      /\ M[p].children[whole[1]] = h
      /\ \A c \in DOMAIN N[p].children : c # whole[1] => M[p].children[c] = N[p].children[c]
      /\ M[n].parent = h /\ Len(M[n].text) = Len(whole) - i /\ M[n].text[1] = whole[i + 1]
      /\ M[h].parent = p /\ Len(M[h].text) = i /\ M[h].text[1] = whole[1]
      /\ M[n].text = Advance(whole, i) /\ M[h].text = Take(whole, i)
      /\ DOMAIN M[h].children = {whole[i + 1]} /\ M[h].children[whole[i + 1]] = n

\* n is unlinked from its parent.
Cut(N, M, n) ==
  /\ Len(M) = Len(N)
  /\ \A m \in DOMAIN N : M[m].text = N[m].text /\ M[m].parent = N[m].parent
  /\ \A m \in DOMAIN N \ {N[n].parent} : M[m].children = N[m].children
  /\ M[N[n].parent].children = Remove(N[N[n].parent].children, N[n].text[1])

\* A node is attached when it is the root or a child of some node.
LEMMA AttIs ==
  ASSUME NEW N, NEW n
  PROVE  n \in Att(N) <=> n = Root \/ \E p \in DOMAIN N : \E c \in DOMAIN N[p].children :
                                        n = N[p].children[c]
BY DEF Att

\* The fields of a node.
LEMMA NodeType ==
  ASSUME NEW N \in Seq(NodeRec), NEW n \in DOMAIN N
  PROVE  /\ N[n] \in NodeRec
         /\ N[n].text \in Seq(Char) /\ N[n].children \in Kids /\ N[n].parent \in Nat
         /\ N[n].access \in Accesses /\ N[n].last \in Holder \cup {NoTenant}
<1>1. N[n] \in NodeRec
  <2> HIDE DEF NodeRec
  <2> QED
    OBVIOUS
<1> QED
  BY <1>1 DEF NodeRec

\* A child and the node that has it.
LEMMA ShapeLink ==
  ASSUME NEW N, Shape(N), NEW p \in DOMAIN N, NEW c \in DOMAIN N[p].children,
         NEW n, n = N[p].children[c]
  PROVE  /\ n \in DOMAIN N /\ n # Root /\ n # p /\ N[n].parent = p /\ N[n].text[1] = c
         /\ p \in Att(N)
<1> HIDE DEF NodeRec, Att, Root
<1> QED
  BY DEF Shape

\* Parents exist, and only the root has no text.
LEMMA ShapeNode ==
  ASSUME NEW N, Shape(N), NEW n \in DOMAIN N
  PROVE  N \in Seq(NodeRec) /\ N[n].parent \in DOMAIN N /\ (n # Root => N[n].text # << >>)
<1> HIDE DEF NodeRec, Att, Root
<1> QED
  BY DEF Shape

\* Nodes are numbered.
LEMMA NodeIndex ==
  ASSUME NEW N, Shape(N), NEW n \in DOMAIN N
  PROVE  n \in Nat
<1>1. N \in Seq(NodeRec)
  BY ShapeNode
<1>2. n \in 1 .. Len(N) /\ Len(N) \in Nat
  BY <1>1, LenProperties
<1> QED
  BY <1>2

\* The number of a new node is not in use.
LEMMA OneMore ==
  ASSUME NEW N \in Seq(NodeRec), NEW M \in Seq(NodeRec), Len(M) = Len(N) + 1
  PROVE  /\ Len(N) \in Nat /\ DOMAIN N = 1 .. Len(N)
         /\ DOMAIN M = DOMAIN N \cup {Len(N) + 1} /\ Len(N) + 1 \notin DOMAIN N
<1> HIDE DEF NodeRec
<1>1. /\ Len(N) \in Nat /\ DOMAIN N = 1 .. Len(N) /\ DOMAIN M = 1 .. Len(M)
  BY LenProperties
<1> QED
  BY <1>1

\* A step that leaves texts, children and parents alone keeps the tree linked up.
LEMMA LinksKept ==
  ASSUME NEW N, Shape(N), NEW M \in Seq(NodeRec), SameLinks(N, M)
  PROVE  Shape(M) /\ Att(M) = Att(N) /\ DOMAIN M = DOMAIN N
<1> HIDE DEF NodeRec
<1>1. DOMAIN M = DOMAIN N
  BY DEF Shape, SameLinks
<1>2. Att(M) = Att(N)
  BY <1>1 DEF Att, SameLinks
<1>3. ASSUME NEW p \in DOMAIN M, NEW c \in DOMAIN M[p].children
      PROVE  /\ M[p].children[c] \in DOMAIN M \ {Root, p}
             /\ p \in Att(M)
             /\ M[M[p].children[c]].parent = p
             /\ M[M[p].children[c]].text[1] = c
  <2>1. p \in DOMAIN N /\ M[p].children = N[p].children
    BY <1>1 DEF SameLinks
  <2>2. /\ N[p].children[c] \in DOMAIN N \ {Root, p} /\ p \in Att(N)
        /\ N[N[p].children[c]].parent = p /\ N[N[p].children[c]].text[1] = c
    BY <2>1, ShapeLink
  <2> QED
    BY <1>1, <1>2, <2>1, <2>2 DEF SameLinks
<1>4. /\ Root \in DOMAIN M
      /\ M[Root].text = << >> /\ M[Root].parent = Root
  BY <1>1 DEF SameLinks, Shape
<1>5. ASSUME NEW n \in DOMAIN M
      PROVE  M[n].parent \in DOMAIN M /\ (n # Root => M[n].text # << >>)
  <2>1. M[n].parent = N[n].parent /\ M[n].text = N[n].text
    BY <1>1 DEF SameLinks
  <2> QED
    BY <1>1, <2>1, ShapeNode
<1> QED
  BY <1>1, <1>2, <1>3, <1>4, <1>5 DEF Shape

\* So does a new leaf under a character no child begins with,
LEMMA LinksLeaf ==
  ASSUME NEW N, Shape(N), NEW M \in Seq(NodeRec),
         NEW p \in Att(N), p \in DOMAIN N, NEW c \in Char, c \notin DOMAIN N[p].children,
         LeafAdded(N, M, p, c)
  PROVE  Shape(M) /\ Att(M) = Att(N) \cup {Len(N) + 1} /\ DOMAIN M = DOMAIN N \cup {Len(N) + 1}
<1> HIDE DEF NodeRec
<1> DEFINE h == Len(N) + 1
<1>1. /\ N \in Seq(NodeRec) /\ Len(N) \in Nat /\ DOMAIN N = 1 .. Len(N)
      /\ DOMAIN M = DOMAIN N \cup {h} /\ h \notin DOMAIN N
  <2>1. N \in Seq(NodeRec) /\ Len(M) = Len(N) + 1
    BY DEF Shape, LeafAdded
  <2> QED
    BY <2>1, OneMore
<1>2. DOMAIN << >> = {}
  OBVIOUS
<1>3. /\ DOMAIN M[p].children = DOMAIN N[p].children \cup {c}
      /\ M[p].children[c] = h
      /\ \A d \in DOMAIN N[p].children : M[p].children[d] = N[p].children[d]
  BY DEF LeafAdded, Put
<1>4. Att(M) = Att(N) \cup {h}
  <2>1. ASSUME NEW n \in Att(M) PROVE n \in Att(N) \cup {h}
    BY <1>1, <1>2, <1>3, AttIs DEF LeafAdded
  <2>2. ASSUME NEW n \in Att(N) PROVE n \in Att(M)
    <3>1. CASE n = Root
      BY <3>1, AttIs
    <3>2. CASE n # Root
      <4>1. PICK q \in DOMAIN N : \E d \in DOMAIN N[q].children : n = N[q].children[d]
        BY <3>2, AttIs
      <4>2. \E d \in DOMAIN M[q].children : n = M[q].children[d]
        BY <4>1, <1>3 DEF LeafAdded
      <4> QED
        BY <1>1, <4>1, <4>2, AttIs
    <3> QED
      BY <3>1, <3>2
  <2>3. h \in Att(M)
    BY <1>1, <1>3, AttIs
  <2> QED
    BY <2>1, <2>2, <2>3
<1>5. ASSUME NEW q \in DOMAIN M, NEW d \in DOMAIN M[q].children
      PROVE  /\ M[q].children[d] \in DOMAIN M \ {Root, q}
             /\ q \in Att(M)
             /\ M[M[q].children[d]].parent = q
             /\ M[M[q].children[d]].text[1] = d
  <2>1. q # h
    BY <1>2 DEF LeafAdded
  <2>2. q \in DOMAIN N
    BY <1>1, <2>1
  <2>3. CASE q = p /\ d = c
    BY <1>1, <1>3, <1>4, <2>3 DEF LeafAdded, Shape
  <2>4. CASE q # p \/ d # c
    <3>1. d \in DOMAIN N[q].children /\ M[q].children[d] = N[q].children[d]
      BY <1>3, <2>2, <2>4 DEF LeafAdded
    <3> QED
      BY <1>1, <1>4, <2>2, <3>1 DEF LeafAdded, Shape
  <2> QED
    BY <2>3, <2>4
<1>6. /\ Root \in DOMAIN M
      /\ M[Root].text = << >> /\ M[Root].parent = Root
  BY <1>1 DEF LeafAdded, Shape
<1>7. ASSUME NEW n \in DOMAIN M
      PROVE  M[n].parent \in DOMAIN M /\ (n # Root => M[n].text # << >>)
  <2>1. CASE n = h
    BY <1>1, <2>1 DEF LeafAdded
  <2>2. CASE n # h
    <3>1. n \in DOMAIN N /\ M[n].parent = N[n].parent /\ M[n].text = N[n].text
      BY <1>1, <2>2 DEF LeafAdded
    <3> QED
      BY <1>1, <3>1, ShapeNode
  <2> QED
    BY <2>1, <2>2
<1> QED
  BY <1>1, <1>4, <1>5, <1>6, <1>7 DEF Shape

\* splitting a node into two,
LEMMA LinksSplit ==
  ASSUME NEW N, Shape(N), NEW M \in Seq(NodeRec),
         NEW p \in DOMAIN N, NEW c \in DOMAIN N[p].children, NEW n, n = N[p].children[c],
         NEW i \in Nat, 1 <= i, i < Len(N[n].text),
         SplitAt(N, M, n, p, i)
  PROVE  Shape(M) /\ Att(M) = Att(N) \cup {Len(N) + 1} /\ DOMAIN M = DOMAIN N \cup {Len(N) + 1}
<1> HIDE DEF NodeRec
<1> DEFINE h == Len(N) + 1
           d == N[n].text[i + 1]
<1>1. /\ N \in Seq(NodeRec) /\ Len(N) \in Nat /\ DOMAIN N = 1 .. Len(N)
      /\ DOMAIN M = DOMAIN N \cup {h} /\ h \notin DOMAIN N
  <2>1. N \in Seq(NodeRec) /\ Len(M) = Len(N) + 1
    BY DEF Shape, SplitAt
  <2> QED
    BY <2>1, OneMore
<1>2. /\ n \in DOMAIN N /\ n # Root /\ n # p /\ N[n].text[1] = c /\ N[n].parent = p
      /\ p \in Att(N)
  BY ShapeLink
<1>3. /\ DOMAIN M[p].children = DOMAIN N[p].children
      /\ M[p].children[c] = h
      /\ \A x \in DOMAIN N[p].children : x # c => M[p].children[x] = N[p].children[x]
      /\ DOMAIN M[h].children = {d} /\ M[h].children[d] = n
  BY <1>2 DEF SplitAt
<1>4. Att(M) = Att(N) \cup {h}
  <2>1. ASSUME NEW m \in Att(M), m # Root PROVE m \in Att(N) \cup {h}
    <3>1. PICK q \in DOMAIN M : \E x \in DOMAIN M[q].children : m = M[q].children[x]
      BY <2>1, AttIs
    <3>2. CASE q = h
      BY <1>2, <1>3, <3>1, <3>2, AttIs
    <3>3. CASE q = p
      BY <1>1, <1>3, <3>1, <3>3, AttIs
    <3>4. CASE q # h /\ q # p
      <4>1. q \in DOMAIN N /\ M[q].children = N[q].children
        BY <1>1, <3>4 DEF SplitAt
      <4> QED
        BY <3>1, <4>1, AttIs
    <3> QED
      BY <3>2, <3>3, <3>4
  <2>2. ASSUME NEW m \in Att(N), m # Root PROVE m \in Att(M)
    <3>1. PICK q \in DOMAIN N : \E x \in DOMAIN N[q].children : m = N[q].children[x]
      BY <2>2, AttIs
    <3>2. PICK x \in DOMAIN N[q].children : m = N[q].children[x]
      BY <3>1
    <3>3. CASE q = p /\ x = c
      BY <1>1, <1>3, <3>2, <3>3, AttIs
    <3>4. CASE q # p \/ x # c
      <4>1. x \in DOMAIN M[q].children /\ m = M[q].children[x]
        <5>1. CASE q = p
          BY <1>3, <3>2, <3>4, <5>1
        <5>2. CASE q # p
          <6>1. M[q].children = N[q].children
            BY <5>2 DEF SplitAt
          <6> QED
            BY <3>2, <6>1
        <5> QED
          BY <5>1, <5>2
      <4> QED
        BY <1>1, <4>1, AttIs
    <3> QED
      BY <3>3, <3>4
  <2>3. h \in Att(M)
    BY <1>1, <1>3, AttIs
  <2>4. Root \in Att(M) /\ Root \in Att(N)
    BY AttIs
  <2> QED
    BY <2>1, <2>2, <2>3, <2>4
<1>5. ASSUME NEW q \in DOMAIN M, NEW x \in DOMAIN M[q].children
      PROVE  /\ M[q].children[x] \in DOMAIN M \ {Root, q}
             /\ q \in Att(M)
             /\ M[M[q].children[x]].parent = q
             /\ M[M[q].children[x]].text[1] = x
  <2>1. CASE q = h
    <3>1. x = d /\ M[q].children[x] = n
      BY <1>3, <2>1
    <3>2. M[n].parent = h /\ M[n].text[1] = d
      BY DEF SplitAt
    <3>3. n \in DOMAIN M /\ n # h /\ n # Root /\ h \in Att(M)
      BY <1>1, <1>2, <1>4
    <3> QED
      BY <2>1, <3>1, <3>2, <3>3
  <2>2. CASE q = p /\ x = c
    <3>1. M[q].children[x] = h
      BY <1>3, <2>2
    <3>2. Root \in DOMAIN N
      BY DEF Shape
    <3>3. h # Root /\ h # p /\ h \in DOMAIN M
      BY <1>1, <3>2
    <3>4. M[h].parent = p /\ M[h].text[1] = N[n].text[1]
      BY DEF SplitAt
    <3>5. p \in Att(M)
      BY <1>2, <1>4
    <3> HIDE DEF h
    <3> QED
      BY <1>2, <2>2, <3>1, <3>3, <3>4, <3>5
  <2>3. CASE q # h /\ (q # p \/ x # c)
    <3>1. q \in DOMAIN N /\ x \in DOMAIN N[q].children /\ M[q].children[x] = N[q].children[x]
      <4>1. q \in DOMAIN N
        BY <1>1, <2>3
      <4>2. CASE q = p
        BY <1>3, <2>3, <4>1, <4>2
      <4>3. CASE q # p
        <5>1. M[q].children = N[q].children
          BY <4>1, <4>3 DEF SplitAt
        <5> QED
          BY <4>1, <5>1
      <4> QED
        BY <4>2, <4>3
    <3>2. /\ N[q].children[x] \in DOMAIN N \ {Root, q} /\ q \in Att(N)
          /\ N[N[q].children[x]].parent = q /\ N[N[q].children[x]].text[1] = x
      BY <3>1, ShapeLink
    <3>3. N[q].children[x] # n
      BY <1>2, <2>3, <3>2
    <3>4. /\ M[N[q].children[x]].parent = N[N[q].children[x]].parent
          /\ M[N[q].children[x]].text = N[N[q].children[x]].text
      BY <3>2, <3>3 DEF SplitAt
    <3> QED
      BY <1>1, <1>4, <3>1, <3>2, <3>4
  <2> QED
    BY <2>1, <2>2, <2>3
<1>6. /\ Root \in DOMAIN M
      /\ M[Root].text = << >> /\ M[Root].parent = Root
  <2>1. Root \in DOMAIN N /\ N[Root].text = << >> /\ N[Root].parent = Root
    BY DEF Shape
  <2>2. M[Root].text = N[Root].text /\ M[Root].parent = N[Root].parent
    BY <1>2, <2>1 DEF SplitAt
  <2> QED
    BY <1>1, <2>1, <2>2
<1>7. ASSUME NEW m \in DOMAIN M
      PROVE  M[m].parent \in DOMAIN M /\ (m # Root => M[m].text # << >>)
  <2>1. CASE m = h
    <3>1. M[h].parent = p /\ Len(M[h].text) = i
      BY DEF SplitAt
    <3>2. M[h].text # << >>
      <4> DEFINE s == M[h].text
      <4>1. Len(s) = i
        BY <3>1
      <4> HIDE DEF s
      <4>2. s # << >>
        BY <4>1
      <4> QED
        BY <4>2 DEF s
    <3> QED
      BY <1>1, <2>1, <3>1, <3>2
  <2>2. CASE m = n
    <3>1. M[n].parent = h /\ Len(M[n].text) = Len(N[n].text) - i
      BY DEF SplitAt
    <3>2. Len(N[n].text) \in Nat /\ M[n].text \in Seq(Char)
      BY <1>1, <1>2, NodeType
    <3>3. M[n].text # << >>
      <4> DEFINE s == M[n].text
                 w == Len(N[n].text)
      <4>1. Len(s) = w - i /\ w \in Nat /\ i < w
        BY <3>1, <3>2
      <4> HIDE DEF s, w
      <4>2. s # << >>
        BY <4>1
      <4> QED
        BY <4>2 DEF s
    <3> QED
      BY <1>1, <2>2, <3>1, <3>3
  <2>3. CASE m # h /\ m # n
    <3>1. m \in DOMAIN N /\ M[m].text = N[m].text /\ M[m].parent = N[m].parent
      BY <1>1, <2>3 DEF SplitAt
    <3> QED
      BY <1>1, <3>1, ShapeNode
  <2> QED
    BY <2>1, <2>2, <2>3
<1> QED
  BY <1>1, <1>4, <1>5, <1>6, <1>7 DEF Shape

\* and cutting off a node without children.
LEMMA LinksCut ==
  ASSUME NEW N, Shape(N), NEW M \in Seq(NodeRec),
         NEW n \in Att(N), n # Root, DOMAIN N[n].children = {},
         Cut(N, M, n)
  PROVE  Shape(M) /\ Att(M) = Att(N) \ {n} /\ DOMAIN M = DOMAIN N
<1> HIDE DEF NodeRec
<1> DEFINE p == N[n].parent
           c == N[n].text[1]
<1>1. N \in Seq(NodeRec) /\ DOMAIN M = DOMAIN N
  BY DEF Shape, Cut
<1>2. PICK q \in DOMAIN N : \E x \in DOMAIN N[q].children : n = N[q].children[x]
  BY AttIs
<1>3. /\ p \in DOMAIN N /\ c \in DOMAIN N[p].children /\ N[p].children[c] = n
      /\ n \in DOMAIN N
  <2>1. PICK x \in DOMAIN N[q].children : n = N[q].children[x]
    BY <1>2
  <2>2. n \in DOMAIN N /\ p = q /\ c = x
    BY <2>1, ShapeLink
  <2> QED
    BY <2>1, <2>2
<1>4. /\ DOMAIN M[p].children = DOMAIN N[p].children \ {c}
      /\ \A x \in DOMAIN N[p].children : x # c => M[p].children[x] = N[p].children[x]
  BY DEF Cut, Remove
<1>5. ASSUME NEW r \in DOMAIN N, NEW x \in DOMAIN M[r].children
      PROVE  /\ x \in DOMAIN N[r].children /\ M[r].children[x] = N[r].children[x]
             /\ M[r].children[x] # n
  <2>1. x \in DOMAIN N[r].children /\ M[r].children[x] = N[r].children[x]
    BY <1>4 DEF Cut
  <2>2. ~(r = p /\ x = c)
    BY <1>4
  <2>3. N[N[r].children[x]].parent = r /\ N[N[r].children[x]].text[1] = x
    BY <2>1, ShapeLink
  <2> QED
    BY <2>1, <2>2, <2>3
<1>6. Att(M) = Att(N) \ {n}
  <2>1. ASSUME NEW m \in Att(M), m # Root PROVE m \in Att(N) \ {n}
    BY <1>1, <1>5, <2>1, AttIs
  <2>2. ASSUME NEW m \in Att(N), m # n, m # Root PROVE m \in Att(M)
    <3>1. PICK r \in DOMAIN N : \E x \in DOMAIN N[r].children : m = N[r].children[x]
      BY <2>2, AttIs
    <3>2. PICK x \in DOMAIN N[r].children : m = N[r].children[x]
      BY <3>1
    <3>3. x \in DOMAIN M[r].children /\ m = M[r].children[x]
      BY <1>3, <1>4, <2>2, <3>2 DEF Cut
    <3> QED
      BY <1>1, <3>3, AttIs
  <2>3. Root \in Att(M) /\ Root \in Att(N)
    BY AttIs
  <2> QED
    BY <2>1, <2>2, <2>3
<1>7. ASSUME NEW r \in DOMAIN M, NEW x \in DOMAIN M[r].children
      PROVE  /\ M[r].children[x] \in DOMAIN M \ {Root, r}
             /\ r \in Att(M)
             /\ M[M[r].children[x]].parent = r
             /\ M[M[r].children[x]].text[1] = x
  <2>1. r # n
    BY <1>1, <1>5, <1>3
  <2>2. /\ N[r].children[x] \in DOMAIN N \ {Root, r} /\ r \in Att(N)
        /\ N[N[r].children[x]].parent = r /\ N[N[r].children[x]].text[1] = x
    BY <1>1, <1>5, ShapeLink
  <2> QED
    BY <1>1, <1>5, <1>6, <2>1, <2>2 DEF Cut
<1>8. /\ Root \in DOMAIN M
      /\ M[Root].text = << >> /\ M[Root].parent = Root
      /\ \A m \in DOMAIN M : M[m].parent \in DOMAIN M /\ (m # Root => M[m].text # << >>)
  BY <1>1 DEF Cut, Shape
<1> QED
  BY <1>1, <1>6, <1>7, <1>8 DEF Shape

----------------------------------------------------------------------------
(* The updates of the nodes, and what each does to the links. *)

SetAccess(N, n, a) == [N EXCEPT ![n].access = a]
SetLast(N, n, t) == [N EXCEPT ![n].last = t]
SetKids(N, n, f) == [N EXCEPT ![n].children = f]
AddLeaf(N, p, c, leaf) == Append(SetKids(N, p, Put(N[p].children, c, Len(N) + 1)), leaf)
CutOff(N, n) == SetKids(N, N[n].parent, Remove(N[N[n].parent].children, N[n].text[1]))

\* No node gains or loses a tenant, and timestamps stay as they are.
SameAccess(N, M) == \A n \in DOMAIN N : M[n].access = N[n].access

\* What SetAccess changes.
LEMMA AccessSet ==
  ASSUME NEW N \in Seq(NodeRec), NEW n \in DOMAIN N, NEW a \in Accesses
  PROVE  LET M == SetAccess(N, n, a)
         IN  /\ M \in Seq(NodeRec) /\ SameLinks(N, M)
             /\ M[n].access = a
             /\ \A m \in DOMAIN N : m # n => M[m].access = N[m].access
<1> DEFINE r == [N[n] EXCEPT !.access = a]
<1>1. N[n] \in NodeRec
  BY NodeType
<1>2. /\ r \in NodeRec /\ r.access = a
      /\ r.text = N[n].text /\ r.children = N[n].children /\ r.parent = N[n].parent
  BY <1>1 DEF NodeRec
<1>3. SetAccess(N, n, a) = [N EXCEPT ![n] = r]
  BY DEF SetAccess
<1> HIDE DEF NodeRec, r
<1> QED
  BY <1>2, <1>3 DEF SameLinks

\* What SetLast changes.
LEMMA LastSet ==
  ASSUME NEW N \in Seq(NodeRec), NEW n \in DOMAIN N, NEW t \in Holder \cup {NoTenant}
  PROVE  LET M == SetLast(N, n, t)
         IN  M \in Seq(NodeRec) /\ SameLinks(N, M) /\ SameAccess(N, M)
<1> DEFINE r == [N[n] EXCEPT !.last = t]
<1>1. N[n] \in NodeRec
  BY NodeType
<1>2. /\ r \in NodeRec /\ r.access = N[n].access
      /\ r.text = N[n].text /\ r.children = N[n].children /\ r.parent = N[n].parent
  BY <1>1 DEF NodeRec
<1>3. SetLast(N, n, t) = [N EXCEPT ![n] = r]
  BY DEF SetLast
<1> HIDE DEF NodeRec, r
<1> QED
  BY <1>2, <1>3 DEF SameLinks, SameAccess

\* What SetKids changes.
LEMMA KidsSet ==
  ASSUME NEW N \in Seq(NodeRec), NEW n \in DOMAIN N, NEW f \in Kids
  PROVE  LET M == SetKids(N, n, f)
         IN  /\ M \in Seq(NodeRec) /\ Len(M) = Len(N) /\ SameAccess(N, M)
             /\ \A m \in DOMAIN N : M[m].text = N[m].text /\ M[m].parent = N[m].parent
             /\ \A m \in DOMAIN N \ {n} : M[m].children = N[m].children
             /\ M[n].children = f
<1> DEFINE r == [N[n] EXCEPT !.children = f]
<1>1. N[n] \in NodeRec
  BY NodeType
<1>2. /\ r \in NodeRec /\ r.access = N[n].access
      /\ r.text = N[n].text /\ r.children = f /\ r.parent = N[n].parent
  BY <1>1 DEF NodeRec
<1>3. SetKids(N, n, f) = [N EXCEPT ![n] = r]
  BY DEF SetKids
<1> HIDE DEF NodeRec, r
<1> QED
  BY <1>2, <1>3 DEF SameAccess

\* AddLeaf adds a leaf.
LEMMA LeafAdd ==
  ASSUME NEW N \in Seq(NodeRec), NEW p \in DOMAIN N, NEW c \in Char,
         NEW leaf \in NodeRec, leaf.children = << >>, leaf.parent = p,
         leaf.text # << >>, leaf.text[1] = c
  PROVE  LET M == AddLeaf(N, p, c, leaf)
         IN  /\ M \in Seq(NodeRec) /\ LeafAdded(N, M, p, c) /\ SameAccess(N, M)
             /\ M[Len(N) + 1] = leaf
<1> DEFINE f == Put(N[p].children, c, Len(N) + 1)
           K == SetKids(N, p, f)
<1>1. f \in Kids
  <2>1. N[p].children \in Maps(Char, Nat) /\ Len(N) + 1 \in Nat
    BY NodeType DEF Kids
  <2> QED
    BY <2>1, PutMap DEF Kids
<1>2. /\ K \in Seq(NodeRec) /\ Len(K) = Len(N) /\ SameAccess(N, K)
      /\ \A m \in DOMAIN N : K[m].text = N[m].text /\ K[m].parent = N[m].parent
      /\ \A m \in DOMAIN N \ {p} : K[m].children = N[m].children
      /\ K[p].children = f
  <2> HIDE DEF f, NodeRec
  <2> QED
    BY <1>1, KidsSet
<1>3. AddLeaf(N, p, c, leaf) = Append(K, leaf)
  BY DEF AddLeaf
<1> HIDE DEF NodeRec, K
<1>4. /\ Append(K, leaf) \in Seq(NodeRec) /\ Len(Append(K, leaf)) = Len(N) + 1
      /\ \A m \in DOMAIN N : Append(K, leaf)[m] = K[m]
      /\ Append(K, leaf)[Len(N) + 1] = leaf
  <2>1. DOMAIN N = 1 .. Len(N) /\ 1 .. Len(K) = 1 .. Len(N)
    BY <1>2, LenProperties
  <2> QED
    BY <1>2, <2>1, AppendProperties
<1> QED
  BY <1>2, <1>3, <1>4 DEF LeafAdded, SameAccess

\* CutOff cuts a node off.
LEMMA CutOffCuts ==
  ASSUME NEW N \in Seq(NodeRec), NEW n \in DOMAIN N, N[n].parent \in DOMAIN N
  PROVE  LET M == CutOff(N, n)
         IN  M \in Seq(NodeRec) /\ Cut(N, M, n) /\ SameAccess(N, M)
<1> DEFINE f == Remove(N[N[n].parent].children, N[n].text[1])
<1>1. f \in Kids
  BY NodeType, RemoveMap DEF Kids
<1>2. CutOff(N, n) = SetKids(N, N[n].parent, f)
  BY DEF CutOff
<1>3. f = Remove(N[N[n].parent].children, N[n].text[1])
  OBVIOUS
<1> DEFINE p == N[n].parent
           M == SetKids(N, p, f)
<1>4. p \in DOMAIN N
  OBVIOUS
<1> HIDE DEF f, p, NodeRec
<1>5. /\ M \in Seq(NodeRec) /\ Len(M) = Len(N) /\ SameAccess(N, M)
      /\ \A m \in DOMAIN N : M[m].text = N[m].text /\ M[m].parent = N[m].parent
      /\ \A m \in DOMAIN N \ {p} : M[m].children = N[m].children
      /\ M[p].children = f
  BY <1>1, <1>4, KidsSet
<1> HIDE DEF M
<1>6. Cut(N, M, n)
  BY <1>3, <1>5 DEF Cut, p
<1> QED
  BY <1>2, <1>5, <1>6 DEF M, p

\* Split, of any sequence of nodes.
HeadOf(N, n, p, i) ==
  [NewNode(Take(N[n].text, i), p, N[n].access, N[n].last)
     EXCEPT !.children = [c \in {N[n].text[i + 1]} |-> n]]
SplitKids(N, n, p) == [N[p].children EXCEPT ![N[n].text[1]] = Len(N) + 1]
SplitRest(N, n, i) == [N[n] EXCEPT !.text = Advance(@, i), !.parent = Len(N) + 1]

Moved(x, text, p) == [x EXCEPT !.text = text, !.parent = p]
OneKid(c, n) == [x \in {c} |-> n]
WithKids(x, f) == [x EXCEPT !.children = f]

\* A node with other children.
LEMMA WithKidsNode ==
  ASSUME NEW x \in NodeRec, NEW f \in Kids
  PROVE  /\ WithKids(x, f) \in NodeRec /\ WithKids(x, f).children = f
         /\ WithKids(x, f).text = x.text /\ WithKids(x, f).parent = x.parent
         /\ WithKids(x, f).access = x.access
BY DEF WithKids, NodeRec

\* A new node is a node.
LEMMA NewNodeType ==
  ASSUME NEW text \in Seq(Char), NEW p \in Nat, NEW a \in Accesses,
         NEW t \in Holder \cup {NoTenant}
  PROVE  LET x == NewNode(text, p, a, t)
         IN  /\ x \in NodeRec /\ x.text = text /\ x.parent = p /\ x.access = a
             /\ x.children = << >> /\ x.last = t
<1>1. << >> \in Kids
  BY EmptyMap DEF Kids
<1> QED
  BY <1>1 DEF NewNode, NodeRec

\* Split splits a node.
LEMMA SplitSplits ==
  ASSUME Shape(node),
         NEW p \in Nodes, NEW c \in DOMAIN node[p].children, NEW n, n = node[p].children[c],
         NEW i \in Nat, 1 <= i, i < Len(node[n].text)
  PROVE  LET M == Split(n, p, i)
         IN  /\ M \in Seq(NodeRec) /\ SplitAt(node, M, n, p, i) /\ SameAccess(node, M)
             /\ M[Len(node) + 1].access = node[n].access
<1> USE DEF Nodes
<1> DEFINE h == Len(node) + 1
           f == SplitKids(node, n, p)
           r == SplitRest(node, n, i)
           q == HeadOf(node, n, p, i)
           K == SetKids(node, p, f)
           whole == node[n].text
<1>1. /\ node \in Seq(NodeRec) /\ n \in Nodes /\ n # p /\ n # Root
      /\ whole[1] = c /\ node[p] \in NodeRec /\ node[n] \in NodeRec
      /\ Len(node) \in Nat
  <2>1. node \in Seq(NodeRec)
    BY DEF Shape
  <2>2. n \in Nodes /\ n # p /\ n # Root /\ whole[1] = c
    BY ShapeLink
  <2>3. node[p] \in NodeRec /\ node[n] \in NodeRec
    BY <2>1, <2>2, NodeType
  <2> HIDE DEF NodeRec
  <2> QED
    BY <2>1, <2>2, <2>3
<1>2. /\ whole \in Seq(Char) /\ i \in 0 .. Len(whole) /\ i + 1 \in 1 .. Len(whole)
      /\ whole[i + 1] \in Char
  BY <1>1, NodeType
<1>3. /\ f \in Kids /\ DOMAIN f = DOMAIN node[p].children /\ f[c] = h
      /\ \A x \in DOMAIN node[p].children : x # c => f[x] = node[p].children[x]
  <2>1. PICK D \in SUBSET Char : node[p].children \in [D -> Nat]
    BY <1>1, NodeType DEF Kids, Maps
  <2>2. f \in [D -> Nat]
    BY <1>1, <2>1 DEF SplitKids
  <2> QED
    BY <1>1, <2>1, <2>2 DEF SplitKids, Kids, Maps
<1>4. /\ Take(whole, i) \in Seq(Char) /\ Len(Take(whole, i)) = i
      /\ Take(whole, i)[1] = whole[1]
      /\ Advance(whole, i) \in Seq(Char) /\ Len(Advance(whole, i)) = Len(whole) - i
      /\ Advance(whole, i)[1] = whole[i + 1]
  <2>1. 1 \in 1 .. i /\ 1 \in 1 .. Len(whole) - i
    BY <1>2
  <2>2. i \in 0 .. Len(whole) /\ whole \in Seq(Char) /\ i + 1 = 1 + i
    BY <1>2
  <2> HIDE DEF whole
  <2> QED
    BY <2>1, <2>2, HalfText
<1>5. /\ r \in NodeRec /\ r.text = Advance(whole, i) /\ r.parent = h
      /\ r.children = node[n].children /\ r.access = node[n].access
  <2>1. node[n] \in NodeRec /\ h \in Nat /\ Advance(whole, i) \in Seq(Char)
    BY <1>1, <1>4
  <2>2. r = Moved(node[n], Advance(whole, i), h)
    BY DEF SplitRest, Moved
  <2> DEFINE x == node[n]
             text == Advance(whole, i)
  <2>3. x \in NodeRec /\ text \in Seq(Char) /\ h \in Nat /\ r = Moved(x, text, h)
    BY <2>1, <2>2
  <2> HIDE DEF NodeRec, r, h, x, text
  <2>4. LET y == Moved(x, text, h)
        IN  /\ y \in NodeRec /\ y.text = text /\ y.parent = h
            /\ y.children = x.children /\ y.access = x.access
    BY <2>3 DEF Moved, NodeRec
  <2>5. /\ r \in NodeRec /\ r.text = text /\ r.parent = h
        /\ r.children = x.children /\ r.access = x.access
    BY <2>3, <2>4
  <2> QED
    BY <2>5 DEF x, text
<1>6. OneKid(whole[i + 1], n) \in Kids
  <2>1. n \in Nat /\ whole[i + 1] \in Char
    BY <1>1, <1>2
  <2> HIDE DEF whole
  <2> QED
    BY <2>1, OneMap DEF Kids, OneKid
<1>7. /\ q \in NodeRec /\ q.text = Take(whole, i) /\ q.parent = p
      /\ q.children = [x \in {whole[i + 1]} |-> n] /\ q.access = node[n].access
  <2> DEFINE b == NewNode(Take(whole, i), p, node[n].access, node[n].last)
             g == OneKid(whole[i + 1], n)
  <2>1. /\ Take(whole, i) \in Seq(Char) /\ p \in Nat /\ node[n].access \in Accesses
        /\ node[n].last \in Holder \cup {NoTenant}
    BY <1>1, <1>4, NodeType
  <2>2. /\ b \in NodeRec /\ b.text = Take(whole, i) /\ b.parent = p
        /\ b.access = node[n].access
    BY <2>1, NewNodeType
  <2>3. q = WithKids(b, g) /\ g = [x \in {whole[i + 1]} |-> n]
    BY DEF HeadOf, WithKids, OneKid
  <2>4. g \in Kids
    BY <1>6
  <2> HIDE DEF NodeRec, b, g, q
  <2>5. /\ WithKids(b, g) \in NodeRec /\ WithKids(b, g).children = g
        /\ WithKids(b, g).text = b.text /\ WithKids(b, g).parent = b.parent
        /\ WithKids(b, g).access = b.access
    BY <2>2, <2>4, WithKidsNode
  <2> QED
    BY <2>2, <2>3, <2>5
<1>8. /\ K \in Seq(NodeRec) /\ Len(K) = Len(node) /\ SameAccess(node, K)
      /\ \A m \in DOMAIN node : K[m].text = node[m].text /\ K[m].parent = node[m].parent
      /\ \A m \in DOMAIN node \ {p} : K[m].children = node[m].children
      /\ K[p].children = f
  <2> HIDE DEF f, NodeRec
  <2> QED
    BY <1>1, <1>3, KidsSet
<1>9. Split(n, p, i) = Append([K EXCEPT ![n] = r], q)
  BY <1>1 DEF Split, SetKids, SplitKids, SplitRest, HeadOf
<1> DEFINE L == [K EXCEPT ![n] = r]
<1> HIDE DEF NodeRec, K, r, q
<1>10. /\ L \in Seq(NodeRec) /\ Len(L) = Len(node) /\ L[n] = r
       /\ \A m \in DOMAIN node \ {n} : L[m] = K[m]
  BY <1>1, <1>5, <1>8
<1> HIDE DEF L
<1>11. /\ Append(L, q) \in Seq(NodeRec) /\ Len(Append(L, q)) = h
       /\ \A m \in DOMAIN node : Append(L, q)[m] = L[m]
       /\ Append(L, q)[h] = q
  BY <1>1, <1>7, <1>10, AppendProperties
<1>12. Split(n, p, i) = Append(L, q)
  BY <1>9 DEF L
<1> DEFINE M == Split(n, p, i)
<1>13. /\ M \in Seq(NodeRec) /\ Len(M) = h /\ M[h] = q /\ M[n] = r
       /\ \A m \in DOMAIN node \ {n} : M[m] = K[m]
  BY <1>1, <1>10, <1>11, <1>12
<1>14. p \in DOMAIN node \ {n}
  BY <1>1
<1> HIDE DEF M, f, h
<1>15. /\ \A m \in DOMAIN node \ {n} : M[m].text = node[m].text /\ M[m].parent = node[m].parent
       /\ \A m \in DOMAIN node \ {p} : M[m].children = node[m].children
  BY <1>5, <1>8, <1>13
<1>16. /\ DOMAIN M[p].children = DOMAIN node[p].children
       /\ M[p].children[whole[1]] = h
       /\ \A x \in DOMAIN node[p].children :
            x # whole[1] => M[p].children[x] = node[p].children[x]
  BY <1>1, <1>3, <1>8, <1>13, <1>14
<1>17. /\ M[n].parent = h /\ Len(M[n].text) = Len(whole) - i /\ M[n].text[1] = whole[i + 1]
       /\ M[h].parent = p /\ Len(M[h].text) = i /\ M[h].text[1] = whole[1]
       /\ M[n].text = Advance(whole, i) /\ M[h].text = Take(whole, i)
       /\ DOMAIN M[h].children = {whole[i + 1]} /\ M[h].children[whole[i + 1]] = n
  <2> HIDE DEF whole
  <2>1. M[n].parent = h /\ M[n].text = Advance(whole, i)
    BY <1>5, <1>13
  <2>2. M[h].parent = p /\ M[h].text = Take(whole, i)
        /\ M[h].children = [x \in {whole[i + 1]} |-> n]
    BY <1>7, <1>13
  <2> QED
    BY <1>4, <2>1, <2>2
<1>18. SplitAt(node, M, n, p, i)
  BY <1>13, <1>15, <1>16, <1>17 DEF SplitAt, h
<1>19. SameAccess(node, M)
  BY <1>5, <1>8, <1>13 DEF SameAccess
<1>20. M[Len(node) + 1].access = node[n].access
  BY <1>7, <1>13 DEF h
<1> QED
  BY <1>13, <1>18, <1>19, <1>20 DEF M

----------------------------------------------------------------------------
(* The inductive invariant. *)

TaskRec ==
  [pc : {"idle", "lock", "insert", "refresh", "walk", "read", "pick", "touch", "stamp"},
   text : Text \cup {<< >>}, tenant : Holder \cup {NoTenant},
   at : Nat, child : Nat, off : Nat, queue : {{}}, stamp : Stamp]

\* A task of the state r stands on nodes of N; the one that inserts stands in the
\* tree, on a node that holds its tenant.
TaskOK(N, r) ==
  /\ r \in TaskRec
  /\ r.at \in DOMAIN N /\ r.child \in DOMAIN N /\ r.off <= Len(r.text)
  /\ r.pc = "lock" => r.at = Root /\ r.tenant \in Tenant
  /\ r.pc \in {"insert", "refresh"} =>
       r.tenant \in Tenant /\ r.at \in Att(N) /\ r.tenant \in DOMAIN N[r.at].access
  /\ r.pc \in {"touch", "stamp"} => r.tenant \in Holder

Tasks == task \in [Task -> TaskRec] /\ \A k \in Task : TaskOK(node, task[k])

\* There is an epoch left for every operation that has yet to take one.
Epochs == epoch + Cardinality(Undrawn) <= MaxEpoch

\* The eviction lock.
Locked == Evicting => \A k \in Task : task[k].pc \notin {"insert", "refresh"}

Counters == count \in [Tenant -> Nat] /\ epoch \in Nat

\* R is what a pass has found in the tree.  With a node it has the parent, and no
\* other node has come to stand in its place; a node of R may have been unlinked.
Found(N, R) ==
  /\ R \subseteq DOMAIN N
  /\ \A n \in R \ {Root} :
       /\ N[n].parent \in R
       /\ N[n].text[1] \in DOMAIN N[N[n].parent].children =>
            N[N[n].parent].children[N[n].text[1]] = n

\* The pass stays within what it has found.  Nothing is said of the order of the
\* entries, nor of an entry that is in the heap twice: a touch may write an old
\* timestamp, or bring a tenant back to a node that the pass has been to.
HeapOK(N, ev) ==
  \E R : /\ Found(N, R)
         /\ \A e \in DOMAIN ev.heap : e.node \in R
         /\ ev.pc = "prune" => ev.at \in R

Pass ==
  /\ DOMAIN evict = {"pc", "limit", "final", "heap", "at", "tenant"}
  /\ evict.pc \in {"wait", "pop", "prune", "stopped"}
  /\ evict.limit \in Nat /\ evict.at \in DOMAIN node
  /\ ~Evicting => DOMAIN evict.heap = {}
  /\ HeapOK(node, evict)

IndInv == Shape(node) /\ Counters /\ Tasks /\ Epochs /\ Locked /\ Pass

----------------------------------------------------------------------------
(* What the steps have in common. *)

\* Attached nodes exist.
LEMMA AttType ==
  ASSUME NEW N, Shape(N)
  PROVE  Att(N) \subseteq DOMAIN N
<1>1. Root \in DOMAIN N
  BY DEF Shape
<1> QED
  BY <1>1, AttIs, ShapeLink

\* A node of the tree is a child of its parent.
LEMMA ParentLink ==
  ASSUME NEW N, Shape(N), NEW n \in Att(N), n # Root
  PROVE  /\ N[n].parent \in DOMAIN N /\ N[n].parent \in Att(N) /\ N[n].parent # n
         /\ N[n].text[1] \in DOMAIN N[N[n].parent].children
         /\ N[N[n].parent].children[N[n].text[1]] = n
<1>1. PICK p \in DOMAIN N : \E c \in DOMAIN N[p].children : n = N[p].children[c]
  BY AttIs
<1>2. PICK c \in DOMAIN N[p].children : n = N[p].children[c]
  BY <1>1
<1>3. p \in Att(N) /\ n # p /\ N[n].parent = p /\ N[n].text[1] = c
  BY <1>2, ShapeLink
<1> QED
  BY <1>2, <1>3

\* Nodes and tenants have come and none has gone.
Grown(N, M) ==
  /\ DOMAIN N \subseteq DOMAIN M /\ Att(N) \subseteq Att(M)
  /\ \A n \in DOMAIN N : DOMAIN N[n].access \subseteq DOMAIN M[n].access

\* A task stays where it is when the tree grows under it.
LEMMA TaskStays ==
  ASSUME NEW N, Shape(N), NEW M, NEW r, TaskOK(N, r),
         DOMAIN N \subseteq DOMAIN M,
         r.pc \in {"insert", "refresh"} => Grown(N, M)
  PROVE  TaskOK(M, r)
<1>1. r.at \in DOMAIN N
  BY DEF TaskOK
<1> HIDE DEF TaskRec
<1> QED
  BY <1>1 DEF TaskOK, Grown

\* The idle task.
LEMMA IdleType == Idle \in TaskRec /\ Idle.at = Root /\ Idle.child = Root /\ Idle.off = 0
                  /\ Idle.pc = "idle" /\ Len(Idle.text) = 0
BY TreeAssumption DEF Idle, TaskRec, Root, Stamp

\* An idle task is fine in any tree.
LEMMA IdleOK ==
  ASSUME NEW N, Shape(N)
  PROVE  TaskOK(N, Idle)
<1>1. Root \in DOMAIN N
  BY DEF Shape
<1> QED
  BY <1>1, IdleType DEF TaskOK

\* Finitely many tasks have yet to take an epoch.
LEMMA UndrawnFinite ==
  IsFiniteSet(Undrawn) /\ Cardinality(Undrawn) \in Nat
<1>1. IsFiniteSet(Task) /\ Undrawn \in SUBSET Task
  BY TreeAssumption DEF Undrawn, Busy
<1> QED
  BY <1>1, FS_Subset, FS_CardinalityType

\* The operations that have yet to take an epoch.
LEMMA UndrawnIs ==
  Undrawn = {k \in Task : task[k].pc \notin {"idle", "stamp", "refresh"}}
BY DEF Undrawn, Busy, Drawn

\* Task k moves to the state r.
LEMMA TaskMoves ==
  ASSUME IndInv, NEW k \in Task, NEW r, task' = [task EXCEPT ![k] = r],
         TaskOK(node', r), Grown(node, node'),
         evict' = evict,
         LET drawn == {"idle", "stamp", "refresh"}
         IN  \/ r.pc \notin drawn /\ task[k].pc \notin drawn /\ epoch' = epoch
             \/ r.pc \notin drawn /\ task[k].pc = "idle" /\ epoch' = epoch /\ EpochLeft
             \/ r.pc \in drawn /\ task[k].pc \notin drawn /\ epoch' \in {epoch, epoch + 1}
             \/ r.pc = "idle" /\ task[k].pc \in drawn /\ epoch' = epoch,
         r.pc \in {"insert", "refresh"} => task[k].pc = "insert" \/ ~Evicting
  PROVE  Tasks' /\ Epochs' /\ Locked'
<1> HIDE DEF TaskRec
<1>1. task \in [Task -> TaskRec] /\ r \in TaskRec
  BY DEF IndInv, Tasks, TaskOK
<1>2. task' \in [Task -> TaskRec] /\ task'[k] = r /\ \A j \in Task \ {k} : task'[j] = task[j]
  BY <1>1
<1>3. Tasks'
  <2>1. ASSUME NEW j \in Task, j # k PROVE TaskOK(node', task'[j])
    <3>1. TaskOK(node, task[j]) /\ Shape(node) /\ DOMAIN node \subseteq DOMAIN node'
      BY DEF IndInv, Tasks, Grown
    <3>2. task'[j] = task[j]
      BY <1>2, <2>1
    <3> HIDE DEF TaskOK, Grown
    <3> QED
      BY <3>1, <3>2, TaskStays
  <2> HIDE DEF TaskOK
  <2> QED
    BY <1>2, <2>1 DEF Tasks
<1>4. Locked'
  BY <1>2 DEF IndInv, Locked, Evicting
<1>5. Epochs'
  <2> DEFINE drawn == {"idle", "stamp", "refresh"}
             U == {j \in Task : task[j].pc \notin drawn}
             V == {j \in Task : task'[j].pc \notin drawn}
  <2>1. epoch \in Nat /\ epoch + Cardinality(U) <= MaxEpoch /\ MaxEpoch \in Nat
    BY UndrawnIs, TreeAssumption DEF IndInv, Counters, Epochs
  <2>2. IsFiniteSet(U) /\ Cardinality(U) \in Nat
    BY UndrawnFinite, UndrawnIs
  <2>3. EpochLeft => epoch + Cardinality(U) < MaxEpoch
    BY UndrawnIs DEF EpochLeft
  <2>4. Undrawn' = V
    BY DEF Undrawn, Busy, Drawn
  <2>5. epoch' + Cardinality(V) <= MaxEpoch
    <3>1. CASE /\ epoch' = epoch
               /\ \/ r.pc \notin drawn /\ task[k].pc \notin drawn
                  \/ r.pc = "idle" /\ task[k].pc \in drawn
      <4>1. V = U
        BY <1>2, <3>1
      <4> QED
        BY <2>1, <3>1, <4>1
    <3>2. CASE r.pc \notin drawn /\ task[k].pc = "idle" /\ epoch' = epoch /\ EpochLeft
      <4>1. V = U \cup {k} /\ k \notin U
        BY <1>2, <3>2
      <4>2. Cardinality(V) = Cardinality(U) + 1
        <5> HIDE DEF U, V
        <5> QED
          BY <2>2, <4>1, FS_AddElement
      <4> QED
        BY <2>1, <2>2, <2>3, <3>2, <4>2
    <3>3. CASE r.pc \in drawn /\ task[k].pc \notin drawn /\ epoch' \in {epoch, epoch + 1}
      <4>1. V = U \ {k} /\ k \in U
        BY <1>2, <3>3
      <4>2. Cardinality(V) = Cardinality(U) - 1
        <5> HIDE DEF U, V
        <5> QED
          BY <2>2, <4>1, FS_RemoveElement
      <4> QED
        BY <2>1, <2>2, <3>3, <4>2
    <3> QED
      BY <3>1, <3>2, <3>3
  <2> QED
    BY <2>4, <2>5 DEF Epochs
<1> QED
  BY <1>3, <1>4, <1>5

\* A task that has yet to take an epoch finds one.
LEMMA EpochFound ==
  ASSUME IndInv, NEW k \in Task, task[k].pc \notin {"idle", "stamp", "refresh"}
  PROVE  epoch \in 0 .. MaxEpoch
<1>1. k \in Undrawn
  BY UndrawnIs
<1>2. Cardinality(Undrawn) # 0
  BY <1>1, UndrawnFinite, FS_EmptySet
<1> QED
  BY <1>2, UndrawnFinite, TreeAssumption DEF IndInv, Counters, Epochs

\* A match changes no link, and takes no tenant off a node.
Touched(N, M) == \A n \in DOMAIN N : DOMAIN N[n].access \subseteq DOMAIN M[n].access

\* The links of the tree are all that a pass goes by.
LEMMA HeapTouched ==
  ASSUME NEW N, NEW M, SameLinks(N, M), DOMAIN M = DOMAIN N, NEW ev, HeapOK(N, ev)
  PROVE  HeapOK(M, ev)
<1>1. PICK R : /\ Found(N, R)
               /\ \A e \in DOMAIN ev.heap : e.node \in R
               /\ ev.pc = "prune" => ev.at \in R
  BY DEF HeapOK
<1>2. R \subseteq DOMAIN N /\ \A n \in R \ {Root} : N[n].parent \in R
  BY <1>1 DEF Found
<1>3. \A n \in R : /\ M[n].text = N[n].text
                   /\ M[n].children = N[n].children
                   /\ M[n].parent = N[n].parent
  BY <1>2 DEF SameLinks
<1>4. ASSUME NEW n \in R \ {Root}
      PROVE  /\ M[n].parent \in R
             /\ M[n].text[1] \in DOMAIN M[M[n].parent].children =>
                  M[M[n].parent].children[M[n].text[1]] = n
  <2>1. /\ M[n].parent = N[n].parent /\ M[n].text = N[n].text /\ N[n].parent \in R
        /\ M[N[n].parent].children = N[N[n].parent].children
    BY <1>2, <1>3
  <2> QED
    BY <1>1, <2>1 DEF Found
<1>5. Found(M, R)
  BY <1>2, <1>4 DEF Found
<1> QED
  BY <1>1, <1>5 DEF HeapOK

\* The pass does not mind what a match does.
LEMMA PassTouched ==
  ASSUME IndInv, node' \in Seq(NodeRec), SameLinks(node, node'),
         Touched(node, node'), evict' = evict
  PROVE  Pass' /\ Shape(node') /\ Grown(node, node')
<1> HIDE DEF NodeRec
<1>1. Shape(node) /\ Pass
  BY DEF IndInv
<1>2. Shape(node') /\ Att(node') = Att(node) /\ DOMAIN node' = DOMAIN node
  BY <1>1, LinksKept
<1>3. HeapOK(node', evict)
  BY <1>1, <1>2, HeapTouched DEF Pass
<1>4. Pass'
  <2> HIDE DEF HeapOK
  <2> QED
    BY <1>1, <1>2, <1>3 DEF Pass, Evicting
<1> QED
  BY <1>2, <1>4 DEF Grown, Touched

\* While there is no pass there is no heap either.
LEMMA NoPass ==
  ASSUME IndInv, ~Evicting, evict' = evict, DOMAIN node \subseteq DOMAIN node'
  PROVE  Pass'
<1>1. DOMAIN evict.heap = {} /\ evict.pc # "prune"
  BY DEF IndInv, Pass, Evicting
<1>2. Found(node', {})
  BY DEF Found
<1>3. HeapOK(node', evict)
  BY <1>1, <1>2 DEF HeapOK
<1> HIDE DEF HeapOK
<1> QED
  BY <1>1, <1>3 DEF IndInv, Pass, Evicting

\* A step of a task that leaves the tree alone.
LEMMA SameTree ==
  ASSUME IndInv, node' = node, count' = count, epoch' \in {epoch, epoch + 1}, evict' = evict
  PROVE  Shape(node') /\ Counters' /\ Pass' /\ Grown(node, node')
<1>1. Shape(node') /\ Grown(node, node')
  BY DEF IndInv, Grown
<1>2. Counters'
  BY DEF IndInv, Counters
<1>3. Pass'
  <2> HIDE DEF HeapOK
  <2> QED
    BY DEF IndInv, Pass, Evicting
<1> QED
  BY <1>1, <1>2, <1>3

\* Texts are sequences of characters.
LEMMA TextType ==
  ASSUME NEW x \in Text \cup {<< >>}
  PROVE  x \in Seq(Char) /\ Len(x) \in Nat
<1>1. Text \subseteq Seq(Char) /\ << >> \in Seq(Char)
  BY TreeAssumption, EmptySeq
<1>2. x \in Seq(Char)
  BY <1>1
<1> QED
  BY <1>2, LenProperties

\* What task k has left of its text.
LEMMA RemainingIs ==
  ASSUME NEW r \in TaskRec, r.off <= Len(r.text)
  PROVE  LET rest == Advance(r.text, r.off)
         IN  /\ rest \in Seq(Char) /\ Len(rest) \in Nat /\ Len(rest) = Len(r.text) - r.off
             /\ rest # << >> => Len(rest) > 0 /\ rest[1] \in Char
<1>1. r.text \in Seq(Char) /\ Len(r.text) \in Nat /\ r.off \in 0 .. Len(r.text)
  <2>1. r.text \in Text \cup {<< >>} /\ r.off \in Nat
    BY DEF TaskRec
  <2>2. r.text \in Seq(Char) /\ Len(r.text) \in Nat
    BY <2>1, TextType
  <2> QED
    BY <2>1, <2>2
<1>2. /\ Advance(r.text, r.off) \in Seq(Char)
      /\ Len(Advance(r.text, r.off)) = Len(r.text) - r.off
  <2> DEFINE s == r.text
             o == r.off
  <2>1. s \in Seq(Char) /\ o \in 0 .. Len(s)
    BY <1>1
  <2> HIDE DEF s, o
  <2>2. Advance(s, o) \in Seq(Char) /\ Len(Advance(s, o)) = Len(s) - o
    BY <2>1, HalfText
  <2> QED
    BY <2>2 DEF s, o
<1> DEFINE rest == Advance(r.text, r.off)
<1> HIDE DEF rest
<1>3. rest \in Seq(Char) /\ Len(rest) = Len(r.text) - r.off
  BY <1>2 DEF rest
<1>4. Len(rest) \in Nat
  BY <1>1, <1>3
<1>5. rest # << >> => Len(rest) > 0 /\ rest[1] \in Char
  <2>1. rest # << >> => Len(rest) \in Nat \ {0}
    BY <1>3, EmptySeq
  <2>2. Len(rest) > 0 => 1 \in 1 .. Len(rest)
    BY <1>4
  <2> QED
    BY <1>3, <2>1, <2>2, ElementOfSeq
<1> QED
  BY <1>3, <1>4, <1>5 DEF rest

----------------------------------------------------------------------------
(* The steps of a request task. *)

\* A task that starts.
Waiting(x, t) == [Idle EXCEPT !.pc = "lock", !.text = x, !.tenant = t]
Walking(x) == [Idle EXCEPT !.pc = "walk", !.text = x]

\* A task that starts stands at the root.
LEMMA StartOK ==
  ASSUME NEW N, Shape(N), NEW r \in TaskRec, r.pc \in {"lock", "walk"},
         r.at = Root, r.child = Root, r.off = 0, r.pc = "lock" => r.tenant \in Tenant
  PROVE  TaskOK(N, r)
<1>1. Len(r.text) \in Nat
  BY TextType DEF TaskRec
<1>2. Root \in DOMAIN N
  BY DEF Shape
<1> HIDE DEF TaskRec
<1> QED
  BY <1>1, <1>2 DEF TaskOK

\* An insert starts by waiting for the lock.
LEMMA WaitingOK ==
  ASSUME NEW N, Shape(N), NEW x \in Text, NEW t \in Tenant
  PROVE  TaskOK(N, Waiting(x, t)) /\ Waiting(x, t).pc = "lock"
<1> DEFINE r == Waiting(x, t)
<1>1. r \in TaskRec /\ r.pc = "lock" /\ r.at = Root /\ r.child = Root /\ r.off = 0 /\ r.tenant = t
  <2> HIDE DEF Idle
  <2> QED
    BY IdleType DEF Waiting, TaskRec, Holder
<1> HIDE DEF r, TaskRec
<1> QED
  BY <1>1, StartOK DEF r

\* A match starts by walking.
LEMMA WalkingOK ==
  ASSUME NEW N, Shape(N), NEW x \in Text
  PROVE  TaskOK(N, Walking(x)) /\ Walking(x).pc = "walk"
<1> DEFINE r == Walking(x)
<1>1. r \in TaskRec /\ r.pc = "walk" /\ r.at = Root /\ r.child = Root /\ r.off = 0
  <2> HIDE DEF Idle
  <2> QED
    BY IdleType DEF Walking, TaskRec
<1> HIDE DEF r, TaskRec
<1> QED
  BY <1>1, StartOK DEF r

\* An insert is called.
LEMMA RecordInv ==
  ASSUME IndInv, NEW k \in Task, NEW x \in Text, NEW t \in Tenant, Record(k, x, t)
  PROVE  IndInv'
<1> DEFINE r == Waiting(x, t)
<1>1. /\ task' = [task EXCEPT ![k] = r]
      /\ node' = node /\ count' = count /\ epoch' = epoch /\ evict' = evict
      /\ task[k].pc = "idle" /\ EpochLeft
  BY DEF Record, Waiting, treeVars
<1>2. Shape(node') /\ Counters' /\ Pass' /\ Grown(node, node')
  BY <1>1, SameTree
<1>3. TaskOK(node', r) /\ r.pc = "lock"
  BY <1>2, WaitingOK
<1> HIDE DEF r
<1>4. Tasks' /\ Epochs' /\ Locked'
  BY <1>1, <1>2, <1>3, TaskMoves
<1> QED
  BY <1>2, <1>4 DEF IndInv

\* A match is called.
LEMMA MatchInv ==
  ASSUME IndInv, NEW k \in Task, NEW x \in Text, Match(k, x)
  PROVE  IndInv'
<1> DEFINE r == Walking(x)
<1>1. /\ task' = [task EXCEPT ![k] = r]
      /\ node' = node /\ count' = count /\ epoch' = epoch /\ evict' = evict
      /\ task[k].pc = "idle" /\ EpochLeft
  BY DEF Match, Walking, treeVars
<1>2. Shape(node') /\ Counters' /\ Pass' /\ Grown(node, node')
  BY <1>1, SameTree
<1>3. TaskOK(node', r) /\ r.pc = "walk"
  BY <1>2, WalkingOK
<1> HIDE DEF r
<1>4. Tasks' /\ Epochs' /\ Locked'
  BY <1>1, <1>2, <1>3, TaskMoves
<1> QED
  BY <1>2, <1>4 DEF IndInv

\* An insert gives up waiting for the lock.
LEMMA LockTimeoutInv ==
  ASSUME IndInv, NEW k \in Task, LockTimeout(k)
  PROVE  IndInv'
<1>1. /\ task' = [task EXCEPT ![k] = Idle]
      /\ node' = node /\ count' = count /\ epoch' = epoch /\ evict' = evict
      /\ task[k].pc # "idle"
  BY DEF LockTimeout, treeVars
<1>2. Shape(node') /\ Counters' /\ Pass' /\ Grown(node, node')
  BY <1>1, SameTree
<1>3. TaskOK(node', Idle) /\ Idle.pc = "idle"
  BY <1>2, IdleOK, IdleType
<1> HIDE DEF Idle
<1>4. Tasks' /\ Epochs' /\ Locked'
  BY <1>1, <1>2, <1>3, TaskMoves
<1> QED
  BY <1>2, <1>4 DEF IndInv

\* The steps of a match that only look at the tree.
LEMMA MatchGetInv ==
  ASSUME IndInv, NEW k \in Task, MatchGet(k)
  PROVE  IndInv'
<1> DEFINE more == ~(Remaining(k) = << >> \/ Vacant(k))
           r == IF more THEN [task[k] EXCEPT !.pc = "read", !.child = ChildOf(k)]
                ELSE [task[k] EXCEPT !.pc = "pick"]
<1>1. TaskOK(node, task[k]) /\ task \in [Task -> TaskRec] /\ Shape(node)
  BY DEF IndInv, Tasks
<1>2. /\ task' = [task EXCEPT ![k] = r]
      /\ node' = node /\ count' = count /\ epoch' = epoch /\ evict' = evict
      /\ task[k].pc = "walk"
  BY DEF MatchGet, treeVars
<1>3. Shape(node') /\ Counters' /\ Pass' /\ Grown(node, node')
  BY <1>2, SameTree
<1>4. TaskOK(node, r) /\ r.pc \in {"read", "pick"}
  <2>1. CASE more
    <3>1. ChildOf(k) \in DOMAIN node
      <4>1. task[k].at \in DOMAIN node /\ Remaining(k)[1] \in DOMAIN node[task[k].at].children
        BY <1>1, <2>1 DEF TaskOK, Vacant
      <4> QED
        <5> DEFINE p == task[k].at
                   c == Remaining(k)[1]
        <5>1. p \in DOMAIN node /\ c \in DOMAIN node[p].children
          BY <4>1
        <5> HIDE DEF p, c
        <5>2. node[p].children[c] \in DOMAIN node
          BY <1>1, <5>1, ShapeLink
        <5> QED
          BY <5>2 DEF ChildOf, p, c
    <3>2. ChildOf(k) \in Nat
      BY <1>1, <3>1, NodeIndex
    <3> HIDE DEF more
    <3>3. /\ r \in TaskRec /\ r.pc = "read" /\ r.at = task[k].at /\ r.child = ChildOf(k)
          /\ r.off = task[k].off /\ r.text = task[k].text
      BY <1>1, <2>1, <3>2 DEF TaskRec
    <3> HIDE DEF r, TaskRec
    <3> QED
      BY <1>1, <3>1, <3>3 DEF TaskOK
  <2>2. CASE ~more
    <3> HIDE DEF more
    <3>1. /\ r \in TaskRec /\ r.pc = "pick" /\ r.at = task[k].at /\ r.child = task[k].child
          /\ r.off = task[k].off /\ r.text = task[k].text
      BY <1>1, <2>2 DEF TaskRec
    <3> HIDE DEF r, TaskRec
    <3> QED
      BY <1>1, <3>1 DEF TaskOK
  <2> QED
    BY <2>1, <2>2
<1> HIDE DEF r
<1>5. Tasks' /\ Epochs' /\ Locked'
  BY <1>2, <1>3, <1>4, TaskMoves
<1> QED
  BY <1>3, <1>5 DEF IndInv

\* A match reads the child it got.
LEMMA MatchReadInv ==
  ASSUME IndInv, NEW k \in Task, MatchRead(k)
  PROVE  IndInv'
<1> DEFINE n == task[k].child
           shared == SharedCount(Remaining(k), node[n].text)
           pc == IF shared = Len(node[n].text) THEN "walk" ELSE "pick"
           r == [task[k] EXCEPT !.pc = pc, !.at = n, !.off = @ + shared]
<1>1. TaskOK(node, task[k]) /\ task[k] \in TaskRec /\ Shape(node) /\ n \in DOMAIN node
  BY DEF IndInv, Tasks, TaskOK
<1>2. /\ task' = [task EXCEPT ![k] = r]
      /\ node' = node /\ count' = count /\ epoch' = epoch /\ evict' = evict
      /\ task[k].pc = "read"
  BY DEF MatchRead, treeVars
<1>3. Shape(node') /\ Counters' /\ Pass' /\ Grown(node, node')
  BY <1>2, SameTree
<1>4. /\ Remaining(k) \in Seq(Char)
      /\ Len(Remaining(k)) = Len(task[k].text) - task[k].off
      /\ task[k].off \in Nat /\ Len(task[k].text) \in Nat
  <2>1. task[k].off <= Len(task[k].text)
    BY <1>1 DEF TaskOK
  <2>2. task[k].off \in Nat /\ task[k].text \in Text \cup {<< >>}
    BY <1>1 DEF TaskRec
  <2> HIDE DEF TaskRec
  <2> QED
    BY <1>1, <2>1, <2>2, RemainingIs, TextType DEF Remaining
<1>5. shared \in 0 .. Len(Remaining(k))
  <2>1. node[n].text \in Seq(Char)
    BY <1>1, NodeType DEF Shape
  <2> QED
    BY <1>4, <2>1, SharedCountIs
<1>6. pc \in {"walk", "pick"} /\ n \in Nat
  <2>1. n \in Nat
    BY <1>1 DEF TaskRec
  <2> QED
    BY <2>1
<1>7. task[k].off + shared \in Nat /\ task[k].off + shared <= Len(task[k].text)
  <2> HIDE DEF shared
  <2> QED
    BY <1>4, <1>5
<1>8. TaskOK(node, r) /\ r.pc \in {"walk", "pick"}
  <2> HIDE DEF pc, shared, n
  <2>1. /\ r \in TaskRec /\ r.pc = pc /\ r.at = n /\ r.child = task[k].child
        /\ r.off = task[k].off + shared /\ r.text = task[k].text
    BY <1>1, <1>6, <1>7 DEF TaskRec
  <2> HIDE DEF r, TaskRec
  <2> QED
    BY <1>1, <1>6, <1>7, <2>1 DEF TaskOK
<1> HIDE DEF r
<1>9. Tasks' /\ Epochs' /\ Locked'
  BY <1>2, <1>3, <1>8, TaskMoves
<1> QED
  BY <1>3, <1>9 DEF IndInv

\* A tenant is attached to a node, or its timestamp there refreshed.
Attach(N, n, t, v) == SetAccess(N, n, Put(N[n].access, t, v))

\* What Attach changes.
LEMMA AttachNode ==
  ASSUME NEW N \in Seq(NodeRec), NEW n \in DOMAIN N, NEW t \in Holder, NEW v \in Stamp
  PROVE  LET M == Attach(N, n, t, v)
         IN  /\ M \in Seq(NodeRec) /\ SameLinks(N, M)
             /\ DOMAIN M[n].access = DOMAIN N[n].access \cup {t} /\ M[n].access[t] = v
             /\ \A s \in DOMAIN N[n].access : s # t => M[n].access[s] = N[n].access[s]
             /\ \A m \in DOMAIN N : m # n => M[m].access = N[m].access
<1> DEFINE a == Put(N[n].access, t, v)
<1>1. N[n].access \in Maps(Holder, Stamp)
  BY NodeType DEF Accesses
<1>2. /\ a \in Accesses
      /\ DOMAIN a = DOMAIN N[n].access \cup {t}
      /\ a[t] = v
      /\ \A x \in DOMAIN N[n].access : x # t => a[x] = N[n].access[x]
  <2>1. a \in Accesses
    BY <1>1, PutMap DEF Accesses
  <2> QED
    BY <2>1 DEF Put
<1> HIDE DEF NodeRec, a
<1>3. /\ SetAccess(N, n, a) \in Seq(NodeRec) /\ SameLinks(N, SetAccess(N, n, a))
      /\ SetAccess(N, n, a)[n].access = a
      /\ \A m \in DOMAIN N : m # n => SetAccess(N, n, a)[m].access = N[m].access
  BY <1>2, AccessSet
<1>4. Attach(N, n, t, v) = SetAccess(N, n, a)
  BY DEF Attach, a
<1> QED
  BY <1>2, <1>3, <1>4

\* A step of insert: the tree grows, and no pass is running.
LEMMA InsertMoves ==
  ASSUME IndInv, NEW k \in Task, NEW r, task' = [task EXCEPT ![k] = r],
         task[k].pc \in {"lock", "insert"}, ~Evicting, evict' = evict,
         Shape(node'), Grown(node, node'), TaskOK(node', r), Counters',
         \/ r.pc = "insert" /\ epoch' = epoch
         \/ r.pc \in {"idle", "refresh"} /\ epoch' = epoch + 1
  PROVE  IndInv'
<1>1. DOMAIN node \subseteq DOMAIN node'
  BY DEF Grown
<1>2. Pass'
  BY <1>1, NoPass
<1>3. Tasks' /\ Epochs' /\ Locked'
  <2> HIDE DEF IndInv, TaskOK, Grown
  <2>1. CASE r.pc = "insert" /\ epoch' = epoch
    BY <2>1, TaskMoves
  <2>2. CASE r.pc \in {"idle", "refresh"} /\ epoch' = epoch + 1
    BY <2>2, TaskMoves
  <2> QED
    BY <2>1, <2>2
<1> QED
  BY <1>2, <1>3 DEF IndInv

\* What an insert under way can rely on.
LEMMA InsertNow ==
  ASSUME IndInv, NEW k \in Task, task[k].pc = "insert"
  PROVE  /\ ~Evicting /\ Shape(node) /\ node \in Seq(NodeRec)
         /\ TaskOK(node, task[k]) /\ task[k] \in TaskRec /\ task \in [Task -> TaskRec]
         /\ task[k].tenant \in Tenant /\ task[k].at \in DOMAIN node /\ task[k].at \in Att(node)
         /\ task[k].tenant \in DOMAIN node[task[k].at].access
         /\ epoch \in 0 .. MaxEpoch
         /\ count \in [Tenant -> Nat]
<1>1. TaskOK(node, task[k]) /\ task \in [Task -> TaskRec]
  BY DEF IndInv, Tasks
<1>2. epoch \in 0 .. MaxEpoch
  BY EpochFound
<1> HIDE DEF TaskRec, NodeRec
<1> QED
  BY <1>1, <1>2 DEF IndInv, Locked, TaskOK, Counters, Shape

\* An insert gets the lock and stamps the root.
LEMMA InsertAtRootInv ==
  ASSUME IndInv, NEW k \in Task, InsertAtRoot(k)
  PROVE  IndInv'
<1> DEFINE t == task[k].tenant
           r == [task[k] EXCEPT !.pc = "insert"]
<1>1. /\ task[k].pc = "lock" /\ ~Evicting
      /\ task' = [task EXCEPT ![k] = r]
      /\ count' = count /\ epoch' = epoch /\ evict' = evict
      /\ node' = IF t \in DOMAIN node[Root].access THEN node ELSE Attach(node, Root, t, 0)
  BY DEF InsertAtRoot, Goto, Has, Attach, SetAccess
<1>2. /\ Shape(node) /\ node \in Seq(NodeRec) /\ Root \in DOMAIN node
      /\ TaskOK(node, task[k]) /\ task[k] \in TaskRec /\ task[k].at = Root /\ t \in Tenant
      /\ MaxEpoch \in Nat
  <2> HIDE DEF TaskRec, NodeRec
  <2> QED
    BY <1>1, TreeAssumption DEF IndInv, Tasks, TaskOK, Counters, Shape
<1>3. /\ Shape(node') /\ Grown(node, node') /\ t \in DOMAIN node'[Root].access
      /\ Root \in DOMAIN node'
  <2>1. CASE t \in DOMAIN node[Root].access
    BY <1>1, <1>2, <2>1 DEF Grown
  <2>2. CASE t \notin DOMAIN node[Root].access
    <3>1. node' = Attach(node, Root, t, 0) /\ t \in Holder /\ 0 \in Stamp
      BY <1>1, <1>2, <2>2 DEF Holder, Stamp
    <3> HIDE DEF t, NodeRec, Root
    <3>2. /\ node' \in Seq(NodeRec) /\ SameLinks(node, node')
          /\ DOMAIN node'[Root].access = DOMAIN node[Root].access \cup {t}
          /\ \A m \in DOMAIN node : m # Root => node'[m].access = node[m].access
      BY <1>2, <3>1, AttachNode
    <3>3. Shape(node') /\ Att(node') = Att(node) /\ DOMAIN node' = DOMAIN node
      BY <1>2, <3>2, LinksKept
    <3> QED
      BY <1>2, <3>2, <3>3 DEF Grown
  <2> QED
    BY <2>1, <2>2
<1>4. TaskOK(node', r) /\ r.pc = "insert"
  <2>1. /\ r \in TaskRec /\ r.pc = "insert" /\ r.at = Root /\ r.child = task[k].child
        /\ r.off = task[k].off /\ r.text = task[k].text /\ r.tenant = t
    BY <1>2 DEF TaskRec
  <2>2. Root \in Att(node')
    BY AttIs
  <2> HIDE DEF r, TaskRec, t
  <2> QED
    BY <1>2, <1>3, <2>1, <2>2 DEF TaskOK, Grown
<1>5. Counters'
  BY <1>1, <1>3 DEF IndInv, Counters
<1> HIDE DEF r
<1> QED
  BY <1>1, <1>3, <1>4, <1>5, InsertMoves

\* A task takes an epoch, to write it to the node it stands on.
LEMMA DrawOK ==
  ASSUME IndInv, NEW k \in Task, NEW pc \in {"stamp", "refresh"},
         task[k].pc = IF pc = "refresh" THEN "insert" ELSE "touch",
         NEW r, r = [task[k] EXCEPT !.pc = pc, !.stamp = epoch]
  PROVE  TaskOK(node, r) /\ r.pc = pc
<1>1. TaskOK(node, task[k]) /\ task[k] \in TaskRec /\ epoch \in Stamp
  <2>1. epoch \in Stamp
    BY EpochFound DEF Stamp
  <2> HIDE DEF TaskRec
  <2> QED
    BY <2>1 DEF IndInv, Tasks, TaskOK
<1>2. /\ r \in TaskRec /\ r.pc = pc /\ r.at = task[k].at /\ r.child = task[k].child
      /\ r.off = task[k].off /\ r.text = task[k].text /\ r.tenant = task[k].tenant
  <2> HIDE DEF Stamp
  <2> QED
    BY <1>1 DEF TaskRec
<1> HIDE DEF TaskRec
<1> QED
  BY <1>1, <1>2 DEF TaskOK

\* An insert has used up its text.
LEMMA InsertEndInv ==
  ASSUME IndInv, NEW k \in Task, InsertEnd(k)
  PROVE  IndInv'
<1> DEFINE r == [task[k] EXCEPT !.pc = "refresh", !.stamp = epoch]
<1>1. /\ task[k].pc = "insert"
      /\ task' = [task EXCEPT ![k] = r]
      /\ node' = node /\ count' = count /\ epoch' = epoch + 1 /\ evict' = evict
  BY DEF InsertEnd, Draw
<1>2. Shape(node') /\ Counters' /\ Grown(node, node')
  BY <1>1, SameTree
<1>3. TaskOK(node', r) /\ r.pc = "refresh"
  BY <1>1, DrawOK
<1>4. ~Evicting
  BY <1>1, InsertNow
<1> HIDE DEF r
<1> QED
  BY <1>1, <1>2, <1>3, <1>4, InsertMoves

\* A match picks a tenant.
LEMMA MatchPickInv ==
  ASSUME IndInv, NEW k \in Task, NEW t \in Holder, MatchPick(k, t)
  PROVE  IndInv'
<1> DEFINE n == task[k].at
           r == [task[k] EXCEPT !.pc = "touch", !.tenant = t]
<1>1. /\ task[k].pc = "pick"
      /\ task' = [task EXCEPT ![k] = r]
      /\ count' = count /\ epoch' = epoch /\ evict' = evict
      /\ node' = SetLast(node, n, t)
  BY DEF MatchPick, SetLast
<1>2. /\ Shape(node) /\ node \in Seq(NodeRec) /\ TaskOK(node, task[k]) /\ n \in DOMAIN node
      /\ task[k] \in TaskRec
  <2> HIDE DEF TaskRec, NodeRec
  <2> QED
    BY DEF IndInv, Tasks, TaskOK, Counters, Shape
<1>3. node' \in Seq(NodeRec) /\ SameLinks(node, node') /\ SameAccess(node, node')
  <2>1. t \in Holder \cup {NoTenant}
    OBVIOUS
  <2> HIDE DEF NodeRec, Holder, n
  <2> QED
    BY <1>1, <1>2, <2>1, LastSet
<1>4. Touched(node, node')
  BY <1>3 DEF SameAccess, Touched
<1>5. Pass' /\ Shape(node') /\ Grown(node, node')
  BY <1>1, <1>3, <1>4, PassTouched
<1>6. DOMAIN node' = DOMAIN node /\ Att(node') = Att(node)
  BY <1>2, <1>3, LinksKept
<1>7. Counters'
  BY <1>1 DEF IndInv, Counters
<1>8. TaskOK(node', r) /\ r.pc = "touch"
  <2>1. /\ r \in TaskRec /\ r.pc = "touch" /\ r.at = n /\ r.child = task[k].child
        /\ r.off = task[k].off /\ r.text = task[k].text /\ r.tenant = t
    BY <1>2 DEF TaskRec
  <2> HIDE DEF r, TaskRec
  <2> QED
    BY <1>2, <1>6, <2>1 DEF TaskOK
<1> HIDE DEF r
<1>9. Tasks' /\ Epochs' /\ Locked'
  BY <1>1, <1>5, <1>8, TaskMoves
<1> QED
  BY <1>5, <1>7, <1>9 DEF IndInv

\* A match takes an epoch, and keeps it one time in TouchEvery.
LEMMA MatchTouchInv ==
  ASSUME IndInv, NEW k \in Task, MatchTouch(k)
  PROVE  IndInv'
<1> DEFINE r == [task[k] EXCEPT !.pc = "stamp", !.stamp = epoch]
<1>1. /\ task[k].pc = "touch"
      /\ node' = node /\ count' = count /\ epoch' = epoch + 1 /\ evict' = evict
      /\ task' = [task EXCEPT ![k] = r] \/ task' = [task EXCEPT ![k] = Idle]
  BY DEF MatchTouch, Draw
<1>2. Shape(node') /\ Counters' /\ Pass' /\ Grown(node, node')
  BY <1>1, SameTree
<1>3. TaskOK(node', r) /\ r.pc = "stamp"
  BY <1>1, DrawOK
<1>4. TaskOK(node', Idle) /\ Idle.pc = "idle"
  BY <1>2, IdleOK, IdleType
<1> HIDE DEF r, Idle
<1>5. Tasks' /\ Epochs' /\ Locked'
  <2>1. CASE task' = [task EXCEPT ![k] = r]
    BY <1>1, <1>2, <1>3, <2>1, TaskMoves
  <2>2. CASE task' = [task EXCEPT ![k] = Idle]
    BY <1>1, <1>2, <1>4, <2>2, TaskMoves
  <2> QED
    BY <1>1, <2>1, <2>2
<1> QED
  BY <1>2, <1>5 DEF IndInv

\* The epoch is written to the node, whatever has happened since it was taken.
LEMMA TouchInv ==
  ASSUME IndInv, NEW k \in Task, Touch(k)
  PROVE  IndInv'
<1> DEFINE n == task[k].at
           t == task[k].tenant
           v == task[k].stamp
<1>1. /\ task[k].pc \in {"stamp", "refresh"}
      /\ task' = [task EXCEPT ![k] = Idle]
      /\ count' = count /\ epoch' = epoch /\ evict' = evict
      /\ node' = Attach(node, n, t, v)
  BY DEF Touch, Drawn, Attach, SetAccess
<1>2. TaskOK(node, task[k]) /\ Shape(node) /\ node \in Seq(NodeRec)
  BY DEF IndInv, Tasks, Shape
<1>3. n \in DOMAIN node /\ t \in Holder /\ v \in Stamp
  <2>1. n \in DOMAIN node /\ t \in Holder /\ task[k] \in TaskRec
    <3> HIDE DEF TaskRec
    <3> QED
      BY <1>1, <1>2 DEF TaskOK, Holder
  <2> HIDE DEF Stamp
  <2> QED
    BY <2>1 DEF TaskRec
<1> HIDE DEF n, t, v, NodeRec, Idle
<1>4. /\ node' \in Seq(NodeRec) /\ SameLinks(node, node')
      /\ DOMAIN node'[n].access = DOMAIN node[n].access \cup {t}
      /\ \A m \in DOMAIN node : m # n => node'[m].access = node[m].access
  BY <1>1, <1>2, <1>3, AttachNode
<1>5. Touched(node, node')
  BY <1>4 DEF Touched
<1>6. Pass' /\ Shape(node') /\ Grown(node, node')
  BY <1>1, <1>4, <1>5, PassTouched
<1>7. Counters'
  BY <1>1 DEF IndInv, Counters
<1>8. TaskOK(node', Idle) /\ Idle.pc = "idle"
  BY <1>6, IdleOK, IdleType
<1>9. Tasks' /\ Epochs' /\ Locked'
  BY <1>1, <1>6, <1>8, TaskMoves
<1> QED
  BY <1>6, <1>7, <1>9 DEF IndInv

\* The text an insert has left.
LEMMA InsertRest ==
  ASSUME IndInv, NEW k \in Task, task[k].pc = "insert"
  PROVE  /\ Remaining(k) \in Seq(Char)
         /\ Len(Remaining(k)) \in Nat
         /\ Len(Remaining(k)) = Len(task[k].text) - task[k].off
         /\ Len(task[k].text) \in Nat /\ task[k].off \in Nat
         /\ Remaining(k) # << >> => Len(Remaining(k)) > 0 /\ Remaining(k)[1] \in Char
<1>1. TaskOK(node, task[k]) /\ task[k] \in TaskRec
  BY InsertNow
<1>2. task[k].off <= Len(task[k].text)
  BY <1>1 DEF TaskOK
<1>3. task[k].off \in Nat /\ Len(task[k].text) \in Nat
  BY <1>1, TextType DEF TaskRec
<1> HIDE DEF TaskRec
<1> QED
  BY <1>1, <1>2, <1>3, RemainingIs DEF Remaining

\* An insert adds a leaf.
LEMMA InsertLeafInv ==
  ASSUME IndInv, NEW k \in Task, InsertLeaf(k)
  PROVE  IndInv'
<1> DEFINE p == task[k].at
           t == task[k].tenant
           rest == Remaining(k)
           a == [s \in {t} |-> epoch]
           leaf == NewNode(rest, p, a, t)
           h == Len(node) + 1
<1>1. /\ task[k].pc = "insert" /\ rest # << >> /\ rest[1] \notin DOMAIN node[p].children
      /\ task' = [task EXCEPT ![k] = Idle]
      /\ count' = [count EXCEPT ![t] = @ + Len(rest)] /\ epoch' = epoch + 1 /\ evict' = evict
      /\ node' = AddLeaf(node, p, rest[1], leaf)
  BY DEF InsertLeaf, Vacant, AddLeaf, SetKids
<1>2. /\ ~Evicting /\ Shape(node) /\ node \in Seq(NodeRec)
      /\ t \in Tenant /\ t \in Holder /\ p \in DOMAIN node /\ p \in Att(node)
      /\ epoch \in Stamp /\ epoch \in Nat
      /\ count \in [Tenant -> Nat]
  BY <1>1, InsertNow, TreeAssumption DEF Holder, Stamp
<1>3. rest \in Seq(Char) /\ rest[1] \in Char /\ Len(rest) \in Nat
  BY <1>1, InsertRest
<1>4. p \in Nat
  BY <1>2, ShapeNode, LenProperties
<1>5. a \in Accesses /\ DOMAIN a = {t} /\ a[t] = epoch
  BY <1>2, OneMap DEF Accesses
<1> HIDE DEF NodeRec, rest, p, t, a, Idle
<1>6. /\ leaf \in NodeRec /\ leaf.children = << >> /\ leaf.parent = p
      /\ leaf.text = rest /\ leaf.access = a
  BY <1>2, <1>3, <1>4, <1>5, NewNodeType
<1> HIDE DEF leaf
<1>7. /\ node' \in Seq(NodeRec) /\ LeafAdded(node, node', p, rest[1])
      /\ SameAccess(node, node') /\ node'[h] = leaf
  BY <1>1, <1>2, <1>3, <1>6, LeafAdd
<1>8. Shape(node') /\ Att(node') = Att(node) \cup {h} /\ DOMAIN node' = DOMAIN node \cup {h}
  BY <1>1, <1>2, <1>3, <1>7, LinksLeaf
<1>9. Grown(node, node')
  BY <1>7, <1>8 DEF Grown, SameAccess
<1>10. Counters'
  BY <1>1, <1>2, <1>3 DEF Counters
<1>11. TaskOK(node', Idle) /\ Idle.pc = "idle"
  BY <1>8, IdleOK, IdleType
<1> QED
  BY <1>1, <1>2, <1>8, <1>9, <1>10, <1>11, InsertMoves

\* Task k has reached the node m of the tree M.
LEMMA ReachInv ==
  ASSUME IndInv, NEW k \in Task, task[k].pc = "insert",
         NEW M, Shape(M), Grown(node, M), NEW m \in Att(M),
         Len(M[m].text) <= Len(Remaining(k)),
         Reach(k, M, m)
  PROVE  IndInv'
<1> DEFINE t == task[k].tenant
           len == Len(M[m].text)
           r == [task[k] EXCEPT !.at = m, !.off = @ + len]
<1>1. /\ ~Evicting /\ t \in Tenant /\ t \in Holder /\ epoch \in Nat /\ 0 \in Stamp
      /\ count \in [Tenant -> Nat] /\ TaskOK(node, task[k]) /\ task[k] \in TaskRec
      /\ task \in [Task -> TaskRec]
  BY InsertNow, TreeAssumption DEF Holder, Stamp
<1>2. M \in Seq(NodeRec) /\ m \in DOMAIN M /\ m \in Nat /\ len \in Nat
  <2>1. M \in Seq(NodeRec) /\ m \in DOMAIN M
    BY AttType, ShapeNode
  <2>2. M[m].text \in Seq(Char)
    BY <2>1, NodeType
  <2> HIDE DEF NodeRec
  <2> QED
    BY <2>1, <2>2, LenProperties
<1>3. /\ task' = [task EXCEPT ![k] = r] /\ epoch' = epoch /\ evict' = evict
      /\ count' = count \/ count' = [count EXCEPT ![t] = @ + len]
  BY DEF Reach
<1>4. \/ t \in DOMAIN M[m].access /\ node' = M
      \/ node' = Attach(M, m, t, 0)
  BY DEF Reach, Attach, SetAccess
<1> HIDE DEF NodeRec, t, len
<1>5. /\ Shape(node') /\ Att(node') = Att(M) /\ DOMAIN node' = DOMAIN M
      /\ t \in DOMAIN node'[m].access
      /\ \A n \in DOMAIN M : DOMAIN M[n].access \subseteq DOMAIN node'[n].access
  <2>1. CASE t \in DOMAIN M[m].access /\ node' = M
    BY <2>1
  <2>2. CASE node' = Attach(M, m, t, 0)
    <3>1. /\ node' \in Seq(NodeRec) /\ SameLinks(M, node')
          /\ DOMAIN node'[m].access = DOMAIN M[m].access \cup {t}
          /\ \A n \in DOMAIN M : n # m => node'[n].access = M[n].access
      BY <1>1, <1>2, <2>2, AttachNode
    <3>2. Shape(node') /\ Att(node') = Att(M) /\ DOMAIN node' = DOMAIN M
      BY <3>1, LinksKept
    <3> QED
      BY <3>1, <3>2
  <2> QED
    BY <1>4, <2>1, <2>2
<1>6. Grown(node, node')
  BY <1>5 DEF Grown
<1>7. Counters'
  <2>1. count' \in [Tenant -> Nat]
    BY <1>1, <1>2, <1>3
  <2> QED
    BY <1>1, <1>3, <1>5, <2>1 DEF Counters
<1>8. TaskOK(node', r) /\ r.pc = "insert"
  <2>1. /\ Len(Remaining(k)) = Len(task[k].text) - task[k].off
        /\ Len(task[k].text) \in Nat /\ task[k].off \in Nat
    BY InsertRest
  <2>2. task[k].off + len \in Nat /\ task[k].off + len <= Len(task[k].text)
    <3>1. len <= Len(Remaining(k))
      BY DEF len
    <3> DEFINE rest == Len(Remaining(k))
               total == Len(task[k].text)
               off == task[k].off
    <3>2. rest = total - off /\ total \in Nat /\ off \in Nat /\ len \in Nat /\ len <= rest
      BY <1>2, <2>1, <3>1
    <3> HIDE DEF rest, total, off
    <3>3. off + len \in Nat /\ off + len <= total
      BY <3>2
    <3> QED
      BY <3>3 DEF total, off
  <2>3. /\ r \in TaskRec /\ r.pc = "insert" /\ r.at = m /\ r.child = task[k].child
        /\ r.off = task[k].off + len /\ r.text = task[k].text /\ r.tenant = t
    BY <1>1, <1>2, <2>2 DEF TaskRec, t
  <2> HIDE DEF r, TaskRec
  <2> QED
    BY <1>1, <1>2, <1>5, <1>6, <2>2, <2>3 DEF TaskOK, Grown
<1> HIDE DEF r
<1> QED
  BY <1>1, <1>3, <1>5, <1>6, <1>7, <1>8, InsertMoves

\* The child an insert or a match finds on the next character.
LEMMA ChildFound ==
  ASSUME Shape(node), NEW k \in Task, task[k].at \in DOMAIN node, ~Vacant(k),
         Remaining(k) \in Seq(Char), Remaining(k) # << >>
  PROVE  LET n == ChildOf(k)
             c == Remaining(k)[1]
             shared == SharedCount(Remaining(k), node[n].text)
         IN  /\ c \in DOMAIN node[task[k].at].children
             /\ n = node[task[k].at].children[c]
             /\ n \in DOMAIN node /\ n \in Att(node) /\ n # task[k].at /\ n # Root
             /\ node[n].parent = task[k].at
             /\ shared \in Nat /\ 1 <= shared
             /\ shared <= Len(Remaining(k)) /\ shared <= Len(node[n].text)
             /\ Len(node[n].text) \in Nat
<1> DEFINE n == ChildOf(k)
           c == Remaining(k)[1]
           p == task[k].at
           text == node[n].text
           shared == SharedCount(Remaining(k), text)
<1>1. c \in DOMAIN node[p].children /\ n = node[p].children[c]
  BY DEF Vacant, ChildOf
<1>2. /\ n \in DOMAIN node /\ n # Root /\ n # p /\ node[n].parent = p /\ text[1] = c
  <2>1. p \in DOMAIN node
    OBVIOUS
  <2> HIDE DEF n, c, p
  <2> QED
    BY <1>1, <2>1, ShapeLink
<1>3. n \in Att(node)
  BY <1>1, AttIs
<1>4. text \in Seq(Char) /\ text # << >>
  BY <1>2, ShapeNode, NodeType
<1>5. Len(text) \in Nat \ {0} /\ Len(Remaining(k)) \in Nat \ {0}
  BY <1>4, EmptySeq
<1>6. /\ shared \in 0 .. Len(Remaining(k)) /\ shared <= Len(text)
      /\ shared < Len(Remaining(k)) /\ shared < Len(text)
           => Remaining(k)[shared + 1] # text[shared + 1]
  BY <1>4, SharedCountIs
<1> HIDE DEF shared
<1>7. shared # 0
  BY <1>2, <1>5, <1>6
<1> HIDE DEF n, text, p, c
<1>8. shared \in Nat /\ 1 <= shared /\ shared <= Len(Remaining(k)) /\ shared <= Len(text)
  BY <1>5, <1>6, <1>7
<1> QED
  BY <1>1, <1>2, <1>3, <1>5, <1>8 DEF n, text, p, c, shared

\* An insert goes down, splitting the child if it must.
LEMMA InsertDownInv ==
  ASSUME IndInv, NEW k \in Task, InsertDown(k)
  PROVE  IndInv'
<1> DEFINE n == ChildOf(k)
           p == task[k].at
           c == Remaining(k)[1]
           shared == SharedCount(Remaining(k), node[n].text)
           h == Len(node) + 1
<1>1. task[k].pc = "insert" /\ Remaining(k) # << >> /\ ~Vacant(k)
  BY DEF InsertDown
<1>2. Shape(node) /\ node \in Seq(NodeRec) /\ p \in DOMAIN node
  BY <1>1, InsertNow
<1>3. Remaining(k) \in Seq(Char)
  BY <1>1, InsertRest
<1>4. /\ c \in DOMAIN node[p].children /\ n = node[p].children[c]
      /\ n \in DOMAIN node /\ n \in Att(node)
      /\ shared \in Nat /\ 1 <= shared
      /\ shared <= Len(Remaining(k)) /\ shared <= Len(node[n].text)
      /\ Len(node[n].text) \in Nat
  BY <1>1, <1>2, <1>3, ChildFound
<1>5. \/ shared < Len(node[n].text) /\ Reach(k, Split(n, p, shared), h)
      \/ ~(shared < Len(node[n].text)) /\ Reach(k, node, n)
  BY DEF InsertDown
<1> HIDE DEF n, p, c, shared, NodeRec
<1>6. CASE shared < Len(node[n].text) /\ Reach(k, Split(n, p, shared), h)
  <2> DEFINE M == Split(n, p, shared)
  <2>1. /\ M \in Seq(NodeRec) /\ SplitAt(node, M, n, p, shared) /\ SameAccess(node, M)
        /\ M[h].access = node[n].access
    BY <1>2, <1>4, <1>6, SplitSplits DEF Nodes
  <2> HIDE DEF M
  <2>2. Shape(M) /\ Att(M) = Att(node) \cup {h} /\ DOMAIN M = DOMAIN node \cup {h}
    BY <1>2, <1>4, <1>6, <2>1, LinksSplit
  <2>3. Grown(node, M)
    BY <2>1, <2>2 DEF Grown, SameAccess
  <2>4. h \in Att(M) /\ Len(M[h].text) <= Len(Remaining(k))
    BY <1>4, <2>1, <2>2 DEF SplitAt
  <2>5. Reach(k, M, h)
    BY <1>6 DEF M
  <2> HIDE DEF h
  <2> QED
    BY <1>1, <2>2, <2>3, <2>4, <2>5, ReachInv
<1>7. CASE ~(shared < Len(node[n].text)) /\ Reach(k, node, n)
  <2>1. Len(node[n].text) <= Len(Remaining(k))
    BY <1>4, <1>7
  <2>2. Grown(node, node)
    BY DEF Grown
  <2> QED
    BY <1>1, <1>2, <1>4, <1>7, <2>1, <2>2, ReachInv
<1> QED
  BY <1>5, <1>6, <1>7

----------------------------------------------------------------------------
(* The steps of a pass. *)

\* Att is the model's Attached, with the tree as a parameter.
LEMMA AttachedIs == Attached = Att(node)
BY DEF Attached, Att, Children, Nodes

\* Nobody below a node of which t is a leaf holds t.
LEMMA LeafIs ==
  ASSUME Shape(node), NEW p \in Att(node), NEW t, t \in LeafOf(p)
  PROVE  /\ t \in DOMAIN node[p].access
         /\ \A n \in Att(node) \ {Root} :
              node[n].parent = p => t \notin DOMAIN node[n].access
<1>1. t \in DOMAIN node[p].access /\ \A c \in Children(p) : t \notin DOMAIN node[c].access
  BY DEF LeafOf, Has
<1>2. ASSUME NEW n \in Att(node) \ {Root}, node[n].parent = p PROVE n \in Children(p)
  BY <1>2, ParentLink DEF Children
<1> QED
  BY <1>1, <1>2

\* The timestamps of a node.
LEMMA StampType ==
  ASSUME NEW N, Shape(N), NEW n \in DOMAIN N, NEW t \in DOMAIN N[n].access
  PROVE  N[n].access[t] \in Nat /\ t \in Holder
<1>1. N[n].access \in Maps(Holder, Stamp)
  BY ShapeNode, NodeType DEF Accesses
<1>2. N[n].access[t] \in Stamp /\ t \in Holder
  BY <1>1, MapType
<1> QED
  BY <1>2, TreeAssumption DEF Stamp

\* A pass leaves the request tasks where they are.
LEMMA PassKeepsTasks ==
  ASSUME IndInv, task' = task, epoch' = epoch, DOMAIN node \subseteq DOMAIN node',
         \A k \in Task : task[k].pc \notin {"insert", "refresh"}
  PROVE  Tasks' /\ Epochs' /\ Locked'
<1>1. Tasks'
  <2>1. ASSUME NEW k \in Task PROVE TaskOK(node', task[k])
    <3>1. TaskOK(node, task[k]) /\ Shape(node)
      BY DEF IndInv, Tasks
    <3> HIDE DEF TaskOK
    <3> QED
      BY <3>1, TaskStays
  <2> HIDE DEF TaskOK, TaskRec
  <2> QED
    BY <2>1 DEF IndInv, Tasks
<1>2. Epochs' /\ Locked'
  BY DEF IndInv, Epochs, Locked, Undrawn, Busy
<1> QED
  BY <1>1, <1>2

\* What is attached is what a pass finds.
LEMMA AttFound ==
  ASSUME NEW N, Shape(N)
  PROVE  Found(N, Att(N))
BY AttType, ParentLink DEF Found

\* A pass starts.
LEMMA EvictStartInv ==
  ASSUME IndInv, EvictStart
  PROVE  IndInv'
<1>1. /\ evict.pc = "wait" /\ Inserting = {}
      /\ node' = node /\ count' = count /\ epoch' = epoch /\ task' = task
  BY DEF EvictStart, WriteLockFree, treeVars
<1>2. PICK limit \in {0, MaxSize} :
        evict' = [evict EXCEPT !.pc = "pop", !.limit = limit, !.final = dropped,
                               !.heap = SetToBag(Leaves)]
  BY DEF EvictStart
<1>3. \A k \in Task : task[k].pc \notin {"insert", "refresh"}
  BY <1>1 DEF Inserting, Placing
<1>4. Tasks' /\ Epochs' /\ Locked'
  BY <1>1, <1>3, PassKeepsTasks
<1>5. Shape(node') /\ Counters'
  BY <1>1 DEF IndInv, Counters
<1> DEFINE B == SetToBag(Leaves)
<1>6. DOMAIN B = Leaves
  BY DEF SetToBag
<1> HIDE DEF B
<1>7. /\ DOMAIN evict' = {"pc", "limit", "final", "heap", "at", "tenant"}
      /\ evict'.pc = "pop" /\ evict'.limit = limit /\ evict'.heap = B
      /\ evict'.at = evict.at
  BY <1>2 DEF IndInv, Pass, B
<1>8. HeapOK(node', evict')
  <2>1. \A e \in Leaves : e.node \in Att(node)
    BY AttachedIs DEF Leaves, EvictionEntry
  <2>2. Found(node', Att(node))
    BY <1>1, <1>5, AttFound
  <2> HIDE DEF Leaves, Found
  <2> QED
    BY <1>6, <1>7, <2>1, <2>2 DEF HeapOK
<1>9. Pass'
  <2>1. limit \in Nat
    BY TreeAssumption
  <2>2. evict.at \in DOMAIN node
    BY DEF IndInv, Pass
  <2> HIDE DEF HeapOK
  <2> QED
    BY <1>1, <1>7, <1>8, <2>1, <2>2 DEF Pass, Evicting
<1> QED
  BY <1>4, <1>5, <1>9 DEF IndInv

\* What the eviction task finds when it pops e.
LEMMA PoppedIs ==
  ASSUME IndInv, NEW e, Popped(e)
  PROVE  /\ Evicting /\ e \in DOMAIN evict.heap
         /\ DOMAIN Rest(e) \subseteq DOMAIN evict.heap
         /\ \A k \in Task : task[k].pc \notin {"insert", "refresh"}
         /\ e.node \in DOMAIN node
<1>1. Evicting /\ e \in DOMAIN evict.heap
  BY DEF Popped, Evicting, BagToSet
<1>2. DOMAIN Rest(e) \subseteq DOMAIN evict.heap
  BY BagMinus DEF Rest
<1>3. e.node \in DOMAIN node
  BY <1>1 DEF IndInv, Pass, HeapOK, Found
<1> QED
  BY <1>1, <1>2, <1>3 DEF IndInv, Locked

\* A pass skips a tenant within its limit.
LEMMA EvictSkipInv ==
  ASSUME IndInv, NEW e, EvictSkip(e)
  PROVE  IndInv'
<1>1. /\ Popped(e) /\ evict' = [evict EXCEPT !.heap = Rest(e)]
      /\ node' = node /\ count' = count /\ epoch' = epoch /\ task' = task
  BY DEF EvictSkip, treeVars
<1>2. /\ DOMAIN Rest(e) \subseteq DOMAIN evict.heap
      /\ \A k \in Task : task[k].pc \notin {"insert", "refresh"}
  BY <1>1, PoppedIs
<1>3. Tasks' /\ Epochs' /\ Locked'
  BY <1>1, <1>2, PassKeepsTasks
<1>4. Shape(node') /\ Counters'
  BY <1>1 DEF IndInv, Counters
<1> DEFINE B == Rest(e)
<1> HIDE DEF B
<1>5. /\ DOMAIN evict' = {"pc", "limit", "final", "heap", "at", "tenant"}
      /\ evict'.pc = evict.pc /\ evict'.limit = evict.limit /\ evict'.heap = B
      /\ evict'.at = evict.at /\ evict.pc = "pop"
  BY <1>1 DEF IndInv, Pass, B, Popped
<1>6. Pass'
  <2>1. HeapOK(node, evict) /\ evict.limit \in Nat /\ evict.at \in DOMAIN node
    BY DEF IndInv, Pass
  <2>2. DOMAIN B \subseteq DOMAIN evict.heap
    BY <1>2 DEF B
  <2>3. HeapOK(node', evict')
    BY <1>1, <1>5, <2>1, <2>2 DEF HeapOK
  <2> HIDE DEF HeapOK
  <2> QED
    BY <1>1, <1>5, <2>1, <2>3 DEF Pass, Evicting
<1> QED
  BY <1>3, <1>4, <1>6 DEF IndInv

\* A pass ends.
LEMMA EvictEndInv ==
  ASSUME IndInv, EvictEnd
  PROVE  IndInv'
<1>1. /\ evict.pc = "pop" /\ DOMAIN evict.heap = {}
      /\ node' = node /\ count' = count /\ epoch' = epoch /\ task' = task
  BY DEF EvictEnd, treeVars, BagToSet
<1>2. \A k \in Task : task[k].pc \notin {"insert", "refresh"}
  BY <1>1 DEF IndInv, Locked, Evicting
<1>3. Tasks' /\ Epochs' /\ Locked'
  BY <1>1, <1>2, PassKeepsTasks
<1>4. Shape(node') /\ Counters'
  BY <1>1 DEF IndInv, Counters
<1>5. /\ DOMAIN evict' = {"pc", "limit", "final", "heap", "at", "tenant"}
      /\ evict'.pc \in {"stopped", "wait"} /\ evict'.limit = evict.limit
      /\ evict'.heap = evict.heap /\ evict'.at = evict.at
  BY DEF EvictEnd, IndInv, Pass
<1>6. Pass'
  <2>1. HeapOK(node', evict')
    BY <1>1, <1>5 DEF IndInv, Pass, HeapOK
  <2> HIDE DEF HeapOK
  <2> QED
    BY <1>1, <1>5, <2>1 DEF IndInv, Pass, Evicting
<1> QED
  BY <1>3, <1>4, <1>6 DEF IndInv

\* The tenant t is taken off the node n.
Detach(N, n, t) == SetAccess(N, n, Remove(N[n].access, t))

\* What Detach changes.
LEMMA DetachNode ==
  ASSUME NEW N \in Seq(NodeRec), NEW n \in DOMAIN N, NEW t
  PROVE  LET M == Detach(N, n, t)
         IN  /\ M \in Seq(NodeRec) /\ SameLinks(N, M)
             /\ DOMAIN M[n].access = DOMAIN N[n].access \ {t}
             /\ \A s \in DOMAIN N[n].access : s # t => M[n].access[s] = N[n].access[s]
             /\ \A m \in DOMAIN N : m # n => M[m].access = N[m].access
<1> DEFINE a == Remove(N[n].access, t)
<1>1. N[n].access \in Maps(Holder, Stamp)
  BY NodeType DEF Accesses
<1>2. /\ a \in Accesses
      /\ DOMAIN a = DOMAIN N[n].access \ {t}
      /\ \A x \in DOMAIN N[n].access : x # t => a[x] = N[n].access[x]
  <2>1. a \in Accesses
    BY <1>1, RemoveMap DEF Accesses
  <2> QED
    BY <2>1 DEF Remove
<1> HIDE DEF NodeRec, a
<1>3. /\ SetAccess(N, n, a) \in Seq(NodeRec) /\ SameLinks(N, SetAccess(N, n, a))
      /\ SetAccess(N, n, a)[n].access = a
      /\ \A m \in DOMAIN N : m # n => SetAccess(N, n, a)[m].access = N[m].access
  BY <1>2, AccessSet
<1>4. Detach(N, n, t) = SetAccess(N, n, a)
  BY DEF Detach, a
<1> QED
  BY <1>2, <1>3, <1>4

\* Uncharge stops at 0.
LEMMA UnchargeType ==
  ASSUME count \in [Tenant -> Nat], NEW t, NEW n \in Nat
  PROVE  Uncharge(t, n) \in [Tenant -> Nat]
BY DEF Uncharge

\* A pass takes a tenant off a node.
LEMMA EvictRemoveInv ==
  ASSUME IndInv, NEW e, EvictRemove(e)
  PROVE  IndInv'
<1> DEFINE n == e.node
           t == e.tenant
<1>1. /\ Popped(e) /\ count' = Uncharge(t, Len(node[n].text))
      /\ node' = Detach(node, n, t) /\ epoch' = epoch /\ task' = task
      /\ evict' = [evict EXCEPT !.pc = "prune", !.heap = Rest(e), !.at = n, !.tenant = t]
  BY DEF EvictRemove, Detach, SetAccess
<1>2. /\ Evicting /\ e \in DOMAIN evict.heap
      /\ DOMAIN Rest(e) \subseteq DOMAIN evict.heap
      /\ \A k \in Task : task[k].pc \notin {"insert", "refresh"}
      /\ n \in DOMAIN node
  BY <1>1, PoppedIs
<1>3. /\ Shape(node) /\ node \in Seq(NodeRec) /\ HeapOK(node, evict)
      /\ count \in [Tenant -> Nat] /\ evict.limit \in Nat
  BY DEF IndInv, Pass, Counters, Shape
<1> DEFINE B == Rest(e)
<1> HIDE DEF NodeRec, B
<1>4. /\ DOMAIN evict' = {"pc", "limit", "final", "heap", "at", "tenant"}
      /\ evict'.pc = "prune" /\ evict'.limit = evict.limit /\ evict'.heap = B
      /\ evict'.at = n
  BY <1>1 DEF IndInv, Pass, B
<1> HIDE DEF n, t
<1>5. node' \in Seq(NodeRec) /\ SameLinks(node, node')
  BY <1>1, <1>2, <1>3, DetachNode
<1>6. Shape(node') /\ Att(node') = Att(node) /\ DOMAIN node' = DOMAIN node
  BY <1>3, <1>5, LinksKept
<1>7. Tasks' /\ Epochs' /\ Locked'
  BY <1>1, <1>2, <1>6, PassKeepsTasks
<1>8. Counters'
  <2>1. Len(node[n].text) \in Nat
    BY <1>2, <1>3, NodeType
  <2>2. count' \in [Tenant -> Nat]
    BY <1>1, <1>3, <2>1, UnchargeType
  <2> QED
    BY <1>1, <2>2 DEF IndInv, Counters
<1>9. HeapOK(node', evict')
  <2>1. HeapOK(node, evict')
    <3>1. PICK R : Found(node, R) /\ \A f \in DOMAIN evict.heap : f.node \in R
      BY <1>3 DEF HeapOK
    <3>2. n \in R /\ DOMAIN B \subseteq DOMAIN evict.heap
      BY <1>2, <3>1 DEF n, B
    <3> HIDE DEF Found
    <3> QED
      BY <1>4, <3>1, <3>2 DEF HeapOK
  <2> QED
    BY <1>5, <1>6, <2>1, HeapTouched
<1>10. Pass'
  <2> HIDE DEF HeapOK
  <2> QED
    BY <1>1, <1>2, <1>3, <1>4, <1>6, <1>9 DEF Pass, Evicting
<1> QED
  BY <1>6, <1>7, <1>8, <1>10 DEF IndInv

\* The tree M is what an empty node leaves of N when it is unlinked.
Pruned(N, M) ==
  /\ Shape(M) /\ DOMAIN M = DOMAIN N /\ SameAccess(N, M)
  /\ \A n \in DOMAIN N : /\ M[n].parent = N[n].parent /\ M[n].text = N[n].text
                         /\ \A c \in DOMAIN M[n].children :
                              /\ c \in DOMAIN N[n].children
                              /\ M[n].children[c] = N[n].children[c]
  /\ Att(M) \subseteq Att(N)
  /\ \A n \in Att(N) : DOMAIN N[n].access # {} => n \in Att(M)

\* Removing a key that a map does not have.
LEMMA RemoveAbsent ==
  ASSUME NEW D, NEW R, NEW f \in Maps(D, R), NEW k, k \notin DOMAIN f
  PROVE  Remove(f, k) = f
<1>1. PICK d \in SUBSET D : f \in [d -> R]
  BY DEF Maps
<1>2. DOMAIN f \ {k} = DOMAIN f
  OBVIOUS
<1> QED
  BY <1>1, <1>2 DEF Remove

\* A node that gets the children it has.
LEMMA SameKids ==
  ASSUME NEW N \in Seq(NodeRec), NEW n \in DOMAIN N
  PROVE  SetKids(N, n, N[n].children) = N
<1>1. N[n] \in NodeRec
  BY NodeType
<1>2. [N[n] EXCEPT !.children = N[n].children] = N[n]
  BY <1>1 DEF NodeRec
<1>3. SetKids(N, n, N[n].children) = [N EXCEPT ![n] = N[n]]
  BY <1>2 DEF SetKids
<1> HIDE DEF NodeRec
<1> QED
  BY <1>3

\* Unlinked prunes a node nobody holds, and does nothing to one that has been
\* unlinked before.
LEMMA UnlinkedPrunes ==
  ASSUME Shape(node), NEW n \in DOMAIN node,
         n # Root /\ node[n].text[1] \in DOMAIN node[node[n].parent].children =>
           node[node[n].parent].children[node[n].text[1]] = n
  PROVE  Pruned(node, Unlinked(n))
<1>1. node \in Seq(NodeRec) /\ node[n].parent \in DOMAIN node
  BY ShapeNode
<1> DEFINE p == node[n].parent
           c == node[n].text[1]
<1>2. CASE /\ n # Root /\ node[n].children = << >> /\ node[n].access = << >>
           /\ c \in DOMAIN node[p].children
  <2>1. Unlinked(n) = CutOff(node, n)
    BY <1>2 DEF Unlinked, CutOff, SetKids
  <2>2. n \in Att(node)
    BY <1>1, <1>2, AttIs
  <2> DEFINE M == CutOff(node, n)
  <2>3. M \in Seq(NodeRec) /\ Cut(node, M, n) /\ SameAccess(node, M)
    BY <1>1, CutOffCuts
  <2>4. DOMAIN node[n].children = {} /\ DOMAIN node[n].access = {}
    BY <1>2
  <2> HIDE DEF M, NodeRec
  <2>5. Shape(M) /\ Att(M) = Att(node) \ {n} /\ DOMAIN M = DOMAIN node
    BY <1>2, <2>2, <2>3, <2>4, LinksCut
  <2>6. ASSUME NEW m \in DOMAIN node, NEW x \in DOMAIN M[m].children
        PROVE  x \in DOMAIN node[m].children /\ M[m].children[x] = node[m].children[x]
    BY <2>3 DEF Cut, Remove
  <2>7. Pruned(node, M)
    BY <2>3, <2>4, <2>5, <2>6 DEF Pruned, Cut
  <2> QED
    BY <2>1, <2>7 DEF M
<1>3. CASE ~(/\ n # Root /\ node[n].children = << >> /\ node[n].access = << >>
             /\ c \in DOMAIN node[p].children)
  <2>1. Unlinked(n) = node
    <3>1. CASE n # Root /\ node[n].children = << >> /\ node[n].access = << >>
      <4>1. c \notin DOMAIN node[p].children /\ node[p].children \in Maps(Char, Nat)
        BY <1>1, <1>3, <3>1, NodeType DEF Kids
      <4>2. Remove(node[p].children, c) = node[p].children
        <5> DEFINE f == node[p].children
        <5>1. f \in Maps(Char, Nat) /\ c \notin DOMAIN f
          BY <4>1
        <5> HIDE DEF f, c
        <5> QED
          BY <5>1, RemoveAbsent DEF f
      <4>3. Unlinked(n) = SetKids(node, p, Remove(node[p].children, c))
        BY <3>1 DEF Unlinked, SetKids
      <4> QED
        BY <1>1, <4>2, <4>3, SameKids
    <3>2. CASE ~(n # Root /\ node[n].children = << >> /\ node[n].access = << >>)
      BY <3>2 DEF Unlinked
    <3> QED
      BY <3>1, <3>2
  <2> QED
    BY <2>1 DEF Pruned, SameAccess
<1> QED
  BY <1>2, <1>3

\* Pruning puts no other node in the place of one.
LEMMA FoundPruned ==
  ASSUME NEW N, NEW M, Pruned(N, M), NEW R, Found(N, R)
  PROVE  Found(M, R)
<1>1. R \subseteq DOMAIN N /\ DOMAIN M = DOMAIN N
  BY DEF Found, Pruned
<1>2. ASSUME NEW n \in R \ {Root}
      PROVE  /\ M[n].parent \in R
             /\ M[n].text[1] \in DOMAIN M[M[n].parent].children =>
                  M[M[n].parent].children[M[n].text[1]] = n
  <2>1. M[n].parent = N[n].parent /\ M[n].text = N[n].text /\ N[n].parent \in R
    BY <1>1 DEF Found, Pruned
  <2>2. \A c \in DOMAIN M[N[n].parent].children :
          /\ c \in DOMAIN N[N[n].parent].children
          /\ M[N[n].parent].children[c] = N[N[n].parent].children[c]
    BY <1>1, <2>1 DEF Pruned
  <2> QED
    BY <2>1, <2>2 DEF Found
<1> QED
  BY <1>1, <1>2 DEF Found

\* What a pass unlinks is an empty node of the tree, or nothing.
LEMMA EvictPrunes ==
  ASSUME IndInv, evict.pc = "prune"
  PROVE  Pruned(node, Unlinked(evict.at))
<1>1. PICK R : Found(node, R) /\ evict.at \in R
  BY DEF IndInv, Pass, HeapOK
<1>2. /\ evict.at \in DOMAIN node
      /\ evict.at # Root
         /\ node[evict.at].text[1] \in DOMAIN node[node[evict.at].parent].children =>
           node[node[evict.at].parent].children[node[evict.at].text[1]] = evict.at
  BY <1>1 DEF Found
<1> QED
  BY <1>2, UnlinkedPrunes DEF IndInv

\* A pass prunes the node and goes on to its parent.
LEMMA EvictPruneInv ==
  ASSUME IndInv, EvictPrune
  PROVE  IndInv'
<1> DEFINE P == Pushed(evict.at, evict.tenant)
           B == evict.heap (+) SetToBag(P)
<1>1. /\ evict.pc = "prune" /\ node' = Unlinked(evict.at)
      /\ count' = count /\ epoch' = epoch /\ task' = task
  BY DEF EvictPrune
<1>2. /\ DOMAIN evict' = {"pc", "limit", "final", "heap", "at", "tenant"}
      /\ evict'.pc = "pop" /\ evict'.limit = evict.limit /\ evict'.heap = B
      /\ evict'.at = Root
  BY DEF EvictPrune, IndInv, Pass
<1>3. /\ Shape(node) /\ evict.limit \in Nat
      /\ \A k \in Task : task[k].pc \notin {"insert", "refresh"}
  BY <1>1 DEF IndInv, Pass, Locked, Evicting
<1>4. PICK R : /\ Found(node, R) /\ evict.at \in R
               /\ \A e \in DOMAIN evict.heap : e.node \in R
  BY <1>1 DEF IndInv, Pass, HeapOK
<1>5. Pruned(node, node')
  BY <1>1, EvictPrunes
<1>6. DOMAIN B = DOMAIN evict.heap \cup P
  BY BagPlus
<1>7. \A e \in P : e.node \in R
  BY <1>4 DEF Pushed, NewLeaf, EvictionEntry, Found
<1> HIDE DEF P, B
<1>8. HeapOK(node', evict')
  <2>1. Found(node', R)
    BY <1>4, <1>5, FoundPruned
  <2> HIDE DEF Found
  <2> QED
    BY <1>2, <1>4, <1>6, <1>7, <2>1 DEF HeapOK
<1>9. Shape(node') /\ DOMAIN node' = DOMAIN node /\ Root \in DOMAIN node'
  BY <1>5 DEF Pruned, Shape
<1>10. Tasks' /\ Epochs' /\ Locked'
  BY <1>1, <1>3, <1>9, PassKeepsTasks
<1>11. Counters'
  BY <1>1 DEF IndInv, Counters
<1>12. Pass'
  <2> HIDE DEF HeapOK
  <2> QED
    BY <1>1, <1>2, <1>3, <1>8, <1>9 DEF Pass, Evicting
<1> QED
  BY <1>9, <1>10, <1>11, <1>12 DEF IndInv

----------------------------------------------------------------------------
(* The invariance. *)

\* The tree starts with its root alone.
LEMMA InitInv == Init => IndInv
<1> SUFFICES ASSUME Init PROVE IndInv
  OBVIOUS
<1>1. PICK order \in [Tenant -> 0 .. Cardinality(Tenant) - 1] :
        node = <<NewNode(<< >>, Root, order, NoTenant)>>
  BY DEF Init
<1>2. /\ count = [t \in Tenant |-> 0] /\ epoch = Cardinality(Tenant)
      /\ task = [k \in Task |-> Idle]
      /\ evict = [pc |-> "wait", limit |-> MaxSize, final |-> FALSE,
                  heap |-> EmptyBag, at |-> Root, tenant |-> NoTenant]
  BY DEF Init
<1>3. /\ Cardinality(Tenant) \in Nat /\ Cardinality(Tenant) <= MaxEpoch /\ MaxEpoch \in Nat
  BY TreeAssumption, FS_CardinalityType
<1>4. order \in Accesses
  <2>1. order \in [Tenant -> Stamp] /\ Tenant \in SUBSET Holder
    BY <1>3 DEF Stamp, Holder
  <2>2. order \in Accesses
    BY <2>1 DEF Accesses, Maps
  <2> QED
    BY <2>2
<1> DEFINE x == NewNode(<< >>, Root, order, NoTenant)
<1>5. /\ x \in NodeRec /\ x.text = << >> /\ x.children = << >> /\ x.parent = Root
      /\ x.access = order
  <2>1. << >> \in Seq(Char) /\ Root \in Nat /\ NoTenant \in Holder \cup {NoTenant}
    BY EmptySeq DEF Root
  <2> DEFINE z == << >>
  <2>2. z \in Seq(Char)
    BY <2>1
  <2> HIDE DEF z
  <2>3. LET y == NewNode(z, Root, order, NoTenant)
        IN  y \in NodeRec /\ y.text = z /\ y.children = << >> /\ y.parent = Root /\ y.access = order
    BY <1>4, <2>1, <2>2, NewNodeType
  <2> QED
    BY <2>3 DEF z
<1> HIDE DEF x, NodeRec
<1>6. node \in Seq(NodeRec) /\ DOMAIN node = {Root} /\ node[Root] = x
  <2>1. node = <<x>>
    BY <1>1 DEF x
  <2> QED
    BY <1>5, <2>1 DEF Root
<1>7. Shape(node)
  BY <1>5, <1>6 DEF Shape
<1>8. Counters
  BY <1>2, <1>3 DEF Counters
<1>9. Tasks
  <2>1. Idle \in TaskRec /\ TaskOK(node, Idle)
    BY <1>7, IdleType, IdleOK
  <2> HIDE DEF Idle, TaskRec, TaskOK
  <2> QED
    BY <1>2, <2>1 DEF Tasks
<1>10. \A k \in Task : task[k].pc = "idle"
  BY <1>2, IdleType
<1>11. Epochs
  <2>1. Undrawn = {}
    BY <1>10 DEF Undrawn, Busy
  <2> QED
    BY <1>2, <1>3, <2>1, FS_EmptySet DEF Epochs
<1>12. Locked
  BY <1>10 DEF Locked
<1>13. Pass
  <2>1. DOMAIN EmptyBag = {}
    BY DEF EmptyBag, SetToBag
  <2>2. /\ DOMAIN evict = {"pc", "limit", "final", "heap", "at", "tenant"}
        /\ evict.pc = "wait" /\ evict.limit = MaxSize /\ evict.heap = EmptyBag
        /\ evict.at = Root
    BY <1>2
  <2> HIDE DEF EmptyBag
  <2>3. HeapOK(node, evict)
    <3>1. Found(node, {})
      BY DEF Found
    <3> QED
      BY <2>1, <2>2, <3>1 DEF HeapOK
  <2> HIDE DEF HeapOK
  <2> QED
    BY <1>6, <2>1, <2>2, <2>3, TreeAssumption DEF Pass
<1> QED
  BY <1>7, <1>8, <1>9, <1>11, <1>12, <1>13 DEF IndInv

\* A step of the rest of the process.
LEMMA StutterInv ==
  ASSUME IndInv, UNCHANGED <<treeVars, task, evict>>
  PROVE  IndInv'
<1>1. node' = node /\ count' = count /\ epoch' = epoch /\ task' = task /\ evict' = evict
  BY DEF treeVars
<1>2. Shape(node') /\ Counters' /\ Pass'
  BY <1>1, SameTree
<1>3. Tasks' /\ Epochs' /\ Locked'
  BY <1>1 DEF IndInv, Tasks, Epochs, Locked, Evicting, Undrawn, Busy
<1> QED
  BY <1>2, <1>3 DEF IndInv

\* The steps of the operations the router uses.
RouterNext ==
  \/ \E k \in Task, x \in Text : Match(k, x) \/ \E t \in Tenant : Record(k, x, t)
  \/ \E k \in Task : InsertStep(k) \/ MatchStep(k) \/ Touch(k)
  \/ EvictStep
  \/ DropRouter

\* Where the invariant holds no task is in one of the operations the router does not
\* use.
LEMMA NoDirectStep ==
  ASSUME IndInv, NEW k \in Task
  PROVE  ~DirectStep(k)
<1>1. task[k].pc \in {"idle", "lock", "insert", "refresh", "walk", "read", "pick",
                      "touch", "stamp"}
  BY DEF IndInv, Tasks, TaskRec
<1> QED
  BY <1>1 DEF DirectStep, RemoveTake, RemoveUnlink, RemoveEnd, TenantGet, TenantRead,
              TenantTouch

\* A step from there is one of the router, or it calls one of those operations.
LEMMA RouterStep ==
  ASSUME IndInv, [Next]_vars
  PROVE  \/ [RouterNext]_vars
         \/ \E k \in Task, x \in Text, t \in Tenant : MatchTenant(k, x, t)
         \/ \E k \in Task, t \in Tenant : RemoveTenant(k, t)
<1>1. \A k \in Task : ~DirectStep(k)
  BY NoDirectStep
<1> QED
  BY <1>1 DEF Next, RouterNext, TaskStep

\* The router never calls them.
LEMMA RouterOnly ==
  ASSUME ~DirectOps, IndInv, [Next]_vars
  PROVE  [RouterNext]_vars
BY RouterStep DEF MatchTenant, RemoveTenant

\* Every step of the router keeps the invariant.
LEMMA NextInv ==
  ASSUME IndInv, [RouterNext]_vars
  PROVE  IndInv'
<1> HIDE DEF IndInv
<1>1. CASE \E k \in Task, x \in Text : Match(k, x) \/ \E t \in Tenant : Record(k, x, t)
  BY <1>1, MatchInv, RecordInv
<1>2. CASE \E k \in Task : InsertStep(k)
  BY <1>2, LockTimeoutInv, InsertAtRootInv, InsertLeafInv, InsertDownInv, InsertEndInv
     DEF InsertStep
<1>3. CASE \E k \in Task : MatchStep(k)
  BY <1>3, MatchGetInv, MatchReadInv, MatchTouchInv, MatchPickInv DEF MatchStep, Holder
<1>4. CASE \E k \in Task : Touch(k)
  BY <1>4, TouchInv
<1>5. CASE EvictStep
  BY <1>5, EvictStartInv, EvictSkipInv, EvictRemoveInv, EvictPruneInv, EvictEndInv
     DEF EvictStep
<1>6. CASE DropRouter
  BY <1>6, StutterInv DEF DropRouter
<1>7. CASE UNCHANGED vars
  BY <1>7, StutterInv DEF vars
<1> QED
  BY <1>1, <1>2, <1>3, <1>5, <1>6, <1>7, <1>4 DEF RouterNext

\* The invariant holds in every reachable state of the tree as the router uses it.
THEOREM Invariance ==
  ASSUME ~DirectOps
  PROVE  Spec => []IndInv
<1>1. Init => IndInv
  BY InitInv
<1>2. IndInv /\ [Next]_vars => IndInv'
  BY RouterOnly, NextInv
<1> QED
  BY <1>1, <1>2, PTL DEF Spec

\* The types of the nodes.
LEMMA NodesTyped ==
  ASSUME Shape(node), NEW n \in Nodes
  PROVE  /\ node[n].parent \in Nodes
         /\ Children(n) \subseteq Nodes
         /\ DOMAIN node[n].access \subseteq Tenant \cup {Empty}
         /\ \A t \in DOMAIN node[n].access : node[n].access[t] \in 0 .. MaxEpoch
         /\ node[n].last \in Tenant \cup {Empty, NoTenant}
<1>1. n \in DOMAIN node
  BY DEF Nodes
<1>2. node[n].parent \in Nodes /\ node \in Seq(NodeRec)
  BY <1>1, ShapeNode DEF Nodes
<1>3. Children(n) \subseteq Nodes
  BY <1>1, ShapeLink DEF Children, Nodes
<1>4. node[n].access \in Maps(Holder, Stamp) /\ node[n].last \in Holder \cup {NoTenant}
  BY <1>1, <1>2, NodeType DEF Accesses
<1>5. /\ DOMAIN node[n].access \subseteq Holder
      /\ \A t \in DOMAIN node[n].access : node[n].access[t] \in Stamp
  BY <1>4, MapType
<1> QED
  BY <1>2, <1>3, <1>4, <1>5 DEF Holder, Stamp

\* The types of everything.
LEMMA Typed ==
  ASSUME IndInv
  PROVE  TypeOK
<1>1. \A n \in Nodes :
        /\ node[n].parent \in Nodes
        /\ Children(n) \subseteq Nodes
        /\ DOMAIN node[n].access \subseteq Tenant \cup {Empty}
        /\ \A t \in DOMAIN node[n].access : node[n].access[t] \in 0 .. MaxEpoch
        /\ node[n].last \in Tenant \cup {Empty, NoTenant}
  BY NodesTyped DEF IndInv
<1>2. count \in [Tenant -> Nat] /\ epoch \in 0 .. MaxEpoch
  BY UndrawnFinite, TreeAssumption DEF IndInv, Counters, Epochs
<1>3. ASSUME NEW k \in Task
      PROVE  /\ task[k].pc \in {"idle", "lock", "insert", "walk", "read", "pick", "touch",
                               "remove", "unlink", "tenant_walk", "tenant_read", "tenant_touch"}
                              \cup Drawn
             /\ task[k].at \in Nodes /\ task[k].child \in Nodes
             /\ task[k].queue \subseteq Nodes
             /\ task[k].off \in 0 .. Len(task[k].text)
             /\ task[k].stamp \in 0 .. MaxEpoch
  <2>1. TaskOK(node, task[k])
    BY DEF IndInv, Tasks
  <2>2. /\ task[k].text \in Text \cup {<< >>} /\ task[k].off \in Nat /\ task[k].queue = {}
        /\ task[k].pc \in {"idle", "lock", "insert", "refresh", "walk", "read", "pick",
                           "touch", "stamp"}
        /\ task[k].stamp \in 0 .. MaxEpoch
    BY <2>1 DEF TaskOK, TaskRec, Stamp
  <2>3. Len(task[k].text) \in Nat
    BY <2>2, TextType
  <2> QED
    BY <2>1, <2>2, <2>3 DEF TaskOK, Nodes, Drawn
<1>4. evict.pc \in {"wait", "pop", "prune", "stopped"} /\ (Evicting => Inserting = {})
  BY DEF IndInv, Pass, Locked, Inserting, Placing
<1> QED
  BY <1>1, <1>2, <1>3, <1>4 DEF TypeOK

\* The links of the model are those of the tree.
LEMMA Linked ==
  ASSUME Shape(node)
  PROVE  LinksAgree
<1>1. ASSUME NEW p \in Nodes, NEW c \in DOMAIN node[p].children, NEW n,
             n = node[p].children[c]
      PROVE  p \in Attached /\ node[n].parent = p /\ node[n].text[1] = c
  BY <1>1, ShapeLink, AttachedIs DEF Nodes
<1>2. node[Root].text = << >>
  BY DEF Shape
<1> QED
  BY <1>1, <1>2 DEF LinksAgree

\* Nodes, tasks, counters and the eviction task have their types, and a pass and an
\* insert never hold the eviction lock together.
THEOREM TypeCorrect ==
  ASSUME ~DirectOps
  PROVE  Spec => []TypeOK
<1>1. IndInv => TypeOK
  BY Typed
<1> QED
  BY <1>1, Invariance, PTL

\* However inserts, matches and a pass interleave, parent and child agree on their
\* link, so eviction climbs and unlinks where it means to.
THEOREM TreeLinked ==
  ASSUME ~DirectOps
  PROVE  Spec => []LinksAgree
<1>1. IndInv => LinksAgree
  BY Linked DEF IndInv
<1> QED
  BY <1>1, Invariance, PTL

=============================================================================
