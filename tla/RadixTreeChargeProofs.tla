----------------------- MODULE RadixTreeChargeProofs -----------------------
(***************************************************************************)
(* Proofs about the accounts of module RadixTree: what a tenant is charged *)
(* for (tenant_char_count) against what it has in the tree, however        *)
(* inserts, matches and passes interleave.                                 *)
(*                                                                         *)
(* A stale touch puts a tenant back on a node without charging it, so the  *)
(* nodes that hold a tenant need not hang together.  The charge is covered *)
(* by those of them that do: a set of nodes that has the parents of its    *)
(* nodes and the node where an insert of the tenant stands, and the root   *)
(* unless there is a remove_tenant to take the tenant off it.              *)
(***************************************************************************)
EXTENDS RadixTreeProofs

\* The characters of the nodes Q, and how many they are.
Cells(N, Q) == UNION {{n} \X (1 .. Len(N[n].text)) : n \in Q}
Size(N, Q) == Cardinality(Cells(N, Q))

\* The nodes of the tree that hold t.
Hold(N, t) == {m \in Att(N) : t \in DOMAIN N[m].access}

\* Climbing from node to parent ends at the root, and descending ends.
Climbs(N) ==
  \A S \in SUBSET (Att(N) \ {Root}) : S # {} => \E n \in S : N[n].parent \notin S
Descends(N) ==
  \A S \in SUBSET Att(N) : S # {} => \E n \in S : \A m \in S \ {Root} : N[m].parent # n
Grounded(N) == Climbs(N) /\ Descends(N)

\* Nodes that hold t and hang together.
Held(N, t, Q) ==
  /\ Q \subseteq Hold(N, t) /\ (~DirectOps => Root \in Q)
  /\ \A n \in Q \ {Root} : N[n].parent \in Q

\* The charge c of t is covered by nodes that hang together, A among them.
Ledger(N, t, A, c) ==
  \E Q \in SUBSET Att(N) : Held(N, t, Q) /\ A \subseteq Q /\ c <= Size(N, Q)

\* Where the tasks T insert for t.
Stands(T, t) == {T[k].at : k \in {j \in Task : T[j].pc = "insert" /\ T[j].tenant = t}}

Charged(N, T, ct) == \A t \in Tenant : Ledger(N, t, Stands(T, t), ct[t])

----------------------------------------------------------------------------
(* The size of a set of nodes. *)

\* The characters of a set of nodes.
LEMMA CellIs ==
  ASSUME NEW N, NEW Q, NEW x
  PROVE  x \in Cells(N, Q) <=> \E n \in Q : x \in {n} \X (1 .. Len(N[n].text))
BY DEF Cells

\* A node has as many characters as its text is long.
LEMMA NodeCells ==
  ASSUME NEW N \in Seq(NodeRec), NEW n \in DOMAIN N
  PROVE  /\ Len(N[n].text) \in Nat
         /\ IsFiniteSet({n} \X (1 .. Len(N[n].text)))
         /\ Cardinality({n} \X (1 .. Len(N[n].text))) = Len(N[n].text)
<1> DEFINE len == Len(N[n].text)
<1>1. N[n].text \in Seq(Char)
  BY NodeType
<1>2. len \in Nat
  BY <1>1, LenProperties
<1> HIDE DEF len
<1>3. IsFiniteSet(1 .. len) /\ Cardinality(1 .. len) = len
  <2>1. /\ IsFiniteSet(1 .. len)
        /\ Cardinality(1 .. len) = IF 1 > len THEN 0 ELSE len - 1 + 1
    BY <1>2, FS_Interval
  <2> QED
    BY <1>2, <2>1
<1>4. IsFiniteSet({n}) /\ Cardinality({n}) = 1
  BY FS_Singleton
<1>5. /\ IsFiniteSet({n} \X (1 .. len))
      /\ Cardinality({n} \X (1 .. len)) = Cardinality({n}) * Cardinality(1 .. len)
  BY <1>3, <1>4, FS_Product
<1>6. Cardinality({n} \X (1 .. len)) = 1 * len
  BY <1>3, <1>4, <1>5
<1> QED
  BY <1>2, <1>5, <1>6 DEF len

\* Sizes are numbers.
LEMMA CellsFinite ==
  ASSUME NEW N \in Seq(NodeRec), NEW Q \in SUBSET DOMAIN N
  PROVE  IsFiniteSet(Cells(N, Q)) /\ Size(N, Q) \in Nat
<1> DEFINE f == [n \in Q |-> {n} \X (1 .. Len(N[n].text))]
           T == {{n} \X (1 .. Len(N[n].text)) : n \in Q}
<1>1. IsFiniteSet(Q)
  <2>1. Len(N) \in Nat /\ DOMAIN N = 1 .. Len(N)
    <3> HIDE DEF NodeRec
    <3> QED
      BY LenProperties
  <2>2. IsFiniteSet(1 .. Len(N))
    BY <2>1, FS_Interval
  <2> QED
    BY <2>1, <2>2, FS_Subset
<1>2. f \in Surjection(Q, T)
  <2>1. f \in [Q -> T]
    OBVIOUS
  <2>2. \A S \in T : \E n \in Q : f[n] = S
    OBVIOUS
  <2> HIDE DEF f, T
  <2> QED
    BY <2>1, <2>2 DEF Surjection
<1>3. \A S \in T : IsFiniteSet(S)
  BY NodeCells
<1>4. IsFiniteSet(T)
  <2> HIDE DEF f, T
  <2> QED
    BY <1>1, <1>2, FS_Surjection
<1>5. IsFiniteSet(UNION T)
  <2> HIDE DEF T
  <2> QED
    BY <1>3, <1>4, FS_UNION
<1>6. IsFiniteSet(Cells(N, Q))
  BY <1>5 DEF Cells
<1> QED
  BY <1>6, FS_CardinalityType DEF Size

\* Fewer nodes are not larger.
LEMMA SizeMono ==
  ASSUME NEW N \in Seq(NodeRec), NEW Q \in SUBSET DOMAIN N, NEW R \in SUBSET Q
  PROVE  Size(N, R) \in Nat /\ Size(N, Q) \in Nat /\ Size(N, R) <= Size(N, Q)
<1>1. Cells(N, R) \in SUBSET Cells(N, Q)
  BY CellIs
<1>2. IsFiniteSet(Cells(N, Q)) /\ Size(N, Q) \in Nat /\ Size(N, R) \in Nat
  BY CellsFinite
<1> QED
  BY <1>1, <1>2, FS_Subset DEF Size

\* One more node counts for its text.
LEMMA SizeAdd ==
  ASSUME NEW N \in Seq(NodeRec), NEW Q \in SUBSET DOMAIN N, NEW n \in DOMAIN N, n \notin Q
  PROVE  /\ Size(N, Q) \in Nat /\ Len(N[n].text) \in Nat
         /\ Size(N, Q \cup {n}) = Size(N, Q) + Len(N[n].text)
<1> DEFINE C == {n} \X (1 .. Len(N[n].text))
<1>1. Cells(N, Q \cup {n}) = Cells(N, Q) \cup C
  BY DEF Cells
<1>2. Cells(N, Q) \cap C = {}
  <2> SUFFICES ASSUME NEW x \in Cells(N, Q), x \in C PROVE FALSE
    OBVIOUS
  <2>1. PICK m \in Q : x \in {m} \X (1 .. Len(N[m].text))
    BY CellIs
  <2>2. x[1] = m /\ x[1] = n
    BY <2>1
  <2> QED
    BY <2>2
<1>3. IsFiniteSet(C) /\ Cardinality(C) = Len(N[n].text) /\ Len(N[n].text) \in Nat
  BY NodeCells
<1> DEFINE D == Cells(N, Q)
<1>4. IsFiniteSet(D) /\ Size(N, Q) \in Nat
  BY CellsFinite
<1>5. Cardinality(D \cup C) = Cardinality(D) + Cardinality(C) - Cardinality(D \cap C)
  <2> HIDE DEF C, D
  <2> QED
    BY <1>3, <1>4, FS_Union
<1>6. Cardinality(D \cap C) = 0
  BY <1>2, FS_EmptySet
<1>7. Cardinality(D) = Size(N, Q) /\ Cardinality(D \cup C) = Size(N, Q \cup {n})
  BY <1>1 DEF Size
<1> DEFINE a == Size(N, Q)
           b == Len(N[n].text)
<1>8. a \in Nat /\ b \in Nat /\ Size(N, Q \cup {n}) = a + b - 0
  BY <1>3, <1>4, <1>5, <1>6, <1>7
<1> HIDE DEF a, b
<1>9. Size(N, Q \cup {n}) = a + b
  BY <1>8
<1> QED
  BY <1>8, <1>9 DEF a, b

\* Taking a node out.
LEMMA SizeRemove ==
  ASSUME NEW N \in Seq(NodeRec), NEW Q \in SUBSET DOMAIN N, NEW n \in Q
  PROVE  /\ Size(N, Q \ {n}) \in Nat /\ Len(N[n].text) \in Nat
         /\ Size(N, Q) = Size(N, Q \ {n}) + Len(N[n].text)
<1> DEFINE R == Q \ {n}
<1>1. R \in SUBSET DOMAIN N /\ n \in DOMAIN N /\ n \notin R /\ R \cup {n} = Q
  OBVIOUS
<1> HIDE DEF R
<1>2. /\ Size(N, R) \in Nat /\ Len(N[n].text) \in Nat
      /\ Size(N, R \cup {n}) = Size(N, R) + Len(N[n].text)
  BY <1>1, SizeAdd
<1> QED
  BY <1>1, <1>2 DEF R

\* Equal texts have equal sizes.
LEMMA SizeSame ==
  ASSUME NEW N, NEW M, NEW Q, \A n \in Q : M[n].text = N[n].text
  PROVE  Size(M, Q) = Size(N, Q)
<1>1. Cells(M, Q) = Cells(N, Q)
  BY DEF Cells
<1> QED
  BY <1>1 DEF Size

\* No nodes have no characters.
LEMMA NoNodesNoSize ==
  ASSUME NEW N
  PROVE  Size(N, {}) = 0
<1>1. Cells(N, {}) = {}
  BY DEF Cells
<1> QED
  BY <1>1, FS_EmptySet DEF Size

\* A split moves characters from a node to the new one.
LEMMA SizeSplit ==
  ASSUME NEW N \in Seq(NodeRec), NEW M \in Seq(NodeRec), NEW n \in DOMAIN N, NEW p,
         NEW i \in Nat, SplitAt(N, M, n, p, i), NEW Q \in SUBSET DOMAIN N
  PROVE  /\ n \in Q => Size(M, Q \cup {Len(N) + 1}) = Size(N, Q)
         /\ n \notin Q => Size(M, Q) = Size(N, Q)
<1> DEFINE h == Len(N) + 1
           R == Q \ {n}
<1>1. /\ Len(M) = h /\ \A m \in DOMAIN N \ {n} : M[m].text = N[m].text
      /\ Len(M[n].text) = Len(N[n].text) - i /\ Len(M[h].text) = i
  BY DEF SplitAt
<1>2. DOMAIN M = DOMAIN N \cup {h} /\ h \notin DOMAIN N
  BY <1>1, OneMore
<1> HIDE DEF NodeRec, h
<1>3. CASE n \notin Q
  BY <1>1, <1>3, SizeSame
<1>4. CASE n \in Q
  <2>1. R \in SUBSET DOMAIN M /\ Q \in SUBSET DOMAIN M /\ n \in DOMAIN M /\ h \in DOMAIN M
    BY <1>2
  <2>2. n \notin R /\ h \notin Q /\ R \cup {n} = Q
    BY <1>2, <1>4
  <2>3. Size(M, R) = Size(N, R)
    BY <1>1, SizeSame
  <2>4. Size(N, Q) = Size(N, R) + Len(N[n].text) /\ Size(N, R) \in Nat /\ Len(N[n].text) \in Nat
    BY <1>4, SizeRemove
  <2>5. Size(M, R \cup {n}) = Size(M, R) + Len(M[n].text)
    BY <2>1, <2>2, SizeAdd
  <2>6. Size(M, Q \cup {h}) = Size(M, Q) + Len(M[h].text)
    BY <2>1, <2>2, SizeAdd
  <2> DEFINE a == Len(N[n].text)
             b == Size(N, R)
  <2>7. Size(M, Q \cup {h}) = b + (a - i) + i /\ Size(N, Q) = b + a /\ a \in Nat /\ b \in Nat
    BY <1>1, <2>2, <2>3, <2>4, <2>5, <2>6
  <2> HIDE DEF a, b
  <2>8. Size(M, Q \cup {h}) = Size(N, Q)
    BY <2>7
  <2> QED
    BY <1>4, <2>8 DEF h
<1> QED
  BY <1>3, <1>4

----------------------------------------------------------------------------
(* No circle of parents. *)

\* Dropping nodes closes no circle of parents.
LEMMA ClimbSub ==
  ASSUME NEW N, Climbs(N), NEW M, Att(M) \subseteq Att(N),
         \A n \in Att(M) : M[n].parent = N[n].parent
  PROVE  Climbs(M)
<1> SUFFICES ASSUME NEW S \in SUBSET (Att(M) \ {Root}), S # {}
             PROVE  \E n \in S : M[n].parent \notin S
  BY DEF Climbs
<1>1. S \in SUBSET (Att(N) \ {Root})
  OBVIOUS
<1>2. PICK n \in S : N[n].parent \notin S
  BY <1>1 DEF Climbs
<1> QED
  BY <1>2

\* The same for both directions.
LEMMA GroundSub ==
  ASSUME NEW N, Grounded(N), NEW M, Att(M) \subseteq Att(N),
         \A n \in Att(M) : M[n].parent = N[n].parent
  PROVE  Grounded(M)
<1>1. Climbs(M)
  BY ClimbSub DEF Grounded
<1>2. Descends(M)
  <2> SUFFICES ASSUME NEW S \in SUBSET Att(M), S # {}
               PROVE  \E n \in S : \A m \in S \ {Root} : M[m].parent # n
    BY DEF Descends
  <2>1. S \in SUBSET Att(N)
    OBVIOUS
  <2>2. PICK n \in S : \A m \in S \ {Root} : N[m].parent # n
    BY <2>1 DEF Grounded, Descends
  <2>3. ASSUME NEW m \in S \ {Root} PROVE M[m].parent # n
    <3>1. m \in Att(M)
      OBVIOUS
    <3> QED
      BY <2>2, <3>1
  <2> QED
    BY <2>3
<1> QED
  BY <1>1, <1>2 DEF Grounded

\* A new leaf closes no circle.
LEMMA ClimbLeaf ==
  ASSUME NEW N, Shape(N), Climbs(N), NEW M, NEW h, h \notin DOMAIN N,
         Att(M) = Att(N) \cup {h},
         \A n \in DOMAIN N : M[n].parent = N[n].parent, M[h].parent \in DOMAIN N
  PROVE  Climbs(M)
<1> SUFFICES ASSUME NEW S \in SUBSET (Att(M) \ {Root}), S # {}
             PROVE  \E n \in S : M[n].parent \notin S
  BY DEF Climbs
<1> DEFINE S0 == S \ {h}
<1>1. S0 \in SUBSET (Att(N) \ {Root}) /\ Att(N) \subseteq DOMAIN N
  BY AttType
<1>2. CASE S0 = {}
  BY <1>2
<1>3. CASE S0 # {}
  <2>1. PICK n \in S0 : N[n].parent \notin S0
    BY <1>1, <1>3 DEF Climbs
  <2>2. n \in DOMAIN N
    BY <1>1, <2>1
  <2>3. M[n].parent = N[n].parent /\ N[n].parent \in DOMAIN N
    BY <2>2, ShapeNode
  <2> QED
    BY <2>1, <2>3
<1> QED
  BY <1>2, <1>3

\* The same for both directions.
LEMMA GroundLeaf ==
  ASSUME NEW N, Shape(N), Grounded(N), NEW M, NEW h, h \notin DOMAIN N,
         Att(M) = Att(N) \cup {h},
         \A n \in DOMAIN N : M[n].parent = N[n].parent, M[h].parent \in DOMAIN N
  PROVE  Grounded(M)
<1>1. Climbs(M)
  BY ClimbLeaf DEF Grounded
<1>2. Descends(M)
  <2> SUFFICES ASSUME NEW S \in SUBSET Att(M), S # {}
               PROVE  \E n \in S : \A m \in S \ {Root} : M[m].parent # n
    BY DEF Descends
  <2>1. Att(N) \subseteq DOMAIN N
    BY AttType
  <2>2. CASE h \in S
    <3>1. ASSUME NEW m \in S \ {Root} PROVE M[m].parent \in DOMAIN N
      BY <2>1, ShapeNode
    <3> QED
      BY <2>2, <3>1
  <2>3. CASE h \notin S
    <3>1. S \in SUBSET Att(N)
      BY <2>3
    <3>2. PICK n \in S : \A m \in S \ {Root} : N[m].parent # n
      BY <3>1 DEF Grounded, Descends
    <3>3. ASSUME NEW m \in S \ {Root} PROVE M[m].parent # n
      <4>1. m \in DOMAIN N
        BY <2>1, <3>1
      <4> QED
        BY <3>2, <4>1
    <3> QED
      BY <3>3
  <2> QED
    BY <2>2, <2>3
<1> QED
  BY <1>1, <1>2 DEF Grounded

\* Splitting a node closes no circle.
LEMMA ClimbSplit ==
  ASSUME NEW N, Shape(N), Climbs(N), NEW M, NEW h, h \notin DOMAIN N,
         Att(M) = Att(N) \cup {h}, NEW n \in Att(N), n # Root,
         \A m \in DOMAIN N \ {n} : M[m].parent = N[m].parent,
         M[n].parent = h, M[h].parent = N[n].parent
  PROVE  Climbs(M)
<1> SUFFICES ASSUME NEW S \in SUBSET (Att(M) \ {Root}), S # {}
             PROVE  \E m \in S : M[m].parent \notin S
  BY DEF Climbs
<1> DEFINE p == N[n].parent
<1>1. Att(N) \subseteq DOMAIN N
  BY AttType
<1>2. p \in DOMAIN N /\ p # n
  BY ParentLink
<1> HIDE DEF p
<1>3. CASE h \notin S
  <2>1. CASE n \in S
    BY <1>3, <2>1
  <2>2. CASE n \notin S
    <3>1. S \in SUBSET (Att(N) \ {Root})
      BY <1>3
    <3>2. PICK m \in S : N[m].parent \notin S
      BY <3>1 DEF Climbs
    <3>3. m \in DOMAIN N \ {n}
      BY <1>1, <2>2, <3>1, <3>2
    <3> QED
      BY <3>2, <3>3
  <2> QED
    BY <2>1, <2>2
<1>4. CASE h \in S
  <2>1. CASE p \notin S
    BY <1>4, <2>1 DEF p
  <2>2. CASE p \in S
    <3> DEFINE S0 == (S \ {h}) \cup {n}
    <3>1. S0 \in SUBSET (Att(N) \ {Root}) /\ S0 # {}
      OBVIOUS
    <3>2. PICK m \in S0 : N[m].parent \notin S0
      BY <3>1 DEF Climbs
    <3>3. m # n
      BY <1>2, <2>2, <3>2 DEF p
    <3>4. m \in S /\ m \in DOMAIN N \ {n}
      BY <1>1, <3>1, <3>2, <3>3
    <3>5. M[m].parent = N[m].parent /\ N[m].parent \in DOMAIN N
      BY <3>4, ShapeNode
    <3>6. N[m].parent \notin S
      BY <3>2, <3>5
    <3> QED
      BY <3>4, <3>5, <3>6
  <2> QED
    BY <2>1, <2>2
<1> QED
  BY <1>3, <1>4

\* The same for both directions.
LEMMA GroundSplit ==
  ASSUME NEW N, Shape(N), Grounded(N), NEW M, NEW h, h \notin DOMAIN N,
         Att(M) = Att(N) \cup {h}, NEW n \in Att(N), n # Root,
         \A m \in DOMAIN N \ {n} : M[m].parent = N[m].parent,
         M[n].parent = h, M[h].parent = N[n].parent
  PROVE  Grounded(M)
<1>1. Climbs(M)
  BY ClimbSplit DEF Grounded
<1>2. Descends(M)
  <2> SUFFICES ASSUME NEW S \in SUBSET Att(M), S # {}
               PROVE  \E x \in S : \A m \in S \ {Root} : M[m].parent # x
    BY DEF Descends
  <2>1. Att(N) \subseteq DOMAIN N
    BY AttType
  <2>2. N[n].parent \in DOMAIN N
    BY ParentLink
  <2>3. ASSUME NEW m \in S \ {Root, h, n}
        PROVE  m \in Att(N) /\ M[m].parent = N[m].parent /\ M[m].parent \in DOMAIN N
    <3>1. m \in DOMAIN N \ {n} /\ m \in Att(N)
      BY <2>1
    <3> QED
      BY <3>1, ShapeNode
  <2>4. CASE h \notin S
    <3>1. S \in SUBSET Att(N)
      BY <2>4
    <3>2. PICK x \in S : \A m \in S \ {Root} : N[m].parent # x
      BY <3>1 DEF Grounded, Descends
    <3>3. ASSUME NEW m \in S \ {Root} PROVE M[m].parent # x
      <4>1. CASE m = n
        BY <2>4, <3>2, <4>1
      <4>2. CASE m # n
        BY <2>3, <2>4, <3>2, <4>2
      <4> QED
        BY <4>1, <4>2
    <3> QED
      BY <3>3
  <2>5. CASE h \in S
    <3> DEFINE S0 == (S \ {h}) \cup {n}
    <3>1. S0 \in SUBSET Att(N) /\ S0 # {}
      OBVIOUS
    <3>2. PICK x \in S0 : \A m \in S0 \ {Root} : N[m].parent # x
      <4> HIDE DEF S0
      <4> QED
        BY <3>1 DEF Grounded, Descends
    <3>3. x # h /\ N[n].parent # x
      BY <2>1, <3>1, <3>2
    <3>4. CASE x \in S
      <4>1. ASSUME NEW m \in S \ {Root} PROVE M[m].parent # x
        <5>1. CASE m = n
          BY <3>3, <5>1
        <5>2. CASE m = h
          BY <3>3, <5>2
        <5>3. CASE m # n /\ m # h
          BY <2>3, <3>2, <5>3
        <5> QED
          BY <5>1, <5>2, <5>3
      <4> QED
        BY <3>4, <4>1
    <3>5. CASE x \notin S
      <4>1. x = n /\ n \notin S
        BY <3>2, <3>5
      <4>2. ASSUME NEW m \in S \ {Root} PROVE M[m].parent # h
        <5>1. CASE m = h
          BY <2>2, <5>1
        <5>2. CASE m # h
          BY <2>3, <4>1, <5>2
        <5> QED
          BY <5>1, <5>2
      <4> QED
        BY <2>5, <4>2
    <3> QED
      BY <3>4, <3>5
  <2> QED
    BY <2>4, <2>5
<1> QED
  BY <1>1, <1>2 DEF Grounded

----------------------------------------------------------------------------
(* What a step does to the ledger of a tenant. *)

\* What held t still does, with the same text in the same place.
Kept(N, M, t) ==
  \A n \in Hold(N, t) : n \in Hold(M, t) /\ M[n].parent = N[n].parent /\ M[n].text = N[n].text

\* The nodes that hold a tenant are attached nodes.
LEMMA HoldType ==
  ASSUME NEW N, Shape(N), NEW t
  PROVE  N \in Seq(NodeRec) /\ Hold(N, t) \in SUBSET DOMAIN N /\ Hold(N, t) \in SUBSET Att(N)
<1>1. Hold(N, t) \in SUBSET Att(N)
  BY DEF Hold
<1>2. N \in Seq(NodeRec)
  BY DEF Shape
<1> QED
  BY <1>1, <1>2, AttType

\* A tree that keeps the nodes of a tenant covers its charge.
LEMMA LedgerKept ==
  ASSUME NEW N, NEW M, NEW t, Kept(N, M, t),
         NEW A, NEW B, B \subseteq A, NEW c, Ledger(N, t, A, c)
  PROVE  Ledger(M, t, B, c)
<1>1. PICK Q \in SUBSET Att(N) : Held(N, t, Q) /\ A \subseteq Q /\ c <= Size(N, Q)
  BY DEF Ledger
<1>2. Size(M, Q) = Size(N, Q)
  BY <1>1, SizeSame DEF Held, Kept
<1>3. Held(M, t, Q) /\ B \subseteq Q
  BY <1>1 DEF Held, Kept
<1>4. Q \in SUBSET Att(M)
  BY <1>3 DEF Held, Hold
<1> QED
  BY <1>1, <1>2, <1>3, <1>4 DEF Ledger

\* An insert reaches m from a node where it stood.
Gains(N, M, t, A, B, m, c, d) ==
  /\ Shape(N) /\ Shape(M) /\ Kept(N, M, t)
  /\ m \in Hold(M, t) /\ m # Root /\ M[m].parent \in A /\ B \subseteq A \cup {m}
  /\ c \in Nat /\ d = IF m \in Hold(N, t) THEN c ELSE c + Len(M[m].text)

\* So does one that gains a node whose text is charged,
LEMMA LedgerGain ==
  ASSUME NEW N, NEW M, NEW t, NEW A, NEW B, NEW m, NEW c, NEW d,
         Gains(N, M, t, A, B, m, c, d), Ledger(N, t, A, c)
  PROVE  Ledger(M, t, B, d)
<1>0. /\ Shape(N) /\ Shape(M) /\ Kept(N, M, t)
      /\ m \in Hold(M, t) /\ m # Root /\ M[m].parent \in A /\ B \subseteq A \cup {m}
      /\ c \in Nat /\ d = IF m \in Hold(N, t) THEN c ELSE c + Len(M[m].text)
  BY DEF Gains
<1>1. PICK Q \in SUBSET Att(N) : Held(N, t, Q) /\ A \subseteq Q /\ c <= Size(N, Q)
  BY DEF Ledger
<1> DEFINE R == Q \cup {m}
<1>2. Size(M, Q) = Size(N, Q)
  BY <1>0, <1>1, SizeSame DEF Held, Kept
<1>3. Held(M, t, R) /\ B \subseteq R
  BY <1>0, <1>1 DEF Held, Kept
<1>4. R \in SUBSET Att(M)
  BY <1>3 DEF Held, Hold
<1>5. M \in Seq(NodeRec) /\ R \in SUBSET DOMAIN M /\ Q \in SUBSET R /\ m \in DOMAIN M
  BY <1>0, <1>4, HoldType, AttType
<1>6. Size(M, Q) \in Nat /\ Size(M, R) \in Nat /\ Size(M, Q) <= Size(M, R)
  BY <1>5, SizeMono
<1>7. CASE m \in Hold(N, t)
  <2>1. c <= Size(M, R)
    BY <1>0, <1>1, <1>2, <1>6
  <2> QED
    BY <1>0, <1>3, <1>4, <1>7, <2>1 DEF Ledger
<1>8. CASE m \notin Hold(N, t)
  <2>1. m \notin Q /\ Q \in SUBSET DOMAIN M
    BY <1>1, <1>5, <1>8 DEF Held
  <2>2. Size(M, R) = Size(M, Q) + Len(M[m].text) /\ Len(M[m].text) \in Nat
    BY <1>5, <2>1, SizeAdd
  <2>3. d <= Size(M, R)
    <3> DEFINE a == Size(M, Q)
               b == Len(M[m].text)
    <3>1. c <= a /\ a \in Nat /\ b \in Nat /\ d = c + b /\ Size(M, R) = a + b
      BY <1>0, <1>1, <1>2, <1>6, <1>8, <2>2
    <3> HIDE DEF a, b
    <3> QED
      BY <1>0, <3>1
  <2> QED
    BY <1>3, <1>4, <2>3 DEF Ledger
<1> QED
  BY <1>7, <1>8

\* and one in which a node is split.
LEMMA LedgerSplit ==
  ASSUME NEW N, Shape(N), NEW M, Shape(M), NEW n \in Att(N), n # Root, NEW i \in Nat,
         i < Len(N[n].text), SplitAt(N, M, n, N[n].parent, i),
         Att(M) = Att(N) \cup {Len(N) + 1}, SameAccess(N, M),
         M[Len(N) + 1].access = N[n].access,
         NEW t, NEW A, NEW c, Ledger(N, t, A, c)
  PROVE  Ledger(M, t, A, c)
<1> DEFINE h == Len(N) + 1
           p == N[n].parent
<1>1. PICK Q \in SUBSET Att(N) : Held(N, t, Q) /\ A \subseteq Q /\ c <= Size(N, Q)
  BY DEF Ledger
<1> DEFINE R == IF n \in Q THEN Q \cup {h} ELSE Q
<1>2. /\ N \in Seq(NodeRec) /\ M \in Seq(NodeRec) /\ Att(N) \subseteq DOMAIN N /\ n \in DOMAIN N
      /\ Q \in SUBSET DOMAIN N
  BY <1>1, AttType DEF Shape
<1>3. Size(M, R) = Size(N, Q)
  <2>1. SplitAt(N, M, n, p, i)
    OBVIOUS
  <2> HIDE DEF NodeRec, p
  <2>2. /\ n \in Q => Size(M, Q \cup {h}) = Size(N, Q)
        /\ n \notin Q => Size(M, Q) = Size(N, Q)
    BY <1>2, <2>1, SizeSplit
  <2> QED
    BY <2>2
<1>4. /\ \A m \in DOMAIN N \ {n} : M[m].parent = N[m].parent
      /\ M[n].parent = h /\ M[h].parent = p /\ Len(M) = h
  BY DEF SplitAt
<1>5. h \notin DOMAIN N /\ Root \in DOMAIN N
  BY <1>2, <1>4, OneMore DEF Shape
<1>6. h # Root
  BY <1>5
<1> HIDE DEF h, p
<1>7. \A m \in Q : t \in DOMAIN M[m].access
  BY <1>1, <1>2 DEF Held, Hold, SameAccess
<1>8. n \in Q => t \in DOMAIN M[h].access /\ p \in Q
  BY <1>1 DEF Held, Hold, h, p
<1>9. R \in SUBSET Hold(M, t)
  BY <1>7, <1>8 DEF Hold, h
<1>10. ASSUME NEW m \in R \ {Root} PROVE M[m].parent \in R
  <2>1. CASE m = h
    BY <1>2, <1>4, <1>5, <1>8, <2>1
  <2>2. CASE m = n
    BY <1>2, <1>4, <1>5, <2>2
  <2>3. CASE m # h /\ m # n
    <3>1. m \in Q /\ m \in DOMAIN N
      BY <1>2, <2>3
    <3>2. M[m].parent = N[m].parent /\ N[m].parent \in Q
      BY <1>1, <1>4, <2>3, <3>1 DEF Held
    <3> QED
      BY <3>2
  <2> QED
    BY <2>1, <2>2, <2>3
<1>11. Held(M, t, R)
  BY <1>1, <1>9, <1>10 DEF Held
<1>12. R \in SUBSET Att(M) /\ A \subseteq R
  BY <1>1, <1>9 DEF Hold
<1> HIDE DEF R
<1> QED
  BY <1>1, <1>3, <1>11, <1>12 DEF Ledger

\* A pass takes t off a node below which nobody holds it.
LEMMA LedgerLose ==
  ASSUME NEW N, Shape(N), NEW M, NEW t, NEW n \in Hold(N, t), n # Root,
         \A m \in Hold(N, t) \ {n} :
           /\ m \in Hold(M, t) /\ M[m].parent = N[m].parent /\ M[m].text = N[m].text
           /\ m # Root => N[m].parent # n,
         NEW A, NEW c \in Nat, Ledger(N, t, A, c),
         NEW d, d = IF c >= Len(N[n].text) THEN c - Len(N[n].text) ELSE 0
  PROVE  Ledger(M, t, {}, d)
<1>1. PICK Q \in SUBSET Att(N) : Held(N, t, Q) /\ A \subseteq Q /\ c <= Size(N, Q)
  BY DEF Ledger
<1> DEFINE R == Q \ {n}
           a == Size(N, R)
           b == Len(N[n].text)
<1>2. N \in Seq(NodeRec) /\ Q \in SUBSET DOMAIN N /\ R \in SUBSET DOMAIN N /\ n \in DOMAIN N
  BY <1>1, HoldType DEF Held
<1>3. Size(M, R) = a
  BY <1>1, SizeSame DEF Held
<1>4. a \in Nat /\ b \in Nat
  BY <1>2, CellsFinite, NodeCells
<1>5. c <= a + b
  <2>1. CASE n \in Q
    BY <1>1, <1>2, <2>1, SizeRemove
  <2>2. CASE n \notin Q
    <3>1. R = Q
      BY <2>2
    <3>2. c <= a
      BY <1>1, <3>1
    <3> HIDE DEF a, b
    <3> QED
      BY <1>4, <3>2
  <2> QED
    BY <2>1, <2>2
<1>6. d <= a
  <2>1. d = IF c >= b THEN c - b ELSE 0
    OBVIOUS
  <2> HIDE DEF a, b
  <2> QED
    BY <1>4, <1>5, <2>1
<1>7. Held(M, t, R)
  BY <1>1 DEF Held
<1>8. R \in SUBSET Att(M)
  BY <1>7 DEF Held, Hold
<1> HIDE DEF R
<1> QED
  BY <1>3, <1>6, <1>7, <1>8 DEF Ledger, a

\* A tenant that is a leaf at the root has nothing charged.
LEMMA RootLeafFree ==
  ASSUME Shape(node), Grounded(node), NEW t, t \in LeafOf(Root),
         NEW A, NEW c \in Nat, Ledger(node, t, A, c)
  PROVE  c = 0
<1>1. PICK Q \in SUBSET Att(node) :
             Held(node, t, Q) /\ A \subseteq Q /\ c <= Size(node, Q)
  BY DEF Ledger
<1> DEFINE S == Q \ {Root}
<1>2. Root \in Att(node) /\ Root \in DOMAIN node /\ node \in Seq(NodeRec)
  BY AttIs DEF Shape
<1>3. S = {}
  <2> SUFFICES ASSUME S # {} PROVE FALSE
    OBVIOUS
  <2>1. PICK n \in S : node[n].parent \notin S
    BY DEF Grounded, Climbs
  <2>2. node[n].parent = Root /\ t \in DOMAIN node[n].access
    BY <1>1, <2>1 DEF Held, Hold
  <2> QED
    BY <1>2, <2>1, <2>2, LeafIs
<1>4. CASE Q = {}
  <2>1. Size(node, Q) = 0
    BY <1>4, NoNodesNoSize
  <2> QED
    BY <1>1, <2>1
<1>5. CASE Q # {}
  <2>1. Root \in Q /\ Q \ {Root} = {} /\ Q \in SUBSET DOMAIN node
    BY <1>2, <1>3, <1>5
  <2>2. Size(node, Q) = Size(node, Q \ {Root}) + Len(node[Root].text)
    BY <1>2, <2>1, SizeRemove
  <2>3. Size(node, Q \ {Root}) = 0 /\ Len(node[Root].text) = 0
    BY <2>1, NoNodesNoSize DEF Shape
  <2>4. Size(node, Q) = 0
    BY <2>2, <2>3
  <2> QED
    BY <1>1, <2>4
<1> QED
  BY <1>4, <1>5

----------------------------------------------------------------------------
(* What a step does to all the accounts. *)

Accounts == Grounded(node) /\ Charged(node, task, count)

Used(N, t) == Size(N, Hold(N, t))

\* A step charges t for what it gives it.
Balance(t) == Used(node', t) + count[t] = Used(node, t) + count'[t]

\* A task that is not inserting stands nowhere.
LEMMA StandsQuiet ==
  ASSUME NEW T, NEW U, NEW k, \A j \in Task \ {k} : U[j] = T[j],
         U[k].pc # "insert", NEW t
  PROVE  Stands(U, t) \subseteq Stands(T, t)
BY DEF Stands

\* A task that moves adds the place it moves to, for its own tenant.
LEMMA StandsMoves ==
  ASSUME NEW T, NEW U, NEW k, \A j \in Task \ {k} : U[j] = T[j], NEW t
  PROVE  /\ Stands(U, t) \subseteq Stands(T, t) \cup {U[k].at}
         /\ U[k].tenant # t => Stands(U, t) \subseteq Stands(T, t)
BY DEF Stands

\* The size of a tenant is a number.
LEMMA UsedType ==
  ASSUME NEW N, Shape(N), NEW t
  PROVE  Used(N, t) \in Nat
BY HoldType, CellsFinite DEF Used

\* Same nodes, same size.
LEMMA UsedSame ==
  ASSUME NEW N, NEW M, NEW t, Kept(N, M, t), Hold(M, t) = Hold(N, t)
  PROVE  Used(M, t) = Used(N, t)
BY SizeSame DEF Used, Kept

\* One node more adds the length of its text.
LEMMA UsedGain ==
  ASSUME NEW N, NEW M, Shape(M), NEW t, Kept(N, M, t), NEW m \in DOMAIN M,
         Hold(M, t) = Hold(N, t) \cup {m}, m \notin Hold(N, t)
  PROVE  Used(M, t) = Used(N, t) + Len(M[m].text)
<1> DEFINE Q == Hold(N, t)
<1>1. M \in Seq(NodeRec) /\ Q \in SUBSET DOMAIN M
  BY HoldType
<1>2. Size(M, Q) = Size(N, Q)
  BY SizeSame DEF Kept
<1> HIDE DEF Q
<1>3. m \notin Q /\ Hold(M, t) = Q \cup {m}
  BY DEF Q
<1>4. Size(M, Q \cup {m}) = Size(M, Q) + Len(M[m].text)
  BY <1>1, <1>3, SizeAdd
<1> QED
  BY <1>2, <1>3, <1>4 DEF Used, Q

\* Adding holders keeps the nodes of a tenant.
LEMMA AccessKept ==
  ASSUME NEW N, Shape(N), NEW M \in Seq(NodeRec), SameLinks(N, M), NEW t,
         \A n \in DOMAIN N : t \in DOMAIN N[n].access => t \in DOMAIN M[n].access
  PROVE  /\ Kept(N, M, t)
         /\ (\A n \in Att(N) : t \in DOMAIN M[n].access => t \in DOMAIN N[n].access)
              => Hold(M, t) = Hold(N, t)
<1>1. Att(M) = Att(N) /\ Att(N) \subseteq DOMAIN N
  BY LinksKept, AttType
<1> QED
  BY <1>1 DEF Kept, Hold, SameLinks

\* Links left alone have no circle.
LEMMA GroundKept ==
  ASSUME NEW N, Shape(N), Grounded(N), NEW M \in Seq(NodeRec), SameLinks(N, M)
  PROVE  Grounded(M)
<1>1. Att(M) = Att(N) /\ Att(N) \subseteq DOMAIN N
  BY LinksKept, AttType
<1> QED
  BY <1>1, GroundSub DEF SameLinks

\* What the invariant says of one tenant.
LEMMA AccountsType ==
  ASSUME IndInv, Accounts, NEW t \in Tenant
  PROVE  /\ Shape(node) /\ count[t] \in Nat /\ Used(node, t) \in Nat
         /\ Ledger(node, t, Stands(task, t), count[t])
<1>1. Shape(node) /\ count \in [Tenant -> Nat]
  BY DEF IndInv, Counters
<1> QED
  BY <1>1, UsedType DEF Accounts, Charged

\* Steps that charge nobody.
LEMMA QuietStep ==
  ASSUME IndInv, Accounts, Grounded(node'), count' = count,
         \A t \in Tenant : /\ Kept(node, node', t)
                           /\ Stands(task', t) \subseteq Stands(task, t)
  PROVE  Accounts' /\ \A t \in Tenant : Hold(node', t) = Hold(node, t) => Balance(t)
<1>1. ASSUME NEW t \in Tenant
      PROVE  Ledger(node', t, Stands(task', t), count'[t])
  <2>1. Ledger(node, t, Stands(task, t), count[t])
    BY AccountsType
  <2> QED
    BY <2>1, LedgerKept
<1>2. ASSUME NEW t \in Tenant, Hold(node', t) = Hold(node, t) PROVE Balance(t)
  BY <1>2, UsedSame DEF Balance
<1> QED
  BY <1>1, <1>2 DEF Accounts, Charged

\* An unchanged tree keeps its nodes.
LEMMA SameKept ==
  ASSUME NEW N, NEW t
  PROVE  Kept(N, N, t)
BY DEF Kept

\* A step of a task alone changes no account.
LEMMA TaskOnly ==
  ASSUME IndInv, Accounts, node' = node, count' = count,
         NEW k \in Task, \A j \in Task \ {k} : task'[j] = task[j],
         task'[k].pc # "insert"
  PROVE  Accounts' /\ \A t \in Tenant : Balance(t)
<1>1. Grounded(node')
  BY DEF Accounts
<1>2. ASSUME NEW t \in Tenant
      PROVE  /\ Kept(node, node', t) /\ Hold(node', t) = Hold(node, t)
             /\ Stands(task', t) \subseteq Stands(task, t)
  BY SameKept, StandsQuiet
<1> QED
  BY <1>1, <1>2, QuietStep

\* Nor does a step that changes no task.
LEMMA SameTasks ==
  ASSUME IndInv, Accounts, node' = node, count' = count, task' = task
  PROVE  Accounts' /\ \A t \in Tenant : Balance(t)
<1>1. ASSUME NEW t \in Tenant
      PROVE  /\ Kept(node, node', t) /\ Hold(node', t) = Hold(node, t)
             /\ Stands(task', t) \subseteq Stands(task, t)
  BY SameKept
<1> QED
  BY <1>1, QuietStep DEF Accounts

\* The type of the tasks.
LEMMA TaskDomain ==
  ASSUME IndInv
  PROVE  task \in [Task -> TaskRec]
BY DEF IndInv, Tasks

\* An insert or a match is called.
LEMMA StartAccounts ==
  ASSUME IndInv, Accounts, NEW k \in Task, NEW x, NEW t, Record(k, x, t) \/ Match(k, x)
  PROVE  Accounts' /\ \A s \in Tenant : Balance(s)
<1> DEFINE r == task'[k]
<1>1. node' = node /\ count' = count /\ \A j \in Task \ {k} : task'[j] = task[j]
  BY TaskDomain DEF Record, Match, treeVars
<1>2. r.pc # "insert"
  BY TaskDomain DEF Record, Match, Idle
<1> QED
  BY <1>1, <1>2, TaskOnly

\* An insert gives up waiting.
LEMMA LockTimeoutAccounts ==
  ASSUME IndInv, Accounts, NEW k \in Task, LockTimeout(k)
  PROVE  Accounts' /\ \A s \in Tenant : Balance(s)
<1>1. node' = node /\ count' = count /\ \A j \in Task \ {k} : task'[j] = task[j]
  BY TaskDomain DEF LockTimeout, treeVars
<1>2. task'[k].pc # "insert"
  BY TaskDomain DEF LockTimeout, Idle
<1> QED
  BY <1>1, <1>2, TaskOnly

\* A match walks down.
LEMMA WalkAccounts ==
  ASSUME IndInv, Accounts, NEW k \in Task, MatchGet(k) \/ MatchRead(k)
  PROVE  Accounts' /\ \A s \in Tenant : Balance(s)
<1>1. node' = node /\ count' = count /\ \A j \in Task \ {k} : task'[j] = task[j]
  BY TaskDomain DEF MatchGet, MatchRead, treeVars
<1>2. task'[k].pc \in {"walk", "pick", "read"}
  <2>1. task \in [Task -> TaskRec]
    BY TaskDomain
  <2>2. DOMAIN task[k] = {"pc", "text", "tenant", "at", "child", "off", "queue", "stamp"}
    BY <2>1 DEF TaskRec
  <2> QED
    BY <2>1, <2>2 DEF MatchGet, MatchRead
<1> QED
  BY <1>1, <1>2, TaskOnly

\* A match picks a tenant.
LEMMA MatchPickAccounts ==
  ASSUME IndInv, Accounts, NEW k \in Task, NEW t \in Holder, MatchPick(k, t)
  PROVE  Accounts' /\ \A s \in Tenant : Balance(s)
<1> DEFINE n == task[k].at
<1>1. /\ node' = SetLast(node, n, t) /\ count' = count
      /\ \A j \in Task \ {k} : task'[j] = task[j]
  BY TaskDomain DEF MatchPick, SetLast
<1>2. task'[k].pc = "touch"
  <2>1. task \in [Task -> TaskRec]
    BY TaskDomain
  <2>2. DOMAIN task[k] = {"pc", "text", "tenant", "at", "child", "off", "queue", "stamp"}
    BY <2>1 DEF TaskRec
  <2> QED
    BY <2>1, <2>2 DEF MatchPick
<1>3. Shape(node) /\ node \in Seq(NodeRec) /\ n \in DOMAIN node
  BY DEF IndInv, Tasks, TaskOK, Shape
<1>4. t \in Holder \cup {NoTenant}
  OBVIOUS
<1> HIDE DEF n, NodeRec, Holder
<1>5. node' \in Seq(NodeRec) /\ SameLinks(node, node') /\ SameAccess(node, node')
  BY <1>1, <1>3, <1>4, LastSet
<1>6. Grounded(node')
  BY <1>3, <1>5, GroundKept DEF Accounts
<1>7. ASSUME NEW s \in Tenant
      PROVE  /\ Kept(node, node', s) /\ Hold(node', s) = Hold(node, s)
             /\ Stands(task', s) \subseteq Stands(task, s)
  <2>1. \A m \in DOMAIN node : s \in DOMAIN node'[m].access <=> s \in DOMAIN node[m].access
    BY <1>5 DEF SameAccess
  <2>2. Att(node) \subseteq DOMAIN node
    BY <1>3, AttType
  <2>3. Kept(node, node', s) /\ Hold(node', s) = Hold(node, s)
    BY <1>3, <1>5, <2>1, <2>2, AccessKept
  <2> QED
    BY <1>1, <1>2, <2>3, StandsQuiet
<1> QED
  BY <1>1, <1>6, <1>7, QuietStep

\* The root takes no room in the ledger.
LEMMA LedgerRoot ==
  ASSUME NEW N, NEW M, Shape(M), NEW t, Kept(N, M, t), Root \in Hold(M, t),
         NEW A, NEW B, B \subseteq A \cup {Root}, NEW c \in Nat, Ledger(N, t, A, c)
  PROVE  Ledger(M, t, B, c)
<1>1. PICK Q \in SUBSET Att(N) : Held(N, t, Q) /\ A \subseteq Q /\ c <= Size(N, Q)
  BY DEF Ledger
<1> DEFINE R == Q \cup {Root}
<1>2. Size(M, Q) = Size(N, Q)
  BY <1>1, SizeSame DEF Held, Kept
<1>3. Held(M, t, R) /\ B \subseteq R /\ Q \subseteq R
  BY <1>1 DEF Held, Kept
<1>4. R \in SUBSET Att(M) /\ R \in SUBSET DOMAIN M /\ M \in Seq(NodeRec)
  BY <1>3, HoldType DEF Held
<1>5. Size(M, Q) \in Nat /\ Size(M, R) \in Nat /\ Size(M, Q) <= Size(M, R)
  BY <1>3, <1>4, SizeMono
<1>6. c <= Size(M, R)
  BY <1>1, <1>2, <1>5
<1> QED
  BY <1>3, <1>4, <1>6 DEF Ledger

\* The tenant is put at the root if it is not there, which charges it for nothing.
LEMMA InsertAtRootAccounts ==
  ASSUME IndInv, Accounts, NEW k \in Task, InsertAtRoot(k)
  PROVE  Accounts' /\ \A s \in Tenant : Balance(s)
<1> DEFINE t == task[k].tenant
<1>1. /\ task[k].pc = "lock" /\ count' = count /\ \A j \in Task \ {k} : task'[j] = task[j]
      /\ node' = node \/ node' = Attach(node, Root, t, 0)
      /\ Has(Root, t) => node' = node
      /\ ~Has(Root, t) => node' = Attach(node, Root, t, 0)
  BY TaskDomain DEF InsertAtRoot, Goto, Attach, SetAccess
<1>2. task[k] \in TaskRec /\ task[k].at = Root /\ t \in Tenant /\ t \in Holder
  BY <1>1 DEF IndInv, Tasks, TaskOK, Holder
<1>3. task'[k].at = Root /\ task'[k].tenant = t
  <2>1. task \in [Task -> TaskRec]
    BY TaskDomain
  <2>2. DOMAIN task[k] = {"pc", "text", "tenant", "at", "child", "off", "queue", "stamp"}
    BY <1>2 DEF TaskRec
  <2> QED
    BY <1>2, <2>1, <2>2 DEF InsertAtRoot, Goto
<1>4. /\ Shape(node) /\ node \in Seq(NodeRec) /\ Root \in DOMAIN node /\ Root \in Att(node)
      /\ Grounded(node) /\ 0 \in Stamp
  BY AttIs, TreeAssumption DEF IndInv, Shape, Accounts, Stamp
<1>5. node[Root].text = << >>
  BY <1>4 DEF Shape
<1> HIDE DEF NodeRec, Holder, Stamp, t
<1>6. /\ node' \in Seq(NodeRec) /\ SameLinks(node, node')
      /\ DOMAIN node'[Root].access = DOMAIN node[Root].access \cup {t}
      /\ \A m \in DOMAIN node : m # Root => node'[m].access = node[m].access
  <2>1. CASE Has(Root, t)
    BY <1>1, <1>4, <2>1 DEF Has, SameLinks
  <2>2. CASE ~Has(Root, t)
    BY <1>1, <1>2, <1>4, <2>2, AttachNode
  <2> QED
    BY <2>1, <2>2
<1>7. Shape(node') /\ Grounded(node') /\ Att(node') = Att(node) /\ DOMAIN node' = DOMAIN node
  BY <1>4, <1>6, LinksKept, GroundKept
<1>8. node'[Root].text = << >> /\ Att(node) \subseteq DOMAIN node
  BY <1>4, <1>5, <1>6, AttType DEF SameLinks
<1>9. ASSUME NEW s \in Tenant
      PROVE  Ledger(node', s, Stands(task', s), count'[s]) /\ Balance(s)
  <2> DEFINE A == Stands(task, s)
             B == Stands(task', s)
             c == count[s]
             P == node'
  <2>1. c \in Nat /\ Used(node, s) \in Nat /\ Ledger(node, s, A, c) /\ count'[s] = c
    BY <1>1, AccountsType
  <2>2. \A m \in DOMAIN node : s \in DOMAIN node[m].access => s \in DOMAIN P[m].access
    BY <1>6
  <2>3. Kept(node, P, s)
    BY <1>4, <1>6, <2>2, AccessKept
  <2>4. B \subseteq A \cup {Root} /\ (s # t => B \subseteq A)
    BY <1>1, <1>3, StandsMoves
  <2>5. CASE s # t
    <3>1. \A m \in DOMAIN node : s \in DOMAIN P[m].access => s \in DOMAIN node[m].access
      BY <1>6, <2>5
    <3>2. Hold(P, s) = Hold(node, s)
      BY <1>4, <1>6, <1>8, <2>2, <3>1, AccessKept
    <3>3. Used(P, s) = Used(node, s)
      BY <2>3, <3>2, UsedSame
    <3>4. Ledger(P, s, B, c)
      <4> HIDE DEF A, B, c, P
      <4> QED
        BY <2>1, <2>3, <2>4, <2>5, LedgerKept
    <3> QED
      BY <2>1, <3>3, <3>4 DEF Balance
  <2>6. CASE s = t
    <3>1. Root \in Hold(P, s)
      BY <1>4, <1>6, <1>7, <2>6 DEF Hold
    <3>2. Ledger(P, s, B, c)
      <4> HIDE DEF A, B, c
      <4> QED
        BY <1>7, <2>1, <2>3, <2>4, <3>1, LedgerRoot
    <3>3. Hold(P, s) = Hold(node, s) \cup {Root}
      BY <1>4, <1>6, <1>7, <1>8, <2>6 DEF Hold
    <3>4. Used(P, s) = Used(node, s)
      <4>1. CASE Root \in Hold(node, s)
        BY <2>3, <3>3, <4>1, UsedSame
      <4>2. CASE Root \notin Hold(node, s)
        <5>1. Used(P, s) = Used(node, s) + Len(P[Root].text)
          BY <1>4, <1>7, <2>3, <3>3, <4>2, UsedGain
        <5> QED
          BY <1>8, <2>1, <5>1
      <4> QED
        BY <4>1, <4>2
    <3> QED
      BY <2>1, <3>2, <3>4 DEF Balance
  <2> QED
    BY <2>5, <2>6
<1> QED
  BY <1>7, <1>9 DEF Accounts, Charged

\* Tenant s of node n is stamped, in a tree where s may or may not have been there.
LEMMA StampAccounts ==
  ASSUME IndInv, Accounts, NEW k \in Task, NEW n \in DOMAIN node, NEW t \in Holder, NEW v \in Stamp,
         node' = Attach(node, n, t, v), count' = count,
         \A j \in Task \ {k} : task'[j] = task[j], task'[k].pc # "insert"
  PROVE  /\ Accounts'
         /\ \A s \in Tenant : Balance(s) \/ (s = t /\ s \notin DOMAIN node[n].access)
<1>1. Shape(node) /\ node \in Seq(NodeRec)
  BY DEF IndInv, Shape
<1> HIDE DEF NodeRec, Holder, Stamp
<1>2. /\ node' \in Seq(NodeRec) /\ SameLinks(node, node')
      /\ DOMAIN node'[n].access = DOMAIN node[n].access \cup {t}
      /\ \A m \in DOMAIN node : m # n => node'[m].access = node[m].access
  BY <1>1, AttachNode
<1>3. Grounded(node')
  BY <1>1, <1>2, GroundKept DEF Accounts
<1>4. ASSUME NEW s \in Tenant
      PROVE  /\ Kept(node, node', s)
             /\ Stands(task', s) \subseteq Stands(task, s)
             /\ Hold(node', s) = Hold(node, s) \/ (s = t /\ s \notin DOMAIN node[n].access)
  <2>1. \A m \in DOMAIN node : s \in DOMAIN node[m].access => s \in DOMAIN node'[m].access
    BY <1>2
  <2>2. Att(node) \subseteq DOMAIN node
    BY <1>1, AttType
  <2>3. s # t \/ s \in DOMAIN node[n].access =>
          \A m \in Att(node) : s \in DOMAIN node'[m].access => s \in DOMAIN node[m].access
    BY <1>2, <2>2
  <2>4. Kept(node, node', s)
    BY <1>1, <1>2, <2>1, AccessKept
  <2>5. s # t \/ s \in DOMAIN node[n].access => Hold(node', s) = Hold(node, s)
    BY <1>1, <1>2, <2>1, <2>3, AccessKept
  <2> QED
    BY <2>4, <2>5, StandsQuiet
<1>5. Accounts' /\ \A s \in Tenant : Hold(node', s) = Hold(node, s) => Balance(s)
  BY <1>3, <1>4, QuietStep
<1> QED
  BY <1>4, <1>5

\* A task takes an epoch.
LEMMA DrawAccounts ==
  ASSUME IndInv, Accounts, NEW k \in Task, InsertEnd(k) \/ MatchTouch(k)
  PROVE  Accounts' /\ \A s \in Tenant : Balance(s)
<1>1. node' = node /\ count' = count /\ \A j \in Task \ {k} : task'[j] = task[j]
  BY TaskDomain DEF InsertEnd, MatchTouch, Draw
<1>2. task'[k].pc \in {"refresh", "stamp", "idle"}
  <2>1. task \in [Task -> TaskRec]
    BY TaskDomain
  <2>2. DOMAIN task[k] = {"pc", "text", "tenant", "at", "child", "off", "queue", "stamp"}
    BY <2>1 DEF TaskRec
  <2> QED
    BY <2>1, <2>2 DEF InsertEnd, MatchTouch, Draw, Idle
<1> QED
  BY <1>1, <1>2, TaskOnly

\* It is written to the node.  An insert finds its tenant there; the tenant that a
\* match picked may have gone.
LEMMA TouchAccounts ==
  ASSUME IndInv, Accounts, NEW k \in Task, Touch(k)
  PROVE  Accounts' /\ \A s \in Tenant : Balance(s) \/ StaleTouch(s)
<1> DEFINE n == task[k].at
           t == task[k].tenant
           v == task[k].stamp
<1>1. /\ task[k].pc \in {"stamp", "refresh"} /\ node' = Attach(node, n, t, v)
      /\ count' = count /\ task' = [task EXCEPT ![k] = Idle]
  BY DEF Touch, Drawn, Attach, SetAccess
<1>2. /\ t \in Holder /\ n \in DOMAIN node
      /\ task[k].pc = "refresh" => t \in DOMAIN node[n].access
  <2> HIDE DEF TaskRec
  <2> QED
    BY <1>1 DEF IndInv, Tasks, TaskOK, Holder
<1>3. v \in Stamp
  <2>1. task[k] \in TaskRec
    BY TaskDomain
  <2> HIDE DEF Stamp
  <2> QED
    BY <2>1 DEF TaskRec
<1>4. task'[k] = Idle /\ Idle.pc = "idle" /\ \A j \in Task \ {k} : task'[j] = task[j]
  BY <1>1, TaskDomain DEF Idle
<1> HIDE DEF Idle
<1>5. Accounts' /\ \A s \in Tenant : Balance(s) \/ (s = t /\ s \notin DOMAIN node[n].access)
  <2>1. task'[k].pc # "insert"
    BY <1>4
  <2> HIDE DEF n, t, v, Holder, Stamp
  <2> QED
    BY <1>1, <1>2, <1>3, <1>4, <2>1, StampAccounts
<1>6. ASSUME NEW s \in Tenant, s = t, s \notin DOMAIN node[n].access PROVE StaleTouch(s)
  <2>1. task[k].pc = "stamp"
    BY <1>1, <1>2, <1>6
  <2>2. task'[k].pc = "idle" /\ task[k].tenant = s /\ ~Has(task[k].at, s)
    BY <1>4, <1>6 DEF Has
  <2> QED
    BY <2>1, <2>2 DEF StaleTouch
<1> QED
  BY <1>5, <1>6

\* The rest of a text becomes a leaf, and the tenant is charged for it.
LEMMA InsertLeafAccounts ==
  ASSUME IndInv, Accounts, NEW k \in Task, InsertLeaf(k)
  PROVE  Accounts' /\ \A s \in Tenant : Balance(s)
<1> DEFINE p == task[k].at
           t == task[k].tenant
           rest == Remaining(k)
           a == [s \in {t} |-> epoch]
           leaf == NewNode(rest, p, a, t)
           h == Len(node) + 1
<1>1. /\ task[k].pc = "insert" /\ rest # << >> /\ rest[1] \notin DOMAIN node[p].children
      /\ task' = [task EXCEPT ![k] = Idle]
      /\ count' = [count EXCEPT ![t] = @ + Len(rest)]
      /\ node' = AddLeaf(node, p, rest[1], leaf)
  BY DEF InsertLeaf, Vacant, AddLeaf, SetKids
<1>2. /\ Shape(node) /\ node \in Seq(NodeRec)
      /\ t \in Tenant /\ t \in Holder /\ p \in DOMAIN node /\ p \in Att(node)
      /\ epoch \in Stamp /\ count \in [Tenant -> Nat]
  BY <1>1, InsertNow DEF Holder, Stamp
<1>3. rest \in Seq(Char) /\ rest[1] \in Char /\ Len(rest) \in Nat
  BY <1>1, InsertRest
<1>4. p \in Nat
  BY <1>2, NodeIndex
<1>5. a \in Accesses /\ DOMAIN a = {t}
  BY <1>2, OneMap DEF Accesses
<1>6. p \in Stands(task, t)
  BY <1>1 DEF Stands
<1>7. \A j \in Task \ {k} : task'[j] = task[j]
  BY <1>1, TaskDomain
<1>8. task'[k].pc # "insert"
  BY <1>1, TaskDomain DEF Idle
<1>9. ASSUME NEW s \in Tenant PROVE Stands(task', s) \subseteq Stands(task, s)
  BY <1>7, <1>8, StandsQuiet
<1> HIDE DEF NodeRec, rest, p, t, a, Idle
<1>10. /\ leaf \in NodeRec /\ leaf.children = << >> /\ leaf.parent = p
       /\ leaf.text = rest /\ leaf.access = a
  BY <1>2, <1>3, <1>4, <1>5, NewNodeType
<1> HIDE DEF leaf
<1>11. /\ node' \in Seq(NodeRec) /\ LeafAdded(node, node', p, rest[1])
       /\ SameAccess(node, node') /\ node'[h] = leaf
  BY <1>1, <1>2, <1>3, <1>10, LeafAdd
<1>12. Shape(node') /\ Att(node') = Att(node) \cup {h} /\ DOMAIN node' = DOMAIN node \cup {h}
  BY <1>1, <1>2, <1>3, <1>11, LinksLeaf
<1>13. h \notin DOMAIN node /\ h # Root
  <2>1. Len(node') = Len(node) + 1
    BY <1>11 DEF LeafAdded
  <2>2. h \notin DOMAIN node
    BY <1>2, <1>11, <2>1, OneMore
  <2> QED
    BY <1>2, <2>2 DEF Shape
<1>14. /\ \A n \in DOMAIN node : node'[n].text = node[n].text /\ node'[n].parent = node[n].parent
       /\ node'[h].parent = p /\ node'[h].text = rest /\ DOMAIN node'[h].access = {t}
  BY <1>5, <1>10, <1>11 DEF LeafAdded
<1> HIDE DEF h
<1>15. Grounded(node')
  BY <1>2, <1>12, <1>13, <1>14, GroundLeaf DEF Accounts
<1>16. ASSUME NEW s \in Tenant
       PROVE  Kept(node, node', s) /\ Hold(node', s) = Hold(node, s) \cup (IF s = t THEN {h} ELSE {})
  <2>1. Att(node) \subseteq DOMAIN node
    BY <1>2, AttType
  <2>2. ASSUME NEW n \in Att(node) PROVE DOMAIN node'[n].access = DOMAIN node[n].access
    BY <1>11, <2>1 DEF SameAccess
  <2> QED
    BY <1>12, <1>14, <2>1, <2>2 DEF Kept, Hold
<1>17. ASSUME NEW s \in Tenant
       PROVE  Ledger(node', s, Stands(task', s), count'[s]) /\ Balance(s)
  <2>1. count[s] \in Nat /\ Used(node, s) \in Nat /\ Ledger(node, s, Stands(task, s), count[s])
    BY AccountsType
  <2>2. CASE s # t
    <3>1. count'[s] = count[s]
      BY <1>1, <1>2, <2>2
    <3>2. Kept(node, node', s) /\ Hold(node', s) = Hold(node, s)
      BY <1>16, <2>2
    <3>3. Used(node', s) = Used(node, s)
      BY <3>2, UsedSame
    <3>4. Ledger(node', s, Stands(task', s), count[s])
      BY <1>9, <2>1, <3>2, LedgerKept
    <3> QED
      BY <3>1, <3>3, <3>4 DEF Balance
  <2>3. CASE s = t
    <3>1. count'[s] = count[s] + Len(node'[h].text)
      BY <1>1, <1>2, <1>14, <2>3
    <3>2. /\ Kept(node, node', s) /\ Hold(node', s) = Hold(node, s) \cup {h}
      BY <1>16, <2>3
    <3>3. h \notin Hold(node, s) /\ h \in Hold(node', s) /\ h \in DOMAIN node'
      BY <1>2, <1>12, <1>13, <3>2, HoldType
    <3>4. Used(node', s) = Used(node, s) + Len(node'[h].text)
      BY <1>12, <3>2, <3>3, UsedGain
    <3>5. node'[h].parent \in Stands(task, s)
      BY <1>6, <1>14, <2>3
    <3>6. Stands(task', s) \subseteq Stands(task, s)
      BY <1>7, <1>8 DEF Stands
    <3> DEFINE d == count'[s]
               c == count[s]
    <3>7. d = IF h \in Hold(node, s) THEN c ELSE c + Len(node'[h].text)
      BY <3>1, <3>3
    <3>8. Ledger(node', s, Stands(task', s), d)
      <4>1. c \in Nat /\ Ledger(node, s, Stands(task, s), c)
        BY <2>1
      <4>2. Stands(task', s) \subseteq Stands(task, s) \cup {h}
        BY <3>6
      <4> DEFINE A == Stands(task, s)
                 B == Stands(task', s)
                 M == node'
      <4>3. Gains(node, M, s, A, B, h, c, d)
        BY <1>2, <1>12, <1>13, <3>2, <3>3, <3>5, <3>7, <4>1, <4>2 DEF Gains
      <4> HIDE DEF c, d, A, B, M
      <4>4. Ledger(M, s, B, d)
        BY <4>1, <4>3, LedgerGain DEF A
      <4> QED
        BY <4>4 DEF M, B
    <3>9. Balance(s)
      <4> DEFINE u == Used(node, s)
                 b == Len(node'[h].text)
      <4>1. b \in Nat
        BY <1>3, <1>14
      <4>2. u \in Nat /\ c \in Nat /\ d = c + b /\ Used(node', s) = u + b
        BY <2>1, <3>1, <3>4
      <4> HIDE DEF u, b, c, d
      <4>3. Used(node', s) + c = u + d
        BY <4>1, <4>2
      <4> QED
        BY <4>3 DEF Balance, u, c, d
    <3> QED
      BY <3>8, <3>9
  <2> QED
    BY <2>2, <2>3
<1> QED
  BY <1>15, <1>17 DEF Accounts, Charged


\* Task k has reached the node m of the tree M, from where it stood.  The tree
\* before the step, or what a split has made of it, is as well covered.
LEMMA ReachAccounts ==
  ASSUME IndInv, Accounts, NEW k \in Task, task[k].pc = "insert",
         NEW M, Shape(M), Grounded(M), NEW m \in Att(M), m # Root, M[m].parent = task[k].at,
         \A s \in Tenant : /\ Ledger(M, s, Stands(task, s), count[s])
                           /\ Used(M, s) = Used(node, s),
         Reach(k, M, m)
  PROVE  Accounts' /\ \A s \in Tenant : Balance(s)
<1> DEFINE t == task[k].tenant
           len == Len(M[m].text)
           new == t \notin DOMAIN M[m].access
<1>1. t \in Tenant /\ t \in Holder /\ 0 \in Stamp /\ count \in [Tenant -> Nat]
  BY InsertNow, TreeAssumption DEF Holder, Stamp
<1>2. M \in Seq(NodeRec) /\ m \in DOMAIN M /\ len \in Nat /\ Att(M) \subseteq DOMAIN M
  BY AttType, ShapeNode, NodeCells
<1>3. /\ \A j \in Task \ {k} : task'[j] = task[j]
      /\ task'[k].at = m /\ task'[k].tenant = t
  <2>1. task \in [Task -> TaskRec]
    BY TaskDomain
  <2>2. DOMAIN task[k] = {"pc", "text", "tenant", "at", "child", "off", "queue", "stamp"}
    BY <2>1 DEF TaskRec
  <2> QED
    BY <2>1, <2>2 DEF Reach
<1>4. /\ ~new => node' = M /\ count' = count
      /\ new => node' = Attach(M, m, t, 0) /\ count' = [count EXCEPT ![t] = @ + len]
  BY DEF Reach, Attach, SetAccess
<1>5. task[k].at \in Stands(task, t)
  BY DEF Stands
<1> HIDE DEF NodeRec, t, len
<1>6. /\ node' \in Seq(NodeRec) /\ SameLinks(M, node')
      /\ DOMAIN node'[m].access = DOMAIN M[m].access \cup {t}
      /\ \A n \in DOMAIN M : n # m => node'[n].access = M[n].access
  <2>1. CASE ~new
    BY <1>2, <1>4, <2>1 DEF SameLinks
  <2>2. CASE new
    BY <1>1, <1>2, <1>4, <2>2, AttachNode
  <2> QED
    BY <2>1, <2>2
<1>7. Shape(node') /\ Att(node') = Att(M) /\ DOMAIN node' = DOMAIN M
  BY <1>6, LinksKept
<1>8. Grounded(node')
  BY <1>6, GroundKept
<1>9. node'[m].parent = task[k].at /\ node'[m].text = M[m].text
  BY <1>2, <1>6 DEF SameLinks
<1>10. ASSUME NEW s \in Tenant
       PROVE  Kept(M, node', s) /\ Hold(node', s) = Hold(M, s) \cup (IF s = t THEN {m} ELSE {})
  <2>1. \A n \in DOMAIN M : s \in DOMAIN M[n].access => s \in DOMAIN node'[n].access
    BY <1>6
  <2>2. Kept(M, node', s)
    BY <1>6, <2>1, AccessKept
  <2> QED
    BY <1>2, <1>6, <1>7, <2>2 DEF Hold
<1>11. ASSUME NEW s \in Tenant
       PROVE  Ledger(node', s, Stands(task', s), count'[s]) /\ Balance(s)
  <2> DEFINE A == Stands(task, s)
             B == Stands(task', s)
             c == count[s]
             d == count'[s]
             P == node'
  <2>1. c \in Nat /\ Used(node, s) \in Nat /\ Used(M, s) = Used(node, s) /\ Ledger(M, s, A, c)
    BY AccountsType
  <2>2. CASE s # t
    <3>1. d = c
      BY <1>1, <1>4, <2>2
    <3>2. Kept(M, P, s) /\ Hold(P, s) = Hold(M, s)
      BY <1>10, <2>2
    <3>3. Used(P, s) = Used(M, s)
      BY <3>2, UsedSame
    <3>4. B \subseteq A
      BY <1>3, <2>2, StandsMoves
    <3>5. Ledger(P, s, B, c)
      <4> HIDE DEF A, B, c, P
      <4> QED
        BY <2>1, <3>2, <3>4, LedgerKept
    <3> QED
      BY <2>1, <3>1, <3>3, <3>5 DEF Balance
  <2>3. CASE s = t
    <3>1. /\ Kept(M, P, s) /\ Hold(P, s) = Hold(M, s) \cup {m}
      BY <1>10, <2>3
    <3>2. m \in Hold(M, s) <=> ~new
      BY <2>3 DEF Hold
    <3>3. d = IF m \in Hold(M, s) THEN c ELSE c + Len(P[m].text)
      BY <1>1, <1>4, <1>9, <2>3, <3>2 DEF len
    <3>4. B \subseteq A \cup {m} /\ P[m].parent \in A
      BY <1>3, <1>5, <1>9, <2>3, StandsMoves
    <3>5. Gains(M, P, s, A, B, m, c, d)
      BY <1>7, <2>1, <3>1, <3>3, <3>4 DEF Gains
    <3>6. Ledger(P, s, B, d)
      <4> HIDE DEF A, B, c, d, P
      <4> QED
        BY <2>1, <3>5, LedgerGain
    <3>7. Balance(s)
      <4>1. CASE m \in Hold(M, s)
        <5>1. Hold(P, s) = Hold(M, s)
          BY <3>1, <4>1
        <5>2. Used(P, s) = Used(M, s)
          BY <3>1, <5>1, UsedSame
        <5> QED
          BY <2>1, <3>3, <4>1, <5>2 DEF Balance
      <4>2. CASE m \notin Hold(M, s)
        <5> DEFINE u == Used(node, s)
        <5>1. Used(P, s) = Used(M, s) + len
          BY <1>2, <1>7, <1>9, <3>1, <4>2, UsedGain DEF len
        <5>2. d = c + len
          BY <1>9, <3>3, <4>2 DEF len
        <5>3. u \in Nat /\ c \in Nat /\ len \in Nat /\ Used(P, s) = u + len
          BY <1>2, <2>1, <5>1
        <5> HIDE DEF u, c, d, P
        <5>4. Used(P, s) + c = u + d
          BY <5>2, <5>3
        <5> QED
          BY <5>4 DEF Balance, u, c, d, P
      <4> QED
        BY <4>1, <4>2
    <3> QED
      BY <3>6, <3>7
  <2> QED
    BY <2>2, <2>3
<1> QED
  BY <1>8, <1>11 DEF Accounts, Charged

\* An insert goes down, splitting the child if it must.
LEMMA InsertDownAccounts ==
  ASSUME IndInv, Accounts, NEW k \in Task, InsertDown(k)
  PROVE  Accounts' /\ \A s \in Tenant : Balance(s)
<1> DEFINE n == ChildOf(k)
           p == task[k].at
           c == Remaining(k)[1]
           shared == SharedCount(Remaining(k), node[n].text)
           h == Len(node) + 1
<1>1. task[k].pc = "insert" /\ Remaining(k) # << >> /\ ~Vacant(k)
  BY DEF InsertDown
<1>2. Shape(node) /\ node \in Seq(NodeRec) /\ p \in DOMAIN node /\ Grounded(node)
  BY <1>1, InsertNow DEF Accounts
<1>3. Remaining(k) \in Seq(Char)
  BY <1>1, InsertRest
<1>4. /\ c \in DOMAIN node[p].children /\ n = node[p].children[c]
      /\ n \in DOMAIN node /\ n \in Att(node) /\ n # Root /\ node[n].parent = p
      /\ shared \in Nat /\ 1 <= shared
  BY <1>1, <1>2, <1>3, ChildFound
<1>5. \/ shared < Len(node[n].text) /\ Reach(k, Split(n, p, shared), h)
      \/ Reach(k, node, n)
  BY DEF InsertDown
<1>6. \A s \in Tenant : Ledger(node, s, Stands(task, s), count[s])
  BY AccountsType
<1> HIDE DEF n, p, c, shared, NodeRec
<1>7. CASE shared < Len(node[n].text) /\ Reach(k, Split(n, p, shared), h)
  <2> DEFINE M == Split(n, p, shared)
  <2>1. /\ M \in Seq(NodeRec) /\ SplitAt(node, M, n, p, shared) /\ SameAccess(node, M)
        /\ M[h].access = node[n].access
    BY <1>2, <1>4, <1>7, SplitSplits DEF Nodes
  <2> HIDE DEF M
  <2>2. Shape(M) /\ Att(M) = Att(node) \cup {h} /\ DOMAIN M = DOMAIN node \cup {h}
    BY <1>2, <1>4, <1>7, <2>1, LinksSplit
  <2>3. /\ Len(M) = h /\ M[n].parent = h /\ M[h].parent = p
        /\ \A m \in DOMAIN node \ {n} : M[m].parent = node[m].parent
    BY <2>1 DEF SplitAt
  <2>4. h \notin DOMAIN node /\ h # Root
    <3>1. h \notin DOMAIN node
      BY <1>2, <2>1, <2>3, OneMore
    <3>2. Root \in DOMAIN node
      BY <1>2 DEF Shape
    <3> QED
      BY <3>1, <3>2
  <2>5. Grounded(M)
    <3>1. M[h].parent = node[n].parent
      BY <1>4, <2>3
    <3> HIDE DEF h
    <3> QED
      BY <1>2, <1>4, <2>2, <2>3, <2>4, <3>1, GroundSplit
  <2>6. ASSUME NEW s \in Tenant
        PROVE  Ledger(M, s, Stands(task, s), count[s]) /\ Used(M, s) = Used(node, s)
    <3>1. SplitAt(node, M, n, node[n].parent, shared) /\ shared < Len(node[n].text)
      BY <1>4, <1>7, <2>1
    <3>2. Ledger(M, s, Stands(task, s), count[s])
      BY <1>2, <1>4, <1>6, <2>1, <2>2, <3>1, LedgerSplit
    <3> DEFINE Q == Hold(node, s)
    <3>3. Q \in SUBSET DOMAIN node /\ Att(node) \subseteq DOMAIN node
      BY <1>2, HoldType, AttType
    <3>4. Hold(M, s) = IF n \in Q THEN Q \cup {h} ELSE Q
      <4>1. \A m \in Att(node) : DOMAIN M[m].access = DOMAIN node[m].access
        BY <2>1, <3>3 DEF SameAccess
      <4>2. n \in Q <=> s \in DOMAIN M[h].access
        BY <1>4, <2>1 DEF Hold
      <4> HIDE DEF h
      <4> QED
        BY <2>2, <4>1, <4>2 DEF Hold
    <3> HIDE DEF Q
    <3>5. /\ n \in Q => Size(M, Q \cup {h}) = Size(node, Q)
          /\ n \notin Q => Size(M, Q) = Size(node, Q)
      <4>1. /\ node \in Seq(NodeRec) /\ M \in Seq(NodeRec) /\ n \in DOMAIN node
            /\ shared \in Nat /\ SplitAt(node, M, n, p, shared) /\ Q \in SUBSET DOMAIN node
        BY <1>2, <1>4, <2>1, <3>3
      <4> QED
        BY <4>1, SizeSplit
    <3>6. Used(M, s) = Used(node, s)
      BY <3>4, <3>5 DEF Used, Q
    <3> QED
      BY <3>2, <3>6
  <2>7. Reach(k, M, h) /\ h \in Att(M) /\ M[h].parent = task[k].at
    BY <1>7, <2>2, <2>3 DEF M, p
  <2> HIDE DEF h
  <2> QED
    BY <1>1, <2>2, <2>4, <2>5, <2>6, <2>7, ReachAccounts
<1>8. CASE Reach(k, node, n)
  <2>1. node[n].parent = task[k].at
    BY <1>4 DEF p
  <2> QED
    BY <1>1, <1>2, <1>4, <1>6, <1>8, <2>1, ReachAccounts
<1> QED
  BY <1>5, <1>7, <1>8


----------------------------------------------------------------------------
(* The steps of a pass. *)

\* A pass never takes a tenant off the root: there it would be a leaf, and have
\* nothing charged.
LEMMA OffTheRoot ==
  ASSUME IndInv, Accounts, NEW e, EvictRemove(e), e.tenant \in Tenant
  PROVE  e.node # Root
<1> SUFFICES ASSUME e.node = Root PROVE FALSE
  OBVIOUS
<1> DEFINE t == e.tenant
<1>1. ~Within(t) /\ t \in LeafOf(Root)
  BY DEF EvictRemove
<1>2. /\ Shape(node) /\ Grounded(node) /\ count[t] \in Nat /\ evict.limit \in Nat
      /\ Ledger(node, t, Stands(task, t), count[t])
  BY AccountsType DEF Accounts, IndInv, Pass
<1> DEFINE c == count[t]
<1>3. c = 0
  <2>1. c \in Nat /\ Ledger(node, t, Stands(task, t), c)
    BY <1>2
  <2> HIDE DEF c, t
  <2> QED
    BY <1>1, <1>2, <2>1, RootLeafFree
<1> QED
  BY <1>1, <1>2, <1>3 DEF Within

\* A lower charge is covered by the same nodes.
LEMMA LedgerLess ==
  ASSUME NEW N, Shape(N), NEW t, NEW A, NEW c \in Nat, NEW d \in Nat, d <= c, Ledger(N, t, A, c)
  PROVE  Ledger(N, t, A, d)
<1>1. PICK Q \in SUBSET Att(N) : Held(N, t, Q) /\ A \subseteq Q /\ c <= Size(N, Q)
  BY DEF Ledger
<1>2. Q \in SUBSET DOMAIN N /\ N \in Seq(NodeRec)
  BY AttType DEF Shape
<1>3. Size(N, Q) \in Nat
  BY <1>2, CellsFinite
<1>4. d <= Size(N, Q)
  BY <1>1, <1>3
<1> QED
  BY <1>1, <1>4 DEF Ledger

\* The steps of a pass charge nobody; they take off a charge what they take from
\* the tenant, or all of it when it is less.  What they take off a node that has been
\* unlinked, the tenant no longer had in the tree.
LEMMA EvictRemoveAccounts ==
  ASSUME IndInv, Accounts, NEW e, EvictRemove(e)
  PROVE  /\ Accounts'
         /\ \A s \in Tenant :
              s # e.tenant \/ e.node \in Att(node) =>
                /\ Used(node', s) + count[s] <= Used(node, s) + count'[s]
                /\ count[s] = Used(node, s) => Balance(s)
<1> DEFINE n == e.node
           t == e.tenant
           len == Len(node[n].text)
<1>1. /\ Popped(e) /\ ~Within(t) /\ t \in LeafOf(n) /\ count' = Uncharge(t, len)
      /\ node' = Detach(node, n, t) /\ task' = task
  BY DEF EvictRemove, Detach, SetAccess
<1>2. /\ \A k \in Task : task[k].pc # "insert"
      /\ n \in DOMAIN node /\ t \in DOMAIN node[n].access
  BY <1>1, PoppedIs DEF LeafOf
<1>3. /\ Shape(node) /\ node \in Seq(NodeRec) /\ count \in [Tenant -> Nat] /\ Grounded(node)
  BY DEF IndInv, Counters, Shape, Accounts
<1>4. len \in Nat
  BY <1>2, <1>3, NodeCells
<1>5. t \in Tenant => n # Root
  BY OffTheRoot
<1>6. n \in Att(node) =>
        \A m \in Att(node) \ {Root} : node[m].parent = n => t \notin DOMAIN node[m].access
  BY <1>1, <1>3, LeafIs
<1> HIDE DEF NodeRec, n, t, len
<1>7. /\ node' \in Seq(NodeRec) /\ SameLinks(node, node')
      /\ DOMAIN node'[n].access = DOMAIN node[n].access \ {t}
      /\ \A m \in DOMAIN node : m # n => node'[m].access = node[m].access
  BY <1>1, <1>2, <1>3, DetachNode
<1>8. Shape(node') /\ Att(node') = Att(node) /\ DOMAIN node' = DOMAIN node
  BY <1>3, <1>7, LinksKept
<1>9. Grounded(node')
  BY <1>3, <1>7, GroundKept
<1>10. Att(node) \subseteq DOMAIN node
  BY <1>3, AttType
<1>11. ASSUME NEW s \in Tenant
       PROVE  /\ Ledger(node', s, Stands(task', s), count'[s])
              /\ s # t \/ n \in Att(node) =>
                   /\ Used(node', s) + count[s] <= Used(node, s) + count'[s]
                   /\ count[s] = Used(node, s) => Balance(s)
  <2> DEFINE c == count[s]
             d == count'[s]
             A == Stands(task, s)
             P == node'
             u == Used(node, s)
  <2>1. c \in Nat /\ u \in Nat /\ Ledger(node, s, A, c)
    BY AccountsType
  <2>2. Stands(task', s) = {}
    BY <1>1, <1>2 DEF Stands
  <2>3. CASE s # t
    <3>1. \A m \in DOMAIN node : s \in DOMAIN node[m].access <=> s \in DOMAIN P[m].access
      BY <1>7, <2>3
    <3>2. Kept(node, P, s) /\ Hold(P, s) = Hold(node, s)
      BY <1>3, <1>7, <1>10, <3>1, AccessKept
    <3>3. d = c
      BY <1>1, <1>3, <2>3 DEF Uncharge
    <3>4. Used(P, s) = u
      BY <3>2, UsedSame
    <3>5. Ledger(P, s, {}, c)
      <4> HIDE DEF A, c, P
      <4> QED
        BY <2>1, <3>2, LedgerKept
    <3> QED
      BY <2>1, <2>2, <3>3, <3>4, <3>5 DEF Balance
  <2>4. CASE s = t /\ n \in Att(node)
    <3>1. n \in Hold(node, s) /\ n # Root
      BY <1>2, <1>5, <2>4 DEF Hold
    <3>2. d = IF c >= len THEN c - len ELSE 0
      BY <1>1, <1>3, <2>4 DEF Uncharge
    <3>3. ASSUME NEW m \in Hold(node, s) \ {n}
          PROVE  /\ m \in Hold(P, s) /\ P[m].parent = node[m].parent /\ P[m].text = node[m].text
                 /\ m # Root => node[m].parent # n
      BY <1>6, <1>7, <1>8, <1>10, <2>4 DEF Hold, SameLinks
    <3>4. Ledger(P, s, {}, d)
      <4>1. d = IF c >= Len(node[n].text) THEN c - Len(node[n].text) ELSE 0
        BY <3>2 DEF len
      <4> HIDE DEF A, c, d, P
      <4> QED
        BY <1>3, <2>1, <3>1, <3>3, <4>1, LedgerLose
    <3>5. Hold(P, s) = Hold(node, s) \ {n}
      BY <1>7, <1>8, <1>10, <2>4 DEF Hold
    <3> DEFINE v == Used(P, s)
    <3>6. v = Size(node, Hold(node, s) \ {n})
      BY <3>3, <3>5, SizeSame DEF Used
    <3>7. Hold(node, s) \in SUBSET DOMAIN node
      BY <1>3, HoldType
    <3>8. u = v + len /\ v \in Nat
      BY <1>3, <3>1, <3>6, <3>7, SizeRemove DEF Used, len
    <3> HIDE DEF u, v, c, d, P
    <3>9. v + c <= u + d /\ (c = u => v + c = u + d)
      BY <1>4, <2>1, <3>2, <3>8
    <3> QED
      BY <2>2, <3>4, <3>9 DEF Balance, u, v, c, d, P
  <2>5. CASE s = t /\ n \notin Att(node)
    <3>1. d = IF c >= len THEN c - len ELSE 0
      BY <1>1, <1>3, <2>5 DEF Uncharge
    <3>2. \A m \in Att(node) : P[m].access = node[m].access
      BY <1>7, <1>10, <2>5
    <3>3. \A m \in Att(node) : P[m].parent = node[m].parent /\ P[m].text = node[m].text
      BY <1>7, <1>10 DEF SameLinks
    <3>4. Kept(node, P, s)
      BY <1>8, <3>2, <3>3 DEF Kept, Hold
    <3>5. Ledger(P, s, {}, c)
      <4> HIDE DEF A, c, P
      <4> QED
        BY <2>1, <3>4, LedgerKept
    <3>6. d \in Nat /\ d <= c
      <4> HIDE DEF c, d
      <4> QED
        BY <1>4, <2>1, <3>1
    <3>7. Ledger(P, s, {}, d)
      <4> HIDE DEF A, c, d, P
      <4>1. Shape(P)
        BY <1>8 DEF P
      <4> QED
        BY <2>1, <3>5, <3>6, <4>1, LedgerLess
    <3> QED
      BY <2>2, <2>5, <3>7
  <2> QED
    BY <2>3, <2>4, <2>5
<1> QED
  BY <1>9, <1>11 DEF Accounts, Charged, n, t

\* A pass prunes a node.
LEMMA EvictPruneAccounts ==
  ASSUME IndInv, Accounts, EvictPrune
  PROVE  Accounts' /\ \A s \in Tenant : Balance(s)
<1>1. node' = Unlinked(evict.at) /\ count' = count /\ task' = task /\ evict.pc = "prune"
  BY DEF EvictPrune
<1>2. Shape(node)
  BY DEF IndInv
<1>3. Pruned(node, node')
  BY <1>1, EvictPrunes
<1>4. Att(node) \subseteq DOMAIN node
  BY <1>2, AttType
<1>5. /\ Att(node') \subseteq Att(node) /\ SameAccess(node, node')
      /\ \A n \in DOMAIN node : node'[n].parent = node[n].parent /\ node'[n].text = node[n].text
      /\ \A n \in Att(node) : DOMAIN node[n].access # {} => n \in Att(node')
  BY <1>3 DEF Pruned
<1>6. Grounded(node')
  BY <1>4, <1>5, GroundSub DEF Accounts
<1>7. ASSUME NEW s \in Tenant
      PROVE  /\ Kept(node, node', s) /\ Hold(node', s) = Hold(node, s)
             /\ Stands(task', s) \subseteq Stands(task, s)
  <2>1. \A n \in Att(node) : DOMAIN node'[n].access = DOMAIN node[n].access
    BY <1>4, <1>5 DEF SameAccess
  <2>2. ASSUME NEW n \in Hold(node, s) PROVE n \in Hold(node', s)
    BY <1>5, <2>1 DEF Hold
  <2>3. ASSUME NEW n \in Hold(node', s) PROVE n \in Hold(node, s)
    BY <1>5, <2>1 DEF Hold
  <2>4. Hold(node, s) \subseteq DOMAIN node
    BY <1>2, HoldType
  <2>5. Kept(node, node', s)
    BY <1>5, <2>2, <2>4 DEF Kept
  <2> QED
    BY <1>1, <2>2, <2>3, <2>5
<1> QED
  BY <1>1, <1>6, <1>7, QuietStep

----------------------------------------------------------------------------
(* The theorems. *)

\* At first nothing is charged.
LEMMA InitAccounts == Init => Accounts
<1> SUFFICES ASSUME Init PROVE Accounts
  OBVIOUS
<1>1. IndInv
  BY InitInv
<1>2. PICK order \in [Tenant -> 0 .. Cardinality(Tenant) - 1] :
             node = <<NewNode(<< >>, Root, order, NoTenant)>>
  BY DEF Init
<1>3. /\ DOMAIN node = {Root} /\ node[Root].access = order
  BY <1>2 DEF NewNode, Root
<1>4. Shape(node)
  BY <1>1 DEF IndInv
<1>5. Att(node) = {Root}
  <2>1. Att(node) \subseteq DOMAIN node /\ Root \in Att(node)
    BY <1>4, AttType, AttIs
  <2> QED
    BY <1>3, <2>1
<1>6. Grounded(node)
  <2>1. Climbs(node)
    BY <1>5 DEF Climbs
  <2>2. Descends(node)
    BY <1>5 DEF Descends
  <2> QED
    BY <2>1, <2>2 DEF Grounded
<1>7. ASSUME NEW t \in Tenant PROVE Ledger(node, t, Stands(task, t), count[t])
  <2>1. count[t] = 0
    BY DEF Init
  <2>2. Stands(task, t) = {}
    BY DEF Init, Stands, Idle
  <2>3. Held(node, t, {Root})
    BY <1>2, <1>3, <1>5 DEF Held, Hold
  <2>4. Size(node, {Root}) \in Nat
    BY <1>3, <1>4, CellsFinite DEF Shape
  <2> QED
    BY <1>5, <2>1, <2>2, <2>3, <2>4 DEF Ledger
<1> QED
  BY <1>6, <1>7 DEF Accounts, Charged

\* What a step does to the accounts: only a stale touch gives a tenant more than it
\* charges it for.
LEMMA NextAccounts ==
  ASSUME IndInv, Accounts, [RouterNext]_vars
  PROVE  /\ Accounts'
         /\ \A s \in Tenant :
              \/ Balance(s) \/ StaleTouch(s)
              \/ \E e \in BagToSet(evict.heap) : EvictRemove(e)
<1> HIDE DEF IndInv, Accounts
<1>1. CASE \E k \in Task, x \in Text : Match(k, x) \/ \E t \in Tenant : Record(k, x, t)
  BY <1>1, StartAccounts
<1>2. CASE \E k \in Task : InsertStep(k)
  BY <1>2, LockTimeoutAccounts, InsertAtRootAccounts, InsertLeafAccounts, InsertDownAccounts,
     DrawAccounts DEF InsertStep
<1>3. CASE \E k \in Task : MatchStep(k)
  BY <1>3, WalkAccounts, DrawAccounts, MatchPickAccounts DEF MatchStep, Holder
<1>4. CASE \E k \in Task : Touch(k)
  BY <1>4, TouchAccounts
<1>5. CASE EvictStep
  <2>1. CASE EvictStart \/ EvictEnd \/ \E e \in BagToSet(evict.heap) : EvictSkip(e)
    <3>1. node' = node /\ count' = count /\ task' = task
      BY <2>1 DEF EvictStart, EvictEnd, EvictSkip, treeVars
    <3> QED
      BY <3>1, SameTasks
  <2>2. CASE \E e \in BagToSet(evict.heap) : EvictRemove(e)
    BY <2>2, EvictRemoveAccounts
  <2>3. CASE EvictPrune
    BY <2>3, EvictPruneAccounts
  <2> QED
    BY <1>5, <2>1, <2>2, <2>3 DEF EvictStep
<1>6. CASE DropRouter \/ UNCHANGED vars
  <2>1. node' = node /\ count' = count /\ task' = task
    BY <1>6 DEF DropRouter, vars, treeVars
  <2> QED
    BY <2>1, SameTasks
<1> QED
  BY <1>1, <1>2, <1>3, <1>4, <1>5, <1>6 DEF RouterNext

\* For any number of threads: there is no circle of parents, and what a tenant is
\* charged for is covered by nodes that hold it and hang together up to the root.
THEOREM AccountsKept ==
  ASSUME ~DirectOps
  PROVE  Spec => [](IndInv /\ Accounts)
<1>1. Init => IndInv /\ Accounts
  BY InitInv, InitAccounts
<1>2. IndInv /\ Accounts /\ [Next]_vars => IndInv' /\ Accounts'
  BY RouterOnly, NextInv, NextAccounts
<1> QED
  BY <1>1, <1>2, PTL DEF Spec

\* Used is the model's UsedSize, with the tree as a parameter.
LEMMA UsedIs ==
  ASSUME NEW t
  PROVE  UsedSize(t) = Used(node, t)
<1>1. {m \in Attached : Has(m, t)} = Hold(node, t)
  BY AttachedIs DEF Hold, Has
<1> QED
  BY <1>1 DEF UsedSize, Used, Size, Cells

\* However inserts, matches and passes interleave, a tenant is never charged for
\* more characters than the nodes that hold it have.
THEOREM ChargesCovered ==
  ASSUME ~DirectOps
  PROVE  Spec => []NeverOvercharged
<1>1. IndInv /\ Accounts => NeverOvercharged
  <2> SUFFICES ASSUME IndInv, Accounts, NEW t \in Tenant PROVE count[t] <= UsedSize(t)
    BY DEF NeverOvercharged
  <2>1. Shape(node) /\ count[t] \in Nat /\ Ledger(node, t, Stands(task, t), count[t])
    BY AccountsType
  <2>2. PICK Q \in SUBSET Att(node) : Held(node, t, Q) /\ count[t] <= Size(node, Q)
    BY <2>1 DEF Ledger
  <2>3. /\ node \in Seq(NodeRec) /\ Hold(node, t) \in SUBSET DOMAIN node
        /\ Q \in SUBSET Hold(node, t)
    BY <2>1, <2>2, HoldType DEF Held
  <2>4. /\ Size(node, Q) \in Nat /\ Used(node, t) \in Nat /\ Size(node, Q) <= Used(node, t)
    BY <2>3, SizeMono DEF Used
  <2> QED
    BY <2>1, <2>2, <2>4, UsedIs
<1> QED
  BY <1>1, AccountsKept, PTL

\* "root is never evicted": a pass collects the root as a leaf, but by the time it
\* pops it the tenant has nothing charged, and is within any limit.
THEOREM RootNeverEvicted ==
  ASSUME ~DirectOps
  PROVE  Spec => []RootKeepsTenants
<1>1. IndInv /\ Accounts => RootKeepsTenants
  <2> SUFFICES ASSUME IndInv, Accounts, NEW t \in Tenant PROVE t \in DOMAIN node[Root].access
    BY DEF RootKeepsTenants
  <2>1. Ledger(node, t, Stands(task, t), count[t])
    BY AccountsType
  <2> QED
    BY <2>1 DEF Ledger, Held, Hold
<1> QED
  BY <1>1, AccountsKept, PTL

\* The count falls behind the tree in two ways only: a match refreshes the timestamp
\* of a tenant that a pass has taken off the node since the match picked it, or a pass
\* takes such a tenant once more off a node that has been unlinked since.
THEOREM DriftIsStaleTouch ==
  ASSUME ~DirectOps
  PROVE  Spec => OnlyStaleTouchesDrift
<1> DEFINE Step == \A t \in Tenant :
                     UsedSize(t)' + count[t] > UsedSize(t) + count'[t]
                       => StaleTouch(t) \/ TakenTwice(t)
<1>1. IndInv /\ IndInv' /\ Accounts /\ [Next]_vars => [Step]_vars
  <2> SUFFICES ASSUME IndInv, IndInv', Accounts, [Next]_vars, NEW t \in Tenant,
                      ~StaleTouch(t), ~TakenTwice(t)
               PROVE  ~(UsedSize(t)' + count[t] > UsedSize(t) + count'[t])
    OBVIOUS
  <2>1. Used(node', t) + count[t] <= Used(node, t) + count'[t]
    <3>1. CASE Balance(t)
      <4>1. Shape(node') /\ count \in [Tenant -> Nat]
        BY DEF IndInv, Counters
      <4>2. Used(node', t) \in Nat /\ count[t] \in Nat
        BY <4>1, UsedType
      <4> QED
        BY <3>1, <4>2 DEF Balance
    <3>2. CASE \E e \in BagToSet(evict.heap) : EvictRemove(e)
      <4>1. PICK e : EvictRemove(e)
        BY <3>2
      <4>2. /\ evict.pc = "pop" /\ evict'.pc = "prune"
            /\ evict'.tenant = e.tenant /\ evict'.at = e.node
        BY <4>1 DEF EvictRemove, Popped, IndInv, Pass
      <4>3. t # e.tenant \/ e.node \in Att(node)
        BY <4>2, AttachedIs DEF TakenTwice
      <4> QED
        BY <4>1, <4>3, EvictRemoveAccounts
    <3> QED
      BY <3>1, <3>2, RouterOnly, NextAccounts
  <2>2. UsedSize(t) = Used(node, t)
    BY UsedIs
  <2>3. UsedSize(t)' = Used(node', t)
    <3>1. Attached' = Att(node')
      BY DEF Attached, Att, Children, Nodes
    <3>2. {m \in Attached' : Has(m, t)'} = Hold(node', t)
      BY <3>1 DEF Hold, Has
    <3> QED
      BY <3>2 DEF UsedSize, Used, Size, Cells
  <2> DEFINE u == Used(node, t)
             v == Used(node', t)
             c == count[t]
             d == count'[t]
  <2>4. u \in Nat /\ v \in Nat /\ c \in Nat /\ d \in Nat
    <3>1. /\ Shape(node) /\ Shape(node')
          /\ count \in [Tenant -> Nat] /\ count' \in [Tenant -> Nat]
      BY DEF IndInv, Counters
    <3> QED
      BY <3>1, UsedType
  <2>5. UsedSize(t) = u /\ UsedSize(t)' = v /\ v + c <= u + d
    BY <2>1, <2>2, <2>3
  <2> HIDE DEF u, v, c, d
  <2>6. ~(v + c > u + d)
    BY <2>4, <2>5
  <2> QED
    BY <2>5, <2>6 DEF c, d
<1>2. Spec => []IndInv /\ []Accounts
  BY AccountsKept, PTL
<1> QED
  BY <1>1, <1>2, PTL DEF Spec, OnlyStaleTouchesDrift

=============================================================================
