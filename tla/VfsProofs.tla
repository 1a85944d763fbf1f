----------------------------- MODULE VfsProofs ------------------------------
(***************************************************************************)
(* The file system keeps its promises for any names, any depth, any limits *)
(* and any number of shells.  Two of the model's operators are recursive:  *)
(* the sum behind the quota counter, and the walk of mkdir -p.  What they  *)
(* compute is shown by induction on a size, in the form of a least number  *)
(* for which it would fail.                                                *)
(***************************************************************************)
EXTENDS Vfs, SequenceTheorems, FiniteSetTheorems, WellFoundedInduction, TLAPS

\* For LeastNumber, the induction over natural numbers.
Lru == INSTANCE LruStoreProofs

\* What a node counts for.
Weight(t, q) == IF t[q].dynamic THEN t[q].size ELSE 0

\* The function Counted computes with.
IsSum(f, t, S) ==
    f = [s \in SUBSET S |-> IF s = {} THEN 0
                            ELSE LET x == CHOOSE x \in s : TRUE
                                 IN  Weight(t, x) + f[s \ {x}]]

\* The recursion of the library's sum, written out.
LEMMA CountedIs ==
    ASSUME NEW t, NEW S
    PROVE  Counted(t, S) = (CHOOSE f : IsSum(f, t, S))[S]
BY Zenon DEF Counted, MapThenSumSet, MapThenFoldSet, IsSum, Weight

\* A family of subsets of a finite set has a smallest member: the form of
\* induction over finite sets that needs no operator for a parameter.
LEMMA SmallestSubset ==
    ASSUME NEW S, IsFiniteSet(S), NEW F, F \subseteq SUBSET S, F # {}
    PROVE  \E s \in F : IsFiniteSet(s) /\ \A r \in F : r \subseteq s => r = s
<1> DEFINE R == StrictSubsetOrdering(S)
<1>1. IsWellFoundedOn(R, FiniteSubsetsOf(S))
  BY FS_StrictSubsetOrderingWellFounded
<1>2. F \subseteq FiniteSubsetsOf(S)
  BY FS_FiniteSubsetsOfFinite
<1>3. PICK s \in F : \A r \in F : ~(<<r, s>> \in R)
  <2> HIDE DEF R
  <2> QED BY <1>1, <1>2, WFMin
<1>4. IsFiniteSet(s)
  BY FS_Subset
<1>5. ASSUME NEW r \in F, r \subseteq s, r # s PROVE FALSE
  <2>1. <<r, s>> \in (SUBSET S) \X (SUBSET S)
    OBVIOUS
  <2> QED BY <1>3, <1>5, <2>1 DEF StrictSubsetOrdering
<1> QED BY <1>3, <1>4, <1>5

\* The element the sum takes off a set first.
First(s) == CHOOSE x \in s : TRUE

\* One round of the recursion.
LEMMA SumRound ==
    ASSUME NEW t, NEW S, NEW f, IsSum(f, t, S), NEW s \in SUBSET S
    PROVE  f[s] = IF s = {} THEN 0 ELSE Weight(t, First(s)) + f[s \ {First(s)}]
BY DEF IsSum, First

\* Two sums agree wherever both are defined.
LEMMA SumsAgree ==
    ASSUME NEW t, NEW S, NEW T, NEW f, NEW g, IsSum(f, t, S), IsSum(g, t, T),
           IsFiniteSet(S), S \subseteq T
    PROVE  f[S] = g[S]
<1> DEFINE F == {s \in SUBSET S : f[s] # g[s]}
<1> SUFFICES ASSUME F # {} PROVE FALSE
  OBVIOUS
<1>1. PICK s \in F : \A r \in F : r \subseteq s => r = s
  <2>1. F \subseteq SUBSET S
    OBVIOUS
  <2> HIDE DEF F
  <2> QED BY <2>1, SmallestSubset
<1>2. s \in SUBSET S /\ s \in SUBSET T
  OBVIOUS
<1>3. s # {}
  <2> SUFFICES ASSUME s = {} PROVE FALSE
    OBVIOUS
  <2>1. f[s] = 0
    BY <1>2, SumRound
  <2>2. g[s] = 0
    BY <1>2, SumRound
  <2>3. f[s] # g[s]
    OBVIOUS
  <2> QED BY <2>1, <2>2, <2>3
<1> DEFINE r == s \ {First(s)}
<1>4. First(s) \in s
  BY <1>3 DEF First
<1>5. r \subseteq s /\ r # s /\ r \in SUBSET S
  BY <1>2, <1>4
<1>6. f[r] = g[r]
  BY <1>1, <1>5
<1>7. f[s] = Weight(t, First(s)) + f[r] /\ g[s] = Weight(t, First(s)) + g[r]
  BY <1>2, <1>3, SumRound
<1> QED BY <1>6, <1>7

\* What a set with a sum counts for is what any sum over it gives.
LEMMA CountedBy ==
    ASSUME NEW t, NEW S, NEW T, NEW f, NEW g, IsFiniteSet(S), S \subseteq T,
           IsSum(f, t, S), IsSum(g, t, T)
    PROVE  Counted(t, S) = g[S]
<1>1. IsSum(CHOOSE h : IsSum(h, t, S), t, S)
  OBVIOUS
<1> QED BY <1>1, CountedIs, SumsAgree

\* Every finite set has a sum.
LEMMA SumExists ==
    ASSUME NEW t, NEW S, IsFiniteSet(S)
    PROVE  \E f : IsSum(f, t, S)
<1> DEFINE F == {s \in SUBSET S : ~ \E f : IsSum(f, t, s)}
<1> SUFFICES ASSUME F # {} PROVE FALSE
  OBVIOUS
<1>1. PICK s \in F : IsFiniteSet(s) /\ \A r \in F : r \subseteq s => r = s
  <2>1. F \subseteq SUBSET S
    OBVIOUS
  <2> HIDE DEF F
  <2> QED BY <2>1, SmallestSubset
<1>2. \A r \in SUBSET s : r # s => \E f : IsSum(f, t, r)
  BY <1>1
<1> DEFINE g == [r \in SUBSET s |->
                   IF r = {} THEN 0
                   ELSE Weight(t, First(r)) + Counted(t, r \ {First(r)})]
<1>3. ASSUME NEW r \in SUBSET s, r # s PROVE Counted(t, r) = g[r]
  <2>1. PICK f : IsSum(f, t, r)
    BY <1>2, <1>3
  <2>2. IsFiniteSet(r)
    BY <1>1, FS_Subset
  <2>3. Counted(t, r) = f[r]
    BY <2>1, <2>2, CountedBy
  <2>4. CASE r = {}
    <3>1. f[r] = 0
      BY <2>1, <2>4, SumRound
    <3> QED BY <2>3, <2>4, <3>1
  <2>5. CASE r # {}
    <3> DEFINE q == r \ {First(r)}
    <3>1. First(r) \in r
      BY <2>5 DEF First
    <3>2. q \in SUBSET s /\ q # s /\ q \subseteq r
      BY <1>3, <3>1
    <3>3. PICK h : IsSum(h, t, q)
      BY <1>2, <3>2
    <3>4. IsFiniteSet(q)
      BY <2>2, FS_Subset
    <3>5. Counted(t, q) = f[q]
      BY <2>1, <3>2, <3>3, <3>4, CountedBy
    <3>6. f[r] = Weight(t, First(r)) + f[q]
      BY <2>1, <2>5, SumRound
    <3> QED BY <2>3, <2>5, <3>5, <3>6
  <2> QED BY <2>4, <2>5
<1>4. \A r \in SUBSET s : g[r] = IF r = {} THEN 0
                                ELSE Weight(t, First(r)) + g[r \ {First(r)}]
  <2> TAKE r \in SUBSET s
  <2>1. CASE r # {}
    <3>1. First(r) \in r
      BY <2>1 DEF First
    <3>2. r \ {First(r)} \in SUBSET s /\ r \ {First(r)} # s
      BY <3>1
    <3>3. Counted(t, r \ {First(r)}) = g[r \ {First(r)}]
      BY <1>3, <3>2
    <3>4. g[r] = Weight(t, First(r)) + Counted(t, r \ {First(r)})
      BY <2>1
    <3> HIDE DEF g
    <3> QED BY <2>1, <3>3, <3>4
  <2> QED BY <2>1
<1>5. g = [r \in SUBSET s |-> g[r]]
  OBVIOUS
<1>6. IsSum(g, t, s)
  <2> HIDE DEF g
  <2> QED BY <1>4, <1>5 DEF IsSum, First
<1> HIDE DEF g
<1> QED BY <1>1, <1>6

\* Nothing counts for nothing.
LEMMA CountedNone == ASSUME NEW t PROVE Counted(t, {}) = 0
<1>1. IsFiniteSet({})
  BY FS_EmptySet
<1>2. PICK f : IsSum(f, t, {})
  BY <1>1, SumExists
<1>3. Counted(t, {}) = f[{}]
  BY <1>1, <1>2, CountedBy
<1>4. {} \in SUBSET {}
  OBVIOUS
<1>5. f[{}] = 0
  BY <1>2, <1>4, SumRound
<1> QED BY <1>3, <1>5

\* The recursion of the sum, for Counted itself.
LEMMA CountedFirst ==
    ASSUME NEW t, NEW S, IsFiniteSet(S), S # {}
    PROVE  /\ First(S) \in S
           /\ Counted(t, S) = Weight(t, First(S)) + Counted(t, S \ {First(S)})
<1> DEFINE r == S \ {First(S)}
<1>1. First(S) \in S
  BY DEF First
<1>2. IsFiniteSet(r)
  BY FS_RemoveElement
<1>3. PICK f : IsSum(f, t, S)
  BY SumExists
<1>4. PICK g : IsSum(g, t, r)
  BY <1>2, SumExists
<1>5. Counted(t, S) = f[S]
  BY <1>3, CountedBy
<1>6. Counted(t, r) = f[r]
  <2>1. r \subseteq S
    OBVIOUS
  <2> HIDE DEF r
  <2> QED BY <1>2, <1>3, <1>4, <2>1, CountedBy
<1>7. f[S] = Weight(t, First(S)) + f[r]
  BY <1>3, SumRound
<1> QED BY <1>1, <1>5, <1>6, <1>7

\* Sizes are natural numbers, and so is what a set of nodes counts for.
LEMMA CountedType ==
    ASSUME NEW t, NEW S, IsFiniteSet(S), \A q \in S : Weight(t, q) \in Nat
    PROVE  Counted(t, S) \in Nat
<1> DEFINE F == {s \in SUBSET S : Counted(t, s) \notin Nat}
<1> SUFFICES ASSUME F # {} PROVE FALSE
  OBVIOUS
<1>1. PICK s \in F : IsFiniteSet(s) /\ \A r \in F : r \subseteq s => r = s
  <2>1. F \subseteq SUBSET S
    OBVIOUS
  <2> HIDE DEF F
  <2> QED BY <2>1, SmallestSubset
<1>2. s # {}
  BY CountedNone
<1>3. /\ First(s) \in s
      /\ Counted(t, s) = Weight(t, First(s)) + Counted(t, s \ {First(s)})
  BY <1>1, <1>2, CountedFirst
<1>4. Counted(t, s \ {First(s)}) \in Nat
  <2>1. s \ {First(s)} \subseteq s /\ s \ {First(s)} # s
    BY <1>3
  <2>2. s \ {First(s)} \notin F
    BY <1>1, <2>1
  <2> QED BY <2>2
<1>5. Weight(t, First(s)) \in Nat
  BY <1>3
<1> QED BY <1>3, <1>4, <1>5

\* The order does not matter: any element may be taken off first.
LEMMA CountedAny ==
    ASSUME NEW t, NEW S, IsFiniteSet(S), \A q \in S : Weight(t, q) \in Nat,
           NEW x \in S
    PROVE  Counted(t, S) = Weight(t, x) + Counted(t, S \ {x})
<1> DEFINE F == {s \in SUBSET S : \E y \in s :
                   Counted(t, s) # Weight(t, y) + Counted(t, s \ {y})}
<1> SUFFICES ASSUME F # {} PROVE FALSE
  OBVIOUS
<1>1. PICK s \in F : IsFiniteSet(s) /\ \A r \in F : r \subseteq s => r = s
  <2>1. F \subseteq SUBSET S
    OBVIOUS
  <2> HIDE DEF F
  <2> QED BY <2>1, SmallestSubset
<1>2. PICK y \in s : Counted(t, s) # Weight(t, y) + Counted(t, s \ {y})
  OBVIOUS
<1> DEFINE c == First(s)
<1>3. c \in s /\ Counted(t, s) = Weight(t, c) + Counted(t, s \ {c})
  BY <1>1, <1>2, CountedFirst
<1>4. c # y
  BY <1>2, <1>3
<1>5. \A r \in SUBSET s : \A z \in r : r # s =>
        Counted(t, r) = Weight(t, z) + Counted(t, r \ {z})
  <2> TAKE r \in SUBSET s
  <2> TAKE z \in r
  <2> HAVE r # s
  <2>1. r \notin F
    BY <1>1
  <2> QED BY <2>1
<1> HIDE DEF c, F
<1>6. Counted(t, s \ {c}) = Weight(t, y) + Counted(t, (s \ {c}) \ {y})
  <2>1. s \ {c} \in SUBSET s /\ y \in s \ {c} /\ s \ {c} # s
    BY <1>2, <1>3, <1>4
  <2> QED BY <1>5, <2>1
<1>7. Counted(t, s \ {y}) = Weight(t, c) + Counted(t, (s \ {y}) \ {c})
  <2>1. s \ {y} \in SUBSET s /\ c \in s \ {y} /\ s \ {y} # s
    BY <1>2, <1>3, <1>4
  <2> QED BY <1>5, <2>1
<1>8. (s \ {c}) \ {y} = (s \ {y}) \ {c}
  OBVIOUS
<1>9. s \subseteq S
  BY DEF F
<1>10. Weight(t, c) \in Nat /\ Weight(t, y) \in Nat
  BY <1>2, <1>3, <1>9
<1>11. Counted(t, (s \ {c}) \ {y}) \in Nat
  <2>1. IsFiniteSet((s \ {c}) \ {y})
    BY <1>1, FS_Subset
  <2>2. \A q \in (s \ {c}) \ {y} : Weight(t, q) \in Nat
    BY <1>9
  <2> QED BY <2>1, <2>2, CountedType
<1>12. Counted(t, s) = Weight(t, c) + (Weight(t, y) + Counted(t, (s \ {c}) \ {y}))
  BY <1>3, <1>6
<1>13. Counted(t, s \ {y}) = Weight(t, c) + Counted(t, (s \ {c}) \ {y})
  BY <1>7, <1>8
<1> QED BY <1>2, <1>10, <1>11, <1>12, <1>13

\* Trees whose nodes count for the same count for the same.
LEMMA CountedSame ==
    ASSUME NEW t, NEW u, NEW S, IsFiniteSet(S),
           \A q \in S : Weight(t, q) = Weight(u, q)
    PROVE  Counted(t, S) = Counted(u, S)
<1> DEFINE F == {s \in SUBSET S : Counted(t, s) # Counted(u, s)}
<1> SUFFICES ASSUME F # {} PROVE FALSE
  OBVIOUS
<1>1. PICK s \in F : IsFiniteSet(s) /\ \A r \in F : r \subseteq s => r = s
  <2>1. F \subseteq SUBSET S
    OBVIOUS
  <2> HIDE DEF F
  <2> QED BY <2>1, SmallestSubset
<1>2. s # {}
  BY CountedNone
<1>3. First(s) \in s
  BY <1>1, <1>2, CountedFirst
<1>4. /\ Counted(t, s) = Weight(t, First(s)) + Counted(t, s \ {First(s)})
      /\ Counted(u, s) = Weight(u, First(s)) + Counted(u, s \ {First(s)})
  BY <1>1, <1>2, CountedFirst
<1>5. Counted(t, s \ {First(s)}) = Counted(u, s \ {First(s)})
  <2>1. s \ {First(s)} \subseteq s /\ s \ {First(s)} # s
    BY <1>3
  <2>2. s \ {First(s)} \notin F
    BY <1>1, <2>1
  <2> QED BY <2>2
<1>6. Weight(t, First(s)) = Weight(u, First(s))
  BY <1>3
<1> QED BY <1>4, <1>5, <1>6

\* Nodes that do not count, count for nothing together.
LEMMA CountedZero ==
    ASSUME NEW t, NEW S, IsFiniteSet(S), \A q \in S : Weight(t, q) = 0
    PROVE  Counted(t, S) = 0
<1> DEFINE F == {s \in SUBSET S : Counted(t, s) # 0}
<1> SUFFICES ASSUME F # {} PROVE FALSE
  OBVIOUS
<1>1. PICK s \in F : IsFiniteSet(s) /\ \A r \in F : r \subseteq s => r = s
  <2>1. F \subseteq SUBSET S
    OBVIOUS
  <2> HIDE DEF F
  <2> QED BY <2>1, SmallestSubset
<1>2. s # {}
  BY CountedNone
<1>3. /\ First(s) \in s
      /\ Counted(t, s) = Weight(t, First(s)) + Counted(t, s \ {First(s)})
  BY <1>1, <1>2, CountedFirst
<1>4. Counted(t, s \ {First(s)}) = 0
  <2>1. s \ {First(s)} \subseteq s /\ s \ {First(s)} # s
    BY <1>3
  <2>2. s \ {First(s)} \notin F
    BY <1>1, <2>1
  <2> QED BY <2>2
<1>5. Weight(t, First(s)) = 0
  BY <1>3
<1>6. Counted(t, s) = 0
  BY <1>3, <1>4, <1>5
<1> QED BY <1>6

\* A part of a set and the rest of it make up what the set counts for.
LEMMA CountedSplit ==
    ASSUME NEW t, NEW S, IsFiniteSet(S), \A q \in S : Weight(t, q) \in Nat,
           NEW T \in SUBSET S
    PROVE  Counted(t, S) = Counted(t, T) + Counted(t, S \ T)
<1> DEFINE F == {s \in SUBSET S : Counted(t, S) # Counted(t, s) + Counted(t, S \ s)}
<1> SUFFICES ASSUME F # {} PROVE FALSE
  OBVIOUS
<1>1. PICK s \in F : IsFiniteSet(s) /\ \A r \in F : r \subseteq s => r = s
  <2>1. F \subseteq SUBSET S
    OBVIOUS
  <2> HIDE DEF F
  <2> QED BY <2>1, SmallestSubset
<1>2. s \subseteq S /\ Counted(t, S) # Counted(t, s) + Counted(t, S \ s)
  OBVIOUS
<1>3. \A r \in SUBSET S : Counted(t, r) \in Nat
  <2> TAKE r \in SUBSET S
  <2>1. IsFiniteSet(r)
    BY FS_Subset
  <2> QED BY <2>1, CountedType
<1>4. PICK x : x \in s
  <2> SUFFICES ASSUME s = {} PROVE FALSE
    OBVIOUS
  <2>1. Counted(t, s) = 0
    BY CountedNone
  <2>2. S \ s = S
    OBVIOUS
  <2>3. Counted(t, S) \in Nat
    BY <1>3
  <2> QED BY <1>2, <2>1, <2>2, <2>3
<1> DEFINE r == s \ {x}
<1>5. r \subseteq s /\ r # s /\ r \in SUBSET S
  BY <1>2, <1>4
<1>6. Counted(t, S) = Counted(t, r) + Counted(t, S \ r)
  BY <1>1, <1>5
<1>7. Counted(t, s) = Weight(t, x) + Counted(t, r)
  BY <1>1, <1>2, <1>4, CountedAny
<1>8. Counted(t, S \ r) = Weight(t, x) + Counted(t, S \ s)
  <2>1. x \in S \ r /\ (S \ r) \ {x} = S \ s
    BY <1>2, <1>4
  <2>2. IsFiniteSet(S \ r)
    BY FS_Subset
  <2>3. \A q \in S \ r : Weight(t, q) \in Nat
    OBVIOUS
  <2> HIDE DEF r
  <2> QED BY <2>1, <2>2, <2>3, CountedAny
<1>9. /\ Counted(t, s) \in Nat /\ Counted(t, r) \in Nat
      /\ Counted(t, S \ s) \in Nat /\ Weight(t, x) \in Nat
  BY <1>2, <1>3, <1>4, <1>5
<1> HIDE DEF r, F
<1> QED BY <1>2, <1>6, <1>7, <1>8, <1>9

-----------------------------------------------------------------------------
\* A path is a sequence of names that is not too long.
LEMMA PathIsSeq ==
    ASSUME NEW p
    PROVE  p \in Paths <=> p \in Seq(Names) /\ Len(p) <= MaxDepth
<1>1. ASSUME p \in Paths PROVE p \in Seq(Names) /\ Len(p) <= MaxDepth
  <2>1. PICK n \in 0..MaxDepth : p \in [1..n -> Names]
    BY <1>1 DEF Paths
  <2>2. n \in Nat /\ n <= MaxDepth
    BY LimitAssumption
  <2>3. p \in Seq(Names) /\ Len(p) = n
    BY <2>1, <2>2
  <2> QED BY <2>2, <2>3
<1>2. ASSUME p \in Seq(Names), Len(p) <= MaxDepth PROVE p \in Paths
  <2>1. Len(p) \in 0..MaxDepth /\ p \in [1..Len(p) -> Names]
    BY <1>2, LimitAssumption
  <2>2. [1..Len(p) -> Names] \in {[1..n -> Names] : n \in 0..MaxDepth}
    BY <2>1
  <2> QED BY <2>1, <2>2 DEF Paths
<1> QED BY <1>1, <1>2

\* A path begins with shorter paths, each of which begins with the ones before.
LEMMA PrefixIsPath ==
    ASSUME NEW p \in Paths, NEW i \in 0..Len(p)
    PROVE  /\ SubSeq(p, 1, i) \in Paths /\ Len(SubSeq(p, 1, i)) = i
           /\ \A j \in 0..i : SubSeq(SubSeq(p, 1, i), 1, j) = SubSeq(p, 1, j)
<1>1. p \in Seq(Names) /\ Len(p) <= MaxDepth /\ Len(p) \in Nat
  BY PathIsSeq
<1> DEFINE q == SubSeq(p, 1, i)
<1>2. \A k \in 1..Len(p) : p[k] \in Names
  BY <1>1
<1>3. q \in Seq(Names) /\ Len(q) = i /\ \A k \in 1..i : q[k] = p[k]
  <2>1. i \in Int /\ \A k \in 1..i : p[k] \in Names
    BY <1>1, <1>2
  <2> QED BY <1>1, <2>1, SubSeqProperties
<1>4. q \in Paths
  <2>1. Len(q) <= MaxDepth
    <3>1. MaxDepth \in Nat
      BY LimitAssumption
    <3> HIDE DEF q
    <3> QED BY <1>1, <1>3, <3>1
  <2> HIDE DEF q
  <2> QED BY <1>3, <2>1, PathIsSeq
<1>5. ASSUME NEW j \in 0..i PROVE SubSeq(q, 1, j) = SubSeq(p, 1, j)
  <2> HIDE DEF q
  <2>1. \A k \in 1..j : p[k] \in Names /\ q[k] \in Names /\ q[k] = p[k]
    BY <1>1, <1>2, <1>3
  <2>2. /\ SubSeq(q, 1, j) \in Seq(Names) /\ Len(SubSeq(q, 1, j)) = j
        /\ \A k \in 1..j : SubSeq(q, 1, j)[k] = q[k]
    BY <1>1, <2>1, SubSeqProperties
  <2>3. /\ SubSeq(p, 1, j) \in Seq(Names) /\ Len(SubSeq(p, 1, j)) = j
        /\ \A k \in 1..j : SubSeq(p, 1, j)[k] = p[k]
    BY <1>1, <2>1, SubSeqProperties
  <2> QED BY <2>1, <2>2, <2>3, SeqEqual
<1> QED BY <1>3, <1>4, <1>5

\* The path of the parent.
LEMMA FrontIsPath ==
    ASSUME NEW p \in Paths, p # Root
    PROVE  /\ Len(p) \in Nat \ {0} /\ Front(p) \in Paths
           /\ Len(Front(p)) = Len(p) - 1 /\ Front(p) # p
<1>1. p \in Seq(Names) /\ Len(p) \in Nat \ {0}
  BY PathIsSeq DEF Root
<1>2. Len(p) - 1 \in 0..Len(p)
  BY <1>1
<1>3. Front(p) \in Paths /\ Len(Front(p)) = Len(p) - 1
  BY <1>2, PrefixIsPath DEF Front
<1> QED BY <1>1, <1>3

\* The parent of a path met on the way down.
LEMMA FrontOfPrefix ==
    ASSUME NEW p \in Paths, NEW i \in 1..Len(p)
    PROVE  /\ SubSeq(p, 1, i) \in Paths \ {Root}
           /\ Front(SubSeq(p, 1, i)) = SubSeq(p, 1, i - 1)
<1>1. Len(p) \in Nat /\ i \in 0..Len(p) /\ i - 1 \in 0..i
  BY PathIsSeq
<1>2. SubSeq(p, 1, i) \in Paths /\ Len(SubSeq(p, 1, i)) = i
  BY <1>1, PrefixIsPath
<1>3. SubSeq(p, 1, i) # Root
  BY <1>2 DEF Root
<1>4. SubSeq(SubSeq(p, 1, i), 1, i - 1) = SubSeq(p, 1, i - 1)
  BY <1>1, PrefixIsPath
<1> QED BY <1>2, <1>3, <1>4 DEF Front

\* The whole of a path, and nothing of it.
LEMMA EndsOfPath ==
    ASSUME NEW p \in Paths
    PROVE  SubSeq(p, 1, Len(p)) = p /\ SubSeq(p, 1, 0) = Root
<1>1. p \in Seq(Names)
  BY PathIsSeq
<1> QED BY <1>1, SubSeqFull, SubSeqEmpty DEF Root

\* What lies in something below p lies below p; the root lies below nothing else.
LEMMA BelowIsClosed ==
    ASSUME NEW t, DOMAIN t \subseteq Paths, NEW p \in Paths
    PROVE  /\ \A q \in DOMAIN t : q # Root /\ Front(q) \in Below(t, p)
                => q \in Below(t, p)
           /\ p # Root => Root \notin Below(t, p)
           /\ p \in DOMAIN t => p \in Below(t, p)
<1>1. ASSUME NEW q \in DOMAIN t, q # Root, Front(q) \in Below(t, p)
      PROVE  q \in Below(t, p)
  <2>1. q \in Paths /\ Len(p) \in Nat
    BY PathIsSeq
  <2>2. Len(q) \in Nat \ {0} /\ Len(Front(q)) = Len(q) - 1
    BY <1>1, <2>1, FrontIsPath
  <2>3. Len(Front(q)) >= Len(p) /\ SubSeq(Front(q), 1, Len(p)) = p
    BY <1>1 DEF Below
  <2>4. Len(q) - 1 \in 0..Len(q) /\ Len(p) \in 0..Len(q) - 1 /\ Len(q) >= Len(p)
    BY <2>1, <2>2, <2>3
  <2>5. SubSeq(Front(q), 1, Len(p)) = SubSeq(q, 1, Len(p))
    BY <2>1, <2>4, PrefixIsPath DEF Front
  <2> QED BY <2>3, <2>4, <2>5 DEF Below
<1>2. ASSUME p # Root PROVE Root \notin Below(t, p)
  <2>1. Len(p) \in Nat \ {0}
    BY <1>2, FrontIsPath
  <2>2. Len(Root) = 0
    BY DEF Root
  <2> QED BY <2>1, <2>2 DEF Below
<1>3. ASSUME p \in DOMAIN t PROVE p \in Below(t, p)
  <2>1. Len(p) \in Nat
    BY PathIsSeq
  <2> QED BY <1>3, <2>1, EndsOfPath DEF Below
<1> QED BY <1>1, <1>2, <1>3

-----------------------------------------------------------------------------
\* What the tree is at any time: a finite tree of well formed nodes under the
\* root directory, in which only files count, and none of them is too large.
GoodNode(n) ==
    n \in Nodes /\ (n.dynamic => n.kind = "file" /\ n.size <= MaxFile)

GoodTree(t) ==
    /\ DOMAIN t \subseteq Paths /\ IsFiniteSet(DOMAIN t)
    /\ Root \in DOMAIN t /\ t[Root].kind = "dir"
    /\ \A p \in DOMAIN t : GoodNode(t[p])
    /\ \A p \in DOMAIN t : p # Root => /\ Front(p) \in DOMAIN t
                                       /\ t[Front(p)].kind = "dir"

\* The tree and the counter together.
Sound(t, u) ==
    GoodTree(t) /\ u \in Nat /\ u = Counted(t, DOMAIN t) /\ u <= MaxTotal

\* The nodes of a tree count for natural numbers.
LEMMA WeightType ==
    ASSUME NEW t, GoodTree(t)
    PROVE  \A q \in DOMAIN t : Weight(t, q) \in Nat
<1> TAKE q \in DOMAIN t
<1>1. t[q] \in Nodes
  BY DEF GoodTree, GoodNode
<1>2. t[q].size \in Nat
  BY <1>1 DEF Nodes
<1> QED BY <1>2 DEF Weight

\* A node put into a directory, in place of nothing or of a file, leaves a tree.
LEMMA WithIsGood ==
    ASSUME NEW t, GoodTree(t), NEW p \in Paths, p # Root,
           Front(p) \in DOMAIN t, t[Front(p)].kind = "dir",
           p \in DOMAIN t => t[p].kind # "dir",
           NEW node, GoodNode(node)
    PROVE  GoodTree(With(t, p, node))
<1> DEFINE w == With(t, p, node)
<1>1. /\ DOMAIN w = DOMAIN t \cup {p} /\ w[p] = node
      /\ \A q \in DOMAIN t : q # p => w[q] = t[q]
  BY DEF With
<1> HIDE DEF w
<1>2. DOMAIN w \subseteq Paths /\ IsFiniteSet(DOMAIN w)
  BY <1>1, FS_AddElement DEF GoodTree
<1>3. Root \in DOMAIN w /\ w[Root].kind = "dir"
  BY <1>1 DEF GoodTree
<1>4. \A q \in DOMAIN w : GoodNode(w[q])
  BY <1>1 DEF GoodTree
<1>5. ASSUME NEW q \in DOMAIN w, q # Root
      PROVE  Front(q) \in DOMAIN w /\ w[Front(q)].kind = "dir"
  <2>1. Front(q) \in DOMAIN t /\ t[Front(q)].kind = "dir"
    BY <1>1, <1>5 DEF GoodTree
  <2>2. Front(q) # p
    BY <2>1
  <2> QED BY <1>1, <2>1, <2>2
<1>6. GoodTree(w)
  BY <1>2, <1>3, <1>4, <1>5 DEF GoodTree
<1> QED BY <1>6 DEF w

\* What a tree counts for before and after a node is put into it.
LEMMA CountedWith ==
    ASSUME NEW t, GoodTree(t), NEW p \in Paths, NEW node, GoodNode(node)
    PROVE  /\ Counted(t, DOMAIN t \ {p}) \in Nat
           /\ Counted(With(t, p, node), DOMAIN With(t, p, node))
                = (IF node.dynamic THEN node.size ELSE 0) + Counted(t, DOMAIN t \ {p})
           /\ Counted(t, DOMAIN t)
                = (IF p \in DOMAIN t THEN Weight(t, p) ELSE 0)
                  + Counted(t, DOMAIN t \ {p})
<1> DEFINE w == With(t, p, node)
           rest == DOMAIN t \ {p}
<1>1. /\ DOMAIN w = DOMAIN t \cup {p} /\ w[p] = node
      /\ \A q \in DOMAIN t : q # p => w[q] = t[q]
  BY DEF With
<1> HIDE DEF w
<1>2. IsFiniteSet(DOMAIN t) /\ IsFiniteSet(rest) /\ IsFiniteSet(DOMAIN w)
  BY <1>1, FS_AddElement, FS_RemoveElement DEF GoodTree
<1>3. \A q \in DOMAIN t : Weight(t, q) \in Nat
  BY WeightType
<1>4. \A q \in rest : Weight(w, q) = Weight(t, q)
  BY <1>1 DEF Weight
<1>5. Weight(w, p) = IF node.dynamic THEN node.size ELSE 0
  BY <1>1 DEF Weight
<1>6. Weight(w, p) \in Nat
  <2>1. node.size \in Nat
    BY DEF GoodNode, Nodes
  <2> QED BY <1>5, <2>1
<1>7. Counted(t, rest) \in Nat
  BY <1>2, <1>3, CountedType
<1>8. Counted(w, rest) = Counted(t, rest)
  BY <1>2, <1>4, CountedSame
<1>9. Counted(w, DOMAIN w) = Weight(w, p) + Counted(w, rest)
  <2>1. p \in DOMAIN w /\ DOMAIN w \ {p} = rest
    BY <1>1
  <2>2. \A q \in DOMAIN w : Weight(w, q) \in Nat
    <3> TAKE q \in DOMAIN w
    <3>1. CASE q = p
      BY <1>6, <3>1
    <3>2. CASE q # p
      BY <1>1, <1>3, <1>4, <3>2
    <3> QED BY <3>1, <3>2
  <2> HIDE DEF rest
  <2> QED BY <1>2, <2>1, <2>2, CountedAny
<1>10. Counted(t, DOMAIN t) = (IF p \in DOMAIN t THEN Weight(t, p) ELSE 0)
                              + Counted(t, rest)
  <2>1. CASE p \in DOMAIN t
    <3>1. Counted(t, DOMAIN t) = Weight(t, p) + Counted(t, rest)
      BY <1>2, <1>3, <2>1, CountedAny
    <3> QED BY <2>1, <3>1
  <2>2. CASE p \notin DOMAIN t
    <3>1. rest = DOMAIN t
      BY <2>2
    <3> HIDE DEF rest
    <3> QED BY <1>7, <2>2, <3>1
  <2> QED BY <2>1, <2>2
<1> QED BY <1>5, <1>7, <1>8, <1>9, <1>10 DEF w

\* A node and all that lies below it taken away leave a tree, which counts for
\* what is left.
LEMMA WithoutIsGood ==
    ASSUME NEW t, GoodTree(t), NEW p \in Paths, p # Root
    PROVE  /\ GoodTree(Without(t, p))
           /\ Counted(t, Below(t, p)) \in Nat
           /\ Counted(Without(t, p), DOMAIN Without(t, p)) \in Nat
           /\ Counted(t, DOMAIN t) = Counted(t, Below(t, p))
                + Counted(Without(t, p), DOMAIN Without(t, p))
<1> DEFINE w == Without(t, p)
           B == Below(t, p)
<1>1. DOMAIN w = DOMAIN t \ B /\ \A q \in DOMAIN t \ B : w[q] = t[q]
  BY DEF Without
<1>2. B \subseteq DOMAIN t
  BY DEF Below
<1>3. DOMAIN t \subseteq Paths
  BY DEF GoodTree
<1>4. Root \notin B /\ \A q \in DOMAIN t : q # Root /\ Front(q) \in B => q \in B
  BY <1>3, BelowIsClosed
<1> HIDE DEF w, B
<1>5. DOMAIN w \subseteq Paths /\ IsFiniteSet(DOMAIN w) /\ IsFiniteSet(B)
  BY <1>1, <1>2, FS_Subset DEF GoodTree
<1>6. Root \in DOMAIN w /\ w[Root].kind = "dir"
  BY <1>1, <1>4 DEF GoodTree
<1>7. \A q \in DOMAIN w : GoodNode(w[q])
  BY <1>1 DEF GoodTree
<1>8. ASSUME NEW q \in DOMAIN w, q # Root
      PROVE  Front(q) \in DOMAIN w /\ w[Front(q)].kind = "dir"
  <2>1. q \in DOMAIN t /\ q \notin B
    BY <1>1
  <2>2. Front(q) \in DOMAIN t /\ t[Front(q)].kind = "dir"
    BY <1>8, <2>1 DEF GoodTree
  <2>3. Front(q) \notin B
    BY <1>4, <1>8, <2>1
  <2> QED BY <1>1, <2>2, <2>3
<1>9. GoodTree(w)
  BY <1>5, <1>6, <1>7, <1>8 DEF GoodTree
<1>10. \A q \in DOMAIN t : Weight(t, q) \in Nat
  BY WeightType
<1>11. Counted(t, B) \in Nat
  BY <1>2, <1>5, <1>10, CountedType
<1>12. Counted(w, DOMAIN w) = Counted(t, DOMAIN w)
  <2>1. \A q \in DOMAIN w : Weight(w, q) = Weight(t, q)
    BY <1>1 DEF Weight
  <2> QED BY <1>5, <2>1, CountedSame
<1>13. Counted(w, DOMAIN w) \in Nat
  BY <1>5, <1>9, WeightType, CountedType
<1>14. Counted(t, DOMAIN t) = Counted(t, B) + Counted(t, DOMAIN w)
  <2>1. IsFiniteSet(DOMAIN t)
    BY DEF GoodTree
  <2> QED BY <1>1, <1>2, <1>10, <2>1, CountedSplit
<1> QED BY <1>9, <1>11, <1>12, <1>13, <1>14 DEF w, B

-----------------------------------------------------------------------------
\* What every method does: the tree and the counter stay sound, and an error
\* leaves them as they were.
Keeps(o) ==
    /\ Sound(o.tree, o.used)
    /\ o.err # "ok" => o.tree = tree /\ o.used = used

\* An early return, or an error raised before anything is written.
LEMMA FailKeeps ==
    ASSUME Sound(tree, used), NEW e
    PROVE  Keeps(Fail(e))
BY DEF Keeps, Fail, Outcome

\* A method gets past the look-up of the parent only if it is a directory.
LEMMA ParentIsDir ==
    ASSUME NEW p, ResolveParent(p) = "ok"
    PROVE  Front(p) \in DOMAIN tree /\ tree[Front(p)].kind = "dir"
<1>1. Resolve(Front(p)) = "ok" /\ IsDir(Front(p))
  BY DEF ResolveParent
<1> QED BY <1>1 DEF IsDir

\* A fresh node that does not count: an empty file, or a directory.
LEMMA FreshKeeps ==
    ASSUME Sound(tree, used), NEW p \in Paths, p # Root, p \notin DOMAIN tree,
           ResolveParent(p) = "ok", NEW node \in {File(0, FALSE), Dir}
    PROVE  Keeps(Outcome("ok", With(tree, p, node), used))
<1>1. GoodNode(node) /\ node.dynamic = FALSE
  <2>1. node = File(0, FALSE) \/ node = Dir
    OBVIOUS
  <2>2. node.dynamic = FALSE
    BY <2>1 DEF File, Dir
  <2>3. File(0, FALSE) \in Nodes /\ Dir \in Nodes
    BY DEF Nodes, File, Dir
  <2> QED BY <2>1, <2>2, <2>3 DEF GoodNode
<1>2. GoodTree(tree) /\ used \in Nat /\ used = Counted(tree, DOMAIN tree)
      /\ used <= MaxTotal
  BY DEF Sound
<1>3. GoodTree(With(tree, p, node))
  BY <1>1, <1>2, ParentIsDir, WithIsGood
<1>4. Counted(With(tree, p, node), DOMAIN With(tree, p, node)) = used
  BY <1>1, <1>2, CountedWith
<1> QED BY <1>2, <1>3, <1>4 DEF Keeps, Outcome, Sound

\* touch
LEMMA TouchKeeps ==
    ASSUME Sound(tree, used), NEW p \in Paths
    PROVE  Keeps(Touch(p))
<1>1. CASE p = Root \/ ResolveParent(p) # "ok" \/ p \in DOMAIN tree
  <2>1. \E e : Touch(p) = Fail(e)
    BY <1>1 DEF Touch
  <2> QED BY <2>1, FailKeeps
<1>2. CASE p # Root /\ ResolveParent(p) = "ok" /\ p \notin DOMAIN tree
  <2>1. Touch(p) = Outcome("ok", With(tree, p, File(0, FALSE)), used)
    BY <1>2 DEF Touch
  <2> QED BY <1>2, <2>1, FreshKeeps
<1> QED BY <1>1, <1>2

\* A file put in place of nothing, of a static or of a dynamic file: the counter
\* moves by what the content differs, and by all of it if the file was static.
LEMMA StoreKeeps ==
    ASSUME Sound(tree, used), NEW p \in Paths, p # Root, ResolveParent(p) = "ok",
           NEW size \in Nat, NEW old,
           old = IF p \in DOMAIN tree THEN tree[p] ELSE File(0, FALSE),
           old.kind = "file"
    PROVE  LET acc == AccountWrite(old, size)
           IN  Keeps(Outcome(acc.err, IF acc.err = "ok"
                                      THEN With(tree, p, File(size, TRUE)) ELSE tree,
                             acc.used))
<1> DEFINE acc == AccountWrite(old, size)
           before == IF old.dynamic THEN old.size ELSE 0
           rest == Counted(tree, DOMAIN tree \ {p})
           new == With(tree, p, File(size, TRUE))
<1>1. MaxFile \in Nat /\ MaxTotal \in Nat
  BY LimitAssumption
<1>2. GoodTree(tree) /\ used \in Nat /\ used = Counted(tree, DOMAIN tree)
      /\ used <= MaxTotal
  BY DEF Sound
<1>3. before \in Nat
  <2>1. old \in Nodes
    BY <1>2 DEF GoodTree, GoodNode, Nodes, File
  <2>2. old.size \in Nat
    BY <2>1 DEF Nodes
  <2> QED BY <2>2
<1>4. rest \in Nat /\ used = before + rest
  <2>1. File(0, FALSE).dynamic = FALSE /\ GoodNode(File(0, FALSE))
    BY DEF File, GoodNode, Nodes
  <2>2. before = IF p \in DOMAIN tree THEN Weight(tree, p) ELSE 0
    BY <2>1 DEF Weight
  <2>3. /\ rest \in Nat
        /\ used = (IF p \in DOMAIN tree THEN Weight(tree, p) ELSE 0) + rest
    BY <1>2, <2>1, CountedWith
  <2> QED BY <2>2, <2>3
<1> HIDE DEF before, rest, acc, new
<1>5. CASE size <= MaxFile /\ (used + size) - before <= MaxTotal
  <2>1. acc.err = "ok" /\ acc.used = (used + size) - before
    <3>1. ~(size > MaxFile) /\ ~((used + size) - before > MaxTotal)
      BY <1>1, <1>2, <1>3, <1>5
    <3> QED BY <3>1 DEF AccountWrite, acc, before
  <2>2. acc.used = size + rest
    BY <1>2, <1>3, <1>4, <2>1
  <2>3. GoodNode(File(size, TRUE)) /\ File(size, TRUE).dynamic
        /\ File(size, TRUE).size = size
    BY <1>5 DEF GoodNode, Nodes, File
  <2>4. p \in DOMAIN tree => tree[p].kind # "dir"
    OBVIOUS
  <2>5. GoodTree(new)
    BY <1>2, <2>3, <2>4, ParentIsDir, WithIsGood DEF new
  <2>6. Counted(new, DOMAIN new) = size + rest
    <3>1. Counted(new, DOMAIN new)
            = (IF File(size, TRUE).dynamic THEN File(size, TRUE).size ELSE 0) + rest
      BY <1>2, <2>3, CountedWith DEF new, rest
    <3> QED BY <2>3, <3>1
  <2>7. Sound(new, acc.used)
    BY <1>4, <1>5, <2>1, <2>2, <2>5, <2>6 DEF Sound
  <2>8. Keeps(Outcome(acc.err, new, acc.used))
    BY <2>1, <2>7 DEF Keeps, Outcome
  <2> QED BY <2>1, <2>8 DEF acc, new
<1>6. CASE ~(size <= MaxFile /\ (used + size) - before <= MaxTotal)
  <2>1. acc.err # "ok" /\ acc.used = used
    <3>1. size > MaxFile \/ (size <= MaxFile /\ (used + size) - before > MaxTotal)
      BY <1>1, <1>2, <1>3, <1>6
    <3> QED BY <3>1 DEF AccountWrite, acc, before
  <2>2. Keeps(Outcome(acc.err, tree, acc.used))
    BY <2>1 DEF Keeps, Outcome
  <2> QED BY <2>1, <2>2 DEF acc
<1> QED BY <1>5, <1>6

\* write_file
LEMMA WriteFileKeeps ==
    ASSUME Sound(tree, used), NEW p \in Paths, NEW n \in Nat, NEW append \in BOOLEAN
    PROVE  Keeps(WriteFile(p, n, append))
<1> DEFINE old == IF p \in DOMAIN tree THEN tree[p] ELSE File(0, FALSE)
           size == IF append THEN old.size + n ELSE n
           acc == AccountWrite(old, size)
           o == Outcome(acc.err, IF acc.err = "ok"
                                 THEN With(tree, p, File(size, TRUE)) ELSE tree,
                        acc.used)
<1>1. CASE p \in {DevNull, Root} \/ ResolveParent(p) # "ok" \/ old.kind # "file"
  <2>1. old.kind \in {"dir", "file", "dev"}
    <3>1. old \in Nodes
      BY DEF Sound, GoodTree, GoodNode, Nodes, File
    <3> QED BY <3>1 DEF Nodes
  <2>2. \E e : WriteFile(p, n, append) = Fail(e)
    <3> HIDE DEF old
    <3>1. CASE p \in {DevNull, Root} \/ ResolveParent(p) # "ok"
      <4>1. DevNull # Root
        BY LimitAssumption
      <4>2. CASE p = DevNull
        <5>1. WriteFile(p, n, append) = Fail("ok")
          BY <4>1, <4>2 DEF WriteFile
        <5> QED BY <5>1
      <4>3. CASE p = Root
        <5>1. WriteFile(p, n, append) = Fail("isdir")
          BY <4>1, <4>3 DEF WriteFile
        <5> QED BY <5>1
      <4>4. CASE p \notin {DevNull, Root}
        <5>1. WriteFile(p, n, append) = Fail(ResolveParent(p))
          BY <3>1, <4>4 DEF WriteFile
        <5> QED BY <5>1
      <4> QED BY <4>2, <4>3, <4>4
    <3>2. CASE p \notin {DevNull, Root} /\ ResolveParent(p) = "ok" /\ old.kind = "dir"
      <4>1. WriteFile(p, n, append) = Fail("isdir")
        BY <3>2 DEF WriteFile, old
      <4> QED BY <4>1
    <3>3. CASE p \notin {DevNull, Root} /\ ResolveParent(p) = "ok" /\ old.kind = "dev"
      <4>1. WriteFile(p, n, append) = Fail("ok")
        BY <3>3 DEF WriteFile, old
      <4> QED BY <4>1
    <3> QED BY <1>1, <2>1, <3>1, <3>2, <3>3
  <2> QED BY <2>2, FailKeeps
<1>2. CASE p \notin {DevNull, Root} /\ ResolveParent(p) = "ok" /\ old.kind = "file"
  <2>1. WriteFile(p, n, append) = o
    BY <1>2 DEF WriteFile
  <2>2. old \in Nodes
    BY DEF Sound, GoodTree, GoodNode, Nodes, File
  <2>3. size \in Nat
    <3> HIDE DEF old
    <3>1. old.size \in Nat
      BY <2>2 DEF Nodes
    <3> QED BY <3>1
  <2>4. p # Root
    BY <1>2
  <2> HIDE DEF size
  <2>5. Keeps(o)
    BY <1>2, <2>3, <2>4, StoreKeeps
  <2> QED BY <2>1, <2>5 DEF size
<1> QED BY <1>1, <1>2

\* What goes away with a node is released in full: nothing is clamped.
LEMMA WithoutKeeps ==
    ASSUME Sound(tree, used), NEW p \in Paths, p # Root
    PROVE  Keeps(Outcome("ok", Without(tree, p), Released(p)))
<1> DEFINE gone == Counted(tree, Below(tree, p))
           left == Counted(Without(tree, p), DOMAIN Without(tree, p))
<1>1. /\ GoodTree(tree) /\ used \in Nat /\ used = Counted(tree, DOMAIN tree)
      /\ used <= MaxTotal /\ MaxTotal \in Nat
  BY LimitAssumption DEF Sound
<1>2. /\ GoodTree(Without(tree, p)) /\ gone \in Nat /\ left \in Nat
      /\ used = gone + left
  BY <1>1, WithoutIsGood
<1>3. Released(p) = IF gone <= used THEN used - gone ELSE 0
  BY DEF Released
<1> HIDE DEF gone
<1>4. Released(p) = left /\ left <= MaxTotal
  <2> HIDE DEF left
  <2> QED BY <1>1, <1>2, <1>3
<1> QED BY <1>2, <1>4 DEF Keeps, Outcome, Sound

\* remove
LEMMA RemoveNodeKeeps ==
    ASSUME Sound(tree, used), NEW p \in Paths, NEW r \in BOOLEAN, NEW f \in BOOLEAN
    PROVE  Keeps(RemoveNode(p, r, f))
<1>1. CASE p = Root \/ ResolveParent(p) # "ok" \/ p \notin DOMAIN tree
           \/ (tree[p].kind = "dir" /\ ~r)
  <2>1. \E e : RemoveNode(p, r, f) = Fail(e)
    BY <1>1 DEF RemoveNode
  <2> QED BY <2>1, FailKeeps
<1>2. CASE /\ p # Root /\ ResolveParent(p) = "ok" /\ p \in DOMAIN tree
           /\ ~(tree[p].kind = "dir" /\ ~r)
  <2>1. RemoveNode(p, r, f) = Outcome("ok", Without(tree, p), Released(p))
    BY <1>2 DEF RemoveNode
  <2> QED BY <1>2, <2>1, WithoutKeeps
<1> QED BY <1>1, <1>2

\* rmdir
LEMMA RmdirKeeps ==
    ASSUME Sound(tree, used), NEW p \in Paths
    PROVE  Keeps(Rmdir(p))
<1>1. CASE p = Root \/ ResolveParent(p) # "ok" \/ p \notin DOMAIN tree
  <2>1. \E e : Rmdir(p) = Fail(e)
    BY <1>1 DEF Rmdir
  <2> QED BY <2>1, FailKeeps
<1>2. CASE /\ p # Root /\ ResolveParent(p) = "ok" /\ p \in DOMAIN tree
           /\ (tree[p].kind # "dir" \/ Below(tree, p) # {p})
  <2>1. \E e : Rmdir(p) = Fail(e)
    BY <1>2 DEF Rmdir
  <2> QED BY <2>1, FailKeeps
<1>3. CASE /\ p # Root /\ ResolveParent(p) = "ok" /\ p \in DOMAIN tree
           /\ tree[p].kind = "dir" /\ Below(tree, p) = {p}
  <2>1. Rmdir(p) = Outcome("ok", Without(tree, p), Released(p))
    BY <1>3 DEF Rmdir
  <2> QED BY <1>3, <2>1, WithoutKeeps
<1> QED BY <1>1, <1>2, <1>3

-----------------------------------------------------------------------------
\* One round of the loop of mkdir -p, and the function Walk computes with.
WalkRound(w, q) ==
    CASE w.err # "ok" -> w
      [] w.err = "ok" /\ w.tree[Front(q)].kind # "dir" -> [w EXCEPT !.err = "notdir"]
      [] OTHER -> IF q \in DOMAIN w.tree THEN w
                  ELSE [w EXCEPT !.tree = With(@, q, Dir)]

IsWalk(f, p, m) ==
    f = [i \in 0..m |-> IF i = 0 THEN Fail("ok")
                        ELSE WalkRound(f[i - 1], SubSeq(p, 1, i))]

\* The recursion of Walk, written out.
LEMMA WalkIs ==
    ASSUME NEW p
    PROVE  Walk(p) = LET end == (CHOOSE f : IsWalk(f, p, Len(p)))[Len(p)]
                     IN  IF end.err = "ok" /\ end.tree[p].kind # "dir"
                         THEN [end EXCEPT !.err = "exists"] ELSE end
BY Zenon DEF Walk, IsWalk, WalkRound

\* The loop has an outcome for every length of the path.
LEMMA WalkExists ==
    ASSUME NEW p, NEW m \in Nat
    PROVE  \E f : IsWalk(f, p, m)
<1> DEFINE Bad == {n \in Nat : ~ \E f : IsWalk(f, p, n)}
<1> SUFFICES ASSUME Bad # {} PROVE FALSE
  OBVIOUS
<1>1. PICK n \in Bad : \A k \in Bad : n <= k
  <2>1. Bad \subseteq Nat
    OBVIOUS
  <2> HIDE DEF Bad
  <2> QED BY <2>1, Lru!LeastNumber
<1>2. n \in Nat /\ \A f : ~IsWalk(f, p, n)
  OBVIOUS
<1>3. CASE n = 0
  <2> DEFINE g == [i \in 0..0 |-> Fail("ok")]
  <2>1. g = [i \in 0..n |-> IF i = 0 THEN Fail("ok")
                            ELSE WalkRound(g[i - 1], SubSeq(p, 1, i))]
    BY <1>3
  <2> HIDE DEF g
  <2> QED BY <2>1, <1>2 DEF IsWalk
<1>4. CASE n # 0
  <2>1. n - 1 \in Nat /\ n - 1 \notin Bad
    BY <1>1, <1>2, <1>4
  <2>2. PICK f : IsWalk(f, p, n - 1)
    BY <2>1
  <2> DEFINE last == WalkRound(f[n - 1], SubSeq(p, 1, n))
             g == [i \in 0..n |-> IF i = n THEN last ELSE f[i]]
  <2>3. (\A i \in 0..n - 1 : g[i] = f[i]) /\ g[n] = last
    BY <1>2, <1>4
  <2>4. g = [i \in 0..n |-> g[i]]
    OBVIOUS
  <2> HIDE DEF g
  <2>5. \A i \in 0..n : g[i] = IF i = 0 THEN Fail("ok")
                               ELSE WalkRound(g[i - 1], SubSeq(p, 1, i))
    <3> TAKE i \in 0..n
    <3>1. CASE i = n
      <4>1. n - 1 \in 0..n - 1
        BY <1>2, <1>4
      <4> QED BY <3>1, <2>3, <4>1, <1>2, <1>4
    <3>2. CASE i # n /\ i # 0
      <4>1. i \in 0..n - 1 /\ i - 1 \in 0..n - 1
        BY <3>2, <1>2
      <4>2. f[i] = WalkRound(f[i - 1], SubSeq(p, 1, i))
        BY <2>2, <3>2, <4>1 DEF IsWalk
      <4> QED BY <2>3, <3>2, <4>1, <4>2
    <3>3. CASE i # n /\ i = 0
      <4>1. 0 \in 0..n - 1
        BY <3>3, <1>2
      <4>2. f[0] = Fail("ok")
        BY <2>2, <4>1 DEF IsWalk
      <4> QED BY <2>3, <3>3, <4>1, <4>2
    <3> QED BY <3>1, <3>2, <3>3
  <2>6. IsWalk(g, p, n)
    BY <2>4, <2>5 DEF IsWalk
  <2> QED BY <2>6, <1>2
<1> QED BY <1>3, <1>4

\* What the loop has done when it is at q, with the outcome w so far.  Once it
\* has made a directory it meets nothing but directories it makes, so an error
\* comes before the first one or not at all.
Walked(w, q) ==
    /\ w = Outcome(w.err, w.tree, used)
    /\ w.err # "ok" => w.tree = tree
    /\ w.err = "ok" =>
         /\ Sound(w.tree, used) /\ q \in DOMAIN w.tree
         /\ w.tree # tree => /\ w.tree[q].kind = "dir"
                             /\ \A r \in DOMAIN w.tree : r # Root => Front(r) # q

\* Nothing is made before the first round.
LEMMA WalkedFirst ==
    ASSUME Sound(tree, used)
    PROVE  Walked(Fail("ok"), Root)
BY DEF Walked, Fail, Outcome, Sound, GoodTree

\* A round of the loop.
LEMMA WalkedRound ==
    ASSUME Sound(tree, used), NEW q \in Paths, q # Root, NEW w, Walked(w, Front(q))
    PROVE  Walked(WalkRound(w, q), q)
<1> DEFINE t == w.tree
<1>1. w = Outcome(w.err, t, used)
  BY DEF Walked
<1>2. CASE w.err # "ok"
  <2>1. WalkRound(w, q) = w
    BY <1>2 DEF WalkRound
  <2> QED BY <1>2, <2>1 DEF Walked
<1>3. CASE w.err = "ok" /\ t[Front(q)].kind # "dir"
  <2>1. WalkRound(w, q) = [w EXCEPT !.err = "notdir"]
    BY <1>3 DEF WalkRound
  <2>2. [w EXCEPT !.err = "notdir"] = Outcome("notdir", t, used)
    BY <1>1 DEF Outcome
  <2>3. t = tree
    BY <1>3 DEF Walked
  <2> HIDE DEF t
  <2>4. Walked(Outcome("notdir", t, used), q)
    BY <2>3 DEF Walked, Outcome
  <2> QED BY <2>1, <2>2, <2>4
<1>4. CASE w.err = "ok" /\ t[Front(q)].kind = "dir" /\ q \in DOMAIN t
  <2>1. WalkRound(w, q) = w
    BY <1>4 DEF WalkRound
  <2>2. t = tree
    BY <1>4 DEF Walked
  <2> QED BY <1>1, <1>4, <2>1, <2>2 DEF Walked
<1>5. CASE w.err = "ok" /\ t[Front(q)].kind = "dir" /\ q \notin DOMAIN t
  <2> DEFINE new == With(t, q, Dir)
  <2>1. WalkRound(w, q) = [w EXCEPT !.tree = new]
    BY <1>5 DEF WalkRound
  <2>2. [w EXCEPT !.tree = new] = Outcome("ok", new, used)
    <3> HIDE DEF new
    <3> QED BY <1>1, <1>5 DEF Outcome
  <2>3. Sound(t, used) /\ Front(q) \in DOMAIN t
    BY <1>5 DEF Walked
  <2>4. GoodNode(Dir) /\ Dir.dynamic = FALSE /\ Dir.kind = "dir"
    BY DEF GoodNode, Dir, Nodes
  <2> HIDE DEF t
  <2>5. GoodTree(new)
    BY <1>5, <2>3, <2>4, WithIsGood DEF Sound
  <2>6. Counted(new, DOMAIN new) = Counted(t, DOMAIN t)
    <3>1. GoodTree(t)
      BY <2>3 DEF Sound
    <3>2. /\ Counted(t, DOMAIN t \ {q}) \in Nat
          /\ Counted(new, DOMAIN new) = 0 + Counted(t, DOMAIN t \ {q})
          /\ Counted(t, DOMAIN t) = 0 + Counted(t, DOMAIN t \ {q})
      BY <1>5, <2>4, <3>1, CountedWith
    <3> QED BY <3>2
  <2>7. Sound(new, used)
    BY <2>3, <2>5, <2>6 DEF Sound
  <2>8. DOMAIN new = DOMAIN t \cup {q} /\ new[q] = Dir
    BY DEF With
  <2>9. \A r \in DOMAIN new : r # Root => Front(r) # q
    <3>1. Front(q) # q
      BY FrontIsPath
    <3>2. \A r \in DOMAIN t : r # Root => Front(r) \in DOMAIN t
      BY <2>3 DEF Sound, GoodTree
    <3> HIDE DEF new
    <3> QED BY <1>5, <2>8, <3>1, <3>2
  <2> HIDE DEF new
  <2>10. Walked(Outcome("ok", new, used), q)
    BY <2>4, <2>7, <2>8, <2>9 DEF Walked, Outcome
  <2> QED BY <2>1, <2>2, <2>10
<1> QED BY <1>2, <1>3, <1>4, <1>5

\* The loop of mkdir -p, for paths of any length.
LEMMA WalkKeeps ==
    ASSUME Sound(tree, used), NEW p \in Paths
    PROVE  Keeps(Walk(p))
<1> DEFINE m == Len(p)
           f == CHOOSE g : IsWalk(g, p, m)
<1>1. m \in Nat
  BY PathIsSeq
<1>2. IsWalk(f, p, m)
  BY <1>1, WalkExists
<1> HIDE DEF f
<1> DEFINE Bad == {i \in 0..m : ~Walked(f[i], SubSeq(p, 1, i))}
<1>3. Bad = {}
  <2> SUFFICES ASSUME Bad # {} PROVE FALSE
    OBVIOUS
  <2>1. PICK i \in Bad : \A k \in Bad : i <= k
    <3>1. Bad \subseteq Nat
      BY <1>1
    <3> HIDE DEF Bad
    <3> QED BY <3>1, Lru!LeastNumber
  <2>2. i \in 0..m /\ ~Walked(f[i], SubSeq(p, 1, i))
    OBVIOUS
  <2>3. CASE i = 0
    <3>1. f[0] = Fail("ok")
      BY <1>2, <2>2, <2>3 DEF IsWalk
    <3> QED BY <2>2, <2>3, <3>1, EndsOfPath, WalkedFirst
  <2>4. CASE i # 0
    <3>1. i - 1 \in 0..m /\ i \in 1..m /\ i \in Nat
      BY <1>1, <2>2, <2>4
    <3>2. Walked(f[i - 1], SubSeq(p, 1, i - 1))
      BY <2>1, <3>1
    <3>3. f[i] = WalkRound(f[i - 1], SubSeq(p, 1, i))
      BY <1>2, <2>2, <2>4 DEF IsWalk
    <3>4. SubSeq(p, 1, i) \in Paths \ {Root}
          /\ Front(SubSeq(p, 1, i)) = SubSeq(p, 1, i - 1)
      BY <3>1, FrontOfPrefix
    <3> QED BY <2>2, <3>2, <3>3, <3>4, WalkedRound
  <2> QED BY <2>3, <2>4
<1> DEFINE end == f[m]
<1>4. Walked(end, p)
  <2>1. m \in 0..m /\ SubSeq(p, 1, m) = p
    BY <1>1, EndsOfPath
  <2> QED BY <1>3, <2>1
<1>5. Walk(p) = IF end.err = "ok" /\ end.tree[p].kind # "dir"
                THEN [end EXCEPT !.err = "exists"] ELSE end
  BY WalkIs DEF f
<1> HIDE DEF end, Bad, m
<1>6. CASE end.err = "ok" /\ end.tree[p].kind # "dir"
  <2>1. end.tree = tree
    BY <1>4, <1>6 DEF Walked
  <2>2. [end EXCEPT !.err = "exists"] = Outcome("exists", tree, used)
    BY <1>4, <2>1 DEF Walked, Outcome
  <2>3. Walk(p) = Fail("exists")
    BY <1>5, <1>6, <2>2 DEF Fail
  <2> QED BY <2>3, FailKeeps
<1>7. CASE ~(end.err = "ok" /\ end.tree[p].kind # "dir")
  <2>1. Walk(p) = end
    BY <1>5, <1>7
  <2>2. end.used = used
    BY <1>4 DEF Walked, Outcome
  <2>3. Sound(end.tree, used)
    BY <1>4 DEF Walked
  <2>4. end.err # "ok" => end.tree = tree
    BY <1>4 DEF Walked
  <2> QED BY <2>1, <2>2, <2>3, <2>4 DEF Keeps
<1> QED BY <1>6, <1>7

\* mkdir
LEMMA MkdirKeeps ==
    ASSUME Sound(tree, used), NEW p \in Paths, NEW parents \in BOOLEAN
    PROVE  Keeps(Mkdir(p, parents))
<1>1. CASE p = Root
  <2>1. \E e : Mkdir(p, parents) = Fail(e)
    BY <1>1 DEF Mkdir
  <2> QED BY <2>1, FailKeeps
<1>2. CASE p # Root /\ parents
  <2>1. Mkdir(p, parents) = Walk(p)
    BY <1>2 DEF Mkdir
  <2> QED BY <2>1, WalkKeeps
<1>3. CASE p # Root /\ ~parents /\ (ResolveParent(p) # "ok" \/ p \in DOMAIN tree)
  <2>1. \E e : Mkdir(p, parents) = Fail(e)
    BY <1>3 DEF Mkdir
  <2> QED BY <2>1, FailKeeps
<1>4. CASE p # Root /\ ~parents /\ ResolveParent(p) = "ok" /\ p \notin DOMAIN tree
  <2>1. Mkdir(p, parents) = Outcome("ok", With(tree, p, Dir), used)
    BY <1>4 DEF Mkdir
  <2> QED BY <1>4, <2>1, FreshKeeps
<1> QED BY <1>1, <1>2, <1>3, <1>4

-----------------------------------------------------------------------------
\* An endless redirect that has yielded.
Jobs == [path : Paths, append : BOOLEAN, chunk : Nat, left : 1..MaxTotal + 2]

\* The inductive invariant.
IInv == Sound(tree, used) /\ stream \in [Shells -> Jobs \cup {NoStream}]

\* build_honeypot_tree is a tree, and nothing in it counts.
LEMMA InitInv == Init => IInv
<1> SUFFICES ASSUME Init PROVE IInv
  OBVIOUS
<1>1. /\ IsFiniteSet(DOMAIN Base) /\ Root \in DOMAIN Base /\ Base[Root].kind = "dir"
      /\ DOMAIN Base \subseteq Paths
  BY BaseAssumption
<1>2. \A p \in DOMAIN Base : Base[p] \in Nodes /\ ~Base[p].dynamic
  BY BaseAssumption
<1>3. \A p \in DOMAIN Base : p # Root => Front(p) \in DOMAIN Base
                                         /\ Base[Front(p)].kind = "dir"
  BY BaseAssumption
<1>4. GoodTree(Base)
  BY <1>1, <1>2, <1>3 DEF GoodTree, GoodNode
<1>5. Counted(Base, DOMAIN Base) = 0
  <2>1. \A p \in DOMAIN Base : Weight(Base, p) = 0
    BY <1>2 DEF Weight
  <2> QED BY <1>1, <2>1, CountedZero
<1>6. 0 <= MaxTotal
  BY LimitAssumption
<1>7. Sound(tree, used)
  BY <1>4, <1>5, <1>6 DEF Init, Sound
<1> QED BY <1>7 DEF Init, IInv

\* The rounds a redirect is allowed: as many as fill the quota, and two.
LEMMA RoundsType ==
    ASSUME NEW n \in Nat, NEW c \in Nat \ {0}
    PROVE  n \div c + 2 \in 1..n + 2
<1> DEFINE d == n \div c
           r == n % c
<1>1. d \in Int /\ r \in 0..c - 1 /\ n = c * d + r
  OBVIOUS
<1> HIDE DEF d, r
<1>2. d >= 0
  <2> SUFFICES ASSUME d <= -1 PROVE FALSE
    BY <1>1
  <2>1. c * d <= -c
    BY <1>1
  <2> QED BY <1>1, <2>1
<1>3. d <= n
  <2>1. c * d >= d
    BY <1>1, <1>2
  <2> QED BY <1>1, <2>1
<1> QED BY <1>1, <1>2, <1>3 DEF d

\* A round of the loop of a redirect: what one write does, and a job that has
\* fewer rounds left, or none.
LEMMA ChunkInv ==
    ASSUME IInv, NEW s \in Shells, NEW job \in Jobs, Chunk(s, job)
    PROVE  /\ IInv'
           /\ stream'[s] = NoStream \/ stream'[s].left = job.left - 1
           /\ \A r \in Shells : r # s => stream'[r] = stream[r]
<1> DEFINE o == WriteFile(job.path, job.chunk, job.append)
           next == IF o.err = "ok" /\ job.left > 1
                   THEN [job EXCEPT !.append = TRUE, !.left = @ - 1] ELSE NoStream
<1>1. /\ job.path \in Paths /\ job.chunk \in Nat /\ job.append \in BOOLEAN
      /\ job.left \in 1..MaxTotal + 2
  BY DEF Jobs
<1>2. Keeps(o)
  BY <1>1, WriteFileKeeps DEF IInv
<1>3. tree' = o.tree /\ used' = o.used /\ stream' = [stream EXCEPT ![s] = next]
  BY DEF Chunk
<1> HIDE DEF o
<1>4. Sound(tree', used')
  BY <1>2, <1>3 DEF Keeps
<1>5. next \in Jobs \cup {NoStream} /\ (next = NoStream \/ next.left = job.left - 1)
  <2>1. CASE o.err = "ok" /\ job.left > 1
    <3>1. next = [job EXCEPT !.append = TRUE, !.left = job.left - 1]
      BY <2>1
    <3>2. job.left - 1 \in 1..MaxTotal + 2 /\ MaxTotal \in Nat
      BY <1>1, <2>1, LimitAssumption
    <3> HIDE DEF next
    <3> QED BY <3>1, <3>2 DEF Jobs
  <2>2. CASE ~(o.err = "ok" /\ job.left > 1)
    BY <2>2
  <2> QED BY <2>1, <2>2
<1> HIDE DEF next
<1>6. /\ stream' \in [Shells -> Jobs \cup {NoStream}] /\ stream'[s] = next
      /\ \A r \in Shells : r # s => stream'[r] = stream[r]
  BY <1>3, <1>5 DEF IInv
<1>7. IInv'
  BY <1>4, <1>6 DEF IInv, Sound, Jobs, NoStream
<1> QED BY <1>5, <1>6, <1>7

\* A command of a shell is one method, whole.
LEMMA DoInv ==
    ASSUME IInv, NEW o, Keeps(o), Do(o)
    PROVE  IInv' /\ stream' = stream
<1>1. tree' = o.tree /\ used' = o.used /\ stream' = stream
  BY DEF Do
<1>2. Sound(tree', used')
  BY <1>1 DEF Keeps
<1> QED BY <1>1, <1>2 DEF IInv, Sound, Jobs, NoStream

\* What a step does: a command of a shell, or a round of one redirect.
LEMMA StepIs ==
    ASSUME IInv, Next
    PROVE  \/ \E o : Keeps(o) /\ Do(o)
           \/ \E s \in Shells, job \in Jobs :
                 Chunk(s, job) /\ (stream[s] = NoStream \/ stream[s] = job)
<1> USE DEF IInv
<1>1. Sizes \subseteq Nat
  BY LimitAssumption
<1>2. CASE DoWrite
  <2>1. PICK p \in Paths, n \in Sizes, append \in BOOLEAN : Do(WriteFile(p, n, append))
    BY <1>2 DEF DoWrite
  <2>2. Keeps(WriteFile(p, n, append))
    BY <1>1, WriteFileKeeps
  <2> QED BY <2>1, <2>2
<1>3. CASE DoDownload
  <2>1. PICK p \in Paths, n \in Sizes \ {0} : Do(WriteFile(p, n, FALSE))
    BY <1>3 DEF DoDownload
  <2>2. Keeps(WriteFile(p, n, FALSE))
    BY <1>1, WriteFileKeeps
  <2> QED BY <2>1, <2>2
<1>4. CASE DoTouch
  BY <1>4, TouchKeeps DEF DoTouch
<1>5. CASE DoMkdir
  <2>1. PICK p \in Paths, parents \in BOOLEAN : Do(Mkdir(p, parents))
    BY <1>5 DEF DoMkdir
  <2>2. Keeps(Mkdir(p, parents))
    BY MkdirKeeps
  <2> QED BY <2>1, <2>2
<1>6. CASE DoRemove
  <2>1. PICK p \in Paths, r \in BOOLEAN, f \in BOOLEAN : Do(RemoveNode(p, r, f))
    BY <1>6 DEF DoRemove
  <2>2. Keeps(RemoveNode(p, r, f))
    BY RemoveNodeKeeps
  <2> QED BY <2>1, <2>2
<1>7. CASE DoRmdir
  BY <1>7, RmdirKeeps DEF DoRmdir
<1>8. CASE \E s \in Shells : StartStream(s)
  <2>1. PICK s \in Shells : StartStream(s)
    BY <1>8
  <2> DEFINE chunk == ReadFile(DevZero)
             job(p, a) == [path |-> p, append |-> a, chunk |-> chunk,
                           left |-> IF chunk = 0 THEN 1 ELSE MaxTotal \div chunk + 2]
  <2>2. PICK p \in Paths, a \in BOOLEAN :
          /\ stream[s] = NoStream /\ DevZero \in DOMAIN tree
          /\ Chunk(s, job(p, a))
    BY <2>1 DEF StartStream
  <2>3. chunk \in Nat
    <3>1. tree[DevZero] \in Nodes
      BY <2>2 DEF Sound, GoodTree, GoodNode
    <3>2. tree[DevZero].size \in Nat /\ ReadChunk \in Nat
      BY <3>1, LimitAssumption DEF Nodes
    <3> QED BY <3>2 DEF ReadFile
  <2>4. job(p, a) \in Jobs
    <3> HIDE DEF chunk
    <3>1. MaxTotal \in Nat /\ 1 \in 1..MaxTotal + 2
      BY LimitAssumption
    <3>2. (IF chunk = 0 THEN 1 ELSE MaxTotal \div chunk + 2) \in 1..MaxTotal + 2
      BY <2>3, <3>1, RoundsType
    <3> QED BY <2>3, <3>2 DEF Jobs
  <2> HIDE DEF job
  <2> QED BY <2>2, <2>4
<1>9. CASE \E s \in Shells : StreamChunk(s)
  <2>1. PICK s \in Shells : stream[s] # NoStream /\ Chunk(s, stream[s])
    BY <1>9 DEF StreamChunk
  <2>2. stream[s] \in Jobs
    BY <2>1
  <2> QED BY <2>1, <2>2
<1> QED BY <1>2, <1>3, <1>4, <1>5, <1>6, <1>7, <1>8, <1>9 DEF Next

\* Every step keeps the invariant.
LEMMA StepInv == IInv /\ [Next]_vars => IInv'
<1> SUFFICES ASSUME IInv, [Next]_vars PROVE IInv'
  OBVIOUS
<1>1. CASE Next
  BY <1>1, StepIs, DoInv, ChunkInv
<1>2. CASE UNCHANGED vars
  BY <1>2 DEF vars, IInv, Sound, Jobs, NoStream
<1> QED BY <1>1, <1>2

\* The facts above hold at every step of every run.
LEMMA Invariance == Spec => []IInv
BY InitInv, StepInv, PTL DEF Spec

-----------------------------------------------------------------------------
\* The state stays well formed: the paths, the nodes, the counter, and the rounds
\* a redirect has left (vfs.py, _stream_infinite_redirect).
THEOREM TypeCorrect == Spec => []TypeOK
<1>1. IInv => TypeOK
  <2> SUFFICES ASSUME IInv PROVE TypeOK
    OBVIOUS
  <2>1. /\ DOMAIN tree \subseteq Paths /\ Root \in DOMAIN tree /\ used \in Nat
        /\ \A p \in DOMAIN tree : tree[p] \in Nodes
    BY DEF IInv, Sound, GoodTree, GoodNode
  <2>2. ASSUME NEW s \in Shells PROVE stream[s].left \in 0..MaxTotal + 2
    <3>1. MaxTotal \in Nat
      BY LimitAssumption
    <3>2. CASE stream[s] = NoStream
      BY <3>1, <3>2 DEF NoStream
    <3>3. CASE stream[s] \in Jobs
      BY <3>1, <3>3 DEF Jobs
    <3> QED BY <3>2, <3>3 DEF IInv
  <2> QED BY <2>1, <2>2 DEF TypeOK
<1> QED BY <1>1, Invariance, PTL

\* The quota counter (_dynamic_bytes_used) is exactly what the dynamic files hold,
\* which is within the limits, and every node lies in a directory: for a tree of
\* any size and depth, and any limits, after any sequence of write_file, touch,
\* mkdir, remove and rmdir, with any number of redirects under way.
THEOREM TreeStaysSound == Spec => []TreeIsSound
<1>1. IInv => TreeIsSound
  <2> SUFFICES ASSUME IInv PROVE TreeIsSound
    OBVIOUS
  <2>1. used = Stored /\ Stored <= MaxTotal
    BY DEF IInv, Sound, Stored
  <2>2. \A p \in DOMAIN tree : /\ tree[p].dynamic => tree[p].size <= MaxFile
                               /\ p # Root => IsDir(Front(p))
    BY DEF IInv, Sound, GoodTree, GoodNode, IsDir
  <2> QED BY <2>1, <2>2 DEF TreeIsSound
<1> QED BY <1>1, Invariance, PTL

\* In every state that is reached, a method that raises an error has written
\* nothing: write_file over a limit, remove of what is not there or not empty, and
\* mkdir -p, which meets a file before it has made a directory or not at all.
THEOREM FailuresAreAtomic == Spec => []FailureIsAtomic
<1>1. IInv => FailureIsAtomic
  <2> SUFFICES ASSUME IInv, NEW p \in Paths, NEW b \in BOOLEAN, NEW c \in BOOLEAN
               PROVE  /\ Mkdir(p, b).err # "ok" =>
                           Mkdir(p, b).tree = tree /\ Mkdir(p, b).used = used
                      /\ RemoveNode(p, b, c).err # "ok" =>
                           /\ RemoveNode(p, b, c).tree = tree
                           /\ RemoveNode(p, b, c).used = used
                      /\ \A n \in Sizes : WriteFile(p, n, b).err # "ok" =>
                           /\ WriteFile(p, n, b).tree = tree
                           /\ WriteFile(p, n, b).used = used
    BY DEF FailureIsAtomic
  <2>1. Sound(tree, used)
    BY DEF IInv
  <2>2. Keeps(Mkdir(p, b)) /\ Keeps(RemoveNode(p, b, c))
    BY <2>1, MkdirKeeps, RemoveNodeKeeps
  <2>3. \A n \in Sizes : Keeps(WriteFile(p, n, b))
    BY <2>1, WriteFileKeeps, LimitAssumption
  <2> QED BY <2>2, <2>3 DEF Keeps
<1> QED BY <1>1, Invariance, PTL

\* What an endless redirect has left never grows while it is under way, whatever
\* the other shells do to the file: a round lowers it or ends the redirect.
RunsDown ==
    [][\A s \in Shells : stream[s] # NoStream =>
          stream'[s] \in {stream[s], NoStream} \/ stream'[s].left < stream[s].left]_vars

\* A round of _stream_infinite_redirect brings its end nearer: the measure behind
\* StreamEnds, which adds that a redirect that has yielded is resumed.
THEOREM RedirectsRunDown == Spec => RunsDown
<1>1. ASSUME IInv, Next, NEW s \in Shells, stream[s] # NoStream
      PROVE  stream'[s] \in {stream[s], NoStream} \/ stream'[s].left < stream[s].left
  <2>1. CASE \E o : Keeps(o) /\ Do(o)
    BY <1>1, <2>1, DoInv
  <2>2. CASE \E r \in Shells, job \in Jobs :
               Chunk(r, job) /\ (stream[r] = NoStream \/ stream[r] = job)
    <3>1. PICK r \in Shells, job \in Jobs :
               Chunk(r, job) /\ (stream[r] = NoStream \/ stream[r] = job)
      BY <2>2
    <3>2. /\ stream'[r] = NoStream \/ stream'[r].left = job.left - 1
          /\ \A q \in Shells : q # r => stream'[q] = stream[q]
      BY <1>1, <3>1, ChunkInv
    <3>3. job.left \in Int
      BY DEF Jobs
    <3> QED BY <1>1, <3>1, <3>2, <3>3
  <2> QED BY <1>1, <2>1, <2>2, StepIs
<1>2. IInv /\ [Next]_vars =>
        [\A s \in Shells : stream[s] # NoStream =>
           stream'[s] \in {stream[s], NoStream} \/ stream'[s].left < stream[s].left]_vars
  BY <1>1
<1> QED BY <1>2, Invariance, PTL DEF Spec, RunsDown
=============================================================================
