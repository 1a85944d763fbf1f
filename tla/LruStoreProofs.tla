--------------------------- MODULE LruStoreProofs ---------------------------
(***************************************************************************)
(* What the operations of the bounded store return, for stores of any      *)
(* length: the lemmas SessionManagerProofs and AuthManagerProofs rest on.  *)
(***************************************************************************)
EXTENDS LruStore, SequenceTheorems, FiniteSetTheorems, WellFoundedInduction, TLAPS

\* Every set of natural numbers that is not empty has a least element: the form
\* of induction the provers can use, as it has no operator for a parameter.
LEMMA LeastNumber ==
    ASSUME NEW T, T \subseteq Nat, T # {}
    PROVE  \E x \in T : \A y \in T : x <= y
<1> DEFINE R == {p \in Nat \X Nat : p[1] < p[2]}
<1>1. IsWellFoundedOn(R, Nat)
  BY NatLessThanWellFounded DEF OpToRel
<1>2. \A x, y \in Nat : <<y, x>> \in R <=> y < x
  OBVIOUS
<1> HIDE DEF R
<1>3. PICK x \in T : \A y \in T : ~(<<y, x>> \in R)
  BY <1>1, WFMin
<1>4. ASSUME NEW y \in T PROVE x <= y
  <2>1. x \in Nat /\ y \in Nat
    OBVIOUS
  <2>2. ~(y < x)
    BY <1>2, <1>3, <2>1
  <2> QED BY <2>1, <2>2
<1> QED BY <1>4

\* The function Selected computes with, as far as place m.
IsSelection(f, st, S, m) ==
    f = [n \in 0..m |-> IF n = 0 THEN <<>>
                        ELSE IF n \in S THEN Append(f[n - 1], st[n])
                        ELSE f[n - 1]]

\* The recursion behind Selected has a solution for every length: no least
\* length is without one.
LEMMA SelectionExists ==
    ASSUME NEW st, NEW S, NEW m \in Nat
    PROVE  \E f : IsSelection(f, st, S, m)
<1> DEFINE Bad == {n \in Nat : ~ \E f : IsSelection(f, st, S, n)}
<1> SUFFICES ASSUME Bad # {} PROVE FALSE
  OBVIOUS
<1>1. PICK n \in Bad : \A k \in Bad : n <= k
  <2> HIDE DEF Bad
  <2>1. Bad \subseteq Nat
    BY DEF Bad
  <2> QED BY <2>1, LeastNumber
<1>2. n \in Nat /\ \A f : ~IsSelection(f, st, S, n)
  OBVIOUS
<1>3. CASE n = 0
  <2> DEFINE g == [k \in 0..0 |-> <<>>]
  <2>1. g = [k \in 0..n |-> IF k = 0 THEN <<>>
                        ELSE IF k \in S THEN Append(g[k - 1], st[k])
                        ELSE g[k - 1]]
    BY <1>3
  <2> HIDE DEF g
  <2> QED BY <2>1, <1>2 DEF IsSelection
<1>4. CASE n # 0
  <2>1. n - 1 \in Nat /\ n - 1 \notin Bad
    BY <1>1, <1>2, <1>4
  <2>2. PICK f : IsSelection(f, st, S, n - 1)
    BY <2>1
  <2> DEFINE last == IF n \in S THEN Append(f[n - 1], st[n]) ELSE f[n - 1]
             g == [k \in 0..n |-> IF k = n THEN last ELSE f[k]]
  <2>3. \A k \in 0..n - 1 : g[k] = f[k]
    BY <1>2, <1>4
  <2>4. g[n] = last
    BY <1>2, <1>4
  <2>5. \A k \in 0..n : g[k] = IF k = 0 THEN <<>>
                        ELSE IF k \in S THEN Append(g[k - 1], st[k])
                        ELSE g[k - 1]
    <3> TAKE k \in 0..n
    <3> HIDE DEF g
    <3>1. CASE k = n
      <4>1. n - 1 \in 0..n - 1
        BY <1>2, <1>4
      <4> QED BY <3>1, <2>3, <2>4, <4>1, <1>2, <1>4
    <3>2. CASE k # n /\ k # 0
      <4>1. k \in 0..n - 1 /\ k - 1 \in 0..n - 1
        BY <3>2, <1>2
      <4>2. f[k] = IF k \in S THEN Append(f[k - 1], st[k]) ELSE f[k - 1]
        BY <2>2, <3>2, <4>1 DEF IsSelection
      <4> QED BY <2>3, <3>2, <4>1, <4>2
    <3>3. CASE k # n /\ k = 0
      <4>1. 0 \in 0..n - 1
        BY <3>3, <1>2
      <4>2. f[0] = <<>>
        BY <2>2, <4>1 DEF IsSelection
      <4> QED BY <2>3, <3>3, <4>1, <4>2
    <3> QED BY <3>1, <3>2, <3>3
  <2>6. IsSelection(g, st, S, n)
    <3>1. g = [k \in 0..n |-> g[k]]
      OBVIOUS
    <3> HIDE DEF g
    <3> QED BY <2>5, <3>1 DEF IsSelection
  <2> HIDE DEF g
  <2> QED BY <2>6, <1>2
<1> QED BY <1>3, <1>4

\* h gives the places in st, among the first n, that r was taken from: those of
\* S, each once and in their order.
Places(h, r, st, S, n) ==
    /\ h \in [1..Len(r) -> 1..n]
    /\ \A i \in 1..Len(r) : h[i] \in S /\ r[i] = st[h[i]]
    /\ \A i, j \in 1..Len(r) : i < j => h[i] < h[j]
    /\ \A k \in 1..n : k \in S => \E i \in 1..Len(r) : h[i] = k

\* A step of the selection: one more place, taken or passed over.
LEMMA PlacesStep ==
    ASSUME NEW E, NEW st \in Seq(E), NEW S, NEW n \in 1..Len(st),
           NEW r \in Seq(E), NEW h, Len(r) <= n - 1, Places(h, r, st, S, n - 1),
           NEW q, n \in S => q = Append(r, st[n]), n \notin S => q = r
    PROVE  q \in Seq(E) /\ Len(q) <= n /\ \E g : Places(g, q, st, S, n)
<1>1. n \in Nat /\ Len(r) \in Nat /\ st[n] \in E /\ n >= 1
  BY LenProperties
<1>2. CASE n \in S
  <2> DEFINE g == [i \in 1..Len(r) + 1 |-> IF i = Len(r) + 1 THEN n ELSE h[i]]
  <2>1. q = Append(r, st[n])
    BY <1>2
  <2>2. /\ q \in Seq(E) /\ Len(q) = Len(r) + 1
        /\ \A i \in 1..Len(r) : q[i] = r[i]
        /\ q[Len(r) + 1] = st[n]
    BY <2>1, <1>1, AppendProperties
  <2>3. \A i \in 1..Len(r) : g[i] = h[i] /\ h[i] \in 1..n - 1
    BY <1>1, SMTT(30) DEF Places
  <2>4. g[Len(r) + 1] = n
    BY <1>1
  <2>5. DOMAIN g = 1..Len(q) /\ g = [i \in 1..Len(q) |-> g[i]]
    BY <2>2
  <2> HIDE DEF g
  <2>6. \A i \in 1..Len(q) : g[i] \in 1..n /\ g[i] \in S /\ q[i] = st[g[i]]
    <3> TAKE i \in 1..Len(q)
    <3>1. CASE i = Len(r) + 1
      BY <3>1, <2>2, <2>4, <1>1, <1>2
    <3>2. CASE i # Len(r) + 1
      <4>1. i \in 1..Len(r)
        BY <3>2, <2>2, <1>1
      <4> QED BY <4>1, <2>2, <2>3, <1>1 DEF Places
    <3> QED BY <3>1, <3>2
  <2>7. g \in [1..Len(q) -> 1..n]
    BY <2>5, <2>6
  <2>8. ASSUME NEW i \in 1..Len(q), NEW j \in 1..Len(q), i < j PROVE g[i] < g[j]
    <3>1. i \in 1..Len(r)
      BY <2>8, <2>2, <1>1
    <3>2. CASE j = Len(r) + 1
      <4>1. g[i] \in 1..n - 1
        BY <3>1, <2>3
      <4> QED BY <3>2, <4>1, <2>4, <1>1
    <3>3. CASE j # Len(r) + 1
      <4>1. j \in 1..Len(r)
        BY <3>3, <2>2, <1>1
      <4> QED BY <3>1, <4>1, <2>3, <2>8 DEF Places
    <3> QED BY <3>2, <3>3
  <2>9. ASSUME NEW k \in 1..n, k \in S PROVE \E i \in 1..Len(q) : g[i] = k
    <3>1. CASE k = n
      BY <3>1, <2>4, <2>2, <1>1
    <3>2. CASE k # n
      <4>1. k \in 1..n - 1
        BY <3>2, <1>1
      <4>2. PICK i \in 1..Len(r) : h[i] = k
        BY <4>1, <2>9 DEF Places
      <4> QED BY <4>2, <2>2, <2>3, <1>1
    <3> QED BY <3>1, <3>2
  <2>10. Places(g, q, st, S, n)
    BY <2>6, <2>7, <2>8, <2>9 DEF Places
  <2>11. Len(q) <= n
    BY <2>2, <1>1
  <2> QED BY <2>2, <2>10, <2>11
<1>3. CASE n \notin S
  <2>1. q = r
    BY <1>3
  <2>2. h \in [1..Len(r) -> 1..n]
    BY <1>1 DEF Places
  <2>3. \A k \in 1..n : k \in S => k \in 1..n - 1
    BY <1>1, <1>3
  <2>4. Places(h, q, st, S, n)
    BY <2>1, <2>2, <2>3 DEF Places
  <2> QED BY <2>1, <2>4, <1>1
<1> QED BY <1>2, <1>3

\* What Selected returns: the entries at the places of S, in their order.
LEMMA SelectedPlaces ==
    ASSUME NEW E, NEW st \in Seq(E), NEW S
    PROVE  /\ Selected(st, S) \in Seq(E)
           /\ Len(Selected(st, S)) <= Len(st)
           /\ \E h : Places(h, Selected(st, S), st, S, Len(st))
<1> DEFINE f == CHOOSE f : IsSelection(f, st, S, Len(st))
           Good(n) == /\ f[n] \in Seq(E)
                      /\ Len(f[n]) <= n
                      /\ \E h : Places(h, f[n], st, S, n)
           Bad == {n \in 0..Len(st) : ~Good(n)}
<1>0. Len(st) \in Nat
  BY LenProperties
<1>1. Selected(st, S) = f[Len(st)]
  BY DEF Selected, IsSelection
<1>2. IsSelection(f, st, S, Len(st))
  BY <1>0, SelectionExists
<1> HIDE DEF f
<1>3. Good(0)
  <2>1. f[0] = <<>>
    BY <1>0, <1>2 DEF IsSelection
  <2> DEFINE h == [i \in 1..0 |-> 1]
  <2>2. h \in [1..0 -> 1..0]
    OBVIOUS
  <2>3. Len(f[0]) = 0 /\ f[0] \in Seq(E)
    BY <2>1
  <2> HIDE DEF h
  <2>4. Places(h, f[0], st, S, 0)
    BY <2>2, <2>3 DEF Places
  <2> QED BY <2>3, <2>4
<1>4. ASSUME NEW n \in 1..Len(st), Good(n - 1) PROVE Good(n)
  <2>1. f[n] = IF n \in S THEN Append(f[n - 1], st[n]) ELSE f[n - 1]
    <3>1. n \in 0..Len(st) /\ n # 0
      BY <1>0
    <3> HIDE DEF Good
    <3> QED BY <3>1, <1>2, Zenon DEF IsSelection
  <2>2. PICK h : Places(h, f[n - 1], st, S, n - 1)
    BY <1>4
  <2>3. f[n - 1] \in Seq(E) /\ Len(f[n - 1]) <= n - 1
    BY <1>4
  <2>4. f[n] \in Seq(E) /\ Len(f[n]) <= n /\ \E g : Places(g, f[n], st, S, n)
    <3> DEFINE r == f[n - 1]
               q == f[n]
    <3>1. r \in Seq(E) /\ Len(r) <= n - 1 /\ Places(h, r, st, S, n - 1)
      BY <2>2, <2>3
    <3>2. (n \in S => q = Append(r, st[n])) /\ (n \notin S => q = r)
      BY <2>1
    <3> HIDE DEF Good, Bad, r, q
    <3>3. q \in Seq(E) /\ Len(q) <= n /\ \E g : Places(g, q, st, S, n)
      BY <3>1, <3>2, PlacesStep
    <3> QED BY <3>3 DEF q
  <2> QED BY <2>4
<1> HIDE DEF Good
<1>5. Bad = {}
  <2> SUFFICES ASSUME Bad # {} PROVE FALSE
    OBVIOUS
  <2>1. Bad \subseteq Nat
    BY <1>0
  <2> HIDE DEF Bad
  <2>2. PICK n \in Bad : \A k \in Bad : n <= k
    BY <2>1, LeastNumber
  <2>3. n \in 0..Len(st) /\ ~Good(n)
    BY DEF Bad
  <2>4. n \in 1..Len(st)
    BY <2>3, <1>0, <1>3
  <2>5. n - 1 \in 0..Len(st) /\ n - 1 \notin Bad
    BY <2>2, <2>4, <1>0
  <2>6. Good(n - 1)
    BY <2>5 DEF Bad
  <2> QED BY <2>3, <2>4, <2>6, <1>4
<1>6. Good(Len(st))
  BY <1>0, <1>5
<1> QED BY <1>1, <1>6 DEF Good

-----------------------------------------------------------------------------
\* A set of entries whose ages are those of a store with time to live ttl.
EntrySet(E, ttl) ==
    /\ ttl \in Nat
    /\ \A e \in E : /\ e.age \in 0..ttl + 1
                    /\ \A n \in 0..ttl + 1 : /\ [e EXCEPT !.age = n] \in E
                                             /\ [e EXCEPT !.age = n].key = e.key
                                             /\ [e EXCEPT !.age = n].age = n

Entries(st) == {st[i] : i \in DOMAIN st}

\* k is stored, and the keys used after it are in U.
Since(st, k, U) ==
    \E i \in DOMAIN st : /\ st[i].key = k
                         /\ \A j \in DOMAIN st : i < j => st[j].key \in U

\* A store seen as a set of entries and a set of keys.
LEMMA DomainOfStore ==
    ASSUME NEW E, NEW st \in Seq(E)
    PROVE  /\ DOMAIN st = 1..Len(st)
           /\ Len(st) \in Nat
           /\ Entries(st) \subseteq E
           /\ Keys(st) = {e.key : e \in Entries(st)}
BY LenProperties, ElementOfSeq DEF Entries, Keys

\* With one entry per key, the entry of a key is the one that has it.
LEMMA EntryOfKey ==
    ASSUME NEW E, NEW st \in Seq(E), NEW max, WellOrdered(st, max)
    PROVE  /\ \A e \in Entries(st) : Entry(st, e.key) = e /\ e.key \in Keys(st)
           /\ \A k \in Keys(st) : Entry(st, k) \in Entries(st) /\ Entry(st, k).key = k
           /\ \A e, f \in Entries(st) : e.key = f.key => e = f
<1>1. DOMAIN st = 1..Len(st) /\ Len(st) \in Nat
  BY DomainOfStore
<1>2. \A i, j \in DOMAIN st : st[i].key = st[j].key => i = j
  BY <1>1 DEF WellOrdered
<1>3. ASSUME NEW e \in Entries(st) PROVE Entry(st, e.key) = e /\ e.key \in Keys(st)
  BY <1>2 DEF Entries, Entry, Keys
<1>4. ASSUME NEW k \in Keys(st)
      PROVE  Entry(st, k) \in Entries(st) /\ Entry(st, k).key = k
  BY DEF Entries, Entry, Keys
<1>5. \A e, f \in Entries(st) : e.key = f.key => e = f
  BY <1>3
<1> QED BY <1>3, <1>4, <1>5

\* A selection of a store is a store in the same order.
LEMMA SelectedOrdered ==
    ASSUME NEW E, NEW st \in Seq(E), NEW S, NEW max \in Nat, WellOrdered(st, max)
    PROVE  /\ Selected(st, S) \in Seq(E)
           /\ WellOrdered(Selected(st, S), max)
           /\ Len(Selected(st, S)) <= Len(st)
           /\ Entries(Selected(st, S)) = {st[i] : i \in S \cap DOMAIN st}
           /\ \A U : \A k :
                Since(st, k, U) /\ (\E i \in S \cap DOMAIN st : st[i].key = k)
                    => Since(Selected(st, S), k, U)
<1> DEFINE r == Selected(st, S)
<1>1. r \in Seq(E) /\ Len(r) <= Len(st)
  BY SelectedPlaces
<1>2. PICK h : Places(h, r, st, S, Len(st))
  BY SelectedPlaces
<1>3. /\ DOMAIN st = 1..Len(st) /\ Len(st) \in Nat
      /\ DOMAIN r = 1..Len(r) /\ Len(r) \in Nat
  BY <1>1, DomainOfStore
<1> HIDE DEF r
<1>4. /\ \A i \in DOMAIN r : h[i] \in DOMAIN st /\ h[i] \in S /\ r[i] = st[h[i]]
      /\ \A i, j \in DOMAIN r : i < j => h[i] < h[j]
      /\ \A k \in DOMAIN st : k \in S => \E i \in DOMAIN r : h[i] = k
  BY <1>2, <1>3 DEF Places
<1>5. WellOrdered(r, max)
  <2>1. Len(r) <= max
    BY <1>1, <1>3 DEF WellOrdered
  <2>2. ASSUME NEW i \in DOMAIN r, NEW j \in DOMAIN r, i < j
        PROVE  r[i].key # r[j].key /\ r[i].age >= r[j].age
    <3>1. h[i] \in DOMAIN st /\ h[j] \in DOMAIN st /\ h[i] < h[j]
      BY <1>4, <2>2
    <3>2. st[h[i]].key # st[h[j]].key /\ st[h[i]].age >= st[h[j]].age
      BY <3>1 DEF WellOrdered
    <3> QED BY <3>2, <1>4
  <2> QED BY <2>1, <2>2 DEF WellOrdered
<1>6. Entries(r) = {st[i] : i \in S \cap DOMAIN st}
  BY <1>4 DEF Entries
<1>7. ASSUME NEW U, NEW k, Since(st, k, U), \E i \in S \cap DOMAIN st : st[i].key = k
      PROVE  Since(r, k, U)
  <2>1. PICK i \in DOMAIN st : /\ st[i].key = k
                               /\ \A j \in DOMAIN st : i < j => st[j].key \in U
    BY <1>7 DEF Since
  <2>2. i \in S
    <3>1. PICK m \in S \cap DOMAIN st : st[m].key = k
      BY <1>7
    <3>2. m = i
      BY <3>1, <2>1, <1>3 DEF WellOrdered
    <3> QED BY <3>1, <3>2
  <2>3. PICK a \in DOMAIN r : h[a] = i
    BY <1>4, <2>2
  <2>4. \A b \in DOMAIN r : a < b => r[b].key \in U
    BY <1>4, <2>1, <2>3
  <2>5. r[a].key = k
    BY <1>4, <2>1, <2>3
  <2> QED BY <2>4, <2>5 DEF Since
<1> QED BY <1>1, <1>5, <1>6, <1>7 DEF r

\* _purge_expired_unlocked removes the expired entries and no other.
LEMMA PurgeStore ==
    ASSUME NEW E, NEW st \in Seq(E), NEW ttl, NEW max \in Nat, WellOrdered(st, max)
    PROVE  /\ Purge(st, ttl) \in Seq(E)
           /\ WellOrdered(Purge(st, ttl), max)
           /\ Entries(Purge(st, ttl)) = {e \in Entries(st) : e.age <= ttl}
           /\ \A U : \A e \in Entries(st) :
                Since(st, e.key, U) /\ e.age <= ttl => Since(Purge(st, ttl), e.key, U)
<1> DEFINE S == {i \in DOMAIN st : st[i].age <= ttl}
           r == Selected(st, S)
<1>1. Purge(st, ttl) = r
  BY DEF Purge
<1>2. {st[i] : i \in S \cap DOMAIN st} = {e \in Entries(st) : e.age <= ttl}
  BY DEF Entries
<1>3. ASSUME NEW e \in Entries(st), e.age <= ttl
      PROVE  \E i \in S \cap DOMAIN st : st[i].key = e.key
  BY <1>3 DEF Entries
<1> HIDE DEF S
<1>4. /\ r \in Seq(E) /\ WellOrdered(r, max)
      /\ Entries(r) = {st[i] : i \in S \cap DOMAIN st}
      /\ \A U : \A k :
           Since(st, k, U) /\ (\E i \in S \cap DOMAIN st : st[i].key = k) => Since(r, k, U)
  BY SelectedOrdered
<1> HIDE DEF r
<1> QED BY <1>1, <1>2, <1>3, <1>4

\* The places of a store are as many as it is long.
LEMMA Interval ==
    ASSUME NEW n \in Nat
    PROVE  IsFiniteSet(1..n) /\ Cardinality(1..n) = n
<1>1. 1 \in Int /\ n \in Int
  OBVIOUS
<1>2. IsFiniteSet(1..n) /\ Cardinality(1..n) = IF 1 > n THEN 0 ELSE n - 1 + 1
  BY <1>1, FS_Interval
<1> QED BY <1>2

\* del store[k] removes the entry of k and no other.
LEMMA DeleteStore ==
    ASSUME NEW E, NEW st \in Seq(E), NEW k, NEW max \in Nat, WellOrdered(st, max)
    PROVE  /\ Delete(st, k) \in Seq(E)
           /\ WellOrdered(Delete(st, k), max)
           /\ Entries(Delete(st, k)) = {e \in Entries(st) : e.key # k}
           /\ k \notin Keys(Delete(st, k))
           /\ Len(Delete(st, k)) <= Len(st)
           /\ k \in Keys(st) => Len(Delete(st, k)) < Len(st)
           /\ \A U, j : Since(st, j, U) /\ j # k => Since(Delete(st, k), j, U)
<1> DEFINE S == {i \in DOMAIN st : st[i].key # k}
           r == Selected(st, S)
<1>1. Delete(st, k) = r
  BY DEF Delete
<1>2. {st[i] : i \in S \cap DOMAIN st} = {e \in Entries(st) : e.key # k}
  BY DEF Entries
<1>3. ASSUME NEW U, NEW j, Since(st, j, U), j # k
      PROVE  \E i \in S \cap DOMAIN st : st[i].key = j
  BY <1>3 DEF Since
<1>4. k \in Keys(st) => \E i \in DOMAIN st : i \notin S
  BY DEF Keys
<1> HIDE DEF S
<1>5. /\ r \in Seq(E) /\ WellOrdered(r, max) /\ Len(r) <= Len(st)
      /\ Entries(r) = {st[i] : i \in S \cap DOMAIN st}
      /\ \A U : \A j :
           Since(st, j, U) /\ (\E i \in S \cap DOMAIN st : st[i].key = j) => Since(r, j, U)
  BY SelectedOrdered
<1>6. PICK h : Places(h, r, st, S, Len(st))
  BY SelectedPlaces
<1> HIDE DEF r
<1>7. k \notin Keys(r)
  <2>1. Keys(r) = {e.key : e \in Entries(r)}
    BY <1>5, DomainOfStore
  <2> QED BY <2>1, <1>2, <1>5
<1>8. ASSUME k \in Keys(st) PROVE Len(r) < Len(st)
  <2>1. PICK m \in DOMAIN st : m \notin S
    BY <1>4, <1>8
  <2>2. DOMAIN st = 1..Len(st) /\ Len(st) \in Nat /\ Len(r) \in Nat
    BY <1>5, DomainOfStore
  <2> DEFINE T == (1..Len(st)) \ {m}
  <2>3. IsFiniteSet(T) /\ Cardinality(T) = Len(st) - 1
    <3> DEFINE N == 1..Len(st)
    <3>1. IsFiniteSet(N) /\ Cardinality(N) = Len(st) /\ m \in N /\ T = N \ {m}
      BY <2>2, Interval
    <3> HIDE DEF N, T
    <3> QED BY <3>1, FS_RemoveElement
  <2>4. h \in Injection(1..Len(r), T)
    <3>1. h \in [1..Len(r) -> T]
      BY <1>6, <2>1 DEF Places
    <3>2. \A i, j \in 1..Len(r) : h[i] = h[j] => i = j
      <4> TAKE i, j \in 1..Len(r)
      <4>1. i \in Nat /\ j \in Nat /\ h[i] \in Nat /\ h[j] \in Nat
        BY <3>1, <2>2
      <4>2. (i < j => h[i] < h[j]) /\ (j < i => h[j] < h[i])
        BY <1>6 DEF Places
      <4> QED BY <4>1, <4>2
    <3> HIDE DEF T
    <3> QED BY <3>1, <3>2 DEF Injection, IsInjective
  <2>5. IsFiniteSet(1..Len(r)) /\ Cardinality(1..Len(r)) = Len(r)
    BY <2>2, Interval
  <2> HIDE DEF T
  <2>6. Cardinality(1..Len(r)) <= Cardinality(T)
    BY <2>3, <2>4, FS_Injection
  <2> QED BY <2>2, <2>3, <2>5, <2>6
<1> QED BY <1>1, <1>2, <1>3, <1>5, <1>7, <1>8

\* A new entry goes to the end, used after all the others.
LEMMA AppendStore ==
    ASSUME NEW E, NEW st \in Seq(E), NEW e \in E, NEW max \in Nat, NEW ttl,
           EntrySet(E, ttl), WellOrdered(st, max), Len(st) < max,
           e.age = 0, e.key \notin Keys(st)
    PROVE  /\ Append(st, e) \in Seq(E)
           /\ WellOrdered(Append(st, e), max)
           /\ Entries(Append(st, e)) = Entries(st) \cup {e}
           /\ Keys(Append(st, e)) = Keys(st) \cup {e.key}
           /\ \A U, j : Since(st, j, U) => Since(Append(st, e), j, U \cup {e.key})
           /\ \A U : Since(Append(st, e), e.key, U)
<1> DEFINE r == Append(st, e)
           n == Len(st) + 1
<1>1. Len(st) \in Nat /\ DOMAIN st = 1..Len(st)
  BY DomainOfStore
<1>2. /\ r \in Seq(E) /\ Len(r) = n /\ DOMAIN r = 1..n
      /\ \A i \in DOMAIN st : r[i] = st[i]
      /\ r[n] = e
  BY <1>1, AppendProperties
<1> HIDE DEF r
<1>3. DOMAIN r = DOMAIN st \cup {n} /\ n \notin DOMAIN st
      /\ \A i \in DOMAIN st : i < n /\ ~(n < i)
  BY <1>1, <1>2
<1>4. \A i \in DOMAIN st : st[i] \in E /\ st[i].key \in Keys(st)
  BY <1>1, ElementOfSeq DEF Keys
<1>5. \A i \in DOMAIN st : st[i].age \in Nat
  BY <1>4 DEF EntrySet
<1> HIDE DEF n
<1>6. WellOrdered(r, max)
  <2>1. Len(r) <= max
    BY <1>1, <1>2 DEF n
  <2>2. ASSUME NEW i \in DOMAIN r, NEW j \in DOMAIN r, i < j
        PROVE  r[i].key # r[j].key /\ r[i].age >= r[j].age
    <3>1. i \in DOMAIN st
      BY <1>1, <1>2, <2>2 DEF n
    <3>2. CASE j = n
      BY <3>1, <3>2, <1>2, <1>4, <1>5
    <3>3. CASE j # n
      BY <3>1, <3>3, <1>2, <1>3, <2>2 DEF WellOrdered
    <3> QED BY <3>2, <3>3
  <2> QED BY <2>1, <2>2 DEF WellOrdered
<1>7. Entries(r) = Entries(st) \cup {e}
  <2>1. \A i \in DOMAIN r : r[i] \in Entries(st) \cup {e}
    BY <1>2, <1>3 DEF Entries
  <2>2. \A i \in DOMAIN st : st[i] \in Entries(r)
    BY <1>2, <1>3 DEF Entries
  <2>3. e \in Entries(r)
    BY <1>2, <1>3 DEF Entries
  <2> QED BY <2>1, <2>2, <2>3 DEF Entries
<1>8. Keys(r) = Keys(st) \cup {e.key}
  <2>1. Keys(r) = {x.key : x \in Entries(r)} /\ Keys(st) = {x.key : x \in Entries(st)}
    BY <1>2, DomainOfStore
  <2> QED BY <2>1, <1>7
<1>9. ASSUME NEW U, NEW j, Since(st, j, U) PROVE Since(r, j, U \cup {e.key})
  <2>1. PICK i \in DOMAIN st : /\ st[i].key = j
                               /\ \A m \in DOMAIN st : i < m => st[m].key \in U
    BY <1>9 DEF Since
  <2>2. \A m \in DOMAIN r : i < m => r[m].key \in U \cup {e.key}
    BY <2>1, <1>2, <1>3
  <2> QED BY <2>1, <2>2, <1>2, <1>3 DEF Since
<1>10. ASSUME NEW U PROVE Since(r, e.key, U)
  <2>1. \A m \in DOMAIN r : ~(n < m)
    BY <1>1, <1>3 DEF n
  <2> QED BY <2>1, <1>2, <1>3 DEF Since
<1> QED BY <1>2, <1>6, <1>7, <1>8, <1>9, <1>10 DEF r

\* popitem(last=False) leaves the entries used last, and room for one more.
LEMMA MakeRoomStore ==
    ASSUME NEW E, NEW st \in Seq(E), NEW max \in Nat \ {0}, WellOrdered(st, max)
    PROVE  /\ MakeRoom(st, max) \in Seq(E)
           /\ WellOrdered(MakeRoom(st, max), max)
           /\ Len(MakeRoom(st, max)) < max
           /\ Entries(MakeRoom(st, max)) \subseteq Entries(st)
           /\ Keys(MakeRoom(st, max)) \subseteq Keys(st)
           /\ \A i \in DOMAIN st : \/ st[i].key \in Keys(MakeRoom(st, max))
                                   \/ i = 1 /\ Len(st) = max
           /\ \A U, k : Since(st, k, U) /\ k \in Keys(MakeRoom(st, max))
                            => Since(MakeRoom(st, max), k, U)
<1> DEFINE r == MakeRoom(st, max)
<1>1. Len(st) \in Nat /\ DOMAIN st = 1..Len(st) /\ Len(st) <= max
  BY DomainOfStore DEF WellOrdered
<1>2. CASE Len(st) < max
  <2>1. r = st
    BY <1>2 DEF MakeRoom
  <2> HIDE DEF r
  <2> QED BY <1>2, <2>1 DEF r, Keys
<1>3. CASE ~(Len(st) < max)
  <2>0. Len(st) = max
    <3>1. \A n, m \in Nat : n <= m /\ ~(n < m) => n = m
      OBVIOUS
    <3>2. max \in Nat /\ Len(st) \in Nat /\ Len(st) <= max
      BY <1>1
    <3> QED BY <3>1, <3>2, <1>3, Zenon
  <2>1. r = SubSeq(st, 2, Len(st))
    BY <1>1, <1>3, <2>0 DEF MakeRoom
  <2>2. \A i \in 2..Len(st) : st[i] \in E
    BY <1>1, ElementOfSeq
  <2>3. /\ r \in Seq(E) /\ Len(r) = Len(st) - 1
        /\ \A i \in 1..Len(st) - 1 : r[i] = st[i + 1]
    BY <1>1, <2>0, <2>1, <2>2, SubSeqProperties
  <2> HIDE DEF r
  <2>4. DOMAIN r = 1..Len(st) - 1
    BY <2>3, DomainOfStore
  <2>5. \A i \in DOMAIN r : i + 1 \in DOMAIN st /\ r[i] = st[i + 1]
    BY <2>3, <2>4, <1>1
  <2>6. WellOrdered(r, max) /\ Len(r) < max
    <3>1. Len(r) < max
      BY <2>0, <2>3
    <3>2. ASSUME NEW i \in DOMAIN r, NEW j \in DOMAIN r, i < j
          PROVE  r[i].key # r[j].key /\ r[i].age >= r[j].age
      <4>1. i + 1 < j + 1 /\ i + 1 \in DOMAIN st /\ j + 1 \in DOMAIN st
        BY <3>2, <2>4, <2>5, <1>1
      <4> QED BY <4>1, <2>5 DEF WellOrdered
    <3> QED BY <3>1, <3>2, <2>3, <1>1 DEF WellOrdered
  <2>7. \A i \in DOMAIN st : i # 1 => i - 1 \in DOMAIN r /\ r[i - 1] = st[i]
    BY <2>3, <2>4, <1>1
  <2>8. Entries(r) \subseteq Entries(st) /\ Keys(r) \subseteq Keys(st)
    BY <2>5 DEF Entries, Keys
  <2>9. \A i \in DOMAIN st : st[i].key \in Keys(r) \/ (i = 1 /\ Len(st) = max)
    BY <2>0, <2>7 DEF Keys
  <2>10. ASSUME NEW U, NEW k, Since(st, k, U), k \in Keys(r) PROVE Since(r, k, U)
    <3>1. PICK i \in DOMAIN st : /\ st[i].key = k
                                 /\ \A m \in DOMAIN st : i < m => st[m].key \in U
      BY <2>10 DEF Since
    <3>2. PICK a \in DOMAIN r : r[a].key = k
      BY <2>10 DEF Keys
    <3>3. i = a + 1
      BY <3>1, <3>2, <2>4, <2>5, <1>1 DEF WellOrdered
    <3>4. \A b \in DOMAIN r : a < b => r[b].key \in U
      BY <3>1, <3>3, <2>4, <2>5, <1>1
    <3> QED BY <3>2, <3>4 DEF Since
  <2> QED BY <2>3, <2>6, <2>8, <2>9, <2>10 DEF r
<1> QED BY <1>2, <1>3

\* A store that is full drops the entry of k only when as many other keys as it
\* holds, the new one included, have been used after k.
LEMMA EvictedWhenDue ==
    ASSUME NEW E, NEW st \in Seq(E), NEW max \in Nat \ {0}, WellOrdered(st, max),
           NEW k, NEW U, Since(st, k, U), k \notin Keys(MakeRoom(st, max)),
           IsFiniteSet(U), NEW new, new \notin Keys(st)
    PROVE  Cardinality(U \cup {new}) >= max
<1>1. Len(st) \in Nat /\ DOMAIN st = 1..Len(st) /\ max \in Nat
  BY DomainOfStore
<1>2. PICK i \in DOMAIN st : /\ st[i].key = k
                             /\ \A j \in DOMAIN st : i < j => st[j].key \in U
  BY DEF Since
<1>3. i = 1 /\ Len(st) = max
  BY <1>2, MakeRoomStore
<1> DEFINE N == 1..max
           V == U \cup {new}
           f == [j \in N |-> IF j = 1 THEN new ELSE st[j].key]
<1>4. IsFiniteSet(N) /\ Cardinality(N) = max
  BY <1>1, Interval
<1>5. IsFiniteSet(V) /\ Cardinality(V) \in Nat
  BY FS_AddElement, FS_CardinalityType
<1>6. \A j \in N : f[j] \in V
  BY <1>1, <1>2, <1>3
<1>7. f \in [N -> V]
  BY <1>6
<1>8. ASSUME NEW a \in N, NEW b \in N, f[a] = f[b] PROVE a = b
  <2>1. \A j \in N : st[j].key \in Keys(st) /\ st[j].key # new
    BY <1>1, <1>3 DEF Keys
  <2>2. CASE a = 1 \/ b = 1
    BY <2>1, <2>2, <1>8
  <2>3. CASE a # 1 /\ b # 1
    <3>1. st[a].key = st[b].key /\ a \in DOMAIN st /\ b \in DOMAIN st
      BY <2>3, <1>1, <1>3, <1>8
    <3> QED BY <3>1, <1>1 DEF WellOrdered
  <2> QED BY <2>2, <2>3
<1>9. f \in Injection(N, V)
  <2> HIDE DEF f, N, V
  <2> QED BY <1>7, <1>8 DEF Injection, IsInjective
<1> HIDE DEF f, N, V
<1>10. Cardinality(N) <= Cardinality(V)
  BY <1>5, <1>9, FS_Injection
<1> QED BY <1>1, <1>4, <1>5, <1>10 DEF V

\* last_seen = now and move_to_end: the entry of e.key is the last one, and is e.
LEMMA RefreshStore ==
    ASSUME NEW E, NEW st \in Seq(E), NEW e \in E, NEW max \in Nat, NEW ttl,
           EntrySet(E, ttl), WellOrdered(st, max), e.key \in Keys(st) \/ Len(st) < max
    PROVE  /\ Refresh(st, e) \in Seq(E)
           /\ WellOrdered(Refresh(st, e), max)
           /\ Entries(Refresh(st, e)) =
                {x \in Entries(st) : x.key # e.key} \cup {[e EXCEPT !.age = 0]}
           /\ Keys(Refresh(st, e)) = Keys(st) \cup {e.key}
           /\ \A U, j : Since(st, j, U) /\ j # e.key
                            => Since(Refresh(st, e), j, U \cup {e.key})
           /\ \A U : Since(Refresh(st, e), e.key, U)
<1> DEFINE d == Delete(st, e.key)
           x == [e EXCEPT !.age = 0]
<1>1. Len(st) \in Nat /\ Len(st) <= max
  BY DomainOfStore DEF WellOrdered
<1>2. x \in E /\ x.age = 0 /\ x.key = e.key
  BY DEF EntrySet
<1>3. /\ d \in Seq(E) /\ WellOrdered(d, max)
      /\ Entries(d) = {y \in Entries(st) : y.key # e.key}
      /\ e.key \notin Keys(d)
      /\ Len(d) <= Len(st)
      /\ e.key \in Keys(st) => Len(d) < Len(st)
      /\ \A U, j : Since(st, j, U) /\ j # e.key => Since(d, j, U)
  BY DeleteStore
<1>4. Refresh(st, e) = Append(d, x)
  BY DEF Refresh
<1> HIDE DEF d, x
<1>5. Len(d) < max
  <2>1. Len(d) \in Nat
    BY <1>3, DomainOfStore
  <2> QED BY <2>1, <1>1, <1>3
<1>6. /\ Append(d, x) \in Seq(E)
      /\ WellOrdered(Append(d, x), max)
      /\ Entries(Append(d, x)) = Entries(d) \cup {x}
      /\ Keys(Append(d, x)) = Keys(d) \cup {x.key}
      /\ \A U, j : Since(d, j, U) => Since(Append(d, x), j, U \cup {x.key})
      /\ \A U : Since(Append(d, x), x.key, U)
  BY <1>2, <1>3, <1>5, AppendStore
<1>7. Keys(d) \cup {e.key} = Keys(st) \cup {e.key}
  <2>1. Keys(d) = {y.key : y \in Entries(d)} /\ Keys(st) = {y.key : y \in Entries(st)}
    BY <1>3, DomainOfStore
  <2> QED BY <2>1, <1>3
<1>8. \A U, j : Since(st, j, U) /\ j # e.key => Since(Append(d, x), j, U \cup {e.key})
  BY <1>2, <1>3, <1>6
<1>9. Entries(Append(d, x)) = {y \in Entries(st) : y.key # e.key} \cup {x}
  BY <1>3, <1>6
<1>10. Keys(Append(d, x)) = Keys(st) \cup {e.key} /\ \A U : Since(Append(d, x), e.key, U)
  BY <1>2, <1>6, <1>7
<1> DEFINE q == Append(d, x)
<1>11. q = Refresh(st, e)
  BY <1>4
<1> HIDE DEF q
<1>12. /\ q \in Seq(E) /\ WellOrdered(q, max)
       /\ Entries(q) = {y \in Entries(st) : y.key # e.key} \cup {x}
       /\ Keys(q) = Keys(st) \cup {e.key}
       /\ \A U, j : Since(st, j, U) /\ j # e.key => Since(q, j, U \cup {e.key})
       /\ \A U : Since(q, e.key, U)
  BY <1>6, <1>8, <1>9, <1>10 DEF q
<1> QED BY <1>11, <1>12 DEF x

\* The clock changes ages only, and keeps their order.
LEMMA OlderStore ==
    ASSUME NEW E, NEW st \in Seq(E), NEW max, NEW ttl,
           EntrySet(E, ttl), WellOrdered(st, max)
    PROVE  /\ Older(st, ttl) \in Seq(E)
           /\ WellOrdered(Older(st, ttl), max)
           /\ Entries(Older(st, ttl)) =
                {[e EXCEPT !.age = IF @ > ttl THEN @ ELSE @ + 1] : e \in Entries(st)}
           /\ Keys(Older(st, ttl)) = Keys(st)
           /\ \A U, j : Since(st, j, U) => Since(Older(st, ttl), j, U)
<1> DEFINE older(e) == [e EXCEPT !.age = IF @ > ttl THEN @ ELSE @ + 1]
           r == Older(st, ttl)
<1>1. Len(st) \in Nat /\ DOMAIN st = 1..Len(st) /\ \A i \in DOMAIN st : st[i] \in E
  BY DomainOfStore, ElementOfSeq
<1>2. ASSUME NEW e \in E
      PROVE  /\ older(e) \in E /\ older(e).key = e.key
             /\ older(e).age = IF e.age > ttl THEN e.age ELSE e.age + 1
  <2>1. e.age \in 0..ttl + 1 /\ ttl \in Nat
    BY DEF EntrySet
  <2>2. CASE e.age > ttl
    <3>1. older(e) = [e EXCEPT !.age = e.age]
      BY <2>2
    <3> QED BY <2>1, <2>2, <3>1 DEF EntrySet
  <2>3. CASE ~(e.age > ttl)
    <3>1. older(e) = [e EXCEPT !.age = e.age + 1] /\ e.age + 1 \in 0..ttl + 1
      BY <2>1, <2>3
    <3> QED BY <2>1, <2>3, <3>1 DEF EntrySet
  <2> QED BY <2>2, <2>3
<1>3. r = [i \in DOMAIN st |-> older(st[i])]
  BY DEF Older
<1> HIDE DEF older, r
<1>4. DOMAIN r = DOMAIN st /\ \A i \in DOMAIN st : r[i] = older(st[i])
  BY <1>3
<1>5. r \in Seq(E) /\ Len(r) = Len(st)
  <2>1. r = [i \in 1..Len(st) |-> r[i]] /\ \A i \in 1..Len(st) : r[i] \in E
    BY <1>1, <1>2, <1>3, <1>4
  <2>2. r \in Seq(E)
    BY <2>1, <1>1, IsASeq
  <2> QED BY <2>2, <1>1, <1>4, LenProperties
<1>6. WellOrdered(r, max)
  <2>1. ASSUME NEW i \in DOMAIN st, NEW j \in DOMAIN st, i < j
        PROVE  r[i].key # r[j].key /\ r[i].age >= r[j].age
    <3>1. st[i].key # st[j].key /\ st[i].age >= st[j].age
      BY <2>1 DEF WellOrdered
    <3>2. ttl \in Nat /\ st[i].age \in Nat /\ st[j].age \in Nat
      BY <1>1 DEF EntrySet
    <3> QED BY <3>1, <3>2, <1>1, <1>2, <1>4
  <2> QED BY <2>1, <1>4, <1>5 DEF WellOrdered
<1>7. Entries(r) = {older(e) : e \in Entries(st)}
  BY <1>4 DEF Entries
<1>8. \A i \in DOMAIN st : r[i].key = st[i].key
  BY <1>1, <1>2, <1>4
<1>9. Keys(r) = Keys(st)
  BY <1>4, <1>8 DEF Keys
<1>10. \A U, j : Since(st, j, U) => Since(r, j, U)
  BY <1>4, <1>8 DEF Since
<1> QED BY <1>5, <1>6, <1>7, <1>9, <1>10 DEF older, r

\* More keys may be named than were used.
LEMMA SinceMonotone ==
    ASSUME NEW st, NEW k, NEW U, NEW V, Since(st, k, U), U \subseteq V
    PROVE  Since(st, k, V) /\ k \in Keys(st)
BY DEF Since, Keys
=============================================================================
