---------------------------- MODULE MoneyTheorems ----------------------------
(***************************************************************************)
(* What the prover needs of sums of payments.                              *)
(***************************************************************************)
EXTENDS Money, Integers, FiniteSetTheorems, TLAPS

\* The cents of a payment are as many as its amount says.
LEMMA CentsCount ==
  ASSUME NEW p, p.amount \in Nat
  PROVE  IsFiniteSet(Cents(p)) /\ Cardinality(Cents(p)) = p.amount
<1>1. IsFiniteSet(1 .. p.amount) /\ Cardinality(1 .. p.amount) = p.amount
  BY FS_Interval
<1>2. IsFiniteSet({p}) /\ Cardinality({p}) = 1
  BY FS_Singleton
<1>3. /\ IsFiniteSet({p} \X (1 .. p.amount))
      /\ Cardinality({p} \X (1 .. p.amount)) = 1 * p.amount
  BY <1>1, <1>2, FS_Product
<1> QED
  BY <1>3 DEF Cents

\* The cents of finitely many payments are finitely many.
LEMMA CentsFinite ==
  ASSUME NEW S, IsFiniteSet(S), \A p \in S : p.amount \in Nat
  PROVE  IsFiniteSet(UNION {Cents(p) : p \in S})
<1> DEFINE T == {Cents(p) : p \in S}
           f == [p \in S |-> Cents(p)]
<1>1. f \in Surjection(S, T)
  BY DEF Surjection
<1>2. IsFiniteSet(T)
  BY <1>1, FS_Surjection
<1>3. \A C \in {Cents(p) : p \in S} : IsFiniteSet(C)
  BY CentsCount
<1> QED
  BY <1>2, <1>3, FS_UNION

\* A sum of payments is an amount; no payments sum to nothing.
THEOREM SumAmountType ==
  /\ SumAmount({}) = 0
  /\ \A S : IsFiniteSet(S) /\ (\A p \in S : p.amount \in Nat) => SumAmount(S) \in Nat
<1>1. UNION {Cents(p) : p \in {}} = {}
  OBVIOUS
<1>2. SumAmount({}) = 0
  BY <1>1, FS_EmptySet DEF SumAmount
<1>3. ASSUME NEW S, IsFiniteSet(S), \A p \in S : p.amount \in Nat
      PROVE  SumAmount(S) \in Nat
  BY <1>3, CentsFinite, FS_CardinalityType DEF SumAmount
<1> QED
  BY <1>2, <1>3

\* One more payment adds its amount to the sum.
THEOREM SumAmountAdd ==
  ASSUME NEW S, IsFiniteSet(S), \A p \in S : p.amount \in Nat,
         NEW q, q.amount \in Nat, q \notin S
  PROVE  SumAmount(S \cup {q}) = SumAmount(S) + q.amount
<1> DEFINE Paid == UNION {Cents(p) : p \in S}
<1>1. UNION {Cents(p) : p \in S \cup {q}} = Paid \cup Cents(q)
  OBVIOUS
<1>2. Paid \cap Cents(q) = {}
  BY DEF Cents
<1>3. IsFiniteSet(Paid) /\ Cardinality(Paid) \in Nat
  BY CentsFinite, FS_CardinalityType
<1>4. IsFiniteSet(Cents(q)) /\ Cardinality(Cents(q)) = q.amount
  BY CentsCount
<1>5. Cardinality(Paid \cup Cents(q)) = Cardinality(Paid) + Cardinality(Cents(q)) - Cardinality({})
  BY <1>2, <1>3, <1>4, FS_Union
<1>6. Cardinality({}) = 0
  BY FS_EmptySet
<1>7. SumAmount(S \cup {q}) = Cardinality(Paid \cup Cents(q))
  BY <1>1 DEF SumAmount
<1>8. SumAmount(S) = Cardinality(Paid)
  BY DEF SumAmount
<1> HIDE DEF Paid
<1> QED
  BY <1>3, <1>4, <1>5, <1>6, <1>7, <1>8

\* One payment less takes its amount off the sum.
THEOREM SumAmountRemove ==
  ASSUME NEW S, IsFiniteSet(S), \A p \in S : p.amount \in Nat, NEW q \in S
  PROVE  /\ SumAmount(S \ {q}) \in Nat
         /\ SumAmount(S) = SumAmount(S \ {q}) + q.amount
<1>1. IsFiniteSet(S \ {q})
  BY FS_RemoveElement
<1>2. SumAmount((S \ {q}) \cup {q}) = SumAmount(S \ {q}) + q.amount
  BY <1>1, SumAmountAdd
<1>3. (S \ {q}) \cup {q} = S
  OBVIOUS
<1> QED
  BY <1>1, <1>2, <1>3, SumAmountType

\* Two sets of payments that share none sum to what each sums to.
THEOREM SumAmountUnion ==
  ASSUME NEW S, NEW T, IsFiniteSet(S), IsFiniteSet(T), S \cap T = {},
         \A p \in S \cup T : p.amount \in Nat
  PROVE  SumAmount(S \cup T) = SumAmount(S) + SumAmount(T)
<1> DEFINE C == UNION {Cents(p) : p \in S}
           D == UNION {Cents(p) : p \in T}
<1>1. UNION {Cents(p) : p \in S \cup T} = C \cup D
  OBVIOUS
<1>2. C \cap D = {}
  BY DEF Cents
<1>3. IsFiniteSet(C) /\ IsFiniteSet(D)
  BY CentsFinite
<1>4. SumAmount(S) = Cardinality(C) /\ SumAmount(T) = Cardinality(D) /\ SumAmount(S \cup T) = Cardinality(C \cup D)
  BY <1>1 DEF SumAmount
<1> HIDE DEF C, D
<1>5. Cardinality(C) \in Nat /\ Cardinality(D) \in Nat /\ Cardinality({}) = 0
  BY <1>3, FS_CardinalityType, FS_EmptySet
<1>6. Cardinality(C \cup D) = Cardinality(C) + Cardinality(D) - Cardinality({})
  BY <1>2, <1>3, FS_Union
<1> QED
  BY <1>4, <1>5, <1>6

\* g has the sum of every group that f puts payments of S into.
GroupSums(S, R, f, g) == \A r \in R : g[r] = SumAmount({p \in S : f[p] = r})

\* When the payments are put into finitely many groups, the sums of the groups sum to the sum
\* of all: a bijection between the cents of a group's payments and those of its sum, for each
\* group, is one between all cents.
THEOREM SumAmountPartition ==
  ASSUME NEW S, IsFiniteSet(S), \A p \in S : p.amount \in Nat,
         NEW R, IsFiniteSet(R), NEW f \in [S -> R],
         NEW g, GroupSums(S, R, f, g)
  PROVE  SumAmount({[id |-> r, amount |-> g[r]] : r \in R}) = SumAmount(S)
<1> DEFINE Group(r) == {p \in S : f[p] = r}
           CentsOf(r) == UNION {Cents(p) : p \in Group(r)}
           Line(r) == [id |-> r, amount |-> g[r]]
           Lines == {Line(r) : r \in R}
           All == UNION {Cents(p) : p \in S}
           Listed == UNION {Cents(q) : q \in Lines}
<1>1. ASSUME NEW r \in R
      PROVE  g[r] \in Nat /\ \E b : b \in Bijection(1 .. g[r], CentsOf(r))
  <2>1. IsFiniteSet(Group(r)) /\ \A p \in Group(r) : p.amount \in Nat
    BY FS_Subset
  <2>2. IsFiniteSet(CentsOf(r))
    BY <2>1, CentsFinite
  <2>3. g[r] = Cardinality(CentsOf(r))
    BY DEF SumAmount, GroupSums
  <2> QED
    BY <2>2, <2>3, FS_CardinalityType DEF ExistsBijection
<1> DEFINE B == [r \in R |-> CHOOSE b : b \in Bijection(1 .. g[r], CentsOf(r))]
<1>2. \A r \in R : B[r] \in Bijection(1 .. g[r], CentsOf(r))
  BY <1>1
<1>3. \A c : c \in Listed <=> \E r \in R : \E i \in 1 .. g[r] : c = <<Line(r), i>>
  BY DEF Cents
<1>4. \A r \in R : \A i \in 1 .. g[r] : <<Line(r), i>> \in Listed
  BY <1>3
<1>5. \A r \in R : Line(r).id = r
  OBVIOUS
<1> DEFINE h == [c \in Listed |-> B[c[1].id][c[2]]]
<1>6. \A r \in R : \A i \in 1 .. g[r] : h[<<Line(r), i>>] = B[r][i]
  BY <1>4, <1>5
<1>7. \A c : c \in All <=> \E r \in R : c \in CentsOf(r)
  OBVIOUS
<1>8. \A r, s \in R : r # s => CentsOf(r) \cap CentsOf(s) = {}
  BY DEF Cents
<1> HIDE DEF Listed, CentsOf, Line, B, h, All
<1>9. \A r \in R : /\ \A i \in 1 .. g[r] : B[r][i] \in CentsOf(r)
                   /\ \A i, j \in 1 .. g[r] : B[r][i] = B[r][j] => i = j
                   /\ \A c \in CentsOf(r) : \E i \in 1 .. g[r] : B[r][i] = c
  BY <1>2 DEF Bijection, Injection, Surjection, IsInjective
<1>10. h \in Bijection(Listed, All)
  <2>1. h \in [Listed -> All]
    <3>1. h = [c \in Listed |-> h[c]]
      BY DEF h
    <3>2. ASSUME NEW c \in Listed PROVE h[c] \in All
      BY <1>3, <1>6, <1>7, <1>9
    <3> QED
      BY <3>1, <3>2
  <2>2. ASSUME NEW c \in Listed, NEW d \in Listed, h[c] = h[d] PROVE c = d
    <3>1. PICK r \in R : \E i \in 1 .. g[r] : c = <<Line(r), i>>
      BY <1>3
    <3>2. PICK s \in R : \E j \in 1 .. g[s] : d = <<Line(s), j>>
      BY <1>3
    <3> PICK i \in 1 .. g[r] : c = <<Line(r), i>>
      BY <3>1
    <3> PICK j \in 1 .. g[s] : d = <<Line(s), j>>
      BY <3>2
    <3>3. B[r][i] = B[s][j]
      BY <1>6, <2>2
    <3>4. r = s
      BY <1>8, <1>9, <3>3
    <3>5. i = j
      BY <1>9, <3>3, <3>4
    <3> QED
      BY <3>4, <3>5
  <2>3. ASSUME NEW c \in All PROVE \E d \in Listed : h[d] = c
    <3>1. PICK r \in R : c \in CentsOf(r)
      BY <1>7
    <3>2. PICK i \in 1 .. g[r] : B[r][i] = c
      BY <1>9, <3>1
    <3>3. <<Line(r), i>> \in Listed /\ h[<<Line(r), i>>] = c
      BY <1>4, <1>6, <3>2
    <3> QED
      BY <3>3
  <2> QED
    BY <2>1, <2>2, <2>3 DEF Bijection, Injection, Surjection, IsInjective
<1>11. IsFiniteSet(Listed)
  <2> DEFINE k == [r \in R |-> Line(r)]
  <2>1. k \in Surjection(R, Lines)
    BY DEF Surjection
  <2>2. IsFiniteSet(Lines)
    BY <2>1, FS_Surjection
  <2>3. \A q \in Lines : q.amount \in Nat
    BY <1>1 DEF Line
  <2> QED
    BY <2>2, <2>3, CentsFinite DEF Listed
<1>12. Cardinality(All) = Cardinality(Listed)
  BY <1>10, <1>11, FS_Bijection DEF ExistsBijection
<1> QED
  BY <1>12 DEF SumAmount, All, Listed, Line

\* Counting is summing ones.
LEMMA SumOfOnes ==
  ASSUME NEW S, IsFiniteSet(S)
  PROVE  SumAmount({[id |-> x, amount |-> 1] : x \in S}) = Cardinality(S)
<1> DEFINE Ones == UNION {Cents(q) : q \in {[id |-> x, amount |-> 1] : x \in S}}
           h == [x \in S |-> <<[id |-> x, amount |-> 1], 1>>]
<1>1. \A c : c \in Ones <=> \E x \in S : c = <<[id |-> x, amount |-> 1], 1>>
  BY DEF Cents
<1>2. \A x, y \in S : h[x] = h[y] => x = y
  <2>1. \A x, y \in S : h[x] = h[y] => h[x][1].id = h[y][1].id
    OBVIOUS
  <2>2. \A x \in S : h[x][1].id = x
    OBVIOUS
  <2> QED
    BY <2>1, <2>2
<1>3. h \in Bijection(S, Ones)
  BY <1>1, <1>2 DEF Bijection, Injection, Surjection, IsInjective
<1> QED
  BY <1>3, FS_Bijection DEF ExistsBijection, SumAmount

\* Fewer payments sum to no more.
THEOREM SumAmountMonotone ==
  ASSUME NEW T, IsFiniteSet(T), \A p \in T : p.amount \in Nat, NEW S \in SUBSET T
  PROVE  SumAmount(S) \in Nat /\ SumAmount(T) \in Nat /\ SumAmount(S) <= SumAmount(T)
<1>1. IsFiniteSet(UNION {Cents(p) : p \in T})
  BY CentsFinite
<1>2. UNION {Cents(p) : p \in S} \subseteq UNION {Cents(p) : p \in T}
  OBVIOUS
<1>3. Cardinality(UNION {Cents(p) : p \in S}) <= Cardinality(UNION {Cents(p) : p \in T})
  BY <1>1, <1>2, FS_Subset
<1>4. IsFiniteSet(S)
  BY FS_Subset
<1> QED
  BY <1>3, <1>4, SumAmountType DEF SumAmount

\* At most n payments of at most m cents sum to at most n * m cents.
THEOREM SumAmountBound ==
  ASSUME NEW S, IsFiniteSet(S), NEW m \in Nat, \A p \in S : p.amount \in 0 .. m,
         NEW n \in Nat, Cardinality(S) <= n
  PROVE  SumAmount(S) <= n * m
<1>1. UNION {Cents(p) : p \in S} \subseteq S \X (1 .. m)
  <2>1. ASSUME NEW p \in S PROVE Cents(p) \subseteq S \X (1 .. m)
    BY DEF Cents
  <2> QED
    BY <2>1
<1>2. IsFiniteSet(1 .. m) /\ Cardinality(1 .. m) = m
  BY FS_Interval
<1>3. IsFiniteSet(S \X (1 .. m)) /\ Cardinality(S \X (1 .. m)) = Cardinality(S) * m
  BY <1>2, FS_Product
<1>4. SumAmount(S) <= Cardinality(S) * m
  BY <1>1, <1>3, FS_Subset DEF SumAmount
<1>5. Cardinality(S) \in Nat
  BY FS_CardinalityType
<1>6. SumAmount(S) \in Nat
  BY SumAmountType
<1>7. \A i, j \in Nat : i <= j => i * m <= j * m
  OBVIOUS
<1>8. Cardinality(S) * m <= n * m
  BY <1>5, <1>7
<1>9. Cardinality(S) * m \in Nat /\ n * m \in Nat
  BY <1>5
<1> QED
  BY <1>4, <1>6, <1>8, <1>9
==============================================================================
