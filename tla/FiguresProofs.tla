--------------------------- MODULE FiguresProofs ---------------------------
(***************************************************************************)
(* The figures the dashboards and the mail add up, for any finite tables.  *)
(*                                                                         *)
(* The reports fold tables with MapThenSumSet.  The first part is what the *)
(* rest needs of such sums; its induction is on finite sets, in the form   *)
(* of a smallest counterexample.  Then come the four parts that use it:    *)
(* page mappings, whose rows agree on a page's team; the sync from         *)
(* BigQuery and the traffic sheet; revenue, its snapshots and the three    *)
(* reports of it; the reports of the other Meta figures.                   *)
(*                                                                         *)
(* TeamsAgree is not inductive: it says nothing of a page while an update  *)
(* of one of its rows is under way.  Its other rows agree all the same,    *)
(* and that is.  Nor is RevenueIsReported: what it compares is equal       *)
(* because each page with rows has a team, and each snapshot of a day that *)
(* is not stale is a copy of the day's row.                                *)
(***************************************************************************)
EXTENDS Traffic, Revenue, FiniteSetTheorems, WellFoundedInduction, TLAPS

-----------------------------------------------------------------------------
(* Sums over finite sets *)

Sum(w, S) == MapThenSumSet(LAMBDA x : w[x], S)

First(S) == CHOOSE x \in S : TRUE
Rest(S) == S \ {First(S)}
Step(w, S, it) == [s \in SUBSET S |-> IF s = {} THEN 0 ELSE w[First(s)] + it[Rest(s)]]
Partial(w, S) == CHOOSE it : it = Step(w, S, it)

\* A set of finite sets that is not empty has a smallest one.
LEMMA Smallest ==
    ASSUME NEW S, IsFiniteSet(S), NEW T, T \subseteq SUBSET S, T # {}
    PROVE  \E X \in T : \A Y \in SUBSET X : Y # X => Y \notin T
<1>1. IsWellFoundedOn(StrictSubsetOrdering(S), SUBSET S)
  BY FS_StrictSubsetOrderingWellFounded, FS_FiniteSubsetsOfFinite
<1>2. \E X \in T : \A Y \in T : ~ (<<Y, X>> \in StrictSubsetOrdering(S))
  BY <1>1, WFMin
<1>3. PICK X \in T : \A Y \in T : ~ (<<Y, X>> \in StrictSubsetOrdering(S))
  BY <1>2
<1>4. ASSUME NEW Y \in SUBSET X, Y # X, Y \in T PROVE FALSE
  <2>1. X \in SUBSET S /\ Y \in SUBSET S
    OBVIOUS
  <2>2. <<Y, X>> \in StrictSubsetOrdering(S)
    BY <2>1, <1>4 DEF StrictSubsetOrdering
  <2> QED BY <1>3, <1>4, <2>2
<1> QED BY <1>3, <1>4

\* A set that is not empty has an element to begin with.
LEMMA FirstIn == ASSUME NEW S, S # {} PROVE First(S) \in S
  BY Zenon DEF First

\* The library's sum is the last of the partial sums.
LEMMA SumUnfold == ASSUME NEW w, NEW S PROVE Sum(w, S) = Partial(w, S)[S]
  BY Zenon DEF Sum, MapThenSumSet, MapThenFoldSet, Partial, Step, First, Rest

\* Only the terms matter.
LEMMA SumSame ==
    ASSUME NEW w, NEW v, NEW S, \A x \in S : w[x] = v[x]
    PROVE  Sum(w, S) = Sum(v, S)
<1>1. ASSUME NEW it PROVE Step(w, S, it) = Step(v, S, it)
  BY FirstIn DEF Step
<1>2. Partial(w, S) = Partial(v, S)
  BY <1>1, Zenon DEF Partial
<1> QED BY <1>2, SumUnfold, Zenon

\* Two partial sums agree where both are defined.
LEMMA PartialUnique ==
    ASSUME NEW w, NEW S, IsFiniteSet(S), NEW T \in SUBSET S,
           NEW f, f = Step(w, S, f), NEW g, g = Step(w, T, g)
    PROVE  \A s \in SUBSET T : f[s] = g[s]
<1> DEFINE Bad == {s \in SUBSET T : f[s] # g[s]}
<1> SUFFICES ASSUME Bad # {} PROVE FALSE
  OBVIOUS
<1>1. PICK X \in Bad : \A Y \in SUBSET X : Y # X => Y \notin Bad
  <2>1. Bad \subseteq SUBSET S
    OBVIOUS
  <2> HIDE DEF Bad
  <2> QED BY <2>1, Smallest
<1>2. f[X] = IF X = {} THEN 0 ELSE w[First(X)] + f[Rest(X)]
  <2>1. X \in SUBSET S
    OBVIOUS
  <2> QED BY <2>1 DEF Step
<1>3. g[X] = IF X = {} THEN 0 ELSE w[First(X)] + g[Rest(X)]
  BY DEF Step
<1>4. X # {}
  BY <1>2, <1>3
<1>5. Rest(X) \in SUBSET X /\ Rest(X) # X
  BY <1>4, FirstIn DEF Rest
<1>6. f[Rest(X)] = g[Rest(X)]
  BY <1>1, <1>5
<1> QED BY <1>2, <1>3, <1>4, <1>6

\* The partial sums of a finite set exist: a smallest set without any would have
\* those of its proper subsets.
LEMMA PartialExists ==
    ASSUME NEW w, NEW S, IsFiniteSet(S)
    PROVE  Partial(w, S) = Step(w, S, Partial(w, S))
<1> DEFINE Has(X) == \E it : it = Step(w, X, it)
           Bad == {X \in SUBSET S : ~Has(X)}
<1>1. ASSUME NEW X, Has(X) PROVE Partial(w, X) = Step(w, X, Partial(w, X))
  BY <1>1, Zenon DEF Partial
<1>2. SUFFICES ASSUME Bad # {} PROVE FALSE
  <2>1. S \notin Bad
    BY <1>2
  <2> QED BY <2>1, <1>1
<1>3. PICK X \in Bad : \A Y \in SUBSET X : Y # X => Y \notin Bad
  <2>1. Bad \subseteq SUBSET S
    OBVIOUS
  <2> HIDE DEF Bad
  <2> QED BY <2>1, <1>2, Smallest
<1>4. \A Y \in SUBSET X : Y # X => Has(Y)
  BY <1>3
<1> HIDE DEF Has
<1>5. ASSUME NEW Y \in SUBSET X, Y # X
      PROVE  Sum(w, Y) = IF Y = {} THEN 0 ELSE w[First(Y)] + Sum(w, Rest(Y))
  <2>1. Partial(w, Y) = Step(w, Y, Partial(w, Y))
    BY <1>1, <1>4, <1>5
  <2>2. Sum(w, Y) = IF Y = {} THEN 0 ELSE w[First(Y)] + Partial(w, Y)[Rest(Y)]
    <3>1. Step(w, Y, Partial(w, Y))[Y] = IF Y = {} THEN 0 ELSE w[First(Y)] + Partial(w, Y)[Rest(Y)]
      BY DEF Step
    <3> QED BY <2>1, <3>1, SumUnfold
  <2>3. CASE Y = {}
    BY <2>2, <2>3
  <2>4. CASE Y # {}
    <3>1. Rest(Y) \in SUBSET Y /\ Rest(Y) \in SUBSET X /\ Rest(Y) # X
      BY <2>4, FirstIn, <1>5 DEF Rest
    <3>2. Partial(w, Rest(Y)) = Step(w, Rest(Y), Partial(w, Rest(Y)))
      BY <1>1, <1>4, <3>1
    <3>3. IsFiniteSet(Y)
      BY <1>5, <1>3, FS_Subset
    <3>4. \A s \in SUBSET Rest(Y) : Partial(w, Y)[s] = Partial(w, Rest(Y))[s]
      BY <2>1, <3>1, <3>2, <3>3, PartialUnique
    <3>5. Partial(w, Y)[Rest(Y)] = Sum(w, Rest(Y))
      BY <3>4, SumUnfold
    <3> QED BY <2>2, <2>4, <3>5
  <2> QED BY <2>3, <2>4
<1> DEFINE it == [s \in SUBSET X |-> IF s = {} THEN 0 ELSE w[First(s)] + Sum(w, Rest(s))]
<1>6. ASSUME NEW s \in SUBSET X, s # {} PROVE it[Rest(s)] = Sum(w, Rest(s))
  <2>1. Rest(s) \in SUBSET X /\ Rest(s) # X
    BY <1>6, FirstIn DEF Rest
  <2>2. it[Rest(s)] = IF Rest(s) = {} THEN 0 ELSE w[First(Rest(s))] + Sum(w, Rest(Rest(s)))
    BY <2>1
  <2> HIDE DEF it
  <2> QED BY <2>1, <2>2, <1>5
<1>7. it = Step(w, X, it)
  <2>1. Step(w, X, it) = [s \in SUBSET X |-> IF s = {} THEN 0 ELSE w[First(s)] + it[Rest(s)]]
    BY DEF Step
  <2>2. \A s \in SUBSET X : s # {} => it[Rest(s)] = Sum(w, Rest(s))
    BY <1>6
  <2> QED BY <2>1, <2>2
<1>8. Has(X)
  BY <1>7 DEF Has
<1> QED BY <1>8, <1>3

\* A sum is its first term and the rest.
LEMMA SumRest ==
    ASSUME NEW w, NEW S, IsFiniteSet(S)
    PROVE  Sum(w, S) = IF S = {} THEN 0 ELSE w[First(S)] + Sum(w, Rest(S))
<1>1. Step(w, S, Partial(w, S))[S]
        = IF S = {} THEN 0 ELSE w[First(S)] + Partial(w, S)[Rest(S)]
  BY DEF Step
<1>2. Rest(S) \in SUBSET S /\ IsFiniteSet(Rest(S))
  BY FS_Subset DEF Rest
<1>3. /\ Partial(w, S) = Step(w, S, Partial(w, S))
      /\ Partial(w, Rest(S)) = Step(w, Rest(S), Partial(w, Rest(S)))
  BY <1>2, PartialExists
<1>4. \A s \in SUBSET Rest(S) : Partial(w, S)[s] = Partial(w, Rest(S))[s]
  BY <1>2, <1>3, PartialUnique
<1> QED BY <1>1, <1>3, <1>4, SumUnfold

\* Nothing adds up to 0.
LEMMA SumEmpty == ASSUME NEW w PROVE Sum(w, {}) = 0
  BY SumRest, FS_EmptySet

\* The order does not matter.
LEMMA SumTake ==
    ASSUME NEW w, NEW S, IsFiniteSet(S), NEW x \in S, \A y \in S : w[y] \in Int
    PROVE  Sum(w, S) = w[x] + Sum(w, S \ {x})
<1> DEFINE Good(X) == /\ Sum(w, X) \in Int
                      /\ \A y \in X : Sum(w, X) = w[y] + Sum(w, X \ {y})
           Bad == {X \in SUBSET S : ~Good(X)}
<1> SUFFICES ASSUME Bad # {} PROVE FALSE
  OBVIOUS
<1>1. PICK X \in Bad : \A Y \in SUBSET X : Y # X => Y \notin Bad
  <2>1. Bad \subseteq SUBSET S
    OBVIOUS
  <2> HIDE DEF Bad
  <2> QED BY <2>1, Smallest
<1>2. X \in SUBSET S /\ IsFiniteSet(X) /\ ~Good(X)
  BY <1>1, FS_Subset
<1>3. \A Y \in SUBSET X : Y # X => Good(Y)
  BY <1>1
<1> HIDE DEF Bad
<1>4. X # {}
  BY <1>2, SumEmpty
<1> DEFINE c == First(X)
<1>5. c \in X /\ Rest(X) = X \ {c}
  BY <1>4, FirstIn DEF Rest
<1> HIDE DEF c
<1>6. Good(X \ {c}) /\ w[c] \in Int
  BY <1>2, <1>3, <1>5
<1>7. Sum(w, X) = w[c] + Sum(w, X \ {c})
  BY <1>2, <1>4, <1>5, SumRest DEF c
<1>8. ASSUME NEW y \in X PROVE Sum(w, X) = w[y] + Sum(w, X \ {y})
  <2>1. CASE y = c
    BY <2>1, <1>7
  <2>2. CASE y # c
    <3>1. /\ y \in X \ {c} /\ c \in X \ {y}
          /\ (X \ {c}) \ {y} = (X \ {y}) \ {c}
          /\ Good(X \ {y}) /\ Good((X \ {c}) \ {y})
      BY <2>2, <1>3, <1>5
    <3>2. /\ Sum(w, X \ {c}) = w[y] + Sum(w, (X \ {c}) \ {y})
          /\ Sum(w, X \ {y}) = w[c] + Sum(w, (X \ {c}) \ {y})
          /\ Sum(w, (X \ {c}) \ {y}) \in Int
      BY <1>6, <3>1
    <3>3. w[y] \in Int
      BY <1>2
    <3> HIDE DEF Good
    <3> QED BY <1>6, <1>7, <3>2, <3>3
  <2> QED BY <2>1, <2>2
<1>9. Sum(w, X) \in Int
  <2> HIDE DEF c
  <2> QED BY <1>6, <1>7
<1> QED BY <1>2, <1>8, <1>9

\* A sum of integers is an integer, and at least 0 if its terms are.
LEMMA SumType ==
    ASSUME NEW w, NEW S, IsFiniteSet(S), \A y \in S : w[y] \in Int
    PROVE  /\ Sum(w, S) \in Int
           /\ (\A y \in S : w[y] >= 0) => Sum(w, S) >= 0
<1> DEFINE Good(X) == /\ Sum(w, X) \in Int
                      /\ (\A y \in S : w[y] >= 0) => Sum(w, X) >= 0
           Bad == {X \in SUBSET S : ~Good(X)}
<1> SUFFICES ASSUME Bad # {} PROVE FALSE
  OBVIOUS
<1>1. PICK X \in Bad : \A Y \in SUBSET X : Y # X => Y \notin Bad
  <2>1. Bad \subseteq SUBSET S
    OBVIOUS
  <2> HIDE DEF Bad
  <2> QED BY <2>1, Smallest
<1>2. X \in SUBSET S /\ IsFiniteSet(X) /\ ~Good(X)
  BY <1>1, FS_Subset
<1>3. \A Y \in SUBSET X : Y # X => Good(Y)
  BY <1>1
<1> HIDE DEF Bad
<1>4. PICK x : x \in X
  BY <1>2, SumEmpty
<1>5. Sum(w, X) = w[x] + Sum(w, X \ {x})
  BY <1>2, <1>4, SumTake
<1>6. Good(X \ {x}) /\ w[x] \in Int
  BY <1>2, <1>3, <1>4
<1> QED BY <1>2, <1>4, <1>5, <1>6

\* Two sets with nothing in common.
LEMMA SumUnion ==
    ASSUME NEW w, NEW A, NEW B, IsFiniteSet(A), IsFiniteSet(B), A \cap B = {},
           \A y \in A \cup B : w[y] \in Int
    PROVE  Sum(w, A \cup B) = Sum(w, A) + Sum(w, B)
<1> DEFINE Good(X) == Sum(w, X \cup B) = Sum(w, X) + Sum(w, B)
           Bad == {X \in SUBSET A : ~Good(X)}
<1> SUFFICES ASSUME Bad # {} PROVE FALSE
  OBVIOUS
<1>1. PICK X \in Bad : \A Y \in SUBSET X : Y # X => Y \notin Bad
  <2>1. Bad \subseteq SUBSET A
    OBVIOUS
  <2> HIDE DEF Bad
  <2> QED BY <2>1, Smallest
<1>2. X \in SUBSET A /\ IsFiniteSet(X) /\ ~Good(X)
  BY <1>1, FS_Subset
<1>3. \A Y \in SUBSET X : Y # X => Good(Y)
  BY <1>1
<1> HIDE DEF Bad
<1>4. Sum(w, B) \in Int
  BY SumType
<1>5. X # {}
  <2>1. {} \cup B = B
    OBVIOUS
  <2> QED BY <1>2, <1>4, <2>1, SumEmpty
<1>6. PICK x : x \in X
  BY <1>5
<1>7. Sum(w, X) = w[x] + Sum(w, X \ {x})
  BY <1>2, <1>6, SumTake
<1>8. Sum(w, X \cup B) = w[x] + Sum(w, (X \ {x}) \cup B)
  <2>1. IsFiniteSet(X \cup B) /\ x \in X \cup B
    BY <1>2, <1>6, FS_Union
  <2>2. (X \cup B) \ {x} = (X \ {x}) \cup B
    BY <1>2, <1>6
  <2>3. \A y \in X \cup B : w[y] \in Int
    BY <1>2
  <2> QED BY <2>1, <2>2, <2>3, SumTake
<1>9. Good(X \ {x}) /\ w[x] \in Int
  BY <1>2, <1>3, <1>6
<1>10. Sum(w, X \ {x}) \in Int
  <2>1. IsFiniteSet(X \ {x}) /\ \A y \in X \ {x} : w[y] \in Int
    BY <1>2, FS_Subset
  <2> QED BY <2>1, SumType
<1> QED BY <1>2, <1>4, <1>7, <1>8, <1>9, <1>10

PartOf(S, f, k) == {y \in S : f[y] = k}

\* Part by part: v[k] is what the elements of S in part k add up to.
LEMMA SumParts ==
    ASSUME NEW w, NEW S, IsFiniteSet(S), \A y \in S : w[y] \in Int,
           NEW K, IsFiniteSet(K), NEW f, \A y \in S : f[y] \in K,
           NEW v, \A k \in K : v[k] = Sum(w, PartOf(S, f, k))
    PROVE  Sum(v, K) = Sum(w, S)
<1> DEFINE In(X) == {y \in S : f[y] \in X}
           Good(X) == Sum(v, X) = Sum(w, In(X))
           Bad == {X \in SUBSET K : ~Good(X)}
<1>1. SUFFICES ASSUME Bad # {} PROVE FALSE
  <2>1. In(K) = S /\ K \notin Bad
    BY <1>1
  <2> QED BY <2>1
<1>2. PICK X \in Bad : \A Y \in SUBSET X : Y # X => Y \notin Bad
  <2>1. Bad \subseteq SUBSET K
    OBVIOUS
  <2> HIDE DEF Bad
  <2> QED BY <2>1, <1>1, Smallest
<1>3. X \in SUBSET K /\ IsFiniteSet(X) /\ ~Good(X)
  BY <1>2, FS_Subset
<1>4. \A Y \in SUBSET X : Y # X => Good(Y)
  BY <1>2
<1> HIDE DEF Bad
<1>5. X # {}
  <2>1. In({}) = {}
    OBVIOUS
  <2> QED BY <1>3, <2>1, SumEmpty
<1>6. PICK x : x \in X
  BY <1>5
<1> DEFINE part == {y \in S : f[y] = x}
<1>7. ASSUME NEW T \in SUBSET S
      PROVE  IsFiniteSet(T) /\ Sum(w, T) \in Int /\ \A y \in T : w[y] \in Int
  BY <1>7, FS_Subset, SumType
<1>8. \A k \in X : v[k] \in Int
  <2>1. ASSUME NEW k \in X PROVE v[k] \in Int
    <3>1. PartOf(S, f, k) \in SUBSET S /\ k \in K
      BY <1>3 DEF PartOf
    <3> QED BY <3>1, <1>7
  <2> QED BY <2>1
<1>9. Sum(v, X) = v[x] + Sum(v, X \ {x})
  BY <1>3, <1>6, <1>8, SumTake
<1>10. Sum(w, In(X)) = Sum(w, part) + Sum(w, In(X \ {x}))
  <2>1. /\ In(X) = part \cup In(X \ {x}) /\ part \cap In(X \ {x}) = {}
        /\ part \in SUBSET S /\ In(X \ {x}) \in SUBSET S
    BY <1>6
  <2>2. /\ IsFiniteSet(part) /\ IsFiniteSet(In(X \ {x}))
        /\ \A y \in part \cup In(X \ {x}) : w[y] \in Int
    BY <2>1, <1>7
  <2>3. ASSUME NEW A, NEW B, IsFiniteSet(A), IsFiniteSet(B), A \cap B = {},
               \A y \in A \cup B : w[y] \in Int
        PROVE  Sum(w, A \cup B) = Sum(w, A) + Sum(w, B)
    BY <2>3, SumUnion
  <2>4. Sum(w, part \cup In(X \ {x})) = Sum(w, part) + Sum(w, In(X \ {x}))
    BY <2>1, <2>2, <2>3
  <2> QED BY <2>1, <2>4
<1>11. v[x] = Sum(w, part)
  BY <1>3, <1>6 DEF PartOf
<1>12. Good(X \ {x})
  BY <1>4, <1>6
<1> QED BY <1>3, <1>9, <1>10, <1>11, <1>12

\* A sum of one term.
LEMMA SumOne == ASSUME NEW w, NEW x, w[x] \in Int PROVE Sum(w, {x}) = w[x]
<1>1. IsFiniteSet({x}) /\ {x} \ {x} = {}
  BY FS_Singleton
<1> QED BY <1>1, SumTake, SumEmpty

\* A sum of zeros.
LEMMA SumZero ==
    ASSUME NEW w, NEW S, IsFiniteSet(S), \A y \in S : w[y] = 0
    PROVE  Sum(w, S) = 0
<1> DEFINE Good(X) == Sum(w, X) = 0
           Bad == {X \in SUBSET S : ~Good(X)}
<1> SUFFICES ASSUME Bad # {} PROVE FALSE
  OBVIOUS
<1>1. PICK X \in Bad : \A Y \in SUBSET X : Y # X => Y \notin Bad
  <2>1. Bad \subseteq SUBSET S
    OBVIOUS
  <2> HIDE DEF Bad
  <2> QED BY <2>1, Smallest
<1>2. X \in SUBSET S /\ IsFiniteSet(X) /\ ~Good(X)
  BY <1>1, FS_Subset
<1>3. PICK x : x \in X
  BY <1>2, SumEmpty
<1>4. Sum(w, X) = w[x] + Sum(w, X \ {x})
  BY <1>2, <1>3, SumTake
<1>5. Good(X \ {x})
  BY <1>1, <1>3
<1> QED BY <1>2, <1>3, <1>4, <1>5

\* Two sums at once.
LEMMA SumPlus ==
    ASSUME NEW K, IsFiniteSet(K), NEW f, NEW g, NEW h,
           \A k \in K : f[k] \in Int /\ g[k] \in Int /\ h[k] = f[k] + g[k]
    PROVE  Sum(h, K) = Sum(f, K) + Sum(g, K)
<1> DEFINE Good(X) == Sum(h, X) = Sum(f, X) + Sum(g, X)
           Bad == {X \in SUBSET K : ~Good(X)}
<1> SUFFICES ASSUME Bad # {} PROVE FALSE
  OBVIOUS
<1>1. PICK X \in Bad : \A Y \in SUBSET X : Y # X => Y \notin Bad
  <2>1. Bad \subseteq SUBSET K
    OBVIOUS
  <2> HIDE DEF Bad
  <2> QED BY <2>1, Smallest
<1>2. X \in SUBSET K /\ IsFiniteSet(X) /\ ~Good(X)
  BY <1>1, FS_Subset
<1>3. PICK x : x \in X
  <2>1. Sum(f, {}) = 0 /\ Sum(g, {}) = 0 /\ Sum(h, {}) = 0
    BY SumEmpty
  <2>2. Good({})
    BY <2>1
  <2> HIDE DEF Good, Bad
  <2> QED BY <1>2, <2>2
<1>4. \A k \in X : f[k] \in Int /\ g[k] \in Int /\ h[k] \in Int
  BY <1>2
<1>5. /\ Sum(h, X) = h[x] + Sum(h, X \ {x})
      /\ Sum(f, X) = f[x] + Sum(f, X \ {x})
      /\ Sum(g, X) = g[x] + Sum(g, X \ {x})
  BY <1>2, <1>3, <1>4, SumTake
<1>6. Good(X \ {x})
  BY <1>1, <1>3
<1>7. Sum(f, X \ {x}) \in Int /\ Sum(g, X \ {x}) \in Int
  <2>1. IsFiniteSet(X \ {x}) /\ \A k \in X \ {x} : f[k] \in Int /\ g[k] \in Int
    BY <1>2, <1>4, FS_Subset
  <2> QED BY <2>1, SumType
<1>8. h[x] = f[x] + g[x] /\ f[x] \in Int /\ g[x] \in Int
  BY <1>2, <1>3
<1> QED BY <1>2, <1>5, <1>6, <1>7, <1>8

-----------------------------------------------------------------------------
(* Page mappings: the invariant *)

\* An update that has yet to set the team of the page row id is on.
Owes(q, id) ==
    /\ patch[q].at = id
    /\ \/ patch[q].pc = "find"
       \/ patch[q].pc = "cascade" /\ patch[q].page = mapping[id].page

Settled(id) == \A q \in Requests : ~Owes(q, id)

SettledAgree ==
    \A page \in Pages : page \notin mixed =>
      \A x \in RowsOfPage(page), y \in RowsOfPage(page) :
        Settled(x) /\ Settled(y) => mapping[x].team = mapping[y].team

FindsARow == \A q \in Requests : patch[q].pc = "find" => patch[q].at \in Ids

PagesInv == PagesTypeOK /\ FindsARow /\ SettledAgree

Patches == [pc : {"none", "find", "cascade", "over"}, at : Ids \cup {NoPage},
            page : Pages \cup {NoPage}, team : AnyTeam]
MappingRows == [page : Pages \cup {NoPage}, team : AnyTeam]

\* The constants of the model are typed.
LEMMA PatchRecords == NewPatch \in Patches /\ Over \in Patches /\ Gone \in MappingRows
  BY DEF NewPatch, Over, Gone, Patches, MappingRows, AnyTeam

\* A fresh sequence has no rows: all of them agree.
LEMMA PagesStart == PagesInit => PagesInv
<1> SUFFICES ASSUME PagesInit PROVE PagesInv
  OBVIOUS
<1>1. PagesTypeOK
  BY PatchRecords, PageFaultsAssumption DEF PagesInit, PagesTypeOK, Patches, MappingRows
<1>2. ASSUME NEW page \in Pages PROVE RowsOfPage(page) = {}
  BY NamesAssumption DEF PagesInit, RowsOfPage, Gone
<1>3. SettledAgree
  BY <1>2 DEF SettledAgree
<1>4. FindsARow
  BY DEF FindsARow, PagesInit, NewPatch
<1> QED
  BY <1>1, <1>3, <1>4 DEF PagesInv

\* create and importFromCSV mark the page their rows are on; other pages have
\* the rows they had.
LEMMA InsertKeeps ==
  ASSUME PagesInv, NEW S \in SUBSET Ids, NEW page \in Pages, NEW tm \in AnyTeam,
         Insert(S, page, tm)
  PROVE  PagesInv'
<1>0. FindsARow'
  BY DEF FindsARow, PagesInv, PagesTypeOK, Insert
<1>1. PagesTypeOK'
  BY DEF PagesInv, PagesTypeOK, Insert
<1>2. SUFFICES ASSUME NEW p \in Pages, p \notin mixed',
                      NEW x \in RowsOfPage(p)', NEW y \in RowsOfPage(p)',
                      Settled(x)', Settled(y)'
               PROVE  mapping'[x].team = mapping'[y].team
  BY <1>1, <1>0 DEF PagesInv, SettledAgree
<1>3. p # page /\ p \notin mixed
  BY <1>2 DEF Insert, PagesInv, PagesTypeOK
<1>4. /\ x \in Ids /\ y \in Ids
      /\ mapping'[x] = mapping[x] /\ mapping'[y] = mapping[y]
  BY <1>2, <1>3 DEF Insert, RowsOfPage
<1>5. x \in RowsOfPage(p) /\ y \in RowsOfPage(p)
  BY <1>2, <1>4 DEF RowsOfPage
<1>6. Settled(x) /\ Settled(y)
  BY <1>2, <1>4 DEF Settled, Owes, Insert
<1> QED
  BY <1>3, <1>4, <1>5, <1>6 DEF PagesInv, SettledAgree

\* A row that goes away leaves the others as they were.
LEMMA RemoveKeeps ==
  ASSUME PagesInv, NEW id \in Ids, Remove(id)
  PROVE  PagesInv'
<1>0. FindsARow'
  BY DEF FindsARow, PagesInv, PagesTypeOK, Remove
<1>1. PagesTypeOK'
  BY PatchRecords DEF PagesInv, PagesTypeOK, Remove, MappingRows
<1>2. SUFFICES ASSUME NEW p \in Pages, p \notin mixed',
                      NEW x \in RowsOfPage(p)', NEW y \in RowsOfPage(p)',
                      Settled(x)', Settled(y)'
               PROVE  mapping'[x].team = mapping'[y].team
  BY <1>1, <1>0 DEF PagesInv, SettledAgree
<1>3. \A r \in Ids : r # id => mapping'[r] = mapping[r]
  BY DEF Remove, PagesInv, PagesTypeOK
<1>4. mapping'[id].page = NoPage
  BY DEF Remove, PagesInv, PagesTypeOK, Gone
<1>5. x \in Ids /\ y \in Ids /\ x # id /\ y # id
  BY <1>2, <1>4, NamesAssumption DEF RowsOfPage
<1>6. /\ x \in RowsOfPage(p) /\ y \in RowsOfPage(p)
      /\ Settled(x) /\ Settled(y) /\ p \notin mixed
  BY <1>2, <1>3, <1>5 DEF RowsOfPage, Settled, Owes, Remove
<1> QED
  BY <1>3, <1>5, <1>6 DEF PagesInv, SettledAgree

\* The row a PATCH writes is not settled until its cascade; no other changes.
LEMMA WriteRowKeeps ==
  ASSUME PagesInv, NEW q \in Requests, NEW id \in Ids, NEW page \in Pages,
         NEW tm \in AnyTeam, WriteRow(q, id, page, tm)
  PROVE  PagesInv'
<1>0. FindsARow'
  BY DEF FindsARow, PagesInv, PagesTypeOK, WriteRow, NewPatch
<1>1. patch'[q] \in Patches /\ patch'[q].pc = "find" /\ patch'[q].at = id
  BY DEF WriteRow, PagesInv, PagesTypeOK, Patches, NewPatch, AnyTeam
<1>2. \A p \in Requests : p # q => patch'[p] = patch[p]
  BY DEF WriteRow, PagesInv, PagesTypeOK
<1>3. \A r \in Ids : r # id => mapping'[r] = mapping[r]
  BY DEF WriteRow, PagesInv, PagesTypeOK
<1>4. PagesTypeOK'
  <2>1. patch' \in [Requests -> Patches]
    BY <1>1 DEF WriteRow, PagesInv, PagesTypeOK, Patches
  <2> QED
    BY <2>1 DEF WriteRow, PagesInv, PagesTypeOK, Patches
<1>5. SUFFICES ASSUME NEW p \in Pages, p \notin mixed',
                      NEW x \in RowsOfPage(p)', NEW y \in RowsOfPage(p)',
                      Settled(x)', Settled(y)'
               PROVE  mapping'[x].team = mapping'[y].team
  BY <1>4, <1>0 DEF PagesInv, SettledAgree
<1>6. x \in Ids /\ y \in Ids /\ x # id /\ y # id
  BY <1>1, <1>5 DEF Settled, Owes, RowsOfPage
<1>7. ASSUME NEW r \in Ids, r # id, Settled(r)' PROVE Settled(r)
  <2> SUFFICES ASSUME NEW o \in Requests, Owes(o, r) PROVE FALSE
    BY DEF Settled
  <2>1. o # q
    BY DEF Owes, WriteRow
  <2>2. Owes(o, r)'
    BY <2>1, <1>2, <1>3, <1>7 DEF Owes
  <2> QED
    BY <2>2, <1>7 DEF Settled
<1>8. x \in RowsOfPage(p) /\ y \in RowsOfPage(p) /\ p \notin mixed
  BY <1>3, <1>5, <1>6 DEF RowsOfPage, WriteRow
<1> QED
  BY <1>3, <1>5, <1>6, <1>7, <1>8 DEF PagesInv, SettledAgree

\* Steps that leave the rows alone keep the invariant if a row that is settled
\* after them, on a page that is not marked, was so before.
LEMMA SameRows ==
  ASSUME PagesInv, PagesTypeOK', FindsARow', UNCHANGED mapping, mixed \subseteq mixed',
         \A page \in Pages, id \in Ids :
            page \notin mixed' /\ mapping[id].page = page /\ Settled(id)' => Settled(id)
  PROVE  PagesInv'
<1> SUFFICES ASSUME NEW p \in Pages, p \notin mixed',
                    NEW x \in RowsOfPage(p)', NEW y \in RowsOfPage(p)',
                    Settled(x)', Settled(y)'
             PROVE  mapping'[x].team = mapping'[y].team
  BY DEF PagesInv, SettledAgree
<1>1. x \in RowsOfPage(p) /\ y \in RowsOfPage(p) /\ p \notin mixed
  BY DEF RowsOfPage
<1>2. Settled(x) /\ Settled(y)
  BY <1>1 DEF RowsOfPage
<1> QED
  BY <1>1, <1>2 DEF PagesInv, SettledAgree

\* The row is read back: the page it is on now is the one the update owes.
LEMMA FindRowKeeps ==
  ASSUME PagesInv, NEW q \in Requests, FindRow(q)
  PROVE  PagesInv'
<1> DEFINE page == mapping[patch[q].at].page
<1>0. FindsARow'
  BY DEF FindsARow, PagesInv, PagesTypeOK, FindRow, Over, NewPatch
<1>1. patch[q] \in Patches /\ patch[q].pc = "find" /\ UNCHANGED <<mapping, mixed, used, faults>>
  BY DEF FindRow, PagesInv, PagesTypeOK, Patches
<1>2. patch'[q] = IF page = NoPage THEN Over
                  ELSE [patch[q] EXCEPT !.pc = "cascade", !.page = page]
  BY DEF FindRow, PagesInv, PagesTypeOK
<1>3. \A p \in Requests : p # q => patch'[p] = patch[p]
  BY DEF FindRow, PagesInv, PagesTypeOK
<1>4. ASSUME NEW id \in Ids, mapping[id].page \in Pages, Owes(q, id) PROVE Owes(q, id)'
  <2>1. patch[q].at = id /\ page # NoPage
    BY <1>4, NamesAssumption DEF Owes
  <2>2. patch'[q].at = id /\ patch'[q].pc = "cascade" /\ patch'[q].page = page
    BY <1>1, <1>2, <2>1 DEF Patches
  <2> QED
    BY <1>1, <2>1, <2>2 DEF Owes
<1>5. PagesTypeOK'
  <2>1. page # NoPage => patch[q].at \in Ids /\ page \in Pages
    BY <1>1, <1>2 DEF Patches, PagesInv, PagesTypeOK, FindsARow
  <2>2. patch'[q] \in Patches
    BY <1>1, <1>2, <2>1, PatchRecords DEF Patches
  <2>3. patch' \in [Requests -> Patches]
    BY <2>2 DEF FindRow, PagesInv, PagesTypeOK, Patches
  <2> QED
    BY <1>1, <2>3 DEF PagesInv, PagesTypeOK, Patches
<1>6. \A p \in Pages, id \in Ids :
         mapping[id].page = p /\ Settled(id)' => Settled(id)
  BY <1>1, <1>3, <1>4 DEF Settled, Owes
<1> QED
  BY <1>1, <1>5, <1>6, <1>0, SameRows

\* A batch owes nothing: it writes no row before its cascade.
LEMMA BeginBatchKeeps ==
  ASSUME PagesInv, NEW q \in Requests, NEW id \in Ids, NEW tm \in AnyTeam,
         BeginBatch(q, id, tm)
  PROVE  PagesInv'
<1>0. FindsARow'
  BY DEF FindsARow, PagesInv, PagesTypeOK, BeginBatch, NewPatch
<1>1. UNCHANGED <<mapping, mixed, used, faults>> /\ patch[q].pc = "none"
  BY DEF BeginBatch
<1>2. PagesTypeOK'
  <2>1. mapping[id].page \in Pages \cup {NoPage}
    BY DEF PagesInv, PagesTypeOK
  <2>2. [NewPatch EXCEPT !.pc = "cascade", !.page = mapping[id].page, !.team = tm] \in Patches
    BY <2>1, PatchRecords DEF Patches
  <2>3. patch' \in [Requests -> Patches]
    BY <2>2 DEF BeginBatch, PagesInv, PagesTypeOK, Patches
  <2> QED
    BY <1>1, <2>3 DEF PagesInv, PagesTypeOK, Patches
<1>3. \A p \in Requests : p # q => patch'[p] = patch[p]
  BY DEF BeginBatch, PagesInv, PagesTypeOK
<1>4. \A r \in Ids : ~Owes(q, r)
  BY <1>1 DEF Owes
<1>5. \A p \in Pages, r \in Ids : mapping[r].page = p /\ Settled(r)' => Settled(r)
  BY <1>1, <1>3, <1>4 DEF Settled, Owes
<1> QED
  BY <1>1, <1>2, <1>5, <1>0, SameRows

\* All rows of one page get one team; those of other pages keep theirs, and no
\* row of another page waited for this update.
LEMMA CascadeKeeps ==
  ASSUME PagesInv, NEW q \in Requests, UpdateTeamByPageName(q)
  PROVE  PagesInv'
<1> DEFINE page == patch[q].page
<1>0. FindsARow'
  BY DEF FindsARow, PagesInv, PagesTypeOK, UpdateTeamByPageName, Over, NewPatch
<1>1. /\ patch[q] \in Patches /\ patch[q].pc = "cascade"
      /\ mapping' = [id \in Ids |->
            IF mapping[id].page = page THEN [mapping[id] EXCEPT !.team = patch[q].team]
            ELSE mapping[id]]
      /\ mixed' = mixed \ {page} /\ UNCHANGED <<used, faults>>
  BY DEF UpdateTeamByPageName, PagesInv, PagesTypeOK, Patches
<1>2. \A p \in Requests : p # q => patch'[p] = patch[p]
  BY DEF UpdateTeamByPageName, PagesInv, PagesTypeOK
<1>3. mapping \in [Ids -> MappingRows]
  BY DEF PagesInv, PagesTypeOK, MappingRows
<1>4. \A id \in Ids :
         /\ mapping'[id].page = mapping[id].page
         /\ mapping'[id].team = IF mapping[id].page = page THEN patch[q].team
                                ELSE mapping[id].team
  BY <1>1, <1>3 DEF MappingRows
<1>5. PagesTypeOK'
  <2>1. \A id \in Ids : [mapping[id] EXCEPT !.team = patch[q].team] \in MappingRows
    BY <1>1, <1>3 DEF MappingRows, Patches
  <2>2. mapping' \in [Ids -> MappingRows]
    BY <1>1, <1>3, <2>1
  <2>3. patch' \in [Requests -> Patches]
    BY PatchRecords DEF UpdateTeamByPageName, PagesInv, PagesTypeOK, Patches
  <2> QED
    BY <1>1, <2>2, <2>3 DEF PagesInv, PagesTypeOK, Patches, MappingRows
<1>6. SUFFICES ASSUME NEW p \in Pages, p \notin mixed',
                      NEW x \in RowsOfPage(p)', NEW y \in RowsOfPage(p)',
                      Settled(x)', Settled(y)'
               PROVE  mapping'[x].team = mapping'[y].team
  BY <1>5, <1>0 DEF PagesInv, SettledAgree
<1>7. x \in RowsOfPage(p) /\ y \in RowsOfPage(p)
  BY <1>4, <1>6 DEF RowsOfPage
<1>8. CASE p = page
  BY <1>4, <1>7, <1>8 DEF RowsOfPage
<1>9. CASE p # page
  <2>1. p \notin mixed
    BY <1>1, <1>6, <1>9
  <2>2. ASSUME NEW r \in RowsOfPage(p), Settled(r)' PROVE Settled(r)
    <3>1. r \in Ids /\ mapping[r].page = p /\ mapping'[r].page = p
      BY <1>4, <2>2 DEF RowsOfPage
    <3>2. ~Owes(q, r)
      BY <1>1, <1>9, <3>1 DEF Owes
    <3> QED
      BY <1>2, <2>2, <3>1, <3>2 DEF Settled, Owes
  <2>3. mapping[x].team = mapping[y].team
    BY <1>6, <1>7, <2>1, <2>2 DEF PagesInv, SettledAgree
  <2> QED
    BY <1>4, <1>7, <1>9, <2>3 DEF RowsOfPage
<1> QED
  BY <1>8, <1>9

\* An update that fails marks the page of every row it still owed.
LEMMA PatchFailsKeeps ==
  ASSUME PagesInv, NEW q \in Requests, PatchFails(q)
  PROVE  PagesInv'
<1>0. FindsARow'
  BY DEF FindsARow, PagesInv, PagesTypeOK, PatchFails, Over, NewPatch
<1>1. /\ UNCHANGED <<mapping, used>> /\ mixed' = mixed \cup Pending(q)
      /\ faults < MaxFaults /\ faults' = faults + 1
  BY DEF PatchFails
<1>2. \A p \in Requests : p # q => patch'[p] = patch[p]
  BY DEF PatchFails, PagesInv, PagesTypeOK
<1>3. PagesTypeOK'
  <2>1. patch' \in [Requests -> Patches]
    BY PatchRecords DEF PatchFails, PagesInv, PagesTypeOK, Patches
  <2>2. mixed' \subseteq Pages
    BY <1>1 DEF Pending, PagesInv, PagesTypeOK
  <2>3. faults' \in 0..MaxFaults
    BY <1>1, PageFaultsAssumption DEF PagesInv, PagesTypeOK
  <2> QED
    BY <1>1, <2>1, <2>2, <2>3 DEF PagesInv, PagesTypeOK, Patches
<1>4. \A p \in Pages, id \in Ids : mapping[id].page = p /\ Owes(q, id) => p \in mixed'
  BY <1>1, NamesAssumption DEF Owes, Pending
<1>5. \A p \in Pages, id \in Ids :
         p \notin mixed' /\ mapping[id].page = p /\ Settled(id)' => Settled(id)
  BY <1>1, <1>2, <1>4 DEF Settled, Owes
<1> QED
  BY <1>1, <1>3, <1>5, <1>0, SameRows

\* Every edit keeps the invariant.
LEMMA PagesStep == PagesInv /\ [Edit]_pageVars => PagesInv'
<1> SUFFICES ASSUME PagesInv, [Edit]_pageVars PROVE PagesInv'
  OBVIOUS
<1>1. ASSUME NEW S \in SUBSET Ids, NEW page \in Pages, NEW tm \in AnyTeam,
             Insert(S, page, tm)
      PROVE  PagesInv'
  BY <1>1, InsertKeeps
<1>2. ASSUME NEW id \in Ids, Remove(id) PROVE PagesInv'
  BY <1>2, RemoveKeeps
<1>3. ASSUME NEW q \in Requests, NEW id \in Ids, NEW page \in Pages, NEW tm \in AnyTeam,
             WriteRow(q, id, page, tm)
      PROVE  PagesInv'
  BY <1>3, WriteRowKeeps
<1>4. ASSUME NEW q \in Requests, NEW id \in Ids, NEW tm \in AnyTeam,
             BeginBatch(q, id, tm)
      PROVE  PagesInv'
  BY <1>4, BeginBatchKeeps
<1>5. ASSUME NEW q \in Requests, FindRow(q) \/ UpdateTeamByPageName(q) \/ PatchFails(q)
      PROVE  PagesInv'
  BY <1>5, FindRowKeeps, CascadeKeeps, PatchFailsKeeps
<1>6. CASE UNCHANGED pageVars
  BY <1>6 DEF pageVars, PagesInv, PagesTypeOK, FindsARow, SettledAgree, Settled, Owes,
              RowsOfPage
<1> QED
  BY <1>1, <1>2, <1>3, <1>4, <1>5, <1>6 DEF Edit

\* Where no update is under way every row is settled.
LEMMA SettledIsEnough == PagesInv => TeamsAgree
<1> SUFFICES ASSUME PagesInv, NEW page \in Pages, page \notin mixed,
                    \A q \in Requests : page \notin Pending(q)
             PROVE  Cardinality({mapping[id].team : id \in RowsOfPage(page)}) <= 1
  BY DEF TeamsAgree
<1> DEFINE teams == {mapping[id].team : id \in RowsOfPage(page)}
<1>1. ASSUME NEW id \in RowsOfPage(page) PROVE Settled(id)
  BY <1>1, NamesAssumption DEF Settled, Owes, Pending, RowsOfPage
<1>2. \A x \in RowsOfPage(page), y \in RowsOfPage(page) : mapping[x].team = mapping[y].team
  BY <1>1 DEF PagesInv, SettledAgree
<1>3. \A x \in teams, y \in teams : x = y
  BY <1>2
<1> HIDE DEF teams
<1>4. Cardinality(teams) <= 1
  <2>1. CASE teams = {}
    BY <2>1, FS_EmptySet
  <2>2. ASSUME NEW x \in teams PROVE Cardinality(teams) <= 1
    <3>1. teams = {x}
      BY <1>3, <2>2
    <3>2. Cardinality({x}) = 1
      BY FS_Singleton
    <3> QED
      BY <3>1, <3>2
  <2> QED
    BY <2>1, <2>2
<1> QED
  BY <1>4 DEF teams

-----------------------------------------------------------------------------
(* Page mappings: the theorems *)

\* The rows, updates and marks of page_mappings have their types, whatever
\* edits of PageMappingsController overlap.
THEOREM PagesTypeCorrect == PagesSpec => []PagesTypeOK
<1>1. PagesInv => PagesTypeOK
  BY DEF PagesInv
<1> QED
  BY <1>1, PagesStart, PagesStep, PTL DEF PagesSpec

\* "Every row for a page always has the same team": but for the cases TeamsAgree
\* names, the cascade of PageMappingsService keeps it in any number of
\* overlapping creates, imports, renames, batches, deletions and failures.
THEOREM PagesAgree == PagesSpec => []TeamsAgree
<1> QED
  BY PagesStart, PagesStep, SettledIsEnough, PTL DEF PagesSpec

-----------------------------------------------------------------------------
(* Traffic: the sync *)

Runs == [pc : {"none", "read", "done", "failed"},
         result : SUBSET SourceRows, left : SUBSET SourceRows]

\* A run has read what is no longer left; one that has not begun, nothing.
RunsInv ==
    /\ arrived \subseteq SourceRows
    /\ daily \in [Keys -> SUBSET SourceRows]
    /\ sync \in [Syncs -> Runs]
    /\ \A s \in Syncs :
          /\ sync[s].left \subseteq sync[s].result
          /\ sync[s].pc = "none" => sync[s].result = {}
          /\ sync[s].pc = "done" => sync[s].left = {}

\* A key's row sums up rows of the key only.
OwnRows == \A k \in Keys : daily[k] \subseteq OfKey(SourceRows, k)

\* What a key has that was never cut in two, some query found, and all of it.
OneQuery ==
    \A k \in Keys \ split :
      daily[k] = {} \/ \E s \in Syncs : daily[k] = OfKey(sync[s].result, k)

Alone(s) == \A t \in Syncs \ {s} : sync[t].pc = "none"

\* A run that is alone has stored every key it has no rows left of.
AllStored ==
    \A s \in Syncs, k \in Keys \ split :
      sync[s].pc \in {"read", "done"} /\ Alone(s) /\ k \notin RowKeys(sync[s].left)
        => daily[k] = OfKey(sync[s].result, k)

SyncInv == RunsInv /\ OwnRows /\ OneQuery /\ AllStored

\* Before any sync nothing is stored.
LEMMA SyncStart == TrafficInit => SyncInv
<1> SUFFICES ASSUME TrafficInit PROVE SyncInv
  OBVIOUS
<1>1. RunsInv
  BY OldRowsAssumption DEF TrafficInit, RunsInv, Runs
<1>2. OwnRows /\ OneQuery /\ AllStored
  BY DEF TrafficInit, OwnRows, OneQuery, AllStored
<1> QED BY <1>1, <1>2 DEF SyncInv

\* A query that finds all there is.
LEMMA StartSyncKeeps ==
    ASSUME SyncInv, NEW s \in Syncs, StartSync(s)
    PROVE  SyncInv'
<1> USE DEF SyncInv
<1>1. /\ sync[s].pc = "none" /\ sync[s].result = {}
      /\ sync' = [sync EXCEPT ![s] = [pc |-> "read", result |-> arrived, left |-> arrived]]
      /\ UNCHANGED <<arrived, daily, split>>
  BY DEF StartSync, RunsInv
<1>2. RunsInv'
  BY <1>1 DEF RunsInv, Runs
<1>3. OwnRows'
  BY <1>1 DEF OwnRows
<1>4. /\ sync'[s] = [pc |-> "read", result |-> arrived, left |-> arrived]
      /\ \A t \in Syncs : t # s => sync'[t] = sync[t]
  BY <1>1 DEF RunsInv
<1>5. OneQuery'
  <2> SUFFICES ASSUME NEW k \in Keys \ split, daily[k] # {}
               PROVE  \E t \in Syncs : daily[k] = OfKey(sync'[t].result, k)
    BY <1>1 DEF OneQuery
  <2>1. PICK t \in Syncs : daily[k] = OfKey(sync[t].result, k)
    BY DEF OneQuery
  <2>2. t # s
    BY <1>1, <2>1 DEF OfKey
  <2> QED BY <1>4, <2>1, <2>2
<1>6. AllStored'
  <2> SUFFICES ASSUME NEW t \in Syncs, NEW k \in Keys \ split,
                      sync'[t].pc \in {"read", "done"}, Alone(t)',
                      k \notin RowKeys(sync'[t].left)
               PROVE  daily[k] = OfKey(sync'[t].result, k)
    BY <1>1 DEF AllStored
  <2>1. t = s
    BY <1>4 DEF Alone
  <2>2. \A u \in Syncs : sync[u].pc = "none" /\ sync[u].result = {}
    BY <1>1, <1>4, <2>1 DEF Alone, RunsInv
  <2>3. daily[k] = {}
    BY <2>2 DEF OneQuery, OfKey
  <2>4. OfKey(sync'[t].result, k) = {}
    BY <1>4, <2>1 DEF RowKeys, OfKey
  <2> QED BY <2>3, <2>4
<1> QED BY <1>2, <1>3, <1>5, <1>6

\* One batch of what is left: with it, or with the last of them, the run goes on
\* or is over.
LEMMA FlushKeeps ==
    ASSUME SyncInv, NEW s \in Syncs, NEW B \in SUBSET sync[s].left, NEW pc \in {"read", "done"},
           sync[s].pc = "read", Flush(s, B), pc = "done" => B = sync[s].left,
           sync' = [sync EXCEPT ![s].left = sync[s].left \ B, ![s].pc = pc]
    PROVE  SyncInv'
<1> USE DEF SyncInv
<1>1. /\ daily' = [k \in Keys |-> IF k \in RowKeys(B) THEN OfKey(B, k) ELSE daily[k]]
      /\ split' = split \cup (RowKeys(B) \cap RowKeys(sync[s].result \ B))
      /\ UNCHANGED arrived
  BY DEF Flush, SumUp
<1>2. /\ sync'[s].pc = pc /\ sync'[s].left = sync[s].left \ B
      /\ \A t \in Syncs : t # s => sync'[t] = sync[t]
      /\ \A t \in Syncs : sync'[t].result = sync[t].result
      /\ sync' \in [Syncs -> Runs]
  BY DEF RunsInv, Runs
<1>3. B \subseteq sync[s].result /\ sync[s].result \subseteq SourceRows
  BY DEF RunsInv, Runs
<1>4. RunsInv'
  <2>1. daily' \in [Keys -> SUBSET SourceRows]
    BY <1>1, <1>3 DEF RunsInv, OfKey
  <2> QED BY <1>1, <1>2, <2>1 DEF RunsInv
<1>5. OwnRows'
  BY <1>1, <1>3 DEF OwnRows, OfKey
<1>6. ASSUME NEW k \in Keys \ split', k \in RowKeys(B)
      PROVE  daily'[k] = OfKey(sync[s].result, k)
  <2>1. k \notin RowKeys(sync[s].result \ B)
    BY <1>1, <1>6
  <2>2. OfKey(B, k) = OfKey(sync[s].result, k)
    BY <1>3, <2>1 DEF RowKeys, OfKey
  <2> QED BY <1>1, <1>6, <2>2
<1>7. OneQuery'
  <2> SUFFICES ASSUME NEW k \in Keys \ split'
               PROVE  daily'[k] = {} \/ \E t \in Syncs : daily'[k] = OfKey(sync[t].result, k)
    BY <1>2 DEF OneQuery
  <2>1. CASE k \in RowKeys(B)
    BY <1>6, <2>1
  <2>2. CASE k \notin RowKeys(B)
    BY <1>1, <2>2 DEF OneQuery
  <2> QED BY <2>1, <2>2
<1>8. AllStored'
  <2> SUFFICES ASSUME NEW t \in Syncs, NEW k \in Keys \ split',
                      sync'[t].pc \in {"read", "done"}, Alone(t)',
                      k \notin RowKeys(sync'[t].left)
               PROVE  daily'[k] = OfKey(sync[t].result, k)
    BY <1>2 DEF AllStored
  <2>1. t = s
    BY <1>2 DEF Alone
  <2>2. Alone(s)
    BY <1>2, <2>1 DEF Alone
  <2>3. CASE k \in RowKeys(B)
    BY <1>6, <2>1, <2>3
  <2>4. CASE k \notin RowKeys(B)
    <3>1. k \notin RowKeys(sync[s].left)
      BY <1>2, <2>1, <2>4 DEF RowKeys
    <3> QED BY <1>1, <2>1, <2>2, <2>4, <3>1 DEF AllStored
  <2> QED BY <2>3, <2>4
<1> QED BY <1>4, <1>5, <1>7, <1>8

\* A failed run never counts as done.
LEMMA SyncFailsKeeps ==
    ASSUME SyncInv, NEW s \in Syncs, SyncFails(s)
    PROVE  SyncInv'
<1> USE DEF SyncInv
<1>1. /\ sync'[s].pc = "failed" /\ sync'[s].left = {}
      /\ \A t \in Syncs : t # s => sync'[t] = sync[t]
      /\ \A t \in Syncs : sync'[t].result = sync[t].result
      /\ sync' \in [Syncs -> Runs]
      /\ UNCHANGED <<arrived, daily, split>> /\ sync[s].pc = "read"
  BY DEF SyncFails, RunsInv, Runs
<1>2. RunsInv'
  BY <1>1 DEF RunsInv
<1>3. OwnRows' /\ OneQuery'
  BY <1>1 DEF OwnRows, OneQuery
<1>4. AllStored'
  BY <1>1 DEF AllStored, Alone
<1> QED BY <1>2, <1>3, <1>4

\* Every step of the syncs keeps the invariant.
LEMMA SyncStep == SyncInv /\ [TrafficNext]_trafficVars => SyncInv'
<1> SUFFICES ASSUME SyncInv, [TrafficNext]_trafficVars PROVE SyncInv'
  OBVIOUS
<1>1. CASE (Edit /\ UNCHANGED syncVars) \/ UNCHANGED trafficVars
  BY <1>1 DEF SyncInv, RunsInv, OwnRows, OneQuery, AllStored, Alone, syncVars, trafficVars
<1>2. ASSUME NEW r \in SourceRows, Arrive(r) PROVE SyncInv'
  BY <1>2 DEF SyncInv, RunsInv, OwnRows, OneQuery, AllStored, Alone, Arrive
<1>3. ASSUME NEW s \in Syncs, FlushBatch(s) PROVE SyncInv'
  <2>1. PICK B \in SUBSET sync[s].left :
           /\ Flush(s, B) /\ sync' = [sync EXCEPT ![s].left = @ \ B]
           /\ sync[s].pc = "read"
    BY <1>3 DEF FlushBatch
  <2>2. sync' = [sync EXCEPT ![s].left = sync[s].left \ B, ![s].pc = "read"]
    BY <2>1 DEF SyncInv, RunsInv, Runs
  <2> QED BY <2>1, <2>2, FlushKeeps
<1>4. ASSUME NEW s \in Syncs, FlushRest(s) PROVE SyncInv'
  <2>1. /\ Flush(s, sync[s].left) /\ sync[s].pc = "read"
        /\ sync' = [sync EXCEPT ![s].left = sync[s].left \ sync[s].left, ![s].pc = "done"]
    BY <1>4 DEF FlushRest
  <2> QED BY <2>1, FlushKeeps
<1>5. ASSUME NEW s \in Syncs, StartSync(s) \/ SyncFails(s) PROVE SyncInv'
  BY <1>5, StartSyncKeeps, SyncFailsKeeps
<1> QED BY <1>1, <1>2, <1>3, <1>4, <1>5 DEF TrafficNext, SyncBigQuery

\* The invariant is enough for the property.
LEMMA StoredIsWhole == SyncInv => SyncedIsWhole
<1> SUFFICES ASSUME SyncInv, NEW k \in Keys \ split
             PROVE  /\ daily[k] = {} \/ \E s \in Syncs : daily[k] = OfKey(sync[s].result, k)
                    /\ \A s \in Syncs :
                         /\ sync[s].pc = "done" /\ \A t \in Syncs \ {s} : sync[t].pc = "none"
                         => daily[k] = OfKey(sync[s].result, k)
  BY DEF SyncedIsWhole
<1>1. daily[k] = {} \/ \E s \in Syncs : daily[k] = OfKey(sync[s].result, k)
  BY DEF SyncInv, OneQuery
<1>2. ASSUME NEW s \in Syncs, sync[s].pc = "done", \A t \in Syncs \ {s} : sync[t].pc = "none"
      PROVE  daily[k] = OfKey(sync[s].result, k)
  <2>1. sync[s].left = {} /\ k \notin RowKeys(sync[s].left)
    BY <1>2 DEF SyncInv, RunsInv, RowKeys
  <2> QED BY <1>2, <2>1 DEF SyncInv, AllStored, Alone
<1> QED BY <1>1, <1>2

-----------------------------------------------------------------------------
(* Traffic: the sheet *)

\* What the sheet adds up, as functions.
KeyVisits == [k \in Keys |-> Sum(Visits, daily[k])]
SessionsOf(d) == [m \in Mediums |-> Sum(KeyVisits, Found(m, d))]
PagesOf(look, d) == [page \in PageBuckets(look) |-> Sum(SessionsOf(d), MediumsOf(look, page))]
PagesIn(look, first, tm) == {page \in PageBuckets(look) : TeamName(look, first[page]) = tm}
TeamsOf(look, first, d) ==
    [tm \in AnyTeam |-> Sum(PagesOf(look, d), PagesIn(look, first, tm))]

\* The sessions of one medium and day.
LEMMA SessionsSum ==
    ASSUME NEW m \in Mediums, NEW d
    PROVE  MediumSessions(m, d) = SessionsOf(d)[m]
<1> DEFINE S == Found(m, d)
           w == KeyVisits
           E(it) == [s \in SUBSET S |-> IF s = {} THEN 0
                       ELSE Sessions(First(s)) + it[Rest(s)]]
<1>1. MediumSessions(m, d) = (CHOOSE it : it = E(it))[S]
  BY Zenon DEF MediumSessions, MapThenSumSet, MapThenFoldSet, First, Rest
<1>2. ASSUME NEW it PROVE E(it) = Step(w, S, it)
  <2>1. S \subseteq Keys
    BY DEF Found
  <2>2. ASSUME NEW s \in SUBSET S, s # {} PROVE Sessions(First(s)) = w[First(s)]
    <3>1. First(s) \in Keys
      BY <2>1, <2>2, FirstIn
    <3>2. Sessions(First(s)) = Sum(Visits, daily[First(s)])
      BY Zenon DEF Sessions, Sum
    <3> QED BY <3>1, <3>2 DEF KeyVisits
  <2> HIDE DEF S, w
  <2> QED BY <2>2 DEF Step
<1> HIDE DEF w, E, S
<1>5. (CHOOSE it : it = E(it)) = Partial(w, S)
  BY <1>2, Zenon DEF Partial
<1>6. MediumSessions(m, d) = Sum(w, S)
  BY <1>1, <1>5, SumUnfold, Zenon
<1> QED BY <1>6 DEF SessionsOf, S, w

\* The sessions of one page.
LEMMA PagesSum ==
    ASSUME NEW look, NEW page, NEW d
    PROVE  PageSessions(look, page, d) = Sum(SessionsOf(d), MediumsOf(look, page))
<1> DEFINE S == MediumsOf(look, page)
           w == SessionsOf(d)
           E(it) == [s \in SUBSET S |-> IF s = {} THEN 0
                       ELSE MediumSessions(First(s), d) + it[Rest(s)]]
<1>1. PageSessions(look, page, d) = (CHOOSE it : it = E(it))[S]
  BY Zenon DEF PageSessions, MapThenSumSet, MapThenFoldSet, First, Rest
<1>2. ASSUME NEW it PROVE E(it) = Step(w, S, it)
  <2>1. S \subseteq Mediums /\ S \subseteq Visited
    BY DEF MediumsOf, Visited
  <2>2. ASSUME NEW s \in SUBSET S, s # {} PROVE MediumSessions(First(s), d) = w[First(s)]
    BY <2>1, <2>2, FirstIn, SessionsSum
  <2> HIDE DEF S, w
  <2> QED BY <2>2 DEF Step
<1> HIDE DEF w, E, S
<1>5. (CHOOSE it : it = E(it)) = Partial(w, S)
  BY <1>2, Zenon DEF Partial
<1>6. PageSessions(look, page, d) = Sum(w, S)
  BY <1>1, <1>5, SumUnfold, Zenon
<1> QED BY <1>6 DEF w, S

\* The sessions of one team.
LEMMA TeamSum ==
    ASSUME NEW look, NEW first, NEW tm, NEW d
    PROVE  TeamTotal(look, first, tm, d) = Sum(PagesOf(look, d), PagesIn(look, first, tm))
<1> DEFINE S == PagesIn(look, first, tm)
           w == PagesOf(look, d)
           E(it) == [s \in SUBSET S |-> IF s = {} THEN 0
                       ELSE PageSessions(look, First(s), d) + it[Rest(s)]]
<1>1. TeamTotal(look, first, tm, d) = (CHOOSE it : it = E(it))[S]
  BY Zenon DEF TeamTotal, PagesIn, MapThenSumSet, MapThenFoldSet, First, Rest
<1>2. ASSUME NEW it PROVE E(it) = Step(w, S, it)
  <2>1. S \subseteq PageBuckets(look)
    BY DEF PagesIn
  <2>2. ASSUME NEW s \in SUBSET S, s # {} PROVE PageSessions(look, First(s), d) = w[First(s)]
    BY <2>1, <2>2, FirstIn, PagesSum DEF PagesOf
  <2> HIDE DEF S, w
  <2> QED BY <2>2 DEF Step
<1> HIDE DEF w, E, S
<1>5. (CHOOSE it : it = E(it)) = Partial(w, S)
  BY <1>2, Zenon DEF Partial
<1>6. TeamTotal(look, first, tm, d) = Sum(w, S)
  BY <1>1, <1>5, SumUnfold, Zenon
<1> QED BY <1>6 DEF w, S

\* The sessions of all teams.
LEMMA SheetSum ==
    ASSUME NEW look, NEW first, NEW d
    PROVE  MapThenSumSet(LAMBDA tm : TeamTotal(look, first, tm, d), AnyTeam)
             = Sum(TeamsOf(look, first, d), AnyTeam)
<1> DEFINE w == TeamsOf(look, first, d)
           E(it) == [s \in SUBSET AnyTeam |-> IF s = {} THEN 0
                       ELSE TeamTotal(look, first, First(s), d) + it[Rest(s)]]
<1>1. MapThenSumSet(LAMBDA tm : TeamTotal(look, first, tm, d), AnyTeam)
        = (CHOOSE it : it = E(it))[AnyTeam]
  BY Zenon DEF MapThenSumSet, MapThenFoldSet, First, Rest
<1>2. ASSUME NEW it PROVE E(it) = Step(w, AnyTeam, it)
  <2>2. ASSUME NEW s \in SUBSET AnyTeam, s # {}
        PROVE  TeamTotal(look, first, First(s), d) = w[First(s)]
    BY <2>2, FirstIn, TeamSum DEF TeamsOf
  <2> HIDE DEF w
  <2> QED BY <2>2 DEF Step
<1> HIDE DEF w, E
<1>5. (CHOOSE it : it = E(it)) = Partial(w, AnyTeam)
  BY <1>2, Zenon DEF Partial
<1>6. MapThenSumSet(LAMBDA tm : TeamTotal(look, first, tm, d), AnyTeam) = Sum(w, AnyTeam)
  BY <1>1, <1>5, SumUnfold, Zenon
<1> QED BY <1>6 DEF w

\* Finitely many rows, media and teams.
AllFinite == IsFiniteSet(SourceRows) /\ IsFiniteSet(Mediums) /\ IsFiniteSet(Teams)

\* Key by key: what the query finds of a medium are the visits of the rows stored
\* for it.
LEMMA VisitsOfMedium ==
    ASSUME IsFiniteSet(SourceRows), SyncInv, NEW m \in Mediums, NEW d \in VisitDays,
           NEW R, R = UNION {daily[k] : k \in {x \in Keys : x.day = d /\ x.source \in SheetSources}}
    PROVE  /\ SessionsOf(d)[m] = Sum(Visits, {r \in R : KeyOf[r].medium = m})
           /\ SessionsOf(d)[m] \in Int
<1> DEFINE S == {r \in R : KeyOf[r].medium = m}
           K == Found(m, d)
<1>1. \A k \in Keys : \A r \in daily[k] : r \in SourceRows /\ KeyOf[r] = k
  BY DEF SyncInv, OwnRows, OfKey
<1>2. R \subseteq SourceRows
  BY <1>1
<1>3. IsFiniteSet(S)
  BY <1>2, FS_Subset
<1>4. \A r \in SourceRows : Visits[r] \in Int /\ Visits[r] >= 0
  BY VisitsAssumption
<1>5. IsFiniteSet(K)
  <2>1. [r \in SourceRows |-> KeyOf[r]] \in Surjection(SourceRows, RowKeys(SourceRows))
    BY DEF Surjection, RowKeys
  <2>2. IsFiniteSet(RowKeys(SourceRows))
    BY <2>1, FS_Surjection
  <2>3. K \subseteq RowKeys(SourceRows)
    BY <1>1 DEF Found, RowKeys
  <2> QED BY <2>2, <2>3, FS_Subset
<1>6. ASSUME NEW r \in S PROVE KeyOf[r] \in K
  <2>1. PICK k \in Keys : k.day = d /\ k.source \in SheetSources /\ r \in daily[k]
    OBVIOUS
  <2>2. KeyOf[r] = k /\ k.medium = m
    BY <1>1, <2>1
  <2> QED BY <2>1, <2>2 DEF Found
<1>7. ASSUME NEW k \in K
      PROVE  /\ \A r : r \in daily[k] <=> r \in S /\ KeyOf[r] = k
             /\ k \in Keys
  <2>1. k \in Keys /\ k.day = d /\ k.medium = m /\ k.source \in SheetSources
    BY DEF Found
  <2>2. daily[k] \subseteq R
    BY <2>1
  <2>3. ASSUME NEW r \in daily[k] PROVE r \in S /\ KeyOf[r] = k
    BY <1>1, <2>1, <2>2
  <2>4. ASSUME NEW r \in S, KeyOf[r] = k PROVE r \in daily[k]
    <3>1. PICK x \in Keys : r \in daily[x]
      OBVIOUS
    <3> QED BY <1>1, <2>4, <3>1
  <2> QED BY <2>1, <2>3, <2>4
<1>8. \A k \in K : daily[k] = PartOf(S, [r \in S |-> KeyOf[r]], k)
  <2> HIDE DEF S, K
  <2> QED BY <1>7 DEF PartOf
<1>9. \A k \in K : KeyVisits[k] = Sum(Visits, PartOf(S, [r \in S |-> KeyOf[r]], k))
  BY <1>7, <1>8 DEF KeyVisits
<1>10. S \subseteq SourceRows
  BY <1>2
<1> HIDE DEF S, K
<1> DEFINE f == [r \in S |-> KeyOf[r]]
<1>11. (\A r \in S : f[r] \in K) /\ \A r \in S : Visits[r] \in Int
  BY <1>4, <1>6, <1>10
<1>12. \A k \in K : KeyVisits[k] = Sum(Visits, PartOf(S, f, k))
  BY <1>9
<1> HIDE DEF f
<1>13. Sum(KeyVisits, K) = Sum(Visits, S)
  BY <1>3, <1>5, <1>11, <1>12, SumParts
<1>14. Sum(Visits, S) \in Int
  BY <1>3, <1>4, <1>10, SumType
<1> QED BY <1>13, <1>14 DEF SessionsOf, S, K

\* Row by row, medium by medium, page by page, team by team: nothing is lost or
\* counted twice.
LEMMA AllSessions ==
    ASSUME AllFinite, PagesInv, SyncInv,
           NEW look \in Lookups, NEW first \in Firsts(look), NEW d \in VisitDays
    PROVE  MapThenSumSet(LAMBDA tm : TeamTotal(look, first, tm, d), AnyTeam)
             = MapThenSumSet(LAMBDA r : Visits[r],
                             UNION {daily[k] : k \in {x \in Keys : x.day = d /\ x.source \in SheetSources}})
<1> DEFINE R == UNION {daily[k] : k \in {x \in Keys : x.day = d /\ x.source \in SheetSources}}
<1>1. /\ IsFiniteSet(Visited) /\ IsFiniteSet(PageBuckets(look)) /\ IsFiniteSet(AnyTeam)
      /\ IsFiniteSet(R) /\ R \subseteq SourceRows
  <2>1. IsFiniteSet(Visited)
    BY FS_Subset DEF AllFinite, Visited
  <2>2. IsFiniteSet(PageBuckets(look))
    <3>1. [m \in Visited |-> PageName(look, m)] \in Surjection(Visited, PageBuckets(look))
      BY DEF Surjection, PageBuckets
    <3> QED BY <2>1, <3>1, FS_Surjection
  <2>3. IsFiniteSet(AnyTeam)
    BY FS_AddElement DEF AllFinite, AnyTeam
  <2>4. R \subseteq SourceRows
    BY DEF SyncInv, RunsInv
  <2> QED BY <2>1, <2>2, <2>3, <2>4, FS_Subset DEF AllFinite
<1>2. \A r \in SourceRows : Visits[r] \in Nat
  BY VisitsAssumption
<1>3. ASSUME NEW m \in Mediums
      PROVE  /\ SessionsOf(d)[m] = Sum(Visits, {r \in R : KeyOf[r].medium = m})
             /\ SessionsOf(d)[m] \in Int
  <2> HIDE DEF R
  <2>1. R = UNION {daily[k] : k \in {x \in Keys : x.day = d /\ x.source \in SheetSources}}
    BY DEF R
  <2> QED BY <1>3, <2>1, VisitsOfMedium DEF AllFinite
<1>4. Sum(SessionsOf(d), Visited) = Sum(Visits, R)
  <2>1. \A r \in R : KeyOf[r].medium \in Visited
    <3>1. ASSUME NEW r \in R PROVE KeyOf[r].medium \in Visited
      <4>1. PICK k \in Keys : k.day = d /\ k.source \in SheetSources /\ r \in daily[k]
        OBVIOUS
      <4>2. KeyOf[r] = k /\ k.medium \in Mediums
        BY <4>1 DEF SyncInv, OwnRows, OfKey, Keys
      <4>3. k \in Found(k.medium, d)
        BY <4>1 DEF Found
      <4> QED BY <4>2, <4>3 DEF Visited
    <3> QED BY <3>1
  <2> DEFINE f == [r \in R |-> KeyOf[r].medium]
  <2>2. \A m \in Visited : {r \in R : KeyOf[r].medium = m} = {r \in R : f[r] = m}
    OBVIOUS
  <2>3. \A m \in Visited : SessionsOf(d)[m] = Sum(Visits, PartOf(R, f, m))
    BY <1>3, <2>2 DEF Visited, PartOf
  <2>4. (\A r \in R : f[r] \in Visited) /\ \A r \in R : Visits[r] \in Int
    BY <1>1, <1>2, <2>1
  <2>5. IsFiniteSet(R) /\ IsFiniteSet(Visited)
    BY <1>1
  <2> HIDE DEF f, R
  <2> QED BY <2>3, <2>4, <2>5, SumParts
<1>5. \A m \in Visited : SessionsOf(d)[m] \in Int
  BY <1>3 DEF Visited
<1>6. Sum(PagesOf(look, d), PageBuckets(look)) = Sum(SessionsOf(d), Visited)
  <2> DEFINE f == [m \in Visited |-> PageName(look, m)]
  <2>1. \A page \in PageBuckets(look) :
           PagesOf(look, d)[page] = Sum(SessionsOf(d), PartOf(Visited, f, page))
    <3>1. \A page : MediumsOf(look, page) = PartOf(Visited, f, page)
      BY DEF MediumsOf, PartOf
    <3> QED BY <3>1 DEF PagesOf
  <2>2. \A m \in Visited : f[m] \in PageBuckets(look)
    BY DEF PageBuckets
  <2>3. IsFiniteSet(Visited) /\ IsFiniteSet(PageBuckets(look))
    BY <1>1
  <2> HIDE DEF f
  <2> QED BY <1>5, <2>1, <2>2, <2>3, SumParts
<1>7. \A page \in PageBuckets(look) : PagesOf(look, d)[page] \in Int
  <2>1. ASSUME NEW page PROVE Sum(SessionsOf(d), MediumsOf(look, page)) \in Int
    <3>1. MediumsOf(look, page) \subseteq Visited
      BY DEF MediumsOf
    <3> QED BY <1>1, <1>5, <3>1, FS_Subset, SumType
  <2> QED BY <2>1 DEF PagesOf
<1>8. Sum(TeamsOf(look, first, d), AnyTeam) = Sum(PagesOf(look, d), PageBuckets(look))
  <2> DEFINE f == [page \in PageBuckets(look) |-> TeamName(look, first[page])]
  <2>1. \A tm \in AnyTeam :
           TeamsOf(look, first, d)[tm] = Sum(PagesOf(look, d), PartOf(PageBuckets(look), f, tm))
    <3>1. \A tm : PagesIn(look, first, tm) = PartOf(PageBuckets(look), f, tm)
      BY DEF PagesIn, PartOf
    <3> QED BY <3>1 DEF TeamsOf
  <2>2. \A page \in PageBuckets(look) : f[page] \in AnyTeam
    <3>1. ASSUME NEW m \in Visited PROVE TeamName(look, m) \in AnyTeam
      <4>1. look[m] = NoPage \/ look[m] \in Ids
        BY DEF Lookups, Rows
      <4> QED BY <4>1 DEF TeamName, AnyTeam, PagesInv, PagesTypeOK
    <3> QED BY <3>1 DEF Firsts
  <2>3. IsFiniteSet(AnyTeam) /\ IsFiniteSet(PageBuckets(look))
    BY <1>1
  <2> HIDE DEF f
  <2> QED BY <1>7, <2>1, <2>2, <2>3, SumParts
<1>9. MapThenSumSet(LAMBDA r : Visits[r], R) = Sum(Visits, R)
  BY Zenon DEF Sum
<1> QED BY <1>4, <1>5, <1>6, <1>8, <1>9, SheetSum

\* A page in the sheet is under a team its rows have.
LEMMA TeamOfPage ==
    ASSUME Mediums \cap Pages = {}, PagesInv,
           NEW look \in Lookups, NEW first \in Firsts(look), NEW page \in PageBuckets(look) \cap Pages,
           page \notin mixed, \A q \in Requests : page \notin Pending(q),
           NEW id \in RowsOfPage(page)
    PROVE  TeamName(look, first[page]) = mapping[id].team
<1> DEFINE m == first[page]
<1>1. m \in Visited /\ PageName(look, m) = page /\ m \in Mediums
  BY DEF Firsts, MediumsOf, Visited
<1>2. look[m] # NoPage /\ mapping[look[m]].page = page
  BY <1>1 DEF PageName
<1>3. look[m] \in RowsOfPage(page)
  BY <1>1, <1>2 DEF Lookups, Rows, RowsOfPage
<1>4. ASSUME NEW x \in RowsOfPage(page) PROVE Settled(x)
  BY <1>4, NamesAssumption DEF Settled, Owes, Pending, RowsOfPage
<1>5. mapping[look[m]].team = mapping[id].team
  BY <1>3, <1>4 DEF PagesInv, SettledAgree
<1> QED BY <1>2, <1>5 DEF TeamName

\* The sync leaves the mappings alone.
LEMMA TrafficStep == PagesInv /\ [TrafficNext]_trafficVars => PagesInv'
<1> SUFFICES ASSUME PagesInv, [TrafficNext]_trafficVars PROVE PagesInv'
  OBVIOUS
<1>1. CASE Edit \/ UNCHANGED pageVars
  BY <1>1, PagesStep
<1>2. ASSUME NEW s \in Syncs, SyncFails(s) PROVE PagesInv'
  <2>1. UNCHANGED <<mapping, used, patch, mixed>> /\ faults' \in 0..MaxFaults
    BY <1>2, PageFaultsAssumption DEF SyncFails, PagesInv, PagesTypeOK
  <2> QED BY <2>1 DEF PagesInv, PagesTypeOK, FindsARow, SettledAgree, Settled, Owes, RowsOfPage
<1> QED BY <1>1, <1>2
     DEF TrafficNext, SyncBigQuery, trafficVars, Arrive, StartSync, FlushBatch, FlushRest, Flush

\* "Every row for a page always has the same team", also while syncs run and fail.
THEOREM PagesAgreeInTraffic == TrafficSpec => []TeamsAgree
<1>1. TrafficInit => PagesInv
  BY PagesStart DEF TrafficInit
<1> QED BY <1>1, TrafficStep, SettledIsEnough, PTL DEF TrafficSpec

\* What is stored for a key is what one query found of it.
THEOREM SyncsAreWhole == TrafficSpec => []SyncedIsWhole
<1> QED BY SyncStart, SyncStep, StoredIsWhole, PTL DEF TrafficSpec

\* The sheet of finitely many rows, media and teams has every stored session of its
\* sources once, and under the team of its page, if no medium has the name of a page.
THEOREM TrafficAddsUp ==
    ASSUME AllFinite, Mediums \cap Pages = {}
    PROVE  TrafficSpec => []TrafficIsReported
<1>1. TrafficInit => PagesInv
  BY PagesStart DEF TrafficInit
<1>2. PagesInv /\ SyncInv => TrafficIsReported
  <2> SUFFICES ASSUME PagesInv, SyncInv PROVE SheetAddsUp
    BY StoredIsWhole, Zenon DEF TrafficIsReported
  <2>1. ASSUME NEW look \in Lookups, NEW first \in Firsts(look), NEW d \in VisitDays
        PROVE  MapThenSumSet(LAMBDA tm : TeamTotal(look, first, tm, d), AnyTeam)
                 = MapThenSumSet(LAMBDA r : Visits[r],
                                 UNION {daily[k] : k \in {x \in Keys : x.day = d /\ x.source \in SheetSources}})
    BY <2>1, AllSessions
  <2>2. ASSUME NEW look \in Lookups, NEW first \in Firsts(look),
               NEW page \in PageBuckets(look) \cap Pages
        PROVE  \/ page \in mixed \/ \E q \in Requests : page \in Pending(q)
               \/ \A id \in RowsOfPage(page) : TeamName(look, first[page]) = mapping[id].team
    BY <2>2, TeamOfPage
  <2> QED BY <2>1, <2>2 DEF SheetAddsUp
<1> QED BY <1>1, <1>2, TrafficStep, SyncStart, SyncStep, PTL DEF TrafficSpec

\* A finite set of numbers that is not empty has a least and a greatest one.
LEMMA LeastNat ==
    ASSUME NEW T, T \subseteq Nat, T # {}
    PROVE  \E x \in T : \A y \in T : x <= y
<1>1. IsWellFoundedOn({ss \in Nat \X Nat : ss[1] < ss[2]}, Nat)
  BY NatLessThanWellFounded DEF OpToRel
<1>2. PICK x \in T : \A y \in T : ~ (<<y, x>> \in {ss \in Nat \X Nat : ss[1] < ss[2]})
  BY <1>1, WFMin
<1>3. \A y \in T : ~ (y < x)
  BY <1>2
<1> QED BY <1>3

\* The first of some days is one of them.
LEMMA MinOfDays ==
    ASSUME NEW T, T \subseteq Days, T # {}
    PROVE  Min(T) \in T
<1>0. T \subseteq Nat
  BY DEF Days
<1>1. \E x \in T : \A y \in T : x <= y
  BY <1>0, LeastNat
<1> QED BY <1>1, Zenon DEF Min

\* Of some days, one is the last.
LEMMA MaxIsGreatest ==
    ASSUME NEW T, T \subseteq Days, T # {}
    PROVE  \E x \in T : \A y \in T : y <= x
<1> DEFINE U == {LastDay - x : x \in T}
<1>1. PICK z \in U : \A y \in U : z <= y
  <2>1. ASSUME NEW u \in U PROVE u \in Nat
    <3>1. PICK x \in T : u = LastDay - x
      OBVIOUS
    <3>2. x \in 1..LastDay /\ LastDay \in Nat
      BY BoundsAssumption DEF Days
    <3> QED BY <3>1, <3>2
  <2>2. U # {}
    OBVIOUS
  <2> HIDE DEF U
  <2> QED BY <2>1, <2>2, LeastNat
<1>2. PICK x \in T : z = LastDay - x
  OBVIOUS
<1> QED BY <1>1, <1>2, BoundsAssumption DEF Days

\* The last of some days is one of them.
LEMMA MaxOfDays ==
    ASSUME NEW T, T \subseteq Days, T # {}
    PROVE  Max(T) \in T
<1>1. \E x \in T : \A y \in T : x >= y
  BY MaxIsGreatest DEF Days
<1> QED BY <1>1, Zenon DEF Max

-----------------------------------------------------------------------------
(* Revenue: the tables *)

SnapshotRows == [profile : Profiles, day : Days, followers : Followers, revenue : Nat]
PostRows == [profile : Profiles, at : Instants]

\* (profileId, date) is unique; only Facebook pages earn.
TablesInv ==
    /\ snapshots \subseteq SnapshotRows /\ IsFiniteSet(snapshots)
    /\ posts \subseteq PostRows /\ IsFiniteSet(posts)
    /\ active \subseteq Profiles
    /\ \A s, t \in snapshots : s.profile = t.profile /\ s.day = t.day => s = t
    /\ \A s \in snapshots : s.profile \notin Facebook => s.revenue = 0

\* A row as Meta has it, with its breakdown or without.
TrueRow(p, d) == AddAmounts(Earned[p][d])
RightRows(p, rows) ==
    /\ DOMAIN rows \subseteq Days /\ rows \in [DOMAIN rows -> [Buckets -> Nat]]
    /\ \A d \in DOMAIN rows :
          /\ rows[d]["total"] = TrueRow(p, d)["total"]
          /\ rows[d] = TrueRow(p, d) \/ \A b \in Buckets \ {"total"} : rows[d][b] = 0

AnyRevenueTeam == RevenueTeams \cup {RevenueUnassigned}

EarningsInv ==
    /\ revenues = [p \in Facebook |-> revenues[p]]
    /\ \A p \in Facebook : RightRows(p, revenues[p])
    /\ team \in [Facebook -> AnyRevenueTeam \cup {NoMapping}]
    /\ worker = [pc |-> worker.pc, page |-> worker.page,
                  first |-> worker.first, rows |-> worker.rows]
    /\ worker.pc \in {"idle", "mapping", "fetch", "copy"}
    /\ worker.pc # "idle" => worker.page \in Facebook /\ worker.first \in Days
    /\ worker.pc = "copy" =>
          RightRows(worker.page, worker.rows) /\ DOMAIN worker.rows # {}
    /\ stale \subseteq Facebook \X Days

-----------------------------------------------------------------------------
(* Revenue: the three sums *)

\* A sync that no deletion overlaps has seen to the page's team, and to its rows.
TeamsInv ==
    /\ worker.pc # "idle" => purge \in {"none", "over", "failed"}
    /\ worker.pc \in {"fetch", "copy"} => team[worker.page] # NoMapping
    /\ worker.pc = "copy" => \A d \in DOMAIN worker.rows :
          d \in DOMAIN revenues[worker.page] /\ revenues[worker.page][d] = worker.rows[d]
    /\ \A p \in Facebook : team[p] = NoMapping => DOMAIN revenues[p] = {}
    /\ purge \in {"mappings", "snapshots", "posts", "profiles"} =>
          \A p \in Facebook : DOMAIN revenues[p] = {}

\* The copy of a row is what the row says, but where it is still to be made.
Copied(p, d) ==
    /\ \A s \in RowsAt(p, d) : s.revenue = RowTotal(p, d)
    /\ RowsAt(p, d) = {} => RowTotal(p, d) = 0
CopyInv ==
    purge \in {"none", "posts", "profiles", "over"} =>
      \A p \in Facebook, d \in Days : <<p, d>> \in stale \/ Copied(p, d)

MoneyInv == EarningsInv /\ TablesInv /\ (overlap \/ (TeamsInv /\ CopyInv))

-----------------------------------------------------------------------------
(* Revenue: what a day earns *)

InBucket(b) == {l \in Labels : b \in BucketsOf(l)}

\* There are four labels.
LEMMA LabelsAreFew == IsFiniteSet(Labels) /\ \A b : IsFiniteSet(InBucket(b))
<1>1. IsFiniteSet(Labels)
  <2>1. Labels = ((({} \cup {"bonus"}) \cup {"video"}) \cup {"image"}) \cup {"content_monetization"}
    BY DEF Labels
  <2> QED BY <2>1, FS_EmptySet, FS_AddElement
<1>2. \A b : InBucket(b) \subseteq Labels
  BY DEF InBucket
<1> QED BY <1>1, <1>2, FS_Subset

\* What a day's amounts add up to, bucket by bucket.
LEMMA AmountsOfADay ==
    ASSUME NEW amounts \in [Labels -> Nat]
    PROVE  /\ AddAmounts(amounts) \in [Buckets -> Nat]
           /\ \A b \in Buckets : AddAmounts(amounts)[b] = Sum(amounts, InBucket(b))
<1>1. AddAmounts(amounts) = [b \in Buckets |-> Sum(amounts, InBucket(b))]
  BY DEF AddAmounts, Sum, InBucket
<1>2. \A b \in Buckets : Sum(amounts, InBucket(b)) \in Nat
  <2>1. ASSUME NEW b \in Buckets PROVE Sum(amounts, InBucket(b)) \in Int /\ Sum(amounts, InBucket(b)) >= 0
    <3>1. IsFiniteSet(InBucket(b)) /\ \A y \in InBucket(b) : amounts[y] \in Int /\ amounts[y] >= 0
      BY LabelsAreFew DEF InBucket
    <3> QED BY <3>1, SumType
  <2> QED BY <2>1
<1> QED BY <1>1, <1>2

\* A call that has no sources puts all a day earned under one label, whose amounts
\* count in the total only.
LEMMA AnyCallIsTrue ==
    ASSUME NEW p \in Facebook, NEW d \in Days, NEW attempt
    PROVE  LET row == AddAmounts(Amounts(attempt, p, d))
           IN  /\ row \in [Buckets -> Nat] /\ row["total"] = TrueRow(p, d)["total"]
               /\ row = TrueRow(p, d) \/ \A b \in Buckets \ {"total"} : row[b] = 0
<1> DEFINE row == AddAmounts(Amounts(attempt, p, d))
<1>1. Earned[p][d] \in [Labels -> Nat]
  BY EarnedAssumption
<1>2. TrueRow(p, d) \in [Buckets -> Nat]
  BY <1>1, AmountsOfADay DEF TrueRow
<1>3. CASE attempt \in BySource
  BY <1>2, <1>3 DEF Amounts, TrueRow
<1>4. CASE attempt \notin BySource
  <2> DEFINE cm == "content_monetization"
             lump == [l \in Labels |-> IF l = cm THEN TrueRow(p, d)["total"] ELSE 0]
  <2>1. Amounts(attempt, p, d) = lump
    BY <1>4 DEF Amounts, TrueRow
  <2>2. TrueRow(p, d)["total"] \in Nat
    BY <1>2 DEF Buckets
  <2>3. lump \in [Labels -> Nat]
    BY <2>2
  <2>4. ASSUME NEW S \in SUBSET Labels, cm \notin S PROVE Sum(lump, S) = 0
    <3>1. IsFiniteSet(S) /\ \A y \in S : lump[y] = 0
      BY <2>4, LabelsAreFew, FS_Subset
    <3> HIDE DEF lump
    <3> QED BY <3>1, SumZero
  <2>5. InBucket("total") = Labels
    BY DEF InBucket, BucketsOf
  <2>6. Sum(lump, Labels) = TrueRow(p, d)["total"]
    <3>1. Sum(lump, Labels) = lump[cm] + Sum(lump, Labels \ {cm})
      <4>1. cm \in Labels /\ \A y \in Labels : lump[y] \in Int
        BY <2>3 DEF Labels
      <4> HIDE DEF lump, cm
      <4> QED BY <4>1, LabelsAreFew, SumTake
    <3>2. lump[cm] = TrueRow(p, d)["total"]
      BY DEF Labels
    <3>3. Sum(lump, Labels \ {cm}) = 0
      BY <2>4
    <3> QED BY <2>2, <3>1, <3>2, <3>3
  <2>7. ASSUME NEW b \in Buckets \ {"total"} PROVE Sum(lump, InBucket(b)) = 0
    <3>1. InBucket(b) \in SUBSET Labels /\ cm \notin InBucket(b)
      BY <2>7 DEF InBucket, Labels, BucketsOf, Buckets
    <3> QED BY <3>1, <2>4
  <2>8. row = AddAmounts(lump)
    BY <2>1
  <2> HIDE DEF lump, row
  <2>9. row \in [Buckets -> Nat] /\ \A b \in Buckets : row[b] = Sum(lump, InBucket(b))
    BY <2>3, <2>8, AmountsOfADay
  <2>10. row["total"] = TrueRow(p, d)["total"]
    BY <2>5, <2>6, <2>9 DEF Buckets
  <2> QED BY <2>7, <2>9, <2>10 DEF row
<1> QED BY <1>3, <1>4

\* Whichever calls of a window succeed, its rows are right.
LEMMA WindowIsRight ==
    ASSUME NEW p \in Facebook, NEW w \in Days, NEW ok
    PROVE  RightRows(p, FetchWindow(p, WindowOf(w), ok))
<1>1. WindowOf(w) \subseteq Days
  BY BoundsAssumption, WindowAssumption DEF WindowOf, Days
<1>2. RightRows(p, Nothing)
  BY DEF RightRows, Nothing
<1>3. ASSUME NEW attempt PROVE RightRows(p, Parsed(attempt, p, WindowOf(w)))
  <2> DEFINE D == DOMAIN Parsed(attempt, p, WindowOf(w))
  <2>1. D \subseteq Days /\ \A d \in D : Parsed(attempt, p, WindowOf(w))[d] = AddAmounts(Amounts(attempt, p, d))
    BY <1>1 DEF Parsed
  <2>2. Parsed(attempt, p, WindowOf(w)) = [d \in D |-> Parsed(attempt, p, WindowOf(w))[d]]
    BY DEF Parsed
  <2> QED BY <2>1, <2>2, AnyCallIsTrue DEF RightRows
<1> QED BY <1>2, <1>3 DEF FetchWindow

\* Where windows meet, the row of one of them is kept whole.
LEMMA FetchedIsRight ==
    ASSUME NEW p \in Facebook, NEW first \in Days, NEW rows \in Results[p][first]
    PROVE  RightRows(p, rows)
<1> DEFINE W == Windows(first)
           of == [w \in W |-> {FetchWindow(p, WindowOf(w), ok) :
                                 ok \in SUBSET {Attempts[i] : i \in 1..Len(Attempts)}}]
<1>1. PICK answers \in [W -> UNION {of[w] : w \in W}] :
         /\ \A w \in W : answers[w] \in of[w]
         /\ rows = ByDate(answers)
  BY DEF Results
<1>2. W \subseteq Days
  BY BoundsAssumption DEF Windows, Days
<1>3. \A w \in W : RightRows(p, answers[w])
  <2>1. ASSUME NEW w \in W PROVE RightRows(p, answers[w])
    <3>1. PICK ok : answers[w] = FetchWindow(p, WindowOf(w), ok)
      BY <1>1
    <3> QED BY <1>2, <3>1, WindowIsRight
  <2> QED BY <2>1
<1>4. DOMAIN answers = W
  OBVIOUS
<1> HIDE DEF W, of
<1> DEFINE D == UNION {DOMAIN answers[w] : w \in W}
<1>5. ASSUME NEW d \in D PROVE \E w \in W : d \in DOMAIN answers[w] /\ rows[d] = answers[w][d]
  <2> DEFINE T == {w \in W : d \in DOMAIN answers[w]}
  <2>1. T # {} /\ T \subseteq Days
    BY <1>2
  <2>2. Max(T) \in T
    <3> HIDE DEF T
    <3> QED BY <2>1, MaxOfDays
  <2>3. rows[d] = answers[Max(T)][d]
    BY <1>1, <1>4 DEF ByDate
  <2> QED BY <2>2, <2>3
<1>6. rows = [d \in D |-> rows[d]]
  BY <1>1, <1>4 DEF ByDate
<1>7. D \subseteq Days
  BY <1>3 DEF RightRows
<1>8. ASSUME NEW d \in D
      PROVE  /\ rows[d] \in [Buckets -> Nat] /\ rows[d]["total"] = TrueRow(p, d)["total"]
             /\ rows[d] = TrueRow(p, d) \/ \A b \in Buckets \ {"total"} : rows[d][b] = 0
  BY <1>3, <1>5 DEF RightRows
<1> HIDE DEF D
<1>9. DOMAIN rows = D /\ rows \in [D -> [Buckets -> Nat]]
  BY <1>6, <1>8
<1> QED BY <1>7, <1>8, <1>9 DEF RightRows

-----------------------------------------------------------------------------
(* Revenue: the invariant *)

Revs == [s \in snapshots |-> s.revenue]

\* The revenue of some snapshots, as the reports add it up.
LEMMA RevenueSum ==
    ASSUME NEW S \in SUBSET snapshots
    PROVE  MapThenSumSet(LAMBDA s : s.revenue, S) = Sum(Revs, S)
<1> DEFINE E(it) == [s \in SUBSET S |-> IF s = {} THEN 0 ELSE First(s).revenue + it[Rest(s)]]
<1>1. MapThenSumSet(LAMBDA s : s.revenue, S) = (CHOOSE it : it = E(it))[S]
  BY Zenon DEF MapThenSumSet, MapThenFoldSet, First, Rest
<1>2. ASSUME NEW it PROVE E(it) = Step(Revs, S, it)
  BY FirstIn DEF Step, Revs
<1> HIDE DEF E
<1>3. (CHOOSE it : it = E(it)) = Partial(Revs, S)
  BY <1>2, Zenon DEF Partial
<1> QED BY <1>1, <1>3, SumUnfold, Zenon

\* A profile has one snapshot a day, which an upsert keeps the revenue of.
LEMMA Kept ==
    ASSUME TablesInv, NEW p, NEW d
    PROVE  /\ KeptRevenue(p, d) \in Nat
           /\ RowsAt(p, d) = {} => KeptRevenue(p, d) = 0
           /\ \A s \in RowsAt(p, d) : RowsAt(p, d) = {s} /\ KeptRevenue(p, d) = s.revenue
<1>1. RowsAt(p, d) \subseteq snapshots /\ \A s \in RowsAt(p, d) : RowsAt(p, d) = {s}
  BY DEF RowsAt, TablesInv
<1>2. KeptRevenue(p, d) = Sum(Revs, RowsAt(p, d))
  BY <1>1, RevenueSum DEF KeptRevenue
<1>3. CASE RowsAt(p, d) = {}
  BY <1>2, <1>3, SumEmpty
<1>4. ASSUME NEW s \in RowsAt(p, d)
      PROVE  KeptRevenue(p, d) = s.revenue /\ s.revenue \in Nat
  <2>1. Revs[s] = s.revenue /\ s.revenue \in Nat
    BY <1>1, <1>4 DEF Revs, TablesInv, SnapshotRows
  <2>2. Sum(Revs, {s}) = Revs[s]
    BY <2>1, SumOne
  <2> QED BY <1>1, <1>2, <2>1, <2>2
<1> QED BY <1>1, <1>3, <1>4

\* An upsert touches its own profile and day only.
LEMMA SnapshotSaved ==
    ASSUME TablesInv, NEW p \in Profiles, NEW d \in Days, NEW n \in Followers,
           SaveSnapshot(p, d, n)
    PROVE  /\ TablesInv'
           /\ \A q, e : q # p \/ e # d => RowsAt(q, e)' = RowsAt(q, e)
           /\ \E s \in snapshots' : s.revenue = KeptRevenue(p, d) /\ RowsAt(p, d)' = {s}
<1> DEFINE new == [profile |-> p, day |-> d, followers |-> n, revenue |-> KeptRevenue(p, d)]
<1>1. snapshots' = (snapshots \ RowsAt(p, d)) \cup {new} /\ UNCHANGED <<posts, active>>
  BY DEF SaveSnapshot
<1>2. new \in SnapshotRows /\ new.profile = p /\ new.day = d /\ new.revenue = KeptRevenue(p, d)
  BY Kept DEF SnapshotRows
<1>3. p \notin Facebook => KeptRevenue(p, d) = 0
  BY Kept DEF TablesInv, RowsAt
<1> HIDE DEF new
<1>4. IsFiniteSet(snapshots')
  BY <1>1, FS_Subset, FS_AddElement DEF TablesInv
<1>5. TablesInv'
  BY <1>1, <1>2, <1>3, <1>4 DEF TablesInv, RowsAt
<1>6. \A q, e : q # p \/ e # d => RowsAt(q, e)' = RowsAt(q, e)
  BY <1>1, <1>2 DEF RowsAt
<1>7. RowsAt(p, d)' = {new} /\ new \in snapshots'
  BY <1>1, <1>2 DEF RowsAt
<1> QED BY <1>2, <1>5, <1>6, <1>7

\* A post is saved among finitely many.
LEMMA PostSaved ==
    ASSUME TablesInv, NEW p \in Profiles, NEW t \in Instants, SavePost(p, t)
    PROVE  TablesInv'
<1> DEFINE new == [profile |-> p, at |-> t]
<1>1. posts' = posts \cup {new} /\ UNCHANGED <<snapshots, active>> /\ new \in PostRows
  BY DEF SavePost, PostRows
<1> HIDE DEF new
<1>2. IsFiniteSet(posts') /\ posts' \subseteq PostRows
  BY <1>1, FS_AddElement DEF TablesInv
<1> QED BY <1>1, <1>2 DEF TablesInv

\* The rest of a sync does not undo the revenue.
LEMMA GrowKeeps ==
    ASSUME MoneyInv, worker.pc = "idle", Grow,
           UNCHANGED <<revenues, team, worker, purge, stale, overlap, jobs>>
    PROVE  MoneyInv'
<1> USE DEF MoneyInv
<1>1. EarningsInv' /\ (TeamsInv => TeamsInv')
  BY DEF EarningsInv, TeamsInv
<1>2. ASSUME NEW p \in Profiles, NEW t \in Instants, SavePost(p, t) PROVE MoneyInv'
  <2>1. TablesInv' /\ UNCHANGED snapshots
    BY <1>2, PostSaved DEF SavePost
  <2>3. \A q, e : Copied(q, e)' = Copied(q, e)
    BY <2>1 DEF Copied, RowsAt, RowTotal
  <2>2. CopyInv => CopyInv'
    BY <2>3 DEF CopyInv
  <2> QED BY <1>1, <2>1, <2>2
<1>3. ASSUME NEW p \in Profiles, NEW d \in Days, NEW n \in Followers, SaveSnapshot(p, d, n)
      PROVE  MoneyInv'
  <2>1. /\ TablesInv' /\ \A q, e : q # p \/ e # d => RowsAt(q, e)' = RowsAt(q, e)
        /\ \E s \in snapshots' : s.revenue = KeptRevenue(p, d) /\ RowsAt(p, d)' = {s}
    BY <1>3, SnapshotSaved
  <2>2. \A q, e : RowTotal(q, e)' = RowTotal(q, e)
    BY DEF RowTotal
  <2>3. ASSUME NEW q \in Facebook, NEW e \in Days, Copied(q, e) PROVE Copied(q, e)'
    <3>1. CASE q # p \/ e # d
      BY <2>1, <2>2, <2>3, <3>1 DEF Copied
    <3>2. CASE q = p /\ e = d
      <4>1. KeptRevenue(p, d) = RowTotal(p, d)
        BY <2>3, <3>2, Kept DEF Copied
      <4> QED BY <2>1, <2>2, <3>2, <4>1 DEF Copied
    <3> QED BY <3>1, <3>2
  <2>4. CopyInv => CopyInv'
    BY <2>3 DEF CopyInv
  <2> QED BY <1>1, <2>1, <2>4
<1> QED BY <1>2, <1>3 DEF Grow

\* Steps that leave the tables alone.
LEMMA SameTables ==
    ASSUME UNCHANGED <<tables, revenues, stale>>
    PROVE  /\ TablesInv => TablesInv'
           /\ \A p, d : Copied(p, d)' = Copied(p, d)
  BY DEF tables, TablesInv, Copied, RowsAt, RowTotal

\* A sync that begins during a deletion overlaps it.
LEMMA BeginRevenueKeeps ==
    ASSUME MoneyInv, NEW p \in Facebook, NEW first \in Days, BeginRevenue(p, first)
    PROVE  MoneyInv'
<1> USE DEF MoneyInv
<1>1. /\ worker' = [pc |-> "mapping", page |-> p, first |-> first, rows |-> Nothing]
      /\ overlap' = (overlap \/ Purging)
      /\ UNCHANGED <<tables, revenues, team, purge, stale>>
  BY DEF BeginRevenue
<1>2. TablesInv' /\ (CopyInv => CopyInv')
  BY <1>1, SameTables DEF CopyInv
<1>3. EarningsInv'
  BY <1>1 DEF EarningsInv
<1>4. TeamsInv => overlap' \/ TeamsInv'
  BY <1>1 DEF TeamsInv, Purging
<1> QED BY <1>1, <1>2, <1>3, <1>4

\* The page of a sync has a team before it has rows.
LEMMA EnsureMappingKeeps ==
    ASSUME MoneyInv, EnsureMapping
    PROVE  MoneyInv'
<1> USE DEF MoneyInv
<1>1. /\ worker.pc = "mapping" /\ worker' = [worker EXCEPT !.pc = "fetch"]
      /\ team' = [team EXCEPT ![worker.page] = IF @ = NoMapping THEN RevenueUnassigned ELSE @]
      /\ UNCHANGED <<tables, revenues, purge, stale, overlap, jobs>>
  BY DEF EnsureMapping
<1>2. TablesInv' /\ (CopyInv => CopyInv')
  BY <1>1, SameTables DEF CopyInv
<1>3. \A q \in Facebook : team'[q] = NoMapping => team[q] = NoMapping /\ q # worker.page
  BY <1>1, MappingAssumption DEF EarningsInv
<1>4. EarningsInv'
  BY <1>1 DEF EarningsInv, AnyRevenueTeam
<1>5. TeamsInv => TeamsInv'
  BY <1>1, <1>3 DEF TeamsInv, EarningsInv
<1> QED BY <1>1, <1>2, <1>4, <1>5

\* What is fetched replaces what was stored of its days.
LEMMA Overwrite ==
    ASSUME NEW p, NEW f, RightRows(p, f), NEW g, RightRows(p, g)
    PROVE  /\ RightRows(p, Upserted(f, g)) /\ DOMAIN Upserted(f, g) = DOMAIN f \cup DOMAIN g
           /\ \A d \in DOMAIN f : Upserted(f, g)[d] = f[d]
           /\ \A d \in DOMAIN g \ DOMAIN f : Upserted(f, g)[d] = g[d]
<1> DEFINE h == Upserted(f, g)
<1>1. h = [d \in DOMAIN f \cup DOMAIN g |-> IF d \in DOMAIN f THEN f[d] ELSE g[d]]
  BY DEF Upserted
<1> HIDE DEF h
<1>2. DOMAIN h = DOMAIN f \cup DOMAIN g
  BY <1>1
<1>3. \A d \in DOMAIN h : h[d] = IF d \in DOMAIN f THEN f[d] ELSE g[d]
  BY <1>1
<1>4. h \in [DOMAIN h -> [Buckets -> Nat]]
  BY <1>1, <1>2 DEF RightRows
<1>5. RightRows(p, h)
  BY <1>2, <1>3, <1>4 DEF RightRows
<1> QED BY <1>2, <1>3, <1>5 DEF h

\* An upsert makes stale the days it writes.
LEMMA SaveRevenueKeeps ==
    ASSUME MoneyInv, SaveRevenue
    PROVE  MoneyInv'
<1> USE DEF MoneyInv
<1> DEFINE p == worker.page
<1>1. PICK rows \in Results[p][worker.first] :
         /\ revenues' = [revenues EXCEPT ![p] = Upserted(rows, @)]
         /\ worker' = IF rows = Nothing THEN Idle
                      ELSE [worker EXCEPT !.pc = "copy", !.rows = rows]
         /\ stale' = stale \cup {<<p, d>> : d \in DOMAIN rows}
  BY DEF SaveRevenue
<1>2. worker.pc = "fetch" /\ UNCHANGED <<tables, team, purge, overlap, jobs>>
  BY DEF SaveRevenue
<1>3. p \in Facebook /\ worker.first \in Days /\ RightRows(p, revenues[p])
  BY <1>2 DEF EarningsInv
<1>4. RightRows(p, rows)
  BY <1>3, FetchedIsRight
<1>5. rows = Nothing \/ DOMAIN rows # {}
  BY <1>4 DEF RightRows, Nothing
<1> DEFINE new == Upserted(rows, revenues[p])
<1>6. /\ RightRows(p, new) /\ DOMAIN new = DOMAIN rows \cup DOMAIN revenues[p]
      /\ \A d \in DOMAIN rows : new[d] = rows[d]
      /\ \A d \in DOMAIN revenues[p] \ DOMAIN rows : new[d] = revenues[p][d]
  BY <1>3, <1>4, Overwrite
<1>7. revenues' = [revenues EXCEPT ![p] = new]
  BY <1>1
<1> HIDE DEF new
<1>8. /\ revenues'[p] = new /\ \A q \in Facebook : q # p => revenues'[q] = revenues[q]
      /\ revenues' = [q \in Facebook |-> revenues'[q]]
  BY <1>3, <1>7 DEF EarningsInv
<1>9. /\ worker'.pc \in {"idle", "copy"}
      /\ worker' = [pc |-> worker'.pc, page |-> worker'.page,
                    first |-> worker'.first, rows |-> worker'.rows]
      /\ worker'.pc = "copy" =>
            /\ worker'.page = p /\ worker'.first = worker.first
            /\ worker'.rows = rows /\ DOMAIN rows # {}
  BY <1>1, <1>5 DEF EarningsInv, Idle
<1>10. TablesInv'
  BY <1>2 DEF TablesInv, tables
<1>11. EarningsInv'
  <2>1. \A q \in Facebook : RightRows(q, revenues'[q])
    BY <1>6, <1>8 DEF EarningsInv
  <2>2. stale' \subseteq Facebook \X Days
    BY <1>1, <1>3, <1>4 DEF EarningsInv, RightRows
  <2> QED BY <1>2, <1>3, <1>4, <1>8, <1>9, <2>1, <2>2 DEF EarningsInv
<1>12. TeamsInv => TeamsInv'
  BY <1>2, <1>3, <1>6, <1>8, <1>9 DEF TeamsInv
<1>13. TeamsInv /\ CopyInv => CopyInv'
  <2> SUFFICES ASSUME CopyInv, purge \in {"none", "posts", "profiles", "over"},
                      NEW q \in Facebook, NEW d \in Days, <<q, d>> \notin stale'
               PROVE  Copied(q, d)'
    BY <1>2 DEF CopyInv
  <2>1. Copied(q, d) /\ (q = p => d \notin DOMAIN rows)
    BY <1>1 DEF CopyInv
  <2>2. RowTotal(q, d)' = RowTotal(q, d)
    BY <1>6, <1>8, <2>1 DEF RowTotal
  <2>3. RowsAt(q, d)' = RowsAt(q, d)
    BY <1>2 DEF RowsAt, tables
  <2> QED BY <2>1, <2>2, <2>3 DEF Copied
<1> QED BY <1>2, <1>10, <1>11, <1>12, <1>13

\* A day's snapshot gets the day's total.
LEMMA TotalCopied ==
    ASSUME TablesInv, NEW p \in Facebook, NEW d, NEW n \in Nat,
           snapshots' = {IF s \in RowsAt(p, d) THEN [s EXCEPT !.revenue = n] ELSE s :
                           s \in snapshots},
           UNCHANGED <<posts, active>>
    PROVE  /\ TablesInv'
           /\ \A q, e : q # p \/ e # d => RowsAt(q, e)' = RowsAt(q, e)
           /\ \A s \in RowsAt(p, d)' : s.revenue = n
           /\ RowsAt(p, d)' = {} => RowsAt(p, d) = {}
<1> DEFINE F(s) == IF s \in RowsAt(p, d) THEN [s EXCEPT !.revenue = n] ELSE s
<1>1. ASSUME NEW s \in snapshots
      PROVE  /\ F(s) \in SnapshotRows /\ F(s).profile = s.profile /\ F(s).day = s.day
             /\ F(s).revenue = IF s \in RowsAt(p, d) THEN n ELSE s.revenue
             /\ s \notin RowsAt(p, d) => F(s) = s
             /\ F(s) \in snapshots'
  BY <1>1 DEF TablesInv, SnapshotRows
<1>2. ASSUME NEW s \in snapshots' PROVE \E t \in snapshots : s = F(t)
  OBVIOUS
<1>3. IsFiniteSet(snapshots')
  <2>1. [s \in snapshots |-> F(s)] \in Surjection(snapshots, snapshots')
    BY DEF Surjection
  <2> QED BY <2>1, FS_Surjection DEF TablesInv
<1> HIDE DEF F
<1>4. TablesInv'
  <2>1. snapshots' \subseteq SnapshotRows
    BY <1>1, <1>2
  <2>2. ASSUME NEW s \in snapshots', NEW t \in snapshots', s.profile = t.profile, s.day = t.day
        PROVE  s = t
    <3>1. PICK x \in snapshots, y \in snapshots : s = F(x) /\ t = F(y)
      BY <1>2
    <3>2. x = y
      BY <1>1, <2>2, <3>1 DEF TablesInv
    <3> QED BY <3>1, <3>2
  <2>3. ASSUME NEW s \in snapshots', s.profile \notin Facebook PROVE s.revenue = 0
    <3>1. PICK x \in snapshots : s = F(x)
      BY <1>2
    <3>2. x.profile \notin Facebook
      BY <1>1, <2>3, <3>1
    <3>3. x \notin RowsAt(p, d)
      BY <3>2 DEF RowsAt
    <3> QED BY <1>1, <3>1, <3>2, <3>3 DEF TablesInv
  <2> QED BY <1>3, <2>1, <2>2, <2>3 DEF TablesInv
<1>5. ASSUME NEW q, NEW e, q # p \/ e # d PROVE RowsAt(q, e)' = RowsAt(q, e)
  <2>1. ASSUME NEW s \in RowsAt(q, e) PROVE s \in RowsAt(q, e)'
    BY <1>1, <1>5, <2>1 DEF RowsAt
  <2>2. ASSUME NEW s \in RowsAt(q, e)' PROVE s \in RowsAt(q, e)
    <3>1. PICK x \in snapshots : s = F(x)
      BY <1>2, <2>2 DEF RowsAt
    <3>2. x.profile = q /\ x.day = e
      BY <1>1, <2>2, <3>1 DEF RowsAt
    <3>3. x \notin RowsAt(p, d)
      BY <1>5, <3>2 DEF RowsAt
    <3> QED BY <1>1, <3>1, <3>2, <3>3 DEF RowsAt
  <2> QED BY <2>1, <2>2
<1>6. ASSUME NEW s \in RowsAt(p, d)' PROVE s.revenue = n
  <2>1. PICK x \in snapshots : s = F(x)
    BY <1>2, <1>6 DEF RowsAt
  <2>2. x \in RowsAt(p, d)
    BY <1>1, <1>6, <2>1 DEF RowsAt
  <2> QED BY <1>1, <2>1, <2>2
<1>7. ASSUME NEW s \in RowsAt(p, d) PROVE RowsAt(p, d)' # {}
  BY <1>1, <1>7 DEF RowsAt
<1> QED BY <1>4, <1>5, <1>6, <1>7

\* A copy makes its day right, if the day has a snapshot.
LEMMA CopyRevenueKeeps ==
    ASSUME MoneyInv, CopyRevenue
    PROVE  MoneyInv'
<1> USE DEF MoneyInv
<1>0. PICK p, d, n : /\ p = worker.page /\ d = Min(DOMAIN worker.rows)
                     /\ n = worker.rows[d]["total"]
  OBVIOUS
<1> DEFINE left == Restrict(worker.rows, DOMAIN worker.rows \ {d})
<1>1. /\ worker.pc = "copy"
      /\ snapshots' = {IF s \in RowsAt(p, d) THEN [s EXCEPT !.revenue = n] ELSE s : s \in snapshots}
      /\ stale' = IF RowsAt(p, d) = {} THEN stale ELSE stale \ {<<p, d>>}
      /\ worker' = IF left = Nothing THEN Idle ELSE [worker EXCEPT !.rows = left]
      /\ UNCHANGED <<posts, active, revenues, team, purge, overlap, jobs>>
  BY <1>0 DEF CopyRevenue
<1>2. p \in Facebook /\ RightRows(p, worker.rows) /\ DOMAIN worker.rows # {}
  BY <1>0, <1>1 DEF EarningsInv
<1>3. d \in DOMAIN worker.rows /\ DOMAIN worker.rows \subseteq Days
  BY <1>0, <1>2, MinOfDays DEF RightRows
<1>4. n \in Nat
  BY <1>0, <1>2, <1>3 DEF RightRows, Buckets
<1>5. /\ DOMAIN left = DOMAIN worker.rows \ {d} /\ \A e \in DOMAIN left : left[e] = worker.rows[e]
      /\ left = [e \in DOMAIN left |-> left[e]]
  BY DEF Restrict
<1> HIDE DEF left
<1>6. RightRows(p, left)
  <2>1. left \in [DOMAIN left -> [Buckets -> Nat]]
    BY <1>2, <1>5 DEF RightRows
  <2> QED BY <1>2, <1>5, <2>1 DEF RightRows
<1>7. left = Nothing \/ DOMAIN left # {}
  BY <1>5 DEF Nothing
<1>8. /\ worker'.pc \in {"idle", "copy"}
      /\ worker' = [pc |-> worker'.pc, page |-> worker'.page,
                    first |-> worker'.first, rows |-> worker'.rows]
      /\ worker'.pc = "copy" =>
            /\ worker'.page = p /\ worker'.first = worker.first
            /\ worker'.rows = left /\ DOMAIN left # {}
  BY <1>0, <1>1, <1>7 DEF EarningsInv, Idle
<1>9. /\ TablesInv'
      /\ \A q, e : q # p \/ e # d => RowsAt(q, e)' = RowsAt(q, e)
      /\ \A s \in RowsAt(p, d)' : s.revenue = n
      /\ RowsAt(p, d)' = {} => RowsAt(p, d) = {}
  BY <1>1, <1>2, <1>4, TotalCopied
<1>10. EarningsInv'
  <2>1. stale' \subseteq Facebook \X Days
    BY <1>1 DEF EarningsInv
  <2>2. UNCHANGED <<revenues, team>>
    BY <1>1
  <2> QED BY <1>0, <1>1, <1>2, <1>6, <1>8, <2>1, <2>2 DEF EarningsInv
<1>11. TeamsInv => TeamsInv'
  BY <1>0, <1>1, <1>5, <1>8 DEF TeamsInv
<1>12. TeamsInv /\ CopyInv => CopyInv'
  <2> SUFFICES ASSUME TeamsInv, CopyInv, purge \in {"none", "posts", "profiles", "over"},
                      NEW q \in Facebook, NEW e \in Days, <<q, e>> \notin stale'
               PROVE  Copied(q, e)'
    BY <1>1 DEF CopyInv
  <2>1. RowTotal(q, e)' = RowTotal(q, e)
    BY <1>1 DEF RowTotal
  <2>2. CASE q # p \/ e # d
    <3>1. Copied(q, e)
      BY <1>1, <2>2 DEF CopyInv
    <3> QED BY <1>9, <2>1, <2>2, <3>1 DEF Copied
  <2>3. CASE q = p /\ e = d
    <3>1. RowTotal(p, d) = n
      BY <1>0, <1>1, <1>3 DEF TeamsInv, RowTotal
    <3>2. CASE RowsAt(p, d) = {}
      <4>1. Copied(p, d)
        BY <1>1, <2>3, <3>2 DEF CopyInv
      <4> QED BY <1>9, <2>1, <2>3, <3>1, <3>2, <4>1 DEF Copied
    <3>3. CASE RowsAt(p, d) # {}
      BY <1>9, <2>1, <2>3, <3>1, <3>3 DEF Copied
    <3> QED BY <3>2, <3>3
  <2> QED BY <2>2, <2>3
<1> QED BY <1>1, <1>9, <1>10, <1>11, <1>12

\* Days that were not copied stay stale.
LEMMA RevenueFailsKeeps ==
    ASSUME MoneyInv, RevenueFails
    PROVE  MoneyInv'
<1> USE DEF MoneyInv
<1>1. /\ worker.pc # "idle" /\ worker' = Idle
      /\ UNCHANGED <<tables, revenues, team, purge, stale, overlap, jobs>>
  BY DEF RevenueFails
<1>2. TablesInv' /\ (CopyInv => CopyInv')
  BY <1>1, SameTables DEF CopyInv
<1>3. EarningsInv'
  BY <1>1 DEF EarningsInv, Idle
<1>4. TeamsInv => TeamsInv'
  BY <1>1 DEF TeamsInv, Idle
<1> QED BY <1>1, <1>2, <1>3, <1>4

\* A page changes its team, and never has none.
LEMMA UpdateMappingTeamKeeps ==
    ASSUME MoneyInv, NEW p \in Facebook, NEW t \in AnyRevenueTeam, UpdateMappingTeam(p, t)
    PROVE  MoneyInv'
<1> USE DEF MoneyInv
<1>1. /\ team' = [team EXCEPT ![p] = t]
      /\ UNCHANGED <<tables, revenues, worker, purge, stale, overlap, jobs>>
  BY DEF UpdateMappingTeam
<1>2. TablesInv' /\ (CopyInv => CopyInv')
  BY <1>1, SameTables DEF CopyInv
<1>3. EarningsInv'
  BY <1>1 DEF EarningsInv, AnyRevenueTeam
<1>4. \A q \in Facebook : team'[q] = NoMapping => team[q] = NoMapping
  BY <1>1, MappingAssumption DEF EarningsInv, AnyRevenueTeam
<1>5. TeamsInv => TeamsInv'
  BY <1>1, <1>4 DEF TeamsInv, EarningsInv
<1> QED BY <1>1, <1>2, <1>3, <1>5

\* A deletion that begins during a sync overlaps it.
LEMMA BeginPurgeKeeps ==
    ASSUME MoneyInv, BeginPurge
    PROVE  MoneyInv'
<1> USE DEF MoneyInv
<1>1. /\ purge = "none" /\ purge' = "revenue" /\ overlap' = (overlap \/ worker.pc # "idle")
      /\ UNCHANGED <<tables, revenues, team, worker, stale>>
  BY DEF BeginPurge
<1>2. TablesInv' /\ CopyInv'
  BY <1>1, SameTables DEF CopyInv
<1>3. EarningsInv'
  BY <1>1 DEF EarningsInv
<1>4. TeamsInv => overlap' \/ TeamsInv'
  BY <1>1 DEF TeamsInv
<1> QED BY <1>1, <1>2, <1>3, <1>4

\* Rows go before the teams of their pages.
LEMMA DeleteRevenueKeeps ==
    ASSUME MoneyInv, DeleteRevenue
    PROVE  MoneyInv'
<1> USE DEF MoneyInv
<1>1. /\ purge = "revenue" /\ purge' = "mappings"
      /\ revenues' = [p \in Facebook |-> Nothing]
      /\ UNCHANGED <<tables, team, worker, stale, overlap, jobs>>
  BY DEF DeleteRevenue
<1>2. TablesInv' /\ CopyInv'
  BY <1>1 DEF CopyInv, TablesInv, tables
<1>3. \A p \in Facebook : RightRows(p, revenues'[p]) /\ DOMAIN revenues'[p] = {}
  BY <1>1 DEF RightRows, Nothing
<1>4. EarningsInv'
  BY <1>1, <1>3 DEF EarningsInv
<1>5. TeamsInv => TeamsInv'
  BY <1>1, <1>3 DEF TeamsInv
<1> QED BY <1>1, <1>2, <1>4, <1>5

\* Pages lose their team when they have no rows.
LEMMA DeleteMappingsKeeps ==
    ASSUME MoneyInv, DeleteMappings
    PROVE  MoneyInv'
<1> USE DEF MoneyInv
<1>1. /\ purge = "mappings" /\ purge' = "snapshots"
      /\ team' = [p \in Facebook |-> NoMapping]
      /\ UNCHANGED <<tables, revenues, worker, stale, overlap, jobs>>
  BY DEF DeleteMappings
<1>2. TablesInv' /\ CopyInv'
  BY <1>1, SameTables DEF CopyInv
<1>3. EarningsInv'
  BY <1>1 DEF EarningsInv
<1>4. TeamsInv => TeamsInv'
  BY <1>1 DEF TeamsInv
<1> QED BY <1>1, <1>2, <1>3, <1>4

\* Without rows and snapshots, copies are right again.
LEMMA DeleteSnapshotsKeeps ==
    ASSUME MoneyInv, DeleteSnapshots
    PROVE  MoneyInv'
<1> USE DEF MoneyInv
<1>1. /\ purge = "snapshots" /\ purge' = "posts"
      /\ snapshots' = {s \in snapshots : s.profile \notin Facebook}
      /\ UNCHANGED <<posts, active, revenues, team, worker, stale, overlap, jobs>>
  BY DEF DeleteSnapshots
<1>2. TablesInv'
  BY <1>1, FS_Subset DEF TablesInv
<1>3. EarningsInv'
  BY <1>1 DEF EarningsInv
<1>4. TeamsInv => TeamsInv'
  BY <1>1 DEF TeamsInv
<1>5. TeamsInv => \A p \in Facebook, d \in Days : Copied(p, d)'
  BY <1>1 DEF TeamsInv, Copied, RowsAt, RowTotal
<1> QED BY <1>1, <1>2, <1>3, <1>4, <1>5 DEF CopyInv

\* Posts have no revenue.
LEMMA DeletePostsKeeps ==
    ASSUME MoneyInv, DeletePosts
    PROVE  MoneyInv'
<1> USE DEF MoneyInv
<1>1. /\ purge = "posts" /\ purge' = "profiles"
      /\ posts' = {p \in posts : p.profile \notin Facebook}
      /\ UNCHANGED <<snapshots, active, revenues, team, worker, stale, overlap, jobs>>
  BY DEF DeletePosts
<1>2. TablesInv'
  BY <1>1, FS_Subset DEF TablesInv
<1>3. EarningsInv'
  BY <1>1 DEF EarningsInv
<1>4. TeamsInv => TeamsInv'
  BY <1>1 DEF TeamsInv
<1>5. \A p, d : Copied(p, d)' = Copied(p, d)
  BY <1>1 DEF Copied, RowsAt, RowTotal
<1> QED BY <1>1, <1>2, <1>3, <1>4, <1>5 DEF CopyInv

\* A profile that is gone has no rows to report.
LEMMA DeleteProfilesKeeps ==
    ASSUME MoneyInv, DeleteProfiles
    PROVE  MoneyInv'
<1> USE DEF MoneyInv
<1>1. /\ purge = "profiles" /\ purge' = "over" /\ active' = active \ Facebook
      /\ UNCHANGED <<snapshots, posts, revenues, team, worker, stale, overlap, jobs>>
  BY DEF DeleteProfiles
<1>2. TablesInv'
  BY <1>1 DEF TablesInv
<1>3. EarningsInv'
  BY <1>1 DEF EarningsInv
<1>4. TeamsInv => TeamsInv'
  BY <1>1 DEF TeamsInv
<1>5. \A p, d : Copied(p, d)' = Copied(p, d)
  BY <1>1 DEF Copied, RowsAt, RowTotal
<1> QED BY <1>1, <1>2, <1>3, <1>4, <1>5 DEF CopyInv

\* Selecting profiles changes no figure.
LEMMA SelectKeeps ==
    ASSUME MoneyInv, Select, UNCHANGED <<revenues, team, worker, purge, stale, overlap>>
    PROVE  MoneyInv'
<1> USE DEF MoneyInv
<1>1. UNCHANGED <<snapshots, posts>> /\ active' \subseteq active \cup Profiles
  BY DEF Select, Deactivate, Activate
<1>2. TablesInv'
  BY <1>1 DEF TablesInv
<1>3. EarningsInv' /\ (TeamsInv => TeamsInv')
  BY DEF EarningsInv, TeamsInv
<1>4. \A p, d : Copied(p, d)' = Copied(p, d)
  BY <1>1 DEF Copied, RowsAt, RowTotal
<1> QED BY <1>2, <1>3, <1>4 DEF CopyInv

\* A deletion may stop half way.
LEMMA PurgeFailsKeeps ==
    ASSUME MoneyInv, PurgeFails
    PROVE  MoneyInv'
<1> USE DEF MoneyInv
<1>1. /\ purge' = "failed" /\ UNCHANGED <<tables, revenues, team, worker, stale, overlap, jobs>>
  BY DEF PurgeFails
<1>2. TablesInv' /\ CopyInv'
  BY <1>1, SameTables DEF CopyInv
<1>3. EarningsInv'
  BY <1>1 DEF EarningsInv
<1>4. TeamsInv => TeamsInv'
  BY <1>1 DEF TeamsInv
<1> QED BY <1>1, <1>2, <1>3, <1>4

\* Nothing changes.
LEMMA RevenueStutters ==
    ASSUME MoneyInv, UNCHANGED vars
    PROVE  MoneyInv'
<1> USE DEF MoneyInv
<1>1. UNCHANGED <<tables, revenues, team, worker, purge, stale, overlap, jobs>>
  BY DEF vars
<1>2. TablesInv' /\ (CopyInv => CopyInv')
  BY <1>1, SameTables DEF CopyInv
<1>3. EarningsInv' /\ (TeamsInv => TeamsInv')
  BY <1>1 DEF EarningsInv, TeamsInv
<1> QED BY <1>1, <1>2, <1>3

\* At first there is nothing.
LEMMA MoneyStart == Init => MoneyInv
<1> SUFFICES ASSUME Init PROVE MoneyInv
  OBVIOUS
<1>1. /\ snapshots = {} /\ posts = {} /\ active = Profiles
      /\ revenues = [p \in Facebook |-> Nothing] /\ team = [p \in Facebook |-> NoMapping]
      /\ worker = Idle /\ purge = "none" /\ stale = {}
  BY DEF Init, TablesInit
<1>2. TablesInv
  BY <1>1, FS_EmptySet DEF TablesInv
<1>3. \A p \in Facebook : RightRows(p, revenues[p]) /\ DOMAIN revenues[p] = {}
  BY <1>1 DEF RightRows, Nothing
<1>4. EarningsInv
  BY <1>1, <1>3 DEF EarningsInv, Idle
<1>5. TeamsInv
  BY <1>1, <1>3 DEF TeamsInv, Idle
<1>6. CopyInv
  BY <1>1, <1>3 DEF CopyInv, Copied, RowsAt, RowTotal
<1> QED BY <1>2, <1>4, <1>5, <1>6 DEF MoneyInv

\* Every step of the worker and of the requests keeps the invariant.
LEMMA MoneyStep == MoneyInv /\ [Next]_vars => MoneyInv'
<1> SUFFICES ASSUME MoneyInv, [Next]_vars PROVE MoneyInv'
  OBVIOUS
<1>1. CASE Sync
  BY <1>1, GrowKeeps, BeginRevenueKeeps, EnsureMappingKeeps, SaveRevenueKeeps,
     CopyRevenueKeeps, RevenueFailsKeeps DEF Sync
<1>2. CASE Request
  BY <1>2, SelectKeeps, UpdateMappingTeamKeeps, BeginPurgeKeeps, DeleteRevenueKeeps,
     DeleteMappingsKeeps, DeleteSnapshotsKeeps, DeletePostsKeeps, DeleteProfilesKeeps,
     PurgeFailsKeeps DEF Request, AnyRevenueTeam
<1> QED BY <1>1, <1>2, RevenueStutters DEF Next

\* The invariant holds in every reachable state.
LEMMA MoneyHolds == Spec => []MoneyInv
  BY MoneyStart, MoneyStep, PTL DEF Spec

\* fetchSegregatedRevenue and the upsert after it: whichever calls fail and
\* wherever windows meet, a stored day has the total Meta has for it, once.
THEOREM StoredRevenueIsTrue == Spec => []RevenueIsTrue
<1>1. MoneyInv => RevenueIsTrue
  BY DEF MoneyInv, EarningsInv, RightRows, TrueRow, RevenueIsTrue
<1> QED BY <1>1, MoneyHolds, PTL

-----------------------------------------------------------------------------
(* Revenue: the three reports *)

TotalsOf(p) == [d \in Days |-> RowTotal(p, d)]
PageTotals(first, last) == [p \in Facebook |-> PageRevenue(p, first, last)]
TeamTotals(first, last) == [t \in AnyRevenueTeam |-> TeamRevenue(t, first, last)]

\* What a page earned is the sum of its days.
LEMMA TotalsSum ==
    ASSUME EarningsInv, NEW p \in Facebook, NEW first \in Days, NEW last \in first..LastDay
    PROVE  /\ PageRevenue(p, first, last) = Sum(TotalsOf(p), first..last)
           /\ PageRevenue(p, first, last) \in Nat
           /\ \A d \in first..last : d \in Days /\ TotalsOf(p)[d] \in Nat
<1> DEFINE S == first..last
           E(it) == [s \in SUBSET S |-> IF s = {} THEN 0
                       ELSE RowTotal(p, First(s)) + it[Rest(s)]]
<1>1. PageRevenue(p, first, last) = (CHOOSE it : it = E(it))[S]
  BY Zenon DEF PageRevenue, MapThenSumSet, MapThenFoldSet, First, Rest
<1>2. S \subseteq Days
  BY BoundsAssumption DEF Days
<1>3. \A d : RowTotal(p, d) \in Nat
  BY DEF EarningsInv, RightRows, RowTotal, Buckets
<1>4. ASSUME NEW it PROVE E(it) = Step(TotalsOf(p), S, it)
  <2>1. ASSUME NEW s \in SUBSET S, s # {} PROVE RowTotal(p, First(s)) = TotalsOf(p)[First(s)]
    BY <1>2, <2>1, FirstIn DEF TotalsOf
  <2> HIDE DEF S
  <2> QED BY <2>1 DEF Step
<1>5. \A d \in S : d \in Days /\ TotalsOf(p)[d] \in Nat
  BY <1>2, <1>3 DEF TotalsOf
<1>6. IsFiniteSet(S)
  BY FS_Interval DEF Days
<1> HIDE DEF E, S
<1>7. (CHOOSE it : it = E(it)) = Partial(TotalsOf(p), S)
  BY <1>4, Zenon DEF Partial
<1>8. PageRevenue(p, first, last) = Sum(TotalsOf(p), S)
  BY <1>1, <1>7, SumUnfold, Zenon
<1>9. Sum(TotalsOf(p), S) \in Int /\ Sum(TotalsOf(p), S) >= 0
  <2>1. \A d \in S : TotalsOf(p)[d] \in Int /\ TotalsOf(p)[d] >= 0
    BY <1>5
  <2> QED BY <1>6, <2>1, SumType
<1> QED BY <1>5, <1>8, <1>9 DEF S

\* What all pages earned, and those of a team, as sums of the pages.
LEMMA PagesRevenueSum ==
    ASSUME NEW first, NEW last, NEW t, NEW ids \in SUBSET Facebook
    PROVE  /\ ScreenRevenue(ids, first, last) = Sum(PageTotals(first, last), ids)
           /\ TeamRevenue(t, first, last)
                = Sum(PageTotals(first, last), {p \in Facebook : team[p] = t})
<1> DEFINE w == PageTotals(first, last)
           T == {p \in Facebook : team[p] = t}
           E(S, it) == [s \in SUBSET S |-> IF s = {} THEN 0
                          ELSE PageRevenue(First(s), first, last) + it[Rest(s)]]
<1>1. /\ ScreenRevenue(ids, first, last) = (CHOOSE it : it = E(ids, it))[ids]
      /\ TeamRevenue(t, first, last) = (CHOOSE it : it = E(T, it))[T]
  BY Zenon DEF ScreenRevenue, TeamRevenue, MapThenSumSet, MapThenFoldSet, First, Rest
<1>2. ASSUME NEW S \in SUBSET Facebook, NEW it PROVE E(S, it) = Step(w, S, it)
  <2>1. ASSUME NEW s \in SUBSET S, s # {} PROVE PageRevenue(First(s), first, last) = w[First(s)]
    BY <2>1, FirstIn DEF PageTotals
  <2> HIDE DEF w
  <2> QED BY <2>1 DEF Step
<1>3. T \in SUBSET Facebook
  OBVIOUS
<1>7. (\A it : E(ids, it) = Step(w, ids, it)) /\ (\A it : E(T, it) = Step(w, T, it))
  <2> HIDE DEF E, T, w
  <2> QED BY <1>2, <1>3
<1> HIDE DEF w, E, T
<1>4. (CHOOSE it : it = E(ids, it)) = Partial(w, ids)
  BY <1>7, Zenon DEF Partial
<1>5. (CHOOSE it : it = E(T, it)) = Partial(w, T)
  BY <1>7, Zenon DEF Partial
<1>6. ScreenRevenue(ids, first, last) = Sum(w, ids) /\ TeamRevenue(t, first, last) = Sum(w, T)
  BY <1>1, <1>4, <1>5, SumUnfold, Zenon
<1> QED BY <1>6 DEF w, T

\* What all teams earned.
LEMMA TeamsRevenueSum ==
    ASSUME NEW first, NEW last
    PROVE  MapThenSumSet(LAMBDA t : TeamRevenue(t, first, last), AnyRevenueTeam)
             = Sum(TeamTotals(first, last), AnyRevenueTeam)
<1> DEFINE S == AnyRevenueTeam
           w == TeamTotals(first, last)
           E(it) == [s \in SUBSET S |-> IF s = {} THEN 0
                       ELSE TeamRevenue(First(s), first, last) + it[Rest(s)]]
           all == MapThenSumSet(LAMBDA t : TeamRevenue(t, first, last), S)
<1>1. all = (CHOOSE it : it = E(it))[S]
  BY Zenon DEF MapThenSumSet, MapThenFoldSet, First, Rest
<1>2. ASSUME NEW it PROVE E(it) = Step(w, S, it)
  <2>1. ASSUME NEW s \in SUBSET S, s # {} PROVE TeamRevenue(First(s), first, last) = w[First(s)]
    BY <2>1, FirstIn DEF TeamTotals
  <2> HIDE DEF w, S
  <2> QED BY <2>1 DEF Step
<1> HIDE DEF w, E, S, all
<1>3. (CHOOSE it : it = E(it)) = Partial(w, S)
  BY <1>2, Zenon DEF Partial
<1>4. all = Sum(w, S)
  BY <1>1, <1>3, SumUnfold, Zenon
<1> QED BY <1>4 DEF w, S, all

\* A page that no team has, has no rows.
LEMMA TeamsHaveAll ==
    ASSUME IsFiniteSet(Facebook), IsFiniteSet(RevenueTeams), EarningsInv, TeamsInv,
           NEW first \in Days, NEW last \in first..LastDay
    PROVE  MapThenSumSet(LAMBDA t : TeamRevenue(t, first, last), AnyRevenueTeam)
             = ScreenRevenue(Facebook, first, last)
<1> DEFINE w == PageTotals(first, last)
           v == TeamTotals(first, last)
           Mapped == {p \in Facebook : team[p] # NoMapping}
           Bare == {p \in Facebook : team[p] = NoMapping}
<1>1. \A p \in Facebook : w[p] = PageRevenue(p, first, last) /\ w[p] \in Nat
  BY TotalsSum DEF PageTotals
<1>2. /\ Mapped \cup Bare = Facebook /\ Mapped \cap Bare = {}
      /\ IsFiniteSet(Mapped) /\ IsFiniteSet(Bare)
  BY FS_Subset
<1>3. IsFiniteSet(AnyRevenueTeam)
  BY FS_AddElement DEF AnyRevenueTeam
<1>4. ASSUME NEW p \in Bare PROVE w[p] = 0
  <2>1. \A d \in first..last : TotalsOf(p)[d] = 0
    BY TotalsSum DEF TotalsOf, RowTotal, TeamsInv
  <2>2. IsFiniteSet(first..last)
    BY FS_Interval DEF Days
  <2>3. Sum(TotalsOf(p), first..last) = 0
    BY <2>1, <2>2, SumZero
  <2> QED BY <1>1, <2>3, TotalsSum
<1>5. ASSUME NEW t \in AnyRevenueTeam
      PROVE  v[t] = Sum(w, {p \in Mapped : team[p] = t})
  <2>1. {p \in Mapped : team[p] = t} = {p \in Facebook : team[p] = t}
    BY MappingAssumption DEF AnyRevenueTeam
  <2> QED BY <2>1, PagesRevenueSum DEF TeamTotals
<1>6. \A p \in Mapped : team[p] \in AnyRevenueTeam
  BY DEF EarningsInv
<1>7. /\ \A p \in Mapped : w[p] \in Int
      /\ \A p \in Bare : w[p] \in Int
      /\ \A p \in Mapped \cup Bare : w[p] \in Int
  BY <1>1
<1> HIDE DEF w, v, Mapped, Bare
<1>8. Sum(v, AnyRevenueTeam) = Sum(w, Mapped)
  <2>1. \A t \in AnyRevenueTeam : v[t] = Sum(w, PartOf(Mapped, team, t))
    BY <1>5 DEF PartOf
  <2>2. (\A p \in Mapped : team[p] \in AnyRevenueTeam) /\ \A p \in Mapped : w[p] \in Int
    BY <1>6, <1>7
  <2>3. IsFiniteSet(Mapped) /\ IsFiniteSet(AnyRevenueTeam)
    BY <1>2, <1>3
  <2> QED BY <2>1, <2>2, <2>3, SumParts
<1>9. Sum(w, Facebook) = Sum(w, Mapped) + Sum(w, Bare)
  BY <1>2, <1>7, SumUnion
<1>10. Sum(w, Bare) = 0 /\ Sum(w, Mapped) \in Int
  BY <1>2, <1>4, <1>7, SumZero, SumType
<1>11. Sum(v, AnyRevenueTeam) = Sum(w, Facebook)
  BY <1>8, <1>9, <1>10
<1>12. ScreenRevenue(Facebook, first, last) = Sum(PageTotals(first, last), Facebook)
  <2>1. \A S \in SUBSET Facebook : ScreenRevenue(S, first, last) = Sum(PageTotals(first, last), S)
    BY PagesRevenueSum
  <2> QED BY <2>1
<1> QED BY <1>11, <1>12, TeamsRevenueSum DEF w, v

\* The mail adds up the snapshots of the active profiles, which are copies of the rows.
LEMMA MailHasAll ==
    ASSUME IsFiniteSet(Facebook), IsFiniteSet(Instagram), EarningsInv, TablesInv,
           NEW first \in Days, NEW last \in first..LastDay,
           \A p \in Facebook \cap active, d \in first..last : Copied(p, d)
    PROVE  MailRevenue(first, last) = ScreenRevenue(Facebook \cap active, first, last)
<1> DEFINE All == SnapshotsOf(active, first, last)
           w == PageTotals(first, last)
           ByPage == [p \in active |-> Sum(Revs, {s \in All : s.profile = p})]
           Fb == Facebook \cap active
           Others == active \ Facebook
<1>1. All \in SUBSET snapshots /\ IsFiniteSet(All) /\ \A s \in All : Revs[s] = s.revenue /\ Revs[s] \in Int
  BY FS_Subset DEF SnapshotsOf, Revs, TablesInv, SnapshotRows
<1>2. MailRevenue(first, last) = Sum(Revs, All)
  BY <1>1, RevenueSum DEF MailRevenue
<1>3. /\ active = Fb \cup Others /\ Fb \cap Others = {}
      /\ IsFiniteSet(active) /\ IsFiniteSet(Others) /\ IsFiniteSet(Fb)
  <2>1. IsFiniteSet(active)
    BY FS_Subset, FS_Union DEF Profiles, TablesInv
  <2> QED BY <2>1, FS_Subset
<1>4. ASSUME NEW S \in SUBSET All PROVE IsFiniteSet(S) /\ \A s \in S : s \in snapshots /\ Revs[s] \in Int
  BY <1>1, FS_Subset
<1>5. Sum(ByPage, active) = Sum(Revs, All)
  <2> DEFINE f == [s \in snapshots |-> s.profile]
  <2>1. \A s \in All : f[s] \in active
    BY <1>1 DEF SnapshotsOf
  <2>2. \A p \in active : ByPage[p] = Sum(Revs, PartOf(All, f, p))
    <3>1. \A p : {s \in All : f[s] = p} = {s \in All : s.profile = p}
      BY <1>1
    <3> QED BY <3>1 DEF PartOf
  <2>3. \A s \in All : Revs[s] \in Int
    BY <1>1
  <2>4. IsFiniteSet(All) /\ IsFiniteSet(active)
    BY <1>1, <1>3
  <2> HIDE DEF f, ByPage, All
  <2> QED BY <2>1, <2>2, <2>3, <2>4, SumParts
<1>6. ASSUME NEW p \in Others PROVE ByPage[p] = 0
  <2> DEFINE S == {s \in All : s.profile = p}
  <2>1. IsFiniteSet(S)
    BY <1>4
  <2>2. \A s \in S : Revs[s] = 0
    BY <1>1 DEF TablesInv
  <2>3. ByPage[p] = Sum(Revs, S)
    BY <1>3
  <2> HIDE DEF S, ByPage
  <2> QED BY <2>1, <2>2, <2>3, SumZero
<1>7. ASSUME NEW p \in Fb PROVE ByPage[p] = w[p]
  <2> DEFINE S == {s \in All : s.profile = p}
             f == [s \in snapshots |-> s.day]
             v == TotalsOf(p)
             K == first..last
  <2>1. IsFiniteSet(S) /\ \A s \in S : Revs[s] \in Int
    BY <1>4
  <2>2. IsFiniteSet(K)
    <3>1. first \in Int /\ last \in Int
      BY BoundsAssumption DEF Days
    <3> QED BY <3>1, FS_Interval
  <2>3. \A s \in S : f[s] \in K
    BY <1>1 DEF SnapshotsOf
  <2>4. ASSUME NEW d \in K PROVE v[d] = Sum(Revs, {s \in S : f[s] = d})
    <3>1. {s \in S : f[s] = d} = RowsAt(p, d)
      BY <1>1 DEF SnapshotsOf, RowsAt
    <3>2. v[d] = RowTotal(p, d)
      BY TotalsSum DEF TotalsOf
    <3>3. KeptRevenue(p, d) = RowTotal(p, d)
      BY Kept DEF Copied
    <3>4. KeptRevenue(p, d) = Sum(Revs, RowsAt(p, d))
      BY RevenueSum DEF KeptRevenue, RowsAt
    <3> QED BY <3>1, <3>2, <3>3, <3>4
  <2>5. w[p] = Sum(v, K)
    BY TotalsSum DEF PageTotals
  <2>6. ByPage[p] = Sum(Revs, S)
    OBVIOUS
  <2> HIDE DEF S, f, v, K, w, ByPage
  <2>7. Sum(v, K) = Sum(Revs, S)
    <3>1. \A d \in K : v[d] = Sum(Revs, PartOf(S, f, d))
      BY <2>4 DEF PartOf
    <3> QED BY <2>1, <2>2, <2>3, <3>1, SumParts
  <2> QED BY <2>5, <2>6, <2>7
<1>8. \A p \in Fb : w[p] \in Int
  BY TotalsSum DEF PageTotals
<1>0. Fb \in SUBSET Facebook
  OBVIOUS
<1> HIDE DEF All, w, ByPage, Others, Fb
<1>9. Sum(ByPage, active) = Sum(ByPage, Fb) + Sum(ByPage, Others)
  <2>1. \A p \in Fb \cup Others : ByPage[p] \in Int
    BY <1>6, <1>7, <1>8
  <2> QED BY <1>3, <2>1, SumUnion
<1>10. Sum(ByPage, Others) = 0
  BY <1>3, <1>6, SumZero
<1>11. Sum(ByPage, Fb) = Sum(w, Fb) /\ Sum(w, Fb) \in Int
  BY <1>3, <1>7, <1>8, SumSame, SumType
<1>12. Sum(Revs, All) = Sum(w, Fb)
  BY <1>5, <1>9, <1>10, <1>11
<1>13. \A S \in SUBSET Facebook : ScreenRevenue(S, first, last) = Sum(PageTotals(first, last), S)
  BY PagesRevenueSum
<1> QED BY <1>0, <1>2, <1>12, <1>13 DEF w, Fb

\* The revenue of the screen, of the teams and of the mail, from two tables that a
\* sync writes one after the other and disconnectMeta empties, is the same, the mail's
\* for the active pages, but for the cases RevenueIsReported names, if pages and teams are finite.
THEOREM RevenueAddsUp ==
    ASSUME IsFiniteSet(Facebook), IsFiniteSet(Instagram), IsFiniteSet(RevenueTeams)
    PROVE  Spec => []RevenueIsReported
<1>1. MoneyInv => RevenueIsReported
  <2> SUFFICES ASSUME MoneyInv, ~overlap, NEW first \in Days, NEW last \in first..LastDay
               PROVE  /\ MapThenSumSet(LAMBDA t : TeamRevenue(t, first, last),
                                       RevenueTeams \cup {RevenueUnassigned})
                           = ScreenRevenue(Facebook, first, last)
                      /\ \/ purge \notin {"none", "over"}
                         \/ \E row \in stale : row[1] \in active /\ row[2] \in first..last
                         \/ MailRevenue(first, last) = ScreenRevenue(Facebook \cap active, first, last)
    BY DEF RevenueIsReported
  <2>1. EarningsInv /\ TablesInv /\ TeamsInv /\ CopyInv
    BY DEF MoneyInv
  <2>2. MapThenSumSet(LAMBDA t : TeamRevenue(t, first, last), AnyRevenueTeam)
          = ScreenRevenue(Facebook, first, last)
    BY <2>1, TeamsHaveAll
  <2>3. ASSUME purge \in {"none", "over"},
               ~ \E row \in stale : row[1] \in active /\ row[2] \in first..last
        PROVE  MailRevenue(first, last) = ScreenRevenue(Facebook \cap active, first, last)
    <3>1. ASSUME NEW p \in Facebook \cap active, NEW d \in first..last PROVE Copied(p, d)
      <4>1. d \in Days
        BY BoundsAssumption DEF Days
      <4>2. <<p, d>> \notin stale
        BY <2>3
      <4> QED BY <2>1, <2>3, <4>1, <4>2 DEF CopyInv
    <3> QED BY <2>1, <3>1, MailHasAll
  <2> QED BY <2>2, <2>3 DEF AnyRevenueTeam
<1> QED BY <1>1, MoneyHolds, PTL

-----------------------------------------------------------------------------
(* The reports of Meta figures *)

\* The sign of a change.
LEMMA ChangesHaveSigns == ChangeHasItsSign
<1> SUFFICES ASSUME NEW x \in -2..2, NEW y \in -2..2
             PROVE  /\ CalcChange(x, y) > 0 <=> x > y
                    /\ CalcChange(x, y) = 0 <=> x = y
  BY DEF ChangeHasItsSign
<1>1. CASE y = 0
  BY <1>1 DEF CalcChange
<1>2. CASE y = 1
  BY <1>2 DEF CalcChange
<1>3. CASE y = 2
  BY <1>3 DEF CalcChange
<1>4. CASE y = -1
  BY <1>4 DEF CalcChange
<1>5. CASE y = -2
  BY <1>5 DEF CalcChange
<1> QED BY <1>1, <1>2, <1>3, <1>4, <1>5

Known(q, d, p) ==
    {s \in Positive(RowsOf(p)) : s.day \in q.first..q.last /\ KeyDay(s.day) \in q.first..d}
Before(q, p) == {s \in RowsOf(p) : s.day < q.first}
Carried(q, d, p) ==
    IF Known(q, d, p) # {} THEN Newest(Known(q, d, p)).followers ELSE FollowersOf(Before(q, p))
Today(q, d, p) ==
    {s \in Positive(RowsOf(p)) : s.day \in q.first..q.last /\ KeyDay(s.day) = d}
Spans(q) == (q.first - 1)..q.last
Carry(q, it) ==
    [d \in Spans(q) |-> [p \in Profiles |->
       IF d < q.first THEN FollowersOf(Before(q, p))
       ELSE IF Today(q, d, p) = {} THEN it[d - 1][p] ELSE FollowersOf(Today(q, d, p))]]

\* The series is defined by recursion over its days.
LEMMA RunningIs ==
    ASSUME NEW q
    PROVE  Running(q) = CHOOSE it : it = Carry(q, it)
  BY Zenon DEF Running, Carry, Spans, Today, Before

\* Dates of a period that has days.
LEMMA PeriodDates ==
    ASSUME NEW q \in Periods
    PROVE  /\ q.first \in Int /\ q.last \in Int /\ q.from \in Int /\ q.to \in Int
           /\ q.first - 1 >= -2
           /\ q.from \div 2 = q.first
           /\ \A t \in Int : t <= q.to => t \div 2 <= q.last /\ (t - 1) \div 2 <= q.last
<1>1. CASE \E first \in Days, last \in Days : q = Explicit(first, last)
  <2>1. PICK first \in Days, last \in Days : q = Explicit(first, last)
    BY <1>1
  <2>2. first \in Int /\ last \in Int /\ first >= 1
    BY DEF Days
  <2>3. q.first = first /\ q.last = last /\ q.from = 2 * first /\ q.to = 2 * last + 1
    BY <2>1 DEF Explicit
  <2> QED BY <2>2, <2>3
<1>2. CASE \E now \in {2 * LastDay, 2 * LastDay + 1}, days \in 1..2 : q = Relative(now, days)
  <2>1. PICK now \in {2 * LastDay, 2 * LastDay + 1}, days \in 1..2 : q = Relative(now, days)
    BY <1>2
  <2>2. now \in Int /\ now >= 2 /\ days \in Int /\ days <= 2
    BY BoundsAssumption
  <2>3. /\ q.first = (now - 2 * days) \div 2 /\ q.last = now \div 2
        /\ q.from = now - 2 * days /\ q.to = now
    BY <2>1 DEF Relative
  <2> QED BY <2>2, <2>3
<1> QED BY <1>1, <1>2 DEF Periods

\* The rows of a profile have one day each.
LEMMA OneRowADay ==
    ASSUME TablesInv, NEW p
    PROVE  /\ RowsOf(p) \subseteq snapshots /\ IsFiniteSet(RowsOf(p))
           /\ \A s \in RowsOf(p) : s.day \in Days /\ s.day \in Int
           /\ \A s, t \in RowsOf(p) : s.day = t.day => s = t
  BY FS_Subset DEF RowsOf, TablesInv, SnapshotRows, Days

\* A profile's newest row is the one of its last day.
LEMMA NewestIs ==
    ASSUME TablesInv, NEW p, NEW S, S \subseteq RowsOf(p), NEW s \in S, \A t \in S : t.day <= s.day
    PROVE  Newest(S) = s
<1>1. Newest(S) \in S /\ \A t \in S : t.day <= Newest(S).day
  BY Zenon DEF Newest
<1>2. s.day <= Newest(S).day /\ Newest(S).day <= s.day
  BY <1>1
<1>3. s.day = Newest(S).day
  BY <1>1, <1>2, OneRowADay
<1> QED BY <1>1, <1>3, OneRowADay

\* What a day has in the series: day by day, or from all rows up to it.
LEMMA RunningIsCarried ==
    ASSUME TablesInv, NEW q, q.first \in Int, q.last \in Int
    PROVE  \A d \in Spans(q), p \in Profiles : Running(q)[d][p] = Carried(q, d, p)
<1> DEFINE H == [d \in Spans(q) |-> [p \in Profiles |-> Carried(q, d, p)]]
<1>1. ASSUME NEW d \in Spans(q), NEW p \in Profiles
      PROVE  Carried(q, d, p)
               = IF d < q.first THEN FollowersOf(Before(q, p))
                 ELSE IF Today(q, d, p) = {} THEN H[d - 1][p] ELSE FollowersOf(Today(q, d, p))
  <2>0. d \in Int /\ q.first - 1 <= d /\ d <= q.last
    BY DEF Spans
  <2>1. CASE d < q.first
    <3>1. Known(q, d, p) = {}
      BY <2>0, <2>1 DEF Known
    <3> QED BY <2>1, <3>1 DEF Carried
  <2>2. CASE d >= q.first /\ Today(q, d, p) = {}
    <3>1. d - 1 \in Spans(q)
      BY <2>0, <2>2 DEF Spans
    <3>2. Known(q, d, p) = Known(q, d - 1, p)
      <4>1. \A s \in Positive(RowsOf(p)) :
               /\ KeyDay(s.day) \in Int
               /\ s.day \in q.first..q.last => KeyDay(s.day) # d
        BY <2>2, OneRowADay DEF Today, Positive, KeyDay
      <4> QED BY <2>0, <4>1 DEF Known
    <3> QED BY <2>0, <2>2, <3>1, <3>2 DEF Carried
  <2>3. CASE d >= q.first /\ Today(q, d, p) # {}
    <3>1. PICK s \in Positive(RowsOf(p)) : s.day \in q.first..q.last /\ KeyDay(s.day) = d
      BY <2>3 DEF Today
    <3>0. \A t \in Positive(RowsOf(p)) :
             t.day \in Int /\ KeyDay(t.day) \in Int /\ (KeyDay(t.day) <= d => t.day <= s.day)
      BY <2>0, <3>1, OneRowADay DEF Positive, KeyDay
    <3>2. /\ s \in Known(q, d, p) /\ Known(q, d, p) \subseteq RowsOf(p)
          /\ \A t \in Known(q, d, p) : t.day <= s.day
      BY <2>0, <2>3, <3>0, <3>1 DEF Known, Positive
    <3>3. /\ s \in Today(q, d, p) /\ Today(q, d, p) \subseteq RowsOf(p)
          /\ \A t \in Today(q, d, p) : t.day <= s.day
      BY <2>0, <3>0, <3>1 DEF Today, Positive
    <3>4. Newest(Known(q, d, p)) = s /\ Newest(Today(q, d, p)) = s
      BY <3>2, <3>3, NewestIs
    <3> QED BY <2>0, <2>3, <3>2, <3>4 DEF Carried, FollowersOf
  <2> QED BY <2>0, <2>1, <2>2, <2>3
<1>2. H = Carry(q, H)
  <2> DEFINE h(d) == [p \in Profiles |-> Carried(q, d, p)]
             body(d, p) == IF d < q.first THEN FollowersOf(Before(q, p))
                           ELSE IF Today(q, d, p) = {} THEN H[d - 1][p] ELSE FollowersOf(Today(q, d, p))
             r(d) == [p \in Profiles |-> body(d, p)]
  <2>1. Carry(q, H) = [d \in Spans(q) |-> r(d)]
    BY DEF Carry
  <2>2. ASSUME NEW d \in Spans(q) PROVE h(d) = r(d)
    <3>1. \A p \in Profiles : Carried(q, d, p) = body(d, p)
      BY <1>1
    <3> HIDE DEF body
    <3> QED BY <3>1
  <2>3. H = [d \in Spans(q) |-> h(d)]
    OBVIOUS
  <2> HIDE DEF h, r, H
  <2> QED BY <2>1, <2>2, <2>3
<1> HIDE DEF H
<1> DEFINE it == Running(q)
<1>3. it = Carry(q, it)
  BY <1>2, RunningIs, Zenon
<1> HIDE DEF it
<1> DEFINE Bad == {d \in Spans(q) : \E p \in Profiles : it[d][p] # H[d][p]}
<1>4. ASSUME NEW d \in Spans(q), NEW p \in Profiles, NEW f, f = Carry(q, f)
      PROVE  f[d][p] = IF d < q.first THEN FollowersOf(Before(q, p))
                       ELSE IF Today(q, d, p) = {} THEN f[d - 1][p] ELSE FollowersOf(Today(q, d, p))
  <2> DEFINE v(x, r) == IF x < q.first THEN FollowersOf(Before(q, r))
                        ELSE IF Today(q, x, r) = {} THEN f[x - 1][r] ELSE FollowersOf(Today(q, x, r))
  <2>1. f = [x \in Spans(q) |-> [r \in Profiles |-> v(x, r)]]
    BY <1>4 DEF Carry
  <2> HIDE DEF v
  <2>2. f[d][p] = v(d, p)
    BY <2>1
  <2> QED BY <2>2 DEF v
<1>5. Bad = {}
  <2> SUFFICES ASSUME Bad # {} PROVE FALSE
    OBVIOUS
  <2> DEFINE T == {d - (q.first - 1) : d \in Bad}
  <2>1. T \subseteq Nat /\ T # {}
    BY DEF Spans
  <2>2. PICK x \in T : \A y \in T : x <= y
    <3> HIDE DEF T
    <3> QED BY <2>1, LeastNat
  <2>3. PICK d \in Bad : x = d - (q.first - 1)
    OBVIOUS
  <2>4. d \in Spans(q) /\ d \in Int /\ q.first - 1 <= d
    BY DEF Spans
  <2>5. PICK p \in Profiles : it[d][p] # H[d][p]
    BY <2>3
  <2>6. d >= q.first /\ it[d - 1][p] # H[d - 1][p]
    BY <1>2, <1>3, <1>4, <2>4, <2>5
  <2>7. d - 1 \in Spans(q)
    BY <2>4, <2>6 DEF Spans
  <2>8. d - 1 \in Bad
    BY <2>6, <2>7
  <2>9. (d - 1) - (q.first - 1) \in T
    BY <2>8
  <2>10. x <= (d - 1) - (q.first - 1)
    BY <2>2, <2>9
  <2> HIDE DEF T, Bad
  <2> QED BY <2>3, <2>4, <2>10
<1>6. \A d \in Spans(q), p \in Profiles : H[d][p] = Carried(q, d, p)
  BY DEF H
<1> QED BY <1>5, <1>6 DEF it

Current == [p \in Profiles |-> FollowersOf(Positive(RowsOf(p)))]
Mailed == [p \in Profiles |-> FollowersOf(RowsOf(p))]
Ran(q, d) == [p \in Profiles |-> Running(q)[d][p]]
CarriedOn(q, d) == [p \in Profiles |-> Carried(q, d, p)]

\* The audience of a day.
LEMMA RanSum ==
    ASSUME NEW q, NEW d, NEW ids \in SUBSET Profiles
    PROVE  DayAudience(ids, q, d) = Sum(Ran(q, d), ids)
<1> DEFINE E(it) == [s \in SUBSET ids |-> IF s = {} THEN 0
                       ELSE Running(q)[d][First(s)] + it[Rest(s)]]
           all == DayAudience(ids, q, d)
<1>1. all = (CHOOSE it : it = E(it))[ids]
  BY Zenon DEF DayAudience, MapThenSumSet, MapThenFoldSet, First, Rest
<1>2. ASSUME NEW it PROVE E(it) = Step(Ran(q, d), ids, it)
  <2>1. ASSUME NEW s \in SUBSET ids, s # {} PROVE Running(q)[d][First(s)] = Ran(q, d)[First(s)]
    BY <2>1, FirstIn DEF Ran
  <2> QED BY <2>1 DEF Step
<1> HIDE DEF E, all
<1>3. (CHOOSE it : it = E(it)) = Partial(Ran(q, d), ids)
  BY <1>2, Zenon DEF Partial
<1>4. all = Sum(Ran(q, d), ids)
  BY <1>1, <1>3, SumUnfold, Zenon
<1> QED BY <1>4 DEF all

\* The audience as the property says it.
LEMMA CarriedSum ==
    ASSUME NEW q, NEW d, NEW ids \in SUBSET Profiles
    PROVE  MapThenSumSet(LAMBDA p : Carried(q, d, p), ids) = Sum(CarriedOn(q, d), ids)
<1> DEFINE E(it) == [s \in SUBSET ids |-> IF s = {} THEN 0
                       ELSE Carried(q, d, First(s)) + it[Rest(s)]]
           all == MapThenSumSet(LAMBDA p : Carried(q, d, p), ids)
<1>1. all = (CHOOSE it : it = E(it))[ids]
  BY Zenon DEF MapThenSumSet, MapThenFoldSet, First, Rest
<1>2. ASSUME NEW it PROVE E(it) = Step(CarriedOn(q, d), ids, it)
  <2>1. ASSUME NEW s \in SUBSET ids, s # {} PROVE Carried(q, d, First(s)) = CarriedOn(q, d)[First(s)]
    BY <2>1, FirstIn DEF CarriedOn
  <2> QED BY <2>1 DEF Step
<1> HIDE DEF E, all
<1>3. (CHOOSE it : it = E(it)) = Partial(CarriedOn(q, d), ids)
  BY <1>2, Zenon DEF Partial
<1>4. all = Sum(CarriedOn(q, d), ids)
  BY <1>1, <1>3, SumUnfold, Zenon
<1> QED BY <1>4 DEF all

\* The audience of the newest rows that have any.
LEMMA CurrentSum ==
    ASSUME NEW ids \in SUBSET Profiles
    PROVE  CurrentAudience(ids) = Sum(Current, ids)
<1> DEFINE E(it) == [s \in SUBSET ids |-> IF s = {} THEN 0
                       ELSE FollowersOf(Positive(RowsOf(First(s)))) + it[Rest(s)]]
           all == CurrentAudience(ids)
<1>1. all = (CHOOSE it : it = E(it))[ids]
  BY Zenon DEF CurrentAudience, MapThenSumSet, MapThenFoldSet, First, Rest
<1>2. ASSUME NEW it PROVE E(it) = Step(Current, ids, it)
  <2>1. ASSUME NEW s \in SUBSET ids, s # {} PROVE FollowersOf(Positive(RowsOf(First(s)))) = Current[First(s)]
    BY <2>1, FirstIn DEF Current
  <2> QED BY <2>1 DEF Step
<1> HIDE DEF E, all
<1>3. (CHOOSE it : it = E(it)) = Partial(Current, ids)
  BY <1>2, Zenon DEF Partial
<1>4. all = Sum(Current, ids)
  BY <1>1, <1>3, SumUnfold, Zenon
<1> QED BY <1>4 DEF all

\* The audience of the mail.
LEMMA MailedSum ==
    ASSUME TablesInv
    PROVE  MailAudience = Sum(Mailed, active)
<1> DEFINE E(it) == [s \in SUBSET active |-> IF s = {} THEN 0
                       ELSE FollowersOf(RowsOf(First(s))) + it[Rest(s)]]
           all == MailAudience
<1>1. all = (CHOOSE it : it = E(it))[active]
  BY Zenon DEF MailAudience, MapThenSumSet, MapThenFoldSet, First, Rest
<1>2. ASSUME NEW it PROVE E(it) = Step(Mailed, active, it)
  <2>1. ASSUME NEW s \in SUBSET active, s # {} PROVE FollowersOf(RowsOf(First(s))) = Mailed[First(s)]
    BY <2>1, FirstIn DEF Mailed, TablesInv
  <2> QED BY <2>1 DEF Step
<1> HIDE DEF E, all
<1>3. (CHOOSE it : it = E(it)) = Partial(Mailed, active)
  BY <1>2, Zenon DEF Partial
<1>4. all = Sum(Mailed, active)
  BY <1>1, <1>3, SumUnfold, Zenon
<1> QED BY <1>4 DEF all

\* A set of rows that is not empty has a newest one.
LEMMA HasNewest ==
    ASSUME TablesInv, NEW p, NEW S, S \subseteq RowsOf(p), S # {}
    PROVE  \E s \in S : \A t \in S : t.day <= s.day
<1> DEFINE T == {s.day : s \in S}
<1>1. T \subseteq Days /\ T # {}
  BY OneRowADay
<1>2. \E x \in T : \A y \in T : y <= x
  <2> HIDE DEF T
  <2> QED BY <1>1, MaxIsGreatest
<1> QED BY <1>2

\* The audience of the last day is that of the newest rows.
LEMMA LastDayIsCurrent ==
    ASSUME TablesInv, NEW q, q.first \in Int, q.last \in Int, q.first <= q.last,
           \A s \in snapshots : /\ s.day <= q.last /\ s.followers > 0
                                /\ s.day >= q.first => KeyDay(s.day) >= q.first,
           NEW p \in Profiles
    PROVE  /\ Positive(RowsOf(p)) = RowsOf(p)
           /\ Carried(q, q.last, p) = FollowersOf(Positive(RowsOf(p)))
<1> DEFINE S == RowsOf(p)
           K == Known(q, q.last, p)
<1>1. /\ S \subseteq snapshots
      /\ \A s \in S : s.day \in Int /\ s.day <= q.last /\ s.followers > 0
      /\ \A s \in S : s.day >= q.first => KeyDay(s.day) \in q.first..q.last
  BY OneRowADay DEF KeyDay
<1>2. Positive(S) = S
  BY <1>1 DEF Positive
<1>3. K = {s \in S : s.day >= q.first}
  BY <1>1, <1>2 DEF Known
<1>4. CASE K = {}
  <2>1. Before(q, p) = S
    BY <1>1, <1>3, <1>4 DEF Before
  <2> QED BY <1>2, <1>4, <2>1 DEF Carried
<1>5. CASE K # {}
  <2>1. K \subseteq S
    BY <1>3
  <2> HIDE DEF K
  <2>2. PICK s \in K : \A t \in K : t.day <= s.day
    BY <1>5, <2>1, HasNewest
  <2>3. s \in S /\ s.day >= q.first /\ S # {}
    BY <1>3, <2>2
  <2>4. \A t \in S : t.day <= s.day
    <3>1. ASSUME NEW t \in S PROVE t.day <= s.day
      <4>1. CASE t \in K
        BY <2>2, <4>1
      <4>2. CASE t \notin K
        BY <1>1, <1>3, <2>3, <4>2
      <4> QED BY <4>1, <4>2
    <3> QED BY <3>1
  <2>5. Newest(K) = s /\ Newest(S) = s
    BY <2>1, <2>2, <2>3, <2>4, NewestIs
  <2> QED BY <1>2, <1>5, <2>3, <2>5 DEF Carried, FollowersOf, K
<1> QED BY <1>2, <1>4, <1>5

\* The profiles that a screen is asked for.
LEMMA AskedAreProfiles == ASSUME TablesInv, NEW ids \in Asked PROVE ids \in SUBSET Profiles
  BY DEF TablesInv, Asked

\* The carried audience, and its last day.
LEMMA AudienceHolds == TablesInv => AudienceIsCarried
<1> SUFFICES ASSUME TablesInv, NEW q \in Periods, q.first <= q.last
             PROVE  /\ \A ids \in Asked, d \in q.first..q.last :
                          DayAudience(ids, q, d) = MapThenSumSet(LAMBDA p : Carried(q, d, p), ids)
                    /\ (\A s \in snapshots :
                          /\ s.day <= q.last /\ s.followers > 0
                          /\ s.day >= q.first => KeyDay(s.day) >= q.first) =>
                          /\ \A ids \in Asked :
                                DayAudience(ids, q, q.last) = CurrentAudience(ids)
                          /\ CurrentAudience(active) = MailAudience
                    /\ \A ids \in Asked : CurrentAudience(ids) = MapThenSumSet(PageFollowers, ids)
  BY Zenon DEF AudienceIsCarried, Carried, Known, Before
<1>1. q.first \in Int /\ q.last \in Int
  BY PeriodDates
<1>2. ASSUME NEW ids \in SUBSET Profiles, NEW d \in q.first..q.last
      PROVE  /\ DayAudience(ids, q, d) = Sum(CarriedOn(q, d), ids)
             /\ DayAudience(ids, q, d) = MapThenSumSet(LAMBDA p : Carried(q, d, p), ids)
  <2>1. d \in Spans(q)
    BY <1>1 DEF Spans
  <2>2. \A p \in ids : Ran(q, d)[p] = CarriedOn(q, d)[p]
    BY <1>1, <2>1, RunningIsCarried DEF Ran, CarriedOn
  <2>3. Sum(Ran(q, d), ids) = Sum(CarriedOn(q, d), ids)
    BY <2>2, SumSame
  <2> QED BY <2>3, RanSum, CarriedSum
<1>3. ASSUME \A s \in snapshots : /\ s.day <= q.last /\ s.followers > 0
                                  /\ s.day >= q.first => KeyDay(s.day) >= q.first
      PROVE  /\ \A ids \in SUBSET Profiles : DayAudience(ids, q, q.last) = CurrentAudience(ids)
             /\ CurrentAudience(active) = MailAudience
  <2>1. q.last \in q.first..q.last
    BY <1>1
  <2>2. \A p \in Profiles : /\ CarriedOn(q, q.last)[p] = Current[p]
                            /\ Current[p] = Mailed[p]
    BY <1>1, <1>3, LastDayIsCurrent DEF CarriedOn, Current, Mailed
  <2>3. ASSUME NEW ids \in SUBSET Profiles
        PROVE  /\ Sum(CarriedOn(q, q.last), ids) = Sum(Current, ids)
               /\ Sum(Current, ids) = Sum(Mailed, ids)
    BY <2>2, SumSame
  <2>4. active \in SUBSET Profiles
    BY DEF TablesInv
  <2> QED BY <1>2, <2>1, <2>3, <2>4, CurrentSum, MailedSum
<1>4. \A ids \in Asked : CurrentAudience(ids) = MapThenSumSet(PageFollowers, ids)
  BY Zenon DEF CurrentAudience, MapThenSumSet, MapThenFoldSet, PageFollowers
<1> QED BY <1>2, <1>3, <1>4, AskedAreProfiles

\* What rows are worth.
Worths(metric) == [s \in snapshots |-> SnapshotValue(metric, s)]
PostWorths(metric) == [p \in posts |-> PostValue(metric, p)]
PageWorths(q, metric) == [p \in Profiles |-> PageTotal(q, metric, p)]
DayWorths(ids, q, metric) == [d \in q.first..q.last |-> DayTotal(ids, q, metric, d)]

\* The figures of some snapshots.
LEMMA WorthsSum ==
    ASSUME NEW metric, NEW S, S \subseteq snapshots
    PROVE  SumSnapshots(metric, S) = Sum(Worths(metric), S)
<1> DEFINE E(it) == [s \in SUBSET S |-> IF s = {} THEN 0
                       ELSE SnapshotValue(metric, First(s)) + it[Rest(s)]]
           all == SumSnapshots(metric, S)
<1>1. all = (CHOOSE it : it = E(it))[S]
  BY Zenon DEF SumSnapshots, MapThenSumSet, MapThenFoldSet, First, Rest
<1>2. ASSUME NEW it PROVE E(it) = Step(Worths(metric), S, it)
  <2>1. ASSUME NEW s \in SUBSET S, s # {} PROVE SnapshotValue(metric, First(s)) = Worths(metric)[First(s)]
    BY <2>1, FirstIn DEF Worths
  <2> QED BY <2>1 DEF Step
<1> HIDE DEF E, all
<1>3. (CHOOSE it : it = E(it)) = Partial(Worths(metric), S)
  BY <1>2, Zenon DEF Partial
<1>4. all = Sum(Worths(metric), S)
  BY <1>1, <1>3, SumUnfold, Zenon
<1> QED BY <1>4 DEF all

\* The figures of some posts.
LEMMA PostWorthsSum ==
    ASSUME NEW metric, NEW S, S \subseteq posts
    PROVE  SumPosts(metric, S) = Sum(PostWorths(metric), S)
<1> DEFINE E(it) == [s \in SUBSET S |-> IF s = {} THEN 0
                       ELSE PostValue(metric, First(s)) + it[Rest(s)]]
           all == SumPosts(metric, S)
<1>1. all = (CHOOSE it : it = E(it))[S]
  BY Zenon DEF SumPosts, MapThenSumSet, MapThenFoldSet, First, Rest
<1>2. ASSUME NEW it PROVE E(it) = Step(PostWorths(metric), S, it)
  <2>1. ASSUME NEW s \in SUBSET S, s # {} PROVE PostValue(metric, First(s)) = PostWorths(metric)[First(s)]
    BY <2>1, FirstIn DEF PostWorths
  <2> QED BY <2>1 DEF Step
<1> HIDE DEF E, all
<1>3. (CHOOSE it : it = E(it)) = Partial(PostWorths(metric), S)
  BY <1>2, Zenon DEF Partial
<1>4. all = Sum(PostWorths(metric), S)
  BY <1>1, <1>3, SumUnfold, Zenon
<1> QED BY <1>4 DEF all

\* The figures of the pages asked for.
LEMMA PageWorthsSum ==
    ASSUME NEW q, NEW metric, NEW ids \in SUBSET Profiles
    PROVE  MapThenSumSet(LAMBDA p : PageTotal(q, metric, p), ids) = Sum(PageWorths(q, metric), ids)
<1> DEFINE E(it) == [s \in SUBSET ids |-> IF s = {} THEN 0
                       ELSE PageTotal(q, metric, First(s)) + it[Rest(s)]]
           all == MapThenSumSet(LAMBDA p : PageTotal(q, metric, p), ids)
<1>1. all = (CHOOSE it : it = E(it))[ids]
  BY Zenon DEF MapThenSumSet, MapThenFoldSet, First, Rest
<1>2. ASSUME NEW it PROVE E(it) = Step(PageWorths(q, metric), ids, it)
  <2>1. ASSUME NEW s \in SUBSET ids, s # {} PROVE PageTotal(q, metric, First(s)) = PageWorths(q, metric)[First(s)]
    BY <2>1, FirstIn DEF PageWorths
  <2> QED BY <2>1 DEF Step
<1> HIDE DEF E, all
<1>3. (CHOOSE it : it = E(it)) = Partial(PageWorths(q, metric), ids)
  BY <1>2, Zenon DEF Partial
<1>4. all = Sum(PageWorths(q, metric), ids)
  BY <1>1, <1>3, SumUnfold, Zenon
<1> QED BY <1>4 DEF all

\* The figures of all days.
LEMMA DayWorthsSum ==
    ASSUME NEW ids, NEW q, NEW metric
    PROVE  Total(ids, q, metric) = Sum(DayWorths(ids, q, metric), q.first..q.last)
<1> DEFINE E(it) == [s \in SUBSET q.first..q.last |-> IF s = {} THEN 0
                       ELSE DayTotal(ids, q, metric, First(s)) + it[Rest(s)]]
           all == Total(ids, q, metric)
<1>1. all = (CHOOSE it : it = E(it))[q.first..q.last]
  BY Zenon DEF Total, MapThenSumSet, MapThenFoldSet, First, Rest
<1>2. ASSUME NEW it PROVE E(it) = Step(DayWorths(ids, q, metric), q.first..q.last, it)
  <2>1. ASSUME NEW s \in SUBSET q.first..q.last, s # {} PROVE DayTotal(ids, q, metric, First(s)) = DayWorths(ids, q, metric)[First(s)]
    BY <2>1, FirstIn DEF DayWorths
  <2> QED BY <2>1 DEF Step
<1> HIDE DEF E, all
<1>3. (CHOOSE it : it = E(it)) = Partial(DayWorths(ids, q, metric), q.first..q.last)
  BY <1>2, Zenon DEF Partial
<1>4. all = Sum(DayWorths(ids, q, metric), q.first..q.last)
  BY <1>1, <1>3, SumUnfold, Zenon
<1> QED BY <1>4 DEF all

\* Sums of rows are integers.
LEMMA RowSums ==
    ASSUME TablesInv, NEW metric \in Metrics
    PROVE  /\ \A s \in snapshots : Worths(metric)[s] \in Int
           /\ \A p \in posts : PostWorths(metric)[p] \in Int
           /\ \A S \in SUBSET snapshots :
                 IsFiniteSet(S) /\ SumSnapshots(metric, S) = Sum(Worths(metric), S)
                 /\ SumSnapshots(metric, S) \in Int
           /\ \A S \in SUBSET posts :
                 IsFiniteSet(S) /\ SumPosts(metric, S) = Sum(PostWorths(metric), S)
                 /\ SumPosts(metric, S) \in Int
<1>1. \A s \in snapshots : Worths(metric)[s] \in Int
  BY DEF Worths, SnapshotValue, Metrics
<1>2. \A p \in posts : PostWorths(metric)[p] \in Int
  BY DEF PostWorths, PostValue, Metrics
<1>3. ASSUME NEW S \in SUBSET snapshots
      PROVE  /\ IsFiniteSet(S) /\ SumSnapshots(metric, S) = Sum(Worths(metric), S)
             /\ SumSnapshots(metric, S) \in Int
  <2>1. IsFiniteSet(S) /\ \A s \in S : Worths(metric)[s] \in Int
    BY <1>1, FS_Subset DEF TablesInv
  <2>2. SumSnapshots(metric, S) = Sum(Worths(metric), S)
    BY WorthsSum
  <2> QED BY <2>1, <2>2, SumType
<1>4. ASSUME NEW S \in SUBSET posts
      PROVE  /\ IsFiniteSet(S) /\ SumPosts(metric, S) = Sum(PostWorths(metric), S)
             /\ SumPosts(metric, S) \in Int
  <2>1. IsFiniteSet(S) /\ \A p \in S : PostWorths(metric)[p] \in Int
    BY <1>2, FS_Subset DEF TablesInv
  <2>2. SumPosts(metric, S) = Sum(PostWorths(metric), S)
    BY PostWorthsSum
  <2> QED BY <2>1, <2>2, SumType
<1> QED BY <1>1, <1>2, <1>3, <1>4

\* Rows of both tables, part by part.
LEMMA PartsOfBoth ==
    ASSUME TablesInv, NEW metric \in Metrics, NEW S \in SUBSET snapshots, NEW P \in SUBSET posts,
           NEW K, IsFiniteSet(K), NEW f, NEW g, NEW h,
           \A s \in S : f[s] \in K, \A p \in P : g[p] \in K,
           \A k \in K : h[k] = SumSnapshots(metric, PartOf(S, f, k)) + SumPosts(metric, PartOf(P, g, k))
    PROVE  Sum(h, K) = SumSnapshots(metric, S) + SumPosts(metric, P)
<1> DEFINE v == [k \in K |-> Sum(Worths(metric), PartOf(S, f, k))]
           w == [k \in K |-> Sum(PostWorths(metric), PartOf(P, g, k))]
<1>1. ASSUME NEW k \in K
      PROVE  /\ v[k] = SumSnapshots(metric, PartOf(S, f, k)) /\ v[k] \in Int
             /\ w[k] = SumPosts(metric, PartOf(P, g, k)) /\ w[k] \in Int
  <2>1. PartOf(S, f, k) \in SUBSET snapshots /\ PartOf(P, g, k) \in SUBSET posts
    BY DEF PartOf
  <2> QED BY <2>1, RowSums
<1>2. /\ \A k \in K : v[k] = Sum(Worths(metric), PartOf(S, f, k))
      /\ \A k \in K : w[k] = Sum(PostWorths(metric), PartOf(P, g, k))
  OBVIOUS
<1>3. /\ IsFiniteSet(S) /\ \A s \in S : Worths(metric)[s] \in Int
      /\ IsFiniteSet(P) /\ \A p \in P : PostWorths(metric)[p] \in Int
  BY RowSums
<1> HIDE DEF v, w
<1>4. Sum(v, K) = Sum(Worths(metric), S)
  BY <1>2, <1>3, SumParts
<1>5. Sum(w, K) = Sum(PostWorths(metric), P)
  BY <1>2, <1>3, SumParts
<1>6. \A k \in K : v[k] \in Int /\ w[k] \in Int /\ h[k] = v[k] + w[k]
  BY <1>1
<1>7. Sum(h, K) = Sum(v, K) + Sum(w, K)
  BY <1>6, SumPlus
<1> QED BY <1>4, <1>5, <1>7, RowSums

\* The pages together have every row of the period.
LEMMA PagesHaveAll ==
    ASSUME TablesInv, IsFiniteSet(Facebook), IsFiniteSet(Instagram),
           NEW ids \in SUBSET Profiles, NEW q, NEW metric \in Metrics
    PROVE  MapThenSumSet(LAMBDA p : PageTotal(q, metric, p), ids)
             = SumSnapshots(metric, SnapshotsOf(ids, q.first, q.last))
               + SumPosts(metric, PostsOf(ids, q.from, q.to))
<1> DEFINE S == SnapshotsOf(ids, q.first, q.last)
           P == PostsOf(ids, q.from, q.to)
           f == [s \in snapshots |-> s.profile]
           g == [p \in posts |-> p.profile]
           h == PageWorths(q, metric)
<1>1. S \in SUBSET snapshots /\ P \in SUBSET posts
  BY DEF SnapshotsOf, PostsOf
<1>2. (\A s \in S : f[s] \in ids) /\ \A p \in P : g[p] \in ids
  BY DEF SnapshotsOf, PostsOf
<1>3. \A k \in ids :
         h[k] = SumSnapshots(metric, PartOf(S, f, k)) + SumPosts(metric, PartOf(P, g, k))
  <2>1. \A k \in ids : /\ PartOf(S, f, k) = SnapshotsOf({k}, q.first, q.last)
                       /\ PartOf(P, g, k) = PostsOf({k}, q.from, q.to)
    BY DEF PartOf, SnapshotsOf, PostsOf
  <2> QED BY <2>1 DEF PageWorths, PageTotal
<1>4. IsFiniteSet(ids)
  BY FS_Union, FS_Subset DEF Profiles
<1> HIDE DEF S, P, f, g, h
<1>5. Sum(h, ids) = SumSnapshots(metric, S) + SumPosts(metric, P)
  BY <1>1, <1>2, <1>3, <1>4, PartsOfBoth
<1> QED BY <1>5, PageWorthsSum DEF S, P, h

\* A sum of rows, less some of them.
LEMMA WithoutSome ==
    ASSUME TablesInv, NEW metric \in Metrics
    PROVE  /\ \A S \in SUBSET snapshots : \A T \in SUBSET S :
                SumSnapshots(metric, S) = SumSnapshots(metric, S \ T) + SumSnapshots(metric, T)
           /\ \A S \in SUBSET posts : \A T \in SUBSET S :
                SumPosts(metric, S) = SumPosts(metric, S \ T) + SumPosts(metric, T)
<1>1. ASSUME NEW S \in SUBSET snapshots, NEW T \in SUBSET S
      PROVE  SumSnapshots(metric, S) = SumSnapshots(metric, S \ T) + SumSnapshots(metric, T)
  <2> DEFINE w == Worths(metric)
             R == S \ T
  <2>1. T \in SUBSET snapshots /\ R \in SUBSET snapshots /\ R \cap T = {} /\ R \cup T = S
    OBVIOUS
  <2>2. IsFiniteSet(R) /\ IsFiniteSet(T) /\ \A x \in R \cup T : w[x] \in Int
    BY <2>1, RowSums
  <2> HIDE DEF w, R
  <2>3. Sum(w, R \cup T) = Sum(w, R) + Sum(w, T)
    BY <2>1, <2>2, SumUnion
  <2>4. Sum(w, S) = Sum(w, R) + Sum(w, T)
    BY <2>1, <2>3
  <2> QED BY <2>1, <2>4, RowSums DEF w, R
<1>2. ASSUME NEW S \in SUBSET posts, NEW T \in SUBSET S
      PROVE  SumPosts(metric, S) = SumPosts(metric, S \ T) + SumPosts(metric, T)
  <2> DEFINE w == PostWorths(metric)
             R == S \ T
  <2>1. T \in SUBSET posts /\ R \in SUBSET posts /\ R \cap T = {} /\ R \cup T = S
    OBVIOUS
  <2>2. IsFiniteSet(R) /\ IsFiniteSet(T) /\ \A x \in R \cup T : w[x] \in Int
    BY <2>1, RowSums
  <2> HIDE DEF w, R
  <2>3. Sum(w, R \cup T) = Sum(w, R) + Sum(w, T)
    BY <2>1, <2>2, SumUnion
  <2>4. Sum(w, S) = Sum(w, R) + Sum(w, T)
    BY <2>1, <2>3
  <2> QED BY <2>1, <2>4, RowSums DEF w, R
<1> QED BY <1>1, <1>2

\* So have the days, but for rows that are found under a day before the first.
LEMMA DaysHaveAll ==
    ASSUME TablesInv, NEW ids \in SUBSET Profiles, NEW q \in Periods, NEW metric \in Metrics
    PROVE  Total(ids, q, metric)
             + SumSnapshots(metric, {s \in SnapshotsOf(ids, q.first, q.last) :
                                       KeyDay(s.day) < q.first})
             + SumPosts(metric, {p \in PostsOf(ids, q.from, q.to) : DbDay(p.at) < q.first})
             = SumSnapshots(metric, SnapshotsOf(ids, q.first, q.last))
               + SumPosts(metric, PostsOf(ids, q.from, q.to))
<1> DEFINE Rows1 == SnapshotsOf(ids, q.first, q.last)
           Lost == {s \in Rows1 : KeyDay(s.day) < q.first}
           S == Rows1 \ Lost
           All == PostsOf(ids, q.from, q.to)
           Early == {p \in All : DbDay(p.at) < q.first}
           P == All \ Early
           K == q.first..q.last
           f == [s \in snapshots |-> KeyDay(s.day)]
           g == [p \in posts |-> DbDay(p.at)]
           h == DayWorths(ids, q, metric)
<1>1. /\ Rows1 \in SUBSET snapshots /\ Lost \in SUBSET Rows1 /\ S \in SUBSET snapshots
      /\ All \in SUBSET posts /\ Early \in SUBSET All /\ P \in SUBSET posts
  BY DEF SnapshotsOf, PostsOf
<1>2. ASSUME NEW p \in All PROVE DbDay(p.at) \in Int /\ DbDay(p.at) <= q.last
  <2>1. p.at \in Int /\ p.at <= q.to
    BY PeriodDates DEF PostsOf, TablesInv, PostRows, Instants
  <2> QED BY <2>1, PeriodDates DEF DbDay
<1>3. \A p \in P : g[p] \in K
  BY <1>1, <1>2, PeriodDates
<1>4. \A s \in S : f[s] \in K
  <2>1. ASSUME NEW s \in S PROVE KeyDay(s.day) \in Int /\ q.first <= KeyDay(s.day) /\ KeyDay(s.day) <= q.last
    <3>1. s.day \in Int /\ s.day <= q.last
      BY DEF SnapshotsOf, TablesInv, SnapshotRows, Days
    <3> QED BY <3>1, PeriodDates DEF KeyDay
  <2> QED BY <1>1, <2>1, PeriodDates
<1>5. ASSUME NEW d \in K
      PROVE  h[d] = SumSnapshots(metric, PartOf(S, f, d)) + SumPosts(metric, PartOf(P, g, d))
  <2>1. d \in Int /\ q.first <= d /\ d <= q.last
    BY PeriodDates
  <2>2. PartOf(S, f, d) = {s \in Rows1 : KeyDay(s.day) = d}
    BY <1>1, <2>1, PeriodDates DEF PartOf
  <2>3. PartOf(P, g, d) = {p \in All : DbDay(p.at) = d}
    BY <1>1, <2>1, PeriodDates DEF PartOf
  <2> QED BY <2>2, <2>3 DEF DayWorths, DayTotal
<1>6. IsFiniteSet(K)
  BY PeriodDates, FS_Interval
<1> HIDE DEF K, f, g, h
<1>8. Sum(h, K) = SumSnapshots(metric, S) + SumPosts(metric, P)
  <2> HIDE DEF S, P
  <2> QED BY <1>1, <1>3, <1>4, <1>5, <1>6, PartsOfBoth
<1>9. /\ SumPosts(metric, All) = SumPosts(metric, P) + SumPosts(metric, Early)
      /\ SumSnapshots(metric, Rows1) = SumSnapshots(metric, S) + SumSnapshots(metric, Lost)
  <2> HIDE DEF All, Early, Rows1, Lost
  <2> QED BY <1>1, WithoutSome
<1>10. Total(ids, q, metric) = Sum(h, K)
  BY DayWorthsSum DEF h, K
<1> HIDE DEF S, P, All, Early, Rows1, Lost
<1>11. /\ SumSnapshots(metric, S) \in Int /\ SumSnapshots(metric, Lost) \in Int
       /\ SumPosts(metric, P) \in Int /\ SumPosts(metric, Early) \in Int
  <2>1. Lost \in SUBSET snapshots /\ Early \in SUBSET posts
    BY <1>1
  <2> QED BY <1>1, <2>1, RowSums
<1>12. Total(ids, q, metric) + SumSnapshots(metric, Lost) + SumPosts(metric, Early)
         = SumSnapshots(metric, Rows1) + SumPosts(metric, All)
  BY <1>8, <1>9, <1>10, <1>11
<1> QED BY <1>12 DEF Rows1, Lost, All, Early

\* Pages and days add up to the same.
LEMMA PagesAndDaysAgree ==
    ASSUME TablesInv, IsFiniteSet(Facebook), IsFiniteSet(Instagram)
    PROVE  PagesAddUp
<1> SUFFICES ASSUME NEW ids \in Asked, NEW q \in Periods, NEW metric \in Metrics
             PROVE  MapThenSumSet(LAMBDA p : PageTotal(q, metric, p), ids)
                      = Total(ids, q, metric)
                        + SumSnapshots(metric, {s \in SnapshotsOf(ids, q.first, q.last) :
                                                  KeyDay(s.day) < q.first})
                        + SumPosts(metric, {p \in PostsOf(ids, q.from, q.to) :
                                              DbDay(p.at) < q.first})
  BY DEF PagesAddUp
<1>1. ids \in SUBSET Profiles
  BY AskedAreProfiles
<1> QED BY <1>1, PagesHaveAll, DaysHaveAll, Zenon

\* The view of one profile: posts after now there are none.
LEMMA OneProfileAgrees ==
    ASSUME TablesInv
    PROVE  ProfileAgrees
<1> SUFFICES ASSUME NEW p \in Profiles, NEW days \in 1..2, NEW now, now = 2 * LastDay + 1,
                    NEW q, q = Relative(now, days)
             PROVE  PageTotal(q, "engagements", p) = SmartEngagements(p, now, days)
                      + SumSnapshots("engagements", SnapshotsOf({p}, q.first, q.last))
  BY DEF ProfileAgrees
<1> DEFINE S == SnapshotsOf({p}, q.first, q.last)
           P == PostsOf({p}, q.from, q.to)
<1>1. P = {x \in posts : x.profile = p /\ x.at >= now - 2 * days}
  <2>1. q.from = now - 2 * days /\ q.to = now /\ now \in Int /\ now - 2 * days \in Int
    BY BoundsAssumption DEF Relative
  <2>2. \A x \in posts : x.at \in Int /\ x.at <= now
    BY BoundsAssumption DEF TablesInv, PostRows, Instants
  <2> QED BY <2>1, <2>2 DEF PostsOf
<1>2. S \in SUBSET snapshots /\ P \in SUBSET posts
  BY DEF SnapshotsOf, PostsOf
<1>3. /\ PageTotal(q, "engagements", p) = SumSnapshots("engagements", S) + SumPosts("engagements", P)
      /\ SmartEngagements(p, now, days) = SumPosts("engagements", P)
  BY <1>1 DEF PageTotal, SmartEngagements
<1> HIDE DEF S, P
<1>4. SumSnapshots("engagements", S) \in Int /\ SumPosts("engagements", P) \in Int
  BY <1>2, RowSums DEF Metrics
<1>5. PageTotal(q, "engagements", p) = SmartEngagements(p, now, days) + SumSnapshots("engagements", S)
  BY <1>3, <1>4
<1> QED BY <1>5 DEF S

\* The mail has what the active pages have, and compares with the same days before.
LEMMA MailAndPagesAgree ==
    ASSUME TablesInv, IsFiniteSet(Facebook), IsFiniteSet(Instagram)
    PROVE  MailAgrees
<1> SUFFICES ASSUME NEW first \in Days, NEW last \in Days, first <= last, NEW metric \in Metrics
             PROVE  LET q == Explicit(first, last)
                        prev == MailPrevious(first, last)
                    IN
                    /\ MailTotal(first, last, metric)
                         = MapThenSumSet(LAMBDA p : PageTotal(q, metric, p), active)
                    /\ PreviousTotal(active, q, metric)
                         = MailTotal(prev[1], prev[2], metric)
                           + (IF metric = "impressions"
                              THEN SumSnapshots("videoViews", SnapshotsOf(active, prev[1], prev[2]))
                              ELSE 0)
  BY DEF MailAgrees
<1> DEFINE q == Explicit(first, last)
           prev == MailPrevious(first, last)
<1>0. active \in SUBSET Profiles
  BY DEF TablesInv
<1>1. first \in Int /\ last \in Int
  BY DEF Days
<1>2. /\ q.first = first /\ q.last = last /\ q.from = 2 * first /\ q.to = 2 * last + 1
      /\ q.prevFirst = 2 * first - last - 1 /\ q.prevFrom = 2 * (2 * first - last - 1)
  BY DEF Explicit
<1>3. prev[1] = q.prevFirst /\ prev[2] = q.first - 1
  BY <1>1, <1>2 DEF MailPrevious
<1> HIDE DEF q, prev
<1>4. 2 * prev[1] = q.prevFrom /\ 2 * prev[2] + 1 = q.from - 1
  BY <1>1, <1>2, <1>3
<1>5. MailTotal(first, last, metric) = MapThenSumSet(LAMBDA p : PageTotal(q, metric, p), active)
  <2>1. MailTotal(first, last, metric)
          = SumSnapshots(metric, SnapshotsOf(active, q.first, q.last))
            + SumPosts(metric, PostsOf(active, q.from, q.to))
    BY <1>2 DEF MailTotal
  <2> QED BY <1>0, <2>1, PagesHaveAll, Zenon
<1> DEFINE S == SnapshotsOf(active, q.prevFirst, q.first - 1)
           P == PostsOf(active, q.prevFrom, q.from - 1)
           x == IF metric = "impressions" THEN SumSnapshots("videoViews", S) ELSE 0
<1>6. /\ PreviousTotal(active, q, metric) = SumSnapshots(metric, S) + x + SumPosts(metric, P)
      /\ MailTotal(prev[1], prev[2], metric) = SumSnapshots(metric, S) + SumPosts(metric, P)
  BY <1>3, <1>4 DEF PreviousTotal, MailTotal
<1>7. S \in SUBSET snapshots /\ P \in SUBSET posts
  BY DEF SnapshotsOf, PostsOf
<1>8. SumSnapshots(metric, S) \in Int /\ SumPosts(metric, P) \in Int /\ x \in Int
  <2>1. "videoViews" \in Metrics
    BY DEF Metrics
  <2> HIDE DEF S, P
  <2> QED BY <1>7, <2>1, RowSums
<1> HIDE DEF S, P, x
<1>9. PreviousTotal(active, q, metric) = MailTotal(prev[1], prev[2], metric) + x
  BY <1>6, <1>8
<1> QED BY <1>3, <1>5, <1>9 DEF x, S, q, prev

\* The screens, the pages, the view of one profile and the mail report the same
\* figures of the two tables.
THEOREM ReportsAgreeAlways ==
    ASSUME IsFiniteSet(Facebook), IsFiniteSet(Instagram)
    PROVE  Spec => []ReportsAgree
<1>1. MoneyInv => ReportsAgree
  BY PagesAndDaysAgree, OneProfileAgrees, MailAndPagesAgree, AudienceHolds, ChangesHaveSigns
     DEF MoneyInv, ReportsAgree
<1> QED BY <1>1, MoneyHolds, PTL
=============================================================================
