-------------------------------- MODULE Sums --------------------------------
(***************************************************************************)
(* What the totals of the models rest on: SumFunctionOnSet(w, S), the sum  *)
(* of the values of the function w over the finite set S, whichever        *)
(* element the fold takes first.                                           *)
(*                                                                         *)
(* A fold is a recursive function on the subsets of S.  That there is such *)
(* a function, and what it computes, is shown on a smallest set that would *)
(* contradict it (MinimalSubset), which needs no induction scheme.         *)
(***************************************************************************)
EXTENDS Integers, FiniteSets, Functions, FiniteSetTheorems, WellFoundedInduction, TLAPS

Pick(S) == CHOOSE x \in S : TRUE

\* The recursion of the fold: what it says of s, and a function it defines.
OneStep(it, w, s) == IF s = {} THEN 0 ELSE w[Pick(s)] + it[s \ {Pick(s)}]
IsTable(it, w, S) == it = [s \in SUBSET S |-> OneStep(it, w, s)]
Table(w, S) == CHOOSE it : IsTable(it, w, S)

\* The sum is the entry of the whole set in that function.
LEMMA FoldIsTable ==
  ASSUME NEW w, NEW S
  PROVE  SumFunctionOnSet(w, S) = Table(w, S)[S]
BY DEF SumFunctionOnSet, FoldFunctionOnSet, MapThenFoldSet, Table, IsTable, OneStep, Pick

\* A set of subsets of a finite set has a minimal one.
LEMMA MinimalSubset ==
  ASSUME NEW S, IsFiniteSet(S), NEW B, B \subseteq SUBSET S, B # {}
  PROVE  \E s \in B : \A t \in B : t \subseteq s => t = s
<1>1. IsWellFoundedOn(StrictSubsetOrdering(S), SUBSET S)
  BY FS_StrictSubsetOrderingWellFounded, FS_FiniteSubsetsOfFinite
<1>2. PICK s \in B : \A t \in B : <<t, s>> \notin StrictSubsetOrdering(S)
  BY <1>1, WFMin
<1>3. ASSUME NEW t \in B, t \subseteq s, t # s
      PROVE  FALSE
  <2>1. <<t, s>> \in (SUBSET S) \X (SUBSET S)
    OBVIOUS
  <2>2. <<t, s>>[1] \subseteq <<t, s>>[2] /\ <<t, s>>[1] # <<t, s>>[2]
    BY <1>3
  <2> QED BY <1>2, <2>1, <2>2 DEF StrictSubsetOrdering
<1> QED BY <1>3

\* Two tables agree where both are defined.
LEMMA TablesAgree ==
  ASSUME NEW w, NEW S, NEW T, IsFiniteSet(S),
         NEW a, IsTable(a, w, S), NEW b, IsTable(b, w, T)
  PROVE  \A s : s \subseteq S /\ s \subseteq T => a[s] = b[s]
<1> DEFINE Bad == {s \in SUBSET S : s \subseteq T /\ a[s] # b[s]}
<1>1. ASSUME Bad # {} PROVE FALSE
  <2>0. Bad \subseteq SUBSET S
    OBVIOUS
  <2>1. PICK s \in Bad : \A t \in Bad : t \subseteq s => t = s
    <3> HIDE DEF Bad
    <3> QED BY <1>1, <2>0, MinimalSubset
  <2>2. a[s] = OneStep(a, w, s) /\ b[s] = OneStep(b, w, s)
    BY <2>1 DEF IsTable
  <2>3. CASE s = {}
    BY <2>1, <2>2, <2>3 DEF OneStep
  <2>4. CASE s # {}
    <3> DEFINE u == s \ {Pick(s)}
    <3>1. Pick(s) \in s
      BY <2>4 DEF Pick
    <3>2. u \subseteq s /\ u # s /\ u \subseteq S /\ u \subseteq T
      BY <2>1, <3>1
    <3>3. a[u] = b[u]
      BY <2>1, <3>2
    <3> QED BY <2>1, <2>2, <2>4, <3>3 DEF OneStep
  <2> QED BY <2>3, <2>4
<1> QED BY <1>1

\* There is a table for every finite set.
LEMMA TableExists ==
  ASSUME NEW w, NEW S, IsFiniteSet(S)
  PROVE  IsTable(Table(w, S), w, S)
<1> DEFINE Bad == {T \in SUBSET S : ~ \E it : IsTable(it, w, T)}
<1>1. ASSUME Bad # {} PROVE FALSE
  <2>0. Bad \subseteq SUBSET S
    OBVIOUS
  <2>1. PICK T \in Bad : \A t \in Bad : t \subseteq T => t = T
    <3> HIDE DEF Bad
    <3> QED BY <1>1, <2>0, MinimalSubset
  <2>2. \A t \in SUBSET T : t # T => IsTable(Table(w, t), w, t)
    BY <2>1 DEF Table
  <2>3. \A t \in SUBSET T : IsFiniteSet(t)
    BY <2>1, FS_Subset
  <2> DEFINE it == [s \in SUBSET T |-> IF s = T THEN OneStep([u \in SUBSET T |-> Table(w, u)[u]], w, T)
                                       ELSE Table(w, s)[s]]
  <2>4. ASSUME NEW s \in SUBSET T
        PROVE  it[s] = OneStep(it, w, s)
    <3>1. CASE s = {}
      <4>1. CASE T = {}
        BY <3>1, <4>1 DEF OneStep
      <4>2. CASE T # {}
        BY <3>1, <4>2, <2>2 DEF OneStep, IsTable
      <4> QED BY <4>1, <4>2
    <3>2. CASE s # {}
      <4> DEFINE u == s \ {Pick(s)}
      <4>1. Pick(s) \in s
        BY <3>2 DEF Pick
      <4>2. u \in SUBSET T /\ u # T /\ u \subseteq s
        BY <4>1
      <4>3. it[u] = Table(w, u)[u]
        BY <4>2
      <4>4. CASE s = T
        <5>1. it[s] = w[Pick(s)] + Table(w, u)[u]
          BY <4>2, <4>4, <3>2 DEF OneStep
        <5> QED BY <5>1, <4>3, <3>2 DEF OneStep
      <4>5. CASE s # T
        <5>1. Table(w, s)[s] = w[Pick(s)] + Table(w, s)[u]
          BY <4>5, <3>2, <2>2 DEF IsTable, OneStep
        <5>2. Table(w, s)[u] = Table(w, u)[u]
          <6>1. IsTable(Table(w, s), w, s) /\ IsTable(Table(w, u), w, u)
            BY <4>2, <4>5, <2>2
          <6>2. IsFiniteSet(s)
            BY <2>3
          <6> QED BY <6>1, <6>2, <4>2, TablesAgree
        <5> QED BY <5>1, <5>2, <4>3, <4>5, <3>2 DEF OneStep
      <4> QED BY <4>4, <4>5
    <3> QED BY <3>1, <3>2
  <2>5. IsTable(it, w, T)
    BY <2>4 DEF IsTable
  <2> QED BY <2>1, <2>5
<1> QED BY <1>1 DEF Table

-----------------------------------------------------------------------------
LEMMA SumEmpty == ASSUME NEW w PROVE SumFunctionOnSet(w, {}) = 0
<1>1. IsTable(Table(w, {}), w, {})
  BY TableExists, FS_EmptySet
<1>2. Table(w, {})[{}] = 0
  BY <1>1 DEF IsTable, OneStep
<1> QED BY <1>2, FoldIsTable

\* The sum goes by the element that the fold takes first ...
LEMMA SumPick ==
  ASSUME NEW w, NEW S, IsFiniteSet(S), S # {}
  PROVE  /\ Pick(S) \in S
         /\ SumFunctionOnSet(w, S) = w[Pick(S)] + SumFunctionOnSet(w, S \ {Pick(S)})
<1> DEFINE u == S \ {Pick(S)}
<1>1. Pick(S) \in S
  BY DEF Pick
<1>2. IsFiniteSet(u) /\ u \subseteq S
  BY FS_Subset
<1>3. IsTable(Table(w, S), w, S) /\ IsTable(Table(w, u), w, u)
  BY <1>2, TableExists
<1>4. Table(w, S)[u] = Table(w, u)[u]
  BY <1>2, <1>3, TablesAgree
<1>5. Table(w, S)[S] = w[Pick(S)] + Table(w, S)[u]
  BY <1>3 DEF IsTable, OneStep
<1> QED BY <1>1, <1>4, <1>5, FoldIsTable

\* A sum of integers is one.
LEMMA SumType ==
  ASSUME NEW w, NEW S, IsFiniteSet(S), \A x \in S : w[x] \in Int
  PROVE  SumFunctionOnSet(w, S) \in Int
<1> DEFINE Bad == {T \in SUBSET S : SumFunctionOnSet(w, T) \notin Int}
<1>1. ASSUME Bad # {} PROVE FALSE
  <2>0. Bad \subseteq SUBSET S
    OBVIOUS
  <2>1. PICK T \in Bad : \A t \in Bad : t \subseteq T => t = T
    <3> HIDE DEF Bad
    <3> QED BY <1>1, <2>0, MinimalSubset
  <2>2. T # {}
    <3>1. SumFunctionOnSet(w, {}) \in Int
      BY SumEmpty
    <3> QED BY <2>1, <3>1
  <2>3. /\ Pick(T) \in T
        /\ SumFunctionOnSet(w, T) = w[Pick(T)] + SumFunctionOnSet(w, T \ {Pick(T)})
    BY <2>1, <2>2, FS_Subset, SumPick
  <2>4. SumFunctionOnSet(w, T \ {Pick(T)}) \in Int
    BY <2>1, <2>3
  <2> QED BY <2>1, <2>3, <2>4
<1> QED BY <1>1

\* ... and by any other element as well.
LEMMA SumRemove ==
  ASSUME NEW w, NEW S, IsFiniteSet(S), \A y \in S : w[y] \in Int, NEW x \in S
  PROVE  SumFunctionOnSet(w, S) = w[x] + SumFunctionOnSet(w, S \ {x})
<1> DEFINE Bad == {T \in SUBSET S :
                     \E y \in T : SumFunctionOnSet(w, T) # w[y] + SumFunctionOnSet(w, T \ {y})}
<1>1. ASSUME Bad # {} PROVE FALSE
  <2>0. Bad \subseteq SUBSET S
    OBVIOUS
  <2>1. PICK T \in Bad : \A t \in Bad : t \subseteq T => t = T
    <3> HIDE DEF Bad
    <3> QED BY <1>1, <2>0, MinimalSubset
  <2>2. PICK y \in T : SumFunctionOnSet(w, T) # w[y] + SumFunctionOnSet(w, T \ {y})
    BY <2>1
  <2> DEFINE p == Pick(T)
             Ty == T \ {y}
             Tp == T \ {p}
             Typ == Ty \ {p}
             Tpy == Tp \ {y}
  <2>3. p \in T /\ SumFunctionOnSet(w, T) = w[p] + SumFunctionOnSet(w, Tp)
    BY <2>1, <2>2, FS_Subset, SumPick
  <2>4. p # y
    BY <2>2, <2>3
  <2>5. Ty \notin Bad /\ Tp \notin Bad /\ Ty \subseteq S /\ Tp \subseteq S
    BY <2>1, <2>2, <2>3
  <2>6. p \in Ty /\ y \in Tp
    BY <2>2, <2>3, <2>4
  <2>7. SumFunctionOnSet(w, Ty) = w[p] + SumFunctionOnSet(w, Typ)
    BY <2>5, <2>6
  <2>8. SumFunctionOnSet(w, Tp) = w[y] + SumFunctionOnSet(w, Tpy)
    BY <2>5, <2>6
  <2>9. Typ = Tpy
    OBVIOUS
  <2>10. SumFunctionOnSet(w, Typ) \in Int /\ w[p] \in Int /\ w[y] \in Int
    <3>1. Typ \subseteq S /\ p \in S /\ y \in S
      BY <2>1, <2>2, <2>3
    <3>2. IsFiniteSet(Typ)
      BY <3>1, FS_Subset
    <3> QED BY <3>1, <3>2, SumType
  <2> HIDE DEF Bad, p, Ty, Tp, Typ, Tpy
  <2>11. SumFunctionOnSet(w, T) = w[y] + SumFunctionOnSet(w, Ty)
    BY <2>3, <2>7, <2>8, <2>9, <2>10
  <2> QED BY <2>2, <2>11 DEF Ty
<1> QED BY <1>1

\* An element that is added adds its value.
LEMMA SumAdd ==
  ASSUME NEW w, NEW S, IsFiniteSet(S), NEW x, x \notin S, \A y \in S \cup {x} : w[y] \in Int
  PROVE  SumFunctionOnSet(w, S \cup {x}) = w[x] + SumFunctionOnSet(w, S)
<1>1. (S \cup {x}) \ {x} = S
  OBVIOUS
<1>2. IsFiniteSet(S \cup {x})
  BY FS_AddElement
<1> QED BY <1>1, <1>2, SumRemove

\* Only the values on the set count.
LEMMA SumSame ==
  ASSUME NEW v, NEW w, NEW S, IsFiniteSet(S), \A x \in S : v[x] = w[x]
  PROVE  SumFunctionOnSet(v, S) = SumFunctionOnSet(w, S)
<1> DEFINE Bad == {T \in SUBSET S : SumFunctionOnSet(v, T) # SumFunctionOnSet(w, T)}
<1>1. ASSUME Bad # {} PROVE FALSE
  <2>0. Bad \subseteq SUBSET S
    OBVIOUS
  <2>1. PICK T \in Bad : \A t \in Bad : t \subseteq T => t = T
    <3> HIDE DEF Bad
    <3> QED BY <1>1, <2>0, MinimalSubset
  <2>2. T # {}
    BY <2>1, SumEmpty
  <2>3. /\ Pick(T) \in T
        /\ SumFunctionOnSet(v, T) = v[Pick(T)] + SumFunctionOnSet(v, T \ {Pick(T)})
        /\ SumFunctionOnSet(w, T) = w[Pick(T)] + SumFunctionOnSet(w, T \ {Pick(T)})
    BY <2>1, <2>2, FS_Subset, SumPick
  <2>4. SumFunctionOnSet(v, T \ {Pick(T)}) = SumFunctionOnSet(w, T \ {Pick(T)})
    BY <2>1, <2>3
  <2> QED BY <2>1, <2>3, <2>4
<1> QED BY <1>1

\* A change of one value changes the sum by as much.
LEMMA SumChange ==
  ASSUME NEW v, NEW w, NEW S, IsFiniteSet(S), NEW x \in S,
         \A y \in S : v[y] \in Int /\ w[y] \in Int,
         \A y \in S \ {x} : v[y] = w[y]
  PROVE  SumFunctionOnSet(v, S) = SumFunctionOnSet(w, S) - w[x] + v[x]
<1>1. IsFiniteSet(S \ {x})
  BY FS_Subset
<1>2. SumFunctionOnSet(v, S \ {x}) = SumFunctionOnSet(w, S \ {x})
  BY <1>1, SumSame
<1>3. SumFunctionOnSet(w, S \ {x}) \in Int
  BY <1>1, SumType
<1>4. SumFunctionOnSet(v, S) = v[x] + SumFunctionOnSet(v, S \ {x})
  BY SumRemove
<1>5. SumFunctionOnSet(w, S) = w[x] + SumFunctionOnSet(w, S \ {x})
  BY SumRemove
<1> QED BY <1>2, <1>3, <1>4, <1>5

\* What is zero need not be counted.
LEMMA SumZero ==
  ASSUME NEW w, NEW S, IsFiniteSet(S), \A x \in S : w[x] = 0
  PROVE  SumFunctionOnSet(w, S) = 0
<1> DEFINE Bad == {T \in SUBSET S : SumFunctionOnSet(w, T) # 0}
<1>1. ASSUME Bad # {} PROVE FALSE
  <2>0. Bad \subseteq SUBSET S
    OBVIOUS
  <2>1. PICK T \in Bad : \A t \in Bad : t \subseteq T => t = T
    <3> HIDE DEF Bad
    <3> QED BY <1>1, <2>0, MinimalSubset
  <2>2. T # {}
    BY <2>1, SumEmpty
  <2>3. /\ Pick(T) \in T
        /\ SumFunctionOnSet(w, T) = w[Pick(T)] + SumFunctionOnSet(w, T \ {Pick(T)})
    BY <2>1, <2>2, FS_Subset, SumPick
  <2>4. SumFunctionOnSet(w, T \ {Pick(T)}) = 0
    BY <2>1, <2>3
  <2>5. w[Pick(T)] = 0
    BY <2>1, <2>3
  <2> QED BY <2>1, <2>3, <2>4, <2>5
<1> QED BY <1>1

\* With no value below zero, a part of a set has no larger sum than the whole.
LEMMA SumPart ==
  ASSUME NEW w, NEW S, IsFiniteSet(S), \A x \in S : w[x] \in Nat, NEW U \in SUBSET S
  PROVE  SumFunctionOnSet(w, U) <= SumFunctionOnSet(w, S)
<1> DEFINE Bad == {T \in SUBSET S :
                     \E V \in SUBSET T : ~(SumFunctionOnSet(w, V) <= SumFunctionOnSet(w, T))}
<1>1. ASSUME Bad # {} PROVE FALSE
  <2>0. Bad \subseteq SUBSET S
    OBVIOUS
  <2>1. PICK T \in Bad : \A t \in Bad : t \subseteq T => t = T
    <3> HIDE DEF Bad
    <3> QED BY <1>1, <2>0, MinimalSubset
  <2>2. PICK V \in SUBSET T : ~(SumFunctionOnSet(w, V) <= SumFunctionOnSet(w, T))
    BY <2>1
  <2>3. \A X \in SUBSET S : IsFiniteSet(X) /\ SumFunctionOnSet(w, X) \in Int
    <3> TAKE X \in SUBSET S
    <3>1. IsFiniteSet(X) /\ \A x \in X : w[x] \in Int
      BY FS_Subset
    <3> QED BY <3>1, SumType
  <2>4. T \in SUBSET S /\ V \in SUBSET S /\ V # T
    <3>1. T \in SUBSET S /\ V \in SUBSET S
      BY <2>1
    <3>2. V # T
      <4>1. SumFunctionOnSet(w, T) <= SumFunctionOnSet(w, T)
        BY <2>3, <3>1
      <4> QED BY <2>2, <4>1
    <3> QED BY <3>1, <3>2
  <2>5. PICK x \in T : x \notin V
    BY <2>4
  <2> DEFINE R == T \ {x}
  <2>6. V \in SUBSET R /\ R \in SUBSET S /\ R \notin Bad
    BY <2>1, <2>4, <2>5
  <2>7. SumFunctionOnSet(w, V) <= SumFunctionOnSet(w, R)
    BY <2>6
  <2>8. SumFunctionOnSet(w, T) = w[x] + SumFunctionOnSet(w, R)
    <3>1. IsFiniteSet(T) /\ \A y \in T : w[y] \in Int
      BY <2>3, <2>4
    <3> QED BY <3>1, <2>5, SumRemove
  <2>9. w[x] \in Nat /\ SumFunctionOnSet(w, R) \in Int /\ SumFunctionOnSet(w, V) \in Int
    BY <2>3, <2>4, <2>5, <2>6
  <2> HIDE DEF R, Bad
  <2>10. SumFunctionOnSet(w, V) <= SumFunctionOnSet(w, T)
    BY <2>7, <2>8, <2>9
  <2> QED BY <2>2, <2>10
<1> QED BY <1>1

\* On S, w is put together from f, g and a constant.
Combines(S, w, a, f, b, g, c) ==
  /\ IsFiniteSet(S) /\ a \in Int /\ b \in Int /\ c \in Int
  /\ \A x \in S : f[x] \in Int /\ g[x] \in Int /\ w[x] = a * f[x] + b * g[x] + c

\* Then so is its sum.
LEMMA SumLinear ==
  ASSUME NEW S, NEW w, NEW a, NEW f, NEW b, NEW g, NEW c, Combines(S, w, a, f, b, g, c)
  PROVE  SumFunctionOnSet(w, S)
           = a * SumFunctionOnSet(f, S) + b * SumFunctionOnSet(g, S) + c * Cardinality(S)
<1> DEFINE Is(T) == SumFunctionOnSet(w, T)
                      = a * SumFunctionOnSet(f, T) + b * SumFunctionOnSet(g, T) + c * Cardinality(T)
           Bad == {T \in SUBSET S : ~Is(T)}
<1>0. /\ IsFiniteSet(S) /\ a \in Int /\ b \in Int /\ c \in Int
      /\ \A x \in S : f[x] \in Int /\ g[x] \in Int /\ w[x] = a * f[x] + b * g[x] + c
  BY DEF Combines
<1>1. ASSUME Bad # {} PROVE FALSE
  <2>0. Bad \subseteq SUBSET S
    OBVIOUS
  <2>1. PICK T \in Bad : \A t \in Bad : t \subseteq T => t = T
    <3> HIDE DEF Bad
    <3> QED BY <1>0, <1>1, <2>0, MinimalSubset
  <2>2. T # {}
    <3>1. Is({})
      BY <1>0, SumEmpty, FS_EmptySet
    <3> QED BY <2>1, <3>1
  <2>3. PICK x \in T : TRUE
    BY <2>2
  <2> DEFINE U == T \ {x}
  <2>4. Is(U)
    BY <2>1, <2>3
  <2>5. IsFiniteSet(T) /\ IsFiniteSet(U) /\ T \subseteq S /\ U \subseteq S /\ x \in S
    BY <1>0, <2>1, <2>3, FS_Subset
  <2>6. \A y \in T : w[y] \in Int /\ f[y] \in Int /\ g[y] \in Int
    <3> TAKE y \in T
    <3>1. f[y] \in Int /\ g[y] \in Int /\ w[y] = a * f[y] + b * g[y] + c
      BY <1>0, <2>5
    <3> QED BY <1>0, <3>1
  <2>7. /\ SumFunctionOnSet(w, T) = w[x] + SumFunctionOnSet(w, U)
        /\ SumFunctionOnSet(f, T) = f[x] + SumFunctionOnSet(f, U)
        /\ SumFunctionOnSet(g, T) = g[x] + SumFunctionOnSet(g, U)
    BY <2>3, <2>5, <2>6, SumRemove
  <2>8. /\ SumFunctionOnSet(w, U) \in Int /\ SumFunctionOnSet(f, U) \in Int
        /\ SumFunctionOnSet(g, U) \in Int
    BY <2>5, <2>6, SumType
  <2>9. Cardinality(T) = Cardinality(U) + 1 /\ Cardinality(U) \in Int
    BY <2>3, <2>5, FS_RemoveElement, FS_CardinalityType
  <2>10. w[x] = a * f[x] + b * g[x] + c /\ f[x] \in Int /\ g[x] \in Int
    BY <1>0, <2>5
  <2>11. \A p, q, r \in Int : p * (q + r) = p * q + p * r
    OBVIOUS
  <2>12. /\ a * SumFunctionOnSet(f, T) = a * f[x] + a * SumFunctionOnSet(f, U)
         /\ b * SumFunctionOnSet(g, T) = b * g[x] + b * SumFunctionOnSet(g, U)
         /\ c * Cardinality(T) = c * Cardinality(U) + c
    BY <1>0, <2>7, <2>8, <2>9, <2>10, <2>11
  <2>13. /\ a * f[x] \in Int /\ b * g[x] \in Int /\ a * SumFunctionOnSet(f, U) \in Int
         /\ b * SumFunctionOnSet(g, U) \in Int /\ c * Cardinality(U) \in Int
    BY <1>0, <2>8, <2>9, <2>10
  <2> HIDE DEF U, Bad
  <2>14. SumFunctionOnSet(w, U)
           = a * SumFunctionOnSet(f, U) + b * SumFunctionOnSet(g, U) + c * Cardinality(U)
    BY <2>4
  <2>15. Is(T)
    BY <1>0, <2>7, <2>8, <2>10, <2>12, <2>13, <2>14
  <2> QED BY <2>1, <2>15 DEF Bad
<1> QED BY <1>1

\* With no value below zero, two elements sum to no more than the whole set.
LEMMA SumPair ==
  ASSUME NEW w, NEW S, IsFiniteSet(S), \A x \in S : w[x] \in Nat,
         NEW i \in S, NEW j \in S, i # j
  PROVE  w[i] + w[j] <= SumFunctionOnSet(w, S)
<1>1. SumFunctionOnSet(w, {}) = 0
  BY SumEmpty
<1>2. IsFiniteSet({}) /\ IsFiniteSet({i})
  BY FS_EmptySet, FS_Singleton
<1>3. SumFunctionOnSet(w, {} \cup {i}) = w[i] + SumFunctionOnSet(w, {})
  <2>1. i \notin {} /\ \A y \in {} \cup {i} : w[y] \in Int
    OBVIOUS
  <2> QED BY <1>2, <2>1, SumAdd
<1>4. SumFunctionOnSet(w, {i} \cup {j}) = w[j] + SumFunctionOnSet(w, {i})
  <2>1. j \notin {i} /\ \A y \in {i} \cup {j} : w[y] \in Int
    OBVIOUS
  <2> QED BY <1>2, <2>1, SumAdd
<1>5. SumFunctionOnSet(w, {i} \cup {j}) <= SumFunctionOnSet(w, S)
  BY SumPart
<1>6. {} \cup {i} = {i}
  OBVIOUS
<1>7. w[i] \in Int /\ w[j] \in Int
  OBVIOUS
<1>8. SumFunctionOnSet(w, {i}) = w[i]
  BY <1>1, <1>3, <1>6, <1>7
<1> QED BY <1>4, <1>5, <1>7, <1>8

\* The sum of values between bounds.
LEMMA SumBounds ==
  ASSUME NEW S, IsFiniteSet(S), NEW w, \A x \in S : w[x] \in {0, 1}
  PROVE  SumFunctionOnSet(w, S) \in 0..Cardinality(S)
<1> DEFINE rest == [x \in S |-> 1 - w[x]]
<1>1. SumFunctionOnSet(rest, S)
        = (-1) * SumFunctionOnSet(w, S) + 0 * SumFunctionOnSet(w, S) + 1 * Cardinality(S)
  <2> DEFINE a == -1
             b == 0
             c == 1
  <2>1. \A x \in S : w[x] \in Int /\ w[x] \in Int /\ rest[x] = a * w[x] + b * w[x] + c
    OBVIOUS
  <2>2. a \in Int /\ b \in Int /\ c \in Int
    OBVIOUS
  <2> HIDE DEF rest, a, b, c
  <2>3. SumFunctionOnSet(rest, S)
          = a * SumFunctionOnSet(w, S) + b * SumFunctionOnSet(w, S) + c * Cardinality(S)
    BY <2>1, <2>2, SumLinear DEF Combines
  <2> QED BY <2>3 DEF a, b, c
<1>2. \A x \in S : w[x] \in Nat /\ rest[x] \in Nat
  OBVIOUS
<1>3. SumFunctionOnSet(w, {}) <= SumFunctionOnSet(w, S)
  BY <1>2, SumPart
<1>4. SumFunctionOnSet(rest, {}) <= SumFunctionOnSet(rest, S)
  <2> HIDE DEF rest
  <2> QED BY <1>2, SumPart
<1>5. SumFunctionOnSet(w, {}) = 0 /\ SumFunctionOnSet(rest, {}) = 0
  BY SumEmpty
<1>6. SumFunctionOnSet(w, S) \in Int /\ Cardinality(S) \in Int
  BY <1>2, SumType, FS_CardinalityType
<1> HIDE DEF rest
<1> QED BY <1>1, <1>3, <1>4, <1>5, <1>6
=============================================================================
