---------------------------- MODULE SumTheorems ----------------------------
(***************************************************************************)
(* Lemmas about SumFunctionOnSet, by which the models add up amounts.  Its  *)
(* fold is a function defined by recursion over the subsets of a finite    *)
(* set; each induction is a least counterexample, by its size.             *)
(***************************************************************************)
EXTENDS Functions, FiniteSetTheorems, TLAPS

Some(T) == CHOOSE x \in T : TRUE

\* One equation of the recursion, and the functions that satisfy all of them.
Unfold(t, f, T) == IF T = {} THEN 0 ELSE f[Some(T)] + t[T \ {Some(T)}]
Agree(f, g, S) == \A x \in S : f[x] = g[x]
IsTable(t, f, S) == t = [T \in SUBSET S |-> Unfold(t, f, T)]

LEMMA LeastNumber ==
    ASSUME NEW N \in SUBSET Nat, N # {}
    PROVE  \E n \in N : \A m \in N : n <= m
<1>1. PICK n \in N : \A m \in N : ~ (<<m, n>> \in OpToRel(<, Nat))
  BY NatLessThanWellFounded, WFMin
<1>2. ASSUME NEW m \in N, m < n PROVE <<m, n>> \in OpToRel(<, Nat)
  <2>1. <<m, n>> \in Nat \X Nat /\ <<m, n>>[1] < <<m, n>>[2]
    BY <1>2
  <2> QED BY <2>1 DEF OpToRel
<1>3. \A m \in N : ~ (m < n)
  BY <1>1, <1>2
<1>4. \A m \in N : n <= m
  BY <1>3
<1> QED BY <1>4

LEMMA Smaller ==
    ASSUME NEW S, IsFiniteSet(S), NEW T \in SUBSET S, T # {}
    PROVE  /\ Some(T) \in T /\ T \ {Some(T)} \in SUBSET S
           /\ Cardinality(T) \in Nat \ {0}
           /\ Cardinality(T \ {Some(T)}) = Cardinality(T) - 1
<1>1. Some(T) \in T
  BY DEF Some
<1>2. IsFiniteSet(T)
  BY FS_Subset
<1> QED BY <1>1, <1>2, FS_CardinalityType, FS_EmptySet, FS_RemoveElement

\* The equations have a solution for the subsets of up to n elements, for every n.
LEMMA TableUpTo ==
    ASSUME NEW S, IsFiniteSet(S), NEW f, NEW n \in Nat
    PROVE  \E t : \A T \in SUBSET S : Cardinality(T) <= n => t[T] = Unfold(t, f, T)
<1> DEFINE Solves(t, m) == \A T \in SUBSET S : Cardinality(T) <= m => t[T] = Unfold(t, f, T)
           Bad == {m \in Nat : ~ \E t : Solves(t, m)}
<1>1. SUFFICES ASSUME Bad # {} PROVE FALSE
  BY <1>1
<1>2. PICK m \in Bad : \A k \in Bad : m <= k
  BY <1>1, LeastNumber
<1>3. CASE m = 0
  <2>1. \A T \in SUBSET S : Cardinality(T) <= m => T = {}
    <3> SUFFICES ASSUME NEW T \in SUBSET S, Cardinality(T) <= m, T # {} PROVE FALSE
      OBVIOUS
    <3>1. Cardinality(T) \in Nat \ {0}
      BY Smaller
    <3> QED BY <1>3, <3>1
  <2>2. Solves([T \in SUBSET S |-> 0], m)
    BY <2>1 DEF Unfold
  <2> QED BY <1>2, <2>2
<1>4. CASE m # 0
  <2>1. m - 1 \in Nat /\ m - 1 \notin Bad
    BY <1>2, <1>4
  <2>2. PICK t : Solves(t, m - 1)
    BY <2>1
  <2> DEFINE u == [T \in SUBSET S |-> IF Cardinality(T) = m THEN Unfold(t, f, T) ELSE t[T]]
  <2>3. ASSUME NEW T \in SUBSET S, Cardinality(T) <= m PROVE u[T] = Unfold(u, f, T)
    <3>1. CASE T = {}
      <4>1. Cardinality(T) <= m - 1
        BY <3>1, <2>1, FS_EmptySet
      <4>2. t[T] = 0
        BY <4>1, <2>2, <3>1 DEF Unfold
      <4> QED BY <4>2, <3>1 DEF Unfold
    <3>2. CASE T # {}
      <4>1. /\ T \ {Some(T)} \in SUBSET S /\ Cardinality(T) \in Nat
            /\ Cardinality(T \ {Some(T)}) = Cardinality(T) - 1
        BY <3>2, Smaller
      <4>2. Cardinality(T \ {Some(T)}) # m
        BY <4>1, <2>3, <2>1
      <4>3. u[T \ {Some(T)}] = t[T \ {Some(T)}]
        BY <4>1, <4>2
      <4>4. Unfold(u, f, T) = Unfold(t, f, T)
        BY <4>3 DEF Unfold
      <4>5. CASE Cardinality(T) # m
        <5>1. Cardinality(T) <= m - 1
          BY <4>1, <4>5, <2>3, <2>1
        <5> QED BY <4>4, <4>5, <5>1, <2>2
      <4> QED BY <4>4, <4>5
    <3> QED BY <3>1, <3>2
  <2> HIDE DEF u
  <2>4. Solves(u, m)
    BY <2>3
  <2> QED BY <2>4, <1>2
<1> QED BY <1>3, <1>4

LEMMA TableExists ==
    ASSUME NEW S, IsFiniteSet(S), NEW f
    PROVE  \E t : IsTable(t, f, S)
<1>1. Cardinality(S) \in Nat /\ \A T \in SUBSET S : Cardinality(T) <= Cardinality(S)
  BY FS_CardinalityType, FS_Subset
<1>2. PICK t : \A T \in SUBSET S : Cardinality(T) <= Cardinality(S) => t[T] = Unfold(t, f, T)
  BY <1>1, TableUpTo
<1>3. \A T \in SUBSET S : t[T] = Unfold(t, f, T)
  BY <1>1, <1>2
<1> DEFINE u == [T \in SUBSET S |-> t[T]]
<1>4. \A T \in SUBSET S : u[T] = Unfold(u, f, T)
  BY <1>3 DEF Unfold, Some
<1>5. u = [T \in SUBSET S |-> Unfold(u, f, T)]
  BY <1>4
<1> QED BY <1>5 DEF IsTable

\* Two of the recursive functions agree where both are defined and what they add up agrees.
LEMMA TablesAgree ==
    ASSUME NEW S, NEW R \in SUBSET S, IsFiniteSet(S), NEW f, NEW g, Agree(f, g, R),
           NEW t, NEW u, IsTable(t, f, S), IsTable(u, g, R), NEW T \in SUBSET R
    PROVE  t[T] = u[T]
<1> DEFINE Bad == {n \in Nat : \E U \in SUBSET R : Cardinality(U) = n /\ t[U] # u[U]}
<1>1. SUFFICES ASSUME t[T] # u[T] PROVE FALSE
  BY <1>1
<1>2. Cardinality(T) \in Bad
  BY <1>1, FS_Subset, FS_CardinalityType
<1>3. PICK n \in Bad : \A k \in Bad : n <= k
  BY <1>2, LeastNumber
<1>4. PICK U \in SUBSET R : Cardinality(U) = n /\ t[U] # u[U]
  BY <1>3
<1>5. t[U] = Unfold(t, f, U) /\ u[U] = Unfold(u, g, U)
  BY DEF IsTable
<1>6. U # {}
  BY <1>4, <1>5 DEF Unfold
<1>7. /\ Some(U) \in U /\ U \ {Some(U)} \in SUBSET R
      /\ Cardinality(U) \in Nat \ {0} /\ Cardinality(U \ {Some(U)}) = Cardinality(U) - 1
  BY <1>6, Smaller
<1>8. t[U \ {Some(U)}] = u[U \ {Some(U)}]
  <2>1. Cardinality(U) - 1 \notin Bad /\ Cardinality(U) - 1 \in Nat
    BY <1>3, <1>4, <1>7
  <2> QED BY <2>1, <1>7
<1> QED BY <1>4, <1>5, <1>7, <1>8 DEF Unfold, Agree

LEMMA SumIsTable ==
    ASSUME NEW S, IsFiniteSet(S), NEW f
    PROVE  \E t : IsTable(t, f, S) /\ SumFunctionOnSet(f, S) = t[S]
<1>1. SumFunctionOnSet(f, S) = (CHOOSE t : t = [T \in SUBSET S |->
          IF T = {} THEN 0 ELSE f[CHOOSE x \in T : TRUE] + t[T \ {CHOOSE x \in T : TRUE}]])[S]
  BY DEF SumFunctionOnSet, FoldFunctionOnSet, MapThenFoldSet
<1>2. SumFunctionOnSet(f, S) = (CHOOSE t : IsTable(t, f, S))[S]
  BY <1>1 DEF IsTable, Unfold, Some
<1> QED BY <1>2, TableExists

-----------------------------------------------------------------------------
(* What the sums are.                                                      *)

LEMMA SumEmpty == ASSUME NEW f PROVE SumFunctionOnSet(f, {}) = 0
<1>1. IsFiniteSet({})
  BY FS_EmptySet
<1>2. PICK t : IsTable(t, f, {}) /\ SumFunctionOnSet(f, {}) = t[{}]
  BY <1>1, SumIsTable
<1> QED BY <1>2 DEF IsTable, Unfold

\* A sum depends on the amounts added, and nothing else.
LEMMA SumAgree ==
    ASSUME NEW S, IsFiniteSet(S), NEW f, NEW g, \A x \in S : f[x] = g[x]
    PROVE  SumFunctionOnSet(f, S) = SumFunctionOnSet(g, S)
<1>1. PICK t : IsTable(t, f, S) /\ SumFunctionOnSet(f, S) = t[S]
  BY SumIsTable
<1>2. PICK u : IsTable(u, g, S) /\ SumFunctionOnSet(g, S) = u[S]
  BY SumIsTable
<1>3. t[S] = u[S]
  <2>1. S \in SUBSET S
    OBVIOUS
  <2>2. Agree(f, g, S)
    BY DEF Agree
  <2> QED BY <1>1, <1>2, <2>1, <2>2, TablesAgree
<1> QED BY <1>1, <1>2, <1>3

LEMMA SumUnfold ==
    ASSUME NEW S, IsFiniteSet(S), S # {}, NEW f
    PROVE  SumFunctionOnSet(f, S) = f[Some(S)] + SumFunctionOnSet(f, S \ {Some(S)})
<1> DEFINE R == S \ {Some(S)}
<1>1. PICK t : IsTable(t, f, S) /\ SumFunctionOnSet(f, S) = t[S]
  BY SumIsTable
<1>2. R \in SUBSET S /\ IsFiniteSet(R)
  BY FS_Subset
<1>3. PICK u : IsTable(u, f, R) /\ SumFunctionOnSet(f, R) = u[R]
  BY <1>2, SumIsTable
<1>4. t[R] = u[R]
  <2>1. Agree(f, f, R)
    BY DEF Agree
  <2> QED BY <1>1, <1>2, <1>3, <2>1, TablesAgree
<1>5. t[S] = f[Some(S)] + t[R]
  BY <1>1 DEF IsTable, Unfold
<1> QED BY <1>1, <1>3, <1>4, <1>5

LEMMA SumType ==
    ASSUME NEW S, IsFiniteSet(S), NEW f, \A x \in S : f[x] \in Int
    PROVE  SumFunctionOnSet(f, S) \in Int
<1> DEFINE Bad == {n \in Nat : \E T \in SUBSET S : Cardinality(T) = n /\ SumFunctionOnSet(f, T) \notin Int}
<1>1. SUFFICES ASSUME SumFunctionOnSet(f, S) \notin Int PROVE FALSE
  BY <1>1
<1>2. Cardinality(S) \in Bad
  BY <1>1, FS_CardinalityType
<1>3. PICK n \in Bad : \A k \in Bad : n <= k
  BY <1>2, LeastNumber
<1>4. PICK T \in SUBSET S : Cardinality(T) = n /\ SumFunctionOnSet(f, T) \notin Int
  BY <1>3
<1>5. T # {}
  BY <1>4, SumEmpty
<1>6. /\ Some(T) \in T /\ T \ {Some(T)} \in SUBSET S /\ IsFiniteSet(T)
      /\ Cardinality(T) \in Nat \ {0} /\ Cardinality(T \ {Some(T)}) = Cardinality(T) - 1
  BY <1>5, Smaller, FS_Subset
<1>7. SumFunctionOnSet(f, T \ {Some(T)}) \in Int
  <2>1. Cardinality(T) - 1 \notin Bad /\ Cardinality(T) - 1 \in Nat
    BY <1>3, <1>4, <1>6
  <2> QED BY <2>1, <1>6
<1>8. SumFunctionOnSet(f, T) = f[Some(T)] + SumFunctionOnSet(f, T \ {Some(T)})
  BY <1>5, <1>6, SumUnfold
<1> QED BY <1>4, <1>6, <1>7, <1>8

LEMMA SumNat ==
    ASSUME NEW S, IsFiniteSet(S), NEW f, \A x \in S : f[x] \in Nat
    PROVE  SumFunctionOnSet(f, S) \in Nat
<1> DEFINE Bad == {n \in Nat : \E T \in SUBSET S : Cardinality(T) = n /\ SumFunctionOnSet(f, T) \notin Nat}
<1>1. SUFFICES ASSUME SumFunctionOnSet(f, S) \notin Nat PROVE FALSE
  BY <1>1
<1>2. Cardinality(S) \in Bad
  BY <1>1, FS_CardinalityType
<1>3. PICK n \in Bad : \A k \in Bad : n <= k
  BY <1>2, LeastNumber
<1>4. PICK T \in SUBSET S : Cardinality(T) = n /\ SumFunctionOnSet(f, T) \notin Nat
  BY <1>3
<1>5. T # {}
  BY <1>4, SumEmpty
<1>6. /\ Some(T) \in T /\ T \ {Some(T)} \in SUBSET S /\ IsFiniteSet(T)
      /\ Cardinality(T) \in Nat \ {0} /\ Cardinality(T \ {Some(T)}) = Cardinality(T) - 1
  BY <1>5, Smaller, FS_Subset
<1>7. SumFunctionOnSet(f, T \ {Some(T)}) \in Nat
  <2>1. Cardinality(T) - 1 \notin Bad /\ Cardinality(T) - 1 \in Nat
    BY <1>3, <1>4, <1>6
  <2> QED BY <2>1, <1>6
<1>8. SumFunctionOnSet(f, T) = f[Some(T)] + SumFunctionOnSet(f, T \ {Some(T)})
  BY <1>5, <1>6, SumUnfold
<1> QED BY <1>4, <1>6, <1>7, <1>8

\* In whatever order they are added up.
LEMMA SumRemove ==
    ASSUME NEW S, IsFiniteSet(S), NEW f, \A x \in S : f[x] \in Int, NEW a \in S
    PROVE  SumFunctionOnSet(f, S) = f[a] + SumFunctionOnSet(f, S \ {a})
<1> DEFINE Differs(T) == \E x \in T : SumFunctionOnSet(f, T) # f[x] + SumFunctionOnSet(f, T \ {x})
           Bad == {n \in Nat : \E T \in SUBSET S : Cardinality(T) = n /\ Differs(T)}
<1>1. SUFFICES ASSUME SumFunctionOnSet(f, S) # f[a] + SumFunctionOnSet(f, S \ {a}) PROVE FALSE
  BY <1>1
<1>2. Cardinality(S) \in Bad
  BY <1>1, FS_CardinalityType
<1>3. PICK n \in Bad : \A k \in Bad : n <= k
  BY <1>2, LeastNumber
<1>4. PICK T \in SUBSET S : Cardinality(T) = n /\ Differs(T)
  BY <1>3
<1>5. PICK b \in T : SumFunctionOnSet(f, T) # f[b] + SumFunctionOnSet(f, T \ {b})
  BY <1>4
<1> DEFINE c == Some(T)
<1>6. c \in T /\ IsFiniteSet(T) /\ SumFunctionOnSet(f, T) = f[c] + SumFunctionOnSet(f, T \ {c})
  BY <1>5, Smaller, FS_Subset, SumUnfold
<1> HIDE DEF c
<1>7. b # c
  BY <1>5, <1>6
\* One element less, and the order does not matter.
<1>8. ASSUME NEW x \in T, NEW y \in T \ {x}
      PROVE  SumFunctionOnSet(f, T \ {x}) = f[y] + SumFunctionOnSet(f, (T \ {x}) \ {y})
  <2>1. Cardinality(T \ {x}) = n - 1 /\ n - 1 \in Nat
    <3>1. IsFiniteSet(T \ {x}) /\ Cardinality(T \ {x}) = Cardinality(T) - 1
      BY <1>6, FS_RemoveElement
    <3> QED BY <1>4, <3>1, FS_CardinalityType
  <2>2. ~Differs(T \ {x})
    <3>1. n - 1 \notin Bad
      BY <1>3, <2>1
    <3> QED BY <3>1, <2>1
  <2> QED BY <2>2
<1>9. /\ SumFunctionOnSet(f, T \ {c}) = f[b] + SumFunctionOnSet(f, (T \ {c}) \ {b})
      /\ SumFunctionOnSet(f, T \ {b}) = f[c] + SumFunctionOnSet(f, (T \ {b}) \ {c})
  BY <1>6, <1>7, <1>8
<1>10. (T \ {c}) \ {b} = (T \ {b}) \ {c}
  OBVIOUS
<1>11. SumFunctionOnSet(f, (T \ {b}) \ {c}) \in Int
  BY <1>6, FS_Subset, SumType
<1>12. f[b] \in Int /\ f[c] \in Int
  BY <1>6
<1>13. SumFunctionOnSet(f, T \ {c}) = f[b] + SumFunctionOnSet(f, (T \ {b}) \ {c})
  BY <1>9, <1>10
<1> HIDE DEF Bad, Differs
<1>14. f[c] + SumFunctionOnSet(f, T \ {c}) = f[b] + SumFunctionOnSet(f, T \ {b})
  BY <1>9, <1>11, <1>12, <1>13
<1> QED BY <1>5, <1>6, <1>14

LEMMA SumInsert ==
    ASSUME NEW S, IsFiniteSet(S), NEW f, NEW a, a \notin S, \A x \in S \cup {a} : f[x] \in Int
    PROVE  SumFunctionOnSet(f, S \cup {a}) = f[a] + SumFunctionOnSet(f, S)
<1>1. IsFiniteSet(S \cup {a}) /\ (S \cup {a}) \ {a} = S
  BY FS_AddElement
<1> QED BY <1>1, SumRemove

LEMMA SumMonotone ==
    ASSUME NEW S, IsFiniteSet(S), NEW f, \A x \in S : f[x] \in Nat, NEW T \in SUBSET S
    PROVE  SumFunctionOnSet(f, T) <= SumFunctionOnSet(f, S)
<1> DEFINE Exceeds(U) == ~(SumFunctionOnSet(f, T) <= SumFunctionOnSet(f, U))
           Bad == {n \in Nat : \E U \in SUBSET S : T \subseteq U /\ Cardinality(U) = n /\ Exceeds(U)}
<1>1. SUFFICES ASSUME Exceeds(S) PROVE FALSE
  BY <1>1
<1>2. Cardinality(S) \in Bad
  BY <1>1, FS_CardinalityType
<1>3. PICK n \in Bad : \A k \in Bad : n <= k
  BY <1>2, LeastNumber
<1>4. PICK U \in SUBSET S : T \subseteq U /\ Cardinality(U) = n /\ Exceeds(U)
  BY <1>3
<1>5. /\ IsFiniteSet(T) /\ IsFiniteSet(U)
      /\ SumFunctionOnSet(f, T) \in Nat /\ SumFunctionOnSet(f, U) \in Nat
  <2>1. IsFiniteSet(T) /\ IsFiniteSet(U)
    BY FS_Subset
  <2> QED BY <2>1, SumNat
<1>6. PICK a \in U : a \notin T
  <2>1. U # T
    BY <1>4, <1>5
  <2> QED BY <1>4, <2>1
<1>7. /\ IsFiniteSet(U \ {a}) /\ Cardinality(U) \in Nat
      /\ Cardinality(U \ {a}) \in Nat /\ Cardinality(U \ {a}) = Cardinality(U) - 1
  BY <1>5, FS_RemoveElement, FS_CardinalityType
<1>8. ~Exceeds(U \ {a})
  <2> SUFFICES ASSUME Exceeds(U \ {a}) PROVE FALSE
    OBVIOUS
  <2>1. Cardinality(U \ {a}) \in Bad
    BY <1>4, <1>6, <1>7
  <2> HIDE DEF Bad
  <2> QED BY <1>3, <1>4, <1>7, <2>1
<1>9. SumFunctionOnSet(f, U) = f[a] + SumFunctionOnSet(f, U \ {a})
  BY <1>5, SumRemove
<1>10. SumFunctionOnSet(f, U \ {a}) \in Nat /\ f[a] \in Nat
  BY <1>7, SumNat
<1> DEFINE x == SumFunctionOnSet(f, T)  y == SumFunctionOnSet(f, U)  z == SumFunctionOnSet(f, U \ {a})
<1>11. x <= z /\ y = f[a] + z /\ ~(x <= y) /\ x \in Nat /\ y \in Nat /\ z \in Nat
  BY <1>4, <1>5, <1>8, <1>9, <1>10
<1> HIDE DEF x, y, z
<1> QED BY <1>10, <1>11

\* The sum over a sequence appended to another adds the sums.
LEMMA SumShift ==
    ASSUME NEW n \in Nat, NEW k \in Nat, NEW M \in SUBSET (1..n), NEW f, NEW g,
           \A i \in M : f[i] \in Int,
           \A i \in 1..k : g[i] \in Int /\ f[n + i] = g[i]
    PROVE  SumFunctionOnSet(f, M \cup ((n + 1)..(n + k))) =
              SumFunctionOnSet(f, M) + SumFunctionOnSet(g, 1..k)
<1> DEFINE Upto(j) == M \cup ((n + 1)..(n + j))
           Adds(j) == SumFunctionOnSet(f, Upto(j)) =
                         SumFunctionOnSet(f, M) + SumFunctionOnSet(g, 1..j)
           Bad == {j \in 0..k : ~Adds(j)}
<1>1. SUFFICES ASSUME Bad # {} PROVE FALSE
  <2>1. k \notin Bad
    BY <1>1
  <2> QED BY <2>1
<1>2. PICK j \in Bad : \A i \in Bad : j <= i
  <2>1. Bad \in SUBSET Nat
    OBVIOUS
  <2> QED BY <1>1, <2>1, LeastNumber
<1>3. IsFiniteSet(M) /\ SumFunctionOnSet(f, M) \in Int
  <2>1. IsFiniteSet(1..n)
    BY FS_Interval
  <2>2. IsFiniteSet(M)
    BY <2>1, FS_Subset
  <2> QED BY <2>2, SumType
<1>4. CASE j = 0
  <2>1. Upto(0) = M /\ 1..0 = {}
    OBVIOUS
  <2>2. Adds(0)
    <3>1. SumFunctionOnSet(g, 1..0) = 0
      BY <2>1, SumEmpty
    <3>2. SumFunctionOnSet(f, Upto(0)) = SumFunctionOnSet(f, M)
      BY <2>1
    <3> HIDE DEF Upto
    <3> QED BY <1>3, <3>1, <3>2
  <2> QED BY <1>2, <1>4, <2>2
<1>5. CASE j # 0
  <2>1. j \in 1..k /\ j - 1 \in Nat /\ j - 1 \in 0..k /\ j - 1 \notin Bad
    BY <1>2, <1>5
  <2>2. Adds(j - 1)
    BY <2>1
  <2>3. IsFiniteSet(Upto(j - 1)) /\ IsFiniteSet(1..(j - 1))
    <3>1. IsFiniteSet((n + 1)..(n + (j - 1))) /\ IsFiniteSet(1..(j - 1))
      BY <2>1, FS_Interval
    <3> QED BY <1>3, <3>1, FS_Union
  <2>4. /\ Upto(j) = Upto(j - 1) \cup {n + j} /\ n + j \notin Upto(j - 1)
        /\ 1..j = (1..(j - 1)) \cup {j} /\ j \notin 1..(j - 1)
    BY <2>1
  <2>5. \A x \in Upto(j - 1) \cup {n + j} : f[x] \in Int
    <3>1. ASSUME NEW x \in (n + 1)..(n + j) PROVE f[x] \in Int
      <4>1. x - n \in 1..k /\ n + (x - n) = x
        BY <2>1
      <4> QED BY <4>1
    <3> QED BY <2>4, <3>1
  <2>6. \A x \in (1..(j - 1)) \cup {j} : g[x] \in Int
    BY <2>1
  <2> HIDE DEF Upto
  <2>7. SumFunctionOnSet(f, Upto(j)) = f[n + j] + SumFunctionOnSet(f, Upto(j - 1))
    BY <2>3, <2>4, <2>5, SumInsert
  <2>8. SumFunctionOnSet(g, 1..j) = g[j] + SumFunctionOnSet(g, 1..(j - 1))
    BY <2>3, <2>4, <2>6, SumInsert
  <2>9. SumFunctionOnSet(g, 1..(j - 1)) \in Int
    BY <2>3, <2>6, SumType
  <2>10. f[n + j] = g[j] /\ g[j] \in Int
    BY <2>1
  <2>11. Adds(j)
    BY <1>3, <2>2, <2>7, <2>8, <2>9, <2>10
  <2> QED BY <1>2, <2>11
<1> QED BY <1>4, <1>5
=============================================================================
