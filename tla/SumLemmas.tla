----------------------------- MODULE SumLemmas -----------------------------
(***************************************************************************)
(* Facts about the sums of the community modules, SumFunction and          *)
(* SumFunctionOnSet, over finite sets.                                     *)
(*                                                                         *)
(* A sum is defined by a recursive function on the subsets of the set,     *)
(* and the induction theorems of the library take a predicate as a         *)
(* parameter.  Here an induction is a descent instead: the set of the      *)
(* subsets for which a fact fails, if it is not empty, has a minimal       *)
(* element, and that element does not fail.                                *)
(***************************************************************************)
EXTENDS Integers, Functions, FiniteSetTheorems, TLAPS

\* A non-empty set of subsets of a finite set has a minimal element.
LEMMA Descent ==
  ASSUME NEW S, IsFiniteSet(S), NEW Fails \in SUBSET SUBSET S, Fails # {}
  PROVE  \E T \in Fails : \A U \in SUBSET T : U \in Fails => U = T
<1>1. IsWellFoundedOn(StrictSubsetOrdering(S), FiniteSubsetsOf(S))
  BY FS_StrictSubsetOrderingWellFounded
<1>2. FiniteSubsetsOf(S) = SUBSET S
  BY FS_FiniteSubsetsOfFinite
<1>3. \E T \in Fails : \A U \in Fails : ~ (<<U, T>> \in StrictSubsetOrdering(S))
  BY <1>1, <1>2, WFMin
<1> QED BY <1>3 DEF StrictSubsetOrdering

\* A non-empty set of numbers up to n has a least one.
LEMMA LeastNumber ==
  ASSUME NEW n \in Nat, NEW T \in SUBSET (0 .. n), T # {}
  PROVE  \E m \in T : \A k \in T : m <= k
<1> DEFINE Down == {D \in SUBSET (0 .. n) : \E k \in T : D = 0 .. k}
<1>1. IsFiniteSet(0 .. n)
  BY FS_Interval
<1>2. \A k \in T : k \in Nat /\ 0 .. k \in Down
  OBVIOUS
<1>3. PICK D \in Down : \A U \in SUBSET D : U \in Down => U = D
  <2>1. Down \in SUBSET SUBSET (0 .. n)
    OBVIOUS
  <2>2. Down # {}
    BY <1>2
  <2> DEFINE S == 0 .. n
  <2>3. IsFiniteSet(S) /\ Down \in SUBSET SUBSET S
    BY <1>1, <2>1
  <2> HIDE DEF Down, S
  <2> QED BY <2>2, <2>3, Descent
<1>4. PICK m \in T : D = 0 .. m
  BY <1>3
<1>5. ASSUME NEW k \in T, k < m PROVE FALSE
  <2>1. k \in Nat /\ m \in Nat
    OBVIOUS
  <2>2. 0 .. k \in Down /\ 0 .. k \in SUBSET (0 .. m)
    BY <1>2, <1>5, <2>1
  <2>3. 0 .. k = 0 .. m
    BY <1>3, <1>4, <2>2
  <2>4. m \in 0 .. k
    BY <2>1, <2>3
  <2> QED BY <1>5, <2>1, <2>4
<1>6. \A k \in T : m <= k
  <2>1. \A k \in T : k \in Nat
    OBVIOUS
  <2> QED BY <1>5, <2>1
<1> QED BY <1>6

-----------------------------------------------------------------------------
(***************************************************************************)
(* The recursive function of a sum exists, and a sum obeys its equation.   *)
(***************************************************************************)
First(s) == CHOOSE x \in s : TRUE
Rest(s) == s \ {First(s)}

LEMMA FirstIn ==
  ASSUME NEW s, s # {}
  PROVE  First(s) \in s
BY DEF First

\* sums is the recursive function that adds up f over every subset of S.
SumsUp(f, S, sums) ==
  sums = [s \in SUBSET S |-> IF s = {} THEN 0 ELSE f[First(s)] + sums[Rest(s)]]

LEMMA SumIsChosen ==
  ASSUME NEW f, NEW S
  PROVE  SumFunctionOnSet(f, S) = (CHOOSE sums : SumsUp(f, S, sums))[S]
BY DEF SumFunctionOnSet, FoldFunctionOnSet, MapThenFoldSet, SumsUp, First, Rest

LEMMA SumsUpTo ==
  ASSUME NEW f, NEW S, NEW sums, SumsUp(f, S, sums), NEW T \in SUBSET S
  PROVE  sums[T] = IF T = {} THEN 0 ELSE f[First(T)] + sums[Rest(T)]
<1> DEFINE Value(s) == IF s = {} THEN 0 ELSE f[First(s)] + sums[Rest(s)]
<1>1. sums = [s \in SUBSET S |-> Value(s)]
  BY DEF SumsUp
<1> HIDE DEF Value
<1>2. sums[T] = Value(T)
  BY <1>1
<1> QED BY <1>2 DEF Value

\* Two such functions, on two sets and of two functions that agree, agree.
LEMMA SumsAgree ==
  ASSUME NEW f, NEW g, NEW S, IsFiniteSet(S), NEW T \in SUBSET S, \A x \in T : f[x] = g[x],
         NEW wide, SumsUp(f, S, wide), NEW narrow, SumsUp(g, T, narrow)
  PROVE  \A U \in SUBSET T : wide[U] = narrow[U]
<1> DEFINE Fails == {U \in SUBSET T : wide[U] # narrow[U]}
<1> SUFFICES ASSUME Fails # {} PROVE FALSE
  OBVIOUS
<1>1. IsFiniteSet(T)
  BY FS_Subset
<1>2. PICK U \in Fails : \A V \in SUBSET U : V \in Fails => V = U
  <2>1. Fails \in SUBSET SUBSET T
    OBVIOUS
  <2> HIDE DEF Fails
  <2> QED BY <1>1, <2>1, Descent
<1>3. wide[U] = IF U = {} THEN 0 ELSE f[First(U)] + wide[Rest(U)]
  BY SumsUpTo
<1>4. narrow[U] = IF U = {} THEN 0 ELSE g[First(U)] + narrow[Rest(U)]
  BY SumsUpTo
<1>5. U # {}
  BY <1>3, <1>4
<1>6. First(U) \in U
  BY <1>5, FirstIn
<1>7. wide[Rest(U)] = narrow[Rest(U)]
  BY <1>2, <1>6 DEF Rest
<1> QED BY <1>3, <1>4, <1>6, <1>7

LEMMA SumsExist ==
  ASSUME NEW f, NEW S, IsFiniteSet(S)
  PROVE  \E sums : SumsUp(f, S, sums)
<1> DEFINE Fails == {T \in SUBSET S : ~ \E sums : SumsUp(f, T, sums)}
<1> SUFFICES ASSUME Fails # {} PROVE FALSE
  OBVIOUS
<1>1. PICK T \in Fails : \A U \in SUBSET T : U \in Fails => U = T
  <2>1. Fails \in SUBSET SUBSET S
    OBVIOUS
  <2> HIDE DEF Fails
  <2> QED BY <2>1, Descent
<1> DEFINE Sums(U) == CHOOSE sums : SumsUp(f, U, sums)
           Value(U) == IF U = {} THEN 0 ELSE f[First(U)] + Sums(Rest(U))[Rest(U)]
           all == [U \in SUBSET T |-> Value(U)]
<1>2. ASSUME NEW U \in SUBSET T, U # T PROVE SumsUp(f, U, Sums(U))
  BY <1>1, <1>2
<1>3. ASSUME NEW U \in SUBSET T, U # {} PROVE Sums(Rest(U))[Rest(U)] = all[Rest(U)]
  <2> DEFINE V == Rest(U)
  <2>1. First(U) \in U
    BY <1>3, FirstIn
  <2>2. V \in SUBSET T /\ V # T
    BY <2>1 DEF Rest
  <2>3. SumsUp(f, V, Sums(V))
    BY <1>2, <2>2
  <2>4. all[V] = Value(V)
    BY <2>2
  <2>5. Sums(V)[V] = IF V = {} THEN 0 ELSE f[First(V)] + Sums(V)[Rest(V)]
    <3> HIDE DEF V, Sums
    <3> QED BY <2>3, SumsUpTo
  <2>6. CASE V # {}
    <3> DEFINE W == Rest(V)
    <3>1. First(V) \in V
      BY <2>6, FirstIn
    <3>2. W \in SUBSET V /\ W # T
      BY <2>2, <3>1 DEF Rest
    <3>3. SumsUp(f, W, Sums(W))
      BY <1>2, <2>2, <3>2
    <3>4. IsFiniteSet(V)
      BY <2>2, FS_Subset
    <3>5. Sums(V)[W] = Sums(W)[W]
      <4> HIDE DEF V, W, Sums
      <4> QED BY <2>3, <3>2, <3>3, <3>4, SumsAgree
    <3> QED BY <2>4, <2>5, <2>6, <3>5
  <2>7. CASE V = {}
    BY <2>4, <2>5, <2>7
  <2> QED BY <2>6, <2>7
<1>4. SumsUp(f, T, all)
  <2> DEFINE Other(U) == IF U = {} THEN 0 ELSE f[First(U)] + all[Rest(U)]
  <2>1. \A U \in SUBSET T : Value(U) = Other(U)
    <3> HIDE DEF all, Sums
    <3> QED BY <1>3
  <2>2. all = [U \in SUBSET T |-> Other(U)]
    <3> HIDE DEF Value, Other
    <3> QED BY <2>1
  <2> QED BY <2>2 DEF SumsUp
<1> QED BY <1>1, <1>4

\* A sum is one term and the sum of the rest, or 0 when there is no term.
THEOREM SumEquation ==
  ASSUME NEW f, NEW S, IsFiniteSet(S)
  PROVE  SumFunctionOnSet(f, S) =
           IF S = {} THEN 0 ELSE f[First(S)] + SumFunctionOnSet(f, Rest(S))
<1> DEFINE Sums(U) == CHOOSE sums : SumsUp(f, U, sums)
<1>1. Rest(S) \in SUBSET S /\ IsFiniteSet(Rest(S))
  BY FS_Subset DEF Rest
<1>2. SumsUp(f, S, Sums(S)) /\ SumsUp(f, Rest(S), Sums(Rest(S)))
  BY <1>1, SumsExist
<1>3. SumFunctionOnSet(f, S) = Sums(S)[S]
  BY SumIsChosen
<1>4. SumFunctionOnSet(f, Rest(S)) = Sums(Rest(S))[Rest(S)]
  BY SumIsChosen
<1> HIDE DEF Sums
<1>5. Sums(S)[Rest(S)] = Sums(Rest(S))[Rest(S)]
  BY <1>1, <1>2, SumsAgree
<1>6. Sums(S)[S] = IF S = {} THEN 0 ELSE f[First(S)] + Sums(S)[Rest(S)]
  BY <1>2, SumsUpTo
<1> QED BY <1>3, <1>4, <1>5, <1>6

-----------------------------------------------------------------------------
(***************************************************************************)
(* What a sum is, whatever the order of its terms.                         *)
(***************************************************************************)

\* The sum over an empty set is 0.
THEOREM SumEmpty ==
  ASSUME NEW f
  PROVE  SumFunctionOnSet(f, {}) = 0
BY SumEquation, FS_EmptySet

\* A sum depends on the terms alone.
THEOREM SumSame ==
  ASSUME NEW f, NEW g, NEW S, IsFiniteSet(S), \A x \in S : f[x] = g[x]
  PROVE  SumFunctionOnSet(f, S) = SumFunctionOnSet(g, S)
<1> DEFINE SumsF == CHOOSE sums : SumsUp(f, S, sums)
           SumsG == CHOOSE sums : SumsUp(g, S, sums)
<1>1. SumsUp(f, S, SumsF) /\ SumsUp(g, S, SumsG)
  BY SumsExist
<1>2. SumFunctionOnSet(f, S) = SumsF[S] /\ SumFunctionOnSet(g, S) = SumsG[S]
  BY SumIsChosen
<1> HIDE DEF SumsF, SumsG
<1>3. SumsF[S] = SumsG[S]
  BY <1>1, SumsAgree
<1> QED BY <1>2, <1>3

\* A sum of integers is an integer.
THEOREM SumInt ==
  ASSUME NEW f, NEW S, IsFiniteSet(S), \A x \in S : f[x] \in Int
  PROVE  SumFunctionOnSet(f, S) \in Int
<1> DEFINE Fails == {T \in SUBSET S : SumFunctionOnSet(f, T) \notin Int}
<1> SUFFICES ASSUME Fails # {} PROVE FALSE
  OBVIOUS
<1>1. PICK T \in Fails : \A U \in SUBSET T : U \in Fails => U = T
  <2>1. Fails \in SUBSET SUBSET S
    OBVIOUS
  <2> HIDE DEF Fails
  <2> QED BY <2>1, Descent
<1>2. T \in SUBSET S /\ IsFiniteSet(T)
  BY FS_Subset
<1>3. SumFunctionOnSet(f, T) = IF T = {} THEN 0 ELSE f[First(T)] + SumFunctionOnSet(f, Rest(T))
  BY <1>2, SumEquation
<1>4. T # {}
  BY <1>3
<1>5. First(T) \in T
  BY <1>4, FirstIn
<1>6. SumFunctionOnSet(f, Rest(T)) \in Int
  BY <1>1, <1>2, <1>5 DEF Rest
<1> QED BY <1>2, <1>3, <1>4, <1>5, <1>6

\* Any term may be taken out of a sum.
THEOREM SumTakeOut ==
  ASSUME NEW f, NEW S, IsFiniteSet(S), \A x \in S : f[x] \in Int, NEW x \in S
  PROVE  SumFunctionOnSet(f, S) = f[x] + SumFunctionOnSet(f, S \ {x})
<1> DEFINE Add(T) == SumFunctionOnSet(f, T)
           Fails == {T \in SUBSET S : \E y \in T : Add(T) # f[y] + Add(T \ {y})}
<1> SUFFICES ASSUME Fails # {} PROVE FALSE
  OBVIOUS
<1>1. PICK T \in Fails : \A U \in SUBSET T : U \in Fails => U = T
  <2>1. Fails \in SUBSET SUBSET S
    OBVIOUS
  <2> HIDE DEF Fails
  <2> QED BY <2>1, Descent
<1>2. \A U \in SUBSET T : U \in SUBSET S /\ IsFiniteSet(U)
  BY FS_Subset
<1>3. PICK y \in T : Add(T) # f[y] + Add(T \ {y})
  OBVIOUS
<1>4. \A U \in SUBSET T : Add(U) = IF U = {} THEN 0 ELSE f[First(U)] + Add(Rest(U))
  BY <1>2, SumEquation
<1>5. \A U \in SUBSET T : Add(U) \in Int
  BY <1>2, SumInt
<1> DEFINE z == First(T)
<1>6. z \in T /\ Rest(T) = T \ {z} /\ y # z
  BY <1>3, <1>4, FirstIn DEF Rest
<1>7. Add(T) = f[z] + Add(T \ {z})
  BY <1>4, <1>6
<1>8. \A U \in SUBSET T : U # T => \A x1 \in U : Add(U) = f[x1] + Add(U \ {x1})
  BY <1>1, <1>2
<1> HIDE DEF Add, Fails, z
<1>9. Add(T \ {z}) = f[y] + Add((T \ {z}) \ {y})
  BY <1>6, <1>8
<1>10. Add(T \ {y}) = f[z] + Add((T \ {y}) \ {z})
  BY <1>6, <1>8
<1>11. (T \ {z}) \ {y} = (T \ {y}) \ {z}
  OBVIOUS
<1>12. f[y] \in Int /\ f[z] \in Int /\ Add((T \ {z}) \ {y}) \in Int
  BY <1>2, <1>5, <1>6
<1> DEFINE a == Add((T \ {z}) \ {y})
<1>13. Add(T) = f[z] + (f[y] + a) /\ f[y] + Add(T \ {y}) = f[y] + (f[z] + a)
  BY <1>7, <1>9, <1>10, <1>11
<1>14. a \in Int
  BY <1>12
<1> HIDE DEF a
<1>15. f[z] + (f[y] + a) = f[y] + (f[z] + a)
  BY <1>12, <1>14
<1> QED BY <1>3, <1>13, <1>15

-----------------------------------------------------------------------------
(***************************************************************************)
(* Sums of other sets and of other functions.                              *)
(***************************************************************************)

\* One more term.
THEOREM SumAdd ==
  ASSUME NEW f, NEW S, IsFiniteSet(S), NEW x, x \notin S, \A y \in S \cup {x} : f[y] \in Int
  PROVE  SumFunctionOnSet(f, S \cup {x}) = SumFunctionOnSet(f, S) + f[x]
<1>1. IsFiniteSet(S \cup {x}) /\ (S \cup {x}) \ {x} = S
  BY FS_AddElement
<1>2. SumFunctionOnSet(f, S \cup {x}) = f[x] + SumFunctionOnSet(f, (S \cup {x}) \ {x})
  BY <1>1, SumTakeOut
<1>3. SumFunctionOnSet(f, S) \in Int /\ f[x] \in Int
  BY SumInt
<1>4. SumFunctionOnSet(f, S \cup {x}) = f[x] + SumFunctionOnSet(f, S)
  BY <1>1, <1>2
<1> QED BY <1>3, <1>4

\* One term alone.
THEOREM SumOne ==
  ASSUME NEW f, NEW x, f[x] \in Int
  PROVE  SumFunctionOnSet(f, {x}) = f[x]
<1>1. SumFunctionOnSet(f, {} \cup {x}) = SumFunctionOnSet(f, {}) + f[x]
  BY SumAdd, FS_EmptySet
<1> QED BY <1>1, SumEmpty

\* A term by term difference.
THEOREM SumDifference ==
  ASSUME NEW f, NEW g, NEW h, NEW S, IsFiniteSet(S),
         \A x \in S : f[x] \in Int /\ g[x] \in Int /\ h[x] = f[x] - g[x]
  PROVE  SumFunctionOnSet(h, S) = SumFunctionOnSet(f, S) - SumFunctionOnSet(g, S)
<1> DEFINE F(T) == SumFunctionOnSet(f, T)
           G(T) == SumFunctionOnSet(g, T)
           H(T) == SumFunctionOnSet(h, T)
           Fails == {T \in SUBSET S : H(T) # F(T) - G(T)}
<1> SUFFICES ASSUME Fails # {} PROVE FALSE
  OBVIOUS
<1>1. PICK T \in Fails : \A U \in SUBSET T : U \in Fails => U = T
  <2>1. Fails \in SUBSET SUBSET S
    OBVIOUS
  <2> HIDE DEF Fails
  <2> QED BY <2>1, Descent
<1> DEFINE x == First(T)
<1>2. T \in SUBSET S /\ IsFiniteSet(T) /\ H(T) # F(T) - G(T)
  BY FS_Subset
<1>3. T # {}
  <2>1. T = {} => F(T) = 0 /\ G(T) = 0 /\ H(T) = 0
    BY SumEmpty
  <2> HIDE DEF F, G, H, Fails
  <2> QED BY <1>2, <2>1
<1>4. x \in T /\ Rest(T) = T \ {x} /\ Rest(T) \in SUBSET T /\ Rest(T) # T
  BY <1>3, FirstIn DEF Rest
<1>5. H(Rest(T)) = F(Rest(T)) - G(Rest(T))
  BY <1>1, <1>2, <1>4
<1>6. IsFiniteSet(Rest(T)) /\ \A y \in Rest(T) : f[y] \in Int /\ g[y] \in Int
  BY <1>2, <1>4, FS_Subset
<1>7. F(Rest(T)) \in Int /\ G(Rest(T)) \in Int
  BY <1>6, SumInt
<1>8. /\ F(T) = f[x] + F(Rest(T))
      /\ G(T) = g[x] + G(Rest(T))
      /\ H(T) = h[x] + H(Rest(T))
  BY <1>2, <1>3, SumEquation
<1>9. f[x] \in Int /\ g[x] \in Int /\ h[x] = f[x] - g[x]
  BY <1>2, <1>4
<1> HIDE DEF F, G, H, Fails, x
<1> QED BY <1>2, <1>5, <1>7, <1>8, <1>9

\* Nothing but zeros.
THEOREM SumZero ==
  ASSUME NEW f, NEW S, IsFiniteSet(S), \A x \in S : f[x] = 0
  PROVE  SumFunctionOnSet(f, S) = 0
<1>1. SumFunctionOnSet(f, S) = SumFunctionOnSet(f, S) - SumFunctionOnSet(f, S)
  BY SumDifference
<1>2. SumFunctionOnSet(f, S) \in Int
  BY SumInt
<1> QED BY <1>1, <1>2

\* A sum of natural numbers is one.
THEOREM SumNat ==
  ASSUME NEW f, NEW S, IsFiniteSet(S), \A x \in S : f[x] \in Nat
  PROVE  SumFunctionOnSet(f, S) \in Nat
<1> DEFINE Fails == {T \in SUBSET S : SumFunctionOnSet(f, T) \notin Nat}
<1> SUFFICES ASSUME Fails # {} PROVE FALSE
  OBVIOUS
<1>1. PICK T \in Fails : \A U \in SUBSET T : U \in Fails => U = T
  <2>1. Fails \in SUBSET SUBSET S
    OBVIOUS
  <2> HIDE DEF Fails
  <2> QED BY <2>1, Descent
<1>2. T \in SUBSET S /\ IsFiniteSet(T)
  BY FS_Subset
<1>3. SumFunctionOnSet(f, T) = IF T = {} THEN 0 ELSE f[First(T)] + SumFunctionOnSet(f, Rest(T))
  BY <1>2, SumEquation
<1>4. T # {}
  BY <1>3
<1>5. First(T) \in T
  BY <1>4, FirstIn
<1>6. SumFunctionOnSet(f, Rest(T)) \in Nat
  BY <1>1, <1>2, <1>5 DEF Rest
<1> QED BY <1>2, <1>3, <1>4, <1>5, <1>6

\* Smaller terms, smaller sum.
THEOREM SumMonotone ==
  ASSUME NEW f, NEW g, NEW S, IsFiniteSet(S),
         \A x \in S : f[x] \in Int /\ g[x] \in Int /\ f[x] <= g[x]
  PROVE  SumFunctionOnSet(f, S) <= SumFunctionOnSet(g, S)
<1> DEFINE h == [x \in S |-> g[x] - f[x]]
<1>1. \A x \in S : h[x] \in Nat /\ h[x] = g[x] - f[x]
  OBVIOUS
<1> HIDE DEF h
<1>2. SumFunctionOnSet(h, S) = SumFunctionOnSet(g, S) - SumFunctionOnSet(f, S)
  BY <1>1, SumDifference
<1>3. SumFunctionOnSet(h, S) \in Nat
  BY <1>1, SumNat
<1>4. SumFunctionOnSet(f, S) \in Int /\ SumFunctionOnSet(g, S) \in Int
  BY SumInt
<1> QED BY <1>2, <1>3, <1>4

\* One term changes.
THEOREM SumUpdate ==
  ASSUME NEW f, NEW g, NEW S, IsFiniteSet(S), NEW x \in S,
         \A y \in S : f[y] \in Int /\ g[y] \in Int, \A y \in S \ {x} : g[y] = f[y]
  PROVE  SumFunctionOnSet(g, S) = SumFunctionOnSet(f, S) - f[x] + g[x]
<1>1. IsFiniteSet(S \ {x})
  BY FS_RemoveElement
<1>2. SumFunctionOnSet(g, S \ {x}) = SumFunctionOnSet(f, S \ {x})
  BY <1>1, SumSame
<1>3. SumFunctionOnSet(f, S \ {x}) \in Int
  BY <1>1, SumInt
<1>4. /\ SumFunctionOnSet(g, S) = g[x] + SumFunctionOnSet(g, S \ {x})
      /\ SumFunctionOnSet(f, S) = f[x] + SumFunctionOnSet(f, S \ {x})
  BY SumTakeOut
<1>5. f[x] \in Int /\ g[x] \in Int
  OBVIOUS
<1> QED BY <1>2, <1>3, <1>4, <1>5

\* A sum may be made part by part: the terms x of one part(x), and then the parts.
THEOREM SumByParts ==
  ASSUME NEW f, NEW S, IsFiniteSet(S), \A x \in S : f[x] \in Int,
         NEW A, IsFiniteSet(A), NEW part, \A x \in S : part[x] \in A
  PROVE  SumFunctionOnSet(f, S) =
           SumFunctionOnSet([a \in A |-> SumFunctionOnSet(f, {x \in S : part[x] = a})], A)
<1> DEFINE Part(T, a) == {x \in T : part[x] = a}
           Row(T) == [a \in A |-> SumFunctionOnSet(f, Part(T, a))]
           Add(T) == SumFunctionOnSet(f, T)
           Both(T) == SumFunctionOnSet(Row(T), A)
           Fails == {T \in SUBSET S : Add(T) # Both(T)}
<1> SUFFICES ASSUME Fails # {} PROVE FALSE
  OBVIOUS
<1>1. PICK T \in Fails : \A U \in SUBSET T : U \in Fails => U = T
  <2>1. Fails \in SUBSET SUBSET S
    OBVIOUS
  <2> HIDE DEF Fails
  <2> QED BY <2>1, Descent
<1>2. T \in SUBSET S /\ Add(T) # Both(T)
  OBVIOUS
<1>3. ASSUME NEW U \in SUBSET T, NEW a \in A
      PROVE  /\ IsFiniteSet(Part(U, a))
             /\ Row(U)[a] = SumFunctionOnSet(f, Part(U, a))
             /\ Row(U)[a] \in Int
  <2>1. Part(U, a) \in SUBSET S
    BY <1>2
  <2>2. IsFiniteSet(Part(U, a)) /\ \A x \in Part(U, a) : f[x] \in Int
    BY <2>1, FS_Subset
  <2>3. SumFunctionOnSet(f, Part(U, a)) \in Int
    <3> HIDE DEF Part
    <3> QED BY <2>2, SumInt
  <2> QED BY <2>2, <2>3
<1>4. T # {}
  <2>1. SUFFICES ASSUME T = {} PROVE FALSE
    OBVIOUS
  <2>2. \A a \in A : Part(T, a) = {}
    BY <2>1
  <2>3. \A a \in A : Row(T)[a] = 0
    <3> HIDE DEF Part
    <3> QED BY <2>2, SumEmpty
  <2>4. Both(T) = 0
    <3> HIDE DEF Row
    <3> QED BY <2>3, SumZero
  <2>5. Add(T) = 0
    BY <2>1, SumEmpty
  <2> QED BY <1>2, <2>4, <2>5
<1> DEFINE x == First(T)
           U == Rest(T)
<1>5. x \in T /\ U = T \ {x} /\ U \in SUBSET T /\ U # T
  BY <1>4, FirstIn DEF Rest
<1>6. Add(U) = Both(U)
  BY <1>1, <1>2, <1>5
<1>7. Add(T) = f[x] + Add(U)
  <2>1. IsFiniteSet(T)
    BY <1>2, FS_Subset
  <2> QED BY <2>1, <1>4, SumEquation
<1>8. f[x] \in Int /\ part[x] \in A /\ x \in S
  BY <1>2, <1>5
<1>9. \A a \in A \ {part[x]} : Part(T, a) = Part(U, a)
  BY <1>5
<1>10. Row(T)[part[x]] = Row(U)[part[x]] + f[x]
  <2>1. Part(T, part[x]) = Part(U, part[x]) \cup {x} /\ x \notin Part(U, part[x])
    BY <1>5
  <2>2. \A y \in Part(U, part[x]) \cup {x} : f[y] \in Int
    BY <1>2, <1>5
  <2>3. IsFiniteSet(Part(U, part[x]))
    BY <1>3, <1>5, <1>8
  <2>4. SumFunctionOnSet(f, Part(U, part[x]) \cup {x})
          = SumFunctionOnSet(f, Part(U, part[x])) + f[x]
    <3> HIDE DEF Part, x, U
    <3> QED BY <2>1, <2>2, <2>3, SumAdd
  <2>5. T \in SUBSET T
    OBVIOUS
  <2> HIDE DEF Part, Row, x, U
  <2> QED BY <2>1, <2>4, <2>5, <1>3, <1>5, <1>8
<1>11. \A a \in A \ {part[x]} : Row(T)[a] = Row(U)[a]
  <2> HIDE DEF Part, x, U
  <2> QED BY <1>9
<1>12. \A a \in A : Row(T)[a] \in Int /\ Row(U)[a] \in Int
  BY <1>3, <1>5
<1> HIDE DEF Row, x, U
<1>13. Both(T) = Both(U) - Row(U)[part[x]] + Row(T)[part[x]]
  BY <1>8, <1>11, <1>12, SumUpdate
<1>14. Both(U) \in Int
  BY <1>12, SumInt
<1>15. Row(U)[part[x]] \in Int
  BY <1>8, <1>12
<1> HIDE DEF Both, Add, Fails
<1> QED BY <1>2, <1>6, <1>7, <1>8, <1>10, <1>13, <1>14, <1>15

\* Two sets without a common element.
THEOREM SumUnion ==
  ASSUME NEW f, NEW S, IsFiniteSet(S), NEW T, IsFiniteSet(T), S \cap T = {},
         \A x \in S \cup T : f[x] \in Int
  PROVE  SumFunctionOnSet(f, S \cup T) = SumFunctionOnSet(f, S) + SumFunctionOnSet(f, T)
<1> DEFINE part == [x \in S \cup T |-> IF x \in S THEN 1 ELSE 2]
           row == [a \in {1, 2} |-> SumFunctionOnSet(f, {x \in S \cup T : part[x] = a})]
<1>1. IsFiniteSet(S \cup T)
  BY FS_Union
<1>2. IsFiniteSet({1}) /\ IsFiniteSet({1, 2}) /\ {1, 2} = {1} \cup {2} /\ 2 \notin {1}
  <2>1. IsFiniteSet({1}) /\ IsFiniteSet({1} \cup {2})
    BY FS_Singleton, FS_AddElement
  <2>2. {1, 2} = {1} \cup {2} /\ 2 \notin {1}
    OBVIOUS
  <2> QED BY <2>1, <2>2
<1>3. SumFunctionOnSet(f, S \cup T) = SumFunctionOnSet(row, {1, 2})
  <2> DEFINE U == S \cup T
             A == {1, 2}
  <2>1. \A x \in U : part[x] \in A
    OBVIOUS
  <2>2. \A x \in U : f[x] \in Int
    OBVIOUS
  <2>3. IsFiniteSet(U) /\ IsFiniteSet(A)
    BY <1>1, <1>2
  <2>4. row = [a \in A |-> SumFunctionOnSet(f, {x \in U : part[x] = a})]
    OBVIOUS
  <2> HIDE DEF part, row, U, A
  <2>5. SumFunctionOnSet(f, U) = SumFunctionOnSet(row, A)
    BY <2>1, <2>2, <2>3, <2>4, SumByParts
  <2> QED BY <2>5 DEF U, A
<1>4. {x \in S \cup T : part[x] = 1} = S /\ {x \in S \cup T : part[x] = 2} = T
  OBVIOUS
<1>5. row[1] = SumFunctionOnSet(f, S) /\ row[2] = SumFunctionOnSet(f, T)
  <2> HIDE DEF part
  <2> QED BY <1>4
<1>6. SumFunctionOnSet(f, S) \in Int /\ SumFunctionOnSet(f, T) \in Int
  BY SumInt
<1> HIDE DEF row
<1>7. SumFunctionOnSet(row, {1} \cup {2}) = SumFunctionOnSet(row, {1}) + row[2]
  <2>1. \A a \in {1} \cup {2} : row[a] \in Int
    BY <1>5, <1>6
  <2> QED BY <1>2, <2>1, SumAdd
<1>8. SumFunctionOnSet(row, {1}) = row[1]
  BY <1>5, <1>6, SumOne
<1> QED BY <1>2, <1>3, <1>5, <1>7, <1>8

\* A sum whose terms get other names, one each, stays the same.
THEOREM SumRenamed ==
  ASSUME NEW f, NEW S, IsFiniteSet(S), \A x \in S : f[x] \in Int,
         NEW g, NEW A, IsFiniteSet(A), NEW name,
         \A x \in S : name[x] \in A /\ f[x] = g[name[x]],
         \A a \in A : \E x \in S : {y \in S : name[y] = a} = {x}
  PROVE  SumFunctionOnSet(f, S) = SumFunctionOnSet(g, A)
<1> DEFINE row == [a \in A |-> SumFunctionOnSet(f, {x \in S : name[x] = a})]
<1>1. SumFunctionOnSet(f, S) = SumFunctionOnSet(row, A)
  BY SumByParts
<1>2. ASSUME NEW a \in A PROVE row[a] = g[a]
  <2>1. PICK x \in S : {y \in S : name[y] = a} = {x}
    OBVIOUS
  <2>2. name[x] = a
    BY <2>1
  <2>3. row[a] = SumFunctionOnSet(f, {x})
    BY <2>1
  <2>4. SumFunctionOnSet(f, {x}) = f[x]
    BY SumOne
  <2> HIDE DEF row
  <2> QED BY <2>2, <2>3, <2>4
<1> HIDE DEF row
<1> QED BY <1>1, <1>2, SumSame

\* The sum of a column of natural numbers: nothing for an empty one, and one cell written
\* changes the sum by the change of that cell.
THEOREM SumOfColumn ==
  ASSUME NEW P, IsFiniteSet(P)
  PROVE  /\ SumFunction([p \in P |-> 0]) = 0
         /\ \A column \in [P -> Nat] :
              /\ SumFunction(column) \in Nat
              /\ \A p \in P, a \in Nat :
                   SumFunction([column EXCEPT ![p] = a]) = SumFunction(column) - column[p] + a
<1>1. SumFunction([p \in P |-> 0]) = 0
  <2> DEFINE zeros == [p \in P |-> 0]
  <2>1. DOMAIN zeros = P /\ \A p \in P : zeros[p] = 0
    OBVIOUS
  <2> HIDE DEF zeros
  <2> QED BY <2>1, SumZero DEF SumFunction
<1>2. ASSUME NEW column \in [P -> Nat]
      PROVE  SumFunction(column) \in Nat
  BY SumNat DEF SumFunction
<1>3. ASSUME NEW column \in [P -> Nat], NEW p \in P, NEW a \in Nat
      PROVE  SumFunction([column EXCEPT ![p] = a]) = SumFunction(column) - column[p] + a
  <2> DEFINE written == [column EXCEPT ![p] = a]
  <2>1. /\ DOMAIN written = P /\ DOMAIN column = P
        /\ \A q \in P : column[q] \in Int /\ written[q] \in Int
        /\ \A q \in P \ {p} : written[q] = column[q]
        /\ written[p] = a /\ column[p] \in Int
    OBVIOUS
  <2> HIDE DEF written
  <2>2. SumFunctionOnSet(written, P) = SumFunctionOnSet(column, P) - column[p] + written[p]
    BY <2>1, SumUpdate
  <2>3. SumFunction(written) = SumFunctionOnSet(written, P)
        /\ SumFunction(column) = SumFunctionOnSet(column, P)
    BY <2>1 DEF SumFunction
  <2>4. SumFunction(written) = SumFunction(column) - column[p] + a
    BY <2>1, <2>2, <2>3
  <2> QED BY <2>4 DEF written
<1> QED BY <1>1, <1>2, <1>3

-----------------------------------------------------------------------------
(***************************************************************************)
(* Multiples of q, and their sums.                                         *)
(***************************************************************************)
LEMMA ProductIsMultiple ==
  ASSUME NEW q \in Nat \ {0}, NEW k \in Int
  PROVE  (q * k) % q = 0
BY Z3

LEMMA MultipleIsProduct ==
  ASSUME NEW q \in Nat \ {0}, NEW a \in Int, a % q = 0
  PROVE  \E k \in Int : a = q * k
<1>1. a \div q \in Int /\ a = q * (a \div q) + (a % q)
  BY Z3
<1>2. a = q * (a \div q)
  BY <1>1, Z3
<1> QED BY <1>1, <1>2

LEMMA MultiplesAdd ==
  ASSUME NEW q \in Nat \ {0}, NEW a \in Int, NEW b \in Int, a % q = 0, b % q = 0
  PROVE  (a + b) % q = 0 /\ (a - b) % q = 0
<1>1. PICK k \in Int : a = q * k
  BY MultipleIsProduct
<1>2. PICK m \in Int : b = q * m
  BY MultipleIsProduct
<1>3. a + b = q * (k + m) /\ a - b = q * (k - m) /\ k + m \in Int /\ k - m \in Int
  BY <1>1, <1>2
<1> QED BY <1>3, ProductIsMultiple

\* A sum of multiples of q is a multiple of q.
THEOREM SumMultiple ==
  ASSUME NEW f, NEW S, IsFiniteSet(S), NEW q \in Nat \ {0},
         \A x \in S : f[x] \in Int /\ f[x] % q = 0
  PROVE  SumFunctionOnSet(f, S) % q = 0
<1> DEFINE Fails == {T \in SUBSET S : SumFunctionOnSet(f, T) % q # 0}
<1> SUFFICES ASSUME Fails # {} PROVE FALSE
  OBVIOUS
<1>1. PICK T \in Fails : \A U \in SUBSET T : U \in Fails => U = T
  <2>1. Fails \in SUBSET SUBSET S
    OBVIOUS
  <2> HIDE DEF Fails
  <2> QED BY <2>1, Descent
<1>2. T \in SUBSET S /\ IsFiniteSet(T) /\ SumFunctionOnSet(f, T) % q # 0
  BY FS_Subset
<1>3. SumFunctionOnSet(f, T) = IF T = {} THEN 0 ELSE f[First(T)] + SumFunctionOnSet(f, Rest(T))
  BY <1>2, SumEquation
<1>4. T # {}
  BY <1>2, <1>3
<1>5. First(T) \in T /\ Rest(T) \in SUBSET T /\ Rest(T) # T
  BY <1>4, FirstIn DEF Rest
<1>6. SumFunctionOnSet(f, Rest(T)) % q = 0
  BY <1>1, <1>2, <1>5
<1>7. SumFunctionOnSet(f, Rest(T)) \in Int
  <2>1. IsFiniteSet(Rest(T)) /\ \A x \in Rest(T) : f[x] \in Int
    BY <1>2, <1>5, FS_Subset
  <2> QED BY <2>1, SumInt
<1>8. f[First(T)] \in Int /\ f[First(T)] % q = 0
  BY <1>2, <1>5
<1> HIDE DEF Fails
<1> QED BY <1>2, <1>3, <1>4, <1>6, <1>7, <1>8, MultiplesAdd
=============================================================================
