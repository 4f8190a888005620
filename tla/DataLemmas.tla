----------------------------- MODULE DataLemmas -----------------------------
(***************************************************************************)
(* Lemmas about the data of the models, for the proofs about the contracts *)
(* that use it: what swap and pop does to an array, and what the sum of    *)
(* the values of a function is (SumFunction of the community modules).     *)
(*                                                                         *)
(* SumFunctionOnSet(f, S) is a CHOOSE of a table that satisfies a          *)
(* recursive equation, so the table has to be shown to exist, and to be    *)
(* the only one on finite sets, before anything can be said of the sum.    *)
(* The inductions look for a smallest set for which a fact fails: the      *)
(* library states that strict inclusion is well founded on finite sets.    *)
(***************************************************************************)
EXTENDS Arrays, SequenceTheorems, FiniteSetTheorems, TLAPS

(* SwapAndPop(array, p) drops the last element of an array after moving it  *)
(* to position p: positions but the last keep their element, except p.      *)
LEMMA SwapAndPopProperties ==
    ASSUME NEW S, NEW array \in Seq(S), NEW p \in Nat, p < Len(array)
    PROVE  /\ SwapAndPop(array, p) \in Seq(S)
           /\ Len(SwapAndPop(array, p)) = Len(array) - 1
           /\ \A i \in 1..(Len(array) - 1) :
                  SwapAndPop(array, p)[i] =
                      IF i = p + 1 THEN array[Len(array)] ELSE array[i]
<1> DEFINE swapped == [array EXCEPT ![p + 1] = array[Len(array)]]
<1>1. /\ Len(array) \in Nat
      /\ array \in [1..Len(array) -> S]
  BY LenProperties
<1>2. /\ swapped \in Seq(S)
      /\ Len(swapped) = Len(array)
      /\ \A i \in 1..Len(array) :
             swapped[i] = IF i = p + 1 THEN array[Len(array)] ELSE array[i]
  BY <1>1, ExceptSeq
<1>3. \A i \in 1..(Len(array) - 1) : swapped[i] \in S
  BY <1>1, <1>2
<1> HIDE DEF swapped
<1>4. /\ SubSeq(swapped, 1, Len(array) - 1) \in Seq(S)
      /\ Len(SubSeq(swapped, 1, Len(array) - 1)) = Len(array) - 1
      /\ \A i \in 1..(Len(array) - 1) :
             SubSeq(swapped, 1, Len(array) - 1)[i] = swapped[i]
  BY <1>1, <1>3, SubSeqProperties
<1>5. SwapAndPop(array, p) = SubSeq(swapped, 1, Len(array) - 1)
  BY <1>2 DEF SwapAndPop, LastOf, Front, swapped
<1> QED
  BY <1>2, <1>4, <1>5

-----------------------------------------------------------------------------
(* Sums *)

(* An induction over finite sets: a nonempty family of subsets of a finite  *)
(* set has a member with no proper subset in the family.                    *)
LEMMA MinimalSubset ==
    ASSUME NEW S, IsFiniteSet(S), NEW F, F \subseteq SUBSET S, F # {}
    PROVE  \E T \in F : \A U \in F : U \subseteq T => U = T
<1>1. IsWellFoundedOn(StrictSubsetOrdering(S), FiniteSubsetsOf(S))
  BY FS_StrictSubsetOrderingWellFounded
<1>2. F \subseteq FiniteSubsetsOf(S)
  BY FS_FiniteSubsetsOfFinite
<1>3. PICK T \in F : \A U \in F : ~(<<U, T>> \in StrictSubsetOrdering(S))
  BY <1>1, <1>2, WFMin
<1> QED
  BY <1>3 DEF StrictSubsetOrdering

(* A sum is a table over all subsets: g[T] is the sum of f over T.          *)
Pick(T) == CHOOSE x \in T : TRUE
Sums(g, f, S) ==
    g = [T \in SUBSET S |->
            IF T = {} THEN 0 ELSE f[Pick(T)] + g[T \ {Pick(T)}]]

LEMMA PickIsMember == ASSUME NEW T, T # {} PROVE Pick(T) \in T
BY DEF Pick

LEMMA SumIsTabled ==
    ASSUME NEW f, NEW S
    PROVE  SumFunctionOnSet(f, S) = (CHOOSE g : Sums(g, f, S))[S]
BY Zenon DEF SumFunctionOnSet, FoldFunctionOnSet, MapThenFoldSet, Sums, Pick

LEMMA SumsEntry ==
    ASSUME NEW f, NEW S, NEW g, Sums(g, f, S), NEW T \in SUBSET S
    PROVE  g[T] = IF T = {} THEN 0 ELSE f[Pick(T)] + g[T \ {Pick(T)}]
BY Zenon DEF Sums

(* Two tables agree where both are defined. *)
LEMMA SumsAgree ==
    ASSUME NEW f, NEW S, IsFiniteSet(S), NEW R, S \subseteq R,
           NEW g, Sums(g, f, S), NEW h, Sums(h, f, R)
    PROVE  \A T \in SUBSET S : g[T] = h[T]
<1> DEFINE F == {T \in SUBSET S : g[T] # h[T]}
<1> SUFFICES ASSUME F # {} PROVE FALSE
  OBVIOUS
<1>1. PICK T \in F : \A U \in F : U \subseteq T => U = T
  <2>1. F \subseteq SUBSET S
    OBVIOUS
  <2> HIDE DEF F
  <2> QED
    BY <2>1, MinimalSubset
<1>2. /\ g[T] = IF T = {} THEN 0 ELSE f[Pick(T)] + g[T \ {Pick(T)}]
      /\ h[T] = IF T = {} THEN 0 ELSE f[Pick(T)] + h[T \ {Pick(T)}]
  <2>1. T \in SUBSET S /\ T \in SUBSET R
    OBVIOUS
  <2> HIDE DEF F
  <2> QED
    BY <2>1, SumsEntry
<1>3. T # {} => g[T \ {Pick(T)}] = h[T \ {Pick(T)}]
  BY <1>1, PickIsMember
<1> QED
  BY <1>2, <1>3

LEMMA SumsExist ==
    ASSUME NEW f, NEW S, IsFiniteSet(S)
    PROVE  \E g : Sums(g, f, S)
<1> DEFINE V(T) == SumFunctionOnSet(f, T)
           F == {T \in SUBSET S : ~\E g : Sums(g, f, T)}
<1> SUFFICES ASSUME F # {} PROVE FALSE
  OBVIOUS
<1>1. PICK T \in F : \A U \in F : U \subseteq T => U = T
  <2>1. F \subseteq SUBSET S
    OBVIOUS
  <2> HIDE DEF F
  <2> QED
    BY <2>1, MinimalSubset
<1> DEFINE G == [U \in SUBSET T |->
                    IF U = {} THEN 0 ELSE f[Pick(U)] + V(U \ {Pick(U)})]
<1>2. ASSUME NEW U \in SUBSET T, U # T
      PROVE  G[U] = V(U)
  <2>1. Sums(CHOOSE g : Sums(g, f, U), f, U)
    BY <1>1, <1>2
  <2> DEFINE g == CHOOSE g : Sums(g, f, U)
  <2>2. V(U) = g[U]
    BY SumIsTabled
  <2>3. g[U] = IF U = {} THEN 0 ELSE f[Pick(U)] + g[U \ {Pick(U)}]
    BY <2>1, SumsEntry
  <2>4. ASSUME U # {} PROVE g[U \ {Pick(U)}] = V(U \ {Pick(U)})
    <3> DEFINE W == U \ {Pick(U)}
               h == CHOOSE h : Sums(h, f, W)
    <3>1. Sums(h, f, W)
      <4>1. W \in SUBSET T /\ W # T
        BY <1>2
      <4>2. W \notin F
        BY <1>1, <4>1
      <4> QED
        BY <4>1, <4>2
    <3>2. IsFiniteSet(W)
      BY FS_Subset
    <3>3. h[W] = g[W]
      <4> HIDE DEF h, g, W
      <4> QED
        BY <2>1, <3>1, <3>2, SumsAgree DEF W, g
    <3> QED
      BY <3>3, SumIsTabled
  <2> QED
    BY <2>2, <2>3, <2>4
<1>3. Sums(G, f, T)
  <2>1. ASSUME NEW U \in SUBSET T, U # {} PROVE V(U \ {Pick(U)}) = G[U \ {Pick(U)}]
    <3>1. U \ {Pick(U)} \in SUBSET T /\ U \ {Pick(U)} # T
      BY <2>1, PickIsMember
    <3> HIDE DEF G, V
    <3> QED
      BY <1>2, <3>1
  <2>2. G = [U \in SUBSET T |->
                IF U = {} THEN 0 ELSE f[Pick(U)] + G[U \ {Pick(U)}]]
    <3> HIDE DEF V
    <3> SUFFICES \A U \in SUBSET T :
           (IF U = {} THEN 0 ELSE f[Pick(U)] + V(U \ {Pick(U)}))
           = (IF U = {} THEN 0 ELSE f[Pick(U)] + G[U \ {Pick(U)}])
      BY Zenon
    <3> HIDE DEF G
    <3> QED
      BY <2>1
  <2> QED
    BY <2>2, Zenon DEF Sums
<1> QED
  BY <1>1, <1>3

LEMMA SumUnfolds ==
    ASSUME NEW f, NEW S, IsFiniteSet(S)
    PROVE  SumFunctionOnSet(f, S) =
               IF S = {} THEN 0
               ELSE f[Pick(S)] + SumFunctionOnSet(f, S \ {Pick(S)})
<1> DEFINE R == S \ {Pick(S)}
           g == CHOOSE g : Sums(g, f, S)
           h == CHOOSE h : Sums(h, f, R)
<1>1. IsFiniteSet(R)
  BY FS_Subset
<1>2. Sums(g, f, S)
  BY SumsExist
<1>3. Sums(h, f, R)
  BY <1>1, SumsExist
<1>4. SumFunctionOnSet(f, S) = g[S] /\ SumFunctionOnSet(f, R) = h[R]
  BY SumIsTabled
<1> HIDE DEF g, h
<1>5. g[R] = h[R]
  BY <1>1, <1>2, <1>3, SumsAgree
<1> QED
  BY <1>2, <1>4, <1>5, SumsEntry

(* The sum over no element. *)
LEMMA SumEmpty == ASSUME NEW f PROVE SumFunctionOnSet(f, {}) = 0
BY FS_EmptySet, SumUnfolds

(* A sum of zeros. *)
LEMMA SumZero ==
    ASSUME NEW f, NEW S, IsFiniteSet(S), \A x \in S : f[x] = 0
    PROVE  SumFunctionOnSet(f, S) = 0
<1> DEFINE F == {T \in SUBSET S : SumFunctionOnSet(f, T) # 0}
<1> SUFFICES ASSUME F # {} PROVE FALSE
  BY Zenon
<1>1. PICK T \in F : \A U \in F : U \subseteq T => U = T
  <2>1. F \subseteq SUBSET S
    OBVIOUS
  <2> HIDE DEF F
  <2> QED
    BY <2>1, MinimalSubset
<1>2. T \in SUBSET S /\ IsFiniteSet(T)
  BY FS_Subset
<1>3. T # {}
  BY SumEmpty
<1>4. Pick(T) \in T
  BY <1>3, PickIsMember
<1>5. SumFunctionOnSet(f, T \ {Pick(T)}) = 0
  BY <1>1, <1>2, <1>4
<1> QED
  BY <1>2, <1>3, <1>4, <1>5, SumUnfolds

LEMMA SumInt ==
    ASSUME NEW f, NEW S, IsFiniteSet(S), \A x \in S : f[x] \in Int
    PROVE  SumFunctionOnSet(f, S) \in Int
<1> DEFINE F == {T \in SUBSET S : SumFunctionOnSet(f, T) \notin Int}
<1> SUFFICES ASSUME F # {} PROVE FALSE
  BY Zenon
<1>1. PICK T \in F : \A U \in F : U \subseteq T => U = T
  <2>1. F \subseteq SUBSET S
    OBVIOUS
  <2> HIDE DEF F
  <2> QED
    BY <2>1, MinimalSubset
<1>2. T \in SUBSET S /\ IsFiniteSet(T)
  BY FS_Subset
<1>3. CASE T = {}
  BY <1>3, SumEmpty
<1>4. CASE T # {}
  <2>1. Pick(T) \in T
    BY <1>4, PickIsMember
  <2>2. SumFunctionOnSet(f, T \ {Pick(T)}) \in Int
    BY <1>1, <1>2, <2>1
  <2>3. SumFunctionOnSet(f, T) = f[Pick(T)] + SumFunctionOnSet(f, T \ {Pick(T)})
    BY <1>2, <1>4, SumUnfolds
  <2> QED
    BY <1>2, <2>1, <2>2, <2>3
<1> QED
  BY <1>3, <1>4

LEMMA SumSame ==
    ASSUME NEW f, NEW g, NEW S, IsFiniteSet(S), \A x \in S : f[x] = g[x]
    PROVE  SumFunctionOnSet(f, S) = SumFunctionOnSet(g, S)
<1> DEFINE F == {T \in SUBSET S : SumFunctionOnSet(f, T) # SumFunctionOnSet(g, T)}
<1> SUFFICES ASSUME F # {} PROVE FALSE
  BY Zenon
<1>1. PICK T \in F : \A U \in F : U \subseteq T => U = T
  <2>1. F \subseteq SUBSET S
    OBVIOUS
  <2> HIDE DEF F
  <2> QED
    BY <2>1, MinimalSubset
<1>2. T \in SUBSET S /\ IsFiniteSet(T)
  BY FS_Subset
<1>3. CASE T = {}
  BY <1>3, SumEmpty
<1>4. CASE T # {}
  <2>1. Pick(T) \in T
    BY <1>4, PickIsMember
  <2>2. SumFunctionOnSet(f, T \ {Pick(T)}) = SumFunctionOnSet(g, T \ {Pick(T)})
    BY <1>1, <1>2, <2>1
  <2>3. /\ SumFunctionOnSet(f, T) = f[Pick(T)] + SumFunctionOnSet(f, T \ {Pick(T)})
        /\ SumFunctionOnSet(g, T) = g[Pick(T)] + SumFunctionOnSet(g, T \ {Pick(T)})
    BY <1>2, <1>4, SumUnfolds
  <2> QED
    BY <1>2, <2>1, <2>2, <2>3
<1> QED
  BY <1>3, <1>4

(* The order does not matter: any element may be taken out first. *)
LEMMA SumWithout ==
    ASSUME NEW f, NEW S, IsFiniteSet(S), \A x \in S : f[x] \in Int, NEW x \in S
    PROVE  SumFunctionOnSet(f, S) = f[x] + SumFunctionOnSet(f, S \ {x})
<1> DEFINE Total(T) == SumFunctionOnSet(f, T)
           F == {T \in SUBSET S : \E y \in T : Total(T) # f[y] + Total(T \ {y})}
<1> SUFFICES ASSUME F # {} PROVE FALSE
  BY Zenon
<1>1. PICK T \in F : \A U \in F : U \subseteq T => U = T
  <2>1. F \subseteq SUBSET S
    OBVIOUS
  <2> HIDE DEF F
  <2> QED
    BY <2>1, MinimalSubset
<1>2. T \in SUBSET S /\ IsFiniteSet(T)
  BY FS_Subset
<1>3. PICK y \in T : Total(T) # f[y] + Total(T \ {y})
  OBVIOUS
<1> DEFINE p == Pick(T)
<1>4. p \in T
  BY <1>3, PickIsMember
<1>5. Total(T) = f[p] + Total(T \ {p})
  BY <1>2, <1>3, SumUnfolds
<1>6. y # p
  BY <1>3, <1>5
<1>7. IsFiniteSet(T \ {y}) /\ IsFiniteSet((T \ {p}) \ {y})
  BY <1>2, FS_RemoveElement
<1>8. Total(T \ {p}) = f[y] + Total((T \ {p}) \ {y})
  <2>1. T \ {p} \in SUBSET S /\ T \ {p} # T /\ y \in T \ {p}
    BY <1>2, <1>4, <1>6
  <2>2. T \ {p} \notin F
    BY <1>1, <2>1
  <2> HIDE DEF Total, p
  <2> QED
    BY <2>1, <2>2
<1>9. Total(T \ {y}) = f[p] + Total((T \ {y}) \ {p})
  <2>1. T \ {y} \in SUBSET S /\ T \ {y} # T /\ p \in T \ {y}
    BY <1>2, <1>4, <1>6
  <2>2. T \ {y} \notin F
    BY <1>1, <2>1
  <2> HIDE DEF Total, p
  <2> QED
    BY <2>1, <2>2
<1>10. (T \ {y}) \ {p} = (T \ {p}) \ {y}
  OBVIOUS
<1>11. f[p] \in Int /\ f[y] \in Int /\ Total((T \ {p}) \ {y}) \in Int
  BY <1>2, <1>4, <1>7, SumInt
<1>12. Total(T) = f[p] + (f[y] + Total((T \ {p}) \ {y}))
  BY <1>5, <1>8, Zenon
<1>13. Total(T \ {y}) = f[p] + Total((T \ {p}) \ {y})
  BY <1>9, <1>10, Zenon
<1>14. f[p] + (f[y] + Total((T \ {p}) \ {y}))
       = f[y] + (f[p] + Total((T \ {p}) \ {y}))
  <2> HIDE DEF Total, p
  <2> QED
    BY <1>11
<1> QED
  BY <1>3, <1>12, <1>13, <1>14, Zenon

(* One term changes: the sum changes by as much. *)
LEMMA SumChanged ==
    ASSUME NEW f, NEW g, NEW S, IsFiniteSet(S), NEW x \in S,
           \A y \in S : f[y] \in Int /\ g[y] \in Int,
           \A y \in S \ {x} : g[y] = f[y]
    PROVE  SumFunctionOnSet(g, S) = SumFunctionOnSet(f, S) + g[x] - f[x]
<1>1. IsFiniteSet(S \ {x})
  BY FS_RemoveElement
<1>2. SumFunctionOnSet(g, S \ {x}) = SumFunctionOnSet(f, S \ {x})
  BY <1>1, SumSame
<1>3. SumFunctionOnSet(f, S \ {x}) \in Int
  BY <1>1, SumInt
<1>4. /\ SumFunctionOnSet(g, S) = g[x] + SumFunctionOnSet(g, S \ {x})
      /\ SumFunctionOnSet(f, S) = f[x] + SumFunctionOnSet(f, S \ {x})
  BY SumWithout
<1> QED
  BY <1>2, <1>3, <1>4

(* The sum over one more element. *)
LEMMA SumWith ==
    ASSUME NEW f, NEW S, IsFiniteSet(S), NEW x, x \notin S,
           \A y \in S \cup {x} : f[y] \in Int
    PROVE  SumFunctionOnSet(f, S \cup {x}) = SumFunctionOnSet(f, S) + f[x]
<1>1. IsFiniteSet(S \cup {x}) /\ (S \cup {x}) \ {x} = S
  BY FS_AddElement
<1>2. SumFunctionOnSet(f, S) \in Int
  BY SumInt
<1>3. SumFunctionOnSet(f, S \cup {x}) = f[x] + SumFunctionOnSet(f, S)
  BY <1>1, SumWithout
<1> QED
  BY <1>2, <1>3

(* Terms that are not negative: no term exceeds the sum. *)
LEMMA SumNat ==
    ASSUME NEW f, NEW S, IsFiniteSet(S), \A x \in S : f[x] \in Nat
    PROVE  /\ SumFunctionOnSet(f, S) \in Nat
           /\ \A x \in S : f[x] <= SumFunctionOnSet(f, S)
<1>1. ASSUME NEW R \in SUBSET S PROVE SumFunctionOnSet(f, R) \in Nat
  <2> DEFINE F == {T \in SUBSET R : SumFunctionOnSet(f, T) \notin Nat}
  <2> SUFFICES ASSUME F # {} PROVE FALSE
    BY Zenon
  <2>1. PICK T \in F : \A U \in F : U \subseteq T => U = T
    <3>1. F \subseteq SUBSET R /\ IsFiniteSet(R)
      BY FS_Subset
    <3> HIDE DEF F
    <3> QED
      BY <3>1, MinimalSubset
  <2>2. T \in SUBSET S /\ IsFiniteSet(T)
    BY FS_Subset
  <2>3. CASE T = {}
    BY <2>3, SumEmpty
  <2>4. CASE T # {}
    <3>1. Pick(T) \in T
      BY <2>4, PickIsMember
    <3>2. SumFunctionOnSet(f, T \ {Pick(T)}) \in Nat
      BY <2>1, <2>2, <3>1
    <3>3. SumFunctionOnSet(f, T)
          = f[Pick(T)] + SumFunctionOnSet(f, T \ {Pick(T)})
      BY <2>2, <2>4, SumUnfolds
    <3> QED
      BY <2>2, <3>1, <3>2, <3>3
  <2> QED
    BY <2>3, <2>4
<1>2. ASSUME NEW x \in S PROVE f[x] <= SumFunctionOnSet(f, S)
  <2>1. SumFunctionOnSet(f, S \ {x}) \in Nat
    BY <1>1
  <2>2. SumFunctionOnSet(f, S) = f[x] + SumFunctionOnSet(f, S \ {x})
    BY SumWithout
  <2> QED
    BY <2>1, <2>2
<1> QED
  BY <1>1, <1>2


(* Sums add up and scale. *)
LEMMA SumLinear ==
    ASSUME NEW f, NEW g, NEW h, NEW k \in Int, NEW S, IsFiniteSet(S),
           \A x \in S : f[x] \in Int /\ g[x] \in Int /\ h[x] = f[x] + k * g[x]
    PROVE  SumFunctionOnSet(h, S) =
               SumFunctionOnSet(f, S) + k * SumFunctionOnSet(g, S)
<1> DEFINE Fails(T) == SumFunctionOnSet(h, T) #
                           SumFunctionOnSet(f, T) + k * SumFunctionOnSet(g, T)
           F == {T \in SUBSET S : Fails(T)}
<1> SUFFICES ASSUME F # {} PROVE FALSE
  BY Zenon
<1>1. PICK T \in F : \A U \in F : U \subseteq T => U = T
  <2>1. F \subseteq SUBSET S
    OBVIOUS
  <2> HIDE DEF F
  <2> QED
    BY <2>1, MinimalSubset
<1>2. T \in SUBSET S /\ IsFiniteSet(T)
  BY FS_Subset
<1>3. CASE T = {}
  <2>1. 0 = 0 + k * 0
    OBVIOUS
  <2> QED
    BY <1>1, <1>3, <2>1, SumEmpty
<1>4. CASE T # {}
  <2> DEFINE p == Pick(T)
             R == T \ {p}
  <2>1. p \in T
    BY <1>4, PickIsMember
  <2>2. ~Fails(R)
    <3>1. R \in SUBSET S /\ R \subseteq T /\ R # T
      BY <1>2, <2>1
    <3> HIDE DEF Fails, R
    <3> QED
      BY <1>1, <3>1
  <2>3. /\ SumFunctionOnSet(f, T) = f[p] + SumFunctionOnSet(f, R)
        /\ SumFunctionOnSet(g, T) = g[p] + SumFunctionOnSet(g, R)
        /\ SumFunctionOnSet(h, T) = h[p] + SumFunctionOnSet(h, R)
    BY <1>2, <1>4, SumUnfolds
  <2>4. SumFunctionOnSet(f, R) \in Int /\ SumFunctionOnSet(g, R) \in Int
    <3>1. IsFiniteSet(R) /\ \A x \in R : f[x] \in Int /\ g[x] \in Int
      BY <1>2, FS_Subset
    <3> QED
      BY <3>1, SumInt
  <2>5. f[p] \in Int /\ g[p] \in Int /\ h[p] = f[p] + k * g[p]
    BY <1>2, <2>1
  <2> DEFINE ft == f[p]
             gt == g[p]
             fr == SumFunctionOnSet(f, R)
             gr == SumFunctionOnSet(g, R)
  <2>6. h[p] = ft + k * gt /\ SumFunctionOnSet(h, R) = fr + k * gr
    BY <2>2, <2>5
  <2>7. ft \in Int /\ gt \in Int /\ fr \in Int /\ gr \in Int
    BY <2>4, <2>5
  <2> HIDE DEF ft, gt, fr, gr
  <2>8. (ft + k * gt) + (fr + k * gr) = (ft + fr) + k * (gt + gr)
    BY <2>7
  <2>9. SumFunctionOnSet(h, T) =
            SumFunctionOnSet(f, T) + k * SumFunctionOnSet(g, T)
    BY <2>3, <2>6, <2>8, Zenon DEF ft, gt, fr, gr
  <2> QED
    BY <1>1, <2>9
<1> QED
  BY <1>3, <1>4

(* Sorting the positions of D by what stands there: as many in all as D has. *)
LEMMA SumOfCounts ==
    ASSUME NEW U, IsFiniteSet(U), NEW D, IsFiniteSet(D), NEW s,
           \A i \in D : s[i] \in U
    PROVE  SumFunctionOnSet([u \in U |-> Cardinality({i \in D : s[i] = u})], U)
               = Cardinality(D)
<1> DEFINE Count(T) == [u \in U |-> Cardinality({i \in T : s[i] = u})]
           Fails(T) == SumFunctionOnSet(Count(T), U) # Cardinality(T)
           F == {T \in SUBSET D : Fails(T)}
<1> SUFFICES ASSUME F # {} PROVE FALSE
  BY Zenon
<1>1. PICK T \in F : \A V \in F : V \subseteq T => V = T
  <2>1. F \subseteq SUBSET D
    OBVIOUS
  <2> HIDE DEF F
  <2> QED
    BY <2>1, MinimalSubset
<1>2. T \in SUBSET D /\ IsFiniteSet(T)
  BY FS_Subset
<1>3. CASE T = {}
  <2>1. \A u \in U : Count(T)[u] = 0
    <3>1. {i \in T : FALSE} = {} /\ Cardinality({}) = 0
      BY FS_EmptySet
    <3>2. \A u \in U : {i \in T : s[i] = u} = {}
      BY <1>3
    <3> QED
      BY <3>1, <3>2
  <2> HIDE DEF Count
  <2>2. SumFunctionOnSet(Count(T), U) = 0
    BY <2>1, SumZero
  <2> QED
    BY <1>1, <1>3, <2>2, FS_EmptySet
<1>4. CASE T # {}
  <2> DEFINE p == Pick(T)
             R == T \ {p}
             Here(V, u) == {i \in V : s[i] = u}
  <2>1. p \in T /\ p \in D /\ s[p] \in U
    BY <1>2, <1>4, PickIsMember
  <2>2. ~Fails(R)
    <3>1. R \in SUBSET D /\ R \subseteq T /\ R # T
      BY <1>2, <2>1
    <3> HIDE DEF Fails, R
    <3> QED
      BY <1>1, <3>1
  <2>3. IsFiniteSet(R) /\ p \notin R /\ T = R \cup {p}
    BY <1>2, <2>1, FS_RemoveElement
  <2> HIDE DEF p, R
  <2>4. ASSUME NEW u \in U
        PROVE  /\ Cardinality(Here(R, u)) \in Nat
               /\ Cardinality(Here(T, u)) =
                      Cardinality(Here(R, u)) + (IF u = s[p] THEN 1 ELSE 0)
    <3>1. IsFiniteSet(Here(R, u)) /\ p \notin Here(R, u)
      BY <2>3, FS_Subset
    <3>2. Here(T, u) = IF u = s[p] THEN Here(R, u) \cup {p} ELSE Here(R, u)
      BY <2>3
    <3>3. /\ Cardinality(Here(R, u)) \in Nat
          /\ Cardinality(Here(R, u) \cup {p}) = Cardinality(Here(R, u)) + 1
      <4> HIDE DEF Here
      <4> QED
        BY <3>1, FS_AddElement, FS_CardinalityType
    <3> HIDE DEF Here
    <3> QED
      BY <3>2, <3>3
  <2>5. /\ \A u \in U : Count(R)[u] \in Int /\ Count(T)[u] \in Int
        /\ \A u \in U \ {s[p]} : Count(T)[u] = Count(R)[u]
        /\ Count(T)[s[p]] = Count(R)[s[p]] + 1
    <3>1. \A u \in U : /\ Count(T)[u] = Cardinality(Here(T, u))
                       /\ Count(R)[u] = Cardinality(Here(R, u))
      OBVIOUS
    <3> HIDE DEF Count, Here
    <3> QED
      BY <2>1, <2>4, <3>1
  <2> HIDE DEF Count
  <2>6. SumFunctionOnSet(Count(T), U) =
            SumFunctionOnSet(Count(R), U) + Count(T)[s[p]] - Count(R)[s[p]]
    BY <2>1, <2>5, SumChanged
  <2>7. SumFunctionOnSet(Count(R), U) = Cardinality(R) /\ Cardinality(R) \in Nat
    BY <2>2, <2>3, FS_CardinalityType
  <2>8. Cardinality(T) = Cardinality(R) + 1
    BY <2>3, FS_AddElement
  <2> QED
    BY <1>1, <2>1, <2>5, <2>6, <2>7, <2>8
<1> QED
  BY <1>3, <1>4

=============================================================================
