----------------------------- MODULE SumTheorems -----------------------------
(***************************************************************************)
(* Sums over finite sets: what MapThenSumSet of FiniteSetsExt computes,    *)
(* for every finite set.  The library defines it by a recursive function   *)
(* on the subsets; the lemmas below show that this function exists and is  *)
(* the only one, and from that how a sum changes with its set and with its *)
(* terms.  Each induction is a minimal counterexample: a collection of     *)
(* subsets of a finite set has a member that contains no other, as a set   *)
(* of natural numbers has a least one.                                     *)
(***************************************************************************)
EXTENDS Integers, FiniteSetsExt, FiniteSetTheorems, WellFoundedInduction, TLAPS

\* The sum of the values of a function on a set.
Total(f, S) == MapThenSumSet(LAMBDA x : f[x], S)

\* The member that the library's fold takes out of a set.
Chosen(T) == CHOOSE x \in T : TRUE

\* g is the recursive function of the fold: the sums of f on the subsets of S.
IsFold(g, f, S) ==
    g = [T \in SUBSET S |-> IF T = {} THEN 0 ELSE f[Chosen(T)] + g[T \ {Chosen(T)}]]

Fold(f, S) == CHOOSE g : IsFold(g, f, S)

-----------------------------------------------------------------------------

\* A nonempty collection of subsets of a finite set has a smallest member.
LEMMA Smallest ==
    ASSUME NEW S, IsFiniteSet(S), NEW C \in SUBSET SUBSET S, C # {}
    PROVE  \E T \in C : \A U \in C : U \subseteq T => U = T
<1>1. IsWellFoundedOn(StrictSubsetOrdering(S), FiniteSubsetsOf(S))
    BY FS_StrictSubsetOrderingWellFounded
<1>2. C \subseteq FiniteSubsetsOf(S)
    BY FS_FiniteSubsetsOfFinite
<1>3. PICK T \in C : \A U \in C : <<U, T>> \notin StrictSubsetOrdering(S)
    BY <1>1, <1>2, WFMin
<1> QED
    BY <1>3 DEF StrictSubsetOrdering

\* A set of natural numbers has a least member.
LEMMA LeastNat ==
  ASSUME NEW C, C \subseteq Nat, C # {} PROVE \E n \in C : \A m \in C : n <= m
<1>1. PICK n \in C : \A m \in C : ~(<<m, n>> \in OpToRel(<, Nat))
    BY WFMin, NatLessThanWellFounded
<1>2. \A m \in C : ~(m < n)
    BY <1>1 DEF OpToRel
<1>. QED
    BY <1>2

LEMMA ChosenMember == ASSUME NEW T, T # {} PROVE Chosen(T) \in T
BY DEF Chosen

\* The library's fold of a sum.
LEMMA TotalIsFold == ASSUME NEW f, NEW S PROVE Total(f, S) = Fold(f, S)[S]
BY DEF Total, MapThenSumSet, MapThenFoldSet, Fold, IsFold, Chosen

\* The values of such a function.
LEMMA FoldValues ==
    ASSUME NEW f, NEW S, NEW g, IsFold(g, f, S), NEW T \in SUBSET S
    PROVE  g[T] = IF T = {} THEN 0 ELSE f[Chosen(T)] + g[T \ {Chosen(T)}]
BY DEF IsFold

\* Two functions that satisfy the recursion, for terms that agree, agree.
LEMMA FoldUnique ==
    ASSUME NEW f, NEW e, NEW S, IsFiniteSet(S), \A x \in S : e[x] = f[x],
           NEW g, IsFold(g, f, S), NEW h, IsFold(h, e, S),
           NEW T \in SUBSET S
    PROVE  g[T] = h[T]
<1>1. \A U \in SUBSET S : U # {} => g[U] = f[Chosen(U)] + g[U \ {Chosen(U)}]
    BY DEF IsFold
<1>2. \A U \in SUBSET S : U # {} => h[U] = e[Chosen(U)] + h[U \ {Chosen(U)}]
    BY DEF IsFold
<1>3. g[{}] = h[{}]
    BY DEF IsFold
<1> DEFINE C == {U \in SUBSET S : g[U] # h[U]}
<1> SUFFICES ASSUME C # {} PROVE FALSE
    OBVIOUS
<1>4. PICK U \in C : \A V \in C : V \subseteq U => V = U
  <2>1. C \in SUBSET SUBSET S
      OBVIOUS
  <2> HIDE DEF C
  <2> QED
      BY <2>1, Smallest
<1>5. U \in SUBSET S /\ U # {} /\ Chosen(U) \in U
    BY <1>3, <1>4, ChosenMember
<1>6. U \ {Chosen(U)} \in SUBSET S /\ U \ {Chosen(U)} \notin C
    BY <1>4, <1>5
<1>7. g[U \ {Chosen(U)}] = h[U \ {Chosen(U)}]
    BY <1>6
<1>8. /\ g[U] = f[Chosen(U)] + g[U \ {Chosen(U)}]
      /\ h[U] = e[Chosen(U)] + h[U \ {Chosen(U)}]
    BY <1>1, <1>2, <1>5
<1> QED
    BY <1>4, <1>5, <1>7, <1>8

\* The part of such a function that lies on a smaller set is one as well.
LEMMA FoldRestrict ==
    ASSUME NEW f, NEW S, NEW g, IsFold(g, f, S), NEW R \in SUBSET S
    PROVE  IsFold([T \in SUBSET R |-> g[T]], f, R)
<1> DEFINE h == [T \in SUBSET R |-> g[T]]
<1>1. ASSUME NEW T \in SUBSET R
      PROVE  h[T] = IF T = {} THEN 0 ELSE f[Chosen(T)] + h[T \ {Chosen(T)}]
  <2>1. T \in SUBSET S /\ T \ {Chosen(T)} \in SUBSET R
      OBVIOUS
  <2> QED
      BY <2>1, FoldValues
<1> QED
    BY <1>1 DEF IsFold

\* A smaller set's function is the same where both are defined.
LEMMA FoldAgrees ==
    ASSUME NEW f, NEW S, IsFiniteSet(S), NEW g, IsFold(g, f, S),
           NEW R \in SUBSET S, NEW h, IsFold(h, f, R), NEW T \in SUBSET R
    PROVE  g[T] = h[T]
<1> DEFINE k == [U \in SUBSET R |-> g[U]]
<1>1. IsFold(k, f, R)
    BY FoldRestrict
<1>2. IsFiniteSet(R)
    BY FS_Subset
<1>3. k[T] = g[T]
    OBVIOUS
<1> HIDE DEF k
<1>4. k[T] = h[T]
    BY <1>1, <1>2, FoldUnique
<1> QED
    BY <1>3, <1>4

\* The recursion has a solution on every finite set.
LEMMA FoldExists ==
    ASSUME NEW f, NEW S, IsFiniteSet(S)
    PROVE  \E g : IsFold(g, f, S)
<1> DEFINE C == {T \in SUBSET S : ~\E g : IsFold(g, f, T)}
<1> SUFFICES ASSUME C # {} PROVE FALSE
    OBVIOUS
<1>1. PICK T \in C : \A U \in C : U \subseteq T => U = T
  <2>1. C \in SUBSET SUBSET S
      OBVIOUS
  <2> HIDE DEF C
  <2> QED
      BY <2>1, Smallest
<1>2. ASSUME NEW U \in SUBSET T, U # T PROVE IsFold(Fold(f, U), f, U)
  <2>1. \E g : IsFold(g, f, U)
      BY <1>1, <1>2
  <2> QED
      BY <2>1 DEF Fold
<1> DEFINE below(U) == U \ {Chosen(U)}
           h == [U \in SUBSET T |-> IF U = {} THEN 0
                                    ELSE f[Chosen(U)] + Fold(f, below(U))[below(U)]]
<1>3. ASSUME NEW U \in SUBSET T, U # {}
      PROVE  below(U) \in SUBSET T /\ below(U) # T /\ below(U) # U
    BY <1>3, ChosenMember
<1>4. ASSUME NEW V \in SUBSET T, V # T PROVE h[V] = Fold(f, V)[V]
  <2>1. IsFold(Fold(f, V), f, V)
      BY <1>2, <1>4
  <2>2. CASE V = {}
    <3>1. Fold(f, V)[V] = 0
        BY <2>1, <2>2, FoldValues
    <3> QED
        BY <2>2, <3>1
  <2>3. CASE V # {}
    <3> DEFINE W == below(V)
    <3>1. W \in SUBSET V /\ W \in SUBSET T /\ W # T
        BY <1>3, <2>3
    <3>2. IsFold(Fold(f, W), f, W)
        BY <1>2, <3>1
    <3>3. IsFiniteSet(V)
        BY <1>1, FS_Subset
    <3>4. Fold(f, V)[V] = f[Chosen(V)] + Fold(f, V)[W]
        BY <2>1, <2>3, FoldValues
    <3>5. h[V] = f[Chosen(V)] + Fold(f, W)[W]
        BY <2>3
    <3> HIDE DEF W, h
    <3>6. Fold(f, V)[W] = Fold(f, W)[W]
        BY <2>1, <3>1, <3>2, <3>3, FoldAgrees
    <3> QED
        BY <3>4, <3>5, <3>6
  <2> QED
      BY <2>2, <2>3
<1>5. ASSUME NEW U \in SUBSET T
      PROVE  h[U] = IF U = {} THEN 0 ELSE f[Chosen(U)] + h[U \ {Chosen(U)}]
  <2>1. CASE U = {}
      BY <2>1
  <2>2. CASE U # {}
    <3>1. h[below(U)] = Fold(f, below(U))[below(U)]
        BY <1>3, <1>4, <2>2
    <3> QED
        BY <2>2, <3>1
  <2> QED
      BY <2>1, <2>2
<1>6. IsFold(h, f, T)
    BY <1>5 DEF IsFold
<1> QED
    BY <1>1, <1>6

LEMMA FoldIsFold ==
    ASSUME NEW f, NEW S, IsFiniteSet(S) PROVE IsFold(Fold(f, S), f, S)
BY FoldExists DEF Fold

-----------------------------------------------------------------------------
(* What a sum is.                                                          *)

LEMMA TotalEmpty == ASSUME NEW f PROVE Total(f, {}) = 0
<1>1. IsFold(Fold(f, {}), f, {})
    BY FoldIsFold, FS_EmptySet
<1> QED
    BY <1>1, FoldValues, TotalIsFold

\* One step of the library's recursion.
LEMMA TotalChosen ==
    ASSUME NEW f, NEW S, IsFiniteSet(S), S # {}
    PROVE  Total(f, S) = f[Chosen(S)] + Total(f, S \ {Chosen(S)})
<1> DEFINE R == S \ {Chosen(S)}
<1>1. IsFold(Fold(f, S), f, S)
    BY FoldIsFold
<1>2. IsFiniteSet(R) /\ R \in SUBSET S
    BY FS_Subset
<1>3. IsFold(Fold(f, R), f, R)
    BY <1>2, FoldIsFold
<1>4. Fold(f, S)[S] = f[Chosen(S)] + Fold(f, S)[R]
    BY <1>1, FoldValues
<1> HIDE DEF R
<1>5. Fold(f, S)[R] = Fold(f, R)[R]
    BY <1>1, <1>2, <1>3, FoldAgrees
<1> QED
    BY <1>4, <1>5, TotalIsFold DEF R

\* The sum depends on the values on the set only.
LEMMA TotalCongruent ==
    ASSUME NEW f, NEW e, NEW S, IsFiniteSet(S), \A x \in S : e[x] = f[x]
    PROVE  Total(e, S) = Total(f, S)
<1>1. IsFold(Fold(f, S), f, S) /\ IsFold(Fold(e, S), e, S)
    BY FoldIsFold
<1>2. S \in SUBSET S
    OBVIOUS
<1>3. Fold(f, S)[S] = Fold(e, S)[S]
    BY <1>1, <1>2, FoldUnique
<1> QED
    BY <1>3, TotalIsFold

LEMMA TotalNat ==
    ASSUME NEW f, NEW S, IsFiniteSet(S), \A x \in S : f[x] \in Nat
    PROVE  Total(f, S) \in Nat
<1> DEFINE C == {T \in SUBSET S : Total(f, T) \notin Nat}
<1> SUFFICES ASSUME C # {} PROVE FALSE
    OBVIOUS
<1>1. PICK T \in C : \A U \in C : U \subseteq T => U = T
  <2>1. C \in SUBSET SUBSET S
      OBVIOUS
  <2> HIDE DEF C
  <2> QED
      BY <2>1, Smallest
<1>2. T \in SUBSET S /\ T # {} /\ Chosen(T) \in T
  <2>1. T \in SUBSET S
      BY <1>1
  <2>2. {} \notin C
      BY TotalEmpty
  <2> HIDE DEF C
  <2> QED
      BY <1>1, <2>1, <2>2, ChosenMember
<1>3. Total(f, T \ {Chosen(T)}) \in Nat
    BY <1>1, <1>2
<1>4. IsFiniteSet(T)
    BY <1>2, FS_Subset
<1>5. Total(f, T) = f[Chosen(T)] + Total(f, T \ {Chosen(T)})
    BY <1>2, <1>4, TotalChosen
<1> QED
    BY <1>1, <1>2, <1>3, <1>5

\* Any member may be taken out of a sum.
LEMMA TotalRemove ==
    ASSUME NEW f, NEW S, IsFiniteSet(S), \A x \in S : f[x] \in Nat, NEW x \in S
    PROVE  Total(f, S) = f[x] + Total(f, S \ {x})
<1> DEFINE C == {T \in SUBSET S : \E y \in T : Total(f, T) # f[y] + Total(f, T \ {y})}
<1> SUFFICES ASSUME C # {} PROVE FALSE
    OBVIOUS
<1>1. PICK T \in C : \A U \in C : U \subseteq T => U = T
  <2>1. C \in SUBSET SUBSET S
      OBVIOUS
  <2> HIDE DEF C
  <2> QED
      BY <2>1, Smallest
<1>2. PICK y \in T : Total(f, T) # f[y] + Total(f, T \ {y})
    BY <1>1
<1> DEFINE p == Chosen(T)
<1>3. T \in SUBSET S /\ IsFiniteSet(T) /\ p \in T
    BY <1>1, <1>2, FS_Subset, ChosenMember
<1>4. Total(f, T) = f[p] + Total(f, T \ {p})
    BY <1>2, <1>3, TotalChosen
<1>5. p # y
    BY <1>2, <1>4
<1> HIDE DEF p
<1>0. \A U \in (SUBSET S) \ C : \A z \in U : Total(f, U) = f[z] + Total(f, U \ {z})
    OBVIOUS
<1> HIDE DEF C
<1>6. Total(f, T \ {p}) = f[y] + Total(f, (T \ {p}) \ {y})
  <2>1. T \ {p} \in (SUBSET S) \ C /\ y \in T \ {p}
      BY <1>1, <1>2, <1>3, <1>5
  <2> QED
      BY <1>0, <2>1
<1>7. Total(f, T \ {y}) = f[p] + Total(f, (T \ {y}) \ {p})
  <2>1. T \ {y} \in (SUBSET S) \ C /\ p \in T \ {y}
      BY <1>1, <1>2, <1>3, <1>5
  <2> QED
      BY <1>0, <2>1
<1>8. (T \ {p}) \ {y} = (T \ {y}) \ {p}
    OBVIOUS
<1>9. f[p] \in Nat /\ f[y] \in Nat /\ Total(f, (T \ {p}) \ {y}) \in Nat
  <2>1. IsFiniteSet((T \ {p}) \ {y})
      BY <1>3, FS_Subset
  <2>2. \A z \in (T \ {p}) \ {y} : f[z] \in Nat
      BY <1>3
  <2> QED
      BY <1>2, <1>3, <2>1, <2>2, TotalNat
<1> QED
    BY <1>2, <1>4, <1>6, <1>7, <1>8, <1>9

\* One more member adds its value.
LEMMA TotalAdd ==
    ASSUME NEW f, NEW S, IsFiniteSet(S), NEW x, x \notin S,
           f[x] \in Nat, \A y \in S : f[y] \in Nat
    PROVE  Total(f, S \cup {x}) = f[x] + Total(f, S)
<1>1. IsFiniteSet(S \cup {x})
    BY FS_AddElement
<1>2. (S \cup {x}) \ {x} = S /\ x \in S \cup {x}
    OBVIOUS
<1>3. \A y \in S \cup {x} : f[y] \in Nat
    OBVIOUS
<1> QED
    BY <1>1, <1>2, <1>3, TotalRemove

\* A function that differs in one member.
LEMMA TotalUpdate ==
    ASSUME NEW f, NEW e, NEW S, IsFiniteSet(S),
           \A y \in S : f[y] \in Nat /\ e[y] \in Nat,
           NEW x \in S, \A y \in S \ {x} : e[y] = f[y]
    PROVE  Total(e, S) + f[x] = Total(f, S) + e[x]
<1>1. /\ Total(f, S) = f[x] + Total(f, S \ {x})
      /\ Total(e, S) = e[x] + Total(e, S \ {x})
    BY TotalRemove
<1>2. IsFiniteSet(S \ {x})
    BY FS_Subset
<1>3. Total(e, S \ {x}) = Total(f, S \ {x})
    BY <1>2, TotalCongruent
<1>4. Total(f, S \ {x}) \in Nat
    BY <1>2, TotalNat
<1> QED
    BY <1>1, <1>3, <1>4

\* A sum of larger terms is not smaller.
LEMMA TotalMonotone ==
    ASSUME NEW f, NEW e, NEW S, IsFiniteSet(S),
           \A x \in S : f[x] \in Nat /\ e[x] \in Nat /\ f[x] <= e[x]
    PROVE  Total(f, S) <= Total(e, S)
<1> DEFINE C == {T \in SUBSET S : ~(Total(f, T) <= Total(e, T))}
<1> SUFFICES ASSUME C # {} PROVE FALSE
    OBVIOUS
<1>1. PICK T \in C : \A U \in C : U \subseteq T => U = T
  <2>1. C \in SUBSET SUBSET S
      OBVIOUS
  <2> HIDE DEF C
  <2> QED
      BY <2>1, Smallest
<1>2. T \in SUBSET S /\ T # {} /\ Chosen(T) \in T
  <2>1. T \in SUBSET S
      BY <1>1
  <2>2. {} \notin C
      BY TotalEmpty
  <2> HIDE DEF C
  <2> QED
      BY <1>1, <2>1, <2>2, ChosenMember
<1> DEFINE p == Chosen(T)
           R == T \ {p}
<1>3. IsFiniteSet(T) /\ IsFiniteSet(R) /\ R \in SUBSET S /\ p \in S
    BY <1>2, FS_Subset
<1>4. Total(f, R) <= Total(e, R)
    BY <1>1, <1>2
<1>5. Total(f, T) = f[p] + Total(f, R) /\ Total(e, T) = e[p] + Total(e, R)
    BY <1>2, <1>3, TotalChosen
<1> HIDE DEF p, R
<1>6. Total(f, R) \in Nat /\ Total(e, R) \in Nat
    BY <1>3, TotalNat
<1> QED
    BY <1>1, <1>3, <1>4, <1>5, <1>6

\* The sum over two sets without a common member.
LEMMA TotalUnion ==
    ASSUME NEW f, NEW S, NEW R, IsFiniteSet(S), IsFiniteSet(R), S \cap R = {},
           \A x \in S \cup R : f[x] \in Nat
    PROVE  Total(f, S \cup R) = Total(f, S) + Total(f, R)
<1> DEFINE C == {T \in SUBSET S : Total(f, T \cup R) # Total(f, T) + Total(f, R)}
<1> SUFFICES ASSUME C # {} PROVE FALSE
    OBVIOUS
<1>1. PICK T \in C : \A U \in C : U \subseteq T => U = T
  <2>1. C \in SUBSET SUBSET S
      OBVIOUS
  <2> HIDE DEF C
  <2> QED
      BY <2>1, Smallest
<1>2. Total(f, R) \in Nat
    BY TotalNat
<1>3. T \in SUBSET S /\ T # {}
  <2>1. {} \cup R = R
      OBVIOUS
  <2>2. Total(f, {} \cup R) = Total(f, {}) + Total(f, R)
      BY <1>2, <2>1, TotalEmpty
  <2> QED
      BY <1>1, <2>2
<1>4. PICK x \in T : TRUE
    BY <1>3
<1> DEFINE U == T \ {x}
<1>5. IsFiniteSet(T) /\ IsFiniteSet(T \cup R) /\ IsFiniteSet(U)
    BY <1>3, FS_Subset, FS_Union
<1>6. Total(f, T) = f[x] + Total(f, U)
    BY <1>3, <1>5, TotalRemove
<1>7. Total(f, T \cup R) = f[x] + Total(f, U \cup R)
  <2>1. (T \cup R) \ {x} = U \cup R
      BY <1>3
  <2>2. \A y \in T \cup R : f[y] \in Nat
      BY <1>3
  <2> QED
      BY <1>4, <1>5, <2>1, <2>2, TotalRemove
<1>8. Total(f, U \cup R) = Total(f, U) + Total(f, R)
    BY <1>1, <1>3, <1>4
<1>9. Total(f, U) \in Nat /\ f[x] \in Nat
    BY <1>3, <1>5, TotalNat
<1> HIDE DEF U
<1> QED
    BY <1>1, <1>2, <1>6, <1>7, <1>8, <1>9

\* Nothing but zeros adds up to zero.
LEMMA TotalZero ==
    ASSUME NEW f, NEW S, IsFiniteSet(S), \A x \in S : f[x] = 0
    PROVE  Total(f, S) = 0
<1> DEFINE C == {T \in SUBSET S : Total(f, T) # 0}
<1> SUFFICES ASSUME C # {} PROVE FALSE
    OBVIOUS
<1>1. PICK T \in C : \A U \in C : U \subseteq T => U = T
  <2>1. C \in SUBSET SUBSET S
      OBVIOUS
  <2> HIDE DEF C
  <2> QED
      BY <2>1, Smallest
<1>2. T \in SUBSET S /\ T # {} /\ Chosen(T) \in T
  <2>1. T \in SUBSET S
      BY <1>1
  <2>2. {} \notin C
      BY TotalEmpty
  <2> HIDE DEF C
  <2> QED
      BY <1>1, <2>1, <2>2, ChosenMember
<1>3. Total(f, T \ {Chosen(T)}) = 0 /\ f[Chosen(T)] = 0
    BY <1>1, <1>2
<1>4. IsFiniteSet(T)
    BY <1>2, FS_Subset
<1>5. Total(f, T) = f[Chosen(T)] + Total(f, T \ {Chosen(T)})
    BY <1>2, <1>4, TotalChosen
<1> QED
    BY <1>1, <1>3, <1>5

\* The library's sum of products of the members with their values.
LEMMA TotalWeighted ==
    ASSUME NEW f, NEW S, IsFiniteSet(S)
    PROVE  MapThenSumSet(LAMBDA x : x * f[x], S) = Total([x \in S |-> x * f[x]], S)
<1> DEFINE e == [x \in S |-> x * f[x]]
           P(g) == g = [T \in SUBSET S |->
                          IF T = {} THEN 0
                          ELSE Chosen(T) * f[Chosen(T)] + g[T \ {Chosen(T)}]]
<1>1. MapThenSumSet(LAMBDA x : x * f[x], S) = (CHOOSE g : P(g))[S]
    BY DEF MapThenSumSet, MapThenFoldSet, Chosen
<1>2. ASSUME NEW g PROVE P(g) <=> IsFold(g, e, S)
  <2>1. ASSUME NEW T \in SUBSET S, T # {}
        PROVE  e[Chosen(T)] = Chosen(T) * f[Chosen(T)]
    <3>1. Chosen(T) \in S
        BY <2>1, ChosenMember
    <3> QED
        BY <3>1
  <2>2. [T \in SUBSET S |-> IF T = {} THEN 0
                             ELSE Chosen(T) * f[Chosen(T)] + g[T \ {Chosen(T)}]]
        = [T \in SUBSET S |-> IF T = {} THEN 0 ELSE e[Chosen(T)] + g[T \ {Chosen(T)}]]
    <3> HIDE DEF e
    <3> QED
        BY <2>1
  <2> QED
      BY <2>2 DEF IsFold
<1>3. IsFold(Fold(e, S), e, S)
    BY FoldIsFold
<1>4. \E g : P(g)
    BY <1>2, <1>3
<1>5. P(CHOOSE g : P(g))
  <2> HIDE DEF P
  <2> QED
      BY <1>4
<1> DEFINE h == CHOOSE g : P(g)
<1>6. IsFold(h, e, S)
  <2> HIDE DEF P, e
  <2> QED
      BY <1>2, <1>5
<1>7. S \in SUBSET S
    OBVIOUS
<1> HIDE DEF h, e, P
<1>8. h[S] = Fold(e, S)[S]
    BY <1>3, <1>6, <1>7, FoldUnique
<1> QED
    BY <1>1, <1>8, TotalIsFold DEF h, e

=============================================================================
