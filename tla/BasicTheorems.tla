---------------------------- MODULE BasicTheorems ----------------------------
(***************************************************************************)
(* What the other proofs need of numbers and of recursive functions:       *)
(* induction over the natural numbers and over finite sets, by taking a    *)
(* least number or a minimal set for which a claim fails; recursive        *)
(* functions on the natural numbers; powers of 2; and the sums of natural  *)
(* numbers over a finite set that SumFunctionOnSet yields, whose fold is a *)
(* recursive function on sets.                                             *)
(***************************************************************************)
EXTENDS Powers, FiniteSets, Functions, FiniteSetTheorems, TLAPS

\* The element that the fold takes off a set first.
Pick(s) == CHOOSE x \in s : TRUE

\* g is the fold's recursive function, for the subsets of T.
Sums(f, T, g) ==
  g = [s \in SUBSET T |-> IF s = {} THEN 0 ELSE f[Pick(s)] + g[s \ {Pick(s)}]]

\* A nonempty collection of subsets of a finite set has a minimal member.
LEMMA MinimalSet ==
  ASSUME NEW S, IsFiniteSet(S), NEW B \in SUBSET (SUBSET S), B # {}
  PROVE  \E U \in B : \A V \in B : V \subseteq U => V = U
<1>1. IsWellFoundedOn(StrictSubsetOrdering(S), SUBSET S)
  BY FS_StrictSubsetOrderingWellFounded, FS_FiniteSubsetsOfFinite, Zenon
<1>2. PICK U \in B : \A V \in B : ~ (<<V, U>> \in StrictSubsetOrdering(S))
  BY <1>1, WFMin, Zenon
<1>3. ASSUME NEW V \in B, V \subseteq U PROVE V = U
  BY <1>2, <1>3 DEF StrictSubsetOrdering
<1> QED BY <1>3

\* A set of natural numbers that is not empty has a least one, which gives
\* induction over the natural numbers in the same way.
LEMMA LeastNatural ==
  ASSUME NEW S, S \subseteq Nat, S # {}
  PROVE  \E n \in S : \A m \in S : n <= m
<1>1. PICK n \in S : \A m \in S : ~ (<<m, n>> \in OpToRel(<, Nat))
  BY NatLessThanWellFounded, WFMin, Zenon
<1>2. ASSUME NEW m \in S PROVE n <= m
  <2>1. m \in Nat /\ n \in Nat /\ <<m, n>> \in Nat \X Nat
    OBVIOUS
  <2>2. ~ (m < n)
    BY <1>1, <2>1 DEF OpToRel
  <2> QED BY <2>1, <2>2
<1> QED BY <1>2

\* Taking an element off a nonempty set.
LEMMA Picked == ASSUME NEW s, s # {} PROVE Pick(s) \in s
BY DEF Pick

\* The fold's functions for two sets agree on the subsets of both.
LEMMA SumsAgree ==
  ASSUME NEW f, NEW T, NEW U, IsFiniteSet(T), NEW g, NEW h,
         Sums(f, T, g), Sums(f, U, h)
  PROVE  \A s \in (SUBSET T) \cap (SUBSET U) : g[s] = h[s]
<1> DEFINE B == {s \in (SUBSET T) \cap (SUBSET U) : g[s] # h[s]}
<1> SUFFICES ASSUME B # {} PROVE FALSE
  OBVIOUS
<1>1. PICK s \in B : \A V \in B : V \subseteq s => V = s
  <2>1. B \in SUBSET (SUBSET T) OBVIOUS
  <2> HIDE DEF B
  <2> QED BY <2>1, MinimalSet
<1>2. s # {}
  BY DEF Sums
<1>3. Pick(s) \in s
  BY <1>2, Picked
<1>4. g[s] = f[Pick(s)] + g[s \ {Pick(s)}] /\ h[s] = f[Pick(s)] + h[s \ {Pick(s)}]
  BY <1>2 DEF Sums
<1>5. g[s \ {Pick(s)}] = h[s \ {Pick(s)}]
  <2>1. s \ {Pick(s)} \in (SUBSET T) \cap (SUBSET U) OBVIOUS
  <2>2. s \ {Pick(s)} # s BY <1>3
  <2>3. s \ {Pick(s)} \notin B BY <1>1, <2>2
  <2> QED BY <2>1, <2>3
<1> QED BY <1>4, <1>5

\* The fold's function exists for every finite set.
LEMMA SumsExist ==
  ASSUME NEW f, NEW T, IsFiniteSet(T)
  PROVE  \E g : Sums(f, T, g)
<1> DEFINE B == {U \in SUBSET T : ~ \E g : Sums(f, U, g)}
<1> SUFFICES ASSUME B # {} PROVE FALSE
  <2>1. T \notin B => \E g : Sums(f, T, g) OBVIOUS
  <2> QED BY <2>1
<1>1. PICK U \in B : \A V \in B : V \subseteq U => V = U
  <2>1. B \in SUBSET (SUBSET T) OBVIOUS
  <2> HIDE DEF B
  <2> QED BY <2>1, MinimalSet
<1> DEFINE H(V) == CHOOSE g : Sums(f, V, g)
           G == [s \in SUBSET U |->
                   IF s = {} THEN 0 ELSE f[Pick(s)] + H(s \ {Pick(s)})[s \ {Pick(s)}]]
<1>2. ASSUME NEW V \in SUBSET U, V # U PROVE Sums(f, V, H(V))
  <2>1. \E g : Sums(f, V, g) BY <1>1, <1>2
  <2> QED BY <2>1
<1>3. ASSUME NEW s \in SUBSET U, s # {}
      PROVE  H(s \ {Pick(s)})[s \ {Pick(s)}] = G[s \ {Pick(s)}]
  <2> DEFINE V == s \ {Pick(s)}
             W == V \ {Pick(V)}
  <2>1. V \in SUBSET U /\ V # U /\ W \in SUBSET U /\ W # U /\ W \in SUBSET V
    BY <1>3, Picked
  <2>2. Sums(f, V, H(V)) /\ Sums(f, W, H(W))
    BY <1>2, <2>1
  <2>3. IsFiniteSet(V)
    <3>1. V \in SUBSET T BY <2>1
    <3> QED BY <3>1, FS_Subset
  <2>4. H(V)[W] = H(W)[W]
    <3>1. W \in (SUBSET V) \cap (SUBSET W) BY <2>1
    <3> HIDE DEF V, W, H
    <3> QED BY <2>2, <2>3, <3>1, SumsAgree
  <2>5. H(V)[V] = IF V = {} THEN 0 ELSE f[Pick(V)] + H(V)[W]
    <3> HIDE DEF V, H
    <3> QED BY <2>2 DEF Sums
  <2>6. G[V] = IF V = {} THEN 0 ELSE f[Pick(V)] + H(W)[W]
    BY <2>1
  <2> QED
    <3> HIDE DEF V, W, H, G
    <3>1. H(V)[V] = G[V] BY <2>4, <2>5, <2>6
    <3> QED BY <3>1 DEF V
<1>4. Sums(f, U, G)
  <2>1. G = [s \in SUBSET U |-> IF s = {} THEN 0 ELSE f[Pick(s)] + G[s \ {Pick(s)}]]
    <3> HIDE DEF H
    <3>1. \A s \in SUBSET U : s # {} => H(s \ {Pick(s)})[s \ {Pick(s)}] = G[s \ {Pick(s)}]
      BY <1>3
    <3> QED BY <3>1
  <2> HIDE DEF G
  <2> QED BY <2>1 DEF Sums
<1> HIDE DEF G
<1> QED BY <1>1, <1>4

\* SumFunctionOnSet is that function at the whole set.
LEMMA SumIs ==
  ASSUME NEW f, NEW S, IsFiniteSet(S)
  PROVE  \E g : Sums(f, S, g) /\ SumFunctionOnSet(f, S) = g[S]
<1>1. SumFunctionOnSet(f, S) = (CHOOSE g : Sums(f, S, g))[S]
  BY DEF SumFunctionOnSet, FoldFunctionOnSet, MapThenFoldSet, Sums, Pick
<1> QED BY <1>1, SumsExist

\* The sum over no elements.
LEMMA SumEmpty == ASSUME NEW f PROVE SumFunctionOnSet(f, {}) = 0
<1>1. PICK g : Sums(f, {}, g) /\ SumFunctionOnSet(f, {}) = g[{}]
  BY SumIs, FS_EmptySet
<1> QED BY <1>1 DEF Sums

\* The fold's own step.
LEMMA SumStep ==
  ASSUME NEW f, NEW S, IsFiniteSet(S), S # {}
  PROVE  SumFunctionOnSet(f, S) = f[Pick(S)] + SumFunctionOnSet(f, S \ {Pick(S)})
<1> DEFINE R == S \ {Pick(S)}
<1>1. IsFiniteSet(R) /\ R \in SUBSET S
  BY FS_RemoveElement
<1>2. PICK g : Sums(f, S, g) /\ SumFunctionOnSet(f, S) = g[S]
  BY SumIs
<1>3. PICK h : Sums(f, R, h) /\ SumFunctionOnSet(f, R) = h[R]
  <2> HIDE DEF R
  <2> QED BY <1>1, SumIs
<1>4. g[R] = h[R]
  <2> HIDE DEF R
  <2> QED BY <1>1, <1>2, <1>3, SumsAgree
<1>5. g[S] = f[Pick(S)] + g[R]
  BY <1>2 DEF Sums
<1> QED BY <1>2, <1>3, <1>4, <1>5

\* A sum of natural numbers is one.
LEMMA SumNat ==
  ASSUME NEW S, IsFiniteSet(S), NEW f, \A x \in S : f[x] \in Nat
  PROVE  SumFunctionOnSet(f, S) \in Nat
<1> DEFINE B == {U \in SUBSET S : SumFunctionOnSet(f, U) \notin Nat}
<1> SUFFICES ASSUME B # {} PROVE FALSE
  OBVIOUS
<1>1. PICK U \in B : \A V \in B : V \subseteq U => V = U
  <2>1. B \in SUBSET (SUBSET S) OBVIOUS
  <2> HIDE DEF B
  <2> QED BY <2>1, MinimalSet
<1>2. IsFiniteSet(U) BY FS_Subset
<1>3. U # {} BY SumEmpty
<1>4. Pick(U) \in U BY <1>3, Picked
<1>5. SumFunctionOnSet(f, U \ {Pick(U)}) \in Nat BY <1>1, <1>4
<1>6. SumFunctionOnSet(f, U) = f[Pick(U)] + SumFunctionOnSet(f, U \ {Pick(U)})
  BY <1>2, <1>3, SumStep
<1> QED BY <1>4, <1>5, <1>6

\* Any element can be taken off first.
LEMMA SumRemove ==
  ASSUME NEW S, IsFiniteSet(S), NEW f, \A x \in S : f[x] \in Nat, NEW a \in S
  PROVE  SumFunctionOnSet(f, S) = f[a] + SumFunctionOnSet(f, S \ {a})
<1> DEFINE Sum(U) == SumFunctionOnSet(f, U)
           B == {U \in SUBSET S : \E x \in U : Sum(U) # f[x] + Sum(U \ {x})}
<1> SUFFICES ASSUME B # {} PROVE FALSE
  <2>1. S \notin B OBVIOUS
  <2> QED BY <2>1
<1>1. PICK U \in B : \A V \in B : V \subseteq U => V = U
  <2>1. B \in SUBSET (SUBSET S) OBVIOUS
  <2> HIDE DEF B
  <2> QED BY <2>1, MinimalSet
<1>2. PICK x \in U : Sum(U) # f[x] + Sum(U \ {x})
  OBVIOUS
<1> DEFINE y == Pick(U)
<1>3. y \in U BY Picked
<1>4. ASSUME NEW V \in SUBSET U PROVE IsFiniteSet(V) /\ Sum(V) \in Nat
  <2>1. IsFiniteSet(V) BY FS_Subset
  <2> QED BY <2>1, SumNat
<1>5. Sum(U) = f[y] + Sum(U \ {y})
  BY <1>4, SumStep
<1>6. x # y
  BY <1>2, <1>5
<1>7. /\ Sum(U \ {y}) = f[x] + Sum((U \ {y}) \ {x})
      /\ Sum(U \ {x}) = f[y] + Sum((U \ {x}) \ {y})
  <2> HIDE DEF y, Sum
  <2>1. U \ {y} \notin B /\ U \ {x} \notin B BY <1>1, <1>2, <1>3
  <2> QED BY <2>1, <1>3, <1>6
<1>8. (U \ {y}) \ {x} = (U \ {x}) \ {y}
  OBVIOUS
<1>9. Sum((U \ {y}) \ {x}) \in Nat /\ f[x] \in Nat /\ f[y] \in Nat
  <2> HIDE DEF y, Sum
  <2> QED BY <1>3, <1>4
<1> HIDE DEF y, Sum
<1> QED BY <1>2, <1>5, <1>7, <1>8, <1>9

\* The sum depends only on the values at the elements.
LEMMA SumSame ==
  ASSUME NEW S, IsFiniteSet(S), NEW f, NEW g, \A x \in S : f[x] = g[x]
  PROVE  SumFunctionOnSet(f, S) = SumFunctionOnSet(g, S)
<1> DEFINE B == {U \in SUBSET S : SumFunctionOnSet(f, U) # SumFunctionOnSet(g, U)}
<1> SUFFICES ASSUME B # {} PROVE FALSE
  OBVIOUS
<1>1. PICK U \in B : \A V \in B : V \subseteq U => V = U
  <2>1. B \in SUBSET (SUBSET S) OBVIOUS
  <2> HIDE DEF B
  <2> QED BY <2>1, MinimalSet
<1>2. IsFiniteSet(U) BY FS_Subset
<1>3. U # {} BY SumEmpty
<1>4. Pick(U) \in U BY <1>3, Picked
<1>5. SumFunctionOnSet(f, U \ {Pick(U)}) = SumFunctionOnSet(g, U \ {Pick(U)})
  BY <1>1, <1>4
<1>6. /\ SumFunctionOnSet(f, U) = f[Pick(U)] + SumFunctionOnSet(f, U \ {Pick(U)})
      /\ SumFunctionOnSet(g, U) = g[Pick(U)] + SumFunctionOnSet(g, U \ {Pick(U)})
  BY <1>2, <1>3, SumStep
<1> QED BY <1>4, <1>5, <1>6

\* Changing the value at one element changes the sum by as much.
LEMMA SumChange ==
  ASSUME NEW S, IsFiniteSet(S), NEW a \in S, NEW f, NEW g,
         \A x \in S : f[x] \in Nat /\ g[x] \in Nat,
         \A x \in S \ {a} : f[x] = g[x]
  PROVE  SumFunctionOnSet(f, S) - f[a] = SumFunctionOnSet(g, S) - g[a]
<1>1. IsFiniteSet(S \ {a}) BY FS_RemoveElement
<1>2. SumFunctionOnSet(f, S \ {a}) = SumFunctionOnSet(g, S \ {a}) BY <1>1, SumSame
<1>3. SumFunctionOnSet(f, S \ {a}) \in Nat BY <1>1, SumNat
<1>4. SumFunctionOnSet(f, S) = f[a] + SumFunctionOnSet(f, S \ {a}) BY SumRemove
<1>5. SumFunctionOnSet(g, S) = g[a] + SumFunctionOnSet(g, S \ {a}) BY SumRemove
<1>6. f[a] \in Nat /\ g[a] \in Nat OBVIOUS
<1> QED BY <1>2, <1>3, <1>4, <1>5, <1>6

\* Values that are covered one by one, by different elements of another set,
\* have a sum that is covered.
LEMMA SumCovered ==
  ASSUME NEW S, IsFiniteSet(S), NEW T, IsFiniteSet(T), NEW f, NEW g, NEW h \in [S -> T],
         \A x, y \in S : h[x] = h[y] => x = y,
         \A x \in S : f[x] \in Nat /\ f[x] <= g[h[x]],
         \A y \in T : g[y] \in Nat
  PROVE  SumFunctionOnSet(f, S) <= SumFunctionOnSet(g, T)
<1> DEFINE Bad(U, V) == /\ \A x \in U : h[x] \in V
                        /\ ~ SumFunctionOnSet(f, U) <= SumFunctionOnSet(g, V)
           B == {U \in SUBSET S : \E V \in SUBSET T : Bad(U, V)}
<1> SUFFICES ASSUME B # {} PROVE FALSE
  <2>1. S \notin B OBVIOUS
  <2> QED BY <2>1
<1>1. PICK U \in B : \A V \in B : V \subseteq U => V = U
  <2>1. B \in SUBSET (SUBSET S) OBVIOUS
  <2> HIDE DEF B
  <2> QED BY <2>1, MinimalSet
<1>2. PICK V \in SUBSET T : Bad(U, V)
  OBVIOUS
<1>3. IsFiniteSet(U) /\ IsFiniteSet(V)
  BY FS_Subset
<1>4. SumFunctionOnSet(g, V) \in Nat
  BY <1>3, SumNat
<1>5. PICK x \in U : TRUE
  <2>1. SumFunctionOnSet(f, {}) <= SumFunctionOnSet(g, V) BY <1>4, SumEmpty
  <2>2. U # {} BY <1>2, <2>1
  <2> QED BY <2>2
<1> DEFINE UU == U \ {x}
           VV == V \ {h[x]}
<1>6. SumFunctionOnSet(f, UU) <= SumFunctionOnSet(g, VV)
  <2>1. UU \notin B BY <1>1, <1>5
  <2>2. \A z \in UU : h[z] \in VV BY <1>2
  <2> QED BY <2>1, <2>2
<1>7. SumFunctionOnSet(f, U) = f[x] + SumFunctionOnSet(f, UU)
  <2>1. \A z \in U : f[z] \in Nat OBVIOUS
  <2> QED BY <1>3, <2>1, SumRemove
<1>8. SumFunctionOnSet(g, V) = g[h[x]] + SumFunctionOnSet(g, VV)
  <2>1. h[x] \in V /\ \A z \in V : g[z] \in Nat BY <1>2
  <2> QED BY <1>3, <2>1, SumRemove
<1>9. SumFunctionOnSet(f, UU) \in Nat /\ SumFunctionOnSet(g, VV) \in Nat
  <2>1. IsFiniteSet(UU) /\ IsFiniteSet(VV) BY <1>3, FS_RemoveElement
  <2>2. (\A z \in UU : f[z] \in Nat) /\ (\A z \in VV : g[z] \in Nat) OBVIOUS
  <2> HIDE DEF UU, VV
  <2> QED BY <2>1, <2>2, SumNat
<1>10. f[x] \in Nat /\ g[h[x]] \in Nat /\ f[x] <= g[h[x]]
  OBVIOUS
<1>11. ~ SumFunctionOnSet(f, U) <= SumFunctionOnSet(g, V)
  BY <1>2
<1> HIDE DEF UU, VV
<1> QED BY <1>6, <1>7, <1>8, <1>9, <1>10, <1>11

\* Two sums over the same set add up element by element.
LEMMA SumAdd ==
  ASSUME NEW S, IsFiniteSet(S), NEW f, NEW g, NEW h,
         \A x \in S : f[x] \in Nat /\ g[x] \in Nat /\ h[x] = f[x] + g[x]
  PROVE  SumFunctionOnSet(h, S) = SumFunctionOnSet(f, S) + SumFunctionOnSet(g, S)
<1> DEFINE B == {U \in SUBSET S :
                   SumFunctionOnSet(h, U) # SumFunctionOnSet(f, U) + SumFunctionOnSet(g, U)}
<1> SUFFICES ASSUME B # {} PROVE FALSE
  OBVIOUS
<1>1. PICK U \in B : \A V \in B : V \subseteq U => V = U
  <2>1. B \in SUBSET (SUBSET S) OBVIOUS
  <2> HIDE DEF B
  <2> QED BY <2>1, MinimalSet
<1>2. IsFiniteSet(U) BY FS_Subset
<1>3. U # {}
  <2>1. SumFunctionOnSet(h, {}) = SumFunctionOnSet(f, {}) + SumFunctionOnSet(g, {})
    BY SumEmpty
  <2> QED BY <2>1
<1> DEFINE x == Pick(U)
           R == U \ {x}
<1>4. x \in U /\ f[x] \in Nat /\ g[x] \in Nat /\ h[x] = f[x] + g[x] BY <1>3, Picked
<1>5. SumFunctionOnSet(h, R) = SumFunctionOnSet(f, R) + SumFunctionOnSet(g, R)
  BY <1>1, <1>4
<1>6. SumFunctionOnSet(f, R) \in Nat /\ SumFunctionOnSet(g, R) \in Nat
  <2>1. IsFiniteSet(R) /\ R \subseteq S BY <1>2, FS_RemoveElement
  <2> HIDE DEF R
  <2> QED BY <2>1, SumNat
<1>7. /\ SumFunctionOnSet(f, U) = f[x] + SumFunctionOnSet(f, R)
      /\ SumFunctionOnSet(g, U) = g[x] + SumFunctionOnSet(g, R)
      /\ SumFunctionOnSet(h, U) = h[x] + SumFunctionOnSet(h, R)
  BY <1>2, <1>3, SumStep
<1> HIDE DEF x, R
<1> QED BY <1>4, <1>5, <1>6, <1>7

\* The sum of zeros.
LEMMA SumZero ==
  ASSUME NEW S, IsFiniteSet(S), NEW f, \A x \in S : f[x] = 0
  PROVE  SumFunctionOnSet(f, S) = 0
<1> DEFINE B == {U \in SUBSET S : SumFunctionOnSet(f, U) # 0}
<1> SUFFICES ASSUME B # {} PROVE FALSE
  OBVIOUS
<1>1. PICK U \in B : \A V \in B : V \subseteq U => V = U
  <2>1. B \in SUBSET (SUBSET S) OBVIOUS
  <2> HIDE DEF B
  <2> QED BY <2>1, MinimalSet
<1>2. IsFiniteSet(U) BY FS_Subset
<1>3. U # {} BY SumEmpty
<1>4. Pick(U) \in U BY <1>3, Picked
<1>5. SumFunctionOnSet(f, U \ {Pick(U)}) = 0 BY <1>1, <1>4
<1>6. SumFunctionOnSet(f, U) = f[Pick(U)] + SumFunctionOnSet(f, U \ {Pick(U)})
  BY <1>2, <1>3, SumStep
<1> QED BY <1>4, <1>5, <1>6

\* A sum grows by no more than the one term that changes.
LEMMA SumGrows ==
  ASSUME NEW S, IsFiniteSet(S), NEW a, NEW n \in Nat, NEW f, NEW g,
         \A x \in S : f[x] \in Nat /\ g[x] \in Nat,
         \A x \in S : x # a => f[x] = g[x],
         a \in S => g[a] <= f[a] + n
  PROVE  SumFunctionOnSet(g, S) <= SumFunctionOnSet(f, S) + n
<1>1. SumFunctionOnSet(f, S) \in Nat /\ SumFunctionOnSet(g, S) \in Nat
  BY SumNat
<1>2. CASE a \in S
  <2>1. SumFunctionOnSet(f, S) - f[a] = SumFunctionOnSet(g, S) - g[a]
    BY <1>2, SumChange
  <2>2. f[a] \in Nat /\ g[a] \in Nat /\ g[a] <= f[a] + n
    BY <1>2
  <2> QED BY <1>1, <2>1, <2>2
<1>3. CASE a \notin S
  <2>1. SumFunctionOnSet(f, S) = SumFunctionOnSet(g, S)
    BY <1>3, SumSame
  <2> QED BY <1>1, <2>1
<1> QED BY <1>2, <1>3

----------------------------------------------------------------------------
(***************************************************************************)
(* Recursive functions on the natural numbers.                             *)
(***************************************************************************)

\* The prover of every leaf below that does not name another one.
USE Zenon

\* g is defined by recursion over the natural numbers, in a set V;
\* f[<<n, v>>] is what follows the value v at n - 1.
IsRecursive(g, V, start, f) ==
  g \in [Nat -> V] /\ g = [n \in Nat |-> IF n = 0 THEN start ELSE f[<<n, g[n - 1]>>]]

\* There is such a function.
LEMMA Recursion ==
  ASSUME NEW V, NEW start \in V, NEW f \in [Nat \X V -> V]
  PROVE  \E g : IsRecursive(g, V, start, f)
<1> DEFINE Upto(n, g) == \A i \in 0 .. n : g[i] = IF i = 0 THEN start ELSE f[<<i, g[i - 1]>>]
           B == {n \in Nat : ~ \E g \in [Nat -> V] : Upto(n, g)}
<1>1. B = {}
  <2> SUFFICES ASSUME B # {} PROVE FALSE
    OBVIOUS
  <2>1. PICK n \in B : \A i \in B : n <= i
    BY LeastNatural
  <2>2. CASE n = 0
    <3>1. [i \in Nat |-> start] \in [Nat -> V]
      OBVIOUS
    <3>2. 0 .. 0 = {0}
      BY SMT
    <3>3. 0 \in Nat
      BY SMT
    <3>4. Upto(0, [i \in Nat |-> start])
      BY <3>2, <3>3
    <3> QED BY <2>2, <3>1, <3>4
  <2>3. CASE n # 0
    <3>0. n \in Nat /\ n - 1 \in Nat /\ n - 1 \notin B
      BY <2>1, <2>3, SMT
    <3>1. PICK g \in [Nat -> V] : Upto(n - 1, g)
      BY <3>0
    <3> DEFINE h == [i \in Nat |-> IF i = n THEN f[<<n, g[n - 1]>>] ELSE g[i]]
    <3>2. f[<<n, g[n - 1]>>] \in V
      BY <3>0
    <3>3. h \in [Nat -> V]
      BY <3>2
    <3>4. h[n] = f[<<n, g[n - 1]>>] /\ \A i \in Nat : i # n => h[i] = g[i]
      BY <3>0
    <3> HIDE DEF h
    <3>5. ASSUME NEW i \in 0 .. n PROVE h[i] = IF i = 0 THEN start ELSE f[<<i, h[i - 1]>>]
      <4>1. CASE i = n
        <5>1. n - 1 # n
          BY <3>0, SMT
        <5> QED BY <4>1, <5>1, <2>3, <3>0, <3>4
      <4>2. CASE i # n
        <5>1. i \in Nat /\ i \in 0 .. n - 1 /\ (i # 0 => i - 1 \in Nat /\ i - 1 # n)
          BY <4>2, <3>0, SMT
        <5>2. g[i] = IF i = 0 THEN start ELSE f[<<i, g[i - 1]>>]
          BY <3>1, <5>1
        <5> QED BY <4>2, <5>1, <5>2, <3>4
      <4> QED BY <4>1, <4>2
    <3> QED BY <2>1, <3>3, <3>5
  <2> QED BY <2>2, <2>3
<1> DEFINE G == [n \in Nat |-> CHOOSE g \in [Nat -> V] : Upto(n, g)]
<1>2. \A n \in Nat : G[n] \in [Nat -> V] /\ Upto(n, G[n])
  BY <1>1
<1> HIDE DEF G
<1>3. ASSUME NEW n \in Nat, NEW g, Upto(n, g), NEW h, Upto(n, h) PROVE g[n] = h[n]
  <2> DEFINE D == {i \in 0 .. n : g[i] # h[i]}
  <2>1. D = {}
    <3> SUFFICES ASSUME D # {} PROVE FALSE
      OBVIOUS
    <3>0. D \subseteq Nat
      BY SMT
    <3>1. PICK k \in D : \A i \in D : k <= i
      <4> HIDE DEF D
      <4> QED BY <3>0, LeastNatural
    <3>2. CASE k = 0
      BY <1>3, <3>1, <3>2
    <3>3. CASE k # 0
      <4>1. k - 1 \in 0 .. n /\ k - 1 \notin D
        BY <3>1, <3>3, SMT
      <4>2. g[k - 1] = h[k - 1]
        BY <4>1
      <4> QED BY <1>3, <3>1, <3>3, <4>2
    <3> QED BY <3>2, <3>3
  <2>2. n \in 0 .. n
    BY SMT
  <2> QED BY <2>1, <2>2
<1> DEFINE F == [n \in Nat |-> G[n][n]]
<1>4. F \in [Nat -> V]
  BY <1>2
<1>5. ASSUME NEW n \in Nat PROVE F[n] = IF n = 0 THEN start ELSE f[<<n, F[n - 1]>>]
  <2>1. n \in 0 .. n
    BY SMT
  <2>2. G[n][n] = IF n = 0 THEN start ELSE f[<<n, G[n][n - 1]>>]
    BY <1>2, <2>1
  <2>3. ASSUME n # 0 PROVE G[n][n - 1] = G[n - 1][n - 1]
    <3>1. n - 1 \in Nat /\ \A i \in 0 .. n - 1 : i \in 0 .. n
      BY <2>3, SMT
    <3>2. Upto(n - 1, G[n])
      BY <1>2, <3>1
    <3>3. Upto(n - 1, G[n - 1])
      BY <1>2, <3>1
    <3> HIDE DEF Upto
    <3> QED BY <1>3, <3>1, <3>2, <3>3
  <2>4. n # 0 => n - 1 \in Nat
    BY SMT
  <2> QED BY <2>2, <2>3, <2>4
<1>6. F = [n \in Nat |-> F[n]]
  OBVIOUS
<1> HIDE DEF F
<1>7. F = [n \in Nat |-> IF n = 0 THEN start ELSE f[<<n, F[n - 1]>>]]
  BY <1>5, <1>6
<1> QED BY <1>4, <1>7 DEF IsRecursive

\* Pow2 doubles, and is positive.
LEMMA Pow2Step ==
  /\ Pow2[0] = 1
  /\ \A n \in Nat : Pow2[n] \in Nat \ {0} /\ Pow2[n + 1] = 2 * Pow2[n]
<1> DEFINE V == Nat \ {0}
           f == [p \in Nat \X V |-> 2 * p[2]]
<1>1. f \in [Nat \X V -> V]
  BY SMT
<1>2. 1 \in V
  BY SMT
<1>3. PICK g : IsRecursive(g, V, 1, f)
  <2> HIDE DEF V, f
  <2> QED BY <1>1, <1>2, Recursion
<1>4. \A n \in Nat : g[n] \in V
  BY <1>3 DEF IsRecursive
<1>5. ASSUME NEW n \in Nat PROVE (IF n = 0 THEN 1 ELSE f[<<n, g[n - 1]>>]) = IF n = 0 THEN 1 ELSE 2 * g[n - 1]
  <2>1. CASE n # 0
    <3>1. n - 1 \in Nat
      BY <2>1, SMT
    <3>2. g[n - 1] \in V
      BY <1>4, <3>1
    <3> HIDE DEF V
    <3> QED BY <2>1, <3>2
  <2> QED BY <2>1
<1>6. g = [n \in Nat |-> IF n = 0 THEN 1 ELSE 2 * g[n - 1]]
  <2>1. g = [n \in Nat |-> IF n = 0 THEN 1 ELSE f[<<n, g[n - 1]>>]]
    BY <1>3 DEF IsRecursive
  <2> HIDE DEF f, V
  <2> QED BY <1>5, <2>1
<1>7. Pow2 = [n \in Nat |-> IF n = 0 THEN 1 ELSE 2 * Pow2[n - 1]]
  BY <1>6 DEF Pow2
<1>8. \A n \in Nat : Pow2[n] = IF n = 0 THEN 1 ELSE 2 * Pow2[n - 1]
  BY <1>7
<1>9. \A n \in Nat : Pow2[n] \in Nat \ {0}
  <2> DEFINE B == {n \in Nat : Pow2[n] \notin Nat \ {0}}
  <2> SUFFICES ASSUME B # {} PROVE FALSE
    OBVIOUS
  <2>1. PICK n \in B : \A i \in B : n <= i
    BY LeastNatural
  <2>2. CASE n = 0
    BY <1>8, <2>1, <2>2, SMT
  <2>3. CASE n # 0
    <3>1. n - 1 \in Nat /\ n - 1 \notin B
      BY <2>1, <2>3, SMT
    <3> QED BY <1>8, <2>1, <2>3, <3>1, SMT
  <2> QED BY <2>2, <2>3
<1>10. ASSUME NEW n \in Nat PROVE Pow2[n + 1] = 2 * Pow2[n]
  <2>1. n + 1 \in Nat /\ n + 1 # 0 /\ (n + 1) - 1 = n
    BY SMT
  <2> QED BY <1>8, <2>1
<1> QED BY <1>8, <1>9, <1>10

\* Powers of 2 grow.
LEMMA Pow2Grows ==
  ASSUME NEW i \in Nat, NEW n \in Nat, i <= n
  PROVE  Pow2[i] <= Pow2[n]
<1> DEFINE B == {m \in Nat : i <= m /\ Pow2[i] > Pow2[m]}
<1> SUFFICES ASSUME B # {} PROVE FALSE
  <2>1. Pow2[i] \in Nat /\ Pow2[n] \in Nat
    BY Pow2Step
  <2>2. n \notin B => ~ (Pow2[i] > Pow2[n])
    OBVIOUS
  <2> HIDE DEF B
  <2> QED BY <2>1, <2>2, SMT
<1>1. PICK m \in B : \A k \in B : m <= k
  BY LeastNatural
<1>2. m \in Nat /\ i <= m /\ Pow2[i] > Pow2[m] /\ Pow2[i] \in Nat /\ Pow2[m] \in Nat
  BY <1>1, Pow2Step
<1>3. m - 1 \in Nat /\ i <= m - 1 /\ m - 1 \notin B /\ (m - 1) + 1 = m
  <2>1. m # i
    BY <1>2, SMT
  <2> QED BY <1>1, <1>2, <2>1, SMT
<1>4. ~ (Pow2[i] > Pow2[m - 1])
  BY <1>3
<1>5. Pow2[m - 1] \in Nat /\ Pow2[m] = 2 * Pow2[m - 1]
  BY <1>3, Pow2Step
<1> QED BY <1>2, <1>4, <1>5, SMT
=============================================================================
