------------------------------ MODULE FiniteSums ------------------------------
(***************************************************************************)
(* Lemmas about sums over finite sets (SumFunctionOnSet of Functions, which *)
(* is defined by recursion) and greatest elements.  They use that strict    *)
(* inclusion is well founded on the subsets of a finite set: of the sets    *)
(* for which a lemma fails a smallest one is taken.                         *)
(***************************************************************************)
EXTENDS Integers, Functions, FiniteSetTheorems, TLAPS

(* Among some subsets of a finite set there is a smallest one: induction over *)
(* finite sets, by its least counterexample.                                  *)
LEMMA SmallestSubset ==
    ASSUME NEW S, IsFiniteSet(S), NEW T, T \subseteq SUBSET S, T # {}
    PROVE  \E X \in T : \A Y \in T : Y \subseteq X => Y = X
<1>1. IsWellFoundedOn(StrictSubsetOrdering(S), FiniteSubsetsOf(S))
  BY FS_StrictSubsetOrderingWellFounded
<1>2. FiniteSubsetsOf(S) = SUBSET S
  BY FS_FiniteSubsetsOfFinite
<1>3. IsWellFoundedOn(StrictSubsetOrdering(S), SUBSET S)
  BY <1>1, <1>2
<1>4. \E X \in T : \A Y \in T : ~ (<<Y, X>> \in StrictSubsetOrdering(S))
  BY <1>3, WFMin
<1> QED
  BY <1>4 DEF StrictSubsetOrdering

Pick(s) == CHOOSE x \in s : TRUE

LEMMA PickIn ==
    ASSUME NEW s, s # {}
    PROVE  Pick(s) \in s
BY DEF Pick

(* The recursion equation of SumFunctionOnSet: g[s] is the sum of f over s. *)
Solves(g, f, S) ==
    g = [s \in SUBSET S |-> IF s = {} THEN 0 ELSE f[Pick(s)] + g[s \ {Pick(s)}]]

LEMMA SumIsSolution ==
    ASSUME NEW f, NEW S
    PROVE  SumFunctionOnSet(f, S) = (CHOOSE g : Solves(g, f, S))[S]
BY DEF SumFunctionOnSet, FoldFunctionOnSet, MapThenFoldSet, Solves, Pick

(* Two solutions agree wherever their summands do. *)
LEMMA SolutionsAgree ==
    ASSUME NEW S, IsFiniteSet(S), NEW U, NEW V, S \subseteq U, S \subseteq V,
           NEW f, NEW k, \A x \in S : f[x] = k[x],
           NEW g, Solves(g, f, U), NEW j, Solves(j, k, V)
    PROVE  g[S] = j[S]
<1> DEFINE Differ == {X \in SUBSET S : g[X] # j[X]}
<1>1. SUFFICES ASSUME Differ # {} PROVE FALSE
  OBVIOUS
<1>2. PICK X \in Differ : \A Y \in Differ : Y \subseteq X => Y = X
  <2>1. Differ \subseteq SUBSET S
    OBVIOUS
  <2> HIDE DEF Differ
  <2> QED
    BY <1>1, <2>1, SmallestSubset
<1>3. X # {}
  BY <1>2 DEF Solves
<1>4. Pick(X) \in X /\ X \ {Pick(X)} \subseteq X /\ X \ {Pick(X)} # X
  BY <1>3, PickIn
<1>5. g[X \ {Pick(X)}] = j[X \ {Pick(X)}]
  BY <1>2, <1>4
<1>6. g[X] = f[Pick(X)] + g[X \ {Pick(X)}]
  BY <1>3 DEF Solves
<1>7. j[X] = k[Pick(X)] + j[X \ {Pick(X)}]
  BY <1>3 DEF Solves
<1> QED
  BY <1>2, <1>4, <1>5, <1>6, <1>7

(* The recursion has a solution. *)
LEMMA SolutionExists ==
    ASSUME NEW S, IsFiniteSet(S), NEW f
    PROVE  \E g : Solves(g, f, S)
<1> DEFINE Without == {X \in SUBSET S : ~ \E g : Solves(g, f, X)}
<1>1. SUFFICES ASSUME Without # {} PROVE FALSE
  OBVIOUS
<1>2. PICK X \in Without : \A Y \in Without : Y \subseteq X => Y = X
  <2>1. Without \subseteq SUBSET S
    OBVIOUS
  <2> HIDE DEF Without
  <2> QED
    BY <1>1, <2>1, SmallestSubset
<1> DEFINE G(Y) == CHOOSE g : Solves(g, f, Y)
           Sum(Y) == IF Y = {} THEN 0 ELSE f[Pick(Y)] + G(Y \ {Pick(Y)})[Y \ {Pick(Y)}]
           all == [Y \in SUBSET X |-> Sum(Y)]
<1>3. ASSUME NEW Y \in SUBSET X, Y # X PROVE Solves(G(Y), f, Y)
  BY <1>2, <1>3
<1>4. ASSUME NEW Y \in SUBSET X, Y # X PROVE G(Y)[Y] = Sum(Y)
  <2>1. CASE Y = {}
    <3>1. Solves(G(Y), f, Y)
      BY <1>3, <1>4
    <3> HIDE DEF G
    <3> QED
      BY <2>1, <3>1 DEF Solves
  <2>2. CASE Y # {}
    <3> DEFINE Z == Y \ {Pick(Y)}
    <3>1. Z \in SUBSET X /\ Z # X /\ Z \subseteq Y /\ Pick(Y) \in Y
      BY <2>2, <1>4, PickIn
    <3>2. Solves(G(Y), f, Y) /\ Solves(G(Z), f, Z)
      BY <1>3, <1>4, <3>1
    <3>3. IsFiniteSet(Z)
      BY <1>2, FS_Subset
    <3> HIDE DEF G
    <3>4. G(Y)[Z] = G(Z)[Z]
      BY <3>1, <3>2, <3>3, SolutionsAgree
    <3>5. G(Y)[Y] = f[Pick(Y)] + G(Y)[Z]
      BY <2>2, <3>2 DEF Solves
    <3> QED
      BY <2>2, <3>4, <3>5
  <2> QED
    BY <2>1, <2>2
<1>5. Solves(all, f, X)
  <2> SUFFICES ASSUME NEW Y \in SUBSET X
               PROVE  Sum(Y) = IF Y = {} THEN 0 ELSE f[Pick(Y)] + all[Y \ {Pick(Y)}]
    <3> HIDE DEF Sum, G
    <3>1. all = [Y \in SUBSET X |-> IF Y = {} THEN 0 ELSE f[Pick(Y)] + all[Y \ {Pick(Y)}]]
      OBVIOUS
    <3> HIDE DEF all
    <3> QED
      BY <3>1 DEF Solves
  <2>1. CASE Y # {}
    <3> DEFINE Z == Y \ {Pick(Y)}
    <3>1. Z \in SUBSET X /\ Z # X
      BY <2>1, PickIn
    <3>2. all[Z] = G(Z)[Z]
      BY <3>1, <1>4
    <3> HIDE DEF G, all
    <3> QED
      BY <2>1, <3>2
  <2> QED
    BY <2>1
<1> QED
  BY <1>2, <1>5

LEMMA SumSolves ==
    ASSUME NEW S, IsFiniteSet(S), NEW f
    PROVE  \E g : Solves(g, f, S) /\ SumFunctionOnSet(f, S) = g[S]
<1>1. Solves(CHOOSE g : Solves(g, f, S), f, S)
  BY SolutionExists
<1> QED
  BY <1>1, SumIsSolution

LEMMA SumEmpty ==
    ASSUME NEW f
    PROVE  SumFunctionOnSet(f, {}) = 0
<1>1. PICK g : Solves(g, f, {}) /\ SumFunctionOnSet(f, {}) = g[{}]
  BY SumSolves, FS_EmptySet
<1> QED
  BY <1>1 DEF Solves

LEMMA SumPick ==
    ASSUME NEW S, IsFiniteSet(S), S # {}, NEW f
    PROVE  SumFunctionOnSet(f, S)
             = f[Pick(S)] + SumFunctionOnSet(f, S \ {Pick(S)})
<1> DEFINE R == S \ {Pick(S)}
<1>1. IsFiniteSet(R)
  BY FS_RemoveElement
<1>2. PICK g : Solves(g, f, S) /\ SumFunctionOnSet(f, S) = g[S]
  BY SumSolves
<1>3. PICK j : Solves(j, f, R) /\ SumFunctionOnSet(f, R) = j[R]
  BY <1>1, SumSolves
<1>4. g[R] = j[R]
  BY <1>1, <1>2, <1>3, SolutionsAgree
<1>5. g[S] = f[Pick(S)] + g[R]
  BY <1>2 DEF Solves
<1> QED
  BY <1>2, <1>3, <1>4, <1>5

(* Only the summands matter. *)
LEMMA SumSame ==
    ASSUME NEW S, IsFiniteSet(S), NEW f, NEW k, \A x \in S : f[x] = k[x]
    PROVE  SumFunctionOnSet(f, S) = SumFunctionOnSet(k, S)
<1>1. PICK g : Solves(g, f, S) /\ SumFunctionOnSet(f, S) = g[S]
  BY SumSolves
<1>2. PICK j : Solves(j, k, S) /\ SumFunctionOnSet(k, S) = j[S]
  BY SumSolves
<1> QED
  BY <1>1, <1>2, SolutionsAgree

(* The sum of integers is an integer, of natural numbers a natural number. *)
LEMMA SumIn ==
    ASSUME NEW S, IsFiniteSet(S), NEW f, NEW N, N = Nat \/ N = Int, \A x \in S : f[x] \in N
    PROVE  SumFunctionOnSet(f, S) \in N
<1> DEFINE Bad == {X \in SUBSET S : SumFunctionOnSet(f, X) \notin N}
<1>1. SUFFICES ASSUME Bad # {} PROVE FALSE
  OBVIOUS
<1>2. PICK X \in Bad : \A Y \in Bad : Y \subseteq X => Y = X
  <2>1. Bad \subseteq SUBSET S
    OBVIOUS
  <2> HIDE DEF Bad
  <2> QED
    BY <1>1, <2>1, SmallestSubset
<1>3. X # {}
  <2>1. 0 \in N
    OBVIOUS
  <2> QED
    BY <1>2, <2>1, SumEmpty
<1>4. Pick(X) \in X /\ X \ {Pick(X)} \subseteq X /\ X \ {Pick(X)} # X
  BY <1>3, PickIn
<1>5. SumFunctionOnSet(f, X \ {Pick(X)}) \in N
  BY <1>2, <1>4
<1>6. IsFiniteSet(X)
  BY <1>2, FS_Subset
<1>7. SumFunctionOnSet(f, X) = f[Pick(X)] + SumFunctionOnSet(f, X \ {Pick(X)})
  BY <1>3, <1>6, SumPick
<1> QED
  BY <1>2, <1>4, <1>5, <1>7

(* The order of summation does not matter: any element may be taken out. *)
LEMMA SumRemove ==
    ASSUME NEW S, IsFiniteSet(S), NEW f, \A x \in S : f[x] \in Int, NEW y \in S
    PROVE  SumFunctionOnSet(f, S) = f[y] + SumFunctionOnSet(f, S \ {y})
<1> DEFINE Bad == {X \in SUBSET S : \E x \in X :
                     SumFunctionOnSet(f, X) # f[x] + SumFunctionOnSet(f, X \ {x})}
<1>1. SUFFICES ASSUME Bad # {} PROVE FALSE
  OBVIOUS
<1>2. PICK X \in Bad : \A Y \in Bad : Y \subseteq X => Y = X
  <2>1. Bad \subseteq SUBSET S
    OBVIOUS
  <2> HIDE DEF Bad
  <2> QED
    BY <1>1, <2>1, SmallestSubset
<1>3. PICK x \in X : SumFunctionOnSet(f, X) # f[x] + SumFunctionOnSet(f, X \ {x})
  BY <1>2
<1> DEFINE p == Pick(X)
<1>4. p \in X /\ IsFiniteSet(X)
  BY <1>2, <1>3, PickIn, FS_Subset
<1>5. SumFunctionOnSet(f, X) = f[p] + SumFunctionOnSet(f, X \ {p})
  BY <1>3, <1>4, SumPick
<1>6. x # p
  BY <1>3, <1>5
<1>7. X \ {p} \notin Bad /\ X \ {x} \notin Bad
  BY <1>2, <1>3, <1>4
<1>8. SumFunctionOnSet(f, X \ {p}) = f[x] + SumFunctionOnSet(f, (X \ {p}) \ {x})
  BY <1>2, <1>3, <1>6, <1>7
<1>9. SumFunctionOnSet(f, X \ {x}) = f[p] + SumFunctionOnSet(f, (X \ {x}) \ {p})
  BY <1>2, <1>4, <1>6, <1>7
<1>10. (X \ {x}) \ {p} = (X \ {p}) \ {x}
  OBVIOUS
<1>11. SumFunctionOnSet(f, (X \ {p}) \ {x}) \in Int
  BY <1>2, <1>4, FS_RemoveElement, SumIn
<1>12. f[x] \in Int /\ f[p] \in Int
  BY <1>2, <1>3, <1>4
<1>13. \A a, b, c \in Int : a + (b + c) = b + (a + c)
  OBVIOUS
<1> QED
  BY <1>3, <1>5, <1>8, <1>9, <1>10, <1>11, <1>12, <1>13

LEMMA SumZero ==
    ASSUME NEW S, IsFiniteSet(S), NEW f, \A x \in S : f[x] = 0
    PROVE  SumFunctionOnSet(f, S) = 0
<1> DEFINE Bad == {X \in SUBSET S : SumFunctionOnSet(f, X) # 0}
<1>1. SUFFICES ASSUME Bad # {} PROVE FALSE
  OBVIOUS
<1>2. PICK X \in Bad : \A Y \in Bad : Y \subseteq X => Y = X
  <2>1. Bad \subseteq SUBSET S
    OBVIOUS
  <2> HIDE DEF Bad
  <2> QED
    BY <1>1, <2>1, SmallestSubset
<1>3. X # {} /\ IsFiniteSet(X)
  BY <1>2, SumEmpty, FS_Subset
<1>4. Pick(X) \in X /\ X \ {Pick(X)} \subseteq X /\ X \ {Pick(X)} # X
  BY <1>3, PickIn
<1>5. SumFunctionOnSet(f, X \ {Pick(X)}) = 0
  BY <1>2, <1>4
<1>6. f[Pick(X)] = 0
  BY <1>2, <1>4
<1>7. SumFunctionOnSet(f, X) = f[Pick(X)] + SumFunctionOnSet(f, X \ {Pick(X)})
  BY <1>3, SumPick
<1> QED
  BY <1>2, <1>5, <1>6, <1>7

(* One more summand; one summand less; another summand for y. *)
LEMMA SumAdd ==
    ASSUME NEW S, IsFiniteSet(S), NEW y, y \notin S, NEW f, NEW k, k[y] \in Int,
           \A x \in S : k[x] = f[x], \A x \in S : f[x] \in Int
    PROVE  SumFunctionOnSet(k, S \cup {y}) = SumFunctionOnSet(f, S) + k[y]
<1>1. IsFiniteSet(S \cup {y}) /\ (S \cup {y}) \ {y} = S
  BY FS_AddElement
<1>2. SumFunctionOnSet(k, S \cup {y}) = k[y] + SumFunctionOnSet(k, S)
  <2>1. \A x \in S \cup {y} : k[x] \in Int
    OBVIOUS
  <2> QED
    BY <1>1, <2>1, SumRemove
<1>3. SumFunctionOnSet(k, S) = SumFunctionOnSet(f, S)
  BY SumSame
<1>4. SumFunctionOnSet(f, S) \in Int
  BY SumIn
<1> QED
  BY <1>2, <1>3, <1>4

LEMMA SumDrop ==
    ASSUME NEW S, IsFiniteSet(S), NEW y \in S, NEW f, NEW k,
           \A x \in S : f[x] \in Int, \A x \in S \ {y} : k[x] = f[x]
    PROVE  SumFunctionOnSet(k, S \ {y}) = SumFunctionOnSet(f, S) - f[y]
<1>1. IsFiniteSet(S \ {y})
  BY FS_RemoveElement
<1>2. SumFunctionOnSet(f, S) = f[y] + SumFunctionOnSet(f, S \ {y})
  BY SumRemove
<1>3. SumFunctionOnSet(k, S \ {y}) = SumFunctionOnSet(f, S \ {y})
  BY <1>1, SumSame
<1>4. SumFunctionOnSet(f, S \ {y}) \in Int
  BY <1>1, SumIn
<1> QED
  BY <1>2, <1>3, <1>4

LEMMA SumChange ==
    ASSUME NEW S, IsFiniteSet(S), NEW y \in S, NEW f, NEW k,
           \A x \in S : f[x] \in Int /\ k[x] \in Int,
           \A x \in S \ {y} : k[x] = f[x]
    PROVE  SumFunctionOnSet(k, S) = SumFunctionOnSet(f, S) - f[y] + k[y]
<1>1. SumFunctionOnSet(k, S \ {y}) = SumFunctionOnSet(f, S) - f[y]
  BY SumDrop
<1>2. SumFunctionOnSet(k, S) = k[y] + SumFunctionOnSet(k, S \ {y})
  BY SumRemove
<1>3. SumFunctionOnSet(f, S) \in Int
  BY SumIn
<1> QED
  BY <1>1, <1>2, <1>3

(* No summand is greater than the sum. *)
LEMMA SumAtLeast ==
    ASSUME NEW S, IsFiniteSet(S), NEW f, \A x \in S : f[x] \in Nat, NEW y \in S
    PROVE  f[y] <= SumFunctionOnSet(f, S)
<1>1. IsFiniteSet(S \ {y})
  BY FS_RemoveElement
<1>2. SumFunctionOnSet(f, S \ {y}) \in Nat
  BY <1>1, SumIn
<1>3. SumFunctionOnSet(f, S) = f[y] + SumFunctionOnSet(f, S \ {y})
  BY SumRemove
<1> QED
  BY <1>2, <1>3

(* The sum grows with its summands. *)
LEMMA SumMonotone ==
    ASSUME NEW S, IsFiniteSet(S), NEW f, NEW k,
           \A x \in S : f[x] \in Nat /\ k[x] \in Nat /\ f[x] <= k[x]
    PROVE  SumFunctionOnSet(f, S) <= SumFunctionOnSet(k, S)
<1> DEFINE Bad == {X \in SUBSET S : ~ SumFunctionOnSet(f, X) <= SumFunctionOnSet(k, X)}
<1>1. SUFFICES ASSUME Bad # {} PROVE FALSE
  OBVIOUS
<1>2. PICK X \in Bad : \A Y \in Bad : Y \subseteq X => Y = X
  <2>1. Bad \subseteq SUBSET S
    OBVIOUS
  <2> HIDE DEF Bad
  <2> QED
    BY <1>1, <2>1, SmallestSubset
<1>3. X # {} /\ IsFiniteSet(X)
  <2>1. SumFunctionOnSet(f, {}) = 0 /\ SumFunctionOnSet(k, {}) = 0
    BY SumEmpty
  <2>2. ~ SumFunctionOnSet(f, X) <= SumFunctionOnSet(k, X)
    BY <1>2
  <2>3. X # {}
    BY <2>1, <2>2
  <2> QED
    BY <1>2, <2>3, FS_Subset
<1> DEFINE R == X \ {Pick(X)}
<1>4. Pick(X) \in X /\ R \subseteq X /\ R # X /\ IsFiniteSet(R)
  BY <1>3, PickIn, FS_Subset
<1>5. SumFunctionOnSet(f, R) <= SumFunctionOnSet(k, R)
  BY <1>2, <1>4
<1>6. /\ SumFunctionOnSet(f, X) = f[Pick(X)] + SumFunctionOnSet(f, R)
      /\ SumFunctionOnSet(k, X) = k[Pick(X)] + SumFunctionOnSet(k, R)
  BY <1>3, SumPick
<1>7. SumFunctionOnSet(f, R) \in Nat /\ SumFunctionOnSet(k, R) \in Nat
  BY <1>2, <1>4, SumIn
<1>8. f[Pick(X)] \in Nat /\ k[Pick(X)] \in Nat /\ f[Pick(X)] <= k[Pick(X)]
  BY <1>2, <1>4
<1>9. ~ SumFunctionOnSet(f, X) <= SumFunctionOnSet(k, X)
  BY <1>2
<1> HIDE DEF R
<1> QED
  BY <1>5, <1>6, <1>7, <1>8, <1>9

(* A finite set of integers has a greatest and a least element. *)
LEMMA GreatestExists ==
    ASSUME NEW S, IsFiniteSet(S), S \subseteq Int, S # {}
    PROVE  (\E x \in S : \A y \in S : x >= y) /\ (\E x \in S : \A y \in S : x <= y)
<1> DEFINE Ends(X) == (\E x \in X : \A y \in X : x >= y) /\ (\E x \in X : \A y \in X : x <= y)
           Bad == {X \in SUBSET S : X # {} /\ ~ Ends(X)}
<1>1. SUFFICES ASSUME Bad # {} PROVE FALSE
  OBVIOUS
<1>2. PICK X \in Bad : \A Y \in Bad : Y \subseteq X => Y = X
  <2>1. Bad \subseteq SUBSET S
    OBVIOUS
  <2> HIDE DEF Bad, Ends
  <2> QED
    BY ONLY IsFiniteSet(S), <1>1, <2>1, SmallestSubset
<1>3. PICK z \in X : TRUE
  BY <1>2
<1>4. X \ {z} = {} \/ Ends(X \ {z})
  <2> DEFINE R == X \ {z}
  <2>1. R \in SUBSET S /\ R \subseteq X /\ R # X
    BY <1>2, <1>3
  <2> QED
    BY <1>2, <2>1
<1>5. Ends(X)
  BY <1>2, <1>3, <1>4
<1> QED
  BY <1>2, <1>5

(* A sum of sums. *)
LEMMA SumPlus ==
    ASSUME NEW S, IsFiniteSet(S), NEW f, NEW k, NEW p,
           \A x \in S : f[x] \in Int /\ k[x] \in Int /\ p[x] = f[x] + k[x]
    PROVE  SumFunctionOnSet(p, S) = SumFunctionOnSet(f, S) + SumFunctionOnSet(k, S)
<1> DEFINE Bad == {X \in SUBSET S : SumFunctionOnSet(p, X)
                                      # SumFunctionOnSet(f, X) + SumFunctionOnSet(k, X)}
<1>1. SUFFICES ASSUME Bad # {} PROVE FALSE
  OBVIOUS
<1>2. PICK X \in Bad : \A Y \in Bad : Y \subseteq X => Y = X
  <2>1. Bad \subseteq SUBSET S
    OBVIOUS
  <2> HIDE DEF Bad
  <2> QED
    BY <1>1, <2>1, SmallestSubset
<1>3. X # {} /\ IsFiniteSet(X)
  <2>1. /\ SumFunctionOnSet(f, {}) = 0 /\ SumFunctionOnSet(k, {}) = 0
        /\ SumFunctionOnSet(p, {}) = 0
    BY SumEmpty
  <2>2. SumFunctionOnSet(p, X) # SumFunctionOnSet(f, X) + SumFunctionOnSet(k, X)
    BY <1>2
  <2>3. ASSUME X = {} PROVE FALSE
    <3>1. SumFunctionOnSet(p, {}) # SumFunctionOnSet(f, {}) + SumFunctionOnSet(k, {})
      BY <2>2, <2>3
    <3>2. 0 # 0 + 0
      BY <2>1, <3>1
    <3> QED
      BY <3>2
  <2> QED
    BY <1>2, <2>3, FS_Subset
<1> DEFINE R == X \ {Pick(X)}
<1>4. Pick(X) \in X /\ R \subseteq X /\ R # X /\ IsFiniteSet(R)
  BY <1>3, PickIn, FS_Subset
<1>5. SumFunctionOnSet(p, R) = SumFunctionOnSet(f, R) + SumFunctionOnSet(k, R)
  BY <1>2, <1>4
<1>6. /\ SumFunctionOnSet(f, X) = f[Pick(X)] + SumFunctionOnSet(f, R)
      /\ SumFunctionOnSet(k, X) = k[Pick(X)] + SumFunctionOnSet(k, R)
      /\ SumFunctionOnSet(p, X) = p[Pick(X)] + SumFunctionOnSet(p, R)
  BY <1>3, SumPick
<1>7. SumFunctionOnSet(f, R) \in Int /\ SumFunctionOnSet(k, R) \in Int
  BY <1>2, <1>4, SumIn
<1>8. /\ f[Pick(X)] \in Int /\ k[Pick(X)] \in Int
      /\ p[Pick(X)] = f[Pick(X)] + k[Pick(X)]
  BY <1>2, <1>4
<1>9. SumFunctionOnSet(p, X) # SumFunctionOnSet(f, X) + SumFunctionOnSet(k, X)
  BY <1>2
<1> HIDE DEF R
<1> QED
  BY <1>5, <1>6, <1>7, <1>8, <1>9

(* A sum over S whose summands are those over K, found at g, and zeros elsewhere. *)
LEMMA SumOver ==
    ASSUME NEW S, IsFiniteSet(S), NEW K, IsFiniteSet(K), NEW g,
           \A x \in K : g[x] \in S, \A x, y \in K : g[x] = g[y] => x = y,
           NEW f, NEW w, \A x \in K : w[x] \in Int /\ f[g[x]] = w[x],
           \A z \in S : (\A x \in K : g[x] # z) => f[z] = 0
    PROVE  SumFunctionOnSet(f, S) = SumFunctionOnSet(w, K)
<1> DEFINE Part(X) == [z \in S |-> IF \E x \in X : g[x] = z THEN f[z] ELSE 0]
           Bad == {X \in SUBSET K : SumFunctionOnSet(Part(X), S) # SumFunctionOnSet(w, X)}
<1>1. \A z \in S : f[z] \in Int /\ f[z] = Part(K)[z]
  OBVIOUS
<1>2. SumFunctionOnSet(f, S) = SumFunctionOnSet(Part(K), S)
  <2> HIDE DEF Part
  <2> QED
    BY <1>1, SumSame
<1>3. SUFFICES ASSUME Bad # {} PROVE FALSE
  BY <1>2
<1>4. PICK X \in Bad : \A Y \in Bad : Y \subseteq X => Y = X
  <2>1. Bad \subseteq SUBSET K
    OBVIOUS
  <2> HIDE DEF Bad
  <2> QED
    BY <1>3, <2>1, SmallestSubset
<1>5. X # {} /\ IsFiniteSet(X)
  <2>1. \A z \in S : Part({})[z] = 0
    OBVIOUS
  <2>2. SumFunctionOnSet(Part({}), S) = 0
    <3> HIDE DEF Part
    <3> QED
      BY <2>1, SumZero
  <2>3. SumFunctionOnSet(w, {}) = 0
    BY SumEmpty
  <2>4. SumFunctionOnSet(Part(X), S) # SumFunctionOnSet(w, X)
    BY <1>4
  <2>5. X # {}
    BY <2>2, <2>3, <2>4
  <2> QED
    BY <1>4, <2>5, FS_Subset
<1> DEFINE y == Pick(X)
           R == X \ {y}
<1>6. y \in X /\ R \subseteq X /\ R # X /\ IsFiniteSet(R) /\ X \subseteq K
  BY <1>4, <1>5, PickIn, FS_Subset
<1>7. SumFunctionOnSet(Part(R), S) = SumFunctionOnSet(w, R)
  BY <1>4, <1>6
<1>8. SumFunctionOnSet(w, X) = w[y] + SumFunctionOnSet(w, R)
  BY <1>5, SumPick
<1>9. /\ g[y] \in S /\ Part(X)[g[y]] = w[y] /\ Part(R)[g[y]] = 0
      /\ \A z \in S \ {g[y]} : Part(X)[z] = Part(R)[z]
      /\ \A z \in S : Part(X)[z] \in Int /\ Part(R)[z] \in Int
      /\ w[y] \in Int
  BY <1>1, <1>6
<1>10. SumFunctionOnSet(Part(X), S)
         = SumFunctionOnSet(Part(R), S) - Part(R)[g[y]] + Part(X)[g[y]]
  <2> DEFINE a == Part(X)
             b == Part(R)
  <2>1. /\ \A z \in S : b[z] \in Int /\ a[z] \in Int
        /\ \A z \in S \ {g[y]} : a[z] = b[z]
    BY <1>9
  <2> HIDE DEF a, b
  <2>2. SumFunctionOnSet(a, S) = SumFunctionOnSet(b, S) - b[g[y]] + a[g[y]]
    BY <1>9, <2>1, SumChange
  <2> QED
    BY <2>2 DEF a, b
<1>11. SumFunctionOnSet(Part(R), S) \in Int
  <2> HIDE DEF Part
  <2> QED
    BY <1>9, SumIn
<1>12. SumFunctionOnSet(Part(X), S) # SumFunctionOnSet(w, X)
  BY <1>4
<1> HIDE DEF Part, R, y
<1> QED
  BY <1>7, <1>8, <1>9, <1>10, <1>11, <1>12

=============================================================================
