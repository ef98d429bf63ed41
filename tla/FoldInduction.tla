--------------------------- MODULE FoldInduction ----------------------------
(***************************************************************************)
(* Induction over natural numbers and finite sets, by the least            *)
(* counterexample, and what follows by it for the folds of the community   *)
(* modules and for powers of two.  The folded operator is a parameter of   *)
(* the module, so that an INSTANCE has the theorems for its own operator.  *)
(***************************************************************************)
EXTENDS Integers, Functions, FiniteSetTheorems, WellFoundedInduction, TLAPS

CONSTANTS op(_, _), base, choose(_)

-----------------------------------------------------------------------------
(* The least counterexample. *)

\* A set of natural numbers has a least element.
LEMMA LeastNat ==
    ASSUME NEW T \in SUBSET Nat, T # {}
    PROVE  \E n \in T : \A k \in T : n <= k
<1> DEFINE Less == {ss \in Nat \X Nat : ss[1] < ss[2]}
<1>1. IsWellFoundedOn(Less, Nat)
  BY NatLessThanWellFounded DEF OpToRel
<1>2. PICK n \in T : \A k \in T : ~(<<k, n>> \in Less)
  <2> HIDE DEF Less
  <2> QED  BY <1>1, WFMin
<1>3. ASSUME NEW k \in T PROVE n <= k
  <2>1. <<k, n>> \in Nat \X Nat /\ <<k, n>>[1] = k /\ <<k, n>>[2] = n
    OBVIOUS
  <2>2. ~(k < n)
    BY <1>2, <2>1
  <2> QED  BY <2>2
<1> QED  BY <1>3

\* Among subsets of a finite set there is a least one.
LEMMA LeastSubset ==
    ASSUME NEW S, IsFiniteSet(S), NEW Bad \in SUBSET (SUBSET S), Bad # {}
    PROVE  \E T \in Bad : \A U \in Bad : U \subseteq T => U = T
<1>1. Bad \subseteq FiniteSubsetsOf(S)
  BY FS_FiniteSubsetsOfFinite
<1>2. PICK T \in Bad : \A U \in Bad : ~(<<U, T>> \in StrictSubsetOrdering(S))
  BY <1>1, FS_StrictSubsetOrderingWellFounded, WFMin
<1>3. ASSUME NEW U \in Bad, U \subseteq T, U # T PROVE FALSE
  <2>1. <<U, T>> \in (SUBSET S) \X (SUBSET S) /\ <<U, T>>[1] = U /\ <<U, T>>[2] = T
    OBVIOUS
  <2>2. <<U, T>> \in StrictSubsetOrdering(S)
    BY <2>1, <1>3 DEF StrictSubsetOrdering
  <2> QED  BY <1>2, <2>2
<1> QED  BY <1>3

-----------------------------------------------------------------------------
(* Folds are well defined. *)

\* g is the function that MapThenFoldSet defines by recursion over the subsets
\* of S.
Solves(g, fun, S) ==
    g = [s \in SUBSET S |-> IF s = {} THEN base
                            ELSE op(fun[choose(s)], g[s \ {choose(s)}])]

\* The fold of fun over S.
Fold(fun, S) == (CHOOSE g : Solves(g, fun, S))[S]

\* choose picks an element of each nonempty subset of S.
Chooses(S) == \A T \in SUBSET S : T # {} => choose(T) \in T

\* Fold is the fold of the community modules.
LEMMA FoldIsMapThenFoldSet ==
    ASSUME NEW fun, NEW S
    PROVE  MapThenFoldSet(op, base, LAMBDA i : fun[i], choose, S) = Fold(fun, S)
BY DEF MapThenFoldSet, Fold, Solves

\* What the recursive function is at a subset.
LEMMA FoldsValue ==
    ASSUME NEW g, NEW fun, NEW S, Solves(g, fun, S), NEW s \in SUBSET S
    PROVE  g[s] = IF s = {} THEN base ELSE op(fun[choose(s)], g[s \ {choose(s)}])
BY DEF Solves

\* Two folds of functions that agree on S agree on what both are defined for.
LEMMA FoldsAgree ==
    ASSUME NEW S, IsFiniteSet(S), Chooses(S), NEW R, S \subseteq R, NEW fun, NEW gun,
           \A x \in S : fun[x] = gun[x],
           NEW g, Solves(g, fun, S), NEW h, Solves(h, gun, R)
    PROVE  \A s \in SUBSET S : g[s] = h[s]
<1> DEFINE Bad == {s \in SUBSET S : g[s] # h[s]}
<1> SUFFICES ASSUME Bad # {} PROVE FALSE
  OBVIOUS
<1>1. PICK T \in Bad : \A U \in Bad : U \subseteq T => U = T
  <2>1. Bad \in SUBSET (SUBSET S)
    OBVIOUS
  <2> HIDE DEF Bad
  <2> QED  BY <2>1, LeastSubset
<1> DEFINE x == choose(T)
<1>a. T \in SUBSET S /\ T \in SUBSET R
  <2>1. T \subseteq S
    BY <1>1
  <2> QED  BY <2>1
<1>2. g[T] = IF T = {} THEN base ELSE op(fun[x], g[T \ {x}])
  BY ONLY <1>a, Solves(g, fun, S), FoldsValue
<1>3. h[T] = IF T = {} THEN base ELSE op(gun[x], h[T \ {x}])
  BY ONLY <1>a, Solves(h, gun, R), FoldsValue
<1>4. T # {} => x \in T
  BY DEF Chooses
<1>5. T # {} => g[T \ {x}] = h[T \ {x}] /\ fun[x] = gun[x]
  BY <1>1, <1>4
<1> QED  BY <1>1, <1>2, <1>3, <1>5

\* The recursion has a solution.
LEMMA FoldsExist ==
    ASSUME NEW S, IsFiniteSet(S), Chooses(S), NEW fun
    PROVE  \A s \in SUBSET S : \E g : Solves(g, fun, s)
<1> DEFINE Bad == {s \in SUBSET S : ~ \E g : Solves(g, fun, s)}
<1> SUFFICES ASSUME Bad # {} PROVE FALSE
  OBVIOUS
<1>1. PICK T \in Bad : \A U \in Bad : U \subseteq T => U = T
  <2>1. Bad \in SUBSET (SUBSET S)
    OBVIOUS
  <2> HIDE DEF Bad
  <2> QED  BY <2>1, LeastSubset
<1> DEFINE x == choose(T)
           F(s) == CHOOSE g : Solves(g, fun, s)
           Top == IF T = {} THEN base ELSE op(fun[x], F(T \ {x})[T \ {x}])
           G == [s \in SUBSET T |-> IF s = T THEN Top ELSE F(s)[s]]
<1>2. ASSUME NEW s \in SUBSET T, s # T PROVE Solves(F(s), fun, s)
  <2>1. s \in SUBSET S /\ s \notin Bad
    BY <1>1, <1>2
  <2>2. \E g : Solves(g, fun, s)
    BY <2>1
  <2> HIDE DEF Bad
  <2> QED  BY <2>2
<1>3. T # {} => x \in T
  BY DEF Chooses
<1>4. ASSUME NEW s \in SUBSET T
      PROVE  G[s] = IF s = {} THEN base ELSE op(fun[choose(s)], G[s \ {choose(s)}])
  <2>1. CASE s = T
    <3>1. T # {} => T \ {x} \in SUBSET T /\ T \ {x} # T
      BY <1>3
    <3>2. T # {} => G[T \ {x}] = F(T \ {x})[T \ {x}]
      BY <3>1
    <3> HIDE DEF F
    <3> QED  BY <2>1, <3>2
  <2>2. CASE s # T
    <3> DEFINE y == choose(s)
               r == s \ {y}
    <3>1. G[s] = F(s)[s]
      BY <2>2
    <3>2. F(s)[s] = IF s = {} THEN base ELSE op(fun[y], F(s)[r])
      BY <1>2, <2>2, FoldsValue
    <3>3. ASSUME s # {} PROVE F(s)[r] = G[r]
      <4>1. y \in s
        BY <3>3 DEF Chooses
      <4>2. r \in SUBSET T /\ r # T /\ r \subseteq s
        BY <4>1
      <4>3. Solves(F(r), fun, r) /\ Solves(F(s), fun, s)
        BY <1>2, <2>2, <4>2
      <4>4. IsFiniteSet(r) /\ Chooses(r)
        BY <4>2, FS_Subset DEF Chooses
      <4>5. F(r)[r] = F(s)[r]
        <5> HIDE DEF F, r
        <5> QED  BY <4>2, <4>3, <4>4, FoldsAgree
      <4> QED  BY <4>2, <4>5
    <3> HIDE DEF F, G, y
    <3> QED  BY <3>1, <3>2, <3>3 DEF r, y
  <2> QED  BY <2>1, <2>2
<1>5. Solves(G, fun, T)
  <2>1. G = [s \in SUBSET T |-> G[s]]
    OBVIOUS
  <2> HIDE DEF G
  <2> QED  BY <1>4, <2>1 DEF Solves
<1> QED  BY <1>1, <1>5

\* What a fold of a finite set is.
LEMMA FoldEquation ==
    ASSUME NEW S, IsFiniteSet(S), Chooses(S), NEW fun
    PROVE  Fold(fun, S) = IF S = {} THEN base
                          ELSE op(fun[choose(S)], Fold(fun, S \ {choose(S)}))
<1> DEFINE r == S \ {choose(S)}
           F(s) == CHOOSE g : Solves(g, fun, s)
<1>1. Solves(F(S), fun, S) /\ Solves(F(r), fun, r)
  <2>1. S \in SUBSET S /\ r \in SUBSET S
    OBVIOUS
  <2>2. (\E g : Solves(g, fun, S)) /\ (\E g : Solves(g, fun, r))
    BY <2>1, FoldsExist
  <2> HIDE DEF r
  <2> QED  BY <2>2
<1>2. F(S)[S] = IF S = {} THEN base ELSE op(fun[choose(S)], F(S)[r])
  BY <1>1, FoldsValue
<1>3. F(r)[r] = F(S)[r]
  <2>1. r \subseteq S /\ r \in SUBSET r
    OBVIOUS
  <2>2. IsFiniteSet(r) /\ Chooses(r)
    BY <2>1, FS_Subset DEF Chooses
  <2> HIDE DEF F, r
  <2> QED  BY <1>1, <2>1, <2>2, FoldsAgree
<1> HIDE DEF r, F
<1> QED  BY <1>2, <1>3 DEF Fold, r, F

\* A fold looks at its function on the set only.
LEMMA FoldDepends ==
    ASSUME NEW S, IsFiniteSet(S), Chooses(S), NEW fun, NEW gun,
           \A x \in S : fun[x] = gun[x]
    PROVE  Fold(fun, S) = Fold(gun, S)
<1> DEFINE F(f) == CHOOSE g : Solves(g, f, S)
<1>1. Solves(F(fun), fun, S) /\ Solves(F(gun), gun, S)
  <2>1. (\E g : Solves(g, fun, S)) /\ (\E g : Solves(g, gun, S))
    BY FoldsExist
  <2> QED  BY <2>1
<1>2. F(fun)[S] = F(gun)[S]
  <2> HIDE DEF F
  <2> QED  BY <1>1, FoldsAgree
<1> QED  BY <1>2 DEF Fold

-----------------------------------------------------------------------------
(* Sums: the fold of numbers by addition. *)

\* The instance folds natural numbers by addition.
IsSum ==
    /\ base = 0 /\ \A a, b \in Nat : op(a, b) = a + b
    /\ \A T : T # {} => choose(T) \in T

\* A sum takes its elements one at a time.
LEMMA SumEquation ==
    ASSUME IsSum, NEW S, IsFiniteSet(S), NEW fun
    PROVE  Fold(fun, S) = IF S = {} THEN 0
                          ELSE op(fun[choose(S)], Fold(fun, S \ {choose(S)}))
BY FoldEquation DEF IsSum, Chooses

\* A sum of natural numbers is one.
LEMMA SumType ==
    ASSUME IsSum, NEW S, IsFiniteSet(S), NEW fun, \A x \in S : fun[x] \in Nat
    PROVE  \A s \in SUBSET S : Fold(fun, s) \in Nat
<1> DEFINE Bad == {s \in SUBSET S : Fold(fun, s) \notin Nat}
<1> SUFFICES ASSUME Bad # {} PROVE FALSE
  OBVIOUS
<1>1. PICK T \in Bad : \A U \in Bad : U \subseteq T => U = T
  <2>1. Bad \in SUBSET (SUBSET S)
    OBVIOUS
  <2> HIDE DEF Bad
  <2> QED  BY <2>1, LeastSubset
<1> DEFINE x == choose(T)
           r == T \ {x}
<1>2. T \subseteq S /\ Fold(fun, T) \notin Nat
  BY <1>1
<1>3. IsFiniteSet(T)
  BY <1>2, FS_Subset
<1>4. Fold(fun, T) = IF T = {} THEN 0 ELSE op(fun[x], Fold(fun, r))
  BY <1>3, SumEquation
<1>5. CASE T # {}
  <2>1. x \in T
    BY <1>5 DEF IsSum
  <2>2. r \subseteq T /\ r # T /\ r \in SUBSET S
    BY <1>2, <2>1
  <2>3. r \notin Bad
    BY <1>1, <2>2
  <2>4. Fold(fun, r) \in Nat
    BY <2>2, <2>3
  <2>5. fun[x] \in Nat
    BY <1>2, <2>1
  <2> HIDE DEF Bad, x, r
  <2> QED  BY <1>2, <1>4, <1>5, <2>4, <2>5 DEF IsSum
<1> QED  BY <1>2, <1>4, <1>5

\* One summand may be taken out, whichever it is.
LEMMA SumRemove ==
    ASSUME IsSum, NEW S, IsFiniteSet(S), NEW fun, \A x \in S : fun[x] \in Nat
    PROVE  \A s \in SUBSET S : \A y \in s : Fold(fun, s) = fun[y] + Fold(fun, s \ {y})
<1> DEFINE Bad == {s \in SUBSET S : \E y \in s : Fold(fun, s) # fun[y] + Fold(fun, s \ {y})}
<1> SUFFICES ASSUME Bad # {} PROVE FALSE
  OBVIOUS
<1>1. PICK T \in Bad : \A U \in Bad : U \subseteq T => U = T
  <2>1. Bad \in SUBSET (SUBSET S)
    OBVIOUS
  <2> HIDE DEF Bad
  <2> QED  BY <2>1, LeastSubset
<1>2. PICK y \in T : Fold(fun, T) # fun[y] + Fold(fun, T \ {y})
  BY <1>1
<1> DEFINE x == choose(T)
           r == T \ {x}
           q == T \ {y}
           b == T \ {x, y}
<1>3. T \subseteq S
  BY <1>1
<1>4. x \in T
  BY <1>2 DEF IsSum
<1>5. fun[x] \in Nat /\ fun[y] \in Nat
  BY <1>2, <1>3, <1>4
<1>6. IsFiniteSet(T) /\ r \in SUBSET S /\ q \in SUBSET S /\ b \in SUBSET S
  BY <1>3, FS_Subset
<1>7. Fold(fun, r) \in Nat /\ Fold(fun, q) \in Nat /\ Fold(fun, b) \in Nat
  BY <1>6, SumType
<1>8. Fold(fun, T) = fun[x] + Fold(fun, r)
  <2>1. Fold(fun, T) = op(fun[x], Fold(fun, r))
    BY <1>2, <1>6, SumEquation
  <2> HIDE DEF x, r
  <2> QED  BY <1>5, <1>7, <2>1 DEF IsSum
<1>9. x # y
  BY <1>2, <1>8
<1>10. r \notin Bad /\ q \notin Bad
  BY <1>1, <1>2, <1>4, <1>6
<1>11. y \in r /\ r \ {y} = b /\ x \in q /\ q \ {x} = b
  BY <1>2, <1>4, <1>9
<1>12. Fold(fun, r) = fun[y] + Fold(fun, b)
  BY <1>6, <1>10, <1>11
<1>13. Fold(fun, q) = fun[x] + Fold(fun, b)
  BY <1>6, <1>10, <1>11
<1> HIDE DEF Bad, x, r, b
<1> QED  BY <1>2, <1>5, <1>7, <1>8, <1>12, <1>13

\* A sum is any one summand and the sum of the others.
LEMMA SumOut ==
    ASSUME IsSum, NEW S, IsFiniteSet(S), NEW fun, \A x \in S : fun[x] \in Nat, NEW y \in S
    PROVE  /\ Fold(fun, S) = fun[y] + Fold(fun, S \ {y})
           /\ Fold(fun, S) \in Nat /\ Fold(fun, S \ {y}) \in Nat /\ fun[y] \in Nat
<1>1. S \in SUBSET S /\ S \ {y} \in SUBSET S
  OBVIOUS
<1>2. Fold(fun, S) \in Nat /\ Fold(fun, S \ {y}) \in Nat
  BY <1>1, SumType
<1>3. Fold(fun, S) = fun[y] + Fold(fun, S \ {y})
  BY <1>1, SumRemove
<1> QED  BY <1>2, <1>3

\* A sum of nothing is zero.
LEMMA SumEmpty ==
    ASSUME IsSum, NEW fun
    PROVE  Fold(fun, {}) = 0
BY SumEquation, FS_EmptySet

\* A sum with one summand more.
LEMMA SumIn ==
    ASSUME IsSum, NEW S, IsFiniteSet(S), NEW fun, \A x \in S : fun[x] \in Nat,
           NEW y, y \notin S, fun[y] \in Nat
    PROVE  Fold(fun, S \cup {y}) = Fold(fun, S) + fun[y]
<1>1. IsFiniteSet(S \cup {y}) /\ y \in S \cup {y} /\ (S \cup {y}) \ {y} = S
  BY FS_AddElement
<1>2. \A x \in S \cup {y} : fun[x] \in Nat
  OBVIOUS
<1> DEFINE T == S \cup {y}
<1> HIDE DEF T
<1>3. /\ Fold(fun, T) = fun[y] + Fold(fun, T \ {y})
      /\ Fold(fun, T \ {y}) \in Nat
  BY <1>1, <1>2, SumOut DEF T
<1>4. T = S \cup {y} /\ T \ {y} = S
  BY <1>1 DEF T
<1>5. Fold(fun, S \cup {y}) = fun[y] + Fold(fun, S) /\ Fold(fun, S) \in Nat
  BY <1>3, <1>4, Zenon
<1> DEFINE total == Fold(fun, S \cup {y})
<1>6. total = fun[y] + Fold(fun, S)
  BY <1>5
<1> HIDE DEF total
<1>7. total = Fold(fun, S) + fun[y]
  BY <1>5, <1>6
<1> QED  BY <1>7 DEF total

\* A sum over a set of one.
LEMMA SumOfOne ==
    ASSUME IsSum, NEW S, IsFiniteSet(S), Cardinality(S) = 1, NEW fun, NEW b \in Nat,
           \A x \in S : fun[x] \in Nat /\ fun[x] <= b
    PROVE  Fold(fun, S) <= b
<1>1. PICK y \in S : TRUE
  BY FS_EmptySet
<1>2. IsFiniteSet(S \ {y}) /\ Cardinality(S \ {y}) = Cardinality(S) - 1
  BY FS_RemoveElement
<1>3. S \ {y} = {}
  BY <1>2, FS_EmptySet
<1>4. Fold(fun, S) = fun[y] + Fold(fun, S \ {y})
  BY SumOut
<1>5. Fold(fun, S \ {y}) = 0
  BY <1>3, SumEmpty
<1> QED  BY <1>4, <1>5

\* A change of one summand changes the sum by as much.
LEMMA SumChange ==
    ASSUME IsSum, NEW S, IsFiniteSet(S), NEW fun, NEW gun,
           \A x \in S : fun[x] \in Nat /\ gun[x] \in Nat,
           NEW y \in S, \A x \in S : x # y => gun[x] = fun[x]
    PROVE  /\ Fold(fun, S) \in Nat /\ Fold(gun, S) \in Nat
           /\ fun[y] <= Fold(fun, S)
           /\ Fold(gun, S) = Fold(fun, S) - fun[y] + gun[y]
<1> DEFINE r == S \ {y}
<1>1. Fold(fun, S) = fun[y] + Fold(fun, r) /\ Fold(fun, S) \in Nat /\ Fold(fun, r) \in Nat
  BY SumOut
<1>2. Fold(gun, S) = gun[y] + Fold(gun, r) /\ Fold(gun, S) \in Nat
  BY SumOut
<1>3. Fold(fun, r) = Fold(gun, r)
  <2>1. IsFiniteSet(r)
    BY FS_Subset
  <2>2. \A x \in r : fun[x] = gun[x]
    OBVIOUS
  <2>3. Chooses(r)
    BY DEF IsSum, Chooses
  <2> HIDE DEF r
  <2> QED  BY ONLY <2>1, <2>2, <2>3, FoldDepends
<1> HIDE DEF r
<1> QED  BY <1>1, <1>2, <1>3

\* Sums grow with their summands, one for one or two for one.
LEMMA SumBound ==
    ASSUME IsSum, NEW S, IsFiniteSet(S), NEW fun, NEW gun, NEW c \in {1, 2},
           \A x \in S : fun[x] \in Nat /\ gun[x] \in Nat /\ gun[x] <= c * fun[x]
    PROVE  Fold(gun, S) <= c * Fold(fun, S)
<1> DEFINE Bad == {s \in SUBSET S : ~(Fold(gun, s) <= c * Fold(fun, s))}
<1> SUFFICES ASSUME Bad # {} PROVE FALSE
  OBVIOUS
<1>1. PICK T \in Bad : \A U \in Bad : U \subseteq T => U = T
  <2>1. Bad \in SUBSET (SUBSET S)
    OBVIOUS
  <2> HIDE DEF Bad
  <2> QED  BY <2>1, LeastSubset
<1>2. T \subseteq S /\ ~(Fold(gun, T) <= c * Fold(fun, T))
  BY <1>1
<1>3. CASE T = {}
  <2>1. Fold(gun, {}) = 0 /\ Fold(fun, {}) = 0
    BY SumEmpty
  <2> QED  BY <1>2, <1>3, <2>1
<1>4. ASSUME NEW y \in T PROVE FALSE
  <2> DEFINE r == T \ {y}
  <2>1. IsFiniteSet(T)
    BY <1>2, FS_Subset
  <2>2. \A x \in T : fun[x] \in Nat /\ gun[x] \in Nat /\ gun[x] <= c * fun[x]
    BY <1>2
  <2>3. Fold(fun, T) = fun[y] + Fold(fun, r) /\ Fold(fun, r) \in Nat
    BY <2>1, <2>2, SumOut
  <2>4. Fold(gun, T) = gun[y] + Fold(gun, r) /\ Fold(gun, r) \in Nat
    BY <2>1, <2>2, SumOut
  <2>5. r \in SUBSET S /\ r \notin Bad
    BY <1>1, <1>2
  <2>6. Fold(gun, r) <= c * Fold(fun, r)
    BY <2>5
  <2> HIDE DEF Bad, r
  <2>7. CASE c = 1
    BY <1>2, <2>2, <2>3, <2>4, <2>6, <2>7
  <2>8. CASE c = 2
    BY <1>2, <2>2, <2>3, <2>4, <2>6, <2>8
  <2> QED  BY <2>7, <2>8
<1> QED  BY <1>3, <1>4

\* The sum of sums.
LEMMA SumOfTwo ==
    ASSUME IsSum, NEW S, IsFiniteSet(S), NEW f, NEW g, NEW h,
           \A x \in S : f[x] \in Nat /\ g[x] \in Nat /\ h[x] = f[x] + g[x]
    PROVE  Fold(h, S) = Fold(f, S) + Fold(g, S)
<1> DEFINE Bad == {s \in SUBSET S : Fold(h, s) # Fold(f, s) + Fold(g, s)}
<1> SUFFICES ASSUME Bad # {} PROVE FALSE
  OBVIOUS
<1>1. PICK T \in Bad : \A U \in Bad : U \subseteq T => U = T
  <2>1. Bad \in SUBSET (SUBSET S)
    OBVIOUS
  <2> HIDE DEF Bad
  <2> QED  BY <2>1, LeastSubset
<1>2. T \subseteq S /\ Fold(h, T) # Fold(f, T) + Fold(g, T)
  BY <1>1
<1>3. CASE T = {}
  <2>1. Fold(f, {}) = 0 /\ Fold(g, {}) = 0 /\ Fold(h, {}) = 0
    BY SumEmpty
  <2> QED  BY <1>2, <1>3, <2>1
<1>4. ASSUME NEW y \in T PROVE FALSE
  <2> DEFINE r == T \ {y}
  <2>1. IsFiniteSet(T)
    BY <1>2, FS_Subset
  <2>2. \A x \in T : f[x] \in Nat /\ g[x] \in Nat /\ h[x] \in Nat /\ h[x] = f[x] + g[x]
    BY <1>2
  <2>3. Fold(f, T) = f[y] + Fold(f, r) /\ Fold(f, r) \in Nat
    BY <2>1, <2>2, SumOut
  <2>4. Fold(g, T) = g[y] + Fold(g, r) /\ Fold(g, r) \in Nat
    BY <2>1, <2>2, SumOut
  <2>5. Fold(h, T) = h[y] + Fold(h, r) /\ Fold(h, r) \in Nat
    BY <2>1, <2>2, SumOut
  <2>6. r \in SUBSET S /\ r \notin Bad
    BY <1>1, <1>2
  <2>7. Fold(h, r) = Fold(f, r) + Fold(g, r)
    BY <2>6
  <2> HIDE DEF Bad, r
  <2> QED  BY <1>2, <2>2, <2>3, <2>4, <2>5, <2>7
<1> QED  BY <1>3, <1>4

\* How many of the indices I hold x.
CountOf(I, seq, x) == Cardinality({i \in I : seq[i] = x})

\* Counting indices value by value counts each index once.
LEMMA SumOfFibres ==
    ASSUME IsSum, NEW S, IsFiniteSet(S), NEW I, IsFiniteSet(I), NEW seq, NEW fun,
           \A x \in S : fun[x] = CountOf(I, seq, x), \A i \in I : seq[i] \in S
    PROVE  Fold(fun, S) = Cardinality(I)
<1>0. {i \in I : seq[i] \in S} = I
  OBVIOUS
<1> USE DEF CountOf
<1> DEFINE At(s) == {i \in I : seq[i] \in s}
           Bad == {s \in SUBSET S : Fold(fun, s) # Cardinality(At(s))}
<1> SUFFICES ASSUME Bad # {} PROVE FALSE
  BY <1>0
<1>1. PICK T \in Bad : \A U \in Bad : U \subseteq T => U = T
  <2>1. Bad \in SUBSET (SUBSET S)
    OBVIOUS
  <2> HIDE DEF Bad
  <2> QED  BY <2>1, LeastSubset
<1>2. T \subseteq S /\ Fold(fun, T) # Cardinality(At(T))
  BY <1>1
<1>3. CASE T = {}
  <2>1. Fold(fun, {}) = 0
    BY SumEmpty
  <2>2. At(T) = {}
    BY <1>3
  <2> QED  BY <1>2, <1>3, <2>1, <2>2, FS_EmptySet
<1>4. ASSUME NEW y \in T PROVE FALSE
  <2> DEFINE r == T \ {y}
             Y == {i \in I : seq[i] = y}
  <2>1. IsFiniteSet(T)
    BY <1>2, FS_Subset
  <2>2. ASSUME NEW x \in S PROVE fun[x] \in Nat
    <3>1. {i \in I : seq[i] = x} \in SUBSET I
      OBVIOUS
    <3>2. IsFiniteSet({i \in I : seq[i] = x})
      BY <3>1, FS_Subset
    <3> QED  BY <3>2, FS_CardinalityType
  <2>3. Fold(fun, T) = fun[y] + Fold(fun, r)
    BY <1>2, <2>1, <2>2, SumOut
  <2>4. r \in SUBSET S /\ r \notin Bad
    BY <1>1, <1>2
  <2>5. Fold(fun, r) = Cardinality(At(r))
    BY <2>4
  <2>6. Y \cup At(r) = At(T) /\ Y \cap At(r) = {} /\ Y \in SUBSET I /\ At(r) \in SUBSET I
    OBVIOUS
  <2>7. fun[y] = Cardinality(Y)
    BY <1>2
  <2> HIDE DEF Bad, r, Y, At
  <2>8. IsFiniteSet(Y) /\ IsFiniteSet(At(r))
    BY <2>6, FS_Subset
  <2>9. Cardinality(At(T)) = Cardinality(Y) + Cardinality(At(r)) - Cardinality({})
    BY <2>6, <2>8, FS_Union
  <2>10. Cardinality(Y) \in Nat /\ Cardinality(At(r)) \in Nat
    BY <2>8, FS_CardinalityType
  <2> QED  BY <1>2, <2>3, <2>5, <2>7, <2>9, <2>10, FS_EmptySet
<1> QED  BY <1>3, <1>4

-----------------------------------------------------------------------------
(* Powers of two, which count subsets. *)

\* The empty set has one subset.
LEMMA PowerOfZero == 2 ^ 0 = 1
<1>1. 1..0 = {} /\ IsFiniteSet({}) /\ Cardinality({}) = 0
  BY FS_EmptySet
<1>2. Cardinality(SUBSET {}) = 2 ^ Cardinality({})
  BY <1>1, FS_SUBSET
<1>3. SUBSET {} = {{}} /\ Cardinality({{}}) = 1
  BY FS_Singleton
<1> QED  BY <1>1, <1>2, <1>3

\* One more element doubles the subsets.
LEMMA PowerDoubles ==
    ASSUME NEW n \in Nat
    PROVE  2 ^ n \in Nat /\ 2 ^ n >= 1 /\ 2 ^ (n + 1) = 2 * 2 ^ n
<1> DEFINE S == 1..n
           e == n + 1
           A == SUBSET S
           B == {x \cup {e} : x \in A}
<1>1. IsFiniteSet(S) /\ Cardinality(S) = n /\ IsFiniteSet(S \cup {e}) /\ Cardinality(S \cup {e}) = n + 1
  <2>1. IsFiniteSet(S) /\ Cardinality(S) = n
    BY FS_Interval
  <2>2. e \notin S
    OBVIOUS
  <2> HIDE DEF S, e
  <2> QED  BY <2>1, <2>2, FS_AddElement DEF e
<1>2. IsFiniteSet(A) /\ Cardinality(A) = 2 ^ n
  BY <1>1, FS_SUBSET
<1>3. Cardinality(SUBSET (S \cup {e})) = 2 ^ (n + 1)
  <2> HIDE DEF S, e
  <2> QED  BY <1>1, FS_SUBSET
<1>4. A \cup B = SUBSET (S \cup {e}) /\ A \cap B = {}
  <2>1. e \notin S
    OBVIOUS
  <2> HIDE DEF S, e
  <2>2. ASSUME NEW x \in SUBSET (S \cup {e}) PROVE x \in A \cup B
    <3>1. CASE e \in x
      <4>1. x = (x \ {e}) \cup {e} /\ x \ {e} \in A
        BY <3>1
      <4> QED  BY <4>1
    <3>2. CASE e \notin x
      BY <3>2
    <3> QED  BY <3>1, <3>2
  <2>3. A \cup B \subseteq SUBSET (S \cup {e})
    OBVIOUS
  <2>4. A \cap B = {}
    BY <2>1
  <2> QED  BY <2>2, <2>3, <2>4
<1>5. IsFiniteSet(B) /\ Cardinality(B) = Cardinality(A)
  <2> DEFINE f == [x \in A |-> x \cup {e}]
  <2>1. e \notin S
    OBVIOUS
  <2> HIDE DEF S, e
  <2>2. f \in [A -> B] /\ \A b \in B : \E x \in A : f[x] = b
    OBVIOUS
  <2>3. \A x, y \in A : f[x] = f[y] => x = y
    <3> SUFFICES ASSUME NEW x \in A, NEW y \in A, f[x] = f[y] PROVE x = y
      OBVIOUS
    <3>1. x \cup {e} = y \cup {e} /\ e \notin x /\ e \notin y
      BY <2>1
    <3> QED  BY <3>1
  <2> HIDE DEF A, B, f
  <2>4. f \in Bijection(A, B)
    BY <2>2, <2>3 DEF Bijection, Injection, Surjection, IsInjective
  <2>5. ExistsBijection(A, B)
    BY <2>4 DEF ExistsBijection
  <2>6. IsFiniteSet(A)
    BY <1>2
  <2> QED  BY ONLY <2>5, <2>6, FS_Bijection
<1>6. Cardinality(A \cup B) = Cardinality(A) + Cardinality(B) - Cardinality({})
  <2> HIDE DEF A, B
  <2> QED  BY <1>2, <1>4, <1>5, FS_Union
<1>7. Cardinality(A) \in Nat /\ A # {}
  BY <1>2, FS_CardinalityType
<1>8. Cardinality(A) # 0
  <2> HIDE DEF A
  <2> QED  BY <1>2, <1>7, FS_EmptySet
<1>9. Cardinality({}) = 0
  BY FS_EmptySet
<1>10. Cardinality(A \cup B) = 2 ^ (n + 1)
  BY <1>3, <1>4
<1> HIDE DEF A, B, S, e
<1>11. 2 ^ (n + 1) = Cardinality(A) + Cardinality(A)
  BY <1>5, <1>6, <1>7, <1>9, <1>10
<1> DEFINE c == Cardinality(A)
<1>12. c \in Nat /\ c # 0 /\ 2 ^ n = c /\ 2 ^ (n + 1) = c + c
  BY <1>2, <1>7, <1>8, <1>11
<1> HIDE DEF c
<1> QED  BY <1>12

\* Powers of two grow with the exponent.
LEMMA PowerGrows ==
    ASSUME NEW k \in Nat, NEW n \in Nat, k <= n
    PROVE  2 ^ k <= 2 ^ n
<1> DEFINE Bad == {j \in Nat : k <= j /\ ~(2 ^ k <= 2 ^ j)}
<1> SUFFICES ASSUME Bad # {} PROVE FALSE
  OBVIOUS
<1>1. PICK j \in Bad : \A i \in Bad : j <= i
  <2>1. Bad \in SUBSET Nat
    OBVIOUS
  <2> HIDE DEF Bad
  <2> QED  BY <2>1, LeastNat
<1>2. j \in Nat /\ k <= j /\ ~(2 ^ k <= 2 ^ j)
  BY <1>1
<1>3. 2 ^ k \in Nat
  BY PowerDoubles
<1>4. j # k
  <2> DEFINE a == 2 ^ k
  <2>1. a \in Nat /\ ~(a <= 2 ^ j)
    BY <1>2, <1>3
  <2> HIDE DEF a
  <2>2. a <= a
    BY <2>1
  <2> QED  BY <2>1, <2>2 DEF a
<1> DEFINE i == j - 1
<1>5. i \in Nat /\ k <= i /\ ~(j <= i) /\ j = i + 1
  BY <1>2, <1>4
<1>6. 2 ^ k <= 2 ^ i
  <2> HIDE DEF i
  <2>1. i \notin Bad
    BY <1>1, <1>5
  <2> QED  BY <1>5, <2>1
<1> HIDE DEF i, Bad
<1>7. 2 ^ i \in Nat /\ 2 ^ j = 2 * 2 ^ i
  BY <1>5, PowerDoubles
<1> DEFINE a == 2 ^ k
           b == 2 ^ i
           c == 2 ^ j
<1>8. a \in Nat /\ b \in Nat /\ a <= b /\ c = 2 * b /\ ~(a <= c)
  BY <1>2, <1>3, <1>6, <1>7
<1> HIDE DEF a, b, c
<1> QED  BY <1>8
=============================================================================
