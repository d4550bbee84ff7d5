----------------------------- MODULE SumTheorems -----------------------------
(***************************************************************************)
(* What Total does for every function with a finite domain and integer     *)
(* values.  The library folds a set one chosen element at a time: a sum is *)
(* the value of a function defined by recursion on the subsets.  Here that *)
(* function is shown to exist and to be unique, and its value to be the    *)
(* same whichever element is taken first; the rest follows.  Induction is  *)
(* on a least subset for which something fails.                            *)
(***************************************************************************)
EXTENDS Totals, FiniteSetTheorems, WellFoundedInduction, TLAPS

First(s) == CHOOSE x \in s : TRUE

StepOf(f, g, s) == IF s = {} THEN 0 ELSE f[First(s)] + g[s \ {First(s)}]

\* g gives every subset of D the sum of f over it.
Sums(f, D, g) == g = [s \in SUBSET D |-> StepOf(f, g, s)]

\* Among the subsets of a finite set for which something holds, one has no
\* proper subset for which it holds.
LEMMA LeastSubset ==
  ASSUME NEW D, IsFiniteSet(D), NEW T, T \subseteq SUBSET D, T # {}
  PROVE  \E s \in T : \A t \in SUBSET s : t # s => t \notin T
<1>1. IsWellFoundedOn(StrictSubsetOrdering(D), SUBSET D)
  BY FS_StrictSubsetOrderingWellFounded, FS_FiniteSubsetsOfFinite
<1>2. PICK s \in T : \A t \in T : ~(<<t, s>> \in StrictSubsetOrdering(D))
  BY <1>1, WFMin
<1> QED  BY <1>2 DEF StrictSubsetOrdering

\* The part of D for which g and h agree is the whole of it.
LEMMA SumsAgree ==
  ASSUME NEW D, IsFiniteSet(D), NEW E, IsFiniteSet(E), NEW f, NEW e, NEW g, NEW h,
         Sums(f, D, g), Sums(e, E, h),
         NEW s \in SUBSET D, s \in SUBSET E, \A x \in s : f[x] = e[x]
  PROVE  g[s] = h[s]
<1> DEFINE T == {t \in SUBSET s : g[t] # h[t]}
<1>1. SUFFICES ASSUME T # {} PROVE FALSE
  OBVIOUS
<1>2. PICK t \in T : \A u \in SUBSET t : u # t => u \notin T
  <2>1. IsFiniteSet(s)
    BY FS_Subset
  <2> HIDE DEF T
  <2>2. T \subseteq SUBSET s
    BY DEF T
  <2> QED  BY <1>1, <2>1, <2>2, LeastSubset
<1>3. t \in SUBSET D /\ t \in SUBSET E /\ t \in SUBSET s
  OBVIOUS
<1>4. g[t] = StepOf(f, g, t) /\ h[t] = StepOf(e, h, t)
  BY <1>3 DEF Sums
<1>5. t # {}
  BY <1>4 DEF StepOf
<1>6. First(t) \in t
  BY <1>5 DEF First
<1>7. g[t \ {First(t)}] = h[t \ {First(t)}]
  BY <1>2, <1>3, <1>6
<1>8. f[First(t)] = e[First(t)]
  BY <1>3, <1>6
<1> QED  BY <1>4, <1>5, <1>7, <1>8 DEF StepOf

LEMMA SumsExist ==
  ASSUME NEW D, IsFiniteSet(D), NEW f
  PROVE  \E g : Sums(f, D, g)
<1> DEFINE T == {s \in SUBSET D : ~\E g : Sums(f, s, g)}
<1>1. SUFFICES ASSUME T # {} PROVE FALSE
  OBVIOUS
<1>2. PICK s \in T : \A t \in SUBSET s : t # s => t \notin T
  <2> HIDE DEF T
  <2>1. T \subseteq SUBSET D
    BY DEF T
  <2> QED  BY <1>1, <2>1, LeastSubset
<1> DEFINE G(t) == CHOOSE g : Sums(f, t, g)
           x    == First(s)
           v(t) == G(t)[t]
           w    == [t \in SUBSET s |-> IF t # s THEN v(t) ELSE IF s = {} THEN 0 ELSE f[x] + v(s \ {x})]
<1>3. ASSUME NEW t \in SUBSET s, t # s PROVE Sums(f, t, G(t))
  <2>1. \E g : Sums(f, t, g)
    BY <1>2, <1>3
  <2> QED  BY <2>1
<1>4. IsFiniteSet(s)
  BY FS_Subset
<1> HIDE DEF G
<1>5. ASSUME NEW t \in SUBSET s PROVE w[t] = StepOf(f, w, t)
  <2>1. CASE t # s
    <3>1. w[t] = G(t)[t]
      BY <2>1
    <3>2. G(t)[t] = StepOf(f, G(t), t)
      BY <1>3, <2>1 DEF Sums
    <3>3. CASE t = {}
      BY <3>1, <3>2, <3>3 DEF StepOf
    <3>4. CASE t # {}
      <4> DEFINE u == t \ {First(t)}
      <4>1. First(t) \in t
        BY <3>4 DEF First
      <4>2. u \in SUBSET t /\ u \in SUBSET s /\ u # s /\ u \in SUBSET u
        BY <2>1, <4>1
      <4>3. IsFiniteSet(t) /\ IsFiniteSet(u)
        BY <1>4, <4>2, FS_Subset
      <4>4. Sums(f, t, G(t)) /\ Sums(f, u, G(u))
        BY <1>3, <2>1, <4>2
      <4>5. G(t)[u] = G(u)[u]
        BY <4>2, <4>3, <4>4, SumsAgree
      <4>6. w[u] = G(u)[u]
        BY <4>2
      <4> QED  BY <3>1, <3>2, <3>4, <4>5, <4>6 DEF StepOf
    <3> QED  BY <3>3, <3>4
  <2>2. CASE t = s
    <3>1. CASE s = {}
      BY <2>2, <3>1 DEF StepOf
    <3>2. CASE s # {}
      <4>1. x \in s
        BY <3>2 DEF First
      <4>2. s \ {x} \in SUBSET s /\ s \ {x} # s
        BY <4>1
      <4>3. w[s \ {x}] = v(s \ {x})
        BY <4>2
      <4>4. w[s] = f[x] + v(s \ {x})
        BY <3>2
      <4> QED  BY <2>2, <3>2, <4>3, <4>4 DEF StepOf
    <3> QED  BY <3>1, <3>2
  <2> QED  BY <2>1, <2>2
<1>6. w = [t \in SUBSET s |-> w[t]]
  OBVIOUS
<1> HIDE DEF w
<1>7. Sums(f, s, w)
  BY <1>5, <1>6 DEF Sums
<1> QED  BY <1>7

\* Whichever element is taken first.
Splits(f, g, s) == g[s] \in Int /\ \A x \in s : g[s] = f[x] + g[s \ {x}]

LEMMA SumsSplit ==
  ASSUME NEW D, IsFiniteSet(D), NEW f \in [D -> Int], NEW g, Sums(f, D, g),
         NEW s \in SUBSET D
  PROVE  Splits(f, g, s)
<1> SUFFICES g[s] \in Int /\ \A x \in s : g[s] = f[x] + g[s \ {x}]
  BY Zenon DEF Splits
<1> DEFINE Good(t) == g[t] \in Int /\ \A x \in t : g[t] = f[x] + g[t \ {x}]
           T == {t \in SUBSET s : ~Good(t)}
<1>1. SUFFICES ASSUME T # {} PROVE FALSE
  OBVIOUS
<1>2. PICK t \in T : \A u \in SUBSET t : u # t => u \notin T
  <2>1. IsFiniteSet(s)
    BY FS_Subset
  <2> HIDE DEF T
  <2>2. T \subseteq SUBSET s
    BY DEF T
  <2> QED  BY <1>1, <2>1, <2>2, LeastSubset
<1>3. t \in SUBSET D /\ ~Good(t)
  OBVIOUS
<1>4. \A u \in SUBSET t : u # t => Good(u)
  BY <1>2
<1>5. \A u \in SUBSET D : g[u] = StepOf(f, g, u)
  BY DEF Sums
<1> DEFINE y == First(t)
<1>6. t # {}
  <2>1. CASE t = {}
    <3>1. g[t] = 0
      BY <1>3, <1>5, <2>1 DEF StepOf
    <3> QED  BY <1>3, <2>1, <3>1
  <2> QED  BY <2>1
<1>7. y \in t
  BY <1>6 DEF First
<1>8. g[t] = f[y] + g[t \ {y}]
  BY <1>3, <1>5, <1>6 DEF StepOf
<1> HIDE DEF y, T
<1>9. Good(t \ {y})
  BY <1>4, <1>7
<1>10. \A z \in t : f[z] \in Int
  BY <1>3
<1>11. g[t] \in Int
  BY <1>7, <1>8, <1>9, <1>10
<1>12. ASSUME NEW x \in t PROVE g[t] = f[x] + g[t \ {x}]
  <2>1. CASE x = y
    BY <1>8, <2>1
  <2>2. CASE x # y
    <3> DEFINE r == t \ {x, y}
    <3>1. r = (t \ {x}) \ {y} /\ r = (t \ {y}) \ {x}
      OBVIOUS
    <3>2. Good(t \ {x}) /\ Good(r)
      BY <1>4, <1>12
    <3>3. x \in t \ {y} /\ y \in t \ {x}
      BY <1>7, <1>12, <2>2
    <3>4. g[t \ {y}] = f[x] + g[r]
      BY <1>9, <3>1, <3>3
    <3>5. g[t \ {x}] = f[y] + g[r]
      BY <3>1, <3>2, <3>3
    <3>6. g[r] \in Int /\ f[x] \in Int /\ f[y] \in Int
      BY <1>7, <1>10, <3>2
    <3> HIDE DEF r, Good
    <3> QED  BY <1>8, <3>4, <3>5, <3>6
  <2> QED  BY <2>1, <2>2
<1> QED  BY <1>3, <1>11, <1>12

-----------------------------------------------------------------------------
(* Total. *)

\* The values of f on a part of its domain.
On(f, D) == [x \in D |-> f[x]]

LEMMA TotalIs ==
  ASSUME NEW D, IsFiniteSet(D), NEW f, DOMAIN f = D
  PROVE  \E g : Sums(f, D, g) /\ Total(f) = g[D]
<1> DEFINE g == CHOOSE g : Sums(f, D, g)
<1>1. Sums(f, D, g)
  BY SumsExist
<1>2. Total(f) = g[D]
  BY Zenon DEF Total, MapThenSumSet, MapThenFoldSet, Sums, StepOf, First
<1> QED  BY <1>1, <1>2

\* The empty sum.
LEMMA TotalOfNone ==
  ASSUME NEW f, DOMAIN f = {}
  PROVE  Total(f) = 0
<1>1. PICK g : Sums(f, {}, g) /\ Total(f) = g[{}]
  BY TotalIs, FS_EmptySet
<1> QED  BY <1>1 DEF Sums, StepOf

\* A sum of integers is one, and any element of it may be taken out.
LEMMA TotalSplits ==
  ASSUME NEW D, IsFiniteSet(D), NEW f \in [D -> Int]
  PROVE  /\ Total(f) \in Int
         /\ \A x \in D : Total(f) = f[x] + Total(On(f, D \ {x}))
<1>1. PICK g : Sums(f, D, g) /\ Total(f) = g[D]
  BY TotalIs
<1>2. ASSUME NEW x \in D PROVE Total(On(f, D \ {x})) = g[D \ {x}]
  <2> DEFINE E == D \ {x}
             e == On(f, E)
  <2>1. IsFiniteSet(E) /\ DOMAIN e = E /\ E \in SUBSET D /\ E \in SUBSET E
    BY FS_Subset DEF On
  <2>2. \A z \in E : f[z] = e[z]
    BY DEF On
  <2> HIDE DEF E, e
  <2>3. PICK h : Sums(e, E, h) /\ Total(e) = h[E]
    BY <2>1, TotalIs
  <2>4. g[E] = h[E]
    BY <1>1, <2>1, <2>2, <2>3, SumsAgree
  <2> QED  BY <2>3, <2>4 DEF e, E
<1>3. D \in SUBSET D
  OBVIOUS
<1>4. g[D] \in Int /\ \A x \in D : g[D] = f[x] + g[D \ {x}]
  <2>1. ASSUME NEW s \in SUBSET D
        PROVE  g[s] \in Int /\ \A x \in s : g[s] = f[x] + g[s \ {x}]
    <3>1. Sums(f, D, g)
      BY <1>1
    <3>2. IsFiniteSet(D) /\ f \in [D -> Int] /\ s \in SUBSET D
      OBVIOUS
    <3>3. Splits(f, g, s)
      BY ONLY <3>1, <3>2, SumsSplit
    <3>4. g[s] \in Int /\ \A x \in s : g[s] = f[x] + g[s \ {x}]
      BY ONLY <3>3, Zenon DEF Splits
    <3> QED  BY <3>3, <3>4
  <2> QED  BY <1>3, <2>1, Zenon
<1> QED  BY <1>1, <1>2, <1>4

LEMMA OnTyped ==
  ASSUME NEW D, NEW E, E \subseteq D, NEW f \in [D -> Int]
  PROVE  On(f, E) \in [E -> Int] /\ \A x \in E : On(f, E)[x] = f[x]
BY DEF On

\* The sum over a part, and an element of it.
LEMMA TotalTakes ==
  ASSUME NEW D, IsFiniteSet(D), NEW f \in [D -> Int], NEW s \in SUBSET D, NEW x \in s
  PROVE  /\ Total(On(f, s)) = f[x] + Total(On(f, s \ {x}))
         /\ Total(On(f, s)) \in Int /\ Total(On(f, s \ {x})) \in Int
<1>1. IsFiniteSet(s) /\ IsFiniteSet(s \ {x})
  BY FS_Subset
<1>2. On(f, s) \in [s -> Int] /\ On(f, s)[x] = f[x] /\ On(f, s \ {x}) \in [s \ {x} -> Int]
  <2>1. s \subseteq D /\ s \ {x} \subseteq D
    OBVIOUS
  <2> QED  BY <2>1 DEF On
<1>3. On(On(f, s), s \ {x}) = On(f, s \ {x})
  BY DEF On
<1> DEFINE k == On(f, s)
<1> HIDE DEF k
<1>4. Total(k) \in Int /\ Total(k) = k[x] + Total(On(k, s \ {x}))
  <2>1. k \in [s -> Int]
    BY <1>2 DEF k
  <2> QED  BY <1>1, <2>1, TotalSplits, Zenon
<1>5. Total(On(f, s \ {x})) \in Int
  BY <1>1, <1>2, TotalSplits
<1> QED  BY <1>2, <1>3, <1>4, <1>5 DEF k

\* An element more.
LEMMA TotalAdds ==
  ASSUME NEW D, IsFiniteSet(D), NEW x, x \notin D, NEW f \in [D \cup {x} -> Int]
  PROVE  Total(f) = f[x] + Total(On(f, D))
<1>1. IsFiniteSet(D \cup {x}) /\ (D \cup {x}) \ {x} = D /\ x \in D \cup {x}
  BY FS_AddElement
<1> DEFINE E == D \cup {x}
<1> HIDE DEF E
<1>2. Total(f) = f[x] + Total(On(f, E \ {x}))
  BY <1>1, TotalSplits DEF E
<1> QED  BY <1>1, <1>2 DEF E

\* Another value for one element.
LEMMA TotalChanges ==
  ASSUME NEW D, IsFiniteSet(D), NEW f \in [D -> Int], NEW h \in [D -> Int], NEW x \in D,
         \A y \in D \ {x} : h[y] = f[y]
  PROVE  Total(h) = Total(f) + h[x] - f[x]
<1>1. On(h, D \ {x}) = On(f, D \ {x})
  BY DEF On
<1>2. Total(f) = f[x] + Total(On(f, D \ {x})) /\ Total(h) = h[x] + Total(On(f, D \ {x}))
  BY <1>1, TotalSplits
<1>3. Total(On(f, D \ {x})) \in Int
  <2>1. IsFiniteSet(D \ {x}) /\ On(f, D \ {x}) \in [D \ {x} -> Int]
    BY FS_Subset, OnTyped
  <2> QED  BY <2>1, TotalSplits
<1> QED  BY <1>2, <1>3

\* Induction for sums: T is all of D's subsets when it has the empty one and,
\* with each, those one element larger.
LEMMA Building ==
  ASSUME NEW D, IsFiniteSet(D), NEW T, {} \in T,
         \A s \in SUBSET D : \A x \in s : s \ {x} \in T => s \in T
  PROVE  D \in T
<1> DEFINE U == {s \in SUBSET D : s \notin T}
<1>1. SUFFICES ASSUME D \notin T PROVE FALSE
  OBVIOUS
<1>2. U \subseteq SUBSET D /\ U # {}
  BY <1>1
<1>3. PICK s \in U : \A t \in SUBSET s : t # s => t \notin U
  <2> HIDE DEF U
  <2> QED  BY <1>2, LeastSubset
<1>4. PICK x \in s : TRUE
  BY <1>3
<1>5. s \ {x} \notin U /\ s \ {x} \in SUBSET D
  BY <1>3, <1>4
<1> QED  BY <1>3, <1>4, <1>5

\* A sum of sums.
LEMMA TotalOfSums ==
  ASSUME NEW D, IsFiniteSet(D), NEW f \in [D -> Int], NEW h \in [D -> Int]
  PROVE  Total([x \in D |-> f[x] + h[x]]) = Total(f) + Total(h)
<1> DEFINE both == [x \in D |-> f[x] + h[x]]
           T == {s \in SUBSET D : Total(On(both, s)) = Total(On(f, s)) + Total(On(h, s))}
<1>1. both \in [D -> Int] /\ \A x \in D : both[x] = f[x] + h[x]
  OBVIOUS
<1> HIDE DEF both
<1>2. {} \in T
  <2>1. \A k : Total(On(k, {})) = 0
    BY TotalOfNone DEF On
  <2> QED  BY <2>1
<1>3. ASSUME NEW s \in SUBSET D, NEW x \in s, s \ {x} \in T PROVE s \in T
  <2>1. IsFiniteSet(s) /\ IsFiniteSet(s \ {x})
    BY FS_Subset
  <2>2. ASSUME NEW k \in [D -> Int]
        PROVE  Total(On(k, s)) = k[x] + Total(On(k, s \ {x})) /\ Total(On(k, s \ {x})) \in Int
    BY TotalTakes
  <2>3. Total(On(both, s \ {x})) = Total(On(f, s \ {x})) + Total(On(h, s \ {x}))
    BY <1>3
  <2>4. both[x] = f[x] + h[x] /\ f[x] \in Int /\ h[x] \in Int
    BY <1>1
  <2>5. /\ Total(On(both, s)) = both[x] + Total(On(both, s \ {x}))
        /\ Total(On(f, s)) = f[x] + Total(On(f, s \ {x}))
        /\ Total(On(h, s)) = h[x] + Total(On(h, s \ {x}))
        /\ Total(On(f, s \ {x})) \in Int /\ Total(On(h, s \ {x})) \in Int
    BY <1>1, <2>2
  <2>6. Total(On(both, s)) = Total(On(f, s)) + Total(On(h, s))
    BY <2>3, <2>4, <2>5
  <2> QED  BY <2>6
<1>4. D \in T
  <2> HIDE DEF T
  <2> QED  BY <1>2, <1>3, Building
<1>5. On(both, D) = both /\ On(f, D) = f /\ On(h, D) = h
  BY <1>1 DEF On
<1> QED  BY <1>4, <1>5 DEF both

\* A sum over two parts.
LEMMA TotalOfParts ==
  ASSUME NEW D, IsFiniteSet(D), NEW E \in SUBSET D, NEW f \in [D -> Int]
  PROVE  Total(f) = Total(On(f, E)) + Total(On(f, D \ E))
<1> DEFINE C == D \ E
           T == {s \in SUBSET C : Total(On(f, E \cup s)) = Total(On(f, E)) + Total(On(f, s))}
<1>1. IsFiniteSet(E) /\ IsFiniteSet(C) /\ On(f, E) \in [E -> Int]
  BY FS_Subset, OnTyped
<1>2. {} \in T
  <2>1. Total(On(f, {})) = 0
    BY TotalOfNone DEF On
  <2>2. Total(On(f, E)) \in Int
    BY <1>1, TotalSplits
  <2>3. E \cup {} = E
    OBVIOUS
  <2> QED  BY <2>1, <2>2, <2>3
<1>3. ASSUME NEW s \in SUBSET C, NEW x \in s, s \ {x} \in T PROVE s \in T
  <2> DEFINE r == s \ {x}
  <2>2. ASSUME NEW u \in SUBSET D, x \in u
        PROVE  Total(On(f, u)) = f[x] + Total(On(f, u \ {x})) /\ Total(On(f, u \ {x})) \in Int
    BY ONLY IsFiniteSet(D), f \in [D -> Int], u \in SUBSET D, <2>2, TotalTakes
  <2>3. (E \cup s) \ {x} = E \cup r /\ E \cup s \in SUBSET D /\ s \in SUBSET D /\ x \in E \cup s
    OBVIOUS
  <2>4. Total(On(f, E \cup s)) = f[x] + Total(On(f, E \cup r))
    BY <2>2, <2>3
  <2>5. Total(On(f, s)) = f[x] + Total(On(f, r)) /\ Total(On(f, r)) \in Int
    BY <2>2, <2>3
  <2>6. Total(On(f, E \cup r)) = Total(On(f, E)) + Total(On(f, r))
    BY <1>3
  <2>7. f[x] \in Int /\ Total(On(f, E)) \in Int
    BY <1>1, <2>3, TotalSplits
  <2> HIDE DEF r, C
  <2>8. Total(On(f, E \cup s)) = Total(On(f, E)) + Total(On(f, s))
    BY <2>4, <2>5, <2>6, <2>7
  <2> QED  BY <2>8
<1>4. C \in T
  <2> HIDE DEF T, C
  <2> QED  BY <1>1, <1>2, <1>3, Building
<1>5. E \cup C = D /\ On(f, D) = f
  BY DEF On
<1> QED  BY <1>4, <1>5

\* A sum of natural numbers is one, and no less than any of them.
LEMMA TotalOfNat ==
  ASSUME NEW D, IsFiniteSet(D), NEW f \in [D -> Nat]
  PROVE  Total(f) \in Nat /\ \A x \in D : f[x] <= Total(f)
<1> DEFINE T == {s \in SUBSET D : Total(On(f, s)) \in Nat}
<1>1. f \in [D -> Int]
  OBVIOUS
<1>2. {} \in T
  <2>1. Total(On(f, {})) = 0
    BY TotalOfNone DEF On
  <2> QED  BY <2>1
<1>3. ASSUME NEW s \in SUBSET D, NEW x \in s, s \ {x} \in T PROVE s \in T
  <2>3. Total(On(f, s)) = f[x] + Total(On(f, s \ {x}))
    BY <1>1, TotalTakes
  <2>4. f[x] \in Nat /\ Total(On(f, s \ {x})) \in Nat
    BY <1>3
  <2> QED  BY <2>3, <2>4
<1>4. \A r \in SUBSET D : r \in T
  <2> SUFFICES ASSUME NEW r \in SUBSET D PROVE r \in T
    OBVIOUS
  <2>1. IsFiniteSet(r)
    BY FS_Subset
  <2>2. \A s \in SUBSET r : \A x \in s : s \ {x} \in T => s \in T
    BY <1>3
  <2> HIDE DEF T
  <2> QED  BY <1>2, <2>1, <2>2, Building
<1>5. On(f, D) = f
  BY DEF On
<1>6. ASSUME NEW x \in D PROVE f[x] <= Total(f)
  <2>1. Total(f) = f[x] + Total(On(f, D \ {x}))
    BY <1>1, TotalSplits
  <2>2. Total(On(f, D \ {x})) \in Nat
    BY <1>4
  <2> QED  BY <2>1, <2>2
<1> QED  BY <1>4, <1>5, <1>6

\* The same values under other names: b tells an element of E by its name in D, and h has the values of f by name.
Renaming(b, D, E) ==
  /\ \A x \in D : b[x] \in E
  /\ \A x, y \in D : b[x] = b[y] => x = y
  /\ \A z \in E : \E x \in D : b[x] = z
Renamed(b, f, h) == \A x \in DOMAIN h : h[x] = f[b[x]]

LEMMA TotalRenamed ==
  ASSUME NEW D, IsFiniteSet(D), NEW E, NEW b, Renaming(b, D, E),
         NEW f \in [E -> Int], NEW h \in [D -> Int], Renamed(b, f, h)
  PROVE  IsFiniteSet(E) /\ Total(f) = Total(h)
<1> DEFINE image(s) == {b[x] : x \in s}
           T == {s \in SUBSET D : IsFiniteSet(image(s)) /\ Total(On(f, image(s))) = Total(On(h, s))}
<1>1. h \in [D -> Int] /\ \A x \in D : h[x] = f[b[x]] /\ b[x] \in E
  BY DEF Renaming, Renamed
<1>2. {} \in T
  <2>1. \A k : Total(On(k, {})) = 0
    BY TotalOfNone DEF On
  <2>2. image({}) = {}
    OBVIOUS
  <2> QED  BY <2>1, <2>2, FS_EmptySet
<1>3. ASSUME NEW s \in SUBSET D, NEW x \in s, s \ {x} \in T PROVE s \in T
  <2> DEFINE i == image(s \ {x})
  <2>1. image(s) = i \cup {b[x]} /\ b[x] \notin i /\ i \subseteq E /\ image(s) \subseteq E
    BY DEF Renaming
  <2>2. IsFiniteSet(i) /\ Total(On(f, i)) = Total(On(h, s \ {x}))
    BY <1>3
  <2>3. IsFiniteSet(s)
    BY FS_Subset
  <2> HIDE DEF image, i
  <2>4. IsFiniteSet(i \cup {b[x]})
    BY <2>2, FS_AddElement
  <2>5. /\ On(f, i \cup {b[x]}) \in [i \cup {b[x]} -> Int]
        /\ On(f, i \cup {b[x]})[b[x]] = f[b[x]]
        /\ On(On(f, i \cup {b[x]}), i) = On(f, i)
    <3>1. i \cup {b[x]} \subseteq E
      BY <2>1
    <3>2. On(On(f, i \cup {b[x]}), i) = On(f, i)
      BY DEF On
    <3>3. b[x] \in i \cup {b[x]}
      OBVIOUS
    <3>4. f \in [E -> Int]
      OBVIOUS
    <3>5. /\ On(f, i \cup {b[x]}) \in [i \cup {b[x]} -> Int]
          /\ \A z \in i \cup {b[x]} : On(f, i \cup {b[x]})[z] = f[z]
      <4> DEFINE I == i \cup {b[x]}
      <4>1. I \subseteq E
        BY <3>1
      <4> HIDE DEF I
      <4>2. On(f, I) \in [I -> Int] /\ \A z \in I : On(f, I)[z] = f[z]
        <5>1. \A z \in I : f[z] \in Int
          BY ONLY <3>4, <4>1
        <5>2. On(f, I) = [z \in I |-> f[z]]
          BY ONLY Zenon DEF On
        <5> QED  BY ONLY <5>1, <5>2, Zenon
      <4> QED  BY ONLY <4>2, Zenon DEF I
    <3> QED  BY ONLY <3>2, <3>3, <3>5, Zenon
  <2>6. Total(On(f, i \cup {b[x]})) = f[b[x]] + Total(On(f, i))
    <3> DEFINE k == On(f, i \cup {b[x]})
    <3> HIDE DEF k
    <3>1. k \in [i \cup {b[x]} -> Int]
      BY <2>5 DEF k
    <3>2. Total(k) = k[b[x]] + Total(On(k, i))
      BY <2>1, <2>2, <3>1, TotalAdds, Zenon
    <3> QED  BY <2>5, <3>2 DEF k
  <2>7. On(h, s) \in [s -> Int] /\ On(h, s)[x] = h[x] /\ On(On(h, s), s \ {x}) = On(h, s \ {x})
    BY <1>1, OnTyped DEF On
  <2>8. Total(On(h, s)) = h[x] + Total(On(h, s \ {x}))
    BY <2>3, <2>7, TotalSplits
  <2> QED  BY <1>1, <2>1, <2>2, <2>4, <2>6, <2>8
<1>4. D \in T
  <2> HIDE DEF T
  <2> QED  BY <1>2, <1>3, Building
<1>5. image(D) = E
  BY DEF Renaming
<1>6. On(f, E) = f /\ On(h, D) = h
  BY <1>1 DEF On
<1> QED  BY <1>4, <1>5, <1>6

\* A sum of one.
LEMMA TotalOfOne ==
  ASSUME NEW x, NEW f, DOMAIN f = {x}, f[x] \in Int
  PROVE  Total(f) = f[x]
<1> DEFINE g == [y \in {x} |-> f[x]]
<1>1. IsFiniteSet({x}) /\ g \in [{x} -> Int]
  BY FS_Singleton
<1>2. Total(g) = g[x] + Total(On(g, {x} \ {x}))
  BY <1>1, TotalSplits
<1>3. Total(On(g, {x} \ {x})) = 0
  BY TotalOfNone DEF On
<1>4. Total(g) = f[x]
  BY <1>2, <1>3
<1> HIDE DEF g
<1>5. PICK a, b : Sums(f, {x}, a) /\ Total(f) = a[{x}] /\ Sums(g, {x}, b) /\ Total(g) = b[{x}]
  BY <1>1, TotalIs
<1>6. \A y \in {x} : f[y] = g[y]
  BY DEF g
<1>7. a[{x}] = b[{x}]
  BY <1>1, <1>5, <1>6, SumsAgree
<1> QED
  BY <1>4, <1>5, <1>7

\* A sum of zeros, and of the opposites.
LEMMA TotalOfZeros ==
  ASSUME NEW D, IsFiniteSet(D), NEW f, f = [x \in D |-> 0]
  PROVE  Total(f) = 0
<1>1. f \in [D -> Int] /\ [x \in D |-> f[x] + f[x]] = f
  OBVIOUS
<1>2. Total([x \in D |-> f[x] + f[x]]) = Total(f) + Total(f)
  BY <1>1, TotalOfSums
<1>3. Total(f) = Total(f) + Total(f)
  BY ONLY <1>1, <1>2, Zenon
<1> DEFINE t == Total(f)
<1>4. t \in Int
  BY <1>1, TotalSplits
<1>5. t = t + t
  BY <1>3
<1> HIDE DEF t
<1>6. t = 0
  BY ONLY <1>4, <1>5
<1> QED
  BY <1>6 DEF t

LEMMA TotalOfMinus ==
  ASSUME NEW D, IsFiniteSet(D), NEW f \in [D -> Int], NEW h, h = [x \in D |-> -f[x]]
  PROVE  Total(h) = -Total(f)
<1>1. h \in [D -> Int]
  OBVIOUS
<1> DEFINE z == [x \in D |-> f[x] + h[x]]
<1>2. z = [x \in D |-> 0]
  OBVIOUS
<1>3. Total([x \in D |-> f[x] + h[x]]) = Total(f) + Total(h)
  BY ONLY IsFiniteSet(D), f \in [D -> Int], <1>1, TotalOfSums, Zenon
<1>4. Total(f) \in Int
  BY TotalSplits
<1>5. Total(h) \in Int
  BY <1>1, TotalSplits
<1>6. Total(z) = Total(f) + Total(h)
  BY <1>3
<1> HIDE DEF z
<1>7. Total(z) = 0
  BY <1>2, TotalOfZeros
<1> QED
  BY <1>4, <1>5, <1>6, <1>7

\* What a set has more than another, disjoint from it.
LEMMA TotalOfUnion ==
  ASSUME NEW S, NEW U, IsFiniteSet(S), IsFiniteSet(U), S \cap U = {},
         NEW g \in [S \cup U -> Int]
  PROVE  Total(g) = Total(On(g, S)) + Total(On(g, U))
<1> DEFINE D == S \cup U
<1>1. IsFiniteSet(D) /\ g \in [D -> Int] /\ S \in SUBSET D
  BY FS_Union
<1>2. D \ S = U
  OBVIOUS
<1> HIDE DEF D
<1>3. Total(g) = Total(On(g, S)) + Total(On(g, D \ S))
  BY <1>1, TotalOfParts
<1> QED
  BY <1>2, <1>3

\* Any part, and any element of it.
Takes(h, I) ==
  \A s \in SUBSET I : \A i \in s :
    Total(On(h, s)) = h[i] + Total(On(h, s \ {i})) /\ Total(On(h, s \ {i})) \in Int

LEMMA TakesAny ==
  ASSUME NEW I, IsFiniteSet(I), NEW h \in [I -> Int]
  PROVE  Takes(h, I)
<1>1. ASSUME NEW s \in SUBSET I, NEW i \in s
      PROVE  Total(On(h, s)) = h[i] + Total(On(h, s \ {i})) /\ Total(On(h, s \ {i})) \in Int
  BY TotalTakes
<1> QED
  BY <1>1 DEF Takes

\* A sum taken part by part, b telling an element's part: h has the sums of the
\* parts.
Fibres(f, b, h) ==
  /\ \A d \in DOMAIN f : b[d] \in DOMAIN h
  /\ \A i \in DOMAIN h : h[i] = Total(On(f, {d \in DOMAIN f : b[d] = i}))

LEMMA TotalOfFibres ==
  ASSUME NEW D, IsFiniteSet(D), NEW I, IsFiniteSet(I), NEW b, NEW f \in [D -> Int],
         NEW h \in [I -> Int], Fibres(f, b, h)
  PROVE  Total(f) = Total(h)
<1> DEFINE part(i) == {d \in D : b[d] = i}
           over(s) == {d \in D : b[d] \in s}
           T == {s \in SUBSET I : Total(On(f, over(s))) = Total(On(h, s))}
<1>1. \A s : IsFiniteSet(over(s)) /\ over(s) \in SUBSET D /\ On(f, over(s)) \in [over(s) -> Int]
  BY FS_Subset, OnTyped
<1>2. \A i : IsFiniteSet(part(i)) /\ On(f, part(i)) \in [part(i) -> Int]
  BY FS_Subset, OnTyped
<1>b. ASSUME NEW s \in SUBSET I, NEW i \in s
      PROVE  Total(On(h, s)) = h[i] + Total(On(h, s \ {i})) /\ Total(On(h, s \ {i})) \in Int
  <2>1. Takes(h, I)
    BY TakesAny
  <2> QED  BY <2>1 DEF Takes
<1>3. \A i \in I : h[i] = Total(On(f, part(i)))
  BY DEF Fibres
<1>4. {} \in T
  <2>1. over({}) = {}
    OBVIOUS
  <2>2. Total(On(f, over({}))) = 0 /\ Total(On(h, {})) = 0
    BY <2>1, TotalOfNone DEF On
  <2> QED  BY <2>2
<1>5. ASSUME NEW s \in SUBSET I, NEW i \in s, s \ {i} \in T
      PROVE  s \in T
  <2> DEFINE r == s \ {i}
             V == over(r)
             W == part(i)
             g == On(f, over(s))
  <2>1. Total(On(h, s)) = h[i] + Total(On(h, s \ {i})) /\ Total(On(h, s \ {i})) \in Int
    BY <1>b
  <2>2. over(s) = V \cup W /\ V \cap W = {} /\ i \in I
    OBVIOUS
  <2>3. On(g, V) = On(f, V) /\ On(g, W) = On(f, W)
    BY <2>2 DEF On
  <2>4. Total(On(f, V)) = Total(On(h, r))
    BY <1>5
  <2>5. h[i] = Total(On(f, W))
    BY <1>3
  <2>7. IsFiniteSet(V) /\ IsFiniteSet(W) /\ g \in [over(s) -> Int]
    BY <1>1, <1>2
  <2>8. Total(g) = Total(On(g, V)) + Total(On(g, W))
    <3> HIDE DEF V, W, g, over, part
    <3> QED  BY <2>2, <2>7, TotalOfUnion
  <2>9. Total(g) = Total(On(f, V)) + Total(On(f, W))
    BY <2>3, <2>8
  <2>10. h[i] \in Int
    BY <2>2
  <2>11. Total(g) = Total(On(h, s))
    <3> HIDE DEF g, V, W, T, over, part
    <3> QED  BY <2>1, <2>4, <2>5, <2>9, <2>10 DEF r
  <2> QED  BY <2>11
<1>6. I \in T
  <2> HIDE DEF T
  <2> QED  BY <1>4, <1>5, Building
<1>7. over(I) = D
  BY DEF Fibres
<1>8. On(f, D) = f /\ On(h, I) = h
  BY DEF On
<1>9. Total(On(f, over(I))) = Total(On(h, I))
  BY <1>6
<1> HIDE DEF over
<1> QED
  BY <1>7, <1>8, <1>9
=============================================================================
