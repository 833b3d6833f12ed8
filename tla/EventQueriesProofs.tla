-------------------------- MODULE EventQueriesProofs --------------------------
(***************************************************************************)
(* Proofs about EventQueries for every content, range and clock, and every *)
(* number of rows.                                                         *)
(***************************************************************************)
EXTENDS EventQueries, FiniteSetTheorems, SequenceTheorems, WellFoundedInduction, TLAPS

LEMMA LeastNatural ==
  ASSUME NEW T \in SUBSET Nat, T /= {}
  PROVE  \E d \in T : \A y \in T : ~ (y < d)
<1>1. PICK d \in T : \A y \in T : <<y, d>> \notin OpToRel(<, Nat)
  BY WFMin, NatLessThanWellFounded, Zenon
<1>2. \A y \in T : ~ (y < d)
  BY <1>1, Zenon DEF OpToRel
<1> QED
  BY <1>2, Zenon

\* A family of subsets of a finite set has a member that leaves the family
\* whichever element it loses: induction over finite sets.
LEMMA SmallestSet ==
  ASSUME NEW D, IsFiniteSet(D), NEW W \in SUBSET (SUBSET D), W /= {}
  PROVE  \E T \in W : \A x \in T : T \ {x} \notin W
<1> DEFINE sizes == {Cardinality(T) : T \in W}
<1>1. \A T \in W : IsFiniteSet(T) /\ Cardinality(T) \in Nat
  <2> SUFFICES ASSUME NEW T \in W PROVE IsFiniteSet(T) /\ Cardinality(T) \in Nat
    OBVIOUS
  <2>1. T \in SUBSET D
    OBVIOUS
  <2> QED
    BY <2>1, FS_Subset, FS_CardinalityType
<1>2. sizes \in SUBSET Nat /\ sizes /= {}
  BY <1>1
<1>3. PICK d \in sizes : \A y \in sizes : ~ (y < d)
  <2> HIDE DEF sizes
  <2> QED
    BY <1>2, LeastNatural
<1>4. PICK T \in W : Cardinality(T) = d
  BY <1>3
<1>5. ASSUME NEW x \in T, T \ {x} \in W PROVE FALSE
  <2>1. Cardinality(T \ {x}) = Cardinality(T) - 1
    BY <1>1, <1>4, FS_RemoveElement
  <2>2. Cardinality(T \ {x}) \in sizes
    BY <1>5
  <2>3. ~ (Cardinality(T \ {x}) < d)
    BY <1>3, <2>2
  <2> QED
    BY <1>1, <1>4, <2>1, <2>3
<1> QED
  BY <1>4, <1>5

-----------------------------------------------------------------------------
(* Sums over finite sets.                                                   *)

Pick(s) == CHOOSE x \in s : TRUE

\* g holds the sums of f over the subsets of T that have at most k elements.
SumsUpTo(f, T, k, g) ==
  g = [s \in SUBSET T |->
         IF s = {} \/ Cardinality(s) > k THEN 0 ELSE f[Pick(s)] + g[s \ {Pick(s)}]]

\* g is what the fold computes: the sums of f over all the subsets of T.
Sums(f, T, g) ==
  g = [s \in SUBSET T |-> IF s = {} THEN 0 ELSE f[Pick(s)] + g[s \ {Pick(s)}]]

LEMMA SumIs ==
  ASSUME NEW f, NEW T
  PROVE  SumFunctionOnSet(f, T) = (CHOOSE g : Sums(f, T, g))[T]
BY DEF SumFunctionOnSet, FoldFunctionOnSet, MapThenFoldSet, Sums, Pick

LEMMA SumsUpToExist ==
  ASSUME NEW f, NEW T, IsFiniteSet(T), NEW k \in Nat
  PROVE  \E g : SumsUpTo(f, T, k, g)
<1> DEFINE wrong == {n \in Nat : \A g : ~ SumsUpTo(f, T, n, g)}
<1> SUFFICES ASSUME wrong /= {} PROVE FALSE
  OBVIOUS
<1>1. PICK d \in wrong : \A y \in wrong : ~ (y < d)
  <2>1. wrong \in SUBSET Nat
    OBVIOUS
  <2> HIDE DEF wrong
  <2> QED
    BY <2>1, LeastNatural
<1>2. \A s \in SUBSET T : /\ Cardinality(s) \in Nat
                          /\ s /= {} => /\ s \ {Pick(s)} \in SUBSET T
                                        /\ Cardinality(s \ {Pick(s)}) = Cardinality(s) - 1
                                        /\ Cardinality(s) > 0
  <2> SUFFICES ASSUME NEW s \in SUBSET T
               PROVE  /\ Cardinality(s) \in Nat
                      /\ s /= {} => /\ s \ {Pick(s)} \in SUBSET T
                                    /\ Cardinality(s \ {Pick(s)}) = Cardinality(s) - 1
                                    /\ Cardinality(s) > 0
    OBVIOUS
  <2>1. IsFiniteSet(s) /\ Cardinality(s) \in Nat
    BY FS_Subset, FS_CardinalityType
  <2>2. CASE s /= {}
    <3>1. Pick(s) \in s
      BY <2>2 DEF Pick
    <3>2. Cardinality(s \ {Pick(s)}) = Cardinality(s) - 1
      BY <2>1, <3>1, FS_RemoveElement
    <3>3. Cardinality(s) /= 0
      BY <2>1, <2>2, FS_EmptySet
    <3> QED
      BY <2>1, <3>2, <3>3
  <2> QED
    BY <2>1, <2>2
<1>3. d /= 0
  <2>1. PICK g : g = [s \in SUBSET T |-> 0]
    OBVIOUS
  <2>2. g = [s \in SUBSET T |->
               IF s = {} \/ Cardinality(s) > 0 THEN 0 ELSE f[Pick(s)] + g[s \ {Pick(s)}]]
    BY <1>2, <2>1
  <2>3. SumsUpTo(f, T, 0, g)
    BY <2>2 DEF SumsUpTo
  <2> QED
    BY <1>1, <2>3
<1>4. PICK m \in Nat : m = d - 1
  BY <1>1, <1>3
<1>5. PICK h : SumsUpTo(f, T, m, h)
  BY <1>1, <1>4
<1>6. PICK g : g = [s \in SUBSET T |-> IF Cardinality(s) <= m THEN h[s]
                                       ELSE IF s = {} \/ Cardinality(s) > d THEN 0
                                       ELSE f[Pick(s)] + h[s \ {Pick(s)}]]
  OBVIOUS
<1>7. ASSUME NEW s \in SUBSET T
      PROVE  g[s] = IF s = {} \/ Cardinality(s) > d THEN 0
                    ELSE f[Pick(s)] + g[s \ {Pick(s)}]
  <2>1. h[s] = IF s = {} \/ Cardinality(s) > m THEN 0
               ELSE f[Pick(s)] + h[s \ {Pick(s)}]
    BY <1>5 DEF SumsUpTo
  <2>2. CASE s = {}
    BY <1>6, <2>1, <2>2
  <2>3. CASE s /= {} /\ Cardinality(s) > d
    <3>1. PICK c \in Nat : c = Cardinality(s)
      BY <1>2
    <3>2. d \in Nat /\ ~ (c <= m)
      BY <1>1, <1>4, <2>3, <3>1
    <3>3. g[s] = 0
      BY <1>6, <2>3, <3>1, <3>2
    <3> QED
      BY <2>3, <3>3
  <2>4. CASE s /= {} /\ ~ (Cardinality(s) > d)
    <3>1. g[s \ {Pick(s)}] = h[s \ {Pick(s)}]
      BY <1>1, <1>2, <1>4, <1>6, <2>4
    <3>2. g[s] = f[Pick(s)] + h[s \ {Pick(s)}]
      BY <1>1, <1>2, <1>4, <1>6, <2>1, <2>4
    <3> QED
      BY <2>4, <3>1, <3>2
  <2> QED
    BY <2>2, <2>3, <2>4
<1>8. SumsUpTo(f, T, d, g)
  <2>1. g = [s \in SUBSET T |-> g[s]]
    BY <1>6
  <2> QED
    BY <1>7, <2>1 DEF SumsUpTo
<1> QED
  BY <1>1, <1>8

LEMMA SumsExist ==
  ASSUME NEW f, NEW T, IsFiniteSet(T)
  PROVE  \E g : Sums(f, T, g)
<1>1. PICK k \in Nat : k = Cardinality(T)
  BY FS_CardinalityType
<1>2. PICK g : SumsUpTo(f, T, k, g)
  BY SumsUpToExist
<1>3. \A s \in SUBSET T : Cardinality(s) \in Nat /\ ~ (Cardinality(s) > k)
  <2> SUFFICES ASSUME NEW s \in SUBSET T
               PROVE  Cardinality(s) \in Nat /\ ~ (Cardinality(s) > k)
    OBVIOUS
  <2> QED
    BY <1>1, FS_Subset, FS_CardinalityType
<1> QED
  BY <1>2, <1>3 DEF SumsUpTo, Sums

\* A fold over part of T is the same whichever set it is a part of.
LEMMA SumsAgree ==
  ASSUME NEW f, NEW T, IsFiniteSet(T), NEW g, Sums(f, T, g),
         NEW U \in SUBSET T, NEW h, Sums(f, U, h)
  PROVE  h[U] = g[U]
<1> DEFINE W == {s \in SUBSET U : h[s] /= g[s]}
<1> SUFFICES ASSUME W /= {} PROVE FALSE
  OBVIOUS
<1>1. IsFiniteSet(U)
  BY FS_Subset
<1>2. PICK s \in W : \A x \in s : s \ {x} \notin W
  <2>1. W \in SUBSET (SUBSET U)
    OBVIOUS
  <2> HIDE DEF W
  <2> QED
    BY <1>1, <2>1, SmallestSet
<1>3. /\ h[s] = IF s = {} THEN 0 ELSE f[Pick(s)] + h[s \ {Pick(s)}]
      /\ g[s] = IF s = {} THEN 0 ELSE f[Pick(s)] + g[s \ {Pick(s)}]
  <2>1. s \in SUBSET U /\ s \in SUBSET T
    OBVIOUS
  <2> QED
    BY <2>1 DEF Sums
<1>4. s /= {} /\ Pick(s) \in s
  BY <1>3 DEF Pick
<1>5. h[s \ {Pick(s)}] = g[s \ {Pick(s)}]
  <2>1. s \ {Pick(s)} \notin W
    BY <1>2, <1>4
  <2> QED
    BY <2>1
<1> QED
  BY <1>3, <1>5

\* The sum is what the recursion says.
LEMMA SumStep ==
  ASSUME NEW f, NEW T, IsFiniteSet(T)
  PROVE  SumFunctionOnSet(f, T) =
           IF T = {} THEN 0
           ELSE f[Pick(T)] + SumFunctionOnSet(f, T \ {Pick(T)})
<1>1. PICK g : g = CHOOSE x : Sums(f, T, x)
  OBVIOUS
<1>2. Sums(f, T, g)
  BY <1>1, SumsExist
<1>3. SumFunctionOnSet(f, T) = g[T]
  BY <1>1, SumIs
<1>4. CASE T = {}
  BY <1>2, <1>3, <1>4 DEF Sums
<1>5. CASE T /= {}
  <2>1. PICK U \in SUBSET T : U = T \ {Pick(T)}
    OBVIOUS
  <2>2. IsFiniteSet(U)
    BY FS_Subset
  <2>3. PICK h : h = CHOOSE x : Sums(f, U, x)
    OBVIOUS
  <2>4. Sums(f, U, h)
    BY <2>2, <2>3, SumsExist
  <2>5. SumFunctionOnSet(f, U) = h[U]
    BY <2>3, SumIs
  <2>6. h[U] = g[U]
    BY <1>2, <2>4, SumsAgree
  <2>7. g[T] = f[Pick(T)] + g[T \ {Pick(T)}]
    BY <1>2, <1>5 DEF Sums
  <2> QED
    BY <1>3, <1>5, <2>1, <2>5, <2>6, <2>7
<1> QED
  BY <1>4, <1>5

LEMMA SumEmpty ==
  ASSUME NEW f
  PROVE  SumFunctionOnSet(f, {}) = 0
BY SumStep, FS_EmptySet

LEMMA SumNat ==
  ASSUME NEW D, IsFiniteSet(D), NEW f \in [D -> Nat], NEW T \in SUBSET D
  PROVE  SumFunctionOnSet(f, T) \in Nat
<1> DEFINE W == {s \in SUBSET D : SumFunctionOnSet(f, s) \notin Nat}
<1> SUFFICES ASSUME W /= {} PROVE FALSE
  OBVIOUS
<1>2. PICK s \in W : \A x \in s : s \ {x} \notin W
  <2>1. W \in SUBSET (SUBSET D)
    OBVIOUS
  <2> HIDE DEF W
  <2> QED
    BY <2>1, SmallestSet
<1>3. s \in SUBSET D /\ IsFiniteSet(s)
  BY FS_Subset
<1>4. CASE s = {}
  BY <1>4, SumEmpty
<1>5. CASE s /= {}
  <2>1. Pick(s) \in s
    BY <1>5 DEF Pick
  <2>2. SumFunctionOnSet(f, s) = f[Pick(s)] + SumFunctionOnSet(f, s \ {Pick(s)})
    BY <1>3, <1>5, SumStep
  <2>3. s \ {Pick(s)} \notin W /\ s \ {Pick(s)} \in SUBSET D
    BY <1>2, <2>1
  <2>4. SumFunctionOnSet(f, s \ {Pick(s)}) \in Nat /\ f[Pick(s)] \in Nat
    BY <2>1, <2>3
  <2> QED
    BY <2>2, <2>4
<1> QED
  BY <1>4, <1>5

\* Any element can be taken out first.
LEMMA SumRemove ==
  ASSUME NEW D, IsFiniteSet(D), NEW f \in [D -> Nat], NEW T \in SUBSET D, NEW e \in T
  PROVE  SumFunctionOnSet(f, T) = f[e] + SumFunctionOnSet(f, T \ {e})
<1> DEFINE W == {s \in SUBSET D :
                   \E x \in s : SumFunctionOnSet(f, s) /= f[x] + SumFunctionOnSet(f, s \ {x})}
<1> SUFFICES ASSUME W /= {} PROVE FALSE
  OBVIOUS
<1>2. PICK s \in W : \A x \in s : s \ {x} \notin W
  <2>1. W \in SUBSET (SUBSET D)
    OBVIOUS
  <2> HIDE DEF W
  <2> QED
    BY <2>1, SmallestSet
<1>3. s \in SUBSET D /\ IsFiniteSet(s)
  BY FS_Subset
<1>4. PICK x \in s : SumFunctionOnSet(f, s) /= f[x] + SumFunctionOnSet(f, s \ {x})
  OBVIOUS
<1>5. PICK y \in s : y = Pick(s)
  BY <1>4 DEF Pick
<1>6. SumFunctionOnSet(f, s) = f[y] + SumFunctionOnSet(f, s \ {y})
  BY <1>3, <1>4, <1>5, SumStep
<1>7. x /= y
  BY <1>4, <1>6
<1>8. PICK u \in SUBSET D : u = (s \ {y}) \ {x}
  OBVIOUS
<1>9. SumFunctionOnSet(f, s \ {y}) = f[x] + SumFunctionOnSet(f, u)
  <2>1. s \ {y} \in SUBSET D /\ s \ {y} \notin W /\ x \in s \ {y}
    BY <1>2, <1>7
  <2> QED
    BY <1>8, <2>1
<1>10. SumFunctionOnSet(f, s \ {x}) = f[y] + SumFunctionOnSet(f, u)
  <2>1. s \ {x} \in SUBSET D /\ s \ {x} \notin W /\ y \in s \ {x}
    BY <1>2, <1>7
  <2>2. u = (s \ {x}) \ {y}
    BY <1>8
  <2> QED
    BY <2>1, <2>2
<1>11. f[x] \in Nat /\ f[y] \in Nat /\ SumFunctionOnSet(f, u) \in Nat
  BY SumNat
<1> QED
  BY <1>4, <1>6, <1>9, <1>10, <1>11

LEMMA SumMonotonic ==
  ASSUME NEW D, IsFiniteSet(D), NEW f \in [D -> Nat], NEW g \in [D -> Nat],
         \A x \in D : f[x] <= g[x], NEW T \in SUBSET D
  PROVE  SumFunctionOnSet(f, T) <= SumFunctionOnSet(g, T)
<1> DEFINE W == {s \in SUBSET D : ~ (SumFunctionOnSet(f, s) <= SumFunctionOnSet(g, s))}
<1> SUFFICES ASSUME W /= {} PROVE FALSE
  OBVIOUS
<1>2. PICK s \in W : \A x \in s : s \ {x} \notin W
  <2>1. W \in SUBSET (SUBSET D)
    OBVIOUS
  <2> HIDE DEF W
  <2> QED
    BY <2>1, SmallestSet
<1>3. CASE s = {}
  BY <1>3, SumEmpty
<1>4. CASE s /= {}
  <2>1. PICK x \in s : TRUE
    BY <1>4
  <2>2. PICK u \in SUBSET D : u = s \ {x}
    OBVIOUS
  <2>3. SumFunctionOnSet(f, u) <= SumFunctionOnSet(g, u)
    BY <1>2, <2>2
  <2>4. /\ SumFunctionOnSet(f, s) = f[x] + SumFunctionOnSet(f, u)
        /\ SumFunctionOnSet(g, s) = g[x] + SumFunctionOnSet(g, u)
    BY <2>2, SumRemove
  <2>5. /\ SumFunctionOnSet(f, u) \in Nat /\ SumFunctionOnSet(g, u) \in Nat
        /\ f[x] \in Nat /\ g[x] \in Nat /\ f[x] <= g[x]
    BY SumNat
  <2> QED
    BY <2>3, <2>4, <2>5
<1> QED
  BY <1>3, <1>4

\* A sum of n terms that are at most m is at most m * n.
LEMMA SumBound ==
  ASSUME NEW D, IsFiniteSet(D), NEW f \in [D -> Nat], NEW m \in Nat,
         \A x \in D : f[x] <= m, NEW T \in SUBSET D
  PROVE  SumFunctionOnSet(f, T) <= m * Cardinality(T)
<1> DEFINE W == {s \in SUBSET D : ~ (SumFunctionOnSet(f, s) <= m * Cardinality(s))}
<1> SUFFICES ASSUME W /= {} PROVE FALSE
  OBVIOUS
<1>2. PICK s \in W : \A x \in s : s \ {x} \notin W
  <2>1. W \in SUBSET (SUBSET D)
    OBVIOUS
  <2> HIDE DEF W
  <2> QED
    BY <2>1, SmallestSet
<1>3. CASE s = {}
  BY <1>3, SumEmpty, FS_EmptySet
<1>4. CASE s /= {}
  <2>1. PICK x \in s : TRUE
    BY <1>4
  <2>2. PICK u \in SUBSET D : u = s \ {x}
    OBVIOUS
  <2>3. SumFunctionOnSet(f, u) <= m * Cardinality(u)
    BY <1>2, <2>2
  <2>4. SumFunctionOnSet(f, s) = f[x] + SumFunctionOnSet(f, u)
    BY <2>2, SumRemove
  <2>5. SumFunctionOnSet(f, u) \in Nat /\ f[x] \in Nat /\ f[x] <= m
    BY SumNat
  <2>6. IsFiniteSet(s) /\ IsFiniteSet(u)
    <3>1. s \in SUBSET D
      OBVIOUS
    <3> QED
      BY <3>1, FS_Subset
  <2>7. Cardinality(u) \in Nat /\ Cardinality(s) = Cardinality(u) + 1
    <3>1. x \notin u /\ s = u \cup {x}
      BY <2>2
    <3> QED
      BY <2>6, <3>1, FS_AddElement, FS_CardinalityType
  <2>8. m * (Cardinality(u) + 1) = m * Cardinality(u) + m
    BY <2>7
  <2>9. m * Cardinality(u) \in Nat
    BY <2>7
  <2> HIDE DEF W
  <2>10. SumFunctionOnSet(f, s) <= m * Cardinality(s)
    BY <2>3, <2>4, <2>5, <2>7, <2>8, <2>9
  <2> USE DEF W
  <2> QED
    BY <2>10
<1> QED
  BY <1>3, <1>4

LEMMA DisjointCount ==
  ASSUME NEW A, NEW B, IsFiniteSet(A), IsFiniteSet(B), A \cap B = {}
  PROVE  Cardinality(A \cup B) = Cardinality(A) + Cardinality(B)
<1>1. Cardinality(A \cup B) = Cardinality(A) + Cardinality(B) - Cardinality(A \cap B)
  BY FS_Union
<1>2. Cardinality(A \cap B) = 0
  BY FS_EmptySet
<1>3. Cardinality(A) \in Nat /\ Cardinality(B) \in Nat
  BY FS_CardinalityType
<1> QED
  BY <1>1, <1>2, <1>3

\* Rows counted key by key are counted once each.
LEMMA CountByKey ==
  ASSUME NEW S, IsFiniteSet(S), NEW K, IsFiniteSet(K), NEW key, NEW c \in [K -> Nat],
         \A k \in K : c[k] = Cardinality({r \in S : key[r] = k}), NEW T \in SUBSET K
  PROVE  SumFunctionOnSet(c, T) = Cardinality({r \in S : key[r] \in T})
<1> DEFINE W == {t \in SUBSET K :
                   SumFunctionOnSet(c, t) /= Cardinality({r \in S : key[r] \in t})}
<1> SUFFICES ASSUME W /= {} PROVE FALSE
  OBVIOUS
<1>2. PICK t \in W : \A x \in t : t \ {x} \notin W
  <2>1. W \in SUBSET (SUBSET K)
    OBVIOUS
  <2> HIDE DEF W
  <2> QED
    BY <2>1, SmallestSet
<1>3. CASE t = {}
  <2>1. {r \in S : key[r] \in t} = {}
    BY <1>3
  <2> QED
    BY <1>3, <2>1, SumEmpty, FS_EmptySet
<1>4. CASE t /= {}
  <2>1. PICK x \in t : TRUE
    BY <1>4
  <2>2. PICK u \in SUBSET K : u = t \ {x}
    OBVIOUS
  <2>3. PICK A : A = {r \in S : key[r] = x}
    OBVIOUS
  <2>4. PICK B : B = {r \in S : key[r] \in u}
    OBVIOUS
  <2>5. {r \in S : key[r] \in t} = A \cup B /\ A \cap B = {}
    BY <2>2, <2>3, <2>4
  <2>6. IsFiniteSet(A) /\ IsFiniteSet(B)
    BY <2>3, <2>4, FS_Subset
  <2>7. Cardinality(A \cup B) = Cardinality(A) + Cardinality(B)
    BY <2>5, <2>6, DisjointCount
  <2>8. SumFunctionOnSet(c, u) = Cardinality(B)
    BY <1>2, <2>2, <2>4
  <2>9. SumFunctionOnSet(c, t) = c[x] + SumFunctionOnSet(c, u)
    BY <2>2, SumRemove
  <2>10. c[x] = Cardinality(A)
    BY <2>3
  <2> QED
    BY <2>5, <2>7, <2>8, <2>9, <2>10
<1> QED
  BY <1>3, <1>4

-----------------------------------------------------------------------------
(* The greatest number of a finite set.                                     *)

LEMMA MaxIs ==
  ASSUME NEW S \in SUBSET Nat, IsFiniteSet(S), S /= {}
  PROVE  Max(S) \in S /\ \A x \in S : x <= Max(S)
<1> DEFINE W == {s \in SUBSET S : s /= {} /\ \A m \in s : \E x \in s : ~ (x <= m)}
<1>1. W = {}
  <2> SUFFICES ASSUME W /= {} PROVE FALSE
    OBVIOUS
  <2>1. PICK s \in W : \A x \in s : s \ {x} \notin W
    <3>1. W \in SUBSET (SUBSET S)
      OBVIOUS
    <3> HIDE DEF W
    <3> QED
      BY <3>1, SmallestSet
  <2>2. PICK x \in s : TRUE
    OBVIOUS
  <2>3. PICK y \in s : ~ (y <= x)
    OBVIOUS
  <2>4. PICK m \in s \ {x} : \A z \in s \ {x} : z <= m
    BY <2>1, <2>2, <2>3
  <2>5. m \in Nat /\ x \in Nat /\ y \in Nat /\ y <= m
    BY <2>2, <2>3, <2>4
  <2>6. \A z \in s : z <= m
    BY <2>3, <2>4, <2>5
  <2> QED
    BY <2>4, <2>6
<1>2. \E m \in S : \A x \in S : x <= m
  BY <1>1
<1>3. \E m \in S : \A x \in S : m >= x
  BY <1>2
<1>4. Max(S) \in S /\ \A x \in S : Max(S) >= x
  BY <1>3 DEF Max
<1> QED
  BY <1>4

LEMMA MinOfTwo ==
  ASSUME NEW a \in Int, NEW b \in Int
  PROVE  Min({a, b}) = IF a <= b THEN a ELSE b
BY DEF Min

LEMMA FiniteImage ==
  ASSUME NEW S, IsFiniteSet(S), NEW f, DOMAIN f = S, f = [x \in S |-> f[x]]
  PROVE  IsFiniteSet({f[x] : x \in S})
<1> DEFINE R == {f[x] : x \in S}
<1>1. f \in Surjection(S, R)
  BY DEF Surjection
<1> HIDE DEF R
<1>2. IsFiniteSet(R)
  BY <1>1, FS_Surjection
<1> QED
  BY <1>2 DEF R

-----------------------------------------------------------------------------
(* The threat of a period.                                                  *)

\* Rows as far as their scores go.
Scored(S) == IsFiniteSet(S) /\ \A r \in S : r.score \in Nat

\* The greatest score of a set of rows.
Gravest(S) == Max({0} \cup {r.score : r \in S})

LEMMA GravestIs ==
  ASSUME NEW S, Scored(S)
  PROVE  /\ Gravest(S) \in Nat
         /\ Gravest(S) \in {0} \cup {r.score : r \in S}
         /\ \A r \in S : r.score <= Gravest(S)
<1> DEFINE f == [r \in S |-> r.score]
           R == {f[r] : r \in S}
<1>1. IsFiniteSet(S) /\ \A r \in S : r.score \in Nat
  BY DEF Scored
<1>2. IsFiniteSet(R)
  BY <1>1, FiniteImage
<1>3. R = {r.score : r \in S}
  OBVIOUS
<1>4. PICK M : M = {0} \cup {r.score : r \in S}
  OBVIOUS
<1>5. IsFiniteSet(M) /\ M \in SUBSET Nat /\ M /= {}
  <2>1. M = R \cup {0}
    BY <1>3, <1>4
  <2>2. IsFiniteSet(R \cup {0})
    <3> HIDE DEF R
    <3> QED
      BY <1>2, FS_AddElement
  <2> QED
    BY <1>1, <1>4, <2>1, <2>2
<1>6. Max(M) \in M /\ \A x \in M : x <= Max(M)
  BY <1>5, MaxIs
<1>7. Gravest(S) = Max(M)
  BY <1>4 DEF Gravest
<1> QED
  BY <1>4, <1>5, <1>6, <1>7

\* What the gauge and the level are, given a sum and a number of scores that
\* are at most m.
LEMMA LevelOfScores ==
  ASSUME NEW n \in Nat, NEW sum \in Nat, NEW m \in Nat, sum <= m * n
  PROVE  /\ Level(sum, n).gauge \in 0 .. 100
         /\ n = 0 => Level(sum, n) = [gauge |-> 0, level |-> "faible"]
         /\ Level(sum, n).level = "critique" => m >= 6
         /\ Level(sum, n).level = "eleve" => m >= 3
         /\ n = 1 /\ sum >= 10 => Level(sum, n).level = "critique"
<1>1. PICK b \in 0 .. 15 : b = IF n > Many THEN 15 ELSE IF n > Several THEN 8 ELSE 0
  OBVIOUS
<1>2. PICK g : g = IF n = 0 THEN 0 ELSE Min({100, (10 * sum + b * n) \div n})
  OBVIOUS
<1>3. Level(sum, n) = [gauge |-> g, level |-> LevelOf(g)]
  BY <1>1, <1>2 DEF Level
<1>4. CASE n = 0
  <2>1. g = 0
    BY <1>2, <1>4
  <2>2. Level(sum, n) = [gauge |-> 0, level |-> "faible"]
    BY <1>3, <2>1 DEF LevelOf
  <2> QED
    BY <1>4, <2>2
<1>5. CASE n /= 0
  <2>1. PICK a \in Nat : a = 10 * sum + b * n
    <3>1. b * n \in Nat
      OBVIOUS
    <3> QED
      BY <3>1
  <2>2. PICK q \in Nat : q = a \div n
    BY <1>5
  <2>3. g = IF 100 <= q THEN 100 ELSE q
    BY <1>2, <1>5, <2>1, <2>2, MinOfTwo
  <2>4. g \in 0 .. 100 /\ g <= q
    BY <2>3
  <2>5. \A k \in {40, 70} : q >= k => a >= k * n
    BY <1>5, <2>2
  <2>6. \A k \in {40, 70} : a >= k * n => 10 * m + 15 >= k
    <3>1. a <= (10 * m + 15) * n
      <4>1. 10 * sum <= 10 * (m * n) /\ m * n \in Nat
        OBVIOUS
      <4>2. b * n <= 15 * n
        OBVIOUS
      <4>3. (10 * m + 15) * n = 10 * (m * n) + 15 * n
        OBVIOUS
      <4>4. b * n \in Nat /\ 15 * n \in Nat
        OBVIOUS
      <4> QED
        BY <2>1, <4>1, <4>2, <4>3, <4>4
    <3> SUFFICES ASSUME NEW k \in {40, 70}, a >= k * n PROVE 10 * m + 15 >= k
      OBVIOUS
    <3>2. k * n <= (10 * m + 15) * n
      BY <3>1
    <3> QED
      BY <1>5, <3>2
  <2>7. Level(sum, n).level = "critique" => g >= 70
    BY <1>3, <2>4 DEF LevelOf
  <2>8. Level(sum, n).level = "eleve" => g >= 40
    BY <1>3, <2>4 DEF LevelOf
  <2>9. n = 1 /\ sum >= 10 => Level(sum, n).level = "critique"
    <3> SUFFICES ASSUME n = 1, sum >= 10 PROVE Level(sum, n).level = "critique"
      OBVIOUS
    <3>1. a >= 100
      <4>1. b * n \in Nat
        OBVIOUS
      <4> QED
        BY <2>1, <4>1
    <3>2. q = a
      BY <2>2
    <3>3. g = 100
      BY <2>3, <3>1, <3>2
    <3> QED
      BY <1>3, <3>3 DEF LevelOf
  <2>10. Level(sum, n).gauge = g
    BY <1>3
  <2>11. g >= 70 => m >= 6
    BY <2>4, <2>5, <2>6
  <2>12. g >= 40 => m >= 3
    BY <2>4, <2>5, <2>6
  <2> QED
    BY <1>5, <2>4, <2>7, <2>8, <2>9, <2>10, <2>11, <2>12
<1> QED
  BY <1>4, <1>5

\* A threat says what LevelHasCause says of it.
LEMMA ThreatHasCause ==
  ASSUME NEW S, Scored(S), NEW t, t = Threat(S)
  PROVE  /\ t.level.gauge \in 0 .. 100
         /\ t.attacks = 0 => t.level = [gauge |-> 0, level |-> "faible"]
         /\ t.level.level = "critique" => t.max >= 6
         /\ t.level.level = "eleve" => t.max >= 3
         /\ t.max >= 10 /\ t.attacks = 1 => t.level.level = "critique"
<1>1. PICK f : f = [r \in S |-> r.score]
  OBVIOUS
<1>2. PICK sum : sum = SumFunction([r \in S |-> r.score])
  OBVIOUS
<1>3. IsFiniteSet(S) /\ f \in [S -> Nat] /\ S \in SUBSET S
  BY <1>1 DEF Scored
<1>4. sum = SumFunctionOnSet(f, S)
  BY <1>1, <1>2 DEF SumFunction
<1>5. sum \in Nat
  BY <1>3, <1>4, SumNat
<1>6. PICK n \in Nat : n = Cardinality(S)
  BY <1>3, FS_CardinalityType
<1>7. PICK m \in Nat : m = Gravest(S)
  BY GravestIs
<1>8. \A r \in S : f[r] <= m
  BY <1>1, <1>7, GravestIs
<1>9. sum <= m * n
  BY <1>3, <1>4, <1>6, <1>8, SumBound
<1>10. t.attacks = n /\ t.max = m /\ t.level = Level(sum, n)
  BY <1>2, <1>6, <1>7 DEF Threat, Gravest
<1>11. n = 1 /\ m >= 10 => sum >= 10
  <2> SUFFICES ASSUME n = 1, m >= 10 PROVE sum >= 10
    OBVIOUS
  <2>1. PICK x : S = {x}
    BY <1>3, <1>6, FS_Singleton
  <2>2. m = f[x]
    <3>1. m \in {0} \cup {r.score : r \in S}
      BY <1>7, GravestIs
    <3> QED
      BY <1>1, <2>1, <3>1
  <2>3. SumFunctionOnSet(f, S) = f[x] + SumFunctionOnSet(f, S \ {x})
    BY <1>3, <2>1, SumRemove
  <2>4. S \ {x} = {}
    BY <2>1
  <2> QED
    BY <1>4, <2>2, <2>3, <2>4, SumEmpty
<1> QED
  BY <1>5, <1>9, <1>10, <1>11, LevelOfScores

-----------------------------------------------------------------------------
(* The table.                                                               *)

RowOK(r) ==
  /\ r.id \in Nat \ {0}
  /\ r.ts \in Nat
  /\ r.verdict \in {"allowed", "detected", "blocked"}
  /\ r.score \in Nat
  /\ IsFiniteSet(r.cats)
  /\ r.verdict /= "allowed" => r.cats /= {}

\* The clock is on its scale; the rows are finitely many, each with a number
\* of its own that the sequence has given.
TableOK ==
  /\ now \in Nat
  /\ nextId \in Nat \ {0}
  /\ IsFiniteSet(events)
  /\ \A r \in events : RowOK(r) /\ r.id < nextId
  /\ \A r, q \in events : r.id = q.id => r = q

LEMMA TableInit == Init => TableOK
<1> SUFFICES ASSUME Init PROVE TableOK
  OBVIOUS
<1>1. now \in Nat /\ nextId = 1 /\ events = {}
  BY ClockAssumption DEF Init
<1> QED
  BY <1>1, FS_EmptySet DEF TableOK

LEMMA TableInsert ==
  ASSUME TableOK, NEW c \in Content, Insert(c)
  PROVE  TableOK'
<1>1. PICK x : x = [id |-> nextId, ts |-> now, app |-> c.app, ip |-> c.ip,
                    path |-> c.path, verdict |-> c.verdict,
                    score |-> c.score, cats |-> c.cats]
  OBVIOUS
<1>2. events' = events \cup {x} /\ nextId' = nextId + 1 /\ now' = now
  BY <1>1 DEF Insert
<1>3. RowOK(x) /\ x.id = nextId
  BY <1>1, ContentAssumption DEF RowOK, TableOK
<1>4. IsFiniteSet(events')
  BY <1>2, FS_AddElement DEF TableOK
<1>5. ASSUME NEW r \in events' PROVE RowOK(r) /\ r.id < nextId'
  <2>1. CASE r = x
    BY <1>2, <1>3, <2>1 DEF TableOK
  <2>2. CASE r \in events
    <3>1. RowOK(r) /\ r.id < nextId /\ r.id \in Nat
      BY <2>2 DEF TableOK, RowOK
    <3> QED
      BY <1>2, <3>1 DEF TableOK
  <2> QED
    BY <1>2, <2>1, <2>2
<1>6. ASSUME NEW r \in events', NEW q \in events', r.id = q.id PROVE r = q
  <2>1. \A y \in events : y.id < nextId /\ y.id \in Nat
    BY DEF TableOK, RowOK
  <2>2. nextId \in Nat
    BY DEF TableOK
  <2> QED
    BY <1>2, <1>3, <1>6, <2>1, <2>2 DEF TableOK
<1> QED
  BY <1>2, <1>4, <1>5, <1>6 DEF TableOK

LEMMA TablePurge ==
  ASSUME TableOK, events' \subseteq events, UNCHANGED <<now, nextId>>
  PROVE  TableOK'
<1>1. IsFiniteSet(events')
  BY FS_Subset DEF TableOK
<1> QED
  BY <1>1 DEF TableOK

\* The kinds of steps, as far as the table goes.
LEMMA StepKinds ==
  ASSUME Next
  PROVE  \/ UNCHANGED <<now, events, nextId>>
         \/ \E c \in Content : Insert(c)
         \/ events' \subseteq events /\ UNCHANGED <<now, nextId>>
         \/ ClockMoves
<1>1. CASE \E app \in AppFilter, rng \in Ranges : Analytics(app, rng)
  BY <1>1 DEF Analytics
<1>2. CASE PurgeByAge \/ PurgeByCount
  BY <1>2 DEF PurgeByAge, PurgeByCount
<1> QED
  BY <1>1, <1>2 DEF Next, QueryTimeSeries, QueryByCategory, QueryTopIPs, QueryTopPaths,
                    QueryVerdicts, QueryThreat

LEMMA TableNext ==
  ASSUME TableOK, [Next]_vars
  PROVE  TableOK'
<1>1. CASE UNCHANGED <<now, events, nextId>>
  BY <1>1 DEF TableOK
<1>2. ASSUME NEW c \in Content, Insert(c) PROVE TableOK'
  BY <1>2, TableInsert
<1>3. CASE events' \subseteq events /\ UNCHANGED <<now, nextId>>
  BY <1>3, TablePurge
<1>4. CASE ClockMoves
  BY <1>4, ClockAssumption DEF ClockMoves, TableOK
<1>5. CASE UNCHANGED vars
  BY <1>1, <1>5 DEF vars
<1> QED
  BY <1>1, <1>2, <1>3, <1>4, <1>5, StepKinds

-----------------------------------------------------------------------------
(* The report.                                                              *)

Parts == {"timeseries", "by_category", "top_ips", "top_paths", "verdicts", "threat"}
Fields == {"pc", "app", "rng", "since", "failed"} \cup Parts

\* The parts a report has not got to yet.
Ahead(stage) ==
  CASE stage \in {"none", "timeseries"} -> Parts
    [] stage = "by_category" -> Parts \ {"timeseries"}
    [] stage = "top_ips" -> {"top_ips", "top_paths", "verdicts", "threat"}
    [] stage = "top_paths" -> {"top_paths", "verdicts", "threat"}
    [] stage = "verdicts" -> {"verdicts", "threat"}
    [] stage = "threat" -> {"threat"}
    [] OTHER -> {}

\* A part that has not been asked for is not there.
ReportOK ==
  /\ DOMAIN report = Fields
  /\ \A x \in Ahead(report.pc) : report[x] = <<>>

\* What the query of part p does, once its stage is over.
Moves(p, stage) ==
  /\ DOMAIN report' = Fields
  /\ report'.pc = stage
  /\ report'.app = report.app
  /\ report'.rng = report.rng
  /\ \A x \in Parts \ {p} : report'[x] = report[x]

LEMMA AnsweredMoves ==
  ASSUME ReportOK, NEW p \in Parts, p \in Ahead(report.pc), NEW values, NEW stage,
         Answered(p, values, stage)
  PROVE  /\ Moves(p, stage)
         /\ report'.since = report.since
         /\ report'[p] = <<>> \/ \E v \in values : report'[p] = <<v>>
<1>1. /\ DOMAIN report = Fields /\ report[p] = <<>>
      /\ p \in Fields /\ p \notin {"pc", "app", "rng", "since", "failed"}
  BY DEF ReportOK, Fields, Parts
<1>2. ASSUME NEW v \in values, report' = [report EXCEPT ![p] = <<v>>, !.pc = stage]
      PROVE  Moves(p, stage) /\ report'.since = report.since /\ report'[p] = <<v>>
  BY <1>1, <1>2 DEF Moves, Fields, Parts
<1>3. ASSUME report' = [report EXCEPT !.pc = stage, !.failed = @ + 1]
      PROVE  Moves(p, stage) /\ report'.since = report.since /\ report'[p] = <<>>
  BY <1>1, <1>3 DEF Moves, Fields, Parts
<1> QED
  BY <1>2, <1>3 DEF Answered

\* The six queries, each with what it may find.
LEMMA QueryMoves ==
  ASSUME ReportOK
  PROVE  /\ QueryTimeSeries =>
              /\ report.pc = "timeseries" /\ Moves("timeseries", "by_category")
              /\ report'.since = {}
              /\ report'.timeseries \in {<<>>, <<TimeSeries(report.app, report.rng)>>}
         /\ QueryByCategory =>
              /\ report.pc = "by_category" /\ Moves("by_category", "top_ips")
              /\ report'.since = report.since
              /\ report'.by_category \in {<<>>, <<ByCategory(report.app, report.rng)>>}
         /\ QueryTopIPs =>
              /\ report.pc = "top_ips" /\ Moves("top_ips", "top_paths")
              /\ report'.since = report.since
              /\ \/ report'.top_ips = <<>>
                 \/ \E v \in TopIPs(report.app, report.rng) : report'.top_ips = <<v>>
         /\ QueryTopPaths =>
              /\ report.pc = "top_paths" /\ Moves("top_paths", "verdicts")
              /\ report'.since = report.since
              /\ \/ report'.top_paths = <<>>
                 \/ \E v \in TopPaths(report.app, report.rng) : report'.top_paths = <<v>>
         /\ QueryVerdicts =>
              /\ report.pc = "verdicts" /\ Moves("verdicts", "threat")
              /\ report'.since = report.since
              /\ report'.verdicts \in {<<>>, <<Stats(report.app)>>}
         /\ QueryThreat =>
              /\ report.pc = "threat" /\ Moves("threat", "answered")
              /\ report'.since = report.since
              /\ \E S \in {{}, Attacks(Period(report.app, report.rng))} :
                   report'.threat = <<Threat(S)>>
<1>1. DOMAIN report = Fields
  BY DEF ReportOK
<1>2. ASSUME QueryTimeSeries
      PROVE  /\ report.pc = "timeseries" /\ Moves("timeseries", "by_category")
             /\ report'.since = {}
             /\ report'.timeseries \in {<<>>, <<TimeSeries(report.app, report.rng)>>}
  <2>1. PICK part \in {<<TimeSeries(report.app, report.rng)>>}
                        \cup {<<>> : f \in report.failed + 1 .. MaxFailures} :
          report' = [report EXCEPT !.timeseries = part, !.pc = "by_category",
                                   !.since = {}, !.failed = @ + 1 - Len(part)]
    BY <1>2 DEF QueryTimeSeries
  <2>2. part \in {<<>>, <<TimeSeries(report.app, report.rng)>>}
    BY <2>1
  <2>3. report'.timeseries = part /\ report'.since = {}
    BY <1>1, <2>1 DEF Fields, Parts
  <2>4. Moves("timeseries", "by_category")
    BY <1>1, <2>1 DEF Moves, Fields, Parts
  <2>5. report.pc = "timeseries"
    BY <1>2 DEF QueryTimeSeries
  <2> QED
    BY <2>2, <2>3, <2>4, <2>5
<1>3. ASSUME QueryByCategory
      PROVE  /\ report.pc = "by_category" /\ Moves("by_category", "top_ips")
             /\ report'.since = report.since
             /\ report'.by_category \in {<<>>, <<ByCategory(report.app, report.rng)>>}
  <2>1. /\ report.pc = "by_category"
        /\ Answered("by_category", {ByCategory(report.app, report.rng)}, "top_ips")
    BY <1>3 DEF QueryByCategory
  <2>2. "by_category" \in Ahead(report.pc) /\ "by_category" \in Parts
    BY <2>1 DEF Ahead, Parts
  <2>3. PICK V : V = {ByCategory(report.app, report.rng)}
    OBVIOUS
  <2>4. Answered("by_category", V, "top_ips")
    BY <2>1, <2>3
  <2>5. /\ Moves("by_category", "top_ips") /\ report'.since = report.since
        /\ report'["by_category"] = <<>> \/ \E v \in V : report'["by_category"] = <<v>>
    BY <2>2, <2>4, AnsweredMoves
  <2> QED
    BY <2>1, <2>3, <2>5
<1>4. ASSUME QueryTopIPs
      PROVE  /\ report.pc = "top_ips" /\ Moves("top_ips", "top_paths")
             /\ report'.since = report.since
             /\ \/ report'.top_ips = <<>>
                \/ \E v \in TopIPs(report.app, report.rng) : report'.top_ips = <<v>>
  <2>1. /\ report.pc = "top_ips"
        /\ Answered("top_ips", TopIPs(report.app, report.rng), "top_paths")
    BY <1>4 DEF QueryTopIPs
  <2>2. "top_ips" \in Ahead(report.pc) /\ "top_ips" \in Parts
    BY <2>1 DEF Ahead, Parts
  <2>3. PICK V : V = TopIPs(report.app, report.rng)
    OBVIOUS
  <2>4. Answered("top_ips", V, "top_paths")
    BY <2>1, <2>3
  <2>5. /\ Moves("top_ips", "top_paths") /\ report'.since = report.since
        /\ report'["top_ips"] = <<>> \/ \E v \in V : report'["top_ips"] = <<v>>
    BY <2>2, <2>4, AnsweredMoves
  <2> QED
    BY <2>1, <2>3, <2>5
<1>5. ASSUME QueryTopPaths
      PROVE  /\ report.pc = "top_paths" /\ Moves("top_paths", "verdicts")
             /\ report'.since = report.since
             /\ \/ report'.top_paths = <<>>
                \/ \E v \in TopPaths(report.app, report.rng) : report'.top_paths = <<v>>
  <2>1. /\ report.pc = "top_paths"
        /\ Answered("top_paths", TopPaths(report.app, report.rng), "verdicts")
    BY <1>5 DEF QueryTopPaths
  <2>2. "top_paths" \in Ahead(report.pc) /\ "top_paths" \in Parts
    BY <2>1 DEF Ahead, Parts
  <2>3. PICK V : V = TopPaths(report.app, report.rng)
    OBVIOUS
  <2>4. Answered("top_paths", V, "verdicts")
    BY <2>1, <2>3
  <2>5. /\ Moves("top_paths", "verdicts") /\ report'.since = report.since
        /\ report'["top_paths"] = <<>> \/ \E v \in V : report'["top_paths"] = <<v>>
    BY <2>2, <2>4, AnsweredMoves
  <2> QED
    BY <2>1, <2>3, <2>5
<1>6. ASSUME QueryVerdicts
      PROVE  /\ report.pc = "verdicts" /\ Moves("verdicts", "threat")
             /\ report'.since = report.since
             /\ report'.verdicts \in {<<>>, <<Stats(report.app)>>}
  <2>1. /\ report.pc = "verdicts"
        /\ Answered("verdicts", {Stats(report.app)}, "threat")
    BY <1>6 DEF QueryVerdicts
  <2>2. "verdicts" \in Ahead(report.pc) /\ "verdicts" \in Parts
    BY <2>1 DEF Ahead, Parts
  <2>3. PICK V : V = {Stats(report.app)}
    OBVIOUS
  <2>4. Answered("verdicts", V, "threat")
    BY <2>1, <2>3
  <2>5. /\ Moves("verdicts", "threat") /\ report'.since = report.since
        /\ report'["verdicts"] = <<>> \/ \E v \in V : report'["verdicts"] = <<v>>
    BY <2>2, <2>4, AnsweredMoves
  <2> QED
    BY <2>1, <2>3, <2>5
<1>7. ASSUME QueryThreat
      PROVE  /\ report.pc = "threat" /\ Moves("threat", "answered")
             /\ report'.since = report.since
             /\ \E S \in {{}, Attacks(Period(report.app, report.rng))} :
                  report'.threat = <<Threat(S)>>
  <2>1. PICK S \in {Attacks(Period(report.app, report.rng))}
                     \cup {{} : f \in report.failed + 1 .. MaxFailures} :
          report' = [report EXCEPT !.threat = <<Threat(S)>>, !.pc = "answered"]
    BY <1>7 DEF QueryThreat
  <2>2. S \in {{}, Attacks(Period(report.app, report.rng))}
    BY <2>1
  <2>3. report'.threat = <<Threat(S)>> /\ report'.since = report.since
    BY <1>1, <2>1 DEF Fields, Parts
  <2>4. Moves("threat", "answered")
    BY <1>1, <2>1 DEF Moves, Fields, Parts
  <2>5. report.pc = "threat"
    BY <1>7 DEF QueryThreat
  <2> QED
    BY <2>2, <2>3, <2>4, <2>5
<1> QED
  BY <1>2, <1>3, <1>4, <1>5, <1>6, <1>7, Zenon

\* A new report has no part yet.
Begun ==
  /\ DOMAIN report' = Fields
  /\ report'.pc = "timeseries"
  /\ \A x \in Parts : report'[x] = <<>>

\* The table or the clock changes under a report, which notes it.
Disturbed(what) ==
  /\ DOMAIN report' = Fields
  /\ report'.pc = report.pc
  /\ report'.app = report.app
  /\ report'.rng = report.rng
  /\ \A x \in Parts : report'[x] = report[x]
  /\ report'.since = report.since \cup {what}

LEMMA NotedDisturbs ==
  ASSUME ReportOK, NEW what, report' = Noted(what)
  PROVE  Disturbed(what)
<1>1. DOMAIN report = Fields
  BY DEF ReportOK
<1>2. report' = [report EXCEPT !.since = @ \cup {what}]
  BY DEF Noted
<1> QED
  BY <1>1, <1>2 DEF Disturbed, Fields, Parts

Queries == \/ QueryTimeSeries \/ QueryByCategory \/ QueryTopIPs
           \/ QueryTopPaths \/ QueryVerdicts \/ QueryThreat

\* The kinds of steps, as far as the report goes.
LEMMA ReportSteps ==
  ASSUME ReportOK, Next
  PROVE  \/ Begun
         \/ Queries /\ UNCHANGED <<now, events, nextId>>
         \/ \E c \in Content : Insert(c) /\ Disturbed("insert")
         \/ events' \subseteq events /\ UNCHANGED <<now, nextId>> /\ Disturbed("purge")
         \/ ClockMoves /\ UNCHANGED events /\ Disturbed("clock")
<1>1. ASSUME NEW app \in AppFilter, NEW rng \in Ranges, Analytics(app, rng)
      PROVE  Begun
  <2>1. report' = [NoReport EXCEPT !.pc = "timeseries", !.app = app, !.rng = rng]
    BY <1>1 DEF Analytics
  <2> QED
    BY <2>1 DEF NoReport, Begun, Fields, Parts
<1>2. CASE Queries
  BY <1>2 DEF Queries, QueryTimeSeries, QueryByCategory, QueryTopIPs, QueryTopPaths,
              QueryVerdicts, QueryThreat
<1>3. ASSUME NEW c \in Content, Insert(c) PROVE Disturbed("insert")
  BY <1>3, NotedDisturbs DEF Insert
<1>4. CASE PurgeByAge \/ PurgeByCount
  <2>1. events' \subseteq events /\ UNCHANGED <<now, nextId>> /\ report' = Noted("purge")
    BY <1>4 DEF PurgeByAge, PurgeByCount
  <2> QED
    BY <2>1, NotedDisturbs
<1>5. CASE ClockMoves
  <2>1. UNCHANGED events /\ report' = Noted("clock")
    BY <1>5 DEF ClockMoves
  <2> QED
    BY <1>5, <2>1, NotedDisturbs
<1>6. \/ \E app \in AppFilter, rng \in Ranges : Analytics(app, rng)
      \/ Queries
      \/ \E c \in Content : Insert(c)
      \/ PurgeByAge \/ PurgeByCount
      \/ ClockMoves
  BY Zenon DEF Next, Queries
<1> QED
  BY <1>1, <1>2, <1>3, <1>4, <1>5, <1>6, Zenon

LEMMA MovesReportOK ==
  ASSUME ReportOK, NEW p \in Parts, NEW stage, Moves(p, stage),
         Ahead(stage) \subseteq Ahead(report.pc) \ {p}, Ahead(report.pc) \subseteq Parts
  PROVE  ReportOK'
<1>1. \A x \in Ahead(stage) : report'[x] = <<>>
  BY DEF ReportOK, Moves
<1>2. DOMAIN report' = Fields /\ report'.pc = stage
  BY DEF Moves
<1>3. \A x \in Ahead(report'.pc) : report'[x] = <<>>
  BY <1>1, <1>2
<1> QED
  BY <1>2, <1>3 DEF ReportOK, Ahead

LEMMA QueriesReportOK ==
  ASSUME ReportOK, Queries
  PROVE  ReportOK'
<1>1. CASE QueryTimeSeries
  <2>1. report.pc = "timeseries" /\ Moves("timeseries", "by_category")
    BY <1>1, QueryMoves
  <2>2. /\ Ahead("by_category") \subseteq Ahead("timeseries") \ {"timeseries"}
        /\ Ahead("timeseries") \subseteq Parts /\ "timeseries" \in Parts
    BY DEF Ahead, Parts
  <2> QED
    BY <2>1, <2>2, MovesReportOK
<1>2. CASE QueryByCategory
  <2>1. report.pc = "by_category" /\ Moves("by_category", "top_ips")
    BY <1>2, QueryMoves
  <2>2. /\ Ahead("top_ips") \subseteq Ahead("by_category") \ {"by_category"}
        /\ Ahead("by_category") \subseteq Parts /\ "by_category" \in Parts
    BY DEF Ahead, Parts
  <2> QED
    BY <2>1, <2>2, MovesReportOK
<1>3. CASE QueryTopIPs
  <2>1. report.pc = "top_ips" /\ Moves("top_ips", "top_paths")
    BY <1>3, QueryMoves
  <2>2. /\ Ahead("top_paths") \subseteq Ahead("top_ips") \ {"top_ips"}
        /\ Ahead("top_ips") \subseteq Parts /\ "top_ips" \in Parts
    BY DEF Ahead, Parts
  <2> QED
    BY <2>1, <2>2, MovesReportOK
<1>4. CASE QueryTopPaths
  <2>1. report.pc = "top_paths" /\ Moves("top_paths", "verdicts")
    BY <1>4, QueryMoves
  <2>2. /\ Ahead("verdicts") \subseteq Ahead("top_paths") \ {"top_paths"}
        /\ Ahead("top_paths") \subseteq Parts /\ "top_paths" \in Parts
    BY DEF Ahead, Parts
  <2> QED
    BY <2>1, <2>2, MovesReportOK
<1>5. CASE QueryVerdicts
  <2>1. report.pc = "verdicts" /\ Moves("verdicts", "threat")
    BY <1>5, QueryMoves
  <2>2. /\ Ahead("threat") \subseteq Ahead("verdicts") \ {"verdicts"}
        /\ Ahead("verdicts") \subseteq Parts /\ "verdicts" \in Parts
    BY DEF Ahead, Parts
  <2> QED
    BY <2>1, <2>2, MovesReportOK
<1>6. CASE QueryThreat
  <2>1. report.pc = "threat" /\ Moves("threat", "answered")
    BY <1>6, QueryMoves
  <2>2. /\ Ahead("answered") \subseteq Ahead("threat") \ {"threat"}
        /\ Ahead("threat") \subseteq Parts /\ "threat" \in Parts
    BY DEF Ahead, Parts
  <2> QED
    BY <2>1, <2>2, MovesReportOK
<1> QED
  BY <1>1, <1>2, <1>3, <1>4, <1>5, <1>6 DEF Queries

LEMMA ReportInit == Init => ReportOK
<1> SUFFICES ASSUME Init PROVE ReportOK
  OBVIOUS
<1>1. report = NoReport
  BY DEF Init
<1>2. DOMAIN report = Fields /\ \A x \in Parts : report[x] = <<>>
  <2>1. DOMAIN NoReport = Fields
    BY DEF NoReport, Fields, Parts
  <2>2. \A x \in Parts : NoReport[x] = <<>>
    <3>1. /\ NoReport.timeseries = <<>> /\ NoReport.by_category = <<>>
          /\ NoReport.top_ips = <<>> /\ NoReport.top_paths = <<>>
          /\ NoReport.verdicts = <<>> /\ NoReport.threat = <<>>
      BY DEF NoReport
    <3> QED
      BY <3>1 DEF Parts
  <2> QED
    BY <1>1, <2>1, <2>2
<1>3. Ahead(report.pc) = Parts
  BY <1>1 DEF NoReport, Ahead
<1> QED
  BY <1>2, <1>3 DEF ReportOK

LEMMA ReportNext ==
  ASSUME ReportOK, [Next]_vars
  PROVE  ReportOK'
<1>1. CASE Begun
  <2>1. Ahead(report'.pc) = Parts
    BY <1>1 DEF Begun, Ahead
  <2> QED
    BY <1>1, <2>1 DEF Begun, ReportOK, Ahead
<1>2. CASE Queries
  BY <1>2, QueriesReportOK
<1>3. ASSUME NEW what, Disturbed(what) PROVE ReportOK'
  <2>1. DOMAIN report' = Fields /\ Ahead(report'.pc) = Ahead(report.pc)
    BY <1>3 DEF Disturbed
  <2>2. Ahead(report.pc) \subseteq Parts
    BY DEF Ahead, Parts
  <2>3. \A x \in Ahead(report'.pc) : report'[x] = <<>>
    BY <1>3, <2>1, <2>2 DEF Disturbed, ReportOK
  <2> QED
    BY <2>1, <2>3 DEF ReportOK, Ahead
<1>4. CASE UNCHANGED vars
  BY <1>4 DEF vars, ReportOK, Ahead
<1> QED
  BY <1>1, <1>2, <1>3, <1>4, ReportSteps

LEMMA PeriodRows ==
  ASSUME TableOK, NEW app, NEW rng
  PROVE  /\ Period(app, rng) \subseteq Of(app)
         /\ Of(app) \subseteq events
         /\ IsFiniteSet(Of(app)) /\ IsFiniteSet(Period(app, rng))
         /\ \A r \in Of(app) : RowOK(r)
<1>1. Of(app) \in SUBSET events /\ Period(app, rng) \in SUBSET Of(app)
  BY DEF Of, Period
<1>2. IsFiniteSet(Of(app))
  BY <1>1, FS_Subset DEF TableOK
<1>3. IsFiniteSet(Period(app, rng))
  BY <1>1, <1>2, FS_Subset
<1> QED
  BY <1>1, <1>2, <1>3 DEF TableOK

\* The answer of a query is a function of the table and the clock.
LEMMA Steady ==
  ASSUME UNCHANGED <<now, events>>
  PROVE  \A a, r : /\ TimeSeries(a, r)' = TimeSeries(a, r)
                   /\ ByCategory(a, r)' = ByCategory(a, r)
                   /\ TopIPs(a, r)' = TopIPs(a, r)
                   /\ TopPaths(a, r)' = TopPaths(a, r)
                   /\ Period(a, r)' = Period(a, r)
<1> SUFFICES ASSUME NEW a, NEW r
             PROVE  /\ TimeSeries(a, r)' = TimeSeries(a, r)
                    /\ ByCategory(a, r)' = ByCategory(a, r)
                    /\ TopIPs(a, r)' = TopIPs(a, r)
                    /\ TopPaths(a, r)' = TopPaths(a, r)
                    /\ Period(a, r)' = Period(a, r)
  OBVIOUS
<1>1. Period(a, r)' = Period(a, r)
  BY DEF Period, Of
<1>2. TimeSeries(a, r)' = TimeSeries(a, r)
  BY <1>1 DEF TimeSeries
<1>3. ByCategory(a, r)' = ByCategory(a, r)
  BY <1>1 DEF ByCategory
<1>4. TopIPs(a, r)' = TopIPs(a, r)
  BY <1>1 DEF TopIPs, TopOf
<1>5. TopPaths(a, r)' = TopPaths(a, r)
  BY <1>1 DEF TopPaths, TopOf
<1> QED
  BY <1>1, <1>2, <1>3, <1>4, <1>5

\* A threat is that of a finite set of rows.
ThreatOK ==
  report.threat = <<>> \/ \E S : Scored(S) /\ report.threat = <<Threat(S)>>

LEMMA ThreatNext ==
  ASSUME TableOK, ReportOK, ThreatOK, [Next]_vars
  PROVE  ThreatOK'
<1>1. CASE Begun
  <2>1. report'["threat"] = <<>>
    BY <1>1 DEF Begun, Parts
  <2> QED
    BY <2>1 DEF ThreatOK
<1>2. CASE report'["threat"] = report["threat"]
  BY <1>2 DEF ThreatOK
<1>3. CASE QueryThreat
  <2>1. PICK S \in {{}, Attacks(Period(report.app, report.rng))} :
          report'.threat = <<Threat(S)>>
    BY <1>3, QueryMoves
  <2>2. PICK P : P = Period(report.app, report.rng)
    OBVIOUS
  <2>3. IsFiniteSet(P) /\ \A r \in P : RowOK(r)
    BY <2>2, PeriodRows
  <2>4. S \in SUBSET P
    BY <2>1, <2>2 DEF Attacks
  <2>5. Scored(S)
    BY <2>3, <2>4, FS_Subset DEF Scored, RowOK
  <2> QED
    BY <2>1, <2>5 DEF ThreatOK
<1>4. ASSUME Queries, ~ QueryThreat PROVE report'["threat"] = report["threat"]
  <2>1. \E p \in Parts \ {"threat"} : \E stage : Moves(p, stage)
    BY <1>4, QueryMoves DEF Queries, Parts
  <2> QED
    BY <2>1 DEF Moves, Parts
<1>5. ASSUME NEW what, Disturbed(what) PROVE report'["threat"] = report["threat"]
  BY <1>5 DEF Disturbed, Parts
<1>6. CASE UNCHANGED vars
  BY <1>2, <1>6 DEF vars
<1> QED
  BY <1>1, <1>2, <1>3, <1>4, <1>5, <1>6, ReportSteps

\* As long as nothing has moved since the series was read, every part there is
\* is what its query answers now.
Fresh ==
  report.timeseries /= <<>> /\ report.since = {} =>
    /\ report.timeseries = <<TimeSeries(report.app, report.rng)>>
    /\ report.by_category \in {<<>>, <<ByCategory(report.app, report.rng)>>}
    /\ \/ report.top_ips = <<>>
       \/ \E v \in TopIPs(report.app, report.rng) : report.top_ips = <<v>>
    /\ \/ report.top_paths = <<>>
       \/ \E v \in TopPaths(report.app, report.rng) : report.top_paths = <<v>>
    /\ \/ report.threat = <<>>
       \/ \E S \in {{}, Attacks(Period(report.app, report.rng))} :
            report.threat = <<Threat(S)>>

LEMMA FreshNext ==
  ASSUME ReportOK, Fresh, [Next]_vars
  PROVE  Fresh'
<1>1. CASE Begun
  <2>1. report'["timeseries"] = <<>>
    BY <1>1 DEF Begun, Parts
  <2> QED
    BY <2>1 DEF Fresh
<1>2. ASSUME NEW what, Disturbed(what) PROVE Fresh'
  <2>1. report'.since /= {}
    BY <1>2 DEF Disturbed
  <2> QED
    BY <2>1 DEF Fresh
<1>3. ASSUME Queries, UNCHANGED <<now, events, nextId>> PROVE Fresh'
  <2>1. PICK a, g : a = report.app /\ g = report.rng
    OBVIOUS
  <2>2. report'.app = a /\ report'.rng = g
    BY <1>3, <2>1, QueryMoves DEF Queries, Moves
  <2>3. /\ TimeSeries(a, g)' = TimeSeries(a, g)
        /\ ByCategory(a, g)' = ByCategory(a, g)
        /\ TopIPs(a, g)' = TopIPs(a, g)
        /\ TopPaths(a, g)' = TopPaths(a, g)
        /\ Period(a, g)' = Period(a, g)
    BY <1>3, Steady
  <2>4. Attacks(Period(a, g))' = Attacks(Period(a, g))
    BY <2>3 DEF Attacks
  <2>5. CASE QueryTimeSeries
    <3>1. /\ report'.timeseries \in {<<>>, <<TimeSeries(a, g)>>}
          /\ \A x \in Parts \ {"timeseries"} : report'[x] = report[x]
          /\ report.pc = "timeseries"
      BY <2>1, <2>5, QueryMoves DEF Moves
    <3>2. \A x \in Parts \ {"timeseries"} : report'[x] = <<>>
      BY <3>1 DEF ReportOK, Ahead
    <3>3. /\ report'.by_category = <<>> /\ report'.top_ips = <<>>
          /\ report'.top_paths = <<>> /\ report'.threat = <<>>
      BY <3>2 DEF Parts
    <3> QED
      BY <2>2, <2>3, <2>4, <3>1, <3>3 DEF Fresh
  <2>6. ASSUME NEW p \in Parts, NEW stage, Moves(p, stage), p /= "timeseries",
               report'.since = report.since,
               p = "by_category" => report'.by_category \in {<<>>, <<ByCategory(a, g)>>},
               p = "top_ips" => \/ report'.top_ips = <<>>
                                \/ \E v \in TopIPs(a, g) : report'.top_ips = <<v>>,
               p = "top_paths" => \/ report'.top_paths = <<>>
                                  \/ \E v \in TopPaths(a, g) : report'.top_paths = <<v>>,
               p = "threat" => \E S \in {{}, Attacks(Period(a, g))} :
                                 report'.threat = <<Threat(S)>>
        PROVE  Fresh'
    <3>1. \A x \in Parts \ {p} : report'[x] = report[x]
      BY <2>6 DEF Moves
    <3>2. report'.timeseries = report.timeseries
      BY <2>6, <3>1 DEF Parts
    <3> SUFFICES ASSUME report.timeseries /= <<>>, report.since = {} PROVE Fresh'
      BY <2>6, <3>2 DEF Fresh
    <3>3. /\ report.timeseries = <<TimeSeries(a, g)>>
          /\ report.by_category \in {<<>>, <<ByCategory(a, g)>>}
          /\ report.top_ips = <<>> \/ \E v \in TopIPs(a, g) : report.top_ips = <<v>>
          /\ report.top_paths = <<>> \/ \E v \in TopPaths(a, g) : report.top_paths = <<v>>
          /\ \/ report.threat = <<>>
             \/ \E S \in {{}, Attacks(Period(a, g))} : report.threat = <<Threat(S)>>
      BY <2>1 DEF Fresh
    <3>4. report'.by_category \in {<<>>, <<ByCategory(a, g)>>}
      BY <2>6, <3>1, <3>3 DEF Parts
    <3>5. report'.top_ips = <<>> \/ \E v \in TopIPs(a, g) : report'.top_ips = <<v>>
      BY <2>6, <3>1, <3>3 DEF Parts
    <3>6. report'.top_paths = <<>> \/ \E v \in TopPaths(a, g) : report'.top_paths = <<v>>
      BY <2>6, <3>1, <3>3 DEF Parts
    <3>7. \/ report'.threat = <<>>
          \/ \E S \in {{}, Attacks(Period(a, g))} : report'.threat = <<Threat(S)>>
      BY <2>6, <3>1, <3>3 DEF Parts
    <3> QED
      BY <2>2, <2>3, <2>4, <3>2, <3>3, <3>4, <3>5, <3>6, <3>7 DEF Fresh
  <2>7. CASE QueryByCategory
    <3>1. "by_category" \in Parts
      BY DEF Parts
    <3> QED
      BY <2>1, <2>6, <2>7, <3>1, QueryMoves
  <2>8. CASE QueryTopIPs
    <3>1. "top_ips" \in Parts
      BY DEF Parts
    <3> QED
      BY <2>1, <2>6, <2>8, <3>1, QueryMoves
  <2>9. CASE QueryTopPaths
    <3>1. "top_paths" \in Parts
      BY DEF Parts
    <3> QED
      BY <2>1, <2>6, <2>9, <3>1, QueryMoves
  <2>10. CASE QueryVerdicts
    <3>1. "verdicts" \in Parts
      BY DEF Parts
    <3> QED
      BY <2>1, <2>6, <2>10, <3>1, QueryMoves
  <2>11. CASE QueryThreat
    <3>1. "threat" \in Parts
      BY DEF Parts
    <3> QED
      BY <2>1, <2>6, <2>11, <3>1, QueryMoves
  <2> QED
    BY <1>3, <2>5, <2>7, <2>8, <2>9, <2>10, <2>11 DEF Queries
<1>4. CASE UNCHANGED vars
  <2>1. PICK a, g : a = report.app /\ g = report.rng
    OBVIOUS
  <2>2. /\ UNCHANGED <<now, events>> /\ report' = report
    BY <1>4 DEF vars
  <2>3. /\ TimeSeries(a, g)' = TimeSeries(a, g)
        /\ ByCategory(a, g)' = ByCategory(a, g)
        /\ TopIPs(a, g)' = TopIPs(a, g)
        /\ TopPaths(a, g)' = TopPaths(a, g)
        /\ Period(a, g)' = Period(a, g)
    BY <2>2, Steady
  <2>4. Attacks(Period(a, g))' = Attacks(Period(a, g))
    BY <2>3 DEF Attacks
  <2> QED
    BY <2>1, <2>2, <2>3, <2>4 DEF Fresh
<1> QED
  BY <1>1, <1>2, <1>3, <1>4, ReportSteps

-----------------------------------------------------------------------------
(* What the series counts.                                                  *)

Kinds == {"total", "blocked", "detected", "allowed"}

\* The rows a kind of count is about.
Kind(S, k) == {r \in S : k = "total" \/ r.verdict = k}

LEMMA TallyIs ==
  ASSUME NEW S, NEW k \in Kinds
  PROVE  Tally(S)[k] = Cardinality(Kind(S, k))
<1>1. CASE k = "total"
  <2>1. Kind(S, k) = S
    BY <1>1 DEF Kind
  <2> QED
    BY <1>1, <2>1 DEF Tally
<1>2. CASE k \in {"blocked", "detected", "allowed"}
  <2>1. Kind(S, k) = {r \in S : r.verdict = k}
    BY <1>2 DEF Kind
  <2>2. CASE k = "blocked"
    BY <2>1, <2>2 DEF Tally
  <2>3. CASE k = "detected"
    BY <2>1, <2>3 DEF Tally
  <2>4. CASE k = "allowed"
    BY <2>1, <2>4 DEF Tally
  <2> QED
    BY <1>2, <2>2, <2>3, <2>4
<1> QED
  BY <1>1, <1>2 DEF Kinds

LEMMA RangeIs ==
  ASSUME NEW rng
  PROVE  /\ rangeParams(rng).window \in Nat
         /\ rangeParams(rng).bucket \in Nat \ {0}
         /\ rng = "all" => rangeParams(rng).window = 0
<1>1. CASE rng \in {"24h", "72h", "7d", "30d", "all"}
  BY <1>1 DEF rangeParams
<1>2. CASE rng \notin {"24h", "72h", "7d", "30d", "all"}
  BY <1>2 DEF rangeParams
<1> QED
  BY <1>1, <1>2

\* The buckets of a series are finitely many.
LEMMA ShownIsFinite ==
  ASSUME TableOK, NEW app, NEW rng
  PROVE  IsFiniteSet(DOMAIN TimeSeries(app, rng))
<1>1. PICK w \in Nat, b \in Nat \ {0} :
        w = rangeParams(rng).window /\ b = rangeParams(rng).bucket
  BY RangeIs
<1>2. PICK P : P = Period(app, rng)
  OBVIOUS
<1>3. CASE w > 0
  <2>1. PICK first \in Int : first = Floor(now - w, b)
    BY <1>1 DEF Floor, TableOK
  <2>2. PICK n \in Int : n = (now - first) \div b
    BY <1>1, <2>1 DEF TableOK
  <2>3. PICK I : I = 0 .. n
    OBVIOUS
  <2>4. IsFiniteSet(I)
    <3>1. 0 \in Int /\ n \in Int
      OBVIOUS
    <3>2. IsFiniteSet(0 .. n)
      BY <3>1, FS_Interval, Zenon
    <3> QED
      BY <2>3, <3>2
  <2>5. PICK f : f = [i \in I |-> first + i * b]
    OBVIOUS
  <2>6. IsFiniteSet({f[i] : i \in I})
    BY <2>4, <2>5, FiniteImage
  <2>7. {f[i] : i \in I} = {first + i * b : i \in 0 .. n}
    BY <2>3, <2>5
  <2>8. DOMAIN TimeSeries(app, rng) = {first + i * b : i \in 0 .. n}
    BY <1>1, <1>3, <2>1, <2>2 DEF TimeSeries
  <2> QED
    BY <2>6, <2>7, <2>8
<1>4. CASE w = 0
  <2>1. PICK f : f = [r \in P |-> Floor(r.ts, b)]
    OBVIOUS
  <2>2. IsFiniteSet({f[r] : r \in P})
    BY <1>2, <2>1, PeriodRows, FiniteImage
  <2>3. {f[r] : r \in P} = {Floor(r.ts, b) : r \in P}
    BY <2>1
  <2>4. DOMAIN TimeSeries(app, rng) = {Floor(r.ts, b) : r \in P}
    BY <1>1, <1>2, <1>4 DEF TimeSeries
  <2> QED
    BY <2>2, <2>3, <2>4
<1> QED
  BY <1>1, <1>3, <1>4

\* Every row of the period that is not dated after the clock has its bucket
\* in the series.
LEMMA SeriesCovers ==
  ASSUME TableOK, NEW app, NEW rng, NEW r \in Period(app, rng), r.ts <= now
  PROVE  Floor(r.ts, rangeParams(rng).bucket) \in DOMAIN TimeSeries(app, rng)
<1>1. PICK w \in Nat, b \in Nat \ {0} :
        w = rangeParams(rng).window /\ b = rangeParams(rng).bucket
  BY RangeIs
<1>2. PICK t \in Nat : t = r.ts
  BY PeriodRows DEF RowOK
<1>3. PICK c \in Nat : c = now
  BY DEF TableOK
<1>4. CASE w > 0
  <2>1. t > c - w /\ t <= c
    BY <1>1, <1>2, <1>3, <1>4 DEF Period
  <2>2. PICK first \in Int : first = Floor(c - w, b)
    BY <1>1 DEF Floor
  <2>3. PICK n \in Int : n = (c - first) \div b
    BY <1>1, <2>2
  <2>4. PICK x, y \in Int : x = t \div b /\ y = (c - w) \div b
    OBVIOUS
  <2>5. /\ x * b <= t /\ t < x * b + b
        /\ y * b <= c - w /\ c - w < y * b + b
        /\ n * b <= c - first /\ c - first < n * b + b
    BY <2>3, <2>4
  <2>6. first = y * b
    BY <2>2, <2>4 DEF Floor
  <2>7. x >= y
    <3>1. x < y => x * b + b <= y * b
      BY <2>4
    <3> QED
      BY <2>1, <2>4, <2>5, <3>1
  <2>8. x - y <= n
    <3>1. (x - y) * b = x * b - y * b
      OBVIOUS
    <3>2. (x - y) * b <= c - first
      BY <2>1, <2>5, <2>6, <3>1
    <3>3. x - y > n => (x - y) * b >= n * b + b
      OBVIOUS
    <3> QED
      BY <2>5, <3>2, <3>3
  <2>9. PICK i \in 0 .. n : i = x - y
    BY <2>7, <2>8
  <2>10. Floor(t, b) = first + i * b
    BY <2>4, <2>6, <2>9 DEF Floor
  <2>11. DOMAIN TimeSeries(app, rng) = {first + j * b : j \in 0 .. n}
    BY <1>1, <1>3, <1>4, <2>2, <2>3 DEF TimeSeries
  <2> QED
    BY <1>1, <1>2, <2>9, <2>10, <2>11
<1>5. CASE w = 0
  BY <1>1, <1>5 DEF TimeSeries
<1> QED
  BY <1>1, <1>4, <1>5

\* A total of the series counts the rows whose bucket it has.
LEMMA SeriesTotal ==
  ASSUME TableOK, NEW app, NEW rng, NEW k \in Kinds
  PROVE  Total(TimeSeries(app, rng), k) =
           Cardinality({r \in Kind(Period(app, rng), k) :
                          Floor(r.ts, rangeParams(rng).bucket) \in DOMAIN TimeSeries(app, rng)})
<1>1. PICK b : b = rangeParams(rng).bucket
  OBVIOUS
<1>2. PICK P : P = Period(app, rng)
  OBVIOUS
<1>3. PICK S : S = Kind(P, k)
  OBVIOUS
<1>4. PICK ts : ts = TimeSeries(app, rng)
  OBVIOUS
<1>5. PICK K : K = DOMAIN ts
  OBVIOUS
<1>6. IsFiniteSet(K)
  BY <1>4, <1>5, ShownIsFinite
<1>7. IsFiniteSet(P) /\ IsFiniteSet(S)
  <2>1. S \in SUBSET P
    BY <1>3 DEF Kind
  <2> QED
    BY <1>2, <2>1, PeriodRows, FS_Subset
<1>8. PICK key : key = [r \in P |-> Floor(r.ts, b)]
  OBVIOUS
<1>9. ASSUME NEW ep \in K PROVE ts[ep] = Tally({r \in P : key[r] = ep})
  <2>1. ts[ep] = Tally({r \in P : Floor(r.ts, b) = ep})
    BY <1>1, <1>2, <1>4, <1>5, <1>9 DEF TimeSeries
  <2>2. {r \in P : Floor(r.ts, b) = ep} = {r \in P : key[r] = ep}
    BY <1>8
  <2> QED
    BY <2>1, <2>2
<1>10. ASSUME NEW ep \in K
       PROVE  /\ ts[ep][k] = Cardinality({r \in S : key[r] = ep})
              /\ ts[ep][k] \in Nat
  <2>1. PICK B : B = {r \in P : key[r] = ep}
    OBVIOUS
  <2>2. ts[ep][k] = Cardinality(Kind(B, k))
    BY <1>9, <2>1, TallyIs
  <2>3. Kind(B, k) = {r \in S : key[r] = ep}
    BY <1>3, <2>1 DEF Kind
  <2>4. Kind(B, k) \in SUBSET P
    BY <2>1 DEF Kind
  <2>5. Cardinality(Kind(B, k)) \in Nat
    BY <1>7, <2>4, FS_Subset, FS_CardinalityType
  <2> QED
    BY <2>2, <2>3, <2>5
<1>11. PICK c : c = [ep \in K |-> ts[ep][k]]
  OBVIOUS
<1>12. c \in [K -> Nat] /\ \A ep \in K : c[ep] = Cardinality({r \in S : key[r] = ep})
  BY <1>10, <1>11
<1>13. SumFunctionOnSet(c, K) = Cardinality({r \in S : key[r] \in K})
  BY <1>6, <1>7, <1>12, CountByKey
<1>14. Total(ts, k) = SumFunctionOnSet(c, K)
  BY <1>5, <1>11 DEF Total, SumFunction
<1>15. {r \in S : key[r] \in K} = {r \in S : Floor(r.ts, b) \in K}
  BY <1>3, <1>8 DEF Kind
<1> QED
  BY <1>1, <1>2, <1>3, <1>4, <1>5, <1>13, <1>14, <1>15

LEMMA KindCount ==
  ASSUME NEW R, IsFiniteSet(R), NEW S \in SUBSET R, NEW k
  PROVE  /\ Cardinality(Kind(S, k)) \in Nat /\ Cardinality(Kind(R, k)) \in Nat
         /\ Cardinality(Kind(S, k)) <= Cardinality(Kind(R, k))
         /\ IsFiniteSet(Kind(S, k)) /\ IsFiniteSet(Kind(R, k))
<1>1. Kind(R, k) \in SUBSET R /\ Kind(S, k) \in SUBSET Kind(R, k)
  BY DEF Kind
<1>2. IsFiniteSet(Kind(R, k))
  BY <1>1, FS_Subset
<1>3. IsFiniteSet(Kind(S, k)) /\ Cardinality(Kind(S, k)) <= Cardinality(Kind(R, k))
  BY <1>1, <1>2, FS_Subset
<1> QED
  BY <1>2, <1>3, FS_CardinalityType

\* Each row is an attack or was allowed, and an attack is of one kind.
LEMMA AttackCount ==
  ASSUME NEW S, IsFiniteSet(S)
  PROVE  /\ Cardinality(Attacks(S)) = Cardinality(Kind(S, "blocked"))
                                       + Cardinality(Kind(S, "detected"))
         /\ (\A r \in S : RowOK(r)) =>
              Cardinality(S) = Cardinality(Attacks(S)) + Cardinality(Kind(S, "allowed"))
<1>1. S \in SUBSET S /\ Attacks(S) \in SUBSET S
  BY DEF Attacks
<1>2. /\ IsFiniteSet(Kind(S, "blocked")) /\ IsFiniteSet(Kind(S, "detected"))
      /\ IsFiniteSet(Kind(S, "allowed")) /\ IsFiniteSet(Attacks(S))
  BY <1>1, KindCount, FS_Subset
<1>3. /\ Attacks(S) = Kind(S, "blocked") \cup Kind(S, "detected")
      /\ Kind(S, "blocked") \cap Kind(S, "detected") = {}
  BY DEF Attacks, Kind
<1>4. Cardinality(Attacks(S)) = Cardinality(Kind(S, "blocked"))
                                + Cardinality(Kind(S, "detected"))
  BY <1>2, <1>3, DisjointCount
<1>5. ASSUME \A r \in S : RowOK(r)
      PROVE  Cardinality(S) = Cardinality(Attacks(S)) + Cardinality(Kind(S, "allowed"))
  <2>1. /\ S = Attacks(S) \cup Kind(S, "allowed")
        /\ Attacks(S) \cap Kind(S, "allowed") = {}
    BY <1>5 DEF Attacks, Kind, RowOK
  <2> QED
    BY <1>2, <2>1, DisjointCount
<1> QED
  BY <1>4, <1>5

LEMMA SeriesExact ==
  ASSUME TableOK, NEW app, NEW rng, NEW k \in Kinds
  PROVE  /\ Total(TimeSeries(app, rng), k) \in Nat
         /\ Total(TimeSeries(app, rng), k) <= Cardinality(Kind(Period(app, rng), k))
         /\ (\A r \in Period(app, rng) : r.ts <= now) =>
              Total(TimeSeries(app, rng), k) = Cardinality(Kind(Period(app, rng), k))
<1>1. PICK P : P = Period(app, rng)
  OBVIOUS
<1>2. IsFiniteSet(Kind(P, k))
  <2>1. P \in SUBSET P
    OBVIOUS
  <2> QED
    BY <1>1, <2>1, PeriodRows, KindCount
<1>3. PICK C : C = {r \in Kind(P, k) :
                      Floor(r.ts, rangeParams(rng).bucket) \in DOMAIN TimeSeries(app, rng)}
  OBVIOUS
<1>4. C \in SUBSET Kind(P, k)
  BY <1>3
<1>5. IsFiniteSet(C) /\ Cardinality(C) <= Cardinality(Kind(P, k))
  BY <1>2, <1>4, FS_Subset
<1>6. Total(TimeSeries(app, rng), k) = Cardinality(C)
  BY <1>1, <1>3, SeriesTotal
<1>7. ASSUME \A r \in P : r.ts <= now PROVE C = Kind(P, k)
  <2>1. Kind(P, k) \subseteq P
    BY DEF Kind
  <2>2. \A r \in P : Floor(r.ts, rangeParams(rng).bucket) \in DOMAIN TimeSeries(app, rng)
    BY <1>1, <1>7, SeriesCovers
  <2> QED
    BY <1>3, <2>1, <2>2
<1> QED
  BY <1>1, <1>5, <1>6, <1>7, FS_CardinalityType

\* The rows of S cover what the series counts.
CoveredBy(ts, S) ==
  \A k \in Kinds : Total(ts, k) \in Nat /\ Total(ts, k) <= Cardinality(Kind(S, k))

LEMMA CoveredByMore ==
  ASSUME NEW R, IsFiniteSet(R), NEW S \in SUBSET R, NEW ts, CoveredBy(ts, S)
  PROVE  CoveredBy(ts, R)
<1> SUFFICES ASSUME NEW k \in Kinds
             PROVE  Total(ts, k) \in Nat /\ Total(ts, k) <= Cardinality(Kind(R, k))
  BY DEF CoveredBy
<1>1. PICK n \in Nat : n = Total(ts, k) /\ n <= Cardinality(Kind(S, k))
  BY DEF CoveredBy
<1>2. /\ Cardinality(Kind(S, k)) \in Nat /\ Cardinality(Kind(R, k)) \in Nat
      /\ Cardinality(Kind(S, k)) <= Cardinality(Kind(R, k))
  BY KindCount
<1> QED
  BY <1>1, <1>2

VerdictsCover(ts, vs) == \A k \in Kinds : Total(ts, k) <= vs[k]

ThreatCovers(ts, t) ==
  t.attacks = 0 \/ Total(ts, "blocked") + Total(ts, "detected") <= t.attacks

\* As long as nothing was purged, the table covers the series, and so did it
\* when the later parts were read.
Covered ==
  report.timeseries /= <<>> /\ "purge" \notin report.since =>
    /\ CoveredBy(report.timeseries[1], Of(report.app))
    /\ report.verdicts /= <<>> => VerdictsCover(report.timeseries[1], report.verdicts[1])
    /\ report.threat /= <<>> /\ report.rng = "all" =>
         ThreatCovers(report.timeseries[1], report.threat[1])

LEMMA SeriesCovered ==
  ASSUME TableOK, NEW app, NEW rng
  PROVE  CoveredBy(TimeSeries(app, rng), Of(app))
<1>1. CoveredBy(TimeSeries(app, rng), Period(app, rng))
  BY SeriesExact DEF CoveredBy
<1>2. PICK P, R, ts : P = Period(app, rng) /\ R = Of(app) /\ ts = TimeSeries(app, rng)
  OBVIOUS
<1>3. P \in SUBSET R /\ IsFiniteSet(R)
  BY <1>2, PeriodRows
<1>4. CoveredBy(ts, P)
  BY <1>1, <1>2
<1>5. CoveredBy(ts, R)
  BY <1>3, <1>4, CoveredByMore
<1> QED
  BY <1>2, <1>5

LEMMA StatsCover ==
  ASSUME NEW app, NEW ts, CoveredBy(ts, Of(app))
  PROVE  VerdictsCover(ts, Stats(app))
<1> SUFFICES ASSUME NEW k \in Kinds PROVE Total(ts, k) <= Stats(app)[k]
  BY DEF VerdictsCover
<1>1. Stats(app)[k] = Cardinality(Kind(Of(app), k))
  BY TallyIs DEF Stats
<1> QED
  BY <1>1 DEF CoveredBy

LEMMA ThreatsCover ==
  ASSUME TableOK, NEW app, NEW ts, CoveredBy(ts, Of(app)),
         NEW S \in {{}, Attacks(Period(app, "all"))}
  PROVE  ThreatCovers(ts, Threat(S))
<1>1. Threat(S).attacks = Cardinality(S)
  BY DEF Threat
<1>2. CASE S = {}
  BY <1>1, <1>2, FS_EmptySet DEF ThreatCovers
<1>3. CASE S = Attacks(Period(app, "all"))
  <2>1. PICK R : R = Of(app)
    OBVIOUS
  <2>2. Period(app, "all") = R
    BY <2>1, RangeIs DEF Period
  <2>3. IsFiniteSet(R) /\ R \in SUBSET R
    BY <2>1, PeriodRows
  <2>4. Cardinality(S) = Cardinality(Kind(R, "blocked")) + Cardinality(Kind(R, "detected"))
    BY <1>3, <2>2, <2>3, AttackCount
  <2>5. /\ Cardinality(Kind(R, "blocked")) \in Nat
        /\ Cardinality(Kind(R, "detected")) \in Nat
    BY <2>3, KindCount
  <2>6. /\ Total(ts, "blocked") \in Nat /\ Total(ts, "detected") \in Nat
        /\ Total(ts, "blocked") <= Cardinality(Kind(R, "blocked"))
        /\ Total(ts, "detected") <= Cardinality(Kind(R, "detected"))
    BY <2>1 DEF CoveredBy, Kinds
  <2> QED
    BY <1>1, <2>4, <2>5, <2>6 DEF ThreatCovers
<1> QED
  BY <1>2, <1>3

LEMMA CoveredNext ==
  ASSUME TableOK, ReportOK, Covered, [Next]_vars
  PROVE  Covered'
<1>1. PICK a, g : a = report.app /\ g = report.rng
  OBVIOUS
<1>2. CASE Begun
  <2>1. report'["timeseries"] = <<>>
    BY <1>2 DEF Begun, Parts
  <2> QED
    BY <2>1 DEF Covered
<1>3. ASSUME NEW what, Disturbed(what), what /= "purge" => events \subseteq events',
             UNCHANGED events \/ TableOK'
      PROVE  Covered'
  <2>1. /\ report'.app = a /\ report'.rng = g /\ report'.since = report.since \cup {what}
        /\ report'.timeseries = report.timeseries
        /\ report'.verdicts = report.verdicts /\ report'.threat = report.threat
    BY <1>1, <1>3 DEF Disturbed, Parts
  <2> SUFFICES ASSUME report.timeseries /= <<>>, "purge" \notin report.since, what /= "purge"
               PROVE  Covered'
    BY <2>1 DEF Covered
  <2>2. PICK ts : ts = report.timeseries[1]
    OBVIOUS
  <2>3. /\ CoveredBy(ts, Of(a))
        /\ report.verdicts /= <<>> => VerdictsCover(ts, report.verdicts[1])
        /\ report.threat /= <<>> /\ g = "all" => ThreatCovers(ts, report.threat[1])
    BY <1>1, <2>2 DEF Covered
  <2>4. CoveredBy(ts, Of(a)')
    <3>1. PICK S, R : S = Of(a) /\ R = Of(a)'
      OBVIOUS
    <3>2. S \in SUBSET R
      BY <1>3, <3>1 DEF Of
    <3>3. IsFiniteSet(R)
      <4>1. IsFiniteSet(events')
        BY <1>3 DEF TableOK
      <4>2. R \in SUBSET events'
        BY <3>1 DEF Of
      <4> QED
        BY <4>1, <4>2, FS_Subset
    <3>4. CoveredBy(ts, S)
      BY <2>3, <3>1
    <3>5. CoveredBy(ts, R)
      BY <3>2, <3>3, <3>4, CoveredByMore
    <3> QED
      BY <3>1, <3>5
  <2> QED
    BY <2>1, <2>2, <2>3, <2>4 DEF Covered
<1>4. ASSUME Queries, UNCHANGED <<now, events, nextId>> PROVE Covered'
  <2>1. report'.app = a /\ report'.rng = g
    BY <1>1, <1>4, QueryMoves DEF Queries, Moves
  <2>2. Of(a)' = Of(a)
    BY <1>4 DEF Of
  <2>3. CASE QueryTimeSeries
    <3>1. /\ report'.timeseries \in {<<>>, <<TimeSeries(a, g)>>}
          /\ \A x \in Parts \ {"timeseries"} : report'[x] = report[x]
          /\ report.pc = "timeseries"
      BY <1>1, <2>3, QueryMoves DEF Moves
    <3>2. \A x \in Parts \ {"timeseries"} : report'[x] = <<>>
      BY <3>1 DEF ReportOK, Ahead
    <3>3. report'.verdicts = <<>> /\ report'.threat = <<>>
      BY <3>2 DEF Parts
    <3>4. PICK ts : ts = TimeSeries(a, g)
      OBVIOUS
    <3>5. CoveredBy(ts, Of(a))
      BY <3>4, SeriesCovered
    <3>6. report'.timeseries /= <<>> => report'.timeseries[1] = ts
      BY <3>1, <3>4
    <3> QED
      BY <2>1, <2>2, <3>3, <3>5, <3>6 DEF Covered
  <2>4. ASSUME NEW p \in Parts, NEW stage, Moves(p, stage), p /= "timeseries",
               report'.since = report.since,
               p = "verdicts" => report'.verdicts \in {<<>>, <<Stats(a)>>},
               p = "threat" => \E S \in {{}, Attacks(Period(a, g))} :
                                 report'.threat = <<Threat(S)>>
        PROVE  Covered'
    <3>1. \A x \in Parts \ {p} : report'[x] = report[x]
      BY <2>4 DEF Moves
    <3>2. report'.timeseries = report.timeseries
      BY <2>4, <3>1 DEF Parts
    <3> SUFFICES ASSUME report.timeseries /= <<>>, "purge" \notin report.since PROVE Covered'
      BY <2>4, <3>2 DEF Covered
    <3>3. PICK ts : ts = report.timeseries[1]
      OBVIOUS
    <3>4. /\ CoveredBy(ts, Of(a))
          /\ report.verdicts /= <<>> => VerdictsCover(ts, report.verdicts[1])
          /\ report.threat /= <<>> /\ g = "all" => ThreatCovers(ts, report.threat[1])
      BY <1>1, <3>3 DEF Covered
    <3>5. report'.verdicts /= <<>> => VerdictsCover(ts, report'.verdicts[1])
      <4>1. CASE p /= "verdicts"
        BY <3>1, <3>4, <4>1 DEF Parts
      <4>2. CASE p = "verdicts"
        <5>1. VerdictsCover(ts, Stats(a))
          BY <3>4, StatsCover
        <5>2. PICK vs : vs = Stats(a)
          OBVIOUS
        <5>3. report'.verdicts /= <<>> => report'.verdicts[1] = vs
          BY <2>4, <4>2, <5>2
        <5> QED
          BY <5>1, <5>2, <5>3
      <4> QED
        BY <4>1, <4>2
    <3>6. report'.threat /= <<>> /\ g = "all" => ThreatCovers(ts, report'.threat[1])
      <4>1. CASE p /= "threat"
        BY <3>1, <3>4, <4>1 DEF Parts
      <4>2. CASE p = "threat" /\ g = "all"
        <5>1. PICK S \in {{}, Attacks(Period(a, "all"))} : report'.threat = <<Threat(S)>>
          BY <2>4, <4>2
        <5>2. ThreatCovers(ts, Threat(S))
          BY <3>4, ThreatsCover
        <5>3. PICK t : t = Threat(S)
          OBVIOUS
        <5>4. report'.threat[1] = t
          BY <5>1, <5>3
        <5> QED
          BY <5>2, <5>3, <5>4
      <4> QED
        BY <4>1, <4>2
    <3> QED
      BY <2>1, <2>2, <3>2, <3>3, <3>4, <3>5, <3>6 DEF Covered
  <2>5. CASE QueryByCategory
    <3>1. "by_category" \in Parts
      BY DEF Parts
    <3> QED
      BY <1>1, <2>4, <2>5, <3>1, QueryMoves
  <2>6. CASE QueryTopIPs
    <3>1. "top_ips" \in Parts
      BY DEF Parts
    <3> QED
      BY <1>1, <2>4, <2>6, <3>1, QueryMoves
  <2>7. CASE QueryTopPaths
    <3>1. "top_paths" \in Parts
      BY DEF Parts
    <3> QED
      BY <1>1, <2>4, <2>7, <3>1, QueryMoves
  <2>8. CASE QueryVerdicts
    <3>1. "verdicts" \in Parts
      BY DEF Parts
    <3> QED
      BY <1>1, <2>4, <2>8, <3>1, QueryMoves
  <2>9. CASE QueryThreat
    <3>1. "threat" \in Parts
      BY DEF Parts
    <3> QED
      BY <1>1, <2>4, <2>9, <3>1, QueryMoves
  <2> QED
    BY <1>4, <2>3, <2>5, <2>6, <2>7, <2>8, <2>9 DEF Queries
<1>5. CASE UNCHANGED vars
  <2>1. Of(a)' = Of(a) /\ report' = report
    BY <1>5 DEF vars, Of
  <2> QED
    BY <1>1, <2>1 DEF Covered
<1>6. ASSUME NEW c \in Content, Insert(c), Disturbed("insert") PROVE Covered'
  <2>1. events \subseteq events'
    BY <1>6 DEF Insert
  <2>2. TableOK'
    BY <1>6, TableInsert
  <2> QED
    BY <1>3, <1>6, <2>1, <2>2
<1>7. CASE events' \subseteq events /\ UNCHANGED <<now, nextId>> /\ Disturbed("purge")
  BY <1>3, <1>7, TablePurge
<1>8. CASE ClockMoves /\ UNCHANGED events /\ Disturbed("clock")
  BY <1>3, <1>8
<1> QED
  BY <1>2, <1>4, <1>5, <1>6, <1>7, <1>8, ReportSteps

-----------------------------------------------------------------------------
(* The parts of a report and its series.                                    *)

\* Every attack has a category, and is counted in each it has.
LEMMA CategoriesCount ==
  ASSUME TableOK, NEW app, NEW rng
  PROVE  Cardinality(Attacks(Period(app, rng))) <= SumFunction(ByCategory(app, rng))
<1>1. PICK P : P = Period(app, rng)
  OBVIOUS
<1>2. PICK A : A = Attacks(P)
  OBVIOUS
<1>3. PICK K : K = UNION {r.cats : r \in P}
  OBVIOUS
<1>4. PICK f : f = ByCategory(app, rng)
  OBVIOUS
<1>5. IsFiniteSet(P) /\ \A r \in P : RowOK(r)
  BY <1>1, PeriodRows
<1>6. A \in SUBSET P /\ IsFiniteSet(A)
  <2>1. A \in SUBSET P
    BY <1>2 DEF Attacks
  <2> QED
    BY <1>5, <2>1, FS_Subset
<1>7. IsFiniteSet(K)
  <2>1. PICK g : g = [r \in P |-> r.cats]
    OBVIOUS
  <2>2. PICK U : U = {g[r] : r \in P}
    OBVIOUS
  <2>3. IsFiniteSet(U)
    BY <1>5, <2>1, <2>2, FiniteImage
  <2>4. \A s \in U : IsFiniteSet(s)
    BY <1>5, <2>1, <2>2 DEF RowOK
  <2>5. UNION U = K
    BY <1>3, <2>1, <2>2
  <2>6. IsFiniteSet(UNION U)
    BY <2>3, <2>4, FS_UNION
  <2> QED
    BY <2>5, <2>6
<1>8. f = [c \in K |-> Cardinality({r \in P : c \in r.cats})]
  BY <1>1, <1>3, <1>4 DEF ByCategory
<1>9. f \in [K -> Nat]
  <2> SUFFICES ASSUME NEW c \in K PROVE Cardinality({r \in P : c \in r.cats}) \in Nat
    BY <1>8
  <2>1. {r \in P : c \in r.cats} \in SUBSET P
    OBVIOUS
  <2> QED
    BY <1>5, <2>1, FS_Subset, FS_CardinalityType
<1>10. PICK key : key = [r \in A |-> Pick(r.cats)]
  OBVIOUS
<1>11. \A r \in A : key[r] \in r.cats /\ key[r] \in K
  <2> SUFFICES ASSUME NEW r \in A PROVE key[r] \in r.cats /\ key[r] \in K
    OBVIOUS
  <2>1. r \in P /\ r.cats /= {}
    BY <1>2, <1>5 DEF Attacks, RowOK
  <2>2. key[r] \in r.cats
    BY <1>10, <2>1 DEF Pick
  <2> QED
    BY <1>3, <2>1, <2>2
<1>12. PICK h : h = [c \in K |-> Cardinality({r \in A : key[r] = c})]
  OBVIOUS
<1>13. ASSUME NEW c \in K PROVE h[c] \in Nat /\ h[c] <= f[c]
  <2>1. PICK B : B = {r \in P : c \in r.cats}
    OBVIOUS
  <2>2. PICK C : C = {r \in A : key[r] = c}
    OBVIOUS
  <2>3. B \in SUBSET P /\ C \in SUBSET B
    BY <1>6, <1>11, <2>1, <2>2
  <2>4. IsFiniteSet(B)
    BY <1>5, <2>3, FS_Subset
  <2>5. IsFiniteSet(C) /\ Cardinality(C) <= Cardinality(B)
    BY <2>3, <2>4, FS_Subset
  <2>6. Cardinality(C) \in Nat
    BY <2>5, FS_CardinalityType
  <2> QED
    BY <1>8, <1>12, <2>1, <2>2, <2>5, <2>6
<1>14. h \in [K -> Nat] /\ \A c \in K : h[c] = Cardinality({r \in A : key[r] = c})
  BY <1>12, <1>13
<1>15. K \in SUBSET K
  OBVIOUS
<1>16. SumFunctionOnSet(h, K) = Cardinality({r \in A : key[r] \in K})
  BY <1>6, <1>7, <1>14, <1>15, CountByKey
<1>17. {r \in A : key[r] \in K} = A
  BY <1>11
<1>18. SumFunctionOnSet(h, K) <= SumFunctionOnSet(f, K)
  BY <1>7, <1>9, <1>13, <1>14, <1>15, SumMonotonic
<1>19. SumFunction(f) = SumFunctionOnSet(f, K)
  BY <1>8 DEF SumFunction
<1> QED
  BY <1>1, <1>2, <1>4, <1>16, <1>17, <1>18, <1>19

\* A list cut at a positive number of lines is empty when there is none.
LEMMA CutNotEmpty ==
  ASSUME NEW L, IsFiniteSet(L), NEW T \in SUBSET L,
         Cardinality(T) = Min({Top, Cardinality(L)})
  PROVE  T = {} <=> L = {}
<1>1. PICK t \in Nat \ {0} : t = Top
  BY LimitAssumption
<1>2. PICK n \in Nat : n = Cardinality(L)
  BY FS_CardinalityType
<1>3. Cardinality(T) = IF t <= n THEN t ELSE n
  BY <1>1, <1>2, MinOfTwo
<1>4. IsFiniteSet(T)
  BY FS_Subset
<1>5. (n = 0 <=> L = {}) /\ (Cardinality(T) = 0 <=> T = {})
  BY <1>2, <1>4, FS_EmptySet
<1> QED
  BY <1>1, <1>3, <1>5

\* The addresses listed have attacks of the period, and one that has some is
\* listed if there is any.
LEMMA TopIPsCount ==
  ASSUME TableOK, NEW app, NEW rng, NEW T \in TopIPs(app, rng)
  PROVE  /\ SumFunction([l \in T |-> l.attacks]) <= Cardinality(Attacks(Period(app, rng)))
         /\ Cardinality(Attacks(Period(app, rng))) > 0 => \E l \in T : l.attacks > 0
<1>1. PICK P : P = Period(app, rng)
  OBVIOUS
<1>2. PICK A : A = Attacks(P)
  OBVIOUS
<1>3. PICK line : line = [r \in P |->
                            [ip |-> r.ip,
                             total |-> Cardinality({q \in P : q.ip = r.ip}),
                             attacks |-> Cardinality({q \in A : q.ip = r.ip})]]
  OBVIOUS
<1>4. PICK L : L = {line[r] : r \in P}
  OBVIOUS
<1>5. IsFiniteSet(P)
  BY <1>1, PeriodRows
<1>6. A \in SUBSET P /\ IsFiniteSet(A)
  <2>1. A \in SUBSET P
    BY <1>2 DEF Attacks
  <2> QED
    BY <1>5, <2>1, FS_Subset
<1>7. IsFiniteSet(L)
  <2>1. DOMAIN line = P /\ line = [r \in P |-> line[r]]
    BY <1>3
  <2> QED
    BY <1>4, <1>5, <2>1, FiniteImage
<1>8. /\ T \in SUBSET L
      /\ Cardinality(T) = Min({Top, Cardinality(L)})
      /\ \A s \in L \ T, t \in T : ~ (s.attacks > t.attacks)
  <2>1. L = {[ip |-> r.ip,
              total |-> Cardinality({q \in P : q.ip = r.ip}),
              attacks |-> Cardinality({q \in A : q.ip = r.ip})] : r \in P}
    BY <1>3, <1>4
  <2>2. PICK M : /\ M = {[ip |-> r.ip,
                         total |-> Cardinality({q \in Period(app, rng) : q.ip = r.ip}),
                         attacks |-> Cardinality({q \in Attacks(Period(app, rng)) :
                                                   q.ip = r.ip})] : r \in Period(app, rng)}
                 /\ T \in SUBSET M
                 /\ Cardinality(T) = Min({Top, Cardinality(M)})
                 /\ \A s \in M \ T, t \in T : ~ (s.attacks > t.attacks)
    BY Zenon DEF TopIPs, TopOf
  <2>3. M = L
    BY <1>1, <1>2, <2>1, <2>2
  <2> QED
    BY <2>2, <2>3
<1>9. \A r \in P : line[r].attacks = Cardinality({q \in A : q.ip = r.ip})
                   /\ line[r].ip = r.ip
  BY <1>3
<1>10. ASSUME NEW l \in L
       PROVE  /\ l.attacks = Cardinality({r \in A : line[r] = l})
              /\ l.attacks \in Nat
  <2>1. PICK x \in P : l = line[x]
    BY <1>4
  <2>2. ASSUME NEW r \in A PROVE line[r] = l <=> r.ip = x.ip
    <3>1. r \in P
      BY <1>6
    <3>2. line[r] = l => r.ip = x.ip
      BY <1>9, <2>1, <3>1
    <3>3. r.ip = x.ip => line[r] = l
      BY <1>3, <2>1, <3>1
    <3> QED
      BY <3>2, <3>3
  <2>3. {r \in A : line[r] = l} = {r \in A : r.ip = x.ip}
    BY <2>2
  <2>4. {r \in A : r.ip = x.ip} \in SUBSET A
    OBVIOUS
  <2>5. Cardinality({r \in A : r.ip = x.ip}) \in Nat
    BY <1>6, <2>4, FS_Subset, FS_CardinalityType
  <2> QED
    BY <1>9, <2>1, <2>3, <2>5
<1>11. PICK c : c = [l \in T |-> l.attacks]
  OBVIOUS
<1>12. SumFunction(c) <= Cardinality(A)
  <2>1. /\ c \in [T -> Nat] /\ T \in SUBSET T
        /\ \A l \in T : c[l] = Cardinality({r \in A : line[r] = l})
    BY <1>8, <1>10, <1>11
  <2>2. IsFiniteSet(T)
    BY <1>7, <1>8, FS_Subset
  <2>3. SumFunctionOnSet(c, T) = Cardinality({r \in A : line[r] \in T})
    BY <1>6, <2>1, <2>2, CountByKey
  <2>4. {r \in A : line[r] \in T} \in SUBSET A
    OBVIOUS
  <2>5. Cardinality({r \in A : line[r] \in T}) <= Cardinality(A)
    BY <1>6, <2>4, FS_Subset
  <2> QED
    BY <1>11, <2>3, <2>5 DEF SumFunction
<1>13. ASSUME Cardinality(A) > 0 PROVE \E l \in T : l.attacks > 0
  <2>1. A /= {}
    BY <1>13, FS_EmptySet
  <2>2. PICK x \in A : TRUE
    BY <2>1
  <2>3. PICK l \in L : l = line[x]
    BY <1>4, <1>6
  <2>4. l.attacks > 0
    <3>1. {r \in A : line[r] = l} /= {} /\ {r \in A : line[r] = l} \in SUBSET A
      BY <2>3
    <3>2. IsFiniteSet({r \in A : line[r] = l})
      BY <1>6, <3>1, FS_Subset
    <3>3. Cardinality({r \in A : line[r] = l}) /= 0
      BY <3>1, <3>2, FS_EmptySet
    <3> QED
      BY <1>10, <3>3
  <2>5. T /= {}
    BY <1>7, <1>8, <2>3, CutNotEmpty
  <2>6. PICK t \in T : TRUE
    BY <2>5
  <2>7. l \notin T => ~ (l.attacks > t.attacks)
    BY <1>8
  <2>8. t.attacks \in Nat /\ l.attacks \in Nat
    BY <1>8, <1>10
  <2> QED
    BY <2>4, <2>6, <2>7, <2>8
<1> QED
  BY <1>1, <1>2, <1>11, <1>12, <1>13

LEMMA TopPathsCount ==
  ASSUME TableOK, NEW app, NEW rng, NEW T \in TopPaths(app, rng)
  PROVE  Cardinality(Attacks(Period(app, rng))) > 0 <=> T /= {}
<1>1. PICK A : A = Attacks(Period(app, rng))
  OBVIOUS
<1>2. PICK P : P = Period(app, rng)
  OBVIOUS
<1>3. PICK line : line = [r \in A |->
                            [path |-> r.path,
                             count |-> Cardinality({q \in A : q.path = r.path})]]
  OBVIOUS
<1>4. PICK L : L = {line[r] : r \in A}
  OBVIOUS
<1>5. IsFiniteSet(A)
  <2>1. A \in SUBSET P
    BY <1>1, <1>2 DEF Attacks
  <2> QED
    BY <1>2, <2>1, PeriodRows, FS_Subset
<1>6. IsFiniteSet(L)
  <2>1. DOMAIN line = A /\ line = [r \in A |-> line[r]]
    BY <1>3
  <2> QED
    BY <1>4, <1>5, <2>1, FiniteImage
<1>7. T \in SUBSET L /\ Cardinality(T) = Min({Top, Cardinality(L)})
  <2>1. L = {[path |-> r.path,
              count |-> Cardinality({q \in A : q.path = r.path})] : r \in A}
    BY <1>3, <1>4
  <2> QED
    BY <1>1, <2>1 DEF TopPaths, TopOf
<1>8. T = {} <=> L = {}
  BY <1>6, <1>7, CutNotEmpty
<1>9. L = {} <=> A = {}
  BY <1>4
<1>10. Cardinality(A) \in Nat /\ (Cardinality(A) = 0 <=> A = {})
  BY <1>5, FS_EmptySet, FS_CardinalityType
<1> QED
  BY <1>1, <1>8, <1>9, <1>10

LEMMA FreshAgrees ==
  ASSUME TableOK, ReportOK, Fresh
  PROVE  UndisturbedReportAgrees
<1> DEFINE S == Period(report.app, report.rng)
<1> SUFFICES ASSUME report.timeseries /= <<>>, report.since = {},
                    \A r \in S : ~ (r.ts > now)
             PROVE  LET ts == report.timeseries[1]
                        attacks == Total(ts, "blocked") + Total(ts, "detected")
                    IN /\ Total(ts, "total") = Cardinality(S)
                       /\ Total(ts, "total") = attacks + Total(ts, "allowed")
                       /\ report.by_category /= <<>> =>
                            attacks <= SumFunction(report.by_category[1])
                       /\ report.top_ips /= <<>> =>
                            /\ SumFunction([l \in report.top_ips[1] |-> l.attacks]) <= attacks
                            /\ attacks > 0 => \E l \in report.top_ips[1] : l.attacks > 0
                       /\ report.top_paths /= <<>> =>
                            (attacks > 0) = (report.top_paths[1] /= {})
                       /\ report.threat /= <<>> =>
                            report.threat[1].attacks \in {0, attacks}
  BY DEF UndisturbedReportAgrees
<1>1. PICK a, g : a = report.app /\ g = report.rng
  OBVIOUS
<1>2. PICK P : P = Period(a, g)
  OBVIOUS
<1>3. PICK ts : ts = TimeSeries(a, g)
  OBVIOUS
<1>4. S = P /\ report.timeseries[1] = ts
  BY <1>1, <1>2, <1>3 DEF Fresh
<1>5. IsFiniteSet(P) /\ \A r \in P : RowOK(r)
  BY <1>2, PeriodRows
<1>6. \A r \in P : r.ts <= now
  BY <1>4, <1>5 DEF TableOK, RowOK
<1>7. \A k \in Kinds : Total(ts, k) = Cardinality(Kind(P, k)) /\ Total(ts, k) \in Nat
  BY <1>2, <1>3, <1>6, SeriesExact
<1>8. PICK n : n = Cardinality(Attacks(P))
  OBVIOUS
<1>9. Total(ts, "blocked") + Total(ts, "detected") = n /\ n \in Nat
  BY <1>5, <1>7, <1>8, AttackCount DEF Kinds
<1>10. Total(ts, "total") = Cardinality(P)
  <2>1. Kind(P, "total") = P
    BY DEF Kind
  <2> QED
    BY <1>7, <2>1 DEF Kinds
<1>11. Cardinality(P) = n + Total(ts, "allowed")
  BY <1>5, <1>7, <1>8, AttackCount DEF Kinds
<1>12. ASSUME report.by_category /= <<>> PROVE n <= SumFunction(report.by_category[1])
  <2>1. PICK f : f = ByCategory(a, g)
    OBVIOUS
  <2>2. report.by_category[1] = f
    BY <1>1, <1>12, <2>1 DEF Fresh
  <2>3. n <= SumFunction(f)
    BY <1>2, <1>8, <2>1, CategoriesCount
  <2> QED
    BY <2>2, <2>3
<1>13. ASSUME report.top_ips /= <<>>
       PROVE  /\ SumFunction([l \in report.top_ips[1] |-> l.attacks]) <= n
              /\ n > 0 => \E l \in report.top_ips[1] : l.attacks > 0
  <2>1. PICK T \in TopIPs(a, g) : report.top_ips = <<T>>
    BY <1>1, <1>13 DEF Fresh
  <2>2. report.top_ips[1] = T
    BY <2>1
  <2> QED
    BY <1>2, <1>8, <2>2, TopIPsCount
<1>14. ASSUME report.top_paths /= <<>>
       PROVE  n > 0 <=> report.top_paths[1] /= {}
  <2>1. PICK T \in TopPaths(a, g) : report.top_paths = <<T>>
    BY <1>1, <1>14 DEF Fresh
  <2>2. report.top_paths[1] = T
    BY <2>1
  <2> QED
    BY <1>2, <1>8, <2>2, TopPathsCount
<1>15. ASSUME report.threat /= <<>> PROVE report.threat[1].attacks \in {0, n}
  <2>1. PICK R \in {{}, Attacks(P)} : report.threat = <<Threat(R)>>
    BY <1>1, <1>2, <1>15 DEF Fresh
  <2>2. PICK t : t = Threat(R)
    OBVIOUS
  <2>3. report.threat[1] = t
    BY <2>1, <2>2
  <2>4. t.attacks = Cardinality(R)
    BY <2>2 DEF Threat
  <2> QED
    BY <1>8, <2>1, <2>3, <2>4, FS_EmptySet
<1> HIDE DEF S
<1> QED
  BY <1>4, <1>9, <1>10, <1>11, <1>12, <1>13, <1>14, <1>15

LEMMA CoveredAgrees ==
  ASSUME Covered
  PROVE  LaterPartsCoverSeries
<1> SUFFICES ASSUME report.timeseries /= <<>>, "purge" \notin report.since
             PROVE  /\ report.verdicts /= <<>> =>
                         \A f \in {"total", "blocked", "detected", "allowed"} :
                           Total(report.timeseries[1], f) <= report.verdicts[1][f]
                    /\ report.threat /= <<>> /\ report.rng = "all" =>
                         \/ report.threat[1].attacks = 0
                         \/ Total(report.timeseries[1], "blocked")
                            + Total(report.timeseries[1], "detected")
                              <= report.threat[1].attacks
  BY DEF LaterPartsCoverSeries
<1> QED
  BY DEF Covered, VerdictsCover, ThreatCovers, Kinds

LEMMA ThreatAgrees ==
  ASSUME ThreatOK
  PROVE  LevelHasCause
<1> SUFFICES ASSUME NEW t \in ToSet(report.threat)
             PROVE  /\ t.level.gauge \in 0 .. 100
                    /\ t.attacks = 0 => t.level = [gauge |-> 0, level |-> "faible"]
                    /\ t.level.level = "critique" => t.max >= 6
                    /\ t.level.level = "eleve" => t.max >= 3
                    /\ t.max >= 10 /\ t.attacks = 1 => t.level.level = "critique"
  BY DEF LevelHasCause
<1>1. report.threat /= <<>>
  BY DEF ToSet
<1>2. PICK S : Scored(S) /\ report.threat = <<Threat(S)>>
  BY <1>1 DEF ThreatOK
<1>3. t = Threat(S)
  BY <1>2 DEF ToSet
<1> QED
  BY <1>2, <1>3, ThreatHasCause

-----------------------------------------------------------------------------
(* The invariant and what follows from it.                                  *)

\* What every step keeps: the table and the report are well formed, the parts
\* of an undisturbed report are current, the table covers its series as long
\* as nothing is purged, and its threat is that of some rows.
Inv == TableOK /\ ReportOK /\ ThreatOK /\ Fresh /\ Covered

LEMMA Inductive ==
  /\ Init => Inv
  /\ Inv /\ [Next]_vars => Inv'
<1>1. Init => Inv
  <2> SUFFICES ASSUME Init PROVE Inv
    OBVIOUS
  <2>1. report.timeseries = <<>> /\ report.threat = <<>>
    BY DEF Init, NoReport
  <2>2. ThreatOK /\ Fresh /\ Covered
    BY <2>1 DEF ThreatOK, Fresh, Covered
  <2> QED
    BY <2>2, TableInit, ReportInit DEF Inv
<1>2. ASSUME Inv, [Next]_vars PROVE Inv'
  <2>1. TableOK /\ ReportOK /\ ThreatOK /\ Fresh /\ Covered
    BY <1>2 DEF Inv
  <2> QED
    BY <1>2, <2>1, TableNext, ReportNext, ThreatNext, FreshNext, CoveredNext DEF Inv
<1> QED
  BY <1>1, <1>2

LEMMA Always == Spec => []Inv
BY Inductive, PTL DEF Spec

\* The table is well formed: finitely many rows, each with a number of its own
\* below the next of the sequence (Store.insert, Store.purge).
THEOREM TableWellFormed == Spec => []TableOK
<1>1. Inv => TableOK
  BY DEF Inv
<1> QED
  BY <1>1, Always, PTL

\* As long as nothing was inserted or purged and the clock stood still since
\* its series was read, the parts of a report agree with it: every row is in
\* one bucket unless it is dated after the clock, the categories count every
\* attack, the addresses none twice, and neither list is cut to nothing
\* (Store.Analytics).
THEOREM UndisturbedReportsAgree == Spec => []UndisturbedReportAgrees
<1>1. Inv => UndisturbedReportAgrees
  BY FreshAgrees DEF Inv
<1> QED
  BY <1>1, Always, PTL

\* Whatever is logged meanwhile and however the clock moves, the verdicts cover
\* those of the series, and for all the history so does the threat, unless a
\* purge came in between (Store.Analytics, Store.Stats).
THEOREM LaterPartsCover == Spec => []LaterPartsCoverSeries
<1>1. Inv => LaterPartsCoverSeries
  BY CoveredAgrees DEF Inv
<1> QED
  BY <1>1, Always, PTL

\* The gauge is on its scale and a level has a cause among the scores, whatever
\* the rows and the volumes that raise it (Store.Analytics, threat_score).
THEOREM LevelsHaveCauses == Spec => []LevelHasCause
<1>1. Inv => LevelHasCause
  BY ThreatAgrees DEF Inv
<1> QED
  BY <1>1, Always, PTL

-----------------------------------------------------------------------------
(* The lists of events.                                                     *)

\* s lists the rows of S by increasing id.
Lists(s, S) ==
  /\ s \in [1 .. Cardinality(S) -> S]
  /\ \A i, j \in DOMAIN s : i < j => s[i].id < s[j].id

\* Rows that can be told apart and ordered by their ids.
Numbered(S) ==
  /\ IsFiniteSet(S)
  /\ \A r \in S : r.id \in Nat
  /\ \A r, q \in S : r.id = q.id => r = q

\* The rows of S up to r: their number is the rank of r.
UpTo(S, r) == {q \in S : q.id <= r.id}

LEMMA RanksAre ==
  ASSUME NEW S, Numbered(S), NEW rank, rank = [r \in S |-> Cardinality(UpTo(S, r))]
  PROVE  /\ rank \in Injection(S, 1 .. Cardinality(S))
         /\ \A r, q \in S : rank[r] < rank[q] => r.id < q.id
<1>1. PICK n \in Nat : n = Cardinality(S)
  BY FS_CardinalityType DEF Numbered
<1>2. ASSUME NEW r \in S
      PROVE  /\ IsFiniteSet(UpTo(S, r)) /\ rank[r] = Cardinality(UpTo(S, r))
             /\ rank[r] \in 1 .. n
  <2>1. UpTo(S, r) \in SUBSET S /\ r \in UpTo(S, r)
    BY DEF UpTo, Numbered
  <2>2. IsFiniteSet(UpTo(S, r)) /\ Cardinality(UpTo(S, r)) <= n
    BY <1>1, <2>1, FS_Subset DEF Numbered
  <2>3. Cardinality(UpTo(S, r)) \in Nat /\ Cardinality(UpTo(S, r)) /= 0
    BY <2>1, <2>2, FS_EmptySet, FS_CardinalityType
  <2> QED
    BY <2>2, <2>3
<1>3. ASSUME NEW r \in S, NEW q \in S, r.id < q.id PROVE rank[r] < rank[q]
  <2>1. UpTo(S, r) \in SUBSET UpTo(S, q) /\ q \in UpTo(S, q) /\ q \notin UpTo(S, r)
    BY <1>3 DEF UpTo, Numbered
  <2>2. Cardinality(UpTo(S, r)) <= Cardinality(UpTo(S, q))
    BY <1>2, <2>1, FS_Subset
  <2>3. Cardinality(UpTo(S, r)) /= Cardinality(UpTo(S, q))
    BY <1>2, <2>1, FS_Subset
  <2> QED
    BY <1>2, <2>2, <2>3
<1>4. ASSUME NEW r \in S, NEW q \in S, rank[r] < rank[q] PROVE r.id < q.id
  <2>1. CASE r.id = q.id
    <3>1. r = q
      BY <2>1 DEF Numbered
    <3> QED
      BY <1>2, <1>4, <3>1
  <2>2. CASE q.id < r.id
    BY <1>2, <1>3, <1>4, <2>2
  <2> QED
    BY <2>1, <2>2 DEF Numbered
<1>5. ASSUME NEW r \in S, NEW q \in S, rank[r] = rank[q] PROVE r = q
  <2>1. ~ (r.id < q.id) /\ ~ (q.id < r.id)
    BY <1>2, <1>3, <1>5
  <2> QED
    BY <2>1 DEF Numbered
<1>6. rank \in [S -> 1 .. n]
  BY <1>2
<1> QED
  BY <1>1, <1>4, <1>5, <1>6 DEF Injection, IsInjective

LEMMA IntervalSize ==
  ASSUME NEW n \in Nat
  PROVE  IsFiniteSet(1 .. n) /\ Cardinality(1 .. n) = n
<1>1. 1 \in Int /\ n \in Int
  OBVIOUS
<1>2. IsFiniteSet(1 .. n) /\ Cardinality(1 .. n) = IF 1 > n THEN 0 ELSE n - 1 + 1
  BY <1>1, FS_Interval, Zenon
<1> QED
  BY <1>2

\* ORDER BY id lists every row once.
LEMMA ByIdIs ==
  ASSUME NEW S, Numbered(S)
  PROVE  Lists(ById(S), S) /\ \A r \in S : \E i \in DOMAIN ById(S) : ById(S)[i] = r
<1>1. PICK n \in Nat : n = Cardinality(S)
  BY FS_CardinalityType DEF Numbered
<1>2. PICK I : I = 1 .. n
  OBVIOUS
<1>3. IsFiniteSet(I) /\ Cardinality(I) = n
  BY <1>2, IntervalSize
<1>4. \E s : Lists(s, S)
  <2>1. PICK rank : rank = [r \in S |-> Cardinality(UpTo(S, r))]
    OBVIOUS
  <2>2. /\ rank \in Injection(S, I)
        /\ \A r, q \in S : rank[r] < rank[q] => r.id < q.id
    BY <1>1, <1>2, <2>1, RanksAre
  <2>3. rank \in Surjection(S, I)
    BY <1>1, <1>3, <2>2, FS_Injection
  <2>4. PICK s : s = [i \in I |-> CHOOSE r \in S : rank[r] = i]
    OBVIOUS
  <2>5. \A i \in I : s[i] \in S /\ rank[s[i]] = i
    <3>1. \A i \in I : \E r \in S : rank[r] = i
      BY <2>3 DEF Surjection
    <3> QED
      BY <2>4, <3>1
  <2>6. s \in [I -> S]
    BY <2>4, <2>5
  <2>7. \A i, j \in DOMAIN s : i < j => s[i].id < s[j].id
    BY <2>2, <2>5, <2>6
  <2> QED
    BY <1>1, <1>2, <2>6, <2>7 DEF Lists
<1>5. PICK s : s = ById(S)
  OBVIOUS
<1>6. Lists(s, S)
  BY <1>4, <1>5 DEF ById, Lists
<1>7. s \in [I -> S] /\ \A i, j \in I : i < j => s[i].id < s[j].id
  BY <1>1, <1>2, <1>6 DEF Lists
<1>8. s \in Injection(I, S)
  <2>1. ASSUME NEW i \in I, NEW j \in I, s[i] = s[j] PROVE i = j
    <3>1. s[i].id \in Nat /\ s[i] \in S
      BY <1>7 DEF Numbered
    <3>2. ~ (i < j) /\ ~ (j < i)
      BY <1>7, <2>1, <3>1
    <3> QED
      BY <1>2, <3>2
  <2> QED
    BY <1>7, <2>1 DEF Injection, IsInjective
<1>9. s \in Surjection(I, S)
  BY <1>1, <1>3, <1>8, FS_Injection DEF Numbered
<1>10. \A r \in S : \E i \in I : s[i] = r
  BY <1>9 DEF Surjection
<1> QED
  BY <1>5, <1>6, <1>7, <1>10

\* What is used of the list: its length, its order and that it has every row.
LEMMA ListFacts ==
  ASSUME NEW S, Numbered(S), NEW s, s = ById(S)
  PROVE  /\ s \in Seq(S) /\ Len(s) \in Nat /\ Len(s) = Cardinality(S)
         /\ \A i \in 1 .. Len(s) : s[i] \in S /\ s[i].id \in Nat
         /\ \A i, j \in 1 .. Len(s) : i < j => s[i].id < s[j].id
         /\ \A r \in S : \E i \in 1 .. Len(s) : s[i] = r
<1>1. PICK n \in Nat : n = Cardinality(S)
  BY FS_CardinalityType DEF Numbered
<1>2. /\ s \in [1 .. n -> S]
      /\ \A i, j \in DOMAIN s : i < j => s[i].id < s[j].id
      /\ \A r \in S : \E i \in DOMAIN s : s[i] = r
  BY <1>1, ByIdIs DEF Lists
<1>3. s \in Seq(S)
  BY <1>2, SeqDef
<1>4. Len(s) = n
  BY <1>2, <1>3, LenProperties
<1>5. DOMAIN s = 1 .. n
  BY <1>2
<1>6. \A i \in 1 .. n : s[i] \in S /\ s[i].id \in Nat
  BY <1>2 DEF Numbered
<1> QED
  BY <1>1, <1>2, <1>3, <1>4, <1>5, <1>6

LEMMA FirstRowsIs ==
  ASSUME NEW S, NEW s \in Seq(S), NEW m \in Nat
  PROVE  /\ FirstRows(s, m) \in Seq(S)
         /\ Len(FirstRows(s, m)) = IF m < Len(s) THEN m ELSE Len(s)
         /\ \A i \in 1 .. Len(FirstRows(s, m)) : FirstRows(s, m)[i] = s[i]
<1>1. PICK l \in Nat : l = IF m < Len(s) THEN m ELSE Len(s)
  OBVIOUS
<1>2. FirstRows(s, m) = SubSeq(s, 1, l)
  BY <1>1 DEF FirstRows
<1>3. 1 \in Int /\ l \in Int /\ \A i \in 1 .. l : s[i] \in S
  BY <1>1
<1>4. /\ SubSeq(s, 1, l) \in Seq(S)
      /\ Len(SubSeq(s, 1, l)) = IF 1 <= l THEN l - 1 + 1 ELSE 0
      /\ \A i \in 1 .. l - 1 + 1 : SubSeq(s, 1, l)[i] = s[1 + i - 1]
  BY <1>3, SubSeqProperties
<1>5. Len(SubSeq(s, 1, l)) = l
  BY <1>4
<1>6. \A i \in 1 .. l : SubSeq(s, 1, l)[i] = s[i]
  <2> SUFFICES ASSUME NEW i \in 1 .. l PROVE SubSeq(s, 1, l)[i] = s[i]
    OBVIOUS
  <2>1. i \in 1 .. l - 1 + 1 /\ 1 + i - 1 = i
    OBVIOUS
  <2> QED
    BY <1>4, <2>1
<1> QED
  BY <1>1, <1>2, <1>4, <1>5, <1>6

LEMMA NumberedRows ==
  ASSUME TableOK, NEW S \in SUBSET events
  PROVE  Numbered(S)
<1>1. IsFiniteSet(S)
  BY FS_Subset DEF TableOK
<1> QED
  BY <1>1 DEF TableOK, RowOK, Numbered

LEMMA LimitIs ==
  ASSUME NEW n \in Int, NEW max \in Nat, NEW default \in Nat \ {0}
  PROVE  Limit(n, max, default) \in Nat \ {0}
BY DEF Limit

LEMMA ReverseIs ==
  ASSUME NEW S, NEW s \in Seq(S)
  PROVE  /\ Reverse(s) \in Seq(S) /\ Len(Reverse(s)) = Len(s)
         /\ \A i \in 1 .. Len(s) : Reverse(s)[i] = s[(Len(s) - i) + 1]
<1>1. PICK n \in Nat : n = Len(s)
  OBVIOUS
<1>2. PICK t : t = [i \in 1 .. n |-> s[(n - i) + 1]]
  OBVIOUS
<1>3. \A i \in 1 .. n : (n - i) + 1 \in 1 .. n /\ s[(n - i) + 1] \in S
  BY <1>1
<1>4. t \in [1 .. n -> S]
  BY <1>2, <1>3
<1>5. t \in Seq(S)
  BY <1>4, SeqDef
<1>6. Len(t) = n
  BY <1>4, <1>5, LenProperties
<1>7. Reverse(s) = t
  BY <1>1, <1>2 DEF Reverse
<1> QED
  BY <1>1, <1>2, <1>5, <1>6, <1>7

LEMMA ElementsAre ==
  ASSUME NEW S, NEW s \in Seq(S)
  PROVE  ToSet(s) = {s[i] : i \in 1 .. Len(s)} /\ ToSet(s) \subseteq S
<1>1. DOMAIN s = 1 .. Len(s) /\ s \in [1 .. Len(s) -> S]
  BY LenProperties
<1>2. ToSet(s) = {s[i] : i \in 1 .. Len(s)}
  BY <1>1 DEF ToSet
<1> QED
  BY <1>1, <1>2

LEMMA TimelinesHonest ==
  ASSUME TableOK
  PROVE  TimelineHonest
<1> SUFFICES ASSUME NEW ip
             PROVE  LET own == From(ip)
                        tl == TimelineByIP(ip, TimelineLimit)
                    IN /\ \A r \in own : r.id < Last(tl.events).id => r \in ToSet(tl.events)
                       /\ own /= {} =>
                            \E r \in own : r.ts = tl.seen[1] /\ \A q \in own : r.id <= q.id
                       /\ Cardinality(own) <= TimelineLimit =>
                            /\ tl.tally = Tally(own)
                            /\ \A r \in own : r.score <= tl.max
                            /\ own /= {} =>
                                 \E r \in own : r.ts = tl.seen[2]
                                                /\ \A q \in own : r.id >= q.id
  BY DEF TimelineHonest
<1>1. PICK own : own = From(ip)
  OBVIOUS
<1>2. own \in SUBSET events /\ Numbered(own)
  <2>1. own \in SUBSET events
    BY <1>1 DEF From
  <2> QED
    BY <2>1, NumberedRows
<1>3. PICK s : s = ById(own)
  OBVIOUS
<1>4. /\ s \in Seq(own) /\ Len(s) \in Nat /\ Len(s) = Cardinality(own)
      /\ \A i \in 1 .. Len(s) : s[i] \in own /\ s[i].id \in Nat
      /\ \A i, j \in 1 .. Len(s) : i < j => s[i].id < s[j].id
      /\ \A r \in own : \E i \in 1 .. Len(s) : s[i] = r
  BY <1>2, <1>3, ListFacts
<1>5. PICK m \in Nat \ {0} : m = Limit(TimelineLimit, 1000, 300) /\ m = TimelineLimit
  BY LimitAssumption DEF Limit
<1> DEFINE list == FirstRows(ById(From(ip)), Limit(TimelineLimit, 1000, 300))
           answer == TimelineByIP(ip, TimelineLimit)
<1>0. answer = [events |-> list, tally |-> Tally(ToSet(list)),
                 max |-> Max({0} \cup {r.score : r \in ToSet(list)}),
                 seen |-> IF list = <<>> THEN <<>> ELSE <<list[1].ts, Last(list).ts>>]
  BY DEF TimelineByIP
<1>6. list = FirstRows(s, m)
  BY <1>1, <1>3, <1>5
<1> HIDE DEF list
<1>7. PICK n \in Nat : n = Len(s)
  BY <1>4
<1>8. PICK l \in Nat : l = Len(list) /\ l = IF m < n THEN m ELSE n
  BY <1>4, <1>6, <1>7, FirstRowsIs
<1>9. \A i \in 1 .. l : list[i] = s[i]
  BY <1>4, <1>6, <1>8, FirstRowsIs
<1>10. list \in Seq(own)
  BY <1>4, <1>6, FirstRowsIs
<1>11. ToSet(list) = {list[i] : i \in 1 .. l}
  BY <1>8, <1>10, ElementsAre
<1>12. PICK tl : tl = TimelineByIP(ip, TimelineLimit)
  OBVIOUS
<1>13. /\ tl.events = list /\ tl.tally = Tally(ToSet(list))
       /\ tl.max = Max({0} \cup {r.score : r \in ToSet(list)})
       /\ tl.seen = IF list = <<>> THEN <<>> ELSE <<list[1].ts, Last(list).ts>>
  <2>1. tl = [events |-> list, tally |-> Tally(ToSet(list)),
              max |-> Max({0} \cup {r.score : r \in ToSet(list)}),
              seen |-> IF list = <<>> THEN <<>> ELSE <<list[1].ts, Last(list).ts>>]
    BY <1>12, <1>0, Zenon
  <2> QED
    BY <2>1
<1>14. list /= <<>> <=> l /= 0
  BY <1>8, <1>10, EmptySeq
<1>15. own /= {} => l /= 0 /\ n /= 0
  BY <1>4, <1>5, <1>7, <1>8
<1>16. l /= 0 => /\ Last(list) = s[l] /\ list[1] = s[1]
                 /\ tl.seen[1] = s[1].ts /\ tl.seen[2] = s[l].ts
  <2> SUFFICES ASSUME l /= 0
               PROVE  /\ Last(list) = s[l] /\ list[1] = s[1]
                      /\ tl.seen[1] = s[1].ts /\ tl.seen[2] = s[l].ts
    OBVIOUS
  <2>1. Last(list) = list[l]
    BY <1>8 DEF Last
  <2>2. list[l] = s[l] /\ list[1] = s[1]
    BY <1>9
  <2>3. tl.seen = <<list[1].ts, Last(list).ts>>
    BY <1>13, <1>14
  <2> QED
    BY <2>1, <2>2, <2>3
<1>17. ASSUME NEW r \in own, r.id < Last(list).id PROVE r \in ToSet(list)
  <2>1. PICK i \in 1 .. n : s[i] = r
    BY <1>4, <1>7
  <2>2. l \in 1 .. n /\ Last(list) = s[l]
    BY <1>8, <1>15, <1>16
  <2>3. i < l
    <3>1. /\ s[i].id \in Nat /\ s[l].id \in Nat
          /\ l < i => s[l].id < s[i].id
      BY <1>4, <1>7, <2>1, <2>2
    <3> QED
      BY <1>17, <2>1, <2>2, <3>1
  <2>4. i \in 1 .. l /\ list[i] = r
    BY <1>9, <2>1, <2>2, <2>3
  <2> QED
    BY <1>11, <2>4
<1>18. ASSUME own /= {}
       PROVE  \E r \in own : r.ts = tl.seen[1] /\ \A q \in own : r.id <= q.id
  <2>1. s[1] \in own /\ s[1].ts = tl.seen[1] /\ s[1].id \in Nat
    BY <1>4, <1>7, <1>15, <1>16, <1>18
  <2>2. ASSUME NEW q \in own PROVE s[1].id <= q.id
    <3>1. PICK i \in 1 .. n : s[i] = q
      BY <1>4, <1>7
    <3>2. q.id \in Nat /\ (1 < i => s[1].id < s[i].id)
      BY <1>4, <1>7, <3>1
    <3> QED
      BY <2>1, <3>1, <3>2
  <2> QED
    BY <2>1, <2>2
<1>19. ASSUME Cardinality(own) <= TimelineLimit
       PROVE  /\ tl.tally = Tally(own)
              /\ \A r \in own : r.score <= tl.max
              /\ own /= {} => \E r \in own : r.ts = tl.seen[2] /\ \A q \in own : r.id >= q.id
  <2>1. l = n
    BY <1>4, <1>5, <1>7, <1>8, <1>19
  <2>2. ToSet(list) = own
    <3>1. \A i \in 1 .. l : list[i] \in own
      BY <1>4, <1>7, <1>9, <2>1
    <3>2. \A r \in own : \E i \in 1 .. l : list[i] = r
      BY <1>4, <1>7, <1>9, <2>1
    <3> QED
      BY <1>11, <3>1, <3>2
  <2>3. tl.tally = Tally(own)
    BY <1>13, <2>2
  <2>4. \A r \in own : r.score <= tl.max
    <3>1. Scored(own)
      BY <1>2 DEF Scored, Numbered, TableOK, RowOK
    <3>2. tl.max = Gravest(own)
      BY <1>13, <2>2 DEF Gravest
    <3> QED
      BY <3>1, <3>2, GravestIs
  <2>5. ASSUME own /= {}
        PROVE  \E r \in own : r.ts = tl.seen[2] /\ \A q \in own : r.id >= q.id
    <3>1. s[n] \in own /\ s[n].ts = tl.seen[2] /\ s[n].id \in Nat /\ n \in 1 .. n
      BY <1>4, <1>7, <1>15, <1>16, <2>1, <2>5
    <3>2. ASSUME NEW q \in own PROVE s[n].id >= q.id
      <4>1. PICK i \in 1 .. n : s[i] = q
        BY <1>4, <1>7
      <4>2. q.id \in Nat /\ (i < n => s[i].id < s[n].id)
        BY <1>4, <1>7, <3>1, <4>1
      <4> QED
        BY <3>1, <4>1, <4>2
    <3> QED
      BY <3>1, <3>2
  <2> QED
    BY <2>3, <2>4, <2>5
<1> QED
  BY <1>1, <1>12, <1>13, <1>17, <1>18, <1>19

LEMMA RecentsNewest ==
  ASSUME TableOK
  PROVE  RecentIsNewest
<1> SUFFICES ASSUME NEW app, NEW x \in {0, 1, 2, 501}
             PROVE  LET list == Recent(x, app)
                    IN /\ \A i, j \in 1 .. Len(list) : i < j => list[i].id >= list[j].id
                       /\ ToSet(list) \subseteq Of(app)
                       /\ \A r \in Of(app) \ ToSet(list) :
                            /\ Len(list) = Limit(x, 500, 100)
                            /\ \A q \in ToSet(list) : r.id < q.id
  BY DEF RecentIsNewest, IsSorted
<1>1. PICK own : own = Of(app)
  OBVIOUS
<1>2. Numbered(own)
  <2>1. own \in SUBSET events
    BY <1>1 DEF Of
  <2> QED
    BY <2>1, NumberedRows
<1>3. PICK s : s = ById(own)
  OBVIOUS
<1>4. /\ s \in Seq(own) /\ Len(s) \in Nat
      /\ \A i \in 1 .. Len(s) : s[i] \in own /\ s[i].id \in Nat
      /\ \A i, j \in 1 .. Len(s) : i < j => s[i].id < s[j].id
      /\ \A r \in own : \E i \in 1 .. Len(s) : s[i] = r
  BY <1>2, <1>3, ListFacts
<1>5. PICK m \in Nat \ {0} : m = Limit(x, 500, 100)
  BY DEF Limit
<1>6. PICK rev : rev = Reverse(s)
  OBVIOUS
<1>7. PICK n \in Nat : n = Len(s)
  BY <1>4
<1>8. /\ rev \in Seq(own) /\ Len(rev) = n
      /\ \A i \in 1 .. n : rev[i] = s[(n - i) + 1]
  <2>1. s \in Seq(own)
    BY <1>4
  <2>2. /\ Reverse(s) \in Seq(own) /\ Len(Reverse(s)) = Len(s)
        /\ \A i \in 1 .. Len(s) : Reverse(s)[i] = s[(Len(s) - i) + 1]
    BY <2>1, ReverseIs
  <2> QED
    BY <1>6, <1>7, <2>2
<1>9. PICK list : list = FirstRows(rev, m)
  OBVIOUS
<1>10. PICK l \in Nat : l = Len(list) /\ l = IF m < n THEN m ELSE n
  BY <1>8, <1>9, FirstRowsIs
<1>11. \A i \in 1 .. l : list[i] = s[(n - i) + 1]
  <2>1. rev \in Seq(own) /\ m \in Nat
    BY <1>8
  <2>2. \A i \in 1 .. Len(FirstRows(rev, m)) : FirstRows(rev, m)[i] = rev[i]
    BY <2>1, FirstRowsIs
  <2>3. \A i \in 1 .. l : list[i] = rev[i]
    BY <1>9, <1>10, <2>2
  <2> QED
    BY <1>8, <1>10, <2>3
<1>12. list \in Seq(own)
  BY <1>8, <1>9, FirstRowsIs
<1>13. ToSet(list) = {list[i] : i \in 1 .. l}
  BY <1>10, <1>12, ElementsAre
<1>14. Recent(x, app) = list
  BY <1>1, <1>3, <1>5, <1>6, <1>9 DEF Recent
<1>15. \A i, j \in 1 .. l : i < j => list[i].id >= list[j].id
  <2> SUFFICES ASSUME NEW i \in 1 .. l, NEW j \in 1 .. l, i < j
               PROVE  list[i].id >= list[j].id
    OBVIOUS
  <2>1. PICK y, z \in 1 .. n : y = (n - i) + 1 /\ z = (n - j) + 1
    BY <1>10
  <2>2. z < y
    BY <2>1
  <2>3. s[z].id < s[y].id /\ s[z].id \in Nat /\ s[y].id \in Nat
    <3>1. y \in 1 .. Len(s) /\ z \in 1 .. Len(s)
      BY <1>7
    <3> QED
      BY <1>4, <2>2, <3>1
  <2>4. list[i] = s[y] /\ list[j] = s[z]
    BY <1>11, <2>1
  <2> QED
    BY <2>3, <2>4
<1>16. ToSet(list) \subseteq own
  BY <1>12, ElementsAre
<1>17. ASSUME NEW r \in own \ ToSet(list)
       PROVE  l = m /\ \A q \in ToSet(list) : r.id < q.id
  <2>1. PICK k \in 1 .. n : s[k] = r
    BY <1>4, <1>7
  <2>2. PICK i \in 1 .. n : k = (n - i) + 1
    <3>1. (n - k) + 1 \in 1 .. n /\ k = (n - ((n - k) + 1)) + 1
      OBVIOUS
    <3> QED
      BY <3>1
  <2>3. i \notin 1 .. l
    <3>1. i \in 1 .. l => list[i] = r
      BY <1>11, <2>1, <2>2
    <3> QED
      BY <1>13, <1>17, <3>1
  <2>4. l < i /\ l = m
    BY <1>10, <2>2, <2>3
  <2>5. ASSUME NEW q \in ToSet(list) PROVE r.id < q.id
    <3>1. PICK j \in 1 .. l : q = list[j]
      BY <1>13
    <3>2. PICK z \in 1 .. n : z = (n - j) + 1
      BY <1>10
    <3>3. k < z
      BY <2>2, <2>4, <3>2
    <3>4. q = s[z]
      BY <1>11, <3>1, <3>2
    <3> QED
      BY <1>4, <1>7, <2>1, <3>3, <3>4
  <2> QED
    BY <2>4, <2>5
<1>18. Len(list) = l
  BY <1>10
<1>19. \A i, j \in 1 .. Len(list) : i < j => list[i].id >= list[j].id
  BY <1>15, <1>18
<1>20. \A r \in Of(app) \ ToSet(list) : /\ Len(list) = Limit(x, 500, 100)
                                      /\ \A q \in ToSet(list) : r.id < q.id
  BY <1>1, <1>5, <1>17, <1>18
<1> QED
  BY <1>1, <1>14, <1>16, <1>19, <1>20

\* Recent lists the newest rows of an application, the newest first, and a
\* timeline the oldest of its address, from the first, whatever the clock and
\* the purges did (Store.Recent, Store.TimelineByIP).
THEOREM ListsAreHonest == Spec => []ListsHonest
<1>1. Inv => ListsHonest
  BY TimelinesHonest, RecentsNewest DEF Inv, ListsHonest
<1> QED
  BY <1>1, Always, PTL

=============================================================================
