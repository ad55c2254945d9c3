------------------------------- MODULE FoldLemmas -------------------------------
(***************************************************************************)
(* What the folds of the model compute, for every finite set: sums over    *)
(* the orders of a book.  A fold is a recursive function on the subsets of *)
(* the set folded over.  Induction is on sets of naturals (NatSets) and of *)
(* subsets (Subsets): the set of all cases for which a fact holds, in the  *)
(* place of the predicate that says it.                                    *)
(***************************************************************************)
EXTENDS FiniteSetsExt, FiniteSetTheorems, TLAPS

\* A set of naturals with 0, and with n + 1 if it has n, has them all.
LEMMA NatSets ==
    ASSUME NEW good, 0 \in good, \A n \in Nat : n \in good => n + 1 \in good
    PROVE  Nat \subseteq good
<1> SUFFICES ASSUME Nat \ good # {} PROVE FALSE
  OBVIOUS
<1>1. PICK m \in Nat \ good :
        \A k \in Nat \ good : ~(<<k, m>> \in OpToRel(<, Nat))
  BY NatLessThanWellFounded, WFMin, Zenon
<1>2. \A k \in Nat : k < m => k \in good
  BY <1>1 DEF OpToRel
<1>3. m # 0
  OBVIOUS
<1>4. m - 1 \in Nat /\ m - 1 < m /\ (m - 1) + 1 = m
  BY <1>3
<1> QED  BY <1>2, <1>4

\* A fact about all subsets of S, proved for each from its smaller subsets.
LEMMA Subsets ==
    ASSUME NEW S, IsFiniteSet(S), NEW good,
           \A s \in SUBSET S :
              (\A x \in s : s \ {x} \in good) => s \in good
    PROVE  SUBSET S \subseteq good
<1> DEFINE sized == {n \in Nat : \A s \in SUBSET S : Cardinality(s) = n => s \in good}
<1>1. \A s \in SUBSET S : IsFiniteSet(s) /\ Cardinality(s) \in Nat
  BY FS_Subset, FS_CardinalityType
<1>2. 0 \in sized
  BY <1>1, FS_EmptySet
<1>3. ASSUME NEW n \in Nat, n \in sized
      PROVE  n + 1 \in sized
  <2>1. ASSUME NEW s \in SUBSET S, Cardinality(s) = n + 1
        PROVE  s \in good
    <3>1. \A x \in s : Cardinality(s \ {x}) = n
      BY <1>1, <2>1, FS_RemoveElement
    <3>2. \A x \in s : s \ {x} \in good
      BY <1>3, <3>1
    <3> QED  BY <3>2
  <2> QED  BY <2>1
<1>4. Nat \subseteq sized
  <2> HIDE DEF sized
  <2> QED  BY <1>2, <1>3, NatSets
<1> QED  BY <1>1, <1>4

------------------------------------------------------------------------------
(* The recursive function of a fold. *)

\* What a fold takes next out of a set.
Pick(s) == CHOOSE x \in s : TRUE

LEMMA PickIn == \A s : s # {} => Pick(s) \in s
BY DEF Pick

\* step[<<x, v>>] puts x in front of the result v.
IsFold(g, step, base, S) ==
    g = [s \in SUBSET S |->
            IF s = {} THEN base ELSE step[<<Pick(s), g[s \ {Pick(s)}]>>]]

LEMMA FoldExists ==
    ASSUME NEW S, IsFiniteSet(S), NEW step, NEW base
    PROVE  \E g : IsFold(g, step, base, S)
<1> DEFINE small(n) == {s \in SUBSET S : Cardinality(s) <= n}
           body(g, s) == IF s = {} THEN base ELSE step[<<Pick(s), g[s \ {Pick(s)}]>>]
           good == {n \in Nat : \E g : g = [s \in small(n) |-> body(g, s)]}
<1>1. \A s \in SUBSET S : IsFiniteSet(s) /\ Cardinality(s) \in Nat
  BY FS_Subset, FS_CardinalityType
<1>2. \A s \in SUBSET S : s # {} =>
        /\ s \ {Pick(s)} \in SUBSET S
        /\ Cardinality(s \ {Pick(s)}) = Cardinality(s) - 1
  BY <1>1, PickIn, FS_RemoveElement
<1>3. 0 \in good
  <2> DEFINE g == [s \in small(0) |-> base]
  <2>1. \A s \in small(0) : s = {}
    BY <1>1, FS_EmptySet
  <2>2. g = [s \in small(0) |-> body(g, s)]
    BY <2>1
  <2> QED  BY <2>2
<1>4. ASSUME NEW n \in Nat, n \in good
      PROVE  n + 1 \in good
  <2>1. PICK h : h = [s \in small(n) |-> body(h, s)]
    BY <1>4
  <2> DEFINE g == [s \in small(n + 1) |->
                      IF s \in small(n) THEN h[s] ELSE body(h, s)]
  <2>2. \A s \in small(n + 1) : s # {} => s \ {Pick(s)} \in small(n)
    BY <1>1, <1>2
  <2>3. \A s \in small(n) : h[s] = body(h, s)
    BY <2>1
  <2>4. \A s \in small(n) : s \in small(n + 1)
    BY <1>1
  <2>5. \A s \in small(n) : g[s] = h[s]
    BY <2>4
  <2>6. ASSUME NEW s \in small(n + 1)
        PROVE  g[s] = body(g, s)
    <3>1. g[s] = body(h, s)
      BY <2>3
    <3>2. s # {} => g[s \ {Pick(s)}] = h[s \ {Pick(s)}]
      BY <2>2, <2>5
    <3> QED  BY <3>1, <3>2
  <2>7. g = [s \in small(n + 1) |-> body(g, s)]
    <3> HIDE DEF body
    <3> QED  BY <2>6
  <2>8. \E f : f = [s \in small(n + 1) |-> body(f, s)]
    BY <2>7
  <2> HIDE DEF body, small
  <2> QED  BY <2>8
<1>5. Cardinality(S) \in good
  <2> HIDE DEF good
  <2> QED  BY <1>3, <1>4, NatSets, FS_CardinalityType
<1>6. small(Cardinality(S)) = SUBSET S
  BY FS_Subset, FS_CardinalityType
<1> QED  BY <1>5, <1>6 DEF IsFold

------------------------------------------------------------------------------
(* Sums. *)

IsSum(g, f, S) ==
    g = [s \in SUBSET S |-> IF s = {} THEN 0 ELSE f[Pick(s)] + g[s \ {Pick(s)}]]

LEMMA SumIsUnique ==
    ASSUME NEW S, IsFiniteSet(S), NEW f, NEW g, IsSum(g, f, S),
           NEW T \in SUBSET S, NEW h, IsSum(h, f, T)
    PROVE  h[T] = g[T]
<1> DEFINE good == {s \in SUBSET T : h[s] = g[s]}
<1>1. ASSUME NEW s \in SUBSET T, \A x \in s : s \ {x} \in good
      PROVE  s \in good
  <2>1. h[s] = IF s = {} THEN 0 ELSE f[Pick(s)] + h[s \ {Pick(s)}]
    BY DEF IsSum
  <2>2. g[s] = IF s = {} THEN 0 ELSE f[Pick(s)] + g[s \ {Pick(s)}]
    BY DEF IsSum
  <2>3. s # {} => h[s \ {Pick(s)}] = g[s \ {Pick(s)}]
    BY <1>1, PickIn
  <2> QED  BY <2>1, <2>2, <2>3
<1>2. SUBSET T \subseteq good
  <2> HIDE DEF good
  <2> QED  BY <1>1, Subsets, FS_Subset
<1> QED  BY <1>2

LEMMA SumExists ==
    ASSUME NEW S, IsFiniteSet(S), NEW f, \A x \in S : f[x] \in Int
    PROVE  \E g \in [SUBSET S -> Int] : IsSum(g, f, S)
<1> DEFINE step == [p \in S \X Int |-> f[p[1]] + p[2]]
<1>1. PICK g : IsFold(g, step, 0, S)
  <2> HIDE DEF step
  <2> QED  BY FoldExists
<1> DEFINE good == {s \in SUBSET S : g[s] \in Int}
<1>2. ASSUME NEW s \in SUBSET S, s # {}, g[s \ {Pick(s)}] \in Int
      PROVE  g[s] = f[Pick(s)] + g[s \ {Pick(s)}] /\ g[s] \in Int
  <2>1. g[s] = step[<<Pick(s), g[s \ {Pick(s)}]>>]
    <3> HIDE DEF step
    <3> QED  BY <1>1, <1>2 DEF IsFold
  <2>2. Pick(s) \in S
    BY <1>2, PickIn
  <2> QED  BY <1>2, <2>1, <2>2
<1>3. g[{}] = 0
  <2> HIDE DEF step
  <2> QED  BY <1>1 DEF IsFold
<1>4. ASSUME NEW s \in SUBSET S, \A x \in s : s \ {x} \in good
      PROVE  s \in good
  <2>1. CASE s = {}
    BY <1>3, <2>1
  <2>2. CASE s # {}
    <3>1. g[s \ {Pick(s)}] \in Int
      BY <1>4, <2>2, PickIn
    <3> QED  BY <1>2, <2>2, <3>1
  <2> QED  BY <2>1, <2>2
<1>5. SUBSET S \subseteq good
  <2> HIDE DEF good
  <2> QED  BY <1>4, Subsets
<1>6. g \in [SUBSET S -> Int]
  <2>1. g = [s \in SUBSET S |-> g[s]]
    BY <1>1 DEF IsFold
  <2> QED  BY <1>5, <2>1
<1>7. ASSUME NEW s \in SUBSET S
      PROVE  g[s] = IF s = {} THEN 0 ELSE f[Pick(s)] + g[s \ {Pick(s)}]
  BY <1>2, <1>3, <1>5
<1>8. IsSum(g, f, S)
  <2> HIDE DEF step
  <2> QED  BY <1>6, <1>7 DEF IsSum
<1> QED  BY <1>6, <1>8

LEMMA SumIs ==
    ASSUME NEW S, NEW f, NEW g, IsSum(g, f, S), IsFiniteSet(S)
    PROVE  SumFunctionOnSet(f, S) = g[S]
<1>1. SumFunctionOnSet(f, S) = (CHOOSE h : IsSum(h, f, S))[S]
  BY DEF SumFunctionOnSet, FoldFunctionOnSet, MapThenFoldSet, IsSum, Pick
<1>2. IsSum((CHOOSE h : IsSum(h, f, S)), f, S)
  OBVIOUS
<1> QED  BY <1>1, <1>2, SumIsUnique

LEMMA SumPick ==
    ASSUME NEW S, IsFiniteSet(S), NEW f, \A x \in S : f[x] \in Int
    PROVE  /\ SumFunctionOnSet(f, S) \in Int
           /\ S # {} => SumFunctionOnSet(f, S) =
                           f[Pick(S)] + SumFunctionOnSet(f, S \ {Pick(S)})
           /\ SumFunctionOnSet(f, {}) = 0
<1>1. PICK g \in [SUBSET S -> Int] : IsSum(g, f, S)
  BY SumExists
<1>2. ASSUME NEW T \in SUBSET S
      PROVE  SumFunctionOnSet(f, T) = g[T]
  <2>1. IsFiniteSet(T)
    BY FS_Subset
  <2>2. PICK h \in [SUBSET T -> Int] : IsSum(h, f, T)
    BY <2>1, SumExists
  <2> QED  BY <1>1, <2>1, <2>2, SumIs, SumIsUnique
<1>3. \A s \in SUBSET S : g[s] = IF s = {} THEN 0 ELSE f[Pick(s)] + g[s \ {Pick(s)}]
  BY <1>1 DEF IsSum
<1> QED  BY <1>2, <1>3

------------------------------------------------------------------------------
(* What is said of sums elsewhere. *)

\* Any element may be taken out first.
LEMMA SumAt ==
    ASSUME NEW S, IsFiniteSet(S), NEW f, \A x \in S : f[x] \in Int, NEW y \in S
    PROVE  SumFunctionOnSet(f, S) = f[y] + SumFunctionOnSet(f, S \ {y})
<1> DEFINE good == {s \in SUBSET S : \A x \in s :
                       SumFunctionOnSet(f, s) = f[x] + SumFunctionOnSet(f, s \ {x})}
<1>1. \A s \in SUBSET S : IsFiniteSet(s) /\ SumFunctionOnSet(f, s) \in Int
  BY FS_Subset, SumPick
<1>2. ASSUME NEW s \in SUBSET S, \A x \in s : s \ {x} \in good, NEW x \in s
      PROVE  SumFunctionOnSet(f, s) = f[x] + SumFunctionOnSet(f, s \ {x})
  <2> DEFINE c == Pick(s)
  <2>1. c \in s
    BY <1>2, PickIn
  <2>2. SumFunctionOnSet(f, s) = f[c] + SumFunctionOnSet(f, s \ {c})
    BY <1>1, <1>2, SumPick
  <2> HIDE DEF c
  <2>3. CASE x # c
    <3>1. (s \ {c}) \ {x} = (s \ {x}) \ {c} /\ x \in s \ {c} /\ c \in s \ {x}
      BY <2>1, <2>3
    <3>2. SumFunctionOnSet(f, s \ {c}) = f[x] + SumFunctionOnSet(f, (s \ {c}) \ {x})
      BY <1>2, <2>1, <3>1
    <3>3. SumFunctionOnSet(f, s \ {x}) = f[c] + SumFunctionOnSet(f, (s \ {x}) \ {c})
      BY <1>2, <3>1
    <3>4. /\ f[c] \in Int /\ f[x] \in Int
          /\ SumFunctionOnSet(f, (s \ {c}) \ {x}) \in Int
      BY <1>1, <2>1
    <3> DEFINE rest == SumFunctionOnSet(f, (s \ {c}) \ {x})
    <3>5. f[c] + (f[x] + rest) = f[x] + (f[c] + rest)
      <4> HIDE DEF rest
      <4> QED  BY <3>4 DEF rest
    <3> QED  BY <2>2, <3>1, <3>2, <3>3, <3>5
  <2> QED  BY <2>2, <2>3
<1>3. SUBSET S \subseteq good
  <2>1. ASSUME NEW s \in SUBSET S, \A x \in s : s \ {x} \in good
        PROVE  s \in good
    BY <1>2, <2>1
  <2> HIDE DEF good
  <2> QED  BY <2>1, Subsets
<1> QED  BY <1>3

LEMMA SumEmpty == \A f : SumFunctionOnSet(f, {}) = 0
<1> TAKE f
<1> QED  BY FS_EmptySet, SumPick

LEMMA SumIsInt ==
    ASSUME NEW S, IsFiniteSet(S), NEW f, \A x \in S : f[x] \in Int
    PROVE  SumFunctionOnSet(f, S) \in Int
BY SumPick

\* One more element.
LEMMA SumWith ==
    ASSUME NEW S, IsFiniteSet(S), NEW y, y \notin S,
           NEW f, \A x \in S \cup {y} : f[x] \in Int
    PROVE  SumFunctionOnSet(f, S \cup {y}) = f[y] + SumFunctionOnSet(f, S)
<1>1. IsFiniteSet(S \cup {y}) /\ (S \cup {y}) \ {y} = S
  BY FS_AddElement
<1> QED  BY <1>1, SumAt

\* Only the values on the set count.
LEMMA SumSame ==
    ASSUME NEW S, IsFiniteSet(S), NEW f, \A x \in S : f[x] \in Int,
           NEW g, \A x \in S : g[x] = f[x]
    PROVE  SumFunctionOnSet(g, S) = SumFunctionOnSet(f, S)
<1> DEFINE good == {s \in SUBSET S : SumFunctionOnSet(g, s) = SumFunctionOnSet(f, s)}
<1>1. ASSUME NEW s \in SUBSET S, \A x \in s : s \ {x} \in good
      PROVE  SumFunctionOnSet(g, s) = SumFunctionOnSet(f, s)
  <2>1. CASE s = {}
    BY <2>1, SumEmpty
  <2>2. CASE s # {}
    <3>1. Pick(s) \in s /\ IsFiniteSet(s)
      BY <2>2, PickIn, FS_Subset
    <3>2. SumFunctionOnSet(f, s) = f[Pick(s)] + SumFunctionOnSet(f, s \ {Pick(s)})
      BY <2>2, <3>1, SumPick
    <3>3. SumFunctionOnSet(g, s) = g[Pick(s)] + SumFunctionOnSet(g, s \ {Pick(s)})
      BY <2>2, <3>1, SumPick
    <3> QED  BY <1>1, <3>1, <3>2, <3>3
  <2> QED  BY <2>1, <2>2
<1>2. SUBSET S \subseteq good
  <2>1. ASSUME NEW s \in SUBSET S, \A x \in s : s \ {x} \in good
        PROVE  s \in good
    BY <1>1, <2>1
  <2> HIDE DEF good
  <2> QED  BY <2>1, Subsets
<1> QED  BY <1>2

\* One value changes.
LEMMA SumChange ==
    ASSUME NEW S, IsFiniteSet(S), NEW y \in S,
           NEW f, \A x \in S : f[x] \in Int,
           NEW g, g[y] \in Int, \A x \in S \ {y} : g[x] = f[x]
    PROVE  SumFunctionOnSet(g, S) = SumFunctionOnSet(f, S) - f[y] + g[y]
<1>1. IsFiniteSet(S \ {y})
  BY FS_RemoveElement
<1>2. SumFunctionOnSet(g, S \ {y}) = SumFunctionOnSet(f, S \ {y})
  BY <1>1, SumSame
<1>3. SumFunctionOnSet(f, S \ {y}) \in Int
  BY <1>1, SumIsInt
<1>4. /\ SumFunctionOnSet(f, S) = f[y] + SumFunctionOnSet(f, S \ {y})
      /\ SumFunctionOnSet(g, S) = g[y] + SumFunctionOnSet(g, S \ {y})
  BY SumAt
<1> QED  BY <1>2, <1>3, <1>4

\* A sum of naturals is at least each of them.
LEMMA SumIsNat ==
    ASSUME NEW S, IsFiniteSet(S), NEW f, \A x \in S : f[x] \in Nat
    PROVE  /\ SumFunctionOnSet(f, S) \in Nat
           /\ \A x \in S : f[x] <= SumFunctionOnSet(f, S)
<1> DEFINE good == {s \in SUBSET S : SumFunctionOnSet(f, s) \in Nat}
<1>1. ASSUME NEW s \in SUBSET S, \A x \in s : s \ {x} \in good
      PROVE  s \in good
  <2>1. CASE s = {}
    BY <2>1, SumEmpty
  <2>2. CASE s # {}
    <3>1. Pick(s) \in s /\ IsFiniteSet(s) /\ \A x \in s : f[x] \in Int
      BY <2>2, PickIn, FS_Subset
    <3>2. SumFunctionOnSet(f, s) = f[Pick(s)] + SumFunctionOnSet(f, s \ {Pick(s)})
      BY <2>2, <3>1, SumPick
    <3> QED  BY <1>1, <3>1, <3>2
  <2> QED  BY <2>1, <2>2
<1>2. SUBSET S \subseteq good
  <2> HIDE DEF good
  <2> QED  BY <1>1, Subsets
<1>3. ASSUME NEW x \in S
      PROVE  f[x] <= SumFunctionOnSet(f, S)
  <2>1. SumFunctionOnSet(f, S) = f[x] + SumFunctionOnSet(f, S \ {x})
    BY SumAt
  <2>2. SumFunctionOnSet(f, S \ {x}) \in Nat
    BY <1>2
  <2> QED  BY <2>1, <2>2
<1> QED  BY <1>2, <1>3

\* A sum of naturals, none of them larger than m.
LEMMA SumBound ==
    ASSUME NEW S, IsFiniteSet(S), NEW m \in Nat, NEW f, \A x \in S : f[x] \in 0 .. m
    PROVE  SumFunctionOnSet(f, S) <= m * Cardinality(S)
<1> DEFINE good == {s \in SUBSET S : SumFunctionOnSet(f, s) <= m * Cardinality(s)}
<1>1. ASSUME NEW s \in SUBSET S, \A x \in s : s \ {x} \in good
      PROVE  s \in good
  <2>1. CASE s = {}
    BY <2>1, SumEmpty, FS_EmptySet
  <2>2. CASE s # {}
    <3> DEFINE c == Pick(s)
               n == Cardinality(s)
    <3>1. c \in s /\ IsFiniteSet(s) /\ \A x \in s : f[x] \in Int
      BY <2>2, PickIn, FS_Subset
    <3>2. SumFunctionOnSet(f, s) = f[c] + SumFunctionOnSet(f, s \ {c})
      BY <2>2, <3>1, SumPick
    <3>3. SumFunctionOnSet(f, s \ {c}) \in Int
      <4>1. IsFiniteSet(s \ {c}) /\ \A x \in s \ {c} : f[x] \in Int
        BY <3>1, FS_RemoveElement
      <4> QED  BY <4>1, SumIsInt
    <3>4. n \in Nat /\ Cardinality(s \ {c}) = n - 1
      BY <3>1, FS_RemoveElement, FS_CardinalityType
    <3>5. SumFunctionOnSet(f, s \ {c}) <= m * (n - 1)
      BY <1>1, <3>1, <3>4
    <3>6. f[c] \in 0 .. m
      BY <3>1
    <3> HIDE DEF c, n
    <3>7. m * (n - 1) + m = m * n /\ m * n \in Int /\ m * (n - 1) \in Int
      BY <3>4
    <3>8. SumFunctionOnSet(f, s) <= m * n
      BY <3>2, <3>3, <3>5, <3>6, <3>7
    <3> QED  BY <3>8 DEF n
  <2> QED  BY <2>1, <2>2
<1>2. SUBSET S \subseteq good
  <2> HIDE DEF good
  <2> QED  BY <1>1, Subsets
<1> QED  BY <1>2
\* Two sets without a common element.
LEMMA SumUnion ==
    ASSUME NEW S, NEW T, IsFiniteSet(S), IsFiniteSet(T), S \cap T = {},
           NEW f, \A x \in S \cup T : f[x] \in Int
    PROVE  SumFunctionOnSet(f, S \cup T) =
              SumFunctionOnSet(f, S) + SumFunctionOnSet(f, T)
<1> DEFINE good == {s \in SUBSET T : SumFunctionOnSet(f, S \cup s) =
                       SumFunctionOnSet(f, S) + SumFunctionOnSet(f, s)}
<1>1. ASSUME NEW s \in SUBSET T, \A x \in s : s \ {x} \in good
      PROVE  SumFunctionOnSet(f, S \cup s) =
                SumFunctionOnSet(f, S) + SumFunctionOnSet(f, s)
  <2>1. SumFunctionOnSet(f, S) \in Int
    BY SumIsInt
  <2>2. CASE s = {}
    <3>1. S \cup s = S
      BY <2>2
    <3> QED  BY <2>1, <2>2, <3>1, SumEmpty
  <2>3. CASE s # {}
    <3> DEFINE c == Pick(s)
    <3>1. c \in s /\ c \notin S /\ f[c] \in Int
      BY <2>3, PickIn
    <3>2. IsFiniteSet(s) /\ IsFiniteSet(s \ {c}) /\ IsFiniteSet(S \cup s)
      BY FS_Subset, FS_Union, FS_RemoveElement
    <3>3. (S \cup s) \ {c} = S \cup (s \ {c})
      BY <3>1
    <3>4. SumFunctionOnSet(f, s) = f[c] + SumFunctionOnSet(f, s \ {c})
      BY <3>1, <3>2, SumAt
    <3>5. SumFunctionOnSet(f, S \cup s) = f[c] + SumFunctionOnSet(f, (S \cup s) \ {c})
      <4>1. c \in S \cup s /\ \A x \in S \cup s : f[x] \in Int
        BY <3>1
      <4> HIDE DEF c
      <4> QED  BY <3>2, <4>1, SumAt
    <3>6. SumFunctionOnSet(f, S \cup (s \ {c})) =
             SumFunctionOnSet(f, S) + SumFunctionOnSet(f, s \ {c})
      BY <1>1, <3>1
    <3>7. SumFunctionOnSet(f, s \ {c}) \in Int
      <4>1. \A x \in s \ {c} : f[x] \in Int
        OBVIOUS
      <4> QED  BY <3>2, <4>1, SumIsInt
    <3> DEFINE a == SumFunctionOnSet(f, S)
               b == SumFunctionOnSet(f, s \ {c})
    <3>8. f[c] + (a + b) = a + (f[c] + b)
      <4>1. a \in Int /\ b \in Int /\ f[c] \in Int
        BY <2>1, <3>1, <3>7
      <4> HIDE DEF a, b, c
      <4> QED  BY <4>1
    <3> QED  BY <3>3, <3>4, <3>5, <3>6, <3>8
  <2> QED  BY <2>2, <2>3
<1>2. SUBSET T \subseteq good
  <2>1. ASSUME NEW s \in SUBSET T, \A x \in s : s \ {x} \in good
        PROVE  s \in good
    BY <1>1, <2>1
  <2> HIDE DEF good
  <2> QED  BY <2>1, Subsets
<1> QED  BY <1>2
=============================================================================
