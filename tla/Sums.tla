-------------------------------- MODULE Sums --------------------------------
(***************************************************************************)
(* Facts about the sum of a function over a finite set, SumFunctionOnSet   *)
(* of the community modules, which stands for the loops of the program     *)
(* that add up a map (the exposures of internal/risk/risk.go:206-224) and  *)
(* for what several workers come to together.  The sum is defined by       *)
(* recursion; an induction over it takes a smallest set that the claim     *)
(* fails for and derives a contradiction.                                  *)
(***************************************************************************)
EXTENDS Integers, FiniteSets, Functions, FiniteSetTheorems, TLAPS

(* A set of natural numbers that is not empty has a least element: what an *)
(* induction over numbers or over finite sets of the code's maps stands on.*)
LEMMA LeastNat ==
  ASSUME NEW T \in SUBSET Nat, T # {} PROVE \E m \in T : \A n \in T : m <= n
<1> DEFINE R == {p \in Nat \X Nat : p[1] < p[2]}
<1>1. IsWellFoundedOn(R, Nat)
  BY NatLessThanWellFounded DEF OpToRel
<1>2. \A m, n \in Nat : <<n, m>> \notin R => m <= n
  OBVIOUS
<1> HIDE DEF R
<1>3. PICK m \in T : \A n \in T : <<n, m>> \notin R
  BY <1>1, WFMin, Zenon
<1>4. \A n \in T : m <= n
  BY <1>2, <1>3
<1> QED BY <1>4

(* Among the finite sets that a claim fails for, one is such that it holds *)
(* again when any element is taken away (a map that loses one entry).      *)
LEMMA LeastSubset ==
  ASSUME NEW S, IsFiniteSet(S), NEW B \in SUBSET SUBSET S, B # {}
  PROVE  \E s \in B : \A x \in s : s \ {x} \notin B
<1> DEFINE T == {Cardinality(s) : s \in B}
<1>1. \A s \in B : IsFiniteSet(s) /\ Cardinality(s) \in Nat
  BY FS_Subset, FS_CardinalityType
<1>2. PICK n \in T : \A m \in T : n <= m
  <2>1. T \in SUBSET Nat /\ T # {}
    BY <1>1
  <2> QED BY <2>1, LeastNat
<1>3. PICK s \in B : Cardinality(s) = n
  OBVIOUS
<1>4. ASSUME NEW x \in s, s \ {x} \in B PROVE FALSE
  <2>1. Cardinality(s \ {x}) = n - 1
    BY <1>1, <1>3, <1>4, FS_RemoveElement
  <2>2. n <= n - 1
    BY <1>2, <1>4, <2>1
  <2> QED BY <1>1, <1>3, <2>2
<1> QED BY <1>4

-----------------------------------------------------------------------------
(* The recursion behind the sum of the community modules: an element of s, *)
(* one step of the recursion, and what it is for a function to follow it.  *)
Chosen(s) == CHOOSE x \in s : TRUE
SumStep(f, g, s) == IF s = {} THEN 0 ELSE f[Chosen(s)] + g[s \ {Chosen(s)}]
SumEquation(f, S, g) == g = [s \in SUBSET S |-> SumStep(f, g, s)]

(* The sum is the value of some function that follows the recursion (the   *)
(* loops of risk.go:206-224 that add up a map).                            *)
LEMMA SumExpand ==
  ASSUME NEW S, NEW f
  PROVE  SumFunctionOnSet(f, S) = (CHOOSE g : SumEquation(f, S, g))[S]
BY DEF SumFunctionOnSet, FoldFunctionOnSet, MapThenFoldSet, SumEquation, SumStep, Chosen

(* Two functions that follow it agree where both are defined, so that the  *)
(* loops over a map and over a part of it can be compared (risk.go:206).   *)
LEMMA SumsAgree ==
  ASSUME NEW S, IsFiniteSet(S), NEW T, NEW f, NEW g, NEW h, SumEquation(f, S, g), SumEquation(f, T, h)
  PROVE  \A s \in SUBSET S : s \in SUBSET T => g[s] = h[s]
<1> DEFINE B == {s \in SUBSET S : s \in SUBSET T /\ g[s] # h[s]}
<1>1. ASSUME B # {} PROVE FALSE
  <2>1. PICK s \in B : \A x \in s : s \ {x} \notin B
    BY <1>1, LeastSubset
  <2>2. g[s] = SumStep(f, g, s) /\ h[s] = SumStep(f, h, s)
    BY DEF SumEquation
  <2>3. CASE s = {}
    BY <2>2, <2>3 DEF SumStep
  <2>4. CASE s # {}
    <3>1. Chosen(s) \in s
      BY <2>4 DEF Chosen
    <3>2. g[s \ {Chosen(s)}] = h[s \ {Chosen(s)}]
      BY <2>1, <3>1
    <3> QED BY <2>2, <3>2 DEF SumStep
  <2> QED BY <2>3, <2>4
<1> QED BY <1>1

(* A recursion over the subsets of a finite set that takes one element     *)
(* away at a time: c chooses the element, F computes a value from the set  *)
(* and the value of the rest.                                              *)
Follows(S, base, c, F, g) ==
  \A s \in SUBSET S : /\ s = {} => g[s] = base
                      /\ s # {} => g[s] = F[<<s, g[s \ {c[s]}]>>]

(* There is a function that follows it: a loop of Go over a map or over a  *)
(* list comes to a value (risk.go:206-224, engine.go:103-128).             *)
LEMMA Recursion ==
  ASSUME NEW S, IsFiniteSet(S), NEW V, NEW base \in V,
         NEW c, \A s \in SUBSET S : s # {} => c[s] \in s,
         NEW F \in [(SUBSET S) \X V -> V]
  PROVE  \E g \in [SUBSET S -> V] : Follows(S, base, c, F, g)
<1> DEFINE Step(g, s) == IF s = {} THEN base ELSE F[<<s, g[s \ {c[s]}]>>]
           Good(n, g) == \A s \in SUBSET S : Cardinality(s) <= n => g[s] = Step(g, s)
           B == {n \in Nat : ~ \E g \in [SUBSET S -> V] : Good(n, g)}
<1>1. \A s \in SUBSET S : IsFiniteSet(s) /\ Cardinality(s) \in Nat /\ Cardinality(s) <= Cardinality(S)
  BY FS_Subset, FS_CardinalityType
<1>2. \A s \in SUBSET S : s # {} => /\ s \ {c[s]} \in SUBSET S
                                    /\ Cardinality(s \ {c[s]}) = Cardinality(s) - 1
  <2> TAKE s \in SUBSET S
  <2> HAVE s # {}
  <2>1. c[s] \in s
    OBVIOUS
  <2> QED BY <1>1, <2>1, FS_RemoveElement
<1>3. ASSUME B # {} PROVE FALSE
  <2>1. PICK n \in B : \A m \in B : n <= m
    BY <1>3, LeastNat
  <2>2. CASE n = 0
    <3> DEFINE g == [s \in SUBSET S |-> base]
    <3>1. g \in [SUBSET S -> V]
      OBVIOUS
    <3>2. \A s \in SUBSET S : Cardinality(s) <= 0 => s = {}
      BY <1>1, FS_EmptySet
    <3>3. Good(0, g)
      BY <3>2
    <3> QED BY <2>1, <2>2, <3>1, <3>3
  <2>3. CASE n # 0
    <3>1. n - 1 \in Nat /\ n - 1 \notin B
      <4>1. n \in Nat /\ n - 1 \in Nat /\ ~(n <= n - 1)
        BY <2>3
      <4> HIDE DEF B
      <4> QED BY <2>1, <4>1
    <3>2. PICK g \in [SUBSET S -> V] : Good(n - 1, g)
      BY <3>1
    <3> DEFINE h == [s \in SUBSET S |-> Step(g, s)]
    <3>3. h \in [SUBSET S -> V]
      <4>1. ASSUME NEW s \in SUBSET S PROVE Step(g, s) \in V
        <5>1. CASE s # {}
          <6>1. g[s \ {c[s]}] \in V
            BY <1>2, <5>1
          <6> QED BY <5>1, <6>1
        <5> QED BY <5>1
      <4> QED BY <4>1
    <3>4. ASSUME NEW s \in SUBSET S, Cardinality(s) <= n PROVE h[s] = Step(h, s)
      <4>1. CASE s # {}
        <5>1. Cardinality(s \ {c[s]}) <= n - 1 /\ s \ {c[s]} \in SUBSET S
          BY <1>1, <1>2, <3>4, <4>1
        <5>2. g[s \ {c[s]}] = Step(g, s \ {c[s]})
          BY <3>2, <5>1
        <5>3. h[s \ {c[s]}] = g[s \ {c[s]}]
          BY <5>1, <5>2
        <5> QED BY <5>3
      <4> QED BY <4>1
    <3>5. Good(n, h)
      BY <3>4
    <3> QED BY <2>1, <3>3, <3>5
  <2> QED BY <2>2, <2>3
<1>4. PICK g \in [SUBSET S -> V] : Good(Cardinality(S), g)
  <2>1. Cardinality(S) \in Nat
    BY FS_CardinalityType
  <2> QED BY <1>3, <2>1
<1> QED BY <1>1, <1>4 DEF Follows

(* There is such a function, and it gives integers: every loop over a      *)
(* finite map ends with a number (risk.go:206-224).                        *)
LEMMA SumsExist ==
  ASSUME NEW S, IsFiniteSet(S), NEW f \in [S -> Int]
  PROVE  \E g \in [SUBSET S -> Int] : SumEquation(f, S, g)
<1> DEFINE c == [s \in SUBSET S |-> Chosen(s)]
           F == [p \in (SUBSET S) \X Int |-> IF p[1] = {} THEN 0 ELSE f[Chosen(p[1])] + p[2]]
<1>1. \A s \in SUBSET S : s # {} => Chosen(s) \in s
  BY DEF Chosen
<1>2. F \in [(SUBSET S) \X Int -> Int]
  BY <1>1
<1>3. \A s \in SUBSET S, n \in Int : s # {} => F[<<s, n>>] = f[Chosen(s)] + n
  OBVIOUS
<1>4. \A s \in SUBSET S : c[s] = Chosen(s)
  OBVIOUS
<1> HIDE DEF c, F
<1>5. PICK g \in [SUBSET S -> Int] : Follows(S, 0, c, F, g)
  <2>1. \A s \in SUBSET S : s # {} => c[s] \in s
    BY <1>1, <1>4
  <2>2. 0 \in Int
    OBVIOUS
  <2> HIDE <1>3, <1>4
  <2> QED BY <1>2, <2>1, <2>2, Recursion
<1>6. ASSUME NEW s \in SUBSET S PROVE g[s] = SumStep(f, g, s)
  <2>1. s \ {c[s]} \in SUBSET S /\ g[s \ {c[s]}] \in Int
    OBVIOUS
  <2> QED BY <1>3, <1>4, <1>5, <2>1 DEF SumStep, Follows
<1> QED BY <1>6 DEF SumEquation

(* So the sum follows the recursion: it is what a loop over the entries in *)
(* some order adds up (risk.go:206-224).                                   *)
LEMMA SumRec ==
  ASSUME NEW S, IsFiniteSet(S), NEW f \in [S -> Int], NEW s \in SUBSET S
  PROVE  /\ SumFunctionOnSet(f, s) \in Int
         /\ SumFunctionOnSet(f, s) = IF s = {} THEN 0 ELSE f[Chosen(s)] + SumFunctionOnSet(f, s \ {Chosen(s)})
<1>1. PICK g \in [SUBSET S -> Int] : SumEquation(f, S, g)
  BY SumsExist
<1>2. ASSUME NEW t \in SUBSET S PROVE SumFunctionOnSet(f, t) = g[t]
  <2> DEFINE h == CHOOSE h : SumEquation(f, t, h)
             k == [u \in SUBSET t |-> g[u]]
  <2>1. SumEquation(f, t, k)
    <3>1. ASSUME NEW u \in SUBSET t PROVE k[u] = SumStep(f, k, u)
      <4>1. g[u] = SumStep(f, g, u)
        BY <1>1 DEF SumEquation
      <4>2. u \ {Chosen(u)} \in SUBSET t
        OBVIOUS
      <4> QED BY <4>1, <4>2 DEF SumStep
    <3> QED BY <3>1 DEF SumEquation
  <2>2. SumEquation(f, t, h)
    BY <2>1
  <2>3. IsFiniteSet(t)
    BY FS_Subset
  <2>4. t \in SUBSET t
    OBVIOUS
  <2>5. h[t] = g[t]
    BY <1>1, <2>2, <2>3, <2>4, SumsAgree
  <2> QED BY <2>5, SumExpand
<1>3. g[s] = SumStep(f, g, s)
  BY <1>1 DEF SumEquation
<1>4. s \ {Chosen(s)} \in SUBSET S
  OBVIOUS
<1> QED BY <1>2, <1>3, <1>4 DEF SumStep

(* Any element can be split off a sum, so that the order in which Go goes  *)
(* through a map does not matter (risk.go:206-224).                        *)
LEMMA SumRemove ==
  ASSUME NEW S, IsFiniteSet(S), NEW f \in [S -> Int]
  PROVE  \A s \in SUBSET S, y \in S : y \in s => SumFunctionOnSet(f, s) = f[y] + SumFunctionOnSet(f, s \ {y})
<1> DEFINE B == {s \in SUBSET S : \E y \in s : SumFunctionOnSet(f, s) # f[y] + SumFunctionOnSet(f, s \ {y})}
<1>1. ASSUME B # {} PROVE FALSE
  <2>1. PICK s \in B : \A x \in s : s \ {x} \notin B
    BY <1>1, LeastSubset
  <2>2. PICK y \in s : SumFunctionOnSet(f, s) # f[y] + SumFunctionOnSet(f, s \ {y})
    OBVIOUS
  <2> DEFINE c == Chosen(s)
  <2>3. c \in s /\ s \in SUBSET S
    BY <2>2 DEF Chosen
  <2>4. SumFunctionOnSet(f, s) = f[c] + SumFunctionOnSet(f, s \ {c})
    BY <2>3, SumRec
  <2>5. c # y
    BY <2>2, <2>4
  <2> HIDE DEF c
  <2>6. SumFunctionOnSet(f, s \ {c}) = f[y] + SumFunctionOnSet(f, (s \ {c}) \ {y})
    <3>1. s \ {c} \in SUBSET S /\ s \ {c} \notin B /\ y \in s \ {c}
      BY <2>1, <2>3, <2>5
    <3> QED BY <3>1
  <2>7. SumFunctionOnSet(f, s \ {y}) = f[c] + SumFunctionOnSet(f, (s \ {y}) \ {c})
    <3>1. s \ {y} \in SUBSET S /\ s \ {y} \notin B /\ c \in s \ {y}
      BY <2>1, <2>3, <2>5
    <3> QED BY <3>1
  <2>8. (s \ {c}) \ {y} = (s \ {y}) \ {c}
    OBVIOUS
  <2>9. /\ f[c] \in Int /\ f[y] \in Int /\ SumFunctionOnSet(f, (s \ {y}) \ {c}) \in Int
    <3>1. (s \ {y}) \ {c} \in SUBSET S /\ c \in S /\ y \in S
      BY <2>3
    <3> QED BY <3>1, SumRec
  <2> QED BY <2>2, <2>4, <2>6, <2>7, <2>8, <2>9
<1> QED BY <1>1

(* Functions that agree on a set have the same sum over it: entries that a *)
(* call leaves alone add up as before (risk.go:145-162).                   *)
LEMMA SumSame ==
  ASSUME NEW S, IsFiniteSet(S), NEW f \in [S -> Int], NEW g \in [S -> Int]
  PROVE  \A s \in SUBSET S : (\A x \in s : f[x] = g[x]) => SumFunctionOnSet(f, s) = SumFunctionOnSet(g, s)
<1> DEFINE B == {s \in SUBSET S : (\A x \in s : f[x] = g[x]) /\ SumFunctionOnSet(f, s) # SumFunctionOnSet(g, s)}
<1>1. ASSUME B # {} PROVE FALSE
  <2>1. PICK s \in B : \A x \in s : s \ {x} \notin B
    BY <1>1, LeastSubset
  <2>2. CASE s = {}
    BY <2>2, SumRec
  <2>3. CASE s # {}
    <3>1. PICK y \in s : s \ {y} \notin B
      BY <2>1, <2>3
    <3>2. SumFunctionOnSet(f, s \ {y}) = SumFunctionOnSet(g, s \ {y})
      BY <3>1
    <3> QED BY <3>1, <3>2, SumRemove
  <2> QED BY <2>2, <2>3
<1> QED BY <1>1

(* A call that changes one entry changes the sum by as much (risk.go:145). *)
LEMMA SumChange ==
  ASSUME NEW S, IsFiniteSet(S), NEW f \in [S -> Int], NEW g \in [S -> Int], NEW x \in S,
         \A y \in S \ {x} : g[y] = f[y]
  PROVE  SumFunctionOnSet(g, S) = SumFunctionOnSet(f, S) - f[x] + g[x]
<1>1. S \in SUBSET S /\ S \ {x} \in SUBSET S
  OBVIOUS
<1>2. /\ SumFunctionOnSet(f, S) = f[x] + SumFunctionOnSet(f, S \ {x})
      /\ SumFunctionOnSet(g, S) = g[x] + SumFunctionOnSet(g, S \ {x})
  BY <1>1, SumRemove
<1>3. SumFunctionOnSet(f, S \ {x}) = SumFunctionOnSet(g, S \ {x})
  BY <1>1, SumSame
<1>4. SumFunctionOnSet(f, S \ {x}) \in Int /\ f[x] \in Int /\ g[x] \in Int
  BY <1>1, SumRec
<1> QED BY <1>2, <1>3, <1>4

(* A sum of values that are not negative is no less than each of them      *)
(* (risk.go:206-224, sums of absolute values).                             *)
LEMMA SumNat ==
  ASSUME NEW S, IsFiniteSet(S), NEW f \in [S -> Nat]
  PROVE  \A s \in SUBSET S : SumFunctionOnSet(f, s) \in Nat /\ \A x \in s : f[x] <= SumFunctionOnSet(f, s)
<1> DEFINE B == {s \in SUBSET S : SumFunctionOnSet(f, s) \notin Nat}
<1>0. f \in [S -> Int]
  OBVIOUS
<1>1. ASSUME B # {} PROVE FALSE
  <2>1. PICK s \in B : \A x \in s : s \ {x} \notin B
    BY <1>1, LeastSubset
  <2>2. CASE s = {}
    <3>1. SumFunctionOnSet(f, s) = 0
      BY <1>0, <2>2, SumRec
    <3> QED BY <3>1
  <2>3. CASE s # {}
    <3>1. PICK y \in s : s \ {y} \notin B
      BY <2>1, <2>3
    <3>2. SumFunctionOnSet(f, s \ {y}) \in Nat
      BY <3>1
    <3>3. SumFunctionOnSet(f, s) = f[y] + SumFunctionOnSet(f, s \ {y})
      BY <1>0, SumRemove
    <3>4. f[y] \in Nat
      OBVIOUS
    <3> QED BY <3>2, <3>3, <3>4
  <2> QED BY <2>2, <2>3
<1>2. ASSUME NEW s \in SUBSET S, NEW x \in s PROVE f[x] <= SumFunctionOnSet(f, s)
  <2>1. s \ {x} \in SUBSET S
    OBVIOUS
  <2>2. SumFunctionOnSet(f, s \ {x}) \in Nat /\ f[x] \in Nat
    BY <1>1, <2>1
  <2>3. SumFunctionOnSet(f, s) = f[x] + SumFunctionOnSet(f, s \ {x})
    BY <1>0, SumRemove
  <2> QED BY <2>2, <2>3
<1> QED BY <1>1, <1>2

(* A sum of values of at most m is at most m times their number: what so   *)
(* many workers can have pending at a time (live.go:221-245).              *)
LEMMA SumAtMost ==
  ASSUME NEW S, IsFiniteSet(S), NEW f \in [S -> Int], NEW m \in Nat, \A x \in S : f[x] <= m
  PROVE  \A s \in SUBSET S : SumFunctionOnSet(f, s) <= m * Cardinality(s)
<1> DEFINE B == {s \in SUBSET S : ~(SumFunctionOnSet(f, s) <= m * Cardinality(s))}
<1>1. ASSUME B # {} PROVE FALSE
  <2>1. PICK s \in B : \A x \in s : s \ {x} \notin B
    BY <1>1, LeastSubset
  <2>2. CASE s = {}
    <3>1. SumFunctionOnSet(f, s) = 0 /\ Cardinality(s) = 0
      BY <2>2, SumRec, FS_EmptySet
    <3>2. 0 <= m * 0
      OBVIOUS
    <3> QED BY <3>1, <3>2
  <2>3. CASE s # {}
    <3>1. PICK y \in s : s \ {y} \notin B
      BY <2>1, <2>3
    <3> DEFINE n == Cardinality(s \ {y})
               a == SumFunctionOnSet(f, s \ {y})
    <3>2. a <= m * n
      BY <3>1
    <3>3. SumFunctionOnSet(f, s) = f[y] + a /\ a \in Int /\ f[y] \in Int
      <4>1. s \ {y} \in SUBSET S /\ s \in SUBSET S /\ y \in S
        OBVIOUS
      <4>2. a \in Int
        BY <4>1, SumRec
      <4>3. SumFunctionOnSet(f, s) = f[y] + a
        BY <4>1, SumRemove
      <4> QED BY <4>1, <4>2, <4>3
    <3>4. n \in Nat /\ Cardinality(s) = n + 1
      <4>1. IsFiniteSet(s) /\ IsFiniteSet(s \ {y})
        BY FS_Subset
      <4>2. Cardinality(s \ {y}) = Cardinality(s) - 1 /\ Cardinality(s) \in Nat /\ n \in Nat
        BY <4>1, FS_RemoveElement, FS_CardinalityType
      <4> QED BY <4>2
    <3>5. f[y] <= m
      OBVIOUS
    <3> HIDE DEF n, a
    <3>6. m * (n + 1) = m * n + m /\ m * n \in Nat
      BY <3>4
    <3>7. f[y] + a <= m * (n + 1)
      BY <3>2, <3>3, <3>5, <3>6
    <3>8. SumFunctionOnSet(f, s) <= m * Cardinality(s)
      BY <3>3, <3>4, <3>7
    <3> QED BY <3>8
  <2> QED BY <2>2, <2>3
<1> QED BY <1>1
=============================================================================
