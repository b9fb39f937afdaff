---------------------------- MODULE DataTheorems ----------------------------
(***************************************************************************)
(* Facts about the data the models are built from.                         *)
(*                                                                         *)
(* SumFunction, the sum of a function to integers over a finite set, stands*)
(* for the code's sum(...) over fills, trades, symbols and orders; there is*)
(* any other fold over a finite set, and Total, the number of shares of the*)
(* orders of a list.  Each fact about all finite sets is proved by looking *)
(* at a smallest set for which it fails: the library states induction for  *)
(* an operator parameter, this form needs none.                            *)
(*                                                                         *)
(* A left fold over a sequence is read as a trace of its results, and so is*)
(* At of Selections.  A running sum over a sequence of integers has facts  *)
(* of its own, from Started on.                                            *)
(*                                                                         *)
(* A fraction is compared with others through its Worth, an integer        *)
(* multiple of 1 / d for a denominator d common to all of them: the sum of *)
(* fractions worth x / d and y / d is worth (x + y) / d, and integers is   *)
(* what the provers can reason about.                                      *)
(*                                                                         *)
(* The rank of an element of a list is the number of elements above it;    *)
(* ranks are what sorting and largest remainders are written with.         *)
(***************************************************************************)
EXTENDS Fractions, Selections, Shares, Functions, SequencesExt, SequenceTheorems,
        FiniteSetTheorems, FunctionTheorems, WellFoundedInduction, TLAPS

-----------------------------------------------------------------------------
(* Smallest numbers, smallest sets *)

\* A set of naturals that is not empty has a least element.
LEMMA LeastNatural ==
  ASSUME NEW N, N \subseteq Nat, N # {}
  PROVE  \E n \in N : \A m \in N : n <= m
<1>1. PICK n \in N : \A m \in N : ~ (<<m, n>> \in OpToRel(<, Nat))
  BY NatLessThanWellFounded, WFMin
<1>2. \A m \in N : ~ (m < n)
  BY <1>1 DEF OpToRel
<1>3. QED
  BY <1>2

\* A collection of finite sets that is not empty has a smallest one.
LEMMA SmallestSet ==
  ASSUME NEW C, C # {}, \A s \in C : IsFiniteSet(s)
  PROVE  \E s \in C : \A t \in C : Cardinality(s) <= Cardinality(t)
<1> DEFINE N == {Cardinality(s) : s \in C}
<1>1. N \subseteq Nat /\ N # {}
  BY FS_CardinalityType
<1>2. PICK n \in N : \A m \in N : n <= m
  BY <1>1, LeastNatural
<1>3. QED
  BY <1>2

-----------------------------------------------------------------------------
(* The recursion is well defined *)

Chosen(s) == CHOOSE x \in s : TRUE

\* One step of the recursion, and the function it defines.
SumStep(f, g, s) == IF s = {} THEN 0 ELSE f[Chosen(s)] + g[s \ {Chosen(s)}]
IsSumOn(f, S, g) == g = [s \in SUBSET S |-> SumStep(f, g, s)]
SumsOn(f, S)     == CHOOSE g : IsSumOn(f, S, g)

LEMMA SumUnfolded ==
  ASSUME NEW f, NEW S
  PROVE  SumFunctionOnSet(f, S) = SumsOn(f, S)[S]
BY Zenon DEF SumFunctionOnSet, FoldFunctionOnSet, MapThenFoldSet, SumsOn, IsSumOn, SumStep, Chosen

\* g follows the recursion on the sets of at most n elements.
SumUpTo(f, S, g, n) == \A s \in SUBSET S : Cardinality(s) <= n => g[s] = SumStep(f, g, s)

LEMMA ChosenRemoved ==
  ASSUME NEW S, IsFiniteSet(S), S # {}
  PROVE  /\ Chosen(S) \in S
         /\ S \ {Chosen(S)} \subseteq S
         /\ IsFiniteSet(S \ {Chosen(S)})
         /\ Cardinality(S) \in Nat
         /\ Cardinality(S \ {Chosen(S)}) = Cardinality(S) - 1
<1>1. Chosen(S) \in S
  BY DEF Chosen
<1>2. QED
  BY <1>1, FS_RemoveElement, FS_CardinalityType

LEMMA SumUpToExtends ==
  ASSUME NEW f, NEW S, IsFiniteSet(S), NEW n \in Nat, NEW g, SumUpTo(f, S, g, n)
  PROVE  \E h : SumUpTo(f, S, h, n + 1)
<1> DEFINE h == [s \in SUBSET S |-> IF Cardinality(s) <= n THEN g[s] ELSE SumStep(f, g, s)]
<1> SUFFICES ASSUME NEW s \in SUBSET S, Cardinality(s) <= n + 1
             PROVE  h[s] = SumStep(f, h, s)
  BY Zenon DEF SumUpTo
<1>1. IsFiniteSet(s) /\ Cardinality(s) \in Nat
  BY FS_Subset, FS_CardinalityType
<1>2. SumStep(f, h, s) = SumStep(f, g, s)
  <2>1. CASE s = {}
    BY <2>1 DEF SumStep
  <2>2. CASE s # {}
    <3>1. /\ s \ {Chosen(s)} \in SUBSET S
          /\ Cardinality(s \ {Chosen(s)}) <= n
      BY <2>2, <1>1, ChosenRemoved
    <3>2. h[s \ {Chosen(s)}] = g[s \ {Chosen(s)}]
      BY <3>1
    <3>3. QED
      BY <3>2, <2>2 DEF SumStep
  <2>3. QED
    BY <2>1, <2>2
<1>3. h[s] = SumStep(f, g, s)
  BY DEF SumUpTo
<1>4. QED
  BY <1>2, <1>3

\* The function the recursion asks for exists, so SumsOn is one.
LEMMA SumExists ==
  ASSUME NEW f, NEW S, IsFiniteSet(S)
  PROVE  IsSumOn(f, S, SumsOn(f, S))
<1> DEFINE Missing == {n \in Nat : ~ \E g : SumUpTo(f, S, g, n)}
<1>1. Missing = {}
  <2>1. SUFFICES ASSUME NEW n \in Missing, \A m \in Missing : n <= m
                 PROVE  FALSE
    <3>1. Missing \subseteq Nat
      OBVIOUS
    <3>2. QED
      BY <3>1, LeastNatural, Zenon
  <2>2. CASE n = 0
    <3> DEFINE g == [s \in SUBSET S |-> 0]
    <3>1. ASSUME NEW s \in SUBSET S, Cardinality(s) <= 0
          PROVE  g[s] = SumStep(f, g, s)
      <4>1. s = {}
        BY <3>1, FS_Subset, FS_CardinalityType, FS_EmptySet
      <4>2. QED
        BY <4>1 DEF SumStep
    <3>2. SumUpTo(f, S, g, 0)
      BY <3>1, Zenon DEF SumUpTo
    <3>3. QED
      BY <3>2, <2>2, Zenon
  <2>3. CASE n # 0
    <3>1. n - 1 \in Nat /\ n - 1 \notin Missing
      BY <2>1, <2>3
    <3>2. PICK g : SumUpTo(f, S, g, n - 1)
      BY <3>1
    <3>3. \E h : SumUpTo(f, S, h, n - 1 + 1)
      BY <3>1, <3>2, SumUpToExtends
    <3>4. QED
      BY <3>3
  <2>4. QED
    BY <2>2, <2>3
<1>2. Cardinality(S) \in Nat /\ \A s \in SUBSET S : IsFiniteSet(s) /\ Cardinality(s) <= Cardinality(S)
  BY FS_Subset, FS_CardinalityType
<1>3. PICK g : SumUpTo(f, S, g, Cardinality(S))
  BY <1>1, <1>2
<1> DEFINE h == [s \in SUBSET S |-> g[s]]
<1>4. ASSUME NEW s \in SUBSET S
      PROVE  h[s] = SumStep(f, h, s)
  <2>1. g[s] = SumStep(f, g, s)
    BY <1>2, <1>3 DEF SumUpTo
  <2>2. s \ {Chosen(s)} \in SUBSET S
    OBVIOUS
  <2>3. SumStep(f, h, s) = SumStep(f, g, s)
    BY <2>2 DEF SumStep
  <2>4. QED
    BY <2>1, <2>3
<1>5. h = [s \in SUBSET S |-> SumStep(f, h, s)]
  BY <1>4, Zenon
<1>6. IsSumOn(f, S, h)
  BY <1>5, Zenon DEF IsSumOn
<1>7. QED
  BY <1>6, Zenon DEF SumsOn

\* The value of the recursion at a set does not depend on the larger set it
\* was started from.
LEMMA SumsAgree ==
  ASSUME NEW f, NEW S, IsFiniteSet(S), NEW T \in SUBSET S
  PROVE  SumsOn(f, S)[T] = SumsOn(f, T)[T]
<1> DEFINE g == SumsOn(f, S)
           h == SumsOn(f, T)
           Differ == {s \in SUBSET T : g[s] # h[s]}
<1>1. IsFiniteSet(T) /\ \A s \in SUBSET T : IsFiniteSet(s)
  BY FS_Subset
<1>2. \A s \in SUBSET S : g[s] = SumStep(f, g, s)
  <2>1. IsSumOn(f, S, g)
    BY SumExists
  <2>2. QED
    BY <2>1, Zenon DEF IsSumOn
<1>3. \A s \in SUBSET T : h[s] = SumStep(f, h, s)
  <2>1. IsSumOn(f, T, h)
    BY <1>1, SumExists
  <2>2. QED
    BY <2>1, Zenon DEF IsSumOn
<1> HIDE DEF g, h
<1>4. ASSUME NEW s \in Differ, \A t \in Differ : Cardinality(s) <= Cardinality(t)
      PROVE  FALSE
  <2>1. s \in SUBSET S /\ s \in SUBSET T /\ IsFiniteSet(s)
    BY <1>1
  <2>2. s # {}
    <3>1. SumStep(f, g, {}) = SumStep(f, h, {})
      BY DEF SumStep
    <3>2. QED
      BY <1>2, <1>3, <1>4, <2>1, <3>1
  <2>3. s \ {Chosen(s)} \notin Differ
    <3>1. /\ Cardinality(s) \in Nat
          /\ Cardinality(s \ {Chosen(s)}) = Cardinality(s) - 1
      BY <2>1, <2>2, ChosenRemoved
    <3>2. ~ (Cardinality(s) <= Cardinality(s \ {Chosen(s)}))
      BY <3>1
    <3>3. QED
      BY <1>4, <3>2, Zenon
  <2>4. g[s \ {Chosen(s)}] = h[s \ {Chosen(s)}]
    BY <2>1, <2>3
  <2>5. SumStep(f, g, s) = SumStep(f, h, s)
    BY <2>2, <2>4 DEF SumStep
  <2>6. QED
    BY <1>2, <1>3, <1>4, <2>1, <2>5
<1>5. Differ = {}
  <2>1. \A s \in Differ : IsFiniteSet(s)
    BY <1>1
  <2>2. QED
    BY <1>4, <2>1, SmallestSet, Zenon
<1>6. g[T] = h[T]
  BY <1>5
<1>7. QED
  BY <1>6 DEF g, h

-----------------------------------------------------------------------------
(* Sums *)

\* Nothing sums to nothing.
LEMMA SumEmpty ==
  ASSUME NEW f
  PROVE  SumFunctionOnSet(f, {}) = 0
<1>1. IsSumOn(f, {}, SumsOn(f, {}))
  BY FS_EmptySet, SumExists
<1>2. SumsOn(f, {})[{}] = SumStep(f, SumsOn(f, {}), {})
  BY <1>1, Zenon DEF IsSumOn
<1>3. QED
  BY <1>2, SumUnfolded DEF SumStep

\* The recursion, as an equation about sums.
LEMMA SumChosen ==
  ASSUME NEW f, NEW S, IsFiniteSet(S), S # {}
  PROVE  SumFunctionOnSet(f, S) = f[Chosen(S)] + SumFunctionOnSet(f, S \ {Chosen(S)})
<1>1. S \ {Chosen(S)} \in SUBSET S
  OBVIOUS
<1>2. SumsOn(f, S)[S] = SumStep(f, SumsOn(f, S), S)
  <2>1. IsSumOn(f, S, SumsOn(f, S))
    BY SumExists
  <2>2. QED
    BY <2>1, Zenon DEF IsSumOn
<1>3. SumsOn(f, S)[S \ {Chosen(S)}] = SumsOn(f, S \ {Chosen(S)})[S \ {Chosen(S)}]
  BY <1>1, SumsAgree
<1>4. QED
  BY <1>2, <1>3, SumUnfolded DEF SumStep

\* Integers sum to an integer.
LEMMA SumInt ==
  ASSUME NEW f, NEW S, IsFiniteSet(S), \A x \in S : f[x] \in Int
  PROVE  SumFunctionOnSet(f, S) \in Int
<1> DEFINE Wrong == {s \in SUBSET S : SumFunctionOnSet(f, s) \notin Int}
<1>1. \A s \in Wrong : IsFiniteSet(s)
  BY FS_Subset
<1>2. ASSUME NEW s \in Wrong, \A t \in Wrong : Cardinality(s) <= Cardinality(t)
      PROVE  FALSE
  <2>1. s # {}
    BY SumEmpty
  <2>2. s \ {Chosen(s)} \notin Wrong /\ Chosen(s) \in s
    BY <1>1, <1>2, <2>1, ChosenRemoved
  <2>3. SumFunctionOnSet(f, s \ {Chosen(s)}) \in Int /\ f[Chosen(s)] \in Int
    BY <2>2
  <2>4. QED
    BY <1>1, <2>1, <2>3, SumChosen
<1>3. Wrong = {}
  BY <1>1, <1>2, SmallestSet, Zenon
<1>4. QED
  BY <1>3

\* Any key may be taken out first: the order of a sum does not matter.
LEMMA SumRemove ==
  ASSUME NEW f, NEW S, IsFiniteSet(S), \A x \in S : f[x] \in Int, NEW y \in S
  PROVE  SumFunctionOnSet(f, S) = f[y] + SumFunctionOnSet(f, S \ {y})
<1> DEFINE Wrong == {s \in SUBSET S :
              \E z \in s : SumFunctionOnSet(f, s) # f[z] + SumFunctionOnSet(f, s \ {z})}
<1>1. \A s \in Wrong : IsFiniteSet(s)
  BY FS_Subset
<1>2. ASSUME NEW s \in Wrong, \A t \in Wrong : Cardinality(s) <= Cardinality(t)
      PROVE  FALSE
  <2>1. PICK z \in s : SumFunctionOnSet(f, s) # f[z] + SumFunctionOnSet(f, s \ {z})
    OBVIOUS
  <2> DEFINE x == Chosen(s)
  <2>2. x \in s /\ IsFiniteSet(s) /\ SumFunctionOnSet(f, s) = f[x] + SumFunctionOnSet(f, s \ {x})
    BY <1>1, <2>1, SumChosen, ChosenRemoved
  <2> HIDE DEF x
  <2>3. x # z
    BY <2>1, <2>2
  <2>4. s \ {x} \notin Wrong /\ s \ {z} \notin Wrong
    <3>1. /\ Cardinality(s) \in Nat
          /\ Cardinality(s \ {x}) = Cardinality(s) - 1
          /\ Cardinality(s \ {z}) = Cardinality(s) - 1
      BY <2>1, <2>2, FS_RemoveElement, FS_CardinalityType
    <3>2. QED
      BY <1>2, <3>1
  <2>5. /\ SumFunctionOnSet(f, s \ {x}) = f[z] + SumFunctionOnSet(f, (s \ {x}) \ {z})
        /\ SumFunctionOnSet(f, s \ {z}) = f[x] + SumFunctionOnSet(f, (s \ {z}) \ {x})
    BY <2>2, <2>3, <2>4
  <2>6. (s \ {x}) \ {z} = (s \ {z}) \ {x}
    OBVIOUS
  <2>7. f[x] \in Int /\ f[z] \in Int /\ SumFunctionOnSet(f, (s \ {z}) \ {x}) \in Int
    <3>1. IsFiniteSet((s \ {z}) \ {x}) /\ \A k \in (s \ {z}) \ {x} : f[k] \in Int
      BY <2>2, FS_RemoveElement
    <3>2. SumFunctionOnSet(f, (s \ {z}) \ {x}) \in Int
      BY <3>1, SumInt
    <3>3. QED
      BY <2>2, <3>2
  <2> DEFINE rest == SumFunctionOnSet(f, (s \ {z}) \ {x})
  <2>8. /\ SumFunctionOnSet(f, s) = f[x] + (f[z] + rest)
        /\ SumFunctionOnSet(f, s \ {z}) = f[x] + rest
        /\ rest \in Int
    BY <2>2, <2>5, <2>6, <2>7
  <2> HIDE DEF rest
  <2>9. QED
    BY <2>1, <2>7, <2>8
<1>3. Wrong = {}
  BY <1>1, <1>2, SmallestSet, Zenon
<1>4. QED
  BY <1>3

\* Functions that agree on the set have the same sum.
LEMMA SumEqual ==
  ASSUME NEW f, NEW g, NEW S, IsFiniteSet(S), \A x \in S : f[x] = g[x]
  PROVE  SumFunctionOnSet(f, S) = SumFunctionOnSet(g, S)
<1> DEFINE Wrong == {s \in SUBSET S : SumFunctionOnSet(f, s) # SumFunctionOnSet(g, s)}
<1>1. \A s \in Wrong : IsFiniteSet(s)
  BY FS_Subset
<1>2. ASSUME NEW s \in Wrong, \A t \in Wrong : Cardinality(s) <= Cardinality(t)
      PROVE  FALSE
  <2>1. s # {}
    BY SumEmpty
  <2>2. s \ {Chosen(s)} \notin Wrong /\ Chosen(s) \in s
    BY <1>1, <1>2, <2>1, ChosenRemoved
  <2>3. SumFunctionOnSet(f, s \ {Chosen(s)}) = SumFunctionOnSet(g, s \ {Chosen(s)})
    BY <2>2
  <2>4. f[Chosen(s)] = g[Chosen(s)]
    BY <2>2
  <2>5. QED
    BY <1>1, <2>1, <2>3, <2>4, SumChosen
<1>3. Wrong = {}
  BY <1>1, <1>2, SmallestSet, Zenon
<1>4. QED
  BY <1>3

\* A sum of one term.
LEMMA SumOne ==
  ASSUME NEW f, NEW x, f[x] \in Int
  PROVE  SumFunctionOnSet(f, {x}) = f[x]
<1>1. IsFiniteSet({x}) /\ {x} \ {x} = {}
  BY FS_Singleton
<1>2. SumFunctionOnSet(f, {x}) = f[x] + SumFunctionOnSet(f, {x} \ {x})
  BY <1>1, SumRemove
<1>3. QED
  BY <1>1, <1>2, SumEmpty

\* A sum over a set that loses the key y only loses y's term; stated for the
\* set that gains it.
LEMMA SumAdd ==
  ASSUME NEW f, NEW S, IsFiniteSet(S), NEW y, y \notin S, \A x \in S \cup {y} : f[x] \in Int
  PROVE  SumFunctionOnSet(f, S \cup {y}) = f[y] + SumFunctionOnSet(f, S)
<1>1. IsFiniteSet(S \cup {y})
  BY FS_AddElement
<1>2. (S \cup {y}) \ {y} = S
  OBVIOUS
<1>3. SumFunctionOnSet(f, S \cup {y}) = f[y] + SumFunctionOnSet(f, (S \cup {y}) \ {y})
  BY <1>1, SumRemove
<1>4. QED
  BY <1>2, <1>3

\* A sum is at least another whose terms are not larger.
LEMMA SumMonotone ==
  ASSUME NEW f, NEW g, NEW S, IsFiniteSet(S),
         \A x \in S : f[x] \in Int /\ g[x] \in Int /\ f[x] <= g[x]
  PROVE  SumFunctionOnSet(f, S) <= SumFunctionOnSet(g, S)
<1> DEFINE Wrong == {s \in SUBSET S : ~ (SumFunctionOnSet(f, s) <= SumFunctionOnSet(g, s))}
<1>1. \A s \in Wrong : IsFiniteSet(s)
  BY FS_Subset
<1>2. ASSUME NEW s \in Wrong, \A t \in Wrong : Cardinality(s) <= Cardinality(t)
      PROVE  FALSE
  <2>1. s # {}
    <3>1. SumFunctionOnSet(f, {}) = 0 /\ SumFunctionOnSet(g, {}) = 0
      BY SumEmpty
    <3>2. QED
      BY <3>1
  <2> DEFINE rest == s \ {Chosen(s)}
  <2>2. rest \notin Wrong /\ Chosen(s) \in s /\ IsFiniteSet(rest)
    BY <1>1, <1>2, <2>1, ChosenRemoved
  <2>3. SumFunctionOnSet(f, rest) <= SumFunctionOnSet(g, rest)
    BY <2>2
  <2>4. SumFunctionOnSet(f, rest) \in Int /\ SumFunctionOnSet(g, rest) \in Int
    BY <2>2, SumInt
  <2>5. /\ SumFunctionOnSet(f, s) = f[Chosen(s)] + SumFunctionOnSet(f, rest)
        /\ SumFunctionOnSet(g, s) = g[Chosen(s)] + SumFunctionOnSet(g, rest)
    BY <1>1, <2>1, SumChosen
  <2> HIDE DEF rest
  <2>6. QED
    BY <2>2, <2>3, <2>4, <2>5
<1>3. Wrong = {}
  BY <1>1, <1>2, SmallestSet, Zenon
<1>4. QED
  BY <1>3

\* The sum of sums.
LEMMA SumPlus ==
  ASSUME NEW f, NEW g, NEW h, NEW S, IsFiniteSet(S),
         \A x \in S : f[x] \in Int /\ g[x] \in Int /\ h[x] = f[x] + g[x]
  PROVE  SumFunctionOnSet(h, S) = SumFunctionOnSet(f, S) + SumFunctionOnSet(g, S)
<1> DEFINE Wrong == {s \in SUBSET S :
              SumFunctionOnSet(h, s) # SumFunctionOnSet(f, s) + SumFunctionOnSet(g, s)}
<1>1. \A s \in Wrong : IsFiniteSet(s)
  BY FS_Subset
<1>2. ASSUME NEW s \in Wrong, \A t \in Wrong : Cardinality(s) <= Cardinality(t)
      PROVE  FALSE
  <2>1. s # {}
    <3>1. /\ SumFunctionOnSet(f, {}) = 0 /\ SumFunctionOnSet(g, {}) = 0
          /\ SumFunctionOnSet(h, {}) = 0
      BY SumEmpty
    <3>2. SumFunctionOnSet(h, {}) = SumFunctionOnSet(f, {}) + SumFunctionOnSet(g, {})
      BY <3>1
    <3>3. QED
      BY <3>2, Zenon
  <2> DEFINE rest == s \ {Chosen(s)}
  <2>2. rest \notin Wrong /\ Chosen(s) \in s /\ IsFiniteSet(rest)
    BY <1>1, <1>2, <2>1, ChosenRemoved
  <2>3. SumFunctionOnSet(h, rest) = SumFunctionOnSet(f, rest) + SumFunctionOnSet(g, rest)
    BY <2>2
  <2>4. SumFunctionOnSet(f, rest) \in Int /\ SumFunctionOnSet(g, rest) \in Int
    BY <2>2, SumInt
  <2>5. /\ SumFunctionOnSet(f, s) = f[Chosen(s)] + SumFunctionOnSet(f, rest)
        /\ SumFunctionOnSet(g, s) = g[Chosen(s)] + SumFunctionOnSet(g, rest)
        /\ SumFunctionOnSet(h, s) = h[Chosen(s)] + SumFunctionOnSet(h, rest)
    BY <1>1, <2>1, SumChosen
  <2> HIDE DEF rest
  <2>6. QED
    BY <2>2, <2>3, <2>4, <2>5
<1>3. Wrong = {}
  BY <1>1, <1>2, SmallestSet, Zenon
<1>4. QED
  BY <1>3

\* Functions that differ at one place have sums that differ by as much.
LEMMA SumChanged ==
  ASSUME NEW f, NEW g, NEW S, IsFiniteSet(S), NEW y \in S,
         \A x \in S : f[x] \in Int /\ g[x] \in Int, \A x \in S \ {y} : f[x] = g[x]
  PROVE  /\ SumFunctionOnSet(f, S) \in Int /\ SumFunctionOnSet(g, S) \in Int
         /\ SumFunctionOnSet(g, S) = SumFunctionOnSet(f, S) + (g[y] - f[y])
<1> DEFINE rest == S \ {y}
<1>1. IsFiniteSet(rest) /\ \A x \in rest : f[x] \in Int /\ g[x] \in Int /\ f[x] = g[x]
  BY FS_RemoveElement
<1>2. SumFunctionOnSet(f, S) = f[y] + SumFunctionOnSet(f, rest)
  BY SumRemove
<1>3. SumFunctionOnSet(g, S) = g[y] + SumFunctionOnSet(g, rest)
  BY SumRemove
<1> HIDE DEF rest
<1>4. SumFunctionOnSet(f, rest) = SumFunctionOnSet(g, rest)
  BY <1>1, SumEqual
<1>5. SumFunctionOnSet(f, rest) \in Int
  BY <1>1, SumInt
<1> QED
  BY <1>2, <1>3, <1>4, <1>5

\* A factor common to every term comes out of the sum.
LEMMA SumScaled ==
  ASSUME NEW f, NEW g, NEW k \in Int, NEW S, IsFiniteSet(S),
         \A x \in S : f[x] \in Int /\ g[x] = f[x] * k
  PROVE  SumFunctionOnSet(g, S) = SumFunctionOnSet(f, S) * k
<1> DEFINE F(s) == SumFunctionOnSet(f, s)
           G(s) == SumFunctionOnSet(g, s)
           Wrong == {s \in SUBSET S : G(s) # F(s) * k}
<1>1. \A s \in Wrong : IsFiniteSet(s)
  BY FS_Subset
<1>2. ASSUME NEW s \in Wrong, \A t \in Wrong : Cardinality(s) <= Cardinality(t)
      PROVE  FALSE
  <2> DEFINE c == Chosen(s)
             t == s \ {Chosen(s)}
  <2>1. IsFiniteSet(s) /\ s \in SUBSET S /\ G(s) # F(s) * k
    BY <1>1
  <2>2. CASE s = {}
    <3>1. G(s) = 0 /\ F(s) = 0
      BY <2>2, SumEmpty
    <3>2. 0 * k = 0
      OBVIOUS
    <3> HIDE DEF F, G
    <3> QED
      BY <2>1, <3>1, <3>2, Zenon
  <2>3. CASE s # {}
    <3>1. /\ c \in s /\ t \subseteq s /\ IsFiniteSet(t) /\ Cardinality(s) \in Nat
          /\ Cardinality(t) = Cardinality(s) - 1
      BY <2>1, <2>3, ChosenRemoved, Zenon
    <3>2. G(s) = g[c] + G(t) /\ F(s) = f[c] + F(t)
      BY <2>1, <2>3, SumChosen
    <3>3. \A x \in t : f[x] \in Int
      BY <2>1, <3>1
    <3> HIDE DEF c, t
    <3>4. F(t) \in Int
      BY <3>1, <3>3, SumInt
    <3> HIDE DEF F, G
    <3>5. G(t) = F(t) * k
      BY <1>2, <2>1, <3>1
    <3>6. f[c] \in Int /\ g[c] = f[c] * k
      BY <2>1, <3>1
    <3>7. G(s) = F(s) * k
      <4>1. (f[c] + F(t)) * k = f[c] * k + F(t) * k
        BY <3>4, <3>6
      <4> QED
        BY <3>2, <3>5, <3>6, <4>1, Zenon
    <3> QED
      BY <2>1, <3>7
  <2> QED
    BY <2>2, <2>3
<1>3. Wrong = {}
  BY <1>1, <1>2, SmallestSet
<1> QED
  BY <1>3

\* Zeros add up to zero.
LEMMA SumOfZeros ==
  ASSUME NEW f, NEW S, IsFiniteSet(S), \A x \in S : f[x] = 0
  PROVE  SumFunctionOnSet(f, S) = 0
<1> DEFINE Wrong == {s \in SUBSET S : SumFunctionOnSet(f, s) # 0}
<1>1. \A s \in Wrong : IsFiniteSet(s)
  BY FS_Subset
<1>2. ASSUME NEW s \in Wrong, \A t \in Wrong : Cardinality(s) <= Cardinality(t)
      PROVE  FALSE
  <2>1. IsFiniteSet(s) /\ s # {}
    BY <1>1, SumEmpty
  <2>2. /\ Chosen(s) \in s /\ s \ {Chosen(s)} \in SUBSET S
        /\ Cardinality(s \ {Chosen(s)}) < Cardinality(s)
    BY <2>1, ChosenRemoved
  <2>3. s \ {Chosen(s)} \notin Wrong
    BY <1>2, <2>1, <2>2, ChosenRemoved, FS_CardinalityType
  <2>4. SumFunctionOnSet(f, s) = f[Chosen(s)] + SumFunctionOnSet(f, s \ {Chosen(s)})
    BY <2>1, SumChosen
  <2>5. f[Chosen(s)] = 0
    BY <2>2
  <2> QED
    BY <2>2, <2>3, <2>4, <2>5
<1>3. Wrong = {}
  BY <1>1, <1>2, SmallestSet
<1> QED
  BY <1>3

-----------------------------------------------------------------------------
(* Folds: the recursion with any step, given as a function *)

\* One step of a fold over the set s: G takes what pick removes from s and
\* the fold over the rest.
FoldStep(G, base, pick, g, s) ==
  IF s = {} THEN base ELSE G[<<pick[s], g[s \ {pick[s]}]>>]
IsFoldOn(G, base, pick, S, g) == \A s \in SUBSET S : g[s] = FoldStep(G, base, pick, g, s)

\* pick takes an element of every set, and G's results have the type A.
Picks(pick, S)  == \A s \in SUBSET S : s # {} => pick[s] \in s
Keeps(G, S, A)  == \A x \in S, a \in A : G[<<x, a>>] \in A

FoldUpTo(G, base, pick, S, g, n) ==
  \A s \in SUBSET S : Cardinality(s) <= n => g[s] = FoldStep(G, base, pick, g, s)

LEMMA FoldUpToExtends ==
  ASSUME NEW G, NEW base, NEW pick, NEW S, IsFiniteSet(S),
         Picks(pick, S), NEW A, base \in A, Keeps(G, S, A),
         NEW n \in Nat, NEW g \in [SUBSET S -> A], FoldUpTo(G, base, pick, S, g, n)
  PROVE  \E h \in [SUBSET S -> A] : FoldUpTo(G, base, pick, S, h, n + 1)
<1> DEFINE step(s) == FoldStep(G, base, pick, g, s)
           h == [s \in SUBSET S |-> IF Cardinality(s) <= n THEN g[s] ELSE step(s)]
<1>1. \A s \in SUBSET S : step(s) \in A
  <2> SUFFICES ASSUME NEW s \in SUBSET S, s # {}
               PROVE  G[<<pick[s], g[s \ {pick[s]}]>>] \in A
    BY DEF FoldStep
  <2>1. pick[s] \in S /\ g[s \ {pick[s]}] \in A
    BY DEF Picks
  <2> QED
    BY <2>1 DEF Keeps
<1>2. h \in [SUBSET S -> A]
  BY <1>1
<1>3. ASSUME NEW s \in SUBSET S, Cardinality(s) <= n + 1
      PROVE  h[s] = FoldStep(G, base, pick, h, s)
  <2>1. IsFiniteSet(s) /\ Cardinality(s) \in Nat
    BY FS_Subset, FS_CardinalityType
  <2>2. FoldStep(G, base, pick, h, s) = step(s)
    <3>1. CASE s = {}
      BY <3>1 DEF FoldStep
    <3>2. CASE s # {}
      <4>1. pick[s] \in s
        BY <3>2 DEF Picks
      <4> DEFINE x == pick[s]
      <4> HIDE DEF x
      <4>2. s \ {x} \in SUBSET S /\ Cardinality(s \ {x}) <= n
        <5>1. x \in s
          BY <4>1 DEF x
        <5>2. Cardinality(s \ {x}) = Cardinality(s) - 1
          BY <2>1, <5>1, FS_RemoveElement
        <5> QED
          BY <1>3, <2>1, <5>2
      <4>3. h[s \ {pick[s]}] = g[s \ {pick[s]}]
        BY <4>2 DEF x
      <4> QED
        BY <3>2, <4>3 DEF FoldStep
    <3> QED
      BY <3>1, <3>2
  <2>3. h[s] = step(s)
    BY DEF FoldUpTo
  <2> QED
    BY <2>2, <2>3
<1>4. FoldUpTo(G, base, pick, S, h, n + 1)
  BY <1>3, Zenon DEF FoldUpTo
<1> QED
  BY <1>2, <1>4, Zenon

\* A fold over a finite set is well defined, whatever order pick takes the
\* elements in, and keeps to the type of its step.
LEMMA FoldExists ==
  ASSUME NEW G, NEW base, NEW pick, NEW S, IsFiniteSet(S),
         Picks(pick, S), NEW A, base \in A, Keeps(G, S, A)
  PROVE  \E g \in [SUBSET S -> A] : IsFoldOn(G, base, pick, S, g)
<1> DEFINE Reached(n) == \E g \in [SUBSET S -> A] : FoldUpTo(G, base, pick, S, g, n)
           Missing == {n \in Nat : ~ Reached(n)}
<1>1. Missing = {}
  <2>1. SUFFICES ASSUME NEW n \in Missing, \A m \in Missing : n <= m
                 PROVE  FALSE
    <3>1. Missing \subseteq Nat
      OBVIOUS
    <3> QED
      BY <3>1, LeastNatural, Zenon
  <2>2. CASE n = 0
    <3> DEFINE g == [s \in SUBSET S |-> base]
    <3>1. ASSUME NEW s \in SUBSET S, Cardinality(s) <= 0
          PROVE  g[s] = FoldStep(G, base, pick, g, s)
      <4>1. s = {}
        BY <3>1, FS_Subset, FS_CardinalityType, FS_EmptySet
      <4> QED
        BY <4>1 DEF FoldStep
    <3>2. g \in [SUBSET S -> A]
      OBVIOUS
    <3>3. FoldUpTo(G, base, pick, S, g, 0)
      BY <3>1, Zenon DEF FoldUpTo
    <3> QED
      BY <2>2, <3>2, <3>3, Zenon
  <2>3. CASE n # 0
    <3>1. n - 1 \in Nat /\ n - 1 \notin Missing /\ n - 1 + 1 = n
      <4>1. n \in Nat
        OBVIOUS
      <4>2. n - 1 \in Nat /\ ~(n <= n - 1) /\ n - 1 + 1 = n
        BY <2>3, <4>1
      <4> QED
        BY <2>1, <4>2
    <3>2. PICK g \in [SUBSET S -> A] : FoldUpTo(G, base, pick, S, g, n - 1)
      BY <3>1
    <3>3. \E h \in [SUBSET S -> A] : FoldUpTo(G, base, pick, S, h, n - 1 + 1)
      BY <3>1, <3>2, FoldUpToExtends
    <3> QED
      BY <3>1, <3>3
  <2> QED
    BY <2>2, <2>3
<1>2. Cardinality(S) \in Nat /\ \A s \in SUBSET S : Cardinality(s) <= Cardinality(S)
  BY FS_Subset, FS_CardinalityType
<1>3. PICK g \in [SUBSET S -> A] : FoldUpTo(G, base, pick, S, g, Cardinality(S))
  BY <1>1, <1>2
<1>4. IsFoldOn(G, base, pick, S, g)
  BY <1>2, <1>3 DEF FoldUpTo, IsFoldOn
<1> QED
  BY <1>4

-----------------------------------------------------------------------------
(* Totals of shares *)

\* A function over a finite set of keys has finitely many shares.
LEMMA SharesFinite ==
  ASSUME NEW K, IsFiniteSet(K), NEW B \in Nat, NEW f \in [K -> 0 .. B]
  PROVE  IsFiniteSet(SharesIn(f)) /\ Total(f) \in Nat
<1>1. SharesIn(f) \subseteq K \X (1 .. B)
  BY DEF SharesIn, SharesOf
<1>2. IsFiniteSet(K \X (1 .. B))
  <2>1. IsFiniteSet(1 .. B)
    BY FS_Interval
  <2>2. QED
    BY <2>1, FS_Product, Zenon
<1>3. IsFiniteSet(SharesIn(f))
  BY <1>1, <1>2, FS_Subset
<1>4. QED
  BY <1>3, FS_CardinalityType DEF Total

\* A key holding q shares contributes q.
LEMMA SharesOfOne ==
  ASSUME NEW c, NEW q \in Nat
  PROVE  IsFiniteSet(SharesOf(c, q)) /\ Cardinality(SharesOf(c, q)) = q
<1> DEFINE number == [i \in 1 .. q |-> <<c, i>>]
<1>1. number \in Bijection(1 .. q, SharesOf(c, q))
  <2>1. number \in [1 .. q -> SharesOf(c, q)]
    BY DEF SharesOf
  <2>2. \A i, j \in 1 .. q : number[i] = number[j] => i = j
    OBVIOUS
  <2>3. \A t \in SharesOf(c, q) : \E i \in 1 .. q : number[i] = t
    BY DEF SharesOf
  <2>4. QED
    BY <2>1, <2>2, <2>3, Fun_IsBij
<1>2. ExistsBijection(1 .. q, SharesOf(c, q))
  BY <1>1 DEF ExistsBijection
<1>3. IsFiniteSet(1 .. q) /\ Cardinality(1 .. q) = q
  BY FS_Interval
<1>4. QED
  BY <1>2, <1>3, FS_Bijection

\* Pointwise smaller functions have smaller totals.
LEMMA TotalMonotone ==
  ASSUME NEW K, IsFiniteSet(K), NEW B \in Nat,
         NEW f \in [K -> 0 .. B], NEW g \in [K -> 0 .. B],
         \A c \in K : f[c] <= g[c]
  PROVE  Total(f) <= Total(g)
<1>1. SharesIn(f) \subseteq SharesIn(g)
  BY DEF SharesIn, SharesOf
<1>2. QED
  BY <1>1, SharesFinite, FS_Subset DEF Total

\* Changing one key changes the total by the change of that key.
LEMMA TotalChange ==
  ASSUME NEW K, IsFiniteSet(K), NEW B \in Nat,
         NEW f \in [K -> 0 .. B], NEW g \in [K -> 0 .. B],
         NEW c \in K, \A d \in K \ {c} : f[d] = g[d]
  PROVE  Total(f) + g[c] = Total(g) + f[c]
<1> DEFINE rest == {s \in SharesIn(f) : s[1] # c}
<1>1. SharesIn(f) = rest \cup SharesOf(c, f[c]) /\ rest \cap SharesOf(c, f[c]) = {}
  BY DEF SharesIn, SharesOf
<1>2. rest = {s \in SharesIn(g) : s[1] # c}
  BY DEF SharesIn, SharesOf
<1>3. SharesIn(g) = rest \cup SharesOf(c, g[c]) /\ rest \cap SharesOf(c, g[c]) = {}
  BY <1>2 DEF SharesIn, SharesOf
<1>4. IsFiniteSet(rest)
  BY SharesFinite, FS_Subset
<1> HIDE DEF rest
<1>5. f[c] \in Nat /\ g[c] \in Nat
  OBVIOUS
<1>6. Total(f) = Cardinality(rest) + f[c]
  <2>1. IsFiniteSet(SharesOf(c, f[c])) /\ Cardinality(SharesOf(c, f[c])) = f[c]
    BY <1>5, SharesOfOne
  <2>2. Cardinality(rest \cup SharesOf(c, f[c]))
          = Cardinality(rest) + Cardinality(SharesOf(c, f[c])) - Cardinality({})
    BY <1>1, <1>4, <2>1, FS_Union
  <2>3. QED
    BY <1>1, <1>4, <1>5, <2>1, <2>2, FS_EmptySet, FS_CardinalityType DEF Total
<1>7. Total(g) = Cardinality(rest) + g[c]
  <2>1. IsFiniteSet(SharesOf(c, g[c])) /\ Cardinality(SharesOf(c, g[c])) = g[c]
    BY <1>5, SharesOfOne
  <2>2. Cardinality(rest \cup SharesOf(c, g[c]))
          = Cardinality(rest) + Cardinality(SharesOf(c, g[c])) - Cardinality({})
    BY <1>3, <1>4, <2>1, FS_Union
  <2>3. QED
    BY <1>3, <1>4, <1>5, <2>1, <2>2, FS_EmptySet, FS_CardinalityType DEF Total
<1>8. QED
  BY <1>4, <1>5, <1>6, <1>7, FS_CardinalityType

\* A total is at least each of its terms.
LEMMA TotalCovers ==
  ASSUME NEW K, IsFiniteSet(K), NEW B \in Nat, NEW f \in [K -> 0 .. B], NEW c \in K
  PROVE  f[c] <= Total(f)
<1>1. SharesOf(c, f[c]) \subseteq SharesIn(f)
  BY DEF SharesIn
<1>2. Cardinality(SharesOf(c, f[c])) = f[c]
  BY SharesOfOne
<1>3. QED
  BY <1>1, <1>2, SharesFinite, FS_Subset DEF Total

\* The total of nothing is zero.
LEMMA TotalOfZero ==
  ASSUME NEW K, NEW f \in [K -> {0}]
  PROVE  Total(f) = 0
<1>1. SharesIn(f) = {}
  BY DEF SharesIn, SharesOf
<1>2. QED
  BY <1>1, FS_EmptySet DEF Total

-----------------------------------------------------------------------------
(* Left folds: a trace of intermediate results *)

\* Induction along a prefix, for a set of numbers.
LEMMA UpTo ==
  ASSUME NEW n \in Nat, NEW Good, 0 \in Good, \A k \in 1 .. n : k - 1 \in Good => k \in Good
  PROVE  \A k \in 0 .. n : k \in Good
<1> DEFINE Bad == {k \in 0 .. n : k \notin Good}
<1>1. SUFFICES ASSUME NEW k \in Bad, \A j \in Bad : k <= j
               PROVE  FALSE
  <2>1. Bad \subseteq Nat
    OBVIOUS
  <2>2. Bad = {}
    BY <1>1, <2>1, LeastNatural, Zenon
  <2> QED
    BY <2>2
<1>2. k \in 1 .. n /\ k - 1 \in 0 .. n /\ ~(k <= k - 1)
  OBVIOUS
<1>3. k - 1 \in Good
  BY <1>1, <1>2
<1> QED
  BY <1>2, <1>3

LEMMA LargestOfPrefix ==
  ASSUME NEW k \in Nat \ {0}
  PROVE  Max(1 .. k) = k /\ (1 .. k) \ {k} = 1 .. k - 1 /\ 1 .. k # {}
<1>1. k \in 1 .. k /\ \A y \in 1 .. k : k >= y
  OBVIOUS
<1>2. \A x \in 1 .. k : (\A y \in 1 .. k : x >= y) => x = k
  BY <1>1
<1>3. Max(1 .. k) = k
  BY <1>1, <1>2, Zenon DEF Max
<1>4. (1 .. k) \ {k} = 1 .. k - 1
  OBVIOUS
<1> QED
  BY <1>1, <1>3, <1>4, Zenon

LEMMA LargestChosen ==
  ASSUME NEW n \in Nat, NEW s \in SUBSET (1 .. n), s # {}
  PROVE  Max(s) \in s
<1> DEFINE below == {n - i : i \in s}
<1>1. below \subseteq Nat /\ below # {}
  <2>1. \A i \in s : n - i \in Nat
    OBVIOUS
  <2>2. PICK i \in s : TRUE
    OBVIOUS
  <2>3. n - i \in below
    OBVIOUS
  <2> QED
    BY <2>1, <2>3
<1> HIDE DEF below
<1>2. PICK m \in below : \A j \in below : m <= j
  BY <1>1, LeastNatural
<1>3. PICK x \in s : m = n - x
  BY <1>2 DEF below
<1>4. \A y \in s : x >= y
  <2> TAKE y \in s
  <2>1. n - y \in below
    BY DEF below
  <2> QED
    BY <1>2, <1>3, <2>1
<1> QED
  BY <1>4, Zenon DEF Max

\* The recursion of FoldLeft over n elements has a solution.
IsLeftFold(G, base, n, g) ==
  \A s \in SUBSET (1 .. n) : g[s] = IF s = {} THEN base ELSE G[<<Max(s), g[s \ {Max(s)}]>>]

LEMMA FoldLeftExists ==
  ASSUME NEW n \in Nat, NEW A, NEW base \in A, NEW G, Keeps(G, 1 .. n, A)
  PROVE  \E g \in [SUBSET (1 .. n) -> A] : IsLeftFold(G, base, n, g)
<1> DEFINE S == 1 .. n
           pick == [s \in SUBSET S |-> Max(s)]
<1>1. IsFiniteSet(S)
  BY FS_Interval
<1>2. Picks(pick, S)
  BY LargestChosen DEF Picks
<1> HIDE DEF pick
<1>3. PICK g \in [SUBSET S -> A] : IsFoldOn(G, base, pick, S, g)
  <2>1. Keeps(G, S, A)
    OBVIOUS
  <2> HIDE DEF S
  <2> QED
    BY <1>1, <1>2, <2>1, FoldExists
<1>4. IsLeftFold(G, base, n, g)
  BY <1>3 DEF FoldStep, IsFoldOn, IsLeftFold, pick
<1> QED
  BY <1>3, <1>4

\* Read prefix by prefix, that recursion is an iteration of G: H[k] is what is
\* made of the first k elements.
StepsOn(G, A, n, g) ==
  \A k \in 1 .. n : g[1 .. k - 1] \in A => g[1 .. k] = G[<<k, g[1 .. k - 1]>>]
IsTrace(G, A, base, n, H) ==
  H \in [0 .. n -> A] /\ H[0] = base /\ \A k \in 1 .. n : H[k] = G[<<k, H[k - 1]>>]

LEMMA FoldLeftTrace ==
  ASSUME NEW n \in Nat, NEW A, NEW base \in A, NEW G, Keeps(G, 1 .. n, A), NEW g, g[{}] = base,
         StepsOn(G, A, n, g)
  PROVE  \E H : IsTrace(G, A, base, n, H) /\ H[n] = g[1 .. n]
<1> DEFINE H == [k \in 0 .. n |-> g[1 .. k]]
<1>1. H[0] = base /\ H[n] = g[1 .. n] /\ H = [k \in 0 .. n |-> H[k]]
  <2>1. 1 .. 0 = {} /\ 0 \in 0 .. n /\ n \in 0 .. n
    OBVIOUS
  <2> QED
    BY <2>1
<1>2. ASSUME NEW k \in 1 .. n, H[k - 1] \in A
      PROVE  H[k] = G[<<k, H[k - 1]>>] /\ H[k] \in A
  <2>1. k \in 0 .. n /\ k - 1 \in 0 .. n
    OBVIOUS
  <2>2. H[k] = g[1 .. k] /\ H[k - 1] = g[1 .. k - 1]
    BY <2>1
  <2> HIDE DEF H
  <2>3. H[k] = G[<<k, H[k - 1]>>]
    BY <1>2, <2>2 DEF StepsOn
  <2> QED
    BY <1>2, <2>3 DEF Keeps
<1> HIDE DEF H
<1>3. \A k \in 0 .. n : H[k] \in A
  <2> DEFINE Good == {k \in 0 .. n : H[k] \in A}
  <2>1. 0 \in Good
    BY <1>1
  <2>2. ASSUME NEW k \in 1 .. n, k - 1 \in Good
        PROVE  k \in Good
    <3>1. H[k - 1] \in A /\ k \in 0 .. n
      BY <2>2
    <3> QED
      BY <1>2, <3>1
  <2> HIDE DEF Good
  <2>3. \A k \in 0 .. n : k \in Good
    BY <2>1, <2>2, UpTo
  <2> QED
    BY <2>3 DEF Good
<1>4. H \in [0 .. n -> A]
  BY <1>1, <1>3
<1>5. \A k \in 1 .. n : H[k] = G[<<k, H[k - 1]>>]
  BY <1>2, <1>3
<1> QED
  BY <1>1, <1>4, <1>5 DEF IsTrace

\* An iteration over 1 .. n exists.
LEMMA IterationExists ==
  ASSUME NEW n \in Nat, NEW A, NEW base \in A, NEW G, Keeps(G, 1 .. n, A)
  PROVE  \E H : IsTrace(G, A, base, n, H)
<1>1. PICK g \in [SUBSET (1 .. n) -> A] : IsLeftFold(G, base, n, g)
  BY FoldLeftExists
<1>2. g[{}] = base
  BY <1>1 DEF IsLeftFold
<1>3. StepsOn(G, A, n, g)
  <2> SUFFICES ASSUME NEW k \in 1 .. n
               PROVE  g[1 .. k] = G[<<k, g[1 .. k - 1]>>]
    BY DEF StepsOn
  <2>1. k \in Nat \ {0} /\ 1 .. k \in SUBSET (1 .. n)
    OBVIOUS
  <2>2. Max(1 .. k) = k /\ (1 .. k) \ {k} = 1 .. k - 1 /\ 1 .. k # {}
    BY <2>1, LargestOfPrefix
  <2> QED
    BY <1>1, <2>1, <2>2 DEF IsLeftFold
<1> QED
  BY <1>2, <1>3, FoldLeftTrace

\* Two iterations that start alike and step alike are alike.
StepAlike(n, H, K) == H[0] = K[0] /\ \A k \in 1 .. n : H[k - 1] = K[k - 1] => H[k] = K[k]
SameTrace(n, H, K)     == \A k \in 0 .. n : H[k] = K[k]

LEMMA TracesAgree ==
  ASSUME NEW n \in Nat, NEW H, NEW K, StepAlike(n, H, K)
  PROVE  SameTrace(n, H, K)
<1> DEFINE Good == {k \in 0 .. n : H[k] = K[k]}
<1>1. 0 \in Good
  BY DEF StepAlike
<1>2. \A k \in 1 .. n : k - 1 \in Good => k \in Good
  BY DEF StepAlike
<1> HIDE DEF Good
<1>3. \A k \in 0 .. n : k \in Good
  BY <1>1, <1>2, UpTo
<1> QED
  BY <1>3 DEF Good, SameTrace

\* A running sum exists.
LEMMA RunningSum ==
  ASSUME NEW n \in Nat, NEW inc, \A k \in 1 .. n : inc[k] \in Int
  PROVE  \E h \in [0 .. n -> Int] : /\ h[0] = 0
                                    /\ \A k \in 1 .. n : h[k] = h[k - 1] + inc[k]
<1> DEFINE A == Int
           base == 0
           G == [p \in (1 .. n) \X A |-> p[2] + inc[p[1]]]
<1>1. ASSUME NEW k \in 1 .. n, NEW a \in A
      PROVE  G[<<k, a>>] = a + inc[k] /\ G[<<k, a>>] \in A
  OBVIOUS
<1> HIDE DEF G
<1>2. Keeps(G, 1 .. n, A)
  BY <1>1, Zenon DEF Keeps
<1>3. base \in A
  OBVIOUS
<1> HIDE DEF A
<1>4. PICK H : IsTrace(G, A, base, n, H)
  BY <1>2, <1>3, IterationExists
<1>5. H \in [0 .. n -> A] /\ H[0] = base
  BY <1>4 DEF IsTrace
<1>6. ASSUME NEW k \in 1 .. n
      PROVE  H[k] = H[k - 1] + inc[k]
  <2>1. k - 1 \in 0 .. n
    OBVIOUS
  <2>2. H[k - 1] \in A /\ H[k] = G[<<k, H[k - 1]>>]
    BY <1>4, <1>5, <2>1 DEF IsTrace
  <2> QED
    BY <1>1, <2>2
<1> QED
  BY <1>5, <1>6 DEF A

-----------------------------------------------------------------------------
(* The sum of a sequence of integers *)

\* A function on 1 .. n is a sequence of what its values are in.
LEMMA SequenceOf ==
  ASSUME NEW X, NEW n \in Nat, NEW f, f = [i \in 1 .. n |-> f[i]], \A i \in 1 .. n : f[i] \in X
  PROVE  f \in Seq(X) /\ Len(f) = n /\ DOMAIN f = 1 .. n
<1>1. f \in [1 .. n -> X]
  OBVIOUS
<1>2. f \in Seq(X)
  BY <1>1
<1>3. DOMAIN f = 1 .. n
  BY <1>1
<1> QED
  BY <1>2, <1>3, LenProperties

LEMMA SeqOfFunction ==
  ASSUME NEW n \in Nat, NEW X, NEW f \in [1 .. n -> X]
  PROVE  f \in Seq(X) /\ Len(f) = n
OBVIOUS

\* The sum from a given start.
Started(base, seq) == FoldLeft(+, base, seq)

LEMMA PlusInt == ASSUME NEW a \in Int, NEW x \in Int PROVE a + x \in Int
  OBVIOUS

LEMMA StartedTrace ==
  ASSUME NEW base \in Int, NEW seq \in Seq(Int)
  PROVE  \E H \in [0 .. Len(seq) -> Int] :
           /\ H[0] = base
           /\ \A k \in 1 .. Len(seq) : H[k] = H[k - 1] + seq[k]
           /\ Started(base, seq) = H[Len(seq)]
<1> DEFINE n == Len(seq)
           none == base
           G == [p \in (1 .. n) \X Int |-> p[2] + seq[p[1]]]
           IsIter(g) == g = [t \in SUBSET (1 .. n) |->
             IF t = {} THEN none ELSE g[t \ {Max(t)}] + seq[Max(t)]]
           iter == CHOOSE g : IsIter(g)
<1>1. n \in Nat /\ DOMAIN seq = 1 .. n /\ \A i \in 1 .. n : seq[i] \in Int
  BY LenProperties, ElementOfSeq
<1>2. Started(base, seq) = iter[1 .. n]
  <2>1. Started(base, seq) = (CHOOSE g : g = [t \in SUBSET (DOMAIN seq) |->
          IF t = {} THEN none ELSE g[t \ {Max(t)}] + seq[Max(t)]])[DOMAIN seq]
    BY Zenon DEF Started, FoldLeft, MapThenFoldSet
  <2> QED
    BY <1>1, <2>1, Zenon
<1>3. none \in Int
  BY PlusInt
<1> HIDE DEF n, none
<1>4. ASSUME NEW i \in 1 .. n, NEW a \in Int
      PROVE  G[<<i, a>>] = a + seq[i]
  OBVIOUS
<1> HIDE DEF G
<1>5. Keeps(G, 1 .. n, Int)
  <2>1. ASSUME NEW i \in 1 .. n, NEW a \in Int
        PROVE  G[<<i, a>>] \in Int
    <3>1. a + seq[i] \in Int
      BY <1>1, PlusInt, Zenon
    <3> QED
      BY <1>4, <3>1, Zenon
  <2> QED
    BY <2>1, Zenon DEF Keeps
<1>6. \E g : IsIter(g)
  <2>1. PICK g \in [SUBSET (1 .. n) -> Int] : IsLeftFold(G, none, n, g)
    BY <1>1, <1>3, <1>5, FoldLeftExists
  <2>2. ASSUME NEW t \in SUBSET (1 .. n)
        PROVE  g[t] = IF t = {} THEN none ELSE g[t \ {Max(t)}] + seq[Max(t)]
    <3>1. t # {} => Max(t) \in 1 .. n
      BY <1>1, LargestChosen
    <3>2. g[t \ {Max(t)}] \in Int
      OBVIOUS
    <3> QED
      BY <1>4, <2>1, <3>1, <3>2 DEF IsLeftFold
  <2> QED
    BY <2>2
<1>7. IsIter(iter)
  BY <1>6
<1> HIDE DEF iter
<1>8. iter[{}] = none
  BY <1>7
<1>9. ASSUME NEW k \in 1 .. n, iter[1 .. k - 1] \in Int
      PROVE  iter[1 .. k] = G[<<k, iter[1 .. k - 1]>>]
  <2>1. k \in Nat \ {0} /\ 1 .. k \in SUBSET (1 .. n)
    BY <1>1
  <2>2. iter[1 .. k] = iter[(1 .. k) \ {Max(1 .. k)}] + seq[Max(1 .. k)]
    BY <1>7, <2>1, LargestOfPrefix
  <2>3. Max(1 .. k) = k /\ (1 .. k) \ {k} = 1 .. k - 1
    BY <2>1, LargestOfPrefix
  <2>4. iter[1 .. k] = iter[1 .. k - 1] + seq[k]
    BY <2>2, <2>3, Zenon
  <2> QED
    BY <1>4, <1>9, <2>4, Zenon
<1>10. PICK H : IsTrace(G, Int, none, n, H) /\ H[n] = iter[1 .. n]
  <2>1. StepsOn(G, Int, n, iter)
    BY <1>9, Zenon DEF StepsOn
  <2> QED
    BY <1>1, <1>3, <1>5, <1>8, <2>1, FoldLeftTrace
<1>11. ASSUME NEW k \in 1 .. n
       PROVE  H[k] = H[k - 1] + seq[k]
  <2>1. k - 1 \in 0 .. n
    BY <1>1
  <2>2. H[k - 1] \in Int /\ H[k] = G[<<k, H[k - 1]>>]
    BY <1>10, <2>1 DEF IsTrace
  <2> QED
    BY <1>4, <2>2
<1> QED
  BY <1>2, <1>10, <1>11 DEF IsTrace, n, none

\* Whatever runs like the sum is the sum.
Runs(W, base, seq) ==
  W[0] = base /\ \A k \in 1 .. Len(seq) : W[k] = W[k - 1] + seq[k]

LEMMA StartedRuns ==
  ASSUME NEW base \in Int, NEW seq \in Seq(Int), NEW W, Runs(W, base, seq)
  PROVE  Started(base, seq) = W[Len(seq)] /\ Started(base, seq) \in Int
         /\ \A k \in 0 .. Len(seq) : W[k] \in Int
<1> DEFINE n == Len(seq)
<1>1. n \in Nat
  BY LenProperties
<1>2. PICK H \in [0 .. n -> Int] : H[0] = base /\ (\A k \in 1 .. n : H[k] = H[k - 1] + seq[k]) /\ Started(base, seq) = H[n]
  BY StartedTrace
<1> HIDE DEF n
<1>3. StepAlike(n, H, W)
  BY <1>2 DEF StepAlike, Runs, n
<1>4. \A k \in 0 .. n : H[k] = W[k]
  BY <1>1, <1>3, TracesAgree DEF SameTrace
<1>5. n \in 0 .. n /\ \A k \in 0 .. n : H[k] \in Int
  BY <1>1, <1>2
<1> QED
  BY <1>2, <1>4, <1>5 DEF n

\* A sum to add on to: what it comes to after each element.
LEMMA RunsExist ==
  ASSUME NEW base \in Int, NEW seq \in Seq(Int)
  PROVE  \E W \in [0 .. Len(seq) -> Int] : Runs(W, base, seq) /\ Started(base, seq) = W[Len(seq)]
BY StartedTrace DEF Runs

LEMMA StartedAppend ==
  ASSUME NEW base \in Int, NEW seq \in Seq(Int), NEW x \in Int
  PROVE  Started(base, Append(seq, x)) = Started(base, seq) + x /\ Started(base, seq) \in Int
<1> DEFINE n == Len(seq)
           longer == Append(seq, x)
<1>1. /\ n \in Nat /\ longer \in Seq(Int) /\ Len(longer) = n + 1
      /\ longer[n + 1] = x /\ \A i \in 1 .. n : longer[i] = seq[i] /\ seq[i] \in Int
  BY AppendProperties, LenProperties, ElementOfSeq
<1> HIDE DEF longer
<1>2. PICK K \in [0 .. n + 1 -> Int] : Runs(K, base, longer) /\ Started(base, longer) = K[n + 1]
  BY <1>1, RunsExist
<1>3. Runs(K, base, seq)
  <2>1. \A k \in 1 .. n : k \in 1 .. n + 1
    BY <1>1
  <2> QED
    BY <1>1, <1>2, <2>1 DEF Runs
<1>4. Started(base, seq) = K[n] /\ Started(base, seq) \in Int
  BY <1>3, StartedRuns
<1>5. K[n + 1] = K[n] + x
  <2>1. n + 1 \in 1 .. n + 1 /\ (n + 1) - 1 = n
    BY <1>1
  <2> QED
    BY <1>1, <1>2, <2>1 DEF Runs
<1> QED
  BY <1>2, <1>4, <1>5 DEF longer

LEMMA StartedEmpty ==
  ASSUME NEW base \in Int
  PROVE  Started(base, << >>) = base
<1>1. << >> \in Seq(Int) /\ Len(<< >>) = 0
  BY EmptySeq
<1>2. PICK W \in [0 .. Len(<< >>) -> Int] : Runs(W, base, << >>) /\ Started(base, << >>) = W[Len(<< >>)]
  BY <1>1, RunsExist
<1> QED
  BY <1>1, <1>2 DEF Runs

\* Ones at chosen places add up to the number of places.
LEMMA OnesCount ==
  ASSUME NEW n \in Nat, NEW chosen \in SUBSET (1 .. n), NEW ones \in Seq(Int), Len(ones) = n,
         \A i \in 1 .. n : ones[i] = IF i \in chosen THEN 1 ELSE 0
  PROVE  Started(0, ones) = Cardinality(chosen)
<1> DEFINE first(k) == {i \in chosen : i <= k}
           W == [k \in 0 .. n |-> Cardinality(first(k))]
<1>1. \A k : IsFiniteSet(first(k))
  <2>1. IsFiniteSet(1 .. n)
    BY FS_Interval
  <2>2. \A k : first(k) \in SUBSET (1 .. n)
    OBVIOUS
  <2> HIDE DEF first
  <2> QED
    BY <2>1, <2>2, FS_Subset
<1>0. \A i \in chosen : i \in Int /\ 1 <= i /\ i <= n
  OBVIOUS
<1>2. W[0] = 0
  <2>1. first(0) = {}
    <3>1. ASSUME NEW i \in chosen, i <= 0
          PROVE  FALSE
      BY <1>0, <3>1
    <3> QED
      BY <3>1
  <2>2. W[0] = Cardinality(first(0))
    OBVIOUS
  <2> QED
    BY <2>1, <2>2, FS_EmptySet
<1>3. ASSUME NEW k \in 1 .. n
      PROVE  W[k] = W[k - 1] + ones[k]
  <2>1. k \in 0 .. n /\ k - 1 \in 0 .. n /\ ones[k] = IF k \in chosen THEN 1 ELSE 0
    OBVIOUS
  <2>2. W[k] = Cardinality(first(k)) /\ W[k - 1] = Cardinality(first(k - 1))
    BY <2>1
  <2>3. k \notin first(k - 1)
    OBVIOUS
  <2>4. CASE k \in chosen
    <3>1. first(k) = first(k - 1) \cup {k}
      <4>1. \A i \in chosen : i <= k <=> i <= k - 1 \/ i = k
        <5> TAKE i \in chosen
        <5> QED
          BY <1>0
      <4> QED
        BY <2>4, <4>1
    <3> DEFINE T == first(k - 1)
    <3>2. IsFiniteSet(T) /\ k \notin T /\ first(k) = T \cup {k}
      BY <1>1, <2>3, <3>1
    <3> HIDE DEF T
    <3>3. Cardinality(T \cup {k}) = Cardinality(T) + 1
      BY <3>2, FS_AddElement
    <3> HIDE DEF W, first
    <3> QED
      BY <2>1, <2>2, <2>4, <3>2, <3>3 DEF T
  <2>5. CASE k \notin chosen
    <3>1. first(k) = first(k - 1)
      <4>1. \A i \in chosen : i <= k <=> i <= k - 1
        <5> TAKE i \in chosen
        <5> QED
          BY <1>0, <2>5
      <4> QED
        BY <4>1
    <3>2. Cardinality(first(k - 1)) \in Nat
      <4> HIDE DEF first
      <4> QED
        BY <1>1, FS_CardinalityType
    <3> HIDE DEF W, first
    <3> QED
      BY <2>1, <2>2, <2>5, <3>1, <3>2
  <2> QED
    BY <2>4, <2>5
<1>4. W[n] = Cardinality(chosen)
  <2>1. first(n) = chosen
    BY <1>0
  <2>2. W[n] = Cardinality(first(n))
    OBVIOUS
  <2> HIDE DEF W, first
  <2> QED
    BY <2>1, <2>2
<1> HIDE DEF W
<1>5. Runs(W, 0, ones)
  BY <1>2, <1>3 DEF Runs
<1>6. Started(0, ones) = W[n]
  <2>1. 0 \in Int
    OBVIOUS
  <2> QED
    BY <1>5, <2>1, StartedRuns
<1> QED
  BY <1>4, <1>6

\* The sum of sums.
LEMMA StartedPlus ==
  ASSUME NEW f \in Seq(Int), NEW g \in Seq(Int), NEW h \in Seq(Int), Len(g) = Len(f), Len(h) = Len(f),
         \A i \in 1 .. Len(f) : h[i] = f[i] + g[i]
  PROVE  Started(0, h) = Started(0, f) + Started(0, g)
<1> DEFINE n == Len(f)
<1>1. n \in Nat /\ 0 \in Int
  BY LenProperties
<1>2. PICK F \in [0 .. n -> Int] : Runs(F, 0, f) /\ Started(0, f) = F[n]
  BY <1>1, RunsExist
<1>3. PICK G \in [0 .. n -> Int] : Runs(G, 0, g) /\ Started(0, g) = G[n]
  BY <1>1, RunsExist
<1> DEFINE W == [k \in 0 .. n |-> F[k] + G[k]]
<1>4. W[0] = 0
  BY <1>1, <1>2, <1>3 DEF Runs
<1>5. ASSUME NEW k \in 1 .. n
      PROVE  W[k] = W[k - 1] + h[k]
  <2>1. k \in 0 .. n /\ k - 1 \in 0 .. n
    BY <1>1
  <2>2. W[k] = F[k] + G[k] /\ W[k - 1] = F[k - 1] + G[k - 1]
    BY <2>1
  <2>3. F[k] = F[k - 1] + f[k] /\ G[k] = G[k - 1] + g[k]
    BY <1>2, <1>3 DEF Runs
  <2>4. F[k - 1] \in Int /\ G[k - 1] \in Int
    BY <1>2, <1>3, <2>1
  <2>5. f[k] \in Int /\ g[k] \in Int
    BY ElementOfSeq
  <2>6. h[k] = f[k] + g[k]
    OBVIOUS
  <2> DEFINE a == F[k - 1]
             b == G[k - 1]
             x == f[k]
             y == g[k]
  <2>7. W[k] = (a + x) + (b + y) /\ W[k - 1] = a + b /\ h[k] = x + y
    BY <2>2, <2>3, <2>6
  <2>8. a \in Int /\ b \in Int /\ x \in Int /\ y \in Int
    BY <2>4, <2>5
  <2> HIDE DEF W, a, b, x, y
  <2> QED
    BY <2>7, <2>8
<1>6. W[n] = Started(0, f) + Started(0, g)
  BY <1>1, <1>2, <1>3
<1> HIDE DEF W
<1>7. Runs(W, 0, h)
  BY <1>4, <1>5 DEF Runs
<1>8. Started(0, h) = W[n]
  BY <1>1, <1>7, StartedRuns
<1> QED
  BY <1>6, <1>8

\* One positive number among naturals makes their sum positive.
LEMMA StartedPositive ==
  ASSUME NEW n \in Nat, NEW weights \in [1 .. n -> Nat], NEW i \in 1 .. n, weights[i] > 0
  PROVE  Started(0, weights) > 0
<1>1. weights \in Seq(Int) /\ Len(weights) = n /\ 0 \in Int
  <2>1. weights \in [1 .. n -> Int]
    OBVIOUS
  <2> QED
    BY <2>1, SeqOfFunction
<1>2. PICK W \in [0 .. n -> Int] : Runs(W, 0, weights) /\ Started(0, weights) = W[n]
  BY <1>1, RunsExist
<1>3. W[0] = 0 /\ \A k \in 1 .. n : W[k] = W[k - 1] + weights[k] /\ weights[k] \in Nat
  BY <1>1, <1>2 DEF Runs
<1> DEFINE Good == {k \in 0 .. n : W[k] \in Nat /\ (i <= k => W[k] > 0)}
<1>4. 0 \in Good
  BY <1>3
<1>5. ASSUME NEW k \in 1 .. n, k - 1 \in Good
      PROVE  k \in Good
  <2>1. k \in 0 .. n /\ W[k - 1] \in Nat /\ (i <= k - 1 => W[k - 1] > 0)
    BY <1>5
  <2>2. W[k] = W[k - 1] + weights[k] /\ weights[k] \in Nat
    BY <1>3
  <2>3. W[k] \in Nat
    BY <2>1, <2>2
  <2>4. i = k => W[k] > 0
    BY <2>1, <2>2
  <2>5. i <= k - 1 => W[k] > 0
    BY <2>1, <2>2
  <2> QED
    BY <2>1, <2>3, <2>4, <2>5
<1> HIDE DEF Good
<1>6. \A k \in 0 .. n : k \in Good
  BY <1>4, <1>5, UpTo
<1>7. n \in Good
  BY <1>6
<1> QED
  BY <1>2, <1>7 DEF Good

-----------------------------------------------------------------------------
(* Elements of a sequence at some positions *)

\* What is kept of the first k elements.
IsKept(seq, positions, kept) ==
  kept = [n \in 0 .. Len(seq) |->
            IF n = 0 THEN <<>>
            ELSE IF n \in positions THEN Append(kept[n - 1], seq[n]) ELSE kept[n - 1]]

KeepsStep(positions, seq, f, k) == f[k] = IF k \in positions THEN Append(f[k - 1], seq[k]) ELSE f[k - 1]

LEMMA KeptSteps ==
  ASSUME NEW seq, NEW positions, NEW f, Len(seq) \in Nat, IsKept(seq, positions, f)
  PROVE  f[0] = << >> /\ \A k \in 1 .. Len(seq) : KeepsStep(positions, seq, f, k)
<1> DEFINE n == Len(seq)
<1>1. \A k \in 0 .. n :
        f[k] = IF k = 0 THEN <<>>
               ELSE IF k \in positions THEN Append(f[k - 1], seq[k]) ELSE f[k - 1]
  BY Zenon DEF IsKept
<1> HIDE DEF n
<1>2. n \in Nat
  BY DEF n
<1>3. f[0] = << >>
  BY <1>1, <1>2
<1>4. \A k \in 1 .. n : KeepsStep(positions, seq, f, k)
  <2> SUFFICES ASSUME NEW k \in 1 .. n
               PROVE  KeepsStep(positions, seq, f, k)
    OBVIOUS
  <2>1. k \in 0 .. n /\ k # 0
    BY <1>2
  <2> QED
    BY <1>1, <2>1 DEF KeepsStep
<1> QED
  BY <1>3, <1>4 DEF n

LEMMA AtKept ==
  ASSUME NEW X, NEW seq \in Seq(X), NEW positions
  PROVE  \E kept \in [0 .. Len(seq) -> Seq(X)] :
           IsKept(seq, positions, kept) /\ At(seq, positions) = kept[Len(seq)]
<1> DEFINE n == Len(seq)
           G == [p \in (1 .. n) \X Seq(X) |-> IF p[1] \in positions THEN Append(p[2], seq[p[1]]) ELSE p[2]]
           kept == CHOOSE f : IsKept(seq, positions, f)
<1>1. n \in Nat /\ \A k \in 1 .. n : seq[k] \in X
  BY LenProperties, ElementOfSeq
<1>2. << >> \in Seq(X)
  BY EmptySeq
<1> HIDE DEF n
<1>3. ASSUME NEW k \in 1 .. n, NEW a \in Seq(X)
      PROVE  G[<<k, a>>] = IF k \in positions THEN Append(a, seq[k]) ELSE a
  OBVIOUS
<1> HIDE DEF G
<1>4. Keeps(G, 1 .. n, Seq(X))
  <2>1. ASSUME NEW k \in 1 .. n, NEW a \in Seq(X)
        PROVE  G[<<k, a>>] \in Seq(X)
    <3>1. Append(a, seq[k]) \in Seq(X)
      BY <1>1, AppendProperties
    <3> QED
      BY <1>3, <3>1
  <2> QED
    BY <2>1, Zenon DEF Keeps
<1>5. PICK H : IsTrace(G, Seq(X), << >>, n, H)
  BY <1>1, <1>2, <1>4, IterationExists
<1>6. IsKept(seq, positions, H)
  <2>1. H \in [0 .. n -> Seq(X)] /\ H[0] = << >>
    BY <1>5 DEF IsTrace
  <2>2. ASSUME NEW k \in 1 .. n
        PROVE  H[k] = IF k \in positions THEN Append(H[k - 1], seq[k]) ELSE H[k - 1]
    <3>1. k - 1 \in 0 .. n
      BY <1>1
    <3>2. H[k] = G[<<k, H[k - 1]>>]
      BY <1>5 DEF IsTrace
    <3> QED
      BY <1>3, <2>1, <3>1, <3>2
  <2>3. ASSUME NEW k \in 0 .. n
        PROVE  H[k] = IF k = 0 THEN <<>>
                      ELSE IF k \in positions THEN Append(H[k - 1], seq[k]) ELSE H[k - 1]
    <3>1. CASE k = 0
      BY <2>1, <3>1
    <3>2. CASE k # 0
      <4>1. k \in 1 .. n
        BY <1>1, <3>2
      <4> QED
        BY <2>2, <3>2, <4>1
    <3> QED
      BY <3>1, <3>2
  <2> QED
    BY <2>1, <2>3, Zenon DEF IsKept, n
<1>7. IsKept(seq, positions, kept)
  BY <1>6
<1>8. At(seq, positions) = kept[n]
  BY Zenon DEF At, IsKept, n
<1> HIDE DEF kept
<1>9. StepAlike(n, H, kept)
  <2>1. Len(seq) \in Nat
    BY <1>1 DEF n
  <2>2. H[0] = << >> /\ \A k \in 1 .. n : KeepsStep(positions, seq, H, k)
    BY <1>6, <2>1, KeptSteps DEF n
  <2>3. kept[0] = << >> /\ \A k \in 1 .. n : KeepsStep(positions, seq, kept, k)
    BY <1>7, <2>1, KeptSteps DEF n
  <2> QED
    BY <2>2, <2>3 DEF KeepsStep, StepAlike
<1>10. \A k \in 0 .. n : H[k] = kept[k]
  BY <1>1, <1>9, TracesAgree DEF SameTrace
<1>11. H \in [0 .. n -> Seq(X)] /\ n \in 0 .. n
  BY <1>1, <1>5 DEF IsTrace
<1> QED
  BY <1>6, <1>8, <1>10, <1>11 DEF n

LEMMA AtTyped ==
  ASSUME NEW X, NEW seq \in Seq(X), NEW positions
  PROVE  At(seq, positions) \in Seq(X)
<1>1. PICK kept \in [0 .. Len(seq) -> Seq(X)] :
        IsKept(seq, positions, kept) /\ At(seq, positions) = kept[Len(seq)]
  BY AtKept
<1>2. Len(seq) \in 0 .. Len(seq)
  BY LenProperties
<1> QED
  BY <1>1, <1>2

LEMMA AtEmpty ==
  ASSUME NEW positions
  PROVE  At(<< >>, positions) = << >>
<1>1. << >> \in Seq({}) /\ Len(<< >>) = 0
  BY EmptySeq
<1>2. PICK kept : IsKept(<< >>, positions, kept) /\ At(<< >>, positions) = kept[Len(<< >>)]
  BY <1>1, AtKept
<1> QED
  BY <1>1, <1>2, KeptSteps

\* Positions that say the same about the elements keep the same of them, and one
\* more element is added when its position is among them.
LEMMA AtAgree ==
  ASSUME NEW X, NEW seq \in Seq(X), NEW positions, NEW others,
         \A k \in 1 .. Len(seq) : k \in positions <=> k \in others
  PROVE  At(seq, positions) = At(seq, others)
<1> DEFINE n == Len(seq)
<1>1. n \in Nat
  BY LenProperties
<1>2. PICK H \in [0 .. n -> Seq(X)] : IsKept(seq, positions, H) /\ At(seq, positions) = H[n]
  BY AtKept
<1>3. PICK K \in [0 .. n -> Seq(X)] : IsKept(seq, others, K) /\ At(seq, others) = K[n]
  BY AtKept
<1>4. H[0] = << >> /\ \A k \in 1 .. n : KeepsStep(positions, seq, H, k)
  BY <1>1, <1>2, KeptSteps
<1>5. K[0] = << >> /\ \A k \in 1 .. n : KeepsStep(others, seq, K, k)
  BY <1>1, <1>3, KeptSteps
<1> HIDE DEF n
<1>6. \A k \in 1 .. n : k \in positions <=> k \in others
  BY DEF n
<1>7. StepAlike(n, H, K)
  BY <1>4, <1>5, <1>6 DEF KeepsStep, StepAlike
<1>8. SameTrace(n, H, K) /\ n \in 0 .. n
  BY <1>1, <1>7, TracesAgree
<1> QED
  BY <1>2, <1>3, <1>8 DEF SameTrace

LEMMA AtAppended ==
  ASSUME NEW X, NEW seq \in Seq(X), NEW x \in X, NEW positions
  PROVE  At(Append(seq, x), positions)
           = IF Len(seq) + 1 \in positions THEN Append(At(seq, positions), x) ELSE At(seq, positions)
<1> DEFINE n == Len(seq)
           longer == Append(seq, x)
<1>1. /\ n \in Nat /\ longer \in Seq(X) /\ Len(longer) = n + 1
      /\ longer[n + 1] = x /\ \A i \in 1 .. n : longer[i] = seq[i]
  BY AppendProperties, LenProperties
<1>2. PICK H \in [0 .. n -> Seq(X)] : IsKept(seq, positions, H) /\ At(seq, positions) = H[n]
  BY AtKept
<1>3. H[0] = << >> /\ \A k \in 1 .. n : KeepsStep(positions, seq, H, k)
  BY <1>1, <1>2, KeptSteps
<1> HIDE DEF n, longer
<1>4. PICK K : IsKept(longer, positions, K) /\ At(longer, positions) = K[n + 1]
  <2>1. \E K \in [0 .. Len(longer) -> Seq(X)] :
          IsKept(longer, positions, K) /\ At(longer, positions) = K[Len(longer)]
    BY <1>1, AtKept
  <2> QED
    BY <1>1, <2>1
<1>5. K[0] = << >> /\ \A k \in 1 .. n + 1 : KeepsStep(positions, longer, K, k)
  <2>1. Len(longer) \in Nat
    BY <1>1
  <2>2. K[0] = << >> /\ \A k \in 1 .. Len(longer) : KeepsStep(positions, longer, K, k)
    BY <1>4, <2>1, KeptSteps
  <2> QED
    BY <1>1, <2>2
<1>6. StepAlike(n, H, K)
  <2>1. \A k \in 1 .. n : k \in 1 .. n + 1
    BY <1>1
  <2> QED
    BY <1>1, <1>3, <1>5, <2>1 DEF KeepsStep, StepAlike
<1>7. K[n] = H[n]
  <2>1. SameTrace(n, H, K) /\ n \in 0 .. n
    BY <1>1, <1>6, TracesAgree
  <2> QED
    BY <2>1 DEF SameTrace
<1>8. n + 1 \in 1 .. n + 1 /\ (n + 1) - 1 = n
  BY <1>1
<1>9. K[n + 1] = IF n + 1 \in positions THEN Append(K[n], x) ELSE K[n]
  BY <1>1, <1>5, <1>8 DEF KeepsStep
<1>10. At(longer, positions) = IF n + 1 \in positions THEN Append(At(seq, positions), x) ELSE At(seq, positions)
  BY <1>2, <1>4, <1>7, <1>9
<1> QED
  BY <1>10 DEF longer, n

\* Elements after the last position change nothing.
LEMMA AtExtended ==
  ASSUME NEW X, NEW seq \in Seq(X), NEW longer \in Seq(X), NEW positions, Len(seq) <= Len(longer),
         \A i \in 1 .. Len(seq) : longer[i] = seq[i],
         \A i \in 1 .. Len(longer) : i \in positions => i <= Len(seq)
  PROVE  At(longer, positions) = At(seq, positions)
<1> DEFINE n == Len(seq)
           m == Len(longer)
<1>1. n \in Nat /\ m \in Nat /\ n <= m
  BY LenProperties
<1>2. PICK H \in [0 .. n -> Seq(X)] : IsKept(seq, positions, H) /\ At(seq, positions) = H[n]
  BY AtKept
<1>3. PICK K \in [0 .. m -> Seq(X)] : IsKept(longer, positions, K) /\ At(longer, positions) = K[m]
  BY AtKept
<1>4. H[0] = << >> /\ \A k \in 1 .. n : KeepsStep(positions, seq, H, k)
  BY <1>1, <1>2, KeptSteps
<1>5. K[0] = << >> /\ \A k \in 1 .. m : KeepsStep(positions, longer, K, k)
  BY <1>1, <1>3, KeptSteps
<1>10. /\ \A i \in 1 .. n : longer[i] = seq[i]
       /\ \A i \in 1 .. m : i \in positions => i <= n
  OBVIOUS
<1> HIDE DEF n, m
<1>6. StepAlike(n, H, K)
  <2>1. \A k \in 1 .. n : k \in 1 .. m
    BY <1>1
  <2> QED
    BY <1>4, <1>5, <1>10, <2>1 DEF KeepsStep, StepAlike
<1>7. K[n] = H[n]
  <2>1. SameTrace(n, H, K) /\ n \in 0 .. n
    BY <1>1, <1>6, TracesAgree
  <2> QED
    BY <2>1 DEF SameTrace
<1> DEFINE Good == {k \in 0 .. m : k >= n => K[k] = H[n]}
<1>8. 0 \in Good
  BY <1>1, <1>7
<1>9. ASSUME NEW k \in 1 .. m, k - 1 \in Good
      PROVE  k \in Good
  <2>1. CASE k <= n
    <3>1. k >= n => k = n
      BY <1>1, <2>1
    <3>2. k \in 0 .. m
      BY <1>1
    <3> QED
      BY <1>7, <3>1, <3>2
  <2>2. CASE k > n
    <3>1. k \notin positions /\ k - 1 >= n /\ k \in 0 .. m
      BY <1>1, <1>10, <2>2
    <3>2. K[k] = K[k - 1]
      BY <1>5, <3>1 DEF KeepsStep
    <3> QED
      BY <1>9, <3>1, <3>2
  <2> QED
    BY <1>1, <2>1, <2>2
<1> HIDE DEF Good
<1>11. \A k \in 0 .. m : k \in Good
  BY <1>1, <1>8, <1>9, UpTo
<1>12. K[m] = H[n]
  <2>1. m \in Good
    BY <1>1, <1>11
  <2> QED
    BY <1>1, <2>1 DEF Good
<1> QED
  BY <1>2, <1>3, <1>12 DEF n, m

\* Every element kept is one of the sequence at one of the positions, and the
\* other way round: place is where each is from, in order.
Places(seq, m, positions, some, place) ==
  /\ place \in [1 .. Len(some) -> 1 .. m]
  /\ \A k \in 1 .. Len(some) : place[k] \in positions /\ some[k] = seq[place[k]]
  /\ \A k \in 1 .. Len(some) : \A j \in 1 .. Len(some) : j < k => place[j] < place[k]
  /\ \A i \in 1 .. m : i \in positions => \E k \in 1 .. Len(some) : place[k] = i

LEMMA PlacesStep ==
  ASSUME NEW X, NEW seq \in Seq(X), NEW positions, NEW m \in Nat, NEW some \in Seq(X), NEW more \in Seq(X), NEW place,
         NEW x \in X, x = seq[m + 1],
         Places(seq, m, positions, some, place),
         more = IF m + 1 \in positions THEN Append(some, x) ELSE some
  PROVE  \E longer : Places(seq, m + 1, positions, more, longer)
<1> DEFINE n == Len(some)
<1>1. n \in Nat
  BY LenProperties
<1>2. CASE m + 1 \in positions
  <2> DEFINE longer == [k \in 1 .. n + 1 |-> IF k = n + 1 THEN m + 1 ELSE place[k]]
  <2>1. Len(more) = n + 1 /\ more[n + 1] = seq[m + 1] /\ \A k \in 1 .. n : more[k] = some[k]
    BY <1>2, AppendProperties
  <2> HIDE DEF n
  <2>2. /\ place \in [1 .. n -> 1 .. m]
        /\ \A k \in 1 .. n : place[k] \in positions /\ some[k] = seq[place[k]]
        /\ \A k \in 1 .. n : \A j \in 1 .. n : j < k => place[j] < place[k]
        /\ \A i \in 1 .. m : i \in positions => \E k \in 1 .. n : place[k] = i
    BY DEF Places, n
  <2>3. \A k \in 1 .. n + 1 : k = n + 1 \/ (k \in 1 .. n /\ k # n + 1)
    BY <1>1
  <2>4. longer[n + 1] = m + 1 /\ \A k \in 1 .. n : longer[k] = place[k] /\ k \in 1 .. n + 1 /\ k # n + 1
    BY <1>1
  <2>5. longer \in [1 .. n + 1 -> 1 .. m + 1]
    <3>1. \A k \in 1 .. n : place[k] \in 1 .. m + 1
      BY <2>2
    <3> QED
      BY <2>3, <3>1
  <2> HIDE DEF longer
  <2>6. \A k \in 1 .. n + 1 : longer[k] \in positions /\ more[k] = seq[longer[k]]
    BY <1>2, <2>1, <2>2, <2>3, <2>4
  <2>7. \A k \in 1 .. n + 1 : \A j \in 1 .. n + 1 : j < k => longer[j] < longer[k]
    <3> SUFFICES ASSUME NEW k \in 1 .. n + 1, NEW j \in 1 .. n + 1, j < k
                 PROVE  longer[j] < longer[k]
      OBVIOUS
    <3>1. j \in 1 .. n /\ longer[j] = place[j] /\ place[j] \in 1 .. m
      BY <1>1, <2>2, <2>4
    <3>2. CASE k = n + 1
      BY <2>4, <3>1, <3>2
    <3>3. CASE k # n + 1
      BY <2>2, <2>3, <2>4, <3>1, <3>3
    <3> QED
      BY <3>2, <3>3
  <2>8. \A i \in 1 .. m + 1 : i \in positions => \E k \in 1 .. n + 1 : longer[k] = i
    <3> SUFFICES ASSUME NEW i \in 1 .. m + 1, i \in positions
                 PROVE  \E k \in 1 .. n + 1 : longer[k] = i
      OBVIOUS
    <3>1. CASE i = m + 1
      BY <1>1, <2>4, <3>1
    <3>2. CASE i # m + 1
      <4>1. i \in 1 .. m
        BY <3>2
      <4>2. PICK k \in 1 .. n : place[k] = i
        BY <2>2, <4>1
      <4> QED
        BY <2>4, <4>2
    <3> QED
      BY <3>1, <3>2
  <2>9. Places(seq, m + 1, positions, more, longer)
    BY <2>1, <2>5, <2>6, <2>7, <2>8 DEF Places
  <2> QED
    BY <2>9
<1>3. CASE m + 1 \notin positions
  <2>1. more = some
    BY <1>3
  <2>2. place \in [1 .. n -> 1 .. m + 1]
    BY DEF Places
  <2>3. \A i \in 1 .. m + 1 : i \in positions => i \in 1 .. m
    BY <1>3
  <2>4. Places(seq, m + 1, positions, some, place)
    BY <2>2, <2>3 DEF Places
  <2> QED
    BY <2>1, <2>4
<1> QED
  BY <1>2, <1>3

LEMMA AtPlaces ==
  ASSUME NEW X, NEW seq \in Seq(X), NEW positions
  PROVE  \E place : Places(seq, Len(seq), positions, At(seq, positions), place)
<1> DEFINE n == Len(seq)
<1>1. n \in Nat /\ \A k \in 1 .. n : seq[k] \in X
  BY LenProperties, ElementOfSeq
<1>2. PICK kept \in [0 .. n -> Seq(X)] : IsKept(seq, positions, kept) /\ At(seq, positions) = kept[n]
  BY AtKept
<1>3. kept[0] = << >> /\ \A k \in 1 .. n : KeepsStep(positions, seq, kept, k)
  BY <1>1, <1>2, KeptSteps
<1> DEFINE Good == {m \in 0 .. n : \E place : Places(seq, m, positions, kept[m], place)}
<1> HIDE DEF n
<1>4. 0 \in Good
  <2>1. Len(<< >>) = 0
    BY EmptySeq
  <2>2. Places(seq, 0, positions, << >>, << >>)
    <3>1. 1 .. 0 = {} /\ << >> \in [1 .. 0 -> 1 .. 0]
      OBVIOUS
    <3> QED
      BY <2>1, <3>1 DEF Places
  <2>3. 0 \in 0 .. n
    BY <1>1
  <2> QED
    BY <1>3, <2>2, <2>3
<1>5. ASSUME NEW k \in 1 .. n, k - 1 \in Good
      PROVE  k \in Good
  <2> DEFINE m == k - 1
  <2>1. m \in Nat /\ m \in 0 .. n /\ k \in 0 .. n /\ m + 1 = k /\ seq[k] \in X
    BY <1>1
  <2>2. PICK place : Places(seq, m, positions, kept[m], place)
    BY <1>5
  <2> HIDE DEF m
  <2>3. kept[k] = IF m + 1 \in positions THEN Append(kept[m], seq[k]) ELSE kept[m]
    BY <1>3, <2>1 DEF KeepsStep, m
  <2>4. kept[k] \in Seq(X) /\ kept[m] \in Seq(X)
    BY <1>2, <2>1
  <2>5. \E longer : Places(seq, m + 1, positions, kept[k], longer)
    <3> DEFINE some == kept[m]
               more == kept[k]
               x    == seq[k]
    <3>1. x = seq[m + 1] /\ x \in X /\ Places(seq, m, positions, some, place)
          /\ some \in Seq(X) /\ more \in Seq(X)
          /\ more = IF m + 1 \in positions THEN Append(some, x) ELSE some
      BY <2>1, <2>2, <2>3, <2>4
    <3> HIDE DEF some, more, x
    <3>2. \E longer : Places(seq, m + 1, positions, more, longer)
      BY <2>1, <3>1, PlacesStep
    <3> QED
      BY <3>2 DEF more
  <2> QED
    BY <2>1, <2>5
<1> HIDE DEF Good
<1>6. \A k \in 0 .. n : k \in Good
  BY <1>1, <1>4, <1>5, UpTo
<1>7. n \in Good
  BY <1>1, <1>6
<1> QED
  BY <1>2, <1>7 DEF Good, n

\* What is kept, without its order.
LEMMA AtMembers ==
  ASSUME NEW X, NEW seq \in Seq(X), NEW positions
  PROVE  /\ \A k \in 1 .. Len(At(seq, positions)) :
              \E i \in 1 .. Len(seq) : i \in positions /\ At(seq, positions)[k] = seq[i]
         /\ \A i \in 1 .. Len(seq) :
              i \in positions => \E k \in 1 .. Len(At(seq, positions)) : At(seq, positions)[k] = seq[i]
<1> DEFINE some == At(seq, positions)
<1>1. PICK place : Places(seq, Len(seq), positions, some, place)
  BY AtPlaces
<1> HIDE DEF some
<1>2. /\ \A k \in 1 .. Len(some) : \E i \in 1 .. Len(seq) : i \in positions /\ some[k] = seq[i]
      /\ \A i \in 1 .. Len(seq) : i \in positions => \E k \in 1 .. Len(some) : some[k] = seq[i]
  BY <1>1 DEF Places
<1> QED
  BY <1>2 DEF some

-----------------------------------------------------------------------------
(* Operations *)

LEMMA PlusTyped ==
  ASSUME NEW f \in Fraction, NEW g \in Fraction
  PROVE  f ++ g \in Fraction
<1>1. f.num \in Int /\ f.den \in Nat \ {0} /\ g.num \in Int /\ g.den \in Nat \ {0}
  BY DEF Fraction
<1>2. f.num + g.num \in Int /\ f.num * g.den + g.num * f.den \in Int /\ f.den * g.den \in Nat \ {0}
  BY <1>1
<1>3. CASE f.den = g.den
  <2>1. f ++ g = [f EXCEPT !.num = f.num + g.num]
    BY <1>3 DEF ++
  <2> QED
    BY <1>2, <2>1 DEF Fraction
<1>4. CASE f.den # g.den
  <2>1. f ++ g = [num |-> f.num * g.den + g.num * f.den, den |-> f.den * g.den]
    BY <1>4 DEF ++
  <2> QED
    BY <1>2, <2>1 DEF Fraction
<1> QED
  BY <1>3, <1>4

LEMMA FractionsTyped ==
  /\ \A i \in Int : Whole(i) \in Fraction
  /\ \A f \in Fraction, k \in Int : Times(k, f) \in Fraction
  /\ \A f \in Fraction, k \in Nat \ {0} : Over(f, k) \in Fraction
  /\ \A f, g \in Fraction : f ++ g \in Fraction /\ f -- g \in Fraction
<1>1. ASSUME NEW i \in Int PROVE Whole(i) \in Fraction
  BY DEF Whole, Fraction
<1>2. ASSUME NEW f \in Fraction, NEW k \in Int PROVE Times(k, f) \in Fraction
  <2>1. k * f.num \in Int
    BY DEF Fraction
  <2> QED
    BY <2>1 DEF Times, Fraction
<1>3. ASSUME NEW f \in Fraction, NEW k \in Nat \ {0} PROVE Over(f, k) \in Fraction
  <2>1. f.den * k \in Nat \ {0}
    BY DEF Fraction
  <2> QED
    BY <2>1 DEF Over, Fraction
<1>4. ASSUME NEW f \in Fraction, NEW g \in Fraction PROVE f ++ g \in Fraction /\ f -- g \in Fraction
  <2>1. -1 \in Int
    OBVIOUS
  <2> QED
    BY <1>2, <2>1, PlusTyped DEF --
<1> QED
  BY <1>1, <1>2, <1>3, <1>4

-----------------------------------------------------------------------------
(* Worth *)

\* f is x times 1 / d.
Worth(f, d, x) == f.num * d = x * f.den

\* The ring facts the steps below rewrite with.
LEMMA ProductTyped == \A i, j \in Int : i * j \in Int
OBVIOUS

LEMMA Assoc == \A i, j, k \in Int : (i * j) * k = i * (j * k)
OBVIOUS

LEMMA Swap == \A i, j, k \in Int : (i * j) * k = (i * k) * j
OBVIOUS

LEMMA Dist == \A i, j, k \in Int : (i + j) * k = i * k + j * k
OBVIOUS

\* The only divisions the fractions need: a common factor is cancelled.
LEMMA FactorCancelled ==
  ASSUME NEW i \in Int, NEW j \in Int, NEW k \in Nat \ {0}, i * k = j * k
  PROVE  i = j
<1>1. CASE i < j
  <2>1. (j - i) * k = 0 /\ j - i \in Nat \ {0}
    BY <1>1
  <2>2. \A x, y \in Nat \ {0} : x * y # 0
    OBVIOUS
  <2> QED
    BY <2>1, <2>2
<1>2. CASE j < i
  <2>1. (i - j) * k = 0 /\ i - j \in Nat \ {0}
    BY <1>2
  <2>2. \A x, y \in Nat \ {0} : x * y # 0
    OBVIOUS
  <2> QED
    BY <2>1, <2>2
<1> QED
  BY <1>1, <1>2

LEMMA WorthOfSum ==
  ASSUME NEW f \in Fraction, NEW g \in Fraction, NEW d \in Nat \ {0}, NEW x \in Int, NEW y \in Int,
         Worth(f, d, x), Worth(g, d, y)
  PROVE  f ++ g \in Fraction /\ Worth(f ++ g, d, x + y)
<1> DEFINE a == f.num
           b == f.den
           u == g.num
           v == g.den
<1>1. a \in Int /\ b \in Nat \ {0} /\ u \in Int /\ v \in Nat \ {0} /\ b \in Int /\ v \in Int /\ d \in Int
  BY DEF Fraction
<1>2. a * d = x * b /\ u * d = y * v
  BY DEF Worth
<1>3. CASE b = v
  <2>1. (f ++ g).num = a + u /\ (f ++ g).den = b
    BY <1>3 DEF ++, Fraction
  <2> HIDE DEF a, b, u, v
  <2>2. (a + u) * d = (x + y) * b
    BY <1>1, <1>2, <1>3
  <2> QED
    BY <2>1, <2>2, PlusTyped DEF Worth
<1>4. CASE b # v
  <2>1. (f ++ g).num = a * v + u * b /\ (f ++ g).den = b * v
    BY <1>4 DEF ++
  <2> HIDE DEF a, b, u, v
  <2>2. (a * v) * d = (x * b) * v
    BY <1>1, <1>2, Assoc, Swap, Dist, ProductTyped
  <2>3. (u * b) * d = (y * v) * b
    BY <1>1, <1>2, Assoc, Swap, Dist, ProductTyped
  <2>4. (x * b) * v = x * (b * v) /\ (y * v) * b = y * (b * v)
    BY <1>1, Assoc, Swap, Dist, ProductTyped
  <2>5. a * v \in Int /\ u * b \in Int /\ b * v \in Int
    BY <1>1, Assoc, Swap, Dist, ProductTyped
  <2>6. (a * v + u * b) * d = (a * v) * d + (u * b) * d
    BY <1>1, <2>5, Assoc, Swap, Dist, ProductTyped
  <2>7. (x + y) * (b * v) = x * (b * v) + y * (b * v)
    BY <2>5, Assoc, Swap, Dist, ProductTyped
  <2>8. (a * v + u * b) * d = (x + y) * (b * v)
    BY <2>2, <2>3, <2>4, <2>6, <2>7, Zenon
  <2> QED
    BY <2>1, <2>8, PlusTyped DEF Worth
<1> QED
  BY <1>3, <1>4

LEMMA WorthOfWhole ==
  ASSUME NEW i \in Int, NEW d \in Int
  PROVE  Whole(i) \in Fraction /\ Worth(Whole(i), d, i * d)
BY FractionsTyped, ProductTyped DEF Whole, Worth

LEMMA WorthOfTimes ==
  ASSUME NEW f \in Fraction, NEW d \in Nat \ {0}, NEW x \in Int, NEW k \in Int, Worth(f, d, x)
  PROVE  Times(k, f) \in Fraction /\ Worth(Times(k, f), d, k * x)
<1> DEFINE a == f.num
           b == f.den
<1>1. a \in Int /\ b \in Int /\ d \in Int
  BY DEF Fraction
<1>2. Times(k, f).num = k * a /\ Times(k, f).den = b
  BY DEF Times, Fraction
<1>3. a * d = x * b
  BY DEF Worth
<1> HIDE DEF a, b
<1>4. (k * a) * d = (k * x) * b
  BY <1>1, <1>3, Assoc, Swap, Dist, ProductTyped
<1> QED
  BY <1>2, <1>4, FractionsTyped DEF Worth

LEMMA WorthOfDifference ==
  ASSUME NEW f \in Fraction, NEW g \in Fraction, NEW d \in Nat \ {0}, NEW x \in Int, NEW y \in Int,
         Worth(f, d, x), Worth(g, d, y)
  PROVE  f -- g \in Fraction /\ Worth(f -- g, d, x - y)
<1> DEFINE minus == -1
<1>1. minus \in Int /\ minus * y \in Int /\ x + minus * y = x - y
  OBVIOUS
<1>2. f -- g = f ++ Times(minus, g)
  BY DEF --
<1> HIDE DEF minus
<1>3. Times(minus, g) \in Fraction /\ Worth(Times(minus, g), d, minus * y)
  BY <1>1, WorthOfTimes
<1>4. f ++ Times(minus, g) \in Fraction /\ Worth(f ++ Times(minus, g), d, x + minus * y)
  BY <1>1, <1>3, WorthOfSum
<1> QED
  BY <1>1, <1>2, <1>4, Zenon

\* A k-th of x / d is x / (d * k).
LEMMA WorthOfOver ==
  ASSUME NEW f \in Fraction, NEW d \in Nat \ {0}, NEW x \in Int, NEW k \in Nat \ {0}, Worth(f, d, x)
  PROVE  Over(f, k) \in Fraction /\ Worth(Over(f, k), d * k, x)
<1> DEFINE a == f.num
           b == f.den
<1>1. a \in Int /\ b \in Int /\ d \in Int /\ k \in Int
  BY DEF Fraction
<1>2. Over(f, k).num = a /\ Over(f, k).den = b * k
  BY DEF Over, Fraction
<1>3. a * d = x * b
  BY DEF Worth
<1> HIDE DEF a, b
<1>4. a * (d * k) = x * (b * k)
  BY <1>1, <1>3, Assoc, Swap, Dist, ProductTyped
<1> QED
  BY <1>2, <1>4, FractionsTyped DEF Worth

\* A finer denominator, and back.
LEMMA WorthRefined ==
  ASSUME NEW f \in Fraction, NEW d \in Nat \ {0}, NEW x \in Int, NEW k \in Nat \ {0}
  PROVE  Worth(f, d, x) <=> Worth(f, d * k, x * k)
<1> DEFINE a == f.num
           b == f.den
<1>1. a \in Int /\ b \in Int /\ d \in Int /\ k \in Int /\ a * d \in Int /\ x * b \in Int
  BY DEF Fraction
<1> HIDE DEF a, b
<1>2. a * (d * k) = (a * d) * k /\ (x * k) * b = (x * b) * k
  BY <1>1, Assoc, Swap, Dist, ProductTyped
<1>3. (a * d) * k = (x * b) * k => a * d = x * b
  BY <1>1, FactorCancelled
<1>4. a * d = x * b <=> a * (d * k) = (x * k) * b
  BY <1>2, <1>3, Zenon
<1> QED
  BY <1>4 DEF Worth, a, b

\* Fractions of the same worth are the same value.
LEMMA SameWorth ==
  ASSUME NEW f \in Fraction, NEW g \in Fraction, NEW d \in Nat \ {0}, NEW x \in Int,
         Worth(f, d, x), Worth(g, d, x)
  PROVE  f \cong g
<1> DEFINE a == f.num
           b == f.den
           u == g.num
           v == g.den
<1>1. a \in Int /\ b \in Int /\ u \in Int /\ v \in Int /\ d \in Int /\ a * v \in Int /\ u * b \in Int
  BY DEF Fraction
<1>2. a * d = x * b /\ u * d = x * v
  BY DEF Worth
<1> HIDE DEF a, b, u, v
<1>3. (a * v) * d = (x * b) * v
  BY <1>1, <1>2, Assoc, Swap, Dist, ProductTyped
<1>4. (u * b) * d = (x * v) * b
  BY <1>1, <1>2, Assoc, Swap, Dist, ProductTyped
<1>5. (x * b) * v = (x * v) * b
  BY <1>1, Assoc, Swap, Dist, ProductTyped
<1>6. a * v = u * b
  BY <1>1, <1>3, <1>4, <1>5, FactorCancelled
<1> QED
  BY <1>6 DEF \cong, a, b, u, v

-----------------------------------------------------------------------------
(* Sums of fractions *)

\* The sum of a function to fractions is worth the sum of what they are worth.
LEMMA WorthOfFold ==
  ASSUME NEW S, IsFiniteSet(S), NEW f \in [S -> Fraction], NEW d \in Nat \ {0}, NEW v,
         \A s \in S : v[s] \in Int, \A s \in S : Worth(f[s], d, v[s])
  PROVE  /\ FoldFunction(++, Whole(0), f) \in Fraction
         /\ Worth(FoldFunction(++, Whole(0), f), d, SumFunctionOnSet(v, S))
<1> DEFINE pick == [s \in SUBSET S |-> Chosen(s)]
           none == Whole(0)
           G == [p \in S \X Fraction |-> f[p[1]] ++ p[2]]
           IsIter(g) == g = [s \in SUBSET S |->
                              IF s = {} THEN none ELSE f[Chosen(s)] ++ g[s \ {Chosen(s)}]]
           iter == CHOOSE g : IsIter(g)
<1>1. FoldFunction(++, Whole(0), f) = iter[S]
  <2>1. DOMAIN f = S
    OBVIOUS
  <2>2. FoldFunction(++, Whole(0), f) = (CHOOSE g : g = [s \in SUBSET (DOMAIN f) |->
               IF s = {} THEN none ELSE f[Chosen(s)] ++ g[s \ {Chosen(s)}]])[DOMAIN f]
    BY Zenon DEF FoldFunction, FoldFunctionOnSet, MapThenFoldSet, Chosen
  <2> QED
    BY <2>1, <2>2, Zenon
<1>2. none \in Fraction
  BY FractionsTyped
<1>3. Worth(none, d, 0)
  BY DEF Worth, Whole
<1> HIDE DEF none
<1>4. \A i \in S, a \in Fraction : f[i] \in Fraction /\ f[i] ++ a \in Fraction
  BY PlusTyped
<1>5. \E g : IsIter(g)
  <2>1. Picks(pick, S)
    BY DEF Picks, Chosen
  <2>2. ASSUME NEW i \in S, NEW a \in Fraction
        PROVE  G[<<i, a>>] = f[i] ++ a
    OBVIOUS
  <2> HIDE DEF G
  <2>3. Keeps(G, S, Fraction)
    <3>1. ASSUME NEW i \in S, NEW a \in Fraction
          PROVE  G[<<i, a>>] \in Fraction
      BY <1>4, <2>2
    <3> QED
      BY <3>1, Zenon DEF Keeps
  <2>4. ASSUME NEW s \in SUBSET S
        PROVE  pick[s] = Chosen(s)
    OBVIOUS
  <2> HIDE DEF pick
  <2>5. PICK g \in [SUBSET S -> Fraction] : IsFoldOn(G, none, pick, S, g)
    BY <1>2, <2>1, <2>3, FoldExists
  <2>6. ASSUME NEW s \in SUBSET S
        PROVE  g[s] = IF s = {} THEN none ELSE f[Chosen(s)] ++ g[s \ {Chosen(s)}]
    <3>1. s # {} => Chosen(s) \in S
      BY <2>1, <2>4 DEF Picks
    <3>2. g[s \ {Chosen(s)}] \in Fraction
      OBVIOUS
    <3>3. g[s] = IF s = {} THEN none ELSE G[<<Chosen(s), g[s \ {Chosen(s)}]>>]
      BY <2>4, <2>5 DEF IsFoldOn, FoldStep
    <3> QED
      BY <2>2, <3>1, <3>2, <3>3
  <2> QED
    BY <2>6
<1>6. IsIter(iter)
  BY <1>5
<1> HIDE DEF iter
<1> DEFINE Right(s) == iter[s] \in Fraction /\ Worth(iter[s], d, SumFunctionOnSet(v, s))
           Wrong == {s \in SUBSET S : ~ Right(s)}
<1>7. \A s \in Wrong : IsFiniteSet(s)
  BY FS_Subset
<1>8. ASSUME NEW s \in Wrong, \A t \in Wrong : Cardinality(s) <= Cardinality(t)
      PROVE  FALSE
  <2>1. CASE s = {}
    <3>1. iter[s] = none /\ SumFunctionOnSet(v, s) = 0
      BY <1>6, <2>1, SumEmpty
    <3>2. Right(s)
      BY <1>2, <1>3, <3>1
    <3> QED
      BY <3>2
  <2>2. CASE s # {}
    <3> DEFINE c == Chosen(s)
               t == s \ {Chosen(s)}
    <3>1. /\ IsFiniteSet(s) /\ s \in SUBSET S /\ c \in s /\ c \in S /\ t \in SUBSET S
          /\ IsFiniteSet(t) /\ ~ (Cardinality(s) <= Cardinality(t))
      <4>1. IsFiniteSet(s) /\ s \in SUBSET S
        BY <1>7
      <4>2. /\ c \in s /\ t \subseteq s /\ IsFiniteSet(t) /\ Cardinality(s) \in Nat
            /\ Cardinality(t) = Cardinality(s) - 1
        BY <2>2, <4>1, ChosenRemoved, Zenon
      <4> HIDE DEF c, t
      <4>3. ~ (Cardinality(s) <= Cardinality(t))
        BY <4>2
      <4> QED
        BY <4>1, <4>2, <4>3
    <3>2. Right(t)
      BY <1>8, <3>1
    <3>3. iter[s] = f[c] ++ iter[t]
      BY <1>6, <2>2
    <3>4. SumFunctionOnSet(v, s) = v[c] + SumFunctionOnSet(v, t)
      BY <2>2, <3>1, SumChosen
    <3>5. \A x \in t : v[x] \in Int
      BY <3>1
    <3> HIDE DEF c, t
    <3>6. SumFunctionOnSet(v, t) \in Int /\ v[c] \in Int /\ f[c] \in Fraction /\ Worth(f[c], d, v[c])
      BY <3>1, <3>5, SumInt
    <3>7. f[c] ++ iter[t] \in Fraction
          /\ Worth(f[c] ++ iter[t], d, v[c] + SumFunctionOnSet(v, t))
      BY <3>2, <3>6, WorthOfSum
    <3>8. Right(s)
      BY <3>3, <3>4, <3>7
    <3> QED
      BY <3>8
  <2> QED
    BY <2>1, <2>2
<1>9. Wrong = {}
  BY <1>7, <1>8, SmallestSet
<1>10. Right(S)
  BY <1>9
<1> QED
  BY <1>1, <1>10

\* A sum of fractions in the order of a sequence, one fraction longer.
LEMMA FractionsTrace ==
  ASSUME NEW seq \in Seq(Fraction)
  PROVE  \E H \in [0 .. Len(seq) -> Fraction] :
           /\ H[0] = Whole(0)
           /\ \A k \in 1 .. Len(seq) : H[k] = H[k - 1] ++ seq[k]
           /\ FoldLeft(++, Whole(0), seq) = H[Len(seq)]
<1> DEFINE n == Len(seq)
           none == Whole(0)
           G == [p \in (1 .. n) \X Fraction |-> p[2] ++ seq[p[1]]]
           IsIter(g) == g = [s \in SUBSET (1 .. n) |->
                              IF s = {} THEN none ELSE g[s \ {Max(s)}] ++ seq[Max(s)]]
           iter == CHOOSE g : IsIter(g)
<1>1. n \in Nat /\ DOMAIN seq = 1 .. n /\ \A i \in 1 .. n : seq[i] \in Fraction
  BY LenProperties, ElementOfSeq
<1>2. FoldLeft(++, Whole(0), seq) = iter[1 .. n]
  <2>1. FoldLeft(++, Whole(0), seq) = (CHOOSE g : g = [s \in SUBSET (DOMAIN seq) |->
               IF s = {} THEN none ELSE g[s \ {Max(s)}] ++ seq[Max(s)]])[DOMAIN seq]
    BY Zenon DEF FoldLeft, MapThenFoldSet
  <2> QED
    BY <1>1, <2>1, Zenon
<1>3. none \in Fraction
  BY FractionsTyped
<1> HIDE DEF n, none
<1>4. \A a \in Fraction, i \in 1 .. n : a ++ seq[i] \in Fraction
  BY <1>1, PlusTyped
<1>5. \E g : IsIter(g)
  <2>1. ASSUME NEW i \in 1 .. n, NEW a \in Fraction
        PROVE  G[<<i, a>>] = a ++ seq[i]
    OBVIOUS
  <2> HIDE DEF G
  <2>2. Keeps(G, 1 .. n, Fraction)
    <3>1. ASSUME NEW i \in 1 .. n, NEW a \in Fraction
          PROVE  G[<<i, a>>] \in Fraction
      BY <1>4, <2>1
    <3> QED
      BY <3>1, Zenon DEF Keeps
  <2>3. PICK g \in [SUBSET (1 .. n) -> Fraction] : IsLeftFold(G, none, n, g)
    BY <1>1, <1>3, <2>2, FoldLeftExists
  <2>4. ASSUME NEW s \in SUBSET (1 .. n)
        PROVE  g[s] = IF s = {} THEN none ELSE g[s \ {Max(s)}] ++ seq[Max(s)]
    <3>1. s # {} => Max(s) \in 1 .. n
      BY <1>1, LargestChosen
    <3>2. g[s \ {Max(s)}] \in Fraction
      OBVIOUS
    <3> QED
      BY <2>1, <2>3, <3>1, <3>2 DEF IsLeftFold
  <2> QED
    BY <2>4
<1>6. IsIter(iter)
  BY <1>5
<1> HIDE DEF iter
<1> DEFINE H == [k \in 0 .. n |-> iter[1 .. k]]
<1>7. H[0] = none
  <2>1. 1 .. 0 = {} /\ 0 \in 0 .. n
    BY <1>1
  <2>2. iter[{}] = none
    BY <1>6
  <2> QED
    BY <2>1, <2>2
<1>8. ASSUME NEW k \in 1 .. n
      PROVE  H[k] = H[k - 1] ++ seq[k]
  <2>1. k \in 0 .. n /\ k - 1 \in 0 .. n /\ k \in Nat \ {0} /\ 1 .. k \in SUBSET (1 .. n)
    BY <1>1
  <2>2. iter[1 .. k] = iter[(1 .. k) \ {Max(1 .. k)}] ++ seq[Max(1 .. k)]
    BY <1>6, <2>1, LargestOfPrefix
  <2> QED
    BY <2>1, <2>2, LargestOfPrefix
<1>9. H[n] = iter[1 .. n] /\ H = [k \in 0 .. n |-> H[k]]
  BY <1>1
<1> HIDE DEF H
<1>10. \A k \in 0 .. n : H[k] \in Fraction
  <2> DEFINE Good == {k \in 0 .. n : H[k] \in Fraction}
  <2>1. 0 \in Good
    BY <1>1, <1>3, <1>7
  <2>2. \A k \in 1 .. n : k - 1 \in Good => k \in Good
    BY <1>1, <1>4, <1>8
  <2> HIDE DEF Good
  <2>3. \A k \in 0 .. n : k \in Good
    BY <1>1, <2>1, <2>2, UpTo
  <2> QED
    BY <2>3 DEF Good
<1>11. H \in [0 .. n -> Fraction]
  BY <1>9, <1>10
<1> QED
  BY <1>2, <1>7, <1>8, <1>9, <1>11 DEF n, none

LEMMA FractionAdded ==
  ASSUME NEW seq \in Seq(Fraction), NEW f \in Fraction
  PROVE  /\ FoldLeft(++, Whole(0), seq) \in Fraction
         /\ FoldLeft(++, Whole(0), Append(seq, f)) = FoldLeft(++, Whole(0), seq) ++ f
<1> DEFINE n == Len(seq)
           longer == Append(seq, f)
<1>1. /\ n \in Nat /\ longer \in Seq(Fraction) /\ Len(longer) = n + 1
      /\ longer[n + 1] = f /\ \A i \in 1 .. n : longer[i] = seq[i]
  BY AppendProperties, LenProperties, ElementOfSeq
<1>2. PICK H \in [0 .. n -> Fraction] :
        /\ H[0] = Whole(0) /\ (\A k \in 1 .. n : H[k] = H[k - 1] ++ seq[k])
        /\ FoldLeft(++, Whole(0), seq) = H[n]
  BY FractionsTrace
<1>3. PICK K \in [0 .. n + 1 -> Fraction] :
        /\ K[0] = Whole(0) /\ (\A k \in 1 .. n + 1 : K[k] = K[k - 1] ++ longer[k])
        /\ FoldLeft(++, Whole(0), longer) = K[n + 1]
  <2> HIDE DEF longer
  <2> QED
    BY <1>1, FractionsTrace
<1> HIDE DEF n, longer
<1>4. \A k \in 0 .. n : K[k] = H[k]
  <2> DEFINE Good == {k \in 0 .. n : K[k] = H[k]}
  <2>1. 0 \in Good
    BY <1>1, <1>2, <1>3
  <2>2. ASSUME NEW k \in 1 .. n, k - 1 \in Good
        PROVE  k \in Good
    <3>1. k \in 1 .. n + 1 /\ k \in 0 .. n
      BY <1>1
    <3>2. K[k] = K[k - 1] ++ longer[k] /\ H[k] = H[k - 1] ++ seq[k] /\ longer[k] = seq[k]
      BY <1>1, <1>2, <1>3, <3>1
    <3>3. K[k - 1] = H[k - 1]
      BY <2>2
    <3> QED
      BY <3>1, <3>2, <3>3
  <2> HIDE DEF Good
  <2>3. \A k \in 0 .. n : k \in Good
    BY <1>1, <2>1, <2>2, UpTo
  <2> QED
    BY <2>3 DEF Good
<1>5. n + 1 \in 1 .. n + 1 /\ (n + 1) - 1 = n /\ n \in 0 .. n
  BY <1>1
<1>6. K[n + 1] = K[n] ++ f
  BY <1>1, <1>3, <1>5
<1> QED
  BY <1>2, <1>3, <1>4, <1>5, <1>6 DEF longer

-----------------------------------------------------------------------------
(* Ranks *)

\* The places before i when the largest come first, the later one of two equal.
Above(part, n, i) == {j \in 1 .. n : part[j] > part[i] \/ (part[j] = part[i] /\ j > i)}

\* The d places that come first.
First(part, n, d) == {i \in 1 .. n : Cardinality(Above(part, n, i)) < d}

LEMMA RankBelow ==
  ASSUME NEW n \in Nat, NEW part, \A i \in 1 .. n : part[i] \in Int,
         NEW a \in 1 .. n, NEW b \in 1 .. n, b \in Above(part, n, a)
  PROVE  Cardinality(Above(part, n, b)) < Cardinality(Above(part, n, a))
<1> DEFINE A == Above(part, n, a)
           B == Above(part, n, b)
<1>1. IsFiniteSet(1 .. n) /\ A \in SUBSET (1 .. n)
  <2>1. IsFiniteSet(1 .. n)
    BY FS_Interval
  <2> QED
    BY <2>1 DEF Above
<1>2. IsFiniteSet(A)
  BY <1>1, FS_Subset
<1>3. B \in SUBSET A
  BY DEF Above
<1>4. b \in A /\ b \notin B
  BY DEF Above
<1> HIDE DEF A, B
<1>5. IsFiniteSet(B) /\ Cardinality(B) <= Cardinality(A) /\ (Cardinality(A) = Cardinality(B) => A = B)
  BY <1>2, <1>3, FS_Subset
<1>6. Cardinality(A) \in Nat /\ Cardinality(B) \in Nat
  BY <1>2, <1>5, FS_CardinalityType
<1>7. Cardinality(B) < Cardinality(A)
  BY <1>4, <1>5, <1>6
<1> QED
  BY <1>7 DEF A, B

LEMMA RanksDiffer ==
  ASSUME NEW n \in Nat, NEW part, \A i \in 1 .. n : part[i] \in Int, NEW i \in 1 .. n, NEW j \in 1 .. n, i # j
  PROVE  Cardinality(Above(part, n, i)) # Cardinality(Above(part, n, j))
<1>1. \A a, b \in 1 .. n : b \in Above(part, n, a) => Cardinality(Above(part, n, b)) < Cardinality(Above(part, n, a))
  BY RankBelow
<1>2. j \in Above(part, n, i) \/ i \in Above(part, n, j)
  BY DEF Above
<1>3. Cardinality(Above(part, n, i)) \in Nat /\ Cardinality(Above(part, n, j)) \in Nat
  <2>1. \A a : Above(part, n, a) \in SUBSET (1 .. n)
    BY DEF Above
  <2>2. IsFiniteSet(1 .. n)
    BY FS_Interval
  <2>3. \A a : IsFiniteSet(Above(part, n, a))
    BY <2>1, <2>2, FS_Subset
  <2> QED
    BY <2>3, FS_CardinalityType
<1> QED
  BY <1>1, <1>2, <1>3

\* Every place has a rank of its own, and every rank is taken.
LEMMA RanksTaken ==
  ASSUME NEW n \in Nat, NEW part, \A i \in 1 .. n : part[i] \in Int
  PROVE  /\ \A i \in 1 .. n : Cardinality(Above(part, n, i)) \in 0 .. n - 1
         /\ \A i, j \in 1 .. n : Cardinality(Above(part, n, i)) = Cardinality(Above(part, n, j)) => i = j
         /\ \A k \in 0 .. n - 1 : \E i \in 1 .. n : Cardinality(Above(part, n, i)) = k
<1> DEFINE rank == [i \in 1 .. n |-> Cardinality(Above(part, n, i))]
           R == 0 .. n - 1
           S == 1 .. n
<1>1. IsFiniteSet(S) /\ Cardinality(S) = n /\ IsFiniteSet(R) /\ Cardinality(R) = n
  <2>1. IsFiniteSet(S) /\ Cardinality(S) = n
    BY FS_Interval
  <2>2. 0 \in Int /\ n - 1 \in Int
    OBVIOUS
  <2>3. IsFiniteSet(R) /\ Cardinality(R) = IF 0 > n - 1 THEN 0 ELSE (n - 1) - 0 + 1
    BY <2>2, FS_Interval
  <2> QED
    BY <2>1, <2>3
<1>2. ASSUME NEW i \in S
      PROVE  Cardinality(Above(part, n, i)) \in R
  <2> DEFINE A == Above(part, n, i)
  <2>1. A \in SUBSET S /\ i \notin A
    BY DEF Above
  <2> HIDE DEF A
  <2>2. IsFiniteSet(A) /\ Cardinality(A) <= n /\ (n = Cardinality(A) => S = A)
    <3> HIDE DEF S
    <3> QED
      BY <1>1, <2>1, FS_Subset
  <2>3. Cardinality(A) \in Nat
    BY <2>2, FS_CardinalityType
  <2>4. Cardinality(A) # n
    BY <2>1, <2>2
  <2> QED
    BY <2>2, <2>3, <2>4 DEF A
<1>3. rank \in [S -> R]
  BY <1>2
<1>4. \A i, j \in S : rank[i] = rank[j] => i = j
  BY RanksDiffer
<1>5. rank \in Injection(S, R)
  <2> HIDE DEF rank, S, R
  <2> QED
    BY <1>3, <1>4 DEF Injection, IsInjective
<1>6. rank \in Surjection(S, R)
  <2> HIDE DEF rank, S, R
  <2> QED
    BY <1>1, <1>5, FS_Injection
<1>7. ASSUME NEW k \in R
      PROVE  \E i \in S : rank[i] = k
  <2> HIDE DEF rank, S, R
  <2> QED
    BY <1>6 DEF Surjection
<1>8. \A i \in S : rank[i] = Cardinality(Above(part, n, i))
  OBVIOUS
<1> HIDE DEF rank
<1> QED
  BY <1>2, <1>4, <1>7, <1>8

\* As many places rank below d as there are numbers below d.
LEMMA FirstRanks ==
  ASSUME NEW n \in Nat, NEW part, \A i \in 1 .. n : part[i] \in Int, NEW d \in 0 .. n
  PROVE  IsFiniteSet(First(part, n, d)) /\ Cardinality(First(part, n, d)) = d
<1> DEFINE rank == [i \in 1 .. n |-> Cardinality(Above(part, n, i))]
           chosen == {i \in 1 .. n : Cardinality(Above(part, n, i)) < d}
           R == 0 .. n - 1
           S == 1 .. n
<1>1. \A i \in S : rank[i] = Cardinality(Above(part, n, i))
  OBVIOUS
<1>2. rank \in [S -> R]
  <2>1. \A i \in S : Cardinality(Above(part, n, i)) \in R
    BY RanksTaken
  <2> QED
    BY <2>1
<1>3. \A i, j \in S : rank[i] = rank[j] => i = j
  BY <1>1, RanksTaken
<1>4. \A k \in R : \E i \in S : rank[i] = k
  BY <1>1, RanksTaken
<1> DEFINE low == [i \in chosen |-> rank[i]]
           D == 0 .. d - 1
<1>5. IsFiniteSet(D) /\ Cardinality(D) = d
  <2>1. 0 \in Int /\ d - 1 \in Int
    OBVIOUS
  <2>2. IsFiniteSet(D) /\ Cardinality(D) = IF 0 > d - 1 THEN 0 ELSE (d - 1) - 0 + 1
    BY <2>1, FS_Interval
  <2> QED
    BY <2>2
<1>6. low \in [chosen -> D]
  <2>1. ASSUME NEW i \in chosen
        PROVE  rank[i] \in D
    <3>1. i \in S /\ rank[i] = Cardinality(Above(part, n, i)) /\ rank[i] < d
      OBVIOUS
    <3>2. rank[i] \in R
      BY <1>2, <3>1
    <3> HIDE DEF rank
    <3> QED
      BY <3>1, <3>2
  <2> HIDE DEF rank, chosen, D
  <2> QED
    BY <2>1
<1>7. low \in Injection(chosen, D)
  <2>1. \A i \in chosen : i \in S
    OBVIOUS
  <2> HIDE DEF rank, chosen, D, S
  <2>2. \A i, j \in chosen : low[i] = low[j] => i = j
    BY <1>3, <2>1
  <2> HIDE DEF low
  <2> QED
    BY <1>6, <2>2 DEF Injection, IsInjective
<1>8. low \in Surjection(chosen, D)
  <2>1. ASSUME NEW k \in D
        PROVE  \E i \in chosen : low[i] = k
    <3>1. k \in R
      OBVIOUS
    <3>2. PICK i \in S : rank[i] = k
      <4> HIDE DEF rank, S, R
      <4> QED
        BY <1>4, <3>1
    <3>3. i \in chosen
      BY <3>2
    <3> HIDE DEF rank, chosen, D, S
    <3> QED
      BY <3>2, <3>3
  <2> HIDE DEF low, chosen, D
  <2> QED
    BY <1>6, <2>1 DEF Surjection
<1> HIDE DEF low, chosen, D
<1>9. IsFiniteSet(chosen) /\ Cardinality(chosen) = Cardinality(D)
  BY <1>5, <1>7, <1>8, FS_Injection
<1> QED
  BY <1>5, <1>9 DEF chosen, First
=============================================================================
