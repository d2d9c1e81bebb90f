-------------------------- MODULE AccountingProofs --------------------------
(***************************************************************************)
(* Sums, and the usage rollup that must add up, for any number of calls.   *)
(* First the sums themselves, as MapThenSumSet computes them: element by   *)
(* element, in the order of CHOOSE.  The sum does not depend on that order *)
(* and a smaller set has no larger sum; the inductions are arguments about *)
(* a least counterexample.                                                 *)
(***************************************************************************)
EXTENDS UsageLedger, FiniteSetTheorems, WellFoundedInduction, TLAPS

-----------------------------------------------------------------------------
(* Sums.                                                                    *)

NatLess == {ss \in Nat \X Nat : ss[1] < ss[2]}

(* A nonempty set of natural numbers has a least element.                   *)
LEMMA LeastNat ==
  ASSUME NEW T, T \subseteq Nat, T # {}
  PROVE  \E x \in T : \A y \in T : x <= y
<1>1. IsWellFoundedOn(NatLess, Nat)
  BY NatLessThanWellFounded, Zenon DEF OpToRel, NatLess
<1>2. PICK x \in T : \A y \in T : ~ (<<y, x>> \in NatLess)
  BY <1>1, WFMin, Zenon
<1>3. \A y \in T : y < x => <<y, x>> \in NatLess
  BY Zenon DEF NatLess
<1>4. ASSUME NEW y \in T PROVE x <= y
  <2>1. x \in Nat /\ y \in Nat
    BY Zenon
  <2>2. ~(y < x)
    BY <1>2, <1>3, Zenon
  <2> QED
    BY <2>1, <2>2, SMT, SMTT(30)
<1> QED
  BY <1>4, Zenon

(* A nonempty set of finite sets has a smallest member.                     *)
LEMMA LeastSet ==
  ASSUME NEW B, B # {}, \A s \in B : IsFiniteSet(s)
  PROVE  \E s \in B : \A t \in B : Cardinality(s) <= Cardinality(t)
<1> DEFINE Sizes == {Cardinality(s) : s \in B}
<1>1. Sizes \subseteq Nat /\ Sizes # {}
  BY FS_CardinalityType, Zenon
<1>2. \E n \in Sizes : \A m \in Sizes : n <= m
  <2> HIDE DEF Sizes
  <2> QED
    BY <1>1, LeastNat, Zenon
<1> QED
  BY <1>2, Zenon

\* The element the sum takes out of s first.
First(s) == CHOOSE x \in s : TRUE

\* The equation of the fold, for the subsets of S with at most n elements.
Sums(f, S, n) ==
    {g \in [{s \in SUBSET S : Cardinality(s) <= n} -> Nat] :
        \A s \in SUBSET S : Cardinality(s) <= n =>
           g[s] = IF s = {} THEN 0 ELSE f[First(s)] + g[s \ {First(s)}]}

(* Removing the first element leaves one element fewer.                     *)
LEMMA FirstRemoved ==
  ASSUME NEW s, IsFiniteSet(s), s # {}
  PROVE  /\ First(s) \in s
         /\ IsFiniteSet(s \ {First(s)})
         /\ Cardinality(s) \in Nat /\ Cardinality(s) # 0
         /\ Cardinality(s \ {First(s)}) = Cardinality(s) - 1
<1>1. First(s) \in s
  BY Zenon DEF First
<1>2. Cardinality(s) \in Nat /\ Cardinality(s) # 0
  BY FS_CardinalityType, FS_EmptySet, Zenon
<1> QED
  BY <1>1, <1>2, FS_RemoveElement, Zenon

(* The fold is defined on the sets of every size.                           *)
LEMMA SumsExist ==
  ASSUME NEW M, NEW f \in [M -> Nat], NEW S, S \subseteq M, IsFiniteSet(S)
  PROVE  \A n \in Nat : Sums(f, S, n) # {}
<1> SUFFICES ASSUME {n \in Nat : Sums(f, S, n) = {}} # {} PROVE FALSE
  BY Zenon
<1>1. PICK n \in {n \in Nat : Sums(f, S, n) = {}} :
        \A m \in {m \in Nat : Sums(f, S, m) = {}} : n <= m
  BY LeastNat, Zenon
<1>2. \A s \in SUBSET S : IsFiniteSet(s) /\ Cardinality(s) \in Nat
  BY FS_Subset, FS_CardinalityType, Zenon
<1>3. CASE n = 0
  <2> DEFINE g == [s \in {s \in SUBSET S : Cardinality(s) <= 0} |-> 0]
  <2>1. \A s \in SUBSET S : Cardinality(s) <= 0 => s = {}
    BY <1>2, FS_EmptySet, SMT, SMTT(30)
  <2>2. g \in Sums(f, S, 0)
    BY <2>1, Zenon DEF Sums
  <2> QED
    BY <1>1, <1>3, <2>2, Zenon
<1>4. CASE n # 0
  <2>1. n - 1 \in Nat /\ n \in Nat
    BY <1>1, <1>4, SMT, SMTT(30)
  <2>2. PICK g : g \in Sums(f, S, n - 1)
    BY <1>1, <2>1, SMT, SMTT(30)
  <2>3. /\ g \in [{s \in SUBSET S : Cardinality(s) <= n - 1} -> Nat]
        /\ \A s \in SUBSET S : Cardinality(s) <= n - 1 =>
             g[s] = IF s = {} THEN 0 ELSE f[First(s)] + g[s \ {First(s)}]
    BY <2>2, Zenon DEF Sums
  <2> DEFINE h == [s \in {s \in SUBSET S : Cardinality(s) <= n} |->
                     IF s = {} THEN 0 ELSE f[First(s)] + g[s \ {First(s)}]]
  <2>4. ASSUME NEW s \in SUBSET S, Cardinality(s) <= n, s # {}
        PROVE  /\ s \ {First(s)} \in SUBSET S
               /\ Cardinality(s \ {First(s)}) <= n - 1
               /\ f[First(s)] \in Nat
               /\ g[s \ {First(s)}] \in Nat
    <3>1. /\ First(s) \in s
          /\ Cardinality(s) \in Nat
          /\ Cardinality(s \ {First(s)}) = Cardinality(s) - 1
      BY <1>2, <2>4, FirstRemoved, Zenon
    <3>2. s \ {First(s)} \in SUBSET S /\ Cardinality(s \ {First(s)}) <= n - 1
      BY <2>1, <2>4, <3>1, SMT, SMTT(30)
    <3> QED
      BY <2>3, <3>1, <3>2, Zenon
  <2>5. h \in [{s \in SUBSET S : Cardinality(s) <= n} -> Nat]
    <3> DEFINE D == {s \in SUBSET S : Cardinality(s) <= n}
               Body(s) == IF s = {} THEN 0 ELSE f[First(s)] + g[s \ {First(s)}]
    <3>1. ASSUME NEW s \in D PROVE Body(s) \in Nat
      <4>1. CASE s = {}
        BY <4>1, Zenon
      <4>2. CASE s # {}
        <5>1. f[First(s)] \in Nat /\ g[s \ {First(s)}] \in Nat
          BY <2>4, <4>2, Zenon
        <5> QED
          BY <4>2, <5>1, SMT, SMTT(30)
      <4> QED
        BY <4>1, <4>2, Zenon
    <3>2. h = [s \in D |-> Body(s)]
      BY Zenon
    <3> HIDE DEF D, Body, h
    <3>3. h \in [D -> Nat]
      BY <3>1, <3>2, Zenon
    <3> QED
      BY <3>3, Zenon DEF D
  <2>6. ASSUME NEW s \in SUBSET S, Cardinality(s) <= n, s # {}
        PROVE  h[s \ {First(s)}] = g[s \ {First(s)}]
    <3> DEFINE r == s \ {First(s)}
    <3>1. r \in SUBSET S /\ Cardinality(r) <= n - 1 /\ Cardinality(r) \in Nat
      BY <1>2, <2>4, <2>6, Zenon
    <3>2. Cardinality(r) <= n
      BY <2>1, <3>1, SMT, SMTT(30)
    <3>3. g[r] = IF r = {} THEN 0 ELSE f[First(r)] + g[r \ {First(r)}]
      BY <2>3, <3>1, Zenon
    <3> HIDE DEF r
    <3> QED
      BY <3>1, <3>2, <3>3, Zenon DEF r
  <2>7. ASSUME NEW s \in SUBSET S, Cardinality(s) <= n
        PROVE  h[s] = IF s = {} THEN 0 ELSE f[First(s)] + h[s \ {First(s)}]
    BY <2>6, <2>7, Zenon
  <2>8. h \in Sums(f, S, n)
    <3> HIDE DEF h
    <3> QED
      BY <2>5, <2>7, Zenon DEF Sums
  <2> QED
    BY <1>1, <2>8, Zenon
<1> QED
  BY <1>3, <1>4, Zenon

\* The function the fold iterates.
SumIter(f, S) ==
    CHOOSE iter : iter = [s \in SUBSET S |->
                            IF s = {} THEN 0
                            ELSE f[First(s)] + iter[s \ {First(s)}]]

SumOver(f, S) == SumIter(f, S)[S]

(* MapThenSumSet is that sum.                                               *)
LEMMA SumIsFold ==
  ASSUME NEW f, NEW S
  PROVE  MapThenSumSet(LAMBDA x : f[x], S) = SumOver(f, S)
  BY Zenon DEF MapThenSumSet, MapThenFoldSet, SumOver, SumIter, First

\* The equation of the fold at s.
FoldsAt(g, f, s) == g[s] = IF s = {} THEN 0 ELSE f[First(s)] + g[s \ {First(s)}]

(* The fold has the value its equation gives it.                            *)
LEMMA SumIterEquation ==
  ASSUME NEW M, NEW f \in [M -> Nat], NEW S, S \subseteq M, IsFiniteSet(S)
  PROVE  /\ SumIter(f, S) \in [SUBSET S -> Nat]
         /\ \A s \in SUBSET S : FoldsAt(SumIter(f, S), f, s)
<1> DEFINE Body(iter) == [s \in SUBSET S |->
                            IF s = {} THEN 0
                            ELSE f[First(s)] + iter[s \ {First(s)}]]
<1>1. \A s \in SUBSET S : Cardinality(s) <= Cardinality(S)
  BY FS_Subset, Zenon
<1>2. Cardinality(S) \in Nat
  BY FS_CardinalityType, Zenon
<1>3. {s \in SUBSET S : Cardinality(s) <= Cardinality(S)} = SUBSET S
  BY <1>1, Zenon
<1>4. PICK g : g \in Sums(f, S, Cardinality(S))
  BY <1>2, SumsExist, Zenon
<1>5. /\ g \in [SUBSET S -> Nat]
      /\ \A s \in SUBSET S : g[s] = IF s = {} THEN 0 ELSE f[First(s)] + g[s \ {First(s)}]
  BY <1>1, <1>3, <1>4, Zenon DEF Sums
<1>6. g = Body(g)
  BY <1>5, Zenon
<1>7. SumIter(f, S) = Body(SumIter(f, S))
  BY <1>6, Zenon DEF SumIter
<1> DEFINE h == SumIter(f, S)
<1>8. \A s \in SUBSET S : h[s] = IF s = {} THEN 0 ELSE f[First(s)] + h[s \ {First(s)}]
  BY <1>7, Zenon
<1>9. DOMAIN h = SUBSET S
  BY <1>7, Zenon
<1>10. \A s \in SUBSET S : IsFiniteSet(s) /\ Cardinality(s) \in Nat
  BY FS_Subset, FS_CardinalityType, Zenon
<1>11. \A s \in SUBSET S : h[s] = g[s]
  <2> HIDE DEF h
  <2> DEFINE Bad == {s \in SUBSET S : h[s] # g[s]}
  <2> SUFFICES ASSUME Bad # {} PROVE FALSE
    BY Zenon
  <2>1. PICK s \in Bad : \A t \in Bad : Cardinality(s) <= Cardinality(t)
    BY <1>10, LeastSet, Zenon
  <2>2. /\ s \in SUBSET S /\ h[s] # g[s]
        /\ \A t \in SUBSET S : h[t] # g[t] => Cardinality(s) <= Cardinality(t)
    BY <2>1, Zenon
  <2>3. s # {}
    BY <1>5, <1>8, <2>2, Zenon
  <2>4. /\ s \ {First(s)} \in SUBSET S
        /\ Cardinality(s) \in Nat
        /\ Cardinality(s \ {First(s)}) = Cardinality(s) - 1
    BY <1>10, <2>3, FirstRemoved, Zenon
  <2>5. h[s \ {First(s)}] = g[s \ {First(s)}]
    BY <2>2, <2>4, SMT, SMTT(30)
  <2> QED
    BY <1>5, <1>8, <2>2, <2>3, <2>5, Zenon
<1> HIDE DEF h
<1>12. h \in [SUBSET S -> Nat]
  <2>1. \A s \in SUBSET S : h[s] \in Nat
    BY <1>5, <1>11, Zenon
  <2>2. h = [s \in SUBSET S |-> h[s]]
    BY <1>7, <1>9, Zenon DEF h
  <2> QED
    BY <2>1, <2>2, Zenon
<1> QED
  BY <1>8, <1>12, Zenon DEF h, FoldsAt

(* The sum over a part of S is the same whether S or the part is folded.    *)
LEMMA SumOfPart ==
  ASSUME NEW M, NEW f \in [M -> Nat], NEW S, S \subseteq M, IsFiniteSet(S),
         NEW T \in SUBSET S
  PROVE  SumIter(f, S)[T] = SumOver(f, T)
<1> DEFINE g == SumIter(f, S)
           h == SumIter(f, T)
<1>1. IsFiniteSet(T) /\ T \subseteq M
  BY FS_Subset, Zenon
<1>2. \A s \in SUBSET S : FoldsAt(g, f, s)
  BY SumIterEquation, Zenon
<1>3. \A s \in SUBSET T : FoldsAt(h, f, s)
  BY <1>1, SumIterEquation, Zenon
<1>4. \A s \in SUBSET T : s \in SUBSET S /\ IsFiniteSet(s)
  BY <1>1, FS_Subset, Zenon
<1> HIDE DEF g, h
<1>5. \A s \in SUBSET T : h[s] = g[s]
  <2> DEFINE Bad == {s \in SUBSET T : h[s] # g[s]}
  <2> SUFFICES ASSUME Bad # {} PROVE FALSE
    BY Zenon
  <2>1. PICK s \in Bad : \A t \in Bad : Cardinality(s) <= Cardinality(t)
    BY <1>4, LeastSet, Zenon
  <2>2. /\ s \in SUBSET T /\ h[s] # g[s]
        /\ \A t \in SUBSET T : h[t] # g[t] => Cardinality(s) <= Cardinality(t)
    BY <2>1, Zenon
  <2>3. s # {}
    BY <1>2, <1>3, <1>4, <2>2, Zenon DEF FoldsAt
  <2>4. /\ s \ {First(s)} \in SUBSET T
        /\ Cardinality(s) \in Nat
        /\ Cardinality(s \ {First(s)}) = Cardinality(s) - 1
    BY <1>4, <2>2, <2>3, FirstRemoved, Zenon
  <2>5. h[s \ {First(s)}] = g[s \ {First(s)}]
    BY <2>2, <2>4, SMT, SMTT(30)
  <2> QED
    BY <1>2, <1>3, <1>4, <2>2, <2>3, <2>5, Zenon DEF FoldsAt
<1>6. T \in SUBSET T
  BY Zenon
<1> QED
  BY <1>5, <1>6, Zenon DEF g, h, SumOver

(* A sum is a number, the empty sum is zero, and the first element adds its *)
(* value to the rest.                                                       *)
LEMMA SumOfFirst ==
  ASSUME NEW M, NEW f \in [M -> Nat], NEW S, S \subseteq M, IsFiniteSet(S)
  PROVE  /\ SumOver(f, S) \in Nat
         /\ S = {} => SumOver(f, S) = 0
         /\ S # {} => SumOver(f, S) = f[First(S)] + SumOver(f, S \ {First(S)})
<1>1. SumIter(f, S) \in [SUBSET S -> Nat]
  BY SumIterEquation, Zenon
<1>2. FoldsAt(SumIter(f, S), f, S)
  <2>1. S \in SUBSET S
    BY Zenon
  <2> QED
    BY <2>1, SumIterEquation, Zenon
<1>3. S \ {First(S)} \in SUBSET S
  BY Zenon
<1>4. SumIter(f, S)[S \ {First(S)}] = SumOver(f, S \ {First(S)})
  BY <1>3, SumOfPart, SMT, SMTT(30)
<1>5. SumOver(f, S) \in Nat
  BY <1>1, Zenon DEF SumOver
<1> QED
  BY <1>2, <1>4, <1>5, Zenon DEF SumOver, FoldsAt

(* So does every other element: the order does not matter.                  *)
LEMMA SumOfAny ==
  ASSUME NEW M, NEW f \in [M -> Nat], NEW S, S \subseteq M, IsFiniteSet(S),
         NEW x \in S
  PROVE  SumOver(f, S) = f[x] + SumOver(f, S \ {x})
<1> DEFINE Bad == {s \in SUBSET S : \E y \in s : SumOver(f, s) # f[y] + SumOver(f, s \ {y})}
<1>0. \A s \in SUBSET S : IsFiniteSet(s) /\ s \subseteq M /\ SumOver(f, s) \in Nat
  BY FS_Subset, SumOfFirst, Zenon
<1> SUFFICES ASSUME Bad # {} PROVE FALSE
  <2>1. S \notin Bad
    BY Zenon
  <2> QED
    BY <2>1, Zenon
<1>1. PICK s \in Bad : \A t \in Bad : Cardinality(s) <= Cardinality(t)
  BY <1>0, LeastSet, Zenon
<1>2. PICK y \in s : SumOver(f, s) # f[y] + SumOver(f, s \ {y})
  BY <1>1, Zenon
<1>3. s \in SUBSET S /\ IsFiniteSet(s) /\ s # {} /\ s \subseteq M
  BY <1>0, <1>1, <1>2, Zenon
<1> DEFINE z == First(s)
<1>4. /\ z \in s
      /\ Cardinality(s) \in Nat
      /\ Cardinality(s \ {z}) = Cardinality(s) - 1
      /\ Cardinality(s \ {y}) = Cardinality(s) - 1
  BY <1>3, FirstRemoved, FS_RemoveElement, Zenon
<1>5. SumOver(f, s) = f[z] + SumOver(f, s \ {z})
  BY <1>3, SumOfFirst, SMT, SMTT(30)
<1> HIDE DEF z
<1>6. y # z
  BY <1>2, <1>5, Zenon
<1>7. s \ {z} \in SUBSET S /\ s \ {y} \in SUBSET S
  BY <1>3, Zenon
<1>8. s \ {z} \notin Bad /\ s \ {y} \notin Bad
  <2>1. ASSUME NEW t \in SUBSET S, Cardinality(t) = Cardinality(s) - 1 PROVE t \notin Bad
    <3>1. ~(Cardinality(s) <= Cardinality(t))
      BY <1>4, <2>1, SMT, SMTT(30)
    <3> HIDE DEF Bad
    <3> QED
      BY <1>1, <3>1, Zenon
  <2> HIDE DEF Bad
  <2> QED
    BY <1>4, <1>7, <2>1, Zenon
<1>9. SumOver(f, s \ {z}) = f[y] + SumOver(f, (s \ {z}) \ {y})
  BY <1>6, <1>7, <1>8, Zenon
<1>10. SumOver(f, s \ {y}) = f[z] + SumOver(f, (s \ {y}) \ {z})
  BY <1>4, <1>6, <1>7, <1>8, Zenon
<1>11. (s \ {z}) \ {y} = (s \ {y}) \ {z}
  BY Zenon
<1>12. f[y] \in Nat /\ f[z] \in Nat /\ SumOver(f, (s \ {y}) \ {z}) \in Nat
  <2>1. (s \ {y}) \ {z} \in SUBSET S
    BY <1>3, Zenon
  <2> QED
    BY <1>0, <1>3, <1>4, <2>1, Zenon
<1> QED
  BY <1>2, <1>5, <1>9, <1>10, <1>11, <1>12, SMT, SMTT(30)

(* An element outside adds its value.                                       *)
LEMMA SumAdds ==
  ASSUME NEW M, NEW f \in [M -> Nat], NEW S, S \subseteq M, IsFiniteSet(S),
         NEW x \in M, x \notin S
  PROVE  SumOver(f, S \union {x}) = f[x] + SumOver(f, S)
<1>1. S \union {x} \subseteq M /\ IsFiniteSet(S \union {x})
  BY FS_AddElement, Zenon
<1>2. (S \union {x}) \ {x} = S
  BY Zenon
<1>3. SumOver(f, S \union {x}) = f[x] + SumOver(f, (S \union {x}) \ {x})
  BY <1>1, SumOfAny, SMT, SMTT(30)
<1> QED
  BY <1>2, <1>3, Zenon

(* A part has no larger sum than the whole.                                 *)
LEMMA SumMonotone ==
  ASSUME NEW M, NEW f \in [M -> Nat], NEW S, S \subseteq M, IsFiniteSet(S),
         NEW T \in SUBSET S
  PROVE  SumOver(f, T) <= SumOver(f, S)
<1>0. \A s \in SUBSET S : IsFiniteSet(s) /\ s \subseteq M /\ SumOver(f, s) \in Nat
  BY FS_Subset, SumOfFirst, Zenon
<1> DEFINE Bad == {s \in SUBSET S : T \subseteq s /\ ~(SumOver(f, T) <= SumOver(f, s))}
<1> SUFFICES ASSUME Bad # {} PROVE FALSE
  <2>1. S \notin Bad
    BY Zenon
  <2> QED
    BY <2>1, Zenon
<1>1. PICK s \in Bad : \A t \in Bad : Cardinality(s) <= Cardinality(t)
  BY <1>0, LeastSet, Zenon
<1>2. s \in SUBSET S /\ T \subseteq s /\ ~(SumOver(f, T) <= SumOver(f, s))
  BY <1>1, Zenon
<1>3. s # T
  BY <1>0, <1>2, SMT, SMTT(30)
<1>4. PICK x \in s : x \notin T
  BY <1>2, <1>3, Zenon
<1>5. s \ {x} \in SUBSET S /\ T \subseteq s \ {x}
  BY <1>2, <1>4, Zenon
<1>6. Cardinality(s) \in Nat /\ Cardinality(s \ {x}) = Cardinality(s) - 1
  BY <1>0, <1>2, FS_RemoveElement, FS_CardinalityType, Zenon
<1>7. s \ {x} \notin Bad
  <2>1. ~(Cardinality(s) <= Cardinality(s \ {x}))
    BY <1>6, SMT, SMTT(30)
  <2> HIDE DEF Bad
  <2> QED
    BY <1>1, <2>1, Zenon
<1>8. SumOver(f, T) <= SumOver(f, s \ {x})
  BY <1>5, <1>7, Zenon
<1>9. SumOver(f, s) = f[x] + SumOver(f, s \ {x})
  BY <1>0, <1>2, SumOfAny, SMT, SMTT(30)
<1>10. f[x] \in Nat /\ SumOver(f, s \ {x}) \in Nat /\ SumOver(f, T) \in Nat
  BY <1>0, <1>2, <1>5, Zenon
<1> QED
  BY <1>2, <1>8, <1>9, <1>10, SMT, SMTT(30)

(* The sum depends on the values over the set and on nothing else.          *)
LEMMA SumSame ==
  ASSUME NEW M, NEW f \in [M -> Nat], NEW N, NEW g \in [N -> Nat],
         NEW S, S \subseteq M, S \subseteq N, IsFiniteSet(S),
         \A x \in S : f[x] = g[x]
  PROVE  SumOver(f, S) = SumOver(g, S)
<1>0. \A s \in SUBSET S : IsFiniteSet(s) /\ s \subseteq M /\ s \subseteq N
  BY FS_Subset, Zenon
<1> DEFINE Bad == {s \in SUBSET S : SumOver(f, s) # SumOver(g, s)}
<1> SUFFICES ASSUME Bad # {} PROVE FALSE
  <2>1. S \notin Bad
    BY Zenon
  <2> QED
    BY <2>1, Zenon
<1>1. PICK s \in Bad : \A t \in Bad : Cardinality(s) <= Cardinality(t)
  BY <1>0, LeastSet, Zenon
<1>2. s \in SUBSET S /\ SumOver(f, s) # SumOver(g, s)
  BY <1>1, Zenon
<1>3. s # {}
  BY <1>0, <1>2, SumOfFirst, Zenon
<1>4. First(s) \in s /\ Cardinality(s) \in Nat /\ Cardinality(s \ {First(s)}) = Cardinality(s) - 1
  BY <1>0, <1>2, <1>3, FirstRemoved, Zenon
<1>5. s \ {First(s)} \notin Bad
  <2>1. ~(Cardinality(s) <= Cardinality(s \ {First(s)}))
    BY <1>4, SMT, SMTT(30)
  <2> HIDE DEF Bad
  <2> QED
    BY <1>1, <2>1, Zenon
<1>6. SumOver(f, s \ {First(s)}) = SumOver(g, s \ {First(s)})
  BY <1>2, <1>5, Zenon
<1>7. SumOver(f, s) = f[First(s)] + SumOver(f, s \ {First(s)})
  BY <1>0, <1>2, <1>3, SumOfFirst, SMT, SMTT(30)
<1>8. SumOver(g, s) = g[First(s)] + SumOver(g, s \ {First(s)})
  BY <1>0, <1>2, <1>3, SumOfFirst, SMT, SMTT(30)
<1> QED
  BY <1>2, <1>4, <1>6, <1>7, <1>8, Zenon

(* A changed value changes the sum by as much.                              *)
LEMMA SumPoint ==
  ASSUME NEW S, IsFiniteSet(S), NEW f \in [S -> Nat], NEW g \in [S -> Nat],
         NEW x \in S, \A y \in S \ {x} : f[y] = g[y]
  PROVE  SumOver(g, S) = SumOver(f, S) - f[x] + g[x]
<1>1. IsFiniteSet(S \ {x}) /\ S \ {x} \subseteq S
  BY FS_Subset, Zenon
<1>2. SumOver(f, S) = f[x] + SumOver(f, S \ {x}) /\ SumOver(g, S) = g[x] + SumOver(g, S \ {x})
  BY SumOfAny, SMT, SMTT(30)
<1>3. SumOver(f, S \ {x}) = SumOver(g, S \ {x})
  BY <1>1, SumSame, SMT, SMTT(30)
<1>4. SumOver(f, S \ {x}) \in Nat
  BY <1>1, SumOfFirst, Zenon
<1> QED
  BY <1>2, <1>3, <1>4, SMT, SMTT(30)

(* A new element adds its value.                                            *)
LEMMA SumGrows ==
  ASSUME NEW S, IsFiniteSet(S), NEW x, x \notin S,
         NEW f \in [S -> Nat], NEW g \in [S \union {x} -> Nat], \A y \in S : f[y] = g[y]
  PROVE  SumOver(g, S \union {x}) = SumOver(f, S) + g[x]
<1>1. SumOver(g, S \union {x}) = g[x] + SumOver(g, S)
  BY SumAdds, SMT, SMTT(30)
<1>2. SumOver(g, S) = SumOver(f, S)
  BY SumSame, SMT, SMTT(30)
<1>3. SumOver(f, S) \in Nat /\ g[x] \in Nat
  BY SumOfFirst, Zenon
<1> QED
  BY <1>1, <1>2, <1>3, SMT, SMTT(30)

(* The sum of sums of values is the sum of the sums.                        *)
LEMMA SumPlus ==
  ASSUME NEW S, IsFiniteSet(S), NEW f \in [S -> Nat], NEW g \in [S -> Nat], NEW h \in [S -> Nat],
         \A x \in S : h[x] = f[x] + g[x]
  PROVE  SumOver(h, S) = SumOver(f, S) + SumOver(g, S)
<1>0. \A s \in SUBSET S : /\ IsFiniteSet(s) /\ s \subseteq S
                          /\ SumOver(f, s) \in Nat /\ SumOver(g, s) \in Nat
  BY FS_Subset, SumOfFirst, Zenon
<1> DEFINE Bad == {s \in SUBSET S : SumOver(h, s) # SumOver(f, s) + SumOver(g, s)}
<1> SUFFICES ASSUME Bad # {} PROVE FALSE
  <2>1. S \notin Bad
    BY Zenon
  <2> QED
    BY <2>1, Zenon
<1>1. PICK s \in Bad : \A t \in Bad : Cardinality(s) <= Cardinality(t)
  BY <1>0, LeastSet, Zenon
<1>2. s \in SUBSET S /\ SumOver(h, s) # SumOver(f, s) + SumOver(g, s)
  BY <1>1, Zenon
<1>3. s # {}
  <2>1. \A e \in [S -> Nat] : s = {} => SumOver(e, s) = 0
    BY <1>0, <1>2, SumOfFirst, ZenonT(40)
  <2> QED
    BY <1>2, <2>1, SMT, SMTT(30)
<1>4. First(s) \in s /\ Cardinality(s) \in Nat /\ Cardinality(s \ {First(s)}) = Cardinality(s) - 1
  BY <1>0, <1>2, <1>3, FirstRemoved, Zenon
<1>5. s \ {First(s)} \notin Bad
  <2>1. ~(Cardinality(s) <= Cardinality(s \ {First(s)}))
    BY <1>4, SMT, SMTT(30)
  <2> HIDE DEF Bad
  <2> QED
    BY <1>1, <2>1, Zenon
<1>6. /\ s \ {First(s)} \in SUBSET S
      /\ SumOver(h, s \ {First(s)}) = SumOver(f, s \ {First(s)}) + SumOver(g, s \ {First(s)})
  BY <1>2, <1>5, Zenon
<1>7. /\ SumOver(f, s) = f[First(s)] + SumOver(f, s \ {First(s)})
      /\ SumOver(g, s) = g[First(s)] + SumOver(g, s \ {First(s)})
      /\ SumOver(h, s) = h[First(s)] + SumOver(h, s \ {First(s)})
  BY <1>0, <1>2, <1>3, SumOfFirst, SMT, SMTT(30)
<1>8. /\ SumOver(f, s \ {First(s)}) \in Nat /\ SumOver(g, s \ {First(s)}) \in Nat
      /\ f[First(s)] \in Nat /\ g[First(s)] \in Nat
  BY <1>0, <1>2, <1>4, <1>6, Zenon
<1>9. h[First(s)] = f[First(s)] + g[First(s)]
  BY <1>2, <1>4, Zenon
<1> QED
  BY <1>2, <1>6, <1>7, <1>8, <1>9, SMT, SMTT(30)


-----------------------------------------------------------------------------
(* Requests and what they contribute to the rollup.                         *)

Who == Sessions \union {Api}
PendingRow == [st: {"pending"}, who: Who, day: 0 .. MaxDay, boot: 0 .. MaxBoot,
               tokens: {-1}, outcome: {"pending"}, error: {0}]
DoneRow == [st: {"done"}, who: Who, day: 0 .. MaxDay, boot: 0 .. MaxBoot,
            tokens: {-1} \union Nat, outcome: Outcomes, error: {0, 1}]
Row == PendingRow \union DoneRow
Columns == {"requests", "tokens", "unknown", "pending", "failed", "errors", "long"}

\* Column n of the requests in rows, when the table is p.
Column(p, rows, n) == SumOver([c \in rows |-> Share(p[c])[n]], rows)

Counted(p, k) == {c \in Calls : p[c].st # "none" /\ CountedIn(p[c]) = k}

UsageTypes ==
  /\ today \in 0 .. MaxDay /\ boot \in 0 .. MaxBoot
  /\ launch \in [Calls -> {NoRow} \union Row]
  /\ panel \in [Calls -> {NoRow} \union Row]
  /\ daily \in [Keys -> [Columns -> Int]]
  /\ meters \in [Calls -> {"none", "live", "gone"}]

\* A request without a meter has not begun.
UnusedInv == \A c \in Calls : meters[c] = "none" => launch[c] = NoRow /\ panel[c] = NoRow

\* The rollup, column by column.
RollupInv ==
  \A k \in Keys : ~Expired(k.day, CallDays) =>
    \A n \in Columns : daily[k][n] = Column(panel, Counted(panel, k), n)

UsageInv == UsageTypes /\ UnusedInv /\ RollupInv /\ LedgersSettleTogether

(* MapThenSumSet computes the sum defined above.                             *)
LEMMA TotalIsSum ==
  ASSUME NEW rows, NEW value
  PROVE  Total(rows, value) = SumOver(value, rows)
  BY Zenon  DEF Total, MapThenSumSet, MapThenFoldSet, SumOver, SumIter, First

(* The rollup matches the aggregate of the requests when each column does.  *)
LEMMA RollupByColumn ==
  ASSUME UsageTypes, RollupInv
  PROVE  RollupMatchesRequests
<1> SUFFICES ASSUME NEW k \in Keys, ~Expired(k.day, CallDays)
             PROVE  daily[k] = Aggregate(CountedBy(k))
  BY Zenon DEF RollupMatchesRequests
<1>1. DOMAIN Zero = Columns
  BY Zenon DEF Zero, Columns
<1>2. daily[k] = [n \in Columns |-> daily[k][n]]
  BY Zenon DEF UsageTypes
<1>3. CountedBy(k) = Counted(panel, k)
  BY Zenon  DEF CountedBy, Counted
<1>4. Aggregate(CountedBy(k)) = [n \in Columns |-> Column(panel, Counted(panel, k), n)]
  BY <1>1, <1>3, TotalIsSum, Zenon DEF Aggregate, Column
<1> QED
  BY <1>2, <1>4, Zenon DEF RollupInv

(* A row that exists is a request, and contributes numbers.                 *)
LEMMA RowKinds ==
  ASSUME NEW r \in {NoRow} \union Row
  PROVE  /\ r.st = "none" <=> r = NoRow
         /\ r.st # "none" <=> r \in Row
         /\ r.st = "pending" <=> r \in PendingRow
  BY SMT, SMTT(30) DEF NoRow, Row, PendingRow, DoneRow

(* A request adds a natural number to each column of the rollup.            *)
LEMMA ShareType ==
  ASSUME NEW r \in Row, NEW n \in Columns
  PROVE  Share(r)[n] \in Nat
<1>1. /\ r.tokens \in Int /\ (r.tokens >= 0 => r.tokens \in Nat) /\ r.error \in {0, 1}
      /\ LongContext \in Nat
  BY LedgerAssumption, SMT, SMTT(30) DEF Row, PendingRow, DoneRow
<1>2. Flag(r.tokens < 0) \in Nat /\ Flag(r.st = "pending") \in Nat
      /\ Flag(r.outcome \notin {"succeeded", "pending"}) \in Nat
  BY Zenon DEF Flag
<1>3. Long(r.tokens) \in Nat
  BY <1>1, SMT, SMTT(30) DEF Long
<1>4. CASE n = "requests" BY <1>4, Zenon DEF Share
<1>5. CASE n = "tokens" BY <1>1, <1>5, SMT, SMTT(30) DEF Share
<1>6. CASE n = "unknown" BY <1>2, <1>6, Zenon DEF Share
<1>7. CASE n = "pending" BY <1>2, <1>7, Zenon DEF Share
<1>8. CASE n = "failed" BY <1>2, <1>8, Zenon DEF Share
<1>9. CASE n = "errors" BY <1>1, <1>9, SMT, SMTT(30) DEF Share
<1>10. CASE n = "long" BY <1>3, <1>10, Zenon DEF Share
<1> QED
  BY <1>4, <1>5, <1>6, <1>7, <1>8, <1>9, <1>10, Zenon DEF Columns

(* What a request adds to the columns while it runs.                        *)
LEMMA PendingShare ==
  ASSUME NEW r, r.st = "pending", r.tokens = -1, r.outcome = "pending", r.error = 0
  PROVE  Share(r) = [requests |-> 1, tokens |-> 0, unknown |-> 1, pending |-> 1, failed |-> 0,
                     errors |-> 0, long |-> 0]
  BY LedgerAssumption, SMT, SMTT(30) DEF Share, Flag, Long

(* What it adds once it is done.                                            *)
LEMMA DoneShare ==
  ASSUME NEW r, r.st = "done", r.outcome # "pending"
  PROVE  Share(r) = [requests |-> 1, tokens |-> IF r.tokens < 0 THEN 0 ELSE r.tokens,
                     unknown |-> Flag(r.tokens < 0), pending |-> 0,
                     failed |-> Flag(r.outcome # "succeeded"), errors |-> r.error, long |-> Long(r.tokens)]
  BY Zenon  DEF Share, Flag

(* What it adds when a restart has interrupted it.                          *)
LEMMA InterruptedShare ==
  ASSUME NEW r, r.st = "done", r.tokens = -1, r.outcome = "interrupted", r.error = 1
  PROVE  Share(r) = [requests |-> 1, tokens |-> 0, unknown |-> 1, pending |-> 0, failed |-> 1,
                     errors |-> 1, long |-> 0]
  BY LedgerAssumption, SMT, SMTT(30) DEF Share, Flag, Long

(* A request that ends keeps its day, and is done.                          *)
LEMMA FinishedRow ==
  ASSUME NEW r \in PendingRow, NEW t \in {-1} \union Nat, NEW o \in Outcomes, NEW e \in {0, 1}
  PROVE  /\ Finished(r, t, o, e) = [st |-> "done", who |-> r.who, day |-> r.day, boot |-> r.boot,
                                    tokens |-> t, outcome |-> o, error |-> e]
         /\ Finished(r, t, o, e) \in DoneRow
<1> DEFINE new == [st |-> "done", who |-> r.who, day |-> r.day, boot |-> r.boot,
                   tokens |-> t, outcome |-> o, error |-> e]
           r1 == [r EXCEPT !.st = "done"]
           r2 == [r1 EXCEPT !.tokens = t]
           r3 == [r2 EXCEPT !.outcome = o]
<1>1. r = [st |-> "pending", who |-> r.who, day |-> r.day, boot |-> r.boot,
           tokens |-> -1, outcome |-> "pending", error |-> 0]
  BY Zenon DEF PendingRow
<1>2. r1 = [st |-> "done", who |-> r.who, day |-> r.day, boot |-> r.boot,
            tokens |-> -1, outcome |-> "pending", error |-> 0]
  BY <1>1, SMT, SMTT(30)
<1> HIDE DEF r1
<1>3. r2 = [st |-> "done", who |-> r.who, day |-> r.day, boot |-> r.boot,
            tokens |-> t, outcome |-> "pending", error |-> 0]
  BY <1>2, SMT, SMTT(30)
<1> HIDE DEF r2
<1>4. r3 = [st |-> "done", who |-> r.who, day |-> r.day, boot |-> r.boot,
            tokens |-> t, outcome |-> o, error |-> 0]
  BY <1>3, SMT, SMTT(30)
<1> HIDE DEF r3
<1>5. [r3 EXCEPT !.error = e] = new
  BY <1>4, SMT, SMTT(30)
<1>6. Finished(r, t, o, e) = [r3 EXCEPT !.error = e]
  BY <1>1, SMT, SMTT(30) DEF Finished, r1, r2, r3
<1>7. new \in DoneRow
  BY Zenon DEF PendingRow, DoneRow
<1> QED
  BY <1>5, <1>6, <1>7, ZenonT(40)

(* What a column is worth after the table changed.                          *)
LEMMA ColumnSame ==
  ASSUME NEW rows, NEW p, NEW q, \A x \in rows : p[x] = q[x], NEW n
  PROVE  Column(q, rows, n) = Column(p, rows, n)
<1>1. [c \in rows |-> Share(q[c])[n]] = [c \in rows |-> Share(p[c])[n]]
  BY Zenon
<1> QED
  BY <1>1, Zenon DEF Column

(* When one request of a row of the rollup changes, a column changes by what*)
(* that request adds to it.                                                 *)
LEMMA ColumnPoint ==
  ASSUME NEW rows, IsFiniteSet(rows), NEW p, NEW q,
         \A x \in rows : p[x] \in Row /\ q[x] \in Row,
         NEW c \in rows, \A x \in rows \ {c} : p[x] = q[x], NEW n \in Columns
  PROVE  Column(q, rows, n) = Column(p, rows, n) - Share(p[c])[n] + Share(q[c])[n]
<1> DEFINE f == [x \in rows |-> Share(p[x])[n]]
           g == [x \in rows |-> Share(q[x])[n]]
<1>1. f \in [rows -> Nat] /\ g \in [rows -> Nat]
  BY ShareType, Zenon
<1>2. \A y \in rows \ {c} : f[y] = g[y]
  BY Zenon
<1>3. f[c] = Share(p[c])[n] /\ g[c] = Share(q[c])[n]
  BY Zenon
<1> HIDE DEF f, g
<1>4. SumOver(g, rows) = SumOver(f, rows) - f[c] + g[c]
  BY <1>1, <1>2, SumPoint, SMT, SMTT(30)
<1> QED
  BY <1>3, <1>4, Zenon DEF Column, f, g

(* A request that joins a row of the rollup adds its share to each column.  *)
LEMMA ColumnGrows ==
  ASSUME NEW rows, IsFiniteSet(rows), NEW p, NEW q,
         \A x \in rows : p[x] \in Row /\ p[x] = q[x],
         NEW c, c \notin rows, q[c] \in Row, NEW n \in Columns
  PROVE  Column(q, rows \union {c}, n) = Column(p, rows, n) + Share(q[c])[n]
<1> DEFINE f == [x \in rows |-> Share(p[x])[n]]
           g == [x \in rows \union {c} |-> Share(q[x])[n]]
<1>1. f \in [rows -> Nat]
  BY ShareType, Zenon
<1>2. g \in [rows \union {c} -> Nat]
  <2>1. \A x \in rows \union {c} : q[x] \in Row
    BY Zenon
  <2> QED
    BY <2>1, ShareType, Zenon
<1>3. \A y \in rows : f[y] = g[y]
  BY Zenon
<1>4. g[c] = Share(q[c])[n]
  BY Zenon
<1> HIDE DEF f, g
<1>5. SumOver(g, rows \union {c}) = SumOver(f, rows) + g[c]
  BY <1>1, <1>2, <1>3, SumGrows, SMT, SMTT(30)
<1> QED
  BY <1>4, <1>5, Zenon DEF Column, f, g

(* What interrupt_pending does to a column of a row of the rollup.          *)
Swept(row, n) ==
  CASE n = "pending" -> 0
    [] n \in {"failed", "errors"} -> row[n] + row["pending"]
    [] OTHER -> row[n]

(* When all requests of a row are interrupted, the columns become what      *)
(* interrupt_pending writes into the rollup: the pending count as failures. *)
LEMMA ColumnSwept ==
  ASSUME NEW rows, IsFiniteSet(rows), NEW p, NEW q,
         \A x \in rows : p[x] \in Row /\ q[x] = Finished(p[x], -1, "interrupted", 1),
         NEW n \in Columns
  PROVE  Column(q, rows, n) = Swept([m \in Columns |-> Column(p, rows, m)], n)
<1>1. ASSUME NEW x \in rows, p[x] \in PendingRow
      PROVE  /\ q[x].st = "done" /\ q[x].tokens = -1 /\ q[x].outcome = "interrupted" /\ q[x].error = 1
             /\ q[x] \in Row
  <2>1. q[x] = Finished(p[x], -1, "interrupted", 1)
    BY Zenon
  <2>2. /\ q[x] = [st |-> "done", who |-> p[x].who, day |-> p[x].day, boot |-> p[x].boot,
                   tokens |-> -1, outcome |-> "interrupted", error |-> 1]
        /\ q[x] \in DoneRow
    BY <1>1, <2>1, FinishedRow, ZenonT(40) DEF Outcomes
  <2>3. q[x].st = "done" /\ q[x].tokens = -1 /\ q[x].outcome = "interrupted" /\ q[x].error = 1
    BY ONLY <2>2, SMT, SMTT(30)
  <2> QED
    BY <2>2, <2>3, Zenon DEF Row
<1>2. ASSUME NEW x \in rows, p[x] \notin PendingRow PROVE q[x] = p[x] /\ p[x] \in DoneRow
  BY <1>2, Zenon DEF Finished, Row, DoneRow
<1>3. \A x \in rows : q[x] \in Row
  BY <1>1, <1>2, Zenon DEF Row
<1> DEFINE f(r, m) == [x \in rows |-> Share(r[x])[m]]
<1>4. \A m \in Columns : f(p, m) \in [rows -> Nat] /\ f(q, m) \in [rows -> Nat]
  BY <1>3, ShareType, Zenon
<1>5. ASSUME NEW x \in rows
      PROVE  /\ Share(q[x])["requests"] = Share(p[x])["requests"]
             /\ Share(q[x])["tokens"] = Share(p[x])["tokens"]
             /\ Share(q[x])["unknown"] = Share(p[x])["unknown"]
             /\ Share(q[x])["long"] = Share(p[x])["long"]
             /\ Share(q[x])["pending"] = 0
             /\ Share(q[x])["failed"] = Share(p[x])["failed"] + Share(p[x])["pending"]
             /\ Share(q[x])["errors"] = Share(p[x])["errors"] + Share(p[x])["pending"]
  <2>1. CASE p[x] \in PendingRow
    <3>1. p[x].st = "pending" /\ p[x].tokens = -1 /\ p[x].outcome = "pending" /\ p[x].error = 0
      BY <2>1, Zenon DEF PendingRow
    <3>2. q[x].st = "done" /\ q[x].tokens = -1 /\ q[x].outcome = "interrupted" /\ q[x].error = 1
      BY <1>1, <2>1, Zenon
    <3>3. Share(p[x]) = [requests |-> 1, tokens |-> 0, unknown |-> 1, pending |-> 1, failed |-> 0,
                         errors |-> 0, long |-> 0]
      BY <3>1, PendingShare, Zenon
    <3>4. Share(q[x]) = [requests |-> 1, tokens |-> 0, unknown |-> 1, pending |-> 0, failed |-> 1,
                         errors |-> 1, long |-> 0]
      BY <3>2, InterruptedShare, Zenon
    <3> QED
      BY ONLY <3>3, <3>4, SMT, SMTT(30)
  <2>2. CASE p[x] \notin PendingRow
    <3>1. q[x] = p[x] /\ p[x].st = "done"
      BY <1>2, <2>2, Zenon DEF DoneRow
    <3>2. Share(p[x])["pending"] = 0
      BY <3>1, Zenon DEF Share, Flag
    <3>3. Share(p[x])["failed"] \in Nat /\ Share(p[x])["errors"] \in Nat
      BY ShareType, Zenon DEF Columns
    <3> QED
      BY ONLY <3>1, <3>2, <3>3, SMT, SMTT(30)
  <2> QED
    BY <2>1, <2>2, Zenon
<1>6. CASE n \in {"requests", "tokens", "unknown", "long"}
  <2>1. f(q, n) = f(p, n)
    BY <1>5, <1>6, ZenonT(40)
  <2> QED
    BY <1>6, <2>1, Zenon DEF Column, Swept
<1>7. CASE n \in {"failed", "errors"}
  <2>1. \A x \in rows : f(q, n)[x] = f(p, n)[x] + f(p, "pending")[x]
    BY <1>5, <1>7, ZenonT(40)
  <2>2. SumOver(f(q, n), rows) = SumOver(f(p, n), rows) + SumOver(f(p, "pending"), rows)
    <3> HIDE DEF f
    <3> QED
      BY <1>4, <2>1, SumPlus, SMT, SMTT(30) DEF Columns
  <2> QED
    BY <1>7, <2>2, Zenon DEF Column, Swept, Columns
<1>8. CASE n = "pending"
  <2>1. \A x \in rows : f(q, n)[x] = f(q, n)[x] + f(q, n)[x]
    BY <1>5, <1>8, SMT, SMTT(30)
  <2>2. SumOver(f(q, n), rows) = SumOver(f(q, n), rows) + SumOver(f(q, n), rows)
    <3> HIDE DEF f
    <3> QED
      BY <1>4, <2>1, SumPlus, SMT, SMTT(30)
  <2>3. SumOver(f(q, n), rows) \in Nat
    <3> HIDE DEF f
    <3> QED
      BY <1>4, SumOfFirst, Zenon
  <2>4. SumOver(f(q, n), rows) = 0
    <3> DEFINE z == SumOver(f(q, n), rows)
    <3>1. z = z + z /\ z \in Nat
      BY <2>2, <2>3, Zenon
    <3> HIDE DEF z
    <3>2. z = 0
      BY <3>1, SMT, SMTT(30)
    <3> QED
      BY <3>2, Zenon DEF z
  <2> QED
    BY <1>8, <2>4, Zenon DEF Column, Swept
<1> QED
  BY <1>6, <1>7, <1>8, Zenon DEF Columns

-----------------------------------------------------------------------------
(* The steps.                                                               *)

(* The requests counted in a row of the rollup are finitely many.           *)
LEMMA CountedRows ==
  ASSUME UsageTypes, NEW k
  PROVE  /\ IsFiniteSet(Counted(panel, k)) /\ Counted(panel, k) \subseteq Calls
         /\ \A x \in Counted(panel, k) : panel[x] \in Row /\ CountedIn(panel[x]) = k
<1>1. IsFiniteSet(Counted(panel, k)) /\ Counted(panel, k) \subseteq Calls
  BY LedgerAssumption, FS_Subset, Zenon DEF Counted
<1>2. ASSUME NEW x \in Counted(panel, k) PROVE panel[x] \in Row /\ CountedIn(panel[x]) = k
  <2>1. panel[x] \in {NoRow} \union Row /\ panel[x].st # "none" /\ CountedIn(panel[x]) = k
    BY Zenon DEF Counted, UsageTypes
  <2> QED
    BY <2>1, RowKinds, Zenon
<1> QED
  BY <1>1, <1>2, Zenon

(* A step that moves neither the rows of a day nor its rollup.              *)
LEMMA RollupKept ==
  ASSUME UsageTypes, RollupInv, today \in Nat, today' \in Nat, today <= today',
         \A k \in Keys : ~Expired(k.day, CallDays)' =>
            /\ daily'[k] = daily[k]
            /\ Counted(panel', k) = Counted(panel, k)
            /\ \A c \in Counted(panel, k) : panel'[c] = panel[c]
  PROVE  RollupInv'
<1> SUFFICES ASSUME NEW k \in Keys, ~Expired(k.day, CallDays)', NEW n \in Columns
             PROVE  daily'[k][n] = Column(panel', Counted(panel', k), n)
  BY Zenon  DEF RollupInv, Expired
<1>1. ~Expired(k.day, CallDays)
  BY LedgerAssumption, SMT, SMTT(30) DEF Expired, Keys
<1>2. daily[k][n] = Column(panel, Counted(panel, k), n)
  BY <1>1, Zenon DEF RollupInv
<1>3. Column(panel', Counted(panel, k), n) = Column(panel, Counted(panel, k), n)
  BY ColumnSame, SMT, SMTT(30)
<1> QED
  BY <1>2, <1>3, Zenon

(* A row of the rollup after begin, and after Record.                       *)
LEMMA ColumnsClosed ==
  ASSUME NEW d \in [Columns -> Int], NEW t \in {-1} \union Nat, NEW o, NEW i \in {0, 1}
  PROVE  LET e == Closed(d, t, o, i)
         IN  /\ e \in [Columns -> Int]
             /\ e["requests"] = d["requests"] /\ e["tokens"] = d["tokens"] + (IF t < 0 THEN 0 ELSE t)
             /\ e["unknown"] = d["unknown"] - Flag(t >= 0) /\ e["pending"] = d["pending"] - 1
             /\ e["failed"] = d["failed"] + Flag(o # "succeeded") /\ e["errors"] = d["errors"] + i
             /\ e["long"] = d["long"] + Long(t)
<1> DEFINE a == IF t < 0 THEN 0 ELSE t
           b == Flag(t >= 0)
           h == Flag(o # "succeeded")
           j == Long(t)
           d1 == [d EXCEPT !.tokens = @ + a]
           d2 == [d1 EXCEPT !.unknown = @ - b]
           d3 == [d2 EXCEPT !.pending = @ - 1]
           d4 == [d3 EXCEPT !.failed = @ + h]
           d5 == [d4 EXCEPT !.errors = @ + i]
           d6 == [d5 EXCEPT !.long = @ + j]
<1>0. a \in Int /\ b \in Int /\ h \in Int /\ j \in Int
  BY LedgerAssumption, SMT, SMTT(30) DEF Flag, Long
<1> HIDE DEF a, b, h, j
<1>1. d1 \in [Columns -> Int] /\ \A n \in Columns : d1[n] = IF n = "tokens" THEN d[n] + a ELSE d[n]
  BY <1>0, SMT, SMTT(30) DEF Columns
<1> HIDE DEF d1
<1>2. d2 \in [Columns -> Int] /\ \A n \in Columns : d2[n] = IF n = "unknown" THEN d1[n] - b ELSE d1[n]
  BY <1>0, <1>1, SMT, SMTT(30) DEF Columns
<1> HIDE DEF d2
<1>3. d3 \in [Columns -> Int] /\ \A n \in Columns : d3[n] = IF n = "pending" THEN d2[n] - 1 ELSE d2[n]
  BY <1>0, <1>2, SMT, SMTT(30) DEF Columns
<1> HIDE DEF d3
<1>4. d4 \in [Columns -> Int] /\ \A n \in Columns : d4[n] = IF n = "failed" THEN d3[n] + h ELSE d3[n]
  BY <1>0, <1>3, SMT, SMTT(30) DEF Columns
<1> HIDE DEF d4
<1>5. d5 \in [Columns -> Int] /\ \A n \in Columns : d5[n] = IF n = "errors" THEN d4[n] + i ELSE d4[n]
  BY <1>0, <1>4, SMT, SMTT(30) DEF Columns
<1> HIDE DEF d5
<1>6. d6 \in [Columns -> Int] /\ \A n \in Columns : d6[n] = IF n = "long" THEN d5[n] + j ELSE d5[n]
  BY <1>0, <1>5, SMT, SMTT(30) DEF Columns
<1> HIDE DEF d6
<1>7. /\ d6["requests"] = d["requests"] /\ d6["tokens"] = d["tokens"] + a
      /\ d6["unknown"] = d["unknown"] - b /\ d6["pending"] = d["pending"] - 1
      /\ d6["failed"] = d["failed"] + h /\ d6["errors"] = d["errors"] + i
      /\ d6["long"] = d["long"] + j
  BY <1>1, <1>2, <1>3, <1>4, <1>5, <1>6, SMT, SMTT(30) DEF Columns
<1> QED
  <2>1. d6 = Closed(d, t, o, i)
    BY ZenonT(40) DEF Closed, a, b, h, j, d1, d2, d3, d4, d5, d6
  <2> QED
    BY <1>6, <1>7, <2>1, Zenon DEF a, b, h, j

(* begin adds one to three columns of the rollup and leaves the others.     *)
LEMMA ColumnsBegun ==
  ASSUME NEW d \in [Columns -> Int]
  PROVE  LET e == [d EXCEPT !.requests = @ + 1, !.unknown = @ + 1, !.pending = @ + 1]
         IN  /\ e \in [Columns -> Int]
             /\ \A n \in Columns : e[n] = IF n \in {"requests", "unknown", "pending"} THEN d[n] + 1 ELSE d[n]
<1> DEFINE d1 == [d EXCEPT !.requests = @ + 1]
           d2 == [d1 EXCEPT !.unknown = @ + 1]
           d3 == [d2 EXCEPT !.pending = @ + 1]
<1>1. d1 \in [Columns -> Int] /\ \A n \in Columns : d1[n] = IF n = "requests" THEN d[n] + 1 ELSE d[n]
  BY SMT, SMTT(30) DEF Columns
<1> HIDE DEF d1
<1>2. d2 \in [Columns -> Int] /\ \A n \in Columns : d2[n] = IF n = "unknown" THEN d1[n] + 1 ELSE d1[n]
  BY <1>1, SMT, SMTT(30) DEF Columns
<1> HIDE DEF d2
<1>3. d3 \in [Columns -> Int] /\ \A n \in Columns : d3[n] = IF n = "pending" THEN d2[n] + 1 ELSE d2[n]
  BY <1>2, SMT, SMTT(30) DEF Columns
<1> HIDE DEF d3
<1>4. \A n \in Columns : d3[n] = IF n \in {"requests", "unknown", "pending"} THEN d[n] + 1 ELSE d[n]
  BY <1>1, <1>2, <1>3, ZenonT(40) DEF Columns
<1> QED
  BY <1>3, <1>4, ZenonT(40) DEF d1, d2, d3

(* An empty ledger adds up.                                                 *)
LEMMA UsageStart ==
  ASSUME LedgerInit
  PROVE  UsageInv
<1>1. UsageTypes
  <2>1. Zero \in [Columns -> Int]
    BY SMT, SMTT(30) DEF Zero, Columns
  <2> QED
    BY <2>1, LedgerAssumption, SMT, SMTT(30) DEF LedgerInit, UsageTypes
<1>2. UnusedInv
  BY Zenon DEF LedgerInit, UnusedInv
<1>3. RollupInv
  <2> SUFFICES ASSUME NEW k \in Keys, NEW n \in Columns
               PROVE  daily[k][n] = Column(panel, Counted(panel, k), n)
    BY Zenon DEF RollupInv
  <2>1. Counted(panel, k) = {}
    BY Zenon  DEF LedgerInit, Counted, NoRow
  <2>2. daily[k][n] = 0
    BY SMT, SMTT(30) DEF LedgerInit, Zero, Columns
  <2> DEFINE f == [c \in {} |-> Share(panel[c])[n]]
  <2>3. f \in [{} -> Nat] /\ IsFiniteSet({})
    BY FS_EmptySet, Zenon
  <2> HIDE DEF f
  <2>4. SumOver(f, {}) = 0
    BY <2>3, SumOfFirst, Zenon
  <2> QED
    BY <2>1, <2>2, <2>4, Zenon DEF Column, f
<1>4. LedgersSettleTogether
  BY SMT, SMTT(30) DEF LedgerInit, LedgersSettleTogether, NoRow
<1> QED
  BY <1>1, <1>2, <1>3, <1>4, Zenon DEF UsageInv

(* create and finish_session touch the private ledger only.                 *)
LEMMA SessionStep ==
  ASSUME UsageInv, NEW s \in Sessions, Create(s) \/ FinishSession(s)
  PROVE  UsageInv'
<1>1. /\ \A c \in Calls : launch'[c] \in {launch[c], NoRow}
      /\ launch' = [c \in Calls |-> launch'[c]]
      /\ UNCHANGED <<today, boot, panel, daily, meters>>
  <2>1. CASE Create(s)
    BY <2>1, Zenon DEF Create
  <2>2. CASE FinishSession(s)
    BY <2>2, Zenon DEF FinishSession, UsageInv, UsageTypes
  <2> QED
    BY <2>1, <2>2, Zenon
<1>2. UsageTypes'
  <2>1. launch' \in [Calls -> {NoRow} \union Row]
    <3>1. \A c \in Calls : launch'[c] \in {NoRow} \union Row
      BY <1>1, Zenon DEF UsageInv, UsageTypes
    <3> QED
      BY <1>1, <3>1, Zenon
  <2> QED
    BY <1>1, <2>1, Zenon DEF UsageInv, UsageTypes
<1>3. UnusedInv'
  BY <1>1, Zenon DEF UsageInv, UnusedInv
<1>4. RollupInv'
  BY <1>1, RollupKept, SMT, SMTT(30) DEF UsageInv, UsageTypes
<1>5. LedgersSettleTogether'
  BY <1>1, SMT, SMTT(30) DEF UsageInv, LedgersSettleTogether, NoRow
<1> QED
  BY <1>2, <1>3, <1>4, <1>5, Zenon DEF UsageInv

(* begin: one more request today.                                           *)
LEMMA BeginStep ==
  ASSUME UsageInv, NEW c \in Calls, NEW who \in Sessions \union {Api}, BeginUsage(c, who)
  PROVE  UsageInv'
<1> DEFINE row == Pending(who)
           k0 == [day |-> today, who |-> who]
<1>0. today \in 0 .. MaxDay /\ boot \in 0 .. MaxBoot
  BY Zenon  DEF UsageInv, UsageTypes
<1>1. row \in PendingRow /\ row.st = "pending" /\ row.boot = boot /\ CountedIn(row) = k0
  BY <1>0, Zenon DEF Pending, PendingRow, Who, CountedIn
<1>2. k0 \in Keys
  BY <1>0, Zenon DEF Keys
<1> HIDE DEF row
<1> DEFINE d == daily[k0]
           e == Opened(d)
<1>3. /\ panel[c] = NoRow /\ meters[c] = "none"
      /\ launch' = IF who = Api THEN launch ELSE [launch EXCEPT ![c] = row]
      /\ panel' = [panel EXCEPT ![c] = row]
      /\ daily' = [daily EXCEPT ![k0] = e]
      /\ \E held \in {"live", "gone"} : meters' = [meters EXCEPT ![c] = held]
      /\ UNCHANGED <<today, boot>>
  BY Zenon  DEF BeginUsage, row
<1>4. row \in Row /\ launch[c] = NoRow
  BY <1>1, <1>3, Zenon DEF Row, UsageInv, UnusedInv
<1>5. /\ panel'[c] = row /\ \A x \in Calls \ {c} : panel'[x] = panel[x] /\ launch'[x] = launch[x]
      /\ launch'[c] \in {NoRow, row}
  BY <1>3, <1>4, Zenon DEF UsageInv, UsageTypes
<1>6. d \in [Columns -> Int]
  BY <1>2, Zenon DEF UsageInv, UsageTypes
<1> HIDE DEF k0, d
<1>7. e \in [Columns -> Int]
      /\ \A n \in Columns : e[n] = IF n \in {"requests", "unknown", "pending"} THEN d[n] + 1 ELSE d[n]
  BY <1>6, ColumnsBegun, Zenon DEF Opened
<1> HIDE DEF e
<1>8. /\ daily'[k0] = e /\ \A k \in Keys \ {k0} : daily'[k] = daily[k]
      /\ daily' \in [Keys -> [Columns -> Int]]
      /\ \A n \in Columns : e[n] = d[n] + Share(row)[n]
  <2>1. Share(row) = [requests |-> 1, tokens |-> 0, unknown |-> 1, pending |-> 1, failed |-> 0,
                      errors |-> 0, long |-> 0]
    <3>1. row.tokens = -1 /\ row.outcome = "pending" /\ row.error = 0 /\ row.st = "pending"
      BY <1>1, Zenon DEF PendingRow
    <3> QED
      BY <3>1, PendingShare, Zenon
  <2>2. \A n \in Columns : e[n] = d[n] + Share(row)[n]
    BY <1>6, <1>7, <2>1, SMT, SMTT(30) DEF Columns
  <2> QED
    BY <1>2, <1>3, <1>7, <2>2, Zenon DEF UsageInv, UsageTypes
<1>9. UsageTypes'
  BY <1>3, <1>4, <1>8, Zenon DEF UsageInv, UsageTypes
<1>10. UnusedInv'
  BY <1>3, <1>5, Zenon DEF UsageInv, UnusedInv, UsageTypes
<1>11. LedgersSettleTogether'
  BY <1>1, <1>3, <1>5, SMT, SMTT(30) DEF UsageInv, LedgersSettleTogether, NoRow
<1>12. ASSUME NEW k \in Keys, ~Expired(k.day, CallDays), NEW n \in Columns
       PROVE  daily'[k][n] = Column(panel', Counted(panel', k), n)
  <2>1. daily[k][n] = Column(panel, Counted(panel, k), n)
    BY <1>12, Zenon DEF UsageInv, RollupInv
  <2>2. c \notin Counted(panel, k)
    BY <1>3, SMT, SMTT(30) DEF Counted, NoRow
  <2>3. \A x \in Counted(panel, k) : panel[x] \in Row /\ panel[x] = panel'[x]
    BY <1>5, <2>2, CountedRows, Zenon DEF UsageInv
  <2>4. CASE k = k0
    <3>1. Counted(panel', k) = Counted(panel, k) \union {c}
      BY <1>1, <1>5, <2>4, Zenon DEF Counted, NoRow
    <3>2. IsFiniteSet(Counted(panel, k))
      BY CountedRows, Zenon DEF UsageInv
    <3>3. Column(panel', Counted(panel, k) \union {c}, n) = Column(panel, Counted(panel, k), n) + Share(panel'[c])[n]
      <4> DEFINE rows == Counted(panel, k)
      <4>1. IsFiniteSet(rows) /\ c \notin rows /\ \A x \in rows : panel[x] \in Row /\ panel[x] = panel'[x]
        BY <2>2, <2>3, <3>2, Zenon
      <4>2. panel'[c] \in Row
        BY <1>4, <1>5, Zenon
      <4> HIDE DEF rows
      <4>3. Column(panel', rows \union {c}, n) = Column(panel, rows, n) + Share(panel'[c])[n]
        BY <4>1, <4>2, ColumnGrows, SMT, SMTT(30)
      <4> QED
        BY <4>3, Zenon DEF rows
    <3> QED
      BY <1>5, <1>8, <2>1, <2>4, <3>1, <3>3, Zenon DEF d
  <2>5. CASE k # k0
    <3>1. Counted(panel', k) = Counted(panel, k)
      BY <1>1, <1>5, <2>2, <2>5, Zenon DEF Counted
    <3>2. Column(panel', Counted(panel, k), n) = Column(panel, Counted(panel, k), n)
      BY <2>3, ColumnSame, SMT, SMTT(30)
    <3> QED
      BY <1>8, <2>1, <2>5, <3>1, <3>2, Zenon
  <2> QED
    BY <2>4, <2>5, Zenon
<1>13. RollupInv'
  BY <1>3, <1>12, Zenon DEF RollupInv, Expired
<1> QED
  BY <1>9, <1>10, <1>11, <1>13, Zenon DEF UsageInv

(* Record and the meters that never report.                                 *)
LEMMA RecordStep ==
  ASSUME UsageInv, NEW c \in Calls, NEW t \in Counts, NEW o \in Outcomes, Record(c, t, o)
  PROVE  UsageInv'
<1>1. meters[c] = "live" /\ meters' = [meters EXCEPT ![c] = "gone"] /\ UNCHANGED <<today, boot>>
  BY Zenon DEF Record
<1>2. CASE UNCHANGED <<launch, panel, daily>>
  <2>1. UsageTypes' /\ LedgersSettleTogether'
    BY <1>1, <1>2, Zenon DEF UsageInv, UsageTypes, LedgersSettleTogether
  <2>2. UnusedInv'
    BY <1>1, <1>2, SMT, SMTT(30) DEF UsageInv, UnusedInv
  <2>3. RollupInv'
    BY <1>1, <1>2, RollupKept, SMT, SMTT(30) DEF UsageInv, UsageTypes
  <2> QED
    BY <2>1, <2>2, <2>3, Zenon DEF UsageInv
<1>3. CASE t # Overflow
  <2>1. PICK e \in {0, 1} :
          /\ launch' = IF launch[c] = NoRow THEN launch ELSE [launch EXCEPT ![c] = Finished(@, t, o, e)]
          /\ panel' = IF panel[c] = NoRow THEN panel ELSE [panel EXCEPT ![c] = Finished(@, t, o, e)]
          /\ daily' = IF panel[c].st # "pending" THEN daily
                      ELSE [daily EXCEPT ![CountedIn(panel[c])] = Closed(@, t, o, e)]
    BY <1>3, Zenon DEF Record, Flag
  <2>2. t \in {-1} \union Nat
    BY <1>3, LedgerAssumption, SMT, SMTT(30) DEF Counts
  <2>3. launch[c] \in {NoRow} \union Row /\ panel[c] \in {NoRow} \union Row
    BY Zenon  DEF UsageInv, UsageTypes
  <2>4. ASSUME NEW r \in {NoRow} \union Row
        PROVE  LET q == IF r = NoRow THEN r ELSE Finished(r, t, o, e)
               IN  /\ q \in {NoRow} \union Row
                   /\ r.st # "pending" => q = r
                   /\ q.st # "pending"
                   /\ r.st = "none" <=> q.st = "none"
                   /\ r.st = "pending" => q \in DoneRow
    <3>1. CASE r.st = "pending"
      <4>1. r \in PendingRow /\ r # NoRow
        BY <3>1, RowKinds, Zenon DEF NoRow
      <4>2. Finished(r, t, o, e) \in DoneRow
        BY <2>2, <4>1, FinishedRow, Zenon
      <4> QED
        BY <3>1, <4>1, <4>2, Zenon DEF Row, DoneRow
    <3>2. CASE r.st # "pending"
      BY <3>2, Zenon DEF Finished
    <3> QED
      BY <3>1, <3>2, Zenon
  <2>5. /\ launch'[c] = IF launch[c] = NoRow THEN launch[c] ELSE Finished(launch[c], t, o, e)
        /\ panel'[c] = IF panel[c] = NoRow THEN panel[c] ELSE Finished(panel[c], t, o, e)
        /\ \A x \in Calls \ {c} : launch'[x] = launch[x] /\ panel'[x] = panel[x]
        /\ launch' = [x \in Calls |-> launch'[x]] /\ panel' = [x \in Calls |-> panel'[x]]
    BY <2>1, Zenon DEF UsageInv, UsageTypes
  <2>6. /\ launch'[c] \in {NoRow} \union Row /\ panel'[c] \in {NoRow} \union Row
        /\ launch'[c].st # "pending" /\ panel'[c].st # "pending"
        /\ launch'[c].st = "none" <=> launch[c].st = "none"
        /\ panel'[c].st = "none" <=> panel[c].st = "none"
        /\ panel[c].st # "pending" => panel'[c] = panel[c]
        /\ panel[c].st = "pending" => panel'[c] \in DoneRow
    BY <2>3, <2>4, <2>5, SMT, SMTT(30)
  <2>7. LedgersSettleTogether'
    <3>1. launch'[c].st # "none" /\ panel'[c].st # "none" => launch'[c] = panel'[c]
      BY <2>5, <2>6, Zenon DEF UsageInv, LedgersSettleTogether
    <3> QED
      BY <1>1, <2>5, <2>6, <3>1, SMT, SMTT(30) DEF UsageInv, LedgersSettleTogether
  <2>8. UnusedInv'
    BY <1>1, <2>5, Zenon DEF UsageInv, UnusedInv, UsageTypes
  <2>9. launch' \in [Calls -> {NoRow} \union Row] /\ panel' \in [Calls -> {NoRow} \union Row]
    <3>1. \A x \in Calls : launch'[x] \in {NoRow} \union Row /\ panel'[x] \in {NoRow} \union Row
      BY <2>5, <2>6, Zenon DEF UsageInv, UsageTypes
    <3> QED
      BY <2>5, <3>1, Zenon
  <2>10. CASE panel[c].st # "pending"
    <3>1. panel' = panel /\ daily' = daily
      <4>1. \A x \in Calls : panel'[x] = panel[x]
        BY <2>5, <2>6, <2>10, ZenonT(40)
      <4>2. panel = [x \in Calls |-> panel[x]]
        BY Zenon  DEF UsageInv, UsageTypes
      <4> QED
        BY <2>1, <2>5, <2>10, <4>1, <4>2, ZenonT(40)
    <3>2. RollupInv'
      BY <1>1, <3>1, RollupKept, SMT, SMTT(30) DEF UsageInv, UsageTypes
    <3> QED
      BY <1>1, <2>7, <2>8, <2>9, <3>1, <3>2, ZenonT(40) DEF UsageInv, UsageTypes
  <2>11. CASE panel[c].st = "pending"
    <3> DEFINE k0 == CountedIn(panel[c])
               d == daily[k0]
               f == Closed(d, t, o, e)
    <3>1. panel[c] \in PendingRow /\ panel[c] # NoRow
      BY <2>3, <2>11, RowKinds, Zenon DEF NoRow
    <3>2. panel'[c] = [st |-> "done", who |-> panel[c].who, day |-> panel[c].day, boot |-> panel[c].boot,
                       tokens |-> t, outcome |-> o, error |-> e]
      BY <2>2, <2>5, <3>1, FinishedRow, ZenonT(40)
    <3>3. k0 \in Keys /\ CountedIn(panel'[c]) = k0
      BY <3>1, <3>2, SMT, SMTT(30) DEF CountedIn, Keys, PendingRow, Who
    <3>4. d \in [Columns -> Int]
      BY <3>3, Zenon DEF UsageInv, UsageTypes
    <3>5. daily' = [daily EXCEPT ![k0] = f]
      BY <2>1, <2>11, Zenon
    <3>7. Share(panel[c]) = [requests |-> 1, tokens |-> 0, unknown |-> 1, pending |-> 1, failed |-> 0,
                             errors |-> 0, long |-> 0]
      <4>1. panel[c].tokens = -1 /\ panel[c].outcome = "pending" /\ panel[c].error = 0 /\ panel[c].st = "pending"
        BY <3>1, Zenon DEF PendingRow
      <4> QED
        BY <4>1, PendingShare, Zenon
    <3>8. Share(panel'[c]) = [requests |-> 1, tokens |-> IF t < 0 THEN 0 ELSE t, unknown |-> Flag(t < 0),
                              pending |-> 0, failed |-> Flag(o # "succeeded"), errors |-> e, long |-> Long(t)]
      <4>1. /\ panel'[c].tokens = t /\ panel'[c].outcome = o /\ panel'[c].error = e /\ panel'[c].st = "done"
            /\ o # "pending"
        BY <3>2, SMT, SMTT(30) DEF Outcomes
      <4> QED
        BY <4>1, DoneShare, Zenon
    <3>9. Long(t) \in Int /\ Flag(t >= 0) = 1 - Flag(t < 0) /\ Flag(t < 0) \in Int
          /\ Flag(o # "succeeded") \in Int /\ (IF t < 0 THEN 0 ELSE t) \in Int
      BY <2>2, LedgerAssumption, SMT, SMTT(30) DEF Long, Flag
    <3> HIDE DEF k0, d
    <3>10. /\ f \in [Columns -> Int]
           /\ f["requests"] = d["requests"] /\ f["tokens"] = d["tokens"] + (IF t < 0 THEN 0 ELSE t)
           /\ f["unknown"] = d["unknown"] - Flag(t >= 0) /\ f["pending"] = d["pending"] - 1
           /\ f["failed"] = d["failed"] + Flag(o # "succeeded") /\ f["errors"] = d["errors"] + e
           /\ f["long"] = d["long"] + Long(t)
      BY <2>2, <3>4, ColumnsClosed, SMT, SMTT(30)
    <3> HIDE DEF f
    <3>11. \A n \in Columns : f[n] = d[n] - Share(panel[c])[n] + Share(panel'[c])[n]
      <4> DEFINE s == Share(panel[c])
                 u == Share(panel'[c])
      <4>1. /\ s["requests"] = 1 /\ s["tokens"] = 0 /\ s["unknown"] = 1 /\ s["pending"] = 1
            /\ s["failed"] = 0 /\ s["errors"] = 0 /\ s["long"] = 0
        BY ONLY <3>7, SMT, SMTT(30)
      <4>2. /\ u["requests"] = 1 /\ u["tokens"] = (IF t < 0 THEN 0 ELSE t) /\ u["unknown"] = Flag(t < 0)
            /\ u["pending"] = 0 /\ u["failed"] = Flag(o # "succeeded") /\ u["errors"] = e
            /\ u["long"] = Long(t)
        BY ONLY <3>8, SMT, SMTT(30)
      <4>3. \A n \in Columns : d[n] \in Int
        BY ONLY <3>4, Zenon
      <4>4. e \in Int
        BY SMT, SMTT(30)
      <4> HIDE DEF s, u
      <4>5. \A n \in Columns : f[n] = d[n] - s[n] + u[n]
        BY ONLY <3>9, <3>10, <4>1, <4>2, <4>3, <4>4, SMT, SMTT(30) DEF Columns
      <4> QED
        BY ONLY <4>5, Zenon DEF s, u
    <3>12. /\ daily'[k0] = f /\ \A k \in Keys \ {k0} : daily'[k] = daily[k]
           /\ daily' \in [Keys -> [Columns -> Int]]
      BY <3>3, <3>5, <3>10, Zenon DEF UsageInv, UsageTypes
    <3>13. ASSUME NEW k \in Keys, ~Expired(k.day, CallDays), NEW n \in Columns
           PROVE  daily'[k][n] = Column(panel', Counted(panel', k), n)
      <4>1. daily[k][n] = Column(panel, Counted(panel, k), n)
        BY <3>13, Zenon DEF UsageInv, RollupInv
      <4>2. Counted(panel', k) = Counted(panel, k) /\ (c \in Counted(panel, k) <=> k = k0)
        BY <2>5, <2>6, <2>11, <3>3, ZenonT(40) DEF Counted, k0
      <4>3. /\ IsFiniteSet(Counted(panel, k)) /\ Counted(panel, k) \subseteq Calls
            /\ \A x \in Counted(panel, k) : panel[x] \in Row
        BY CountedRows, ZenonT(40) DEF UsageInv
      <4>4. CASE k = k0
        <5>1. \A x \in Counted(panel, k) : panel[x] \in Row /\ panel'[x] \in Row
          BY <2>5, <2>6, <2>11, <4>3, ZenonT(40) DEF Row
        <5>2. \A x \in Counted(panel, k) \ {c} : panel[x] = panel'[x]
          BY <2>5, <4>3, Zenon
        <5>3. Column(panel', Counted(panel, k), n)
                = Column(panel, Counted(panel, k), n) - Share(panel[c])[n] + Share(panel'[c])[n]
          <6> DEFINE rows == Counted(panel, k)
          <6>1. IsFiniteSet(rows) /\ c \in rows
            BY <4>2, <4>3, <4>4, ZenonT(40)
          <6>2. \A x \in rows : panel[x] \in Row /\ panel'[x] \in Row
            BY <5>1, ZenonT(40)
          <6>3. \A x \in rows \ {c} : panel[x] = panel'[x]
            BY <5>2, Zenon
          <6> HIDE DEF rows
          <6>4. Column(panel', rows, n) = Column(panel, rows, n) - Share(panel[c])[n] + Share(panel'[c])[n]
            BY <6>1, <6>2, <6>3, ColumnPoint, SMT, SMTT(30)
          <6> QED
            BY <6>4, Zenon DEF rows
        <5> QED
          BY <3>11, <3>12, <4>1, <4>2, <4>4, <5>3, ZenonT(40) DEF d
      <4>5. CASE k # k0
        <5>1. \A x \in Counted(panel, k) : panel[x] = panel'[x]
          BY <2>5, <4>2, <4>3, <4>5, Zenon
        <5>2. Column(panel', Counted(panel, k), n) = Column(panel, Counted(panel, k), n)
          BY <5>1, ColumnSame, SMT, SMTT(30)
        <5> QED
          BY <3>12, <4>1, <4>2, <4>5, <5>2, Zenon
      <4> QED
        BY <4>4, <4>5, Zenon
    <3>14. RollupInv'
      BY <1>1, <3>13, Zenon DEF RollupInv, Expired
    <3> QED
      BY <1>1, <2>7, <2>8, <2>9, <3>12, <3>14, ZenonT(40) DEF UsageInv, UsageTypes
  <2> QED
    BY <2>10, <2>11, Zenon
<1> QED
  BY <1>2, <1>3, Zenon DEF Record

(* A request whose record is lost stays pending in both tables (RecordLost).*)
LEMMA RecordLostStep ==
  ASSUME UsageInv, NEW c \in Calls, RecordLost(c)
  PROVE  UsageInv'
<1>1. /\ meters[c] = "live" /\ meters' = [meters EXCEPT ![c] = "gone"]
      /\ UNCHANGED <<today, boot, launch, panel, daily>>
  BY Zenon DEF RecordLost
<1>2. UsageTypes' /\ LedgersSettleTogether'
  BY <1>1, Zenon DEF UsageInv, UsageTypes, LedgersSettleTogether
<1>3. UnusedInv'
  BY <1>1, Zenon DEF UsageInv, UnusedInv, UsageTypes
<1>4. RollupInv'
  BY <1>1, RollupKept, SMT, SMTT(30) DEF UsageInv, UsageTypes
<1> QED
  BY <1>2, <1>3, <1>4, Zenon DEF UsageInv

(* interrupt_pending: what is pending fails, in the tables and the rollup.  *)
LEMMA InterruptedTable ==
  ASSUME NEW table \in [Calls -> {NoRow} \union Row], NEW c \in Calls
  PROVE  /\ Interrupted(table)[c] \in {NoRow} \union Row
         /\ Interrupted(table)[c].st # "pending"
         /\ Interrupted(table)[c].st = "none" <=> table[c].st = "none"
         /\ table[c] = NoRow => Interrupted(table)[c] = NoRow
         /\ table[c].st # "none" =>
              /\ Interrupted(table)[c] = Finished(table[c], -1, "interrupted", 1)
              /\ CountedIn(Interrupted(table)[c]) = CountedIn(table[c])
<1> DEFINE r == table[c]
           q == Interrupted(table)[c]
<1>1. q = IF r.st = "none" THEN r ELSE Finished(r, -1, "interrupted", 1)
  BY Zenon DEF Interrupted
<1>2. r \in {NoRow} \union Row
  BY Zenon
<1> HIDE DEF q, r
<1>3. CASE r.st = "pending"
  <2>1. r \in PendingRow /\ r # NoRow
    BY <1>2, <1>3, RowKinds, Zenon DEF NoRow
  <2>2. /\ q = [st |-> "done", who |-> r.who, day |-> r.day, boot |-> r.boot,
                tokens |-> -1, outcome |-> "interrupted", error |-> 1]
        /\ q \in DoneRow
    BY <1>1, <1>3, <2>1, FinishedRow, Zenon DEF Outcomes
  <2>3. q.st = "done" /\ q.day = r.day /\ q.who = r.who
    BY ONLY <2>2, Zenon
  <2> QED
    BY <1>1, <1>3, <2>1, <2>2, <2>3, Zenon DEF Row, CountedIn, r, q
<1>4. CASE r.st # "pending"
  <2>1. q = r
    BY <1>1, <1>4, Zenon DEF Finished
  <2> QED
    BY <1>1, <1>2, <1>4, <2>1, Zenon DEF r, q, NoRow
<1> QED
  BY <1>3, <1>4, Zenon

(* A restart interrupts what is pending in the tables and in the rollup, and*)
(* the two still add up (Restart).                                          *)
LEMMA RestartStep ==
  ASSUME UsageInv, Restart
  PROVE  UsageInv'
<1>1. /\ boot < MaxBoot /\ boot' = boot + 1 /\ today' = today
      /\ meters' = [c \in Calls |-> IF meters[c] = "none" THEN "none" ELSE "gone"]
      /\ daily' = InterruptedDaily(daily)
      /\ panel' = Interrupted(panel) /\ launch' = Interrupted(launch)
  BY Zenon DEF Restart
<1>2. /\ panel \in [Calls -> {NoRow} \union Row] /\ launch \in [Calls -> {NoRow} \union Row]
      /\ daily \in [Keys -> [Columns -> Int]]
  BY Zenon  DEF UsageInv, UsageTypes
<1>3. ASSUME NEW c \in Calls
      PROVE  /\ panel'[c] \in {NoRow} \union Row /\ launch'[c] \in {NoRow} \union Row
             /\ panel'[c].st # "pending" /\ launch'[c].st # "pending"
             /\ panel'[c].st = "none" <=> panel[c].st = "none"
             /\ launch'[c].st = "none" <=> launch[c].st = "none"
             /\ panel[c] = NoRow => panel'[c] = NoRow
             /\ launch[c] = NoRow => launch'[c] = NoRow
             /\ panel[c].st # "none" => /\ panel'[c] = Finished(panel[c], -1, "interrupted", 1)
                                        /\ CountedIn(panel'[c]) = CountedIn(panel[c])
             /\ launch[c].st # "none" => launch'[c] = Finished(launch[c], -1, "interrupted", 1)
  BY <1>1, <1>2, InterruptedTable, Zenon
<1>4. panel' = [c \in Calls |-> panel'[c]] /\ launch' = [c \in Calls |-> launch'[c]]
  BY <1>1, Zenon DEF Interrupted
<1>5. ASSUME NEW k \in Keys
      PROVE  /\ daily'[k] \in [Columns -> Int]
             /\ \A n \in Columns : daily'[k][n] = Swept(daily[k], n)
  <2> DEFINE d == daily[k]
             d1 == [d EXCEPT !.failed = @ + d.pending]
             d2 == [d1 EXCEPT !.errors = @ + d.pending]
             d3 == [d2 EXCEPT !.pending = 0]
  <2>1. d \in [Columns -> Int]
    BY <1>2, Zenon
  <2>2. daily'[k] = d3
    BY <1>1, Zenon DEF InterruptedDaily
  <2> HIDE DEF d
  <2>3. d1 \in [Columns -> Int] /\ \A n \in Columns : d1[n] = IF n = "failed" THEN d[n] + d["pending"] ELSE d[n]
    BY <2>1, SMT, SMTT(30) DEF Columns
  <2> HIDE DEF d1
  <2>4. d2 \in [Columns -> Int] /\ \A n \in Columns : d2[n] = IF n = "errors" THEN d1[n] + d["pending"] ELSE d1[n]
    BY <2>1, <2>3, SMT, SMTT(30) DEF Columns
  <2> HIDE DEF d2
  <2>5. d3 \in [Columns -> Int] /\ \A n \in Columns : d3[n] = IF n = "pending" THEN 0 ELSE d2[n]
    BY <2>4, SMT, SMTT(30) DEF Columns
  <2> HIDE DEF d3
  <2>6. \A n \in Columns : d3[n] = Swept(d, n)
    BY <2>3, <2>4, <2>5, ZenonT(40) DEF Columns, Swept
  <2> QED
    BY <2>2, <2>5, <2>6, Zenon DEF d
<1>6. UsageTypes'
  <2>1. daily' = [k \in Keys |-> daily'[k]]
    BY <1>1, Zenon DEF InterruptedDaily
  <2>2. daily' \in [Keys -> [Columns -> Int]]
    BY <1>5, <2>1, Zenon
  <2>3. panel' \in [Calls -> {NoRow} \union Row] /\ launch' \in [Calls -> {NoRow} \union Row]
    BY <1>3, <1>4, Zenon
  <2> QED
    BY <1>1, <2>2, <2>3, LedgerAssumption, SMT, SMTT(30) DEF UsageInv, UsageTypes
<1>7. UnusedInv'
  BY <1>1, <1>3, Zenon DEF UsageInv, UnusedInv, UsageTypes
<1>8. LedgersSettleTogether'
  <2>1. \A c \in Calls : launch'[c].st # "none" /\ panel'[c].st # "none" => launch'[c] = panel'[c]
    BY <1>3, Zenon DEF UsageInv, LedgersSettleTogether
  <2> QED
    BY <1>3, <2>1, Zenon DEF LedgersSettleTogether
<1>9. ASSUME NEW k \in Keys, ~Expired(k.day, CallDays), NEW n \in Columns
      PROVE  daily'[k][n] = Column(panel', Counted(panel', k), n)
  <2> DEFINE rows == Counted(panel, k)
  <2>1. daily[k] = [m \in Columns |-> Column(panel, rows, m)]
    <3>1. \A m \in Columns : daily[k][m] = Column(panel, rows, m)
      BY <1>9, Zenon DEF UsageInv, RollupInv
    <3>2. daily[k] = [m \in Columns |-> daily[k][m]]
      BY <1>2, Zenon
    <3> QED
      BY <3>1, <3>2, Zenon
  <2>2. Counted(panel', k) = rows
    BY <1>3, Zenon DEF Counted
  <2>3. IsFiniteSet(rows) /\ \A x \in rows : panel[x] \in Row /\ x \in Calls
    BY CountedRows, Zenon DEF UsageInv
  <2>4. \A x \in rows : panel'[x] = Finished(panel[x], -1, "interrupted", 1)
    BY <1>3, Zenon DEF Counted
  <2> HIDE DEF rows
  <2>5. Column(panel', rows, n) = Swept([m \in Columns |-> Column(panel, rows, m)], n)
    BY <2>3, <2>4, ColumnSwept, ZenonT(40)
  <2> QED
    BY <1>5, <2>1, <2>2, <2>5, ZenonT(40)
<1>10. RollupInv'
  BY <1>1, <1>9, Zenon DEF RollupInv, Expired
<1> QED
  BY <1>6, <1>7, <1>8, <1>10, Zenon DEF UsageInv

(* Retention deletes what no kept day counts.                               *)
LEMMA CleanupStep ==
  ASSUME UsageInv, Cleanup
  PROVE  UsageInv'
<1>1. /\ panel' = [c \in Calls |-> IF panel[c].st # "none" /\ Expired(panel[c].day, CallDays)
                                   THEN NoRow ELSE panel[c]]
      /\ \A c \in Calls : launch'[c] \in {launch[c], NoRow}
      /\ launch' = [c \in Calls |-> launch'[c]]
      /\ daily' = [k \in Keys |-> IF Expired(k.day, RollupDays) THEN Zero ELSE daily[k]]
      /\ UNCHANGED <<today, boot, meters>>
  BY Zenon  DEF Cleanup
<1>2. UsageTypes'
  <2>1. Zero \in [Columns -> Int]
    BY SMT, SMTT(30) DEF Zero, Columns
  <2>2. launch' \in [Calls -> {NoRow} \union Row]
    <3>1. \A c \in Calls : launch'[c] \in {NoRow} \union Row
      BY <1>1, Zenon DEF UsageInv, UsageTypes
    <3> QED
      BY <1>1, <3>1, Zenon
  <2>3. panel' \in [Calls -> {NoRow} \union Row] /\ daily' \in [Keys -> [Columns -> Int]]
    BY <1>1, <2>1, Zenon DEF UsageInv, UsageTypes
  <2> QED
    BY <1>1, <2>2, <2>3, Zenon DEF UsageInv, UsageTypes
<1>3. UnusedInv'
  BY <1>1, Zenon DEF UsageInv, UnusedInv
<1>4. LedgersSettleTogether'
  <2>1. \A c \in Calls : panel'[c] \in {panel[c], NoRow}
    BY <1>1, Zenon
  <2> QED
    BY <1>1, <2>1, SMT, SMTT(30) DEF UsageInv, LedgersSettleTogether, NoRow
<1>5. RollupInv'
  <2>0. today \in Nat /\ CallDays \in Nat /\ RollupDays \in Nat /\ CallDays <= RollupDays
    BY LedgerAssumption, SMT, SMTT(30) DEF UsageInv, UsageTypes
  <2>1. ASSUME NEW k \in Keys, ~Expired(k.day, CallDays)'
        PROVE  /\ daily'[k] = daily[k]
               /\ Counted(panel', k) = Counted(panel, k)
               /\ \A c \in Counted(panel, k) : panel'[c] = panel[c]
    <3>1. ~Expired(k.day, CallDays) /\ ~Expired(k.day, RollupDays)
      BY <1>1, <2>0, <2>1, SMT, SMTT(30) DEF Expired, Keys
    <3>2. ASSUME NEW c \in Calls, panel[c].st # "none", CountedIn(panel[c]) = k
          PROVE  panel'[c] = panel[c]
      BY <1>1, <3>1, <3>2, Zenon DEF CountedIn
    <3>3. ASSUME NEW c \in Calls, panel'[c].st # "none" PROVE panel'[c] = panel[c]
      BY <1>1, <3>3, Zenon DEF NoRow
    <3> QED
      BY <1>1, <3>1, <3>2, <3>3, Zenon DEF Counted
  <2>2. today' \in Nat /\ today <= today'
    BY <1>1, <2>0, SMT, SMTT(30)
  <2>3. UsageTypes /\ RollupInv
    BY Zenon DEF UsageInv
  <2> QED
    BY <2>0, <2>1, <2>2, <2>3, RollupKept, Zenon
<1> QED
  BY <1>2, <1>3, <1>4, <1>5, Zenon DEF UsageInv

(* Midnight moves no request to another row of the rollup (NextDay).        *)
LEMMA NextDayStep ==
  ASSUME UsageInv, NextDay
  PROVE  UsageInv'
<1>1. today < MaxDay /\ today' = today + 1 /\ UNCHANGED <<boot, launch, panel, daily, meters>>
  BY Zenon  DEF NextDay
<1>2. UsageTypes'
  BY <1>1, LedgerAssumption, SMT, SMTT(30) DEF UsageInv, UsageTypes
<1>3. UnusedInv' /\ LedgersSettleTogether'
  BY <1>1, Zenon DEF UsageInv, UnusedInv, LedgersSettleTogether
<1>4. RollupInv'
  <2>1. today \in Nat /\ today' \in Nat /\ today <= today'
    BY <1>1, SMT, SMTT(30) DEF UsageInv, UsageTypes
  <2>2. \A k \in Keys : /\ daily'[k] = daily[k] /\ Counted(panel', k) = Counted(panel, k)
                        /\ \A c \in Counted(panel, k) : panel'[c] = panel[c]
    BY <1>1, Zenon
  <2> QED
    BY <2>1, <2>2, RollupKept, Zenon DEF UsageInv
<1> QED
  BY <1>2, <1>3, <1>4, Zenon DEF UsageInv

(* The panel's daily rollup equals the aggregate of the requests it counts, *)
(* and the two ledgers settle each request alike and never leave one of an  *)
(* earlier agent pending, for any requests, sessions, days and restarts     *)
(* (analytics.rs, sessions.rs).                                             *)
THEOREM UsageAlwaysAccounted == LedgerSpec => []UsageIsAccounted
<1>1. LedgerInit => UsageInv
  BY UsageStart, Zenon
<1>2. UsageInv /\ [LedgerNext]_ledgerVars => UsageInv'
  <2> SUFFICES ASSUME UsageInv, [LedgerNext]_ledgerVars PROVE UsageInv'
    BY Zenon
  <2>1. CASE UNCHANGED ledgerVars
    <3>1. UsageTypes' /\ UnusedInv' /\ LedgersSettleTogether'
      BY <2>1, Zenon DEF ledgerVars, UsageInv, UsageTypes, UnusedInv, LedgersSettleTogether
    <3>2. RollupInv'
      BY <2>1, RollupKept, SMT, SMTT(30) DEF ledgerVars, UsageInv, UsageTypes
    <3> QED
      BY <3>1, <3>2, Zenon DEF UsageInv
  <2>2. CASE LedgerNext
    BY <2>2, SessionStep, BeginStep, RecordStep, RecordLostStep, RestartStep, CleanupStep, NextDayStep, Zenon
       DEF LedgerNext
  <2> QED
    BY <2>1, <2>2, Zenon
<1>3. UsageInv => UsageIsAccounted
  BY RollupByColumn, Zenon DEF UsageInv, UsageIsAccounted
<1> QED
  BY <1>1, <1>2, <1>3, PTL DEF LedgerSpec
=============================================================================
