---------------------------- MODULE SumTheorems ----------------------------
(***************************************************************************)
(* Sums over finite sets, as MapThenSumSet computes them: how a sum is     *)
(* taken apart, what one more at one element makes of it, and that parts   *)
(* of a set sum to no more than the whole.  The library's induction        *)
(* theorems take an operator, which the provers cannot instantiate; the    *)
(* induction here is over the smallest bad subset instead (SmallestBad).   *)
(***************************************************************************)
EXTENDS Integers, FiniteSetsExt, FiniteSetTheorems, WellFoundedInduction, TLAPS

\* Induction on numbers, for a set of bad cases: there is a smallest one.
LEMMA SmallestNat ==
  ASSUME NEW bad \in SUBSET Nat, bad # {}
  PROVE  \E n \in bad : \A m \in bad : ~(m < n)
<1>1. PICK n \in bad : \A m \in bad : <<m, n>> \notin OpToRel(<, Nat)
  BY WFMin, NatLessThanWellFounded
<1> QED
  BY <1>1 DEF OpToRel

\* Induction on finite sets, for a set of bad cases: there is a smallest one.
LEMMA SmallestBad ==
  ASSUME NEW S, IsFiniteSet(S), NEW Bad \in SUBSET (SUBSET S), Bad # {}
  PROVE  \E T \in Bad : \A x \in T : T \ {x} \notin Bad
<1> DEFINE sizes == {Cardinality(T) : T \in Bad}
<1>1. \A T \in Bad : IsFiniteSet(T) /\ Cardinality(T) \in Nat
  BY FS_Subset, FS_CardinalityType
<1>2. sizes \subseteq Nat /\ sizes # {}
  BY <1>1
<1>3. PICK n \in sizes : \A m \in sizes : ~(m < n)
  <2> HIDE DEF sizes
  <2> QED
    BY <1>2, SmallestNat
<1>5. PICK T \in Bad : n = Cardinality(T)
  OBVIOUS
<1>6. ASSUME NEW x \in T, T \ {x} \in Bad PROVE FALSE
  <2>1. Cardinality(T \ {x}) = Cardinality(T) - 1
    BY <1>1, <1>6, FS_RemoveElement
  <2>2. Cardinality(T \ {x}) \in sizes
    BY <1>6
  <2> HIDE DEF sizes
  <2> QED
    BY <1>1, <1>3, <1>5, <2>1, <2>2
<1> QED
  BY <1>6

\* The sum of a function over a set.
SumOf(f, S) == MapThenSumSet(LAMBDA x : f[x], S)

Chosen(T) == CHOOSE x \in T : TRUE

\* The table the sum over S is read from.
IsTable(iter, f, S) ==
  iter = [T \in SUBSET S |-> IF T = {} THEN 0 ELSE f[Chosen(T)] + iter[T \ {Chosen(T)}]]

Table(f, S) == CHOOSE iter : IsTable(iter, f, S)

\* The sum of the community modules reads such a table.
LEMMA SumIsTable ==
  ASSUME NEW f, NEW S
  PROVE  SumOf(f, S) = Table(f, S)[S]
BY DEF SumOf, Table, IsTable, Chosen, MapThenSumSet, MapThenFoldSet

\* The element the table takes next.
LEMMA ChosenIsIn ==
  ASSUME NEW T, T # {}
  PROVE  Chosen(T) \in T
BY DEF Chosen

\* There is such a table, built for larger and larger subsets.
LEMMA TableExists ==
  ASSUME NEW S, IsFiniteSet(S), NEW f, \A x \in S : f[x] \in Nat
  PROVE  IsTable(Table(f, S), f, S)
<1> DEFINE Small(n) == {T \in SUBSET S : Cardinality(T) <= n}
           Works(g, n) == \A T \in Small(n) :
             g[T] = IF T = {} THEN 0 ELSE f[Chosen(T)] + g[T \ {Chosen(T)}]
           bad == {n \in Nat : ~\E g \in [Small(n) -> Nat] : Works(g, n)}
<1>0. \A T \in SUBSET S : IsFiniteSet(T) /\ Cardinality(T) \in Nat /\ (Cardinality(T) = 0 <=> T = {})
  BY FS_Subset, FS_CardinalityType, FS_EmptySet
<1>1. bad = {}
  <2> SUFFICES ASSUME bad # {} PROVE FALSE
    OBVIOUS
  <2>1. PICK n \in bad : \A m \in bad : <<m, n>> \notin OpToRel(<, Nat)
    <3>1. bad \subseteq Nat
      OBVIOUS
    <3> HIDE DEF bad
    <3> QED
      BY <3>1, WFMin, NatLessThanWellFounded
  <2>2. \A m \in bad : ~(m < n)
    <3>1. bad \subseteq Nat
      OBVIOUS
    <3> HIDE DEF bad
    <3> QED
      BY <2>1, <3>1 DEF OpToRel
  <2>3. n \in Nat /\ ~\E g \in [Small(n) -> Nat] : Works(g, n)
    OBVIOUS
  <2>4. CASE n = 0
    <3> DEFINE g == [T \in Small(0) |-> 0]
    <3>1. \A T \in Small(0) : T = {}
      BY <1>0
    <3>2. g \in [Small(0) -> Nat] /\ Works(g, 0)
      BY <3>1
    <3> QED
      BY <2>3, <2>4, <3>2
  <2>5. CASE n # 0
    <3> DEFINE m == n - 1
    <3>1. m \in Nat /\ m < n
      BY <2>3, <2>5
    <3>2. m \notin bad
      BY <2>2, <3>1
    <3>3. PICK g \in [Small(m) -> Nat] : Works(g, m)
      BY <3>1, <3>2
    <3> DEFINE h == [T \in Small(n) |-> IF T = {} THEN 0 ELSE f[Chosen(T)] + g[T \ {Chosen(T)}]]
    <3>4. \A T \in Small(n) : T # {} => Chosen(T) \in S /\ T \ {Chosen(T)} \in Small(m)
      <4> SUFFICES ASSUME NEW T \in Small(n), T # {} PROVE Chosen(T) \in S /\ T \ {Chosen(T)} \in Small(m)
        OBVIOUS
      <4>1. Chosen(T) \in T
        BY ChosenIsIn
      <4>2. Cardinality(T \ {Chosen(T)}) = Cardinality(T) - 1
        BY <1>0, <4>1, FS_RemoveElement
      <4>3. Cardinality(T) - 1 <= m
        BY <1>0, <2>3
      <4> QED
        BY <4>1, <4>2, <4>3
    <3>5. \A T \in Small(m) : T \in Small(n) /\ h[T] = g[T]
      <4> SUFFICES ASSUME NEW T \in Small(m) PROVE T \in Small(n) /\ h[T] = g[T]
        OBVIOUS
      <4>1. T \in Small(n)
        BY <1>0, <2>3
      <4>2. g[T] = IF T = {} THEN 0 ELSE f[Chosen(T)] + g[T \ {Chosen(T)}]
        BY <3>3
      <4> QED
        BY <4>1, <4>2
    <3>6. h \in [Small(n) -> Nat]
      <4>1. \A T \in Small(n) : T # {} => f[Chosen(T)] \in Nat /\ g[T \ {Chosen(T)}] \in Nat
        BY <3>3, <3>4
      <4>2. \A T \in Small(n) : (IF T = {} THEN 0 ELSE f[Chosen(T)] + g[T \ {Chosen(T)}]) \in Nat
        BY <4>1
      <4> HIDE DEF Small
      <4> QED
        BY <4>2
    <3>7. Works(h, n)
      <4> SUFFICES ASSUME NEW T \in Small(n)
                   PROVE  h[T] = IF T = {} THEN 0 ELSE f[Chosen(T)] + h[T \ {Chosen(T)}]
        OBVIOUS
      <4>1. h[T] = IF T = {} THEN 0 ELSE f[Chosen(T)] + g[T \ {Chosen(T)}]
        OBVIOUS
      <4>2. T # {} => h[T \ {Chosen(T)}] = g[T \ {Chosen(T)}]
        BY <3>4, <3>5
      <4> HIDE DEF h
      <4> QED
        BY <4>1, <4>2
    <3> HIDE DEF h, Works, Small
    <3> QED
      BY <2>3, <3>6, <3>7
  <2> QED
    BY <2>4, <2>5
<1>2. PICK n \in Nat : n = Cardinality(S)
  BY FS_CardinalityType
<1>3. Small(n) = SUBSET S
  BY <1>0, <1>2, FS_Subset
<1>4. \E g \in [Small(n) -> Nat] : Works(g, n)
  BY <1>1
<1>5. \E iter : IsTable(iter, f, S)
  <2>1. PICK g \in [SUBSET S -> Nat] :
          \A T \in SUBSET S : g[T] = IF T = {} THEN 0 ELSE f[Chosen(T)] + g[T \ {Chosen(T)}]
    BY <1>3, <1>4
  <2> QED
    BY <2>1 DEF IsTable
<1> QED
  BY <1>5 DEF Table

\* In which order the elements are added does not matter.
LEMMA TableOrder ==
  ASSUME NEW S, IsFiniteSet(S), NEW f, \A x \in S : f[x] \in Nat
  PROVE  /\ Table(f, S)[{}] = 0
         /\ \A T \in SUBSET S :
              /\ Table(f, S)[T] \in Nat
              /\ \A x \in T : Table(f, S)[T] = f[x] + Table(f, S)[T \ {x}]
<1> DEFINE iter == Table(f, S)
           Adds(T) == iter[T] \in Nat /\ \A x \in T : iter[T] = f[x] + iter[T \ {x}]
           bad == {T \in SUBSET S : ~Adds(T)}
<1>1. /\ iter[{}] = 0
      /\ \A T \in SUBSET S : T # {} => iter[T] = f[Chosen(T)] + iter[T \ {Chosen(T)}]
  <2>1. IsTable(iter, f, S)
    BY TableExists
  <2> HIDE DEF iter
  <2>2. \A T \in SUBSET S : iter[T] = IF T = {} THEN 0 ELSE f[Chosen(T)] + iter[T \ {Chosen(T)}]
    BY <2>1 DEF IsTable
  <2>3. {} \in SUBSET S
    OBVIOUS
  <2> QED
    BY <2>2, <2>3
<1> HIDE DEF iter
<1>2. \A T \in SUBSET S : iter[T] \in Nat
  <2> DEFINE odd == {T \in SUBSET S : iter[T] \notin Nat}
  <2> SUFFICES ASSUME odd # {} PROVE FALSE
    OBVIOUS
  <2>0. odd \in SUBSET (SUBSET S)
    OBVIOUS
  <2>1. PICK T \in odd : \A x \in T : T \ {x} \notin odd
    <3> HIDE DEF odd
    <3> QED
      BY <2>0, SmallestBad
  <2>2. T \in SUBSET S /\ iter[T] \notin Nat
    OBVIOUS
  <2>3. T # {} /\ iter[T] = f[Chosen(T)] + iter[T \ {Chosen(T)}]
    <3>1. T # {}
      <4> SUFFICES ASSUME T = {} PROVE FALSE
        OBVIOUS
      <4>1. iter[T] = 0
        BY <1>1
      <4> QED
        BY <2>2, <4>1
    <3> QED
      BY <1>1, <2>2, <3>1
  <2>4. Chosen(T) \in T
    BY <2>3, ChosenIsIn
  <2>5. f[Chosen(T)] \in Nat /\ iter[T \ {Chosen(T)}] \in Nat
    BY <2>1, <2>2, <2>4
  <2> QED
    BY <2>2, <2>3, <2>5
<1>3. bad = {}
  <2> SUFFICES ASSUME bad # {} PROVE FALSE
    OBVIOUS
  <2>0. bad \in SUBSET (SUBSET S)
    OBVIOUS
  <2>1. PICK T \in bad : \A x \in T : T \ {x} \notin bad
    <3> HIDE DEF bad
    <3> QED
      BY <2>0, SmallestBad
  <2>2. T \in SUBSET S /\ \A x \in T : x \in S /\ T \ {x} \in SUBSET S /\ Adds(T \ {x})
    BY <2>1
  <2>3. PICK x \in T : iter[T] # f[x] + iter[T \ {x}]
    BY <1>2, <2>1
  <2> DEFINE c == Chosen(T)
  <2>4. c \in T /\ iter[T] = f[c] + iter[T \ {c}] /\ x # c
    BY <1>1, <2>2, <2>3, ChosenIsIn
  <2> HIDE DEF c
  <2>5. iter[T \ {c}] = f[x] + iter[(T \ {c}) \ {x}]
    BY <2>2, <2>4
  <2>6. iter[T \ {x}] = f[c] + iter[(T \ {c}) \ {x}]
    <3>1. iter[T \ {x}] = f[c] + iter[(T \ {x}) \ {c}]
      BY <2>2, <2>4
    <3>2. (T \ {x}) \ {c} = (T \ {c}) \ {x}
      OBVIOUS
    <3> QED
      BY <3>1, <3>2, Zenon
  <2>7. (T \ {c}) \ {x} \in SUBSET S
    BY <2>2
  <2>8. f[x] \in Nat /\ f[c] \in Nat /\ iter[T \ {x}] \in Nat /\ iter[(T \ {c}) \ {x}] \in Nat
    BY <1>2, <2>2, <2>4, <2>7
  <2> HIDE DEF bad, Adds
  <2> QED
    BY <2>3, <2>4, <2>5, <2>6, <2>8
<1>4. iter[{}] = 0
  BY <1>1
<1>5. \A T \in SUBSET S : Adds(T)
  BY <1>3
<1> QED
  BY <1>4, <1>5 DEF iter

\* A smaller set is read from the same table.
LEMMA TableOfPart ==
  ASSUME NEW S, IsFiniteSet(S), NEW f, \A x \in S : f[x] \in Nat, NEW R \in SUBSET S
  PROVE  SumOf(f, R) = Table(f, S)[R]
<1> DEFINE whole == Table(f, S)
           part == Table(f, R)
           bad == {T \in SUBSET R : whole[T] # part[T]}
<1>0. IsFiniteSet(R) /\ \A x \in R : f[x] \in Nat
  BY FS_Subset
<1>1. /\ whole[{}] = 0 /\ part[{}] = 0
      /\ \A T \in SUBSET R : \A x \in T : whole[T] = f[x] + whole[T \ {x}] /\ part[T] = f[x] + part[T \ {x}]
  BY <1>0, TableOrder
<1> HIDE DEF whole, part
<1>2. bad = {}
  <2> SUFFICES ASSUME bad # {} PROVE FALSE
    OBVIOUS
  <2>0. bad \in SUBSET (SUBSET R)
    OBVIOUS
  <2>1. PICK T \in bad : \A x \in T : T \ {x} \notin bad
    <3> HIDE DEF bad
    <3> QED
      BY <1>0, <2>0, SmallestBad
  <2>2. T \in SUBSET R /\ T # {} /\ whole[T] # part[T]
    BY <1>1
  <2>3. PICK x \in T : TRUE
    BY <2>2
  <2>4. whole[T \ {x}] = part[T \ {x}]
    BY <2>1, <2>2
  <2> QED
    BY <1>1, <2>2, <2>3, <2>4
<1>3. whole[R] = part[R]
  BY <1>2
<1> QED
  BY <1>3, SumIsTable DEF whole, part

\* How a sum over a finite set is taken apart.
LEMMA SumAdds ==
  ASSUME NEW S, IsFiniteSet(S), NEW f, \A x \in S : f[x] \in Nat
  PROVE  /\ SumOf(f, {}) = 0
         /\ SumOf(f, S) \in Nat
         /\ \A x \in S : SumOf(f, S) = f[x] + SumOf(f, S \ {x}) /\ SumOf(f, S \ {x}) \in Nat
<1>0. /\ Table(f, S)[{}] = 0
      /\ \A T \in SUBSET S :
           /\ Table(f, S)[T] \in Nat
           /\ \A x \in T : Table(f, S)[T] = f[x] + Table(f, S)[T \ {x}]
  BY TableOrder
<1>1. \A T \in SUBSET S : SumOf(f, T) = Table(f, S)[T]
  BY TableOfPart
<1>2. SumOf(f, {}) = 0 /\ SumOf(f, S) \in Nat
  <2>1. {} \in SUBSET S /\ S \in SUBSET S
    OBVIOUS
  <2>2. SumOf(f, {}) = Table(f, S)[{}] /\ SumOf(f, S) = Table(f, S)[S]
    BY <1>1, <2>1
  <2> QED
    BY <1>0, <2>1, <2>2
<1>3. ASSUME NEW x \in S PROVE SumOf(f, S) = f[x] + SumOf(f, S \ {x}) /\ SumOf(f, S \ {x}) \in Nat
  <2>1. S \in SUBSET S /\ S \ {x} \in SUBSET S
    OBVIOUS
  <2>2. Table(f, S)[S] = f[x] + Table(f, S)[S \ {x}] /\ Table(f, S)[S \ {x}] \in Nat
    BY <1>0, <2>1
  <2> QED
    BY <1>1, <2>1, <2>2
<1> QED
  BY <1>2, <1>3

\* Two sums over the same set, element by element.
LEMMA SumCompares ==
  ASSUME NEW S, IsFiniteSet(S), NEW f, NEW g, \A x \in S : f[x] \in Nat /\ g[x] \in Nat /\ f[x] <= g[x]
  PROVE  SumOf(f, S) <= SumOf(g, S)
<1> DEFINE bad == {T \in SUBSET S : ~(SumOf(f, T) <= SumOf(g, T))}
<1>1. bad = {}
  <2> SUFFICES ASSUME bad # {} PROVE FALSE
    OBVIOUS
  <2>0. bad \in SUBSET (SUBSET S)
    OBVIOUS
  <2>1. PICK T \in bad : \A x \in T : T \ {x} \notin bad
    <3> HIDE DEF bad
    <3> QED
      BY <2>0, SmallestBad
  <2>2. T \in SUBSET S /\ ~(SumOf(f, T) <= SumOf(g, T)) /\ IsFiniteSet(T)
    BY <2>1, FS_Subset
  <2>3. SumOf(f, {}) = 0 /\ SumOf(g, {}) = 0
    BY SumAdds
  <2>4. PICK x \in T : TRUE
    BY <2>2, <2>3
  <2>5. /\ SumOf(f, T) = f[x] + SumOf(f, T \ {x}) /\ SumOf(f, T \ {x}) \in Nat
        /\ SumOf(g, T) = g[x] + SumOf(g, T \ {x}) /\ SumOf(g, T \ {x}) \in Nat
    BY <2>2, <2>4, SumAdds
  <2>6. SumOf(f, T \ {x}) <= SumOf(g, T \ {x})
    BY <2>1, <2>2
  <2>7. f[x] \in Nat /\ g[x] \in Nat /\ f[x] <= g[x]
    BY <2>2
  <2> QED
    BY <2>2, <2>5, <2>6, <2>7
<1> QED
  BY <1>1

\* Sums of functions that agree on the set.
LEMMA SumSame ==
  ASSUME NEW S, IsFiniteSet(S), NEW f, NEW g, \A x \in S : f[x] \in Nat /\ f[x] = g[x]
  PROVE  SumOf(f, S) = SumOf(g, S)
<1>1. \A x \in S : f[x] \in Nat /\ g[x] \in Nat /\ f[x] <= g[x] /\ g[x] <= f[x]
  OBVIOUS
<1>2. SumOf(f, S) <= SumOf(g, S) /\ SumOf(g, S) <= SumOf(f, S)
  BY <1>1, SumCompares
<1>3. SumOf(f, S) \in Nat /\ SumOf(g, S) \in Nat
  BY <1>1, SumAdds
<1> QED
  BY <1>2, <1>3

\* One more at one element.
LEMMA SumOfUpdate ==
  ASSUME NEW S, IsFiniteSet(S), NEW f, NEW g, NEW e \in S,
         \A x \in S : f[x] \in Nat /\ g[x] = IF x = e THEN f[x] + 1 ELSE f[x]
  PROVE  SumOf(g, S) = SumOf(f, S) + 1
<1>1. \A x \in S : f[x] \in Nat /\ g[x] \in Nat
  OBVIOUS
<1>2. /\ SumOf(f, S) = f[e] + SumOf(f, S \ {e}) /\ SumOf(f, S \ {e}) \in Nat
      /\ SumOf(g, S) = g[e] + SumOf(g, S \ {e})
  BY <1>1, SumAdds
<1>3. IsFiniteSet(S \ {e}) /\ \A x \in S \ {e} : f[x] \in Nat /\ f[x] = g[x]
  BY FS_RemoveElement
<1>4. SumOf(f, S \ {e}) = SumOf(g, S \ {e})
  BY <1>3, SumSame
<1> QED
  BY <1>1, <1>2, <1>4

\* The sum over two sets that have nothing in common.
LEMMA SumOfUnion ==
  ASSUME NEW S, IsFiniteSet(S), NEW R, IsFiniteSet(R), S \cap R = {},
         NEW f, \A x \in S \cup R : f[x] \in Nat
  PROVE  SumOf(f, S \cup R) = SumOf(f, S) + SumOf(f, R)
<1> DEFINE bad == {T \in SUBSET R : SumOf(f, S \cup T) # SumOf(f, S) + SumOf(f, T)}
<1>1. bad = {}
  <2> SUFFICES ASSUME bad # {} PROVE FALSE
    OBVIOUS
  <2>0. bad \in SUBSET (SUBSET R)
    OBVIOUS
  <2>1. PICK T \in bad : \A x \in T : T \ {x} \notin bad
    <3> HIDE DEF bad
    <3> QED
      BY <2>0, SmallestBad
  <2>2. T \in SUBSET R /\ SumOf(f, S \cup T) # SumOf(f, S) + SumOf(f, T)
    OBVIOUS
  <2>3. IsFiniteSet(T) /\ IsFiniteSet(S \cup T)
    BY <2>2, FS_Subset, FS_Union
  <2>4. SumOf(f, {}) = 0 /\ SumOf(f, S) \in Nat /\ S \cup {} = S
    BY SumAdds
  <2>5. PICK x \in T : TRUE
    BY <2>2, <2>4
  <2>6. (S \cup T) \ {x} = S \cup (T \ {x})
    BY <2>2, <2>5
  <2>7. /\ SumOf(f, T) = f[x] + SumOf(f, T \ {x}) /\ SumOf(f, T \ {x}) \in Nat
        /\ SumOf(f, S \cup T) = f[x] + SumOf(f, (S \cup T) \ {x})
    BY <2>2, <2>3, <2>5, SumAdds
  <2>8. SumOf(f, S \cup (T \ {x})) = SumOf(f, S) + SumOf(f, T \ {x})
    BY <2>1, <2>2
  <2>9. f[x] \in Nat
    BY <2>2
  <2> QED
    BY <2>2, <2>4, <2>6, <2>7, <2>8, <2>9
<1> QED
  BY <1>1

\* Nothing adds up to nothing.
LEMMA SumOfZeros ==
  ASSUME NEW S, IsFiniteSet(S), NEW f, \A x \in S : f[x] = 0
  PROVE  SumOf(f, S) = 0
<1> DEFINE bad == {T \in SUBSET S : SumOf(f, T) # 0}
<1>1. bad = {}
  <2> SUFFICES ASSUME bad # {} PROVE FALSE
    OBVIOUS
  <2>0. bad \in SUBSET (SUBSET S)
    OBVIOUS
  <2>1. PICK T \in bad : \A x \in T : T \ {x} \notin bad
    <3> HIDE DEF bad
    <3> QED
      BY <2>0, SmallestBad
  <2>2. T \in SUBSET S /\ SumOf(f, T) # 0 /\ IsFiniteSet(T)
    BY <2>1, FS_Subset
  <2>3. SumOf(f, {}) = 0
    BY SumAdds
  <2>4. PICK x \in T : TRUE
    BY <2>2, <2>3
  <2>5. SumOf(f, T) = f[x] + SumOf(f, T \ {x})
    BY <2>2, <2>4, SumAdds
  <2> QED
    BY <2>1, <2>2, <2>5
<1> QED
  BY <1>1

\* Elements that count nothing may be left out, and no part is larger than the whole.
LEMMA SumOfPart ==
  ASSUME NEW S, IsFiniteSet(S), NEW R \in SUBSET S, NEW f, \A x \in S : f[x] \in Nat
  PROVE  /\ SumOf(f, R) <= SumOf(f, S)
         /\ (\A x \in S \ R : f[x] = 0) => SumOf(f, R) = SumOf(f, S)
<1>1. IsFiniteSet(R) /\ IsFiniteSet(S \ R) /\ R \cap (S \ R) = {} /\ R \cup (S \ R) = S
  BY FS_Subset
<1>2. SumOf(f, S) = SumOf(f, R) + SumOf(f, S \ R)
  BY <1>1, SumOfUnion
<1>3. SumOf(f, R) \in Nat /\ SumOf(f, S \ R) \in Nat
  BY <1>1, SumAdds
<1>4. ASSUME \A x \in S \ R : f[x] = 0 PROVE SumOf(f, S \ R) = 0
  BY <1>1, <1>4, SumOfZeros
<1> QED
  BY <1>2, <1>3, <1>4
=============================================================================
