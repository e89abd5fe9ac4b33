---------------------------- MODULE SetsAndQueues ----------------------------
(***************************************************************************)
(* Least and greatest elements of sets of natural numbers, queues that     *)
(* elements leave, and sums over finite sets, for the proofs of the other  *)
(* modules.                                                                *)
(***************************************************************************)
EXTENDS Integers, SequencesExt, TLAPS, FiniteSetTheorems, WellFoundedInduction

(* A set of numbers that is not empty has a least element. *)
LEMMA NatHasLeast ==
    ASSUME NEW S \in SUBSET Nat, S # {}
    PROVE  \E m \in S : \A x \in S : m <= x
<1>1. \E m \in S : \A x \in S : <<x, m>> \notin OpToRel(<, Nat)
    BY NatLessThanWellFounded, WFMin
<1>2. PICK m \in S : \A x \in S : <<x, m>> \notin OpToRel(<, Nat)
    BY <1>1
<1>3. \A x \in S : ~ (x < m)
    BY <1>2 DEF OpToRel
<1>4. QED
    BY <1>3

(* A finite set of numbers has an upper bound: take the n below or at      *)
(* which it has as many elements as it can.                                *)
LEMMA FiniteHasBound ==
    ASSUME NEW S \in SUBSET Nat, IsFiniteSet(S)
    PROVE  \E n \in Nat : \A x \in S : x <= n
<1> DEFINE Upto(n) == S \cap (0..n)
           missing(n) == Cardinality(S) - Cardinality(Upto(n))
           M == {missing(n) : n \in Nat}
<1>1. \A n \in Nat : /\ IsFiniteSet(Upto(n))
                     /\ Cardinality(Upto(n)) \in Nat
                     /\ Cardinality(Upto(n)) <= Cardinality(S)
    BY FS_Subset, FS_CardinalityType
<1>2. Cardinality(S) \in Nat
    BY FS_CardinalityType
<1>3. \A n \in Nat : missing(n) \in Nat
    <2>1. ASSUME NEW n \in Nat PROVE missing(n) \in Nat
        <3> HIDE DEF Upto
        <3>1. QED
            BY <1>1, <1>2
    <2>2. QED
        BY <2>1
<1> HIDE DEF missing
<1>4. M \in SUBSET Nat /\ M # {}
    BY <1>3
<1>5. PICK k \in M : \A x \in M : k <= x
    BY <1>4, NatHasLeast
<1>6. PICK n \in Nat : k = missing(n)
    BY <1>5
<1>7. ASSUME NEW y \in S, y > n
      PROVE  FALSE
    <2>1. y \in Nat /\ Upto(n) \subseteq Upto(y) /\ Upto(n) # Upto(y)
        BY <1>6, <1>7
    <2>2. Cardinality(Upto(n)) <= Cardinality(Upto(y))
        BY <2>1, <1>1, FS_Subset
    <2>3. Cardinality(Upto(n)) # Cardinality(Upto(y))
        BY <2>1, <1>1, FS_Subset
    <2>4. missing(y) < missing(n)
        <3> HIDE DEF Upto
        <3>1. QED
            BY <2>1, <2>2, <2>3, <1>1, <1>2 DEF missing
    <2>5. missing(y) \in M
        BY <2>1
    <2>6. QED
        BY <2>4, <2>5, <1>4, <1>5, <1>6
<1>8. QED
    BY <1>6, <1>7

(* Max and Min are what their names say. *)
LEMMA MaxOfFinite ==
    ASSUME NEW S \in SUBSET Nat, IsFiniteSet(S), S # {}
    PROVE  Max(S) \in S /\ \A x \in S : x <= Max(S)
<1> DEFINE B == {n \in Nat : \A x \in S : x <= n}
<1>1. B # {}
    BY FiniteHasBound
<1>2. PICK b \in B : \A n \in B : b <= n
    BY <1>1, NatHasLeast
<1>3. b \in S
    <2>1. SUFFICES ASSUME b \notin S PROVE FALSE
        OBVIOUS
    <2>2. \A x \in S : x < b
        BY <1>2, <2>1
    <2>3. b - 1 \in B
        <3>1. PICK x \in S : TRUE
            OBVIOUS
        <3>2. QED
            BY <3>1, <2>2, <1>2
    <2>4. QED
        BY <2>3, <1>2
<1>4. \E x \in S : \A y \in S : x >= y
    BY <1>2, <1>3
<1>5. QED
    BY <1>4 DEF Max

(* The least element of a set of numbers that is not empty is in it. *)
LEMMA MinOfNats ==
    ASSUME NEW S \in SUBSET Nat, S # {}
    PROVE  Min(S) \in S /\ \A x \in S : Min(S) <= x
    BY NatHasLeast DEF Min

-----------------------------------------------------------------------------
(* Queues that hold nothing twice *)

EachOnce(ws) == \A i, j \in 1..Len(ws) : ws[i] = ws[j] => i = j

(* SelectInSeq finds a place where there is one.                           *)
LEMMA PlaceFound ==
    ASSUME NEW S, NEW ws \in Seq(S), NEW o, \E i \in 1..Len(ws) : ws[i] = o
    PROVE  LET k == SelectInSeq(ws, LAMBDA v : v = o)
           IN  k \in 1..Len(ws) /\ ws[k] = o
<1> DEFINE I == {i \in 1..Len(ws) : ws[i] = o}
<1>1. I \in SUBSET Nat /\ I # {}
    OBVIOUS
<1>2. Min(I) \in I
    BY <1>1, MinOfNats
<1>3. QED
    BY <1>1, <1>2 DEF SelectInSeq

(* What is left of a queue that o has left: the others, each once.         *)
LEMMA Left ==
    ASSUME NEW S, NEW ws \in Seq(S), EachOnce(ws), NEW o
    PROVE  LET rest == RemoveFirst(ws, o)
           IN  /\ rest \in Seq(S)
               /\ EachOnce(rest)
               /\ \A i \in 1..Len(rest) : rest[i] # o /\ \E j \in 1..Len(ws) : rest[i] = ws[j]
<1> DEFINE rest == RemoveFirst(ws, o)
<1>1. CASE \E i \in 1..Len(ws) : ws[i] = o
    <2> DEFINE k == SelectInSeq(ws, LAMBDA v : v = o)
    <2>1. k \in 1..Len(ws) /\ ws[k] = o
        BY <1>1, PlaceFound
    <2>2. rest = SubSeq(ws, 1, k - 1) \o SubSeq(ws, k + 1, Len(ws))
        BY <1>1 DEF RemoveFirst, RemoveAt
    <2> HIDE DEF k, rest
    <2>3. /\ rest \in Seq(S)
          /\ Len(rest) = Len(ws) - 1
          /\ \A i \in 1..Len(rest) : rest[i] = ws[IF i < k THEN i ELSE i + 1]
        <3> DEFINE front == SubSeq(ws, 1, k - 1)
                   back == SubSeq(ws, k + 1, Len(ws))
        <3>1. front \in Seq(S) /\ Len(front) = k - 1 /\ \A i \in 1..(k - 1) : front[i] = ws[i]
            BY <2>1
        <3>2. back \in Seq(S) /\ Len(back) = Len(ws) - k /\ \A i \in 1..(Len(ws) - k) : back[i] = ws[k + i]
            BY <2>1
        <3>3. rest = front \o back
            BY <2>2
        <3> HIDE DEF front, back
        <3>4. rest \in Seq(S) /\ Len(rest) = Len(ws) - 1
            BY <2>1, <3>1, <3>2, <3>3
        <3>5. ASSUME NEW i \in 1..Len(rest)
              PROVE  rest[i] = ws[IF i < k THEN i ELSE i + 1]
            <4>1. rest[i] = IF i <= Len(front) THEN front[i] ELSE back[i - Len(front)]
                BY <3>1, <3>2, <3>3, <3>4
            <4>2. CASE i < k
                BY <2>1, <3>1, <3>4, <4>1, <4>2
            <4>3. CASE ~(i < k)
                <5>1. i - (k - 1) \in 1..(Len(ws) - k) /\ k + (i - (k - 1)) = i + 1
                    BY <2>1, <3>4, <4>3
                <5>2. QED
                    BY <2>1, <3>1, <3>2, <4>1, <4>3, <5>1
            <4>4. QED
                BY <4>2, <4>3
        <3>6. QED
            BY <3>4, <3>5
    <2>4. \A i \in 1..Len(rest) : (IF i < k THEN i ELSE i + 1) \in 1..Len(ws) \ {k}
        BY <2>1, <2>3
    <2>5. EachOnce(rest)
        BY <2>1, <2>3, <2>4 DEF EachOnce
    <2>6. \A i \in 1..Len(rest) : rest[i] # o
        BY <2>1, <2>3, <2>4 DEF EachOnce
    <2>7. QED
        BY <2>3, <2>4, <2>5, <2>6 DEF rest
<1>2. CASE ~ \E i \in 1..Len(ws) : ws[i] = o
    BY <1>2 DEF RemoveFirst
<1>3. QED
    BY <1>1, <1>2

-----------------------------------------------------------------------------
(* Sums *)

(* How SumFunction adds up: one element after the other, as chosen. *)
Some(s) == CHOOSE x \in s : TRUE

AddsUp(sum, f, D) ==
    sum = [s \in SUBSET D |-> IF s = {} THEN 0 ELSE f[Some(s)] + sum[s \ {Some(s)}]]

LEMMA SomeOf ==
    ASSUME NEW s, IsFiniteSet(s), s # {}
    PROVE  /\ Some(s) \in s
           /\ IsFiniteSet(s \ {Some(s)})
           /\ Cardinality(s) \in Nat \ {0}
           /\ Cardinality(s \ {Some(s)}) = Cardinality(s) - 1
<1>1. Some(s) \in s
    BY DEF Some
<1>2. Cardinality(s) \in Nat /\ Cardinality(s) # 0
    BY FS_CardinalityType, FS_EmptySet
<1>3. QED
    BY <1>1, <1>2, FS_RemoveElement

(* There is such a function: on sets of up to n elements, whatever n is.   *)
LEMMA AddsUpExists ==
    ASSUME NEW D, IsFiniteSet(D), NEW f \in [D -> Int]
    PROVE  \E sum : AddsUp(sum, f, D)
<1> DEFINE Small(n) == {s \in SUBSET D : Cardinality(s) <= n}
           Good(n) == \E sum \in [Small(n) -> Int] :
                        \A s \in Small(n) :
                            sum[s] = IF s = {} THEN 0 ELSE f[Some(s)] + sum[s \ {Some(s)}]
           Bad == {n \in Nat : ~Good(n)}
<1>0. \A s \in SUBSET D : IsFiniteSet(s) /\ Cardinality(s) \in Nat /\ Cardinality(s) <= Cardinality(D)
    BY FS_Subset, FS_CardinalityType
<1>1. Good(0)
    <2>1. \A s \in Small(0) : s = {}
        BY <1>0, FS_EmptySet
    <2>2. [s \in Small(0) |-> 0] \in [Small(0) -> Int]
        OBVIOUS
    <2>3. QED
        BY <2>1, <2>2
<1>2. ASSUME NEW n \in Nat, Good(n)
      PROVE  Good(n + 1)
    <2>1. PICK old \in [Small(n) -> Int] :
                \A s \in Small(n) :
                    old[s] = IF s = {} THEN 0 ELSE f[Some(s)] + old[s \ {Some(s)}]
        BY <1>2
    <2>2. \A s \in Small(n + 1) : s # {} => f[Some(s)] \in Int /\ s \ {Some(s)} \in Small(n)
        <3>1. ASSUME NEW s \in Small(n + 1), s # {}
              PROVE  f[Some(s)] \in Int /\ s \ {Some(s)} \in Small(n)
            <4>1. Some(s) \in s /\ Cardinality(s \ {Some(s)}) = Cardinality(s) - 1
                BY <3>1, <1>0, SomeOf
            <4>2. QED
                BY <3>1, <4>1, <1>0
        <3>2. QED
            BY <3>1
    <2> DEFINE new == [s \in Small(n + 1) |-> IF s = {} THEN 0 ELSE f[Some(s)] + old[s \ {Some(s)}]]
    <2>3. new \in [Small(n + 1) -> Int]
        <3> HIDE DEF Small
        <3>1. QED
            BY <2>1, <2>2
    <2>4. Small(n) \subseteq Small(n + 1)
        BY <1>0
    <2>5. \A s \in Small(n) : new[s] = old[s]
        <3> HIDE DEF Small
        <3>1. QED
            BY <2>1, <2>4
    <2>6. \A s \in Small(n + 1) :
                new[s] = IF s = {} THEN 0 ELSE f[Some(s)] + new[s \ {Some(s)}]
        <3> HIDE DEF Small
        <3>1. QED
            BY <2>2, <2>5
    <2>7. QED
        BY <2>3, <2>6
<1>3. Good(Cardinality(D))
    <2> HIDE DEF Good
    <2>1. SUFFICES Bad = {}
        BY FS_CardinalityType
    <2>2. SUFFICES ASSUME Bad # {} PROVE FALSE
        OBVIOUS
    <2>3. PICK m \in Bad : \A x \in Bad : m <= x
        BY <2>2, NatHasLeast
    <2>4. m # 0 /\ m \in Nat /\ m - 1 \in Nat
        BY <2>3, <1>1
    <2>5. Good(m - 1)
        BY <2>3, <2>4
    <2>6. Good(m - 1 + 1)
        BY <2>4, <2>5, <1>2
    <2>7. m - 1 + 1 = m
        BY <2>4
    <2>8. QED
        BY <2>3, <2>6, <2>7
<1>4. Small(Cardinality(D)) = SUBSET D
    BY <1>0
<1>5. PICK sum \in [SUBSET D -> Int] :
            \A s \in SUBSET D :
                sum[s] = IF s = {} THEN 0 ELSE f[Some(s)] + sum[s \ {Some(s)}]
    <2> HIDE DEF Small
    <2>1. QED
        BY <1>3, <1>4
<1>6. sum = [s \in SUBSET D |-> IF s = {} THEN 0 ELSE f[Some(s)] + sum[s \ {Some(s)}]]
    BY <1>5
<1>7. QED
    BY <1>6 DEF AddsUp

(* The one that SumFunction takes. *)
LEMMA SumAddsUp ==
    ASSUME NEW D, IsFiniteSet(D), NEW f \in [D -> Int]
    PROVE  \E sum : AddsUp(sum, f, D) /\ SumFunction(f) = sum[D]
<1>1. SumFunction(f) = (CHOOSE sum : AddsUp(sum, f, DOMAIN f))[DOMAIN f]
    BY DEF SumFunction, SumFunctionOnSet, FoldFunctionOnSet, MapThenFoldSet, AddsUp, Some
<1>2. DOMAIN f = D
    OBVIOUS
<1>3. QED
    BY <1>1, <1>2, AddsUpExists

(* Of sets of subsets one has the fewest elements. *)
LEMMA SmallestOf ==
    ASSUME NEW D, IsFiniteSet(D), NEW P \in SUBSET SUBSET D, P # {}
    PROVE  \E s \in P : \A t \in P : ~ (Cardinality(t) = Cardinality(s) - 1)
<1> DEFINE Sizes == {Cardinality(s) : s \in P}
<1>1. \A s \in P : Cardinality(s) \in Nat
    BY FS_Subset, FS_CardinalityType
<1>2. Sizes \in SUBSET Nat /\ Sizes # {}
    BY <1>1
<1>3. PICK n \in Sizes : \A k \in Sizes : n <= k
    <2> HIDE DEF Sizes
    <2>1. QED
        BY <1>2, NatHasLeast
<1>4. PICK s \in P : n = Cardinality(s)
    BY <1>3
<1>5. \A t \in P : Cardinality(s) <= Cardinality(t)
    BY <1>3, <1>4
<1>6. QED
    BY <1>1, <1>5

LEMMA SumIsInt ==
    ASSUME NEW D, IsFiniteSet(D), NEW f \in [D -> Int], NEW sum, AddsUp(sum, f, D)
    PROVE  \A s \in SUBSET D : sum[s] \in Int
<1> DEFINE Odd == {s \in SUBSET D : sum[s] \notin Int}
<1>1. \A s \in SUBSET D : IsFiniteSet(s)
    BY FS_Subset
<1>2. \A s \in SUBSET D : sum[s] = IF s = {} THEN 0 ELSE f[Some(s)] + sum[s \ {Some(s)}]
    BY DEF AddsUp
<1>3. SUFFICES ASSUME Odd # {} PROVE FALSE
    OBVIOUS
<1>4. PICK s \in Odd : \A t \in Odd : ~ (Cardinality(t) = Cardinality(s) - 1)
    BY <1>3, SmallestOf
<1>5. s # {}
    <2>1. s \in SUBSET D /\ sum[s] \notin Int
        OBVIOUS
    <2>2. sum[{}] = 0
        BY <1>2
    <2>3. QED
        BY <2>1, <2>2
<1>6. Some(s) \in s /\ Cardinality(s \ {Some(s)}) = Cardinality(s) - 1
    BY <1>1, <1>5, SomeOf
<1>7. sum[s \ {Some(s)}] \in Int
    BY <1>4, <1>6
<1>8. f[Some(s)] \in Int
    BY <1>6
<1>9. sum[s] = f[Some(s)] + sum[s \ {Some(s)}]
    BY <1>2, <1>5
<1>10. QED
    BY <1>7, <1>8, <1>9

(* Whichever element is taken away first. *)
LEMMA SumAnyOrder ==
    ASSUME NEW D, IsFiniteSet(D), NEW f \in [D -> Int], NEW sum, AddsUp(sum, f, D),
           NEW s \in SUBSET D, NEW x \in s
    PROVE  sum[s] = f[x] + sum[s \ {x}]
<1> DEFINE Odd == {t \in SUBSET D : \E y \in t : sum[t] # f[y] + sum[t \ {y}]}
<1>1. \A t \in SUBSET D : IsFiniteSet(t)
    BY FS_Subset
<1>2. \A t \in SUBSET D : t # {} => sum[t] = f[Some(t)] + sum[t \ {Some(t)}]
    BY DEF AddsUp
<1>3. SUFFICES ASSUME Odd # {} PROVE FALSE
    OBVIOUS
<1>4. PICK t \in Odd : \A u \in Odd : ~ (Cardinality(u) = Cardinality(t) - 1)
    BY <1>3, SmallestOf
<1>5. PICK y \in t : sum[t] # f[y] + sum[t \ {y}]
    BY <1>4
<1>6. PICK z : z = Some(t)
    OBVIOUS
<1>7. z \in t /\ z # y
    BY <1>1, <1>2, <1>5, <1>6, SomeOf
<1>8. \A u \in t : t \ {u} \notin Odd
    <2>1. \A u \in t : Cardinality(t \ {u}) = Cardinality(t) - 1
        BY <1>1, FS_RemoveElement
    <2>2. QED
        BY <1>4, <2>1
<1>9. sum[t \ {y}] = f[z] + sum[(t \ {y}) \ {z}]
    BY <1>5, <1>7, <1>8
<1>10. sum[t \ {z}] = f[y] + sum[(t \ {z}) \ {y}]
    BY <1>5, <1>7, <1>8
<1>11. (t \ {z}) \ {y} = (t \ {y}) \ {z}
    OBVIOUS
<1>12. sum[t] = f[z] + sum[t \ {z}]
    BY <1>2, <1>5, <1>6
<1>13. f[y] \in Int /\ f[z] \in Int
    BY <1>5, <1>7
<1>14. sum[(t \ {y}) \ {z}] \in Int
    BY SumIsInt
<1>15. PICK rest, fy, fz : rest = sum[(t \ {y}) \ {z}] /\ fy = f[y] /\ fz = f[z]
    OBVIOUS
<1>16. sum[t] = fz + (fy + rest) /\ sum[t \ {y}] = fz + rest
    BY <1>9, <1>10, <1>11, <1>12, <1>15
<1>17. fz + (fy + rest) = fy + (fz + rest)
    BY <1>13, <1>14, <1>15
<1>18. QED
    BY <1>5, <1>15, <1>16, <1>17

(* Functions that agree on a set have the same sum of it. *)
LEMMA SumAgrees ==
    ASSUME NEW D, IsFiniteSet(D), NEW f \in [D -> Int], NEW sum, AddsUp(sum, f, D),
           NEW E, NEW g \in [E -> Int], NEW other, AddsUp(other, g, E),
           NEW s \in SUBSET D, s \subseteq E, \A x \in s : f[x] = g[x]
    PROVE  sum[s] = other[s]
<1> DEFINE Odd == {t \in SUBSET s : sum[t] # other[t]}
<1>1. IsFiniteSet(s) /\ \A t \in SUBSET s : IsFiniteSet(t)
    BY FS_Subset
<1>2. \A t \in SUBSET s :
            /\ sum[t] = IF t = {} THEN 0 ELSE f[Some(t)] + sum[t \ {Some(t)}]
            /\ other[t] = IF t = {} THEN 0 ELSE g[Some(t)] + other[t \ {Some(t)}]
    BY DEF AddsUp
<1>3. SUFFICES ASSUME Odd # {} PROVE FALSE
    OBVIOUS
<1>4. PICK t \in Odd : \A u \in Odd : ~ (Cardinality(u) = Cardinality(t) - 1)
    BY <1>1, <1>3, SmallestOf
<1>5. t # {}
    BY <1>2
<1>6. Some(t) \in t /\ Cardinality(t \ {Some(t)}) = Cardinality(t) - 1
    BY <1>1, <1>5, SomeOf
<1>7. sum[t \ {Some(t)}] = other[t \ {Some(t)}]
    BY <1>4, <1>6
<1>8. QED
    BY <1>2, <1>4, <1>5, <1>6, <1>7

(* The sum over a set, and over the same without one element.              *)
LEMMA SumSplits ==
    ASSUME NEW D, IsFiniteSet(D), NEW f \in [D -> Int], NEW x \in D,
           NEW g \in [D \ {x} -> Int], \A y \in D \ {x} : g[y] = f[y]
    PROVE  SumFunction(f) = SumFunction(g) + f[x]
<1>0. IsFiniteSet(D \ {x})
    BY FS_RemoveElement
<1>1. PICK sum : AddsUp(sum, f, D) /\ SumFunction(f) = sum[D]
    BY SumAddsUp
<1>2. PICK other : AddsUp(other, g, D \ {x}) /\ SumFunction(g) = other[D \ {x}]
    BY <1>0, SumAddsUp
<1>3. sum[D] = f[x] + sum[D \ {x}]
    BY <1>1, SumAnyOrder
<1>4. sum[D \ {x}] = other[D \ {x}]
    BY <1>0, <1>1, <1>2, SumAgrees
<1>5. sum[D \ {x}] \in Int /\ f[x] \in Int
    <2>1. \A s \in SUBSET D : sum[s] \in Int
        BY <1>1, SumIsInt
    <2>2. QED
        BY <2>1
<1>6. QED
    BY <1>1, <1>2, <1>3, <1>4, <1>5

LEMMA SumType ==
    ASSUME NEW D, IsFiniteSet(D), NEW f \in [D -> Int]
    PROVE  SumFunction(f) \in Int
<1>1. PICK sum : AddsUp(sum, f, D) /\ SumFunction(f) = sum[D]
    BY SumAddsUp
<1>2. \A s \in SUBSET D : sum[s] \in Int
    BY <1>1, SumIsInt
<1>3. QED
    BY <1>1, <1>2

LEMMA SumOfNothing ==
    ASSUME NEW f, DOMAIN f = {}
    PROVE  SumFunction(f) = 0
<1>1. f \in [{} -> Int] /\ IsFiniteSet({})
    BY FS_EmptySet
<1>2. PICK sum : AddsUp(sum, f, {}) /\ SumFunction(f) = sum[{}]
    BY <1>1, SumAddsUp
<1>3. QED
    BY <1>2 DEF AddsUp


(* Moving the elements elsewhere, each to a place of its own, with what    *)
(* they have, leaves the sum as it is.                                     *)
LEMMA SumMoves ==
    ASSUME NEW D, IsFiniteSet(D), NEW f \in [D -> Int],
           NEW E, NEW g \in [E -> Int], NEW to \in [D -> E],
           \A x, y \in D : to[x] = to[y] => x = y,
           \A e \in E : \E x \in D : to[x] = e,
           \A x \in D : g[to[x]] = f[x]
    PROVE  SumFunction(g) = SumFunction(f)
<1> DEFINE Image(s) == {to[x] : x \in s}
<1>1. \A s \in SUBSET D : IsFiniteSet(s) /\ IsFiniteSet(Image(s))
    <2>1. ASSUME NEW s \in SUBSET D
          PROVE  IsFiniteSet(s) /\ IsFiniteSet(Image(s))
        <3>1. IsFiniteSet(s)
            BY FS_Subset
        <3>2. PICK h : h = [x \in s |-> to[x]]
            OBVIOUS
        <3>3. h \in Surjection(s, Image(s))
            BY <3>2 DEF Surjection
        <3>4. QED
            BY <3>1, <3>3, FS_Surjection
    <2>2. QED
        BY <2>1
<1>2. Image(D) = E /\ \A s \in SUBSET D : Image(s) \in SUBSET E
    OBVIOUS
<1>3. IsFiniteSet(E)
    BY <1>1, <1>2
<1>4. PICK sum : AddsUp(sum, f, D) /\ SumFunction(f) = sum[D]
    BY SumAddsUp
<1>5. PICK other : AddsUp(other, g, E) /\ SumFunction(g) = other[E]
    BY <1>3, SumAddsUp
<1> DEFINE Odd == {s \in SUBSET D : other[Image(s)] # sum[s]}
<1>6. SUFFICES ASSUME Odd # {} PROVE FALSE
    BY <1>2, <1>4, <1>5
<1>7. PICK s \in Odd : \A t \in Odd : ~ (Cardinality(t) = Cardinality(s) - 1)
    <2>1. Odd \in SUBSET SUBSET D
        OBVIOUS
    <2> HIDE DEF Odd
    <2>2. QED
        BY <1>6, <2>1, SmallestOf
<1>8. s # {}
    <2>1. sum[{}] = 0 /\ other[{}] = 0
        BY <1>4, <1>5 DEF AddsUp
    <2>2. Image({}) = {}
        OBVIOUS
    <2>3. s \in SUBSET D /\ other[Image(s)] # sum[s]
        OBVIOUS
    <2>4. QED
        BY <2>1, <2>2, <2>3
<1>9. PICK x \in s : TRUE
    BY <1>8
<1>10. Image(s \ {x}) = Image(s) \ {to[x]} /\ to[x] \in Image(s)
    OBVIOUS
<1>11. other[Image(s \ {x})] = sum[s \ {x}]
    <2>1. Cardinality(s \ {x}) = Cardinality(s) - 1
        BY <1>1, FS_RemoveElement
    <2>2. s \ {x} \in SUBSET D /\ s \ {x} \notin Odd
        BY <1>7, <2>1
    <2>3. QED
        BY <2>2
<1> HIDE DEF Image
<1>12. sum[s] = f[x] + sum[s \ {x}]
    BY <1>4, SumAnyOrder
<1>13. other[Image(s)] = g[to[x]] + other[Image(s) \ {to[x]}]
    <2>1. Image(s) \in SUBSET E
        BY <1>2
    <2>2. QED
        BY <1>3, <1>5, <1>10, <2>1, SumAnyOrder
<1>14. g[to[x]] = f[x]
    OBVIOUS
<1>15. other[Image(s)] = sum[s]
    BY <1>10, <1>11, <1>12, <1>13, <1>14
<1>16. QED
    BY <1>15


(* The sum of what is not negative is not negative. *)
LEMMA SumIsNat ==
    ASSUME NEW D, IsFiniteSet(D), NEW f \in [D -> Nat], NEW sum, AddsUp(sum, f, D)
    PROVE  \A s \in SUBSET D : sum[s] \in Nat
<1> DEFINE Odd == {s \in SUBSET D : sum[s] \notin Nat}
<1>1. \A s \in SUBSET D : IsFiniteSet(s)
    BY FS_Subset
<1>2. \A s \in SUBSET D : sum[s] = IF s = {} THEN 0 ELSE f[Some(s)] + sum[s \ {Some(s)}]
    BY DEF AddsUp
<1>3. SUFFICES ASSUME Odd # {} PROVE FALSE
    OBVIOUS
<1>4. PICK s \in Odd : \A t \in Odd : ~ (Cardinality(t) = Cardinality(s) - 1)
    BY <1>3, SmallestOf
<1>5. s # {}
    <2>1. s \in SUBSET D /\ sum[s] \notin Nat
        OBVIOUS
    <2>2. sum[{}] = 0
        BY <1>2
    <2>3. QED
        BY <2>1, <2>2
<1>6. Some(s) \in s /\ Cardinality(s \ {Some(s)}) = Cardinality(s) - 1
    BY <1>1, <1>5, SomeOf
<1>7. sum[s \ {Some(s)}] \in Nat
    BY <1>4, <1>6
<1>8. f[Some(s)] \in Nat
    BY <1>6
<1>9. sum[s] = f[Some(s)] + sum[s \ {Some(s)}]
    BY <1>2, <1>5
<1>10. QED
    BY <1>7, <1>8, <1>9

(* However the elements are taken one after the other, the sum is the same. *)
LEMMA SumAnyWay ==
    ASSUME NEW D, IsFiniteSet(D), NEW f \in [D -> Int], NEW other,
           other[{}] = 0,
           \A s \in SUBSET D : s # {} => \E x \in s : other[s] = other[s \ {x}] + f[x]
    PROVE  SumFunction(f) = other[D]
<1>1. PICK sum : AddsUp(sum, f, D) /\ SumFunction(f) = sum[D]
    BY SumAddsUp
<1>2. \A s \in SUBSET D : sum[s] \in Int
    BY <1>1, SumIsInt
<1>3. \A s \in SUBSET D : IsFiniteSet(s)
    BY FS_Subset
<1> DEFINE Odd == {s \in SUBSET D : other[s] # sum[s]}
<1>4. SUFFICES ASSUME Odd # {} PROVE FALSE
    BY <1>1
<1>5. PICK s \in Odd : \A t \in Odd : ~ (Cardinality(t) = Cardinality(s) - 1)
    <2>1. Odd \in SUBSET SUBSET D
        OBVIOUS
    <2> HIDE DEF Odd
    <2>2. QED
        BY <1>4, <2>1, SmallestOf
<1>6. s # {}
    <2>1. sum[{}] = 0
        BY <1>1 DEF AddsUp
    <2>2. QED
        BY <2>1
<1>7. PICK x \in s : other[s] = other[s \ {x}] + f[x]
    BY <1>6
<1>8. other[s \ {x}] = sum[s \ {x}]
    <2>1. Cardinality(s \ {x}) = Cardinality(s) - 1
        BY <1>3, FS_RemoveElement
    <2>2. s \ {x} \in SUBSET D /\ s \ {x} \notin Odd
        BY <1>5, <2>1
    <2>3. QED
        BY <2>2
<1>9. sum[s] = f[x] + sum[s \ {x}]
    <2>1. s \in SUBSET D
        OBVIOUS
    <2> HIDE DEF Odd
    <2>2. QED
        BY <1>1, <2>1, SumAnyOrder
<1>10. f[x] \in Int /\ sum[s \ {x}] \in Int
    BY <1>2
<1>11. other[s] = sum[s]
    BY <1>7, <1>8, <1>9, <1>10
<1>12. QED
    BY <1>11

(* Elements that stand each for one of their own elsewhere, with no more   *)
(* than that one has, sum up to no more; the others have nothing.          *)
LEMMA SumBelow ==
    ASSUME NEW D, IsFiniteSet(D), NEW f \in [D -> Nat],
           NEW E, IsFiniteSet(E), NEW g \in [E -> Nat],
           NEW own \in SUBSET D, NEW to \in [own -> E],
           \A x, y \in own : to[x] = to[y] => x = y,
           \A x \in own : f[x] <= g[to[x]],
           \A x \in D \ own : f[x] = 0
    PROVE  SumFunction(f) <= SumFunction(g)
<1>1. f \in [D -> Int] /\ g \in [E -> Int]
    OBVIOUS
<1>2. PICK sum : AddsUp(sum, f, D) /\ SumFunction(f) = sum[D]
    BY <1>1, SumAddsUp
<1>3. PICK other : AddsUp(other, g, E) /\ SumFunction(g) = other[E]
    BY <1>1, SumAddsUp
<1>4. (\A s \in SUBSET D : sum[s] \in Int) /\ (\A s \in SUBSET E : other[s] \in Int)
    <2>1. \A s \in SUBSET D : sum[s] \in Int
        BY <1>1, <1>2, SumIsInt
    <2>2. \A s \in SUBSET E : other[s] \in Int
        BY <1>1, <1>3, SumIsInt
    <2>3. QED
        BY <2>1, <2>2
<1> DEFINE Above(s) == {e \in E : \E x \in s \cap own : to[x] = e}
           Odd == {s \in SUBSET D : ~ (\A t \in SUBSET E : Above(s) \subseteq t => sum[s] <= other[t])}
<1>5. SUFFICES ASSUME Odd # {} PROVE FALSE
    <2>1. D \notin Odd => sum[D] <= other[E]
        OBVIOUS
    <2> HIDE DEF Odd
    <2>2. QED
        BY <1>2, <1>3, <2>1
<1>6. PICK s \in Odd : \A u \in Odd : ~ (Cardinality(u) = Cardinality(s) - 1)
    <2>1. Odd \in SUBSET SUBSET D
        OBVIOUS
    <2> HIDE DEF Odd
    <2>2. QED
        BY <1>5, <2>1, SmallestOf
<1>7. PICK t \in SUBSET E : Above(s) \subseteq t /\ ~ (sum[s] <= other[t])
    OBVIOUS
<1>8. other[t] >= 0
    BY <1>3, <1>7, SumIsNat
<1>9. s # {}
    <2>1. sum[{}] = 0
        BY <1>2 DEF AddsUp
    <2>2. QED
        BY <1>4, <1>7, <1>8, <2>1
<1>10. PICK x \in s : TRUE
    BY <1>9
<1>11. IsFiniteSet(s) /\ s \ {x} \in SUBSET D /\ Cardinality(s \ {x}) = Cardinality(s) - 1
    BY FS_Subset, FS_RemoveElement
<1>12. \A u \in SUBSET E : Above(s \ {x}) \subseteq u => sum[s \ {x}] <= other[u]
    <2>1. s \ {x} \notin Odd
        BY <1>6, <1>11
    <2>2. QED
        BY <1>11, <2>1
<1>13. sum[s] = f[x] + sum[s \ {x}] /\ f[x] \in Nat
    BY <1>1, <1>2, SumAnyOrder
<1>14. CASE x \notin own
    <2>1. f[x] = 0
        BY <1>14
    <2>2. Above(s \ {x}) \subseteq t
        BY <1>7
    <2>3. sum[s \ {x}] <= other[t]
        BY <1>12, <2>2
    <2>4. QED
        BY <1>4, <1>7, <1>11, <1>13, <2>1, <2>3
<1>15. CASE x \in own
    <2>1. to[x] \in t
        BY <1>7, <1>15
    <2>2. Above(s \ {x}) \subseteq t \ {to[x]}
        BY <1>7, <1>15
    <2>3. sum[s \ {x}] <= other[t \ {to[x]}]
        BY <1>12, <2>2
    <2>4. other[t] = g[to[x]] + other[t \ {to[x]}] /\ g[to[x]] \in Nat
        BY <1>1, <1>3, <2>1, SumAnyOrder
    <2>5. f[x] <= g[to[x]]
        BY <1>15
    <2>6. other[t \ {to[x]}] \in Int /\ other[t] \in Int /\ sum[s \ {x}] \in Int /\ sum[s] \in Int
        BY <1>4, <1>11
    <2>7. PICK a, b, c, d : a = f[x] /\ b = g[to[x]] /\ c = sum[s \ {x}] /\ d = other[t \ {to[x]}]
        OBVIOUS
    <2>8. a + c <= b + d
        BY <1>13, <2>3, <2>4, <2>5, <2>6, <2>7
    <2>9. QED
        BY <1>7, <1>13, <2>4, <2>7, <2>8
<1>16. QED
    BY <1>14, <1>15


LEMMA SumOfNats ==
    ASSUME NEW D, IsFiniteSet(D), NEW f \in [D -> Nat]
    PROVE  SumFunction(f) \in Nat
<1>1. f \in [D -> Int]
    OBVIOUS
<1>2. PICK sum : AddsUp(sum, f, D) /\ SumFunction(f) = sum[D]
    BY <1>1, SumAddsUp
<1>3. \A s \in SUBSET D : sum[s] \in Nat
    BY <1>2, SumIsNat
<1>4. QED
    BY <1>2, <1>3

(* Nothing anywhere adds up to nothing. *)
LEMMA SumOfZeros ==
    ASSUME NEW D, IsFiniteSet(D), NEW f \in [D -> Nat], \A x \in D : f[x] = 0
    PROVE  SumFunction(f) = 0
<1>1. PICK none : none = [s \in SUBSET D |-> 0]
    OBVIOUS
<1>2. none[{}] = 0 /\ none[D] = 0 /\ f \in [D -> Int]
    BY <1>1
<1>3. \A s \in SUBSET D : s # {} => \E x \in s : none[s] = none[s \ {x}] + f[x]
    BY <1>1
<1>4. SumFunction(f) = none[D]
    BY <1>2, <1>3, SumAnyWay
<1>5. QED
    BY <1>2, <1>4


-----------------------------------------------------------------------------
(* Folds over lists, as FoldLeft takes them *)

(* What holds of the first and passes on from each to the next.            *)
LEMMA UpTo ==
    ASSUME NEW n \in Nat, NEW holds \in SUBSET Nat, 0 \in holds,
           \A k \in 1..n : k - 1 \in holds => k \in holds
    PROVE  0..n \subseteq holds
<1> DEFINE Odd == {k \in 0..n : k \notin holds}
<1>1. SUFFICES ASSUME Odd # {} PROVE FALSE
    OBVIOUS
<1>2. PICK k \in Odd : \A j \in Odd : k <= j
    <2>1. Odd \in SUBSET Nat
        OBVIOUS
    <2> HIDE DEF Odd
    <2>2. QED
        BY <1>1, <2>1, NatHasLeast
<1>3. k \in 1..n
    OBVIOUS
<1>4. k - 1 \in 0..n /\ k - 1 \notin Odd
    BY <1>2, <1>3
<1>5. QED
    BY <1>3, <1>4

LEMMA MaxOfRange ==
    ASSUME NEW n \in Nat, NEW t \in SUBSET (1..n), n \in t
    PROVE  Max(t) = n
<1>1. IsFiniteSet(1..n)
    BY FS_Interval
<1>2. IsFiniteSet(t)
    BY <1>1, FS_Subset
<1>3. t \in SUBSET Nat
    OBVIOUS
<1>4. Max(t) \in t /\ n <= Max(t)
    BY <1>2, <1>3, MaxOfFinite
<1>5. Max(t) \in 1..n
    BY <1>4
<1>6. QED
    BY <1>4, <1>5

(* The results of a fold for each set of places, the last place last.      *)
Folded(iter, n, A, base, step) ==
    /\ iter \in [SUBSET (1..n) -> A]
    /\ iter[{}] = base
    /\ \A t \in SUBSET (1..n) : t # {} => iter[t] = step[<<iter[t \ {Max(t)}], Max(t)>>]

LEMMA FoldExists ==
    ASSUME NEW n \in Nat, NEW A, NEW base \in A, NEW step \in [A \X (1..n) -> A]
    PROVE  \E iter : Folded(iter, n, A, base, step)
<1> DEFINE holds == {k \in Nat : k <= n => \E iter : Folded(iter, k, A, base, step)}
<1>1. 0 \in holds
    <2>1. Folded([t \in SUBSET (1..0) |-> base], 0, A, base, step)
        <3>1. 1..0 = {}
            OBVIOUS
        <3>2. QED
            BY <3>1 DEF Folded
    <2>2. QED
        BY <2>1
<1>2. ASSUME NEW k \in 1..n, k - 1 \in holds
      PROVE  k \in holds
    <2>1. PICK before : Folded(before, k - 1, A, base, step)
        BY <1>2
    <2> DEFINE iter == [t \in SUBSET (1..k) |->
                           IF k \in t THEN step[<<before[t \ {k}], k>>] ELSE before[t]]
    <2>2. \A t \in SUBSET (1..k) :
                IF k \in t THEN t \ {k} \in SUBSET (1..(k - 1)) ELSE t \in SUBSET (1..(k - 1))
        OBVIOUS
    <2>3. \A t \in SUBSET (1..k) : iter[t] \in A
        <3>1. ASSUME NEW t \in SUBSET (1..k) PROVE iter[t] \in A
            <4>1. CASE k \in t
                <5>1. before[t \ {k}] \in A
                    BY <2>1, <2>2, <4>1 DEF Folded
                <5>2. QED
                    BY <4>1, <5>1
            <4>2. CASE k \notin t
                BY <2>1, <2>2, <4>2 DEF Folded
            <4>3. QED
                BY <4>1, <4>2
        <3>2. QED
            BY <3>1
    <2>4. iter[{}] = base
        BY <2>1 DEF Folded
    <2>5. ASSUME NEW t \in SUBSET (1..k), t # {}
          PROVE  iter[t] = step[<<iter[t \ {Max(t)}], Max(t)>>]
        <3>1. CASE k \in t
            <4>1. Max(t) = k
                BY <3>1, MaxOfRange
            <4>2. iter[t \ {k}] = before[t \ {k}]
                OBVIOUS
            <4>3. QED
                BY <3>1, <4>1, <4>2
        <3>2. CASE k \notin t
            <4>1. t \in SUBSET (1..(k - 1))
                BY <2>2, <3>2
            <4>2. t \ {Max(t)} \in SUBSET (1..(k - 1)) /\ k \notin t \ {Max(t)}
                BY <4>1, <3>2
            <4>3. before[t] = step[<<before[t \ {Max(t)}], Max(t)>>]
                BY <2>1, <2>5, <4>1 DEF Folded
            <4>4. iter[t \ {Max(t)}] = before[t \ {Max(t)}] /\ iter[t] = before[t]
                BY <3>2, <4>1, <4>2
            <4>5. QED
                BY <4>3, <4>4
        <3>3. QED
            BY <3>1, <3>2
    <2>6. Folded(iter, k, A, base, step)
        <3>1. iter \in [SUBSET (1..k) -> A]
            BY <2>3
        <3> HIDE DEF iter
        <3>2. QED
            BY <3>1, <2>4, <2>5 DEF Folded
    <2>7. \E after : Folded(after, k, A, base, step)
        <3> HIDE DEF iter
        <3>1. QED
            BY <2>6
    <2>8. QED
        BY <2>7
<1>3. 0..n \subseteq holds
    <2>1. holds \in SUBSET Nat
        OBVIOUS
    <2> HIDE DEF holds
    <2>2. QED
        BY <1>1, <1>2, <2>1, UpTo
<1>4. n \in holds
    BY <1>3
<1>5. QED
    BY <1>4

(* The results step by step: before the first element, and after each.     *)
Traced(r, n, A, base, step) ==
    /\ r \in [0..n -> A] /\ r[0] = base
    /\ \A k \in 1..n : r[k] = step[<<r[k - 1], k>>]

(* What is known of a fold before its results are known to be of a kind.   *)
Follows(iter, n, A, base, step) ==
    /\ iter[{}] = base
    /\ \A t \in SUBSET (1..n) : t # {} /\ iter[t \ {Max(t)}] \in A =>
            iter[t] = step[<<iter[t \ {Max(t)}], Max(t)>>]

(* The steps lead to what the fold has for all places.                     *)
LeadsTo(iter, n, A, base, step) ==
    \E r : Traced(r, n, A, base, step) /\ r[n] = iter[1..n]

LEMMA FoldTraced ==
    ASSUME NEW n \in Nat, NEW A, NEW base \in A, NEW step \in [A \X (1..n) -> A],
           NEW iter, Follows(iter, n, A, base, step)
    PROVE  LeadsTo(iter, n, A, base, step)
<1> DEFINE holds == {k \in Nat : k <= n => iter[1..k] \in A}
           r == [k \in 0..n |-> iter[1..k]]
<1>1. ASSUME NEW k \in 1..n
      PROVE  /\ Max(1..k) = k /\ (1..k) \ {k} = 1..(k - 1)
             /\ 1..k \in SUBSET (1..n) /\ 1..k # {}
    <2>1. k \in Nat /\ k \in 1..k
        OBVIOUS
    <2>2. Max(1..k) = k
        BY <2>1, MaxOfRange
    <2>3. QED
        BY <2>1, <2>2
<1>2. ASSUME NEW k \in 1..n, iter[1..(k - 1)] \in A
      PROVE  iter[1..k] = step[<<iter[1..(k - 1)], k>>]
    BY <1>1, <1>2 DEF Follows
<1>3. 1..0 = {}
    BY SMT
<1>4. 0 \in holds
    BY <1>3 DEF Follows
<1>5. ASSUME NEW k \in 1..n, k - 1 \in holds
      PROVE  k \in holds
    <2>1. iter[1..(k - 1)] \in A
        BY <1>5
    <2>2. step[<<iter[1..(k - 1)], k>>] \in A
        BY <2>1
    <2>3. QED
        BY <1>2, <2>1, <2>2
<1>6. 0..n \subseteq holds
    <2>1. holds \in SUBSET Nat
        OBVIOUS
    <2> HIDE DEF holds
    <2>2. QED
        BY <1>4, <1>5, <2>1, UpTo
<1>7. \A k \in 0..n : iter[1..k] \in A
    BY <1>6
<1>8. \A k \in 1..n : r[k] = step[<<r[k - 1], k>>]
    BY <1>2, <1>7
<1>9. r \in [0..n -> A] /\ r[0] = base /\ r[n] = iter[1..n]
    <2>1. r[0] = base
        BY <1>3 DEF Follows
    <2>2. r \in [0..n -> A]
        BY <1>7
    <2>3. QED
        BY <2>1, <2>2
<1>10. Traced(r, n, A, base, step)
    BY <1>8, <1>9 DEF Traced
<1>11. QED
    BY <1>9, <1>10 DEF LeadsTo


LEMMA TraceExists ==
    ASSUME NEW n \in Nat, NEW A, NEW base \in A, NEW step \in [A \X (1..n) -> A]
    PROVE  \E r : Traced(r, n, A, base, step)
<1>1. PICK iter : Folded(iter, n, A, base, step)
    BY FoldExists
<1>2. Follows(iter, n, A, base, step)
    BY <1>1 DEF Folded, Follows
<1>3. LeadsTo(iter, n, A, base, step)
    BY <1>2, FoldTraced
<1>4. QED
    BY <1>3 DEF LeadsTo

-----------------------------------------------------------------------------
(* Lists of lists *)

LEMMA NothingIn ==
    ASSUME NEW S, NEW s \in Seq(S), Len(s) = 0
    PROVE  s = <<>>
OBVIOUS

LEMMA NothingIsList ==
    ASSUME NEW S
    PROVE  <<>> \in Seq(S) /\ ToSet(<<>>) = {}
BY DEF ToSet

LEMMA Joined ==
    ASSUME NEW S, NEW a \in Seq(S), NEW b \in Seq(S)
    PROVE  a \o b \in Seq(S) /\ ToSet(a \o b) = ToSet(a) \cup ToSet(b)
<1>1. a \o b \in Seq(S) /\ Len(a \o b) = Len(a) + Len(b)
    OBVIOUS
<1>2. \A i \in 1..(Len(a) + Len(b)) :
            (a \o b)[i] = IF i <= Len(a) THEN a[i] ELSE b[i - Len(a)]
    OBVIOUS
<1>3. \A i \in 1..Len(a) : a[i] = (a \o b)[i] /\ i \in 1..(Len(a) + Len(b))
    BY <1>2
<1>4. \A i \in 1..Len(b) : b[i] = (a \o b)[i + Len(a)] /\ i + Len(a) \in 1..(Len(a) + Len(b))
    BY <1>2
<1>5. ToSet(a) \cup ToSet(b) \subseteq ToSet(a \o b)
    <2>1. ToSet(a) \subseteq ToSet(a \o b)
        BY <1>1, <1>3 DEF ToSet
    <2>2. ToSet(b) \subseteq ToSet(a \o b)
        <3>1. ASSUME NEW i \in 1..Len(b) PROVE b[i] \in ToSet(a \o b)
            <4>1. i + Len(a) \in DOMAIN (a \o b) /\ b[i] = (a \o b)[i + Len(a)]
                BY <1>1, <1>4
            <4>2. QED
                BY <4>1 DEF ToSet
        <3>2. QED
            BY <3>1 DEF ToSet
    <2>3. QED
        BY <2>1, <2>2
<1>6. ToSet(a \o b) \subseteq ToSet(a) \cup ToSet(b)
    BY <1>1, <1>2 DEF ToSet
<1>7. QED
    BY <1>1, <1>5, <1>6

(* What FlattenSeq builds, list after list.                                *)
Flattens(f, lists, n) ==
    f = [i \in 1..n |-> IF i = 1 THEN lists[i] ELSE f[i - 1] \o lists[i]]

Lists(lists, n, S) == \A i \in 1..n : lists[i] \in Seq(S)

InAny(lists, k) == UNION {ToSet(lists[i]) : i \in 1..k}

LEMMA FlattensExists ==
    ASSUME NEW S, NEW n \in Nat \ {0}, NEW lists, Lists(lists, n, S)
    PROVE  \E f : Flattens(f, lists, n)
<1> DEFINE step == [p \in Seq(S) \X (1..n) |-> p[1] \o lists[p[2]]]
<1>1. step \in [Seq(S) \X (1..n) -> Seq(S)]
    BY Joined DEF Lists
<1>2. PICK r : Traced(r, n, Seq(S), <<>>, step)
    <2> HIDE DEF step
    <2>1. QED
        BY <1>1, NothingIsList, TraceExists
<1>3. /\ r \in [0..n -> Seq(S)] /\ r[0] = <<>>
      /\ \A k \in 1..n : r[k] = step[<<r[k - 1], k>>]
    <2> HIDE DEF step
    <2>1. QED
        BY <1>2 DEF Traced
<1>4. ASSUME NEW k \in 1..n
      PROVE  r[k] = r[k - 1] \o lists[k]
    <2>1. k - 1 \in 0..n
        OBVIOUS
    <2>2. r[k - 1] \in Seq(S)
        BY <1>3, <2>1
    <2>3. step[<<r[k - 1], k>>] = r[k - 1] \o lists[k]
        BY <2>2
    <2>4. QED
        BY <1>3, <2>3
<1> HIDE DEF step
<1>5. r[1] = lists[1]
    <2>1. 1 \in 1..n
        OBVIOUS
    <2>2. lists[1] \in Seq(S)
        BY <2>1 DEF Lists
    <2>3. r[1] = r[1 - 1] \o lists[1]
        BY <1>4, <2>1
    <2>4. r[1 - 1] = <<>>
        BY <1>3
    <2>5. <<>> \o lists[1] = lists[1]
        BY <2>2
    <2>6. QED
        BY <2>3, <2>4, <2>5
<1>6. \A i \in 1..n : r[i] = IF i = 1 THEN lists[i] ELSE r[i - 1] \o lists[i]
    BY <1>4, <1>5
<1>7. \A i \in 1..n : i # 1 => i - 1 \in 1..n
    OBVIOUS
<1>8. Flattens([i \in 1..n |-> r[i]], lists, n)
    BY <1>6, <1>7 DEF Flattens
<1>9. QED
    BY <1>8

LEMMA FlattensAll ==
    ASSUME NEW S, NEW n \in Nat \ {0}, NEW lists, Lists(lists, n, S),
           NEW f, Flattens(f, lists, n)
    PROVE  f[n] \in Seq(S) /\ ToSet(f[n]) = InAny(lists, n)
<1> DEFINE holds == {k \in Nat : k \in 1..n =>
                        f[k] \in Seq(S) /\ ToSet(f[k]) = InAny(lists, k)}
<1>1. ASSUME NEW k \in 1..n
      PROVE  /\ f[k] = IF k = 1 THEN lists[k] ELSE f[k - 1] \o lists[k]
             /\ lists[k] \in Seq(S)
    BY DEF Flattens, Lists
<1>2. 0 \in holds
    OBVIOUS
<1>3. ASSUME NEW k \in 1..n, k - 1 \in holds
      PROVE  k \in holds
    <2>1. ASSUME k = 1 PROVE f[k] \in Seq(S) /\ ToSet(f[k]) = InAny(lists, k)
        <3>1. f[k] = lists[k] /\ lists[k] \in Seq(S)
            BY <1>1, <2>1
        <3>2. InAny(lists, k) = ToSet(lists[k])
            <4>1. 1..k = {k}
                BY <2>1
            <4>2. QED
                BY <4>1 DEF InAny
        <3>3. QED
            BY <3>1, <3>2
    <2>2. ASSUME k # 1 PROVE f[k] \in Seq(S) /\ ToSet(f[k]) = InAny(lists, k)
        <3>1. f[k - 1] \in Seq(S) /\ ToSet(f[k - 1]) = InAny(lists, k - 1)
            BY <1>3, <2>2
        <3>2. f[k] = f[k - 1] \o lists[k] /\ lists[k] \in Seq(S)
            BY <1>1, <2>2
        <3>3. f[k] \in Seq(S) /\ ToSet(f[k]) = ToSet(f[k - 1]) \cup ToSet(lists[k])
            <4> HIDE DEF holds
            <4>1. QED
                BY <3>1, <3>2, Joined
        <3>4. InAny(lists, k) = InAny(lists, k - 1) \cup ToSet(lists[k])
            <4>1. 1..k = (1..(k - 1)) \cup {k}
                OBVIOUS
            <4>2. QED
                BY <4>1 DEF InAny
        <3>5. QED
            BY <3>1, <3>3, <3>4
    <2>3. QED
        BY <2>1, <2>2
<1>4. 0..n \subseteq holds
    <2>1. holds \in SUBSET Nat
        OBVIOUS
    <2> HIDE DEF holds
    <2>2. QED
        BY <1>2, <1>3, <2>1, UpTo
<1>5. n \in holds /\ n \in 1..n
    BY <1>4
<1>6. QED
    BY <1>5

(* FlattenSeq is a list of what is in any of the lists, and nothing else.  *)
LEMMA Flattened ==
    ASSUME NEW S, NEW lists \in Seq(Seq(S))
    PROVE  /\ FlattenSeq(lists) \in Seq(S)
           /\ ToSet(FlattenSeq(lists)) = UNION {ToSet(lists[i]) : i \in DOMAIN lists}
<1>1. PICK n : n = Len(lists)
    OBVIOUS
<1>2. n \in Nat /\ DOMAIN lists = 1..n /\ Lists(lists, n, S)
    BY <1>1 DEF Lists
<1>3. CASE n = 0
    <2>1. lists = <<>> /\ <<>> \in Seq(S)
        BY <1>1, <1>3, NothingIn, NothingIsList
    <2>2. FlattenSeq(lists) = <<>>
        BY <1>1, <1>3, <2>1 DEF FlattenSeq
    <2>3. DOMAIN lists = {}
        BY <1>2, <1>3
    <2>4. QED
        BY <2>1, <2>2, <2>3, NothingIsList
<1>4. CASE n # 0
    <2>1. PICK f : f = CHOOSE g : Flattens(g, lists, n)
        OBVIOUS
    <2>2. Flattens(f, lists, n)
        BY <1>2, <1>4, <2>1, FlattensExists
    <2>3. FlattenSeq(lists) = (CHOOSE g : Flattens(g, lists, n))[n]
        BY <1>1, <1>4 DEF FlattenSeq, Flattens
    <2>4. f[n] \in Seq(S) /\ ToSet(f[n]) = InAny(lists, n)
        BY <1>2, <1>4, <2>2, FlattensAll
    <2>5. QED
        BY <1>2, <2>1, <2>3, <2>4 DEF InAny
<1>5. QED
    BY <1>3, <1>4

LEMMA MaxInRange ==
    ASSUME NEW n \in Nat, NEW t \in SUBSET (1..n), t # {}
    PROVE  Max(t) \in 1..n
<1>1. IsFiniteSet(1..n)
    BY FS_Interval
<1>2. IsFiniteSet(t)
    BY <1>1, FS_Subset
<1>3. t \in SUBSET Nat
    OBVIOUS
<1>4. Max(t) \in t
    BY <1>2, <1>3, MaxOfFinite
<1>5. QED
    BY <1>4

LEMMA OneAdded ==
    ASSUME NEW S, NEW list \in Seq(S), NEW m \in S
    PROVE  /\ Append(list, m) \in Seq(S) /\ Len(Append(list, m)) = Len(list) + 1
           /\ ToSet(Append(list, m)) = ToSet(list) \cup {m}
<1>1. /\ Append(list, m) \in Seq(S) /\ Len(Append(list, m)) = Len(list) + 1
      /\ DOMAIN Append(list, m) = 1..(Len(list) + 1) /\ DOMAIN list = 1..Len(list)
    OBVIOUS
<1>2. \A i \in 1..(Len(list) + 1) :
            Append(list, m)[i] = IF i <= Len(list) THEN list[i] ELSE m
    OBVIOUS
<1>3. ToSet(Append(list, m)) \subseteq ToSet(list) \cup {m}
    BY <1>1, <1>2 DEF ToSet
<1>4. m \in ToSet(Append(list, m))
    <2>1. Append(list, m)[Len(list) + 1] = m /\ Len(list) + 1 \in 1..(Len(list) + 1)
        BY <1>2
    <2>2. QED
        BY <1>1, <2>1 DEF ToSet
<1>5. ToSet(list) \subseteq ToSet(Append(list, m))
    <2>1. \A i \in 1..Len(list) : list[i] = Append(list, m)[i] /\ i \in 1..(Len(list) + 1)
        BY <1>2
    <2>2. QED
        BY <1>1, <2>1 DEF ToSet
<1>6. QED
    BY <1>1, <1>3, <1>4, <1>5

LEMMA Single ==
    ASSUME NEW S, NEW x \in S
    PROVE  <<x>> \in Seq(S) /\ ToSet(<<x>>) = {x}
BY DEF ToSet

LEMMA IsList ==
    ASSUME NEW T, NEW n \in Nat, NEW list \in [1..n -> T]
    PROVE  list \in Seq(T) /\ DOMAIN list = 1..n /\ Len(list) = n
OBVIOUS

-----------------------------------------------------------------------------
(* Lists and their places *)

(* A list has as many elements as places, and no two are the same.         *)
LEMMA AsManyAsPlaces ==
    ASSUME NEW list, NEW n \in Nat,
           \A i, j \in 1..n : list[i] = list[j] => i = j,
           NEW S, \A i \in 1..n : list[i] \in S,
           \A s \in S : \E i \in 1..n : list[i] = s
    PROVE  IsFiniteSet(S) /\ Cardinality(S) = n
<1> DEFINE f == [i \in 1..n |-> list[i]]
<1>1. IsFiniteSet(1..n) /\ Cardinality(1..n) = n
    BY FS_Interval
<1>2. f \in [1..n -> S]
    OBVIOUS
<1>3. \A i, j \in 1..n : f[i] = f[j] => i = j
    OBVIOUS
<1>4. \A t \in S : \E i \in 1..n : f[i] = t
    OBVIOUS
<1>5. f \in Bijection(1..n, S)
    <2> HIDE DEF f
    <2>1. QED
        BY <1>2, <1>3, <1>4 DEF Bijection, Injection, Surjection, IsInjective
<1>6. ExistsBijection(1..n, S)
    BY <1>5 DEF ExistsBijection
<1>7. QED
    BY <1>1, <1>6, FS_Bijection

(* What nonlinear arithmetic needs to be told. *)
LEMMA TimesRises ==
    ASSUME NEW a \in Nat, NEW b \in Nat, NEW m \in Nat, a <= b
    PROVE  a * m <= b * m
<1>1. PICK d \in Nat : b = a + d
    <2>1. b - a \in Nat /\ b = a + (b - a)
        OBVIOUS
    <2>2. QED
        BY <2>1
<1>2. b * m = a * m + d * m
    BY <1>1
<1>3. a * m \in Nat /\ d * m \in Nat
    OBVIOUS
<1>4. QED
    BY <1>2, <1>3

LEMMA Divided ==
    ASSUME NEW a \in Nat, NEW m \in Nat \ {0}
    PROVE  /\ a \div m \in Nat
           /\ (a \div m) * m <= a
           /\ a < (a \div m) * m + m
OBVIOUS

(* A list, place by place. *)
LEMMA ListFacts ==
    ASSUME NEW S, NEW list \in Seq(S)
    PROVE  /\ Len(list) \in Nat /\ DOMAIN list = 1..Len(list)
           /\ \A i \in 1..Len(list) : list[i] \in S
           /\ ToSet(list) = {list[i] : i \in 1..Len(list)}
           /\ list = [i \in 1..Len(list) |-> list[i]]
BY DEF ToSet

(* A part of a list, place by place. *)
LEMMA Cutout ==
    ASSUME NEW S, NEW list \in Seq(S), NEW a \in Nat, NEW b \in Nat, a < b, b <= Len(list)
    PROVE  SubSeq(list, a + 1, b) = [k \in 1..(b - a) |-> list[a + k]]
<1>1. /\ SubSeq(list, a + 1, b) \in Seq(S) /\ Len(SubSeq(list, a + 1, b)) = b - a
      /\ \A k \in 1..(b - a) : SubSeq(list, a + 1, b)[k] = list[a + k]
    OBVIOUS
<1>2. QED
    BY <1>1

(* A list of some is a list of more. *)
LEMMA Wider ==
    ASSUME NEW S, NEW T, S \subseteq T, NEW list \in Seq(S)
    PROVE  list \in Seq(T)
<1>1. PICK n : n = Len(list)
    OBVIOUS
<1>2. n \in Nat /\ (\A i \in 1..n : list[i] \in S) /\ list = [i \in 1..n |-> list[i]]
    BY <1>1, ListFacts
<1>3. list \in [1..n -> T]
    BY <1>2
<1>4. QED
    BY <1>2, <1>3, IsList
=============================================================================
