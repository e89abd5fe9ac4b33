---------------------------- MODULE ReleaseProofs ----------------------------
(***************************************************************************)
(* Proofs about ReleaseRun, for any number of processes, allocations,      *)
(* paths and cases: all runs together spend no more than the baseline has  *)
(* left, and what is accounted for as complete is known.                   *)
(***************************************************************************)
EXTENDS ReleaseRun, SetsAndQueues

-----------------------------------------------------------------------------
(* The inductive invariant *)

Places == {"new", "prepared", "claimed", "ready", "sent", "closing", "accounting", "over"}
Verdicts == {"none", "INCOMPLETE", "COMPLETE"}

Journaled == [used : {Unknown} \cup 1..(Reserve + 1), status : {"pending", "ok", "error"},
              model : {"none", "allowed", "other"}]

TypeInv ==
    /\ book \in [Allocations -> Amounts] /\ plan \in [Launches -> Plan]
    /\ pc \in [Launches -> Places]
    /\ claims \in [Allocations -> Launches \cup {Nobody}] /\ DOMAIN outputs = Outputs
    /\ calls \in [Launches -> Seq(Journaled)]
    /\ stopped \in [Launches -> BOOLEAN] /\ failed \in [Launches -> BOOLEAN]
    /\ unit \in [Launches -> Nat]
    /\ report \in [Launches -> Verdicts] /\ accounting \in [Launches -> Verdicts]

(* Only a run that was verified and holds its claim calls. *)
ClaimInv(l) ==
    /\ pc[l] \notin {"new", "over"} => AllocationVerified(l)
    /\ pc[l] \in {"claimed", "ready", "sent", "closing", "accounting"} =>
            claims[Allocation(l)] = l
    /\ calls[l] # <<>> => AllocationVerified(l) /\ claims[Allocation(l)] = l
    /\ pc[l] \in {"new", "prepared", "claimed"} => calls[l] = <<>>

Latest(l) == calls[l][Len(calls[l])]

(* Nothing is reserved above the plan's limit. *)
SpendInv(l) ==
    /\ pc[l] = "sent" => calls[l] # <<>> /\ Latest(l).used = Unknown
    /\ ~Overcharged(l) => Reserved(l) <= plan[l].limit

(* The calls that have ended. *)
Settled(l) == IF pc[l] = "sent" THEN 1..(Len(calls[l]) - 1) ELSE 1..Len(calls[l])

Known(c) == c.used \in 1..Reserve /\ c.model = "allowed"

(* What a run that has not failed so far knows of its calls and cases. *)
KnownInv(l) ==
    /\ stopped[l] => failed[l]
    /\ pc[l] \in {"ready", "sent"} => unit[l] \in 1..Units
    /\ pc[l] = "closing" /\ ~failed[l] => unit[l] = Units + 1
    /\ ~failed[l] /\ pc[l] # "over" => \A i \in Settled(l) :
            Guarded(l) \/ calls[l][i].status = "ok" => Known(calls[l][i])
    /\ report[l] = "COMPLETE" =>
            /\ pc[l] \in {"accounting", "over"} /\ ~failed[l] /\ unit[l] = Units + 1
            /\ \A i \in 1..Len(calls[l]) : Known(calls[l][i])
    /\ accounting[l] = "COMPLETE" =>
            pc[l] = "over" /\ report[l] = "COMPLETE"

IInv ==
    /\ TypeInv
    /\ \A l \in Launches : ClaimInv(l) /\ SpendInv(l) /\ KnownInv(l)


-----------------------------------------------------------------------------
(* What calls are charged *)

Charges(s) == [i \in DOMAIN s |-> Charge(s[i])]
Costs(s) == [i \in DOMAIN s |-> Worst(s[i])]

LEMMA ChargeType ==
    ASSUME NEW c \in Journaled
    PROVE  Charge(c) \in Nat /\ Worst(c) \in Nat
BY ReleaseAssumption DEF Charge, Worst, Journaled

LEMMA ChargesType ==
    ASSUME NEW s \in Seq(Journaled)
    PROVE  /\ Charges(s) \in [DOMAIN s -> Nat] /\ Costs(s) \in [DOMAIN s -> Nat]
           /\ DOMAIN s \in SUBSET Nat /\ IsFiniteSet(DOMAIN s)
<1>1. DOMAIN s = 1..Len(s) /\ Len(s) \in Nat /\ \A i \in DOMAIN s : s[i] \in Journaled
    OBVIOUS
<1>2. \A i \in DOMAIN s : Charge(s[i]) \in Nat /\ Worst(s[i]) \in Nat
    BY <1>1, ChargeType
<1>3. IsFiniteSet(1..Len(s))
    BY <1>1, FS_Interval
<1>4. QED
    BY <1>1, <1>2, <1>3 DEF Charges, Costs

(* The fold over the journal is the sum of its charges. *)
LEMMA TotalIsSum ==
    ASSUME NEW s \in Seq(Journaled), NEW f \in [DOMAIN s -> Nat]
    PROVE  \A sum : sum = [t \in SUBSET DOMAIN s |->
                            IF t = {} THEN 0 ELSE sum[t \ {Max(t)}] + f[Max(t)]]
                => sum[DOMAIN s] = SumFunction(f)
<1>1. DOMAIN s \in SUBSET Nat /\ IsFiniteSet(DOMAIN s)
    BY ChargesType
<1>2. PICK D : D = DOMAIN s
    OBVIOUS
<1>3. \A t \in SUBSET D : t # {} => Max(t) \in t
    BY <1>1, <1>2, FS_Subset, MaxOfFinite
<1>4. ASSUME NEW sum,
             sum = [t \in SUBSET D |-> IF t = {} THEN 0 ELSE sum[t \ {Max(t)}] + f[Max(t)]]
      PROVE  sum[D] = SumFunction(f)
    <2>1. sum[{}] = 0
        BY <1>4
    <2>2. \A t \in SUBSET D : t # {} => \E x \in t : sum[t] = sum[t \ {x}] + f[x]
        BY <1>3, <1>4
    <2>3. IsFiniteSet(D) /\ f \in [D -> Int]
        BY <1>1, <1>2
    <2>4. QED
        BY <2>1, <2>2, <2>3, SumAnyWay
<1>5. QED
    BY <1>2, <1>4

(* There is such a fold. *)
LEMMA TotalExists ==
    ASSUME NEW s \in Seq(Journaled), NEW f \in [DOMAIN s -> Nat]
    PROVE  \E sum : sum = [t \in SUBSET DOMAIN s |->
                            IF t = {} THEN 0 ELSE sum[t \ {Max(t)}] + f[Max(t)]]
<1>1. DOMAIN s \in SUBSET Nat /\ IsFiniteSet(DOMAIN s)
    BY ChargesType
<1>2. PICK D : D = DOMAIN s
    OBVIOUS
<1>3. IsFiniteSet(D) /\ f \in [D -> Int]
    BY <1>1, <1>2
<1>4. PICK sum : AddsUp(sum, f, D)
    BY <1>3, AddsUpExists
<1>5. \A t \in SUBSET D : sum[t] \in Int
    BY <1>3, <1>4, SumIsInt
<1>6. \A t \in SUBSET D :
            sum[t] = IF t = {} THEN 0 ELSE sum[t \ {Max(t)}] + f[Max(t)]
    <2>1. ASSUME NEW t \in SUBSET D, t # {}
          PROVE  sum[t] = sum[t \ {Max(t)}] + f[Max(t)]
        <3>1. PICK x : x = Max(t)
            OBVIOUS
        <3>2. x \in t
            BY <1>1, <1>2, <2>1, <3>1, FS_Subset, MaxOfFinite
        <3>3. sum[t] = f[x] + sum[t \ {x}]
            BY <1>3, <1>4, <3>2, SumAnyOrder
        <3>4. f[x] \in Int /\ sum[t \ {x}] \in Int
            BY <1>3, <1>5, <3>2
        <3>5. QED
            BY <3>1, <3>3, <3>4
    <2>2. sum[{}] = 0
        BY <1>4 DEF AddsUp
    <2>3. QED
        BY <2>1, <2>2
<1>7. sum = [t \in SUBSET D |-> sum[t]]
    BY <1>4 DEF AddsUp
<1>8. sum = [t \in SUBSET D |-> IF t = {} THEN 0 ELSE sum[t \ {Max(t)}] + f[Max(t)]]
    BY <1>6, <1>7
<1>9. QED
    BY <1>2, <1>8

LEMMA ReservedIs ==
    ASSUME NEW s \in Seq(Journaled)
    PROVE  Total(s, Charge) = SumFunction(Charges(s))
<1> DEFINE Sums(sum) ==
                sum = [t \in SUBSET DOMAIN s |->
                        IF t = {} THEN 0 ELSE sum[t \ {Max(t)}] + Charge(s[Max(t)])]
           Folds(sum) ==
                sum = [t \in SUBSET DOMAIN s |->
                        IF t = {} THEN 0 ELSE sum[t \ {Max(t)}] + Charges(s)[Max(t)]]
<1>1. Charges(s) \in [DOMAIN s -> Nat] /\ DOMAIN s \in SUBSET Nat /\ IsFiniteSet(DOMAIN s)
    BY ChargesType
<1>2. \A t \in SUBSET DOMAIN s : t # {} => Charges(s)[Max(t)] = Charge(s[Max(t)])
    <2>1. \A t \in SUBSET DOMAIN s : t # {} => Max(t) \in DOMAIN s
        BY <1>1, FS_Subset, MaxOfFinite
    <2>2. QED
        BY <2>1 DEF Charges
<1>3. \A sum : Sums(sum) <=> Folds(sum)
    BY <1>2
<1>4. Total(s, Charge) = (CHOOSE sum : Sums(sum))[DOMAIN s]
    BY DEF Total, FoldLeft, MapThenFoldSet
<1>5. \E sum : Folds(sum)
    BY <1>1, TotalExists
<1>6. \A sum : Folds(sum) => sum[DOMAIN s] = SumFunction(Charges(s))
    BY <1>1, TotalIsSum
<1> HIDE DEF Sums, Folds
<1>7. Sums(CHOOSE sum : Sums(sum))
    BY <1>3, <1>5
<1>8. QED
    BY <1>3, <1>4, <1>6, <1>7

LEMMA SpentIs ==
    ASSUME NEW s \in Seq(Journaled)
    PROVE  Total(s, Worst) = SumFunction(Costs(s))
<1> DEFINE Sums(sum) ==
                sum = [t \in SUBSET DOMAIN s |->
                        IF t = {} THEN 0 ELSE sum[t \ {Max(t)}] + Worst(s[Max(t)])]
           Folds(sum) ==
                sum = [t \in SUBSET DOMAIN s |->
                        IF t = {} THEN 0 ELSE sum[t \ {Max(t)}] + Costs(s)[Max(t)]]
<1>1. Costs(s) \in [DOMAIN s -> Nat] /\ DOMAIN s \in SUBSET Nat /\ IsFiniteSet(DOMAIN s)
    BY ChargesType
<1>2. \A t \in SUBSET DOMAIN s : t # {} => Costs(s)[Max(t)] = Worst(s[Max(t)])
    <2>1. \A t \in SUBSET DOMAIN s : t # {} => Max(t) \in DOMAIN s
        BY <1>1, FS_Subset, MaxOfFinite
    <2>2. QED
        BY <2>1 DEF Costs
<1>3. \A sum : Sums(sum) <=> Folds(sum)
    BY <1>2
<1>4. Total(s, Worst) = (CHOOSE sum : Sums(sum))[DOMAIN s]
    BY DEF Total, FoldLeft, MapThenFoldSet
<1>5. \E sum : Folds(sum)
    BY <1>1, TotalExists
<1>6. \A sum : Folds(sum) => sum[DOMAIN s] = SumFunction(Costs(s))
    BY <1>1, TotalIsSum
<1> HIDE DEF Sums, Folds
<1>7. Sums(CHOOSE sum : Sums(sum))
    BY <1>3, <1>5
<1>8. QED
    BY <1>3, <1>4, <1>6, <1>7

(* A call that kept to its reserve costs what it is charged. *)
LEMMA CostIsCharge ==
    ASSUME NEW s \in Seq(Journaled), \A i \in DOMAIN s : s[i].used # Reserve + 1
    PROVE  Total(s, Worst) = Total(s, Charge)
<1>1. \A i \in DOMAIN s : s[i] \in Journaled
    OBVIOUS
<1>2. \A i \in DOMAIN s : Worst(s[i]) = Charge(s[i])
    <2>1. ASSUME NEW i \in DOMAIN s
          PROVE  Worst(s[i]) = Charge(s[i])
        <3>1. s[i].used \in {Unknown} \cup 1..(Reserve + 1)
            BY <1>1 DEF Journaled
        <3>2. QED
            BY <3>1, ReleaseAssumption DEF Worst, Charge
    <2>2. QED
        BY <2>1
<1>3. Costs(s) = Charges(s)
    BY <1>2 DEF Costs, Charges
<1>4. QED
    BY <1>3, ReservedIs, SpentIs

(* One call less, one charge less. *)
WithoutOne(g, f, D, x) ==
    /\ IsFiniteSet(D) /\ f \in [D -> Int] /\ x \in D
    /\ g \in [D \ {x} -> Int] /\ \A i \in D \ {x} : g[i] = f[i]

LEMMA SumWithoutOne ==
    ASSUME NEW D, NEW f, NEW x, NEW g, WithoutOne(g, f, D, x)
    PROVE  SumFunction(f) = SumFunction(g) + f[x]
BY SumSplits DEF WithoutOne

LEMMA OneLess ==
    ASSUME NEW t, NEW x \in DOMAIN t, IsFiniteSet(DOMAIN t), Charges(t) \in [DOMAIN t -> Nat],
           NEW s, DOMAIN s = DOMAIN t \ {x}, \A i \in DOMAIN s : s[i] = t[i]
    PROVE  SumFunction(Charges(t)) = SumFunction(Charges(s)) + Charge(t[x])
<1>1. PICK f, g, D : f = Charges(t) /\ g = Charges(s) /\ D = DOMAIN t
    OBVIOUS
<1>2. \A i \in D \ {x} : g[i] = f[i]
    BY <1>1 DEF Charges
<1>3. f \in [D -> Int] /\ f[x] = Charge(t[x])
    BY <1>1 DEF Charges
<1>4. g \in [D \ {x} -> Int]
    <2>1. g = [i \in D \ {x} |-> g[i]]
        BY <1>1 DEF Charges
    <2>2. \A i \in D \ {x} : g[i] \in Int
        BY <1>2, <1>3
    <2>3. QED
        BY <2>1, <2>2
<1>5. WithoutOne(g, f, D, x)
    BY <1>1, <1>2, <1>3, <1>4 DEF WithoutOne
<1>6. SumFunction(f) = SumFunction(g) + f[x]
    BY <1>5, SumWithoutOne
<1>7. QED
    BY <1>1, <1>3, <1>6

LEMMA OneMore ==
    ASSUME NEW s \in Seq(Journaled), NEW c \in Journaled
    PROVE  Total(Append(s, c), Charge) = Total(s, Charge) + Charge(c)
<1>1. PICK t, x : t = Append(s, c) /\ x = Len(s) + 1
    OBVIOUS
<1>2. t \in Seq(Journaled) /\ Len(t) = x /\ t[x] = c
    BY <1>1
<1>3. x \in DOMAIN t /\ DOMAIN s = DOMAIN t \ {x}
    <2>1. Len(s) \in Nat /\ DOMAIN s = 1..Len(s)
        OBVIOUS
    <2>2. DOMAIN t = 1..x
        BY <1>2
    <2>3. QED
        BY <1>1, <2>1, <2>2
<1>4. \A i \in DOMAIN s : s[i] = t[i]
    BY <1>1
<1>5. Charges(t) \in [DOMAIN t -> Nat] /\ IsFiniteSet(DOMAIN t)
    BY <1>2, ChargesType
<1>6. SumFunction(Charges(t)) = SumFunction(Charges(s)) + Charge(t[x])
    BY <1>3, <1>4, <1>5, OneLess
<1>7. QED
    BY <1>1, <1>2, <1>6, ReservedIs

LEMMA TotalType ==
    ASSUME NEW s \in Seq(Journaled)
    PROVE  Total(s, Charge) \in Int
<1>1. Charges(s) \in [DOMAIN s -> Int] /\ IsFiniteSet(DOMAIN s)
    BY ChargesType
<1>2. SumFunction(Charges(s)) \in Int
    BY <1>1, SumType
<1>3. QED
    BY <1>2, ReservedIs

LEMMA NoCalls ==
    Total(<<>>, Charge) = 0
<1>1. <<>> \in Seq(Journaled) /\ DOMAIN Charges(<<>>) = {}
    BY DEF Charges
<1>2. QED
    BY <1>1, ReservedIs, SumOfNothing

(* The last call with another charge. *)
LEMMA Replaced ==
    ASSUME NEW s \in Seq(Journaled), s # <<>>, NEW c \in Journaled
    PROVE  /\ [s EXCEPT ![Len(s)] = c] \in Seq(Journaled)
           /\ Total([s EXCEPT ![Len(s)] = c], Charge)
                = Total(s, Charge) + (Charge(c) - Charge(s[Len(s)]))
<1>1. PICK t : t = [s EXCEPT ![Len(s)] = c]
    OBVIOUS
<1>2. PICK n : n = Len(s) - 1
    OBVIOUS
<1>3. Len(s) \in Nat \ {0} /\ s[Len(s)] \in Journaled /\ n \in Nat /\ Len(s) = n + 1
    BY <1>2
<1>4. PICK front : front = [i \in 1..n |-> s[i]]
    OBVIOUS
<1>5. front \in Seq(Journaled) /\ Len(front) = n /\ \A i \in 1..n : front[i] = s[i]
    <2>1. \A i \in 1..n : s[i] \in Journaled
        BY <1>3
    <2>2. front \in [1..n -> Journaled]
        BY <1>4, <2>1
    <2>3. front \in Seq(Journaled)
        BY <1>3, <2>2
    <2>4. QED
        BY <1>3, <1>4, <2>2, <2>3
<1>6. s = Append(front, s[Len(s)])
    BY <1>3, <1>5
<1>7. t = Append(front, c)
    <2>1. t \in Seq(Journaled) /\ Len(t) = Len(s)
        BY <1>1
    <2>2. t[n + 1] = c /\ \A i \in 1..n : t[i] = s[i]
        BY <1>1, <1>3
    <2>3. QED
        BY <1>3, <1>5, <2>1, <2>2
<1>8. t \in Seq(Journaled)
    BY <1>5, <1>7
<1>9. PICK d : d = s[Len(s)]
    OBVIOUS
<1>10. d \in Journaled
    BY <1>3, <1>9
<1>11. /\ Total(s, Charge) = Total(front, Charge) + Charge(d)
       /\ Total(t, Charge) = Total(front, Charge) + Charge(c)
    BY <1>5, <1>6, <1>7, <1>9, <1>10, OneMore
<1>12. Total(front, Charge) \in Int /\ Charge(c) \in Int /\ Charge(d) \in Int
    <2>1. Total(front, Charge) \in Int
        BY <1>5, TotalType
    <2>2. \A e \in Journaled : Charge(e) \in Int
        BY ChargeType
    <2>3. Charge(c) \in Int /\ Charge(d) \in Int
        BY <1>10, <2>2
    <2>4. QED
        BY <2>1, <2>3
<1>13. Total(t, Charge) = Total(s, Charge) + (Charge(c) - Charge(d))
    <2>1. PICK a, b, e, f, g : /\ a = Total(t, Charge) /\ b = Total(s, Charge)
                              /\ e = Total(front, Charge) /\ f = Charge(c) /\ g = Charge(d)
        OBVIOUS
    <2>2. e \in Int /\ f \in Int /\ g \in Int /\ b = e + g /\ a = e + f
        BY <1>11, <1>12, <2>1
    <2>3. a = b + (f - g)
        BY <2>2
    <2>4. QED
        BY <2>1, <2>3
<1>14. QED
    BY <1>1, <1>8, <1>9, <1>13


-----------------------------------------------------------------------------
(* Sums over the book and over the launches *)

LEMMA BookIs ==
    ASSUME NEW b \in [Allocations -> Nat]
    PROVE  MapThenSumSet(LAMBDA a : b[a], Allocations) = SumFunction(b)
<1> DEFINE Sums(sum) ==
                sum = [t \in SUBSET Allocations |->
                        IF t = {} THEN 0
                        ELSE b[CHOOSE x \in t : TRUE] + sum[t \ {CHOOSE x \in t : TRUE}]]
<1>1. MapThenSumSet(LAMBDA a : b[a], Allocations) = (CHOOSE sum : Sums(sum))[Allocations]
    BY DEF MapThenSumSet, MapThenFoldSet
<1>2. \A sum : Sums(sum) <=> AddsUp(sum, b, Allocations)
    BY DEF AddsUp, Some
<1>3. b \in [Allocations -> Int] /\ IsFiniteSet(Allocations)
    BY ReleaseAssumption
<1>4. PICK other : AddsUp(other, b, Allocations) /\ SumFunction(b) = other[Allocations]
    BY <1>3, SumAddsUp
<1> HIDE DEF Sums
<1>5. PICK sum : sum = (CHOOSE s : Sums(s))
    OBVIOUS
<1>6. AddsUp(sum, b, Allocations)
    BY <1>2, <1>4, <1>5
<1>7. sum[Allocations] = other[Allocations]
    BY <1>3, <1>4, <1>6, SumAgrees
<1>8. QED
    BY <1>1, <1>4, <1>5, <1>7

LEMMA SpentSumIs ==
    ASSUME NEW spent \in [Launches -> Nat], \A l \in Launches : spent[l] = Spent(l)
    PROVE  MapThenSumSet(Spent, Launches) = SumFunction(spent)
<1> DEFINE Sums(sum) ==
                sum = [t \in SUBSET Launches |->
                        IF t = {} THEN 0 ELSE Spent(Some(t)) + sum[t \ {Some(t)}]]
<1>1. MapThenSumSet(Spent, Launches) = (CHOOSE sum : Sums(sum))[Launches]
    BY DEF MapThenSumSet, MapThenFoldSet, Some
<1>2. \A sum : Sums(sum) <=> AddsUp(sum, spent, Launches)
    <2>1. \A t \in SUBSET Launches : t # {} => spent[Some(t)] = Spent(Some(t))
        BY DEF Some
    <2>2. QED
        BY <2>1 DEF AddsUp
<1>3. spent \in [Launches -> Int] /\ IsFiniteSet(Launches)
    BY ReleaseAssumption
<1>4. PICK other : AddsUp(other, spent, Launches) /\ SumFunction(spent) = other[Launches]
    BY <1>3, SumAddsUp
<1> HIDE DEF Sums
<1>5. PICK sum : sum = (CHOOSE s : Sums(s))
    OBVIOUS
<1>6. AddsUp(sum, spent, Launches)
    BY <1>2, <1>4, <1>5
<1>7. sum[Launches] = other[Launches]
    BY <1>3, <1>4, <1>6, SumAgrees
<1>8. QED
    BY <1>1, <1>4, <1>5, <1>7

LEMMA PinnedBook ==
    ASSUME NEW l \in Launches, book' = book, plan' = plan
    PROVE  AllocationVerified(l)' = AllocationVerified(l)
<1>1. Envelopes' = Envelopes
    BY DEF Envelopes, MapThenSumSet, MapThenFoldSet
<1>2. QED
    BY <1>1 DEF AllocationVerified, Allocation

-----------------------------------------------------------------------------
(* The steps of the proof *)

Own(l) == ClaimInv(l) /\ SpendInv(l) /\ KnownInv(l)

LEMMA InitIInv ==
    ReleaseInit => IInv
<1>1. SUFFICES ASSUME ReleaseInit PROVE IInv
    OBVIOUS
<1>2. TypeInv
    BY <1>1, ReleaseAssumption DEF ReleaseInit, TypeInv, Places, Verdicts
<1>3. ASSUME NEW l \in Launches
      PROVE  ClaimInv(l) /\ SpendInv(l) /\ KnownInv(l)
    <2>1. calls[l] = <<>> /\ pc[l] = "new" /\ ~stopped[l] /\ ~failed[l]
          /\ report[l] = "none" /\ accounting[l] = "none"
        BY <1>1 DEF ReleaseInit
    <2>2. plan[l].limit \in Nat
        BY <1>2, ReleaseAssumption DEF TypeInv, Plan
    <2>3. Reserved(l) = 0
        BY <2>1, NoCalls DEF Reserved
    <2>4. SpendInv(l)
        BY <2>1, <2>2, <2>3 DEF SpendInv
    <2>5. QED
        BY <2>1, <2>4 DEF ClaimInv, KnownInv, Settled
<1>4. QED
    BY <1>2, <1>3 DEF IInv

(* What a step of one process leaves to the others. *)
Frame(l) ==
    /\ book' = book /\ plan' = plan
    /\ \A a \in Allocations : claims[a] # Nobody => claims'[a] = claims[a]
    /\ \A k \in Launches \ {l} :
        /\ pc'[k] = pc[k] /\ calls'[k] = calls[k] /\ stopped'[k] = stopped[k]
        /\ unit'[k] = unit[k] /\ failed'[k] = failed[k]
        /\ report'[k] = report[k] /\ accounting'[k] = accounting[k]

LEMMA OthersKeep ==
    ASSUME IInv, NEW l \in Launches, Frame(l), NEW k \in Launches \ {l}
    PROVE  Own(k)'
<1>1. /\ pc'[k] = pc[k] /\ calls'[k] = calls[k] /\ stopped'[k] = stopped[k]
      /\ unit'[k] = unit[k] /\ failed'[k] = failed[k]
      /\ report'[k] = report[k] /\ accounting'[k] = accounting[k]
      /\ book' = book /\ plan' = plan
    BY DEF Frame
<1>2. ClaimInv(k) /\ SpendInv(k) /\ KnownInv(k) /\ Allocation(k) \in Allocations
    BY DEF IInv, TypeInv, Plan, Allocation
<1>3. claims[Allocation(k)] = k => claims'[Allocation(k)] = k
    BY <1>2, ReleaseAssumption DEF Frame
<1>4. Allocation(k)' = Allocation(k) /\ AllocationVerified(k)' = AllocationVerified(k)
    BY <1>1, PinnedBook DEF Allocation
<1>5. ClaimInv(k)'
    BY <1>1, <1>2, <1>3, <1>4 DEF ClaimInv
<1>6. SpendInv(k)'
    BY <1>1, <1>2 DEF SpendInv, Latest, Overcharged, Reserved
<1>7. KnownInv(k)'
    BY <1>1, <1>2 DEF KnownInv, Settled, Guarded
<1>8. QED
    BY <1>5, <1>6, <1>7 DEF Own

LEMMA Together ==
    ASSUME IInv, NEW l \in Launches, Frame(l), TypeInv', Own(l)'
    PROVE  IInv'
<1>1. \A k \in Launches : Own(k)'
    BY OthersKeep
<1>2. QED
    BY <1>1 DEF IInv, Own


(* What is reserved after a step. *)
LEMMA ReservedAfter ==
    ASSUME NEW l, NEW s, calls'[l] = s
    PROVE  Reserved(l)' = Total(s, Charge)
BY DEF Reserved, Total, FoldLeft, MapThenFoldSet


(* The record of a call replaces its reservation. *)
LEMMA RecordKeeps ==
    ASSUME IInv, NEW l \in Launches, pc[l] = "sent",
           NEW status \in {"ok", "error"}, NEW used \in {Unknown} \cup 1..(Reserve + 1),
           NEW model \in {"none", "allowed", "other"}, Record(l, status, used, model)
    PROVE  /\ calls' \in [Launches -> Seq(Journaled)]
           /\ \A k \in Launches \ {l} : calls'[k] = calls[k]
           /\ Len(calls'[l]) = Len(calls[l]) /\ Len(calls[l]) \in Nat \ {0}
           /\ calls'[l][Len(calls[l])] = [used |-> used, status |-> status, model |-> model]
           /\ \A i \in 1..(Len(calls[l]) - 1) : calls'[l][i] = calls[l][i]
           /\ plan' = plan /\ pc'[l] # "sent" => SpendInv(l)'
<1>1. PICK s, c, n : s = calls[l] /\ n = Len(s)
                     /\ c = [used |-> used, status |-> status, model |-> model]
    OBVIOUS
<1>2. s \in Seq(Journaled) /\ s # <<>> /\ s[n].used = Unknown
    BY <1>1 DEF IInv, TypeInv, SpendInv, Latest
<1>3. c \in Journaled
    BY <1>1 DEF Journaled
<1>4. n \in Nat \ {0} /\ s[n] \in Journaled
    BY <1>1, <1>2
<1>5. PICK t : t = [s EXCEPT ![n] = c]
    OBVIOUS
<1>6. calls' = [calls EXCEPT ![l] = t]
    BY <1>1, <1>5 DEF Record, IInv, TypeInv
<1>7. t \in Seq(Journaled) /\ Total(t, Charge) = Total(s, Charge) + (Charge(c) - Charge(s[n]))
    BY <1>1, <1>2, <1>3, <1>5, Replaced
<1>8. Len(t) = n /\ t[n] = c /\ \A i \in 1..(n - 1) : t[i] = s[i]
    BY <1>1, <1>2, <1>4, <1>5
<1>9. calls \in [Launches -> Seq(Journaled)]
    BY DEF IInv, TypeInv
<1>10. calls'[l] = t /\ calls' \in [Launches -> Seq(Journaled)]
       /\ \A k \in Launches \ {l} : calls'[k] = calls[k]
    BY <1>6, <1>7, <1>9
<1>11. ASSUME plan' = plan, pc'[l] # "sent", ~Overcharged(l)'
       PROVE  Reserved(l)' <= plan'[l].limit
    <2>1. Reserved(l)' = Total(t, Charge)
        BY <1>10, ReservedAfter
    <2>2. DOMAIN t = 1..n /\ DOMAIN s = 1..n
        BY <1>1, <1>2, <1>7, <1>8
    <2>3. \A i \in 1..n : t[i].used # Reserve + 1
        BY <1>10, <1>11, <2>2 DEF Overcharged
    <2>4. ~Overcharged(l)
        <3>1. ASSUME NEW i \in 1..n
              PROVE  s[i].used # Reserve + 1
            <4>1. CASE i = n
                BY <1>2, <4>1, ReleaseAssumption
            <4>2. CASE i # n
                <5>1. i \in 1..(n - 1)
                    BY <1>4, <4>2
                <5>2. QED
                    BY <1>8, <2>3, <5>1
            <4>3. QED
                BY <4>1, <4>2
        <3>2. QED
            BY <1>1, <2>2, <3>1 DEF Overcharged
    <2>5. Total(s, Charge) <= plan[l].limit
        BY <1>1, <2>4 DEF IInv, SpendInv, Reserved
    <2>6. used # Reserve + 1
        BY <1>1, <1>4, <1>8, <2>3
    <2>7. Charge(s[n]) = Reserve /\ Charge(c) <= Reserve
        BY <1>1, <1>2, <2>6, ReleaseAssumption DEF Charge
    <2>8. \A e \in Journaled : Charge(e) \in Int
        BY ChargeType
    <2>9. Charge(s[n]) \in Int /\ Charge(c) \in Int
        BY <1>3, <1>4, <2>8
    <2>10. PICK a, b, d, e, f : /\ a = Total(t, Charge) /\ b = Total(s, Charge)
                                /\ d = Charge(c) /\ e = Charge(s[n]) /\ f = plan[l].limit
        OBVIOUS
    <2>11. b \in Int
        BY <1>2, <2>10, TotalType
    <2>12. f \in Int
        BY <2>10, ReleaseAssumption DEF IInv, TypeInv, Plan
    <2>13. a = b + (d - e) /\ d <= e /\ b <= f /\ d \in Int /\ e \in Int
        BY <1>7, <2>5, <2>7, <2>9, <2>10
    <2>14. a <= f
        BY <2>11, <2>12, <2>13
    <2>15. QED
        BY <1>11, <2>1, <2>10, <2>14
<1>12. plan' = plan /\ pc'[l] # "sent" => SpendInv(l)'
    BY <1>11 DEF SpendInv
<1>13. QED
    BY <1>1, <1>4, <1>8, <1>10, <1>12


-----------------------------------------------------------------------------
(* One lemma per action *)

LEMMA PrepareStep ==
    ASSUME IInv, NEW l \in Launches, Prepare(l)
    PROVE  IInv'
<1>1. TypeInv'
    BY DEF IInv, TypeInv, Prepare, Goto, files, results, Places
<1>2. Frame(l)
    BY DEF Frame, IInv, TypeInv, Prepare, Goto, files, results
<1>3. /\ pc'[l] \in {"prepared", "over"} /\ (pc'[l] = "prepared" => AllocationVerified(l))
      /\ calls'[l] = calls[l] /\ calls[l] = <<>> /\ pc[l] = "new"
    BY DEF IInv, TypeInv, ClaimInv, Prepare, Goto
<1>4. AllocationVerified(l)' = AllocationVerified(l)
    BY PinnedBook DEF Prepare
<1>5. ClaimInv(l)'
    BY <1>3, <1>4 DEF ClaimInv
<1>6. SpendInv(l)'
    BY <1>3, ReservedAfter DEF IInv, SpendInv, Reserved, Overcharged, Prepare
<1>7. KnownInv(l)'
    BY <1>3 DEF IInv, KnownInv, Settled, Guarded, Prepare, results
<1>8. QED
    BY <1>1, <1>2, <1>5, <1>6, <1>7, Together DEF Own

LEMMA ClaimStep ==
    ASSUME IInv, NEW l \in Launches, Claim(l)
    PROVE  IInv'
<1>1. TypeInv'
    BY DEF IInv, TypeInv, Claim, Goto, results, Places
<1>2. Frame(l)
    BY DEF Frame, IInv, TypeInv, Claim, Goto, results
<1>3. /\ pc'[l] \in {"claimed", "over"}
      /\ calls'[l] = calls[l] /\ calls[l] = <<>> /\ pc[l] = "prepared"
    BY DEF IInv, TypeInv, ClaimInv, Claim, Goto
<1>4. AllocationVerified(l)' = AllocationVerified(l)
    BY PinnedBook DEF Claim
<1>5. ClaimInv(l)'
    <2>1. pc'[l] = "claimed" => claims'[Allocation(l)] = l
        BY DEF IInv, TypeInv, Plan, Claim, Goto, Allocation
    <2>2. Allocation(l)' = Allocation(l) /\ AllocationVerified(l)
        BY <1>3 DEF Allocation, Claim, IInv, ClaimInv
    <2>3. QED
        BY <1>3, <1>4, <2>1, <2>2 DEF ClaimInv
<1>6. SpendInv(l)'
    BY <1>3, ReservedAfter DEF IInv, SpendInv, Reserved, Overcharged, Claim
<1>7. KnownInv(l)'
    BY <1>3 DEF IInv, KnownInv, Settled, Guarded, Claim, results
<1>8. QED
    BY <1>1, <1>2, <1>5, <1>6, <1>7, Together DEF Own

LEMMA MakeOutputStep ==
    ASSUME IInv, NEW l \in Launches, MakeOutput(l)
    PROVE  IInv'
<1>1. TypeInv'
    <2>1. TypeInv
        BY DEF IInv
    <2>2. pc' \in [Launches -> Places]
        BY <2>1 DEF TypeInv, MakeOutput, Goto, Places
    <2>3. unit' \in [Launches -> Nat]
        <3>1. unit \in [Launches -> Nat] /\ unit' \in {unit, [unit EXCEPT ![l] = 1]}
            BY <2>1 DEF TypeInv, MakeOutput
        <3>2. QED
            BY <3>1
    <2>4. report' \in [Launches -> Verdicts]
        BY <2>1 DEF TypeInv, MakeOutput, Verdicts
    <2>5. DOMAIN outputs' = Outputs
        BY <2>1 DEF TypeInv, MakeOutput
    <2>6. QED
        BY <2>5, <2>1, <2>2, <2>3, <2>4 DEF TypeInv, MakeOutput
<1>2. Frame(l)
    BY DEF Frame, IInv, TypeInv, MakeOutput, Goto
<1>3. /\ \/ pc'[l] = "ready" /\ unit'[l] = 1 /\ report'[l] = "INCOMPLETE"
         \/ pc'[l] = "over" /\ unit'[l] = unit[l] /\ report'[l] = report[l]
      /\ calls'[l] = calls[l] /\ calls[l] = <<>> /\ pc[l] = "claimed"
      /\ stopped'[l] = stopped[l] /\ failed'[l] = failed[l] /\ accounting'[l] = accounting[l]
      /\ plan' = plan
    BY DEF IInv, TypeInv, ClaimInv, MakeOutput, Goto
<1>4. AllocationVerified(l)' = AllocationVerified(l)
    BY PinnedBook DEF MakeOutput
<1>5. ClaimInv(l)'
    BY <1>3, <1>4 DEF ClaimInv, MakeOutput, IInv, Allocation
<1>6. SpendInv(l)'
    BY <1>3, ReservedAfter DEF IInv, SpendInv, Reserved, Overcharged
<1>7. KnownInv(l)'
    BY <1>3, ReleaseAssumption DEF IInv, KnownInv, Settled, Guarded
<1>8. QED
    BY <1>1, <1>2, <1>5, <1>6, <1>7, Together DEF Own

LEMMA RefuseStep ==
    ASSUME IInv, NEW l \in Launches, Refuse(l)
    PROVE  IInv'
<1>1. TypeInv'
    BY DEF IInv, TypeInv, Refuse, RunEnds, Goto, files, results, Places
<1>2. Frame(l)
    BY DEF Frame, IInv, TypeInv, Refuse, RunEnds, Goto, files, results
<1>3. /\ pc[l] = "ready" /\ pc'[l] = "closing" /\ failed'[l]
      /\ calls'[l] = calls[l] /\ report'[l] = report[l] /\ accounting'[l] = accounting[l]
      /\ plan' = plan /\ claims' = claims
    BY DEF IInv, TypeInv, Refuse, RunEnds, Goto, files, results
<1>4. AllocationVerified(l)' = AllocationVerified(l)
    BY PinnedBook DEF Refuse
<1>5. ClaimInv(l)'
    BY <1>3, <1>4 DEF ClaimInv, IInv, Allocation
<1>6. SpendInv(l)'
    BY <1>3, ReservedAfter DEF IInv, SpendInv, Reserved, Overcharged
<1>7. KnownInv(l)'
    BY <1>3 DEF IInv, KnownInv, Settled, Guarded
<1>8. QED
    BY <1>1, <1>2, <1>5, <1>6, <1>7, Together DEF Own

LEMMA CloseStep ==
    ASSUME IInv, NEW l \in Launches, Close(l)
    PROVE  IInv'
<1>1. TypeInv'
    BY DEF IInv, TypeInv, Close, Reported, Goto, files, Places, Verdicts
<1>2. Frame(l)
    BY DEF Frame, IInv, TypeInv, Close, Goto, files
<1>3. /\ pc[l] = "closing" /\ pc'[l] = (IF Guarded(l) THEN "accounting" ELSE "over")
      /\ report'[l] = Reported(l)
      /\ calls'[l] = calls[l] /\ unit'[l] = unit[l] /\ accounting'[l] = accounting[l]
      /\ stopped'[l] = stopped[l] /\ failed'[l] = failed[l]
      /\ plan' = plan /\ claims' = claims
    BY DEF IInv, TypeInv, Close, Goto, files
<1>4. AllocationVerified(l)' = AllocationVerified(l)
    BY PinnedBook DEF Close
<1>5. ClaimInv(l)'
    BY <1>3, <1>4 DEF ClaimInv, IInv, Allocation
<1>6. SpendInv(l)'
    BY <1>3, ReservedAfter DEF IInv, SpendInv, Reserved, Overcharged
<1>7. KnownInv(l)'
    <2>1. KnownInv(l) /\ Settled(l) = 1..Len(calls[l]) /\ Settled(l)' = 1..Len(calls[l])
        BY <1>3 DEF IInv, Settled
    <2>2. DOMAIN calls[l] = 1..Len(calls[l])
        BY DEF IInv, TypeInv
    <2>3. ASSUME Reported(l) = "COMPLETE"
          PROVE  /\ ~failed[l] /\ unit[l] = Units + 1
                 /\ \A i \in 1..Len(calls[l]) : Known(calls[l][i])
        <3>1. ~failed[l] /\ ~stopped[l]
            BY <2>3 DEF Reported
        <3>2. \A i \in 1..Len(calls[l]) : Guarded(l) \/ calls[l][i].status = "ok"
            BY <2>2, <2>3 DEF Reported, Guarded
        <3>3. QED
            BY <1>3, <2>1, <3>1, <3>2 DEF KnownInv
    <2>4. accounting[l] # "COMPLETE"
        BY <1>3, <2>1 DEF KnownInv
    <2>5. QED
        BY <1>3, <2>1, <2>3, <2>4 DEF KnownInv, Guarded
<1>8. QED
    BY <1>1, <1>2, <1>5, <1>6, <1>7, Together DEF Own

LEMMA AccountStep ==
    ASSUME IInv, NEW l \in Launches, Account(l)
    PROVE  IInv'
<1>1. TypeInv'
    BY DEF IInv, TypeInv, Account, Goto, files, Places, Verdicts
<1>2. Frame(l)
    BY DEF Frame, IInv, TypeInv, Account, Goto, files
<1>3. /\ pc[l] = "accounting" /\ pc'[l] = "over"
      /\ (accounting'[l] = "COMPLETE" => report[l] = "COMPLETE")
      /\ calls'[l] = calls[l] /\ unit'[l] = unit[l] /\ report'[l] = report[l]
      /\ stopped'[l] = stopped[l] /\ failed'[l] = failed[l]
      /\ plan' = plan /\ claims' = claims
    BY DEF IInv, TypeInv, KnownInv, Account, Goto, files
<1>4. AllocationVerified(l)' = AllocationVerified(l)
    BY PinnedBook DEF Account
<1>5. ClaimInv(l)'
    BY <1>3, <1>4 DEF ClaimInv, IInv, Allocation
<1>6. SpendInv(l)'
    BY <1>3, ReservedAfter DEF IInv, SpendInv, Reserved, Overcharged
<1>7. KnownInv(l)'
    BY <1>3 DEF IInv, KnownInv, Settled, Guarded
<1>8. QED
    BY <1>1, <1>2, <1>5, <1>6, <1>7, Together DEF Own

LEMMA DieStep ==
    ASSUME IInv, NEW l \in Launches, Die(l)
    PROVE  IInv'
<1>1. TypeInv'
    BY DEF IInv, TypeInv, Die, Goto, files, results, Places
<1>2. Frame(l)
    BY DEF Frame, IInv, TypeInv, Die, Goto, files, results
<1>3. /\ pc[l] \notin {"new", "over"} /\ pc'[l] = "over"
      /\ accounting'[l] = accounting[l]
      /\ calls'[l] = calls[l] /\ unit'[l] = unit[l] /\ report'[l] = report[l]
      /\ stopped'[l] = stopped[l] /\ failed'[l] = failed[l]
      /\ plan' = plan /\ claims' = claims
    BY DEF IInv, TypeInv, Die, Goto, files, results
<1>4. AllocationVerified(l)' = AllocationVerified(l)
    BY PinnedBook DEF Die
<1>5. ClaimInv(l)'
    BY <1>3, <1>4 DEF ClaimInv, IInv, Allocation
<1>6. SpendInv(l)'
    BY <1>3, ReservedAfter DEF IInv, SpendInv, Reserved, Overcharged
<1>7. KnownInv(l)'
    BY <1>3 DEF IInv, KnownInv, Settled, Guarded
<1>8. QED
    BY <1>1, <1>2, <1>5, <1>6, <1>7, Together DEF Own


LEMMA DispatchStep ==
    ASSUME IInv, NEW l \in Launches, Dispatch(l)
    PROVE  IInv'
<1>1. PICK s, c : s = calls[l] /\ c = [used |-> Unknown, status |-> "pending", model |-> "none"]
    OBVIOUS
<1>2. s \in Seq(Journaled) /\ c \in Journaled /\ calls \in [Launches -> Seq(Journaled)]
    BY <1>1 DEF IInv, TypeInv, Journaled
<1>3. PICK t : t = Append(s, c)
    OBVIOUS
<1>4. /\ t \in Seq(Journaled) /\ Len(t) = Len(s) + 1 /\ Len(s) \in Nat /\ t # <<>>
      /\ t[Len(t)] = c /\ \A i \in 1..Len(s) : t[i] = s[i]
    BY <1>2, <1>3
<1>5. calls' = [calls EXCEPT ![l] = t]
    BY <1>1, <1>3 DEF Dispatch
<1>6. calls' \in [Launches -> Seq(Journaled)] /\ calls'[l] = t
      /\ \A k \in Launches \ {l} : calls'[k] = calls[k]
    BY <1>2, <1>4, <1>5
<1>7. TypeInv'
    BY <1>6 DEF IInv, TypeInv, Dispatch, Goto, files, results, Places
<1>8. Frame(l)
    BY <1>6 DEF Frame, IInv, TypeInv, Dispatch, Goto, files, results
<1>9. /\ pc[l] = "ready" /\ pc'[l] = "sent" /\ Reserved(l) + Reserve <= plan[l].limit
      /\ accounting'[l] = accounting[l] /\ unit'[l] = unit[l] /\ report'[l] = report[l]
      /\ stopped'[l] = stopped[l] /\ failed'[l] = failed[l]
      /\ plan' = plan /\ claims' = claims
    BY DEF IInv, TypeInv, Dispatch, Goto, files, results
<1>10. AllocationVerified(l)' = AllocationVerified(l)
    BY PinnedBook DEF Dispatch
<1>11. ClaimInv(l)'
    BY <1>9, <1>10 DEF ClaimInv, IInv, Allocation
<1>12. SpendInv(l)'
    <2>1. Latest(l)'.used = Unknown
        BY <1>1, <1>4, <1>6 DEF Latest
    <2>2. Reserved(l)' = Total(t, Charge)
        BY <1>6, ReservedAfter
    <2>3. Total(t, Charge) = Total(s, Charge) + Charge(c)
        BY <1>2, <1>3, OneMore
    <2>4. Charge(c) = Reserve
        BY <1>1 DEF Charge
    <2>5. Reserved(l)' = Reserved(l) + Reserve
        BY <1>1, <2>2, <2>3, <2>4 DEF Reserved
    <2>6. QED
        BY <1>4, <1>6, <1>9, <2>1, <2>5 DEF SpendInv
<1>13. KnownInv(l)'
    <2>1. Settled(l)' = Settled(l) /\ Settled(l) = 1..Len(s)
        BY <1>1, <1>4, <1>6, <1>9 DEF Settled
    <2>2. \A i \in Settled(l) : calls'[l][i] = calls[l][i]
        BY <1>1, <1>4, <1>6, <2>1
    <2>3. KnownInv(l)
        BY DEF IInv
    <2>4. report[l] # "COMPLETE" /\ accounting[l] # "COMPLETE"
        BY <1>9, <2>3 DEF KnownInv
    <2>5. QED
        BY <1>9, <2>1, <2>2, <2>3, <2>4 DEF KnownInv, Guarded
<1>14. QED
    BY <1>7, <1>8, <1>11, <1>12, <1>13, Together DEF Own

LEMMA AnsweredStep ==
    ASSUME IInv, NEW l \in Launches, Answered(l)
    PROVE  IInv'
<1>1. PICK good \in BOOLEAN, used \in 1..Reserve, model \in {"allowed", "other"} :
            /\ model = "other" => ~good /\ ~Guarded(l)
            /\ Record(l, IF good THEN "ok" ELSE "error", used, model)
            /\ CaseOver(l, good) \/ (good /\ CaseGoesOn(l))
    BY DEF Answered
<1>2. PICK status : status = IF good THEN "ok" ELSE "error"
    OBVIOUS
<1>3. /\ calls' \in [Launches -> Seq(Journaled)]
      /\ \A k \in Launches \ {l} : calls'[k] = calls[k]
      /\ Len(calls'[l]) = Len(calls[l]) /\ Len(calls[l]) \in Nat \ {0}
      /\ calls'[l][Len(calls[l])] = [used |-> used, status |-> status, model |-> model]
      /\ \A i \in 1..(Len(calls[l]) - 1) : calls'[l][i] = calls[l][i]
      /\ plan' = plan /\ pc'[l] # "sent" => SpendInv(l)'
    <2>1. pc[l] = "sent" /\ Record(l, status, used, model) /\ status \in {"ok", "error"}
        BY <1>1, <1>2 DEF Answered
    <2>2. used \in {Unknown} \cup 1..(Reserve + 1) /\ model \in {"none", "allowed", "other"}
        BY <1>1, ReleaseAssumption
    <2>3. QED
        BY <2>1, <2>2, RecordKeeps
<1>4. TypeInv
    BY DEF IInv
<1>5. /\ pc' \in [Launches -> Places] /\ unit' \in [Launches -> Nat]
      /\ failed' \in [Launches -> BOOLEAN] /\ stopped' = stopped
    <2>1. pc' \in [Launches -> Places]
        BY <1>1, <1>4 DEF TypeInv, CaseOver, CaseGoesOn, Goto, Places
    <2>2. unit' \in [Launches -> Nat]
        <3>1. unit' \in {unit, [unit EXCEPT ![l] = @ + 1]}
            BY <1>1 DEF CaseOver, CaseGoesOn
        <3>2. QED
            BY <3>1, <1>4 DEF TypeInv
    <2>3. failed' \in [Launches -> BOOLEAN]
        <3>1. failed' \in {failed, [failed EXCEPT ![l] = @ \/ (~good /\ plan[l].entry # "comparison")]}
            BY <1>1 DEF CaseOver, CaseGoesOn
        <3>2. QED
            BY <3>1, <1>4 DEF TypeInv
    <2>4. QED
        BY <1>1, <2>1, <2>2, <2>3 DEF CaseOver, CaseGoesOn
<1>6. TypeInv'
    BY <1>3, <1>4, <1>5 DEF TypeInv, Answered, files, results
<1>7. Frame(l)
    BY <1>1, <1>3, <1>4 DEF Frame, TypeInv, Answered, CaseOver, CaseGoesOn, Goto, files, results
<1>8. /\ pc[l] = "sent" /\ report'[l] = report[l] /\ accounting'[l] = accounting[l]
      /\ stopped'[l] = stopped[l] /\ plan' = plan /\ claims' = claims
    BY <1>5 DEF Answered, files, results
<1>9. \/ /\ unit'[l] = unit[l] + 1 /\ (failed[l] => failed'[l])
         /\ (~good /\ plan[l].entry # "comparison" => failed'[l])
         /\ \/ pc'[l] = (IF unit[l] = Units THEN "closing" ELSE "ready")
            \/ ~good /\ plan[l].entry # "comparison" /\ pc'[l] = "closing"
      \/ unit'[l] = unit[l] /\ failed'[l] = failed[l] /\ pc'[l] = "ready"
    BY <1>1, <1>4 DEF TypeInv, CaseOver, CaseGoesOn, Goto
<1>10. AllocationVerified(l)' = AllocationVerified(l)
    BY PinnedBook DEF Answered
<1>11. ClaimInv(l)'
    BY <1>8, <1>9, <1>10 DEF ClaimInv, IInv, Allocation
<1>12. SpendInv(l)'
    BY <1>3, <1>8, <1>9
<1>13. KnownInv(l)'
    <2>1. KnownInv(l)
        BY DEF IInv
    <2>2. unit[l] \in 1..Units /\ (stopped[l] => failed[l])
          /\ report[l] # "COMPLETE" /\ accounting[l] # "COMPLETE"
        BY <1>8, <2>1 DEF KnownInv
    <2>3. (failed[l] => failed'[l]) /\ pc'[l] \in {"ready", "closing"}
        BY <1>9
    <2>4. (pc'[l] = "ready" => unit'[l] \in 1..Units)
          /\ (pc'[l] = "closing" /\ ~failed'[l] => unit'[l] = Units + 1)
        <3>1. pc'[l] = "ready" => unit[l] # Units \/ unit'[l] = unit[l]
            BY <1>9
        <3>2. pc'[l] = "closing" /\ ~failed'[l] => unit[l] = Units
            BY <1>9
        <3>3. pc'[l] # "ready" => unit'[l] = unit[l] + 1
            BY <1>9
        <3>4. unit'[l] \in {unit[l], unit[l] + 1}
            BY <1>9
        <3>5. QED
            BY <2>2, <3>1, <3>2, <3>3, <3>4, ReleaseAssumption
    <2>5. ASSUME ~failed'[l], NEW i \in Settled(l)', Guarded(l) \/ calls'[l][i].status = "ok"
          PROVE  Known(calls'[l][i])
        <3>1. i \in 1..Len(calls[l]) /\ Settled(l) = 1..(Len(calls[l]) - 1)
            BY <1>3, <1>8, <2>3, <2>5 DEF Settled
        <3>2. CASE i = Len(calls[l])
            BY <1>1, <1>2, <1>3, <2>5, <3>2 DEF Known
        <3>3. CASE i # Len(calls[l])
            <4>1. i \in Settled(l) /\ i \in 1..(Len(calls[l]) - 1)
                BY <1>3, <3>1, <3>3
            <4>2. ~failed[l] /\ calls'[l][i] = calls[l][i]
                BY <1>3, <2>3, <2>5, <4>1
            <4>3. Known(calls[l][i])
                BY <1>8, <2>1, <2>5, <4>1, <4>2 DEF KnownInv
            <4>4. QED
                BY <4>2, <4>3
        <3>4. QED
            BY <3>2, <3>3
    <2>6. Guarded(l)' = Guarded(l)
        BY <1>8 DEF Guarded
    <2>7. QED
        BY <1>8, <2>2, <2>3, <2>4, <2>5, <2>6 DEF KnownInv
<1>14. QED
    BY <1>6, <1>7, <1>11, <1>12, <1>13, Together DEF Own

(* A call that ends the run, and one that is cut off. *)
LEMMA EndingStep ==
    ASSUME IInv, NEW l \in Launches, pc[l] = "sent",
           NEW used \in {Unknown} \cup 1..(Reserve + 1),
           NEW model \in {"none", "allowed", "other"}, Record(l, "error", used, model),
           stopped' = [stopped EXCEPT ![l] = TRUE], RunEnds(l),
           UNCHANGED <<book, plan, files, unit, results>>
    PROVE  IInv'
<1>1. /\ calls' \in [Launches -> Seq(Journaled)]
      /\ \A k \in Launches \ {l} : calls'[k] = calls[k]
      /\ plan' = plan /\ pc'[l] # "sent" => SpendInv(l)'
    BY RecordKeeps
<1>2. TypeInv'
    BY <1>1 DEF IInv, TypeInv, RunEnds, Goto, Places, files, results
<1>3. Frame(l)
    BY <1>1 DEF Frame, IInv, TypeInv, RunEnds, Goto, files, results
<1>4. /\ pc'[l] = "closing" /\ failed'[l] /\ plan' = plan /\ claims' = claims
      /\ report'[l] = report[l] /\ accounting'[l] = accounting[l]
    BY DEF IInv, TypeInv, RunEnds, Goto, files, results
<1>5. AllocationVerified(l)' = AllocationVerified(l)
    BY PinnedBook
<1>6. ClaimInv(l)'
    BY <1>4, <1>5 DEF ClaimInv, IInv, Allocation
<1>7. SpendInv(l)'
    BY <1>1, <1>4
<1>8. KnownInv(l)'
    BY <1>4 DEF IInv, KnownInv
<1>9. QED
    BY <1>2, <1>3, <1>6, <1>7, <1>8, Together DEF Own

LEMMA StoppingStep ==
    ASSUME IInv, NEW l \in Launches, Stopping(l)
    PROVE  IInv'
<1>1. PICK used \in {Unknown} \cup 1..(Reserve + 1), model \in {"none", "allowed", "other"} :
            Record(l, "error", used, model)
    <2>1. Unknown \in {Unknown} \cup 1..(Reserve + 1) /\ Reserve + 1 \in {Unknown} \cup 1..(Reserve + 1)
          /\ 1..Reserve \subseteq {Unknown} \cup 1..(Reserve + 1)
        BY ReleaseAssumption
    <2>2. QED
        BY <2>1 DEF Stopping
<1>2. QED
    BY <1>1, EndingStep DEF Stopping

LEMMA CancelStep ==
    ASSUME IInv, NEW l \in Launches, Cancel(l)
    PROVE  IInv'
<1>1. CASE pc[l] = "sent"
    <2>1. Record(l, "error", Unknown, "none")
        BY <1>1 DEF Cancel
    <2>2. QED
        BY <1>1, <2>1, EndingStep DEF Cancel
<1>2. CASE pc[l] = "ready"
    <2>1. TypeInv'
        BY <1>2 DEF IInv, TypeInv, Cancel, RunEnds, Goto, files, results, Places
    <2>2. Frame(l)
        BY <1>2 DEF Frame, IInv, TypeInv, Cancel, RunEnds, Goto, files, results
    <2>3. /\ pc'[l] = "closing" /\ failed'[l]
          /\ calls'[l] = calls[l] /\ report'[l] = report[l] /\ accounting'[l] = accounting[l]
          /\ plan' = plan /\ claims' = claims
        BY <1>2 DEF IInv, TypeInv, Cancel, RunEnds, Goto, files, results
    <2>4. AllocationVerified(l)' = AllocationVerified(l)
        BY PinnedBook DEF Cancel
    <2>5. ClaimInv(l)'
        BY <1>2, <2>3, <2>4 DEF ClaimInv, IInv, Allocation
    <2>6. SpendInv(l)'
        BY <2>3, ReservedAfter DEF IInv, SpendInv, Reserved, Overcharged
    <2>7. KnownInv(l)'
        BY <1>2, <2>3 DEF IInv, KnownInv, Settled, Guarded
    <2>8. QED
        BY <2>1, <2>2, <2>5, <2>6, <2>7, Together DEF Own
<1>3. QED
    BY <1>1, <1>2 DEF Cancel

LEMMA InterruptedStep ==
    ASSUME IInv, NEW l \in Launches, Interrupted(l)
    PROVE  IInv'
<1>1. pc[l] = "sent" /\ Record(l, "error", Unknown, "none")
      /\ UNCHANGED <<book, plan, files, results>>
    BY DEF Interrupted
<1>2. CASE stopped' = [stopped EXCEPT ![l] = TRUE] /\ RunEnds(l) /\ UNCHANGED unit
    BY <1>1, <1>2, EndingStep
<1>3. CASE ~Guarded(l) /\ CaseOver(l, FALSE)
    <2>1. /\ calls' \in [Launches -> Seq(Journaled)]
          /\ \A k \in Launches \ {l} : calls'[k] = calls[k]
          /\ plan' = plan /\ pc'[l] # "sent" => SpendInv(l)'
        BY <1>1, RecordKeeps
    <2>2. TypeInv /\ plan[l].entry = "direct"
        BY <1>3 DEF IInv, Guarded
    <2>3. /\ unit' = [unit EXCEPT ![l] = @ + 1]
          /\ failed' = [failed EXCEPT ![l] = TRUE] /\ stopped' = stopped
          /\ Goto(l, IF unit[l] = Units THEN "closing" ELSE "ready") \/ Goto(l, "closing")
        <3>1. failed' = [failed EXCEPT ![l] = @ \/ (~FALSE /\ plan[l].entry # "comparison")]
            BY <1>3 DEF CaseOver
        <3>2. failed' = [failed EXCEPT ![l] = TRUE]
            BY <3>1, <2>2
        <3>3. QED
            BY <1>3, <3>2 DEF CaseOver
    <2>4. TypeInv'
        <3>1. pc' \in [Launches -> Places]
            BY <2>2, <2>3 DEF TypeInv, Goto, Places
        <3>2. unit' \in [Launches -> Nat]
            BY <2>2, <2>3 DEF TypeInv
        <3>3. QED
            BY <1>1, <2>1, <2>2, <2>3, <3>1, <3>2 DEF TypeInv, files, results
    <2>5. Frame(l)
        BY <1>1, <2>1, <2>2, <2>3 DEF Frame, TypeInv, Goto, files, results
    <2>6. /\ pc'[l] = "closing" \/ (pc'[l] = "ready" /\ unit[l] # Units)
          /\ failed'[l] /\ unit'[l] = unit[l] + 1 /\ plan' = plan /\ claims' = claims
          /\ report'[l] = report[l] /\ accounting'[l] = accounting[l]
        BY <1>1, <2>2, <2>3 DEF TypeInv, Goto, files, results
    <2>7. AllocationVerified(l)' = AllocationVerified(l)
        BY <1>1, PinnedBook
    <2>8. ClaimInv(l)'
        BY <1>1, <2>6, <2>7 DEF ClaimInv, IInv, Allocation
    <2>9. SpendInv(l)'
        BY <2>1, <2>6
    <2>10. KnownInv(l)'
        <3>1. unit[l] \in 1..Units /\ report[l] # "COMPLETE" /\ accounting[l] # "COMPLETE"
            BY <1>1 DEF IInv, KnownInv
        <3>2. pc'[l] = "ready" => unit'[l] \in 1..Units
            BY <2>6, <3>1, ReleaseAssumption
        <3>3. QED
            BY <2>6, <3>1, <3>2 DEF KnownInv
    <2>11. QED
        BY <2>4, <2>5, <2>8, <2>9, <2>10, Together DEF Own
<1>4. QED
    BY <1>2, <1>3 DEF Interrupted


LEMMA SpentNat ==
    ASSUME NEW s \in Seq(Journaled)
    PROVE  Total(s, Worst) \in Nat
<1>1. PICK f, D : f = Costs(s) /\ D = DOMAIN s
    OBVIOUS
<1>2. f \in [D -> Nat] /\ IsFiniteSet(D)
    BY <1>1, ChargesType
<1>3. SumFunction(f) \in Nat
    BY <1>2, SumOfNats
<1>4. QED
    BY <1>1, <1>3, SpentIs

LEMMA NoCallsNoCost ==
    Total(<<>>, Worst) = 0
<1>1. <<>> \in Seq(Journaled) /\ DOMAIN Costs(<<>>) = {}
    BY DEF Costs
<1>2. QED
    BY <1>1, SpentIs, SumOfNothing

-----------------------------------------------------------------------------
(* The theorems *)

(* Nothing that a process does, and no kill, undoes the inductive          *)
(* invariant: only verified runs that hold their claim call, a ledger      *)
(* never reserves above its plan's limit, and a run that has not failed    *)
(* knows of every call that it has ended.                                  *)
THEOREM ReleaseInvariance == Spec => []IInv
<1>1. ReleaseInit => IInv
    BY InitIInv
<1>2. IInv /\ [Next]_vars => IInv'
    <2>1. SUFFICES ASSUME IInv, [Next]_vars PROVE IInv'
        OBVIOUS
    <2>2. CASE UNCHANGED vars
        <3>1. TypeInv'
            BY <2>1, <2>2 DEF IInv, TypeInv, vars, files, results
        <3>2. ASSUME NEW l \in Launches
              PROVE  Own(l)'
            <4>1. Frame(l)
                BY <2>2 DEF Frame, vars, files, results
            <4>2. AllocationVerified(l)' = AllocationVerified(l)
                BY <2>2, PinnedBook DEF vars
            <4>3. /\ pc'[l] = pc[l] /\ calls'[l] = calls[l] /\ stopped'[l] = stopped[l]
                  /\ unit'[l] = unit[l] /\ failed'[l] = failed[l]
                  /\ report'[l] = report[l] /\ accounting'[l] = accounting[l]
                  /\ plan' = plan /\ claims' = claims
                BY <2>2 DEF vars, files, results
            <4>4. ClaimInv(l) /\ SpendInv(l) /\ KnownInv(l)
                BY <2>1 DEF IInv
            <4>5. ClaimInv(l)'
                BY <4>2, <4>3, <4>4 DEF ClaimInv, Allocation
            <4>6. SpendInv(l)'
                BY <4>3, <4>4, ReservedAfter DEF SpendInv, Reserved, Overcharged, Latest
            <4>7. KnownInv(l)'
                BY <4>3, <4>4 DEF KnownInv, Settled, Guarded
            <4>8. QED
                BY <4>5, <4>6, <4>7 DEF Own
        <3>3. QED
            BY <3>1, <3>2 DEF IInv, Own
    <2>3. ASSUME NEW l \in Launches,
                 \/ Prepare(l) \/ Claim(l) \/ MakeOutput(l)
                 \/ Refuse(l) \/ Dispatch(l) \/ Answered(l) \/ Stopping(l) \/ Interrupted(l)
                 \/ Close(l) \/ Account(l)
                 \/ Cancel(l) \/ Die(l)
          PROVE  IInv'
        BY <2>1, <2>3, PrepareStep, ClaimStep, MakeOutputStep, RefuseStep, DispatchStep,
           AnsweredStep, StoppingStep, InterruptedStep, CloseStep, AccountStep, CancelStep, DieStep
    <2>4. QED
        BY <2>1, <2>2, <2>3 DEF Next, AllOver
<1>3. QED
    BY <1>1, <1>2, PTL DEF Spec

(* Whatever a run may have cost is within its allocation, and only one run *)
(* has it.                                                                 *)
LEMMA SpentWithinAllocation ==
    ASSUME IInv, NEW l \in Launches, ~Overcharged(l), calls[l] # <<>>
    PROVE  /\ Spent(l) <= book[Allocation(l)] /\ Spent(l) \in Nat
           /\ claims[Allocation(l)] = l /\ AllocationVerified(l)
<1>1. calls[l] \in Seq(Journaled)
    BY DEF IInv, TypeInv
<1>2. Spent(l) = Reserved(l)
    BY <1>1, CostIsCharge DEF Overcharged, Spent, Reserved
<1>3. Reserved(l) <= plan[l].limit /\ plan[l].limit <= book[Allocation(l)]
      /\ claims[Allocation(l)] = l /\ AllocationVerified(l)
    BY DEF IInv, SpendInv, ClaimInv, AllocationVerified
<1>4. plan[l].limit \in Nat /\ book[Allocation(l)] \in Nat
    BY ReleaseAssumption DEF IInv, TypeInv, Plan, Allocation
<1>5. Spent(l) \in Nat
    BY <1>1, SpentNat DEF Spent
<1>6. QED
    BY <1>2, <1>3, <1>4, <1>5

(* Any number of processes, started at once or one after the other, spend  *)
(* no more together than the baseline had left: claim_run's mkdir gives    *)
(* each allocation to one of them, verify_allocation keeps the book within *)
(* the baseline, and the ledger keeps the run within its allocation.       *)
THEOREM SpendingBounded == Spec => []SpendWithinBaseline
<1>1. IInv => SpendWithinBaseline
    <2>1. SUFFICES ASSUME IInv, \A l \in Launches : ~Overcharged(l)
                   PROVE  MapThenSumSet(Spent, Launches) <= Remaining
        BY DEF SpendWithinBaseline
    <2>2. PICK spent : spent = [l \in Launches |-> Spent(l)]
        OBVIOUS
    <2>3. \A l \in Launches : Spent(l) \in Nat
        BY <2>1, SpentNat DEF IInv, TypeInv, Spent
    <2>4. spent \in [Launches -> Nat] /\ \A l \in Launches : spent[l] = Spent(l)
        BY <2>2, <2>3
    <2>5. MapThenSumSet(Spent, Launches) = SumFunction(spent)
        BY <2>4, SpentSumIs
    <2>6. PICK own : own = {l \in Launches : calls[l] # <<>>}
        OBVIOUS
    <2>7. \A l \in Launches \ own : spent[l] = 0
        BY <2>4, <2>6, NoCallsNoCost DEF Spent
    <2>8. CASE own = {}
        <3>1. SumFunction(spent) = 0
            BY <2>4, <2>7, <2>8, SumOfZeros, ReleaseAssumption
        <3>2. QED
            BY <2>5, <3>1, ReleaseAssumption
    <2>9. CASE own # {}
        <3>1. PICK to : to = [l \in own |-> Allocation(l)]
            OBVIOUS
        <3>2. to \in [own -> Allocations] /\ own \in SUBSET Launches
            BY <2>1, <2>6, <3>1 DEF IInv, TypeInv, Plan, Allocation
        <3>3. \A l \in own : spent[l] <= book[to[l]] /\ claims[to[l]] = l /\ AllocationVerified(l)
            BY <2>1, <2>4, <2>6, <3>1, SpentWithinAllocation
        <3>4. \A k, l \in own : to[k] = to[l] => k = l
            BY <3>3
        <3>5. book \in [Allocations -> Nat]
            BY <2>1, ReleaseAssumption DEF IInv, TypeInv
        <3>6. IsFiniteSet(Launches) /\ IsFiniteSet(Allocations)
            BY ReleaseAssumption
        <3>7. SumFunction(spent) <= SumFunction(book)
            BY <2>4, <2>7, <3>2, <3>3, <3>4, <3>5, <3>6, SumBelow
        <3>8. SumFunction(book) = Envelopes
            BY <3>5, BookIs DEF Envelopes
        <3>9. Envelopes <= Remaining
            BY <2>9, <3>3 DEF AllocationVerified
        <3>10. SumFunction(spent) \in Int /\ SumFunction(book) \in Int
            <4>1. spent \in [Launches -> Int] /\ book \in [Allocations -> Int]
                BY <2>4, <3>5
            <4>2. QED
                BY <3>6, <4>1, SumType
        <3>11. PICK a, b, c : a = SumFunction(spent) /\ b = SumFunction(book) /\ c = Remaining
            OBVIOUS
        <3>12. a <= b /\ b <= c /\ a \in Int /\ b \in Int /\ c \in Int
            BY <3>7, <3>8, <3>9, <3>10, <3>11, ReleaseAssumption
        <3>13. a <= c
            BY <3>12
        <3>14. QED
            BY <2>5, <3>11, <3>13
    <2>10. QED
        BY <2>8, <2>9
<1>2. QED
    BY <1>1, ReleaseInvariance, PTL

(* A run that its accounting, or the report of a direct run, calls         *)
(* complete has done every case, and of every call the usage is known and  *)
(* the model one of those allowed: no stop, failed case or cut-off call    *)
(* is lost on the way to the verdict.                                      *)
THEOREM CompletenessKnown == Spec => []CompleteIsKnown
<1>1. IInv => CompleteIsKnown
    <2>1. SUFFICES ASSUME IInv, NEW l \in Launches,
                          accounting[l] = "COMPLETE" \/ report[l] = "COMPLETE"
                   PROVE  /\ unit[l] = Units + 1
                          /\ \A i \in DOMAIN calls[l] :
                                calls[l][i].used \in 1..Reserve /\ calls[l][i].model = "allowed"
        BY DEF CompleteIsKnown
    <2>2. DOMAIN calls[l] = 1..Len(calls[l])
        BY <2>1 DEF IInv, TypeInv
    <2>3. QED
        BY <2>1, <2>2 DEF IInv, KnownInv, Known
<1>2. QED
    BY <1>1, ReleaseInvariance, PTL
=============================================================================
