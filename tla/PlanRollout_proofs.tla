------------------------- MODULE PlanRollout_proofs -------------------------
(***************************************************************************)
(* Theorems about PlanRollout and RolloutDag, for any items, files, edits  *)
(* and crashes, and an order of any length: a plan that can be started is  *)
(* whole and can be worked through, a refusal has the cause it gives, and  *)
(* the manager builds no two items at once that change the same file.      *)
(*                                                                         *)
(* Kahn's algorithm is proved from its rounds.  A fact of the form "in     *)
(* every round" is shown by the least round, or the least rank, at which   *)
(* it would fail, so that no induction over a recursive definition is      *)
(* needed.                                                                 *)
(*                                                                         *)
(* The inductive invariant PlanIInv is the conjunction of                  *)
(*   TypesOK     the types;                                                *)
(*   StageInv    the status of the rollout at each place of the request;   *)
(*   GraphInv    the edges are those of the blockers of one moment, or     *)
(*               there are none yet, and Kahn's verdict on them is known;  *)
(*   RowsInv     the positions that have their row, each its own;          *)
(*   ManagerInv  what is begun came after what the plan puts before it;    *)
(*   JudgeInv    the failures found so far are those of the items seen.    *)
(* The sections below take the graph first, then the request, then the     *)
(* invariant, one lemma per part and per kind of step.                     *)
(***************************************************************************)
EXTENDS PlanRollout, TLAPS, FiniteSetTheorems, WellFoundedInduction, SequenceTheorems

-----------------------------------------------------------------------------
(* The least of some numbers *)

LEMMA Least ==
  ASSUME NEW S, S \subseteq Nat, S # {}
  PROVE  \E n \in S : \A m \in S : n <= m
PROOF
<1>1. PICK n \in S : \A m \in S : <<m, n>> \notin OpToRel(<, Nat)
  BY NatLessThanWellFounded, WFMin
<1>2. \A m \in S : ~(m < n)
  BY <1>1 DEF OpToRel
<1> QED BY <1>2

-----------------------------------------------------------------------------
(* Kahn's algorithm by rounds *)

LEMMA OrderDomain ==
  ASSUME NEW order \in Seq(Item)
  PROVE  /\ Len(order) \in Nat /\ DOMAIN order = 1..Len(order)
         /\ \A k \in DOMAIN order : order[k] \in Item
         /\ IsFiniteSet(DOMAIN order) /\ Cardinality(DOMAIN order) = Len(order)
PROOF
<1>1. /\ Len(order) \in Nat /\ DOMAIN order = 1..Len(order)
      /\ \A k \in DOMAIN order : order[k] \in Item
  OBVIOUS
<1>2. IsFiniteSet(1..Len(order)) /\ Cardinality(1..Len(order)) = Len(order)
  BY <1>1, FS_Interval
<1> QED BY <1>1, <1>2

Round(edges, order, g, n) ==
  IF n = 0 THEN {} ELSE {k \in DOMAIN order : Released(edges, order, g[n - 1], k)}
Rounded(edges, order, N, f) == f = [n \in 0..N |-> Round(edges, order, f, n)]

\* There are rounds, up to any number of them.
LEMMA RoundsExist ==
  ASSUME NEW edges, NEW order, NEW N \in Nat
  PROVE  \E f : Rounded(edges, order, N, f)
PROOF
<1> DEFINE R(g, n) == Round(edges, order, g, n)
           Bad == {n \in Nat : ~\E f : Rounded(edges, order, n, f)}
<1>1. CASE Bad = {}
  BY <1>1
<1>2. CASE Bad # {}
  <2>1. PICK n \in Bad : \A m \in Bad : n <= m
    BY <1>2, Least
  <2>2. CASE n = 0
    <3>1. PICK f : f = [m \in 0..0 |-> {}]
      OBVIOUS
    <3>2. \A m \in 0..0 : R(f, m) = {}
      BY DEF Round
    <3>3. f = [m \in 0..0 |-> R(f, m)]
      BY <3>1, <3>2
    <3> QED BY <2>1, <2>2, <3>3 DEF Rounded
  <2>3. CASE n # 0
    <3>1. n - 1 \in Nat /\ ~(n <= n - 1)
      BY <2>3
    <3>2. PICK f : f = [m \in 0..(n - 1) |-> R(f, m)]
      BY <2>1, <3>1 DEF Rounded
    <3>3. PICK g : g = [m \in 0..n |-> IF m = n THEN R(f, n) ELSE f[m]]
      OBVIOUS
    <3>4. \A m \in 0..(n - 1) : g[m] = f[m]
      BY <3>1, <3>3
    <3>5. ASSUME NEW m \in 0..n PROVE R(g, m) = IF m = n THEN R(f, n) ELSE f[m]
      <4>1. R(g, m) = R(f, m)
        <5>1. CASE m = 0
          BY <5>1 DEF Round
        <5>2. CASE m # 0
          <6>1. m - 1 \in 0..(n - 1) /\ g[m - 1] = f[m - 1]
            BY <5>2, <3>1, <3>4
          <6> QED BY <6>1, <5>2 DEF Round
        <5> QED BY <5>1, <5>2
      <4>2. m # n => f[m] = R(f, m)
        <5> HIDE DEF R
        <5>1. m # n => m \in 0..(n - 1)
          BY <3>1
        <5> QED BY <5>1, <3>2
      <4> QED BY <4>1, <4>2
    <3> HIDE DEF R
    <3>6. g = [m \in 0..n |-> R(g, m)]
      BY <3>3, <3>5
    <3>7. Rounded(edges, order, n, g)
      BY <3>6 DEF Rounded, R
    <3> QED BY <2>1, <3>7
  <2> QED BY <2>1, <2>2, <2>3
<1> QED BY <1>1, <1>2

LEMMA RoundsStep ==
  ASSUME NEW edges, NEW order \in Seq(Item)
  PROVE  /\ Rounds(edges, order)[0] = {}
         /\ \A n \in 1..Len(order) :
              Rounds(edges, order)[n] =
                {k \in DOMAIN order : Released(edges, order, Rounds(edges, order)[n - 1], k)}
PROOF
<1>1. Len(order) \in Nat
  OBVIOUS
<1>2. \E f : Rounded(edges, order, Len(order), f)
  BY <1>1, RoundsExist
<1>3. Rounds(edges, order) = CHOOSE f : Rounded(edges, order, Len(order), f)
  BY DEF Rounds, Rounded, Round
<1>4. Rounded(edges, order, Len(order), Rounds(edges, order))
  BY <1>2, <1>3
<1>5. PICK r : r = Rounds(edges, order)
  OBVIOUS
<1>6. \A n \in 0..Len(order) : r[n] = Round(edges, order, r, n)
  BY <1>4, <1>5 DEF Rounded
<1>7. r[0] = {}
  <2>1. Round(edges, order, r, 0) = {}
    BY DEF Round
  <2> QED BY <2>1, <1>1, <1>6
<1>8. ASSUME NEW n \in 1..Len(order)
      PROVE  r[n] = {k \in DOMAIN order : Released(edges, order, r[n - 1], k)}
  <2>1. n # 0 /\ r[n] = Round(edges, order, r, n)
    BY <1>1, <1>6
  <2>2. Round(edges, order, r, n) = {k \in DOMAIN order : Released(edges, order, r[n - 1], k)}
    BY <2>1 DEF Round
  <2> QED BY <2>1, <2>2
<1> QED BY <1>5, <1>7, <1>8

\* Every item of the order is named once.
Once(order) == \A j, k \in DOMAIN order : order[j] = order[k] => j = k
Within2(edges, order) == edges \subseteq Members(order) \X Members(order)

LEMMA MembersCount ==
  ASSUME NEW order \in Seq(Item)
  PROVE  /\ Members(order) \subseteq Item /\ IsFiniteSet(Members(order))
         /\ Cardinality(Members(order)) \in Nat /\ Cardinality(Item) \in Nat
         /\ Cardinality(Members(order)) <= Cardinality(Item)
         /\ Cardinality(Members(order)) <= Len(order)
         /\ Cardinality(Members(order)) = Len(order) <=> Once(order)
PROOF
<1>1. /\ Len(order) \in Nat /\ DOMAIN order = 1..Len(order) /\ IsFiniteSet(DOMAIN order)
      /\ Cardinality(DOMAIN order) = Len(order) /\ \A k \in DOMAIN order : order[k] \in Item
  BY OrderDomain
<1>2. Members(order) \subseteq Item /\ IsFiniteSet(Item)
  BY <1>1, PlanAssumption DEF Members
<1>3. IsFiniteSet(Members(order)) /\ Cardinality(Members(order)) <= Cardinality(Item)
  BY <1>2, FS_Subset
<1>4. PICK f : f = [k \in DOMAIN order |-> order[k]]
  OBVIOUS
<1>5. f \in Surjection(DOMAIN order, Members(order))
  BY <1>4 DEF Surjection, Members
<1>6. Cardinality(Members(order)) <= Len(order)
  BY <1>1, <1>5, FS_Surjection
<1>7. Cardinality(Members(order)) = Len(order) <=> f \in Injection(DOMAIN order, Members(order))
  BY <1>1, <1>5, FS_Surjection
<1>8. f \in Injection(DOMAIN order, Members(order)) <=> Once(order)
  BY <1>4 DEF Injection, IsInjective, Members, Once
<1>9. Cardinality(Members(order)) \in Nat /\ Cardinality(Item) \in Nat
  BY <1>2, <1>3, FS_CardinalityType
<1> QED BY <1>2, <1>3, <1>6, <1>7, <1>8, <1>9

\* An item is taken when all that it waits for was.
LEMMA TakenAfter ==
  ASSUME NEW order \in Seq(Item), Once(order), NEW edges, Within2(edges, order),
         NEW popped \in SUBSET DOMAIN order, NEW k \in DOMAIN order
  PROVE  Released(edges, order, popped, k)
           <=> \A e \in edges : e[2] = order[k] => \E j \in popped : order[j] = e[1]
PROOF
<1> DEFINE Need == Preds(edges, order[k])
           Got == {j \in popped : order[j] \in Need}
<1>1. /\ Need \subseteq Members(order)
      /\ \A p : p \in Need <=> \E e \in edges : e[2] = order[k] /\ e[1] = p
  BY DEF Preds, Within2
<1>2. IsFiniteSet(Need) /\ IsFiniteSet(Got)
  BY <1>1, MembersCount, OrderDomain, FS_Subset
<1>3. FirstOf(order, k)
  <2>1. ASSUME NEW j \in 1..(k - 1) PROVE order[j] # order[k]
    <3>1. j \in DOMAIN order /\ j # k
      BY OrderDomain
    <3> QED BY <3>1 DEF Once
  <2> QED BY <2>1 DEF FirstOf
<1>4. PICK f : f = [j \in Got |-> order[j]]
  OBVIOUS
<1>5. f \in Injection(Got, Need)
  BY <1>4 DEF Injection, IsInjective, Once
<1>6. /\ Cardinality(Got) <= Cardinality(Need)
      /\ Cardinality(Got) = Cardinality(Need) <=> f \in Surjection(Got, Need)
  BY <1>2, <1>5, FS_Injection
<1>7. Cardinality(Got) \in Nat /\ Cardinality(Need) \in Nat
  BY <1>2, FS_CardinalityType
<1>8. Cardinality(Got) >= Cardinality(Need) <=> f \in Surjection(Got, Need)
  BY <1>6, <1>7
<1>9. f \in Surjection(Got, Need) <=> \A p \in Need : \E j \in popped : order[j] = p
  BY <1>4, <1>5 DEF Surjection, Injection
<1>10. Released(edges, order, popped, k) <=> Need = {} \/ Cardinality(Got) >= Cardinality(Need)
  BY <1>3 DEF Released
<1> HIDE DEF Need, Got
<1>11. Released(edges, order, popped, k) <=> \A p \in Need : \E j \in popped : order[j] = p
  BY <1>8, <1>9, <1>10
<1> QED BY <1>1, <1>11

LEMMA RoundsFacts ==
  ASSUME NEW order \in Seq(Item), Once(order), NEW edges, Within2(edges, order)
  PROVE  \E r : /\ r = Rounds(edges, order) /\ r[0] = {}
                /\ \A n \in 0..Len(order) : r[n] \in SUBSET DOMAIN order
                /\ \A n \in 1..Len(order), k \in DOMAIN order :
                     k \in r[n] <=> \A e \in edges : e[2] = order[k]
                                      => \E j \in r[n - 1] : order[j] = e[1]
PROOF
<1>1. PICK r : r = Rounds(edges, order)
  OBVIOUS
<1>2. r[0] = {} /\ \A n \in 1..Len(order) :
        r[n] = {k \in DOMAIN order : Released(edges, order, r[n - 1], k)}
  BY <1>1, RoundsStep
<1>3. Len(order) \in Nat
  OBVIOUS
<1>4. \A n \in 0..Len(order) : r[n] \in SUBSET DOMAIN order
  <2>1. ASSUME NEW n \in 0..Len(order) PROVE r[n] \in SUBSET DOMAIN order
    <3>1. CASE n = 0
      BY <1>2, <3>1
    <3>2. CASE n # 0
      <4>1. n \in 1..Len(order)
        BY <3>2
      <4> QED BY <4>1, <1>2
    <3> QED BY <3>1, <3>2
  <2> QED BY <2>1
<1>5. ASSUME NEW n \in 1..Len(order), NEW k \in DOMAIN order
      PROVE  k \in r[n] <=> \A e \in edges : e[2] = order[k]
                              => \E j \in r[n - 1] : order[j] = e[1]
  <2>1. k \in r[n] <=> Released(edges, order, r[n - 1], k)
    BY <1>2
  <2>2. n - 1 \in 0..Len(order)
    BY <1>3
  <2>3. r[n - 1] \in SUBSET DOMAIN order
    BY <2>2, <1>4
  <2> QED BY <2>1, <2>3, TakenAfter
<1> QED BY <1>1, <1>2, <1>4, <1>5

\* If all positions are taken, the rounds rank the items.
LEMMA TakenIsWorkable ==
  ASSUME NEW order \in Seq(Item), Once(order), NEW edges, Within2(edges, order),
         AssertAcyclic(edges, order)
  PROVE  Workable(edges)
PROOF
<1> DEFINE N == Len(order)
<1>1. PICK r : /\ r = Rounds(edges, order) /\ r[0] = {}
               /\ \A n \in 0..Len(order) : r[n] \in SUBSET DOMAIN order
               /\ \A n \in 1..Len(order), k \in DOMAIN order :
                    k \in r[n] <=> \A e \in edges : e[2] = order[k]
                                     => \E j \in r[n - 1] : order[j] = e[1]
  BY RoundsFacts
<1>2. N \in Nat /\ N <= Cardinality(Item) /\ Cardinality(Item) \in Nat
  BY MembersCount
<1>3. r[N] = DOMAIN order
  <2>1. Cardinality(r[N]) = Cardinality(DOMAIN order) /\ IsFiniteSet(DOMAIN order)
    BY <1>1, OrderDomain DEF AssertAcyclic, Popped
  <2>2. r[N] \in SUBSET DOMAIN order
    BY <1>1, <1>2
  <2> QED BY <2>1, <2>2, FS_Subset
<1> DEFINE In(i, n) == \E k \in r[n] : order[k] = i
<1>4. ASSUME NEW i \in Members(order)
      PROVE  \E n \in 1..N : In(i, n) /\ \A m \in 0..N : In(i, m) => n <= m
  <2>1. PICK k \in DOMAIN order : order[k] = i
    BY DEF Members
  <2>2. In(i, N)
    BY <2>1, <1>3
  <2>3. PICK S : S = {n \in 0..N : In(i, n)}
    OBVIOUS
  <2>4. N \in S /\ S \subseteq Nat
    BY <2>2, <2>3, <1>2
  <2>5. PICK n \in S : \A m \in S : n <= m
    BY <2>4, Least
  <2>6. n # 0
    BY <2>3, <2>5, <1>1
  <2> QED BY <2>3, <2>5, <2>6, <1>2
<1>5. PICK rank : rank = [i \in Item |->
        IF i \in Members(order)
        THEN CHOOSE n \in 1..N : In(i, n) /\ \A m \in 0..N : In(i, m) => n <= m
        ELSE 1]
  OBVIOUS
<1> HIDE DEF In
<1>6. \A i \in Members(order) :
        rank[i] \in 1..N /\ In(i, rank[i]) /\ \A m \in 0..N : In(i, m) => rank[i] <= m
  BY <1>4, <1>5, MembersCount
<1>7. rank \in [Item -> 1..Cardinality(Item)]
  <2>1. ASSUME NEW i \in Item PROVE rank[i] \in 1..Cardinality(Item)
    <3>1. CASE i \in Members(order)
      BY <3>1, <1>6, <1>2
    <3>2. CASE i \notin Members(order)
      <4>1. rank[i] = 1
        BY <3>2, <1>5
      <4>2. Cardinality(Item) # 0
        BY PlanAssumption, FS_EmptySet
      <4> QED BY <4>1, <4>2, <1>2
    <3> QED BY <3>1, <3>2
  <2> QED BY <2>1, <1>5
<1>8. ASSUME NEW e \in edges PROVE rank[e[1]] < rank[e[2]]
  <2>1. e[1] \in Members(order) /\ e[2] \in Members(order)
    BY DEF Within2
  <2>2. PICK n : n = rank[e[2]]
    OBVIOUS
  <2>3. n \in 1..N /\ In(e[2], n)
    BY <2>1, <2>2, <1>6
  <2>4. PICK k \in r[n] : order[k] = e[2]
    BY <2>3 DEF In
  <2>5. k \in DOMAIN order
    BY <2>3, <1>1, <1>2
  <2>6. PICK j \in r[n - 1] : order[j] = e[1]
    BY <2>3, <2>4, <2>5, <1>1
  <2>7. In(e[1], n - 1) /\ n - 1 \in 0..N
    BY <2>3, <2>6, <1>2 DEF In
  <2>8. rank[e[1]] <= n - 1 /\ rank[e[1]] \in 1..N
    BY <2>1, <2>7, <1>6
  <2> QED BY <2>2, <2>3, <2>8, <1>2
<1> QED BY <1>7, <1>8 DEF Workable

\* If the items can be ranked, each round takes one more, to the end.
LEMMA WorkableIsTaken ==
  ASSUME NEW order \in Seq(Item), Once(order), NEW edges, Within2(edges, order), Workable(edges)
  PROVE  AssertAcyclic(edges, order)
PROOF
<1> DEFINE N == Len(order)
           D == DOMAIN order
<1>1. PICK r : /\ r = Rounds(edges, order) /\ r[0] = {}
               /\ \A n \in 0..Len(order) : r[n] \in SUBSET DOMAIN order
               /\ \A n \in 1..Len(order), k \in DOMAIN order :
                    k \in r[n] <=> \A e \in edges : e[2] = order[k]
                                     => \E j \in r[n - 1] : order[j] = e[1]
  BY RoundsFacts
<1>2. N \in Nat /\ IsFiniteSet(D) /\ Cardinality(D) = N /\ \A k \in D : order[k] \in Item
  BY OrderDomain
<1>3. PICK rank \in [Item -> 1..Cardinality(Item)] : \A e \in edges : rank[e[1]] < rank[e[2]]
  BY DEF Workable
<1>4. Cardinality(Item) \in Nat
  BY MembersCount
<1> HIDE DEF N, D
<1>5. \A n \in 1..N : r[n - 1] \subseteq r[n]
  <2>1. PICK S : S = {n \in 1..N : ~(r[n - 1] \subseteq r[n])}
    OBVIOUS
  <2>2. ASSUME S # {} PROVE FALSE
    <3>1. S \subseteq Nat
      BY <2>1, <1>2
    <3>2. PICK n \in S : \A m \in S : n <= m
      BY <2>2, <3>1, Least
    <3>3. n # 1 /\ n \in 1..N
      BY <2>1, <3>2, <1>1, <1>2
    <3>4. n - 1 \in 1..N /\ n - 1 \notin S /\ (n - 1) - 1 = n - 2
      BY <3>2, <3>3, <1>2
    <3>5. r[n - 2] \subseteq r[n - 1]
      BY <3>4, <2>1
    <3>6. ASSUME NEW k \in r[n - 1] PROVE k \in r[n]
      <4>1. k \in DOMAIN order
        BY <3>4, <1>1, <1>2 DEF N
      <4>2. \A e \in edges : e[2] = order[k] => \E j \in r[n - 2] : order[j] = e[1]
        BY <3>4, <4>1, <1>1 DEF N
      <4>3. \A e \in edges : e[2] = order[k] => \E j \in r[n - 1] : order[j] = e[1]
        BY <4>2, <3>5
      <4> QED BY <4>1, <4>3, <3>3, <1>1 DEF N
    <3> QED BY <3>2, <3>6, <2>1
  <2> QED BY <2>1, <2>2
<1>6. \A n \in 0..N : r[n] \subseteq D /\ IsFiniteSet(r[n]) /\ Cardinality(r[n]) \in Nat
  BY <1>1, <1>2, FS_Subset, FS_CardinalityType DEF N, D
<1>7. ASSUME NEW n \in 1..N, r[n - 1] # D
      PROVE  \E k \in r[n] : k \notin r[n - 1]
  <2>1. n - 1 \in 0..N
    BY <1>2
  <2>2. PICK S : S = {rank[order[k]] : k \in D \ r[n - 1]}
    OBVIOUS
  <2>3. S # {} /\ S \subseteq Nat
    <3>1. r[n - 1] \subseteq D
      BY <2>1, <1>6
    <3>2. PICK k \in D : k \notin r[n - 1]
      BY <3>1, <1>7
    <3>3. rank[order[k]] \in S
      BY <3>2, <2>2
    <3>4. \A m \in S : m \in 1..Cardinality(Item)
      BY <2>2, <1>2, <1>3
    <3> QED BY <3>3, <3>4, <1>4
  <2>4. PICK low \in S : \A m \in S : low <= m
    BY <2>3, Least
  <2>5. PICK k \in D \ r[n - 1] : rank[order[k]] = low
    BY <2>2, <2>4
  <2>6. ASSUME NEW e \in edges, e[2] = order[k]
        PROVE  \E j \in r[n - 1] : order[j] = e[1]
    <3>1. rank[e[1]] < low /\ e[1] \in Members(order)
      BY <2>5, <2>6, <1>3 DEF Within2
    <3>2. PICK j \in D : order[j] = e[1]
      BY <3>1 DEF Members, D
    <3>3. order[j] \in Item /\ rank[order[j]] \in Nat /\ low \in Nat
      BY <3>2, <1>2, <1>3, <1>4, <2>3, <2>4
    <3>4. rank[order[j]] \notin S
      BY <3>1, <3>2, <3>3, <2>4
    <3> QED BY <3>2, <3>4, <2>2
  <2>7. k \in r[n]
    BY <2>5, <2>6, <1>1 DEF D, N
  <2> QED BY <2>5, <2>7
<1>8. \A n \in 0..N : r[n] = D \/ n <= Cardinality(r[n])
  <2>1. PICK S : S = {n \in 0..N : ~(r[n] = D \/ n <= Cardinality(r[n]))}
    OBVIOUS
  <2>2. ASSUME S # {} PROVE FALSE
    <3>1. S \subseteq Nat
      BY <2>1, <1>2
    <3>2. PICK n \in S : \A m \in S : n <= m
      BY <2>2, <3>1, Least
    <3>3. n # 0
      BY <2>1, <3>2, <1>6
    <3>4. n \in 1..N /\ n - 1 \in 0..N /\ n - 1 \notin S
      BY <2>1, <3>2, <3>3, <1>2
    <3>5. r[n - 1] \subseteq r[n] /\ r[n] \subseteq D
      BY <3>4, <1>5, <1>6
    <3>6. r[n - 1] # D
      <4>1. r[n] # D
        BY <3>2, <2>1
      <4> QED BY <4>1, <3>5
    <3>7. PICK k \in r[n] : k \notin r[n - 1]
      BY <3>4, <3>6, <1>7
    <3>8. n - 1 <= Cardinality(r[n - 1])
      BY <3>4, <3>6, <2>1
    <3>9. /\ IsFiniteSet(r[n - 1]) /\ Cardinality(r[n - 1]) \in Nat
          /\ IsFiniteSet(r[n]) /\ Cardinality(r[n]) \in Nat
      BY <3>4, <1>6
    <3>10. Cardinality(r[n - 1] \cup {k}) = Cardinality(r[n - 1]) + 1
      BY <3>7, <3>9, FS_AddElement
    <3>11. Cardinality(r[n - 1] \cup {k}) <= Cardinality(r[n])
      BY <3>5, <3>7, <3>9, FS_Subset
    <3>12. n <= Cardinality(r[n])
      BY <3>4, <3>8, <3>9, <3>10, <3>11
    <3> QED BY <3>2, <3>12, <2>1
  <2> QED BY <2>1, <2>2
<1>9. r[N] \subseteq D /\ (r[N] = D \/ N <= Cardinality(r[N])) /\ Cardinality(r[N]) \in Nat
  BY <1>2, <1>6, <1>8
<1>10. Cardinality(r[N]) <= Cardinality(D)
  BY <1>2, <1>9, FS_Subset
<1>11. Cardinality(r[N]) = N
  BY <1>2, <1>9, <1>10
<1> QED BY <1>1, <1>11 DEF AssertAcyclic, Popped, N

\* Edges that go forward in the order can be worked through.
LEMMA ForwardIsWorkable ==
  ASSUME NEW order \in Seq(Item), Once(order), NEW edges,
         \A e \in edges : \E j, k \in DOMAIN order : j < k /\ e = <<order[j], order[k]>>
  PROVE  Workable(edges)
PROOF
<1>1. /\ Len(order) \in Nat /\ DOMAIN order = 1..Len(order) /\ Cardinality(Item) \in Nat
      /\ Len(order) <= Cardinality(Item) /\ \A k \in DOMAIN order : order[k] \in Item
  BY OrderDomain, MembersCount
<1>2. PICK rank : rank = [i \in Item |-> IF i \in Members(order)
                                         THEN CHOOSE k \in DOMAIN order : order[k] = i ELSE 1]
  OBVIOUS
<1>3. ASSUME NEW k \in DOMAIN order PROVE rank[order[k]] = k
  <2>1. rank[order[k]] = CHOOSE j \in DOMAIN order : order[j] = order[k]
    BY <1>1, <1>2 DEF Members
  <2>2. rank[order[k]] \in DOMAIN order /\ order[rank[order[k]]] = order[k]
    BY <2>1
  <2> QED BY <2>2 DEF Once
<1>4. rank \in [Item -> 1..Cardinality(Item)]
  <2>1. ASSUME NEW i \in Item PROVE rank[i] \in 1..Cardinality(Item)
    <3>1. CASE i \in Members(order)
      <4>1. PICK k \in DOMAIN order : order[k] = i
        BY <3>1 DEF Members
      <4> QED BY <4>1, <1>1, <1>3
    <3>2. CASE i \notin Members(order)
      <4>1. rank[i] = 1
        BY <3>2, <1>2
      <4>2. Cardinality(Item) # 0
        BY PlanAssumption, FS_EmptySet
      <4> QED BY <4>1, <4>2, <1>1
    <3> QED BY <3>1, <3>2
  <2> QED BY <2>1, <1>2
<1>5. ASSUME NEW e \in edges PROVE rank[e[1]] < rank[e[2]]
  <2>1. PICK j \in DOMAIN order, k \in DOMAIN order : j < k /\ e = <<order[j], order[k]>>
    OBVIOUS
  <2>2. rank[e[1]] = j /\ rank[e[2]] = k
    BY <2>1, <1>3
  <2> QED BY <2>1, <2>2
<1> QED BY <1>4, <1>5 DEF Workable

-----------------------------------------------------------------------------
(* Files *)

LEMMA OnALine ==
  ASSUME NEW f \in Seq(Name), NEW p \in Seq(Name), NEW q \in Seq(Name),
         Within(p, f), Within(q, f), Len(p) <= Len(q)
  PROVE  Within(p, q)
PROOF
<1>1. p = SubSeq(f, 1, Len(p)) /\ q = SubSeq(f, 1, Len(q)) /\ Len(q) <= Len(f)
  BY DEF Within
<1>2. \A k \in 1..Len(p) : p[k] = f[k]
  BY <1>1
<1>3. \A k \in 1..Len(q) : q[k] = f[k]
  BY <1>1
<1>4. PICK s : s = SubSeq(q, 1, Len(p))
  OBVIOUS
<1>5. s \in Seq(Name) /\ Len(s) = Len(p) /\ \A k \in 1..Len(p) : s[k] = q[k]
  BY <1>4
<1>6. \A k \in 1..Len(p) : s[k] = p[k]
  BY <1>2, <1>3, <1>5
<1>7. s = p
  BY <1>5, <1>6
<1> QED BY <1>4, <1>7 DEF Within

\* Items that do not overlap touch no common file.
LEMMA ApartTouchesApart ==
  ASSUME NEW a \in SUBSET Entry, NEW b \in SUBSET Entry, ~PathsOverlap(a, b),
         ~NamesDottedDirectory(a), ~NamesDottedDirectory(b)
  PROVE  Touched(a) \cap Touched(b) = {}
PROOF
<1> SUFFICES ASSUME NEW f \in Touched(a), f \in Touched(b) PROVE FALSE
  OBVIOUS
<1>1. f \in File /\ f \in Seq(Name)
  BY PlanAssumption DEF Touched
<1>2. PICK x \in ItemPaths(a) : Within(x.at, f) /\ (x.is = "glob" => x.at # f)
  BY DEF Touched
<1>3. PICK y \in ItemPaths(b) : Within(y.at, f) /\ (y.is = "glob" => y.at # f)
  BY DEF Touched
<1>4. x.at \in Seq(Name) /\ x.is \in Shape /\ y.at \in Seq(Name) /\ y.is \in Shape
  BY DEF ItemPaths, Candidates, Entry
<1>5. (x.is = "file" => x.at = f) /\ (y.is = "file" => y.at = f)
  BY <1>1, <1>2, <1>3 DEF NamesDottedDirectory
<1>6. ~CandidatesOverlap(x, y)
  BY DEF PathsOverlap
<1>7. Within(x.at, y.at) \/ Within(y.at, x.at)
  <2>1. Len(x.at) \in Nat /\ Len(y.at) \in Nat
    BY <1>4
  <2>2. Len(x.at) <= Len(y.at) \/ Len(y.at) <= Len(x.at)
    BY <2>1
  <2> QED BY <2>2, <1>1, <1>2, <1>3, <1>4, OnALine
<1>8. CASE x.is = "file"
  <2>1. Within(y.at, x.at) /\ x.at = f
    BY <1>3, <1>5, <1>8
  <2>2. CASE y.is = "file"
    BY <2>1, <2>2, <1>5, <1>6, <1>8 DEF CandidatesOverlap, LiteralPathsOverlap
  <2>3. CASE y.is = "dir"
    BY <2>1, <2>3, <1>6, <1>8 DEF CandidatesOverlap, LiteralPathsOverlap
  <2>4. CASE y.is = "glob"
    BY <2>1, <2>4, <1>3, <1>6, <1>8 DEF CandidatesOverlap, Matches
  <2> QED BY <2>2, <2>3, <2>4, <1>4 DEF Shape
<1>9. CASE y.is = "file" /\ x.is # "file"
  <2>1. Within(x.at, y.at) /\ y.at = f
    BY <1>2, <1>5, <1>9
  <2>2. CASE x.is = "dir"
    BY <2>1, <2>2, <1>6, <1>9 DEF CandidatesOverlap, LiteralPathsOverlap
  <2>3. CASE x.is = "glob"
    BY <2>1, <2>3, <1>2, <1>6, <1>9 DEF CandidatesOverlap, Matches
  <2> QED BY <2>2, <2>3, <1>4, <1>9 DEF Shape
<1>10. CASE y.is # "file" /\ x.is # "file"
  <2>1. CASE x.is = "dir" /\ y.is = "dir"
    BY <2>1, <1>6, <1>7 DEF CandidatesOverlap, LiteralPathsOverlap
  <2>2. CASE x.is = "glob" \/ y.is = "glob"
    BY <2>2, <1>6, <1>7, <1>10 DEF CandidatesOverlap, OnOneLine
  <2> QED BY <2>1, <2>2, <1>4, <1>10 DEF Shape
<1> QED BY <1>8, <1>9, <1>10

-----------------------------------------------------------------------------
(* The inductive invariant *)

PlanRecord == [order : Seq(Item), pc : Serving \cup Answer, k : Nat \ {0},
               failures : SUBSET (Item \X Rule), found : SUBSET (Item \X Project),
               files : [Item -> SUBSET Entry],
               pairs : SUBSET (Item \X Item), edges : SUBSET (Item \X Item)]
RowStates     == {Nil, "pending", "ready", "dispatched"} \cup Outcome
RolloutStates == {Nil, "planning", "failed", "pending", "running", "completed"}
TypesOK ==
  /\ bounds \in Mixes /\ items \in [Item -> ItemRow \cup {Nil}]
  /\ blockers \in SUBSET (Item \X Item) /\ plan \in PlanRecord
  /\ status \in RolloutStates /\ graph \in (SUBSET (Item \X Item)) \cup {Nil}
  /\ rows \in [Item -> RowStates] /\ edits \in 0..(bounds.edits + bounds.deaths)

\* What is on record when the request is at each of its awaits.
Early == {"item", "blockers", "again", "config", "insert"}
Late  == {"failed", "cyclic", "graph", "rows", "promote", "planned"}
StageInv ==
  /\ plan.order = <<>> => plan.pc \in {"item", "invalid", "dead"}
  /\ plan.order # <<>> => plan.k \in 1..Len(plan.order)
  /\ plan.pc \in {"config", "insert", "derive", "graph"} => plan.k = 1
  /\ plan.pc \in Early \cup {"illegal", "invalid"} => status = Nil
  /\ plan.pc \in {"derive", "failed", "graph", "rows", "promote"} => status = "planning"
  /\ plan.pc = "cyclic" => status = "failed"
  /\ plan.pc = "planned" => status \in {"pending", "running", "completed"}
  /\ plan.pc \in {"error", "dead"} => status \in {Nil, "planning"}

\* The edges are of the blockers as they were at one moment.
Derived(B) == /\ plan.pairs = DependencyPairs(B, plan.order)
              /\ plan.edges = MergeEdges(plan.files, B, plan.order)
Underived  == /\ plan.pc \notin Late
              /\ plan.pairs = {} /\ plan.edges = {} /\ graph = Nil
WasDerived == /\ plan.pc \notin Early \cup {"derive"}
              /\ \E B \in SUBSET (Item \X Item) : Derived(B)
GraphInv ==
  /\ Underived \/ WasDerived
  /\ graph \in {Nil, plan.edges}
  /\ plan.pc \in {"rows", "promote", "planned"} => graph = plan.edges
  /\ plan.pc \in {"failed", "cyclic", "graph"} => graph = Nil
  /\ plan.pc \in {"failed", "cyclic"} => ~AssertAcyclic(plan.edges, plan.order)
  /\ plan.pc \in {"graph", "rows", "promote", "planned"} => AssertAcyclic(plan.edges, plan.order)

\* The first n positions have their rows, each its own.
Filled(n) ==
  /\ \A m \in 1..n : rows[plan.order[m]] # Nil \/ items[plan.order[m]] = Nil
  /\ \A l, m \in 1..n : plan.order[l] = plan.order[m] => l = m
RowsInv ==
  /\ \A i \in Item : rows[i] # Nil => i \in InPlan /\ items[i] # Nil /\ graph # Nil
  /\ plan.pc = "rows" => /\ Filled(plan.k - 1)
                         /\ \A i \in Item : rows[i] # Nil =>
                              \E m \in 1..(plan.k - 1) : plan.order[m] = i
  /\ plan.pc \in {"promote", "planned"} => Filled(Len(plan.order))
  /\ plan.pc = "error" /\ status = "planning" =>
       (\E i \in InPlan : items[i] = Nil) \/ Cardinality(InPlan) < Len(plan.order)

\* What the manager has begun came after what the plan puts first.
Whole   == \A i \in InPlan : items[i] # Nil
Begun   == {"dispatched"} \cup Outcome
Ahead(i) == Preds(plan.edges, i)
ManagerInv ==
  /\ status \notin {"running", "completed"} => \A i \in Item : rows[i] \notin Begun
  /\ \A i \in Item : rows[i] \in Begun => \A p \in Ahead(i) : Over(p) \/ items[p] = Nil
  /\ Whole => \A i \in Item : rows[i] \in {"pending", "ready"} =>
                (rows[i] = "ready" <=> \A p \in Ahead(i) : Over(p))
  /\ Whole /\ status \in {"pending", "running"} => \E i \in InPlan : ~Over(i)

\* The failures found so far, while nobody edits.
Seen == {plan.order[m] : m \in 1..(plan.k - 1)}
Faults(S) ==
  {f \in S \X Rule :
     LET row == items[f[1]] IN
     IF row = Nil THEN f[2] = "missing"
     ELSE f[2] \in OwnFailures(row) \/ (f[2] = "blockers" /\ Unresolved(f[1]) \ InPlan # {})}
FoundIn(S) == {<<i, items[i].project>> : i \in {j \in S : items[j] # Nil}}
Judgement ==
  /\ plan.pc = "item" => plan.failures = Faults(Seen) /\ plan.found = FoundIn(Seen)
  /\ plan.pc = "blockers" =>
       /\ items[Current] # Nil
       /\ plan.failures = Faults(Seen) \cup ({Current} \X OwnFailures(items[Current]))
       /\ plan.found = FoundIn(Seen \cup {Current})
  /\ plan.pc = "illegal" => plan.failures = Broken /\ Broken # {}
  /\ plan.pc \notin {"item", "blockers", "illegal", "invalid"} => Broken = {}
JudgeInv == edits = 0 /\ status \notin {"running", "completed"} => Judgement

PlanIInv == TypesOK /\ StageInv /\ GraphInv /\ RowsInv /\ ManagerInv /\ JudgeInv

-----------------------------------------------------------------------------
(* Steps of the request *)

Places == Serving \cup Answer
\* All but the place, and what a step of the request leaves alone.
SameFields(x, y) ==
  /\ x.order = y.order /\ x.failures = y.failures /\ x.found = y.found
  /\ x.files = y.files /\ x.pairs = y.pairs /\ x.edges = y.edges
SameGraph(x, y) == x.order = y.order /\ x.pairs = y.pairs /\ x.edges = y.edges

LEMMA OrderFacts ==
  ASSUME TypesOK
  PROVE  /\ plan.order \in Seq(Item) /\ Len(plan.order) \in Nat
         /\ DOMAIN plan.order = 1..Len(plan.order)
         /\ \A m \in 1..Len(plan.order) : plan.order[m] \in Item /\ plan.order[m] \in InPlan
         /\ InPlan \subseteq Item
         /\ \A i \in InPlan : \E m \in 1..Len(plan.order) : plan.order[m] = i
PROOF
<1>1. plan.order \in Seq(Item)
  BY DEF TypesOK, PlanRecord
<1> QED BY <1>1, OrderDomain DEF InPlan, Members

LEMMA CurrentFacts ==
  ASSUME TypesOK, StageInv, plan.order # <<>>
  PROVE  plan.k \in 1..Len(plan.order) /\ Current \in Item /\ Current \in InPlan
PROOF BY OrderFacts DEF StageInv, Current

LEMMA GoFacts ==
  ASSUME TypesOK, NEW pc \in Places, Go(pc)
  PROVE  /\ plan' \in PlanRecord /\ plan'.pc = pc /\ plan'.k = plan.k
         /\ SameFields(plan', plan)
PROOF
<1>1. plan \in PlanRecord /\ plan' = [plan EXCEPT !.pc = pc]
  BY DEF TypesOK, Go
<1> QED BY <1>1 DEF PlanRecord, SameFields, Places

LEMMA OnwardFacts ==
  ASSUME TypesOK, StageInv, plan.order # <<>>, NEW x \in PlanRecord, x.k = plan.k,
         NEW pc \in Places
  PROVE  /\ Onward(x, pc) \in PlanRecord /\ SameFields(Onward(x, pc), x)
         /\ plan.k < Len(plan.order) => /\ Onward(x, pc).pc = x.pc
                                        /\ Onward(x, pc).k = plan.k + 1
         /\ plan.k >= Len(plan.order) => Onward(x, pc).pc = pc /\ Onward(x, pc).k = 1
PROOF
<1>1. plan.k \in 1..Len(plan.order) /\ Len(plan.order) \in Nat
  BY CurrentFacts, OrderFacts
<1>2. CASE plan.k < Len(plan.order)
  <2>1. Onward(x, pc) = [x EXCEPT !.k = x.k + 1]
    BY <1>2 DEF Onward
  <2>2. x.k + 1 \in Nat \ {0}
    BY <1>1
  <2> QED BY <1>1, <1>2, <2>1, <2>2 DEF PlanRecord, SameFields
<1>3. CASE ~(plan.k < Len(plan.order))
  <2>1. PICK y : y = [x EXCEPT !.k = 1, !.pc = pc]
    OBVIOUS
  <2>2. Onward(x, pc) = y
    BY <1>3, <2>1 DEF Onward
  <2>3. PICK one \in Nat \ {0} : one = 1
    OBVIOUS
  <2>4. y = [x EXCEPT !.k = one, !.pc = pc]
    BY <2>1, <2>3
  <2>5. y \in PlanRecord /\ SameFields(y, x) /\ y.pc = pc /\ y.k = one
    BY <2>4 DEF PlanRecord, SameFields, Places
  <2> QED BY <1>1, <1>3, <2>2, <2>3, <2>5
<1> QED BY <1>2, <1>3

LEMMA JudgedFacts ==
  ASSUME TypesOK, StageInv, plan.order # <<>>, NEW x \in PlanRecord, x.k = plan.k,
         x.order = plan.order
  PROVE  /\ Judged(x) \in PlanRecord /\ SameGraph(Judged(x), x)
         /\ Judged(x).found = x.found /\ Judged(x).files = x.files
         /\ plan.k < Len(plan.order) =>
              Judged(x).pc = "item" /\ Judged(x).k = plan.k + 1 /\ Judged(x).failures = x.failures
         /\ plan.k >= Len(plan.order) =>
              /\ Judged(x).k = 1
              /\ Judged(x).failures = x.failures \cup Mismatches(x.found)
              /\ Judged(x).pc = IF Judged(x).failures = {} THEN "again" ELSE "illegal"
PROOF
<1>1. plan.k \in 1..Len(plan.order) /\ Len(plan.order) \in Nat
  BY CurrentFacts, OrderFacts
<1>2. Mismatches(x.found) \subseteq Item \X Rule
  BY DEF Mismatches, PlanRecord, Rule
<1>3. PICK all : all = x.failures \cup Mismatches(x.found)
  OBVIOUS
<1>4. all \subseteq Item \X Rule
  BY <1>2, <1>3 DEF PlanRecord
<1>5. PICK y : y = [x EXCEPT !.pc = "item"]
  OBVIOUS
<1>6. y \in PlanRecord /\ SameFields(y, x) /\ y.k = plan.k /\ y.pc = "item"
  BY <1>5 DEF PlanRecord, SameFields, Serving
<1>7. PICK pc \in Places : pc = IF all = {} THEN "again" ELSE "illegal"
  BY DEF Places, Serving, Answer
<1>8. PICK z : z = Onward(y, pc)
  OBVIOUS
<1>9. /\ z \in PlanRecord /\ SameFields(z, y)
      /\ plan.k < Len(plan.order) => z.pc = "item" /\ z.k = plan.k + 1
      /\ plan.k >= Len(plan.order) => z.pc = pc /\ z.k = 1
  BY <1>6, <1>8, OnwardFacts
<1>10. Judged(x) = IF plan.k < Len(plan.order) THEN z ELSE [z EXCEPT !.failures = all]
  BY <1>3, <1>5, <1>7, <1>8 DEF Judged
<1>11. CASE plan.k < Len(plan.order)
  <2>1. Judged(x) = z
    BY <1>10, <1>11
  <2> QED BY <2>1, <1>1, <1>6, <1>9, <1>11 DEF SameFields, SameGraph
<1>12. CASE ~(plan.k < Len(plan.order))
  <2>1. Judged(x) = [z EXCEPT !.failures = all] /\ plan.k >= Len(plan.order)
    BY <1>1, <1>10, <1>12
  <2>2. PICK w : w = [z EXCEPT !.failures = all]
    OBVIOUS
  <2>3. /\ w \in PlanRecord /\ SameGraph(w, z) /\ w.found = z.found /\ w.files = z.files
        /\ w.failures = all /\ w.k = z.k /\ w.pc = z.pc
    BY <1>4, <1>9, <2>2 DEF PlanRecord, SameGraph
  <2>4. Judged(x) = w
    BY <2>1, <2>2
  <2> QED BY <2>1, <2>3, <2>4, <1>3, <1>6, <1>7, <1>9, <1>12 DEF SameFields, SameGraph
<1> QED BY <1>11, <1>12

\* An item was judged, with failures fl and found fd before it is the last.
JudgedTo(fl, fd) ==
  /\ plan' \in PlanRecord /\ SameGraph(plan', plan) /\ plan'.found = fd /\ plan'.files = plan.files
  /\ plan.k < Len(plan.order) =>
       plan'.pc = "item" /\ plan'.k = plan.k + 1 /\ plan'.failures = fl
  /\ plan.k >= Len(plan.order) =>
       /\ plan'.k = 1 /\ plan'.failures = fl \cup Mismatches(fd)
       /\ plan'.pc = IF plan'.failures = {} THEN "again" ELSE "illegal"

LEMMA ReadItemFacts ==
  ASSUME TypesOK, StageInv, ReadItem
  PROVE  /\ plan.pc = "item" /\ plan.order # <<>> /\ UNCHANGED <<board, rollout>>
         /\ plan' \in PlanRecord /\ SameGraph(plan', plan)
         /\ items[Current] = Nil =>
              JudgedTo(plan.failures \cup {<<Current, "missing">>}, plan.found)
         /\ items[Current] # Nil =>
              /\ plan'.pc = "blockers" /\ plan'.k = plan.k
              /\ plan'.found = plan.found \cup {<<Current, items[Current].project>>}
              /\ plan'.failures = plan.failures \cup ({Current} \X OwnFailures(items[Current]))
PROOF
<1>1. plan.pc = "item" /\ plan.order # <<>> /\ UNCHANGED <<board, rollout>>
  BY DEF ReadItem
<1>2. Current \in Item /\ plan \in PlanRecord /\ items[Current] \in ItemRow \cup {Nil}
  BY <1>1, CurrentFacts DEF TypesOK
<1>3. CASE items[Current] = Nil
  <2>1. PICK x : x = [plan EXCEPT !.failures = plan.failures \cup {<<Current, "missing">>}]
    OBVIOUS
  <2>2. plan' = Judged(x)
    BY <1>3, <2>1 DEF ReadItem
  <2>3. PICK fl \in SUBSET (Item \X Rule) : fl = plan.failures \cup {<<Current, "missing">>}
    <3>1. <<Current, "missing">> \in Item \X Rule
      BY <1>2 DEF Rule
    <3>2. plan.failures \in SUBSET (Item \X Rule)
      BY <1>2 DEF PlanRecord
    <3> QED BY <3>1, <3>2
  <2>4. /\ x \in PlanRecord /\ x.k = plan.k /\ x.failures = fl
        /\ x.found = plan.found /\ x.files = plan.files
        /\ x.order = plan.order /\ x.pairs = plan.pairs /\ x.edges = plan.edges
    BY <1>2, <2>1, <2>3 DEF PlanRecord
  <2>5. JudgedTo(fl, plan.found)
    BY <1>1, <2>2, <2>4, JudgedFacts DEF JudgedTo, SameGraph
  <2> QED BY <1>1, <1>3, <2>3, <2>5 DEF JudgedTo
<1>4. CASE items[Current] # Nil
  <2>1. PICK fl \in SUBSET (Item \X Rule) :
          fl = plan.failures \cup ({Current} \X OwnFailures(items[Current]))
    BY <1>2 DEF PlanRecord, OwnFailures
  <2>2. PICK fd \in SUBSET (Item \X Project) :
          fd = plan.found \cup {<<Current, items[Current].project>>}
    <3>1. PICK t : t = <<Current, items[Current].project>>
      OBVIOUS
    <3>2. t \in Item \X Project
      BY <1>2, <1>4, <3>1 DEF ItemRow
    <3>3. plan.found \in SUBSET (Item \X Project)
      BY <1>2 DEF PlanRecord
    <3>4. plan.found \cup {t} \in SUBSET (Item \X Project)
      BY <3>2, <3>3
    <3> QED BY <3>1, <3>4
  <2>3. plan' = [plan EXCEPT !.pc = "blockers", !.found = fd, !.failures = fl]
    BY <1>4, <2>1, <2>2 DEF ReadItem
  <2>4. PICK pc \in Places : pc = "blockers"
    BY DEF Places, Serving
  <2>5. plan' = [plan EXCEPT !.pc = pc, !.found = fd, !.failures = fl]
    BY <2>3, <2>4
  <2>6. /\ plan' \in PlanRecord /\ SameGraph(plan', plan) /\ plan'.pc = pc
        /\ plan'.k = plan.k /\ plan'.found = fd /\ plan'.failures = fl
    BY <1>2, <2>5 DEF PlanRecord, SameGraph, Places
  <2> QED BY <1>1, <1>4, <2>1, <2>2, <2>4, <2>6
<1> QED BY <1>3, <1>4

LEMMA ReadBlockersFacts ==
  ASSUME TypesOK, StageInv, ReadBlockers
  PROVE  /\ plan.pc = "blockers" /\ plan.order # <<>> /\ UNCHANGED <<board, rollout>>
         /\ plan' \in PlanRecord /\ SameGraph(plan', plan)
         /\ JudgedTo(plan.failures \cup
                       {f \in {<<Current, "blockers">>} : Unresolved(Current) \ InPlan # {}},
                     plan.found)
PROOF
<1>1. plan.pc = "blockers" /\ plan.order # <<>> /\ UNCHANGED <<board, rollout>>
  BY DEF ReadBlockers, StageInv
<1>2. Current \in Item /\ plan \in PlanRecord
  BY <1>1, CurrentFacts DEF TypesOK
<1>3. PICK fl : fl = plan.failures \cup
                  {f \in {<<Current, "blockers">>} : Unresolved(Current) \ InPlan # {}}
  OBVIOUS
<1>4. fl \in SUBSET (Item \X Rule)
  BY <1>2, <1>3 DEF PlanRecord, Rule
<1>5. PICK x : x = [plan EXCEPT !.failures = fl]
  OBVIOUS
<1>6. plan' = Judged(x)
  BY <1>3, <1>5 DEF ReadBlockers
<1>7. /\ x \in PlanRecord /\ x.k = plan.k /\ x.failures = fl
      /\ x.found = plan.found /\ x.files = plan.files
      /\ x.order = plan.order /\ x.pairs = plan.pairs /\ x.edges = plan.edges
  BY <1>2, <1>4, <1>5 DEF PlanRecord
<1>8. JudgedTo(fl, plan.found)
  BY <1>1, <1>6, <1>7, JudgedFacts DEF JudgedTo, SameGraph
<1> QED BY <1>1, <1>3, <1>8 DEF JudgedTo

LEMMA ReadAgainFacts ==
  ASSUME TypesOK, StageInv, ReadAgain
  PROVE  /\ plan.pc = "again" /\ plan.order # <<>> /\ UNCHANGED <<board, rollout>>
         /\ plan' \in PlanRecord /\ SameGraph(plan', plan)
         /\ \/ plan'.pc = "error" /\ items[Current] = Nil /\ plan'.k = plan.k
            \/ plan'.pc = "again" /\ plan.k < Len(plan.order) /\ plan'.k = plan.k + 1
            \/ plan'.pc = "config" /\ plan'.k = 1
PROOF
<1>1. plan.pc = "again" /\ plan.order # <<>> /\ UNCHANGED <<board, rollout>>
  BY DEF ReadAgain, StageInv
<1>2. Current \in Item /\ plan \in PlanRecord /\ items[Current] \in ItemRow \cup {Nil}
  BY <1>1, CurrentFacts DEF TypesOK
<1>3. CASE items[Current] = Nil
  <2>1. Go("error")
    BY <1>3 DEF ReadAgain
  <2>2. "error" \in Places
    BY DEF Places, Answer
  <2> QED BY <1>1, <1>3, <2>1, <2>2, GoFacts DEF SameFields, SameGraph
<1>4. CASE items[Current] # Nil
  <2>1. PICK fs \in SUBSET Entry : fs = items[Current].files
    BY <1>2, <1>4 DEF ItemRow
  <2>2. PICK files \in [Item -> SUBSET Entry] : files = [plan.files EXCEPT ![Current] = fs]
    BY <1>2, <2>1 DEF PlanRecord
  <2>3. PICK x : x = [plan EXCEPT !.files = files]
    OBVIOUS
  <2>4. /\ x \in PlanRecord /\ x.k = plan.k /\ x.pc = plan.pc /\ SameGraph(x, plan)
    BY <1>2, <2>2, <2>3 DEF PlanRecord, SameGraph
  <2>5. x = [plan EXCEPT !.files[Current] = items[Current].files]
    BY <1>2, <2>1, <2>2, <2>3 DEF PlanRecord
  <2>6. plan' = Onward(x, "config")
    BY <1>4, <2>5 DEF ReadAgain
  <2>7. "config" \in Places
    BY DEF Places, Serving
  <2>8. plan.k \in Nat /\ Len(plan.order) \in Nat
    BY <1>1, CurrentFacts, OrderFacts
  <2> QED BY <1>1, <2>4, <2>6, <2>7, <2>8, OnwardFacts DEF SameFields, SameGraph
<1> QED BY <1>3, <1>4

LEMMA DeriveFacts ==
  ASSUME TypesOK, DeriveEdges
  PROVE  /\ plan.pc = "derive" /\ UNCHANGED <<board, rollout>>
         /\ plan' \in PlanRecord /\ plan'.order = plan.order /\ plan'.files = plan.files
         /\ plan'.k = plan.k
         /\ plan'.pairs = DependencyPairs(blockers, plan.order)
         /\ plan'.edges = MergeEdges(plan.files, blockers, plan.order)
         /\ plan'.pc = IF AssertAcyclic(plan'.edges, plan.order) THEN "graph" ELSE "failed"
PROOF
<1>1. plan \in PlanRecord /\ blockers \in SUBSET (Item \X Item)
  BY DEF TypesOK
<1>2. PICK pairs \in SUBSET (Item \X Item) : pairs = DependencyPairs(blockers, plan.order)
  BY <1>1 DEF DependencyPairs
<1>3. plan.order \in Seq(Item) /\ \A m \in DOMAIN plan.order : plan.order[m] \in Item
  BY OrderFacts
<1>4. PICK edges \in SUBSET (Item \X Item) : edges = MergeEdges(plan.files, blockers, plan.order)
  <2>1. BlockerEdges(blockers, plan.order) \subseteq Item \X Item
    BY <1>1 DEF BlockerEdges, DependencyPairs
  <2>2. OverlapEdges(plan.files, plan.order) \subseteq Item \X Item
    BY <1>3 DEF OverlapEdges
  <2> QED BY <2>1, <2>2 DEF MergeEdges
<1>5. PICK pc \in Places : pc = IF AssertAcyclic(edges, plan.order) THEN "graph" ELSE "failed"
  BY DEF Places, Serving
<1>6. plan' = [plan EXCEPT !.pairs = pairs, !.edges = edges, !.pc = pc]
  BY <1>2, <1>4, <1>5 DEF DeriveEdges
<1>7. /\ plan' \in PlanRecord /\ plan'.order = plan.order /\ plan'.files = plan.files
      /\ plan'.k = plan.k /\ plan'.pairs = pairs /\ plan'.edges = edges /\ plan'.pc = pc
  BY <1>1, <1>6 DEF PlanRecord, Places
<1> QED BY <1>2, <1>4, <1>5, <1>7 DEF DeriveEdges

LEMMA InsertRowFacts ==
  ASSUME TypesOK, StageInv, InsertRow
  PROVE  /\ plan.pc = "rows" /\ plan.order # <<>> /\ UNCHANGED <<board, status, graph>>
         /\ plan' \in PlanRecord /\ SameFields(plan', plan)
         /\ \/ plan'.pc = "error" /\ plan'.k = plan.k /\ rows' = rows /\ RowIsRefused(Current)
            \/ /\ rows[Current] = Nil /\ items[Current] # Nil
               /\ rows' = [rows EXCEPT ![Current] = RowStatus(Current)]
               /\ \/ plan'.pc = "rows" /\ plan.k < Len(plan.order) /\ plan'.k = plan.k + 1
                  \/ plan'.pc = "promote" /\ plan'.k = 1 /\ plan.k = Len(plan.order)
PROOF
<1>1. plan.pc = "rows" /\ plan.order # <<>> /\ UNCHANGED <<board, status, graph>>
  BY DEF InsertRow, StageInv
<1>2. plan \in PlanRecord /\ plan.k \in 1..Len(plan.order) /\ Len(plan.order) \in Nat
  BY <1>1, CurrentFacts, OrderFacts DEF TypesOK
<1>3. "error" \in Places /\ "promote" \in Places
  BY DEF Places, Serving, Answer
<1>4. CASE RowIsRefused(Current)
  <2>1. Go("error") /\ rows' = rows
    BY <1>4 DEF InsertRow
  <2> QED BY <1>1, <1>3, <1>4, <2>1, GoFacts
<1>5. CASE ~RowIsRefused(Current)
  <2>1. plan' = Onward(plan, "promote") /\ rows' = [rows EXCEPT ![Current] = RowStatus(Current)]
    BY <1>5 DEF InsertRow
  <2> QED BY <1>1, <1>2, <1>3, <1>5, <2>1, OnwardFacts DEF RowIsRefused
<1> QED BY <1>4, <1>5

\* The steps that only go on.
LEMMA SimpleFacts ==
  ASSUME TypesOK
  PROVE  /\ NothingAsked => /\ plan.pc = "item" /\ plan.order = <<>> /\ plan'.pc = "invalid"
                            /\ UNCHANGED <<board, rollout>>
         /\ LookAtConfig => /\ plan.pc = "config" /\ plan'.pc \in {"insert", "invalid"}
                            /\ UNCHANGED <<board, rollout>>
         /\ InsertRollout => /\ plan.pc = "insert" /\ plan'.pc = "derive" /\ status' = "planning"
                             /\ UNCHANGED <<board, graph, rows>>
         /\ FailPlan => /\ plan.pc = "failed" /\ plan'.pc = "cyclic" /\ status' = "failed"
                        /\ UNCHANGED <<board, graph, rows>>
         /\ InsertGraph => /\ plan.pc = "graph" /\ plan'.pc = "rows" /\ graph' = plan.edges
                           /\ UNCHANGED <<board, status, rows>>
         /\ Promote => /\ plan.pc = "promote" /\ plan'.pc = "planned" /\ status' = "pending"
                       /\ UNCHANGED <<board, graph, rows>>
         /\ Crash => /\ plan.pc \in Serving /\ plan'.pc = "dead" /\ edits' = edits + 1
                     /\ edits < bounds.edits + bounds.deaths
                     /\ UNCHANGED <<items, blockers, config, rollout, bounds>>
         /\ (NothingAsked \/ LookAtConfig \/ InsertRollout \/ FailPlan \/ InsertGraph \/ Promote
             \/ Crash) =>
              plan' \in PlanRecord /\ plan'.k = plan.k /\ SameFields(plan', plan)
PROOF
<1>1. /\ {"invalid", "insert", "derive", "cyclic", "rows", "planned", "dead"} \subseteq Places
      /\ \A pc \in Places : Go(pc) => /\ plan' \in PlanRecord /\ plan'.pc = pc /\ plan'.k = plan.k
                                      /\ SameFields(plan', plan)
  BY GoFacts DEF Places, Serving, Answer
<1>3. LookAtConfig => Go("insert") \/ Go("invalid")
  BY DEF LookAtConfig
<1>4. InsertRollout => Go("derive")
  BY DEF InsertRollout
<1>5. FailPlan => Go("cyclic")
  BY DEF FailPlan
<1>6. InsertGraph => Go("rows")
  BY DEF InsertGraph
<1>7. Promote => Go("planned")
  BY DEF Promote
<1>8. Crash => Go("dead")
  BY DEF Crash
<1>9. NothingAsked => Go("invalid")
  BY DEF NothingAsked
<1>10. /\ NothingAsked => plan.pc = "item" /\ plan.order = <<>> /\ UNCHANGED <<board, rollout>>
       /\ LookAtConfig => plan.pc = "config" /\ UNCHANGED <<board, rollout>>
       /\ InsertRollout => /\ plan.pc = "insert" /\ status' = "planning"
                           /\ UNCHANGED <<board, graph, rows>>
       /\ FailPlan => plan.pc = "failed" /\ status' = "failed" /\ UNCHANGED <<board, graph, rows>>
       /\ InsertGraph => /\ plan.pc = "graph" /\ graph' = plan.edges
                         /\ UNCHANGED <<board, status, rows>>
       /\ Promote => plan.pc = "promote" /\ status' = "pending" /\ UNCHANGED <<board, graph, rows>>
       /\ Crash => /\ plan.pc \in Serving /\ edits' = edits + 1
                   /\ edits < bounds.edits + bounds.deaths
                   /\ UNCHANGED <<items, blockers, config, rollout, bounds>>
  BY DEF NothingAsked, LookAtConfig, InsertRollout, FailPlan, InsertGraph, Promote, Crash
<1> QED BY <1>1, <1>3, <1>4, <1>5, <1>6, <1>7, <1>8, <1>9, <1>10

-----------------------------------------------------------------------------
(* TypesOK, and what the other steps do *)

\* The request changes nothing of the board, and keeps its order.
LEMMA PlanStepFacts ==
  ASSUME TypesOK, StageInv, PlanStep
  PROVE  plan' \in PlanRecord /\ plan'.order = plan.order /\ UNCHANGED board
PROOF
<1>1. CASE ReadItem
  BY <1>1, ReadItemFacts DEF SameGraph
<1>2. CASE ReadBlockers
  BY <1>2, ReadBlockersFacts DEF SameGraph
<1>3. CASE ReadAgain
  BY <1>3, ReadAgainFacts DEF SameGraph
<1>4. CASE DeriveEdges
  BY <1>4, DeriveFacts
<1>5. CASE InsertRow
  BY <1>5, InsertRowFacts DEF SameFields
<1>6. CASE NothingAsked \/ LookAtConfig \/ InsertRollout \/ FailPlan \/ InsertGraph \/ Promote
  BY <1>6, SimpleFacts DEF SameFields
<1> QED BY <1>1, <1>2, <1>3, <1>4, <1>5, <1>6 DEF PlanStep

LEMMA MixFacts ==
  ASSUME TypesOK
  PROVE  bounds.rows \subseteq ItemRow /\ bounds.edits \in Nat /\ bounds.deaths \in Nat
PROOF BY PlanAssumption DEF TypesOK

LEMMA PlanTypes ==
  ASSUME TypesOK, StageInv, PlanStep
  PROVE  TypesOK'
PROOF
<1>1. plan' \in PlanRecord /\ UNCHANGED board
  BY PlanStepFacts
<1>2. UNCHANGED <<items, blockers, config, bounds, edits>>
  BY <1>1 DEF board
<1>3. status' \in RolloutStates /\ graph' \in (SUBSET (Item \X Item)) \cup {Nil}
      /\ rows' \in [Item -> RowStates]
  <2>1. CASE UNCHANGED rollout
    BY <2>1 DEF rollout, TypesOK
  <2>2. CASE InsertRollout \/ FailPlan \/ Promote
    BY <2>2, SimpleFacts DEF TypesOK, RolloutStates
  <2>3. CASE InsertGraph
    BY <2>3, SimpleFacts DEF TypesOK, PlanRecord
  <2>4. CASE InsertRow
    <3>1. RowStatus(Current) \in RowStates
      BY DEF RowStatus, RowStates
    <3> QED BY <2>4, <3>1, InsertRowFacts DEF TypesOK
  <2>5. CASE ReadItem \/ ReadBlockers \/ ReadAgain \/ DeriveEdges \/ NothingAsked \/ LookAtConfig
    BY <2>1, <2>5, ReadItemFacts, ReadBlockersFacts, ReadAgainFacts, DeriveFacts, SimpleFacts
  <2> QED BY <2>2, <2>3, <2>4, <2>5 DEF PlanStep
<1> QED BY <1>1, <1>2, <1>3 DEF TypesOK

\* What people and the manager do.
LEMMA EditItemFacts ==
  ASSUME TypesOK, NEW i \in Item, EditItem(i)
  PROVE  /\ edits' = edits + 1 /\ edits < bounds.edits /\ items[i] # Nil
         /\ \E row \in ItemRow : row # Nil /\ items' = [items EXCEPT ![i] = row]
         /\ UNCHANGED <<blockers, config, plan, status, graph, rows, bounds>>
PROOF BY MixFacts, PlanAssumption DEF EditItem, Edit, rollout

LEMMA EditBlockersFacts ==
  ASSUME TypesOK, NEW i \in Item, NEW b \in Item, EditBlockers(i, b)
  PROVE  /\ edits' = edits + 1 /\ edits < bounds.edits
         /\ blockers' \in SUBSET (Item \X Item)
         /\ UNCHANGED <<items, config, plan, status, graph, rows, bounds>>
PROOF BY DEF EditBlockers, Edit, rollout, TypesOK

LEMMA DeleteFacts ==
  ASSUME TypesOK, NEW i \in Item, DeleteItem(i)
  PROVE  /\ edits' = edits + 1 /\ edits < bounds.edits /\ items[i] # Nil
         /\ items' = [items EXCEPT ![i] = Nil] /\ rows' = [rows EXCEPT ![i] = Nil]
         /\ blockers' \in SUBSET (Item \X Item)
         /\ UNCHANGED <<config, plan, status, graph, bounds>>
PROOF BY DEF DeleteItem, Edit, TypesOK

LEMMA StartFacts ==
  ASSUME Start
  PROVE  /\ status = "pending" /\ status' = "running"
         /\ UNCHANGED <<items, blockers, config, plan, graph, rows, bounds, edits>>
PROOF BY DEF Start, board

LEMMA DispatchFacts ==
  ASSUME TypesOK, NEW i \in Item, Dispatch(i)
  PROVE  /\ status = "running" /\ i \in NextReady
         /\ rows' = [rows EXCEPT ![i] = "dispatched"]
         /\ UNCHANGED <<items, blockers, config, plan, status, graph, bounds, edits>>
PROOF BY DEF Dispatch, board

Done(i, out) == [rows EXCEPT ![i] = out]

LEMMA CompleteFacts ==
  ASSUME TypesOK, RowsInv, NEW i \in Item, NEW out \in Outcome, Complete(i, out)
  PROVE  /\ status = "running" /\ rows[i] = "dispatched" /\ items[i] # Nil
         /\ Done(i, out) \in [Item -> RowStates]
         /\ rows' = [j \in Item |-> IF j \in Unblocked(Done(i, out), i) THEN "ready"
                                    ELSE Done(i, out)[j]]
         /\ status' = IF \A j \in Planned : Done(i, out)[j] \in Outcome THEN "completed"
                      ELSE status
         /\ items' \in [Item -> ItemRow \cup {Nil}]
         /\ \A j \in Item : items'[j] = Nil <=> items[j] = Nil
         /\ UNCHANGED <<blockers, config, plan, graph, bounds, edits>>
PROOF
<1>1. /\ status = "running" /\ rows[i] = "dispatched"
      /\ UNCHANGED <<blockers, config, plan, graph, bounds, edits>>
  BY DEF Complete
<1>2. items[i] # Nil
  <2>1. Nil # "dispatched"
    BY PlanAssumption
  <2> QED BY <1>1, <2>1 DEF RowsInv
<1>3. items[i] \in ItemRow /\ items \in [Item -> ItemRow \cup {Nil}]
  BY <1>2 DEF TypesOK
<1>4. PICK row \in ItemRow : row = [items[i] EXCEPT !.status = "done"]
  BY <1>3 DEF ItemRow
<1>5. items' = IF out = "completed" THEN [items EXCEPT ![i] = row] ELSE items
  BY <1>3, <1>4 DEF Complete
<1>6. row # Nil
  BY PlanAssumption
<1>7. items' \in [Item -> ItemRow \cup {Nil}] /\ \A j \in Item : items'[j] = Nil <=> items[j] = Nil
  BY <1>2, <1>3, <1>5, <1>6
<1>8. /\ rows' = [j \in Item |-> IF j \in Unblocked(Done(i, out), i) THEN "ready"
                                 ELSE Done(i, out)[j]]
      /\ status' = IF \A j \in Planned : Done(i, out)[j] \in Outcome THEN "completed" ELSE status
  BY DEF Complete, Done
<1>9. Done(i, out) \in [Item -> RowStates]
  BY DEF Done, TypesOK, RowStates
<1> QED BY <1>1, <1>2, <1>7, <1>8, <1>9

\* All but the steps of the request.
OtherStep(i) ==
  \/ Crash \/ Start
  \/ /\ i \in Item
     /\ \/ EditItem(i) \/ DeleteItem(i) \/ Dispatch(i)
        \/ \E b \in Item : EditBlockers(i, b)
        \/ \E out \in Outcome : Complete(i, out)

LEMMA OtherTypes ==
  ASSUME TypesOK, RowsInv, NEW i, OtherStep(i)
  PROVE  TypesOK'
PROOF
<1>1. /\ edits \in 0..(bounds.edits + bounds.deaths)
      /\ bounds.edits \in Nat /\ bounds.deaths \in Nat
  BY MixFacts DEF TypesOK
<1>2. edits < bounds.edits + bounds.deaths /\ edits' = edits + 1 =>
        edits' \in 0..(bounds.edits + bounds.deaths)
  BY <1>1
<1>3. edits < bounds.edits => edits < bounds.edits + bounds.deaths
  BY <1>1
<1>4. CASE Crash
  BY <1>2, <1>4, SimpleFacts DEF TypesOK, rollout
<1>5. CASE Start
  BY <1>5, StartFacts DEF TypesOK, RolloutStates
<1>6. CASE i \in Item /\ EditItem(i)
  BY <1>2, <1>3, <1>6, EditItemFacts DEF TypesOK
<1>7. CASE i \in Item /\ DeleteItem(i)
  BY <1>2, <1>3, <1>7, DeleteFacts DEF TypesOK, RowStates
<1>8. CASE i \in Item /\ Dispatch(i)
  BY <1>8, DispatchFacts DEF TypesOK, RowStates
<1>9. CASE i \in Item /\ \E b \in Item : EditBlockers(i, b)
  BY <1>2, <1>3, <1>9, EditBlockersFacts DEF TypesOK
<1>10. CASE i \in Item /\ \E out \in Outcome : Complete(i, out)
  <2>1. PICK out \in Outcome : Complete(i, out)
    BY <1>10
  <2>2. /\ Done(i, out) \in [Item -> RowStates]
        /\ rows' = [j \in Item |-> IF j \in Unblocked(Done(i, out), i) THEN "ready"
                                   ELSE Done(i, out)[j]]
        /\ status' = IF \A j \in Planned : Done(i, out)[j] \in Outcome THEN "completed" ELSE status
    BY <1>10, <2>1, CompleteFacts
  <2>4. rows' \in [Item -> RowStates]
    BY <2>2 DEF RowStates
  <2>5. status' \in RolloutStates
    BY <2>2 DEF TypesOK, RolloutStates
  <2> QED BY <1>10, <2>1, <2>4, <2>5, CompleteFacts DEF TypesOK
<1> QED BY <1>4, <1>5, <1>6, <1>7, <1>8, <1>9, <1>10 DEF OtherStep

-----------------------------------------------------------------------------
(* StageInv *)

LEMMA NilFacts ==
  /\ Nil \notin {"planning", "failed", "pending", "running", "completed", "ready", "dispatched",
                 "skipped"}
  /\ Nil \notin Begun /\ Nil \notin Outcome
PROOF BY PlanAssumption DEF Begun, Outcome

\* A rollout that can be started, or was, is planned.
LEMMA StartedIsPlanned ==
  ASSUME TypesOK, StageInv, status \in {"pending", "running", "completed"}
  PROVE  plan.pc = "planned"
PROOF
<1>1. plan.pc \in Serving \cup Answer
  BY DEF TypesOK, PlanRecord
<1> QED BY <1>1, NilFacts DEF StageInv, Serving, Answer, Early

LEMMA PlanStage ==
  ASSUME TypesOK, StageInv, PlanStep
  PROVE  StageInv'
PROOF
<1>1. plan'.order = plan.order /\ Len(plan.order) \in Nat
  BY PlanStepFacts, OrderFacts
<1>2. plan.order # <<>> => plan.k \in 1..Len(plan.order) /\ 1 \in 1..Len(plan.order)
  <2>1. plan.order # <<>> => plan.k \in 1..Len(plan.order)
    BY DEF StageInv
  <2> QED BY <2>1, <1>1
<1>3. plan.order # <<>> /\ plan.k < Len(plan.order) => plan.k + 1 \in 1..Len(plan.order)
  BY <1>1, <1>2
<1>4. CASE ReadItem
  <2>1. plan.pc = "item" /\ plan.order # <<>> /\ status' = status /\ status = Nil
    BY <1>4, ReadItemFacts DEF rollout, StageInv, Early
  <2>2. \/ plan'.pc = "blockers" /\ plan'.k = plan.k
        \/ plan'.pc = "item" /\ plan.k < Len(plan.order) /\ plan'.k = plan.k + 1
        \/ plan'.pc \in {"again", "illegal"} /\ plan'.k = 1
    BY <1>1, <1>2, <2>1, <1>4, ReadItemFacts DEF JudgedTo
  <2> QED BY <1>1, <1>2, <1>3, <2>1, <2>2 DEF StageInv, Early
<1>5. CASE ReadBlockers
  <2>1. plan.pc = "blockers" /\ plan.order # <<>> /\ status' = status /\ status = Nil
    BY <1>5, ReadBlockersFacts DEF rollout, StageInv, Early
  <2>2. \/ plan'.pc = "item" /\ plan.k < Len(plan.order) /\ plan'.k = plan.k + 1
        \/ plan'.pc \in {"again", "illegal"} /\ plan'.k = 1
    BY <1>1, <1>2, <2>1, <1>5, ReadBlockersFacts DEF JudgedTo
  <2> QED BY <1>1, <1>2, <1>3, <2>1, <2>2 DEF StageInv, Early
<1>6. CASE ReadAgain
  <2>1. plan.pc = "again" /\ plan.order # <<>> /\ status' = status /\ status = Nil
    BY <1>6, ReadAgainFacts DEF rollout, StageInv, Early
  <2>2. \/ plan'.pc = "error" /\ plan'.k = plan.k
        \/ plan'.pc = "again" /\ plan.k < Len(plan.order) /\ plan'.k = plan.k + 1
        \/ plan'.pc = "config" /\ plan'.k = 1
    BY <1>6, ReadAgainFacts
  <2> QED BY <1>1, <1>2, <1>3, <2>1, <2>2 DEF StageInv, Early
<1>7. CASE DeriveEdges
  <2>1. /\ plan.pc = "derive" /\ status' = status
        /\ plan'.pc \in {"graph", "failed"} /\ plan'.k = plan.k
    BY <1>7, DeriveFacts DEF rollout
  <2> QED BY <1>1, <2>1 DEF StageInv, Early
<1>8. CASE InsertRow
  <2>1. plan.pc = "rows" /\ plan.order # <<>> /\ status' = status
    BY <1>8, InsertRowFacts
  <2>2. \/ plan'.pc = "error" /\ plan'.k = plan.k
        \/ plan'.pc = "rows" /\ plan.k < Len(plan.order) /\ plan'.k = plan.k + 1
        \/ plan'.pc = "promote" /\ plan'.k = 1
    BY <1>8, InsertRowFacts
  <2> QED BY <1>1, <1>2, <1>3, <2>1, <2>2 DEF StageInv, Early
<1>9. CASE NothingAsked
  <2>1. plan.pc = "item" /\ plan.order = <<>> /\ plan'.pc = "invalid" /\ status' = status
    BY <1>9, SimpleFacts DEF rollout
  <2> QED BY <1>1, <2>1 DEF StageInv, Early
<1>10. CASE LookAtConfig
  <2>1. /\ plan.pc = "config" /\ plan'.pc \in {"insert", "invalid"} /\ status' = status
        /\ plan'.k = plan.k
    BY <1>10, SimpleFacts DEF rollout
  <2> QED BY <1>1, <2>1 DEF StageInv, Early
<1>11. CASE InsertRollout
  <2>1. /\ plan.pc = "insert" /\ plan'.pc = "derive" /\ status' = "planning" /\ plan'.k = plan.k
    BY <1>11, SimpleFacts
  <2> QED BY <1>1, <2>1 DEF StageInv, Early
<1>12. CASE FailPlan
  <2>1. /\ plan.pc = "failed" /\ plan'.pc = "cyclic" /\ status' = "failed" /\ plan'.k = plan.k
    BY <1>12, SimpleFacts
  <2> QED BY <1>1, <2>1 DEF StageInv, Early
<1>13. CASE InsertGraph
  <2>1. /\ plan.pc = "graph" /\ plan'.pc = "rows" /\ status' = status /\ plan'.k = plan.k
    BY <1>13, SimpleFacts
  <2> QED BY <1>1, <2>1 DEF StageInv, Early
<1>14. CASE Promote
  <2>1. /\ plan.pc = "promote" /\ plan'.pc = "planned" /\ status' = "pending" /\ plan'.k = plan.k
    BY <1>14, SimpleFacts
  <2> QED BY <1>1, <2>1 DEF StageInv, Early
<1> QED BY <1>4, <1>5, <1>6, <1>7, <1>8, <1>9, <1>10, <1>11, <1>12, <1>13, <1>14 DEF PlanStep

LEMMA OtherStage ==
  ASSUME TypesOK, StageInv, RowsInv, NEW i, OtherStep(i)
  PROVE  StageInv'
PROOF
<1>1. CASE Crash
  <2>1. /\ plan.pc \in Serving /\ plan'.pc = "dead" /\ status' = status
        /\ plan'.order = plan.order /\ plan'.k = plan.k
    BY <1>1, SimpleFacts DEF rollout, SameFields
  <2> QED BY <2>1 DEF StageInv, Early, Serving
<1>2. CASE Start
  <2>1. plan' = plan /\ status' = "running" /\ plan.pc = "planned"
    BY <1>2, StartFacts, StartedIsPlanned
  <2> QED BY <2>1 DEF StageInv, Early
<1>3. CASE /\ i \in Item
           /\ \/ EditItem(i) \/ DeleteItem(i) \/ Dispatch(i)
              \/ \E b \in Item : EditBlockers(i, b)
  <2>1. plan' = plan /\ status' = status
    BY <1>3, EditItemFacts, DeleteFacts, DispatchFacts, EditBlockersFacts
  <2> QED BY <2>1 DEF StageInv
<1>4. CASE i \in Item /\ \E out \in Outcome : Complete(i, out)
  <2>1. plan' = plan /\ status' \in {"running", "completed"} /\ status = "running"
    BY <1>4, CompleteFacts
  <2>2. plan.pc = "planned"
    BY <2>1, StartedIsPlanned
  <2> QED BY <2>1, <2>2 DEF StageInv, Early
<1> QED BY <1>1, <1>2, <1>3, <1>4 DEF OtherStep

-----------------------------------------------------------------------------
(* GraphInv *)

\* The place is another, and the rest as it was.
LEMMA UnderivedKept ==
  ASSUME GraphInv, Underived, SameGraph(plan', plan), graph' = graph, plan'.pc \notin Late
  PROVE  GraphInv'
PROOF
<1>1. plan'.pairs = {} /\ plan'.edges = {} /\ graph' = Nil
  BY DEF Underived, SameGraph
<1> QED BY <1>1 DEF GraphInv, Underived, Late

LEMMA DerivedKept ==
  ASSUME WasDerived, SameGraph(plan', plan), plan'.files = plan.files,
         plan'.pc \notin Early \cup {"derive"}
  PROVE  WasDerived'
PROOF
<1>1. PICK B \in SUBSET (Item \X Item) : Derived(B)
  BY DEF WasDerived
<1>2. Derived(B)'
  BY <1>1 DEF Derived, SameGraph
<1> QED BY <1>2 DEF WasDerived

LEMMA PlanGraph ==
  ASSUME TypesOK, StageInv, GraphInv, PlanStep
  PROVE  GraphInv'
PROOF
<1>1. CASE ReadItem
  <2>1. Underived /\ graph' = graph /\ SameGraph(plan', plan)
    BY <1>1, ReadItemFacts DEF GraphInv, WasDerived, Early, rollout
  <2>2. plan'.pc \in {"item", "blockers", "again", "illegal"}
    BY <1>1, ReadItemFacts, CurrentFacts, OrderFacts DEF JudgedTo
  <2> QED BY <2>1, <2>2, UnderivedKept DEF Late
<1>2. CASE ReadBlockers
  <2>1. Underived /\ graph' = graph /\ SameGraph(plan', plan)
    BY <1>2, ReadBlockersFacts DEF GraphInv, WasDerived, Early, rollout
  <2>2. plan'.pc \in {"item", "blockers", "again", "illegal"}
    BY <1>2, ReadBlockersFacts, CurrentFacts, OrderFacts DEF JudgedTo
  <2> QED BY <2>1, <2>2, UnderivedKept DEF Late
<1>3. CASE ReadAgain
  <2>1. Underived /\ graph' = graph /\ SameGraph(plan', plan)
    BY <1>3, ReadAgainFacts DEF GraphInv, WasDerived, Early, rollout
  <2>2. plan'.pc \in {"again", "config", "error"}
    BY <1>3, ReadAgainFacts
  <2> QED BY <2>1, <2>2, UnderivedKept DEF Late
<1>4. CASE NothingAsked \/ LookAtConfig \/ InsertRollout
  <2>1. Underived /\ graph' = graph /\ SameGraph(plan', plan)
    BY <1>4, SimpleFacts DEF GraphInv, WasDerived, Early, rollout, SameFields, SameGraph
  <2>2. plan'.pc \in {"invalid", "insert", "derive"}
    BY <1>4, SimpleFacts
  <2> QED BY <2>1, <2>2, UnderivedKept DEF Late
<1>5. CASE DeriveEdges
  <2>1. graph' = graph /\ graph = Nil
    BY <1>5, DeriveFacts DEF rollout, GraphInv, Underived, WasDerived
  <2>2. blockers \in SUBSET (Item \X Item) /\ Derived(blockers)'
    BY <1>5, DeriveFacts DEF TypesOK, Derived, board
  <2>3. PICK B \in SUBSET (Item \X Item) : B = blockers
    BY <2>2
  <2>4. Derived(B)'
    BY <1>5, <2>3, DeriveFacts DEF Derived
  <2>5. /\ plan'.order = plan.order
        /\ plan'.pc = IF AssertAcyclic(plan'.edges, plan.order) THEN "graph" ELSE "failed"
    BY <1>5, DeriveFacts
  <2>6. WasDerived'
    BY <2>4, <2>5 DEF WasDerived, Early
  <2> QED BY <2>1, <2>5, <2>6 DEF GraphInv
<1>6. CASE FailPlan \/ InsertGraph \/ Promote \/ InsertRow
  <2>1. /\ SameFields(plan', plan) /\ plan.pc \in Late
        /\ plan.pc \in {"failed", "graph", "promote", "rows"}
    BY <1>6, SimpleFacts, InsertRowFacts DEF Late
  <2>2. SameGraph(plan', plan) /\ plan'.files = plan.files /\ plan'.order = plan.order
        /\ plan'.edges = plan.edges
    BY <2>1 DEF SameFields, SameGraph
  <2>3. WasDerived
    BY <2>1 DEF GraphInv, Underived
  <2>4. CASE FailPlan
    <3>1. plan.pc = "failed" /\ plan'.pc = "cyclic" /\ graph' = graph
      BY <2>4, SimpleFacts
    <3>2. WasDerived'
      BY <2>2, <2>3, <3>1, DerivedKept DEF Early
    <3> QED BY <2>2, <3>1, <3>2 DEF GraphInv
  <2>5. CASE InsertGraph
    <3>1. plan.pc = "graph" /\ plan'.pc = "rows" /\ graph' = plan.edges
      BY <2>5, SimpleFacts
    <3>2. WasDerived'
      BY <2>2, <2>3, <3>1, DerivedKept DEF Early
    <3> QED BY <2>2, <3>1, <3>2 DEF GraphInv
  <2>6. CASE Promote
    <3>1. plan.pc = "promote" /\ plan'.pc = "planned" /\ graph' = graph
      BY <2>6, SimpleFacts
    <3>2. WasDerived'
      BY <2>2, <2>3, <3>1, DerivedKept DEF Early
    <3> QED BY <2>2, <3>1, <3>2 DEF GraphInv
  <2>7. CASE InsertRow
    <3>1. plan.pc = "rows" /\ plan'.pc \in {"rows", "promote", "error"} /\ graph' = graph
      BY <2>7, InsertRowFacts
    <3>2. WasDerived'
      BY <2>2, <2>3, <3>1, DerivedKept DEF Early
    <3> QED BY <2>2, <3>1, <3>2 DEF GraphInv
  <2> QED BY <1>6, <2>4, <2>5, <2>6, <2>7
<1> QED BY <1>1, <1>2, <1>3, <1>4, <1>5, <1>6 DEF PlanStep

LEMMA OtherGraph ==
  ASSUME TypesOK, StageInv, GraphInv, RowsInv, NEW i, OtherStep(i)
  PROVE  GraphInv'
PROOF
<1>1. CASE Crash
  <2>1. SameFields(plan', plan) /\ plan'.pc = "dead" /\ graph' = graph
    BY <1>1, SimpleFacts DEF rollout
  <2>2. SameGraph(plan', plan) /\ plan'.files = plan.files /\ plan'.edges = plan.edges
    BY <2>1 DEF SameFields, SameGraph
  <2>3. CASE Underived
    BY <2>1, <2>2, <2>3, UnderivedKept DEF Late
  <2>4. CASE WasDerived
    <3>1. WasDerived'
      BY <2>1, <2>2, <2>4, DerivedKept DEF Early
    <3> QED BY <2>1, <2>2, <3>1 DEF GraphInv
  <2> QED BY <2>3, <2>4 DEF GraphInv
<1>2. CASE ~Crash
  <2>1. plan' = plan /\ graph' = graph
    BY <1>2, StartFacts, EditItemFacts, DeleteFacts, DispatchFacts, EditBlockersFacts,
       CompleteFacts DEF OtherStep
  <2> QED BY <2>1 DEF GraphInv, Underived, WasDerived, Derived
<1> QED BY <1>1, <1>2

-----------------------------------------------------------------------------
(* RowsInv *)

\* A row goes only with its item, and none comes.
RowsStay ==
  \A i \in Item : /\ rows'[i] # Nil => rows[i] # Nil /\ items'[i] # Nil
                  /\ items[i] = Nil => items'[i] = Nil
                  /\ rows[i] # Nil => rows'[i] # Nil \/ items'[i] = Nil

LEMMA FilledKept ==
  ASSUME TypesOK, RowsStay, plan'.order = plan.order, NEW n \in Nat, n <= Len(plan.order), Filled(n)
  PROVE  Filled(n)'
PROOF
<1>1. ASSUME NEW m \in 1..n PROVE rows'[plan'.order[m]] # Nil \/ items'[plan'.order[m]] = Nil
  <2>1. plan.order[m] \in Item
    BY OrderFacts
  <2> QED BY <2>1 DEF Filled, RowsStay
<1> QED BY <1>1 DEF Filled

LEMMA RowsKept ==
  ASSUME TypesOK, StageInv, RowsInv, RowsStay, plan'.order = plan.order,
         graph # Nil => graph' # Nil,
         \/ plan'.pc = plan.pc /\ plan'.k = plan.k /\ (status' = status \/ plan.pc = "planned")
         \/ plan'.pc \notin {"rows", "promote", "planned", "error"}
  PROVE  RowsInv'
PROOF
<1>1. Len(plan.order) \in Nat /\ InPlan' = InPlan /\ InPlan \subseteq Item
  BY OrderFacts DEF InPlan
<1>2. ASSUME NEW i \in Item, rows'[i] # Nil
      PROVE  i \in InPlan' /\ items'[i] # Nil /\ graph' # Nil
  BY <1>1, <1>2 DEF RowsStay, RowsInv
<1>3. ASSUME plan'.pc = "rows"
      PROVE  /\ Filled(plan.k - 1)' /\ plan'.k = plan.k
             /\ \A i \in Item : rows'[i] # Nil => \E m \in 1..(plan.k - 1) : plan'.order[m] = i
  <2>1. plan.pc = "rows" /\ plan'.k = plan.k
    BY <1>3
  <2>2. plan.k - 1 \in Nat /\ plan.k - 1 <= Len(plan.order)
    BY <2>1, <1>1, CurrentFacts DEF StageInv
  <2>3. PICK n : n = plan.k - 1
    OBVIOUS
  <2>4. Filled(n)'
    BY <2>1, <2>2, <2>3, FilledKept DEF RowsInv
  <2> QED BY <2>1, <2>3, <2>4 DEF Filled, RowsStay, RowsInv
<1>4. ASSUME plan'.pc \in {"promote", "planned"} PROVE Filled(Len(plan.order))'
  <2>1. PICK n : n = Len(plan.order)
    OBVIOUS
  <2>2. Filled(n)
    BY <1>4, <2>1 DEF RowsInv
  <2>3. Filled(n)'
    BY <1>1, <2>1, <2>2, FilledKept
  <2> QED BY <2>1, <2>3 DEF Filled
<1>5. ASSUME plan'.pc = "error", status' = "planning"
      PROVE  (\E i \in InPlan : items'[i] = Nil) \/ Cardinality(InPlan) < Len(plan.order)
  BY <1>1, <1>5 DEF RowsInv, RowsStay
<1> QED BY <1>1, <1>2, <1>3, <1>4, <1>5 DEF RowsInv, Filled

LEMMA RowInserted ==
  ASSUME TypesOK, StageInv, GraphInv, RowsInv, InsertRow
  PROVE  RowsInv'
PROOF
<1>1. /\ plan.pc = "rows" /\ plan.order # <<>> /\ items' = items /\ status' = status
      /\ graph' = graph /\ plan'.order = plan.order
  BY InsertRowFacts DEF board, SameFields
<1>2. /\ plan.k \in 1..Len(plan.order) /\ Len(plan.order) \in Nat /\ Current \in Item
      /\ Current \in InPlan /\ InPlan' = InPlan /\ InPlan \subseteq Item
  BY <1>1, CurrentFacts, OrderFacts DEF InPlan
<1>3. /\ Filled(plan.k - 1)
      /\ \A i \in Item : rows[i] # Nil => \E m \in 1..(plan.k - 1) : plan.order[m] = i
      /\ \A i \in Item : rows[i] # Nil => i \in InPlan /\ items[i] # Nil /\ graph # Nil
  BY <1>1 DEF RowsInv
<1>4. CASE plan'.pc = "error" /\ rows' = rows /\ RowIsRefused(Current)
  <2>1. (\E i \in InPlan : items[i] = Nil) \/ Cardinality(InPlan) < Len(plan.order)
    <3>1. CASE items[Current] = Nil
      BY <3>1, <1>2
    <3>2. CASE items[Current] # Nil
      <4>1. rows[Current] # Nil
        BY <1>4, <3>2 DEF RowIsRefused
      <4>2. PICK m \in 1..(plan.k - 1) : plan.order[m] = plan.order[plan.k]
        BY <4>1, <1>2, <1>3 DEF Current
      <4>3. m \in 1..Len(plan.order) /\ m # plan.k
        BY <4>2, <1>2
      <4>4. ~Once(plan.order)
        BY <4>2, <4>3, <1>2, OrderFacts DEF Once
      <4> QED BY <4>4, OrderFacts, MembersCount DEF InPlan
    <3> QED BY <3>1, <3>2
  <2> QED BY <1>1, <1>2, <1>3, <1>4, <2>1 DEF RowsInv
<1>5. CASE rows[Current] = Nil /\ items[Current] # Nil
           /\ rows' = [rows EXCEPT ![Current] = RowStatus(Current)]
  <2>1. RowStatus(Current) # Nil
    BY NilFacts DEF RowStatus
  <2>2. rows'[Current] # Nil /\ \A i \in Item \ {Current} : rows'[i] = rows[i]
    BY <1>2, <1>5, <2>1 DEF TypesOK
  <2>3. graph # Nil
    BY <1>1, PlanAssumption DEF GraphInv, TypesOK, PlanRecord
  <2>4. \A i \in Item : rows'[i] # Nil => i \in InPlan /\ items'[i] # Nil /\ graph' # Nil
    BY <1>1, <1>2, <1>3, <1>5, <2>2, <2>3
  <2>5. ASSUME NEW m \in 1..(plan.k - 1) PROVE plan.order[m] \in Item /\ plan.order[m] # Current
    <3>1. plan.order[m] \in Item
      BY <1>2, OrderFacts
    <3>2. rows[plan.order[m]] # Nil \/ items[plan.order[m]] = Nil
      BY <1>3 DEF Filled
    <3> QED BY <3>1, <3>2, <1>5
  <2>6. \A m \in 1..plan.k : m \in 1..(plan.k - 1) \/ m = plan.k
    BY <1>2
  <2>7. \A m \in 1..plan.k : rows'[plan.order[m]] # Nil \/ items'[plan.order[m]] = Nil
    BY <1>1, <1>3, <2>2, <2>5, <2>6 DEF Filled, Current
  <2>8. \A l, m \in 1..plan.k : plan.order[l] = plan.order[m] => l = m
    BY <1>3, <2>5, <2>6 DEF Filled, Current
  <2>9. \A i \in Item : rows'[i] # Nil => \E m \in 1..plan.k : plan.order[m] = i
    <3>1. plan.k \in 1..plan.k /\ \A m \in 1..(plan.k - 1) : m \in 1..plan.k
      BY <1>2
    <3> QED BY <1>3, <2>2, <3>1 DEF Current
  <2>10. CASE plan'.pc = "rows" /\ plan'.k = plan.k + 1
    <3>1. plan'.k - 1 = plan.k
      BY <1>2, <2>10
    <3> QED BY <1>1, <1>2, <2>4, <2>7, <2>8, <2>9, <2>10, <3>1 DEF RowsInv, Filled
  <2>11. CASE plan'.pc = "promote" /\ plan.k = Len(plan.order)
    BY <1>1, <1>2, <2>4, <2>7, <2>8, <2>11 DEF RowsInv, Filled
  <2> QED BY <1>4, <1>5, <2>10, <2>11, InsertRowFacts, NilFacts DEF RowIsRefused
<1> QED BY <1>4, <1>5, InsertRowFacts

LEMMA PlanRows ==
  ASSUME TypesOK, StageInv, GraphInv, RowsInv, PlanStep
  PROVE  RowsInv'
PROOF
<1>1. plan'.order = plan.order /\ items' = items
  BY PlanStepFacts DEF board
<1>2. rows' = rows => RowsStay
  BY <1>1 DEF RowsInv, RowsStay
<1>3. CASE ReadItem \/ ReadBlockers
  <2>1. UNCHANGED rollout /\ plan'.pc \in {"item", "blockers", "again", "illegal"}
    BY <1>3, ReadItemFacts, ReadBlockersFacts, CurrentFacts, OrderFacts DEF JudgedTo
  <2>2. rows' = rows /\ graph' = graph /\ plan'.pc \notin {"rows", "promote", "planned", "error"}
    BY <2>1 DEF rollout
  <2> QED BY <1>1, <1>2, <2>2, RowsKept
<1>4. CASE ReadAgain
  <2>1. /\ UNCHANGED rollout /\ plan'.pc \in {"again", "config", "error"} /\ status = Nil
    BY <1>4, ReadAgainFacts DEF StageInv, Early
  <2>2. rows' = rows /\ graph' = graph /\ status' = Nil /\ items' = items
        /\ Nil # "planning" /\ plan'.pc \notin {"rows", "promote", "planned"}
    BY <1>1, <2>1, NilFacts DEF rollout
  <2>3. \A i \in Item : rows'[i] # Nil => i \in InPlan' /\ items'[i] # Nil /\ graph' # Nil
    BY <1>1, <2>2 DEF RowsInv, InPlan
  <2> QED BY <2>2, <2>3 DEF RowsInv
<1>5. CASE DeriveEdges
  <2>1. UNCHANGED rollout /\ plan'.pc \in {"graph", "failed"}
    BY <1>5, DeriveFacts
  <2>2. rows' = rows /\ graph' = graph /\ plan'.pc \notin {"rows", "promote", "planned", "error"}
    BY <2>1 DEF rollout
  <2> QED BY <1>1, <1>2, <2>2, RowsKept
<1>6. CASE NothingAsked \/ LookAtConfig \/ InsertRollout \/ FailPlan
  <2>1. rows' = rows /\ graph' = graph /\ plan'.pc \in {"invalid", "insert", "derive", "cyclic"}
    BY <1>6, SimpleFacts DEF rollout
  <2>2. plan'.pc \notin {"rows", "promote", "planned", "error"}
    BY <2>1
  <2> QED BY <1>1, <1>2, <2>1, <2>2, RowsKept
<1>7. CASE InsertGraph
  <2>1. /\ plan.pc = "graph" /\ plan'.pc = "rows" /\ rows' = rows /\ plan'.k = plan.k
        /\ plan.k = 1 /\ graph = Nil
    BY <1>7, SimpleFacts DEF StageInv, GraphInv
  <2>2. \A i \in Item : rows'[i] = Nil
    BY <2>1 DEF RowsInv
  <2>3. 1..(plan'.k - 1) = {}
    BY <2>1
  <2>4. Filled(plan.k - 1)'
    BY <2>3 DEF Filled
  <2> QED BY <2>1, <2>2, <2>4 DEF RowsInv
<1>8. CASE InsertRow
  BY <1>8, RowInserted
<1>9. CASE Promote
  <2>1. /\ plan.pc = "promote" /\ plan'.pc = "planned" /\ rows' = rows /\ graph' = graph
    BY <1>9, SimpleFacts
  <2>2. Filled(Len(plan.order))'
    BY <1>1, <2>1 DEF RowsInv, Filled
  <2>3. \A i \in Item : rows'[i] # Nil => i \in InPlan' /\ items'[i] # Nil /\ graph' # Nil
    BY <1>1, <2>1 DEF RowsInv, InPlan
  <2> QED BY <2>1, <2>2, <2>3 DEF RowsInv
<1> QED BY <1>3, <1>4, <1>5, <1>6, <1>7, <1>8, <1>9 DEF PlanStep

\* A completion takes no row away.
LEMMA CompleteRows ==
  ASSUME TypesOK, RowsInv, NEW i \in Item, NEW out \in Outcome, Complete(i, out)
  PROVE  /\ RowsStay
         /\ \A j \in Item : rows'[j] # Nil <=> rows[j] # Nil
PROOF
<1>1. \A j \in Item : Done(i, out)[j] = IF j = i THEN out ELSE rows[j]
  BY DEF Done, TypesOK
<1>2. /\ rows[i] = "dispatched" /\ items[i] # Nil
      /\ \A j \in Item : rows'[j] = IF j \in Unblocked(Done(i, out), i) THEN "ready"
                                    ELSE Done(i, out)[j]
      /\ \A j \in Item : items'[j] = Nil <=> items[j] = Nil
  BY CompleteFacts
<1>3. \A j \in Unblocked(Done(i, out), i) : Done(i, out)[j] = "pending"
  BY DEF Unblocked
<1>4. \A j \in Item : rows'[j] # Nil <=> rows[j] # Nil
  <2>1. TAKE j \in Item
  <2>2. CASE j \in Unblocked(Done(i, out), i)
    <3>1. rows'[j] = "ready" /\ Done(i, out)[j] = "pending"
      BY <1>2, <1>3, <2>2
    <3>2. rows[j] # Nil
      BY <1>1, <1>2, <3>1, NilFacts
    <3> QED BY <3>1, <3>2, NilFacts
  <2>3. CASE j \notin Unblocked(Done(i, out), i)
    BY <1>1, <1>2, <2>3, NilFacts
  <2> QED BY <2>2, <2>3
<1> QED BY <1>2, <1>4 DEF RowsStay, RowsInv

LEMMA OtherRows ==
  ASSUME TypesOK, StageInv, GraphInv, RowsInv, NEW i, OtherStep(i)
  PROVE  RowsInv'
PROOF
<1>1. CASE Crash
  <2>1. plan'.order = plan.order /\ plan'.pc = "dead" /\ rows' = rows /\ graph' = graph
        /\ items' = items
    BY <1>1, SimpleFacts DEF rollout, SameFields
  <2>2. RowsStay
    BY <2>1 DEF RowsStay, RowsInv
  <2> QED BY <2>1, <2>2, RowsKept
<1>2. CASE Start
  <2>1. plan' = plan /\ rows' = rows /\ graph' = graph /\ items' = items /\ plan.pc = "planned"
    BY <1>2, StartFacts, StartedIsPlanned
  <2>2. RowsStay
    BY <2>1 DEF RowsStay, RowsInv
  <2> QED BY <2>1, <2>2, RowsKept
<1>3. CASE i \in Item /\ EditItem(i)
  <2>1. plan' = plan /\ rows' = rows /\ graph' = graph /\ status' = status
    BY <1>3, EditItemFacts
  <2>2. \A j \in Item : items'[j] = Nil <=> items[j] = Nil
    BY <1>3, EditItemFacts DEF TypesOK
  <2>3. RowsStay
    BY <2>1, <2>2 DEF RowsStay, RowsInv
  <2> QED BY <2>1, <2>3, RowsKept
<1>4. CASE i \in Item /\ DeleteItem(i)
  <2>1. plan' = plan /\ graph' = graph /\ status' = status
    BY <1>4, DeleteFacts
  <2>2. \A j \in Item : /\ items'[j] = IF j = i THEN Nil ELSE items[j]
                        /\ rows'[j] = IF j = i THEN Nil ELSE rows[j]
    BY <1>4, DeleteFacts DEF TypesOK
  <2>3. RowsStay
    BY <2>2 DEF RowsStay, RowsInv
  <2> QED BY <2>1, <2>3, RowsKept
<1>5. CASE i \in Item /\ Dispatch(i)
  <2>1. plan' = plan /\ graph' = graph /\ status' = status /\ items' = items /\ i \in NextReady
        /\ rows' = [rows EXCEPT ![i] = "dispatched"]
    BY <1>5, DispatchFacts
  <2>2. rows[i] # Nil
    BY <2>1, NilFacts DEF NextReady, Startable
  <2>3. \A j \in Item : rows'[j] # Nil <=> rows[j] # Nil
    BY <2>1, <2>2, NilFacts DEF TypesOK
  <2>4. RowsStay
    BY <2>1, <2>3 DEF RowsStay, RowsInv
  <2> QED BY <2>1, <2>4, RowsKept
<1>6. CASE i \in Item /\ \E b \in Item : EditBlockers(i, b)
  <2>1. plan' = plan /\ rows' = rows /\ graph' = graph /\ status' = status /\ items' = items
    BY <1>6, EditBlockersFacts
  <2>2. RowsStay
    BY <2>1 DEF RowsStay, RowsInv
  <2> QED BY <2>1, <2>2, RowsKept
<1>7. CASE i \in Item /\ \E out \in Outcome : Complete(i, out)
  <2>1. PICK out \in Outcome : Complete(i, out)
    BY <1>7
  <2>2. plan' = plan /\ graph' = graph /\ status = "running"
    BY <1>7, <2>1, CompleteFacts
  <2>3. plan.pc = "planned" /\ RowsStay
    BY <1>7, <2>1, <2>2, StartedIsPlanned, CompleteRows
  <2> QED BY <2>2, <2>3, RowsKept
<1> QED BY <1>1, <1>2, <1>3, <1>4, <1>5, <1>6, <1>7 DEF OtherStep

-----------------------------------------------------------------------------
(* ManagerInv *)

LEMMA NoRowsManaged ==
  ASSUME \A i \in Item : rows'[i] = Nil, status' \notin {"pending", "running"}
  PROVE  ManagerInv'
PROOF
<1>1. Nil \notin Begun /\ Nil \notin {"pending", "ready"}
  BY NilFacts
<1> QED BY <1>1 DEF ManagerInv

\* The same rows, over the same plan, in a rollout that may have started.
Starts == status = "pending" /\ status' = "running"

LEMMA ManagerKept ==
  ASSUME ManagerInv, rows' = rows, plan'.order = plan.order, plan'.edges = plan.edges,
         \A i \in Item : items'[i] = Nil <=> items[i] = Nil, InPlan \subseteq Item,
         \A i \in Item : Ahead(i) \subseteq Item,
         status' = status \/ Starts
  PROVE  ManagerInv'
PROOF
<1>1. InPlan' = InPlan /\ (\A i : Ahead(i)' = Ahead(i)) /\ (\A i : Over(i)' = Over(i))
  BY DEF InPlan, Ahead, Over
<1>2. Whole' <=> Whole
  BY <1>1 DEF Whole
<1>3. status' \notin {"running", "completed"} => \A i \in Item : rows'[i] \notin Begun
  BY DEF ManagerInv, Starts
<1>4. \A i \in Item : rows'[i] \in Begun => \A p \in Ahead(i)' : Over(p)' \/ items'[p] = Nil
  BY <1>1 DEF ManagerInv
<1>5. Whole' => \A i \in Item : rows'[i] \in {"pending", "ready"} =>
                  (rows'[i] = "ready" <=> \A p \in Ahead(i)' : Over(p)')
  BY <1>1, <1>2 DEF ManagerInv
<1>6. Whole' /\ status' \in {"pending", "running"} => \E i \in InPlan' : ~Over(i)'
  BY <1>1, <1>2 DEF ManagerInv, Starts
<1> QED BY <1>3, <1>4, <1>5, <1>6 DEF ManagerInv

LEMMA AheadFacts ==
  ASSUME TypesOK, NEW i \in Item
  PROVE  Ahead(i) \subseteq Item /\ (graph = plan.edges => Expected(i) = Ahead(i))
PROOF BY DEF TypesOK, PlanRecord, Ahead, Preds, Expected

LEMMA InsertManaged ==
  ASSUME TypesOK, StageInv, GraphInv, RowsInv, ManagerInv, InsertRow
  PROVE  ManagerInv'
PROOF
<1>1. /\ items' = items /\ status' = status /\ status = "planning" /\ plan.order # <<>>
      /\ plan'.order = plan.order /\ plan'.edges = plan.edges
  BY InsertRowFacts DEF board, SameFields, StageInv
<1>2. InPlan \subseteq Item /\ (\A i \in Item : Ahead(i) \subseteq Item) /\ Current \in Item
  BY <1>1, OrderFacts, AheadFacts, CurrentFacts
<1>3. CASE rows' = rows
  BY <1>1, <1>2, <1>3, ManagerKept
<1>4. CASE rows' = [rows EXCEPT ![Current] = RowStatus(Current)]
  <2>1. \A i \in Item : rows'[i] = IF i = Current THEN RowStatus(i) ELSE rows[i]
    BY <1>2, <1>4 DEF TypesOK
  <2>2. \A i \in Item : RowStatus(i) = (IF Ahead(i) = {} THEN "ready" ELSE "pending")
    BY DEF RowStatus, Ahead
  <2>3. \A i \in Item : rows[i] \notin Begun
    BY <1>1 DEF ManagerInv
  <2>4. \A i \in Item : rows'[i] \notin Begun
    BY <2>1, <2>2, <2>3 DEF Begun, Outcome
  <2>5. \A i \in Item : ~Over(i) /\ ~Over(i)'
    BY <2>3, <2>4 DEF Over, Begun
  <2>6. (\A i : Ahead(i)' = Ahead(i)) /\ (Whole' <=> Whole)
    BY <1>1 DEF Ahead, Whole, InPlan
  <2>7. ASSUME Whole', NEW i \in Item, rows'[i] \in {"pending", "ready"}
        PROVE  rows'[i] = "ready" <=> \A p \in Ahead(i)' : Over(p)'
    <3>1. CASE i = Current
      BY <1>2, <2>1, <2>2, <2>5, <2>6, <3>1
    <3>2. CASE i # Current
      BY <1>2, <2>1, <2>5, <2>6, <2>7, <3>2 DEF ManagerInv
    <3> QED BY <3>1, <3>2
  <2>8. status' \notin {"pending", "running", "completed"}
    BY <1>1
  <2> QED BY <2>4, <2>7, <2>8 DEF ManagerInv
<1> QED BY <1>3, <1>4, InsertRowFacts

LEMMA PlanManaged ==
  ASSUME TypesOK, StageInv, GraphInv, RowsInv, ManagerInv, PlanStep
  PROVE  ManagerInv'
PROOF
<1>1. plan'.order = plan.order /\ items' = items
  BY PlanStepFacts DEF board
<1>2. InPlan \subseteq Item /\ \A i \in Item : Ahead(i) \subseteq Item
  BY OrderFacts, AheadFacts
<1>3. CASE ReadItem \/ ReadBlockers \/ ReadAgain \/ DeriveEdges
  <2>1. UNCHANGED rollout /\ plan.pc \in {"item", "blockers", "again", "derive"}
    BY <1>3, ReadItemFacts, ReadBlockersFacts, ReadAgainFacts, DeriveFacts
  <2>2. graph = Nil /\ status \in {Nil, "planning"}
    BY <2>1 DEF GraphInv, Underived, WasDerived, StageInv, Early
  <2>3. (\A i \in Item : rows'[i] = Nil) /\ status' \notin {"pending", "running"}
    BY <2>1, <2>2, NilFacts DEF RowsInv, rollout
  <2> QED BY <2>3, NoRowsManaged
<1>4. CASE NothingAsked \/ LookAtConfig \/ InsertRollout
  <2>1. /\ rows' = rows /\ plan.pc \in {"item", "config", "insert"}
        /\ status' = status \/ status' = "planning"
    BY <1>4, SimpleFacts DEF rollout
  <2>2. graph = Nil /\ status = Nil
    BY <2>1 DEF GraphInv, Underived, WasDerived, StageInv, Early
  <2>3. (\A i \in Item : rows'[i] = Nil) /\ status' \notin {"pending", "running"}
    BY <2>1, <2>2, NilFacts DEF RowsInv
  <2> QED BY <2>3, NoRowsManaged
<1>5. CASE FailPlan \/ InsertGraph
  <2>1. /\ rows' = rows /\ plan.pc \in {"failed", "graph"}
        /\ status' = status \/ status' = "failed"
    BY <1>5, SimpleFacts
  <2>2. graph = Nil /\ status = "planning"
    BY <2>1 DEF GraphInv, StageInv
  <2>3. (\A i \in Item : rows'[i] = Nil) /\ status' \notin {"pending", "running"}
    BY <2>1, <2>2, NilFacts DEF RowsInv
  <2> QED BY <2>3, NoRowsManaged
<1>6. CASE InsertRow
  BY <1>6, InsertManaged
<1>7. CASE Promote
  <2>1. /\ rows' = rows /\ status' = "pending" /\ plan.pc = "promote" /\ plan'.edges = plan.edges
    BY <1>7, SimpleFacts DEF SameFields
  <2>2. status = "planning" /\ plan.order # <<>>
    BY <2>1 DEF StageInv
  <2>3. \A i \in Item : rows[i] \notin Begun /\ ~Over(i)
    BY <2>2 DEF ManagerInv, Over, Begun
  <2>4. Current \in InPlan
    BY <2>2, CurrentFacts
  <2>5. /\ InPlan' = InPlan /\ (\A i : Ahead(i)' = Ahead(i)) /\ (\A i : Over(i)' = Over(i))
        /\ (Whole' <=> Whole)
    BY <1>1, <2>1 DEF InPlan, Ahead, Over, Whole
  <2>6. \A i \in Item : rows'[i] \notin Begun
    BY <2>1, <2>3
  <2>7. Whole' => \A i \in Item : rows'[i] \in {"pending", "ready"} =>
                    (rows'[i] = "ready" <=> \A p \in Ahead(i)' : Over(p)')
    BY <2>1, <2>5 DEF ManagerInv
  <2>8. \E i \in InPlan' : ~Over(i)'
    BY <1>2, <2>3, <2>4, <2>5
  <2> QED BY <2>6, <2>7, <2>8 DEF ManagerInv
<1> QED BY <1>3, <1>4, <1>5, <1>6, <1>7 DEF PlanStep

LEMMA DispatchManaged ==
  ASSUME TypesOK, StageInv, GraphInv, RowsInv, ManagerInv, NEW i \in Item, Dispatch(i)
  PROVE  ManagerInv'
PROOF
<1>1. /\ status = "running" /\ i \in NextReady /\ rows' = [rows EXCEPT ![i] = "dispatched"]
      /\ items' = items /\ plan' = plan /\ status' = status
  BY DispatchFacts
<1>2. InPlan \subseteq Item /\ \A j \in Item : Ahead(j) \subseteq Item
  BY OrderFacts, AheadFacts
<1>3. graph = plan.edges
  BY <1>1, StartedIsPlanned DEF GraphInv
<1>4. rows[i] \in {"pending", "ready"} /\ \A p \in Ahead(i) : Over(p)
  BY <1>1, <1>3, AheadFacts DEF NextReady, Startable
<1>5. \A j \in Item : rows'[j] = IF j = i THEN "dispatched" ELSE rows[j]
  BY <1>1 DEF TypesOK
<1>6. \A j \in Item : Over(j)' <=> Over(j)
  BY <1>4, <1>5 DEF Over, Outcome
<1>7. InPlan' = InPlan /\ (\A j : Ahead(j)' = Ahead(j)) /\ (Whole' <=> Whole)
  BY <1>1 DEF InPlan, Ahead, Whole
<1>8. ASSUME NEW j \in Item, rows'[j] \in Begun, NEW p \in Ahead(j)'
      PROVE  Over(p)' \/ items'[p] = Nil
  <2>1. p \in Ahead(j) /\ p \in Item
    BY <1>2, <1>7, <1>8
  <2>2. CASE j = i
    BY <1>4, <1>6, <2>1, <2>2
  <2>3. CASE j # i
    <3>1. rows[j] \in Begun
      BY <1>5, <1>8, <2>3
    <3> QED BY <1>1, <1>6, <2>1, <3>1 DEF ManagerInv
  <2> QED BY <2>2, <2>3
<1>9. ASSUME Whole', NEW j \in Item, rows'[j] \in {"pending", "ready"}
      PROVE  rows'[j] = "ready" <=> \A p \in Ahead(j)' : Over(p)'
  <2>1. j # i /\ rows'[j] = rows[j]
    BY <1>5, <1>9
  <2> QED BY <1>2, <1>6, <1>7, <1>9, <2>1 DEF ManagerInv
<1>10. Whole' => \E j \in InPlan' : ~Over(j)'
  BY <1>1, <1>2, <1>6, <1>7 DEF ManagerInv
<1> QED BY <1>1, <1>8, <1>9, <1>10 DEF ManagerInv

LEMMA CompleteManaged ==
  ASSUME TypesOK, StageInv, GraphInv, RowsInv, ManagerInv,
         NEW i \in Item, NEW out \in Outcome, Complete(i, out)
  PROVE  ManagerInv'
PROOF
<1>1. /\ status = "running" /\ rows[i] = "dispatched" /\ plan' = plan
      /\ rows' = [j \in Item |-> IF j \in Unblocked(Done(i, out), i) THEN "ready"
                                 ELSE Done(i, out)[j]]
      /\ status' = IF \A j \in Planned : Done(i, out)[j] \in Outcome THEN "completed" ELSE status
      /\ \A j \in Item : items'[j] = Nil <=> items[j] = Nil
  BY CompleteFacts
<1>2. InPlan \subseteq Item /\ \A j \in Item : Ahead(j) \subseteq Item
  BY OrderFacts, AheadFacts
<1>3. \A j \in Item : Expected(j) = Ahead(j)
  BY <1>1, StartedIsPlanned, AheadFacts DEF GraphInv
<1>4. \A j \in Item : Done(i, out)[j] = IF j = i THEN out ELSE rows[j]
  BY DEF Done, TypesOK
<1>5. \A j \in Item : rows'[j] = IF j \in Unblocked(Done(i, out), i) THEN "ready"
                                 ELSE Done(i, out)[j]
  BY <1>1
<1>6. \A j \in Item : j \in Unblocked(Done(i, out), i) <=>
                        /\ Done(i, out)[j] = "pending" /\ i \in Ahead(j)
                        /\ \A p \in Ahead(j) : Done(i, out)[p] \in Outcome
  BY <1>3 DEF Unblocked
<1>7. \A j \in Item : Over(j)' <=> Done(i, out)[j] \in Outcome
  BY <1>5, <1>6 DEF Over, Outcome
<1>8. \A j \in Item : Over(j)' <=> Over(j) \/ j = i
  BY <1>1, <1>4, <1>7 DEF Over, Outcome
<1>9. InPlan' = InPlan /\ (\A j : Ahead(j)' = Ahead(j)) /\ (Whole' <=> Whole)
  BY <1>1, <1>2 DEF InPlan, Ahead, Whole
<1>10. ASSUME NEW j \in Item, rows'[j] \in Begun, NEW p \in Ahead(j)'
       PROVE  Over(p)' \/ items'[p] = Nil
  <2>1. p \in Ahead(j) /\ p \in Item
    BY <1>2, <1>9, <1>10
  <2>2. rows[j] \in Begun
    BY <1>1, <1>4, <1>5, <1>10 DEF Begun, Outcome
  <2>3. Over(p) \/ items[p] = Nil
    BY <2>1, <2>2 DEF ManagerInv
  <2> QED BY <1>1, <1>8, <2>1, <2>3
<1>11. ASSUME Whole', NEW j \in Item, rows'[j] \in {"pending", "ready"}
       PROVE  rows'[j] = "ready" <=> \A p \in Ahead(j)' : Over(p)'
  <2>1. j # i /\ Done(i, out)[j] = rows[j] /\ rows[j] \in {"pending", "ready"}
    BY <1>4, <1>5, <1>6, <1>11 DEF Outcome
  <2>2. rows[j] = "ready" <=> \A p \in Ahead(j) : Over(p)
    BY <1>9, <1>11, <2>1 DEF ManagerInv
  <2>3. CASE j \in Unblocked(Done(i, out), i)
    BY <1>2, <1>5, <1>6, <1>7, <1>9, <2>3
  <2>4. CASE j \notin Unblocked(Done(i, out), i)
    <3>1. rows'[j] = rows[j]
      BY <1>5, <2>1, <2>4
    <3>2. ASSUME \A p \in Ahead(j) : Over(p)' PROVE \A p \in Ahead(j) : Over(p)
      <4>1. i \notin Ahead(j) \/ rows[j] # "pending"
        BY <1>2, <1>6, <1>7, <2>1, <2>4, <3>2
      <4>2. CASE i \notin Ahead(j)
        BY <1>2, <1>8, <3>2, <4>2
      <4>3. CASE rows[j] # "pending"
        BY <2>1, <2>2, <4>3
      <4> QED BY <4>1, <4>2, <4>3
    <3> QED BY <1>2, <1>8, <1>9, <2>2, <3>1, <3>2
  <2> QED BY <2>3, <2>4
<1>12. ASSUME status' \in {"pending", "running"} PROVE \E j \in InPlan' : ~Over(j)'
  <2>1. PICK j \in Planned : Done(i, out)[j] \notin Outcome
    BY <1>1, <1>12
  <2>2. j \in Item /\ j \in InPlan
    BY <2>1 DEF Planned, RowsInv
  <2> QED BY <1>7, <1>9, <2>1, <2>2
<1>13. status' \in {"running", "completed"}
  BY <1>1
<1> QED BY <1>10, <1>11, <1>12, <1>13 DEF ManagerInv

LEMMA DeleteManaged ==
  ASSUME TypesOK, RowsInv, ManagerInv, NEW i \in Item, DeleteItem(i)
  PROVE  ManagerInv'
PROOF
<1>1. plan' = plan /\ status' = status
  BY DeleteFacts
<1>2. \A j \in Item : /\ items'[j] = IF j = i THEN Nil ELSE items[j]
                      /\ rows'[j] = IF j = i THEN Nil ELSE rows[j]
  BY DeleteFacts DEF TypesOK
<1>3. InPlan \subseteq Item /\ \A j \in Item : Ahead(j) \subseteq Item
  BY OrderFacts, AheadFacts
<1>4. InPlan' = InPlan /\ \A j : Ahead(j)' = Ahead(j)
  BY <1>1 DEF InPlan, Ahead
<1>5. \A j \in Item : rows'[j] # rows[j] => rows'[j] = Nil /\ j = i /\ i \in InPlan
  BY <1>2 DEF RowsInv
<1>6. status' \notin {"running", "completed"} => \A j \in Item : rows'[j] \notin Begun
  BY <1>1, <1>5, NilFacts DEF ManagerInv
<1>7. ASSUME NEW j \in Item, rows'[j] \in Begun, NEW p \in Ahead(j)'
      PROVE  Over(p)' \/ items'[p] = Nil
  <2>1. p \in Ahead(j) /\ p \in Item
    BY <1>3, <1>4, <1>7
  <2>2. rows[j] \in Begun
    BY <1>5, <1>7, NilFacts
  <2>3. Over(p) \/ items[p] = Nil
    BY <2>1, <2>2 DEF ManagerInv
  <2> QED BY <1>2, <2>1, <2>3 DEF Over
<1>8. ASSUME Whole' PROVE rows' = rows /\ Whole
  <2>1. i \notin InPlan
    BY <1>2, <1>4, <1>8 DEF Whole
  <2>2. \A j \in Item : rows'[j] = rows[j]
    BY <1>5, <2>1
  <2>3. rows' = rows
    BY <2>2, DeleteFacts DEF TypesOK
  <2> QED BY <1>2, <1>3, <1>4, <1>8, <2>1, <2>3 DEF Whole
<1>9. Whole' => \A j : Over(j)' = Over(j)
  BY <1>8 DEF Over
<1>10. Whole' => \A j \in Item : rows'[j] \in {"pending", "ready"} =>
                   (rows'[j] = "ready" <=> \A p \in Ahead(j)' : Over(p)')
  BY <1>4, <1>8, <1>9 DEF ManagerInv
<1>11. Whole' /\ status' \in {"pending", "running"} => \E j \in InPlan' : ~Over(j)'
  BY <1>1, <1>4, <1>8, <1>9 DEF ManagerInv
<1> QED BY <1>6, <1>7, <1>10, <1>11 DEF ManagerInv

LEMMA OtherManaged ==
  ASSUME TypesOK, StageInv, GraphInv, RowsInv, ManagerInv, NEW i, OtherStep(i)
  PROVE  ManagerInv'
PROOF
<1>1. InPlan \subseteq Item /\ \A j \in Item : Ahead(j) \subseteq Item
  BY OrderFacts, AheadFacts
<1>2. CASE Crash
  <2>1. /\ plan'.order = plan.order /\ plan'.edges = plan.edges /\ rows' = rows
        /\ status' = status /\ items' = items
    BY <1>2, SimpleFacts DEF rollout, SameFields
  <2> QED BY <1>1, <2>1, ManagerKept
<1>3. CASE Start
  BY <1>1, <1>3, StartFacts, ManagerKept DEF Starts
<1>4. CASE i \in Item /\ EditItem(i)
  <2>1. plan' = plan /\ rows' = rows /\ status' = status
    BY <1>4, EditItemFacts
  <2>2. \A j \in Item : items'[j] = Nil <=> items[j] = Nil
    BY <1>4, EditItemFacts DEF TypesOK
  <2> QED BY <1>1, <2>1, <2>2, ManagerKept
<1>5. CASE i \in Item /\ DeleteItem(i)
  BY <1>5, DeleteManaged
<1>6. CASE i \in Item /\ Dispatch(i)
  BY <1>6, DispatchManaged
<1>7. CASE i \in Item /\ \E b \in Item : EditBlockers(i, b)
  <2>1. plan' = plan /\ rows' = rows /\ status' = status /\ items' = items
    BY <1>7, EditBlockersFacts
  <2> QED BY <1>1, <2>1, ManagerKept
<1>8. CASE i \in Item /\ \E out \in Outcome : Complete(i, out)
  BY <1>8, CompleteManaged
<1> QED BY <1>2, <1>3, <1>4, <1>5, <1>6, <1>7, <1>8 DEF OtherStep

-----------------------------------------------------------------------------
(* JudgeInv *)

\* What is wrong with one item, by the rules that look at it alone.
FaultsOf(i) ==
  IF items[i] = Nil THEN {<<i, "missing">>}
  ELSE ({i} \X OwnFailures(items[i])) \cup {f \in {<<i, "blockers">>} : Unresolved(i) \ InPlan # {}}

LEMMA FaultsAdd ==
  ASSUME NEW S, NEW i
  PROVE  /\ Faults(S \cup {i}) = Faults(S) \cup FaultsOf(i)
         /\ FoundIn(S \cup {i}) = FoundIn(S) \cup
              {f \in {<<i, items[i].project>>} : items[i] # Nil}
PROOF
<1>1. Faults({i}) = FaultsOf(i)
  <2>1. \A w \in Rule : <<i, w>> \in Faults({i}) <=> <<i, w>> \in FaultsOf(i)
    BY DEF Faults, FaultsOf, Rule, OwnFailures
  <2>2. \A f \in Faults({i}) : f[1] = i /\ f[2] \in Rule /\ f = <<f[1], f[2]>>
    BY DEF Faults
  <2>3. \A f \in FaultsOf(i) : f[1] = i /\ f[2] \in Rule /\ f = <<f[1], f[2]>>
    BY DEF FaultsOf, Rule, OwnFailures
  <2> QED BY <2>1, <2>2, <2>3
<1>2. Faults(S \cup {i}) = Faults(S) \cup Faults({i})
  BY DEF Faults
<1>3. FoundIn(S \cup {i}) = FoundIn(S) \cup {f \in {<<i, items[i].project>>} : items[i] # Nil}
  BY DEF FoundIn
<1> QED BY <1>1, <1>2, <1>3

LEMMA TwoOf ==
  ASSUME NEW S, IsFiniteSet(S)
  PROVE  Cardinality(S) > 1 <=> \E a, b \in S : a # b
PROOF
<1>1. ASSUME NEW a \in S, NEW b \in S, a # b PROVE Cardinality(S) > 1
  <2>1. IsFiniteSet({a}) /\ Cardinality({a}) = 1
    BY FS_Singleton
  <2>2. IsFiniteSet({a} \cup {b}) /\ Cardinality({a} \cup {b}) = 2
    <3>1. b \notin {a}
      BY <1>1
    <3>2. /\ IsFiniteSet({a} \cup {b})
          /\ Cardinality({a} \cup {b}) = IF b \in {a} THEN Cardinality({a})
                                         ELSE Cardinality({a}) + 1
      BY <2>1, FS_AddElement
    <3> QED BY <2>1, <3>1, <3>2
  <2>3. {a} \cup {b} \subseteq S
    BY <1>1
  <2>4. Cardinality({a} \cup {b}) <= Cardinality(S) /\ Cardinality(S) \in Nat
    BY <2>3, FS_Subset, FS_CardinalityType
  <2> QED BY <2>2, <2>4
<1>2. ASSUME ~\E a, b \in S : a # b PROVE ~(Cardinality(S) > 1)
  <2>1. CASE S = {}
    BY <2>1, FS_EmptySet
  <2>2. CASE S # {}
    <3>1. PICK a \in S : S = {a}
      BY <1>2, <2>2
    <3> QED BY <3>1, FS_Singleton
  <2> QED BY <2>1, <2>2
<1> QED BY <1>1, <1>2

\* The rules of each item, and the one over all of them, are the contract.
LEMMA BrokenIsFound ==
  ASSUME TypesOK
  PROVE  Broken = Faults(InPlan) \cup Mismatches(FoundIn(InPlan))
PROOF
<1> DEFINE Found == {j \in InPlan : items[j] # Nil}
           P == {items[j].project : j \in Found}
<1>1. IsFiniteSet(InPlan)
  BY OrderFacts, MembersCount DEF InPlan
<1>2. IsFiniteSet(P)
  <2>1. IsFiniteSet(Found)
    BY <1>1, FS_Subset
  <2>2. PICK g : g = [j \in Found |-> items[j].project]
    OBVIOUS
  <2>3. g \in Surjection(Found, P)
    BY <2>2 DEF Surjection
  <2> QED BY <2>1, <2>3, FS_Surjection
<1>3. {f[2] : f \in FoundIn(InPlan)} = P
  <2>1. ASSUME NEW f \in FoundIn(InPlan) PROVE f[2] \in P
    BY <2>1 DEF FoundIn
  <2>2. ASSUME NEW j \in Found PROVE \E f \in FoundIn(InPlan) : f[2] = items[j].project
    <3>1. <<j, items[j].project>> \in FoundIn(InPlan)
      BY <2>2 DEF FoundIn
    <3> QED BY <3>1
  <2> QED BY <2>1, <2>2
<1>4. {<<f[1], "project">> : f \in FoundIn(InPlan)} = {<<i, "project">> : i \in Found}
  <2>1. ASSUME NEW f \in FoundIn(InPlan) PROVE f[1] \in Found
    BY <2>1 DEF FoundIn
  <2>2. ASSUME NEW j \in Found PROVE \E f \in FoundIn(InPlan) : f[1] = j
    <3>1. <<j, items[j].project>> \in FoundIn(InPlan)
      BY <2>2 DEF FoundIn
    <3> QED BY <3>1
  <2> HIDE DEF Found
  <2> QED BY <2>1, <2>2
<1>5. Mismatches(FoundIn(InPlan)) =
        IF \E a, b \in P : a # b THEN {<<i, "project">> : i \in Found} ELSE {}
  <2>1. Cardinality(P) > 1 <=> \E a, b \in P : a # b
    <3> HIDE DEF P
    <3> QED BY <1>2, TwoOf
  <2> QED BY <1>3, <1>4, <2>1 DEF Mismatches
<1>6. ASSUME NEW i \in Found
      PROVE  (\E a, b \in P : a # b)
               <=> \E j \in InPlan : items[j] # Nil /\ items[j].project # items[i].project
  BY <1>6
<1>7. ASSUME NEW i \in InPlan, NEW w \in Rule
      PROVE  <<i, w>> \in Broken <=> <<i, w>> \in Faults(InPlan) \cup Mismatches(FoundIn(InPlan))
  <2>1. <<i, w>> \in Mismatches(FoundIn(InPlan))
          <=> (\E a, b \in P : a # b) /\ i \in Found /\ w = "project"
    BY <1>5
  <2>2. CASE items[i] = Nil
    BY <1>7, <2>1, <2>2 DEF Broken, Faults
  <2>3. CASE items[i] # Nil
    <3>1. i \in Found
      BY <1>7, <2>3
    <3>2. <<i, w>> \in Mismatches(FoundIn(InPlan)) <=>
            /\ w = "project"
            /\ \E j \in InPlan : items[j] # Nil /\ items[j].project # items[i].project
      BY <1>6, <2>1, <3>1
    <3> HIDE DEF Found, P
    <3>3. <<i, w>> \in Faults(InPlan) <=>
            w \in OwnFailures(items[i]) \/ (w = "blockers" /\ Unresolved(i) \ InPlan # {})
      BY <1>7, <2>3 DEF Faults
    <3>4. <<i, w>> \in Broken <=>
            \/ w \in OwnFailures(items[i])
            \/ w = "blockers" /\ Unresolved(i) \ InPlan # {}
            \/ /\ w = "project"
               /\ \E j \in InPlan : items[j] # Nil /\ items[j].project # items[i].project
      BY <1>7, <2>3 DEF Broken
    <3> QED BY <3>2, <3>3, <3>4
  <2> QED BY <2>2, <2>3
<1>8. \A f \in Broken : f \in InPlan \X Rule
  BY DEF Broken
<1>9. \A f \in Faults(InPlan) : f \in InPlan \X Rule
  BY DEF Faults
<1>10. \A f \in Mismatches(FoundIn(InPlan)) : f \in InPlan \X Rule
  BY <1>5 DEF Rule
<1>11. \A f \in InPlan \X Rule : \E i \in InPlan, w \in Rule : f = <<i, w>>
  OBVIOUS
<1> HIDE DEF Found, P
<1> QED BY <1>7, <1>8, <1>9, <1>10, <1>11

\* Nothing of what the contract looks at is changed by the request.
LEMMA JudgedAlike ==
  ASSUME items' = items, blockers' = blockers, plan'.order = plan.order
  PROVE  /\ \A S : Faults(S)' = Faults(S) /\ FoundIn(S)' = FoundIn(S)
         /\ Broken' = Broken /\ InPlan' = InPlan
PROOF
<1>1. InPlan' = InPlan
  BY DEF InPlan
<1>2. \A i : Unresolved(i)' = Unresolved(i)
  BY DEF Unresolved
<1>3. \A S : Faults(S)' = Faults(S)
  BY <1>1, <1>2 DEF Faults
<1>4. \A S : FoundIn(S)' = FoundIn(S)
  BY DEF FoundIn
<1>5. Broken' = Broken
  BY <1>1, <1>2 DEF Broken
<1> QED BY <1>1, <1>3, <1>4, <1>5

LEMMA SeenFacts ==
  ASSUME TypesOK, StageInv, plan.order # <<>>
  PROVE  /\ plan.k = Len(plan.order) => Seen \cup {Current} = InPlan
         /\ plan'.order = plan.order /\ plan'.k = plan.k + 1 => Seen' = Seen \cup {Current}
         /\ plan'.order = plan.order /\ plan'.k = plan.k => Seen' = Seen /\ Current' = Current
PROOF
<1>1. plan.k \in 1..Len(plan.order) /\ Len(plan.order) \in Nat
  BY CurrentFacts, OrderFacts
<1>2. \A m : m \in 1..plan.k <=> m \in 1..(plan.k - 1) \/ m = plan.k
  BY <1>1
<1>3. {plan.order[m] : m \in 1..plan.k} = Seen \cup {Current}
  BY <1>2 DEF Seen, Current
<1>4. InPlan = {plan.order[m] : m \in 1..Len(plan.order)}
  BY OrderFacts DEF InPlan, Members
<1>5. ASSUME plan'.order = plan.order, plan'.k = plan.k + 1
      PROVE  Seen' = {plan.order[m] : m \in 1..plan.k}
  <2>1. plan'.k - 1 = plan.k
    BY <1>1, <1>5
  <2> QED BY <1>5, <2>1 DEF Seen
<1> QED BY <1>3, <1>4, <1>5 DEF Seen, Current

LEMMA JudgedNext ==
  ASSUME TypesOK, StageInv, plan.order # <<>>, items' = items, blockers' = blockers,
         JudgedTo(Faults(Seen \cup {Current}), FoundIn(Seen \cup {Current}))
  PROVE  Judgement'
PROOF
<1>1. plan.k \in 1..Len(plan.order) /\ Len(plan.order) \in Nat /\ plan'.order = plan.order
  BY CurrentFacts, OrderFacts DEF JudgedTo, SameGraph
<1>2. /\ \A S : Faults(S)' = Faults(S) /\ FoundIn(S)' = FoundIn(S)
      /\ Broken' = Broken
  BY <1>1, JudgedAlike
<1>3. CASE plan.k < Len(plan.order)
  <2>1. /\ plan'.pc = "item" /\ plan'.k = plan.k + 1
        /\ plan'.failures = Faults(Seen \cup {Current})
        /\ plan'.found = FoundIn(Seen \cup {Current})
    BY <1>3 DEF JudgedTo
  <2>2. Seen' = Seen \cup {Current}
    BY <1>1, <2>1, SeenFacts
  <2>3. plan'.failures = Faults(Seen)' /\ plan'.found = FoundIn(Seen)'
    BY <1>2, <2>1, <2>2 DEF Faults, FoundIn
  <2> QED BY <2>1, <2>3 DEF Judgement
<1>4. CASE plan.k = Len(plan.order)
  <2>1. /\ plan'.failures = Faults(InPlan) \cup Mismatches(FoundIn(InPlan))
        /\ plan'.pc = IF plan'.failures = {} THEN "again" ELSE "illegal"
    <3>1. Seen \cup {Current} = InPlan
      BY <1>4, SeenFacts
    <3>2. plan.k >= Len(plan.order)
      BY <1>1, <1>4
    <3>3. PICK fl, fd : fl = Faults(Seen \cup {Current}) /\ fd = FoundIn(Seen \cup {Current})
      OBVIOUS
    <3>4. JudgedTo(fl, fd)
      BY <3>3
    <3>5. plan'.failures = fl \cup Mismatches(fd)
      BY <3>2, <3>4 DEF JudgedTo
    <3>6. plan'.pc = IF plan'.failures = {} THEN "again" ELSE "illegal"
      BY <3>2, <3>4 DEF JudgedTo
    <3> QED BY <3>1, <3>3, <3>5, <3>6
  <2>2. plan'.failures = Broken'
    BY <1>2, <2>1, BrokenIsFound
  <2> QED BY <2>1, <2>2 DEF Judgement
<1> QED BY <1>1, <1>3, <1>4

\* Once all rules were seen to hold, they hold while nobody edits.
LEMMA JudgementKept ==
  ASSUME TypesOK, Judgement, items' = items, blockers' = blockers, plan'.order = plan.order,
         plan.pc \notin {"item", "blockers", "illegal", "invalid"},
         plan'.pc \notin {"item", "blockers", "illegal"}
  PROVE  Judgement'
PROOF
<1>1. Broken' = Broken
  BY JudgedAlike
<1> QED BY <1>1 DEF Judgement

LEMMA PlanJudged ==
  ASSUME TypesOK, StageInv, JudgeInv, PlanStep
  PROVE  JudgeInv'
PROOF
<1>1. plan'.order = plan.order /\ items' = items /\ blockers' = blockers /\ edits' = edits
  BY PlanStepFacts DEF board
<1>2. plan.pc \notin {"illegal", "invalid"} /\ status \notin {"running", "completed"}
  BY NilFacts, ReadItemFacts, ReadBlockersFacts, ReadAgainFacts, DeriveFacts, InsertRowFacts,
     SimpleFacts DEF PlanStep, StageInv, Early
<1>3. SUFFICES ASSUME edits = 0, Judgement PROVE Judgement'
  BY <1>1, <1>2 DEF JudgeInv
<1>4. CASE ReadItem
  <2>1. plan.pc = "item" /\ plan.order # <<>>
    BY <1>4, ReadItemFacts
  <2>2. plan.failures = Faults(Seen) /\ plan.found = FoundIn(Seen)
    BY <1>3, <2>1 DEF Judgement
  <2>3. CASE items[Current] = Nil
    <3>1. /\ Faults(Seen \cup {Current}) = Faults(Seen) \cup {<<Current, "missing">>}
          /\ FoundIn(Seen \cup {Current}) = FoundIn(Seen)
      <4>1. PICK S, i : S = Seen /\ i = Current
        OBVIOUS
      <4>2. /\ Faults(S \cup {i}) = Faults(S) \cup FaultsOf(i)
            /\ FoundIn(S \cup {i}) = FoundIn(S) \cup
                 {f \in {<<i, items[i].project>>} : items[i] # Nil}
        BY FaultsAdd
      <4>3. FaultsOf(i) = {<<i, "missing">>}
        BY <2>3, <4>1 DEF FaultsOf
      <4> QED BY <2>3, <4>1, <4>2, <4>3
    <3>2. JudgedTo(plan.failures \cup {<<Current, "missing">>}, plan.found)
      BY <1>4, <2>3, ReadItemFacts
    <3>3. JudgedTo(Faults(Seen \cup {Current}), FoundIn(Seen \cup {Current}))
      BY <2>2, <3>1, <3>2
    <3> QED BY <1>1, <2>1, <3>3, JudgedNext
  <2>4. CASE items[Current] # Nil
    <3>1. /\ plan'.pc = "blockers" /\ plan'.k = plan.k
          /\ plan'.found = plan.found \cup {<<Current, items[Current].project>>}
          /\ plan'.failures = plan.failures \cup ({Current} \X OwnFailures(items[Current]))
      BY <1>4, <2>4, ReadItemFacts
    <3>2. Seen' = Seen /\ Current' = Current
      BY <1>1, <2>1, <3>1, SeenFacts
    <3>3. FoundIn(Seen \cup {Current}) = FoundIn(Seen) \cup {<<Current, items[Current].project>>}
      BY <2>4, FaultsAdd
    <3>4. /\ Faults(Seen)' = Faults(Seen)
          /\ FoundIn(Seen \cup {Current})' = FoundIn(Seen \cup {Current})
      <4>1. PICK S, T : S = Seen /\ T = Seen \cup {Current}
        OBVIOUS
      <4>2. Faults(S)' = Faults(S) /\ FoundIn(T)' = FoundIn(T)
        BY <1>1, JudgedAlike
      <4> QED BY <3>2, <4>1, <4>2 DEF Faults, FoundIn
    <3> QED BY <1>1, <2>2, <2>4, <3>1, <3>2, <3>3, <3>4 DEF Judgement
  <2> QED BY <2>3, <2>4
<1>5. CASE ReadBlockers
  <2>1. plan.pc = "blockers" /\ plan.order # <<>>
    BY <1>5, ReadBlockersFacts
  <2>2. /\ items[Current] # Nil
        /\ plan.failures = Faults(Seen) \cup ({Current} \X OwnFailures(items[Current]))
        /\ plan.found = FoundIn(Seen \cup {Current})
    BY <1>3, <2>1 DEF Judgement
  <2>3. Faults(Seen \cup {Current}) =
          plan.failures \cup {f \in {<<Current, "blockers">>} : Unresolved(Current) \ InPlan # {}}
    <3>1. PICK S, i : S = Seen /\ i = Current
      OBVIOUS
    <3>2. Faults(S \cup {i}) = Faults(S) \cup FaultsOf(i)
      BY FaultsAdd
    <3>3. FaultsOf(i) = ({i} \X OwnFailures(items[i])) \cup
                          {f \in {<<i, "blockers">>} : Unresolved(i) \ InPlan # {}}
      BY <2>2, <3>1 DEF FaultsOf
    <3> QED BY <2>2, <3>1, <3>2, <3>3
  <2>4. JudgedTo(plan.failures \cup
                   {f \in {<<Current, "blockers">>} : Unresolved(Current) \ InPlan # {}},
                 plan.found)
    BY <1>5, ReadBlockersFacts
  <2>5. JudgedTo(Faults(Seen \cup {Current}), FoundIn(Seen \cup {Current}))
    BY <2>2, <2>3, <2>4
  <2> QED BY <1>1, <2>1, <2>5, JudgedNext
<1>6. CASE ReadAgain
  <2>1. plan.pc = "again" /\ plan'.pc \in {"error", "again", "config"}
    BY <1>6, ReadAgainFacts
  <2> QED BY <1>1, <1>3, <2>1, JudgementKept
<1>7. CASE DeriveEdges
  <2>1. plan.pc = "derive" /\ plan'.pc \in {"graph", "failed"}
    BY <1>7, DeriveFacts
  <2> QED BY <1>1, <1>3, <2>1, JudgementKept
<1>8. CASE InsertRow
  <2>1. plan.pc = "rows" /\ plan'.pc \in {"error", "rows", "promote"}
    BY <1>8, InsertRowFacts
  <2> QED BY <1>1, <1>3, <2>1, JudgementKept
<1>9. CASE NothingAsked
  <2>1. plan'.pc = "invalid"
    BY <1>9, SimpleFacts
  <2> QED BY <2>1 DEF Judgement
<1>10. CASE LookAtConfig \/ InsertRollout \/ FailPlan \/ InsertGraph \/ Promote
  <2>1. /\ plan.pc \in {"config", "insert", "failed", "graph", "promote"}
        /\ plan'.pc \in {"insert", "invalid", "derive", "cyclic", "rows", "planned"}
    BY <1>10, SimpleFacts
  <2> QED BY <1>1, <1>3, <2>1, JudgementKept
<1> QED BY <1>4, <1>5, <1>6, <1>7, <1>8, <1>9, <1>10 DEF PlanStep

\* Anything else is an edit, a crash, or of a rollout that was started.
LEMMA OtherJudged ==
  ASSUME TypesOK, RowsInv, NEW i, OtherStep(i)
  PROVE  JudgeInv'
PROOF
<1>1. edits \in Nat
  BY MixFacts DEF TypesOK
<1>2. CASE \/ Crash
           \/ i \in Item /\ (EditItem(i) \/ DeleteItem(i) \/ \E b \in Item : EditBlockers(i, b))
  <2>1. edits' = edits + 1
    BY <1>2, SimpleFacts, EditItemFacts, DeleteFacts, EditBlockersFacts
  <2>2. edits' # 0
    BY <1>1, <2>1
  <2> QED BY <2>2 DEF JudgeInv
<1>3. CASE \/ Start
           \/ i \in Item /\ (Dispatch(i) \/ \E out \in Outcome : Complete(i, out))
  <2>1. status' \in {"running", "completed"}
    BY <1>3, StartFacts, DispatchFacts, CompleteFacts
  <2> QED BY <2>1 DEF JudgeInv
<1> QED BY <1>2, <1>3 DEF OtherStep

-----------------------------------------------------------------------------
(* The induction *)

LEMMA PlanInit ==
  ASSUME Init
  PROVE  PlanIInv
PROOF
<1>1. PICK order \in bounds.orders :
        plan = [order |-> order, pc |-> "item", k |-> 1, failures |-> {},
                found |-> {}, files |-> [i \in Item |-> {}], pairs |-> {}, edges |-> {}]
  BY DEF Init
<1>2. /\ bounds \in Mixes /\ items \in bounds.items /\ status = Nil /\ graph = Nil
      /\ rows = [i \in Item |-> Nil] /\ edits = 0
  BY DEF Init
<1>3. /\ bounds.items \subseteq [Item -> ItemRow \cup {Nil}] /\ bounds.orders \subseteq Seq(Item)
      /\ bounds.blockers \subseteq SUBSET (Item \X Item)
      /\ bounds.edits \in Nat /\ bounds.deaths \in Nat
  BY <1>2, PlanAssumption
<1>4. blockers \in SUBSET (Item \X Item)
  <2>1. PICK pairs \in bounds.blockers :
          blockers = {p \in pairs : items[p[1]] # Nil /\ items[p[2]] # Nil}
    BY DEF Init
  <2> QED BY <1>3, <2>1
<1>5. plan \in PlanRecord
  <2>1. PICK files \in [Item -> SUBSET Entry] : files = [i \in Item |-> {}]
    OBVIOUS
  <2>2. PICK one \in Nat \ {0} : one = 1
    OBVIOUS
  <2>3. PICK pc \in Serving \cup Answer : pc = "item"
    BY DEF Serving
  <2>4. order \in Seq(Item)
    BY <1>3
  <2>5. plan = [order |-> order, pc |-> pc, k |-> one, failures |-> {},
                found |-> {}, files |-> files, pairs |-> {}, edges |-> {}]
    BY <1>1, <2>1, <2>2, <2>3
  <2> QED BY <2>4, <2>5 DEF PlanRecord
<1>6. TypesOK
  <2>1. edits \in 0..(bounds.edits + bounds.deaths)
    BY <1>2, <1>3
  <2> QED BY <1>2, <1>3, <1>4, <1>5, <2>1 DEF TypesOK, RolloutStates, RowStates
<1>7. plan.pc = "item" /\ plan.k = 1 /\ plan.pairs = {} /\ plan.edges = {}
      /\ plan.failures = {} /\ plan.found = {}
  BY <1>1
<1>8. plan.order # <<>> => plan.k \in 1..Len(plan.order)
  <2>1. plan.order \in Seq(Item)
    BY <1>6, OrderFacts
  <2> QED BY <1>7, <2>1
<1>9. StageInv
  BY <1>2, <1>7, <1>8 DEF StageInv, Early
<1>10. GraphInv
  BY <1>2, <1>7 DEF GraphInv, Underived, Late
<1>11. RowsInv
  BY <1>2, <1>7 DEF RowsInv
<1>12. ManagerInv
  BY <1>2, NilFacts DEF ManagerInv
<1>13. JudgeInv
  <2>1. 1..(plan.k - 1) = {}
    BY <1>7
  <2>2. Seen = {}
    BY <2>1 DEF Seen
  <2>3. Faults(Seen) = {} /\ FoundIn(Seen) = {}
    BY <2>2 DEF Faults, FoundIn
  <2> QED BY <1>7, <2>3 DEF JudgeInv, Judgement
<1> QED BY <1>6, <1>9, <1>10, <1>11, <1>12, <1>13 DEF PlanIInv

LEMMA PlanStutters ==
  ASSUME PlanIInv, UNCHANGED vars
  PROVE  PlanIInv'
PROOF
<1>1. /\ items' = items /\ blockers' = blockers /\ plan' = plan /\ status' = status
      /\ graph' = graph /\ rows' = rows /\ bounds' = bounds /\ edits' = edits
  BY DEF vars
<1>2. TypesOK'
  BY <1>1 DEF PlanIInv, TypesOK
<1>3. StageInv'
  BY <1>1 DEF PlanIInv, StageInv
<1>4. GraphInv'
  BY <1>1 DEF PlanIInv, GraphInv, Underived, WasDerived, Derived
<1>5. RowsInv'
  BY <1>1 DEF PlanIInv, RowsInv, Filled, InPlan
<1>6. ManagerInv'
  BY <1>1 DEF PlanIInv, ManagerInv, Over, Ahead, Whole, InPlan
<1>7. JudgeInv'
  BY <1>1 DEF PlanIInv, JudgeInv, Judgement, Seen, Faults, FoundIn, Broken, Current, InPlan,
              Unresolved
<1> QED BY <1>2, <1>3, <1>4, <1>5, <1>6, <1>7 DEF PlanIInv

LEMMA PlanNext ==
  ASSUME PlanIInv, [Next]_vars
  PROVE  PlanIInv'
PROOF
<1>1. TypesOK /\ StageInv /\ GraphInv /\ RowsInv /\ ManagerInv /\ JudgeInv
  BY DEF PlanIInv
<1>2. CASE PlanStep
  BY <1>1, <1>2, PlanTypes, PlanStage, PlanGraph, PlanRows, PlanManaged, PlanJudged DEF PlanIInv
<1>3. ASSUME NEW i, OtherStep(i) PROVE PlanIInv'
  BY <1>1, <1>3, OtherTypes, OtherStage, OtherGraph, OtherRows, OtherManaged, OtherJudged
     DEF PlanIInv
<1>4. CASE UNCHANGED vars
  BY <1>4, PlanStutters
<1>5. Next => PlanStep \/ \E i : OtherStep(i)
  BY DEF Next, OtherStep
<1> QED BY <1>2, <1>3, <1>4, <1>5

-----------------------------------------------------------------------------
(* What the invariant says of plans *)

LEMMA EdgesAreInPlan ==
  ASSUME TypesOK, NEW B \in SUBSET (Item \X Item), Derived(B)
  PROVE  Within2(plan.edges, plan.order)
PROOF
<1>1. /\ DOMAIN plan.order = 1..Len(plan.order)
      /\ \A k \in DOMAIN plan.order : plan.order[k] \in InPlan
  BY OrderFacts
<1>2. BlockerEdges(B, plan.order) \subseteq InPlan \X InPlan
  BY DEF BlockerEdges, DependencyPairs, InPlan
<1>3. OverlapEdges(plan.files, plan.order) \subseteq InPlan \X InPlan
  BY <1>1 DEF OverlapEdges
<1> QED BY <1>2, <1>3 DEF Derived, MergeEdges, Within2, InPlan

LEMMA StartedFacts ==
  ASSUME PlanIInv, status \in {"pending", "running", "completed"}
  PROVE  /\ plan.pc = "planned" /\ graph = plan.edges /\ plan.edges \subseteq Item \X Item
         /\ AssertAcyclic(plan.edges, plan.order) /\ WasDerived
         /\ Once(plan.order) /\ Within2(plan.edges, plan.order)
         /\ \A i \in InPlan : rows[i] # Nil \/ items[i] = Nil
PROOF
<1>1. TypesOK /\ StageInv /\ GraphInv /\ RowsInv
  BY DEF PlanIInv
<1>2. plan.pc = "planned"
  BY <1>1, StartedIsPlanned
<1>3. /\ graph = plan.edges /\ AssertAcyclic(plan.edges, plan.order) /\ WasDerived
      /\ plan.edges \subseteq Item \X Item
  BY <1>1, <1>2 DEF GraphInv, Underived, Late, TypesOK, PlanRecord
<1>4. Within2(plan.edges, plan.order)
  BY <1>1, <1>3, EdgesAreInPlan DEF WasDerived
<1>5. Filled(Len(plan.order)) /\ DOMAIN plan.order = 1..Len(plan.order)
  BY <1>1, <1>2, OrderFacts DEF RowsInv
<1>6. Once(plan.order)
  BY <1>5 DEF Filled, Once
<1>7. \A i \in InPlan : rows[i] # Nil \/ items[i] = Nil
  BY <1>1, <1>5, OrderFacts DEF Filled
<1> QED BY <1>2, <1>3, <1>4, <1>6, <1>7

LEMMA TypesCorrect ==
  ASSUME PlanIInv
  PROVE  PlanTypeOK
PROOF
<1>1. TypesOK
  BY DEF PlanIInv
<1>2. \A i \in Item : items[i] # Nil => items[i].status \in {"ready", "open", "done"}
  BY <1>1 DEF TypesOK, ItemRow
<1> QED BY <1>1, <1>2 DEF TypesOK, PlanTypeOK, PlanRecord, RowStates, RolloutStates

LEMMA WholeCorrect ==
  ASSUME PlanIInv
  PROVE  PlansAreWhole
PROOF
<1> SUFFICES ASSUME status \in {"pending", "running", "completed"}
             PROVE  /\ graph # Nil /\ Workable(graph)
                    /\ \A i \in InPlan : items[i] # Nil => rows[i] # Nil
  BY DEF PlansAreWhole
<1>1. plan.order \in Seq(Item)
  BY OrderFacts DEF PlanIInv
<1>2. Workable(plan.edges)
  BY <1>1, StartedFacts, TakenIsWorkable
<1>3. plan.edges # Nil
  BY StartedFacts, PlanAssumption
<1> QED BY <1>2, <1>3, StartedFacts

LEMMA RefusalCorrect ==
  ASSUME PlanIInv
  PROVE  RefusedForCause
PROOF
<1> SUFFICES ASSUME plan.pc \in {"failed", "cyclic"}
             PROVE  /\ ~Workable(plan.edges) \/ Cardinality(InPlan) < Len(plan.order)
                    /\ \E j, k \in DOMAIN plan.order :
                         /\ j <= k
                         /\ \/ <<plan.order[j], plan.order[k]>> \in plan.pairs
                            \/ j # k /\ plan.order[j] = plan.order[k]
  BY DEF RefusedForCause
<1>1. TypesOK /\ GraphInv
  BY DEF PlanIInv
<1>2. ~AssertAcyclic(plan.edges, plan.order) /\ WasDerived
  BY <1>1 DEF GraphInv, Underived, Late
<1>3. PICK B \in SUBSET (Item \X Item) : Derived(B)
  BY <1>2 DEF WasDerived
<1>4. /\ plan.order \in Seq(Item) /\ DOMAIN plan.order = 1..Len(plan.order)
      /\ Len(plan.order) \in Nat
      /\ \A i \in InPlan : \E m \in 1..Len(plan.order) : plan.order[m] = i
  BY <1>1, OrderFacts
<1>5. Within2(plan.edges, plan.order)
  BY <1>1, <1>3, EdgesAreInPlan
<1>6. ASSUME Once(plan.order) PROVE ~Workable(plan.edges)
  BY <1>2, <1>4, <1>5, <1>6, WorkableIsTaken
<1>7. ~Once(plan.order) => Cardinality(InPlan) < Len(plan.order)
  <2>1. /\ Cardinality(InPlan) \in Nat /\ Cardinality(InPlan) <= Len(plan.order)
        /\ Cardinality(InPlan) = Len(plan.order) <=> Once(plan.order)
    BY <1>4, MembersCount DEF InPlan
  <2> QED BY <1>4, <2>1
<1>8. ASSUME ~\E j, k \in DOMAIN plan.order :
                /\ j <= k
                /\ \/ <<plan.order[j], plan.order[k]>> \in plan.pairs
                   \/ j # k /\ plan.order[j] = plan.order[k]
      PROVE  FALSE
  <2>1. Once(plan.order)
    <3>1. ASSUME NEW j \in DOMAIN plan.order, NEW k \in DOMAIN plan.order,
                 plan.order[j] = plan.order[k], j # k
          PROVE  FALSE
      <4>1. j <= k \/ k <= j
        BY <1>4
      <4> QED BY <1>8, <3>1, <4>1
    <3> QED BY <3>1 DEF Once
  <2>2. ASSUME NEW e \in plan.edges
        PROVE  \E j, k \in DOMAIN plan.order : j < k /\ e = <<plan.order[j], plan.order[k]>>
    <3>1. CASE e \in BlockerEdges(B, plan.order)
      <4>1. PICK pair \in plan.pairs : e = <<pair[2], pair[1]>>
        BY <1>3, <3>1 DEF Derived, BlockerEdges
      <4>2. /\ pair[1] \in InPlan /\ pair[2] \in InPlan /\ pair = <<pair[1], pair[2]>>
        BY <1>3, <4>1 DEF Derived, DependencyPairs, InPlan
      <4>3. PICK j \in DOMAIN plan.order : plan.order[j] = pair[1]
        BY <1>4, <4>2
      <4>4. PICK k \in DOMAIN plan.order : plan.order[k] = pair[2]
        BY <1>4, <4>2
      <4>5. <<plan.order[j], plan.order[k]>> \in plan.pairs
        BY <4>1, <4>2, <4>3, <4>4
      <4>6. ~(j <= k)
        BY <1>8, <4>5
      <4>7. k < j
        BY <1>4, <4>6
      <4> QED BY <4>1, <4>3, <4>4, <4>7
    <3>2. CASE e \in OverlapEdges(plan.files, plan.order)
      BY <3>2 DEF OverlapEdges
    <3> QED BY <1>3, <2>2, <3>1, <3>2 DEF Derived, MergeEdges
  <2>3. Workable(plan.edges)
    BY <1>4, <2>1, <2>2, ForwardIsWorkable
  <2> QED BY <1>6, <2>1, <2>3
<1> QED BY <1>6, <1>7, <1>8

LEMMA ContractCorrect ==
  ASSUME PlanIInv
  PROVE  ContractDecides /\ HalfPlansAreExcused
PROOF
<1>1. StageInv /\ RowsInv /\ JudgeInv
  BY DEF PlanIInv
<1>2. ContractDecides
  BY <1>1 DEF ContractDecides, JudgeInv, Judgement
<1>3. plan.pc \in {"illegal", "invalid"} => status = Nil
  BY <1>1 DEF StageInv
<1>4. plan.pc \in Answer /\ status = "planning" => plan.pc \in {"error", "dead"}
  BY <1>1, NilFacts DEF StageInv, Answer
<1> QED BY <1>1, <1>2, <1>3, <1>4 DEF HalfPlansAreExcused, RowsInv

-----------------------------------------------------------------------------
(* What it says of builds *)

\* Of two items whose files meet, the later one comes after the earlier one.
LEMMA MeetingFilesAreOrdered ==
  ASSUME PlanIInv, status \in {"pending", "running", "completed"},
         NEW m \in DOMAIN plan.order, NEW n \in DOMAIN plan.order, m < n,
         PathsOverlap(plan.files[plan.order[m]], plan.files[plan.order[n]])
  PROVE  plan.order[m] \in Ahead(plan.order[n])
PROOF
<1>1. PICK B \in SUBSET (Item \X Item) : Derived(B)
  BY StartedFacts DEF WasDerived
<1>2. <<m, n>> \in {p \in (DOMAIN plan.order) \X (DOMAIN plan.order) :
                      p[1] < p[2] /\ PathsOverlap(plan.files[plan.order[p[1]]],
                                                  plan.files[plan.order[p[2]]])}
  OBVIOUS
<1>3. <<plan.order[m], plan.order[n]>> \in OverlapEdges(plan.files, plan.order)
  BY <1>2 DEF OverlapEdges
<1>4. <<plan.order[m], plan.order[n]>> \in plan.edges
  BY <1>1, <1>3 DEF Derived, MergeEdges
<1> QED BY <1>4 DEF Ahead, Preds

LEMMA BuildersCorrect ==
  ASSUME PlanIInv
  PROVE  OneBuilderPerFile
PROOF
<1> SUFFICES ASSUME NEW i \in Item, NEW j \in Item, i # j,
                    rows[i] = "dispatched", rows[j] = "dispatched",
                    ~NamesDottedDirectory(plan.files[i]), ~NamesDottedDirectory(plan.files[j])
             PROVE  Touched(plan.files[i]) \cap Touched(plan.files[j]) = {}
  BY DEF OneBuilderPerFile
<1>1. TypesOK /\ RowsInv /\ ManagerInv
  BY DEF PlanIInv
<1>2. status \in {"running", "completed"}
  BY <1>1 DEF ManagerInv, Begun
<1>3. "dispatched" # Nil
  BY NilFacts
<1>4. i \in InPlan /\ j \in InPlan /\ items[i] # Nil /\ items[j] # Nil
  BY <1>1, <1>3 DEF RowsInv
<1>5. ~Over(i) /\ ~Over(j)
  BY DEF Over, Outcome
<1>6. i \notin Ahead(j) /\ j \notin Ahead(i)
  BY <1>1, <1>4, <1>5 DEF ManagerInv, Begun
<1>7. DOMAIN plan.order = 1..Len(plan.order) /\ Len(plan.order) \in Nat
  BY <1>1, OrderFacts
<1>8. PICK m \in DOMAIN plan.order : plan.order[m] = i
  BY <1>1, <1>4, <1>7, OrderFacts
<1>9. PICK n \in DOMAIN plan.order : plan.order[n] = j
  BY <1>1, <1>4, <1>7, OrderFacts
<1>10. plan.files[i] \in SUBSET Entry /\ plan.files[j] \in SUBSET Entry
  BY <1>1 DEF TypesOK, PlanRecord
<1>11. CASE m < n
  <2>1. ~PathsOverlap(plan.files[i], plan.files[j])
    BY <1>2, <1>6, <1>8, <1>9, <1>11, MeetingFilesAreOrdered
  <2> QED BY <1>10, <2>1, ApartTouchesApart
<1>12. CASE n < m
  <2>1. ~PathsOverlap(plan.files[j], plan.files[i])
    BY <1>2, <1>6, <1>8, <1>9, <1>12, MeetingFilesAreOrdered
  <2>2. Touched(plan.files[j]) \cap Touched(plan.files[i]) = {}
    BY <1>10, <2>1, ApartTouchesApart
  <2> QED BY <2>2
<1>13. m < n \/ n < m
  BY <1>7, <1>8, <1>9
<1> QED BY <1>11, <1>12, <1>13

LEMMA BlockersCorrect ==
  ASSUME PlanIInv
  PROVE  BlockersComeFirst
PROOF
<1> SUFFICES ASSUME NEW pair \in plan.pairs, rows[pair[1]] \in {"dispatched"} \cup Outcome
             PROVE  Over(pair[2]) \/ items[pair[2]] = Nil
  BY DEF BlockersComeFirst
<1>1. TypesOK /\ GraphInv /\ ManagerInv
  BY DEF PlanIInv
<1>2. WasDerived
  BY <1>1 DEF GraphInv, Underived
<1>3. PICK B \in SUBSET (Item \X Item) : Derived(B)
  BY <1>2 DEF WasDerived
<1>4. <<pair[2], pair[1]>> \in plan.edges
  BY <1>3 DEF Derived, MergeEdges, BlockerEdges
<1>5. pair[2] \in Ahead(pair[1])
  BY <1>4 DEF Ahead, Preds
<1>6. pair[1] \in Item /\ rows[pair[1]] \in Begun
  BY <1>1 DEF TypesOK, PlanRecord, Begun
<1> QED BY <1>1, <1>5, <1>6 DEF ManagerInv

LEMMA AccountsCorrect ==
  ASSUME PlanIInv
  PROVE  AccountsAgree
PROOF
<1> SUFFICES ASSUME status = "running", \A i \in InPlan : items[i] # Nil
             PROVE  /\ NextReady = {i \in Item : rows[i] = "ready"}
                    /\ NextReady = {i \in DOMAIN PlanView :
                                      /\ PlanView[i].status \notin Outcome \cup {"dispatched"}
                                      /\ \A p \in PlanView[i].predecessors :
                                           PlanView[p].status \in Outcome}
                    /\ Progress.done < Progress.total
  BY DEF AccountsAgree
<1>1. TypesOK /\ RowsInv /\ ManagerInv /\ Whole
  BY DEF PlanIInv, Whole
<1>2. /\ InPlan \subseteq Item /\ \A i \in Item : Expected(i) = Ahead(i) /\ Ahead(i) \subseteq Item
  BY <1>1, StartedFacts, OrderFacts, AheadFacts
<1>3. Planned = InPlan
  BY <1>1, <1>2, StartedFacts DEF Planned, RowsInv, Whole
<1>4. \A i \in Item : Ahead(i) \subseteq InPlan
  BY StartedFacts DEF Within2, Ahead, Preds, InPlan
<1>5. \A i \in Item :
        i \in NextReady <=> rows[i] \in {"pending", "ready"} /\ \A p \in Ahead(i) : Over(p)
  BY <1>2 DEF NextReady, Startable
<1>6. \A i \in Item : i \in NextReady <=> rows[i] = "ready"
  BY <1>1, <1>5 DEF ManagerInv
<1>7. NextReady = {i \in Item : rows[i] = "ready"}
  BY <1>6 DEF NextReady
<1>8. DOMAIN PlanView = Planned /\ \A i \in Planned : /\ PlanView[i].status = rows[i]
                                                     /\ PlanView[i].predecessors = Ahead(i)
  BY <1>2 DEF PlanView, Planned
<1>9. ASSUME NEW i \in Planned
      PROVE  i \in NextReady <=>
               /\ PlanView[i].status \notin Outcome \cup {"dispatched"}
               /\ \A p \in PlanView[i].predecessors : PlanView[p].status \in Outcome
  <2>1. i \in Item /\ rows[i] # Nil /\ rows[i] \in RowStates
    BY <1>1 DEF Planned, TypesOK
  <2>2. rows[i] \in {"pending", "ready"} <=> rows[i] \notin Outcome \cup {"dispatched"}
    BY <2>1 DEF RowStates, Outcome
  <2>3. \A p \in Ahead(i) : PlanView[p].status \in Outcome <=> Over(p)
    BY <1>3, <1>4, <1>8, <2>1 DEF Over
  <2> QED BY <1>5, <1>8, <2>1, <2>2, <2>3
<1>10. NextReady \subseteq Planned
  BY <1>6, NilFacts DEF NextReady, Planned
<1>11. NextReady = {i \in DOMAIN PlanView :
                      /\ PlanView[i].status \notin Outcome \cup {"dispatched"}
                      /\ \A p \in PlanView[i].predecessors : PlanView[p].status \in Outcome}
  BY <1>8, <1>9, <1>10
<1>12. Progress.done < Progress.total
  <2> DEFINE D == {i \in Planned : Over(i)}
  <2>1. IsFiniteSet(Planned)
    BY <1>1, <1>3, OrderFacts, MembersCount DEF InPlan
  <2>2. PICK i \in Planned : ~Over(i)
    BY <1>1, <1>3 DEF ManagerInv
  <2>3. D \in SUBSET Planned /\ D # Planned
    BY <2>2
  <2>4. Cardinality(D) <= Cardinality(Planned) /\ Cardinality(D) # Cardinality(Planned)
    BY <2>1, <2>3, FS_Subset
  <2>5. Cardinality(D) \in Nat /\ Cardinality(Planned) \in Nat
    BY <2>1, <2>3, FS_Subset, FS_CardinalityType
  <2>6. Cardinality(D) < Cardinality(Planned)
    BY <2>4, <2>5
  <2> QED BY <2>6 DEF Progress
<1> QED BY <1>7, <1>11, <1>12

-----------------------------------------------------------------------------
(* Theorems *)

\* The inductive invariant of the module.
THEOREM PlanInductive == Spec => []PlanIInv
PROOF
<1>1. Init => PlanIInv
  BY PlanInit
<1>2. PlanIInv /\ [Next]_vars => PlanIInv'
  BY PlanNext
<1> QED BY <1>1, <1>2, PTL DEF Spec

\* A request that plans leaves a whole plan that can be worked through, refuses
\* for the reasons the contract gives, and leaves half a plan only for a cause,
\* whatever the order, the files and the blockers, and whoever edits them.
THEOREM PlanCorrect == Spec => []PlanInv
PROOF
<1>1. PlanIInv => PlanInv
  BY TypesCorrect, WholeCorrect, RefusalCorrect, ContractCorrect DEF PlanInv
<1> QED BY <1>1, PlanInductive, PTL

\* Two items that are built at once change no common file, but for a directory
\* that is named like a file, and none is built before its blockers.
THEOREM BuildsCorrect == Spec => []BuildsAreSafe
PROOF
<1>1. PlanIInv => BuildsAreSafe
  BY BuildersCorrect, BlockersCorrect DEF BuildsAreSafe
<1> QED BY <1>1, PlanInductive, PTL

\* The manager, the stored rows and the plan dialog name the same items as
\* ready, and a running rollout always has one that is not over.
THEOREM ReadersAgree == Spec => []AccountsAgree
PROOF
<1>1. PlanIInv => AccountsAgree
  BY AccountsCorrect
<1> QED BY <1>1, PlanInductive, PTL
=============================================================================
