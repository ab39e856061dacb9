---------------------------- MODULE BillingProofs ----------------------------
(***************************************************************************)
(* What Billing guarantees for any number of orders, bills and payments    *)
(* and any amounts: bills are settled for what they cost, what was given   *)
(* away is never an invoice, numbers are consecutive and stay, closed      *)
(* bills are records, the kitchen is told, bills and payments agree.       *)
(* BillingInv is inductive.  A request changes one bill; what that bill    *)
(* becomes is judged by lemmas about one record, what the change does to   *)
(* the others by BillsInv and KitchenInv.  MoneyInv is inductive beside    *)
(* it, from lemmas about sums.  From both follows, request by request,     *)
(* that numbers and money are kept as in an InvoiceRegister and in a       *)
(* PaymentLedger.                                                          *)
(* What a cart holds is a sum too, so what Ordering guarantees is proved   *)
(* with the same lemmas, in the last part: OrderingInv is inductive, for   *)
(* any menu, any places and any bounds.                                    *)
(***************************************************************************)
EXTENDS Billing, Ordering, FiniteSetTheorems, WellFoundedInduction, TLAPS

-----------------------------------------------------------------------------
(* Sums over finite sets.                                                  *)

\* Which member the fold of the community modules takes first.
Pick(s) == CHOOSE x \in s : TRUE

\* Sums of f over the sets within T, by taking away what Pick chooses.
SumsWithin(f, T, g) ==
  g = [s \in SUBSET T |-> IF s = {} THEN 0 ELSE f[Pick(s)] + g[s \ {Pick(s)}]]

\* The fold of the community modules, as a function on the subsets.
LEMMA SumUnfolds ==
  ASSUME NEW f, NEW T
  PROVE  SumOf(f, T) = (CHOOSE g : SumsWithin(f, T, g))[T]
  BY DEF SumOf, MapThenSumSet, MapThenFoldSet, SumsWithin, Pick

\* Finite sets have, among any of them, one with no smaller one: every sum below
\* is reasoned about at the smallest set for which a claim would fail.
LEMMA SmallestSet ==
  ASSUME NEW B, B # {}, \A s \in B : IsFiniteSet(s)
  PROVE  \E s \in B : \A u \in B : u \subseteq s => u = s
<1> DEFINE Sizes == {Cardinality(s) : s \in B}
<1>1. Sizes \subseteq Nat /\ Sizes # {}
  BY FS_CardinalityType
<1>2. PICK k \in Sizes : \A y \in Sizes : ~(<<y, k>> \in OpToRel(<, Nat))
  BY <1>1, NatLessThanWellFounded, WFMin
<1>3. \A y \in Nat : y < k => <<y, k>> \in OpToRel(<, Nat)
  BY <1>1 DEF OpToRel
<1>4. PICK s \in B : Cardinality(s) = k
  OBVIOUS
<1>5. ASSUME NEW u \in B, u \subseteq s
      PROVE  u = s
  <2>1. /\ Cardinality(u) <= Cardinality(s) /\ (Cardinality(u) = Cardinality(s) => u = s)
        /\ Cardinality(u) \in Nat /\ k \in Nat
    BY <1>1, <1>5, FS_Subset, FS_CardinalityType
  <2>2. ~(Cardinality(u) < k)
    BY <1>2, <1>3, <2>1
  <2>. QED
    BY <1>4, <2>1, <2>2
<1>. QED
  BY <1>4, <1>5

LEMMA PickIn ==
  ASSUME NEW s, s # {}
  PROVE  Pick(s) \in s
  BY DEF Pick

LEMMA SumsAt ==
  ASSUME NEW f, NEW T, NEW g, SumsWithin(f, T, g), NEW s \in SUBSET T
  PROVE  g[s] = IF s = {} THEN 0 ELSE f[Pick(s)] + g[s \ {Pick(s)}]
<1> DEFINE body == [r \in SUBSET T |-> IF r = {} THEN 0 ELSE f[Pick(r)] + g[r \ {Pick(r)}]]
<1>1. g = body
  BY DEF SumsWithin
<1>2. body[s] = IF s = {} THEN 0 ELSE f[Pick(s)] + g[s \ {Pick(s)}]
  OBVIOUS
<1> HIDE DEF body
<1>. QED
  BY <1>1, <1>2

\* Two such functions agree where both are defined.
LEMMA SumsAgree ==
  ASSUME NEW f, NEW T, NEW U, IsFiniteSet(T), NEW g, NEW h,
         SumsWithin(f, T, g), SumsWithin(f, U, h), NEW s \in SUBSET T, s \subseteq U
  PROVE  g[s] = h[s]
<1> DEFINE B == {r \in SUBSET T : r \subseteq U /\ g[r] # h[r]}
<1>1. ASSUME B # {}
      PROVE  FALSE
  <2>1. \A r \in B : IsFiniteSet(r)
    BY FS_Subset
  <2>2. PICK r \in B : \A u \in B : u \subseteq r => u = r
    <3> HIDE DEF B
    <3>. QED
      BY <1>1, <2>1, SmallestSet
  <2>3. r \in SUBSET T /\ r \in SUBSET U /\ g[r] # h[r]
    OBVIOUS
  <2>4. /\ g[r] = IF r = {} THEN 0 ELSE f[Pick(r)] + g[r \ {Pick(r)}]
        /\ h[r] = IF r = {} THEN 0 ELSE f[Pick(r)] + h[r \ {Pick(r)}]
    BY <2>3, SumsAt
  <2>5. r # {} /\ g[r \ {Pick(r)}] # h[r \ {Pick(r)}]
    BY <2>3, <2>4
  <2>6. r \ {Pick(r)} \in B /\ r \ {Pick(r)} # r
    BY <2>3, <2>5, PickIn
  <2>. QED
    BY <2>2, <2>6
<1>. QED
  BY <1>1

\* A sum without what is picked, given that the functions exist.
LEMMA SumStep ==
  ASSUME NEW f, NEW s, IsFiniteSet(s), \A u \in SUBSET s : \E g : SumsWithin(f, u, g)
  PROVE  SumOf(f, s) = IF s = {} THEN 0 ELSE f[Pick(s)] + SumOf(f, s \ {Pick(s)})
<1> DEFINE G(u) == CHOOSE g : SumsWithin(f, u, g)
<1>1. \A u \in SUBSET s : SumsWithin(f, u, G(u))
  OBVIOUS
<1>2. SumsWithin(f, s, G(s))
  BY <1>1
<1>3. SumOf(f, s) = G(s)[s] /\ SumOf(f, s \ {Pick(s)}) = G(s \ {Pick(s)})[s \ {Pick(s)}]
  BY SumUnfolds
<1>4. SumsWithin(f, s \ {Pick(s)}, G(s \ {Pick(s)})) /\ s \ {Pick(s)} \in SUBSET s
  BY <1>1
<1> HIDE DEF G
<1>5. G(s)[s] = IF s = {} THEN 0 ELSE f[Pick(s)] + G(s)[s \ {Pick(s)}]
  BY <1>2, SumsAt
<1>6. G(s)[s \ {Pick(s)}] = G(s \ {Pick(s)})[s \ {Pick(s)}]
  BY <1>2, <1>4, SumsAgree
<1>. QED
  BY <1>3, <1>5, <1>6

\* They do, for every finite set.
LEMMA SumsExist ==
  ASSUME NEW f, NEW T, IsFiniteSet(T)
  PROVE  \E g : SumsWithin(f, T, g)
<1> DEFINE B == {s \in SUBSET T : ~\E g : SumsWithin(f, s, g)}
<1>1. ASSUME B # {}
      PROVE  FALSE
  <2>1. \A s \in B : IsFiniteSet(s)
    BY FS_Subset
  <2>2. PICK t \in B : \A u \in B : u \subseteq t => u = t
    <3> HIDE DEF B
    <3>. QED
      BY <1>1, <2>1, SmallestSet
  <2>3. IsFiniteSet(t) /\ t \subseteq T
    BY <2>1
  <2> DEFINE body(s) == IF s = {} THEN 0 ELSE f[Pick(s)] + SumOf(f, s \ {Pick(s)})
             g == [s \in SUBSET t |-> body(s)]
  <2>4. \A u \in SUBSET t : u # t => \E h : SumsWithin(f, u, h)
    BY <2>2, <2>3
  <2>5. ASSUME NEW u \in SUBSET t, u # t
        PROVE  SumOf(f, u) = body(u)
    <3>1. IsFiniteSet(u) /\ \A v \in SUBSET u : v # t
      BY <2>3, <2>5, FS_Subset
    <3>2. \A v \in SUBSET u : \E h : SumsWithin(f, v, h)
      BY <2>4, <3>1
    <3>. QED
      BY <3>1, <3>2, SumStep
  <2>6. \A u \in SUBSET t : g[u] = body(u)
    OBVIOUS
  <2>7. ASSUME NEW s \in SUBSET t, s # {}
        PROVE  g[s \ {Pick(s)}] = SumOf(f, s \ {Pick(s)})
    <3>1. s \ {Pick(s)} \in SUBSET t /\ s \ {Pick(s)} # t
      BY <2>7, PickIn
    <3> HIDE DEF g, body
    <3>. QED
      BY <2>5, <2>6, <3>1
  <2>8. SumsWithin(f, t, g)
    <3> DEFINE again == [s \in SUBSET t |-> IF s = {} THEN 0 ELSE f[Pick(s)] + g[s \ {Pick(s)}]]
    <3>1. ASSUME NEW s \in SUBSET t
          PROVE  body(s) = IF s = {} THEN 0 ELSE f[Pick(s)] + g[s \ {Pick(s)}]
      <4> HIDE DEF g
      <4>. QED
        BY <2>7
    <3>2. g = again
      <4>1. \A s \in SUBSET t : g[s] = again[s]
        <5>1. \A s \in SUBSET t : again[s] = IF s = {} THEN 0 ELSE f[Pick(s)] + g[s \ {Pick(s)}]
          BY Zenon
        <5> HIDE DEF g, again, body
        <5>. QED
          BY <2>6, <3>1, <5>1
      <4>. QED
        BY <4>1, Zenon
    <3> HIDE DEF g
    <3>. QED
      BY <3>2 DEF SumsWithin
  <2>. QED
    BY <2>8
<1>. QED
  BY <1>1

LEMMA SumEmpty ==
  ASSUME NEW f
  PROVE  SumOf(f, {}) = 0
<1>1. IsFiniteSet({}) /\ \A u \in SUBSET {} : \E g : SumsWithin(f, u, g)
  BY FS_EmptySet, SumsExist
<1>. QED
  BY <1>1, SumStep

LEMMA SumPicked ==
  ASSUME NEW f, NEW s, IsFiniteSet(s), s # {}
  PROVE  SumOf(f, s) = f[Pick(s)] + SumOf(f, s \ {Pick(s)})
<1>1. \A u \in SUBSET s : \E g : SumsWithin(f, u, g)
  BY FS_Subset, SumsExist
<1>. QED
  BY <1>1, SumStep

\* Naturals add up to a natural.
LEMMA SumIsNat ==
  ASSUME NEW S, IsFiniteSet(S), NEW f \in [S -> Nat], NEW T \in SUBSET S
  PROVE  SumOf(f, T) \in Nat
<1> DEFINE B == {s \in SUBSET S : SumOf(f, s) \notin Nat}
<1>1. ASSUME B # {}
      PROVE  FALSE
  <2>1. \A s \in B : IsFiniteSet(s)
    BY FS_Subset
  <2>2. PICK s \in B : \A u \in B : u \subseteq s => u = s
    <3> HIDE DEF B
    <3>. QED
      BY <1>1, <2>1, SmallestSet
  <2>3. s # {}
    BY SumEmpty
  <2>4. Pick(s) \in s /\ SumOf(f, s \ {Pick(s)}) \in Nat
    BY <2>2, <2>3, PickIn
  <2>5. SumOf(f, s) = f[Pick(s)] + SumOf(f, s \ {Pick(s)})
    BY <2>1, <2>3, SumPicked
  <2>6. f[Pick(s)] \in Nat
    BY <2>4
  <2>. QED
    BY <2>4, <2>5, <2>6
<1>. QED
  BY <1>1

\* Any member can be taken out of a sum first.
LEMMA SumAdds ==
  ASSUME NEW S, IsFiniteSet(S), NEW f \in [S -> Nat], NEW T \in SUBSET S, NEW x \in T
  PROVE  SumOf(f, T) = f[x] + SumOf(f, T \ {x})
<1> DEFINE B == {s \in SUBSET S : \E y \in s : SumOf(f, s) # f[y] + SumOf(f, s \ {y})}
<1>1. ASSUME B # {}
      PROVE  FALSE
  <2>1. \A s \in B : IsFiniteSet(s)
    BY FS_Subset
  <2>2. PICK s \in B : \A u \in B : u \subseteq s => u = s
    <3> HIDE DEF B
    <3>. QED
      BY <1>1, <2>1, SmallestSet
  <2>3. PICK y \in s : SumOf(f, s) # f[y] + SumOf(f, s \ {y})
    OBVIOUS
  <2>4. /\ s \subseteq S /\ Pick(s) \in s
        /\ SumOf(f, s) = f[Pick(s)] + SumOf(f, s \ {Pick(s)})
    BY <2>1, <2>3, SumPicked, PickIn
  <2> DEFINE z == Pick(s)
  <2>5. z # y
    BY <2>3, <2>4
  <2>6. SumOf(f, s \ {z}) = f[y] + SumOf(f, (s \ {z}) \ {y})
    <3>1. s \ {z} \notin B /\ s \ {z} \in SUBSET S /\ y \in s \ {z}
      BY <2>2, <2>4, <2>5
    <3>. QED
      BY <3>1
  <2>7. SumOf(f, s \ {y}) = f[z] + SumOf(f, (s \ {y}) \ {z})
    <3>1. s \ {y} \notin B /\ s \ {y} \in SUBSET S /\ z \in s \ {y}
      BY <2>2, <2>3, <2>4, <2>5
    <3>. QED
      BY <3>1
  <2>8. (s \ {z}) \ {y} = (s \ {y}) \ {z}
    OBVIOUS
  <2> DEFINE rest == SumOf(f, (s \ {y}) \ {z})
  <2>9. rest \in Nat /\ f[y] \in Nat /\ f[z] \in Nat
    BY <2>4, SumIsNat
  <2>10. SumOf(f, s) = f[z] + SumOf(f, s \ {z}) /\ SumOf(f, s \ {z}) = f[y] + rest
    BY <2>4, <2>6, <2>8
  <2>11. SumOf(f, s \ {y}) = f[z] + rest
    BY <2>7
  <2> HIDE DEF z, B, rest
  <2>12. SumOf(f, s) = f[y] + SumOf(f, s \ {y})
    BY <2>9, <2>10, <2>11
  <2>. QED
    BY <2>3, <2>12
<1>2. T \notin B
  BY <1>1
<1>. QED
  BY <1>2

\* A sum depends on the summands alone.
LEMMA SumSame ==
  ASSUME NEW S, IsFiniteSet(S), NEW f, NEW g, \A x \in S : f[x] = g[x]
  PROVE  SumOf(f, S) = SumOf(g, S)
<1> DEFINE B == {s \in SUBSET S : SumOf(f, s) # SumOf(g, s)}
<1>1. ASSUME B # {}
      PROVE  FALSE
  <2>1. \A s \in B : IsFiniteSet(s)
    BY FS_Subset
  <2>2. PICK s \in B : \A u \in B : u \subseteq s => u = s
    <3> HIDE DEF B
    <3>. QED
      BY <1>1, <2>1, SmallestSet
  <2>3. s # {}
    BY SumEmpty
  <2>4. Pick(s) \in s /\ SumOf(f, s \ {Pick(s)}) = SumOf(g, s \ {Pick(s)})
    BY <2>2, <2>3, PickIn
  <2>5. /\ SumOf(f, s) = f[Pick(s)] + SumOf(f, s \ {Pick(s)})
        /\ SumOf(g, s) = g[Pick(s)] + SumOf(g, s \ {Pick(s)})
    BY <2>1, <2>3, SumPicked
  <2>. QED
    BY <2>4, <2>5
<1>. QED
  BY <1>1

\* Larger summands make no smaller sum.
LEMMA SumMonotone ==
  ASSUME NEW S, IsFiniteSet(S), NEW f \in [S -> Nat], NEW g \in [S -> Nat],
         NEW T \in SUBSET S, \A x \in T : f[x] <= g[x]
  PROVE  SumOf(f, T) <= SumOf(g, T)
<1> DEFINE B == {s \in SUBSET T : ~(SumOf(f, s) <= SumOf(g, s))}
<1>1. ASSUME B # {}
      PROVE  FALSE
  <2>1. \A s \in B : IsFiniteSet(s) /\ s \in SUBSET S
    BY FS_Subset
  <2>2. PICK s \in B : \A u \in B : u \subseteq s => u = s
    <3> HIDE DEF B
    <3>. QED
      BY <1>1, <2>1, SmallestSet
  <2>3. s # {}
    BY SumEmpty
  <2>4. Pick(s) \in s /\ SumOf(f, s \ {Pick(s)}) <= SumOf(g, s \ {Pick(s)})
    BY <2>2, <2>3, PickIn
  <2>5. /\ SumOf(f, s) = f[Pick(s)] + SumOf(f, s \ {Pick(s)})
        /\ SumOf(g, s) = g[Pick(s)] + SumOf(g, s \ {Pick(s)})
    BY <2>1, <2>3, SumPicked
  <2>6. f[Pick(s)] \in Nat /\ g[Pick(s)] \in Nat /\ f[Pick(s)] <= g[Pick(s)]
    BY <2>1, <2>4
  <2>7. SumOf(f, s \ {Pick(s)}) \in Nat /\ SumOf(g, s \ {Pick(s)}) \in Nat
    BY <2>1, SumIsNat
  <2>8. SumOf(f, s) <= SumOf(g, s)
    BY <2>4, <2>5, <2>6, <2>7
  <2>. QED
    BY <2>8
<1>. QED
  BY <1>1

\* Nothing is added by members that count for zero.
LEMMA SumOver ==
  ASSUME NEW S, IsFiniteSet(S), NEW f \in [S -> Nat], NEW T \in SUBSET S,
         \A x \in S \ T : f[x] = 0
  PROVE  \A U \in SUBSET S : T \subseteq U => SumOf(f, U) = SumOf(f, T)
<1> DEFINE B == {s \in SUBSET S : T \subseteq s /\ SumOf(f, s) # SumOf(f, T)}
<1>1. ASSUME B # {}
      PROVE  FALSE
  <2>1. \A s \in B : IsFiniteSet(s)
    BY FS_Subset
  <2>2. PICK s \in B : \A u \in B : u \subseteq s => u = s
    <3> HIDE DEF B
    <3>. QED
      BY <1>1, <2>1, SmallestSet
  <2>3. PICK x \in s : x \notin T
    <3>1. T \subseteq s /\ SumOf(f, s) # SumOf(f, T)
      OBVIOUS
    <3>2. s # T
      BY <3>1
    <3>. QED
      BY <3>1, <3>2
  <2>4. s \in SUBSET S /\ f[x] = 0
    BY <2>3
  <2>5. SumOf(f, s) = f[x] + SumOf(f, s \ {x}) /\ SumOf(f, s \ {x}) \in Nat
    <3>1. s \ {x} \in SUBSET S
      BY <2>4
    <3> HIDE DEF B
    <3>. QED
      BY <2>4, <3>1, SumAdds, SumIsNat
  <2>6. SumOf(f, s \ {x}) = SumOf(f, T)
    BY <2>2, <2>3, <2>4
  <2>. QED
    BY <2>2, <2>4, <2>5, <2>6
<1>. QED
  BY <1>1

\* One summand changes, or comes, or goes.
LEMMA SumChanges ==
  ASSUME NEW S, IsFiniteSet(S), NEW f \in [S -> Nat], NEW g \in [S -> Nat], NEW x \in S,
         NEW T \in SUBSET S, NEW U \in SUBSET S, T \ {x} = U \ {x},
         \A y \in S : y # x => f[y] = g[y]
  PROVE  SumOf(g, U) + (IF x \in T THEN f[x] ELSE 0) = SumOf(f, T) + (IF x \in U THEN g[x] ELSE 0)
<1> DEFINE rest == SumOf(f, T \ {x})
<1>1. SumOf(f, T \ {x}) = SumOf(g, T \ {x}) /\ SumOf(f, T \ {x}) \in Nat
  <2>1. IsFiniteSet(T \ {x}) /\ T \ {x} \in SUBSET S /\ \A y \in T \ {x} : f[y] = g[y]
    BY FS_Subset
  <2>. QED
    BY <2>1, SumSame, SumIsNat
<1>2. SumOf(f, T) = (IF x \in T THEN f[x] ELSE 0) + rest
  <2>1. CASE x \in T
    <3>1. SumOf(f, T) = f[x] + SumOf(f, T \ {x})
      BY <2>1, SumAdds
    <3>. QED
      BY <2>1, <3>1
  <2>2. CASE x \notin T
    <3>1. T \ {x} = T
      BY <2>2
    <3>2. SumOf(f, T) = rest /\ rest \in Nat
      BY <1>1, <3>1
    <3>. QED
      BY <2>2, <3>2
  <2>. QED
    BY <2>1, <2>2
<1>3. SumOf(g, U) = (IF x \in U THEN g[x] ELSE 0) + rest
  <2>1. SumOf(g, U \ {x}) = rest
    BY <1>1
  <2>2. CASE x \in U
    <3>1. SumOf(g, U) = g[x] + SumOf(g, U \ {x})
      BY <2>2, SumAdds
    <3>. QED
      BY <2>1, <2>2, <3>1
  <2>3. CASE x \notin U
    <3>1. U \ {x} = U
      BY <2>3
    <3>2. SumOf(g, U) = rest /\ rest \in Nat
      BY <1>1, <2>1, <3>1
    <3>. QED
      BY <2>3, <3>2
  <2>. QED
    BY <2>2, <2>3
<1>4. f[x] \in Nat /\ g[x] \in Nat /\ rest \in Nat
  BY <1>1
<1> HIDE DEF rest
<1>. QED
  BY <1>2, <1>3, <1>4

-----------------------------------------------------------------------------
(* One record.                                                             *)

\* A total is a natural number, whatever the discount.
LEMMA TotalIsNat ==
  ASSUME NEW r \in BillRecord PROVE GrandTotal(r) \in Nat
<1>1. r.lines \ (r.voided \cup r.comped) \in SUBSET Order
  BY DEF BillRecord
<1>2. Subtotal(r) \in Nat
  <2>1. Price \in [Order -> Nat] /\ IsFiniteSet(Order)
    BY BillingAssumption
  <2>. QED
    BY <1>1, <2>1, SumIsNat DEF Subtotal
<1>3. r.discount \in Nat /\ r.charge \in Nat
  BY DEF BillRecord
<1>. QED
  BY <1>2, <1>3 DEF GrandTotal

\* What a total depends on.
LEMMA SameTotal ==
  ASSUME NEW r, NEW s, s.lines = r.lines, s.voided = r.voided, s.comped = r.comped,
         s.discount = r.discount, s.charge = r.charge
  PROVE  GrandTotal(s) = GrandTotal(r)
  BY DEF GrandTotal, Subtotal

\* What _recompute_totals changes: the total, and the status of a bill that
\* is not closed, which is PAID only if the bill is paid for.
LEMMA RecomputedIs ==
  ASSUME NEW r \in BillRecord, NEW j \in BOOLEAN, NEW s \in Recomputed(r, j)
  PROVE  /\ s \in BillRecord
         /\ s.lines = r.lines /\ s.voided = r.voided /\ s.comped = r.comped
         /\ s.nc = r.nc /\ s.discount = r.discount /\ s.charge = r.charge
         /\ s.paid = r.paid /\ s.refunded = r.refunded /\ s.invoice = r.invoice
         /\ s.total = GrandTotal(r) /\ s.total = GrandTotal(s)
         /\ r.status \notin OpenStatus => s.status = r.status
         /\ r.status \in OpenStatus =>
              /\ s.status \in OpenStatus \cup {"PAID"}
              /\ s.status = "PAID" => s.paid > 0 /\ s.paid >= s.total
<1>1. GrandTotal(r) \in Nat /\ r.paid \in Nat
  BY TotalIsNat DEF BillRecord
<1>2. StatusesFor(r.paid, GrandTotal(r), j) \subseteq OpenStatus \cup {"PAID"}
  BY DEF StatusesFor, OpenStatus
<1>3. "PAID" \in StatusesFor(r.paid, GrandTotal(r), j) =>
        r.paid > 0 /\ r.paid >= GrandTotal(r)
  BY <1>1 DEF StatusesFor
<1>4. PICK st : /\ s = [r EXCEPT !.total = GrandTotal(r), !.status = st]
                /\ IF r.status \in OpenStatus
                     THEN st \in StatusesFor(r.paid, GrandTotal(r), j)
                     ELSE st = r.status
  BY DEF Recomputed
<1>5. st \in BillStatus
  BY <1>2, <1>4 DEF BillRecord, BillStatus
<1>6. s \in BillRecord
  BY <1>1, <1>4, <1>5 DEF BillRecord
<1>7. /\ s.lines = r.lines /\ s.voided = r.voided /\ s.comped = r.comped
      /\ s.nc = r.nc /\ s.discount = r.discount /\ s.charge = r.charge
      /\ s.paid = r.paid /\ s.refunded = r.refunded /\ s.invoice = r.invoice
      /\ s.total = GrandTotal(r) /\ s.status = st
  BY <1>4 DEF BillRecord
<1>8. s.total = GrandTotal(s)
  BY <1>7, SameTotal
<1>. QED
  BY <1>2, <1>3, <1>4, <1>6, <1>7, <1>8

\* An edit of an open bill leaves a sound bill.
LEMMA EditSound ==
  ASSUME NEW r \in BillRecord, r.status \in OpenStatus, r.invoice = 0, ~r.nc,
         NEW j \in BOOLEAN, NEW s \in Recomputed(r, j)
  PROVE  BillSound(s) /\ s.status \in OpenStatus \cup {"PAID"}
<1>1. s.status \in OpenStatus \cup {"PAID"} /\ s.invoice = 0 /\ ~s.nc
  BY RecomputedIs
<1>2. s.total = GrandTotal(s) /\ (s.status = "PAID" => s.paid > 0 /\ s.paid >= s.total)
  BY RecomputedIs
<1>. QED
  BY <1>1, <1>2 DEF BillSound, OpenStatus

-----------------------------------------------------------------------------
(* One bill of many.                                                       *)

\* Bill b becomes s, with the number it had or with the next one.
LEMMA BillsInv ==
  ASSUME BillingInv, NEW b \in Bill, NEW s \in BillRecord, BillSound(s),
         s.status # "absent", bill' = [bill EXCEPT ![b] = s],
         s.status \in OpenStatus => OpenBills = {} \/ bill[b].status \in OpenStatus,
         \/ s.invoice = bill[b].invoice /\ lastInvoice' = lastInvoice
         \/ /\ bill[b].invoice = 0
            /\ s.invoice = lastInvoice + 1 /\ lastInvoice' = lastInvoice + 1
  PROVE  /\ bill' \in [Bill -> BillRecord] /\ lastInvoice' \in Nat
         /\ BillsSound' /\ IsFiniteSet(Numbered)' /\ NumberingInv'
         /\ \A c \in Bill : bill[c].status # "absent" => bill'[c].status # "absent"
<1>1. bill \in [Bill -> BillRecord] /\ lastInvoice \in Nat
  BY DEF BillingInv, TypeOK
<1>2. /\ bill' \in [Bill -> BillRecord] /\ bill'[b] = s
      /\ \A c \in Bill : c # b => bill'[c] = bill[c]
  BY <1>1
<1>3. BillsSound'
  BY <1>2 DEF BillingInv, BillsSound, BillSound, GrandTotal, Subtotal
<1>4. OneOpenBill'
  BY <1>2 DEF BillingInv, NumberingInv, OneOpenBill, Editable, OpenBills
<1>5. CASE s.invoice = bill[b].invoice /\ lastInvoice' = lastInvoice
  <2>1. \A c \in Bill : bill'[c].invoice = bill[c].invoice
    BY <1>2, <1>5
  <2>2. Numbered' = Numbered
    BY <2>1 DEF Numbered
  <2>3. {bill'[c].invoice : c \in Numbered'} = {bill[c].invoice : c \in Numbered}
    BY <2>1, <2>2 DEF Numbered
  <2>4. NumbersConsecutive'
    BY <1>5, <2>2, <2>3 DEF BillingInv, NumberingInv, NumbersConsecutive
  <2>. QED
    BY <1>1, <1>2, <1>3, <1>4, <1>5, <2>2, <2>4 DEF BillingInv, NumberingInv
<1>6. CASE /\ bill[b].invoice = 0
           /\ s.invoice = lastInvoice + 1 /\ lastInvoice' = lastInvoice + 1
  <2>1. b \notin Numbered /\ Numbered' = Numbered \cup {b}
    BY <1>1, <1>2, <1>6 DEF Numbered
  <2>2. IsFiniteSet(Numbered) /\ Cardinality(Numbered) = lastInvoice
    BY DEF BillingInv, NumberingInv, NumbersConsecutive
  <2>3. IsFiniteSet(Numbered') /\ Cardinality(Numbered') = lastInvoice + 1
    BY <2>1, <2>2, FS_AddElement
  <2>4. {bill[c].invoice : c \in Numbered} = 1 .. lastInvoice
    BY DEF BillingInv, NumberingInv, NumbersConsecutive
  <2>5. {bill'[c].invoice : c \in Numbered'} = (1 .. lastInvoice) \cup {lastInvoice + 1}
    BY <1>2, <1>6, <2>1, <2>4 DEF Numbered
  <2>6. (1 .. lastInvoice) \cup {lastInvoice + 1} = 1 .. lastInvoice + 1
    BY <1>1
  <2>7. NumbersConsecutive'
    BY <1>6, <2>3, <2>5, <2>6 DEF NumbersConsecutive
  <2>. QED
    BY <1>1, <1>2, <1>3, <1>4, <1>6, <2>3, <2>7 DEF NumberingInv
<1>. QED
  BY <1>5, <1>6

\* Nothing is invoiced or given away that the kitchen does not know.
LEMMA KitchenInv ==
  ASSUME BillingInv, NEW b \in Bill, NEW s, bill' = [bill EXCEPT ![b] = s],
         order' = order, kot \subseteq kot',
         s.nc \/ s.invoice # 0 =>
           \/ s.lines = bill[b].lines /\ (bill[b].nc \/ bill[b].invoice # 0)
           \/ LiveOrders \subseteq kot'
  PROVE  KitchenTold'
<1>1. LiveOrders' = LiveOrders
  BY DEF LiveOrders
<1>2. bill'[b] = s /\ \A c \in Bill : c # b => bill'[c] = bill[c]
  BY DEF BillingInv, TypeOK
<1>. QED
  BY <1>1, <1>2 DEF BillingInv, KitchenTold

\* A request that changes bills needs an order and leaves orders and payments.
LEMMA FrameInv ==
  ASSUME BillingInv, UNCHANGED <<ordering, payment>>,
         bill' \in [Bill -> BillRecord], lastInvoice' \in Nat, kot' \subseteq Order,
         \E o \in Order : order[o] # "absent",
         \A c \in Bill : bill[c].status # "absent" => bill'[c].status # "absent"
  PROVE  TypeOK' /\ PaymentsOfBills' /\ OrderedBeforeBilled'
  BY DEF BillingInv, TypeOK, PaymentsOfBills, OrderedBeforeBilled, ordering

\* Where there is a bill there is an order.
LEMMA BilledHasOrder ==
  ASSUME BillingInv, NEW b \in Bill, bill[b].status # "absent"
  PROVE  \E o \in Order : order[o] # "absent"
  BY DEF BillingInv, OrderedBeforeBilled

-----------------------------------------------------------------------------
(* Requests about bills.                                                   *)

\* The bill of an open or a new bill's edit r is recomputed and stored.
LEMMA EditInv ==
  ASSUME BillingInv, NEW b \in Bill, NEW r \in BillRecord,
         r.status \in OpenStatus, r.invoice = 0, ~r.nc, bill[b].invoice = 0,
         OpenBills = {} \/ bill[b].status \in OpenStatus,
         StoreRecomputed(b, r), UNCHANGED <<ordering, kot, lastInvoice, payment>>,
         \E o \in Order : order[o] # "absent"
  PROVE  BillingInv'
<1>1. PICK s \in Recomputed(r, FALSE) : bill' = [bill EXCEPT ![b] = s]
  BY DEF StoreRecomputed
<1>2. s \in BillRecord /\ s.invoice = 0 /\ ~s.nc
  BY RecomputedIs
<1>3. BillSound(s) /\ s.status # "absent"
  BY EditSound DEF OpenStatus
<1>4. /\ bill' \in [Bill -> BillRecord] /\ lastInvoice' \in Nat
      /\ BillsSound' /\ IsFiniteSet(Numbered)' /\ NumberingInv'
      /\ \A c \in Bill : bill[c].status # "absent" => bill'[c].status # "absent"
  BY <1>1, <1>2, <1>3, BillsInv
<1>5. KitchenTold'
  BY <1>1, <1>2, KitchenInv DEF ordering
<1>6. kot' \subseteq Order
  BY DEF BillingInv, TypeOK
<1>7. TypeOK' /\ PaymentsOfBills' /\ OrderedBeforeBilled'
  BY <1>4, <1>6, FrameInv
<1>. QED
  BY <1>4, <1>5, <1>7 DEF BillingInv

LEMMA GenerateBillInv ==
  ASSUME BillingInv, NEW b \in Bill, GenerateBill(b) PROVE BillingInv'
<1> USE DEF GenerateBill
<1>1. bill[b] \in BillRecord /\ BillSound(bill[b])
  BY DEF BillingInv, TypeOK, BillsSound
<1>2. PICK c \in (IF bill[b].charge = 0 THEN FlatCharges ELSE {bill[b].charge}) :
        StoreRecomputed(b,
          [bill[b] EXCEPT !.status = IF @ = "absent" THEN "OPEN" ELSE @,
                          !.lines = @ \cup LiveOrders, !.charge = c])
  BY Zenon
<1>3. c \in Nat
  BY <1>1, BillingAssumption DEF BillRecord
<1> DEFINE r == [bill[b] EXCEPT !.status = IF @ = "absent" THEN "OPEN" ELSE @,
                                !.lines = @ \cup LiveOrders, !.charge = c]
<1>4. bill[b].status = "absent" \/ bill[b].status \in OpenStatus
  BY DEF OpenBills
<1>5. bill[b].invoice = 0 /\ ~bill[b].nc
  BY <1>1, <1>4 DEF BillSound
<1>6. r \in BillRecord /\ r.status \in OpenStatus /\ r.invoice = 0 /\ ~r.nc
  BY <1>1, <1>3, <1>4, <1>5 DEF BillRecord, OpenStatus, BillStatus, LiveOrders
<1>7. OpenBills = {} \/ bill[b].status \in OpenStatus
  BY DEF OpenBills
<1>. QED
  BY <1>2, <1>5, <1>6, <1>7, EditInv

\* The edits that staff make: the bill is open, and nothing but its lines and
\* discount changes.
LEMMA EditOpenInv ==
  ASSUME BillingInv, NEW b \in Bill, Editable(b), NEW r \in BillRecord,
         r.status = bill[b].status, r.invoice = bill[b].invoice, r.nc = bill[b].nc,
         StoreRecomputed(b, r), UNCHANGED <<ordering, kot, lastInvoice, payment>>
  PROVE  BillingInv'
<1>1. bill[b].status \in OpenStatus /\ bill[b].invoice = 0 /\ ~bill[b].nc
  BY DEF Editable, BillingInv, BillsSound, BillSound
<1>2. \E o \in Order : order[o] # "absent"
  BY <1>1, BilledHasOrder DEF OpenStatus
<1>. QED
  BY <1>1, <1>2, EditInv

LEMMA ApplyDiscountInv ==
  ASSUME BillingInv, NEW b \in Bill, NEW d \in Discounts, ApplyDiscount(b, d)
  PROVE  BillingInv'
<1> DEFINE r == [bill[b] EXCEPT !.discount = @ + d]
<1>1. r \in BillRecord /\ r.status = bill[b].status /\ r.invoice = bill[b].invoice
        /\ r.nc = bill[b].nc
  BY BillingAssumption DEF BillingInv, TypeOK, BillRecord
<1>. QED
  BY <1>1, EditOpenInv DEF ApplyDiscount

LEMMA VoidBillItemInv ==
  ASSUME BillingInv, NEW b \in Bill, NEW o \in Order, VoidBillItem(b, o)
  PROVE  BillingInv'
<1> DEFINE r == [bill[b] EXCEPT !.voided = @ \cup {o}]
<1>1. r \in BillRecord /\ r.status = bill[b].status /\ r.invoice = bill[b].invoice
        /\ r.nc = bill[b].nc
  BY DEF BillingInv, TypeOK, BillRecord
<1>. QED
  BY <1>1, EditOpenInv DEF VoidBillItem

LEMMA CompBillItemInv ==
  ASSUME BillingInv, NEW b \in Bill, NEW o \in Order, CompBillItem(b, o)
  PROVE  BillingInv'
<1> DEFINE r == [bill[b] EXCEPT !.comped = @ \cup {o}]
<1>1. r \in BillRecord /\ r.status = bill[b].status /\ r.invoice = bill[b].invoice
        /\ r.nc = bill[b].nc
  BY DEF BillingInv, TypeOK, BillRecord
<1>. QED
  BY <1>1, EditOpenInv DEF CompBillItem

LEMMA UncompBillItemInv ==
  ASSUME BillingInv, NEW b \in Bill, NEW o \in Order, UncompBillItem(b, o)
  PROVE  BillingInv'
<1> DEFINE r == [bill[b] EXCEPT !.comped = @ \ {o}]
<1>1. r \in BillRecord /\ r.status = bill[b].status /\ r.invoice = bill[b].invoice
        /\ r.nc = bill[b].nc
  BY DEF BillingInv, TypeOK, BillRecord
<1>. QED
  BY <1>1, EditOpenInv DEF UncompBillItem

\* A bill that is closed by other means than a payment, with its number.
LEMMA CloseInv ==
  ASSUME BillingInv, NEW b \in Bill, NEW s \in BillRecord, BillSound(s),
         bill[b].status # "absent", s.status \in {"PAID", "CANCELLED"},
         s.invoice = bill[b].invoice, bill' = [bill EXCEPT ![b] = s],
         UNCHANGED <<ordering, lastInvoice, payment>>, kot' \subseteq Order, kot \subseteq kot',
         s.lines = bill[b].lines, s.nc = bill[b].nc \/ LiveOrders \subseteq kot'
  PROVE  BillingInv'
<1>1. /\ bill' \in [Bill -> BillRecord] /\ lastInvoice' \in Nat
      /\ BillsSound' /\ IsFiniteSet(Numbered)' /\ NumberingInv'
      /\ \A c \in Bill : bill[c].status # "absent" => bill'[c].status # "absent"
  BY BillsInv DEF OpenStatus
<1>2. KitchenTold'
  BY KitchenInv DEF ordering
<1>3. TypeOK' /\ PaymentsOfBills' /\ OrderedBeforeBilled'
  BY <1>1, BilledHasOrder, FrameInv
<1>. QED
  BY <1>1, <1>2, <1>3 DEF BillingInv

LEMMA VoidBillInv ==
  ASSUME BillingInv, NEW b \in Bill, VoidBill(b) PROVE BillingInv'
<1> DEFINE s == [bill[b] EXCEPT !.status = "CANCELLED"]
<1>1. bill[b] \in BillRecord /\ BillSound(bill[b]) /\ bill[b].status # "absent"
  BY DEF BillingInv, TypeOK, BillsSound, VoidBill
<1>2. /\ s \in BillRecord /\ s.status = "CANCELLED" /\ s.invoice = bill[b].invoice
      /\ s.lines = bill[b].lines /\ s.nc = bill[b].nc /\ s.paid = bill[b].paid
      /\ s.total = bill[b].total /\ GrandTotal(s) = GrandTotal(bill[b])
  BY <1>1 DEF BillRecord, BillStatus, GrandTotal, Subtotal
<1>3. BillSound(s)
  BY <1>1, <1>2 DEF BillSound, OpenStatus
<1>4. bill' = [bill EXCEPT ![b] = s] /\ UNCHANGED <<ordering, lastInvoice, payment>>
  BY DEF VoidBill
<1>5. kot' \subseteq Order /\ kot \subseteq kot'
  BY DEF VoidBill, BillingInv, TypeOK
<1>. QED
  BY <1>1, <1>2, <1>3, <1>4, <1>5, CloseInv

LEMMA MarkBillNcInv ==
  ASSUME BillingInv, NEW b \in Bill, MarkBillNc(b) PROVE BillingInv'
<1> DEFINE r == [bill[b] EXCEPT !.nc = TRUE,
                                !.comped = @ \cup (bill[b].lines \ bill[b].voided)]
           s == [r EXCEPT !.total = GrandTotal(r), !.status = "PAID"]
<1>1. bill[b] \in BillRecord /\ BillSound(bill[b]) /\ bill[b].status # "absent"
  BY DEF BillingInv, TypeOK, BillsSound, MarkBillNc
<1>2. bill[b].invoice = 0
  BY <1>1 DEF BillSound, MarkBillNc
<1>3. r \in BillRecord /\ r.invoice = bill[b].invoice /\ r.lines = bill[b].lines /\ r.nc
  BY <1>1 DEF BillRecord
<1>4. GrandTotal(r) \in Nat
  BY <1>3, TotalIsNat
<1> HIDE DEF r
<1>5. /\ s \in BillRecord /\ s.status = "PAID" /\ s.invoice = bill[b].invoice
      /\ s.lines = bill[b].lines /\ s.nc /\ s.total = GrandTotal(r)
      /\ GrandTotal(s) = GrandTotal(r)
  BY <1>3, <1>4 DEF BillRecord, BillStatus, GrandTotal, Subtotal
<1>6. BillSound(s)
  BY <1>2, <1>5 DEF BillSound, OpenStatus
<1>7. /\ bill' = [bill EXCEPT ![b] = s] /\ UNCHANGED <<ordering, lastInvoice, payment>>
      /\ kot' = kot \cup LiveOrders
  BY DEF MarkBillNc, r
<1>8. kot' \subseteq Order /\ kot \subseteq kot' /\ LiveOrders \subseteq kot'
  BY <1>7 DEF BillingInv, TypeOK, LiveOrders
<1> HIDE DEF s
<1>. QED
  BY <1>1, <1>2, <1>5, <1>6, <1>7, <1>8, CloseInv

-----------------------------------------------------------------------------
(* Requests about orders.                                                  *)

LEMMA InitInv == Init => BillingInv
<1> SUFFICES ASSUME Init PROVE BillingInv
  OBVIOUS
<1> USE DEF Init
<1>1. NoBill \in BillRecord /\ NoPayment \in PaymentRecord
  BY DEF NoBill, BillRecord, BillStatus, NoPayment, PaymentRecord, PaymentStatus
<1>2. TypeOK
  BY <1>1 DEF TypeOK
<1>3. \A b \in Bill : bill[b] = NoBill
  OBVIOUS
<1>4. BillsSound
  BY <1>3 DEF BillsSound, BillSound, NoBill, OpenStatus
<1>5. PaymentsOfBills /\ OrderedBeforeBilled
  BY <1>3 DEF PaymentsOfBills, OrderedBeforeBilled, NoPayment, NoBill
<1>6. Numbered = {}
  BY <1>3 DEF Numbered, NoBill
<1>7. IsFiniteSet(Numbered) /\ Cardinality(Numbered) = lastInvoice
  BY <1>6, FS_EmptySet
<1>8. {bill[b].invoice : b \in Numbered} = 1 .. lastInvoice
  BY <1>6
<1>9. NumberingInv /\ KitchenTold
  BY <1>3, <1>7, <1>8
     DEF NumberingInv, NumbersConsecutive, OneOpenBill, Editable, OpenStatus, KitchenTold, NoBill
<1>. QED
  BY <1>2, <1>4, <1>5, <1>7, <1>9 DEF BillingInv

\* Bills unchanged, the parts of the invariant about bills alone are.
LEMMA SameBills ==
  ASSUME BillingInv, UNCHANGED <<bill, lastInvoice>>
  PROVE  BillsSound' /\ IsFiniteSet(Numbered)' /\ NumberingInv'
  BY DEF BillingInv, BillsSound, BillSound, GrandTotal, Subtotal, Numbered,
         NumberingInv, NumbersConsecutive, OneOpenBill, Editable

LEMMA PlaceOrderInv ==
  ASSUME BillingInv, NEW o \in Order, PlaceOrder(o) PROVE BillingInv'
<1> USE DEF PlaceOrder
<1>1. TypeOK'
  BY DEF BillingInv, TypeOK
<1>2. PaymentsOfBills'
  BY DEF BillingInv, PaymentsOfBills
<1>3. order'[o] = "PLACED" /\ \A x \in Order : x # o => order'[x] = order[x]
  BY DEF BillingInv, TypeOK
<1>4. OrderedBeforeBilled'
  BY <1>3 DEF OrderedBeforeBilled
<1>5. LiveOrders' \subseteq LiveOrders \cup {o}
  BY <1>3 DEF LiveOrders
<1>6. KitchenTold'
  BY <1>5 DEF BillingInv, KitchenTold
<1>. QED
  BY <1>1, <1>2, <1>4, <1>6, SameBills DEF BillingInv

LEMMA CancelOrderInv ==
  ASSUME BillingInv, NEW o \in Order, CancelOrder(o) PROVE BillingInv'
<1> USE DEF CancelOrder
<1>1. TypeOK'
  BY DEF BillingInv, TypeOK
<1>2. PaymentsOfBills'
  BY DEF BillingInv, PaymentsOfBills
<1>3. order'[o] = "CANCELLED" /\ \A x \in Order : x # o => order'[x] = order[x]
  BY DEF BillingInv, TypeOK
<1>4. OrderedBeforeBilled'
  BY <1>3 DEF OrderedBeforeBilled
<1>5. LiveOrders' \subseteq LiveOrders
  BY <1>3 DEF LiveOrders
<1>6. KitchenTold'
  BY <1>5 DEF BillingInv, KitchenTold
<1>. QED
  BY <1>1, <1>2, <1>4, <1>6, SameBills DEF BillingInv

LEMMA CheckoutInv ==
  ASSUME BillingInv, NEW o \in Order, NEW b \in Bill, NEW p \in Payment,
         NEW ok \in BOOLEAN, Checkout(o, b, p, ok)
  PROVE  BillingInv'
<1> DEFINE r(c) == [NoBill EXCEPT !.status = "OPEN", !.lines = {o}, !.charge = c]
<1>1. PICK c \in FlatCharges :
        /\ StoreRecomputed(b, r(c))
        /\ payment' = [payment EXCEPT ![p] =
             [status |-> IF ok THEN "PENDING" ELSE "FAILED", bill |-> b,
              online |-> TRUE, ordered |-> ok, amount |-> GrandTotal(r(c)),
              refunded |-> 0]]
  BY DEF Checkout
<1>2. /\ r(c) \in BillRecord /\ r(c).status = "OPEN" /\ r(c).invoice = 0 /\ ~r(c).nc
  BY BillingAssumption DEF NoBill, BillRecord, BillStatus, OpenStatus
<1>3. GrandTotal(r(c)) \in Nat
  BY <1>2, TotalIsNat
<1> HIDE DEF r
<1>4. PICK s \in Recomputed(r(c), FALSE) : bill' = [bill EXCEPT ![b] = s]
  BY <1>1 DEF StoreRecomputed
<1>5. s \in BillRecord /\ s.invoice = 0 /\ ~s.nc
  <2> DEFINE e == r(c)
  <2>1. e \in BillRecord /\ s \in Recomputed(e, FALSE) /\ e.invoice = 0 /\ ~e.nc
    BY <1>2, <1>4
  <2> HIDE DEF e
  <2>. QED
    BY <2>1, RecomputedIs
<1>6. BillSound(s) /\ s.status # "absent"
  BY <1>2, <1>4, EditSound DEF OpenStatus
<1>7. \A x \in Bill : bill[x].status = "absent"
  BY DEF BillingInv, OrderedBeforeBilled, Checkout
<1>8. bill[b].invoice = 0 /\ OpenBills = {} /\ lastInvoice' = lastInvoice
  BY <1>7 DEF BillingInv, BillsSound, BillSound, OpenBills, OpenStatus, Checkout
<1>9. /\ bill' \in [Bill -> BillRecord] /\ lastInvoice' \in Nat
      /\ BillsSound' /\ IsFiniteSet(Numbered)' /\ NumberingInv'
      /\ \A x \in Bill : bill[x].status # "absent" => bill'[x].status # "absent"
  BY <1>4, <1>5, <1>6, <1>8, BillsInv
<1>10. /\ bill'[b] = s
       /\ \A x \in Bill : ~bill'[x].nc /\ bill'[x].invoice = 0
  BY <1>4, <1>5, <1>7 DEF BillingInv, TypeOK, BillsSound, BillSound
<1>11. KitchenTold'
  BY <1>10 DEF KitchenTold
<1>12. /\ payment' \in [Payment -> PaymentRecord]
       /\ payment'[p].bill = b /\ \A q \in Payment : q # p => payment'[q] = payment[q]
  BY <1>1, <1>3 DEF BillingInv, TypeOK, PaymentRecord, PaymentStatus
<1>13. TypeOK'
  BY <1>9, <1>12 DEF BillingInv, TypeOK, Checkout
<1>14. PaymentsOfBills'
  BY <1>6, <1>9, <1>10, <1>12 DEF BillingInv, PaymentsOfBills
<1>15. order'[o] = "PLACED"
  BY DEF BillingInv, TypeOK, Checkout
<1>16. OrderedBeforeBilled'
  BY <1>15 DEF OrderedBeforeBilled
<1>. QED
  BY <1>9, <1>11, <1>13, <1>14, <1>16 DEF BillingInv

-----------------------------------------------------------------------------
(* Requests about payments.                                                *)

\* Money credited to a bill there is, whatever its status: an open bill that it
\* settles is numbered and its orders are sent, a closed one keeps its number.
LEMMA CreditInv ==
  ASSUME BillingInv, NEW b \in Bill, bill[b].status # "absent", NEW amount \in Nat,
         Credit(b, amount), order' = order
  PROVE  /\ bill' \in [Bill -> BillRecord] /\ lastInvoice' \in Nat /\ kot' \subseteq Order
         /\ BillsSound' /\ IsFiniteSet(Numbered)' /\ NumberingInv' /\ KitchenTold'
         /\ \A c \in Bill : bill[c].status # "absent" => bill'[c].status # "absent"
<1> DEFINE r == [bill[b] EXCEPT !.paid = @ + amount]
<1>1. bill[b] \in BillRecord /\ BillSound(bill[b]) /\ lastInvoice \in Nat
  BY DEF BillingInv, TypeOK, BillsSound
<1>2. /\ r \in BillRecord /\ r.paid = bill[b].paid + amount
      /\ r.status = bill[b].status /\ r.invoice = bill[b].invoice /\ r.nc = bill[b].nc
      /\ r.lines = bill[b].lines /\ GrandTotal(r) = GrandTotal(bill[b])
  BY <1>1 DEF BillRecord, GrandTotal, Subtotal
<1> HIDE DEF r
<1>3. PICK s \in Recomputed(r, TRUE) :
        LET settles == s.status = "PAID" /\ bill[b].status # "PAID"
            numbered == settles /\ s.invoice = 0
        IN  /\ bill' = [bill EXCEPT ![b] =
                          IF numbered THEN [s EXCEPT !.invoice = lastInvoice + 1] ELSE s]
            /\ lastInvoice' = IF numbered THEN lastInvoice + 1 ELSE lastInvoice
            /\ kot' = IF settles THEN kot \cup LiveOrders ELSE kot
  BY DEF Credit, r
<1>4. /\ s \in BillRecord /\ s.invoice = bill[b].invoice /\ s.nc = bill[b].nc
      /\ s.lines = bill[b].lines /\ s.paid = bill[b].paid + amount
      /\ s.total = GrandTotal(s) /\ s.total = GrandTotal(bill[b])
  BY <1>2, RecomputedIs
<1>5. kot \subseteq kot' /\ kot' \subseteq Order
  BY <1>3 DEF BillingInv, TypeOK, LiveOrders
<1>6. CASE bill[b].status \in OpenStatus /\ s.status = "PAID"
  <2>1. bill[b].invoice = 0 /\ ~bill[b].nc
    BY <1>1, <1>6 DEF BillSound
  <2>2. s.paid > 0 /\ s.paid >= s.total
    BY <1>2, <1>6, RecomputedIs
  <2> DEFINE n == [s EXCEPT !.invoice = lastInvoice + 1]
  <2>3. /\ n \in BillRecord /\ n.status = "PAID" /\ n.invoice = lastInvoice + 1
        /\ n.nc = s.nc /\ n.paid = s.paid /\ n.total = s.total /\ n.lines = s.lines
        /\ GrandTotal(n) = GrandTotal(s)
    <3>1. n \in BillRecord
      BY <1>1, <1>4 DEF BillRecord
    <3>2. /\ n.status = s.status /\ n.invoice = lastInvoice + 1 /\ n.lines = s.lines
          /\ n.voided = s.voided /\ n.comped = s.comped /\ n.nc = s.nc
          /\ n.discount = s.discount /\ n.charge = s.charge
          /\ n.paid = s.paid /\ n.total = s.total
      BY <1>4 DEF BillRecord
    <3> HIDE DEF n
    <3>3. GrandTotal(n) = GrandTotal(s)
      BY <3>2, SameTotal
    <3>. QED
      BY <1>6, <3>1, <3>2, <3>3
  <2>4. BillSound(n)
    BY <1>4, <2>1, <2>2, <2>3 DEF BillSound, OpenStatus
  <2>5. /\ bill' = [bill EXCEPT ![b] = n] /\ lastInvoice' = lastInvoice + 1
        /\ kot' = kot \cup LiveOrders
    BY <1>3, <1>4, <1>6, <2>1 DEF OpenStatus
  <2> HIDE DEF n
  <2>6. KitchenTold'
    BY <2>5, KitchenInv
  <2>7. /\ bill' \in [Bill -> BillRecord] /\ lastInvoice' \in Nat
        /\ BillsSound' /\ IsFiniteSet(Numbered)' /\ NumberingInv'
        /\ \A c \in Bill : bill[c].status # "absent" => bill'[c].status # "absent"
    BY <1>6, <2>1, <2>3, <2>4, <2>5, BillsInv DEF OpenStatus
  <2>. QED
    BY <1>5, <2>6, <2>7
<1>7. CASE ~(bill[b].status \in OpenStatus /\ s.status = "PAID")
  <2>1. bill[b].status \notin OpenStatus => s.status = bill[b].status
    BY <1>2, RecomputedIs
  <2>2. bill' = [bill EXCEPT ![b] = s] /\ lastInvoice' = lastInvoice
    BY <1>3, <1>7, <2>1
  <2>3. BillSound(s) /\ s.status # "absent"
    <3>1. CASE bill[b].status \in OpenStatus
      <4>1. r.status \in OpenStatus /\ r.invoice = 0 /\ ~r.nc
        BY <1>1, <1>2, <3>1 DEF BillSound
      <4>. QED
        BY <1>2, <4>1, EditSound DEF OpenStatus
    <3>2. CASE bill[b].status \notin OpenStatus
      <4>1. s.status = bill[b].status
        BY <2>1, <3>2
      <4>2. bill[b].paid \in Nat /\ bill[b].total \in Nat
        BY <1>1 DEF BillRecord
      <4>. QED
        BY <1>1, <1>4, <3>2, <4>1, <4>2 DEF BillSound
    <3>. QED
      BY <3>1, <3>2
  <2>4. s.status \in OpenStatus => bill[b].status \in OpenStatus
    BY <2>1
  <2>5. KitchenTold'
    BY <1>4, <1>5, <2>2, KitchenInv
  <2>6. /\ bill' \in [Bill -> BillRecord] /\ lastInvoice' \in Nat
        /\ BillsSound' /\ IsFiniteSet(Numbered)' /\ NumberingInv'
        /\ \A c \in Bill : bill[c].status # "absent" => bill'[c].status # "absent"
    BY <1>4, <2>2, <2>3, <2>4, BillsInv
  <2>. QED
    BY <1>5, <2>5, <2>6
<1>. QED
  BY <1>6, <1>7

LEMMA RecordCashPaymentInv ==
  ASSUME BillingInv, NEW p \in Payment, NEW b \in Bill, NEW amount \in CashAmounts,
         RecordCashPayment(p, b, amount)
  PROVE  BillingInv'
<1> USE DEF RecordCashPayment
<1>1. amount \in Nat /\ bill[b].status # "absent" /\ order' = order /\ session' = session
  BY BillingAssumption DEF OpenStatus, ordering
<1>2. /\ bill' \in [Bill -> BillRecord] /\ lastInvoice' \in Nat /\ kot' \subseteq Order
      /\ BillsSound' /\ IsFiniteSet(Numbered)' /\ NumberingInv' /\ KitchenTold'
      /\ \A c \in Bill : bill[c].status # "absent" => bill'[c].status # "absent"
  BY <1>1, CreditInv
<1>3. /\ payment' \in [Payment -> PaymentRecord] /\ payment'[p].bill = b
      /\ \A q \in Payment : q # p => payment'[q] = payment[q]
  BY <1>1 DEF BillingInv, TypeOK, PaymentRecord, PaymentStatus
<1>4. TypeOK'
  BY <1>1, <1>2, <1>3 DEF BillingInv, TypeOK
<1>5. PaymentsOfBills'
  BY <1>1, <1>2, <1>3 DEF BillingInv, PaymentsOfBills
<1>6. OrderedBeforeBilled'
  BY <1>1, BilledHasOrder DEF OrderedBeforeBilled
<1>. QED
  BY <1>2, <1>4, <1>5, <1>6 DEF BillingInv

LEMMA CreateRazorpayOrderInv ==
  ASSUME BillingInv, NEW p \in Payment, NEW b \in Bill, NEW ok \in BOOLEAN,
         CreateRazorpayOrder(p, b, ok)
  PROVE  BillingInv'
<1> USE DEF CreateRazorpayOrder
<1>1. bill[b].status # "absent" /\ bill[b].total - bill[b].paid \in Nat
  BY DEF BillingInv, TypeOK, BillRecord, OpenStatus
<1>2. /\ payment' \in [Payment -> PaymentRecord] /\ payment'[p].bill = b
      /\ \A q \in Payment : q # p => payment'[q] = payment[q]
  BY <1>1 DEF BillingInv, TypeOK, PaymentRecord, PaymentStatus
<1>3. TypeOK'
  BY <1>2 DEF BillingInv, TypeOK, ordering
<1>4. PaymentsOfBills'
  BY <1>1, <1>2 DEF BillingInv, PaymentsOfBills
<1>5. OrderedBeforeBilled' /\ KitchenTold'
  BY DEF BillingInv, OrderedBeforeBilled, KitchenTold, LiveOrders, ordering
<1>. QED
  BY <1>3, <1>4, <1>5, SameBills DEF BillingInv

LEMMA ReportCapturedInv ==
  ASSUME BillingInv, NEW p \in Payment, ReportCaptured(p) PROVE BillingInv'
<1> USE DEF ReportCaptured
<1>1. /\ payment[p].bill \in Bill /\ bill[payment[p].bill].status # "absent"
      /\ payment[p].amount \in Nat /\ order' = order /\ session' = session
  BY DEF BillingInv, TypeOK, PaymentRecord, PaymentsOfBills, ordering
<1>2. /\ bill' \in [Bill -> BillRecord] /\ lastInvoice' \in Nat /\ kot' \subseteq Order
      /\ BillsSound' /\ IsFiniteSet(Numbered)' /\ NumberingInv' /\ KitchenTold'
      /\ \A c \in Bill : bill[c].status # "absent" => bill'[c].status # "absent"
  BY <1>1, CreditInv
<1>3. /\ payment' \in [Payment -> PaymentRecord] /\ payment'[p].bill = payment[p].bill
      /\ \A q \in Payment : q # p => payment'[q] = payment[q]
  BY DEF BillingInv, TypeOK, PaymentRecord, PaymentStatus
<1>4. TypeOK'
  BY <1>1, <1>2, <1>3 DEF BillingInv, TypeOK
<1>5. PaymentsOfBills'
  BY <1>1, <1>2, <1>3 DEF BillingInv, PaymentsOfBills
<1>6. OrderedBeforeBilled'
  BY <1>1, BilledHasOrder DEF OrderedBeforeBilled
<1>. QED
  BY <1>2, <1>4, <1>5, <1>6 DEF BillingInv

LEMMA RejectReportInv ==
  ASSUME BillingInv, NEW p \in Payment, RejectReport(p) PROVE BillingInv'
<1> USE DEF RejectReport
<1>1. /\ payment' \in [Payment -> PaymentRecord] /\ payment'[p].bill = payment[p].bill
      /\ \A q \in Payment : q # p => payment'[q] = payment[q]
  BY DEF BillingInv, TypeOK, PaymentRecord, PaymentStatus
<1>2. TypeOK'
  BY <1>1 DEF BillingInv, TypeOK, ordering
<1>3. PaymentsOfBills'
  BY <1>1 DEF BillingInv, PaymentsOfBills
<1>4. OrderedBeforeBilled' /\ KitchenTold'
  BY DEF BillingInv, OrderedBeforeBilled, KitchenTold, LiveOrders, ordering
<1>. QED
  BY <1>2, <1>3, <1>4, SameBills DEF BillingInv

LEMMA RefundPaymentInv ==
  ASSUME BillingInv, NEW p \in Payment, NEW amount \in 1 .. payment[p].amount,
         RefundPayment(p, amount)
  PROVE  BillingInv'
<1> USE DEF RefundPayment
<1> DEFINE b == payment[p].bill
           s == [bill[b] EXCEPT !.refunded = @ + amount]
<1>1. /\ b \in Bill /\ bill[b].status # "absent" /\ amount \in Nat
      /\ bill[b] \in BillRecord /\ BillSound(bill[b]) /\ payment[p] \in PaymentRecord
  BY DEF BillingInv, TypeOK, PaymentsOfBills, PaymentRecord, BillsSound
<1>2. /\ s \in BillRecord /\ s.status = bill[b].status /\ s.lines = bill[b].lines
      /\ s.discount = bill[b].discount /\ s.charge = bill[b].charge
      /\ s.total = bill[b].total /\ s.paid = bill[b].paid /\ s.nc = bill[b].nc
      /\ s.invoice = bill[b].invoice /\ GrandTotal(s) = GrandTotal(bill[b])
  BY <1>1 DEF BillRecord, GrandTotal, Subtotal
<1>3. /\ payment' \in [Payment -> PaymentRecord] /\ payment'[p].bill = b
      /\ \A q \in Payment : q # p => payment'[q] = payment[q]
  BY <1>1 DEF BillingInv, TypeOK, PaymentRecord
<1>4. bill' = [bill EXCEPT ![b] = s] /\ lastInvoice' = lastInvoice /\ kot' = kot
      /\ order' = order /\ session' = session
  BY DEF ordering
<1> HIDE DEF s, b
<1>5. BillSound(s)
  BY <1>1, <1>2 DEF BillSound
<1>6. /\ bill' \in [Bill -> BillRecord] /\ lastInvoice' \in Nat
      /\ BillsSound' /\ IsFiniteSet(Numbered)' /\ NumberingInv'
      /\ \A c \in Bill : bill[c].status # "absent" => bill'[c].status # "absent"
  BY <1>1, <1>2, <1>4, <1>5, BillsInv
<1>7. KitchenTold'
  <2>1. s.nc \/ s.invoice # 0 =>
          s.lines = bill[b].lines /\ (bill[b].nc \/ bill[b].invoice # 0)
    BY <1>2
  <2>2. kot \subseteq kot' /\ order' = order
    BY <1>4
  <2>. QED
    BY <1>1, <1>4, <2>1, <2>2, KitchenInv
<1>8. TypeOK'
  BY <1>3, <1>4, <1>6 DEF BillingInv, TypeOK
<1>9. PaymentsOfBills'
  BY <1>1, <1>3, <1>6 DEF BillingInv, PaymentsOfBills
<1>10. OrderedBeforeBilled'
  BY <1>1, <1>4, BilledHasOrder DEF OrderedBeforeBilled
<1>. QED
  BY <1>6, <1>7, <1>8, <1>9, <1>10 DEF BillingInv

-----------------------------------------------------------------------------
(* The invariant.                                                          *)

LEMMA OrderRequestsInv == BillingInv /\ OrderRequests => BillingInv'
  BY PlaceOrderInv, CancelOrderInv, CheckoutInv DEF OrderRequests

LEMMA BillRequestsInv == BillingInv /\ BillRequests => BillingInv'
  BY GenerateBillInv, VoidBillInv, MarkBillNcInv, ApplyDiscountInv, VoidBillItemInv,
     CompBillItemInv, UncompBillItemInv DEF BillRequests

LEMMA PaymentRequestsInv == BillingInv /\ PaymentRequests => BillingInv'
  BY RecordCashPaymentInv, CreateRazorpayOrderInv, ReportCapturedInv, RejectReportInv,
     RefundPaymentInv DEF PaymentRequests

LEMMA StutterInv == BillingInv /\ UNCHANGED vars => BillingInv'
<1> SUFFICES ASSUME BillingInv, UNCHANGED vars PROVE BillingInv'
  OBVIOUS
<1>1. UNCHANGED <<session, order, kot, bill, lastInvoice, payment>>
  BY DEF vars
<1>2. TypeOK' /\ PaymentsOfBills' /\ OrderedBeforeBilled' /\ KitchenTold'
  BY <1>1 DEF BillingInv, TypeOK, PaymentsOfBills, OrderedBeforeBilled, KitchenTold, LiveOrders
<1>. QED
  BY <1>1, <1>2, SameBills DEF BillingInv

\* BillingInv holds in every reachable state: between two requests each bill is
\* sound, money is on bills there are and the numbers are consecutive.
THEOREM BillingInvariant == Spec => []BillingInv
<1>1. BillingInv /\ [Next]_vars => BillingInv'
  BY OrderRequestsInv, BillRequestsInv, PaymentRequestsInv, StutterInv DEF Next
<1>. QED
  BY <1>1, InitInv, PTL DEF Spec

\* The variables keep their types: amounts stay natural numbers, however
\* discounts, payments and refunds follow each other.
THEOREM BillingTyped == Spec => []TypeOK
<1>1. BillingInv => TypeOK
  BY DEF BillingInv
<1>. QED
  BY <1>1, BillingInvariant, PTL

\* A settled bill that was not given away is paid for in full, and one given
\* away is never an invoice, not even when its Razorpay order is captured later
\* (_recompute_totals, mark_bill_nc, record_payment_applied).
THEOREM BillsSettled == Spec => []SettlementInv
<1>1. BillingInv => SettlementInv
  BY DEF BillingInv, BillsSound, BillSound, SettlementInv, PaidIsCovered, NcNeverNumbered
<1>. QED
  BY <1>1, BillingInvariant, PTL

\* The numbers of a session's bills, the voided ones included, are 1 up to the
\* counter, each on one bill, and one bill at most is open (finalise,
\* generate_or_refresh_bill).
THEOREM NumbersInSeries == Spec => []NumberingInv
<1>1. BillingInv => NumberingInv
  BY DEF BillingInv
<1>. QED
  BY <1>1, BillingInvariant, PTL

\* Once a bill is invoiced or given away the kitchen has a ticket for every
\* order on it that is not cancelled (release_held_kots_for_session).
THEOREM KitchenIsTold == Spec => []KitchenTold
<1>1. BillingInv => KitchenTold
  BY DEF BillingInv
<1>. QED
  BY <1>1, BillingInvariant, PTL

-----------------------------------------------------------------------------
(* The figures that a bill keeps: its money and its number.                *)

SameAmounts(old, new) ==
  new.paid = old.paid /\ new.refunded = old.refunded /\ new.invoice = old.invoice

SameFigures ==
  lastInvoice' = lastInvoice /\ \A c \in Bill : SameAmounts(bill[c], bill'[c])

\* The bill that an edit stores has the figures that it was edited with.
LEMMA StoredFigures ==
  ASSUME BillingInv, NEW b \in Bill, NEW r \in BillRecord, StoreRecomputed(b, r)
  PROVE  /\ SameAmounts(r, bill'[b])
         /\ r.status \in OpenStatus => bill'[b].status # "CANCELLED"
         /\ \A c \in Bill : c # b => bill'[c] = bill[c]
<1>1. PICK s \in Recomputed(r, FALSE) : bill' = [bill EXCEPT ![b] = s]
  BY DEF StoreRecomputed
<1>2. SameAmounts(r, s) /\ (r.status \in OpenStatus => s.status # "CANCELLED")
  BY RecomputedIs DEF SameAmounts, OpenStatus
<1>. QED
  BY <1>1, <1>2 DEF BillingInv, TypeOK

EditsBill(b) ==
  \/ GenerateBill(b)
  \/ \E d \in Discounts : ApplyDiscount(b, d)
  \/ \E o \in Order : VoidBillItem(b, o) \/ CompBillItem(b, o) \/ UncompBillItem(b, o)

\* That bill b is edited to be r and recomputed.
EditedTo(b, r) ==
  /\ StoreRecomputed(b, r) /\ SameAmounts(bill[b], r)
  /\ bill[b].status \in OpenStatus \cup {"absent"} /\ r.status \in OpenStatus
  /\ UNCHANGED <<lastInvoice, payment>>

\* An edit is of an open bill or makes one, and has nothing to do with money.
LEMMA EditsKeep ==
  ASSUME BillingInv, NEW b \in Bill, EditsBill(b)
  PROVE  \E r \in BillRecord : EditedTo(b, r)
<1>1. bill \in [Bill -> BillRecord] /\ bill[b] \in BillRecord
  BY DEF BillingInv, TypeOK
<1>2. CASE GenerateBill(b)
  <2>1. PICK c \in (IF bill[b].charge = 0 THEN FlatCharges ELSE {bill[b].charge}) :
          StoreRecomputed(b,
            [bill[b] EXCEPT !.status = IF @ = "absent" THEN "OPEN" ELSE @,
                            !.lines = @ \cup LiveOrders, !.charge = c])
    BY <1>2, Zenon DEF GenerateBill
  <2> DEFINE r == [bill[b] EXCEPT !.status = IF @ = "absent" THEN "OPEN" ELSE @,
                                  !.lines = @ \cup LiveOrders, !.charge = c]
  <2>2. c \in Nat
    BY <1>1, BillingAssumption DEF BillRecord, SameAmounts
  <2>3. r \in BillRecord /\ SameAmounts(bill[b], r)
    BY <1>1, <2>2 DEF BillRecord, SameAmounts, OpenStatus, BillStatus, LiveOrders
  <2>4. StoreRecomputed(b, r) /\ UNCHANGED <<lastInvoice, payment>>
    BY <1>2, <2>1 DEF GenerateBill
  <2>5. bill[b].status \in OpenStatus \cup {"absent"}
    BY <1>2 DEF GenerateBill, OpenBills
  <2>6. r.status \in OpenStatus
    BY <1>1, <2>5 DEF BillRecord, OpenStatus
  <2> HIDE DEF r
  <2>. QED
    BY <2>3, <2>4, <2>5, <2>6 DEF EditedTo
<1>3. ASSUME NEW d \in Discounts, ApplyDiscount(b, d)
      PROVE  \E r \in BillRecord : EditedTo(b, r)
  <2> DEFINE r == [bill[b] EXCEPT !.discount = @ + d]
  <2>1. r \in BillRecord /\ SameAmounts(bill[b], r) /\ r.status = bill[b].status
    BY <1>1, BillingAssumption DEF BillRecord, SameAmounts
  <2>2. /\ StoreRecomputed(b, r) /\ UNCHANGED <<lastInvoice, payment>>
        /\ bill[b].status \in OpenStatus
    BY <1>3 DEF ApplyDiscount, Editable
  <2> HIDE DEF r
  <2>. QED
    BY <2>1, <2>2 DEF EditedTo
<1>4. ASSUME NEW o \in Order, VoidBillItem(b, o)
      PROVE  \E r \in BillRecord : EditedTo(b, r)
  <2> DEFINE r == [bill[b] EXCEPT !.voided = @ \cup {o}]
  <2>1. r \in BillRecord /\ SameAmounts(bill[b], r) /\ r.status = bill[b].status
    BY <1>1 DEF BillRecord, SameAmounts
  <2>2. /\ StoreRecomputed(b, r) /\ UNCHANGED <<lastInvoice, payment>>
        /\ bill[b].status \in OpenStatus
    BY <1>4 DEF VoidBillItem, Editable
  <2> HIDE DEF r
  <2>. QED
    BY <2>1, <2>2 DEF EditedTo
<1>5. ASSUME NEW o \in Order, CompBillItem(b, o)
      PROVE  \E r \in BillRecord : EditedTo(b, r)
  <2> DEFINE r == [bill[b] EXCEPT !.comped = @ \cup {o}]
  <2>1. r \in BillRecord /\ SameAmounts(bill[b], r) /\ r.status = bill[b].status
    BY <1>1 DEF BillRecord, SameAmounts
  <2>2. /\ StoreRecomputed(b, r) /\ UNCHANGED <<lastInvoice, payment>>
        /\ bill[b].status \in OpenStatus
    BY <1>5 DEF CompBillItem, Editable
  <2> HIDE DEF r
  <2>. QED
    BY <2>1, <2>2 DEF EditedTo
<1>6. ASSUME NEW o \in Order, UncompBillItem(b, o)
      PROVE  \E r \in BillRecord : EditedTo(b, r)
  <2> DEFINE r == [bill[b] EXCEPT !.comped = @ \ {o}]
  <2>1. r \in BillRecord /\ SameAmounts(bill[b], r) /\ r.status = bill[b].status
    BY <1>1 DEF BillRecord, SameAmounts
  <2>2. /\ StoreRecomputed(b, r) /\ UNCHANGED <<lastInvoice, payment>>
        /\ bill[b].status \in OpenStatus
    BY <1>6 DEF UncompBillItem, Editable
  <2> HIDE DEF r
  <2>. QED
    BY <2>1, <2>2 DEF EditedTo
<1>. QED
  BY <1>2, <1>3, <1>4, <1>5, <1>6 DEF EditsBill

\* No request about a bill credits, hands back or numbers anything.
LEMMA BillRequestsKeep == BillingInv /\ BillRequests => SameFigures /\ payment' = payment
<1> SUFFICES ASSUME BillingInv, NEW b \in Bill, EditsBill(b) \/ VoidBill(b) \/ MarkBillNc(b)
             PROVE  SameFigures /\ payment' = payment
  BY DEF BillRequests, EditsBill
<1>1. bill \in [Bill -> BillRecord] /\ bill[b] \in BillRecord
  BY DEF BillingInv, TypeOK
<1>2. CASE EditsBill(b)
  <2>1. PICK r \in BillRecord : EditedTo(b, r)
    BY <1>2, EditsKeep
  <2>2. \A c \in Bill : SameAmounts(bill[c], bill'[c])
    BY <2>1, StoredFigures DEF SameAmounts, EditedTo
  <2>. QED
    BY <2>1, <2>2 DEF SameFigures, EditedTo
<1>3. CASE VoidBill(b)
  <2>1. /\ bill' = [bill EXCEPT ![b] = [bill[b] EXCEPT !.status = "CANCELLED"]]
        /\ UNCHANGED <<lastInvoice, payment>>
    BY <1>3 DEF VoidBill
  <2>2. \A c \in Bill : SameAmounts(bill[c], bill'[c])
    BY <1>1, <2>1 DEF BillRecord, SameAmounts
  <2>. QED
    BY <2>1, <2>2 DEF SameFigures
<1>4. CASE MarkBillNc(b)
  <2> DEFINE r == [bill[b] EXCEPT !.nc = TRUE,
                                  !.comped = @ \cup (bill[b].lines \ bill[b].voided)]
             s == [r EXCEPT !.total = GrandTotal(r), !.status = "PAID"]
  <2>1. bill' = [bill EXCEPT ![b] = s] /\ UNCHANGED <<lastInvoice, payment>>
    BY <1>4 DEF MarkBillNc
  <2>2. SameAmounts(bill[b], s)
    BY <1>1 DEF BillRecord, SameAmounts
  <2> HIDE DEF s
  <2>3. \A c \in Bill : SameAmounts(bill[c], bill'[c])
    BY <1>1, <2>1, <2>2 DEF SameAmounts
  <2>. QED
    BY <2>1, <2>3 DEF SameFigures
<1>. QED
  BY <1>2, <1>3, <1>4

\* Bill b takes the next number of the series.
Numbers(b) ==
  /\ bill[b].invoice = 0
  /\ bill'[b].invoice = lastInvoice + 1 /\ lastInvoice' = lastInvoice + 1

\* What crediting an amount to a bill does to the figures of the bills.
LEMMA CreditFigures ==
  ASSUME BillingInv, NEW b \in Bill, NEW amount \in Nat, Credit(b, amount)
  PROVE  /\ bill'[b].paid = bill[b].paid + amount /\ bill'[b].refunded = bill[b].refunded
         /\ bill'[b].status = "CANCELLED" <=> bill[b].status = "CANCELLED"
         /\ \A c \in Bill : c # b => bill'[c] = bill[c]
         /\ \/ lastInvoice' = lastInvoice /\ bill'[b].invoice = bill[b].invoice
            \/ Numbers(b)
<1> DEFINE r == [bill[b] EXCEPT !.paid = @ + amount]
<1>1. bill \in [Bill -> BillRecord] /\ bill[b] \in BillRecord
  BY DEF BillingInv, TypeOK
<1>2. /\ r \in BillRecord /\ r.paid = bill[b].paid + amount
      /\ r.refunded = bill[b].refunded /\ r.invoice = bill[b].invoice
      /\ r.status = bill[b].status
  BY <1>1 DEF BillRecord
<1> HIDE DEF r
<1>3. PICK s \in Recomputed(r, TRUE) :
        LET settles == s.status = "PAID" /\ bill[b].status # "PAID"
            numbered == settles /\ s.invoice = 0
        IN  /\ bill' = [bill EXCEPT ![b] =
                          IF numbered THEN [s EXCEPT !.invoice = lastInvoice + 1] ELSE s]
            /\ lastInvoice' = IF numbered THEN lastInvoice + 1 ELSE lastInvoice
  BY DEF Credit, r
<1>4. /\ s \in BillRecord /\ SameAmounts(r, s)
      /\ s.status = "CANCELLED" <=> bill[b].status = "CANCELLED"
  <2>1. s \in BillRecord /\ SameAmounts(r, s)
    BY <1>2, RecomputedIs DEF SameAmounts
  <2>2. IF r.status \in OpenStatus THEN s.status \in OpenStatus \cup {"PAID"}
                                    ELSE s.status = r.status
    BY <1>2, RecomputedIs
  <2>. QED
    BY <1>2, <2>1, <2>2 DEF OpenStatus
<1>5. CASE s.status = "PAID" /\ bill[b].status # "PAID" /\ s.invoice = 0
  <2> DEFINE n == [s EXCEPT !.invoice = lastInvoice + 1]
  <2>1. /\ n.paid = s.paid /\ n.refunded = s.refunded /\ n.invoice = lastInvoice + 1
        /\ n.status = s.status
    BY <1>4 DEF BillRecord
  <2>2. bill' = [bill EXCEPT ![b] = n] /\ lastInvoice' = lastInvoice + 1
    BY <1>3, <1>5
  <2> HIDE DEF n
  <2>3. bill'[b] = n /\ \A c \in Bill : c # b => bill'[c] = bill[c]
    BY <1>1, <2>2
  <2>. QED
    BY <1>2, <1>4, <1>5, <2>1, <2>2, <2>3 DEF SameAmounts, Numbers
<1>6. CASE ~(s.status = "PAID" /\ bill[b].status # "PAID" /\ s.invoice = 0)
  <2>1. bill' = [bill EXCEPT ![b] = s] /\ lastInvoice' = lastInvoice
    BY <1>3, <1>6
  <2>2. bill'[b] = s /\ \A c \in Bill : c # b => bill'[c] = bill[c]
    BY <1>1, <2>1
  <2>. QED
    BY <1>2, <1>4, <2>1, <2>2 DEF SameAmounts
<1>. QED
  BY <1>5, <1>6

-----------------------------------------------------------------------------
(* The register.                                                           *)

\* What any request does to the numbers.
LEMMA StepNumbers ==
  ASSUME BillingInv, Next
  PROVE  \/ lastInvoice' = lastInvoice /\ \A c \in Bill : bill'[c].invoice = bill[c].invoice
         \/ \E b \in Bill : /\ Numbers(b)
                            /\ \A c \in Bill : c # b => bill'[c].invoice = bill[c].invoice
<1>1. CASE OrderRequests
  <2>1. ASSUME NEW o \in Order, PlaceOrder(o) \/ CancelOrder(o)
        PROVE  bill' = bill /\ lastInvoice' = lastInvoice
    BY <2>1 DEF PlaceOrder, CancelOrder
  <2>2. ASSUME NEW o \in Order, NEW b \in Bill, NEW p \in Payment, NEW ok \in BOOLEAN,
               Checkout(o, b, p, ok)
        PROVE  lastInvoice' = lastInvoice /\ \A c \in Bill : bill'[c].invoice = bill[c].invoice
    <3>1. PICK f \in FlatCharges :
            StoreRecomputed(b, [NoBill EXCEPT !.status = "OPEN", !.lines = {o}, !.charge = f])
      BY <2>2 DEF Checkout
    <3> DEFINE r == [NoBill EXCEPT !.status = "OPEN", !.lines = {o}, !.charge = f]
    <3>2. r \in BillRecord /\ r.invoice = 0
      BY BillingAssumption DEF NoBill, BillRecord, BillStatus, OpenStatus
    <3>3. StoreRecomputed(b, r)
      BY <3>1
    <3> HIDE DEF r
    <3>4. bill'[b].invoice = 0 /\ \A c \in Bill : c # b => bill'[c] = bill[c]
      BY <3>2, <3>3, StoredFigures DEF SameAmounts
    <3>5. bill[b].invoice = 0
      BY <2>2 DEF Checkout, BillingInv, BillsSound, BillSound
    <3>. QED
      BY <2>2, <3>4, <3>5 DEF Checkout
  <2>. QED
    BY <1>1, <2>1, <2>2 DEF OrderRequests
<1>2. CASE BillRequests
  BY <1>2, BillRequestsKeep DEF SameFigures, SameAmounts
<1>3. CASE PaymentRequests
  <2>1. ASSUME NEW b \in Bill, NEW amount \in Nat, Credit(b, amount)
        PROVE  \/ lastInvoice' = lastInvoice /\ \A c \in Bill : bill'[c].invoice = bill[c].invoice
               \/ /\ Numbers(b)
                  /\ \A c \in Bill : c # b => bill'[c].invoice = bill[c].invoice
    BY <2>1, CreditFigures
  <2>2. ASSUME NEW p \in Payment, NEW b \in Bill, NEW amount \in CashAmounts,
               RecordCashPayment(p, b, amount)
        PROVE  amount \in Nat /\ Credit(b, amount)
    BY <2>2, BillingAssumption DEF RecordCashPayment
  <2>3. ASSUME NEW p \in Payment, ReportCaptured(p)
        PROVE  /\ payment[p].bill \in Bill /\ payment[p].amount \in Nat
               /\ Credit(payment[p].bill, payment[p].amount)
    BY <2>3 DEF ReportCaptured, BillingInv, TypeOK, PaymentRecord, PaymentsOfBills
  <2>4. ASSUME NEW p \in Payment, \/ RejectReport(p)
                                  \/ \E b \in Bill, ok \in BOOLEAN : CreateRazorpayOrder(p, b, ok)
        PROVE  bill' = bill /\ lastInvoice' = lastInvoice
    BY <2>4 DEF RejectReport, CreateRazorpayOrder
  <2>5. ASSUME NEW p \in Payment, NEW amount, RefundPayment(p, amount)
        PROVE  lastInvoice' = lastInvoice /\ \A c \in Bill : bill'[c].invoice = bill[c].invoice
    <3>1. payment[p].bill \in Bill /\ bill[payment[p].bill] \in BillRecord
      BY <2>5 DEF RefundPayment, BillingInv, TypeOK, PaymentsOfBills
    <3>2. bill' = [bill EXCEPT ![payment[p].bill] =
                     [bill[payment[p].bill] EXCEPT !.refunded = @ + amount]]
      BY <2>5 DEF RefundPayment
    <3>. QED
      BY <2>5, <3>1, <3>2 DEF RefundPayment, BillingInv, TypeOK, BillRecord
  <2>. QED
    BY <1>3, <2>1, <2>2, <2>3, <2>4, <2>5 DEF PaymentRequests
<1>. QED
  BY <1>1, <1>2, <1>3 DEF Next

\* The bills of a session are numbered as the register promises: a request
\* that settles a bill is Issue, and every other leaves the numbers alone.
THEOREM RegisterImplemented == Spec => ImplementsRegister
<1> DEFINE No(n) == [series |-> "", seq |-> n]
<1>1. Init => Register!Init
  BY DEF Init, Register!Init, NoBill
<1>2. BillingInv /\ [Next]_vars => [Register!Next]_(Register!vars)
  <2> SUFFICES ASSUME BillingInv, [Next]_vars
               PROVE  [Register!Next]_(Register!vars)
    OBVIOUS
  <2>1. CASE lastInvoice' = lastInvoice /\ \A c \in Bill : bill'[c].invoice = bill[c].invoice
    BY <2>1 DEF Register!vars
  <2>2. ASSUME NEW b \in Bill, Numbers(b),
               \A c \in Bill : c # b => bill'[c].invoice = bill[c].invoice
        PROVE  Register!Next
    <3>1. [c \in Bill |-> No(bill[c].invoice)]'
            = [[c \in Bill |-> No(bill[c].invoice)] EXCEPT ![b] = No(lastInvoice + 1)]
      BY <2>2 DEF Numbers
    <3>2. [s \in {""} |-> lastInvoice]' = [[s \in {""} |-> lastInvoice] EXCEPT ![""] = @ + 1]
      BY <2>2 DEF Numbers
    <3>3. Register!Issue(b, "")
      BY <2>2, <3>1, <3>2 DEF Register!Issue, Numbers
    <3>. QED
      BY <3>3 DEF Register!Next
  <2>3. CASE UNCHANGED vars
    BY <2>1, <2>3 DEF vars
  <2>. QED
    BY <2>1, <2>2, <2>3, StepNumbers
<1>. QED
  BY <1>1, <1>2, BillingInvariant, PTL DEF Spec, ImplementsRegister, Register!Spec

-----------------------------------------------------------------------------
(* Closed bills.                                                           *)

\* What a step may do to a bill: its number stays, and so do the lines and
\* the total of a closed one.
Kept(old, new) ==
  /\ old.invoice # 0 => new.invoice = old.invoice
  /\ old.status \in {"PAID", "CANCELLED"} =>
       /\ new.lines = old.lines /\ new.voided = old.voided /\ new.comped = old.comped
       /\ new.total = old.total
       /\ old.status = "CANCELLED" => new.status = "CANCELLED" /\ new.invoice = old.invoice

BillsKept == \A c \in Bill : Kept(bill[c], bill'[c])

\* One bill changes.
LEMMA OneKept ==
  ASSUME BillingInv, NEW b \in Bill, NEW s, bill' = [bill EXCEPT ![b] = s], Kept(bill[b], s)
  PROVE  BillsKept
<1>1. bill'[b] = s /\ \A c \in Bill : c # b => bill'[c] = bill[c]
  BY DEF BillingInv, TypeOK
<1>. QED
  BY <1>1 DEF BillsKept, Kept

LEMMA UnchangedKept == UNCHANGED bill => BillsKept
  BY DEF BillsKept, Kept

\* An edit is of an open bill or a new one, which has no number.
LEMMA EditKept ==
  ASSUME BillingInv, NEW b \in Bill, NEW r, StoreRecomputed(b, r),
         bill[b].status \in OpenStatus \cup {"absent"}
  PROVE  BillsKept
<1>1. PICK s : bill' = [bill EXCEPT ![b] = s]
  BY DEF StoreRecomputed
<1>2. bill[b].invoice = 0 /\ bill[b].status \notin {"PAID", "CANCELLED"}
  BY DEF BillingInv, BillsSound, BillSound, OpenStatus
<1>. QED
  BY <1>1, <1>2, OneKept DEF Kept

LEMMA CreditKept ==
  ASSUME BillingInv, NEW b \in Bill, bill[b].status # "absent", NEW amount \in Nat,
         Credit(b, amount)
  PROVE  BillsKept
<1> DEFINE r == [bill[b] EXCEPT !.paid = @ + amount]
<1>1. bill[b] \in BillRecord /\ BillSound(bill[b])
  BY DEF BillingInv, TypeOK, BillsSound
<1>2. /\ r \in BillRecord /\ r.status = bill[b].status /\ r.invoice = bill[b].invoice
      /\ r.lines = bill[b].lines /\ r.voided = bill[b].voided /\ r.comped = bill[b].comped
      /\ GrandTotal(r) = GrandTotal(bill[b])
  BY <1>1 DEF BillRecord, GrandTotal, Subtotal
<1> HIDE DEF r
<1>3. PICK s \in Recomputed(r, TRUE) :
        LET settles == s.status = "PAID" /\ bill[b].status # "PAID"
            numbered == settles /\ s.invoice = 0
        IN  bill' = [bill EXCEPT ![b] =
                       IF numbered THEN [s EXCEPT !.invoice = lastInvoice + 1] ELSE s]
  BY DEF Credit, r
<1>4. /\ s.invoice = bill[b].invoice /\ s.lines = bill[b].lines
      /\ s.voided = bill[b].voided /\ s.comped = bill[b].comped
      /\ s.total = GrandTotal(bill[b])
      /\ bill[b].status \notin OpenStatus => s.status = bill[b].status
  BY <1>2, RecomputedIs
<1>5. CASE bill[b].status \in OpenStatus
  <2>1. bill[b].invoice = 0 /\ bill[b].status \notin {"PAID", "CANCELLED"}
    BY <1>1, <1>5 DEF BillSound, OpenStatus
  <2>2. \A n : Kept(bill[b], n)
    BY <2>1 DEF Kept
  <2>3. PICK n : bill' = [bill EXCEPT ![b] = n]
    BY <1>3
  <2>. QED
    BY <2>2, <2>3, OneKept
<1>6. CASE bill[b].status \notin OpenStatus
  <2>1. bill' = [bill EXCEPT ![b] = s]
    BY <1>3, <1>4, <1>6
  <2>2. Kept(bill[b], s)
    BY <1>1, <1>4, <1>6 DEF Kept, BillSound
  <2>. QED
    BY <2>1, <2>2, OneKept
<1>. QED
  BY <1>5, <1>6

LEMMA VoidKept ==
  ASSUME BillingInv, NEW b \in Bill, VoidBill(b) PROVE BillsKept
<1> DEFINE s == [bill[b] EXCEPT !.status = "CANCELLED"]
<1>1. bill[b] \in BillRecord
  BY DEF BillingInv, TypeOK
<1>2. Kept(bill[b], s)
  BY <1>1 DEF Kept, BillRecord
<1>3. bill' = [bill EXCEPT ![b] = s]
  BY DEF VoidBill
<1> HIDE DEF s
<1>. QED
  BY <1>2, <1>3, OneKept

\* A bill settled by a payment is paid, so that giving a bill away closes an open one.
LEMMA NcKept ==
  ASSUME BillingInv, NEW b \in Bill, MarkBillNc(b) PROVE BillsKept
<1>1. bill[b] \in BillRecord /\ BillSound(bill[b])
  BY DEF BillingInv, TypeOK, BillsSound
<1>2. bill[b].invoice = 0 /\ bill[b].status \notin {"PAID", "CANCELLED"}
  BY <1>1 DEF MarkBillNc, BillSound
<1>3. PICK n : bill' = [bill EXCEPT ![b] = n]
  BY DEF MarkBillNc
<1>4. Kept(bill[b], n)
  BY <1>2 DEF Kept
<1>. QED
  BY <1>3, <1>4, OneKept

LEMMA RefundKept ==
  ASSUME BillingInv, NEW p \in Payment, NEW amount, RefundPayment(p, amount)
  PROVE  BillsKept
<1> DEFINE b == payment[p].bill
           s == [bill[b] EXCEPT !.refunded = @ + amount]
<1>1. b \in Bill
  BY DEF BillingInv, PaymentsOfBills, RefundPayment
<1>2. bill[b] \in BillRecord
  BY <1>1 DEF BillingInv, TypeOK
<1>3. bill' = [bill EXCEPT ![b] = s]
  BY DEF RefundPayment
<1>4. Kept(bill[b], s)
  BY <1>2 DEF Kept, BillRecord
<1> HIDE DEF b, s
<1>. QED
  BY <1>1, <1>3, <1>4, OneKept

LEMMA StepKept == BillingInv /\ Next => BillsKept
<1> SUFFICES ASSUME BillingInv, Next PROVE BillsKept
  OBVIOUS
<1>1. CASE OrderRequests
  <2>1. ASSUME NEW o \in Order, PlaceOrder(o) \/ CancelOrder(o) PROVE BillsKept
    BY <2>1, UnchangedKept DEF PlaceOrder, CancelOrder
  <2>2. ASSUME NEW o \in Order, NEW b \in Bill, NEW p \in Payment, NEW ok \in BOOLEAN,
               Checkout(o, b, p, ok)
        PROVE  BillsKept
    <3>1. PICK r : StoreRecomputed(b, r)
      BY <2>2 DEF Checkout
    <3>2. bill[b].status = "absent"
      BY <2>2 DEF Checkout
    <3>. QED
      BY <3>1, <3>2, EditKept
  <2>. QED
    BY <1>1, <2>1, <2>2 DEF OrderRequests
<1>2. CASE BillRequests
  <2>1. ASSUME NEW b \in Bill, GenerateBill(b) PROVE BillsKept
    <3>1. bill[b].status \in OpenStatus \cup {"absent"}
      BY <2>1 DEF GenerateBill, OpenBills
    <3>2. PICK r : StoreRecomputed(b, r)
      BY <2>1, Zenon DEF GenerateBill
    <3>. QED
      BY <3>1, <3>2, EditKept
  <2>2. ASSUME NEW b \in Bill, NEW d \in Discounts, ApplyDiscount(b, d) PROVE BillsKept
    BY <2>2, EditKept DEF ApplyDiscount, Editable
  <2>3. ASSUME NEW b \in Bill, NEW o \in Order,
               VoidBillItem(b, o) \/ CompBillItem(b, o) \/ UncompBillItem(b, o)
        PROVE  BillsKept
    BY <2>3, EditKept DEF VoidBillItem, CompBillItem, UncompBillItem, Editable
  <2>. QED
    BY <1>2, <2>1, <2>2, <2>3, VoidKept, NcKept DEF BillRequests
<1>3. CASE PaymentRequests
  <2>1. ASSUME NEW p \in Payment, NEW b \in Bill, NEW amount \in CashAmounts,
               RecordCashPayment(p, b, amount)
        PROVE  BillsKept
    BY <2>1, CreditKept, BillingAssumption DEF RecordCashPayment, OpenStatus
  <2>2. ASSUME NEW p \in Payment, NEW b \in Bill, NEW ok \in BOOLEAN,
               CreateRazorpayOrder(p, b, ok)
        PROVE  BillsKept
    BY <2>2, UnchangedKept DEF CreateRazorpayOrder
  <2>3. ASSUME NEW p \in Payment, ReportCaptured(p) PROVE BillsKept
    <3>1. /\ payment[p].bill \in Bill /\ bill[payment[p].bill].status # "absent"
          /\ payment[p].amount \in Nat
      BY <2>3 DEF BillingInv, TypeOK, PaymentRecord, PaymentsOfBills, ReportCaptured
    <3>. QED
      BY <2>3, <3>1, CreditKept DEF ReportCaptured
  <2>4. ASSUME NEW p \in Payment, RejectReport(p) PROVE BillsKept
    BY <2>4, UnchangedKept DEF RejectReport
  <2>. QED
    BY <1>3, <2>1, <2>2, <2>3, <2>4, RefundKept DEF PaymentRequests
<1>. QED
  BY <1>1, <1>2, <1>3 DEF Next

\* A bill keeps its number, and a settled or voided one its lines and total,
\* whatever late payment, refund or void comes (record_payment_applied,
\* refund_payment, void_bill, mark_bill_nc).
THEOREM ClosedBillsStay == Spec => ClosedStays
<1>1. BillingInv /\ [Next]_vars =>
        [\A b \in Bill :
           bill[b].status \in {"PAID", "CANCELLED"} =>
             /\ bill'[b].lines = bill[b].lines
             /\ bill'[b].voided = bill[b].voided
             /\ bill'[b].comped = bill[b].comped
             /\ bill'[b].total = bill[b].total
             /\ bill[b].status = "CANCELLED" =>
                  bill'[b].status = "CANCELLED" /\ bill'[b].invoice = bill[b].invoice]_vars
  BY StepKept DEF BillsKept, Kept
<1>. QED
  BY <1>1, RegisterImplemented, BillingInvariant, PTL DEF Spec, ClosedStays, ClosedBillFrozen

-----------------------------------------------------------------------------
(* The money.                                                              *)

LEMMA MoneyTypes ==
  ASSUME BillingInv
  PROVE  /\ Amounts \in [Payment -> Nat] /\ Refunds \in [Payment -> Nat] /\ IsFiniteSet(Payment)
         /\ \A c \in Bill : /\ Taken(c) \in SUBSET Payment /\ PaymentsOf(c) \in SUBSET Payment
                            /\ bill[c].paid \in Nat /\ bill[c].refunded \in Nat
<1>1. Amounts \in [Payment -> Nat] /\ Refunds \in [Payment -> Nat]
  BY DEF BillingInv, TypeOK, PaymentRecord, Amounts, Refunds
<1>2. ASSUME NEW c \in Bill
      PROVE  bill[c].paid \in Nat /\ bill[c].refunded \in Nat
  BY DEF BillingInv, TypeOK, BillRecord
<1>. QED
  BY <1>1, <1>2, BillingAssumption DEF Taken, PaymentsOf

\* No payment changes, and no bill says another amount.
LEMMA SameMoney ==
  ASSUME MoneyInv, payment' = payment,
         \A c \in Bill : bill'[c].paid = bill[c].paid /\ bill'[c].refunded = bill[c].refunded
  PROVE  MoneyInv'
<1>1. /\ Amounts' = Amounts /\ Refunds' = Refunds
      /\ \A c \in Bill : Taken(c)' = Taken(c) /\ PaymentsOf(c)' = PaymentsOf(c)
  BY DEF Amounts, Refunds, Taken, PaymentsOf
<1>2. PaidAgreesWithTakings'
  BY <1>1 DEF MoneyInv, PaidAgreesWithTakings
<1>3. (\A c \in Bill : bill[c].refunded = SumOf(Refunds, PaymentsOf(c)))'
  BY <1>1 DEF MoneyInv
<1>4. (\A q \in Payment : PaymentSound(payment[q]))'
  BY DEF MoneyInv
<1>. QED
  BY <1>2, <1>3, <1>4 DEF MoneyInv

\* What payment q adds to the money taken for its bill.
Counted(q) == IF q.status = "SUCCESS" THEN q.amount ELSE 0

LEMMA Cancels ==
  ASSUME NEW m \in Nat, NEW n \in Nat, NEW k \in Nat, m + k = n + k
  PROVE  m = n
  OBVIOUS

\* Payment p is made, or changes, and bill b is the one it is for: no other
\* bill changes its amounts, and b by what p now counts for.
LEMMA MoneyMoves ==
  ASSUME BillingInv, BillingInv', MoneyInv, NEW p \in Payment, NEW b \in Bill,
         payment'[p].bill = b, payment[p] = NoPayment \/ payment[p].bill = b,
         \A q \in Payment : q # p => payment'[q] = payment[q],
         \A c \in Bill : c # b =>
           bill'[c].paid = bill[c].paid /\ bill'[c].refunded = bill[c].refunded,
         bill'[b].paid + Counted(payment[p]) = bill[b].paid + Counted(payment'[p]),
         bill'[b].refunded + payment[p].refunded = bill[b].refunded + payment'[p].refunded,
         PaymentSound(payment'[p])
  PROVE  MoneyInv'
<1> DEFINE A == Amounts'
           R == Refunds'
           T(c) == Taken(c)'
           P(c) == PaymentsOf(c)'
<1>1. /\ Amounts \in [Payment -> Nat] /\ Refunds \in [Payment -> Nat] /\ IsFiniteSet(Payment)
      /\ \A c \in Bill : /\ Taken(c) \in SUBSET Payment /\ PaymentsOf(c) \in SUBSET Payment
                         /\ bill[c].paid \in Nat /\ bill[c].refunded \in Nat
  BY MoneyTypes
<1>2. /\ payment \in [Payment -> PaymentRecord] /\ payment' \in [Payment -> PaymentRecord]
      /\ bill \in [Bill -> BillRecord] /\ bill' \in [Bill -> BillRecord]
  BY DEF BillingInv, TypeOK
<1>3. A \in [Payment -> Nat] /\ R \in [Payment -> Nat]
  BY <1>2 DEF Amounts, Refunds, PaymentRecord
<1>4. /\ \A q \in Payment : A[q] = payment'[q].amount /\ R[q] = payment'[q].refunded
      /\ \A q \in Payment : Amounts[q] = payment[q].amount /\ Refunds[q] = payment[q].refunded
  BY DEF Amounts, Refunds
<1>5. \A q \in Payment : q # p => Amounts[q] = A[q] /\ Refunds[q] = R[q]
  BY <1>4
<1>6. ASSUME NEW c \in Bill
      PROVE  /\ T(c) \in SUBSET Payment /\ P(c) \in SUBSET Payment
             /\ Taken(c) \ {p} = T(c) \ {p} /\ PaymentsOf(c) \ {p} = P(c) \ {p}
             /\ p \in T(c) <=> c = b /\ payment'[p].status = "SUCCESS"
             /\ p \in P(c) <=> c = b
             /\ p \in Taken(c) <=> payment[p].bill = c /\ payment[p].status = "SUCCESS"
             /\ p \in PaymentsOf(c) <=> payment[p].bill = c
  BY DEF Taken, PaymentsOf
<1>7. payment[p] = NoPayment => payment[p].bill \notin Bill /\ payment[p].status = "absent"
                                  /\ payment[p].refunded = 0
  BY BillingAssumption DEF NoPayment
<1> HIDE DEF A, R, T, P
<1>8. ASSUME NEW f \in [Payment -> Nat], NEW g \in [Payment -> Nat],
             NEW X \in SUBSET Payment, NEW Y \in SUBSET Payment, X \ {p} = Y \ {p},
             \A q \in Payment : q # p => f[q] = g[q]
      PROVE  SumOf(g, Y) + (IF p \in X THEN f[p] ELSE 0)
               = SumOf(f, X) + (IF p \in Y THEN g[p] ELSE 0)
  BY <1>8, <1>1, SumChanges
<1>9. ASSUME NEW c \in Bill
      PROVE  /\ SumOf(A, T(c)) + (IF p \in Taken(c) THEN Amounts[p] ELSE 0)
                  = SumOf(Amounts, Taken(c)) + (IF p \in T(c) THEN A[p] ELSE 0)
             /\ SumOf(R, P(c)) + (IF p \in PaymentsOf(c) THEN Refunds[p] ELSE 0)
                  = SumOf(Refunds, PaymentsOf(c)) + (IF p \in P(c) THEN R[p] ELSE 0)
             /\ SumOf(A, T(c)) \in Nat /\ SumOf(R, P(c)) \in Nat
  <2>1. Taken(c) \in SUBSET Payment /\ PaymentsOf(c) \in SUBSET Payment
    BY <1>1
  <2>2. SumOf(A, T(c)) + (IF p \in Taken(c) THEN Amounts[p] ELSE 0)
          = SumOf(Amounts, Taken(c)) + (IF p \in T(c) THEN A[p] ELSE 0)
    BY <1>8, <1>1, <1>3, <1>5, <1>6, <2>1
  <2>3. SumOf(R, P(c)) + (IF p \in PaymentsOf(c) THEN Refunds[p] ELSE 0)
          = SumOf(Refunds, PaymentsOf(c)) + (IF p \in P(c) THEN R[p] ELSE 0)
    BY <1>8, <1>1, <1>3, <1>5, <1>6, <2>1
  <2>4. SumOf(A, T(c)) \in Nat /\ SumOf(R, P(c)) \in Nat
    BY <1>1, <1>3, <1>6, SumIsNat
  <2>. QED
    BY <2>2, <2>3, <2>4
<1>10. ASSUME NEW c \in Bill
      PROVE  bill[c].paid = SumOf(Amounts, Taken(c)) /\ bill[c].refunded = SumOf(Refunds, PaymentsOf(c))
  BY DEF MoneyInv, PaidAgreesWithTakings
<1>11. ASSUME NEW c \in Bill
       PROVE  bill'[c].paid = SumOf(A, T(c)) /\ bill'[c].refunded = SumOf(R, P(c))
  <2>1. /\ SumOf(A, T(c)) + (IF p \in Taken(c) THEN Amounts[p] ELSE 0)
             = bill[c].paid + (IF p \in T(c) THEN A[p] ELSE 0)
        /\ SumOf(R, P(c)) + (IF p \in PaymentsOf(c) THEN Refunds[p] ELSE 0)
             = bill[c].refunded + (IF p \in P(c) THEN R[p] ELSE 0)
        /\ SumOf(A, T(c)) \in Nat /\ SumOf(R, P(c)) \in Nat
    BY <1>9, <1>10
  <2>2. /\ bill[c].paid \in Nat /\ bill[c].refunded \in Nat
        /\ bill'[c].paid \in Nat /\ bill'[c].refunded \in Nat
    BY <1>2 DEF BillRecord
  <2>3. CASE c # b
    <3>1. payment[p].bill # c
      BY <1>7, <2>3
    <3>2. p \notin Taken(c) /\ p \notin PaymentsOf(c) /\ p \notin T(c) /\ p \notin P(c)
      BY <1>6, <2>3, <3>1
    <3>. QED
      BY <2>1, <2>2, <2>3, <3>2
  <2>4. CASE c = b
    <3>1. /\ (IF p \in Taken(b) THEN Amounts[p] ELSE 0) = Counted(payment[p])
          /\ (IF p \in T(b) THEN A[p] ELSE 0) = Counted(payment'[p])
      BY <1>4, <1>6, <1>7 DEF Counted
    <3>2. /\ (IF p \in PaymentsOf(b) THEN Refunds[p] ELSE 0) = payment[p].refunded
          /\ (IF p \in P(b) THEN R[p] ELSE 0) = payment'[p].refunded
      BY <1>4, <1>6, <1>7
    <3>3. /\ Counted(payment[p]) \in Nat /\ Counted(payment'[p]) \in Nat
          /\ payment[p].refunded \in Nat /\ payment'[p].refunded \in Nat
      BY <1>2 DEF PaymentRecord, Counted
    <3>4. SumOf(A, T(b)) + Counted(payment[p]) = bill[b].paid + Counted(payment'[p])
      BY <2>1, <2>4, <3>1
    <3>5. SumOf(R, P(b)) + payment[p].refunded = bill[b].refunded + payment'[p].refunded
      BY <2>1, <2>4, <3>2
    <3>6. bill'[b].paid = SumOf(A, T(b))
      <4>1. bill'[b].paid + Counted(payment[p]) = SumOf(A, T(b)) + Counted(payment[p])
        BY <3>4
      <4>2. bill'[b].paid \in Nat /\ SumOf(A, T(b)) \in Nat
        BY <2>1, <2>2, <2>4
      <4>. QED
        BY <3>3, <4>1, <4>2, Cancels
    <3>7. bill'[b].refunded = SumOf(R, P(b))
      <4>1. bill'[b].refunded + payment[p].refunded = SumOf(R, P(b)) + payment[p].refunded
        BY <3>5
      <4>2. bill'[b].refunded \in Nat /\ SumOf(R, P(b)) \in Nat
        BY <2>1, <2>2, <2>4
      <4>. QED
        BY <3>3, <4>1, <4>2, Cancels
    <3>. QED
      BY <2>4, <3>6, <3>7
  <2>. QED
    BY <2>3, <2>4
<1>12. PaidAgreesWithTakings' /\ (\A c \in Bill : bill[c].refunded = SumOf(Refunds, PaymentsOf(c)))'
  BY <1>11 DEF PaidAgreesWithTakings, A, R, T, P
<1>13. (\A q \in Payment : PaymentSound(payment[q]))'
  BY DEF MoneyInv
<1>. QED
  BY <1>12, <1>13 DEF MoneyInv

LEMMA BillRequestsMoney == BillingInv /\ MoneyInv /\ BillRequests => MoneyInv'
  BY BillRequestsKeep, SameMoney DEF SameFigures, SameAmounts

LEMMA OrderRequestsMoney == BillingInv /\ BillingInv' /\ MoneyInv /\ OrderRequests => MoneyInv'
<1> SUFFICES ASSUME BillingInv, BillingInv', MoneyInv, OrderRequests PROVE MoneyInv'
  OBVIOUS
<1>1. ASSUME NEW o \in Order, PlaceOrder(o) \/ CancelOrder(o)
      PROVE  MoneyInv'
  BY <1>1, SameMoney DEF PlaceOrder, CancelOrder
<1>2. ASSUME NEW o \in Order, NEW b \in Bill, NEW p \in Payment, NEW ok \in BOOLEAN,
             Checkout(o, b, p, ok)
      PROVE  MoneyInv'
  <2>1. PICK c \in FlatCharges :
          /\ StoreRecomputed(b, [NoBill EXCEPT !.status = "OPEN", !.lines = {o}, !.charge = c])
          /\ payment' = [payment EXCEPT ![p] =
               [status |-> IF ok THEN "PENDING" ELSE "FAILED", bill |-> b,
                online |-> TRUE, ordered |-> ok,
                amount |-> GrandTotal([NoBill EXCEPT !.status = "OPEN", !.lines = {o}, !.charge = c]),
                refunded |-> 0]]
    BY <1>2 DEF Checkout
  <2> DEFINE r == [NoBill EXCEPT !.status = "OPEN", !.lines = {o}, !.charge = c]
  <2>2. r \in BillRecord /\ r.paid = 0 /\ r.refunded = 0
    BY BillingAssumption DEF NoBill, BillRecord, BillStatus, OpenStatus
  <2>3. GrandTotal(r) \in Nat
    BY <2>2, TotalIsNat
  <2> DEFINE q == [status |-> IF ok THEN "PENDING" ELSE "FAILED", bill |-> b,
                   online |-> TRUE, ordered |-> ok, amount |-> GrandTotal(r), refunded |-> 0]
  <2>4. StoreRecomputed(b, r) /\ payment' = [payment EXCEPT ![p] = q]
    BY <2>1
  <2> HIDE DEF r
  <2>5. /\ q.status \in {"PENDING", "FAILED"} /\ q.bill = b /\ q.refunded = 0 /\ q.amount \in Nat
        /\ Counted(q) = 0 /\ PaymentSound(q)
    BY <2>3 DEF Counted, PaymentSound
  <2> HIDE DEF q
  <2>6. payment'[p] = q /\ \A x \in Payment : x # p => payment'[x] = payment[x]
    BY <2>4 DEF BillingInv, TypeOK
  <2>7. /\ bill'[b].paid = 0 /\ bill'[b].refunded = 0
        /\ \A x \in Bill : x # b => bill'[x] = bill[x]
    BY <2>2, <2>4, StoredFigures DEF SameAmounts
  <2>8. bill[b].paid = 0 /\ bill[b].refunded = 0
    BY <1>2 DEF Checkout, BillingInv, BillsSound, BillSound
  <2>9. payment[p] = NoPayment /\ Counted(payment[p]) = 0 /\ payment[p].refunded = 0
    BY <1>2 DEF Checkout, MoneyInv, PaymentSound, Counted, NoPayment
  <2>. QED
    BY <2>5, <2>6, <2>7, <2>8, <2>9, MoneyMoves
<1>. QED
  BY <1>1, <1>2 DEF OrderRequests

LEMMA PaymentRequestsMoney == BillingInv /\ BillingInv' /\ MoneyInv /\ PaymentRequests => MoneyInv'
<1> SUFFICES ASSUME BillingInv, BillingInv', MoneyInv, NEW p \in Payment,
               \/ \E b \in Bill, amount \in CashAmounts : RecordCashPayment(p, b, amount)
               \/ \E b \in Bill, ok \in BOOLEAN : CreateRazorpayOrder(p, b, ok)
               \/ ReportCaptured(p)
               \/ RejectReport(p)
               \/ \E amount \in 1 .. payment[p].amount : RefundPayment(p, amount)
             PROVE MoneyInv'
  BY DEF PaymentRequests
<1>1. /\ payment \in [Payment -> PaymentRecord] /\ payment[p] \in PaymentRecord
      /\ bill \in [Bill -> BillRecord]
      /\ payment[p].amount \in Nat /\ payment[p].refunded \in Nat /\ PaymentSound(payment[p])
      /\ \A c \in Bill : bill[c].paid \in Nat /\ bill[c].refunded \in Nat
  BY DEF BillingInv, TypeOK, PaymentRecord, BillRecord, MoneyInv
<1>2. payment[p].status = "absent" =>
        payment[p] = NoPayment /\ Counted(payment[p]) = 0 /\ payment[p].refunded = 0
  BY <1>1 DEF PaymentSound, Counted, NoPayment
<1>3. ASSUME NEW b \in Bill, NEW amount \in CashAmounts, RecordCashPayment(p, b, amount)
      PROVE  MoneyInv'
  <2> DEFINE q == [status |-> "SUCCESS", bill |-> b, online |-> FALSE, ordered |-> FALSE,
                   amount |-> amount, refunded |-> 0]
  <2>1. amount \in Nat /\ payment[p].status = "absent" /\ Credit(b, amount)
    BY <1>3, BillingAssumption DEF RecordCashPayment
  <2>2. payment' = [payment EXCEPT ![p] = q]
    BY <1>3 DEF RecordCashPayment
  <2>3. q.bill = b /\ q.refunded = 0 /\ Counted(q) = amount /\ PaymentSound(q)
    BY <2>1 DEF Counted, PaymentSound
  <2> HIDE DEF q
  <2>4. payment'[p] = q /\ \A x \in Payment : x # p => payment'[x] = payment[x]
    BY <1>1, <2>2
  <2>5. /\ bill'[b].paid = bill[b].paid + amount /\ bill'[b].refunded = bill[b].refunded
        /\ \A c \in Bill : c # b => bill'[c] = bill[c]
    BY <2>1, CreditFigures
  <2>6. /\ bill'[b].paid + Counted(payment[p]) = bill[b].paid + Counted(payment'[p])
        /\ bill'[b].refunded + payment[p].refunded = bill[b].refunded + payment'[p].refunded
    BY <1>1, <1>2, <2>1, <2>3, <2>4, <2>5
  <2>. QED
    BY <1>2, <2>1, <2>3, <2>4, <2>5, <2>6, MoneyMoves
<1>4. ASSUME NEW b \in Bill, NEW ok \in BOOLEAN, CreateRazorpayOrder(p, b, ok)
      PROVE  MoneyInv'
  <2> DEFINE q == [status |-> IF ok THEN "PENDING" ELSE "FAILED", bill |-> b,
                   online |-> TRUE, ordered |-> ok,
                   amount |-> bill[b].total - bill[b].paid, refunded |-> 0]
  <2>1. payment[p].status = "absent" /\ bill' = bill /\ payment' = [payment EXCEPT ![p] = q]
    BY <1>4 DEF CreateRazorpayOrder
  <2>2. bill[b].total - bill[b].paid \in Nat
    BY <1>1, <1>4 DEF CreateRazorpayOrder, BillRecord
  <2>3. q.bill = b /\ q.refunded = 0 /\ Counted(q) = 0 /\ PaymentSound(q)
    BY <2>2 DEF Counted, PaymentSound
  <2> HIDE DEF q
  <2>4. payment'[p] = q /\ \A x \in Payment : x # p => payment'[x] = payment[x]
    BY <1>1, <2>1
  <2>. QED
    BY <1>2, <2>1, <2>3, <2>4, MoneyMoves
<1>5. CASE ReportCaptured(p)
  <2> DEFINE b == payment[p].bill
             q == [payment[p] EXCEPT !.status = "SUCCESS"]
  <2>1. b \in Bill /\ payment[p].status # "SUCCESS" /\ Credit(b, payment[p].amount)
    BY <1>5 DEF ReportCaptured, BillingInv, PaymentsOfBills
  <2>2. payment' = [payment EXCEPT ![p] = q]
    BY <1>5 DEF ReportCaptured
  <2>3. /\ q.bill = b /\ q.refunded = payment[p].refunded
        /\ q.amount = payment[p].amount /\ q.status = "SUCCESS"
    BY <1>1 DEF PaymentRecord
  <2> HIDE DEF q
  <2>4. Counted(q) = payment[p].amount /\ Counted(payment[p]) = 0 /\ PaymentSound(q)
    BY <1>1, <2>1, <2>3 DEF Counted, PaymentSound
  <2>5. payment'[p] = q /\ \A x \in Payment : x # p => payment'[x] = payment[x]
    BY <1>1, <2>2
  <2> HIDE DEF b
  <2>6. /\ bill'[b].paid = bill[b].paid + payment[p].amount /\ bill'[b].refunded = bill[b].refunded
        /\ \A c \in Bill : c # b => bill'[c] = bill[c]
    BY <1>1, <2>1, CreditFigures
  <2>7. /\ bill'[b].paid + Counted(payment[p]) = bill[b].paid + Counted(payment'[p])
        /\ bill'[b].refunded + payment[p].refunded = bill[b].refunded + payment'[p].refunded
    BY <1>1, <2>1, <2>3, <2>4, <2>5, <2>6
  <2>. QED
    BY <2>1, <2>3, <2>4, <2>5, <2>6, <2>7, MoneyMoves DEF b
<1>6. CASE RejectReport(p)
  <2> DEFINE b == payment[p].bill
             q == [payment[p] EXCEPT !.status = "FAILED"]
  <2>1. /\ b \in Bill /\ payment[p].status # "SUCCESS" /\ bill' = bill
        /\ payment' = [payment EXCEPT ![p] = q]
    BY <1>6 DEF RejectReport, BillingInv, PaymentsOfBills
  <2>2. /\ q.bill = b /\ q.refunded = payment[p].refunded
        /\ q.amount = payment[p].amount /\ q.status = "FAILED"
    BY <1>1 DEF PaymentRecord
  <2> HIDE DEF q
  <2>3. Counted(q) = 0 /\ Counted(payment[p]) = 0 /\ PaymentSound(q)
    BY <1>1, <2>1, <2>2 DEF Counted, PaymentSound
  <2>4. payment'[p] = q /\ \A x \in Payment : x # p => payment'[x] = payment[x]
    BY <1>1, <2>1
  <2>. QED
    BY <2>1, <2>2, <2>3, <2>4, MoneyMoves
<1>7. ASSUME NEW amount \in 1 .. payment[p].amount, RefundPayment(p, amount)
      PROVE  MoneyInv'
  <2> DEFINE b == payment[p].bill
             q == [payment[p] EXCEPT !.refunded = @ + amount]
  <2>1. b \in Bill /\ payment[p].status = "SUCCESS" /\ amount <= payment[p].amount - payment[p].refunded
    BY <1>7 DEF RefundPayment, Refundable, BillingInv, PaymentsOfBills
  <2>2. /\ payment' = [payment EXCEPT ![p] = q]
        /\ bill' = [bill EXCEPT ![b] = [bill[b] EXCEPT !.refunded = @ + amount]]
    BY <1>7 DEF RefundPayment
  <2>3. /\ q.bill = b /\ q.refunded = payment[p].refunded + amount
        /\ q.amount = payment[p].amount /\ q.status = "SUCCESS"
    BY <1>1, <2>1 DEF PaymentRecord
  <2> HIDE DEF q
  <2>4. Counted(q) = Counted(payment[p]) /\ PaymentSound(q)
    BY <1>1, <2>1, <2>3 DEF Counted, PaymentSound
  <2>5. payment'[p] = q /\ \A x \in Payment : x # p => payment'[x] = payment[x]
    BY <1>1, <2>2
  <2>6. bill[b] \in BillRecord
    BY <1>1, <2>1
  <2>7. /\ bill'[b].paid = bill[b].paid /\ bill'[b].refunded = bill[b].refunded + amount
        /\ \A c \in Bill : c # b => bill'[c] = bill[c]
    BY <1>1, <2>1, <2>2, <2>6 DEF BillRecord
  <2> HIDE DEF b
  <2>8. /\ bill'[b].paid + Counted(payment[p]) = bill[b].paid + Counted(payment'[p])
        /\ bill'[b].refunded + payment[p].refunded = bill[b].refunded + payment'[p].refunded
    BY <1>1, <2>1, <2>3, <2>4, <2>5, <2>7
  <2>. QED
    BY <2>1, <2>3, <2>4, <2>5, <2>7, <2>8, MoneyMoves DEF b
<1>. QED
  BY <1>3, <1>4, <1>5, <1>6, <1>7

LEMMA InitMoney == Init => MoneyInv
<1> SUFFICES ASSUME Init PROVE MoneyInv
  OBVIOUS
<1>1. /\ \A p \in Payment : payment[p] = NoPayment
      /\ \A b \in Bill : bill[b].paid = 0 /\ bill[b].refunded = 0
  BY DEF Init, NoBill
<1>2. \A b \in Bill : PaymentsOf(b) = {} /\ Taken(b) = {}
  BY <1>1, BillingAssumption DEF PaymentsOf, Taken, NoPayment
<1>3. SumOf(Amounts, {}) = 0 /\ SumOf(Refunds, {}) = 0
  BY SumEmpty
<1>4. \A p \in Payment : PaymentSound(payment[p])
  <2>1. PaymentSound(NoPayment)
    <3>1. NoPayment.refunded = 0 /\ NoPayment.amount = 0
      BY DEF NoPayment
    <3>. QED
      BY <3>1 DEF PaymentSound
  <2>. QED
    BY <1>1, <2>1
<1>. QED
  BY <1>1, <1>2, <1>3, <1>4 DEF MoneyInv, PaidAgreesWithTakings

\* A payment that was not taken has nothing handed back, so that a bill's
\* refunds are at most what was taken for it.
LEMMA RefundsWithinPaid ==
  ASSUME BillingInv, MoneyInv, NEW b \in Bill
  PROVE  bill[b].refunded <= bill[b].paid
<1>1. /\ Amounts \in [Payment -> Nat] /\ Refunds \in [Payment -> Nat] /\ IsFiniteSet(Payment)
      /\ Taken(b) \in SUBSET Payment /\ PaymentsOf(b) \in SUBSET Payment
  BY MoneyTypes
<1>2. /\ \A p \in Payment : Refunds[p] <= Amounts[p]
      /\ \A p \in PaymentsOf(b) \ Taken(b) : Refunds[p] = 0
  BY DEF MoneyInv, PaymentSound, Refunds, Amounts, Taken, PaymentsOf
<1>3. SumOf(Refunds, PaymentsOf(b)) = SumOf(Refunds, Taken(b))
  <2>1. Refunds \in [Payment -> Nat] /\ Taken(b) \subseteq PaymentsOf(b)
    BY <1>1 DEF Taken
  <2> DEFINE f == [p \in PaymentsOf(b) |-> Refunds[p]]
  <2>2. /\ f \in [PaymentsOf(b) -> Nat] /\ IsFiniteSet(PaymentsOf(b)) /\ IsFiniteSet(Taken(b))
        /\ \A p \in PaymentsOf(b) : f[p] = Refunds[p]
    BY <1>1, <2>1, FS_Subset
  <2> HIDE DEF f
  <2>3. SumOf(f, PaymentsOf(b)) = SumOf(Refunds, PaymentsOf(b))
    BY <2>2, SumSame
  <2>4. SumOf(f, Taken(b)) = SumOf(Refunds, Taken(b))
    BY <2>1, <2>2, SumSame
  <2>5. SumOf(f, PaymentsOf(b)) = SumOf(f, Taken(b))
    BY <1>2, <2>1, <2>2, SumOver
  <2>. QED
    BY <2>3, <2>4, <2>5
<1>4. SumOf(Refunds, Taken(b)) <= SumOf(Amounts, Taken(b))
  BY <1>1, <1>2, SumMonotone
<1>. QED
  BY <1>3, <1>4 DEF MoneyInv, PaidAgreesWithTakings

LEMMA NextMoney == BillingInv /\ BillingInv' /\ MoneyInv /\ [Next]_vars => MoneyInv'
<1>1. MoneyInv /\ UNCHANGED vars => MoneyInv'
  BY SameMoney DEF vars
<1>. QED
  BY <1>1, OrderRequestsMoney, BillRequestsMoney, PaymentRequestsMoney DEF Next

\* amount_paid of every bill is what its successful payments brought in, and
\* amount_refunded what they gave back, never more than was taken, however
\* reports, edits, voids and refunds follow each other (record_payment_applied,
\* refund_payment).
THEOREM TakingsAgree == Spec => []TakingsInv
<1>1. BillingInv /\ MoneyInv => TakingsInv
  <2> SUFFICES ASSUME BillingInv, MoneyInv PROVE TakingsInv
    OBVIOUS
  <2>1. RefundsBounded
    BY RefundsWithinPaid DEF RefundsBounded, MoneyInv, PaymentSound, PaymentsOf
  <2>. QED
    BY <2>1 DEF TakingsInv, MoneyInv
<1>. QED
  BY <1>1, InitMoney, NextMoney, BillingInvariant, PTL DEF Spec

-----------------------------------------------------------------------------
(* The ledger.                                                             *)

Voided(b) == bill[b].status = "CANCELLED"

\* A request that is not about a payment voids one bill, or none.
LEMMA OnlyVoids ==
  ASSUME BillingInv, OrderRequests \/ BillRequests
  PROVE  \/ \A c \in Bill : Voided(c)' = Voided(c)
         \/ \E b \in Bill : /\ ~Voided(b) /\ Voided(b)'
                            /\ \A c \in Bill : c # b => Voided(c)' = Voided(c)
<1> USE DEF Voided
<1>0. bill \in [Bill -> BillRecord]
  BY DEF BillingInv, TypeOK
<1>1. ASSUME NEW b \in Bill, NEW r \in BillRecord, StoreRecomputed(b, r),
             r.status \in OpenStatus, bill[b].status # "CANCELLED"
      PROVE  \A c \in Bill : Voided(c)' = Voided(c)
  BY <1>1, StoredFigures
<1>2. CASE OrderRequests
  <2>1. ASSUME NEW o \in Order, PlaceOrder(o) \/ CancelOrder(o)
        PROVE  bill' = bill
    BY <2>1 DEF PlaceOrder, CancelOrder
  <2>2. ASSUME NEW o \in Order, NEW b \in Bill, NEW p \in Payment, NEW ok \in BOOLEAN,
               Checkout(o, b, p, ok)
        PROVE  \A c \in Bill : Voided(c)' = Voided(c)
    <3>1. PICK f \in FlatCharges :
            StoreRecomputed(b, [NoBill EXCEPT !.status = "OPEN", !.lines = {o}, !.charge = f])
      BY <2>2 DEF Checkout
    <3> DEFINE r == [NoBill EXCEPT !.status = "OPEN", !.lines = {o}, !.charge = f]
    <3>2. r \in BillRecord /\ r.status \in OpenStatus
      BY BillingAssumption DEF NoBill, BillRecord, BillStatus, OpenStatus
    <3>3. StoreRecomputed(b, r) /\ bill[b].status # "CANCELLED"
      BY <2>2, <3>1 DEF Checkout
    <3> HIDE DEF r
    <3>. QED
      BY <1>1, <3>2, <3>3
  <2>. QED
    BY <1>2, <2>1, <2>2 DEF OrderRequests
<1>3. ASSUME NEW b \in Bill, EditsBill(b)
      PROVE  \A c \in Bill : Voided(c)' = Voided(c)
  <2>1. PICK r \in BillRecord : EditedTo(b, r)
    BY <1>3, EditsKeep
  <2>. QED
    BY <1>1, <2>1 DEF EditedTo, OpenStatus
<1>4. ASSUME NEW b \in Bill, VoidBill(b)
      PROVE  /\ ~Voided(b) /\ Voided(b)'
             /\ \A c \in Bill : c # b => Voided(c)' = Voided(c)
  BY <1>0, <1>4 DEF VoidBill, BillRecord
<1>5. ASSUME NEW b \in Bill, MarkBillNc(b)
      PROVE  \A c \in Bill : Voided(c)' = Voided(c)
  <2> DEFINE r == [bill[b] EXCEPT !.nc = TRUE,
                                  !.comped = @ \cup (bill[b].lines \ bill[b].voided)]
             s == [r EXCEPT !.total = GrandTotal(r), !.status = "PAID"]
  <2>1. bill' = [bill EXCEPT ![b] = s] /\ bill[b].status # "CANCELLED"
    BY <1>5 DEF MarkBillNc
  <2>2. s.status = "PAID"
    BY <1>0 DEF BillRecord
  <2> HIDE DEF s
  <2>. QED
    BY <1>0, <2>1, <2>2
<1>. QED
  BY <1>2, <1>3, <1>4, <1>5 DEF BillRequests, EditsBill

\* The books of a payment or a bill that does not change.
LEMMA SameEntry ==
  ASSUME NEW p \in Payment,
         \/ payment'[p] = payment[p]
         \/ payment[p].status # "SUCCESS" /\ payment'[p].status # "SUCCESS"
  PROVE  Entries'[p] = Entries[p]
  BY DEF Entries

LEMMA SameBook ==
  ASSUME NEW b \in Bill, bill'[b].paid = bill[b].paid, bill'[b].refunded = bill[b].refunded,
         Voided(b)' = Voided(b)
  PROVE  Books'[b] = Books[b]
  BY DEF Books, Voided

LEMMA BooksAreFunctions ==
  /\ Entries = [p \in Payment |-> Entries[p]] /\ Entries' = [p \in Payment |-> Entries'[p]]
  /\ Books = [b \in Bill |-> Books[b]] /\ Books' = [b \in Bill |-> Books'[b]]
  BY DEF Entries, Books

LEMMA LeftAlone ==
  ASSUME \A p \in Payment : Entries'[p] = Entries[p], \A b \in Bill : Books'[b] = Books[b]
  PROVE  UNCHANGED Ledger!vars
  BY BooksAreFunctions DEF Ledger!vars

\* A request that is not about a payment enters no money.
LEMMA NothingEntered ==
  ASSUME BillingInv, MoneyInv, OrderRequests \/ BillRequests
  PROVE  /\ \A b \in Bill : bill'[b].paid = bill[b].paid /\ bill'[b].refunded = bill[b].refunded
         /\ \A p \in Payment : Entries'[p] = Entries[p]
<1>1. CASE BillRequests
  <2>1. SameFigures /\ payment' = payment
    BY <1>1, BillRequestsKeep
  <2>. QED
    BY <2>1, SameEntry DEF SameFigures, SameAmounts
<1>2. ASSUME NEW o \in Order, PlaceOrder(o) \/ CancelOrder(o)
      PROVE  bill' = bill /\ payment' = payment
  BY <1>2 DEF PlaceOrder, CancelOrder
<1>3. ASSUME NEW o \in Order, NEW b \in Bill, NEW p \in Payment, NEW ok \in BOOLEAN,
             Checkout(o, b, p, ok)
      PROVE  /\ \A c \in Bill : bill'[c].paid = bill[c].paid /\ bill'[c].refunded = bill[c].refunded
             /\ \A x \in Payment : Entries'[x] = Entries[x]
  <2>1. PICK f \in FlatCharges :
          /\ StoreRecomputed(b, [NoBill EXCEPT !.status = "OPEN", !.lines = {o}, !.charge = f])
          /\ payment' = [payment EXCEPT ![p] =
               [status |-> IF ok THEN "PENDING" ELSE "FAILED", bill |-> b,
                online |-> TRUE, ordered |-> ok,
                amount |->
                  GrandTotal([NoBill EXCEPT !.status = "OPEN", !.lines = {o}, !.charge = f]),
                refunded |-> 0]]
    BY <1>3 DEF Checkout
  <2> DEFINE r == [NoBill EXCEPT !.status = "OPEN", !.lines = {o}, !.charge = f]
             q == [status |-> IF ok THEN "PENDING" ELSE "FAILED", bill |-> b,
                   online |-> TRUE, ordered |-> ok, amount |-> GrandTotal(r), refunded |-> 0]
  <2>2. r \in BillRecord /\ r.paid = 0 /\ r.refunded = 0
    BY BillingAssumption DEF NoBill, BillRecord, BillStatus, OpenStatus
  <2>3. StoreRecomputed(b, r) /\ payment' = [payment EXCEPT ![p] = q] /\ q.status # "SUCCESS"
    BY <2>1
  <2> HIDE DEF r, q
  <2>4. /\ bill'[b].paid = 0 /\ bill'[b].refunded = 0
        /\ \A c \in Bill : c # b => bill'[c] = bill[c]
    BY <2>2, <2>3, StoredFigures DEF SameAmounts
  <2>5. bill[b].paid = 0 /\ bill[b].refunded = 0 /\ payment[p].status # "SUCCESS"
    BY <1>3 DEF Checkout, BillingInv, BillsSound, BillSound
  <2>6. payment'[p] = q /\ \A x \in Payment : x # p => payment'[x] = payment[x]
    BY <2>3 DEF BillingInv, TypeOK
  <2>7. \A c \in Bill : bill'[c].paid = bill[c].paid /\ bill'[c].refunded = bill[c].refunded
    BY <2>4, <2>5
  <2>8. \A x \in Payment : Entries'[x] = Entries[x]
    BY <2>3, <2>5, <2>6, SameEntry
  <2>. QED
    BY <2>7, <2>8
<1>. QED
  BY <1>1, <1>2, <1>3, SameEntry DEF OrderRequests

\* It voids a bill in the ledger, or leaves the ledger alone.
LEMMA OthersEntered ==
  ASSUME BillingInv, MoneyInv, OrderRequests \/ BillRequests
  PROVE  [Ledger!Next]_(Ledger!vars)
<1>1. /\ \A b \in Bill : bill'[b].paid = bill[b].paid /\ bill'[b].refunded = bill[b].refunded
      /\ \A p \in Payment : Entries'[p] = Entries[p]
  BY NothingEntered
<1>2. CASE \A b \in Bill : Voided(b)' = Voided(b)
  BY <1>1, <1>2, SameBook, LeftAlone
<1>3. ASSUME NEW b \in Bill, ~Voided(b), Voided(b)',
             \A c \in Bill : c # b => Voided(c)' = Voided(c)
      PROVE  Ledger!Void(b)
  <2>1. \A c \in Bill : c # b => Books'[c] = Books[c]
    BY <1>1, <1>3, SameBook
  <2>2. Books'[b] = [paid |-> bill[b].paid, refunded |-> bill[b].refunded, void |-> TRUE]
    <3>1. (bill'[b].status = "CANCELLED") = TRUE
      BY <1>3 DEF Voided
    <3>. QED
      BY <1>1, <3>1 DEF Books
  <2>3. ASSUME NEW v PROVE [Books[b] EXCEPT !.void = v]
                             = [paid |-> bill[b].paid, refunded |-> bill[b].refunded, void |-> v]
    BY DEF Books
  <2>4. Books'[b] = [Books[b] EXCEPT !.void = TRUE]
    BY <2>2, <2>3
  <2>5. Books' = [Books EXCEPT ![b].void = TRUE]
    BY <2>1, <2>4, BooksAreFunctions
  <2>6. ~Books[b].void
    BY <1>3 DEF Books, Voided
  <2>7. Entries' = Entries
    BY <1>1, BooksAreFunctions
  <2>. QED
    BY <2>5, <2>6, <2>7 DEF Ledger!Void
<1>. QED
  BY <1>2, <1>3, OnlyVoids DEF Ledger!Next

\* Payment p is taken in for bill b.
LEMMA TakeEntered ==
  ASSUME BillingInv, MoneyInv, NEW p \in Payment, NEW b \in Bill, NEW n \in Nat,
         payment[p].status # "SUCCESS", payment'[p].status = "SUCCESS",
         payment'[p].bill = b, payment'[p].amount = n, payment'[p].refunded = 0,
         \A q \in Payment : q # p => payment'[q] = payment[q], Credit(b, n)
  PROVE  Ledger!Next
<1>1. /\ Entries[p] = NoEntry
      /\ Entries'[p] = [bill |-> b, amount |-> n, back |-> 0]
      /\ \A q \in Payment : q # p => Entries'[q] = Entries[q]
  BY DEF Entries
<1>2. Entries'
        = [Entries EXCEPT ![p] = [bill |-> b, amount |-> n, back |-> 0]]
  BY <1>1, BooksAreFunctions
<1>3. /\ bill'[b].paid = bill[b].paid + n /\ bill'[b].refunded = bill[b].refunded
      /\ bill'[b].status = "CANCELLED" <=> bill[b].status = "CANCELLED"
      /\ \A c \in Bill : c # b => bill'[c] = bill[c]
  BY CreditFigures
<1>4. Books'[b] = [Books[b] EXCEPT !.paid = @ + n]
  BY <1>3 DEF Books
<1>5. \A c \in Bill : c # b => Books'[c] = Books[c]
  BY <1>3 DEF Books
<1>6. Books' = [Books EXCEPT ![b].paid = @ + n]
  BY <1>4, <1>5, BooksAreFunctions
<1>7. Ledger!Take(p, b, n)
  BY <1>1, <1>2, <1>6 DEF Ledger!Take
<1>8. Entries'[p].amount = n
  BY <1>1
<1>. QED
  BY <1>7, <1>8 DEF Ledger!Next

\* Part of payment p is handed back.
LEMMA RefundEntered ==
  ASSUME BillingInv, MoneyInv, NEW p \in Payment, NEW n \in Nat, RefundPayment(p, n)
  PROVE  Ledger!Next
<1>1. PICK b \in Bill, a \in Nat, back \in Nat :
        b = payment[p].bill /\ a = payment[p].amount /\ back = payment[p].refunded
  BY DEF RefundPayment, BillingInv, TypeOK, PaymentRecord, PaymentsOfBills
<1>2. /\ bill \in [Bill -> BillRecord] /\ payment \in [Payment -> PaymentRecord]
      /\ bill[b] \in BillRecord /\ payment[p] \in PaymentRecord
  BY DEF BillingInv, TypeOK
<1>3. /\ payment[p].status = "SUCCESS" /\ back + n <= a
      /\ payment' = [payment EXCEPT ![p] = [payment[p] EXCEPT !.refunded = @ + n]]
      /\ bill' = [bill EXCEPT ![b] = [bill[b] EXCEPT !.refunded = @ + n]]
  BY <1>1 DEF RefundPayment, Refundable
<1>4. /\ payment'[p].status = "SUCCESS" /\ payment'[p].bill = b /\ payment'[p].amount = a
      /\ payment'[p].refunded = back + n
      /\ \A q \in Payment : q # p => payment'[q] = payment[q]
  BY <1>1, <1>2, <1>3 DEF PaymentRecord
<1>5. /\ bill'[b].paid = bill[b].paid /\ bill'[b].refunded = bill[b].refunded + n
      /\ bill'[b].status = bill[b].status
      /\ \A c \in Bill : c # b => bill'[c] = bill[c]
  BY <1>2, <1>3 DEF BillRecord
<1>6. /\ Entries[p] = [bill |-> b, amount |-> a, back |-> back]
      /\ Entries'[p] = [bill |-> b, amount |-> a, back |-> back + n]
      /\ \A q \in Payment : q # p => Entries'[q] = Entries[q]
  BY <1>1, <1>3, <1>4 DEF Entries
<1>7. Entries'[p] = [Entries[p] EXCEPT !.back = @ + n]
  BY <1>6
<1>8. Entries' = [Entries EXCEPT ![p].back = @ + n]
  BY <1>6, <1>7, BooksAreFunctions
<1>9. Books'[b] = [Books[b] EXCEPT !.refunded = @ + n]
  BY <1>5 DEF Books
<1>10. \A c \in Bill : c # b => Books'[c] = Books[c]
  BY <1>5 DEF Books
<1>11. Books' = [Books EXCEPT ![b].refunded = @ + n]
  BY <1>9, <1>10, BooksAreFunctions
<1>12. /\ Entries[p].bill = b /\ Entries[p].back = back /\ Entries[p].amount = a /\ Entries[p] # NoEntry
  BY <1>6, BillingAssumption DEF NoEntry
<1>13. Ledger!GiveBack(p, n)
  BY <1>3, <1>8, <1>11, <1>12 DEF Ledger!GiveBack
<1>14. Entries'[p].back - Entries[p].back = n
  BY <1>6
<1>. QED
  BY <1>13, <1>14 DEF Ledger!Next

LEMMA PaymentsEntered ==
  ASSUME BillingInv, MoneyInv, PaymentRequests
  PROVE  [Ledger!Next]_(Ledger!vars)
<1>1. /\ payment \in [Payment -> PaymentRecord] /\ \A q \in Payment : PaymentSound(payment[q])
      /\ \A q \in Payment : payment[q].amount \in Nat
  BY DEF BillingInv, TypeOK, PaymentRecord, MoneyInv
<1>2. ASSUME NEW p \in Payment, NEW b \in Bill, NEW n \in CashAmounts, RecordCashPayment(p, b, n)
      PROVE  Ledger!Next
  <2> DEFINE q == [status |-> "SUCCESS", bill |-> b, online |-> FALSE, ordered |-> FALSE,
                   amount |-> n, refunded |-> 0]
  <2>1. /\ n \in Nat /\ payment[p].status # "SUCCESS" /\ Credit(b, n)
        /\ payment' = [payment EXCEPT ![p] = q]
    BY <1>2, BillingAssumption DEF RecordCashPayment
  <2>2. q.status = "SUCCESS" /\ q.bill = b /\ q.amount = n /\ q.refunded = 0
    OBVIOUS
  <2> HIDE DEF q
  <2>3. payment'[p] = q /\ \A x \in Payment : x # p => payment'[x] = payment[x]
    BY <1>1, <2>1
  <2>. QED
    BY <2>1, <2>2, <2>3, TakeEntered
<1>3. ASSUME NEW p \in Payment, ReportCaptured(p)
      PROVE  Ledger!Next
  <2>1. PICK b \in Bill, n \in Nat : b = payment[p].bill /\ n = payment[p].amount
    BY <1>1, <1>3 DEF ReportCaptured, BillingInv, PaymentsOfBills
  <2> DEFINE q == [payment[p] EXCEPT !.status = "SUCCESS"]
  <2>2. /\ payment[p].status # "SUCCESS" /\ Credit(b, n)
        /\ payment' = [payment EXCEPT ![p] = q]
    BY <1>3, <2>1 DEF ReportCaptured
  <2>3. q.status = "SUCCESS" /\ q.bill = b /\ q.amount = n /\ q.refunded = 0
    BY <1>1, <2>1, <2>2 DEF PaymentRecord, PaymentSound
  <2> HIDE DEF q
  <2>4. payment'[p] = q /\ \A x \in Payment : x # p => payment'[x] = payment[x]
    BY <1>1, <2>2
  <2>. QED
    BY <2>2, <2>3, <2>4, TakeEntered
<1>4. ASSUME NEW p \in Payment,
             RejectReport(p) \/ \E b \in Bill, ok \in BOOLEAN : CreateRazorpayOrder(p, b, ok)
      PROVE  UNCHANGED Ledger!vars
  <2>1. /\ bill' = bill /\ payment[p].status # "SUCCESS" /\ payment'[p].status # "SUCCESS"
        /\ \A x \in Payment : x # p => payment'[x] = payment[x]
    BY <1>1, <1>4 DEF RejectReport, CreateRazorpayOrder, PaymentRecord
  <2>2. \A x \in Payment : Entries'[x] = Entries[x]
    BY <2>1, SameEntry
  <2>3. \A c \in Bill : Books'[c] = Books[c]
    BY <2>1 DEF Books
  <2>. QED
    BY <2>2, <2>3, LeftAlone
<1>5. ASSUME NEW p \in Payment, NEW n \in 1 .. payment[p].amount, RefundPayment(p, n)
      PROVE  Ledger!Next
  BY <1>1, <1>5, RefundEntered
<1>. QED
  BY <1>2, <1>3, <1>4, <1>5 DEF PaymentRequests

\* The requests of payment_service and void_bill keep the books of payments and
\* of bills as one ledger: what is taken in or handed back is entered on both
\* sides at once, and a bill is voided for good.
THEOREM LedgerImplemented == Spec => ImplementsLedger
<1>1. Init => Ledger!Init
  <2> SUFFICES ASSUME Init PROVE Ledger!Init
    OBVIOUS
  <2>1. \A p \in Payment : Entries[p] = NoEntry
    BY DEF Init, Entries, NoPayment
  <2>2. \A b \in Bill : Books[b] = [paid |-> 0, refunded |-> 0, void |-> FALSE]
    BY DEF Init, Books, NoBill
  <2>. QED
    BY <2>1, <2>2, BooksAreFunctions DEF Ledger!Init
<1>2. BillingInv /\ MoneyInv /\ [Next]_vars => [Ledger!Next]_(Ledger!vars)
  <2> SUFFICES ASSUME BillingInv, MoneyInv, [Next]_vars PROVE [Ledger!Next]_(Ledger!vars)
    OBVIOUS
  <2>1. CASE UNCHANGED vars
    <3>1. /\ \A p \in Payment : Entries'[p] = Entries[p]
          /\ \A b \in Bill : Books'[b] = Books[b]
      BY <2>1 DEF vars, Entries, Books
    <3>. QED
      BY <3>1, LeftAlone
  <2>. QED
    BY <2>1, OthersEntered, PaymentsEntered DEF Next
<1>. QED
  BY <1>1, <1>2, InitMoney, NextMoney, BillingInvariant, PTL DEF Spec, ImplementsLedger, Ledger!Spec

-----------------------------------------------------------------------------
(* Ordering: the inductive invariant.                                      *)

LineOrNone == {NoLine} \cup [item : Item, n : 1..MaxUnits]

Carts == [Slot -> LineOrNone]

\* The cart is made of lines and holds no more units than the bound.
CartInv == cart \in Carts /\ InCart <= MaxUnits

Statuses == {"open", "ended", "cancelled"}

Views == Statuses \cup {"none", "error"}

\* The counter's location is of its context's kind, a page that is ready has the
\* session of its own location or none, the status page watches some order.
ScreenInv ==
  /\ device \in {"counter", "phone"} /\ ctx \in Context /\ place \in Place \cup {None}
  /\ sheet \in BOOLEAN /\ page \in {"menu", "status", "away"}
  /\ at \in Place \cup {None} /\ code \in BOOLEAN
  /\ link \in {"loading", "ready", "error"} /\ store \in Place \cup {None}
  /\ watched \in 0..Len(orders) /\ view \in Views
  /\ ctx = "DINE_IN" => place \in Table \cup {None}
  /\ ctx = "ROOM_SERVICE" => place \in Room \cup {None}
  /\ link = "ready" => store \in {at, None}
  /\ page = "status" => watched # 0

Tickets == {"cooking", "ready", "over"}

OrderMade == [status : Statuses, kot : Tickets, loc : Place \cup {None}]

Sent(F) == {r \in F : r.state = "sent"}

RequestTyped(r) ==
  r \in [n : {r.n}, panel : {"fixed", "sheet"}, owner : {"mounted", "unmounted", "gone"},
         state : {"sent", "accepted"}, order : 0..Len(orders), units : [Item -> 0..MaxUnits],
         source : Context \cup {"QR"}, valid : BOOLEAN, loc : Place \cup {None},
         from : Place \cup {None}]

RightPlace(r) ==
  CASE r.source = "DINE_IN" -> r.loc \in Table
    [] r.source = "ROOM_SERVICE" -> r.loc \in Room
    [] r.source = "QR" -> r.valid => r.loc = r.from
    [] OTHER -> r.loc = None

\* A request carries the place of its source, an accepted one its order.
GoodRequest(r) ==
  /\ RequestTyped(r) /\ RightPlace(r)
  /\ r.state = "accepted" => r.order # 0

FlightInv ==
  /\ orders \in Seq(OrderMade)
  /\ \A r \in flight : GoodRequest(r)
  /\ IsFiniteSet(flight) /\ Len(orders) + Cardinality(Sent(flight)) <= MaxSend

\* What request r says about the units the user is still owed.
OwedFor(r) ==
  \A i \in Item : /\ r.state = "sent" => owed[i] <= r.units[i]
                  /\ r.state = "accepted" => owed[i] <= 0

\* Nobody is owed more than the cart holds, or than any request still to be
\* answered carries; while nothing was sent twice there is one request at most,
\* and the user is owed what it carries; while every answer was heard the user is
\* owed the cart until the order is accepted.
OwedInv ==
  /\ owed \in [Item -> Int] /\ slip \in {"no", "unheard", "resent", "touched"}
  /\ \A i \in Item : owed[i] <= Units(cart, i)
  /\ \A i \in Item : owed[i] >= -(Len(orders) * MaxUnits)
  /\ \A r \in flight : OwedFor(r)
  /\ slip = "touched" => \A i \in Item : owed[i] = 0
  /\ slip \in {"no", "unheard"} =>
       /\ \A r, q \in flight : r = q
       /\ \A i \in Item : owed[i] >= 0
       /\ \A r \in Sent(flight), i \in Item : owed[i] >= r.units[i]
  /\ slip = "no" =>
       /\ \A r \in flight : r.owner # "gone"
       /\ Sent(flight) = flight => \A i \in Item : owed[i] = Units(cart, i)

OrderingInv == CartInv /\ ScreenInv /\ FlightInv /\ OwedInv

-----------------------------------------------------------------------------
(* What is in a cart.                                                      *)

\* The units of item i in one line.
Of(l, i) == IF l.item = i THEN l.n ELSE 0

LEMMA NoLineIs == NoLine = [item |-> None, n |-> 0] /\ \A i \in Item : Of(NoLine, i) = 0
  BY OrderingBounds DEF NoLine, Of

LEMMA LinesTyped ==
  ASSUME NEW l \in LineOrNone
  PROVE  /\ l.n \in 0..MaxUnits /\ (l # NoLine <=> l.item \in Item) /\ (l # NoLine <=> l.n # 0)
         /\ \A i \in Item : Of(l, i) \in 0..MaxUnits /\ Of(l, i) <= l.n
  BY OrderingBounds DEF LineOrNone, NoLine, Of

LEMMA SlotsFinite == IsFiniteSet(Slot)
  BY OrderingBounds, FS_Interval DEF Slot

LEMMA TotalIsSum ==
  ASSUME NEW f, NEW S PROVE Total(f, S) = SumOf(f, S)
  BY DEF Total, SumOf

\* Units and InCart are sums of naturals over the slots.
LEMMA CartSums ==
  ASSUME NEW c \in Carts, NEW i \in Item
  PROVE  /\ [s \in Slot |-> IF c[s].item = i THEN c[s].n ELSE 0] \in [Slot -> Nat]
         /\ [s \in Slot |-> c[s].n] \in [Slot -> Nat]
         /\ Units(c, i) = SumOf([s \in Slot |-> IF c[s].item = i THEN c[s].n ELSE 0], Slot)
         /\ Units(c, i) \in Nat
<1>1. \A s \in Slot : c[s] \in LineOrNone
  BY DEF Carts
<1>2. \A s \in Slot : c[s].n \in Nat
  BY <1>1, LinesTyped, OrderingBounds
<1> DEFINE f == [s \in Slot |-> IF c[s].item = i THEN c[s].n ELSE 0]
<1>3. f \in [Slot -> Nat] /\ [s \in Slot |-> c[s].n] \in [Slot -> Nat]
  BY <1>2
<1>4. Units(c, i) = SumOf(f, Slot)
  BY TotalIsSum DEF Units
<1>5. SumOf(f, Slot) \in Nat
  <2> HIDE DEF f
  <2>. QED
    BY <1>3, SlotsFinite, SumIsNat
<1>. QED
  BY <1>3, <1>4, <1>5

\* Units of a cart c, all items together.
AllUnits(c) == SumOf([s \in Slot |-> c[s].n], Slot)

LEMMA InCartIs == InCart = AllUnits(cart)
  BY TotalIsSum DEF InCart, AllUnits

LEMMA InCartIsAfter == InCart' = AllUnits(cart')
  BY TotalIsSum DEF InCart, AllUnits

LEMMA AllUnitsIsNat ==
  ASSUME NEW c \in Carts PROVE AllUnits(c) \in Nat
<1> DEFINE f == [s \in Slot |-> c[s].n]
<1>1. \A s \in Slot : c[s] \in LineOrNone
  BY DEF Carts
<1>2. \A s \in Slot : c[s].n \in Nat
  BY <1>1, LinesTyped, OrderingBounds
<1>3. f \in [Slot -> Nat]
  BY <1>2
<1>4. SumOf(f, Slot) \in Nat
  <2> HIDE DEF f
  <2>. QED
    BY <1>3, SlotsFinite, SumIsNat
<1>. QED
  BY <1>4 DEF AllUnits

\* No item has more units than the cart, nor has a line.
LEMMA UnitsWithin ==
  ASSUME NEW c \in Carts, NEW i \in Item, NEW s \in Slot
  PROVE  Units(c, i) <= AllUnits(c) /\ c[s].n <= AllUnits(c) /\ Of(c[s], i) <= Units(c, i)
<1> DEFINE f == [t \in Slot |-> IF c[t].item = i THEN c[t].n ELSE 0]
           g == [t \in Slot |-> c[t].n]
<1>1. f \in [Slot -> Nat] /\ g \in [Slot -> Nat] /\ Units(c, i) = SumOf(f, Slot)
      /\ AllUnits(c) = SumOf(g, Slot)
  BY CartSums DEF AllUnits
<1>2. \A t \in Slot : f[t] <= g[t]
  <2>1. \A t \in Slot : g[t] \in Nat /\ g[t] = c[t].n
    BY <1>1
  <2>. QED
    BY <2>1
<1>3. f[s] = Of(c[s], i) /\ g[s] = c[s].n
  BY DEF Of
<1> HIDE DEF f, g
<1>4. SumOf(f, Slot) <= SumOf(g, Slot)
  BY <1>1, <1>2, SlotsFinite, SumMonotone
<1>5. /\ SumOf(f, Slot) = f[s] + SumOf(f, Slot \ {s})
      /\ SumOf(g, Slot) = g[s] + SumOf(g, Slot \ {s})
      /\ SumOf(f, Slot \ {s}) \in Nat /\ SumOf(g, Slot \ {s}) \in Nat
  BY <1>1, SlotsFinite, SumAdds, SumIsNat
<1>6. f[s] \in Nat /\ g[s] \in Nat
  BY <1>1
<1>. QED
  BY <1>1, <1>3, <1>4, <1>5, <1>6

\* One slot changes.
LEMMA UnitsChange ==
  ASSUME NEW c \in Carts, NEW s \in Slot, NEW l \in LineOrNone, NEW i \in Item
  PROVE  LET d == [c EXCEPT ![s] = l]
         IN  /\ d \in Carts
             /\ Units(d, i) = Units(c, i) - Of(c[s], i) + Of(l, i)
             /\ AllUnits(d) = AllUnits(c) - c[s].n + l.n
<1> DEFINE d == [c EXCEPT ![s] = l]
<1>1. d \in Carts
  BY DEF Carts
<1>2. d[s] = l /\ \A t \in Slot : t # s => d[t] = c[t]
  BY DEF Carts
<1>3. c[s] \in LineOrNone
  BY DEF Carts
<1> HIDE DEF d
<1>4. Of(c[s], i) \in Nat /\ Of(l, i) \in Nat /\ c[s].n \in Nat /\ l.n \in Nat
  BY <1>3, LinesTyped, OrderingBounds
<1>5. Units(d, i) = Units(c, i) - Of(c[s], i) + Of(l, i)
  <2> DEFINE f == [t \in Slot |-> IF c[t].item = i THEN c[t].n ELSE 0]
             g == [t \in Slot |-> IF d[t].item = i THEN d[t].n ELSE 0]
  <2>1. f \in [Slot -> Nat] /\ g \in [Slot -> Nat] /\ Units(c, i) = SumOf(f, Slot)
        /\ Units(d, i) = SumOf(g, Slot) /\ Units(c, i) \in Nat /\ Units(d, i) \in Nat
    BY <1>1, CartSums
  <2>2. f[s] = Of(c[s], i) /\ g[s] = Of(l, i) /\ \A t \in Slot : t # s => f[t] = g[t]
    BY <1>2 DEF Of
  <2> HIDE DEF f, g
  <2>3. SumOf(g, Slot) + f[s] = SumOf(f, Slot) + g[s]
    BY <2>1, <2>2, SlotsFinite, SumChanges
  <2>. QED
    BY <1>4, <2>1, <2>2, <2>3
<1>6. AllUnits(d) = AllUnits(c) - c[s].n + l.n
  <2> DEFINE f == [t \in Slot |-> c[t].n]
             g == [t \in Slot |-> d[t].n]
  <2>1. f \in [Slot -> Nat] /\ g \in [Slot -> Nat] /\ AllUnits(c) = SumOf(f, Slot)
        /\ AllUnits(d) = SumOf(g, Slot) /\ AllUnits(c) \in Nat /\ AllUnits(d) \in Nat
    BY <1>1, CartSums, AllUnitsIsNat DEF AllUnits
  <2>2. f[s] = c[s].n /\ g[s] = l.n /\ \A t \in Slot : t # s => f[t] = g[t]
    BY <1>2
  <2> HIDE DEF f, g
  <2>3. SumOf(g, Slot) + f[s] = SumOf(f, Slot) + g[s]
    BY <2>1, <2>2, SlotsFinite, SumChanges
  <2>. QED
    BY <1>4, <2>1, <2>2, <2>3
<1>. QED
  BY <1>1, <1>5, <1>6 DEF d

LEMMA EmptyUnits ==
  /\ EmptyCart \in Carts /\ AllUnits(EmptyCart) = 0
  /\ \A i \in Item : Units(EmptyCart, i) = 0
<1>1. EmptyCart \in Carts /\ \A s \in Slot : EmptyCart[s] = NoLine
  BY DEF EmptyCart, Carts, LineOrNone
<1>2. ASSUME NEW f \in [Slot -> Nat], \A s \in Slot : f[s] = 0
      PROVE  SumOf(f, Slot) = 0
  BY <1>2, SlotsFinite, SumOver, SumEmpty
<1>3. AllUnits(EmptyCart) = 0
  <2> DEFINE f == [s \in Slot |-> EmptyCart[s].n]
  <2>1. f \in [Slot -> Nat] /\ \A s \in Slot : f[s] = 0
    BY <1>1, NoLineIs
  <2> HIDE DEF f
  <2>2. SumOf(f, Slot) = 0
    BY <1>2, <2>1
  <2>. QED
    BY <2>2 DEF AllUnits, f
<1>4. ASSUME NEW i \in Item
      PROVE  Units(EmptyCart, i) = 0
  <2> DEFINE f == [s \in Slot |-> IF EmptyCart[s].item = i THEN EmptyCart[s].n ELSE 0]
  <2>1. f \in [Slot -> Nat] /\ \A s \in Slot : f[s] = 0
    BY <1>1, NoLineIs
  <2>2. Units(EmptyCart, i) = SumOf(f, Slot)
    BY <1>1, CartSums
  <2> HIDE DEF f
  <2>. QED
    BY <1>2, <2>1, <2>2
<1>. QED
  BY <1>1, <1>3, <1>4

-----------------------------------------------------------------------------
(* What becomes of the requests under way.                                 *)

\* q is r, for whose answer perhaps fewer wait and whose session may have ended.
Alike(q, r) ==
  q \in [n : {r.n}, panel : {r.panel}, owner : {r.owner, "unmounted", "gone"},
         state : {r.state}, order : {r.order}, units : {r.units}, source : {r.source},
         valid : {r.valid, FALSE}, loc : {r.loc}, from : {r.from}]

\* All in F come from requests under way, one from each at most.
Carried(F) == \E f : (\A r \in flight : Alike(f[r], r)) /\ F \subseteq {f[r] : r \in flight}

LEMMA AlikeIs ==
  ASSUME NEW r \in flight, RequestTyped(r), NEW q
  PROVE  /\ Alike(q, r) =>
              /\ q.n = r.n /\ q.panel = r.panel /\ q.state = r.state /\ q.order = r.order
              /\ q.units = r.units /\ q.source = r.source /\ q.loc = r.loc /\ q.from = r.from
              /\ q.valid \in {r.valid, FALSE} /\ q.owner \in {r.owner, "unmounted", "gone"}
         /\ Alike(r, r)
         /\ \A o \in {r.owner, "unmounted", "gone"} : Alike([r EXCEPT !.owner = o], r)
         /\ \A v \in {r.valid, FALSE} : Alike([r EXCEPT !.valid = v], r)
  BY DEF RequestTyped, Alike

\* A request that was good is good as it is carried.
LEMMA AlikeGood ==
  ASSUME NEW r \in flight, GoodRequest(r), NEW q, Alike(q, r)
  PROVE  GoodRequest(q)
<1>1. /\ q.n = r.n /\ q.panel = r.panel /\ q.state = r.state /\ q.order = r.order
      /\ q.units = r.units /\ q.source = r.source /\ q.loc = r.loc /\ q.from = r.from
      /\ q.valid \in {r.valid, FALSE} /\ q.owner \in {r.owner, "unmounted", "gone"}
  BY AlikeIs DEF GoodRequest
<1>2. RequestTyped(q)
  BY DEF Alike, GoodRequest, RequestTyped
<1>3. RightPlace(q)
  BY <1>1 DEF GoodRequest, RightPlace, RequestTyped
<1>. QED
  BY <1>1, <1>2, <1>3 DEF GoodRequest

\* Whatever subset of requests goes on, there are no more of them.
LEMMA NoMore ==
  ASSUME FlightInv, NEW F, Carried(F)
  PROVE  /\ IsFiniteSet(F) /\ Cardinality(Sent(F)) <= Cardinality(Sent(flight))
         /\ Cardinality(Sent(F)) \in Nat /\ Cardinality(Sent(flight)) \in Nat
<1>1. PICK f : (\A r \in flight : Alike(f[r], r)) /\ F \subseteq {f[r] : r \in flight}
  BY DEF Carried
<1>2. \A r \in flight : f[r].state = r.state
  BY <1>1, AlikeIs DEF FlightInv, GoodRequest
<1>3. IsFiniteSet(flight) /\ IsFiniteSet(Sent(flight))
  BY FS_Subset DEF FlightInv, Sent
<1>4. ASSUME NEW S, IsFiniteSet(S)
      PROVE  IsFiniteSet({f[r] : r \in S}) /\ Cardinality({f[r] : r \in S}) <= Cardinality(S)
  <2> DEFINE T == {f[r] : r \in S}
             g == [r \in S |-> f[r]]
  <2>1. g \in Surjection(S, T)
    BY DEF Surjection
  <2> HIDE DEF g, T
  <2>2. IsFiniteSet(T) /\ Cardinality(T) <= Cardinality(S)
    BY <1>4, <2>1, FS_Surjection
  <2>. QED
    BY <2>2 DEF T
<1>5. Sent(F) \subseteq {f[r] : r \in Sent(flight)}
  BY <1>1, <1>2 DEF Sent
<1>6. IsFiniteSet({f[r] : r \in Sent(flight)})
      /\ Cardinality({f[r] : r \in Sent(flight)}) <= Cardinality(Sent(flight))
  BY <1>3, <1>4
<1>7. IsFiniteSet({f[r] : r \in flight})
  BY <1>3, <1>4
<1>8. IsFiniteSet(F) /\ IsFiniteSet(Sent(F))
  BY <1>1, <1>5, <1>6, <1>7, FS_Subset
<1>9. Cardinality(Sent(F)) <= Cardinality({f[r] : r \in Sent(flight)})
  BY <1>5, <1>6, FS_Subset
<1>10. /\ Cardinality(Sent(F)) \in Nat /\ Cardinality(Sent(flight)) \in Nat
       /\ Cardinality({f[r] : r \in Sent(flight)}) \in Nat
  BY <1>3, <1>6, <1>8, FS_CardinalityType
<1>. QED
  BY <1>6, <1>8, <1>9, <1>10

LEMMA CarriedFlight ==
  ASSUME FlightInv, Carried(flight'), orders' = orders
  PROVE  FlightInv'
<1>1. \A r \in flight' : GoodRequest(r)
  <2>1. PICK f : (\A r \in flight : Alike(f[r], r)) /\ flight' \subseteq {f[r] : r \in flight}
    BY DEF Carried
  <2>2. \A r \in flight : GoodRequest(r)
    BY DEF FlightInv
  <2>3. \A r \in flight : GoodRequest(f[r])
    BY <2>1, <2>2, AlikeGood
  <2>. QED
    BY <2>1, <2>3
<1>2. \A r \in flight' : GoodRequest(r)'
  BY <1>1 DEF GoodRequest, RequestTyped, RightPlace
<1>3. Len(orders) \in Nat
  BY DEF FlightInv
<1>4. IsFiniteSet(flight') /\ Len(orders) + Cardinality(Sent(flight')) <= MaxSend
  BY <1>3, NoMore, OrderingBounds DEF FlightInv
<1>. QED
  BY <1>2, <1>4 DEF FlightInv, Sent

\* What is owed does not change with the requests' owners.
LEMMA CarriedOwed ==
  ASSUME FlightInv, OwedInv, Carried(flight'), orders' = orders, owed' = owed,
         \A i \in Item : owed[i] <= Units(cart', i),
         slip' \in {"no", "unheard", "resent", "touched"},
         slip' = "touched" => slip = "touched",
         slip' \in {"no", "unheard"} => slip \in {"no", "unheard"},
         slip' = "no" => /\ \A r \in flight' : r.owner # "gone"
                         /\ Sent(flight') = flight' => \A i \in Item : owed[i] = Units(cart', i)
  PROVE  OwedInv'
<1>1. PICK f : (\A r \in flight : Alike(f[r], r)) /\ flight' \subseteq {f[r] : r \in flight}
  BY DEF Carried
<1>2. \A r \in flight : f[r].state = r.state /\ f[r].units = r.units
  BY <1>1, AlikeIs DEF FlightInv, GoodRequest
<1>3. \A r \in flight' : OwedFor(r)
  BY <1>1, <1>2 DEF OwedInv, OwedFor
<1>4. \A r \in flight' : OwedFor(r)'
  BY <1>3 DEF OwedFor
<1>5. ASSUME slip' \in {"no", "unheard"}
      PROVE  /\ \A r, q \in flight' : r = q
             /\ \A i \in Item : owed[i] >= 0
             /\ \A r \in Sent(flight'), i \in Item : owed[i] >= r.units[i]
  BY <1>1, <1>2, <1>5 DEF OwedInv, Sent
<1>. QED
  BY <1>4, <1>5 DEF OwedInv, Sent

\* Panels are unmounted; nobody waits any more; sessions end.
LEMMA CarriedSelf ==
  ASSUME FlightInv PROVE Carried(flight)
<1> DEFINE f == [r \in flight |-> r]
<1>1. \A r \in flight : Alike(f[r], r)
  BY AlikeIs DEF FlightInv, GoodRequest
<1>2. flight \subseteq {f[r] : r \in flight}
  OBVIOUS
<1> HIDE DEF f
<1>. QED
  BY <1>1, <1>2 DEF Carried

LEMMA CarriedUnmounted ==
  ASSUME FlightInv, NEW ps
  PROVE  /\ Carried(Unmounted(ps))
         /\ (\A r \in flight : r.owner # "gone") => \A r \in Unmounted(ps) : r.owner # "gone"
<1> DEFINE u(r) == [r EXCEPT !.owner = IF r.panel \in ps /\ r.owner = "mounted"
                                       THEN "unmounted" ELSE r.owner]
           f == [r \in flight |-> u(r)]
<1>1. \A r \in flight : RequestTyped(r)
  BY DEF FlightInv, GoodRequest
<1>2. Unmounted(ps) = {u(r) : r \in flight}
  BY DEF Unmounted
<1>3. \A r \in flight : Alike(u(r), r)
  BY <1>1, AlikeIs
<1>4. \A r \in flight : u(r).owner \in {r.owner, "unmounted"}
  BY <1>1 DEF RequestTyped
<1>5. \A r \in flight : f[r] = u(r)
  OBVIOUS
<1> HIDE DEF f, u
<1>6. Carried(Unmounted(ps))
  <2>1. \A r \in flight : Alike(f[r], r)
    BY <1>3, <1>5
  <2>2. Unmounted(ps) \subseteq {f[r] : r \in flight}
    BY <1>2, <1>5
  <2>. QED
    BY <2>1, <2>2 DEF Carried
<1>. QED
  BY <1>2, <1>4, <1>6

LEMMA CarriedAbandoned ==
  ASSUME FlightInv, NEW S \in SUBSET flight
  PROVE  Carried((flight \ S) \cup Abandoned(S))
<1> DEFINE u(r) == IF r \in S THEN [r EXCEPT !.owner = "gone"] ELSE r
           f == [r \in flight |-> u(r)]
<1>1. \A r \in flight : RequestTyped(r)
  BY DEF FlightInv, GoodRequest
<1>2. \A r \in flight : Alike(f[r], r)
  BY <1>1, AlikeIs
<1>3. (flight \ S) \cup Abandoned(S) \subseteq {f[r] : r \in flight}
  BY DEF Abandoned
<1> HIDE DEF f
<1>. QED
  BY <1>2, <1>3 DEF Carried

LEMMA CarriedLess ==
  ASSUME NEW F, NEW G, Carried(F), G \subseteq F PROVE Carried(G)
  BY DEF Carried

-----------------------------------------------------------------------------
(* The cart.                                                               *)

LEMMA OrderingInitInv == OrderingInit => OrderingInv
<1> SUFFICES ASSUME OrderingInit PROVE OrderingInv
  OBVIOUS
<1>1. CartInv
  BY EmptyUnits, InCartIs, OrderingBounds DEF OrderingInit, CartInv
<1>2. orders = <<>> /\ flight = {} /\ Len(orders) = 0
  BY DEF OrderingInit
<1>3. ScreenInv
  <2>1. page \in {"menu", "away"} /\ watched \in 0..Len(orders)
    BY <1>2 DEF OrderingInit
  <2>. QED
    BY <2>1 DEF OrderingInit, ScreenInv, Context, Views
<1>4. Sent(flight) = {} /\ IsFiniteSet(flight) /\ Cardinality(Sent(flight)) = 0
  BY <1>2, FS_EmptySet DEF Sent
<1>5. FlightInv
  BY <1>2, <1>4, OrderingBounds DEF FlightInv
<1>6. OwedInv
  BY <1>2, <1>4, EmptyUnits, OrderingBounds DEF OrderingInit, OwedInv
<1>. QED
  BY <1>1, <1>3, <1>5, <1>6 DEF OrderingInv

\* One slot gets line l, which gives d more of item i and nothing else.
LEMMA ChangeInv ==
  ASSUME OrderingInv, NEW s \in Slot, NEW l \in LineOrNone, NEW i \in Item, NEW d \in Int,
         Change([cart EXCEPT ![s] = l], i, d),
         \A j \in Item : Of(l, j) - Of(cart[s], j) = IF i = j THEN d ELSE 0,
         InCart - cart[s].n + l.n <= MaxUnits,
         UNCHANGED <<device, counterVars, sheet, page, phoneVars, flight, orders>>
  PROVE  OrderingInv'
<1>1. cart \in Carts /\ cart[s] \in LineOrNone
  BY DEF OrderingInv, CartInv, Carts
<1>2. CartInv'
  <2>1. cart' \in Carts /\ AllUnits(cart') = AllUnits(cart) - cart[s].n + l.n
    BY <1>1, UnitsChange DEF Change
  <2>. QED
    BY <2>1, InCartIs, InCartIsAfter DEF CartInv
<1>3. ScreenInv'
  BY DEF OrderingInv, ScreenInv, counterVars, phoneVars
<1>4. FlightInv'
  BY CarriedSelf, CarriedFlight DEF OrderingInv
<1>5. cart' \in Carts /\ \A j \in Item : Units(cart', j) \in Nat /\ Units(cart, j) \in Nat
  BY <1>1, <1>2, CartSums DEF CartInv
<1>6. Len(orders) \in Nat /\ Len(orders) * MaxUnits \in Nat
  BY OrderingBounds DEF OrderingInv, FlightInv
<1>7. CASE slip = "no" /\ flight = {}
  <2>1. \A j \in Item : owed[j] = Units(cart, j)
    BY <1>7 DEF OrderingInv, OwedInv, Sent
  <2>2. slip' = "no" /\ owed' = [j \in Item |-> owed[j] + IF i = j THEN d ELSE 0]
    BY <1>7 DEF Change
  <2>3. \A j \in Item : /\ Of(l, j) \in Nat /\ Of(cart[s], j) \in Nat
                        /\ Units(cart', j) = Units(cart, j) - Of(cart[s], j) + Of(l, j)
    <3>1. cart' = [cart EXCEPT ![s] = l]
      BY DEF Change
    <3>2. \A j \in Item : Of(l, j) \in Nat /\ Of(cart[s], j) \in Nat
      BY <1>1, LinesTyped, OrderingBounds
    <3>. QED
      BY <1>1, <3>1, <3>2, UnitsChange
  <2>4. \A j \in Item : owed'[j] = Units(cart', j)
    <3> SUFFICES ASSUME NEW j \in Item PROVE owed'[j] = Units(cart', j)
      OBVIOUS
    <3>1. owed'[j] = Units(cart, j) + IF i = j THEN d ELSE 0
      BY <2>1, <2>2
    <3>. QED
      BY <1>5, <2>3, <3>1
  <2>5. owed' \in [Item -> Int]
    BY <2>2 DEF OrderingInv, OwedInv
  <2>6. flight' = {} /\ Len(orders') = Len(orders)
    BY <1>7
  <2>. QED
    BY <1>2, <1>3, <1>4, <1>5, <1>6, <2>2, <2>4, <2>5, <2>6 DEF OrderingInv, OwedInv, Sent
<1>8. CASE ~(slip = "no" /\ flight = {})
  <2>1. slip' = "touched" /\ owed' = [j \in Item |-> 0]
    BY <1>8 DEF Change
  <2>2. \A r \in flight', j \in Item : r.units[j] \in Nat
    BY <1>4, OrderingBounds DEF FlightInv, GoodRequest, RequestTyped
  <2>3. \A r \in flight' : OwedFor(r)'
    BY <2>1, <2>2 DEF OwedFor
  <2>4. Len(orders') = Len(orders)
    OBVIOUS
  <2>5. OwedInv'
    BY <1>5, <1>6, <2>1, <2>3, <2>4 DEF OwedInv
  <2>. QED
    BY <1>2, <1>3, <1>4, <2>5 DEF OrderingInv
<1>. QED
  BY <1>7, <1>8

\* A line is added at the end.
LEMMA AddLineInv ==
  ASSUME OrderingInv, NEW i \in Item, NEW n \in 1..MaxUnits, InCart + n <= MaxUnits,
         AddLine(i, n),
         UNCHANGED <<device, counterVars, sheet, page, phoneVars, flight, orders>>
  PROVE  OrderingInv'
<1> DEFINE l == [item |-> i, n |-> n]
<1>1. PICK s \in Slot : cart[s] = NoLine /\ Change([cart EXCEPT ![s] = l], i, n)
  BY DEF AddLine
<1>2. l \in LineOrNone /\ l.n = n /\ \A j \in Item : Of(l, j) = IF i = j THEN n ELSE 0
  BY DEF LineOrNone, Of
<1>3. cart[s].n = 0 /\ \A j \in Item : Of(cart[s], j) = 0
  BY <1>1, NoLineIs
<1>4. InCart \in Nat
  BY InCartIs, AllUnitsIsNat DEF OrderingInv, CartInv
<1>5. n \in Nat /\ n \in Int
  BY OrderingBounds
<1> HIDE DEF l
<1>6. \A j \in Item : Of(l, j) - Of(cart[s], j) = IF i = j THEN n ELSE 0
  BY <1>2, <1>3, <1>5
<1>7. InCart - cart[s].n + l.n <= MaxUnits
  BY <1>2, <1>3, <1>4, <1>5
<1>. QED
  BY <1>1, <1>2, <1>5, <1>6, <1>7, ChangeInv

\* The line of slot s gets quantity q.
LEMMA SetQuantityInv ==
  ASSUME OrderingInv, NEW s \in Slot, cart[s] # NoLine, NEW q \in 0..MaxUnits,
         q <= cart[s].n \/ InCart - cart[s].n + q <= MaxUnits,
         Change(SetQuantity(s, q), cart[s].item, q - cart[s].n),
         UNCHANGED <<device, counterVars, sheet, page, phoneVars, flight, orders>>
  PROVE  OrderingInv'
<1> DEFINE l == IF q <= 0 THEN NoLine ELSE [item |-> cart[s].item, n |-> q]
<1>1. cart \in Carts /\ cart[s] \in [item : Item, n : 1..MaxUnits]
  BY DEF OrderingInv, CartInv, Carts, LineOrNone
<1>2. cart[s].item \in Item /\ cart[s].n \in Nat /\ q \in Nat /\ q - cart[s].n \in Int
  BY <1>1, OrderingBounds
<1>3. SetQuantity(s, q) = [cart EXCEPT ![s] = l]
  <2>1. [cart[s] EXCEPT !.n = q] = [item |-> cart[s].item, n |-> q]
    BY <1>1
  <2>. QED
    BY <2>1 DEF SetQuantity
<1>4. l \in LineOrNone /\ l.n = q
  BY <1>2, NoLineIs DEF LineOrNone
<1>5. \A j \in Item : Of(l, j) = IF cart[s].item = j THEN q ELSE 0
  BY <1>2, NoLineIs DEF Of
<1> HIDE DEF l
<1>6. \A j \in Item : Of(l, j) - Of(cart[s], j) = IF cart[s].item = j THEN q - cart[s].n ELSE 0
  BY <1>2, <1>5 DEF Of
<1>7. InCart - cart[s].n + l.n <= MaxUnits
  <2>1. InCart \in Nat /\ InCart <= MaxUnits
    BY InCartIs, AllUnitsIsNat DEF OrderingInv, CartInv
  <2>. QED
    BY <1>2, <1>4, <2>1, OrderingBounds
<1>8. Change([cart EXCEPT ![s] = l], cart[s].item, q - cart[s].n)
  BY <1>3
<1> DEFINE d == q - cart[s].n
<1>9. d \in Int /\ Change([cart EXCEPT ![s] = l], cart[s].item, d)
      /\ \A j \in Item : Of(l, j) - Of(cart[s], j) = IF cart[s].item = j THEN d ELSE 0
  BY <1>2, <1>6, <1>8
<1> HIDE DEF d
<1>. QED
  BY <1>2, <1>4, <1>7, <1>9, ChangeInv

LEMMA LinesUp ==
  ASSUME OrderingInv, NEW s \in Slot, cart[s] # NoLine
  PROVE  /\ cart[s].item \in Item /\ cart[s].n \in 1..InCart /\ InCart \in 0..MaxUnits
         /\ cart[s].n \in 1..MaxUnits
<1>1. cart \in Carts /\ cart[s] \in [item : Item, n : 1..MaxUnits]
  BY DEF OrderingInv, CartInv, Carts, LineOrNone
<1>2. cart[s].n <= AllUnits(cart)
  BY <1>1, UnitsWithin
<1>. QED
  BY <1>1, <1>2, InCartIs, AllUnitsIsNat, OrderingBounds DEF OrderingInv, CartInv

LEMMA CartActsInv ==
  ASSUME OrderingInv,
         \/ \E i \in Item : TapItem(i)
         \/ \E i \in Item, n \in 1..MaxQuantity : AddCustomised(i, n) \/ GuestCustomised(i, n)
         \/ \E s \in Slot, q \in 0..MaxUnits : StepLine(s, q)
         \/ \E s \in Slot : RemoveLine(s)
  PROVE  OrderingInv'
<1>1. ASSUME NEW i \in Item, TapItem(i)
      PROVE  OrderingInv'
  <2>1. UNCHANGED <<device, counterVars, sheet, page, phoneVars, flight, orders>> /\ InCart < MaxUnits
    BY <1>1 DEF TapItem
  <2>2. ASSUME NEW s \in Slot, cart[s].item = i, Change(SetQuantity(s, cart[s].n + 1), i, 1)
        PROVE  OrderingInv'
    <3>1. cart[s] # NoLine
      BY <2>2, OrderingBounds DEF NoLine
    <3>2. cart[s].n + 1 \in 0..MaxUnits /\ InCart - cart[s].n + (cart[s].n + 1) <= MaxUnits
          /\ (cart[s].n + 1) - cart[s].n = 1
      BY <2>1, <3>1, LinesUp, OrderingBounds
    <3>. QED
      BY <2>1, <2>2, <3>1, <3>2, SetQuantityInv
  <2>3. ASSUME AddLine(i, 1)
        PROVE  OrderingInv'
    <3>1. InCart \in Nat /\ 1 \in 1..MaxUnits /\ InCart + 1 <= MaxUnits
      BY <2>1, InCartIs, AllUnitsIsNat, OrderingBounds DEF OrderingInv, CartInv
    <3>. QED
      BY <2>1, <2>3, <3>1, AddLineInv
  <2>. QED
    BY <1>1, <2>2, <2>3 DEF TapItem
<1>2. ASSUME NEW i \in Item, NEW n \in 1..MaxQuantity, Customised(i, n)
      PROVE  OrderingInv'
  <2>1. InCart \in Nat /\ InCart + n <= MaxUnits
    BY <1>2, InCartIs, AllUnitsIsNat DEF OrderingInv, CartInv, Customised
  <2>2. n \in 1..MaxUnits
    BY <2>1, OrderingBounds
  <2>3. AddLine(i, n) /\ UNCHANGED <<device, counterVars, sheet, page, phoneVars, flight, orders>>
    BY <1>2 DEF Customised
  <2>. QED
    BY <2>1, <2>2, <2>3, AddLineInv
<1>3. ASSUME NEW s \in Slot, NEW q \in 0..MaxUnits, StepLine(s, q)
      PROVE  OrderingInv'
  <2>1. cart[s] # NoLine /\ Change(SetQuantity(s, q), cart[s].item, q - cart[s].n)
        /\ UNCHANGED <<device, counterVars, sheet, page, phoneVars, flight, orders>>
    BY <1>3 DEF StepLine
  <2>2. q <= cart[s].n \/ InCart - cart[s].n + q <= MaxUnits
    BY <1>3, <2>1, LinesUp, OrderingBounds DEF StepLine
  <2>. QED
    BY <2>1, <2>2, SetQuantityInv
<1>4. ASSUME NEW s \in Slot, RemoveLine(s)
      PROVE  OrderingInv'
  <2>1. cart[s] # NoLine /\ Change([cart EXCEPT ![s] = NoLine], cart[s].item, -cart[s].n)
        /\ UNCHANGED <<device, counterVars, sheet, page, phoneVars, flight, orders>>
    BY <1>4 DEF RemoveLine
  <2>2. cart[s].n \in Nat /\ 0 \in 0..MaxUnits /\ 0 <= cart[s].n /\ 0 - cart[s].n = -cart[s].n
    BY <2>1, LinesUp, OrderingBounds
  <2>3. SetQuantity(s, 0) = [cart EXCEPT ![s] = NoLine]
    BY DEF SetQuantity
  <2>. QED
    BY <2>1, <2>2, <2>3, SetQuantityInv
<1>. QED
  BY <1>1, <1>2, <1>3, <1>4 DEF AddCustomised, GuestCustomised

-----------------------------------------------------------------------------
(* The screens, the requests, the server.                                  *)

\* Only what the screen shows changes.
LEMMA ScreenOnly ==
  ASSUME OrderingInv, ScreenInv', UNCHANGED <<cartVars, flight, orders, slip>>
  PROVE  OrderingInv'
<1>1. UNCHANGED <<cart, owed>>
  BY DEF cartVars
<1>2. CartInv'
  BY <1>1, InCartIs, InCartIsAfter DEF OrderingInv, CartInv
<1>3. FlightInv'
  BY CarriedSelf, CarriedFlight DEF OrderingInv
<1>4. OwedInv'
  <2>1. \A i \in Item : owed[i] <= Units(cart', i)
    BY <1>1 DEF OrderingInv, OwedInv
  <2>2. slip' = "no" => /\ \A r \in flight' : r.owner # "gone"
                        /\ Sent(flight') = flight' => \A i \in Item : owed[i] = Units(cart', i)
    BY <1>1 DEF OrderingInv, OwedInv
  <2>3. slip' \in {"no", "unheard", "resent", "touched"}
    BY DEF OrderingInv, OwedInv
  <2>. QED
    BY <1>1, <2>1, <2>2, <2>3, CarriedSelf, CarriedOwed DEF OrderingInv
<1>. QED
  BY <1>2, <1>3, <1>4 DEF OrderingInv

LEMMA ScreenActsInv ==
  ASSUME OrderingInv,
         \/ \E c \in Context : SetContext(c)
         \/ \E l \in Place : SelectPlace(l)
         \/ OpenSheet \/ ReturnToCounter \/ ScanAnswer \/ OrderMore \/ Poll \/ PollFails
  PROVE  OrderingInv'
<1>1. ASSUME NEW c \in Context, SetContext(c)
      PROVE  OrderingInv'
  <2>1. ScreenInv'
    BY <1>1 DEF SetContext, PlaceAfter, OrderingInv, ScreenInv, phoneVars
  <2>. QED
    BY <1>1, <2>1, ScreenOnly DEF SetContext
<1>2. ASSUME NEW l \in Place, SelectPlace(l)
      PROVE  OrderingInv'
  <2>1. ScreenInv'
    BY <1>2 DEF SelectPlace, NeedsLocation, OrderingInv, ScreenInv, phoneVars
  <2>. QED
    BY <1>2, <2>1, ScreenOnly DEF SelectPlace
<1>3. CASE OpenSheet
  <2>1. ScreenInv'
    BY <1>3 DEF OpenSheet, OrderingInv, ScreenInv, phoneVars, counterVars
  <2>. QED
    BY <1>3, <2>1, ScreenOnly DEF OpenSheet
<1>4. CASE ReturnToCounter
  <2>1. ScreenInv'
    BY <1>4 DEF ReturnToCounter, OrderingInv, ScreenInv, phoneVars, counterVars
  <2>. QED
    BY <1>4, <2>1, ScreenOnly DEF ReturnToCounter
<1>5. CASE ScanAnswer
  <2>1. ScreenInv'
    BY <1>5 DEF ScanAnswer, OrderingInv, ScreenInv, counterVars
  <2>. QED
    BY <1>5, <2>1, ScreenOnly DEF ScanAnswer
<1>6. CASE OrderMore
  <2>1. Len(orders) \in Nat
    BY DEF OrderingInv, FlightInv
  <2>2. ScreenInv'
    BY <1>6, <2>1 DEF OrderMore, Bootstrap, HasValidExisting, OrderingInv, ScreenInv, counterVars, Views
  <2>. QED
    BY <1>6, <2>2, ScreenOnly DEF OrderMore
<1>7. CASE Poll
  <2>1. watched \in 1..Len(orders)
    BY <1>7 DEF Poll, Polling, OrderingInv, FlightInv, ScreenInv
  <2>2. orders[watched] \in OrderMade
    BY <2>1 DEF OrderingInv, FlightInv
  <2>3. view' \in Views
    BY <1>7, <2>2 DEF Poll, OrderMade, Views
  <2>4. ScreenInv'
    BY <1>7, <2>3 DEF Poll, OrderingInv, ScreenInv, counterVars
  <2>. QED
    BY <1>7, <2>4, ScreenOnly DEF Poll
<1>8. CASE PollFails
  <2>1. ScreenInv'
    BY <1>8 DEF PollFails, OrderingInv, ScreenInv, counterVars, Views
  <2>. QED
    BY <1>8, <2>1, ScreenOnly DEF PollFails
<1>. QED
  BY <1>1, <1>2, <1>3, <1>4, <1>5, <1>6, <1>7, <1>8

\* Requests are only carried on, and if some may go unheard it is remembered.
LEMMA CarriedOn ==
  ASSUME OrderingInv, ScreenInv', Carried(flight'), UNCHANGED <<cart, owed, orders>>,
         \/ slip' = Worse("unheard")
         \/ /\ slip' = slip
            /\ slip = "no" => /\ \A r \in flight' : r.owner # "gone"
                              /\ Sent(flight') = flight' => Sent(flight) = flight
  PROVE  OrderingInv'
<1>1. CartInv'
  BY InCartIs, InCartIsAfter DEF OrderingInv, CartInv
<1>2. FlightInv'
  BY CarriedFlight DEF OrderingInv
<1>3. slip \in {"no", "unheard", "resent", "touched"}
  BY DEF OrderingInv, OwedInv
<1>4. /\ slip' \in {"no", "unheard", "resent", "touched"}
      /\ slip' = "touched" => slip = "touched"
      /\ slip' \in {"no", "unheard"} => slip \in {"no", "unheard"}
  BY <1>3 DEF Worse
<1>5. slip' = "no" => /\ \A r \in flight' : r.owner # "gone"
                      /\ Sent(flight') = flight' => \A i \in Item : owed[i] = Units(cart', i)
  BY <1>3 DEF OrderingInv, OwedInv, Worse
<1>6. \A i \in Item : owed[i] <= Units(cart', i)
  BY DEF OrderingInv, OwedInv
<1>7. OwedInv'
  BY <1>4, <1>5, <1>6, CarriedOwed DEF OrderingInv
<1>. QED
  BY <1>1, <1>2, <1>7 DEF OrderingInv

\* A request that is carried stays sent or accepted.
LEMMA UnmountedSent ==
  ASSUME FlightInv, NEW ps, Sent(Unmounted(ps)) = Unmounted(ps)
  PROVE  Sent(flight) = flight
<1> DEFINE u(r) == [r EXCEPT !.owner = IF r.panel \in ps /\ r.owner = "mounted"
                                       THEN "unmounted" ELSE r.owner]
<1>1. \A r \in flight : u(r).state = r.state /\ u(r) \in Unmounted(ps)
  BY DEF FlightInv, GoodRequest, RequestTyped, Unmounted
<1> HIDE DEF u
<1>. QED
  BY <1>1 DEF Sent

LEMMA UnmountsInv ==
  ASSUME OrderingInv, ScreenInv', NEW ps, flight' = Unmounted(ps),
         UNCHANGED <<cartVars, orders, slip>>
  PROVE  OrderingInv'
<1>1. FlightInv /\ UNCHANGED <<cart, owed>>
  BY DEF OrderingInv, cartVars
<1>2. Carried(flight')
  BY <1>1, CarriedUnmounted
<1>3. slip = "no" => \A r \in flight' : r.owner # "gone"
  BY <1>1, CarriedUnmounted DEF OrderingInv, OwedInv
<1>4. Sent(flight') = flight' => Sent(flight) = flight
  BY <1>1, UnmountedSent
<1>. QED
  BY <1>1, <1>2, <1>3, <1>4, CarriedOn

\* All is given up: a page loads anew.
LEMMA AbandonsInv ==
  ASSUME OrderingInv, ScreenInv', flight' = Abandoned(flight), UNCHANGED <<cartVars, orders>>,
         slip' = IF flight = {} THEN slip ELSE Worse("unheard")
  PROVE  OrderingInv'
<1>1. FlightInv /\ UNCHANGED <<cart, owed>>
  BY DEF OrderingInv, cartVars
<1>2. Carried(flight')
  <2>1. (flight \ flight) \cup Abandoned(flight) = Abandoned(flight)
    OBVIOUS
  <2>. QED
    BY <1>1, <2>1, CarriedAbandoned
<1>3. flight = {} => flight' = {}
  BY DEF Abandoned
<1>. QED
  BY <1>1, <1>2, <1>3, CarriedOn DEF Sent

LEMMA PanelActsInv ==
  ASSUME OrderingInv,
         \/ CloseSheet \/ LeaveCounter \/ Rerender \/ Expire
         \/ \E l \in Place, c \in BOOLEAN : OpenPage(l, c)
         \/ ReloadPhone
  PROVE  OrderingInv'
<1>. Len(orders) \in Nat /\ FlightInv
  BY DEF OrderingInv, FlightInv
<1>1. CASE CloseSheet
  <2>. sheet' = FALSE /\ UNCHANGED <<device, cartVars, counterVars, page, phoneVars, orders, slip>>
    BY <1>1 DEF CloseSheet
  <2>1. ScreenInv'
    BY DEF OrderingInv, ScreenInv, phoneVars, counterVars
  <2>2. CASE device = "counter"
    BY <1>1, <2>1, <2>2, UnmountsInv DEF CloseSheet
  <2>3. CASE device # "counter"
    <3>1. flight' = flight
      BY <1>1, <2>3 DEF CloseSheet
    <3>. QED
      BY <2>1, <3>1, ScreenOnly
  <2>. QED
    BY <2>2, <2>3
<1>2. CASE LeaveCounter
  <2>1. ScreenInv' /\ UNCHANGED <<cartVars, orders, slip>>
    BY <1>2 DEF LeaveCounter, OrderingInv, ScreenInv, phoneVars, counterVars
  <2>. QED
    BY <1>2, <2>1, UnmountsInv DEF LeaveCounter
<1>3. CASE Rerender
  <2>1. ScreenInv' /\ UNCHANGED <<cartVars, orders, slip>>
    BY <1>3 DEF Rerender, Bootstrap, OrderingInv, ScreenInv, counterVars
  <2>. QED
    BY <1>3, <2>1, UnmountsInv DEF Rerender
<1>4. CASE Expire
  <2>1. ScreenInv' /\ UNCHANGED <<cart, owed, orders, slip>>
    BY <1>4 DEF Expire, OrderingInv, ScreenInv, counterVars, cartVars
  <2> DEFINE u(r) == [r EXCEPT !.valid = r.valid /\ r.owner = "gone"]
             f == [r \in flight |-> u(r)]
  <2>2. flight' = {u(r) : r \in flight}
    BY <1>4 DEF Expire
  <2>3. \A r \in flight : RequestTyped(r)
    BY DEF FlightInv, GoodRequest
  <2>4. \A r \in flight : (r.valid /\ r.owner = "gone") \in {r.valid, FALSE}
    BY <2>3 DEF RequestTyped
  <2>5. \A r \in flight : \A v \in {r.valid, FALSE} : Alike([r EXCEPT !.valid = v], r)
    BY <2>3, AlikeIs
  <2>6. \A r \in flight : Alike(u(r), r)
    BY <2>4, <2>5
  <2>7. \A r \in flight : u(r).owner = r.owner /\ u(r).state = r.state
    BY <2>3 DEF RequestTyped
  <2> HIDE DEF u
  <2>8. Carried(flight')
    <3>1. (\A r \in flight : Alike(f[r], r)) /\ flight' \subseteq {f[r] : r \in flight}
      BY <2>2, <2>6
    <3> HIDE DEF f
    <3>. QED
      BY <3>1 DEF Carried
  <2>9. slip = "no" => \A r \in flight' : r.owner # "gone"
    BY <2>2, <2>7 DEF OrderingInv, OwedInv
  <2>10. Sent(flight') = flight' => Sent(flight) = flight
    BY <2>2, <2>7 DEF Sent
  <2>. QED
    BY <2>1, <2>8, <2>9, <2>10, CarriedOn
<1>5. ASSUME NEW l \in Place, NEW c \in BOOLEAN, OpenPage(l, c)
      PROVE  OrderingInv'
  <2>1. /\ page' = "menu" /\ at' = l /\ code' = c /\ sheet' = FALSE /\ watched' = 0
        /\ view' = "none" /\ UNCHANGED <<device, cartVars, counterVars, store, orders>>
    BY <1>5 DEF OpenPage
  <2>2. link' \in {"loading", "ready", "error"} /\ (link' = "ready" => store = l)
    BY <1>5 DEF OpenPage, Bootstrap, HasValidExisting
  <2>3. ScreenInv'
    <3>1. /\ at' \in Place \cup {None} /\ code' \in BOOLEAN /\ watched' \in 0..Len(orders')
          /\ (link' = "ready" => store' \in {at', None})
      BY <2>1, <2>2
    <3>2. page' = "menu" /\ view' = "none" /\ sheet' = FALSE
      BY <2>1
    <3>3. UNCHANGED <<device, ctx, place, store>>
      BY <2>1 DEF counterVars
    <3>. QED
      BY <2>2, <3>1, <3>2, <3>3 DEF OrderingInv, ScreenInv, Views
  <2>. QED
    BY <1>5, <2>1, <2>3, AbandonsInv DEF OpenPage
<1>6. CASE ReloadPhone
  <2>1. ScreenInv' /\ UNCHANGED <<cartVars, orders>>
    BY <1>6 DEF ReloadPhone, Bootstrap, HasValidExisting, OrderingInv, ScreenInv, counterVars, Views
  <2>. QED
    BY <1>6, <2>1, AbandonsInv DEF ReloadPhone
<1>. QED
  BY <1>1, <1>2, <1>3, <1>4, <1>5, <1>6

LEMMA ReloadCounterInv == OrderingInv /\ ReloadCounter => OrderingInv'
<1> SUFFICES ASSUME OrderingInv, ReloadCounter PROVE OrderingInv'
  OBVIOUS
<1>1. cart' = EmptyCart /\ slip' = "touched" /\ owed' = [i \in Item |-> 0] /\ orders' = orders
      /\ flight' = Abandoned(flight)
  BY DEF ReloadCounter
<1>2. CartInv'
  BY <1>1, EmptyUnits, InCartIsAfter, OrderingBounds DEF CartInv
<1>3. ScreenInv'
  BY DEF ReloadCounter, OrderingInv, ScreenInv, Context, phoneVars
<1>4. FlightInv'
  <2>1. (flight \ flight) \cup Abandoned(flight) = Abandoned(flight)
    OBVIOUS
  <2>. QED
    BY <1>1, <2>1, CarriedAbandoned, CarriedFlight DEF OrderingInv
<1>5. \A r \in flight' : OwedFor(r)'
  <2>1. \A r \in flight', i \in Item : r.units[i] \in Nat
    BY <1>4, OrderingBounds DEF FlightInv, GoodRequest, RequestTyped
  <2>. QED
    BY <1>1, <2>1 DEF OwedFor
<1>6. Len(orders') \in Nat /\ Len(orders') * MaxUnits \in Nat
  BY <1>1, OrderingBounds DEF OrderingInv, FlightInv
<1>7. OwedInv'
  BY <1>1, <1>5, <1>6, EmptyUnits DEF OwedInv
<1>. QED
  BY <1>2, <1>3, <1>4, <1>7 DEF OrderingInv

\* An accepted order empties the cart: nothing in it was still owed.
LEMMA EmptiesInv ==
  ASSUME OrderingInv, NEW r \in flight, r.state = "accepted", cart' = EmptyCart,
         UNCHANGED <<owed, orders, slip>>, ScreenInv', Carried(flight'),
         slip = "no" => \A q \in flight' : q.owner # "gone"
  PROVE  OrderingInv'
<1>1. CartInv'
  BY EmptyUnits, InCartIsAfter, OrderingBounds DEF CartInv
<1>2. FlightInv'
  BY CarriedFlight DEF OrderingInv
<1>3. \A i \in Item : owed[i] <= 0 /\ Units(cart', i) = 0 /\ owed[i] \in Int
  BY EmptyUnits DEF OrderingInv, OwedInv, OwedFor
<1>4. slip = "no" => \A i \in Item : owed[i] >= 0
  BY DEF OrderingInv, OwedInv
<1>5. slip = "no" => \A i \in Item : owed[i] = Units(cart', i)
  BY <1>3, <1>4
<1>6. slip \in {"no", "unheard", "resent", "touched"}
  BY DEF OrderingInv, OwedInv
<1>7. \A i \in Item : owed[i] <= Units(cart', i)
  BY <1>3
<1>8. OwedInv'
  BY <1>5, <1>6, <1>7, CarriedOwed DEF OrderingInv
<1>. QED
  BY <1>1, <1>2, <1>8 DEF OrderingInv

LEMMA PlacedInv ==
  ASSUME OrderingInv, NEW r \in flight, Placed(r)
  PROVE  OrderingInv'
<1>. FlightInv /\ (slip = "no" => \A q \in flight : q.owner # "gone")
  BY DEF OrderingInv, OwedInv
<1>1. ScreenInv'
  BY DEF Placed, OrderingInv, ScreenInv, phoneVars
<1>2. flight' \subseteq Unmounted({"sheet"}) \/ flight' \subseteq flight
  BY DEF Placed
<1>3. Carried(flight')
  BY <1>2, CarriedSelf, CarriedUnmounted, CarriedLess
<1>4. slip = "no" => \A q \in flight' : q.owner # "gone"
  BY <1>2, CarriedUnmounted
<1>5. r.state = "accepted" /\ cart' = EmptyCart /\ UNCHANGED <<owed, orders, slip>>
  BY DEF Placed, CartAfter
<1>. QED
  BY <1>1, <1>3, <1>4, <1>5, EmptiesInv

LEMMA GuestPlacedInv ==
  ASSUME OrderingInv, NEW r \in flight, GuestPlaced(r)
  PROVE  OrderingInv'
<1>. FlightInv /\ (slip = "no" => \A q \in flight : q.owner # "gone")
  BY DEF OrderingInv, OwedInv
<1>1. GoodRequest(r) /\ r.state = "accepted"
  BY DEF FlightInv, GuestPlaced
<1>2. r.order \in 1..Len(orders) /\ r.from \in Place \cup {None}
  BY <1>1 DEF GoodRequest, RequestTyped, FlightInv
<1>3. ScreenInv'
  <2>1. link' \in {"loading", "ready", "error"} /\ (link' = "ready" => store = r.from)
    BY DEF GuestPlaced, Bootstrap, HasValidExisting
  <2>2. /\ page' = "status" /\ at' = r.from /\ code' = FALSE /\ sheet' = FALSE
        /\ watched' = r.order /\ view' = "none"
        /\ UNCHANGED <<device, ctx, place, store, orders>>
    BY DEF GuestPlaced, counterVars
  <2>3. watched' \in 0..Len(orders') /\ watched' # 0
    BY <1>2, <2>2
  <2>. QED
    BY <1>2, <2>1, <2>2, <2>3 DEF OrderingInv, ScreenInv, Views
<1>4. flight' \subseteq Unmounted({"fixed", "sheet"})
  <2>1. \A q \in flight : q.panel \in {"fixed", "sheet"}
    BY DEF FlightInv, GoodRequest, RequestTyped
  <2>. QED
    BY <2>1 DEF GuestPlaced, Unmounted
<1>5. Carried(flight') /\ (slip = "no" => \A q \in flight' : q.owner # "gone")
  BY <1>4, CarriedUnmounted, CarriedLess
<1>6. cart' = EmptyCart /\ UNCHANGED <<owed, orders, slip>>
  BY DEF GuestPlaced, CartAfter
<1>. QED
  BY <1>1, <1>3, <1>5, <1>6, EmptiesInv

LEMMA RefusedInv ==
  ASSUME OrderingInv, NEW r \in flight, Refused(r)
  PROVE  OrderingInv'
<1>. FlightInv /\ (slip = "no" => \A q \in flight : q.owner # "gone")
  BY DEF OrderingInv, OwedInv
<1>1. ScreenInv'
  BY DEF Refused, OrderingInv, ScreenInv, phoneVars, counterVars
<1>2. flight' = flight \ {r} /\ r.state = "sent"
  BY DEF Refused
<1>3. Carried(flight')
  BY <1>2, CarriedSelf, CarriedLess
<1>4. Sent(flight') = flight' => Sent(flight) = flight
  BY <1>2 DEF Sent
<1>5. UNCHANGED <<cart, owed, orders, slip>>
  BY DEF Refused, CartAfterError
<1>. QED
  BY <1>1, <1>2, <1>3, <1>4, <1>5, CarriedOn

LEMMA LoseAnswerInv ==
  ASSUME OrderingInv, NEW r \in flight, LoseAnswer(r)
  PROVE  OrderingInv'
<1>1. ScreenInv'
  BY DEF LoseAnswer, OrderingInv, ScreenInv, phoneVars, counterVars
<1>2. Carried(flight')
  BY CarriedAbandoned DEF LoseAnswer, OrderingInv
<1>3. UNCHANGED <<cart, owed, orders>> /\ slip' = Worse("unheard")
  BY DEF LoseAnswer, CartAfterError
<1>. QED
  BY <1>1, <1>2, <1>3, CarriedOn

LEMMA AcceptInv ==
  ASSUME OrderingInv, NEW r \in flight, Accept(r)
  PROVE  OrderingInv'
<1>. PICK k, a : k = Len(orders) /\ a = [r EXCEPT !.state = "accepted", !.order = k + 1]
  BY Zenon
<1>1. /\ orders \in Seq(OrderMade) /\ k \in Nat /\ GoodRequest(r) /\ r.state = "sent"
      /\ \A q \in flight : GoodRequest(q)
  BY DEF OrderingInv, FlightInv, Accept
<1>2. flight' = (flight \ {r}) \cup IF r.owner = "gone" THEN {} ELSE {a}
  BY DEF Accept
<1>3. /\ a.state = "accepted" /\ a.order = k + 1 /\ a.units = r.units /\ a.owner = r.owner
      /\ a.source = r.source /\ a.valid = r.valid /\ a.loc = r.loc /\ a.from = r.from
      /\ a \in [n : {a.n}, panel : {"fixed", "sheet"}, owner : {"mounted", "unmounted", "gone"},
         state : {"sent", "accepted"}, order : 0..k + 1, units : [Item -> 0..MaxUnits],
         source : Context \cup {"QR"}, valid : BOOLEAN, loc : Place \cup {None},
         from : Place \cup {None}]
  <2>1. r \in
        [n : {r.n}, panel : {"fixed", "sheet"}, owner : {"mounted", "unmounted", "gone"},
         state : {"sent", "accepted"}, order : 0..k, units : [Item -> 0..MaxUnits],
         source : Context \cup {"QR"}, valid : BOOLEAN, loc : Place \cup {None},
         from : Place \cup {None}]
    BY <1>1 DEF GoodRequest, RequestTyped
  <2>2. 0..k \subseteq 0..k + 1 /\ k + 1 \in 0..k + 1
    BY <1>1
  <2>. QED
    BY <2>1, <2>2
<1>4. orders' \in Seq(OrderMade) /\ Len(orders') = k + 1
  <2> DEFINE made == [status |-> "open", kot |-> "cooking",
                      loc |-> IF device = "phone" THEN r.loc ELSE None]
  <2>1. made \in OrderMade
    BY <1>1 DEF GoodRequest, RequestTyped, OrderMade, Statuses, Tickets
  <2>2. orders' = Append(orders, made)
    BY DEF Accept
  <2> HIDE DEF made
  <2>. QED
    BY <1>1, <2>1, <2>2
<1>5. CartInv'
  <2>1. cart' = cart
    BY DEF Accept
  <2>. QED
    BY <2>1, InCartIs, InCartIsAfter DEF OrderingInv, CartInv
<1>6. ScreenInv'
  <2>1. UNCHANGED <<device, counterVars, sheet, page, phoneVars>>
    BY DEF Accept
  <2>2. watched \in 0..k
    BY DEF OrderingInv, ScreenInv
  <2>3. watched' \in 0..Len(orders')
    BY <1>1, <1>4, <2>1, <2>2 DEF phoneVars
  <2>. QED
    BY <2>1, <2>3 DEF OrderingInv, ScreenInv, phoneVars, counterVars
<1>7. FlightInv'
  <2>1. \A q \in flight : GoodRequest(q)'
    BY <1>1, <1>4 DEF GoodRequest, RequestTyped, RightPlace
  <2>2. GoodRequest(a)'
    BY <1>1, <1>3, <1>4 DEF GoodRequest, RequestTyped, RightPlace
  <2>3. \A q \in flight' : GoodRequest(q)'
    BY <1>2, <2>1, <2>2
  <2>4. IsFiniteSet(flight) /\ IsFiniteSet(Sent(flight)) /\ r \in Sent(flight)
    BY <1>1, FS_Subset DEF OrderingInv, FlightInv, Sent
  <2>5. IsFiniteSet(flight')
    <3>1. IsFiniteSet(flight \cup {a}) /\ flight' \subseteq flight \cup {a}
      BY <1>2, <2>4, FS_AddElement
    <3>. QED
      BY <3>1, FS_Subset
  <2>6. Sent(flight') \subseteq Sent(flight) \ {r}
    BY <1>2, <1>3 DEF Sent
  <2>7. /\ Cardinality(Sent(flight) \ {r}) = Cardinality(Sent(flight)) - 1
        /\ IsFiniteSet(Sent(flight) \ {r})
    BY <2>4, FS_RemoveElement
  <2>8. Cardinality(Sent(flight')) <= Cardinality(Sent(flight)) - 1
        /\ Cardinality(Sent(flight')) \in Nat /\ Cardinality(Sent(flight)) \in Nat
    BY <2>4, <2>6, <2>7, FS_Subset, FS_CardinalityType
  <2>9. k + Cardinality(Sent(flight)) <= MaxSend
    BY DEF OrderingInv, FlightInv
  <2>10. Len(orders') + Cardinality(Sent(flight')) <= MaxSend
    BY <1>1, <1>4, <2>8, <2>9, OrderingBounds
  <2>. QED
    BY <1>4, <2>3, <2>5, <2>10 DEF FlightInv, Sent
<1>8. OwedInv'
  <2>1. /\ owed' = [i \in Item |-> IF slip = "touched" THEN 0 ELSE owed[i] - r.units[i]]
        /\ slip' = slip /\ cart' = cart
    BY DEF Accept
  <2>2. \A i \in Item : owed[i] \in Int /\ r.units[i] \in 0..MaxUnits /\ owed[i] <= r.units[i]
    BY <1>1 DEF OrderingInv, OwedInv, OwedFor, GoodRequest, RequestTyped
  <2>3. /\ slip = "touched" => \A i \in Item : owed[i] = 0
        /\ slip \in {"no", "unheard", "resent", "touched"}
    BY DEF OrderingInv, OwedInv
  <2>4. MaxUnits \in Nat
    BY OrderingBounds
  <2>5. \A i \in Item : owed'[i] \in Int /\ owed'[i] <= owed[i] /\ owed'[i] <= 0
                        /\ owed'[i] >= owed[i] - MaxUnits
    BY <2>1, <2>2, <2>3, <2>4
  <2>6. owed' \in [Item -> Int]
    BY <2>1, <2>2
  <2>7. \A i \in Item : owed'[i] <= Units(cart', i)
    <3>1. \A i \in Item : Units(cart, i) \in Nat /\ owed[i] <= Units(cart, i)
      BY CartSums DEF OrderingInv, CartInv, OwedInv
    <3>. QED
      BY <2>1, <2>2, <2>5, <3>1
  <2>8. \A i \in Item : owed'[i] >= -(Len(orders') * MaxUnits)
    <3>1. \A i \in Item : owed[i] >= -(k * MaxUnits)
      BY DEF OrderingInv, OwedInv
    <3>2. (k + 1) * MaxUnits = k * MaxUnits + MaxUnits /\ k * MaxUnits \in Nat
      BY <1>1, <2>4
    <3> DEFINE m == k * MaxUnits
    <3>3. \A i \in Item : owed[i] >= -m /\ m \in Nat
      BY <3>1, <3>2
    <3>4. Len(orders') * MaxUnits = m + MaxUnits
      BY <1>4, <3>2
    <3> HIDE DEF m
    <3> SUFFICES ASSUME NEW i \in Item PROVE owed'[i] >= -(m + MaxUnits)
      BY <3>4
    <3>5. owed'[i] >= owed[i] - MaxUnits /\ owed'[i] \in Int /\ owed[i] \in Int /\ owed[i] >= -m
      BY <2>2, <2>5, <3>3
    <3>. QED
      BY <2>4, <3>3, <3>5
  <2>9. \A q \in flight' : OwedFor(q)'
    <3>1. OwedFor(a)'
      BY <1>3, <2>5 DEF OwedFor
    <3>2. ASSUME NEW q \in flight
          PROVE  OwedFor(q)'
      <4>1. OwedFor(q) /\ \A i \in Item : q.units[i] \in Int
        BY <1>1, <2>4 DEF OrderingInv, OwedInv, GoodRequest, RequestTyped
      <4>. QED
        BY <2>2, <2>5, <4>1 DEF OwedFor
    <3>. QED
      BY <1>2, <3>1, <3>2
  <2>10. ASSUME slip \in {"no", "unheard"}
         PROVE  /\ \A q \in flight' : q = a /\ r.owner # "gone"
                /\ \A i \in Item : owed'[i] >= 0
                /\ Sent(flight') = {}
    <3>1. flight = {r} /\ \A i \in Item : owed[i] >= r.units[i]
      BY <1>1, <2>10 DEF OrderingInv, OwedInv, Sent
    <3>2. \A q \in flight' : q = a /\ r.owner # "gone"
      BY <1>2, <3>1
    <3>3. Sent(flight') = {}
      BY <1>3, <3>2 DEF Sent
    <3>4. \A i \in Item : owed'[i] = owed[i] - r.units[i]
      BY <2>1, <2>10
    <3>5. \A i \in Item : owed'[i] >= 0
      BY <2>2, <3>1, <3>4
    <3>. QED
      BY <3>2, <3>3, <3>5
  <2>11. slip = "no" => r.owner # "gone" /\ flight' # {}
    <3>1. slip = "no" => r.owner # "gone"
      BY DEF OrderingInv, OwedInv
    <3>. QED
      BY <1>2, <3>1
  <2>12. slip = "touched" => \A i \in Item : owed'[i] = 0
    BY <2>1
  <2>13. slip' \in {"no", "unheard"} =>
           /\ \A x, q \in flight' : x = q
           /\ \A i \in Item : owed'[i] >= 0
           /\ \A x \in Sent(flight'), i \in Item : owed'[i] >= x.units[i]
    BY <2>1, <2>10
  <2>14. slip' = "no" =>
           /\ \A q \in flight' : q.owner # "gone"
           /\ Sent(flight') = flight' => \A i \in Item : owed'[i] = Units(cart', i)
    BY <1>3, <2>1, <2>10, <2>11
  <2>. QED
    BY <2>1, <2>3, <2>6, <2>7, <2>8, <2>9, <2>12, <2>13, <2>14 DEF OwedInv, Sent
<1>. QED
  BY <1>5, <1>6, <1>7, <1>8 DEF OrderingInv

LEMMA SubmitOrderInv ==
  ASSUME OrderingInv, NEW p \in {"fixed", "sheet"}, SubmitOrder(p)
  PROVE  OrderingInv'
<1>1. PICK a, m, u, v, c, l :
        /\ u = [i \in Item |-> Units(cart, i)]
        /\ v = (/\ \A s \in Slot : cart[s].n <= MaxQuantity
                /\ device = "phone" => store # None)
        /\ c = IF device = "phone" THEN "QR" ELSE ctx
        /\ l = IF device = "phone" THEN store ELSE IF NeedsLocation THEN place ELSE None
        /\ a = [n |-> m, panel |-> p, owner |-> "mounted", state |-> "sent", order |-> 0,
                units |-> u, source |-> c, valid |-> v, loc |-> l, from |-> at]
        /\ flight' = flight \cup {a}
  BY Zenon DEF SubmitOrder
<1>2. /\ CanPlaceOrder /\ ~IsPending(p) /\ p \in Shown
      /\ Len(orders) + Cardinality(flight) < MaxSend
      /\ slip' = IF slip = "unheard" \/ \E r \in flight : r.panel # p \/ r.owner # "mounted"
                 THEN Worse("resent") ELSE slip
      /\ UNCHANGED <<device, cart, owed, counterVars, sheet, page, phoneVars, orders>>
  BY DEF SubmitOrder, cartVars
<1>3. \A i \in Item : Units(cart, i) \in 0..MaxUnits
  <2> SUFFICES ASSUME NEW i \in Item PROVE Units(cart, i) \in 0..MaxUnits
    OBVIOUS
  <2>1. 1 \in Slot
    BY OrderingBounds DEF Slot
  <2>2. Units(cart, i) \in Nat /\ Units(cart, i) <= AllUnits(cart) /\ AllUnits(cart) \in Nat
    BY <2>1, CartSums, UnitsWithin, AllUnitsIsNat DEF OrderingInv, CartInv
  <2>3. AllUnits(cart) <= MaxUnits
    BY InCartIs DEF OrderingInv, CartInv
  <2>. QED
    BY <2>2, <2>3, OrderingBounds
<1>4. /\ a.panel = p /\ a.owner = "mounted" /\ a.state = "sent" /\ a.order = 0
      /\ \A i \in Item : a.units[i] = Units(cart, i)
  <2>1. a.units = [i \in Item |-> Units(cart, i)]
    BY <1>1
  <2>. QED
    BY <1>1, <2>1
<1>5. GoodRequest(a)
  <2>1. RequestTyped(a)
    <3>1. u \in [Item -> 0..MaxUnits]
      BY <1>1, <1>3
    <3>2. v \in BOOLEAN
      BY <1>1, Zenon
    <3>3. c \in Context \cup {"QR"} /\ l \in Place \cup {None} /\ at \in Place \cup {None}
      BY <1>1 DEF OrderingInv, ScreenInv
    <3>4. 0 \in 0..Len(orders)
      BY DEF OrderingInv, FlightInv
    <3>5. a = [n |-> m, panel |-> p, owner |-> "mounted", state |-> "sent", order |-> 0,
               units |-> u, source |-> c, valid |-> v, loc |-> l, from |-> at]
      BY <1>1
    <3>. QED
      BY <3>1, <3>2, <3>3, <3>4, <3>5 DEF RequestTyped
  <2>2. RightPlace(a)
    <3>1. /\ a.source = IF device = "phone" THEN "QR" ELSE ctx
          /\ a.loc = IF device = "phone" THEN store ELSE IF NeedsLocation THEN place ELSE None
          /\ a.from = at /\ a.valid = v
      BY <1>1
    <3>2. CASE device = "phone"
      <4>1. link = "ready"
        BY <1>2, <3>2 DEF Shown
      <4>2. a.valid => store # None
        <5>1. v => store # None
          BY <1>1, <3>2, Zenon
        <5>. QED
          BY <3>1, <5>1
      <4>3. a.valid => a.loc = a.from
        BY <3>1, <3>2, <4>1, <4>2 DEF OrderingInv, ScreenInv
      <4>. QED
        BY <3>1, <3>2, <4>3 DEF RightPlace
    <3>3. CASE device # "phone"
      <4>1. device = "counter" /\ ctx \in Context
        BY <3>3 DEF OrderingInv, ScreenInv
      <4>2. NeedsLocation => place # None
        BY <1>2, <4>1 DEF CanPlaceOrder
      <4>. QED
        BY <3>1, <4>1, <4>2 DEF RightPlace, NeedsLocation, Context, OrderingInv, ScreenInv
    <3>. QED
      BY <3>2, <3>3
  <2>. QED
    BY <1>4, <2>1, <2>2 DEF GoodRequest
<1>6. CartInv'
  BY <1>2, InCartIs, InCartIsAfter DEF OrderingInv, CartInv
<1>7. ScreenInv'
  BY <1>2 DEF OrderingInv, ScreenInv, phoneVars, counterVars
<1>8. FlightInv'
  <2>1. \A q \in flight' : GoodRequest(q)
    BY <1>1, <1>5 DEF OrderingInv, FlightInv
  <2>2. \A q \in flight' : GoodRequest(q)'
    BY <1>2, <2>1 DEF GoodRequest, RequestTyped, RightPlace
  <2>3. IsFiniteSet(flight) /\ IsFiniteSet(flight')
    BY <1>1, FS_AddElement DEF OrderingInv, FlightInv
  <2>4. Sent(flight') \subseteq Sent(flight) \cup {a} /\ Sent(flight) \subseteq flight
    BY <1>1 DEF Sent
  <2>5. /\ Cardinality(flight \cup {a}) <= Cardinality(flight) + 1
        /\ Cardinality(flight) \in Nat
    <3>1. Cardinality(flight) \in Nat
      BY <2>3, FS_CardinalityType
    <3>2. Cardinality(flight \cup {a}) = IF a \in flight THEN Cardinality(flight)
                                         ELSE Cardinality(flight) + 1
      BY <2>3, FS_AddElement
    <3>. QED
      BY <3>1, <3>2
  <2>6. Cardinality(Sent(flight')) <= Cardinality(flight')
        /\ Cardinality(Sent(flight')) \in Nat /\ Cardinality(flight') \in Nat
    <3>1. Sent(flight') \subseteq flight'
      BY DEF Sent
    <3>. QED
      BY <2>3, <3>1, FS_Subset, FS_CardinalityType
  <2>7. Len(orders) \in Nat /\ orders' = orders
    BY <1>2 DEF OrderingInv, FlightInv
  <2>8. Len(orders') + Cardinality(Sent(flight')) <= MaxSend
    BY <1>1, <1>2, <2>5, <2>6, <2>7, OrderingBounds
  <2>. QED
    BY <2>2, <2>3, <2>7, <2>8 DEF OrderingInv, FlightInv, Sent
<1>9. OwedInv'
  <2>1. slip \in {"no", "unheard", "resent", "touched"} /\ \A i \in Item : owed[i] <= Units(cart, i)
    BY DEF OrderingInv, OwedInv
  <2>2. /\ slip' \in {"no", "unheard", "resent", "touched"}
        /\ slip' = "touched" => slip = "touched"
        /\ slip' \in {"no", "unheard"} => slip = "no" /\ flight = {}
    <3>1. slip' # slip => slip' \in {"resent", "touched"} /\ (slip' = "touched" => slip = "touched")
      BY <1>2, <2>1 DEF Worse
    <3>2. ASSUME slip' \in {"no", "unheard"}
          PROVE  slip = "no" /\ flight = {}
      <4>1. ~(slip = "unheard" \/ \E r \in flight : r.panel # p \/ r.owner # "mounted")
        BY <1>2, <2>1, <3>2 DEF Worse
      <4>2. flight = {}
        BY <1>2, <4>1 DEF IsPending
      <4>. QED
        BY <1>2, <2>1, <3>2, <4>1, <4>2
    <3>. QED
      BY <2>1, <3>1, <3>2
  <2>3. \A q \in flight' : OwedFor(q)
    <3>1. OwedFor(a)
      BY <1>4, <2>1 DEF OwedFor
    <3>. QED
      BY <1>1, <3>1 DEF OrderingInv, OwedInv
  <2>4. \A q \in flight' : OwedFor(q)'
    BY <1>2, <2>3 DEF OwedFor
  <2>5. ASSUME slip = "no", flight = {}
        PROVE  /\ flight' = {a} /\ Sent(flight') = {a}
               /\ \A i \in Item : owed[i] = Units(cart, i) /\ owed[i] >= 0
                                  /\ owed[i] >= a.units[i]
    <3>1. flight' = {a} /\ Sent(flight') = {a}
      BY <1>1, <1>4, <2>5 DEF Sent
    <3>2. \A i \in Item : owed[i] = Units(cart, i)
      BY <2>5 DEF OrderingInv, OwedInv, Sent
    <3>3. \A i \in Item : Units(cart, i) \in Nat
      BY <1>3, OrderingBounds
    <3>. QED
      BY <1>4, <3>1, <3>2, <3>3
  <2>6. slip' \in {"no", "unheard"} =>
          /\ \A x, q \in flight' : x = q
          /\ \A i \in Item : owed[i] >= 0
          /\ \A x \in Sent(flight'), i \in Item : owed[i] >= x.units[i]
    BY <2>2, <2>5
  <2>7. slip' = "no" =>
          /\ \A q \in flight' : q.owner # "gone"
          /\ \A i \in Item : owed[i] = Units(cart, i)
    BY <1>4, <2>2, <2>5
  <2>8. UNCHANGED <<cart, owed, orders>>
    BY <1>2
  <2>. QED
    BY <2>2, <2>4, <2>6, <2>7, <2>8 DEF OrderingInv, OwedInv, Sent
<1>. QED
  BY <1>6, <1>7, <1>8, <1>9 DEF OrderingInv

LEMMA BecomesInv ==
  ASSUME OrderingInv, NEW o \in DOMAIN orders, NEW st \in Statuses,
         NEW k \in Tickets, Becomes(o, st, k)
  PROVE  OrderingInv'
<1>1. /\ orders' = [orders EXCEPT ![o].status = st, ![o].kot = k]
      /\ UNCHANGED <<device, cart, owed, counterVars, sheet, page, phoneVars, flight, slip>>
  BY DEF Becomes, cartVars
<1>2. orders \in Seq(OrderMade) /\ orders[o] \in OrderMade
  BY DEF OrderingInv, FlightInv
<1>3. orders' \in Seq(OrderMade) /\ Len(orders') = Len(orders)
  <2>1. [orders[o] EXCEPT !.status = st, !.kot = k] \in OrderMade
    BY <1>2 DEF OrderMade
  <2>2. orders' = [orders EXCEPT ![o] = [orders[o] EXCEPT !.status = st, !.kot = k]]
    BY <1>1
  <2>. QED
    BY <1>2, <2>1, <2>2
<1>4. CartInv'
  BY <1>1, InCartIs, InCartIsAfter DEF OrderingInv, CartInv
<1>5. ScreenInv'
  BY <1>1, <1>3 DEF OrderingInv, ScreenInv, phoneVars, counterVars
<1>6. FlightInv'
  <2>1. \A q \in flight : GoodRequest(q)'
    BY <1>3 DEF OrderingInv, FlightInv, GoodRequest, RequestTyped, RightPlace
  <2>. QED
    BY <1>1, <1>3, <2>1 DEF OrderingInv, FlightInv, Sent
<1>7. OwedInv'
  <2>1. \A q \in flight : OwedFor(q)'
    BY <1>1 DEF OrderingInv, OwedInv, OwedFor
  <2>. QED
    BY <1>1, <1>3, <2>1 DEF OrderingInv, OwedInv, Sent
<1>. QED
  BY <1>4, <1>5, <1>6, <1>7 DEF OrderingInv

LEMMA StaffActsInv ==
  ASSUME OrderingInv, NEW o \in DOMAIN orders, StaffCancel(o) \/ TicketMoves(o)
  PROVE  OrderingInv'
<1>1. orders[o].kot \in Tickets
  <2>1. orders \in Seq(OrderMade)
    BY DEF OrderingInv, FlightInv
  <2>2. orders[o] \in OrderMade
    BY <2>1
  <2>. QED
    BY <2>2 DEF OrderMade
<1>2. PICK st \in Statuses, k \in Tickets : Becomes(o, st, k)
  <2>1. CASE StaffCancel(o)
    BY <1>1, <2>1, Zenon DEF StaffCancel, Statuses
  <2>2. CASE TicketMoves(o)
    BY <2>2, Zenon DEF TicketMoves, Statuses, Tickets
  <2>. QED
    BY <2>1, <2>2
<1>. QED
  BY <1>2, BecomesInv

LEMMA OrderingStutterInv == OrderingInv /\ UNCHANGED orderingVars => OrderingInv'
<1> SUFFICES ASSUME OrderingInv, UNCHANGED orderingVars PROVE OrderingInv'
  OBVIOUS
<1>1. ScreenInv' /\ UNCHANGED <<cartVars, flight, orders, slip>>
  BY DEF orderingVars, OrderingInv, ScreenInv, phoneVars, counterVars
<1>. QED
  BY <1>1, ScreenOnly

LEMMA OrderingNextInv == OrderingInv /\ OrderingNext => OrderingInv'
<1> SUFFICES ASSUME OrderingInv, OrderingNext PROVE OrderingInv'
  OBVIOUS
<1>1. CASE \E p \in {"fixed", "sheet"} : SubmitOrder(p)
  BY <1>1, SubmitOrderInv
<1>2. CASE \E r \in flight :
             Accept(r) \/ Refused(r) \/ LoseAnswer(r) \/ Placed(r) \/ GuestPlaced(r)
  BY <1>2, AcceptInv, RefusedInv, LoseAnswerInv, PlacedInv, GuestPlacedInv
<1>3. CASE \E o \in DOMAIN orders : StaffCancel(o) \/ TicketMoves(o)
  BY <1>3, StaffActsInv
<1>. QED
  BY <1>1, <1>2, <1>3, CartActsInv, ScreenActsInv, PanelActsInv, ReloadCounterInv
  DEF OrderingNext

\* OrderingInv holds in every state of a screen: what is owed, the cart, the
\* requests under way and the orders made fit together.
THEOREM OrderingInvariant == OrderingSpec => []OrderingInv
<1>1. OrderingInv /\ [OrderingNext]_orderingVars => OrderingInv'
  BY OrderingNextInv, OrderingStutterInv
<1>. QED
  BY <1>1, OrderingInitInv, PTL DEF OrderingSpec

-----------------------------------------------------------------------------
(* What follows.                                                           *)

\* All is well formed, and a dine-in order is at a table, room service in a room,
\* pickup and delivery nowhere, a guest's order where the guest's page is,
\* whatever the panels, reloads, scans and expiries in between: handlePlaceOrder of
\* CartPanel and QrCartSheet.
THEOREM PlacesRight == OrderingSpec => []PlacesInv
<1>1. OrderingInv => PlacesInv
  <2> SUFFICES ASSUME OrderingInv PROVE PlacesInv
    OBVIOUS
  <2>1. SourceMatchesPlace
    BY DEF SourceMatchesPlace, OrderingInv, FlightInv, GoodRequest, RightPlace
  <2>2. \A s \in Slot : cart[s] \in {NoLine} \cup [item : Item, n : 1..MaxUnits]
    BY DEF OrderingInv, CartInv, Carts, LineOrNone
  <2>3. \A r \in flight : /\ r.owner \in {"mounted", "unmounted", "gone"}
                          /\ r.state \in {"sent", "accepted"}
                          /\ r.order \in 0..Len(orders)
    BY DEF OrderingInv, FlightInv, GoodRequest, RequestTyped
  <2>4. ASSUME NEW i \in Item
        PROVE  owed[i] \in -MaxSend * MaxUnits..MaxUnits
    <3>1. Len(orders) \in Nat /\ Len(orders) <= MaxSend
      <4>1. Cardinality(Sent(flight)) \in Nat
        BY CarriedSelf, NoMore DEF OrderingInv
      <4>. QED
        BY <4>1, OrderingBounds DEF OrderingInv, FlightInv
    <3>2. MaxUnits \in Nat /\ MaxSend \in Nat
      BY OrderingBounds
    <3>3. Len(orders) * MaxUnits <= MaxSend * MaxUnits /\ Len(orders) * MaxUnits \in Nat
          /\ MaxSend * MaxUnits \in Nat
      <4>1. MaxSend * MaxUnits = Len(orders) * MaxUnits + (MaxSend - Len(orders)) * MaxUnits
        BY <3>1, <3>2
      <4>2. MaxSend - Len(orders) \in Nat /\ (MaxSend - Len(orders)) * MaxUnits \in Nat
        BY <3>1, <3>2
      <4>3. Len(orders) * MaxUnits \in Nat
        BY <3>1, <3>2
      <4>. QED
        BY <4>1, <4>2, <4>3
    <3>4. 1 \in Slot
      BY OrderingBounds DEF Slot
    <3>5. /\ owed[i] \in Int /\ owed[i] <= Units(cart, i) /\ owed[i] >= -(Len(orders) * MaxUnits)
          /\ Units(cart, i) <= AllUnits(cart) /\ AllUnits(cart) <= MaxUnits
          /\ Units(cart, i) \in Nat /\ AllUnits(cart) \in Nat
      BY <3>4, CartSums, UnitsWithin, AllUnitsIsNat, InCartIs DEF OrderingInv, OwedInv, CartInv
    <3>6. owed[i] <= MaxUnits
      BY <3>2, <3>5
    <3>7. owed[i] >= -(MaxSend * MaxUnits)
      <4> DEFINE m == Len(orders) * MaxUnits
                 n == MaxSend * MaxUnits
      <4>1. m <= n /\ m \in Nat /\ n \in Nat /\ owed[i] >= -m /\ owed[i] \in Int
        BY <3>3, <3>5
      <4> HIDE DEF m, n
      <4>2. owed[i] >= -n
        BY <4>1
      <4>. QED
        BY <4>2 DEF n
    <3>. QED
      BY <3>2, <3>3, <3>5, <3>6, <3>7
  <2>5. OrderingTypeOK
    BY <2>2, <2>3, <2>4 DEF OrderingTypeOK, OrderingInv, ScreenInv, Views, Statuses
  <2>. QED
    BY <2>1, <2>5 DEF PlacesInv
<1>. QED
  BY <1>1, OrderingInvariant, PTL

\* What is ordered is what was tapped: nothing vanishes while the cart is left alone,
\* and nothing is ordered twice by one panel whose answers are heard, however
\* taps, answers, failures and reloads interleave.
THEOREM OrderedOnce == OrderingSpec => []OrderedAsTapped
<1>1. OrderingInv => OrderedAsTapped
  <2> SUFFICES ASSUME OrderingInv PROVE OrderedAsTapped
    OBVIOUS
  <2>1. \A i \in Item : Units(cart, i) >= owed[i]
    BY DEF OrderingInv, OwedInv
  <2>2. slip \in {"resent", "touched"} \/ \A i \in Item : owed[i] >= 0
    BY DEF OrderingInv, OwedInv
  <2>. QED
    BY <2>1, <2>2 DEF OrderedAsTapped, NothingVanishes, NothingTwice
<1>. QED
  BY <1>1, OrderingInvariant, PTL

=============================================================================
