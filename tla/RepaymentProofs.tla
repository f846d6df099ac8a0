---------------------------- MODULE RepaymentProofs ----------------------------
(***************************************************************************)
(* Money owed and money taken.                                             *)
(***************************************************************************)
EXTENDS LoanCollection, LoanServicing, SequenceTheorems, FiniteSetTheorems, NaturalsInduction,
        WellFoundedInduction, TLAPS

-------------------------------------------------------------------------------
(* Totals.                                                                  *)

LEMMA UnitsAre ==
  ASSUME NEW f, NEW S
  PROVE  \A u : u \in Units(f, S) <=> \E x \in S : u \in {x} \X (1..f[x])
BY DEF Units

LEMMA TotalTyped ==
  ASSUME NEW f, NEW S, IsFiniteSet(S), \A x \in S : f[x] \in Nat
  PROVE  IsFiniteSet(Units(f, S)) /\ Total(f, S) \in Nat
<1> DEFINE each == [x \in S |-> {x} \X (1..f[x])]
           family == {{x} \X (1..f[x]) : x \in S}
<1>1. each \in Surjection(S, family)
  <2>1. each \in [S -> family]
    OBVIOUS
  <2>2. \A T \in family : \E x \in S : each[x] = T
    OBVIOUS
  <2>3. QED
    BY <2>1, <2>2 DEF Surjection
<1>2. IsFiniteSet(family)
  <2> HIDE DEF each, family
  <2>1. QED
    BY <1>1, FS_Surjection
<1>3. \A x \in S : IsFiniteSet({x} \X (1..f[x]))
  <2> TAKE x \in S
  <2> DEFINE n == f[x]
  <2>1. n \in Int
    OBVIOUS
  <2> HIDE DEF n
  <2>2. IsFiniteSet(1..n)
    BY <2>1, FS_Interval
  <2>3. IsFiniteSet({x})
    BY FS_Singleton
  <2>4. IsFiniteSet({x} \X (1..n))
    BY <2>2, <2>3, FS_Product
  <2>5. QED
    BY <2>4 DEF n
<1>4. \A T \in family : IsFiniteSet(T)
  BY <1>3
<1>5. IsFiniteSet(UNION family)
  <2> HIDE DEF family
  <2>1. QED
    BY <1>2, <1>4, FS_UNION
<1>6. QED
  BY <1>5, FS_CardinalityType DEF Units, Total

\* Only what is counted matters.
LEMMA TotalSame ==
  ASSUME NEW f, NEW g, NEW S, \A x \in S : f[x] = g[x]
  PROVE  Total(f, S) = Total(g, S)
<1>1. \A x \in S : {x} \X (1..f[x]) = {x} \X (1..g[x])
  OBVIOUS
<1>2. \A u : u \in Units(f, S) <=> u \in Units(g, S)
  BY <1>1, UnitsAre
<1>3. Units(f, S) = Units(g, S)
  BY <1>2
<1>4. QED
  BY <1>3 DEF Total

LEMMA TotalNone == ASSUME NEW f PROVE Total(f, {}) = 0
<1>1. Units(f, {}) = {}
  BY UnitsAre
<1>2. QED
  BY <1>1, FS_EmptySet DEF Total

\* One more amount.
LEMMA TotalAdd ==
  ASSUME NEW f, NEW S, IsFiniteSet(S), NEW z, z \notin S, \A x \in S \cup {z} : f[x] \in Nat
  PROVE  Total(f, S \cup {z}) = Total(f, S) + f[z]
<1> DEFINE own == {z} \X (1..f[z])
<1>1. /\ Units(f, S \cup {z}) = Units(f, S) \cup own
      /\ Units(f, S) \cap own = {}
  <2>1. \A u : u \in Units(f, S \cup {z}) <=> u \in Units(f, S) \/ u \in own
    BY UnitsAre
  <2>2. \A u : u \in own => u[1] = z
    OBVIOUS
  <2>3. \A u : u \in Units(f, S) => u[1] \in S
    <3>1. \A x \in S : \A u \in {x} \X (1..f[x]) : u[1] = x
      OBVIOUS
    <3>2. QED
      BY <3>1, UnitsAre
  <2>4. QED
    BY <2>1, <2>2, <2>3
<1>2. IsFiniteSet(Units(f, S)) /\ Total(f, S) \in Nat
  BY TotalTyped
<1>3. IsFiniteSet(own) /\ Cardinality(own) = f[z]
  <2>1. f[z] \in Nat /\ IsFiniteSet({z}) /\ Cardinality({z}) = 1
    BY FS_Singleton
  <2>2. IsFiniteSet(1..f[z]) /\ Cardinality(1..f[z]) = f[z]
    BY <2>1, FS_Interval
  <2>3. IsFiniteSet(own) /\ Cardinality(own) = Cardinality({z}) * Cardinality(1..f[z])
    BY <2>1, <2>2, FS_Product
  <2>4. QED
    BY <2>1, <2>2, <2>3
<1> HIDE DEF own
<1>4. Cardinality(Units(f, S) \cup own)
        = Cardinality(Units(f, S)) + Cardinality(own) - Cardinality(Units(f, S) \cap own)
  BY <1>2, <1>3, FS_Union
<1>5. Cardinality({}) = 0
  BY FS_EmptySet
<1>6. Cardinality(Units(f, S)) \in Nat /\ f[z] \in Nat
  BY <1>2 DEF Total
<1>7. Cardinality(Units(f, S) \cup own) = Cardinality(Units(f, S)) + f[z]
  <2>1. Cardinality(Units(f, S) \cap own) = 0
    BY <1>1, <1>5
  <2>2. Cardinality(own) = f[z]
    BY <1>3
  <2>3. QED
    BY <1>4, <1>6, <2>1, <2>2
<1>8. QED
  BY <1>1, <1>7 DEF Total

\* More amounts, or greater ones.
LEMMA TotalGrows ==
  ASSUME NEW f, NEW g, NEW S, NEW T, S \subseteq T, IsFiniteSet(T),
         \A x \in S : f[x] <= g[x], \A x \in S : f[x] \in Nat, \A x \in T : g[x] \in Nat
  PROVE  Total(f, S) <= Total(g, T)
<1>1. Units(f, S) \subseteq Units(g, T)
  <2>1. ASSUME NEW x \in S PROVE {x} \X (1..f[x]) \subseteq {x} \X (1..g[x])
    BY <2>1
  <2>2. QED
    BY <2>1, UnitsAre
<1>2. IsFiniteSet(Units(g, T))
  BY TotalTyped
<1>3. QED
  BY <1>1, <1>2, FS_Subset DEF Total

-------------------------------------------------------------------------------
(* Charges (LoanServicing): what is collected, waived and left of each.     *)

Charge == [kind : {"OTHER", "BOUNCE_CHARGE", "PENAL_CHARGE"}, day : Nat, amount : Nat, paid : Nat,
           remaining : Nat, status : {"PENDING", "PARTIAL", "PAID", "WAIVED"}]
Waiver == [charge : Nat, amount : Nat, told : BOOLEAN]
Form == [charge : Nat \ {0}, amount : Nat \ {0}, remaining : Nat, status : {"PENDING", "PARTIAL"}]

ChargeRows ==
  /\ charges \in Seq(Charge)
  /\ waivers \in Seq(Waiver)
  /\ \A w \in DOMAIN waivers : waivers[w].charge \in DOMAIN charges
  /\ day \in Nat /\ rps \in [paid : Nat, dpd : Nat]

\* The amounts a payment may come with.
Payments ==
  /\ debitRun \in [at : {"none", "active", "bounced"}, amount : Nat]
  /\ links \in [PayLinks -> [status : {"none", "INITIATED", "SUCCESS"},
                             gateway : {"none", "open", "paid", "dropped"}, amount : Nat]]
  /\ lpage \in [shown : [remaining : Nat, locked : BOOLEAN], link : PayLinks \cup {"none"},
                says : {"", "processing", "completed", "verifying"}]

\* One waiver is between its read and its transaction, and its charge is as it was read.
FormsHonest ==
  /\ form \in [Desks -> Form \cup {NoForm}]
  /\ \A d, e \in Desks : form[d] # NoForm /\ form[e] # NoForm => d = e
  /\ \A d \in Desks :
       form[d] # NoForm =>
         /\ form[d] \in Form
         /\ form[d].charge \in DOMAIN charges
         /\ charges[form[d].charge].remaining = form[d].remaining + form[d].amount
         /\ charges[form[d].charge].status = form[d].status

\* The nightly run goes on to the penal charge only when there is one.
PenalDue == overdueRun = "penal" => PenalCharge > 0

SvInv == ChargeRows /\ Payments /\ FormsHonest /\ PenalDue /\ ChargeAccounted

\* What the waivers ws take off charge c.
Waived(ws, c) ==
  Total([w \in DOMAIN ws |-> ws[w].amount], {w \in DOMAIN ws : ws[w].charge = c})

LEMMA WaiversFinite ==
  ASSUME NEW ws \in Seq(Waiver), NEW c
  PROVE  IsFiniteSet({w \in DOMAIN ws : ws[w].charge = c})
<1>1. DOMAIN ws = 1..Len(ws) /\ Len(ws) \in Nat
  OBVIOUS
<1>2. IsFiniteSet(1..Len(ws))
  BY <1>1, FS_Interval
<1>3. QED
  BY <1>1, <1>2, FS_Subset

LEMMA WaivedTyped ==
  ASSUME NEW ws \in Seq(Waiver), NEW c
  PROVE  Waived(ws, c) \in Nat
<1> DEFINE f == [w \in DOMAIN ws |-> ws[w].amount]
           S == {w \in DOMAIN ws : ws[w].charge = c}
<1>1. DOMAIN ws = 1..Len(ws) /\ Len(ws) \in Nat
  OBVIOUS
<1>2. IsFiniteSet(S)
  BY <1>1, WaiversFinite
<1>3. \A w \in S : f[w] \in Nat
  <2>1. \A w \in DOMAIN ws : ws[w] \in Waiver
    OBVIOUS
  <2>2. QED
    BY <2>1 DEF Waiver
<1>4. Total(f, S) \in Nat
  <2> HIDE DEF f, S
  <2>1. QED
    BY <1>2, <1>3, TotalTyped
<1>5. QED
  BY <1>4 DEF Waived

\* A waiver more.
LEMMA WaivedAppend ==
  ASSUME NEW ws \in Seq(Waiver), NEW x \in Waiver, NEW c
  PROVE  Waived(Append(ws, x), c) = Waived(ws, c) + (IF x.charge = c THEN x.amount ELSE 0)
<1> DEFINE n == Len(ws) + 1
           f == [w \in DOMAIN ws |-> ws[w].amount]
           S == {w \in DOMAIN ws : ws[w].charge = c}
           more == Append(ws, x)
           g == [w \in DOMAIN more |-> more[w].amount]
           T == {w \in DOMAIN more : more[w].charge = c}
<1>1. /\ DOMAIN ws = 1..Len(ws) /\ Len(ws) \in Nat
      /\ DOMAIN more = 1..n
      /\ \A w \in 1..Len(ws) : more[w] = ws[w] /\ ws[w] \in Waiver
      /\ more[n] = x
  OBVIOUS
<1>2. IsFiniteSet(S)
  BY <1>1, WaiversFinite
<1>3. \A w \in S : f[w] = g[w] /\ g[w] \in Nat
  <2>1. \A w \in S : w \in 1..Len(ws) /\ w \in 1..n
    BY <1>1
  <2>2. \A w \in S : f[w] = ws[w].amount /\ g[w] = ws[w].amount
    BY <1>1, <2>1
  <2>3. \A w \in S : ws[w].amount \in Nat
    BY <1>1, <2>1 DEF Waiver
  <2> HIDE DEF f, g, S
  <2>4. QED
    BY <2>2, <2>3
<1>4. n \notin S /\ g[n] = x.amount /\ x.amount \in Nat
  BY <1>1 DEF Waiver
<1>5. T = IF x.charge = c THEN S \cup {n} ELSE S
  BY <1>1
<1>6. Total(f, S) = Total(g, S)
  <2> HIDE DEF f, g, S
  <2>1. QED
    BY <1>3, TotalSame
<1>7. Total(g, S \cup {n}) = Total(g, S) + g[n]
  <2>1. \A w \in S \cup {n} : g[w] \in Nat
    BY <1>3, <1>4
  <2> HIDE DEF g, S, n
  <2>2. QED
    BY <2>1, <1>2, <1>4, TotalAdd
<1>8. Waived(ws, c) = Total(f, S) /\ Waived(more, c) = Total(g, T)
  BY DEF Waived
<1>9. Waived(ws, c) \in Nat
  BY WaivedTyped
<1> HIDE DEF f, g, S, T, n, more
<1>10. Waived(more, c) = Waived(ws, c) + (IF x.charge = c THEN x.amount ELSE 0)
  BY <1>4, <1>5, <1>6, <1>7, <1>8, <1>9
<1>11. QED
  BY <1>10 DEF more

\* Waivers that differ in what the lender was told.
LEMMA WaivedSame ==
  ASSUME NEW ws, NEW vs, DOMAIN vs = DOMAIN ws,
         \A w \in DOMAIN ws : vs[w].charge = ws[w].charge /\ vs[w].amount = ws[w].amount, NEW c
  PROVE  Waived(vs, c) = Waived(ws, c)
<1> DEFINE f == [w \in DOMAIN ws |-> ws[w].amount]
           g == [w \in DOMAIN vs |-> vs[w].amount]
<1>1. f = g
  OBVIOUS
<1>2. {w \in DOMAIN vs : vs[w].charge = c} = {w \in DOMAIN ws : ws[w].charge = c}
  OBVIOUS
<1>3. QED
  BY <1>1, <1>2 DEF Waived

\* What a payment takes from an open charge it adds to what is paid of it.
LEMMA SettledCharge ==
  ASSUME NEW c \in Charge, NEW left \in Nat \ {0},
         c.remaining > 0, c.status \in {"PENDING", "PARTIAL"}
  PROVE  /\ settled(c, left) \in Charge
         /\ settled(c, left).amount = c.amount
         /\ settled(c, left).paid + settled(c, left).remaining = c.paid + c.remaining
         /\ settled(c, left).status \in {"PENDING", "PARTIAL"} <=> settled(c, left).remaining > 0
         /\ settled(c, left).status # "PENDING"
<1> DEFINE part == Smaller(left, c.remaining)
<1>1. c.remaining \in Nat /\ c.paid \in Nat /\ c.amount \in Nat
  BY DEF Charge
<1>2. part \in Nat /\ part <= c.remaining /\ part > 0
  BY <1>1 DEF Smaller
<1> HIDE DEF part
<1>3. settled(c, left) = [c EXCEPT !.paid = c.paid + part, !.remaining = c.remaining - part,
                                   !.status = IF c.remaining = part THEN "PAID" ELSE "PARTIAL"]
  BY DEF settled, part
<1>4. c.paid + part \in Nat /\ c.remaining - part \in Nat
  BY <1>1, <1>2
<1>5. /\ settled(c, left).amount = c.amount
      /\ settled(c, left).paid = c.paid + part
      /\ settled(c, left).remaining = c.remaining - part
      /\ settled(c, left).status = IF c.remaining = part THEN "PAID" ELSE "PARTIAL"
  BY <1>3 DEF Charge
<1>6. settled(c, left) \in Charge
  BY <1>3, <1>4 DEF Charge
<1>7. QED
  BY <1>1, <1>2, <1>5, <1>6

LEMMA ChargeFields ==
  ASSUME charges \in Seq(Charge), NEW c \in DOMAIN charges
  PROVE  /\ charges[c] \in Charge
         /\ charges[c].amount \in Nat /\ charges[c].paid \in Nat /\ charges[c].remaining \in Nat
<1>1. charges[c] \in Charge
  OBVIOUS
<1>2. QED
  BY <1>1 DEF Charge

\* What is left of a payment for charge c.
LEMMA LeftTyped ==
  ASSUME charges \in Seq(Charge), NEW c \in DOMAIN charges, NEW left \in Nat
  PROVE  leftFor(c, left) \in Nat
<1> DEFINE f == [d \in DOMAIN charges |-> charges[d].remaining]
           S == {d \in 1 .. (c - 1) : outstanding(d)}
<1>1. DOMAIN charges = 1..Len(charges) /\ Len(charges) \in Nat /\ c \in Nat
  OBVIOUS
<1>2. IsFiniteSet(S)
  <2>1. IsFiniteSet(1..Len(charges))
    BY <1>1, FS_Interval
  <2>2. S \subseteq 1..Len(charges)
    BY <1>1
  <2>3. QED
    BY <2>1, <2>2, FS_Subset
<1>3. \A d \in S : f[d] \in Nat
  <2>1. \A d \in S : d \in DOMAIN charges
    BY <1>1
  <2>2. \A d \in DOMAIN charges : charges[d].remaining \in Nat
    BY ChargeFields
  <2>3. \A d \in S : f[d] = charges[d].remaining
    BY <2>1
  <2> HIDE DEF f, S
  <2>4. QED
    BY <2>1, <2>2, <2>3
<1>4. Total(f, S) \in Nat
  <2> HIDE DEF f, S
  <2>1. QED
    BY <1>2, <1>3, TotalTyped
<1>5. owedBefore(c) \in Nat
  BY <1>4 DEF owedBefore
<1>6. QED
  BY <1>5 DEF leftFor, Smaller

\* The charges after a payment: of each, what is paid and what remains add up as before.
LEMMA ChargesPaid ==
  ASSUME charges \in Seq(Charge), ChargeAccounted, NEW left \in Nat
  PROVE  /\ chargesAfter(left) \in Seq(Charge)
         /\ DOMAIN chargesAfter(left) = DOMAIN charges
         /\ \A c \in DOMAIN charges :
              LET now == chargesAfter(left)[c] IN
                /\ now.amount = charges[c].amount
                /\ now.paid + now.remaining = charges[c].paid + charges[c].remaining
                /\ now.status \in {"PENDING", "PARTIAL"} <=> now.remaining > 0
                /\ now.status = "PENDING" => now.paid = 0
<1> DEFINE after == chargesAfter(left)
<1>1. DOMAIN after = DOMAIN charges
  BY DEF chargesAfter
<1>2. ASSUME NEW c \in DOMAIN charges
      PROVE  /\ after[c] \in Charge
             /\ after[c].amount = charges[c].amount
             /\ after[c].paid + after[c].remaining = charges[c].paid + charges[c].remaining
             /\ after[c].status \in {"PENDING", "PARTIAL"} <=> after[c].remaining > 0
             /\ after[c].status = "PENDING" => after[c].paid = 0
  <2> DEFINE l == leftFor(c, left)
  <2>1. l \in Nat
    BY LeftTyped
  <2>2. after[c] = IF outstanding(c) /\ l > 0 THEN settled(charges[c], l) ELSE charges[c]
    BY DEF chargesAfter
  <2>3. /\ charges[c] \in Charge
        /\ outstanding(c) <=> charges[c].remaining > 0
        /\ outstanding(c) <=> charges[c].status \in {"PENDING", "PARTIAL"}
        /\ charges[c].status = "PENDING" => charges[c].paid = 0
    BY ChargeFields DEF ChargeAccounted, outstanding
  <2> HIDE DEF l, after
  <2>4. CASE outstanding(c) /\ l > 0
    <3>1. l \in Nat \ {0} /\ after[c] = settled(charges[c], l)
      BY <2>1, <2>2, <2>4
    <3>2. charges[c].remaining > 0 /\ charges[c].status \in {"PENDING", "PARTIAL"}
      BY <2>3, <2>4
    <3>3. QED
      BY <2>3, <3>1, <3>2, SettledCharge
  <2>5. CASE ~(outstanding(c) /\ l > 0)
    BY <2>2, <2>3, <2>5
  <2>6. QED
    BY <2>4, <2>5
<1>3. after \in Seq(Charge)
  <2>1. after = [c \in 1..Len(charges) |-> after[c]]
    BY <1>1 DEF chargesAfter
  <2>2. Len(charges) \in Nat /\ DOMAIN charges = 1..Len(charges)
    OBVIOUS
  <2> HIDE DEF after
  <2>3. after \in [1..Len(charges) -> Charge]
    BY <1>2, <2>1, <2>2
  <2>4. QED
    BY <2>2, <2>3
<1>4. QED
  BY <1>1, <1>2, <1>3

\* Rows whose paid and remaining amounts add up as before are still accounted for.
LEMMA AccountedKept ==
  ASSUME SvInv, UNCHANGED waivers,
         charges' \in Seq(Charge), DOMAIN charges' = DOMAIN charges,
         \A c \in DOMAIN charges :
           /\ charges'[c].amount = charges[c].amount
           /\ charges'[c].paid + charges'[c].remaining = charges[c].paid + charges[c].remaining
           /\ charges'[c].status \in {"PENDING", "PARTIAL"} <=> charges'[c].remaining > 0
           /\ charges'[c].status = "PENDING" => charges'[c].paid = 0
  PROVE  ChargeAccounted'
<1> SUFFICES ASSUME NEW c \in DOMAIN charges'
             PROVE  /\ charges'[c].amount
                         = charges'[c].paid + charges'[c].remaining + Waived(waivers', c)
                    /\ charges'[c].status \in {"PENDING", "PARTIAL"} <=> charges'[c].remaining > 0
                    /\ charges'[c].status = "PENDING" => charges'[c].paid = 0
  BY DEF ChargeAccounted, outstanding, waivedOf, waiversOf, Waived
<1>1. charges[c].amount = charges[c].paid + charges[c].remaining + Waived(waivers, c)
  BY DEF SvInv, ChargeAccounted, waivedOf, waiversOf, Waived
<1>2. Waived(waivers, c) \in Nat /\ Waived(waivers', c) = Waived(waivers, c)
  BY WaivedTyped DEF SvInv, ChargeRows
<1>3. /\ charges[c].paid \in Nat /\ charges[c].remaining \in Nat
      /\ charges'[c].paid \in Nat /\ charges'[c].remaining \in Nat
  <2>1. charges[c] \in Charge /\ charges'[c] \in Charge
    BY DEF SvInv, ChargeRows
  <2>2. QED
    BY <2>1 DEF Charge
<1>4. QED
  BY <1>1, <1>2, <1>3

\* Rows kept, forms that read them too.
LEMMA FormsKept ==
  ASSUME SvInv, UNCHANGED form, DOMAIN charges \subseteq DOMAIN charges',
         \A c \in DOMAIN charges : charges'[c] = charges[c]
  PROVE  FormsHonest'
BY DEF SvInv, FormsHonest

\* A new charge.
LEMMA ChargeAdded ==
  ASSUME SvInv, NEW kind \in {"OTHER", "BOUNCE_CHARGE", "PENAL_CHARGE"}, NEW amount \in Nat \ {0},
         addLoanCharge(kind, amount), UNCHANGED <<waivers, day, rps, form>>
  PROVE  ChargeRows' /\ FormsHonest' /\ ChargeAccounted'
<1> DEFINE n == Len(charges) + 1
           row == [kind |-> kind, day |-> day, amount |-> amount, paid |-> 0,
                   remaining |-> amount, status |-> "PENDING"]
<1>1. charges \in Seq(Charge) /\ day \in Nat /\ waivers \in Seq(Waiver)
  BY DEF SvInv, ChargeRows
<1>2. row \in Charge
  BY <1>1 DEF Charge
<1>3. charges' = Append(charges, row)
  BY DEF addLoanCharge
<1>4. /\ charges' \in Seq(Charge)
      /\ DOMAIN charges = 1..Len(charges) /\ Len(charges) \in Nat
      /\ DOMAIN charges' = 1..n
      /\ \A c \in DOMAIN charges : charges'[c] = charges[c]
      /\ charges'[n] = row
  <2> HIDE DEF row
  <2>1. QED
    BY <1>1, <1>2, <1>3
<1>5. ChargeRows'
  <2>1. DOMAIN charges \subseteq DOMAIN charges'
    BY <1>4
  <2>2. QED
    BY <1>4, <2>1 DEF SvInv, ChargeRows
<1>6. FormsHonest'
  <2>1. DOMAIN charges \subseteq DOMAIN charges'
    BY <1>4
  <2>2. QED
    BY <1>4, <2>1, FormsKept
<1>7. Waived(waivers, n) = 0
  <2>1. \A w \in DOMAIN waivers : waivers[w].charge # n
    BY <1>4 DEF SvInv, ChargeRows
  <2>2. {w \in DOMAIN waivers : waivers[w].charge = n} = {}
    BY <2>1
  <2>3. QED
    BY <2>2, TotalNone DEF Waived
<1>8. ASSUME NEW c \in DOMAIN charges'
      PROVE  /\ charges'[c].amount
                  = charges'[c].paid + charges'[c].remaining + Waived(waivers, c)
             /\ charges'[c].status \in {"PENDING", "PARTIAL"} <=> charges'[c].remaining > 0
             /\ charges'[c].status = "PENDING" => charges'[c].paid = 0
  <2>1. CASE c = n
    BY <1>4, <1>7, <2>1
  <2>2. CASE c # n
    <3>1. c \in DOMAIN charges /\ charges'[c] = charges[c]
      BY <1>4, <2>2
    <3> QED
      BY <3>1 DEF SvInv, ChargeAccounted, outstanding, waivedOf, waiversOf, Waived
  <2>3. QED
    BY <2>1, <2>2
<1>9. ChargeAccounted'
  BY <1>8 DEF ChargeAccounted, outstanding, waivedOf, waiversOf, Waived
<1>10. QED
  BY <1>5, <1>6, <1>9

\* Steps that leave charges and waivers alone.
LEMMA ChargesUntouched ==
  ASSUME SvInv, UNCHANGED <<charges, waivers, form>>, day' \in Nat, rps' \in [paid : Nat, dpd : Nat]
  PROVE  ChargeRows' /\ FormsHonest' /\ ChargeAccounted'
<1>1. ChargeRows' /\ FormsHonest'
  BY DEF SvInv, ChargeRows, FormsHonest
<1>2. charges' \in Seq(Charge)
  BY DEF SvInv, ChargeRows
<1>3. ASSUME NEW c \in DOMAIN charges
      PROVE  /\ charges'[c].amount = charges[c].amount
             /\ charges'[c].paid + charges'[c].remaining = charges[c].paid + charges[c].remaining
             /\ charges'[c].status \in {"PENDING", "PARTIAL"} <=> charges'[c].remaining > 0
             /\ charges'[c].status = "PENDING" => charges'[c].paid = 0
  BY DEF SvInv, ChargeAccounted, outstanding
<1>4. ChargeAccounted'
  BY <1>2, <1>3, AccountedKept
<1>5. QED
  BY <1>1, <1>4

\* A payment, while no waiver is between its read and its transaction.
LEMMA PaymentAccounted ==
  ASSUME SvInv, NEW amount \in Nat, processRepayment(amount),
         \A d \in Desks : form[d] = NoForm, UNCHANGED <<waivers, form, day>>
  PROVE  ChargeRows' /\ FormsHonest' /\ ChargeAccounted'
<1>1. CASE leftOf(rps.paid) = 0
  <2>1. UNCHANGED <<charges, rps>>
    BY <1>1 DEF processRepayment
  <2>2. day' \in Nat /\ rps' \in [paid : Nat, dpd : Nat]
    BY <2>1 DEF SvInv, ChargeRows
  <2>3. QED
    BY <2>1, <2>2, ChargesUntouched
<1>2. CASE leftOf(rps.paid) # 0
  <2> DEFINE left == IF amount > leftOf(rps.paid) THEN amount - leftOf(rps.paid) ELSE 0
  <2>1. /\ charges \in Seq(Charge) /\ rps \in [paid : Nat, dpd : Nat] /\ ChargeAccounted
        /\ waivers \in Seq(Waiver)
    BY DEF SvInv, ChargeRows
  <2>2. leftOf(rps.paid) \in Nat
    BY <2>1, AmountAssumption DEF leftOf, Instalment
  <2>3. left \in Nat
    BY <2>2
  <2>4. charges' = chargesAfter(left) /\ rps' = [rps EXCEPT !.paid = @ + amount]
    BY <1>2 DEF processRepayment
  <2>5. rps' \in [paid : Nat, dpd : Nat]
    BY <2>1, <2>4
  <2> HIDE DEF left
  <2>6. /\ charges' \in Seq(Charge) /\ DOMAIN charges' = DOMAIN charges
        /\ \A c \in DOMAIN charges :
             /\ charges'[c].amount = charges[c].amount
             /\ charges'[c].paid + charges'[c].remaining = charges[c].paid + charges[c].remaining
             /\ charges'[c].status \in {"PENDING", "PARTIAL"} <=> charges'[c].remaining > 0
             /\ charges'[c].status = "PENDING" => charges'[c].paid = 0
    BY <2>1, <2>3, <2>4, ChargesPaid
  <2>7. ChargeAccounted'
    BY <2>6, AccountedKept
  <2>8. ChargeRows'
    BY <2>5, <2>6 DEF SvInv, ChargeRows
  <2>9. FormsHonest'
    BY DEF SvInv, FormsHonest
  <2>10. QED
    BY <2>7, <2>8, <2>9
<1>3. QED
  BY <1>1, <1>2

\* The transaction of a waiver.
LEMMA WaiverAccounted ==
  ASSUME SvInv, NEW d \in Desks, waiverWritten(d)
  PROVE  ChargeRows' /\ FormsHonest' /\ ChargeAccounted'
<1> DEFINE f == form[d]
           c0 == f.charge
           row == [charge |-> f.charge, amount |-> f.amount, told |-> FALSE]
           was == charges[c0]
<1>1. /\ charges \in Seq(Charge) /\ waivers \in Seq(Waiver) /\ day' = day /\ rps' = rps
      /\ f \in Form /\ c0 \in DOMAIN charges
      /\ was.remaining = f.remaining + f.amount /\ was.status = f.status
  BY DEF waiverWritten, SvInv, ChargeRows, FormsHonest
<1>2. /\ f.amount \in Nat \ {0} /\ f.remaining \in Nat /\ f.status \in {"PENDING", "PARTIAL"}
      /\ f.charge \in Nat
  BY <1>1 DEF Form
<1>3. was \in Charge
  BY <1>1
<1> HIDE DEF f
<1> DEFINE now == [was EXCEPT !.remaining = f.remaining,
                              !.status = IF f.remaining = 0 THEN "WAIVED" ELSE f.status]
<1>4. now \in Charge
  BY <1>2, <1>3 DEF Charge
<1>5. /\ charges' = [charges EXCEPT ![c0] = now]
      /\ waivers' = Append(waivers, row)
      /\ form' = [form EXCEPT ![d] = NoForm]
  <2>1. charges' = [charges EXCEPT ![c0].remaining = f.remaining,
                                   ![c0].status = IF f.remaining = 0 THEN "WAIVED" ELSE f.status]
    BY DEF waiverWritten, f
  <2>2. waivers' = Append(waivers, row) /\ form' = [form EXCEPT ![d] = NoForm]
    BY DEF waiverWritten, f
  <2>3. charges' = [charges EXCEPT ![c0] = now]
    BY <2>1, <1>1
  <2>4. QED
    BY <2>2, <2>3
<1>6. /\ now.amount = was.amount /\ now.paid = was.paid /\ now.remaining = f.remaining
      /\ now.status = IF f.remaining = 0 THEN "WAIVED" ELSE f.status
  BY <1>3 DEF Charge
<1>7. row \in Waiver /\ row.charge = c0 /\ row.amount = f.amount
  BY <1>2 DEF Waiver
<1> HIDE DEF now, row, was
<1>8. /\ charges' \in Seq(Charge) /\ DOMAIN charges' = DOMAIN charges
      /\ charges'[c0] = now
      /\ \A c \in DOMAIN charges : c # c0 => charges'[c] = charges[c]
  BY <1>1, <1>4, <1>5
<1>9. /\ waivers' \in Seq(Waiver)
      /\ \A w \in DOMAIN waivers' : waivers'[w].charge \in DOMAIN charges'
  <2>1. waivers' \in Seq(Waiver)
    BY <1>1, <1>5, <1>7
  <2>2. \A w \in DOMAIN waivers' :
          \/ w \in DOMAIN waivers /\ waivers'[w] = waivers[w]
          \/ waivers'[w] = row
    BY <1>1, <1>5, <1>7
  <2>3. QED
    BY <1>1, <1>7, <1>8, <2>1, <2>2 DEF SvInv, ChargeRows
<1>10. ChargeRows'
  BY <1>1, <1>8, <1>9 DEF SvInv, ChargeRows
<1>11. FormsHonest'
  <2>1. form' \in [Desks -> Form \cup {NoForm}]
    BY <1>5 DEF SvInv, FormsHonest
  <2>2. \A e \in Desks : form'[e] = NoForm
    <3>1. form[d] # NoForm
      BY DEF waiverWritten
    <3>2. \A e \in Desks : e # d => form[e] = NoForm
      BY <3>1 DEF SvInv, FormsHonest
    <3>3. QED
      BY <1>5, <3>2 DEF SvInv, FormsHonest
  <2>3. QED
    BY <2>1, <2>2 DEF FormsHonest
<1>12. ASSUME NEW c \in DOMAIN charges'
       PROVE  /\ charges'[c].amount
                   = charges'[c].paid + charges'[c].remaining + Waived(waivers', c)
              /\ charges'[c].status \in {"PENDING", "PARTIAL"} <=> charges'[c].remaining > 0
              /\ charges'[c].status = "PENDING" => charges'[c].paid = 0
  <2>1. /\ charges[c].amount = charges[c].paid + charges[c].remaining + Waived(waivers, c)
        /\ charges[c].status \in {"PENDING", "PARTIAL"} <=> charges[c].remaining > 0
        /\ charges[c].status = "PENDING" => charges[c].paid = 0
    BY <1>8 DEF SvInv, ChargeAccounted, outstanding, waivedOf, waiversOf, Waived
  <2>2. Waived(waivers', c) = Waived(waivers, c) + (IF c0 = c THEN f.amount ELSE 0)
    BY <1>1, <1>5, <1>7, WaivedAppend
  <2>3. Waived(waivers, c) \in Nat
    BY <1>1, WaivedTyped
  <2>4. charges[c].paid \in Nat /\ charges[c].remaining \in Nat
    BY <1>1, <1>8, ChargeFields
  <2>5. CASE c = c0
    <3>1. /\ charges'[c].amount = charges[c].amount /\ charges'[c].paid = charges[c].paid
          /\ charges'[c].remaining = f.remaining
          /\ charges'[c].status = IF f.remaining = 0 THEN "WAIVED" ELSE f.status
      BY <1>6, <1>8, <2>5 DEF was
    <3>2. charges[c].remaining = f.remaining + f.amount /\ charges[c].status = f.status
      BY <1>1, <2>5 DEF was
    <3>3. Waived(waivers', c) = Waived(waivers, c) + f.amount
      BY <2>2, <2>5
    <3>4. QED
      BY <1>2, <2>1, <2>3, <2>4, <3>1, <3>2, <3>3
  <2>6. CASE c # c0
    BY <1>8, <2>1, <2>2, <2>3, <2>6
  <2>7. QED
    BY <2>5, <2>6
<1>13. ChargeAccounted'
  BY <1>12 DEF ChargeAccounted, outstanding, waivedOf, waiversOf, Waived
<1>14. QED
  BY <1>10, <1>11, <1>13

\* What an operator's waiver read, with the requests before it done.
LEMMA WaiverRead ==
  ASSUME SvInv, ~SharedCharges, NEW d \in Desks, NEW c \in DOMAIN charges, NEW n \in WaiverAmounts,
         waiveLoanCharge(d, c, n)
  PROVE  FormsHonest'
<1> DEFINE f == [charge |-> c, amount |-> n, remaining |-> charges[c].remaining - n,
                 status |-> charges[c].status]
<1>1. /\ form' = [form EXCEPT ![d] = f] /\ charges' = charges
      /\ \A e \in Desks : form[e] = NoForm
      /\ n <= charges[c].remaining /\ charges[c].status \in {"PENDING", "PARTIAL"}
  BY DEF waiveLoanCharge, undisturbed, outstanding
<1>2. charges[c].remaining \in Nat /\ n \in Nat \ {0} /\ c \in Nat \ {0}
  <2>1. charges \in Seq(Charge)
    BY DEF SvInv, ChargeRows
  <2>2. charges[c].remaining \in Nat
    BY <2>1, ChargeFields
  <2>3. c \in Nat \ {0}
    BY <2>1
  <2>4. QED
    BY <2>2, <2>3, AmountAssumption
<1>3. f \in Form
  BY <1>1, <1>2 DEF Form
<1>4. form' \in [Desks -> Form \cup {NoForm}] /\ form'[d] = f
  <2> HIDE DEF f
  <2>1. form \in [Desks -> Form \cup {NoForm}]
    BY DEF SvInv, FormsHonest
  <2>2. QED
    BY <1>1, <1>3, <2>1
<1>5. \A e \in Desks : e # d => form'[e] = NoForm
  BY <1>1 DEF SvInv, FormsHonest
<1>6. /\ f.charge \in DOMAIN charges'
      /\ charges'[f.charge].remaining = f.remaining + f.amount
      /\ charges'[f.charge].status = f.status
  BY <1>1, <1>2
<1> HIDE DEF f
<1>7. QED
  BY <1>3, <1>4, <1>5, <1>6 DEF FormsHonest

\* The lender is told of a waiver.
LEMMA WaiverTold ==
  ASSUME SvInv, NEW key \in notes, notified(key)
  PROVE  ChargeRows' /\ FormsHonest' /\ ChargeAccounted'
<1>1. /\ charges' = charges /\ form' = form /\ day' = day /\ rps' = rps
      /\ \/ waivers' = waivers
         \/ waivers' = [waivers EXCEPT ![key[2]].told = TRUE]
  BY DEF notified
<1>2. /\ waivers' \in Seq(Waiver) /\ DOMAIN waivers' = DOMAIN waivers
      /\ \A w \in DOMAIN waivers : /\ waivers'[w].charge = waivers[w].charge
                                   /\ waivers'[w].amount = waivers[w].amount
  <2>1. waivers \in Seq(Waiver)
    BY DEF SvInv, ChargeRows
  <2>2. CASE waivers' = waivers
    BY <2>1, <2>2
  <2>3. CASE waivers' = [waivers EXCEPT ![key[2]].told = TRUE]
    <3> DEFINE k == key[2]
               told == [waivers[k] EXCEPT !.told = TRUE]
    <3>1. CASE k \in DOMAIN waivers
      <4>1. waivers[k] \in Waiver
        BY <2>1, <3>1
      <4>2. told \in Waiver /\ told.charge = waivers[k].charge /\ told.amount = waivers[k].amount
        BY <4>1 DEF Waiver
      <4>3. waivers' = [waivers EXCEPT ![k] = told]
        BY <2>3, <3>1
      <4> HIDE DEF told, k
      <4>4. QED
        BY <2>1, <3>1, <4>2, <4>3
    <3>2. CASE k \notin DOMAIN waivers
      <4>1. waivers' = waivers
        BY <2>1, <2>3, <3>2
      <4>2. QED
        BY <2>1, <4>1
    <3>3. QED
      BY <3>1, <3>2
  <2>4. QED
    BY <1>1, <2>2, <2>3
<1>3. ChargeRows'
  BY <1>1, <1>2 DEF SvInv, ChargeRows
<1>4. FormsHonest'
  BY <1>1 DEF SvInv, FormsHonest
<1>5. \A c : Waived(waivers', c) = Waived(waivers, c)
  BY <1>2, WaivedSame
<1>6. ChargeAccounted'
  <2> SUFFICES ASSUME NEW c \in DOMAIN charges'
               PROVE  /\ charges'[c].amount
                           = charges'[c].paid + charges'[c].remaining + Waived(waivers', c)
                      /\ charges'[c].status \in {"PENDING", "PARTIAL"} <=> charges'[c].remaining > 0
                      /\ charges'[c].status = "PENDING" => charges'[c].paid = 0
    BY DEF ChargeAccounted, outstanding, waivedOf, waiversOf, Waived
  <2>1. Waived(waivers', c) = Waived(waivers, c)
    BY <1>5
  <2>2. /\ charges[c].amount = charges[c].paid + charges[c].remaining + Waived(waivers, c)
        /\ charges[c].status \in {"PENDING", "PARTIAL"} <=> charges[c].remaining > 0
        /\ charges[c].status = "PENDING" => charges[c].paid = 0
    BY <1>1 DEF SvInv, ChargeAccounted, outstanding, waivedOf, waiversOf, Waived
  <2>3. QED
    BY <1>1, <2>1, <2>2
<1>7. QED
  BY <1>3, <1>4, <1>6

LEMMA SvStarts == SvInit => SvInv
<1> SUFFICES ASSUME SvInit PROVE SvInv
  OBVIOUS
<1>0. charges = <<>> /\ waivers = <<>> /\ DOMAIN charges = {} /\ DOMAIN waivers = {}
  <2>1. charges = <<>> /\ waivers = <<>>
    BY DEF SvInit
  <2>3. DOMAIN <<>> = {}
    OBVIOUS
  <2>4. QED
    BY <2>1, <2>3
<1>1. ChargeRows
  <2>1. charges \in Seq(Charge) /\ waivers \in Seq(Waiver)
    BY <1>0
  <2>2. day \in Nat /\ rps \in [paid : Nat, dpd : Nat]
    BY DEF SvInit
  <2>3. QED
    BY <1>0, <2>1, <2>2 DEF ChargeRows
<1>2. Payments
  <2>1. leftOf(0) \in Nat
    BY AmountAssumption DEF leftOf, Instalment
  <2>2. lpage.shown \in [remaining : Nat, locked : BOOLEAN]
    BY <2>1 DEF SvInit, getLoanDetails
  <2>3. QED
    BY <2>2 DEF SvInit, Payments
<1>3. FormsHonest
  BY DEF SvInit, FormsHonest
<1>4. ChargeAccounted
  BY <1>0 DEF ChargeAccounted
<1>5. PenalDue
  BY DEF SvInit, PenalDue
<1>6. QED
  BY <1>1, <1>2, <1>3, <1>4, <1>5 DEF SvInv

LEMMA PenalDueKept == SvInv /\ (SvNext \/ UNCHANGED svVars) => PenalDue'
<1> SUFFICES ASSUME SvInv, SvNext \/ UNCHANGED svVars, overdueRun' = "penal"
             PROVE  PenalCharge > 0
  BY DEF PenalDue
<1>1. CASE overdueRun = "penal"
  BY <1>1 DEF SvInv, PenalDue
<1>2. CASE overdueRun # "penal"
  <2>1. dpdIncremented
    BY <1>2 DEF SvNext, svVars, addCharge, applyBounceChargeIfEligible, penalCharged, overdueRunDies,
                waiverWritten, waiveLoanCharge, runDailyOverdueCharges, debitPresented,
                debitAnswered, fetchDetails, pollRepaymentStatus, handleExecutePayment, linkPaid,
                checkoutEnds, cancelMandateForLoan, notified, notificationFails, nextDay
  <2>2. QED
    BY <2>1 DEF dpdIncremented
<1>3. QED
  BY <1>1, <1>2

\* Amounts are naturals; a debit, a link and the page are what the rows say.
LEMMA PaymentsKept ==
  ASSUME SvInv, SvNext \/ UNCHANGED svVars
  PROVE  Payments'
<1>1. /\ charges \in Seq(Charge) /\ rps \in [paid : Nat, dpd : Nat]
      /\ debitRun \in [at : {"none", "active", "bounced"}, amount : Nat]
      /\ links \in [PayLinks -> [status : {"none", "INITIATED", "SUCCESS"},
                                 gateway : {"none", "open", "paid", "dropped"}, amount : Nat]]
      /\ lpage \in [shown : [remaining : Nat, locked : BOOLEAN], link : PayLinks \cup {"none"},
                    says : {"", "processing", "completed", "verifying"}]
  BY DEF SvInv, Payments, ChargeRows
<1>2. leftOf(rps.paid) \in Nat
  <2>1. rps.paid \in Nat
    BY DEF SvInv, ChargeRows
  <2>2. Interest + Principal \in Nat
    BY AmountAssumption
  <2>3. QED
    BY <2>1, <2>2 DEF leftOf, Instalment
<1>3. getLoanDetails \in [remaining : Nat, locked : BOOLEAN]
  BY <1>2 DEF getLoanDetails
<1>4. CASE debitPresented
  <2>1. Smaller(leftOf(rps.paid), MandateAmount) \in Nat
    BY <1>2, AmountAssumption DEF Smaller
  <2>2. QED
    BY <1>1, <1>4, <2>1 DEF debitPresented, Payments
<1>5. ASSUME NEW ok \in BOOLEAN, debitAnswered(ok) PROVE Payments'
  BY <1>1, <1>5 DEF debitAnswered, Payments
<1>6. CASE applyBounceChargeIfEligible
  BY <1>1, <1>6 DEF applyBounceChargeIfEligible, Payments
<1>7. CASE fetchDetails
  BY <1>1, <1>3, <1>7 DEF fetchDetails, Payments
<1>8. CASE pollRepaymentStatus
  BY <1>1, <1>3, <1>8 DEF pollRepaymentStatus, Payments
<1>9. ASSUME NEW l \in PayLinks, handleExecutePayment(l) PROVE Payments'
  <2> DEFINE n == Smaller(lpage.shown.remaining, leftOf(rps.paid))
  <2>1. n \in Nat
    BY <1>1, <1>2 DEF Smaller
  <2>2. /\ links' = [links EXCEPT ![l] = [status |-> "INITIATED", gateway |-> "open", amount |-> n]]
        /\ lpage' = [lpage EXCEPT !.link = l, !.says = "processing"] /\ debitRun' = debitRun
    BY <1>9 DEF handleExecutePayment
  <2> HIDE DEF n
  <2>3. QED
    BY <1>1, <2>1, <2>2 DEF Payments
<1>10. ASSUME NEW l \in PayLinks, linkPaid(l) PROVE Payments'
  BY <1>1, <1>10 DEF linkPaid, Payments
<1>11. ASSUME NEW l \in PayLinks, NEW ok \in BOOLEAN, checkoutEnds(l, ok) PROVE Payments'
  <2>1. links' = [links EXCEPT ![l].gateway = IF ok THEN "paid" ELSE "dropped"] /\ debitRun' = debitRun
    BY <1>11 DEF checkoutEnds
  <2>2. lpage' = lpage \/ lpage' = [lpage EXCEPT !.link = "none", !.says = ""]
    BY <1>11 DEF checkoutEnds
  <2>3. QED
    BY <1>1, <2>1, <2>2 DEF Payments
<1>12. CASE UNCHANGED <<debitRun, links, lpage>>
  BY <1>1, <1>12 DEF Payments
<1>13. CASE \/ addCharge \/ dpdIncremented \/ penalCharged \/ overdueRunDies \/ nextDay
            \/ UNCHANGED svVars
  <2>1. UNCHANGED <<debitRun, links, lpage>>
    BY <1>13 DEF addCharge, dpdIncremented, penalCharged, overdueRunDies, nextDay, svVars
  <2>2. QED
    BY <1>12, <2>1
<1>14. CASE \E d \in Desks : waiverWritten(d) \/ \E c \in DOMAIN charges, n \in WaiverAmounts :
                                                   waiveLoanCharge(d, c, n)
  <2>1. UNCHANGED <<debitRun, links, lpage>>
    BY <1>14 DEF waiverWritten, waiveLoanCharge
  <2>2. QED
    BY <1>12, <2>1
<1>15. CASE (\E by \in {"cron", "operator"} : runDailyOverdueCharges(by))
            \/ (\E by \in {"paid", "operator"} : cancelMandateForLoan(by))
            \/ (\E key \in notes : notified(key) \/ notificationFails(key))
  <2>1. UNCHANGED <<debitRun, links, lpage>>
    BY <1>15 DEF runDailyOverdueCharges, cancelMandateForLoan, notified, notificationFails
  <2>2. QED
    BY <1>12, <2>1
<1>16. QED
  BY <1>4, <1>5, <1>6, <1>7, <1>8, <1>9, <1>10, <1>11, <1>13, <1>14, <1>15 DEF SvNext

\* Charges stay accounted for, one step per operation.
LEMMA ChargesKept ==
  ASSUME SvInv, ~SharedCharges, SvNext \/ UNCHANGED svVars
  PROVE  ChargeRows' /\ FormsHonest' /\ ChargeAccounted'
<1>1. /\ rps \in [paid : Nat, dpd : Nat] /\ day \in Nat
      /\ debitRun.amount \in Nat /\ \A l \in PayLinks : links[l].amount \in Nat
  BY DEF SvInv, ChargeRows, Payments
<1>2. CASE addCharge
  <2>1. addLoanCharge("OTHER", OperatorCharge) /\ UNCHANGED <<waivers, day, rps, form>>
    BY <1>2 DEF addCharge
  <2>2. QED
    BY <2>1, ChargeAdded, AmountAssumption
<1>3. CASE applyBounceChargeIfEligible
  <2>1. UNCHANGED <<waivers, day, rps, form>>
    BY <1>3 DEF applyBounceChargeIfEligible
  <2>2. \/ UNCHANGED charges
        \/ BounceCharge # 0 /\ addLoanCharge("BOUNCE_CHARGE", BounceCharge)
    BY <1>3 DEF applyBounceChargeIfEligible
  <2>3. BounceCharge # 0 => BounceCharge \in Nat \ {0}
    BY AmountAssumption
  <2>4. QED
    BY <1>1, <2>1, <2>2, <2>3, ChargeAdded, ChargesUntouched
<1>4. CASE penalCharged
  <2>1. UNCHANGED <<waivers, day, rps, form>>
    BY <1>4 DEF penalCharged
  <2>2. UNCHANGED charges \/ addLoanCharge("PENAL_CHARGE", PenalCharge)
    BY <1>4 DEF penalCharged
  <2>3. PenalCharge \in Nat \ {0}
    BY <1>4, AmountAssumption DEF penalCharged, SvInv, PenalDue
  <2>4. QED
    BY <1>1, <2>1, <2>2, <2>3, ChargeAdded, ChargesUntouched
<1>5. ASSUME NEW d \in Desks, waiverWritten(d) PROVE ChargeRows' /\ FormsHonest' /\ ChargeAccounted'
  BY <1>5, WaiverAccounted
<1>6. ASSUME NEW d \in Desks, NEW c \in DOMAIN charges, NEW n \in WaiverAmounts,
             waiveLoanCharge(d, c, n)
      PROVE  ChargeRows' /\ FormsHonest' /\ ChargeAccounted'
  <2>1. UNCHANGED <<charges, waivers, day, rps>>
    BY <1>6 DEF waiveLoanCharge
  <2>2. FormsHonest'
    BY <1>6, WaiverRead
  <2>3. ChargeRows'
    BY <2>1 DEF SvInv, ChargeRows
  <2>4. ChargeAccounted'
    <3>1. charges' \in Seq(Charge)
      BY <2>1 DEF SvInv, ChargeRows
    <3>2. ASSUME NEW k \in DOMAIN charges
          PROVE  /\ charges'[k].amount = charges[k].amount
                 /\ charges'[k].paid + charges'[k].remaining
                      = charges[k].paid + charges[k].remaining
                 /\ charges'[k].status \in {"PENDING", "PARTIAL"} <=> charges'[k].remaining > 0
                 /\ charges'[k].status = "PENDING" => charges'[k].paid = 0
      BY <2>1 DEF SvInv, ChargeAccounted, outstanding
    <3>3. QED
      BY <2>1, <3>1, <3>2, AccountedKept
  <2>5. QED
    BY <2>2, <2>3, <2>4
<1>7. ASSUME NEW ok \in BOOLEAN, debitAnswered(ok)
      PROVE  ChargeRows' /\ FormsHonest' /\ ChargeAccounted'
  <2>1. UNCHANGED <<waivers, form, day>> /\ \A d \in Desks : form[d] = NoForm
    BY <1>7 DEF debitAnswered, undisturbed
  <2>2. processRepayment(debitRun.amount) \/ UNCHANGED <<charges, rps>>
    BY <1>7 DEF debitAnswered
  <2>3. QED
    BY <1>1, <2>1, <2>2, PaymentAccounted, ChargesUntouched
<1>8. ASSUME NEW l \in PayLinks, linkPaid(l)
      PROVE  ChargeRows' /\ FormsHonest' /\ ChargeAccounted'
  <2>1. UNCHANGED <<waivers, form, day>> /\ \A d \in Desks : form[d] = NoForm
    BY <1>8 DEF linkPaid, undisturbed
  <2>2. processRepayment(links[l].amount) \/ UNCHANGED <<charges, rps>>
    BY <1>8 DEF linkPaid
  <2>3. QED
    BY <1>1, <2>1, <2>2, PaymentAccounted, ChargesUntouched
<1>9. ASSUME NEW key \in notes, notified(key)
      PROVE  ChargeRows' /\ FormsHonest' /\ ChargeAccounted'
  BY <1>9, WaiverTold
<1>10. CASE UNCHANGED <<charges, waivers, form>> /\ day' \in Nat /\ rps' \in [paid : Nat, dpd : Nat]
  BY <1>10, ChargesUntouched
<1>11. CASE \/ dpdIncremented \/ overdueRunDies \/ debitPresented \/ fetchDetails
            \/ pollRepaymentStatus \/ nextDay \/ UNCHANGED svVars
            \/ (\E by \in {"cron", "operator"} : runDailyOverdueCharges(by))
            \/ (\E by \in {"paid", "operator"} : cancelMandateForLoan(by))
            \/ (\E key \in notes : notificationFails(key))
            \/ (\E l \in PayLinks : \/ handleExecutePayment(l)
                                    \/ \E ok \in BOOLEAN : checkoutEnds(l, ok))
  <2>1. UNCHANGED <<charges, waivers, form>>
    BY <1>11 DEF dpdIncremented, overdueRunDies, debitPresented, fetchDetails, pollRepaymentStatus,
                 nextDay, svVars, runDailyOverdueCharges, cancelMandateForLoan, notificationFails,
                 handleExecutePayment, checkoutEnds
  <2>2. day' = day \/ day' = day + 1
    BY <1>11 DEF dpdIncremented, overdueRunDies, debitPresented, fetchDetails, pollRepaymentStatus,
                 nextDay, svVars, runDailyOverdueCharges, cancelMandateForLoan, notificationFails,
                 handleExecutePayment, checkoutEnds
  <2>3. rps' = rps \/ rps' = [rps EXCEPT !.dpd = @ + 1]
    BY <1>11 DEF dpdIncremented, overdueRunDies, debitPresented, fetchDetails, pollRepaymentStatus,
                 nextDay, svVars, runDailyOverdueCharges, cancelMandateForLoan, notificationFails,
                 handleExecutePayment, checkoutEnds
  <2>4. day' \in Nat /\ rps' \in [paid : Nat, dpd : Nat]
    BY <1>1, <2>2, <2>3
  <2>5. QED
    BY <1>10, <2>1, <2>4
<1>12. QED
  BY <1>2, <1>3, <1>4, <1>5, <1>6, <1>7, <1>8, <1>9, <1>11 DEF SvNext

\* Every rupee of a charge is collected, waived or outstanding, whatever order charges,
\* payments, waivers and notifications come in, for any amounts and any number of each, when
\* the requests that write a charge are handled one after the other: of two waivers of one
\* charge that overlap, the second overwrites what the first left (LoanService.waiveLoanCharge
\* reads before its transaction).
THEOREM ChargeAccountedHolds == ~SharedCharges => (SvSpec => []ChargeAccounted)
<1> SUFFICES ASSUME ~SharedCharges PROVE SvSpec => []ChargeAccounted
  OBVIOUS
<1>1. SvInit => SvInv
  BY SvStarts
<1>2. SvInv /\ [SvNext]_svVars => SvInv'
  BY ChargesKept, PaymentsKept, PenalDueKept DEF SvInv
<1>3. SvInv => ChargeAccounted
  BY DEF SvInv
<1>4. QED
  BY <1>1, <1>2, <1>3, PTL DEF SvSpec

-------------------------------------------------------------------------------
(* Collection (LoanCollection): what a worker may be doing.                 *)

Repayment == [id : PaymentIds, ref : PaymentIds, amount : Nat]
Snapshot == [paid : Nat, ledger : SUBSET Repayment]
Places == {"idle", "due", "tell", "found", "rows", "decide", "notify", "create", "submit",
           "answered", "ask", "credit", "crediting", "closing"}
JobNames == {"none", "enach", "prepare", "notify", "upi", "retry", "execute", "single",
             "reconcile", "webhook", "link"}
Answers == {"none", "update", "create", "IN_PROCESS", "UNKNOWN", "FAILURE"}
WorkerState == [pc : Places, job : JobNames, n : Attempts, amount : Nat, answer : Answers,
                notif : Nat, id : PaymentIds, ref : PaymentIds, snap : Snapshot]

Holding == {"found", "notify", "submit", "answered", "ask", "closing"}
\* Which job brings a worker where, and that the row it works on is there.
Fits(t, rows) ==
  /\ t.pc = "due" => t.job = "enach"
  /\ t.job = "enach" => MandateType = "ENACH"
  /\ t.pc = "tell" => t.job \in {"prepare", "notify"} /\ t.answer \in {"update", "create"}
  /\ t.pc = "found" => t.job = "upi"
  /\ t.pc \in {"rows", "decide", "notify"} => t.job \in {"retry", "execute"}
  /\ t.pc = "create" => t.job \in {"enach", "retry", "execute"}
  /\ t.pc \in {"submit", "answered"} => t.job \in {"enach", "upi", "retry", "execute"}
  /\ t.pc = "answered" => t.answer \in {"IN_PROCESS", "UNKNOWN", "FAILURE"}
  /\ t.pc = "closing" => t.job = "webhook"
  /\ t.pc = "ask" => t.job \in {"retry", "execute", "single", "reconcile"}
  /\ t.pc \in Holding => rows[t.n].status # "absent"
  /\ t.pc = "tell" /\ t.answer = "update" => rows[t.n].status # "absent"
  /\ t.pc \in {"credit", "crediting", "closing"} /\ t.job = "webhook"
       => rows[t.n].status # "absent"

CollTyped ==
  /\ paid \in Nat /\ ledger \in SUBSET Repayment
  /\ debit \in [Attempts -> [status : RowStatus, amount : Nat, notif : Nat]]
  /\ bank \in [Attempts -> [state : {"none", "pending", "collected", "bounced"}, amount : Nat,
                            notif : Nat]]
  /\ link \in [Links -> [status : {"absent", "INITIATED", "PENDING", "SUCCESS"}, amount : Nat]]
  /\ gateway \in SUBSET Links
  /\ worker \in [Workers -> WorkerState]
  /\ \A w \in Workers : Fits(worker[w], debit)
  /\ \A n \in Attempts : bank[n].state # "none" => debit[n].status # "absent"
  /\ \A l \in gateway : link[l].status # "absent"

\* A nonempty set of attempts has a last one.
LEMMA LastAttempt ==
  ASSUME NEW T, T \subseteq Attempts, T # {}
  PROVE  Max(T) \in T
<1> DEFINE Left == {MaxDebits - x : x \in T}
<1>1. MaxDebits \in Nat
  BY DebitsAssumption
<1>2. Left \subseteq Nat /\ Left # {}
  <2>1. \A x \in T : x \in 1..MaxDebits
    BY DEF Attempts
  <2>2. \A x \in T : MaxDebits - x \in Nat
    BY <1>1, <2>1
  <2>3. QED
    BY <2>2
<1> DEFINE R == {ss \in Nat \X Nat : ss[1] < ss[2]}
<1>w. IsWellFoundedOn(R, Nat)
  BY NatLessThanWellFounded DEF OpToRel
<1>3. PICK y \in Left : \A z \in Left : ~ (<<z, y>> \in R)
  <2> HIDE DEF Left, R
  <2>1. QED
    BY <1>2, <1>w, WFMin
<1>4. \A z \in Left : ~ (z < y)
  BY <1>2, <1>3
<1>5. PICK x \in T : y = MaxDebits - x
  BY <1>3
<1>6. \A z \in T : x >= z
  BY <1>1, <1>4, <1>5 DEF Attempts
<1>7. QED
  BY <1>5, <1>6 DEF Max

LEMMA DebitAmountTyped ==
  ASSUME NEW p \in Nat
  PROVE  DebitAmount(p) \in Nat /\ Remaining(p) \in Nat /\ DebitAmount(p) <= Emi
BY AmountsAssumption DEF DebitAmount, Remaining

LEMMA OneIsAttempt == 1 \in Attempts /\ Debit(1) \in PaymentIds
BY DebitsAssumption DEF Attempts, PaymentIds, Debit

LEMMA IdleTyped == Idle \in WorkerState /\ \A rows : Fits(Idle, rows)
BY OneIsAttempt DEF Idle, WorkerState, Places, JobNames, Answers, Snapshot, NoSnap, Fits, Holding

\* A step of one worker, which removes no row.
LEMMA OneWorker ==
  ASSUME CollTyped, NEW w \in Workers, NEW t \in WorkerState, Fits(t, debit'),
         worker' = [worker EXCEPT ![w] = t],
         \A n \in Attempts : debit[n].status # "absent" => debit'[n].status # "absent"
  PROVE  worker' \in [Workers -> WorkerState] /\ \A v \in Workers : Fits(worker'[v], debit')
<1>1. worker \in [Workers -> WorkerState] /\ \A v \in Workers : Fits(worker[v], debit)
  BY DEF CollTyped
<1>2. worker' \in [Workers -> WorkerState]
  BY <1>1
<1>3. ASSUME NEW v \in Workers PROVE Fits(worker'[v], debit')
  <2>1. CASE v = w
    <3>1. worker'[v] = t
      BY <1>1, <2>1
    <3>2. QED
      BY <3>1 DEF Fits
  <2>2. CASE v # w
    <3>1. worker'[v] = worker[v] /\ worker[v].n \in Attempts
      BY <1>1, <2>2 DEF WorkerState
    <3>2. QED
      BY <1>1, <3>1 DEF Fits
  <2>3. QED
    BY <2>1, <2>2
<1>4. QED
  BY <1>2, <1>3

\* What a worker changes besides its own place, as far as types go.
Rest ==
  /\ paid \in Nat /\ ledger \in SUBSET Repayment
  /\ debit \in [Attempts -> [status : RowStatus, amount : Nat, notif : Nat]]
  /\ bank \in [Attempts -> [state : {"none", "pending", "collected", "bounced"}, amount : Nat,
                            notif : Nat]]
  /\ link \in [Links -> [status : {"absent", "INITIATED", "PENDING", "SUCCESS"}, amount : Nat]]
  /\ gateway \in SUBSET Links
  /\ \A n \in Attempts : bank[n].state # "none" => debit[n].status # "absent"
  /\ \A l \in gateway : link[l].status # "absent"

LEMMA WorkerMoves ==
  ASSUME CollTyped, NEW w \in Workers, NEW t \in WorkerState, Fits(t, debit'),
         worker' = [worker EXCEPT ![w] = t], Rest',
         \A n \in Attempts : debit[n].status # "absent" => debit'[n].status # "absent"
  PROVE  CollTyped'
BY OneWorker DEF CollTyped, Rest

LEMMA RestSame ==
  ASSUME CollTyped, UNCHANGED <<paid, ledger, debit, bank, link, gateway>>
  PROVE  Rest' /\ \A n \in Attempts : debit[n].status # "absent" => debit'[n].status # "absent"
BY DEF CollTyped, Rest

LEMMA RestDebit ==
  ASSUME CollTyped, UNCHANGED <<paid, ledger, bank, link, gateway>>, NEW n \in Attempts,
         NEW row \in [status : RowStatus \ {"absent"}, amount : Nat, notif : Nat],
         debit' = [debit EXCEPT ![n] = row]
  PROVE  Rest' /\ \A m \in Attempts : debit[m].status # "absent" => debit'[m].status # "absent"
<1>1. debit \in [Attempts -> [status : RowStatus, amount : Nat, notif : Nat]]
  BY DEF CollTyped
<1>2. debit' \in [Attempts -> [status : RowStatus, amount : Nat, notif : Nat]]
  BY <1>1
<1>3. row.status # "absent"
  OBVIOUS
<1>4. \A m \in Attempts : debit[m].status # "absent" => debit'[m].status # "absent"
  BY <1>1, <1>3
<1>5. QED
  BY <1>2, <1>4 DEF CollTyped, Rest

LEMMA StepTyped ==
  ASSUME CollTyped, NEW w \in Workers, StartStep(w)
  PROVE  CollTyped'
<1>1. /\ worker \in [Workers -> WorkerState] /\ paid \in Nat
      /\ DebitAmount(paid) \in Nat /\ 1 \in Attempts /\ Debit(1) \in PaymentIds
      /\ Idle \in WorkerState
      /\ debit \in [Attempts -> [status : RowStatus, amount : Nat, notif : Nat]]
  BY DebitAmountTyped, OneIsAttempt, IdleTyped DEF CollTyped
<1>2. CASE readDue(w)
  <2> DEFINE t == [[Idle EXCEPT !.pc = "due", !.amount = DebitAmount(paid)] EXCEPT !.job = "enach"]
  <2>1. worker' = [worker EXCEPT ![w] = t] /\ UNCHANGED <<paid, ledger, debit, bank, link, gateway>>
    BY <1>2 DEF readDue, Start
  <2>0. MandateType = "ENACH"
    BY <1>2 DEF readDue
  <2>2. t \in WorkerState /\ t.pc = "due" /\ t.job = "enach"
    BY <1>1 DEF WorkerState, Places, JobNames
  <2>3. Fits(t, debit')
    BY <2>0, <2>2 DEF Fits, Holding
  <2> HIDE DEF t
  <2>4. QED
    BY <2>1, <2>2, <2>3, WorkerMoves, RestSame
<1>3. ASSUME NEW job \in {"prepare", "notify"}, readForNotification(w, job) PROVE CollTyped'
  <2> DEFINE n == IF job = "notify" /\ ActiveRows # {} THEN Max(ActiveRows)
                  ELSE IF job = "notify" THEN NextAttempt ELSE 1
             a == IF n \in Rows /\ job = "notify" THEN "update" ELSE "create"
             t == [[Idle EXCEPT !.pc = "tell", !.n = n, !.amount = DebitAmount(paid), !.answer = a]
                    EXCEPT !.job = job]
  <2>1. /\ worker' = [worker EXCEPT ![w] = t] /\ UNCHANGED <<paid, ledger, debit, bank, link, gateway>>
        /\ n \in Attempts
    BY <1>3 DEF readForNotification, Start
  <2>2. a = "update" => debit[n].status # "absent"
    BY DEF Rows
  <2>3. a \in {"update", "create"}
    OBVIOUS
  <2> HIDE DEF n, a
  <2>4. t \in WorkerState /\ t.pc = "tell" /\ t.job = job /\ t.answer = a /\ t.n = n
    BY <1>1, <2>1, <2>3 DEF WorkerState, Places, JobNames, Answers
  <2>5. Fits(t, debit')
    BY <2>1, <2>2, <2>3, <2>4 DEF Fits, Holding
  <2> HIDE DEF t
  <2>6. QED
    BY <2>1, <2>4, <2>5, WorkerMoves, RestSame
<1>4. ASSUME NEW n \in Attempts, findNotified(w, n) PROVE CollTyped'
  <2> DEFINE t == [[Idle EXCEPT !.pc = "found", !.n = n, !.amount = debit[n].amount,
                                !.notif = debit[n].notif] EXCEPT !.job = "upi"]
  <2>1. /\ worker' = [worker EXCEPT ![w] = t] /\ UNCHANGED <<paid, ledger, debit, bank, link, gateway>>
        /\ debit[n].status = "NOTIFIED"
    BY <1>4 DEF findNotified, Start
  <2>2. debit[n].amount \in Nat /\ debit[n].notif \in Nat
    BY <1>1
  <2>3. t \in WorkerState /\ t.pc = "found" /\ t.job = "upi" /\ t.n = n
    BY <1>1, <2>2 DEF WorkerState, Places, JobNames
  <2>4. Fits(t, debit')
    BY <2>1, <2>3 DEF Fits, Holding
  <2> HIDE DEF t
  <2>5. QED
    BY <2>1, <2>3, <2>4, WorkerMoves, RestSame
<1>5. ASSUME NEW n \in Attempts, NEW job \in {"reconcile", "single"},
             worker' = [worker EXCEPT ![w] = [[Idle EXCEPT !.pc = "ask", !.n = n] EXCEPT !.job = job]],
             UNCHANGED <<paid, ledger, debit, bank, link, gateway>>, debit[n].status # "absent"
      PROVE  CollTyped'
  <2> DEFINE t == [[Idle EXCEPT !.pc = "ask", !.n = n] EXCEPT !.job = job]
  <2>1. t \in WorkerState /\ t.pc = "ask" /\ t.job = job /\ t.n = n
    BY <1>1 DEF WorkerState, Places, JobNames
  <2>2. Fits(t, debit')
    BY <1>5, <2>1 DEF Fits, Holding
  <2>3. worker' = [worker EXCEPT ![w] = t]
    BY <1>5
  <2> HIDE DEF t
  <2>4. QED
    BY <1>5, <2>1, <2>2, <2>3, WorkerMoves, RestSame
<1>6. ASSUME NEW n \in Attempts, readPending(w, n) PROVE CollTyped'
  BY <1>5, <1>6 DEF readPending, Start
<1>7. CASE readLatest(w)
  <2>1. Max(Rows) \in Rows
    BY <1>7, LastAttempt DEF readLatest, Rows
  <2>2. Max(Rows) \in Attempts /\ debit[Max(Rows)].status # "absent"
    BY <2>1 DEF Rows
  <2>3. /\ worker' = [worker EXCEPT ![w] = [[Idle EXCEPT !.pc = "ask", !.n = Max(Rows)]
                                             EXCEPT !.job = "single"]]
        /\ UNCHANGED <<paid, ledger, debit, bank, link, gateway>>
    BY <1>7 DEF readLatest, Start
  <2>4. QED
    BY <1>5, <2>2, <2>3
<1>8. ASSUME NEW n \in Attempts, readReport(w, n) PROVE CollTyped'
  <2>1. PICK r \in ReportedRows(n) :
          worker' = [worker EXCEPT ![w] = [[Idle EXCEPT !.pc = "credit", !.n = r, !.id = Debit(n),
                                        !.ref = Debit(n), !.amount = debit[r].amount]
                                        EXCEPT !.job = "webhook"]]
    BY <1>8 DEF readReport, Start
  <2>2. r \in Attempts /\ debit[r].status # "absent"
    BY <1>8 DEF readReport, ReportedRows, Rows, CollTyped
  <2> DEFINE t == [[Idle EXCEPT !.pc = "credit", !.n = r, !.id = Debit(n), !.ref = Debit(n),
                                !.amount = debit[r].amount] EXCEPT !.job = "webhook"]
  <2>3. debit[r].amount \in Nat /\ Debit(n) \in PaymentIds
    BY <1>1, <2>2 DEF PaymentIds
  <2>4. t \in WorkerState /\ t.pc = "credit" /\ t.job = "webhook" /\ t.n = r
    BY <1>1, <2>2, <2>3 DEF WorkerState, Places, JobNames
  <2>5. worker' = [worker EXCEPT ![w] = t] /\ UNCHANGED <<paid, ledger, debit, bank, link, gateway>>
    BY <1>8, <2>1 DEF readReport
  <2>6. Fits(t, debit')
    BY <2>2, <2>4, <2>5 DEF Fits, Holding
  <2> HIDE DEF t
  <2>7. QED
    BY <2>4, <2>5, <2>6, WorkerMoves, RestSame
<1>9. ASSUME NEW job \in {"retry", "execute"}, readInstallment(w, job) PROVE CollTyped'
  <2> DEFINE t == [[Idle EXCEPT !.pc = "rows", !.amount = DebitAmount(paid)] EXCEPT !.job = job]
  <2>1. worker' = [worker EXCEPT ![w] = t] /\ UNCHANGED <<paid, ledger, debit, bank, link, gateway>>
    BY <1>9 DEF readInstallment, Start
  <2>2. t \in WorkerState /\ t.pc = "rows" /\ t.job = job
    BY <1>1 DEF WorkerState, Places, JobNames
  <2>3. Fits(t, debit')
    BY <2>2 DEF Fits, Holding
  <2> HIDE DEF t
  <2>4. QED
    BY <2>1, <2>2, <2>3, WorkerMoves, RestSame
<1>10. ASSUME NEW l \in Links, linkSuccess(w, l) PROVE CollTyped'
  <2> DEFINE t == [[Idle EXCEPT !.pc = "credit", !.id = Link(l), !.ref = Link(l),
                                !.amount = link[l].amount] EXCEPT !.job = "link"]
  <2>1. /\ worker' = [worker EXCEPT ![w] = t] /\ UNCHANGED <<paid, ledger, debit, bank, gateway>>
        /\ link' = [link EXCEPT ![l].status = "SUCCESS"]
    BY <1>10 DEF linkSuccess, Start
  <2>2. link[l].amount \in Nat /\ Link(l) \in PaymentIds
    BY DEF CollTyped, PaymentIds
  <2>3. t \in WorkerState /\ t.pc = "credit" /\ t.job = "link"
    BY <1>1, <2>2 DEF WorkerState, Places, JobNames
  <2>4. Fits(t, debit')
    BY <2>3 DEF Fits, Holding
  <2>5. Rest'
    BY <2>1 DEF CollTyped, Rest
  <2> HIDE DEF t
  <2>6. QED
    BY <2>1, <2>3, <2>4, <2>5, WorkerMoves
<1>11. QED
  BY <1>2, <1>3, <1>4, <1>6, <1>7, <1>8, <1>9, <1>10 DEF StartStep

LEMMA RestStatus ==
  ASSUME CollTyped, UNCHANGED <<paid, ledger, bank, link, gateway>>, NEW n \in Attempts,
         NEW s \in RowStatus \ {"absent"}, debit' = [debit EXCEPT ![n].status = s]
  PROVE  Rest' /\ \A m \in Attempts : debit[m].status # "absent" => debit'[m].status # "absent"
<1> DEFINE row == [debit[n] EXCEPT !.status = s]
<1>1. debit \in [Attempts -> [status : RowStatus, amount : Nat, notif : Nat]]
  BY DEF CollTyped
<1>2. row \in [status : RowStatus \ {"absent"}, amount : Nat, notif : Nat]
  BY <1>1
<1>3. debit' = [debit EXCEPT ![n] = row]
  OBVIOUS
<1> HIDE DEF row
<1>4. QED
  BY <1>2, <1>3, RestDebit

\* A worker that ends its operation.
LEMMA Finished ==
  ASSUME CollTyped, NEW w \in Workers, Finish(w), Rest',
         \A n \in Attempts : debit[n].status # "absent" => debit'[n].status # "absent"
  PROVE  CollTyped'
BY IdleTyped, WorkerMoves DEF Finish

LEMMA RowsCounted == Cardinality(Rows) \in Nat
<1>1. IsFiniteSet(Attempts)
  BY DebitsAssumption, FS_Interval DEF Attempts
<1>2. Rows \subseteq Attempts
  BY DEF Rows
<1>3. QED
  BY <1>1, <1>2, FS_Subset, FS_CardinalityType

LEMMA NotificationTyped ==
  ASSUME CollTyped, NEW job
  PROVE  Notification(job) \in Nat
<1>1. debit \in [Attempts -> [status : RowStatus, amount : Nat, notif : Nat]]
  BY DEF CollTyped
<1> DEFINE carrying == {n \in Rows : /\ debit[n].notif # 0
                                     /\ job = "retry" => debit[n].status \in {"SUBMITTING", "IN_PROCESS"}}
<1>2. ActiveRows # {} => Max(ActiveRows) \in Attempts
  BY LastAttempt DEF ActiveRows
<1>3. carrying # {} => Max(carrying) \in Attempts
  <2>1. carrying \subseteq Attempts
    BY DEF Rows
  <2> HIDE DEF carrying
  <2>2. QED
    BY <2>1, LastAttempt
<1>4. QED
  BY <1>1, <1>2, <1>3 DEF Notification

LEMMA GoOnTyped ==
  ASSUME CollTyped, NEW w \in Workers, GoOn(w)
  PROVE  CollTyped'
<1> DEFINE s == worker[w]
<1>1. /\ worker \in [Workers -> WorkerState] /\ s \in WorkerState /\ s.n \in Attempts
      /\ s.amount \in Nat /\ s.notif \in Nat /\ Fits(s, debit)
      /\ paid \in Nat /\ ledger \in SUBSET Repayment
      /\ debit \in [Attempts -> [status : RowStatus, amount : Nat, notif : Nat]]
      /\ bank \in [Attempts -> [state : {"none", "pending", "collected", "bounced"}, amount : Nat,
                                notif : Nat]]
  BY DEF CollTyped, WorkerState
<1> HIDE DEF s
<1>2. CASE chooseAttempt(w)
  <2>1. UNCHANGED <<paid, ledger, debit, bank, link, gateway>> /\ s.pc = "due"
    BY <1>2 DEF chooseAttempt, s
  <2>2. CASE Finish(w)
    BY <2>1, <2>2, Finished, RestSame
  <2>3. CASE ~ Finish(w)
    <3> DEFINE t == [s EXCEPT !.pc = "create", !.n = NextAttempt]
    <3>0. /\ ~ (Cardinality(Rows) >= MaxAttempts)
          /\ worker' = [worker EXCEPT ![w].pc = "create", ![w].n = NextAttempt]
      BY <1>2, <2>3 DEF chooseAttempt
    <3>1. worker' = [worker EXCEPT ![w] = t] /\ Cardinality(Rows) < MaxAttempts
      <4>1. worker' = [worker EXCEPT ![w] = t]
        BY <1>1, <3>0 DEF s
      <4>2. MaxAttempts \in Nat
        BY DebitsAssumption
      <4>3. Cardinality(Rows) < MaxAttempts
        BY <3>0, <4>2, RowsCounted
      <4>4. QED
        BY <4>1, <4>3
    <3>2. NextAttempt \in Attempts
      BY <3>1, RowsCounted, DebitsAssumption DEF NextAttempt, Attempts
    <3>3. t \in WorkerState /\ t.pc = "create" /\ t.job = s.job
      BY <1>1, <3>2 DEF WorkerState, Places
    <3>4. Fits(t, debit')
      BY <1>1, <2>1, <3>3 DEF Fits, Holding
    <3> HIDE DEF t
    <3>5. QED
      BY <2>1, <3>1, <3>3, <3>4, WorkerMoves, RestSame
  <2>4. QED
    BY <2>2, <2>3
<1>3. CASE createDebit(w)
  <2>1. UNCHANGED <<paid, ledger, bank, link, gateway>> /\ s.pc = "create"
    BY <1>3 DEF createDebit, s
  <2>2. CASE debit[s.n].status # "absent"
    <3>1. Finish(w) /\ UNCHANGED debit
      BY <1>3, <2>2 DEF createDebit, s
    <3>2. QED
      BY <2>1, <3>1, Finished, RestSame
  <2>3. CASE debit[s.n].status = "absent"
    <3> DEFINE pc == IF MandateType = "UPI" /\ s.notif = 0 THEN "notify" ELSE "submit"
               t == [s EXCEPT !.pc = pc]
               row == [status |-> "SUBMITTING", amount |-> s.amount, notif |-> s.notif]
    <3>1. worker' = [worker EXCEPT ![w] = t] /\ debit' = [debit EXCEPT ![s.n] = row]
      BY <1>1, <1>3, <2>3 DEF createDebit, Goto, s
    <3>2. row \in [status : RowStatus \ {"absent"}, amount : Nat, notif : Nat]
      BY <1>1 DEF RowStatus, Active
    <3>3. /\ Rest'
          /\ \A m \in Attempts : debit[m].status # "absent" => debit'[m].status # "absent"
          /\ debit'[s.n].status # "absent"
      <4>1. debit'[s.n] = row
        BY <1>1, <3>1
      <4> HIDE DEF row
      <4>2. QED
        BY <1>1, <2>1, <3>1, <3>2, <4>1, RestDebit
    <3>4. s.job = "enach" \/ s.job \in {"retry", "execute"}
      BY <1>1, <2>1 DEF Fits
    <3>5. pc = "submit" \/ (pc = "notify" /\ s.notif = 0 /\ MandateType = "UPI")
      OBVIOUS
    <3>6. t \in WorkerState /\ t.pc = pc /\ t.job = s.job /\ t.n = s.n
      BY <1>1 DEF WorkerState, Places
    <3>7. Fits(t, debit')
      BY <1>1, <3>3, <3>4, <3>5, <3>6 DEF Fits, Holding
    <3> HIDE DEF t
    <3>8. QED
      BY <3>1, <3>3, <3>6, <3>7, WorkerMoves
  <2>4. QED
    BY <2>2, <2>3

<1>4. ASSUME NEW post \in [arrived : BOOLEAN, http : {"accepted", "refused", "4xx", "unclear"}],
             present(w, post)
      PROVE  CollTyped'
  <2>1. /\ UNCHANGED <<paid, ledger, debit, link, gateway>> /\ s.pc = "submit"
        /\ \/ bank' = bank
           \/ \E k \in Nat : bank' = [bank EXCEPT ![s.n] = [state |-> "pending", amount |-> s.amount,
                                                          notif |-> k]]
    <3> DEFINE k == IF s.job = "retry" THEN 0 ELSE s.notif
    <3>1. k \in Nat
      BY <1>1
    <3>2. /\ UNCHANGED <<paid, ledger, debit, link, gateway>> /\ s.pc = "submit"
          /\ \/ bank' = bank
             \/ bank' = [bank EXCEPT ![s.n] = [state |-> "pending", amount |-> s.amount,
                                               notif |-> k]]
      BY <1>4 DEF present, s
    <3> HIDE DEF k
    <3>3. QED
      BY <3>1, <3>2
  <2>2. PICK a \in {"IN_PROCESS", "UNKNOWN", "FAILURE"} :
          worker' = [worker EXCEPT ![w].pc = "answered", ![w].answer = a]
    BY <1>4 DEF present, initiateEnachPresentment
  <2> DEFINE t == [s EXCEPT !.pc = "answered", !.answer = a]
  <2>3. worker' = [worker EXCEPT ![w] = t]
    BY <1>1, <2>2 DEF s
  <2>4. t \in WorkerState /\ t.pc = "answered" /\ t.answer = a /\ t.job = s.job /\ t.n = s.n
    BY <1>1, <2>2 DEF WorkerState, Places, Answers
  <2>5. debit[s.n].status # "absent" /\ s.job \in {"enach", "upi", "retry", "execute"}
    BY <1>1, <2>1 DEF Fits, Holding
  <2>6. Fits(t, debit')
    BY <1>1, <2>1, <2>4, <2>5 DEF Fits, Holding
  <2>7. bank' \in [Attempts -> [state : {"none", "pending", "collected", "bounced"}, amount : Nat,
                                notif : Nat]]
    <3>1. CASE bank' = bank
      BY <1>1, <3>1
    <3>2. CASE \E k \in Nat : bank' = [bank EXCEPT ![s.n] = [state |-> "pending",
                                                           amount |-> s.amount, notif |-> k]]
      <4>1. PICK k \in Nat : bank' = [bank EXCEPT ![s.n] = [state |-> "pending",
                                                           amount |-> s.amount, notif |-> k]]
        BY <3>2
      <4>2. [state |-> "pending", amount |-> s.amount, notif |-> k]
              \in [state : {"none", "pending", "collected", "bounced"}, amount : Nat, notif : Nat]
        BY <1>1
      <4>3. QED
        BY <1>1, <4>1, <4>2
    <3>3. QED
      BY <2>1, <3>1, <3>2
  <2>8. \A n \in Attempts : bank'[n].state # "none" => debit[n].status # "absent"
    BY <1>1, <2>1, <2>5 DEF CollTyped
  <2>9. Rest'
    BY <2>1, <2>7, <2>8 DEF CollTyped, Rest
  <2> HIDE DEF t
  <2>10. QED
    BY <2>1, <2>3, <2>4, <2>6, <2>9, WorkerMoves
<1>5. CASE recordAnswer(w)
  <2>1. /\ UNCHANGED <<paid, ledger, bank, link, gateway>> /\ s.pc = "answered" /\ Finish(w)
        /\ debit' = [debit EXCEPT ![s.n].status = s.answer]
    BY <1>5 DEF recordAnswer, s
  <2>2. s.answer \in RowStatus \ {"absent"}
    BY <1>1, <2>1 DEF Fits, RowStatus, Active
  <2>3. QED
    BY <1>1, <2>1, <2>2, RestStatus, Finished
<1>6. CASE storeNotification(w)
  <2>1. UNCHANGED <<paid, ledger, bank, link, gateway>> /\ s.pc = "tell" /\ Finish(w)
    BY <1>6 DEF storeNotification, s
  <2>2. CASE s.answer = "update"
    <3> DEFINE row == [debit[s.n] EXCEPT !.status = "NOTIFIED", !.notif = s.n]
    <3>1. debit' = [debit EXCEPT ![s.n] = row]
      BY <1>1, <1>6, <2>2 DEF storeNotification, s
    <3>2. s.n \in Nat
      BY <1>1, DebitsAssumption DEF Attempts
    <3>3. row \in [status : RowStatus \ {"absent"}, amount : Nat, notif : Nat]
      BY <1>1, <3>2 DEF RowStatus
    <3> HIDE DEF row
    <3>4. QED
      BY <1>1, <2>1, <3>1, <3>3, RestDebit, Finished
  <2>3. CASE s.answer = "create" /\ debit[s.n].status = "absent"
    <3> DEFINE row == [status |-> "NOTIFIED", amount |-> s.amount, notif |-> s.n]
    <3>1. debit' = [debit EXCEPT ![s.n] = row]
      BY <1>1, <1>6, <2>3 DEF storeNotification, s
    <3>2. s.n \in Nat
      BY <1>1, DebitsAssumption DEF Attempts
    <3>3. row \in [status : RowStatus \ {"absent"}, amount : Nat, notif : Nat]
      BY <1>1, <3>2 DEF RowStatus
    <3> HIDE DEF row
    <3>4. QED
      BY <1>1, <2>1, <3>1, <3>3, RestDebit, Finished
  <2>4. CASE s.answer # "update" /\ ~ (s.answer = "create" /\ debit[s.n].status = "absent")
    <3>1. debit' = debit
      BY <1>6, <2>4 DEF storeNotification, s
    <3>2. QED
      BY <2>1, <3>1, RestSame, Finished
  <2>5. QED
    BY <2>2, <2>3, <2>4
<1>7. CASE claimNotified(w)
  <2>1. UNCHANGED <<paid, ledger, bank, link, gateway>> /\ s.pc = "found"
    BY <1>7 DEF claimNotified, s
  <2>2. CASE debit[s.n].status = "NOTIFIED"
    <3> DEFINE t == [s EXCEPT !.pc = "submit"]
    <3>1. /\ worker' = [worker EXCEPT ![w] = t]
          /\ debit' = [debit EXCEPT ![s.n].status = "SUBMITTING"]
      BY <1>1, <1>7, <2>2 DEF claimNotified, Goto, s
    <3>2. "SUBMITTING" \in RowStatus \ {"absent"}
      BY DEF RowStatus, Active
    <3>3. Rest' /\ \A m \in Attempts : debit[m].status # "absent" => debit'[m].status # "absent"
      BY <1>1, <2>1, <3>1, <3>2, RestStatus
    <3>4. t \in WorkerState /\ t.pc = "submit" /\ t.job = s.job /\ t.n = s.n
      BY <1>1 DEF WorkerState, Places
    <3>5. Fits(t, debit')
      BY <1>1, <2>1, <3>3, <3>4 DEF Fits, Holding
    <3> HIDE DEF t
    <3>6. QED
      BY <3>1, <3>3, <3>4, <3>5, WorkerMoves
  <2>3. CASE debit[s.n].status # "NOTIFIED"
    <3>1. Finish(w) /\ UNCHANGED debit
      BY <1>7, <2>3 DEF claimNotified, s
    <3>2. QED
      BY <2>1, <3>1, RestSame, Finished
  <2>4. QED
    BY <2>2, <2>3
<1>8. CASE mandateRevoked(w)
  <2>1. /\ UNCHANGED <<paid, ledger, bank, link, gateway>> /\ Finish(w)
        /\ debit' = [debit EXCEPT ![s.n].status = "FAILURE"]
    BY <1>8 DEF mandateRevoked, s
  <2>2. "FAILURE" \in RowStatus \ {"absent"}
    BY DEF RowStatus
  <2>3. QED
    BY <1>1, <2>1, <2>2, RestStatus, Finished
<1>9. CASE giveUp(w)
  BY <1>9, Finished, RestSame DEF giveUp
<1>10. CASE readDebits(w)
  <2> DEFINE last == Max(ActiveRows)
             t == [s EXCEPT !.pc = "ask", !.n = last]
  <2>1. last \in ActiveRows
    BY <1>10, LastAttempt DEF readDebits, ActiveRows
  <2>2. last \in Attempts /\ debit[last].status # "absent"
    BY <2>1 DEF ActiveRows, Active
  <2>3. /\ UNCHANGED <<paid, ledger, debit, bank, link, gateway>> /\ s.pc = "rows"
        /\ worker' = [worker EXCEPT ![w] = t]
    BY <1>1, <1>10 DEF readDebits, s
  <2> HIDE DEF last
  <2>4. t \in WorkerState /\ t.pc = "ask" /\ t.job = s.job /\ t.n = last
    BY <1>1, <2>2 DEF WorkerState, Places
  <2>5. Fits(t, debit')
    BY <1>1, <2>2, <2>3, <2>4 DEF Fits, Holding
  <2> HIDE DEF t
  <2>6. QED
    BY <2>3, <2>4, <2>5, WorkerMoves, RestSame
<1>11. CASE decide(w)
  <2>1. UNCHANGED <<paid, ledger, debit, bank, link, gateway>> /\ s.pc \in {"decide", "rows"}
    BY <1>11 DEF decide, s
  <2>2. s.job \in {"retry", "execute"} /\ (s.job = "enach" => MandateType = "ENACH")
    BY <1>1, <2>1 DEF Fits
  <2>3. CASE Finish(w)
    BY <2>1, <2>3, Finished, RestSame
  <2>4. CASE ~ Finish(w)
    <3> DEFINE num == IF ActiveRows = {} THEN NextAttempt ELSE Max(ActiveRows)
    <3>1. PICK k, pc :
            /\ worker' = [worker EXCEPT ![w].n = num, ![w].notif = k, ![w].pc = pc]
            /\ k = IF MandateType = "UPI" THEN Notification(s.job) ELSE 0
            /\ pc = CASE ActiveRows = {} -> "create"
                     [] ActiveRows # {} /\ MandateType = "UPI" /\ k = 0 -> "notify"
                     [] OTHER -> "submit"
            /\ num \in Attempts
      BY <1>11, <2>4 DEF decide, s
    <3>2. pc \in {"create", "notify", "submit"} /\ (pc # "create" => ActiveRows # {})
      BY <3>1
    <3>3. ActiveRows # {} => num \in Attempts /\ debit[num].status # "absent"
      <4>1. ActiveRows # {} => Max(ActiveRows) \in ActiveRows
        BY LastAttempt DEF ActiveRows
      <4>2. QED
        BY <4>1 DEF ActiveRows, Active
    <3>4. k \in Nat
      BY <1>1, <3>1, NotificationTyped
    <3> DEFINE t == [s EXCEPT !.n = num, !.notif = k, !.pc = pc]
    <3>5. worker' = [worker EXCEPT ![w] = t]
      BY <1>1, <3>1 DEF s
    <3> HIDE DEF num
    <3>6. t \in WorkerState /\ t.pc = pc /\ t.job = s.job /\ t.n = num
      BY <1>1, <3>1, <3>2, <3>4 DEF WorkerState, Places
    <3>7. Fits(t, debit')
      BY <2>1, <2>2, <3>2, <3>3, <3>6 DEF Fits, Holding
    <3> HIDE DEF t
    <3>8. QED
      BY <2>1, <3>5, <3>6, <3>7, WorkerMoves, RestSame
  <2>5. QED
    BY <2>3, <2>4
<1>12. ASSUME NEW http \in {"accepted", "refused", "4xx", "unclear"}, notifyCustomer(w, http)
       PROVE  CollTyped'
  <2> DEFINE row == [debit[s.n] EXCEPT !.status = sendUpiPreDebitNotification(http),
                                       !.notif = IF http = "accepted" THEN s.n ELSE @]
  <2>1. /\ UNCHANGED <<paid, ledger, bank, link, gateway>> /\ Finish(w)
        /\ debit' = [debit EXCEPT ![s.n] = row]
    BY <1>1, <1>12 DEF notifyCustomer, s
  <2>2. sendUpiPreDebitNotification(http) \in {"NOTIFIED", "FAILURE", "UNKNOWN"}
    BY DEF sendUpiPreDebitNotification
  <2>3. s.n \in Nat
    BY <1>1, DebitsAssumption DEF Attempts
  <2>4. row \in [status : RowStatus \ {"absent"}, amount : Nat, notif : Nat]
    BY <1>1, <2>2, <2>3 DEF RowStatus, Active
  <2> HIDE DEF row
  <2>5. QED
    BY <1>1, <2>1, <2>4, RestDebit, Finished
<1>13. CASE s.pc = "ask" /\ Goto(w, "decide") /\ AfterReconcile(s.job) # "idle"
            /\ Rest' /\ \A m \in Attempts : debit[m].status # "absent" => debit'[m].status # "absent"
  <2> DEFINE t == [s EXCEPT !.pc = "decide"]
  <2>1. worker' = [worker EXCEPT ![w] = t]
    BY <1>1, <1>13 DEF Goto, s
  <2>2. t \in WorkerState /\ t.pc = "decide" /\ t.job = s.job
    BY <1>1 DEF WorkerState, Places
  <2>3. s.job \in {"retry", "execute"}
    BY <1>1, <1>13 DEF AfterReconcile
  <2>4. Fits(t, debit')
    BY <2>2, <2>3 DEF Fits, Holding
  <2> HIDE DEF t
  <2>5. QED
    BY <1>13, <2>1, <2>2, <2>4, WorkerMoves
<1>14. CASE askInVain(w)
  <2>1. /\ UNCHANGED <<paid, ledger, debit, bank, link, gateway>> /\ s.pc = "ask"
        /\ Finish(w) \/ (Goto(w, "decide") /\ AfterReconcile(s.job) # "idle")
    BY <1>14 DEF askInVain, s
  <2>2. QED
    BY <1>13, <2>1, RestSame, Finished
<1>15. ASSUME NEW m \in Attempts, markFailure(w, m) PROVE CollTyped'
  <2>1. /\ UNCHANGED <<paid, ledger, bank, link, gateway>> /\ s.pc = "ask"
        /\ Finish(w) \/ (Goto(w, "decide") /\ AfterReconcile(s.job) # "idle")
        /\ debit' = [debit EXCEPT ![s.n].status = "FAILURE"]
    BY <1>15 DEF markFailure, s
  <2>2. "FAILURE" \in RowStatus \ {"absent"}
    BY DEF RowStatus
  <2>3. QED
    BY <1>1, <1>13, <2>1, <2>2, RestStatus, Finished
<1>16. ASSUME NEW m \in Attempts, markSuccess(w, m) PROVE CollTyped'
  <2> DEFINE t == [s EXCEPT !.pc = "credit", !.id = Debit(s.n), !.ref = Debit(m),
                            !.amount = debit[s.n].amount]
  <2>1. /\ UNCHANGED <<paid, ledger, bank, link, gateway>> /\ s.pc = "ask"
        /\ worker' = [worker EXCEPT ![w] = t]
        /\ debit' = [debit EXCEPT ![s.n].status = "SUCCESS"]
    BY <1>1, <1>16 DEF markSuccess, s
  <2>2. "SUCCESS" \in RowStatus \ {"absent"}
    BY DEF RowStatus
  <2>3. Debit(s.n) \in PaymentIds /\ Debit(m) \in PaymentIds /\ debit[s.n].amount \in Nat
    BY <1>1 DEF PaymentIds
  <2>4. t \in WorkerState /\ t.pc = "credit" /\ t.job = s.job
    BY <1>1, <2>3 DEF WorkerState, Places
  <2>5. s.job \in {"retry", "execute", "single", "reconcile"}
    BY <1>1, <2>1 DEF Fits
  <2>6. Fits(t, debit')
    BY <2>4, <2>5 DEF Fits, Holding
  <2> HIDE DEF t
  <2>7. QED
    BY <1>1, <2>1, <2>2, <2>4, <2>6, RestStatus, WorkerMoves
<1>17. CASE readLedger(w)
  <2> DEFINE snap == [paid |-> paid, ledger |-> ledger]
             t == [s EXCEPT !.pc = "crediting", !.snap = snap]
  <2>1. /\ UNCHANGED <<paid, ledger, debit, bank, link, gateway>> /\ s.pc = "credit"
        /\ worker' = [worker EXCEPT ![w] = t]
    BY <1>1, <1>17 DEF readLedger, s
  <2>2. snap \in Snapshot
    BY <1>1 DEF Snapshot
  <2> HIDE DEF snap
  <2>3. t \in WorkerState /\ t.pc = "crediting" /\ t.job = s.job /\ t.n = s.n
    BY <1>1, <2>2 DEF WorkerState, Places
  <2>4. Fits(t, debit')
    BY <1>1, <2>1, <2>3 DEF Fits, Holding
  <2> HIDE DEF t
  <2>5. QED
    BY <2>1, <2>3, <2>4, WorkerMoves, RestSame
<1>18. CASE commitRepayment(w)
  <2>1. /\ UNCHANGED <<debit, bank, link, gateway>> /\ s.pc = "crediting"
        /\ (s.job = "webhook" /\ Goto(w, "closing")) \/ Finish(w)
        /\ \/ paid' = paid /\ ledger' = ledger
           \/ /\ paid' = s.snap.paid + s.amount
              /\ ledger' = ledger \cup {[id |-> s.id, ref |-> s.ref, amount |-> s.amount]}
    BY <1>18 DEF commitRepayment, s
  <2>2. s.snap.paid \in Nat /\ [id |-> s.id, ref |-> s.ref, amount |-> s.amount] \in Repayment
    BY <1>1 DEF WorkerState, Snapshot, Repayment
  <2>3. paid' \in Nat /\ ledger' \in SUBSET Repayment
    BY <1>1, <2>1, <2>2
  <2>4. Rest'
    BY <2>1, <2>3 DEF CollTyped, Rest
  <2>5. CASE Finish(w)
    BY <2>1, <2>4, <2>5, Finished
  <2>6. CASE s.job = "webhook" /\ Goto(w, "closing")
    <3> DEFINE t == [s EXCEPT !.pc = "closing"]
    <3>1. worker' = [worker EXCEPT ![w] = t]
      BY <1>1, <2>6 DEF Goto, s
    <3>2. t \in WorkerState /\ t.pc = "closing" /\ t.job = "webhook" /\ t.n = s.n
      BY <1>1, <2>6 DEF WorkerState, Places
    <3>3. Fits(t, debit')
      BY <1>1, <2>1, <2>6, <3>2 DEF Fits, Holding
    <3> HIDE DEF t
    <3>4. QED
      BY <2>1, <2>4, <3>1, <3>2, <3>3, WorkerMoves
  <2>7. QED
    BY <2>1, <2>5, <2>6
<1>19. CASE closeReport(w)
  <2>1. /\ UNCHANGED <<paid, ledger, bank, link, gateway>> /\ Finish(w)
        /\ debit' = [debit EXCEPT ![s.n].status = "SUCCESS"]
    BY <1>19 DEF closeReport, s
  <2>2. "SUCCESS" \in RowStatus \ {"absent"}
    BY DEF RowStatus
  <2>3. QED
    BY <1>1, <2>1, <2>2, RestStatus, Finished
<1>20. QED
  BY <1>2, <1>3, <1>4, <1>5, <1>6, <1>7, <1>8, <1>9, <1>10, <1>11, <1>12, <1>14, <1>15, <1>16,
     <1>17, <1>18, <1>19 DEF GoOn

\* Steps of the bank, the customer and the provider's other reports.
LEMMA WorldTyped ==
  ASSUME CollTyped, UNCHANGED worker, Rest',
         \A n \in Attempts : debit[n].status # "absent" => debit'[n].status # "absent"
  PROVE  CollTyped'
<1>1. \A w \in Workers : Fits(worker[w], debit) /\ worker[w].n \in Attempts
  BY DEF CollTyped, WorkerState
<1>2. \A w \in Workers : Fits(worker[w], debit')
  BY <1>1 DEF Fits
<1>3. QED
  BY <1>2 DEF CollTyped, Rest

LEMMA CollTypedKept == CollTyped /\ (Next \/ UNCHANGED vars) => CollTyped'
<1> SUFFICES ASSUME CollTyped, Next \/ UNCHANGED vars PROVE CollTyped'
  OBVIOUS
<1>1. ASSUME NEW w \in Workers, StartStep(w) PROVE CollTyped'
  BY <1>1, StepTyped
<1>2. ASSUME NEW w \in Workers, GoOn(w) PROVE CollTyped'
  BY <1>2, GoOnTyped
<1>3. ASSUME NEW w \in Workers, crash(w) PROVE CollTyped'
  BY <1>3, Finished, RestSame DEF crash
<1>4. ASSUME NEW n \in Attempts, NEW outcome \in {"collected", "bounced"}, bankSettles(n, outcome)
      PROVE  CollTyped'
  <2>1. /\ UNCHANGED <<paid, ledger, debit, link, gateway, worker>>
        /\ bank' = [bank EXCEPT ![n].state = outcome] /\ bank[n].state = "pending"
    BY <1>4 DEF bankSettles
  <2>2. bank' \in [Attempts -> [state : {"none", "pending", "collected", "bounced"}, amount : Nat,
                                notif : Nat]]
    BY <2>1 DEF CollTyped
  <2>3. \A m \in Attempts : bank'[m].state # "none" => debit[m].status # "absent"
    BY <2>1 DEF CollTyped
  <2>4. Rest'
    BY <2>1, <2>2, <2>3 DEF CollTyped, Rest
  <2>5. QED
    BY <2>1, <2>4, WorldTyped
<1>5. ASSUME NEW n \in Attempts, otherReport(n) PROVE CollTyped'
  <2>1. CASE bank[n].state = "bounced"
    <3>1. PICK r \in ReportedRows(n) : debit' = [debit EXCEPT ![r].status = "FAILURE"]
      BY <1>5, <2>1 DEF otherReport
    <3>2. r \in Attempts
      BY DEF ReportedRows, Rows
    <3>3. "FAILURE" \in RowStatus \ {"absent"}
      BY DEF RowStatus
    <3>4. UNCHANGED <<paid, ledger, bank, link, gateway, worker>>
      BY <1>5 DEF otherReport
    <3>5. QED
      BY <3>1, <3>2, <3>3, <3>4, RestStatus, WorldTyped
  <2>2. CASE bank[n].state # "bounced"
    <3>1. UNCHANGED <<paid, ledger, debit, bank, link, gateway, worker>>
      BY <1>5, <2>2 DEF otherReport
    <3>2. QED
      BY <3>1, RestSame, WorldTyped
  <2>3. QED
    BY <2>1, <2>2
<1>6. CASE mandateEnds
  BY <1>6, RestSame, WorldTyped DEF mandateEnds
<1>7. ASSUME NEW l \in Links, NEW amount \in 1..Emi, initiateRepaymentPayment(l, amount)
      PROVE  CollTyped'
  <2>1. /\ UNCHANGED <<paid, ledger, debit, bank, gateway, worker>>
        /\ link' = [link EXCEPT ![l] = [status |-> "INITIATED", amount |-> amount]]
    BY <1>7 DEF initiateRepaymentPayment
  <2>2. amount \in Nat
    BY AmountsAssumption
  <2>3. link' \in [Links -> [status : {"absent", "INITIATED", "PENDING", "SUCCESS"}, amount : Nat]]
    BY <2>1, <2>2 DEF CollTyped
  <2>4. Rest'
    BY <2>1, <2>3 DEF CollTyped, Rest
  <2>5. QED
    BY <2>1, <2>4, WorldTyped
<1>8. ASSUME NEW l \in Links, customerPays(l) PROVE CollTyped'
  <2>1. /\ UNCHANGED <<paid, ledger, debit, bank, link, worker>> /\ link[l].status # "absent"
        /\ gateway' = gateway \cup {l}
    BY <1>8 DEF customerPays
  <2>2. Rest'
    BY <2>1 DEF CollTyped, Rest
  <2>3. QED
    BY <2>1, <2>2, WorldTyped
<1>9. ASSUME NEW l \in Links, linkPending(l) PROVE CollTyped'
  <2>1. /\ UNCHANGED <<paid, ledger, debit, bank, gateway, worker>>
        /\ link' = [link EXCEPT ![l].status = "PENDING"]
    BY <1>9 DEF linkPending
  <2>2. Rest'
    BY <2>1 DEF CollTyped, Rest
  <2>3. QED
    BY <2>1, <2>2, WorldTyped
<1>10. CASE UNCHANGED vars
  BY <1>10, RestSame, WorldTyped DEF vars
<1>11. QED
  BY <1>1, <1>2, <1>3, <1>4, <1>5, <1>6, <1>7, <1>8, <1>9, <1>10 DEF Next

LEMMA CollTypedStarts == Init => CollTyped
<1> SUFFICES ASSUME Init PROVE CollTyped
  OBVIOUS
<1>1. /\ paid = 0 /\ ledger = {} /\ gateway = {}
      /\ debit = [n \in Attempts |-> NoRow]
      /\ bank = [n \in Attempts |-> [state |-> "none", amount |-> 0, notif |-> 0]]
      /\ link = [l \in Links |-> [status |-> "absent", amount |-> 0]]
      /\ worker = [w \in Workers |-> Idle]
  BY DEF Init
<1>2. \A w \in Workers : worker[w] \in WorkerState /\ Fits(worker[w], debit)
  BY <1>1, IdleTyped
<1>3. worker \in [Workers -> WorkerState]
  BY <1>1, <1>2
<1>4. debit \in [Attempts -> [status : RowStatus, amount : Nat, notif : Nat]]
  BY <1>1 DEF NoRow, RowStatus
<1>5. QED
  BY <1>1, <1>2, <1>3, <1>4 DEF CollTyped

-------------------------------------------------------------------------------
(* The morning cron, its reconciliation and the reports.                    *)

\* Debits of an eNACH mandate by the cron alone: no operator's call, no payment link.
CronOnly == MandateType = "ENACH" /\ Jobs \cap {"retry", "execute", "link"} = {}

\* What one debit takes of an instalment that nothing was paid of.
FirstAmount == DebitAmount(0)

Submitting(n) == \E w \in Workers : worker[w].pc = "submit" /\ worker[w].n = n
\* An attempt that will not be collected any more.
Dead(n) == bank[n].state = "bounced" \/ (bank[n].state = "none" /\ ~Submitting(n))
SomeCollected == \E n \in Attempts : bank[n].state = "collected"

CronFits(v) ==
  LET t == worker[v] IN
    /\ t.job \in {"none", "enach", "single", "reconcile", "webhook"} /\ t.notif = 0
    /\ t.job = "enach" => t.amount <= Emi
    /\ t.pc \in {"due", "create"} => t.amount = FirstAmount \/ SomeCollected
    /\ t.pc = "create" => /\ \A m \in Attempts : m < t.n => m \in Rows
                          /\ t.n \notin Rows => \A m \in Rows : Dead(m)
    /\ t.pc = "submit" => /\ debit[t.n].status = "SUBMITTING" /\ bank[t.n].state = "none"
                          /\ \A u \in Workers : worker[u].pc = "submit" /\ worker[u].n = t.n => u = v
    /\ t.pc = "answered" => /\ ~Submitting(t.n)
                            /\ t.answer = "FAILURE" => bank[t.n].state \in {"none", "bounced"}
    /\ t.pc = "ask" /\ t.job = "reconcile" => ~Submitting(t.n)
    /\ t.job = "webhook" => bank[t.n].state = "collected"
    /\ t.pc \in {"credit", "crediting"} => SomeCollected

CronWorld ==
  /\ gateway = {} /\ \A l \in Links : link[l].status = "absent"
  /\ \A n \in Attempts : /\ bank[n].notif = 0 /\ bank[n].amount <= Emi
                         /\ debit[n].status # "NOTIFIED"
  /\ paid # 0 => SomeCollected

OneAlive ==
  /\ \E k \in 0..MaxDebits : Rows = 1..k
  /\ \A n \in Rows : ~Dead(n) => debit[n].status \in Active \cup {"SUCCESS"}
  /\ \A n, m \in Rows : ~Dead(n) /\ ~Dead(m) => n = m

CronInv == CronWorld /\ OneAlive /\ \A v \in Workers : CronFits(v)

\* Nothing that is dead comes back to life, whatever workers go elsewhere.
LEMMA CronKept ==
  ASSUME CollTyped, CollTyped', CronInv,
         \A v \in Workers :
           \/ worker'[v] = worker[v]
           \/ worker'[v].pc # "submit" /\ CronFits(v)',
         \A m \in Attempts :
           /\ debit'[m].status = "absent" <=> debit[m].status = "absent"
           /\ debit'[m].status # "NOTIFIED"
           /\ \/ debit'[m].status = debit[m].status
              \/ ~Submitting(m) /\ (Dead(m)' \/ debit'[m].status \in Active \cup {"SUCCESS"})
           /\ bank'[m].notif = bank[m].notif /\ bank'[m].amount = bank[m].amount
           /\ \/ bank'[m].state = bank[m].state
              \/ bank[m].state = "pending" /\ bank'[m].state \in {"collected", "bounced"},
         UNCHANGED <<link, gateway>>, paid' # 0 => paid # 0 \/ SomeCollected
  PROVE  CronInv'
<1>1. \A m \in Attempts : Submitting(m)' => Submitting(m)
  BY DEF Submitting
<1>2. \A m \in Attempts : Dead(m) => Dead(m)'
  BY <1>1 DEF Dead
<1>3. SomeCollected => SomeCollected'
  BY DEF SomeCollected
<1>4. Rows' = Rows
  BY DEF Rows
<1>5. Rows \subseteq Attempts
  BY DEF Rows
<1>6. CronWorld'
  BY <1>3 DEF CronInv, CronWorld
<1>7. OneAlive'
  <2>1. \E k \in 0..MaxDebits : Rows' = 1..k
    BY <1>4 DEF CronInv, OneAlive
  <2>2. ASSUME NEW n \in Rows, ~Dead(n)' PROVE debit'[n].status \in Active \cup {"SUCCESS"}
    <3>1. ~Dead(n) /\ n \in Attempts
      BY <1>2, <1>5, <2>2
    <3>2. debit[n].status \in Active \cup {"SUCCESS"}
      BY <3>1 DEF CronInv, OneAlive
    <3>3. QED
      BY <2>2, <3>1, <3>2
  <2>3. ASSUME NEW n \in Rows, NEW m \in Rows, ~Dead(n)', ~Dead(m)' PROVE n = m
    <3>1. ~Dead(n) /\ ~Dead(m)
      BY <1>2, <1>5, <2>3
    <3>2. QED
      BY <3>1 DEF CronInv, OneAlive
  <2>4. QED
    BY <1>4, <2>1, <2>2, <2>3 DEF OneAlive
<1>8. ASSUME NEW v \in Workers, worker'[v] = worker[v] PROVE CronFits(v)'
  <2>1. CronFits(v) /\ worker[v].n \in Attempts
    BY DEF CronInv, CollTyped, WorkerState
  <2>2. PICK n \in Attempts : n = worker[v].n
    BY <2>1
  <2>3. PICK t : t = worker[v]
    OBVIOUS
  <2>4. t.n = n /\ worker[v] = t /\ worker'[v] = t
    BY <1>8, <2>2, <2>3
  <2>5. /\ t.job \in {"none", "enach", "single", "reconcile", "webhook"} /\ t.notif = 0
        /\ t.job = "enach" => t.amount <= Emi
        /\ t.pc \in {"due", "create"} => t.amount = FirstAmount \/ SomeCollected'
        /\ t.pc \in {"credit", "crediting"} => SomeCollected'
    BY <1>3, <2>1, <2>4 DEF CronFits
  <2>6. t.job = "webhook" => bank'[n].state = "collected"
    <3>1. t.job = "webhook" => bank[n].state = "collected"
      BY <2>1, <2>4 DEF CronFits
    <3>2. QED
      BY <3>1
  <2>7. (t.pc = "ask" /\ t.job = "reconcile") \/ t.pc = "answered" => ~Submitting(n)'
    <3>1. (t.pc = "ask" /\ t.job = "reconcile") \/ t.pc = "answered" => ~Submitting(n)
      BY <2>1, <2>4 DEF CronFits
    <3>2. QED
      BY <1>1, <3>1
  <2>8. t.pc = "answered" /\ t.answer = "FAILURE" => bank'[n].state \in {"none", "bounced"}
    <3>1. t.pc = "answered" /\ t.answer = "FAILURE" => bank[n].state \in {"none", "bounced"}
      BY <2>1, <2>4 DEF CronFits
    <3>2. QED
      BY <3>1
  <2>9. t.pc = "create" => /\ \A m \in Attempts : m < n => m \in Rows'
                           /\ n \notin Rows' => \A m \in Rows' : Dead(m)'
    <3>1. t.pc = "create" => /\ \A m \in Attempts : m < n => m \in Rows
                             /\ n \notin Rows => \A m \in Rows : Dead(m)
      BY <2>1, <2>4 DEF CronFits
    <3>2. QED
      BY <1>2, <1>4, <1>5, <3>1
  <2>10. t.pc = "submit" => /\ debit'[n].status = "SUBMITTING" /\ bank'[n].state = "none"
                            /\ \A u \in Workers : worker'[u].pc = "submit" /\ worker'[u].n = n => u = v
    <3>1. t.pc = "submit" => Submitting(n)
      BY <2>4 DEF Submitting
    <3>2. t.pc = "submit" => /\ debit[n].status = "SUBMITTING" /\ bank[n].state = "none"
                             /\ \A u \in Workers : worker[u].pc = "submit" /\ worker[u].n = n => u = v
      BY <2>1, <2>4 DEF CronFits
    <3>3. \A u \in Workers : worker'[u].pc = "submit" => worker'[u] = worker[u]
      OBVIOUS
    <3>4. QED
      BY <3>1, <3>2, <3>3
  <2>11. QED
    BY <2>4, <2>5, <2>6, <2>7, <2>8, <2>9, <2>10 DEF CronFits
<1>9. QED
  BY <1>6, <1>7, <1>8 DEF CronInv

\* A worker elsewhere than at a create or a submission, with rows and bank as they were.
LEMMA CronMoves ==
  ASSUME CollTyped, CollTyped', CronInv, NEW w \in Workers,
         \A v \in Workers : v # w => worker'[v] = worker[v],
         worker'[w].pc # "submit", CronFits(w)',
         UNCHANGED <<debit, bank, link, gateway>>, paid' # 0 => paid # 0 \/ SomeCollected
  PROVE  CronInv'
<1>1. \A m \in Attempts : debit'[m].status # "NOTIFIED"
  BY DEF CronInv, CronWorld
<1>2. QED
  BY <1>1, CronKept

LEMMA CronIdle ==
  ASSUME NEW w \in Workers, worker'[w] = Idle
  PROVE  CronFits(w)' /\ worker'[w].pc # "submit"
BY DEF CronFits, Idle

LEMMA CronStarts ==
  ASSUME CronOnly, CollTyped, CollTyped', CronInv, NEW w \in Workers, StartStep(w)
  PROVE  CronInv'
<1>1. worker \in [Workers -> WorkerState] /\ paid \in Nat
  BY DEF CollTyped
<1>2. CASE readDue(w)
  <2>1. /\ worker' = [worker EXCEPT ![w] = [[Idle EXCEPT !.pc = "due", !.amount = DebitAmount(paid)]
                                             EXCEPT !.job = "enach"]]
        /\ UNCHANGED <<paid, debit, bank, link, gateway>>
    BY <1>2 DEF readDue, Start
  <2>2. /\ \A v \in Workers : v # w => worker'[v] = worker[v]
        /\ worker'[w].pc = "due" /\ worker'[w].job = "enach" /\ worker'[w].notif = 0
        /\ worker'[w].amount = DebitAmount(paid)
    BY <1>1, <2>1 DEF Idle
  <2>3. DebitAmount(paid) <= Emi
    BY <1>1, DebitAmountTyped
  <2>4. DebitAmount(paid) = FirstAmount \/ SomeCollected'
    <3>1. paid = 0 \/ SomeCollected
      BY DEF CronInv, CronWorld
    <3>2. SomeCollected => SomeCollected'
      BY <2>1 DEF SomeCollected
    <3>3. QED
      BY <3>1, <3>2 DEF FirstAmount
  <2>5. FirstAmount' = FirstAmount
    BY DEF FirstAmount, DebitAmount, Remaining
  <2>6. CronFits(w)'
    BY <2>2, <2>3, <2>4, <2>5 DEF CronFits
  <2>7. QED
    BY <2>1, <2>2, <2>6, CronMoves
<1>3. ASSUME NEW n \in Attempts, readPending(w, n) PROVE CronInv'
  <2>1. /\ worker' = [worker EXCEPT ![w] = [[Idle EXCEPT !.pc = "ask", !.n = n]
                                             EXCEPT !.job = "reconcile"]]
        /\ UNCHANGED <<paid, debit, bank, link, gateway>>
        /\ debit[n].status \in {"IN_PROCESS", "UNKNOWN"}
    BY <1>3 DEF readPending, Start
  <2>2. /\ \A v \in Workers : v # w => worker'[v] = worker[v]
        /\ worker'[w].pc = "ask" /\ worker'[w].job = "reconcile" /\ worker'[w].notif = 0
        /\ worker'[w].n = n
    BY <1>1, <2>1 DEF Idle
  <2>3. ~Submitting(n)
    BY <2>1 DEF CronInv, CronFits, Submitting
  <2>4. ~Submitting(n)'
    BY <2>2, <2>3 DEF Submitting
  <2>5. CronFits(w)'
    BY <2>2, <2>4 DEF CronFits
  <2>6. QED
    BY <2>1, <2>2, <2>5, CronMoves
<1>4. CASE readLatest(w)
  <2>1. /\ worker' = [worker EXCEPT ![w] = [[Idle EXCEPT !.pc = "ask", !.n = Max(Rows)]
                                             EXCEPT !.job = "single"]]
        /\ UNCHANGED <<paid, debit, bank, link, gateway>>
    BY <1>4 DEF readLatest, Start
  <2>2. /\ \A v \in Workers : v # w => worker'[v] = worker[v]
        /\ worker'[w].pc = "ask" /\ worker'[w].job = "single" /\ worker'[w].notif = 0
    BY <1>1, <2>1 DEF Idle
  <2>3. CronFits(w)'
    BY <2>2 DEF CronFits
  <2>4. QED
    BY <2>1, <2>2, <2>3, CronMoves
<1>5. ASSUME NEW n \in Attempts, readReport(w, n) PROVE CronInv'
  <2>1. ReportedRows(n) = {n}
    BY DEF ReportedRows, CronInv, CronWorld
  <2>2. /\ worker' = [worker EXCEPT ![w] = [[Idle EXCEPT !.pc = "credit", !.n = n, !.id = Debit(n),
                                        !.ref = Debit(n), !.amount = debit[n].amount]
                                        EXCEPT !.job = "webhook"]]
        /\ UNCHANGED <<paid, debit, bank, link, gateway>> /\ bank[n].state = "collected"
    BY <1>5, <2>1 DEF readReport, Start
  <2>3. /\ \A v \in Workers : v # w => worker'[v] = worker[v]
        /\ worker'[w].pc = "credit" /\ worker'[w].job = "webhook" /\ worker'[w].notif = 0
        /\ worker'[w].n = n
    BY <1>1, <2>2 DEF Idle
  <2>4. bank'[n].state = "collected" /\ SomeCollected'
    BY <2>2 DEF SomeCollected
  <2>5. CronFits(w)'
    BY <2>3, <2>4 DEF CronFits
  <2>6. QED
    BY <2>2, <2>3, <2>5, CronMoves
<1>6. \A job \in {"prepare", "notify"} : ~readForNotification(w, job)
  BY DEF CronOnly, readForNotification
<1>7. \A n \in Attempts : ~findNotified(w, n)
  BY DEF CronInv, CronWorld, findNotified
<1>8. \A job \in {"retry", "execute"} : ~readInstallment(w, job)
  BY DEF CronOnly, readInstallment, Start
<1>9. \A l \in Links : ~linkSuccess(w, l)
  BY DEF CronOnly, linkSuccess, Start
<1>10. QED
  BY <1>2, <1>3, <1>4, <1>5, <1>6, <1>7, <1>8, <1>9 DEF StartStep

\* A row that is written with the end of a worker's operation.
LEMMA CronWrites ==
  ASSUME CollTyped, CollTyped', CronInv, NEW w \in Workers, NEW n \in Attempts, NEW s,
         \A v \in Workers : v # w => worker'[v] = worker[v],
         worker'[w].pc # "submit", CronFits(w)',
         debit' = [debit EXCEPT ![n].status = s], debit[n].status # "absent",
         s \notin {"absent", "NOTIFIED"}, ~Submitting(n),
         bank[n].state = "bounced" \/ (bank[n].state = "none" /\ ~Submitting(n)')
           \/ s \in Active \cup {"SUCCESS"},
         UNCHANGED <<bank, link, gateway, paid>>
  PROVE  CronInv'
<1>1. debit \in [Attempts -> [status : RowStatus, amount : Nat, notif : Nat]]
  BY DEF CollTyped
<1>2. /\ debit'[n].status = s
      /\ \A m \in Attempts : m # n => debit'[m].status = debit[m].status
  BY <1>1
<1>3. Dead(n)' \/ s \in Active \cup {"SUCCESS"}
  BY DEF Dead
<1>4. ASSUME NEW m \in Attempts
      PROVE  /\ debit'[m].status = "absent" <=> debit[m].status = "absent"
             /\ debit'[m].status # "NOTIFIED"
             /\ \/ debit'[m].status = debit[m].status
                \/ ~Submitting(m) /\ (Dead(m)' \/ debit'[m].status \in Active \cup {"SUCCESS"})
  <2>1. CASE m = n
    BY <1>2, <1>3, <2>1
  <2>2. CASE m # n
    BY <1>2, <2>2 DEF CronInv, CronWorld
  <2>3. QED
    BY <2>1, <2>2
<1>5. QED
  BY <1>4, CronKept

\* The row is created by the one worker that found every row dead.
LEMMA CronCreates ==
  ASSUME CronOnly, CollTyped, CollTyped', CronInv, NEW w \in Workers, createDebit(w)
  PROVE  CronInv'
<1>1. /\ worker \in [Workers -> WorkerState] /\ worker[w] \in WorkerState
      /\ worker[w].n \in Attempts /\ worker[w].pc = "create"
      /\ debit \in [Attempts -> [status : RowStatus, amount : Nat, notif : Nat]]
      /\ UNCHANGED <<paid, bank, link, gateway>>
  BY DEF CollTyped, WorkerState, createDebit
<1>2. PICK n \in Attempts : n = worker[w].n
  BY <1>1
<1>3. CASE debit[n].status # "absent"
  <2>1. worker' = [worker EXCEPT ![w] = Idle] /\ UNCHANGED debit
    BY <1>2, <1>3 DEF createDebit, Finish
  <2>2. worker'[w] = Idle /\ \A v \in Workers : v # w => worker'[v] = worker[v]
    BY <1>1, <2>1
  <2>3. QED
    BY <1>1, <2>1, <2>2, CronIdle, CronMoves
<1>4. CASE debit[n].status = "absent"
  <2>1. /\ worker' = [worker EXCEPT ![w].pc = "submit"]
        /\ debit' = [debit EXCEPT ![n] = [status |-> "SUBMITTING", amount |-> worker[w].amount,
                                          notif |-> worker[w].notif]]
    BY <1>2, <1>4 DEF createDebit, Goto, CronOnly
  <2>2. /\ worker'[w].pc = "submit" /\ worker'[w].n = n
        /\ worker'[w].job = worker[w].job /\ worker'[w].notif = worker[w].notif
        /\ worker'[w].amount = worker[w].amount
        /\ \A v \in Workers : v # w => worker'[v] = worker[v]
    BY <1>1, <1>2, <2>1 DEF WorkerState
  <2>3. /\ debit'[n].status = "SUBMITTING"
        /\ \A m \in Attempts : m # n => debit'[m] = debit[m]
    BY <1>1, <2>1
  <2>4. n \notin Rows /\ Rows \subseteq Attempts /\ Rows' = Rows \cup {n}
    BY <1>4, <2>3 DEF Rows
  <2>5. /\ \A m \in Attempts : m < n => m \in Rows
        /\ \A m \in Rows : Dead(m)
    BY <1>1, <1>2, <2>4 DEF CronInv, CronFits
  <2>6. bank[n].state = "none"
    BY <1>4 DEF CollTyped
  <2>7. \A m \in Attempts : m # n => (Submitting(m)' <=> Submitting(m))
    BY <1>1, <1>2, <2>2 DEF Submitting
  <2>8. \A m \in Attempts : m # n => (Dead(m)' <=> Dead(m))
    BY <1>1, <2>7 DEF Dead
  <2>9. Submitting(n)' /\ ~Dead(n)'
    BY <1>1, <2>2, <2>6 DEF Submitting, Dead
  <2>10. SomeCollected' <=> SomeCollected
    BY <1>1 DEF SomeCollected
  <2>11. CronWorld'
    BY <1>1, <2>3, <2>10 DEF CronInv, CronWorld
  <2>12. OneAlive'
    <3>1. \E k \in 0..MaxDebits : Rows' = 1..k
      <4>1. PICK k \in 0..MaxDebits : Rows = 1..k
        BY DEF CronInv, OneAlive
      <4>2. MaxDebits \in Nat
        BY DebitsAssumption
      <4>3. n \in 1..MaxDebits
        BY DEF Attempts
      <4>4. n > k
        BY <2>4, <4>1, <4>2, <4>3
      <4>5. k + 1 <= n /\ k + 1 \in 1..MaxDebits
        BY <4>1, <4>2, <4>3, <4>4
      <4>6. ~ (k + 1 < n)
        BY <2>5, <4>1, <4>5 DEF Attempts
      <4>7. n = k + 1
        BY <4>1, <4>3, <4>5, <4>6
      <4>8. \A x : x \in 1..(k + 1) <=> x \in 1..k \/ x = k + 1
        BY <4>1
      <4>9. Rows' = 1..(k + 1)
        BY <2>4, <4>1, <4>7, <4>8
      <4>10. k + 1 \in 0..MaxDebits
        BY <4>5
      <4>11. QED
        BY <4>9, <4>10
    <3>2. \A m \in Rows' : ~Dead(m)' => m = n
      BY <2>4, <2>5, <2>8
    <3>3. debit'[n].status \in Active
      BY <2>3 DEF Active
    <3>4. QED
      BY <3>1, <3>2, <3>3 DEF OneAlive
  <2>13. CronFits(w)'
    <3>1. \A u \in Workers : worker'[u].pc = "submit" /\ worker'[u].n = n => u = w
      <4>1. SUFFICES ASSUME NEW u \in Workers, u # w, worker[u].pc = "submit", worker[u].n = n
                     PROVE  FALSE
        BY <2>2
      <4>2. debit[n].status = "SUBMITTING"
        BY <4>1 DEF CronInv, CronFits
      <4>3. QED
        BY <1>4, <4>2
    <3>2. /\ worker'[w].job = "enach" /\ worker'[w].notif = 0 /\ worker'[w].amount <= Emi
      <4>1. worker[w].job \in {"enach", "retry", "execute"}
        BY <1>1 DEF CollTyped, Fits
      <4>2. QED
        BY <2>2, <4>1 DEF CronInv, CronFits
    <3>3. QED
      BY <1>1, <2>2, <2>3, <2>6, <3>1, <3>2 DEF CronFits
  <2>14. ASSUME NEW v \in Workers, v # w PROVE CronFits(v)'
    <3>1. PICK t : t = worker[v]
      OBVIOUS
    <3>2. CronFits(v) /\ t.n \in Attempts /\ worker[v] = t /\ worker'[v] = t
      BY <2>2, <2>14, <3>1 DEF CronInv, CollTyped, WorkerState
    <3>3. PICK k \in Attempts : k = t.n
      BY <3>2
    <3>4. t.pc \in {"submit", "answered", "ask"} => k # n
      BY <1>4, <3>2, <3>3 DEF CollTyped, Fits, Holding
    <3>5. t.pc = "create" => /\ \A m \in Attempts : m < k => m \in Rows'
                             /\ k \notin Rows' => \A m \in Rows' : Dead(m)'
      <4>1. SUFFICES ASSUME t.pc = "create"
                     PROVE  /\ \A m \in Attempts : m < k => m \in Rows'
                            /\ k \in Rows'
        OBVIOUS
      <4>2. \A m \in Attempts : m < k => m \in Rows
        BY <3>2, <3>3, <4>1 DEF CronFits
      <4>3. k \in Int /\ n \in Int
        BY DebitsAssumption DEF Attempts
      <4>4. k = n \/ k \in Rows
        BY <2>4, <2>5, <4>2, <4>3
      <4>5. QED
        BY <2>4, <4>2, <4>4
    <3>6. t.pc = "submit" => /\ debit'[k].status = "SUBMITTING" /\ bank'[k].state = "none"
                             /\ \A u \in Workers : worker'[u].pc = "submit" /\ worker'[u].n = k => u = v
      <4>1. t.pc = "submit" => /\ debit[k].status = "SUBMITTING" /\ bank[k].state = "none"
                               /\ \A u \in Workers : worker[u].pc = "submit" /\ worker[u].n = k => u = v
        BY <3>2, <3>3 DEF CronFits
      <4>2. QED
        BY <1>1, <2>2, <2>3, <3>4, <4>1
    <3>7. (t.pc = "ask" /\ t.job = "reconcile") \/ t.pc = "answered" => ~Submitting(k)'
      <4>1. (t.pc = "ask" /\ t.job = "reconcile") \/ t.pc = "answered" => ~Submitting(k)
        BY <3>2, <3>3 DEF CronFits
      <4>2. QED
        BY <2>7, <3>4, <4>1
    <3>8. FirstAmount' = FirstAmount
      BY DEF FirstAmount, DebitAmount, Remaining
    <3>9. QED
      BY <1>1, <2>10, <3>2, <3>3, <3>5, <3>6, <3>7, <3>8 DEF CronFits
  <2>15. QED
    BY <2>11, <2>12, <2>13, <2>14 DEF CronInv
<1>5. QED
  BY <1>3, <1>4

\* The debit is presented by the one worker at its submission.
LEMMA CronPresents ==
  ASSUME CronOnly, CollTyped, CollTyped', CronInv, NEW w \in Workers,
         NEW post \in [arrived : BOOLEAN, http : {"accepted", "refused", "4xx", "unclear"}],
         present(w, post)
  PROVE  CronInv'
<1>1. /\ worker \in [Workers -> WorkerState] /\ worker[w] \in WorkerState
      /\ worker[w].n \in Attempts /\ worker[w].pc = "submit" /\ CronFits(w)
      /\ bank \in [Attempts -> [state : {"none", "pending", "collected", "bounced"}, amount : Nat,
                                notif : Nat]]
      /\ UNCHANGED <<paid, debit, link, gateway>>
  BY DEF CollTyped, WorkerState, present, CronInv
<1>2. PICK n \in Attempts : n = worker[w].n
  BY <1>1
<1>3. /\ worker[w].job = "enach" /\ worker[w].notif = 0 /\ worker[w].amount <= Emi
      /\ debit[n].status = "SUBMITTING" /\ bank[n].state = "none"
      /\ \A u \in Workers : worker[u].pc = "submit" /\ worker[u].n = n => u = w
  <2>1. worker[w].job \in {"enach", "upi", "retry", "execute"}
    BY <1>1 DEF CollTyped, Fits
  <2>2. QED
    BY <1>1, <1>2, <2>1 DEF CronFits
<1>4. /\ bank' = bank \/ bank' = [bank EXCEPT ![n] = [state |-> "pending", amount |-> worker[w].amount,
                                                      notif |-> 0]]
      /\ worker' = [worker EXCEPT ![w].pc = "answered", ![w].answer = initiateEnachPresentment(post)]
      /\ initiateEnachPresentment(post) = "FAILURE" => bank' = bank
  <2>1. /\ post \in Posts
        /\ bank' = IF post.arrived
                   THEN [bank EXCEPT ![n] = [state |-> "pending", amount |-> worker[w].amount,
                                             notif |-> 0]]
                   ELSE bank
        /\ worker' = [worker EXCEPT ![w].pc = "answered", ![w].answer = initiateEnachPresentment(post)]
    BY <1>2, <1>3 DEF present, CronOnly
  <2>2. initiateEnachPresentment(post) = "FAILURE" => ~post.arrived
    BY <2>1 DEF Posts, initiateEnachPresentment
  <2>3. QED
    BY <2>1, <2>2
<1>5. PICK a \in {"IN_PROCESS", "UNKNOWN", "FAILURE"} : a = initiateEnachPresentment(post)
  BY DEF initiateEnachPresentment
<1>6. /\ worker'[w].pc = "answered" /\ worker'[w].answer = a /\ worker'[w].n = n
      /\ worker'[w].job = "enach" /\ worker'[w].notif = 0 /\ worker'[w].amount <= Emi
      /\ \A v \in Workers : v # w => worker'[v] = worker[v]
  BY <1>1, <1>2, <1>3, <1>4, <1>5 DEF WorkerState
<1>7. /\ bank'[n].state \in {"none", "pending"} /\ (a = "FAILURE" => bank'[n].state = "none")
      /\ bank'[n].notif = 0 /\ bank'[n].amount <= Emi
      /\ \A m \in Attempts : m # n => bank'[m] = bank[m]
  <2>1. bank[n].notif = 0 /\ bank[n].amount <= Emi
    BY DEF CronInv, CronWorld
  <2>2. CASE bank' = bank
    BY <1>3, <2>1, <2>2
  <2>3. CASE bank' = [bank EXCEPT ![n] = [state |-> "pending", amount |-> worker[w].amount,
                                          notif |-> 0]] /\ a # "FAILURE"
    BY <1>1, <1>3, <2>3
  <2>4. QED
    BY <1>4, <1>5, <2>2, <2>3
<1>8. /\ ~Submitting(n)' /\ Submitting(n)
      /\ \A m \in Attempts : m # n => (Submitting(m)' <=> Submitting(m))
  BY <1>1, <1>2, <1>3, <1>6 DEF Submitting
<1>9. \A m \in Attempts : m # n => (Dead(m)' <=> Dead(m))
  BY <1>7, <1>8 DEF Dead
<1>10. ~Dead(n) /\ n \in Rows /\ Rows' = Rows /\ Rows \subseteq Attempts
  BY <1>1, <1>3, <1>8 DEF Dead, Rows
<1>11. SomeCollected' <=> SomeCollected
  BY <1>3, <1>7 DEF SomeCollected
<1>12. CronWorld'
  <2>1. \A m \in Attempts : bank'[m].notif = 0 /\ bank'[m].amount <= Emi
    BY <1>7 DEF CronInv, CronWorld
  <2>2. QED
    BY <1>1, <1>11, <2>1 DEF CronInv, CronWorld
<1>13. OneAlive'
  <2>1. \A m \in Rows : ~Dead(m) => m = n
    BY <1>10 DEF CronInv, OneAlive
  <2>2. \A m \in Rows : ~Dead(m)' => m = n
    BY <1>9, <1>10, <2>1
  <2>3. debit'[n].status \in Active
    BY <1>1, <1>3 DEF Active
  <2>4. \E k \in 0..MaxDebits : Rows' = 1..k
    BY <1>10 DEF CronInv, OneAlive
  <2>5. QED
    BY <1>10, <2>2, <2>3, <2>4 DEF OneAlive
<1>14. CronFits(w)'
  BY <1>6, <1>7, <1>8 DEF CronFits
<1>15. ASSUME NEW v \in Workers, v # w PROVE CronFits(v)'
  <2>1. PICK t : t = worker[v]
    OBVIOUS
  <2>2. CronFits(v) /\ t.n \in Attempts /\ worker[v] = t /\ worker'[v] = t
    BY <1>6, <1>15, <2>1 DEF CronInv, CollTyped, WorkerState
  <2>3. PICK k \in Attempts : k = t.n
    BY <2>2
  <2>4. t.pc = "submit" => k # n
    BY <1>3, <1>15, <2>2, <2>3
  <2>5. (t.pc = "ask" /\ t.job = "reconcile") \/ t.pc = "answered" => ~Submitting(k)
    BY <2>2, <2>3 DEF CronFits
  <2>6. (t.pc = "ask" /\ t.job = "reconcile") \/ t.pc = "answered" => k # n /\ ~Submitting(k)'
    BY <1>8, <2>5
  <2>7. t.pc = "create" => /\ \A m \in Attempts : m < k => m \in Rows'
                           /\ k \notin Rows' => \A m \in Rows' : Dead(m)'
    <3>1. t.pc = "create" => /\ \A m \in Attempts : m < k => m \in Rows
                             /\ k \notin Rows => \A m \in Rows : Dead(m)
      BY <2>2, <2>3 DEF CronFits
    <3>2. QED
      BY <1>10, <3>1
  <2>8. t.pc = "submit" => /\ debit'[k].status = "SUBMITTING" /\ bank'[k].state = "none"
                           /\ \A u \in Workers : worker'[u].pc = "submit" /\ worker'[u].n = k => u = v
    <3>1. t.pc = "submit" => /\ debit[k].status = "SUBMITTING" /\ bank[k].state = "none"
                             /\ \A u \in Workers : worker[u].pc = "submit" /\ worker[u].n = k => u = v
      BY <2>2, <2>3 DEF CronFits
    <3>2. QED
      BY <1>1, <1>6, <1>7, <2>4, <3>1
  <2>9. t.pc = "answered" /\ t.answer = "FAILURE" => bank'[k].state \in {"none", "bounced"}
    <3>1. t.pc = "answered" /\ t.answer = "FAILURE" => bank[k].state \in {"none", "bounced"}
      BY <2>2, <2>3 DEF CronFits
    <3>2. QED
      BY <1>7, <2>6, <3>1
  <2>10. t.job = "webhook" => bank'[k].state = "collected"
    <3>1. t.job = "webhook" => bank[k].state = "collected"
      BY <2>2, <2>3 DEF CronFits
    <3>2. QED
      BY <1>3, <1>7, <3>1
  <2>11. FirstAmount' = FirstAmount
    BY DEF FirstAmount, DebitAmount, Remaining
  <2>12. QED
    BY <1>11, <2>2, <2>3, <2>6, <2>7, <2>8, <2>9, <2>10, <2>11 DEF CronFits
<1>16. QED
  BY <1>12, <1>13, <1>14, <1>15 DEF CronInv

\* The attempt that follows when no row stands in its way.
LEMMA CronChooses ==
  ASSUME CollTyped, CollTyped', CronInv, NEW w \in Workers, chooseAttempt(w)
  PROVE  CronInv'
<1>1. /\ worker \in [Workers -> WorkerState] /\ worker[w] \in WorkerState
      /\ worker[w].pc = "due" /\ CronFits(w)
      /\ UNCHANGED <<paid, debit, bank, link, gateway>>
  BY DEF CollTyped, chooseAttempt, CronInv
<1>2. CASE Finish(w)
  <2>1. worker'[w] = Idle /\ \A v \in Workers : v # w => worker'[v] = worker[v]
    BY <1>1, <1>2 DEF Finish
  <2>2. QED
    BY <1>1, <2>1, CronIdle, CronMoves
<1>3. CASE ~ Finish(w)
  <2>1. /\ Blocking = {}
        /\ worker' = [worker EXCEPT ![w].pc = "create", ![w].n = NextAttempt]
    BY <1>3 DEF chooseAttempt
  <2>2. /\ worker'[w].pc = "create" /\ worker'[w].n = NextAttempt
        /\ worker'[w].job = worker[w].job /\ worker'[w].notif = worker[w].notif
        /\ worker'[w].amount = worker[w].amount
        /\ \A v \in Workers : v # w => worker'[v] = worker[v]
    BY <1>1, <2>1 DEF WorkerState
  <2>3. \A m \in Rows : Dead(m)
    BY <2>1 DEF Blocking, CronInv, OneAlive, Rows
  <2>4. \A m \in Attempts : Dead(m) => Dead(m)'
    BY <1>1, <2>2 DEF Dead, Submitting
  <2>5. Rows' = Rows /\ Rows \subseteq Attempts
    BY <1>1 DEF Rows
  <2>6. \A m \in Rows' : Dead(m)'
    BY <2>3, <2>4, <2>5
  <2>7. \A m \in Attempts : m < NextAttempt => m \in Rows
    <3>1. PICK k \in 0..MaxDebits : Rows = 1..k
      BY DEF CronInv, OneAlive
    <3>2. k \in Nat
      BY <3>1, DebitsAssumption
    <3>3. Cardinality(1..k) = k
      BY <3>2, FS_Interval
    <3>4. NextAttempt = k + 1
      BY <3>1, <3>3 DEF NextAttempt
    <3>5. \A m \in Attempts : m \in Nat /\ m >= 1
      BY DebitsAssumption DEF Attempts
    <3>6. QED
      BY <3>1, <3>2, <3>4, <3>5
  <2>8. worker'[w].amount = FirstAmount \/ SomeCollected
    BY <1>1, <2>2 DEF CronFits
  <2>9. FirstAmount' = FirstAmount /\ (SomeCollected' <=> SomeCollected)
    BY <1>1 DEF FirstAmount, DebitAmount, Remaining, SomeCollected
  <2>10. CronFits(w)'
    <3>1. PICK k : k = NextAttempt
      OBVIOUS
    <3>2. \A m \in Attempts : m < k => m \in Rows'
      BY <2>5, <2>7, <3>1
    <3>3. /\ worker'[w].job \in {"none", "enach", "single", "reconcile", "webhook"}
          /\ worker'[w].notif = 0 /\ (worker'[w].job = "enach" => worker'[w].amount <= Emi)
          /\ worker'[w].job # "webhook"
      <4>1. worker[w].job = "enach"
        BY <1>1 DEF CollTyped, Fits
      <4>2. QED
        BY <1>1, <2>2, <4>1 DEF CronFits
    <3>4. worker'[w].n = k /\ worker'[w].pc = "create"
      BY <2>2, <3>1
    <3>5. QED
      BY <2>6, <2>8, <2>9, <3>2, <3>3, <3>4 DEF CronFits
  <2>11. QED
    BY <1>1, <2>2, <2>10, CronMoves
<1>4. QED
  BY <1>2, <1>3

LEMMA CronGoesOn ==
  ASSUME CronOnly, CollTyped, CollTyped', CronInv, NEW w \in Workers, GoOn(w)
  PROVE  CronInv'
<1> DEFINE s == worker[w]
<1>1. /\ worker \in [Workers -> WorkerState] /\ s \in WorkerState /\ s.n \in Attempts
      /\ Fits(s, debit) /\ CronFits(w)
      /\ s.job \in {"none", "enach", "single", "reconcile", "webhook"} /\ s.notif = 0
      /\ debit \in [Attempts -> [status : RowStatus, amount : Nat, notif : Nat]]
  BY DEF CollTyped, WorkerState, CronInv, CronFits
<1>2. PICK n \in Attempts : n = s.n
  BY <1>1
<1>3. ~ (s.pc \in {"tell", "found", "rows", "decide", "notify"})
  BY <1>1 DEF Fits
<1> HIDE DEF s
<1>4. ASSUME Finish(w)
      PROVE  /\ worker'[w] = Idle /\ \A v \in Workers : v # w => worker'[v] = worker[v]
             /\ CronFits(w)' /\ worker'[w].pc # "submit"
  BY <1>1, <1>4, CronIdle DEF Finish
<1>5. CASE Finish(w) /\ UNCHANGED <<paid, debit, bank, link, gateway>>
  BY <1>4, <1>5, CronMoves
<1>6. CASE chooseAttempt(w)
  BY <1>6, CronChooses
<1>7. CASE createDebit(w)
  BY <1>7, CronCreates
<1>8. ASSUME NEW post \in [arrived : BOOLEAN, http : {"accepted", "refused", "4xx", "unclear"}],
             present(w, post)
      PROVE  CronInv'
  BY <1>8, CronPresents
<1>9. CASE recordAnswer(w)
  <2>1. /\ s.pc = "answered" /\ Finish(w) /\ UNCHANGED <<paid, bank, link, gateway>>
        /\ debit' = [debit EXCEPT ![n].status = s.answer]
    BY <1>2, <1>9 DEF recordAnswer, s
  <2>2. /\ ~Submitting(n) /\ s.answer \in {"IN_PROCESS", "UNKNOWN", "FAILURE"}
        /\ debit[n].status # "absent"
        /\ s.answer = "FAILURE" => bank[n].state \in {"none", "bounced"}
    BY <1>1, <1>2, <2>1 DEF CronFits, Fits, Holding, s
  <2>3. ~Submitting(n)'
    BY <1>4, <2>1, <2>2 DEF Submitting, Idle
  <2>4. s.answer \in {"IN_PROCESS", "UNKNOWN"} => s.answer \in Active
    BY DEF Active
  <2>5. QED
    BY <1>4, <2>1, <2>2, <2>3, <2>4, CronWrites
<1>10. CASE giveUp(w)
  BY <1>5, <1>10 DEF giveUp
<1>11. ASSUME s.pc = "ask" PROVE s.job \in {"single", "reconcile"} /\ AfterReconcile(s.job) = "idle"
  BY <1>1, <1>11 DEF Fits, AfterReconcile
<1>12. CASE askInVain(w)
  BY <1>5, <1>11, <1>12 DEF askInVain, s
<1>13. ASSUME NEW m \in Matches(w), s.pc = "ask"
       PROVE  m = n \/ (bank[n].state = "none" /\ ~Submitting(n))
  <2>1. SameNotification(n) = {}
    BY DEF SameNotification, CronInv, CronWorld, Known
  <2>2. CASE n \in Known
    BY <1>2, <2>1, <2>2 DEF Matches, s
  <2>3. CASE n \notin Known
    <3>1. bank[n].state = "none"
      BY <2>3 DEF Known
    <3>2. s.job = "reconcile"
      BY <1>2, <1>11, <1>13, <2>3 DEF Matches, s
    <3>3. ~Submitting(n)
      BY <1>1, <1>2, <1>13, <3>2 DEF CronFits, s
    <3>4. QED
      BY <3>1, <3>3
  <2>4. QED
    BY <2>2, <2>3
<1>14. bank[n].state # "none" => ~Submitting(n)
  BY DEF CronInv, CronFits, Submitting
<1>15. ASSUME NEW m \in Attempts, markFailure(w, m) PROVE CronInv'
  <2>1. /\ s.pc = "ask" /\ Finish(w) /\ UNCHANGED <<paid, bank, link, gateway>>
        /\ debit' = [debit EXCEPT ![n].status = "FAILURE"]
        /\ m \in Matches(w) /\ bank[m].state = "bounced"
    BY <1>2, <1>11, <1>15 DEF markFailure, s
  <2>2. bank[n].state = "bounced" \/ (bank[n].state = "none" /\ ~Submitting(n))
    BY <1>13, <2>1
  <2>3. ~Submitting(n) /\ debit[n].status # "absent"
    BY <1>1, <1>2, <1>14, <2>1, <2>2 DEF Fits, Holding
  <2>4. ~Submitting(n)'
    BY <1>4, <2>1, <2>3 DEF Submitting, Idle
  <2>5. PICK a : a = "FAILURE"
    OBVIOUS
  <2>6. /\ debit' = [debit EXCEPT ![n].status = a]
        /\ a \notin {"absent", "NOTIFIED"} /\ (a = "SUCCESS" => a \in Active \cup {"SUCCESS"})
    BY <2>1, <2>5
  <2>7. QED
    BY <1>4, <2>1, <2>2, <2>3, <2>4, <2>5, <2>6, CronWrites
<1>16. ASSUME NEW m \in Attempts, markSuccess(w, m) PROVE CronInv'
  <2>1. /\ s.pc = "ask" /\ UNCHANGED <<paid, bank, link, gateway>>
        /\ debit' = [debit EXCEPT ![n].status = "SUCCESS"]
        /\ worker' = [worker EXCEPT ![w].pc = "credit", ![w].id = Debit(n), ![w].ref = Debit(m),
                                    ![w].amount = debit[n].amount]
        /\ m \in Matches(w) /\ bank[m].state = "collected"
    BY <1>2, <1>16 DEF markSuccess, s
  <2>2. ~Submitting(n) /\ debit[n].status # "absent"
    <3>1. m = n \/ ~Submitting(n)
      BY <1>13, <2>1
    <3>2. QED
      BY <1>1, <1>2, <1>14, <2>1, <3>1 DEF Fits, Holding
  <2>3. /\ worker'[w].pc = "credit" /\ worker'[w].job = s.job /\ worker'[w].notif = 0
        /\ \A v \in Workers : v # w => worker'[v] = worker[v]
    BY <1>1, <2>1 DEF WorkerState, s
  <2>4. s.job \in {"single", "reconcile"} /\ SomeCollected'
    BY <1>11, <2>1 DEF SomeCollected
  <2>5. CronFits(w)'
    BY <2>3, <2>4 DEF CronFits
  <2>6. "SUCCESS" \in Active \cup {"SUCCESS"} /\ worker'[w].pc # "submit"
    BY <2>3
  <2>7. PICK a : a = "SUCCESS"
    OBVIOUS
  <2>8. /\ debit' = [debit EXCEPT ![n].status = a]
        /\ a \notin {"absent", "NOTIFIED"} /\ (a = "SUCCESS" => a \in Active \cup {"SUCCESS"})
    BY <2>1, <2>7
  <2>9. QED
    BY <2>1, <2>2, <2>3, <2>5, <2>7, <2>8, CronWrites
<1>17. CASE readLedger(w)
  <2>1. /\ s.pc = "credit" /\ UNCHANGED <<paid, debit, bank, link, gateway>>
        /\ worker' = [worker EXCEPT ![w].pc = "crediting",
                                    ![w].snap = [paid |-> paid, ledger |-> ledger]]
    BY <1>17 DEF readLedger, s
  <2>2. /\ worker'[w].pc = "crediting" /\ worker'[w].job = s.job /\ worker'[w].notif = 0
        /\ worker'[w].n = n /\ worker'[w].amount = s.amount
        /\ \A v \in Workers : v # w => worker'[v] = worker[v]
    BY <1>1, <1>2, <2>1 DEF WorkerState, s
  <2>3. /\ s.job = "enach" => s.amount <= Emi
        /\ s.job = "webhook" => bank'[n].state = "collected"
        /\ SomeCollected'
    BY <1>1, <1>2, <2>1 DEF CronFits, SomeCollected, s
  <2>4. CronFits(w)'
    BY <1>1, <2>2, <2>3 DEF CronFits
  <2>5. QED
    BY <2>1, <2>2, <2>4, CronMoves
<1>18. CASE commitRepayment(w)
  <2>1. /\ s.pc = "crediting" /\ UNCHANGED <<debit, bank, link, gateway>>
        /\ Finish(w) \/ (s.job = "webhook" /\ Goto(w, "closing"))
    BY <1>18 DEF commitRepayment, s
  <2>2. SomeCollected
    BY <1>1, <2>1 DEF CronFits, s
  <2>3. CASE Finish(w)
    BY <1>4, <2>1, <2>2, <2>3, CronMoves
  <2>4. CASE s.job = "webhook" /\ Goto(w, "closing")
    <3>1. /\ worker'[w].pc = "closing" /\ worker'[w].job = "webhook" /\ worker'[w].notif = 0
          /\ worker'[w].n = n
          /\ \A v \in Workers : v # w => worker'[v] = worker[v]
      BY <1>1, <1>2, <2>4 DEF WorkerState, Goto, s
    <3>2. bank'[n].state = "collected"
      BY <1>1, <1>2, <2>1, <2>4 DEF CronFits, s
    <3>3. CronFits(w)'
      BY <3>1, <3>2 DEF CronFits
    <3>4. QED
      BY <2>1, <2>2, <3>1, <3>3, CronMoves
  <2>5. QED
    BY <2>1, <2>3, <2>4
<1>19. CASE closeReport(w)
  <2>1. /\ s.pc = "closing" /\ Finish(w) /\ UNCHANGED <<paid, bank, link, gateway>>
        /\ debit' = [debit EXCEPT ![n].status = "SUCCESS"]
    BY <1>2, <1>19 DEF closeReport, s
  <2>2. bank[n].state = "collected" /\ debit[n].status # "absent"
    BY <1>1, <1>2, <2>1 DEF CronFits, Fits, Holding, s
  <2>3. ~Submitting(n)
    BY <1>14, <2>2
  <2>4. "SUCCESS" \in Active \cup {"SUCCESS"}
    OBVIOUS
  <2>5. PICK a : a = "SUCCESS"
    OBVIOUS
  <2>6. /\ debit' = [debit EXCEPT ![n].status = a]
        /\ a \notin {"absent", "NOTIFIED"} /\ (a = "SUCCESS" => a \in Active \cup {"SUCCESS"})
    BY <2>1, <2>5
  <2>7. QED
    BY <1>4, <2>1, <2>2, <2>3, <2>5, <2>6, CronWrites
<1>20. /\ ~storeNotification(w) /\ ~claimNotified(w) /\ ~readDebits(w) /\ ~decide(w)
       /\ \A http \in {"accepted", "refused", "4xx", "unclear"} : ~notifyCustomer(w, http)
  BY <1>3 DEF storeNotification, claimNotified, readDebits, decide, notifyCustomer, s
<1>21. ~mandateRevoked(w)
  BY <1>1, <1>3 DEF mandateRevoked, s
<1>22. QED
  BY <1>6, <1>7, <1>8, <1>9, <1>10, <1>12, <1>15, <1>16, <1>17, <1>18, <1>19, <1>20, <1>21 DEF GoOn

LEMMA CronInvKept ==
  ASSUME CronOnly, CollTyped, CollTyped', CronInv, Next \/ UNCHANGED vars
  PROVE  CronInv'
<1>1. ASSUME NEW w \in Workers, StartStep(w) PROVE CronInv'
  BY <1>1, CronStarts
<1>2. ASSUME NEW w \in Workers, GoOn(w) PROVE CronInv'
  BY <1>2, CronGoesOn
<1>3. ASSUME NEW w \in Workers, crash(w) PROVE CronInv'
  <2>1. worker'[w] = Idle /\ \A v \in Workers : v # w => worker'[v] = worker[v]
    BY <1>3 DEF crash, Finish, CollTyped
  <2>2. QED
    BY <1>3, <2>1, CronIdle, CronMoves DEF crash
<1>4. ASSUME UNCHANGED <<worker, link, gateway, paid>>,
             \A m \in Attempts :
               /\ debit'[m].status = "absent" <=> debit[m].status = "absent"
               /\ debit'[m].status # "NOTIFIED"
               /\ \/ debit'[m].status = debit[m].status
                  \/ ~Submitting(m) /\ Dead(m)'
               /\ bank'[m].notif = bank[m].notif /\ bank'[m].amount = bank[m].amount
               /\ \/ bank'[m].state = bank[m].state
                  \/ bank[m].state = "pending" /\ bank'[m].state \in {"collected", "bounced"}
      PROVE  CronInv'
  BY <1>4, CronKept
<1>5. \A m \in Attempts : debit[m].status # "NOTIFIED"
  BY DEF CronInv, CronWorld
<1>6. ASSUME NEW n \in Attempts, NEW outcome \in {"collected", "bounced"}, bankSettles(n, outcome)
      PROVE  CronInv'
  <2>1. /\ UNCHANGED <<worker, link, gateway, paid, debit>> /\ bank[n].state = "pending"
        /\ bank' = [bank EXCEPT ![n].state = outcome]
    BY <1>6 DEF bankSettles
  <2>2. \A m \in Attempts : /\ bank'[m].notif = bank[m].notif /\ bank'[m].amount = bank[m].amount
                            /\ \/ bank'[m].state = bank[m].state
                               \/ bank[m].state = "pending" /\ bank'[m].state \in {"collected", "bounced"}
    BY <2>1 DEF CollTyped
  <2>3. QED
    BY <1>4, <1>5, <2>1, <2>2
<1>7. ASSUME NEW n \in Attempts, otherReport(n) PROVE CronInv'
  <2>1. ReportedRows(n) = {n}
    BY DEF ReportedRows, CronInv, CronWorld
  <2>2. UNCHANGED <<worker, link, gateway, paid, bank>>
    BY <1>7 DEF otherReport
  <2>3. CASE bank[n].state = "bounced"
    <3>1. debit' = [debit EXCEPT ![n].status = "FAILURE"]
      BY <1>7, <2>1, <2>3 DEF otherReport
    <3>2. ~Submitting(n) /\ debit[n].status # "absent" /\ Dead(n)'
      BY <2>2, <2>3 DEF CronInv, CronFits, Submitting, CollTyped, Dead
    <3>3. /\ debit'[n].status = "FAILURE"
          /\ \A m \in Attempts : m # n => debit'[m].status = debit[m].status
      BY <3>1 DEF CollTyped
    <3>4. QED
      BY <1>4, <1>5, <2>2, <3>2, <3>3
  <2>4. CASE bank[n].state # "bounced"
    BY <1>4, <1>5, <1>7, <2>2, <2>4 DEF otherReport
  <2>5. QED
    BY <2>3, <2>4
<1>8. CASE mandateEnds \/ UNCHANGED vars
  BY <1>4, <1>5, <1>8 DEF mandateEnds, vars
<1>9. ASSUME NEW l \in Links
      PROVE  /\ \A amount \in 1..Emi : ~initiateRepaymentPayment(l, amount)
             /\ ~customerPays(l) /\ ~linkPending(l)
  BY DEF CronOnly, CronInv, CronWorld, initiateRepaymentPayment, customerPays, linkPending
<1>10. QED
  BY <1>1, <1>2, <1>3, <1>6, <1>7, <1>8, <1>9 DEF Next

LEMMA CronInvStarts == Init => CronInv
<1> SUFFICES ASSUME Init PROVE CronInv
  OBVIOUS
<1>1. /\ paid = 0 /\ gateway = {} /\ \A l \in Links : link[l].status = "absent"
      /\ \A n \in Attempts : /\ debit[n].status = "absent"
                             /\ bank[n].state = "none" /\ bank[n].notif = 0 /\ bank[n].amount = 0
      /\ \A w \in Workers : worker[w] = Idle
  BY DEF Init, NoRow
<1>2. CronWorld
  BY <1>1, AmountsAssumption DEF CronWorld
<1>3. Rows = {}
  BY <1>1 DEF Rows
<1>4. OneAlive
  <2>1. 0 \in 0..MaxDebits /\ 1..0 = {}
    BY DebitsAssumption
  <2>2. QED
    BY <1>3, <2>1 DEF OneAlive
<1>5. ASSUME NEW v \in Workers PROVE CronFits(v)
  BY <1>1 DEF CronFits, Idle
<1>6. QED
  BY <1>2, <1>4, <1>5 DEF CronInv

\* One debit at most is collected, so no more than its amount.
LEMMA OneCollected == CollTyped /\ CronInv => CollectedOnce
<1> SUFFICES ASSUME CollTyped, CronInv PROVE CollectedOnce
  OBVIOUS
<1> DEFINE f == [n \in Attempts |-> bank[n].amount]
           g == [l \in Links |-> link[l].amount]
<1>1. \A n \in Attempts : f[n] \in Nat /\ f[n] <= Emi
  BY DEF CollTyped, CronInv, CronWorld
<1>2. \A n, m \in CollectedDebits : n = m
  <2>1. \A n \in CollectedDebits : n \in Rows /\ ~Dead(n)
    BY DEF CollectedDebits, Rows, Dead, CollTyped
  <2>2. QED
    BY <2>1 DEF CronInv, OneAlive
<1>3. Total(g, gateway) = 0
  BY TotalNone DEF CronInv, CronWorld
<1> HIDE DEF f, g
<1>4. Total(f, CollectedDebits) <= Emi
  <2>1. CASE CollectedDebits = {}
    BY <2>1, TotalNone, AmountsAssumption
  <2>2. ASSUME NEW n \in CollectedDebits PROVE Total(f, CollectedDebits) <= Emi
    <3>1. n \in Attempts /\ {} \cup {n} = CollectedDebits
      BY <1>2 DEF CollectedDebits
    <3>2. IsFiniteSet({}) /\ n \notin {} /\ \A x \in {} \cup {n} : f[x] \in Nat
      BY <1>1, <3>1, FS_EmptySet
    <3>3. Total(f, {} \cup {n}) = Total(f, {}) + f[n]
      BY <3>2, TotalAdd
    <3>4. Total(f, {}) = 0
      BY TotalNone
    <3>5. Total(f, CollectedDebits) = 0 + f[n]
      BY <3>1, <3>3, <3>4
    <3>6. QED
      BY <1>1, <3>1, <3>5
  <2>3. QED
    BY <2>1, <2>2
<1>5. Total(f, CollectedDebits) \in Nat
  <2>1. IsFiniteSet(Attempts) /\ CollectedDebits \subseteq Attempts
    BY DebitsAssumption, FS_Interval DEF Attempts, CollectedDebits
  <2>2. IsFiniteSet(CollectedDebits)
    BY <2>1, FS_Subset
  <2>3. QED
    BY <1>1, <2>1, <2>2, TotalTyped
<1>6. Collected = Total(f, CollectedDebits) + Total(g, gateway)
  BY DEF Collected, f, g
<1>7. QED
  BY <1>3, <1>4, <1>5, <1>6, AmountsAssumption DEF CollectedOnce

\* The customer never pays more than the instalment, for any number of overlapping and dying
\* cron runs, reconciliations, operators' look-ups and webhooks, any amounts and any limit of
\* attempts, where the instalment is collected by the morning cron alone: an e-NACH mandate,
\* no payment link and no debit by an operator, who may present a row again while the cron
\* presents it.
THEOREM CollectedOnceHolds == CronOnly => (Spec => []CollectedOnce)
<1> SUFFICES ASSUME CronOnly PROVE Spec => []CollectedOnce
  OBVIOUS
<1>1. Init => CollTyped /\ CronInv
  BY CollTypedStarts, CronInvStarts
<1>2. CollTyped /\ CronInv /\ [Next]_vars => (CollTyped /\ CronInv)'
  BY CollTypedKept, CronInvKept
<1>3. CollTyped /\ CronInv => CollectedOnce
  BY OneCollected
<1>4. QED
  BY <1>1, <1>2, <1>3, PTL DEF Spec

-------------------------------------------------------------------------------
(* What is credited (LoanCollection).                                       *)

\* Every debit takes the same: the mandate's limit goes into the instalment a whole number
\* of times, or once, and so does what links leave owed.
EqualDebits ==
  /\ \E k \in Nat : Emi = k * FirstAmount
  /\ "link" \in Jobs => FirstAmount = 1

\* A number of whole debits.
Whole(p) == \E k \in Nat : p = k * FirstAmount

\* A payment the customer made, for what they paid.
Paying(ref, amount) ==
  \/ \E n \in Attempts : ref = Debit(n) /\ bank[n].state = "collected" /\ amount = FirstAmount
  \/ \E l \in gateway : ref = Link(l) /\ amount = link[l].amount

CreditedDebits(entries) == {n \in Attempts : \E r \in entries : r.ref = Debit(n)}
CreditedLinks(entries) == {l \in Links : \E r \in entries : r.ref = Link(l)}
EachDebit == [n \in Attempts |-> FirstAmount]
EachLink == [l \in Links |-> link[l].amount]
\* What the payments among some repayments come to, each counted once.
Credit(each, entries) ==
  Total(EachDebit, CreditedDebits(entries)) + Total(each, CreditedLinks(entries))

\* A worker still debits what is owed, unless the only debit there will be has been collected.
Debits(amount) == amount = FirstAmount \/ (CronOnly /\ SomeCollected)

MoneyFits(v) ==
  LET t == worker[v] IN
    /\ t.pc = "submit" => t.amount = FirstAmount
    /\ t.pc \in {"due", "tell", "found", "rows", "decide", "create"} => Debits(t.amount)
    /\ t.pc = "ask" /\ t.job \in {"retry", "execute"} => Debits(t.amount)
    /\ t.pc \in {"credit", "crediting"} => Paying(t.ref, t.amount)
    /\ t.pc = "crediting" => /\ t.snap.ledger \subseteq ledger
                             /\ t.snap.paid <= Credit(EachLink, t.snap.ledger)
                             /\ EqualDebits => Whole(t.snap.paid)

MoneyInv ==
  /\ \A n \in Attempts : debit[n].status # "absent" => debit[n].amount = FirstAmount
  /\ \A n \in Attempts : bank[n].state # "none" => bank[n].amount = FirstAmount
  /\ \A l \in Links : link[l].status # "absent" => "link" \in Jobs
  /\ \A r \in ledger : Paying(r.ref, r.amount)
  /\ paid <= Credit(EachLink, ledger)
  /\ EqualDebits => Whole(paid)
  /\ \A v \in Workers : MoneyFits(v)

LEMMA FirstAmountTyped == FirstAmount \in Nat \ {0} /\ FirstAmount <= Emi /\ FirstAmount <= MandateLimit
BY AmountsAssumption DEF FirstAmount, DebitAmount, Remaining

\* Of a number of whole debits, the next debit is a whole one.
LEMMA NextWhole ==
  ASSUME EqualDebits, NEW p \in Nat, Whole(p), DebitAmount(p) > 0
  PROVE  DebitAmount(p) = FirstAmount
<1> DEFINE a == FirstAmount
<1>1. a \in Nat \ {0} /\ a <= Emi /\ a <= MandateLimit
  BY FirstAmountTyped
<1>2. a = Emi \/ a = MandateLimit
  BY AmountsAssumption DEF FirstAmount, DebitAmount, Remaining
<1>3. PICK k \in Nat : Emi = k * a
  BY DEF EqualDebits
<1>4. PICK j \in Nat : p = j * a
  BY DEF Whole
<1>5. p < Emi
  BY AmountsAssumption DEF DebitAmount, Remaining
<1> HIDE DEF a
<1>6. j < k
  <2>1. ASSUME k <= j PROVE FALSE
    <3>1. PICK d \in Nat : j = k + d
      <4>1. j - k \in Nat /\ j = k + (j - k)
        BY <2>1
      <4>2. QED
        BY <4>1
    <3>2. j * a = k * a + d * a /\ d * a \in Nat /\ k * a \in Nat
      BY <1>1, <3>1
    <3>3. QED
      BY <1>3, <1>4, <1>5, <3>2
  <2>2. QED
    BY <2>1
<1>7. p + a <= Emi
  <2>1. PICK d \in Nat : k = j + 1 + d
    <3>1. k - j - 1 \in Nat /\ k = j + 1 + (k - j - 1)
      BY <1>6
    <3>2. QED
      BY <3>1
  <2>2. k * a = j * a + a + d * a /\ d * a \in Nat /\ j * a \in Nat
    BY <1>1, <2>1
  <2>3. QED
    BY <1>1, <1>3, <1>4, <2>2
<1>8. CASE a = MandateLimit
  BY <1>1, <1>5, <1>7, <1>8, AmountsAssumption DEF DebitAmount, Remaining, a
<1>9. CASE a = Emi
  BY <1>1, <1>5, <1>7, <1>9, AmountsAssumption DEF DebitAmount, Remaining, a
<1>10. QED
  BY <1>2, <1>8, <1>9

LEMMA WholeMore ==
  ASSUME NEW p \in Nat, Whole(p)
  PROVE  Whole(p + FirstAmount)
<1> DEFINE a == FirstAmount
<1>1. a \in Nat
  BY FirstAmountTyped
<1>2. PICK k \in Nat : p = k * a
  BY DEF Whole
<1> HIDE DEF a
<1>3. p + a = (k + 1) * a /\ k + 1 \in Nat
  BY <1>1, <1>2
<1>4. QED
  BY <1>3 DEF Whole, a

\* What is read from the schedule to be debited.
LEMMA OwedRead ==
  ASSUME EqualDebits \/ CronOnly, CollTyped, CronOnly => CronInv, MoneyInv, DebitAmount(paid) > 0
  PROVE  Debits(DebitAmount(paid))
<1>1. CASE EqualDebits
  <2>1. paid \in Nat /\ Whole(paid)
    BY <1>1 DEF CollTyped, MoneyInv
  <2>2. PICK p \in Nat : p = paid
    BY <2>1
  <2>3. DebitAmount(p) = FirstAmount
    BY <1>1, <2>1, <2>2, NextWhole
  <2>4. QED
    BY <2>2, <2>3 DEF Debits
<1>2. CASE CronOnly
  BY <1>2 DEF CronInv, CronWorld, Debits, FirstAmount
<1>3. QED
  BY <1>1, <1>2

LEMMA CreditedFinite ==
  ASSUME NEW entries
  PROVE  IsFiniteSet(CreditedDebits(entries)) /\ IsFiniteSet(CreditedLinks(entries))
<1>1. IsFiniteSet(Attempts)
  BY DebitsAssumption, FS_Interval DEF Attempts
<1>2. CreditedDebits(entries) \subseteq Attempts /\ CreditedLinks(entries) \subseteq Links
  BY DEF CreditedDebits, CreditedLinks
<1>3. QED
  BY <1>1, <1>2, FS_Subset, LinksAssumption

LEMMA CreditTyped ==
  ASSUME NEW each \in [Links -> Nat], NEW entries
  PROVE  /\ Total(EachDebit, CreditedDebits(entries)) \in Nat
         /\ Total(each, CreditedLinks(entries)) \in Nat
         /\ Credit(each, entries) \in Nat
<1>1. \A n \in CreditedDebits(entries) : EachDebit[n] \in Nat
  BY FirstAmountTyped DEF EachDebit, CreditedDebits
<1>2. \A l \in CreditedLinks(entries) : each[l] \in Nat
  BY DEF CreditedLinks
<1>3. /\ Total(EachDebit, CreditedDebits(entries)) \in Nat
      /\ Total(each, CreditedLinks(entries)) \in Nat
  BY <1>1, <1>2, CreditedFinite, TotalTyped
<1>4. QED
  BY <1>3 DEF Credit

\* More repayments, with the links of the former as they were.
LEMMA CreditGrows ==
  ASSUME NEW each \in [Links -> Nat], NEW later \in [Links -> Nat], NEW few, NEW many,
         few \subseteq many, \A l \in CreditedLinks(few) : each[l] = later[l]
  PROVE  Credit(each, few) <= Credit(later, many)
<1>1. /\ CreditedDebits(few) \subseteq CreditedDebits(many)
      /\ CreditedLinks(few) \subseteq CreditedLinks(many)
  BY DEF CreditedDebits, CreditedLinks
<1>2. \A n \in CreditedDebits(many) : EachDebit[n] \in Nat /\ EachDebit[n] <= EachDebit[n]
  BY FirstAmountTyped DEF EachDebit, CreditedDebits
<1>3. /\ \A l \in CreditedLinks(few) : each[l] \in Nat /\ each[l] <= later[l]
      /\ \A l \in CreditedLinks(many) : later[l] \in Nat
  BY DEF CreditedLinks
<1>4. Total(EachDebit, CreditedDebits(few)) <= Total(EachDebit, CreditedDebits(many))
  BY <1>1, <1>2, CreditedFinite, TotalGrows
<1>5. Total(each, CreditedLinks(few)) <= Total(later, CreditedLinks(many))
  BY <1>1, <1>3, CreditedFinite, TotalGrows
<1>6. QED
  BY <1>4, <1>5, CreditTyped DEF Credit

\* A repayment of a debit, or of a link, that none of the others is for.
LEMMA CreditOfDebit ==
  ASSUME NEW each \in [Links -> Nat], NEW entries, NEW r, NEW n \in Attempts, r.ref = Debit(n),
         \A e \in entries : e.ref # r.ref
  PROVE  Credit(each, entries \cup {r}) = Credit(each, entries) + FirstAmount
<1>1. n \notin CreditedDebits(entries)
  BY DEF CreditedDebits
<1>2. CreditedDebits(entries \cup {r}) = CreditedDebits(entries) \cup {n}
  BY DEF CreditedDebits, Debit
<1>3. CreditedLinks(entries \cup {r}) = CreditedLinks(entries)
  BY DEF CreditedLinks, Debit, Link
<1>4. \A m \in CreditedDebits(entries) \cup {n} : EachDebit[m] \in Nat
  BY FirstAmountTyped DEF EachDebit, CreditedDebits
<1>5. Total(EachDebit, CreditedDebits(entries) \cup {n})
        = Total(EachDebit, CreditedDebits(entries)) + EachDebit[n]
  BY <1>1, <1>4, CreditedFinite, TotalAdd
<1>6. EachDebit[n] = FirstAmount /\ FirstAmount \in Nat
  BY FirstAmountTyped DEF EachDebit
<1>7. Credit(each, entries \cup {r})
        = (Total(EachDebit, CreditedDebits(entries)) + FirstAmount) + Total(each, CreditedLinks(entries))
  BY <1>2, <1>3, <1>5, <1>6 DEF Credit
<1>8. Credit(each, entries) = Total(EachDebit, CreditedDebits(entries)) + Total(each, CreditedLinks(entries))
  BY DEF Credit
<1>9. Total(EachDebit, CreditedDebits(entries)) \in Nat /\ Total(each, CreditedLinks(entries)) \in Nat
  BY CreditTyped
<1>10. QED
  BY <1>6, <1>7, <1>8, <1>9

LEMMA CreditOfLink ==
  ASSUME NEW each \in [Links -> Nat], NEW entries, NEW r, NEW l \in Links, r.ref = Link(l),
         \A e \in entries : e.ref # r.ref
  PROVE  Credit(each, entries \cup {r}) = Credit(each, entries) + each[l]
<1>1. l \notin CreditedLinks(entries)
  BY DEF CreditedLinks
<1>2. CreditedLinks(entries \cup {r}) = CreditedLinks(entries) \cup {l}
  BY DEF CreditedLinks, Link
<1>3. CreditedDebits(entries \cup {r}) = CreditedDebits(entries)
  BY DEF CreditedDebits, Debit, Link
<1>4. \A k \in CreditedLinks(entries) \cup {l} : each[k] \in Nat
  BY DEF CreditedLinks
<1>5. Total(each, CreditedLinks(entries) \cup {l}) = Total(each, CreditedLinks(entries)) + each[l]
  BY <1>1, <1>4, CreditedFinite, TotalAdd
<1>6. Credit(each, entries \cup {r})
        = Total(EachDebit, CreditedDebits(entries)) + (Total(each, CreditedLinks(entries)) + each[l])
  BY <1>2, <1>3, <1>5 DEF Credit
<1>7. Credit(each, entries) = Total(EachDebit, CreditedDebits(entries)) + Total(each, CreditedLinks(entries))
  BY DEF Credit
<1>8. Total(EachDebit, CreditedDebits(entries)) \in Nat /\ Total(each, CreditedLinks(entries)) \in Nat
  BY CreditTyped
<1>9. QED
  BY <1>6, <1>7, <1>8

\* The world moves on: amounts stay, what was collected or paid stays so.
MovesOn ==
  /\ \A n \in Attempts : bank[n].state = "collected" => bank'[n].state = "collected"
  /\ \A l \in Links : link[l].status # "absent" => link'[l].amount = link[l].amount
  /\ gateway \subseteq gateway'

LEMMA PayingStays ==
  ASSUME CollTyped, MovesOn, NEW ref, NEW amount, Paying(ref, amount)
  PROVE  Paying(ref, amount)'
<1>1. ASSUME NEW n \in Attempts, ref = Debit(n), bank[n].state = "collected", amount = FirstAmount
      PROVE  Paying(ref, amount)'
  BY <1>1 DEF MovesOn, Paying
<1>2. ASSUME NEW l \in gateway, ref = Link(l), amount = link[l].amount
      PROVE  Paying(ref, amount)'
  <2>1. l \in Links /\ l \in gateway' /\ link'[l].amount = link[l].amount
    BY <1>2 DEF MovesOn, CollTyped
  <2>2. QED
    BY <1>2, <2>1 DEF Paying
<1>3. QED
  BY <1>1, <1>2 DEF Paying

\* What was credited stays credited.
LEMMA CreditStays ==
  ASSUME CollTyped, CollTyped', MovesOn, NEW few, few \subseteq ledger,
         \A r \in ledger : Paying(r.ref, r.amount)
  PROVE  Credit(EachLink, few) <= Credit(EachLink', few)
<1>1. PICK each : each = EachLink
  OBVIOUS
<1>2. PICK later : later = EachLink'
  OBVIOUS
<1>3. each \in [Links -> Nat] /\ later \in [Links -> Nat]
  BY <1>1, <1>2 DEF EachLink, CollTyped
<1>4. ASSUME NEW l \in CreditedLinks(few) PROVE each[l] = later[l]
  <2>1. l \in Links /\ \E r \in ledger : r.ref = Link(l)
    BY DEF CreditedLinks
  <2>2. l \in gateway
    BY <2>1 DEF Paying, Debit, Link
  <2>3. link[l].amount = link'[l].amount
    BY <2>1, <2>2 DEF MovesOn, CollTyped
  <2>4. QED
    BY <1>1, <1>2, <2>1, <2>3 DEF EachLink
<1>5. Credit(each, few) <= Credit(later, few)
  BY <1>3, <1>4, CreditGrows
<1>6. QED
  BY <1>1, <1>2, <1>5

LEMMA MoneyFrame ==
  ASSUME CollTyped, CollTyped', MoneyInv, MovesOn,
         \A v \in Workers : worker'[v] = worker[v] \/ MoneyFits(v)',
         \A n \in Attempts : debit'[n].status # "absent" => debit'[n].amount = FirstAmount,
         \A n \in Attempts : bank'[n].state # "none" => bank'[n].amount = FirstAmount,
         \A l \in Links : link'[l].status # "absent" => "link" \in Jobs,
         ledger \subseteq ledger', \A r \in ledger' : r \in ledger \/ Paying(r.ref, r.amount)',
         paid' <= Credit(EachLink', ledger'), EqualDebits => Whole(paid')
  PROVE  MoneyInv'
<1>1. ASSUME NEW r \in ledger' PROVE Paying(r.ref, r.amount)'
  <2>1. CASE r \in ledger
    BY <2>1, PayingStays DEF MoneyInv
  <2>2. QED
    BY <2>1
<1>2. SomeCollected => SomeCollected'
  BY DEF SomeCollected, MovesOn
<1>3. ASSUME NEW v \in Workers, worker'[v] = worker[v] PROVE MoneyFits(v)'
  <2>1. PICK t : t = worker[v]
    OBVIOUS
  <2>2. worker'[v] = t /\ MoneyFits(v) /\ t \in WorkerState
    BY <1>3, <2>1 DEF MoneyInv, CollTyped
  <2>3. /\ t.pc = "submit" => t.amount = FirstAmount
        /\ t.pc \in {"due", "tell", "found", "rows", "decide", "create"} => Debits(t.amount)
        /\ t.pc = "ask" /\ t.job \in {"retry", "execute"} => Debits(t.amount)
        /\ t.pc \in {"credit", "crediting"} => Paying(t.ref, t.amount)
        /\ t.pc = "crediting" => /\ t.snap.ledger \subseteq ledger
                                 /\ t.snap.paid <= Credit(EachLink, t.snap.ledger)
                                 /\ EqualDebits => Whole(t.snap.paid)
    BY <2>1, <2>2 DEF MoneyFits
  <2>4. Debits(t.amount) => Debits(t.amount)'
    BY <1>2 DEF Debits
  <2>5. t.pc \in {"credit", "crediting"} => Paying(t.ref, t.amount)'
    BY <2>3, PayingStays
  <2>6. ASSUME t.pc = "crediting" PROVE t.snap.ledger \subseteq ledger' /\ t.snap.paid <= Credit(EachLink', t.snap.ledger)
    <3>1. PICK few : few = t.snap.ledger
      OBVIOUS
    <3>2. few \subseteq ledger /\ \A r \in ledger : Paying(r.ref, r.amount)
      BY <2>3, <2>6, <3>1 DEF MoneyInv
    <3>3. Credit(EachLink, few) <= Credit(EachLink', few)
      BY <3>2, CreditStays
    <3>4. PICK each : each = EachLink
      OBVIOUS
    <3>5. PICK later : later = EachLink'
      OBVIOUS
    <3>6. each \in [Links -> Nat] /\ later \in [Links -> Nat]
      BY <3>4, <3>5 DEF EachLink, CollTyped
    <3>7. Credit(each, few) \in Nat /\ Credit(later, few) \in Nat
      BY <3>6, CreditTyped
    <3>8. t.snap.paid \in Nat
      BY <2>2 DEF WorkerState, Snapshot
    <3>9. t.snap.paid <= Credit(each, few) /\ Credit(each, few) <= Credit(later, few)
      BY <2>3, <2>6, <3>1, <3>3, <3>4, <3>5
    <3>10. t.snap.paid <= Credit(later, few)
      BY <3>7, <3>8, <3>9
    <3>11. QED
      BY <3>1, <3>2, <3>5, <3>10
  <2>7. QED
    BY <2>2, <2>3, <2>4, <2>5, <2>6 DEF MoneyFits
<1>4. QED
  BY <1>1, <1>3 DEF MoneyInv

\* No repayment is recorded.
LEMMA MoneyKept ==
  ASSUME CollTyped, CollTyped', MoneyInv, MovesOn,
         \A v \in Workers : worker'[v] = worker[v] \/ MoneyFits(v)',
         \A n \in Attempts : debit'[n].status # "absent" => debit'[n].amount = FirstAmount,
         \A n \in Attempts : bank'[n].state # "none" => bank'[n].amount = FirstAmount,
         \A l \in Links : link'[l].status # "absent" => "link" \in Jobs,
         UNCHANGED <<paid, ledger>>
  PROVE  MoneyInv'
<1>1. PICK few : few = ledger
  OBVIOUS
<1>2. few \subseteq ledger /\ \A r \in ledger : Paying(r.ref, r.amount)
  BY <1>1 DEF MoneyInv
<1>3. Credit(EachLink, few) <= Credit(EachLink', few)
  BY <1>2, CreditStays
<1>4. PICK each : each = EachLink
  OBVIOUS
<1>5. PICK later : later = EachLink'
  OBVIOUS
<1>6. each \in [Links -> Nat] /\ later \in [Links -> Nat]
  BY <1>4, <1>5 DEF EachLink, CollTyped
<1>7. Credit(each, few) \in Nat /\ Credit(later, few) \in Nat /\ paid \in Nat
  BY <1>6, CreditTyped DEF CollTyped
<1>8. paid <= Credit(each, few) /\ Credit(each, few) <= Credit(later, few)
  BY <1>1, <1>3, <1>4, <1>5 DEF MoneyInv
<1>9. paid <= Credit(later, few)
  BY <1>7, <1>8
<1>10. paid' <= Credit(EachLink', ledger')
  BY <1>1, <1>5, <1>9
<1>11. ledger \subseteq ledger' /\ \A r \in ledger' : r \in ledger
  OBVIOUS
<1>12. EqualDebits => Whole(paid')
  BY DEF MoneyInv
<1>13. QED
  BY <1>10, <1>11, <1>12, MoneyFrame

\* A worker goes on, rows keep their amounts, bank and links are as they were.
LEMMA MoneyMoves ==
  ASSUME CollTyped, CollTyped', MoneyInv, NEW w \in Workers,
         \A v \in Workers : v # w => worker'[v] = worker[v], MoneyFits(w)',
         \A n \in Attempts : debit'[n].status # "absent" => debit'[n].amount = FirstAmount,
         UNCHANGED <<bank, link, gateway, paid, ledger>>
  PROVE  MoneyInv'
<1>1. MovesOn
  BY DEF MovesOn
<1>2. /\ \A n \in Attempts : bank'[n].state # "none" => bank'[n].amount = FirstAmount
      /\ \A l \in Links : link'[l].status # "absent" => "link" \in Jobs
  BY DEF MoneyInv
<1>3. QED
  BY <1>1, <1>2, MoneyKept

LEMMA RestFits ==
  ASSUME NEW w \in Workers,
         \/ worker'[w].pc \in {"idle", "notify", "answered", "closing"}
         \/ worker'[w].pc = "ask" /\ worker'[w].job \in {"single", "reconcile"}
  PROVE  MoneyFits(w)'
BY DEF MoneyFits

LEMMA DebitFits ==
  ASSUME NEW w \in Workers, NEW a, Debits(a), UNCHANGED bank, worker'[w].amount = a,
         worker'[w].pc \in {"due", "tell", "found", "rows", "decide", "create", "ask"}
  PROVE  MoneyFits(w)'
<1>1. Debits(a)'
  BY DEF Debits, SomeCollected
<1>2. QED
  BY <1>1 DEF MoneyFits

LEMMA PayFits ==
  ASSUME NEW w \in Workers, NEW ref, NEW amount, Paying(ref, amount)',
         worker'[w].pc = "credit", worker'[w].ref = ref, worker'[w].amount = amount
  PROVE  MoneyFits(w)'
BY DEF MoneyFits

LEMMA IdleFits ==
  ASSUME CollTyped, NEW w \in Workers, Finish(w)
  PROVE  MoneyFits(w)' /\ \A v \in Workers : v # w => worker'[v] = worker[v]
<1>1. worker'[w].pc = "idle" /\ \A v \in Workers : v # w => worker'[v] = worker[v]
  BY DEF Finish, Idle, CollTyped
<1>2. QED
  BY <1>1, RestFits

LEMMA MoneyStarts ==
  ASSUME EqualDebits \/ CronOnly, CollTyped, CollTyped', CronOnly => CronInv, MoneyInv,
         NEW w \in Workers, StartStep(w)
  PROVE  MoneyInv'
<1>1. /\ worker \in [Workers -> WorkerState]
      /\ \A n \in Attempts : debit[n].status # "absent" => debit[n].amount = FirstAmount
  BY DEF CollTyped, MoneyInv
<1>2. ASSUME DebitAmount(paid) > 0, NEW s, NEW job,
             worker' = [worker EXCEPT ![w] = [s EXCEPT !.job = job]], s \in WorkerState,
             s.pc \in {"due", "tell", "rows"}, s.amount = DebitAmount(paid),
             UNCHANGED <<debit, bank, link, gateway, paid, ledger>>
      PROVE  MoneyInv'
  <2>1. PICK a : a = DebitAmount(paid)
    OBVIOUS
  <2>2. Debits(a)
    BY <1>2, <2>1, OwedRead
  <2>3. /\ worker'[w].pc \in {"due", "tell", "rows"} /\ worker'[w].amount = a
        /\ \A v \in Workers : v # w => worker'[v] = worker[v]
    BY <1>1, <1>2, <2>1 DEF WorkerState
  <2>4. MoneyFits(w)'
    BY <1>2, <2>2, <2>3, DebitFits
  <2>5. QED
    BY <1>1, <1>2, <2>3, <2>4, MoneyMoves
<1>3. CASE readDue(w)
  <2>1. PICK s : s = [Idle EXCEPT !.pc = "due", !.amount = DebitAmount(paid)]
    OBVIOUS
  <2>2. s \in WorkerState /\ s.pc = "due" /\ s.amount = DebitAmount(paid)
    <3>1. DebitAmount(paid) \in Nat
      BY DebitAmountTyped DEF CollTyped
    <3>2. QED
      BY <2>1, <3>1, IdleTyped DEF WorkerState, Places
  <2>3. /\ worker' = [worker EXCEPT ![w] = [s EXCEPT !.job = "enach"]] /\ DebitAmount(paid) > 0
        /\ UNCHANGED <<debit, bank, link, gateway, paid, ledger>>
    BY <1>3, <2>1 DEF readDue, Start
  <2>4. QED
    BY <1>2, <2>2, <2>3
<1>4. ASSUME NEW job \in {"retry", "execute"}, readInstallment(w, job) PROVE MoneyInv'
  <2>1. PICK s : s = [Idle EXCEPT !.pc = "rows", !.amount = DebitAmount(paid)]
    OBVIOUS
  <2>2. s \in WorkerState /\ s.pc = "rows" /\ s.amount = DebitAmount(paid)
    <3>1. DebitAmount(paid) \in Nat
      BY DebitAmountTyped DEF CollTyped
    <3>2. QED
      BY <2>1, <3>1, IdleTyped DEF WorkerState, Places
  <2>3. /\ worker' = [worker EXCEPT ![w] = [s EXCEPT !.job = job]] /\ DebitAmount(paid) > 0
        /\ UNCHANGED <<debit, bank, link, gateway, paid, ledger>>
    BY <1>4, <2>1 DEF readInstallment, Start
  <2>4. QED
    BY <1>2, <2>2, <2>3
<1>5. ASSUME NEW job \in {"prepare", "notify"}, readForNotification(w, job) PROVE MoneyInv'
  <2>1. /\ DebitAmount(paid) > 0 /\ UNCHANGED <<debit, bank, link, gateway, paid, ledger>>
        /\ \E n \in Attempts, answer \in {"update", "create"} :
             worker' = [worker EXCEPT ![w] =
                          [[Idle EXCEPT !.pc = "tell", !.n = n, !.amount = DebitAmount(paid),
                                        !.answer = answer] EXCEPT !.job = job]]
    <3>1. PICK n : n = IF job = "notify" /\ ActiveRows # {} THEN Max(ActiveRows)
                       ELSE IF job = "notify" THEN NextAttempt ELSE 1
      OBVIOUS
    <3>2. PICK answer : answer = IF n \in Rows /\ job = "notify" THEN "update" ELSE "create"
      OBVIOUS
    <3>3. /\ DebitAmount(paid) > 0 /\ n \in Attempts
          /\ worker' = [worker EXCEPT ![w] =
                          [[Idle EXCEPT !.pc = "tell", !.n = n, !.amount = DebitAmount(paid),
                                        !.answer = answer] EXCEPT !.job = job]]
          /\ UNCHANGED <<debit, bank, link, gateway, paid, ledger>>
      BY <1>5, <3>1, <3>2 DEF readForNotification, Start
    <3>4. QED
      BY <3>2, <3>3
  <2>2. PICK n \in Attempts, answer \in {"update", "create"} :
          worker' = [worker EXCEPT ![w] =
                       [[Idle EXCEPT !.pc = "tell", !.n = n, !.amount = DebitAmount(paid),
                                     !.answer = answer] EXCEPT !.job = job]]
    BY <2>1
  <2>3. PICK s : s = [Idle EXCEPT !.pc = "tell", !.n = n, !.amount = DebitAmount(paid),
                                  !.answer = answer]
    OBVIOUS
  <2>4. s \in WorkerState /\ s.pc = "tell" /\ s.amount = DebitAmount(paid)
    <3>1. DebitAmount(paid) \in Nat
      BY DebitAmountTyped DEF CollTyped
    <3>2. QED
      BY <2>3, <3>1, IdleTyped DEF WorkerState, Places, Answers
  <2>5. QED
    BY <1>2, <2>1, <2>2, <2>3, <2>4
<1>6. ASSUME NEW n \in Attempts, findNotified(w, n) PROVE MoneyInv'
  <2>1. /\ worker'[w].pc = "found" /\ worker'[w].amount = debit[n].amount
        /\ \A v \in Workers : v # w => worker'[v] = worker[v]
        /\ debit[n].status # "absent" /\ UNCHANGED <<debit, bank, link, gateway, paid, ledger>>
    BY <1>1, <1>6 DEF findNotified, Start, Idle
  <2>2. worker'[w].amount = FirstAmount /\ Debits(FirstAmount)
    BY <1>1, <2>1 DEF Debits
  <2>3. MoneyFits(w)'
    BY <2>1, <2>2, DebitFits
  <2>4. QED
    BY <1>1, <2>1, <2>3, MoneyMoves
<1>7. ASSUME NEW n \in Attempts, readPending(w, n) \/ readLatest(w) PROVE MoneyInv'
  <2>1. /\ worker'[w].pc = "ask" /\ worker'[w].job \in {"single", "reconcile"}
        /\ \A v \in Workers : v # w => worker'[v] = worker[v]
        /\ UNCHANGED <<debit, bank, link, gateway, paid, ledger>>
    BY <1>1, <1>7 DEF readPending, readLatest, Start, Idle
  <2>2. MoneyFits(w)'
    BY <2>1, RestFits
  <2>3. QED
    BY <1>1, <2>1, <2>2, MoneyMoves
<1>8. ASSUME NEW n \in Attempts, readReport(w, n) PROVE MoneyInv'
  <2>1. PICK r \in ReportedRows(n) :
          /\ worker'[w].pc = "credit" /\ worker'[w].ref = Debit(n)
          /\ worker'[w].amount = debit[r].amount
    BY <1>1, <1>8 DEF readReport, Start, Idle
  <2>2. /\ \A v \in Workers : v # w => worker'[v] = worker[v]
        /\ bank[n].state = "collected" /\ UNCHANGED <<debit, bank, link, gateway, paid, ledger>>
    BY <1>1, <1>8 DEF readReport, Start
  <2>3. r \in Attempts /\ debit[r].status # "absent"
    BY <2>2 DEF ReportedRows, Rows, CollTyped
  <2>4. worker'[w].amount = FirstAmount
    BY <1>1, <2>1, <2>3
  <2>5. Paying(Debit(n), FirstAmount)'
    BY <2>2 DEF Paying
  <2>6. MoneyFits(w)'
    BY <2>1, <2>4, <2>5, PayFits
  <2>7. QED
    BY <1>1, <2>2, <2>6, MoneyMoves
<1>9. ASSUME NEW l \in Links, linkSuccess(w, l) PROVE MoneyInv'
  <2>1. /\ l \in gateway /\ UNCHANGED <<paid, ledger, debit, bank, gateway>>
        /\ link' = [link EXCEPT ![l].status = "SUCCESS"]
        /\ worker'[w].pc = "credit" /\ worker'[w].ref = Link(l)
        /\ worker'[w].amount = link[l].amount
        /\ \A v \in Workers : v # w => worker'[v] = worker[v]
    BY <1>1, <1>9 DEF linkSuccess, Start, Idle
  <2>2. /\ \A k \in Links : link'[k].amount = link[k].amount
        /\ \A k \in Links : link'[k].status # "absent" => link[k].status # "absent"
    BY <2>1 DEF CollTyped
  <2>3. PICK a : a = link[l].amount
    OBVIOUS
  <2>4. Paying(Link(l), a)'
    BY <2>1, <2>2, <2>3 DEF Paying
  <2>5. MoneyFits(w)'
    BY <2>1, <2>3, <2>4, PayFits
  <2>6. MovesOn
    BY <2>1, <2>2 DEF MovesOn
  <2>7. QED
    BY <1>1, <2>1, <2>2, <2>5, <2>6, MoneyKept DEF MoneyInv
<1>10. QED
  BY <1>3, <1>4, <1>5, <1>6, <1>7, <1>8, <1>9, OneIsAttempt DEF StartStep

\* A repayment is recorded: of a payment that the snapshot does not have.
LEMMA MoneyCommits ==
  ASSUME EqualDebits \/ CronOnly, CollTyped, CollTyped', MoneyInv,
         NEW w \in Workers, commitRepayment(w)
  PROVE  MoneyInv'
<1>1. PICK t : t = worker[w]
  OBVIOUS
<1>2. /\ t.pc = "crediting" /\ t \in WorkerState /\ Paying(t.ref, t.amount)
      /\ t.snap.ledger \subseteq ledger
      /\ t.snap.paid <= Credit(EachLink, t.snap.ledger)
      /\ EqualDebits => Whole(t.snap.paid)
      /\ UNCHANGED <<debit, bank, link, gateway>>
  BY <1>1 DEF commitRepayment, MoneyInv, MoneyFits, CollTyped
<1>3. MoneyFits(w)' /\ \A v \in Workers : v # w => worker'[v] = worker[v]
  <2>1. CASE Finish(w)
    BY <2>1, IdleFits
  <2>2. CASE Goto(w, "closing")
    <3>1. worker'[w].pc = "closing" /\ \A v \in Workers : v # w => worker'[v] = worker[v]
      BY <2>2 DEF Goto, CollTyped, WorkerState
    <3>2. QED
      BY <3>1, RestFits
  <2>3. QED
    BY <2>1, <2>2 DEF commitRepayment
<1>4. MovesOn
  BY <1>2 DEF MovesOn
<1>5. CASE UNCHANGED <<paid, ledger>>
  BY <1>2, <1>3, <1>5, MoneyMoves DEF MoneyInv
<1>6. ASSUME ~ UNCHANGED <<paid, ledger>> PROVE MoneyInv'
  <2>1. PICK r : r = [id |-> t.id, ref |-> t.ref, amount |-> t.amount]
    OBVIOUS
  <2>2. /\ ledger' = ledger \cup {r} /\ paid' = t.snap.paid + t.amount
        /\ ~Duplicate(t.snap, t.id, t.ref)
    BY <1>1, <1>6, <2>1 DEF commitRepayment
  <2>3. r.ref = t.ref /\ r.amount = t.amount
    BY <2>1
  <2>4. PICK few : few = t.snap.ledger
    OBVIOUS
  <2>5. /\ few \subseteq ledger /\ few \cup {r} \subseteq ledger'
        /\ \A e \in few : e.ref # r.ref
    BY <1>2, <2>2, <2>3, <2>4 DEF Duplicate
  <2>6. PICK each : each = EachLink
    OBVIOUS
  <2>7. each \in [Links -> Nat] /\ each = EachLink' /\ \A l \in Links : each[l] = link[l].amount
    BY <1>2, <2>6 DEF EachLink, CollTyped
  <2>8. Credit(each, few \cup {r}) = Credit(each, few) + t.amount
    <3>1. ASSUME NEW n \in Attempts, t.ref = Debit(n), t.amount = FirstAmount
          PROVE  Credit(each, few \cup {r}) = Credit(each, few) + t.amount
      BY <2>3, <2>5, <2>7, <3>1, CreditOfDebit
    <3>2. ASSUME NEW l \in gateway, t.ref = Link(l), t.amount = link[l].amount
          PROVE  Credit(each, few \cup {r}) = Credit(each, few) + t.amount
      <4>1. l \in Links /\ each[l] = t.amount
        BY <2>7, <3>2 DEF CollTyped
      <4>2. Credit(each, few \cup {r}) = Credit(each, few) + each[l]
        BY <2>3, <2>5, <2>7, <3>2, <4>1, CreditOfLink
      <4>3. QED
        BY <4>1, <4>2
    <3>3. QED
      BY <1>2, <3>1, <3>2 DEF Paying
  <2>9. Credit(each, few \cup {r}) <= Credit(each, ledger')
    <3>1. PICK many : many = ledger'
      OBVIOUS
    <3>2. few \cup {r} \subseteq many
      BY <2>5, <3>1
    <3>3. PICK some : some = few \cup {r}
      OBVIOUS
    <3>4. Credit(each, some) <= Credit(each, many)
      BY <2>7, <3>2, <3>3, CreditGrows
    <3>5. QED
      BY <3>1, <3>3, <3>4
  <2>10. paid' <= Credit(EachLink', ledger')
    <3>1. Credit(each, few) \in Nat /\ Credit(each, few \cup {r}) \in Nat
      BY <2>7, CreditTyped
    <3>2. Credit(each, ledger') \in Nat
      BY <2>7, CreditTyped
    <3>3. t.snap.paid \in Nat /\ t.amount \in Nat
      BY <1>2 DEF WorkerState, Snapshot
    <3>4. t.snap.paid <= Credit(each, few)
      BY <1>2, <2>4, <2>6
    <3>5. t.snap.paid + t.amount <= Credit(each, ledger')
      BY <2>8, <2>9, <3>1, <3>2, <3>3, <3>4
    <3>6. QED
      BY <2>2, <2>7, <3>5
  <2>11. ASSUME EqualDebits PROVE Whole(paid')
    <3>1. t.snap.paid \in Nat /\ t.amount \in Nat
      BY <1>2 DEF WorkerState, Snapshot
    <3>2. CASE t.amount = FirstAmount
      <4>1. PICK p : p = t.snap.paid
        OBVIOUS
      <4>2. Whole(p + FirstAmount)
        BY <1>2, <2>11, <3>1, <4>1, WholeMore
      <4>3. QED
        BY <2>2, <3>2, <4>1, <4>2
    <3>3. CASE FirstAmount = 1
      <4>1. paid' \in Nat
        BY DEF CollTyped
      <4>2. PICK p \in Nat : p = paid'
        BY <4>1
      <4>3. p = p * FirstAmount
        BY <3>3
      <4>4. QED
        BY <4>2, <4>3 DEF Whole
    <3>4. t.amount = FirstAmount \/ FirstAmount = 1
      <4>1. ASSUME NEW l \in gateway PROVE FirstAmount = 1
        <5>1. l \in Links /\ link[l].status # "absent"
          BY DEF CollTyped
        <5>2. QED
          BY <2>11, <5>1 DEF MoneyInv, EqualDebits
      <4>2. QED
        BY <1>2, <4>1 DEF Paying
    <3>5. QED
      BY <3>2, <3>3, <3>4
  <2>12. ASSUME NEW e \in ledger' PROVE e \in ledger \/ Paying(e.ref, e.amount)'
    <3>1. Paying(t.ref, t.amount)'
      BY <1>2, <1>4, PayingStays
    <3>2. QED
      BY <2>2, <2>3, <3>1
  <2>13. /\ \A n \in Attempts : debit'[n].status # "absent" => debit'[n].amount = FirstAmount
         /\ \A n \in Attempts : bank'[n].state # "none" => bank'[n].amount = FirstAmount
         /\ \A l \in Links : link'[l].status # "absent" => "link" \in Jobs
         /\ ledger \subseteq ledger'
    BY <1>2, <2>2 DEF MoneyInv
  <2>14. QED
    BY <1>3, <1>4, <2>10, <2>11, <2>12, <2>13, MoneyFrame
<1>7. QED
  BY <1>5, <1>6

\* What a worker that is about to debit debits.
LEMMA DebitsFirst ==
  ASSUME CollTyped, CronOnly => CronInv, MoneyInv, NEW w \in Workers,
         \/ worker[w].pc \in {"tell", "found", "rows", "decide"}
         \/ worker[w].pc = "ask" /\ worker[w].job \in {"retry", "execute"}
         \/ worker[w].pc = "create" /\ debit[worker[w].n].status = "absent"
  PROVE  worker[w].amount = FirstAmount
<1>1. Debits(worker[w].amount)
  BY DEF MoneyInv, MoneyFits
<1>2. ASSUME CronOnly, SomeCollected PROVE FALSE
  <2>1. worker[w].job \in {"none", "enach", "single", "reconcile", "webhook"}
    BY <1>2 DEF CronInv, CronFits
  <2>2. ~ (worker[w].pc \in {"tell", "found", "rows", "decide"})
    BY <2>1 DEF CollTyped, Fits
  <2>3. worker[w].pc = "create" /\ debit[worker[w].n].status = "absent"
    BY <2>1, <2>2
  <2>4. worker[w].n \notin Rows
    BY <2>3 DEF Rows
  <2>5. \A m \in Rows : Dead(m)
    BY <1>2, <2>3, <2>4 DEF CronInv, CronFits
  <2>6. PICK n \in Attempts : bank[n].state = "collected"
    BY <1>2 DEF SomeCollected
  <2>7. n \in Rows /\ ~Dead(n)
    BY <2>6 DEF CollTyped, Rows, Dead
  <2>8. QED
    BY <2>5, <2>7
<1>3. QED
  BY <1>1, <1>2 DEF Debits

LEMMA MoneyGoesOn ==
  ASSUME EqualDebits \/ CronOnly, CollTyped, CollTyped', CronOnly => CronInv, MoneyInv,
         NEW w \in Workers, GoOn(w)
  PROVE  MoneyInv'
<1> DEFINE s == worker[w]
<1>1. /\ worker \in [Workers -> WorkerState] /\ s \in WorkerState /\ s.n \in Attempts
      /\ Fits(s, debit) /\ MoneyFits(w)
      /\ debit \in [Attempts -> [status : RowStatus, amount : Nat, notif : Nat]]
      /\ \A n \in Attempts : debit[n].status # "absent" => debit[n].amount = FirstAmount
  BY DEF CollTyped, WorkerState, MoneyInv
<1>2. PICK n \in Attempts : n = s.n
  BY <1>1
<1>3. PICK a : a = s.amount
  OBVIOUS
<1> HIDE DEF s
<1>4. ASSUME Finish(w), UNCHANGED <<debit, bank, link, gateway, paid, ledger>> PROVE MoneyInv'
  BY <1>1, <1>4, IdleFits, MoneyMoves
\* The amounts of rows do not change.
<1>5. ASSUME NEW x, debit' = [debit EXCEPT ![n].status = x], debit[n].status # "absent"
      PROVE  \A m \in Attempts : debit'[m].status # "absent" => debit'[m].amount = FirstAmount
  BY <1>1, <1>5
<1>6. ASSUME NEW x, debit' = [debit EXCEPT ![n].status = x], debit[n].status # "absent",
             Finish(w) \/ Goto(w, "decide"), worker'[w].pc # "idle" => Debits(a),
             UNCHANGED <<bank, link, gateway, paid, ledger>>
      PROVE  MoneyInv'
  <2>1. \A m \in Attempts : debit'[m].status # "absent" => debit'[m].amount = FirstAmount
    BY <1>5, <1>6
  <2>2. CASE Finish(w)
    BY <1>6, <2>1, <2>2, IdleFits, MoneyMoves
  <2>3. CASE Goto(w, "decide")
    <3>1. /\ worker'[w].pc = "decide" /\ worker'[w].amount = a
          /\ \A v \in Workers : v # w => worker'[v] = worker[v]
      BY <1>1, <1>3, <2>3 DEF Goto, WorkerState, s
    <3>2. MoneyFits(w)'
      BY <1>6, <3>1, DebitFits
    <3>3. QED
      BY <1>6, <2>1, <3>1, <3>2, MoneyMoves
  <2>4. QED
    BY <1>6, <2>2, <2>3
<1>7. ASSUME NEW pc \in {"decide", "create", "ask"}, worker'[w].pc = pc, worker'[w].amount = a, Debits(a),
             \A v \in Workers : v # w => worker'[v] = worker[v],
             UNCHANGED <<debit, bank, link, gateway, paid, ledger>>
      PROVE  MoneyInv'
  <2>1. MoneyFits(w)'
    BY <1>7, DebitFits
  <2>2. QED
    BY <1>1, <1>7, <2>1, MoneyMoves
<1>8. CASE chooseAttempt(w)
  <2>1. /\ s.pc = "due" /\ UNCHANGED <<debit, bank, link, gateway, paid, ledger>>
        /\ Finish(w) \/ worker' = [worker EXCEPT ![w].pc = "create", ![w].n = NextAttempt]
    BY <1>8 DEF chooseAttempt, s
  <2>2. CASE worker' = [worker EXCEPT ![w].pc = "create", ![w].n = NextAttempt]
    <3>1. /\ worker'[w].pc = "create" /\ worker'[w].amount = a
          /\ \A v \in Workers : v # w => worker'[v] = worker[v]
      BY <1>1, <1>3, <2>2 DEF WorkerState, s
    <3>2. Debits(a)
      BY <1>1, <1>3, <2>1 DEF MoneyFits, s
    <3>3. QED
      BY <1>7, <2>1, <3>1, <3>2
  <2>3. QED
    BY <1>4, <2>1, <2>2
<1>9. CASE createDebit(w)
  <2>1. s.pc = "create" /\ UNCHANGED <<bank, link, gateway, paid, ledger>>
    BY <1>9 DEF createDebit, s
  <2>2. CASE debit[n].status # "absent"
    BY <1>2, <1>4, <1>9, <2>1, <2>2 DEF createDebit, s
  <2>3. CASE debit[n].status = "absent"
    <3>1. a = FirstAmount
      BY <1>2, <1>3, <2>1, <2>3, DebitsFirst DEF s
    <3>2. /\ debit' = [debit EXCEPT ![n] = [status |-> "SUBMITTING", amount |-> a, notif |-> s.notif]]
          /\ Goto(w, "notify") \/ Goto(w, "submit")
      BY <1>2, <1>3, <1>9, <2>3 DEF createDebit, s
    <3>3. \A m \in Attempts : debit'[m].status # "absent" => debit'[m].amount = FirstAmount
      BY <1>1, <3>1, <3>2
    <3>4. /\ worker'[w].pc \in {"notify", "submit"} /\ worker'[w].amount = a
          /\ \A v \in Workers : v # w => worker'[v] = worker[v]
      BY <1>1, <1>3, <3>2 DEF Goto, WorkerState, s
    <3>5. MoneyFits(w)'
      BY <3>1, <3>4 DEF MoneyFits
    <3>6. QED
      BY <2>1, <3>3, <3>4, <3>5, MoneyMoves
  <2>4. QED
    BY <2>2, <2>3
<1>10. ASSUME NEW post \in [arrived : BOOLEAN, http : {"accepted", "refused", "4xx", "unclear"}],
              present(w, post)
       PROVE  MoneyInv'
  <2>1. /\ s.pc = "submit" /\ UNCHANGED <<debit, link, gateway, paid, ledger>>
        /\ worker'[w].pc = "answered" /\ \A v \in Workers : v # w => worker'[v] = worker[v]
    BY <1>1, <1>10 DEF present, WorkerState, s
  <2>2. a = FirstAmount
    BY <1>1, <1>3, <2>1 DEF MoneyFits, s
  <2>3. /\ \A m \in Attempts : bank'[m].state # "none" => bank'[m].amount = FirstAmount
        /\ \A m \in Attempts : bank[m].state = "collected" => bank'[m].state = "collected"
    <3>1. \A m \in Attempts : bank[m].state # "none" => bank[m].amount = FirstAmount
      BY DEF MoneyInv
    <3>2. CASE bank' = bank
      BY <3>1, <3>2
    <3>3. CASE \E x : bank[n].state = "none"
                        /\ bank' = [bank EXCEPT ![n] = [state |-> "pending", amount |-> a, notif |-> x]]
      <4>1. PICK x : /\ bank[n].state = "none"
                     /\ bank' = [bank EXCEPT ![n] = [state |-> "pending", amount |-> a, notif |-> x]]
        BY <3>3
      <4>2. QED
        BY <2>2, <3>1, <4>1 DEF CollTyped
    <3>4. bank' = bank \/ \E x : bank[n].state = "none"
                        /\ bank' = [bank EXCEPT ![n] = [state |-> "pending", amount |-> a, notif |-> x]]
      BY <1>2, <1>3, <1>10 DEF present, s
    <3>5. QED
      BY <3>2, <3>3, <3>4
  <2>4. MovesOn
    BY <2>1, <2>3 DEF MovesOn
  <2>5. MoneyFits(w)'
    BY <2>1, RestFits
  <2>6. QED
    BY <1>1, <2>1, <2>3, <2>4, <2>5, MoneyKept DEF MoneyInv
<1>11. CASE recordAnswer(w)
  <2>1. PICK x : x = s.answer
    OBVIOUS
  <2>2. /\ s.pc = "answered" /\ Finish(w) /\ UNCHANGED <<bank, link, gateway, paid, ledger>>
        /\ debit' = [debit EXCEPT ![n].status = x]
    BY <1>2, <1>11, <2>1 DEF recordAnswer, s
  <2>3. debit[n].status # "absent" /\ worker'[w].pc = "idle"
    BY <1>1, <1>2, <2>2 DEF Fits, Holding, Finish, Idle
  <2>4. QED
    BY <1>6, <2>2, <2>3
<1>12. CASE storeNotification(w)
  <2>1. s.pc = "tell" /\ Finish(w) /\ UNCHANGED <<bank, link, gateway, paid, ledger>>
    BY <1>12 DEF storeNotification, s
  <2>2. a = FirstAmount
    BY <1>3, <2>1, DebitsFirst DEF s
  <2>3. \A m \in Attempts : debit'[m].status # "absent" => debit'[m].amount = FirstAmount
    <3>1. CASE s.answer = "update"
      <4>1. debit' = [debit EXCEPT ![n].status = "NOTIFIED", ![n].notif = n]
        BY <1>2, <1>12, <3>1 DEF storeNotification, s
      <4>2. debit[n].status # "absent"
        BY <1>1, <1>2, <2>1, <3>1 DEF Fits
      <4>3. QED
        BY <1>1, <4>1, <4>2
    <3>2. CASE s.answer = "create" /\ debit[n].status = "absent"
      <4>1. debit' = [debit EXCEPT ![n] = [status |-> "NOTIFIED", amount |-> a, notif |-> n]]
        BY <1>2, <1>3, <1>12, <3>2 DEF storeNotification, s
      <4>2. QED
        BY <1>1, <2>2, <4>1
    <3>3. CASE s.answer # "update" /\ ~(s.answer = "create" /\ debit[n].status = "absent")
      <4>1. debit' = debit
        BY <1>2, <1>12, <3>3 DEF storeNotification, s
      <4>2. QED
        BY <1>1, <4>1
    <3>4. QED
      BY <3>1, <3>2, <3>3
  <2>4. QED
    BY <2>1, <2>3, IdleFits, MoneyMoves
<1>13. CASE claimNotified(w)
  <2>1. /\ s.pc = "found" /\ UNCHANGED <<bank, link, gateway, paid, ledger>>
        /\ \/ Finish(w) /\ UNCHANGED debit
           \/ debit[n].status = "NOTIFIED" /\ Goto(w, "submit")
                /\ debit' = [debit EXCEPT ![n].status = "SUBMITTING"]
    BY <1>2, <1>13 DEF claimNotified, s
  <2>2. a = FirstAmount
    BY <1>3, <2>1, DebitsFirst DEF s
  <2>3. CASE debit[n].status = "NOTIFIED" /\ Goto(w, "submit")
                /\ debit' = [debit EXCEPT ![n].status = "SUBMITTING"]
    <3>1. /\ worker'[w].pc = "submit" /\ worker'[w].amount = a
          /\ \A v \in Workers : v # w => worker'[v] = worker[v]
      BY <1>1, <1>3, <2>3 DEF Goto, WorkerState, s
    <3>2. MoneyFits(w)'
      BY <2>2, <3>1 DEF MoneyFits
    <3>3. \A m \in Attempts : debit'[m].status # "absent" => debit'[m].amount = FirstAmount
      BY <1>5, <2>3
    <3>4. QED
      BY <2>1, <3>1, <3>2, <3>3, MoneyMoves
  <2>4. QED
    BY <1>4, <2>1, <2>3
<1>14. CASE mandateRevoked(w)
  <2>1. PICK x : x = "FAILURE"
    OBVIOUS
  <2>2. /\ s.pc \in {"found", "submit"} /\ Finish(w) /\ UNCHANGED <<bank, link, gateway, paid, ledger>>
        /\ debit' = [debit EXCEPT ![n].status = x]
    BY <1>2, <1>14, <2>1 DEF mandateRevoked, s
  <2>3. debit[n].status # "absent" /\ worker'[w].pc = "idle"
    BY <1>1, <1>2, <2>2 DEF Fits, Holding, Finish, Idle
  <2>4. QED
    BY <1>6, <2>2, <2>3
<1>15. CASE giveUp(w)
  BY <1>4, <1>15 DEF giveUp
<1>16. CASE readDebits(w)
  <2>1. /\ s.pc = "rows" /\ UNCHANGED <<debit, bank, link, gateway, paid, ledger>>
        /\ worker'[w].pc = "ask" /\ worker'[w].amount = a
        /\ \A v \in Workers : v # w => worker'[v] = worker[v]
    BY <1>1, <1>3, <1>16 DEF readDebits, WorkerState, s
  <2>2. Debits(a)
    BY <1>1, <1>3, <2>1 DEF MoneyFits, s
  <2>3. QED
    BY <1>7, <2>1, <2>2
<1>17. CASE decide(w)
  <2>1. s.pc \in {"rows", "decide"} /\ UNCHANGED <<debit, bank, link, gateway, paid, ledger>>
    BY <1>17 DEF decide, s
  <2>2. a = FirstAmount
    BY <1>3, <2>1, DebitsFirst DEF s
  <2>3. CASE Finish(w)
    BY <1>4, <2>1, <2>3
  <2>4. ASSUME NEW m, NEW x, NEW pc \in {"create", "notify", "submit"},
               worker' = [worker EXCEPT ![w].n = m, ![w].notif = x, ![w].pc = pc]
        PROVE  MoneyInv'
    <3>1. /\ worker'[w].pc \in {"create", "notify", "submit"} /\ worker'[w].amount = a
          /\ \A v \in Workers : v # w => worker'[v] = worker[v]
      BY <1>1, <1>3, <2>4 DEF WorkerState, s
    <3>2. Debits(a)'
      BY <2>2 DEF Debits
    <3>3. MoneyFits(w)'
      BY <2>2, <3>1, <3>2 DEF MoneyFits
    <3>4. QED
      BY <1>1, <2>1, <3>1, <3>3, MoneyMoves
  <2>5. Finish(w) \/ \E m, x : \E pc \in {"create", "notify", "submit"} :
                       worker' = [worker EXCEPT ![w].n = m, ![w].notif = x, ![w].pc = pc]
    <3>1. PICK x : x = IF MandateType = "UPI" THEN Notification(s.job) ELSE 0
      OBVIOUS
    <3>2. PICK m : m = IF ActiveRows = {} THEN NextAttempt ELSE Max(ActiveRows)
      OBVIOUS
    <3>3. PICK pc : pc = CASE ActiveRows = {} -> "create"
                           [] ActiveRows # {} /\ MandateType = "UPI" /\ x = 0 -> "notify"
                           [] OTHER -> "submit"
      OBVIOUS
    <3>4. pc \in {"create", "notify", "submit"}
      BY <3>3
    <3>5. Finish(w) \/ worker' = [worker EXCEPT ![w].n = m, ![w].notif = x, ![w].pc = pc]
      BY <1>17, <3>1, <3>2, <3>3 DEF decide, s
    <3>6. QED
      BY <3>4, <3>5
  <2>6. QED
    BY <2>3, <2>4, <2>5
<1>18. ASSUME NEW http \in {"accepted", "refused", "4xx", "unclear"}, notifyCustomer(w, http)
       PROVE  MoneyInv'
  <2>1. /\ s.pc = "notify" /\ Finish(w) /\ UNCHANGED <<bank, link, gateway, paid, ledger>>
        /\ debit' = [debit EXCEPT ![n].status = sendUpiPreDebitNotification(http),
                                  ![n].notif = IF http = "accepted" THEN n ELSE @]
    BY <1>2, <1>18 DEF notifyCustomer, s
  <2>2. debit[n].status # "absent"
    BY <1>1, <1>2, <2>1 DEF Fits, Holding
  <2>3. \A m \in Attempts : debit'[m].status # "absent" => debit'[m].amount = FirstAmount
    BY <1>1, <2>1, <2>2
  <2>4. QED
    BY <2>1, <2>3, IdleFits, MoneyMoves
<1>19. ASSUME Goto(w, "decide"), s.pc = "ask", AfterReconcile(s.job) # "idle" PROVE worker'[w].pc = "decide" /\ worker'[w].amount = a /\ Debits(a)
  <2>1. s.job \in {"retry", "execute"}
    BY <1>19 DEF AfterReconcile
  <2>2. QED
    BY <1>1, <1>3, <1>19, <2>1 DEF Goto, WorkerState, MoneyFits, s
<1>20. CASE askInVain(w)
  <2>1. /\ s.pc = "ask" /\ UNCHANGED <<debit, bank, link, gateway, paid, ledger>>
        /\ Finish(w) \/ (Goto(w, "decide") /\ AfterReconcile(s.job) # "idle")
    BY <1>20 DEF askInVain, s
  <2>2. CASE Goto(w, "decide") /\ AfterReconcile(s.job) # "idle"
    <3>1. \A v \in Workers : v # w => worker'[v] = worker[v]
      BY <1>1, <2>2 DEF Goto
    <3>2. QED
      BY <1>7, <1>19, <2>1, <2>2, <3>1
  <2>3. QED
    BY <1>4, <2>1, <2>2
<1>21. ASSUME NEW m \in Attempts, markFailure(w, m) PROVE MoneyInv'
  <2>1. PICK x : x = "FAILURE"
    OBVIOUS
  <2>2. /\ s.pc = "ask" /\ UNCHANGED <<bank, link, gateway, paid, ledger>>
        /\ debit' = [debit EXCEPT ![n].status = x]
        /\ Finish(w) \/ (Goto(w, "decide") /\ AfterReconcile(s.job) # "idle")
    BY <1>2, <1>21, <2>1 DEF markFailure, s
  <2>3. debit[n].status # "absent"
    BY <1>1, <1>2, <2>2 DEF Fits, Holding
  <2>4. worker'[w].pc # "idle" => Debits(a)
    <3>1. CASE Finish(w)
      BY <1>1, <3>1 DEF Finish, Idle
    <3>2. QED
      BY <1>19, <2>2, <3>1
  <2>5. QED
    BY <1>6, <2>2, <2>3, <2>4
<1>22. ASSUME NEW m \in Attempts, markSuccess(w, m) PROVE MoneyInv'
  <2>1. PICK x : x = "SUCCESS"
    OBVIOUS
  <2>2. /\ s.pc = "ask" /\ UNCHANGED <<bank, link, gateway, paid, ledger>>
        /\ debit' = [debit EXCEPT ![n].status = x] /\ bank[m].state = "collected"
        /\ worker' = [worker EXCEPT ![w].pc = "credit", ![w].id = Debit(n), ![w].ref = Debit(m),
                                    ![w].amount = debit[n].amount]
    BY <1>2, <1>22, <2>1 DEF markSuccess, s
  <2>3. debit[n].status # "absent"
    BY <1>1, <1>2, <2>2 DEF Fits, Holding
  <2>4. debit[n].amount = FirstAmount
    BY <1>1, <2>3
  <2>5. /\ worker'[w].pc = "credit" /\ worker'[w].ref = Debit(m) /\ worker'[w].amount = FirstAmount
        /\ \A v \in Workers : v # w => worker'[v] = worker[v]
    BY <1>1, <2>2, <2>4 DEF WorkerState, s
  <2>6. Paying(Debit(m), FirstAmount)'
    BY <2>2 DEF Paying
  <2>7. MoneyFits(w)'
    BY <2>5, <2>6, PayFits
  <2>8. \A k \in Attempts : debit'[k].status # "absent" => debit'[k].amount = FirstAmount
    BY <1>5, <2>2, <2>3
  <2>9. QED
    BY <2>2, <2>5, <2>7, <2>8, MoneyMoves
<1>23. CASE readLedger(w)
  <2>1. /\ s.pc = "credit" /\ UNCHANGED <<debit, bank, link, gateway, paid, ledger>>
        /\ worker' = [worker EXCEPT ![w].pc = "crediting",
                                    ![w].snap = [paid |-> paid, ledger |-> ledger]]
    BY <1>23 DEF readLedger, s
  <2>2. PICK ref : ref = s.ref
    OBVIOUS
  <2>3. /\ worker'[w].pc = "crediting" /\ worker'[w].ref = ref /\ worker'[w].amount = a
        /\ worker'[w].snap = [paid |-> paid, ledger |-> ledger]
        /\ \A v \in Workers : v # w => worker'[v] = worker[v]
    BY <1>1, <1>3, <2>1, <2>2 DEF WorkerState, s
  <2>4. Paying(ref, a) /\ Paying(ref, a)'
    BY <1>1, <1>3, <2>1, <2>2 DEF MoneyFits, Paying, s
  <2>5. PICK few : few = ledger
    OBVIOUS
  <2>6. PICK p : p = paid
    OBVIOUS
  <2>7. worker'[w].snap.ledger = few /\ worker'[w].snap.paid = p /\ few \subseteq ledger'
    BY <2>1, <2>3, <2>5, <2>6
  <2>8. /\ p <= Credit(EachLink', few)
        /\ EqualDebits => Whole(p)
    <3>1. EachLink' = EachLink
      BY <2>1 DEF EachLink
    <3>2. p <= Credit(EachLink, few) /\ (EqualDebits => Whole(p))
      BY <2>5, <2>6 DEF MoneyInv
    <3>3. QED
      BY <3>1, <3>2
  <2>9. MoneyFits(w)'
    BY <2>3, <2>4, <2>7, <2>8 DEF MoneyFits
  <2>10. QED
    BY <1>1, <2>1, <2>3, <2>9, MoneyMoves
<1>24. CASE commitRepayment(w)
  BY <1>24, MoneyCommits
<1>25. CASE closeReport(w)
  <2>1. PICK x : x = "SUCCESS"
    OBVIOUS
  <2>2. /\ s.pc = "closing" /\ Finish(w) /\ UNCHANGED <<bank, link, gateway, paid, ledger>>
        /\ debit' = [debit EXCEPT ![n].status = x]
    BY <1>2, <1>25, <2>1 DEF closeReport, s
  <2>3. debit[n].status # "absent" /\ worker'[w].pc = "idle"
    BY <1>1, <1>2, <2>2 DEF Fits, Holding, Finish, Idle
  <2>4. QED
    BY <1>6, <2>2, <2>3
<1>26. QED
  BY <1>8, <1>9, <1>10, <1>11, <1>12, <1>13, <1>14, <1>15, <1>16, <1>17, <1>18, <1>20, <1>21,
     <1>22, <1>23, <1>24, <1>25 DEF GoOn

LEMMA MoneyInvKept ==
  ASSUME EqualDebits \/ CronOnly, CollTyped, CollTyped', CronOnly => CronInv, MoneyInv,
         Next \/ UNCHANGED vars
  PROVE  MoneyInv'
<1>1. /\ \A n \in Attempts : debit[n].status # "absent" => debit[n].amount = FirstAmount
      /\ \A n \in Attempts : bank[n].state # "none" => bank[n].amount = FirstAmount
      /\ \A l \in Links : link[l].status # "absent" => "link" \in Jobs
  BY DEF MoneyInv
<1>2. ASSUME NEW w \in Workers, StartStep(w) PROVE MoneyInv'
  BY <1>2, MoneyStarts
<1>3. ASSUME NEW w \in Workers, GoOn(w) PROVE MoneyInv'
  BY <1>3, MoneyGoesOn
<1>4. ASSUME NEW w \in Workers, crash(w) PROVE MoneyInv'
  <2>1. MoneyFits(w)' /\ \A v \in Workers : v # w => worker'[v] = worker[v]
    BY <1>4, IdleFits DEF crash
  <2>2. QED
    BY <1>1, <1>4, <2>1, MoneyMoves DEF crash
<1>5. ASSUME NEW n \in Attempts, NEW outcome \in {"collected", "bounced"}, bankSettles(n, outcome)
      PROVE  MoneyInv'
  <2>1. /\ UNCHANGED <<worker, link, gateway, paid, ledger, debit>> /\ bank[n].state = "pending"
        /\ bank' = [bank EXCEPT ![n].state = outcome]
    BY <1>5 DEF bankSettles
  <2>2. /\ \A m \in Attempts : bank'[m].state # "none" => bank'[m].amount = FirstAmount
        /\ \A m \in Attempts : bank[m].state = "collected" => bank'[m].state = "collected"
    BY <1>1, <2>1 DEF CollTyped
  <2>3. MovesOn
    BY <2>1, <2>2 DEF MovesOn
  <2>4. QED
    BY <1>1, <2>1, <2>2, <2>3, MoneyKept
<1>6. ASSUME NEW n \in Attempts, otherReport(n) PROVE MoneyInv'
  <2>1. UNCHANGED <<worker, link, gateway, paid, ledger, bank>>
    BY <1>6 DEF otherReport
  <2>2. \A m \in Attempts : debit'[m].status # "absent" => debit'[m].amount = FirstAmount
    <3>1. CASE debit' = debit
      BY <1>1, <3>1
    <3>2. ASSUME NEW r \in ReportedRows(n), bank[n].state = "bounced",
                 debit' = [debit EXCEPT ![r].status = "FAILURE"]
          PROVE  \A m \in Attempts : debit'[m].status # "absent" => debit'[m].amount = FirstAmount
      <4>1. r \in Attempts /\ debit[r].status # "absent"
        BY <3>2 DEF ReportedRows, Rows, CollTyped
      <4>2. QED
        BY <1>1, <3>2, <4>1 DEF CollTyped
    <3>3. QED
      BY <1>6, <3>1, <3>2 DEF otherReport
  <2>3. MovesOn
    BY <2>1, <1>6 DEF MovesOn, otherReport
  <2>4. QED
    BY <1>1, <1>6, <2>1, <2>2, <2>3, MoneyKept DEF otherReport
<1>7. CASE mandateEnds \/ UNCHANGED vars
  <2>1. UNCHANGED <<worker, debit, bank, link, gateway, paid, ledger>>
    BY <1>7 DEF mandateEnds, vars
  <2>2. MovesOn
    BY <2>1 DEF MovesOn
  <2>3. QED
    BY <1>1, <2>1, <2>2, MoneyKept
<1>8. ASSUME NEW l \in Links, NEW amount \in 1..Emi, initiateRepaymentPayment(l, amount)
      PROVE  MoneyInv'
  <2>1. /\ UNCHANGED <<worker, gateway, paid, ledger, debit, bank>>
        /\ link[l].status = "absent" /\ "link" \in Jobs
        /\ link' = [link EXCEPT ![l] = [status |-> "INITIATED", amount |-> amount]]
    BY <1>8 DEF initiateRepaymentPayment
  <2>2. \A k \in Links : link[k].status # "absent" => link'[k].amount = link[k].amount
    BY <2>1 DEF CollTyped
  <2>3. MovesOn
    BY <2>1, <2>2 DEF MovesOn
  <2>4. QED
    BY <1>1, <2>1, <2>3, MoneyKept
<1>9. ASSUME NEW l \in Links, customerPays(l) PROVE MoneyInv'
  <2>1. UNCHANGED <<worker, link, paid, ledger, debit, bank>> /\ gateway \subseteq gateway'
    BY <1>9 DEF customerPays
  <2>2. MovesOn
    BY <2>1 DEF MovesOn
  <2>3. QED
    BY <1>1, <2>1, <2>2, MoneyKept
<1>10. ASSUME NEW l \in Links, linkPending(l) PROVE MoneyInv'
  <2>1. /\ UNCHANGED <<worker, gateway, paid, ledger, debit, bank>>
        /\ link[l].status # "absent"
        /\ link' = [link EXCEPT ![l].status = "PENDING"]
    BY <1>10 DEF linkPending
  <2>2. /\ \A k \in Links : link'[k].amount = link[k].amount
        /\ \A k \in Links : link'[k].status # "absent" => "link" \in Jobs
    BY <1>1, <2>1 DEF CollTyped
  <2>3. MovesOn
    BY <2>1, <2>2 DEF MovesOn
  <2>4. QED
    BY <1>1, <2>1, <2>2, <2>3, MoneyKept
<1>11. QED
  BY <1>2, <1>3, <1>4, <1>5, <1>6, <1>7, <1>8, <1>9, <1>10 DEF Next

LEMMA MoneyInvStarts == Init => MoneyInv
<1> SUFFICES ASSUME Init PROVE MoneyInv
  OBVIOUS
<1>1. /\ paid = 0 /\ ledger = {} /\ \A l \in Links : link[l].status = "absent"
      /\ \A n \in Attempts : debit[n].status = "absent" /\ bank[n].state = "none"
      /\ \A w \in Workers : worker[w].pc = "idle"
  BY DEF Init, NoRow, Idle
<1>2. Whole(0)
  <2>1. 0 = 0 * FirstAmount
    BY FirstAmountTyped
  <2>2. QED
    BY <2>1 DEF Whole
<1>3. 0 <= Credit(EachLink, {})
  <2>1. PICK each : each = EachLink
    OBVIOUS
  <2>2. each \in [Links -> Nat]
    BY <2>1, CollTypedStarts DEF EachLink, CollTyped
  <2>3. Credit(each, {}) \in Nat
    BY <2>2, CreditTyped
  <2>4. 0 <= Credit(each, {})
    BY <2>3
  <2>5. QED
    BY <2>1, <2>4
<1>4. \A v \in Workers : MoneyFits(v)
  BY <1>1 DEF MoneyFits
<1>5. QED
  BY <1>1, <1>2, <1>3, <1>4 DEF MoneyInv

LEMMA CreditedAtMost == CollTyped /\ MoneyInv => NeverOvercredited
<1> SUFFICES ASSUME CollTyped, MoneyInv PROVE NeverOvercredited
  OBVIOUS
<1>1. PICK each : each = EachLink
  OBVIOUS
<1>2. PICK entries : entries = ledger
  OBVIOUS
<1>3. PICK taken : taken = [n \in Attempts |-> bank[n].amount]
  OBVIOUS
<1>4. PICK got : got = CollectedDebits
  OBVIOUS
<1>5. PICK payers : payers = gateway
  OBVIOUS
<1>6. /\ each \in [Links -> Nat] /\ taken \in [Attempts -> Nat]
      /\ got \subseteq Attempts /\ payers \subseteq Links
      /\ \A n \in got : taken[n] = FirstAmount
  BY <1>1, <1>3, <1>4, <1>5 DEF EachLink, CollTyped, CollectedDebits, MoneyInv
<1>7. CreditedDebits(entries) \subseteq got /\ CreditedLinks(entries) \subseteq payers
  <2>1. \A r \in entries : Paying(r.ref, r.amount)
    BY <1>2 DEF MoneyInv
  <2>2. CreditedDebits(entries) \subseteq got
    BY <1>4, <2>1 DEF Paying, CreditedDebits, CollectedDebits, Debit, Link
  <2>3. CreditedLinks(entries) \subseteq payers
    BY <1>5, <2>1 DEF Paying, CreditedLinks, Debit, Link
  <2>4. QED
    BY <2>2, <2>3
<1>8. IsFiniteSet(got) /\ IsFiniteSet(payers)
  <2>1. IsFiniteSet(Attempts)
    BY DebitsAssumption, FS_Interval DEF Attempts
  <2>2. QED
    BY <1>6, <2>1, FS_Subset, LinksAssumption
<1>9. Total(EachDebit, CreditedDebits(entries)) <= Total(taken, got)
  <2>1. \A n \in CreditedDebits(entries) : EachDebit[n] \in Nat /\ EachDebit[n] <= taken[n]
    BY <1>6, <1>7, FirstAmountTyped DEF EachDebit
  <2>2. \A n \in got : taken[n] \in Nat
    BY <1>6
  <2>3. QED
    BY <1>7, <1>8, <2>1, <2>2, TotalGrows
<1>10. Total(each, CreditedLinks(entries)) <= Total(each, payers)
  <2>1. \A l \in payers : each[l] \in Nat /\ each[l] <= each[l]
    BY <1>6
  <2>2. QED
    BY <1>7, <1>8, <2>1, TotalGrows
<1>11. /\ Total(EachDebit, CreditedDebits(entries)) \in Nat
       /\ Total(each, CreditedLinks(entries)) \in Nat
  BY <1>6, CreditTyped
<1>12. Total(taken, got) \in Nat /\ Total(each, payers) \in Nat
  <2>1. /\ \A n \in got : taken[n] \in Nat
        /\ \A l \in payers : each[l] \in Nat
    BY <1>6
  <2>2. QED
    BY <1>8, <2>1, TotalTyped
<1>13. paid \in Nat
       /\ paid <= Total(EachDebit, CreditedDebits(entries)) + Total(each, CreditedLinks(entries))
  BY <1>1, <1>2 DEF MoneyInv, Credit, CollTyped
<1>14. Collected = Total(taken, got) + Total(each, payers)
  BY <1>1, <1>3, <1>4, <1>5 DEF Collected, EachLink
<1>15. QED
  BY <1>9, <1>10, <1>11, <1>12, <1>13, <1>14 DEF NeverOvercredited

\* The instalment is never credited with more than the customer paid, however webhooks, the
\* reconciliation cron, operators' look-ups, presentments and links overlap and die, of any
\* number, although a row may be settled by another row's entry at the bank: where every debit
\* takes the same amount, or the morning cron alone collects.  Of debits that differ it fails:
\* a row is credited with its own amount whichever entry settles it.
THEOREM NeverOvercreditedHolds ==
  EqualDebits \/ CronOnly => (Spec => []NeverOvercredited)
<1> SUFFICES ASSUME EqualDebits \/ CronOnly PROVE Spec => []NeverOvercredited
  OBVIOUS
<1> DEFINE Inv == CollTyped /\ (CronOnly => CronInv) /\ MoneyInv
<1>1. Init => Inv
  BY CollTypedStarts, CronInvStarts, MoneyInvStarts
<1>2. Inv /\ [Next]_vars => Inv'
  <2> SUFFICES ASSUME Inv, [Next]_vars PROVE Inv'
    OBVIOUS
  <2>1. CollTyped'
    BY CollTypedKept
  <2>2. CronOnly => CronInv'
    BY <2>1, CronInvKept
  <2>3. MoneyInv'
    BY <2>1, MoneyInvKept
  <2>4. QED
    BY <2>1, <2>2, <2>3
<1>3. Inv => NeverOvercredited
  BY CreditedAtMost
<1>4. QED
  BY <1>1, <1>2, <1>3, PTL DEF Spec
================================================================================
