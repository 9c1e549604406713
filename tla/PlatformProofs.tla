---------------------------- MODULE PlatformProofs ----------------------------
(***************************************************************************)
(* What customers are billed, for every price, every number of lines and   *)
(* every order of payments: the amounts of one invoice (Vat), and the      *)
(* books that orders, invoices, checkouts and webhooks keep (Billing).     *)
(* Then the services and rules together, as TLC checks them (MCServices).  *)
(***************************************************************************)
EXTENDS MCServices, ServicesProofs, TextProofs

--------------------------------------------------------------------------------
(***************************************************************************)
(* Vat.  The properties are inductive together with the type of the state; *)
(* what each line contributes is in three lemmas about the rounding of one *)
(* amount.                                                                 *)
(***************************************************************************)

VatTypeOK ==
    /\ basis \in {"lines", "exVatCents", "amountCents"}
    /\ lines \in Nat \ {0}
    /\ items \in Breakdown /\ total \in Breakdown

VatInv ==
    VatTypeOK /\ PartsAddUp /\ LinesWithinACent /\ VatNearRate /\ BackfillExact

-------------------------------------------------------------------------------
\* Math.round: the VAT of one amount is 21% of it to half a cent (computeNlBtw).
LEMMA ComputeRounds ==
    ASSUME NEW ex \in Nat
    PROVE  LET c == ComputeNlBtw(ex)
           IN  /\ c \in Breakdown /\ c.ex = ex /\ c.ex + c.btw = c.inc
               /\ 100 * c.btw - 21 * ex \in -50..50
<1> DEFINE btw == (21 * ex + 50) \div 100
<1>1. /\ btw \in Int
      /\ 100 * btw <= 21 * ex + 50
      /\ 21 * ex + 50 < 100 * btw + 100
  OBVIOUS
<1>2. btw \in Nat /\ 100 * btw - 21 * ex \in -50..50
  BY <1>1
<1> HIDE DEF btw
<1>3. ComputeNlBtw(ex) = [ex |-> ex, btw |-> btw, inc |-> ex + btw]
  BY DEF ComputeNlBtw, btw
<1> QED
  BY <1>2, <1>3 DEF Breakdown

\* A legacy amount is split into parts that add up to it, and the VAT computed again from the
\* part without VAT differs by a cent at most (deriveNlBtwFromIncVat, then computeNlBtw).
LEMMA DeriveRounds ==
    ASSUME NEW inc \in Nat
    PROVE  LET d == DeriveNlBtwFromIncVat(inc)
           IN  /\ d \in Breakdown /\ d.inc = inc /\ d.ex + d.btw = d.inc
               /\ ComputeNlBtw(d.ex).inc - inc \in -1..1
<1> DEFINE ex == (200 * inc + 121) \div 242
           btw == (21 * ex + 50) \div 100
<1>1. /\ ex \in Int
      /\ 242 * ex <= 200 * inc + 121
      /\ 200 * inc + 121 < 242 * ex + 242
  OBVIOUS
<1>2. ex \in Nat
  BY <1>1
<1> HIDE DEF ex
<1>3. /\ btw \in Int
      /\ 100 * btw <= 21 * ex + 50
      /\ 21 * ex + 50 < 100 * btw + 100
  BY <1>2
<1> HIDE DEF btw
<1>4. inc - ex \in Nat
  BY <1>1, <1>2
<1>5. ex + btw - inc \in -1..1
  BY <1>1, <1>2, <1>3
<1>6. DeriveNlBtwFromIncVat(inc) = [ex |-> ex, btw |-> inc - ex, inc |-> inc]
  BY DEF DeriveNlBtwFromIncVat, ex
<1>7. ComputeNlBtw(ex).inc = ex + btw
  BY DEF ComputeNlBtw, btw
<1>8. DeriveNlBtwFromIncVat(inc).ex = ex
  BY <1>6
<1>9. ComputeNlBtw(DeriveNlBtwFromIncVat(inc).ex).inc - inc \in -1..1
  <2>1. ComputeNlBtw(DeriveNlBtwFromIncVat(inc).ex).inc = ex + btw
    BY <1>7, <1>8, Zenon
  <2> QED
    BY <1>2, <1>3, <1>5, <2>1
<1>10. LET d == DeriveNlBtwFromIncVat(inc)
       IN  d \in Breakdown /\ d.inc = inc /\ d.ex + d.btw = d.inc
  BY <1>2, <1>4, <1>6 DEF Breakdown
<1> QED
  BY <1>9, <1>10

\* What computeNlBtw made of an amount, deriveNlBtwFromIncVat takes apart again.
LEMMA DeriveInverts ==
    ASSUME NEW ex \in Nat
    PROVE  DeriveNlBtwFromIncVat(ComputeNlBtw(ex).inc) = ComputeNlBtw(ex)
<1> DEFINE btw == (21 * ex + 50) \div 100
           back == (200 * (ex + btw) + 121) \div 242
<1>1. /\ btw \in Int
      /\ 100 * btw <= 21 * ex + 50
      /\ 21 * ex + 50 < 100 * btw + 100
  OBVIOUS
<1> HIDE DEF btw
<1>2. /\ back \in Int
      /\ 242 * back <= 200 * (ex + btw) + 121
      /\ 200 * (ex + btw) + 121 < 242 * back + 242
  BY <1>1
<1> HIDE DEF back
<1>3. back = ex
  BY <1>1, <1>2
<1>4. ComputeNlBtw(ex) = [ex |-> ex, btw |-> btw, inc |-> ex + btw]
  BY DEF ComputeNlBtw, btw
<1>5. DeriveNlBtwFromIncVat(ex + btw) =
        [ex |-> back, btw |-> (ex + btw) - back, inc |-> ex + btw]
  BY DEF DeriveNlBtwFromIncVat, back
<1> QED
  BY <1>1, <1>3, <1>4, <1>5

-------------------------------------------------------------------------------
LEMMA VatInitInv == VatInit => VatInv
<1> SUFFICES ASSUME NEW p \in Prices,
                    \/ Invoiced("lines", ComputeNlBtw(p), ComputeNlBtw(p))
                    \/ Invoiced("exVatCents", ComputeNlBtw(p), ComputeNlBtw(p))
                    \/ Invoiced("amountCents", ComputeNlBtw(DeriveNlBtwFromIncVat(p).ex),
                                               DeriveNlBtwFromIncVat(p))
             PROVE  VatInv
  BY DEF VatInit
<1>1. p \in Nat
  BY VatAssumption
<1>2. CASE \/ Invoiced("lines", ComputeNlBtw(p), ComputeNlBtw(p))
           \/ Invoiced("exVatCents", ComputeNlBtw(p), ComputeNlBtw(p))
  <2> DEFINE c == ComputeNlBtw(p)
  <2>1. /\ c \in Breakdown /\ c.ex = p /\ c.ex + c.btw = c.inc
        /\ 100 * c.btw - 21 * p \in -50..50
    BY <1>1, ComputeRounds
  <2>2. DeriveNlBtwFromIncVat(c.inc) = c
    BY <1>1, DeriveInverts
  <2>3. /\ basis \in {"lines", "exVatCents"} /\ lines = 1
        /\ items = c /\ total = c
    BY <1>2 DEF Invoiced
  <2> HIDE DEF c
  <2>4. VatTypeOK /\ PartsAddUp /\ VatNearRate
    BY <2>1, <2>3 DEF VatTypeOK, PartsAddUp, VatNearRate, Breakdown
  <2>5. LinesWithinACent /\ BackfillExact
    BY <2>1, <2>2, <2>3 DEF LinesWithinACent, BackfillExact, Breakdown
  <2> QED
    BY <2>4, <2>5 DEF VatInv
<1>3. CASE Invoiced("amountCents", ComputeNlBtw(DeriveNlBtwFromIncVat(p).ex),
                                   DeriveNlBtwFromIncVat(p))
  <2> DEFINE d == DeriveNlBtwFromIncVat(p)
             c == ComputeNlBtw(d.ex)
  <2>1. /\ d \in Breakdown /\ d.inc = p /\ d.ex + d.btw = d.inc
        /\ c.inc - p \in -1..1
    BY <1>1, DeriveRounds
  <2>2. d.ex \in Nat
    BY <2>1 DEF Breakdown
  <2> HIDE DEF d
  <2>3. /\ c \in Breakdown /\ c.ex = d.ex /\ c.ex + c.btw = c.inc
        /\ 100 * c.btw - 21 * d.ex \in -50..50
    BY <2>2, ComputeRounds
  <2> HIDE DEF c
  <2>4. basis = "amountCents" /\ lines = 1 /\ items = c /\ total = d
    BY <1>3 DEF Invoiced, c, d
  <2>5. VatTypeOK /\ PartsAddUp /\ VatNearRate
    BY <2>1, <2>3, <2>4 DEF VatTypeOK, PartsAddUp, VatNearRate, Breakdown
  <2>6. LinesWithinACent /\ BackfillExact
    BY <2>1, <2>3, <2>4 DEF LinesWithinACent, BackfillExact, Breakdown
  <2> QED
    BY <2>5, <2>6 DEF VatInv
<1> QED
  BY <1>2, <1>3

LEMMA VatStepInv == VatInv /\ [VatNext]_vatVars => VatInv'
<1> SUFFICES ASSUME VatInv, [VatNext]_vatVars
             PROVE  VatInv'
  OBVIOUS
<1>1. CASE UNCHANGED vatVars
  BY <1>1 DEF VatInv, VatTypeOK, PartsAddUp, LinesWithinACent, VatNearRate, BackfillExact, vatVars
<1>2. CASE VatNext
  <2> PICK p \in Prices : AddLine(p)
    BY <1>2 DEF VatNext
  <2> DEFINE c == ComputeNlBtw(p)
  <2>1. /\ c \in Breakdown /\ c.ex + c.btw = c.inc
        /\ 100 * c.btw - 21 * c.ex \in -50..50
    BY VatAssumption, ComputeRounds
  <2>2. /\ basis = "lines" /\ basis' = "lines" /\ lines' = lines + 1
        /\ items' = Plus(items, c) /\ total' = Plus(total, c)
    BY DEF AddLine
  <2> HIDE DEF c
  <2>3. items = total
    BY <2>2 DEF VatInv, LinesWithinACent
  <2>4. /\ c.ex \in Nat /\ c.btw \in Nat /\ c.inc \in Nat
        /\ items.ex \in Nat /\ items.btw \in Nat /\ items.inc \in Nat
        /\ lines \in Nat \ {0}
    BY <2>1 DEF VatInv, VatTypeOK, Breakdown
  <2>5. /\ items'.ex = items.ex + c.ex /\ items'.btw = items.btw + c.btw
        /\ items'.inc = items.inc + c.inc
        /\ items' \in Breakdown /\ total' = items'
    BY <2>2, <2>3, <2>4 DEF Plus, Breakdown
  <2>6. VatTypeOK'
    BY <2>2, <2>4, <2>5 DEF VatTypeOK
  <2>7. PartsAddUp'
    BY <2>1, <2>4, <2>5 DEF VatInv, PartsAddUp
  <2>8. LinesWithinACent' /\ BackfillExact'
    BY <2>2, <2>4, <2>5 DEF LinesWithinACent, BackfillExact, Breakdown
  <2>9. VatNearRate'
    <3>1. 100 * items.btw - 21 * items.ex \in -(50 * lines)..(50 * lines)
      BY DEF VatInv, VatNearRate
    <3> QED
      BY <2>1, <2>2, <2>4, <2>5, <3>1 DEF VatNearRate
  <2> QED
    BY <2>6, <2>7, <2>8, <2>9 DEF VatInv
<1> QED
  BY <1>1, <1>2

LEMMA VatInvariant == VatSpec => []VatInv
  BY VatInitInv, VatStepInv, PTL DEF VatSpec

\* Whatever the prices and however many the lines: an invoice's parts add up (createInvoice).
THEOREM InvoicesAddUp == VatSpec => []PartsAddUp
<1>1. VatInv => PartsAddUp
  BY DEF VatInv
<1> QED
  BY <1>1, VatInvariant, PTL

\* What the lines ask is what the invoice asks, to a cent and only for legacy prices.
THEOREM LinesAgree == VatSpec => []LinesWithinACent
<1>1. VatInv => LinesWithinACent
  BY DEF VatInv
<1> QED
  BY <1>1, VatInvariant, PTL

\* The rounding of every line adds up to half a cent per line at most.
THEOREM RoundingIsBounded == VatSpec => []VatNearRate
<1>1. VatInv => VatNearRate
  BY DEF VatInv
<1> QED
  BY <1>1, VatInvariant, PTL

\* An amount with VAT that was made from a price is taken apart into that price.
THEOREM BackfillIsExact == VatSpec => []BackfillExact
<1>1. VatInv => BackfillExact
  BY DEF VatInv
<1> QED
  BY <1>1, VatInvariant, PTL

\* All of the above.
THEOREM AmountsAlwaysAgree == VatSpec => []AmountsAgree
<1>1. VatInv => AmountsAgree
  BY DEF VatInv, AmountsAgree
<1> QED
  BY <1>1, VatInvariant, PTL

--------------------------------------------------------------------------------
(***************************************************************************)
(* Billing.  A webhook may come for a session of long ago, so the          *)
(* invariant says of every session and of every request for one what it    *)
(* knows of the books, and of every order that it has its one invoice.     *)
(* Every step keeps what the books held (BooksKept), so that a session     *)
(* that agreed with them goes on agreeing; this is also why a repeated     *)
(* event undoes nothing.                                                   *)
(***************************************************************************)

\* An amount is a number, or what some catalog asks for a list of scopes: that a sum over a
\* list of any length is a number is an induction the invariant does not need.
Amounts == Nat \cup {QuoteAt(prices, scopes) : prices \in Catalog, scopes \in ScopeLists}

BilledInvoice  == [payer : Payers, status : InvoiceStates, amount : Amounts,
                   order : Nat, note : {"none", "checkout", "operator"}]
BilledOrder    == [payer : Payers, scopes : ScopeLists, status : OrderStates,
                   price : Amounts, credit : BOOLEAN, paid : BOOLEAN,
                   steps : [Orderable -> StepStates \cup {"absent"}], hits : Nat]
BilledSession  == [payer : Payers, purpose : Purposes, invoice : Nat, order : Nat,
                   amount : Amounts, paid : BOOLEAN]
BilledCheckout == [payer : Payers, purpose : Purposes, invoice : Nat, order : Nat,
                   amount : Amounts]

BillingBase ==
    /\ listed \in Catalog
    /\ credits \in [Payers -> [balance : Nat, used : Nat]]
    /\ orders \in Seq(BilledOrder) /\ invoices \in Seq(BilledInvoice)
    /\ sessions \in Seq(BilledSession) /\ checkouts \in Seq(BilledCheckout)

Unsearched == {"absent", "pending_connector"}

\* A report that is there was made by the one run of its steps.
RunOnce(o) ==
    o.status = "completed" =>
        /\ o.steps = RunSteps(o.steps)
        /\ o.hits = IF o.steps[Searched] \in Unsearched THEN 0 ELSE HitsFound

\* Invoice i bills order n.
Bills(i, n, is, os) ==
    /\ is[i].order = n /\ is[i].payer = os[n].payer /\ is[i].amount = os[n].price
    /\ os[n].status = "completed" => is[i].status = "paid"

OrdersBilled(os, is) ==
    \A n \in DOMAIN os :
        /\ RunOnce(os[n])
        /\ ~os[n].credit => \E i \in DOMAIN is : Bills(i, n, is, os)

\* No invoice is for an order that is not there yet, and no two are for the same.
BilledOnce(os, is) ==
    /\ \A i \in DOMAIN is : is[i].order \in DOMAIN os \cup {NoRef}
    /\ \A i, j \in DOMAIN is : is[i].order = is[j].order => i = j \/ is[i].order = NoRef

AsksForInvoice(s, is) ==
    s.purpose = "pay_invoice" =>
        s.invoice \in DOMAIN is /\ s.amount = is[s.invoice].amount /\ s.payer = is[s.invoice].payer

\* A session for a research is there when its order was run already.
SessionOK(s, os, is) ==
    /\ AsksForInvoice(s, is)
    /\ s.purpose = "name_research_order" =>
           s.order \in DOMAIN os /\ s.amount = os[s.order].price /\ os[s.order].status = "completed"

\* A request for one knows the order and its invoice.
CheckoutOK(c, os, is) ==
    /\ AsksForInvoice(c, is)
    /\ c.purpose = "name_research_order" =>
           /\ c.order \in DOMAIN os /\ c.amount = os[c.order].price
           /\ c.invoice \in DOMAIN is /\ is[c.invoice].order = c.order

BooksInv ==
    /\ BillingBase /\ CreditsConserved
    /\ OrdersBilled(orders, invoices) /\ BilledOnce(orders, invoices)
    /\ \A s \in DOMAIN sessions : SessionOK(sessions[s], orders, invoices)
    /\ \A k \in DOMAIN checkouts : CheckoutOK(checkouts[k], orders, invoices)

\* What a step may do to an order and to an invoice.
SameOrder(o, next) ==
    /\ next.payer = o.payer /\ next.credit = o.credit /\ next.price = o.price
    /\ o.status = "completed" =>
           next.status = "completed" /\ next.steps = o.steps /\ next.hits = o.hits
SameInvoice(i, next) ==
    /\ next.payer = i.payer /\ next.amount = i.amount /\ next.order = i.order
    /\ i.status = "paid" => next.status = "paid"
    /\ i.note # "none" => next.note # "none"

OrdersKept(os, next) ==
    DOMAIN os \subseteq DOMAIN next /\ \A n \in DOMAIN os : SameOrder(os[n], next[n])
InvoicesKept(is, next) ==
    DOMAIN is \subseteq DOMAIN next /\ \A i \in DOMAIN is : SameInvoice(is[i], next[i])

-------------------------------------------------------------------------------
\* Orders and invoices that are kept keep what sessions and requests say of them.
LEMMA KeptServes ==
    ASSUME NEW os, NEW is, NEW nos, NEW nis, OrdersKept(os, nos), InvoicesKept(is, nis), NEW s
    PROVE  /\ SessionOK(s, os, is) => SessionOK(s, nos, nis)
           /\ CheckoutOK(s, os, is) => CheckoutOK(s, nos, nis)
  BY DEF OrdersKept, InvoicesKept, SameOrder, SameInvoice, SessionOK, CheckoutOK, AsksForInvoice

LEMMA NothingLost ==
    /\ \A os : OrdersKept(os, os)
    /\ \A is : InvoicesKept(is, is)
  BY DEF OrdersKept, InvoicesKept, SameOrder, SameInvoice

\* A request that is answered leaves the others where they were.
LEMMA RemovedAt ==
    ASSUME NEW S, NEW seq \in Seq(S), NEW k \in DOMAIN seq
    PROVE  /\ RemoveAt(seq, k) \in Seq(S)
           /\ \A j \in DOMAIN RemoveAt(seq, k) : \E i \in DOMAIN seq : RemoveAt(seq, k)[j] = seq[i]
<1> DEFINE front == SubSeq(seq, 1, k - 1)
           back == SubSeq(seq, k + 1, Len(seq))
<1>1. k \in 1..Len(seq) /\ Len(seq) \in Nat /\ DOMAIN seq = 1..Len(seq)
  OBVIOUS
<1>2. \A i \in 1..Len(seq) : seq[i] \in S
  OBVIOUS
<1>3. /\ front \in Seq(S) /\ Len(front) = k - 1
      /\ \A i \in 1..(k - 1) : front[i] = seq[i]
  <2>1. k - 1 \in Int /\ 1 \in Int /\ \A i \in 1..(k - 1) : seq[i] \in S
    BY <1>1, <1>2
  <2>2. /\ front \in Seq(S)
        /\ Len(front) = IF 1 <= k - 1 THEN (k - 1) - 1 + 1 ELSE 0
        /\ \A i \in 1..((k - 1) - 1 + 1) : front[i] = seq[1 + i - 1]
    BY <2>1, SubSeqProperties
  <2> QED
    BY <1>1, <2>2
<1>4. /\ back \in Seq(S) /\ Len(back) = Len(seq) - k
      /\ \A i \in 1..(Len(seq) - k) : back[i] = seq[k + i]
  <2>1. k + 1 \in Int /\ Len(seq) \in Int /\ \A i \in (k + 1)..Len(seq) : seq[i] \in S
    BY <1>1, <1>2
  <2>2. /\ back \in Seq(S)
        /\ Len(back) = IF k + 1 <= Len(seq) THEN Len(seq) - (k + 1) + 1 ELSE 0
        /\ \A i \in 1..(Len(seq) - (k + 1) + 1) : back[i] = seq[(k + 1) + i - 1]
    BY <2>1, SubSeqProperties
  <2> QED
    BY <1>1, <2>2
<1> HIDE DEF front, back
<1>5. RemoveAt(seq, k) = front \o back
  BY DEF RemoveAt, front, back
<1>6. /\ front \o back \in Seq(S) /\ Len(front \o back) = (k - 1) + (Len(seq) - k)
      /\ \A i \in 1..((k - 1) + (Len(seq) - k)) :
            (front \o back)[i] = IF i <= k - 1 THEN front[i] ELSE back[i - (k - 1)]
  <2>1. front \in Seq(S) /\ back \in Seq(S)
    BY <1>3, <1>4
  <2>2. /\ front \o back \in Seq(S) /\ Len(front \o back) = Len(front) + Len(back)
        /\ \A i \in 1..(Len(front) + Len(back)) :
              (front \o back)[i] = IF i <= Len(front) THEN front[i] ELSE back[i - Len(front)]
    BY <2>1, ConcatProperties, Zenon
  <2> QED
    BY <1>3, <1>4, <2>2
<1>7. ASSUME NEW j \in DOMAIN (front \o back)
      PROVE  \E i \in DOMAIN seq : (front \o back)[j] = seq[i]
  <2>1. j \in 1..(Len(seq) - 1)
    BY <1>1, <1>6
  <2>2. CASE j <= k - 1
    BY <1>1, <1>3, <1>6, <2>1, <2>2
  <2>3. CASE j > k - 1
    <3>1. (front \o back)[j] = back[j - (k - 1)] /\ j - (k - 1) \in 1..(Len(seq) - k)
      BY <1>1, <1>6, <2>1, <2>3
    <3>2. back[j - (k - 1)] = seq[k + (j - (k - 1))] /\ k + (j - (k - 1)) \in 1..Len(seq)
      BY <1>1, <1>4, <2>1, <2>3, <3>1
    <3> QED
      BY <1>1, <3>1, <3>2
  <2> QED
    BY <1>1, <2>1, <2>2, <2>3
<1> QED
  BY <1>5, <1>6, <1>7

\* The sequence of a finite set holds its elements.
LEMMA SequenceOf ==
    ASSUME NEW S, IsFiniteSet(S)
    PROVE  /\ SetToSeq(S) \in Seq(S)
           /\ \A i, j \in DOMAIN SetToSeq(S) : SetToSeq(S)[i] = SetToSeq(S)[j] => i = j
<1>1. PICK n \in Nat : ExistsBijection(1..n, S)
  BY FS_NatBijection
<1>2. n = Cardinality(S)
  BY <1>1, FS_CountingElements
<1>3. PICK f \in [1..n -> S] : IsInjective(f)
  BY <1>1 DEF ExistsBijection, Bijection, Injection
<1>4. SetToSeq(S) \in [1..n -> S] /\ IsInjective(SetToSeq(S))
  BY <1>2, <1>3, Zenon DEF SetToSeq
<1> QED
  BY <1>4 DEF IsInjective

-------------------------------------------------------------------------------
\* What a register is asked for costs what the catalog says.
LEMMA QuoteIsAmount ==
    ASSUME BillingBase, NEW scopes \in ScopeLists
    PROVE  Quote(scopes) \in Amounts
  BY DEF Quote, Amounts, BillingBase

LEMMA StepsRunOnce ==
    ASSUME NEW steps \in [Orderable -> StepStates \cup {"absent"}]
    PROVE  /\ RunSteps(steps) \in [Orderable -> StepStates \cup {"absent"}]
           /\ \A r \in Orderable :
                  RunSteps(steps)[r] = IF steps[r] \in Unsearched THEN steps[r]
                                       ELSE IF r = Searched THEN "completed"
                                       ELSE "pending_connector"
           /\ RunSteps(steps)[Searched] \in Unsearched <=> steps[Searched] \in Unsearched
           /\ RunSteps(RunSteps(steps)) = RunSteps(steps)
<1> DEFINE run == RunSteps(steps)
<1>1. \A r \in Orderable : run[r] = IF steps[r] \in Unsearched THEN steps[r]
                                    ELSE IF r = Searched THEN "completed" ELSE "pending_connector"
  BY DEF RunSteps, Unsearched
<1>2. run \in [Orderable -> StepStates \cup {"absent"}]
  BY <1>1 DEF RunSteps, StepStates, Unsearched
<1> HIDE DEF run
<1>3. RunSteps(run) = run
  <2>1. \A r \in Orderable : RunSteps(run)[r] = run[r]
    BY <1>1 DEF RunSteps, Unsearched
  <2>2. RunSteps(run) = [r \in Orderable |-> RunSteps(run)[r]]
    BY DEF RunSteps
  <2> QED
    BY <1>2, <2>1, <2>2
<1>4. run[Searched] \in Unsearched <=> steps[Searched] \in Unsearched
  BY <1>1, BillingAssumption DEF Unsearched
<1> QED
  BY <1>1, <1>2, <1>3, <1>4 DEF run

\* markPaid completes an order, and what was completed before stays as it was.
LEMMA PaidOrderIs ==
    ASSUME NEW o \in BilledOrder
    PROVE  /\ PaidOrder(o) \in BilledOrder
           /\ PaidOrder(o).status = "completed" /\ RunOnce(PaidOrder(o))
           /\ RunOnce(o) => SameOrder(o, PaidOrder(o))
<1> DEFINE queued == [o EXCEPT !.status = "queued", !.paid = TRUE]
           hits == IF o.steps[Searched] \in Unsearched THEN 0 ELSE HitsFound
<1>1. /\ o.steps \in [Orderable -> StepStates \cup {"absent"}] /\ hits \in Nat
  BY BillingAssumption DEF BilledOrder
<1>2. /\ queued \in BilledOrder /\ queued.status = "queued" /\ queued.steps = o.steps
      /\ queued.payer = o.payer /\ queued.credit = o.credit /\ queued.price = o.price
  BY DEF BilledOrder, OrderStates
<1> HIDE DEF queued
<1>3. PaidOrder(o) = [queued EXCEPT !.status = "completed", !.steps = RunSteps(o.steps), !.hits = hits]
  BY <1>2 DEF PaidOrder, RunOrder, Unsearched, queued
<1> HIDE DEF hits
<1>4. /\ PaidOrder(o) \in BilledOrder /\ PaidOrder(o).status = "completed"
      /\ PaidOrder(o).steps = RunSteps(o.steps) /\ PaidOrder(o).hits = hits
      /\ PaidOrder(o).payer = o.payer /\ PaidOrder(o).credit = o.credit
      /\ PaidOrder(o).price = o.price
  <2>1. RunSteps(o.steps) \in [Orderable -> StepStates \cup {"absent"}]
    BY <1>1, StepsRunOnce
  <2> QED
    BY <1>1, <1>2, <1>3, <2>1 DEF BilledOrder, OrderStates
<1>5. /\ RunSteps(o.steps)[Searched] \in Unsearched <=> o.steps[Searched] \in Unsearched
      /\ RunSteps(RunSteps(o.steps)) = RunSteps(o.steps)
  BY <1>1, StepsRunOnce
<1>6. RunOnce(PaidOrder(o))
  BY <1>4, <1>5 DEF RunOnce, hits
<1>7. ASSUME RunOnce(o) PROVE SameOrder(o, PaidOrder(o))
  BY <1>4, <1>7 DEF RunOnce, SameOrder, hits
<1> QED
  BY <1>4, <1>6, <1>7

\* markInvoicePaid pays, and loses no note.
LEMMA PaidInvoiceIs ==
    ASSUME NEW i \in BilledInvoice, NEW note \in {"none", "checkout", "operator"}
    PROVE  /\ PaidInvoice(i, note) \in BilledInvoice /\ PaidInvoice(i, note).status = "paid"
           /\ SameInvoice(i, PaidInvoice(i, note))
  BY DEF PaidInvoice, BilledInvoice, InvoiceStates, SameInvoice

\* A new order is one that was not run, of what the catalog offers.
LEMMA NewOrderIs ==
    ASSUME BillingBase, NEW p \in Payers, NEW scopes \in ScopeLists, NEW credit \in BOOLEAN
    PROVE  /\ NewOrder(p, scopes, credit) \in BilledOrder
           /\ NewOrder(p, scopes, credit).payer = p
           /\ NewOrder(p, scopes, credit).credit = credit
           /\ NewOrder(p, scopes, credit).status =
                  IF credit THEN "queued" ELSE "awaiting_payment"
           /\ ~credit => NewOrder(p, scopes, credit).price = Quote(scopes)
<1>1. Quote(scopes) \in Amounts /\ 0 \in Amounts
  BY QuoteIsAmount DEF Amounts
<1>2. NewSteps(scopes) \in [Orderable -> StepStates \cup {"absent"}]
  BY DEF NewSteps, StepStates
<1> QED
  BY <1>1, <1>2 DEF NewOrder, BilledOrder, OrderStates

\* An order on credit is run as it is made.
LEMMA CreditOrderIs ==
    ASSUME BillingBase, NEW p \in Payers, NEW scopes \in ScopeLists
    PROVE  LET o == RunOrder(NewOrder(p, scopes, TRUE))
           IN  /\ o \in BilledOrder /\ o.payer = p /\ o.credit /\ RunOnce(o)
<1> DEFINE new == NewOrder(p, scopes, TRUE)
           hits == IF new.steps[Searched] \in Unsearched THEN 0 ELSE HitsFound
<1>1. new \in BilledOrder /\ new.payer = p /\ new.credit = TRUE /\ new.status = "queued"
  BY NewOrderIs
<1> HIDE DEF new
<1>2. /\ new.steps \in [Orderable -> StepStates \cup {"absent"}] /\ hits \in Nat
  BY <1>1, BillingAssumption DEF BilledOrder
<1>3. RunOrder(new) = [new EXCEPT !.status = "completed", !.steps = RunSteps(new.steps), !.hits = hits]
  BY <1>1 DEF RunOrder, Unsearched
<1> HIDE DEF hits
<1>4. /\ RunSteps(new.steps) \in [Orderable -> StepStates \cup {"absent"}]
      /\ RunSteps(new.steps)[Searched] \in Unsearched <=> new.steps[Searched] \in Unsearched
      /\ RunSteps(RunSteps(new.steps)) = RunSteps(new.steps)
  BY <1>2, StepsRunOnce
<1>5. /\ RunOrder(new) \in BilledOrder /\ RunOrder(new).payer = p /\ RunOrder(new).credit = TRUE
      /\ RunOrder(new).steps = RunSteps(new.steps) /\ RunOrder(new).hits = hits
  BY <1>1, <1>2, <1>3, <1>4 DEF BilledOrder, OrderStates
<1>6. RunOnce(RunOrder(new))
  BY <1>4, <1>5 DEF RunOnce, hits
<1> QED
  BY <1>5, <1>6 DEF new

-------------------------------------------------------------------------------
\* The two sequences, each with the type of its members.
Books(os, is) ==
    /\ os \in Seq(BilledOrder) /\ is \in Seq(BilledInvoice)
    /\ OrdersBilled(os, is) /\ BilledOnce(os, is)

\* What is asked for order n is paid.
SettledOrder(n, os, is) ==
    ~os[n].credit => \A i \in DOMAIN is : is[i].order = n => is[i].status = "paid"

\* Whatever pays an invoice, once or again, leaves the books as they were otherwise.
LEMMA InvoiceIsPaid ==
    ASSUME NEW os, NEW is, Books(os, is), NEW i \in DOMAIN is,
           NEW note \in {"none", "checkout", "operator"}
    PROVE  LET nis == [is EXCEPT ![i] = PaidInvoice(is[i], note)]
           IN  /\ Books(os, nis) /\ InvoicesKept(is, nis)
               /\ DOMAIN nis = DOMAIN is /\ nis[i].status = "paid"
<1> DEFINE nis == [is EXCEPT ![i] = PaidInvoice(is[i], note)]
<1>1. /\ is \in Seq(BilledInvoice) /\ is[i] \in BilledInvoice
      /\ OrdersBilled(os, is) /\ BilledOnce(os, is) /\ os \in Seq(BilledOrder)
  BY DEF Books
<1>2. /\ PaidInvoice(is[i], note) \in BilledInvoice /\ PaidInvoice(is[i], note).status = "paid"
      /\ SameInvoice(is[i], PaidInvoice(is[i], note))
  BY <1>1, PaidInvoiceIs
<1>3. nis \in Seq(BilledInvoice) /\ DOMAIN nis = DOMAIN is /\ nis[i].status = "paid"
  BY <1>1, <1>2
<1>4. \A j \in DOMAIN is : SameInvoice(is[j], nis[j])
  BY <1>1, <1>2 DEF SameInvoice
<1> HIDE DEF nis
<1>5. OrdersBilled(os, nis)
  BY <1>1, <1>3, <1>4 DEF OrdersBilled, Bills, SameInvoice
<1>6. BilledOnce(os, nis)
  BY <1>1, <1>3, <1>4 DEF BilledOnce, SameInvoice
<1> QED
  BY <1>1, <1>3, <1>4, <1>5, <1>6 DEF Books, InvoicesKept, nis

\* An order whose invoice is paid, or that is on credit, may be run, and run again.
LEMMA OrderIsRun ==
    ASSUME NEW os, NEW is, Books(os, is), NEW n \in DOMAIN os,
           SettledOrder(n, os, is)
    PROVE  LET nos == [os EXCEPT ![n] = PaidOrder(os[n])]
           IN  /\ Books(nos, is) /\ OrdersKept(os, nos)
               /\ DOMAIN nos = DOMAIN os /\ nos[n].status = "completed"
<1> DEFINE nos == [os EXCEPT ![n] = PaidOrder(os[n])]
<1>1. /\ is \in Seq(BilledInvoice) /\ os[n] \in BilledOrder
      /\ OrdersBilled(os, is) /\ BilledOnce(os, is) /\ os \in Seq(BilledOrder)
  BY DEF Books
<1>2. /\ PaidOrder(os[n]) \in BilledOrder /\ PaidOrder(os[n]).status = "completed"
      /\ RunOnce(PaidOrder(os[n])) /\ SameOrder(os[n], PaidOrder(os[n]))
  BY <1>1, PaidOrderIs DEF OrdersBilled
<1>3. /\ nos \in Seq(BilledOrder) /\ DOMAIN nos = DOMAIN os /\ nos[n].status = "completed"
      /\ RunOnce(nos[n]) /\ \A m \in DOMAIN os : m # n => nos[m] = os[m]
  BY <1>1, <1>2
<1>4. \A m \in DOMAIN os : SameOrder(os[m], nos[m])
  BY <1>1, <1>2 DEF SameOrder
<1> HIDE DEF nos
<1>5. OrdersBilled(nos, is)
  <2> SUFFICES ASSUME NEW m \in DOMAIN os
               PROVE  /\ RunOnce(nos[m])
                      /\ ~nos[m].credit => \E i \in DOMAIN is : Bills(i, m, is, nos)
    BY <1>3 DEF OrdersBilled
  <2>1. CASE m # n
    BY <1>1, <1>3, <2>1 DEF OrdersBilled, Bills
  <2>2. CASE m = n
    <3>1. RunOnce(nos[m])
      BY <1>3, <2>2
    <3>2. ASSUME ~nos[n].credit PROVE \E i \in DOMAIN is : Bills(i, n, is, nos)
      <4>1. ~os[n].credit
        BY <1>4, <3>2 DEF SameOrder
      <4>2. PICK i \in DOMAIN is : Bills(i, n, is, os)
        BY <1>1, <4>1 DEF OrdersBilled
      <4> QED
        BY <1>4, <4>1, <4>2 DEF Bills, SameOrder, SettledOrder
    <3> QED
      BY <2>2, <3>1, <3>2
  <2> QED
    BY <2>1, <2>2
<1>6. BilledOnce(nos, is)
  BY <1>1, <1>3 DEF BilledOnce
<1> QED
  BY <1>1, <1>3, <1>4, <1>5, <1>6 DEF Books, OrdersKept, nos

\* An order on credit comes without an invoice.
LEMMA CreditOrderAdded ==
    ASSUME NEW os, NEW is, Books(os, is), NEW o \in BilledOrder, o.credit, RunOnce(o)
    PROVE  Books(Append(os, o), is) /\ OrdersKept(os, Append(os, o))
<1> DEFINE nos == Append(os, o)
<1>1. /\ os \in Seq(BilledOrder) /\ OrdersBilled(os, is) /\ BilledOnce(os, is)
      /\ is \in Seq(BilledInvoice)
  BY DEF Books
<1>2. /\ nos \in Seq(BilledOrder) /\ DOMAIN nos = DOMAIN os \cup {Len(os) + 1}
      /\ nos[Len(os) + 1] = o /\ \A n \in DOMAIN os : nos[n] = os[n]
  BY <1>1
<1> HIDE DEF nos
<1>3. OrdersBilled(nos, is)
  BY <1>1, <1>2 DEF OrdersBilled, Bills
<1>4. BilledOnce(nos, is)
  BY <1>1, <1>2 DEF BilledOnce
<1>5. OrdersKept(os, nos)
  BY <1>2 DEF OrdersKept, SameOrder
<1> QED
  BY <1>1, <1>2, <1>3, <1>4, <1>5 DEF Books, nos

\* Any other comes with its own.
LEMMA BilledOrderAdded ==
    ASSUME NEW os, NEW is, Books(os, is), NEW o \in BilledOrder, RunOnce(o),
           NEW i \in BilledInvoice, i.order = Len(os) + 1, i.payer = o.payer, i.amount = o.price,
           o.status = "completed" => i.status = "paid"
    PROVE  /\ Books(Append(os, o), Append(is, i))
           /\ OrdersKept(os, Append(os, o)) /\ InvoicesKept(is, Append(is, i))
<1> DEFINE nos == Append(os, o)
           nis == Append(is, i)
           n == Len(os) + 1
           k == Len(is) + 1
<1>1. /\ os \in Seq(BilledOrder) /\ OrdersBilled(os, is) /\ BilledOnce(os, is)
      /\ is \in Seq(BilledInvoice)
  BY DEF Books
<1>2. /\ nos \in Seq(BilledOrder) /\ DOMAIN nos = DOMAIN os \cup {n}
      /\ nos[n] = o /\ \A m \in DOMAIN os : nos[m] = os[m]
      /\ n \notin DOMAIN os /\ n # NoRef
  BY <1>1 DEF NoRef
<1>3. /\ nis \in Seq(BilledInvoice) /\ DOMAIN nis = DOMAIN is \cup {k}
      /\ nis[k] = i /\ \A m \in DOMAIN is : nis[m] = is[m]
  BY <1>1
<1>4. i.order = n
  OBVIOUS
<1> HIDE DEF nos, nis, n, k
<1>5. OrdersBilled(nos, nis)
  <2> SUFFICES ASSUME NEW m \in DOMAIN nos
               PROVE  /\ RunOnce(nos[m])
                      /\ ~nos[m].credit => \E j \in DOMAIN nis : Bills(j, m, nis, nos)
    BY DEF OrdersBilled
  <2>1. CASE m \in DOMAIN os
    <3>1. RunOnce(nos[m])
      BY <1>1, <1>2, <2>1 DEF OrdersBilled
    <3>2. ASSUME ~os[m].credit PROVE \E j \in DOMAIN nis : Bills(j, m, nis, nos)
      <4>1. PICK j \in DOMAIN is : Bills(j, m, is, os)
        BY <1>1, <2>1, <3>2 DEF OrdersBilled
      <4> QED
        BY <1>2, <1>3, <2>1, <4>1 DEF Bills
    <3> QED
      BY <1>2, <2>1, <3>1, <3>2
  <2>2. CASE m = n
    <3>1. RunOnce(nos[m])
      BY <1>2, <2>2
    <3>2. k \in DOMAIN nis /\ Bills(k, n, nis, nos)
      BY <1>2, <1>3, <1>4 DEF Bills
    <3> QED
      BY <2>2, <3>1, <3>2
  <2> QED
    BY <1>2, <2>1, <2>2
<1>6. BilledOnce(nos, nis)
  BY <1>1, <1>2, <1>3, <1>4 DEF BilledOnce
<1>7. OrdersKept(os, nos) /\ InvoicesKept(is, nis)
  BY <1>2, <1>3 DEF OrdersKept, SameOrder, InvoicesKept, SameInvoice
<1> QED
  BY <1>1, <1>2, <1>3, <1>5, <1>6, <1>7 DEF Books, nos, nis

-------------------------------------------------------------------------------
OnCredit(p, os) == {n \in DOMAIN os : os[n].payer = p /\ os[n].credit}

\* Credits are conserved by a step that makes no order on credit.
LEMMA CreditsStay ==
    ASSUME NEW os, NEW nos, OrdersKept(os, nos),
           \A n \in DOMAIN nos \ DOMAIN os : ~nos[n].credit
    PROVE  \A p : OnCredit(p, nos) = OnCredit(p, os)
  BY DEF OrdersKept, SameOrder, OnCredit

\* And by one that makes one for each it takes.
LEMMA CreditTaken ==
    ASSUME NEW os \in Seq(BilledOrder), NEW o \in BilledOrder, o.credit, NEW p \in Payers
    PROVE  Cardinality(OnCredit(p, Append(os, o))) =
               Cardinality(OnCredit(p, os)) + IF p = o.payer THEN 1 ELSE 0
<1> DEFINE n == Len(os) + 1
           nos == Append(os, o)
<1>1. /\ n \notin DOMAIN os /\ DOMAIN nos = DOMAIN os \cup {n} /\ nos[n] = o
      /\ \A m \in DOMAIN os : nos[m] = os[m]
  OBVIOUS
<1>2. IsFiniteSet(OnCredit(p, os)) /\ Cardinality(OnCredit(p, os)) \in Nat
  <2>1. 1 \in Int /\ Len(os) \in Int /\ DOMAIN os = 1..Len(os)
    OBVIOUS
  <2>2. IsFiniteSet(DOMAIN os)
    BY <2>1, FS_Interval
  <2>3. OnCredit(p, os) \subseteq DOMAIN os
    BY DEF OnCredit
  <2> QED
    BY <2>2, <2>3, FS_Subset, FS_CardinalityType
<1> HIDE DEF n, nos
<1>3. CASE p = o.payer
  <2>1. OnCredit(p, nos) = OnCredit(p, os) \cup {n}
    BY <1>1, <1>3 DEF OnCredit
  <2>2. n \notin OnCredit(p, os)
    BY <1>1 DEF OnCredit
  <2>3. Cardinality(OnCredit(p, os) \cup {n}) = Cardinality(OnCredit(p, os)) + 1
    BY <1>2, <2>2, FS_AddElement
  <2>4. (IF p = o.payer THEN 1 ELSE 0) = 1
    BY <1>3
  <2> QED
    BY <1>2, <2>1, <2>3, <2>4 DEF nos
<1>4. CASE p # o.payer
  <2>1. OnCredit(p, nos) = OnCredit(p, os)
    BY <1>1, <1>4 DEF OnCredit
  <2> QED
    BY <1>2, <1>4, <2>1 DEF nos
<1> QED
  BY <1>3, <1>4

-------------------------------------------------------------------------------
LEMMA BooksOfInv == BooksInv => Books(orders, invoices)
  BY DEF BooksInv, BillingBase, Books

\* A step that keeps the books, makes no order on credit and adds sessions and requests that
\* agree with the books keeps the invariant.
LEMMA BooksStep ==
    ASSUME BooksInv, listed' \in Catalog, credits' = credits, Books(orders', invoices'),
           OrdersKept(orders, orders'), InvoicesKept(invoices, invoices'),
           \A n \in DOMAIN orders' \ DOMAIN orders : ~orders'[n].credit,
           sessions' \in Seq(BilledSession), checkouts' \in Seq(BilledCheckout),
           \A s \in DOMAIN sessions' :
               \/ \E t \in DOMAIN sessions : sessions'[s] = sessions[t]
               \/ SessionOK(sessions'[s], orders', invoices'),
           \A k \in DOMAIN checkouts' :
               \/ \E j \in DOMAIN checkouts : checkouts'[k] = checkouts[j]
               \/ CheckoutOK(checkouts'[k], orders', invoices')
    PROVE  BooksInv'
<1>1. BillingBase'
  BY DEF BooksInv, BillingBase, Books
<1>2. \A p : OnCredit(p, orders') = OnCredit(p, orders)
  BY CreditsStay
<1>3. CreditsConserved'
  BY <1>2 DEF BooksInv, CreditsConserved, OnCredit
<1>4. OrdersBilled(orders', invoices') /\ BilledOnce(orders', invoices')
  BY DEF Books
<1>5. \A s \in DOMAIN sessions' : SessionOK(sessions'[s], orders', invoices')
  BY KeptServes DEF BooksInv
<1>6. \A k \in DOMAIN checkouts' : CheckoutOK(checkouts'[k], orders', invoices')
  BY KeptServes DEF BooksInv
<1> QED
  BY <1>1, <1>3, <1>4, <1>5, <1>6 DEF BooksInv

\* What every step does to the books.
BooksKept == OrdersKept(orders, orders') /\ InvoicesKept(invoices, invoices')

LEMMA OrderOnCreditKeeps ==
    ASSUME BooksInv, NEW p \in Payers, NEW scopes \in ScopeLists, OrderOnCredit(p, scopes)
    PROVE  BooksInv' /\ BooksKept
<1> DEFINE o == RunOrder(NewOrder(p, scopes, TRUE))
<1>1. o \in BilledOrder /\ o.payer = p /\ o.credit /\ RunOnce(o)
  BY CreditOrderIs DEF BooksInv
<1>2. /\ orders' = Append(orders, o)
      /\ credits' = [credits EXCEPT ![p].balance = credits[p].balance - 1,
                                    ![p].used = credits[p].used + 1]
      /\ credits[p].balance > 0
      /\ UNCHANGED <<listed, invoices, sessions, checkouts>>
  BY DEF OrderOnCredit, UsesCredit
<1> HIDE DEF o
<1>3. /\ listed \in Catalog /\ credits \in [Payers -> [balance : Nat, used : Nat]]
      /\ orders \in Seq(BilledOrder) /\ invoices \in Seq(BilledInvoice)
      /\ sessions \in Seq(BilledSession) /\ checkouts \in Seq(BilledCheckout)
      /\ CreditsConserved
  BY DEF BooksInv, BillingBase
<1>4. Books(orders', invoices') /\ OrdersKept(orders, orders') /\ InvoicesKept(invoices, invoices')
  BY <1>1, <1>2, BooksOfInv, CreditOrderAdded, NothingLost
<1>5. /\ credits' \in [Payers -> [balance : Nat, used : Nat]]
      /\ credits'[p].balance = credits[p].balance - 1 /\ credits'[p].used = credits[p].used + 1
      /\ \A q \in Payers : q # p => credits'[q] = credits[q]
  <2>1. credits[p] \in [balance : Nat, used : Nat]
    BY <1>3
  <2>2. credits[p].balance - 1 \in Nat /\ credits[p].used + 1 \in Nat
    BY <1>2, <2>1
  <2>3. credits' = [credits EXCEPT ![p] =
                       [balance |-> credits[p].balance - 1, used |-> credits[p].used + 1]]
    <3> DEFINE between == [credits EXCEPT ![p].balance = credits[p].balance - 1]
    <3>1. /\ between \in [Payers -> [balance : Nat, used : Nat]]
          /\ between[p] = [balance |-> credits[p].balance - 1, used |-> credits[p].used]
          /\ \A q \in Payers : q # p => between[q] = credits[q]
      BY <1>3, <2>1, <2>2
    <3>2. credits' = [between EXCEPT ![p].used = credits[p].used + 1]
      BY <1>2
    <3> HIDE DEF between
    <3>3. credits' = [between EXCEPT ![p] =
                         [balance |-> credits[p].balance - 1, used |-> credits[p].used + 1]]
      <4>1. [between[p] EXCEPT !.used = credits[p].used + 1] =
                [balance |-> credits[p].balance - 1, used |-> credits[p].used + 1]
        BY <2>1, <3>1
      <4>2. credits' = [between EXCEPT ![p] = [between[p] EXCEPT !.used = credits[p].used + 1]]
        BY <3>1, <3>2
      <4> QED
        BY <4>1, <4>2, Zenon
    <3> QED
      BY <1>3, <3>1, <3>3
  <2> QED
    BY <1>3, <2>2, <2>3
<1>6. CreditsConserved'
  <2> SUFFICES ASSUME NEW q \in Payers
               PROVE  /\ credits'[q].balance + credits'[q].used = FreeCredits
                      /\ credits'[q].used = Cardinality(OnCredit(q, orders'))
    BY DEF CreditsConserved, OnCredit
  <2>1. /\ credits[q].balance + credits[q].used = FreeCredits
        /\ credits[q].used = Cardinality(OnCredit(q, orders))
        /\ credits[q].balance \in Nat /\ credits[q].used \in Nat
    BY <1>3 DEF CreditsConserved, OnCredit
  <2>2. Cardinality(OnCredit(q, orders')) =
            Cardinality(OnCredit(q, orders)) + IF q = o.payer THEN 1 ELSE 0
    BY <1>1, <1>2, <1>3, CreditTaken
  <2>3. CASE q = p
    BY <1>1, <1>5, <2>1, <2>2, <2>3
  <2>4. CASE q # p
    BY <1>1, <1>5, <2>1, <2>2, <2>4
  <2> QED
    BY <2>3, <2>4
<1>7. BillingBase'
  BY <1>2, <1>3, <1>4, <1>5 DEF BillingBase, Books
<1>8. /\ \A s \in DOMAIN sessions' : SessionOK(sessions'[s], orders', invoices')
      /\ \A k \in DOMAIN checkouts' : CheckoutOK(checkouts'[k], orders', invoices')
  BY <1>2, <1>4, KeptServes DEF BooksInv
<1> QED
  BY <1>4, <1>6, <1>7, <1>8 DEF BooksInv, Books, BooksKept

LEMMA OrderForMoneyKeeps ==
    ASSUME BooksInv, NEW p \in Payers, NEW scopes \in ScopeLists, NEW wanted \in BOOLEAN,
           OrderForMoney(p, scopes, wanted)
    PROVE  BooksInv' /\ BooksKept
<1> DEFINE o == NewOrder(p, scopes, FALSE)
           i == ResearchInvoice(p, scopes)
           c == [payer |-> p, purpose |-> "name_research_order", invoice |-> Len(invoices) + 1,
                 order |-> Len(orders) + 1, amount |-> Quote(scopes)]
<1>1. BillingBase /\ Quote(scopes) \in Amounts
  BY QuoteIsAmount DEF BooksInv
<1>2. /\ listed \in Catalog
      /\ orders \in Seq(BilledOrder) /\ invoices \in Seq(BilledInvoice)
      /\ sessions \in Seq(BilledSession) /\ checkouts \in Seq(BilledCheckout)
  BY <1>1 DEF BillingBase
<1>3. /\ o \in BilledOrder /\ o.payer = p /\ o.credit = FALSE /\ o.status = "awaiting_payment"
      /\ o.price = Quote(scopes) /\ RunOnce(o)
  BY <1>1, NewOrderIs DEF RunOnce
<1>4. /\ i \in BilledInvoice /\ i.order = Len(orders) + 1 /\ i.payer = p
      /\ i.amount = Quote(scopes)
  BY <1>1, <1>2 DEF ResearchInvoice, BilledInvoice, InvoiceStates
<1>5. /\ c \in BilledCheckout /\ c.order = Len(orders) + 1 /\ c.invoice = Len(invoices) + 1
      /\ c.amount = Quote(scopes) /\ c.purpose = "name_research_order"
  BY <1>1, <1>2 DEF BilledCheckout, Purposes
<1>6. /\ orders' = Append(orders, o) /\ invoices' = Append(invoices, i)
      /\ checkouts' = Append(checkouts, c) /\ UNCHANGED <<listed, credits, sessions>>
  BY DEF OrderForMoney
<1> HIDE DEF o, i, c
<1>7. /\ Books(orders', invoices')
      /\ OrdersKept(orders, orders') /\ InvoicesKept(invoices, invoices')
  BY <1>3, <1>4, <1>6, BooksOfInv, BilledOrderAdded
<1>8. /\ checkouts' \in Seq(BilledCheckout)
      /\ \A k \in DOMAIN checkouts' : checkouts'[k] = c \/ \E j \in DOMAIN checkouts : checkouts'[k] = checkouts[j]
  BY <1>2, <1>5, <1>6
<1>9. CheckoutOK(c, orders', invoices')
  <2>1. /\ Len(orders) + 1 \in DOMAIN orders' /\ orders'[Len(orders) + 1] = o
        /\ Len(invoices) + 1 \in DOMAIN invoices' /\ invoices'[Len(invoices) + 1] = i
    BY <1>2, <1>6
  <2> QED
    BY <1>3, <1>4, <1>5, <2>1 DEF CheckoutOK, AsksForInvoice
<1>10. \A n \in DOMAIN orders' \ DOMAIN orders : ~orders'[n].credit
  BY <1>2, <1>3, <1>6
<1>11. BooksInv'
  BY <1>2, <1>6, <1>7, <1>8, <1>9, <1>10, BooksStep
<1> QED
  BY <1>7, <1>11 DEF BooksKept

LEMMA OrderUnbilledKeeps ==
    ASSUME BooksInv, NEW p \in Payers, NEW scopes \in ScopeLists, NEW wanted \in BOOLEAN,
           OrderUnbilled(p, scopes, wanted)
    PROVE  BooksInv' /\ BooksKept
<1> DEFINE new == NewOrder(p, scopes, FALSE)
           o == PaidOrder(new)
           first == ResearchInvoice(p, scopes)
           i == PaidInvoice(first, "checkout")
<1>1. BillingBase /\ Quote(scopes) \in Amounts
  BY QuoteIsAmount DEF BooksInv
<1>2. /\ listed \in Catalog
      /\ orders \in Seq(BilledOrder) /\ invoices \in Seq(BilledInvoice)
      /\ sessions \in Seq(BilledSession) /\ checkouts \in Seq(BilledCheckout)
  BY <1>1 DEF BillingBase
<1>3. /\ new \in BilledOrder /\ new.payer = p /\ new.credit = FALSE
      /\ new.price = Quote(scopes) /\ RunOnce(new)
  BY <1>1, NewOrderIs DEF RunOnce
<1>4. /\ first \in BilledInvoice /\ first.order = Len(orders) + 1 /\ first.payer = p
      /\ first.amount = Quote(scopes)
  BY <1>1, <1>2 DEF ResearchInvoice, BilledInvoice, InvoiceStates
<1>5. orders' = Append(orders, o) /\ invoices' = Append(invoices, i)
      /\ UNCHANGED <<listed, credits, sessions, checkouts>>
  BY DEF OrderUnbilled
<1> HIDE DEF new, first
<1>6. /\ o \in BilledOrder /\ RunOnce(o) /\ SameOrder(new, o)
  BY <1>3, PaidOrderIs
<1>7. /\ i \in BilledInvoice /\ i.status = "paid" /\ SameInvoice(first, i)
  BY <1>4, PaidInvoiceIs
<1> HIDE DEF o, i
<1>8. /\ Books(orders', invoices')
      /\ OrdersKept(orders, orders') /\ InvoicesKept(invoices, invoices')
  BY <1>3, <1>4, <1>5, <1>6, <1>7, BooksOfInv, BilledOrderAdded DEF SameOrder, SameInvoice
<1>9. \A n \in DOMAIN orders' \ DOMAIN orders : ~orders'[n].credit
  <2>1. o.credit = FALSE
    BY <1>3, <1>6 DEF SameOrder
  <2> QED
    BY <1>2, <1>5, <2>1
<1>10. BooksInv'
  BY <1>2, <1>5, <1>8, <1>9, BooksStep
<1> QED
  BY <1>8, <1>10 DEF BooksKept

\* What changes neither orders nor invoices keeps the books.
LEMMA BooksUntouched ==
    ASSUME BooksInv, UNCHANGED <<orders, invoices>>
    PROVE  /\ Books(orders', invoices') /\ BooksKept
           /\ \A n \in DOMAIN orders' \ DOMAIN orders : ~orders'[n].credit
  BY BooksOfInv, NothingLost DEF BooksKept

LEMMA CheckoutAdded ==
    ASSUME BooksInv, NEW c \in BilledCheckout, CheckoutOK(c, orders, invoices),
           checkouts' = Append(checkouts, c),
           UNCHANGED <<listed, credits, orders, invoices, sessions>>
    PROVE  BooksInv' /\ BooksKept
<1>1. /\ listed \in Catalog /\ sessions \in Seq(BilledSession) /\ checkouts \in Seq(BilledCheckout)
  BY DEF BooksInv, BillingBase
<1>2. /\ checkouts' \in Seq(BilledCheckout)
      /\ \A k \in DOMAIN checkouts' : checkouts'[k] = c \/ \E j \in DOMAIN checkouts : checkouts'[k] = checkouts[j]
  BY <1>1
<1> QED
  BY <1>1, <1>2, BooksUntouched, BooksStep DEF BooksKept

LEMMA PayInvoiceKeeps ==
    ASSUME BooksInv, NEW p \in Payers, NEW n \in DOMAIN invoices, PayInvoice(p, n)
    PROVE  BooksInv' /\ BooksKept
<1> DEFINE c == [payer |-> p, purpose |-> "pay_invoice", invoice |-> n, order |-> NoRef,
                 amount |-> invoices[n].amount]
<1>1. invoices[n] \in BilledInvoice /\ n \in Nat /\ invoices[n].payer = p
  BY DEF BooksInv, BillingBase, PayInvoice
<1>2. c \in BilledCheckout
  BY <1>1 DEF BilledCheckout, BilledInvoice, Purposes, NoRef
<1>3. CheckoutOK(c, orders, invoices)
  BY <1>1 DEF CheckoutOK, AsksForInvoice
<1> QED
  BY <1>2, <1>3, CheckoutAdded DEF PayInvoice

LEMMA AddPaymentMethodKeeps ==
    ASSUME BooksInv, NEW p \in Payers, AddPaymentMethod(p)
    PROVE  BooksInv' /\ BooksKept
<1> DEFINE c == [payer |-> p, purpose |-> "add_payment_method", invoice |-> NoRef,
                 order |-> NoRef, amount |-> 0]
<1>1. c \in BilledCheckout
  BY DEF BilledCheckout, Purposes, NoRef, Amounts
<1>2. CheckoutOK(c, orders, invoices)
  BY DEF CheckoutOK, AsksForInvoice
<1> QED
  BY <1>1, <1>2, CheckoutAdded DEF AddPaymentMethod

LEMMA SessionFailsKeeps ==
    ASSUME BooksInv, NEW k \in DOMAIN checkouts, SessionFails(k)
    PROVE  BooksInv' /\ BooksKept
<1>1. /\ listed \in Catalog /\ sessions \in Seq(BilledSession) /\ checkouts \in Seq(BilledCheckout)
  BY DEF BooksInv, BillingBase
<1>2. /\ checkouts' = RemoveAt(checkouts, k)
      /\ UNCHANGED <<listed, credits, orders, invoices, sessions>>
  BY DEF SessionFails
<1>3. /\ checkouts' \in Seq(BilledCheckout)
      /\ \A j \in DOMAIN checkouts' : \E i \in DOMAIN checkouts : checkouts'[j] = checkouts[i]
  BY <1>1, <1>2, RemovedAt
<1> QED
  BY <1>1, <1>2, <1>3, BooksUntouched, BooksStep DEF BooksKept

LEMMA SessionCreatedKeeps ==
    ASSUME BooksInv, NEW k \in DOMAIN checkouts, SessionCreated(k)
    PROVE  BooksInv' /\ BooksKept
<1> DEFINE c == checkouts[k]
           s == SessionOf(c)
<1>1. /\ listed \in Catalog /\ orders \in Seq(BilledOrder) /\ invoices \in Seq(BilledInvoice)
      /\ sessions \in Seq(BilledSession) /\ checkouts \in Seq(BilledCheckout)
  BY DEF BooksInv, BillingBase
<1>2. /\ sessions' = Append(sessions, s) /\ checkouts' = RemoveAt(checkouts, k)
      /\ UNCHANGED <<listed, credits>>
      /\ c.purpose = "name_research_order" =>
            /\ orders' = [orders EXCEPT ![c.order] = PaidOrder(orders[c.order])]
            /\ invoices' = [invoices EXCEPT ![c.invoice] = PaidInvoice(invoices[c.invoice], "checkout")]
      /\ c.purpose # "name_research_order" => UNCHANGED <<orders, invoices>>
  BY DEF SessionCreated, MarkInvoicePaid
<1>3. c \in BilledCheckout /\ CheckoutOK(c, orders, invoices)
  BY <1>1 DEF BooksInv
<1> HIDE DEF c
<1>4. /\ checkouts' \in Seq(BilledCheckout)
      /\ \A j \in DOMAIN checkouts' : \E i \in DOMAIN checkouts : checkouts'[j] = checkouts[i]
  BY <1>1, <1>2, RemovedAt
<1>5. /\ s \in BilledSession /\ s.purpose = c.purpose /\ s.payer = c.payer
      /\ s.order = c.order /\ s.amount = c.amount
      /\ c.purpose = "pay_invoice" => s.invoice = c.invoice
  BY <1>3 DEF SessionOf, BilledSession, BilledCheckout, NoRef
<1> HIDE DEF s
<1>6. /\ sessions' \in Seq(BilledSession)
      /\ \A t \in DOMAIN sessions' : sessions'[t] = s \/ \E u \in DOMAIN sessions : sessions'[t] = sessions[u]
  BY <1>1, <1>2, <1>5
<1>7. CASE c.purpose # "name_research_order"
  <2>1. UNCHANGED <<orders, invoices>>
    BY <1>2, <1>7
  <2>2. SessionOK(s, orders', invoices')
    BY <1>3, <1>5, <1>7, <2>1 DEF SessionOK, CheckoutOK, AsksForInvoice
  <2>3. /\ Books(orders', invoices') /\ BooksKept
        /\ \A n \in DOMAIN orders' \ DOMAIN orders : ~orders'[n].credit
    BY <2>1, BooksUntouched
  <2> QED
    BY <1>1, <1>2, <1>4, <1>6, <2>2, <2>3, BooksStep DEF BooksKept
<1>8. CASE c.purpose = "name_research_order"
  <2>1. /\ c.order \in DOMAIN orders /\ c.amount = orders[c.order].price
        /\ c.invoice \in DOMAIN invoices /\ invoices[c.invoice].order = c.order
    BY <1>3, <1>8 DEF CheckoutOK
  <2>2. /\ orders' = [orders EXCEPT ![c.order] = PaidOrder(orders[c.order])]
        /\ invoices' = [invoices EXCEPT ![c.invoice] = PaidInvoice(invoices[c.invoice], "checkout")]
    BY <1>2, <1>8
  <2>3. /\ Books(orders, invoices') /\ InvoicesKept(invoices, invoices')
        /\ DOMAIN invoices' = DOMAIN invoices /\ invoices'[c.invoice].status = "paid"
    BY <2>1, <2>2, BooksOfInv, InvoiceIsPaid
  <2>4. ASSUME NEW i \in DOMAIN invoices', invoices'[i].order = c.order
        PROVE  invoices'[i].status = "paid"
    <3>1. invoices'[c.invoice].order = c.order
      BY <2>1, <2>3 DEF InvoicesKept, SameInvoice
    <3>2. c.order # NoRef
      BY <1>1, <2>1 DEF NoRef
    <3>3. i = c.invoice
      BY <2>1, <2>3, <2>4, <3>1, <3>2 DEF Books, BilledOnce
    <3> QED
      BY <2>3, <3>3
  <2>5. /\ Books(orders', invoices') /\ OrdersKept(orders, orders')
        /\ DOMAIN orders' = DOMAIN orders /\ orders'[c.order].status = "completed"
    <3>1. SettledOrder(c.order, orders, invoices')
      BY <2>4 DEF SettledOrder
    <3> QED
      <4>1. Books(orders, invoices') /\ c.order \in DOMAIN orders
        BY <2>1, <2>3
      <4> QED
        BY <2>2, <3>1, <4>1, OrderIsRun
  <2>6. SessionOK(s, orders', invoices')
    BY <1>5, <1>8, <2>1, <2>5 DEF SessionOK, AsksForInvoice, OrdersKept, SameOrder
  <2>7. BooksInv'
    BY <1>1, <1>2, <1>4, <1>6, <2>3, <2>5, <2>6, BooksStep
  <2> QED
    BY <2>3, <2>5, <2>7 DEF BooksKept
<1> QED
  BY <1>7, <1>8

\* Paying an invoice, by whichever of the three ways.
LEMMA MarkedPaidKeeps ==
    ASSUME BooksInv, NEW n \in DOMAIN invoices, NEW note \in {"none", "checkout", "operator"},
           MarkInvoicePaid(n, note), UNCHANGED <<listed, credits, orders, sessions, checkouts>>
    PROVE  BooksInv' /\ BooksKept
<1>1. invoices' = [invoices EXCEPT ![n] = PaidInvoice(invoices[n], note)]
  BY DEF MarkInvoicePaid
<1>2. Books(orders', invoices') /\ InvoicesKept(invoices, invoices')
  BY <1>1, BooksOfInv, InvoiceIsPaid
<1>3. OrdersKept(orders, orders')
  BY NothingLost
<1>4. listed \in Catalog /\ sessions \in Seq(BilledSession) /\ checkouts \in Seq(BilledCheckout)
  BY DEF BooksInv, BillingBase
<1>5. BooksInv'
  BY <1>2, <1>3, <1>4, BooksStep
<1> QED
  BY <1>2, <1>3, <1>5 DEF BooksKept

LEMMA CustomerPaysKeeps ==
    ASSUME BooksInv, NEW s \in DOMAIN sessions, CustomerPays(s)
    PROVE  BooksInv' /\ BooksKept
<1>1. listed \in Catalog /\ sessions \in Seq(BilledSession) /\ checkouts \in Seq(BilledCheckout)
  BY DEF BooksInv, BillingBase
<1>2. /\ sessions' = [sessions EXCEPT ![s].paid = TRUE]
      /\ UNCHANGED <<listed, credits, orders, invoices, checkouts>>
  BY DEF CustomerPays
<1> DEFINE t == [sessions[s] EXCEPT !.paid = TRUE]
<1>3. sessions[s] \in BilledSession
  BY <1>1
<1>4. /\ t \in BilledSession /\ t.purpose = sessions[s].purpose /\ t.payer = sessions[s].payer
      /\ t.order = sessions[s].order /\ t.amount = sessions[s].amount
      /\ t.invoice = sessions[s].invoice
  BY <1>3 DEF BilledSession
<1>5. sessions' = [sessions EXCEPT ![s] = t]
  BY <1>1, <1>2
<1> HIDE DEF t
<1>6. /\ sessions' \in Seq(BilledSession)
      /\ \A u \in DOMAIN sessions' : sessions'[u] = t \/ \E v \in DOMAIN sessions : sessions'[u] = sessions[v]
  BY <1>1, <1>4, <1>5
<1>7. SessionOK(t, orders', invoices')
  BY <1>2, <1>4 DEF BooksInv, SessionOK, AsksForInvoice
<1> QED
  BY <1>1, <1>2, <1>6, <1>7, BooksUntouched, BooksStep DEF BooksKept

LEMMA EditCatalogKeeps ==
    ASSUME BooksInv, NEW r \in Orderable, NEW entry \in CatalogEntries, EditCatalog(r, entry)
    PROVE  BooksInv' /\ BooksKept
<1>1. listed \in Catalog /\ sessions \in Seq(BilledSession) /\ checkouts \in Seq(BilledCheckout)
  BY DEF BooksInv, BillingBase
<1>2. /\ listed' = [listed EXCEPT ![r] = entry]
      /\ UNCHANGED <<credits, orders, invoices, sessions, checkouts>>
  BY DEF EditCatalog
<1>3. listed' \in Catalog
  BY <1>1, <1>2, BillingAssumption DEF Catalog
<1> QED
  BY <1>1, <1>2, <1>3, BooksUntouched, BooksStep DEF BooksKept

LEMMA ApplyWebhookKeeps ==
    ASSUME BooksInv, NEW s \in DOMAIN sessions, ApplyWebhook(s)
    PROVE  BooksInv' /\ BooksKept
<1> DEFINE event == sessions[s]
<1>1. listed \in Catalog /\ sessions \in Seq(BilledSession) /\ checkouts \in Seq(BilledCheckout)
  BY DEF BooksInv, BillingBase
<1>2. SessionOK(event, orders, invoices)
  BY DEF BooksInv
<1>3. /\ event.purpose = "pay_invoice" => MarkInvoicePaid(event.invoice, "none")
      /\ event.purpose # "pay_invoice" => UNCHANGED invoices
      /\ event.purpose = "name_research_order" =>
             orders' = [orders EXCEPT ![event.order] = PaidOrder(orders[event.order])]
      /\ event.purpose # "name_research_order" => UNCHANGED orders
      /\ UNCHANGED <<listed, credits, sessions, checkouts>>
  BY DEF ApplyWebhook
<1> HIDE DEF event
<1>4. CASE event.purpose = "pay_invoice"
  BY <1>2, <1>3, <1>4, MarkedPaidKeeps DEF SessionOK, AsksForInvoice
<1>5. CASE event.purpose = "name_research_order"
  <2>1. event.order \in DOMAIN orders /\ orders[event.order].status = "completed"
    BY <1>2, <1>5 DEF SessionOK
  <2>2. ASSUME ~orders[event.order].credit,
               NEW i \in DOMAIN invoices, invoices[i].order = event.order
        PROVE  invoices[i].status = "paid"
    <3>1. PICK j \in DOMAIN invoices : Bills(j, event.order, invoices, orders)
      BY <2>1, <2>2 DEF BooksInv, OrdersBilled
    <3>2. event.order # NoRef
      BY <2>1 DEF BooksInv, BillingBase, NoRef
    <3>3. i = j
      BY <2>2, <3>1, <3>2 DEF BooksInv, BilledOnce, Bills
    <3> QED
      BY <2>1, <3>1, <3>3 DEF Bills
  <2>3. orders' = [orders EXCEPT ![event.order] = PaidOrder(orders[event.order])] /\ UNCHANGED invoices
    BY <1>3, <1>5
  <2>4. /\ Books(orders', invoices') /\ OrdersKept(orders, orders') /\ DOMAIN orders' = DOMAIN orders
    <3>1. SettledOrder(event.order, orders, invoices)
      BY <2>2, Zenon DEF SettledOrder
    <3>2. Books(orders, invoices)
      BY BooksOfInv
    <3>3. Books(orders', invoices)
      BY <2>1, <2>3, <3>1, <3>2, OrderIsRun
    <3>4. OrdersKept(orders, orders') /\ DOMAIN orders' = DOMAIN orders
      BY <2>1, <2>3, <3>1, <3>2, OrderIsRun
    <3> QED
      BY <2>3, <3>3, <3>4
  <2>5. InvoicesKept(invoices, invoices')
    BY <2>3, NothingLost
  <2>6. BooksInv'
    BY <1>1, <1>3, <2>4, <2>5, BooksStep
  <2> QED
    BY <2>4, <2>5, <2>6 DEF BooksKept
<1>6. CASE event.purpose \notin {"pay_invoice", "name_research_order"}
  <2>1. UNCHANGED <<listed, credits, orders, invoices, sessions, checkouts>>
    BY <1>3, <1>6
  <2> QED
    BY <1>1, <2>1, BooksUntouched, BooksStep DEF BooksKept
<1> QED
  BY <1>4, <1>5, <1>6

-------------------------------------------------------------------------------
LEMMA BillingInitInv == BillingInit => BooksInv
<1> SUFFICES ASSUME BillingInit PROVE BooksInv
  OBVIOUS
<1> DEFINE seed(p) == [payer |-> p, status |-> "open", amount |-> FirstPrice,
                       order |-> NoRef, note |-> "none"]
           seeds == {seed(p) : p \in Payers}
<1>1. IsFiniteSet(seeds)
  <2>1. IsFiniteSet(Payers)
    BY BillingAssumption
  <2> DEFINE f == [p \in Payers |-> seed(p)]
  <2>2. f \in Surjection(Payers, seeds)
    BY DEF Surjection
  <2> HIDE DEF f, seeds
  <2> QED
    BY <2>1, <2>2, FS_Surjection
<1>2. seeds \subseteq BilledInvoice /\ \A i \in seeds : i.order = NoRef
  BY BillingAssumption DEF BilledInvoice, InvoiceStates, Amounts, NoRef
<1> HIDE DEF seeds
<1>3. SetToSeq(seeds) \in Seq(seeds)
  BY <1>1, SequenceOf
<1>4. /\ orders = <<>> /\ invoices = SetToSeq(seeds) /\ sessions = <<>> /\ checkouts = <<>>
      /\ credits = [p \in Payers |-> [balance |-> FreeCredits, used |-> 0]]
      /\ listed \in Catalog
  BY BillingAssumption DEF BillingInit, seeds, Catalog, ConnectorStates
<1>5. invoices \in Seq(BilledInvoice) /\ \A i \in DOMAIN invoices : invoices[i].order = NoRef
  BY <1>2, <1>3, <1>4
<1>6. BillingBase
  BY <1>4, <1>5, BillingAssumption DEF BillingBase
<1>7. CreditsConserved
  <2> SUFFICES ASSUME NEW p \in Payers
               PROVE  /\ credits[p].balance + credits[p].used = FreeCredits
                      /\ credits[p].used = Cardinality(OnCredit(p, orders))
    BY DEF CreditsConserved, OnCredit
  <2>1. OnCredit(p, orders) = {}
    BY <1>4 DEF OnCredit
  <2> QED
    <3>1. Cardinality(OnCredit(p, orders)) = 0
      BY <2>1, FS_EmptySet
    <3> QED
      BY <1>4, <3>1, BillingAssumption
<1>8. OrdersBilled(orders, invoices) /\ BilledOnce(orders, invoices)
  BY <1>4, <1>5 DEF OrdersBilled, BilledOnce
<1> QED
  BY <1>4, <1>6, <1>7, <1>8 DEF BooksInv

LEMMA BillingNextInv == BooksInv /\ [BillingNext]_billingVars => BooksInv' /\ BooksKept
<1> SUFFICES ASSUME BooksInv, [BillingNext]_billingVars
             PROVE  BooksInv' /\ BooksKept
  OBVIOUS
<1>1. CASE UNCHANGED billingVars
  <2>1. UNCHANGED <<listed, credits, orders, invoices, sessions, checkouts>>
    BY <1>1 DEF billingVars
  <2>2. BooksInv'
    BY <2>1 DEF BooksInv, BillingBase, CreditsConserved
  <2> QED
    BY <2>1, <2>2, BooksUntouched
<1>2. ASSUME NEW p \in Payers, NEW scopes \in ScopeLists, OrderOnCredit(p, scopes)
      PROVE  BooksInv' /\ BooksKept
  BY <1>2, OrderOnCreditKeeps
<1>3. ASSUME NEW p \in Payers, NEW scopes \in ScopeLists, NEW wanted \in BOOLEAN,
             OrderForMoney(p, scopes, wanted) \/ OrderUnbilled(p, scopes, wanted)
      PROVE  BooksInv' /\ BooksKept
  BY <1>3, OrderForMoneyKeeps, OrderUnbilledKeeps
<1>4. ASSUME NEW p \in Payers, NEW n \in DOMAIN invoices, PayInvoice(p, n)
      PROVE  BooksInv' /\ BooksKept
  BY <1>4, PayInvoiceKeeps
<1>5. ASSUME NEW p \in Payers, NEW n \in DOMAIN invoices, DemoCheckout(p, n)
      PROVE  BooksInv' /\ BooksKept
  BY <1>5, MarkedPaidKeeps DEF DemoCheckout
<1>6. ASSUME NEW p \in Payers, AddPaymentMethod(p) PROVE BooksInv' /\ BooksKept
  BY <1>6, AddPaymentMethodKeeps
<1>7. ASSUME NEW k \in DOMAIN checkouts, SessionCreated(k) \/ SessionFails(k)
      PROVE  BooksInv' /\ BooksKept
  BY <1>7, SessionCreatedKeeps, SessionFailsKeeps
<1>8. ASSUME NEW n \in DOMAIN invoices, OperatorMarksPaid(n) PROVE BooksInv' /\ BooksKept
  BY <1>8, MarkedPaidKeeps DEF OperatorMarksPaid
<1>9. ASSUME NEW r \in Orderable, NEW entry \in CatalogEntries, EditCatalog(r, entry)
      PROVE  BooksInv' /\ BooksKept
  BY <1>9, EditCatalogKeeps
<1>10. ASSUME NEW s \in DOMAIN sessions, CustomerPays(s) \/ ApplyWebhook(s)
       PROVE  BooksInv' /\ BooksKept
  BY <1>10, CustomerPaysKeeps, ApplyWebhookKeeps
<1> QED
  BY <1>1, <1>2, <1>3, <1>4, <1>5, <1>6, <1>7, <1>8, <1>9, <1>10 DEF BillingNext

LEMMA BillingInvariant == BillingSpec => []BooksInv
  BY BillingInitInv, BillingNextInv, PTL DEF BillingSpec

\* Whatever order credits, checkouts, edits of the catalog and payments come in, credits are
\* conserved, a research is billed once and as quoted, and what is delivered is paid.
THEOREM BooksAlwaysClose == BillingSpec => []BooksClose
<1>1. BooksInv => BooksClose
  <2> SUFFICES ASSUME BooksInv PROVE BilledAsQuoted /\ DeliveredIsPaid
    BY DEF BooksInv, BooksClose
  <2>1. ASSUME NEW n \in DOMAIN orders, ~orders[n].credit
        PROVE  \E i \in DOMAIN invoices :
                   /\ Bills(i, n, invoices, orders)
                   /\ {j \in DOMAIN invoices : invoices[j].order = n} = {i}
    <3>1. PICK i \in DOMAIN invoices : Bills(i, n, invoices, orders)
      BY <2>1 DEF BooksInv, OrdersBilled
    <3>2. n # NoRef
      BY <2>1 DEF BooksInv, BillingBase, NoRef
    <3>3. \A j \in DOMAIN invoices : invoices[j].order = n => j = i
      BY <3>1, <3>2 DEF BooksInv, BilledOnce, Bills
    <3> QED
      BY <3>1, <3>3 DEF Bills
  <2>2. DeliveredIsPaid
    BY <2>1 DEF DeliveredIsPaid, Bills
  <2>3. ASSUME NEW n \in DOMAIN orders, ~orders[n].credit
        PROVE  LET own == {i \in DOMAIN invoices : invoices[i].order = n} IN
               /\ Cardinality(own) = 1
               /\ \A i \in own : /\ invoices[i].payer = orders[n].payer
                                 /\ invoices[i].amount = orders[n].price
    <3>1. PICK i \in DOMAIN invoices :
              /\ Bills(i, n, invoices, orders)
              /\ {j \in DOMAIN invoices : invoices[j].order = n} = {i}
      BY <2>1, <2>3
    <3>2. Cardinality({i}) = 1
      BY FS_Singleton
    <3> QED
      BY <3>1, <3>2 DEF Bills
  <2>4. ASSUME NEW s \in ToSet(sessions) \cup ToSet(checkouts)
        PROVE  /\ s.purpose = "name_research_order" => s.amount = orders[s.order].price
               /\ s.purpose = "pay_invoice" =>
                     s.amount = invoices[s.invoice].amount /\ s.payer = invoices[s.invoice].payer
    <3>1. SessionOK(s, orders, invoices) \/ CheckoutOK(s, orders, invoices)
      BY <2>4 DEF ToSet, BooksInv
    <3> QED
      BY <3>1 DEF SessionOK, CheckoutOK, AsksForInvoice
  <2> QED
    BY <2>2, <2>3, <2>4 DEF BilledAsQuoted
<1> QED
  BY <1>1, BillingInvariant, PTL

\* Repeated, late and reordered events and payments undo nothing.
THEOREM RepeatsUndoNothing == BillingSpec => RepeatsAreHarmless
<1> DEFINE Harmless ==
        /\ \A i \in DOMAIN invoices :
             /\ invoices[i].status = "paid" => invoices'[i].status = "paid"
             /\ invoices[i].note # "none" => invoices'[i].note # "none"
        /\ \A n \in DOMAIN orders : orders[n].status = "completed" =>
             /\ orders'[n].status = "completed"
             /\ orders'[n].steps = orders[n].steps /\ orders'[n].hits = orders[n].hits
<1>1. BooksInv /\ [BillingNext]_billingVars => [Harmless]_billingVars
  BY BillingNextInv DEF BooksKept, OrdersKept, InvoicesKept, SameOrder, SameInvoice
<1> QED
  BY <1>1, BillingInvariant, PTL DEF BillingSpec, RepeatsAreHarmless

--------------------------------------------------------------------------------
(***************************************************************************)
(* The parts of the composition.  A behaviour of it is one of every        *)
(* component: the component whose part it is takes its own steps, and any  *)
(* other stays as it starts, which is a stuttering step of it.  What is    *)
(* proved of a component's own specification is so true of the             *)
(* composition, whatever the constants.                                    *)
(***************************************************************************)
LEMMA AiPart == Spec => AssessSpec
<1>1. Init => AssessInit  BY DEF Init
<1>2. [Next]_servicesVars => [AssessNext]_assessVars
  BY DEF Next, servicesVars, InAi, InToken, InConnector, InCockpit, InTenancy, InWeights, InText,
         InRisk, InWindow, InVat, InBilling, assessVars
<1> QED  BY <1>1, <1>2, PTL DEF Spec, AssessSpec

LEMMA TokenPart == Spec => TokenSpec
<1>1. Init => TokenInit  BY DEF Init
<1>2. [Next]_servicesVars => [TokenNext]_tokenVars
  BY DEF Next, servicesVars, InAi, InToken, InConnector, InCockpit, InTenancy, InWeights, InText,
         InRisk, InWindow, InVat, InBilling, tokenVars
<1> QED  BY <1>1, <1>2, PTL DEF Spec, TokenSpec

LEMMA ConnectorPart == Spec => ConnectorSpec
<1>1. Init => ConnectorInit  BY DEF Init
<1>2. [Next]_servicesVars => [ConnectorNext]_connectorVars
  BY DEF Next, servicesVars, InAi, InToken, InConnector, InCockpit, InTenancy, InWeights, InText,
         InRisk, InWindow, InVat, InBilling, connectorVars
<1> QED  BY <1>1, <1>2, PTL DEF Spec, ConnectorSpec

LEMMA CockpitPart == Spec => CockpitSpec
<1>1. Init => CockpitInit  BY DEF Init
<1>2. [Next]_servicesVars => [CockpitNext]_cockpitVars
  BY DEF Next, servicesVars, InAi, InToken, InConnector, InCockpit, InTenancy, InWeights, InText,
         InRisk, InWindow, InVat, InBilling, cockpitVars
<1> QED  BY <1>1, <1>2, PTL DEF Spec, CockpitSpec

LEMMA TenancyPart == Spec => TenancySpec
<1>1. Init => TenancyInit  BY DEF Init
<1>2. [Next]_servicesVars => [TenancyNext]_tenancyVars
  BY DEF Next, servicesVars, InAi, InToken, InConnector, InCockpit, InTenancy, InWeights, InText,
         InRisk, InWindow, InVat, InBilling, tenancyVars
<1> QED  BY <1>1, <1>2, PTL DEF Spec, TenancySpec

LEMMA WeightsPart == Spec => WeightsSpec
<1>1. Init => WeightsInit  BY DEF Init
<1>2. [Next]_servicesVars => [WeightsNext]_weightVars
  BY DEF Next, servicesVars, InAi, InToken, InConnector, InCockpit, InTenancy, InWeights, InText,
         InRisk, InWindow, InVat, InBilling, weightVars
<1> QED  BY <1>1, <1>2, PTL DEF Spec, WeightsSpec

LEMMA TextPart == Spec => [](left \in Names /\ right \in Names)
<1>1. Init => left \in Names /\ right \in Names  BY NamesCompared DEF Init
<1>2. left \in Names /\ right \in Names /\ [Next]_servicesVars => (left \in Names /\ right \in Names)'
  <2> SUFFICES ASSUME left \in Names, right \in Names, [Next]_servicesVars
               PROVE  left' \in Names /\ right' \in Names
    OBVIOUS
  <2>1. TextNext \/ UNCHANGED textVars
    BY DEF Next, servicesVars, InAi, InToken, InConnector, InCockpit, InTenancy, InWeights, InText,
           InRisk, InWindow, InVat, InBilling
  <2> QED  BY <2>1, NamesCompared DEF textVars
<1> QED  BY <1>1, <1>2, PTL DEF Spec

LEMMA RiskPart == Spec => RiskSpec
<1>1. Init => RiskInit  BY DEF Init
<1>2. [Next]_servicesVars => [RiskNext]_riskVars
  BY DEF Next, servicesVars, InAi, InToken, InConnector, InCockpit, InTenancy, InWeights, InText,
         InRisk, InWindow, InVat, InBilling, riskVars
<1> QED  BY <1>1, <1>2, PTL DEF Spec, RiskSpec

LEMMA WindowPart == Spec => WindowSpec
<1>1. Init => WindowInit  BY DEF Init
<1>2. [Next]_servicesVars => [WindowNext]_windowVars
  BY DEF Next, servicesVars, InAi, InToken, InConnector, InCockpit, InTenancy, InWeights, InText,
         InRisk, InWindow, InVat, InBilling, windowVars
<1> QED  BY <1>1, <1>2, PTL DEF Spec, WindowSpec

LEMMA VatPart == Spec => VatSpec
<1>1. Init => VatInit  BY DEF Init
<1>2. [Next]_servicesVars => [VatNext]_vatVars
  BY DEF Next, servicesVars, InAi, InToken, InConnector, InCockpit, InTenancy, InWeights, InText,
         InRisk, InWindow, InVat, InBilling, vatVars
<1> QED  BY <1>1, <1>2, PTL DEF Spec, VatSpec

LEMMA BillingPart == Spec => BillingSpec
<1>1. Init => BillingInit  BY DEF Init
<1>2. [Next]_servicesVars => [BillingNext]_billingVars
  BY DEF Next, servicesVars, InAi, InToken, InConnector, InCockpit, InTenancy, InWeights, InText,
         InRisk, InWindow, InVat, InBilling, billingVars
<1> QED  BY <1>1, <1>2, PTL DEF Spec, BillingSpec

-------------------------------------------------------------------------------
(***************************************************************************)
(* The amounts of a bill are numbers: what the catalog quotes is a sum of  *)
(* prices.                                                                 *)
(***************************************************************************)
LEMMA QuoteIsNatural ==
    ASSUME NEW prices \in Catalog, NEW scopes \in ScopeLists
    PROVE  QuoteAt(prices, scopes) \in Nat
<1> DEFINE S == DOMAIN scopes  f == [i \in S |-> prices[scopes[i]].price]
<1>1. scopes \in Seq(Orderable)  BY BillingAssumption
<1>2. S = 1..Len(scopes) /\ Len(scopes) \in Nat  BY <1>1
<1>3. IsFiniteSet(S)  BY <1>2, FS_Interval
<1>4. f \in [S -> Nat]  BY <1>1 DEF Catalog
<1> HIDE DEF S, f
<1>5. SumFunction(f) \in Nat  BY <1>3, <1>4, SumOfNaturals
<1> QED  BY <1>5 DEF QuoteAt, S, f

LEMMA AmountsAreNatural == Amounts = Nat
  BY QuoteIsNatural DEF Amounts

\* Invoices, orders, sessions and checkouts have their types, and so has every amount of them,
\* whatever the catalog asks.
THEOREM BillingTyped == BillingSpec => []BillingTypeOK
<1> DEFINE Rest == provider \in BOOLEAN /\ billingLog \subseteq Nat
<1>1. BillingInit => Rest  BY DEF BillingInit
<1>2. BooksInv /\ Rest /\ [BillingNext]_billingVars => Rest'
  <2> SUFFICES ASSUME BooksInv, Rest, [BillingNext]_billingVars PROVE Rest'  OBVIOUS
  <2>1. CASE \E s \in DOMAIN sessions : ApplyWebhook(s)
    <3>1. DOMAIN sessions \subseteq Nat  BY DEF BooksInv, BillingBase
    <3> QED  BY <2>1, <3>1 DEF ApplyWebhook
  <2>2. CASE UNCHANGED <<provider, billingLog>>  BY <2>2
  <2> QED
    BY <2>1, <2>2
       DEF BillingNext, billingVars, OrderOnCredit, OrderForMoney, OrderUnbilled, PayInvoice,
           DemoCheckout, AddPaymentMethod, SessionCreated, SessionFails, OperatorMarksPaid,
           EditCatalog, CustomerPays
<1>3. BooksInv /\ Rest => BillingTypeOK
  <2> SUFFICES ASSUME BooksInv, Rest PROVE BillingTypeOK  OBVIOUS
  <2>1. ScopeLists \subseteq Seq(Orderable)  BY BillingAssumption
  <2>2. BilledInvoice = Invoice /\ BilledSession = Session /\ BilledCheckout = Checkout
    BY AmountsAreNatural DEF BilledInvoice, Invoice, BilledSession, Session, BilledCheckout, Checkout
  <2>3. BilledOrder \subseteq Order
    BY <2>1, AmountsAreNatural DEF BilledOrder, Order
  <2>4. orders \in Seq(Order)
    <3>1. orders \in Seq(BilledOrder)  BY DEF BooksInv, BillingBase
    <3> QED  BY <2>3, <3>1
  <2> QED  BY <2>2, <2>4 DEF BooksInv, BillingBase, BillingTypeOK
<1> QED  BY <1>1, <1>2, <1>3, BillingInitInv, BillingNextInv, PTL DEF BillingSpec

-------------------------------------------------------------------------------
(***************************************************************************)
(* The composition.                                                        *)
(***************************************************************************)

\* Whatever the services do, each with its own state, all of it has its type.
THEOREM ServicesTyped == Spec => []ServicesTypeOK
<1>1. AssessInv => AssessTypeOK  BY DEF AssessInv
<1>2. TokenInv => TokenTypeOK  BY DEF TokenInv
<1>3. ConnectorInv => ConnectorTypeOK  BY DEF ConnectorInv
<1>4. AssessTypeOK /\ TokenTypeOK /\ ConnectorTypeOK /\ CockpitTypeOK
      /\ TenancyTypeOK /\ WeightsTypeOK /\ WindowTypeOK /\ BillingTypeOK => ServicesTypeOK
  BY DEF ServicesTypeOK
<1> QED
  BY <1>1, <1>2, <1>3, <1>4, AiPart, TokenPart, ConnectorPart, CockpitPart, TenancyPart,
     WeightsPart, WindowPart, BillingPart, AssessInvariant, TokenInvariant, ConnectorInvariant,
     CockpitTyped, TenancyTyped, WeightsTyped, WindowTyped, BillingTyped, PTL

\* Whatever names are compared, each measure is what a reader would define, in every behaviour of
\* the services and rules together: no table loses an edit, a shared run or a symmetry
\* (extractTrademarkFeatures and the measures of text-distance.ts).
THEOREM MeasuresAlwaysHold == Spec => []MeasuresHold
<1>1. left \in Names /\ right \in Names => MeasuresHold  BY NamesMeasured DEF MeasuresHold
<1> QED  BY <1>1, TextPart, PTL

\* The advice depends on the two marks only and is never milder than it was for less, and every
\* deadline is the last day the register gives (assessRiskFromFeatures,
\* calculateOppositionDeadline), in every behaviour of the services and rules together.
THEOREM RulesAlwaysHold == Spec => []RulesHold
<1>1. AdviceSound /\ WindowSound => RulesHold  BY DEF RulesHold
<1> QED  BY <1>1, RiskPart, WindowPart, AdviceIsSound, DeadlinesAreSound, PTL

\* What each service promises, and what no step of it may do.
ServicesSafe ==
    /\ OverrunBounded /\ BearerAlive /\ CursorSkipsNothing /\ CockpitAccounted
    /\ RequestsConfined /\ ScoresHold /\ AmountsAgree /\ BooksClose

\* The budget of assessments, the bearer, the cursor, the cockpit's account, the tenant of a
\* request, the scores, the amounts and the books hold together, and no step of the composition
\* ends a loop early, makes advice milder or undoes a payment.
THEOREM ServicesAreSafe ==
    Spec => []ServicesSafe /\ LoopReadsAll /\ MoreAlikeNeverSafer /\ RepeatsAreHarmless
<1>1. OverrunBounded /\ BearerAlive /\ CursorSkipsNothing /\ CockpitAccounted
      /\ RequestsConfined /\ ScoresHold /\ AmountsAgree /\ BooksClose => ServicesSafe
  BY DEF ServicesSafe
<1>2. Spec => []ServicesSafe
  BY <1>1, AiPart, TokenPart, ConnectorPart, CockpitPart, TenancyPart, WeightsPart, VatPart,
     BillingPart, OverrunsBounded, BearersAlive, CursorsSkipNothing, CockpitIsAccounted,
     RequestsAreConfined, ScoresAlwaysHold, AmountsAlwaysAgree, BooksAlwaysClose, PTL
<1>3. Spec => LoopReadsAll /\ MoreAlikeNeverSafer /\ RepeatsAreHarmless
  BY ConnectorPart, RiskPart, BillingPart, LoopsReadAll, MoreAlikeIsNeverSafer, RepeatsUndoNothing
<1> QED  BY <1>2, <1>3

===============================================================================
