---------------------------------- MODULE Vat ----------------------------------
(***************************************************************************)
(* The amounts of an invoice (packages/domain/src/billing.ts and           *)
(* OrgBillingChatStore.createInvoice), in cents: the Dutch VAT of 21% is   *)
(* computed for each line and the lines are summed, or the one line is     *)
(* made from a price without VAT, or from a legacy price that includes it. *)
(* Rounding is that of Math.round on the exact quotient.                   *)
(***************************************************************************)
EXTENDS Integers

CONSTANTS
    Prices,      \* the prices invoiced
    MaxLines     \* bound: the lines of an invoice

ASSUME VatAssumption == Prices \subseteq Nat /\ MaxLines \in Nat

VARIABLES
    basis,   \* which of the three ways createInvoice takes
    lines,   \* how many lines the invoice has
    items,   \* the sums over its lines
    total    \* what the invoice itself says

vatVars == <<basis, lines, items, total>>

Breakdown == [ex : Nat, btw : Nat, inc : Nat]

\* Mutant: the price with VAT is rounded by itself.
RoundedApart(ex) ==
    [ex |-> ex, btw |-> (21 * ex + 50) \div 100, inc |-> (121 * ex + 99) \div 100]

ComputeNlBtw(ex) ==
    LET btw == (21 * ex + 50) \div 100 IN [ex |-> ex, btw |-> btw, inc |-> ex + btw]

DeriveNlBtwFromIncVat(inc) ==
    LET ex == (200 * inc + 121) \div 242 IN [ex |-> ex, btw |-> inc - ex, inc |-> inc]

\* One step of sumInvoiceLineItems.
Plus(a, b) == [ex |-> a.ex + b.ex, btw |-> a.btw + b.btw, inc |-> a.inc + b.inc]

Invoiced(way, item, sum) ==
    /\ basis = way /\ lines = 1 /\ items = item /\ total = sum

\* createInvoice with one line; the line of a legacy price is made from the derived price, and
\* its VAT computed again.
VatInit ==
    \E p \in Prices :
        \/ Invoiced("lines", ComputeNlBtw(p), ComputeNlBtw(p))
        \/ Invoiced("exVatCents", ComputeNlBtw(p), ComputeNlBtw(p))
        \/ Invoiced("amountCents", ComputeNlBtw(DeriveNlBtwFromIncVat(p).ex),
                                   DeriveNlBtwFromIncVat(p))

\* The same invoice with one line more.
AddLine(p) ==
    /\ basis = "lines" /\ lines < MaxLines
    /\ lines' = lines + 1
    /\ items' = Plus(items, ComputeNlBtw(p))
    /\ total' = Plus(total, ComputeNlBtw(p))
    /\ basis' = basis

VatNext == \E p \in Prices : AddLine(p)

VatSpec == VatInit /\ [][VatNext]_vatVars

-------------------------------------------------------------------------------
\* The parts of an invoice add up to what is paid, and its lines are worth what it says without
\* VAT, whichever way it was made (createInvoice).
PartsAddUp ==
    /\ total.ex + total.btw = total.inc /\ items.ex + items.btw = items.inc
    /\ items.ex = total.ex

\* What the lines ask differs from what the invoice asks by a cent at most, and only where the
\* price came with VAT (deriveNlBtwFromIncVat).
LinesWithinACent ==
    /\ items.inc - total.inc \in -1..1
    /\ basis # "amountCents" => items = total

\* The VAT is 21% to half a cent for each line (computeNlBtw rounds every line).
VatNearRate == 100 * items.btw - 21 * items.ex \in -(50 * lines)..(50 * lines)

\* A price that was invoiced with its VAT is found again from that amount, so that backfilling
\* legacy invoices changes none of them (deriveNlBtwFromIncVat).
BackfillExact ==
    basis = "exVatCents" => DeriveNlBtwFromIncVat(total.inc) = total

\* Net, VAT, lines and total are rounded on different paths and still agree.
AmountsAgree == PartsAddUp /\ LinesWithinACent /\ VatNearRate /\ BackfillExact
================================================================================
