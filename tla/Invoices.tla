------------------------------ MODULE Invoices ------------------------------
(***************************************************************************)
(* Invoices, the VAT register and the alerts raised while posting, on top  *)
(* of the ledger.  post_invoice and void_invoice do all their writes in    *)
(* one transaction with the journal entry, so each is one step that also   *)
(* takes the step of Ledger it calls.                                      *)
(*                                                                         *)
(* The state is serialised as in Ledger.  Amounts of stored rows are whole *)
(* halere; a request line carries quantity times unit price in 1/Sub of a  *)
(* haler of its currency.                                                  *)
(***************************************************************************)
EXTENDS Ledger

CONSTANTS
  ManualRequests,   \* line lists clients post directly to the ledger
  InvoiceRequests,  \* invoices a client may send
  Dics,             \* counterparty_dic values
  MalformedDics,    \* those validate_dic_format warns about
  NoDic,            \* counterparty_dic is null
  NoAccount,        \* account_number of a line is null
  VatPeriods,       \* the months DUZP dates fall in
  Symbols,          \* variable symbols
  NoSymbol,         \* variable_symbol is null
  KhThreshold,      \* KH_THRESHOLD_CZK, 10 000 Kc, in halere
  MaxInvoices       \* bound: invoices of a behaviour

VatRates == {0, 12, 21}

\* A DUZP is unremarkable, draws a warning (in the future, or the issue date is
\* too late), or is more than three years old.
Duzp == {"plain", "doubtful", "expired"}

InvoiceLine == [account : Accounts \cup {NoAccount}, net : Nat \ {0}, rate : VatRates]

\* `symbol` is the symbol supplied, or else the digits of the invoice number.
InvoiceRequest ==
  [direction : {"ISSUED", "RECEIVED"}, type : {"STANDARD", "ADVANCE", "PROFORMA"},
   number : Nat, symbol : Symbols \cup {NoSymbol}, dic : Dics \cup {NoDic},
   vatPayer : BOOLEAN, reverseCharge : BOOLEAN, currency : {"CZK", "FX"},
   period : Periods, vatPeriod : VatPeriods, duzp : Duzp, lines : Seq(InvoiceLine)]

----------------------------------------------------------------------------
(* Amounts. *)

\* Net and VAT are rounded to the haler in the currency of the invoice; then
\* net, VAT and gross are each converted and rounded.
LineAmounts(line, rate) ==
  LET net == RoundHalfUp(line.net, Sub)
      vat == RoundHalfUp(net * line.rate, 100)
  IN  [net |-> RoundHalfUp(net * rate, RateScale),
       vat |-> RoundHalfUp(vat * rate, RateScale),
       gross |-> RoundHalfUp((net + vat) * rate, RateScale)]

Amounts(r, rate) == [i \in DOMAIN r.lines |-> LineAmounts(r.lines[i], rate)]

TotalNet(amounts) == MapThenSumSet(LAMBDA i : amounts[i].net, DOMAIN amounts)
TotalVat(amounts) == MapThenSumSet(LAMBDA i : amounts[i].vat, DOMAIN amounts)
TotalGross(amounts) == MapThenSumSet(LAMBDA i : amounts[i].gross, DOMAIN amounts)

----------------------------------------------------------------------------
(* _build_issued_journal_lines and _build_received_journal_lines *)

Leg(account, side, halere) == [account |-> account, side |-> side, amount |-> halere * Sub]

NetLegs(r, amounts, side, default) ==
  [i \in DOMAIN r.lines |->
     Leg(IF r.lines[i].account = NoAccount THEN default ELSE r.lines[i].account,
         side, amounts[i].net)]

VatLegs(amounts, sides) ==
  IF TotalVat(amounts) = 0 THEN <<>>
  ELSE [i \in DOMAIN sides |-> Leg("343", sides[i], TotalVat(amounts))]

IssuedLines(r, amounts) ==
  NetLegs(r, amounts, "CREDIT", "602")
    \o VatLegs(amounts, <<"CREDIT">>)
    \o <<Leg("311", "DEBIT", TotalGross(amounts))>>

ReceivedLines(r, amounts) ==
  NetLegs(r, amounts, "DEBIT", "518")
    \o (IF r.reverseCharge
        THEN VatLegs(amounts, <<"DEBIT", "CREDIT">>)
               \o <<Leg("321", "CREDIT", TotalNet(amounts))>>
        ELSE VatLegs(amounts, <<"DEBIT">>)
               \o <<Leg("321", "CREDIT", TotalGross(amounts))>>)

JournalLines(r, rate) ==
  IF r.direction = "ISSUED" THEN IssuedLines(r, Amounts(r, rate))
                            ELSE ReceivedLines(r, Amounts(r, rate))

\* JournalEntryLineCreate refuses an amount that is not positive: a line whose
\* net amount rounds to 0.00 fails the whole request.
Positive(legs) == \A i \in DOMAIN legs : legs[i].amount > 0

\* The entries invoices post are among the requests the ledger serves.
ASSUME InvoicesAssumption ==
  /\ {"311", "321", "343", "518", "602"} \subseteq Accounts
  /\ ManualRequests \subseteq Requests
  /\ InvoiceRequests \subseteq InvoiceRequest
  /\ MalformedDics \subseteq Dics
  /\ NoDic \notin Dics
  /\ NoAccount \notin Accounts
  /\ KhThreshold \in Nat
  /\ MaxInvoices \in Nat
  /\ \A r \in InvoiceRequests : \A rate \in RatesFor(r.currency) :
       Positive(JournalLines(r, rate)) => JournalLines(r, rate) \in Requests

----------------------------------------------------------------------------
VARIABLES
  invoices,     \* invoices with their lines, in the order they were committed
  vatRegister,  \* vat_register rows
  openAlerts    \* alerts with status "open": the rule and the row it is about

invoiceVars == <<invoices, vatRegister, openAlerts>>
allInvoiceVars == <<vars, invoiceVars>>

Invoice == [request : InvoiceRequests, rate : Nat, status : {"posted", "voided"},
            entry : Nat \ {0}, paid : BOOLEAN]

InvoiceRules == {"MISSING_DIC_10000", "INVALID_DIC_FORMAT", "VAT_DUZP"}

About(table, id) == <<table, id>>

GrossOf(invoice) == TotalGross(Amounts(invoice.request, invoice.rate))

----------------------------------------------------------------------------
(* The VAT register. *)

\* assign_kh_section
Section(r, vat) ==
  IF r.direction = "ISSUED"
  THEN CASE r.type = "ADVANCE" -> "A4"
         [] r.type # "ADVANCE" /\ ~r.vatPayer -> "A3"
         [] r.type # "ADVANCE" /\ r.vatPayer -> IF vat >= KhThreshold THEN "A1" ELSE "A2"
  ELSE CASE r.reverseCharge -> "B1"
         [] ~r.reverseCharge -> IF vat >= KhThreshold THEN "B2" ELSE "B3"

DetailSections == {"A1", "B1", "B2"}

RatesOf(r) == {r.lines[i].rate : i \in DOMAIN r.lines}
LinesAt(r, rate) == {i \in DOMAIN r.lines : r.lines[i].rate = rate}

\* The row of one VAT rate, summed over the lines `at`.
RegisterRow(id, r, amounts, rate, at) ==
  LET section == Section(r, TotalVat(amounts))
  IN  [invoice |-> id, rate |-> rate,
       base |-> MapThenSumSet(LAMBDA i : amounts[i].net, at),
       tax |-> MapThenSumSet(LAMBDA i : amounts[i].vat, at),
       section |-> section, detail |-> section \in DetailSections,
       khSubmitted |-> FALSE, priznaniSubmitted |-> FALSE]

\* Mutant: the totals of a rate are those of its first line.
RegisterRowsOfFirstLine(id, r, amounts) ==
  {RegisterRow(id, r, amounts, rate, {Min(LinesAt(r, rate))}) : rate \in RatesOf(r)}

\* Mutant: the rows are linked to the invoice after this one.
RegisterRowsOfNextInvoice(id, r, amounts) ==
  {RegisterRow(id + 1, r, amounts, rate, LinesAt(r, rate)) : rate \in RatesOf(r)}

\* create_vat_register_entries: one row per VAT rate of the invoice.
RegisterRows(id, r, amounts) ==
  {RegisterRow(id, r, amounts, rate, LinesAt(r, rate)) : rate \in RatesOf(r)}

----------------------------------------------------------------------------
(* The requests. *)

\* validate_duzp: an old received invoice is an error, the rest are warnings.
Deductible(r) == r.direction = "RECEIVED" => r.duzp # "expired"

\* uq_received_invoice_dic_number: two nulls are distinct, a voided invoice is
\* not in the index.
Duplicate(r) ==
  \E i \in DOMAIN invoices :
    /\ r.direction = "RECEIVED" /\ invoices[i].request.direction = "RECEIVED"
    /\ r.dic # NoDic /\ invoices[i].request.dic = r.dic
    /\ invoices[i].request.number = r.number
    /\ invoices[i].status # "voided"

\* scan_invoice.  Its classification step calls classify_transaction with a
\* keyword it does not have: the TypeError is swallowed by post_invoice and no
\* alert of that step is ever raised.
Findings(r, gross) ==
  {rule \in InvoiceRules :
     \/ /\ rule = "MISSING_DIC_10000"
        /\ r.direction = "RECEIVED" /\ r.dic = NoDic /\ gross >= KhThreshold
     \/ rule = "INVALID_DIC_FORMAT" /\ r.dic \in MalformedDics
     \/ rule = "VAT_DUZP" /\ r.duzp = "doubtful"}

PostInvoice(r, rate) ==
  LET id == Len(invoices) + 1
      amounts == Amounts(r, rate)
  IN  /\ Len(invoices) < MaxInvoices
      /\ Deductible(r)
      /\ rate \in RatesFor(r.currency)
      /\ ~Duplicate(r)
      /\ Positive(JournalLines(r, rate))
      /\ PostJournalEntry(JournalLines(r, rate), r.period, "CZK", RateScale)
      /\ invoices' = Append(invoices, [request |-> r, rate |-> rate, status |-> "posted",
                                       entry |-> Len(entries) + 1, paid |-> FALSE])
      /\ vatRegister' = IF r.type = "PROFORMA" THEN vatRegister
                        ELSE vatRegister \cup RegisterRows(id, r, amounts)
      /\ openAlerts' = openAlerts \cup
           {[rule |-> rule, about |-> About("invoice", id)] :
              rule \in Findings(r, TotalGross(amounts))}

\* Mutant: the entry is marked voided instead of being reversed.
VoidInvoiceInPlace(i, p) ==
  /\ invoices[i].status = "posted"
  /\ entries[invoices[i].entry].status = "posted"
  /\ period[p].status = "open"
  /\ Commit(VoidIn(Tables, invoices[i].entry))
  /\ invoices' = [invoices EXCEPT ![i].status = "voided"]
  /\ UNCHANGED <<period, vatRegister, openAlerts>>

\* Mutant: the invoice is voided without its entry.
VoidInvoiceOnly(i, p) ==
  /\ invoices[i].status = "posted"
  /\ period[p].status = "open"
  /\ invoices' = [invoices EXCEPT ![i].status = "voided"]
  /\ UNCHANGED <<vars, vatRegister, openAlerts>>

\* Mutant: the register rows of a voided invoice are deleted.
VoidInvoiceDroppingRows(i, p) ==
  /\ invoices[i].status = "posted"
  /\ ReverseJournalEntry(invoices[i].entry, p, RateScale)
  /\ invoices' = [invoices EXCEPT ![i].status = "voided"]
  /\ vatRegister' = {row \in vatRegister : row.invoice # i}
  /\ UNCHANGED openAlerts

\* The reversal is dated today, which may lie in any period.  The register rows
\* stay; their kh_submitted flag is cleared.
VoidInvoice(i, p) ==
  /\ invoices[i].status = "posted"
  /\ ReverseJournalEntry(invoices[i].entry, p, RateScale)
  /\ invoices' = [invoices EXCEPT ![i].status = "voided"]
  /\ vatRegister' = {IF row.invoice = i THEN [row EXCEPT !.khSubmitted = FALSE] ELSE row :
                       row \in vatRegister}
  /\ UNCHANGED openAlerts

ResolveAlert(alert) ==
  /\ openAlerts' = openAlerts \ {alert}
  /\ UNCHANGED <<vars, invoices, vatRegister>>

----------------------------------------------------------------------------
InvoicesInit ==
  /\ Init
  /\ invoices = <<>>
  /\ vatRegister = {}
  /\ openAlerts = {}

LedgerRequest ==
  /\ PostingRequest(ManualRequests) \/ ReversalRequest \/ PeriodRequest
  /\ UNCHANGED invoiceVars

InvoiceRequested ==
  \/ \E r \in InvoiceRequests : \E rate \in RatesFor(r.currency) : PostInvoice(r, rate)
  \/ \E i \in DOMAIN invoices, p \in Periods : VoidInvoice(i, p)
  \/ \E alert \in openAlerts : ResolveAlert(alert)

InvoicesNext == LedgerRequest \/ InvoiceRequested

InvoicesSpec == InvoicesInit /\ [][InvoicesNext]_allInvoiceVars

----------------------------------------------------------------------------
(* Type invariant. *)

InvoicesTypeOK ==
  /\ invoices \in Seq(Invoice)
  /\ \A i \in DOMAIN invoices : invoices[i].entry \in DOMAIN entries
  /\ \A row \in vatRegister :
       /\ row.invoice \in DOMAIN invoices
       /\ row.rate \in VatRates
       /\ row.base \in Nat /\ row.tax \in Nat
       /\ row.section \in {"A1", "A2", "A3", "A4", "B1", "B2", "B3"}
       /\ {row.detail, row.khSubmitted, row.priznaniSubmitted} \subseteq BOOLEAN
  /\ \A alert \in openAlerts : alert.rule \in InvoiceRules

----------------------------------------------------------------------------
(* Safety. *)

RowsOf(i) == {row \in vatRegister : row.invoice = i}

\* No line of an invoice names the VAT account itself: the journal could not
\* tell its net amount from the tax.
InvoicesLeaveVatAccount ==
  \A r \in InvoiceRequests : \A i \in DOMAIN r.lines : r.lines[i].account # "343"

\* What the VAT returns are computed from agrees with the books: an invoice has
\* one register row per rate (a proforma has none), and together they hold the
\* amounts its journal entry has on 343 and, with the bases, on the whole side
\* opposite to the receivable or payable, to the haler.
RegisterMatchesEntry ==
  \A i \in DOMAIN invoices :
    LET rows == RowsOf(i)
        side == IF invoices[i].request.direction = "ISSUED" THEN "CREDIT" ELSE "DEBIT"
        legs == OnSide(LinesOf(lines, invoices[i].entry), side)
        tax == MapThenSumSet(LAMBDA row : row.tax, rows)
    IN  IF invoices[i].request.type = "PROFORMA" THEN rows = {}
        ELSE /\ \A a, b \in rows : a.rate = b.rate => a = b
             /\ tax = TotalCzk({l \in legs : l.account = "343"})
             /\ tax + MapThenSumSet(LAMBDA row : row.base, rows) = TotalCzk(legs)

\* A voided invoice has left the books by a reversal: its entry is voided and
\* another entry, posted or reversed again since, reverses it; and no two
\* invoices share an entry.  (A posted invoice whose entry was reversed through
\* the journal-entry endpoint is not excluded.)
VoidedInvoiceReversed ==
  \A i \in DOMAIN invoices :
    /\ \A j \in DOMAIN invoices : invoices[i].entry = invoices[j].entry => i = j
    /\ invoices[i].status = "voided" =>
         /\ entries[invoices[i].entry].status = "voided"
         /\ \E e \in DOMAIN entries : entries[e].reverses = invoices[i].entry

\* What of the given rows belongs to the invoices that exist, without the flags.
KnownRows(rows) ==
  {<<row.invoice, row.rate, row.base, row.tax, row.section, row.detail>> :
     row \in {x \in rows : x.invoice \in DOMAIN invoices}}

\* The register is a history: a row keeps everything but its submission flags,
\* also when its invoice is voided, and rows are added for new invoices only.
RegisterRowsKept == [][KnownRows(vatRegister') = KnownRows(vatRegister)]_allInvoiceVars
=============================================================================
