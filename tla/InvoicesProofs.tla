--------------------------- MODULE InvoicesProofs ---------------------------
(***************************************************************************)
(* Proofs about Invoices, in two parts.                                    *)
(*                                                                         *)
(* Every request about an invoice is, for the ledger, one of the requests  *)
(* of Ledger or no request at all.  What is proved of Ledger then holds    *)
(* while invoices are posted and voided.                                   *)
(*                                                                         *)
(* The register and the journal: the stored lines of an entry and the rows *)
(* of an invoice both follow from its request and rate (RegisterStored, an *)
(* inductive invariant), and the sums over the two, one by position and    *)
(* one by VAT rate, are the same.                                          *)
(***************************************************************************)
EXTENDS Invoices, LedgerProofs

\* The journal entry of an invoice is an entry a ledger client may post.
LEMMA PostInvoiceIsPosting ==
  ASSUME NEW r \in InvoiceRequests, NEW rate \in RatesFor(r.currency), TypeOK,
         PostInvoice(r, rate)
  PROVE  PostingRequest(Requests)
<1> DEFINE legs == JournalLines(r, rate)
<1>1. Positive(legs) /\ PostJournalEntry(legs, r.period, "CZK", RateScale)
  BY DEF PostInvoice
<1>2. legs \in Requests
  BY <1>1, InvoicesAssumption
<1>3. r.period \in Periods
  BY InvoicesAssumption DEF InvoiceRequest
<1>4. RateScale \in RatesFor("CZK")
  BY DEF RatesFor
<1> HIDE DEF legs
<1>5. QED
  BY <1>1, <1>2, <1>3, <1>4 DEF PostingRequest

\* Invoices refer to entries of the ledger, and the entries they refer to are
\* in CZK: a reversal by void_invoice is posted at the rate 1.
Linked == \A i \in DOMAIN invoices : invoices[i].entry \in DOMAIN entries
                                     /\ entries[invoices[i].entry].currency = "CZK"

LEMMA VoidInvoiceIsReversal ==
  ASSUME NEW i \in DOMAIN invoices, NEW p \in Periods, Linked, VoidInvoice(i, p)
  PROVE  ReversalRequest
<1> DEFINE id == invoices[i].entry
<1>1. id \in DOMAIN entries /\ RateScale \in RatesFor(entries[id].currency)
  BY DEF Linked, RatesFor
<1>2. ReverseJournalEntry(id, p, RateScale)
  BY DEF VoidInvoice
<1> HIDE DEF id
<1>3. QED
  BY <1>1, <1>2 DEF ReversalRequest

\* Every step of the system with invoices is a step of the ledger or leaves it
\* as it is.
LEMMA InvoicesStepIsLedgerStep ==
  ASSUME TypeOK, Linked, [InvoicesNext]_allInvoiceVars
  PROVE  [Next]_vars
<1>1. CASE UNCHANGED allInvoiceVars
  BY <1>1 DEF allInvoiceVars
<1>2. CASE LedgerRequest
  <2>1. PostingRequest(ManualRequests) => PostingRequest(Requests)
    BY InvoicesAssumption DEF PostingRequest
  <2>2. QED
    BY <1>2, <2>1 DEF LedgerRequest, Next
<1>3. CASE InvoiceRequested
  <2>1. ASSUME NEW r \in InvoiceRequests, NEW rate \in RatesFor(r.currency),
               PostInvoice(r, rate)
        PROVE  Next
    BY <2>1, PostInvoiceIsPosting DEF Next
  <2>2. ASSUME NEW i \in DOMAIN invoices, NEW p \in Periods, VoidInvoice(i, p)
        PROVE  Next
    BY <2>2, VoidInvoiceIsReversal DEF Next
  <2>3. ASSUME NEW alert \in openAlerts, ResolveAlert(alert)
        PROVE  UNCHANGED vars
    BY <2>3 DEF ResolveAlert
  <2>4. QED
    BY <1>3, <2>1, <2>2, <2>3 DEF InvoiceRequested
<1>4. QED
  BY <1>1, <1>2, <1>3 DEF InvoicesNext

-----------------------------------------------------------------------------
(* The invariant of the table of invoices. *)

\* A reversed entry has an entry that reverses it.
IsReversed(es, id) ==
  /\ es[id].status = "voided"
  /\ \E e \in DOMAIN es : es[e].reverses = id

InvoicesLinked ==
  /\ invoices \in Seq(Invoice)
  /\ Linked
  /\ \A i, j \in DOMAIN invoices : invoices[i].entry = invoices[j].entry => i = j
  /\ \A i \in DOMAIN invoices :
       invoices[i].status = "voided" => IsReversed(entries, invoices[i].entry)

\* A step of the ledger keeps an entry, its currency and its reversal.
LEMMA LedgerStepKeeps ==
  ASSUME TypedAndConsistent, [Next]_vars, NEW e \in DOMAIN entries
  PROVE  /\ e \in DOMAIN entries'
         /\ entries'[e].currency = entries[e].currency
         /\ IsReversed(entries, e) => IsReversed(entries', e)
<1>1. entries \in Seq(Entry)
  BY DEF TypedAndConsistent, TypeOK
<1>2. \A x \in DOMAIN entries : entries[x] \in Entry
  BY <1>1
<1>3. \A x \in DOMAIN entries :
        /\ x \in DOMAIN entries'
        /\ entries'[x] \in {entries[x], [entries[x] EXCEPT !.status = "voided"]}
  BY StepKeepsHistory DEF HistoryKept
<1>4. \A x \in DOMAIN entries :
        /\ entries'[x].currency = entries[x].currency
        /\ entries'[x].reverses = entries[x].reverses
        /\ entries[x].status = "voided" => entries'[x].status = "voided"
  BY <1>2, <1>3 DEF Entry
<1>5. QED
  BY <1>3, <1>4 DEF IsReversed

\* What is said of invoices that do not change survives any step of the ledger.
LEMMA UnchangedInvoicesLinked ==
  ASSUME TypedAndConsistent, InvoicesLinked, [Next]_vars, UNCHANGED invoices
  PROVE  InvoicesLinked'
<1>1. ASSUME NEW i \in DOMAIN invoices
      PROVE  /\ invoices[i].entry \in DOMAIN entries'
             /\ entries'[invoices[i].entry].currency = "CZK"
             /\ invoices[i].status = "voided" => IsReversed(entries', invoices[i].entry)
  BY LedgerStepKeeps DEF InvoicesLinked, Linked
<1>2. QED
  BY <1>1 DEF InvoicesLinked, Linked

LEMMA PostInvoiceLinked ==
  ASSUME TypedAndConsistent, InvoicesLinked, NEW r \in InvoiceRequests,
         NEW rate \in RatesFor(r.currency), PostInvoice(r, rate)
  PROVE  InvoicesLinked'
<1> DEFINE n == Len(invoices) + 1
           k == Len(entries) + 1
           x == [request |-> r, rate |-> rate, status |-> "posted", entry |-> k,
                 paid |-> FALSE]
<1>1. /\ entries \in Seq(Entry) /\ invoices \in Seq(Invoice) /\ TypeOK
      /\ k \in Nat \ {0} /\ n \in Nat \ {0}
  BY DEF TypedAndConsistent, TypeOK, InvoicesLinked
<1>2. [Next]_vars
  BY <1>1, PostInvoiceIsPosting DEF Next
<1>3. invoices' = Append(invoices, x)
  BY DEF PostInvoice
<1>4. \E y : entries' = Append(entries, y) /\ y.currency = "CZK"
  BY DEF PostInvoice, PostJournalEntry, Commit, PostTo, Tables
<1>5. k \in DOMAIN entries' /\ entries'[k].currency = "CZK" /\ k \notin DOMAIN entries
  BY <1>1, <1>4
<1>6. x \in Invoice /\ x.entry = k /\ x.status = "posted"
  BY <1>1, RateType DEF Invoice
<1> HIDE DEF x, k
<1>7. /\ invoices' \in Seq(Invoice)
      /\ DOMAIN invoices' = 1 .. n /\ DOMAIN invoices = 1 .. n - 1
      /\ invoices'[n] = x /\ \A i \in 1 .. n - 1 : invoices'[i] = invoices[i]
  BY <1>1, <1>3, <1>6
<1> HIDE DEF n
<1>8. ASSUME NEW i \in 1 .. n - 1
      PROVE  /\ invoices'[i] = invoices[i]
             /\ invoices[i].entry \in DOMAIN entries
             /\ invoices[i].entry \in DOMAIN entries'
             /\ entries'[invoices[i].entry].currency = "CZK"
             /\ invoices[i].status = "voided" => IsReversed(entries', invoices[i].entry)
  BY <1>2, <1>7, LedgerStepKeeps DEF InvoicesLinked, Linked
<1>9. \A i \in 1 .. n : i = n \/ i \in 1 .. n - 1
  BY <1>1
<1>10. Linked'
  BY <1>5, <1>6, <1>7, <1>8, <1>9 DEF Linked
<1>11. \A i, j \in DOMAIN invoices' : invoices'[i].entry = invoices'[j].entry => i = j
  BY <1>5, <1>6, <1>7, <1>8, <1>9 DEF InvoicesLinked
<1>12. \A i \in DOMAIN invoices' :
         invoices'[i].status = "voided" => IsReversed(entries', invoices'[i].entry)
  BY <1>6, <1>7, <1>8, <1>9
<1>13. QED
  BY <1>7, <1>10, <1>11, <1>12 DEF InvoicesLinked

LEMMA VoidInvoiceLinked ==
  ASSUME TypedAndConsistent, InvoicesLinked, NEW i \in DOMAIN invoices, NEW p \in Periods,
         VoidInvoice(i, p)
  PROVE  InvoicesLinked'
<1> DEFINE id == invoices[i].entry
<1>1. entries \in Seq(Entry) /\ invoices \in Seq(Invoice) /\ id \in DOMAIN entries
  BY DEF TypedAndConsistent, TypeOK, InvoicesLinked, Linked
<1>2. [Next]_vars
  BY VoidInvoiceIsReversal DEF Next, InvoicesLinked
<1>3. \A j \in DOMAIN invoices : invoices[j] \in Invoice
  BY <1>1
<1>4. /\ invoices' \in Seq(Invoice) /\ DOMAIN invoices' = DOMAIN invoices
      /\ \A j \in DOMAIN invoices :
           /\ invoices'[j].entry = invoices[j].entry
           /\ j # i => invoices'[j] = invoices[j]
  <2>1. invoices' = [invoices EXCEPT ![i].status = "voided"]
    BY DEF VoidInvoice
  <2>2. [invoices[i] EXCEPT !.status = "voided"] \in Invoice
    BY <1>3 DEF Invoice
  <2>3. QED
    BY <1>1, <1>3, <2>1, <2>2 DEF Invoice
<1>5. IsReversed(entries', id)
  <2> DEFINE x == [period |-> p, status |-> "posted", type |-> "REVERSAL",
                   reverses |-> id, currency |-> entries[id].currency]
             k == Len(entries) + 1
  <2>1. entries' = [Append(entries, x) EXCEPT ![id].status = "voided"]
    BY ReversedEntries DEF VoidInvoice, ReverseJournalEntry, Commit
  <2>2. x.reverses = id
    OBVIOUS
  <2> HIDE DEF x, id
  <2>3. /\ DOMAIN Append(entries, x) = 1 .. k /\ Append(entries, x)[k] = x
        /\ id \in 1 .. k - 1 /\ k \in Nat
    BY <1>1
  <2>4. entries[id] \in Entry /\ Append(entries, x)[id] = entries[id]
    BY <1>1
  <2> HIDE DEF k
  <2>5. k \in DOMAIN entries' /\ entries'[k] = x /\ entries'[id].status = "voided"
    <3>1. id \in 1 .. k /\ id # k /\ k \in 1 .. k
      BY <2>3
    <3>2. QED
      BY <2>1, <2>3, <2>4, <3>1 DEF Entry
  <2>6. QED
    BY <2>2, <2>5 DEF IsReversed, id
<1>6. ASSUME NEW j \in DOMAIN invoices
      PROVE  /\ invoices[j].entry \in DOMAIN entries'
             /\ entries'[invoices[j].entry].currency = "CZK"
             /\ invoices[j].status = "voided" => IsReversed(entries', invoices[j].entry)
  BY <1>2, LedgerStepKeeps DEF InvoicesLinked, Linked
<1>7. \A j \in DOMAIN invoices' :
        invoices'[j].status = "voided" => IsReversed(entries', invoices'[j].entry)
  BY <1>4, <1>5, <1>6
<1>8. QED
  BY <1>4, <1>6, <1>7 DEF InvoicesLinked, Linked

-----------------------------------------------------------------------------
InvoicesInv == TypedAndConsistent /\ InvoicesLinked

LEMMA InvoicesInvInit == InvoicesInit => InvoicesInv
BY TypedInit DEF InvoicesInit, InvoicesInv, InvoicesLinked, Linked

LEMMA InvoicesInvStep == InvoicesInv /\ [InvoicesNext]_allInvoiceVars => InvoicesInv'
<1> SUFFICES ASSUME InvoicesInv, [InvoicesNext]_allInvoiceVars PROVE InvoicesInv'
  OBVIOUS
<1>1. TypedAndConsistent /\ TypeOK /\ InvoicesLinked /\ Linked
  BY DEF InvoicesInv, InvoicesLinked, TypedAndConsistent
<1>2. [Next]_vars
  BY <1>1, InvoicesStepIsLedgerStep
<1>3. TypedAndConsistent'
  BY <1>1, <1>2, TypedStep
<1>4. InvoicesLinked'
  <2>1. CASE UNCHANGED invoices
    BY <1>1, <1>2, <2>1, UnchangedInvoicesLinked
  <2>2. ASSUME NEW r \in InvoiceRequests, NEW rate \in RatesFor(r.currency),
               PostInvoice(r, rate)
        PROVE  InvoicesLinked'
    BY <1>1, <2>2, PostInvoiceLinked
  <2>3. ASSUME NEW i \in DOMAIN invoices, NEW p \in Periods, VoidInvoice(i, p)
        PROVE  InvoicesLinked'
    BY <1>1, <2>3, VoidInvoiceLinked
  <2>4. QED
    BY <2>1, <2>2, <2>3
    DEF InvoicesNext, InvoiceRequested, LedgerRequest, ResolveAlert, allInvoiceVars,
        invoiceVars
<1>5. QED
  BY <1>3, <1>4 DEF InvoicesInv

\* The invoicing system implements the ledger: post_invoice and void_invoice
\* reach the books only through post_journal_entry and reverse_journal_entry.
THEOREM InvoicesImplementLedger == InvoicesSpec => Spec
<1>1. InvoicesInit => Init
  BY DEF InvoicesInit
<1>2. InvoicesInv /\ [InvoicesNext]_allInvoiceVars => [Next]_vars
  BY InvoicesStepIsLedgerStep DEF InvoicesInv, InvoicesLinked, TypedAndConsistent
<1>3. QED
  BY <1>1, <1>2, InvoicesInvInit, InvoicesInvStep, PTL DEF InvoicesSpec, Spec

\* Hence the balances stay true to the posted lines while invoices are posted
\* and voided, by the theorem about Ledger.
THEOREM InvoicedBalancesCorrect == InvoicesSpec => []BalancesMatchLedger
BY InvoicesImplementLedger, BalancesCorrect, PTL

\* A voided invoice has an entry that is voided and reversed, and no two
\* invoices share an entry, for any invoices, accounts and rates.
THEOREM VoidingReverses == InvoicesSpec => []VoidedInvoiceReversed
<1>1. InvoicesInv => VoidedInvoiceReversed
  BY DEF InvoicesInv, InvoicesLinked, IsReversed, VoidedInvoiceReversed
<1>2. QED
  BY <1>1, InvoicesInvInit, InvoicesInvStep, PTL DEF InvoicesSpec

-----------------------------------------------------------------------------
(* The VAT register. *)

RegisterColumns == {"invoice", "rate", "base", "tax", "section", "detail"}
RegisterInv == \A row \in vatRegister : RegisterColumns \subseteq DOMAIN row

LEMMA RowColumnsOfRegister ==
  ASSUME NEW id, NEW r, NEW amounts, NEW row \in RegisterRows(id, r, amounts)
  PROVE  RegisterColumns \subseteq DOMAIN row /\ row.invoice = id
<1>1. PICK rate : row = RegisterRow(id, r, amounts, rate, LinesAt(r, rate))
  BY DEF RegisterRows
<1>2. ASSUME NEW base, NEW tax, NEW section, NEW detail, NEW x,
             x = [invoice |-> id, rate |-> rate, base |-> base, tax |-> tax,
                  section |-> section, detail |-> detail,
                  khSubmitted |-> FALSE, priznaniSubmitted |-> FALSE]
      PROVE  RegisterColumns \subseteq DOMAIN x /\ x.invoice = id
  BY <1>2 DEF RegisterColumns
<1>3. QED
  BY <1>1, <1>2 DEF RegisterRow

\* A row whose flag is cleared keeps its other columns.
LEMMA FlagCleared ==
  ASSUME NEW row, RegisterColumns \subseteq DOMAIN row
  PROVE  LET new == [row EXCEPT !.khSubmitted = FALSE]
         IN  /\ DOMAIN new = DOMAIN row
             /\ \A c \in RegisterColumns : new[c] = row[c]
BY DEF RegisterColumns

\* A request adds rows of a new invoice, clears flags, or leaves the register.
LEMMA RegisterStep ==
  ASSUME InvoicesInv, RegisterInv, [InvoicesNext]_allInvoiceVars
  PROVE  RegisterInv' /\ KnownRows(vatRegister') = KnownRows(vatRegister)
<1> DEFINE Goal == RegisterInv' /\ KnownRows(vatRegister') = KnownRows(vatRegister)
<1>1. CASE UNCHANGED vatRegister
  BY <1>1 DEF KnownRows, RegisterInv
<1>2. ASSUME NEW r \in InvoiceRequests, NEW rate \in RatesFor(r.currency),
             PostInvoice(r, rate)
      PROVE  Goal
  <2> DEFINE id == Len(invoices) + 1
             new == RegisterRows(id, r, Amounts(r, rate))
  <2>1. invoices \in Seq(Invoice)
    BY DEF InvoicesInv, InvoicesLinked
  <2>2. id \notin DOMAIN invoices
    BY <2>1
  <2>3. vatRegister' \in {vatRegister, vatRegister \cup new}
    BY <1>2 DEF PostInvoice
  <2> HIDE DEF id
  <2>4. \A row \in new : RegisterColumns \subseteq DOMAIN row /\ row.invoice = id
    BY RowColumnsOfRegister
  <2> HIDE DEF new
  <2>5. QED
    BY <2>2, <2>3, <2>4 DEF KnownRows, RegisterInv
<1>3. ASSUME NEW i \in DOMAIN invoices, NEW p \in Periods, VoidInvoice(i, p)
      PROVE  Goal
  <2> DEFINE Kept(row) == IF row.invoice = i THEN [row EXCEPT !.khSubmitted = FALSE] ELSE row
             Fixed(row) == <<row.invoice, row.rate, row.base, row.tax, row.section, row.detail>>
  <2>1. vatRegister' = {Kept(row) : row \in vatRegister} /\ UNCHANGED DOMAIN invoices
    <3>1. invoices' = [invoices EXCEPT ![i].status = "voided"]
      BY <1>3 DEF VoidInvoice
    <3>2. QED
      BY <1>3, <3>1 DEF VoidInvoice
  <2>2. ASSUME NEW row \in vatRegister
        PROVE  /\ RegisterColumns \subseteq DOMAIN Kept(row)
               /\ Kept(row).invoice = row.invoice
               /\ Fixed(Kept(row)) = Fixed(row)
    <3>1. RegisterColumns \subseteq DOMAIN row
      BY DEF RegisterInv
    <3>2. /\ RegisterColumns \subseteq DOMAIN Kept(row)
          /\ \A c \in RegisterColumns : Kept(row)[c] = row[c]
      BY <3>1, FlagCleared
    <3> HIDE DEF Kept
    <3>3. /\ Kept(row).invoice = row.invoice /\ Kept(row).rate = row.rate
          /\ Kept(row).base = row.base /\ Kept(row).tax = row.tax
          /\ Kept(row).section = row.section /\ Kept(row).detail = row.detail
      BY <3>2 DEF RegisterColumns
    <3>4. QED
      BY <3>2, <3>3
  <2> HIDE DEF Kept
  <2>3. RegisterInv'
    BY <2>1, <2>2 DEF RegisterInv
  <2>4. {Fixed(row) : row \in {x \in vatRegister' : x.invoice \in DOMAIN invoices}}
          = {Fixed(row) : row \in {x \in vatRegister : x.invoice \in DOMAIN invoices}}
    <3> HIDE DEF Fixed
    <3>1. QED
      BY <2>1, <2>2
  <2>5. QED
    BY <2>3, <2>4 DEF KnownRows
<1>4. QED
  BY <1>1, <1>2, <1>3
  DEF InvoicesNext, InvoiceRequested, LedgerRequest, ResolveAlert, allInvoiceVars,
      invoiceVars

\* No request changes, removes or adds to the register rows of an invoice that
\* exists, but for the submission flags.
THEOREM RegisterIsHistory == InvoicesSpec => RegisterRowsKept
<1>1. InvoicesInit => RegisterInv
  BY DEF InvoicesInit, RegisterInv
<1>2. InvoicesInv /\ RegisterInv /\ [InvoicesNext]_allInvoiceVars =>
        RegisterInv' /\ [KnownRows(vatRegister') = KnownRows(vatRegister)]_allInvoiceVars
  BY RegisterStep
<1>3. QED
  BY <1>1, <1>2, InvoicesInvInit, InvoicesInvStep, PTL DEF InvoicesSpec, RegisterRowsKept

-----------------------------------------------------------------------------
(* Amounts of an invoice. *)

\* The sums over invoice lines and register rows, as sums of a function.
LEMMA NetSum ==
  ASSUME NEW a, NEW S
  PROVE  MapThenSumSet(LAMBDA i : a[i].net, S) = SumOf([i \in S |-> a[i].net], S)
BY DEF MapThenSumSet, MapThenFoldSet, SumOf, SumFold!Iterated, SumFold!Unfold, AnyOf, Plus

LEMMA VatSum ==
  ASSUME NEW a, NEW S
  PROVE  MapThenSumSet(LAMBDA i : a[i].vat, S) = SumOf([i \in S |-> a[i].vat], S)
BY DEF MapThenSumSet, MapThenFoldSet, SumOf, SumFold!Iterated, SumFold!Unfold, AnyOf, Plus

LEMMA GrossSum ==
  ASSUME NEW a, NEW S
  PROVE  MapThenSumSet(LAMBDA i : a[i].gross, S) = SumOf([i \in S |-> a[i].gross], S)
BY DEF MapThenSumSet, MapThenFoldSet, SumOf, SumFold!Iterated, SumFold!Unfold, AnyOf, Plus

LEMMA TaxSum ==
  ASSUME NEW S
  PROVE  MapThenSumSet(LAMBDA row : row.tax, S) = SumOf([row \in S |-> row.tax], S)
BY DEF MapThenSumSet, MapThenFoldSet, SumOf, SumFold!Iterated, SumFold!Unfold, AnyOf, Plus

LEMMA BaseSum ==
  ASSUME NEW S
  PROVE  MapThenSumSet(LAMBDA row : row.base, S) = SumOf([row \in S |-> row.base], S)
BY DEF MapThenSumSet, MapThenFoldSet, SumOf, SumFold!Iterated, SumFold!Unfold, AnyOf, Plus

\* Halves are rounded up: a natural number stays one.
LEMMA RoundHalfUpNat ==
  ASSUME NEW n \in Nat, NEW d \in Nat \ {0}
  PROVE  RoundHalfUp(n, d) \in Nat /\ (n = 0 => RoundHalfUp(n, d) = 0)
<1> DEFINE m == 2 * n + d
           k == 2 * d
<1>1. m \in Nat /\ k \in Nat \ {0} /\ (n = 0 => m < k)
  OBVIOUS
<1> HIDE DEF m, k
<1>2. m \div k \in Nat /\ (m < k => m \div k = 0)
  BY <1>1
<1>3. RoundHalfUp(n, d) = m \div k
  BY DEF RoundHalfUp, m, k
<1>4. QED
  BY <1>1, <1>2, <1>3

\* What _calculate_totals keeps of each of n lines.
IsAmounts(a, n) ==
  /\ DOMAIN a = 1 .. n
  /\ \A i \in 1 .. n : a[i].net \in Nat /\ a[i].vat \in Nat /\ a[i].gross \in Nat

\* The lines of a request are numbered from 1.
LEMMA LinesOfRequest ==
  ASSUME NEW r \in InvoiceRequests
  PROVE  /\ Len(r.lines) \in Nat /\ DOMAIN r.lines = 1 .. Len(r.lines)
         /\ \A i \in 1 .. Len(r.lines) : r.lines[i] \in InvoiceLine
<1>1. r.lines \in Seq(InvoiceLine)
  BY InvoicesAssumption DEF InvoiceRequest
<1>2. QED
  BY <1>1

\* Every amount is a natural number of halere, and a rate of 0 gives no tax.
LEMMA AmountsType ==
  ASSUME NEW r \in InvoiceRequests, NEW rate \in Nat \ {0}
  PROVE  /\ IsAmounts(Amounts(r, rate), Len(r.lines))
         /\ \A i \in 1 .. Len(r.lines) : r.lines[i].rate = 0 => Amounts(r, rate)[i].vat = 0
<1>1. DOMAIN Amounts(r, rate) = 1 .. Len(r.lines)
  BY LinesOfRequest DEF Amounts
<1>2. ASSUME NEW i \in 1 .. Len(r.lines)
      PROVE  LET a == Amounts(r, rate)[i]
             IN  /\ a.net \in Nat /\ a.vat \in Nat /\ a.gross \in Nat
                 /\ r.lines[i].rate = 0 => a.vat = 0
  <2> DEFINE line == r.lines[i]
             net == RoundHalfUp(line.net, Sub)
             vat == RoundHalfUp(net * line.rate, 100)
  <2>1. line \in InvoiceLine
    BY LinesOfRequest
  <2>2. line.net \in Nat /\ line.rate \in Nat
    BY <2>1 DEF InvoiceLine, VatRates
  <2>3. Sub \in Nat \ {0} /\ RateScale \in Nat \ {0} /\ 100 \in Nat \ {0}
    BY ConstantsAssumption
  <2>4. Amounts(r, rate)[i] = LineAmounts(line, rate)
    BY LinesOfRequest DEF Amounts
  <2> HIDE DEF line
  <2>5. net \in Nat
    BY <2>2, <2>3, RoundHalfUpNat
  <2> HIDE DEF net
  <2>6. net * line.rate \in Nat /\ (line.rate = 0 => net * line.rate = 0)
    BY <2>2, <2>5
  <2>7. vat \in Nat /\ (line.rate = 0 => vat = 0)
    BY <2>3, <2>6, RoundHalfUpNat
  <2> HIDE DEF vat
  <2>8. /\ net * rate \in Nat /\ vat * rate \in Nat /\ (net + vat) * rate \in Nat
        /\ (vat = 0 => vat * rate = 0)
    BY <2>5, <2>7
  <2>9. /\ RoundHalfUp(net * rate, RateScale) \in Nat
        /\ RoundHalfUp(vat * rate, RateScale) \in Nat
        /\ vat = 0 => RoundHalfUp(vat * rate, RateScale) = 0
        /\ RoundHalfUp((net + vat) * rate, RateScale) \in Nat
    BY <2>3, <2>8, RoundHalfUpNat
  <2>10. LineAmounts(line, rate)
           = [net |-> RoundHalfUp(net * rate, RateScale),
              vat |-> RoundHalfUp(vat * rate, RateScale),
              gross |-> RoundHalfUp((net + vat) * rate, RateScale)]
    BY DEF LineAmounts, net, vat
  <2>11. QED
    BY <2>4, <2>7, <2>9, <2>10 DEF line
<1>3. QED
  BY <1>1, <1>2 DEF IsAmounts

\* A total is a natural number.
LEMMA TotalsType ==
  ASSUME NEW a, NEW n \in Nat, IsAmounts(a, n)
  PROVE  TotalNet(a) \in Nat /\ TotalVat(a) \in Nat /\ TotalGross(a) \in Nat
<1>1. IsFiniteSet(DOMAIN a)
  BY FS_Interval DEF IsAmounts
<1>2. TotalNet(a) \in Nat
  <2> DEFINE f == [i \in DOMAIN a |-> a[i].net]
  <2>1. \A i \in DOMAIN a : f[i] \in Nat
    BY DEF IsAmounts
  <2>2. SumOf(f, DOMAIN a) \in Nat
    <3> HIDE DEF f
    <3>1. QED
      BY <1>1, <2>1, SumType
  <2>3. QED
    BY <2>2, NetSum DEF TotalNet
<1>3. TotalVat(a) \in Nat
  <2> DEFINE f == [i \in DOMAIN a |-> a[i].vat]
  <2>1. \A i \in DOMAIN a : f[i] \in Nat
    BY DEF IsAmounts
  <2>2. SumOf(f, DOMAIN a) \in Nat
    <3> HIDE DEF f
    <3>1. QED
      BY <1>1, <2>1, SumType
  <2>3. QED
    BY <2>2, VatSum DEF TotalVat
<1>4. TotalGross(a) \in Nat
  <2> DEFINE f == [i \in DOMAIN a |-> a[i].gross]
  <2>1. \A i \in DOMAIN a : f[i] \in Nat
    BY DEF IsAmounts
  <2>2. SumOf(f, DOMAIN a) \in Nat
    <3> HIDE DEF f
    <3>1. QED
      BY <1>1, <2>1, SumType
  <2>3. QED
    BY <2>2, GrossSum DEF TotalGross
<1>5. QED
  BY <1>2, <1>3, <1>4

-----------------------------------------------------------------------------
(* The journal lines of an invoice. *)

\* A line of a journal request, and the side opposite to the receivable or
\* payable.
LegRow == [account : Accounts, side : Side, amount : Nat]

RevenueSide(r) == IF r.direction = "ISSUED" THEN "CREDIT" ELSE "DEBIT"

\* The lines on the side opposite to the receivable or payable: one for each
\* line of the invoice, and one on 343 if there is any tax.
NetAndVatLegs(legs, a, n, side) ==
  /\ \A k \in 1 .. n :
       /\ k \in DOMAIN legs /\ legs[k].side = side /\ legs[k].account # "343"
       /\ legs[k].amount = a[k].net * Sub
  /\ TotalVat(a) # 0 =>
       /\ n + 1 \in DOMAIN legs /\ legs[n + 1].side = side /\ legs[n + 1].account = "343"
       /\ legs[n + 1].amount = TotalVat(a) * Sub
  /\ \A k \in DOMAIN legs :
       legs[k].side = side => k \in 1 .. n \/ (TotalVat(a) # 0 /\ k = n + 1)

\* A leg has the account, the side and the amount it is made with.
LEMMA LegIs ==
  ASSUME NEW acct, NEW s, NEW h
  PROVE  /\ Leg(acct, s, h).account = acct /\ Leg(acct, s, h).side = s
         /\ Leg(acct, s, h).amount = h * Sub
         /\ acct \in Accounts /\ s \in Side /\ h \in Nat => Leg(acct, s, h) \in LegRow
BY ConstantsAssumption DEF Leg, LegRow

\* The net lines, and what follows them.
AreNetLegs(u, a, n, s) ==
  /\ Len(u) = n
  /\ \A k \in 1 .. n :
       u[k].side = s /\ u[k].account # "343" /\ u[k].amount = a[k].net * Sub

AreVatLegs(v, a, s) ==
  /\ TotalVat(a) # 0 => /\ 1 \in 1 .. Len(v) /\ v[1].side = s /\ v[1].account = "343"
                        /\ v[1].amount = TotalVat(a) * Sub
  /\ \A k \in 1 .. Len(v) : v[k].side = s => TotalVat(a) # 0 /\ k = 1

\* The net lines name no VAT account when the request and the default name none.
LEMMA NetLegsShape ==
  ASSUME InvoicesLeaveVatAccount, NEW r \in InvoiceRequests, NEW a, IsAmounts(a, Len(r.lines)),
         NEW s \in Side, NEW default \in Accounts, default # "343"
  PROVE  LET legs == NetLegs(r, a, s, default)
         IN  legs \in Seq(LegRow) /\ AreNetLegs(legs, a, Len(r.lines), s)
<1> DEFINE n == Len(r.lines)
           Account(k) == IF r.lines[k].account = NoAccount THEN default ELSE r.lines[k].account
           legs == NetLegs(r, a, s, default)
<1>1. n \in Nat /\ DOMAIN r.lines = 1 .. n /\ \A k \in 1 .. n : r.lines[k] \in InvoiceLine
  BY LinesOfRequest
<1>2. legs = [k \in 1 .. n |-> Leg(Account(k), s, a[k].net)]
  BY <1>1 DEF NetLegs
<1>3. \A k \in 1 .. n : Account(k) \in Accounts /\ Account(k) # "343" /\ a[k].net \in Nat
  BY <1>1 DEF InvoiceLine, IsAmounts, InvoicesLeaveVatAccount
<1> HIDE DEF n, Account, legs
<1>4. \A k \in 1 .. n : /\ legs[k] \in LegRow /\ legs[k].side = s /\ legs[k].account # "343"
                        /\ legs[k].amount = a[k].net * Sub
  BY <1>2, <1>3, LegIs
<1>5. legs \in Seq(LegRow) /\ Len(legs) = n
  BY <1>1, <1>2, <1>4
<1>6. QED
  BY <1>4, <1>5 DEF AreNetLegs, n, legs

\* w is u followed by v, by position.
Joins(w, u, v) ==
  /\ DOMAIN w = 1 .. Len(u) + Len(v)
  /\ \A k \in 1 .. Len(u) : w[k] = u[k]
  /\ \A k \in 1 .. Len(v) : w[Len(u) + k] = v[k]

LEMMA Joined ==
  ASSUME NEW S, NEW u \in Seq(S), NEW v \in Seq(S)
  PROVE  u \o v \in Seq(S) /\ Joins(u \o v, u, v)
BY DEF Joins

\* Net lines followed by tax lines are the side opposite to the receivable.
LEMMA JoinedShape ==
  ASSUME NEW a, NEW n \in Nat, NEW s, NEW u, NEW v, NEW w, Joins(w, u, v), Len(v) \in Nat,
         AreNetLegs(u, a, n, s), AreVatLegs(v, a, s)
  PROVE  NetAndVatLegs(w, a, n, s)
<1> DEFINE m == Len(v)
           t == TotalVat(a)
           cents == t * Sub
<1>1. m \in Nat
  OBVIOUS
<1>2. /\ DOMAIN w = 1 .. (n + m)
      /\ \A k \in 1 .. n : w[k] = u[k]
      /\ \A k \in 1 .. m : w[n + k] = v[k]
  BY DEF Joins, AreNetLegs
<1>3. /\ t # 0 => 1 \in 1 .. m /\ v[1].side = s /\ v[1].account = "343" /\ v[1].amount = cents
      /\ \A k \in 1 .. m : v[k].side = s => t # 0 /\ k = 1
  BY DEF AreVatLegs
<1>4. \A k \in 1 .. n : /\ k \in DOMAIN w /\ w[k].side = s /\ w[k].account # "343"
                        /\ w[k].amount = a[k].net * Sub
  BY <1>1, <1>2 DEF AreNetLegs
<1> HIDE DEF m, t, cents
<1>5. t # 0 => /\ n + 1 \in DOMAIN w /\ w[n + 1].side = s /\ w[n + 1].account = "343"
               /\ w[n + 1].amount = cents
  <2> SUFFICES ASSUME t # 0
               PROVE  /\ n + 1 \in DOMAIN w /\ w[n + 1].side = s /\ w[n + 1].account = "343"
                      /\ w[n + 1].amount = cents
    OBVIOUS
  <2>1. 1 \in 1 .. m
    BY <1>3
  <2>2. w[n + 1] = v[1] /\ n + 1 \in DOMAIN w
    BY <1>1, <1>2, <2>1
  <2>3. QED
    BY <1>3, <2>2
<1>6. ASSUME NEW k \in DOMAIN w, w[k].side = s
      PROVE  k \in 1 .. n \/ (t # 0 /\ k = n + 1)
  <2>1. CASE k \in 1 .. n
    BY <2>1
  <2>2. CASE k \notin 1 .. n
    <3> DEFINE j == k - n
    <3>1. j \in 1 .. m /\ k = n + j
      BY <1>1, <1>2, <2>2
    <3> HIDE DEF j
    <3>2. w[k] = v[j]
      BY <1>2, <3>1
    <3>3. t # 0 /\ j = 1
      BY <1>3, <1>6, <3>1, <3>2
    <3>4. QED
      BY <3>1, <3>3
  <2>3. QED
    BY <2>1, <2>2
<1>7. QED
  BY <1>4, <1>5, <1>6 DEF NetAndVatLegs, t, cents

LEMMA JoinedThrice ==
  ASSUME NEW S, NEW u \in Seq(S), NEW v \in Seq(S), NEW w \in Seq(S)
  PROVE  (u \o v) \o w = u \o (v \o w)
OBVIOUS

\* The tax lines are none if there is no tax, and the first of them is on the
\* side of the net lines.
VatSides(s) == {<<s>>, <<s, Swap(s)>>}

ArePlainVatLegs(vat, t, s) ==
  /\ vat \in Seq(LegRow) /\ Len(vat) \in Nat
  /\ t = 0 => Len(vat) = 0
  /\ t # 0 => /\ 1 \in 1 .. Len(vat) /\ vat[1].side = s /\ vat[1].account = "343"
             /\ vat[1].amount = t * Sub
  /\ \A k \in 1 .. Len(vat) : k # 1 => vat[k].side # s

\* VatLegs makes such lines; a reverse charge has one on each side.
LEMMA VatLegsShape ==
  ASSUME NEW a, TotalVat(a) \in Nat, NEW s \in Side,
         NEW sides \in VatSides(s)
  PROVE  ArePlainVatLegs(VatLegs(a, sides), TotalVat(a), s)
<1> DEFINE t == TotalVat(a)
           vat == VatLegs(a, sides)
<1>1. "343" \in Accounts /\ Swap(s) \in Side /\ Swap(s) # s
  BY InvoicesAssumption DEF Swap, Side
<1>2. /\ Len(sides) \in {1, 2} /\ DOMAIN sides = 1 .. Len(sides) /\ sides[1] = s
      /\ Len(sides) = 2 => sides[2] = Swap(s)
  BY DEF VatSides
<1>3. \A k \in 1 .. Len(sides) : k = 1 \/ (k = 2 /\ Len(sides) = 2)
  BY <1>2
<1>4. \A k \in 1 .. Len(sides) :
        sides[k] \in Side /\ (k # 1 => sides[k] # s)
  BY <1>1, <1>2, <1>3
<1> DEFINE m == Len(sides)
<1>5. vat = IF t = 0 THEN <<>> ELSE [k \in 1 .. m |-> Leg("343", sides[k], t)]
  BY <1>2 DEF VatLegs
<1>6. CASE t = 0
  <2>1. vat = <<>>
    BY <1>5, <1>6
  <2> HIDE DEF vat, t
  <2>2. vat \in Seq(LegRow) /\ Len(vat) = 0
    BY <2>1
  <2>3. QED
    BY <1>6, <2>2 DEF ArePlainVatLegs, vat, t
<1>7. CASE t # 0
  <2>1. vat = [k \in 1 .. m |-> Leg("343", sides[k], t)]
    BY <1>5, <1>7
  <2> HIDE DEF vat, t, m
  <2>2. m \in Nat /\ 1 \in 1 .. m /\ t \in Nat
    BY <1>2 DEF m, t
  <2>3. \A k \in 1 .. m : sides[k] \in Side /\ (k # 1 => sides[k] # s)
    BY <1>4 DEF m
  <2>4. \A k \in 1 .. m : /\ vat[k] \in LegRow /\ vat[k].side = sides[k]
                          /\ vat[k].account = "343" /\ vat[k].amount = t * Sub
    BY <1>1, <2>1, <2>2, <2>3, LegIs
  <2>5. vat \in Seq(LegRow) /\ Len(vat) = m
    BY <2>1, <2>2, <2>4
  <2>6. vat[1].side = s
    BY <1>2, <2>2, <2>4
  <2>7. QED
    BY <1>7, <2>2, <2>3, <2>4, <2>5, <2>6 DEF ArePlainVatLegs, vat, t
<1>8. QED
  BY <1>6, <1>7

\* The lines of an invoice are its net lines, the tax and the receivable or
\* payable on the other side.
InvoiceLegs(r, a, s, sides, default, acct, h) ==
  NetLegs(r, a, s, default) \o VatLegs(a, sides) \o <<Leg(acct, Swap(s), h)>>

\* The concatenation may be read either way.
Regroups(r, a, s, sides, default, acct, h) ==
  InvoiceLegs(r, a, s, sides, default, acct, h)
    = NetLegs(r, a, s, default) \o (VatLegs(a, sides) \o <<Leg(acct, Swap(s), h)>>)

Shaped(legs, a, n, s) == legs \in Seq(LegRow) /\ NetAndVatLegs(legs, a, n, s)

\* Net, tax and a closing line on the other side, for any accounts and amounts.
LEMMA NetVatAndLast ==
  ASSUME InvoicesLeaveVatAccount, NEW r \in InvoiceRequests, NEW a, IsAmounts(a, Len(r.lines)),
         NEW s \in Side, NEW sides \in VatSides(s),
         NEW default \in Accounts, default # "343",
         NEW acct \in Accounts, NEW h \in Nat
  PROVE  /\ Shaped(InvoiceLegs(r, a, s, sides, default, acct, h), a, Len(r.lines), s)
         /\ Regroups(r, a, s, sides, default, acct, h)
<1> DEFINE n == Len(r.lines)
           t == TotalVat(a)
           u == NetLegs(r, a, s, default)
           vat == VatLegs(a, sides)
           z == Leg(acct, Swap(s), h)
           v == vat \o <<z>>
           w == u \o v
<1>1. n \in Nat
  BY LinesOfRequest
<1>2. t \in Nat
  BY <1>1, TotalsType
<1>3. Swap(s) \in Side /\ Swap(s) # s
  BY DEF Swap, Side
<1>4. z \in LegRow /\ z.side # s
  BY <1>3, LegIs
<1>5. u \in Seq(LegRow) /\ AreNetLegs(u, a, n, s)
  BY NetLegsShape
<1>6. /\ vat \in Seq(LegRow) /\ Len(vat) \in Nat
      /\ t = 0 => Len(vat) = 0
      /\ t # 0 => /\ 1 \in 1 .. Len(vat) /\ vat[1].side = s /\ vat[1].account = "343"
                  /\ vat[1].amount = t * Sub
      /\ \A k \in 1 .. Len(vat) : k # 1 => vat[k].side # s
  <2>1. ArePlainVatLegs(vat, t, s)
    BY <1>2, VatLegsShape
  <2>2. QED
    BY <2>1 DEF ArePlainVatLegs
<1> DEFINE cents == t * Sub
<1> HIDE DEF u, vat, z, t, n, cents
<1>7. <<z>> \in Seq(LegRow) /\ Len(<<z>>) = 1 /\ <<z>>[1] = z
  BY <1>4
<1> DEFINE last == <<z>>
<1> HIDE DEF last
<1>8. last \in Seq(LegRow) /\ Len(last) = 1 /\ last[1] = z
  BY <1>7 DEF last
<1>9. /\ v \in Seq(LegRow) /\ Joins(v, vat, last)
  BY <1>6, <1>8, Joined DEF last
<1>10. (u \o vat) \o last = u \o (vat \o last)
  BY <1>5, <1>6, <1>8, JoinedThrice
<1> HIDE DEF v
<1>11. AreVatLegs(v, a, s) /\ Len(v) \in Nat
  <2> DEFINE m == Len(vat)
  <2>1. DOMAIN v = 1 .. m + 1 /\ m \in Nat /\ Len(v) = m + 1
    BY <1>6, <1>8, <1>9 DEF Joins
  <2>2. (\A k \in 1 .. m : v[k] = vat[k]) /\ v[m + 1] = z
    BY <1>6, <1>8, <1>9 DEF Joins
  <2>3. /\ t = 0 => m = 0
        /\ t # 0 => 1 \in 1 .. m /\ v[1].side = s /\ v[1].account = "343" /\ v[1].amount = cents
        /\ \A k \in 1 .. m : k # 1 => v[k].side # s
    BY <1>6, <2>2 DEF cents
  <2> HIDE DEF m
  <2>4. \A k \in 1 .. (m + 1) : v[k].side = s => t # 0 /\ k = 1
    BY <1>4, <2>1, <2>2, <2>3
  <2>5. t # 0 => 1 \in 1 .. (m + 1)
    BY <2>1, <2>3
  <2>6. QED
    BY <2>1, <2>3, <2>4, <2>5 DEF AreVatLegs, t, cents
<1>12. w \in Seq(LegRow) /\ Joins(w, u, v)
  BY <1>5, <1>9, Joined
<1> HIDE DEF w
<1>13. NetAndVatLegs(w, a, n, s)
  BY <1>1, <1>5, <1>11, <1>12, JoinedShape
<1>14. QED
  BY <1>10, <1>12, <1>13 DEF InvoiceLegs, Regroups, Shaped, w, v, u, vat, z, n, last

\* Whatever the direction and the regime of an invoice, its entry has, on the side
\* of its revenue or cost, one line for each of its lines and one for the tax.
LEMMA JournalLinesShape ==
  ASSUME InvoicesLeaveVatAccount, NEW r \in InvoiceRequests, NEW rate \in Nat \ {0}
  PROVE  Shaped(JournalLines(r, rate), Amounts(r, rate), Len(r.lines), RevenueSide(r))
<1> DEFINE a == Amounts(r, rate)
           n == Len(r.lines)
           g == TotalGross(a)
           b == TotalNet(a)
           Built(s, sides, default, acct, h) ==
             /\ Shaped(InvoiceLegs(r, a, s, sides, default, acct, h), a, n, s)
             /\ Regroups(r, a, s, sides, default, acct, h)
<1>1. IsAmounts(a, n) /\ n \in Nat
  BY AmountsType, LinesOfRequest
<1>2. g \in Nat /\ b \in Nat
  BY <1>1, TotalsType
<1>3. /\ "311" \in Accounts /\ "321" \in Accounts /\ "518" \in Accounts /\ "602" \in Accounts
      /\ "518" # "343" /\ "602" # "343"
      /\ "CREDIT" \in Side /\ "DEBIT" \in Side
      /\ Swap("CREDIT") = "DEBIT" /\ Swap("DEBIT") = "CREDIT"
  BY InvoicesAssumption DEF Side, Swap
<1>4. /\ <<"CREDIT">> \in VatSides("CREDIT") /\ <<"DEBIT">> \in VatSides("DEBIT")
      /\ <<"DEBIT", Swap("DEBIT")>> \in VatSides("DEBIT")
  BY DEF VatSides
<1>5. \A s \in Side : \A sides \in VatSides(s) : \A default, acct \in Accounts : \A h \in Nat :
        default # "343" => Built(s, sides, default, acct, h)
  <2> HIDE DEF g, b
  <2> SUFFICES ASSUME NEW s \in Side, NEW sides \in VatSides(s), NEW default \in Accounts,
                      NEW acct \in Accounts, NEW h \in Nat, default # "343"
               PROVE  Built(s, sides, default, acct, h)
    BY ZenonT(30)
  <2>1. IsAmounts(a, Len(r.lines))
    BY <1>1
  <2> HIDE DEF a
  <2>2. Shaped(InvoiceLegs(r, a, s, sides, default, acct, h), a, Len(r.lines), s)
    BY <2>1, NetVatAndLast
  <2>3. Regroups(r, a, s, sides, default, acct, h)
    BY <2>1, NetVatAndLast
  <2>4. QED
    BY <2>2, <2>3
<1> DEFINE one == <<"CREDIT">>
           two == <<"DEBIT">>
           both == <<"DEBIT", Swap("DEBIT")>>
<1>6. Built("CREDIT", one, "602", "311", g) /\ Built("DEBIT", two, "518", "321", g)
      /\ Built("DEBIT", both, "518", "321", b)
  <2>1. one \in VatSides("CREDIT") /\ two \in VatSides("DEBIT") /\ both \in VatSides("DEBIT")
    BY <1>4
  <2> HIDE DEF g, b, Built, one, two, both
  <2>2. QED
    BY <1>2, <1>3, <1>5, <2>1
<1> DEFINE issued == InvoiceLegs(r, a, "CREDIT", one, "602", "311", g)
           received == InvoiceLegs(r, a, "DEBIT", two, "518", "321", g)
           charged == InvoiceLegs(r, a, "DEBIT", both, "518", "321", b)
<1>8. JournalLines(r, rate) = IF r.direction = "ISSUED" THEN issued
                              ELSE IF r.reverseCharge THEN charged ELSE received
  <2>1. r.direction = "ISSUED" => JournalLines(r, rate) = issued
    BY <1>3 DEF JournalLines, IssuedLines, InvoiceLegs
  <2>2. r.direction # "ISSUED" /\ r.reverseCharge => JournalLines(r, rate) = charged
    BY <1>3, <1>6 DEF JournalLines, ReceivedLines, Regroups
  <2>3. r.direction # "ISSUED" /\ ~r.reverseCharge => JournalLines(r, rate) = received
    BY <1>3, <1>6 DEF JournalLines, ReceivedLines, Regroups
  <2>4. QED
    BY <2>1, <2>2, <2>3
<1>9. /\ Shaped(issued, a, n, "CREDIT") /\ Shaped(received, a, n, "DEBIT")
      /\ Shaped(charged, a, n, "DEBIT")
  BY <1>6
<1>10. QED
  <2> HIDE DEF a, n, issued, received, charged
  <2>1. QED
    BY <1>8, <1>9 DEF RevenueSide, a, n

-----------------------------------------------------------------------------
(* The stored lines of an invoice, and their sums on the revenue side. *)

\* The k-th line of an entry in CZK, as journal_lines keeps it.
StoredLine(id, legs, k) ==
  [entry |-> id, order |-> k - 1, account |-> legs[k].account, side |-> legs[k].side,
   foreign |-> RoundHalfUp(legs[k].amount, Sub),
   czk |-> RoundHalfEven(legs[k].amount * RateScale, Sub * RateScale)]

StoredRows(id, legs, K) == {StoredLine(id, legs, k) : k \in K}

LEMMA StoredLineIs ==
  ASSUME NEW id, NEW legs, NEW k, NEW h \in Nat, legs[k].amount = h * Sub
  PROVE  /\ StoredLine(id, legs, k).order = k - 1
         /\ StoredLine(id, legs, k).account = legs[k].account
         /\ StoredLine(id, legs, k).side = legs[k].side
         /\ StoredLine(id, legs, k).czk = h
<1>1. RoundHalfEven((h * Sub) * RateScale, Sub * RateScale) = h
  BY AmountKept, ConstantsAssumption
<1>2. QED
  BY <1>1 DEF StoredLine

\* The amounts of a total may be read off the lines of the invoice.
LEMMA StoredTotal ==
  ASSUME NEW id, NEW legs, NEW K \in SUBSET Nat, IsFiniteSet(K), NEW H,
         \A k \in K : H[k] \in Nat /\ legs[k].amount = H[k] * Sub
  PROVE  TotalCzk(StoredRows(id, legs, K)) = SumOf(H, K)
<1> DEFINE g == [k \in K |-> StoredLine(id, legs, k)]
           rows == {g[k] : k \in K}
           c == [l \in rows |-> l.czk]
<1>1. rows = StoredRows(id, legs, K)
  BY DEF StoredRows
<1>2. \A k \in K : g[k].order = k - 1 /\ g[k].czk = H[k]
  <2> SUFFICES ASSUME NEW k \in K PROVE g[k].order = k - 1 /\ g[k].czk = H[k]
    OBVIOUS
  <2>1. g[k] = StoredLine(id, legs, k)
    OBVIOUS
  <2>2. StoredLine(id, legs, k).order = k - 1 /\ StoredLine(id, legs, k).czk = H[k]
    BY StoredLineIs
  <2>3. QED
    BY <2>1, <2>2
<1> HIDE DEF g
<1>3. \A x, y \in K : g[x] = g[y] => x = y
  BY <1>2
<1>4. IntValued(H, K) /\ \A k \in K : c[g[k]] = H[k]
  BY <1>2 DEF IntValued
<1>5. SumOf(c, rows) = SumOf(H, K)
  <2> HIDE DEF c
  <2>1. QED
    BY <1>3, <1>4, SumImage
<1>6. TotalCzk(rows) = SumOf(c, rows)
  <2>1. CASE rows = {}
    BY <2>1, SumEmpty DEF TotalCzk
  <2>2. CASE rows # {}
    BY <2>2, CzkSum DEF TotalCzk
  <2>3. QED
    BY <2>1, <2>2
<1>7. QED
  BY <1>1, <1>5, <1>6

\* The position of the line of the tax, if there is one.
VatPart(a, n) == IF TotalVat(a) = 0 THEN {} ELSE {n + 1}

\* The amount behind the k-th line of the revenue side.
LegUnits(a, n) == [k \in 1 .. n + 1 |-> IF k \in 1 .. n THEN a[k].net ELSE TotalVat(a)]

\* `side` holds the stored lines of the net amounts and of the tax.
SideRead(side, legs, a, n, id) ==
  /\ side = StoredRows(id, legs, (1 .. n) \cup VatPart(a, n))
  /\ {l \in side : l.account = "343"} = StoredRows(id, legs, VatPart(a, n))
  /\ \A k \in (1 .. n) \cup VatPart(a, n) :
       LegUnits(a, n)[k] \in Nat /\ legs[k].amount = LegUnits(a, n)[k] * Sub

\* The revenue side of an entry holds the net amounts and the tax, and the tax alone
\* is on 343.
LEMMA LegsOnSide ==
  ASSUME NEW legs, NEW a, NEW n \in Nat, NEW s, NEW id,
         IsAmounts(a, n), TotalVat(a) \in Nat, NetAndVatLegs(legs, a, n, s)
  PROVE  SideRead(OnSide(LineRows(id, legs, RateScale), s), legs, a, n, id)
<1> DEFINE K == (1 .. n) \cup VatPart(a, n)
           rows == LineRows(id, legs, RateScale)
<1>1. rows = StoredRows(id, legs, DOMAIN legs)
  BY DEF LineRows, StoredRows, StoredLine
<1>2. \A k \in DOMAIN legs : StoredLine(id, legs, k).side = legs[k].side
                             /\ StoredLine(id, legs, k).account = legs[k].account
  BY DEF StoredLine
<1>3. \A k \in DOMAIN legs : legs[k].side = s <=> k \in K
  BY DEF NetAndVatLegs, VatPart
<1>4. K \subseteq DOMAIN legs
  BY DEF NetAndVatLegs, VatPart
<1>5. \A k \in K : legs[k].account = "343" <=> k \in VatPart(a, n)
  <2>1. n + 1 \notin 1 .. n
    OBVIOUS
  <2>2. QED
    BY <2>1 DEF NetAndVatLegs, VatPart
<1>6. \A k \in K : LegUnits(a, n)[k] \in Nat /\ legs[k].amount = LegUnits(a, n)[k] * Sub
  <2>1. ASSUME NEW k \in 1 .. n
        PROVE  LegUnits(a, n)[k] \in Nat /\ legs[k].amount = LegUnits(a, n)[k] * Sub
    <3>1. LegUnits(a, n)[k] = a[k].net
      BY DEF LegUnits
    <3>2. QED
      BY <3>1 DEF NetAndVatLegs, IsAmounts
  <2>2. ASSUME TotalVat(a) # 0
        PROVE  LegUnits(a, n)[n + 1] \in Nat /\ legs[n + 1].amount = LegUnits(a, n)[n + 1] * Sub
    <3>1. n + 1 \in 1 .. n + 1 /\ n + 1 \notin 1 .. n
      OBVIOUS
    <3>2. LegUnits(a, n)[n + 1] = TotalVat(a)
      BY <3>1 DEF LegUnits
    <3>3. QED
      BY <2>2, <3>2 DEF NetAndVatLegs
  <2>3. QED
    BY <2>1, <2>2 DEF VatPart
<1> HIDE DEF K, rows
<1>7. OnSide(rows, s) = StoredRows(id, legs, K)
  BY <1>1, <1>2, <1>3, <1>4 DEF OnSide, StoredRows
<1>8. {l \in OnSide(rows, s) : l.account = "343"} = StoredRows(id, legs, VatPart(a, n))
  <2>1. VatPart(a, n) \subseteq K
    BY DEF K
  <2>2. QED
    BY <1>2, <1>4, <1>5, <1>7, <2>1 DEF StoredRows
<1>9. QED
  BY <1>6, <1>7, <1>8 DEF K, rows, SideRead

\* What an invoice has on 343, and on the whole side, once it is stored.
LEMMA EntrySums ==
  ASSUME NEW legs, NEW a, NEW n \in Nat, NEW s, NEW id,
         IsAmounts(a, n), NetAndVatLegs(legs, a, n, s)
  PROVE  LET side == OnSide(LineRows(id, legs, RateScale), s)
         IN  /\ TotalCzk({l \in side : l.account = "343"}) = TotalVat(a)
             /\ TotalCzk(side) = TotalVat(a) + TotalNet(a)
<1> DEFINE V == VatPart(a, n)
           N == 1 .. n
           H == LegUnits(a, n)
           t == TotalVat(a)
           b == TotalNet(a)
           side == OnSide(LineRows(id, legs, RateScale), s)
<1>1. t \in Nat /\ b \in Nat
  BY TotalsType
<1>2. IsFiniteSet(N) /\ IsFiniteSet(V) /\ N \cap V = {}
  <2>1. IsFiniteSet(N)
    BY FS_Interval
  <2>2. V = {} \/ V = {n + 1}
    BY DEF VatPart
  <2>3. IsFiniteSet(V)
    BY <2>2, FS_EmptySet, FS_Singleton
  <2>4. n + 1 \notin N
    OBVIOUS
  <2>5. QED
    BY <2>1, <2>2, <2>3, <2>4
<1>3. /\ side = StoredRows(id, legs, N \cup V)
      /\ {l \in side : l.account = "343"} = StoredRows(id, legs, V)
      /\ \A k \in N \cup V : H[k] \in Nat /\ legs[k].amount = H[k] * Sub
  <2>1. SideRead(side, legs, a, n, id)
    BY <1>1, LegsOnSide
  <2>2. QED
    BY <2>1 DEF SideRead
<1> DEFINE m == n + 1
<1>4. H[m] = t /\ \A k \in 1 .. n : H[k] = a[k].net
  <2>1. m \in 1 .. n + 1 /\ m \notin 1 .. n /\ \A k \in 1 .. n : k \in 1 .. n + 1
    OBVIOUS
  <2> HIDE DEF m
  <2>2. QED
    BY <2>1 DEF LegUnits
<1>5. SumOf(H, 1 .. n) = b
  <2> DEFINE f == [i \in 1 .. n |-> a[i].net]
  <2>1. DOMAIN a = 1 .. n /\ \A k \in 1 .. n : f[k] \in Nat /\ H[k] = f[k]
    BY <1>4 DEF IsAmounts
  <2>2. b = SumOf(f, 1 .. n)
    BY <2>1, NetSum DEF TotalNet
  <2> HIDE DEF f, H, b
  <2>3. IntValued(f, 1 .. n)
    BY <2>1 DEF IntValued
  <2>4. QED
    BY <1>2, <2>1, <2>2, <2>3, SumCongruent
<1>6. SumOf(H, V) = t
  <2>1. CASE t = 0
    BY <2>1, SumEmpty DEF VatPart
  <2>2. CASE t # 0
    <3>1. V = {} \cup {m} /\ m \notin {}
      BY <2>2 DEF VatPart
    <3> HIDE DEF H, V, m, t
    <3>2. IsFiniteSet({}) /\ IntValued(H, {} \cup {m})
      BY <1>1, <1>4, FS_EmptySet DEF IntValued
    <3>3. SumOf(H, {} \cup {m}) = H[m] + SumOf(H, {})
      BY <3>2, SumAdd
    <3>4. SumOf(H, V) = H[m] + SumOf(H, {})
      BY <3>1, <3>3
    <3>5. QED
      BY <1>1, <1>4, <3>4, SumEmpty
  <2>3. QED
    BY <2>1, <2>2
<1> DEFINE K == N \cup V
<1>7. SumOf(H, N \cup V) = SumOf(H, N) + SumOf(H, V)
  <2> HIDE DEF H, V, N
  <2>1. IntValued(H, N \cup V)
    BY <1>3 DEF IntValued
  <2>2. QED
    BY <1>2, <2>1, SumUnion
<1>8. IsFiniteSet(K)
  <2> HIDE DEF V, N
  <2>1. QED
    BY <1>2, FS_Union
<1>9. TotalCzk(StoredRows(id, legs, V)) = SumOf(H, V)
  <2>1. V \in SUBSET Nat
    BY DEF VatPart
  <2> HIDE DEF H, V, N
  <2>2. QED
    BY <1>2, <1>3, <2>1, StoredTotal
<1>10. TotalCzk(StoredRows(id, legs, K)) = SumOf(H, K)
  <2>1. \A k \in K : H[k] \in Nat /\ legs[k].amount = H[k] * Sub
    BY <1>3
  <2>2. K \in SUBSET Nat
    BY DEF VatPart
  <2> HIDE DEF H, K
  <2>3. QED
    BY <1>8, <2>1, <2>2, StoredTotal
<1> HIDE DEF H, V, N, t, b, side
<1>11. TotalCzk(side) = b + t
  BY <1>3, <1>5, <1>6, <1>7, <1>10 DEF N
<1>12. TotalCzk({l \in side : l.account = "343"}) = t
  BY <1>3, <1>6, <1>9
<1>13. b + t = t + b
  BY <1>1
<1>14. QED
  BY <1>11, <1>12, <1>13 DEF t, b, side

-----------------------------------------------------------------------------
(* The register rows of an invoice, and their sums. *)

\* Columns of the amounts.
NetOf(a) == [k \in DOMAIN a |-> a[k].net]
VatOf(a) == [k \in DOMAIN a |-> a[k].vat]

\* The base and the tax of some lines, as sums of a column.
LEMMA ColumnsOfAmounts ==
  ASSUME NEW a, NEW n \in Nat, IsAmounts(a, n), NEW at \in SUBSET (1 .. n)
  PROVE  /\ MapThenSumSet(LAMBDA i : a[i].net, at) = SumOf(NetOf(a), at)
         /\ MapThenSumSet(LAMBDA i : a[i].vat, at) = SumOf(VatOf(a), at)
         /\ SumOf(NetOf(a), at) \in Nat /\ SumOf(VatOf(a), at) \in Nat
         /\ IsFiniteSet(at)
<1> DEFINE f == [k \in at |-> a[k].net]
           g == [k \in at |-> a[k].vat]
           net == NetOf(a)
           vat == VatOf(a)
<1>1. IsFiniteSet(at)
  <2>1. IsFiniteSet(1 .. n)
    BY FS_Interval
  <2>2. QED
    BY <2>1, FS_Subset
<1>2. \A k \in at : /\ f[k] = net[k] /\ g[k] = vat[k]
                    /\ net[k] \in Nat /\ vat[k] \in Nat
  BY DEF IsAmounts, NetOf, VatOf
<1>3. /\ MapThenSumSet(LAMBDA i : a[i].net, at) = SumOf(f, at)
      /\ MapThenSumSet(LAMBDA i : a[i].vat, at) = SumOf(g, at)
  <2>1. MapThenSumSet(LAMBDA i : a[i].net, at) = SumOf(f, at)
    BY NetSum
  <2>2. MapThenSumSet(LAMBDA i : a[i].vat, at) = SumOf(g, at)
    BY VatSum
  <2>3. QED
    BY <2>1, <2>2
<1> HIDE DEF f, g, net, vat
<1>4. IntValued(net, at) /\ IntValued(vat, at)
  BY <1>2 DEF IntValued
<1>5. SumOf(f, at) = SumOf(net, at) /\ SumOf(g, at) = SumOf(vat, at)
  BY <1>1, <1>2, <1>4, SumCongruent
<1>6. SumOf(net, at) \in Nat /\ SumOf(vat, at) \in Nat
  BY <1>1, <1>2, SumType
<1>7. QED
  BY <1>1, <1>3, <1>5, <1>6 DEF net, vat

LEMMA RatesFinite ==
  ASSUME NEW r \in InvoiceRequests
  PROVE  RatesOf(r) \subseteq VatRates /\ IsFiniteSet(RatesOf(r))
<1>1. RatesOf(r) \subseteq VatRates
  BY LinesOfRequest DEF RatesOf, InvoiceLine
<1>2. IsFiniteSet({}) /\ VatRates = (({} \cup {0}) \cup {12}) \cup {21}
  BY FS_EmptySet DEF VatRates
<1>3. IsFiniteSet(({} \cup {0}) \cup {12})
  BY <1>2, FS_AddElement
<1>4. IsFiniteSet(VatRates)
  BY <1>2, <1>3, FS_AddElement
<1>5. QED
  BY <1>1, <1>4, FS_Subset

\* One row for each rate, and each row of a rate the same.
RowPerRate(mine, rates) ==
  /\ \A row \in mine : row.rate \in rates
  /\ \A q \in rates : \E row \in mine : row.rate = q
  /\ \A x, y \in mine : x.rate = y.rate => x = y

\* The sum of a column over the rows is that of the lines of the invoice.
LEMMA ColumnTotal ==
  ASSUME NEW r \in InvoiceRequests, NEW f, IntValued(f, 1 .. Len(r.lines)),
         NEW mine, RowPerRate(mine, RatesOf(r)),
         NEW col, \A row \in mine : col[row] = SumOf(f, LinesAt(r, row.rate))
  PROVE  IsFiniteSet(mine) /\ SumOf(col, mine) = SumOf(f, 1 .. Len(r.lines))
<1> DEFINE N == 1 .. Len(r.lines)
           K == RatesOf(r)
           key == [k \in N |-> r.lines[k].rate]
           totals == [q \in K |-> SumOf(f, LinesAt(r, q))]
           g == [q \in K |-> CHOOSE row \in mine : row.rate = q]
           image == {g[q] : q \in K}
<1>1. /\ IsFiniteSet(N) /\ IsFiniteSet(K) /\ DOMAIN r.lines = N
      /\ (\A k \in N : key[k] \in K) /\ IntValued(f, N)
  <2>1. IsFiniteSet(N) /\ DOMAIN r.lines = N
    BY LinesOfRequest, FS_Interval
  <2>2. QED
    BY <2>1, RatesFinite DEF RatesOf
<1>2. \A q \in K : totals[q] = SumOf(f, {k \in N : key[k] = q})
  <2> SUFFICES ASSUME NEW q \in K PROVE totals[q] = SumOf(f, {k \in N : key[k] = q})
    OBVIOUS
  <2>1. LinesAt(r, q) = {k \in N : key[k] = q}
    BY <1>1 DEF LinesAt
  <2>2. QED
    BY <2>1
<1>3. \A q \in K : g[q] \in mine /\ g[q].rate = q
  BY DEF RowPerRate
<1>4. image = mine
  BY <1>3 DEF RowPerRate
<1>5. \A x, y \in K : g[x] = g[y] => x = y
  BY <1>3
<1>6. \A q \in K : col[g[q]] = totals[q]
  BY <1>3
<1>7. IntValued(totals, K)
  <2> SUFFICES ASSUME NEW q \in K PROVE SumOf(f, {k \in N : key[k] = q}) \in Int
    BY <1>2 DEF IntValued
  <2> DEFINE Q == {k \in N : key[k] = q}
  <2>1. IsFiniteSet(Q) /\ IntValued(f, Q)
    BY <1>1, FS_Subset DEF IntValued
  <2> HIDE DEF Q
  <2>2. SumOf(f, Q) \in Int
    BY <2>1, SumType
  <2>3. QED
    BY <2>2 DEF Q
<1> HIDE DEF N, K, key, totals, g
<1>8. SumOf(totals, K) = SumOf(f, N)
  <2>1. ByKey(totals, f, N, K, key)
    BY <1>1, <1>2 DEF ByKey
  <2>2. QED
    BY <1>1, <2>1, SumByKey
<1>9. IsFiniteSet(image) /\ SumOf(col, image) = SumOf(totals, K)
  BY <1>1, <1>5, <1>6, <1>7, SumImage
<1>10. QED
  BY <1>4, <1>8, <1>9 DEF N

-----------------------------------------------------------------------------
\* What is stored of an invoice.
Agrees(row, new) ==
  RegisterColumns \subseteq DOMAIN row /\ \A c \in RegisterColumns : row[c] = new[c]

\* The row create_invoice inserts for the rate q of the i-th invoice.
RowFor(i, r, a, q) == RegisterRow(i, r, a, q, LinesAt(r, q))

\* The register rows of an invoice, whatever their flags.
RowsStored(i, r, a, rows) ==
  LET mine == {row \in rows : row.invoice = i}
  IN  IF r.type = "PROFORMA" THEN mine = {}
      ELSE RowPerRate(mine, RatesOf(r)) /\ \A row \in mine : Agrees(row, RowFor(i, r, a, row.rate))

\* The stored lines of an entry are those the request was posted with.
EntryStored(id, r, rate, ls) == LinesOf(ls, id) = LineRows(id, JournalLines(r, rate), RateScale)

\* The rows of an invoice hold its net amount and its tax.
LEMMA RowSums ==
  ASSUME NEW i, NEW r \in InvoiceRequests, NEW a, IsAmounts(a, Len(r.lines)),
         NEW mine, RowPerRate(mine, RatesOf(r)),
         \A row \in mine : Agrees(row, RowFor(i, r, a, row.rate))
  PROVE  /\ MapThenSumSet(LAMBDA row : row.tax, mine) = TotalVat(a)
         /\ MapThenSumSet(LAMBDA row : row.base, mine) = TotalNet(a)
         /\ \A row \in mine : row.tax \in Nat /\ row.base \in Nat
         /\ IsFiniteSet(mine)
<1> DEFINE n == Len(r.lines)
           tax == [row \in mine |-> row.tax]
           base == [row \in mine |-> row.base]
           vat == VatOf(a)
           net == NetOf(a)
<1>1. n \in Nat /\ DOMAIN r.lines = 1 .. n
  BY LinesOfRequest
<1>2. ASSUME NEW row \in mine
      PROVE  /\ row.tax = SumOf(vat, LinesAt(r, row.rate)) /\ row.tax \in Nat
             /\ row.base = SumOf(net, LinesAt(r, row.rate)) /\ row.base \in Nat
  <2> DEFINE at == LinesAt(r, row.rate)
  <2>1. at \in SUBSET (1 .. n)
    BY <1>1 DEF LinesAt
  <2>2. /\ RowFor(i, r, a, row.rate).tax = MapThenSumSet(LAMBDA k : a[k].vat, at)
        /\ RowFor(i, r, a, row.rate).base = MapThenSumSet(LAMBDA k : a[k].net, at)
    BY DEF RowFor, RegisterRow
  <2>3. /\ row.tax = RowFor(i, r, a, row.rate).tax
        /\ row.base = RowFor(i, r, a, row.rate).base
    BY DEF Agrees, RegisterColumns
  <2> HIDE DEF at
  <2>4. /\ MapThenSumSet(LAMBDA k : a[k].vat, at) = SumOf(vat, at)
        /\ MapThenSumSet(LAMBDA k : a[k].net, at) = SumOf(net, at)
        /\ SumOf(net, at) \in Nat /\ SumOf(vat, at) \in Nat
    BY <1>1, <2>1, ColumnsOfAmounts
  <2>5. QED
    BY <2>2, <2>3, <2>4 DEF at
<1>3. /\ \A row \in mine : tax[row] = SumOf(vat, LinesAt(r, row.rate))
      /\ \A row \in mine : base[row] = SumOf(net, LinesAt(r, row.rate))
  BY <1>2
<1>4. IntValued(vat, 1 .. n) /\ IntValued(net, 1 .. n)
  BY DEF IntValued, IsAmounts, VatOf, NetOf
<1>5. TotalVat(a) = SumOf(vat, 1 .. n) /\ TotalNet(a) = SumOf(net, 1 .. n)
  <2>1. DOMAIN a = 1 .. n /\ 1 .. n \in SUBSET (1 .. n)
    BY DEF IsAmounts
  <2> HIDE DEF n
  <2>2. /\ MapThenSumSet(LAMBDA k : a[k].vat, 1 .. n) = SumOf(vat, 1 .. n)
        /\ MapThenSumSet(LAMBDA k : a[k].net, 1 .. n) = SumOf(net, 1 .. n)
    BY <1>1, <2>1, ColumnsOfAmounts DEF n
  <2>3. QED
    BY <2>1, <2>2 DEF TotalVat, TotalNet
<1>6. /\ MapThenSumSet(LAMBDA row : row.tax, mine) = SumOf(tax, mine)
      /\ MapThenSumSet(LAMBDA row : row.base, mine) = SumOf(base, mine)
  BY TaxSum, BaseSum
<1> HIDE DEF tax, base, vat, net
<1>7. /\ SumOf(tax, mine) = SumOf(vat, 1 .. n) /\ SumOf(base, mine) = SumOf(net, 1 .. n)
      /\ IsFiniteSet(mine)
  <2>1. SumOf(tax, mine) = SumOf(vat, 1 .. n) /\ IsFiniteSet(mine)
    BY <1>3, <1>4, ColumnTotal
  <2>2. SumOf(base, mine) = SumOf(net, 1 .. n)
    BY <1>3, <1>4, ColumnTotal
  <2>3. QED
    BY <2>1, <2>2
<1>8. QED
  BY <1>2, <1>5, <1>6, <1>7

-----------------------------------------------------------------------------
(* The inductive invariant: what is stored of an invoice is what its        *)
(* request and rate say, but for the submission flags.                      *)

\* The columns of vat_register.
FlaggedColumns == RegisterColumns \cup {"khSubmitted", "priznaniSubmitted"}

RowsTyped ==
  \A row \in vatRegister :
    /\ FlaggedColumns \subseteq DOMAIN row /\ row.invoice \in DOMAIN invoices
    /\ row.khSubmitted \in BOOLEAN /\ row.priznaniSubmitted \in BOOLEAN

\* The entry and the rows of an invoice both follow from its request and rate.
InvoiceStored(i, x, ls, rows) ==
  /\ x.rate \in Nat \ {0}
  /\ EntryStored(x.entry, x.request, x.rate, ls)
  /\ RowsStored(i, x.request, Amounts(x.request, x.rate), rows)

\* The inductive invariant of the register.
RegisterStored ==
  /\ RowsTyped
  /\ \A i \in DOMAIN invoices : InvoiceStored(i, invoices[i], lines, vatRegister)

\* What is read of a row that was just inserted.
IsNewRow(x, i, r, a, q) ==
  /\ FlaggedColumns \subseteq DOMAIN x
  /\ x.invoice = i /\ x.rate = q
  /\ x.section = Section(r, TotalVat(a)) /\ x.detail \in BOOLEAN
  /\ x.khSubmitted = FALSE /\ x.priznaniSubmitted = FALSE

LEMMA RowForColumns ==
  ASSUME NEW i, NEW r, NEW a, NEW q
  PROVE  IsNewRow(RowFor(i, r, a, q), i, r, a, q)
<1> DEFINE base == MapThenSumSet(LAMBDA k : a[k].net, LinesAt(r, q))
           tax == MapThenSumSet(LAMBDA k : a[k].vat, LinesAt(r, q))
           section == Section(r, TotalVat(a))
           x == RowFor(i, r, a, q)
<1>1. x = [invoice |-> i, rate |-> q, base |-> base, tax |-> tax,
           section |-> section, detail |-> section \in DetailSections,
           khSubmitted |-> FALSE, priznaniSubmitted |-> FALSE]
  BY DEF RowFor, RegisterRow
<1>2. (section \in DetailSections) \in BOOLEAN
  OBVIOUS
<1> HIDE DEF base, tax, section, x
<1>3. QED
  BY <1>1, <1>2 DEF IsNewRow, FlaggedColumns, RegisterColumns, x, section

\* Rows that are replaced one by one by rows with the same columns.
LEMMA RowsReplaced ==
  ASSUME NEW i, NEW r, NEW a, NEW rows, RowsStored(i, r, a, rows),
         NEW m, \A row \in rows : Agrees(m[row], row)
  PROVE  RowsStored(i, r, a, {m[row] : row \in rows})
<1> DEFINE mine == {row \in rows : row.invoice = i}
           new == {row \in {m[row] : row \in rows} : row.invoice = i}
<1>1. \A row \in rows : m[row].invoice = row.invoice /\ m[row].rate = row.rate
  BY DEF Agrees, RegisterColumns
<1>2. new = {m[row] : row \in mine}
  BY <1>1
<1>3. CASE r.type = "PROFORMA"
  <2>1. mine = {}
    BY <1>3 DEF RowsStored
  <2>2. QED
    BY <1>2, <1>3, <2>1 DEF RowsStored
<1>4. CASE r.type # "PROFORMA"
  <2>1. /\ RowPerRate(mine, RatesOf(r))
        /\ \A row \in mine : Agrees(row, RowFor(i, r, a, row.rate))
    BY <1>4 DEF RowsStored
  <2>2. RowPerRate(new, RatesOf(r))
    BY <1>1, <1>2, <2>1 DEF RowPerRate
  <2>3. \A row \in mine : Agrees(m[row], RowFor(i, r, a, m[row].rate))
    BY <1>1, <2>1 DEF Agrees
  <2>4. \A row \in new : Agrees(row, RowFor(i, r, a, row.rate))
    BY <1>2, <2>3
  <2>5. QED
    BY <1>4, <2>2, <2>4 DEF RowsStored
<1>5. QED
  BY <1>3, <1>4

\* The rows of an invoice are all that is said of them.
LEMMA RowsOfOthers ==
  ASSUME NEW i, NEW r, NEW a, NEW rows, NEW new, RowsStored(i, r, a, rows),
         {row \in new : row.invoice = i} = {row \in rows : row.invoice = i}
  PROVE  RowsStored(i, r, a, new)
BY DEF RowsStored

\* A step of the ledger keeps the lines of every entry that exists.
LEMMA EntryLinesKept ==
  ASSUME TypedAndConsistent, [Next]_vars, NEW id \in DOMAIN entries
  PROVE  LinesOf(lines', id) = LinesOf(lines, id)
BY StepKeepsHistory DEF HistoryKept, LinesOf

LEMMA EntryStaysStored ==
  ASSUME TypedAndConsistent, [Next]_vars, NEW id \in DOMAIN entries, NEW r, NEW rate,
         EntryStored(id, r, rate, lines)
  PROVE  EntryStored(id, r, rate, lines')
BY EntryLinesKept DEF EntryStored

\* Requests that leave the table of invoices and the register alone.
LEMMA UnchangedStored ==
  ASSUME InvoicesInv, RegisterStored, [Next]_vars, UNCHANGED <<invoices, vatRegister>>
  PROVE  RegisterStored'
<1>1. \A i \in DOMAIN invoices : InvoiceStored(i, invoices[i], lines', vatRegister)
  <2> SUFFICES ASSUME NEW i \in DOMAIN invoices
               PROVE  InvoiceStored(i, invoices[i], lines', vatRegister)
    OBVIOUS
  <2>1. TypedAndConsistent /\ invoices[i].entry \in DOMAIN entries
    BY DEF InvoicesInv, InvoicesLinked, Linked
  <2>2. InvoiceStored(i, invoices[i], lines, vatRegister)
    BY DEF RegisterStored
  <2>3. QED
    BY <2>1, <2>2, EntryStaysStored DEF InvoiceStored
<1>2. QED
  BY <1>1 DEF RegisterStored, RowsTyped

\* Requests that only change flags of rows.
LEMMA ReplacedStored ==
  ASSUME InvoicesInv, RegisterStored, [Next]_vars,
         NEW m, vatRegister' = {m[row] : row \in vatRegister},
         \A row \in vatRegister : /\ Agrees(m[row], row) /\ FlaggedColumns \subseteq DOMAIN m[row]
                                  /\ m[row].khSubmitted \in BOOLEAN
                                  /\ m[row].priznaniSubmitted \in BOOLEAN,
         DOMAIN invoices' = DOMAIN invoices,
         \A i \in DOMAIN invoices : /\ invoices'[i].request = invoices[i].request
                                    /\ invoices'[i].rate = invoices[i].rate
                                    /\ invoices'[i].entry = invoices[i].entry
  PROVE  RegisterStored'
<1>1. ASSUME NEW i \in DOMAIN invoices
      PROVE  InvoiceStored(i, invoices'[i], lines', vatRegister')
  <2> DEFINE r == invoices[i].request
             a == Amounts(r, invoices[i].rate)
  <2>1. TypedAndConsistent /\ invoices[i].entry \in DOMAIN entries
    BY DEF InvoicesInv, InvoicesLinked, Linked
  <2>2. /\ invoices[i].rate \in Nat \ {0}
        /\ EntryStored(invoices[i].entry, r, invoices[i].rate, lines)
        /\ RowsStored(i, r, a, vatRegister)
    BY DEF RegisterStored, InvoiceStored
  <2>3. EntryStored(invoices[i].entry, r, invoices[i].rate, lines')
    BY <2>1, <2>2, EntryStaysStored
  <2> HIDE DEF r, a
  <2>4. RowsStored(i, r, a, {m[row] : row \in vatRegister})
    BY <2>2, RowsReplaced
  <2>5. QED
    BY <2>2, <2>3, <2>4 DEF InvoiceStored, r, a
<1>2. \A row \in vatRegister : m[row].invoice = row.invoice
  BY DEF Agrees, RegisterColumns
<1>3. RowsTyped'
  BY <1>2 DEF RegisterStored, RowsTyped
<1>4. QED
  BY <1>1, <1>3 DEF RegisterStored

\* Voiding an invoice clears flags and posts other lines.
LEMMA VoidInvoiceStored ==
  ASSUME InvoicesInv, RegisterStored, NEW i \in DOMAIN invoices, NEW p \in Periods,
         VoidInvoice(i, p)
  PROVE  RegisterStored'
<1> DEFINE m == [row \in vatRegister |->
                   IF row.invoice = i THEN [row EXCEPT !.khSubmitted = FALSE] ELSE row]
<1>1. [Next]_vars
  BY VoidInvoiceIsReversal DEF Next, InvoicesInv, InvoicesLinked
<1>2. vatRegister' = {m[row] : row \in vatRegister}
  BY DEF VoidInvoice
<1>3. \A row \in vatRegister : /\ Agrees(m[row], row) /\ FlaggedColumns \subseteq DOMAIN m[row]
                               /\ m[row].khSubmitted \in BOOLEAN
                               /\ m[row].priznaniSubmitted \in BOOLEAN
  BY DEF RegisterStored, RowsTyped, Agrees, FlaggedColumns, RegisterColumns
<1>4. /\ DOMAIN invoices' = DOMAIN invoices
      /\ \A j \in DOMAIN invoices : /\ invoices'[j].request = invoices[j].request
                                    /\ invoices'[j].rate = invoices[j].rate
                                    /\ invoices'[j].entry = invoices[j].entry
  <2>1. invoices' = [invoices EXCEPT ![i].status = "voided"]
    BY DEF VoidInvoice
  <2>2. invoices \in Seq(Invoice)
    BY DEF InvoicesInv, InvoicesLinked
  <2>3. \A j \in DOMAIN invoices : invoices[j] \in Invoice
    BY <2>2
  <2>4. QED
    BY <2>1, <2>3 DEF Invoice
<1> HIDE DEF m
<1>5. QED
  BY <1>1, <1>2, <1>3, <1>4, ReplacedStored

\* The rows a new invoice adds.
LEMMA NewRowsStored ==
  ASSUME NEW i, NEW r, NEW a, NEW old, \A row \in old : row.invoice # i
  PROVE  /\ r.type # "PROFORMA" => RowsStored(i, r, a, old \cup RegisterRows(i, r, a))
         /\ r.type = "PROFORMA" => RowsStored(i, r, a, old)
<1>1. RegisterRows(i, r, a) = {RowFor(i, r, a, q) : q \in RatesOf(r)}
  BY DEF RegisterRows, RowFor
<1>2. \A q \in RatesOf(r) : RowFor(i, r, a, q).invoice = i /\ RowFor(i, r, a, q).rate = q
                            /\ RegisterColumns \subseteq DOMAIN RowFor(i, r, a, q)
  <2>1. \A q \in RatesOf(r) : IsNewRow(RowFor(i, r, a, q), i, r, a, q)
    BY RowForColumns
  <2>2. QED
    BY <2>1 DEF IsNewRow, FlaggedColumns
<1> DEFINE mine == {row \in old \cup RegisterRows(i, r, a) : row.invoice = i}
<1>3. mine = {RowFor(i, r, a, q) : q \in RatesOf(r)}
  BY <1>1, <1>2
<1>4. RowPerRate(mine, RatesOf(r))
  BY <1>2, <1>3 DEF RowPerRate
<1>5. \A row \in mine : Agrees(row, RowFor(i, r, a, row.rate))
  BY <1>2, <1>3 DEF Agrees
<1>6. QED
  BY <1>4, <1>5 DEF RowsStored

\* A new invoice is stored as it was requested; the others keep what they have.
LEMMA PostInvoiceStored ==
  ASSUME InvoicesInv, RegisterStored, NEW r \in InvoiceRequests,
         NEW rate \in RatesFor(r.currency), PostInvoice(r, rate)
  PROVE  RegisterStored'
<1> DEFINE n == Len(invoices) + 1
           k == Len(entries) + 1
           x == [request |-> r, rate |-> rate, status |-> "posted", entry |-> k,
                 paid |-> FALSE]
           a == Amounts(r, rate)
           legs == JournalLines(r, rate)
           new == RegisterRows(n, r, a)
<1>1. /\ entries \in Seq(Entry) /\ invoices \in Seq(Invoice) /\ TypedAndConsistent
      /\ \A l \in lines : l.entry \in DOMAIN entries
      /\ k \in Nat \ {0} /\ n \in Nat \ {0} /\ TypeOK
  BY DEF TypedAndConsistent, TypeOK, InvoicesInv, InvoicesLinked
<1>2. [Next]_vars
  BY <1>1, PostInvoiceIsPosting DEF Next
<1>3. /\ invoices' = Append(invoices, x)
      /\ vatRegister' = IF r.type = "PROFORMA" THEN vatRegister ELSE vatRegister \cup new
  BY DEF PostInvoice
<1>4. lines' = lines \cup LineRows(k, legs, RateScale)
  BY DEF PostInvoice, PostJournalEntry, Commit, PostTo, Tables
<1>5. k \notin DOMAIN entries
  BY <1>1
<1>6. x.rate = rate /\ x.entry = k /\ x.request = r /\ rate \in Nat \ {0}
  BY RateType
<1>7. /\ DOMAIN invoices' = 1 .. n /\ DOMAIN invoices = 1 .. n - 1
      /\ invoices'[n] = x /\ \A i \in 1 .. n - 1 : invoices'[i] = invoices[i]
  BY <1>1, <1>3
<1>8. \A row \in new : /\ row.invoice = n /\ FlaggedColumns \subseteq DOMAIN row
                       /\ row.khSubmitted = FALSE /\ row.priznaniSubmitted = FALSE
  <2>1. \A row \in new : \E q : row = RowFor(n, r, a, q)
    BY DEF RegisterRows, RowFor
  <2> HIDE DEF n, a, new
  <2>2. \A row \in new : \E q : IsNewRow(row, n, r, a, q)
    BY <2>1, RowForColumns
  <2>3. QED
    BY <2>2 DEF IsNewRow
<1> HIDE DEF x, k, n, a, legs, new
<1>9. LinesOf(lines', k) = LineRows(k, legs, RateScale)
  <2>1. \A l \in LineRows(k, legs, RateScale) : l.entry = k
    BY DEF LineRows
  <2>2. QED
    BY <1>1, <1>4, <1>5, <2>1 DEF LinesOf
<1>10. n \notin 1 .. n - 1 /\ \A i \in 1 .. n : i = n \/ i \in 1 .. n - 1
  BY <1>1
<1>11. \A row \in vatRegister : row.invoice # n
  BY <1>7, <1>10 DEF RegisterStored, RowsTyped
<1>12. InvoiceStored(n, x, lines', vatRegister')
  <2>1. EntryStored(k, r, rate, lines')
    BY <1>9 DEF EntryStored, legs
  <2>2. RowsStored(n, r, a, vatRegister')
    BY <1>3, <1>11, NewRowsStored DEF new
  <2>3. QED
    BY <1>6, <2>1, <2>2 DEF InvoiceStored, a
<1>13. ASSUME NEW i \in 1 .. n - 1
       PROVE  InvoiceStored(i, invoices[i], lines', vatRegister')
  <2> DEFINE y == invoices[i]
             b == Amounts(y.request, y.rate)
  <2>1. y.entry \in DOMAIN entries
    BY <1>7 DEF InvoicesInv, InvoicesLinked, Linked
  <2>2. /\ y.rate \in Nat \ {0} /\ EntryStored(y.entry, y.request, y.rate, lines)
        /\ RowsStored(i, y.request, b, vatRegister)
    BY <1>7 DEF RegisterStored, InvoiceStored
  <2>3. EntryStored(y.entry, y.request, y.rate, lines')
    BY <1>1, <1>2, <2>1, <2>2, EntryStaysStored
  <2>4. {row \in vatRegister' : row.invoice = i} = {row \in vatRegister : row.invoice = i}
    BY <1>3, <1>8, <1>10
  <2>5. RowsStored(i, y.request, b, vatRegister')
    BY <2>2, <2>4, RowsOfOthers
  <2>6. QED
    BY <2>2, <2>3, <2>5 DEF InvoiceStored
<1>14. \A i \in DOMAIN invoices' : InvoiceStored(i, invoices'[i], lines', vatRegister')
  BY <1>7, <1>10, <1>12, <1>13
<1>15. RowsTyped'
  <2>1. \A row \in vatRegister' : row \in vatRegister \/ row \in new
    BY <1>3
  <2>2. \A i \in DOMAIN invoices : i \in DOMAIN invoices'
    BY <1>1, <1>7
  <2>3. n \in DOMAIN invoices'
    BY <1>1, <1>7
  <2>4. QED
    BY <1>8, <2>1, <2>2, <2>3 DEF RegisterStored, RowsTyped
<1>16. QED
  BY <1>14, <1>15 DEF RegisterStored

LEMMA RegisterStoredInit == InvoicesInit => RegisterStored
BY DEF InvoicesInit, RegisterStored, RowsTyped

\* Every request keeps the invariant.
LEMMA RegisterStoredStep ==
  InvoicesInv /\ RegisterStored /\ [InvoicesNext]_allInvoiceVars => RegisterStored'
<1> SUFFICES ASSUME InvoicesInv, RegisterStored, [InvoicesNext]_allInvoiceVars
             PROVE  RegisterStored'
  OBVIOUS
<1>1. [Next]_vars
  BY InvoicesStepIsLedgerStep DEF InvoicesInv, InvoicesLinked, TypedAndConsistent
<1>2. CASE UNCHANGED <<invoices, vatRegister>>
  BY <1>1, <1>2, UnchangedStored
<1>3. ASSUME NEW r \in InvoiceRequests, NEW rate \in RatesFor(r.currency),
             PostInvoice(r, rate)
      PROVE  RegisterStored'
  BY <1>3, PostInvoiceStored
<1>4. ASSUME NEW i \in DOMAIN invoices, NEW p \in Periods, VoidInvoice(i, p)
      PROVE  RegisterStored'
  BY <1>4, VoidInvoiceStored
<1>5. QED
  BY <1>2, <1>3, <1>4
  DEF InvoicesNext, InvoiceRequested, LedgerRequest, ResolveAlert, allInvoiceVars,
      invoiceVars

-----------------------------------------------------------------------------
(* What follows from the invariant. *)

\* The stored lines of an entry hold the net amount and the tax of the request.
LEMMA EntryMatches ==
  ASSUME InvoicesLeaveVatAccount, NEW r \in InvoiceRequests, NEW rate \in Nat \ {0},
         NEW id, NEW ls, EntryStored(id, r, rate, ls)
  PROVE  LET legs == OnSide(LinesOf(ls, id), RevenueSide(r))
         IN  /\ TotalCzk({l \in legs : l.account = "343"}) = TotalVat(Amounts(r, rate))
             /\ TotalCzk(legs) = TotalVat(Amounts(r, rate)) + TotalNet(Amounts(r, rate))
<1> DEFINE a == Amounts(r, rate)
           n == Len(r.lines)
           s == RevenueSide(r)
           legs == JournalLines(r, rate)
<1>1. IsAmounts(a, n) /\ n \in Nat
  BY AmountsType, LinesOfRequest
<1>2. Shaped(legs, a, n, s)
  BY JournalLinesShape
<1>3. NetAndVatLegs(legs, a, n, s)
  BY <1>2 DEF Shaped
<1>4. LinesOf(ls, id) = LineRows(id, legs, RateScale)
  BY DEF EntryStored
<1> HIDE DEF a, n, s, legs
<1>5. QED
  BY <1>1, <1>3, <1>4, EntrySums DEF a, s

\* Rows and lines hold the same amounts.
LEMMA StoredMatches ==
  ASSUME InvoicesLeaveVatAccount, InvoicesInv, RegisterStored
  PROVE  RegisterMatchesEntry
<1> SUFFICES ASSUME NEW i \in DOMAIN invoices
             PROVE  LET rows == RowsOf(i)
                        side == IF invoices[i].request.direction = "ISSUED" THEN "CREDIT"
                                ELSE "DEBIT"
                        legs == OnSide(LinesOf(lines, invoices[i].entry), side)
                        tax == MapThenSumSet(LAMBDA row : row.tax, rows)
                    IN  IF invoices[i].request.type = "PROFORMA" THEN rows = {}
                        ELSE /\ \A a, b \in rows : a.rate = b.rate => a = b
                             /\ tax = TotalCzk({l \in legs : l.account = "343"})
                             /\ tax + MapThenSumSet(LAMBDA row : row.base, rows) = TotalCzk(legs)
  BY DEF RegisterMatchesEntry
<1> DEFINE r == invoices[i].request
           rate == invoices[i].rate
           a == Amounts(r, rate)
           mine == RowsOf(i)
           legs == OnSide(LinesOf(lines, invoices[i].entry), RevenueSide(r))
<1>1. r \in InvoiceRequests
  <2>1. invoices[i] \in Invoice
    BY DEF InvoicesInv, InvoicesLinked
  <2>2. QED
    BY <2>1 DEF Invoice
<1>2. /\ rate \in Nat \ {0} /\ EntryStored(invoices[i].entry, r, rate, lines)
      /\ RowsStored(i, r, a, vatRegister)
  BY DEF RegisterStored, InvoiceStored
<1>3. mine = {row \in vatRegister : row.invoice = i}
  BY DEF RowsOf
<1>4. CASE r.type = "PROFORMA"
  BY <1>2, <1>3, <1>4 DEF RowsStored
<1>5. CASE r.type # "PROFORMA"
  <2>1. RowPerRate(mine, RatesOf(r)) /\ \A row \in mine : Agrees(row, RowFor(i, r, a, row.rate))
    BY <1>2, <1>3, <1>5 DEF RowsStored
  <2>2. IsAmounts(a, Len(r.lines))
    BY <1>1, <1>2, AmountsType
  <2>3. /\ TotalCzk({l \in legs : l.account = "343"}) = TotalVat(a)
        /\ TotalCzk(legs) = TotalVat(a) + TotalNet(a)
    BY <1>1, <1>2, EntryMatches
  <2> HIDE DEF r, a, mine
  <2>4. /\ MapThenSumSet(LAMBDA row : row.tax, mine) = TotalVat(a)
        /\ MapThenSumSet(LAMBDA row : row.base, mine) = TotalNet(a)
    BY <1>1, <2>1, <2>2, RowSums
  <2>5. \A x, y \in mine : x.rate = y.rate => x = y
    BY <2>1 DEF RowPerRate
  <2>6. legs = OnSide(LinesOf(lines, invoices[i].entry),
                      IF r.direction = "ISSUED" THEN "CREDIT" ELSE "DEBIT")
    BY DEF RevenueSide
  <2> HIDE DEF legs
  <2>7. QED
    BY <1>5, <2>3, <2>4, <2>5, <2>6 DEF r, mine
<1>6. QED
  BY <1>4, <1>5

-----------------------------------------------------------------------------
\* The sections of the control statement.
Sections == {"A1", "A2", "A3", "A4", "B1", "B2", "B3"}

LEMMA SectionType ==
  ASSUME NEW r \in InvoiceRequests, NEW vat
  PROVE  Section(r, vat) \in Sections
<1>1. /\ r.direction \in {"ISSUED", "RECEIVED"}
      /\ r.vatPayer \in BOOLEAN /\ r.reverseCharge \in BOOLEAN
  BY InvoicesAssumption DEF InvoiceRequest
<1>2. CASE r.direction = "ISSUED"
  <2>1. CASE r.type = "ADVANCE"
    BY <1>2, <2>1 DEF Section, Sections
  <2>2. CASE r.type # "ADVANCE" /\ r.vatPayer
    BY <1>2, <2>2 DEF Section, Sections
  <2>3. CASE r.type # "ADVANCE" /\ ~r.vatPayer
    BY <1>2, <2>3 DEF Section, Sections
  <2>4. QED
    BY <1>1, <2>1, <2>2, <2>3
<1>3. CASE r.direction = "RECEIVED"
  BY <1>1, <1>3 DEF Section, Sections
<1>4. QED
  BY <1>1, <1>2, <1>3

\* The rows have the types of their columns.
LEMMA RowsHaveTypes ==
  ASSUME InvoicesInv, RegisterStored, NEW row \in vatRegister
  PROVE  /\ row.invoice \in DOMAIN invoices
         /\ row.rate \in VatRates /\ row.base \in Nat /\ row.tax \in Nat
         /\ row.section \in Sections
         /\ {row.detail, row.khSubmitted, row.priznaniSubmitted} \subseteq BOOLEAN
<1> DEFINE i == row.invoice
           r == invoices[i].request
           rate == invoices[i].rate
           a == Amounts(r, rate)
           mine == {x \in vatRegister : x.invoice = i}
           new == RowFor(i, r, a, row.rate)
<1>1. /\ i \in DOMAIN invoices
      /\ row.khSubmitted \in BOOLEAN /\ row.priznaniSubmitted \in BOOLEAN
  BY DEF RegisterStored, RowsTyped
<1>2. r \in InvoiceRequests
  <2>1. invoices[i] \in Invoice
    BY <1>1 DEF InvoicesInv, InvoicesLinked
  <2>2. QED
    BY <2>1 DEF Invoice
<1>3. rate \in Nat \ {0} /\ RowsStored(i, r, a, vatRegister)
  BY <1>1 DEF RegisterStored, InvoiceStored
<1>4. RowPerRate(mine, RatesOf(r)) /\ \A x \in mine : Agrees(x, RowFor(i, r, a, x.rate))
  <2>1. row \in mine
    OBVIOUS
  <2> HIDE DEF i, r, a
  <2>2. QED
    BY <1>3, <2>1 DEF RowsStored
<1>5. row.rate \in VatRates
  BY <1>2, <1>4, RatesFinite DEF RowPerRate
<1>6. row.tax \in Nat /\ row.base \in Nat
  <2>1. IsAmounts(a, Len(r.lines))
    BY <1>2, <1>3, AmountsType
  <2>2. row \in mine
    OBVIOUS
  <2> HIDE DEF i, r, a, mine
  <2>3. \A x \in mine : x.tax \in Nat /\ x.base \in Nat
    BY <1>2, <1>4, <2>1, RowSums
  <2>4. QED
    BY <2>2, <2>3
<1>7. row.section \in Sections /\ row.detail \in BOOLEAN
  <2> HIDE DEF r, a
  <2>1. IsNewRow(new, i, r, a, row.rate)
    BY RowForColumns
  <2>2. Agrees(row, new)
    BY <1>4
  <2> HIDE DEF new
  <2>3. row.section = new.section /\ row.detail = new.detail
    BY <2>2 DEF Agrees, RegisterColumns
  <2>4. new.section \in Sections /\ new.detail \in BOOLEAN
    BY <1>2, <2>1, SectionType DEF IsNewRow
  <2>5. QED
    BY <2>3, <2>4
<1>8. QED
  BY <1>1, <1>5, <1>6, <1>7

AlertsTyped == \A alert \in openAlerts : alert.rule \in InvoiceRules

LEMMA AlertsTypedStep == AlertsTyped /\ [InvoicesNext]_allInvoiceVars => AlertsTyped'
<1> SUFFICES ASSUME AlertsTyped, [InvoicesNext]_allInvoiceVars PROVE AlertsTyped'
  OBVIOUS
<1>1. ASSUME NEW r \in InvoiceRequests, NEW rate \in RatesFor(r.currency),
             PostInvoice(r, rate)
      PROVE  AlertsTyped'
  <2> DEFINE id == About("invoice", Len(invoices) + 1)
             found == Findings(r, TotalGross(Amounts(r, rate)))
  <2>1. openAlerts' = openAlerts \cup {[rule |-> rule, about |-> id] : rule \in found}
    BY <1>1 DEF PostInvoice
  <2>2. found \subseteq InvoiceRules
    BY DEF Findings
  <2> HIDE DEF id, found
  <2>3. QED
    BY <2>1, <2>2 DEF AlertsTyped
<1>2. QED
  BY <1>1
  DEF InvoicesNext, InvoiceRequested, LedgerRequest, ResolveAlert, VoidInvoice, allInvoiceVars,
      invoiceVars, AlertsTyped

LEMMA RegisterAlways == InvoicesSpec => [](InvoicesInv /\ RegisterStored)
BY InvoicesInvInit, InvoicesInvStep, RegisterStoredInit, RegisterStoredStep, PTL DEF InvoicesSpec

\* Invoices refer to entries, and a register row to its invoice, with columns of
\* their types: a base or a tax is never negative, for any amounts and rates.
THEOREM InvoicesTypeCorrect == InvoicesSpec => []InvoicesTypeOK
<1>1. InvoicesInit => AlertsTyped
  BY DEF InvoicesInit, AlertsTyped
<1>2. InvoicesInv /\ RegisterStored /\ AlertsTyped => InvoicesTypeOK
  BY RowsHaveTypes DEF InvoicesTypeOK, AlertsTyped, InvoicesInv, InvoicesLinked, Linked, Sections
<1>3. QED
  BY <1>1, <1>2, AlertsTypedStep, RegisterAlways, PTL DEF InvoicesSpec

\* The register holds, of every invoice, the very amounts its journal entry has
\* on 343 and on its revenue or cost side, whatever the lines, VAT rates,
\* exchange rates and roundings, provided that no line names 343 itself.
THEOREM RegisterAgreesWithBooks ==
  ASSUME InvoicesLeaveVatAccount
  PROVE  InvoicesSpec => []RegisterMatchesEntry
<1>1. InvoicesInv /\ RegisterStored => RegisterMatchesEntry
  BY StoredMatches
<1>2. QED
  BY <1>1, RegisterAlways, PTL
=============================================================================
