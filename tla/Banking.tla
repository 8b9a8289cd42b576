------------------------------ MODULE Banking ------------------------------
(***************************************************************************)
(* Bank statements: import, automatic and manual matching of transactions  *)
(* to invoices, settlement entries, and unmatching.                        *)
(*                                                                         *)
(* import_transactions and run_auto_match loop over rows in one database   *)
(* transaction whose session flushes before each query, so an iteration    *)
(* sees the writes of those before it: both are folds over the tables.     *)
(***************************************************************************)
EXTENDS Invoices, SequencesExt

CONSTANTS
  StatementRows,   \* rows the parsers return
  Statements,      \* statements a client may upload: sequences of rows
  Plausible,       \* <<row, invoice request>>: counterparty and date agree
  MaxTransactions  \* bound: bank transactions of a behaviour

\* `date` stands for the bank account and the day, `name` for the columns that
\* are not compared by the import.
StatementRow ==
  [date : Nat, period : Periods, amount : Nat, direction : {"CREDIT", "DEBIT"},
   vs : Symbols \cup {NoSymbol}, payer : STRING, name : STRING]

ASSUME BankingAssumption ==
  /\ "221" \in Accounts
  /\ StatementRows \subseteq StatementRow
  /\ Statements \subseteq Seq(StatementRows)
  /\ Plausible \subseteq StatementRows \X InvoiceRequests
  /\ MaxTransactions \in Nat

VARIABLE
  txs  \* bank_transactions, in the order they were imported

allBankVars == <<allInvoiceVars, txs>>

NoInvoice == 0  \* matched_invoice_id is null

Transaction ==
  [row : StatementRows, status : {"UNMATCHED", "SUGGESTED", "MATCHED"},
   reconciled : BOOLEAN, invoice : Nat, entry : Nat]

BankRules == {"BANK_TX_SUGGESTED", "BANK_TX_UNMATCHED"}

AboutTransaction(t) == About("transaction", t)

----------------------------------------------------------------------------
(* The tables a request reads and writes. *)

BankTables ==
  [entries |-> entries, lines |-> lines, balances |-> balances,
   invoices |-> invoices, alerts |-> openAlerts, txs |-> txs]

CommitBank(db) ==
  /\ Commit(db)
  /\ invoices' = db.invoices
  /\ openAlerts' = db.alerts
  /\ txs' = db.txs
  /\ UNCHANGED <<period, vatRegister>>

----------------------------------------------------------------------------
(* import_transactions *)

Key(row) == <<row.date, row.amount, row.direction, row.vs, row.payer>>

NewTransaction(row) ==
  [row |-> row, status |-> "UNMATCHED", reconciled |-> FALSE,
   invoice |-> NoInvoice, entry |-> NoEntry]

\* Mutant: a row is compared with the transactions of earlier imports only.
ImportedUnflushed(ts, rows) ==
  LET fresh == SelectSeq(rows, LAMBDA row : \A t \in DOMAIN ts : Key(ts[t].row) # Key(row))
  IN  ts \o [i \in DOMAIN fresh |-> NewTransaction(fresh[i])]

\* A row that a transaction equals, of this statement or an earlier one, is
\* skipped.
Imported(ts, rows) ==
  FoldLeft(LAMBDA acc, row :
             IF \E t \in DOMAIN acc : Key(acc[t].row) = Key(row) THEN acc
             ELSE Append(acc, NewTransaction(row)),
           ts, rows)

----------------------------------------------------------------------------
(* score_candidates *)

TargetDirection(row) == IF row.direction = "CREDIT" THEN "ISSUED" ELSE "RECEIVED"

\* Mutant: an invoice stays a candidate after its payment.
UnpaidOrPaid(db, row) ==
  {i \in DOMAIN db.invoices :
     /\ db.invoices[i].request.direction = TargetDirection(row)
     /\ db.invoices[i].status = "posted"}

Unpaid(db, row) ==
  {i \in DOMAIN db.invoices :
     /\ db.invoices[i].request.direction = TargetDirection(row)
     /\ db.invoices[i].status = "posted"
     /\ ~db.invoices[i].paid}

SymbolMatches(db, row) ==
  {i \in Unpaid(db, row) : row.vs # NoSymbol /\ db.invoices[i].request.symbol = row.vs}

Exact(db, row) == {i \in SymbolMatches(db, row) : GrossOf(db.invoices[i]) = row.amount}

AmountMatches(db, row) ==
  {i \in Unpaid(db, row) : /\ GrossOf(db.invoices[i]) = row.amount
                           /\ <<row, db.invoices[i].request>> \in Plausible}

\* The one invoice that is certain, as a set, or no invoice.
Certain(db, row) == {i \in Exact(db, row) : Exact(db, row) = {i}}

Suggests(db, row) == SymbolMatches(db, row) \cup AmountMatches(db, row) # {}

----------------------------------------------------------------------------
(* reconcile *)

PaymentLines(row) ==
  IF row.direction = "CREDIT"
  THEN <<Leg("221", "DEBIT", row.amount), Leg("311", "CREDIT", row.amount)>>
  ELSE <<Leg("321", "DEBIT", row.amount), Leg("221", "CREDIT", row.amount)>>

\* Neither the status nor the payment date of the invoice is looked at.  The
\* lines of a zero amount raise a ValidationError, which auto_match_all does not
\* catch; but a certain match has the gross of a posted invoice, which is positive,
\* so only POST /match can meet it, and there it is a refusal like the others.
CanReconcile(db, t, i) ==
  LET row == db.txs[t].row
  IN  /\ ~db.txs[t].reconciled
      /\ TargetDirection(row) = db.invoices[i].request.direction
      /\ Positive(PaymentLines(row))
      /\ period[row.period].status = "open"
      /\ Acceptable(PaymentLines(row))

SettlementHead == [type |-> "STANDARD", reverses |-> NoEntry, currency |-> "CZK"]

\* Mutant: the alerts of a transaction outlive its matching.
ReconciledKeepingAlerts(db, t, i) ==
  LET row == db.txs[t].row
      ledger == PostTo(db, PaymentLines(row), row.period, RateScale, SettlementHead)
  IN  [entries |-> ledger.entries, lines |-> ledger.lines, balances |-> ledger.balances,
       invoices |-> [db.invoices EXCEPT ![i].paid = TRUE],
       alerts |-> db.alerts,
       txs |-> [db.txs EXCEPT ![t] = [row |-> row, status |-> "MATCHED", reconciled |-> TRUE,
                                      invoice |-> i, entry |-> Len(ledger.entries)]]]

Reconciled(db, t, i) ==
  LET row == db.txs[t].row
      ledger == PostTo(db, PaymentLines(row), row.period, RateScale, SettlementHead)
  IN  [entries |-> ledger.entries, lines |-> ledger.lines, balances |-> ledger.balances,
       invoices |-> [db.invoices EXCEPT ![i].paid = TRUE],
       alerts |-> {alert \in db.alerts : alert.about # AboutTransaction(t)},
       txs |-> [db.txs EXCEPT ![t] = [row |-> row, status |-> "MATCHED", reconciled |-> TRUE,
                                      invoice |-> i, entry |-> Len(ledger.entries)]]]

----------------------------------------------------------------------------
(* run_auto_match *)

\* Mutant: a transaction that was flagged before is not flagged again.
FlaggedOnce(db, t, status, rule) ==
  [db EXCEPT !.txs[t].status = status,
             !.alerts = IF db.txs[t].status = "SUGGESTED" THEN @
                        ELSE @ \cup {[rule |-> rule, about |-> AboutTransaction(t)]}]

\* Mutant: the alert is about the transaction before this one.
FlaggedPrevious(db, t, status, rule) ==
  [db EXCEPT !.txs[t].status = status,
             !.alerts = @ \cup {[rule |-> rule, about |-> AboutTransaction(t - 1)]}]

\* _upsert_alert adds no second open alert of a rule about a transaction.
Flagged(db, t, status, rule) ==
  [db EXCEPT !.txs[t].status = status,
             !.alerts = @ \cup {[rule |-> rule, about |-> AboutTransaction(t)]}]

\* One iteration.  A certain match that the ledger refuses is a suggestion.
Matched(db, t) ==
  LET row == db.txs[t].row
      certain == Certain(db, row)
      bookable == {i \in certain : CanReconcile(db, t, i)}
  IN  CASE bookable # {} -> Reconciled(db, t, CHOOSE i \in bookable : TRUE)
        [] bookable = {} /\ Suggests(db, row) ->
             Flagged(db, t, "SUGGESTED", "BANK_TX_SUGGESTED")
        [] bookable = {} /\ ~Suggests(db, row) ->
             Flagged(db, t, "UNMATCHED", "BANK_TX_UNMATCHED")

Open(ts) == {t \in DOMAIN ts : ~ts[t].reconciled}

\* The query has no ORDER BY: the transactions come in any order.
AutoMatched(db, order) == FoldLeft(Matched, db, order)

Bounded(db) == Len(db.entries) <= MaxEntries /\ Len(db.txs) <= MaxTransactions

----------------------------------------------------------------------------
(* The requests. *)

ImportStatement(rows) ==
  LET ts == Imported(txs, rows)
  IN  \E order \in SetToSeqs(Open(ts)) :
        LET db == AutoMatched([BankTables EXCEPT !.txs = ts], order)
        IN  Bounded(db) /\ CommitBank(db)

AutoMatch ==
  \E order \in SetToSeqs(Open(txs)) :
    LET db == AutoMatched(BankTables, order)
    IN  Bounded(db) /\ CommitBank(db)

MatchTransaction(t, i) ==
  /\ Len(entries) < MaxEntries
  /\ CanReconcile(BankTables, t, i)
  /\ CommitBank(Reconciled(BankTables, t, i))

\* Mutant: the settlement entry is not reversed.
UnmatchOnly(t, p) ==
  /\ txs[t].reconciled
  /\ invoices' = [invoices EXCEPT ![txs[t].invoice].paid = FALSE]
  /\ txs' = [txs EXCEPT ![t] = NewTransaction(txs[t].row)]
  /\ UNCHANGED <<vars, vatRegister, openAlerts>>

\* Mutant: a settlement that was already reversed does not stop the unmatching.
UnmatchAnyway(t, p) ==
  /\ txs[t].reconciled
  /\ \/ ReverseJournalEntry(txs[t].entry, p, RateScale)
     \/ entries[txs[t].entry].status = "voided" /\ UNCHANGED vars
  /\ invoices' = [invoices EXCEPT ![txs[t].invoice].paid = FALSE]
  /\ txs' = [txs EXCEPT ![t] = NewTransaction(txs[t].row)]
  /\ UNCHANGED <<vatRegister, openAlerts>>

\* The settlement is reversed today, in any period; the invoice is unpaid even
\* when another transaction is matched to it.
UnmatchTransaction(t, p) ==
  /\ txs[t].reconciled
  /\ ReverseJournalEntry(txs[t].entry, p, RateScale)
  /\ invoices' = [invoices EXCEPT ![txs[t].invoice].paid = FALSE]
  /\ txs' = [txs EXCEPT ![t] = NewTransaction(txs[t].row)]
  /\ UNCHANGED <<vatRegister, openAlerts>>

----------------------------------------------------------------------------
BankInit == InvoicesInit /\ txs = <<>>

BankRequest ==
  \/ \E rows \in Statements : ImportStatement(rows)
  \/ AutoMatch
  \/ \E t \in DOMAIN txs, i \in DOMAIN invoices : MatchTransaction(t, i)
  \/ \E t \in DOMAIN txs, p \in Periods : UnmatchTransaction(t, p)

BankNext ==
  \/ BankRequest
  \/ (LedgerRequest \/ InvoiceRequested) /\ UNCHANGED txs

BankSpec == BankInit /\ [][BankNext]_allBankVars

----------------------------------------------------------------------------
(* Type invariant. *)

BankTypeOK ==
  /\ txs \in Seq(Transaction)
  /\ \A t \in DOMAIN txs : txs[t].reconciled => txs[t].invoice \in DOMAIN invoices
  /\ \A alert \in openAlerts :
       \/ alert.rule \in InvoiceRules
       \/ alert.rule \in BankRules /\ \E t \in DOMAIN txs : alert.about = AboutTransaction(t)

----------------------------------------------------------------------------
(* Safety. *)

OnBankAccount(e) == {l \in LinesOf(lines, e) : l.account = "221"}

\* Clients post no entry to the bank account themselves, nor does an invoice.
ClientsLeaveBankAccount ==
  /\ \A req \in ManualRequests : "221" \notin AccountsOf(req)
  /\ \A r \in InvoiceRequests : \A rate \in RatesFor(r.currency) :
       "221" \notin AccountsOf(JournalLines(r, rate))

\* The books hold the money of the matched transactions and no other: a matched
\* transaction has an entry of its own with its amount on 221, on the side it
\* moved, and an entry on 221 that is still posted, other than a reversal,
\* settles a matched transaction.  Unmatching leaves no settlement behind.
\* (Where clients leave 221 to the matching, as they do in the instance.)
SettlementsMatchTransactions ==
  /\ \A t \in DOMAIN txs : txs[t].reconciled =>
       /\ \A s \in DOMAIN txs : txs[s].entry = txs[t].entry => s = t
       /\ \E l \in OnBankAccount(txs[t].entry) :
            /\ OnBankAccount(txs[t].entry) = {l}
            /\ l.czk = txs[t].row.amount
            /\ l.side = (IF txs[t].row.direction = "CREDIT" THEN "DEBIT" ELSE "CREDIT")
  /\ \A e \in DOMAIN entries :
       entries[e].status = "posted" /\ entries[e].type = "STANDARD" /\ OnBankAccount(e) # {}
         => \E t \in DOMAIN txs : txs[t].reconciled /\ txs[t].entry = e

\* The alerts that ask for a transaction to be matched are gone once it is.
MatchedNotFlagged ==
  \A alert \in openAlerts, t \in DOMAIN txs :
    txs[t].reconciled => alert.about # AboutTransaction(t)

\* "Re-importing the same statement is idempotent": no two transactions agree in
\* everything the import compares, also when the rows are of one statement.
NoDuplicateTransactions ==
  \A s, t \in DOMAIN txs : Key(txs[s].row) = Key(txs[t].row) => s = t

NewlyMatched ==
  {t \in DOMAIN txs' : txs'[t].reconciled /\ ~(t \in DOMAIN txs /\ txs[t].reconciled)}

\* Transactions whose settlement is in the books: an entry that is still posted
\* and moves their amount on 221, on the side of the payment.
MoneyBooked ==
  {t \in DOMAIN txs :
     /\ txs[t].reconciled
     /\ entries[txs[t].entry].status = "posted"
     /\ \E l \in OnBankAccount(txs[t].entry) :
          /\ l.czk = txs[t].row.amount
          /\ l.side = (IF txs[t].row.direction = "CREDIT" THEN "DEBIT" ELSE "CREDIT")}

Promise == INSTANCE Settlement WITH
  Invoice <- 1 .. MaxInvoices,
  Nothing <- NoInvoice,
  pays <- [t \in DOMAIN txs |-> txs[t].invoice],
  booked <- MoneyBooked,
  paid <- {i \in DOMAIN invoices : invoices[i].paid}

\* Every request is one step of the abstract specification of settlement: a
\* batch pays unpaid invoices, one transaction each; money and mark come and go
\* together; and money that someone has taken out of the books is not taken out
\* again by unmatching.
KeepsPromise == Promise!SettlementSpec

\* What matching posts without a person is certain: a request that imports, or
\* matches several transactions, gives each an invoice of its own that was the
\* only posted and unpaid one with this symbol, amount and direction before.
AutoMatchesAreCertain ==
  [][Len(txs') > Len(txs) \/ Cardinality(NewlyMatched) > 1 =>
       \A t \in NewlyMatched :
         /\ \A s \in NewlyMatched : txs'[s].invoice = txs'[t].invoice => s = t
         /\ Exact(BankTables, txs'[t].row) = {txs'[t].invoice}]_allBankVars

\* An import leaves nothing unhandled: every transaction in the database is
\* matched or has an open alert afterwards, in whatever order they were taken
\* and also when the ledger refused a settlement.
ImportHandlesAll ==
  [][Len(txs') > Len(txs) =>
       \A t \in Open(txs') : \E alert \in openAlerts' : alert.about = AboutTransaction(t)]_allBankVars
=============================================================================
