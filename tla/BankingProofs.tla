--------------------------- MODULE BankingProofs ---------------------------
(***************************************************************************)
(* Proofs about Banking.  A request is handled on the record `db` of the   *)
(* tables it reads and writes.  BankOK is what is true of these tables     *)
(* between any two iterations of a batch; Since relates the tables in the  *)
(* middle of a batch to those it began with.  Both are shown of one        *)
(* iteration, then, through FoldTheorems, of the whole batch.              *)
(***************************************************************************)
EXTENDS Banking, InvoicesProofs

TablesOf(db) == [entries |-> db.entries, lines |-> db.lines, balances |-> db.balances]

IsBankDb(db) ==
  db = [entries |-> db.entries, lines |-> db.lines, balances |-> db.balances,
        invoices |-> db.invoices, alerts |-> db.alerts, txs |-> db.txs]

OnBank(ls, e) == {l \in LinesOf(ls, e) : l.account = "221"}

\* The entry moves the amount of the row on 221, in one line, on its side.
Moves(ls, e, row) ==
  \E l \in OnBank(ls, e) :
    /\ OnBank(ls, e) = {l}
    /\ l.czk = row.amount
    /\ l.side = (IF row.direction = "CREDIT" THEN "DEBIT" ELSE "CREDIT")

Settled(db, x) ==
  /\ x.invoice \in DOMAIN db.invoices
  /\ x.entry \in DOMAIN db.entries
  /\ db.entries[x.entry].currency = "CZK"
  /\ Moves(db.lines, x.entry, x.row)

IsFree(x) == ~x.reconciled /\ x.invoice = NoInvoice /\ x.entry = NoEntry

Transactions(db) ==
  /\ db.txs \in Seq(Transaction)
  /\ \A t \in DOMAIN db.txs : IsFree(db.txs[t]) \/ Settled(db, db.txs[t])
  /\ \A t \in DOMAIN db.txs : db.txs[t].reconciled <=> ~IsFree(db.txs[t])

OwnEntries(ts) ==
  \A s, t \in DOMAIN ts :
    ts[t].reconciled /\ ts[s].entry = ts[t].entry => s = t

DistinctKeys(ts) == \A s, t \in DOMAIN ts : Key(ts[s].row) = Key(ts[t].row) => s = t

AlertsFit(alerts, ts) ==
  \A alert \in alerts :
    /\ \/ alert.rule \in InvoiceRules
       \/ alert.rule \in BankRules /\ \E t \in DOMAIN ts : alert.about = AboutTransaction(t)
    /\ \A t \in DOMAIN ts : ts[t].reconciled => alert.about # AboutTransaction(t)

\* An entry on the bank account settles a transaction.
AllSettle(db) ==
  \A e \in DOMAIN db.entries :
    db.entries[e].status = "posted" /\ db.entries[e].type = "STANDARD" /\ OnBank(db.lines, e) # {}
      => \E t \in DOMAIN db.txs : db.txs[t].reconciled /\ db.txs[t].entry = e

BankOK(db) ==
  /\ IsBankDb(db)
  /\ IsTables(TablesOf(db)) /\ Consistent(TablesOf(db))
  /\ db.invoices \in Seq(Invoice)
  /\ Transactions(db)
  /\ OwnEntries(db.txs)
  /\ AlertsFit(db.alerts, db.txs)
  /\ ClientsLeaveBankAccount => AllSettle(db)

-----------------------------------------------------------------------------
(* One settlement. *)

\* The lines of a payment, once stored: one is on 221.
LEMMA PaymentRows ==
  ASSUME NEW id \in Nat \ {0}, NEW row \in StatementRow, Positive(PaymentLines(row))
  PROVE  /\ IsLineList(PaymentLines(row))
         /\ \A l \in LineRows(id, PaymentLines(row), RateScale) : l.entry = id
         /\ Moves(LineRows(id, PaymentLines(row), RateScale), id, row)
<1> DEFINE side == IF row.direction = "CREDIT" THEN "DEBIT" ELSE "CREDIT"
           other == IF row.direction = "CREDIT" THEN "311" ELSE "321"
           req == PaymentLines(row)
<1>1. row.amount \in Nat /\ row.direction \in {"CREDIT", "DEBIT"}
  BY DEF StatementRow
<1>2. /\ Sub \in Nat \ {0} /\ RateScale \in Nat \ {0}
      /\ {"221", "311", "321"} \subseteq Accounts
  BY ConstantsAssumption, InvoicesAssumption, BankingAssumption
<1>3. PICK b \in {1, 2} : /\ req[b] = Leg("221", side, row.amount)
                          /\ req[3 - b] = Leg(other, Swap(side), row.amount)
                          /\ DOMAIN req = {b, 3 - b}
  <2>1. CASE row.direction = "CREDIT"
    BY <2>1 DEF PaymentLines, Swap
  <2>2. CASE row.direction = "DEBIT"
    BY <2>2 DEF PaymentLines, Swap
  <2>3. QED
    BY <1>1, <2>1, <2>2
<1>4. \A i \in DOMAIN req : req[i].amount = row.amount * Sub
  BY <1>3 DEF Leg
<1>5. row.amount * Sub \in Nat \ {0}
  <2>1. row.amount * Sub \in Nat /\ b \in DOMAIN req
    BY <1>1, <1>2, <1>3
  <2>2. row.amount * Sub > 0
    BY <1>4, <2>1 DEF Positive
  <2>3. QED
    BY <2>1, <2>2
<1>6. IsLineList(req)
  <2>1. \A a \in {"221", other}, s \in Side : Leg(a, s, row.amount) \in RequestLine
    BY <1>2, <1>5 DEF Leg, RequestLine
  <2>2. side \in Side /\ Swap(side) \in Side
    BY DEF Side, Swap
  <2>3. 3 - b \in Nat \ {0} /\ b \in Nat \ {0}
    OBVIOUS
  <2> HIDE DEF req, side, other
  <2>4. QED
    BY <1>3, <2>1, <2>2, <2>3 DEF IsLineList
<1>7. RoundHalfEven((row.amount * Sub) * RateScale, Sub * RateScale) = row.amount
  BY <1>1, <1>2, AmountKept
<1> DEFINE Stored(i) ==
      [entry |-> id, order |-> i - 1, account |-> req[i].account, side |-> req[i].side,
       foreign |-> RoundHalfUp(req[i].amount, Sub),
       czk |-> RoundHalfEven(req[i].amount * RateScale, Sub * RateScale)]
<1>8. LineRows(id, req, RateScale) = {Stored(b), Stored(3 - b)}
  BY <1>3 DEF LineRows
<1>9. /\ Stored(b).account = "221" /\ Stored(b).entry = id
      /\ Stored(b).czk = row.amount /\ Stored(b).side = side
  BY <1>3, <1>4, <1>7 DEF Leg
<1>10. Stored(3 - b).account # "221" /\ Stored(3 - b).entry = id
  BY <1>3 DEF Leg
<1> HIDE DEF Stored, req
<1>11. OnBank(LineRows(id, req, RateScale), id) = {Stored(b)}
  BY <1>8, <1>9, <1>10 DEF OnBank, LinesOf
<1>12. Moves(LineRows(id, req, RateScale), id, row)
  BY <1>9, <1>11 DEF Moves
<1>13. QED
  BY <1>6, <1>8, <1>9, <1>10, <1>12 DEF req

\* `new` holds the tables of `db` and the entry n, the payment of the row.
AddsPayment(db, new, row, n) ==
  /\ IsTables(TablesOf(new)) /\ Consistent(TablesOf(new))
  /\ n \notin DOMAIN db.entries /\ n # NoEntry /\ n \in Nat
  /\ DOMAIN new.entries = DOMAIN db.entries \cup {n}
  /\ \A e \in DOMAIN db.entries : new.entries[e] = db.entries[e]
  /\ new.entries[n].status = "posted" /\ new.entries[n].currency = "CZK"
  /\ \A l \in db.lines \cup new.lines : l.entry # n => (l \in db.lines <=> l \in new.lines)
  /\ Moves(new.lines, n, row)

LEMMA PaymentPosted ==
  ASSUME NEW db, IsTables(TablesOf(db)), Consistent(TablesOf(db)),
         NEW row \in StatementRow, Positive(PaymentLines(row)),
         NEW new, new = PostTo(db, PaymentLines(row), row.period, RateScale, SettlementHead)
  PROVE  AddsPayment(db, new, row, Len(db.entries) + 1)
<1> DEFINE req == PaymentLines(row)
           p == row.period
           n == Len(db.entries) + 1
           e == [period |-> p, status |-> "posted", type |-> SettlementHead.type,
                 reverses |-> SettlementHead.reverses, currency |-> SettlementHead.currency]
           rows == LineRows(n, req, RateScale)
<1>1. /\ IsLineList(req) /\ p \in Periods /\ RateScale \in Nat \ {0} /\ IsHead(SettlementHead)
  BY PaymentRows, ConstantsAssumption, 1 \in Nat \ {0}
  DEF StatementRow, IsHead, SettlementHead, NoEntry
<1>2. /\ new = PostTo(TablesOf(db), req, p, RateScale, SettlementHead)
      /\ new.entries = Append(db.entries, e) /\ new.lines = db.lines \cup rows
      /\ TablesOf(new) = new
  BY DEF PostTo, TablesOf
<1>3. IsTables(TablesOf(new)) /\ Consistent(TablesOf(new))
  <2> HIDE DEF req, p
  <2>1. QED
    BY <1>1, <1>2, PostPreserves
<1>4. db.entries \in Seq(Entry) /\ \A l \in db.lines : l.entry \in DOMAIN db.entries
  BY DEF IsTables, TablesOf
<1>5. /\ n \in Nat \ {0} /\ DOMAIN db.entries = 1 .. n - 1 /\ DOMAIN new.entries = 1 .. n
      /\ new.entries[n] = e /\ \A i \in 1 .. n - 1 : new.entries[i] = db.entries[i]
  BY <1>2, <1>4
<1>6. e.status = "posted" /\ e.currency = "CZK"
  BY DEF SettlementHead
<1>7. (\A l \in rows : l.entry = n) /\ Moves(rows, n, row)
  BY <1>5, PaymentRows
<1> HIDE DEF n, e, rows
<1>8. n \notin DOMAIN db.entries /\ DOMAIN new.entries = DOMAIN db.entries \cup {n}
  BY <1>5
<1>9. LinesOf(new.lines, n) = LinesOf(rows, n)
  BY <1>2, <1>4, <1>8 DEF LinesOf
<1>10. Moves(new.lines, n, row)
  BY <1>7, <1>9 DEF Moves, OnBank
<1>11. \A l \in db.lines \cup new.lines : l.entry # n => (l \in db.lines <=> l \in new.lines)
  BY <1>2, <1>7
<1>12. QED
  BY <1>3, <1>5, <1>6, <1>8, <1>10, <1>11 DEF AddsPayment, NoEntry, n

\* The lines of an entry that exists, and what they move, are not touched.
LEMMA PaymentKeepsEntries ==
  ASSUME NEW db, NEW new, NEW row, NEW n, AddsPayment(db, new, row, n),
         NEW e \in DOMAIN db.entries
  PROVE  OnBank(new.lines, e) = OnBank(db.lines, e)
BY DEF AddsPayment, OnBank, LinesOf

\* The transaction t as reconcile leaves it.
MatchedTo(db, t, i, n) ==
  [row |-> db.txs[t].row, status |-> "MATCHED", reconciled |-> TRUE, invoice |-> i, entry |-> n]

MarkedPaid(invoice) == [invoice EXCEPT !.paid = TRUE]

\* What reconcile does, column by column.
Reconciles(db, t, i, n, new) ==
  /\ IsBankDb(new)
  /\ AddsPayment(db, new, db.txs[t].row, n)
  /\ new.invoices = [db.invoices EXCEPT ![i].paid = TRUE]
  /\ new.alerts = {alert \in db.alerts : alert.about # AboutTransaction(t)}
  /\ new.txs = [db.txs EXCEPT ![t] = MatchedTo(db, t, i, n)]

LEMMA RowType ==
  ASSUME NEW db, Transactions(db), NEW t \in DOMAIN db.txs
  PROVE  db.txs[t] \in Transaction /\ db.txs[t].row \in StatementRow /\ t \in Nat \ {0}
<1>1. db.txs[t] \in Transaction /\ t \in Nat \ {0}
  BY DEF Transactions
<1>2. db.txs[t].row \in StatementRow
  BY <1>1, BankingAssumption DEF Transaction
<1>3. QED
  BY <1>1, <1>2

LEMMA ReconcileFacts ==
  ASSUME NEW db, BankOK(db), NEW t \in DOMAIN db.txs, NEW i \in DOMAIN db.invoices,
         CanReconcile(db, t, i)
  PROVE  Reconciles(db, t, i, Len(db.entries) + 1, Reconciled(db, t, i))
<1> DEFINE row == db.txs[t].row
           n == Len(db.entries) + 1
           ledger == PostTo(db, PaymentLines(row), row.period, RateScale, SettlementHead)
           new == Reconciled(db, t, i)
<1>1. row \in StatementRow /\ Positive(PaymentLines(row))
  BY RowType DEF BankOK, CanReconcile
<1>2. AddsPayment(db, ledger, row, n)
  <2> HIDE DEF row
  <2>1. QED
    BY <1>1, PaymentPosted DEF BankOK
<1>3. Len(ledger.entries) = n
  BY DEF PostTo, BankOK, IsTables, TablesOf
<1> HIDE DEF ledger
<1>4. new = [entries |-> ledger.entries, lines |-> ledger.lines, balances |-> ledger.balances,
             invoices |-> [db.invoices EXCEPT ![i].paid = TRUE],
             alerts |-> {alert \in db.alerts : alert.about # AboutTransaction(t)},
             txs |-> [db.txs EXCEPT ![t] = MatchedTo(db, t, i, n)]]
  BY <1>3 DEF Reconciled, MatchedTo, ledger
<1> HIDE DEF new, n, row
<1>5. /\ new.entries = ledger.entries /\ new.lines = ledger.lines
      /\ TablesOf(new) = TablesOf(ledger)
  BY <1>4 DEF TablesOf
<1>6. AddsPayment(db, new, row, n)
  BY <1>2, <1>5 DEF AddsPayment
<1>7. IsBankDb(new)
  BY <1>4 DEF IsBankDb
<1>8. QED
  BY <1>4, <1>6, <1>7 DEF Reconciles, new, n, row

\* The transactions after a reconciliation.
LEMMA ReconciledTransactions ==
  ASSUME NEW db, BankOK(db), NEW t \in DOMAIN db.txs, NEW i \in DOMAIN db.invoices,
         NEW n, NEW new, Reconciles(db, t, i, n, new)
  PROVE  /\ new.txs \in Seq(Transaction)
         /\ DOMAIN new.txs = DOMAIN db.txs
         /\ new.txs[t] = MatchedTo(db, t, i, n)
         /\ \A s \in DOMAIN db.txs : s # t => new.txs[s] = db.txs[s]
         /\ new.invoices \in Seq(Invoice)
         /\ DOMAIN new.invoices = DOMAIN db.invoices
         /\ new.invoices[i] = MarkedPaid(db.invoices[i])
         /\ \A j \in DOMAIN db.invoices : j # i => new.invoices[j] = db.invoices[j]
<1>1. db.txs \in Seq(Transaction) /\ db.txs[t] \in Transaction /\ db.invoices \in Seq(Invoice)
  BY RowType DEF BankOK, Transactions
<1>2. i \in Nat /\ n \in Nat
  BY <1>1 DEF Reconciles, AddsPayment
<1>3. MatchedTo(db, t, i, n) \in Transaction
  BY <1>1, <1>2 DEF MatchedTo, Transaction
<1>4. db.invoices[i] \in Invoice
  BY <1>1
<1>5. MarkedPaid(db.invoices[i]) \in Invoice
  BY <1>4 DEF Invoice, MarkedPaid
<1>6. new.txs = [db.txs EXCEPT ![t] = MatchedTo(db, t, i, n)]
  BY DEF Reconciles
<1>7. new.invoices = [db.invoices EXCEPT ![i] = MarkedPaid(db.invoices[i])]
  BY DEF Reconciles, MarkedPaid
<1>8. QED
  BY <1>1, <1>3, <1>5, <1>6, <1>7

LEMMA ReconcileOK ==
  ASSUME NEW db, BankOK(db), NEW t \in DOMAIN db.txs, NEW i \in DOMAIN db.invoices,
         IsFree(db.txs[t]), NEW n, NEW new, Reconciles(db, t, i, n, new)
  PROVE  BankOK(new)
<1> DEFINE x == MatchedTo(db, t, i, n)
<1>1. /\ new.txs \in Seq(Transaction) /\ DOMAIN new.txs = DOMAIN db.txs
      /\ new.txs[t] = x
      /\ \A s \in DOMAIN db.txs : s # t => new.txs[s] = db.txs[s]
      /\ new.invoices \in Seq(Invoice) /\ DOMAIN new.invoices = DOMAIN db.invoices
  BY ReconciledTransactions
<1>2. /\ x.row = db.txs[t].row /\ x.reconciled = TRUE /\ x.invoice = i /\ x.entry = n
  BY DEF MatchedTo
<1>3. AddsPayment(db, new, db.txs[t].row, n)
  BY DEF Reconciles
<1>4. Transactions(db) /\ OwnEntries(db.txs) /\ AlertsFit(db.alerts, db.txs)
  BY DEF BankOK
<1> HIDE DEF x
<1>5. Settled(new, x) /\ ~IsFree(x)
  BY <1>1, <1>2, <1>3 DEF Settled, IsFree, AddsPayment
<1>6. ASSUME NEW y, Settled(db, y)
      PROVE  Settled(new, y) /\ y.entry \in DOMAIN db.entries
  <2>1. y.entry \in DOMAIN db.entries /\ y.entry \in DOMAIN new.entries
    BY <1>3, <1>6 DEF Settled, AddsPayment
  <2>2. new.entries[y.entry].currency = "CZK"
    BY <1>3, <1>6, <2>1 DEF Settled, AddsPayment
  <2>3. OnBank(new.lines, y.entry) = OnBank(db.lines, y.entry)
    BY <1>3, <2>1, PaymentKeepsEntries
  <2>4. Moves(new.lines, y.entry, y.row)
    BY <1>6, <2>3 DEF Settled, Moves
  <2>5. QED
    BY <1>1, <1>6, <2>1, <2>2, <2>4 DEF Settled
<1>7. Transactions(new)
  <2>1. \A s \in DOMAIN new.txs : IsFree(new.txs[s]) \/ Settled(new, new.txs[s])
    BY <1>1, <1>4, <1>5, <1>6 DEF Transactions
  <2>2. \A s \in DOMAIN new.txs : new.txs[s].reconciled <=> ~IsFree(new.txs[s])
    BY <1>1, <1>2, <1>4, <1>5 DEF Transactions
  <2>3. QED
    BY <1>1, <2>1, <2>2 DEF Transactions
<1>8. \A s \in DOMAIN db.txs : db.txs[s].entry # n
  <2>1. \A s \in DOMAIN db.txs : db.txs[s].entry = NoEntry \/ db.txs[s].entry \in DOMAIN db.entries
    BY <1>4 DEF Transactions, IsFree, Settled
  <2>2. QED
    BY <2>1, <1>3 DEF AddsPayment
<1>9. OwnEntries(new.txs)
  BY <1>1, <1>2, <1>4, <1>8 DEF OwnEntries
<1>10. AlertsFit(new.alerts, new.txs)
  <2>1. new.alerts = {alert \in db.alerts : alert.about # AboutTransaction(t)}
    BY DEF Reconciles
  <2>2. QED
    BY <1>1, <1>4, <2>1 DEF AlertsFit
<1>11. ASSUME AllSettle(db) PROVE AllSettle(new)
  <2> SUFFICES ASSUME NEW e \in DOMAIN new.entries,
                      new.entries[e].status = "posted", new.entries[e].type = "STANDARD",
                      OnBank(new.lines, e) # {}
               PROVE  \E s \in DOMAIN new.txs : new.txs[s].reconciled /\ new.txs[s].entry = e
    BY DEF AllSettle
  <2>1. CASE e = n
    BY <2>1, <1>1, <1>2
  <2>2. CASE e # n
    <3>1. e \in DOMAIN db.entries /\ new.entries[e] = db.entries[e]
      BY <2>2, <1>3 DEF AddsPayment
    <3>2. OnBank(new.lines, e) = OnBank(db.lines, e)
      BY <1>3, <3>1, PaymentKeepsEntries
    <3>3. PICK s \in DOMAIN db.txs : db.txs[s].reconciled /\ db.txs[s].entry = e
      BY <1>11, <3>1, <3>2 DEF AllSettle
    <3>4. s # t
      BY <3>3 DEF IsFree
    <3>5. QED
      BY <1>1, <3>3, <3>4
  <2>3. QED
    BY <2>1, <2>2
<1>12. IsBankDb(new) /\ IsTables(TablesOf(new)) /\ Consistent(TablesOf(new))
  BY <1>3 DEF Reconciles, AddsPayment
<1>13. QED
  BY <1>1, <1>7, <1>9, <1>10, <1>11, <1>12 DEF BankOK

-----------------------------------------------------------------------------
(* One transaction that is not settled. *)

\* What flagging does, column by column.
Flags(db, t, new) ==
  /\ IsBankDb(new)
  /\ new.entries = db.entries /\ new.lines = db.lines /\ new.balances = db.balances
  /\ new.invoices = db.invoices
  /\ \E rule \in BankRules :
       new.alerts = db.alerts \cup {[rule |-> rule, about |-> AboutTransaction(t)]}
  /\ \E status \in {"UNMATCHED", "SUGGESTED"} :
       new.txs = [db.txs EXCEPT ![t] = [db.txs[t] EXCEPT !.status = status]]

SetTxs(db, x) == [db EXCEPT !.txs = x]
SetAlerts(db, y) == [db EXCEPT !.alerts = y]

\* One column of the record is replaced, and the others stay.
LEMMA SetColumn ==
  ASSUME NEW db, IsBankDb(db), NEW x
  PROVE  /\ SetTxs(db, x)
              = [entries |-> db.entries, lines |-> db.lines, balances |-> db.balances,
                 invoices |-> db.invoices, alerts |-> db.alerts, txs |-> x]
         /\ SetAlerts(db, x)
              = [entries |-> db.entries, lines |-> db.lines, balances |-> db.balances,
                 invoices |-> db.invoices, alerts |-> x, txs |-> db.txs]
<1> DEFINE e == db.entries
           l == db.lines
           b == db.balances
           i == db.invoices
           a == db.alerts
           t == db.txs
<1>1. db = [entries |-> e, lines |-> l, balances |-> b, invoices |-> i, alerts |-> a, txs |-> t]
  BY DEF IsBankDb
<1> HIDE DEF e, l, b, i, a, t
<1>2. [db EXCEPT !.txs = x]
        = [entries |-> e, lines |-> l, balances |-> b, invoices |-> i, alerts |-> a, txs |-> x]
  BY <1>1
<1>3. [db EXCEPT !.alerts = x]
        = [entries |-> e, lines |-> l, balances |-> b, invoices |-> i, alerts |-> x, txs |-> t]
  BY <1>1
<1>4. QED
  BY <1>2, <1>3 DEF SetTxs, SetAlerts, e, l, b, i, a, t

LEMMA FlagFacts ==
  ASSUME NEW db, IsBankDb(db), NEW t, NEW status \in {"UNMATCHED", "SUGGESTED"},
         NEW rule \in BankRules
  PROVE  Flags(db, t, Flagged(db, t, status, rule))
<1> DEFINE x == [db.txs EXCEPT ![t].status = status]
           y == db.alerts \cup {[rule |-> rule, about |-> AboutTransaction(t)]}
           new == [entries |-> db.entries, lines |-> db.lines, balances |-> db.balances,
                   invoices |-> db.invoices, alerts |-> y, txs |-> x]
<1>1. Flagged(db, t, status, rule) = SetAlerts(SetTxs(db, x), y)
  BY DEF Flagged, SetAlerts, SetTxs
<1>2. SetAlerts(SetTxs(db, x), y) = new
  <2> HIDE DEF x, y
  <2> DEFINE mid == SetTxs(db, x)
  <2>1. /\ mid.entries = db.entries /\ mid.lines = db.lines /\ mid.balances = db.balances
        /\ mid.invoices = db.invoices /\ mid.txs = x /\ IsBankDb(mid)
    BY SetColumn DEF IsBankDb
  <2> HIDE DEF mid
  <2>2. SetAlerts(mid, y) = new
    BY <2>1, SetColumn
  <2>3. QED
    BY <2>2 DEF mid
<1>3. /\ new.entries = db.entries /\ new.lines = db.lines /\ new.balances = db.balances
      /\ new.invoices = db.invoices /\ new.alerts = y /\ new.txs = x /\ IsBankDb(new)
  <2> HIDE DEF x, y
  <2>1. QED
    BY DEF IsBankDb
<1> HIDE DEF new
<1>4. Flags(db, t, new)
  BY <1>3 DEF Flags
<1>5. QED
  BY <1>1, <1>2, <1>4

\* Flagging changes the status of a transaction and adds an alert about it.
LEMMA FlaggedTransactions ==
  ASSUME NEW db, BankOK(db), NEW t \in DOMAIN db.txs, NEW new, Flags(db, t, new)
  PROVE  /\ new.txs \in Seq(Transaction)
         /\ DOMAIN new.txs = DOMAIN db.txs
         /\ \A s \in DOMAIN db.txs : s # t => new.txs[s] = db.txs[s]
         /\ new.txs[t].row = db.txs[t].row
         /\ new.txs[t].reconciled = db.txs[t].reconciled
         /\ new.txs[t].invoice = db.txs[t].invoice
         /\ new.txs[t].entry = db.txs[t].entry
<1>1. db.txs \in Seq(Transaction) /\ db.txs[t] \in Transaction
  BY RowType DEF BankOK, Transactions
<1>2. PICK status \in {"UNMATCHED", "SUGGESTED"} :
        new.txs = [db.txs EXCEPT ![t] = [db.txs[t] EXCEPT !.status = status]]
  BY DEF Flags
<1> DEFINE x == [db.txs[t] EXCEPT !.status = status]
<1>3. /\ x \in Transaction /\ x.row = db.txs[t].row /\ x.reconciled = db.txs[t].reconciled
      /\ x.invoice = db.txs[t].invoice /\ x.entry = db.txs[t].entry
  BY <1>1 DEF Transaction
<1>4. new.txs = [db.txs EXCEPT ![t] = x]
  BY <1>2
<1> HIDE DEF x
<1>5. QED
  BY <1>1, <1>3, <1>4

LEMMA FlagOK ==
  ASSUME NEW db, BankOK(db), NEW t \in DOMAIN db.txs, IsFree(db.txs[t]), NEW new,
         Flags(db, t, new)
  PROVE  BankOK(new)
<1>1. /\ new.txs \in Seq(Transaction) /\ DOMAIN new.txs = DOMAIN db.txs
      /\ \A s \in DOMAIN db.txs : s # t => new.txs[s] = db.txs[s]
      /\ \A s \in DOMAIN db.txs : /\ new.txs[s].row = db.txs[s].row
                                  /\ new.txs[s].reconciled = db.txs[s].reconciled
                                  /\ new.txs[s].invoice = db.txs[s].invoice
                                  /\ new.txs[s].entry = db.txs[s].entry
  BY FlaggedTransactions
<1>2. /\ new.entries = db.entries /\ new.lines = db.lines /\ new.balances = db.balances
      /\ new.invoices = db.invoices /\ IsBankDb(new) /\ TablesOf(new) = TablesOf(db)
  BY DEF Flags, TablesOf
<1>3. Transactions(new)
  BY <1>1, <1>2 DEF BankOK, Transactions, IsFree, Settled
<1>4. OwnEntries(new.txs)
  BY <1>1 DEF BankOK, OwnEntries
<1>5. AlertsFit(new.alerts, new.txs)
  <2>1. PICK rule \in BankRules :
          new.alerts = db.alerts \cup {[rule |-> rule, about |-> AboutTransaction(t)]}
    BY DEF Flags
  <2>2. AlertsFit(db.alerts, db.txs)
    BY DEF BankOK
  <2>3. \A s \in DOMAIN db.txs : AboutTransaction(s) = AboutTransaction(t) => s = t
    BY DEF AboutTransaction, About
  <2>4. ~new.txs[t].reconciled
    BY <1>1 DEF IsFree
  <2> DEFINE a == [rule |-> rule, about |-> AboutTransaction(t)]
  <2>5. a.rule \in BankRules /\ a.about = AboutTransaction(t)
    OBVIOUS
  <2> HIDE DEF a
  <2>6. \A alert \in new.alerts : alert = a \/ alert \in db.alerts
    BY <2>1 DEF a
  <2>7. \A alert \in db.alerts :
          /\ \/ alert.rule \in InvoiceRules
             \/ alert.rule \in BankRules /\ \E s \in DOMAIN new.txs : alert.about = AboutTransaction(s)
          /\ \A s \in DOMAIN new.txs : new.txs[s].reconciled => alert.about # AboutTransaction(s)
    BY <1>1, <2>2 DEF AlertsFit
  <2>8. /\ a.rule \in BankRules /\ \E s \in DOMAIN new.txs : a.about = AboutTransaction(s)
        /\ \A s \in DOMAIN new.txs : new.txs[s].reconciled => a.about # AboutTransaction(s)
    BY <1>1, <2>3, <2>4, <2>5
  <2>9. QED
    BY <2>6, <2>7, <2>8 DEF AlertsFit
<1>6. AllSettle(db) => AllSettle(new)
  BY <1>1, <1>2 DEF AllSettle
<1>7. QED
  BY <1>2, <1>3, <1>4, <1>5, <1>6 DEF BankOK

-----------------------------------------------------------------------------
(* One iteration of a batch. *)

\* The invoices of `db` are those of `db0`, but for the mark of payment.
SameInvoices(db0, db) ==
  /\ DOMAIN db.invoices = DOMAIN db0.invoices
  /\ \A i \in DOMAIN db0.invoices :
       /\ db.invoices[i].request = db0.invoices[i].request
       /\ db.invoices[i].rate = db0.invoices[i].rate
       /\ db.invoices[i].status = db0.invoices[i].status
       /\ db.invoices[i].entry = db0.invoices[i].entry

\* Two rows that one invoice answers exactly are answered by the same invoices.
LEMMA ExactClass ==
  ASSUME NEW db, NEW r, NEW s, NEW i, i \in Exact(db, r), i \in Exact(db, s)
  PROVE  Exact(db, r) = Exact(db, s)
<1>1. /\ TargetDirection(r) = TargetDirection(s) /\ r.vs = s.vs /\ r.amount = s.amount
  BY DEF Exact, SymbolMatches, Unpaid
<1>2. QED
  BY <1>1 DEF Exact, SymbolMatches, Unpaid

\* Marks of payment only take invoices out of the running.
LEMMA ExactSince ==
  ASSUME NEW db0, NEW db, SameInvoices(db0, db), NEW r
  PROVE  /\ \A i \in Exact(db0, r) : i \in DOMAIN db0.invoices /\ ~db0.invoices[i].paid
         /\ \A i \in Exact(db0, r) : ~db.invoices[i].paid => i \in Exact(db, r)
         /\ (\A i \in DOMAIN db0.invoices : db0.invoices[i].paid => db.invoices[i].paid)
              => Exact(db, r) \subseteq Exact(db0, r)
BY DEF Exact, SymbolMatches, Unpaid, SameInvoices, GrossOf

\* The transaction is settled with the one invoice that is certain, or flagged.
LEMMA MatchedIs ==
  ASSUME NEW db, IsBankDb(db), NEW t
  PROVE  \/ \E i \in DOMAIN db.invoices :
              /\ CanReconcile(db, t, i)
              /\ Exact(db, db.txs[t].row) = {i}
              /\ Matched(db, t) = Reconciled(db, t, i)
         \/ Flags(db, t, Matched(db, t))
<1> DEFINE row == db.txs[t].row
           bookable == {i \in Certain(db, row) : CanReconcile(db, t, i)}
<1>1. CASE bookable # {}
  <2> DEFINE i == CHOOSE x \in bookable : TRUE
  <2>1. i \in bookable
    BY <1>1
  <2>2. Matched(db, t) = Reconciled(db, t, i)
    BY <1>1 DEF Matched
  <2> HIDE DEF i
  <2>3. i \in DOMAIN db.invoices /\ CanReconcile(db, t, i) /\ Exact(db, row) = {i}
    BY <2>1 DEF Certain, Exact, SymbolMatches, Unpaid
  <2>4. QED
    BY <2>2, <2>3
<1>2. CASE bookable = {} /\ Suggests(db, row)
  <2>1. Matched(db, t) = Flagged(db, t, "SUGGESTED", "BANK_TX_SUGGESTED")
    BY <1>2 DEF Matched
  <2>2. QED
    BY <2>1, FlagFacts DEF BankRules
<1>3. CASE bookable = {} /\ ~Suggests(db, row)
  <2>1. Matched(db, t) = Flagged(db, t, "UNMATCHED", "BANK_TX_UNMATCHED")
    BY <1>3 DEF Matched
  <2>2. QED
    BY <2>1, FlagFacts DEF BankRules
<1>4. QED
  BY <1>1, <1>2, <1>3

\* Settled in `db` and not yet in `db0`.
NewIn(db0, db) == {t \in DOMAIN db.txs : db.txs[t].reconciled /\ IsFree(db0.txs[t])}

IsHandled(db, t) ==
  db.txs[t].reconciled \/ \E alert \in db.alerts : alert.about = AboutTransaction(t)

\* The books only grew.
BooksSince(db0, db) ==
  /\ \A e \in DOMAIN db0.entries : e \in DOMAIN db.entries /\ db.entries[e] = db0.entries[e]
  /\ \A l \in db0.lines \cup db.lines :
       l.entry \in DOMAIN db0.entries => (l \in db0.lines <=> l \in db.lines)

\* Transactions outside `done` are as they were, those in it are dealt with.
TransactionsSince(db0, db, done) ==
  /\ DOMAIN db.txs = DOMAIN db0.txs
  /\ \A t \in DOMAIN db0.txs : db.txs[t].row = db0.txs[t].row
  /\ \A t \in DOMAIN db0.txs : ~IsFree(db0.txs[t]) => db.txs[t] = db0.txs[t]
  /\ NewIn(db0, db) \subseteq done
  /\ \A t \in done : IsHandled(db, t)

\* Each new settlement is certain, of the invoices before the batch, is posted,
\* and has an invoice of its own; and no other invoice is marked as paid.
InvoicesSince(db0, db) ==
  /\ SameInvoices(db0, db)
  /\ \A t \in NewIn(db0, db) :
       /\ Exact(db0, db.txs[t].row) = {db.txs[t].invoice}
       /\ db.entries[db.txs[t].entry].status = "posted"
  /\ \A s, t \in NewIn(db0, db) : db.txs[s].invoice = db.txs[t].invoice => s = t
  /\ \A i \in DOMAIN db0.invoices :
       db.invoices[i].paid <=> \/ db0.invoices[i].paid
                               \/ \E t \in NewIn(db0, db) : db.txs[t].invoice = i

Since(db0, db, done) ==
  BooksSince(db0, db) /\ TransactionsSince(db0, db, done) /\ InvoicesSince(db0, db)

\* Before the first iteration.
LEMMA SinceStart ==
  ASSUME NEW db, BankOK(db)
  PROVE  Since(db, db, {}) /\ NewIn(db, db) = {}
<1>1. NewIn(db, db) = {}
  BY DEF NewIn, IsFree
<1>2. QED
  BY <1>1 DEF Since, BooksSince, TransactionsSince, InvoicesSince, SameInvoices

\* A free transaction is flagged.
LEMMA SinceFlagged ==
  ASSUME NEW db0, NEW db, BankOK(db), NEW done, done \subseteq DOMAIN db0.txs,
         Since(db0, db, done), NEW t \in DOMAIN db.txs, IsFree(db0.txs[t]),
         NEW new, Flags(db, t, new)
  PROVE  Since(db0, new, done \cup {t})
<1>1. /\ DOMAIN new.txs = DOMAIN db.txs
      /\ \A s \in DOMAIN db.txs : s # t => new.txs[s] = db.txs[s]
      /\ \A s \in DOMAIN db.txs : /\ new.txs[s].row = db.txs[s].row
                                  /\ new.txs[s].reconciled = db.txs[s].reconciled
                                  /\ new.txs[s].invoice = db.txs[s].invoice
                                  /\ new.txs[s].entry = db.txs[s].entry
  BY FlaggedTransactions
<1>2. /\ new.entries = db.entries /\ new.lines = db.lines /\ new.invoices = db.invoices
  BY DEF Flags
<1>3. NewIn(db0, new) = NewIn(db0, db)
  BY <1>1 DEF NewIn
<1>4. PICK rule \in BankRules :
        new.alerts = db.alerts \cup {[rule |-> rule, about |-> AboutTransaction(t)]}
  BY DEF Flags
<1>5. IsHandled(new, t) /\ \A s \in done : IsHandled(new, s)
  <2>1. [rule |-> rule, about |-> AboutTransaction(t)].about = AboutTransaction(t)
    OBVIOUS
  <2>2. IsHandled(new, t)
    BY <1>4, <2>1 DEF IsHandled
  <2>3. \A s \in done : s \in DOMAIN db.txs /\ IsHandled(db, s)
    BY DEF Since, TransactionsSince
  <2>4. db.alerts \subseteq new.alerts
    BY <1>4
  <2>5. \A s \in done : IsHandled(new, s)
    BY <1>1, <2>3, <2>4 DEF IsHandled
  <2>6. QED
    BY <2>2, <2>5
<1>6. TransactionsSince(db0, new, done \cup {t})
  <2>1. \A s \in DOMAIN db0.txs : ~IsFree(db0.txs[s]) => s # t
    OBVIOUS
  <2>2. QED
    BY <1>1, <1>3, <1>5, <2>1 DEF Since, TransactionsSince
<1>7. BooksSince(db0, new)
  BY <1>2 DEF Since, BooksSince
<1>8. InvoicesSince(db0, new)
  <2>1. \A s \in NewIn(db0, db) : /\ new.txs[s].row = db.txs[s].row
                                 /\ new.txs[s].invoice = db.txs[s].invoice
                                 /\ new.txs[s].entry = db.txs[s].entry
    BY <1>1 DEF NewIn
  <2> DEFINE N == NewIn(db0, db)
  <2>2. SameInvoices(db0, new)
    BY <1>2 DEF Since, InvoicesSince, SameInvoices
  <2>3. NewIn(db0, new) = N /\ InvoicesSince(db0, db)
    BY <1>3 DEF Since
  <2> HIDE DEF N
  <2>4. \A s \in N : /\ Exact(db0, new.txs[s].row) = {new.txs[s].invoice}
                     /\ new.entries[new.txs[s].entry].status = "posted"
    BY <1>2, <2>1, <2>3 DEF InvoicesSince, N
  <2>5. \A r, s \in N : new.txs[r].invoice = new.txs[s].invoice => r = s
    BY <2>1, <2>3 DEF InvoicesSince, N
  <2>6. \A i \in DOMAIN db0.invoices :
          new.invoices[i].paid <=> \/ db0.invoices[i].paid
                                   \/ \E s \in N : new.txs[s].invoice = i
    BY <1>2, <2>1, <2>3 DEF InvoicesSince, N
  <2>7. QED
    BY <2>2, <2>3, <2>4, <2>5, <2>6 DEF InvoicesSince
<1>9. QED
  BY <1>6, <1>7, <1>8 DEF Since

\* A free transaction is settled with the only invoice that answers it now: it
\* was the only one before the batch, because an invoice that was paid meanwhile
\* would have been the only answer to this row as well.
LEMMA CertainBefore ==
  ASSUME NEW db0, NEW db, InvoicesSince(db0, db), NEW row, NEW i, Exact(db, row) = {i}
  PROVE  /\ Exact(db0, row) = {i}
         /\ i \in DOMAIN db0.invoices /\ ~db0.invoices[i].paid
         /\ \A t \in NewIn(db0, db) : db.txs[t].invoice # i
<1>1. SameInvoices(db0, db)
  BY DEF InvoicesSince
<1>2. i \in Exact(db0, row) /\ ~db.invoices[i].paid
  <2>1. \A j \in DOMAIN db0.invoices : db0.invoices[j].paid => db.invoices[j].paid
    BY DEF InvoicesSince
  <2>2. Exact(db, row) \subseteq Exact(db0, row)
    BY <1>1, <2>1, ExactSince
  <2>3. ~db.invoices[i].paid
    BY DEF Exact, SymbolMatches, Unpaid
  <2>4. QED
    BY <2>2, <2>3
<1>3. i \in DOMAIN db0.invoices /\ ~db0.invoices[i].paid
  BY <1>1, <1>2, ExactSince
<1>4. \A t \in NewIn(db0, db) : db.txs[t].invoice # i
  BY <1>2, <1>3 DEF InvoicesSince
<1>5. ASSUME NEW j \in Exact(db0, row), j # i
      PROVE  FALSE
  <2>1. j \in DOMAIN db0.invoices /\ ~db0.invoices[j].paid
    BY <1>1, ExactSince
  <2>2. db.invoices[j].paid
    BY <1>1, <1>5, ExactSince
  <2>3. PICK t \in NewIn(db0, db) : db.txs[t].invoice = j
    BY <2>1, <2>2 DEF InvoicesSince
  <2>4. Exact(db0, db.txs[t].row) = {j}
    BY <2>3 DEF InvoicesSince
  <2>5. Exact(db0, row) = {j}
    BY <2>4, ExactClass
  <2>6. QED
    BY <1>2, <1>5, <2>5
<1>6. Exact(db0, row) = {i}
  BY <1>2, <1>5
<1>7. QED
  BY <1>3, <1>4, <1>6

LEMMA SinceReconciled ==
  ASSUME NEW db0, NEW db, BankOK(db), NEW done, done \subseteq DOMAIN db0.txs,
         Since(db0, db, done), NEW t \in DOMAIN db.txs, IsFree(db0.txs[t]), IsFree(db.txs[t]),
         NEW i \in DOMAIN db.invoices, Exact(db, db.txs[t].row) = {i},
         NEW n, NEW new, Reconciles(db, t, i, n, new)
  PROVE  Since(db0, new, done \cup {t})
<1> DEFINE x == MatchedTo(db, t, i, n)
           N == NewIn(db0, db)
<1>1. /\ DOMAIN new.txs = DOMAIN db.txs /\ new.txs[t] = x
      /\ \A s \in DOMAIN db.txs : s # t => new.txs[s] = db.txs[s]
      /\ DOMAIN new.invoices = DOMAIN db.invoices
      /\ new.invoices[i] = MarkedPaid(db.invoices[i])
      /\ \A j \in DOMAIN db.invoices : j # i => new.invoices[j] = db.invoices[j]
      /\ db.invoices \in Seq(Invoice)
  BY ReconciledTransactions DEF BankOK
<1>2. /\ x.row = db.txs[t].row /\ x.reconciled = TRUE /\ x.invoice = i /\ x.entry = n
  BY DEF MatchedTo
<1>3. AddsPayment(db, new, db.txs[t].row, n)
  BY DEF Reconciles
<1>4. BooksSince(db0, db) /\ TransactionsSince(db0, db, done) /\ InvoicesSince(db0, db)
  BY DEF Since
<1> HIDE DEF x
<1>5. NewIn(db0, new) = N \cup {t} /\ t \notin N
  BY <1>1, <1>2 DEF NewIn, IsFree
<1>6. \A s \in N : s \in DOMAIN db.txs /\ s # t /\ new.txs[s] = db.txs[s]
  BY <1>1, <1>5 DEF NewIn
<1>7. BooksSince(db0, new)
  <2>1. \A e \in DOMAIN db0.entries : e # n /\ e \in DOMAIN new.entries
                                      /\ new.entries[e] = db0.entries[e]
    BY <1>3, <1>4 DEF BooksSince, AddsPayment
  <2>2. \A l \in db0.lines \cup new.lines :
          l.entry \in DOMAIN db0.entries => (l \in db0.lines <=> l \in new.lines)
    BY <1>3, <1>4, <2>1 DEF BooksSince, AddsPayment
  <2>3. QED
    BY <2>1, <2>2 DEF BooksSince
<1>8. TransactionsSince(db0, new, done \cup {t})
  <2>1. IsHandled(new, t)
    BY <1>1, <1>2 DEF IsHandled
  <2>2. ASSUME NEW s \in done, s # t
        PROVE  IsHandled(new, s)
    <3>1. s \in DOMAIN db.txs /\ new.txs[s] = db.txs[s] /\ IsHandled(db, s)
      BY <1>1, <1>4, <2>2 DEF TransactionsSince
    <3>2. AboutTransaction(s) # AboutTransaction(t)
      BY <2>2 DEF AboutTransaction, About
    <3>3. new.alerts = {alert \in db.alerts : alert.about # AboutTransaction(t)}
      BY DEF Reconciles
    <3>4. QED
      BY <3>1, <3>2, <3>3 DEF IsHandled
  <2>3. \A s \in done \cup {t} : IsHandled(new, s)
    BY <2>1, <2>2
  <2>4. NewIn(db0, new) \subseteq done \cup {t}
    BY <1>4, <1>5 DEF TransactionsSince
  <2>5. \A s \in DOMAIN db0.txs : ~IsFree(db0.txs[s]) => new.txs[s] = db0.txs[s]
    BY <1>1, <1>4 DEF TransactionsSince
  <2>6. \A s \in DOMAIN db0.txs : new.txs[s].row = db0.txs[s].row
    BY <1>1, <1>2, <1>4 DEF TransactionsSince
  <2>7. QED
    BY <1>1, <1>4, <2>3, <2>4, <2>5, <2>6 DEF TransactionsSince
<1>9. /\ Exact(db0, x.row) = {i}
      /\ i \in DOMAIN db0.invoices /\ ~db0.invoices[i].paid
      /\ \A s \in N : db.txs[s].invoice # i
  BY <1>2, <1>4, CertainBefore
<1>10. SameInvoices(db0, new)
  <2>1. db.invoices[i] \in Invoice
    BY <1>1
  <2>2. /\ new.invoices[i].request = db.invoices[i].request
        /\ new.invoices[i].rate = db.invoices[i].rate
        /\ new.invoices[i].status = db.invoices[i].status
        /\ new.invoices[i].entry = db.invoices[i].entry
    BY <1>1, <2>1 DEF MarkedPaid, Invoice
  <2>3. SameInvoices(db0, db)
    BY <1>4 DEF InvoicesSince
  <2>4. QED
    BY <1>1, <2>2, <2>3 DEF SameInvoices
<1>11. InvoicesSince(db0, new)
  <2>1. ASSUME NEW s \in N
        PROVE  /\ Exact(db0, new.txs[s].row) = {new.txs[s].invoice}
               /\ new.entries[new.txs[s].entry].status = "posted"
    <3>1. Settled(db, db.txs[s])
      BY <1>6 DEF NewIn, BankOK, Transactions
    <3>2. db.txs[s].entry \in DOMAIN db.entries
      BY <3>1 DEF Settled
    <3>3. /\ Exact(db0, db.txs[s].row) = {db.txs[s].invoice}
          /\ db.entries[db.txs[s].entry].status = "posted"
      BY <1>4 DEF InvoicesSince
    <3>4. new.entries[db.txs[s].entry] = db.entries[db.txs[s].entry]
      BY <1>3, <3>2 DEF AddsPayment
    <3>5. QED
      BY <1>6, <3>3, <3>4
  <2>2. /\ Exact(db0, new.txs[t].row) = {new.txs[t].invoice}
        /\ new.entries[new.txs[t].entry].status = "posted"
    BY <1>1, <1>2, <1>3, <1>9 DEF AddsPayment
  <2>3. \A r, s \in N : new.txs[r].invoice = new.txs[s].invoice => r = s
    BY <1>4, <1>6 DEF InvoicesSince
  <2>4. \A s \in N : new.txs[s].invoice # i
    BY <1>6, <1>9
  <2>5. new.txs[t].invoice = i
    BY <1>1, <1>2
  <2>6. ASSUME NEW j \in DOMAIN db0.invoices
        PROVE  new.invoices[j].paid <=> \/ db0.invoices[j].paid
                                        \/ \E s \in N \cup {t} : new.txs[s].invoice = j
    <3>1. CASE j = i
      <4>1. db.invoices[i] \in Invoice
        BY <1>1
      <4>2. new.invoices[i].paid = TRUE
        BY <1>1, <4>1 DEF MarkedPaid, Invoice
      <4>3. QED
        BY <3>1, <4>2, <2>5
    <3>2. CASE j # i
      <4>1. db.invoices[j].paid <=> \/ db0.invoices[j].paid
                                    \/ \E s \in N : db.txs[s].invoice = j
        BY <1>4 DEF InvoicesSince
      <4>2. new.invoices[j] = db.invoices[j]
        BY <1>1, <1>4, <3>2 DEF InvoicesSince, SameInvoices
      <4>3. (\E s \in N : db.txs[s].invoice = j)
              <=> (\E s \in N \cup {t} : new.txs[s].invoice = j)
        BY <1>6, <2>5, <3>2
      <4>4. QED
        BY <4>1, <4>2, <4>3
    <3>3. QED
      BY <3>1, <3>2
  <2> HIDE DEF N
  <2>7. \A s \in N \cup {t} :
          /\ Exact(db0, new.txs[s].row) = {new.txs[s].invoice}
          /\ new.entries[new.txs[s].entry].status = "posted"
    BY <2>1, <2>2
  <2>8. \A r, s \in N \cup {t} : new.txs[r].invoice = new.txs[s].invoice => r = s
    BY <2>3, <2>4, <2>5
  <2>9. QED
    BY <1>5, <1>10, <2>6, <2>7, <2>8 DEF InvoicesSince
<1>12. QED
  BY <1>7, <1>8, <1>11 DEF Since

LEMMA IterationKeeps ==
  ASSUME NEW db0, NEW db, BankOK(db), NEW done, done \subseteq DOMAIN db0.txs,
         Since(db0, db, done), NEW t \in DOMAIN db0.txs, IsFree(db0.txs[t]), t \notin done
  PROVE  BankOK(Matched(db, t)) /\ Since(db0, Matched(db, t), done \cup {t})
<1>1. t \in DOMAIN db.txs /\ IsBankDb(db) /\ Transactions(db)
  BY DEF Since, TransactionsSince, BankOK
<1>2. IsFree(db.txs[t])
  <2>1. t \notin NewIn(db0, db)
    BY DEF Since, TransactionsSince
  <2>2. QED
    BY <1>1, <2>1 DEF NewIn, Transactions
<1>3. ASSUME NEW i \in DOMAIN db.invoices, CanReconcile(db, t, i),
             Exact(db, db.txs[t].row) = {i}, Matched(db, t) = Reconciled(db, t, i)
      PROVE  BankOK(Matched(db, t)) /\ Since(db0, Matched(db, t), done \cup {t})
  <2>1. Reconciles(db, t, i, Len(db.entries) + 1, Matched(db, t))
    BY <1>1, <1>3, ReconcileFacts
  <2>2. QED
    BY <1>1, <1>2, <1>3, <2>1, ReconcileOK, SinceReconciled
<1>4. ASSUME Flags(db, t, Matched(db, t))
      PROVE  BankOK(Matched(db, t)) /\ Since(db0, Matched(db, t), done \cup {t})
  BY <1>1, <1>2, <1>4, FlagOK, SinceFlagged
<1>5. QED
  BY <1>1, <1>3, <1>4, MatchedIs

-----------------------------------------------------------------------------
(* A whole batch. *)

MatchStep(t, db) == Matched(db, t)
LastOf(S) == Max(S)

MatchFold == INSTANCE FoldTheorems WITH Op <- MatchStep, Pick <- LastOf

LEMMA TakesLast ==
  ASSUME NEW n \in Nat
  PROVE  MatchFold!PicksLast(n)
<1>1. \A s \in SUBSET (1 .. n) : s # {} => \E x \in s : \A y \in s : x >= y
  BY MatchFold!GreatestExists
<1>2. QED
  BY <1>1 DEF LastOf, Max, MatchFold!PicksLast

\* run_auto_match has stages: the tables after 0, 1, .. n iterations.
LEMMA AutoMatchedStages ==
  ASSUME NEW db, NEW n \in Nat, NEW order, DOMAIN order = 1 .. n
  PROVE  LET h == MatchFold!Stages(db, order, n)
         IN  /\ h[0] = db
             /\ \A k \in 1 .. n : h[k] = Matched(h[k - 1], order[k])
             /\ h[n] = AutoMatched(db, order)
<1>1. MatchFold!IsStages(MatchFold!Stages(db, order, n), db, order, n)
  BY TakesLast, MatchFold!FoldsInOrder
<1>2. AutoMatched(db, order) = MatchFold!Iterated(db, order, 1 .. n)[1 .. n]
  BY DEF AutoMatched, FoldLeft, MapThenFoldSet, MatchStep, LastOf, MatchFold!Iterated,
         MatchFold!Unfold
<1>3. QED
  BY <1>1, <1>2 DEF MatchFold!IsStages, MatchStep

\* By induction over the stages.
LEMMA BatchKeeps ==
  ASSUME NEW db0, BankOK(db0), NEW n \in Nat, NEW order, DOMAIN order = 1 .. n,
         \A k \in 1 .. n : order[k] \in DOMAIN db0.txs /\ IsFree(db0.txs[order[k]]),
         \A j, k \in 1 .. n : j # k => order[j] # order[k]
  PROVE  /\ BankOK(AutoMatched(db0, order))
         /\ Since(db0, AutoMatched(db0, order), {order[k] : k \in 1 .. n})
<1> DEFINE h == MatchFold!Stages(db0, order, n)
           Done(k) == {order[j] : j \in 1 .. k}
           T == {k \in Nat : k <= n => BankOK(h[k]) /\ Since(db0, h[k], Done(k))}
<1>1. /\ h[0] = db0
      /\ \A k \in 1 .. n : h[k] = Matched(h[k - 1], order[k])
      /\ h[n] = AutoMatched(db0, order)
  BY AutoMatchedStages
<1> HIDE DEF h
<1>2. 0 \in T
  <2>1. Done(0) = {}
    OBVIOUS
  <2>2. BankOK(h[0]) /\ Since(db0, h[0], {})
    BY <1>1, SinceStart
  <2>3. QED
    BY <2>1, <2>2
<1>3. ASSUME NEW k \in Nat, k \in T
      PROVE  k + 1 \in T
  <2> SUFFICES ASSUME k + 1 <= n
               PROVE  BankOK(h[k + 1]) /\ Since(db0, h[k + 1], Done(k + 1))
    OBVIOUS
  <2>1. k + 1 \in 1 .. n /\ BankOK(h[k]) /\ Since(db0, h[k], Done(k))
    BY <1>3
  <2>2. h[k + 1] = Matched(h[k], order[k + 1])
    BY <1>1, <2>1
  <2>3. /\ Done(k) \subseteq DOMAIN db0.txs
        /\ order[k + 1] \in DOMAIN db0.txs /\ IsFree(db0.txs[order[k + 1]])
        /\ order[k + 1] \notin Done(k)
    BY <2>1
  <2>4. Done(k + 1) = Done(k) \cup {order[k + 1]}
    <3>1. 1 .. k + 1 = (1 .. k) \cup {k + 1}
      OBVIOUS
    <3>2. QED
      BY <3>1
  <2> HIDE DEF Done
  <2>5. QED
    BY <2>1, <2>2, <2>3, <2>4, IterationKeeps
<1>4. \A k \in Nat : k \in T
  <2> HIDE DEF T
  <2>1. QED
    BY <1>2, <1>3, MatchFold!NatSetInduction
<1>5. BankOK(h[n]) /\ Since(db0, h[n], Done(n))
  <2>1. n \in T
    BY <1>4
  <2> HIDE DEF Done
  <2>2. QED
    BY <2>1
<1>6. QED
  BY <1>1, <1>5

\* An order of a set names each of its elements once.
LEMMA OrderCovers ==
  ASSUME NEW S, IsFiniteSet(S), NEW order \in SetToSeqs(S)
  PROVE  /\ Cardinality(S) \in Nat
         /\ DOMAIN order = 1 .. Cardinality(S)
         /\ \A j, k \in 1 .. Cardinality(S) : j # k => order[j] # order[k]
         /\ {order[k] : k \in 1 .. Cardinality(S)} = S
<1> DEFINE n == Cardinality(S)
           D == 1 .. n
<1>1. n \in Nat
  BY FS_CardinalityType
<1>2. order \in [D -> S] /\ \A j, k \in D : j # k => order[j] # order[k]
  BY DEF SetToSeqs
<1>3. IsFiniteSet(D) /\ Cardinality(D) = n
  BY <1>1, FS_Interval, 1 \in Int
<1> HIDE DEF n, D
<1>4. order \in Injection(D, S)
  BY <1>2 DEF Injection, IsInjective
<1>5. order \in Surjection(D, S)
  BY <1>3, <1>4, FS_Injection DEF n
<1>6. \A x \in S : \E k \in D : order[k] = x
  BY <1>5 DEF Surjection
<1>7. {order[k] : k \in D} = S /\ DOMAIN order = D
  BY <1>2, <1>6
<1>8. QED
  BY <1>1, <1>2, <1>7 DEF n, D

\* A batch over all open transactions, in any order.
LEMMA BatchOverOpen ==
  ASSUME NEW db0, BankOK(db0), NEW order \in SetToSeqs(Open(db0.txs))
  PROVE  /\ BankOK(AutoMatched(db0, order))
         /\ Since(db0, AutoMatched(db0, order), Open(db0.txs))
<1> DEFINE S == Open(db0.txs)
           n == Cardinality(S)
<1>1. Transactions(db0)
  BY DEF BankOK
<1>2. IsFiniteSet(S)
  <2>1. db0.txs \in Seq(Transaction)
    BY <1>1 DEF Transactions
  <2>2. Len(db0.txs) \in Nat /\ DOMAIN db0.txs = 1 .. Len(db0.txs)
    BY <2>1
  <2>3. IsFiniteSet(DOMAIN db0.txs)
    BY <2>2, FS_Interval, 1 \in Int
  <2>4. S \subseteq DOMAIN db0.txs
    BY DEF Open
  <2>5. QED
    BY <2>3, <2>4, FS_Subset
<1>3. \A t \in S : t \in DOMAIN db0.txs /\ IsFree(db0.txs[t])
  BY <1>1 DEF Open, Transactions
<1> HIDE DEF S
<1>4. /\ n \in Nat /\ DOMAIN order = 1 .. n
      /\ \A j, k \in 1 .. n : j # k => order[j] # order[k]
      /\ {order[k] : k \in 1 .. n} = S
  BY <1>2, OrderCovers DEF S
<1> HIDE DEF n
<1>5. \A k \in 1 .. n : order[k] \in DOMAIN db0.txs /\ IsFree(db0.txs[order[k]])
  BY <1>3, <1>4
<1>6. BankOK(AutoMatched(db0, order)) /\ Since(db0, AutoMatched(db0, order), S)
  <2>1. /\ BankOK(AutoMatched(db0, order))
        /\ Since(db0, AutoMatched(db0, order), {order[k] : k \in 1 .. n})
    <3>1. n \in Nat /\ DOMAIN order = 1 .. n /\ \A j, k \in 1 .. n : j # k => order[j] # order[k]
      BY <1>4
    <3>2. QED
      BY <1>5, <3>1, BatchKeeps
  <2>2. QED
    BY <1>4, <2>1
<1>7. QED
  BY <1>6 DEF S

-----------------------------------------------------------------------------
(* import_transactions *)

ImportStep(row, acc) ==
  IF \E t \in DOMAIN acc : Key(acc[t].row) = Key(row) THEN acc
  ELSE Append(acc, NewTransaction(row))

ImportFold == INSTANCE FoldTheorems WITH Op <- ImportStep, Pick <- LastOf

\* `new` holds the transactions of `ts` and free ones after them.
ImportedTo(ts, new) ==
  /\ new \in Seq(Transaction)
  /\ DOMAIN ts \subseteq DOMAIN new
  /\ \A t \in DOMAIN ts : new[t] = ts[t]
  /\ \A t \in DOMAIN new \ DOMAIN ts : IsFree(new[t])
  /\ DistinctKeys(new)

LEMMA ImportStepKeeps ==
  ASSUME NEW ts, NEW acc, ImportedTo(ts, acc), NEW row \in StatementRows
  PROVE  ImportedTo(ts, ImportStep(row, acc))
<1> DEFINE x == NewTransaction(row)
           n == Len(acc) + 1
<1>1. CASE \E t \in DOMAIN acc : Key(acc[t].row) = Key(row)
  BY <1>1 DEF ImportStep
<1>2. CASE ~\E t \in DOMAIN acc : Key(acc[t].row) = Key(row)
  <2>1. /\ x \in Transaction /\ IsFree(x) /\ x.row = row
    BY DEF NewTransaction, Transaction, IsFree, NoInvoice, NoEntry
  <2>2. acc \in Seq(Transaction) /\ ImportStep(row, acc) = Append(acc, x)
    BY <1>2 DEF ImportStep, ImportedTo
  <2> HIDE DEF x
  <2>3. /\ Append(acc, x) \in Seq(Transaction) /\ n \in Nat
        /\ DOMAIN acc = 1 .. n - 1 /\ DOMAIN Append(acc, x) = 1 .. n
        /\ Append(acc, x)[n] = x /\ \A t \in 1 .. n - 1 : Append(acc, x)[t] = acc[t]
    BY <2>1, <2>2
  <2> DEFINE new == Append(acc, x)
  <2> HIDE DEF n, new
  <2>4. /\ new \in Seq(Transaction) /\ DOMAIN new = DOMAIN acc \cup {n} /\ n \notin DOMAIN acc
        /\ new[n] = x /\ \A t \in DOMAIN acc : new[t] = acc[t]
    BY <2>3 DEF new
  <2>5. DistinctKeys(new)
    BY <1>2, <2>1, <2>4 DEF ImportedTo, DistinctKeys
  <2>6. ImportedTo(ts, new)
    BY <2>1, <2>4, <2>5 DEF ImportedTo
  <2>7. QED
    BY <2>2, <2>6 DEF new
<1>3. QED
  BY <1>1, <1>2

\* Importing a statement, row by row.
LEMMA ImportKeeps ==
  ASSUME NEW ts \in Seq(Transaction), DistinctKeys(ts), NEW rows \in Seq(StatementRows)
  PROVE  ImportedTo(ts, Imported(ts, rows))
<1> DEFINE n == Len(rows)
           h == ImportFold!Stages(ts, rows, n)
           T == {k \in Nat : k <= n => ImportedTo(ts, h[k])}
<1>1. n \in Nat /\ DOMAIN rows = 1 .. n /\ \A k \in 1 .. n : rows[k] \in StatementRows
  OBVIOUS
<1>2. ImportFold!PicksLast(n)
  <2> HIDE DEF n
  <2>1. \A s \in SUBSET (1 .. n) : s # {} => \E x \in s : \A y \in s : x >= y
    BY <1>1, ImportFold!GreatestExists
  <2>2. QED
    BY <2>1 DEF LastOf, Max, ImportFold!PicksLast
<1>3. Imported(ts, rows) = ImportFold!Iterated(ts, rows, 1 .. n)[1 .. n]
  <2> HIDE DEF n
  <2>1. QED
    BY <1>1 DEF Imported, FoldLeft, MapThenFoldSet, ImportStep, LastOf, ImportFold!Iterated,
                ImportFold!Unfold
<1> HIDE DEF n
<1>4. ImportFold!IsStages(h, ts, rows, n)
  BY <1>1, <1>2, ImportFold!FoldsInOrder
<1>5. /\ h[0] = ts /\ \A k \in 1 .. n : h[k] = ImportStep(rows[k], h[k - 1])
      /\ h[n] = Imported(ts, rows)
  BY <1>3, <1>4 DEF ImportFold!IsStages
<1> HIDE DEF h
<1>6. 0 \in T
  BY <1>5 DEF ImportedTo
<1>7. ASSUME NEW k \in Nat, k \in T
      PROVE  k + 1 \in T
  <2> SUFFICES ASSUME k + 1 <= n PROVE ImportedTo(ts, h[k + 1])
    OBVIOUS
  <2>1. k + 1 \in 1 .. n /\ ImportedTo(ts, h[k])
    BY <1>1, <1>7
  <2>2. h[k + 1] = ImportStep(rows[k + 1], h[k]) /\ rows[k + 1] \in StatementRows
    BY <1>1, <1>5, <2>1
  <2>3. QED
    BY <2>1, <2>2, ImportStepKeeps
<1>8. \A k \in Nat : k \in T
  <2> HIDE DEF T
  <2>1. QED
    BY <1>6, <1>7, ImportFold!NatSetInduction
<1>9. n \in T
  BY <1>1, <1>8
<1>10. QED
  BY <1>1, <1>5, <1>9

\* The tables with the imported transactions, before they are matched.
LEMMA ImportOK ==
  ASSUME NEW db, BankOK(db), NEW ts, ImportedTo(db.txs, ts)
  PROVE  /\ BankOK(SetTxs(db, ts)) /\ SetTxs(db, ts).txs = ts
         /\ SetTxs(db, ts).entries = db.entries /\ SetTxs(db, ts).lines = db.lines
         /\ SetTxs(db, ts).invoices = db.invoices
<1> DEFINE new == SetTxs(db, ts)
<1>1. /\ IsBankDb(new) /\ new.entries = db.entries /\ new.lines = db.lines
      /\ new.balances = db.balances /\ new.invoices = db.invoices
      /\ new.alerts = db.alerts /\ new.txs = ts
  BY SetColumn DEF BankOK, IsBankDb
<1> HIDE DEF new
<1>2. /\ TablesOf(new) = TablesOf(db)
      /\ IsTables(TablesOf(new)) /\ Consistent(TablesOf(new))
  BY <1>1 DEF TablesOf, BankOK
<1>3. /\ ts \in Seq(Transaction) /\ DOMAIN db.txs \subseteq DOMAIN ts
      /\ \A t \in DOMAIN db.txs : ts[t] = db.txs[t]
      /\ \A t \in DOMAIN ts \ DOMAIN db.txs : IsFree(ts[t])
  BY DEF ImportedTo
<1>4. Transactions(db) /\ OwnEntries(db.txs) /\ AlertsFit(db.alerts, db.txs)
  BY DEF BankOK
<1>5. Transactions(new)
  <2>1. \A x : Settled(new, x) <=> Settled(db, x)
    BY <1>1 DEF Settled
  <2>2. \A t \in DOMAIN ts : IsFree(ts[t]) \/ Settled(new, ts[t])
    BY <1>3, <1>4, <2>1 DEF Transactions
  <2>3. \A t \in DOMAIN ts : ts[t].reconciled <=> ~IsFree(ts[t])
    BY <1>3, <1>4 DEF Transactions, IsFree
  <2>4. QED
    BY <1>1, <1>3, <2>2, <2>3 DEF Transactions
<1>6. OwnEntries(ts)
  <2>1. ASSUME NEW s \in DOMAIN ts, NEW t \in DOMAIN ts, ts[t].reconciled,
               ts[s].entry = ts[t].entry
        PROVE  s = t
    <3>1. t \in DOMAIN db.txs /\ ts[t] = db.txs[t]
      BY <1>3, <2>1 DEF IsFree
    <3>2. ts[t].entry # NoEntry
      <4>1. Settled(db, ts[t])
        BY <1>4, <2>1, <3>1 DEF Transactions
      <4>2. db.entries \in Seq(Entry)
        BY DEF BankOK, IsTables, TablesOf
      <4>3. QED
        BY <4>1, <4>2 DEF Settled, NoEntry
    <3>3. s \in DOMAIN db.txs /\ ts[s] = db.txs[s]
      BY <1>3, <2>1, <3>2 DEF IsFree
    <3>4. QED
      BY <1>4, <2>1, <3>1, <3>3 DEF OwnEntries
  <2>2. QED
    BY <2>1 DEF OwnEntries
<1>7. AlertsFit(db.alerts, ts)
  <2>1. \A t \in DOMAIN ts : ts[t].reconciled => t \in DOMAIN db.txs /\ ts[t] = db.txs[t]
    BY <1>3 DEF IsFree
  <2>2. QED
    BY <1>3, <1>4, <2>1 DEF AlertsFit
<1>8. AllSettle(db) => AllSettle(new)
  BY <1>1, <1>3 DEF AllSettle
<1>9. db.invoices \in Seq(Invoice) /\ (ClientsLeaveBankAccount => AllSettle(db))
  BY DEF BankOK
<1>10. BankOK(new)
  BY <1>1, <1>2, <1>5, <1>6, <1>7, <1>8, <1>9 DEF BankOK
<1>11. QED
  BY <1>1, <1>10 DEF new

-----------------------------------------------------------------------------
(* What the requests of a client do to the settlements in the books. *)

\* Of the entries there were, a request changes `id` at most.
ChangesOnly(id) == \A e \in DOMAIN entries : e # id => entries'[e] = entries[e]

\* What a request posts to the bank account is a reversal or a correction.
PostsOffBank ==
  \A e \in DOMAIN entries' \ DOMAIN entries :
    entries'[e].type = "STANDARD" => OnBank(lines', e) = {}

LEMMA PostingOffBank ==
  ASSUME TypeOK, NEW req, NEW p, NEW currency, NEW rate,
         PostJournalEntry(req, p, currency, rate)
  PROVE  /\ ChangesOnly(NoEntry)
         /\ "221" \notin AccountsOf(req) => PostsOffBank
<1> DEFINE n == Len(entries) + 1
           x == [period |-> p, status |-> "posted", type |-> "STANDARD",
                 reverses |-> NoEntry, currency |-> currency]
<1>1. entries' = Append(entries, x) /\ lines' = lines \cup LineRows(n, req, rate)
  BY DEF PostJournalEntry, Commit, PostTo, Tables
<1>2. entries \in Seq(Entry) /\ \A l \in lines : l.entry \in DOMAIN entries
  BY DEF TypeOK
<1> HIDE DEF x
<1>3. /\ n \in Nat /\ DOMAIN entries = 1 .. n - 1 /\ DOMAIN entries' = 1 .. n
      /\ \A e \in 1 .. n - 1 : entries'[e] = entries[e]
  BY <1>1, <1>2
<1>4. \A l \in LineRows(n, req, rate) : l.account \in AccountsOf(req)
  BY DEF LineRows, AccountsOf
<1> HIDE DEF n
<1>5. \A e \in DOMAIN entries' \ DOMAIN entries : e = n
  BY <1>3
<1>6. \A l \in lines : l.entry # n
  BY <1>2, <1>3
<1>7. "221" \notin AccountsOf(req) => OnBank(lines', n) = {}
  BY <1>1, <1>4, <1>6 DEF OnBank, LinesOf
<1>8. QED
  BY <1>3, <1>5, <1>7 DEF ChangesOnly, PostsOffBank

LEMMA ReversalOffBank ==
  ASSUME TypeOK, NEW id \in DOMAIN entries, NEW p, NEW rate, ReverseJournalEntry(id, p, rate)
  PROVE  /\ ChangesOnly(id) /\ PostsOffBank
         /\ entries[id].status = "posted" /\ entries'[id].status = "voided"
<1> DEFINE n == Len(entries) + 1
           x == [period |-> p, status |-> "posted", type |-> "REVERSAL",
                 reverses |-> id, currency |-> entries[id].currency]
           es == Append(entries, x)
<1>1. entries' = [es EXCEPT ![id].status = "voided"] /\ entries[id].status = "posted"
  BY ReversedEntries DEF ReverseJournalEntry, CanReverse, Commit
<1>2. entries \in Seq(Entry)
  BY DEF TypeOK
<1>3. x.type # "STANDARD"
  OBVIOUS
<1> HIDE DEF x
<1>4. /\ n \in Nat /\ DOMAIN entries = 1 .. n - 1 /\ DOMAIN es = 1 .. n /\ es[n] = x
      /\ \A e \in 1 .. n - 1 : es[e] = entries[e]
  BY <1>2
<1>5. entries[id] \in Entry
  BY <1>2
<1> HIDE DEF n, es
<1>6. /\ DOMAIN entries' = 1 .. n /\ id # n /\ entries'[n] = x
      /\ \A e \in 1 .. n - 1 : e # id => entries'[e] = entries[e]
  BY <1>1, <1>4
<1>7. entries'[id].status = "voided"
  <2>1. entries'[id] = [entries[id] EXCEPT !.status = "voided"]
    BY <1>1, <1>4
  <2>2. QED
    BY <1>5, <2>1 DEF Entry
<1>8. \A e \in DOMAIN entries' \ DOMAIN entries : e = n
  BY <1>4, <1>6
<1>9. QED
  BY <1>1, <1>3, <1>4, <1>6, <1>7, <1>8 DEF ChangesOnly, PostsOffBank

LEMMA CorrectionOffBank ==
  ASSUME TypeOK, NEW id \in DOMAIN entries, NEW p, NEW rate, NEW req,
         ReverseAndCorrect(id, p, rate, req)
  PROVE  ChangesOnly(id) /\ PostsOffBank
<1> DEFINE n == Len(entries) + 1
           x == [period |-> p, status |-> "posted", type |-> "REVERSAL",
                 reverses |-> id, currency |-> entries[id].currency]
           y == [period |-> p, status |-> "posted", type |-> "CORRECTION",
                 reverses |-> NoEntry, currency |-> entries[id].currency]
           es == Append(entries, x)
           void == [es[id] EXCEPT !.status = "voided"]
           mid == [es EXCEPT ![id] = void]
<1>1. entries' = Append(mid, y)
  <2>1. entries' = Append(Reversed(id, p, rate).entries, y)
    BY DEF ReverseAndCorrect, Commit, PostTo
  <2>2. QED
    BY <2>1, ReversedEntries
<1>2. entries \in Seq(Entry)
  BY DEF TypeOK
<1>3. x.type # "STANDARD" /\ y.type # "STANDARD"
  OBVIOUS
<1> HIDE DEF x, y, void
<1>4. /\ n \in Nat /\ DOMAIN entries = 1 .. n - 1 /\ DOMAIN es = 1 .. n /\ es[n] = x
      /\ \A e \in 1 .. n - 1 : es[e] = entries[e]
      /\ Len(es) = n /\ es \in Seq(Entry \cup {x})
  BY <1>2
<1> HIDE DEF es
<1>5. /\ DOMAIN mid = 1 .. n /\ mid[n] = x
      /\ \A e \in 1 .. n - 1 : e # id => mid[e] = entries[e]
  BY <1>4
<1>6. mid \in Seq(Entry \cup {x, void}) /\ Len(mid) = n
  <2>1. mid \in [1 .. n -> Entry \cup {x, void}]
    BY <1>4
  <2> HIDE DEF mid
  <2>2. n \in Nat /\ mid \in Seq(Entry \cup {x, void})
    BY <1>4, <2>1
  <2>3. QED
    BY <1>5, <2>2
<1> HIDE DEF mid, n
<1>7. /\ DOMAIN entries' = 1 .. n + 1 /\ entries'[n + 1] = y
      /\ \A e \in 1 .. n : entries'[e] = mid[e]
  BY <1>1, <1>4, <1>6
<1>8. \A e \in DOMAIN entries' \ DOMAIN entries : entries'[e] = x \/ entries'[e] = y
  <2>1. \A e \in DOMAIN entries' \ DOMAIN entries : e = n \/ e = n + 1
    BY <1>4, <1>7
  <2>2. n \in 1 .. n
    BY <1>4, n # 0 DEF n
  <2>3. QED
    BY <1>5, <1>7, <2>1, <2>2
<1>9. ChangesOnly(id)
  BY <1>4, <1>5, <1>7 DEF ChangesOnly
<1>10. QED
  BY <1>3, <1>8, <1>9 DEF PostsOffBank

\* A request of another component changes one entry at most, and what it posts
\* to the bank account is no settlement.
LEMMA OthersOffBank ==
  ASSUME TypedAndConsistent, InvoicesLinked, LedgerRequest \/ InvoiceRequested
  PROVE  /\ \E id : ChangesOnly(id)
         /\ ClientsLeaveBankAccount => PostsOffBank
<1> DEFINE Goal == (\E id : ChangesOnly(id)) /\ (ClientsLeaveBankAccount => PostsOffBank)
<1>1. TypeOK /\ Linked
  BY DEF TypedAndConsistent, InvoicesLinked
<1>2. ASSUME NEW req \in ManualRequests, NEW p \in Periods, NEW currency \in {"CZK", "FX"},
             NEW rate \in RatesFor(currency), PostJournalEntry(req, p, currency, rate)
      PROVE  Goal
  BY <1>1, <1>2, PostingOffBank DEF ClientsLeaveBankAccount
<1>3. ASSUME NEW id \in DOMAIN entries, NEW p \in Periods,
             NEW rate \in RatesFor(entries[id].currency), ReverseJournalEntry(id, p, rate)
      PROVE  Goal
  BY <1>1, <1>3, ReversalOffBank
<1>4. ASSUME NEW id \in DOMAIN entries, NEW p \in Periods,
             NEW rate \in RatesFor(entries[id].currency), NEW req \in Corrections,
             ReverseAndCorrect(id, p, rate, req)
      PROVE  Goal
  BY <1>1, <1>4, CorrectionOffBank
<1>5. CASE PeriodRequest \/ \E alert \in openAlerts : ResolveAlert(alert)
  <2>1. UNCHANGED entries
    BY <1>5 DEF PeriodRequest, SeedPeriod, OpenPeriod, ClosePeriod, LockPeriod, ResolveAlert, vars
  <2>2. QED
    BY <2>1 DEF ChangesOnly, PostsOffBank
<1>6. ASSUME NEW r \in InvoiceRequests, NEW rate \in RatesFor(r.currency), PostInvoice(r, rate)
      PROVE  Goal
  <2> DEFINE req == JournalLines(r, rate)
  <2>1. PostJournalEntry(req, r.period, "CZK", RateScale)
    BY <1>6 DEF PostInvoice
  <2>2. ClientsLeaveBankAccount => "221" \notin AccountsOf(req)
    BY DEF ClientsLeaveBankAccount
  <2> HIDE DEF req
  <2>3. QED
    BY <1>1, <2>1, <2>2, PostingOffBank
<1>7. ASSUME NEW i \in DOMAIN invoices, NEW p \in Periods, VoidInvoice(i, p)
      PROVE  Goal
  <2>1. invoices[i].entry \in DOMAIN entries /\ ReverseJournalEntry(invoices[i].entry, p, RateScale)
    BY <1>1, <1>7 DEF Linked, VoidInvoice
  <2>2. QED
    BY <1>1, <2>1, ReversalOffBank
<1>8. QED
  BY <1>2, <1>3, <1>4, <1>5, <1>6, <1>7
  DEF LedgerRequest, PostingRequest, ReversalRequest, InvoiceRequested

-----------------------------------------------------------------------------
(* The invariant of the system with banking. *)

BankInv ==
  /\ TypedAndConsistent
  /\ InvoicesLinked
  /\ Len(invoices) <= MaxInvoices
  /\ BankOK(BankTables)
  /\ DistinctKeys(txs)

LEMMA BankColumns ==
  /\ BankTables.entries = entries /\ BankTables.lines = lines
  /\ BankTables.balances = balances /\ BankTables.invoices = invoices
  /\ BankTables.alerts = openAlerts /\ BankTables.txs = txs
  /\ IsBankDb(BankTables) /\ TablesOf(BankTables) = Tables
BY DEF BankTables, IsBankDb, TablesOf, Tables

\* A request that writes tables that are right leaves a state that is right.
LEMMA CommitOK ==
  ASSUME BankInv, NEW db, BankOK(db), CommitBank(db), DistinctKeys(db.txs),
         BooksSince(BankTables, db), SameInvoices(BankTables, db)
  PROVE  BankInv' /\ BankTables' = db
<1>1. BankTables' = db
  BY DEF BankOK, IsBankDb, BankTables, CommitBank, Commit
<1>2. TypedAndConsistent'
  <2>1. Commit(TablesOf(db)) /\ UNCHANGED period
    BY DEF CommitBank, Commit, TablesOf
  <2>2. IsTables(TablesOf(db)) /\ Consistent(TablesOf(db)) /\ TypeOK
    BY DEF BankInv, BankOK, TypedAndConsistent
  <2>3. QED
    BY <2>1, <2>2, CommitTyped
<1>3. /\ invoices \in Seq(Invoice) /\ Linked
      /\ \A i, j \in DOMAIN invoices : invoices[i].entry = invoices[j].entry => i = j
      /\ \A i \in DOMAIN invoices :
           invoices[i].status = "voided" => IsReversed(entries, invoices[i].entry)
  BY DEF BankInv, InvoicesLinked
<1>4. /\ invoices' \in Seq(Invoice) /\ DOMAIN invoices' = DOMAIN invoices
      /\ \A i \in DOMAIN invoices : /\ invoices'[i].entry = invoices[i].entry
                                    /\ invoices'[i].status = invoices[i].status
  BY BankColumns DEF CommitBank, SameInvoices, BankOK
<1>5. \A e \in DOMAIN entries : e \in DOMAIN entries' /\ entries'[e] = entries[e]
  BY BankColumns DEF CommitBank, Commit, BooksSince
<1>6. \A e \in DOMAIN entries : IsReversed(entries, e) => IsReversed(entries', e)
  BY <1>5 DEF IsReversed
<1>7. InvoicesLinked'
  BY <1>3, <1>4, <1>5, <1>6 DEF InvoicesLinked, Linked
<1>8. Len(invoices') <= MaxInvoices
  <2>1. Len(invoices) <= MaxInvoices
    BY DEF BankInv
  <2>2. Len(invoices') = Len(invoices)
    BY <1>3, <1>4
  <2>3. QED
    BY <2>1, <2>2
<1>9. BankOK(BankTables') /\ DistinctKeys(txs')
  BY <1>1 DEF CommitBank
<1>10. QED
  BY <1>1, <1>2, <1>7, <1>8, <1>9 DEF BankInv

LEMMA SameKeys ==
  ASSUME NEW ts, DistinctKeys(ts), NEW new, DOMAIN new = DOMAIN ts,
         \A t \in DOMAIN ts : new[t].row = ts[t].row
  PROVE  DistinctKeys(new)
BY DEF DistinctKeys

\* What a batch request does, whether it imported the transactions `ts` or took
\* those that there were.
BatchFrom(ts) ==
  /\ ImportedTo(txs, ts)
  /\ BankInv'
  /\ Since(SetTxs(BankTables, ts), BankTables', Open(ts))

LEMMA BatchCommitted ==
  ASSUME BankInv, NEW ts, ImportedTo(txs, ts), NEW order \in SetToSeqs(Open(ts)),
         CommitBank(AutoMatched(SetTxs(BankTables, ts), order))
  PROVE  BatchFrom(ts)
<1> DEFINE db0 == SetTxs(BankTables, ts)
           db == AutoMatched(db0, order)
<1>1. BankOK(BankTables) /\ BankTables.txs = txs
  BY BankColumns DEF BankInv
<1>2. /\ BankOK(db0) /\ db0.txs = ts /\ db0.entries = BankTables.entries
      /\ db0.lines = BankTables.lines /\ db0.invoices = BankTables.invoices
  BY <1>1, ImportOK
<1> HIDE DEF db0
<1>3. BankOK(db) /\ Since(db0, db, Open(ts))
  BY <1>2, BatchOverOpen
<1>4. CommitBank(db)
  BY DEF db0
<1> HIDE DEF db
<1>5. BooksSince(BankTables, db) /\ SameInvoices(BankTables, db)
  BY <1>2, <1>3 DEF Since, BooksSince, InvoicesSince, SameInvoices
<1>6. DistinctKeys(db.txs)
  BY <1>2, <1>3, SameKeys DEF Since, TransactionsSince, ImportedTo
<1>7. BankInv' /\ BankTables' = db
  BY <1>3, <1>4, <1>5, <1>6, CommitOK
<1>8. QED
  BY <1>3, <1>7 DEF BatchFrom, db0

LEMMA BatchIs ==
  ASSUME BankInv, (\E rows \in Statements : ImportStatement(rows)) \/ AutoMatch
  PROVE  \E ts : BatchFrom(ts)
<1>1. txs \in Seq(Transaction) /\ DistinctKeys(txs) /\ BankOK(BankTables)
  BY BankColumns DEF BankInv, BankOK, Transactions
<1>2. ASSUME NEW rows \in Statements, ImportStatement(rows)
      PROVE  \E ts : BatchFrom(ts)
  <2> DEFINE ts == Imported(txs, rows)
  <2>1. rows \in Seq(StatementRows)
    BY BankingAssumption
  <2>2. ImportedTo(txs, ts)
    BY <1>1, <2>1, ImportKeeps
  <2>3. \E order \in SetToSeqs(Open(ts)) :
          CommitBank(AutoMatched(SetTxs(BankTables, ts), order))
    BY <1>2 DEF ImportStatement, SetTxs
  <2> HIDE DEF ts
  <2>4. QED
    BY <2>2, <2>3, BatchCommitted
<1>3. CASE AutoMatch
  <2>1. ImportedTo(txs, txs)
    BY <1>1 DEF ImportedTo
  <2>2. SetTxs(BankTables, txs) = BankTables
    BY BankColumns, SetColumn DEF BankTables
  <2>3. \E order \in SetToSeqs(Open(txs)) :
          CommitBank(AutoMatched(SetTxs(BankTables, txs), order))
    BY <1>3, <2>2 DEF AutoMatch
  <2>4. QED
    BY <2>1, <2>3, BatchCommitted
<1>4. QED
  BY <1>2, <1>3

LEMMA MatchIs ==
  ASSUME BankInv, NEW t \in DOMAIN txs, NEW i \in DOMAIN invoices, MatchTransaction(t, i)
  PROVE  /\ BankInv' /\ IsFree(txs[t])
         /\ Reconciles(BankTables, t, i, Len(entries) + 1, BankTables')
<1> DEFINE db == Reconciled(BankTables, t, i)
           n == Len(entries) + 1
<1>1. CanReconcile(BankTables, t, i) /\ CommitBank(db) /\ BankOK(BankTables)
  BY DEF MatchTransaction, BankInv
<1>2. IsFree(txs[t])
  BY <1>1, BankColumns DEF BankOK, Transactions, CanReconcile
<1>3. Reconciles(BankTables, t, i, n, db)
  BY <1>1, BankColumns, ReconcileFacts
<1> HIDE DEF db, n
<1>4. BankOK(db)
  BY <1>1, <1>2, <1>3, BankColumns, ReconcileOK
<1>5. /\ DOMAIN db.txs = DOMAIN txs /\ db.txs[t] = MatchedTo(BankTables, t, i, n)
      /\ \A s \in DOMAIN txs : s # t => db.txs[s] = txs[s]
      /\ DOMAIN db.invoices = DOMAIN invoices
      /\ db.invoices[i] = MarkedPaid(invoices[i])
      /\ \A j \in DOMAIN invoices : j # i => db.invoices[j] = invoices[j]
  BY <1>1, <1>3, BankColumns, ReconciledTransactions
<1>6. \A s \in DOMAIN txs : db.txs[s].row = txs[s].row
  BY <1>5, BankColumns DEF MatchedTo
<1>7. DistinctKeys(db.txs)
  BY <1>5, <1>6, SameKeys DEF BankInv
<1>8. SameInvoices(BankTables, db)
  <2>1. invoices[i] \in Invoice
    BY DEF BankInv, InvoicesLinked
  <2>2. /\ MarkedPaid(invoices[i]).request = invoices[i].request
        /\ MarkedPaid(invoices[i]).rate = invoices[i].rate
        /\ MarkedPaid(invoices[i]).status = invoices[i].status
        /\ MarkedPaid(invoices[i]).entry = invoices[i].entry
    BY <2>1 DEF MarkedPaid, Invoice
  <2>3. QED
    BY <1>5, <2>2, BankColumns DEF SameInvoices
<1>9. BooksSince(BankTables, db)
  BY <1>1, <1>3, BankColumns
  DEF Reconciles, AddsPayment, BooksSince
<1>10. BankInv' /\ BankTables' = db
  BY <1>1, <1>4, <1>7, <1>8, <1>9, CommitOK
<1>11. QED
  BY <1>2, <1>3, <1>10 DEF n

-----------------------------------------------------------------------------
(* A step of the ledger, seen from the bank. *)

LEMMA LinesKept ==
  ASSUME TypedAndConsistent, [Next]_vars, NEW e \in DOMAIN entries
  PROVE  OnBank(lines', e) = OnBank(lines, e)
BY StepKeepsHistory DEF HistoryKept, OnBank, LinesOf

LEMMA SettledKept ==
  ASSUME TypedAndConsistent, [Next]_vars, DOMAIN invoices \subseteq DOMAIN invoices',
         NEW x, Settled(BankTables, x)
  PROVE  Settled(BankTables', x)
<1>1. /\ x.invoice \in DOMAIN invoices /\ x.entry \in DOMAIN entries
      /\ entries[x.entry].currency = "CZK" /\ Moves(lines, x.entry, x.row)
  BY BankColumns DEF Settled
<1>2. x.entry \in DOMAIN entries' /\ entries'[x.entry].currency = "CZK"
  BY <1>1, LedgerStepKeeps
<1>3. Moves(lines', x.entry, x.row)
  BY <1>1, LinesKept DEF Moves
<1>4. QED
  BY <1>1, <1>2, <1>3 DEF Settled, BankTables

\* An entry that the step did not change or that it took out of the books.
LEMMA SettlesKept ==
  ASSUME BankInv, [Next]_vars, PostsOffBank, AllSettle(BankTables),
         \A t \in DOMAIN txs : txs[t].reconciled /\ entries'[txs[t].entry].status = "posted"
           => t \in DOMAIN txs' /\ txs'[t].reconciled /\ txs'[t].entry = txs[t].entry
  PROVE  AllSettle(BankTables')
<1> SUFFICES ASSUME NEW e \in DOMAIN entries', entries'[e].status = "posted",
                    entries'[e].type = "STANDARD", OnBank(lines', e) # {}
             PROVE  \E t \in DOMAIN txs' : txs'[t].reconciled /\ txs'[t].entry = e
  BY DEF AllSettle, BankTables
<1>1. TypedAndConsistent /\ entries \in Seq(Entry)
  BY DEF BankInv, TypedAndConsistent, TypeOK
<1>2. e \in DOMAIN entries
  BY DEF PostsOffBank
<1>3. entries'[e] \in {entries[e], [entries[e] EXCEPT !.status = "voided"]}
  BY <1>1, <1>2, StepKeepsHistory DEF HistoryKept
<1>4. entries[e].status = "posted" /\ entries[e].type = "STANDARD"
  <2>1. entries[e] \in Entry
    BY <1>1, <1>2
  <2>2. QED
    BY <1>3, <2>1 DEF Entry
<1>5. OnBank(lines, e) # {}
  BY <1>1, <1>2, LinesKept
<1>6. PICK t \in DOMAIN txs : txs[t].reconciled /\ txs[t].entry = e
  BY <1>2, <1>4, <1>5, BankColumns DEF AllSettle
<1>7. QED
  BY <1>6

\* The settlement is reversed like any entry in CZK: a step of the ledger.
LEMMA UnmatchIsReversal ==
  ASSUME BankInv, NEW t \in DOMAIN txs, NEW p \in Periods, UnmatchTransaction(t, p)
  PROVE  /\ [Next]_vars
         /\ Settled(BankTables, txs[t]) /\ txs[t] \in Transaction
         /\ ChangesOnly(txs[t].entry) /\ PostsOffBank
         /\ entries[txs[t].entry].status = "posted"
         /\ entries'[txs[t].entry].status = "voided"
<1>1. Transactions(BankTables) /\ TypeOK
  BY DEF BankInv, BankOK, TypedAndConsistent
<1>2. Settled(BankTables, txs[t]) /\ txs[t] \in Transaction
  BY <1>1, BankColumns, RowType DEF Transactions, UnmatchTransaction
<1> DEFINE id == txs[t].entry
<1>3. id \in DOMAIN entries /\ RateScale \in RatesFor(entries[id].currency)
  BY <1>2, BankColumns DEF Settled, RatesFor
<1>4. ReverseJournalEntry(id, p, RateScale)
  BY DEF UnmatchTransaction
<1> HIDE DEF id
<1>5. [Next]_vars
  BY <1>3, <1>4 DEF Next, ReversalRequest
<1>6. /\ ChangesOnly(id) /\ PostsOffBank
      /\ entries[id].status = "posted" /\ entries'[id].status = "voided"
  BY <1>1, <1>3, <1>4, ReversalOffBank
<1>7. QED
  BY <1>2, <1>5, <1>6 DEF id

MarkedUnpaid(invoice) == [invoice EXCEPT !.paid = FALSE]

LEMMA UnmatchedInvoices ==
  ASSUME BankInv, NEW i \in DOMAIN invoices,
         invoices' = [invoices EXCEPT ![i] = MarkedUnpaid(invoices[i])]
  PROVE  /\ invoices' \in Seq(Invoice) /\ DOMAIN invoices' = DOMAIN invoices
         /\ invoices'[i].paid = FALSE
         /\ \A j \in DOMAIN invoices : /\ invoices'[j].entry = invoices[j].entry
                                       /\ invoices'[j].status = invoices[j].status
                                       /\ j # i => invoices'[j].paid = invoices[j].paid
<1>1. invoices \in Seq(Invoice)
  BY DEF BankInv, InvoicesLinked
<1>2. invoices[i] \in Invoice
  BY <1>1
<1> DEFINE x == MarkedUnpaid(invoices[i])
<1>3. /\ x \in Invoice /\ x.paid = FALSE /\ x.entry = invoices[i].entry
      /\ x.status = invoices[i].status
  BY <1>2 DEF Invoice, MarkedUnpaid
<1> HIDE DEF x
<1>4. /\ invoices' \in Seq(Invoice) /\ DOMAIN invoices' = DOMAIN invoices
      /\ invoices'[i] = x /\ \A j \in DOMAIN invoices : j # i => invoices'[j] = invoices[j]
  BY <1>1, <1>3 DEF x
<1>5. QED
  BY <1>3, <1>4

LEMMA UnmatchKeepsInv ==
  ASSUME BankInv, NEW t \in DOMAIN txs, NEW p \in Periods, UnmatchTransaction(t, p)
  PROVE  BankInv'
<1> DEFINE x == NewTransaction(txs[t].row)
           i == txs[t].invoice
<1>1. /\ [Next]_vars /\ Settled(BankTables, txs[t]) /\ txs[t] \in Transaction
      /\ PostsOffBank /\ entries'[txs[t].entry].status = "voided"
  BY UnmatchIsReversal
<1>2. /\ TypedAndConsistent /\ InvoicesLinked /\ Transactions(BankTables)
      /\ OwnEntries(txs) /\ AlertsFit(openAlerts, txs) /\ DistinctKeys(txs)
      /\ txs \in Seq(Transaction) /\ invoices \in Seq(Invoice)
  <2>1. /\ OwnEntries(txs) /\ AlertsFit(openAlerts, txs) /\ Transactions(BankTables)
    BY BankColumns DEF BankInv, BankOK
  <2>2. txs \in Seq(Transaction)
    BY <2>1, BankColumns DEF Transactions
  <2>3. QED
    BY <2>1, <2>2 DEF BankInv, InvoicesLinked
<1>3. i \in DOMAIN invoices
  BY <1>1, BankColumns DEF Settled
<1>4. /\ invoices' = [invoices EXCEPT ![i] = MarkedUnpaid(invoices[i])]
      /\ openAlerts' = openAlerts /\ txs' = [txs EXCEPT ![t] = x]
  BY DEF UnmatchTransaction, MarkedUnpaid
<1>5. /\ x \in Transaction /\ IsFree(x) /\ x.row = txs[t].row /\ x.entry = NoEntry
      /\ ~x.reconciled
  BY <1>1 DEF NewTransaction, Transaction, IsFree, NoInvoice, NoEntry
<1> HIDE DEF i, x
<1>6. /\ invoices' \in Seq(Invoice) /\ DOMAIN invoices' = DOMAIN invoices
      /\ \A j \in DOMAIN invoices : /\ invoices'[j].entry = invoices[j].entry
                                    /\ invoices'[j].status = invoices[j].status
  BY <1>3, <1>4, UnmatchedInvoices
<1>7. /\ txs' \in Seq(Transaction) /\ DOMAIN txs' = DOMAIN txs /\ txs'[t] = x
      /\ \A s \in DOMAIN txs : s # t => txs'[s] = txs[s]
  BY <1>2, <1>4, <1>5
<1>8. TypedAndConsistent'
  BY <1>1, <1>2, TypedStep
<1>9. InvoicesLinked'
  <2>1. \A e \in DOMAIN entries :
          /\ e \in DOMAIN entries' /\ entries'[e].currency = entries[e].currency
          /\ IsReversed(entries, e) => IsReversed(entries', e)
    BY <1>1, <1>2, LedgerStepKeeps
  <2>2. QED
    BY <1>2, <1>6, <2>1 DEF InvoicesLinked, Linked
<1>10. Len(invoices') <= MaxInvoices
  <2>1. Len(invoices') = Len(invoices)
    BY <1>2, <1>6
  <2>2. QED
    BY <2>1 DEF BankInv
<1>11. Transactions(BankTables')
  <2>1. \A y : Settled(BankTables, y) => Settled(BankTables', y)
    BY <1>1, <1>2, <1>6, SettledKept
  <2>2. \A s \in DOMAIN txs' : IsFree(txs'[s]) \/ Settled(BankTables', txs'[s])
    BY <1>2, <1>5, <1>7, <2>1, BankColumns DEF Transactions
  <2>3. \A s \in DOMAIN txs' : txs'[s].reconciled <=> ~IsFree(txs'[s])
    BY <1>2, <1>5, <1>7, BankColumns DEF Transactions
  <2>4. BankTables'.txs = txs'
    BY DEF BankTables
  <2>5. QED
    BY <1>7, <2>2, <2>3, <2>4 DEF Transactions
<1>12. OwnEntries(txs')
  <2>1. ASSUME NEW r \in DOMAIN txs', NEW s \in DOMAIN txs', txs'[s].reconciled,
               txs'[r].entry = txs'[s].entry
        PROVE  r = s
    <3>1. s # t /\ txs'[s] = txs[s] /\ s \in DOMAIN txs
      BY <1>5, <1>7, <2>1
    <3>2. Settled(BankTables, txs[s])
      BY <1>2, <2>1, <3>1, BankColumns DEF Transactions
    <3>3. txs[s].entry # NoEntry
      BY <1>2, <3>2, BankColumns DEF Settled, NoEntry, TypedAndConsistent, TypeOK
    <3>4. r # t /\ txs'[r] = txs[r] /\ r \in DOMAIN txs
      BY <1>5, <1>7, <2>1, <3>1, <3>3
    <3>5. QED
      BY <1>2, <2>1, <3>1, <3>4 DEF OwnEntries
  <2>2. QED
    BY <2>1 DEF OwnEntries
<1>13. AlertsFit(openAlerts', txs')
  BY <1>2, <1>4, <1>5, <1>7 DEF AlertsFit
<1>14. ClientsLeaveBankAccount => AllSettle(BankTables')
  <2>1. ClientsLeaveBankAccount => AllSettle(BankTables)
    BY DEF BankInv, BankOK
  <2>2. \A s \in DOMAIN txs : txs[s].reconciled /\ entries'[txs[s].entry].status = "posted"
          => s \in DOMAIN txs' /\ txs'[s].reconciled /\ txs'[s].entry = txs[s].entry
    BY <1>1, <1>7
  <2>3. QED
    BY <1>1, <2>1, <2>2, SettlesKept
<1>15. DistinctKeys(txs')
  <2>1. \A s \in DOMAIN txs : txs'[s].row = txs[s].row
    BY <1>5, <1>7
  <2>2. QED
    BY <1>2, <1>7, <2>1, SameKeys
<1>16. BankOK(BankTables')
  <2>1. /\ IsBankDb(BankTables') /\ TablesOf(BankTables') = Tables'
        /\ BankTables'.invoices = invoices' /\ BankTables'.txs = txs'
        /\ BankTables'.alerts = openAlerts'
    BY DEF BankTables, IsBankDb, TablesOf, Tables
  <2>2. IsTables(Tables') /\ Consistent(Tables')
    <3>1. (TypedAndConsistent => IsTables(Tables) /\ Consistent(Tables))'
      BY TablesOfState, PTL
    <3>2. QED
      BY <1>8, <3>1
  <2>3. QED
    BY <1>6, <1>11, <1>12, <1>13, <1>14, <2>1, <2>2 DEF BankOK
<1>17. QED
  BY <1>8, <1>9, <1>10, <1>15, <1>16 DEF BankInv

\* Requests of the other components: what they do to alerts and invoices.
LEMMA OthersInvoicesAndAlerts ==
  ASSUME BankInv, LedgerRequest \/ InvoiceRequested
  PROVE  /\ AlertsFit(openAlerts', txs)
         /\ Len(invoices') <= MaxInvoices
         /\ DOMAIN invoices \subseteq DOMAIN invoices'
         /\ \A i \in DOMAIN invoices : invoices'[i].paid = invoices[i].paid
         /\ \A i \in DOMAIN invoices' \ DOMAIN invoices : invoices'[i].paid = FALSE
<1> DEFINE Goal ==
      /\ AlertsFit(openAlerts', txs)
      /\ Len(invoices') <= MaxInvoices
      /\ DOMAIN invoices \subseteq DOMAIN invoices'
      /\ \A i \in DOMAIN invoices : invoices'[i].paid = invoices[i].paid
      /\ \A i \in DOMAIN invoices' \ DOMAIN invoices : invoices'[i].paid = FALSE
<1>1. /\ AlertsFit(openAlerts, txs) /\ invoices \in Seq(Invoice)
      /\ Len(invoices) <= MaxInvoices /\ MaxInvoices \in Nat
  BY BankColumns, InvoicesAssumption DEF BankInv, BankOK, InvoicesLinked
<1>2. CASE UNCHANGED <<invoices, openAlerts>>
  BY <1>1, <1>2
<1>3. ASSUME NEW r \in InvoiceRequests, NEW rate \in RatesFor(r.currency), PostInvoice(r, rate)
      PROVE  Goal
  <2> DEFINE n == Len(invoices) + 1
             x == [request |-> r, rate |-> rate, status |-> "posted",
                   entry |-> Len(entries) + 1, paid |-> FALSE]
             New(rule) == [rule |-> rule, about |-> About("invoice", n)]
             found == Findings(r, TotalGross(Amounts(r, rate)))
  <2>1. /\ Len(invoices) < MaxInvoices /\ invoices' = Append(invoices, x)
        /\ openAlerts' = openAlerts \cup {New(rule) : rule \in found}
    BY <1>3 DEF PostInvoice
  <2>2. x.paid = FALSE
    OBVIOUS
  <2> HIDE DEF x
  <2>3. /\ Len(invoices') <= MaxInvoices
        /\ DOMAIN invoices = 1 .. n - 1 /\ DOMAIN invoices' = 1 .. n /\ n \in Nat
        /\ invoices'[n] = x /\ \A i \in 1 .. n - 1 : invoices'[i] = invoices[i]
    BY <1>1, <2>1
  <2>4. \A rule \in found : /\ New(rule).rule \in InvoiceRules
                            /\ New(rule).about = About("invoice", n)
    BY DEF Findings
  <2>5. \A t : About("invoice", n) # AboutTransaction(t)
    BY DEF About, AboutTransaction
  <2> HIDE DEF n, New, found
  <2>6. AlertsFit(openAlerts', txs)
    BY <1>1, <2>1, <2>4, <2>5 DEF AlertsFit
  <2>7. \A i \in DOMAIN invoices' \ DOMAIN invoices : i = n
    BY <2>3
  <2>8. QED
    BY <2>2, <2>3, <2>6, <2>7
<1>4. ASSUME NEW i \in DOMAIN invoices, NEW p \in Periods, VoidInvoice(i, p)
      PROVE  Goal
  <2>1. UNCHANGED openAlerts /\ invoices' = [invoices EXCEPT ![i].status = "voided"]
    BY <1>4 DEF VoidInvoice
  <2> DEFINE x == [invoices[i] EXCEPT !.status = "voided"]
  <2>2. invoices[i] \in Invoice
    BY <1>1
  <2>3. x \in Invoice /\ x.paid = invoices[i].paid
    BY <2>2 DEF Invoice
  <2>4. invoices' = [invoices EXCEPT ![i] = x]
    BY <2>1
  <2> HIDE DEF x
  <2>5. /\ DOMAIN invoices' = DOMAIN invoices /\ Len(invoices') = Len(invoices)
        /\ invoices'[i] = x /\ \A j \in DOMAIN invoices : j # i => invoices'[j] = invoices[j]
    BY <1>1, <2>3, <2>4
  <2>6. QED
    BY <1>1, <2>1, <2>3, <2>5
<1>5. ASSUME NEW alert \in openAlerts, ResolveAlert(alert)
      PROVE  Goal
  <2>1. openAlerts' \subseteq openAlerts /\ UNCHANGED invoices
    BY <1>5 DEF ResolveAlert
  <2>2. QED
    BY <1>1, <2>1 DEF AlertsFit
<1>6. QED
  BY <1>2, <1>3, <1>4, <1>5 DEF LedgerRequest, InvoiceRequested, invoiceVars

LEMMA OthersKeepInv ==
  ASSUME BankInv, LedgerRequest \/ InvoiceRequested, UNCHANGED txs
  PROVE  BankInv'
<1>1. /\ AlertsFit(openAlerts', txs) /\ Len(invoices') <= MaxInvoices
      /\ DOMAIN invoices \subseteq DOMAIN invoices'
  BY OthersInvoicesAndAlerts
<1>2. TypedAndConsistent /\ InvoicesLinked /\ InvoicesInv /\ TypeOK /\ Linked
  BY DEF BankInv, InvoicesInv, InvoicesLinked, TypedAndConsistent
<1>3. [InvoicesNext]_allInvoiceVars
  BY DEF InvoicesNext
<1>4. [Next]_vars /\ TypedAndConsistent' /\ InvoicesLinked'
  BY <1>2, <1>3, InvoicesStepIsLedgerStep, InvoicesInvStep DEF InvoicesInv
<1>5. ClientsLeaveBankAccount => PostsOffBank
  BY <1>2, OthersOffBank
<1>6. Transactions(BankTables) /\ OwnEntries(txs) /\ invoices' \in Seq(Invoice)
  BY <1>4, BankColumns DEF BankInv, BankOK, InvoicesLinked
<1>7. Transactions(BankTables')
  <2>1. \A y : Settled(BankTables, y) => Settled(BankTables', y)
    BY <1>1, <1>2, <1>4, SettledKept
  <2>2. BankTables'.txs = txs /\ BankTables.txs = txs
    BY DEF BankTables
  <2>3. QED
    BY <1>6, <2>1, <2>2 DEF Transactions
<1>8. ClientsLeaveBankAccount => AllSettle(BankTables')
  <2>1. ClientsLeaveBankAccount => AllSettle(BankTables)
    BY DEF BankInv, BankOK
  <2>2. QED
    BY <1>4, <1>5, <2>1, SettlesKept
<1>9. BankOK(BankTables')
  <2>1. /\ IsBankDb(BankTables') /\ TablesOf(BankTables') = Tables'
        /\ BankTables'.invoices = invoices' /\ BankTables'.txs = txs
        /\ BankTables'.alerts = openAlerts'
    BY DEF BankTables, IsBankDb, TablesOf, Tables
  <2>2. IsTables(Tables') /\ Consistent(Tables')
    <3>1. (TypedAndConsistent => IsTables(Tables) /\ Consistent(Tables))'
      BY TablesOfState, PTL
    <3>2. QED
      BY <1>4, <3>1
  <2>3. QED
    BY <1>1, <1>6, <1>7, <1>8, <2>1, <2>2 DEF BankOK
<1>10. QED
  BY <1>1, <1>4, <1>9 DEF BankInv

LEMMA BankInvInit == BankInit => BankInv
<1> SUFFICES ASSUME BankInit PROVE BankInv
  OBVIOUS
<1>1. InvoicesInit /\ entries = <<>> /\ lines = {} /\ invoices = <<>> /\ openAlerts = {} /\ txs = <<>>
  BY DEF BankInit, InvoicesInit, Init
<1>2. TypedAndConsistent /\ InvoicesLinked
  BY <1>1, InvoicesInvInit DEF InvoicesInv
<1>3. IsTables(Tables) /\ Consistent(Tables)
  BY <1>2, TablesOfState
<1>4. Transactions(BankTables) /\ OwnEntries(txs) /\ AlertsFit(openAlerts, txs) /\ DistinctKeys(txs)
  BY <1>1, BankColumns DEF Transactions, OwnEntries, AlertsFit, DistinctKeys
<1>5. AllSettle(BankTables)
  BY <1>1, BankColumns DEF AllSettle
<1>6. Len(invoices) <= MaxInvoices
  BY <1>1, InvoicesAssumption
<1>7. BankOK(BankTables)
  BY <1>1, <1>2, <1>3, <1>4, <1>5, BankColumns DEF BankOK, InvoicesLinked
<1>8. QED
  BY <1>2, <1>4, <1>6, <1>7 DEF BankInv

LEMMA BankInvStep == BankInv /\ [BankNext]_allBankVars => BankInv'
<1> SUFFICES ASSUME BankInv, [BankNext]_allBankVars PROVE BankInv'
  OBVIOUS
<1>1. ASSUME (\E rows \in Statements : ImportStatement(rows)) \/ AutoMatch
      PROVE  BankInv'
  BY <1>1, BatchIs DEF BatchFrom
<1>2. ASSUME NEW t \in DOMAIN txs, NEW i \in DOMAIN invoices, MatchTransaction(t, i)
      PROVE  BankInv'
  BY <1>2, MatchIs
<1>3. ASSUME NEW t \in DOMAIN txs, NEW p \in Periods, UnmatchTransaction(t, p)
      PROVE  BankInv'
  BY <1>3, UnmatchKeepsInv
<1>4. CASE (LedgerRequest \/ InvoiceRequested) /\ UNCHANGED txs
  BY <1>4, OthersKeepInv
<1>5. CASE UNCHANGED allBankVars
  <2>1. UNCHANGED <<period, entries, lines, balances, invoices, openAlerts, txs>>
    BY <1>5 DEF allBankVars, allInvoiceVars, invoiceVars, vars
  <2>2. TypedAndConsistent' /\ InvoicesLinked'
    <3>1. InvoicesInv /\ [InvoicesNext]_allInvoiceVars
      BY <1>5 DEF allBankVars, BankInv, InvoicesInv
    <3>2. QED
      BY <3>1, InvoicesInvStep DEF InvoicesInv
  <2>3. BankTables' = BankTables
    BY <2>1 DEF BankTables
  <2>4. QED
    BY <2>1, <2>2, <2>3 DEF BankInv
<1>6. QED
  BY <1>1, <1>2, <1>3, <1>4, <1>5 DEF BankNext, BankRequest

-----------------------------------------------------------------------------
(* Theorems: safety. *)

LEMMA BankInvAlways == BankSpec => []BankInv
BY BankInvInit, BankInvStep, PTL DEF BankSpec

\* The tables of the bank are well typed, a matched transaction has an invoice,
\* and an alert of the matching is about a transaction there is, for any
\* statements, invoices and accounts.
THEOREM BankTypeCorrect == BankSpec => []BankTypeOK
<1>1. BankInv => BankTypeOK
  <2> SUFFICES ASSUME BankInv PROVE BankTypeOK
    OBVIOUS
  <2>1. Transactions(BankTables) /\ AlertsFit(openAlerts, txs)
    BY BankColumns DEF BankInv, BankOK
  <2>2. txs \in Seq(Transaction)
    BY <2>1, BankColumns DEF Transactions
  <2>3. \A t \in DOMAIN txs : txs[t].reconciled => txs[t].invoice \in DOMAIN invoices
    BY <2>1, BankColumns DEF Transactions, Settled
  <2>4. QED
    BY <2>1, <2>2, <2>3 DEF BankTypeOK, AlertsFit
<1>2. QED
  BY <1>1, BankInvAlways, PTL

\* Importing a statement again, or one that repeats a row, adds no transaction
\* twice.
THEOREM ImportsIdempotent == BankSpec => []NoDuplicateTransactions
<1>1. BankInv => NoDuplicateTransactions
  BY DEF BankInv, DistinctKeys, NoDuplicateTransactions
<1>2. QED
  BY <1>1, BankInvAlways, PTL

\* No alert asks for a transaction to be matched that is matched.
THEOREM NoStaleAlerts == BankSpec => []MatchedNotFlagged
<1>1. BankInv => MatchedNotFlagged
  BY BankColumns DEF BankInv, BankOK, AlertsFit, MatchedNotFlagged
<1>2. QED
  BY <1>1, BankInvAlways, PTL

\* The money of the matched transactions is in the books, once each, and the
\* bank account holds no other, when clients leave that account to the bank.
THEOREM BooksFollowTheBank ==
  ASSUME ClientsLeaveBankAccount
  PROVE  BankSpec => []SettlementsMatchTransactions
<1>1. BankInv => SettlementsMatchTransactions
  <2> SUFFICES ASSUME BankInv PROVE SettlementsMatchTransactions
    OBVIOUS
  <2>1. Transactions(BankTables) /\ OwnEntries(txs) /\ AllSettle(BankTables)
    BY BankColumns DEF BankInv, BankOK
  <2>2. \A e : OnBankAccount(e) = OnBank(lines, e)
    BY DEF OnBankAccount, OnBank
  <2>3. ASSUME NEW t \in DOMAIN txs, txs[t].reconciled
        PROVE  /\ \A s \in DOMAIN txs : txs[s].entry = txs[t].entry => s = t
               /\ Moves(lines, txs[t].entry, txs[t].row)
    BY <2>1, <2>3, BankColumns DEF Transactions, OwnEntries, Settled
  <2>4. \A e \in DOMAIN entries :
          entries[e].status = "posted" /\ entries[e].type = "STANDARD" /\ OnBank(lines, e) # {}
            => \E t \in DOMAIN txs : txs[t].reconciled /\ txs[t].entry = e
    BY <2>1, BankColumns DEF AllSettle
  <2>5. QED
    BY <2>2, <2>3, <2>4 DEF SettlementsMatchTransactions, Moves
<1>2. QED
  BY <1>1, BankInvAlways, PTL

-----------------------------------------------------------------------------
(* Theorems: what one request may do. *)

\* A batch takes every transaction that is not matched, and those it matches
\* are certain by the invoices before the request.
LEMMA BatchEffect ==
  ASSUME BankInv, NEW ts, BatchFrom(ts)
  PROVE  LET db0 == SetTxs(BankTables, ts)
         IN  /\ DOMAIN txs' = DOMAIN ts /\ DOMAIN txs \subseteq DOMAIN txs'
             /\ NewlyMatched = NewIn(db0, BankTables')
             /\ Open(txs') \subseteq Open(ts)
             /\ Since(db0, BankTables', Open(ts))
             /\ db0.txs = ts
             /\ \A row : Exact(db0, row) = Exact(BankTables, row)
<1> DEFINE db0 == SetTxs(BankTables, ts)
<1>1. /\ ImportedTo(txs, ts) /\ Since(db0, BankTables', Open(ts))
      /\ BankOK(BankTables) /\ BankTables.txs = txs /\ BankTables'.txs = txs'
  BY BankColumns DEF BatchFrom, BankInv, BankTables
<1>2. BankOK(db0) /\ db0.txs = ts /\ db0.invoices = BankTables.invoices
  BY <1>1, ImportOK
<1> HIDE DEF db0
<1>3. TransactionsSince(db0, BankTables', Open(ts))
  BY <1>1 DEF Since
<1>4. /\ DOMAIN txs' = DOMAIN ts
      /\ \A t \in DOMAIN ts : ~IsFree(ts[t]) => txs'[t] = ts[t]
  BY <1>1, <1>2, <1>3 DEF TransactionsSince
<1>5. /\ DOMAIN txs \subseteq DOMAIN ts /\ \A t \in DOMAIN txs : ts[t] = txs[t]
      /\ \A t \in DOMAIN ts \ DOMAIN txs : IsFree(ts[t])
  BY <1>1 DEF ImportedTo
<1>6. \A t \in DOMAIN ts : ts[t].reconciled <=> ~IsFree(ts[t])
  BY <1>2 DEF BankOK, Transactions
<1>7. NewlyMatched = NewIn(db0, BankTables')
  <2>1. \A t \in DOMAIN txs' :
          ~(t \in DOMAIN txs /\ txs[t].reconciled) <=> IsFree(ts[t])
    BY <1>4, <1>5, <1>6 DEF IsFree
  <2>2. QED
    BY <1>1, <1>2, <2>1 DEF NewlyMatched, NewIn
<1>8. Open(txs') \subseteq Open(ts)
  BY <1>4, <1>6 DEF Open
<1>9. \A row : Exact(db0, row) = Exact(BankTables, row)
  BY <1>2 DEF Exact, SymbolMatches, Unpaid
<1>10. QED
  BY <1>1, <1>2, <1>4, <1>5, <1>7, <1>8, <1>9 DEF db0

\* Matching by hand matches one transaction and nothing else matches any.
LEMMA OthersEffect ==
  ASSUME BankInv,
         \/ \E t \in DOMAIN txs, i \in DOMAIN invoices : MatchTransaction(t, i)
         \/ \E t \in DOMAIN txs, p \in Periods : UnmatchTransaction(t, p)
         \/ UNCHANGED txs
  PROVE  Len(txs') = Len(txs) /\ \E t : NewlyMatched \subseteq {t}
<1> DEFINE Goal == Len(txs') = Len(txs) /\ \E t : NewlyMatched \subseteq {t}
<1>1. /\ BankOK(BankTables) /\ Transactions(BankTables) /\ BankTables.txs = txs
      /\ txs \in Seq(Transaction)
  BY BankColumns DEF BankInv, BankOK, Transactions
<1>2. ASSUME NEW t \in DOMAIN txs, NEW i \in DOMAIN invoices, MatchTransaction(t, i)
      PROVE  Goal
  <2>1. Reconciles(BankTables, t, i, Len(entries) + 1, BankTables')
    BY <1>2, MatchIs
  <2>2. /\ txs' \in Seq(Transaction) /\ DOMAIN txs' = DOMAIN txs
        /\ \A s \in DOMAIN txs : s # t => txs'[s] = txs[s]
    <3> DEFINE new == BankTables'
               n == Len(entries) + 1
    <3>1. t \in DOMAIN BankTables.txs /\ i \in DOMAIN BankTables.invoices
      BY BankColumns
    <3>2. Reconciles(BankTables, t, i, n, new) /\ new.txs = txs'
      BY <2>1 DEF BankTables
    <3> HIDE DEF new, n
    <3>3. /\ new.txs \in Seq(Transaction) /\ DOMAIN new.txs = DOMAIN BankTables.txs
          /\ \A s \in DOMAIN BankTables.txs : s # t => new.txs[s] = BankTables.txs[s]
      BY <1>1, <3>1, <3>2, ReconciledTransactions
    <3>4. QED
      BY <1>1, <3>2, <3>3
  <2>3. Len(txs') = Len(txs)
    BY <1>1, <2>2
  <2>4. NewlyMatched \subseteq {t}
    BY <2>2 DEF NewlyMatched
  <2>5. QED
    BY <2>3, <2>4
<1>3. ASSUME NEW t \in DOMAIN txs, NEW p \in Periods, UnmatchTransaction(t, p)
      PROVE  Goal
  <2> DEFINE x == NewTransaction(txs[t].row)
  <2>1. txs' = [txs EXCEPT ![t] = x] /\ ~x.reconciled
    BY <1>3 DEF UnmatchTransaction, NewTransaction
  <2> HIDE DEF x
  <2>2. /\ Len(txs') = Len(txs) /\ DOMAIN txs' = DOMAIN txs /\ txs'[t] = x
        /\ \A s \in DOMAIN txs : s # t => txs'[s] = txs[s]
    BY <1>1, <2>1
  <2>3. NewlyMatched \subseteq {t}
    BY <2>2 DEF NewlyMatched
  <2>4. QED
    BY <2>2, <2>3
<1>4. CASE UNCHANGED txs
  BY <1>4 DEF NewlyMatched
<1>5. QED
  BY <1>2, <1>3, <1>4

\* The requests that import or match several transactions are the batches.
LEMMA BankStepIs ==
  ASSUME BankInv, [BankNext]_allBankVars
  PROVE  \/ \E ts : BatchFrom(ts)
         \/ Len(txs') = Len(txs) /\ \E t : NewlyMatched \subseteq {t}
<1>1. CASE (\E rows \in Statements : ImportStatement(rows)) \/ AutoMatch
  BY <1>1, BatchIs
<1>2. CASE \/ \E t \in DOMAIN txs, i \in DOMAIN invoices : MatchTransaction(t, i)
           \/ \E t \in DOMAIN txs, p \in Periods : UnmatchTransaction(t, p)
           \/ UNCHANGED txs
  BY <1>2, OthersEffect
<1>3. UNCHANGED allBankVars => UNCHANGED txs
  BY DEF allBankVars
<1>4. QED
  BY <1>1, <1>2, <1>3 DEF BankNext, BankRequest

\* After an import every transaction is matched or has an open alert, in
\* whatever order the batch took them and whatever the ledger refused.
THEOREM ImportsHandleAll == BankSpec => ImportHandlesAll
<1>1. BankInv /\ [BankNext]_allBankVars =>
        [Len(txs') > Len(txs) =>
           \A t \in Open(txs') :
             \E alert \in openAlerts' : alert.about = AboutTransaction(t)]_allBankVars
  <2> SUFFICES ASSUME BankInv, [BankNext]_allBankVars, Len(txs') > Len(txs),
                      NEW t \in Open(txs')
               PROVE  \E alert \in openAlerts' : alert.about = AboutTransaction(t)
    OBVIOUS
  <2>1. PICK ts : BatchFrom(ts)
    <3>1. txs \in Seq(Transaction)
      BY BankColumns DEF BankInv, BankOK, Transactions
    <3>2. ~(Len(txs') = Len(txs))
      BY <3>1
    <3>3. QED
      BY <3>2, BankStepIs
  <2>2. t \in Open(ts) /\ TransactionsSince(SetTxs(BankTables, ts), BankTables', Open(ts))
    BY <2>1, BatchEffect DEF Since
  <2>3. IsHandled(BankTables', t)
    BY <2>2 DEF TransactionsSince
  <2>4. QED
    BY <2>3 DEF IsHandled, BankTables, Open
<1>2. QED
  BY <1>1, BankInvAlways, PTL DEF BankSpec, ImportHandlesAll

\* What an import or a batch matches is certain: an invoice of its own for each
\* transaction, the only posted and unpaid one with its symbol, amount and
\* direction before the request.
THEOREM BatchesMatchTheCertain == BankSpec => AutoMatchesAreCertain
<1>1. BankInv /\ [BankNext]_allBankVars =>
        [Len(txs') > Len(txs) \/ Cardinality(NewlyMatched) > 1 =>
           \A t \in NewlyMatched :
             /\ \A s \in NewlyMatched : txs'[s].invoice = txs'[t].invoice => s = t
             /\ Exact(BankTables, txs'[t].row) = {txs'[t].invoice}]_allBankVars
  <2> SUFFICES ASSUME BankInv, [BankNext]_allBankVars,
                      Len(txs') > Len(txs) \/ Cardinality(NewlyMatched) > 1,
                      NEW t \in NewlyMatched
               PROVE  /\ \A s \in NewlyMatched : txs'[s].invoice = txs'[t].invoice => s = t
                      /\ Exact(BankTables, txs'[t].row) = {txs'[t].invoice}
    OBVIOUS
  <2>1. PICK ts : BatchFrom(ts)
    <3>1. txs \in Seq(Transaction)
      BY BankColumns DEF BankInv, BankOK, Transactions
    <3>2. (\E u : NewlyMatched \subseteq {u}) => ~(Cardinality(NewlyMatched) > 1)
      <4>1. ASSUME NEW u, NewlyMatched \subseteq {u}
            PROVE  ~(Cardinality(NewlyMatched) > 1)
        <5>1. NewlyMatched = {u}
          BY <4>1
        <5>2. Cardinality({u}) = 1
          BY FS_Singleton
        <5>3. QED
          BY <5>1, <5>2
      <4>2. QED
        BY <4>1
    <3>3. Len(txs') = Len(txs) => ~(Len(txs') > Len(txs))
      BY <3>1
    <3>4. QED
      BY <3>2, <3>3, BankStepIs
  <2>2. /\ NewlyMatched = NewIn(SetTxs(BankTables, ts), BankTables')
        /\ InvoicesSince(SetTxs(BankTables, ts), BankTables')
        /\ \A row : Exact(SetTxs(BankTables, ts), row) = Exact(BankTables, row)
    BY <2>1, BatchEffect DEF Since
  <2>3. BankTables'.txs = txs'
    BY DEF BankTables
  <2>4. QED
    BY <2>2, <2>3 DEF InvoicesSince
<1>2. QED
  BY <1>1, BankInvAlways, PTL DEF BankSpec, AutoMatchesAreCertain

-----------------------------------------------------------------------------
(* Theorem: banking implements what it promises. *)

Pays == [t \in DOMAIN txs |-> txs[t].invoice]

PaidInvoices == {i \in DOMAIN invoices : invoices[i].paid}

Matches == {t \in DOMAIN txs : txs[t].reconciled}

IsPosted(e) == entries[e].status = "posted"

\* A transaction is matched exactly when it has an invoice, and its money is in
\* the books as long as its entry is posted.
PromisedState ==
  /\ DOMAIN Pays = DOMAIN txs
  /\ \A t \in DOMAIN txs : Pays[t] = txs[t].invoice
  /\ Pays \in Seq(1 .. MaxInvoices \cup {NoInvoice})
  /\ Promise!MatchedIn(Pays) = Matches
  /\ MoneyBooked = {t \in Matches : IsPosted(txs[t].entry)}
  /\ \A t \in Matches : txs[t].invoice \in DOMAIN invoices /\ txs[t].entry \in DOMAIN entries

LEMMA PromisedStateHolds == BankInv => PromisedState
<1> SUFFICES ASSUME BankInv PROVE PromisedState
  OBVIOUS
<1>1. /\ Transactions(BankTables) /\ BankTables.txs = txs /\ BankTables.lines = lines
      /\ BankTables.entries = entries /\ BankTables.invoices = invoices
      /\ txs \in Seq(Transaction) /\ invoices \in Seq(Invoice)
      /\ Len(invoices) <= MaxInvoices /\ MaxInvoices \in Nat
  BY BankColumns, InvoicesAssumption DEF BankInv, BankOK, Transactions, InvoicesLinked
<1>2. DOMAIN Pays = DOMAIN txs /\ \A t \in DOMAIN txs : Pays[t] = txs[t].invoice
  BY DEF Pays
<1>3. \A t \in DOMAIN txs : txs[t].reconciled => Settled(BankTables, txs[t])
  BY <1>1 DEF Transactions
<1>4. \A t \in DOMAIN txs : ~txs[t].reconciled => txs[t].invoice = NoInvoice
  BY <1>1 DEF Transactions, IsFree
<1>5. /\ DOMAIN invoices \subseteq 1 .. MaxInvoices /\ NoInvoice \notin DOMAIN invoices
  BY <1>1 DEF NoInvoice
<1>6. \A t \in Matches : txs[t].invoice \in DOMAIN invoices /\ txs[t].entry \in DOMAIN entries
  BY <1>1, <1>3 DEF Settled, Matches
<1>7. Pays \in Seq(1 .. MaxInvoices \cup {NoInvoice})
  <2>1. \A t \in DOMAIN txs : txs[t].invoice \in 1 .. MaxInvoices \cup {NoInvoice}
    BY <1>4, <1>5, <1>6 DEF Matches
  <2>2. DOMAIN txs = 1 .. Len(txs) /\ Len(txs) \in Nat
    BY <1>1
  <2> DEFINE S == 1 .. MaxInvoices \cup {NoInvoice}
  <2> HIDE DEF S
  <2>3. Pays \in [1 .. Len(txs) -> S]
    BY <2>1, <2>2 DEF Pays, S
  <2>4. Pays \in Seq(S)
    BY <2>2, <2>3
  <2>5. QED
    BY <2>4 DEF S
<1>8. Promise!MatchedIn(Pays) = Matches
  BY <1>2, <1>4, <1>5, <1>6 DEF Promise!MatchedIn, Matches
<1>9. MoneyBooked = {t \in Matches : IsPosted(txs[t].entry)}
  <2>1. \A e : OnBankAccount(e) = OnBank(lines, e)
    BY DEF OnBankAccount, OnBank
  <2>2. \A t \in Matches :
          \E l \in OnBankAccount(txs[t].entry) :
            /\ l.czk = txs[t].row.amount
            /\ l.side = (IF txs[t].row.direction = "CREDIT" THEN "DEBIT" ELSE "CREDIT")
    BY <1>1, <1>3, <2>1 DEF Matches, Settled, Moves
  <2>3. QED
    BY <2>2 DEF MoneyBooked, Matches, IsPosted
<1>10. QED
  BY <1>2, <1>6, <1>7, <1>8, <1>9 DEF PromisedState

LEMMA PromisedStateNext ==
  ASSUME BankInv, BankInv'
  PROVE  PromisedState /\ PromisedState'
BY PromisedStateHolds, PTL

\* The initial states and the steps of the promise, in terms of the bank.
LEMMA PromiseIs ==
  /\ Promise!SettlementInit <=> Pays = <<>> /\ MoneyBooked = {} /\ PaidInvoices = {}
  /\ Promise!Batch <=>
       LET new == Promise!MatchedIn(Pays') \ Promise!MatchedIn(Pays)
       IN  /\ Pays' \in Seq(1 .. MaxInvoices \cup {NoInvoice})
           /\ Len(Pays') >= Len(Pays)
           /\ \A t \in Promise!MatchedIn(Pays) : Pays'[t] = Pays[t]
           /\ \A t \in new : Pays'[t] \notin PaidInvoices
           /\ \A s, t \in new : Pays'[s] = Pays'[t] => s = t
           /\ MoneyBooked' = MoneyBooked \cup new
           /\ PaidInvoices' = PaidInvoices \cup {Pays'[t] : t \in new}
  /\ \A t, i : Promise!MatchByHand(t, i) <=>
       /\ Pays[t] = NoInvoice
       /\ Pays' = [Pays EXCEPT ![t] = i]
       /\ MoneyBooked' = MoneyBooked \cup {t}
       /\ PaidInvoices' = PaidInvoices \cup {i}
  /\ \A t : Promise!Unmatch(t) <=>
       /\ t \in MoneyBooked
       /\ Pays' = [Pays EXCEPT ![t] = NoInvoice]
       /\ MoneyBooked' = MoneyBooked \ {t}
       /\ PaidInvoices' = PaidInvoices \ {Pays[t]}
  /\ \A t : Promise!CorrectBooks(t) <=>
       /\ t \in MoneyBooked
       /\ MoneyBooked' = MoneyBooked \ {t}
       /\ UNCHANGED <<Pays, PaidInvoices>>
<1>1. Promise!SettlementInit <=> Pays = <<>> /\ MoneyBooked = {} /\ PaidInvoices = {}
  BY DEF Promise!SettlementInit, Pays, PaidInvoices
<1>2. Promise!Batch <=>
       LET new == Promise!MatchedIn(Pays') \ Promise!MatchedIn(Pays)
       IN  /\ Pays' \in Seq(1 .. MaxInvoices \cup {NoInvoice})
           /\ Len(Pays') >= Len(Pays)
           /\ \A t \in Promise!MatchedIn(Pays) : Pays'[t] = Pays[t]
           /\ \A t \in new : Pays'[t] \notin PaidInvoices
           /\ \A s, t \in new : Pays'[s] = Pays'[t] => s = t
           /\ MoneyBooked' = MoneyBooked \cup new
           /\ PaidInvoices' = PaidInvoices \cup {Pays'[t] : t \in new}
  BY DEF Promise!Batch, Pays, PaidInvoices
<1>3. \A t, i : Promise!MatchByHand(t, i) <=>
       /\ Pays[t] = NoInvoice
       /\ Pays' = [Pays EXCEPT ![t] = i]
       /\ MoneyBooked' = MoneyBooked \cup {t}
       /\ PaidInvoices' = PaidInvoices \cup {i}
  BY DEF Promise!MatchByHand, Pays, PaidInvoices
<1>4. \A t : Promise!Unmatch(t) <=>
       /\ t \in MoneyBooked
       /\ Pays' = [Pays EXCEPT ![t] = NoInvoice]
       /\ MoneyBooked' = MoneyBooked \ {t}
       /\ PaidInvoices' = PaidInvoices \ {Pays[t]}
  BY DEF Promise!Unmatch, Pays, PaidInvoices
<1>5. \A t : Promise!CorrectBooks(t) <=>
       /\ t \in MoneyBooked
       /\ MoneyBooked' = MoneyBooked \ {t}
       /\ UNCHANGED <<Pays, PaidInvoices>>
  BY DEF Promise!CorrectBooks, Pays, PaidInvoices
<1>6. QED
  BY <1>1, <1>2, <1>3, <1>4, <1>5

\* A sequence is determined by its domain and its elements.
LEMMA PaysDetermined ==
  ASSUME PromisedState, PromisedState', DOMAIN txs' = DOMAIN txs
  PROVE  /\ (\A t \in DOMAIN txs : txs'[t].invoice = txs[t].invoice) => Pays' = Pays
         /\ \A t \in DOMAIN txs : \A i :
              txs'[t].invoice = i
                /\ (\A s \in DOMAIN txs : s # t => txs'[s].invoice = txs[s].invoice)
              => Pays' = [Pays EXCEPT ![t] = i]
BY DEF PromisedState, Pays

LEMMA BatchIsPromised ==
  ASSUME BankInv, NEW ts, BatchFrom(ts)
  PROVE  Promise!Batch
<1> DEFINE db0 == SetTxs(BankTables, ts)
           new == Matches' \ Matches
<1>1. PromisedState /\ PromisedState'
  BY PromisedStateNext DEF BatchFrom
<1>2. /\ DOMAIN txs' = DOMAIN ts /\ DOMAIN txs \subseteq DOMAIN txs'
      /\ NewlyMatched = NewIn(db0, BankTables') /\ Since(db0, BankTables', Open(ts))
      /\ db0.txs = ts /\ \A row : Exact(db0, row) = Exact(BankTables, row)
  BY BatchEffect
<1>3. /\ db0.entries = entries /\ db0.invoices = invoices
      /\ ImportedTo(txs, ts) /\ Transactions(BankTables)
  <2>1. BankOK(BankTables) /\ ImportedTo(txs, ts) /\ Transactions(BankTables)
    BY DEF BatchFrom, BankInv, BankOK
  <2>2. QED
    BY <2>1, ImportOK, BankColumns
<1> HIDE DEF db0
<1>4. /\ BankTables'.txs = txs' /\ BankTables'.entries = entries'
      /\ BankTables'.invoices = invoices'
  BY DEF BankTables
<1>5. \A t \in Matches : txs'[t] = txs[t]
  <2>1. \A t \in Matches : t \in DOMAIN ts /\ ts[t] = txs[t] /\ ~IsFree(ts[t])
    BY <1>3 DEF ImportedTo, Matches, IsFree
  <2>2. QED
    BY <1>2, <1>4, <2>1 DEF Since, TransactionsSince
<1>6. Matches \subseteq Matches'
  BY <1>2, <1>5 DEF Matches
<1>7. new = NewlyMatched
  BY DEF NewlyMatched, Matches
<1>8. \A t \in new : /\ Exact(BankTables, txs'[t].row) = {txs'[t].invoice}
                     /\ IsPosted(txs[t].entry)'
  BY <1>2, <1>4, <1>7 DEF Since, InvoicesSince, IsPosted
<1>9. \A t \in new : Pays'[t] = txs'[t].invoice
  BY <1>1 DEF PromisedState, Matches
<1>10. \A t \in new : Pays'[t] \notin PaidInvoices
  BY <1>8, <1>9, BankColumns DEF Exact, SymbolMatches, Unpaid, PaidInvoices
<1>11. \A s, t \in new : Pays'[s] = Pays'[t] => s = t
  BY <1>2, <1>4, <1>7, <1>9 DEF Since, InvoicesSince
<1>12. MoneyBooked' = MoneyBooked \cup new
  <2>1. \A t \in Matches : IsPosted(txs[t].entry)' <=> IsPosted(txs[t].entry)
    <3>1. \A t \in Matches : entries'[txs[t].entry] = entries[txs[t].entry]
      BY <1>1, <1>2, <1>3, <1>4 DEF Since, BooksSince, PromisedState
    <3>2. QED
      BY <1>5, <3>1 DEF IsPosted
  <2>2. QED
    BY <1>1, <1>6, <1>8, <2>1 DEF PromisedState
<1>13. PaidInvoices' = PaidInvoices \cup {Pays'[t] : t \in new}
  <2>1. DOMAIN invoices' = DOMAIN invoices
    BY <1>2, <1>3, <1>4 DEF Since, InvoicesSince, SameInvoices
  <2>2. \A i \in DOMAIN invoices :
          invoices'[i].paid <=> invoices[i].paid \/ \E t \in new : Pays'[t] = i
    BY <1>2, <1>3, <1>4, <1>7, <1>9 DEF Since, InvoicesSince
  <2>3. \A t \in new : Pays'[t] \in DOMAIN invoices
    BY <1>8, <1>9, BankColumns DEF Exact, SymbolMatches, Unpaid
  <2>4. QED
    BY <2>1, <2>2, <2>3 DEF PaidInvoices
<1>14. Len(Pays') >= Len(Pays)
  <2>1. Len(Pays) \in Nat /\ DOMAIN Pays = 1 .. Len(Pays) /\ Len(Pays') \in Nat
        /\ DOMAIN Pays' = 1 .. Len(Pays') /\ DOMAIN Pays \subseteq DOMAIN Pays'
    BY <1>1, <1>2 DEF PromisedState
  <2> DEFINE m == Len(Pays)
             n == Len(Pays')
  <2>2. m \in Nat /\ n \in Nat /\ 1 .. m \subseteq 1 .. n
    BY <2>1
  <2> HIDE DEF m, n
  <2>3. n >= m
    BY <2>2
  <2>4. QED
    BY <2>3 DEF m, n
<1>15. \A t \in Matches : Pays'[t] = Pays[t]
  BY <1>1, <1>2, <1>5 DEF PromisedState, Matches
<1>16. /\ Promise!MatchedIn(Pays') = Matches' /\ Promise!MatchedIn(Pays) = Matches
       /\ Pays' \in Seq(1 .. MaxInvoices \cup {NoInvoice})
  BY <1>1 DEF PromisedState
<1>17. QED
  BY <1>10, <1>11, <1>12, <1>13, <1>14, <1>15, <1>16, PromiseIs

LEMMA MatchIsPromised ==
  ASSUME BankInv, NEW t \in DOMAIN txs, NEW i \in DOMAIN invoices, MatchTransaction(t, i)
  PROVE  Promise!MatchByHand(t, i) /\ i \in 1 .. MaxInvoices /\ t \in DOMAIN Pays
<1> DEFINE n == Len(entries) + 1
           new == BankTables'
<1>1. /\ PromisedState /\ PromisedState' /\ IsFree(txs[t])
      /\ Reconciles(BankTables, t, i, n, new)
  BY MatchIs, PromisedStateNext
<1>2. /\ new.txs = txs' /\ new.invoices = invoices' /\ new.entries = entries'
      /\ t \in DOMAIN BankTables.txs /\ i \in DOMAIN BankTables.invoices
      /\ BankOK(BankTables)
  BY BankColumns DEF BankTables, BankInv
<1> HIDE DEF n, new
<1>3. /\ DOMAIN new.txs = DOMAIN BankTables.txs
      /\ new.txs[t] = MatchedTo(BankTables, t, i, n)
      /\ \A s \in DOMAIN BankTables.txs : s # t => new.txs[s] = BankTables.txs[s]
      /\ DOMAIN new.invoices = DOMAIN BankTables.invoices
      /\ new.invoices[i] = MarkedPaid(BankTables.invoices[i])
      /\ \A j \in DOMAIN BankTables.invoices : j # i =>
           new.invoices[j] = BankTables.invoices[j]
  BY <1>1, <1>2, ReconciledTransactions
<1>4. /\ DOMAIN txs' = DOMAIN txs /\ \A s \in DOMAIN txs : s # t => txs'[s] = txs[s]
      /\ DOMAIN invoices' = DOMAIN invoices
      /\ \A j \in DOMAIN invoices : j # i => invoices'[j] = invoices[j]
  BY <1>2, <1>3, BankColumns
<1>5. txs'[t].reconciled /\ txs'[t].invoice = i /\ txs'[t].entry = n
  BY <1>2, <1>3 DEF MatchedTo
<1>6. invoices'[i].paid = TRUE
  <2>1. invoices[i] \in Invoice
    BY DEF BankInv, InvoicesLinked
  <2>2. MarkedPaid(invoices[i]).paid = TRUE
    BY <2>1 DEF MarkedPaid, Invoice
  <2>3. QED
    BY <1>2, <1>3, <2>2, BankColumns
<1>7. /\ entries'[n].status = "posted"
      /\ \A e \in DOMAIN entries : entries'[e] = entries[e]
  BY <1>1, <1>2, BankColumns DEF Reconciles, AddsPayment
<1>8. Matches' = Matches \cup {t} /\ t \notin Matches
  BY <1>1, <1>4, <1>5 DEF Matches, IsFree
<1>9. MoneyBooked' = MoneyBooked \cup {t}
  <2>1. \A s \in Matches : IsPosted(txs[s].entry)' <=> IsPosted(txs[s].entry)
    BY <1>1, <1>4, <1>7, <1>8 DEF IsPosted, PromisedState, Matches
  <2>2. IsPosted(txs[t].entry)'
    BY <1>5, <1>7 DEF IsPosted
  <2>3. QED
    BY <1>1, <1>8, <2>1, <2>2 DEF PromisedState
<1>10. PaidInvoices' = PaidInvoices \cup {i}
  BY <1>4, <1>6 DEF PaidInvoices
<1>11. Pays[t] = NoInvoice /\ t \in DOMAIN Pays
  BY <1>1 DEF PromisedState, IsFree
<1>12. Pays' = [Pays EXCEPT ![t] = i]
  BY <1>1, <1>4, <1>5, PaysDetermined
<1>13. i \in 1 .. MaxInvoices
  BY InvoicesAssumption DEF BankInv, InvoicesLinked
<1>14. QED
  BY <1>9, <1>10, <1>11, <1>12, <1>13, PromiseIs

LEMMA UnmatchIsPromised ==
  ASSUME BankInv, NEW t \in DOMAIN txs, NEW p \in Periods, UnmatchTransaction(t, p)
  PROVE  Promise!Unmatch(t) /\ t \in DOMAIN Pays
<1> DEFINE x == NewTransaction(txs[t].row)
           i == txs[t].invoice
<1>1. PromisedState /\ PromisedState'
  BY UnmatchKeepsInv, PromisedStateNext
<1>2. /\ ChangesOnly(txs[t].entry) /\ Settled(BankTables, txs[t])
      /\ entries[txs[t].entry].status = "posted" /\ txs[t].reconciled
  BY UnmatchIsReversal DEF UnmatchTransaction
<1>3. /\ txs \in Seq(Transaction) /\ OwnEntries(txs) /\ invoices \in Seq(Invoice)
      /\ i \in DOMAIN invoices
  BY <1>2, BankColumns DEF BankInv, BankOK, Transactions, InvoicesLinked, Settled
<1>4. /\ txs' = [txs EXCEPT ![t] = x] /\ ~x.reconciled /\ x.invoice = NoInvoice
      /\ invoices' = [invoices EXCEPT ![i] = MarkedUnpaid(invoices[i])]
  BY DEF UnmatchTransaction, MarkedUnpaid, NewTransaction
<1> HIDE DEF x, i
<1>5. /\ DOMAIN txs' = DOMAIN txs /\ txs'[t] = x
      /\ \A s \in DOMAIN txs : s # t => txs'[s] = txs[s]
  BY <1>3, <1>4
<1>6. /\ DOMAIN invoices' = DOMAIN invoices /\ invoices'[i].paid = FALSE
      /\ \A j \in DOMAIN invoices : j # i => invoices'[j].paid = invoices[j].paid
  <2>1. invoices[i] \in Invoice
    BY <1>3
  <2>2. MarkedUnpaid(invoices[i]).paid = FALSE
    BY <2>1 DEF MarkedUnpaid, Invoice
  <2>3. QED
    BY <1>3, <1>4, <2>2
<1>7. Matches' = Matches \ {t} /\ t \in Matches
  BY <1>2, <1>4, <1>5 DEF Matches
<1>8. \A s \in Matches \ {t} : IsPosted(txs[s].entry)' <=> IsPosted(txs[s].entry)
  <2>1. \A s \in Matches \ {t} : txs[s].entry # txs[t].entry /\ txs'[s] = txs[s]
    BY <1>2, <1>3, <1>5 DEF OwnEntries, Matches
  <2>2. \A s \in Matches \ {t} : txs[s].entry \in DOMAIN entries
    BY <1>1 DEF PromisedState
  <2>3. QED
    BY <1>2, <2>1, <2>2 DEF ChangesOnly, IsPosted
<1>9. t \in MoneyBooked /\ MoneyBooked' = MoneyBooked \ {t}
  BY <1>1, <1>2, <1>7, <1>8 DEF PromisedState, IsPosted
<1>10. PaidInvoices' = PaidInvoices \ {i}
  BY <1>6 DEF PaidInvoices
<1>11. Pays' = [Pays EXCEPT ![t] = NoInvoice]
  BY <1>1, <1>4, <1>5, PaysDetermined
<1>12. Pays[t] = i /\ t \in DOMAIN Pays
  BY <1>1 DEF PromisedState, i
<1>13. QED
  BY <1>9, <1>10, <1>11, <1>12, PromiseIs

\* The requests of the ledger and of the invoices take the settlement of one
\* transaction out of the books at most.
LEMMA OthersArePromised ==
  ASSUME BankInv, LedgerRequest \/ InvoiceRequested, UNCHANGED txs
  PROVE  \/ \E t \in DOMAIN Pays : Promise!CorrectBooks(t)
         \/ UNCHANGED <<Pays, MoneyBooked, PaidInvoices>>
<1>1. PromisedState /\ PromisedState'
  BY OthersKeepInv, PromisedStateNext
<1>2. PICK id : ChangesOnly(id)
  BY OthersOffBank DEF BankInv
<1>3. Pays' = Pays /\ Matches' = Matches
  BY DEF Pays, Matches
<1>4. PaidInvoices' = PaidInvoices
  BY OthersInvoicesAndAlerts DEF PaidInvoices
<1>5. \A t \in Matches : IsPosted(txs[t].entry)' => IsPosted(txs[t].entry)
  <2>1. TypedAndConsistent /\ [Next]_vars
    <3>1. TypedAndConsistent /\ TypeOK /\ Linked
      BY DEF BankInv, InvoicesLinked, TypedAndConsistent
    <3>2. [InvoicesNext]_allInvoiceVars
      BY DEF InvoicesNext
    <3>3. QED
      BY <3>1, <3>2, InvoicesStepIsLedgerStep
  <2>2. \A e \in DOMAIN entries :
          entries'[e] \in {entries[e], [entries[e] EXCEPT !.status = "voided"]}
    BY <2>1, StepKeepsHistory DEF HistoryKept
  <2>3. \A e \in DOMAIN entries : entries[e] \in Entry
    BY <2>1 DEF TypedAndConsistent, TypeOK
  <2>4. \A e \in DOMAIN entries : entries'[e].status = "posted" => entries[e].status = "posted"
    BY <2>2, <2>3 DEF Entry
  <2>5. QED
    BY <1>1, <2>4 DEF PromisedState, IsPosted
<1>6. OwnEntries(txs)
  BY BankColumns DEF BankInv, BankOK
<1>7. ASSUME NEW t \in MoneyBooked, t \notin MoneyBooked'
      PROVE  MoneyBooked' = MoneyBooked \ {t}
  <2>1. t \in Matches /\ IsPosted(txs[t].entry) /\ ~IsPosted(txs[t].entry)'
    BY <1>1, <1>3, <1>7 DEF PromisedState
  <2>2. txs[t].entry = id
    BY <1>1, <1>2, <2>1 DEF ChangesOnly, IsPosted, PromisedState
  <2>3. \A s \in Matches \ {t} : txs[s].entry # id
    BY <1>6, <2>1, <2>2 DEF OwnEntries, Matches
  <2>4. \A s \in Matches \ {t} : IsPosted(txs[s].entry)' <=> IsPosted(txs[s].entry)
    BY <1>1, <1>2, <2>3 DEF ChangesOnly, IsPosted, PromisedState
  <2>5. QED
    BY <1>1, <1>3, <1>7, <2>4 DEF PromisedState
<1>8. MoneyBooked' \subseteq MoneyBooked
  BY <1>1, <1>3, <1>5 DEF PromisedState
<1>9. CASE MoneyBooked' = MoneyBooked
  BY <1>3, <1>4, <1>9
<1>10. CASE MoneyBooked' # MoneyBooked
  <2>1. PICK t \in MoneyBooked : t \notin MoneyBooked'
    BY <1>8, <1>10
  <2>2. MoneyBooked' = MoneyBooked \ {t}
    BY <1>7, <2>1
  <2>3. Promise!CorrectBooks(t)
    BY <1>3, <1>4, <2>1, <2>2, PromiseIs
  <2>4. t \in DOMAIN Pays
    BY <1>1, <2>1 DEF PromisedState, Matches
  <2>5. QED
    BY <2>3, <2>4
<1>11. QED
  BY <1>9, <1>10

\* Every request on the bank, the invoices and the ledger is one step of the
\* abstract specification of settlement, or none.
THEOREM BankingImplementsSettlement == BankSpec => KeepsPromise
<1>1. BankInit => Promise!SettlementInit
  <2> SUFFICES ASSUME BankInit PROVE Promise!SettlementInit
    OBVIOUS
  <2>1. txs = <<>> /\ invoices = <<>>
    BY DEF BankInit, InvoicesInit
  <2>2. PaidInvoices = {} /\ Matches = {}
    BY <2>1 DEF PaidInvoices, Matches
  <2>3. PromisedState
    BY BankInvInit, PromisedStateHolds
  <2>4. Pays = <<>> /\ MoneyBooked = {}
    BY <2>1, <2>2, <2>3 DEF PromisedState
  <2>5. QED
    BY <2>2, <2>4, PromiseIs
<1>2. BankInv /\ [BankNext]_allBankVars => [Promise!SettlementNext]_(Promise!settlementVars)
  <2> SUFFICES ASSUME BankInv, [BankNext]_allBankVars
               PROVE  Promise!SettlementNext \/ UNCHANGED Promise!settlementVars
    OBVIOUS
  <2>1. DOMAIN Pays = DOMAIN txs
    BY DEF Pays
  <2>2. CASE (\E rows \in Statements : ImportStatement(rows)) \/ AutoMatch
    <3>1. Promise!Batch
      BY <2>2, BatchIs, BatchIsPromised
    <3>2. QED
      BY <3>1 DEF Promise!SettlementNext
  <2>3. ASSUME NEW t \in DOMAIN txs, NEW i \in DOMAIN invoices, MatchTransaction(t, i)
        PROVE  Promise!SettlementNext
    <3>1. Promise!MatchByHand(t, i) /\ i \in 1 .. MaxInvoices
      BY <2>3, MatchIsPromised
    <3>2. QED
      BY <2>1, <3>1 DEF Promise!SettlementNext, Pays
  <2>4. ASSUME NEW t \in DOMAIN txs, NEW p \in Periods, UnmatchTransaction(t, p)
        PROVE  Promise!SettlementNext
    <3>1. Promise!Unmatch(t)
      BY <2>4, UnmatchIsPromised
    <3>2. QED
      BY <2>1, <3>1 DEF Promise!SettlementNext, Pays
  <2>5. CASE (LedgerRequest \/ InvoiceRequested) /\ UNCHANGED txs
    <3>1. CASE \E t \in DOMAIN Pays : Promise!CorrectBooks(t)
      BY <3>1 DEF Promise!SettlementNext, Pays
    <3>2. CASE UNCHANGED <<Pays, MoneyBooked, PaidInvoices>>
      BY <3>2 DEF Promise!settlementVars, Pays, PaidInvoices
    <3>3. QED
      BY <2>5, <3>1, <3>2, OthersArePromised
  <2>6. CASE UNCHANGED allBankVars
    BY <2>6 DEF allBankVars, allInvoiceVars, invoiceVars, vars, Promise!settlementVars,
                MoneyBooked, OnBankAccount, LinesOf
  <2>7. QED
    BY <2>2, <2>3, <2>4, <2>5, <2>6 DEF BankNext, BankRequest
<1>3. QED
  BY <1>1, <1>2, BankInvAlways, PTL DEF BankSpec, KeepsPromise, Promise!SettlementSpec

\* A transaction pays every invoice that is marked as paid.
PaidFor == \A i \in PaidInvoices : \E t \in Promise!MatchedIn(Pays) : Pays[t] = i

LEMMA PaidForKept ==
  ASSUME PromisedState, PaidFor, [Promise!SettlementNext]_(Promise!settlementVars)
  PROVE  PaidFor'
<1> DEFINE old == Promise!MatchedIn(Pays)
           new == Promise!MatchedIn(Pays')
<1>1. \A p : Promise!MatchedIn(p) = {t \in DOMAIN p : p[t] # NoInvoice}
  BY DEF Promise!MatchedIn
<1>2. Pays \in Seq(1 .. MaxInvoices \cup {NoInvoice}) /\ NoInvoice \notin 1 .. MaxInvoices
  BY InvoicesAssumption DEF PromisedState, NoInvoice
<1>3. ASSUME \A t \in old : t \in new /\ Pays'[t] = Pays[t],
             \A i \in PaidInvoices' \ PaidInvoices : \E t \in new : Pays'[t] = i
      PROVE  PaidFor'
  BY <1>3 DEF PaidFor
<1>4. CASE Promise!Batch
  <2>1. /\ Pays' \in Seq(1 .. MaxInvoices \cup {NoInvoice}) /\ Len(Pays') >= Len(Pays)
        /\ \A t \in old : Pays'[t] = Pays[t]
        /\ PaidInvoices' = PaidInvoices \cup {Pays'[t] : t \in new \ old}
    BY <1>4, PromiseIs
  <2>2. DOMAIN Pays \subseteq DOMAIN Pays'
    BY <1>2, <2>1
  <2>3. \A t \in old : t \in new
    BY <1>1, <2>1, <2>2
  <2> HIDE DEF old, new
  <2>4. QED
    BY <1>3, <2>1, <2>3
<1>5. ASSUME NEW t \in DOMAIN Pays, NEW i \in 1 .. MaxInvoices, Promise!MatchByHand(t, i)
      PROVE  PaidFor'
  <2>1. /\ Pays[t] = NoInvoice /\ Pays' = [Pays EXCEPT ![t] = i]
        /\ PaidInvoices' = PaidInvoices \cup {i}
    BY <1>5, PromiseIs
  <2>2. Pays'[t] = i /\ \A s \in DOMAIN Pays : s # t => Pays'[s] = Pays[s]
    BY <2>1
  <2>3. new = old \cup {t} /\ t \notin old
    BY <1>1, <1>2, <2>1, <2>2
  <2>4. old \subseteq DOMAIN Pays
    BY <1>1
  <2> HIDE DEF old, new
  <2>5. QED
    BY <1>3, <2>1, <2>2, <2>3, <2>4
<1>6. ASSUME NEW t \in DOMAIN Pays, Promise!Unmatch(t)
      PROVE  PaidFor'
  <2>1. Pays' = [Pays EXCEPT ![t] = NoInvoice] /\ PaidInvoices' = PaidInvoices \ {Pays[t]}
    BY <1>6, PromiseIs
  <2>2. Pays'[t] = NoInvoice /\ \A s \in DOMAIN Pays : s # t => Pays'[s] = Pays[s]
    BY <2>1
  <2>3. new = old \ {t}
    BY <1>1, <2>1, <2>2
  <2>4. old \subseteq DOMAIN Pays
    BY <1>1
  <2> HIDE DEF new
  <2>5. ASSUME NEW i \in PaidInvoices'
        PROVE  \E s \in new : Pays'[s] = i
    <3>1. PICK s \in old : Pays[s] = i
      BY <2>1 DEF PaidFor
    <3>2. s # t
      BY <2>1, <3>1
    <3>3. QED
      BY <2>2, <2>3, <2>4, <3>1, <3>2
  <2>6. QED
    BY <2>5 DEF PaidFor, new
<1>7. CASE UNCHANGED <<Pays, PaidInvoices>>
  BY <1>7 DEF PaidFor
<1>8. ASSUME NEW t, Promise!CorrectBooks(t)
      PROVE  PaidFor'
  BY <1>7, <1>8, PromiseIs
<1>9. CASE UNCHANGED Promise!settlementVars
  <2>1. UNCHANGED <<Pays, PaidInvoices>>
    BY <1>9 DEF Promise!settlementVars, Pays, PaidInvoices
  <2>2. QED
    BY <1>7, <2>1
<1>10. CASE Promise!SettlementNext
  BY <1>4, <1>5, <1>6, <1>8, <1>10 DEF Promise!SettlementNext, Pays
<1>11. QED
  BY <1>9, <1>10

\* What follows from the promise: an invoice that is marked as paid is the
\* invoice of a matched transaction, and the books hold the money of matched
\* transactions only.
THEOREM PaidInvoicesArePaidFor == BankSpec => []Promise!PaidForAndBooked
<1>1. BankInit => PaidFor
  BY DEF BankInit, InvoicesInit, PaidFor, PaidInvoices
<1>2. BankInv => PromisedState
  BY PromisedStateHolds
<1>3. PromisedState /\ PaidFor /\ [Promise!SettlementNext]_(Promise!settlementVars) => PaidFor'
  BY PaidForKept
<1>4. PromisedState /\ PaidFor => Promise!PaidForAndBooked
  <2> SUFFICES ASSUME PromisedState, PaidFor PROVE Promise!PaidForAndBooked
    OBVIOUS
  <2>1. MoneyBooked \subseteq Promise!MatchedIn(Pays)
    BY DEF PromisedState
  <2>2. PaidInvoices \subseteq {Pays[t] : t \in Promise!MatchedIn(Pays)}
    BY DEF PaidFor
  <2>3. QED
    BY <2>1, <2>2 DEF Promise!PaidForAndBooked, Pays, PaidInvoices
<1>5. QED
  BY <1>1, <1>2, <1>3, <1>4, BankInvAlways, BankingImplementsSettlement, PTL
  DEF BankSpec, KeepsPromise, Promise!SettlementSpec
=============================================================================
