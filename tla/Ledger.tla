------------------------------- MODULE Ledger -------------------------------
(***************************************************************************)
(* The double-entry ledger and the fiscal-period life cycle.               *)
(*                                                                         *)
(* One action is one committed API request: every endpoint runs its        *)
(* handler in `async with session.begin()`, so a request that raises       *)
(* (LedgerError, a pydantic ValidationError, an IntegrityError) rolls back *)
(* and is a stuttering step here.  Requests are serialised in this module; *)
(* LedgerSessions interleaves their statements.                            *)
(*                                                                         *)
(* Money is an integer.  A request carries amounts in fractions of a       *)
(* haler, Sub of them to the haler, because the API accepts any Decimal;   *)
(* a table column is Numeric(18,2) and holds whole halere.                 *)
(***************************************************************************)
EXTENDS Integers, Sequences, FiniteSets, FiniteSetsExt

CONSTANTS
  Periods,      \* fiscal periods: positive numbers in date order, disjoint dates
  Accounts,     \* ledger_accounts.account_number
  DebitNormal,  \* accounts whose balance_type is DEBIT, the others are CREDIT
  BalanceSheet, \* accounts of classes 0 to 4, carried to the next period
  Postable,     \* accounts that are active and allow posting
  Requests,     \* line lists a client may send: sequences of request lines
  Corrections,  \* line lists a client may send as correction_lines
  Sub,          \* request-amount units in one haler
  RateScale,    \* the integer that stands for the exchange rate 1.000000
  Rates,        \* CNB rates a foreign currency may have, in 1 / RateScale
  MaxEntries    \* bound: journal entries of a behaviour

Side == {"DEBIT", "CREDIT"}
Status == {"absent", "draft", "open", "closed", "locked"}
RequestLine == [account : Accounts, side : Side, amount : Nat \ {0}]

ASSUME ConstantsAssumption ==
  /\ Periods \subseteq Nat \ {0}
  /\ IsFiniteSet(Periods)
  /\ DebitNormal \subseteq Accounts
  /\ BalanceSheet \subseteq Accounts
  /\ Postable \subseteq Accounts
  /\ Requests \subseteq Seq(RequestLine)
  /\ Corrections \subseteq Seq(RequestLine)
  /\ Sub \in Nat \ {0}
  /\ RateScale \in Nat \ {0}
  /\ Rates \subseteq Nat \ {0}
  /\ MaxEntries \in Nat

VARIABLES
  period,   \* fiscal_periods: status and is_current of each period
  entries,  \* journal_entries, in the order they were committed
  lines,    \* journal_entry_lines
  balances  \* account_balances: the row of each (period, account), or NoRow

vars == <<period, entries, lines, balances>>

----------------------------------------------------------------------------
(* Rows of the tables. *)

NoEntry == 0          \* reverses_entry_id IS NULL
NoRow == [row |-> FALSE]
RowColumns == {"row", "opening", "debit", "credit", "closing", "count"}

Entry == [period : Periods, status : {"posted", "voided"},
          type : {"STANDARD", "REVERSAL", "CORRECTION"},
          reverses : Nat, currency : {"CZK", "FX"}]

Line == [entry : Nat \ {0}, order : Nat, account : Accounts,
         side : Side, foreign : Int, czk : Int]

----------------------------------------------------------------------------
(* Decimal arithmetic. *)

\* Numeric(18,2): PostgreSQL rounds a half away from zero.
RoundHalfUp(n, d) == (2 * n + d) \div (2 * d)

\* Decimal.quantize with the default context: a half goes to the even digit.
RoundHalfEven(n, d) ==
  LET q == n \div d
      r == 2 * (n - q * d)
  IN  IF r > d \/ (r = d /\ q % 2 = 1) THEN q + 1 ELSE q

----------------------------------------------------------------------------
(* Requests: what pydantic accepts and post_journal_entry checks again. *)

RequestTotal(req, side) ==
  MapThenSumSet(LAMBDA i : req[i].amount, {i \in DOMAIN req : req[i].side = side})

\* At least two lines, each positive (the type of Requests), and debits and
\* credits at most 0.01 apart.
WellFormed(req) ==
  /\ Cardinality(DOMAIN req) >= 2
  /\ RequestTotal(req, "DEBIT") - RequestTotal(req, "CREDIT") \in -Sub .. Sub

AccountsOf(req) == {req[i].account : i \in DOMAIN req}

Acceptable(req) == WellFormed(req) /\ AccountsOf(req) \subseteq Postable

RatesFor(currency) == IF currency = "CZK" THEN {RateScale} ELSE Rates

\* line_order comes from enumerate, which counts from 0.
LineRows(id, req, rate) ==
  {[entry |-> id, order |-> i - 1, account |-> req[i].account, side |-> req[i].side,
    foreign |-> RoundHalfUp(req[i].amount, Sub),
    czk |-> RoundHalfEven(req[i].amount * rate, Sub * RateScale)] : i \in DOMAIN req}

----------------------------------------------------------------------------
(* _recompute_account_balance *)

\* The rows the aggregate query of a (period, account) selects.
PostedLines(es, ls, p, a) ==
  {l \in ls : l.account = a /\ es[l.entry].period = p /\ es[l.entry].status = "posted"}

\* COALESCE(SUM(amount_czk), 0.00)
TotalCzk(ls) == IF ls = {} THEN 0 ELSE MapThenSumSet(LAMBDA l : l.czk, ls)

OnSide(ls, side) == {l \in ls : l.side = side}

Closing(a, opening, debit, credit) ==
  IF a \in DebitNormal THEN opening + debit - credit ELSE opening + credit - debit

Row(a, opening, debit, credit, count) ==
  [row |-> TRUE, opening |-> opening, debit |-> debit, credit |-> credit,
   closing |-> Closing(a, opening, debit, credit), count |-> count]

\* The row for one account: an absent row is created with opening balance 0.
RecomputedRow(old, es, ls, p, a) ==
  LET rows == PostedLines(es, ls, p, a)
  IN  Row(a, IF old = NoRow THEN 0 ELSE old.opening,
          TotalCzk(OnSide(rows, "DEBIT")), TotalCzk(OnSide(rows, "CREDIT")),
          Cardinality(rows))

Recompute(bal, es, ls, p, accts) ==
  [bal EXCEPT ![p] = [a \in Accounts |->
     IF a \in accts THEN RecomputedRow(bal[p][a], es, ls, p, a) ELSE bal[p][a]]]

----------------------------------------------------------------------------
(* post_journal_entry and reverse_journal_entry as functions of the tables. *)

Tables == [entries |-> entries, lines |-> lines, balances |-> balances]

Commit(db) ==
  /\ entries' = db.entries
  /\ lines' = db.lines
  /\ balances' = db.balances

PostTo(db, req, p, rate, head) ==
  LET id == Len(db.entries) + 1
      es == Append(db.entries, [period |-> p, status |-> "posted", type |-> head.type,
                                reverses |-> head.reverses, currency |-> head.currency])
      ls == db.lines \cup LineRows(id, req, rate)
  IN  [entries |-> es, lines |-> ls,
       balances |-> Recompute(db.balances, es, ls, p, AccountsOf(req))]

LinesOf(ls, id) == {l \in ls : l.entry = id}
AccountsOfEntry(ls, id) == {l.account : l \in LinesOf(ls, id)}

\* Mutant: voiding does not recompute the original's balances.
VoidWithoutRecompute(db, id) == [db EXCEPT !.entries[id].status = "voided"]

\* Mutant: voiding deletes the lines of the original.
VoidDeletingLines(db, id) ==
  LET es == [db.entries EXCEPT ![id].status = "voided"]
      ls == db.lines \ LinesOf(db.lines, id)
  IN  [entries |-> es, lines |-> ls,
       balances |-> Recompute(db.balances, es, ls, db.entries[id].period,
                              AccountsOfEntry(db.lines, id))]

\* Mutant: the original gets a status of its own that no query knows.
VoidAsReversed(db, id) ==
  LET es == [db.entries EXCEPT ![id].status = "reversed"]
  IN  [entries |-> es, lines |-> db.lines,
       balances |-> Recompute(db.balances, es, db.lines, db.entries[id].period,
                              AccountsOfEntry(db.lines, id))]

\* UPDATE journal_entries SET status = 'voided', then the balances of the
\* original's own period, whatever the status of that period.
VoidIn(db, id) ==
  LET es == [db.entries EXCEPT ![id].status = "voided"]
  IN  [entries |-> es, lines |-> db.lines,
       balances |-> Recompute(db.balances, es, db.lines, db.entries[id].period,
                              AccountsOfEntry(db.lines, id))]

Swap(side) == IF side = "DEBIT" THEN "CREDIT" ELSE "DEBIT"

\* Mutant: the reversal repeats the original.
MirrorUnswapped(ls, id) ==
  [i \in {l.order + 1 : l \in LinesOf(ls, id)} |->
     LET l == CHOOSE x \in LinesOf(ls, id) : x.order = i - 1
     IN  [account |-> l.account, side |-> l.side, amount |-> l.foreign * Sub]]

\* The stored lines with the sides swapped.  The amounts are the stored ones,
\* rounded to the haler when the original was inserted.  The relationship that
\* loads the lines has no ORDER BY; the places they take here tell them apart
\* and nothing more.
MirrorOf(ls, id) ==
  [i \in {l.order + 1 : l \in LinesOf(ls, id)} |->
     LET l == CHOOSE x \in LinesOf(ls, id) : x.order = i - 1
     IN  [account |-> l.account, side |-> Swap(l.side), amount |-> l.foreign * Sub]]

\* JournalEntryLineCreate and JournalEntryCreate accept the mirror: the model
\* raises ValidationError on a stored amount of 0.00 or on an imbalance.
Reversible(ls, id) ==
  /\ \A l \in LinesOf(ls, id) : l.foreign > 0
  /\ WellFormed(MirrorOf(ls, id))

----------------------------------------------------------------------------
(* The requests. *)

PostJournalEntry(req, p, currency, rate) ==
  /\ Len(entries) < MaxEntries
  /\ period[p].status = "open"
  /\ Acceptable(req)
  /\ rate \in RatesFor(currency)
  /\ Commit(PostTo(Tables, req, p, rate,
                   [type |-> "STANDARD", reverses |-> NoEntry, currency |-> currency]))
  /\ UNCHANGED period

\* The reversal posted in period p at the rate of its date, then the void.
Reversed(id, p, rate) ==
  VoidIn(PostTo(Tables, MirrorOf(lines, id), p, rate,
                [type |-> "REVERSAL", reverses |-> id, currency |-> entries[id].currency]),
         id)

\* Mutant: the status of the original is not looked at.
CanReverseAnyStatus(id, p, rate) ==
  /\ period[p].status = "open"
  /\ Reversible(lines, id)
  /\ AccountsOfEntry(lines, id) \subseteq Postable
  /\ rate \in RatesFor(entries[id].currency)

\* Mutant: a reversal is posted whatever the status of its period.
CanReverseInAnyPeriod(id, p, rate) ==
  /\ entries[id].status = "posted"
  /\ Reversible(lines, id)
  /\ AccountsOfEntry(lines, id) \subseteq Postable
  /\ rate \in RatesFor(entries[id].currency)

CanReverse(id, p, rate) ==
  /\ entries[id].status = "posted"
  /\ period[p].status = "open"
  /\ Reversible(lines, id)
  /\ AccountsOfEntry(lines, id) \subseteq Postable
  /\ rate \in RatesFor(entries[id].currency)

ReverseJournalEntry(id, p, rate) ==
  /\ Len(entries) < MaxEntries
  /\ CanReverse(id, p, rate)
  /\ Commit(Reversed(id, p, rate))
  /\ UNCHANGED period

\* The same request with correction_lines: a third step in one transaction.
ReverseAndCorrect(id, p, rate, req) ==
  /\ Len(entries) + 1 < MaxEntries
  /\ CanReverse(id, p, rate)
  /\ Acceptable(req)
  /\ Commit(PostTo(Reversed(id, p, rate), req, p, rate,
                   [type |-> "CORRECTION", reverses |-> NoEntry,
                    currency |-> entries[id].currency]))
  /\ UNCHANGED period

\* run_seed in the year of period p: the row is inserted open and current when
\* no period has that label, whatever the other periods are.
SeedPeriod(p) ==
  /\ period[p].status = "absent"
  /\ \A q \in Periods : q < p => period[q].status # "absent"
  /\ period' = [period EXCEPT ![p] = [status |-> "open", current |-> TRUE]]
  /\ UNCHANGED <<entries, lines, balances>>

OpenPeriod(p) ==
  /\ period[p].status = "draft"
  /\ period' = [period EXCEPT ![p] = [status |-> "open", current |-> TRUE]]
  /\ UNCHANGED <<entries, lines, balances>>

\* Mutant: the next period is taken whatever its status.
NextPeriodsOfAnyStatus(p) ==
  {q \in Periods : /\ q > p /\ period[q].status # "absent"
                   /\ \A r \in Periods : r > p /\ period[r].status # "absent" => q <= r}

\* The earliest later period that is draft or open, or no period.
NextPeriods(p) ==
  {q \in Periods : /\ q > p
                   /\ period[q].status \in {"draft", "open"}
                   /\ \A r \in Periods : r > p /\ period[r].status \in {"draft", "open"}
                                         => q <= r}

\* Mutant: profit-and-loss accounts are carried forward too.
CarriedOfEveryClass(p) ==
  {a \in Accounts : balances[p][a] # NoRow /\ balances[p][a].closing # 0}

\* Accounts whose closing balance the closing of p carries forward.
Carried(p) ==
  {a \in BalanceSheet : balances[p][a] # NoRow /\ balances[p][a].closing # 0}

CarriedInto(bal, p, q) ==
  [bal EXCEPT ![q] = [a \in Accounts |->
     IF a \in Carried(p) THEN Row(a, bal[p][a].closing, 0, 0, 0) ELSE bal[q][a]]]

\* The insert of an opening row violates uq_balance_period_account when the next
\* period already has a row for the account; the request then rolls back.
OpeningRowsFree(p) ==
  \A q \in NextPeriods(p) : \A a \in Carried(p) : balances[q][a] = NoRow

\* No draft entry exists: post_journal_entry inserts entries as "posted".
ClosePeriod(p) ==
  /\ period[p].status = "open"
  /\ OpeningRowsFree(p)
  /\ period' = [period EXCEPT ![p] = [status |-> "closed", current |-> FALSE]]
  /\ \/ /\ NextPeriods(p) = {}
        /\ UNCHANGED balances
     \/ \E q \in NextPeriods(p) : balances' = CarriedInto(balances, p, q)
  /\ UNCHANGED <<entries, lines>>

LockPeriod(p) ==
  /\ period[p].status = "closed"
  /\ period' = [period EXCEPT ![p].status = "locked"]
  /\ UNCHANGED <<entries, lines, balances>>

----------------------------------------------------------------------------
\* After migration and seed: the first period is open; a later one does not
\* exist yet or was inserted as a draft, the column's default.
Init ==
  /\ \E drafts \in SUBSET {p \in Periods : \E q \in Periods : q < p} :
       period = [p \in Periods |->
         IF \A q \in Periods : p <= q THEN [status |-> "open", current |-> TRUE]
         ELSE [status |-> IF p \in drafts THEN "draft" ELSE "absent", current |-> FALSE]]
  /\ entries = <<>>
  /\ lines = {}
  /\ balances = [p \in Periods |-> [a \in Accounts |-> NoRow]]

PostingRequest(reqs) ==
  \E req \in reqs, p \in Periods, currency \in {"CZK", "FX"} :
    \E rate \in RatesFor(currency) : PostJournalEntry(req, p, currency, rate)

ReversalRequest ==
  \E id \in DOMAIN entries, p \in Periods :
    \E rate \in RatesFor(entries[id].currency) :
      \/ ReverseJournalEntry(id, p, rate)
      \/ \E req \in Corrections : ReverseAndCorrect(id, p, rate, req)

PeriodRequest ==
  \E p \in Periods : SeedPeriod(p) \/ OpenPeriod(p) \/ ClosePeriod(p) \/ LockPeriod(p)

Next == PostingRequest(Requests) \/ ReversalRequest \/ PeriodRequest

Spec == Init /\ [][Next]_vars

----------------------------------------------------------------------------
(* Type invariant. *)

\* Every table holds rows of its own columns, and a line belongs to an entry.
\* The sums of a balance row are typed by BalancesMatchLedger.
TypeOK ==
  /\ period \in [Periods -> [status : Status, current : BOOLEAN]]
  /\ entries \in Seq(Entry)
  /\ lines \subseteq Line
  /\ \A l \in lines : l.entry \in DOMAIN entries
  /\ DOMAIN balances = Periods
  /\ \A p \in Periods :
       /\ DOMAIN balances[p] = Accounts
       /\ \A a \in Accounts :
            \/ balances[p][a] = NoRow
            \/ DOMAIN balances[p][a] = RowColumns /\ balances[p][a].row = TRUE

----------------------------------------------------------------------------
(* Safety. *)

RowMatches(es, ls, row, p, a) ==
  LET rows == PostedLines(es, ls, p, a)
  IN  IF row = NoRow
      THEN rows = {}
      ELSE row = Row(a, row.opening, TotalCzk(OnSide(rows, "DEBIT")),
                     TotalCzk(OnSide(rows, "CREDIT")), Cardinality(rows))

\* The pre-computed balances are never stale: each row holds the totals and the
\* count of the lines of the posted entries of its period and account, and its
\* closing balance follows from them.  Posting and reversing recompute only the
\* accounts they touch; no other row may be out of date, in any period.
BalancesMatchLedger ==
  \A p \in Periods, a \in Accounts : RowMatches(entries, lines, balances[p][a], p, a)

\* An entry is voided exactly when one later entry reverses it: no entry is
\* reversed twice, and none leaves the books without its opravny zapis.
VoidedExactlyByReversal ==
  \A e \in DOMAIN entries :
    LET reversals == {r \in DOMAIN entries : entries[r].reverses = e}
    IN  /\ \A r \in reversals : r > e /\ entries[r].type = "REVERSAL"
        /\ \A r, s \in reversals : r = s
        /\ (entries[e].status = "voided") <=> (reversals # {})

\* An opening balance other than 0 is on a balance-sheet account and was carried
\* by the closing of an earlier period: profit-and-loss accounts start at 0.
OpeningsCarriedFromClosed ==
  \A p \in Periods, a \in Accounts :
    balances[p][a] # NoRow /\ balances[p][a].opening # 0 =>
      /\ a \in BalanceSheet
      /\ \E q \in Periods : q < p /\ period[q].status \in {"closed", "locked"}

\* Nothing but postings in CZK of period p, each reversed in p, and their reversals.
OnlyReversedPostings(p) ==
  \A e \in {e \in DOMAIN entries : entries[e].period = p} :
    \/ /\ entries[e].type = "STANDARD" /\ entries[e].currency = "CZK"
       /\ \E r \in DOMAIN entries : entries[r].reverses = e /\ entries[r].period = p
    \/ /\ entries[e].type = "REVERSAL" /\ entries[e].status = "posted"
       /\ entries[entries[e].reverses].period = p

\* Where every posting was reversed in its own period, the books are not back at
\* zero: voiding takes the original out of the totals and its reversal stays in,
\* so each account has on its debit side what the originals had on the credit
\* side, to the haler, and the other way round: minus the originals.
ReversedPostingsLeaveTheirMirror ==
  \A p \in Periods, a \in Accounts :
    OnlyReversedPostings(p) /\ balances[p][a] # NoRow =>
      LET originals == {l \in lines : /\ l.account = a
                                      /\ entries[l.entry].period = p
                                      /\ entries[l.entry].type = "STANDARD"}
          Stored(side) == MapThenSumSet(LAMBDA l : l.foreign, OnSide(originals, side))
      IN  /\ balances[p][a].debit = Stored("CREDIT")
          /\ balances[p][a].credit = Stored("DEBIT")

\* What the triggers promise of posted entries: an entry keeps every column but
\* the status, which goes from posted to voided and never back, and the lines
\* of an entry that exists are never changed, removed or added to.
PostedEntriesImmutable ==
  [][/\ \A e \in DOMAIN entries :
          /\ e \in DOMAIN entries'
          /\ entries'[e] \in {entries[e], [entries[e] EXCEPT !.status = "voided"]}
     /\ \A l \in lines \cup lines' :
          l.entry \in DOMAIN entries => (l \in lines <=> l \in lines')]_vars

\* A new entry is posted into a period that is open: nothing is posted into a
\* draft, closed or locked period, by a reversal or a correction either.
NewEntriesInOpenPeriods ==
  [][\A e \in DOMAIN entries' \ DOMAIN entries :
       period[entries'[e].period].status = "open"]_vars

\* An opening balance is written once, when its row is created: no later
\* posting, reversal or closing of another period changes it.
OpeningsWrittenOnce ==
  [][\A p \in Periods, a \in Accounts :
       balances[p][a] # NoRow =>
         balances'[p][a] # NoRow /\ balances'[p][a].opening = balances[p][a].opening]_vars

\* The figures of a closed or locked period change in one way only: a balance of
\* it is recomputed because an entry of that period, with a line on that account,
\* is voided.  Posting, correcting, carrying forward or dating a reversal never do.
\* (fiscal_period.py calls closed periods immutable; the voids are the exception.)
ClosedBalancesChangeOnlyByVoid ==
  [][\A p \in Periods, a \in Accounts :
       period[p].status \in {"closed", "locked"} /\ balances'[p][a] # balances[p][a] =>
         \E e \in DOMAIN entries :
           /\ entries[e].period = p /\ a \in AccountsOfEntry(lines, e)
           /\ entries[e].status = "posted" /\ entries'[e].status = "voided"]_vars

=============================================================================
