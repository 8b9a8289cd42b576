# Verification of the Cosimo-ACC accounting backend

TLA+ models of the accounting core of this repository, model-checked with TLC on small
instances, and theorems about them checked by TLAPS for every value of the constants. The source
is a FastAPI application over PostgreSQL (async SQLAlchemy); this directory covers its books:
double-entry ledger, fiscal periods, invoices, VAT register, bank matching, filings, annual
statements and the daily watch over statutory deadlines.

## 1. The system

Almost everything is a *request*: a route opens a session with `async with session.begin()`,
calls one service function and leaves the block. One request is therefore one transaction at
READ COMMITTED; an exception rolls all of it back. Sessions flush before every query, so a
request sees its own writes. There are no locks (`FOR UPDATE`) and no version columns anywhere.

| Component (source under `src/app`) | State | Operations | Calls / shared state |
|---|---|---|---|
| Ledger (`services/ledger_service.py`) | `journal_entries`, `journal_entry_lines`, `account_balances` | post, reverse, reverse and correct; recomputation of balance rows | reads `fiscal_periods`, account flags, exchange rates |
| Fiscal periods (`services/period_service.py`, `seed/run_seed.py`) | `fiscal_periods.status`, opening rows | seed, open, close with carry-forward, lock | reads balances of one period, writes those of the next |
| Invoices (`services/invoice_service.py`, `duzp_service.py`) | `invoices`, `invoice_lines` | post, void | post and reverse of the ledger, VAT register, watchdog |
| VAT register (`services/vat_service.py`) | `vat_register`, its two "submitted" flags | one row per rate, totals of a month, detail rows | written by invoices, flagged by filings |
| Bank (`bank_import_service.py`, `bank_matching_service.py`) | `bank_transactions` | import, automatic and manual matching, unmatching | posts and reverses settlements, sets `payment_date`, raises alerts |
| Alerts (`watchdog_service.py`) | `alerts` | upsert on scan, resolve | called from invoices, bank, the daily job |
| Filing (`filing_service.py`, `report_data_service.py`, `reconciliation_service.py`) | `filing_records`, files in `filing_output_dir` | DPH, KH, balance sheet, profit and loss, income tax | reads register and balances, marks register rows |
| Statements (`rozvaha_service.py`, `vzz_service.py`, `dppo_service.py`) | none | balance sheet, profit and loss, tax base; the check of the balance sheet | read balances by account number or type |
| Chart of accounts (`seed/chart_of_accounts.py`) | `ledger_accounts` | seeded once | side and type decide how every balance and statement is computed |
| Exchange rates (`cnb_fx_service.py`) | `fx_rates` | fetch, cache, fall back to an earlier day | used by ledger and invoices |
| Scheduler and deadlines (`main.py`, `deadline_service.py`) | alerts, the scheduler in the process | daily job at 07:00, the scan a client asks for | raise and escalate alerts, call the watchdog |
| AI, natural-language queries, ARES, documents, auth, backup, dashboard, PDF, pages | users, files | see PROJECT.json | advisory, read-only or input and output |

What is hard in it: the balances are *pre-computed* rows that must follow the lines through
every path that changes lines or statuses; two requests interleave at each `await` and nothing
is locked before it is read; a reversal touches two periods; the register, the entry and the
alerts of an invoice must agree although four functions write them; an import matches many rows
in one transaction, each seeing the matches before it; a filing writes a file that a rollback
does not undo; submission flags are set by a query later than the one that was filed; the
statements and the check of the balance sheet select accounts by two different lists, and all read
turnovers of one side, which a reversal swaps; a return is read by several SELECTs, between which
invoices are posted; and the daily job lives in a process that may be
down when it is due, inserts alerts nothing makes unique, and stops on two of them.
PROJECT.json lists these hazards at their lines.

What makes each part correct, in short: ledger - balances equal the posted lines, entries are
immutable, voiding and reversal go together; periods - nothing is posted into a period that is
not open, openings come from closings and are written once; invoices - one ledger request each,
the register agrees with the entry; bank - the books hold the money of the matched transactions
and no other, a batch posts only what is certain and leaves nothing unhandled; filing - the VAT
return declares what its invoices brought to the books, and what is filed stays marked as filed
(the converse does not hold: invoices posted meanwhile are marked too);
statements - each counts every account it should, once and with its sign, so that their differences
can be accounted for; deadlines - what is due is shown, once, and never less severely than before.

## 2. The modules

`Ledger` is the base; `LedgerSessions` interleaves it; `Invoices` extends it; `Banking` and `Filing`
each extend `Invoices`; `Banking` implements `Settlement`; `Statements` extends `Ledger` and
`ChartOfAccounts`; `Deadlines` stands alone, because alerts of deadlines share no row with the
others. An MC module gives an instance, a proof module the theorems.

**Ledger.** Variables `period` (status of each), `entries`, `lines`, `balances` (a row or `NoRow`
per period and account). One action per request: `PostJournalEntry`, `ReverseJournalEntry`,
`ReverseAndCorrect`, `SeedPeriod`, `OpenPeriod`, `ClosePeriod`, `LockPeriod`. A request that
raises changes nothing, so it has no step. `PostTo` and `VoidIn` are the two writers; both end in
`Recompute`, as `_recompute_account_balance` ends both functions. Money is integers in `1/Sub` of
a haler on input and in halere once stored; the two roundings of the code (half-even in Python,
half-up in a NUMERIC column) and the 0.01 tolerance are kept, and the lines of an entry are numbered
from 0 (`line_order`). Requests are serialised here.

**LedgerSessions.** The same requests, one action per SQL statement, for several sessions. `pc` is
the next statement, `own` the uncommitted writes (a written row is a locked row), `work` the
locals. `SeenEntries`, `SeenLines`, `SeenRow` are READ COMMITTED visibility; `RowFree` and its
fellows the row locks; `DeadlockVictim` PostgreSQL's deadlock detection; `Updated` the ORM's UPDATE
of changed columns only. These are modelled from how the code uses them and marked external.
Opening and locking a period are a SELECT of its status and a later UPDATE (`SelectStatus`,
`UpdateStatus`), so another request can come in between. Foreign currency and corrections are in
`Ledger` only. The committed tables are the variables of `Ledger`, so its properties can be asked
of interleavings too, and `SoloCommitsAreLedgerSteps` says that the dozen statements of a request
that met no other commit as one action of `Ledger`.

**Invoices.** `invoices`, `vatRegister`, `openAlerts`. `PostInvoice` is the whole of
`post_invoice`: DUZP check, duplicate index, line amounts with their three roundings, journal
lines by direction and reverse charge, the entry through `PostJournalEntry`, register rows by
rate with their control-statement section, alerts. `VoidInvoice` is a reversal, the status and
the cleared `kh_submitted`. `ResolveAlert` is the alerts endpoint.

**Banking.** `txs`. `ImportStatement` and `AutoMatch` are folds over the rows and over the open
transactions *in any order* (the query has no ORDER BY), an iteration seeing the tables the ones
before it left. `MatchTransaction` and `UnmatchTransaction` are the two manual requests.

**Settlement.** What matching promises, with three variables: what each transaction pays, the
transactions whose money is in the books, the invoices marked as paid; a batch, a manual match, an
unmatch, a correction of the books. `Banking` maps its tables to these (`Promise`, an INSTANCE) and
the run checks the abstract specification as the property `KeepsPromise`.

**Filing.** `filings`, `files`, `job`. Here a request is one step per SELECT: a clerk reads the
assets of the reconciliation check (`BeginFiling`), its other half (`CheckBalanceSheet`, which may
refuse the return), the three listed sections of a control statement (`ListSection`), the totals,
whereupon the file is written (`WriteFile`), and at last inserts the record and marks the rows
(`RecordFiling`), with requests of `Invoices` and other clerks in between; `AbandonFiling` is a
rollback or a crash at any of these points. `since`, `upto` and `rows` are history: which invoices
there were when the reading began and when the totals were read, and the rows these came from.
`ScanPeriod` is the watchdog's comparison of the two returns. The values of an annual report are
abstracted to the closing balances they are computed from.

**ChartOfAccounts, Statements.** The chart is data: the numbers of the seeded accounts by class,
type and side, and whether they can be posted to. `Statements` holds the line maps of the balance
sheet and of profit and loss and computes `RozvahaDifference`, `NetProfit`, `TaxBase` and
`CheckedDifference` from the balances as the four services do, over the behaviours of `Ledger`. It
has no actions of its own; `StatementsAssumption` ties the accounts of an instance to the chart.

**Deadlines.** A calendar (`month`, `day`, `seven`), the process (`up`), the open alerts by rule
and by the scanner that raised them, and the transaction of each scanner: the daily job and
clients' scans. A scan is a SELECT per rule (`ScanRule`) in the order of the dates, then a commit;
two open alerts of a rule make the SELECT raise (`FailScan`). `Crash` and `Start` are the process,
`Seven` the cron trigger, which does not run later what it missed.

## 3. Runs

Passing runs:

| Run | Instance | Question |
|---|---|---|
| `ledger` | 2 periods, 4 accounts (one a group account), 7 posting requests and 2 corrections including unbalanced, one haler apart, rounding to 0.00; CZK and one foreign rate; 3 entries | do balances, immutability, pairing of voids and reversals, open periods and openings hold over all sequences, and what a reversal leaves behind |
| `sessions` | 2 sessions, 3 requests: one posting, reversals, opening, closing and locking of 2 periods | what still holds under interleaving, that a request that met no other commits as a step of `Ledger` (`SoloCommitsAreLedgerSteps`), and that every request ends |
| `invoices` | 9 invoices covering direction, type, reverse charge, three rates, foreign currency, missing and malformed DIC, expired DUZP, a line that vanishes; 2 at a time, 3 entries | does each implement a ledger request, does the register agree with the entry |
| `banking` | 2 invoices, 6 rows, 5 statements, 2 transactions, 4 entries | settlements, alerts, de-duplication, certainty and completeness of a batch, and that every request is a step of `Settlement` (`KeepsPromise`) |
| `filing` | 2 clerks (symmetric), DPH and KH of one month, invoices of 2 months in both directions, two rates, reverse charge; 2 invoices, 2 entries, 1 record | what is filed stays marked and what else is marked; what the VAT return declares is on 343; what the control statement lists and what it aggregates |
| `statements` | 13 accounts of the chart, one of each kind the statements tell apart, 2 periods, 7 bookings and a correction, 3 entries | how the two balance-sheet figures, the profit and the tax base relate to each other and to the journal |
| `deadlines` | a year of 3 months and 5 days, both annual deadlines in it, window of 1 day, 1 client beside the job, at most 1 day missed in a row | what is raised, doubled, escalated, and that an overdue deadline becomes a blocker |

Why the bounds are enough: the shortest behaviours that could break each property fit well inside.
A reversal of a reversal, or a reversal and correction, takes three entries; a lost update, a
double reversal or a late posting takes two sessions; an opening carried twice takes two periods;
an import that must see its own matches takes two transactions of one invoice; and matching,
unmatching and rematching an invoice takes one invoice entry, a settlement, its reversal and a
second settlement, four in all. Two clerks cover every race about one file and record, and one
record is enough for each of the properties about filings, which speak of one record and the
register. A statement is wrong about an account of some kind after a reversal, a correction or a
closing, which three entries in two periods reach. A doubled alert takes two scanners; a missed day
and a year that comes round again need a year, of any length that has a day of each severity and
more days after each deadline than may be missed. Each property comes with a mutant, a plausible
bug of the code written beside the definition it would be in; TLC finds the property violated by it
in the same instance, so the case does occur. `Tolerance` and `KhThreshold` are scaled to the small
amounts so that both sides of each threshold are reached. Deadlock checking is on in `deadlines`,
where there is always a next step, and off in the others: entries, requests and records are capped
by `MaxEntries`, `MaxRequests`, `MaxInvoices`, `MaxTransactions` and `MaxFilings`, and a system at
its caps stops.

**Fairness.** `FairSessionsSpec` has weak fairness of each session's `Statement`. A request that
has begun is a coroutine the event loop keeps scheduling and a database that keeps answering; a
client need not send one, so beginning a request is not fair. Waits for a row end because the
holder is fair too and PostgreSQL aborts one of a cycle; `EveryRequestEnds` depends on that, since
balance rows are locked in the iteration order of a Python set. `FairDeadlinesSpec` has weak
fairness of the statements of each scan, for the same reason, and of `Start`: the process is
started again (`restart: unless-stopped` in `docker-compose.yml`). It has strong fairness of
`Seven` and of `NextDay`, since a client that keeps scanning or a process that keeps restarting
does not stop the clock. `MaxMissed` is an assumption about the world, not a bound of the search:
the job does not fail on more than so many days in a row. Without it a crash at seven every morning
would be fair. `OverdueBecomesBlocker` also excepts doubled alerts, which stop every scan until a
person resolves one, and an alert someone resolves behind the back of the job.

Runs in which the code does not do what the repository says of it; each is a finding with the
line quoted in PROJECT.json:

- `sessions_lost_update`: of two concurrent postings to an account the balance keeps one.
  (`SoloCommitHeals`, proved as `LoneRequestsHeal`, shows what limits the damage: the next request
  that touches the row with no other in flight makes it exact again, because rows are recomputed and
  never incremented.)
- `sessions_late_post`: an entry commits into a period closed while it was being posted.
- `sessions_double`: two concurrent reversals of one entry both commit.
- `deadlines_reminder`: the daily job commits within the window before the VAT return is due and
  leaves no alert of it, although `compliance_rules.py` has the rule "Reminder for upcoming monthly
  VAT return deadline". The calendar of a day holds the return of that day's month only, due on the
  25th of the next, which is never within 14 days. `VatReturnNeverReminded` proves it for every
  calendar in which the window is shorter than the day of the month on which the return is due.
- `filing_files`: generating a report twice overwrites the file of the first record, the second
  is refused by the unique index, and the stored checksum is of a file that no longer exists.

`fiscal_period.py:5` calls closed periods immutable, and they are not entirely: reversing an entry
of a closed period, dated in an open one, recomputes the closed period's balances. The run `ledger`
checks, and `ShutBalancesStay` proves, the exact extent: `ClosedBalancesChangeOnlyByVoid`.

Three more properties pass and say exactly how far the code goes where a reader might expect
something else. `ReversedPostingsLeaveTheirMirror`: a reversed entry no longer counts and its
reversal does, so a reversal does not cancel a posting, it leaves the books at minus the posting.
`MarkedOnlyWhenFiled`: rows that a return was made from are marked, and so are rows posted between
the reading and the marking. `KhTotalsIncludeListed`: the aggregates A2 and B3 of a control
statement are over all invoices, so that those listed in A1, B1 and B2 are declared twice, although
`kh_xml_service.py:83` describes B3 as the "aggregated received invoices (< 10 000 Kc VAT)".

## 4. Proofs

Every safety invariant and every action property a passing run checks is also a theorem, for all
values of the constants, and so are three refinements: invoices and filings implement the ledger,
and the bank implements `Settlement`.
PROJECT.json lists them.

**Assumptions.** The proofs assume only the named assumptions on the constants
(`ConstantsAssumption`, `SessionsAssumption`, `InvoicesAssumption`, `BankingAssumption`,
`FilingAssumption`, `DeadlinesAssumption`, `StatementsAssumption`), which TLC evaluates in the
runs. That every list of journal lines an invoice can build is among `Requests` says that the
ledger serves invoices as it serves its other clients, not that the lists balance. A few theorems
have a hypothesis of their own. `RegisterAgreesWithBooks`, `ReturnsDeclareTheLedger` and
`StatementTotalsIncludeListed` need `InvoicesLeaveVatAccount`: no invoice line names 343 as its own
account, or the entry would have amounts on 343 that are not tax. `BooksFollowTheBank` needs
`ClientsLeaveBankAccount`: nobody but the matching posts to 221, or the books would hold money no
transaction brought. The code enforces neither; the instances of the runs satisfy them
(`MCClients`).

- **LedgerProofs**, types and balances: `TypeCorrect`, `BalancesCorrect`. The invariant is their
  conjunction (`TypedAndConsistent`): rows are typed only if sums of lines are, and a row that is
  *not* recomputed stays right only because the new lines belong to other accounts or periods,
  which needs the types. `PostPreserves` and `VoidPreserves` state this for the two writers; every
  request is a composition of them (`ReversedPreserves`), and closing only adds rows to periods
  where the account had none (`CloseTyped`).
- **LedgerProofs**, history: `EntriesImmutable`, `PostedWhileOpen`, `OpeningsStay` from a relation
  `Extends` between the tables before and after, proved for the writers and shown transitive, so
  that a reverse-and-correct of three writes is one chain; and `VoidedByOneReversal`, whose
  invariant adds that a reversal comes after the entry it reverses.
- **LedgerProofs**, periods: `ShutBalancesStay` and `OpeningsComeFromClosings`. Each request is
  taken apart into its one to three writes, each of which recomputes rows of one period and of the
  accounts of one entry; an opening that is not zero is kept by recomputation, and written only by
  a closing, whose own period stays closed or locked ever after.
- **FoldTheorems**: what the folds of the community modules compute. A fold is a `CHOOSE` of a
  recursive function, of which nothing is known before the function is shown to exist; the module
  shows it for every finite set, and that a fold over `1 .. n` applies its operator to the numbers
  in order. The provers cannot instantiate a theorem that takes operators, so they are constants
  here and a proof module instantiates this one with its own: `LedgerProofs` for sums (`SumOf`,
  whose lemmas split, merge and map sums over finite sets), `BankingProofs` for a batch.
- **SessionsProofs**, for any number of sessions. `VoidedOnlyWithReversal` is about committed
  entries, and a commit keeps it because of what its session holds: `SessionInv` says, for each
  statement a session can be at, what it has inserted and voided. At `commit` a reversal has voided
  its original, or its UPDATE found that another transaction had; entries are only appended and
  never un-voided (`EntriesGrow`), so no step of another session disturbs that (`OtherSession`).
  `TypedSessions` adds what each session has read and the types of its rows
  (`SessionsTypeCorrect`). `LoneRequestsRefineLedger`: a request with no other in flight commits as
  one step of `Ledger`, *on whatever tables earlier interleavings left*. `SoloSessions` says what
  it sees at each statement: the tables before the part it is in (`Base`), but for the rows it has
  recomputed, which are those of the tables after that part (`Goal`); at `commit` only `Goal` is
  left. `LoneRequestsHeal` reads off that the rows it leaves are exact. `OpeningsStayInterleaved`
  needs `LockInv` instead: a row is written by one transaction at a time, which keeps the
  opening balance that is committed. The findings show what is lost when requests overlap.
- **InvoicesProofs**: `InvoicesImplementLedger` (`InvoicesSpec => Spec`): posting an invoice is a
  posting request, voiding one a reversal, the rest a stutter. It needs that invoices refer to
  existing entries in CZK (`InvoicesLinked`). `InvoicedBalancesCorrect` follows from it and the
  ledger theorem; `VoidingReverses`, `RegisterIsHistory` and `InvoicesTypeCorrect` are about the
  invoice tables. `RegisterAgreesWithBooks` compares sums over two tables written by two functions
  with different groupings and roundings: the invariant `RegisterStored` says that the stored lines
  of the entry are those of `JournalLines` for the invoice's request and rate, and that its register
  rows are one for each rate of its lines; the sums over positions on one side and over rates on
  the other are then sums over the same amounts.
- **BankingProofs**: a request works on the record `db` of the tables it reads and writes.
  `BankOK` is what is true of these tables between any two iterations of a batch: a transaction is
  free, or has an entry of its own that moves its amount on 221 in one line; an alert of the
  matching is about a transaction that is not matched; an entry on 221 settles a transaction. It is
  shown of one iteration, then through `FoldTheorems` of the batch, in whatever order it takes its
  transactions. `BankTypeCorrect`, `NoStaleAlerts` and `BooksFollowTheBank` follow from `BankInv`,
  which adds that no two transactions have the key the import compares (`ImportsIdempotent`: the
  loop adds no row it or an earlier import has). `ImportsHandleAll` and `BatchesMatchTheCertain`
  relate the middle of a batch to the tables it began with (`BooksSince` and its fellows): what a
  transaction was matched to was free and certain at the start and is taken by no other.
- **BankingProofs**, refinement: `BankingImplementsSettlement`, one abstract step or none for each
  request, ledger and invoice requests included; `PaidInvoicesArePaidFor` is what the abstract
  specification implies, carried over by it. An invoice may be paid twice by hand; unmatching one of
  the two unmarks it, which leaves the other matched and the mark off, never the mark without a
  transaction.
- **FilingProofs**: `FiledStaysMarked` and `MarkedIsFiled`, for any number of clerks. Neither is
  inductive: a row that could appear later with the key of a filed row would be unmarked. The
  invariant `FilingInv` adds that what was read, also by a clerk who has not recorded yet, is rows
  of invoices that exist and of the return's month (`ReadFor`), so rows of later invoices are other
  rows, and the second query cannot miss a row the first one saw. Requests are summarised by
  `RegisterKept` (each row is new and unmarked, or an old one that lost at most the flag of a
  voided invoice), recording by `MarkedRowKeeps`; a row marked although it was not read belongs to
  an invoice posted after the reading (`upto`). `ReturnsDeclareTheLedger` needs `ReturnsInv`: what
  was written out or recorded is the tax of the invoices its rows belong to, which keep their
  amounts whatever happens to them later; with `RegisterAgreesWithBooks` that is the tax on 343, of
  which the credit side of self-assessed tax is declared on no row. `StatementTotalsIncludeListed`
  adds `ListingInv`: each section that was selected holds all rows to be listed of the invoices
  there were at `since`, and rows are only added, so the totals read later include them.
  `FilingImplementsLedger` is `FilingSpec => Spec`, `FilingTypeCorrect` the types.
- **StatementsProofs**: the chart facts (no account in two classes or twice in a statement) are
  proved by expanding the chart; the invariant `BooksSound` adds to `TypedAndConsistent` that there
  are finitely many lines, all on accounts that can be posted to, and that openings are integers.
  `SheetAndCheckAgree` then compares sums over two lists of accounts (`FamilySum`); for the other
  three a sum of balances over accounts is turned into a sum over lines (`ColumnOfLines`). A
  reversal leaves no trace in the profit because its lines are on the sides profit and loss does not
  read, and the entry it reverses is not counted.
- **DeadlinesProofs**: the type invariant, `RaisesOneAtATime`, `SeverityOnlyRises` and
  `JobAlertsEveryDeadline`, for any calendar and any number of clients; the last needs that the
  job's transaction accounts for every rule it has looked at. `VatReturnNeverReminded` generalises
  the finding of `deadlines_reminder` and rests on `Window < FilingDay` (14 and 25 in the code).

Only model-checked: the two liveness properties, `EveryRequestEnds` and `OverdueBecomesBlocker`,
which need fairness and ENABLED, beyond these provers; and the five findings, which TLC's
counterexamples settle.

## 5. Not modelled

- Concurrency of requests above the ledger: `Invoices` and `Banking` serialise them, `Filing`
  interleaves the SELECTs of its clerks with whole requests, and only `Deadlines` interleaves the
  upsert of an alert. Two matches of one transaction at once are listed as a hazard.
- Parsers of CSV and MT940 statements: they turn text into rows and keep no state. The XML rows of
  the returns and the rounding of the tax to thousands are layout and arithmetic of single lines.
- The two reads of the trial balance in `dppo_service.py` are one in `TaxBase`, which is a function
  of the balances and not a step. A settlement of amount zero, which cannot be matched, is a
  refused match in `Banking`; in the code a validation error escapes, and only `POST /match` can
  meet it.
- The draft record of a return whose reconciliation failed: it is added, and then lost because the
  error rolls the request back (`reports.py:60` says that the failure is recorded). In the model
  such a generation leaves no trace either.
- The cache and the fallback of exchange rates: they choose which rate a posting uses, and the
  models allow every rate of the instance.
- The AI client, the classifier, extraction and natural-language queries: advice and read-only
  queries, whose failures are swallowed. `seed/compliance_rules.py` is read by no code.
- Authentication, backup, documents, ARES, dashboards, PDF and pages: no accounting state, or
  input and output only. Every modelled request is one the role check admits.
- Dates are reduced to the period or month they fall in, and DUZP to its class; the
  `ValueError` of a DUZP check on 29 February is therefore a hazard without a property.

## 6. Plan

Done, in order of importance: ledger, its interleavings, invoices with refinement, banking with the
abstract settlement it implements, filings, the statements over the seeded chart, deadlines and the
daily job with crashes and liveness. Every safety invariant and action property of the passing runs
is proved, under interleaving too where it is claimed there, and so are the three refinements.

What could follow:

1. Proofs about interleaving: which more of the ledger's guarantees survive it (the immutability of
   committed entries; that openings come from closings), next to the findings about those that
   do not.
2. `BankSessions`: the matching of one transaction by two requests, statement by statement as in
   `LedgerSessions`.
3. `StatementParsing`: CSV and MT940 rows to transactions, with de-duplication, against a
   reference definition over bounded inputs.
4. Postings, voids and settlements that interleave with each other above the ledger, statement by
   statement: the register rows of an invoice that is posted and voided at once.
5. `ExchangeRates`: cache and fallback to an earlier day, and the rate a posting uses.
