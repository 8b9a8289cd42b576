------------------------------- MODULE Filing -------------------------------
(***************************************************************************)
(* Filings: the VAT return, the control statement and the annual reports,  *)
(* the files they are written to and the flags they leave on the register. *)
(*                                                                         *)
(* A generation runs in one database transaction, but each of its SELECTs  *)
(* sees what is committed by then, it writes a file before it inserts its  *)
(* record, and a rollback does not undo the file.  It therefore takes one  *)
(* step per SELECT here, while requests of Invoices remain one step each.  *)
(***************************************************************************)
EXTENDS Invoices

CONSTANTS
  Clerks,               \* requests that may generate at the same time
  Labelled,             \* the kinds and labels of filing that are asked for
  YearOf,               \* the fiscal period of a VAT period
  AssetAccounts,        \* accounts of type ASSET
  LiabilityAccounts,    \* accounts of type LIABILITY or EQUITY
  Tolerance,            \* of the balance sheet check, 1 Kc in halere
  MismatchTolerance,    \* of the period scan, 0.50 Kc
  MaxFilings            \* bound: records after which no generation begins

Returns == {"DPH_PRIZNANI", "KONTROLNI_HLASENI"}
Reports == {"ROZVAHA", "VZZ", "DPPO"}

\* A return is labelled with a month, a report with a year.
ASSUME FilingAssumption ==
  /\ Labelled \subseteq (Returns \X VatPeriods) \cup (Reports \X Periods)
  /\ YearOf \in [VatPeriods -> Periods]
  /\ AssetAccounts \cup LiabilityAccounts \subseteq Accounts
  /\ {Tolerance, MismatchTolerance, MaxFilings} \subseteq Nat

VARIABLES
  filings,  \* filing_records
  files,    \* filing_output_dir: the content of the file of a kind and label
  job       \* the generation each clerk is running

filingVars == <<filings, files, job>>
allFilingVars == <<allInvoiceVars, filingVars>>

NoFile == [none |-> TRUE]
Idle == [phase |-> "idle"]

----------------------------------------------------------------------------
(* What the returns say: report_data_service and vat_service. *)

RequestOf(row) == invoices[row.invoice].request

PeriodRows(vp) == {row \in vatRegister : RequestOf(row).vatPeriod = vp}

Totals(rows) ==
  [base |-> MapThenSumSet(LAMBDA row : row.base, rows),
   tax |-> MapThenSumSet(LAMBDA row : row.tax, rows)]

\* get_vat_period_totals: a voided invoice is not left out.
RateTotals(vp, direction, rates) ==
  Totals({row \in PeriodRows(vp) : RequestOf(row).direction = direction /\ row.rate \in rates})

\* Mutant: the reduced rate is left out of the output tax.
DphDataWithoutReduced(vp) ==
  [output |-> [rate \in {12, 21} |-> RateTotals(vp, "ISSUED", {rate} \ {12})],
   input |-> [rate \in {12, 21} |-> RateTotals(vp, "RECEIVED", {rate})]]

\* build_dph_priznani_data: rows 1, 2 and 40, 41.
DphData(vp) ==
  [output |-> [rate \in {12, 21} |-> RateTotals(vp, "ISSUED", {rate})],
   input |-> [rate \in {12, 21} |-> RateTotals(vp, "RECEIVED", {rate})]]

\* The sections of the control statement whose rows are listed, as selected.
ListedSections == <<"A1", "B1", "B2">>

\* Mutant: reverse-charged rows are not listed.
DetailWithoutReverseCharge(vp, section) ==
  KnownRows({row \in PeriodRows(vp) : /\ row.section = section /\ row.detail
                                      /\ ~RequestOf(row).reverseCharge})

\* get_kh_detail_entries
Detail(vp, section) ==
  KnownRows({row \in PeriodRows(vp) : row.section = section /\ row.detail})

\* build_kh_data: the rows listed in A1, B1 and B2 were selected before; the
\* aggregates are those of the period, listed rows included.
KhData(vp, listed) ==
  [a1 |-> listed[1], b1 |-> listed[2], b2 |-> listed[3],
   a2 |-> RateTotals(vp, "ISSUED", {12, 21}), b3 |-> RateTotals(vp, "RECEIVED", {12, 21})]

\* An annual report is a function of the closing balances of its period.
ReportData(p) ==
  [closing |-> {<<a, balances[p][a].closing>> :
                  a \in {x \in Accounts : balances[p][x] # NoRow}}]

DataOf(j) ==
  CASE j.kind = "DPH_PRIZNANI" -> DphData(j.label)
    [] j.kind = "KONTROLNI_HLASENI" -> KhData(j.label, j.listed)
    [] j.kind \in Reports -> ReportData(j.label)

----------------------------------------------------------------------------
(* check_balance_sheet *)

ClosingTotal(p, accts) ==
  MapThenSumSet(LAMBDA a : balances[p][a].closing, {a \in accts : balances[p][a] # NoRow})

\* Revenue and expense accounts are on neither side.
Balances(assets, p) == assets - ClosingTotal(p, LiabilityAccounts) \in -Tolerance .. Tolerance

----------------------------------------------------------------------------
(* A generation. *)

Exists(p) == period[p].status # "absent"

\* `listed` are the rows selected for the listed sections so far; `since` is
\* history: the invoices there were when the reading began.
Reading(kind, label, listed, since) ==
  [phase |-> "reading", kind |-> kind, label |-> label, listed |-> listed, since |-> since]

Begun(kind, label) == Reading(kind, label, <<>>, Len(invoices))

\* The first SELECT of the balance sheet check is that of the assets.
Checking(kind, label) ==
  [phase |-> "checking", kind |-> kind, label |-> label,
   assets |-> ClosingTotal(YearOf[label], AssetAccounts)]

\* Only the returns are checked.
BeginFiling(c, kind, label) ==
  /\ Cardinality(filings) < MaxFilings
  /\ job[c] = Idle
  /\ Exists(IF kind \in Returns THEN YearOf[label] ELSE label)
  /\ job' = [job EXCEPT ![c] = IF kind \in Returns THEN Checking(kind, label)
                                                  ELSE Begun(kind, label)]
  /\ UNCHANGED <<allInvoiceVars, filings, files>>

\* A refused generation adds a draft record and raises: the request rolls back
\* and the record with it.
CheckBalanceSheet(c) ==
  LET j == job[c]
  IN  /\ j.phase = "checking"
      /\ job' = [job EXCEPT ![c] = IF Balances(j.assets, YearOf[j.label])
                                   THEN Begun(j.kind, j.label) ELSE Idle]
      /\ UNCHANGED <<allInvoiceVars, filings, files>>

Listing(j) == j.kind = "KONTROLNI_HLASENI" /\ Len(j.listed) < Len(ListedSections)

NextDetail(j) == Detail(j.label, ListedSections[Len(j.listed) + 1])

\* One of the three SELECTs of listed rows.
ListSection(c) ==
  LET j == job[c]
  IN  /\ j.phase = "reading" /\ Listing(j)
      /\ job' = [job EXCEPT ![c] = Reading(j.kind, j.label, Append(j.listed, NextDetail(j)),
                                           j.since)]
      /\ UNCHANGED <<allInvoiceVars, filings, files>>

\* Mutant: the record is made of what the file held before.
WriteFileAfterReading(c) ==
  LET j == job[c]
  IN  /\ j.phase = "reading" /\ ~Listing(j)
      /\ files' = [files EXCEPT ![<<j.kind, j.label>>] = DataOf(j)]
      /\ job' = [job EXCEPT ![c] = [phase |-> "written", kind |-> j.kind, label |-> j.label,
                                    content |-> files[<<j.kind, j.label>>], rows |-> {},
                                    since |-> j.since, upto |-> Len(invoices)]]
      /\ UNCHANGED <<allInvoiceVars, filings>>

\* A generation whose file is written.  `rows` and `upto` are history: the
\* register rows the totals were read from, and the invoices there were.
Written(j) ==
  [phase |-> "written", kind |-> j.kind, label |-> j.label, content |-> DataOf(j),
   rows |-> IF j.kind \in Returns THEN KnownRows(PeriodRows(j.label)) ELSE {},
   since |-> j.since, upto |-> Len(invoices)]

\* The totals are read and the file of this kind and label is overwritten.
WriteFile(c) ==
  LET j == job[c]
  IN  /\ j.phase = "reading" /\ ~Listing(j)
      /\ files' = [files EXCEPT ![<<j.kind, j.label>>] = DataOf(j)]
      /\ job' = [job EXCEPT ![c] = Written(j)]
      /\ UNCHANGED <<allInvoiceVars, filings>>

\* Mutant: rows of every period are marked.
MarkedInAnyPeriod(kind, label) ==
  {IF kind = "DPH_PRIZNANI" THEN [row EXCEPT !.priznaniSubmitted = TRUE]
   ELSE IF kind = "KONTROLNI_HLASENI" THEN [row EXCEPT !.khSubmitted = TRUE]
   ELSE row : row \in vatRegister}

\* Mutant: only the rows listed one by one are marked.
MarkedDetail(kind, label) ==
  {IF kind \notin Returns \/ RequestOf(row).vatPeriod # label \/ ~row.detail THEN row
   ELSE IF kind = "DPH_PRIZNANI" THEN [row EXCEPT !.priznaniSubmitted = TRUE]
   ELSE [row EXCEPT !.khSubmitted = TRUE] : row \in vatRegister}

\* The rows of the period as of now, which may be more than were read.
Marked(kind, label) ==
  {IF kind \notin Returns \/ RequestOf(row).vatPeriod # label THEN row
   ELSE IF kind = "DPH_PRIZNANI" THEN [row EXCEPT !.priznaniSubmitted = TRUE]
   ELSE [row EXCEPT !.khSubmitted = TRUE] : row \in vatRegister}

RecordOf(j) == [kind |-> j.kind, label |-> j.label, content |-> j.content, rows |-> j.rows,
                since |-> j.since, upto |-> j.upto]

\* uq_filing_type_period_active: no code sets amends_filing_id or "superseded".
RecordFiling(c) ==
  LET j == job[c]
  IN  /\ j.phase = "written"
      /\ \A f \in filings : <<f.kind, f.label>> # <<j.kind, j.label>>
      /\ filings' = filings \cup {RecordOf(j)}
      /\ vatRegister' = Marked(j.kind, j.label)
      /\ job' = [job EXCEPT ![c] = Idle]
      /\ UNCHANGED <<vars, invoices, openAlerts, files>>

\* The index refuses the record, or the request fails or the process dies
\* before it commits.
AbandonFiling(c) ==
  /\ job[c] # Idle
  /\ job' = [job EXCEPT ![c] = Idle]
  /\ UNCHANGED <<allInvoiceVars, filings, files>>

\* scan_vat_period, by the daily job or on demand.
ScanPeriod(vp) ==
  LET all == Totals(PeriodRows(vp)).tax
      detail == Totals({row \in PeriodRows(vp) : row.detail}).tax
  IN  /\ all # 0 /\ detail # 0
      /\ all - detail > MismatchTolerance
      /\ openAlerts' = openAlerts \cup
           {[rule |-> "CONS_KH_PRIZNANI_MISMATCH", about |-> About("period", vp)]}
      /\ UNCHANGED <<vars, invoices, vatRegister, filingVars>>

----------------------------------------------------------------------------
FilingInit ==
  /\ InvoicesInit
  /\ filings = {}
  /\ files = [key \in Labelled |-> NoFile]
  /\ job = [c \in Clerks |-> Idle]

Generation(c) ==
  \/ \E key \in Labelled : BeginFiling(c, key[1], key[2])
  \/ CheckBalanceSheet(c)
  \/ ListSection(c)
  \/ WriteFile(c)
  \/ RecordFiling(c)
  \/ AbandonFiling(c)

FilingNext ==
  \/ \E c \in Clerks : Generation(c)
  \/ \E vp \in VatPeriods : ScanPeriod(vp)
  \/ (LedgerRequest \/ InvoiceRequested) /\ UNCHANGED filingVars

FilingSpec == FilingInit /\ [][FilingNext]_allFilingVars

----------------------------------------------------------------------------
(* Type invariant. *)

FilingTypeOK ==
  /\ DOMAIN files = Labelled
  /\ \A c \in Clerks : job[c].phase \in {"idle", "checking", "reading", "written"}
  /\ \A f \in filings :
       /\ <<f.kind, f.label>> \in Labelled
       /\ f.content # NoFile
       /\ f.rows \subseteq KnownRows(vatRegister)
       /\ f.since \in 0 .. f.upto /\ f.upto \in 0 .. Len(invoices)

----------------------------------------------------------------------------
(* Safety. *)

SubmittedFlag(kind, row) ==
  IF kind = "DPH_PRIZNANI" THEN row.priznaniSubmitted ELSE row.khSubmitted

\* What was filed stays marked: every register row that went into a recorded
\* return carries its flag, except that voiding the invoice clears the flag of
\* the control statement.  Rows posted while the return was being generated do
\* not weaken this.
FiledRowsStayMarked ==
  \A f \in filings : \A row \in vatRegister :
    f.kind \in Returns /\ KnownRows({row}) \subseteq f.rows =>
      \/ SubmittedFlag(f.kind, row)
      \/ f.kind = "KONTROLNI_HLASENI" /\ invoices[row.invoice].status = "voided"

\* A row is marked as submitted only when a recorded return of its month was
\* made from it, or its invoice was posted after that return's totals were read:
\* the second query for the rows marks these too, though no file declares them.
\* An abandoned or refused generation marks nothing.
MarkedOnlyWhenFiled ==
  \A kind \in Returns, row \in vatRegister :
    SubmittedFlag(kind, row) =>
      \E f \in filings : /\ f.kind = kind /\ f.label = RequestOf(row).vatPeriod
                         /\ KnownRows({row}) \subseteq f.rows \/ row.invoice > f.upto

\* The invoices a return was made from, voided ones included.
Behind(f) == {i \in DOMAIN invoices : \E key \in f.rows : key[1] = i}
BehindOf(f, direction) == {i \in Behind(f) : invoices[i].request.direction = direction}

SelfAssessed(f) == {i \in BehindOf(f, "RECEIVED") : invoices[i].request.reverseCharge}

\* What the entries of these invoices, not their reversals, have on 343.
VatOnLedger(ids, side) ==
  TotalCzk({l \in lines : /\ l.account = "343" /\ l.side = side
                          /\ \E i \in ids : invoices[i].entry = l.entry})

OutputTax(f) == f.content.output[12].tax + f.content.output[21].tax
InputTax(f) == f.content.input[12].tax + f.content.input[21].tax

\* A recorded VAT return declares all the tax that the entries of the invoices
\* it was made from have on 343, except the tax self-assessed under the reverse
\* charge: that is deducted as input tax on the debit side, and its credit side
\* is declared on no row.  A voided invoice is declared like any other, although
\* its reversal has taken its tax off 343.
ReturnsFollowLedger ==
  \A f \in filings :
    f.kind = "DPH_PRIZNANI" =>
      /\ OutputTax(f) + VatOnLedger(SelfAssessed(f), "CREDIT") = VatOnLedger(Behind(f), "CREDIT")
      /\ InputTax(f) = VatOnLedger(Behind(f), "DEBIT")

Listed(f) == f.content.a1 \cup f.content.b1 \cup f.content.b2

\* The aggregates of a recorded control statement are the tax of all the
\* invoices of its month, self-assessed tax excepted as above, so every row it
\* lists is declared a second time in an aggregate: B3 is not the "aggregated
\* received invoices (< 10 000 Kc VAT)" of kh_xml_service.py:83.  A row that is to
\* be listed and is only in an aggregate is one of an invoice posted between the
\* SELECT of its section and that of the totals; never the other way round.
KhTotalsIncludeListed ==
  \A f \in filings :
    f.kind = "KONTROLNI_HLASENI" =>
      /\ f.content.a2.tax + VatOnLedger(SelfAssessed(f), "CREDIT")
           = VatOnLedger(Behind(f), "CREDIT")
      /\ f.content.b3.tax = VatOnLedger(Behind(f), "DEBIT")
      /\ Listed(f) \subseteq f.rows
      /\ \A row \in vatRegister :
           row.detail /\ KnownRows({row}) \subseteq f.rows \ Listed(f) => row.invoice > f.since

----------------------------------------------------------------------------
(* What the repository says and the code does not do. *)

\* compute_checksum: "SHA-256 checksum of generated XML -- stored in
\* FilingRecord".  The file of a recorded filing is the one it was recorded
\* for, at least while nothing is being generated.
FileMatchesRecord ==
  (\A c \in Clerks : job[c] = Idle) =>
    \A f \in filings : files[<<f.kind, f.label>>] = f.content
=============================================================================
