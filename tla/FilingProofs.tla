---------------------------- MODULE FilingProofs ----------------------------
(***************************************************************************)
(* Proofs about Filing, in four parts: the submission flags of the         *)
(* register (what is on record stays marked, and what is marked is on      *)
(* record or came too late for it); the tax a return declares, from the    *)
(* rows it was made from over the amounts of their invoices to the lines   *)
(* of the ledger; the types of jobs and records; and the rows a control    *)
(* statement lists.  All hold whatever is posted or voided while a return  *)
(* is being generated.                                                     *)
(***************************************************************************)
EXTENDS Filing, InvoicesProofs

\* A register row without its flags.
RowKey(row) == <<row.invoice, row.rate, row.base, row.tax, row.section, row.detail>>

\* Rows have their columns and belong to invoices.
RowsLinked ==
  /\ invoices \in Seq(Invoice)
  /\ \A row \in vatRegister : FlaggedColumns \subseteq DOMAIN row /\ row.invoice \in DOMAIN invoices

\* What was read for a return: rows of invoices of its month.
ReadFor(rows, label) ==
  \A key \in rows : key[1] \in DOMAIN invoices /\ invoices[key[1]].request.vatPeriod = label

\* Every row of the month that is not among them is one of a later invoice.
Covers(rows, label, upto) ==
  /\ upto \in 0 .. Len(invoices)
  /\ \A row \in vatRegister :
       RequestOf(row).vatPeriod = label => RowKey(row) \in rows \/ row.invoice > upto

Read(x) == ReadFor(x.rows, x.label) /\ Covers(x.rows, x.label, x.upto)

HasReturn(c) == job[c].phase = "written" /\ job[c].kind \in Returns

\* The inductive invariant.
FilingInv ==
  /\ RowsLinked
  /\ DOMAIN job = Clerks
  /\ \A c \in Clerks : HasReturn(c) => Read(job[c])
  /\ \A f \in filings : f.kind \in Returns => ReadFor(f.rows, f.label)
  /\ FiledRowsStayMarked
  /\ MarkedOnlyWhenFiled

-----------------------------------------------------------------------------
(* Rows and their flags. *)

\* A row of an existing invoice is known by its key.
LEMMA KnownRow ==
  ASSUME RowsLinked, NEW row \in vatRegister
  PROVE  KnownRows({row}) = {RowKey(row)}
BY DEF RowsLinked, KnownRows, RowKey

LEMMA KeyOfRow ==
  ASSUME NEW row
  PROVE  RowKey(row)[1] = row.invoice
BY DEF RowKey

\* Setting or clearing a flag changes nothing else of a row.
LEMMA KhFlagSet ==
  ASSUME NEW row, FlaggedColumns \subseteq DOMAIN row, NEW b \in BOOLEAN
  PROVE  LET new == [row EXCEPT !.khSubmitted = b]
         IN  /\ FlaggedColumns \subseteq DOMAIN new
             /\ RowKey(new) = RowKey(row)
             /\ new.invoice = row.invoice
             /\ new.khSubmitted = b
             /\ new.priznaniSubmitted = row.priznaniSubmitted
BY DEF FlaggedColumns, RegisterColumns, RowKey

LEMMA PriznaniFlagSet ==
  ASSUME NEW row, FlaggedColumns \subseteq DOMAIN row, NEW b \in BOOLEAN
  PROVE  LET new == [row EXCEPT !.priznaniSubmitted = b]
         IN  /\ FlaggedColumns \subseteq DOMAIN new
             /\ RowKey(new) = RowKey(row)
             /\ new.invoice = row.invoice
             /\ new.khSubmitted = row.khSubmitted
             /\ new.priznaniSubmitted = b
BY DEF FlaggedColumns, RegisterColumns, RowKey

LEMMA NewRowUnmarked ==
  ASSUME NEW id, NEW r, NEW amounts, NEW row \in RegisterRows(id, r, amounts)
  PROVE  /\ FlaggedColumns \subseteq DOMAIN row /\ row.invoice = id
         /\ row.khSubmitted = FALSE /\ row.priznaniSubmitted = FALSE
<1>1. PICK rate : row = RegisterRow(id, r, amounts, rate, LinesAt(r, rate))
  BY DEF RegisterRows
<1>2. ASSUME NEW base, NEW tax, NEW section, NEW detail, NEW x,
             x = [invoice |-> id, rate |-> rate, base |-> base, tax |-> tax,
                  section |-> section, detail |-> detail,
                  khSubmitted |-> FALSE, priznaniSubmitted |-> FALSE]
      PROVE  /\ FlaggedColumns \subseteq DOMAIN x /\ x.invoice = id
             /\ x.khSubmitted = FALSE /\ x.priznaniSubmitted = FALSE
  BY <1>2 DEF FlaggedColumns, RegisterColumns
<1>3. QED
  BY <1>1, <1>2 DEF RegisterRow

-----------------------------------------------------------------------------
(* What a request about invoices, or no request, may do to the register. *)

\* Invoices keep their request and stay voided.
InvoicesKept ==
  \A i \in DOMAIN invoices :
    /\ i \in DOMAIN invoices'
    /\ invoices'[i].request = invoices[i].request
    /\ invoices'[i].rate = invoices[i].rate
    /\ invoices[i].status = "voided" => invoices'[i].status = "voided"

\* A row is that of a new invoice, or an old row that may have lost the flag of
\* the control statement because its invoice is voided.
Descends(new) ==
  \/ /\ new.invoice \notin DOMAIN invoices
     /\ new.khSubmitted = FALSE /\ new.priznaniSubmitted = FALSE
  \/ \E old \in vatRegister :
       /\ RowKey(new) = RowKey(old) /\ new.invoice = old.invoice
       /\ new.priznaniSubmitted = old.priznaniSubmitted
       /\ \/ new.khSubmitted = old.khSubmitted
          \/ new.khSubmitted = FALSE /\ invoices'[new.invoice].status = "voided"

RegisterKept == RowsLinked' /\ InvoicesKept /\ \A new \in vatRegister' : Descends(new)

LEMMA UnchangedKept ==
  ASSUME RowsLinked, UNCHANGED <<invoices, vatRegister>>
  PROVE  RegisterKept
BY DEF RowsLinked, RegisterKept, InvoicesKept, Descends

LEMMA PostInvoiceKept ==
  ASSUME InvoicesInv, RowsLinked, NEW r \in InvoiceRequests, NEW rate \in RatesFor(r.currency),
         PostInvoice(r, rate)
  PROVE  RegisterKept
<1> DEFINE n == Len(invoices) + 1
           x == [request |-> r, rate |-> rate, status |-> "posted",
                 entry |-> Len(entries) + 1, paid |-> FALSE]
           new == RegisterRows(n, r, Amounts(r, rate))
<1>1. invoices \in Seq(Invoice) /\ invoices' = Append(invoices, x)
  BY DEF RowsLinked, PostInvoice
<1>2. vatRegister' \in {vatRegister, vatRegister \cup new}
  BY DEF PostInvoice
<1>3. \A row \in new : /\ FlaggedColumns \subseteq DOMAIN row /\ row.invoice = n
                       /\ row.khSubmitted = FALSE /\ row.priznaniSubmitted = FALSE
  BY NewRowUnmarked
<1> HIDE DEF new
<1>4. x \in Invoice
  <2>1. entries \in Seq(Entry)
    BY DEF InvoicesInv, TypedAndConsistent, TypeOK
  <2>2. QED
    BY <2>1, RateType DEF Invoice
<1> HIDE DEF x
<1>5. /\ invoices' \in Seq(Invoice)
      /\ DOMAIN invoices' = 1 .. n /\ DOMAIN invoices = 1 .. n - 1 /\ n \in Nat \ {0}
      /\ \A i \in DOMAIN invoices : i \in DOMAIN invoices' /\ invoices'[i] = invoices[i]
  BY <1>1, <1>4
<1> HIDE DEF n
<1>6. n \in DOMAIN invoices' /\ n \notin DOMAIN invoices
  BY <1>5
<1>7. RowsLinked'
  BY <1>2, <1>3, <1>5, <1>6 DEF RowsLinked
<1>8. InvoicesKept
  BY <1>5 DEF InvoicesKept
<1>9. \A row \in vatRegister' : Descends(row)
  BY <1>2, <1>3, <1>6 DEF Descends
<1>10. QED
  BY <1>7, <1>8, <1>9 DEF RegisterKept


LEMMA VoidInvoiceKept ==
  ASSUME RowsLinked, NEW i \in DOMAIN invoices, NEW p \in Periods, VoidInvoice(i, p)
  PROVE  RegisterKept
<1> DEFINE Kept(row) == IF row.invoice = i THEN [row EXCEPT !.khSubmitted = FALSE] ELSE row
<1>1. invoices \in Seq(Invoice) /\ invoices' = [invoices EXCEPT ![i].status = "voided"]
  BY DEF RowsLinked, VoidInvoice
<1>2. \A j \in DOMAIN invoices : invoices[j] \in Invoice
  BY <1>1
<1>3. /\ invoices' \in Seq(Invoice) /\ DOMAIN invoices' = DOMAIN invoices
      /\ invoices'[i].status = "voided"
      /\ \A j \in DOMAIN invoices :
           /\ invoices'[j].request = invoices[j].request
           /\ invoices'[j].rate = invoices[j].rate
           /\ j # i => invoices'[j] = invoices[j]
  <2>1. [invoices[i] EXCEPT !.status = "voided"] \in Invoice
    BY <1>2 DEF Invoice
  <2>2. QED
    BY <1>1, <1>2, <2>1 DEF Invoice
<1>4. vatRegister' = {Kept(row) : row \in vatRegister}
  BY DEF VoidInvoice
<1>5. ASSUME NEW row \in vatRegister
      PROVE  /\ FlaggedColumns \subseteq DOMAIN Kept(row)
             /\ RowKey(Kept(row)) = RowKey(row) /\ Kept(row).invoice = row.invoice
             /\ Kept(row).priznaniSubmitted = row.priznaniSubmitted
             /\ \/ Kept(row).khSubmitted = row.khSubmitted
                \/ Kept(row).khSubmitted = FALSE /\ row.invoice = i
  <2>1. FlaggedColumns \subseteq DOMAIN row
    BY DEF RowsLinked
  <2>2. CASE row.invoice = i
    BY <2>1, <2>2, KhFlagSet
  <2>3. CASE row.invoice # i
    BY <2>1, <2>3
  <2>4. QED
    BY <2>2, <2>3
<1> HIDE DEF Kept
<1>6. RowsLinked'
  <2>1. \A row \in vatRegister' : /\ FlaggedColumns \subseteq DOMAIN row
                                  /\ row.invoice \in DOMAIN invoices
    BY <1>4, <1>5 DEF RowsLinked
  <2>2. QED
    BY <1>3, <2>1 DEF RowsLinked
<1>7. InvoicesKept
  <2>1. \A j \in DOMAIN invoices : invoices[j].status = "voided" => invoices'[j].status = "voided"
    BY <1>3
  <2>2. QED
    BY <1>3, <2>1 DEF InvoicesKept
<1>8. ASSUME NEW row \in vatRegister
      PROVE  Descends(Kept(row))
  <2>1. row.invoice = i => invoices'[Kept(row).invoice].status = "voided"
    BY <1>3, <1>5
  <2>2. QED
    BY <1>5, <2>1 DEF Descends
<1>9. \A row \in vatRegister' : Descends(row)
  BY <1>4, <1>8
<1>10. QED
  BY <1>6, <1>7, <1>9 DEF RegisterKept

LEMMA RequestKeepsRegister ==
  ASSUME InvoicesInv, RowsLinked, LedgerRequest \/ InvoiceRequested
  PROVE  RegisterKept
<1>1. CASE UNCHANGED <<invoices, vatRegister>>
  BY <1>1, UnchangedKept
<1>2. ASSUME NEW r \in InvoiceRequests, NEW rate \in RatesFor(r.currency),
             PostInvoice(r, rate)
      PROVE  RegisterKept
  BY <1>2, PostInvoiceKept
<1>3. ASSUME NEW i \in DOMAIN invoices, NEW p \in Periods, VoidInvoice(i, p)
      PROVE  RegisterKept
  BY <1>3, VoidInvoiceKept
<1>4. QED
  BY <1>1, <1>2, <1>3 DEF InvoiceRequested, LedgerRequest, ResolveAlert, invoiceVars

-----------------------------------------------------------------------------
(* Steps that record nothing. *)

LEMMA ReadForKept ==
  ASSUME InvoicesKept, NEW rows, NEW label, ReadFor(rows, label)
  PROVE  ReadFor(rows, label)'
BY DEF InvoicesKept, ReadFor

\* There are not fewer invoices.
LEMMA InvoicesGrow ==
  ASSUME RowsLinked, RowsLinked', InvoicesKept
  PROVE  Len(invoices) \in Nat /\ Len(invoices') \in Nat /\ Len(invoices) <= Len(invoices')
<1>1. /\ invoices \in Seq(Invoice) /\ invoices' \in Seq(Invoice)
      /\ \A i \in DOMAIN invoices : i \in DOMAIN invoices'
  BY DEF RowsLinked, InvoicesKept
<1>2. CASE Len(invoices) = 0
  BY <1>1, <1>2
<1>3. CASE Len(invoices) # 0
  <2>1. Len(invoices) \in DOMAIN invoices
    BY <1>1, <1>3
  <2>2. QED
    BY <1>1, <2>1
<1>4. QED
  BY <1>2, <1>3

\* A row that is added is one of a new invoice.
LEMMA CoversKept ==
  ASSUME RowsLinked, RegisterKept, NEW rows, NEW label, NEW upto, Covers(rows, label, upto)
  PROVE  Covers(rows, label, upto)'
<1>1. invoices \in Seq(Invoice) /\ invoices' \in Seq(Invoice)
  BY DEF RowsLinked, RegisterKept
<1>2. Len(invoices) <= Len(invoices')
  BY InvoicesGrow DEF RegisterKept
<1>3. upto \in 0 .. Len(invoices')
  BY <1>1, <1>2 DEF Covers
<1>4. ASSUME NEW new \in vatRegister', (RequestOf(new).vatPeriod)' = label
      PROVE  RowKey(new) \in rows \/ new.invoice > upto
  <2>1. new.invoice \in DOMAIN invoices'
    BY DEF RegisterKept, RowsLinked
  <2>2. CASE new.invoice \notin DOMAIN invoices
    <3>1. new.invoice \in Nat /\ new.invoice > Len(invoices)
      BY <1>1, <2>1, <2>2
    <3>2. QED
      BY <1>1, <3>1 DEF Covers
  <2>3. CASE new.invoice \in DOMAIN invoices
    <3>1. PICK old \in vatRegister : RowKey(new) = RowKey(old) /\ new.invoice = old.invoice
      BY <2>3 DEF RegisterKept, Descends
    <3>2. RequestOf(old).vatPeriod = label
      BY <1>4, <2>3, <3>1 DEF RequestOf, RegisterKept, InvoicesKept
    <3>3. QED
      BY <3>1, <3>2 DEF Covers
  <2>4. QED
    BY <2>2, <2>3
<1>5. QED
  BY <1>3, <1>4 DEF Covers

LEMMA FlagsKept ==
  ASSUME FilingInv, RegisterKept, UNCHANGED filings
  PROVE  FiledRowsStayMarked' /\ MarkedOnlyWhenFiled'
<1>1. ASSUME NEW f \in filings, f.kind \in Returns, NEW new \in vatRegister',
             KnownRows({new})' \subseteq f.rows
      PROVE  \/ SubmittedFlag(f.kind, new)
             \/ f.kind = "KONTROLNI_HLASENI" /\ invoices'[new.invoice].status = "voided"
  <2>1. RowKey(new) \in f.rows
    <3>1. KnownRows({new})' = {RowKey(new)}
      BY <1>1 DEF RegisterKept, RowsLinked, KnownRows, RowKey
    <3>2. QED
      BY <1>1, <3>1
  <2>2. new.invoice \in DOMAIN invoices
    BY <1>1, <2>1, KeyOfRow DEF FilingInv, ReadFor
  <2>3. PICK old \in vatRegister :
          /\ RowKey(new) = RowKey(old) /\ new.invoice = old.invoice
          /\ new.priznaniSubmitted = old.priznaniSubmitted
          /\ \/ new.khSubmitted = old.khSubmitted
             \/ new.khSubmitted = FALSE /\ invoices'[new.invoice].status = "voided"
    BY <2>2 DEF RegisterKept, Descends
  <2>4. KnownRows({old}) \subseteq f.rows
    BY <2>1, <2>3, KnownRow DEF FilingInv
  <2>5. \/ SubmittedFlag(f.kind, old)
        \/ f.kind = "KONTROLNI_HLASENI" /\ invoices[old.invoice].status = "voided"
    BY <1>1, <2>4 DEF FilingInv, FiledRowsStayMarked
  <2>6. invoices[old.invoice].status = "voided" => invoices'[new.invoice].status = "voided"
    BY <2>2, <2>3 DEF RegisterKept, InvoicesKept
  <2>7. f.kind = "DPH_PRIZNANI" \/ f.kind = "KONTROLNI_HLASENI"
    BY <1>1 DEF Returns
  <2>8. QED
    BY <2>3, <2>5, <2>6, <2>7 DEF SubmittedFlag
<1>2. ASSUME NEW kind \in Returns, NEW new \in vatRegister', SubmittedFlag(kind, new)
      PROVE  \E f \in filings : /\ f.kind = kind /\ f.label = (RequestOf(new).vatPeriod)'
                                /\ KnownRows({new})' \subseteq f.rows \/ new.invoice > f.upto
  <2>1. PICK old \in vatRegister :
          /\ RowKey(new) = RowKey(old) /\ new.invoice = old.invoice
          /\ new.priznaniSubmitted = old.priznaniSubmitted
          /\ new.khSubmitted = old.khSubmitted \/ new.khSubmitted = FALSE
    BY <1>2 DEF RegisterKept, Descends, SubmittedFlag, Returns
  <2>2. SubmittedFlag(kind, old)
    BY <1>2, <2>1 DEF SubmittedFlag, Returns
  <2>3. (RequestOf(new))' = RequestOf(old)
    BY <2>1 DEF FilingInv, RowsLinked, RegisterKept, InvoicesKept, RequestOf
  <2>4. KnownRows({new})' = KnownRows({old})
    <3>1. KnownRows({new})' = {RowKey(new)}
      BY <1>2 DEF RegisterKept, RowsLinked, KnownRows, RowKey
    <3>2. KnownRows({old}) = {RowKey(old)}
      BY KnownRow DEF FilingInv
    <3>3. QED
      BY <2>1, <3>1, <3>2
  <2>5. PICK f \in filings : /\ f.kind = kind /\ f.label = RequestOf(old).vatPeriod
                             /\ KnownRows({old}) \subseteq f.rows \/ old.invoice > f.upto
    BY <1>2, <2>2 DEF FilingInv, MarkedOnlyWhenFiled
  <2>6. QED
    BY <2>1, <2>3, <2>4, <2>5
<1>3. FiledRowsStayMarked'
  BY <1>1 DEF FiledRowsStayMarked
<1>4. MarkedOnlyWhenFiled'
  BY <1>2 DEF MarkedOnlyWhenFiled
<1>5. QED
  BY <1>3, <1>4

-----------------------------------------------------------------------------
(* Recording a return. *)

MarkedRow(kind, label, row) ==
  IF kind \notin Returns \/ RequestOf(row).vatPeriod # label THEN row
  ELSE IF kind = "DPH_PRIZNANI" THEN [row EXCEPT !.priznaniSubmitted = TRUE]
  ELSE [row EXCEPT !.khSubmitted = TRUE]

\* Marking adds the flag of one return to the rows of one month.
LEMMA MarkedRowKeeps ==
  ASSUME RowsLinked, NEW kind, NEW label, NEW row \in vatRegister
  PROVE  LET new == MarkedRow(kind, label, row)
         IN  /\ FlaggedColumns \subseteq DOMAIN new
             /\ RowKey(new) = RowKey(row) /\ new.invoice = row.invoice
             /\ \A k \in Returns :
                  IF k = kind /\ RequestOf(row).vatPeriod = label
                  THEN SubmittedFlag(k, new)
                  ELSE SubmittedFlag(k, new) <=> SubmittedFlag(k, row)
<1>1. FlaggedColumns \subseteq DOMAIN row
  BY DEF RowsLinked
<1>2. CASE kind \notin Returns \/ RequestOf(row).vatPeriod # label
  BY <1>1, <1>2 DEF MarkedRow
<1>3. CASE kind = "DPH_PRIZNANI" /\ RequestOf(row).vatPeriod = label
  BY <1>1, <1>3, PriznaniFlagSet DEF MarkedRow, SubmittedFlag, Returns
<1>4. CASE kind = "KONTROLNI_HLASENI" /\ RequestOf(row).vatPeriod = label
  BY <1>1, <1>4, KhFlagSet DEF MarkedRow, SubmittedFlag, Returns
<1>5. QED
  BY <1>2, <1>3, <1>4 DEF Returns

\* What a clerk does leaves the jobs of the others alone.
LEMMA JobSet ==
  ASSUME DOMAIN job = Clerks, NEW c \in Clerks, NEW x, job' = [job EXCEPT ![c] = x]
  PROVE  /\ (DOMAIN job = Clerks)'
         /\ job'[c] = x
         /\ \A d \in Clerks \ {c} : job'[d] = job[d]
OBVIOUS

LEMMA RecordKeeps ==
  ASSUME FilingInv, NEW c \in Clerks, RecordFiling(c)
  PROVE  FilingInv'
<1> DEFINE j == job[c]
           f0 == RecordOf(j)
           Mark(row) == MarkedRow(j.kind, j.label, row)
<1>1. /\ j.phase = "written"
      /\ filings' = filings \cup {f0}
      /\ invoices' = invoices
      /\ job' = [job EXCEPT ![c] = Idle]
  BY DEF RecordFiling
<1>2. f0.kind = j.kind /\ f0.label = j.label /\ f0.rows = j.rows /\ f0.upto = j.upto
  BY DEF RecordOf
<1>3. vatRegister' = {Mark(row) : row \in vatRegister}
  BY DEF RecordFiling, Marked, MarkedRow
<1>4. j.kind \in Returns => Read(j)
  BY <1>1 DEF FilingInv, HasReturn
<1>5. ASSUME NEW row \in vatRegister
      PROVE  /\ FlaggedColumns \subseteq DOMAIN Mark(row)
             /\ RowKey(Mark(row)) = RowKey(row) /\ Mark(row).invoice = row.invoice
             /\ \A k \in Returns :
                  IF k = j.kind /\ RequestOf(row).vatPeriod = j.label
                  THEN SubmittedFlag(k, Mark(row))
                  ELSE SubmittedFlag(k, Mark(row)) <=> SubmittedFlag(k, row)
  <2>1. RowsLinked
    BY DEF FilingInv
  <2>2. QED
    BY <2>1, MarkedRowKeeps
<1>6. /\ (DOMAIN job = Clerks)'
      /\ \A d \in Clerks : (HasReturn(d) => Read(job[d]))'
  <2>1. (DOMAIN job = Clerks)' /\ job'[c] = Idle /\ \A d \in Clerks \ {c} : job'[d] = job[d]
    <3>1. DOMAIN job = Clerks
      BY DEF FilingInv
    <3>2. QED
      BY <1>1, <3>1, JobSet
  <2>2. ASSUME NEW d \in Clerks, HasReturn(d)'
        PROVE  d # c
    BY <2>1, <2>2 DEF HasReturn, Idle
  <2>3. \A d \in Clerks \ {c} : HasReturn(d) => Read(job[d])
    BY DEF FilingInv
  <2>4. ASSUME NEW x, Read(x) PROVE Read(x)'
    <3>1. ReadFor(x.rows, x.label)'
      BY <1>1, <2>4 DEF Read, ReadFor
    <3>2. \A row \in vatRegister :
            RequestOf(row).vatPeriod = x.label => RowKey(row) \in x.rows \/ row.invoice > x.upto
      BY <2>4 DEF Read, Covers
    <3>3. ASSUME NEW new \in vatRegister', (RequestOf(new).vatPeriod)' = x.label
          PROVE  RowKey(new) \in x.rows \/ new.invoice > x.upto
      <4>1. PICK row \in vatRegister : new = Mark(row)
        BY <1>3, <3>3
      <4>2. RowKey(new) = RowKey(row) /\ new.invoice = row.invoice
        BY <1>5, <4>1
      <4>3. RequestOf(row).vatPeriod = x.label
        BY <1>1, <3>3, <4>2 DEF RequestOf
      <4>4. QED
        BY <3>2, <4>2, <4>3
    <3>4. x.upto \in 0 .. Len(invoices')
      BY <1>1, <2>4 DEF Read, Covers
    <3>5. QED
      BY <3>1, <3>3, <3>4 DEF Read, Covers
  <2>5. QED
    BY <2>1, <2>2, <2>3, <2>4 DEF HasReturn
<1> HIDE DEF f0, j, Mark
<1>7. RowsLinked'
  <2>1. ASSUME NEW new \in vatRegister'
        PROVE  FlaggedColumns \subseteq DOMAIN new /\ new.invoice \in DOMAIN invoices
    BY <1>3, <1>5, <2>1 DEF FilingInv, RowsLinked
  <2>2. QED
    BY <1>1, <2>1 DEF FilingInv, RowsLinked
<1>8. \A f \in filings' : f.kind \in Returns => ReadFor(f.rows, f.label)'
  BY <1>1, <1>2, <1>4 DEF FilingInv, Read, ReadFor
<1>9. ASSUME NEW f \in filings', f.kind \in Returns, NEW new \in vatRegister',
             KnownRows({new})' \subseteq f.rows
      PROVE  \/ SubmittedFlag(f.kind, new)
             \/ f.kind = "KONTROLNI_HLASENI" /\ invoices'[new.invoice].status = "voided"
  <2>1. PICK row \in vatRegister : new = Mark(row)
    BY <1>3, <1>9
  <2>2. RowKey(new) = RowKey(row) /\ new.invoice = row.invoice
    BY <1>5, <2>1
  <2>3. RowKey(row) \in f.rows
    <3>1. KnownRows({new})' = {RowKey(new)}
      BY <1>7, <1>9 DEF RowsLinked, KnownRows, RowKey
    <3>2. QED
      BY <1>9, <2>2, <3>1
  <2>4. CASE f = f0
    <3>1. RequestOf(row).vatPeriod = j.label
      BY <1>2, <1>4, <1>9, <2>3, <2>4, KeyOfRow DEF Read, ReadFor, RequestOf
    <3>2. QED
      BY <1>2, <1>5, <1>9, <2>1, <2>4, <3>1
  <2>5. CASE f \in filings
    <3>1. KnownRows({row}) \subseteq f.rows
      BY <2>3, KnownRow DEF FilingInv
    <3>2. \/ SubmittedFlag(f.kind, row)
          \/ f.kind = "KONTROLNI_HLASENI" /\ invoices[row.invoice].status = "voided"
      BY <1>9, <2>5, <3>1 DEF FilingInv, FiledRowsStayMarked
    <3>3. SubmittedFlag(f.kind, row) => SubmittedFlag(f.kind, new)
      BY <1>5, <1>9, <2>1
    <3>4. QED
      BY <1>1, <2>2, <3>2, <3>3
  <2>6. QED
    BY <1>1, <2>4, <2>5
<1>10. ASSUME NEW kind \in Returns, NEW new \in vatRegister', SubmittedFlag(kind, new)
       PROVE  \E f \in filings' : /\ f.kind = kind /\ f.label = (RequestOf(new).vatPeriod)'
                                  /\ KnownRows({new})' \subseteq f.rows \/ new.invoice > f.upto
  <2>1. PICK row \in vatRegister : new = Mark(row)
    BY <1>3, <1>10
  <2>2. RowKey(new) = RowKey(row) /\ new.invoice = row.invoice
    BY <1>5, <2>1
  <2>3. (RequestOf(new).vatPeriod)' = RequestOf(row).vatPeriod
    BY <1>1, <2>2 DEF RequestOf
  <2>4. KnownRows({new})' = {RowKey(row)} /\ KnownRows({row}) = {RowKey(row)}
    <3>1. KnownRows({new})' = {RowKey(new)}
      BY <1>7, <1>10 DEF RowsLinked, KnownRows, RowKey
    <3>2. QED
      BY <2>2, <3>1, KnownRow DEF FilingInv
  <2>5. CASE kind = j.kind /\ RequestOf(row).vatPeriod = j.label
    <3>1. RowKey(row) \in j.rows \/ row.invoice > j.upto
      BY <1>4, <1>10, <2>5 DEF Read, Covers
    <3>2. QED
      BY <1>1, <1>2, <2>2, <2>3, <2>4, <2>5, <3>1
  <2>6. CASE ~(kind = j.kind /\ RequestOf(row).vatPeriod = j.label)
    <3>1. SubmittedFlag(kind, row)
      BY <1>5, <1>10, <2>1, <2>6
    <3>2. PICK f \in filings : /\ f.kind = kind /\ f.label = RequestOf(row).vatPeriod
                               /\ KnownRows({row}) \subseteq f.rows \/ row.invoice > f.upto
      BY <1>10, <3>1 DEF FilingInv, MarkedOnlyWhenFiled
    <3>3. QED
      BY <1>1, <2>2, <2>3, <2>4, <3>2
  <2>7. QED
    BY <2>5, <2>6
<1>11. FiledRowsStayMarked'
  BY <1>9 DEF FiledRowsStayMarked
<1>12. MarkedOnlyWhenFiled'
  BY <1>10 DEF MarkedOnlyWhenFiled
<1>13. QED
  BY <1>6, <1>7, <1>8, <1>11, <1>12 DEF FilingInv

-----------------------------------------------------------------------------
(* The other steps. *)

\* A step that records nothing, keeps the register and reads, if at all, rows
\* of one month.
LEMMA QuietKeeps ==
  ASSUME FilingInv, RegisterKept, UNCHANGED filings, (DOMAIN job = Clerks)',
         \A d \in Clerks : job'[d] = job[d] \/ (HasReturn(d)' => Read(job'[d]))
  PROVE  FilingInv'
<1>1. InvoicesKept /\ RowsLinked' /\ RowsLinked
  BY DEF FilingInv, RegisterKept
<1>2. ASSUME NEW d \in Clerks, HasReturn(d)'
      PROVE  Read(job[d])'
  <2>1. HasReturn(d) /\ job'[d] = job[d] => Read(job'[d])
    BY DEF FilingInv
  <2>2. Read(job'[d])
    BY <1>2, <2>1 DEF HasReturn
  <2>3. PICK x : x = job'[d]
    OBVIOUS
  <2>4. ReadFor(x.rows, x.label)' /\ Covers(x.rows, x.label, x.upto)'
    BY <1>1, <2>2, <2>3, ReadForKept, CoversKept DEF Read
  <2>5. QED
    BY <2>3, <2>4 DEF Read, ReadFor, Covers
<1>3. ASSUME NEW f \in filings', f.kind \in Returns
      PROVE  ReadFor(f.rows, f.label)'
  <2>1. ReadFor(f.rows, f.label)
    BY <1>3 DEF FilingInv
  <2>2. QED
    BY <1>1, <2>1 DEF InvoicesKept, ReadFor
<1>4. QED
  BY <1>1, <1>2, <1>3, FlagsKept DEF FilingInv

\* The rows of a month are rows of its invoices, and there are no others yet.
LEMMA PeriodRowsRead ==
  ASSUME RowsLinked, NEW vp
  PROVE  /\ ReadFor(KnownRows(PeriodRows(vp)), vp)
         /\ Covers(KnownRows(PeriodRows(vp)), vp, Len(invoices))
<1>1. ReadFor(KnownRows(PeriodRows(vp)), vp)
  BY DEF RowsLinked, ReadFor, KnownRows, PeriodRows, RequestOf
<1>2. \A row \in vatRegister :
        RequestOf(row).vatPeriod = vp => RowKey(row) \in KnownRows(PeriodRows(vp))
  BY DEF RowsLinked, KnownRows, PeriodRows, RowKey
<1>3. Len(invoices) \in 0 .. Len(invoices)
  BY DEF RowsLinked
<1>4. QED
  BY <1>1, <1>2, <1>3 DEF Covers

\* A generation that has listed one section more.
WithSection(j) == Reading(j.kind, j.label, Append(j.listed, NextDetail(j)), j.since)

LEMMA GenerationKeeps ==
  ASSUME FilingInv, NEW c \in Clerks, Generation(c)
  PROVE  FilingInv'
<1>1. RowsLinked /\ DOMAIN job = Clerks
  BY DEF FilingInv
<1>2. ASSUME NEW x, job' = [job EXCEPT ![c] = x], UNCHANGED <<allInvoiceVars, filings>>,
             x.phase = "written" /\ x.kind \in Returns => Read(x)
      PROVE  FilingInv'
  <2>1. RegisterKept /\ UNCHANGED filings
    BY <1>1, <1>2, UnchangedKept DEF allInvoiceVars, invoiceVars
  <2>2. (DOMAIN job = Clerks)' /\ job'[c] = x /\ \A d \in Clerks \ {c} : job'[d] = job[d]
    BY <1>1, <1>2, JobSet
  <2>3. \A d \in Clerks : job'[d] = job[d] \/ (HasReturn(d)' => Read(job'[d]))
    BY <1>2, <2>2 DEF HasReturn
  <2>4. QED
    BY <2>1, <2>2, <2>3, QuietKeeps
<1>3. ASSUME NEW x, job' = [job EXCEPT ![c] = x], UNCHANGED <<allInvoiceVars, filings>>,
             x.phase \in {"idle", "checking", "reading"}
      PROVE  FilingInv'
  BY <1>2, <1>3
<1>4. ASSUME NEW kind, NEW label, BeginFiling(c, kind, label)
      PROVE  FilingInv'
  <2> DEFINE x == IF kind \in Returns THEN Checking(kind, label) ELSE Begun(kind, label)
  <2>1. job' = [job EXCEPT ![c] = x] /\ UNCHANGED <<allInvoiceVars, filings>>
    BY <1>4 DEF BeginFiling
  <2>2. x.phase \in {"idle", "checking", "reading"}
    BY DEF Checking, Begun, Reading
  <2> HIDE DEF x
  <2>3. QED
    BY <1>3, <2>1, <2>2
<1>5. CASE CheckBalanceSheet(c)
  <2> DEFINE x == IF Balances(job[c].assets, YearOf[job[c].label])
                  THEN Begun(job[c].kind, job[c].label) ELSE Idle
  <2>1. job' = [job EXCEPT ![c] = x] /\ UNCHANGED <<allInvoiceVars, filings>>
    BY <1>5 DEF CheckBalanceSheet
  <2>2. x.phase \in {"idle", "checking", "reading"}
    BY DEF Begun, Reading, Idle
  <2> HIDE DEF x
  <2>3. QED
    BY <1>3, <2>1, <2>2
<1>6. CASE ListSection(c)
  <2> DEFINE x == WithSection(job[c])
  <2>1. job' = [job EXCEPT ![c] = x] /\ UNCHANGED <<allInvoiceVars, filings>>
    BY <1>6 DEF ListSection, WithSection
  <2>2. x.phase \in {"idle", "checking", "reading"}
    BY DEF WithSection, Reading
  <2> HIDE DEF x
  <2>3. QED
    BY <1>3, <2>1, <2>2
<1>7. CASE WriteFile(c)
  <2> DEFINE j == job[c]
             x == Written(j)
             known == KnownRows(PeriodRows(j.label))
  <2>1. job' = [job EXCEPT ![c] = x] /\ UNCHANGED <<allInvoiceVars, filings>>
    BY <1>7 DEF WriteFile
  <2>2. /\ x.kind = j.kind /\ x.label = j.label /\ x.upto = Len(invoices)
        /\ x.kind \in Returns => x.rows = known
    BY DEF Written
  <2>3. ReadFor(known, j.label) /\ Covers(known, j.label, Len(invoices))
    BY <1>1, PeriodRowsRead
  <2> HIDE DEF x, known, j
  <2>4. x.kind \in Returns => Read(x)
    BY <2>2, <2>3 DEF Read
  <2>5. QED
    BY <1>2, <2>1, <2>4
<1>8. CASE RecordFiling(c)
  BY <1>8, RecordKeeps
<1>9. CASE AbandonFiling(c)
  <2>1. job' = [job EXCEPT ![c] = Idle] /\ UNCHANGED <<allInvoiceVars, filings>>
    BY <1>9 DEF AbandonFiling
  <2>2. Idle.phase \in {"idle", "checking", "reading"}
    BY DEF Idle
  <2>3. QED
    BY <1>3, <2>1, <2>2
<1>10. QED
  BY <1>4, <1>5, <1>6, <1>7, <1>8, <1>9 DEF Generation

\* A step that leaves the clerks and the record alone and keeps the register.
LEMMA RegisterStepKeeps ==
  ASSUME FilingInv, RegisterKept, UNCHANGED filingVars
  PROVE  FilingInv'
<1>1. UNCHANGED filings /\ (DOMAIN job = Clerks)' /\ \A d \in Clerks : job'[d] = job[d]
  BY DEF FilingInv, filingVars
<1>2. QED
  BY <1>1, QuietKeeps

\* For the invoices, a step is a request or nothing.
LEMMA FilingStepIsInvoicesStep ==
  ASSUME [FilingNext]_allFilingVars
  PROVE  \/ InvoicesNext /\ UNCHANGED filingVars
         \/ UNCHANGED <<vars, invoices>>
BY DEF FilingNext, Generation, BeginFiling, CheckBalanceSheet, ListSection, WriteFile,
       RecordFiling, AbandonFiling, ScanPeriod, InvoicesNext, allFilingVars, allInvoiceVars,
       invoiceVars

\* What Invoices says of the ledger and the invoices does not mention the
\* register, which recording a return changes.
LEMMA InvoicesInvKept == InvoicesInv /\ [FilingNext]_allFilingVars => InvoicesInv'
<1> SUFFICES ASSUME InvoicesInv, [FilingNext]_allFilingVars PROVE InvoicesInv'
  OBVIOUS
<1>1. CASE InvoicesNext
  BY <1>1, InvoicesInvStep
<1>2. CASE UNCHANGED <<vars, invoices>>
  <2>1. TypedAndConsistent /\ InvoicesLinked /\ [Next]_vars /\ UNCHANGED invoices
    BY <1>2 DEF InvoicesInv
  <2>2. TypedAndConsistent'
    BY <2>1, TypedStep
  <2>3. InvoicesLinked'
    BY <2>1, UnchangedInvoicesLinked
  <2>4. QED
    BY <2>2, <2>3 DEF InvoicesInv
<1>3. QED
  BY <1>1, <1>2, FilingStepIsInvoicesStep

LEMMA FilingInvInit == FilingInit => FilingInv
BY DEF FilingInit, InvoicesInit, FilingInv, RowsLinked, HasReturn, Idle, FiledRowsStayMarked,
       MarkedOnlyWhenFiled

LEMMA FilingInvStep == InvoicesInv /\ FilingInv /\ [FilingNext]_allFilingVars => FilingInv'
<1> SUFFICES ASSUME InvoicesInv, FilingInv, [FilingNext]_allFilingVars PROVE FilingInv'
  OBVIOUS
<1>1. RowsLinked
  BY DEF FilingInv
<1>2. ASSUME NEW c \in Clerks, Generation(c)
      PROVE  FilingInv'
  BY <1>2, GenerationKeeps
<1>3. CASE UNCHANGED <<invoices, vatRegister, filingVars>>
  BY <1>1, <1>3, UnchangedKept, RegisterStepKeeps
<1>4. CASE (LedgerRequest \/ InvoiceRequested) /\ UNCHANGED filingVars
  BY <1>1, <1>4, RequestKeepsRegister, RegisterStepKeeps
<1>5. QED
  BY <1>2, <1>3, <1>4
  DEF FilingNext, ScanPeriod, allFilingVars, allInvoiceVars, invoiceVars

LEMMA FilingInvariant == FilingSpec => [](InvoicesInv /\ FilingInv)
<1>1. FilingInit => InvoicesInv
  BY InvoicesInvInit DEF FilingInit
<1>2. QED
  BY <1>1, FilingInvInit, FilingInvStep, InvoicesInvKept, PTL DEF FilingSpec

-----------------------------------------------------------------------------
\* Whatever is posted or voided and whichever clerks generate meanwhile, a row
\* that went into a recorded return keeps its flag, unless its invoice is
\* voided and the return is the control statement (_mark_vat_submitted and
\* void_invoice).
THEOREM FiledStaysMarked == FilingSpec => []FiledRowsStayMarked
<1>1. FilingInv => FiledRowsStayMarked
  BY DEF FilingInv
<1>2. QED
  BY <1>1, FilingInvariant, PTL

\* A flag is set only on a row that went into a recorded return of its kind and
\* month, or that belongs to an invoice posted after the totals of that return
\* were read (the second SELECT of generate_dph_priznani marks it nevertheless).
THEOREM MarkedIsFiled == FilingSpec => []MarkedOnlyWhenFiled
<1>1. FilingInv => MarkedOnlyWhenFiled
  BY DEF FilingInv
<1>2. QED
  BY <1>1, FilingInvariant, PTL

\* The filing system implements the ledger: generating, recording and scanning
\* never touch the books, which therefore stay those of Ledger.
THEOREM FilingImplementsLedger == FilingSpec => Spec
<1>1. FilingInit => Init
  BY DEF FilingInit, InvoicesInit
<1>2. InvoicesInv /\ [FilingNext]_allFilingVars => [Next]_vars
  <2>1. InvoicesInv /\ InvoicesNext => [Next]_vars
    BY InvoicesStepIsLedgerStep DEF InvoicesInv, InvoicesLinked, TypedAndConsistent
  <2>2. QED
    BY <2>1, FilingStepIsInvoicesStep
<1>3. QED
  BY <1>1, <1>2, FilingInvariant, PTL DEF FilingSpec, Spec

-----------------------------------------------------------------------------
(* The tax of the rows, of the invoices and of the ledger. *)

InvoiceVat(i) == TotalVat(Amounts(invoices[i].request, invoices[i].rate))

\* The tax of the invoices ids, when the table of invoices is invs.
VatIn(invs, ids) == SumOf([i \in ids |-> TotalVat(Amounts(invs[i].request, invs[i].rate))], ids)
VatOfInvoices(ids) == VatIn(invoices, ids)

TaxOn(rows) == MapThenSumSet(LAMBDA row : row.tax, rows)

\* The ledger and the invoices are consistent and the register holds what was invoiced.
Stores == InvoicesInv /\ RegisterStored

\* What is stored of one invoice.
LEMMA InvoiceFacts ==
  ASSUME Stores, NEW i \in DOMAIN invoices
  PROVE  /\ invoices[i].request \in InvoiceRequests
         /\ invoices[i].rate \in Nat \ {0}
         /\ invoices[i].entry \in DOMAIN entries
         /\ EntryStored(invoices[i].entry, invoices[i].request, invoices[i].rate, lines)
         /\ InvoiceVat(i) \in Nat
<1>1. invoices[i] \in Invoice
  BY DEF Stores, InvoicesInv, InvoicesLinked
<1>2. /\ invoices[i].rate \in Nat \ {0} /\ invoices[i].entry \in DOMAIN entries
      /\ EntryStored(invoices[i].entry, invoices[i].request, invoices[i].rate, lines)
  BY DEF Stores, InvoicesInv, InvoicesLinked, Linked, RegisterStored, InvoiceStored
<1>3. invoices[i].request \in InvoiceRequests
  BY <1>1 DEF Invoice
<1> DEFINE r == invoices[i].request
           a == Amounts(r, invoices[i].rate)
           n == Len(r.lines)
<1>4. IsAmounts(a, n) /\ n \in Nat
  BY <1>2, <1>3, AmountsType, LinesOfRequest
<1>5. TotalVat(a) \in Nat
  <2> HIDE DEF a, n
  <2>1. QED
    BY <1>4, TotalsType
<1>6. QED
  BY <1>2, <1>3, <1>5 DEF InvoiceVat

\* The rows of an invoice hold its tax, those of rate 0 none.
LEMMA InvoiceRows ==
  ASSUME Stores, NEW i \in DOMAIN invoices
  PROVE  /\ IsFiniteSet(RowsOf(i))
         /\ RowsOf(i) # {} => TaxOn(RowsOf(i)) = InvoiceVat(i)
<1> DEFINE r == invoices[i].request
           a == Amounts(r, invoices[i].rate)
           mine == RowsOf(i)
<1>1. r \in InvoiceRequests /\ invoices[i].rate \in Nat \ {0}
  BY InvoiceFacts
<1>2. RowsStored(i, r, a, vatRegister)
  BY DEF Stores, RegisterStored, InvoiceStored
<1>3. mine = {row \in vatRegister : row.invoice = i}
  BY DEF RowsOf
<1>4. CASE r.type = "PROFORMA"
  <2>1. mine = {}
    BY <1>2, <1>3, <1>4 DEF RowsStored
  <2>2. QED
    BY <2>1, FS_EmptySet
<1>5. CASE r.type # "PROFORMA"
  <2>1. RowPerRate(mine, RatesOf(r)) /\ \A row \in mine : Agrees(row, RowFor(i, r, a, row.rate))
    BY <1>2, <1>3, <1>5 DEF RowsStored
  <2>2. IsAmounts(a, Len(r.lines))
    BY <1>1, AmountsType
  <2>3. InvoiceVat(i) = TotalVat(a)
    BY DEF InvoiceVat
  <2> HIDE DEF r, a, mine
  <2>4. MapThenSumSet(LAMBDA row : row.tax, mine) = TotalVat(a) /\ IsFiniteSet(mine)
    BY <1>1, <2>1, <2>2, RowSums
  <2>5. TaxOn(mine) = TotalVat(a)
    BY <2>4 DEF TaxOn
  <2>6. QED
    BY <2>3, <2>4, <2>5 DEF mine
<1>6. QED
  BY <1>4, <1>5

\* There are finitely many invoices and rows.
LEMMA RegisterFinite ==
  ASSUME Stores
  PROVE  IsFiniteSet(vatRegister) /\ IsFiniteSet(DOMAIN invoices)
<1> DEFINE I == DOMAIN invoices
           part == [i \in I |-> RowsOf(i)]
<1>1. IsFiniteSet(I)
  <2>1. invoices \in Seq(Invoice)
    BY DEF Stores, InvoicesInv, InvoicesLinked
  <2>2. I = 1 .. Len(invoices) /\ Len(invoices) \in Nat
    BY <2>1
  <2> HIDE DEF I
  <2>3. QED
    BY <2>2, FS_Interval
<1>2. \A i \in I : IsFiniteSet(part[i])
  BY InvoiceRows
<1>3. vatRegister = UNION {part[i] : i \in I}
  <2>1. \A row \in vatRegister : row.invoice \in I
    BY DEF Stores, RegisterStored, RowsTyped
  <2>2. QED
    BY <2>1 DEF RowsOf
<1>4. IsFiniteSet(UNION {part[i] : i \in I})
  <2> HIDE DEF I, part
  <2>1. QED
    BY <1>1, <1>2, FiniteParts
<1>5. QED
  BY <1>1, <1>3, <1>4

\* A row of rate 0 has no tax.
LEMMA UntaxedRows ==
  ASSUME Stores, NEW row \in vatRegister, row.rate = 0
  PROVE  row.tax = 0
<1> DEFINE i == row.invoice
           r == invoices[i].request
           rate == invoices[i].rate
           a == Amounts(r, rate)
           at == LinesAt(r, 0)
           vat == VatOf(a)
<1>1. i \in DOMAIN invoices
  BY DEF Stores, RegisterStored, RowsTyped
<1>2. r \in InvoiceRequests /\ rate \in Nat \ {0}
  BY <1>1, InvoiceFacts
<1>3. RowsStored(i, r, a, vatRegister)
  BY <1>1 DEF Stores, RegisterStored, InvoiceStored
<1>4. Agrees(row, RowFor(i, r, a, 0))
  <2>1. row \in {x \in vatRegister : x.invoice = i}
    OBVIOUS
  <2> HIDE DEF i, r, a
  <2>2. QED
    BY <1>3, <2>1 DEF RowsStored
<1>5. row.tax = MapThenSumSet(LAMBDA k : a[k].vat, at)
  BY <1>4 DEF Agrees, RegisterColumns, RowFor, RegisterRow
<1>6. /\ IsAmounts(a, Len(r.lines)) /\ Len(r.lines) \in Nat /\ DOMAIN r.lines = 1 .. Len(r.lines)
      /\ \A k \in 1 .. Len(r.lines) : r.lines[k].rate = 0 => a[k].vat = 0
  BY <1>2, AmountsType, LinesOfRequest
<1>7. at \in SUBSET (1 .. Len(r.lines)) /\ \A k \in at : vat[k] = 0
  BY <1>6 DEF LinesAt, VatOf, IsAmounts
<1> HIDE DEF a, at, r
<1>8. MapThenSumSet(LAMBDA k : a[k].vat, at) = SumOf(vat, at) /\ IsFiniteSet(at)
  BY <1>6, <1>7, ColumnsOfAmounts
<1> HIDE DEF vat
<1>9. SumOf(vat, at) = 0
  BY <1>7, <1>8, SumZero
<1>10. QED
  BY <1>5, <1>8, <1>9

TaxColumn == [row \in vatRegister |-> row.tax]

\* The tax on any rows of the register is a sum of integers.
LEMMA TaxOnSum ==
  ASSUME Stores, NEW rows \in SUBSET vatRegister
  PROVE  /\ TaxOn(rows) = SumOf(TaxColumn, rows)
         /\ IsFiniteSet(rows) /\ IntValued(TaxColumn, rows)
         /\ SumOf(TaxColumn, rows) \in Int
<1> DEFINE f == [row \in rows |-> row.tax]
<1>1. IsFiniteSet(rows)
  BY RegisterFinite, FS_Subset
<1>2. \A row \in rows : f[row] = TaxColumn[row] /\ f[row] \in Int
  BY RowsHaveTypes DEF TaxColumn, Stores
<1>3. IntValued(TaxColumn, rows)
  BY <1>2 DEF IntValued
<1>4. TaxOn(rows) = SumOf(f, rows)
  BY TaxSum DEF TaxOn
<1> HIDE DEF f
<1>5. SumOf(f, rows) = SumOf(TaxColumn, rows)
  BY <1>1, <1>2, <1>3, SumCongruent
<1>6. SumOf(TaxColumn, rows) \in Int
  BY <1>1, <1>3, SumType
<1>7. QED
  BY <1>1, <1>3, <1>4, <1>5, <1>6

\* The returns leave out the rows of rate 0, and may add up the others by rate.
LEMMA TaxByRate ==
  ASSUME Stores, NEW rows \in SUBSET vatRegister
  PROVE  /\ TaxOn({row \in rows : row.rate \in {12, 21}}) = TaxOn(rows)
         /\ TaxOn({row \in rows : row.rate \in {12}}) + TaxOn({row \in rows : row.rate \in {21}})
              = TaxOn(rows)
<1> DEFINE R0 == {row \in rows : row.rate = 0}
           R12 == {row \in rows : row.rate \in {12}}
           R21 == {row \in rows : row.rate \in {21}}
           both == {row \in rows : row.rate \in {12, 21}}
<1>1. \A row \in rows : row.rate = 0 \/ row.rate = 12 \/ row.rate = 21
  BY RowsHaveTypes DEF VatRates, Stores
<1>2. /\ both = R12 \cup R21 /\ R12 \cap R21 = {}
      /\ rows = both \cup R0 /\ both \cap R0 = {}
  BY <1>1
<1>3. /\ both \in SUBSET vatRegister /\ R0 \in SUBSET vatRegister
      /\ R12 \in SUBSET vatRegister /\ R21 \in SUBSET vatRegister
  OBVIOUS
<1>4. \A row \in R0 : TaxColumn[row] = 0
  BY UntaxedRows DEF TaxColumn
<1> HIDE DEF R0, R12, R21, both
<1>5. SumOf(TaxColumn, R0) = 0
  BY <1>3, <1>4, TaxOnSum, SumZero
<1>6. SumOf(TaxColumn, both \cup R0) = SumOf(TaxColumn, both) + SumOf(TaxColumn, R0)
  <2>1. IsFiniteSet(both) /\ IsFiniteSet(R0) /\ IntValued(TaxColumn, both \cup R0)
    BY <1>2, <1>3, TaxOnSum
  <2>2. QED
    BY <1>2, <2>1, SumUnion
<1>7. SumOf(TaxColumn, R12 \cup R21) = SumOf(TaxColumn, R12) + SumOf(TaxColumn, R21)
  <2>1. IsFiniteSet(R12) /\ IsFiniteSet(R21) /\ IntValued(TaxColumn, R12 \cup R21)
    BY <1>2, <1>3, TaxOnSum
  <2>2. QED
    BY <1>2, <2>1, SumUnion
<1>8. SumOf(TaxColumn, both) \in Int
  BY <1>3, TaxOnSum
<1>9. TaxOn(both) = SumOf(TaxColumn, both) /\ TaxOn(R12) = SumOf(TaxColumn, R12)
      /\ TaxOn(R21) = SumOf(TaxColumn, R21) /\ TaxOn(rows) = SumOf(TaxColumn, rows)
  BY <1>3, TaxOnSum
<1>10. TaxOn(both) = TaxOn(rows)
  BY <1>2, <1>5, <1>6, <1>8, <1>9
<1>11. TaxOn(R12) + TaxOn(R21) = TaxOn(both)
  BY <1>2, <1>7, <1>9
<1>12. QED
  BY <1>10, <1>11 DEF both, R12, R21

\* Rows that are all the rows of their invoices hold the tax of these.
LEMMA TaxByInvoice ==
  ASSUME Stores, NEW rows \in SUBSET vatRegister,
         \A row \in rows : RowsOf(row.invoice) \subseteq rows
  PROVE  TaxOn(rows) = VatOfInvoices({row.invoice : row \in rows})
<1> DEFINE K == {row.invoice : row \in rows}
           key == [row \in rows |-> row.invoice]
           totals == [i \in K |-> InvoiceVat(i)]
<1>1. K \in SUBSET DOMAIN invoices
  BY DEF Stores, RegisterStored, RowsTyped
<1>2. IsFiniteSet(K)
  BY <1>1, RegisterFinite, FS_Subset
<1>3. ASSUME NEW i \in K
      PROVE  totals[i] = SumOf(TaxColumn, {row \in rows : key[row] = i})
  <2> DEFINE part == {row \in rows : key[row] = i}
  <2>1. part = RowsOf(i) /\ RowsOf(i) # {} /\ part \in SUBSET vatRegister
    BY DEF RowsOf
  <2>2. totals[i] = InvoiceVat(i) /\ i \in DOMAIN invoices
    BY <1>1
  <2> HIDE DEF part, totals, K
  <2>3. TaxOn(part) = InvoiceVat(i)
    BY <2>1, <2>2, InvoiceRows
  <2>4. TaxOn(part) = SumOf(TaxColumn, part)
    BY <2>1, TaxOnSum
  <2>5. QED
    BY <2>2, <2>3, <2>4 DEF part
<1>4. ByKey(totals, TaxColumn, rows, K, key)
  <2>1. \A row \in rows : key[row] \in K
    OBVIOUS
  <2> HIDE DEF totals, K, key
  <2>2. QED
    BY <1>3, <2>1 DEF ByKey
<1>5. VatOfInvoices(K) = SumOf(totals, K)
  BY DEF VatOfInvoices, VatIn, InvoiceVat
<1> HIDE DEF totals, K, key
<1>6. TaxOn(rows) = SumOf(TaxColumn, rows) /\ IsFiniteSet(rows) /\ IntValued(TaxColumn, rows)
  BY TaxOnSum
<1>7. SumOf(totals, K) = SumOf(TaxColumn, rows)
  BY <1>2, <1>4, <1>6, SumByKey
<1>8. QED
  BY <1>5, <1>6, <1>7 DEF K

-----------------------------------------------------------------------------
\* The lines the entries of some invoices have on 343.
VatLines(ids, side) ==
  {l \in lines : /\ l.account = "343" /\ l.side = side
                 /\ \E i \in ids : invoices[i].entry = l.entry}

CzkColumn == [l \in lines |-> l.czk]

\* The lines of an entry are finitely many.
LEMMA EntryLinesFinite ==
  ASSUME InvoicesLeaveVatAccount, Stores, NEW i \in DOMAIN invoices
  PROVE  IsFiniteSet(LinesOf(lines, invoices[i].entry))
<1> DEFINE r == invoices[i].request
           rate == invoices[i].rate
           id == invoices[i].entry
           legs == JournalLines(r, rate)
           D == 1 .. Len(legs)
           row == [k \in D |-> {StoredLine(id, legs, k)}]
<1>1. /\ r \in InvoiceRequests /\ rate \in Nat \ {0} /\ EntryStored(id, r, rate, lines)
  BY InvoiceFacts
<1>2. LinesOf(lines, id) = LineRows(id, legs, RateScale)
  BY <1>1 DEF EntryStored
<1> HIDE DEF r, rate, id
<1>3. Shaped(legs, Amounts(r, rate), Len(r.lines), RevenueSide(r))
  BY <1>1, JournalLinesShape
<1>4. DOMAIN legs = D /\ Len(legs) \in Nat
  BY <1>3 DEF Shaped
<1> HIDE DEF legs
<1>5. IsFiniteSet(D)
  BY <1>4, FS_Interval
<1>6. LineRows(id, legs, RateScale) = UNION {row[k] : k \in D}
  BY <1>4 DEF LineRows, StoredLine
<1>7. \A k \in D : IsFiniteSet(row[k])
  BY FS_Singleton
<1> HIDE DEF D, row
<1>8. IsFiniteSet(UNION {row[k] : k \in D})
  BY <1>5, <1>7, FiniteParts
<1>9. QED
  BY <1>2, <1>6, <1>8 DEF id

\* So are those of some invoices, whose amounts are integers.
LEMMA VatLinesSum ==
  ASSUME InvoicesLeaveVatAccount, Stores, NEW ids \in SUBSET DOMAIN invoices, NEW side,
         NEW R \in SUBSET VatLines(ids, side)
  PROVE  /\ IsFiniteSet(R) /\ IntValued(CzkColumn, R)
         /\ TotalCzk(R) = SumOf(CzkColumn, R)
<1> DEFINE part == [i \in ids |-> LinesOf(lines, invoices[i].entry)]
           all == UNION {part[i] : i \in ids}
           f == [l \in R |-> l.czk]
<1>1. IsFiniteSet(all)
  <2>1. IsFiniteSet(ids)
    BY RegisterFinite, FS_Subset
  <2>2. \A i \in ids : IsFiniteSet(part[i])
    BY EntryLinesFinite
  <2> HIDE DEF part
  <2>3. QED
    BY <2>1, <2>2, FiniteParts
<1>2. R \subseteq all /\ R \subseteq lines
  BY DEF VatLines, LinesOf
<1>3. IsFiniteSet(R)
  BY <1>1, <1>2, FS_Subset
<1>4. IntValued(CzkColumn, R)
  BY <1>2 DEF IntValued, CzkColumn, Stores, InvoicesInv, TypedAndConsistent, TypeOK, Line
<1>5. TotalCzk(R) = SumOf(f, R)
  <2>1. CASE R = {}
    BY <2>1, SumEmpty DEF TotalCzk
  <2>2. CASE R # {}
    BY <2>2, CzkSum DEF TotalCzk
  <2>3. QED
    BY <2>1, <2>2
<1>6. \A l \in R : f[l] = CzkColumn[l]
  BY <1>2 DEF CzkColumn
<1> HIDE DEF f
<1>7. SumOf(f, R) = SumOf(CzkColumn, R)
  BY <1>3, <1>4, <1>6, SumCongruent
<1>8. QED
  BY <1>3, <1>4, <1>5, <1>7

\* The lines a set of invoices has on 343, on their revenue or cost side.
LEMMA LedgerTax ==
  ASSUME InvoicesLeaveVatAccount, Stores, NEW ids \in SUBSET DOMAIN invoices, NEW side,
         \A i \in ids : RevenueSide(invoices[i].request) = side
  PROVE  VatOnLedger(ids, side) = VatOfInvoices(ids)
<1> DEFINE S == VatLines(ids, side)
           Part(i) == {l \in OnSide(LinesOf(lines, invoices[i].entry), side) : l.account = "343"}
           key == [l \in S |-> CHOOSE i \in ids : invoices[i].entry = l.entry]
           totals == [i \in ids |-> InvoiceVat(i)]
<1>1. IsFiniteSet(ids)
  BY RegisterFinite, FS_Subset
<1>2. \A i, j \in ids : invoices[i].entry = invoices[j].entry => i = j
  BY DEF Stores, InvoicesInv, InvoicesLinked
<1>3. \A l \in S : key[l] \in ids /\ invoices[key[l]].entry = l.entry
  BY DEF VatLines
<1>4. \A i \in ids : {l \in S : key[l] = i} = Part(i) /\ Part(i) \subseteq S
  <2> SUFFICES ASSUME NEW i \in ids
               PROVE  {l \in S : key[l] = i} = Part(i) /\ Part(i) \subseteq S
    OBVIOUS
  <2>1. Part(i) \subseteq S
    BY DEF OnSide, LinesOf, VatLines
  <2>2. ASSUME NEW l \in S PROVE key[l] = i <=> l \in Part(i)
    <3>1. key[l] = i <=> l.entry = invoices[i].entry
      BY <1>2, <1>3
    <3> HIDE DEF key
    <3>2. QED
      BY <3>1 DEF OnSide, LinesOf, VatLines
  <2> HIDE DEF S, Part, key
  <2>3. QED
    BY <2>1, <2>2
<1>5. \A i \in ids : TotalCzk(Part(i)) = InvoiceVat(i)
  <2> SUFFICES ASSUME NEW i \in ids PROVE TotalCzk(Part(i)) = InvoiceVat(i)
    OBVIOUS
  <2> DEFINE r == invoices[i].request
             rate == invoices[i].rate
             id == invoices[i].entry
  <2>1. /\ r \in InvoiceRequests /\ rate \in Nat \ {0} /\ EntryStored(id, r, rate, lines)
        /\ RevenueSide(r) = side
    BY InvoiceFacts
  <2> HIDE DEF r, rate, id
  <2>2. TotalCzk({l \in OnSide(LinesOf(lines, id), side) : l.account = "343"})
          = TotalVat(Amounts(r, rate))
    BY <2>1, EntryMatches
  <2>3. QED
    BY <2>2 DEF InvoiceVat, r, rate, id
<1>6. /\ IsFiniteSet(S) /\ IntValued(CzkColumn, S)
      /\ \A R \in SUBSET S : TotalCzk(R) = SumOf(CzkColumn, R)
  BY VatLinesSum
<1>7. ByKey(totals, CzkColumn, S, ids, key)
  <2>1. \A i \in ids : totals[i] = InvoiceVat(i)
    OBVIOUS
  <2> HIDE DEF S, key, totals, Part
  <2>2. \A i \in ids : totals[i] = SumOf(CzkColumn, {l \in S : key[l] = i})
    BY <1>4, <1>5, <1>6, <2>1
  <2>3. QED
    BY <1>3, <2>2 DEF ByKey
<1>8. VatOnLedger(ids, side) = TotalCzk(S) /\ VatOfInvoices(ids) = SumOf(totals, ids)
  BY DEF VatOnLedger, VatLines, VatOfInvoices, VatIn, InvoiceVat
<1> HIDE DEF S, key, totals
<1>9. SumOf(totals, ids) = SumOf(CzkColumn, S)
  BY <1>1, <1>6, <1>7, SumByKey
<1>10. QED
  BY <1>6, <1>8, <1>9

-----------------------------------------------------------------------------
(* The side of 343 an invoice does not declare. *)

\* Lines of a journal request that are on 343 are all on one side.
OneSided(w, s) == \A k \in DOMAIN w : w[k].account = "343" => w[k].side = s

LEMMA OneSidedJoined ==
  ASSUME NEW S, NEW u \in Seq(S), NEW v \in Seq(S), NEW s, OneSided(u, s), OneSided(v, s)
  PROVE  OneSided(u \o v, s)
<1> DEFINE w == u \o v
<1>1. Joins(w, u, v)
  BY Joined
<1>2. /\ Len(u) \in Nat /\ Len(v) \in Nat /\ DOMAIN u = 1 .. Len(u) /\ DOMAIN v = 1 .. Len(v)
  OBVIOUS
<1> HIDE DEF w
<1>3. ASSUME NEW k \in DOMAIN w, w[k].account = "343"
      PROVE  w[k].side = s
  <2>1. CASE k \in 1 .. Len(u)
    BY <1>1, <1>2, <1>3, <2>1 DEF Joins, OneSided
  <2>2. CASE k \notin 1 .. Len(u)
    <3> DEFINE j == k - Len(u)
    <3>1. j \in 1 .. Len(v) /\ k = Len(u) + j
      BY <1>1, <1>2, <2>2 DEF Joins
    <3> HIDE DEF j
    <3>2. w[k] = v[j]
      BY <1>1, <3>1 DEF Joins
    <3>3. QED
      BY <1>2, <1>3, <3>1, <3>2 DEF OneSided
  <2>3. QED
    BY <2>1, <2>2
<1>4. QED
  BY <1>3 DEF OneSided, w

\* Without a reverse charge the tax is on one side only.
LEMMA VatOnOneSide ==
  ASSUME InvoicesLeaveVatAccount, NEW r \in InvoiceRequests, NEW rate \in Nat \ {0},
         ~(r.direction = "RECEIVED" /\ r.reverseCharge)
  PROVE  OneSided(JournalLines(r, rate), RevenueSide(r))
<1> DEFINE a == Amounts(r, rate)
           s == RevenueSide(r)
           sides == <<s>>
           default == IF r.direction = "ISSUED" THEN "602" ELSE "518"
           acct == IF r.direction = "ISSUED" THEN "311" ELSE "321"
           u == NetLegs(r, a, s, default)
           vat == VatLegs(a, sides)
           z == Leg(acct, Swap(s), TotalGross(a))
           last == <<z>>
<1>1. IsAmounts(a, Len(r.lines)) /\ Len(r.lines) \in Nat
  BY AmountsType, LinesOfRequest
<1>2. TotalVat(a) \in Nat /\ TotalGross(a) \in Nat
  <2> HIDE DEF a
  <2>1. QED
    BY <1>1, TotalsType
<1>3. /\ s \in Side /\ Swap(s) \in Side /\ default \in Accounts /\ default # "343"
      /\ acct \in Accounts /\ acct # "343" /\ "343" \in Accounts
  BY InvoicesAssumption DEF RevenueSide, Side, Swap
<1>4. u \in Seq(LegRow) /\ OneSided(u, s)
  <2>1. u \in Seq(LegRow) /\ AreNetLegs(u, a, Len(r.lines), s)
    <3> HIDE DEF a, s, default
    <3>1. QED
      BY <1>1, <1>3, NetLegsShape
  <2> HIDE DEF u, a, s
  <2>2. QED
    BY <2>1 DEF AreNetLegs, OneSided
<1>5. vat \in Seq(LegRow) /\ OneSided(vat, s)
  <2>1. DOMAIN sides = 1 .. 1 /\ sides[1] = s
    OBVIOUS
  <2> DEFINE t == TotalVat(a)
  <2>2. vat = IF t = 0 THEN <<>> ELSE [k \in 1 .. 1 |-> Leg("343", sides[k], t)]
    BY <2>1 DEF VatLegs
  <2> HIDE DEF vat, t, sides
  <2>3. CASE t = 0
    <3>1. vat = <<>>
      BY <2>2, <2>3
    <3>2. QED
      BY <3>1 DEF OneSided
  <2>4. CASE t # 0
    <3>1. vat = [k \in 1 .. 1 |-> Leg("343", sides[k], t)]
      BY <2>2, <2>4
    <3>2. \A k \in 1 .. 1 : sides[k] = s
      BY <2>1
    <3>3. \A k \in 1 .. 1 : vat[k] \in LegRow /\ vat[k].side = s
      BY <1>2, <1>3, <3>1, <3>2, LegIs DEF t
    <3>4. QED
      BY <3>1, <3>3 DEF OneSided
  <2>5. QED
    BY <2>3, <2>4
<1>6. last \in Seq(LegRow) /\ OneSided(last, s)
  <2>1. z \in LegRow /\ z.account = acct
    BY <1>2, <1>3, LegIs
  <2> HIDE DEF z, acct
  <2>2. DOMAIN last = {1} /\ last[1] = z /\ last \in Seq(LegRow)
    BY <2>1
  <2>3. QED
    BY <1>3, <2>1, <2>2 DEF OneSided
<1>7. JournalLines(r, rate) = (u \o vat) \o last \/ JournalLines(r, rate) = u \o (vat \o last)
  <2>1. r.direction \in {"ISSUED", "RECEIVED"}
    BY InvoicesAssumption DEF InvoiceRequest
  <2>2. CASE r.direction = "ISSUED"
    BY <2>2 DEF JournalLines, IssuedLines, RevenueSide, Swap
  <2>3. CASE r.direction = "RECEIVED"
    BY <2>3 DEF JournalLines, ReceivedLines, RevenueSide, Swap
  <2>4. QED
    BY <2>1, <2>2, <2>3
<1> HIDE DEF u, vat, last, s
<1>8. /\ u \o vat \in Seq(LegRow) /\ OneSided(u \o vat, s)
      /\ vat \o last \in Seq(LegRow) /\ OneSided(vat \o last, s)
  BY <1>4, <1>5, <1>6, Joined, OneSidedJoined
<1>9. OneSided((u \o vat) \o last, s) /\ OneSided(u \o (vat \o last), s)
  BY <1>4, <1>6, <1>8, OneSidedJoined
<1>10. QED
  BY <1>7, <1>9 DEF s

\* A line on 343 on the other side is that of a self-assessed tax.
LEMMA OtherSide ==
  ASSUME InvoicesLeaveVatAccount, Stores, NEW i \in DOMAIN invoices, NEW l \in lines,
         l.entry = invoices[i].entry, l.account = "343",
         l.side # RevenueSide(invoices[i].request)
  PROVE  invoices[i].request.direction = "RECEIVED" /\ invoices[i].request.reverseCharge
<1> DEFINE r == invoices[i].request
           rate == invoices[i].rate
           id == invoices[i].entry
           legs == JournalLines(r, rate)
<1>1. r \in InvoiceRequests /\ rate \in Nat \ {0} /\ EntryStored(id, r, rate, lines)
  BY InvoiceFacts
<1>2. l \in LineRows(id, legs, RateScale)
  BY <1>1 DEF EntryStored, LinesOf
<1> HIDE DEF r, rate, legs
<1>3. PICK k \in DOMAIN legs : l = StoredLine(id, legs, k)
  BY <1>2 DEF LineRows, StoredLine
<1>4. l.account = legs[k].account /\ l.side = legs[k].side
  BY <1>3 DEF StoredLine
<1>5. ~OneSided(legs, RevenueSide(r))
  BY <1>4 DEF OneSided, r
<1>6. QED
  BY <1>1, <1>5, VatOnOneSide DEF legs, r

-----------------------------------------------------------------------------
(* What a step does to the jobs and the record. *)

\* A job that was just begun.
JustBegun(x) ==
  \E key \in Labelled : x = Checking(key[1], key[2]) \/ x = Begun(key[1], key[2])

\* What may become of a job.
JobMoves(old, new) ==
  \/ new = old \/ new = Idle \/ JustBegun(new)
  \/ old.phase = "checking" /\ new = Begun(old.kind, old.label)
  \/ old.phase = "reading" /\ Listing(old) /\ new = WithSection(old)
  \/ old.phase = "reading" /\ ~Listing(old) /\ new = Written(old)

\* What may become of the jobs and the record: a job is written from the tables of
\* this moment, and only a written job is recorded.
JobsMove ==
  /\ DOMAIN job' = Clerks /\ DOMAIN files' = DOMAIN files
  /\ \A c \in Clerks : JobMoves(job[c], job'[c])
  /\ \A f \in filings' :
       f \in filings \/ \E c \in Clerks : job[c].phase = "written" /\ f = RecordOf(job[c])

LEMMA StepMovesJobs ==
  ASSUME DOMAIN job = Clerks, [FilingNext]_allFilingVars
  PROVE  JobsMove
<1>1. CASE UNCHANGED filingVars
  BY <1>1 DEF filingVars, JobsMove, JobMoves
<1>2. ASSUME NEW c \in Clerks, NEW x, job' = [job EXCEPT ![c] = x], JobMoves(job[c], x),
             DOMAIN files' = DOMAIN files,
             \A f \in filings' : f \in filings \/ (job[c].phase = "written" /\ f = RecordOf(job[c]))
      PROVE  JobsMove
  <2>1. DOMAIN job' = Clerks /\ job'[c] = x /\ \A d \in Clerks \ {c} : job'[d] = job[d]
    BY <1>2
  <2>2. \A d \in Clerks : JobMoves(job[d], job'[d])
    <3>1. \A d \in Clerks \ {c} : JobMoves(job[d], job'[d])
      BY <2>1 DEF JobMoves
    <3>2. JobMoves(job[c], job'[c])
      BY <1>2, <2>1
    <3>3. QED
      BY <3>1, <3>2
  <2>3. QED
    BY <1>2, <2>1, <2>2 DEF JobsMove
<1>3. ASSUME NEW c \in Clerks, NEW key \in Labelled, BeginFiling(c, key[1], key[2])
      PROVE  JobsMove
  <2> DEFINE x == IF key[1] \in Returns THEN Checking(key[1], key[2]) ELSE Begun(key[1], key[2])
  <2>1. job' = [job EXCEPT ![c] = x] /\ UNCHANGED <<filings, files>>
    BY <1>3 DEF BeginFiling
  <2>2. JobMoves(job[c], x)
    BY DEF JobMoves, JustBegun
  <2> HIDE DEF x
  <2>3. QED
    BY <1>2, <2>1, <2>2
<1>4. ASSUME NEW c \in Clerks, CheckBalanceSheet(c) \/ ListSection(c)
      PROVE  JobsMove
  <2>1. PICK x : /\ job' = [job EXCEPT ![c] = x] /\ UNCHANGED <<filings, files>>
                 /\ JobMoves(job[c], x)
    <3>1. CASE CheckBalanceSheet(c)
      BY <3>1 DEF CheckBalanceSheet, JobMoves
    <3>2. CASE ListSection(c)
      BY <3>2 DEF ListSection, WithSection, JobMoves
    <3>3. QED
      BY <1>4, <3>1, <3>2
  <2>2. QED
    BY <1>2, <2>1
<1>5. ASSUME NEW c \in Clerks, WriteFile(c)
      PROVE  JobsMove
  <2> DEFINE x == Written(job[c])
  <2>1. /\ job' = [job EXCEPT ![c] = x] /\ UNCHANGED filings
        /\ job[c].phase = "reading" /\ ~Listing(job[c])
        /\ DOMAIN files' = DOMAIN files
    <3>1. \E key, content : files' = [files EXCEPT ![key] = content]
      BY <1>5 DEF WriteFile
    <3>2. QED
      BY <1>5, <3>1 DEF WriteFile
  <2>2. JobMoves(job[c], x)
    BY <2>1 DEF JobMoves
  <2> HIDE DEF x
  <2>3. QED
    BY <1>2, <2>1, <2>2
<1>6. ASSUME NEW c \in Clerks, RecordFiling(c)
      PROVE  JobsMove
  <2>1. /\ job' = [job EXCEPT ![c] = Idle] /\ UNCHANGED files /\ job[c].phase = "written"
        /\ filings' = filings \cup {RecordOf(job[c])}
    BY <1>6 DEF RecordFiling
  <2>2. JobMoves(job[c], Idle)
    BY DEF JobMoves
  <2>3. QED
    BY <1>2, <2>1, <2>2
<1>7. ASSUME NEW c \in Clerks, AbandonFiling(c)
      PROVE  JobsMove
  <2>1. job' = [job EXCEPT ![c] = Idle] /\ UNCHANGED <<files, filings>>
    BY <1>7 DEF AbandonFiling
  <2>2. JobMoves(job[c], Idle)
    BY DEF JobMoves
  <2>3. QED
    BY <1>2, <2>1, <2>2
<1>8. QED
  BY <1>1, <1>3, <1>4, <1>5, <1>6, <1>7 DEF FilingNext, Generation, ScanPeriod, allFilingVars

LEMMA StepKeepsInvoices ==
  ASSUME InvoicesInv, FilingInv, [FilingNext]_allFilingVars
  PROVE  InvoicesKept
<1>1. RowsLinked
  BY DEF FilingInv
<1>2. CASE LedgerRequest \/ InvoiceRequested
  BY <1>1, <1>2, RequestKeepsRegister DEF RegisterKept
<1>3. CASE UNCHANGED invoices
  BY <1>3 DEF InvoicesKept
<1>4. QED
  BY <1>2, <1>3, FilingStepIsInvoicesStep DEF InvoicesNext

\* Recording a return only sets flags.
LEMMA RegisterStoredKept ==
  InvoicesInv /\ RegisterStored /\ [FilingNext]_allFilingVars => RegisterStored'
<1> SUFFICES ASSUME InvoicesInv, RegisterStored, [FilingNext]_allFilingVars
             PROVE  RegisterStored'
  OBVIOUS
<1>1. CASE InvoicesNext
  BY <1>1, RegisterStoredStep
<1>2. CASE UNCHANGED <<vars, invoices, vatRegister>>
  BY <1>2, UnchangedStored
<1>3. ASSUME NEW c \in Clerks, RecordFiling(c)
      PROVE  RegisterStored'
  <2> DEFINE kind == job[c].kind
             label == job[c].label
             m == [row \in vatRegister |-> MarkedRow(kind, label, row)]
  <2>1. vatRegister' = {m[row] : row \in vatRegister}
    BY <1>3 DEF RecordFiling, Marked, MarkedRow
  <2>2. UNCHANGED vars /\ UNCHANGED invoices
    BY <1>3 DEF RecordFiling
  <2>3. ASSUME NEW row \in vatRegister
        PROVE  /\ Agrees(m[row], row) /\ FlaggedColumns \subseteq DOMAIN m[row]
               /\ m[row].khSubmitted \in BOOLEAN /\ m[row].priznaniSubmitted \in BOOLEAN
    <3>1. m[row] \in {row, [row EXCEPT !.priznaniSubmitted = TRUE],
                           [row EXCEPT !.khSubmitted = TRUE]}
      BY DEF MarkedRow
    <3> HIDE DEF m
    <3>2. /\ FlaggedColumns \subseteq DOMAIN row
          /\ row.khSubmitted \in BOOLEAN /\ row.priznaniSubmitted \in BOOLEAN
      BY DEF RegisterStored, RowsTyped
    <3>3. QED
      BY <3>1, <3>2 DEF Agrees, FlaggedColumns, RegisterColumns
  <2> HIDE DEF m
  <2>4. QED
    BY <2>1, <2>2, <2>3, ReplacedStored
<1>4. QED
  BY <1>1, <1>2, <1>3
  DEF FilingNext, Generation, BeginFiling, CheckBalanceSheet, ListSection, WriteFile, AbandonFiling,
      ScanPeriod, InvoicesNext, allFilingVars, allInvoiceVars, invoiceVars

-----------------------------------------------------------------------------
(* What a return declares. *)

\* The invoices the rows of a return belong to.
IdsIn(invs, rows, direction) ==
  {i \in DOMAIN invs : invs[i].request.direction = direction /\ \E key \in rows : key[1] = i}

\* The totals of a return or of a control statement.
TotalOut(x) == IF x.kind = "DPH_PRIZNANI" THEN OutputTax(x) ELSE x.content.a2.tax
TotalIn(x) == IF x.kind = "DPH_PRIZNANI" THEN InputTax(x) ELSE x.content.b3.tax

\* The totals of the return x are the tax of the invoices its rows belong to.
Declares(invs, x) ==
  x.kind \in Returns =>
    /\ \A key \in x.rows : key[1] \in DOMAIN invs
    /\ TotalOut(x) = VatIn(invs, IdsIn(invs, x.rows, "ISSUED"))
    /\ TotalIn(x) = VatIn(invs, IdsIn(invs, x.rows, "RECEIVED"))

\* What was declared stays that of the invoices, which keep their amounts.
LEMMA DeclaresKept ==
  ASSUME InvoicesKept, NEW x, Declares(invoices, x)
  PROVE  Declares(invoices', x)
<1> SUFFICES ASSUME x.kind \in Returns
             PROVE  /\ \A key \in x.rows : key[1] \in DOMAIN invoices'
                    /\ TotalOut(x) = VatIn(invoices', IdsIn(invoices', x.rows, "ISSUED"))
                    /\ TotalIn(x) = VatIn(invoices', IdsIn(invoices', x.rows, "RECEIVED"))
  BY DEF Declares
<1>1. \A key \in x.rows : key[1] \in DOMAIN invoices
  BY DEF Declares
<1>2. ASSUME NEW direction
      PROVE  VatIn(invoices', IdsIn(invoices', x.rows, direction))
               = VatIn(invoices, IdsIn(invoices, x.rows, direction))
  <2> DEFINE ids == IdsIn(invoices, x.rows, direction)
  <2>1. IdsIn(invoices', x.rows, direction) = ids
    BY <1>1 DEF IdsIn, InvoicesKept
  <2>2. \A i \in ids : /\ invoices'[i].request = invoices[i].request
                       /\ invoices'[i].rate = invoices[i].rate
    BY DEF IdsIn, InvoicesKept
  <2> HIDE DEF ids
  <2>3. [i \in ids |-> TotalVat(Amounts(invoices'[i].request, invoices'[i].rate))]
          = [i \in ids |-> TotalVat(Amounts(invoices[i].request, invoices[i].rate))]
    BY <2>2
  <2>4. QED
    BY <2>1, <2>3 DEF VatIn, ids
<1>3. \A key \in x.rows : key[1] \in DOMAIN invoices'
  BY <1>1 DEF InvoicesKept
<1>4. QED
  BY <1>2, <1>3 DEF Declares

\* The rows of one direction of a month.
SideRows(vp, direction) == {row \in PeriodRows(vp) : RequestOf(row).direction = direction}

\* The rows of one direction and month hold the tax of their invoices.
LEMMA SideTax ==
  ASSUME Stores, NEW vp, NEW direction
  PROVE  TaxOn(SideRows(vp, direction))
           = VatIn(invoices, IdsIn(invoices, KnownRows(PeriodRows(vp)), direction))
<1> DEFINE rows == SideRows(vp, direction)
           known == KnownRows(PeriodRows(vp))
<1>1. rows \in SUBSET vatRegister /\ PeriodRows(vp) \subseteq vatRegister
  BY DEF SideRows, PeriodRows
<1>2. \A row \in rows : RowsOf(row.invoice) \subseteq rows
  BY DEF SideRows, PeriodRows, RequestOf, RowsOf
<1>3. \A row \in vatRegister : row.invoice \in DOMAIN invoices
  BY DEF Stores, RegisterStored, RowsTyped
<1>4. \A i : (\E key \in known : key[1] = i) <=> \E row \in PeriodRows(vp) : row.invoice = i
  <2>1. ASSUME NEW key \in known
        PROVE  \E row \in PeriodRows(vp) : row.invoice = key[1]
    BY DEF KnownRows
  <2>2. ASSUME NEW row \in PeriodRows(vp)
        PROVE  \E key \in known : key[1] = row.invoice
    <3> DEFINE key == <<row.invoice, row.rate, row.base, row.tax, row.section, row.detail>>
    <3>1. key \in known
      BY <1>1, <1>3 DEF KnownRows
    <3>2. key[1] = row.invoice
      OBVIOUS
    <3> HIDE DEF key, known
    <3>3. QED
      BY <3>1, <3>2
  <2> HIDE DEF known
  <2>3. QED
    BY <2>1, <2>2
<1>5. {row.invoice : row \in rows} = IdsIn(invoices, known, direction)
  <2> HIDE DEF known
  <2>1. QED
    BY <1>1, <1>3, <1>4 DEF SideRows, IdsIn, RequestOf
<1> HIDE DEF rows, known
<1>6. TaxOn(rows) = VatOfInvoices({row.invoice : row \in rows})
  BY <1>1, <1>2, TaxByInvoice
<1>7. QED
  BY <1>5, <1>6 DEF VatOfInvoices, rows, known

\* get_vat_period_totals sums the rows of the direction, month and rates.
LEMMA RateTotalsTax ==
  ASSUME NEW vp, NEW direction, NEW rates
  PROVE  RateTotals(vp, direction, rates).tax
           = TaxOn({row \in SideRows(vp, direction) : row.rate \in rates})
<1>1. {row \in SideRows(vp, direction) : row.rate \in rates}
        = {row \in PeriodRows(vp) : RequestOf(row).direction = direction /\ row.rate \in rates}
  BY DEF SideRows
<1>2. QED
  BY <1>1 DEF RateTotals, Totals, TaxOn

\* Either return declares, when written, the tax of the invoices it was made from.
LEMMA WrittenDeclares ==
  ASSUME Stores, NEW j
  PROVE  Declares(invoices, Written(j))
<1> DEFINE x == Written(j)
           vp == j.label
           known == KnownRows(PeriodRows(vp))
           Tax(direction) == VatIn(invoices, IdsIn(invoices, known, direction))
<1>1. x.kind = j.kind /\ x.content = DataOf(j)
  BY DEF Written
<1> SUFFICES ASSUME j.kind \in Returns
             PROVE  Declares(invoices, x)
  BY <1>1 DEF Declares
<1>2. x.rows = known
  BY DEF Written
<1>3. \A key \in known : key[1] \in DOMAIN invoices
  BY DEF KnownRows
<1>4. ASSUME NEW direction
      PROVE  /\ RateTotals(vp, direction, {12}).tax + RateTotals(vp, direction, {21}).tax
                  = Tax(direction)
             /\ RateTotals(vp, direction, {12, 21}).tax = Tax(direction)
  <2> DEFINE rows == SideRows(vp, direction)
  <2>1. TaxOn(rows) = Tax(direction)
    BY SideTax
  <2>2. rows \in SUBSET vatRegister
    BY DEF SideRows, PeriodRows
  <2> HIDE DEF rows, Tax, vp
  <2>3. /\ TaxOn({row \in rows : row.rate \in {12, 21}}) = TaxOn(rows)
        /\ TaxOn({row \in rows : row.rate \in {12}}) + TaxOn({row \in rows : row.rate \in {21}})
             = TaxOn(rows)
    BY <2>2, TaxByRate
  <2>4. QED
    BY <2>1, <2>3, RateTotalsTax DEF rows
<1> DEFINE of(direction, rates) == RateTotals(vp, direction, rates)
<1>5. /\ of("ISSUED", {12}).tax + of("ISSUED", {21}).tax = Tax("ISSUED")
      /\ of("RECEIVED", {12}).tax + of("RECEIVED", {21}).tax = Tax("RECEIVED")
      /\ of("ISSUED", {12, 21}).tax = Tax("ISSUED")
      /\ of("RECEIVED", {12, 21}).tax = Tax("RECEIVED")
  BY <1>4
<1>6. CASE j.kind = "DPH_PRIZNANI"
  <2>1. x.content = DphData(vp) /\ x.kind = "DPH_PRIZNANI"
    BY <1>1, <1>6 DEF DataOf, Reports
  <2>2. /\ DphData(vp).output = [rate \in {12, 21} |-> of("ISSUED", {rate})]
        /\ DphData(vp).input = [rate \in {12, 21} |-> of("RECEIVED", {rate})]
    BY DEF DphData
  <2> HIDE DEF x, vp, of, Tax
  <2>3. /\ x.content.output[12] = of("ISSUED", {12}) /\ x.content.output[21] = of("ISSUED", {21})
        /\ x.content.input[12] = of("RECEIVED", {12})
        /\ x.content.input[21] = of("RECEIVED", {21})
    BY <2>1, <2>2
  <2>4. TotalOut(x) = Tax("ISSUED") /\ TotalIn(x) = Tax("RECEIVED")
    BY <1>5, <2>1, <2>3 DEF TotalOut, TotalIn, OutputTax, InputTax
  <2>5. QED
    BY <1>2, <1>3, <2>4 DEF Declares, Tax, x
<1>7. CASE j.kind = "KONTROLNI_HLASENI"
  <2>1. x.content = KhData(vp, j.listed) /\ x.kind = "KONTROLNI_HLASENI"
    BY <1>1, <1>7 DEF DataOf, Reports
  <2>2. /\ KhData(vp, j.listed).a2 = of("ISSUED", {12, 21})
        /\ KhData(vp, j.listed).b3 = of("RECEIVED", {12, 21})
    BY DEF KhData
  <2> HIDE DEF x, vp, of, Tax
  <2>3. TotalOut(x) = Tax("ISSUED") /\ TotalIn(x) = Tax("RECEIVED")
    BY <1>5, <2>1, <2>2 DEF TotalOut, TotalIn
  <2>4. QED
    BY <1>2, <1>3, <2>3 DEF Declares, Tax, x
<1>8. QED
  BY <1>6, <1>7 DEF Returns

-----------------------------------------------------------------------------
(* What is declared stays what the invoices have. *)

\* The inductive invariant of what is declared.
ReturnsInv ==
  /\ \A c \in Clerks : job[c].phase = "written" => Declares(invoices, job[c])
  /\ \A f \in filings : Declares(invoices, f)

\* A job that is written was written before or is so by this step.
LEMMA NotWritten ==
  ASSUME NEW old, NEW x, JobMoves(old, x), x.phase = "written"
  PROVE  x = old \/ (old.phase = "reading" /\ ~Listing(old) /\ x = Written(old))
<1>1. Idle.phase = "idle"
  BY DEF Idle
<1>2. \A kind, label : /\ Checking(kind, label).phase = "checking"
                       /\ Begun(kind, label).phase = "reading"
  BY DEF Checking, Begun, Reading
<1>3. WithSection(old).phase = "reading"
  BY DEF WithSection, Reading
<1>4. QED
  BY <1>1, <1>2, <1>3 DEF JobMoves, JustBegun

LEMMA RecordDeclares ==
  ASSUME NEW invs, NEW j, Declares(invs, j)
  PROVE  Declares(invs, RecordOf(j))
BY DEF Declares, RecordOf, TotalOut, TotalIn, OutputTax, InputTax, IdsIn

\* Recording copies what was written; later invoices change neither.
LEMMA ReturnsStep ==
  ASSUME Stores, FilingInv, ReturnsInv, [FilingNext]_allFilingVars
  PROVE  ReturnsInv'
<1>1. InvoicesKept
  BY StepKeepsInvoices DEF Stores
<1>2. JobsMove
  BY StepMovesJobs DEF FilingInv
<1>3. ASSUME NEW c \in Clerks, job'[c].phase = "written"
      PROVE  Declares(invoices', job'[c])
  <2> DEFINE x == job'[c]
  <2>1. x = job[c] \/ x = Written(job[c])
    <3>1. x.phase = "written"
      BY <1>3
    <3>2. JobMoves(job[c], x)
      BY <1>2 DEF JobsMove
    <3> HIDE DEF x
    <3>3. QED
      BY <3>1, <3>2, NotWritten
  <2>2. CASE job'[c] = job[c]
    BY <1>1, <1>3, <2>2, DeclaresKept DEF ReturnsInv
  <2>3. CASE job'[c] = Written(job[c])
    <3>1. Declares(invoices, Written(job[c]))
      BY WrittenDeclares
    <3>2. QED
      BY <1>1, <2>3, <3>1, DeclaresKept
  <2>4. QED
    BY <2>1, <2>2, <2>3
<1>4. ASSUME NEW f \in filings'
      PROVE  Declares(invoices', f)
  <2>1. Declares(invoices, f)
    <3>1. CASE f \in filings
      BY <3>1 DEF ReturnsInv
    <3>2. ASSUME NEW c \in Clerks, job[c].phase = "written", f = RecordOf(job[c])
          PROVE  Declares(invoices, f)
      BY <3>2, RecordDeclares DEF ReturnsInv
    <3>3. QED
      BY <1>2, <3>1, <3>2 DEF JobsMove
  <2>2. QED
    BY <1>1, <2>1, DeclaresKept
<1>5. QED
  BY <1>2, <1>3, <1>4 DEF ReturnsInv

LEMMA ReturnsAlways == FilingSpec => [](Stores /\ FilingInv /\ ReturnsInv)
<1>1. FilingInit => Stores /\ FilingInv /\ ReturnsInv
  <2>1. FilingInit => ReturnsInv
    BY DEF FilingInit, ReturnsInv, Idle
  <2>2. QED
    BY <2>1, InvoicesInvInit, RegisterStoredInit, FilingInvInit DEF FilingInit, Stores
<1>2. Stores /\ FilingInv /\ ReturnsInv /\ [FilingNext]_allFilingVars
        => (Stores /\ FilingInv /\ ReturnsInv)'
  <2>1. Stores /\ [FilingNext]_allFilingVars => Stores'
    BY InvoicesInvKept, RegisterStoredKept DEF Stores
  <2>2. Stores /\ FilingInv /\ [FilingNext]_allFilingVars => FilingInv'
    BY FilingInvStep DEF Stores
  <2>3. QED
    BY <2>1, <2>2, ReturnsStep
<1>3. QED
  BY <1>1, <1>2, PTL DEF FilingSpec

\* The totals of a recorded return are what its invoices have on 343.
LEMMA DeclaredOnLedger ==
  ASSUME InvoicesLeaveVatAccount, Stores, NEW f, f.kind \in Returns, Declares(invoices, f)
  PROVE  /\ TotalOut(f) = VatOnLedger(IdsIn(invoices, f.rows, "ISSUED"), "CREDIT")
         /\ TotalIn(f) = VatOnLedger(IdsIn(invoices, f.rows, "RECEIVED"), "DEBIT")
<1>1. ASSUME NEW direction \in {"ISSUED", "RECEIVED"}, NEW side,
             side = IF direction = "ISSUED" THEN "CREDIT" ELSE "DEBIT"
      PROVE  VatOnLedger(IdsIn(invoices, f.rows, direction), side)
               = VatIn(invoices, IdsIn(invoices, f.rows, direction))
  <2> DEFINE ids == IdsIn(invoices, f.rows, direction)
  <2>1. ids \in SUBSET DOMAIN invoices
    BY DEF IdsIn
  <2>2. \A i \in ids : RevenueSide(invoices[i].request) = side
    BY <1>1 DEF IdsIn, RevenueSide
  <2> HIDE DEF ids
  <2>3. VatOnLedger(ids, side) = VatOfInvoices(ids)
    BY <2>1, <2>2, LedgerTax
  <2>4. QED
    BY <2>3 DEF ids, VatOfInvoices
<1>2. QED
  BY <1>1 DEF Declares

\* An invoice is issued or received.
LEMMA InvoiceDirection ==
  ASSUME Stores, NEW i \in DOMAIN invoices
  PROVE  invoices[i].request.direction \in {"ISSUED", "RECEIVED"}
<1>1. invoices[i].request \in InvoiceRequest
  BY InvoiceFacts, InvoicesAssumption
<1>2. QED
  BY <1>1 DEF InvoiceRequest

\* The invoices of a return are its issued and its received ones.
LEMMA EitherSide ==
  ASSUME Stores, NEW f
  PROVE  \A i \in Behind(f) : \/ i \in IdsIn(invoices, f.rows, "ISSUED")
                              \/ i \in IdsIn(invoices, f.rows, "RECEIVED")
BY InvoiceDirection DEF Behind, IdsIn

\* Issued invoices have nothing on the debit side of 343, and received ones only
\* self-assessed tax on its credit side.
LEMMA SidesOfReturn ==
  ASSUME InvoicesLeaveVatAccount, Stores, NEW f
  PROVE  /\ VatOnLedger(Behind(f), "DEBIT")
              = VatOnLedger(IdsIn(invoices, f.rows, "RECEIVED"), "DEBIT")
         /\ VatOnLedger(Behind(f), "CREDIT")
              = VatOnLedger(IdsIn(invoices, f.rows, "ISSUED"), "CREDIT")
                  + VatOnLedger(SelfAssessed(f), "CREDIT")
<1> DEFINE all == Behind(f)
           issued == IdsIn(invoices, f.rows, "ISSUED")
           received == IdsIn(invoices, f.rows, "RECEIVED")
           charged == SelfAssessed(f)
<1>1. /\ all \in SUBSET DOMAIN invoices /\ issued \subseteq all /\ received \subseteq all
      /\ charged \subseteq received
      /\ \A i \in issued : invoices[i].request.direction = "ISSUED"
      /\ \A i \in received : invoices[i].request.direction = "RECEIVED"
      /\ \A i \in received : invoices[i].request.reverseCharge => i \in charged
  BY DEF Behind, BehindOf, SelfAssessed, IdsIn
<1>2. \A i \in all : i \in issued \/ i \in received
  BY EitherSide
<1>3. \A ids, side : VatOnLedger(ids, side) = TotalCzk(VatLines(ids, side))
  BY DEF VatOnLedger, VatLines
<1> HIDE DEF all, issued, received, charged
<1>4. VatLines(all, "DEBIT") = VatLines(received, "DEBIT")
  <2>1. ASSUME NEW l \in VatLines(all, "DEBIT")
        PROVE  l \in VatLines(received, "DEBIT")
    <3>1. PICK i \in all : invoices[i].entry = l.entry
      BY DEF VatLines
    <3>2. i \in issued => l.side = RevenueSide(invoices[i].request)
      BY <1>1, <3>1, OtherSide DEF VatLines
    <3>3. i \notin issued
      BY <1>1, <3>2 DEF VatLines, RevenueSide
    <3>4. QED
      BY <1>2, <3>1, <3>3 DEF VatLines
  <2>2. QED
    BY <1>1, <2>1 DEF VatLines
<1>5. VatLines(all, "CREDIT") = VatLines(issued, "CREDIT") \cup VatLines(charged, "CREDIT")
  <2>1. ASSUME NEW l \in VatLines(all, "CREDIT")
        PROVE  l \in VatLines(issued, "CREDIT") \cup VatLines(charged, "CREDIT")
    <3>1. PICK i \in all : invoices[i].entry = l.entry
      BY DEF VatLines
    <3>2. i \in received => l.side # RevenueSide(invoices[i].request)
      BY <1>1 DEF VatLines, RevenueSide
    <3>3. i \in received => invoices[i].request.reverseCharge
      BY <1>1, <3>1, <3>2, OtherSide DEF VatLines
    <3>4. i \in issued \/ i \in charged
      BY <1>1, <1>2, <3>3
    <3>5. QED
      BY <3>1, <3>4 DEF VatLines
  <2>2. QED
    BY <1>1, <2>1 DEF VatLines
<1>6. VatLines(issued, "CREDIT") \cap VatLines(charged, "CREDIT") = {}
  <2>1. \A i, j \in DOMAIN invoices : invoices[i].entry = invoices[j].entry => i = j
    BY DEF Stores, InvoicesInv, InvoicesLinked
  <2>2. \A i \in issued : i \notin charged
    BY <1>1
  <2>3. QED
    BY <1>1, <2>1, <2>2 DEF VatLines
<1> DEFINE R == VatLines(issued, "CREDIT")
           S == VatLines(charged, "CREDIT")
<1>7. /\ IsFiniteSet(R) /\ TotalCzk(R) = SumOf(CzkColumn, R)
      /\ IsFiniteSet(S) /\ TotalCzk(S) = SumOf(CzkColumn, S)
      /\ IntValued(CzkColumn, R \cup S) /\ TotalCzk(R \cup S) = SumOf(CzkColumn, R \cup S)
  <2>1. R \in SUBSET VatLines(all, "CREDIT") /\ S \in SUBSET VatLines(all, "CREDIT")
    BY <1>5
  <2> HIDE DEF R, S
  <2>2. R \cup S \in SUBSET VatLines(all, "CREDIT")
    BY <2>1
  <2>3. QED
    BY <1>1, <2>1, <2>2, VatLinesSum
<1> HIDE DEF R, S
<1>8. SumOf(CzkColumn, R \cup S) = SumOf(CzkColumn, R) + SumOf(CzkColumn, S)
  BY <1>6, <1>7, SumUnion DEF R, S
<1>9. TotalCzk(VatLines(all, "CREDIT")) = TotalCzk(R) + TotalCzk(S)
  BY <1>5, <1>7, <1>8 DEF R, S
<1>10. QED
  BY <1>3, <1>4, <1>9 DEF R, S, all, issued, received, charged

\* The totals of a return are all that its invoices have on 343, the credit side
\* of self-assessed tax excepted.
LEMMA TotalsOnLedger ==
  ASSUME InvoicesLeaveVatAccount, Stores, ReturnsInv, NEW f \in filings, f.kind \in Returns
  PROVE  /\ TotalOut(f) + VatOnLedger(SelfAssessed(f), "CREDIT")
              = VatOnLedger(Behind(f), "CREDIT")
         /\ TotalIn(f) = VatOnLedger(Behind(f), "DEBIT")
<1>1. /\ TotalOut(f) = VatOnLedger(IdsIn(invoices, f.rows, "ISSUED"), "CREDIT")
      /\ TotalIn(f) = VatOnLedger(IdsIn(invoices, f.rows, "RECEIVED"), "DEBIT")
  BY DeclaredOnLedger DEF ReturnsInv
<1>2. QED
  BY <1>1, SidesOfReturn

\* What a VAT return declares is the tax the entries of the invoices it was made
\* from have on 343, whatever is posted, voided or recorded while it is generated
\* and after, for any lines, VAT rates, exchange rates and roundings, provided
\* that no invoice line names 343 itself.  Two things are stated with it: the
\* credit side of self-assessed tax is declared on no row, and an invoice that is
\* voided is declared like the others.
THEOREM ReturnsDeclareTheLedger ==
  ASSUME InvoicesLeaveVatAccount
  PROVE  FilingSpec => []ReturnsFollowLedger
<1>1. Stores /\ ReturnsInv => ReturnsFollowLedger
  <2> SUFFICES ASSUME Stores, ReturnsInv, NEW f \in filings, f.kind = "DPH_PRIZNANI"
               PROVE  /\ OutputTax(f) + VatOnLedger(SelfAssessed(f), "CREDIT")
                           = VatOnLedger(Behind(f), "CREDIT")
                      /\ InputTax(f) = VatOnLedger(Behind(f), "DEBIT")
    BY DEF ReturnsFollowLedger
  <2>1. f.kind \in Returns /\ TotalOut(f) = OutputTax(f) /\ TotalIn(f) = InputTax(f)
    BY DEF Returns, TotalOut, TotalIn
  <2>2. QED
    BY <2>1, TotalsOnLedger
<1>2. QED
  BY <1>1, ReturnsAlways, PTL

-----------------------------------------------------------------------------
(* Types. *)

\* The rows of the register without their flags.
AllKeys == {RowKey(row) : row \in vatRegister}

\* A record, a job and all jobs of their types, when there are n invoices.
FiledTyped(f, keys, n) ==
  /\ <<f.kind, f.label>> \in Labelled
  /\ f.content # NoFile
  /\ f.rows \subseteq keys
  /\ f.since \in 0 .. f.upto /\ f.upto \in 0 .. n

JobTyped(j, keys, n) ==
  \/ j.phase = "idle"
  \/ /\ j.phase \in {"checking", "reading"} /\ <<j.kind, j.label>> \in Labelled
     /\ (j.phase = "reading" => j.since \in 0 .. n)
  \/ j.phase = "written" /\ FiledTyped(j, keys, n)

JobsTyped ==
  /\ DOMAIN files = Labelled
  /\ \A c \in Clerks : JobTyped(job[c], AllKeys, Len(invoices))
  /\ \A f \in filings : FiledTyped(f, AllKeys, Len(invoices))

\* Every row of the register belongs to an invoice, so it is known.
LEMMA KnownKeys ==
  ASSUME RowsLinked, NEW rows \in SUBSET vatRegister
  PROVE  KnownRows(rows) = {RowKey(row) : row \in rows}
<1>1. {x \in rows : x.invoice \in DOMAIN invoices} = rows
  BY DEF RowsLinked
<1>2. QED
  BY <1>1 DEF KnownRows, RowKey

\* The keys of the register only grow, by keys of new invoices.
KeysGrow ==
  /\ AllKeys \subseteq AllKeys'
  /\ \A key \in AllKeys' : key \in AllKeys \/ key[1] \notin DOMAIN invoices

\* No step takes a row from the register or changes more of it than its flags.
LEMMA KeysKept ==
  ASSUME InvoicesInv, FilingInv, [FilingNext]_allFilingVars
  PROVE  KeysGrow
<1>1. RowsLinked
  BY DEF FilingInv
<1>2. CASE UNCHANGED vatRegister
  BY <1>2 DEF AllKeys, KeysGrow
<1>3. CASE InvoicesNext
  <2>1. RegisterInv
    BY <1>1 DEF RowsLinked, RegisterInv, FlaggedColumns
  <2>2. KnownRows(vatRegister') = KnownRows(vatRegister)
    BY <1>3, <2>1, RegisterStep
  <2>3. KnownRows(vatRegister) = AllKeys
    BY <1>1, KnownKeys DEF AllKeys
  <2>4. KnownRows(vatRegister') \subseteq AllKeys'
    BY DEF KnownRows, AllKeys, RowKey
  <2>5. ASSUME NEW key \in AllKeys', key[1] \in DOMAIN invoices
        PROVE  key \in AllKeys
    <3>1. PICK row \in vatRegister' : key = RowKey(row)
      BY DEF AllKeys
    <3>2. row.invoice \in DOMAIN invoices
      BY <2>5, <3>1, KeyOfRow
    <3>3. RowKey(row) \in KnownRows(vatRegister')
      BY <3>2 DEF KnownRows, RowKey
    <3>4. QED
      BY <2>2, <2>3, <3>1, <3>3
  <2>6. QED
    BY <2>2, <2>3, <2>4, <2>5 DEF KeysGrow
<1>4. ASSUME NEW c \in Clerks, RecordFiling(c)
      PROVE  KeysGrow
  <2> DEFINE kind == job[c].kind
             label == job[c].label
  <2>1. vatRegister' = {MarkedRow(kind, label, row) : row \in vatRegister}
    BY <1>4 DEF RecordFiling, Marked, MarkedRow
  <2>2. \A row \in vatRegister : RowKey(MarkedRow(kind, label, row)) = RowKey(row)
    BY <1>1, MarkedRowKeeps
  <2> HIDE DEF kind, label
  <2>3. AllKeys' = AllKeys
    BY <2>1, <2>2 DEF AllKeys
  <2>4. QED
    BY <2>3 DEF KeysGrow
<1>5. QED
  BY <1>2, <1>3, <1>4
  DEF FilingNext, Generation, BeginFiling, CheckBalanceSheet, ListSection, WriteFile, AbandonFiling,
      ScanPeriod, InvoicesNext, allFilingVars, allInvoiceVars, invoiceVars

\* What was typed stays so while rows and invoices are added.
LEMMA FiledTypedKept ==
  ASSUME NEW f, NEW old, NEW new, old \subseteq new, NEW m \in Nat, NEW n \in Nat, m <= n,
         FiledTyped(f, old, m)
  PROVE  FiledTyped(f, new, n)
BY DEF FiledTyped

\* A return or report that was read is not the placeholder of a missing file.
LEMMA DataIsContent ==
  ASSUME NEW j, <<j.kind, j.label>> \in Labelled
  PROVE  DataOf(j) # NoFile
<1>1. DOMAIN NoFile = {"none"}
  BY DEF NoFile
<1>2. DOMAIN DphData(j.label) = {"output", "input"}
  BY DEF DphData
<1>3. "a1" \in DOMAIN KhData(j.label, j.listed)
  BY DEF KhData
<1>4. DOMAIN ReportData(j.label) = {"closing"}
  BY DEF ReportData
<1>5. CASE j.kind = "DPH_PRIZNANI"
  <2>1. DataOf(j) = DphData(j.label)
    BY <1>5 DEF DataOf, Reports
  <2>2. QED
    BY <1>1, <1>2, <2>1
<1>6. CASE j.kind = "KONTROLNI_HLASENI"
  <2>1. DataOf(j) = KhData(j.label, j.listed)
    BY <1>6 DEF DataOf, Reports
  <2>2. QED
    BY <1>1, <1>3, <2>1
<1>7. CASE j.kind \in Reports
  <2>1. DataOf(j) = ReportData(j.label)
    BY <1>7 DEF DataOf, Reports
  <2>2. QED
    BY <1>1, <1>4, <2>1
<1>8. j.kind \in Returns \cup Reports
  BY FilingAssumption
<1>9. QED
  BY <1>5, <1>6, <1>7, <1>8 DEF Returns

\* What WriteFile hands to the record has the type of a record.
LEMMA WrittenTyped ==
  ASSUME RowsLinked, NEW j, <<j.kind, j.label>> \in Labelled, j.since \in 0 .. Len(invoices)
  PROVE  FiledTyped(Written(j), AllKeys, Len(invoices))
<1> DEFINE x == Written(j)
           rows == PeriodRows(j.label)
           n == Len(invoices)
<1>1. /\ x.kind = j.kind /\ x.label = j.label /\ x.content = DataOf(j)
      /\ x.rows \in {KnownRows(rows), {}}
      /\ x.since = j.since /\ x.upto = n
  BY DEF Written
<1>2. rows \in SUBSET vatRegister
  BY DEF PeriodRows
<1>3. n \in Nat
  BY DEF RowsLinked
<1> HIDE DEF x, rows, n
<1>4. x.rows \subseteq AllKeys
  BY <1>1, <1>2, KnownKeys DEF AllKeys
<1>5. x.content # NoFile
  BY <1>1, DataIsContent
<1>6. x.since \in 0 .. x.upto /\ x.upto \in 0 .. n
  BY <1>1, <1>3 DEF n
<1>7. QED
  BY <1>1, <1>4, <1>5, <1>6 DEF FiledTyped, x, n

\* What a job is made of when it is begun or has listed a section.
LEMMA BegunIs ==
  ASSUME NEW kind, NEW label
  PROVE  /\ Begun(kind, label).phase = "reading" /\ Begun(kind, label).kind = kind
         /\ Begun(kind, label).label = label /\ Begun(kind, label).listed = <<>>
         /\ Begun(kind, label).since = Len(invoices)
         /\ Checking(kind, label).phase = "checking" /\ Checking(kind, label).kind = kind
         /\ Checking(kind, label).label = label
BY DEF Begun, Reading, Checking

LEMMA WithSectionIs ==
  ASSUME NEW j
  PROVE  LET x == WithSection(j)
         IN  /\ x.phase = "reading" /\ x.kind = j.kind /\ x.label = j.label
             /\ x.since = j.since /\ x.listed = Append(j.listed, NextDetail(j))
BY DEF WithSection, Reading

\* Every step keeps the types.
LEMMA JobsTypedStep ==
  ASSUME InvoicesInv, FilingInv, FilingInv', JobsTyped, [FilingNext]_allFilingVars
  PROVE  JobsTyped'
<1> DEFINE m == Len(invoices)
           n == Len(invoices')
<1>1. AllKeys \subseteq AllKeys' /\ RowsLinked
  BY KeysKept DEF FilingInv, KeysGrow
<1>2. JobsMove
  BY StepMovesJobs DEF FilingInv
<1>3. m \in Nat /\ n \in Nat /\ m <= n
  BY StepKeepsInvoices, InvoicesGrow DEF FilingInv, RowsLinked
<1> HIDE DEF m, n
<1>4. ASSUME NEW f, FiledTyped(f, AllKeys, m)
      PROVE  FiledTyped(f, AllKeys', n)
  BY <1>1, <1>3, <1>4, FiledTypedKept
<1>5. ASSUME NEW c \in Clerks
      PROVE  JobTyped(job'[c], AllKeys', n)
  <2> DEFINE old == job[c]
             new == job'[c]
  <2> SUFFICES JobTyped(new, AllKeys', n)
    OBVIOUS
  <2>1. JobTyped(old, AllKeys, m)
    BY DEF JobsTyped, m
  <2>2. JobMoves(old, new)
    BY <1>2 DEF JobsMove
  <2> HIDE DEF old, new
  <2>3. CASE new = old
    <3>1. CASE old.phase = "written" /\ FiledTyped(old, AllKeys, m)
      BY <1>4, <2>3, <3>1 DEF JobTyped
    <3>2. CASE old.phase # "written"
      BY <1>3, <2>1, <2>3, <3>2 DEF JobTyped
    <3>3. QED
      BY <2>1, <3>1, <3>2 DEF JobTyped
  <2>4. CASE new = Idle
    BY <2>4 DEF JobTyped, Idle
  <2>5. ASSUME NEW kind, NEW label, new \in {Checking(kind, label), Begun(kind, label)},
               <<kind, label>> \in Labelled
        PROVE  JobTyped(new, AllKeys', n)
    BY <1>3, <2>5, BegunIs DEF JobTyped, m
  <2>6. CASE JustBegun(new)
    <3>1. PICK key \in Labelled : new \in {Checking(key[1], key[2]), Begun(key[1], key[2])}
      BY <2>6 DEF JustBegun
    <3>2. <<key[1], key[2]>> \in Labelled
      BY FilingAssumption
    <3>3. QED
      BY <2>5, <3>1, <3>2
  <2>7. CASE old.phase = "checking" /\ new = Begun(old.kind, old.label)
    <3>1. <<old.kind, old.label>> \in Labelled
      BY <2>1, <2>7 DEF JobTyped
    <3>2. QED
      BY <2>5, <2>7, <3>1
  <2>8. CASE old.phase = "reading" /\ new = WithSection(old)
    BY <1>3, <2>1, <2>8, WithSectionIs DEF JobTyped
  <2>9. CASE old.phase = "reading" /\ new = Written(old)
    <3>1. <<old.kind, old.label>> \in Labelled /\ old.since \in 0 .. m
      BY <2>1, <2>9 DEF JobTyped
    <3>2. FiledTyped(new, AllKeys', n)
      BY <1>1, <1>4, <2>9, <3>1, WrittenTyped DEF m
    <3>3. new.phase = "written"
      BY <2>9 DEF Written
    <3>4. QED
      BY <3>2, <3>3 DEF JobTyped
  <2>10. QED
    BY <2>2, <2>3, <2>4, <2>6, <2>7, <2>8, <2>9 DEF JobMoves
<1>6. ASSUME NEW f \in filings'
      PROVE  FiledTyped(f, AllKeys', n)
  <2>1. FiledTyped(f, AllKeys, m)
    <3>1. CASE f \in filings
      BY <3>1 DEF JobsTyped, m
    <3>2. ASSUME NEW c \in Clerks, job[c].phase = "written", f = RecordOf(job[c])
          PROVE  FiledTyped(f, AllKeys, m)
      <4>1. FiledTyped(job[c], AllKeys, m)
        BY <3>2 DEF JobsTyped, JobTyped, m
      <4>2. QED
        BY <3>2, <4>1 DEF FiledTyped, RecordOf
    <3>3. QED
      BY <1>2, <3>1, <3>2 DEF JobsMove
  <2>2. QED
    BY <1>4, <2>1
<1>7. DOMAIN files' = Labelled
  BY <1>2 DEF JobsMove, JobsTyped
<1>8. QED
  BY <1>5, <1>6, <1>7 DEF JobsTyped, n

LEMMA JobsTypedInit == FilingInit => JobsTyped
BY DEF FilingInit, JobsTyped, JobTyped, Idle

LEMMA JobsTypedAlways == FilingSpec => []JobsTyped
<1>1. /\ InvoicesInv /\ FilingInv /\ FilingInv'
      /\ JobsTyped /\ [FilingNext]_allFilingVars
      => JobsTyped'
  BY JobsTypedStep
<1>2. QED
  BY <1>1, JobsTypedInit, FilingInvariant, PTL DEF FilingSpec

\* A record has a kind, a label of that kind and a content, and the rows it was
\* made from are rows of the register, to which nothing is lost while clerks
\* generate and invoices are posted and voided.
THEOREM FilingTypeCorrect == FilingSpec => []FilingTypeOK
<1>1. FilingInv /\ JobsTyped => FilingTypeOK
  <2> SUFFICES ASSUME FilingInv, JobsTyped PROVE FilingTypeOK
    OBVIOUS
  <2>1. KnownRows(vatRegister) = AllKeys
    BY KnownKeys DEF FilingInv, AllKeys
  <2>2. \A c \in Clerks : job[c].phase \in {"idle", "checking", "reading", "written"}
    BY DEF JobsTyped, JobTyped
  <2>3. QED
    BY <2>1, <2>2 DEF JobsTyped, FiledTyped, FilingTypeOK
<1>2. QED
  BY <1>1, JobsTypedAlways, FilingInvariant, PTL

-----------------------------------------------------------------------------
(* The rows a control statement lists. *)

\* The rows of a month.
MonthKeys(label) == {key \in AllKeys : invoices[key[1]].request.vatPeriod = label}

\* The keys are rows of the month, among them all that the section lists, except
\* those of invoices after the first `since`.
SectionListed(keys, label, section, since) ==
  /\ keys \subseteq MonthKeys(label)
  /\ \A key \in MonthKeys(label) :
       key[5] = section /\ key[6] => key \in keys \/ key[1] > since

\* The sections a generation has listed so far.
SectionsListed(j) ==
  /\ \E S : j.listed \in Seq(S)
  /\ Len(j.listed) <= 3
  /\ \A k \in 1 .. Len(j.listed) :
       SectionListed(j.listed[k], j.label, ListedSections[k], j.since)

\* What is listed is totalled, and what is totalled and not listed came later.
ListedInTotals(x) ==
  /\ Listed(x) \subseteq x.rows
  /\ \A key \in x.rows : key[6] /\ key \notin Listed(x) => key[1] > x.since

\* The inductive invariant of what is listed.
ListingInv ==
  /\ \A c \in Clerks :
       /\ job[c].phase = "reading" => SectionsListed(job[c])
       /\ job[c].phase = "written" /\ job[c].kind = "KONTROLNI_HLASENI" => ListedInTotals(job[c])
  /\ \A f \in filings : f.kind = "KONTROLNI_HLASENI" => ListedInTotals(f)

\* The rows of the register of a month, by their keys.
LEMMA MonthKeysAre ==
  ASSUME RowsLinked, NEW label
  PROVE  KnownRows(PeriodRows(label)) = MonthKeys(label)
<1>1. PeriodRows(label) \in SUBSET vatRegister
  BY DEF PeriodRows
<1>2. KnownRows(PeriodRows(label)) = {RowKey(row) : row \in PeriodRows(label)}
  BY <1>1, KnownKeys
<1>3. \A row \in vatRegister :
        row \in PeriodRows(label) <=> invoices[RowKey(row)[1]].request.vatPeriod = label
  BY KeyOfRow DEF PeriodRows, RequestOf
<1>4. QED
  BY <1>1, <1>2, <1>3 DEF MonthKeys, AllKeys

\* Rows that are added to a month belong to new invoices.
LEMMA MonthKeysGrow ==
  ASSUME RowsLinked, RowsLinked', InvoicesKept, KeysGrow, NEW label
  PROVE  /\ MonthKeys(label) \subseteq MonthKeys(label)'
         /\ \A key \in MonthKeys(label)' : key \in MonthKeys(label) \/ key[1] > Len(invoices)
<1>1. \A key \in AllKeys : key[1] \in DOMAIN invoices
  BY KeyOfRow DEF RowsLinked, AllKeys
<1>2. \A key \in AllKeys' : key[1] \in DOMAIN invoices'
  BY KeyOfRow DEF RowsLinked, AllKeys
<1>3. \A i \in DOMAIN invoices : invoices'[i].request = invoices[i].request
  BY DEF InvoicesKept
<1>4. MonthKeys(label) \subseteq MonthKeys(label)'
  BY <1>1, <1>3 DEF MonthKeys, KeysGrow
<1>5. ASSUME NEW key \in MonthKeys(label)', key \notin MonthKeys(label)
      PROVE  key[1] > Len(invoices)
  <2>1. key \in AllKeys' /\ invoices'[key[1]].request.vatPeriod = label
    BY DEF MonthKeys
  <2>2. key[1] \notin DOMAIN invoices
    <3> SUFFICES ASSUME key[1] \in DOMAIN invoices PROVE FALSE
      OBVIOUS
    <3>1. key \in AllKeys
      BY <2>1 DEF KeysGrow
    <3>2. QED
      BY <1>3, <1>5, <2>1, <3>1 DEF MonthKeys
  <2>3. key[1] \in Nat \ {0} /\ DOMAIN invoices = 1 .. Len(invoices) /\ Len(invoices) \in Nat
    BY <1>2, <2>1 DEF RowsLinked
  <2>4. QED
    BY <2>2, <2>3
<1>6. QED
  BY <1>4, <1>5

LEMMA SectionsListedKept ==
  ASSUME RowsLinked, RowsLinked', InvoicesKept, KeysGrow, NEW j, SectionsListed(j),
         j.since \in 0 .. Len(invoices)
  PROVE  SectionsListed(j)'
<1> DEFINE old == MonthKeys(j.label)
           n == Len(invoices)
<1>1. /\ old \subseteq MonthKeys(j.label)'
      /\ \A key \in MonthKeys(j.label)' : key \in old \/ key[1] > n
  BY MonthKeysGrow
<1>2. n \in Nat /\ \A key \in AllKeys' : key[1] \in Nat
  <2>1. \A key \in AllKeys' : key[1] \in DOMAIN invoices'
    BY KeyOfRow DEF RowsLinked, AllKeys
  <2>2. QED
    BY <2>1 DEF RowsLinked
<1>3. ASSUME NEW k \in 1 .. Len(j.listed)
      PROVE  SectionListed(j.listed[k], j.label, ListedSections[k], j.since)'
  <2> DEFINE keys == j.listed[k]
             section == ListedSections[k]
             since == j.since
  <2>1. /\ keys \subseteq old
        /\ \A key \in old : key[5] = section /\ key[6] => key \in keys \/ key[1] > since
    BY DEF SectionsListed, SectionListed
  <2>2. keys \subseteq MonthKeys(j.label)'
    BY <1>1, <2>1
  <2>3. ASSUME NEW key \in MonthKeys(j.label)', key[5] = section, key[6]
        PROVE  key \in keys \/ key[1] > since
    <3>1. key[1] > n /\ key[1] \in Nat => key[1] > since
      BY <1>2
    <3>2. key[1] \in Nat
      BY <1>2 DEF MonthKeys
    <3> HIDE DEF keys, section, since, old, n
    <3>3. QED
      BY <1>1, <2>1, <2>3, <3>1, <3>2
  <2>4. QED
    BY <2>2, <2>3 DEF SectionListed
<1>4. QED
  BY <1>3 DEF SectionsListed

\* get_kh_detail_entries selects all the rows of its section there are.
LEMMA DetailListed ==
  ASSUME RowsLinked, NEW label, NEW section, NEW since
  PROVE  SectionListed(Detail(label, section), label, section, since)
<1> DEFINE rows == {row \in PeriodRows(label) : row.section = section /\ row.detail}
<1>1. Detail(label, section) = {RowKey(row) : row \in rows}
  <2>1. rows \in SUBSET vatRegister
    BY DEF PeriodRows
  <2>2. Detail(label, section) = KnownRows(rows)
    BY DEF Detail
  <2> HIDE DEF rows
  <2>3. QED
    BY <2>1, <2>2, KnownKeys
<1>2. MonthKeys(label) = {RowKey(row) : row \in PeriodRows(label)}
  <2>1. PeriodRows(label) \in SUBSET vatRegister
    BY DEF PeriodRows
  <2>2. QED
    BY <2>1, KnownKeys, MonthKeysAre
<1>3. \A row : RowKey(row)[5] = row.section /\ RowKey(row)[6] = row.detail
  BY DEF RowKey
<1>4. QED
  BY <1>1, <1>2, <1>3 DEF SectionListed

LEMMA WithSectionListed ==
  ASSUME RowsLinked, NEW j, SectionsListed(j), Listing(j)
  PROVE  SectionsListed(WithSection(j))
<1> DEFINE s == j.listed
           x == NextDetail(j)
           t == Append(s, x)
           n == Len(s)
<1>1. PICK S : s \in Seq(S)
  BY DEF SectionsListed
<1>2. s \in Seq(S \cup {x})
  BY <1>1
<1>3. /\ t \in Seq(S \cup {x}) /\ Len(t) = n + 1 /\ n \in Nat
      /\ t[n + 1] = x /\ \A k \in 1 .. n : t[k] = s[k]
  <2> HIDE DEF s, x
  <2>1. QED
    BY <1>2
<1>4. n < 3
  <2>1. Len(ListedSections) = 3
    BY DEF ListedSections
  <2>2. QED
    BY <2>1 DEF Listing
<1>5. SectionListed(x, j.label, ListedSections[n + 1], j.since)
  BY DetailListed DEF NextDetail
<1>6. \A k \in 1 .. n : SectionListed(s[k], j.label, ListedSections[k], j.since)
  BY DEF SectionsListed
<1> HIDE DEF s, x, t, n
<1>7. ASSUME NEW k \in 1 .. n + 1
      PROVE  SectionListed(t[k], j.label, ListedSections[k], j.since)
  <2>1. k \in 1 .. n \/ k = n + 1
    BY <1>3
  <2>2. QED
    BY <1>3, <1>5, <1>6, <2>1
<1>8. /\ WithSection(j).label = j.label /\ WithSection(j).since = j.since
      /\ WithSection(j).listed = t
  BY WithSectionIs DEF s, x, t
<1>9. Len(t) <= 3
  BY <1>3, <1>4
<1>10. QED
  BY <1>3, <1>7, <1>8, <1>9 DEF SectionsListed

\* Every row that is to be listed is of a section that is.
LEMMA DetailSection ==
  ASSUME Stores, NEW row \in vatRegister, row.detail
  PROVE  row.section \in {"A1", "B1", "B2"}
<1> DEFINE i == row.invoice
           r == invoices[i].request
           a == Amounts(r, invoices[i].rate)
<1>1. i \in DOMAIN invoices
  BY DEF Stores, RegisterStored, RowsTyped
<1>2. RowsStored(i, r, a, vatRegister)
  BY <1>1 DEF Stores, RegisterStored, InvoiceStored
<1>3. Agrees(row, RowFor(i, r, a, row.rate))
  <2>1. row \in {x \in vatRegister : x.invoice = i}
    OBVIOUS
  <2> HIDE DEF i, r, a
  <2>2. QED
    BY <1>2, <2>1 DEF RowsStored
<1> HIDE DEF i, r, a
<1>4. /\ row.section = Section(r, TotalVat(a))
      /\ row.detail = (Section(r, TotalVat(a)) \in DetailSections)
  <2>1. /\ row.section = RowFor(i, r, a, row.rate).section
        /\ row.detail = RowFor(i, r, a, row.rate).detail
    BY <1>3 DEF Agrees, RegisterColumns
  <2>2. QED
    BY <2>1 DEF RowFor, RegisterRow
<1>5. QED
  BY <1>4 DEF DetailSections

\* The totals of a control statement are read after its sections.
LEMMA WrittenListed ==
  ASSUME Stores, RowsLinked, NEW j, j.kind = "KONTROLNI_HLASENI", SectionsListed(j), ~Listing(j)
  PROVE  ListedInTotals(Written(j))
<1> DEFINE x == Written(j)
           month == MonthKeys(j.label)
<1>1. /\ x.rows = month /\ x.since = j.since
      /\ Listed(x) = j.listed[1] \cup j.listed[2] \cup j.listed[3]
  <2>1. DataOf(j) = KhData(j.label, j.listed)
    BY DEF DataOf, Reports
  <2>2. x.rows = month
    BY MonthKeysAre DEF Written, Returns
  <2>3. x.since = j.since /\ x.content = KhData(j.label, j.listed)
    BY <2>1 DEF Written
  <2>4. QED
    BY <2>2, <2>3 DEF Listed, KhData
<1>2. Len(j.listed) = 3
  <2>1. PICK S : j.listed \in Seq(S)
    BY DEF SectionsListed
  <2>2. Len(j.listed) \in Nat /\ Len(j.listed) <= 3
    BY <2>1 DEF SectionsListed
  <2>3. Len(ListedSections) = 3
    BY DEF ListedSections
  <2>4. ~(Len(j.listed) < Len(ListedSections))
    BY DEF Listing
  <2>5. ~(Len(j.listed) < 3)
    BY <2>3, <2>4
  <2>6. PICK len : len = Len(j.listed)
    OBVIOUS
  <2>7. len \in Nat /\ len <= 3 /\ ~(len < 3)
    BY <2>2, <2>5, <2>6
  <2>8. len = 3
    BY <2>7
  <2>9. QED
    BY <2>6, <2>8, Zenon
<1>3. /\ ListedSections[1] = "A1" /\ ListedSections[2] = "B1" /\ ListedSections[3] = "B2"
  BY DEF ListedSections
<1>4. /\ SectionListed(j.listed[1], j.label, "A1", j.since)
      /\ SectionListed(j.listed[2], j.label, "B1", j.since)
      /\ SectionListed(j.listed[3], j.label, "B2", j.since)
  <2>1. \A k \in {1, 2, 3} : SectionListed(j.listed[k], j.label, ListedSections[k], j.since)
    BY <1>2 DEF SectionsListed
  <2>2. QED
    BY <1>3, <2>1
<1>5. \A key \in month : key[6] => key[5] \in {"A1", "B1", "B2"}
  <2>1. ASSUME NEW row \in vatRegister, RowKey(row)[6]
        PROVE  RowKey(row)[5] \in {"A1", "B1", "B2"}
    <3>1. row.detail /\ RowKey(row)[5] = row.section
      BY <2>1 DEF RowKey
    <3>2. QED
      BY <3>1, DetailSection
  <2>2. QED
    BY <2>1 DEF MonthKeys, AllKeys
<1> HIDE DEF x, month
<1>6. Listed(x) \subseteq x.rows
  BY <1>1, <1>4 DEF SectionListed, month
<1>7. ASSUME NEW key \in x.rows, key[6], key \notin Listed(x)
      PROVE  key[1] > x.since
  BY <1>1, <1>4, <1>5, <1>7 DEF SectionListed, month
<1>8. QED
  BY <1>6, <1>7 DEF ListedInTotals, x

\* A job that is reading was so before, is begun, or has listed a section more.
LEMMA ReadingMoves ==
  ASSUME NEW old, NEW x, JobMoves(old, x), x.phase = "reading"
  PROVE  \/ x = old
         \/ x.listed = <<>>
         \/ old.phase = "reading" /\ Listing(old) /\ x = WithSection(old)
<1>1. Idle.phase = "idle" /\ Written(old).phase = "written"
  BY DEF Idle, Written
<1>2. JustBegun(x) => x.listed = <<>>
  <2>1. \A kind, label : x = Checking(kind, label) => FALSE
    BY BegunIs
  <2>2. \A kind, label : x = Begun(kind, label) => x.listed = <<>>
    BY BegunIs
  <2>3. QED
    BY <2>1, <2>2 DEF JustBegun
<1>3. x = Begun(old.kind, old.label) => x.listed = <<>>
  BY BegunIs
<1>4. QED
  BY <1>1, <1>2, <1>3 DEF JobMoves

LEMMA ListingStep ==
  ASSUME Stores, FilingInv, FilingInv', JobsTyped, ListingInv, [FilingNext]_allFilingVars
  PROVE  ListingInv'
<1>1. /\ InvoicesKept /\ KeysGrow /\ RowsLinked /\ RowsLinked' /\ JobsMove
  BY StepKeepsInvoices, KeysKept, StepMovesJobs DEF Stores, FilingInv
<1>2. ASSUME NEW c \in Clerks, job'[c].phase = "reading"
      PROVE  SectionsListed(job[c])'
  <2> DEFINE old == job[c]
  <2>1. old.phase = "reading" => SectionsListed(old) /\ old.since \in 0 .. Len(invoices)
    BY DEF ListingInv, JobsTyped, JobTyped
  <2>2. PICK x : x = job'[c]
    OBVIOUS
  <2>3. JobMoves(old, x) /\ x.phase = "reading"
    BY <1>1, <1>2, <2>2 DEF JobsMove
  <2> HIDE DEF old
  <2>4. \/ x = old \/ x.listed = <<>>
        \/ old.phase = "reading" /\ Listing(old) /\ x = WithSection(old)
    BY <2>3, ReadingMoves
  <2>5. SectionsListed(x)'
    <3>1. CASE x.listed = <<>>
      <4>1. x.listed \in Seq({}) /\ Len(x.listed) = 0
        BY <3>1
      <4>2. QED
        BY <4>1 DEF SectionsListed
    <3>2. CASE x.listed # <<>>
      <4>1. CASE x = old
        BY <1>1, <2>1, <2>3, <4>1, SectionsListedKept
      <4>2. CASE old.phase = "reading" /\ Listing(old) /\ x = WithSection(old)
        <5>1. SectionsListed(x) /\ x.since \in 0 .. Len(invoices)
          BY <1>1, <2>1, <4>2, WithSectionListed, WithSectionIs
        <5>2. QED
          BY <1>1, <5>1, SectionsListedKept
      <4>3. QED
        BY <2>4, <3>2, <4>1, <4>2
    <3>3. QED
      BY <3>1, <3>2
  <2>6. QED
    BY <2>2, <2>5 DEF SectionsListed, SectionListed, MonthKeys
<1>3. ASSUME NEW c \in Clerks, job'[c].phase = "written", job'[c].kind = "KONTROLNI_HLASENI"
      PROVE  ListedInTotals(job'[c])
  <2> DEFINE old == job[c]
             x == job'[c]
  <2>1. /\ old.phase = "reading" => SectionsListed(old)
        /\ old.phase = "written" /\ old.kind = "KONTROLNI_HLASENI" => ListedInTotals(old)
    BY DEF ListingInv
  <2>2. JobMoves(old, x) /\ x.phase = "written" /\ x.kind = "KONTROLNI_HLASENI"
    BY <1>1, <1>3 DEF JobsMove
  <2> HIDE DEF old, x
  <2>3. x = old \/ (old.phase = "reading" /\ ~Listing(old) /\ x = Written(old))
    BY <2>2, NotWritten
  <2>4. CASE x = old
    BY <2>1, <2>2, <2>4 DEF x
  <2>5. CASE old.phase = "reading" /\ ~Listing(old) /\ x = Written(old)
    <3>1. old.kind = "KONTROLNI_HLASENI"
      BY <2>2, <2>5 DEF Written
    <3>2. QED
      BY <1>1, <2>1, <2>5, <3>1, WrittenListed DEF x
  <2>6. QED
    BY <2>3, <2>4, <2>5
<1>4. ASSUME NEW f \in filings', f.kind = "KONTROLNI_HLASENI"
      PROVE  ListedInTotals(f)
  <2>1. CASE f \in filings
    BY <1>4, <2>1 DEF ListingInv
  <2>2. ASSUME NEW c \in Clerks, job[c].phase = "written", f = RecordOf(job[c])
        PROVE  ListedInTotals(f)
    <3>1. /\ f.kind = job[c].kind /\ f.content = job[c].content /\ f.rows = job[c].rows
          /\ f.since = job[c].since
      BY <2>2 DEF RecordOf
    <3>2. ListedInTotals(job[c])
      BY <1>4, <2>2, <3>1 DEF ListingInv
    <3>3. QED
      BY <3>1, <3>2 DEF ListedInTotals, Listed
  <2>3. QED
    BY <1>1, <2>1, <2>2 DEF JobsMove
<1>5. QED
  BY <1>2, <1>3, <1>4 DEF ListingInv

\* A control statement totals all the invoices of its month, the rows it lists
\* included; a row it totals and should list but does not is one of an invoice
\* that was posted while it was being read.  For any number of clerks, invoices
\* and requests between its four SELECTs, provided that no invoice line names 343.
THEOREM StatementTotalsIncludeListed ==
  ASSUME InvoicesLeaveVatAccount
  PROVE  FilingSpec => []KhTotalsIncludeListed
<1>1. Stores /\ FilingInv /\ ReturnsInv /\ ListingInv => KhTotalsIncludeListed
  <2> SUFFICES ASSUME Stores, FilingInv, ReturnsInv, ListingInv,
                      NEW f \in filings, f.kind = "KONTROLNI_HLASENI"
               PROVE  /\ f.content.a2.tax + VatOnLedger(SelfAssessed(f), "CREDIT")
                           = VatOnLedger(Behind(f), "CREDIT")
                      /\ f.content.b3.tax = VatOnLedger(Behind(f), "DEBIT")
                      /\ Listed(f) \subseteq f.rows
                      /\ \A row \in vatRegister :
                           row.detail /\ KnownRows({row}) \subseteq f.rows \ Listed(f)
                             => row.invoice > f.since
    BY DEF KhTotalsIncludeListed
  <2>1. f.kind \in Returns /\ TotalOut(f) = f.content.a2.tax /\ TotalIn(f) = f.content.b3.tax
    BY DEF Returns, TotalOut, TotalIn
  <2>2. /\ f.content.a2.tax + VatOnLedger(SelfAssessed(f), "CREDIT")
              = VatOnLedger(Behind(f), "CREDIT")
        /\ f.content.b3.tax = VatOnLedger(Behind(f), "DEBIT")
    BY <2>1, TotalsOnLedger
  <2>3. ListedInTotals(f)
    BY DEF ListingInv
  <2>4. ASSUME NEW row \in vatRegister, row.detail,
               KnownRows({row}) \subseteq f.rows \ Listed(f)
        PROVE  row.invoice > f.since
    <3>1. KnownRows({row}) = {RowKey(row)}
      BY KnownRow DEF FilingInv
    <3>2. RowKey(row)[6] = row.detail /\ RowKey(row)[1] = row.invoice
      BY DEF RowKey
    <3>3. RowKey(row) \in f.rows /\ RowKey(row) \notin Listed(f)
      BY <2>4, <3>1
    <3>4. QED
      BY <2>3, <2>4, <3>2, <3>3 DEF ListedInTotals
  <2>5. QED
    BY <2>2, <2>3, <2>4 DEF ListedInTotals
<1>2. FilingInit => ListingInv
  BY DEF FilingInit, ListingInv, Idle
<1>3. Stores /\ FilingInv /\ FilingInv' /\ JobsTyped /\ ListingInv /\ [FilingNext]_allFilingVars
        => ListingInv'
  BY ListingStep
<1>4. QED
  BY <1>1, <1>2, <1>3, ReturnsAlways, JobsTypedAlways, PTL DEF FilingSpec
=============================================================================
