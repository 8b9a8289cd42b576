--------------------------- MODULE LedgerSessions ---------------------------
(***************************************************************************)
(* The ledger requests of Ledger, statement by statement.                  *)
(*                                                                         *)
(* Each request is one database transaction at READ COMMITTED: a SELECT    *)
(* sees what is committed when it runs and what its own transaction wrote. *)
(* Requests interleave at every await.  An UPDATE or a conflicting INSERT  *)
(* waits for the transaction that holds the row; PostgreSQL aborts one of  *)
(* a cycle of waiting transactions.  The ORM sends an UPDATE only for the  *)
(* columns whose value differs from the value it loaded.                   *)
(*                                                                         *)
(* The committed tables are the variables of Ledger: a request that ran    *)
(* with no other in flight commits as one step of Ledger.                  *)
(* Amounts are in CZK; corrections are in Ledger only.                     *)
(***************************************************************************)
EXTENDS Ledger

CONSTANTS
  Sessions,    \* API requests that can be in flight
  MaxRequests  \* bound: requests of a behaviour

ASSUME SessionsAssumption == MaxRequests \in Nat

VARIABLES
  pc,      \* the next statement of each session
  op,      \* the request it executes
  own,     \* its uncommitted writes; writing a row holds the row's lock
  work,    \* its local variables
  started  \* requests begun so far

sessionVars == <<pc, op, own, work, started>>
allVars == <<period, entries, lines, balances, pc, op, own, work, started>>

Idle(s) == pc[s] = "idle"
Active == {s \in Sessions : ~Idle(s)}

NoFunction == [k \in {} |-> NoRow]
NoWrites == [entry |-> <<>>, lines |-> {}, rows |-> NoFunction, voided |-> {}, closed |-> {}]
NoWork == [todo |-> {}, period |-> 0, account |-> "", totals |-> <<0, 0, 0>>,
           loaded |-> NoRow, voidDone |-> FALSE, next |-> 0,
           carry |-> NoFunction, alone |-> TRUE]
NoOp == [kind |-> "none"]

----------------------------------------------------------------------------
(* What a transaction sees, and what makes it wait. *)

\* Its own entry and lines come after the committed ones.
SeenEntries(s) ==
  [e \in DOMAIN entries |-> IF e \in own[s].voided
                            THEN [entries[e] EXCEPT !.status = "voided"] ELSE entries[e]]
    \o own[s].entry

SeenLines(s) ==
  lines \cup {[l EXCEPT !.entry = Len(entries) + 1] : l \in own[s].lines}

SeenRow(s, key) ==
  IF key \in DOMAIN own[s].rows THEN own[s].rows[key] ELSE balances[key[1]][key[2]]

HoldsRow(s, key) == key \in DOMAIN own[s].rows
Others(s) == Sessions \ {s}
RowFree(s, key) == \A t \in Others(s) : ~HoldsRow(t, key)
EntryFree(s, id) == \A t \in Others(s) : id \notin own[t].voided
PeriodFree(s, p) == \A t \in Others(s) : p \notin own[t].closed

WorkKey(s) == <<work[s].period, work[s].account>>

\* The rows the next statement of s needs to lock.
NeededBy(s) ==
  CASE pc[s] = "flush" -> {WorkKey(s)}
    [] pc[s] = "close_insert" -> {<<work[s].next, a>> : a \in work[s].todo}
    [] OTHER -> {}

\* The sessions s may have to wait for, when others may be waiting for s: a request
\* that opens or locks a period holds no row until it commits, and none waits for it.
Blockers(s) ==
  {t \in Others(s) :
     \/ \E key \in NeededBy(s) : HoldsRow(t, key)
     \/ pc[s] = "void" /\ op[s].id \in own[t].voided
     \/ pc[s] = "close_update" /\ op[s].period \in own[t].closed}

----------------------------------------------------------------------------
(* Begin, commit and roll back. *)

Begin(s, request, first) ==
  /\ Idle(s)
  /\ started < MaxRequests
  /\ started' = started + 1
  /\ op' = [op EXCEPT ![s] = request]
  /\ pc' = [pc EXCEPT ![s] = first]
  /\ work' = [t \in Sessions |->
       IF t = s THEN [NoWork EXCEPT !.alone = (Active = {})]
       ELSE [work[t] EXCEPT !.alone = FALSE]]
  /\ UNCHANGED <<period, entries, lines, balances, own>>

BeginPost(s, req, p) ==
  /\ Len(entries) + Cardinality(Active) < MaxEntries
  /\ Acceptable(req)
  /\ Begin(s, [kind |-> "post", req |-> req, period |-> p, reverses |-> NoEntry], "period")

BeginReverse(s, id, p) ==
  /\ Len(entries) + Cardinality(Active) < MaxEntries
  /\ Begin(s, [kind |-> "reverse", id |-> id, period |-> p], "original")

BeginClose(s, p) == Begin(s, [kind |-> "close", period |-> p], "close_select")
BeginOpen(s, p) == Begin(s, [kind |-> "open", period |-> p], "status_select")
BeginLock(s, p) == Begin(s, [kind |-> "lock", period |-> p], "status_select")

\* Mutant: the connection goes back to the pool with its transaction open.
FinishLeakingWrites(s) ==
  /\ pc' = [pc EXCEPT ![s] = "idle"]
  /\ op' = [op EXCEPT ![s] = NoOp]
  /\ work' = [work EXCEPT ![s] = NoWork]
  /\ UNCHANGED <<own, started>>

Finish(s) ==
  /\ pc' = [pc EXCEPT ![s] = "idle"]
  /\ op' = [op EXCEPT ![s] = NoOp]
  /\ own' = [own EXCEPT ![s] = NoWrites]
  /\ work' = [work EXCEPT ![s] = NoWork]
  /\ UNCHANGED started

Rollback(s) == Finish(s) /\ UNCHANGED <<period, entries, lines, balances>>

CommitTransaction(s) ==
  /\ pc[s] = "commit"
  /\ entries' = SeenEntries(s)
  /\ lines' = SeenLines(s)
  /\ balances' = [p \in Periods |-> [a \in Accounts |-> SeenRow(s, <<p, a>>)]]
  /\ period' = [p \in Periods |-> IF p \in own[s].closed
                                  THEN [status |-> "closed", current |-> FALSE]
                                  ELSE period[p]]
  /\ Finish(s)

\* PostgreSQL ends one transaction of a cycle of waits with an error.
DeadlockVictim(s) ==
  /\ \E cycle \in SUBSET Active :
       s \in cycle /\ \A t \in cycle : Blockers(t) \cap cycle # {}
  /\ Rollback(s)

----------------------------------------------------------------------------
(* The statements of post_journal_entry. *)

Goto(s, label) == pc' = [pc EXCEPT ![s] = label]
KeepTables == UNCHANGED <<period, entries, lines, balances, op, started>>

\* _get_open_period; the account checks read constant rows.
SelectPeriod(s) ==
  /\ pc[s] = "period"
  /\ \/ /\ period[op[s].period].status = "open"
        /\ Goto(s, "insert")
        /\ KeepTables /\ UNCHANGED <<own, work>>
     \/ /\ period[op[s].period].status # "open"
        /\ Rollback(s)

\* The entry and its lines are flushed.  Foreign keys lock the period and the
\* original FOR KEY SHARE, which an UPDATE of their status does not wait for.
Insert(s) ==
  /\ pc[s] = "insert"
  /\ own' = [own EXCEPT
       ![s].entry = <<[period |-> op[s].period, status |-> "posted",
                       type |-> IF op[s].kind = "post" THEN "STANDARD" ELSE "REVERSAL",
                       reverses |-> op[s].reverses, currency |-> "CZK"]>>,
       ![s].lines = LineRows(1, op[s].req, RateScale)]
  /\ work' = [work EXCEPT ![s].todo = AccountsOf(op[s].req), ![s].period = op[s].period]
  /\ Goto(s, "sum")
  /\ KeepTables

\* The aggregate of _recompute_account_balance for one of the accounts, in any
\* order: affected_accounts is a set.
SumLines(s) ==
  /\ pc[s] = "sum"
  /\ \E a \in work[s].todo :
       LET rows == PostedLines(SeenEntries(s), SeenLines(s), work[s].period, a)
       IN  work' = [work EXCEPT
             ![s].account = a,
             ![s].totals = <<TotalCzk(OnSide(rows, "DEBIT")),
                             TotalCzk(OnSide(rows, "CREDIT")), Cardinality(rows)>>]
  /\ Goto(s, "read")
  /\ KeepTables /\ UNCHANGED own

\* SELECT of the balance row.  The object of an earlier recomputation was flushed
\* and is no longer referenced, so its attributes come from the row.
SelectRow(s) ==
  /\ pc[s] = "read"
  /\ work' = [work EXCEPT ![s].loaded = SeenRow(s, WorkKey(s))]
  /\ Goto(s, "flush")
  /\ KeepTables /\ UNCHANGED own

\* Mutant: the lines of the request are added to the totals of the row.
NewRowIncremented(s) ==
  LET mine == {l \in own[s].lines : l.account = work[s].account}
      old == IF work[s].loaded = NoRow THEN Row(work[s].account, 0, 0, 0, 0)
             ELSE work[s].loaded
  IN  Row(work[s].account, old.opening, old.debit + TotalCzk(OnSide(mine, "DEBIT")),
          old.credit + TotalCzk(OnSide(mine, "CREDIT")), old.count + Cardinality(mine))

\* Mutant: the opening balance is assigned like the other columns.
NewRowOpeningZero(s) ==
  Row(work[s].account, 0, work[s].totals[1], work[s].totals[2], work[s].totals[3])

\* The attributes the function assigns.
NewRow(s) ==
  Row(work[s].account, IF work[s].loaded = NoRow THEN 0 ELSE work[s].loaded.opening,
      work[s].totals[1], work[s].totals[2], work[s].totals[3])

\* UPDATE sets the columns that changed since they were loaded, on the row as it
\* is once its lock is granted.
Updated(current, loaded, new) ==
  [c \in RowColumns |-> IF new[c] # loaded[c] THEN new[c] ELSE current[c]]

WithRow(f, key, row) == [k \in DOMAIN f \cup {key} |-> IF k = key THEN row ELSE f[k]]

\* Mutant: the reversal commits without the step that voids the original.
AfterRowNoVoid(s) ==
  IF work[s].todo \ {work[s].account} # {} THEN "sum" ELSE "commit"

\* What follows when the balance of the account at hand is written.
AfterRow(s) ==
  LET rest == work[s].todo \ {work[s].account}
  IN  IF rest # {} THEN "sum"
      ELSE IF op[s].kind = "reverse" /\ ~work[s].voidDone THEN "void" ELSE "commit"

RowDone(s) ==
  /\ work' = [work EXCEPT ![s].todo = @ \ {work[s].account}]
  /\ Goto(s, AfterRow(s))

\* The autoflush of the next query, an INSERT of a new row or an UPDATE.  The
\* query for the account flushes the turnovers and the one after it the closing
\* balance; the first holds the row's lock, so they are one step.
FlushRow(s) ==
  /\ pc[s] = "flush"
  /\ LET key == WorkKey(s)
         current == SeenRow(s, key)
     IN  \/ /\ work[s].loaded = NoRow /\ current = NoRow /\ RowFree(s, key)
            /\ own' = [own EXCEPT ![s].rows = WithRow(@, key, NewRow(s))]
            /\ RowDone(s) /\ KeepTables
         \/ /\ work[s].loaded = NoRow /\ current # NoRow /\ RowFree(s, key)
            /\ Rollback(s)   \* uq_balance_period_account
         \/ /\ work[s].loaded # NoRow /\ NewRow(s) # work[s].loaded /\ RowFree(s, key)
            /\ own' = [own EXCEPT ![s].rows =
                  WithRow(@, key, Updated(current, work[s].loaded, NewRow(s)))]
            /\ RowDone(s) /\ KeepTables
         \/ /\ work[s].loaded # NoRow /\ NewRow(s) = work[s].loaded
            /\ RowDone(s) /\ KeepTables /\ UNCHANGED own

----------------------------------------------------------------------------
(* The statements of reverse_journal_entry around those of the posting. *)

OriginalOk(id) == entries[id].status = "posted" /\ Reversible(lines, id)

SelectOriginal(s) ==
  LET id == op[s].id
  IN  /\ pc[s] = "original"
      /\ \/ /\ OriginalOk(id)
            /\ op' = [op EXCEPT ![s] =
                 [kind |-> "reverse", id |-> id, req |-> MirrorOf(lines, id),
                  period |-> op[s].period, reverses |-> id]]
            /\ Goto(s, "period")
            /\ UNCHANGED <<period, entries, lines, balances, own, work, started>>
         \/ /\ ~OriginalOk(id)
            /\ Rollback(s)

\* Mutant: the UPDATE is restricted to a status no entry has.
VoidedByNone(id) == {}

\* UPDATE ... WHERE id = :id AND status = 'posted': when another transaction has
\* voided the entry it matches no row, and the row count is not looked at.
VoidedBy(id) == {e \in {id} : entries[e].status = "posted"}

VoidOriginal(s) ==
  LET id == op[s].id
  IN  /\ pc[s] = "void"
      /\ EntryFree(s, id)
      /\ own' = [own EXCEPT ![s].voided = VoidedBy(id)]
      /\ work' = [work EXCEPT ![s].voidDone = TRUE,
                              ![s].todo = AccountsOfEntry(lines, id),
                              ![s].period = entries[id].period]
      /\ Goto(s, "sum")
      /\ KeepTables

----------------------------------------------------------------------------
(* The statements of close_period. *)

SelectClosing(s) ==
  /\ pc[s] = "close_select"
  /\ \/ /\ period[op[s].period].status = "open"
        /\ Goto(s, "close_update")
        /\ KeepTables /\ UNCHANGED <<own, work>>
     \/ /\ period[op[s].period].status # "open"
        /\ Rollback(s)

\* The flush of the new status is an UPDATE by primary key: it waits for a
\* concurrent closing and then overwrites its result.
UpdateClosing(s) ==
  /\ pc[s] = "close_update"
  /\ PeriodFree(s, op[s].period)
  /\ own' = [own EXCEPT ![s].closed = {op[s].period}]
  /\ Goto(s, "close_next")
  /\ KeepTables /\ UNCHANGED work

SelectNext(s) ==
  /\ pc[s] = "close_next"
  /\ \/ /\ NextPeriods(op[s].period) = {}
        /\ Goto(s, "commit")
        /\ UNCHANGED work
     \/ \E q \in NextPeriods(op[s].period) :
          /\ work' = [work EXCEPT ![s].next = q]
          /\ Goto(s, "close_read")
  /\ KeepTables /\ UNCHANGED own

\* The balances of the closing period, as committed now.
SelectBalances(s) ==
  /\ pc[s] = "close_read"
  /\ work' = [work EXCEPT
       ![s].todo = Carried(op[s].period),
       ![s].carry = [a \in Carried(op[s].period) |-> balances[op[s].period][a].closing]]
  /\ Goto(s, IF Carried(op[s].period) = {} THEN "commit" ELSE "close_insert")
  /\ KeepTables /\ UNCHANGED own

InsertOpening(s) ==
  /\ pc[s] = "close_insert"
  /\ \E a \in work[s].todo :
       LET key == <<work[s].next, a>>
       IN  /\ RowFree(s, key)
           /\ \/ /\ SeenRow(s, key) = NoRow
                 /\ own' = [own EXCEPT ![s].rows =
                       WithRow(@, key, Row(a, work[s].carry[a], 0, 0, 0))]
                 /\ work' = [work EXCEPT ![s].todo = @ \ {a}]
                 /\ Goto(s, IF work[s].todo = {a} THEN "commit" ELSE "close_insert")
                 /\ KeepTables
              \/ /\ SeenRow(s, key) # NoRow
                 /\ Rollback(s)   \* uq_balance_period_account

----------------------------------------------------------------------------
(* The statements of open_period and lock_period. *)

StatusBefore(kind) == IF kind = "open" THEN "draft" ELSE "closed"

SelectStatus(s) ==
  /\ pc[s] = "status_select"
  /\ \/ /\ period[op[s].period].status = StatusBefore(op[s].kind)
        /\ Goto(s, "status_update")
        /\ KeepTables /\ UNCHANGED <<own, work>>
     \/ /\ period[op[s].period].status # StatusBefore(op[s].kind)
        /\ Rollback(s)

\* The UPDATE by primary key is flushed when the transaction commits: it waits for
\* a closing that holds the row and then writes its own status over the result.
UpdateStatus(s) ==
  LET p == op[s].period
  IN  /\ pc[s] = "status_update"
      /\ PeriodFree(s, p)
      /\ \/ /\ op[s].kind = "open"
            /\ period' = [period EXCEPT ![p] = [status |-> "open", current |-> TRUE]]
         \/ /\ op[s].kind = "lock"
            /\ period' = [period EXCEPT ![p].status = "locked"]
      /\ Finish(s)
      /\ UNCHANGED <<entries, lines, balances>>

----------------------------------------------------------------------------
SessionsInit ==
  /\ Init
  /\ pc = [s \in Sessions |-> "idle"]
  /\ op = [s \in Sessions |-> NoOp]
  /\ own = [s \in Sessions |-> NoWrites]
  /\ work = [s \in Sessions |-> NoWork]
  /\ started = 0

Client(s) ==
  \/ \E req \in Requests, p \in Periods : BeginPost(s, req, p)
  \/ \E id \in DOMAIN entries, p \in Periods : BeginReverse(s, id, p)
  \/ \E p \in Periods : BeginClose(s, p) \/ BeginOpen(s, p) \/ BeginLock(s, p)

Statement(s) ==
  \/ SelectPeriod(s) \/ Insert(s) \/ SumLines(s) \/ SelectRow(s) \/ FlushRow(s)
  \/ SelectOriginal(s) \/ VoidOriginal(s)
  \/ SelectClosing(s) \/ UpdateClosing(s) \/ SelectNext(s) \/ SelectBalances(s)
  \/ InsertOpening(s)
  \/ SelectStatus(s) \/ UpdateStatus(s)
  \/ CommitTransaction(s)
  \/ DeadlockVictim(s)

\* The seed script, a process of its own.  No request inserts or deletes a period:
\* what its SELECT saw holds until its INSERT commits, and the two are one step.
RunSeed(p) ==
  /\ SeedPeriod(p)
  /\ work' = [s \in Sessions |-> [work[s] EXCEPT !.alone = Idle(s)]]
  /\ UNCHANGED <<pc, op, own, started>>

SessionsNext ==
  \/ \E s \in Sessions : Client(s) \/ Statement(s)
  \/ \E p \in Periods : RunSeed(p)

SessionsSpec == SessionsInit /\ [][SessionsNext]_allVars

\* The server keeps executing the statements of a request that has begun; a
\* client need not send one.
FairSessionsSpec == SessionsSpec /\ \A s \in Sessions : WF_allVars(Statement(s))

----------------------------------------------------------------------------
(* Type invariant. *)

Labels == {"idle", "period", "insert", "sum", "read", "flush", "original", "void",
           "close_select", "close_update", "close_next", "close_read", "close_insert",
           "status_select", "status_update", "commit"}

\* A session that is idle holds no lock; an in-flight one has at most one entry.
SessionsTypeOK ==
  /\ TypeOK
  /\ pc \in [Sessions -> Labels]
  /\ \A s \in Sessions :
       /\ Idle(s) => own[s] = NoWrites
       /\ Len(own[s].entry) <= 1
       /\ DOMAIN own[s].rows \subseteq Periods \X Accounts
       /\ work[s].todo \subseteq Accounts
  /\ started \in 0 .. MaxRequests

----------------------------------------------------------------------------
(* What holds however requests interleave. *)

\* An entry leaves the books only with a committed reversal, and every reversal
\* is of a voided entry: the two commit together.
VoidedHasReversal ==
  \A e \in DOMAIN entries :
    entries[e].status = "voided" <=> \E r \in DOMAIN entries : entries[r].reverses = e

\* A balance row a lost update has made wrong is right again once a request that
\* touches it has run with no other in flight: the sums are recomputed from the
\* lines, never incremented.
SoloCommitHeals ==
  [][\A s \in Sessions :
       pc[s] = "commit" /\ pc'[s] = "idle" /\ work[s].alone /\ op[s].kind # "close" =>
         \A key \in DOMAIN own[s].rows :
           RowMatches(entries', lines', balances'[key[1]][key[2]], key[1], key[2])]_allVars

\* A request that ran with no other in flight commits as one step of Ledger, its
\* dozen statements together: posting, reversal, closing, opening or locking, on
\* whatever tables the interleavings before it have left.
SoloCommitsAreLedgerSteps ==
  [][\A s \in Sessions :
       pc[s] \in {"commit", "status_update"} /\ pc'[s] = "idle" /\ work[s].alone
         => Next]_allVars

\* Every request that has begun commits or is rolled back: waits for locks end,
\* because PostgreSQL breaks their cycles.
EveryRequestEnds == \A s \in Sessions : pc[s] # "idle" ~> pc[s] = "idle"

=============================================================================
