--------------------------- MODULE SessionsProofs ---------------------------
(***************************************************************************)
(* Theorems about LedgerSessions, whatever requests interleave.            *)
(*                                                                         *)
(* VoidedOnlyWithReversal: an entry leaves the books only together with    *)
(* its reversal.  The property is of committed entries, and not inductive: *)
(* a commit keeps it because of what the session has in its transaction.   *)
(* SessionsInv adds, for each session, what it holds at each of its        *)
(* statements; above all, that a reversal that is ready to commit has      *)
(* voided its original, or that another transaction did so before.         *)
(*                                                                         *)
(* SessionsTypeCorrect: the types, by TypedSessions, which adds what each  *)
(* session has read and written and that a row once there stays.           *)
(*                                                                         *)
(* LoneRequestsRefineLedger: a request with no other in flight commits as  *)
(* one step of Ledger.  SoloSessions says what it sees at each statement:  *)
(* the tables before the part it is in (Base), except for the rows it has  *)
(* already recomputed, which are those of the tables after it (Goal).      *)
(* LoneRequestsHeal: the rows it leaves agree with the lines.              *)
(*                                                                         *)
(* OpeningsStayInterleaved: no interleaving changes an opening balance, by *)
(* LockInv: a row is written by one transaction at a time, which keeps the *)
(* opening balance that is committed.                                      *)
(***************************************************************************)
EXTENDS LedgerSessions, LedgerProofs

CloseLabels == {"close_select", "close_update", "close_next", "close_read", "close_insert"}
StatusLabels == {"status_select", "status_update"}
PeriodKinds == {"close", "open", "lock"}

\* Arrays of sessions, and the columns of their records.
SessionsShaped ==
  /\ pc = [s \in Sessions |-> pc[s]]
  /\ op = [s \in Sessions |-> op[s]]
  /\ own = [s \in Sessions |-> [entry |-> own[s].entry, lines |-> own[s].lines,
                                rows |-> own[s].rows, voided |-> own[s].voided,
                                closed |-> own[s].closed]]
  /\ work = [s \in Sessions |->
               [todo |-> work[s].todo, period |-> work[s].period, account |-> work[s].account,
                totals |-> work[s].totals, loaded |-> work[s].loaded,
                voidDone |-> work[s].voidDone, next |-> work[s].next,
                carry |-> work[s].carry, alone |-> work[s].alone]]

EntriesShaped ==
  /\ entries \in Seq(Entry)
  /\ \A e \in DOMAIN entries : entries[e].reverses <= Len(entries)

NothingVoided(s) == own[s].entry = <<>> /\ own[s].voided = {}

\* A request about a period posts nothing.
IsClosing(s) ==
  /\ pc[s] \in CloseLabels \cup StatusLabels \cup {"commit"}
  /\ op[s].kind \in PeriodKinds
  /\ NothingVoided(s)

IsLooking(s) ==
  /\ pc[s] = "original"
  /\ NothingVoided(s)
  /\ op[s].id \in DOMAIN entries
  /\ op[s].period \in Periods
  /\ ~work[s].voidDone

\* A posting reverses nothing, a reversal the entry it is about.
ReversesOk(s) ==
  /\ op[s].reverses \in Nat
  /\ op[s].reverses <= Len(entries)
  /\ \/ op[s].kind = "post" /\ op[s].reverses = NoEntry
     \/ op[s].kind = "reverse" /\ op[s].reverses = op[s].id /\ op[s].id \in DOMAIN entries

IsStarting(s) ==
  /\ pc[s] \in {"period", "insert"}
  /\ NothingVoided(s)
  /\ op[s].period \in Periods
  /\ ReversesOk(s)
  /\ ~work[s].voidDone

\* The original is voided, by this transaction or by one that has committed.
OriginalGone(s) ==
  op[s].id \in own[s].voided \/ entries[op[s].id].status = "voided"

IsWriting(s) ==
  /\ pc[s] \in {"sum", "read", "flush", "void", "commit"}
  /\ ReversesOk(s)
  /\ Len(own[s].entry) = 1
  /\ own[s].entry \in Seq(Entry)
  /\ own[s].entry[1].status = "posted"
  /\ own[s].entry[1].reverses = op[s].reverses
  /\ op[s].kind = "post" => own[s].voided = {} /\ pc[s] # "void"
  /\ op[s].kind = "reverse" => own[s].voided \subseteq {op[s].id}
  /\ work[s].voidDone /\ op[s].kind = "reverse" => OriginalGone(s)
  /\ pc[s] = "commit" /\ op[s].kind = "reverse" => work[s].voidDone

IsIdle(s) == Idle(s) /\ NothingVoided(s)

SessionInv(s) ==
  IsIdle(s) \/ IsClosing(s) \/ IsLooking(s) \/ IsStarting(s) \/ IsWriting(s)

SessionsInv ==
  /\ SessionsShaped
  /\ EntriesShaped
  /\ VoidedHasReversal
  /\ \A s \in Sessions : SessionInv(s)

----------------------------------------------------------------------------
(* A step of one session as the others see it. *)

EntriesGrow ==
  /\ DOMAIN entries \subseteq DOMAIN entries'
  /\ Len(entries) <= Len(entries')
  /\ \A e \in DOMAIN entries : entries[e].status = "voided" => entries'[e].status = "voided"

Untouched(t) ==
  /\ pc'[t] = pc[t]
  /\ op'[t] = op[t]
  /\ own'[t] = own[t]
  /\ work'[t].voidDone = work[t].voidDone

\* What holds of a session that does nothing while the entries grow.
LEMMA OtherSession ==
  ASSUME EntriesShaped, EntriesGrow, EntriesShaped', NEW t, SessionInv(t), Untouched(t)
  PROVE  SessionInv(t)'
PROOF
<1>1. Len(entries) \in Nat /\ Len(entries') \in Nat
  BY DEF EntriesShaped
<1>2. ReversesOk(t) => ReversesOk(t)'
  BY <1>1 DEF ReversesOk, EntriesGrow, Untouched
<1>3. CASE IsIdle(t) \/ IsClosing(t)
  BY <1>3 DEF SessionInv, IsIdle, Idle, IsClosing, NothingVoided, Untouched
<1>4. CASE IsLooking(t)
  BY <1>4 DEF SessionInv, IsLooking, NothingVoided, Untouched, EntriesGrow
<1>5. CASE IsStarting(t)
  BY <1>2, <1>5 DEF SessionInv, IsStarting, NothingVoided, Untouched
<1>6. CASE IsWriting(t)
  <2>1. op[t].kind = "reverse" => op[t].id \in DOMAIN entries
    BY <1>6 DEF IsWriting, ReversesOk
  <2>2. op[t].kind = "reverse" /\ OriginalGone(t) => OriginalGone(t)'
    BY <2>1 DEF OriginalGone, Untouched, EntriesGrow
  <2>3. IsWriting(t)'
    BY <1>2, <1>6, <2>2 DEF IsWriting, Untouched
  <2>4. QED
    BY <2>3 DEF SessionInv
<1>7. QED
  BY <1>3, <1>4, <1>5, <1>6 DEF SessionInv

\* A step that commits nothing changes only what its session s is about.
Private(s) ==
  /\ entries' = entries
  /\ SessionsShaped'
  /\ SessionInv(s)'
  /\ \A t \in Sessions \ {s} : Untouched(t)

\* A statement that changes one session only.
LEMMA PrivateKeeps ==
  ASSUME SessionsInv, NEW s \in Sessions, Private(s)
  PROVE  SessionsInv'
PROOF
<1>1. EntriesShaped' /\ VoidedHasReversal' /\ EntriesGrow
  BY DEF SessionsInv, Private, EntriesShaped, VoidedHasReversal, EntriesGrow
<1>2. ASSUME NEW t \in Sessions \ {s}
      PROVE  SessionInv(t)'
  BY <1>1, <1>2, OtherSession DEF SessionsInv, Private
<1>3. QED
  BY <1>1, <1>2 DEF SessionsInv, Private

----------------------------------------------------------------------------
(* The statements. *)

\* No request is in flight at the start.
LEMMA InitSessions == SessionsInit => SessionsInv
PROOF
<1> SUFFICES ASSUME SessionsInit
             PROVE  SessionsInv
  OBVIOUS
<1>1. entries = <<>>
  BY DEF SessionsInit, Init
<1>2. EntriesShaped /\ VoidedHasReversal
  BY <1>1 DEF EntriesShaped, VoidedHasReversal
<1>3. SessionsShaped
  BY DEF SessionsInit, SessionsShaped, NoWrites, NoWork
<1>4. \A s \in Sessions : IsIdle(s)
  BY DEF SessionsInit, IsIdle, Idle, NothingVoided, NoWrites
<1>5. QED
  BY <1>2, <1>3, <1>4 DEF SessionsInv, SessionInv

\* A session that is done, committed or not.
LEMMA FinishIdles ==
  ASSUME SessionsInv, NEW s \in Sessions, Finish(s)
  PROVE  SessionsShaped' /\ SessionInv(s)' /\ \A t \in Sessions \ {s} : Untouched(t)
PROOF
<1>1. SessionsShaped'
  BY DEF SessionsInv, SessionsShaped, Finish, NoWrites, NoWork
<1>2. IsIdle(s)'
  BY DEF SessionsInv, SessionsShaped, Finish, IsIdle, Idle, NothingVoided, NoWrites
<1>3. \A t \in Sessions \ {s} : Untouched(t)
  BY DEF SessionsInv, SessionsShaped, Finish, Untouched
<1>4. QED
  BY <1>1, <1>2, <1>3 DEF SessionInv

\* A request that is rolled back leaves nothing behind.
LEMMA RollbackKeeps ==
  ASSUME SessionsInv, NEW s \in Sessions, Rollback(s)
  PROVE  SessionsInv'
PROOF
<1>1. Private(s)
  BY FinishIdles DEF Rollback, Private
<1>2. QED
  BY <1>1, PrivateKeeps

\* Beginning a request changes `alone' of the others too.
LEMMA BeginKeeps ==
  ASSUME SessionsInv, NEW s \in Sessions, NEW request, NEW first, Begin(s, request, first),
         \/ first = "period" /\ request.kind = "post" /\ request.period \in Periods
                             /\ request.reverses = NoEntry
         \/ first = "original" /\ request.kind = "reverse" /\ request.id \in DOMAIN entries
                               /\ request.period \in Periods
         \/ first \in {"close_select", "status_select"} /\ request.kind \in PeriodKinds
  PROVE  SessionsInv'
PROOF
<1>1. PICK solo : solo = (Active = {})
  OBVIOUS
<1>2. work' = [t \in Sessions |-> IF t = s THEN [NoWork EXCEPT !.alone = solo]
                                ELSE [work[t] EXCEPT !.alone = FALSE]]
  BY <1>1 DEF Begin
<1>3. SessionsShaped'
  <2> DEFINE Columns(w) ==
        [todo |-> w.todo, period |-> w.period, account |-> w.account, totals |-> w.totals,
         loaded |-> w.loaded, voidDone |-> w.voidDone, next |-> w.next, carry |-> w.carry,
         alone |-> w.alone]
  <2>1. \A t \in Sessions : work'[t] = Columns(work'[t])
    <3>1. work'[s] = Columns(work'[s])
      BY <1>2 DEF NoWork
    <3>2. ASSUME NEW t \in Sessions \ {s}
          PROVE  work'[t] = Columns(work'[t])
      <4>1. work[t] = Columns(work[t])
        BY DEF SessionsInv, SessionsShaped
      <4>2. work'[t] = [work[t] EXCEPT !.alone = FALSE]
        BY <1>2
      <4>3. QED
        BY <4>1, <4>2
    <3>3. QED
      BY <3>1, <3>2
  <2>2. work' = [t \in Sessions |-> Columns(work'[t])]
    BY <1>2, <2>1
  <2>3. QED
    BY <2>2 DEF SessionsInv, SessionsShaped, Begin
<1>4. \A t \in Sessions \ {s} : Untouched(t)
  <2>1. \A t \in Sessions \ {s} : work'[t] = [work[t] EXCEPT !.alone = FALSE]
    BY <1>2
  <2>2. \A t \in Sessions \ {s} : work'[t].voidDone = work[t].voidDone
    BY <2>1 DEF SessionsInv, SessionsShaped
  <2>3. QED
    BY <2>2 DEF SessionsInv, SessionsShaped, Begin, Untouched
<1>5. /\ pc'[s] = first
      /\ op'[s] = request
      /\ own'[s] = own[s]
      /\ ~work'[s].voidDone
      /\ entries' = entries
  BY <1>2 DEF SessionsInv, SessionsShaped, Begin, NoWork
<1>6. NothingVoided(s)'
  <2>1. IsIdle(s)
    BY DEF SessionsInv, SessionInv, Begin, Idle, IsClosing, IsLooking, IsStarting, IsWriting,
           CloseLabels, StatusLabels
  <2>2. QED
    BY <1>5, <2>1 DEF IsIdle, NothingVoided
<1>7. Len(entries) \in Nat
  BY DEF SessionsInv, EntriesShaped
<1>8. SessionInv(s)'
  BY <1>5, <1>6, <1>7 DEF SessionInv, IsStarting, IsLooking, IsClosing, ReversesOk,
                      CloseLabels, StatusLabels, PeriodKinds, NoEntry
<1>9. QED
  BY <1>3, <1>4, <1>5, <1>8, PrivateKeeps DEF Private

\* A request of any kind begins.
LEMMA ClientKeeps ==
  ASSUME SessionsInv, NEW s \in Sessions, Client(s)
  PROVE  SessionsInv'
PROOF
<1>1. ASSUME NEW req \in Requests, NEW p \in Periods, BeginPost(s, req, p)
      PROVE  SessionsInv'
  BY <1>1, BeginKeeps DEF BeginPost
<1>2. ASSUME NEW id \in DOMAIN entries, NEW p \in Periods, BeginReverse(s, id, p)
      PROVE  SessionsInv'
  BY <1>2, BeginKeeps DEF BeginReverse
<1>3. ASSUME NEW p \in Periods, BeginClose(s, p) \/ BeginOpen(s, p) \/ BeginLock(s, p)
      PROVE  SessionsInv'
  BY <1>3, BeginKeeps DEF BeginClose, BeginOpen, BeginLock, PeriodKinds
<1>4. QED
  BY <1>1, <1>2, <1>3 DEF Client

\* A statement that reads, or that changes what the invariant does not look at.
LEMMA SelectPeriodKeeps ==
  ASSUME SessionsInv, NEW s \in Sessions, SelectPeriod(s)
  PROVE  SessionsInv'
PROOF
<1>1. CASE Goto(s, "insert") /\ KeepTables /\ UNCHANGED <<own, work>>
  <2>1. SessionsShaped' /\ \A t \in Sessions \ {s} : Untouched(t)
    BY <1>1 DEF SessionsInv, SessionsShaped, Goto, KeepTables, Untouched
  <2>2. IsStarting(s)
    BY DEF SelectPeriod, SessionsInv, SessionInv, IsIdle, Idle, IsClosing, IsLooking, IsWriting,
           CloseLabels, StatusLabels
  <2>3. pc'[s] = "insert"
    BY <1>1 DEF SessionsInv, SessionsShaped, Goto
  <2>4. IsStarting(s)'
    BY <1>1, <2>2, <2>3 DEF IsStarting, KeepTables, NothingVoided, ReversesOk
  <2>5. Private(s)
    BY <1>1, <2>1, <2>4 DEF Private, SessionInv, KeepTables
  <2>6. QED
    BY <2>5, PrivateKeeps
<1>2. CASE Rollback(s)
  BY <1>2, RollbackKeeps
<1>3. QED
  BY <1>1, <1>2 DEF SelectPeriod

----------------------------------------------------------------------------
(* One column of one session written. *)

WritesOf(o) ==
  [entry |-> o.entry, lines |-> o.lines, rows |-> o.rows, voided |-> o.voided,
   closed |-> o.closed]
LocalsOf(w) ==
  [todo |-> w.todo, period |-> w.period, account |-> w.account, totals |-> w.totals,
   loaded |-> w.loaded, voidDone |-> w.voidDone, next |-> w.next, carry |-> w.carry,
   alone |-> w.alone]
OwnShaped(f) == f = [t \in Sessions |-> WritesOf(f[t])]
WorkShaped(f) == f = [t \in Sessions |-> LocalsOf(f[t])]

OwnEntry(f, s, v) == [f EXCEPT ![s].entry = v]
OwnLines(f, s, v) == [f EXCEPT ![s].lines = v]
OwnRows(f, s, v) == [f EXCEPT ![s].rows = v]
OwnVoided(f, s, v) == [f EXCEPT ![s].voided = v]
OwnClosed(f, s, v) == [f EXCEPT ![s].closed = v]
WorkTodo(f, s, v) == [f EXCEPT ![s].todo = v]
WorkPeriod(f, s, v) == [f EXCEPT ![s].period = v]
WorkAccount(f, s, v) == [f EXCEPT ![s].account = v]
WorkTotals(f, s, v) == [f EXCEPT ![s].totals = v]
WorkLoaded(f, s, v) == [f EXCEPT ![s].loaded = v]
WorkVoidDone(f, s, v) == [f EXCEPT ![s].voidDone = v]
WorkNext(f, s, v) == [f EXCEPT ![s].next = v]
WorkCarry(f, s, v) == [f EXCEPT ![s].carry = v]

\* A write to one session leaves the others as they are.
LEMMA OwnAt ==
  ASSUME NEW s \in Sessions, NEW f, OwnShaped(f), NEW g, g = [f EXCEPT ![s] = g[s]],
         g[s] = WritesOf(g[s])
  PROVE  OwnShaped(g) /\ \A t \in Sessions \ {s} : g[t] = f[t]
PROOF
<1>1. DOMAIN f = Sessions /\ \A t \in Sessions : f[t] = WritesOf(f[t])
  BY DEF OwnShaped
<1>2. g = [t \in Sessions |-> g[t]] /\ \A t \in Sessions \ {s} : g[t] = f[t]
  BY <1>1
<1>3. \A t \in Sessions : g[t] = WritesOf(g[t])
  BY <1>1, <1>2
<1>4. QED
  BY <1>2, <1>3 DEF OwnShaped

\* The same for the local variables.
LEMMA WorkAt ==
  ASSUME NEW s \in Sessions, NEW f, WorkShaped(f), NEW g, g = [f EXCEPT ![s] = g[s]],
         g[s] = LocalsOf(g[s])
  PROVE  WorkShaped(g) /\ \A t \in Sessions \ {s} : g[t] = f[t]
PROOF
<1>1. DOMAIN f = Sessions /\ \A t \in Sessions : f[t] = LocalsOf(f[t])
  BY DEF WorkShaped
<1>2. g = [t \in Sessions |-> g[t]] /\ \A t \in Sessions \ {s} : g[t] = f[t]
  BY <1>1
<1>3. \A t \in Sessions : g[t] = LocalsOf(g[t])
  BY <1>1, <1>2
<1>4. QED
  BY <1>2, <1>3 DEF WorkShaped

\* The entry of a session.
LEMMA WriteEntry ==
  ASSUME NEW s \in Sessions, NEW f, OwnShaped(f), NEW v, NEW g,
         g = OwnEntry(f, s, v)
  PROVE  /\ OwnShaped(g)
         /\ \A t \in Sessions \ {s} : g[t] = f[t]
         /\ g[s].entry = v /\ g[s].lines = f[s].lines /\ g[s].rows = f[s].rows
         /\ g[s].voided = f[s].voided /\ g[s].closed = f[s].closed
PROOF
<1>1. DOMAIN f = Sessions /\ f[s] = WritesOf(f[s])
  BY DEF OwnShaped
<1>2. g[s] = [f[s] EXCEPT !.entry = v]
  BY <1>1 DEF OwnEntry
<1>3. g[s] = [entry |-> v, lines |-> f[s].lines, rows |-> f[s].rows, voided |->
         f[s].voided, closed |-> f[s].closed]
  BY <1>1, <1>2 DEF WritesOf
<1>4. g = [f EXCEPT ![s] = g[s]]
  BY <1>1 DEF OwnEntry
<1>5. QED
  BY <1>3, <1>4, OwnAt DEF WritesOf

\* The entry it has voided.
LEMMA WriteVoided ==
  ASSUME NEW s \in Sessions, NEW f, OwnShaped(f), NEW v, NEW g,
         g = OwnVoided(f, s, v)
  PROVE  /\ OwnShaped(g)
         /\ \A t \in Sessions \ {s} : g[t] = f[t]
         /\ g[s].entry = f[s].entry /\ g[s].lines = f[s].lines /\ g[s].rows = f[s].rows
         /\ g[s].voided = v /\ g[s].closed = f[s].closed
PROOF
<1>1. DOMAIN f = Sessions /\ f[s] = WritesOf(f[s])
  BY DEF OwnShaped
<1>2. g[s] = [f[s] EXCEPT !.voided = v]
  BY <1>1 DEF OwnVoided
<1>3. g[s] = [entry |-> f[s].entry, lines |-> f[s].lines, rows |-> f[s].rows,
         voided |-> v, closed |-> f[s].closed]
  BY <1>1, <1>2 DEF WritesOf
<1>4. g = [f EXCEPT ![s] = g[s]]
  BY <1>1 DEF OwnVoided
<1>5. QED
  BY <1>3, <1>4, OwnAt DEF WritesOf

\* Its lines.
LEMMA WriteLines ==
  ASSUME NEW s \in Sessions, NEW f, OwnShaped(f), NEW v, NEW g,
         g = OwnLines(f, s, v)
  PROVE  /\ OwnShaped(g)
         /\ \A t \in Sessions \ {s} : g[t] = f[t]
         /\ g[s].entry = f[s].entry /\ g[s].lines = v /\ g[s].rows = f[s].rows
         /\ g[s].voided = f[s].voided /\ g[s].closed = f[s].closed
PROOF
<1>1. DOMAIN f = Sessions /\ f[s] = WritesOf(f[s])
  BY DEF OwnShaped
<1>2. g[s] = [f[s] EXCEPT !.lines = v]
  BY <1>1 DEF OwnLines
<1>3. g[s] = [entry |-> f[s].entry, lines |-> v, rows |-> f[s].rows, voided |->
         f[s].voided, closed |-> f[s].closed]
  BY <1>1, <1>2 DEF WritesOf
<1>4. g = [f EXCEPT ![s] = g[s]]
  BY <1>1 DEF OwnLines
<1>5. QED
  BY <1>3, <1>4, OwnAt DEF WritesOf

\* Its balance rows.
LEMMA WriteRows ==
  ASSUME NEW s \in Sessions, NEW f, OwnShaped(f), NEW v, NEW g,
         g = OwnRows(f, s, v)
  PROVE  /\ OwnShaped(g)
         /\ \A t \in Sessions \ {s} : g[t] = f[t]
         /\ g[s].entry = f[s].entry /\ g[s].lines = f[s].lines /\ g[s].rows = v
         /\ g[s].voided = f[s].voided /\ g[s].closed = f[s].closed
PROOF
<1>1. DOMAIN f = Sessions /\ f[s] = WritesOf(f[s])
  BY DEF OwnShaped
<1>2. g[s] = [f[s] EXCEPT !.rows = v]
  BY <1>1 DEF OwnRows
<1>3. g[s] = [entry |-> f[s].entry, lines |-> f[s].lines, rows |-> v, voided |->
         f[s].voided, closed |-> f[s].closed]
  BY <1>1, <1>2 DEF WritesOf
<1>4. g = [f EXCEPT ![s] = g[s]]
  BY <1>1 DEF OwnRows
<1>5. QED
  BY <1>3, <1>4, OwnAt DEF WritesOf

\* The period it has closed.
LEMMA WriteClosed ==
  ASSUME NEW s \in Sessions, NEW f, OwnShaped(f), NEW v, NEW g,
         g = OwnClosed(f, s, v)
  PROVE  /\ OwnShaped(g)
         /\ \A t \in Sessions \ {s} : g[t] = f[t]
         /\ g[s].entry = f[s].entry /\ g[s].lines = f[s].lines /\ g[s].rows = f[s].rows
         /\ g[s].voided = f[s].voided /\ g[s].closed = v
PROOF
<1>1. DOMAIN f = Sessions /\ f[s] = WritesOf(f[s])
  BY DEF OwnShaped
<1>2. g[s] = [f[s] EXCEPT !.closed = v]
  BY <1>1 DEF OwnClosed
<1>3. g[s] = [entry |-> f[s].entry, lines |-> f[s].lines, rows |-> f[s].rows,
         voided |-> f[s].voided, closed |-> v]
  BY <1>1, <1>2 DEF WritesOf
<1>4. g = [f EXCEPT ![s] = g[s]]
  BY <1>1 DEF OwnClosed
<1>5. QED
  BY <1>3, <1>4, OwnAt DEF WritesOf

\* That the original has been voided.
LEMMA SetVoidDone ==
  ASSUME NEW s \in Sessions, NEW f, WorkShaped(f), NEW v, NEW g,
         g = WorkVoidDone(f, s, v)
  PROVE  /\ WorkShaped(g)
         /\ \A t \in Sessions \ {s} : g[t] = f[t]
         /\ g[s].todo = f[s].todo /\ g[s].period = f[s].period /\ g[s].account = f[s].account
         /\ g[s].totals = f[s].totals /\ g[s].loaded = f[s].loaded /\ g[s].voidDone = v
         /\ g[s].next = f[s].next /\ g[s].carry = f[s].carry /\ g[s].alone = f[s].alone
PROOF
<1>1. DOMAIN f = Sessions /\ f[s] = LocalsOf(f[s])
  BY DEF WorkShaped
<1>2. g[s] = [f[s] EXCEPT !.voidDone = v]
  BY <1>1 DEF WorkVoidDone
<1>3. g[s] = [todo |-> f[s].todo, period |-> f[s].period, account |-> f[s].account,
         totals |-> f[s].totals, loaded |-> f[s].loaded, voidDone |-> v, next
         |-> f[s].next, carry |-> f[s].carry, alone |-> f[s].alone]
  BY <1>1, <1>2 DEF LocalsOf
<1>4. g = [f EXCEPT ![s] = g[s]]
  BY <1>1 DEF WorkVoidDone
<1>5. QED
  BY <1>3, <1>4, WorkAt DEF LocalsOf

\* The accounts still to recompute or to carry.
LEMMA SetTodo ==
  ASSUME NEW s \in Sessions, NEW f, WorkShaped(f), NEW v, NEW g,
         g = WorkTodo(f, s, v)
  PROVE  /\ WorkShaped(g)
         /\ \A t \in Sessions \ {s} : g[t] = f[t]
         /\ g[s].todo = v /\ g[s].period = f[s].period /\ g[s].account = f[s].account
         /\ g[s].totals = f[s].totals /\ g[s].loaded = f[s].loaded
         /\ g[s].voidDone = f[s].voidDone /\ g[s].next = f[s].next /\ g[s].carry = f[s].carry
         /\ g[s].alone = f[s].alone
PROOF
<1>1. DOMAIN f = Sessions /\ f[s] = LocalsOf(f[s])
  BY DEF WorkShaped
<1>2. g[s] = [f[s] EXCEPT !.todo = v]
  BY <1>1 DEF WorkTodo
<1>3. g[s] = [todo |-> v, period |-> f[s].period, account |-> f[s].account, totals
         |-> f[s].totals, loaded |-> f[s].loaded, voidDone |-> f[s].voidDone,
         next |-> f[s].next, carry |-> f[s].carry, alone |-> f[s].alone]
  BY <1>1, <1>2 DEF LocalsOf
<1>4. g = [f EXCEPT ![s] = g[s]]
  BY <1>1 DEF WorkTodo
<1>5. QED
  BY <1>3, <1>4, WorkAt DEF LocalsOf

\* The period of the recomputation.
LEMMA SetPeriod ==
  ASSUME NEW s \in Sessions, NEW f, WorkShaped(f), NEW v, NEW g,
         g = WorkPeriod(f, s, v)
  PROVE  /\ WorkShaped(g)
         /\ \A t \in Sessions \ {s} : g[t] = f[t]
         /\ g[s].todo = f[s].todo /\ g[s].period = v /\ g[s].account = f[s].account
         /\ g[s].totals = f[s].totals /\ g[s].loaded = f[s].loaded
         /\ g[s].voidDone = f[s].voidDone /\ g[s].next = f[s].next /\ g[s].carry = f[s].carry
         /\ g[s].alone = f[s].alone
PROOF
<1>1. DOMAIN f = Sessions /\ f[s] = LocalsOf(f[s])
  BY DEF WorkShaped
<1>2. g[s] = [f[s] EXCEPT !.period = v]
  BY <1>1 DEF WorkPeriod
<1>3. g[s] = [todo |-> f[s].todo, period |-> v, account |-> f[s].account, totals
         |-> f[s].totals, loaded |-> f[s].loaded, voidDone |-> f[s].voidDone,
         next |-> f[s].next, carry |-> f[s].carry, alone |-> f[s].alone]
  BY <1>1, <1>2 DEF LocalsOf
<1>4. g = [f EXCEPT ![s] = g[s]]
  BY <1>1 DEF WorkPeriod
<1>5. QED
  BY <1>3, <1>4, WorkAt DEF LocalsOf

\* Its account.
LEMMA SetAccount ==
  ASSUME NEW s \in Sessions, NEW f, WorkShaped(f), NEW v, NEW g,
         g = WorkAccount(f, s, v)
  PROVE  /\ WorkShaped(g)
         /\ \A t \in Sessions \ {s} : g[t] = f[t]
         /\ g[s].todo = f[s].todo /\ g[s].period = f[s].period /\ g[s].account = v
         /\ g[s].totals = f[s].totals /\ g[s].loaded = f[s].loaded
         /\ g[s].voidDone = f[s].voidDone /\ g[s].next = f[s].next /\ g[s].carry = f[s].carry
         /\ g[s].alone = f[s].alone
PROOF
<1>1. DOMAIN f = Sessions /\ f[s] = LocalsOf(f[s])
  BY DEF WorkShaped
<1>2. g[s] = [f[s] EXCEPT !.account = v]
  BY <1>1 DEF WorkAccount
<1>3. g[s] = [todo |-> f[s].todo, period |-> f[s].period, account |-> v, totals |->
         f[s].totals, loaded |-> f[s].loaded, voidDone |-> f[s].voidDone, next
         |-> f[s].next, carry |-> f[s].carry, alone |-> f[s].alone]
  BY <1>1, <1>2 DEF LocalsOf
<1>4. g = [f EXCEPT ![s] = g[s]]
  BY <1>1 DEF WorkAccount
<1>5. QED
  BY <1>3, <1>4, WorkAt DEF LocalsOf

\* Its sums.
LEMMA SetTotals ==
  ASSUME NEW s \in Sessions, NEW f, WorkShaped(f), NEW v, NEW g,
         g = WorkTotals(f, s, v)
  PROVE  /\ WorkShaped(g)
         /\ \A t \in Sessions \ {s} : g[t] = f[t]
         /\ g[s].todo = f[s].todo /\ g[s].period = f[s].period /\ g[s].account = f[s].account
         /\ g[s].totals = v /\ g[s].loaded = f[s].loaded /\ g[s].voidDone = f[s].voidDone
         /\ g[s].next = f[s].next /\ g[s].carry = f[s].carry /\ g[s].alone = f[s].alone
PROOF
<1>1. DOMAIN f = Sessions /\ f[s] = LocalsOf(f[s])
  BY DEF WorkShaped
<1>2. g[s] = [f[s] EXCEPT !.totals = v]
  BY <1>1 DEF WorkTotals
<1>3. g[s] = [todo |-> f[s].todo, period |-> f[s].period, account |-> f[s].account,
         totals |-> v, loaded |-> f[s].loaded, voidDone |-> f[s].voidDone, next
         |-> f[s].next, carry |-> f[s].carry, alone |-> f[s].alone]
  BY <1>1, <1>2 DEF LocalsOf
<1>4. g = [f EXCEPT ![s] = g[s]]
  BY <1>1 DEF WorkTotals
<1>5. QED
  BY <1>3, <1>4, WorkAt DEF LocalsOf

\* The row it loaded.
LEMMA SetLoaded ==
  ASSUME NEW s \in Sessions, NEW f, WorkShaped(f), NEW v, NEW g,
         g = WorkLoaded(f, s, v)
  PROVE  /\ WorkShaped(g)
         /\ \A t \in Sessions \ {s} : g[t] = f[t]
         /\ g[s].todo = f[s].todo /\ g[s].period = f[s].period /\ g[s].account = f[s].account
         /\ g[s].totals = f[s].totals /\ g[s].loaded = v /\ g[s].voidDone = f[s].voidDone
         /\ g[s].next = f[s].next /\ g[s].carry = f[s].carry /\ g[s].alone = f[s].alone
PROOF
<1>1. DOMAIN f = Sessions /\ f[s] = LocalsOf(f[s])
  BY DEF WorkShaped
<1>2. g[s] = [f[s] EXCEPT !.loaded = v]
  BY <1>1 DEF WorkLoaded
<1>3. g[s] = [todo |-> f[s].todo, period |-> f[s].period, account |-> f[s].account,
         totals |-> f[s].totals, loaded |-> v, voidDone |-> f[s].voidDone, next
         |-> f[s].next, carry |-> f[s].carry, alone |-> f[s].alone]
  BY <1>1, <1>2 DEF LocalsOf
<1>4. g = [f EXCEPT ![s] = g[s]]
  BY <1>1 DEF WorkLoaded
<1>5. QED
  BY <1>3, <1>4, WorkAt DEF LocalsOf

\* The period a closing carries to.
LEMMA SetNext ==
  ASSUME NEW s \in Sessions, NEW f, WorkShaped(f), NEW v, NEW g,
         g = WorkNext(f, s, v)
  PROVE  /\ WorkShaped(g)
         /\ \A t \in Sessions \ {s} : g[t] = f[t]
         /\ g[s].todo = f[s].todo /\ g[s].period = f[s].period /\ g[s].account = f[s].account
         /\ g[s].totals = f[s].totals /\ g[s].loaded = f[s].loaded
         /\ g[s].voidDone = f[s].voidDone /\ g[s].next = v /\ g[s].carry = f[s].carry
         /\ g[s].alone = f[s].alone
PROOF
<1>1. DOMAIN f = Sessions /\ f[s] = LocalsOf(f[s])
  BY DEF WorkShaped
<1>2. g[s] = [f[s] EXCEPT !.next = v]
  BY <1>1 DEF WorkNext
<1>3. g[s] = [todo |-> f[s].todo, period |-> f[s].period, account |-> f[s].account,
         totals |-> f[s].totals, loaded |-> f[s].loaded, voidDone |->
         f[s].voidDone, next |-> v, carry |-> f[s].carry, alone |-> f[s].alone]
  BY <1>1, <1>2 DEF LocalsOf
<1>4. g = [f EXCEPT ![s] = g[s]]
  BY <1>1 DEF WorkNext
<1>5. QED
  BY <1>3, <1>4, WorkAt DEF LocalsOf

\* The balances it carries.
LEMMA SetCarry ==
  ASSUME NEW s \in Sessions, NEW f, WorkShaped(f), NEW v, NEW g,
         g = WorkCarry(f, s, v)
  PROVE  /\ WorkShaped(g)
         /\ \A t \in Sessions \ {s} : g[t] = f[t]
         /\ g[s].todo = f[s].todo /\ g[s].period = f[s].period /\ g[s].account = f[s].account
         /\ g[s].totals = f[s].totals /\ g[s].loaded = f[s].loaded
         /\ g[s].voidDone = f[s].voidDone /\ g[s].next = f[s].next /\ g[s].carry = v
         /\ g[s].alone = f[s].alone
PROOF
<1>1. DOMAIN f = Sessions /\ f[s] = LocalsOf(f[s])
  BY DEF WorkShaped
<1>2. g[s] = [f[s] EXCEPT !.carry = v]
  BY <1>1 DEF WorkCarry
<1>3. g[s] = [todo |-> f[s].todo, period |-> f[s].period, account |-> f[s].account,
         totals |-> f[s].totals, loaded |-> f[s].loaded, voidDone |->
         f[s].voidDone, next |-> f[s].next, carry |-> v, alone |-> f[s].alone]
  BY <1>1, <1>2 DEF LocalsOf
<1>4. g = [f EXCEPT ![s] = g[s]]
  BY <1>1 DEF WorkCarry
<1>5. QED
  BY <1>3, <1>4, WorkAt DEF LocalsOf

\* A statement leaves the arrays of sessions arrays.
LEMMA StepShapes ==
  ASSUME SessionsInv, NEW s \in Sessions, NEW label, Goto(s, label), op' = op,
         OwnShaped(own'), \A t \in Sessions \ {s} : own'[t] = own[t],
         WorkShaped(work'), \A t \in Sessions \ {s} : work'[t] = work[t]
  PROVE  /\ SessionsShaped'
         /\ \A t \in Sessions \ {s} : Untouched(t)
         /\ pc'[s] = label
PROOF
<1>1. pc' = [t \in Sessions |-> pc'[t]] /\ pc'[s] = label /\ op' = [t \in Sessions |-> op'[t]]
  BY DEF SessionsInv, SessionsShaped, Goto
<1>2. \A t \in Sessions \ {s} : Untouched(t)
  BY DEF SessionsInv, SessionsShaped, Goto, Untouched
<1>3. SessionsShaped'
  BY <1>1 DEF SessionsShaped, OwnShaped, WorkShaped, WritesOf, LocalsOf
<1>4. QED
  BY <1>1, <1>2, <1>3

\* The columns of the records, under the names used below.
LEMMA ShapesNow == SessionsInv => OwnShaped(own) /\ WorkShaped(work)
PROOF
  BY DEF SessionsInv, SessionsShaped, OwnShaped, WorkShaped, WritesOf, LocalsOf

----------------------------------------------------------------------------
(* The statements of a posting and of a reversal. *)

\* The entry of a request is inserted.
LEMMA InsertKeeps ==
  ASSUME SessionsInv, NEW s \in Sessions, Insert(s)
  PROVE  SessionsInv'
PROOF
<1>1. PICK x, entry, rows, todo, p :
        /\ x = [period |-> op[s].period, status |-> "posted",
                type |-> IF op[s].kind = "post" THEN "STANDARD" ELSE "REVERSAL",
                reverses |-> op[s].reverses, currency |-> "CZK"]
        /\ entry = <<x>>
        /\ own' = OwnLines(OwnEntry(own, s, entry), s, rows)
        /\ work' = WorkPeriod(WorkTodo(work, s, todo), s, p)
        /\ Goto(s, "sum")
        /\ UNCHANGED <<entries, op>>
  BY DEF Insert, KeepTables, OwnLines, OwnEntry, WorkPeriod, WorkTodo
<1>2. /\ OwnShaped(own') /\ \A t \in Sessions \ {s} : own'[t] = own[t]
      /\ own'[s].entry = entry /\ own'[s].voided = own[s].voided
  BY <1>1, ShapesNow, WriteEntry, WriteLines
<1>3. /\ WorkShaped(work') /\ \A t \in Sessions \ {s} : work'[t] = work[t]
      /\ work'[s].voidDone = work[s].voidDone
  <2> DEFINE half == WorkTodo(work, s, todo)
  <2>1. /\ WorkShaped(half) /\ \A t \in Sessions \ {s} : half[t] = work[t]
        /\ half[s].voidDone = work[s].voidDone
    BY ShapesNow, SetTodo
  <2>2. work' = WorkPeriod(half, s, p)
    BY <1>1
  <2> HIDE DEF half
  <2>3. QED
    BY <2>1, <2>2, SetPeriod
<1>4. SessionsShaped' /\ (\A t \in Sessions \ {s} : Untouched(t)) /\ pc'[s] = "sum"
  BY <1>1, <1>2, <1>3, StepShapes
<1>5. IsStarting(s)
  BY DEF Insert, SessionsInv, SessionInv, IsIdle, Idle, IsClosing, IsLooking, IsWriting,
         CloseLabels, StatusLabels
<1>6. own'[s].voided = {} /\ ~work'[s].voidDone
  BY <1>2, <1>3, <1>5 DEF IsStarting, NothingVoided
<1>7. x \in Entry /\ x.status = "posted" /\ x.reverses = op[s].reverses
  BY <1>1, <1>5 DEF IsStarting, ReversesOk, Entry
<1>8. IsWriting(s)'
  <2>1. entry \in Seq(Entry) /\ Len(entry) = 1 /\ entry[1] = x
    BY <1>1, <1>7
  <2>2. ReversesOk(s)' /\ op' = op
    BY <1>1, <1>5 DEF IsStarting, ReversesOk
  <2>3. QED
    BY <1>2, <1>4, <1>6, <1>7, <2>1, <2>2 DEF IsWriting
<1>9. QED
  BY <1>1, <1>4, <1>8, PrivateKeeps DEF Private, SessionInv

\* A statement between the insert and the commit that voids nothing.
LEMMA WritingGoesOn ==
  ASSUME SessionsInv, NEW s \in Sessions, IsWriting(s), NEW label, Goto(s, label),
         op' = op, entries' = entries,
         OwnShaped(own'), \A t \in Sessions \ {s} : own'[t] = own[t],
         own'[s].entry = own[s].entry, own'[s].voided = own[s].voided,
         WorkShaped(work'), \A t \in Sessions \ {s} : work'[t] = work[t],
         work'[s].voidDone = work[s].voidDone,
         \/ label \in {"sum", "read", "flush"}
         \/ label = "void" /\ op[s].kind = "reverse"
         \/ label = "commit" /\ (op[s].kind = "reverse" => work[s].voidDone)
  PROVE  SessionsInv'
PROOF
<1>1. SessionsShaped' /\ (\A t \in Sessions \ {s} : Untouched(t)) /\ pc'[s] = label
  BY StepShapes
<1>2. ReversesOk(s)' /\ (OriginalGone(s) => OriginalGone(s)')
  BY DEF IsWriting, ReversesOk, OriginalGone
<1>3. IsWriting(s)'
  BY <1>1, <1>2 DEF IsWriting
<1>4. QED
  BY <1>1, <1>3, PrivateKeeps DEF Private, SessionInv

\* The lines of an account are summed.
LEMMA SumLinesKeeps ==
  ASSUME SessionsInv, NEW s \in Sessions, SumLines(s)
  PROVE  SessionsInv'
PROOF
<1>1. PICK a, totals :
        /\ work' = WorkTotals(WorkAccount(work, s, a), s, totals)
        /\ Goto(s, "read")
        /\ UNCHANGED <<entries, op, own>>
  BY DEF SumLines, KeepTables, WorkAccount, WorkTotals
<1>2. /\ WorkShaped(work') /\ \A t \in Sessions \ {s} : work'[t] = work[t]
      /\ work'[s].voidDone = work[s].voidDone
  <2> DEFINE half == WorkAccount(work, s, a)
  <2>1. /\ WorkShaped(half) /\ \A t \in Sessions \ {s} : half[t] = work[t]
        /\ half[s].voidDone = work[s].voidDone
    BY ShapesNow, SetAccount
  <2>2. work' = WorkTotals(half, s, totals)
    BY <1>1
  <2> HIDE DEF half
  <2>3. QED
    BY <2>1, <2>2, SetTotals
<1>3. IsWriting(s)
  BY DEF SumLines, SessionsInv, SessionInv, IsIdle, Idle, IsClosing, IsLooking, IsStarting,
         CloseLabels, StatusLabels
<1>4. QED
  BY <1>1, <1>2, <1>3, ShapesNow, WritingGoesOn

\* A balance row is read.
LEMMA SelectRowKeeps ==
  ASSUME SessionsInv, NEW s \in Sessions, SelectRow(s)
  PROVE  SessionsInv'
PROOF
<1>1. PICK row :
        work' = WorkLoaded(work, s, row) /\ Goto(s, "flush") /\ UNCHANGED <<entries, op, own>>
  BY DEF SelectRow, KeepTables, WorkLoaded
<1>2. /\ WorkShaped(work') /\ \A t \in Sessions \ {s} : work'[t] = work[t]
      /\ work'[s].voidDone = work[s].voidDone
  BY <1>1, ShapesNow, SetLoaded
<1>3. IsWriting(s)
  BY DEF SelectRow, SessionsInv, SessionInv, IsIdle, Idle, IsClosing, IsLooking, IsStarting,
         CloseLabels, StatusLabels
<1>4. QED
  BY <1>1, <1>2, <1>3, ShapesNow, WritingGoesOn

\* A balance row is written, or the request ends on a duplicate.
LEMMA FlushRowKeeps ==
  ASSUME SessionsInv, NEW s \in Sessions, FlushRow(s)
  PROVE  SessionsInv'
PROOF
<1>1. IsWriting(s)
  BY DEF FlushRow, SessionsInv, SessionInv, IsIdle, Idle, IsClosing, IsLooking, IsStarting,
         CloseLabels, StatusLabels
<1>2. ASSUME RowDone(s), KeepTables, NEW rows, own' \in {own, OwnRows(own, s, rows)}
      PROVE  SessionsInv'
  <2>1. /\ OwnShaped(own') /\ \A t \in Sessions \ {s} : own'[t] = own[t]
        /\ own'[s].entry = own[s].entry /\ own'[s].voided = own[s].voided
    <3>1. CASE own' = own
      BY <3>1, ShapesNow
    <3>2. CASE own' = OwnRows(own, s, rows)
      BY <3>2, ShapesNow, WriteRows
    <3>3. QED
      BY <1>2, <3>1, <3>2
  <2>2. PICK todo : work' = WorkTodo(work, s, todo)
    BY <1>2 DEF RowDone, WorkTodo
  <2>3. /\ WorkShaped(work') /\ \A t \in Sessions \ {s} : work'[t] = work[t]
        /\ work'[s].voidDone = work[s].voidDone
    BY <2>2, ShapesNow, SetTodo
  <2>4. /\ op' = op /\ entries' = entries
        /\ Goto(s, AfterRow(s))
        /\ \/ AfterRow(s) = "sum"
           \/ AfterRow(s) = "void" /\ op[s].kind = "reverse"
           \/ AfterRow(s) = "commit" /\ (op[s].kind = "reverse" => work[s].voidDone)
    BY <1>2 DEF RowDone, KeepTables, AfterRow
  <2>5. QED
    BY <1>1, <2>1, <2>3, <2>4, WritingGoesOn
<1>3. \/ Rollback(s)
      \/ RowDone(s) /\ KeepTables /\ \E rows : own' \in {own, OwnRows(own, s, rows)}
  BY DEF FlushRow, OwnRows
<1>4. QED
  BY <1>2, <1>3, RollbackKeeps

\* A reversal reads its original.
LEMMA SelectOriginalKeeps ==
  ASSUME SessionsInv, NEW s \in Sessions, SelectOriginal(s)
  PROVE  SessionsInv'
PROOF
<1>1. ASSUME NEW mirror,
             op' = [op EXCEPT ![s] = [kind |-> "reverse", id |-> op[s].id, req |-> mirror,
                                      period |-> op[s].period, reverses |-> op[s].id]],
             Goto(s, "period"), UNCHANGED <<entries, own, work>>
      PROVE  SessionsInv'
  <2>1. SessionsShaped' /\ \A t \in Sessions \ {s} : Untouched(t)
    BY <1>1 DEF SessionsInv, SessionsShaped, Goto, Untouched
  <2>2. pc'[s] = "period" /\ op'[s] = [kind |-> "reverse", id |-> op[s].id, req |-> mirror,
                                       period |-> op[s].period, reverses |-> op[s].id]
    BY <1>1 DEF SessionsInv, SessionsShaped, Goto
  <2>3. IsLooking(s)
    BY DEF SelectOriginal, SessionsInv, SessionInv, IsIdle, Idle, IsClosing, IsStarting,
           IsWriting, CloseLabels, StatusLabels
  <2>4. op[s].id \in Nat /\ op[s].id <= Len(entries)
    BY <2>3 DEF IsLooking, SessionsInv, EntriesShaped
  <2>5. IsStarting(s)'
    BY <1>1, <2>2, <2>3, <2>4 DEF IsLooking, IsStarting, NothingVoided, ReversesOk
  <2>6. QED
    BY <1>1, <2>1, <2>5, PrivateKeeps DEF Private, SessionInv
<1>2. QED
  BY <1>1, RollbackKeeps DEF SelectOriginal

\* A reversal voids its original, or finds it voided.
LEMMA VoidOriginalKeeps ==
  ASSUME SessionsInv, NEW s \in Sessions, VoidOriginal(s)
  PROVE  SessionsInv'
PROOF
<1>1. PICK todo, p :
        /\ own' = OwnVoided(own, s, VoidedBy(op[s].id))
        /\ work' = WorkPeriod(WorkTodo(WorkVoidDone(work, s, TRUE), s, todo), s, p)
        /\ Goto(s, "sum")
        /\ UNCHANGED <<entries, op>>
  BY DEF VoidOriginal, KeepTables, OwnVoided, WorkPeriod, WorkTodo, WorkVoidDone
<1>2. /\ OwnShaped(own') /\ \A t \in Sessions \ {s} : own'[t] = own[t]
      /\ own'[s].entry = own[s].entry /\ own'[s].voided = VoidedBy(op[s].id)
  BY <1>1, ShapesNow, WriteVoided
<1>3. /\ WorkShaped(work') /\ \A t \in Sessions \ {s} : work'[t] = work[t]
      /\ work'[s].voidDone
  <2>9. PICK yes : yes = TRUE
    OBVIOUS
  <2> DEFINE done == WorkVoidDone(work, s, yes)
             half == WorkTodo(done, s, todo)
  <2>1. /\ WorkShaped(done) /\ \A t \in Sessions \ {s} : done[t] = work[t]
        /\ done[s].voidDone = yes
    BY ShapesNow, SetVoidDone
  <2>2. /\ WorkShaped(half) /\ \A t \in Sessions \ {s} : half[t] = done[t]
        /\ half[s].voidDone = done[s].voidDone
    <3> HIDE DEF done
    <3>1. QED
      BY <2>1, SetTodo
  <2>3. work' = WorkPeriod(half, s, p)
    BY <1>1, <2>9
  <2> HIDE DEF done, half
  <2>4. /\ WorkShaped(work') /\ \A t \in Sessions \ {s} : work'[t] = half[t]
        /\ work'[s].voidDone = half[s].voidDone
    BY <2>2, <2>3, SetPeriod
  <2>5. work'[s].voidDone = TRUE
    BY <2>9, <2>1, <2>2, <2>4
  <2>6. QED
    BY <2>1, <2>2, <2>4, <2>5
<1>4. SessionsShaped' /\ (\A t \in Sessions \ {s} : Untouched(t)) /\ pc'[s] = "sum"
  BY <1>1, <1>2, <1>3, StepShapes
<1>5. IsWriting(s) /\ pc[s] = "void"
  BY DEF VoidOriginal, SessionsInv, SessionInv, IsIdle, Idle, IsClosing, IsLooking, IsStarting,
         CloseLabels, StatusLabels
<1>6. op[s].kind = "reverse" /\ op[s].id \in DOMAIN entries
  BY <1>5 DEF IsWriting, ReversesOk
<1>7. entries[op[s].id].status \in {"posted", "voided"}
  <2>1. entries[op[s].id] \in Entry
    BY <1>6 DEF SessionsInv, EntriesShaped
  <2>2. QED
    BY <2>1 DEF Entry
<1>8. own'[s].voided \subseteq {op[s].id} /\ OriginalGone(s)'
  BY <1>1, <1>2, <1>7 DEF VoidedBy, OriginalGone
<1>9. IsWriting(s)'
  <2>1. ReversesOk(s)'
    BY <1>1, <1>5 DEF IsWriting, ReversesOk
  <2>2. QED
    BY <1>1, <1>2, <1>3, <1>4, <1>5, <1>6, <1>8, <2>1 DEF IsWriting
<1>10. QED
  BY <1>1, <1>4, <1>9, PrivateKeeps DEF Private, SessionInv

----------------------------------------------------------------------------
(* The statements of a request about a period void nothing and insert no entry. *)

\* Such a request goes on to its next statement.
LEMMA ClosingGoesOn ==
  ASSUME SessionsInv, NEW s \in Sessions, IsClosing(s),
         NEW label \in CloseLabels \cup StatusLabels \cup {"commit"}, Goto(s, label),
         op' = op, entries' = entries,
         OwnShaped(own'), \A t \in Sessions \ {s} : own'[t] = own[t],
         own'[s].entry = own[s].entry, own'[s].voided = own[s].voided,
         WorkShaped(work'), \A t \in Sessions \ {s} : work'[t] = work[t]
  PROVE  SessionsInv'
PROOF
<1>1. SessionsShaped' /\ (\A t \in Sessions \ {s} : Untouched(t)) /\ pc'[s] = label
  BY StepShapes
<1>2. IsClosing(s)'
  BY <1>1 DEF IsClosing, NothingVoided
<1>3. QED
  BY <1>1, <1>2, PrivateKeeps DEF Private, SessionInv

\* Every statement of a closing, and the SELECT of an opening or a locking.
LEMMA ClosingKeeps ==
  ASSUME SessionsInv, NEW s \in Sessions,
         \/ SelectClosing(s) \/ UpdateClosing(s) \/ SelectNext(s) \/ SelectBalances(s)
         \/ InsertOpening(s) \/ SelectStatus(s)
  PROVE  SessionsInv'
PROOF
<1>1. pc[s] \in CloseLabels \cup StatusLabels
  BY DEF SelectClosing, UpdateClosing, SelectNext, SelectBalances, InsertOpening, SelectStatus,
         CloseLabels, StatusLabels
<1>2. IsClosing(s)
  BY <1>1 DEF SessionsInv, SessionInv, IsIdle, Idle, IsLooking, IsStarting, IsWriting,
         CloseLabels, StatusLabels
<1>3. OwnShaped(own) /\ WorkShaped(work)
  BY ShapesNow
<1>4. CASE SelectClosing(s)
  <2>1. \/ Rollback(s)
        \/ Goto(s, "close_update") /\ UNCHANGED <<entries, op, own, work>>
    BY <1>4 DEF SelectClosing, KeepTables
  <2>2. QED
    BY <1>2, <1>3, <2>1, RollbackKeeps, ClosingGoesOn DEF CloseLabels
<1>5. CASE UpdateClosing(s)
  <2>1. PICK p : own' = OwnClosed(own, s, p) /\ Goto(s, "close_next")
                 /\ UNCHANGED <<entries, op, work>>
    BY <1>5 DEF UpdateClosing, KeepTables, OwnClosed
  <2>2. /\ OwnShaped(own') /\ \A t \in Sessions \ {s} : own'[t] = own[t]
        /\ own'[s].entry = own[s].entry /\ own'[s].voided = own[s].voided
    BY <1>3, <2>1, WriteClosed
  <2>3. QED
    BY <1>2, <1>3, <2>1, <2>2, ClosingGoesOn DEF CloseLabels
<1>6. CASE SelectNext(s)
  <2>1. PICK q : /\ \/ Goto(s, "commit") /\ work' = work
                    \/ Goto(s, "close_read") /\ work' = WorkNext(work, s, q)
                 /\ UNCHANGED <<entries, op, own>>
    BY <1>6 DEF SelectNext, KeepTables, WorkNext
  <2>2. WorkShaped(work') /\ \A t \in Sessions \ {s} : work'[t] = work[t]
    BY <1>3, <2>1, SetNext
  <2>3. QED
    BY <1>2, <1>3, <2>1, <2>2, ClosingGoesOn DEF CloseLabels
<1>7. CASE SelectBalances(s)
  <2>1. PICK todo, carry : work' = WorkCarry(WorkTodo(work, s, todo), s, carry)
    BY <1>7 DEF SelectBalances, WorkCarry, WorkTodo
  <2>3. Goto(s, IF Carried(op[s].period) = {} THEN "commit" ELSE "close_insert")
    BY <1>7 DEF SelectBalances
  <2>4. UNCHANGED <<entries, op, own>>
    BY <1>7 DEF SelectBalances, KeepTables
  <2>2. WorkShaped(work') /\ \A t \in Sessions \ {s} : work'[t] = work[t]
    <3> DEFINE half == WorkTodo(work, s, todo)
    <3>1. WorkShaped(half) /\ \A t \in Sessions \ {s} : half[t] = work[t]
      BY <1>3, SetTodo
    <3>2. work' = WorkCarry(half, s, carry)
      BY <2>1
    <3> HIDE DEF half
    <3>3. QED
      BY <3>1, <3>2, SetCarry
  <2>5. PICK label \in CloseLabels \cup {"commit"} : Goto(s, label)
    BY <2>3 DEF CloseLabels
  <2>6. QED
    BY <1>2, <1>3, <2>2, <2>4, <2>5, ClosingGoesOn
<1>8. CASE InsertOpening(s)
  <2>1. CASE Rollback(s)
    BY <2>1, RollbackKeeps
  <2>2. ASSUME NEW rows, NEW todo, NEW label \in CloseLabels \cup {"commit"},
               own' = OwnRows(own, s, rows), work' = WorkTodo(work, s, todo), Goto(s, label),
               UNCHANGED <<entries, op>>
        PROVE  SessionsInv'
    <3>1. /\ OwnShaped(own') /\ \A t \in Sessions \ {s} : own'[t] = own[t]
          /\ own'[s].entry = own[s].entry /\ own'[s].voided = own[s].voided
      BY <1>3, <2>2, WriteRows
    <3>2. WorkShaped(work') /\ \A t \in Sessions \ {s} : work'[t] = work[t]
      BY <1>3, <2>2, SetTodo
    <3>3. QED
      BY <1>2, <2>2, <3>1, <3>2, ClosingGoesOn
  <2>3. \/ Rollback(s)
        \/ \E rows, todo : \E label \in CloseLabels \cup {"commit"} :
             /\ own' = OwnRows(own, s, rows) /\ work' = WorkTodo(work, s, todo)
             /\ Goto(s, label) /\ UNCHANGED <<entries, op>>
    BY <1>8 DEF InsertOpening, KeepTables, OwnRows, WorkTodo, CloseLabels
  <2>4. QED
    BY <2>1, <2>2, <2>3
<1>9. CASE SelectStatus(s)
  <2>1. \/ Rollback(s)
        \/ Goto(s, "status_update") /\ UNCHANGED <<entries, op, own, work>>
    BY <1>9 DEF SelectStatus, KeepTables
  <2>2. QED
    BY <1>2, <1>3, <2>1, RollbackKeeps, ClosingGoesOn DEF StatusLabels
<1>10. QED
  BY <1>4, <1>5, <1>6, <1>7, <1>8, <1>9

\* The UPDATE of an opening or a locking, which ends the request.
LEMMA UpdateStatusKeeps ==
  ASSUME SessionsInv, NEW s \in Sessions, UpdateStatus(s)
  PROVE  SessionsInv'
PROOF
<1>1. Private(s)
  BY FinishIdles DEF UpdateStatus, Private
<1>2. QED
  BY <1>1, PrivateKeeps

----------------------------------------------------------------------------
(* The commit, and the seed script. *)

\* A closing commits no entry.
LEMMA NoneInserted ==
  ASSUME SessionsInv, NEW s \in Sessions, NothingVoided(s)
  PROVE  SeenEntries(s) = entries
PROOF
<1>1. entries \in Seq(Entry)
  BY DEF SessionsInv, EntriesShaped
<1>2. [e \in DOMAIN entries |-> IF e \in own[s].voided
                               THEN [entries[e] EXCEPT !.status = "voided"] ELSE entries[e]]
      = entries
  BY <1>1 DEF NothingVoided
<1>3. QED
  BY <1>1, <1>2 DEF SeenEntries, NothingVoided

\* What a posting or a reversal commits: its entry, and its original voided.
LEMMA OneInserted ==
  ASSUME SessionsInv, NEW s \in Sessions, IsWriting(s)
  PROVE  /\ SeenEntries(s) \in Seq(Entry)
         /\ Len(SeenEntries(s)) = Len(entries) + 1
         /\ SeenEntries(s)[Len(entries) + 1] = own[s].entry[1]
         /\ \A e \in DOMAIN entries :
              /\ SeenEntries(s)[e].reverses = entries[e].reverses
              /\ SeenEntries(s)[e].currency = entries[e].currency
              /\ SeenEntries(s)[e].status =
                   IF e \in own[s].voided THEN "voided" ELSE entries[e].status
PROOF
<1> DEFINE kept == [e \in DOMAIN entries |-> IF e \in own[s].voided
                               THEN [entries[e] EXCEPT !.status = "voided"] ELSE entries[e]]
<1>1. entries \in Seq(Entry) /\ Len(entries) \in Nat /\ DOMAIN entries = 1 .. Len(entries)
  BY DEF SessionsInv, EntriesShaped
<1>2. ASSUME NEW e \in DOMAIN entries
      PROVE  /\ kept[e] \in Entry
             /\ kept[e].reverses = entries[e].reverses
             /\ kept[e].currency = entries[e].currency
             /\ kept[e].status = IF e \in own[s].voided THEN "voided" ELSE entries[e].status
  <2>1. entries[e] \in Entry
    BY <1>1
  <2>2. CASE e \in own[s].voided
    <3>1. kept[e] = [entries[e] EXCEPT !.status = "voided"]
      BY <2>2
    <3>2. QED
      BY <2>1, <2>2, <3>1 DEF Entry
  <2>3. CASE e \notin own[s].voided
    BY <2>1, <2>3
  <2>4. QED
    BY <2>2, <2>3
<1>3. kept \in Seq(Entry) /\ Len(kept) = Len(entries)
  <2>1. kept \in [1 .. Len(entries) -> Entry]
    BY <1>1, <1>2
  <2> HIDE DEF kept
  <2>2. QED
    BY <1>1, <2>1
<1>4. own[s].entry \in Seq(Entry) /\ Len(own[s].entry) = 1
  BY DEF IsWriting
<1>5. SeenEntries(s) = kept \o own[s].entry
  BY DEF SeenEntries
<1> HIDE DEF kept
<1>6. /\ SeenEntries(s) \in Seq(Entry)
      /\ Len(SeenEntries(s)) = Len(entries) + 1
      /\ SeenEntries(s)[Len(entries) + 1] = own[s].entry[1]
      /\ \A e \in DOMAIN entries : SeenEntries(s)[e] = kept[e]
  <2>1. PICK one : one = own[s].entry /\ one \in Seq(Entry) /\ Len(one) = 1
    BY <1>4
  <2>2. kept \o one \in Seq(Entry) /\ Len(kept \o one) = Len(entries) + 1
    <3>1. PICK S : S = Entry
      OBVIOUS
    <3>2. kept \in Seq(S) /\ one \in Seq(S)
      BY <1>3, <2>1, <3>1
    <3>3. kept \o one \in Seq(S) /\ Len(kept \o one) = Len(kept) + Len(one)
      BY <3>2
    <3>4. QED
      BY <1>3, <2>1, <3>1, <3>3
  <2>3. (kept \o one)[Len(entries) + 1] = one[1]
    BY <1>1, <1>3, <2>1
  <2>4. \A e \in 1 .. Len(entries) : (kept \o one)[e] = kept[e]
    BY <1>1, <1>3, <2>1
  <2>5. QED
    BY <1>1, <1>5, <2>1, <2>2, <2>3, <2>4
<1>7. QED
  BY <1>2, <1>6

\* A commit of any request: a reversal commits with its void.
LEMMA CommitKeeps ==
  ASSUME SessionsInv, NEW s \in Sessions, CommitTransaction(s)
  PROVE  SessionsInv'
PROOF
<1>1. SessionsShaped' /\ SessionInv(s)' /\ \A t \in Sessions \ {s} : Untouched(t)
  BY FinishIdles DEF CommitTransaction
<1>2. entries' = SeenEntries(s)
  BY DEF CommitTransaction
<1>3. CASE IsClosing(s)
  <2>1. entries' = entries
    BY <1>2, <1>3, NoneInserted DEF IsClosing
  <2>2. QED
    BY <1>1, <2>1, PrivateKeeps DEF Private
<1>4. CASE IsWriting(s)
  <2> DEFINE n == Len(entries)
             id == op[s].reverses
  <2>1. /\ n \in Nat /\ DOMAIN entries = 1 .. n
        /\ \A e \in DOMAIN entries : entries[e] \in Entry /\ entries[e].reverses <= n
    BY DEF SessionsInv, EntriesShaped
  <2>2. /\ entries' \in Seq(Entry) /\ Len(entries') = n + 1 /\ DOMAIN entries' = 1 .. n + 1
        /\ entries'[n + 1].status = "posted" /\ entries'[n + 1].reverses = id
        /\ \A e \in 1 .. n :
             /\ entries'[e].reverses = entries[e].reverses
             /\ entries'[e].status =
                  IF e \in own[s].voided THEN "voided" ELSE entries[e].status
    <3>1. entries' \in Seq(Entry) /\ Len(entries') = n + 1
      BY <1>2, <1>4, OneInserted
    <3>2. entries'[n + 1] = own[s].entry[1]
      BY <1>2, <1>4, OneInserted
    <3>3. own[s].entry[1].status = "posted" /\ own[s].entry[1].reverses = id
      BY <1>4 DEF IsWriting
    <3>4. \A e \in DOMAIN entries :
            /\ entries'[e].reverses = entries[e].reverses
            /\ entries'[e].status = IF e \in own[s].voided THEN "voided" ELSE entries[e].status
      BY <1>2, <1>4, OneInserted
    <3> HIDE DEF n, id
    <3>5. DOMAIN entries' = 1 .. n + 1
      BY <2>1, <3>1
    <3>6. QED
      BY <2>1, <3>1, <3>2, <3>3, <3>4, <3>5
  <2>3. id \in Nat /\ id <= n
    BY <1>4 DEF IsWriting, ReversesOk
  <2>4. \/ id = 0 /\ own[s].voided = {}
        \/ /\ id \in DOMAIN entries /\ own[s].voided \subseteq {id}
           /\ id \in own[s].voided \/ entries[id].status = "voided"
    BY <1>4 DEF IsWriting, ReversesOk, OriginalGone, CommitTransaction, NoEntry
  <2> HIDE DEF n, id
  <2>5. EntriesShaped'
    <3>1. \A e \in 1 .. n + 1 : entries'[e].reverses <= n + 1
      <4> SUFFICES ASSUME NEW e \in 1 .. n + 1
                   PROVE  entries'[e].reverses <= n + 1
        OBVIOUS
      <4>1. CASE e = n + 1
        BY <2>1, <2>2, <2>3, <4>1
      <4>2. CASE e \in 1 .. n
        <5>1. entries[e].reverses \in Nat /\ entries[e].reverses <= n
          BY <2>1, <4>2 DEF Entry
        <5>2. QED
          BY <2>1, <2>2, <4>2, <5>1
      <4>3. QED
        BY <2>1, <4>1, <4>2
    <3>2. QED
      BY <2>2, <3>1 DEF EntriesShaped
  <2>6. EntriesGrow
    BY <2>1, <2>2 DEF EntriesGrow, n
  <2>7. VoidedHasReversal'
    <3> SUFFICES ASSUME NEW e \in 1 .. n + 1
                 PROVE  entries'[e].status = "voided"
                          <=> \E r \in 1 .. n + 1 : entries'[r].reverses = e
      BY <2>2 DEF VoidedHasReversal
    <3>1. CASE e = n + 1
      <4>1. ASSUME NEW r \in 1 .. n + 1
            PROVE  entries'[r].reverses # n + 1
        <5>1. CASE r = n + 1
          BY <2>1, <2>2, <2>3, <5>1
        <5>2. CASE r \in 1 .. n
          <6>1. entries[r].reverses \in Nat /\ entries[r].reverses <= n
            BY <2>1, <5>2 DEF Entry
          <6>2. QED
            BY <2>1, <2>2, <5>2, <6>1
        <5>3. QED
          BY <2>1, <5>1, <5>2
      <4>2. QED
        BY <2>2, <3>1, <4>1
    <3>2. CASE e \in 1 .. n
      <4>1. entries[e].status = "voided" <=> \E r \in 1 .. n : entries[r].reverses = e
        BY <2>1, <3>2 DEF SessionsInv, VoidedHasReversal
      <4>2. (\E r \in 1 .. n + 1 : entries'[r].reverses = e)
              <=> (\E r \in 1 .. n : entries[r].reverses = e) \/ id = e
        <5>1. 1 .. n + 1 = (1 .. n) \cup {n + 1}
          BY <2>1
        <5>2. QED
          BY <2>2, <5>1
      <4>3. entries'[e].status = "voided" <=> entries[e].status = "voided" \/ id = e
        BY <2>1, <2>2, <2>4, <3>2
      <4>4. QED
        BY <4>1, <4>2, <4>3
    <3>3. QED
      BY <2>1, <3>1, <3>2
  <2>8. \A t \in Sessions : SessionInv(t)'
    BY <1>1, <2>5, <2>6, OtherSession DEF SessionsInv
  <2>9. QED
    BY <1>1, <2>5, <2>7, <2>8 DEF SessionsInv
<1>5. IsClosing(s) \/ IsWriting(s)
  BY DEF CommitTransaction, SessionsInv, SessionInv, IsIdle, Idle, IsLooking, IsStarting
<1>6. QED
  BY <1>3, <1>4, <1>5

\* Seeding a period.
LEMMA SeedKeeps ==
  ASSUME SessionsInv, NEW p \in Periods, RunSeed(p)
  PROVE  SessionsInv'
PROOF
<1>1. /\ entries' = entries /\ pc' = pc /\ op' = op /\ own' = own
      /\ work' = [s \in Sessions |-> [work[s] EXCEPT !.alone = Idle(s)]]
  BY DEF RunSeed, SeedPeriod
<1>2. ASSUME NEW t \in Sessions
      PROVE  work'[t] = LocalsOf(work'[t]) /\ work'[t].voidDone = work[t].voidDone
  <2>1. work[t] = LocalsOf(work[t])
    BY ShapesNow DEF WorkShaped
  <2>2. PICK alone : work'[t] = [work[t] EXCEPT !.alone = alone]
    BY <1>1
  <2>3. QED
    BY <2>1, <2>2 DEF LocalsOf
<1>3. WorkShaped(work')
  BY <1>1, <1>2 DEF WorkShaped
<1>4. SessionsShaped'
  BY <1>1, <1>3 DEF SessionsInv, SessionsShaped, WorkShaped, LocalsOf
<1>5. EntriesShaped' /\ VoidedHasReversal' /\ EntriesGrow
  BY <1>1 DEF SessionsInv, EntriesShaped, VoidedHasReversal, EntriesGrow
<1>6. \A t \in Sessions : SessionInv(t)'
  BY <1>1, <1>2, <1>5, OtherSession DEF SessionsInv, Untouched
<1>7. QED
  BY <1>4, <1>5, <1>6 DEF SessionsInv

----------------------------------------------------------------------------

\* SessionsInv is inductive.
LEMMA StepKeepsSessions == SessionsInv /\ [SessionsNext]_allVars => SessionsInv'
PROOF
<1> SUFFICES ASSUME SessionsInv, [SessionsNext]_allVars
             PROVE  SessionsInv'
  OBVIOUS
<1>1. ASSUME NEW s \in Sessions, Client(s)
      PROVE  SessionsInv'
  BY <1>1, ClientKeeps
<1>2. ASSUME NEW s \in Sessions, Statement(s)
      PROVE  SessionsInv'
  <2>1. CASE DeadlockVictim(s)
    BY <2>1, RollbackKeeps DEF DeadlockVictim
  <2>2. QED
    BY <1>2, <2>1, SelectPeriodKeeps, InsertKeeps, SumLinesKeeps, SelectRowKeeps, FlushRowKeeps,
       SelectOriginalKeeps, VoidOriginalKeeps, ClosingKeeps, UpdateStatusKeeps, CommitKeeps
    DEF Statement
<1>3. ASSUME NEW p \in Periods, RunSeed(p)
      PROVE  SessionsInv'
  BY <1>3, SeedKeeps
<1>4. CASE UNCHANGED allVars
  <2>1. /\ entries' = entries /\ pc' = pc /\ op' = op /\ own' = own /\ work' = work
    BY <1>4 DEF allVars
  <2>2. SessionsShaped' /\ EntriesShaped' /\ VoidedHasReversal' /\ EntriesGrow
    BY <2>1 DEF SessionsInv, SessionsShaped, EntriesShaped, VoidedHasReversal, EntriesGrow
  <2>3. \A t \in Sessions : SessionInv(t)'
    BY <2>1, <2>2, OtherSession DEF SessionsInv, Untouched
  <2>4. QED
    BY <2>2, <2>3 DEF SessionsInv
<1>5. QED
  BY <1>1, <1>2, <1>3, <1>4 DEF SessionsNext

\* However many requests interleave, and whichever of them the database ends: an
\* entry is out of the books exactly when a reversal of it is in them, although
\* two requests may post a reversal of one entry (LedgerService.reverse_journal_entry).
THEOREM VoidedOnlyWithReversal == SessionsSpec => []VoidedHasReversal
PROOF
<1>1. SessionsInv => VoidedHasReversal
  BY DEF SessionsInv
<1>2. QED
  BY InitSessions, StepKeepsSessions, <1>1, PTL DEF SessionsSpec

----------------------------------------------------------------------------
(* What each statement does, column by column. *)

\* What a statement of one session leaves alone.
OthersKept(s) ==
  \A t \in Sessions \ {s} :
    pc'[t] = pc[t] /\ op'[t] = op[t] /\ own'[t] = own[t] /\ work'[t] = work[t]

TablesKept == UNCHANGED <<period, entries, lines, balances>>

\* The entry a request inserts.
EntryOf(s) ==
  [period |-> op[s].period, status |-> "posted",
   type |-> IF op[s].kind = "post" THEN "STANDARD" ELSE "REVERSAL",
   reverses |-> op[s].reverses, currency |-> "CZK"]

\* The next statement of a session.
LEMMA GotoDoes ==
  ASSUME SessionsInv, NEW s \in Sessions, NEW label, Goto(s, label)
  PROVE  pc'[s] = label /\ \A t \in Sessions \ {s} : pc'[t] = pc[t]
BY DEF SessionsInv, SessionsShaped, Goto

\* The entry and its lines, and the accounts to recompute.
LEMMA InsertDoes ==
  ASSUME SessionsInv, NEW s \in Sessions, Insert(s)
  PROVE  /\ pc[s] = "insert" /\ pc'[s] = "sum" /\ OthersKept(s) /\ TablesKept
         /\ op' = op /\ started' = started
         /\ own'[s].entry = <<EntryOf(s)>> /\ own'[s].rows = own[s].rows
         /\ own'[s].lines = LineRows(1, op[s].req, RateScale)
         /\ own'[s].voided = own[s].voided /\ own'[s].closed = own[s].closed
         /\ work'[s].todo = AccountsOf(op[s].req) /\ work'[s].period = op[s].period
         /\ work'[s].voidDone = work[s].voidDone /\ work'[s].alone = work[s].alone
<1>1. PICK entry, new, todo, p :
        /\ entry = <<EntryOf(s)>> /\ new = LineRows(1, op[s].req, RateScale)
        /\ todo = AccountsOf(op[s].req) /\ p = op[s].period
        /\ own' = OwnLines(OwnEntry(own, s, entry), s, new)
        /\ work' = WorkPeriod(WorkTodo(work, s, todo), s, p)
  BY DEF Insert, OwnLines, OwnEntry, WorkPeriod, WorkTodo, EntryOf
<1> DEFINE first == OwnEntry(own, s, entry)
           half == WorkTodo(work, s, todo)
<1>2. /\ OwnShaped(first) /\ \A t \in Sessions \ {s} : first[t] = own[t]
      /\ first[s].entry = entry /\ first[s].rows = own[s].rows
      /\ first[s].voided = own[s].voided /\ first[s].closed = own[s].closed
  BY ShapesNow, WriteEntry
<1>3. /\ WorkShaped(half) /\ \A t \in Sessions \ {s} : half[t] = work[t]
      /\ half[s].todo = todo /\ half[s].voidDone = work[s].voidDone
      /\ half[s].alone = work[s].alone
  BY ShapesNow, SetTodo
<1>4. own' = OwnLines(first, s, new) /\ work' = WorkPeriod(half, s, p)
  BY <1>1
<1> HIDE DEF first, half
<1>5. /\ \A t \in Sessions \ {s} : own'[t] = own[t]
      /\ own'[s].entry = entry /\ own'[s].lines = new /\ own'[s].rows = own[s].rows
      /\ own'[s].voided = own[s].voided /\ own'[s].closed = own[s].closed
  BY <1>2, <1>4, WriteLines
<1>6. /\ \A t \in Sessions \ {s} : work'[t] = work[t]
      /\ work'[s].todo = todo /\ work'[s].period = p
      /\ work'[s].voidDone = work[s].voidDone /\ work'[s].alone = work[s].alone
  BY <1>3, <1>4, SetPeriod
<1>7. Goto(s, "sum") /\ TablesKept /\ op' = op /\ started' = started /\ pc[s] = "insert"
  BY DEF Insert, KeepTables, TablesKept
<1>8. QED
  BY <1>1, <1>5, <1>6, <1>7, GotoDoes DEF OthersKept

SummedRows(s, a) == PostedLines(SeenEntries(s), SeenLines(s), work[s].period, a)

\* The totals _recompute_account_balance reads.
TotalsOf(rows) ==
  <<TotalCzk(OnSide(rows, "DEBIT")), TotalCzk(OnSide(rows, "CREDIT")), Cardinality(rows)>>

\* The totals of one of the accounts left.
LEMMA SumLinesDoes ==
  ASSUME SessionsInv, NEW s \in Sessions, SumLines(s)
  PROVE  /\ pc[s] = "sum" /\ pc'[s] = "read" /\ OthersKept(s) /\ TablesKept
         /\ op' = op /\ started' = started /\ own' = own
         /\ work'[s].account \in work[s].todo
         /\ work'[s].totals = TotalsOf(SummedRows(s, work'[s].account))
         /\ work'[s].todo = work[s].todo /\ work'[s].period = work[s].period
         /\ work'[s].voidDone = work[s].voidDone /\ work'[s].alone = work[s].alone
<1>1. PICK a, totals :
        /\ a \in work[s].todo /\ totals = TotalsOf(SummedRows(s, a))
        /\ work' = WorkTotals(WorkAccount(work, s, a), s, totals)
  BY DEF SumLines, WorkTotals, WorkAccount, TotalsOf, SummedRows
<1> DEFINE half == WorkAccount(work, s, a)
<1>2. /\ WorkShaped(half) /\ \A t \in Sessions \ {s} : half[t] = work[t]
      /\ half[s].account = a /\ half[s].todo = work[s].todo /\ half[s].period = work[s].period
      /\ half[s].voidDone = work[s].voidDone /\ half[s].alone = work[s].alone
  BY ShapesNow, SetAccount
<1>3. work' = WorkTotals(half, s, totals)
  BY <1>1
<1> HIDE DEF half
<1>4. /\ \A t \in Sessions \ {s} : work'[t] = work[t]
      /\ work'[s].account = a /\ work'[s].totals = totals
      /\ work'[s].todo = work[s].todo /\ work'[s].period = work[s].period
      /\ work'[s].voidDone = work[s].voidDone /\ work'[s].alone = work[s].alone
  BY <1>2, <1>3, SetTotals
<1>5. /\ Goto(s, "read") /\ TablesKept /\ op' = op /\ started' = started /\ own' = own
      /\ pc[s] = "sum"
  BY DEF SumLines, KeepTables, TablesKept
<1>6. QED
  BY <1>1, <1>4, <1>5, GotoDoes DEF OthersKept

\* The balance row as the session sees it.
LEMMA SelectRowDoes ==
  ASSUME SessionsInv, NEW s \in Sessions, SelectRow(s)
  PROVE  /\ pc[s] = "read" /\ pc'[s] = "flush" /\ OthersKept(s) /\ TablesKept
         /\ op' = op /\ started' = started /\ own' = own
         /\ work'[s].loaded = SeenRow(s, WorkKey(s))
         /\ work'[s].account = work[s].account /\ work'[s].totals = work[s].totals
         /\ work'[s].todo = work[s].todo /\ work'[s].period = work[s].period
         /\ work'[s].voidDone = work[s].voidDone /\ work'[s].alone = work[s].alone
<1>1. PICK row : row = SeenRow(s, WorkKey(s)) /\ work' = WorkLoaded(work, s, row)
  BY DEF SelectRow, WorkLoaded
<1>2. /\ \A t \in Sessions \ {s} : work'[t] = work[t]
      /\ work'[s].loaded = row
      /\ work'[s].account = work[s].account /\ work'[s].totals = work[s].totals
      /\ work'[s].todo = work[s].todo /\ work'[s].period = work[s].period
      /\ work'[s].voidDone = work[s].voidDone /\ work'[s].alone = work[s].alone
  BY <1>1, ShapesNow, SetLoaded
<1>3. /\ Goto(s, "flush") /\ TablesKept /\ op' = op /\ started' = started /\ own' = own
      /\ pc[s] = "read"
  BY DEF SelectRow, KeepTables, TablesKept
<1>4. QED
  BY <1>1, <1>2, <1>3, GotoDoes DEF OthersKept

\* The flush of a balance row: nothing changed, or one row is written.
RowFlushed(s) ==
  \/ /\ work[s].loaded # NoRow /\ NewRow(s) = work[s].loaded
     /\ own' = own
  \/ /\ \/ work[s].loaded = NoRow /\ SeenRow(s, WorkKey(s)) = NoRow
        \/ work[s].loaded # NoRow /\ NewRow(s) # work[s].loaded
     /\ RowFree(s, WorkKey(s))
     /\ own'[s].rows = WithRow(own[s].rows, WorkKey(s),
                         IF work[s].loaded = NoRow THEN NewRow(s)
                         ELSE Updated(SeenRow(s, WorkKey(s)), work[s].loaded, NewRow(s)))
     /\ own'[s].entry = own[s].entry /\ own'[s].lines = own[s].lines
     /\ own'[s].voided = own[s].voided /\ own'[s].closed = own[s].closed

\* The balance row, unless the request ends on a duplicate.
LEMMA FlushRowDoes ==
  ASSUME SessionsInv, NEW s \in Sessions, FlushRow(s), ~Rollback(s)
  PROVE  /\ pc[s] = "flush" /\ pc'[s] = AfterRow(s) /\ OthersKept(s) /\ TablesKept
         /\ op' = op /\ started' = started /\ RowFlushed(s)
         /\ work'[s].todo = work[s].todo \ {work[s].account}
         /\ work'[s].period = work[s].period
         /\ work'[s].voidDone = work[s].voidDone /\ work'[s].alone = work[s].alone
<1>1. RowDone(s) /\ KeepTables /\ pc[s] = "flush"
  BY DEF FlushRow
<1>2. PICK todo : /\ todo = work[s].todo \ {work[s].account}
                  /\ work' = WorkTodo(work, s, todo)
  <2>1. work' = WorkTodo(work, s, work[s].todo \ {work[s].account})
    BY <1>1 DEF RowDone, WorkTodo
  <2>2. QED
    BY <2>1
<1>3. /\ \A t \in Sessions \ {s} : work'[t] = work[t]
      /\ work'[s].todo = todo /\ work'[s].period = work[s].period
      /\ work'[s].voidDone = work[s].voidDone /\ work'[s].alone = work[s].alone
  BY <1>2, ShapesNow, SetTodo
<1>4. (\A t \in Sessions \ {s} : own'[t] = own[t]) /\ RowFlushed(s)
  <2>1. CASE work[s].loaded # NoRow /\ NewRow(s) = work[s].loaded
    BY <2>1 DEF FlushRow, RowFlushed
  <2>2. CASE \/ work[s].loaded = NoRow
             \/ work[s].loaded # NoRow /\ NewRow(s) # work[s].loaded
    <3>1. PICK rows :
            /\ rows = WithRow(own[s].rows, WorkKey(s),
                        IF work[s].loaded = NoRow THEN NewRow(s)
                        ELSE Updated(SeenRow(s, WorkKey(s)), work[s].loaded, NewRow(s)))
            /\ own' = OwnRows(own, s, rows)
      <4>1. own' = OwnRows(own, s, WithRow(own[s].rows, WorkKey(s),
                        IF work[s].loaded = NoRow THEN NewRow(s)
                        ELSE Updated(SeenRow(s, WorkKey(s)), work[s].loaded, NewRow(s))))
        BY <2>2 DEF FlushRow, OwnRows
      <4>2. QED
        BY <4>1
    <3>2. /\ \A t \in Sessions \ {s} : own'[t] = own[t]
          /\ own'[s].rows = rows
          /\ own'[s].entry = own[s].entry /\ own'[s].lines = own[s].lines
          /\ own'[s].voided = own[s].voided /\ own'[s].closed = own[s].closed
      BY <3>1, ShapesNow, WriteRows
    <3>3. /\ work[s].loaded = NoRow => SeenRow(s, WorkKey(s)) = NoRow
          /\ RowFree(s, WorkKey(s))
      BY <2>2 DEF FlushRow
    <3>4. QED
      BY <2>2, <3>1, <3>2, <3>3 DEF RowFlushed
  <2>3. QED
    BY <2>1, <2>2
<1>5. Goto(s, AfterRow(s)) /\ TablesKept /\ op' = op /\ started' = started
  BY <1>1 DEF RowDone, KeepTables, TablesKept
<1>6. QED
  BY <1>1, <1>2, <1>3, <1>4, <1>5, GotoDoes DEF OthersKept

\* The original, and the request for its mirror.
LEMMA SelectOriginalDoes ==
  ASSUME SessionsInv, NEW s \in Sessions, SelectOriginal(s), ~Rollback(s)
  PROVE  /\ pc[s] = "original" /\ pc'[s] = "period" /\ OthersKept(s) /\ TablesKept
         /\ started' = started /\ own' = own /\ work' = work
         /\ OriginalOk(op[s].id)
         /\ op'[s].kind = "reverse" /\ op'[s].id = op[s].id /\ op'[s].reverses = op[s].id
         /\ op'[s].req = MirrorOf(lines, op[s].id) /\ op'[s].period = op[s].period
<1>1. PICK request :
        /\ request = [kind |-> "reverse", id |-> op[s].id, req |-> MirrorOf(lines, op[s].id),
                      period |-> op[s].period, reverses |-> op[s].id]
        /\ op' = [op EXCEPT ![s] = request]
  BY DEF SelectOriginal
<1>2. /\ Goto(s, "period") /\ TablesKept /\ started' = started /\ own' = own /\ work' = work
      /\ pc[s] = "original" /\ OriginalOk(op[s].id)
  BY DEF SelectOriginal, TablesKept
<1>3. op'[s] = request /\ \A t \in Sessions \ {s} : op'[t] = op[t]
  BY <1>1 DEF SessionsInv, SessionsShaped
<1>4. QED
  BY <1>1, <1>2, <1>3, GotoDoes DEF OthersKept

\* The original voided, and the accounts to recompute.
LEMMA VoidOriginalDoes ==
  ASSUME SessionsInv, NEW s \in Sessions, VoidOriginal(s)
  PROVE  /\ pc[s] = "void" /\ pc'[s] = "sum" /\ OthersKept(s) /\ TablesKept
         /\ op' = op /\ started' = started
         /\ own'[s].voided = VoidedBy(op[s].id)
         /\ own'[s].entry = own[s].entry /\ own'[s].lines = own[s].lines
         /\ own'[s].rows = own[s].rows /\ own'[s].closed = own[s].closed
         /\ work'[s].todo = AccountsOfEntry(lines, op[s].id)
         /\ work'[s].period = entries[op[s].id].period
         /\ work'[s].voidDone = TRUE /\ work'[s].alone = work[s].alone
<1>1. PICK gone, yes, todo, p :
        /\ gone = VoidedBy(op[s].id) /\ yes = TRUE
        /\ todo = AccountsOfEntry(lines, op[s].id) /\ p = entries[op[s].id].period
        /\ own' = OwnVoided(own, s, gone)
        /\ work' = WorkPeriod(WorkTodo(WorkVoidDone(work, s, yes), s, todo), s, p)
  BY DEF VoidOriginal, OwnVoided, WorkPeriod, WorkTodo, WorkVoidDone
<1>2. /\ \A t \in Sessions \ {s} : own'[t] = own[t]
      /\ own'[s].voided = gone /\ own'[s].entry = own[s].entry /\ own'[s].lines = own[s].lines
      /\ own'[s].rows = own[s].rows /\ own'[s].closed = own[s].closed
  BY <1>1, ShapesNow, WriteVoided
<1> DEFINE done == WorkVoidDone(work, s, yes)
           half == WorkTodo(done, s, todo)
<1>3. /\ WorkShaped(done) /\ \A t \in Sessions \ {s} : done[t] = work[t]
      /\ done[s].voidDone = yes /\ done[s].alone = work[s].alone
  BY ShapesNow, SetVoidDone
<1>4. work' = WorkPeriod(half, s, p)
  BY <1>1
<1> HIDE DEF done
<1>5. /\ WorkShaped(half) /\ \A t \in Sessions \ {s} : half[t] = work[t]
      /\ half[s].todo = todo /\ half[s].voidDone = yes /\ half[s].alone = work[s].alone
  BY <1>3, SetTodo
<1> HIDE DEF half
<1>6. /\ \A t \in Sessions \ {s} : work'[t] = work[t]
      /\ work'[s].todo = todo /\ work'[s].period = p
      /\ work'[s].voidDone = yes /\ work'[s].alone = work[s].alone
  BY <1>4, <1>5, SetPeriod
<1>7. Goto(s, "sum") /\ TablesKept /\ op' = op /\ started' = started /\ pc[s] = "void"
  BY DEF VoidOriginal, KeepTables, TablesKept
<1>8. QED
  BY <1>1, <1>2, <1>6, <1>7, GotoDoes DEF OthersKept

\* The period of the entry.
LEMMA SelectPeriodDoes ==
  ASSUME SessionsInv, NEW s \in Sessions, SelectPeriod(s), ~Rollback(s)
  PROVE  /\ pc[s] = "period" /\ pc'[s] = "insert" /\ OthersKept(s) /\ TablesKept
         /\ started' = started /\ op' = op /\ own' = own /\ work' = work
         /\ period[op[s].period].status = "open"
BY GotoDoes DEF SelectPeriod, KeepTables, TablesKept, OthersKept

\* The period to close.
LEMMA SelectClosingDoes ==
  ASSUME SessionsInv, NEW s \in Sessions, SelectClosing(s), ~Rollback(s)
  PROVE  /\ pc[s] = "close_select" /\ pc'[s] = "close_update" /\ OthersKept(s) /\ TablesKept
         /\ started' = started /\ op' = op /\ own' = own /\ work' = work
         /\ period[op[s].period].status = "open"
BY GotoDoes DEF SelectClosing, KeepTables, TablesKept, OthersKept

\* The period to open or to lock.
LEMMA SelectStatusDoes ==
  ASSUME SessionsInv, NEW s \in Sessions, SelectStatus(s), ~Rollback(s)
  PROVE  /\ pc[s] = "status_select" /\ pc'[s] = "status_update" /\ OthersKept(s) /\ TablesKept
         /\ started' = started /\ op' = op /\ own' = own /\ work' = work
         /\ period[op[s].period].status = StatusBefore(op[s].kind)
BY GotoDoes DEF SelectStatus, KeepTables, TablesKept, OthersKept

\* The status of the period to close.
LEMMA UpdateClosingDoes ==
  ASSUME SessionsInv, NEW s \in Sessions, UpdateClosing(s)
  PROVE  /\ pc[s] = "close_update" /\ pc'[s] = "close_next" /\ OthersKept(s) /\ TablesKept
         /\ started' = started /\ op' = op /\ work' = work
         /\ own'[s].closed = {op[s].period}
         /\ own'[s].entry = own[s].entry /\ own'[s].lines = own[s].lines
         /\ own'[s].rows = own[s].rows /\ own'[s].voided = own[s].voided
<1>1. PICK closed : closed = {op[s].period} /\ own' = OwnClosed(own, s, closed)
  BY DEF UpdateClosing, OwnClosed
<1>2. /\ \A t \in Sessions \ {s} : own'[t] = own[t]
      /\ own'[s].closed = closed
      /\ own'[s].entry = own[s].entry /\ own'[s].lines = own[s].lines
      /\ own'[s].rows = own[s].rows /\ own'[s].voided = own[s].voided
  BY <1>1, ShapesNow, WriteClosed
<1>3. /\ Goto(s, "close_next") /\ TablesKept /\ op' = op /\ started' = started /\ work' = work
      /\ pc[s] = "close_update"
  BY DEF UpdateClosing, KeepTables, TablesKept
<1>4. QED
  BY <1>1, <1>2, <1>3, GotoDoes DEF OthersKept

\* The period to carry balances to.
LEMMA SelectNextDoes ==
  ASSUME SessionsInv, NEW s \in Sessions, SelectNext(s)
  PROVE  /\ pc[s] = "close_next" /\ OthersKept(s) /\ TablesKept
         /\ started' = started /\ op' = op /\ own' = own
         /\ \/ pc'[s] = "commit" /\ NextPeriods(op[s].period) = {} /\ work' = work
            \/ /\ pc'[s] = "close_read" /\ work'[s].next \in NextPeriods(op[s].period)
               /\ work'[s].todo = work[s].todo /\ work'[s].alone = work[s].alone
               /\ work'[s].voidDone = work[s].voidDone
<1>1. TablesKept /\ op' = op /\ started' = started /\ own' = own /\ pc[s] = "close_next"
  BY DEF SelectNext, KeepTables, TablesKept
<1>2. CASE NextPeriods(op[s].period) = {} /\ Goto(s, "commit") /\ work' = work
  BY <1>1, <1>2, GotoDoes DEF OthersKept
<1>3. ASSUME NEW q \in NextPeriods(op[s].period), work' = WorkNext(work, s, q),
             Goto(s, "close_read")
      PROVE  /\ OthersKept(s) /\ pc'[s] = "close_read" /\ work'[s].next = q
             /\ work'[s].todo = work[s].todo /\ work'[s].alone = work[s].alone
             /\ work'[s].voidDone = work[s].voidDone
  <2>1. /\ \A t \in Sessions \ {s} : work'[t] = work[t]
        /\ work'[s].next = q
        /\ work'[s].todo = work[s].todo /\ work'[s].alone = work[s].alone
        /\ work'[s].voidDone = work[s].voidDone
    BY <1>3, ShapesNow, SetNext
  <2>2. QED
    BY <1>1, <1>3, <2>1, GotoDoes DEF OthersKept
<1>4. QED
  BY <1>1, <1>2, <1>3 DEF SelectNext, WorkNext

\* The balances to carry.
LEMMA SelectBalancesDoes ==
  ASSUME SessionsInv, NEW s \in Sessions, SelectBalances(s)
  PROVE  /\ pc[s] = "close_read" /\ OthersKept(s) /\ TablesKept
         /\ started' = started /\ op' = op /\ own' = own
         /\ pc'[s] = IF Carried(op[s].period) = {} THEN "commit" ELSE "close_insert"
         /\ work'[s].todo = Carried(op[s].period)
         /\ work'[s].carry = [a \in Carried(op[s].period) |-> balances[op[s].period][a].closing]
         /\ work'[s].next = work[s].next /\ work'[s].alone = work[s].alone
         /\ work'[s].voidDone = work[s].voidDone
<1>1. PICK todo, carry :
        /\ todo = Carried(op[s].period)
        /\ carry = [a \in Carried(op[s].period) |-> balances[op[s].period][a].closing]
        /\ work' = WorkCarry(WorkTodo(work, s, todo), s, carry)
  BY DEF SelectBalances, WorkCarry, WorkTodo
<1> DEFINE half == WorkTodo(work, s, todo)
<1>2. /\ WorkShaped(half) /\ \A t \in Sessions \ {s} : half[t] = work[t]
      /\ half[s].todo = todo /\ half[s].next = work[s].next /\ half[s].alone = work[s].alone
      /\ half[s].voidDone = work[s].voidDone
  BY ShapesNow, SetTodo
<1>3. work' = WorkCarry(half, s, carry)
  BY <1>1
<1> HIDE DEF half
<1>4. /\ \A t \in Sessions \ {s} : work'[t] = work[t]
      /\ work'[s].todo = todo /\ work'[s].carry = carry
      /\ work'[s].next = work[s].next /\ work'[s].alone = work[s].alone
      /\ work'[s].voidDone = work[s].voidDone
  BY <1>2, <1>3, SetCarry
<1>5. PICK label :
        /\ label = IF Carried(op[s].period) = {} THEN "commit" ELSE "close_insert"
        /\ Goto(s, label)
  BY DEF SelectBalances
<1>6. TablesKept /\ op' = op /\ started' = started /\ own' = own /\ pc[s] = "close_read"
  BY DEF SelectBalances, KeepTables, TablesKept
<1>7. QED
  BY <1>1, <1>4, <1>5, <1>6, GotoDoes DEF OthersKept

OpeningInserted(s, a) ==
  /\ SeenRow(s, <<work[s].next, a>>) = NoRow
  /\ RowFree(s, <<work[s].next, a>>)
  /\ own'[s].rows = WithRow(own[s].rows, <<work[s].next, a>>, Row(a, work[s].carry[a], 0, 0, 0))
  /\ work'[s].todo = work[s].todo \ {a}
  /\ pc'[s] = IF work[s].todo = {a} THEN "commit" ELSE "close_insert"

\* One opening balance, unless the request ends on a duplicate.
LEMMA InsertOpeningDoes ==
  ASSUME SessionsInv, NEW s \in Sessions, InsertOpening(s), ~Rollback(s)
  PROVE  /\ pc[s] = "close_insert" /\ OthersKept(s) /\ TablesKept
         /\ started' = started /\ op' = op
         /\ \E a \in work[s].todo : OpeningInserted(s, a)
         /\ own'[s].entry = own[s].entry /\ own'[s].lines = own[s].lines
         /\ own'[s].voided = own[s].voided /\ own'[s].closed = own[s].closed
         /\ work'[s].next = work[s].next /\ work'[s].carry = work[s].carry
         /\ work'[s].alone = work[s].alone /\ work'[s].voidDone = work[s].voidDone
<1>1. PICK a \in work[s].todo :
        /\ SeenRow(s, <<work[s].next, a>>) = NoRow
        /\ RowFree(s, <<work[s].next, a>>)
        /\ own' = OwnRows(own, s, WithRow(own[s].rows, <<work[s].next, a>>,
                                          Row(a, work[s].carry[a], 0, 0, 0)))
        /\ work' = WorkTodo(work, s, work[s].todo \ {a})
        /\ Goto(s, IF work[s].todo = {a} THEN "commit" ELSE "close_insert")
        /\ KeepTables
  BY DEF InsertOpening, OwnRows, WorkTodo
<1>2. PICK rows, todo, label :
        /\ rows = WithRow(own[s].rows, <<work[s].next, a>>, Row(a, work[s].carry[a], 0, 0, 0))
        /\ todo = work[s].todo \ {a}
        /\ label = IF work[s].todo = {a} THEN "commit" ELSE "close_insert"
        /\ own' = OwnRows(own, s, rows) /\ work' = WorkTodo(work, s, todo) /\ Goto(s, label)
  BY <1>1
<1>3. /\ \A t \in Sessions \ {s} : own'[t] = own[t]
      /\ own'[s].rows = rows /\ own'[s].entry = own[s].entry /\ own'[s].lines = own[s].lines
      /\ own'[s].voided = own[s].voided /\ own'[s].closed = own[s].closed
  BY <1>2, ShapesNow, WriteRows
<1>4. /\ \A t \in Sessions \ {s} : work'[t] = work[t]
      /\ work'[s].todo = todo
      /\ work'[s].next = work[s].next /\ work'[s].carry = work[s].carry
      /\ work'[s].alone = work[s].alone /\ work'[s].voidDone = work[s].voidDone
  BY <1>2, ShapesNow, SetTodo
<1>5. TablesKept /\ op' = op /\ started' = started /\ pc[s] = "close_insert"
  BY <1>1 DEF InsertOpening, KeepTables, TablesKept
<1>6. pc'[s] = label /\ \A t \in Sessions \ {s} : pc'[t] = pc[t]
  BY <1>2, GotoDoes
<1>7. OpeningInserted(s, a)
  BY <1>1, <1>2, <1>3, <1>4, <1>6 DEF OpeningInserted
<1>8. OthersKept(s)
  BY <1>3, <1>4, <1>5, <1>6 DEF OthersKept
<1>9. QED
  BY <1>3, <1>4, <1>5, <1>7, <1>8

\* A session that ends, committed or not, is as it was before its first request.
LEMMA FinishDoes ==
  ASSUME SessionsInv, NEW s \in Sessions, Finish(s)
  PROVE  /\ pc'[s] = "idle" /\ OthersKept(s) /\ started' = started
         /\ own'[s] = NoWrites /\ work'[s] = NoWork
BY DEF SessionsInv, SessionsShaped, Finish, OthersKept

\* Other sessions learn of a request that begins only that they are not alone.
OthersInterrupted(s) ==
  \A t \in Sessions \ {s} :
    /\ pc'[t] = pc[t] /\ op'[t] = op[t] /\ own'[t] = own[t]
    /\ work'[t].todo = work[t].todo /\ work'[t].period = work[t].period
    /\ work'[t].account = work[t].account /\ work'[t].loaded = work[t].loaded
    /\ work'[t].next = work[t].next /\ ~work'[t].alone

\* A request begins; those in flight are alone no more.
LEMMA BeginDoes ==
  ASSUME SessionsInv, NEW s \in Sessions, NEW request, NEW first, Begin(s, request, first)
  PROVE  /\ pc[s] = "idle" /\ pc'[s] = first /\ OthersInterrupted(s) /\ TablesKept
         /\ started' = started + 1 /\ started < MaxRequests
         /\ op'[s] = request /\ own' = own
         /\ work'[s].todo = {} /\ work'[s].period = 0 /\ ~work'[s].voidDone
         /\ work'[s].alone = (Active = {})
<1>1. PICK solo : solo = (Active = {})
  OBVIOUS
<1>2. work' = [t \in Sessions |-> IF t = s THEN [NoWork EXCEPT !.alone = solo]
                                ELSE [work[t] EXCEPT !.alone = FALSE]]
  BY <1>1 DEF Begin
<1>3. /\ work'[s].todo = {} /\ work'[s].period = 0 /\ ~work'[s].voidDone
      /\ work'[s].alone = solo
  BY <1>2 DEF NoWork
<1>4. ASSUME NEW t \in Sessions \ {s}
      PROVE  /\ work'[t].todo = work[t].todo /\ work'[t].period = work[t].period
             /\ work'[t].account = work[t].account /\ work'[t].loaded = work[t].loaded
             /\ work'[t].next = work[t].next /\ ~work'[t].alone
  <2>1. work'[t] = [work[t] EXCEPT !.alone = FALSE] /\ work[t] = LocalsOf(work[t])
    BY <1>2, ShapesNow DEF WorkShaped
  <2>2. QED
    BY <2>1 DEF LocalsOf
<1>5. /\ pc[s] = "idle" /\ pc'[s] = first /\ op'[s] = request
      /\ \A t \in Sessions \ {s} : pc'[t] = pc[t] /\ op'[t] = op[t]
      /\ own' = own /\ TablesKept /\ started' = started + 1 /\ started < MaxRequests
  BY DEF SessionsInv, SessionsShaped, Begin, Idle, TablesKept
<1>6. QED
  BY <1>1, <1>3, <1>4, <1>5 DEF OthersInterrupted

\* The seed script inserts a period; requests in flight are alone no more.
LEMMA SeedDoes ==
  ASSUME SessionsInv, NEW p \in Periods, RunSeed(p)
  PROVE  /\ UNCHANGED <<entries, lines, balances, pc, op, own, started>>
         /\ \A t \in Sessions :
              /\ work'[t].todo = work[t].todo /\ work'[t].period = work[t].period
              /\ work'[t].account = work[t].account /\ work'[t].loaded = work[t].loaded
              /\ work'[t].next = work[t].next
              /\ ~Idle(t) => ~work'[t].alone
<1>1. /\ UNCHANGED <<entries, lines, balances, pc, op, own, started>>
      /\ work' = [t \in Sessions |-> [work[t] EXCEPT !.alone = Idle(t)]]
  BY DEF RunSeed, SeedPeriod
<1>2. ASSUME NEW t \in Sessions
      PROVE  /\ work'[t].todo = work[t].todo /\ work'[t].period = work[t].period
             /\ work'[t].account = work[t].account /\ work'[t].loaded = work[t].loaded
             /\ work'[t].next = work[t].next
             /\ ~Idle(t) => ~work'[t].alone
  <2>1. PICK quiet : quiet = Idle(t)
    OBVIOUS
  <2>2. work'[t] = [work[t] EXCEPT !.alone = quiet] /\ work[t] = LocalsOf(work[t])
    BY <1>1, <2>1, ShapesNow DEF WorkShaped
  <2>3. QED
    BY <2>1, <2>2 DEF LocalsOf
<1>3. QED
  BY <1>1, <1>2

----------------------------------------------------------------------------
(* Types. *)

IsRow(row) == DOMAIN row = RowColumns /\ row.row = TRUE

\* What a session has written and what it has read, typed for where it is.
OwnTyped(s) ==
  /\ Idle(s) => own[s] = NoWrites
  /\ own[s].entry = <<>> => own[s].lines = {}
  /\ own[s].lines \subseteq Line
  /\ \A l \in own[s].lines : l.account \in Postable
  /\ own[s].entry # <<>> => own[s].entry[1].currency = "CZK"
  /\ DOMAIN own[s].rows \subseteq Periods \X Accounts
  /\ \A key \in DOMAIN own[s].rows : IsRow(own[s].rows[key])

\* A row that was there when it was read is still there.
LoadedTyped(s) ==
  \/ work[s].loaded = NoRow
  \/ IsRow(work[s].loaded) /\ SeenRow(s, WorkKey(s)) # NoRow

WorkTyped(s) ==
  /\ work[s].todo \subseteq Accounts
  /\ pc[s] \in {"sum", "read", "flush"} => work[s].period \in Periods
  /\ pc[s] \in {"read", "flush"} => work[s].account \in Accounts
  /\ pc[s] = "flush" => LoadedTyped(s)
  /\ pc[s] \in {"close_read", "close_insert"} => work[s].next \in Periods

OpTyped(s) ==
  pc[s] \in {"period", "insert"} =>
    IsLineList(op[s].req) /\ AccountsOf(op[s].req) \subseteq Postable

SessionTyped(s) == pc[s] \in Labels /\ OwnTyped(s) /\ WorkTyped(s) /\ OpTyped(s)

\* The books these requests keep: entries in CZK, on accounts that can be posted to.
PlainBooks ==
  /\ \A e \in DOMAIN entries : entries[e].currency = "CZK"
  /\ \A l \in lines : l.account \in Postable

TypedSessions ==
  /\ TypeOK
  /\ PlainBooks
  /\ started \in 0 .. MaxRequests
  /\ \A s \in Sessions : SessionTyped(s)

RowsStay ==
  \A p \in Periods, a \in Accounts : balances[p][a] # NoRow => balances'[p][a] # NoRow

\* A balance row is not the absence of one.
LEMMA RowNotNull == ASSUME NEW row, IsRow(row) PROVE row # NoRow
BY DEF IsRow, NoRow

\* A session another one does not disturb.
LEMMA OtherTyped ==
  ASSUME NEW t, SessionTyped(t), RowsStay,
         pc'[t] = pc[t], op'[t] = op[t], own'[t] = own[t],
         work'[t].todo = work[t].todo, work'[t].period = work[t].period,
         work'[t].account = work[t].account, work'[t].loaded = work[t].loaded,
         work'[t].next = work[t].next
  PROVE  SessionTyped(t)'
<1>1. OwnTyped(t)' /\ OpTyped(t)'
  BY DEF SessionTyped, OwnTyped, OpTyped, Idle
<1>2. pc[t] = "flush" /\ LoadedTyped(t) => LoadedTyped(t)'
  <2> SUFFICES ASSUME pc[t] = "flush", work[t].loaded # NoRow, SeenRow(t, WorkKey(t)) # NoRow
               PROVE  SeenRow(t, WorkKey(t))' # NoRow
    BY DEF LoadedTyped
  <2>1. work[t].period \in Periods /\ work[t].account \in Accounts
    BY DEF SessionTyped, WorkTyped
  <2>2. WorkKey(t)' = WorkKey(t) /\ WorkKey(t) = <<work[t].period, work[t].account>>
    BY DEF WorkKey
  <2>3. CASE WorkKey(t) \in DOMAIN own[t].rows
    BY <2>2, <2>3 DEF SeenRow
  <2>4. CASE WorkKey(t) \notin DOMAIN own[t].rows
    <3>1. balances[work[t].period][work[t].account] # NoRow
      BY <2>2, <2>4 DEF SeenRow
    <3>2. balances'[work[t].period][work[t].account] # NoRow
      BY <2>1, <3>1 DEF RowsStay
    <3>3. QED
      BY <2>2, <2>4, <3>2 DEF SeenRow
  <2>5. QED
    BY <2>3, <2>4
<1>3. WorkTyped(t)'
  BY <1>2 DEF SessionTyped, WorkTyped
<1>4. QED
  BY <1>1, <1>3 DEF SessionTyped

\* A step that changes no table, and no session but s.
LEMMA StepTyped ==
  ASSUME TypedSessions, NEW s \in Sessions, OthersKept(s), TablesKept, started' = started,
         SessionTyped(s)'
  PROVE  TypedSessions'
<1>1. TypeOK' /\ PlainBooks' /\ RowsStay
  BY DEF TypedSessions, TablesKept, TypeOK, PlainBooks, RowsStay
<1>2. ASSUME NEW t \in Sessions \ {s}
      PROVE  SessionTyped(t)'
  BY <1>1, OtherTyped DEF TypedSessions, OthersKept
<1>3. QED
  BY <1>1, <1>2 DEF TypedSessions

\* A session that is done.
LEMMA IdleTyped ==
  ASSUME NEW s, pc'[s] = "idle", own'[s] = NoWrites, work'[s] = NoWork
  PROVE  SessionTyped(s)'
<1>1. /\ own'[s].entry = <<>> /\ own'[s].lines = {} /\ own'[s].rows = NoFunction
      /\ work'[s].todo = {}
  <2>1. NoWrites.entry = <<>> /\ NoWrites.lines = {} /\ NoWrites.rows = NoFunction
    BY DEF NoWrites
  <2>2. NoWork.todo = {}
    BY DEF NoWork
  <2>3. QED
    BY <2>1, <2>2
<1>2. DOMAIN own'[s].rows = {}
  BY <1>1 DEF NoFunction
<1>3. OwnTyped(s)'
  BY <1>1, <1>2 DEF OwnTyped
<1>4. WorkTyped(s)' /\ OpTyped(s)'
  BY <1>1 DEF WorkTyped, OpTyped
<1>5. QED
  BY <1>3, <1>4 DEF SessionTyped, Labels

\* A session that is rolled back.
LEMMA RollbackTyped ==
  ASSUME SessionsInv, TypedSessions, NEW s \in Sessions, Rollback(s)
  PROVE  TypedSessions'
<1>1. /\ pc'[s] = "idle" /\ OthersKept(s) /\ started' = started /\ own'[s] = NoWrites
      /\ work'[s] = NoWork /\ TablesKept
  BY FinishDoes DEF Rollback, TablesKept
<1>2. SessionTyped(s)'
  BY <1>1, IdleTyped
<1>3. QED
  BY <1>1, <1>2, StepTyped

\* The row a session sees.
LEMMA SeenRowTyped ==
  ASSUME TypedSessions, NEW s \in Sessions, NEW p \in Periods, NEW a \in Accounts
  PROVE  SeenRow(s, <<p, a>>) = NoRow \/ IsRow(SeenRow(s, <<p, a>>))
<1>1. balances[p][a] = NoRow \/ IsRow(balances[p][a])
  BY DEF TypedSessions, TypeOK, IsRow
<1>2. \A key \in DOMAIN own[s].rows : IsRow(own[s].rows[key])
  BY DEF TypedSessions, SessionTyped, OwnTyped
<1>3. QED
  BY <1>1, <1>2 DEF SeenRow

\* A row written keeps the rows of a session rows.
LEMMA WrittenRowTyped ==
  ASSUME NEW s, OwnTyped(s), NEW p \in Periods, NEW a \in Accounts, NEW row, IsRow(row),
         own'[s].rows = WithRow(own[s].rows, <<p, a>>, row),
         own'[s].entry = own[s].entry, own'[s].lines = own[s].lines,
         pc'[s] # "idle"
  PROVE  OwnTyped(s)'
<1> DEFINE new == WithRow(own[s].rows, <<p, a>>, row)
<1>1. /\ DOMAIN new = DOMAIN own[s].rows \cup {<<p, a>>}
      /\ \A k \in DOMAIN new : new[k] = IF k = <<p, a>> THEN row ELSE own[s].rows[k]
  BY DEF WithRow
<1> HIDE DEF new
<1>2. DOMAIN new \subseteq Periods \X Accounts /\ \A k \in DOMAIN new : IsRow(new[k])
  BY <1>1 DEF OwnTyped
<1>3. own'[s].rows = new
  BY DEF new
<1>4. QED
  BY <1>2, <1>3 DEF OwnTyped, Idle

\* A balance row is written.
LEMMA FlushedTyped ==
  ASSUME SessionsInv, TypedSessions, NEW s \in Sessions, FlushRow(s)
  PROVE  TypedSessions'
<1>1. CASE Rollback(s)
  BY <1>1, RollbackTyped
<1>2. CASE ~Rollback(s)
  <2> DEFINE p == work[s].period
             a == work[s].account
  <2>1. /\ pc[s] = "flush" /\ pc'[s] = AfterRow(s) /\ OthersKept(s) /\ TablesKept
        /\ op' = op /\ started' = started /\ RowFlushed(s)
        /\ work'[s].todo = work[s].todo \ {work[s].account}
        /\ work'[s].period = work[s].period
    BY <1>2, FlushRowDoes
  <2>2. pc'[s] \in {"sum", "void", "commit"}
    BY <2>1 DEF AfterRow
  <2>3. /\ OwnTyped(s) /\ WorkTyped(s) /\ p \in Periods /\ a \in Accounts /\ LoadedTyped(s)
        /\ WorkKey(s) = <<p, a>>
    BY <2>1 DEF TypedSessions, SessionTyped, WorkTyped, WorkKey
  <2>4. IsRow(NewRow(s))
    BY DEF IsRow, NewRow, Row, RowColumns
  <2>5. OwnTyped(s)'
    <3>1. CASE own' = own
      BY <2>2, <2>3, <3>1 DEF OwnTyped, Idle
    <3>2. CASE own' # own
      <4> DEFINE row == IF work[s].loaded = NoRow THEN NewRow(s)
                        ELSE Updated(SeenRow(s, WorkKey(s)), work[s].loaded, NewRow(s))
      <4>1. own'[s].rows = WithRow(own[s].rows, <<p, a>>, row)
        BY <2>1, <2>3, <3>2 DEF RowFlushed
      <4>2. own'[s].entry = own[s].entry /\ own'[s].lines = own[s].lines
        BY <2>1, <3>2 DEF RowFlushed
      <4>3. IsRow(row)
        <5>1. CASE work[s].loaded = NoRow
          BY <2>4, <5>1
        <5>2. CASE work[s].loaded # NoRow
          <6>1. IsRow(work[s].loaded) /\ SeenRow(s, <<p, a>>) # NoRow
            BY <2>3, <5>2 DEF LoadedTyped
          <6>2. IsRow(SeenRow(s, <<p, a>>))
            BY <2>3, <6>1, SeenRowTyped
          <6>3. row = Updated(SeenRow(s, <<p, a>>), work[s].loaded, NewRow(s))
            BY <2>3, <5>2
          <6> HIDE DEF row
          <6>4. QED
            BY <2>4, <6>1, <6>2, <6>3 DEF IsRow, Updated, RowColumns
        <5>3. QED
          BY <5>1, <5>2
      <4> HIDE DEF row, p, a
      <4>4. QED
        BY <2>2, <2>3, <4>1, <4>2, <4>3, WrittenRowTyped
    <3>3. QED
      BY <3>1, <3>2
  <2>6. SessionTyped(s)'
    BY <2>1, <2>2, <2>3, <2>5 DEF SessionTyped, WorkTyped, OpTyped, Labels
  <2>7. QED
    BY <2>1, <2>6, StepTyped
<1>3. QED
  BY <1>1, <1>2

\* The statements that look up a period or an entry.
LEMMA ReadsTyped ==
  ASSUME SessionsInv, TypedSessions, NEW s \in Sessions,
         \/ SelectPeriod(s) \/ SelectOriginal(s) \/ SelectClosing(s) \/ SelectStatus(s)
  PROVE  TypedSessions'
<1>1. CASE Rollback(s)
  BY <1>1, RollbackTyped
<1>2. CASE SelectPeriod(s) /\ ~Rollback(s)
  <2>1. /\ pc[s] = "period" /\ pc'[s] = "insert" /\ OthersKept(s) /\ TablesKept
        /\ started' = started /\ op' = op /\ own' = own /\ work' = work
    BY <1>2, SelectPeriodDoes
  <2>2. SessionTyped(s)'
    BY <2>1 DEF TypedSessions, SessionTyped, OwnTyped, WorkTyped, OpTyped, Labels, Idle
  <2>3. QED
    BY <2>1, <2>2, StepTyped
<1>3. CASE SelectClosing(s) /\ ~Rollback(s)
  <2>1. /\ pc[s] = "close_select" /\ pc'[s] = "close_update" /\ OthersKept(s) /\ TablesKept
        /\ started' = started /\ op' = op /\ own' = own /\ work' = work
    BY <1>3, SelectClosingDoes
  <2>2. SessionTyped(s)'
    BY <2>1 DEF TypedSessions, SessionTyped, OwnTyped, WorkTyped, OpTyped, Labels, Idle
  <2>3. QED
    BY <2>1, <2>2, StepTyped
<1>4. CASE SelectOriginal(s) /\ ~Rollback(s)
  <2>1. /\ pc[s] = "original" /\ pc'[s] = "period" /\ OthersKept(s) /\ TablesKept
        /\ started' = started /\ own' = own /\ work' = work
        /\ OriginalOk(op[s].id) /\ op'[s].req = MirrorOf(lines, op[s].id)
    BY <1>4, SelectOriginalDoes
  <2>2. /\ IsLineList(MirrorOf(lines, op[s].id))
        /\ AccountsOf(MirrorOf(lines, op[s].id)) \subseteq Postable
    <3>1. lines \subseteq Line /\ Reversible(lines, op[s].id)
      BY <2>1 DEF TypedSessions, TypeOK, OriginalOk
    <3>2. AccountsOfEntry(lines, op[s].id) \subseteq Postable
      BY DEF TypedSessions, PlainBooks, AccountsOfEntry, LinesOf
    <3>3. QED
      BY <3>1, <3>2, MirrorType, MirrorAccounts
  <2>3. IsLineList(op'[s].req) /\ AccountsOf(op'[s].req) \subseteq Postable
    BY <2>1, <2>2
  <2>4. SessionTyped(s)'
    BY <2>1, <2>3 DEF TypedSessions, SessionTyped, OwnTyped, WorkTyped, OpTyped, Labels, Idle
  <2>5. QED
    BY <2>1, <2>4, StepTyped
<1>5. CASE SelectStatus(s) /\ ~Rollback(s)
  <2>1. /\ pc[s] = "status_select" /\ pc'[s] = "status_update" /\ OthersKept(s) /\ TablesKept
        /\ started' = started /\ op' = op /\ own' = own /\ work' = work
    BY <1>5, SelectStatusDoes
  <2>2. SessionTyped(s)'
    BY <2>1 DEF TypedSessions, SessionTyped, OwnTyped, WorkTyped, OpTyped, Labels, Idle
  <2>3. QED
    BY <2>1, <2>2, StepTyped
<1>6. QED
  BY <1>1, <1>2, <1>3, <1>4, <1>5

\* The other statements of a posting and of a reversal.
LEMMA WritesTyped ==
  ASSUME SessionsInv, TypedSessions, NEW s \in Sessions,
         \/ Insert(s) \/ SumLines(s) \/ SelectRow(s) \/ VoidOriginal(s)
  PROVE  TypedSessions'
<1>1. SessionTyped(s) /\ OwnTyped(s) /\ WorkTyped(s)
  BY DEF TypedSessions, SessionTyped
<1>2. CASE Insert(s)
  <2>1. /\ pc[s] = "insert" /\ pc'[s] = "sum" /\ OthersKept(s) /\ TablesKept
        /\ op' = op /\ started' = started
        /\ own'[s].entry = <<EntryOf(s)>> /\ own'[s].rows = own[s].rows
        /\ own'[s].lines = LineRows(1, op[s].req, RateScale)
        /\ work'[s].todo = AccountsOf(op[s].req) /\ work'[s].period = op[s].period
    BY <1>2, InsertDoes
  <2>2. op[s].period \in Periods
    BY <2>1 DEF SessionsInv, SessionInv, IsIdle, Idle, IsClosing, IsLooking, IsStarting,
           IsWriting, CloseLabels, StatusLabels
  <2>3. IsLineList(op[s].req) /\ AccountsOf(op[s].req) \subseteq Postable
    BY <1>1, <2>1 DEF SessionTyped, OpTyped
  <2>4. /\ LineRows(1, op[s].req, RateScale) \subseteq Line
        /\ \A l \in LineRows(1, op[s].req, RateScale) : l.account \in Postable
    BY <2>3, ConstantsAssumption, LineRowsType
  <2>8. own'[s].entry[1].currency = "CZK"
    BY <2>1 DEF EntryOf
  <2>5. AccountsOf(op[s].req) \subseteq Accounts
    BY <2>3 DEF IsLineList, AccountsOf, RequestLine
  <2>9. OwnTyped(s)'
    <3>1. own'[s].rows = own[s].rows /\ OwnTyped(s) /\ own'[s].entry # <<>>
      BY <1>1, <2>1
    <3>2. QED
      BY <2>1, <2>4, <2>8, <3>1 DEF OwnTyped, Idle
  <2>6. SessionTyped(s)'
    BY <1>1, <2>1, <2>2, <2>4, <2>5, <2>9 DEF SessionTyped, WorkTyped, OpTyped, Labels
  <2>7. QED
    BY <2>1, <2>6, StepTyped
<1>3. CASE SumLines(s)
  <2>1. /\ pc[s] = "sum" /\ pc'[s] = "read" /\ OthersKept(s) /\ TablesKept
        /\ op' = op /\ started' = started /\ own' = own
        /\ work'[s].account \in work[s].todo
        /\ work'[s].todo = work[s].todo /\ work'[s].period = work[s].period
    BY <1>3, SumLinesDoes
  <2>2. SessionTyped(s)'
    BY <1>1, <2>1 DEF SessionTyped, OwnTyped, WorkTyped, OpTyped, Labels, Idle
  <2>3. QED
    BY <2>1, <2>2, StepTyped
<1>4. CASE SelectRow(s)
  <2>1. /\ pc[s] = "read" /\ pc'[s] = "flush" /\ OthersKept(s) /\ TablesKept
        /\ op' = op /\ started' = started /\ own' = own
        /\ work'[s].loaded = SeenRow(s, WorkKey(s))
        /\ work'[s].account = work[s].account
        /\ work'[s].todo = work[s].todo /\ work'[s].period = work[s].period
    BY <1>4, SelectRowDoes
  <2>2. /\ work[s].period \in Periods /\ work[s].account \in Accounts
        /\ WorkKey(s) = <<work[s].period, work[s].account>> /\ WorkKey(s)' = WorkKey(s)
    BY <1>1, <2>1 DEF WorkTyped, WorkKey
  <2>3. SeenRow(s, WorkKey(s))' = SeenRow(s, WorkKey(s))
    BY <2>1, <2>2 DEF SeenRow, TablesKept
  <2>4. LoadedTyped(s)'
    <3>1. SeenRow(s, WorkKey(s)) = NoRow \/ IsRow(SeenRow(s, WorkKey(s)))
      BY <2>2, SeenRowTyped
    <3>2. QED
      BY <2>1, <2>3, <3>1, RowNotNull DEF LoadedTyped
  <2>5. SessionTyped(s)'
    BY <1>1, <2>1, <2>2, <2>4 DEF SessionTyped, OwnTyped, WorkTyped, OpTyped, Labels, Idle
  <2>6. QED
    BY <2>1, <2>5, StepTyped
<1>5. CASE VoidOriginal(s)
  <2>1. /\ pc[s] = "void" /\ pc'[s] = "sum" /\ OthersKept(s) /\ TablesKept
        /\ op' = op /\ started' = started
        /\ own'[s].entry = own[s].entry /\ own'[s].lines = own[s].lines
        /\ own'[s].rows = own[s].rows
        /\ work'[s].todo = AccountsOfEntry(lines, op[s].id)
        /\ work'[s].period = entries[op[s].id].period
    BY <1>5, VoidOriginalDoes
  <2>2. AccountsOfEntry(lines, op[s].id) \subseteq Accounts
    BY DEF TypedSessions, TypeOK, AccountsOfEntry, LinesOf, Line
  <2>3. entries[op[s].id].period \in Periods
    <3>1. IsWriting(s)
      BY <2>1 DEF SessionsInv, SessionInv, IsIdle, Idle, IsClosing, IsLooking, IsStarting,
             CloseLabels, StatusLabels
    <3>2. op[s].id \in DOMAIN entries
      BY <2>1, <3>1 DEF IsWriting, ReversesOk
    <3>3. entries[op[s].id] \in Entry
      BY <3>2 DEF TypedSessions, TypeOK
    <3>4. QED
      BY <3>3 DEF Entry
  <2>4. SessionTyped(s)'
    BY <1>1, <2>1, <2>2, <2>3 DEF SessionTyped, OwnTyped, WorkTyped, OpTyped, Labels, Idle
  <2>5. QED
    BY <2>1, <2>4, StepTyped
<1>6. QED
  BY <1>2, <1>3, <1>4, <1>5

\* The statements of a closing.
LEMMA ClosingTyped ==
  ASSUME SessionsInv, TypedSessions, NEW s \in Sessions,
         \/ UpdateClosing(s) \/ SelectNext(s) \/ SelectBalances(s) \/ InsertOpening(s)
  PROVE  TypedSessions'
<1>1. SessionTyped(s) /\ OwnTyped(s) /\ WorkTyped(s)
  BY DEF TypedSessions, SessionTyped
<1>2. CASE UpdateClosing(s)
  <2>1. /\ pc[s] = "close_update" /\ pc'[s] = "close_next" /\ OthersKept(s) /\ TablesKept
        /\ started' = started /\ op' = op /\ work' = work
        /\ own'[s].entry = own[s].entry /\ own'[s].lines = own[s].lines
        /\ own'[s].rows = own[s].rows
    BY <1>2, UpdateClosingDoes
  <2>2. SessionTyped(s)'
    BY <1>1, <2>1 DEF SessionTyped, OwnTyped, WorkTyped, OpTyped, Labels, Idle
  <2>3. QED
    BY <2>1, <2>2, StepTyped
<1>3. CASE SelectNext(s)
  <2>1. /\ pc[s] = "close_next" /\ OthersKept(s) /\ TablesKept
        /\ started' = started /\ op' = op /\ own' = own
        /\ \/ pc'[s] = "commit" /\ work' = work
           \/ /\ pc'[s] = "close_read" /\ work'[s].next \in NextPeriods(op[s].period)
              /\ work'[s].todo = work[s].todo
    BY <1>3, SelectNextDoes
  <2>2. NextPeriods(op[s].period) \subseteq Periods
    BY DEF NextPeriods
  <2>3. SessionTyped(s)'
    BY <1>1, <2>1, <2>2 DEF SessionTyped, OwnTyped, WorkTyped, OpTyped, Labels, Idle
  <2>4. QED
    BY <2>1, <2>3, StepTyped
<1>4. CASE SelectBalances(s)
  <2>1. /\ pc[s] = "close_read" /\ OthersKept(s) /\ TablesKept
        /\ started' = started /\ op' = op /\ own' = own
        /\ pc'[s] \in {"commit", "close_insert"}
        /\ work'[s].todo = Carried(op[s].period) /\ work'[s].next = work[s].next
    BY <1>4, SelectBalancesDoes
  <2>2. Carried(op[s].period) \subseteq Accounts
    BY ConstantsAssumption DEF Carried
  <2>3. SessionTyped(s)'
    BY <1>1, <2>1, <2>2 DEF SessionTyped, OwnTyped, WorkTyped, OpTyped, Labels, Idle
  <2>4. QED
    BY <2>1, <2>3, StepTyped
<1>5. CASE InsertOpening(s) /\ ~Rollback(s)
  <2>1. /\ pc[s] = "close_insert" /\ OthersKept(s) /\ TablesKept
        /\ started' = started /\ op' = op
        /\ own'[s].entry = own[s].entry /\ own'[s].lines = own[s].lines
        /\ work'[s].next = work[s].next
    BY <1>5, InsertOpeningDoes
  <2>2. PICK a \in work[s].todo : OpeningInserted(s, a)
    BY <1>5, InsertOpeningDoes
  <2>3. work[s].next \in Periods /\ a \in Accounts
    BY <1>1, <2>1 DEF WorkTyped
  <2>4. PICK row : /\ row = Row(a, work[s].carry[a], 0, 0, 0)
                   /\ own'[s].rows = WithRow(own[s].rows, <<work[s].next, a>>, row)
    BY <2>2 DEF OpeningInserted
  <2>5. IsRow(row)
    BY <2>4 DEF IsRow, Row, RowColumns
  <2>6. pc'[s] \in {"commit", "close_insert"} /\ work'[s].todo = work[s].todo \ {a}
    BY <2>2 DEF OpeningInserted
  <2>7. OwnTyped(s)'
    BY <1>1, <2>1, <2>3, <2>4, <2>5, <2>6, WrittenRowTyped
  <2>8. SessionTyped(s)'
    BY <1>1, <2>1, <2>6, <2>7 DEF SessionTyped, WorkTyped, OpTyped, Labels
  <2>9. QED
    BY <2>1, <2>8, StepTyped
<1>6. QED
  BY <1>2, <1>3, <1>4, <1>5, RollbackTyped DEF InsertOpening

\* What a session has written is typed when it is committed.
LEMMA SessionCommitTyped ==
  ASSUME SessionsInv, TypedSessions, NEW s \in Sessions, CommitTransaction(s)
  PROVE  TypedSessions'
<1>1. /\ pc'[s] = "idle" /\ OthersKept(s) /\ started' = started /\ own'[s] = NoWrites
      /\ work'[s] = NoWork
  BY FinishDoes DEF CommitTransaction
<1>2. TypeOK /\ OwnTyped(s) /\ pc[s] = "commit"
  BY DEF TypedSessions, SessionTyped, CommitTransaction
<1>3. /\ entries' = SeenEntries(s) /\ lines' = SeenLines(s)
      /\ balances' = [p \in Periods |-> [a \in Accounts |-> SeenRow(s, <<p, a>>)]]
      /\ period' = [p \in Periods |-> IF p \in own[s].closed
                                      THEN [status |-> "closed", current |-> FALSE]
                                      ELSE period[p]]
  BY DEF CommitTransaction
<1>4. \A p \in Periods, a \in Accounts : balances'[p][a] = SeenRow(s, <<p, a>>)
  BY <1>3
<1>5. RowsStay
  <2> SUFFICES ASSUME NEW p \in Periods, NEW a \in Accounts, balances[p][a] # NoRow
               PROVE  SeenRow(s, <<p, a>>) # NoRow
    BY <1>4 DEF RowsStay
  <2>1. \A key \in DOMAIN own[s].rows : own[s].rows[key] # NoRow
    BY <1>2, RowNotNull DEF OwnTyped
  <2>2. QED
    BY <2>1 DEF SeenRow
<1>6. IsClosing(s) \/ IsWriting(s)
  BY <1>2 DEF SessionsInv, SessionInv, IsIdle, Idle, IsLooking, IsStarting
<1>7. entries' \in Seq(Entry) /\ DOMAIN entries \subseteq DOMAIN entries'
      /\ (IsWriting(s) => Len(entries) + 1 \in DOMAIN entries')
  <2>1. entries \in Seq(Entry) /\ Len(entries) \in Nat
    BY <1>2 DEF TypeOK
  <2>2. CASE IsClosing(s) /\ ~IsWriting(s)
    BY <1>3, <2>1, <2>2, NoneInserted DEF IsClosing
  <2>3. CASE IsWriting(s)
    <3>1. entries' \in Seq(Entry) /\ Len(entries') = Len(entries) + 1
      BY <1>3, <2>3, OneInserted
    <3>2. QED
      BY <2>1, <3>1
  <2>4. QED
    BY <1>6, <2>2, <2>3
<1>8. ASSUME NEW l \in lines'
      PROVE  l \in Line /\ l.entry \in DOMAIN entries'
  <2>1. CASE l \in lines
    BY <1>2, <1>7, <2>1 DEF TypeOK
  <2>2. ASSUME NEW x \in own[s].lines, l = [x EXCEPT !.entry = Len(entries) + 1]
        PROVE  l \in Line /\ l.entry \in DOMAIN entries'
    <3>1. x \in Line /\ own[s].entry # <<>>
      BY <1>2 DEF OwnTyped
    <3>2. IsWriting(s)
      BY <1>6, <3>1 DEF IsClosing, NothingVoided
    <3>3. Len(entries) + 1 \in Nat \ {0}
      BY <1>2 DEF TypeOK
    <3>4. PICK n : n = Len(entries) + 1
      OBVIOUS
    <3>5. l = [x EXCEPT !.entry = n]
      BY <2>2, <3>4
    <3>6. l \in Line /\ l.entry = n
      BY <3>1, <3>3, <3>4, <3>5 DEF Line
    <3>7. QED
      BY <1>7, <3>2, <3>4, <3>6
  <2>3. QED
    BY <1>3, <2>1, <2>2 DEF SeenLines
<1>9. period' \in [Periods -> [status : Status, current : BOOLEAN]]
  BY <1>2, <1>3 DEF TypeOK, Status
<1>10. \A p \in Periods, a \in Accounts : balances'[p][a] = NoRow \/ IsRow(balances'[p][a])
  BY <1>4, SeenRowTyped
<1>11. TypeOK'
  <2>1. DOMAIN balances' = Periods /\ \A p \in Periods : DOMAIN balances'[p] = Accounts
    BY <1>3
  <2>2. QED
    BY <1>7, <1>8, <1>9, <1>10, <2>1 DEF TypeOK, IsRow
<1>12. SessionTyped(s)'
  BY <1>1, IdleTyped
<1>15. PlainBooks'
  <2>1. \A l \in lines' : l.account \in Postable
    <3>1. \A l \in lines : l.account \in Postable
      BY DEF TypedSessions, PlainBooks
    <3>2. ASSUME NEW x \in own[s].lines
          PROVE  [x EXCEPT !.entry = Len(entries) + 1].account \in Postable
      <4>1. x \in Line /\ x.account \in Postable
        BY <1>2 DEF OwnTyped
      <4>2. PICK n : n = Len(entries) + 1
        OBVIOUS
      <4>3. QED
        BY <4>1, <4>2 DEF Line
    <3>3. QED
      BY <1>3, <3>1, <3>2 DEF SeenLines
  <2>2. CASE IsClosing(s) /\ ~IsWriting(s)
    BY <1>3, <2>1, <2>2, NoneInserted DEF IsClosing, TypedSessions, PlainBooks
  <2>3. CASE IsWriting(s)
    <3>1. /\ entries' \in Seq(Entry) /\ Len(entries') = Len(entries) + 1
          /\ entries'[Len(entries) + 1] = own[s].entry[1]
          /\ \A e \in DOMAIN entries : entries'[e].currency = entries[e].currency
      BY <1>3, <2>3, OneInserted
    <3>2. own[s].entry[1].currency = "CZK"
      <4>1. Len(own[s].entry) = 1
        BY <2>3 DEF IsWriting
      <4>2. own[s].entry # <<>>
        BY <4>1
      <4>3. QED
        BY <1>2, <4>2 DEF OwnTyped
    <3>3. \A e \in DOMAIN entries : entries'[e].currency = "CZK"
      BY <3>1 DEF TypedSessions, PlainBooks
    <3>4. Len(entries) \in Nat /\ DOMAIN entries = 1 .. Len(entries)
      BY <1>2 DEF TypeOK
    <3>5. DOMAIN entries' = DOMAIN entries \cup {Len(entries) + 1}
      BY <3>1, <3>4
    <3>6. QED
      BY <2>1, <3>1, <3>2, <3>3, <3>5 DEF PlainBooks
  <2>4. QED
    BY <1>6, <2>2, <2>3
<1>13. \A t \in Sessions \ {s} : SessionTyped(t)'
  BY <1>1, <1>5, OtherTyped DEF TypedSessions, OthersKept
<1>14. QED
  BY <1>1, <1>11, <1>12, <1>13, <1>15 DEF TypedSessions

\* A request that begins.
LEMMA BeginTyped ==
  ASSUME SessionsInv, TypedSessions, NEW s \in Sessions, NEW request, NEW first,
         Begin(s, request, first),
         first \in {"period", "original", "close_select", "status_select"},
         first = "period" =>
           IsLineList(request.req) /\ AccountsOf(request.req) \subseteq Postable
  PROVE  TypedSessions'
<1>1. /\ pc[s] = "idle" /\ pc'[s] = first /\ OthersInterrupted(s) /\ TablesKept
      /\ started' = started + 1 /\ started < MaxRequests /\ op'[s] = request /\ own' = own
      /\ work'[s].todo = {}
  BY BeginDoes
<1>2. TypeOK' /\ PlainBooks' /\ RowsStay
  BY <1>1 DEF TypedSessions, TablesKept, TypeOK, PlainBooks, RowsStay
<1>3. SessionTyped(s)'
  BY <1>1 DEF TypedSessions, SessionTyped, OwnTyped, WorkTyped, OpTyped, Labels, Idle
<1>4. \A t \in Sessions \ {s} : SessionTyped(t)'
  BY <1>1, <1>2, OtherTyped DEF TypedSessions, OthersInterrupted
<1>5. started' \in 0 .. MaxRequests
  BY <1>1, SessionsAssumption DEF TypedSessions
<1>6. QED
  BY <1>2, <1>3, <1>4, <1>5 DEF TypedSessions

\* A request of any kind begins.
LEMMA ClientTyped ==
  ASSUME SessionsInv, TypedSessions, NEW s \in Sessions, Client(s)
  PROVE  TypedSessions'
<1>1. ASSUME NEW req \in Requests, NEW p \in Periods, BeginPost(s, req, p)
      PROVE  TypedSessions'
  <2>1. IsLineList(req) /\ AccountsOf(req) \subseteq Postable
    BY <1>1, RequestType DEF BeginPost, Acceptable
  <2>2. PICK request : /\ request = [kind |-> "post", req |-> req, period |-> p,
                                     reverses |-> NoEntry]
                       /\ Begin(s, request, "period")
    BY <1>1 DEF BeginPost
  <2>3. IsLineList(request.req) /\ AccountsOf(request.req) \subseteq Postable
    BY <2>1, <2>2
  <2>4. QED
    BY <2>2, <2>3, BeginTyped
<1>2. ASSUME NEW id \in DOMAIN entries, NEW p \in Periods, BeginReverse(s, id, p)
      PROVE  TypedSessions'
  BY <1>2, BeginTyped DEF BeginReverse
<1>3. ASSUME NEW p \in Periods, BeginClose(s, p) \/ BeginOpen(s, p) \/ BeginLock(s, p)
      PROVE  TypedSessions'
  BY <1>3, BeginTyped DEF BeginClose, BeginOpen, BeginLock
<1>4. QED
  BY <1>1, <1>2, <1>3 DEF Client

\* A period opened, by the seed script or by a request, or locked.
LEMMA PeriodWritten ==
  ASSUME TypeOK, NEW p,
         \/ period' = [period EXCEPT ![p] = [status |-> "open", current |-> TRUE]]
         \/ period' = [period EXCEPT ![p].status = "locked"]
  PROVE  period' \in [Periods -> [status : Status, current : BOOLEAN]]
<1>1. period \in [Periods -> [status : Status, current : BOOLEAN]]
  BY DEF TypeOK
<1>2. CASE period' = [period EXCEPT ![p] = [status |-> "open", current |-> TRUE]]
  <2>1. [status |-> "open", current |-> TRUE] \in [status : Status, current : BOOLEAN]
    BY DEF Status
  <2>2. QED
    BY <1>1, <1>2, <2>1
<1>3. CASE period' = [period EXCEPT ![p].status = "locked"]
  <2>1. period' = [period EXCEPT ![p] = [period[p] EXCEPT !.status = "locked"]]
    BY <1>3
  <2>2. PICK row : row = [period[p] EXCEPT !.status = "locked"]
    OBVIOUS
  <2>3. p \in Periods => row \in [status : Status, current : BOOLEAN]
    BY <1>1, <2>2 DEF Status
  <2>4. QED
    BY <1>1, <2>1, <2>2, <2>3
<1>4. QED
  BY <1>2, <1>3

\* The end of an opening or of a locking.
LEMMA StatusTyped ==
  ASSUME SessionsInv, TypedSessions, NEW s \in Sessions, UpdateStatus(s)
  PROVE  TypedSessions'
<1>1. /\ pc'[s] = "idle" /\ OthersKept(s) /\ started' = started /\ own'[s] = NoWrites
      /\ work'[s] = NoWork
  BY FinishDoes DEF UpdateStatus
<1>2. period' \in [Periods -> [status : Status, current : BOOLEAN]]
  BY PeriodWritten DEF UpdateStatus, TypedSessions
<1>3. TypeOK' /\ PlainBooks' /\ RowsStay
  BY <1>2 DEF UpdateStatus, TypedSessions, TypeOK, PlainBooks, RowsStay
<1>4. \A t \in Sessions : SessionTyped(t)'
  BY <1>1, <1>3, IdleTyped, OtherTyped DEF TypedSessions, OthersKept
<1>5. QED
  BY <1>1, <1>3, <1>4 DEF TypedSessions

\* Seeding a period.
LEMMA SeedTyped ==
  ASSUME SessionsInv, TypedSessions, NEW p \in Periods, RunSeed(p)
  PROVE  TypedSessions'
<1>1. /\ UNCHANGED <<entries, lines, balances, pc, op, own, started>>
      /\ \A t \in Sessions :
           /\ work'[t].todo = work[t].todo /\ work'[t].period = work[t].period
           /\ work'[t].account = work[t].account /\ work'[t].loaded = work[t].loaded
           /\ work'[t].next = work[t].next
  BY SeedDoes
<1>2. period' \in [Periods -> [status : Status, current : BOOLEAN]]
  BY PeriodWritten DEF RunSeed, SeedPeriod, TypedSessions
<1>3. TypeOK' /\ PlainBooks' /\ RowsStay
  BY <1>1, <1>2 DEF TypedSessions, TypeOK, PlainBooks, RowsStay
<1>4. \A t \in Sessions : SessionTyped(t)'
  BY <1>1, <1>3, OtherTyped DEF TypedSessions
<1>5. QED
  BY <1>1, <1>3, <1>4 DEF TypedSessions

\* The tables and the sessions at the start.
LEMMA InitTyped == SessionsInit => TypedSessions
<1> SUFFICES ASSUME SessionsInit PROVE TypedSessions
  OBVIOUS
<1>1. TypeOK
  BY TypedInit DEF SessionsInit, TypedAndConsistent
<1>2. ASSUME NEW s \in Sessions
      PROVE  SessionTyped(s)
  <2>1. pc[s] = "idle" /\ own[s] = NoWrites /\ work[s] = NoWork
    BY DEF SessionsInit
  <2>2. /\ own[s].entry = <<>> /\ own[s].lines = {} /\ own[s].rows = NoFunction
        /\ work[s].todo = {}
    <3>1. NoWrites.entry = <<>> /\ NoWrites.lines = {} /\ NoWrites.rows = NoFunction
      BY DEF NoWrites
    <3>2. NoWork.todo = {}
      BY DEF NoWork
    <3>3. QED
      BY <2>1, <3>1, <3>2
  <2>3. DOMAIN own[s].rows = {}
    BY <2>2 DEF NoFunction
  <2>4. QED
    BY <2>1, <2>2, <2>3 DEF SessionTyped, OwnTyped, WorkTyped, OpTyped, Labels
<1>3. started \in 0 .. MaxRequests
  BY SessionsAssumption DEF SessionsInit
<1>5. PlainBooks
  BY DEF SessionsInit, Init, PlainBooks
<1>4. QED
  BY <1>1, <1>2, <1>3, <1>5 DEF TypedSessions

\* TypedSessions is inductive relative to SessionsInv.
LEMMA StepKeepsTyped == SessionsInv /\ TypedSessions /\ [SessionsNext]_allVars => TypedSessions'
<1> SUFFICES ASSUME SessionsInv, TypedSessions, [SessionsNext]_allVars
             PROVE  TypedSessions'
  OBVIOUS
<1>1. ASSUME NEW s \in Sessions, Client(s)
      PROVE  TypedSessions'
  BY <1>1, ClientTyped
<1>2. ASSUME NEW s \in Sessions, Statement(s)
      PROVE  TypedSessions'
  <2>1. CASE DeadlockVictim(s)
    BY <2>1, RollbackTyped DEF DeadlockVictim
  <2>2. CASE SelectPeriod(s) \/ SelectOriginal(s) \/ SelectClosing(s) \/ SelectStatus(s)
    BY <2>2, ReadsTyped
  <2>3. CASE Insert(s) \/ SumLines(s) \/ SelectRow(s) \/ VoidOriginal(s)
    BY <2>3, WritesTyped
  <2>4. CASE UpdateClosing(s) \/ SelectNext(s) \/ SelectBalances(s) \/ InsertOpening(s)
    BY <2>4, ClosingTyped
  <2>5. QED
    BY <1>2, <2>1, <2>2, <2>3, <2>4, FlushedTyped, StatusTyped, SessionCommitTyped
    DEF Statement
<1>3. ASSUME NEW p \in Periods, RunSeed(p)
      PROVE  TypedSessions'
  BY <1>3, SeedTyped
<1>4. CASE UNCHANGED allVars
  BY <1>4 DEF allVars, TypedSessions, TypeOK, PlainBooks, SessionTyped, OwnTyped, WorkTyped,
              OpTyped, LoadedTyped, WorkKey, SeenRow, Idle
<1>5. QED
  BY <1>1, <1>2, <1>3, <1>4 DEF SessionsNext

\* Whatever interleaves, a session without a request holds no row, one with a
\* request has at most one entry, and what it writes are rows of the tables
\* (the requests of ledger_service.py and period_service.py).
THEOREM SessionsTypeCorrect == SessionsSpec => []SessionsTypeOK
<1>1. SessionsInv /\ TypedSessions => SessionsTypeOK
  <2> SUFFICES ASSUME SessionsInv, TypedSessions PROVE SessionsTypeOK
    OBVIOUS
  <2>1. pc \in [Sessions -> Labels]
    BY DEF SessionsInv, SessionsShaped, TypedSessions, SessionTyped
  <2>2. ASSUME NEW s \in Sessions
        PROVE  Len(own[s].entry) <= 1
    <3>1. NothingVoided(s) \/ Len(own[s].entry) = 1
      BY DEF SessionsInv, SessionInv, IsIdle, IsClosing, IsLooking, IsStarting, IsWriting
    <3>2. CASE NothingVoided(s)
      <4>1. PICK none : none = <<>> /\ own[s].entry = none
        BY <3>2 DEF NothingVoided
      <4>2. Len(none) = 0
        BY <4>1
      <4>3. QED
        BY <4>1, <4>2
    <3>3. CASE Len(own[s].entry) = 1
      BY <3>3
    <3>4. QED
      BY <3>1, <3>2, <3>3
  <2>3. QED
    BY <2>1, <2>2 DEF TypedSessions, SessionTyped, OwnTyped, WorkTyped, SessionsTypeOK
<1>2. QED
  BY InitSessions, StepKeepsSessions, InitTyped, StepKeepsTyped, <1>1, PTL DEF SessionsSpec

----------------------------------------------------------------------------
(* A request with no other in flight. *)

\* A table of balances: a row, or its absence, for each period and account.
RowTable(bal) == bal = [p \in Periods |-> [a \in Accounts |-> bal[p][a]]]

\* The tables after the two parts of a request: its entry posted, and for a
\* reversal the original voided.
HeadOf(s) ==
  [type |-> IF op[s].kind = "post" THEN "STANDARD" ELSE "REVERSAL",
   reverses |-> op[s].reverses, currency |-> "CZK"]
Posted(s) == PostTo(Tables, op[s].req, op[s].period, RateScale, HeadOf(s))
Voided(s) == VoidIn(Posted(s), op[s].id)

\* The tables before and after the part the session is in.
Base(s) == IF work[s].voidDone THEN Posted(s) ELSE Tables
Goal(s) == IF work[s].voidDone THEN Voided(s) ELSE Posted(s)

PartAccounts(s) ==
  IF work[s].voidDone THEN AccountsOfEntry(lines, op[s].id) ELSE AccountsOf(op[s].req)
PartPeriod(s) ==
  IF work[s].voidDone THEN entries[op[s].id].period ELSE op[s].period

\* What the request found, and what nobody has changed since.
PostingHolds(s) ==
  /\ op[s].kind = "post"
  /\ op[s].req \in Requests
  /\ Acceptable(op[s].req)
  /\ op[s].reverses = NoEntry
ReversalHolds(s) ==
  /\ op[s].kind = "reverse"
  /\ op[s].id \in DOMAIN entries
  /\ OriginalOk(op[s].id)
  /\ op[s].req = MirrorOf(lines, op[s].id)
  /\ op[s].reverses = op[s].id
RequestHolds(s) ==
  /\ Len(entries) < MaxEntries
  /\ op[s].period \in Periods
  /\ PostingHolds(s) \/ ReversalHolds(s)

SoloLooking(s) ==
  /\ pc[s] = "original"
  /\ own[s] = NoWrites
  /\ Len(entries) < MaxEntries
  /\ op[s].kind = "reverse" /\ op[s].id \in DOMAIN entries /\ op[s].period \in Periods
  /\ ~work[s].voidDone

SoloStarting(s) ==
  /\ pc[s] \in {"period", "insert"}
  /\ own[s] = NoWrites
  /\ RequestHolds(s)
  /\ pc[s] = "insert" => period[op[s].period].status = "open"
  /\ ~work[s].voidDone

\* The rows the session sees: those it has still to recompute are as before its
\* part of the request, the others as after it.
RowsInProgress(s) ==
  \A q \in Periods, a \in Accounts :
    SeenRow(s, <<q, a>>) = IF q = work[s].period /\ a \in work[s].todo
                           THEN Base(s).balances[q][a] ELSE Goal(s).balances[q][a]

\* A balance row it has written is one of those its request recomputes.
RowsOfRequest(s) ==
  \A key \in DOMAIN own[s].rows :
    \/ key[1] = op[s].period /\ key[2] \in AccountsOf(op[s].req)
    \/ /\ work[s].voidDone
       /\ key[1] = entries[op[s].id].period /\ key[2] \in AccountsOfEntry(lines, op[s].id)

SoloWriting(s) ==
  /\ pc[s] \in {"sum", "read", "flush", "void", "commit"}
  /\ RequestHolds(s)
  /\ period[op[s].period].status = "open"
  /\ own[s].closed = {}
  /\ own[s].entry = <<EntryOf(s)>>
  /\ own[s].lines = LineRows(1, op[s].req, RateScale)
  /\ own[s].voided = IF work[s].voidDone THEN {op[s].id} ELSE {}
  /\ work[s].voidDone => op[s].kind = "reverse"
  /\ pc[s] = "void" => op[s].kind = "reverse" /\ ~work[s].voidDone
  /\ pc[s] = "commit" /\ op[s].kind = "reverse" => work[s].voidDone
  /\ work[s].period = PartPeriod(s)
  /\ work[s].todo \subseteq PartAccounts(s)
  /\ pc[s] \in {"void", "commit"} => work[s].todo = {}
  /\ RowsInProgress(s)
  /\ RowsOfRequest(s)
  /\ pc[s] \in {"read", "flush"} =>
       /\ work[s].account \in work[s].todo
       /\ work[s].totals = TotalsOf(SummedRows(s, work[s].account))
  /\ pc[s] = "flush" => work[s].loaded = SeenRow(s, WorkKey(s))

\* The rows a closing sees when it has carried the balances of accts into q.
CarriedSoFar(s, q, accts) ==
  /\ \A a \in accts : balances[q][a] = NoRow
  /\ \A p \in Periods, a \in Accounts :
       SeenRow(s, <<p, a>>) =
         IF p = q /\ a \in accts THEN Row(a, balances[op[s].period][a].closing, 0, 0, 0)
         ELSE balances[p][a]
CarriedUntilNow(s) ==
  CarriedSoFar(s, work[s].next, Carried(op[s].period) \ work[s].todo)
AllCarried(s) ==
  \E q \in NextPeriods(op[s].period) : CarriedSoFar(s, q, Carried(op[s].period))
NothingCarried(s) ==
  \A p \in Periods, a \in Accounts : SeenRow(s, <<p, a>>) = balances[p][a]

SoloClosing(s) ==
  /\ pc[s] \in CloseLabels \cup {"commit"}
  /\ op[s].kind = "close" /\ op[s].period \in Periods
  /\ own[s].entry = <<>> /\ own[s].lines = {} /\ own[s].voided = {}
  /\ pc[s] # "close_select" => period[op[s].period].status = "open"
  /\ own[s].closed = IF pc[s] \in {"close_select", "close_update"} THEN {} ELSE {op[s].period}
  /\ pc[s] \in {"close_read", "close_insert"} => work[s].next \in NextPeriods(op[s].period)
  /\ pc[s] \notin {"close_insert", "commit"} => NothingCarried(s)
  /\ pc[s] = "close_insert" =>
       /\ work[s].todo \subseteq Carried(op[s].period)
       /\ work[s].carry = [a \in Carried(op[s].period) |-> balances[op[s].period][a].closing]
       /\ CarriedUntilNow(s)
  /\ pc[s] = "commit" =>
       \/ NextPeriods(op[s].period) = {} /\ NothingCarried(s)
       \/ AllCarried(s)

\* An opening or a locking writes nothing before it commits.
SoloChanging(s) ==
  /\ pc[s] \in StatusLabels
  /\ op[s].kind \in {"open", "lock"} /\ op[s].period \in Periods
  /\ pc[s] = "status_update" => period[op[s].period].status = StatusBefore(op[s].kind)

SoloAt(s) ==
  SoloLooking(s) \/ SoloStarting(s) \/ SoloWriting(s) \/ SoloClosing(s) \/ SoloChanging(s)

SoloInv(s) == work[s].alone /\ ~Idle(s) => Active = {s} /\ SoloAt(s)

SoloSessions == RowTable(balances) /\ \A s \in Sessions : SoloInv(s)

\* The tables a lone request works on, and its lines.
LEMMA RequestTyped ==
  ASSUME SessionsInv, TypedSessions, NEW s \in Sessions, RequestHolds(s)
  PROVE  /\ IsLineList(op[s].req) /\ op[s].period \in Periods
         /\ entries \in Seq(Entry) /\ lines \subseteq Line
         /\ DOMAIN balances = Periods /\ Len(entries) \in Nat
         /\ DOMAIN entries = 1 .. Len(entries)
         /\ ReversalHolds(s) => entries[op[s].id].period \in Periods
<1>1. /\ entries \in Seq(Entry) /\ lines \subseteq Line /\ DOMAIN balances = Periods
      /\ op[s].period \in Periods
  BY DEF TypedSessions, TypeOK, RequestHolds
<1>2. CASE PostingHolds(s)
  <2>1. IsLineList(op[s].req)
    BY <1>2, RequestType DEF PostingHolds
  <2>2. ~ReversalHolds(s)
    BY <1>2 DEF PostingHolds, ReversalHolds
  <2>3. QED
    BY <1>1, <2>1, <2>2
<1>3. CASE ReversalHolds(s)
  <2>1. IsLineList(op[s].req)
    BY <1>1, <1>3, MirrorType DEF ReversalHolds, OriginalOk
  <2>2. entries[op[s].id] \in Entry
    BY <1>1, <1>3 DEF ReversalHolds
  <2>3. QED
    BY <1>1, <2>1, <2>2 DEF Entry
<1>4. QED
  BY <1>2, <1>3 DEF RequestHolds

\* The tables with the entry posted.
LEMMA PostedColumns ==
  ASSUME NEW s
  PROVE  /\ Posted(s).entries = Append(entries, EntryOf(s))
         /\ Posted(s).lines = lines \cup LineRows(Len(entries) + 1, op[s].req, RateScale)
         /\ Posted(s).balances =
              Recompute(balances, Posted(s).entries, Posted(s).lines, op[s].period,
                        AccountsOf(op[s].req))
         /\ Posted(s) = [entries |-> Posted(s).entries, lines |-> Posted(s).lines,
                         balances |-> Posted(s).balances]
<1>1. Tables.entries = entries /\ Tables.lines = lines /\ Tables.balances = balances
  BY DEF Tables
<1>2. EntryOf(s) = [period |-> op[s].period, status |-> "posted", type |-> HeadOf(s).type,
                    reverses |-> HeadOf(s).reverses, currency |-> HeadOf(s).currency]
  BY DEF EntryOf, HeadOf
<1>3. QED
  BY <1>1, <1>2 DEF Posted, PostTo

\* The balances with the entry posted.
LEMMA PostedRows ==
  ASSUME SessionsInv, TypedSessions, NEW s \in Sessions, RequestHolds(s),
         NEW q \in Periods, NEW a \in Accounts
  PROVE  Posted(s).balances[q][a] =
           IF q = op[s].period /\ a \in AccountsOf(op[s].req)
           THEN RecomputedRow(balances[q][a], Posted(s).entries, Posted(s).lines, q, a)
           ELSE balances[q][a]
BY RequestTyped, PostedColumns, RecomputeRows

\* The original is in the tables with the entry posted as it was before.
LEMMA OriginalInPosted ==
  ASSUME SessionsInv, TypedSessions, NEW s \in Sessions, RequestHolds(s), ReversalHolds(s)
  PROVE  /\ op[s].id \in DOMAIN Posted(s).entries
         /\ Posted(s).entries[op[s].id] = entries[op[s].id]
         /\ AccountsOfEntry(Posted(s).lines, op[s].id) = AccountsOfEntry(lines, op[s].id)
<1> DEFINE n == Len(entries)
<1>1. /\ entries \in Seq(Entry) /\ n \in Nat /\ DOMAIN entries = 1 .. n
      /\ op[s].id \in 1 .. n /\ IsLineList(op[s].req)
  BY RequestTyped DEF ReversalHolds
<1>2. PICK e : e = EntryOf(s)
  OBVIOUS
<1>3. op[s].id \in DOMAIN Append(entries, e) /\ Append(entries, e)[op[s].id] = entries[op[s].id]
  BY <1>1
<1>4. \A l \in LineRows(n + 1, op[s].req, RateScale) : l.entry = n + 1
  <2>1. n + 1 \in Nat \ {0} /\ RateScale \in Nat \ {0}
    BY <1>1, ConstantsAssumption
  <2>2. QED
    BY <1>1, <2>1, LineRowsType
<1>5. n + 1 # op[s].id
  BY <1>1
<1> HIDE DEF n
<1>6. LinesOf(Posted(s).lines, op[s].id) = LinesOf(lines, op[s].id)
  <2>1. Posted(s).lines = lines \cup LineRows(n + 1, op[s].req, RateScale)
    BY PostedColumns DEF n
  <2>2. QED
    BY <1>4, <1>5, <2>1 DEF LinesOf
<1>7. QED
  BY <1>2, <1>3, <1>6, PostedColumns DEF AccountsOfEntry

\* The tables with the original voided too.
LEMMA VoidedEntries ==
  ASSUME NEW s
  PROVE  Voided(s).entries = [Posted(s).entries EXCEPT ![op[s].id].status = "voided"]
BY DEF Voided, VoidIn

\* Its lines and its balances.
LEMMA VoidedColumns ==
  ASSUME SessionsInv, TypedSessions, NEW s \in Sessions, RequestHolds(s), ReversalHolds(s)
  PROVE  /\ Voided(s).lines = Posted(s).lines
         /\ Voided(s).balances =
              Recompute(Posted(s).balances, Voided(s).entries, Voided(s).lines,
                        entries[op[s].id].period, AccountsOfEntry(lines, op[s].id))
BY OriginalInPosted DEF Voided, VoidIn

\* The balances with the original voided too.
LEMMA VoidedRows ==
  ASSUME SessionsInv, TypedSessions, NEW s \in Sessions, RequestHolds(s), ReversalHolds(s),
         NEW q \in Periods, NEW a \in Accounts
  PROVE  Voided(s).balances[q][a] =
           IF q = entries[op[s].id].period /\ a \in AccountsOfEntry(lines, op[s].id)
           THEN RecomputedRow(Posted(s).balances[q][a], Voided(s).entries, Voided(s).lines, q, a)
           ELSE Posted(s).balances[q][a]
<1>1. DOMAIN Posted(s).balances = Periods
  BY RequestTyped, PostedColumns DEF Recompute
<1>2. entries[op[s].id].period \in Periods
  BY RequestTyped
<1>3. Voided(s).balances =
        Recompute(Posted(s).balances, Voided(s).entries, Voided(s).lines,
                  entries[op[s].id].period, AccountsOfEntry(lines, op[s].id))
  BY VoidedColumns
<1>4. QED
  BY <1>1, <1>2, <1>3, RecomputeRows

\* What a part of a request does to the balances.
LEMMA GoalRows ==
  ASSUME SessionsInv, TypedSessions, NEW s \in Sessions, RequestHolds(s),
         work[s].voidDone => op[s].kind = "reverse",
         NEW q \in Periods, NEW a \in Accounts
  PROVE  Goal(s).balances[q][a] =
           IF q = PartPeriod(s) /\ a \in PartAccounts(s)
           THEN RecomputedRow(Base(s).balances[q][a], Goal(s).entries, Goal(s).lines, q, a)
           ELSE Base(s).balances[q][a]
<1>1. CASE work[s].voidDone
  <2>1. ReversalHolds(s)
    BY <1>1 DEF RequestHolds, PostingHolds
  <2>2. QED
    BY <1>1, <2>1, VoidedRows DEF Goal, Base, PartPeriod, PartAccounts
<1>2. CASE ~work[s].voidDone
  <2>1. Tables.balances = balances
    BY DEF Tables
  <2>2. QED
    BY <1>2, <2>1, PostedRows DEF Goal, Base, PartPeriod, PartAccounts
<1>3. QED
  BY <1>1, <1>2

\* Recomputed balances are a table of balances.
LEMMA RecomputeShaped ==
  ASSUME NEW bal, RowTable(bal),
         NEW es, NEW ls, NEW q \in Periods, NEW accts, NEW new,
         new = Recompute(bal, es, ls, q, accts)
  PROVE  RowTable(new)
<1>1. PICK row : /\ row = [a \in Accounts |-> IF a \in accts
                                          THEN RecomputedRow(bal[q][a], es, ls, q, a)
                                          ELSE bal[q][a]]
                 /\ new = [bal EXCEPT ![q] = row]
  BY DEF Recompute
<1>2. DOMAIN new = Periods /\ new = [p \in Periods |-> new[p]] /\ new[q] = row
      /\ \A p \in Periods \ {q} : new[p] = bal[p]
  BY <1>1 DEF RowTable
<1>3. row = [a \in Accounts |-> row[a]]
  BY <1>1
<1>4. \A p \in Periods : bal[p] = [a \in Accounts |-> bal[p][a]]
  BY DEF RowTable
<1>5. \A p \in Periods : new[p] = [a \in Accounts |-> new[p][a]]
  BY <1>2, <1>3, <1>4
<1>6. QED
  BY <1>2, <1>5 DEF RowTable

\* The balances a request arrives at are a table of balances.
LEMMA GoalShaped ==
  ASSUME SessionsInv, TypedSessions, RowTable(balances), NEW s \in Sessions, RequestHolds(s),
         work[s].voidDone => op[s].kind = "reverse"
  PROVE  RowTable(Goal(s).balances)
<1>1. PICK mid : mid = Posted(s).balances
  OBVIOUS
<1>2. RowTable(mid)
  BY <1>1, RequestTyped, PostedColumns, RecomputeShaped
<1>3. CASE work[s].voidDone
  <2>1. ReversalHolds(s)
    BY <1>3 DEF RequestHolds, PostingHolds
  <2>2. PICK es, ls, q, accts :
          /\ q = entries[op[s].id].period
          /\ Voided(s).balances = Recompute(mid, es, ls, q, accts)
    BY <1>1, <2>1, VoidedColumns
  <2>3. q \in Periods
    BY <2>1, <2>2, RequestTyped
  <2>4. Goal(s).balances = Recompute(mid, es, ls, q, accts)
    BY <1>3, <2>2 DEF Goal
  <2>5. QED
    BY <1>2, <2>3, <2>4, RecomputeShaped
<1>4. CASE ~work[s].voidDone
  BY <1>1, <1>2, <1>4 DEF Goal
<1>5. QED
  BY <1>3, <1>4

\* A statement that changes neither the tables nor the request.
LEMMA PartKept ==
  ASSUME NEW s, TablesKept, op'[s] = op[s], work'[s].voidDone = work[s].voidDone
  PROVE  /\ Base(s)' = Base(s) /\ Goal(s)' = Goal(s)
         /\ PartAccounts(s)' = PartAccounts(s) /\ PartPeriod(s)' = PartPeriod(s)
         /\ EntryOf(s)' = EntryOf(s)
         /\ RequestHolds(s) => RequestHolds(s)'
<1>1. /\ Tables' = Tables /\ Posted(s)' = Posted(s) /\ Voided(s)' = Voided(s)
      /\ EntryOf(s)' = EntryOf(s)
  BY DEF TablesKept, Tables, Posted, Voided, HeadOf, EntryOf
<1>2. Base(s)' = Base(s) /\ Goal(s)' = Goal(s)
  BY <1>1 DEF Base, Goal
<1>3. RequestHolds(s) => RequestHolds(s)'
  BY DEF TablesKept, RequestHolds, PostingHolds, ReversalHolds, OriginalOk
<1>4. QED
  BY <1>1, <1>2, <1>3 DEF TablesKept, PartAccounts, PartPeriod

\* The lines of a session, renumbered when they are seen among the others.
LEMMA RenumberedRows ==
  ASSUME NEW n, NEW req, NEW rate
  PROVE  {[l EXCEPT !.entry = n] : l \in LineRows(1, req, rate)} = LineRows(n, req, rate)
<1> DEFINE LineAt(id, i) ==
      [entry |-> id, order |-> i - 1, account |-> req[i].account, side |-> req[i].side,
       foreign |-> RoundHalfUp(req[i].amount, Sub),
       czk |-> RoundHalfEven(req[i].amount * rate, Sub * RateScale)]
<1>1. \A i : [LineAt(1, i) EXCEPT !.entry = n] = LineAt(n, i)
  OBVIOUS
<1>2. \A id : LineRows(id, req, rate) = {LineAt(id, i) : i \in DOMAIN req}
  BY DEF LineRows
<1> HIDE DEF LineAt
<1>3. QED
  BY <1>1, <1>2

\* A session sees the lines of what it has written.
LEMMA SeenLinesOf ==
  ASSUME SessionsInv, TypedSessions, NEW s \in Sessions, SoloWriting(s)
  PROVE  SeenLines(s) = Goal(s).lines
<1>1. Posted(s).lines = lines \cup LineRows(Len(entries) + 1, op[s].req, RateScale)
  BY PostedColumns
<1>2. SeenLines(s) = Posted(s).lines
  <2>1. PICK n : n = Len(entries) + 1
    OBVIOUS
  <2>2. {[l EXCEPT !.entry = n] : l \in own[s].lines} = LineRows(n, op[s].req, RateScale)
    BY RenumberedRows DEF SoloWriting
  <2>3. SeenLines(s) = lines \cup {[l EXCEPT !.entry = n] : l \in own[s].lines}
    BY <2>1 DEF SeenLines
  <2>4. QED
    BY <1>1, <2>1, <2>2, <2>3
<1>3. CASE work[s].voidDone
  <2>1. RequestHolds(s) /\ ReversalHolds(s)
    BY <1>3 DEF SoloWriting, RequestHolds, PostingHolds
  <2>2. Voided(s).lines = Posted(s).lines
    BY <2>1, VoidedColumns
  <2>3. QED
    BY <1>2, <1>3, <2>2 DEF Goal
<1>4. CASE ~work[s].voidDone
  BY <1>2, <1>4 DEF Goal
<1>5. QED
  BY <1>3, <1>4

\* Voiding an element before or after another is appended.
Commute(es, e, id, gone) ==
  Append([es EXCEPT ![id] = gone], e) = [Append(es, e) EXCEPT ![id] = gone]

\* The two orders give the same sequence.
LEMMA AppendedVoided ==
  ASSUME NEW S, NEW es, es \in Seq(S), NEW e, NEW id, id \in DOMAIN es, NEW gone
  PROVE  Commute(es, e, id, gone)
<1>1. PICK n : n = Len(es) /\ n \in Nat /\ DOMAIN es = 1 .. n
  OBVIOUS
<1>2. PICK T : T = S \cup {e, gone}
  OBVIOUS
<1>3. PICK base : base = [es EXCEPT ![id] = gone]
  OBVIOUS
<1>4. PICK all : all = Append(es, e)
  OBVIOUS
<1>5. /\ base \in Seq(T) /\ Len(base) = n
      /\ \A i \in 1 .. n : base[i] = IF i = id THEN gone ELSE es[i]
  BY <1>1, <1>2, <1>3
<1>6. /\ all \in Seq(T) /\ Len(all) = n + 1 /\ all[n + 1] = e
      /\ \A i \in 1 .. n : all[i] = es[i]
  BY <1>1, <1>2, <1>4
<1>7. PICK left : left = Append(base, e)
  OBVIOUS
<1>8. /\ left \in Seq(T) /\ Len(left) = n + 1 /\ left[n + 1] = e
      /\ \A i \in 1 .. n : left[i] = IF i = id THEN gone ELSE es[i]
  BY <1>1, <1>2, <1>5, <1>7
<1>9. PICK right : right = [all EXCEPT ![id] = gone]
  OBVIOUS
<1>10. id \in 1 .. n /\ DOMAIN all = 1 .. n + 1 /\ gone \in T
  BY <1>1, <1>2, <1>6
<1>11. /\ right \in Seq(T) /\ Len(right) = n + 1 /\ right[n + 1] = e
       /\ \A i \in 1 .. n : right[i] = IF i = id THEN gone ELSE es[i]
  BY <1>1, <1>6, <1>9, <1>10
<1>12. left = right
  BY <1>1, <1>8, <1>11
<1>13. QED
  BY <1>3, <1>4, <1>7, <1>9, <1>12 DEF Commute

\* A sequence and one element.
LEMMA AppendOne ==
  ASSUME NEW T, NEW seq, seq \in Seq(T), NEW e, e \in T
  PROVE  seq \o <<e>> = Append(seq, e)
OBVIOUS

\* A session sees the entries as it has written them.
LEMMA SeenEntriesOf ==
  ASSUME SessionsInv, TypedSessions, NEW s \in Sessions, SoloWriting(s)
  PROVE  SeenEntries(s) = Goal(s).entries
<1>1. /\ RequestHolds(s) /\ entries \in Seq(Entry) /\ Len(entries) \in Nat
      /\ DOMAIN entries = 1 .. Len(entries)
  BY RequestTyped DEF SoloWriting
<1>2. PICK e : e = EntryOf(s) /\ own[s].entry = <<e>>
  BY DEF SoloWriting
<1>3. Posted(s).entries = Append(entries, e)
  BY <1>2, PostedColumns
<1>4. CASE work[s].voidDone
  <2> DEFINE id == op[s].id
  <2>1. ReversalHolds(s) /\ own[s].voided = {id} /\ id \in DOMAIN entries
    BY <1>1, <1>4 DEF SoloWriting, RequestHolds, PostingHolds, ReversalHolds
  <2>2. PICK gone : gone = [entries[id] EXCEPT !.status = "voided"]
    OBVIOUS
  <2>3. PICK base : base = [entries EXCEPT ![id] = gone]
    OBVIOUS
  <2>4. [x \in DOMAIN entries |-> IF x \in own[s].voided
                                  THEN [entries[x] EXCEPT !.status = "voided"]
                                  ELSE entries[x]] = base
    <3>1. \A x \in own[s].voided : x = id
      BY <2>1
    <3>2. QED
      BY <1>1, <2>1, <2>2, <2>3, <3>1
  <2>5. SeenEntries(s) = base \o <<e>>
    BY <1>2, <2>4 DEF SeenEntries
  <2>6. Voided(s).entries = [Append(entries, e) EXCEPT ![id] = gone]
    <3>1. Append(entries, e)[id] = entries[id]
      BY <1>1, <2>1
    <3>2. Voided(s).entries = [Append(entries, e) EXCEPT ![id] = [@ EXCEPT !.status = "voided"]]
      BY <1>3, VoidedEntries
    <3>3. QED
      BY <2>2, <3>1, <3>2
  <2>7. Append(base, e) = [Append(entries, e) EXCEPT ![id] = gone]
    <3>1. Commute(entries, e, id, gone)
      BY <1>1, <2>1, AppendedVoided
    <3>2. QED
      BY <2>3, <3>1 DEF Commute
  <2>8. base \o <<e>> = Append(base, e)
    <3>1. PICK T : T = Entry \cup {e, gone}
      OBVIOUS
    <3>2. base \in Seq(T) /\ e \in T
      BY <1>1, <2>1, <2>3, <3>1
    <3>3. QED
      BY <3>2, AppendOne
  <2>9. QED
    BY <1>4, <2>5, <2>6, <2>7, <2>8 DEF Goal
<1>5. CASE ~work[s].voidDone
  <2>1. own[s].voided = {}
    BY <1>5 DEF SoloWriting
  <2>2. [x \in DOMAIN entries |-> IF x \in own[s].voided
                                  THEN [entries[x] EXCEPT !.status = "voided"]
                                  ELSE entries[x]] = entries
    BY <1>1, <2>1
  <2>3. SeenEntries(s) = entries \o <<e>>
    BY <1>2, <2>2 DEF SeenEntries
  <2>4. entries \o <<e>> = Append(entries, e)
    <3>1. PICK T : T = Entry \cup {e}
      OBVIOUS
    <3>2. entries \in Seq(T) /\ e \in T
      BY <1>1, <3>1
    <3>3. QED
      BY <3>2, AppendOne
  <2>5. QED
    BY <1>3, <1>5, <2>3, <2>4 DEF Goal
<1>6. QED
  BY <1>4, <1>5

\* A statement that writes nothing.
LEMMA SeenKept ==
  ASSUME NEW s, TablesKept, own'[s] = own[s]
  PROVE  /\ SeenEntries(s)' = SeenEntries(s) /\ SeenLines(s)' = SeenLines(s)
         /\ \A q, a : SeenRow(s, <<q, a>>)' = SeenRow(s, <<q, a>>)
BY DEF TablesKept, SeenEntries, SeenLines, SeenRow

\* A session that has written nothing sees the committed rows.
LEMMA EmptyOwn ==
  ASSUME NEW s, own[s] = NoWrites
  PROVE  /\ own[s].entry = <<>> /\ own[s].lines = {} /\ own[s].voided = {}
         /\ own[s].closed = {} /\ DOMAIN own[s].rows = {}
         /\ \A q, a : SeenRow(s, <<q, a>>) = balances[q][a]
<1>1. /\ NoWrites.entry = <<>> /\ NoWrites.lines = {} /\ NoWrites.voided = {}
      /\ NoWrites.closed = {} /\ NoWrites.rows = NoFunction
  BY DEF NoWrites
<1>2. DOMAIN NoFunction = {}
  BY DEF NoFunction
<1>3. DOMAIN own[s].rows = {}
  BY <1>1, <1>2
<1>4. QED
  BY <1>1, <1>3 DEF SeenRow

\* It reads its original.
LEMMA SoloSelectsOriginal ==
  ASSUME SessionsInv, NEW s \in Sessions, SoloAt(s), SelectOriginal(s), ~Rollback(s)
  PROVE  SoloAt(s)' /\ work'[s].alone = work[s].alone /\ OthersKept(s)
<1>1. /\ pc[s] = "original" /\ pc'[s] = "period" /\ OthersKept(s) /\ TablesKept
      /\ own' = own /\ work' = work /\ OriginalOk(op[s].id)
      /\ op'[s].kind = "reverse" /\ op'[s].id = op[s].id /\ op'[s].reverses = op[s].id
      /\ op'[s].req = MirrorOf(lines, op[s].id) /\ op'[s].period = op[s].period
  BY SelectOriginalDoes
<1>2. SoloLooking(s)
  BY <1>1 DEF SoloAt, SoloStarting, SoloWriting, SoloClosing, CloseLabels,
         SoloChanging, StatusLabels
<1>3. ReversalHolds(s)'
  BY <1>1, <1>2 DEF SoloLooking, ReversalHolds, OriginalOk, TablesKept
<1>4. SoloStarting(s)'
  BY <1>1, <1>2, <1>3 DEF SoloLooking, SoloStarting, RequestHolds, TablesKept
<1>5. QED
  BY <1>1, <1>4 DEF SoloAt

\* It reads its period.
LEMMA SoloSelectsPeriod ==
  ASSUME SessionsInv, NEW s \in Sessions, SoloAt(s), SelectPeriod(s), ~Rollback(s)
  PROVE  SoloAt(s)' /\ work'[s].alone = work[s].alone /\ OthersKept(s)
<1>1. /\ pc[s] = "period" /\ pc'[s] = "insert" /\ OthersKept(s) /\ TablesKept
      /\ op' = op /\ own' = own /\ work' = work /\ period[op[s].period].status = "open"
  BY SelectPeriodDoes
<1>2. SoloStarting(s)
  BY <1>1 DEF SoloAt, SoloLooking, SoloWriting, SoloClosing, CloseLabels, SoloChanging, StatusLabels
<1>3. RequestHolds(s)'
  BY <1>1, <1>2, PartKept DEF SoloStarting
<1>4. SoloStarting(s)'
  BY <1>1, <1>2, <1>3 DEF SoloStarting, TablesKept
<1>5. QED
  BY <1>1, <1>4 DEF SoloAt

\* It inserts its entry: every row is still to be recomputed.
LEMMA SoloInserts ==
  ASSUME SessionsInv, TypedSessions, NEW s \in Sessions, SoloAt(s), Insert(s)
  PROVE  SoloAt(s)' /\ work'[s].alone = work[s].alone /\ OthersKept(s)
<1>1. /\ pc[s] = "insert" /\ pc'[s] = "sum" /\ OthersKept(s) /\ TablesKept /\ op' = op
      /\ own'[s].entry = <<EntryOf(s)>> /\ own'[s].rows = own[s].rows
      /\ own'[s].lines = LineRows(1, op[s].req, RateScale)
      /\ own'[s].voided = own[s].voided /\ own'[s].closed = own[s].closed
      /\ work'[s].todo = AccountsOf(op[s].req) /\ work'[s].period = op[s].period
      /\ work'[s].voidDone = work[s].voidDone /\ work'[s].alone = work[s].alone
  BY InsertDoes
<1>2. SoloStarting(s)
  BY <1>1 DEF SoloAt, SoloLooking, SoloWriting, SoloClosing, CloseLabels, SoloChanging, StatusLabels
<1>3. RequestHolds(s) /\ period[op[s].period].status = "open" /\ ~work[s].voidDone
  BY <1>1, <1>2 DEF SoloStarting
<1>4. /\ Base(s)' = Tables /\ Goal(s)' = Posted(s) /\ PartAccounts(s)' = AccountsOf(op[s].req)
      /\ PartPeriod(s)' = op[s].period /\ EntryOf(s)' = EntryOf(s) /\ RequestHolds(s)'
  BY <1>1, <1>3, PartKept DEF Base, Goal, PartAccounts, PartPeriod
<1>5. own[s] = NoWrites
  BY <1>2 DEF SoloStarting
<1>6. own'[s].voided = {} /\ own'[s].closed = {} /\ DOMAIN own'[s].rows = {}
  BY <1>1, <1>5, EmptyOwn
<1>7. RowsInProgress(s)'
  <2>1. ASSUME NEW q \in Periods, NEW a \in Accounts
        PROVE  SeenRow(s, <<q, a>>)' = IF q = op[s].period /\ a \in AccountsOf(op[s].req)
                                       THEN Tables.balances[q][a] ELSE Posted(s).balances[q][a]
    <3>1. SeenRow(s, <<q, a>>)' = balances[q][a]
      BY <1>1, <1>6 DEF SeenRow, TablesKept
    <3>2. Tables.balances = balances
      BY DEF Tables
    <3>3. QED
      BY <1>3, <3>1, <3>2, PostedRows
  <2>2. QED
    BY <1>1, <1>4, <2>1 DEF RowsInProgress
<1>8. RowsOfRequest(s)'
  BY <1>6 DEF RowsOfRequest
<1>9. /\ work'[s].period = PartPeriod(s)' /\ work'[s].todo \subseteq PartAccounts(s)'
      /\ ~work'[s].voidDone /\ period'[op'[s].period].status = "open"
      /\ own'[s].entry = <<EntryOf(s)'>> /\ own'[s].lines = LineRows(1, op'[s].req, RateScale)
  BY <1>1, <1>3, <1>4 DEF TablesKept
<1>10. SoloWriting(s)'
  BY <1>1, <1>4, <1>6, <1>7, <1>8, <1>9 DEF SoloWriting
<1>11. QED
  BY <1>1, <1>10 DEF SoloAt

\* The rows it sees, when a statement writes none.
LEMMA RowsStillInProgress ==
  ASSUME NEW s, SoloWriting(s), TablesKept, op' = op, own' = own,
         work'[s].todo = work[s].todo, work'[s].period = work[s].period,
         work'[s].voidDone = work[s].voidDone
  PROVE  RowsInProgress(s)'
<1>1. work'[s].period = work[s].period /\ work'[s].todo = work[s].todo
  OBVIOUS
<1>2. /\ Base(s)' = Base(s) /\ Goal(s)' = Goal(s)
      /\ PartAccounts(s)' = PartAccounts(s) /\ PartPeriod(s)' = PartPeriod(s)
      /\ EntryOf(s)' = EntryOf(s) /\ RequestHolds(s)'
  BY PartKept DEF SoloWriting
<1>3. /\ SeenEntries(s)' = SeenEntries(s) /\ SeenLines(s)' = SeenLines(s)
      /\ \A q, a : SeenRow(s, <<q, a>>)' = SeenRow(s, <<q, a>>)
  BY SeenKept
<1>4. RowsInProgress(s)'
  <2>1. ASSUME NEW q \in Periods, NEW a \in Accounts
        PROVE  SeenRow(s, <<q, a>>)' = IF q = work[s].period /\ a \in work[s].todo
                                       THEN Base(s).balances[q][a] ELSE Goal(s).balances[q][a]
    <3>1. SeenRow(s, <<q, a>>)' = SeenRow(s, <<q, a>>)
      BY <1>3
    <3>2. QED
      BY <3>1 DEF SoloWriting, RowsInProgress
  <2>2. QED
    BY <1>1, <1>2, <2>1 DEF RowsInProgress
<1>5. QED
  BY <1>4

\* What reading statements leave of a request that writes.
LEMMA SoloStillWriting ==
  ASSUME NEW s, SoloWriting(s), pc[s] \in {"sum", "read"}, pc'[s] \in {"read", "flush"},
         TablesKept, op' = op, own' = own, work'[s].todo = work[s].todo,
         work'[s].period = work[s].period, work'[s].voidDone = work[s].voidDone,
         work'[s].account \in work[s].todo,
         work'[s].totals = TotalsOf(SummedRows(s, work'[s].account)),
         pc'[s] = "flush" => work'[s].loaded = SeenRow(s, WorkKey(s)')
  PROVE  SoloWriting(s)'
<1>1. /\ Base(s)' = Base(s) /\ Goal(s)' = Goal(s)
      /\ PartAccounts(s)' = PartAccounts(s) /\ PartPeriod(s)' = PartPeriod(s)
      /\ EntryOf(s)' = EntryOf(s) /\ RequestHolds(s)'
  BY PartKept DEF SoloWriting
<1>2. /\ SeenEntries(s)' = SeenEntries(s) /\ SeenLines(s)' = SeenLines(s)
      /\ \A q, a : SeenRow(s, <<q, a>>)' = SeenRow(s, <<q, a>>)
  BY SeenKept
<1>3. RowsInProgress(s)'
  BY RowsStillInProgress
<1>4. RowsOfRequest(s)'
  BY DEF SoloWriting, RowsOfRequest, TablesKept
<1>5. SummedRows(s, work[s].account)' = SummedRows(s, work'[s].account)
  BY <1>2 DEF SummedRows
<1>6. SeenRow(s, WorkKey(s))' = SeenRow(s, WorkKey(s)')
  BY <1>2 DEF WorkKey
<1>7. pc'[s] \in {"read", "flush"} => work'[s].totals = TotalsOf(SummedRows(s, work[s].account))'
  BY <1>5 DEF TotalsOf
<1>8. QED
  BY <1>1, <1>3, <1>4, <1>6, <1>7 DEF SoloWriting, TablesKept

\* It sums the lines of an account.
LEMMA SoloSums ==
  ASSUME SessionsInv, NEW s \in Sessions, SoloAt(s), SumLines(s)
  PROVE  SoloAt(s)' /\ work'[s].alone = work[s].alone /\ OthersKept(s)
<1>1. /\ pc[s] = "sum" /\ pc'[s] = "read" /\ OthersKept(s) /\ TablesKept
      /\ op' = op /\ own' = own
      /\ work'[s].account \in work[s].todo
      /\ work'[s].totals = TotalsOf(SummedRows(s, work'[s].account))
      /\ work'[s].todo = work[s].todo /\ work'[s].period = work[s].period
      /\ work'[s].voidDone = work[s].voidDone /\ work'[s].alone = work[s].alone
  BY SumLinesDoes
<1>2. SoloWriting(s)
  BY <1>1 DEF SoloAt, SoloLooking, SoloStarting, SoloClosing, CloseLabels,
         SoloChanging, StatusLabels
<1>3. SoloWriting(s)'
  BY <1>1, <1>2, SoloStillWriting
<1>4. QED
  BY <1>1, <1>3 DEF SoloAt

\* It reads the row of the account.
LEMMA SoloReads ==
  ASSUME SessionsInv, NEW s \in Sessions, SoloAt(s), SelectRow(s)
  PROVE  SoloAt(s)' /\ work'[s].alone = work[s].alone /\ OthersKept(s)
<1>1. /\ pc[s] = "read" /\ pc'[s] = "flush" /\ OthersKept(s) /\ TablesKept
      /\ op' = op /\ own' = own
      /\ work'[s].loaded = SeenRow(s, WorkKey(s))
      /\ work'[s].account = work[s].account /\ work'[s].totals = work[s].totals
      /\ work'[s].todo = work[s].todo /\ work'[s].period = work[s].period
      /\ work'[s].voidDone = work[s].voidDone /\ work'[s].alone = work[s].alone
  BY SelectRowDoes
<1>2. SoloWriting(s)
  BY <1>1 DEF SoloAt, SoloLooking, SoloStarting, SoloClosing, CloseLabels,
         SoloChanging, StatusLabels
<1>3. /\ work'[s].account \in work[s].todo
      /\ work'[s].totals = TotalsOf(SummedRows(s, work'[s].account))
      /\ WorkKey(s)' = WorkKey(s)
  BY <1>1, <1>2 DEF SoloWriting, WorkKey
<1>4. SoloWriting(s)'
  BY <1>1, <1>2, <1>3, SoloStillWriting
<1>5. QED
  BY <1>1, <1>4 DEF SoloAt

\* It voids its original: the second part begins where the first ended.
LEMMA SoloVoids ==
  ASSUME SessionsInv, TypedSessions, NEW s \in Sessions, SoloAt(s), VoidOriginal(s)
  PROVE  SoloAt(s)' /\ work'[s].alone = work[s].alone /\ OthersKept(s)
<1>1. /\ pc[s] = "void" /\ pc'[s] = "sum" /\ OthersKept(s) /\ TablesKept /\ op' = op
      /\ own'[s].voided = VoidedBy(op[s].id)
      /\ own'[s].entry = own[s].entry /\ own'[s].lines = own[s].lines
      /\ own'[s].rows = own[s].rows /\ own'[s].closed = own[s].closed
      /\ work'[s].todo = AccountsOfEntry(lines, op[s].id)
      /\ work'[s].period = entries[op[s].id].period
      /\ work'[s].voidDone = TRUE /\ work'[s].alone = work[s].alone
  BY VoidOriginalDoes
<1>2. SoloWriting(s)
  BY <1>1 DEF SoloAt, SoloLooking, SoloStarting, SoloClosing, CloseLabels,
         SoloChanging, StatusLabels
<1>3. /\ RequestHolds(s) /\ ReversalHolds(s) /\ ~work[s].voidDone /\ op[s].kind = "reverse"
      /\ work[s].todo = {} /\ own[s].closed = {}
  BY <1>1, <1>2 DEF SoloWriting, RequestHolds, PostingHolds
<1>4. own'[s].voided = {op[s].id}
  BY <1>1, <1>3 DEF VoidedBy, ReversalHolds, OriginalOk
<1>5. /\ Base(s)' = Posted(s) /\ Goal(s)' = Voided(s) /\ EntryOf(s)' = EntryOf(s)
      /\ PartAccounts(s)' = AccountsOfEntry(lines, op[s].id)
      /\ PartPeriod(s)' = entries[op[s].id].period
  BY <1>1 DEF TablesKept, Tables, Posted, Voided, HeadOf, EntryOf, Base, Goal, PartAccounts,
              PartPeriod
<1>6. RequestHolds(s)'
  BY <1>1, <1>3 DEF TablesKept, RequestHolds, PostingHolds, ReversalHolds, OriginalOk
<1>7. RowsInProgress(s)'
  <2>1. ASSUME NEW q \in Periods, NEW a \in Accounts
        PROVE  SeenRow(s, <<q, a>>)' =
                 IF q = entries[op[s].id].period /\ a \in AccountsOfEntry(lines, op[s].id)
                 THEN Posted(s).balances[q][a] ELSE Voided(s).balances[q][a]
    <3>1. SeenRow(s, <<q, a>>)' = SeenRow(s, <<q, a>>)
      BY <1>1 DEF SeenRow, TablesKept
    <3>2. SeenRow(s, <<q, a>>) = Posted(s).balances[q][a]
      BY <1>2, <1>3 DEF SoloWriting, RowsInProgress, Goal
    <3>3. QED
      BY <1>3, <3>1, <3>2, VoidedRows
  <2>2. QED
    BY <1>1, <1>5, <2>1 DEF RowsInProgress
<1>8. RowsOfRequest(s)'
  BY <1>1, <1>2, <1>3 DEF SoloWriting, RowsOfRequest, TablesKept
<1>9. SoloWriting(s)'
  BY <1>1, <1>2, <1>3, <1>4, <1>5, <1>6, <1>7, <1>8 DEF SoloWriting, TablesKept
<1>10. QED
  BY <1>1, <1>9 DEF SoloAt

\* An UPDATE of every column that differs leaves the new row.
LEMMA UpdatedToNew ==
  ASSUME NEW old, NEW a, NEW opening, NEW debit, NEW credit, NEW count
  PROVE  Updated(old, old, Row(a, opening, debit, credit, count))
           = Row(a, opening, debit, credit, count)
<1>1. PICK new : new = Row(a, opening, debit, credit, count)
  OBVIOUS
<1>2. new = [c \in RowColumns |-> new[c]]
  BY <1>1 DEF Row, RowColumns
<1>3. Updated(old, old, new) = [c \in RowColumns |-> new[c]]
  BY DEF Updated
<1>4. QED
  BY <1>1, <1>2, <1>3

\* The row a lone request writes is the recomputed one.
LEMMA NewRowIsGoal ==
  ASSUME SessionsInv, TypedSessions, NEW s \in Sessions, SoloWriting(s), pc[s] = "flush"
  PROVE  /\ work[s].period \in Periods /\ work[s].account \in Accounts
         /\ work[s].account \in work[s].todo
         /\ work[s].loaded = SeenRow(s, WorkKey(s))
         /\ NewRow(s) = Goal(s).balances[work[s].period][work[s].account]
         /\ Updated(work[s].loaded, work[s].loaded, NewRow(s)) = NewRow(s)
<1> DEFINE p == work[s].period
           a == work[s].account
           old == work[s].loaded
           rows == PostedLines(Goal(s).entries, Goal(s).lines, p, a)
<1>1. /\ RequestHolds(s) /\ p = PartPeriod(s) /\ a \in work[s].todo
      /\ work[s].todo \subseteq PartAccounts(s)
      /\ work[s].voidDone => op[s].kind = "reverse"
      /\ old = SeenRow(s, WorkKey(s)) /\ work[s].totals = TotalsOf(SummedRows(s, a))
  BY DEF SoloWriting
<1>2. p \in Periods /\ a \in Accounts
  BY DEF TypedSessions, SessionTyped, WorkTyped
<1>3. SummedRows(s, a) = rows
  BY SeenEntriesOf, SeenLinesOf DEF SummedRows
<1>4. old = Base(s).balances[p][a]
  <2>1. SeenRow(s, <<p, a>>) = Base(s).balances[p][a]
    BY <1>1, <1>2 DEF SoloWriting, RowsInProgress
  <2>2. QED
    BY <1>1, <2>1 DEF WorkKey
<1>5. Goal(s).balances[p][a] = RecomputedRow(old, Goal(s).entries, Goal(s).lines, p, a)
  BY <1>1, <1>2, <1>4, GoalRows
<1>6. NewRow(s) = Row(a, IF old = NoRow THEN 0 ELSE old.opening,
                      TotalCzk(OnSide(rows, "DEBIT")), TotalCzk(OnSide(rows, "CREDIT")),
                      Cardinality(rows))
  <2>1. work[s].totals = <<TotalCzk(OnSide(rows, "DEBIT")), TotalCzk(OnSide(rows, "CREDIT")),
                           Cardinality(rows)>>
    BY <1>1, <1>3 DEF TotalsOf
  <2>2. /\ work[s].totals[1] = TotalCzk(OnSide(rows, "DEBIT"))
        /\ work[s].totals[2] = TotalCzk(OnSide(rows, "CREDIT"))
        /\ work[s].totals[3] = Cardinality(rows)
    BY <2>1
  <2>3. QED
    BY <2>2 DEF NewRow
<1>7. Goal(s).balances[p][a] = NewRow(s)
  BY <1>5, <1>6 DEF RecomputedRow
<1>8. Updated(old, old, NewRow(s)) = NewRow(s)
  BY <1>6, UpdatedToNew
<1>9. QED
  BY <1>1, <1>2, <1>7, <1>8

\* The rows seen after one is written.
LEMMA SeenAfterWrite ==
  ASSUME NEW s, NEW p, NEW a, NEW row, TablesKept,
         own'[s].rows = WithRow(own[s].rows, <<p, a>>, row), NEW q, NEW b
  PROVE  SeenRow(s, <<q, b>>)' =
           IF q = p /\ b = a THEN row ELSE SeenRow(s, <<q, b>>)
<1> DEFINE new == WithRow(own[s].rows, <<p, a>>, row)
<1>1. /\ DOMAIN new = DOMAIN own[s].rows \cup {<<p, a>>}
      /\ \A k \in DOMAIN new : new[k] = IF k = <<p, a>> THEN row ELSE own[s].rows[k]
  BY DEF WithRow
<1>2. own'[s].rows = new
  OBVIOUS
<1> HIDE DEF new
<1>3. SeenRow(s, <<q, b>>)' = IF <<q, b>> \in DOMAIN new THEN new[<<q, b>>] ELSE balances[q][b]
  BY <1>2 DEF SeenRow, TablesKept
<1>4. SeenRow(s, <<q, b>>) =
        IF <<q, b>> \in DOMAIN own[s].rows THEN own[s].rows[<<q, b>>] ELSE balances[q][b]
  BY DEF SeenRow
<1>5. <<q, b>> = <<p, a>> <=> q = p /\ b = a
  OBVIOUS
<1>6. QED
  BY <1>1, <1>3, <1>4, <1>5

\* It writes the row: one row more is as after this part.
LEMMA SoloFlushes ==
  ASSUME SessionsInv, TypedSessions, NEW s \in Sessions, SoloAt(s), FlushRow(s), ~Rollback(s)
  PROVE  SoloAt(s)' /\ work'[s].alone = work[s].alone /\ OthersKept(s)
<1> DEFINE p == work[s].period
           a == work[s].account
<1>1. /\ pc[s] = "flush" /\ pc'[s] = AfterRow(s) /\ OthersKept(s) /\ TablesKept
      /\ op' = op /\ RowFlushed(s)
      /\ work'[s].todo = work[s].todo \ {a} /\ work'[s].period = p
      /\ work'[s].voidDone = work[s].voidDone /\ work'[s].alone = work[s].alone
  BY FlushRowDoes
<1>2. SoloWriting(s)
  BY <1>1 DEF SoloAt, SoloLooking, SoloStarting, SoloClosing, CloseLabels,
         SoloChanging, StatusLabels
<1>3. /\ p \in Periods /\ a \in Accounts /\ a \in work[s].todo
      /\ work[s].loaded = SeenRow(s, <<p, a>>) /\ NewRow(s) = Goal(s).balances[p][a]
      /\ Updated(work[s].loaded, work[s].loaded, NewRow(s)) = NewRow(s)
      /\ WorkKey(s) = <<p, a>>
  BY <1>1, <1>2, NewRowIsGoal DEF WorkKey
<1>4. /\ Base(s)' = Base(s) /\ Goal(s)' = Goal(s)
      /\ PartAccounts(s)' = PartAccounts(s) /\ PartPeriod(s)' = PartPeriod(s)
      /\ EntryOf(s)' = EntryOf(s) /\ RequestHolds(s)'
  BY <1>1, <1>2, PartKept DEF SoloWriting
<1>5. \/ own' = own /\ NewRow(s) = work[s].loaded
      \/ /\ own'[s].rows = WithRow(own[s].rows, <<p, a>>, NewRow(s))
         /\ own'[s].entry = own[s].entry /\ own'[s].lines = own[s].lines
         /\ own'[s].voided = own[s].voided /\ own'[s].closed = own[s].closed
  BY <1>1, <1>3 DEF RowFlushed
<1>6. ASSUME NEW q \in Periods, NEW b \in Accounts
      PROVE  SeenRow(s, <<q, b>>)' = IF q = p /\ b = a THEN Goal(s).balances[p][a]
                                     ELSE SeenRow(s, <<q, b>>)
  <2>1. CASE own' = own /\ NewRow(s) = work[s].loaded
    BY <1>1, <1>3, <2>1, SeenKept
  <2>2. CASE own'[s].rows = WithRow(own[s].rows, <<p, a>>, NewRow(s))
    BY <1>1, <1>3, <2>2, SeenAfterWrite
  <2>3. QED
    BY <1>5, <2>1, <2>2
<1>7. RowsInProgress(s)'
  <2>1. ASSUME NEW q \in Periods, NEW b \in Accounts
        PROVE  SeenRow(s, <<q, b>>)' = IF q = p /\ b \in work[s].todo \ {a}
                                       THEN Base(s).balances[q][b] ELSE Goal(s).balances[q][b]
    <3>1. SeenRow(s, <<q, b>>) = IF q = p /\ b \in work[s].todo
                                 THEN Base(s).balances[q][b] ELSE Goal(s).balances[q][b]
      BY <1>2 DEF SoloWriting, RowsInProgress
    <3>2. QED
      BY <1>6, <3>1
  <2>2. /\ work'[s].period = p /\ work'[s].todo = work[s].todo \ {a}
        /\ Base(s)' = Base(s) /\ Goal(s)' = Goal(s)
    BY <1>1, <1>4
  <2>3. QED
    BY <2>1, <2>2 DEF RowsInProgress
<1>8. RowsOfRequest(s)'
  <2>1. ASSUME NEW key \in DOMAIN own'[s].rows
        PROVE  key \in DOMAIN own[s].rows \/ key = <<p, a>>
    BY <1>5 DEF WithRow
  <2>2. \/ p = op[s].period /\ a \in AccountsOf(op[s].req)
        \/ /\ work[s].voidDone
           /\ p = entries[op[s].id].period /\ a \in AccountsOfEntry(lines, op[s].id)
    BY <1>2, <1>3 DEF SoloWriting, PartPeriod, PartAccounts
  <2>3. \A key \in DOMAIN own[s].rows :
          \/ key[1] = op[s].period /\ key[2] \in AccountsOf(op[s].req)
          \/ /\ work[s].voidDone
             /\ key[1] = entries[op[s].id].period /\ key[2] \in AccountsOfEntry(lines, op[s].id)
    BY <1>2 DEF SoloWriting, RowsOfRequest
  <2>4. \A key \in DOMAIN own'[s].rows :
          \/ key[1] = op[s].period /\ key[2] \in AccountsOf(op[s].req)
          \/ /\ work[s].voidDone
             /\ key[1] = entries[op[s].id].period /\ key[2] \in AccountsOfEntry(lines, op[s].id)
    BY <2>1, <2>2, <2>3
  <2>5. QED
    BY <1>1, <2>4 DEF RowsOfRequest, TablesKept
<1>9. /\ pc'[s] \in {"sum", "void", "commit"}
      /\ pc'[s] \in {"void", "commit"} => work'[s].todo = {}
      /\ pc'[s] = "void" => op[s].kind = "reverse" /\ ~work[s].voidDone
      /\ pc'[s] = "commit" /\ op[s].kind = "reverse" => work[s].voidDone
  BY <1>1 DEF AfterRow
<1>10. /\ own'[s].entry = own[s].entry /\ own'[s].lines = own[s].lines
       /\ own'[s].voided = own[s].voided /\ own'[s].closed = own[s].closed
  BY <1>5
<1>11. SoloWriting(s)'
  BY <1>1, <1>2, <1>4, <1>7, <1>8, <1>9, <1>10 DEF SoloWriting, TablesKept
<1>12. QED
  BY <1>1, <1>11 DEF SoloAt

\* A closing whose statement changes nothing that the session sees.
LEMMA ClosingSees ==
  ASSUME NEW s, TablesKept, own'[s].rows = own[s].rows, NothingCarried(s)
  PROVE  NothingCarried(s)'
BY DEF SeenRow, TablesKept, NothingCarried

\* The period after a closed one, and what is carried into it, are as before.
LEMMA PeriodsKept ==
  ASSUME TablesKept, NEW p
  PROVE  NextPeriods(p)' = NextPeriods(p) /\ Carried(p)' = Carried(p)
BY DEF TablesKept, NextPeriods, Carried

\* A closing reads its period.
LEMMA SoloSelectsClosing ==
  ASSUME SessionsInv, NEW s \in Sessions, SoloAt(s), SelectClosing(s), ~Rollback(s)
  PROVE  SoloAt(s)' /\ work'[s].alone = work[s].alone /\ OthersKept(s)
<1>1. /\ pc[s] = "close_select" /\ pc'[s] = "close_update" /\ OthersKept(s) /\ TablesKept
      /\ op' = op /\ own' = own /\ work' = work /\ period[op[s].period].status = "open"
  BY SelectClosingDoes
<1>2. SoloClosing(s)
  BY <1>1 DEF SoloAt, SoloLooking, SoloStarting, SoloWriting, SoloChanging, StatusLabels
<1>3. NothingCarried(s)'
  BY <1>1, <1>2, ClosingSees DEF SoloClosing
<1>4. SoloClosing(s)'
  BY <1>1, <1>2, <1>3 DEF SoloClosing, TablesKept, CloseLabels
<1>5. QED
  BY <1>1, <1>4 DEF SoloAt

\* An opening or a locking reads its period.
LEMMA SoloSelectsStatus ==
  ASSUME SessionsInv, NEW s \in Sessions, SoloAt(s), SelectStatus(s), ~Rollback(s)
  PROVE  SoloAt(s)' /\ work'[s].alone = work[s].alone /\ OthersKept(s)
<1>1. /\ pc[s] = "status_select" /\ pc'[s] = "status_update" /\ OthersKept(s) /\ TablesKept
      /\ op' = op /\ own' = own /\ work' = work
      /\ period[op[s].period].status = StatusBefore(op[s].kind)
  BY SelectStatusDoes
<1>2. SoloChanging(s)
  BY <1>1 DEF SoloAt, SoloLooking, SoloStarting, SoloWriting, SoloClosing, CloseLabels
<1>3. SoloChanging(s)'
  BY <1>1, <1>2 DEF SoloChanging, TablesKept, StatusLabels
<1>4. QED
  BY <1>1, <1>3 DEF SoloAt

\* It updates the status of the period.
LEMMA SoloUpdatesClosing ==
  ASSUME SessionsInv, NEW s \in Sessions, SoloAt(s), UpdateClosing(s)
  PROVE  SoloAt(s)' /\ work'[s].alone = work[s].alone /\ OthersKept(s)
<1>1. /\ pc[s] = "close_update" /\ pc'[s] = "close_next" /\ OthersKept(s) /\ TablesKept
      /\ op' = op /\ work' = work /\ own'[s].closed = {op[s].period}
      /\ own'[s].entry = own[s].entry /\ own'[s].lines = own[s].lines
      /\ own'[s].rows = own[s].rows /\ own'[s].voided = own[s].voided
  BY UpdateClosingDoes
<1>2. SoloClosing(s)
  BY <1>1 DEF SoloAt, SoloLooking, SoloStarting, SoloWriting, SoloChanging, StatusLabels
<1>3. NothingCarried(s)'
  BY <1>1, <1>2, ClosingSees DEF SoloClosing
<1>4. SoloClosing(s)'
  BY <1>1, <1>2, <1>3 DEF SoloClosing, TablesKept, CloseLabels
<1>5. QED
  BY <1>1, <1>4 DEF SoloAt

\* It reads the next period.
LEMMA SoloSelectsNext ==
  ASSUME SessionsInv, NEW s \in Sessions, SoloAt(s), SelectNext(s)
  PROVE  SoloAt(s)' /\ work'[s].alone = work[s].alone /\ OthersKept(s)
<1>1. /\ pc[s] = "close_next" /\ OthersKept(s) /\ TablesKept /\ op' = op /\ own' = own
      /\ \/ pc'[s] = "commit" /\ NextPeriods(op[s].period) = {} /\ work' = work
         \/ /\ pc'[s] = "close_read" /\ work'[s].next \in NextPeriods(op[s].period)
            /\ work'[s].alone = work[s].alone
  BY SelectNextDoes
<1>2. SoloClosing(s)
  BY <1>1 DEF SoloAt, SoloLooking, SoloStarting, SoloWriting, SoloChanging, StatusLabels
<1>3. NothingCarried(s)'
  BY <1>1, <1>2, ClosingSees DEF SoloClosing
<1>4. NextPeriods(op[s].period)' = NextPeriods(op[s].period)
  BY <1>1, PeriodsKept DEF TablesKept, NextPeriods
<1>5. SoloClosing(s)'
  BY <1>1, <1>2, <1>3, <1>4 DEF SoloClosing, TablesKept, CloseLabels
<1>6. QED
  BY <1>1, <1>5 DEF SoloAt

\* When nothing is carried yet the session sees the committed rows.
LEMMA CarriedNone ==
  ASSUME NEW s, NEW q, NothingCarried(s)
  PROVE  CarriedSoFar(s, q, {})
BY DEF NothingCarried, CarriedSoFar

\* What is carried when a statement writes nothing.
LEMMA CarriedKept ==
  ASSUME NEW s, NEW q, NEW accts, TablesKept, op' = op, own' = own, CarriedSoFar(s, q, accts)
  PROVE  CarriedSoFar(s, q, accts)'
BY DEF SeenRow, TablesKept, CarriedSoFar

\* It reads the balances to carry.
LEMMA SoloSelectsBalances ==
  ASSUME SessionsInv, NEW s \in Sessions, SoloAt(s), SelectBalances(s)
  PROVE  SoloAt(s)' /\ work'[s].alone = work[s].alone /\ OthersKept(s)
<1>1. PICK p, q : p = op[s].period /\ q = work[s].next
  OBVIOUS
<1>2. /\ pc[s] = "close_read" /\ OthersKept(s) /\ TablesKept /\ op' = op /\ own' = own
      /\ pc'[s] = IF Carried(p) = {} THEN "commit" ELSE "close_insert"
      /\ work'[s].todo = Carried(p)
      /\ work'[s].carry = [a \in Carried(p) |-> balances[p][a].closing]
      /\ work'[s].next = q /\ work'[s].alone = work[s].alone
  BY <1>1, SelectBalancesDoes
<1>3. SoloClosing(s) /\ NothingCarried(s) /\ q \in NextPeriods(p)
  BY <1>1, <1>2 DEF SoloAt, SoloLooking, SoloStarting, SoloWriting, SoloClosing,
         SoloChanging, StatusLabels
<1>4. /\ NextPeriods(p)' = NextPeriods(p) /\ Carried(p)' = Carried(p)
      /\ op'[s].period = p /\ work'[s].next = q
  BY <1>1, <1>2 DEF TablesKept, NextPeriods, Carried
<1>5. CarriedSoFar(s, q, {})'
  BY <1>2, <1>3, CarriedNone, CarriedKept
<1>6. /\ op'[s].kind = "close" /\ op'[s].period \in Periods
      /\ own'[s].entry = <<>> /\ own'[s].lines = {} /\ own'[s].voided = {}
      /\ period'[op'[s].period].status = "open" /\ own'[s].closed = {op'[s].period}
  BY <1>1, <1>2, <1>3 DEF SoloClosing, TablesKept
<1>7. balances' = balances
  BY <1>2 DEF TablesKept
<1>8. CASE Carried(p) = {}
  <2>1. pc'[s] = "commit"
    BY <1>2, <1>8
  <2>2. AllCarried(s)'
    BY <1>3, <1>4, <1>5, <1>8 DEF AllCarried
  <2>3. SoloClosing(s)'
    BY <1>4, <1>6, <2>1, <2>2 DEF SoloClosing, CloseLabels
  <2>4. QED
    BY <1>2, <2>3 DEF SoloAt
<1>9. CASE Carried(p) # {}
  <2>1. pc'[s] = "close_insert"
    BY <1>2, <1>9
  <2>2. CarriedUntilNow(s)'
    BY <1>2, <1>4, <1>5 DEF CarriedUntilNow
  <2>3. SoloClosing(s)'
    BY <1>2, <1>3, <1>4, <1>6, <1>7, <2>1, <2>2 DEF SoloClosing, CloseLabels
  <2>4. QED
    BY <1>2, <2>3 DEF SoloAt
<1>10. QED
  BY <1>8, <1>9

\* One more opening balance is inserted.
LEMMA CarriedOneMore ==
  ASSUME TypedSessions, NEW s \in Sessions, NEW a \in Accounts, NEW q, NEW accts,
         CarriedSoFar(s, q, accts), a \notin accts, q \in Periods, SeenRow(s, <<q, a>>) = NoRow,
         TablesKept, op' = op,
         own'[s].rows = WithRow(own[s].rows, <<q, a>>,
                                Row(a, balances[op[s].period][a].closing, 0, 0, 0))
  PROVE  CarriedSoFar(s, q, accts \cup {a})'
<1> DEFINE new == Row(a, balances[op[s].period][a].closing, 0, 0, 0)
<1>1. ASSUME NEW p \in Periods, NEW b \in Accounts
      PROVE  SeenRow(s, <<p, b>>)' = IF p = q /\ b = a THEN new ELSE SeenRow(s, <<p, b>>)
  BY SeenAfterWrite
<1>2. balances[q][a] = NoRow
  BY DEF CarriedSoFar
<1>3. op'[s] = op[s] /\ balances' = balances
  BY DEF TablesKept
<1>4. \A b \in accts \cup {a} : balances[q][b] = NoRow
  BY <1>2 DEF CarriedSoFar
<1>5. ASSUME NEW p \in Periods, NEW b \in Accounts
      PROVE  SeenRow(s, <<p, b>>)' =
               IF p = q /\ b \in accts \cup {a}
               THEN Row(b, balances[op[s].period][b].closing, 0, 0, 0) ELSE balances[p][b]
  <2>1. SeenRow(s, <<p, b>>) = IF p = q /\ b \in accts
                               THEN Row(b, balances[op[s].period][b].closing, 0, 0, 0)
                               ELSE balances[p][b]
    BY DEF CarriedSoFar
  <2>2. CASE p = q /\ b = a
    BY <1>1, <2>2
  <2>3. CASE ~(p = q /\ b = a)
    BY <1>1, <2>1, <2>3
  <2>4. QED
    BY <2>2, <2>3
<1>6. QED
  BY <1>3, <1>4, <1>5 DEF CarriedSoFar

\* It inserts one opening balance.
LEMMA SoloInsertsOpening ==
  ASSUME SessionsInv, TypedSessions, NEW s \in Sessions, SoloAt(s), InsertOpening(s),
         ~Rollback(s)
  PROVE  SoloAt(s)' /\ work'[s].alone = work[s].alone /\ OthersKept(s)
<1>1. PICK p, q : p = op[s].period /\ q = work[s].next
  OBVIOUS
<1>2. /\ pc[s] = "close_insert" /\ OthersKept(s) /\ TablesKept /\ op' = op
      /\ own'[s].entry = own[s].entry /\ own'[s].lines = own[s].lines
      /\ own'[s].voided = own[s].voided /\ own'[s].closed = own[s].closed
      /\ work'[s].next = q /\ work'[s].carry = work[s].carry
      /\ work'[s].alone = work[s].alone
  BY <1>1, InsertOpeningDoes
<1>3. PICK a \in work[s].todo : OpeningInserted(s, a)
  BY InsertOpeningDoes
<1>4. /\ SoloClosing(s) /\ q \in NextPeriods(p) /\ work[s].todo \subseteq Carried(p)
      /\ work[s].carry = [b \in Carried(p) |-> balances[p][b].closing]
      /\ CarriedSoFar(s, q, Carried(p) \ work[s].todo)
  BY <1>1, <1>2 DEF SoloAt, SoloLooking, SoloStarting, SoloWriting, SoloClosing, CarriedUntilNow,
         SoloChanging, StatusLabels
<1>5. /\ NextPeriods(p)' = NextPeriods(p) /\ Carried(p)' = Carried(p)
      /\ op'[s].period = p /\ work'[s].next = q
  BY <1>1, <1>2 DEF TablesKept, NextPeriods, Carried
<1>6. a \in Accounts /\ q \in Periods /\ a \in Carried(p)
  BY <1>3, <1>4 DEF TypedSessions, SessionTyped, WorkTyped, NextPeriods
<1>7. work[s].carry[a] = balances[p][a].closing
  BY <1>4, <1>6
<1>8. /\ SeenRow(s, <<q, a>>) = NoRow /\ work'[s].todo = work[s].todo \ {a}
      /\ own'[s].rows = WithRow(own[s].rows, <<q, a>>, Row(a, balances[p][a].closing, 0, 0, 0))
      /\ pc'[s] = IF work[s].todo = {a} THEN "commit" ELSE "close_insert"
  BY <1>1, <1>3, <1>7 DEF OpeningInserted
<1>9. PICK accts : accts = Carried(p) \ work[s].todo
  OBVIOUS
<1>10. CarriedSoFar(s, q, accts \cup {a})'
  BY <1>1, <1>2, <1>3, <1>4, <1>6, <1>8, <1>9, CarriedOneMore
<1>11. accts \cup {a} = Carried(p) \ work'[s].todo
  BY <1>6, <1>8, <1>9
<1>12. /\ op'[s].kind = "close" /\ op'[s].period \in Periods
      /\ own'[s].entry = <<>> /\ own'[s].lines = {} /\ own'[s].voided = {}
      /\ period'[op'[s].period].status = "open" /\ own'[s].closed = {op'[s].period}
  BY <1>1, <1>2, <1>4 DEF SoloClosing, TablesKept
<1>13. balances' = balances
  BY <1>2 DEF TablesKept
<1>14. CASE work[s].todo = {a}
  <2>1. pc'[s] = "commit" /\ accts \cup {a} = Carried(p)
    BY <1>8, <1>11, <1>14
  <2>2. AllCarried(s)'
    BY <1>4, <1>5, <1>10, <2>1 DEF AllCarried
  <2>3. SoloClosing(s)'
    BY <1>5, <1>12, <2>1, <2>2 DEF SoloClosing, CloseLabels
  <2>4. QED
    BY <1>2, <2>3 DEF SoloAt
<1>15. CASE work[s].todo # {a}
  <2>1. pc'[s] = "close_insert"
    BY <1>8, <1>15
  <2>2. CarriedUntilNow(s)'
    BY <1>5, <1>10, <1>11 DEF CarriedUntilNow
  <2>3. SoloClosing(s)'
    BY <1>2, <1>4, <1>5, <1>8, <1>12, <1>13, <2>1, <2>2 DEF SoloClosing, CloseLabels
  <2>4. QED
    BY <1>2, <2>3 DEF SoloAt
<1>16. QED
  BY <1>14, <1>15

\* A statement of a session is private to it; it ends the request or keeps the tables.
LEMMA StatementPrivate ==
  ASSUME SessionsInv, NEW s \in Sessions, Statement(s)
  PROVE  /\ pc[s] # "idle" /\ OthersKept(s)
         /\ pc'[s] = "idle" \/ (TablesKept /\ work'[s].alone = work[s].alone)
<1>1. ASSUME Finish(s) PROVE pc'[s] = "idle" /\ OthersKept(s)
  BY <1>1, FinishDoes
<1>2. CASE Rollback(s) /\ pc[s] # "idle"
  BY <1>1, <1>2 DEF Rollback
<1>3. CASE SelectPeriod(s) /\ ~Rollback(s)
  BY <1>3, SelectPeriodDoes
<1>4. CASE Insert(s)
  BY <1>4, InsertDoes
<1>5. CASE SumLines(s)
  BY <1>5, SumLinesDoes
<1>6. CASE SelectRow(s)
  BY <1>6, SelectRowDoes
<1>7. CASE FlushRow(s) /\ ~Rollback(s)
  BY <1>7, FlushRowDoes
<1>8. CASE SelectOriginal(s) /\ ~Rollback(s)
  BY <1>8, SelectOriginalDoes
<1>9. CASE VoidOriginal(s)
  BY <1>9, VoidOriginalDoes
<1>10. CASE SelectClosing(s) /\ ~Rollback(s)
  BY <1>10, SelectClosingDoes
<1>11. CASE UpdateClosing(s)
  BY <1>11, UpdateClosingDoes
<1>12. CASE SelectNext(s)
  <2>1. /\ pc[s] = "close_next" /\ OthersKept(s) /\ TablesKept
        /\ work' = work \/ work'[s].alone = work[s].alone
    BY <1>12, SelectNextDoes
  <2>2. QED
    BY <2>1
<1>13. CASE SelectBalances(s)
  BY <1>13, SelectBalancesDoes
<1>14. CASE InsertOpening(s) /\ ~Rollback(s)
  BY <1>14, InsertOpeningDoes
<1>15. CASE CommitTransaction(s)
  BY <1>1, <1>15 DEF CommitTransaction
<1>16. CASE DeadlockVictim(s)
  <2>1. s \in Active /\ Rollback(s)
    BY <1>16 DEF DeadlockVictim
  <2>2. QED
    BY <1>2, <2>1 DEF Active, Idle
<1>17. CASE SelectStatus(s) /\ ~Rollback(s)
  BY <1>17, SelectStatusDoes
<1>18. CASE UpdateStatus(s)
  BY <1>1, <1>18 DEF UpdateStatus
<1>19. pc[s] # "idle" \/ DeadlockVictim(s)
  BY DEF Statement, SelectPeriod, Insert, SumLines, SelectRow, FlushRow, SelectOriginal,
         VoidOriginal, SelectClosing, UpdateClosing, SelectNext, SelectBalances,
         InsertOpening, SelectStatus, UpdateStatus, CommitTransaction
<1>20. QED
  BY <1>2, <1>3, <1>4, <1>5, <1>6, <1>7, <1>8, <1>9, <1>10, <1>11, <1>12, <1>13, <1>14,
     <1>15, <1>16, <1>17, <1>18, <1>19 DEF Statement

\* A statement of a lone request leads from one of its places to another.
LEMMA SoloStatement ==
  ASSUME SessionsInv, TypedSessions, NEW s \in Sessions, SoloAt(s), Statement(s),
         pc'[s] # "idle"
  PROVE  SoloAt(s)'
<1>1. ~Finish(s) /\ ~Rollback(s)
  BY FinishDoes DEF Rollback
<1>2. ~CommitTransaction(s) /\ ~DeadlockVictim(s) /\ ~UpdateStatus(s)
  BY <1>1 DEF CommitTransaction, DeadlockVictim, UpdateStatus
<1>3. CASE SelectPeriod(s)
  BY <1>1, <1>3, SoloSelectsPeriod
<1>4. CASE Insert(s)
  BY <1>4, SoloInserts
<1>5. CASE SumLines(s)
  BY <1>5, SoloSums
<1>6. CASE SelectRow(s)
  BY <1>6, SoloReads
<1>7. CASE FlushRow(s)
  BY <1>1, <1>7, SoloFlushes
<1>8. CASE SelectOriginal(s)
  BY <1>1, <1>8, SoloSelectsOriginal
<1>9. CASE VoidOriginal(s)
  BY <1>9, SoloVoids
<1>10. CASE SelectClosing(s)
  BY <1>1, <1>10, SoloSelectsClosing
<1>11. CASE UpdateClosing(s)
  BY <1>11, SoloUpdatesClosing
<1>12. CASE SelectNext(s)
  BY <1>12, SoloSelectsNext
<1>13. CASE SelectBalances(s)
  BY <1>13, SoloSelectsBalances
<1>14. CASE InsertOpening(s)
  BY <1>1, <1>14, SoloInsertsOpening
<1>15. CASE SelectStatus(s)
  BY <1>1, <1>15, SoloSelectsStatus
<1>16. QED
  BY <1>2, <1>3, <1>4, <1>5, <1>6, <1>7, <1>8, <1>9, <1>10, <1>11, <1>12, <1>13, <1>14, <1>15
     DEF Statement

\* The table of balances stays one: only a commit writes it.
LEMMA StatementKeepsTable ==
  ASSUME SessionsInv, RowTable(balances), NEW s \in Sessions, Statement(s)
  PROVE  RowTable(balances')
<1>1. CASE CommitTransaction(s)
  BY <1>1 DEF CommitTransaction, RowTable
<1>2. CASE ~CommitTransaction(s)
  <2>1. balances' = balances
    BY <1>2 DEF Statement, SelectPeriod, Insert, SumLines, SelectRow, FlushRow, SelectOriginal,
         VoidOriginal, SelectClosing, UpdateClosing, SelectNext, SelectBalances,
         InsertOpening, SelectStatus, UpdateStatus, DeadlockVictim, Rollback, KeepTables
  <2>2. QED
    BY <2>1
<1>3. QED
  BY <1>1, <1>2

\* A statement of any session, alone or not.
LEMMA StatementKeepsSolo ==
  ASSUME SessionsInv, TypedSessions, SoloSessions, NEW s \in Sessions, Statement(s)
  PROVE  SoloSessions'
<1>1. /\ pc[s] # "idle" /\ OthersKept(s)
      /\ pc'[s] = "idle" \/ work'[s].alone = work[s].alone
  BY StatementPrivate
<1>2. RowTable(balances)'
  BY StatementKeepsTable DEF SoloSessions
<1>3. s \in Active
  BY <1>1 DEF Active, Idle
<1>4. ASSUME NEW t \in Sessions \ {s} PROVE SoloInv(t)'
  <2>1. ~(work[t].alone /\ ~Idle(t))
    BY <1>3 DEF SoloSessions, SoloInv
  <2>2. ~(work'[t].alone /\ pc'[t] # "idle")
    BY <1>1, <2>1 DEF OthersKept, Idle
  <2>3. QED
    BY <2>2 DEF SoloInv, Idle
<1>5. SoloInv(s)'
  <2>1. SUFFICES ASSUME work'[s].alone, pc'[s] # "idle"
                 PROVE  Active' = {s} /\ SoloAt(s)'
    BY DEF SoloInv, Idle, SoloAt
  <2>2. Active = {s} /\ SoloAt(s)
    BY <1>1, <2>1 DEF SoloSessions, SoloInv, Idle, SoloAt
  <2>3. Active' = {s}
    BY <1>1, <2>1, <2>2 DEF Active, Idle, OthersKept
  <2>4. QED
    BY <2>1, <2>2, <2>3, SoloStatement
<1>6. QED
  BY <1>2, <1>4, <1>5 DEF SoloSessions

\* A request that begins when no other is in flight.
LEMMA BeginKeepsSolo ==
  ASSUME SessionsInv, TypedSessions, SoloSessions, NEW s \in Sessions, NEW request, NEW first,
         Begin(s, request, first), first # "idle",
         Active = {} => SoloAt(s)'
  PROVE  SoloSessions'
<1>1. /\ pc[s] = "idle" /\ pc'[s] = first /\ OthersInterrupted(s) /\ TablesKept
      /\ work'[s].alone = (Active = {})
  BY BeginDoes
<1>2. RowTable(balances)'
  BY <1>1 DEF SoloSessions, TablesKept
<1>3. ASSUME NEW t \in Sessions \ {s} PROVE SoloInv(t)'
  BY <1>1 DEF OthersInterrupted, SoloInv
<1>4. SoloInv(s)'
  <2>1. SUFFICES ASSUME Active = {} PROVE Active' = {s} /\ SoloAt(s)'
    BY <1>1 DEF SoloInv, SoloAt
  <2>2. Active' = {s}
    BY <1>1, <2>1 DEF Active, Idle, OthersInterrupted
  <2>3. QED
    BY <2>1, <2>2
<1>5. QED
  BY <1>2, <1>3, <1>4 DEF SoloSessions

\* A request of any kind begins.
LEMMA ClientKeepsSolo ==
  ASSUME SessionsInv, TypedSessions, SoloSessions, NEW s \in Sessions, Client(s)
  PROVE  SoloSessions'
<1>1. Len(entries) \in Nat
  BY DEF TypedSessions, TypeOK
<1>2. Active = {} => Cardinality(Active) = 0
  BY FS_EmptySet
<1>3. ASSUME NEW request, NEW first, Begin(s, request, first)
      PROVE  /\ own'[s] = NoWrites /\ pc'[s] = first /\ op'[s] = request /\ ~work'[s].voidDone
             /\ TablesKept
  <2>1. /\ pc[s] = "idle" /\ pc'[s] = first /\ TablesKept /\ op'[s] = request /\ own' = own
        /\ ~work'[s].voidDone
    BY <1>3, BeginDoes
  <2>2. own[s] = NoWrites
    BY <2>1 DEF TypedSessions, SessionTyped, OwnTyped, Idle
  <2>3. QED
    BY <2>1, <2>2
<1>4. ASSUME NEW req \in Requests, NEW p \in Periods, BeginPost(s, req, p)
      PROVE  SoloSessions'
  <2>1. PICK request : request = [kind |-> "post", req |-> req, period |-> p,
                                  reverses |-> NoEntry]
    OBVIOUS
  <2>2. /\ Begin(s, request, "period") /\ Acceptable(req)
        /\ Len(entries) + Cardinality(Active) < MaxEntries
    BY <1>4, <2>1 DEF BeginPost
  <2>3. /\ request.kind = "post" /\ request.req = req /\ request.period = p
        /\ request.reverses = NoEntry
    BY <2>1
  <2>4. Active = {} => SoloStarting(s)'
    <3>1. SUFFICES ASSUME Active = {} PROVE SoloStarting(s)'
      OBVIOUS
    <3>2. Len(entries) < MaxEntries
      BY <1>1, <1>2, <2>2, <3>1
    <3>3. PostingHolds(s)'
      BY <1>3, <2>2, <2>3 DEF PostingHolds
    <3>4. RequestHolds(s)'
      BY <1>3, <2>2, <2>3, <3>2, <3>3 DEF RequestHolds, TablesKept
    <3>5. QED
      BY <1>3, <2>2, <3>4 DEF SoloStarting
  <2>5. QED
    BY <2>2, <2>4, BeginKeepsSolo DEF SoloAt
<1>5. ASSUME NEW id \in DOMAIN entries, NEW p \in Periods, BeginReverse(s, id, p)
      PROVE  SoloSessions'
  <2>1. PICK request : request = [kind |-> "reverse", id |-> id, period |-> p]
    OBVIOUS
  <2>2. /\ Begin(s, request, "original")
        /\ Len(entries) + Cardinality(Active) < MaxEntries
    BY <1>5, <2>1 DEF BeginReverse
  <2>3. request.kind = "reverse" /\ request.id = id /\ request.period = p
    BY <2>1
  <2>4. Active = {} => SoloLooking(s)'
    <3>1. SUFFICES ASSUME Active = {} PROVE SoloLooking(s)'
      OBVIOUS
    <3>2. Len(entries) < MaxEntries
      BY <1>1, <1>2, <2>2, <3>1
    <3>3. QED
      BY <1>3, <2>2, <2>3, <3>2 DEF SoloLooking, TablesKept
  <2>5. QED
    BY <2>2, <2>4, BeginKeepsSolo DEF SoloAt
<1>6. ASSUME NEW p \in Periods, BeginClose(s, p) PROVE SoloSessions'
  <2>1. PICK request : request = [kind |-> "close", period |-> p]
    OBVIOUS
  <2>2. Begin(s, request, "close_select")
    BY <1>6, <2>1 DEF BeginClose
  <2>3. request.kind = "close" /\ request.period = p
    BY <2>1
  <2>4. /\ own'[s].entry = <<>> /\ own'[s].lines = {} /\ own'[s].voided = {}
        /\ own'[s].closed = {} /\ NothingCarried(s)'
    <3>1. own'[s] = NoWrites
      BY <1>3, <2>2
    <3>2. /\ NoWrites.entry = <<>> /\ NoWrites.lines = {} /\ NoWrites.voided = {}
          /\ NoWrites.closed = {} /\ DOMAIN NoWrites.rows = {}
      BY DEF NoWrites, NoFunction
    <3>3. NothingCarried(s)'
      BY <3>1, <3>2 DEF NothingCarried, SeenRow
    <3>4. QED
      BY <3>1, <3>2, <3>3
  <2>5. SoloClosing(s)'
    BY <1>3, <2>2, <2>3, <2>4 DEF SoloClosing, CloseLabels
  <2>6. QED
    BY <2>2, <2>5, BeginKeepsSolo DEF SoloAt
<1>7. ASSUME NEW p \in Periods, NEW kind \in {"open", "lock"},
             Begin(s, [kind |-> kind, period |-> p], "status_select")
      PROVE  SoloSessions'
  <2>1. PICK request : request = [kind |-> kind, period |-> p]
    OBVIOUS
  <2>2. Begin(s, request, "status_select") /\ request.kind = kind /\ request.period = p
    BY <1>7, <2>1
  <2>3. SoloChanging(s)'
    BY <1>3, <1>7, <2>2 DEF SoloChanging, StatusLabels
  <2>4. QED
    BY <2>2, <2>3, BeginKeepsSolo DEF SoloAt
<1>8. QED
  BY <1>4, <1>5, <1>6, <1>7 DEF Client, BeginOpen, BeginLock

\* The seed script interrupts every request in flight.
LEMMA SeedKeepsSolo ==
  ASSUME SessionsInv, SoloSessions, NEW p \in Periods, RunSeed(p)
  PROVE  SoloSessions'
<1>1. /\ balances' = balances /\ pc' = pc
      /\ \A t \in Sessions : ~Idle(t) => ~work'[t].alone
  BY SeedDoes
<1>2. QED
  BY <1>1 DEF SoloSessions, SoloInv, Idle

\* Nothing happens: what a lone request relies on is as it was.
LEMMA StutterKeepsSolo ==
  ASSUME SoloSessions, UNCHANGED allVars
  PROVE  SoloSessions'
<1>1. TablesKept /\ pc' = pc /\ op' = op /\ own' = own /\ work' = work
  BY DEF allVars, TablesKept
<1>2. RowTable(balances)'
  BY <1>1 DEF SoloSessions, TablesKept
<1>3. ASSUME NEW s \in Sessions, SoloAt(s) PROVE SoloAt(s)'
  <2>1. SoloLooking(s) => SoloLooking(s)'
    BY <1>1 DEF SoloLooking, TablesKept
  <2>2. RequestHolds(s) => RequestHolds(s)'
    BY <1>1, PartKept
  <2>3. SoloStarting(s) => SoloStarting(s)'
    BY <1>1, <2>2 DEF SoloStarting, TablesKept
  <2>4. ASSUME SoloWriting(s) PROVE SoloWriting(s)'
    <3>1. RowsInProgress(s)'
      BY <1>1, <2>4, RowsStillInProgress
    <3>2. EntryOf(s)' = EntryOf(s) /\ PartPeriod(s)' = PartPeriod(s)
          /\ PartAccounts(s)' = PartAccounts(s)
      BY <1>1, PartKept
    <3>3. RowsOfRequest(s)'
      BY <1>1, <2>4 DEF SoloWriting, RowsOfRequest, TablesKept
    <3>4. SummedRows(s, work[s].account)' = SummedRows(s, work[s].account)
      BY <1>1 DEF SummedRows, SeenEntries, SeenLines, TablesKept
    <3>5. TotalsOf(SummedRows(s, work[s].account))' = TotalsOf(SummedRows(s, work[s].account))
      BY <3>4 DEF TotalsOf
    <3>6. SeenRow(s, WorkKey(s))' = SeenRow(s, WorkKey(s))
      BY <1>1 DEF SeenRow, WorkKey, TablesKept
    <3>7. QED
      BY <1>1, <2>2, <2>4, <3>1, <3>2, <3>3, <3>5, <3>6 DEF SoloWriting, TablesKept
  <2>5. ASSUME SoloClosing(s) PROVE SoloClosing(s)'
    <3>1. NextPeriods(op[s].period)' = NextPeriods(op[s].period)
          /\ Carried(op[s].period)' = Carried(op[s].period)
      BY <1>1 DEF NextPeriods, Carried, TablesKept
    <3>2. NothingCarried(s) => NothingCarried(s)'
      BY <1>1, ClosingSees
    <3>3. CarriedUntilNow(s) => CarriedUntilNow(s)'
      BY <1>1, <3>1 DEF CarriedUntilNow, CarriedSoFar, SeenRow, TablesKept
    <3>4. AllCarried(s) => AllCarried(s)'
      BY <1>1, <3>1 DEF AllCarried, CarriedSoFar, SeenRow, TablesKept
    <3>5. QED
      BY <1>1, <2>5, <3>1, <3>2, <3>3, <3>4 DEF SoloClosing, TablesKept
  <2>6. SoloChanging(s) => SoloChanging(s)'
    BY <1>1 DEF SoloChanging, TablesKept
  <2>7. QED
    BY <1>3, <2>1, <2>3, <2>4, <2>5, <2>6 DEF SoloAt
<1>4. ASSUME NEW s \in Sessions PROVE SoloInv(s)'
  BY <1>1, <1>3 DEF SoloSessions, SoloInv, SoloAt, Active, Idle
<1>5. QED
  BY <1>2, <1>4 DEF SoloSessions

\* No request is in flight at the start.
LEMMA InitSolo == SessionsInit => SoloSessions
<1>1. SUFFICES ASSUME SessionsInit PROVE SoloSessions
  OBVIOUS
<1>2. RowTable(balances)
  BY <1>1 DEF SessionsInit, Init, RowTable
<1>3. QED
  BY <1>1, <1>2 DEF SessionsInit, SoloSessions, SoloInv, Idle

\* SoloSessions is inductive relative to the two other invariants.
LEMMA StepKeepsSolo ==
  SessionsInv /\ TypedSessions /\ SoloSessions /\ [SessionsNext]_allVars => SoloSessions'
BY ClientKeepsSolo, StatementKeepsSolo, SeedKeepsSolo, StutterKeepsSolo DEF SessionsNext

\* Invariants of every behaviour, together.
SoloAll == SessionsInv /\ TypedSessions /\ SoloSessions

\* All three hold in every state.
LEMMA SoloAlways == SessionsSpec => []SoloAll
<1>1. SessionsInit => SoloAll
  BY InitSessions, InitTyped, InitSolo DEF SoloAll
<1>2. SoloAll /\ [SessionsNext]_allVars => SoloAll'
  BY StepKeepsSessions, StepKeepsTyped, StepKeepsSolo DEF SoloAll
<1>3. QED
  BY <1>1, <1>2, PTL DEF SessionsSpec

----------------------------------------------------------------------------
(* What a lone request commits. *)

\* It is in one of its places when it commits, and the step is its commit.
LEMMA SoloCommits ==
  ASSUME SoloAll, SessionsNext, NEW s \in Sessions,
         pc[s] \in {"commit", "status_update"}, pc'[s] = "idle", work[s].alone
  PROVE  /\ SoloAt(s)
         /\ pc[s] = "commit" => CommitTransaction(s)
         /\ pc[s] = "status_update" => UpdateStatus(s)
<1>1. Active = {s} /\ SoloAt(s)
  BY DEF SoloAll, SoloSessions, SoloInv, SoloAt, Idle
<1>2. ASSUME NEW t \in Sessions, Statement(t) PROVE CommitTransaction(s) \/ UpdateStatus(s)
  <2>1. t = s
    BY <1>1, <1>2, StatementPrivate DEF SoloAll, Active, Idle
  <2>2. ~DeadlockVictim(s)
    BY <1>1 DEF DeadlockVictim, Blockers, Others
  <2>3. QED
    BY <1>2, <2>1, <2>2 DEF Statement, SelectPeriod, Insert, SumLines, SelectRow, FlushRow,
       SelectOriginal, VoidOriginal, SelectClosing, UpdateClosing, SelectNext, SelectBalances,
       InsertOpening, SelectStatus
<1>3. ASSUME NEW t \in Sessions, Client(t) PROVE FALSE
  <2>1. ASSUME NEW request, NEW first, Begin(t, request, first) PROVE FALSE
    BY <2>1, BeginDoes DEF SoloAll, OthersInterrupted
  <2>2. QED
    BY <1>3, <2>1 DEF Client, BeginPost, BeginReverse, BeginClose, BeginOpen, BeginLock
<1>4. ASSUME NEW p \in Periods, RunSeed(p) PROVE FALSE
  BY <1>4 DEF RunSeed
<1>5. QED
  BY <1>1, <1>2, <1>3, <1>4 DEF SessionsNext, CommitTransaction, UpdateStatus

\* A posting or a reversal commits the tables it leads to.
LEMMA GoalCommitted ==
  ASSUME SoloAll, NEW s \in Sessions, CommitTransaction(s), SoloWriting(s)
  PROVE  /\ entries' = Goal(s).entries /\ lines' = Goal(s).lines
         /\ balances' = Goal(s).balances /\ period' = period
<1>1. SessionsInv /\ TypedSessions /\ RowTable(balances) /\ pc[s] = "commit"
  BY DEF SoloAll, SoloSessions, CommitTransaction
<1>2. entries' = Goal(s).entries
  BY <1>1, SeenEntriesOf DEF CommitTransaction
<1>3. lines' = Goal(s).lines
  BY <1>1, SeenLinesOf DEF CommitTransaction
<1>4. balances' = Goal(s).balances
  <2>1. PICK new : new = Goal(s).balances
    OBVIOUS
  <2>2. new = [p \in Periods |-> [a \in Accounts |-> new[p][a]]]
    BY <1>1, <2>1, GoalShaped DEF SoloWriting, RowTable
  <2>3. ASSUME NEW p \in Periods, NEW a \in Accounts PROVE SeenRow(s, <<p, a>>) = new[p][a]
    BY <1>1, <2>1 DEF SoloWriting, RowsInProgress
  <2>4. balances' = [p \in Periods |-> [a \in Accounts |-> SeenRow(s, <<p, a>>)]]
    BY DEF CommitTransaction
  <2>5. balances' = new
    BY <2>2, <2>3, <2>4
  <2>6. QED
    BY <2>1, <2>5
<1>5. period' = period
  <2>1. own[s].closed = {} /\ period = [p \in Periods |-> period[p]]
    BY <1>1 DEF SoloWriting, TypedSessions, TypeOK
  <2>2. QED
    BY <2>1 DEF CommitTransaction
<1>6. QED
  BY <1>2, <1>3, <1>4, <1>5

\* A lone posting commits as PostJournalEntry.
LEMMA LonePosting ==
  ASSUME SoloAll, NEW s \in Sessions, CommitTransaction(s), SoloWriting(s), PostingHolds(s)
  PROVE  Next
<1>1. PICK req, p : req = op[s].req /\ p = op[s].period
  OBVIOUS
<1>2. /\ Len(entries) < MaxEntries /\ p \in Periods /\ period[p].status = "open"
      /\ req \in Requests /\ Acceptable(req)
  BY <1>1 DEF SoloWriting, RequestHolds, PostingHolds
<1>3. Goal(s) = Posted(s)
  BY DEF SoloWriting, PostingHolds, Goal
<1>4. Posted(s) = PostTo(Tables, req, p, RateScale,
                         [type |-> "STANDARD", reverses |-> NoEntry, currency |-> "CZK"])
  BY <1>1 DEF PostingHolds, Posted, HeadOf
<1>5. /\ entries' = Posted(s).entries /\ lines' = Posted(s).lines
      /\ balances' = Posted(s).balances /\ period' = period
  BY <1>3, GoalCommitted
<1>6. Commit(Posted(s))
  BY <1>5 DEF Commit
<1>7. RateScale \in RatesFor("CZK")
  BY DEF RatesFor
<1>8. PostJournalEntry(req, p, "CZK", RateScale)
  BY <1>2, <1>4, <1>5, <1>6, <1>7 DEF PostJournalEntry
<1>9. QED
  BY <1>2, <1>7, <1>8 DEF PostingRequest, Next

\* A lone reversal commits as ReverseJournalEntry.
LEMMA LoneReversal ==
  ASSUME SoloAll, NEW s \in Sessions, CommitTransaction(s), SoloWriting(s), ReversalHolds(s)
  PROVE  Next
<1>1. PICK id, p : id = op[s].id /\ p = op[s].period
  OBVIOUS
<1>2. /\ Len(entries) < MaxEntries /\ p \in Periods /\ period[p].status = "open"
      /\ id \in DOMAIN entries /\ OriginalOk(id) /\ op[s].req = MirrorOf(lines, id)
      /\ op[s].kind = "reverse" /\ op[s].reverses = id
  BY <1>1 DEF SoloWriting, RequestHolds, ReversalHolds
<1>3. Goal(s) = Voided(s)
  BY <1>2 DEF SoloWriting, CommitTransaction, Goal
<1>4. entries[id].currency = "CZK" /\ AccountsOfEntry(lines, id) \subseteq Postable
  BY <1>2 DEF SoloAll, TypedSessions, PlainBooks, AccountsOfEntry, LinesOf
<1>5. Voided(s) = Reversed(id, p, RateScale)
  BY <1>1, <1>2, <1>4 DEF Voided, Posted, HeadOf, Reversed
<1>6. /\ entries' = Voided(s).entries /\ lines' = Voided(s).lines
      /\ balances' = Voided(s).balances /\ period' = period
  BY <1>3, GoalCommitted
<1>7. Commit(Voided(s))
  BY <1>6 DEF Commit
<1>8. RateScale \in RatesFor(entries[id].currency)
  BY <1>4 DEF RatesFor
<1>9. CanReverse(id, p, RateScale)
  BY <1>2, <1>4, <1>8 DEF CanReverse, OriginalOk
<1>10. ReverseJournalEntry(id, p, RateScale)
  BY <1>2, <1>5, <1>6, <1>7, <1>9 DEF ReverseJournalEntry
<1>11. QED
  BY <1>2, <1>8, <1>10 DEF ReversalRequest, Next

\* The period after a given one is unique.
LEMMA OneNextPeriod ==
  ASSUME NEW p, NEW q \in NextPeriods(p), NEW r \in NextPeriods(p)
  PROVE  q = r
<1>1. q \in Nat /\ r \in Nat /\ q <= r /\ r <= q
  BY ConstantsAssumption DEF NextPeriods
<1>2. QED
  BY <1>1

\* A lone closing commits as ClosePeriod.
LEMMA LoneClosing ==
  ASSUME SoloAll, NEW s \in Sessions, CommitTransaction(s), SoloClosing(s)
  PROVE  Next
<1>1. PICK p : p = op[s].period
  OBVIOUS
<1>2. /\ SessionsInv /\ TypedSessions /\ RowTable(balances) /\ pc[s] = "commit"
      /\ p \in Periods /\ period[p].status = "open" /\ own[s].closed = {p}
      /\ own[s].entry = <<>> /\ own[s].lines = {} /\ own[s].voided = {}
  BY <1>1 DEF SoloAll, SoloSessions, CommitTransaction, SoloClosing
<1>3. entries' = entries
  BY <1>2, NoneInserted DEF NothingVoided, CommitTransaction
<1>4. lines' = lines
  BY <1>2 DEF CommitTransaction, SeenLines
<1>5. period' = [period EXCEPT ![p] = [status |-> "closed", current |-> FALSE]]
  <2>1. period = [q \in Periods |-> period[q]]
    BY <1>2 DEF TypedSessions, TypeOK
  <2>2. QED
    BY <1>2, <2>1 DEF CommitTransaction
<1>6. balances' = [q \in Periods |-> [a \in Accounts |-> SeenRow(s, <<q, a>>)]]
  BY DEF CommitTransaction
<1>7. CASE NextPeriods(p) = {}
  <2>1. NothingCarried(s)
    BY <1>1, <1>2, <1>7 DEF SoloClosing, AllCarried
  <2>2. balances' = balances
    BY <1>2, <1>6, <2>1 DEF NothingCarried, RowTable
  <2>3. OpeningRowsFree(p)
    BY <1>7 DEF OpeningRowsFree
  <2>4. ClosePeriod(p)
    BY <1>2, <1>3, <1>4, <1>5, <1>7, <2>2, <2>3 DEF ClosePeriod
  <2>5. QED
    BY <1>2, <2>4 DEF PeriodRequest, Next
<1>8. CASE NextPeriods(p) # {}
  <2>1. AllCarried(s)
    BY <1>1, <1>2, <1>8 DEF SoloClosing
  <2>2. PICK q \in NextPeriods(p) : CarriedSoFar(s, q, Carried(p))
    BY <1>1, <2>1 DEF AllCarried
  <2>3. q \in Periods
    BY DEF NextPeriods
  <2>4. OpeningRowsFree(p)
    BY <2>2, OneNextPeriod DEF OpeningRowsFree, CarriedSoFar
  <2>5. balances' = CarriedInto(balances, p, q)
    <3>1. PICK row : row = [a \in Accounts |->
                              IF a \in Carried(p) THEN Row(a, balances[p][a].closing, 0, 0, 0)
                              ELSE balances[q][a]]
      OBVIOUS
    <3>2. CarriedInto(balances, p, q) = [balances EXCEPT ![q] = row]
      BY <3>1 DEF CarriedInto
    <3>3. /\ balances = [r \in Periods |-> balances[r]]
          /\ \A r \in Periods : balances[r] = [a \in Accounts |-> balances[r][a]]
      BY <1>2 DEF RowTable
    <3>4. ASSUME NEW r \in Periods, NEW a \in Accounts
          PROVE  SeenRow(s, <<r, a>>) = IF r = q THEN row[a] ELSE balances[r][a]
      BY <1>1, <2>2, <3>1 DEF CarriedSoFar
    <3>5. ASSUME NEW r \in Periods
          PROVE  [a \in Accounts |-> SeenRow(s, <<r, a>>)] = IF r = q THEN row ELSE balances[r]
      BY <3>1, <3>3, <3>4
    <3>6. QED
      BY <1>6, <2>3, <3>2, <3>3, <3>5
  <2>6. ClosePeriod(p)
    BY <1>2, <1>3, <1>4, <1>5, <2>4, <2>5 DEF ClosePeriod
  <2>7. QED
    BY <1>2, <2>6 DEF PeriodRequest, Next
<1>9. QED
  BY <1>7, <1>8

\* A lone opening or locking commits as OpenPeriod or LockPeriod.
LEMMA LoneChange ==
  ASSUME SoloAll, NEW s \in Sessions, UpdateStatus(s), SoloChanging(s)
  PROVE  Next
<1>1. PICK p \in Periods : p = op[s].period
  BY DEF SoloChanging
<1>2. /\ period[p].status = StatusBefore(op[s].kind)
      /\ UNCHANGED <<entries, lines, balances>>
  BY <1>1 DEF SoloChanging, UpdateStatus
<1>3. CASE op[s].kind = "open"
  <2>1. OpenPeriod(p)
    BY <1>1, <1>2, <1>3 DEF UpdateStatus, OpenPeriod, StatusBefore
  <2>2. QED
    BY <2>1 DEF PeriodRequest, Next
<1>4. CASE op[s].kind = "lock"
  <2>1. LockPeriod(p)
    BY <1>1, <1>2, <1>4 DEF UpdateStatus, LockPeriod, StatusBefore
  <2>2. QED
    BY <2>1 DEF PeriodRequest, Next
<1>5. QED
  BY <1>3, <1>4 DEF SoloChanging

LoneCommitsAreSteps ==
  \A s \in Sessions :
    pc[s] \in {"commit", "status_update"} /\ pc'[s] = "idle" /\ work[s].alone => Next

\* The step of a lone commit is a step of Ledger.
LEMMA StepOfLoneCommit == SoloAll /\ [SessionsNext]_allVars => LoneCommitsAreSteps
<1>1. SUFFICES ASSUME SoloAll, [SessionsNext]_allVars, NEW s \in Sessions,
                      pc[s] \in {"commit", "status_update"}, pc'[s] = "idle", work[s].alone
               PROVE  Next
  BY DEF LoneCommitsAreSteps
<1>2. SessionsNext
  BY <1>1 DEF allVars
<1>3. CASE pc[s] = "commit"
  <2>1. CommitTransaction(s) /\ SoloAt(s)
    BY <1>1, <1>2, <1>3, SoloCommits
  <2>2. SoloWriting(s) \/ SoloClosing(s)
    BY <1>3, <2>1 DEF SoloAt, SoloLooking, SoloStarting, SoloChanging, StatusLabels
  <2>3. SoloWriting(s) => PostingHolds(s) \/ ReversalHolds(s)
    BY DEF SoloWriting, RequestHolds
  <2>4. QED
    BY <1>1, <2>1, <2>2, <2>3, LonePosting, LoneReversal, LoneClosing
<1>4. CASE pc[s] = "status_update"
  <2>1. UpdateStatus(s) /\ SoloAt(s)
    BY <1>1, <1>2, <1>4, SoloCommits
  <2>2. SoloChanging(s)
    BY <1>4, <2>1 DEF SoloAt, SoloLooking, SoloStarting, SoloWriting, SoloClosing, CloseLabels
  <2>3. QED
    BY <1>1, <2>1, <2>2, LoneChange
<1>5. QED
  BY <1>1, <1>3, <1>4

\* A request that ran with no other in flight commits as one step of Ledger: the
\* statements of post_journal_entry, reverse_journal_entry and close_period, together,
\* do what the atomic request does, on whatever tables earlier requests left.
THEOREM LoneRequestsRefineLedger == SessionsSpec => SoloCommitsAreLedgerSteps
<1>1. SoloAll /\ [SessionsNext]_allVars => LoneCommitsAreSteps
  BY StepOfLoneCommit
<1>2. QED
  BY <1>1, SoloAlways, PTL DEF SessionsSpec, SoloCommitsAreLedgerSteps, LoneCommitsAreSteps

----------------------------------------------------------------------------
(* The rows a lone request writes. *)

\* A recomputed row is right.
LEMMA RecomputedIsRight ==
  ASSUME NEW old, NEW es, NEW ls, NEW p, NEW a
  PROVE  RowMatches(es, ls, RecomputedRow(old, es, ls, p, a), p, a)
<1>1. PICK opening, debit, credit, count :
        /\ opening = IF old = NoRow THEN 0 ELSE old.opening
        /\ debit = TotalCzk(OnSide(PostedLines(es, ls, p, a), "DEBIT"))
        /\ credit = TotalCzk(OnSide(PostedLines(es, ls, p, a), "CREDIT"))
        /\ count = Cardinality(PostedLines(es, ls, p, a))
  OBVIOUS
<1>2. PICK row : row = Row(a, opening, debit, credit, count)
  OBVIOUS
<1>3. RecomputedRow(old, es, ls, p, a) = row
  BY <1>1, <1>2 DEF RecomputedRow
<1>4. row # NoRow /\ row.opening = opening
  BY <1>2, RowNotNull DEF Row, IsRow, RowColumns
<1>5. QED
  BY <1>1, <1>2, <1>3, <1>4 DEF RowMatches

\* The lines of another period are the same when an entry is voided.
LEMMA VoidLeavesLines ==
  ASSUME SessionsInv, TypedSessions, NEW s \in Sessions, RequestHolds(s), ReversalHolds(s),
         NEW q, NEW a, q # entries[op[s].id].period
  PROVE  PostedLines(Voided(s).entries, Voided(s).lines, q, a)
           = PostedLines(Posted(s).entries, Posted(s).lines, q, a)
<1>1. PICK es, id : es = Posted(s).entries /\ id = op[s].id
  OBVIOUS
<1>2. id \in DOMAIN es /\ es[id].period # q
  BY <1>1, OriginalInPosted
<1>3. PICK gone : gone = [es[id] EXCEPT !.status = "voided"]
  OBVIOUS
<1>4. PICK new : new = [es EXCEPT ![id] = gone]
  OBVIOUS
<1>5. Voided(s).entries = new /\ Voided(s).lines = Posted(s).lines
  <2>1. Voided(s).entries = [es EXCEPT ![id] = [@ EXCEPT !.status = "voided"]]
    BY <1>1, VoidedEntries
  <2>2. QED
    BY <1>3, <1>4, <2>1, VoidedColumns
<1>6. /\ new[id].period = es[id].period
      /\ \A e \in DOMAIN es \ {id} : new[e] = es[e]
  <2>1. gone.period = es[id].period
    <3>1. PICK old : old = es[id]
      OBVIOUS
    <3>2. old \in Entry
      BY <1>1, <3>1, OriginalInPosted, RequestTyped DEF ReversalHolds
    <3>3. QED
      BY <1>3, <3>1, <3>2 DEF Entry
  <2>2. QED
    BY <1>2, <1>4, <2>1
<1>7. \A l \in Posted(s).lines : l.entry \in DOMAIN es
  <2>1. PICK n : n = Len(entries)
    OBVIOUS
  <2>2. /\ n \in Nat /\ DOMAIN entries = 1 .. n /\ entries \in Seq(Entry)
        /\ IsLineList(op[s].req)
    BY <2>1, RequestTyped
  <2>3. DOMAIN es = 1 .. n + 1
    <3>1. PICK e : e = EntryOf(s)
      OBVIOUS
    <3>2. es = Append(entries, e)
      BY <1>1, <3>1, PostedColumns
    <3>3. QED
      BY <2>1, <2>2, <3>2
  <2>4. \A l \in LineRows(n + 1, op[s].req, RateScale) : l.entry = n + 1
    <3>1. n + 1 \in Nat \ {0} /\ RateScale \in Nat \ {0}
      BY <2>2, ConstantsAssumption
    <3>2. QED
      BY <2>2, <3>1, LineRowsType
  <2>5. Posted(s).lines = lines \cup LineRows(n + 1, op[s].req, RateScale)
    BY <2>1, PostedColumns
  <2>6. \A l \in lines : l.entry \in 1 .. n
    BY <2>2 DEF TypedSessions, TypeOK
  <2>7. QED
    BY <2>2, <2>3, <2>4, <2>5, <2>6
<1>8. ASSUME NEW l \in Posted(s).lines
      PROVE  (new[l.entry].period = q /\ new[l.entry].status = "posted")
               <=> (es[l.entry].period = q /\ es[l.entry].status = "posted")
  BY <1>2, <1>6, <1>7
<1>9. QED
  BY <1>1, <1>5, <1>8 DEF PostedLines

\* Every row it has written is right in the tables it leads to.
LEMMA LoneRowsRight ==
  ASSUME SessionsInv, TypedSessions, NEW s \in Sessions, SoloWriting(s), pc[s] = "commit",
         NEW q \in Periods, NEW a \in Accounts, <<q, a>> \in DOMAIN own[s].rows
  PROVE  RowMatches(Goal(s).entries, Goal(s).lines, Goal(s).balances[q][a], q, a)
<1>1. /\ RequestHolds(s)
      /\ work[s].voidDone => op[s].kind = "reverse"
      /\ op[s].kind = "reverse" => work[s].voidDone
  BY DEF SoloWriting
<1>2. \/ q = op[s].period /\ a \in AccountsOf(op[s].req)
      \/ /\ work[s].voidDone
         /\ q = entries[op[s].id].period /\ a \in AccountsOfEntry(lines, op[s].id)
  BY DEF SoloWriting, RowsOfRequest
<1>3. CASE ~work[s].voidDone
  <2>1. Goal(s) = Posted(s)
    BY <1>3 DEF Goal
  <2>2. Posted(s).balances[q][a]
          = RecomputedRow(balances[q][a], Posted(s).entries, Posted(s).lines, q, a)
    BY <1>1, <1>2, <1>3, PostedRows
  <2>3. QED
    BY <2>1, <2>2, RecomputedIsRight
<1>4. CASE work[s].voidDone
  <2>1. Goal(s) = Voided(s) /\ ReversalHolds(s)
    BY <1>1, <1>4 DEF Goal, RequestHolds, PostingHolds
  <2>2. CASE q = entries[op[s].id].period /\ a \in AccountsOfEntry(lines, op[s].id)
    <3>1. Voided(s).balances[q][a]
            = RecomputedRow(Posted(s).balances[q][a], Voided(s).entries, Voided(s).lines, q, a)
      BY <1>1, <2>1, <2>2, VoidedRows
    <3>2. QED
      BY <2>1, <3>1, RecomputedIsRight
  <2>3. CASE ~(q = entries[op[s].id].period /\ a \in AccountsOfEntry(lines, op[s].id))
    <3>1. q = op[s].period /\ a \in AccountsOf(op[s].req)
      BY <1>2, <2>3
    <3>2. a \in AccountsOfEntry(lines, op[s].id)
      BY <1>1, <2>1, <3>1, RequestTyped, MirrorAccounts DEF ReversalHolds
    <3>3. q # entries[op[s].id].period
      BY <2>3, <3>2
    <3>4. Voided(s).balances[q][a] = Posted(s).balances[q][a]
      BY <1>1, <2>1, <2>3, VoidedRows
    <3>5. Posted(s).balances[q][a]
            = RecomputedRow(balances[q][a], Posted(s).entries, Posted(s).lines, q, a)
      BY <1>1, <3>1, PostedRows
    <3>6. RowMatches(Posted(s).entries, Posted(s).lines, Posted(s).balances[q][a], q, a)
      BY <3>5, RecomputedIsRight
    <3>7. PostedLines(Voided(s).entries, Voided(s).lines, q, a)
            = PostedLines(Posted(s).entries, Posted(s).lines, q, a)
      BY <1>1, <2>1, <3>3, VoidLeavesLines
    <3>8. QED
      BY <2>1, <3>4, <3>6, <3>7 DEF RowMatches
  <2>4. QED
    BY <2>2, <2>3
<1>5. QED
  BY <1>3, <1>4

LoneCommitsHeal ==
  \A s \in Sessions :
    pc[s] = "commit" /\ pc'[s] = "idle" /\ work[s].alone /\ op[s].kind # "close" =>
      \A key \in DOMAIN own[s].rows :
        RowMatches(entries', lines', balances'[key[1]][key[2]], key[1], key[2])

\* The step of a lone commit leaves the rows it wrote right.
LEMMA StepOfHealing == SoloAll /\ [SessionsNext]_allVars => LoneCommitsHeal
<1>1. SUFFICES ASSUME SoloAll, [SessionsNext]_allVars, NEW s \in Sessions,
                      pc[s] = "commit", pc'[s] = "idle", work[s].alone, op[s].kind # "close",
                      NEW key \in DOMAIN own[s].rows
               PROVE  RowMatches(entries', lines', balances'[key[1]][key[2]], key[1], key[2])
  BY DEF LoneCommitsHeal
<1>2. SessionsNext
  BY <1>1 DEF allVars
<1>3. CommitTransaction(s) /\ SoloAt(s)
  BY <1>1, <1>2, SoloCommits
<1>4. SoloWriting(s)
  BY <1>1, <1>3 DEF SoloAt, SoloLooking, SoloStarting, SoloClosing, SoloChanging, StatusLabels
<1>5. SessionsInv /\ TypedSessions
  BY <1>1 DEF SoloAll
<1>6. PICK q \in Periods, a \in Accounts : key = <<q, a>>
  BY <1>1, <1>5 DEF TypedSessions, SessionTyped, OwnTyped
<1>7. RowMatches(Goal(s).entries, Goal(s).lines, Goal(s).balances[q][a], q, a)
  BY <1>1, <1>4, <1>5, <1>6, LoneRowsRight
<1>8. /\ entries' = Goal(s).entries /\ lines' = Goal(s).lines
      /\ balances' = Goal(s).balances
  BY <1>1, <1>3, <1>4, GoalCommitted
<1>9. key[1] = q /\ key[2] = a
  BY <1>6
<1>10. QED
  BY <1>7, <1>8, <1>9

\* Every balance row that a lone posting or reversal has written agrees with the
\* lines when it commits, however wrong lost updates had made it before.
THEOREM LoneRequestsHeal == SessionsSpec => SoloCommitHeals
<1>1. SoloAll /\ [SessionsNext]_allVars => LoneCommitsHeal
  BY StepOfHealing
<1>2. QED
  BY <1>1, SoloAlways, PTL DEF SessionsSpec, SoloCommitHeals, LoneCommitsHeal

----------------------------------------------------------------------------
(* Row locks, and the opening balances. *)

\* A row is written by one transaction at a time.
RowsHeldOnce ==
  \A s, t \in Sessions : s # t => DOMAIN own[s].rows \cap DOMAIN own[t].rows = {}

\* What a transaction has written keeps the opening balance that is committed.
KeepsOpening(s, p, a) ==
  balances[p][a] # NoRow => own[s].rows[<<p, a>>].opening = balances[p][a].opening
OpeningsHeld ==
  \A s \in Sessions, p \in Periods, a \in Accounts :
    <<p, a>> \in DOMAIN own[s].rows => KeepsOpening(s, p, a)

LockInv == RowsHeldOnce /\ OpeningsHeld

\* One row more in the transaction of s, which no other holds.
WritesFreeRow(s, p, a, row) ==
  /\ own'[s].rows = WithRow(own[s].rows, <<p, a>>, row)
  /\ RowFree(s, <<p, a>>)
  /\ balances[p][a] # NoRow => row.opening = balances[p][a].opening

\* A transaction that ends or writes no balance row.
LEMMA RowsNotWritten ==
  ASSUME LockInv, NEW s \in Sessions, \A t \in Sessions \ {s} : own'[t] = own[t],
         balances' = balances, own'[s].rows = own[s].rows \/ DOMAIN own'[s].rows = {}
  PROVE  LockInv'
<1>1. \A t \in Sessions : own'[t].rows = own[t].rows \/ DOMAIN own'[t].rows = {}
  OBVIOUS
<1>2. RowsHeldOnce'
  BY <1>1 DEF LockInv, RowsHeldOnce
<1>3. OpeningsHeld'
  BY <1>1 DEF LockInv, OpeningsHeld, KeepsOpening
<1>4. QED
  BY <1>2, <1>3 DEF LockInv

\* A transaction that writes a row that is free.
LEMMA FreeRowWritten ==
  ASSUME LockInv, NEW s \in Sessions, \A t \in Sessions \ {s} : own'[t] = own[t],
         balances' = balances, NEW p \in Periods, NEW a \in Accounts, NEW row,
         WritesFreeRow(s, p, a, row)
  PROVE  LockInv'
<1> DEFINE new == WithRow(own[s].rows, <<p, a>>, row)
<1>1. /\ DOMAIN new = DOMAIN own[s].rows \cup {<<p, a>>}
      /\ \A k \in DOMAIN new : new[k] = IF k = <<p, a>> THEN row ELSE own[s].rows[k]
  BY DEF WithRow
<1>2. own'[s].rows = new
  BY DEF WritesFreeRow
<1> HIDE DEF new
<1>3. \A t \in Sessions \ {s} : <<p, a>> \notin DOMAIN own[t].rows
  BY DEF WritesFreeRow, RowFree, Others, HoldsRow
<1>4. RowsHeldOnce'
  BY <1>1, <1>2, <1>3 DEF LockInv, RowsHeldOnce
<1>5. ASSUME NEW t \in Sessions, NEW q \in Periods, NEW b \in Accounts,
             <<q, b>> \in DOMAIN own'[t].rows
      PROVE  balances[q][b] # NoRow => own'[t].rows[<<q, b>>].opening = balances[q][b].opening
  <2>1. CASE t # s \/ <<q, b>> # <<p, a>>
    <3>1. <<q, b>> \in DOMAIN own[t].rows /\ own'[t].rows[<<q, b>>] = own[t].rows[<<q, b>>]
      BY <1>1, <1>2, <1>5, <2>1
    <3>2. QED
      BY <3>1 DEF LockInv, OpeningsHeld, KeepsOpening
  <2>2. CASE t = s /\ q = p /\ b = a
    BY <1>1, <1>2, <2>2 DEF WritesFreeRow
  <2>3. QED
    BY <2>1, <2>2
<1>6. OpeningsHeld'
  BY <1>5 DEF OpeningsHeld, KeepsOpening
<1>7. QED
  BY <1>4, <1>6 DEF LockInv

\* A balance row: an UPDATE leaves the opening balance out, an INSERT finds no row.
LEMMA FlushKeepsLocks ==
  ASSUME SessionsInv, TypedSessions, LockInv, NEW s \in Sessions, FlushRow(s), ~Rollback(s)
  PROVE  LockInv'
<1>1. PICK p, a : p = work[s].period /\ a = work[s].account
  OBVIOUS
<1>2. /\ pc[s] = "flush" /\ OthersKept(s) /\ TablesKept /\ RowFlushed(s)
  BY FlushRowDoes
<1>3. /\ p \in Periods /\ a \in Accounts /\ LoadedTyped(s) /\ WorkKey(s) = <<p, a>>
      /\ DOMAIN own[s].rows \subseteq Periods \X Accounts
  BY <1>1, <1>2 DEF TypedSessions, SessionTyped, WorkTyped, OwnTyped, WorkKey
<1>4. (\A t \in Sessions \ {s} : own'[t] = own[t]) /\ balances' = balances
  BY <1>2 DEF OthersKept, TablesKept
<1>5. CASE own' = own
  BY <1>4, <1>5, RowsNotWritten
<1>6. CASE own' # own
  <2>1. PICK row : row = IF work[s].loaded = NoRow THEN NewRow(s)
                         ELSE Updated(SeenRow(s, <<p, a>>), work[s].loaded, NewRow(s))
    OBVIOUS
  <2>2. /\ own'[s].rows = WithRow(own[s].rows, <<p, a>>, row) /\ RowFree(s, <<p, a>>)
        /\ work[s].loaded = NoRow => SeenRow(s, <<p, a>>) = NoRow
    BY <1>2, <1>3, <1>6, <2>1 DEF RowFlushed
  <2>3. ASSUME balances[p][a] # NoRow
        PROVE  SeenRow(s, <<p, a>>) # NoRow /\ SeenRow(s, <<p, a>>).opening = balances[p][a].opening
    <3>1. CASE <<p, a>> \in DOMAIN own[s].rows
      <4>1. SeenRow(s, <<p, a>>) = own[s].rows[<<p, a>>]
        BY <3>1 DEF SeenRow
      <4>2. IsRow(own[s].rows[<<p, a>>])
        BY <3>1 DEF TypedSessions, SessionTyped, OwnTyped
      <4>3. own[s].rows[<<p, a>>].opening = balances[p][a].opening
        BY <1>3, <2>3, <3>1 DEF LockInv, OpeningsHeld, KeepsOpening
      <4>4. QED
        BY <4>1, <4>2, <4>3, RowNotNull
    <3>2. CASE <<p, a>> \notin DOMAIN own[s].rows
      BY <2>3, <3>2 DEF SeenRow
    <3>3. QED
      BY <3>1, <3>2
  <2>4. ASSUME balances[p][a] # NoRow PROVE row.opening = balances[p][a].opening
    <3>1. work[s].loaded # NoRow
      BY <2>2, <2>3, <2>4
    <3>2. NewRow(s).opening = work[s].loaded.opening
      BY <3>1 DEF NewRow, Row
    <3>3. row = Updated(SeenRow(s, <<p, a>>), work[s].loaded, NewRow(s))
      BY <2>1, <3>1
    <3>4. row.opening = SeenRow(s, <<p, a>>).opening
      BY <3>2, <3>3 DEF Updated, RowColumns
    <3>5. QED
      BY <2>3, <2>4, <3>4
  <2>5. WritesFreeRow(s, p, a, row)
    BY <2>2, <2>4 DEF WritesFreeRow
  <2>6. QED
    BY <1>3, <1>4, <2>5, FreeRowWritten
<1>7. QED
  BY <1>5, <1>6

\* An opening balance is inserted where there is no row.
LEMMA OpeningKeepsLocks ==
  ASSUME SessionsInv, TypedSessions, LockInv, NEW s \in Sessions, InsertOpening(s),
         ~Rollback(s)
  PROVE  LockInv'
<1>1. PICK a \in work[s].todo : OpeningInserted(s, a)
  BY InsertOpeningDoes
<1>2. PICK p, row : p = work[s].next /\ row = Row(a, work[s].carry[a], 0, 0, 0)
  OBVIOUS
<1>3. pc[s] = "close_insert" /\ OthersKept(s) /\ TablesKept
  BY InsertOpeningDoes
<1>4. p \in Periods /\ a \in Accounts
  BY <1>2, <1>3 DEF TypedSessions, SessionTyped, WorkTyped
<1>5. (\A t \in Sessions \ {s} : own'[t] = own[t]) /\ balances' = balances
  BY <1>3 DEF OthersKept, TablesKept
<1>6. /\ own'[s].rows = WithRow(own[s].rows, <<p, a>>, row) /\ RowFree(s, <<p, a>>)
      /\ SeenRow(s, <<p, a>>) = NoRow
  BY <1>1, <1>2 DEF OpeningInserted
<1>7. balances[p][a] = NoRow
  <2>1. ASSUME <<p, a>> \in DOMAIN own[s].rows PROVE FALSE
    <3>1. IsRow(own[s].rows[<<p, a>>])
      BY <2>1 DEF TypedSessions, SessionTyped, OwnTyped
    <3>2. QED
      BY <1>6, <2>1, <3>1, RowNotNull DEF SeenRow
  <2>2. QED
    BY <1>6, <2>1 DEF SeenRow
<1>8. WritesFreeRow(s, p, a, row)
  BY <1>6, <1>7 DEF WritesFreeRow
<1>9. QED
  BY <1>4, <1>5, <1>8, FreeRowWritten

\* The rows of a transaction are committed, and held no more.
LEMMA CommitKeepsLocks ==
  ASSUME SessionsInv, TypedSessions, LockInv, NEW s \in Sessions, CommitTransaction(s)
  PROVE  LockInv'
<1>1. OthersKept(s) /\ own'[s] = NoWrites
  BY FinishDoes DEF CommitTransaction
<1>2. DOMAIN own'[s].rows = {} /\ \A t \in Sessions \ {s} : own'[t] = own[t]
  BY <1>1 DEF NoWrites, NoFunction, OthersKept
<1>3. ASSUME NEW t \in Sessions \ {s}, NEW p \in Periods, NEW a \in Accounts,
             <<p, a>> \in DOMAIN own[t].rows
      PROVE  balances'[p][a] = balances[p][a]
  <2>1. <<p, a>> \notin DOMAIN own[s].rows
    BY <1>3 DEF LockInv, RowsHeldOnce
  <2>2. balances'[p][a] = SeenRow(s, <<p, a>>)
    BY DEF CommitTransaction
  <2>3. QED
    BY <2>1, <2>2 DEF SeenRow
<1>4. RowsHeldOnce'
  BY <1>2 DEF LockInv, RowsHeldOnce
<1>5. OpeningsHeld'
  BY <1>2, <1>3 DEF LockInv, OpeningsHeld, KeepsOpening
<1>6. QED
  BY <1>4, <1>5 DEF LockInv

\* The other statements of a request write no balance row.
LEMMA StatementKeepsLocks ==
  ASSUME SessionsInv, TypedSessions, LockInv, NEW s \in Sessions, Statement(s)
  PROVE  LockInv'
<1>1. ASSUME OthersKept(s), TablesKept, own' = own \/ own'[s].rows = own[s].rows
      PROVE  LockInv'
  BY <1>1, RowsNotWritten DEF OthersKept, TablesKept
<1>2. CASE Rollback(s)
  <2>1. OthersKept(s) /\ own'[s] = NoWrites /\ balances' = balances
    BY <1>2, FinishDoes DEF Rollback
  <2>2. DOMAIN own'[s].rows = {} /\ \A t \in Sessions \ {s} : own'[t] = own[t]
    BY <2>1 DEF NoWrites, NoFunction, OthersKept
  <2>3. QED
    BY <2>1, <2>2, RowsNotWritten
<1>3. CASE SelectPeriod(s) /\ ~Rollback(s)
  BY <1>1, <1>3, SelectPeriodDoes
<1>4. CASE Insert(s)
  BY <1>1, <1>4, InsertDoes
<1>5. CASE SumLines(s)
  BY <1>1, <1>5, SumLinesDoes
<1>6. CASE SelectRow(s)
  BY <1>1, <1>6, SelectRowDoes
<1>7. CASE FlushRow(s) /\ ~Rollback(s)
  BY <1>7, FlushKeepsLocks
<1>8. CASE SelectOriginal(s) /\ ~Rollback(s)
  BY <1>1, <1>8, SelectOriginalDoes
<1>9. CASE VoidOriginal(s)
  BY <1>1, <1>9, VoidOriginalDoes
<1>10. CASE SelectClosing(s) /\ ~Rollback(s)
  BY <1>1, <1>10, SelectClosingDoes
<1>11. CASE UpdateClosing(s)
  BY <1>1, <1>11, UpdateClosingDoes
<1>12. CASE SelectNext(s)
  <2>1. OthersKept(s) /\ TablesKept /\ own' = own
    BY <1>12, SelectNextDoes
  <2>2. QED
    BY <1>1, <2>1
<1>13. CASE SelectBalances(s)
  BY <1>1, <1>13, SelectBalancesDoes
<1>14. CASE InsertOpening(s) /\ ~Rollback(s)
  BY <1>14, OpeningKeepsLocks
<1>15. CASE CommitTransaction(s)
  BY <1>15, CommitKeepsLocks
<1>16. CASE DeadlockVictim(s)
  BY <1>2, <1>16 DEF DeadlockVictim
<1>17. CASE SelectStatus(s) /\ ~Rollback(s)
  BY <1>1, <1>17, SelectStatusDoes
<1>18. CASE UpdateStatus(s)
  <2>1. OthersKept(s) /\ own'[s] = NoWrites /\ balances' = balances
    BY <1>18, FinishDoes DEF UpdateStatus
  <2>2. DOMAIN own'[s].rows = {} /\ \A t \in Sessions \ {s} : own'[t] = own[t]
    BY <2>1 DEF NoWrites, NoFunction, OthersKept
  <2>3. QED
    BY <2>1, <2>2, RowsNotWritten
<1>19. QED
  BY <1>2, <1>3, <1>4, <1>5, <1>6, <1>7, <1>8, <1>9, <1>10, <1>11, <1>12, <1>13, <1>14,
     <1>15, <1>16, <1>17, <1>18 DEF Statement

\* A step writes committed balances only by a commit.
LEMMA StepKeepsLocks ==
  ASSUME SessionsInv, TypedSessions, LockInv, [SessionsNext]_allVars
  PROVE  LockInv'
<1>1. ASSUME own' = own, balances' = balances PROVE LockInv'
  BY <1>1 DEF LockInv, RowsHeldOnce, OpeningsHeld, KeepsOpening
<1>2. ASSUME NEW s \in Sessions, Client(s) PROVE LockInv'
  <2>1. ASSUME NEW request, NEW first, Begin(s, request, first) PROVE LockInv'
    BY <1>1, <2>1, BeginDoes DEF TablesKept
  <2>2. QED
    BY <1>2, <2>1 DEF Client, BeginPost, BeginReverse, BeginClose, BeginOpen, BeginLock
<1>3. ASSUME NEW s \in Sessions, Statement(s) PROVE LockInv'
  BY <1>3, StatementKeepsLocks
<1>4. ASSUME NEW p \in Periods, RunSeed(p) PROVE LockInv'
  BY <1>1, <1>4, SeedDoes
<1>5. CASE UNCHANGED allVars
  BY <1>1, <1>5 DEF allVars
<1>6. QED
  BY <1>2, <1>3, <1>4, <1>5 DEF SessionsNext

\* The tables only a commit writes.
LEMMA OnlyCommitsWrite ==
  ASSUME SessionsInv, [SessionsNext]_allVars
  PROVE  balances' = balances \/ \E s \in Sessions : CommitTransaction(s)
<1>1. ASSUME NEW s \in Sessions, Client(s) PROVE balances' = balances
  BY <1>1 DEF Client, BeginPost, BeginReverse, BeginClose, BeginOpen, BeginLock, Begin
<1>2. ASSUME NEW s \in Sessions, Statement(s), ~CommitTransaction(s) PROVE balances' = balances
  BY <1>2 DEF Statement, SelectPeriod, Insert, SumLines, SelectRow, FlushRow, SelectOriginal,
     VoidOriginal, SelectClosing, UpdateClosing, SelectNext, SelectBalances,
     InsertOpening, SelectStatus, UpdateStatus, DeadlockVictim, Rollback, KeepTables
<1>3. ASSUME NEW p \in Periods, RunSeed(p) PROVE balances' = balances
  BY <1>3, SeedDoes
<1>4. UNCHANGED allVars => balances' = balances
  BY DEF allVars
<1>5. QED
  BY <1>1, <1>2, <1>3, <1>4 DEF SessionsNext

OpeningsKept ==
  \A p \in Periods, a \in Accounts :
    balances[p][a] # NoRow =>
      balances'[p][a] # NoRow /\ balances'[p][a].opening = balances[p][a].opening

\* A committed row that a transaction replaces keeps its opening balance.
LEMMA StepKeepsOpenings ==
  ASSUME SessionsInv, TypedSessions, LockInv, [SessionsNext]_allVars
  PROVE  OpeningsKept
<1>1. SUFFICES ASSUME NEW s \in Sessions, CommitTransaction(s),
                      NEW p \in Periods, NEW a \in Accounts, balances[p][a] # NoRow
               PROVE  /\ balances'[p][a] # NoRow
                      /\ balances'[p][a].opening = balances[p][a].opening
  BY OnlyCommitsWrite DEF OpeningsKept
<1>2. balances'[p][a] = SeenRow(s, <<p, a>>)
  BY <1>1 DEF CommitTransaction
<1>3. CASE <<p, a>> \in DOMAIN own[s].rows
  <2>1. IsRow(own[s].rows[<<p, a>>])
    BY <1>3 DEF TypedSessions, SessionTyped, OwnTyped
  <2>2. own[s].rows[<<p, a>>].opening = balances[p][a].opening
    BY <1>1, <1>3 DEF LockInv, OpeningsHeld, KeepsOpening
  <2>3. QED
    BY <1>2, <1>3, <2>1, <2>2, RowNotNull DEF SeenRow
<1>4. CASE <<p, a>> \notin DOMAIN own[s].rows
  BY <1>1, <1>2, <1>4 DEF SeenRow
<1>5. QED
  BY <1>3, <1>4

\* An opening balance is written once, whatever requests interleave: an UPDATE that
\* was computed from a row read earlier leaves it out, two inserts of one row do not
\* both commit, and a row that is being written is locked until its commit.
THEOREM OpeningsStayInterleaved == SessionsSpec => OpeningsWrittenOnce
<1> DEFINE Inv == SessionsInv /\ TypedSessions /\ LockInv
<1>1. SessionsInit => Inv
  <2>1. SessionsInit => LockInv
    <3>1. SUFFICES ASSUME SessionsInit PROVE LockInv
      OBVIOUS
    <3>2. \A s \in Sessions : DOMAIN own[s].rows = {}
      BY <3>1 DEF SessionsInit, NoWrites, NoFunction
    <3>3. QED
      BY <3>2 DEF LockInv, RowsHeldOnce, OpeningsHeld
  <2>2. QED
    BY <2>1, InitSessions, InitTyped
<1>2. Inv /\ [SessionsNext]_allVars => Inv'
  BY StepKeepsSessions, StepKeepsTyped, StepKeepsLocks
<1>3. Inv /\ [SessionsNext]_allVars => OpeningsKept
  BY StepKeepsOpenings
<1>4. QED
  BY <1>1, <1>2, <1>3, PTL DEF SessionsSpec, OpeningsWrittenOnce, OpeningsKept

=============================================================================
