---------------------------- MODULE LedgerProofs ----------------------------
(***************************************************************************)
(* Proofs about Ledger, in three parts, and lemmas about sums.             *)
(*                                                                         *)
(* The tables are handled as one record `db`: a request is a composition   *)
(* of PostTo and VoidIn, so each of the two is shown once to preserve the  *)
(* table invariants, for every db.                                         *)
(*                                                                         *)
(* What a step may never do to the books it finds: Extends relates the     *)
(* tables before and after a part of a request; it holds of PostTo and of  *)
(* VoidIn, it is transitive, and so it holds of every request.             *)
(*                                                                         *)
(* Fiscal periods: which balances of a closed period can change, and where *)
(* an opening balance comes from.  Both follow the rows a request writes:  *)
(* a posting writes rows of its period only, a void rows of the period of  *)
(* what it voids, a closing new rows of a later period.                    *)
(***************************************************************************)
EXTENDS Ledger, FiniteSetTheorems, TLAPS

\* A list of lines, as a request carries it or as a reversal rebuilds it.
IsLineList(req) == \A i \in DOMAIN req : i \in Nat \ {0} /\ req[i] \in RequestLine

IsBalances(bal) ==
  /\ DOMAIN bal = Periods
  /\ \A p \in Periods :
       /\ DOMAIN bal[p] = Accounts
       /\ \A a \in Accounts :
            \/ bal[p][a] = NoRow
            \/ DOMAIN bal[p][a] = RowColumns /\ bal[p][a].row = TRUE

IsTables(db) ==
  /\ db = [entries |-> db.entries, lines |-> db.lines, balances |-> db.balances]
  /\ db.entries \in Seq(Entry)
  /\ db.lines \subseteq Line
  /\ \A l \in db.lines : l.entry \in DOMAIN db.entries
  /\ IsBalances(db.balances)

IsHead(head) == /\ head.type \in {"STANDARD", "REVERSAL", "CORRECTION"}
                /\ head.reverses \in Nat
                /\ head.currency \in {"CZK", "FX"}

Consistent(db) ==
  \A p \in Periods, a \in Accounts :
    RowMatches(db.entries, db.lines, db.balances[p][a], p, a)

-----------------------------------------------------------------------------
\* Rounding yields an integer: the columns of a new line are well typed.
LEMMA RoundingType ==
  ASSUME NEW n \in Nat, NEW d \in Nat \ {0}
  PROVE  RoundHalfUp(n, d) \in Int /\ RoundHalfEven(n, d) \in Int
<1>1. 2 * n + d \in Int /\ 2 * d \in Nat \ {0}
  OBVIOUS
<1>2. (2 * n + d) \div (2 * d) \in Int
  BY <1>1
<1>3. n \div d \in Int
  OBVIOUS
<1>4. QED
  BY <1>2, <1>3 DEF RoundHalfUp, RoundHalfEven

\* The rows post_journal_entry inserts are lines of the new entry.
LEMMA LineRowsType ==
  ASSUME NEW id \in Nat \ {0}, NEW req, IsLineList(req), NEW rate \in Nat \ {0}
  PROVE  /\ LineRows(id, req, rate) \subseteq Line
         /\ \A l \in LineRows(id, req, rate) :
              l.entry = id /\ l.account \in AccountsOf(req)
<1> SUFFICES ASSUME NEW i \in DOMAIN req
             PROVE  /\ req[i].account \in Accounts
                    /\ req[i].side \in Side
                    /\ RoundHalfUp(req[i].amount, Sub) \in Int
                    /\ RoundHalfEven(req[i].amount * rate, Sub * RateScale) \in Int
                    /\ i - 1 \in Nat
  BY DEF LineRows, Line, AccountsOf
<1>1. i \in Nat \ {0} /\ req[i] \in RequestLine
  BY DEF IsLineList
<1>2. req[i].account \in Accounts /\ req[i].side \in Side /\ req[i].amount \in Nat \ {0}
  BY <1>1 DEF RequestLine
<1>3. /\ Sub \in Nat \ {0} /\ RateScale \in Nat \ {0}
      /\ req[i].amount * rate \in Nat /\ Sub * RateScale \in Nat \ {0}
  BY <1>2, ConstantsAssumption
<1>4. QED
  BY <1>1, <1>2, <1>3, RoundingType

\* What a reversal rebuilds from the stored lines is a list of lines.
LEMMA MirrorType ==
  ASSUME NEW ls, ls \subseteq Line, NEW id, Reversible(ls, id)
  PROVE  IsLineList(MirrorOf(ls, id))
<1> SUFFICES ASSUME NEW i \in {l.order + 1 : l \in LinesOf(ls, id)}
             PROVE  /\ i \in Nat \ {0}
                    /\ MirrorOf(ls, id)[i] \in RequestLine
  BY DEF IsLineList, MirrorOf
<1> DEFINE l == CHOOSE x \in LinesOf(ls, id) : x.order = i - 1
<1>0. PICK x \in LinesOf(ls, id) : i = x.order + 1
  OBVIOUS
<1>1. l \in LinesOf(ls, id) /\ l.order = i - 1 /\ i \in Nat \ {0}
  <2>1. x.order \in Nat
    BY DEF LinesOf, Line
  <2>2. x.order = i - 1 /\ i \in Nat \ {0}
    BY <1>0, <2>1
  <2>3. QED
    BY <2>2
<1>2. l \in Line /\ l.foreign > 0
  BY <1>1 DEF LinesOf, Reversible
<1>3. /\ i \in Nat \ {0} /\ l.account \in Accounts /\ Swap(l.side) \in Side
      /\ l.foreign * Sub \in Nat \ {0}
  BY <1>1, <1>2, ConstantsAssumption DEF Line, Swap, Side
<1>4. MirrorOf(ls, id)[i]
        = [account |-> l.account, side |-> Swap(l.side), amount |-> l.foreign * Sub]
  BY DEF MirrorOf
<1> HIDE DEF l
<1>5. QED
  BY <1>3, <1>4 DEF RequestLine

\* A mirror names accounts of its original.
LEMMA MirrorAccounts ==
  ASSUME NEW ls, ls \subseteq Line, NEW id
  PROVE  AccountsOf(MirrorOf(ls, id)) \subseteq AccountsOfEntry(ls, id)
<1> SUFFICES ASSUME NEW i \in {l.order + 1 : l \in LinesOf(ls, id)}
             PROVE  MirrorOf(ls, id)[i].account \in AccountsOfEntry(ls, id)
  BY DEF AccountsOf, MirrorOf
<1> DEFINE l == CHOOSE x \in LinesOf(ls, id) : x.order = i - 1
<1>0. PICK x \in LinesOf(ls, id) : i = x.order + 1
  OBVIOUS
<1>1. l \in LinesOf(ls, id)
  <2>1. x.order = i - 1
    BY <1>0 DEF LinesOf, Line
  <2>2. QED
    BY <2>1
<1>2. MirrorOf(ls, id)[i]
        = [account |-> l.account, side |-> Swap(l.side), amount |-> l.foreign * Sub]
  BY DEF MirrorOf
<1> HIDE DEF l
<1>3. QED
  BY <1>1, <1>2 DEF AccountsOfEntry

-----------------------------------------------------------------------------
\* A recomputation writes the rows of the accounts it is given, in its period.
LEMMA RecomputeRows ==
  ASSUME NEW bal, DOMAIN bal = Periods, NEW es, NEW ls, NEW p \in Periods, NEW accts,
         NEW q \in Periods, NEW a \in Accounts
  PROVE  Recompute(bal, es, ls, p, accts)[q][a]
           = IF q = p /\ a \in accts
             THEN RecomputedRow(bal[p][a], es, ls, p, a) ELSE bal[q][a]
  BY DEF Recompute

\* Recomputing a period leaves the table of balances a table.
LEMMA RecomputeType ==
  ASSUME NEW bal, IsBalances(bal), NEW es, NEW ls, NEW p \in Periods, NEW accts
  PROVE  IsBalances(Recompute(bal, es, ls, p, accts))
<1> DEFINE new == Recompute(bal, es, ls, p, accts)
<1>1. DOMAIN new = Periods /\ \A q \in Periods : DOMAIN new[q] = Accounts
  BY DEF Recompute, IsBalances
<1>2. ASSUME NEW q \in Periods, NEW a \in Accounts
      PROVE  \/ new[q][a] = NoRow
             \/ DOMAIN new[q][a] = RowColumns /\ new[q][a].row = TRUE
  <2>1. new[q][a] \in {RecomputedRow(bal[p][a], es, ls, p, a), bal[q][a]}
    BY RecomputeRows DEF IsBalances
  <2>2. LET r == RecomputedRow(bal[p][a], es, ls, p, a)
        IN  DOMAIN r = RowColumns /\ r.row = TRUE
    BY DEF RecomputedRow, Row, RowColumns
  <2>3. QED
    BY <2>1, <2>2 DEF IsBalances
<1> HIDE DEF new
<1>3. IsBalances(new)
  BY <1>1, <1>2 DEF IsBalances
<1>4. QED
  BY <1>3 DEF new

\* post_journal_entry keeps the tables well typed and every balance row true:
\* a row it does not recompute has the same lines as before.
LEMMA PostPreserves ==
  ASSUME NEW db, IsTables(db), Consistent(db), NEW req, IsLineList(req),
         NEW p \in Periods, NEW rate \in Nat \ {0}, NEW head, IsHead(head)
  PROVE  /\ IsTables(PostTo(db, req, p, rate, head))
         /\ Consistent(PostTo(db, req, p, rate, head))
<1> DEFINE id == Len(db.entries) + 1
           e == [period |-> p, status |-> "posted", type |-> head.type,
                 reverses |-> head.reverses, currency |-> head.currency]
           es == Append(db.entries, e)
           new == LineRows(id, req, rate)
           ls == db.lines \cup new
           bal == Recompute(db.balances, es, ls, p, AccountsOf(req))
<1>1. PostTo(db, req, p, rate, head) = [entries |-> es, lines |-> ls, balances |-> bal]
  BY DEF PostTo
<1>2. db.entries \in Seq(Entry) /\ e \in Entry /\ id \in Nat \ {0}
  BY DEF IsTables, IsHead, Entry
<1>3. /\ es \in Seq(Entry) /\ DOMAIN es = 1 .. id /\ DOMAIN db.entries = 1 .. id - 1
      /\ es[id] = e /\ \A i \in 1 .. id - 1 : es[i] = db.entries[i]
  BY <1>2
<1>4. new \subseteq Line /\ \A l \in new : l.entry = id /\ l.account \in AccountsOf(req)
  BY <1>2, LineRowsType
<1>5. IsTables([entries |-> es, lines |-> ls, balances |-> bal])
  <2>1. ls \subseteq Line /\ \A l \in ls : l.entry \in DOMAIN es
    BY <1>2, <1>3, <1>4 DEF IsTables
  <2>2. IsBalances(bal)
    BY RecomputeType DEF IsTables
  <2> HIDE DEF es, ls, bal
  <2>3. QED
    BY <1>3, <2>1, <2>2 DEF IsTables
<1>6. ASSUME NEW q \in Periods, NEW a \in Accounts
      PROVE  RowMatches(es, ls, bal[q][a], q, a)
  <2> DEFINE old == db.balances[p][a]
  <2>0. bal[q][a] = IF q = p /\ a \in AccountsOf(req)
                    THEN RecomputedRow(old, es, ls, p, a) ELSE db.balances[q][a]
    BY RecomputeRows DEF IsTables, IsBalances
  <2> HIDE DEF bal, old
  <2>1. CASE q = p /\ a \in AccountsOf(req)
    <3>1. bal[q][a] = RecomputedRow(old, es, ls, p, a)
      BY <2>0, <2>1
    <3>2. bal[q][a] # NoRow
      BY <3>1 DEF RecomputedRow, Row, NoRow
    <3>3. QED
      BY <2>1, <3>1, <3>2 DEF RowMatches, RecomputedRow, Row
  <2>2. CASE ~(q = p /\ a \in AccountsOf(req))
    <3>1. bal[q][a] = db.balances[q][a]
      BY <2>0, <2>2
    <3>2. \A l \in db.lines : es[l.entry] = db.entries[l.entry]
      BY <1>3 DEF IsTables
    <3>3. \A l \in new : ~(l.account = a /\ es[l.entry].period = q)
      BY <1>3, <1>4, <2>2
    <3>4. PostedLines(es, ls, q, a) = PostedLines(db.entries, db.lines, q, a)
      BY <3>2, <3>3 DEF PostedLines
    <3>5. RowMatches(db.entries, db.lines, db.balances[q][a], q, a)
      BY DEF Consistent
    <3>6. QED
      BY <3>1, <3>4, <3>5 DEF RowMatches
  <2>3. QED
    BY <2>1, <2>2
<1> HIDE DEF es, ls, bal
<1>7. QED
  BY <1>1, <1>5, <1>6 DEF Consistent

\* Voiding an entry and recomputing its accounts in its own period does too:
\* only the rows of those accounts lose lines.
LEMMA VoidPreserves ==
  ASSUME NEW db, IsTables(db), Consistent(db), NEW id \in DOMAIN db.entries
  PROVE  IsTables(VoidIn(db, id)) /\ Consistent(VoidIn(db, id))
<1> DEFINE es == [db.entries EXCEPT ![id].status = "voided"]
           p == db.entries[id].period
           accts == AccountsOfEntry(db.lines, id)
           bal == Recompute(db.balances, es, db.lines, p, accts)
<1>1. VoidIn(db, id) = [entries |-> es, lines |-> db.lines, balances |-> bal]
  BY DEF VoidIn
<1>2. db.entries \in Seq(Entry) /\ db.entries[id] \in Entry /\ p \in Periods
  <2>1. db.entries \in Seq(Entry)
    BY DEF IsTables
  <2>2. db.entries[id] \in Entry
    BY <2>1
  <2>3. QED
    BY <2>1, <2>2 DEF Entry
<1>3. /\ es \in Seq(Entry) /\ DOMAIN es = DOMAIN db.entries
      /\ \A i \in DOMAIN db.entries :
           /\ es[i].period = db.entries[i].period
           /\ i # id => es[i] = db.entries[i]
  BY <1>2 DEF Entry
<1>4. IsTables([entries |-> es, lines |-> db.lines, balances |-> bal])
  <2>1. IsBalances(bal)
    BY <1>2, RecomputeType DEF IsTables
  <2> HIDE DEF es, bal
  <2>2. QED
    BY <1>2, <1>3, <2>1 DEF IsTables
<1>5. ASSUME NEW q \in Periods, NEW a \in Accounts
      PROVE  RowMatches(es, db.lines, bal[q][a], q, a)
  <2> DEFINE old == db.balances[p][a]
  <2>0. bal[q][a] = IF q = p /\ a \in accts
                    THEN RecomputedRow(old, es, db.lines, p, a) ELSE db.balances[q][a]
    BY <1>2, RecomputeRows DEF IsTables, IsBalances
  <2> HIDE DEF bal, old
  <2>1. CASE q = p /\ a \in accts
    <3>1. bal[q][a] = RecomputedRow(old, es, db.lines, p, a)
      BY <2>0, <2>1
    <3>2. bal[q][a] # NoRow
      BY <3>1 DEF RecomputedRow, Row, NoRow
    <3>3. QED
      BY <2>1, <3>1, <3>2 DEF RowMatches, RecomputedRow, Row
  <2>2. CASE ~(q = p /\ a \in accts)
    <3>1. bal[q][a] = db.balances[q][a]
      BY <2>0, <2>2
    <3>2. \A l \in db.lines : l.account = a /\ db.entries[l.entry].period = q
                              => l.entry # id
      BY <2>2 DEF AccountsOfEntry, LinesOf
    <3>3. PostedLines(es, db.lines, q, a) = PostedLines(db.entries, db.lines, q, a)
      BY <1>3, <3>2 DEF PostedLines, IsTables
    <3>4. RowMatches(db.entries, db.lines, db.balances[q][a], q, a)
      BY DEF Consistent
    <3>5. QED
      BY <3>1, <3>3, <3>4 DEF RowMatches
  <2>3. QED
    BY <2>1, <2>2
<1> HIDE DEF es, bal
<1>6. QED
  BY <1>1, <1>4, <1>5 DEF Consistent
-----------------------------------------------------------------------------
(* TypeOK and BalancesMatchLedger: each needs the other. *)

TypedAndConsistent == TypeOK /\ BalancesMatchLedger

LEMMA TablesOfState == TypedAndConsistent => IsTables(Tables) /\ Consistent(Tables)
  BY DEF TypedAndConsistent, TypeOK, BalancesMatchLedger, IsTables, IsBalances,
         Consistent, Tables

\* A transaction whose tables are right leaves a state that is right.
LEMMA CommitTyped ==
  ASSUME NEW db, IsTables(db), Consistent(db), Commit(db), TypeOK, UNCHANGED period
  PROVE  TypedAndConsistent'
<1>1. TypeOK'
  BY DEF IsTables, IsBalances, Commit, TypeOK
<1>2. BalancesMatchLedger'
  BY DEF Consistent, Commit, BalancesMatchLedger
<1>3. QED
  BY <1>1, <1>2 DEF TypedAndConsistent

LEMMA RequestType ==
  ASSUME NEW req \in Requests \cup Corrections
  PROVE  IsLineList(req)
<1>1. req \in Seq(RequestLine)
  BY ConstantsAssumption
<1>2. QED
  BY <1>1 DEF IsLineList

LEMMA RateType ==
  ASSUME NEW currency, NEW rate \in RatesFor(currency)
  PROVE  rate \in Nat \ {0}
  BY ConstantsAssumption DEF RatesFor

\* Reversing an entry in a transaction: the reversal is posted, then the
\* original is voided.
LEMMA ReversedPreserves ==
  ASSUME TypedAndConsistent, NEW id \in DOMAIN entries, NEW p \in Periods,
         NEW rate \in RatesFor(entries[id].currency), CanReverse(id, p, rate)
  PROVE  IsTables(Reversed(id, p, rate)) /\ Consistent(Reversed(id, p, rate))
<1> DEFINE head == [type |-> "REVERSAL", reverses |-> id, currency |-> entries[id].currency]
           req == MirrorOf(lines, id)
           db == PostTo(Tables, req, p, rate, head)
<1>1. entries \in Seq(Entry) /\ lines \subseteq Line
  BY DEF TypedAndConsistent, TypeOK
<1>2. entries[id] \in Entry /\ id \in Nat
  BY <1>1
<1>3. IsHead(head)
  BY <1>2 DEF IsHead, Entry
<1>4. IsLineList(req)
  BY <1>1, MirrorType DEF CanReverse
<1>5. IsTables(db) /\ Consistent(db)
  <2> HIDE DEF head, req
  <2>1. IsTables(Tables) /\ Consistent(Tables) /\ rate \in Nat \ {0}
    BY TablesOfState, RateType
  <2>2. QED
    BY <1>3, <1>4, <2>1, PostPreserves
<1>6. id \in DOMAIN db.entries
  <2>1. db.entries = Append(entries, [period |-> p, status |-> "posted",
                              type |-> head.type, reverses |-> head.reverses,
                              currency |-> head.currency])
    BY DEF PostTo, Tables
  <2> HIDE DEF db, head
  <2>2. QED
    BY <1>1, <2>1
<1>7. Reversed(id, p, rate) = VoidIn(db, id)
  BY DEF Reversed
<1> HIDE DEF db
<1>8. QED
  BY <1>5, <1>6, <1>7, VoidPreserves

LEMMA TypedInit == Init => TypedAndConsistent
<1> SUFFICES ASSUME Init PROVE TypedAndConsistent
  OBVIOUS
<1>1. period \in [Periods -> [status : Status, current : BOOLEAN]]
  BY DEF Init, Status
<1>2. QED
  BY <1>1 DEF Init, TypedAndConsistent, TypeOK, BalancesMatchLedger, RowMatches, PostedLines

\* Carrying the balances forward: a new opening row has no lines, because the
\* row it would replace did not exist.
LEMMA CloseTyped ==
  ASSUME TypedAndConsistent, NEW p \in Periods, ClosePeriod(p)
  PROVE  TypedAndConsistent'
<1>1. TypeOK /\ BalancesMatchLedger
  BY DEF TypedAndConsistent
<1>2. period' \in [Periods -> [status : Status, current : BOOLEAN]]
  BY <1>1 DEF TypeOK, ClosePeriod, Status
<1>3. CASE UNCHANGED balances
  BY <1>1, <1>2, <1>3 DEF ClosePeriod, TypedAndConsistent, TypeOK, BalancesMatchLedger
<1>4. ASSUME NEW q \in NextPeriods(p), balances' = CarriedInto(balances, p, q)
      PROVE  TypedAndConsistent'
  <2>1. q \in Periods /\ \A a \in Carried(p) : balances[q][a] = NoRow
    BY DEF ClosePeriod, NextPeriods, OpeningRowsFree
  <2>2. \A r \in Periods, a \in Accounts :
          balances'[r][a] = IF r = q /\ a \in Carried(p)
                            THEN Row(a, balances[p][a].closing, 0, 0, 0)
                            ELSE balances[r][a]
    BY <1>1, <1>4, <2>1 DEF CarriedInto, TypeOK
  <2>3. DOMAIN balances' = Periods /\ \A r \in Periods : DOMAIN balances'[r] = Accounts
    BY <1>1, <1>4, <2>1 DEF CarriedInto, TypeOK
  <2>4. \A a, x : /\ DOMAIN Row(a, x, 0, 0, 0) = RowColumns
                  /\ Row(a, x, 0, 0, 0).row = TRUE
                  /\ Row(a, x, 0, 0, 0).opening = x
                  /\ Row(a, x, 0, 0, 0) # NoRow
    BY DEF Row, RowColumns, NoRow
  <2>5. TypeOK'
    BY <1>1, <1>2, <2>2, <2>3, <2>4 DEF TypeOK, ClosePeriod
  <2>6. ASSUME NEW r \in Periods, NEW a \in Accounts
        PROVE  RowMatches(entries, lines, balances'[r][a], r, a)
    <3>1. RowMatches(entries, lines, balances[r][a], r, a)
      BY <1>1 DEF BalancesMatchLedger
    <3>2. CASE r = q /\ a \in Carried(p)
      <4> DEFINE new == Row(a, balances[p][a].closing, 0, 0, 0)
      <4>1. PostedLines(entries, lines, r, a) = {}
        BY <2>1, <3>1, <3>2 DEF RowMatches
      <4>2. /\ \A side : OnSide({}, side) = {}
            /\ TotalCzk({}) = 0
            /\ Cardinality({}) = 0
        BY FS_EmptySet DEF OnSide, TotalCzk
      <4>3. balances'[r][a] = new /\ new # NoRow /\ new = Row(a, new.opening, 0, 0, 0)
        BY <2>2, <2>4, <3>2
      <4> HIDE DEF new
      <4>4. QED
        BY <4>1, <4>2, <4>3 DEF RowMatches
    <3>3. CASE ~(r = q /\ a \in Carried(p))
      BY <2>2, <3>1, <3>3
    <3>4. QED
      BY <3>2, <3>3
  <2>7. BalancesMatchLedger'
    BY <2>6 DEF BalancesMatchLedger, ClosePeriod
  <2>8. QED
    BY <2>5, <2>7 DEF TypedAndConsistent
<1>5. QED
  BY <1>3, <1>4 DEF ClosePeriod

LEMMA TypedStep == TypedAndConsistent /\ [Next]_vars => TypedAndConsistent'
<1> SUFFICES ASSUME TypedAndConsistent, [Next]_vars PROVE TypedAndConsistent'
  OBVIOUS
<1>1. TypeOK /\ IsTables(Tables) /\ Consistent(Tables)
  BY TablesOfState DEF TypedAndConsistent
<1>2. ASSUME NEW req \in Requests, NEW p \in Periods, NEW currency \in {"CZK", "FX"},
             NEW rate \in RatesFor(currency), PostJournalEntry(req, p, currency, rate)
      PROVE  TypedAndConsistent'
  <2> DEFINE head == [type |-> "STANDARD", reverses |-> NoEntry, currency |-> currency]
             db == PostTo(Tables, req, p, rate, head)
  <2>1. IsHead(head)
    BY DEF IsHead, NoEntry
  <2>2. Commit(db) /\ UNCHANGED period
    BY <1>2 DEF PostJournalEntry
  <2> HIDE DEF head
  <2>3. IsTables(db) /\ Consistent(db)
    BY <1>1, <2>1, PostPreserves, RequestType, RateType
  <2> HIDE DEF db
  <2>4. QED
    BY <1>1, <2>2, <2>3, CommitTyped
<1>3. ASSUME NEW id \in DOMAIN entries, NEW p \in Periods,
             NEW rate \in RatesFor(entries[id].currency),
             ReverseJournalEntry(id, p, rate)
      PROVE  TypedAndConsistent'
  BY <1>1, <1>3, ReversedPreserves, CommitTyped DEF ReverseJournalEntry
<1>4. ASSUME NEW id \in DOMAIN entries, NEW p \in Periods,
             NEW rate \in RatesFor(entries[id].currency), NEW req \in Corrections,
             ReverseAndCorrect(id, p, rate, req)
      PROVE  TypedAndConsistent'
  <2> DEFINE head == [type |-> "CORRECTION", reverses |-> NoEntry,
                      currency |-> entries[id].currency]
             db == PostTo(Reversed(id, p, rate), req, p, rate, head)
  <2>1. entries \in Seq(Entry)
    BY <1>1 DEF TypeOK
  <2>2. entries[id] \in Entry
    BY <2>1
  <2>3. IsHead(head)
    BY <2>2 DEF IsHead, NoEntry, Entry
  <2>4. Commit(db) /\ UNCHANGED period /\ CanReverse(id, p, rate)
    BY <1>4 DEF ReverseAndCorrect
  <2>5. IsTables(Reversed(id, p, rate)) /\ Consistent(Reversed(id, p, rate))
    BY <2>4, ReversedPreserves
  <2> HIDE DEF head
  <2>6. IsTables(db) /\ Consistent(db)
    BY <2>3, <2>5, PostPreserves, RequestType, RateType
  <2> HIDE DEF db
  <2>7. QED
    BY <1>1, <2>4, <2>6, CommitTyped
<1>5. ASSUME NEW p \in Periods, SeedPeriod(p) \/ OpenPeriod(p) \/ LockPeriod(p)
      PROVE  TypedAndConsistent'
  <2>1. period' \in [Periods -> [status : Status, current : BOOLEAN]]
    <3>1. period \in [Periods -> [status : Status, current : BOOLEAN]]
      BY <1>1 DEF TypeOK
    <3>2. CASE SeedPeriod(p) \/ OpenPeriod(p)
      <4>1. period' = [period EXCEPT ![p] = [status |-> "open", current |-> TRUE]]
        BY <3>2 DEF SeedPeriod, OpenPeriod
      <4>2. [status |-> "open", current |-> TRUE] \in [status : Status, current : BOOLEAN]
        BY DEF Status
      <4>3. QED
        BY <3>1, <4>1, <4>2
    <3>3. CASE LockPeriod(p)
      <4>1. period' = [period EXCEPT ![p] = [@ EXCEPT !.status = "locked"]]
        BY <3>3 DEF LockPeriod
      <4>2. [period[p] EXCEPT !.status = "locked"] \in [status : Status, current : BOOLEAN]
        BY <3>1 DEF Status
      <4>3. QED
        BY <3>1, <4>1, <4>2
    <3>4. QED
      BY <1>5, <3>2, <3>3
  <2>2. UNCHANGED <<entries, lines, balances>>
    BY <1>5 DEF SeedPeriod, OpenPeriod, LockPeriod
  <2>3. QED
    BY <1>1, <2>1, <2>2 DEF TypedAndConsistent, TypeOK, BalancesMatchLedger
<1>6. CASE UNCHANGED vars
  BY <1>6 DEF vars, TypedAndConsistent, TypeOK, BalancesMatchLedger
<1>7. QED
  BY <1>2, <1>3, <1>4, <1>5, <1>6, CloseTyped
  DEF Next, PostingRequest, ReversalRequest, PeriodRequest

\* Every table of every reachable state has rows of its own columns, for any
\* periods, accounts, requests and rates.
THEOREM TypeCorrect == Spec => []TypeOK
<1>1. TypedAndConsistent => TypeOK
  BY DEF TypedAndConsistent
<1>2. QED
  BY <1>1, TypedInit, TypedStep, PTL DEF Spec

\* The pre-computed balances of models/account_balance.py equal the totals of
\* the posted lines after any sequence of requests, with any constants.
THEOREM BalancesCorrect == Spec => []BalancesMatchLedger
<1>1. TypedAndConsistent => BalancesMatchLedger
  BY DEF TypedAndConsistent
<1>2. QED
  BY <1>1, TypedInit, TypedStep, PTL DEF Spec

-----------------------------------------------------------------------------
(* What a step keeps of the books. *)

EntriesExtend(old, new, p) ==
  /\ \A e \in DOMAIN old.entries :
       /\ e \in DOMAIN new.entries
       /\ new.entries[e] \in {old.entries[e], [old.entries[e] EXCEPT !.status = "voided"]}
  /\ \A e \in DOMAIN new.entries \ DOMAIN old.entries : new.entries[e].period = p

LinesExtend(old, new) ==
  \A l \in old.lines \cup new.lines :
    l.entry \in DOMAIN old.entries => (l \in old.lines <=> l \in new.lines)

OpeningsExtend(old, new) ==
  \A q \in Periods, a \in Accounts :
    old.balances[q][a] # NoRow =>
      /\ new.balances[q][a] # NoRow
      /\ new.balances[q][a].opening = old.balances[q][a].opening

\* The tables `new` keep the history of `old`; what they add is of period p.
Extends(old, new, p) ==
  EntriesExtend(old, new, p) /\ LinesExtend(old, new) /\ OpeningsExtend(old, new)

-----------------------------------------------------------------------------
LEMMA ExtendsTransitive ==
  ASSUME NEW a, NEW b, NEW c, NEW p, Extends(a, b, p), Extends(b, c, p),
         a.entries \in Seq(Entry), b.entries \in Seq(Entry)
  PROVE  Extends(a, c, p)
<1>1. EntriesExtend(a, c, p)
  <2>1. ASSUME NEW e \in DOMAIN a.entries
        PROVE  /\ e \in DOMAIN c.entries
               /\ c.entries[e] \in {a.entries[e], [a.entries[e] EXCEPT !.status = "voided"]}
    <3>1. a.entries[e] \in Entry
      BY <2>1
    <3>2. /\ e \in DOMAIN b.entries /\ e \in DOMAIN c.entries
          /\ b.entries[e] \in {a.entries[e], [a.entries[e] EXCEPT !.status = "voided"]}
          /\ c.entries[e] \in {b.entries[e], [b.entries[e] EXCEPT !.status = "voided"]}
      BY <2>1 DEF Extends, EntriesExtend
    <3>3. QED
      BY <3>1, <3>2 DEF Entry
  <2>2. ASSUME NEW e \in DOMAIN c.entries, e \notin DOMAIN a.entries
        PROVE  c.entries[e].period = p
    <3>1. CASE e \notin DOMAIN b.entries
      BY <2>2, <3>1 DEF Extends, EntriesExtend
    <3>2. CASE e \in DOMAIN b.entries
      <4>1. b.entries[e].period = p
        BY <2>2, <3>2 DEF Extends, EntriesExtend
      <4>2. c.entries[e] \in {b.entries[e], [b.entries[e] EXCEPT !.status = "voided"]}
        BY <3>2 DEF Extends, EntriesExtend
      <4>3. b.entries[e] \in Entry
        BY <3>2
      <4>4. QED
        BY <4>1, <4>2, <4>3 DEF Entry
    <3>3. QED
      BY <3>1, <3>2
  <2>3. QED
    BY <2>1, <2>2 DEF EntriesExtend
<1>2. LinesExtend(a, c)
  BY DEF Extends, EntriesExtend, LinesExtend
<1>3. OpeningsExtend(a, c)
  BY DEF Extends, OpeningsExtend
<1>4. QED
  BY <1>1, <1>2, <1>3 DEF Extends

\* A recomputation keeps the opening balance of every row it finds.
LEMMA RecomputeKeepsOpenings ==
  ASSUME NEW bal, IsBalances(bal), NEW es, NEW ls, NEW p \in Periods, NEW accts,
         NEW q \in Periods, NEW a \in Accounts, bal[q][a] # NoRow
  PROVE  /\ Recompute(bal, es, ls, p, accts)[q][a] # NoRow
         /\ Recompute(bal, es, ls, p, accts)[q][a].opening = bal[q][a].opening
<1>1. Recompute(bal, es, ls, p, accts)[q][a]
        = IF q = p /\ a \in accts
          THEN RecomputedRow(bal[p][a], es, ls, p, a) ELSE bal[q][a]
  BY RecomputeRows DEF IsBalances
<1>2. /\ RecomputedRow(bal[q][a], es, ls, q, a).opening = bal[q][a].opening
      /\ RecomputedRow(bal[q][a], es, ls, q, a) # NoRow
  BY DEF RecomputedRow, Row, NoRow
<1>3. QED
  BY <1>1, <1>2

LEMMA PostExtends ==
  ASSUME NEW db, IsTables(db), NEW req, IsLineList(req), NEW p \in Periods,
         NEW rate \in Nat \ {0}, NEW head
  PROVE  Extends(db, PostTo(db, req, p, rate, head), p)
<1> DEFINE id == Len(db.entries) + 1
           e == [period |-> p, status |-> "posted", type |-> head.type,
                 reverses |-> head.reverses, currency |-> head.currency]
           es == Append(db.entries, e)
           ls == db.lines \cup LineRows(id, req, rate)
           bal == Recompute(db.balances, es, ls, p, AccountsOf(req))
           new == [entries |-> es, lines |-> ls, balances |-> bal]
<1>1. PostTo(db, req, p, rate, head) = new
  BY DEF PostTo
<1>2. db.entries \in Seq(Entry) /\ id \in Nat \ {0}
  BY DEF IsTables
<1>3. /\ DOMAIN db.entries = 1 .. id - 1 /\ DOMAIN es = 1 .. id
      /\ es[id].period = p /\ \A i \in 1 .. id - 1 : es[i] = db.entries[i]
  BY <1>2
<1>4. EntriesExtend(db, new, p)
  <2> HIDE DEF es, ls, bal
  <2>1. \A i \in DOMAIN es \ DOMAIN db.entries : i = id
    BY <1>2, <1>3
  <2>2. QED
    BY <1>2, <1>3, <2>1 DEF EntriesExtend
<1>5. LinesExtend(db, new)
  <2>1. \A l \in LineRows(id, req, rate) : l.entry = id
    BY <1>2, LineRowsType
  <2>2. id \notin DOMAIN db.entries
    BY <1>2, <1>3
  <2> HIDE DEF es, bal, id
  <2>3. QED
    BY <2>1, <2>2 DEF LinesExtend
<1>6. OpeningsExtend(db, new)
  <2>1. IsBalances(db.balances)
    BY DEF IsTables
  <2> HIDE DEF es, ls
  <2>2. QED
    BY <2>1, RecomputeKeepsOpenings DEF OpeningsExtend
<1> HIDE DEF new
<1>7. QED
  BY <1>1, <1>4, <1>5, <1>6 DEF Extends

LEMMA VoidExtends ==
  ASSUME NEW db, IsTables(db), NEW id \in DOMAIN db.entries, NEW p
  PROVE  Extends(db, VoidIn(db, id), p)
<1> DEFINE es == [db.entries EXCEPT ![id].status = "voided"]
           q == db.entries[id].period
           bal == Recompute(db.balances, es, db.lines, q, AccountsOfEntry(db.lines, id))
           new == [entries |-> es, lines |-> db.lines, balances |-> bal]
<1>1. VoidIn(db, id) = new
  BY DEF VoidIn
<1>2. db.entries \in Seq(Entry)
  BY DEF IsTables
<1>3. q \in Periods
  <2>1. db.entries[id] \in Entry
    BY <1>2
  <2>2. QED
    BY <2>1 DEF Entry
<1>4. EntriesExtend(db, new, p)
  <2>1. DOMAIN es = DOMAIN db.entries
    BY <1>2
  <2>2. \A e \in DOMAIN db.entries :
          es[e] \in {db.entries[e], [db.entries[e] EXCEPT !.status = "voided"]}
    BY <1>2
  <2> HIDE DEF es, bal
  <2>3. QED
    BY <2>1, <2>2 DEF EntriesExtend
<1>5. LinesExtend(db, new)
  BY DEF LinesExtend
<1>6. OpeningsExtend(db, new)
  <2>1. IsBalances(db.balances)
    BY DEF IsTables
  <2> HIDE DEF es, q
  <2>2. QED
    BY <1>3, <2>1, RecomputeKeepsOpenings DEF OpeningsExtend
<1> HIDE DEF new
<1>7. QED
  BY <1>1, <1>4, <1>5, <1>6 DEF Extends

-----------------------------------------------------------------------------
\* The tables a reversal leaves extend those it found, all in its own period.
LEMMA ReversedExtends ==
  ASSUME TypedAndConsistent, NEW id \in DOMAIN entries, NEW p \in Periods,
         NEW rate \in RatesFor(entries[id].currency), CanReverse(id, p, rate)
  PROVE  Extends(Tables, Reversed(id, p, rate), p)
<1> DEFINE head == [type |-> "REVERSAL", reverses |-> id, currency |-> entries[id].currency]
           req == MirrorOf(lines, id)
           db == PostTo(Tables, req, p, rate, head)
<1>1. entries \in Seq(Entry) /\ lines \subseteq Line
  BY DEF TypedAndConsistent, TypeOK
<1>2. entries[id] \in Entry /\ id \in Nat
  BY <1>1
<1>3. IsHead(head)
  BY <1>2 DEF IsHead, Entry
<1>4. IsLineList(req)
  BY <1>1, MirrorType DEF CanReverse
<1>5. IsTables(Tables) /\ Consistent(Tables) /\ rate \in Nat \ {0}
  BY TablesOfState, RateType
<1>6. Extends(Tables, db, p) /\ IsTables(db)
  <2> HIDE DEF head, req
  <2>1. QED
    BY <1>3, <1>4, <1>5, PostPreserves, PostExtends
<1>7. id \in DOMAIN db.entries
  BY <1>6 DEF Extends, EntriesExtend, Tables
<1>8. Extends(db, VoidIn(db, id), p)
  <2> HIDE DEF db
  <2>1. QED
    BY <1>6, <1>7, VoidExtends
<1>9. Reversed(id, p, rate) = VoidIn(db, id)
  BY DEF Reversed
<1>10. Tables.entries \in Seq(Entry) /\ db.entries \in Seq(Entry)
  BY <1>5, <1>6 DEF IsTables
<1> HIDE DEF db
<1>11. QED
  BY <1>6, <1>8, <1>9, <1>10, ExtendsTransitive

\* What a step may do to the history: entries and lines that exist keep their
\* columns, new entries are posted in open periods, openings stay.
HistoryKept ==
  /\ \A e \in DOMAIN entries :
       /\ e \in DOMAIN entries'
       /\ entries'[e] \in {entries[e], [entries[e] EXCEPT !.status = "voided"]}
  /\ \A l \in lines \cup lines' :
       l.entry \in DOMAIN entries => (l \in lines <=> l \in lines')
  /\ \A e \in DOMAIN entries' \ DOMAIN entries :
       period[entries'[e].period].status = "open"
  /\ \A p \in Periods, a \in Accounts :
       balances[p][a] # NoRow =>
         balances'[p][a] # NoRow /\ balances'[p][a].opening = balances[p][a].opening

LEMMA CommitKeepsHistory ==
  ASSUME NEW db, NEW p, Extends(Tables, db, p), Commit(db), period[p].status = "open"
  PROVE  HistoryKept
BY DEF Extends, EntriesExtend, LinesExtend, OpeningsExtend, Commit, Tables, HistoryKept

\* Closing only adds opening rows where the next period has none.
LEMMA CloseKeepsHistory ==
  ASSUME NEW p \in Periods, ClosePeriod(p), TypeOK
  PROVE  HistoryKept
<1>1. UNCHANGED <<entries, lines>>
  BY DEF ClosePeriod
<1>2. ASSUME NEW q \in Periods, NEW a \in Accounts, balances[q][a] # NoRow
      PROVE  balances'[q][a] = balances[q][a]
  <2>1. CASE UNCHANGED balances
    BY <2>1
  <2>2. ASSUME NEW n \in NextPeriods(p), balances' = CarriedInto(balances, p, n)
        PROVE  balances'[q][a] = balances[q][a]
    <3>1. n \in Periods /\ \A b \in Carried(p) : balances[n][b] = NoRow
      BY DEF ClosePeriod, OpeningRowsFree, NextPeriods
    <3>2. DOMAIN balances = Periods
      BY DEF TypeOK
    <3>3. balances'[q][a] = IF q = n /\ a \in Carried(p)
                            THEN Row(a, balances[p][a].closing, 0, 0, 0)
                            ELSE balances[q][a]
      BY <2>2, <3>1, <3>2 DEF CarriedInto
    <3>4. QED
      BY <1>2, <3>1, <3>3
  <2>3. QED
    BY <2>1, <2>2 DEF ClosePeriod
<1>3. QED
  BY <1>1, <1>2 DEF HistoryKept

LEMMA StepKeepsHistory == TypedAndConsistent /\ [Next]_vars => HistoryKept
<1> SUFFICES ASSUME TypedAndConsistent, [Next]_vars PROVE HistoryKept
  OBVIOUS
<1>1. TypeOK /\ IsTables(Tables) /\ Consistent(Tables)
  BY TablesOfState DEF TypedAndConsistent
<1>2. ASSUME NEW req \in Requests, NEW p \in Periods, NEW currency \in {"CZK", "FX"},
             NEW rate \in RatesFor(currency), PostJournalEntry(req, p, currency, rate)
      PROVE  HistoryKept
  <2> DEFINE db == PostTo(Tables, req, p, rate,
                 [type |-> "STANDARD", reverses |-> NoEntry, currency |-> currency])
  <2>1. Commit(db) /\ period[p].status = "open"
    BY <1>2 DEF PostJournalEntry
  <2>2. Extends(Tables, db, p)
    BY <1>1, PostExtends, RequestType, RateType
  <2> HIDE DEF db
  <2>3. QED
    BY <2>1, <2>2, CommitKeepsHistory
<1>3. ASSUME NEW id \in DOMAIN entries, NEW p \in Periods,
             NEW rate \in RatesFor(entries[id].currency),
             ReverseJournalEntry(id, p, rate)
      PROVE  HistoryKept
  <2>1. CanReverse(id, p, rate) /\ Commit(Reversed(id, p, rate)) /\ period[p].status = "open"
    BY <1>3 DEF ReverseJournalEntry, CanReverse
  <2>2. QED
    BY <2>1, ReversedExtends, CommitKeepsHistory
<1>4. ASSUME NEW id \in DOMAIN entries, NEW p \in Periods,
             NEW rate \in RatesFor(entries[id].currency), NEW req \in Corrections,
             ReverseAndCorrect(id, p, rate, req)
      PROVE  HistoryKept
  <2> DEFINE head == [type |-> "CORRECTION", reverses |-> NoEntry,
                      currency |-> entries[id].currency]
             mid == Reversed(id, p, rate)
             db == PostTo(mid, req, p, rate, head)
  <2>1. CanReverse(id, p, rate) /\ Commit(db) /\ period[p].status = "open"
    BY <1>4 DEF ReverseAndCorrect, CanReverse
  <2>2. Extends(Tables, mid, p) /\ IsTables(mid) /\ Consistent(mid)
    BY <2>1, ReversedExtends, ReversedPreserves
  <2> HIDE DEF mid, head
  <2>3. Extends(mid, db, p)
    BY <2>2, PostExtends, RequestType, RateType
  <2>4. Tables.entries \in Seq(Entry) /\ mid.entries \in Seq(Entry)
    BY <1>1, <2>2 DEF IsTables
  <2> HIDE DEF db
  <2>5. QED
    BY <2>1, <2>2, <2>3, <2>4, ExtendsTransitive, CommitKeepsHistory
<1>5. ASSUME NEW p \in Periods, SeedPeriod(p) \/ OpenPeriod(p) \/ LockPeriod(p)
      PROVE  HistoryKept
  BY <1>5 DEF SeedPeriod, OpenPeriod, LockPeriod, HistoryKept
<1>6. CASE UNCHANGED vars
  BY <1>6 DEF vars, HistoryKept
<1>7. QED
  BY <1>1, <1>2, <1>3, <1>4, <1>5, <1>6, CloseKeepsHistory
  DEF Next, PostingRequest, ReversalRequest, PeriodRequest

LEMMA TypedAlways == Spec => []TypedAndConsistent
BY TypedInit, TypedStep, PTL DEF Spec

\* Entries are never changed or removed, but for the status of one that is
\* reversed, and their lines never: what the immutability triggers demand.
THEOREM EntriesImmutable == Spec => PostedEntriesImmutable
<1>1. TypedAndConsistent /\ [Next]_vars =>
        [/\ \A e \in DOMAIN entries :
              /\ e \in DOMAIN entries'
              /\ entries'[e] \in {entries[e], [entries[e] EXCEPT !.status = "voided"]}
         /\ \A l \in lines \cup lines' :
              l.entry \in DOMAIN entries => (l \in lines <=> l \in lines')]_vars
  BY StepKeepsHistory DEF HistoryKept
<1>2. QED
  BY <1>1, TypedAlways, PTL DEF Spec, PostedEntriesImmutable

\* Every request that adds an entry adds it to a period that is open.
THEOREM PostedWhileOpen == Spec => NewEntriesInOpenPeriods
<1>1. TypedAndConsistent /\ [Next]_vars =>
        [\A e \in DOMAIN entries' \ DOMAIN entries :
           period[entries'[e].period].status = "open"]_vars
  BY StepKeepsHistory DEF HistoryKept
<1>2. QED
  BY <1>1, TypedAlways, PTL DEF Spec, NewEntriesInOpenPeriods

\* No request, and no closing of another period, changes an opening balance.
THEOREM OpeningsStay == Spec => OpeningsWrittenOnce
<1>1. TypedAndConsistent /\ [Next]_vars =>
        [\A p \in Periods, a \in Accounts :
           balances[p][a] # NoRow =>
             balances'[p][a] # NoRow /\ balances'[p][a].opening = balances[p][a].opening]_vars
  BY StepKeepsHistory DEF HistoryKept
<1>2. QED
  BY <1>1, TypedAlways, PTL DEF Spec, OpeningsWrittenOnce

-----------------------------------------------------------------------------
(* Reversals.  An inductive form of VoidedExactlyByReversal, stated of a    *)
(* sequence of entries: a reversal comes after what it reverses.            *)

ReversalsInOrder(es) ==
  \A r \in DOMAIN es :
    /\ es[r].reverses < r
    /\ es[r].reverses # NoEntry => es[r].type = "REVERSAL"

VoidsPaired(es) ==
  /\ \A e \in DOMAIN es :
       (es[e].status = "voided") <=> (\E r \in DOMAIN es : es[r].reverses = e)
  /\ \A r, s \in DOMAIN es :
       es[r].reverses = es[s].reverses /\ es[r].reverses # NoEntry => r = s

Chained(es) == ReversalsInOrder(es) /\ VoidsPaired(es)

\* Appending an entry that reverses nothing.
LEMMA AppendChained ==
  ASSUME NEW es \in Seq(Entry), Chained(es), NEW x \in Entry,
         x.status = "posted", x.reverses = NoEntry
  PROVE  Chained(Append(es, x))
<1> DEFINE n == Len(es) + 1
           new == Append(es, x)
<1>1. /\ DOMAIN new = 1 .. n /\ DOMAIN es = 1 .. n - 1 /\ n \in Nat \ {0}
      /\ new[n] = x /\ \A i \in 1 .. n - 1 : new[i] = es[i] /\ es[i] \in Entry
  OBVIOUS
<1> HIDE DEF new, n
<1>2. ReversalsInOrder(new)
  BY <1>1 DEF Chained, ReversalsInOrder, NoEntry, Entry
<1>3. \A r \in DOMAIN new : new[r].reverses # n
  BY <1>1 DEF Chained, ReversalsInOrder, NoEntry, Entry
<1>4. ASSUME NEW e \in DOMAIN new
      PROVE  (new[e].status = "voided") <=> (\E r \in DOMAIN new : new[r].reverses = e)
  <2>1. CASE e = n
    BY <1>1, <1>3, <2>1
  <2>2. CASE e \in 1 .. n - 1
    <3>1. e # NoEntry /\ new[e] = es[e]
      BY <1>1, <2>2 DEF NoEntry
    <3>2. (\E r \in DOMAIN new : new[r].reverses = e) <=> (\E r \in DOMAIN es : es[r].reverses = e)
      BY <1>1, <3>1
    <3>3. QED
      BY <1>1, <2>2, <3>1, <3>2 DEF Chained, VoidsPaired
  <2>3. QED
    BY <1>1, <2>1, <2>2
<1>5. ASSUME NEW r \in DOMAIN new, NEW s \in DOMAIN new,
             new[r].reverses = new[s].reverses, new[r].reverses # NoEntry
      PROVE  r = s
  <2>1. r \in DOMAIN es /\ s \in DOMAIN es
    BY <1>1, <1>5
  <2>2. QED
    BY <1>1, <1>5, <2>1 DEF Chained, VoidsPaired
<1>6. QED
  BY <1>2, <1>4, <1>5 DEF Chained, VoidsPaired, new

\* Appending the reversal of a posted entry and voiding that entry.
LEMMA ReverseChained ==
  ASSUME NEW es \in Seq(Entry), Chained(es), NEW id \in DOMAIN es,
         es[id].status = "posted", NEW x \in Entry, x.status = "posted",
         x.type = "REVERSAL", x.reverses = id
  PROVE  Chained([Append(es, x) EXCEPT ![id].status = "voided"])
<1> DEFINE n == Len(es) + 1
           app == Append(es, x)
           new == [app EXCEPT ![id].status = "voided"]
<1>1. /\ DOMAIN es = 1 .. n - 1 /\ n \in Nat \ {0}
      /\ \A i \in 1 .. n - 1 : app[i] = es[i] /\ es[i] \in Entry
      /\ DOMAIN app = 1 .. n /\ app[n] = x
  OBVIOUS
<1> HIDE DEF app, n
<1>2. /\ DOMAIN new = 1 .. n
      /\ new[id] = [es[id] EXCEPT !.status = "voided"]
      /\ \A i \in 1 .. n : i # id => new[i] = app[i]
  <2>1. id \in 1 .. n - 1 /\ id \in DOMAIN app /\ app[id] = es[id]
    BY <1>1
  <2>2. QED
    BY <1>1, <2>1
<1> HIDE DEF new
<1>3. new[n] = x /\ n # id
  BY <1>1, <1>2
<1>4. /\ new[id].status = "voided" /\ new[id].reverses = es[id].reverses
      /\ new[id].type = es[id].type
  BY <1>1, <1>2 DEF Entry
<1>5. \A i \in 1 .. n - 1 : new[i].reverses = es[i].reverses /\ new[i].type = es[i].type
  <2> SUFFICES ASSUME NEW i \in 1 .. n - 1
               PROVE  new[i].reverses = es[i].reverses /\ new[i].type = es[i].type
    OBVIOUS
  <2>1. CASE i = id
    BY <1>4, <2>1
  <2>2. CASE i # id
    <3>1. i \in 1 .. n /\ app[i] = es[i]
      BY <1>1
    <3>2. QED
      BY <1>2, <2>2, <3>1
  <2>3. QED
    BY <2>1, <2>2
<1>6. \A i \in 1 .. n - 1 : i # id => new[i].status = es[i].status
  BY <1>1, <1>2
<1>7. ReversalsInOrder(new)
  BY <1>1, <1>2, <1>3, <1>5 DEF Chained, ReversalsInOrder
<1>8. \A r \in 1 .. n - 1 : es[r].reverses # n /\ es[r].reverses # id
  <2> SUFFICES ASSUME NEW r \in 1 .. n - 1
               PROVE  es[r].reverses # n /\ es[r].reverses # id
    OBVIOUS
  <2>1. r \in DOMAIN es /\ es[r].reverses < r /\ r < n /\ es[r].reverses \in Nat
    <3>1. r \in DOMAIN es /\ r < n /\ es[r] \in Entry
      BY <1>1
    <3>2. es[r].reverses < r
      BY <3>1 DEF Chained, ReversalsInOrder
    <3>3. es[r].reverses \in Nat
      BY <3>1 DEF Entry
    <3>4. QED
      BY <3>1, <3>2, <3>3
  <2>2. es[r].reverses # id
    <3>1. (es[id].status = "voided") <=> (\E k \in DOMAIN es : es[k].reverses = id)
      BY DEF Chained, VoidsPaired
    <3>2. QED
      BY <2>1, <3>1
  <2>3. QED
    BY <1>1, <2>1, <2>2
<1>9. ASSUME NEW e \in DOMAIN new
      PROVE  (new[e].status = "voided") <=> (\E r \in DOMAIN new : new[r].reverses = e)
  <2>1. CASE e = id
    <3>1. n \in DOMAIN new /\ new[n].reverses = id
      BY <1>1, <1>2, <1>3
    <3>2. QED
      BY <1>4, <2>1, <3>1
  <2>2. CASE e = n
    BY <1>1, <1>2, <1>3, <1>5, <1>8, <2>2
  <2>3. CASE e \in 1 .. n - 1 /\ e # id
    <3>1. (\E r \in DOMAIN new : new[r].reverses = e) <=> (\E r \in DOMAIN es : es[r].reverses = e)
      BY <1>1, <1>2, <1>3, <1>5, <2>3
    <3>2. QED
      BY <1>1, <1>6, <2>3, <3>1 DEF Chained, VoidsPaired
  <2>4. QED
    BY <1>1, <1>2, <2>1, <2>2, <2>3
<1>10. ASSUME NEW r \in DOMAIN new, NEW s \in DOMAIN new,
              new[r].reverses = new[s].reverses, new[r].reverses # NoEntry
       PROVE  r = s
  <2>1. CASE r = n \/ s = n
    BY <1>1, <1>2, <1>3, <1>5, <1>8, <1>10, <2>1
  <2>2. CASE r # n /\ s # n
    <3>1. r \in DOMAIN es /\ s \in DOMAIN es
      BY <1>1, <1>2, <2>2
    <3>2. QED
      BY <1>1, <1>5, <1>10, <3>1 DEF Chained, VoidsPaired
  <2>3. QED
    BY <2>1, <2>2
<1>11. QED
  BY <1>7, <1>9, <1>10 DEF Chained, VoidsPaired, new, app

LEMMA ReversedEntries ==
  ASSUME NEW id, NEW p, NEW rate
  PROVE  Reversed(id, p, rate).entries
           = [Append(entries, [period |-> p, status |-> "posted", type |-> "REVERSAL",
                               reverses |-> id, currency |-> entries[id].currency])
                EXCEPT ![id].status = "voided"]
BY DEF Reversed, VoidIn, PostTo, Tables

\* Of the entries of a request, the reversal and its void come together.
LEMMA ReversedChained ==
  ASSUME TypeOK, Chained(entries), NEW id \in DOMAIN entries, NEW p \in Periods,
         entries[id].status = "posted", NEW rate
  PROVE  Chained(Reversed(id, p, rate).entries)
<1> DEFINE x == [period |-> p, status |-> "posted", type |-> "REVERSAL",
                 reverses |-> id, currency |-> entries[id].currency]
<1>1. entries \in Seq(Entry)
  BY DEF TypeOK
<1>2. entries[id] \in Entry /\ id \in Nat
  BY <1>1
<1>3. x \in Entry
  BY <1>2 DEF Entry
<1>4. Chained([Append(entries, x) EXCEPT ![id].status = "voided"])
  <2>1. x.status = "posted" /\ x.type = "REVERSAL" /\ x.reverses = id
    OBVIOUS
  <2> HIDE DEF x
  <2>2. QED
    BY <1>1, <1>3, <2>1, ReverseChained
<1>5. QED
  BY <1>4, ReversedEntries

PostedEntry(p, type, currency) ==
  [period |-> p, status |-> "posted", type |-> type, reverses |-> NoEntry,
   currency |-> currency]

LEMMA StepChained ==
  ASSUME TypedAndConsistent, Chained(entries), [Next]_vars
  PROVE  Chained(entries')
<1>1. TypeOK /\ entries \in Seq(Entry)
  BY DEF TypedAndConsistent, TypeOK
<1>2. ASSUME NEW req \in Requests, NEW p \in Periods, NEW currency \in {"CZK", "FX"},
             NEW rate \in RatesFor(currency), PostJournalEntry(req, p, currency, rate)
      PROVE  Chained(entries')
  <2> DEFINE x == PostedEntry(p, "STANDARD", currency)
  <2>1. entries' = Append(entries, x)
    BY <1>2 DEF PostJournalEntry, Commit, PostTo, Tables, PostedEntry
  <2>2. x \in Entry /\ x.status = "posted" /\ x.reverses = NoEntry
    BY DEF Entry, PostedEntry, NoEntry
  <2> HIDE DEF x
  <2>3. QED
    BY <1>1, <2>1, <2>2, AppendChained
<1>3. ASSUME NEW id \in DOMAIN entries, NEW p \in Periods,
             NEW rate \in RatesFor(entries[id].currency),
             ReverseJournalEntry(id, p, rate)
      PROVE  Chained(entries')
  <2>1. entries' = Reversed(id, p, rate).entries /\ entries[id].status = "posted"
    BY <1>3 DEF ReverseJournalEntry, CanReverse, Commit
  <2>2. QED
    BY <1>1, <2>1, ReversedChained
<1>4. ASSUME NEW id \in DOMAIN entries, NEW p \in Periods,
             NEW rate \in RatesFor(entries[id].currency), NEW req \in Corrections,
             ReverseAndCorrect(id, p, rate, req)
      PROVE  Chained(entries')
  <2> DEFINE x == PostedEntry(p, "CORRECTION", entries[id].currency)
             mid == Reversed(id, p, rate)
  <2>1. entries' = Append(mid.entries, x) /\ CanReverse(id, p, rate)
    BY <1>4 DEF ReverseAndCorrect, Commit, PostTo, PostedEntry
  <2>2. x \in Entry /\ x.status = "posted" /\ x.reverses = NoEntry
    <3>1. entries[id] \in Entry
      BY <1>1
    <3>2. QED
      BY <3>1 DEF Entry, PostedEntry, NoEntry
  <2>3. mid.entries \in Seq(Entry)
    BY <2>1, ReversedPreserves DEF IsTables
  <2>4. Chained(mid.entries)
    BY <1>1, <2>1, ReversedChained DEF CanReverse
  <2> HIDE DEF x, mid
  <2>5. QED
    BY <2>1, <2>2, <2>3, <2>4, AppendChained
<1>5. ASSUME NEW p \in Periods,
             SeedPeriod(p) \/ OpenPeriod(p) \/ ClosePeriod(p) \/ LockPeriod(p)
      PROVE  Chained(entries')
  BY <1>5 DEF SeedPeriod, OpenPeriod, ClosePeriod, LockPeriod
<1>6. CASE UNCHANGED vars
  BY <1>6 DEF vars
<1>7. QED
  BY <1>2, <1>3, <1>4, <1>5, <1>6
  DEF Next, PostingRequest, ReversalRequest, PeriodRequest

\* An entry is voided exactly when one later entry, of type REVERSAL, reverses
\* it: the guard on the status and the transaction around the two writes.
THEOREM VoidedByOneReversal == Spec => []VoidedExactlyByReversal
<1> DEFINE Inv == TypedAndConsistent /\ Chained(entries)
<1>1. Init => Inv
  <2>1. Init => DOMAIN entries = {}
    BY DEF Init
  <2>2. DOMAIN entries = {} => Chained(entries)
    BY DEF Chained, ReversalsInOrder, VoidsPaired
  <2>3. QED
    BY TypedInit, <2>1, <2>2
<1>2. Inv /\ [Next]_vars => Inv'
  BY TypedStep, StepChained
<1>3. Inv => VoidedExactlyByReversal
  <2> SUFFICES ASSUME Inv, NEW e \in DOMAIN entries
               PROVE  LET reversals == {r \in DOMAIN entries : entries[r].reverses = e}
                      IN  /\ \A r \in reversals : r > e /\ entries[r].type = "REVERSAL"
                          /\ \A r, s \in reversals : r = s
                          /\ (entries[e].status = "voided") <=> (reversals # {})
    BY DEF VoidedExactlyByReversal
  <2>1. entries \in Seq(Entry) /\ e # NoEntry
    BY DEF TypedAndConsistent, TypeOK, NoEntry
  <2>2. QED
    BY <2>1 DEF Chained, ReversalsInOrder, VoidsPaired
<1>4. QED
  BY <1>1, <1>2, <1>3, PTL DEF Spec

-----------------------------------------------------------------------------
(* Fiscal periods. *)

Shut(p) == period[p].status \in {"closed", "locked"}

\* The row of (q, a) is the same in two sets of tables.
SameRow(old, new, q, a) == new.balances[q][a] = old.balances[q][a]

LEMMA PostWritesOwnPeriod ==
  ASSUME NEW db, IsTables(db), NEW req, NEW p \in Periods, NEW rate, NEW head,
         NEW q \in Periods, q # p, NEW a \in Accounts
  PROVE  SameRow(db, PostTo(db, req, p, rate, head), q, a)
<1>1. DOMAIN db.balances = Periods
  BY DEF IsTables, IsBalances
<1>2. QED
  BY <1>1, RecomputeRows DEF PostTo, SameRow

LEMMA VoidWritesOwnEntry ==
  ASSUME NEW db, IsTables(db), NEW id \in DOMAIN db.entries,
         NEW q \in Periods, NEW a \in Accounts,
         ~SameRow(db, VoidIn(db, id), q, a)
  PROVE  db.entries[id].period = q /\ a \in AccountsOfEntry(db.lines, id)
<1>1. DOMAIN db.balances = Periods /\ db.entries \in Seq(Entry)
  BY DEF IsTables, IsBalances
<1>2. db.entries[id].period \in Periods
  <2>1. db.entries[id] \in Entry
    BY <1>1
  <2>2. QED
    BY <2>1 DEF Entry
<1>3. QED
  BY <1>1, <1>2, RecomputeRows DEF VoidIn, SameRow

\* A reversal dated in an open period p writes a row of a shut one only if it
\* belongs to the original.
LEMMA ReversedWrites ==
  ASSUME TypedAndConsistent, NEW id \in DOMAIN entries, NEW p \in Periods,
         NEW rate \in RatesFor(entries[id].currency), CanReverse(id, p, rate),
         NEW q \in Periods, q # p, NEW a \in Accounts,
         ~SameRow(Tables, Reversed(id, p, rate), q, a)
  PROVE  entries[id].period = q /\ a \in AccountsOfEntry(lines, id)
<1> DEFINE head == [type |-> "REVERSAL", reverses |-> id, currency |-> entries[id].currency]
           req == MirrorOf(lines, id)
           db == PostTo(Tables, req, p, rate, head)
<1>1. entries \in Seq(Entry) /\ lines \subseteq Line
  BY DEF TypedAndConsistent, TypeOK
<1>2. entries[id] \in Entry /\ id \in Nat
  BY <1>1
<1>3. IsHead(head)
  BY <1>2 DEF IsHead, Entry
<1>4. IsLineList(req)
  BY <1>1, MirrorType DEF CanReverse
<1>5. IsTables(Tables) /\ Consistent(Tables) /\ rate \in Nat \ {0}
  BY TablesOfState, RateType
<1>6. IsTables(db) /\ Extends(Tables, db, p)
  <2> HIDE DEF head, req
  <2>1. QED
    BY <1>3, <1>4, <1>5, PostPreserves, PostExtends
<1>7. SameRow(Tables, db, q, a)
  <2> HIDE DEF head, req
  <2>1. QED
    BY <1>5, PostWritesOwnPeriod
<1>8. Reversed(id, p, rate) = VoidIn(db, id)
  BY DEF Reversed
<1>9. /\ id \in DOMAIN db.entries
      /\ db.entries[id] \in {entries[id], [entries[id] EXCEPT !.status = "voided"]}
      /\ \A l \in lines \cup db.lines : l.entry = id => (l \in lines <=> l \in db.lines)
  BY <1>6 DEF Extends, EntriesExtend, LinesExtend, Tables
<1> HIDE DEF db
<1>10. ~SameRow(db, VoidIn(db, id), q, a)
  BY <1>7, <1>8 DEF SameRow
<1>11. db.entries[id].period = q /\ a \in AccountsOfEntry(db.lines, id)
  BY <1>6, <1>9, <1>10, VoidWritesOwnEntry
<1>12. db.entries[id].period = entries[id].period
  BY <1>2, <1>9 DEF Entry
<1>13. AccountsOfEntry(db.lines, id) = AccountsOfEntry(lines, id)
  BY <1>9 DEF AccountsOfEntry, LinesOf
<1>14. QED
  BY <1>11, <1>12, <1>13

-----------------------------------------------------------------------------
\* What ClosedBalancesChangeOnlyByVoid says of one step.
ShutRowsKept ==
  \A p \in Periods, a \in Accounts :
    period[p].status \in {"closed", "locked"} /\ balances'[p][a] # balances[p][a] =>
      \E e \in DOMAIN entries :
        /\ entries[e].period = p /\ a \in AccountsOfEntry(lines, e)
        /\ entries[e].status = "posted" /\ entries'[e].status = "voided"

\* The original of a reversal is posted before the step and voided after it.
LEMMA OriginalVoided ==
  ASSUME TypedAndConsistent, NEW id \in DOMAIN entries, NEW p \in Periods,
         NEW rate \in RatesFor(entries[id].currency), CanReverse(id, p, rate)
  PROVE  /\ id \in DOMAIN Reversed(id, p, rate).entries
         /\ Reversed(id, p, rate).entries[id].status = "voided"
<1> DEFINE x == [period |-> p, status |-> "posted", type |-> "REVERSAL",
                 reverses |-> id, currency |-> entries[id].currency]
<1>1. entries \in Seq(Entry)
  BY DEF TypedAndConsistent, TypeOK
<1>2. id \in DOMAIN Append(entries, x) /\ Append(entries, x)[id] = entries[id]
  BY <1>1
<1>3. entries[id] \in Entry
  BY <1>1
<1>4. Reversed(id, p, rate).entries = [Append(entries, x) EXCEPT ![id].status = "voided"]
  BY ReversedEntries
<1> HIDE DEF x
<1>5. QED
  BY <1>2, <1>3, <1>4 DEF Entry

LEMMA StepKeepsShutRows == TypedAndConsistent /\ [Next]_vars => ShutRowsKept
<1> SUFFICES ASSUME TypedAndConsistent, [Next]_vars PROVE ShutRowsKept
  OBVIOUS
<1>1. TypeOK /\ IsTables(Tables) /\ Consistent(Tables)
  BY TablesOfState DEF TypedAndConsistent
<1>2. ASSUME NEW req \in Requests, NEW p \in Periods, NEW currency \in {"CZK", "FX"},
             NEW rate \in RatesFor(currency), PostJournalEntry(req, p, currency, rate)
      PROVE  ShutRowsKept
  <2> DEFINE db == PostTo(Tables, req, p, rate,
                 [type |-> "STANDARD", reverses |-> NoEntry, currency |-> currency])
  <2>1. balances' = db.balances /\ period[p].status = "open"
    BY <1>2 DEF PostJournalEntry, Commit
  <2>2. \A q \in Periods, a \in Accounts : q # p => SameRow(Tables, db, q, a)
    BY <1>1, PostWritesOwnPeriod
  <2> HIDE DEF db
  <2>3. QED
    BY <2>1, <2>2 DEF ShutRowsKept, SameRow, Tables
<1>3. ASSUME NEW id \in DOMAIN entries, NEW p \in Periods,
             NEW rate \in RatesFor(entries[id].currency),
             ReverseJournalEntry(id, p, rate)
      PROVE  ShutRowsKept
  <2> DEFINE db == Reversed(id, p, rate)
  <2>1. CanReverse(id, p, rate) /\ period[p].status = "open" /\ entries[id].status = "posted"
        /\ balances' = db.balances /\ entries' = db.entries
    BY <1>3 DEF ReverseJournalEntry, CanReverse, Commit
  <2>2. \A q \in Periods, a \in Accounts :
          q # p /\ ~SameRow(Tables, db, q, a)
            => entries[id].period = q /\ a \in AccountsOfEntry(lines, id)
    BY <2>1, ReversedWrites
  <2>3. db.entries[id].status = "voided"
    BY <2>1, OriginalVoided
  <2> HIDE DEF db
  <2>4. QED
    BY <2>1, <2>2, <2>3 DEF ShutRowsKept, SameRow, Tables
<1>4. ASSUME NEW id \in DOMAIN entries, NEW p \in Periods,
             NEW rate \in RatesFor(entries[id].currency), NEW req \in Corrections,
             ReverseAndCorrect(id, p, rate, req)
      PROVE  ShutRowsKept
  <2> DEFINE head == [type |-> "CORRECTION", reverses |-> NoEntry,
                      currency |-> entries[id].currency]
             mid == Reversed(id, p, rate)
             db == PostTo(mid, req, p, rate, head)
  <2>1. CanReverse(id, p, rate) /\ period[p].status = "open" /\ entries[id].status = "posted"
        /\ balances' = db.balances /\ entries' = db.entries
    BY <1>4 DEF ReverseAndCorrect, CanReverse, Commit
  <2>2. \A q \in Periods, a \in Accounts :
          q # p /\ ~SameRow(Tables, mid, q, a)
            => entries[id].period = q /\ a \in AccountsOfEntry(lines, id)
    BY <2>1, ReversedWrites
  <2>3. id \in DOMAIN mid.entries /\ mid.entries[id].status = "voided"
    BY <2>1, OriginalVoided
  <2>4. IsTables(mid)
    BY <2>1, ReversedPreserves
  <2> HIDE DEF mid, head
  <2>5. \A q \in Periods, a \in Accounts : q # p => SameRow(mid, db, q, a)
    BY <2>4, PostWritesOwnPeriod
  <2>6. db.entries[id].status = "voided"
    <3>1. Extends(mid, db, p)
      BY <2>4, PostExtends, RequestType, RateType
    <3>2. db.entries[id] \in {mid.entries[id], [mid.entries[id] EXCEPT !.status = "voided"]}
      BY <2>3, <3>1 DEF Extends, EntriesExtend
    <3>3. mid.entries[id] \in Entry
      BY <2>3, <2>4 DEF IsTables
    <3>4. QED
      BY <2>3, <3>2, <3>3 DEF Entry
  <2> HIDE DEF db
  <2>7. QED
    BY <2>1, <2>2, <2>5, <2>6 DEF ShutRowsKept, SameRow, Tables
<1>5. ASSUME NEW p \in Periods, ClosePeriod(p)
      PROVE  ShutRowsKept
  <2>1. CASE UNCHANGED balances
    BY <2>1 DEF ShutRowsKept
  <2>2. ASSUME NEW n \in NextPeriods(p), balances' = CarriedInto(balances, p, n)
        PROVE  ShutRowsKept
    <3>1. n \in Periods /\ period[n].status \in {"draft", "open"} /\ DOMAIN balances = Periods
      BY <1>1 DEF NextPeriods, TypeOK
    <3>2. \A q \in Periods, a \in Accounts : q # n => balances'[q][a] = balances[q][a]
      BY <2>2, <3>1 DEF CarriedInto
    <3>3. QED
      BY <3>1, <3>2 DEF ShutRowsKept
  <2>3. QED
    BY <1>5, <2>1, <2>2 DEF ClosePeriod
<1>6. ASSUME NEW p \in Periods, SeedPeriod(p) \/ OpenPeriod(p) \/ LockPeriod(p)
      PROVE  ShutRowsKept
  BY <1>6 DEF SeedPeriod, OpenPeriod, LockPeriod, ShutRowsKept
<1>7. CASE UNCHANGED vars
  BY <1>7 DEF vars, ShutRowsKept
<1>8. QED
  BY <1>2, <1>3, <1>4, <1>5, <1>6, <1>7
  DEF Next, PostingRequest, ReversalRequest, PeriodRequest

\* The balances of a closed or locked period change only where an entry of that
\* period is voided: posting, closing and correcting leave them alone.
THEOREM ShutBalancesStay == Spec => ClosedBalancesChangeOnlyByVoid
<1>1. TypedAndConsistent /\ [Next]_vars =>
        [\A p \in Periods, a \in Accounts :
           period[p].status \in {"closed", "locked"} /\ balances'[p][a] # balances[p][a] =>
             \E e \in DOMAIN entries :
               /\ entries[e].period = p /\ a \in AccountsOfEntry(lines, e)
               /\ entries[e].status = "posted" /\ entries'[e].status = "voided"]_vars
  BY StepKeepsShutRows DEF ShutRowsKept
<1>2. QED
  BY <1>1, TypedAlways, PTL DEF Spec, ClosedBalancesChangeOnlyByVoid

-----------------------------------------------------------------------------
(* Opening balances.  A request that posts or voids creates rows with opening *)
(* balance 0; only a closing writes another, from a row of its own period.    *)

OpeningsFrom(old, new) ==
  \A q \in Periods, a \in Accounts :
    new.balances[q][a] # NoRow /\ new.balances[q][a].opening # 0 =>
      old.balances[q][a] # NoRow /\ old.balances[q][a].opening = new.balances[q][a].opening

LEMMA RecomputeOpenings ==
  ASSUME NEW bal, IsBalances(bal), NEW es, NEW ls, NEW p \in Periods, NEW accts,
         NEW q \in Periods, NEW a \in Accounts,
         Recompute(bal, es, ls, p, accts)[q][a] # NoRow,
         Recompute(bal, es, ls, p, accts)[q][a].opening # 0
  PROVE  /\ bal[q][a] # NoRow
         /\ bal[q][a].opening = Recompute(bal, es, ls, p, accts)[q][a].opening
<1>1. Recompute(bal, es, ls, p, accts)[q][a]
        = IF q = p /\ a \in accts
          THEN RecomputedRow(bal[p][a], es, ls, p, a) ELSE bal[q][a]
  BY RecomputeRows DEF IsBalances
<1>2. RecomputedRow(bal[q][a], es, ls, q, a).opening
        = IF bal[q][a] = NoRow THEN 0 ELSE bal[q][a].opening
  BY DEF RecomputedRow, Row
<1>3. QED
  BY <1>1, <1>2

LEMMA PostOpenings ==
  ASSUME NEW db, IsTables(db), NEW req, NEW p \in Periods, NEW rate, NEW head
  PROVE  OpeningsFrom(db, PostTo(db, req, p, rate, head))
<1>1. IsBalances(db.balances)
  BY DEF IsTables
<1>2. QED
  BY <1>1, RecomputeOpenings DEF PostTo, OpeningsFrom

LEMMA VoidOpenings ==
  ASSUME NEW db, IsTables(db), NEW id \in DOMAIN db.entries
  PROVE  OpeningsFrom(db, VoidIn(db, id))
<1>1. IsBalances(db.balances) /\ db.entries \in Seq(Entry)
  BY DEF IsTables
<1>2. db.entries[id].period \in Periods
  <2>1. db.entries[id] \in Entry
    BY <1>1
  <2>2. QED
    BY <2>1 DEF Entry
<1>3. QED
  BY <1>1, <1>2, RecomputeOpenings DEF VoidIn, OpeningsFrom

LEMMA ReversedOpenings ==
  ASSUME TypedAndConsistent, NEW id \in DOMAIN entries, NEW p \in Periods,
         NEW rate \in RatesFor(entries[id].currency), CanReverse(id, p, rate)
  PROVE  OpeningsFrom(Tables, Reversed(id, p, rate))
<1> DEFINE head == [type |-> "REVERSAL", reverses |-> id, currency |-> entries[id].currency]
           req == MirrorOf(lines, id)
           db == PostTo(Tables, req, p, rate, head)
<1>1. entries \in Seq(Entry) /\ lines \subseteq Line
  BY DEF TypedAndConsistent, TypeOK
<1>2. entries[id] \in Entry /\ id \in Nat
  BY <1>1
<1>3. IsHead(head)
  BY <1>2 DEF IsHead, Entry
<1>4. IsLineList(req)
  BY <1>1, MirrorType DEF CanReverse
<1>5. IsTables(Tables) /\ Consistent(Tables) /\ rate \in Nat \ {0}
  BY TablesOfState, RateType
<1>6. IsTables(db) /\ Extends(Tables, db, p) /\ OpeningsFrom(Tables, db)
  <2> HIDE DEF head, req
  <2>1. QED
    BY <1>3, <1>4, <1>5, PostPreserves, PostExtends, PostOpenings
<1>7. id \in DOMAIN db.entries
  BY <1>6 DEF Extends, EntriesExtend, Tables
<1>8. Reversed(id, p, rate) = VoidIn(db, id)
  BY DEF Reversed
<1> HIDE DEF db
<1>9. OpeningsFrom(db, VoidIn(db, id))
  BY <1>6, <1>7, VoidOpenings
<1>10. QED
  BY <1>6, <1>8, <1>9 DEF OpeningsFrom

\* A step that shuts no period that was shut before open again, and writes no
\* opening balance that was not there, keeps the invariant.
LEMMA KeptOpenings ==
  ASSUME NEW db, OpeningsCarriedFromClosed, OpeningsFrom(Tables, db),
         balances' = db.balances, \A q \in Periods : Shut(q) => Shut(q)'
  PROVE  OpeningsCarriedFromClosed'
BY DEF OpeningsCarriedFromClosed, OpeningsFrom, Tables, Shut

LEMMA StepCarries ==
  ASSUME TypedAndConsistent, OpeningsCarriedFromClosed, [Next]_vars
  PROVE  OpeningsCarriedFromClosed'
<1>1. TypeOK /\ IsTables(Tables) /\ Consistent(Tables)
  BY TablesOfState DEF TypedAndConsistent
<1>2. ASSUME NEW req \in Requests, NEW p \in Periods, NEW currency \in {"CZK", "FX"},
             NEW rate \in RatesFor(currency), PostJournalEntry(req, p, currency, rate)
      PROVE  OpeningsCarriedFromClosed'
  <2> DEFINE db == PostTo(Tables, req, p, rate,
                 [type |-> "STANDARD", reverses |-> NoEntry, currency |-> currency])
  <2>1. balances' = db.balances /\ period' = period
    BY <1>2 DEF PostJournalEntry, Commit
  <2>2. OpeningsFrom(Tables, db)
    BY <1>1, PostOpenings
  <2> HIDE DEF db
  <2>3. QED
    BY <2>1, <2>2, KeptOpenings DEF Shut
<1>3. ASSUME NEW id \in DOMAIN entries, NEW p \in Periods,
             NEW rate \in RatesFor(entries[id].currency),
             ReverseJournalEntry(id, p, rate)
      PROVE  OpeningsCarriedFromClosed'
  <2>1. CanReverse(id, p, rate) /\ period' = period
        /\ balances' = Reversed(id, p, rate).balances
    BY <1>3 DEF ReverseJournalEntry, Commit
  <2>2. QED
    BY <2>1, ReversedOpenings, KeptOpenings DEF Shut
<1>4. ASSUME NEW id \in DOMAIN entries, NEW p \in Periods,
             NEW rate \in RatesFor(entries[id].currency), NEW req \in Corrections,
             ReverseAndCorrect(id, p, rate, req)
      PROVE  OpeningsCarriedFromClosed'
  <2> DEFINE head == [type |-> "CORRECTION", reverses |-> NoEntry,
                      currency |-> entries[id].currency]
             mid == Reversed(id, p, rate)
             db == PostTo(mid, req, p, rate, head)
  <2>1. CanReverse(id, p, rate) /\ period' = period /\ balances' = db.balances
    BY <1>4 DEF ReverseAndCorrect, Commit
  <2>2. IsTables(mid) /\ OpeningsFrom(Tables, mid)
    BY <2>1, ReversedPreserves, ReversedOpenings
  <2> HIDE DEF mid, head
  <2>3. OpeningsFrom(mid, db)
    BY <2>2, PostOpenings
  <2>4. OpeningsFrom(Tables, db)
    BY <2>2, <2>3 DEF OpeningsFrom
  <2> HIDE DEF db
  <2>5. QED
    BY <2>1, <2>4, KeptOpenings DEF Shut
<1>5. ASSUME NEW p \in Periods, ClosePeriod(p)
      PROVE  OpeningsCarriedFromClosed'
  <2>1. /\ \A q \in Periods : Shut(q) => Shut(q)'
        /\ Shut(p)'
    BY <1>1, <1>5 DEF ClosePeriod, Shut, TypeOK
  <2>2. CASE UNCHANGED balances
    BY <2>1, <2>2 DEF OpeningsCarriedFromClosed, Shut
  <2>3. ASSUME NEW n \in NextPeriods(p), balances' = CarriedInto(balances, p, n)
        PROVE  OpeningsCarriedFromClosed'
    <3>1. n \in Periods /\ n > p /\ DOMAIN balances = Periods
      BY <1>1 DEF NextPeriods, TypeOK
    <3>2. ASSUME NEW q \in Periods, NEW a \in Accounts,
                 balances'[q][a] # NoRow, balances'[q][a].opening # 0
          PROVE  a \in BalanceSheet /\ \E r \in Periods : r < q /\ Shut(r)'
      <4>1. balances'[q][a] = IF q = n /\ a \in Carried(p)
                              THEN Row(a, balances[p][a].closing, 0, 0, 0)
                              ELSE balances[q][a]
        BY <2>3, <3>1 DEF CarriedInto
      <4>2. CASE q = n /\ a \in Carried(p)
        <5>1. a \in BalanceSheet
          BY <4>2 DEF Carried
        <5>2. p < q
          BY <3>1, <4>2, ConstantsAssumption
        <5>3. QED
          BY <2>1, <5>1, <5>2
      <4>3. CASE ~(q = n /\ a \in Carried(p))
        BY <2>1, <3>2, <4>1, <4>3 DEF OpeningsCarriedFromClosed, Shut
      <4>4. QED
        BY <4>2, <4>3
    <3>3. QED
      BY <3>2 DEF OpeningsCarriedFromClosed, Shut
  <2>4. QED
    BY <1>5, <2>2, <2>3 DEF ClosePeriod
<1>6. ASSUME NEW p \in Periods, SeedPeriod(p) \/ OpenPeriod(p) \/ LockPeriod(p)
      PROVE  OpeningsCarriedFromClosed'
  <2>1. UNCHANGED balances /\ \A q \in Periods : Shut(q) => Shut(q)'
    BY <1>1, <1>6 DEF SeedPeriod, OpenPeriod, LockPeriod, Shut, TypeOK
  <2>2. QED
    BY <2>1 DEF OpeningsCarriedFromClosed, Shut
<1>7. CASE UNCHANGED vars
  BY <1>7 DEF vars, OpeningsCarriedFromClosed
<1>8. QED
  BY <1>2, <1>3, <1>4, <1>5, <1>6, <1>7
  DEF Next, PostingRequest, ReversalRequest, PeriodRequest

\* An opening balance other than 0 is on a balance-sheet account and comes from
\* the closing of an earlier period, in whatever order periods open and close.
THEOREM OpeningsComeFromClosings == Spec => []OpeningsCarriedFromClosed
<1> DEFINE Inv == TypedAndConsistent /\ OpeningsCarriedFromClosed
<1>1. Init => Inv
  <2>1. Init => OpeningsCarriedFromClosed
    BY DEF Init, OpeningsCarriedFromClosed
  <2>2. QED
    BY TypedInit, <2>1
<1>2. Inv /\ [Next]_vars => Inv'
  BY TypedStep, StepCarries
<1>3. QED
  BY <1>1, <1>2, PTL DEF Spec

-----------------------------------------------------------------------------
(* Sums.  The sums of the model are folds over finite sets; SumOf is such a *)
(* sum with the amounts given as a function, so that lemmas can quantify    *)
(* over them.                                                               *)

Plus(x, v) == x + v
AnyOf(s) == CHOOSE x \in s : TRUE

SumFold == INSTANCE FoldTheorems WITH Op <- Plus, Pick <- AnyOf

\* The sum of f[x] over the elements x of S.
SumOf(f, S) == SumFold!Iterated(0, f, S)[S]

IntValued(f, S) == \A x \in S : f[x] \in Int

\* Finite sets are the same in every module.
LEMMA SumFinite ==
  ASSUME NEW S, IsFiniteSet(S)
  PROVE  SumFold!IsFiniteSet(S)
BY DEF IsFiniteSet, SumFold!IsFiniteSet

\* The fold behind a sum of integers may take its elements in any order.
LEMMA SumRecursion ==
  ASSUME NEW S, IsFiniteSet(S), NEW f, IntValued(f, S)
  PROVE  SumFold!AnyOrder(SumFold!Iterated(0, f, S), 0, f, S, Int)
<1> DEFINE V == Int
<1>1. SumFold!Picks(S)
  BY DEF SumFold!Picks, AnyOf
<1>2. SumFold!Combines(f, S, V)
  BY DEF SumFold!Combines, Plus, IntValued
<1>3. 0 \in V
  OBVIOUS
<1>4. SumFold!AnyOrder(SumFold!Iterated(0, f, S), 0, f, S, V)
  <2> HIDE DEF V
  <2>1. QED
    BY <1>1, <1>2, <1>3, SumFinite, SumFold!FoldsInAnyOrder
<1>5. QED
  BY <1>4

\* The sum of a part is what the fold over the whole says of it.
LEMMA SumOfPart ==
  ASSUME NEW S, IsFiniteSet(S), NEW f, IntValued(f, S), NEW R \in SUBSET S
  PROVE  SumOf(f, R) = SumFold!Iterated(0, f, S)[R]
<1> DEFINE g == SumFold!Iterated(0, f, S)
           h == SumFold!Iterated(0, f, R)
           T == {s \in SUBSET R : g[s] = h[s]}
<1>1. IsFiniteSet(R)
  BY FS_Subset
<1>2. IntValued(f, R)
  BY DEF IntValued
<1>3. SumFold!AnyOrder(g, 0, f, S, Int) /\ SumFold!AnyOrder(h, 0, f, R, Int)
  BY <1>1, <1>2, SumRecursion
<1> HIDE DEF g, h
<1>4. {} \in T
  BY <1>3 DEF SumFold!AnyOrder
<1>5. ASSUME NEW s \in SUBSET R, NEW x \in R \ s, s \in T
      PROVE  s \cup {x} \in T
  <2>1. s \cup {x} \in SUBSET R /\ s \cup {x} \in SUBSET S /\ (s \cup {x}) \ {x} = s
    BY <1>5
  <2>2. g[s \cup {x}] = Plus(f[x], g[s])
    BY <1>3, <2>1, x \in s \cup {x} DEF SumFold!AnyOrder
  <2>3. h[s \cup {x}] = Plus(f[x], h[s])
    BY <1>3, <2>1, x \in s \cup {x} DEF SumFold!AnyOrder
  <2>4. QED
    BY <1>5, <2>1, <2>2, <2>3
<1>6. R \in T
  <2> HIDE DEF T
  <2>1. SumFold!Grows(R, T)
    BY <1>4, <1>5 DEF SumFold!Grows
  <2>2. QED
    BY <1>1, <2>1, SumFinite, SumFold!SubsetInduction
<1>7. QED
  BY <1>6 DEF SumOf, g, h

\* Nothing sums to 0.
LEMMA SumEmpty == ASSUME NEW f PROVE SumOf(f, {}) = 0
<1>1. IsFiniteSet({}) /\ IntValued(f, {})
  BY FS_EmptySet DEF IntValued
<1>2. QED
  BY <1>1, SumRecursion DEF SumOf, SumFold!AnyOrder

\* One more element adds its amount.
LEMMA SumAdd ==
  ASSUME NEW S, IsFiniteSet(S), NEW x, x \notin S, NEW f, IntValued(f, S \cup {x})
  PROVE  SumOf(f, S \cup {x}) = f[x] + SumOf(f, S) /\ SumOf(f, S) \in Int
<1> DEFINE U == S \cup {x}
           g == SumFold!Iterated(0, f, U)
<1>1. IsFiniteSet(U)
  BY FS_AddElement
<1>2. SumFold!AnyOrder(g, 0, f, U, Int)
  BY <1>1, SumRecursion
<1>3. SumOf(f, U) = g[U] /\ SumOf(f, S) = g[S]
  <2>1. S \in SUBSET U
    OBVIOUS
  <2>2. SumOf(f, S) = g[S]
    BY <1>1, <2>1, SumOfPart
  <2>3. QED
    BY <2>2 DEF SumOf
<1>4. U \in SUBSET U /\ x \in U /\ U \ {x} = S /\ S \in SUBSET U
  OBVIOUS
<1> HIDE DEF g, U
<1>5. g[U] = Plus(f[x], g[S])
  BY <1>2, <1>4 DEF SumFold!AnyOrder
<1>6. g[S] \in Int
  BY <1>2, <1>4 DEF SumFold!AnyOrder
<1>7. QED
  BY <1>3, <1>5, <1>6 DEF Plus, U

\* A sum of integers is one, and a sum of natural numbers is one.
LEMMA SumType ==
  ASSUME NEW S, IsFiniteSet(S), NEW f
  PROVE  /\ IntValued(f, S) => SumOf(f, S) \in Int
         /\ (\A x \in S : f[x] \in Nat) => SumOf(f, S) \in Nat
<1>1. IntValued(f, S) => SumOf(f, S) \in Int
  BY SumRecursion DEF SumOf, SumFold!AnyOrder
<1>2. ASSUME \A x \in S : f[x] \in Nat
      PROVE  SumOf(f, S) \in Nat
  <2> DEFINE T == {s \in SUBSET S : SumOf(f, s) \in Nat}
  <2>1. {} \in T
    BY SumEmpty
  <2>2. ASSUME NEW s \in SUBSET S, NEW x \in S \ s, s \in T
        PROVE  s \cup {x} \in T
    <3>1. IsFiniteSet(s) /\ IntValued(f, s \cup {x}) /\ x \notin s
      BY <1>2, FS_Subset DEF IntValued
    <3>2. SumOf(f, s \cup {x}) = f[x] + SumOf(f, s)
      BY <3>1, SumAdd
    <3>3. QED
      BY <1>2, <2>2, <3>2
  <2>3. S \in T
    <3> HIDE DEF T
    <3>1. SumFold!Grows(S, T)
      BY <2>1, <2>2 DEF SumFold!Grows
    <3>2. QED
      BY <3>1, SumFinite, SumFold!SubsetInduction
  <2>4. QED
    BY <2>3
<1>3. QED
  BY <1>1, <1>2

\* A sum depends on the amounts of its elements only.
LEMMA SumCongruent ==
  ASSUME NEW S, IsFiniteSet(S), NEW f, IntValued(f, S), NEW h, \A x \in S : h[x] = f[x]
  PROVE  SumOf(h, S) = SumOf(f, S)
<1> DEFINE T == {s \in SUBSET S : SumOf(h, s) = SumOf(f, s)}
<1>1. {} \in T
  BY SumEmpty
<1>2. ASSUME NEW s \in SUBSET S, NEW x \in S \ s, s \in T
      PROVE  s \cup {x} \in T
  <2>1. IsFiniteSet(s) /\ IntValued(f, s \cup {x}) /\ IntValued(h, s \cup {x}) /\ x \notin s
    BY FS_Subset DEF IntValued
  <2>2. SumOf(f, s \cup {x}) = f[x] + SumOf(f, s)
    BY <2>1, SumAdd
  <2>3. SumOf(h, s \cup {x}) = h[x] + SumOf(h, s)
    BY <2>1, SumAdd
  <2>4. QED
    BY <1>2, <2>2, <2>3
<1>3. SumFold!Grows(S, T)
  BY <1>1, <1>2 DEF SumFold!Grows
<1>4. S \in T
  <2> HIDE DEF T
  <2>1. QED
    BY <1>3, SumFinite, SumFold!SubsetInduction
<1>5. QED
  BY <1>4

\* Elements of amount 0 add nothing.
LEMMA SumZero ==
  ASSUME NEW S, IsFiniteSet(S), NEW f, \A x \in S : f[x] = 0
  PROVE  SumOf(f, S) = 0
<1> DEFINE T == {s \in SUBSET S : SumOf(f, s) = 0}
<1>1. {} \in T
  BY SumEmpty
<1>2. ASSUME NEW s \in SUBSET S, NEW x \in S \ s, s \in T
      PROVE  s \cup {x} \in T
  <2>1. IsFiniteSet(s) /\ IntValued(f, s \cup {x}) /\ x \notin s
    BY FS_Subset DEF IntValued
  <2>2. SumOf(f, s \cup {x}) = f[x] + SumOf(f, s)
    BY <2>1, SumAdd
  <2>3. QED
    BY <1>2, <2>2
<1>3. SumFold!Grows(S, T)
  BY <1>1, <1>2 DEF SumFold!Grows
<1>4. S \in T
  <2> HIDE DEF T
  <2>1. QED
    BY <1>3, SumFinite, SumFold!SubsetInduction
<1>5. QED
  BY <1>4

\* Parts without a common element are added.
LEMMA SumUnion ==
  ASSUME NEW R, IsFiniteSet(R), NEW S, IsFiniteSet(S), R \cap S = {},
         NEW f, IntValued(f, R \cup S)
  PROVE  SumOf(f, R \cup S) = SumOf(f, R) + SumOf(f, S)
<1> DEFINE T == {s \in SUBSET S : SumOf(f, R \cup s) = SumOf(f, R) + SumOf(f, s)}
<1>1. {} \in T
  <2>1. SumOf(f, R) \in Int
    BY SumType DEF IntValued
  <2>2. R \cup {} = R
    OBVIOUS
  <2>3. QED
    BY <2>1, <2>2, SumEmpty
<1>2. ASSUME NEW s \in SUBSET S, NEW x \in S \ s, s \in T
      PROVE  s \cup {x} \in T
  <2>1. /\ IsFiniteSet(s) /\ IntValued(f, s \cup {x}) /\ x \notin s
        /\ IsFiniteSet(R \cup s) /\ x \notin R \cup s /\ IntValued(f, (R \cup s) \cup {x})
    BY FS_Subset, FS_Union DEF IntValued
  <2>2. SumOf(f, s \cup {x}) = f[x] + SumOf(f, s) /\ SumOf(f, s) \in Int
    BY <2>1, SumAdd
  <2>3. SumOf(f, (R \cup s) \cup {x}) = f[x] + SumOf(f, R \cup s)
    BY <2>1, SumAdd
  <2>4. (R \cup s) \cup {x} = R \cup (s \cup {x})
    OBVIOUS
  <2>5. SumOf(f, R) \in Int /\ f[x] \in Int
    BY SumType DEF IntValued
  <2>6. SumOf(f, R \cup s) = SumOf(f, R) + SumOf(f, s)
    BY <1>2
  <2>7. SumOf(f, R \cup (s \cup {x})) = SumOf(f, R) + SumOf(f, s \cup {x})
    <3> DEFINE a == SumOf(f, R)
               b == SumOf(f, s)
    <3>1. SumOf(f, R \cup (s \cup {x})) = f[x] + (a + b)
      BY <2>3, <2>4, <2>6
    <3>2. SumOf(f, s \cup {x}) = f[x] + b
      BY <2>2
    <3>3. a \in Int /\ b \in Int /\ f[x] \in Int
      BY <2>2, <2>5
    <3> HIDE DEF a, b
    <3>4. f[x] + (a + b) = a + (f[x] + b)
      BY <3>3
    <3>5. QED
      BY <3>1, <3>2, <3>4 DEF a
  <2>8. QED
    BY <2>7
<1>3. SumFold!Grows(S, T)
  BY <1>1, <1>2 DEF SumFold!Grows
<1>4. S \in T
  <2> HIDE DEF T
  <2>1. QED
    BY <1>3, SumFinite, SumFold!SubsetInduction
<1>5. QED
  BY <1>4

\* A sum over the images of the elements, each element having its own.
LEMMA SumImage ==
  ASSUME NEW S, IsFiniteSet(S), NEW g, \A x, y \in S : g[x] = g[y] => x = y,
         NEW f, IntValued(f, S), NEW h, \A x \in S : h[g[x]] = f[x]
  PROVE  IsFiniteSet({g[x] : x \in S}) /\ SumOf(h, {g[x] : x \in S}) = SumOf(f, S)
<1> DEFINE I(s) == {g[x] : x \in s}
           T == {s \in SUBSET S : IsFiniteSet(I(s)) /\ SumOf(h, I(s)) = SumOf(f, s)}
<1>1. {} \in T
  <2>1. I({}) = {}
    OBVIOUS
  <2>2. QED
    BY <2>1, FS_EmptySet, SumEmpty
<1>2. ASSUME NEW s \in SUBSET S, NEW x \in S \ s, s \in T
      PROVE  s \cup {x} \in T
  <2>1. I(s \cup {x}) = I(s) \cup {g[x]} /\ g[x] \notin I(s)
    OBVIOUS
  <2>2. /\ IsFiniteSet(s) /\ IntValued(f, s \cup {x}) /\ x \notin s
        /\ IsFiniteSet(I(s)) /\ IntValued(h, I(s) \cup {g[x]})
    BY <1>2, FS_Subset DEF IntValued
  <2>3. SumOf(f, s \cup {x}) = f[x] + SumOf(f, s)
    BY <2>2, SumAdd
  <2> DEFINE J == I(s)
  <2>4. SumOf(h, J \cup {g[x]}) = h[g[x]] + SumOf(h, J)
    <3> HIDE DEF J
    <3>1. QED
      BY <2>1, <2>2, SumAdd DEF J
  <2>5. IsFiniteSet(J \cup {g[x]})
    <3> HIDE DEF J
    <3>1. QED
      BY <2>2, FS_AddElement DEF J
  <2>6. QED
    BY <1>2, <2>1, <2>3, <2>4, <2>5
<1>3. SumFold!Grows(S, T)
  <2> HIDE DEF T
  <2>1. QED
    BY <1>1, <1>2 DEF SumFold!Grows
<1>4. S \in T
  <2> HIDE DEF T
  <2>1. QED
    BY <1>3, SumFinite, SumFold!SubsetInduction
<1>5. QED
  BY <1>4

\* A sum by keys: the sum of the sums of each key.
ByKey(totals, f, S, K, key) ==
  /\ \A x \in S : key[x] \in K
  /\ \A k \in K : totals[k] = SumOf(f, {x \in S : key[x] = k})

\* Grouping the elements by a key leaves the sum as it is.
LEMMA SumByKey ==
  ASSUME NEW S, IsFiniteSet(S), NEW f, IntValued(f, S),
         NEW K, IsFiniteSet(K), NEW key, NEW totals, ByKey(totals, f, S, K, key)
  PROVE  SumOf(totals, K) = SumOf(f, S)
<1> DEFINE At(s) == {x \in S : key[x] \in s}
           T == {s \in SUBSET K : SumOf(totals, s) = SumOf(f, At(s))}
<1>1. {} \in T
  <2>1. At({}) = {}
    OBVIOUS
  <2>2. QED
    BY <2>1, SumEmpty
<1>2. ASSUME NEW s \in SUBSET K, NEW k \in K \ s, s \in T
      PROVE  s \cup {k} \in T
  <2> DEFINE R == {x \in S : key[x] = k}
             A == At(s)
  <2>1. /\ IsFiniteSet(R) /\ IsFiniteSet(A) /\ R \cap A = {} /\ At(s \cup {k}) = R \cup A
        /\ IntValued(f, R \cup A) /\ IsFiniteSet(s)
    BY FS_Subset DEF IntValued
  <2>2. IntValued(totals, s \cup {k})
    <3>1. \A j \in K : totals[j] \in Int
      <4> SUFFICES ASSUME NEW j \in K PROVE SumOf(f, {x \in S : key[x] = j}) \in Int
        BY DEF ByKey
      <4> DEFINE Q == {x \in S : key[x] = j}
      <4>1. IsFiniteSet(Q) /\ IntValued(f, Q)
        BY FS_Subset DEF IntValued
      <4> HIDE DEF Q
      <4>2. SumOf(f, Q) \in Int
        BY <4>1, SumType
      <4>3. QED
        BY <4>2 DEF Q, ByKey
    <3>2. QED
      BY <3>1 DEF IntValued
  <2>3. totals[k] = SumOf(f, R) /\ SumOf(totals, s) = SumOf(f, A)
    BY <1>2 DEF ByKey
  <2> HIDE DEF R, A, At
  <2>4. SumOf(f, R \cup A) = SumOf(f, R) + SumOf(f, A)
    BY <2>1, SumUnion
  <2>5. SumOf(totals, s \cup {k}) = totals[k] + SumOf(totals, s)
    BY <2>1, <2>2, SumAdd
  <2>6. SumOf(totals, s \cup {k}) = SumOf(f, At(s \cup {k}))
    BY <2>1, <2>3, <2>4, <2>5
  <2>7. QED
    BY <2>6
<1>3. SumFold!Grows(K, T)
  <2> HIDE DEF T
  <2>1. QED
    BY <1>1, <1>2 DEF SumFold!Grows
<1>4. K \in T
  <2> HIDE DEF T
  <2>1. QED
    BY <1>3, SumFinite, SumFold!SubsetInduction
<1>5. At(K) = S
  BY DEF ByKey
<1>6. QED
  BY <1>4, <1>5

\* Finitely many finite parts make a finite set.
LEMMA FiniteParts ==
  ASSUME NEW K, IsFiniteSet(K), NEW part, \A k \in K : IsFiniteSet(part[k])
  PROVE  IsFiniteSet(UNION {part[k] : k \in K})
<1> DEFINE All(s) == UNION {part[k] : k \in s}
           T == {s \in SUBSET K : IsFiniteSet(All(s))}
<1>1. {} \in T
  <2>1. All({}) = {}
    OBVIOUS
  <2>2. QED
    BY <2>1, FS_EmptySet
<1>2. ASSUME NEW s \in SUBSET K, NEW k \in K \ s, s \in T
      PROVE  s \cup {k} \in T
  <2>1. All(s \cup {k}) = All(s) \cup part[k]
    OBVIOUS
  <2>2. IsFiniteSet(All(s)) /\ IsFiniteSet(part[k])
    BY <1>2
  <2>3. IsFiniteSet(All(s) \cup part[k])
    <3> HIDE DEF All
    <3>1. QED
      BY <2>2, FS_Union
  <2>4. QED
    BY <2>1, <2>3
<1>3. SumFold!Grows(K, T)
  <2> HIDE DEF T
  <2>1. QED
    BY <1>1, <1>2 DEF SumFold!Grows
<1>4. K \in T
  <2> HIDE DEF T
  <2>1. QED
    BY <1>3, SumFinite, SumFold!SubsetInduction
<1>5. QED
  BY <1>4

-----------------------------------------------------------------------------
\* The CZK amounts of lines, as the sum of a function.
LEMMA CzkSum ==
  ASSUME NEW S
  PROVE  MapThenSumSet(LAMBDA l : l.czk, S) = SumOf([l \in S |-> l.czk], S)
BY DEF MapThenSumSet, MapThenFoldSet, SumOf, SumFold!Iterated, SumFold!Unfold, AnyOf, Plus

\* The amount of a line survives its conversion at the rate 1.
LEMMA AmountKept ==
  ASSUME NEW a \in Nat, NEW s \in Nat \ {0}, NEW r \in Nat \ {0}
  PROVE  RoundHalfEven((a * s) * r, s * r) = a
<1> DEFINE d == s * r
<1>1. d \in Nat \ {0} /\ (a * s) * r = a * d
  OBVIOUS
<1> HIDE DEF d
<1>2. (a * d) \div d = a /\ a * d \in Nat
  BY <1>1
<1>3. RoundHalfEven(a * d, d) = a
  BY <1>1, <1>2 DEF RoundHalfEven
<1>4. QED
  BY <1>1, <1>3 DEF d
=============================================================================
