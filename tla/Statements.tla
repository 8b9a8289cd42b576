----------------------------- MODULE Statements -----------------------------
(***************************************************************************)
(* The annual statements: balance sheet (rozvaha), profit and loss (VZZ),  *)
(* the estimate of the income tax (DPPO), and the balance-sheet check that *)
(* every return must pass.                                                 *)
(*                                                                         *)
(* All of them are functions of account_balances, read in one request.     *)
(* The three statements start from the trial balance; the check sums the   *)
(* rows by account type.  The properties relate them to each other and to  *)
(* the journal, over the behaviours of Ledger.  Layout, percentages and    *)
(* the rounding of the tax to thousands are left out.                      *)
(***************************************************************************)
EXTENDS Ledger, ChartOfAccounts

\* The accounts of an instance are accounts of the seeded chart.
ASSUME StatementsAssumption ==
  /\ Accounts \subseteq PostingAccounts \cup GroupAccounts
  /\ DebitNormal = Accounts \cap DebitAccounts
  /\ BalanceSheet = Accounts \cap BalanceSheetAccounts
  /\ Postable = Accounts \cap PostingAccounts

SumOver(S, amount(_)) == MapThenSumSet(amount, S)

----------------------------------------------------------------------------
(* Rows of the statements. *)

AktivaLines ==
  [B_I   |-> {"011", "012", "013", "014", "015", "019",
              "071", "072", "073", "074", "075", "079", "091"},
   B_II  |-> {"021", "022", "025", "026", "029", "031", "032", "041", "042",
              "081", "082", "085", "086", "089", "092", "093"},
   B_III |-> {"061", "062", "063", "065", "066", "067", "069", "043",
              "051", "052", "053", "094", "095", "096"},
   C_I   |-> Inventory \cup {"191", "192", "193", "194", "195", "196"},
   C_II  |-> Receivables \cup {"341", "342", "391"},
   C_III |-> {"251", "253", "255", "256", "259", "261", "291"},
   C_IV  |-> {"211", "213", "221", "222", "223"}]

PasivaLines ==
  [A_I   |-> {"411", "412"},
   A_II  |-> {"413", "414", "418", "419"},
   A_III |-> {"421", "422", "423", "427"},
   A_IV  |-> {"428", "429"},
   A_V   |-> {"431"},
   B_I   |-> {"451", "453", "459"},
   B_II  |-> {"461", "471", "472", "473", "474", "475", "478", "479", "481"},
   B_III |-> Payables \ {"377", "383", "384"},
   C     |-> {"383", "384"}]

RevenueLines ==
  [I   |-> {"601", "602", "604"},
   II  |-> {"611", "612", "613", "614"},
   III |-> {"621", "622", "623", "624"},
   IV  |-> {"641", "642"},
   V   |-> {"644", "646", "648"},
   VI  |-> {"662", "663", "664", "665", "666", "667", "668"},
   VII |-> {"661"}]

ExpenseLines ==
  [A |-> {"504"},
   B |-> {"501", "502", "503"},
   C |-> {"511", "512", "513", "518"},
   D |-> {"521", "522", "523", "524", "525", "527", "528"},
   E |-> {"551", "552", "554", "555", "557", "558", "559"},
   F |-> {"541", "542"},
   G |-> {"531", "532", "538", "543", "544", "545", "546", "548", "549"},
   J |-> {"562", "563", "564", "566", "567", "568", "569"}]

IncomeTaxLines == [L |-> {"591", "592"}, M |-> {"593"}]

DualNature == {"341", "342"}

\* Mutant: gifts only.
NonDeductibleGifts == {"543"}

NonDeductible == {"513", "543"}

On(lines_) == UNION {lines_[n] : n \in DOMAIN lines_}

\* A statement adds up its lines, a line the accounts it names.
LinesTotal(lines_, accts, amount(_)) ==
  SumOver(DOMAIN lines_, LAMBDA n : SumOver(lines_[n] \cap accts, amount))

----------------------------------------------------------------------------
(* The statements. *)

HasRow(p, a) == balances[p][a] # NoRow

\* get_trial_balance: a row no posted entry of the period counts in is left out.
TrialBalance(p) == {a \in Accounts : HasRow(p, a) /\ balances[p][a].count > 0}

DebitPosition(p, a) ==
  IF a \in DebitNormal THEN balances[p][a].closing ELSE -balances[p][a].closing

Positive(n) == IF n > 0 THEN n ELSE 0

\* Mutant: a tax account counts in full on both sides.
ShownOnBothSides(p, a, side) == balances[p][a].closing

\* A tax account is a receivable or a payable, by the sign of its balance.
Shown(p, a, side) ==
  CASE a \notin DualNature -> balances[p][a].closing
    [] a \in DualNature /\ side = "aktiva" -> Positive(DebitPosition(p, a))
    [] a \in DualNature /\ side = "pasiva" -> Positive(-DebitPosition(p, a))

\* generate_rozvaha: aktiva_celkem - pasiva_celkem.
RozvahaDifference(p) ==
  LinesTotal(AktivaLines, TrialBalance(p), LAMBDA a : Shown(p, a, "aktiva"))
    - LinesTotal(PasivaLines, TrialBalance(p), LAMBDA a : Shown(p, a, "pasiva"))

\* Mutant: the statement shows closing balances.
TurnoverAsBalance(p, lines_, side) ==
  LinesTotal(lines_, TrialBalance(p), LAMBDA a : balances[p][a].closing)

\* generate_vzz: the credit turnover of revenue, the debit turnover of expenses.
Turnover(p, lines_, side) ==
  LinesTotal(lines_, TrialBalance(p),
             LAMBDA a : IF side = "CREDIT" THEN balances[p][a].credit ELSE balances[p][a].debit)

ProfitBeforeTax(p) == Turnover(p, RevenueLines, "CREDIT") - Turnover(p, ExpenseLines, "DEBIT")

NetProfit(p) == ProfitBeforeTax(p) - Turnover(p, IncomeTaxLines, "DEBIT")

\* compute_dppo: the profit before tax, non-deductible expenses added back.  Its
\* two reads of the trial balance are one here: no request comes between them.
TaxBase(p) ==
  ProfitBeforeTax(p)
    + SumOver(NonDeductible \cap TrialBalance(p), LAMBDA a : balances[p][a].debit)

\* Mutant: equity is not summed.
CapitalWithoutEquity == LiabilityAccounts

\* The accounts check_balance_sheet counts, and what it compares with 1 Kc: rows
\* that only carry an opening balance are counted too.
Capital == LiabilityAccounts \cup EquityAccounts

Checked(p) == {a \in Accounts \cap (AssetAccounts \cup Capital) : HasRow(p, a)}

\* The assets of a set of accounts less its liabilities and equity.
NetAssets(accts, amount(_)) ==
  SumOver(accts \cap AssetAccounts, amount) - SumOver(accts \cap Capital, amount)

CheckedDifference(p) == NetAssets(Checked(p), LAMBDA a : balances[p][a].closing)

----------------------------------------------------------------------------
(* Safety. *)

OnRozvaha == On(AktivaLines) \cup On(PasivaLines)

\* The check a return must pass and the balance sheet a reader gets differ by
\* exactly the accounts that one of them leaves out: the check counts accounts
\* that are on no line and those that only carry an opening balance, the balance
\* sheet counts money in transit (261).  No other account, and no tax account
\* whose balance has changed sides, is counted differently by the two.
CheckAndRozvahaAgree ==
  \A p \in Periods :
    LET unshown == Checked(p) \ (TrialBalance(p) \cap OnRozvaha)
        unchecked == TrialBalance(p) \cap OnRozvaha \cap TransitAccounts
        closing(a) == balances[p][a].closing
    IN  RozvahaDifference(p) - SumOver(unchecked, closing)
          = CheckedDifference(p) - NetAssets(unshown, closing)

LinesPosted(p) == {l \in lines : entries[l.entry].period = p /\ entries[l.entry].status = "posted"}

SideTotal(ls, side) == TotalCzk(OnSide(ls, side))
LinesOn(ls, accts) == {l \in ls : l.account \in accts}

\* Profit by double entry: what revenue and expense accounts net to.
NetOf(ls, accts) ==
  SideTotal(LinesOn(ls, accts), "CREDIT") - SideTotal(LinesOn(ls, accts), "DEBIT")

\* The profit that postings on the unusual side have undone: a debited revenue,
\* a credited expense, and every reversal of an ordinary entry.
UndoneProfit(ls) ==
  SideTotal(LinesOn(ls, RevenueAccounts), "DEBIT")
    - SideTotal(LinesOn(ls, ExpenseAccounts), "CREDIT")

\* Only accounts whose balance both reports add with its sign, and balanced entries.
Plain(ls) ==
  /\ LinesOn(ls, ContraAssets \cup {"429"} \cup TransitAccounts \cup ClosingAccounts) = {}
  /\ LinesOn(ls, ExpenseAccounts \cup RevenueAccounts)
       = LinesOn(ls, On(RevenueLines) \cup On(ExpenseLines) \cup On(IncomeTaxLines))
  /\ SideTotal(ls, "DEBIT") = SideTotal(ls, "CREDIT")

\* What the check of the balance sheet measures: the difference the opening
\* balances bring, and the profit of the period, which no account of classes 0
\* to 4 holds before it is closed; each reversal takes its profit off once more,
\* because the entry it reverses is no longer counted.
CheckMeasuresProfit ==
  \A p \in Periods :
    Plain(LinesPosted(p)) =>
      CheckedDifference(p)
        = NetAssets(Checked(p), LAMBDA a : balances[p][a].opening)
            + NetProfit(p) - UndoneProfit(LinesPosted(p))

\* Entries that stand: not reversed, and not the reversal of another.
Standing(p) == {l \in LinesPosted(p) : entries[l.entry].type # "REVERSAL"}

\* Clients credit revenue and debit expenses, and only reversals do the opposite.
Ordinary(p) ==
  \A l \in LinesOn(LinesPosted(p), ExpenseAccounts \cup RevenueAccounts) :
    (l.side = "CREDIT" <=> l.account \in RevenueAccounts)
      <=> entries[l.entry].type # "REVERSAL"

\* Profit and loss counts the entries that stand and no other: an entry and its
\* reversal leave no trace in it, although they do in the closing balances.
ProfitOfStandingEntries ==
  \A p \in Periods :
    Ordinary(p) =>
      NetProfit(p) = NetOf(Standing(p), On(RevenueLines) \cup On(ExpenseLines)
                                          \cup On(IncomeTaxLines))

\* The tax base is revenue less deductible expenses of the entries that stand:
\* neither a non-deductible expense nor the tax itself moves it, posted, reversed
\* or corrected, in whatever order.
TaxBaseOfDeductibles ==
  \A p \in Periods :
    Ordinary(p) =>
      TaxBase(p) = NetOf(Standing(p), On(RevenueLines) \cup (On(ExpenseLines) \ {"513", "543"}))
=============================================================================
