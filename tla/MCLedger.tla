------------------------------ MODULE MCLedger ------------------------------
(* Instances of Ledger for TLC. *)
EXTENDS Ledger

L(account, side, amount) == [account |-> account, side |-> side, amount |-> amount]

\* A bank account, a payable, an expense and a synthetic group account.
MCAccounts == {"221", "321", "518", "32"}
MCDebitNormal == {"221", "518"}
MCBalanceSheet == {"221", "321", "32"}
MCPostable == {"221", "321", "518"}

\* Sub = 10: amounts are tenths of a haler.
Plain == <<L("518", "DEBIT", 30), L("321", "CREDIT", 30)>>
Payment == <<L("321", "DEBIT", 20), L("221", "CREDIT", 20)>>
Split == <<L("518", "DEBIT", 10), L("221", "DEBIT", 10), L("321", "CREDIT", 20)>>
OffByOneHaler == <<L("518", "DEBIT", 20), L("321", "CREDIT", 10)>>
SubHaler == <<L("518", "DEBIT", 4), L("221", "CREDIT", 4)>>
Unbalanced == <<L("518", "DEBIT", 40), L("321", "CREDIT", 20)>>
OnGroupAccount == <<L("518", "DEBIT", 20), L("32", "CREDIT", 20)>>
OneLine == <<L("518", "DEBIT", 10)>>

MCRequests == {Plain, Payment, Split, OffByOneHaler, SubHaler, Unbalanced, OnGroupAccount}
MCCorrections == {Payment, OneLine}
MCPeriods == 1 .. 2
=============================================================================
