-------------------------- MODULE MCLedgerSessions --------------------------
(* Instances of LedgerSessions for TLC. *)
EXTENDS LedgerSessions

L(account, side, amount) == [account |-> account, side |-> side, amount |-> amount]

MCAccounts == {"221", "321"}
MCDebitNormal == {"221"}
MCBalanceSheet == MCAccounts

Payment == <<L("321", "DEBIT", 1), L("221", "CREDIT", 1)>>
Refund == <<L("221", "DEBIT", 2), L("321", "CREDIT", 2)>>

MCRequests == {Payment, Refund}
OneRequest == {Payment}
MCPeriods == 1 .. 2
=============================================================================
