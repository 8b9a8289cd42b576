------------------------------ MODULE MCFiling ------------------------------
(* Instances of Filing for TLC. *)
EXTENDS Filing, TLC

MCAccounts == {"311", "321", "343", "518", "602"}
MCDebitNormal == {"311", "518"}
MCBalanceSheet == {"311", "321", "343"}
MCAssets == {"311"}
MCLiabilities == {"321", "343"}

\* Amounts are whole halere (Sub = 1).
Line1(net, rate) == [account |-> NoAccount, net |-> net, rate |-> rate]

\* Two rates, one row each; the tax of 31 is below the threshold of 40.
Issued == [direction |-> "ISSUED", type |-> "STANDARD", number |-> 1, symbol |-> NoSymbol,
           dic |-> "CZ1", vatPayer |-> TRUE, reverseCharge |-> FALSE, currency |-> "CZK",
           period |-> 1, vatPeriod |-> 11, duzp |-> "plain",
           lines |-> <<Line1(100, 21), Line1(80, 12)>>]
\* Listed one by one: the tax is 42.
Received == [Issued EXCEPT !.direction = "RECEIVED", !.lines = <<Line1(200, 21)>>]
ReverseCharged == [Received EXCEPT !.reverseCharge = TRUE, !.number = 2]
\* Of the month that is not filed.
Later == [Issued EXCEPT !.lines = <<Line1(100, 21)>>, !.vatPeriod = 12]

MCInvoiceRequests == {Issued, Received, ReverseCharged, Later}
MCRequests == {JournalLines(r, RateScale) : r \in MCInvoiceRequests}
MCManualRequests == {}

MCPeriods == {1}
MCVatPeriods == {11, 12}
MCYearOf == [vp \in {11, 12} |-> 1]
MCDics == {"CZ1"}

MCReturns == {"DPH_PRIZNANI", "KONTROLNI_HLASENI"} \X {11}
MCReports == {<<"ROZVAHA", 1>>}
ClerkSymmetry == Permutations(Clerks)

\* What the theorems about these properties suppose of the clients.
ASSUME MCClients == InvoicesLeaveVatAccount
=============================================================================
