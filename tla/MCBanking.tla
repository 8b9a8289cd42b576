----------------------------- MODULE MCBanking -----------------------------
(* Instances of Banking for TLC. *)
EXTENDS Banking

MCAccounts == {"221", "311", "321", "343", "518", "602"}
MCDebitNormal == {"221", "311", "518"}
MCBalanceSheet == {"221", "311", "321", "343"}

\* Amounts are whole halere (Sub = 1): 100 net and 21 VAT.
OneLine == [account |-> NoAccount, net |-> 100, rate |-> 21]

Received == [direction |-> "RECEIVED", type |-> "STANDARD", number |-> 1, symbol |-> "V2",
             dic |-> "CZ1", vatPayer |-> TRUE, reverseCharge |-> FALSE, currency |-> "CZK",
             period |-> 1, vatPeriod |-> "M1", duzp |-> "plain", lines |-> <<OneLine>>]
Issued == [Received EXCEPT !.direction = "ISSUED", !.symbol = "V1"]

MCInvoiceRequests == {Received, Issued}
MCRequests == {JournalLines(r, RateScale) : r \in MCInvoiceRequests}
MCManualRequests == {}

\* Two payments of the issued invoice; a repetition of the first one under
\* another name; a part payment; a payment sent that has
\* no symbol.
Paid == [date |-> 1, period |-> 1, amount |-> 121, direction |-> "CREDIT", vs |-> "V1",
         payer |-> "A", name |-> "Alfa"]
PaidAgain == [Paid EXCEPT !.date = 2]
Repeated == [Paid EXCEPT !.name = "Alfa s.r.o."]
Part == [Paid EXCEPT !.date = 3, !.amount = 50]
Sent == [Paid EXCEPT !.direction = "DEBIT", !.vs = NoSymbol, !.date = 3]
Owed == [Paid EXCEPT !.direction = "DEBIT", !.vs = "V2"]

MCStatementRows == {Paid, PaidAgain, Repeated, Part, Sent, Owed}
MCStatements == {<<Paid>>, <<Paid, PaidAgain>>, <<Paid, Repeated>>, <<Part, Sent>>, <<Paid, Owed>>}
MCPlausible == {<<Sent, Received>>}

MCPeriods == {1}
MCVatPeriods == {"M1"}
MCDics == {"CZ1"}
MCSymbols == {"V1", "V2"}

\* What the theorems about these properties suppose of the clients.
ASSUME MCClients == ClientsLeaveBankAccount
=============================================================================
