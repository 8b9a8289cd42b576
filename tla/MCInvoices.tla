----------------------------- MODULE MCInvoices -----------------------------
(* Instances of Invoices for TLC. *)
EXTENDS Invoices

MCAccounts == {"311", "321", "343", "501", "518", "602"}
MCDebitNormal == {"311", "501", "518"}
MCBalanceSheet == {"311", "321", "343"}

\* Sub = 10, KhThreshold = 40: net amounts of 3 to 20 Kc become 30 to 200 halere.
Line1(net, rate) == [account |-> NoAccount, net |-> net, rate |-> rate]

Plain == [direction |-> "RECEIVED", type |-> "STANDARD", number |-> 1, symbol |-> NoSymbol,
          dic |-> "CZ1", vatPayer |-> TRUE, reverseCharge |-> FALSE, currency |-> "CZK",
          period |-> 1, vatPeriod |-> "M1", duzp |-> "plain", lines |-> <<Line1(1005, 21)>>]

\* Two lines of one rate and one of another; their halves are rounded up.
Issued == [Plain EXCEPT !.direction = "ISSUED", !.type = "STANDARD",
             !.lines = <<Line1(1195, 21), Line1(505, 21), Line1(300, 12)>>]
Proforma == [Plain EXCEPT !.direction = "ISSUED", !.type = "PROFORMA"]
Advance == [Plain EXCEPT !.direction = "ISSUED", !.type = "ADVANCE", !.period = 2]
ReverseCharged == [Plain EXCEPT !.reverseCharge = TRUE, !.number = 2, !.period = 2,
                     !.lines = <<[account |-> "501", net |-> 2000, rate |-> 21]>>]
NoDicLarge == [Plain EXCEPT !.dic = NoDic, !.duzp = "doubtful",
                 !.lines = <<Line1(1000, 0), Line1(1000, 21)>>]
Foreign == [Plain EXCEPT !.dic = "XX", !.currency = "FX", !.lines = <<Line1(105, 12), Line1(125, 21)>>]
Expired == [Plain EXCEPT !.duzp = "expired", !.number = 3]
Vanishing == [Plain EXCEPT !.lines = <<Line1(4, 21)>>, !.number = 3]

MCInvoiceRequests == {Plain, Issued, Proforma, Advance, ReverseCharged, NoDicLarge, Foreign,
                      Expired, Vanishing}
MCManualRequests ==
  {<<[account |-> "518", side |-> "DEBIT", amount |-> 20],
     [account |-> "321", side |-> "CREDIT", amount |-> 20]>>}

InvoiceEntries ==
  UNION {{JournalLines(r, rate) : rate \in RatesFor(r.currency)} : r \in MCInvoiceRequests}

MCRequests == MCManualRequests \cup {legs \in InvoiceEntries : Positive(legs)}

MCPeriods == 1 .. 2
MCVatPeriods == {"M1"}
MCDics == {"CZ1", "XX"}
MCMalformedDics == {"XX"}

\* What the theorems about these properties suppose of the clients.
ASSUME MCClients == InvoicesLeaveVatAccount
=============================================================================
