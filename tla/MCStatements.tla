---------------------------- MODULE MCStatements ----------------------------
(* An instance of Statements for TLC: one account of every kind. *)
EXTENDS Statements

Booking(debit, credit, amount) ==
  <<[account |-> debit, side |-> "DEBIT", amount |-> amount],
    [account |-> credit, side |-> "CREDIT", amount |-> amount]>>

MCRequests ==
  {Booking("311", "602", 7),   \* a sale
   Booking("513", "377", 2),   \* representation, owed on an account of no line
   Booking("551", "082", 3),   \* depreciation
   Booking("221", "411", 9),   \* capital paid in
   Booking("591", "341", 5),   \* income tax due
   Booking("341", "221", 8),   \* an advance larger than the tax
   Booking("261", "518", 1)}   \* a returned service, the money in transit
MCCorrections == {Booking("518", "321", 4)}

MCAccounts ==
  {"082", "221", "261", "311", "321", "341", "377", "411", "513", "518", "551", "591", "602"}
MCDebitNormal == MCAccounts \cap DebitAccounts
MCBalanceSheet == MCAccounts \cap BalanceSheetAccounts
MCPeriods == 1 .. 2
=============================================================================
