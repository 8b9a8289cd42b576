--------------------------- MODULE ChartOfAccounts ---------------------------
(***************************************************************************)
(* The chart of accounts that the seed installs: for every account its     *)
(* type, the side of its balance and whether it allows posting.  No        *)
(* endpoint adds an account or changes one.                                *)
(***************************************************************************)
\* Class 0, debit side.
FixedAssets ==
  {"011", "012", "013", "014", "015", "019", "021", "022", "025", "026",
   "029", "031", "032", "041", "042", "043", "051", "052", "053", "061",
   "062", "063", "065", "066", "067", "069"}

\* Class 1, debit side.
Inventory ==
  {"111", "112", "119", "121", "122", "123", "124", "131", "132", "139"}

\* Class 2, assets of the debit side: cash, banks and short-term securities.
FinancialAssets ==
  {"211", "213", "221", "222", "223", "251", "253", "255", "256", "259"}

\* Class 3, assets of the debit side.
Receivables ==
  {"311", "312", "313", "314", "315", "335", "346", "347", "351", "352",
   "353", "354", "355", "358", "371", "374", "375", "376", "378", "381",
   "382", "385", "388"}

\* Depreciation and provisions: type ASSET, but the balance is on the credit side.
ContraAssets ==
  {"071", "072", "073", "074", "075", "079", "081", "082", "085", "086",
   "089", "091", "092", "093", "094", "095", "096", "191", "192", "193",
   "194", "195", "196", "197", "291", "391"}

\* Liabilities of classes 2 and 3.
Payables ==
  {"231", "232", "241", "249", "321", "322", "324", "325", "331", "333",
   "336", "341", "342", "343", "345", "361", "362", "364", "365", "366",
   "372", "377", "379", "383", "384", "389"}

\* Liabilities of class 4.
LongTermLiabilities ==
  {"451", "453", "459", "461", "471", "472", "473", "474", "475", "478",
   "479", "481"}

\* Equity, class 4; 429 is the loss of past years, on the debit side.
EquityAccounts ==
  {"411", "412", "413", "414", "418", "419", "421", "422", "423", "427",
   "428", "429", "431", "491"}

\* Class 5.
ExpenseAccounts ==
  {"501", "502", "503", "504", "511", "512", "513", "518", "521", "522",
   "523", "524", "525", "526", "527", "528", "531", "532", "538", "541",
   "542", "543", "544", "545", "546", "548", "549", "551", "552", "554",
   "555", "557", "558", "559", "561", "562", "563", "564", "566", "567",
   "568", "569", "574", "579", "581", "582", "583", "584", "585", "586",
   "587", "588", "591", "592", "593", "595", "596", "597", "598"}

\* Class 6.
RevenueAccounts ==
  {"601", "602", "604", "611", "612", "613", "614", "621", "622", "623",
   "624", "641", "642", "644", "646", "648", "661", "662", "663", "664",
   "665", "666", "667", "668", "697", "698"}

\* Clearing accounts of classes 2 and 3.
TransitAccounts ==
  {"261", "373", "395", "398"}

\* Class 7: opening, closing and off-balance accounts.
ClosingAccounts ==
  {"701", "702", "710", "751", "752", "753", "758"}

\* Two-digit groups: they structure the chart and refuse postings.
DebitGroups ==
  {"01", "02", "03", "04", "05", "06", "11", "12", "13", "21", "22", "25",
   "26", "31", "35", "37", "38", "50", "51", "52", "53", "54", "55", "56",
   "57", "58", "59", "70", "71", "75"}

\* The groups of the credit side.
CreditGroups ==
  {"07", "08", "09", "19", "23", "24", "29", "32", "33", "34", "36", "39",
   "41", "42", "43", "45", "46", "47", "48", "49", "60", "61", "62", "64",
   "66", "69"}

AssetAccounts == FixedAssets \cup Inventory \cup FinancialAssets \cup Receivables \cup ContraAssets

LiabilityAccounts == Payables \cup LongTermLiabilities

GroupAccounts == DebitGroups \cup CreditGroups

\* Accounts of classes 0 to 4 that allow posting.
BalanceSheetAccounts == AssetAccounts \cup LiabilityAccounts \cup EquityAccounts \cup TransitAccounts

PostingAccounts == BalanceSheetAccounts \cup ExpenseAccounts \cup RevenueAccounts \cup ClosingAccounts

\* balance_type = 'DEBIT'
DebitAccounts ==
  DebitGroups \cup ExpenseAccounts \cup TransitAccounts \cup ClosingAccounts \cup {"429"}
    \cup (AssetAccounts \ ContraAssets)
=============================================================================
