-------------------------- MODULE StatementsProofs --------------------------
(***************************************************************************)
(* Proofs about Statements, for every set of accounts of the seeded chart. *)
(*                                                                         *)
(* The reports are sums of sums over sets of accounts.  The chart says how *)
(* these sets lie: the lines of a statement name an account once, and the  *)
(* classes of the chart are disjoint.  The balances of a class are then    *)
(* related to each other (the balance sheet and its check) and, because a  *)
(* row holds the totals of its lines, to the lines of the journal (profit  *)
(* and loss, the tax base, what the check measures).                       *)
(***************************************************************************)
EXTENDS Statements, LedgerProofs

-----------------------------------------------------------------------------
(* The chart. *)

\* Each class of the chart has finitely many accounts, listed once more as a
\* sequence: the balance sheet.
LEMMA FiniteSheet ==
  /\ IsFiniteSet(FixedAssets)
  /\ IsFiniteSet(Inventory)
  /\ IsFiniteSet(FinancialAssets)
  /\ IsFiniteSet(Receivables)
  /\ IsFiniteSet(ContraAssets)
  /\ IsFiniteSet(Payables)
  /\ IsFiniteSet(LongTermLiabilities)
  /\ IsFiniteSet(EquityAccounts)
  /\ IsFiniteSet(TransitAccounts)
<1>1. IsFiniteSet(FixedAssets)
  <2> DEFINE s == <<"011", "012", "013", "014", "015", "019", "021", "022",
                    "025", "026", "029", "031", "032", "041", "042", "043",
                    "051", "052", "053", "061", "062", "063", "065", "066",
                    "067", "069">>
  <2>1. s \in Seq(FixedAssets)
        /\ \A a \in FixedAssets : \E n \in 1 .. Len(s) : s[n] = a
    BY DEF FixedAssets
  <2>2. QED
    BY <2>1 DEF IsFiniteSet
<1>2. IsFiniteSet(Inventory)
  <2> DEFINE s == <<"111", "112", "119", "121", "122", "123", "124", "131",
                    "132", "139">>
  <2>1. s \in Seq(Inventory)
        /\ \A a \in Inventory : \E n \in 1 .. Len(s) : s[n] = a
    BY DEF Inventory
  <2>2. QED
    BY <2>1 DEF IsFiniteSet
<1>3. IsFiniteSet(FinancialAssets)
  <2> DEFINE s == <<"211", "213", "221", "222", "223", "251", "253", "255",
                    "256", "259">>
  <2>1. s \in Seq(FinancialAssets)
        /\ \A a \in FinancialAssets : \E n \in 1 .. Len(s) : s[n] = a
    BY DEF FinancialAssets
  <2>2. QED
    BY <2>1 DEF IsFiniteSet
<1>4. IsFiniteSet(Receivables)
  <2> DEFINE s == <<"311", "312", "313", "314", "315", "335", "346", "347",
                    "351", "352", "353", "354", "355", "358", "371", "374",
                    "375", "376", "378", "381", "382", "385", "388">>
  <2>1. s \in Seq(Receivables)
        /\ \A a \in Receivables : \E n \in 1 .. Len(s) : s[n] = a
    BY DEF Receivables
  <2>2. QED
    BY <2>1 DEF IsFiniteSet
<1>5. IsFiniteSet(ContraAssets)
  <2> DEFINE s == <<"071", "072", "073", "074", "075", "079", "081", "082",
                    "085", "086", "089", "091", "092", "093", "094", "095",
                    "096", "191", "192", "193", "194", "195", "196", "197",
                    "291", "391">>
  <2>1. s \in Seq(ContraAssets)
        /\ \A a \in ContraAssets : \E n \in 1 .. Len(s) : s[n] = a
    BY DEF ContraAssets
  <2>2. QED
    BY <2>1 DEF IsFiniteSet
<1>6. IsFiniteSet(Payables)
  <2> DEFINE s == <<"231", "232", "241", "249", "321", "322", "324", "325",
                    "331", "333", "336", "341", "342", "343", "345", "361",
                    "362", "364", "365", "366", "372", "377", "379", "383",
                    "384", "389">>
  <2>1. s \in Seq(Payables)
        /\ \A a \in Payables : \E n \in 1 .. Len(s) : s[n] = a
    BY DEF Payables
  <2>2. QED
    BY <2>1 DEF IsFiniteSet
<1>7. IsFiniteSet(LongTermLiabilities)
  <2> DEFINE s == <<"451", "453", "459", "461", "471", "472", "473", "474",
                    "475", "478", "479", "481">>
  <2>1. s \in Seq(LongTermLiabilities)
        /\ \A a \in LongTermLiabilities : \E n \in 1 .. Len(s) : s[n] = a
    BY DEF LongTermLiabilities
  <2>2. QED
    BY <2>1 DEF IsFiniteSet
<1>8. IsFiniteSet(EquityAccounts)
  <2> DEFINE s == <<"411", "412", "413", "414", "418", "419", "421", "422",
                    "423", "427", "428", "429", "431", "491">>
  <2>1. s \in Seq(EquityAccounts)
        /\ \A a \in EquityAccounts : \E n \in 1 .. Len(s) : s[n] = a
    BY DEF EquityAccounts
  <2>2. QED
    BY <2>1 DEF IsFiniteSet
<1>9. IsFiniteSet(TransitAccounts)
  <2> DEFINE s == <<"261", "373", "395", "398">>
  <2>1. s \in Seq(TransitAccounts)
        /\ \A a \in TransitAccounts : \E n \in 1 .. Len(s) : s[n] = a
    BY DEF TransitAccounts
  <2>2. QED
    BY <2>1 DEF IsFiniteSet
<1>10. QED
  BY <1>1, <1>2, <1>3, <1>4, <1>5, <1>6, <1>7, <1>8, <1>9

\* Profit and loss, the closing accounts, the groups.
LEMMA FiniteRest ==
  /\ IsFiniteSet(ExpenseAccounts)
  /\ IsFiniteSet(RevenueAccounts)
  /\ IsFiniteSet(ClosingAccounts)
  /\ IsFiniteSet(DebitGroups)
  /\ IsFiniteSet(CreditGroups)
<1>1. IsFiniteSet(ExpenseAccounts)
  <2> DEFINE s == <<"501", "502", "503", "504", "511", "512", "513", "518",
                    "521", "522", "523", "524", "525", "526", "527", "528",
                    "531", "532", "538", "541", "542", "543", "544", "545",
                    "546", "548", "549", "551", "552", "554", "555", "557",
                    "558", "559", "561", "562", "563", "564", "566", "567",
                    "568", "569", "574", "579", "581", "582", "583", "584",
                    "585", "586", "587", "588", "591", "592", "593", "595",
                    "596", "597", "598">>
  <2>1. s \in Seq(ExpenseAccounts)
        /\ \A a \in ExpenseAccounts : \E n \in 1 .. Len(s) : s[n] = a
    BY DEF ExpenseAccounts
  <2>2. QED
    BY <2>1 DEF IsFiniteSet
<1>2. IsFiniteSet(RevenueAccounts)
  <2> DEFINE s == <<"601", "602", "604", "611", "612", "613", "614", "621",
                    "622", "623", "624", "641", "642", "644", "646", "648",
                    "661", "662", "663", "664", "665", "666", "667", "668",
                    "697", "698">>
  <2>1. s \in Seq(RevenueAccounts)
        /\ \A a \in RevenueAccounts : \E n \in 1 .. Len(s) : s[n] = a
    BY DEF RevenueAccounts
  <2>2. QED
    BY <2>1 DEF IsFiniteSet
<1>3. IsFiniteSet(ClosingAccounts)
  <2> DEFINE s == <<"701", "702", "710", "751", "752", "753", "758">>
  <2>1. s \in Seq(ClosingAccounts)
        /\ \A a \in ClosingAccounts : \E n \in 1 .. Len(s) : s[n] = a
    BY DEF ClosingAccounts
  <2>2. QED
    BY <2>1 DEF IsFiniteSet
<1>4. IsFiniteSet(DebitGroups)
  <2> DEFINE s == <<"01", "02", "03", "04", "05", "06", "11", "12", "13",
                    "21", "22", "25", "26", "31", "35", "37", "38", "50",
                    "51", "52", "53", "54", "55", "56", "57", "58", "59",
                    "70", "71", "75">>
  <2>1. s \in Seq(DebitGroups)
        /\ \A a \in DebitGroups : \E n \in 1 .. Len(s) : s[n] = a
    BY DEF DebitGroups
  <2>2. QED
    BY <2>1 DEF IsFiniteSet
<1>5. IsFiniteSet(CreditGroups)
  <2> DEFINE s == <<"07", "08", "09", "19", "23", "24", "29", "32", "33",
                    "34", "36", "39", "41", "42", "43", "45", "46", "47",
                    "48", "49", "60", "61", "62", "64", "66", "69">>
  <2>1. s \in Seq(CreditGroups)
        /\ \A a \in CreditGroups : \E n \in 1 .. Len(s) : s[n] = a
    BY DEF CreditGroups
  <2>2. QED
    BY <2>1 DEF IsFiniteSet
<1>6. QED
  BY <1>1, <1>2, <1>3, <1>4, <1>5

\* So an instance, whose accounts are of the chart, has finitely many.
LEMMA FiniteAccounts == IsFiniteSet(Accounts)
<1>1. IsFiniteSet(AssetAccounts)
  BY FiniteSheet, FS_Union DEF AssetAccounts
<1>2. IsFiniteSet(LiabilityAccounts)
  BY FiniteSheet, FS_Union DEF LiabilityAccounts
<1>3. IsFiniteSet(BalanceSheetAccounts)
  BY <1>1, <1>2, FiniteSheet, FS_Union DEF BalanceSheetAccounts
<1>4. IsFiniteSet(PostingAccounts)
  BY <1>3, FiniteRest, FS_Union DEF PostingAccounts
<1>5. IsFiniteSet(GroupAccounts)
  BY FiniteRest, FS_Union DEF GroupAccounts
<1>6. IsFiniteSet(PostingAccounts \cup GroupAccounts)
  BY <1>4, <1>5, FS_Union
<1>7. QED
  BY <1>6, FS_Subset, StatementsAssumption

\* No account is on two lines of a family.
Disjoint(lines_) ==
  \A m, n \in DOMAIN lines_ : m # n => lines_[m] \cap lines_[n] = {}

LEMMA SheetLines == Disjoint(AktivaLines) /\ Disjoint(PasivaLines)
<1>1. Disjoint(AktivaLines)
  BY DEF Disjoint, AktivaLines, Inventory, Receivables
<1>2. Disjoint(PasivaLines)
  BY DEF Disjoint, PasivaLines, Payables
<1>3. QED
  BY <1>1, <1>2

LEMMA ProfitLines ==
  Disjoint(RevenueLines) /\ Disjoint(ExpenseLines) /\ Disjoint(IncomeTaxLines)
<1>1. Disjoint(RevenueLines)
  BY DEF Disjoint, RevenueLines
<1>2. Disjoint(ExpenseLines)
  BY DEF Disjoint, ExpenseLines
<1>3. Disjoint(IncomeTaxLines)
  BY DEF Disjoint, IncomeTaxLines
<1>4. QED
  BY <1>1, <1>2, <1>3

\* The classes of the chart are disjoint.
LEMMA SheetClasses ==
  /\ AssetAccounts \cap Capital = {}
  /\ AssetAccounts \cap TransitAccounts = {}
  /\ Capital \cap TransitAccounts = {}
<1>1. \A c \in {FixedAssets, Inventory, FinancialAssets, Receivables, ContraAssets} :
        /\ c \cap Payables = {} /\ c \cap LongTermLiabilities = {}
        /\ c \cap EquityAccounts = {} /\ c \cap TransitAccounts = {}
  BY DEF FixedAssets, Inventory, FinancialAssets, Receivables, ContraAssets, Payables,
         LongTermLiabilities, EquityAccounts, TransitAccounts
<1>2. QED
  BY <1>1 DEF AssetAccounts, Capital, LiabilityAccounts, Payables, LongTermLiabilities,
              EquityAccounts, TransitAccounts

LEMMA ExpenseNoRevenue == ExpenseAccounts \cap RevenueAccounts = {}
BY DEF ExpenseAccounts, RevenueAccounts

LEMMA ProfitNotOnSheet ==
  (AssetAccounts \cup Capital) \cap (ExpenseAccounts \cup RevenueAccounts) = {}
BY DEF Capital, LiabilityAccounts, LongTermLiabilities, EquityAccounts, Payables,
       ExpenseAccounts, RevenueAccounts, AssetAccounts, FixedAssets, Inventory,
       FinancialAssets, Receivables, ContraAssets

\* The lines of the balance sheet against the types of the accounts: besides
\* assets the left side holds money in transit and the tax accounts, which are
\* on both sides.
LEMMA OnAktiva == On(AktivaLines) \subseteq AssetAccounts \cup TransitAccounts \cup DualNature
BY DEF On, AktivaLines, AssetAccounts, TransitAccounts, DualNature, FixedAssets, Inventory,
       FinancialAssets, Receivables, ContraAssets

LEMMA OnPasiva == On(PasivaLines) \subseteq Capital
BY DEF On, PasivaLines, Capital, LiabilityAccounts, LongTermLiabilities, EquityAccounts, Payables

LEMMA DualOn == DualNature \subseteq On(AktivaLines) \cap On(PasivaLines)
<1>1. DualNature \subseteq AktivaLines.C_II /\ "C_II" \in DOMAIN AktivaLines
  BY DEF DualNature, AktivaLines
<1>2. DualNature \subseteq PasivaLines.B_III /\ "B_III" \in DOMAIN PasivaLines
  BY DEF DualNature, PasivaLines, Payables
<1>3. QED
  BY <1>1, <1>2 DEF On

\* The sides of the accounts.
LEMMA DualSide == DualNature \cap DebitAccounts = {}
BY DEF DualNature, DebitAccounts, DebitGroups, ExpenseAccounts, TransitAccounts,
       ClosingAccounts, AssetAccounts, FixedAssets, Inventory, FinancialAssets, Receivables,
       ContraAssets

LEMMA AssetSide == AssetAccounts \ ContraAssets \subseteq DebitAccounts
BY DEF DebitAccounts

LEMMA CapitalSide == Capital \cap DebitAccounts = {"429"}
BY DEF Capital, LiabilityAccounts, LongTermLiabilities, EquityAccounts, Payables,
       DebitAccounts, DebitGroups, ExpenseAccounts, TransitAccounts, ClosingAccounts,
       AssetAccounts, FixedAssets, Inventory, FinancialAssets, Receivables, ContraAssets

\* The lines of profit and loss.
LEMMA RevenueOnLines == On(RevenueLines) \subseteq RevenueAccounts
BY DEF On, RevenueLines, RevenueAccounts

LEMMA ExpensesOnLines == On(ExpenseLines) \cup On(IncomeTaxLines) \subseteq ExpenseAccounts
BY DEF On, ExpenseLines, IncomeTaxLines, ExpenseAccounts

LEMMA TaxOffExpenseLines == On(ExpenseLines) \cap On(IncomeTaxLines) = {}
BY DEF On, ExpenseLines, IncomeTaxLines

LEMMA NonDeductibleOnLines == NonDeductible \subseteq On(ExpenseLines)
BY DEF On, ExpenseLines, NonDeductible

\* A statement has finitely many lines.
LEMMA FewSheetLines == IsFiniteSet(DOMAIN AktivaLines) /\ IsFiniteSet(DOMAIN PasivaLines)
<1>1. IsFiniteSet(DOMAIN AktivaLines)
  <2> DEFINE D == {"B_I", "B_II", "B_III", "C_I", "C_II", "C_III", "C_IV"}
             s == <<"B_I", "B_II", "B_III", "C_I", "C_II", "C_III", "C_IV">>
  <2>1. DOMAIN AktivaLines = D
    BY DEF AktivaLines
  <2>2. s \in Seq(D) /\ \A n \in D : \E k \in 1 .. Len(s) : s[k] = n
    OBVIOUS
  <2>3. IsFiniteSet(D)
    BY <2>2 DEF IsFiniteSet
  <2>4. QED
    BY <2>1, <2>3
<1>2. IsFiniteSet(DOMAIN PasivaLines)
  <2> DEFINE D == {"A_I", "A_II", "A_III", "A_IV", "A_V", "B_I", "B_II", "B_III", "C"}
             s == <<"A_I", "A_II", "A_III", "A_IV", "A_V", "B_I", "B_II", "B_III", "C">>
  <2>1. DOMAIN PasivaLines = D
    BY DEF PasivaLines
  <2>2. s \in Seq(D) /\ \A n \in D : \E k \in 1 .. Len(s) : s[k] = n
    OBVIOUS
  <2>3. IsFiniteSet(D)
    BY <2>2 DEF IsFiniteSet
  <2>4. QED
    BY <2>1, <2>3
<1>3. QED
  BY <1>1, <1>2

LEMMA FewProfitLines ==
  /\ IsFiniteSet(DOMAIN RevenueLines)
  /\ IsFiniteSet(DOMAIN ExpenseLines)
  /\ IsFiniteSet(DOMAIN IncomeTaxLines)
<1>1. IsFiniteSet(DOMAIN RevenueLines)
  <2> DEFINE D == {"I", "II", "III", "IV", "V", "VI", "VII"}
             s == <<"I", "II", "III", "IV", "V", "VI", "VII">>
  <2>1. DOMAIN RevenueLines = D
    BY DEF RevenueLines
  <2>2. s \in Seq(D) /\ \A n \in D : \E k \in 1 .. Len(s) : s[k] = n
    OBVIOUS
  <2>3. IsFiniteSet(D)
    BY <2>2 DEF IsFiniteSet
  <2>4. QED
    BY <2>1, <2>3
<1>2. IsFiniteSet(DOMAIN ExpenseLines)
  <2> DEFINE D == {"A", "B", "C", "D", "E", "F", "G", "J"}
             s == <<"A", "B", "C", "D", "E", "F", "G", "J">>
  <2>1. DOMAIN ExpenseLines = D
    BY DEF ExpenseLines
  <2>2. s \in Seq(D) /\ \A n \in D : \E k \in 1 .. Len(s) : s[k] = n
    OBVIOUS
  <2>3. IsFiniteSet(D)
    BY <2>2 DEF IsFiniteSet
  <2>4. QED
    BY <2>1, <2>3
<1>3. IsFiniteSet(DOMAIN IncomeTaxLines)
  <2>1. DOMAIN IncomeTaxLines = {"L"} \cup {"M"}
    BY DEF IncomeTaxLines
  <2>2. IsFiniteSet({"L"}) /\ IsFiniteSet({"M"})
    BY FS_Singleton
  <2>3. IsFiniteSet({"L"} \cup {"M"})
    BY <2>2, FS_Union
  <2>4. QED
    BY <2>1, <2>3
<1>4. QED
  BY <1>1, <1>2, <1>3

-----------------------------------------------------------------------------
(* Sums in parts. *)

\* A set in two parts.
Parts(U, R, S) == U = R \cup S /\ R \cap S = {}

\* The sum over a set in two parts.
LEMMA SumTwo ==
  ASSUME NEW U, IsFiniteSet(U), NEW f, IntValued(f, U), NEW R, NEW S, Parts(U, R, S)
  PROVE  /\ SumOf(f, U) = SumOf(f, R) + SumOf(f, S)
         /\ SumOf(f, R) \in Int /\ SumOf(f, S) \in Int
<1>1. IsFiniteSet(R) /\ IsFiniteSet(S) /\ IntValued(f, R) /\ IntValued(f, S)
  BY FS_Subset DEF IntValued, Parts
<1>2. U = R \cup S /\ R \cap S = {}
  BY DEF Parts
<1>3. QED
  BY <1>1, <1>2, SumUnion, SumType

\* The sum of differences is the difference of the sums.
LEMMA SumMinus ==
  ASSUME NEW S, IsFiniteSet(S), NEW f, IntValued(f, S), NEW g, IntValued(g, S),
         NEW h, \A x \in S : h[x] = f[x] - g[x]
  PROVE  SumOf(h, S) = SumOf(f, S) - SumOf(g, S)
<1> DEFINE T == {s \in SUBSET S : SumOf(h, s) = SumOf(f, s) - SumOf(g, s)}
<1>1. {} \in T
  BY SumEmpty
<1>2. ASSUME NEW s \in SUBSET S, NEW x \in S \ s, s \in T
      PROVE  s \cup {x} \in T
  <2>1. /\ IsFiniteSet(s) /\ x \notin s
        /\ IntValued(f, s \cup {x}) /\ IntValued(g, s \cup {x}) /\ IntValued(h, s \cup {x})
    BY FS_Subset DEF IntValued
  <2>2. SumOf(f, s \cup {x}) = f[x] + SumOf(f, s) /\ SumOf(f, s) \in Int
    BY <2>1, SumAdd
  <2>3. SumOf(g, s \cup {x}) = g[x] + SumOf(g, s) /\ SumOf(g, s) \in Int
    BY <2>1, SumAdd
  <2>4. SumOf(h, s \cup {x}) = h[x] + SumOf(h, s)
    BY <2>1, SumAdd
  <2>5. f[x] \in Int /\ g[x] \in Int /\ h[x] = f[x] - g[x]
    BY DEF IntValued
  <2>6. SumOf(h, s) = SumOf(f, s) - SumOf(g, s)
    BY <1>2
  <2>7. SumOf(h, s \cup {x}) = SumOf(f, s \cup {x}) - SumOf(g, s \cup {x})
    BY <2>2, <2>3, <2>4, <2>5, <2>6
  <2>8. QED
    BY <2>7
<1>3. SumFold!Grows(S, T)
  BY <1>1, <1>2 DEF SumFold!Grows
<1>4. S \in T
  <2> HIDE DEF T
  <2>1. QED
    BY <1>3, SumFinite, SumFold!SubsetInduction
<1>5. QED
  BY <1>4

\* The lines of a family add up to the sum over the accounts they name.
LEMMA FamilySum ==
  ASSUME NEW fam, IsFiniteSet(DOMAIN fam), Disjoint(fam), NEW accts, IsFiniteSet(accts),
         NEW f, IntValued(f, On(fam) \cap accts),
         NEW totals, \A n \in DOMAIN fam : totals[n] = SumOf(f, fam[n] \cap accts)
  PROVE  SumOf(totals, DOMAIN fam) = SumOf(f, On(fam) \cap accts)
<1> DEFINE S == On(fam) \cap accts
           key == [a \in S |-> CHOOSE n \in DOMAIN fam : a \in fam[n]]
<1>1. IsFiniteSet(S)
  BY FS_Subset
<1>2. \A a \in S : key[a] \in DOMAIN fam /\ a \in fam[key[a]]
  <2> SUFFICES ASSUME NEW a \in S PROVE key[a] \in DOMAIN fam /\ a \in fam[key[a]]
    OBVIOUS
  <2>1. \E n \in DOMAIN fam : a \in fam[n]
    BY DEF On
  <2>2. QED
    BY <2>1
<1>3. \A n \in DOMAIN fam : {a \in S : key[a] = n} = fam[n] \cap accts
  <2> SUFFICES ASSUME NEW n \in DOMAIN fam PROVE {a \in S : key[a] = n} = fam[n] \cap accts
    OBVIOUS
  <2>1. \A a \in S : key[a] = n => a \in fam[n] \cap accts
    BY <1>2
  <2>2. \A a \in fam[n] \cap accts : a \in S
    BY DEF On
  <2>3. \A a \in fam[n] \cap accts : key[a] = n
    BY <1>2, <2>2 DEF Disjoint
  <2> HIDE DEF S, key
  <2>4. QED
    BY <2>1, <2>2, <2>3
<1>4. ByKey(totals, f, S, DOMAIN fam, key)
  <2> HIDE DEF S, key
  <2>1. QED
    BY <1>2, <1>3 DEF ByKey
<1>5. IntValued(f, S)
  OBVIOUS
<1> HIDE DEF S, key
<1>6. SumOf(totals, DOMAIN fam) = SumOf(f, S)
  BY <1>1, <1>4, <1>5, SumByKey
<1>7. QED
  BY <1>6 DEF S

-----------------------------------------------------------------------------
(* The books the reports are read from. *)

\* What the sums need besides types and balances: finitely many lines, none on an
\* account that refuses postings, and opening balances that are numbers.
BooksSound(db) ==
  /\ IsFiniteSet(db.lines)
  /\ \A l \in db.lines : l.account \in Postable
  /\ \A p \in Periods, a \in Accounts :
       db.balances[p][a] # NoRow => db.balances[p][a].opening \in Int

\* The lines of a request.
LEMMA RowsFinite ==
  ASSUME NEW id, NEW req, IsFiniteSet(DOMAIN req), NEW rate
  PROVE  IsFiniteSet(LineRows(id, req, rate))
<1> DEFINE row(i) == [entry |-> id, order |-> i - 1, account |-> req[i].account,
                      side |-> req[i].side, foreign |-> RoundHalfUp(req[i].amount, Sub),
                      czk |-> RoundHalfEven(req[i].amount * rate, Sub * RateScale)]
           part == [i \in DOMAIN req |-> {row(i)}]
           all == UNION {part[i] : i \in DOMAIN req}
<1>1. LineRows(id, req, rate) = {row(i) : i \in DOMAIN req}
  BY DEF LineRows
<1> HIDE DEF row
<1>2. \A i \in DOMAIN req : IsFiniteSet(part[i])
  BY FS_Singleton
<1>3. {row(i) : i \in DOMAIN req} = all
  OBVIOUS
<1>4. IsFiniteSet(all)
  <2> HIDE DEF part
  <2>1. QED
    BY <1>2, FiniteParts
<1>5. QED
  BY <1>1, <1>3, <1>4

\* Posting and voiding keep the books sound.
LEMMA PostSound ==
  ASSUME NEW db, IsTables(db), BooksSound(db), NEW req, IsFiniteSet(DOMAIN req),
         AccountsOf(req) \subseteq Postable, NEW p \in Periods, NEW rate, NEW head
  PROVE  BooksSound(PostTo(db, req, p, rate, head))
<1> DEFINE id == Len(db.entries) + 1
           new == LineRows(id, req, rate)
           to == PostTo(db, req, p, rate, head)
<1>1. to.lines = db.lines \cup new
  BY DEF PostTo
<1>2. IsFiniteSet(new)
  BY RowsFinite
<1>3. \A l \in new : l.account \in Postable
  BY DEF LineRows, AccountsOf
<1>4. OpeningsFrom(db, to)
  BY PostOpenings
<1> HIDE DEF new, to
<1>5. IsFiniteSet(to.lines)
  BY <1>1, <1>2, FS_Union DEF BooksSound
<1>6. \A l \in to.lines : l.account \in Postable
  BY <1>1, <1>3 DEF BooksSound
<1>7. \A q \in Periods, a \in Accounts :
        to.balances[q][a] # NoRow => to.balances[q][a].opening \in Int
  BY <1>4 DEF BooksSound, OpeningsFrom
<1>8. BooksSound(to)
  BY <1>5, <1>6, <1>7 DEF BooksSound
<1>9. QED
  BY <1>8 DEF to

LEMMA VoidSound ==
  ASSUME NEW db, IsTables(db), BooksSound(db), NEW id \in DOMAIN db.entries
  PROVE  BooksSound(VoidIn(db, id))
<1>1. VoidIn(db, id).lines = db.lines
  BY DEF VoidIn
<1>2. OpeningsFrom(db, VoidIn(db, id))
  BY VoidOpenings
<1>3. QED
  BY <1>1, <1>2 DEF BooksSound, OpeningsFrom

\* Requests and mirrors are finite.
LEMMA RequestFinite ==
  ASSUME NEW req \in Requests \cup Corrections
  PROVE  IsFiniteSet(DOMAIN req)
<1>1. req \in Seq(RequestLine)
  BY ConstantsAssumption
<1>2. DOMAIN req = 1 .. Len(req) /\ Len(req) \in Nat
  BY <1>1
<1>3. IsFiniteSet(1 .. Len(req))
  BY <1>2, FS_Interval
<1>4. QED
  BY <1>2, <1>3

LEMMA MirrorFinite ==
  ASSUME IsFiniteSet(lines), NEW id
  PROVE  IsFiniteSet(DOMAIN MirrorOf(lines, id))
<1> DEFINE mine == LinesOf(lines, id)
           part == [l \in mine |-> {l.order + 1}]
           all == UNION {part[l] : l \in mine}
<1>1. IsFiniteSet(mine)
  BY FS_Subset DEF LinesOf
<1>2. DOMAIN MirrorOf(lines, id) = {l.order + 1 : l \in mine}
  BY DEF MirrorOf
<1> HIDE DEF mine
<1>3. {l.order + 1 : l \in mine} = all
  OBVIOUS
<1>4. \A l \in mine : IsFiniteSet(part[l])
  BY FS_Singleton
<1>5. IsFiniteSet(all)
  <2> HIDE DEF part
  <2>1. QED
    BY <1>1, <1>4, FiniteParts
<1>6. QED
  BY <1>2, <1>3, <1>5

LEMMA ReversedSound ==
  ASSUME TypedAndConsistent, BooksSound(Tables), NEW id \in DOMAIN entries, NEW p \in Periods,
         NEW rate \in RatesFor(entries[id].currency), CanReverse(id, p, rate)
  PROVE  BooksSound(Reversed(id, p, rate))
<1> DEFINE head == [type |-> "REVERSAL", reverses |-> id, currency |-> entries[id].currency]
           req == MirrorOf(lines, id)
           db == PostTo(Tables, req, p, rate, head)
<1>1. entries \in Seq(Entry) /\ lines \subseteq Line
  BY DEF TypedAndConsistent, TypeOK
<1>2. entries[id] \in Entry /\ id \in Nat
  BY <1>1
<1>3. IsHead(head)
  BY <1>2 DEF IsHead, Entry
<1>4. IsLineList(req)
  BY <1>1, MirrorType DEF CanReverse
<1>5. IsTables(Tables) /\ Consistent(Tables) /\ rate \in Nat \ {0}
  BY TablesOfState, RateType
<1>6. IsFiniteSet(DOMAIN req)
  BY MirrorFinite DEF BooksSound, Tables
<1>7. AccountsOf(req) \subseteq Postable
  <2>1. AccountsOf(req) \subseteq AccountsOfEntry(lines, id)
    BY <1>1, MirrorAccounts
  <2>2. QED
    BY <2>1 DEF CanReverse
<1>8. IsTables(db) /\ Extends(Tables, db, p) /\ BooksSound(db)
  <2> HIDE DEF head, req
  <2>1. QED
    BY <1>3, <1>4, <1>5, <1>6, <1>7, PostPreserves, PostExtends, PostSound
<1>9. id \in DOMAIN db.entries
  BY <1>8 DEF Extends, EntriesExtend, Tables
<1>10. Reversed(id, p, rate) = VoidIn(db, id)
  BY DEF Reversed
<1> HIDE DEF db
<1>11. QED
  BY <1>8, <1>9, <1>10, VoidSound

\* The inductive invariant.
BooksInv == TypedAndConsistent /\ BooksSound(Tables)

\* The amounts of the lines, as a function.
Czk == [l \in lines |-> l.czk]

\* A total of lines is the sum of their amounts.
LEMMA TotalIs ==
  ASSUME BooksInv, NEW ls \in SUBSET lines
  PROVE  TotalCzk(ls) = SumOf(Czk, ls) /\ IntValued(Czk, ls) /\ IsFiniteSet(ls)
<1> DEFINE own == [l \in ls |-> l.czk]
<1>1. IsFiniteSet(ls)
  BY FS_Subset DEF BooksInv, BooksSound, Tables
<1>2. IntValued(Czk, ls)
  BY DEF BooksInv, TypedAndConsistent, TypeOK, Line, IntValued, Czk
<1>3. MapThenSumSet(LAMBDA l : l.czk, ls) = SumOf(own, ls)
  BY CzkSum
<1>4. \A l \in ls : own[l] = Czk[l]
  BY DEF Czk
<1>5. SumOf(own, ls) = SumOf(Czk, ls)
  <2> HIDE DEF own
  <2>1. QED
    BY <1>1, <1>2, <1>4, SumCongruent
<1>6. TotalCzk(ls) = IF ls = {} THEN 0 ELSE SumOf(Czk, ls)
  BY <1>3, <1>5 DEF TotalCzk
<1>7. ls = {} => SumOf(Czk, ls) = 0
  BY SumEmpty
<1>8. QED
  BY <1>1, <1>2, <1>6, <1>7

LEMMA TotalInt ==
  ASSUME BooksInv, NEW ls \in SUBSET lines
  PROVE  TotalCzk(ls) \in Int
BY TotalIs, SumType

\* What a row of the balances holds.
LEMMA RowOfAccount ==
  ASSUME BooksInv, NEW p \in Periods, NEW a \in Accounts, HasRow(p, a)
  PROVE  LET row == balances[p][a]
             mine == PostedLines(entries, lines, p, a)
         IN  /\ row.debit = TotalCzk(OnSide(mine, "DEBIT"))
             /\ row.credit = TotalCzk(OnSide(mine, "CREDIT"))
             /\ row.count = Cardinality(mine)
             /\ row.closing = Closing(a, row.opening, row.debit, row.credit)
             /\ row.opening \in Int /\ row.debit \in Int /\ row.credit \in Int
             /\ row.closing \in Int
<1> DEFINE row == balances[p][a]
           mine == PostedLines(entries, lines, p, a)
           deb == TotalCzk(OnSide(mine, "DEBIT"))
           cre == TotalCzk(OnSide(mine, "CREDIT"))
           cnt == Cardinality(mine)
<1>1. row # NoRow
  BY DEF HasRow
<1>2. row = Row(a, row.opening, deb, cre, cnt)
  BY <1>1 DEF BooksInv, TypedAndConsistent, BalancesMatchLedger, RowMatches
<1>3. row.opening \in Int
  BY <1>1 DEF BooksInv, BooksSound, Tables
<1>4. OnSide(mine, "DEBIT") \in SUBSET lines /\ OnSide(mine, "CREDIT") \in SUBSET lines
  BY DEF PostedLines, OnSide
<1>5. deb \in Int /\ cre \in Int
  BY <1>4, TotalInt
<1> HIDE DEF deb, cre, cnt
<1>6. /\ row.debit = deb /\ row.credit = cre /\ row.count = cnt
      /\ row.closing = Closing(a, row.opening, deb, cre)
  BY <1>2 DEF Row
<1>7. row.closing \in Int
  BY <1>3, <1>5, <1>6 DEF Closing
<1>8. QED
  BY <1>3, <1>5, <1>6, <1>7 DEF deb, cre, cnt

\* The invariant holds in the initial states, is kept by every step, and so
\* holds always.
LEMMA SoundInit == Init => BooksInv
<1> SUFFICES ASSUME Init PROVE BooksInv
  OBVIOUS
<1>1. TypedAndConsistent
  BY TypedInit
<1>2. BooksSound(Tables)
  BY FS_EmptySet DEF Init, BooksSound, Tables
<1>3. QED
  BY <1>1, <1>2 DEF BooksInv

LEMMA CommitSound ==
  ASSUME NEW db, BooksSound(db), Commit(db)
  PROVE  BooksSound(Tables)'
BY DEF BooksSound, Commit, Tables

\* The openings a closing carries are closing balances of its own period.
LEMMA CloseSound ==
  ASSUME BooksInv, NEW p \in Periods, ClosePeriod(p)
  PROVE  BooksSound(Tables)'
<1>1. lines' = lines
  BY DEF ClosePeriod
<1>2. IsFiniteSet(lines') /\ \A l \in lines' : l.account \in Postable
  BY <1>1 DEF BooksInv, BooksSound, Tables
<1>3. ASSUME NEW q \in Periods, NEW a \in Accounts, balances'[q][a] # NoRow
      PROVE  balances'[q][a].opening \in Int
  <2>1. CASE UNCHANGED balances
    BY <1>3, <2>1 DEF BooksInv, BooksSound, Tables
  <2>2. ASSUME NEW n \in NextPeriods(p), balances' = CarriedInto(balances, p, n)
        PROVE  balances'[q][a].opening \in Int
    <3>1. n \in Periods /\ DOMAIN balances = Periods
      BY DEF NextPeriods, BooksInv, TypedAndConsistent, TypeOK
    <3>2. balances'[q][a] = IF q = n /\ a \in Carried(p)
                            THEN Row(a, balances[p][a].closing, 0, 0, 0)
                            ELSE balances[q][a]
      BY <2>2, <3>1 DEF CarriedInto
    <3>3. CASE q = n /\ a \in Carried(p)
      <4>1. HasRow(p, a)
        BY <3>3 DEF Carried, HasRow
      <4>2. balances[p][a].closing \in Int
        BY <4>1, RowOfAccount
      <4>3. QED
        BY <3>2, <3>3, <4>2 DEF Row
    <3>4. CASE ~(q = n /\ a \in Carried(p))
      BY <1>3, <3>2, <3>4 DEF BooksInv, BooksSound, Tables
    <3>5. QED
      BY <3>3, <3>4
  <2>3. QED
    BY <2>1, <2>2 DEF ClosePeriod
<1>4. QED
  BY <1>2, <1>3 DEF BooksSound, Tables

LEMMA SoundStep == BooksInv /\ [Next]_vars => BooksInv'
<1> SUFFICES ASSUME BooksInv, [Next]_vars PROVE BooksInv'
  OBVIOUS
<1>1. TypedAndConsistent /\ IsTables(Tables) /\ BooksSound(Tables)
  BY TablesOfState DEF BooksInv
<1>2. ASSUME NEW req \in Requests, NEW p \in Periods, NEW currency \in {"CZK", "FX"},
             NEW rate \in RatesFor(currency), PostJournalEntry(req, p, currency, rate)
      PROVE  BooksSound(Tables)'
  <2> DEFINE head == [type |-> "STANDARD", reverses |-> NoEntry, currency |-> currency]
             db == PostTo(Tables, req, p, rate, head)
  <2>1. Commit(db) /\ AccountsOf(req) \subseteq Postable
    BY <1>2 DEF PostJournalEntry, Acceptable
  <2>2. IsFiniteSet(DOMAIN req)
    BY RequestFinite
  <2> HIDE DEF head
  <2>3. BooksSound(db)
    BY <1>1, <2>1, <2>2, PostSound
  <2> HIDE DEF db
  <2>4. QED
    BY <2>1, <2>3, CommitSound
<1>3. ASSUME NEW id \in DOMAIN entries, NEW p \in Periods,
             NEW rate \in RatesFor(entries[id].currency),
             ReverseJournalEntry(id, p, rate)
      PROVE  BooksSound(Tables)'
  BY <1>1, <1>3, ReversedSound, CommitSound DEF ReverseJournalEntry
<1>4. ASSUME NEW id \in DOMAIN entries, NEW p \in Periods,
             NEW rate \in RatesFor(entries[id].currency), NEW req \in Corrections,
             ReverseAndCorrect(id, p, rate, req)
      PROVE  BooksSound(Tables)'
  <2> DEFINE head == [type |-> "CORRECTION", reverses |-> NoEntry,
                      currency |-> entries[id].currency]
             mid == Reversed(id, p, rate)
             db == PostTo(mid, req, p, rate, head)
  <2>1. Commit(db) /\ CanReverse(id, p, rate) /\ AccountsOf(req) \subseteq Postable
    BY <1>4 DEF ReverseAndCorrect, Acceptable
  <2>2. IsTables(mid) /\ BooksSound(mid) /\ IsFiniteSet(DOMAIN req)
    BY <1>1, <2>1, ReversedPreserves, ReversedSound, RequestFinite
  <2> HIDE DEF mid, head
  <2>3. BooksSound(db)
    BY <2>1, <2>2, PostSound
  <2> HIDE DEF db
  <2>4. QED
    BY <2>1, <2>3, CommitSound
<1>5. ASSUME NEW p \in Periods, SeedPeriod(p) \/ OpenPeriod(p) \/ LockPeriod(p)
      PROVE  BooksSound(Tables)'
  <2>1. UNCHANGED <<entries, lines, balances>>
    BY <1>5 DEF SeedPeriod, OpenPeriod, LockPeriod
  <2>2. QED
    BY <1>1, <2>1 DEF BooksSound, Tables
<1>6. CASE UNCHANGED vars
  <2>1. Tables' = Tables
    BY <1>6 DEF vars, Tables
  <2>2. BooksSound(Tables)'
    BY <1>1, <2>1 DEF BooksSound
  <2>3. QED
    BY <2>2, <1>1, <1>6 DEF vars, BooksInv, TypedAndConsistent, TypeOK, BalancesMatchLedger
<1>7. CASE Next
  <2>1. BooksSound(Tables)'
    BY <1>2, <1>3, <1>4, <1>5, <1>7, CloseSound
    DEF Next, PostingRequest, ReversalRequest, PeriodRequest
  <2>2. TypedAndConsistent'
    BY <1>1, TypedStep
  <2>3. QED
    BY <2>1, <2>2 DEF BooksInv
<1>8. QED
  BY <1>6, <1>7

LEMMA BooksAlways == Spec => []BooksInv
BY SoundInit, SoundStep, PTL DEF Spec

-----------------------------------------------------------------------------
(* Sums of columns. *)

\* The accounts with a row, and the columns of the rows as functions.
Rows(p) == {a \in Accounts : HasRow(p, a)}

Closings(p) == [a \in Accounts |-> balances[p][a].closing]

Openings(p) == [a \in Accounts |-> balances[p][a].opening]

Debits(p) == [a \in Accounts |-> balances[p][a].debit]

Credits(p) == [a \in Accounts |-> balances[p][a].credit]

\* The columns hold integers.
LEMMA ColumnsTyped ==
  ASSUME BooksInv, NEW p \in Periods, NEW S \in SUBSET Rows(p)
  PROVE  /\ IsFiniteSet(S)
         /\ IntValued(Closings(p), S) /\ IntValued(Openings(p), S)
         /\ IntValued(Debits(p), S) /\ IntValued(Credits(p), S)
<1>1. IsFiniteSet(S)
  BY FiniteAccounts, FS_Subset DEF Rows
<1>2. \A a \in S : a \in Accounts /\ HasRow(p, a)
  BY DEF Rows
<1>3. \A a \in S : /\ balances[p][a].opening \in Int /\ balances[p][a].debit \in Int
                   /\ balances[p][a].credit \in Int /\ balances[p][a].closing \in Int
  BY <1>2, RowOfAccount
<1>4. QED
  BY <1>1, <1>2, <1>3 DEF IntValued, Closings, Openings, Debits, Credits

\* The sums of the columns.
ClosingOver(p, S) == SumOver(S, LAMBDA a : balances[p][a].closing)
OpeningOver(p, S) == SumOver(S, LAMBDA a : balances[p][a].opening)
DebitOver(p, S) == SumOver(S, LAMBDA a : balances[p][a].debit)

LEMMA ClosingSum ==
  ASSUME NEW p, NEW S
  PROVE  ClosingOver(p, S) = SumOf([a \in S |-> balances[p][a].closing], S)
BY DEF ClosingOver, SumOver, MapThenSumSet, MapThenFoldSet, SumOf, SumFold!Iterated,
       SumFold!Unfold, AnyOf, Plus

LEMMA OpeningSum ==
  ASSUME NEW p, NEW S
  PROVE  OpeningOver(p, S) = SumOf([a \in S |-> balances[p][a].opening], S)
BY DEF OpeningOver, SumOver, MapThenSumSet, MapThenFoldSet, SumOf, SumFold!Iterated,
       SumFold!Unfold, AnyOf, Plus

LEMMA DebitSum ==
  ASSUME NEW p, NEW S
  PROVE  DebitOver(p, S) = SumOf([a \in S |-> balances[p][a].debit], S)
BY DEF DebitOver, SumOver, MapThenSumSet, MapThenFoldSet, SumOf, SumFold!Iterated,
       SumFold!Unfold, AnyOf, Plus

\* The sums of the reports are sums of the columns.
LEMMA SheetSums ==
  ASSUME BooksInv, NEW p \in Periods, NEW S \in SUBSET Rows(p)
  PROVE  /\ ClosingOver(p, S) = SumOf(Closings(p), S)
         /\ OpeningOver(p, S) = SumOf(Openings(p), S)
         /\ DebitOver(p, S) = SumOf(Debits(p), S)
<1> DEFINE c == [a \in S |-> balances[p][a].closing]
           o == [a \in S |-> balances[p][a].opening]
           d == [a \in S |-> balances[p][a].debit]
<1>1. /\ IsFiniteSet(S)
      /\ IntValued(Closings(p), S) /\ IntValued(Openings(p), S) /\ IntValued(Debits(p), S)
  BY ColumnsTyped
<1>2. /\ \A a \in S : c[a] = Closings(p)[a]
      /\ \A a \in S : o[a] = Openings(p)[a]
      /\ \A a \in S : d[a] = Debits(p)[a]
  BY DEF Closings, Openings, Debits, Rows
<1>3. ClosingOver(p, S) = SumOf(c, S)
  BY ClosingSum
<1>4. OpeningOver(p, S) = SumOf(o, S)
  BY OpeningSum
<1>5. DebitOver(p, S) = SumOf(d, S)
  BY DebitSum
<1> HIDE DEF c, o, d
<1>6. SumOf(c, S) = SumOf(Closings(p), S)
  BY <1>1, <1>2, SumCongruent
<1>7. SumOf(o, S) = SumOf(Openings(p), S)
  BY <1>1, <1>2, SumCongruent
<1>8. SumOf(d, S) = SumOf(Debits(p), S)
  BY <1>1, <1>2, SumCongruent
<1>9. QED
  BY <1>3, <1>4, <1>5, <1>6, <1>7, <1>8

-----------------------------------------------------------------------------
(* The balance sheet and its check. *)

\* The balance an account is shown with on one side of the balance sheet.
ShownAs(p, side) == [a \in Accounts |-> Shown(p, a, side)]

ShownOver(p, side, S) == SumOver(S, LAMBDA a : Shown(p, a, side))

LEMMA ShownSum ==
  ASSUME NEW p, NEW side, NEW S
  PROVE  ShownOver(p, side, S) = SumOf([a \in S |-> Shown(p, a, side)], S)
BY DEF ShownOver, SumOver, MapThenSumSet, MapThenFoldSet, SumOf, SumFold!Iterated,
       SumFold!Unfold, AnyOf, Plus

ShownLines(p, side, fam) ==
  SumOver(DOMAIN fam, LAMBDA n : ShownOver(p, side, fam[n] \cap TrialBalance(p)))

LEMMA ShownLinesSum ==
  ASSUME NEW p, NEW side, NEW fam
  PROVE  ShownLines(p, side, fam)
           = SumOf([n \in DOMAIN fam |-> ShownOver(p, side, fam[n] \cap TrialBalance(p))],
                   DOMAIN fam)
BY DEF ShownLines, SumOver, MapThenSumSet, MapThenFoldSet, SumOf, SumFold!Iterated,
       SumFold!Unfold, AnyOf, Plus

\* Balances are shown as integers.
LEMMA ShownTyped ==
  ASSUME BooksInv, NEW p \in Periods, NEW side \in {"aktiva", "pasiva"}, NEW S \in SUBSET Rows(p)
  PROVE  IntValued(ShownAs(p, side), S)
<1>1. ASSUME NEW a \in S PROVE ShownAs(p, side)[a] \in Int
  <2>1. a \in Accounts /\ HasRow(p, a)
    BY DEF Rows
  <2>2. balances[p][a].closing \in Int
    BY <2>1, RowOfAccount
  <2>3. Shown(p, a, side) \in Int
    BY <2>2 DEF Shown, Positive, DebitPosition
  <2>4. QED
    BY <2>1, <2>3 DEF ShownAs
<1>2. QED
  BY <1>1 DEF IntValued

\* A side of the balance sheet is the sum over the accounts on its lines.
LEMMA ShownTotal ==
  ASSUME BooksInv, NEW p \in Periods, NEW side \in {"aktiva", "pasiva"},
         NEW fam, IsFiniteSet(DOMAIN fam), Disjoint(fam)
  PROVE  ShownLines(p, side, fam) = SumOf(ShownAs(p, side), On(fam) \cap TrialBalance(p))
<1> DEFINE A == TrialBalance(p)
           f == ShownAs(p, side)
           totals == [n \in DOMAIN fam |-> ShownOver(p, side, fam[n] \cap A)]
<1>1. A \in SUBSET Rows(p) /\ On(fam) \cap A \in SUBSET Rows(p)
  BY DEF TrialBalance, Rows
<1>2. IsFiniteSet(A) /\ IntValued(f, On(fam) \cap A)
  BY <1>1, ColumnsTyped, ShownTyped
<1>3. ASSUME NEW n \in DOMAIN fam PROVE totals[n] = SumOf(f, fam[n] \cap A)
  <2> DEFINE R == fam[n] \cap A
             g == [a \in R |-> Shown(p, a, side)]
  <2>1. totals[n] = SumOf(g, R)
    BY ShownSum
  <2>2. R \in SUBSET Rows(p)
    BY <1>1
  <2>3. IsFiniteSet(R) /\ IntValued(f, R)
    BY <2>2, ColumnsTyped, ShownTyped
  <2>4. \A a \in R : g[a] = f[a]
    BY <2>2 DEF ShownAs, Rows
  <2> HIDE DEF R, g, f, totals
  <2>5. SumOf(g, R) = SumOf(f, R)
    BY <2>3, <2>4, SumCongruent
  <2>6. QED
    BY <2>1, <2>5 DEF R
<1>4. ShownLines(p, side, fam) = SumOf(totals, DOMAIN fam)
  BY ShownLinesSum
<1> HIDE DEF f, totals, A
<1>5. SumOf(totals, DOMAIN fam) = SumOf(f, On(fam) \cap A)
  BY <1>2, <1>3, FamilySum
<1>6. QED
  BY <1>4, <1>5 DEF f, A

\* The two sides of the balance sheet, less money in transit, over the sets of
\* accounts the check and the balance sheet have in common; a tax account is
\* shown on one side or the other, and the two amounts differ by its balance.
LEMMA AgreeInBooks == ASSUME BooksInv PROVE CheckAndRozvahaAgree
<1> SUFFICES ASSUME NEW p \in Periods
             PROVE  LET unshown == Checked(p) \ (TrialBalance(p) \cap OnRozvaha)
                        unchecked == TrialBalance(p) \cap OnRozvaha \cap TransitAccounts
                        closing(a) == balances[p][a].closing
                    IN  RozvahaDifference(p) - SumOver(unchecked, closing)
                          = CheckedDifference(p) - NetAssets(unshown, closing)
  BY DEF CheckAndRozvahaAgree
<1> DEFINE A == TrialBalance(p)
           K == Checked(p)
           D == DualNature \cap A
           X == On(AktivaLines) \cap A
           Y == On(PasivaLines) \cap A
           X1 == X \ D
           Y1 == Y \ D
           XA == X \cap AssetAccounts
           unchecked == A \cap OnRozvaha \cap TransitAccounts
           unshown == K \ (A \cap OnRozvaha)
           c == Closings(p)
           sa == ShownAs(p, "aktiva")
           sp == ShownAs(p, "pasiva")
<1>1. RozvahaDifference(p) = SumOf(sa, X) - SumOf(sp, Y)
  <2>1. RozvahaDifference(p)
          = ShownLines(p, "aktiva", AktivaLines) - ShownLines(p, "pasiva", PasivaLines)
    BY DEF RozvahaDifference, LinesTotal, ShownLines, ShownOver
  <2>2. ShownLines(p, "aktiva", AktivaLines) = SumOf(sa, X)
    BY FewSheetLines, SheetLines, ShownTotal
  <2>3. ShownLines(p, "pasiva", PasivaLines) = SumOf(sp, Y)
    BY FewSheetLines, SheetLines, ShownTotal
  <2>4. QED
    BY <2>1, <2>2, <2>3
<1>2. Parts(X, X1, D) /\ Parts(Y, Y1, D) /\ Parts(X1, XA, unchecked)
  <2>1. D \subseteq X /\ D \subseteq Y
    BY DualOn
  <2>2. X1 \subseteq AssetAccounts \cup TransitAccounts
    BY OnAktiva
  <2>3. Y \subseteq Capital /\ D \subseteq Capital
    BY <2>1, OnPasiva
  <2>4. QED
    BY <2>1, <2>2, <2>3, SheetClasses DEF OnRozvaha, Parts
<1>3. /\ Parts(K \cap AssetAccounts, unshown \cap AssetAccounts, XA)
      /\ Parts(K \cap Capital, unshown \cap Capital, Y)
  <2>1. /\ X \subseteq AssetAccounts \cup TransitAccounts \cup D
        /\ Y \subseteq Capital /\ D \subseteq Y
    BY OnAktiva, OnPasiva, DualOn
  <2>2. A \cap OnRozvaha = X \cup Y
    BY DEF OnRozvaha
  <2>3. A \cap (AssetAccounts \cup Capital) \subseteq K
    BY DEF TrialBalance, Checked
  <2>4. QED
    BY <2>1, <2>2, <2>3, SheetClasses DEF Parts
<1>4. /\ K \in SUBSET Rows(p) /\ A \in SUBSET Rows(p)
  BY DEF Checked, TrialBalance, Rows
<1>5. X \in SUBSET Rows(p) /\ Y \in SUBSET Rows(p) /\ X1 \in SUBSET Rows(p) /\ Y1 \in SUBSET Rows(p)
      /\ D \in SUBSET Rows(p) /\ unchecked \in SUBSET Rows(p)
      /\ K \cap AssetAccounts \in SUBSET Rows(p) /\ K \cap Capital \in SUBSET Rows(p)
      /\ unshown \cap AssetAccounts \in SUBSET Rows(p) /\ unshown \cap Capital \in SUBSET Rows(p)
  BY <1>4
<1>6. \A a \in Rows(p) \ DualNature : sa[a] = c[a] /\ sp[a] = c[a]
  BY DEF ShownAs, Closings, Shown, Rows
<1>7. \A a \in D : sa[a] = sp[a] - c[a]
  <2> SUFFICES ASSUME NEW a \in D PROVE sa[a] = sp[a] - c[a]
    OBVIOUS
  <2>1. a \in Accounts /\ HasRow(p, a) /\ a \in DualNature
    BY <1>4 DEF Rows
  <2>2. a \notin DebitNormal
    BY <2>1, DualSide, StatementsAssumption
  <2>3. balances[p][a].closing \in Int
    <3>1. {a} \in SUBSET Rows(p)
      BY <1>4
    <3>2. IntValued(Closings(p), {a})
      BY <3>1, ColumnsTyped
    <3>3. QED
      BY <2>1, <3>2 DEF IntValued, Closings
  <2>4. QED
    BY <2>1, <2>2, <2>3 DEF ShownAs, Closings, Shown, DebitPosition, Positive
<1>8. CheckedDifference(p) = SumOf(c, K \cap AssetAccounts) - SumOf(c, K \cap Capital)
  <2>1. CheckedDifference(p)
          = ClosingOver(p, K \cap AssetAccounts) - ClosingOver(p, K \cap Capital)
    BY DEF CheckedDifference, NetAssets, ClosingOver
  <2>2. QED
    BY <1>5, <2>1, SheetSums
<1>9. SumOver(unchecked, LAMBDA a : balances[p][a].closing) = SumOf(c, unchecked)
  <2>1. SumOver(unchecked, LAMBDA a : balances[p][a].closing) = ClosingOver(p, unchecked)
    BY DEF ClosingOver
  <2>2. QED
    BY <1>5, <2>1, SheetSums
<1>10. NetAssets(unshown, LAMBDA a : balances[p][a].closing)
         = SumOf(c, unshown \cap AssetAccounts) - SumOf(c, unshown \cap Capital)
  <2>1. NetAssets(unshown, LAMBDA a : balances[p][a].closing)
          = ClosingOver(p, unshown \cap AssetAccounts) - ClosingOver(p, unshown \cap Capital)
    BY DEF NetAssets, ClosingOver
  <2>2. QED
    BY <1>5, <2>1, SheetSums
<1>11. /\ IsFiniteSet(X) /\ IsFiniteSet(Y) /\ IsFiniteSet(X1) /\ IsFiniteSet(Y1)
       /\ IsFiniteSet(D)
       /\ IsFiniteSet(K \cap AssetAccounts) /\ IsFiniteSet(K \cap Capital)
       /\ IntValued(sa, X) /\ IntValued(sp, Y) /\ IntValued(c, X1) /\ IntValued(c, Y)
       /\ IntValued(c, Y1) /\ IntValued(c, D) /\ IntValued(sp, D)
       /\ IntValued(c, K \cap AssetAccounts) /\ IntValued(c, K \cap Capital)
  <2>1. \A S \in SUBSET Rows(p) :
          /\ IsFiniteSet(S) /\ IntValued(c, S)
          /\ IntValued(sa, S) /\ IntValued(sp, S)
    BY ColumnsTyped, ShownTyped
  <2> HIDE DEF A, K, D, X, Y, X1, Y1, c, sa, sp
  <2>2. QED
    BY <1>5, <2>1
<1>12. \A a \in X1 \cup Y1 : sa[a] = c[a] /\ sp[a] = c[a]
  BY <1>5, <1>6
<1> DEFINE UA == unshown \cap AssetAccounts
           UC == unshown \cap Capital
           KA == K \cap AssetAccounts
           KC == K \cap Capital
<1> HIDE DEF A, K, D, X, Y, X1, Y1, XA, unchecked, unshown, c, sa, sp
<1>13. /\ SumOf(sa, X) = SumOf(sa, X1) + SumOf(sa, D)
  BY <1>2, <1>11, SumTwo
<1>14. SumOf(sp, Y) = SumOf(sp, Y1) + SumOf(sp, D) /\ SumOf(sp, D) \in Int
  BY <1>2, <1>11, SumTwo
<1>15. SumOf(sa, X1) = SumOf(c, X1)
  BY <1>11, <1>12, SumCongruent
<1>16. SumOf(sp, Y1) = SumOf(c, Y1)
  BY <1>11, <1>12, SumCongruent
<1>17. SumOf(sa, D) = SumOf(sp, D) - SumOf(c, D)
  BY <1>7, <1>11, SumMinus
<1>18. SumOf(c, Y) = SumOf(c, Y1) + SumOf(c, D) /\ SumOf(c, Y1) \in Int /\ SumOf(c, D) \in Int
  BY <1>2, <1>11, SumTwo
<1>19. SumOf(c, X1) = SumOf(c, XA) + SumOf(c, unchecked)
       /\ SumOf(c, XA) \in Int /\ SumOf(c, unchecked) \in Int
  BY <1>2, <1>11, SumTwo
<1> HIDE DEF UA, UC, KA, KC
<1>20. SumOf(c, KA) = SumOf(c, UA) + SumOf(c, XA) /\ SumOf(c, UA) \in Int
  <2>1. Parts(KA, UA, XA) /\ IsFiniteSet(KA) /\ IntValued(c, KA)
    BY <1>3, <1>11 DEF KA, UA
  <2>2. QED
    BY <2>1, SumTwo
<1>21. SumOf(c, KC) = SumOf(c, UC) + SumOf(c, Y) /\ SumOf(c, UC) \in Int
  <2>1. Parts(KC, UC, Y) /\ IsFiniteSet(KC) /\ IntValued(c, KC)
    BY <1>3, <1>11 DEF KC, UC
  <2>2. QED
    BY <2>1, SumTwo
<1>22. RozvahaDifference(p) - SumOf(c, unchecked)
         = (SumOf(c, KA) - SumOf(c, KC)) - (SumOf(c, UA) - SumOf(c, UC))
  BY <1>1, <1>13, <1>14, <1>15, <1>16, <1>17, <1>18, <1>19, <1>20, <1>21
<1>23. QED
  BY <1>8, <1>9, <1>10, <1>22 DEF KA, KC, UA, UC, K, A, unchecked, unshown

\* The balance sheet and the check of the balance sheet differ by the accounts
\* one of them leaves out and by nothing else, on every chart and in every
\* reachable state (rozvaha_service.py and reconciliation_service.py).
THEOREM SheetAndCheckAgree == Spec => []CheckAndRozvahaAgree
<1>1. BooksInv => CheckAndRozvahaAgree
  BY AgreeInBooks
<1>2. QED
  BY <1>1, BooksAlways, PTL

-----------------------------------------------------------------------------
(* Turnovers and the lines of the journal. *)

\* The lines posted on some accounts in a period, on one side, in CZK.
PostedOn(p, accts, side) == SideTotal(LinesOn(LinesPosted(p), accts), side)

\* The turnovers of a side.
Column(p, side) == IF side = "CREDIT" THEN Credits(p) ELSE Debits(p)

LEMMA ColumnTyped ==
  ASSUME BooksInv, NEW p \in Periods, NEW side \in Side, NEW S \in SUBSET Rows(p)
  PROVE  IsFiniteSet(S) /\ IntValued(Column(p, side), S)
BY ColumnsTyped DEF Column

\* The lines of a part.
LEMMA SideOfLines ==
  ASSUME BooksInv, NEW p \in Periods, NEW accts, NEW side
  PROVE  LET ls == OnSide(LinesOn(LinesPosted(p), accts), side)
         IN  /\ ls \in SUBSET lines /\ IsFiniteSet(ls) /\ IntValued(Czk, ls)
             /\ PostedOn(p, accts, side) = SumOf(Czk, ls)
             /\ PostedOn(p, accts, side) \in Int
<1> DEFINE ls == OnSide(LinesOn(LinesPosted(p), accts), side)
<1>1. ls \in SUBSET lines
  BY DEF OnSide, LinesOn, LinesPosted
<1>2. PostedOn(p, accts, side) = TotalCzk(ls)
  BY DEF PostedOn, SideTotal
<1> HIDE DEF ls
<1>3. TotalCzk(ls) = SumOf(Czk, ls) /\ IntValued(Czk, ls) /\ IsFiniteSet(ls)
  BY <1>1, TotalIs
<1>4. SumOf(Czk, ls) \in Int
  BY <1>3, SumType
<1>5. QED
  BY <1>1, <1>2, <1>3, <1>4 DEF ls

\* A posted line is on an account of the trial balance.
LEMMA LinesInTrialBalance ==
  ASSUME BooksInv, NEW p \in Periods, NEW l \in LinesPosted(p)
  PROVE  l.account \in TrialBalance(p) /\ l.account \in Postable
<1> DEFINE a == l.account
           mine == PostedLines(entries, lines, p, a)
<1>1. l \in lines /\ a \in Accounts /\ a \in Postable
  BY DEF LinesPosted, BooksInv, TypedAndConsistent, TypeOK, Line, BooksSound, Tables
<1>2. l \in mine /\ mine \in SUBSET lines
  BY <1>1 DEF LinesPosted, PostedLines
<1>3. IsFiniteSet(mine)
  BY <1>2, TotalIs
<1> HIDE DEF mine
<1>4. Cardinality(mine) > 0
  BY <1>2, <1>3, FS_EmptySet, FS_CardinalityType
<1>5. balances[p][a] # NoRow
  BY <1>1, <1>2 DEF BooksInv, TypedAndConsistent, BalancesMatchLedger, RowMatches, mine
<1>6. balances[p][a].count = Cardinality(mine)
  BY <1>1, <1>5, RowOfAccount DEF HasRow, mine
<1>7. QED
  BY <1>1, <1>4, <1>5, <1>6 DEF TrialBalance, HasRow

\* The turnovers of accounts are the totals of the lines posted on them.
LEMMA ColumnOfLines ==
  ASSUME BooksInv, NEW p \in Periods, NEW side \in Side, NEW accts,
         NEW K \in SUBSET Rows(p), K \subseteq accts, accts \cap TrialBalance(p) \subseteq K
  PROVE  SumOf(Column(p, side), K) = PostedOn(p, accts, side)
<1> DEFINE S == OnSide(LinesOn(LinesPosted(p), accts), side)
           key == [l \in S |-> l.account]
           mine(a) == OnSide(PostedLines(entries, lines, p, a), side)
<1>1. S \in SUBSET lines /\ IsFiniteSet(S) /\ IntValued(Czk, S)
      /\ PostedOn(p, accts, side) = SumOf(Czk, S)
  BY SideOfLines
<1>2. \A l \in S : key[l] \in K
  <2>1. \A l \in S : l \in LinesPosted(p) /\ l.account \in accts
    BY DEF OnSide, LinesOn
  <2>2. \A l \in S : l.account \in TrialBalance(p)
    BY <2>1, LinesInTrialBalance
  <2>3. QED
    BY <2>1, <2>2
<1>3. ASSUME NEW a \in K PROVE Column(p, side)[a] = SumOf(Czk, {l \in S : key[l] = a})
  <2>1. a \in Accounts /\ HasRow(p, a) /\ a \in accts
    BY DEF Rows
  <2>2. {l \in S : key[l] = a} = mine(a)
    BY <2>1 DEF OnSide, LinesOn, LinesPosted, PostedLines
  <2>3. Column(p, side)[a] = TotalCzk(mine(a))
    <3>1. /\ balances[p][a].debit = TotalCzk(OnSide(PostedLines(entries, lines, p, a), "DEBIT"))
          /\ balances[p][a].credit = TotalCzk(OnSide(PostedLines(entries, lines, p, a), "CREDIT"))
      BY <2>1, RowOfAccount
    <3>2. QED
      BY <2>1, <3>1 DEF Column, Credits, Debits, Side
  <2>4. mine(a) \in SUBSET lines
    BY DEF OnSide, PostedLines
  <2> HIDE DEF mine
  <2>5. TotalCzk(mine(a)) = SumOf(Czk, mine(a))
    BY <2>4, TotalIs
  <2>6. QED
    BY <2>2, <2>3, <2>5
<1>4. IsFiniteSet(K)
  BY ColumnTyped
<1> HIDE DEF S, key
<1>5. ByKey(Column(p, side), Czk, S, K, key)
  BY <1>2, <1>3 DEF ByKey
<1>6. SumOf(Column(p, side), K) = SumOf(Czk, S)
  BY <1>1, <1>4, <1>5, SumByKey
<1>7. QED
  BY <1>1, <1>6

\* What is posted on a set of accounts in two parts.
LEMMA PostedParts ==
  ASSUME BooksInv, NEW p \in Periods, NEW side, NEW U, NEW R, NEW S, Parts(U, R, S)
  PROVE  /\ PostedOn(p, U, side) = PostedOn(p, R, side) + PostedOn(p, S, side)
         /\ PostedOn(p, R, side) \in Int /\ PostedOn(p, S, side) \in Int
<1> DEFINE at(accts) == OnSide(LinesOn(LinesPosted(p), accts), side)
<1>1. Parts(at(U), at(R), at(S))
  BY DEF Parts, OnSide, LinesOn
<1>2. IsFiniteSet(at(U)) /\ IntValued(Czk, at(U)) /\ PostedOn(p, U, side) = SumOf(Czk, at(U))
  BY SideOfLines
<1>3. PostedOn(p, R, side) = SumOf(Czk, at(R))
  BY SideOfLines
<1>4. PostedOn(p, S, side) = SumOf(Czk, at(S))
  BY SideOfLines
<1> HIDE DEF at
<1>5. /\ SumOf(Czk, at(U)) = SumOf(Czk, at(R)) + SumOf(Czk, at(S))
      /\ SumOf(Czk, at(R)) \in Int /\ SumOf(Czk, at(S)) \in Int
  BY <1>1, <1>2, SumTwo
<1>6. QED
  BY <1>2, <1>3, <1>4, <1>5

LEMMA PostedInt ==
  ASSUME BooksInv, NEW p \in Periods, NEW accts, NEW side
  PROVE  PostedOn(p, accts, side) \in Int
BY SideOfLines

\* The sums of profit and loss.
TurnoverOver(p, side, S) ==
  SumOver(S, LAMBDA a : IF side = "CREDIT" THEN balances[p][a].credit ELSE balances[p][a].debit)

LEMMA TurnoverSum ==
  ASSUME NEW p, NEW side, NEW S
  PROVE  TurnoverOver(p, side, S)
           = SumOf([a \in S |-> IF side = "CREDIT" THEN balances[p][a].credit
                                                   ELSE balances[p][a].debit], S)
BY DEF TurnoverOver, SumOver, MapThenSumSet, MapThenFoldSet, SumOf, SumFold!Iterated,
       SumFold!Unfold, AnyOf, Plus

TurnoverLines(p, side, fam) ==
  SumOver(DOMAIN fam, LAMBDA n : TurnoverOver(p, side, fam[n] \cap TrialBalance(p)))

LEMMA TurnoverLinesSum ==
  ASSUME NEW p, NEW side, NEW fam
  PROVE  TurnoverLines(p, side, fam)
           = SumOf([n \in DOMAIN fam |-> TurnoverOver(p, side, fam[n] \cap TrialBalance(p))],
                   DOMAIN fam)
BY DEF TurnoverLines, SumOver, MapThenSumSet, MapThenFoldSet, SumOf, SumFold!Iterated,
       SumFold!Unfold, AnyOf, Plus

\* A turnover of profit and loss is the total of the lines on its accounts.
LEMMA TurnoverOfLines ==
  ASSUME BooksInv, NEW p \in Periods, NEW side \in Side,
         NEW fam, IsFiniteSet(DOMAIN fam), Disjoint(fam)
  PROVE  Turnover(p, fam, side) = PostedOn(p, On(fam), side)
<1> DEFINE A == TrialBalance(p)
           f == Column(p, side)
           totals == [n \in DOMAIN fam |-> TurnoverOver(p, side, fam[n] \cap A)]
<1>1. A \in SUBSET Rows(p) /\ On(fam) \cap A \in SUBSET Rows(p)
  BY DEF TrialBalance, Rows
<1>2. IsFiniteSet(A) /\ IntValued(f, On(fam) \cap A)
  BY <1>1, ColumnTyped
<1>3. ASSUME NEW n \in DOMAIN fam PROVE totals[n] = SumOf(f, fam[n] \cap A)
  <2> DEFINE R == fam[n] \cap A
             g == [a \in R |-> IF side = "CREDIT" THEN balances[p][a].credit
                                                  ELSE balances[p][a].debit]
  <2>1. totals[n] = SumOf(g, R)
    BY TurnoverSum
  <2>2. R \in SUBSET Rows(p)
    BY <1>1
  <2>3. IsFiniteSet(R) /\ IntValued(f, R)
    BY <2>2, ColumnTyped
  <2>4. \A a \in R : g[a] = f[a]
    BY <2>2 DEF Column, Credits, Debits, Rows
  <2> HIDE DEF R, g, f, totals
  <2>5. SumOf(g, R) = SumOf(f, R)
    BY <2>3, <2>4, SumCongruent
  <2>6. QED
    BY <2>1, <2>5 DEF R
<1>4. Turnover(p, fam, side) = SumOf(totals, DOMAIN fam)
  <2>1. Turnover(p, fam, side) = TurnoverLines(p, side, fam)
    BY DEF Turnover, LinesTotal, TurnoverLines, TurnoverOver
  <2>2. QED
    BY <2>1, TurnoverLinesSum
<1> HIDE DEF totals
<1>5. SumOf(totals, DOMAIN fam) = SumOf(f, On(fam) \cap A)
  <2> HIDE DEF f, A
  <2>1. QED
    BY <1>2, <1>3, FamilySum
<1>6. SumOf(f, On(fam) \cap A) = PostedOn(p, On(fam), side)
  <2> DEFINE K == On(fam) \cap A
  <2>1. K \in SUBSET Rows(p) /\ K \subseteq On(fam) /\ On(fam) \cap TrialBalance(p) \subseteq K
    BY <1>1
  <2> HIDE DEF K
  <2>2. SumOf(Column(p, side), K) = PostedOn(p, On(fam), side)
    BY <2>1, ColumnOfLines
  <2>3. QED
    BY <2>2 DEF K
<1>7. QED
  BY <1>4, <1>5, <1>6

-----------------------------------------------------------------------------
(* Profit, the tax base, and what the check measures. *)

\* Profit and loss in lines of the journal.
LEMMA ProfitOfLines ==
  ASSUME BooksInv, NEW p \in Periods
  PROVE  /\ NetProfit(p) = PostedOn(p, On(RevenueLines), "CREDIT")
                             - PostedOn(p, On(ExpenseLines), "DEBIT")
                             - PostedOn(p, On(IncomeTaxLines), "DEBIT")
         /\ ProfitBeforeTax(p) = PostedOn(p, On(RevenueLines), "CREDIT")
                                   - PostedOn(p, On(ExpenseLines), "DEBIT")
<1>1. Turnover(p, RevenueLines, "CREDIT") = PostedOn(p, On(RevenueLines), "CREDIT")
  BY FewProfitLines, ProfitLines, TurnoverOfLines DEF Side
<1>2. Turnover(p, ExpenseLines, "DEBIT") = PostedOn(p, On(ExpenseLines), "DEBIT")
  BY FewProfitLines, ProfitLines, TurnoverOfLines DEF Side
<1>3. Turnover(p, IncomeTaxLines, "DEBIT") = PostedOn(p, On(IncomeTaxLines), "DEBIT")
  BY FewProfitLines, ProfitLines, TurnoverOfLines DEF Side
<1>4. QED
  BY <1>1, <1>2, <1>3 DEF NetProfit, ProfitBeforeTax

\* The lines that stand, on some accounts and one side.
StandingOn(p, accts, side) == OnSide(LinesOn(Standing(p), accts), side)

\* Of ordinary books, a revenue is credited and an expense debited by the lines
\* that stand, and by no other.
LEMMA OrdinaryLines ==
  ASSUME BooksInv, NEW p \in Periods, Ordinary(p),
         NEW R \in SUBSET RevenueAccounts, NEW E \in SUBSET ExpenseAccounts
  PROVE  /\ StandingOn(p, R \cup E, "CREDIT") = OnSide(LinesOn(LinesPosted(p), R), "CREDIT")
         /\ StandingOn(p, R \cup E, "DEBIT") = OnSide(LinesOn(LinesPosted(p), E), "DEBIT")
<1>1. ExpenseAccounts \cap RevenueAccounts = {}
  BY ExpenseNoRevenue
<1>2. \A l \in LinesPosted(p) :
        l.account \in R \cup E =>
          ((l.side = "CREDIT" <=> l.account \in R) <=> entries[l.entry].type # "REVERSAL")
  BY <1>1 DEF Ordinary, LinesOn
<1>3. \A l \in LinesPosted(p) : l.side \in {"DEBIT", "CREDIT"}
  BY DEF LinesPosted, BooksInv, TypedAndConsistent, TypeOK, Line, Side
<1>4. R \cap E = {}
  BY <1>1
<1>5. QED
  BY <1>2, <1>3, <1>4 DEF StandingOn, Standing, OnSide, LinesOn

LEMMA NetOfStanding ==
  ASSUME BooksInv, NEW p \in Periods, Ordinary(p),
         NEW R \in SUBSET RevenueAccounts, NEW E \in SUBSET ExpenseAccounts
  PROVE  NetOf(Standing(p), R \cup E) = PostedOn(p, R, "CREDIT") - PostedOn(p, E, "DEBIT")
<1>1. /\ StandingOn(p, R \cup E, "CREDIT") = OnSide(LinesOn(LinesPosted(p), R), "CREDIT")
      /\ StandingOn(p, R \cup E, "DEBIT") = OnSide(LinesOn(LinesPosted(p), E), "DEBIT")
  BY OrdinaryLines
<1>2. QED
  BY <1>1 DEF NetOf, SideTotal, StandingOn, PostedOn

LEMMA StandingProfitInBooks == ASSUME BooksInv PROVE ProfitOfStandingEntries
<1> SUFFICES ASSUME NEW p \in Periods, Ordinary(p)
             PROVE  NetProfit(p) = NetOf(Standing(p), On(RevenueLines) \cup On(ExpenseLines)
                                                        \cup On(IncomeTaxLines))
  BY DEF ProfitOfStandingEntries
<1> DEFINE R == On(RevenueLines)
           E == On(ExpenseLines)
           T == On(IncomeTaxLines)
           ET == E \cup T
<1>1. R \in SUBSET RevenueAccounts /\ ET \in SUBSET ExpenseAccounts /\ Parts(ET, E, T)
  BY RevenueOnLines, ExpensesOnLines, TaxOffExpenseLines DEF Parts
<1>2. (R \cup E) \cup T = R \cup ET
  OBVIOUS
<1>3. NetProfit(p) = PostedOn(p, R, "CREDIT") - PostedOn(p, E, "DEBIT") - PostedOn(p, T, "DEBIT")
  BY ProfitOfLines
<1> HIDE DEF R, E, T, ET
<1>4. NetOf(Standing(p), R \cup ET) = PostedOn(p, R, "CREDIT") - PostedOn(p, ET, "DEBIT")
  BY <1>1, NetOfStanding
<1>5. /\ PostedOn(p, ET, "DEBIT") = PostedOn(p, E, "DEBIT") + PostedOn(p, T, "DEBIT")
      /\ PostedOn(p, E, "DEBIT") \in Int /\ PostedOn(p, T, "DEBIT") \in Int
  BY <1>1, PostedParts
<1>6. PostedOn(p, R, "CREDIT") \in Int
  BY PostedInt
<1>7. NetProfit(p) = NetOf(Standing(p), R \cup ET)
  BY <1>3, <1>4, <1>5, <1>6
<1>8. NetOf(Standing(p), (R \cup E) \cup T) = NetOf(Standing(p), R \cup ET)
  BY <1>2
<1>9. QED
  BY <1>7, <1>8 DEF R, E, T

\* Profit and loss counts the entries that stand and no other: of ordinary books,
\* reversals and what they reverse leave no trace in it (vzz_service.py).
THEOREM ProfitCountsWhatStands == Spec => []ProfitOfStandingEntries
<1>1. BooksInv => ProfitOfStandingEntries
  BY StandingProfitInBooks
<1>2. QED
  BY <1>1, BooksAlways, PTL

\* The second query adds back what is posted on the non-deductible accounts.
LEMMA TaxBaseInBooks == ASSUME BooksInv PROVE TaxBaseOfDeductibles
<1> SUFFICES ASSUME NEW p \in Periods, Ordinary(p)
             PROVE  TaxBase(p) = NetOf(Standing(p),
                                       On(RevenueLines) \cup (On(ExpenseLines) \ {"513", "543"}))
  BY DEF TaxBaseOfDeductibles
<1> DEFINE R == On(RevenueLines)
           E == On(ExpenseLines)
           N == NonDeductible
           D == E \ N
           K == N \cap TrialBalance(p)
<1>1. /\ R \in SUBSET RevenueAccounts /\ D \in SUBSET ExpenseAccounts /\ Parts(E, D, N)
      /\ E \ {"513", "543"} = D
  <2>1. N \subseteq E
    BY NonDeductibleOnLines
  <2>2. E \subseteq ExpenseAccounts /\ R \subseteq RevenueAccounts
    BY ExpensesOnLines, RevenueOnLines
  <2>3. N = {"513", "543"}
    BY DEF NonDeductible
  <2> HIDE DEF E, N
  <2>4. QED
    BY <2>1, <2>2, <2>3 DEF Parts
<1>2. ProfitBeforeTax(p) = PostedOn(p, R, "CREDIT") - PostedOn(p, E, "DEBIT")
  BY ProfitOfLines
<1>3. DebitOver(p, K) = PostedOn(p, N, "DEBIT")
  <2>1. K \in SUBSET Rows(p) /\ K \subseteq N /\ N \cap TrialBalance(p) \subseteq K
    BY DEF TrialBalance, Rows
  <2> HIDE DEF K, N
  <2>2. DebitOver(p, K) = SumOf(Debits(p), K)
    BY <2>1, SheetSums
  <2>3. SumOf(Column(p, "DEBIT"), K) = PostedOn(p, N, "DEBIT")
    BY <2>1, ColumnOfLines DEF Side
  <2>4. Column(p, "DEBIT") = Debits(p)
    BY DEF Column
  <2>5. QED
    BY <2>2, <2>3, <2>4
<1>4. TaxBase(p) = ProfitBeforeTax(p) + DebitOver(p, K)
  BY DEF TaxBase, DebitOver
<1> HIDE DEF R, E, N, D, K
<1>5. NetOf(Standing(p), R \cup D) = PostedOn(p, R, "CREDIT") - PostedOn(p, D, "DEBIT")
  BY <1>1, NetOfStanding
<1>6. /\ PostedOn(p, E, "DEBIT") = PostedOn(p, D, "DEBIT") + PostedOn(p, N, "DEBIT")
      /\ PostedOn(p, D, "DEBIT") \in Int /\ PostedOn(p, N, "DEBIT") \in Int
  BY <1>1, PostedParts
<1>7. PostedOn(p, R, "CREDIT") \in Int
  BY PostedInt
<1>8. TaxBase(p) = NetOf(Standing(p), R \cup D)
  BY <1>2, <1>3, <1>4, <1>5, <1>6, <1>7
<1>9. QED
  BY <1>1, <1>8 DEF R, E

\* The tax base is revenue less deductible expenses of the entries that stand:
\* what dppo_service.py adds back is what profit and loss took off.
THEOREM TaxBaseCountsDeductibles == Spec => []TaxBaseOfDeductibles
<1>1. BooksInv => TaxBaseOfDeductibles
  BY TaxBaseInBooks
<1>2. QED
  BY <1>1, BooksAlways, PTL

\* An account without lines has no turnover.
LEMMA NoLinesNoTurnover ==
  ASSUME BooksInv, NEW p \in Periods, NEW a \in Rows(p), \A l \in LinesPosted(p) : l.account # a
  PROVE  Debits(p)[a] = 0 /\ Credits(p)[a] = 0
<1> DEFINE mine == PostedLines(entries, lines, p, a)
<1>1. a \in Accounts /\ HasRow(p, a)
  BY DEF Rows
<1>2. mine = {}
  BY DEF PostedLines, LinesPosted
<1>3. OnSide(mine, "DEBIT") = {} /\ OnSide(mine, "CREDIT") = {}
  BY <1>2 DEF OnSide
<1>4. TotalCzk({}) = 0
  BY DEF TotalCzk
<1>5. balances[p][a].debit = 0 /\ balances[p][a].credit = 0
  <2>1. /\ balances[p][a].debit = TotalCzk(OnSide(mine, "DEBIT"))
        /\ balances[p][a].credit = TotalCzk(OnSide(mine, "CREDIT"))
    BY <1>1, RowOfAccount
  <2>2. QED
    BY <2>1, <1>3, <1>4
<1>6. QED
  BY <1>1, <1>5 DEF Debits, Credits

\* What the turnovers add to a balance, as debit or as credit.
Surplus(p, side) ==
  [a \in Accounts |-> IF side = "DEBIT" THEN Debits(p)[a] - Credits(p)[a]
                                        ELSE Credits(p)[a] - Debits(p)[a]]

\* Of plain books, a checked account has its closing balance from its opening
\* balance and its turnovers, as the type of the account says.
LEMMA PlainClosing ==
  ASSUME BooksInv, NEW p \in Periods, Plain(LinesPosted(p)), NEW a \in Rows(p)
  PROVE  /\ a \in AssetAccounts => Closings(p)[a] = Openings(p)[a] - Surplus(p, "CREDIT")[a]
         /\ a \in Capital => Closings(p)[a] = Openings(p)[a] - Surplus(p, "DEBIT")[a]
<1> DEFINE o == Openings(p)[a]
           d == Debits(p)[a]
           c == Credits(p)[a]
<1>1. a \in Accounts /\ HasRow(p, a)
  BY DEF Rows
<1>2. o \in Int /\ d \in Int /\ c \in Int
  <2>1. /\ balances[p][a].opening \in Int
        /\ balances[p][a].debit \in Int /\ balances[p][a].credit \in Int
    BY <1>1, RowOfAccount
  <2>2. QED
    BY <1>1, <2>1 DEF Openings, Debits, Credits
<1>3. Closings(p)[a] = Closing(a, o, d, c)
  <2>1. balances[p][a].closing
          = Closing(a, balances[p][a].opening, balances[p][a].debit, balances[p][a].credit)
    BY <1>1, RowOfAccount
  <2>2. QED
    BY <1>1, <2>1 DEF Closings, Openings, Debits, Credits
<1>4. a \in ContraAssets \cup {"429"} => d = 0 /\ c = 0
  <2>1. \A l \in LinesPosted(p) : l.account \notin ContraAssets \cup {"429"}
    BY DEF Plain, LinesOn
  <2>2. QED
    BY <2>1, NoLinesNoTurnover
<1>5. a \in AssetAccounts \ ContraAssets => a \in DebitNormal
  BY <1>1, AssetSide, StatementsAssumption
<1>6. a \in Capital \ {"429"} => a \notin DebitNormal
  BY CapitalSide, StatementsAssumption
<1>7. Surplus(p, "DEBIT")[a] = d - c /\ Surplus(p, "CREDIT")[a] = c - d
  BY <1>1 DEF Surplus
<1> HIDE DEF o, d, c
<1>8. a \in AssetAccounts => Closings(p)[a] = o - (c - d)
  BY <1>2, <1>3, <1>4, <1>5 DEF Closing
<1>9. a \in Capital => Closings(p)[a] = o - (d - c)
  BY <1>2, <1>3, <1>4, <1>6 DEF Closing
<1>10. QED
  BY <1>7, <1>8, <1>9 DEF o

\* The sum of the balances of a class: what it opened with and its turnovers.
LEMMA PlainSum ==
  ASSUME BooksInv, NEW p \in Periods, NEW accts, NEW side \in Side,
         NEW K, K = accts \cap Rows(p),
         \A a \in K : Closings(p)[a] = Openings(p)[a] - Surplus(p, side)[a]
  PROVE  SumOf(Closings(p), K)
           = SumOf(Openings(p), K)
               - (PostedOn(p, accts, side) - PostedOn(p, accts, Swap(side)))
<1>1. K \in SUBSET Rows(p) /\ K \subseteq accts /\ accts \cap TrialBalance(p) \subseteq K
  BY DEF TrialBalance, Rows
<1>2. /\ IsFiniteSet(K) /\ IntValued(Openings(p), K)
      /\ IntValued(Debits(p), K) /\ IntValued(Credits(p), K)
  BY <1>1, ColumnsTyped
<1>3. Swap(side) \in Side
  BY DEF Side, Swap
<1>4. SumOf(Column(p, side), K) = PostedOn(p, accts, side)
  BY <1>1, ColumnOfLines
<1>5. SumOf(Column(p, Swap(side)), K) = PostedOn(p, accts, Swap(side))
  BY <1>1, <1>3, ColumnOfLines
<1>6. IntValued(Column(p, side), K) /\ IntValued(Column(p, Swap(side)), K)
  BY <1>2 DEF Column
<1>7. \A a \in K : Surplus(p, side)[a] = Column(p, side)[a] - Column(p, Swap(side))[a]
  BY <1>1 DEF Surplus, Column, Swap, Side, Rows
<1>8. SumOf(Surplus(p, side), K)
        = SumOf(Column(p, side), K) - SumOf(Column(p, Swap(side)), K)
  BY <1>2, <1>6, <1>7, SumMinus
<1>9. IntValued(Surplus(p, side), K)
  BY <1>6, <1>7 DEF IntValued
<1>10. SumOf(Closings(p), K) = SumOf(Openings(p), K) - SumOf(Surplus(p, side), K)
  BY <1>2, <1>9, SumMinus
<1>11. QED
  BY <1>4, <1>5, <1>8, <1>10

\* A line is on one of the accounts of a statement, if the books are plain.
LEMMA PlainLines ==
  ASSUME BooksInv, NEW p \in Periods, Plain(LinesPosted(p)), NEW l \in LinesPosted(p)
  PROVE  l.account \in AssetAccounts \cup Capital \cup ExpenseAccounts \cup RevenueAccounts
<1>1. l.account \in PostingAccounts
  BY LinesInTrialBalance, StatementsAssumption
<1>2. l.account \notin TransitAccounts \cup ClosingAccounts
  BY DEF Plain, LinesOn
<1>3. QED
  BY <1>1, <1>2 DEF PostingAccounts, BalanceSheetAccounts, Capital

\* Debits and credits of plain books, class by class.
LEMMA PlainTotals ==
  ASSUME BooksInv, NEW p \in Periods, Plain(LinesPosted(p)), NEW side
  PROVE  SideTotal(LinesPosted(p), side)
           = PostedOn(p, AssetAccounts, side) + PostedOn(p, Capital, side)
               + PostedOn(p, ExpenseAccounts, side) + PostedOn(p, RevenueAccounts, side)
<1> DEFINE Sheet == AssetAccounts \cup Capital
           Profit == ExpenseAccounts \cup RevenueAccounts
           All == Sheet \cup Profit
<1>1. Parts(All, Sheet, Profit)
  BY ProfitNotOnSheet DEF Parts
<1>2. Parts(Sheet, AssetAccounts, Capital)
  BY SheetClasses DEF Parts
<1>3. Parts(Profit, ExpenseAccounts, RevenueAccounts)
  BY ExpenseNoRevenue DEF Parts
<1>4. LinesOn(LinesPosted(p), All) = LinesPosted(p)
  BY PlainLines DEF LinesOn
<1>5. SideTotal(LinesPosted(p), side) = PostedOn(p, All, side)
  BY <1>4 DEF PostedOn
<1> HIDE DEF Sheet, Profit, All
<1>6. PostedOn(p, All, side) = PostedOn(p, Sheet, side) + PostedOn(p, Profit, side)
  BY <1>1, PostedParts
<1>7. PostedOn(p, Sheet, side)
        = PostedOn(p, AssetAccounts, side) + PostedOn(p, Capital, side)
  BY <1>2, PostedParts
<1>8. PostedOn(p, Profit, side)
        = PostedOn(p, ExpenseAccounts, side) + PostedOn(p, RevenueAccounts, side)
  BY <1>3, PostedParts
<1>9. /\ PostedOn(p, AssetAccounts, side) \in Int /\ PostedOn(p, Capital, side) \in Int
      /\ PostedOn(p, ExpenseAccounts, side) \in Int /\ PostedOn(p, RevenueAccounts, side) \in Int
  BY PostedInt
<1>10. QED
  BY <1>5, <1>6, <1>7, <1>8, <1>9

\* Of plain books, profit and loss shows every line of revenue and expense.
LEMMA PlainProfit ==
  ASSUME BooksInv, NEW p \in Periods, Plain(LinesPosted(p))
  PROVE  NetProfit(p) - UndoneProfit(LinesPosted(p))
           = (PostedOn(p, RevenueAccounts, "CREDIT") + PostedOn(p, ExpenseAccounts, "CREDIT"))
               - (PostedOn(p, RevenueAccounts, "DEBIT") + PostedOn(p, ExpenseAccounts, "DEBIT"))
<1> DEFINE R == On(RevenueLines)
           E == On(ExpenseLines)
           T == On(IncomeTaxLines)
           ET == E \cup T
           LP == LinesPosted(p)
<1>1. /\ R \subseteq RevenueAccounts /\ ET \subseteq ExpenseAccounts /\ Parts(ET, E, T)
      /\ ExpenseAccounts \cap RevenueAccounts = {}
  BY RevenueOnLines, ExpensesOnLines, TaxOffExpenseLines, ExpenseNoRevenue DEF Parts
<1>2. LinesOn(LP, ExpenseAccounts \cup RevenueAccounts) = LinesOn(LP, (R \cup E) \cup T)
  BY DEF Plain
<1>3. \A l \in LP :
        l.account \in ExpenseAccounts \cup RevenueAccounts => l.account \in (R \cup E) \cup T
  BY <1>2 DEF LinesOn
<1> HIDE DEF R, E, T
<1>4. LinesOn(LP, RevenueAccounts) = LinesOn(LP, R)
      /\ LinesOn(LP, ExpenseAccounts) = LinesOn(LP, ET)
  BY <1>1, <1>3 DEF LinesOn
<1> HIDE DEF ET
<1>5. /\ PostedOn(p, RevenueAccounts, "CREDIT") = PostedOn(p, R, "CREDIT")
      /\ PostedOn(p, ExpenseAccounts, "DEBIT") = PostedOn(p, ET, "DEBIT")
  BY <1>4 DEF PostedOn
<1>6. /\ PostedOn(p, ET, "DEBIT") = PostedOn(p, E, "DEBIT") + PostedOn(p, T, "DEBIT")
      /\ PostedOn(p, E, "DEBIT") \in Int /\ PostedOn(p, T, "DEBIT") \in Int
  BY <1>1, PostedParts
<1>7. NetProfit(p)
        = PostedOn(p, R, "CREDIT") - PostedOn(p, E, "DEBIT") - PostedOn(p, T, "DEBIT")
  BY ProfitOfLines DEF R, E, T
<1>8. UndoneProfit(LP)
        = PostedOn(p, RevenueAccounts, "DEBIT") - PostedOn(p, ExpenseAccounts, "CREDIT")
  BY DEF UndoneProfit, PostedOn
<1>9. /\ PostedOn(p, R, "CREDIT") \in Int /\ PostedOn(p, RevenueAccounts, "DEBIT") \in Int
      /\ PostedOn(p, ExpenseAccounts, "CREDIT") \in Int
  BY PostedInt
<1>10. QED
  BY <1>5, <1>6, <1>7, <1>8, <1>9

LEMMA CheckInBooks == ASSUME BooksInv PROVE CheckMeasuresProfit
<1> SUFFICES ASSUME NEW p \in Periods, Plain(LinesPosted(p))
             PROVE  CheckedDifference(p)
                      = NetAssets(Checked(p), LAMBDA a : balances[p][a].opening)
                          + NetProfit(p) - UndoneProfit(LinesPosted(p))
  BY DEF CheckMeasuresProfit
<1> DEFINE KA == Checked(p) \cap AssetAccounts
           KC == Checked(p) \cap Capital
<1>1. KA = AssetAccounts \cap Rows(p) /\ KC = Capital \cap Rows(p)
  BY DEF Checked, Rows
<1>2. KA \in SUBSET Rows(p) /\ KC \in SUBSET Rows(p)
  BY <1>1
<1>3. CheckedDifference(p) = ClosingOver(p, KA) - ClosingOver(p, KC)
  BY DEF CheckedDifference, NetAssets, ClosingOver
<1>4. NetAssets(Checked(p), LAMBDA a : balances[p][a].opening)
        = OpeningOver(p, KA) - OpeningOver(p, KC)
  BY DEF NetAssets, OpeningOver
<1> HIDE DEF KA, KC
<1>5. /\ ClosingOver(p, KA) = SumOf(Closings(p), KA) /\ OpeningOver(p, KA) = SumOf(Openings(p), KA)
      /\ ClosingOver(p, KC) = SumOf(Closings(p), KC) /\ OpeningOver(p, KC) = SumOf(Openings(p), KC)
  BY <1>2, SheetSums
<1>6. /\ \A a \in KA : Closings(p)[a] = Openings(p)[a] - Surplus(p, "CREDIT")[a]
      /\ \A a \in KC : Closings(p)[a] = Openings(p)[a] - Surplus(p, "DEBIT")[a]
  BY <1>1, PlainClosing
<1>7. SumOf(Closings(p), KA)
        = SumOf(Openings(p), KA)
            - (PostedOn(p, AssetAccounts, "CREDIT") - PostedOn(p, AssetAccounts, "DEBIT"))
  <2>1. "CREDIT" \in Side /\ Swap("CREDIT") = "DEBIT"
    BY DEF Side, Swap
  <2>2. SumOf(Closings(p), KA)
          = SumOf(Openings(p), KA) - (PostedOn(p, AssetAccounts, "CREDIT")
                                        - PostedOn(p, AssetAccounts, Swap("CREDIT")))
    BY <1>1, <1>6, <2>1, PlainSum
  <2>3. QED
    BY <2>1, <2>2
<1>8. SumOf(Closings(p), KC)
        = SumOf(Openings(p), KC)
            - (PostedOn(p, Capital, "DEBIT") - PostedOn(p, Capital, "CREDIT"))
  <2>1. "DEBIT" \in Side /\ Swap("DEBIT") = "CREDIT"
    BY DEF Side, Swap
  <2>2. SumOf(Closings(p), KC)
          = SumOf(Openings(p), KC) - (PostedOn(p, Capital, "DEBIT")
                                        - PostedOn(p, Capital, Swap("DEBIT")))
    BY <1>1, <1>6, <2>1, PlainSum
  <2>3. QED
    BY <2>1, <2>2
<1>9. SideTotal(LinesPosted(p), "DEBIT") = SideTotal(LinesPosted(p), "CREDIT")
  BY DEF Plain
<1>10. SideTotal(LinesPosted(p), "DEBIT")
         = PostedOn(p, AssetAccounts, "DEBIT") + PostedOn(p, Capital, "DEBIT")
             + PostedOn(p, ExpenseAccounts, "DEBIT") + PostedOn(p, RevenueAccounts, "DEBIT")
  BY PlainTotals
<1>11. SideTotal(LinesPosted(p), "CREDIT")
         = PostedOn(p, AssetAccounts, "CREDIT") + PostedOn(p, Capital, "CREDIT")
             + PostedOn(p, ExpenseAccounts, "CREDIT") + PostedOn(p, RevenueAccounts, "CREDIT")
  BY PlainTotals
<1>12. NetProfit(p) - UndoneProfit(LinesPosted(p))
         = (PostedOn(p, RevenueAccounts, "CREDIT") + PostedOn(p, ExpenseAccounts, "CREDIT"))
             - (PostedOn(p, RevenueAccounts, "DEBIT") + PostedOn(p, ExpenseAccounts, "DEBIT"))
  BY PlainProfit
<1>13. SumOf(Openings(p), KA) \in Int /\ SumOf(Openings(p), KC) \in Int
  <2>1. /\ IsFiniteSet(KA) /\ IsFiniteSet(KC)
        /\ IntValued(Openings(p), KA) /\ IntValued(Openings(p), KC)
    BY <1>2, ColumnsTyped
  <2>2. QED
    BY <2>1, SumType
<1>14. \A accts \in {AssetAccounts, Capital, ExpenseAccounts, RevenueAccounts} :
         PostedOn(p, accts, "DEBIT") \in Int /\ PostedOn(p, accts, "CREDIT") \in Int
  BY PostedInt
<1>15. UndoneProfit(LinesPosted(p)) \in Int /\ NetProfit(p) \in Int
  <2>1. UndoneProfit(LinesPosted(p))
          = PostedOn(p, RevenueAccounts, "DEBIT") - PostedOn(p, ExpenseAccounts, "CREDIT")
    BY DEF UndoneProfit, PostedOn
  <2>2. NetProfit(p) \in Int
    BY ProfitOfLines, PostedInt
  <2>3. QED
    BY <1>14, <2>1, <2>2
<1>16. CheckedDifference(p)
         = (OpeningOver(p, KA) - OpeningOver(p, KC))
             + NetProfit(p) - UndoneProfit(LinesPosted(p))
  <2> DEFINE cA == PostedOn(p, AssetAccounts, "CREDIT")
             dA == PostedOn(p, AssetAccounts, "DEBIT")
             cC == PostedOn(p, Capital, "CREDIT")
             dC == PostedOn(p, Capital, "DEBIT")
             cE == PostedOn(p, ExpenseAccounts, "CREDIT")
             dE == PostedOn(p, ExpenseAccounts, "DEBIT")
             cR == PostedOn(p, RevenueAccounts, "CREDIT")
             dR == PostedOn(p, RevenueAccounts, "DEBIT")
             oA == SumOf(Openings(p), KA)
             oC == SumOf(Openings(p), KC)
             n == NetProfit(p)
             u == UndoneProfit(LinesPosted(p))
  <2>1. /\ cA \in Int /\ dA \in Int /\ cC \in Int /\ dC \in Int /\ cE \in Int /\ dE \in Int
        /\ cR \in Int /\ dR \in Int /\ oA \in Int /\ oC \in Int /\ n \in Int /\ u \in Int
    BY <1>13, <1>14, <1>15
  <2>2. dA + dC + dE + dR = cA + cC + cE + cR
    BY <1>9, <1>10, <1>11
  <2>3. n - u = (cR + cE) - (dR + dE)
    BY <1>12
  <2>4. CheckedDifference(p) = (oA - (cA - dA)) - (oC - (dC - cC))
    BY <1>3, <1>5, <1>7, <1>8
  <2>5. OpeningOver(p, KA) - OpeningOver(p, KC) = oA - oC
    BY <1>5
  <2> HIDE DEF cA, dA, cC, dC, cE, dE, cR, dR, oA, oC, n, u
  <2>6. (oA - (cA - dA)) - (oC - (dC - cC)) = (oA - oC) + n - u
    BY <2>1, <2>2, <2>3
  <2>7. QED
    BY <2>4, <2>5, <2>6 DEF n, u
<1>17. QED
  BY <1>4, <1>16

\* Of plain books, the check of the balance sheet measures what the openings
\* bring and the profit of the period less the profit undone: it is not zero
\* before the period is closed, however balanced every entry is.
THEOREM CheckMeasuresTheProfit == Spec => []CheckMeasuresProfit
<1>1. BooksInv => CheckMeasuresProfit
  BY CheckInBooks
<1>2. QED
  BY <1>1, BooksAlways, PTL
=============================================================================
