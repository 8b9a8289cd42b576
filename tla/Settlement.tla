----------------------------- MODULE Settlement -----------------------------
(***************************************************************************)
(* What bank matching promises, without ledger, scores or alerts.          *)
(*                                                                         *)
(* A transaction pays at most one invoice; the books hold the money of a   *)
(* transaction while it does, or until someone corrects the books; and an  *)
(* invoice is marked as paid by a transaction that pays it.  Banking       *)
(* implements this specification through its instance Promise.             *)
(***************************************************************************)
EXTENDS Naturals, Sequences

CONSTANTS
  Invoice,  \* everything a transaction may pay
  Nothing   \* what a transaction pays that is matched to no invoice

VARIABLES
  pays,    \* what each transaction pays, in order of arrival
  booked,  \* transactions whose money is in the books
  paid     \* invoices that are marked as paid

settlementVars == <<pays, booked, paid>>

MatchedIn(p) == {t \in DOMAIN p : p[t] # Nothing}

SettlementInit ==
  /\ pays = <<>>
  /\ booked = {}
  /\ paid = {}

----------------------------------------------------------------------------
\* A batch: transactions arrive, and some that are free are matched, each to an
\* invoice of its own that was not paid before.
Batch ==
  LET new == MatchedIn(pays') \ MatchedIn(pays)
  IN  /\ pays' \in Seq(Invoice \cup {Nothing})
      /\ Len(pays') >= Len(pays)
      /\ \A t \in MatchedIn(pays) : pays'[t] = pays[t]
      /\ \A t \in new : pays'[t] \notin paid
      /\ \A s, t \in new : pays'[s] = pays'[t] => s = t
      /\ booked' = booked \cup new
      /\ paid' = paid \cup {pays'[t] : t \in new}

\* A person may match a transaction to an invoice that is paid already.
MatchByHand(t, i) ==
  /\ pays[t] = Nothing
  /\ pays' = [pays EXCEPT ![t] = i]
  /\ booked' = booked \cup {t}
  /\ paid' = paid \cup {i}

\* Only money that is in the books can be taken back.
Unmatch(t) ==
  /\ t \in booked
  /\ pays' = [pays EXCEPT ![t] = Nothing]
  /\ booked' = booked \ {t}
  /\ paid' = paid \ {pays[t]}

\* Someone who keeps the books reverses the settlement entry.
CorrectBooks(t) ==
  /\ t \in booked
  /\ booked' = booked \ {t}
  /\ UNCHANGED <<pays, paid>>

SettlementNext ==
  \/ Batch
  \/ \E t \in DOMAIN pays :
       (\E i \in Invoice : MatchByHand(t, i)) \/ Unmatch(t) \/ CorrectBooks(t)

SettlementSpec == SettlementInit /\ [][SettlementNext]_settlementVars

----------------------------------------------------------------------------
\* What follows from the promise: an invoice marked as paid is paid by some
\* transaction, and the books hold no money of a transaction that pays nothing.
PaidForAndBooked ==
  /\ paid \subseteq {pays[t] : t \in MatchedIn(pays)}
  /\ booked \subseteq MatchedIn(pays)
=============================================================================
