---------------------------- MODULE MCDeadlines ----------------------------
(* An instance of Deadlines for TLC. *)
EXTENDS Deadlines

\* A year of five days with the annual deadlines on its second and third: one day
\* of INFO, one of WARNING, and more days after each than the job may miss.
MCMonthDays == <<1, 2, 2>>
MCClients == {"client"}
=============================================================================
