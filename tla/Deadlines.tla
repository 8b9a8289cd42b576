------------------------------ MODULE Deadlines ------------------------------
(***************************************************************************)
(* Statutory deadlines: the daily job of the scheduler, the scan a client  *)
(* may ask for, and the alerts they raise.                                 *)
(*                                                                         *)
(* Both call run_deadline_scan and then scan_vat_period in one database    *)
(* transaction at READ COMMITTED, so two scans interleave statement by     *)
(* statement, and no index makes the open alert of a rule unique.  The     *)
(* scheduler lives in the process: a job that is due while the process is  *)
(* down does not run later.                                                *)
(*                                                                         *)
(* The calendar repeats every year and has no leap day.  A scan ends on    *)
(* the day it began.  The text and deadline_date of an open alert are      *)
(* never read and are left out.  Row locks are left out too: two scans of  *)
(* one day write the same severity.                                        *)
(***************************************************************************)
EXTENDS Integers, FiniteSets, FiniteSetsExt

CONSTANTS
  Months,       \* months of a year
  MonthDays,    \* their lengths
  DppoMonth,    \* DPPO_ANNUAL is due on the first day of this month
  ClosingMonth, \* UCETNI_ZAVERKA is due on the last day of this month
  FilingDay,    \* DPH_MONTHLY is due on this day of the next month
  Window,       \* an alert is raised when at most so many days are left
  WarningDays,  \* and is a WARNING when at most so many are left
  Clients,      \* requests that may scan at the same time
  MaxMissed     \* assumption: days in a row on which the job may not end

Job == "daily_watchdog"
Scanners == Clients \cup {Job}

ASSUME DeadlinesAssumption ==
  /\ Months \in Nat \ {0}
  /\ MonthDays \in [1 .. Months -> Nat \ {0}]
  /\ DppoMonth \in 1 .. Months
  /\ ClosingMonth \in 1 .. Months
  /\ FilingDay \in Nat
  /\ Window \in Nat
  /\ Window < FilingDay  \* 14 and 25
  /\ WarningDays \in Nat
  /\ IsFiniteSet(Clients)
  /\ Job \notin Clients
  /\ MaxMissed \in Nat

VARIABLES
  month, day, \* the date
  seven,      \* it is past 07:00
  up,         \* the process runs
  missed,     \* days since the job last ran to its end
  alerts,     \* severity of the open alert of a rule that a scanner raised, or "none"
  scan,       \* the transaction of each scanner
  resolved    \* history: the deadlines with an alert resolved after the job, which
              \* still runs, looked for it

deadlineVars == <<month, day, seven, up, missed, alerts, scan, resolved>>

calendarVars == <<month, day, seven>>

DeadlineRules == {"DPH_MONTHLY", "DPPO_ANNUAL", "UCETNI_ZAVERKA"}

\* The rule of this month: CONS_KH_PRIZNANI_MISMATCH_<period> of another month
\* is another rule, which no scan of this month looks at.
KhRule == "CONS_KH_PRIZNANI_MISMATCH"
Rules == DeadlineRules \cup {KhRule}

\* Of a transaction: the rules it has still to scan, those it inserts an alert
\* of, and the open alerts it updates.
Idle == [running |-> FALSE, todo |-> {}, insert |-> {}, update |-> {}]

OpenAlerts(rule) == {n \in Scanners : alerts[rule][n] # "none"}

----------------------------------------------------------------------------
(* build_deadline_calendar *)

DaysBefore == [m \in 1 .. Months |-> MapThenSumSet(LAMBDA k : MonthDays[k], 1 .. m - 1)]

DayOfYear == DaysBefore[month] + day

\* The return of this month is due in the next one; the annual deadlines are
\* those of this calendar year, also after they have passed.
DaysUntil(rule) ==
  CASE rule = "DPH_MONTHLY"    -> MonthDays[month] - day + FilingDay
    [] rule = "DPPO_ANNUAL"    -> DaysBefore[DppoMonth] + 1 - DayOfYear
    [] rule = "UCETNI_ZAVERKA" -> DaysBefore[ClosingMonth] + MonthDays[ClosingMonth] - DayOfYear

SeverityForDays(days) ==
  IF days < 0 THEN "BLOCKER" ELSE IF days <= WarningDays THEN "WARNING" ELSE "INFO"

\* scan_vat_period raises BLOCKER alerts only.
SeverityToday(rule) ==
  IF rule = KhRule THEN "BLOCKER" ELSE SeverityForDays(DaysUntil(rule))

\* Mutant: nothing is raised on the first day of the window.
DueBeforeWindow == {rule \in DeadlineRules : DaysUntil(rule) < Window}

Due == {rule \in DeadlineRules : DaysUntil(rule) <= Window}

----------------------------------------------------------------------------
(* run_deadline_scan, then scan_vat_period. *)

BeginScan(s) ==
  scan' = [scan EXCEPT ![s] = [running |-> TRUE, todo |-> Due \cup {KhRule},
                               insert |-> {}, update |-> {}]]

\* Deadlines in the order of their dates, the VAT period last.
IsNext(s, rule) ==
  /\ rule \in scan[s].todo
  /\ \A other \in scan[s].todo \ {KhRule} :
       rule # KhRule /\ DaysUntil(rule) <= DaysUntil(other)

\* Mutant: an alert that is open takes the severity of today.
Reassigns(rule, n) == rule \in DeadlineRules

\* Mutant: an INFO becomes a WARNING and nothing becomes a BLOCKER.
EscalatesToWarning(rule, n) ==
  rule \in DeadlineRules /\ SeverityToday(rule) = "WARNING" /\ alerts[rule][n] = "INFO"

\* An open deadline alert is made more severe, never less; _upsert_alert leaves
\* what it finds alone.
Escalates(rule, n) ==
  /\ rule \in DeadlineRules
  /\ \/ SeverityToday(rule) = "BLOCKER" /\ alerts[rule][n] # "BLOCKER"
     \/ SeverityToday(rule) = "WARNING" /\ alerts[rule][n] = "INFO"

\* Mutant: the scan inserts without looking for an open alert.
SelectUnseen(s, rule) ==
  scan' = [scan EXCEPT ![s].todo = @ \ {rule}, ![s].insert = @ \cup {rule}]

\* The SELECT of open alerts sees what is committed now; the transaction's own
\* alerts are of other rules.  Two rows make scalar_one_or_none raise: FailScan.
Select(s, rule) ==
  \/ /\ OpenAlerts(rule) = {}
     /\ scan' = [scan EXCEPT ![s].todo = @ \ {rule}, ![s].insert = @ \cup {rule}]
  \/ \E n \in Scanners :
       /\ OpenAlerts(rule) = {n}
       /\ scan' = [scan EXCEPT ![s].todo = @ \ {rule},
                               ![s].update = @ \cup {m \in {<<rule, n>>} : Escalates(rule, n)}]

\* The totals of the VAT register are read, not modelled: they agree or not.
ScanRule(s) ==
  /\ \E rule \in Rules :
       /\ IsNext(s, rule)
       /\ \/ Select(s, rule)
          \/ rule = KhRule /\ scan' = [scan EXCEPT ![s].todo = @ \ {rule}]
  /\ UNCHANGED <<calendarVars, up, missed, alerts, resolved>>

Ended(s) ==
  /\ scan' = [scan EXCEPT ![s] = Idle]
  /\ missed' = IF s = Job THEN 0 ELSE missed
  /\ resolved' = IF s = Job THEN {} ELSE resolved

\* MultipleResultsFound rolls the transaction back, with every rule it scanned
\* before and the VAT period after.  The scheduler logs it, a client gets 500.
FailScan(s) ==
  /\ \E rule \in Rules : IsNext(s, rule) /\ Cardinality(OpenAlerts(rule)) > 1
  /\ Ended(s)
  /\ UNCHANGED <<calendarVars, up, alerts>>

\* An update of an alert that was resolved meanwhile is of a row that is not
\* open any more.
Committed(s) ==
  [rule \in Rules |-> [n \in Scanners |->
     IF \/ rule \in scan[s].insert /\ n = s
        \/ <<rule, n>> \in scan[s].update /\ n \in OpenAlerts(rule)
     THEN SeverityToday(rule)
     ELSE alerts[rule][n]]]

CommitScan(s) ==
  /\ scan[s].running
  /\ scan[s].todo = {}
  /\ alerts' = Committed(s)
  /\ Ended(s)
  /\ UNCHANGED <<calendarVars, up>>

ScanStep(s) == ScanRule(s) \/ FailScan(s) \/ CommitScan(s)

\* POST /compliance/scan for this month.
RequestScan(s) ==
  /\ up
  /\ ~scan[s].running
  /\ BeginScan(s)
  /\ UNCHANGED <<calendarVars, up, missed, alerts, resolved>>

ResolveAlert(rule, n) ==
  /\ up
  /\ n \in OpenAlerts(rule)
  /\ alerts' = [alerts EXCEPT ![rule][n] = "none"]
  /\ resolved' = IF scan[Job].running
                 THEN resolved \cup (({rule} \cap DeadlineRules) \ scan[Job].todo)
                 ELSE resolved
  /\ UNCHANGED <<calendarVars, up, missed, scan>>

----------------------------------------------------------------------------
(* The clock and the process. *)

\* The cron trigger starts the job if the process is there.
Seven ==
  /\ ~seven
  /\ seven' = TRUE
  /\ missed' = missed + 1
  /\ IF up THEN BeginScan(Job) ELSE missed < MaxMissed /\ UNCHANGED scan
  /\ UNCHANGED <<month, day, up, alerts, resolved>>

\* Midnight.  A new month has its own KH rule.
NextDay ==
  /\ seven
  /\ \A s \in Scanners : ~scan[s].running
  /\ seven' = FALSE
  /\ IF day < MonthDays[month]
     THEN day' = day + 1 /\ UNCHANGED <<month, alerts>>
     ELSE /\ day' = 1
          /\ month' = (month % Months) + 1
          /\ alerts' = [alerts EXCEPT ![KhRule] = [n \in Scanners |-> "none"]]
  /\ UNCHANGED <<up, missed, scan, resolved>>

\* Mutant: the scans in flight stop and their work stays.
CrashKeepingWork ==
  /\ up
  /\ missed <= MaxMissed
  /\ up' = FALSE
  /\ scan' = [s \in Scanners |-> [scan[s] EXCEPT !.running = FALSE]]
  /\ resolved' = {}
  /\ UNCHANGED <<calendarVars, missed, alerts>>

\* Every transaction in flight is rolled back.
Crash ==
  /\ up
  /\ missed <= MaxMissed
  /\ up' = FALSE
  /\ scan' = [s \in Scanners |-> Idle]
  /\ resolved' = {}
  /\ UNCHANGED <<calendarVars, missed, alerts>>

Start ==
  /\ ~up
  /\ up' = TRUE
  /\ UNCHANGED <<calendarVars, missed, alerts, scan, resolved>>

----------------------------------------------------------------------------
DeadlinesInit ==
  /\ month \in 1 .. Months
  /\ day \in 1 .. MonthDays[month]
  /\ seven = FALSE
  /\ up = TRUE
  /\ missed = 0
  /\ alerts = [rule \in Rules |-> [n \in Scanners |-> "none"]]
  /\ scan = [s \in Scanners |-> Idle]
  /\ resolved = {}

DeadlinesNext ==
  \/ \E s \in Scanners : ScanStep(s)
  \/ \E s \in Clients : RequestScan(s)
  \/ \E rule \in Rules, n \in Scanners : ResolveAlert(rule, n)
  \/ Seven \/ NextDay \/ Crash \/ Start

DeadlinesSpec == DeadlinesInit /\ [][DeadlinesNext]_deadlineVars

\* A scan that has begun goes on, the process is started again, and time passes
\* however many requests and restarts a day has.
FairDeadlinesSpec ==
  /\ DeadlinesSpec
  /\ \A s \in Scanners : WF_deadlineVars(ScanStep(s))
  /\ WF_deadlineVars(Start)
  /\ SF_deadlineVars(Seven)
  /\ SF_deadlineVars(NextDay)

----------------------------------------------------------------------------
(* Type invariant. *)

Transaction ==
  [running : BOOLEAN, todo : SUBSET Rules, insert : SUBSET Rules,
   update : SUBSET (Rules \X Scanners)]

DeadlinesTypeOK ==
  /\ month \in 1 .. Months
  /\ day \in 1 .. MonthDays[month]
  /\ seven \in BOOLEAN
  /\ up \in BOOLEAN
  /\ missed \in 0 .. MaxMissed + 1
  /\ alerts \in [Rules -> [Scanners -> {"none", "INFO", "WARNING", "BLOCKER"}]]
  /\ scan \in [Scanners -> Transaction]
  /\ \A s \in Scanners : scan[s].todo # {} => scan[s].running
  /\ resolved \subseteq DeadlineRules

----------------------------------------------------------------------------
(* Safety and liveness. *)

\* A scanner never raises an alert of a rule while one that it raised before is
\* open: scans that follow one another, that repeat after a crash or after a
\* resolution, leave one alert, and a rule has more only by scans that overlap,
\* at most one for each scanner.
RaisesOneAtATime ==
  \A s \in Scanners : \A rule \in scan[s].insert : alerts[rule][s] = "none"

SeverityRank(severity) ==
  CASE severity = "INFO" -> 1 [] severity = "WARNING" -> 2 [] severity = "BLOCKER" -> 3

\* An alert that stays open never becomes less severe: not by a scan of the next
\* year, whose deadline is far again, and not by a scan that read it earlier.
SeverityOnlyRises ==
  [][\A rule \in Rules, n \in Scanners :
       alerts[rule][n] # "none" /\ alerts'[rule][n] # "none" =>
         SeverityRank(alerts'[rule][n]) >= SeverityRank(alerts[rule][n])]_deadlineVars

\* When the job commits, each deadline within the window, or passed this year, has
\* an open alert, unless someone resolved one after the job looked for it.
JobAlertsEveryDeadline ==
  [][scan[Job].running /\ scan[Job].todo = {} /\ ~scan'[Job].running /\ up' =>
       \A rule \in DeadlineRules \ resolved :
         DaysUntil(rule) <= Window => \E n \in Scanners : alerts'[rule][n] # "none"]_deadlineVars

Duplicated == \E rule \in Rules : Cardinality(OpenAlerts(rule)) > 1

\* A deadline that has passed is shown as a BLOCKER in the end, after any crashes
\* and resolutions, unless someone resolves it while the job updates it, and as long as
\* no alert is doubled: one doubled alert, of any rule, stops the scans of all of
\* them until someone resolves it.
OverdueBecomesBlocker ==
  \A rule \in {"DPPO_ANNUAL", "UCETNI_ZAVERKA"} :
    DaysUntil(rule) < 0 ~> \/ Duplicated
                           \/ rule \in resolved
                           \/ \E n \in Scanners : alerts[rule][n] = "BLOCKER"

----------------------------------------------------------------------------
(* What the repository says and the code does not do. *)

\* compliance_rules.py: "Reminder for upcoming monthly VAT return deadline."  When
\* the job commits within the window before FilingDay, the day on which the return
\* of last month is due, an alert of the return is open, unless someone resolved
\* one after the job looked for it.  The calendar of a day only holds the return of
\* its own month, whose deadline never comes within the window.
VatReturnReminded ==
  [][scan[Job].running /\ scan[Job].todo = {} /\ ~scan'[Job].running /\ up'
       /\ FilingDay - day \in 0 .. Window /\ "DPH_MONTHLY" \notin resolved =>
       \E n \in Scanners : alerts'["DPH_MONTHLY"][n] # "none"]_deadlineVars
=============================================================================
