--------------------------- MODULE DeadlinesProofs ---------------------------
(***************************************************************************)
(* Proofs about Deadlines, for every calendar, window and set of clients.  *)
(***************************************************************************)
EXTENDS Deadlines, TLAPS

\* A scanner that does not run has no work.
RestIdle == \A s \in Scanners : ~scan[s].running => scan[s] = Idle

\* No scan looks at the VAT return.
VatNotScanned ==
  \A s \in Scanners : "DPH_MONTHLY" \notin scan[s].todo /\ "DPH_MONTHLY" \notin scan[s].insert

\* Nobody is reminded of the VAT return.
NoVatReminder == OpenAlerts("DPH_MONTHLY") = {}

\* An update that a scan will write does not lower what is open now.
UpdatesRaise ==
  \A s \in Scanners : \A rule \in Rules, n \in Scanners :
    <<rule, n>> \in scan[s].update /\ alerts[rule][n] # "none" =>
      SeverityRank(SeverityToday(rule)) >= SeverityRank(alerts[rule][n])

\* Of a deadline the job has looked for, it inserts an alert, or one is open, or
\* it was resolved since.
LookedFor ==
  scan[Job].running =>
    \A rule \in Due \ scan[Job].todo :
      rule \in scan[Job].insert \cup resolved \/ OpenAlerts(rule) # {}

DeadlinesInv ==
  /\ DeadlinesTypeOK
  /\ RestIdle
  /\ VatNotScanned
  /\ NoVatReminder
  /\ RaisesOneAtATime
  /\ UpdatesRaise
  /\ LookedFor

-----------------------------------------------------------------------------
(* Types. *)

LEMMA RuleNames ==
  /\ DeadlineRules \subseteq Rules /\ KhRule \in Rules
  /\ KhRule \notin DeadlineRules /\ KhRule # "DPH_MONTHLY"
BY DEF DeadlineRules, KhRule, Rules

LEMMA IdleType ==
  /\ Idle \in Transaction
  /\ ~Idle.running /\ Idle.todo = {} /\ Idle.insert = {} /\ Idle.update = {}
BY DEF Idle, Transaction

LEMMA SeverityType ==
  ASSUME NEW rule
  PROVE  SeverityToday(rule) \in {"INFO", "WARNING", "BLOCKER"}
BY DEF SeverityToday, SeverityForDays

LEMMA RankType ==
  ASSUME NEW severity \in {"INFO", "WARNING", "BLOCKER"}
  PROVE  SeverityRank(severity) \in 1 .. 3
BY DEF SeverityRank

\* What a scanner that begins has to do.
LEMMA BeginFields ==
  ASSUME DeadlinesTypeOK, NEW s \in Scanners, BeginScan(s)
  PROVE  /\ scan' \in [Scanners -> Transaction]
         /\ \A t \in Scanners \ {s} : scan'[t] = scan[t]
         /\ scan'[s].running /\ scan'[s].todo = Due \cup {KhRule}
         /\ scan'[s].insert = {} /\ scan'[s].update = {}
<1> DEFINE x == [running |-> TRUE, todo |-> Due \cup {KhRule}, insert |-> {}, update |-> {}]
<1>1. x \in Transaction
  BY RuleNames DEF Transaction, Due
<1>2. scan' = [scan EXCEPT ![s] = x] /\ scan \in [Scanners -> Transaction]
  BY DEF BeginScan, DeadlinesTypeOK
<1> QED
  BY <1>1, <1>2

\* What looking at one rule changes.
LEMMA ScanRuleFields ==
  ASSUME DeadlinesTypeOK, NEW s \in Scanners, ScanRule(s)
  PROVE  /\ scan' \in [Scanners -> Transaction]
         /\ \A t \in Scanners \ {s} : scan'[t] = scan[t]
         /\ scan'[s].running = scan[s].running
         /\ \E rule \in scan[s].todo :
              /\ scan'[s].todo = scan[s].todo \ {rule}
              /\ \/ /\ OpenAlerts(rule) = {}
                    /\ scan'[s].insert = scan[s].insert \cup {rule}
                    /\ scan'[s].update = scan[s].update
                 \/ /\ scan'[s].insert = scan[s].insert
                    /\ \E n \in Scanners :
                         /\ OpenAlerts(rule) = {n}
                         /\ scan'[s].update = scan[s].update \cup {m \in {<<rule, n>>} : Escalates(rule, n)}
                 \/ /\ rule = KhRule
                    /\ scan'[s].insert = scan[s].insert
                    /\ scan'[s].update = scan[s].update
<1>1. scan \in [Scanners -> Transaction] /\ scan[s] \in Transaction
  BY DEF DeadlinesTypeOK
<1>2. PICK rule \in Rules : /\ rule \in scan[s].todo
                            /\ \/ Select(s, rule)
                               \/ rule = KhRule /\ scan' = [scan EXCEPT ![s].todo = @ \ {rule}]
  BY DEF ScanRule, IsNext
<1>3. CASE /\ OpenAlerts(rule) = {}
           /\ scan' = [scan EXCEPT ![s].todo = @ \ {rule}, ![s].insert = @ \cup {rule}]
  BY <1>1, <1>2, <1>3 DEF Transaction
<1>4. CASE \E n \in Scanners :
             /\ OpenAlerts(rule) = {n}
             /\ scan' = [scan EXCEPT ![s].todo = @ \ {rule},
                                     ![s].update = @ \cup {m \in {<<rule, n>>} : Escalates(rule, n)}]
  BY <1>1, <1>2, <1>4 DEF Transaction
<1>5. CASE rule = KhRule /\ scan' = [scan EXCEPT ![s].todo = @ \ {rule}]
  BY <1>1, <1>2, <1>5 DEF Transaction
<1> QED
  BY <1>2, <1>3, <1>4, <1>5 DEF Select

\* A scanner that ends has no work left, the others keep theirs.
LEMMA EndedFields ==
  ASSUME DeadlinesTypeOK, NEW s \in Scanners, Ended(s)
  PROVE  /\ scan' \in [Scanners -> Transaction]
         /\ \A t \in Scanners \ {s} : scan'[t] = scan[t]
         /\ scan'[s] = Idle
BY IdleType DEF DeadlinesTypeOK, Ended

\* What a commit writes.
LEMMA CommittedFields ==
  ASSUME DeadlinesTypeOK, NEW s \in Scanners, CommitScan(s)
  PROVE  /\ alerts' \in [Rules -> [Scanners -> {"none", "INFO", "WARNING", "BLOCKER"}]]
         /\ \A rule \in Rules, n \in Scanners :
              alerts'[rule][n] = IF \/ rule \in scan[s].insert /\ n = s
                                    \/ <<rule, n>> \in scan[s].update /\ alerts[rule][n] # "none"
                                 THEN SeverityToday(rule)
                                 ELSE alerts[rule][n]
<1>1. alerts \in [Rules -> [Scanners -> {"none", "INFO", "WARNING", "BLOCKER"}]]
  BY DEF DeadlinesTypeOK
<1>2. alerts' = [rule \in Rules |-> [n \in Scanners |->
                  IF \/ rule \in scan[s].insert /\ n = s
                     \/ <<rule, n>> \in scan[s].update /\ alerts[rule][n] # "none"
                  THEN SeverityToday(rule)
                  ELSE alerts[rule][n]]]
  BY DEF CommitScan, Committed, OpenAlerts
<1> QED
  BY <1>1, <1>2, SeverityType

\* A commit closes nothing, and opens what it inserts.
LEMMA CommittedOpens ==
  ASSUME DeadlinesTypeOK, NEW s \in Scanners, CommitScan(s)
  PROVE  /\ \A rule \in Rules, n \in Scanners : alerts[rule][n] # "none" => alerts'[rule][n] # "none"
         /\ \A rule \in Rules : rule \in scan[s].insert => alerts'[rule][s] # "none"
<1>1. \A rule : SeverityToday(rule) # "none"
  BY SeverityType
<1>2. ASSUME NEW rule \in Rules, NEW n \in Scanners
      PROVE  /\ alerts[rule][n] # "none" => alerts'[rule][n] # "none"
             /\ rule \in scan[s].insert /\ n = s => alerts'[rule][n] # "none"
  <2>1. alerts'[rule][n] = IF \/ rule \in scan[s].insert /\ n = s
                              \/ <<rule, n>> \in scan[s].update /\ alerts[rule][n] # "none"
                           THEN SeverityToday(rule)
                           ELSE alerts[rule][n]
    BY CommittedFields
  <2> QED
    BY <1>1, <2>1
<1> QED
  BY <1>2

\* The type invariant in three parts.
CalendarOK ==
  /\ month \in 1 .. Months
  /\ day \in 1 .. MonthDays[month]
  /\ seven \in BOOLEAN
  /\ up \in BOOLEAN
  /\ missed \in 0 .. MaxMissed + 1

AlertsOK == alerts \in [Rules -> [Scanners -> {"none", "INFO", "WARNING", "BLOCKER"}]]

ScansOK ==
  /\ scan \in [Scanners -> Transaction]
  /\ \A s \in Scanners : scan[s].todo # {} => scan[s].running
  /\ resolved \subseteq DeadlineRules

LEMMA TypeParts == DeadlinesTypeOK <=> CalendarOK /\ AlertsOK /\ ScansOK
BY DEF DeadlinesTypeOK, CalendarOK, AlertsOK, ScansOK

\* A job that has been missed too often runs.
JobInTime == missed > MaxMissed => seven /\ scan[Job].running

LEMMA InitTyped == DeadlinesInit => DeadlinesTypeOK /\ JobInTime
<1> SUFFICES ASSUME DeadlinesInit PROVE DeadlinesTypeOK /\ JobInTime
  OBVIOUS
<1>1. CalendarOK
  <2>1. missed = 0 /\ 0 \in 0 .. MaxMissed + 1
    BY DeadlinesAssumption DEF DeadlinesInit
  <2> QED
    BY <2>1 DEF DeadlinesInit, CalendarOK
<1>2. AlertsOK
  BY DEF DeadlinesInit, AlertsOK
<1>3. ScansOK
  BY IdleType DEF DeadlinesInit, ScansOK
<1>4. JobInTime
  BY DeadlinesAssumption DEF DeadlinesInit, JobInTime
<1> QED
  BY <1>1, <1>2, <1>3, <1>4, TypeParts

LEMMA StepTyped ==
  ASSUME DeadlinesTypeOK, JobInTime, [DeadlinesNext]_deadlineVars
  PROVE  DeadlinesTypeOK' /\ JobInTime'
<1>0. CalendarOK /\ AlertsOK /\ ScansOK
  BY TypeParts
<1>1. ASSUME NEW s \in Scanners, ScanRule(s)
      PROVE  CalendarOK' /\ AlertsOK' /\ ScansOK' /\ JobInTime'
  <2>1. CalendarOK' /\ AlertsOK'
    BY <1>0, <1>1 DEF ScanRule, CalendarOK, AlertsOK, calendarVars
  <2>2. ScansOK'
    BY <1>0, <1>1, ScanRuleFields DEF ScanRule, ScansOK
  <2>3. JobInTime'
    BY <1>1, ScanRuleFields DEF ScanRule, JobInTime, Scanners, calendarVars
  <2> QED
    BY <2>1, <2>2, <2>3
<1>2. ASSUME NEW s \in Scanners, Ended(s), UNCHANGED <<calendarVars, up>>
      PROVE  CalendarOK' /\ ScansOK' /\ JobInTime'
  <2>1. CalendarOK'
    BY <1>0, <1>2, DeadlinesAssumption DEF Ended, CalendarOK, calendarVars
  <2>2. ScansOK'
    BY <1>0, <1>2, EndedFields, IdleType DEF Ended, ScansOK
  <2>3. JobInTime'
    BY <1>2, EndedFields, DeadlinesAssumption DEF Ended, JobInTime, Scanners, calendarVars
  <2> QED
    BY <2>1, <2>2, <2>3
<1>3. ASSUME NEW s \in Scanners, FailScan(s)
      PROVE  CalendarOK' /\ AlertsOK' /\ ScansOK' /\ JobInTime'
  BY <1>0, <1>2, <1>3 DEF FailScan, AlertsOK
<1>4. ASSUME NEW s \in Scanners, CommitScan(s)
      PROVE  CalendarOK' /\ AlertsOK' /\ ScansOK' /\ JobInTime'
  <2>1. AlertsOK'
    BY <1>4, CommittedFields DEF AlertsOK
  <2> QED
    BY <1>2, <1>4, <2>1 DEF CommitScan
<1>5. ASSUME NEW s \in Clients, RequestScan(s)
      PROVE  CalendarOK' /\ AlertsOK' /\ ScansOK' /\ JobInTime'
  <2>1. CalendarOK' /\ AlertsOK'
    BY <1>0, <1>5 DEF RequestScan, CalendarOK, AlertsOK, calendarVars
  <2>2. s \in Scanners /\ s # Job /\ Job \in Scanners
    BY DeadlinesAssumption DEF Scanners
  <2>3. ScansOK'
    BY <1>0, <1>5, <2>2, BeginFields DEF RequestScan, ScansOK
  <2>4. JobInTime'
    BY <1>5, <2>2, BeginFields DEF RequestScan, JobInTime, calendarVars
  <2> QED
    BY <2>1, <2>3, <2>4
<1>6. ASSUME NEW rule \in Rules, NEW n \in Scanners, ResolveAlert(rule, n)
      PROVE  CalendarOK' /\ AlertsOK' /\ ScansOK' /\ JobInTime'
  <2>1. CalendarOK' /\ JobInTime'
    BY <1>0, <1>6 DEF ResolveAlert, CalendarOK, JobInTime, calendarVars
  <2>2. AlertsOK'
    BY <1>0, <1>6 DEF ResolveAlert, AlertsOK
  <2>3. ScansOK'
    BY <1>0, <1>6 DEF ResolveAlert, ScansOK
  <2> QED
    BY <2>1, <2>2, <2>3
<1>7. ASSUME Seven
      PROVE  CalendarOK' /\ AlertsOK' /\ ScansOK' /\ JobInTime'
  <2>0. Job \in Scanners
    BY DEF Scanners
  <2>1. missed \in 0 .. MaxMissed
    BY <1>0, <1>7, DeadlinesAssumption DEF Seven, CalendarOK, JobInTime
  <2>2. CalendarOK' /\ AlertsOK'
    BY <1>0, <1>7, <2>1, DeadlinesAssumption DEF Seven, CalendarOK, AlertsOK
  <2>3. CASE up
    <3>1. BeginScan(Job)
      BY <1>7, <2>3 DEF Seven
    <3> QED
      BY <1>0, <1>7, <2>0, <2>2, <3>1, BeginFields DEF Seven, ScansOK, JobInTime
  <2>4. CASE ~up
    BY <1>0, <1>7, <2>1, <2>2, <2>4, DeadlinesAssumption DEF Seven, ScansOK, JobInTime
  <2> QED
    BY <2>3, <2>4
<1>8. ASSUME NextDay
      PROVE  CalendarOK' /\ AlertsOK' /\ ScansOK' /\ JobInTime'
  <2>1. ~(missed > MaxMissed)
    BY <1>8 DEF NextDay, JobInTime, Scanners
  <2>2. CASE day < MonthDays[month]
    <3>1. MonthDays[month] \in Nat
      BY <1>0, DeadlinesAssumption DEF CalendarOK
    <3>2. day' \in 1 .. MonthDays[month] /\ month' = month
      BY <1>0, <1>8, <2>2, <3>1 DEF NextDay, CalendarOK
    <3>3. CalendarOK' /\ JobInTime'
      BY <1>0, <1>8, <2>1, <3>2 DEF NextDay, CalendarOK, JobInTime
    <3>4. AlertsOK' /\ ScansOK'
      BY <1>0, <1>8, <2>2 DEF NextDay, AlertsOK, ScansOK
    <3> QED
      BY <3>3, <3>4
  <2>3. CASE ~(day < MonthDays[month])
    <3>1. month' \in 1 .. Months /\ day' = 1
      BY <1>0, <1>8, <2>3, DeadlinesAssumption DEF NextDay, CalendarOK
    <3>2. MonthDays[month'] \in Nat \ {0}
      BY <3>1, DeadlinesAssumption
    <3>3. CalendarOK' /\ JobInTime'
      <4>1. day' \in 1 .. MonthDays[month']
        BY <3>1, <3>2
      <4>2. seven' = FALSE /\ up' = up /\ missed' = missed
        BY <1>8 DEF NextDay
      <4> QED
        BY <1>0, <2>1, <3>1, <4>1, <4>2 DEF CalendarOK, JobInTime
    <3>4. AlertsOK'
      BY <1>0, <1>8, <2>3, RuleNames DEF NextDay, AlertsOK
    <3>5. ScansOK'
      BY <1>0, <1>8 DEF NextDay, ScansOK
    <3> QED
      BY <3>3, <3>4, <3>5
  <2> QED
    BY <2>2, <2>3
<1>9. ASSUME Crash
      PROVE  CalendarOK' /\ AlertsOK' /\ ScansOK' /\ JobInTime'
  <2>1. CalendarOK' /\ AlertsOK'
    BY <1>0, <1>9 DEF Crash, CalendarOK, AlertsOK, calendarVars
  <2>2. ScansOK'
    BY <1>9, IdleType DEF Crash, ScansOK
  <2>3. JobInTime'
    BY <1>0, <1>9, DeadlinesAssumption DEF Crash, CalendarOK, JobInTime
  <2> QED
    BY <2>1, <2>2, <2>3
<1>10. ASSUME Start
       PROVE  CalendarOK' /\ AlertsOK' /\ ScansOK' /\ JobInTime'
  BY <1>0, <1>10 DEF Start, CalendarOK, AlertsOK, ScansOK, JobInTime, calendarVars
<1>11. ASSUME UNCHANGED deadlineVars
       PROVE  CalendarOK' /\ AlertsOK' /\ ScansOK' /\ JobInTime'
  BY <1>0, <1>11 DEF deadlineVars, CalendarOK, AlertsOK, ScansOK, JobInTime
<1>12. CalendarOK' /\ AlertsOK' /\ ScansOK' /\ JobInTime'
  BY <1>1, <1>3, <1>4, <1>5, <1>6, <1>7, <1>8, <1>9, <1>10, <1>11 DEF DeadlinesNext, ScanStep
<1>13. DeadlinesTypeOK' <=> CalendarOK' /\ AlertsOK' /\ ScansOK'
  BY DEF DeadlinesTypeOK, CalendarOK, AlertsOK, ScansOK
<1> QED
  BY <1>12, <1>13

\* Types, whatever the calendar and however many clients scan at once.
THEOREM DeadlinesTypeCorrect == DeadlinesSpec => []DeadlinesTypeOK
<1>1. DeadlinesTypeOK /\ JobInTime /\ [DeadlinesNext]_deadlineVars => DeadlinesTypeOK' /\ JobInTime'
  BY StepTyped
<1> QED
  BY <1>1, InitTyped, PTL DEF DeadlinesSpec

-----------------------------------------------------------------------------
(* Scans. *)

LEMMA RestIdleStep ==
  ASSUME DeadlinesTypeOK, RestIdle, [DeadlinesNext]_deadlineVars
  PROVE  RestIdle'
<1>1. ASSUME NEW s \in Scanners, ScanRule(s)
      PROVE  RestIdle'
  <2>1. scan[s].todo # {}
    BY <1>1, ScanRuleFields
  <2>2. scan[s].running
    BY <2>1, IdleType DEF RestIdle
  <2> QED
    BY <1>1, <2>2, ScanRuleFields DEF RestIdle
<1>2. ASSUME NEW s \in Scanners, FailScan(s) \/ CommitScan(s)
      PROVE  RestIdle'
  BY <1>2, EndedFields DEF FailScan, CommitScan, RestIdle
<1>3. ASSUME NEW s \in Clients, RequestScan(s)
      PROVE  RestIdle'
  BY <1>3, BeginFields DEF RequestScan, RestIdle, Scanners
<1>4. ASSUME NEW rule \in Rules, NEW n \in Scanners, ResolveAlert(rule, n)
      PROVE  RestIdle'
  BY <1>4 DEF ResolveAlert, RestIdle
<1>5. CASE Seven
  <2>1. CASE up
    BY <1>5, <2>1, BeginFields DEF Seven, RestIdle, Scanners
  <2>2. CASE ~up
    BY <1>5, <2>2 DEF Seven, RestIdle
  <2> QED
    BY <2>1, <2>2
<1>6. CASE NextDay
  BY <1>6 DEF NextDay, RestIdle
<1>7. CASE Crash
  BY <1>7 DEF Crash, RestIdle
<1>8. CASE Start
  BY <1>8 DEF Start, RestIdle
<1>9. CASE UNCHANGED deadlineVars
  BY <1>9 DEF deadlineVars, RestIdle
<1> QED
  BY <1>1, <1>2, <1>3, <1>4, <1>5, <1>6, <1>7, <1>8, <1>9 DEF DeadlinesNext, ScanStep

\* On no day is the return of the month within the window.
LEMMA VatNotDue ==
  ASSUME DeadlinesTypeOK
  PROVE  "DPH_MONTHLY" \notin Due \cup {KhRule}
<1>1. MonthDays[month] \in Nat /\ day \in 1 .. MonthDays[month]
  BY DeadlinesAssumption DEF DeadlinesTypeOK
<1>2. MonthDays[month] - day + FilingDay > Window
  BY <1>1, DeadlinesAssumption
<1>3. DaysUntil("DPH_MONTHLY") = MonthDays[month] - day + FilingDay
  BY DEF DaysUntil
<1> QED
  BY <1>1, <1>2, <1>3, RuleNames, DeadlinesAssumption DEF Due

\* What a step may do to the list of rules that a scan has to look at, and to
\* those it inserts an alert of.
LEMMA VatNotScannedStep ==
  ASSUME DeadlinesTypeOK, VatNotScanned, [DeadlinesNext]_deadlineVars
  PROVE  VatNotScanned'
<1>1. ASSUME NEW s \in Scanners, ScanRule(s)
      PROVE  VatNotScanned'
  BY <1>1, ScanRuleFields DEF VatNotScanned
<1>2. ASSUME NEW s \in Scanners, FailScan(s) \/ CommitScan(s)
      PROVE  VatNotScanned'
  BY <1>2, EndedFields, IdleType DEF FailScan, CommitScan, VatNotScanned
<1>3. ASSUME NEW s \in Clients, RequestScan(s)
      PROVE  VatNotScanned'
  BY <1>3, BeginFields, VatNotDue DEF RequestScan, VatNotScanned, Scanners
<1>4. ASSUME NEW rule \in Rules, NEW n \in Scanners, ResolveAlert(rule, n)
      PROVE  VatNotScanned'
  BY <1>4 DEF ResolveAlert, VatNotScanned
<1>5. CASE Seven
  <2>1. CASE up
    BY <1>5, <2>1, BeginFields, VatNotDue DEF Seven, VatNotScanned, Scanners
  <2>2. CASE ~up
    BY <1>5, <2>2 DEF Seven, VatNotScanned
  <2> QED
    BY <2>1, <2>2
<1>6. CASE NextDay
  BY <1>6 DEF NextDay, VatNotScanned
<1>7. CASE Crash
  BY <1>7, IdleType DEF Crash, VatNotScanned
<1>8. CASE Start
  BY <1>8 DEF Start, VatNotScanned
<1>9. CASE UNCHANGED deadlineVars
  BY <1>9 DEF deadlineVars, VatNotScanned
<1> QED
  BY <1>1, <1>2, <1>3, <1>4, <1>5, <1>6, <1>7, <1>8, <1>9 DEF DeadlinesNext, ScanStep

-----------------------------------------------------------------------------
(* Alerts. *)

\* What a step may do to the alerts: a commit writes, a resolution closes one, a
\* new month closes those of the VAT period, and nothing else touches them.
LEMMA AlertsFields ==
  ASSUME DeadlinesTypeOK, [DeadlinesNext]_deadlineVars,
         \A s \in Scanners : ~CommitScan(s),
         NEW rule \in Rules, NEW n \in Scanners
  PROVE  alerts'[rule][n] = alerts[rule][n] \/ alerts'[rule][n] = "none"
<1>1. alerts \in [Rules -> [Scanners -> {"none", "INFO", "WARNING", "BLOCKER"}]]
  BY DEF DeadlinesTypeOK
<1>2. ASSUME NEW r \in Rules, NEW m \in Scanners, ResolveAlert(r, m)
      PROVE  alerts'[rule][n] = alerts[rule][n] \/ alerts'[rule][n] = "none"
  BY <1>1, <1>2 DEF ResolveAlert
<1>3. CASE NextDay
  BY <1>1, <1>3, RuleNames DEF NextDay
<1>4. CASE UNCHANGED alerts
  BY <1>4
<1> QED
  BY <1>2, <1>3, <1>4
  DEF DeadlinesNext, ScanStep, ScanRule, FailScan, RequestScan, Seven, Crash, Start, deadlineVars

LEMMA NoVatReminderStep ==
  ASSUME DeadlinesTypeOK, VatNotScanned, NoVatReminder, [DeadlinesNext]_deadlineVars
  PROVE  NoVatReminder'
<1>1. "DPH_MONTHLY" \in Rules
  BY DEF Rules, DeadlineRules
<1>2. \A n \in Scanners : alerts["DPH_MONTHLY"][n] = "none"
  BY DEF NoVatReminder, OpenAlerts
<1>3. ASSUME NEW s \in Scanners, CommitScan(s), NEW n \in Scanners
      PROVE  alerts'["DPH_MONTHLY"][n] = "none"
  BY <1>1, <1>2, <1>3, CommittedFields DEF VatNotScanned
<1>4. \A n \in Scanners : alerts'["DPH_MONTHLY"][n] = "none"
  BY <1>1, <1>2, <1>3, AlertsFields
<1> QED
  BY <1>4 DEF NoVatReminder, OpenAlerts

LEMMA RaisesOneAtATimeStep ==
  ASSUME DeadlinesTypeOK, DeadlinesTypeOK', RaisesOneAtATime, [DeadlinesNext]_deadlineVars
  PROVE  RaisesOneAtATime'
<1>0. \A s \in Scanners : scan[s] \in Transaction
  BY DEF DeadlinesTypeOK
<1>1. ASSUME NEW s \in Scanners, ScanRule(s)
      PROVE  RaisesOneAtATime'
  <2>1. UNCHANGED alerts
    BY <1>1 DEF ScanRule
  <2> QED
    BY <1>1, <2>1, ScanRuleFields DEF RaisesOneAtATime, OpenAlerts
<1>2. ASSUME NEW s \in Scanners, FailScan(s)
      PROVE  RaisesOneAtATime'
  BY <1>2, EndedFields, IdleType DEF FailScan, RaisesOneAtATime
<1>3. ASSUME NEW s \in Scanners, CommitScan(s)
      PROVE  RaisesOneAtATime'
  <2>1. Ended(s)
    BY <1>3 DEF CommitScan
  <2>2. \A rule \in Rules, n \in Scanners : n # s /\ alerts[rule][n] = "none" => alerts'[rule][n] = "none"
    BY <1>3, CommittedFields
  <2>3. ASSUME NEW t \in Scanners, NEW rule \in scan'[t].insert
        PROVE  alerts'[rule][t] = "none"
    <3>1. t # s /\ rule \in scan[t].insert
      BY <2>1, <2>3, EndedFields, IdleType
    <3>2. rule \in Rules /\ alerts[rule][t] = "none"
      BY <1>0, <3>1 DEF Transaction, RaisesOneAtATime
    <3> QED
      BY <2>2, <2>3, <3>1, <3>2
  <2> QED
    BY <2>3 DEF RaisesOneAtATime
<1>4. ASSUME NEW s \in Scanners, UNCHANGED alerts, BeginScan(s)
      PROVE  RaisesOneAtATime'
  BY <1>4, BeginFields DEF RaisesOneAtATime
<1>5. ASSUME UNCHANGED scan, \A s \in Scanners : ~CommitScan(s)
      PROVE  RaisesOneAtATime'
  <2>1. ASSUME NEW t \in Scanners, NEW rule \in scan[t].insert
        PROVE  alerts'[rule][t] = "none"
    <3>1. rule \in Rules /\ alerts[rule][t] = "none"
      BY <1>0 DEF Transaction, RaisesOneAtATime
    <3> QED
      BY <1>5, <3>1, AlertsFields
  <2> QED
    BY <1>5, <2>1 DEF RaisesOneAtATime
<1>6. CASE Crash
  BY <1>6, IdleType DEF Crash, RaisesOneAtATime
<1>7. ASSUME \A s \in Scanners : ~CommitScan(s)
      PROVE  RaisesOneAtATime'
  <2>1. ASSUME NEW s \in Clients, RequestScan(s)
        PROVE  RaisesOneAtATime'
    BY <1>4, <2>1 DEF RequestScan, Scanners
  <2>2. CASE Seven
    <3>1. UNCHANGED alerts /\ (BeginScan(Job) \/ UNCHANGED scan)
      BY <2>2 DEF Seven
    <3> QED
      BY <1>4, <1>5, <1>7, <3>1 DEF Scanners
  <2>3. CASE \/ \E rule \in Rules, n \in Scanners : ResolveAlert(rule, n)
             \/ NextDay \/ Start \/ UNCHANGED deadlineVars
    <3>1. UNCHANGED scan
      BY <2>3 DEF ResolveAlert, NextDay, Start, deadlineVars
    <3> QED
      BY <1>5, <1>7, <3>1
  <2> QED
    BY <1>1, <1>2, <1>6, <1>7, <2>1, <2>2, <2>3 DEF DeadlinesNext, ScanStep
<1> QED
  BY <1>3, <1>7

\* Within a day the deadlines are the same number of days away.
LEMMA SameDay ==
  ASSUME UNCHANGED <<month, day>>
  PROVE  Due' = Due /\ \A rule : SeverityToday(rule)' = SeverityToday(rule)
BY DEF Due, SeverityToday, SeverityForDays, DaysUntil, DayOfYear

LEMMA EscalatesRaises ==
  ASSUME DeadlinesTypeOK, NEW rule \in Rules, NEW n \in Scanners, Escalates(rule, n),
         alerts[rule][n] # "none"
  PROVE  SeverityRank(SeverityToday(rule)) >= SeverityRank(alerts[rule][n])
<1>1. alerts[rule][n] \in {"INFO", "WARNING", "BLOCKER"}
  BY DEF DeadlinesTypeOK
<1>2. SeverityRank("BLOCKER") = 3 /\ SeverityRank("WARNING") = 2 /\ SeverityRank("INFO") = 1
  BY DEF SeverityRank
<1> QED
  BY <1>1, <1>2 DEF Escalates

\* A step that adds no update and raises no alert, within a day.
LEMMA FewerUpdates ==
  ASSUME UpdatesRaise, UNCHANGED <<month, day>>,
         \A s \in Scanners : scan'[s].update \subseteq scan[s].update,
         \A rule \in Rules, n \in Scanners :
           alerts'[rule][n] = alerts[rule][n] \/ alerts'[rule][n] = "none"
  PROVE  UpdatesRaise'
<1>1. ASSUME NEW s \in Scanners, NEW rule \in Rules, NEW n \in Scanners,
             <<rule, n>> \in scan'[s].update, alerts'[rule][n] # "none"
      PROVE  SeverityRank(SeverityToday(rule)') >= SeverityRank(alerts'[rule][n])
  <2>1. <<rule, n>> \in scan[s].update /\ alerts'[rule][n] = alerts[rule][n]
    BY <1>1
  <2> QED
    BY <1>1, <2>1, SameDay DEF UpdatesRaise
<1> QED
  BY <1>1 DEF UpdatesRaise

LEMMA UpdatesRaiseStep ==
  ASSUME DeadlinesTypeOK, RestIdle, UpdatesRaise, [DeadlinesNext]_deadlineVars
  PROVE  UpdatesRaise'
<1>1. ASSUME NEW s \in Scanners, ScanRule(s)
      PROVE  UpdatesRaise'
  <2>1. UNCHANGED <<month, day, alerts>>
    BY <1>1 DEF ScanRule, calendarVars
  <2>2. ASSUME NEW t \in Scanners, NEW rule \in Rules, NEW n \in Scanners,
               <<rule, n>> \in scan'[t].update, alerts[rule][n] # "none"
        PROVE  SeverityRank(SeverityToday(rule)) >= SeverityRank(alerts[rule][n])
    <3>1. CASE <<rule, n>> \in scan[t].update
      BY <2>2, <3>1 DEF UpdatesRaise
    <3>2. CASE <<rule, n>> \notin scan[t].update
      <4>1. Escalates(rule, n)
        BY <1>1, <2>2, <3>2, ScanRuleFields
      <4> QED
        BY <2>2, <4>1, EscalatesRaises
    <3> QED
      BY <3>1, <3>2
  <2> QED
    BY <2>1, <2>2, SameDay DEF UpdatesRaise
<1>2. ASSUME NEW s \in Scanners, CommitScan(s)
      PROVE  UpdatesRaise'
  <2>1. UNCHANGED <<month, day>> /\ Ended(s)
    BY <1>2 DEF CommitScan, calendarVars
  <2>2. \A rule \in Rules, n \in Scanners :
          alerts'[rule][n] = SeverityToday(rule) \/ alerts'[rule][n] = alerts[rule][n]
    BY <1>2, CommittedFields
  <2>3. ASSUME NEW t \in Scanners, NEW rule \in Rules, NEW n \in Scanners,
               <<rule, n>> \in scan'[t].update, alerts'[rule][n] # "none"
        PROVE  SeverityRank(SeverityToday(rule)) >= SeverityRank(alerts'[rule][n])
    <3>1. <<rule, n>> \in scan[t].update
      BY <2>1, <2>3, EndedFields, IdleType
    <3>2. CASE alerts'[rule][n] = SeverityToday(rule)
      BY <3>2, SeverityType, RankType
    <3>3. CASE alerts'[rule][n] = alerts[rule][n]
      BY <2>3, <3>1, <3>3 DEF UpdatesRaise
    <3> QED
      BY <2>2, <2>3, <3>2, <3>3
  <2> QED
    BY <2>1, <2>3, SameDay DEF UpdatesRaise
<1>3. ASSUME \A s \in Scanners : ~CommitScan(s), UNCHANGED <<month, day>>,
             \A s \in Scanners : scan'[s].update \subseteq scan[s].update
      PROVE  UpdatesRaise'
  BY <1>3, AlertsFields, FewerUpdates
<1>4. ASSUME NEW s \in Scanners, FailScan(s), \A t \in Scanners : ~CommitScan(t)
      PROVE  UpdatesRaise'
  <2>1. UNCHANGED <<month, day>> /\ Ended(s)
    BY <1>4 DEF FailScan, calendarVars
  <2>2. \A t \in Scanners : scan'[t].update \subseteq scan[t].update
    BY <2>1, EndedFields, IdleType
  <2> QED
    BY <1>3, <1>4, <2>1, <2>2
<1>5. ASSUME NEW s \in Scanners, BeginScan(s), UNCHANGED <<month, day>>,
             \A t \in Scanners : ~CommitScan(t)
      PROVE  UpdatesRaise'
  <2>1. \A t \in Scanners : scan'[t].update \subseteq scan[t].update
    BY <1>5, BeginFields
  <2> QED
    BY <1>3, <1>5, <2>1
<1>6. ASSUME UNCHANGED <<scan, month, day>>, \A t \in Scanners : ~CommitScan(t)
      PROVE  UpdatesRaise'
  BY <1>3, <1>6
<1>7. ASSUME NextDay
      PROVE  UpdatesRaise'
  <2>1. \A s \in Scanners : scan'[s].update = {}
    BY <1>7, IdleType DEF NextDay, RestIdle
  <2> QED
    BY <2>1 DEF UpdatesRaise
<1>8. ASSUME Crash
      PROVE  UpdatesRaise'
  <2>1. \A s \in Scanners : scan'[s].update = {}
    BY <1>8, IdleType DEF Crash
  <2> QED
    BY <2>1 DEF UpdatesRaise
<1>9. ASSUME \A s \in Scanners : ~CommitScan(s)
      PROVE  UpdatesRaise'
  <2>1. ASSUME NEW s \in Clients, RequestScan(s)
        PROVE  UpdatesRaise'
    BY <1>5, <1>9, <2>1 DEF RequestScan, Scanners, calendarVars
  <2>2. CASE Seven
    <3>1. UNCHANGED <<month, day>> /\ (BeginScan(Job) \/ UNCHANGED scan)
      BY <2>2 DEF Seven
    <3> QED
      BY <1>5, <1>6, <1>9, <3>1 DEF Scanners
  <2>3. CASE \/ \E rule \in Rules, n \in Scanners : ResolveAlert(rule, n)
             \/ Start \/ UNCHANGED deadlineVars
    <3>1. UNCHANGED <<scan, month, day>>
      BY <2>3 DEF ResolveAlert, Start, deadlineVars, calendarVars
    <3> QED
      BY <1>6, <1>9, <3>1
  <2> QED
    BY <1>1, <1>4, <1>7, <1>8, <1>9, <2>1, <2>2, <2>3 DEF DeadlinesNext, ScanStep
<1> QED
  BY <1>2, <1>9

\* A step lowers no alert that stays open.
LEMMA SeverityStep ==
  ASSUME DeadlinesTypeOK, RaisesOneAtATime, UpdatesRaise, [DeadlinesNext]_deadlineVars,
         NEW rule \in Rules, NEW n \in Scanners,
         alerts[rule][n] # "none", alerts'[rule][n] # "none"
  PROVE  SeverityRank(alerts'[rule][n]) >= SeverityRank(alerts[rule][n])
<1>1. SeverityRank(alerts[rule][n]) \in 1 .. 3
  BY RankType DEF DeadlinesTypeOK
<1>2. CASE \A s \in Scanners : ~CommitScan(s)
  BY <1>1, <1>2, AlertsFields
<1>3. ASSUME NEW s \in Scanners, CommitScan(s)
      PROVE  SeverityRank(alerts'[rule][n]) >= SeverityRank(alerts[rule][n])
  <2>1. ~(rule \in scan[s].insert /\ n = s)
    BY DEF RaisesOneAtATime
  <2>2. \/ <<rule, n>> \in scan[s].update /\ alerts'[rule][n] = SeverityToday(rule)
        \/ alerts'[rule][n] = alerts[rule][n]
    BY <1>3, <2>1, CommittedFields
  <2> QED
    BY <1>1, <2>2 DEF UpdatesRaise
<1> QED
  BY <1>2, <1>3

-----------------------------------------------------------------------------
(* The job. *)

\* A step within a day that leaves the job's transaction alone and closes nothing.
LEMMA LookedForKept ==
  ASSUME LookedFor, UNCHANGED <<month, day>>, scan'[Job] = scan[Job],
         resolved \subseteq resolved',
         \A rule \in Rules, n \in Scanners : alerts[rule][n] # "none" => alerts'[rule][n] # "none"
  PROVE  LookedFor'
<1>1. ASSUME scan[Job].running, NEW rule \in Due \ scan[Job].todo
      PROVE  rule \in scan[Job].insert \cup resolved' \/ OpenAlerts(rule)' # {}
  <2>1. rule \in Rules
    BY RuleNames DEF Due
  <2> QED
    BY <1>1, <2>1 DEF LookedFor, OpenAlerts
<1> QED
  BY <1>1, SameDay DEF LookedFor

LEMMA LookedForStep ==
  ASSUME DeadlinesTypeOK, LookedFor, [DeadlinesNext]_deadlineVars
  PROVE  LookedFor'
<1>0. Job \in Scanners /\ Job \notin Clients
  BY DeadlinesAssumption DEF Scanners
<1>1. ASSUME NEW s \in Scanners, ScanRule(s)
      PROVE  LookedFor'
  <2>1. UNCHANGED <<month, day, alerts, resolved>>
    BY <1>1 DEF ScanRule, calendarVars
  <2>2. CASE s # Job
    BY <1>0, <1>1, <2>1, <2>2, ScanRuleFields, LookedForKept
  <2>3. CASE s = Job
    <3>1. ASSUME scan'[Job].running, NEW rule \in Due \ scan'[Job].todo
          PROVE  rule \in scan'[Job].insert \cup resolved \/ OpenAlerts(rule) # {}
      <4>1. CASE rule \notin scan[Job].todo
        BY <1>1, <2>3, <3>1, <4>1, ScanRuleFields DEF LookedFor
      <4>2. CASE rule \in scan[Job].todo
        <5>1. rule # KhRule
          BY <3>1, RuleNames DEF Due
        <5> QED
          BY <1>1, <2>3, <3>1, <4>2, <5>1, ScanRuleFields
      <4> QED
        BY <4>1, <4>2
    <3>2. OpenAlerts(KhRule)' = OpenAlerts(KhRule) /\ \A rule : OpenAlerts(rule)' = OpenAlerts(rule)
      BY <2>1 DEF OpenAlerts
    <3> QED
      BY <2>1, <3>1, <3>2, SameDay DEF LookedFor
  <2> QED
    BY <2>2, <2>3
<1>2. ASSUME NEW s \in Scanners, FailScan(s) \/ CommitScan(s)
      PROVE  LookedFor'
  <2>1. Ended(s) /\ UNCHANGED <<month, day>>
    BY <1>2 DEF FailScan, CommitScan, calendarVars
  <2>2. CASE s = Job
    BY <2>1, <2>2, EndedFields, IdleType DEF LookedFor
  <2>3. CASE s # Job
    <3>1. scan'[Job] = scan[Job] /\ resolved' = resolved
      BY <1>0, <2>1, <2>3, EndedFields DEF Ended
    <3>2. \A rule \in Rules, n \in Scanners : alerts[rule][n] # "none" => alerts'[rule][n] # "none"
      <4>1. CASE FailScan(s)
        BY <4>1 DEF FailScan
      <4>2. CASE CommitScan(s)
        BY <4>2, CommittedOpens
      <4> QED
        BY <1>2, <4>1, <4>2
    <3> QED
      BY <2>1, <3>1, <3>2, LookedForKept
  <2> QED
    BY <2>2, <2>3
<1>3. ASSUME NEW s \in Clients, RequestScan(s)
      PROVE  LookedFor'
  <2>1. UNCHANGED <<month, day, alerts, resolved>> /\ scan'[Job] = scan[Job]
    BY <1>0, <1>3, BeginFields DEF RequestScan, calendarVars, Scanners
  <2> QED
    BY <2>1, LookedForKept
<1>4. ASSUME NEW rule \in Rules, NEW n \in Scanners, ResolveAlert(rule, n)
      PROVE  LookedFor'
  <2>1. UNCHANGED <<month, day, scan>>
    BY <1>4 DEF ResolveAlert, calendarVars
  <2>2. ASSUME scan[Job].running, NEW r \in Due \ scan[Job].todo
        PROVE  r \in scan[Job].insert \cup resolved' \/ OpenAlerts(r)' # {}
    <3>1. r \in DeadlineRules /\ r \in Rules
      BY <2>2, RuleNames DEF Due
    <3>2. resolved' = resolved \cup (({rule} \cap DeadlineRules) \ scan[Job].todo)
      BY <1>4, <2>2 DEF ResolveAlert
    <3>3. CASE r = rule
      BY <2>2, <3>1, <3>2, <3>3
    <3>4. CASE r # rule
      <4>1. alerts'[r] = alerts[r]
        BY <1>4, <3>1, <3>4 DEF ResolveAlert, DeadlinesTypeOK
      <4>2. OpenAlerts(r)' = OpenAlerts(r)
        BY <4>1 DEF OpenAlerts
      <4> QED
        BY <2>2, <3>2, <4>2 DEF LookedFor
    <3> QED
      BY <3>3, <3>4
  <2> QED
    BY <2>1, <2>2, SameDay DEF LookedFor
<1>5. CASE Seven
  <2>1. UNCHANGED <<month, day, alerts, resolved>>
    BY <1>5 DEF Seven
  <2>2. CASE up
    <3>1. BeginScan(Job)
      BY <1>5, <2>2 DEF Seven
    <3>2. scan'[Job].todo = Due \cup {KhRule}
      BY <1>0, <3>1, BeginFields
    <3> QED
      BY <2>1, <3>2, SameDay DEF LookedFor
  <2>3. CASE ~up
    <3>1. UNCHANGED scan
      BY <1>5, <2>3 DEF Seven
    <3> QED
      BY <2>1, <3>1, LookedForKept
  <2> QED
    BY <2>2, <2>3
<1>6. CASE NextDay
  BY <1>0, <1>6 DEF NextDay, LookedFor
<1>7. CASE Crash
  BY <1>0, <1>7, IdleType DEF Crash, LookedFor
<1>8. CASE Start \/ UNCHANGED deadlineVars
  <2>1. UNCHANGED <<month, day, scan, alerts, resolved>>
    BY <1>8 DEF Start, deadlineVars, calendarVars
  <2> QED
    BY <2>1, LookedForKept
<1> QED
  BY <1>1, <1>2, <1>3, <1>4, <1>5, <1>6, <1>7, <1>8 DEF DeadlinesNext, ScanStep

\* What the job has looked for has an alert when it commits.
LEMMA JobStep ==
  ASSUME DeadlinesTypeOK, LookedFor, [DeadlinesNext]_deadlineVars,
         scan[Job].running, scan[Job].todo = {}, ~scan'[Job].running, up',
         NEW rule \in DeadlineRules \ resolved, DaysUntil(rule) <= Window
  PROVE  \E n \in Scanners : alerts'[rule][n] # "none"
<1>0. Job \in Scanners /\ Job \notin Clients /\ rule \in Rules
  BY RuleNames, DeadlinesAssumption DEF Scanners
<1>1. rule \in scan[Job].insert \/ OpenAlerts(rule) # {}
  BY DEF LookedFor, Due
<1>2. CASE CommitScan(Job)
  <2>1. \A n \in Scanners : alerts[rule][n] # "none" => alerts'[rule][n] # "none"
    BY <1>0, <1>2, CommittedOpens
  <2>2. rule \in scan[Job].insert => alerts'[rule][Job] # "none"
    BY <1>0, <1>2, CommittedOpens
  <2> QED
    BY <1>0, <1>1, <2>1, <2>2 DEF OpenAlerts
<1>3. CASE ~CommitScan(Job)
  <2>1. ASSUME NEW s \in Scanners, ScanStep(s)
        PROVE  FALSE
    <3>1. CASE s = Job
      BY <1>3, <2>1, <3>1 DEF ScanStep, ScanRule, FailScan, IsNext
    <3>2. CASE s # Job
      BY <1>0, <2>1, <3>2, ScanRuleFields, EndedFields DEF ScanStep, FailScan, CommitScan
    <3> QED
      BY <3>1, <3>2
  <2>2. ASSUME NEW s \in Clients, RequestScan(s)
        PROVE  FALSE
    BY <1>0, <2>2, BeginFields DEF RequestScan, Scanners
  <2>3. CASE Seven
    <3>1. CASE up
      BY <1>0, <2>3, <3>1, BeginFields DEF Seven
    <3>2. CASE ~up
      BY <2>3, <3>2 DEF Seven
    <3> QED
      BY <3>1, <3>2
  <2> QED
    BY <2>1, <2>2, <2>3
    DEF DeadlinesNext, ResolveAlert, NextDay, Crash, Start, deadlineVars
<1> QED
  BY <1>2, <1>3

-----------------------------------------------------------------------------
(* Theorems. *)

LEMMA InvInit == DeadlinesInit => DeadlinesInv
<1> SUFFICES ASSUME DeadlinesInit PROVE DeadlinesInv
  OBVIOUS
<1>1. DeadlinesTypeOK
  BY InitTyped
<1>2. \A s \in Scanners : scan[s] = Idle
  BY DEF DeadlinesInit
<1>3. \A rule \in Rules, n \in Scanners : alerts[rule][n] = "none"
  BY DEF DeadlinesInit
<1>4. RestIdle /\ VatNotScanned /\ RaisesOneAtATime /\ UpdatesRaise
  BY <1>2, IdleType DEF RestIdle, VatNotScanned, RaisesOneAtATime, UpdatesRaise
<1>5. NoVatReminder
  BY <1>3 DEF NoVatReminder, OpenAlerts, Rules, DeadlineRules
<1>6. LookedFor
  BY <1>2, IdleType DEF LookedFor, Scanners
<1> QED
  BY <1>1, <1>4, <1>5, <1>6 DEF DeadlinesInv

LEMMA InvStep ==
  ASSUME DeadlinesInv, JobInTime, [DeadlinesNext]_deadlineVars
  PROVE  DeadlinesInv' /\ JobInTime'
<1>1. DeadlinesTypeOK' /\ JobInTime'
  BY StepTyped DEF DeadlinesInv
<1> QED
  BY <1>1, RestIdleStep, VatNotScannedStep, NoVatReminderStep, RaisesOneAtATimeStep,
     UpdatesRaiseStep, LookedForStep DEF DeadlinesInv

THEOREM DeadlinesInvariant == DeadlinesSpec => [](DeadlinesInv /\ JobInTime)
<1>1. DeadlinesInit => DeadlinesInv /\ JobInTime
  BY InvInit, InitTyped
<1>2. DeadlinesInv /\ JobInTime /\ [DeadlinesNext]_deadlineVars => (DeadlinesInv /\ JobInTime)'
  BY InvStep
<1> QED
  BY <1>1, <1>2, PTL DEF DeadlinesSpec

\* No scan, of the job or of a client, ever raises a reminder of the VAT return:
\* the only one in the calendar is due FilingDay days or more from any day of its
\* month, and the window is shorter.  So what VatReturnReminded asks is violated on
\* every calendar, whenever a job runs before the return of last month is due.
THEOREM VatReturnNeverReminded == DeadlinesSpec => []NoVatReminder
BY DeadlinesInvariant, PTL DEF DeadlinesInv

\* However scans overlap, crash and are repeated, none doubles its own alert.
THEOREM ScansRaiseOneAtATime == DeadlinesSpec => []RaisesOneAtATime
BY DeadlinesInvariant, PTL DEF DeadlinesInv

\* No scan, however late it commits, makes an open alert less severe.
THEOREM SeverityNeverFalls == DeadlinesSpec => SeverityOnlyRises
<1>1. DeadlinesInv /\ [DeadlinesNext]_deadlineVars =>
        [\A rule \in Rules, n \in Scanners :
           alerts[rule][n] # "none" /\ alerts'[rule][n] # "none" =>
             SeverityRank(alerts'[rule][n]) >= SeverityRank(alerts[rule][n])]_deadlineVars
  BY SeverityStep DEF DeadlinesInv
<1> QED
  BY <1>1, DeadlinesInvariant, PTL DEF DeadlinesSpec, SeverityOnlyRises

\* A job that runs to its end leaves no deadline within the window without alert.
THEOREM JobLeavesNoneOut == DeadlinesSpec => JobAlertsEveryDeadline
<1>1. DeadlinesInv /\ [DeadlinesNext]_deadlineVars =>
        [scan[Job].running /\ scan[Job].todo = {} /\ ~scan'[Job].running /\ up' =>
           \A rule \in DeadlineRules \ resolved :
             DaysUntil(rule) <= Window => \E n \in Scanners : alerts'[rule][n] # "none"]_deadlineVars
  BY JobStep DEF DeadlinesInv
<1> QED
  BY <1>1, DeadlinesInvariant, PTL DEF DeadlinesSpec, JobAlertsEveryDeadline
=============================================================================
