---------------------------- MODULE Surveillance ----------------------------
(***************************************************************************)
(* The surveillance service: its consumer evaluates five rules on the      *)
(* platform's events (RuleEngine), stores an alert for each match it has   *)
(* not stored before and publishes it; analysts acknowledge, resolve and   *)
(* dismiss alerts.  The process runs one reader per topic; the engine,     *)
(* with the last prices and the users' recent orders, is in its memory.    *)
(*                                                                         *)
(* Abstractions.  Time: an event counted in a rolling window may have left *)
(* it whenever the window is looked at.  A source event carries one number *)
(* (`value': notional, score or price).  Rule executions and metrics are   *)
(* written and never read, so only their failure is modelled.  One process *)
(* consumes, so nobody inserts an alert between the look for a duplicate   *)
(* and the insert.                                                         *)
(***************************************************************************)
EXTENDS PlatformEvents, RuleConfigs

CONSTANTS
  Symbols,
  Analysts,       \* who may be changing an alert at the same time
  SurveillanceReaders

ASSUME SurveillanceAssumption ==
  {"LargeOrderRule", "RapidOrderSubmissionRule", "HighCancelRateRule",
   "RiskScoreBreachRule", "AbnormalPriceMovementRule"} \subseteq Rules

SourceEvent ==
  [type : SourceTypes, valid : BOOLEAN, tenant : Tenants, entity : STRING,
   user : Users \union {NoOne}, value : Nat]

AlertStatuses == {"OPEN", "ACKNOWLEDGED", "RESOLVED", "DISMISSED"}
AlertEvent ==
  [type : AlertTypes, alert : Nat, tenant : Tenants, user : Users \union {NoOne},
   status : AlertStatuses]

VARIABLES
  lastPrice,     \* RuleEngine.lastPrices, 0 before the first
  recent,        \* recent[rule, user]: events in the rolling window
  work,          \* work[r]: the alerts that r's event still has to raise
  alerts,        \* surveillance_alerts, by id
  announcing,    \* announcing[a]: the change that analyst a has to publish
  unannounced    \* history: alerts whose creation was never published

engineVars == <<lastPrice, recent>>
surveillanceVars == <<engineVars, work, alerts, announcing, unannounced>>

CountingRules == {"RapidOrderSubmissionRule", "HighCancelRateRule"}
NoWork == [matched |-> {}, raised |-> 0, evaluated |-> FALSE]

\* What identifies an alert (DuplicateAlertExists).
Key == [tenant : Tenants, rule : Rules, entity : STRING, source : SourceTypes]
Alert == [key : Key, user : Users \union {NoOne}, status : AlertStatuses]

SurveillanceTypeOK ==
  /\ lastPrice \in [Symbols -> Nat]
  /\ recent \in [CountingRules \X Users -> Nat]
  /\ work \in [SurveillanceReaders ->
                 [matched : SUBSET Rules, raised : Nat, evaluated : BOOLEAN]]
  /\ alerts \in Seq(Alert)
  /\ announcing \in [Analysts -> Nat \X AlertStatuses]
  /\ unannounced \in SUBSET Nat

NothingToSay == <<0, "OPEN">>

SurveillanceInit ==
  /\ lastPrice = [s \in Symbols |-> 0]
  /\ recent = [c \in CountingRules \X Users |-> 0]
  /\ work = [r \in SurveillanceReaders |-> NoWork]
  /\ alerts = <<>>
  /\ announcing = [a \in Analysts |-> NothingToSay]
  /\ unannounced = {}

-----------------------------------------------------------------------------
(***************************************************************************)
(* The rules                                                               *)
(***************************************************************************)

\* EvaluateForTenant: which rules look at an event.
RulesFor(e) ==
  CASE e.type = "order.created" ->
         {"LargeOrderRule"} \union
           (IF e.user = NoOne THEN {} ELSE {"RapidOrderSubmissionRule"})
    [] e.type = "order.filled" -> {"LargeOrderRule"}
    [] e.type = "order.cancelled" -> {"HighCancelRateRule"}
    [] e.type = "risk.score.updated" -> {"RiskScoreBreachRule"}
    [] e.type = "market.ticks" -> {"AbnormalPriceMovementRule"}

EnabledRules(e) == {rule \in RulesFor(e) : RuleSetting(e.tenant, rule).enabled}

\* Of an order's matches, the large order comes first; others come alone.
FirstMatch(rules) ==
  CHOOSE rule \in rules : "LargeOrderRule" \in rules => rule = "LargeOrderRule"

\* The price moved from `last' by more than the threshold, in percent.
Moved(last, price, percent) ==
  /\ last > 0
  /\ price > 0
  /\ 100 * (IF price > last THEN price - last ELSE last - price) > percent * last

\* Whether a rule matches, with `kept' events of the user still in the window.
Matches(rule, e, kept) ==
  LET threshold == RuleSetting(e.tenant, rule).threshold
  IN CASE rule = "LargeOrderRule" -> e.value > threshold
       [] rule \in CountingRules -> e.user # NoOne /\ kept + 1 > threshold
       [] rule = "RiskScoreBreachRule" -> e.value >= threshold
       [] rule = "AbnormalPriceMovementRule" ->
            e.entity # "" /\ Moved(lastPrice[e.entity], e.value, threshold)

Counted(e) == {rule \in EnabledRules(e) : rule \in CountingRules /\ e.user # NoOne}

\* appendRolling: the events that left the window are forgotten, this one is
\* added.
Appended(e, kept) ==
  [c \in CountingRules \X Users |->
     IF c[1] \in Counted(e) /\ c[2] = e.user THEN kept + 1 ELSE recent[c]]

Source(r) == Message(r)
Evaluating(r) ==
  /\ r \in SurveillanceReaders
  /\ Attempting(r)

\* The payload is no JSON.
RejectSource(r) ==
  /\ Evaluating(r)
  /\ ~Source(r).valid
  /\ FailAttempt(r)
  /\ UNCHANGED <<surveillanceVars, configVars>>

\* EvaluateForTenant.  The engine has moved on before anything is stored.
Evaluate(r) ==
  /\ Evaluating(r)
  /\ Source(r).valid
  /\ ~work[r].evaluated
  /\ LET e == Source(r)
         held == IF Counted(e) = {} THEN 0
                 ELSE recent[<<CHOOSE rule \in Counted(e) : TRUE, e.user>>]
     IN \E kept \in 0 .. held :
          /\ work' = [work EXCEPT ![r] =
               [matched |-> {rule \in EnabledRules(e) : Matches(rule, e, kept)},
                raised |-> 0, evaluated |-> TRUE]]
          /\ recent' = Appended(e, kept)
          /\ lastPrice' =
               IF "AbnormalPriceMovementRule" \in EnabledRules(e)
                  /\ e.entity # "" /\ e.value > 0
               THEN [lastPrice EXCEPT ![e.entity] = e.value] ELSE lastPrice
  /\ UNCHANGED <<consumerVars, configVars, alerts, announcing, unannounced>>

\* USER rules are about the user, the others about the event's entity.
KeyOf(rule, e) ==
  [tenant |-> e.tenant, rule |-> rule, source |-> e.type,
   entity |-> IF rule \in CountingRules THEN e.user ELSE e.entity]

\* DuplicateAlertExists, whenever and whatever became of that alert.  An
\* event without an entity gets a random one and is never a duplicate.
DuplicateAlert(key) == key.entity # "" /\ \E i \in DOMAIN alerts : alerts[i].key = key

NextMatch(r) ==
  [work EXCEPT ![r] = [matched |-> @.matched \ {FirstMatch(@.matched)},
                       raised |-> 0, evaluated |-> TRUE]]

\* CreateAlert, unless there is one.
RaiseAlert(r) ==
  /\ Evaluating(r)
  /\ work[r].matched # {}
  /\ work[r].raised = 0
  /\ LET e == Source(r)
         key == KeyOf(FirstMatch(work[r].matched), e)
     IN IF DuplicateAlert(key)
        THEN /\ work' = NextMatch(r)
             /\ UNCHANGED alerts
        ELSE /\ alerts' = Append(alerts, [key |-> key, user |-> e.user, status |-> "OPEN"])
             /\ work' = [work EXCEPT ![r].raised = Len(alerts')]
  /\ UNCHANGED <<consumerVars, configVars, engineVars, announcing, unannounced>>

\* A payload that names nobody.
AnnouncementOfNobody(type, i, status) ==
  [type |-> type, alert |-> i, tenant |-> alerts[i].key.tenant,
   user |-> NoOne, status |-> status]

Announcement(type, i, status) ==
  [type |-> type, alert |-> i, tenant |-> alerts[i].key.tenant,
   user |-> alerts[i].user, status |-> status]

\* publishAlertEvent after the insert.
PublishAlert(r) ==
  /\ r \in SurveillanceReaders
  /\ work[r].raised # 0
  /\ Publish(Announcement("surveillance.alert.created", work[r].raised, "OPEN"))
  /\ work' = NextMatch(r)
  /\ UNCHANGED <<configVars, engineVars, alerts, announcing, unannounced>>

\* The publish fails, which is counted and forgotten.
PublishAlertFails(r) ==
  /\ r \in SurveillanceReaders
  /\ work[r].raised # 0
  /\ unannounced' = unannounced \union {work[r].raised}
  /\ work' = NextMatch(r)
  /\ UNCHANGED <<consumerVars, configVars, engineVars, alerts, announcing>>

SourceProcessed(r) ==
  /\ Evaluating(r)
  /\ work[r].evaluated
  /\ work[r].matched = {}
  /\ Succeed(r)
  /\ work' = [work EXCEPT ![r] = NoWork]
  /\ UNCHANGED <<configVars, engineVars, alerts, announcing, unannounced>>

\* SaveExecution, DuplicateAlertExists or CreateAlert fails: the attempt is
\* given up, the engine keeps what it saw.
SurveillanceDatabaseError(r) ==
  /\ Evaluating(r)
  /\ work[r].evaluated
  /\ work[r].raised = 0
  /\ FailAttempt(r)
  /\ work' = [work EXCEPT ![r] = NoWork]
  /\ UNCHANGED <<configVars, engineVars, alerts, announcing, unannounced>>

-----------------------------------------------------------------------------
(***************************************************************************)
(* The analysts, and the end of the process                                *)
(***************************************************************************)

EventType(status) ==
  CASE status = "ACKNOWLEDGED" -> "surveillance.alert.acknowledged"
    [] status = "RESOLVED" -> "surveillance.alert.resolved"
    [] status = "DISMISSED" -> "surveillance.alert.dismissed"

\* UpdateStatus without its guard.
MayBecomeAnything(i, status) == TRUE

\* UpdateStatus: only acknowledging looks at the status the alert has.
MayBecome(i, status) == status = "ACKNOWLEDGED" => alerts[i].status = "OPEN"

ChangeAlert(a, i, status) ==
  /\ announcing[a] = NothingToSay
  /\ MayBecome(i, status)
  /\ alerts' = [alerts EXCEPT ![i].status = status]
  /\ announcing' = [announcing EXCEPT ![a] = <<i, status>>]
  /\ UNCHANGED <<consumerVars, configVars, engineVars, work, unannounced>>

\* transition publishes what it wrote, after others may have written too.
AnnounceChange(a) ==
  /\ announcing[a] # NothingToSay
  /\ LET i == announcing[a][1]
         status == announcing[a][2]
     IN Publish(Announcement(EventType(status), i, status))
  /\ announcing' = [announcing EXCEPT ![a] = NothingToSay]
  /\ UNCHANGED <<configVars, engineVars, work, alerts, unannounced>>

\* The process is gone: the engine starts empty, and what was being
\* published is not.
ForgetEngine ==
  /\ lastPrice' = [s \in Symbols |-> 0]
  /\ recent' = [c \in CountingRules \X Users |-> 0]
  /\ work' = [r \in SurveillanceReaders |-> NoWork]
  /\ announcing' = [a \in Analysts |-> NothingToSay]
  /\ unannounced' = unannounced \union
       {work[r].raised : r \in {s \in SurveillanceReaders : work[s].raised # 0}}
  /\ RestartConfigs
  /\ UNCHANGED alerts

-----------------------------------------------------------------------------
(***************************************************************************)
(* What holds of it                                                        *)
(***************************************************************************)

\* One alert per tenant, rule, entity and topic.
OneAlertPerKey ==
  \A i, j \in DOMAIN alerts :
    alerts[i].key = alerts[j].key /\ alerts[i].key.entity # "" => i = j

\* A reader that is between messages has nothing left to raise.
WorkIsForTheMessage ==
  \A r \in SurveillanceReaders :
    work[r].evaluated => Attempting(r) /\ work[r].raised \in {0} \union DOMAIN alerts
=============================================================================
