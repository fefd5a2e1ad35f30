---------------------------- MODULE AlertPipeline ----------------------------
(***************************************************************************)
(* From an event to the user it concerns: the surveillance service, the    *)
(* notification service and the audit service, connected by their topics.  *)
(* Each service is one process with one reader per topic; a process may    *)
(* die or be shut down at any time and starts again.                       *)
(***************************************************************************)
EXTENDS Surveillance, NotificationService, AuditTrail

CONSTANTS
  PrefRequests,     \* the sets of channels that users choose from
  ReaderOf,    \* ReaderOf[p]: the reader of partition p
  Plans        \* the source events that may come, by type (feed), with a
               \* bound on crashes and failed statements and publishes (faults)
               \* and on what users, analysts and managers do (calls)

\* Each service has readers of its own, and gets the topics it subscribes to.
ASSUME PipelineAssumption ==
  /\ Readers = SurveillanceReaders \union NotificationReaders \union AuditReaders
  /\ SurveillanceReaders \intersect NotificationReaders = {}
  /\ SurveillanceReaders \intersect AuditReaders = {}
  /\ NotificationReaders \intersect AuditReaders = {}
  /\ \A type \in DOMAIN Subscribed : \A p \in Subscribed[type] :
       /\ ReaderOf[p] \in SurveillanceReaders => type \in SourceTypes
       /\ ReaderOf[p] \in NotificationReaders => type \in AlertTypes
  /\ PrefRequests \subseteq SUBSET Channels
  /\ ReaderOf \in [Partitions -> Readers]
  /\ \A plan \in Plans : plan \in [feed : [SourceTypes -> Seq(SourceEvent)],
                                   faults : Nat, calls : Nat]

VARIABLES
  ahead,    \* what is left of this behaviour's plan
  called    \* history: somebody has called one of the services

vars == <<consumerVars, configVars, surveillanceVars, notificationVars, trail,
          ahead, called>>

Init ==
  /\ ConsumerInit(ReaderOf)
  /\ ConfigsInit
  /\ SurveillanceInit
  /\ NotificationInit
  /\ AuditInit
  /\ ahead \in Plans
  /\ called = FALSE

Fault ==
  /\ ahead.faults > 0
  /\ ahead' = [ahead EXCEPT !.faults = @ - 1]
  /\ UNCHANGED called
UserCall ==
  /\ ahead.calls > 0
  /\ ahead' = [ahead EXCEPT !.calls = @ - 1]
  /\ called' = TRUE
Uneventful == UNCHANGED <<ahead, called>>

SurveillanceOnly == UNCHANGED <<notificationVars, trail>>
NotificationOnly == UNCHANGED <<configVars, surveillanceVars, trail>>
AuditOnly == UNCHANGED <<configVars, surveillanceVars, notificationVars>>

-----------------------------------------------------------------------------

\* The platform's other services publish what they have to say of a type.
SourceEvents(type) ==
  /\ ahead.feed[type] # <<>>
  /\ Produce(Subscribed[type], ahead.feed[type])
  /\ ahead' = [ahead EXCEPT !.feed[type] = <<>>]
  /\ UNCHANGED <<configVars, surveillanceVars, called>> /\ SurveillanceOnly

\* The consumer's own steps, the same in every service.
Consume(r) ==
  /\ FetchMessage(r) \/ DeadLetter(r) \/ CommitMessages(r)
  /\ UNCHANGED <<configVars, surveillanceVars>> /\ SurveillanceOnly /\ Uneventful

Survey(r) ==
  /\ r \in SurveillanceReaders
  /\ \/ RejectSource(r) \/ Evaluate(r) \/ RaiseAlert(r) \/ PublishAlert(r)
     \/ SourceProcessed(r)
  /\ SurveillanceOnly /\ Uneventful

Notify(r) ==
  /\ r \in NotificationReaders
  /\ \/ IgnoreUserless(r) \/ ReadPreferences(r) \/ SkipNotice(r) \/ SendAtOnce(r)
     \/ OpenWebhook(r) \/ PostWebhook(r) \/ SettleWebhook(r) \/ AlertProcessed(r)
  /\ NotificationOnly /\ Uneventful

Audit(r) ==
  /\ r \in AuditReaders
  /\ RecordEvent(r) \/ RejectUnreadable(r)
  /\ AuditOnly /\ Uneventful

Faulty(r) ==
  /\ Fault
  /\ \/ /\ r \in SurveillanceReaders
        /\ SurveillanceDatabaseError(r) \/ PublishAlertFails(r)
        /\ SurveillanceOnly
     \/ /\ r \in NotificationReaders
        /\ SendIsCutShort(r) \/ PostFails(r) \/ NotificationDatabaseError(r)
        /\ NotificationOnly
     \/ /\ r \in AuditReaders
        /\ AuditDatabaseError(r)
        /\ AuditOnly

-----------------------------------------------------------------------------

\* A manager updates a rule, a step at a time.
ConfigCall(u) ==
  \/ /\ UserCall
     /\ \E q \in Requests : ReadRule(u, q)
     /\ UNCHANGED <<consumerVars, surveillanceVars>> /\ SurveillanceOnly
  \/ /\ WriteRule(u) \/ LoadRules(u) \/ InstallRules(u)
     /\ UNCHANGED <<consumerVars, surveillanceVars>> /\ SurveillanceOnly /\ Uneventful
  \/ /\ Fault
     /\ LoadFails(u)
     /\ UNCHANGED <<consumerVars, surveillanceVars>> /\ SurveillanceOnly

AnalystCall(a) ==
  \/ /\ UserCall
     /\ \E i \in DOMAIN alerts, status \in AlertStatuses \ {"OPEN"} : ChangeAlert(a, i, status)
     /\ SurveillanceOnly
  \/ AnnounceChange(a) /\ SurveillanceOnly /\ Uneventful

NoticeCall ==
  /\ UserCall
  /\ \/ \E i \in DOMAIN notices : MarkRead(i) \/ RetryNotice(i)
     \/ \E u \in Users, channels \in PrefRequests : UpdatePreferences(u, channels)
  /\ NotificationOnly

Restart(R) == CrashReaders(R) \/ ShutdownReaders(R)
RestartSurveillance ==
  Fault /\ Restart(SurveillanceReaders) /\ ForgetEngine /\ SurveillanceOnly
RestartNotification ==
  Fault /\ Restart(NotificationReaders) /\ ForgetSending /\ NotificationOnly
RestartAudit ==
  Fault /\ Restart(AuditReaders) /\ AuditOnly /\ UNCHANGED trail

Handle(r) == Consume(r) \/ Survey(r) \/ Notify(r) \/ Audit(r)

Next ==
  \/ \E type \in SourceTypes : SourceEvents(type)
  \/ \E r \in Readers : Handle(r) \/ Faulty(r)
  \/ \E u \in Managers : ConfigCall(u)
  \/ \E a \in Analysts : AnalystCall(a)
  \/ NoticeCall
  \/ RestartSurveillance \/ RestartNotification \/ RestartAudit

Spec == Init /\ [][Next]_vars

\* Every reader is a goroutine that goes on while it can.
FairSpec == Spec /\ \A r \in Readers : WF_vars(Handle(r))

-----------------------------------------------------------------------------
(***************************************************************************)
(* Properties                                                              *)
(***************************************************************************)

Messages == SourceEvent \union AlertEvent \union NotificationEvent

\* Types, and what relates the tables of each service to its readers: one
\* alert per key, one notice per event and channel, one audit row per event
\* with an id, a webhook status that the posts bear out.
AlertsInv ==
  /\ ConsumerTypeOK(Messages)
  /\ ConfigsTypeOK
  /\ SurveillanceTypeOK
  /\ NotificationTypeOK
  /\ AuditTypeOK
  /\ WorkIsForTheMessage
  /\ OneAlertPerKey
  /\ SendingIsForTheEvent
  /\ OneNoticePerChannel
  /\ WebhookStatusIsEarned
  /\ OneRowPerEvent

\* Every event that a reader has passed left its mark: a source event that
\* breaches a threshold has its alert and an alert event has a notice on each
\* of the user's channels (as long as nobody changes rules or preferences),
\* an audited event has its row, unless it is in a dead-letter topic or is
\* `dropped': the write of its dead letter failed, its reader was shut down and
\* committed it all the same, or a group without a committed offset started
\* behind it.  CommittedOnlyHandled of PortfolioService, which has the same
\* consumer, finds that events are dropped.
Passed(p, n) == n <= position[p] /\ \A r \in Readers : handling[r] # <<p, n>>
GivenUp(p, n) == <<p, n>> \in deadLettered \union dropped

Breaches(e) ==
  {rule \in RulesFor(e) :
     /\ Fallback[rule].enabled
     /\ \/ rule = "LargeOrderRule" /\ e.value > Fallback[rule].threshold
        \/ rule = "RiskScoreBreachRule" /\ e.value >= Fallback[rule].threshold}
HasAlert(rule, e) == \E i \in DOMAIN alerts : alerts[i].key = KeyOf(rule, e)

HasNotice(event, channel) ==
  \E i \in DOMAIN notices : notices[i].event = event /\ notices[i].channel = channel
HasRow(event) == \E i \in DOMAIN trail : trail[i].event = event

MarkLeft(p, n) ==
  LET e == topic[p][n]
  IN /\ ReaderOf[p] \in SurveillanceReaders /\ ~called /\ e.valid /\ e.entity # "" =>
          \A rule \in Breaches(e) : HasAlert(rule, e)
     /\ ReaderOf[p] \in NotificationReaders /\ ~called /\ e.user # NoOne =>
          \A channel \in FirstPrefs[e.user] : HasNotice(<<e.type, n>>, channel)
     /\ ReaderOf[p] \in AuditReaders => HasRow(<<e.type, n>>)
PassedLeavesItsMark ==
  \A p \in Partitions : \A n \in 1 .. Len(topic[p]) :
    Passed(p, n) => MarkLeft(p, n) \/ GivenUp(p, n)

\* An alert that was touched is never open again, and acknowledging is for
\* open ones; a notice is retried only after it failed, and nothing but a
\* retry, its reader or its user changes what became of it.
StatusesMoveForward ==
  [][/\ \A i \in DOMAIN alerts :
          alerts'[i].status # alerts[i].status =>
            /\ alerts'[i].status # "OPEN"
            /\ alerts'[i].status = "ACKNOWLEDGED" => alerts[i].status = "OPEN"
     /\ \A i \in DOMAIN notices :
          notices'[i].status # notices[i].status =>
            \/ notices'[i].status = "READ"
            \/ notices'[i].status = "RETRYING" /\ notices[i].status = "FAILED"
            \/ notices'[i].status \in {"SENT", "FAILED"}
                 /\ notices[i].status \in {"PENDING", "READ"}]_vars

\* When no update is under way, the engine uses what the table says for each
\* tenant, unless calls overlapped or a load had failed.
RuleChangesTakeEffect ==
  ~disturbed /\ (\A u \in Managers : call[u] = Absent) =>
    \A t \in Tenants, rule \in Rules : RuleSetting(t, rule) = Effective(t)[rule]

\* What docs/surveillance/rule-configuration.md says: "v2.6.0 adds
\* database-backed, tenant-aware configuration for surveillance rules" (:3), and
\* the first choice is the "Tenant-specific database config." (:25).  The write
\* of a tenant's update leaves the tenant a row; UpsertRuleConfig inserts it
\* with the id of the default tenant's row, which the primary key refuses.
TenantRulesAreStored ==
  [][\A u \in Managers :
       WriteRule(u) => table'[call[u].tenant][call[u].rule] # Absent]_vars

\* An alert reaches the user it concerns, if they want in-app notices,
\* unless it was never announced or its event was given up.
TheirNotice(i) ==
  \/ i \in unannounced
  \/ \E p \in Partitions : \E n \in 1 .. Len(topic[p]) :
       /\ ReaderOf[p] \in NotificationReaders
       /\ topic[p][n].type = "surveillance.alert.created"
       /\ topic[p][n].alert = i
       /\ \/ GivenUp(p, n)
          \/ HasNotice(<<topic[p][n].type, n>>, "IN_APP")
AlertReachesUser ==
  \A u \in Users, i \in 1 .. 2 :
    []("IN_APP" \in prefs[u]) =>
      ((i \in DOMAIN alerts /\ alerts[i].user = u) ~> TheirNotice(i))
=============================================================================
