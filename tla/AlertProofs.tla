----------------------------- MODULE AlertProofs -----------------------------
(***************************************************************************)
(* Proofs about the alert pipeline, for any readers, users, tenants,       *)
(* rules, plans of events, faults and calls.                               *)
(*                                                                         *)
(* The first half is about the tables: one invariant for each of them      *)
(* (AlertsKept, NoticesKept, TrailKept, ConfigsKept), which asks nothing   *)
(* of the events but that they are there, so the rows are typed up to the  *)
(* data they copy from one.                                                *)
(*                                                                         *)
(* The second half is about the way from an event to its marks in the      *)
(* tables: MarksInv adds what the topics carry, what each reader has still *)
(* to raise or to send for the message it is busy with, and that a         *)
(* consumer passes a message only when it is settled (EventConsumerProofs). *)
(***************************************************************************)
EXTENDS AlertPipeline, EventConsumerProofs, SequenceTheorems

\* A table with one more row.
LEMMA OneMoreRow ==
  ASSUME NEW S, NEW T, S \subseteq T, NEW s \in Seq(S), NEW x \in T
  PROVE  /\ Append(s, x) \in Seq(T)
         /\ Len(s) \in Nat
         /\ Len(Append(s, x)) = Len(s) + 1
         /\ DOMAIN s = 1 .. Len(s)
         /\ DOMAIN Append(s, x) = 1 .. Len(s) + 1
         /\ \A i \in DOMAIN s : i # Len(s) + 1 /\ Append(s, x)[i] = s[i]
         /\ Append(s, x)[Len(s) + 1] = x
<1>1. /\ Len(s) \in Nat
      /\ DOMAIN s = 1 .. Len(s)
      /\ \A i \in 1 .. Len(s) : s[i] \in T
  OBVIOUS
<1>2. s \in Seq(T)
  BY <1>1
<1>3. QED
  BY <1>1, <1>2

\* A table with one row changed.
LEMMA OneRowChanged ==
  ASSUME NEW S, NEW s \in Seq(S), NEW n \in DOMAIN s, NEW x \in S
  PROVE  /\ [s EXCEPT ![n] = x] \in Seq(S)
         /\ Len([s EXCEPT ![n] = x]) = Len(s)
         /\ DOMAIN [s EXCEPT ![n] = x] = DOMAIN s
         /\ \A i \in DOMAIN s : [s EXCEPT ![n] = x][i] = IF i = n THEN x ELSE s[i]
OBVIOUS

-----------------------------------------------------------------------------
(***************************************************************************)
(* The alerts                                                              *)
(***************************************************************************)

AlertRow(K, U) == [key : K, user : U, status : AlertStatuses]
AlertsAreRows == \E K, U : alerts \in Seq(AlertRow(K, U))
AlertsKept == AlertsAreRows /\ OneAlertPerKey

\* What a step may do to the statuses of alerts.
AlertsMoveForward ==
  \A i \in DOMAIN alerts :
    alerts'[i].status # alerts[i].status =>
      /\ alerts'[i].status # "OPEN"
      /\ alerts'[i].status = "ACKNOWLEDGED" => alerts[i].status = "OPEN"

\* No alert goes away or becomes another one.
AlertsStay ==
  \A i \in DOMAIN alerts : i \in DOMAIN alerts' /\ alerts'[i].key = alerts[i].key

LEMMA RaiseKeepsAlerts ==
  ASSUME AlertsKept, NEW r, RaiseAlert(r)
  PROVE  AlertsKept' /\ AlertsMoveForward /\ AlertsStay
<1> DEFINE key == KeyOf(FirstMatch(work[r].matched), Source(r))
           row == [key |-> key, user |-> Source(r).user, status |-> "OPEN"]
<1>1. PICK K, U : alerts \in Seq(AlertRow(K, U))
  BY DEF AlertsKept, AlertsAreRows
<1>2. CASE DuplicateAlert(key)
  <2>1. alerts' = alerts
    BY <1>2 DEF RaiseAlert
  <2>2. QED
    BY <2>1 DEF AlertsKept, AlertsAreRows, OneAlertPerKey, AlertsMoveForward, AlertsStay
<1>3. CASE ~DuplicateAlert(key)
  <2>1. alerts' = Append(alerts, row)
    BY <1>3 DEF RaiseAlert
  <2> DEFINE keys == K \union {key}
             users == U \union {Source(r).user}
  <2>2. row \in AlertRow(keys, users) /\ row.key = key
    BY DEF AlertRow, AlertStatuses
  <2>3. AlertRow(K, U) \subseteq AlertRow(keys, users)
    BY DEF AlertRow
  <2> HIDE DEF row, key, keys, users
  <2>4. alerts' \in Seq(AlertRow(keys, users))
    BY <1>1, <2>1, <2>2, <2>3, OneMoreRow
  <2>5. /\ DOMAIN alerts' = DOMAIN alerts \union {Len(alerts) + 1}
        /\ \A i \in DOMAIN alerts : i # Len(alerts) + 1 /\ alerts'[i] = alerts[i]
        /\ alerts'[Len(alerts) + 1] = row
    <3>1. /\ Len(alerts) \in Nat
          /\ DOMAIN alerts = 1 .. Len(alerts)
          /\ DOMAIN alerts' = 1 .. Len(alerts) + 1
          /\ \A i \in DOMAIN alerts : i # Len(alerts) + 1 /\ alerts'[i] = alerts[i]
          /\ alerts'[Len(alerts) + 1] = row
      BY <1>1, <2>1, <2>2, <2>3, OneMoreRow
    <3>2. QED
      BY <3>1
  <2>6. \A i \in DOMAIN alerts : alerts[i].key = key => key.entity = ""
    BY <1>3 DEF DuplicateAlert
  <2>7. OneAlertPerKey'
    <3> SUFFICES ASSUME NEW i \in DOMAIN alerts', NEW j \in DOMAIN alerts',
                        alerts'[i].key = alerts'[j].key, alerts'[i].key.entity # ""
                 PROVE  i = j
      BY DEF OneAlertPerKey
    <3>1. \A k \in DOMAIN alerts' : k \in DOMAIN alerts \/ k = Len(alerts) + 1
      BY <2>5
    <3>2. CASE i \in DOMAIN alerts /\ j \in DOMAIN alerts
      BY <2>5, <3>2 DEF AlertsKept, OneAlertPerKey
    <3>3. CASE i = Len(alerts) + 1 \/ j = Len(alerts) + 1
      BY <2>2, <2>5, <2>6, <3>1, <3>3
    <3>4. QED
      BY <3>1, <3>2, <3>3
  <2>8. AlertsMoveForward /\ AlertsStay
    BY <2>5 DEF AlertsMoveForward, AlertsStay
  <2>9. AlertsAreRows'
    BY <2>4 DEF AlertsAreRows
  <2>10. QED
    BY <2>7, <2>8, <2>9 DEF AlertsKept
<1>4. QED
  BY <1>2, <1>3

LEMMA ChangeKeepsAlerts ==
  ASSUME AlertsKept, NEW a, NEW i \in DOMAIN alerts, NEW status \in AlertStatuses \ {"OPEN"},
         ChangeAlert(a, i, status)
  PROVE  AlertsKept' /\ AlertsMoveForward /\ AlertsStay
<1>1. PICK K, U : alerts \in Seq(AlertRow(K, U))
  BY DEF AlertsKept, AlertsAreRows
<1>2. /\ alerts' = [alerts EXCEPT ![i].status = status]
      /\ status = "ACKNOWLEDGED" => alerts[i].status = "OPEN"
  BY DEF ChangeAlert, MayBecome
<1> DEFINE changed == [alerts[i] EXCEPT !.status = status]
<1>3. alerts[i] \in AlertRow(K, U)
  BY <1>1
<1>4. /\ changed \in AlertRow(K, U)
      /\ changed.key = alerts[i].key
      /\ changed.status = status
  BY <1>3 DEF AlertRow
<1>5. alerts' = [alerts EXCEPT ![i] = changed]
  BY <1>2
<1> HIDE DEF changed
<1>6. /\ alerts' \in Seq(AlertRow(K, U))
      /\ DOMAIN alerts' = DOMAIN alerts
      /\ \A j \in DOMAIN alerts : alerts'[j] = IF j = i THEN changed ELSE alerts[j]
  BY <1>1, <1>4, <1>5, OneRowChanged
<1>7. \A j \in DOMAIN alerts :
        /\ alerts'[j].key = alerts[j].key
        /\ alerts'[j].status = IF j = i THEN status ELSE alerts[j].status
  BY <1>4, <1>6
<1>8. AlertsAreRows' /\ OneAlertPerKey'
  BY <1>6, <1>7 DEF AlertsKept, AlertsAreRows, OneAlertPerKey
<1>9. AlertsMoveForward /\ AlertsStay
  BY <1>2, <1>6, <1>7 DEF AlertsMoveForward, AlertsStay
<1>10. QED
  BY <1>8, <1>9 DEF AlertsKept

LEMMA SameAlerts ==
  ASSUME AlertsKept, UNCHANGED alerts
  PROVE  AlertsKept' /\ AlertsMoveForward /\ AlertsStay
BY DEF AlertsKept, AlertsAreRows, OneAlertPerKey, AlertsMoveForward, AlertsStay

LEMMA NextKeepsAlerts ==
  ASSUME AlertsKept, [Next]_vars
  PROVE  AlertsKept' /\ AlertsMoveForward /\ AlertsStay
<1> USE DEF surveillanceVars, engineVars
<1>1. ASSUME NEW r \in Readers, Handle(r) PROVE AlertsKept' /\ AlertsMoveForward /\ AlertsStay
  <2>1. RaiseAlert(r) \/ UNCHANGED alerts
    BY <1>1 DEF Handle, Consume, Survey, Notify, Audit, NotificationOnly, AuditOnly,
         RejectSource, Evaluate, PublishAlert, SourceProcessed
  <2>2. QED
    BY <2>1, RaiseKeepsAlerts, SameAlerts
<1>2. ASSUME NEW r \in Readers, Faulty(r) PROVE UNCHANGED alerts
  BY <1>2 DEF Faulty, SurveillanceDatabaseError, PublishAlertFails, NotificationOnly, AuditOnly
<1>3. ASSUME NEW a \in Analysts, AnalystCall(a) PROVE AlertsKept' /\ AlertsMoveForward /\ AlertsStay
  <2>1. CASE AnnounceChange(a)
    BY <2>1, SameAlerts DEF AnnounceChange
  <2>2. CASE \E i \in DOMAIN alerts, status \in AlertStatuses \ {"OPEN"} : ChangeAlert(a, i, status)
    BY <2>2, ChangeKeepsAlerts
  <2>3. QED
    BY <1>3, <2>1, <2>2 DEF AnalystCall
<1>4. ASSUME \/ \E type \in SourceTypes : SourceEvents(type)
             \/ \E u \in Managers : ConfigCall(u)
             \/ NoticeCall
             \/ RestartSurveillance \/ RestartNotification \/ RestartAudit
             \/ UNCHANGED vars
      PROVE  UNCHANGED alerts
  BY <1>4 DEF SourceEvents, ConfigCall, NoticeCall, RestartSurveillance, RestartNotification,
       RestartAudit, ForgetEngine, NotificationOnly, AuditOnly, vars
<1>5. QED
  BY <1>1, <1>2, <1>3, <1>4, SameAlerts DEF Next

LEMMA InitAlerts == Init => AlertsKept
<1> SUFFICES ASSUME Init PROVE AlertsKept
  OBVIOUS
<1>1. alerts = <<>>
  BY DEF Init, SurveillanceInit
<1>2. alerts \in Seq(AlertRow({}, {})) /\ DOMAIN alerts = {}
  BY <1>1
<1>3. QED
  BY <1>2 DEF AlertsKept, AlertsAreRows, OneAlertPerKey

\* The service never stores two alerts for one tenant, rule, entity and
\* topic, however often the event that raised the first one comes again.
THEOREM OneAlertPerKeyHolds == Spec => []OneAlertPerKey
<1>1. AlertsKept /\ [Next]_vars => AlertsKept'
  BY NextKeepsAlerts
<1>2. AlertsKept => OneAlertPerKey
  BY DEF AlertsKept
<1>3. QED
  BY <1>1, <1>2, InitAlerts, PTL DEF Spec

-----------------------------------------------------------------------------
(***************************************************************************)
(* The notices                                                             *)
(***************************************************************************)

ChannelNames == {"IN_APP", "EMAIL", "WEBHOOK"}
SendingStages == {"idle", "channels", "posting", "delivered", "undelivered"}
NoticeRow(E, U) == [event : E, channel : ChannelNames, user : U,
                    status : NoticeStatuses, attempts : Nat]
\* A reader that is not sending a webhook notice has posted nothing.
SendingOf(L) ==
  {s \in [stage : SendingStages, left : L, notice : Nat, posts : Nat] :
     s.stage \in {"idle", "channels"} => s.posts = 0}

NoticesAreRows == \E E, U : notices \in Seq(NoticeRow(E, U))
SendersAreRows == \E L : sending \in [NotificationReaders -> SendingOf(L)]

OnWebhook(r) == sending[r].stage \in {"posting", "delivered", "undelivered"}

\* A webhook notice that a reader is sending: nobody else is sending it,
\* nobody has settled it, and it bears out what the reader remembers of it.
WebhooksInHand ==
  \A r \in NotificationReaders : OnWebhook(r) =>
    LET n == sending[r].notice
    IN /\ n \in DOMAIN notices
       /\ notices[n].channel = "WEBHOOK"
       /\ notices[n].status \in {"PENDING", "READ"}
       /\ \A s \in NotificationReaders : OnWebhook(s) /\ sending[s].notice = n => s = r
       /\ sending[r].stage = "posting" => notices[n].attempts >= sending[r].posts
       /\ sending[r].stage = "delivered" => n \in received
       /\ sending[r].stage = "undelivered" => notices[n].attempts >= MaxPosts

NoticesKept ==
  /\ NoticesAreRows
  /\ SendersAreRows
  /\ OneNoticePerChannel
  /\ WebhooksInHand
  /\ WebhookStatusIsEarned

\* What a step may do to the statuses of notices.
NoticesMoveForward ==
  \A i \in DOMAIN notices :
    notices'[i].status # notices[i].status =>
      \/ notices'[i].status = "READ"
      \/ notices'[i].status = "RETRYING" /\ notices[i].status = "FAILED"
      \/ notices'[i].status \in {"SENT", "FAILED"}
           /\ notices[i].status \in {"PENDING", "READ"}

\* No notice goes away or becomes another one.
NoticesStay ==
  \A i \in DOMAIN notices :
    /\ i \in DOMAIN notices'
    /\ notices'[i].event = notices[i].event
    /\ notices'[i].channel = notices[i].channel

\* Steps that leave the notices alone, and in which readers only give up
\* what they were sending.
LEMMA SameNotices ==
  ASSUME NoticesKept, UNCHANGED notices, received \subseteq received', SendersAreRows',
         \A r \in NotificationReaders : OnWebhook(r)' => sending'[r] = sending[r]
  PROVE  NoticesKept' /\ NoticesMoveForward /\ NoticesStay
<1>1. \A r \in NotificationReaders : OnWebhook(r)' => OnWebhook(r)
  BY DEF OnWebhook
<1>2. WebhooksInHand'
  BY <1>1 DEF NoticesKept, WebhooksInHand
<1>3. WebhookStatusIsEarned'
  BY DEF NoticesKept, WebhookStatusIsEarned
<1>4. QED
  BY <1>2, <1>3
     DEF NoticesKept, NoticesAreRows, OneNoticePerChannel, NoticesMoveForward, NoticesStay

\* A reader that goes on to another state of its own.
LEMMA SenderSet ==
  ASSUME SendersAreRows, NEW r \in NotificationReaders, NEW M, NEW rec \in SendingOf(M),
         sending' = [sending EXCEPT ![r] = rec]
  PROVE  /\ SendersAreRows'
         /\ sending'[r] = rec
         /\ \A s \in NotificationReaders : s # r => sending'[s] = sending[s]
<1>1. PICK L : sending \in [NotificationReaders -> SendingOf(L)]
  BY DEF SendersAreRows
<1> DEFINE N == L \union M
<1>2. SendingOf(L) \subseteq SendingOf(N) /\ SendingOf(M) \subseteq SendingOf(N)
  BY DEF SendingOf
<1>3. sending' \in [NotificationReaders -> SendingOf(N)]
  BY <1>1, <1>2
<1>4. QED
  BY <1>1, <1>3 DEF SendersAreRows

\* The rest of a reader's record stays when fields of it are changed.
LEMMA SenderFields ==
  ASSUME SendersAreRows, NEW r \in NotificationReaders
  PROVE  /\ sending[r] = [stage |-> sending[r].stage, left |-> sending[r].left,
                          notice |-> sending[r].notice, posts |-> sending[r].posts]
         /\ sending[r].stage \in SendingStages
         /\ sending[r].notice \in Nat
         /\ sending[r].posts \in Nat
         /\ sending[r].stage \in {"idle", "channels"} => sending[r].posts = 0
BY DEF SendersAreRows, SendingOf

\* A notice is stored, for an event and a channel that had none.
LEMMA NoticeStored ==
  ASSUME NoticesKept, NEW row, NEW event, NEW user,
         NEW channel \in ChannelNames, NEW status \in {"PENDING", "SENT"}, NEW attempts \in Nat,
         row = [event |-> event, channel |-> channel, user |-> user, status |-> status,
                attempts |-> attempts],
         channel = "WEBHOOK" => status = "PENDING",
         \A i \in DOMAIN notices : ~(notices[i].event = event /\ notices[i].channel = channel),
         notices' = Append(notices, row), UNCHANGED received, SendersAreRows',
         \A r \in NotificationReaders :
           OnWebhook(r)' =>
             \/ sending'[r] = sending[r]
             \/ /\ channel = "WEBHOOK"
                /\ sending'[r].stage = "posting"
                /\ sending'[r].notice = Len(notices')
                /\ sending'[r].posts = 0
                /\ \A s \in NotificationReaders : s # r => sending'[s] = sending[s]
  PROVE  NoticesKept' /\ NoticesMoveForward /\ NoticesStay
<1>1. PICK E, U : notices \in Seq(NoticeRow(E, U))
  BY DEF NoticesKept, NoticesAreRows
<1> DEFINE F == E \union {event}
           V == U \union {user}
<1>2. NoticeRow(E, U) \subseteq NoticeRow(F, V) /\ row \in NoticeRow(F, V)
  BY DEF NoticeRow, NoticeStatuses
<1>3. row.event = event /\ row.channel = channel /\ row.status = status /\ row.attempts = attempts
  OBVIOUS
<1> HIDE DEF F, V
<1>4. /\ notices' \in Seq(NoticeRow(F, V))
      /\ Len(notices) \in Nat
      /\ Len(notices') = Len(notices) + 1
      /\ DOMAIN notices = 1 .. Len(notices)
      /\ DOMAIN notices' = 1 .. Len(notices) + 1
      /\ \A i \in DOMAIN notices : i # Len(notices) + 1 /\ notices'[i] = notices[i]
      /\ notices'[Len(notices) + 1] = row
  BY <1>1, <1>2, OneMoreRow
<1>5. /\ DOMAIN notices' = DOMAIN notices \union {Len(notices) + 1}
      /\ Len(notices) + 1 \notin DOMAIN notices
  BY <1>4
<1>6. NoticesAreRows'
  BY <1>4 DEF NoticesAreRows
<1>7. OneNoticePerChannel'
  BY <1>3, <1>4, <1>5 DEF NoticesKept, OneNoticePerChannel
<1>8. WebhookStatusIsEarned'
  BY <1>3, <1>4, <1>5 DEF NoticesKept, WebhookStatusIsEarned
<1>9. WebhooksInHand'
  <2> SUFFICES ASSUME NEW r \in NotificationReaders, OnWebhook(r)'
               PROVE  LET n == sending'[r].notice
                      IN /\ n \in DOMAIN notices'
                         /\ notices'[n].channel = "WEBHOOK"
                         /\ notices'[n].status \in {"PENDING", "READ"}
                         /\ \A s \in NotificationReaders :
                              OnWebhook(s)' /\ sending'[s].notice = n => s = r
                         /\ sending'[r].stage = "posting" =>
                              notices'[n].attempts >= sending'[r].posts
                         /\ sending'[r].stage = "delivered" => n \in received'
                         /\ sending'[r].stage = "undelivered" => notices'[n].attempts >= MaxPosts
    BY DEF WebhooksInHand
  <2>1. \A s \in NotificationReaders : OnWebhook(s)' /\ sending'[s] = sending[s] =>
          OnWebhook(s) /\ sending'[s].notice \in DOMAIN notices
    BY DEF OnWebhook, NoticesKept, WebhooksInHand
  <2>2. CASE sending'[r] = sending[r]
    <3>1. \A s \in NotificationReaders : OnWebhook(s)' /\ sending'[s].notice = sending[r].notice => s = r
      BY <1>4, <1>5, <2>1, <2>2 DEF NoticesKept, WebhooksInHand
    <3>2. QED
      BY <1>4, <1>5, <2>1, <2>2, <3>1 DEF NoticesKept, WebhooksInHand
  <2>3. CASE /\ channel = "WEBHOOK"
             /\ sending'[r].stage = "posting"
             /\ sending'[r].notice = Len(notices')
             /\ sending'[r].posts = 0
             /\ \A s \in NotificationReaders : s # r => sending'[s] = sending[s]
    <3>1. sending'[r].notice = Len(notices) + 1 /\ status = "PENDING"
      BY <1>4, <2>3
    <3>2. \A s \in NotificationReaders : OnWebhook(s)' /\ sending'[s].notice = Len(notices) + 1 => s = r
      BY <1>5, <2>1, <2>3
    <3>3. QED
      BY <1>3, <1>4, <1>5, <2>3, <3>1, <3>2
  <2>4. QED
    BY <2>2, <2>3
<1>10. NoticesMoveForward /\ NoticesStay
  BY <1>4 DEF NoticesMoveForward, NoticesStay
<1>11. QED
  BY <1>6, <1>7, <1>8, <1>9, <1>10 DEF NoticesKept

\* One notice gets another status or more attempts.
LEMMA NoticeChanged ==
  ASSUME NoticesKept, NEW i \in DOMAIN notices, NEW status \in NoticeStatuses, NEW attempts \in Nat,
         attempts >= notices[i].attempts,
         notices' = [notices EXCEPT ![i] =
                       [event |-> notices[i].event, channel |-> notices[i].channel,
                        user |-> notices[i].user, status |-> status, attempts |-> attempts]],
         received \subseteq received', SendersAreRows',
         \A r \in NotificationReaders : OnWebhook(r)' =>
           \/ /\ sending'[r] = sending[r]
              /\ sending[r].notice = i => status \in {"PENDING", "READ"}
           \/ /\ OnWebhook(r)
              /\ sending[r].notice = i
              /\ sending'[r].notice = i
              /\ status \in {"PENDING", "READ"}
              /\ sending'[r].stage = "posting" => attempts >= sending'[r].posts
              /\ sending'[r].stage = "delivered" => i \in received'
              /\ sending'[r].stage = "undelivered" => attempts >= MaxPosts,
         notices[i].channel = "WEBHOOK" /\ status # notices[i].status =>
           /\ status = "SENT" => i \in received'
           /\ status = "FAILED" => attempts >= MaxPosts
  PROVE  /\ NoticesKept' /\ NoticesStay
         /\ DOMAIN notices' = DOMAIN notices
         /\ \A j \in DOMAIN notices :
              notices'[j].status = IF j = i THEN status ELSE notices[j].status
<1>1. PICK E, U : notices \in Seq(NoticeRow(E, U))
  BY DEF NoticesKept, NoticesAreRows
<1> DEFINE row == [event |-> notices[i].event, channel |-> notices[i].channel,
                   user |-> notices[i].user, status |-> status, attempts |-> attempts]
<1>2. notices[i] \in NoticeRow(E, U)
  BY <1>1
<1>3. /\ row \in NoticeRow(E, U)
      /\ row.event = notices[i].event
      /\ row.channel = notices[i].channel
      /\ row.status = status
      /\ row.attempts = attempts
      /\ notices[i].attempts \in Nat
  BY <1>2 DEF NoticeRow
<1>4. notices' = [notices EXCEPT ![i] = row]
  OBVIOUS
<1> HIDE DEF row
<1>5. /\ notices' \in Seq(NoticeRow(E, U))
      /\ DOMAIN notices' = DOMAIN notices
      /\ \A j \in DOMAIN notices : notices'[j] = IF j = i THEN row ELSE notices[j]
  BY <1>1, <1>3, <1>4, OneRowChanged
<1>6. NoticesAreRows' /\ OneNoticePerChannel'
  BY <1>3, <1>5 DEF NoticesKept, NoticesAreRows, OneNoticePerChannel
<1>7. MaxPosts \in Nat
  BY NotificationAssumption
<1>8. WebhookStatusIsEarned'
  <2> SUFFICES ASSUME NEW j \in DOMAIN notices, notices'[j].channel = "WEBHOOK"
               PROVE  /\ notices'[j].status = "SENT" => j \in received'
                      /\ notices'[j].status = "FAILED" => notices'[j].attempts >= MaxPosts
    BY <1>5 DEF WebhookStatusIsEarned
  <2>1. notices[j].channel = "WEBHOOK"
    BY <1>3, <1>5
  <2>2. /\ notices[j].status = "SENT" => j \in received'
        /\ notices[j].status = "FAILED" => notices[j].attempts >= MaxPosts
    BY <2>1 DEF NoticesKept, WebhookStatusIsEarned
  <2>3. CASE j # i
    BY <1>5, <2>2, <2>3
  <2>4. CASE j = i
    BY <1>3, <1>5, <1>7, <2>1, <2>2, <2>4
  <2>5. QED
    BY <2>3, <2>4
<1>9. WebhooksInHand'
  <2>1. \A r \in NotificationReaders : OnWebhook(r)' =>
          OnWebhook(r) /\ sending'[r].notice = sending[r].notice
    BY DEF OnWebhook
  <2> SUFFICES ASSUME NEW r \in NotificationReaders, OnWebhook(r)'
               PROVE  LET n == sending'[r].notice
                      IN /\ n \in DOMAIN notices'
                         /\ notices'[n].channel = "WEBHOOK"
                         /\ notices'[n].status \in {"PENDING", "READ"}
                         /\ \A s \in NotificationReaders :
                              OnWebhook(s)' /\ sending'[s].notice = n => s = r
                         /\ sending'[r].stage = "posting" =>
                              notices'[n].attempts >= sending'[r].posts
                         /\ sending'[r].stage = "delivered" => n \in received'
                         /\ sending'[r].stage = "undelivered" => notices'[n].attempts >= MaxPosts
    BY DEF WebhooksInHand
  <2> DEFINE n == sending[r].notice
  <2>2. /\ n \in DOMAIN notices
        /\ notices[n].channel = "WEBHOOK"
        /\ notices[n].status \in {"PENDING", "READ"}
        /\ \A s \in NotificationReaders : OnWebhook(s) /\ sending[s].notice = n => s = r
        /\ sending[r].stage = "posting" => notices[n].attempts >= sending[r].posts
        /\ sending[r].stage = "delivered" => n \in received
        /\ sending[r].stage = "undelivered" => notices[n].attempts >= MaxPosts
    BY <2>1 DEF NoticesKept, WebhooksInHand
  <2>3. /\ sending'[r].notice = n
        /\ n \in DOMAIN notices'
        /\ notices'[n].channel = "WEBHOOK"
        /\ \A s \in NotificationReaders : OnWebhook(s)' /\ sending'[s].notice = n => s = r
    BY <1>3, <1>5, <2>1, <2>2
  <2>4. CASE n # i
    <3>1. sending'[r] = sending[r]
      BY <2>4
    <3>2. QED
      BY <1>5, <2>2, <2>3, <2>4, <3>1
  <2>5. CASE n = i
    <3>1. sending[r].posts \in Nat
      BY SenderFields DEF NoticesKept
    <3>2. CASE sending'[r] = sending[r] /\ status \in {"PENDING", "READ"}
      BY <1>3, <1>5, <1>7, <2>2, <2>3, <2>5, <3>1, <3>2
    <3>3. CASE /\ status \in {"PENDING", "READ"}
               /\ sending'[r].stage = "posting" => attempts >= sending'[r].posts
               /\ sending'[r].stage = "delivered" => i \in received'
               /\ sending'[r].stage = "undelivered" => attempts >= MaxPosts
      BY <1>3, <1>5, <2>2, <2>3, <2>5, <3>3
    <3>4. QED
      BY <2>5, <3>2, <3>3
  <2>6. QED
    BY <2>4, <2>5
<1>10. \A j \in DOMAIN notices :
         notices'[j].status = IF j = i THEN status ELSE notices[j].status
  BY <1>3, <1>5
<1>11. SendersAreRows'
  OBVIOUS
<1>12. NoticesStay
  BY <1>3, <1>5 DEF NoticesStay
<1>13. QED
  BY <1>5, <1>6, <1>8, <1>9, <1>10, <1>11, <1>12 DEF NoticesKept

\* What the rows of the table are.
LEMMA NoticeFields ==
  ASSUME NoticesKept, NEW i \in DOMAIN notices
  PROVE  /\ notices[i] = [event |-> notices[i].event, channel |-> notices[i].channel,
                          user |-> notices[i].user, status |-> notices[i].status,
                          attempts |-> notices[i].attempts]
         /\ notices[i].status \in NoticeStatuses
         /\ notices[i].attempts \in Nat
<1>1. PICK E, U : notices \in Seq(NoticeRow(E, U))
  BY DEF NoticesKept, NoticesAreRows
<1>2. notices[i] \in NoticeRow(E, U)
  BY <1>1
<1>3. QED
  BY <1>2 DEF NoticeRow

\* A reader that is between two channels, or done.
LEMMA SenderResting ==
  ASSUME SendersAreRows, NEW r \in NotificationReaders, NEW rec, NEW st \in {"idle", "channels"}, NEW left,
         rec = [stage |-> st, left |-> left, notice |-> 0, posts |-> 0],
         sending' = [sending EXCEPT ![r] = rec]
  PROVE  /\ SendersAreRows'
         /\ \A s \in NotificationReaders : OnWebhook(s)' => s # r /\ sending'[s] = sending[s]
<1>1. rec \in SendingOf({left}) /\ rec.stage = st
  BY DEF SendingOf, SendingStages
<1>2. /\ SendersAreRows'
      /\ sending'[r] = rec
      /\ \A s \in NotificationReaders : s # r => sending'[s] = sending[s]
  BY <1>1, SenderSet
<1>3. ~OnWebhook(r)'
  BY <1>1, <1>2 DEF OnWebhook
<1>4. QED
  BY <1>2, <1>3

\* The steps in which a reader only moves between messages and channels.
LEMMA RestingSenders ==
  ASSUME NoticesKept, NEW r \in NotificationReaders,
         ReadPreferences(r) \/ SkipNotice(r) \/ AlertProcessed(r) \/ NotificationDatabaseError(r)
  PROVE  NoticesKept' /\ NoticesMoveForward /\ NoticesStay
<1>1. received \subseteq received' /\ UNCHANGED notices
  BY DEF ReadPreferences, SkipNotice, AlertProcessed, NotificationDatabaseError, MayHaveArrived
<1>2. CASE SkipNotice(r) \/ AlertProcessed(r) \/ NotificationDatabaseError(r)
  <2>1. \E left : \E st \in {"idle", "channels"} :
          sending' = [sending EXCEPT ![r] =
                        [stage |-> st, left |-> left, notice |-> 0, posts |-> 0]]
    BY <1>2 DEF SkipNotice, NextChannel, AlertProcessed, NotificationDatabaseError, Idle
  <2>2. \E rec, left : \E st \in {"idle", "channels"} :
          /\ rec = [stage |-> st, left |-> left, notice |-> 0, posts |-> 0]
          /\ sending' = [sending EXCEPT ![r] = rec]
    BY <2>1
  <2>3. SendersAreRows' /\ \A s \in NotificationReaders : OnWebhook(s)' => sending'[s] = sending[s]
    BY <2>2, SenderResting DEF NoticesKept
  <2>4. QED
    BY <1>1, <2>3, SameNotices
<1>3. CASE ReadPreferences(r)
  <2> DEFINE left == prefs[Message(r).user]
  <2>1. /\ sending' = [sending EXCEPT ![r].stage = "channels", ![r].left = left]
        /\ sending[r].stage = "idle"
    BY <1>3 DEF ReadPreferences
  <2>2. PICK L : sending \in [NotificationReaders -> SendingOf(L)]
    BY DEF NoticesKept, SendersAreRows
  <2> DEFINE rec == [[sending[r] EXCEPT !.stage = "channels"] EXCEPT !.left = left]
  <2>3. sending' = [sending EXCEPT ![r] = rec]
    BY <2>1, <2>2
  <2>4. rec \in SendingOf({left}) /\ rec.stage = "channels"
    BY <2>1, <2>2 DEF SendingOf, SendingStages
  <2> HIDE DEF rec
  <2>5. /\ SendersAreRows'
        /\ sending'[r] = rec
        /\ \A s \in NotificationReaders : s # r => sending'[s] = sending[s]
    BY <2>3, <2>4, SenderSet DEF NoticesKept
  <2>6. \A s \in NotificationReaders : OnWebhook(s)' => sending'[s] = sending[s]
    BY <2>4, <2>5 DEF OnWebhook
  <2>7. QED
    BY <1>1, <2>5, <2>6, SameNotices
<1>4. QED
  BY <1>2, <1>3

\* A notice that is sent by being stored.
LEMMA SentAtOnce ==
  ASSUME NoticesKept, NEW r \in NotificationReaders, SendAtOnce(r) \/ SendIsCutShort(r)
  PROVE  NoticesKept' /\ NoticesMoveForward /\ NoticesStay
<1> DEFINE channel == FirstChannel(sending[r].left)
<1>1. /\ channel \in {"IN_APP", "EMAIL"}
      /\ \A i \in DOMAIN notices : ~(notices[i].event = EventId(r) /\ notices[i].channel = channel)
      /\ UNCHANGED received
  BY DEF SendAtOnce, SendIsCutShort, Creating, DuplicateNotice
<1>2. \E attempts \in Nat :
        notices' = Append(notices, [event |-> EventId(r), channel |-> channel,
                                    user |-> Message(r).user, status |-> "SENT",
                                    attempts |-> attempts])
  BY DEF SendAtOnce, SendIsCutShort, New
<1>3. \E rec, left : \E st \in {"idle", "channels"} :
        /\ rec = [stage |-> st, left |-> left, notice |-> 0, posts |-> 0]
        /\ sending' = [sending EXCEPT ![r] = rec]
  BY DEF SendAtOnce, SendIsCutShort, NextChannel, Idle
<1>4. SendersAreRows' /\ \A s \in NotificationReaders : OnWebhook(s)' => sending'[s] = sending[s]
  BY <1>3, SenderResting DEF NoticesKept
<1>5. channel \in ChannelNames /\ channel # "WEBHOOK"
  BY <1>1 DEF ChannelNames
<1> HIDE DEF channel
<1>6. \E row, event, user : \E attempts \in Nat :
        /\ row = [event |-> event, channel |-> channel, user |-> user, status |-> "SENT",
                  attempts |-> attempts]
        /\ notices' = Append(notices, row)
        /\ \A i \in DOMAIN notices :
             ~(notices[i].event = event /\ notices[i].channel = channel)
  BY <1>1, <1>2
<1>7. PICK row, event, user : \E attempts \in Nat :
        /\ row = [event |-> event, channel |-> channel, user |-> user, status |-> "SENT",
                  attempts |-> attempts]
        /\ notices' = Append(notices, row)
        /\ \A i \in DOMAIN notices :
             ~(notices[i].event = event /\ notices[i].channel = channel)
  BY <1>6
<1>8. UNCHANGED received
  BY <1>1
<1>9. QED
  BY <1>4, <1>5, <1>7, <1>8, NoticeStored

\* A webhook notice is stored before the first post.
LEMMA WebhookOpened ==
  ASSUME NoticesKept, NEW r \in NotificationReaders, OpenWebhook(r)
  PROVE  NoticesKept' /\ NoticesMoveForward /\ NoticesStay
<1> DEFINE n == Len(notices')
           row == [event |-> EventId(r), channel |-> "WEBHOOK", user |-> Message(r).user,
                   status |-> "PENDING", attempts |-> 0]
           rec == [[sending[r] EXCEPT !.stage = "posting"] EXCEPT !.notice = n]
<1>1. /\ FirstChannel(sending[r].left) = "WEBHOOK"
      /\ \A i \in DOMAIN notices : ~(notices[i].event = EventId(r) /\ notices[i].channel = "WEBHOOK")
      /\ UNCHANGED received
      /\ sending[r].stage = "channels"
  BY DEF OpenWebhook, Creating, DuplicateNotice
<1>2. notices' = Append(notices, row)
  BY <1>1 DEF OpenWebhook, New
<1>3. n \in Nat
  <2>1. PICK E, U : notices \in Seq(NoticeRow(E, U))
    BY DEF NoticesKept, NoticesAreRows
  <2>2. QED
    BY <1>2, <2>1
<1>4. PICK L : sending \in [NotificationReaders -> SendingOf(L)]
  BY DEF NoticesKept, SendersAreRows
<1>5. sending' = [sending EXCEPT ![r] = rec]
  BY <1>4 DEF OpenWebhook
<1> HIDE DEF n
<1>6. /\ rec \in SendingOf(L)
      /\ rec.stage = "posting" /\ rec.notice = n /\ rec.posts = 0
  BY <1>1, <1>3, <1>4 DEF SendingOf, SendingStages
<1> HIDE DEF rec
<1>7. /\ SendersAreRows'
      /\ sending'[r] = rec
      /\ \A s \in NotificationReaders : s # r => sending'[s] = sending[s]
  BY <1>5, <1>6, SenderSet DEF NoticesKept
<1>8. \A s \in NotificationReaders : OnWebhook(s)' =>
        \/ sending'[s] = sending[s]
        \/ /\ sending'[s].stage = "posting"
           /\ sending'[s].notice = Len(notices')
           /\ sending'[s].posts = 0
           /\ \A q \in NotificationReaders : q # s => sending'[q] = sending[q]
  BY <1>6, <1>7 DEF n
<1>9. "WEBHOOK" \in ChannelNames
  BY DEF ChannelNames
<1>10. \E line, event, user : \E attempts \in Nat :
         /\ line = [event |-> event, channel |-> "WEBHOOK", user |-> user,
                    status |-> "PENDING", attempts |-> attempts]
         /\ notices' = Append(notices, line)
         /\ \A i \in DOMAIN notices :
              ~(notices[i].event = event /\ notices[i].channel = "WEBHOOK")
  BY <1>1, <1>2
<1>11. QED
  BY <1>1, <1>7, <1>8, <1>9, <1>10, NoticeStored

\* What EXCEPT makes of a row.
LEMMA NoticeExcept ==
  ASSUME NoticesKept, NEW i \in DOMAIN notices, NEW status
  PROVE  /\ [notices EXCEPT ![i].attempts = @ + 1] =
              [notices EXCEPT ![i] =
                 [event |-> notices[i].event, channel |-> notices[i].channel,
                  user |-> notices[i].user, status |-> notices[i].status,
                  attempts |-> notices[i].attempts + 1]]
         /\ [notices EXCEPT ![i].status = status] =
              [notices EXCEPT ![i] =
                 [event |-> notices[i].event, channel |-> notices[i].channel,
                  user |-> notices[i].user, status |-> status,
                  attempts |-> notices[i].attempts]]
         /\ [notices EXCEPT ![i].status = status, ![i].attempts = @ + 1] =
              [notices EXCEPT ![i] =
                 [event |-> notices[i].event, channel |-> notices[i].channel,
                  user |-> notices[i].user, status |-> status,
                  attempts |-> notices[i].attempts + 1]]
<1> DEFINE row == notices[i]
           more == row.attempts + 1
<1>1. PICK E, U : notices \in Seq(NoticeRow(E, U))
  BY DEF NoticesKept, NoticesAreRows
<1>2. row \in NoticeRow(E, U)
  BY <1>1
<1>3. [row EXCEPT !.attempts = more] =
        [event |-> row.event, channel |-> row.channel, user |-> row.user,
         status |-> row.status, attempts |-> more]
  BY <1>2 DEF NoticeRow
<1>4. [row EXCEPT !.status = status] =
        [event |-> row.event, channel |-> row.channel, user |-> row.user,
         status |-> status, attempts |-> row.attempts]
  BY <1>2 DEF NoticeRow
<1>5. [[row EXCEPT !.status = status] EXCEPT !.attempts = more] =
        [event |-> row.event, channel |-> row.channel, user |-> row.user,
         status |-> status, attempts |-> more]
  <2> DEFINE once == [event |-> row.event, channel |-> row.channel, user |-> row.user,
                      status |-> status, attempts |-> row.attempts]
  <2>1. [once EXCEPT !.attempts = more] =
          [event |-> row.event, channel |-> row.channel, user |-> row.user,
           status |-> status, attempts |-> more]
    <3> HIDE DEF more, row
    <3>1. QED
      OBVIOUS
  <2>2. QED
    BY <1>4, <2>1
<1>6. [notices EXCEPT ![i].status = status, ![i].attempts = @ + 1] =
        [notices EXCEPT ![i] = [[row EXCEPT !.status = status] EXCEPT !.attempts = more]]
  <2>1. [row EXCEPT !.status = status].attempts = row.attempts
    BY <1>2 DEF NoticeRow
  <2> DEFINE once == [row EXCEPT !.status = status]
             mid == [notices EXCEPT ![i] = once]
  <2>2. mid[i] = once /\ once.attempts + 1 = more
    BY <1>1, <2>1
  <2>3. [mid EXCEPT ![i].attempts = @ + 1] = [mid EXCEPT ![i] = [once EXCEPT !.attempts = more]]
    BY <2>2
  <2>4. [mid EXCEPT ![i] = [once EXCEPT !.attempts = more]] =
          [notices EXCEPT ![i] = [once EXCEPT !.attempts = more]]
    BY <1>1
  <2>5. QED
    BY <2>3, <2>4
<1>7. QED
  BY <1>3, <1>4, <1>5, <1>6

\* The endpoint answers a post, or does not.
LEMMA WebhookPosted ==
  ASSUME NoticesKept, NEW r \in NotificationReaders, PostWebhook(r) \/ PostFails(r)
  PROVE  NoticesKept' /\ NoticesMoveForward /\ NoticesStay
<1> DEFINE n == sending[r].notice
           more == notices[n].attempts + 1
           posts == IF PostWebhook(r) THEN sending[r].posts ELSE sending[r].posts + 1
           st == IF PostWebhook(r) THEN "delivered"
                 ELSE IF posts < MaxPosts THEN "posting" ELSE "undelivered"
           rec == [[sending[r] EXCEPT !.posts = posts] EXCEPT !.stage = st]
<1>1. /\ sending[r].stage = "posting"
      /\ OnWebhook(r)
      /\ n \in DOMAIN notices
      /\ notices[n].status \in {"PENDING", "READ"}
      /\ notices[n].attempts >= sending[r].posts
      /\ \A s \in NotificationReaders : OnWebhook(s) /\ sending[s].notice = n => s = r
  BY DEF NoticesKept, WebhooksInHand, PostWebhook, PostFails, OnWebhook
<1>2. notices[n].attempts \in Nat /\ notices[n].status \in NoticeStatuses
  BY <1>1, NoticeFields
<1>3. MaxPosts \in Nat
  BY NotificationAssumption
<1>4. PICK L : sending \in [NotificationReaders -> SendingOf(L)]
  BY DEF NoticesKept, SendersAreRows
<1>5. sending' = [sending EXCEPT ![r] = rec]
  <2>1. CASE PostWebhook(r)
    <3>1. sending' = [sending EXCEPT ![r] = [sending[r] EXCEPT !.stage = "delivered"]]
      BY <2>1 DEF PostWebhook
    <3>2. [sending[r] EXCEPT !.posts = sending[r].posts] = sending[r]
      BY <1>4 DEF SendingOf
    <3>3. QED
      BY <2>1, <3>1, <3>2
  <2>2. CASE ~PostWebhook(r)
    <3>1. /\ posts = sending[r].posts + 1
          /\ st = IF sending[r].posts + 1 < MaxPosts THEN "posting" ELSE "undelivered"
      BY <2>2
    <3>2. sending' = [sending EXCEPT ![r].posts = @ + 1,
                        ![r].stage = IF sending[r].posts + 1 < MaxPosts THEN @ ELSE "undelivered"]
      BY <2>2 DEF PostFails
    <3>3. QED
      BY <1>1, <1>4, <3>1, <3>2 DEF SendingOf
  <2>3. QED
    BY <2>1, <2>2
<1>6. sending[r].posts \in Nat
  BY SenderFields DEF NoticesKept
<1>7. /\ st = "posting" => more >= posts
      /\ st = "delivered" => n \in received'
      /\ st = "undelivered" => more >= MaxPosts
      /\ st \in {"posting", "delivered", "undelivered"}
      /\ posts \in Nat
  BY <1>1, <1>2, <1>3, <1>6 DEF PostWebhook
<1>8. /\ received \subseteq received'
      /\ notices' = [notices EXCEPT ![n].attempts = @ + 1]
  BY DEF PostWebhook, PostFails
<1>9. notices' = [notices EXCEPT ![n] =
                    [event |-> notices[n].event, channel |-> notices[n].channel,
                     user |-> notices[n].user, status |-> notices[n].status,
                     attempts |-> more]]
  BY <1>1, <1>8, NoticeExcept
<1> HIDE DEF st, posts
<1>10. /\ rec \in SendingOf(L)
      /\ rec.stage = st /\ rec.notice = n /\ rec.posts = posts
  BY <1>4, <1>7 DEF SendingOf, SendingStages
<1> HIDE DEF rec
<1>11. /\ SendersAreRows'
       /\ sending'[r] = rec
       /\ \A s \in NotificationReaders : s # r => sending'[s] = sending[s]
  BY <1>5, <1>10, SenderSet DEF NoticesKept
<1>12. more \in Nat /\ more >= notices[n].attempts
  BY <1>2
<1>13. \A s \in NotificationReaders : OnWebhook(s)' =>
         \/ /\ sending'[s] = sending[s]
            /\ sending[s].notice = n => notices[n].status \in {"PENDING", "READ"}
         \/ /\ OnWebhook(s)
            /\ sending[s].notice = n
            /\ sending'[s].notice = n
            /\ notices[n].status \in {"PENDING", "READ"}
            /\ sending'[s].stage = "posting" => more >= sending'[s].posts
            /\ sending'[s].stage = "delivered" => n \in received'
            /\ sending'[s].stage = "undelivered" => more >= MaxPosts
  BY <1>1, <1>7, <1>11, <1>10
<1> HIDE DEF n, more
<1>14. /\ NoticesKept' /\ NoticesStay
       /\ DOMAIN notices' = DOMAIN notices
       /\ \A j \in DOMAIN notices :
            notices'[j].status = IF j = n THEN notices[n].status ELSE notices[j].status
  <2>1. PICK kept \in NoticeStatuses : kept = notices[n].status
    BY <1>2
  <2>2. /\ n \in DOMAIN notices
        /\ SendersAreRows'
        /\ received \subseteq received'
    BY <1>1, <1>8, <1>11
  <2>3. notices' = [notices EXCEPT ![n] =
                      [event |-> notices[n].event, channel |-> notices[n].channel,
                       user |-> notices[n].user, status |-> kept, attempts |-> more]]
    BY <1>9, <2>1
  <2>4. \A s \in NotificationReaders : OnWebhook(s)' =>
          \/ /\ sending'[s] = sending[s]
             /\ sending[s].notice = n => kept \in {"PENDING", "READ"}
          \/ /\ OnWebhook(s)
             /\ sending[s].notice = n
             /\ sending'[s].notice = n
             /\ kept \in {"PENDING", "READ"}
             /\ sending'[s].stage = "posting" => more >= sending'[s].posts
             /\ sending'[s].stage = "delivered" => n \in received'
             /\ sending'[s].stage = "undelivered" => more >= MaxPosts
    BY <1>13, <2>1
  <2>5. notices[n].channel = "WEBHOOK" /\ kept # notices[n].status =>
          /\ kept = "SENT" => n \in received'
          /\ kept = "FAILED" => more >= MaxPosts
    BY <2>1
  <2>6. /\ NoticesKept' /\ NoticesStay
        /\ DOMAIN notices' = DOMAIN notices
        /\ \A j \in DOMAIN notices :
             notices'[j].status = IF j = n THEN kept ELSE notices[j].status
    BY <1>12, <2>2, <2>3, <2>4, <2>5, NoticeChanged
  <2>7. QED
    BY <2>1, <2>6
<1>15. QED
  BY <1>14 DEF NoticesMoveForward

\* The outcome of the posts is stored, whatever the user did meanwhile.
LEMMA WebhookSettled ==
  ASSUME NoticesKept, NEW r \in NotificationReaders, SettleWebhook(r)
  PROVE  NoticesKept' /\ NoticesMoveForward /\ NoticesStay
<1> DEFINE n == sending[r].notice
           status == Outcome(r)
           attempts == notices[n].attempts
<1>1. /\ sending[r].stage \in {"delivered", "undelivered"}
      /\ OnWebhook(r)
      /\ n \in DOMAIN notices
      /\ notices[n].status \in {"PENDING", "READ"}
      /\ \A s \in NotificationReaders : OnWebhook(s) /\ sending[s].notice = n => s = r
      /\ sending[r].stage = "delivered" => n \in received
      /\ sending[r].stage = "undelivered" => notices[n].attempts >= MaxPosts
  BY DEF NoticesKept, WebhooksInHand, SettleWebhook, OnWebhook
<1>2. /\ status \in {"SENT", "FAILED"}
      /\ status \in NoticeStatuses
      /\ status = "SENT" => n \in received
      /\ status = "FAILED" => notices[n].attempts >= MaxPosts
  BY <1>1 DEF Outcome, NoticeStatuses
<1>3. attempts \in Nat /\ attempts >= notices[n].attempts
  BY <1>1, NoticeFields
<1>4. notices' = [notices EXCEPT ![n].status = status] /\ UNCHANGED received
  BY DEF SettleWebhook
<1>5. notices' = [notices EXCEPT ![n] =
                    [event |-> notices[n].event, channel |-> notices[n].channel,
                     user |-> notices[n].user, status |-> status, attempts |-> attempts]]
  BY <1>1, <1>4, NoticeExcept
<1>6. \E rec, left : \E st \in {"idle", "channels"} :
        /\ rec = [stage |-> st, left |-> left, notice |-> 0, posts |-> 0]
        /\ sending' = [sending EXCEPT ![r] = rec]
  BY DEF SettleWebhook, NextChannel
<1>7. /\ SendersAreRows'
      /\ \A s \in NotificationReaders : OnWebhook(s)' => s # r /\ sending'[s] = sending[s]
  BY <1>6, SenderResting DEF NoticesKept
<1>8. \A s \in NotificationReaders : OnWebhook(s)' =>
        sending'[s] = sending[s] /\ sending[s].notice # n
  BY <1>1, <1>7 DEF OnWebhook
<1> HIDE DEF n, status, attempts
<1>9. /\ NoticesKept' /\ NoticesStay
      /\ DOMAIN notices' = DOMAIN notices
      /\ \A j \in DOMAIN notices :
           notices'[j].status = IF j = n THEN status ELSE notices[j].status
  <2>1. /\ received \subseteq received'
        /\ status = "SENT" => n \in received'
        /\ status = "FAILED" => attempts >= MaxPosts
    BY <1>2, <1>4 DEF attempts
  <2>2. \A s \in NotificationReaders : OnWebhook(s)' =>
          /\ sending'[s] = sending[s]
          /\ sending[s].notice = n => status \in {"PENDING", "READ"}
    BY <1>8
  <2>3. QED
    <3>1. n \in DOMAIN notices /\ status \in NoticeStatuses /\ SendersAreRows'
      BY <1>1, <1>2, <1>7
    <3>2. QED
      BY <1>3, <1>5, <2>1, <2>2, <3>1, NoticeChanged
<1>10. QED
  BY <1>1, <1>2, <1>9 DEF NoticesMoveForward

\* What users and managers do to a notice.
LEMMA NoticeCalled ==
  ASSUME NoticesKept, NEW i \in DOMAIN notices, MarkRead(i) \/ RetryNotice(i)
  PROVE  NoticesKept' /\ NoticesMoveForward /\ NoticesStay
<1> DEFINE status == IF MarkRead(i) THEN "READ" ELSE "RETRYING"
           attempts == IF MarkRead(i) THEN notices[i].attempts ELSE notices[i].attempts + 1
<1>1. /\ notices[i].attempts \in Nat
      /\ attempts \in Nat /\ attempts >= notices[i].attempts
      /\ status \in NoticeStatuses \ {"SENT", "FAILED"}
  BY NoticeFields DEF NoticeStatuses
<1>2. UNCHANGED <<sending, received>>
  BY DEF MarkRead, RetryNotice
<1>3. notices' = [notices EXCEPT ![i] =
                    [event |-> notices[i].event, channel |-> notices[i].channel,
                     user |-> notices[i].user, status |-> status, attempts |-> attempts]]
  BY NoticeExcept DEF MarkRead, RetryNotice
<1>4. \/ status = "READ"
      \/ status = "RETRYING" /\ notices[i].status = "FAILED"
  BY DEF MarkRead, RetryNotice
<1>5. \A s \in NotificationReaders : OnWebhook(s)' =>
        /\ sending'[s] = sending[s]
        /\ sending[s].notice = i => status \in {"PENDING", "READ"}
  BY <1>2, <1>4 DEF NoticesKept, WebhooksInHand, OnWebhook
<1>6. SendersAreRows' /\ received \subseteq received'
  BY <1>2 DEF NoticesKept, SendersAreRows
<1> HIDE DEF status, attempts
<1>7. /\ NoticesKept' /\ NoticesStay
      /\ DOMAIN notices' = DOMAIN notices
      /\ \A j \in DOMAIN notices :
           notices'[j].status = IF j = i THEN status ELSE notices[j].status
  BY <1>1, <1>3, <1>5, <1>6, NoticeChanged
<1>8. QED
  BY <1>4, <1>7 DEF NoticesMoveForward

\* The service starts again: nobody is sending anything.
LEMMA SendingForgotten ==
  ASSUME NoticesKept, ForgetSending
  PROVE  NoticesKept' /\ NoticesMoveForward /\ NoticesStay
<1>1. /\ received \subseteq received'
      /\ UNCHANGED notices
      /\ sending' = [r \in NotificationReaders |-> Idle]
  BY DEF ForgetSending, MayHaveArrived
<1>2. Idle \in SendingOf({{}}) /\ Idle.stage = "idle"
  BY DEF Idle, SendingOf, SendingStages
<1>3. SendersAreRows' /\ \A r \in NotificationReaders : ~OnWebhook(r)'
  BY <1>1, <1>2 DEF SendersAreRows, OnWebhook
<1>4. QED
  BY <1>1, <1>3, SameNotices

LEMMA NextKeepsNotices ==
  ASSUME NoticesKept, [Next]_vars
  PROVE  NoticesKept' /\ NoticesMoveForward /\ NoticesStay
<1> USE DEF notificationVars
<1>1. ASSUME UNCHANGED notificationVars PROVE NoticesKept' /\ NoticesMoveForward /\ NoticesStay
  <2>1. SendersAreRows' /\ UNCHANGED <<notices, received, sending>>
    BY <1>1 DEF NoticesKept, SendersAreRows
  <2>2. QED
    BY <2>1, SameNotices
<1>2. ASSUME NEW r \in Readers, Handle(r) PROVE NoticesKept' /\ NoticesMoveForward /\ NoticesStay
  <2>1. CASE Consume(r) \/ Survey(r) \/ Audit(r)
    BY <1>1, <2>1 DEF Consume, Survey, Audit, SurveillanceOnly, AuditOnly
  <2>2. CASE Notify(r)
    <3>1. r \in NotificationReaders
      BY <2>2 DEF Notify
    <3>2. CASE IgnoreUserless(r)
      BY <1>1, <3>2 DEF IgnoreUserless
    <3>3. QED
      BY <2>2, <3>1, <3>2, RestingSenders, SentAtOnce, WebhookOpened, WebhookPosted,
         WebhookSettled DEF Notify
  <2>3. QED
    BY <1>2, <2>1, <2>2 DEF Handle
<1>3. ASSUME NEW r \in Readers, Faulty(r) PROVE NoticesKept' /\ NoticesMoveForward /\ NoticesStay
  BY <1>1, <1>3, SentAtOnce, WebhookPosted, RestingSenders
     DEF Faulty, SurveillanceOnly, AuditOnly
<1>4. ASSUME NoticeCall PROVE NoticesKept' /\ NoticesMoveForward /\ NoticesStay
  <2>1. ASSUME NEW u, NEW channels, UpdatePreferences(u, channels)
        PROVE  NoticesKept' /\ NoticesMoveForward /\ NoticesStay
    <3>1. SendersAreRows' /\ UNCHANGED <<notices, received, sending>>
      BY <2>1 DEF UpdatePreferences, NoticesKept, SendersAreRows
    <3>2. QED
      BY <3>1, SameNotices
  <2>2. QED
    BY <1>4, <2>1, NoticeCalled DEF NoticeCall
<1>5. ASSUME RestartNotification PROVE NoticesKept' /\ NoticesMoveForward /\ NoticesStay
  BY <1>5, SendingForgotten DEF RestartNotification
<1>6. ASSUME \/ \E type \in SourceTypes : SourceEvents(type)
             \/ \E u \in Managers : ConfigCall(u)
             \/ \E a \in Analysts : AnalystCall(a)
             \/ RestartSurveillance \/ RestartAudit
             \/ UNCHANGED vars
      PROVE  UNCHANGED notificationVars
  BY <1>6 DEF SourceEvents, ConfigCall, AnalystCall, RestartSurveillance, RestartAudit,
       SurveillanceOnly, AuditOnly, vars
<1>7. QED
  BY <1>1, <1>2, <1>3, <1>4, <1>5, <1>6 DEF Next

LEMMA InitNotices == Init => NoticesKept
<1> SUFFICES ASSUME Init PROVE NoticesKept
  OBVIOUS
<1>1. /\ notices = <<>>
      /\ sending = [r \in NotificationReaders |-> Idle]
  BY DEF Init, NotificationInit
<1>2. notices \in Seq(NoticeRow({}, {})) /\ DOMAIN notices = {}
  BY <1>1
<1>3. Idle \in SendingOf({{}}) /\ Idle.stage = "idle"
  BY DEF Idle, SendingOf, SendingStages
<1>4. SendersAreRows /\ WebhooksInHand
  BY <1>1, <1>3 DEF SendersAreRows, WebhooksInHand, OnWebhook
<1>5. QED
  BY <1>2, <1>4 DEF NoticesKept, NoticesAreRows, OneNoticePerChannel, WebhookStatusIsEarned

\* Redelivered alert events never make a second notice on a channel, and the
\* status of a webhook notice is borne out by the posts: SENT only if the
\* endpoint has it, FAILED only after all the attempts.
THEOREM NoticesAreKept == Spec => [](OneNoticePerChannel /\ WebhookStatusIsEarned)
<1>1. NoticesKept /\ [Next]_vars => NoticesKept'
  BY NextKeepsNotices
<1>2. NoticesKept => OneNoticePerChannel /\ WebhookStatusIsEarned
  BY DEF NoticesKept
<1>3. QED
  BY <1>1, <1>2, InitNotices, PTL DEF Spec

-----------------------------------------------------------------------------
(***************************************************************************)
(* Statuses                                                                *)
(***************************************************************************)

\* Nothing takes back what became of an alert or a notice, except that a
\* failed notice may be retried and that a webhook's outcome overwrites READ.
THEOREM StatusesMoveForwardHolds == Spec => StatusesMoveForward
<1>1. Init => AlertsKept
  BY InitAlerts
<1>2. AlertsKept /\ [Next]_vars => AlertsKept'
  BY NextKeepsAlerts
<1>3. NoticesKept /\ [Next]_vars => NoticesKept'
  BY NextKeepsNotices
<1>4. AlertsKept /\ NoticesKept /\ [Next]_vars => [AlertsMoveForward /\ NoticesMoveForward]_vars
  BY NextKeepsAlerts, NextKeepsNotices
<1>5. [AlertsMoveForward /\ NoticesMoveForward]_vars =>
        [/\ \A i \in DOMAIN alerts :
              alerts'[i].status # alerts[i].status =>
                /\ alerts'[i].status # "OPEN"
                /\ alerts'[i].status = "ACKNOWLEDGED" => alerts[i].status = "OPEN"
         /\ \A i \in DOMAIN notices :
              notices'[i].status # notices[i].status =>
                \/ notices'[i].status = "READ"
                \/ notices'[i].status = "RETRYING" /\ notices[i].status = "FAILED"
                \/ notices'[i].status \in {"SENT", "FAILED"}
                     /\ notices[i].status \in {"PENDING", "READ"}]_vars
  BY DEF AlertsMoveForward, NoticesMoveForward
<1>6. QED
  BY <1>1, <1>2, <1>3, <1>4, <1>5, InitNotices, PTL DEF Spec, StatusesMoveForward

-----------------------------------------------------------------------------
(***************************************************************************)
(* The audit trail                                                         *)
(***************************************************************************)

TrailRow(E, K) == [event : E, key : K]
TrailIsRows == \E E, K : trail \in Seq(TrailRow(E, K))

\* The key of an event with an id is made of that id alone.
KeyIsTheEvent ==
  \A i \in DOMAIN trail :
    trail[i].event[1] \notin Keyless => trail[i].key = trail[i].event \o <<0>>

TrailKept == TrailIsRows /\ KeyIsTheEvent /\ OneRowPerEvent

\* No row goes away or is changed.
TrailStays == \A i \in DOMAIN trail : i \in DOMAIN trail' /\ trail'[i] = trail[i]

LEMMA SameTrail == TrailKept /\ UNCHANGED trail => TrailKept' /\ TrailStays
BY DEF TrailKept, TrailIsRows, KeyIsTheEvent, OneRowPerEvent, TrailStays

LEMMA InsertionKeepsTrail ==
  ASSUME TrailKept, NEW r, Insertion(r)
  PROVE  TrailKept' /\ TrailStays
<1> DEFINE event == EventId(r)
           key == SourceEventKey(r)
           row == [event |-> event, key |-> key]
<1>1. PICK E, K : trail \in Seq(TrailRow(E, K))
  BY DEF TrailKept, TrailIsRows
<1>2. CASE Stored(r)
  BY <1>2, SameTrail DEF Insertion
<1>3. CASE ~Stored(r)
  <2>1. trail' = Append(trail, row)
    BY <1>3 DEF Insertion
  <2>2. event[1] \notin Keyless => key = event \o <<0>>
    BY DEF EventId, SourceEventKey
  <2>3. \A i \in DOMAIN trail : trail[i].key # key
    BY <1>3 DEF Stored
  <2> DEFINE events == E \union {event}
             eventKeys == K \union {key}
  <2>4. TrailRow(E, K) \subseteq TrailRow(events, eventKeys) /\ row \in TrailRow(events, eventKeys)
    BY DEF TrailRow
  <2>5. row.event = event /\ row.key = key
    OBVIOUS
  <2> HIDE DEF row, event, key, events, eventKeys
  <2>6. /\ trail' \in Seq(TrailRow(events, eventKeys))
        /\ Len(trail) \in Nat
        /\ DOMAIN trail = 1 .. Len(trail)
        /\ DOMAIN trail' = 1 .. Len(trail) + 1
        /\ \A i \in DOMAIN trail : i # Len(trail) + 1 /\ trail'[i] = trail[i]
        /\ trail'[Len(trail) + 1] = row
    BY <1>1, <2>1, <2>4, OneMoreRow
  <2>7. DOMAIN trail' = DOMAIN trail \union {Len(trail) + 1}
    BY <2>6
  <2>8. KeyIsTheEvent'
    BY <2>2, <2>5, <2>6, <2>7 DEF TrailKept, KeyIsTheEvent
  <2>9. \A i \in DOMAIN trail : trail[i].event = event => event[1] \in Keyless
    BY <2>2, <2>3 DEF TrailKept, KeyIsTheEvent
  <2>10. OneRowPerEvent'
    BY <2>5, <2>6, <2>7, <2>9 DEF TrailKept, OneRowPerEvent
  <2>11. TrailIsRows'
    BY <2>6 DEF TrailIsRows
  <2>12. TrailStays
    BY <2>6, <2>7 DEF TrailStays
  <2>13. QED
    BY <2>8, <2>10, <2>11, <2>12 DEF TrailKept
<1>4. QED
  BY <1>2, <1>3

LEMMA NextKeepsTrail == TrailKept /\ [Next]_vars => TrailKept' /\ TrailStays
<1> SUFFICES ASSUME TrailKept, [Next]_vars PROVE TrailKept' /\ TrailStays
  OBVIOUS
<1>1. ASSUME NEW r \in Readers, Handle(r) \/ Faulty(r) PROVE TrailKept' /\ TrailStays
  <2>1. CASE Audit(r)
    BY <2>1, InsertionKeepsTrail, SameTrail DEF Audit, RecordEvent, RejectUnreadable
  <2>2. CASE AuditDatabaseError(r)
    BY <2>2, InsertionKeepsTrail, SameTrail DEF AuditDatabaseError
  <2>3. CASE UNCHANGED trail
    BY <2>3, SameTrail
  <2>4. QED
    BY <1>1, <2>1, <2>2, <2>3 DEF Handle, Faulty, Consume, Survey, Notify, SurveillanceOnly,
       NotificationOnly
<1>2. ASSUME \/ \E type \in SourceTypes : SourceEvents(type)
             \/ \E u \in Managers : ConfigCall(u)
             \/ \E a \in Analysts : AnalystCall(a)
             \/ NoticeCall
             \/ RestartSurveillance \/ RestartNotification \/ RestartAudit
             \/ UNCHANGED vars
      PROVE  UNCHANGED trail
  BY <1>2 DEF SourceEvents, ConfigCall, AnalystCall, NoticeCall, RestartSurveillance,
       RestartNotification, RestartAudit, SurveillanceOnly, NotificationOnly, vars
<1>3. QED
  BY <1>1, <1>2, SameTrail DEF Next

\* However often an event that carries an id is delivered, the audit log has
\* one row for it.
THEOREM OneRowPerEventHolds == Spec => []OneRowPerEvent
<1>1. Init => TrailKept
  <2> SUFFICES ASSUME Init PROVE TrailKept
    OBVIOUS
  <2>1. trail = <<>>
    BY DEF Init, AuditInit
  <2>2. trail \in Seq(TrailRow({}, {})) /\ DOMAIN trail = {}
    BY <2>1
  <2>3. QED
    BY <2>2 DEF TrailKept, TrailIsRows, KeyIsTheEvent, OneRowPerEvent
<1>2. TrailKept => OneRowPerEvent
  BY DEF TrailKept
<1>3. QED
  BY <1>1, <1>2, NextKeepsTrail, PTL DEF Spec

-----------------------------------------------------------------------------
(***************************************************************************)
(* Rule configurations                                                     *)
(***************************************************************************)

\* Every row carries the id it was inserted with.
RowsOwnTheirIds ==
  \A t \in Tenants, rule \in Rules :
    table[t][rule] # Absent => t = DefaultTenant /\ table[t][rule].id = <<t, rule>>

\* The default tenant has a row of every rule; that nobody else has one is the
\* defect that TenantRulesAreStored finds.
OnlyDefaultRows ==
  \A rule \in Rules :
    /\ table[DefaultTenant][rule] # Absent
    /\ \A t \in Tenants \ {DefaultTenant} : table[t][rule] = Absent

\* What a call is about to write comes from the default tenant's row, and a
\* call of another tenant never gets past its write.
CallsCarryDefaults ==
  \A u \in Managers : call[u] # Absent =>
    IF call[u].stage = "write"
    THEN call[u].row.id = <<DefaultTenant, call[u].rule>>
    ELSE call[u].tenant = DefaultTenant

Writing == \A u \in Managers : call[u] # Absent => call[u].stage = "write"

\* The engine has settings of the default tenant only; they are what the
\* table says except while a call is between its write and its installation.
CacheFollowsTable ==
  /\ \A t \in Tenants \ {DefaultTenant} : cache[t] = Absent
  /\ ~disturbed =>
       /\ cache[DefaultTenant] # Absent
       /\ \A u, v \in Managers : call[u] # Absent /\ call[v] # Absent => u = v
       /\ \A u \in Managers : call[u] # Absent /\ call[u].stage = "install" =>
            call[u].loaded = Effective(DefaultTenant)
       /\ Writing => cache[DefaultTenant] = Effective(DefaultTenant)

ConfigsKept ==
  /\ ConfigsTypeOK
  /\ RowsOwnTheirIds
  /\ OnlyDefaultRows
  /\ CallsCarryDefaults
  /\ CacheFollowsTable

\* Whoever asks, the default tenant's rows answer.
LEMMA DefaultRowsAnswer ==
  ASSUME table \in [Tenants -> [Rules -> Row \union {Absent}]], RowsOwnTheirIds, OnlyDefaultRows
  PROVE  /\ \A t \in Tenants : Effective(t) = [rule \in Rules |-> table[DefaultTenant][rule].setting]
         /\ \A t \in Tenants : Effective(t) \in [Rules -> Setting]
         /\ \A t \in Tenants, rule \in Rules : StoredIn(table, t, rule) = table[DefaultTenant][rule]
         /\ \A rule \in Rules : table[DefaultTenant][rule] \in Row
         /\ \A rule \in Rules : table[DefaultTenant][rule].id = <<DefaultTenant, rule>>
<1> USE RuleConfigsAssumption
<1>1. \A rule \in Rules :
        /\ table[DefaultTenant][rule] \in Row
        /\ table[DefaultTenant][rule] # Absent
        /\ table[DefaultTenant][rule].id = <<DefaultTenant, rule>>
  BY DEF RowsOwnTheirIds, OnlyDefaultRows
<1>2. \A t \in Tenants, rule \in Rules : StoredIn(table, t, rule) = table[DefaultTenant][rule]
  BY DEF StoredIn, OnlyDefaultRows
<1>3. \A t \in Tenants : Effective(t) = [rule \in Rules |-> table[DefaultTenant][rule].setting]
  BY <1>1, <1>2 DEF Effective, EffectiveIn
<1>4. \A rule \in Rules : table[DefaultTenant][rule].setting \in Setting
  BY <1>1 DEF Row
<1>5. QED
  BY <1>1, <1>2, <1>3, <1>4

LEMMA InitConfigs == ConfigsInit => ConfigsKept
<1> SUFFICES ASSUME ConfigsInit PROVE ConfigsKept
  OBVIOUS
<1> USE RuleConfigsAssumption
<1> DEFINE empty == [t \in Tenants |-> [rule \in Rules |-> Absent]]
           first == [rule \in Rules |->
                       [id |-> <<DefaultTenant, rule>>, setting |-> Fallback[rule]]]
<1>1. table = [empty EXCEPT ![DefaultTenant] = first]
  BY DEF ConfigsInit, WithDefaults
<1>2. \A rule \in Rules : first[rule] \in Row /\ first[rule].id = <<DefaultTenant, rule>>
  BY DEF Row
<1>3. first \in [Rules -> Row \union {Absent}]
  BY <1>2
<1>4. \A t \in Tenants : table[t] = IF t = DefaultTenant THEN first ELSE [rule \in Rules |-> Absent]
  BY <1>1
<1>5. table \in [Tenants -> [Rules -> Row \union {Absent}]]
  BY <1>1, <1>3
<1> HIDE DEF first
<1>6. RowsOwnTheirIds /\ OnlyDefaultRows
  BY <1>2, <1>4 DEF RowsOwnTheirIds, OnlyDefaultRows
<1>7. /\ cache = [t \in Tenants |-> IF t = DefaultTenant THEN Effective(t) ELSE Absent]
      /\ call = [u \in Managers |-> Absent]
      /\ disturbed = FALSE
  BY DEF ConfigsInit, FreshCache, Effective
<1>8. \A u \in Managers : call[u] = Absent
  BY <1>7
<1>9. Effective(DefaultTenant) \in [Rules -> Setting]
  BY <1>5, <1>6, DefaultRowsAnswer
<1>10. /\ cache[DefaultTenant] = Effective(DefaultTenant)
       /\ \A t \in Tenants \ {DefaultTenant} : cache[t] = Absent
       /\ cache \in [Tenants -> [Rules -> Setting] \union {Absent}]
  BY <1>7, <1>9
<1>11. ConfigsTypeOK
  BY <1>5, <1>7, <1>10 DEF ConfigsTypeOK
<1>12. CacheFollowsTable
  BY <1>8, <1>9, <1>10 DEF CacheFollowsTable
<1>13. QED
  BY <1>6, <1>8, <1>11, <1>12 DEF ConfigsKept, CallsCarryDefaults

\* A call begins.
LEMMA ReadKeepsConfigs ==
  ASSUME ConfigsKept, NEW u \in Managers, NEW q \in Requests, ReadRule(u, q)
  PROVE  ConfigsKept'
<1> USE RuleConfigsAssumption DEF ConfigsKept
<1> DEFINE row == table[DefaultTenant][q.rule]
           setting == Overlay(row.setting, q)
           mine == [stage |-> "write", tenant |-> q.tenant, rule |-> q.rule,
                    row |-> [row EXCEPT !.setting = setting], loaded |-> Fallback]
<1>1. /\ q.tenant \in Tenants /\ q.rule \in Rules
      /\ q.enabled \in BOOLEAN \union {Keep} /\ q.threshold \in Nat \union {Keep}
  OBVIOUS
<1>2. row \in Row /\ row.id = <<DefaultTenant, q.rule>>
  BY <1>1, DefaultRowsAnswer DEF ConfigsTypeOK
<1>3. setting \in Setting
  BY <1>1, <1>2 DEF Overlay, Row, Setting
<1>4. StoredIn(table, q.tenant, q.rule) = row
  BY <1>1, DefaultRowsAnswer DEF ConfigsTypeOK
<1>5. /\ call[u] = Absent
      /\ call' = [call EXCEPT ![u] = mine]
      /\ disturbed' = (disturbed \/ \E v \in Managers : call[v] # Absent)
      /\ UNCHANGED <<table, cache>>
  <2>1. [row EXCEPT !.setting = Overlay(@, q)] = [row EXCEPT !.setting = setting]
    OBVIOUS
  <2>2. QED
    BY <1>4, <2>1 DEF ReadRule
<1> HIDE DEF row, setting
<1>6. [row EXCEPT !.setting = setting] \in Row /\ [row EXCEPT !.setting = setting].id = row.id
  BY <1>2, <1>3 DEF Row
<1>7. /\ mine \in Call
      /\ mine.stage = "write"
      /\ mine.row.id = <<DefaultTenant, mine.rule>>
  BY <1>1, <1>2, <1>6 DEF Call
<1> HIDE DEF mine
<1>8. /\ call' \in [Managers -> Call \union {Absent}]
      /\ \A v \in Managers : call'[v] = IF v = u THEN mine ELSE call[v]
  BY <1>5, <1>7 DEF ConfigsTypeOK
<1>9. ConfigsTypeOK'
  BY <1>5, <1>8 DEF ConfigsTypeOK
<1>10. CallsCarryDefaults'
  BY <1>7, <1>8 DEF CallsCarryDefaults
<1>11. CacheFollowsTable'
  BY <1>5, <1>7, <1>8 DEF CacheFollowsTable, Writing, Effective
<1>12. QED
  BY <1>5, <1>9, <1>10, <1>11 DEF RowsOwnTheirIds, OnlyDefaultRows

\* A call of the default tenant writes its row; that of another tenant is
\* refused by the primary key.
LEMMA WriteKeepsConfigs ==
  ASSUME ConfigsKept, NEW u \in Managers, WriteRule(u)
  PROVE  ConfigsKept'
<1> USE RuleConfigsAssumption DEF ConfigsKept
<1> DEFINE t == call[u].tenant
           rule == call[u].rule
           stored == table[t][rule]
           id == IF stored # Absent THEN stored.id ELSE call[u].row.id
<1>1. /\ call[u] \in Call
      /\ call[u].stage = "write"
      /\ t \in Tenants /\ rule \in Rules
      /\ call[u].row \in Row /\ call[u].row.id = <<DefaultTenant, rule>>
  BY DEF WriteRule, ConfigsTypeOK, CallsCarryDefaults, Call
<1>2. UNCHANGED <<cache, disturbed>>
  BY DEF WriteRule
<1>3. CASE t # DefaultTenant
  <2>1. stored = Absent /\ id = <<DefaultTenant, rule>>
    BY <1>1, <1>3 DEF OnlyDefaultRows
  <2>2. IdTaken(id)
    <3>1. /\ table[DefaultTenant][rule] # Absent
          /\ table[DefaultTenant][rule].id = <<DefaultTenant, rule>>
      BY <1>1, DefaultRowsAnswer DEF ConfigsTypeOK, OnlyDefaultRows
    <3>2. \E w \in Tenants, other \in Rules :
            table[w][other] # Absent /\ table[w][other].id = <<DefaultTenant, rule>>
      BY <1>1, <3>1
    <3>3. QED
      BY <2>1, <3>2 DEF IdTaken
  <2>3. call' = [call EXCEPT ![u] = Absent] /\ UNCHANGED table
    BY <2>1, <2>2 DEF WriteRule
  <2>4. /\ call' \in [Managers -> Call \union {Absent}]
        /\ \A v \in Managers : call'[v] = IF v = u THEN Absent ELSE call[v]
    BY <2>3 DEF ConfigsTypeOK
  <2>5. CacheFollowsTable'
    BY <1>1, <1>2, <2>3, <2>4 DEF CacheFollowsTable, Writing, Effective
  <2>6. QED
    BY <1>2, <2>3, <2>4, <2>5
       DEF ConfigsTypeOK, CallsCarryDefaults, RowsOwnTheirIds, OnlyDefaultRows
<1>4. CASE t = DefaultTenant
  <2> DEFINE new == [call[u].row EXCEPT !.id = id]
             next == [call[u] EXCEPT !.stage = "load"]
  <2>1. stored \in Row /\ stored # Absent /\ id = <<DefaultTenant, rule>>
    BY <1>1, <1>4, DefaultRowsAnswer DEF ConfigsTypeOK, OnlyDefaultRows
  <2>2. /\ table' = [table EXCEPT ![t][rule] = new]
        /\ call' = [call EXCEPT ![u] = next]
    BY <2>1 DEF WriteRule
  <2>3. new \in Row /\ new.id = <<DefaultTenant, rule>> /\ new # Absent
    BY <1>1, <2>1 DEF Row
  <2>4. next \in Call /\ next.stage = "load" /\ next.tenant = DefaultTenant /\ next # Absent
    BY <1>1, <1>4 DEF Call
  <2> HIDE DEF new, next
  <2>5. /\ call' \in [Managers -> Call \union {Absent}]
        /\ \A v \in Managers : call'[v] = IF v = u THEN next ELSE call[v]
    BY <2>2, <2>4 DEF ConfigsTypeOK
  <2>6. /\ table' \in [Tenants -> [Rules -> Row \union {Absent}]]
        /\ \A w \in Tenants, other \in Rules :
             table'[w][other] = IF w = DefaultTenant /\ other = rule THEN new ELSE table[w][other]
    BY <1>1, <1>4, <2>2, <2>3 DEF ConfigsTypeOK
  <2>7. RowsOwnTheirIds' /\ OnlyDefaultRows'
    BY <2>3, <2>6 DEF RowsOwnTheirIds, OnlyDefaultRows
  <2>8. CallsCarryDefaults'
    BY <2>4, <2>5 DEF CallsCarryDefaults
  <2>9. CacheFollowsTable'
    <3>1. \A t1 \in Tenants \ {DefaultTenant} : cache'[t1] = Absent
      BY <1>2 DEF CacheFollowsTable
    <3>2. ~disturbed => \A v \in Managers : call'[v] # Absent => v = u
      BY <1>1, <2>5 DEF CacheFollowsTable
    <3>3. call'[u] = next
      BY <2>5
    <3>4. QED
      BY <1>2, <2>4, <3>1, <3>2, <3>3 DEF CacheFollowsTable, Writing
  <2>10. QED
    BY <1>2, <2>5, <2>6, <2>7, <2>8, <2>9 DEF ConfigsTypeOK
<1>5. QED
  BY <1>3, <1>4

\* The settings are loaded, or the environment's are.
LEMMA LoadKeepsConfigs ==
  ASSUME ConfigsKept, NEW u \in Managers, LoadRules(u) \/ LoadFails(u)
  PROVE  ConfigsKept'
<1> USE RuleConfigsAssumption DEF ConfigsKept
<1> DEFINE loaded == IF LoadRules(u) THEN Effective(call[u].tenant) ELSE Fallback
           next == [[call[u] EXCEPT !.stage = "install"] EXCEPT !.loaded = loaded]
<1>1. /\ call[u] \in Call /\ call[u] # Absent
      /\ call[u].stage = "load"
      /\ call[u].tenant = DefaultTenant
  BY DEF LoadRules, LoadFails, ConfigsTypeOK, CallsCarryDefaults
<1>2. loaded \in [Rules -> Setting]
  BY <1>1, DefaultRowsAnswer DEF ConfigsTypeOK
<1>3. call' = [call EXCEPT ![u].stage = "install", ![u].loaded = loaded]
  BY DEF LoadRules, LoadFails
<1>4. /\ UNCHANGED <<table, cache>>
      /\ disturbed' = (disturbed \/ ~LoadRules(u))
  BY DEF LoadRules, LoadFails, ConfigsTypeOK
<1>5. ~disturbed' => loaded = Effective(DefaultTenant)
  BY <1>1, <1>4
<1> HIDE DEF loaded
<1>6. call' = [call EXCEPT ![u] = next]
  BY <1>3 DEF ConfigsTypeOK
<1>7. /\ next \in Call /\ next # Absent
      /\ next.stage = "install" /\ next.tenant = DefaultTenant /\ next.loaded = loaded
  BY <1>1, <1>2 DEF Call
<1> HIDE DEF next
<1>8. /\ call' \in [Managers -> Call \union {Absent}]
      /\ \A v \in Managers : call'[v] = IF v = u THEN next ELSE call[v]
  BY <1>6, <1>7 DEF ConfigsTypeOK
<1>9. ConfigsTypeOK'
  BY <1>4, <1>8 DEF ConfigsTypeOK
<1>10. CallsCarryDefaults'
  BY <1>7, <1>8 DEF CallsCarryDefaults
<1>11. CacheFollowsTable'
  <2>1. Effective(DefaultTenant)' = Effective(DefaultTenant)
    BY <1>4 DEF Effective
  <2>2. ~disturbed' => ~disturbed /\ \A v \in Managers : call'[v] # Absent => v = u
    BY <1>1, <1>4, <1>8 DEF CacheFollowsTable
  <2>3. call'[u] = next
    BY <1>8
  <2>4. QED
    BY <1>4, <1>5, <1>7, <2>1, <2>2, <2>3 DEF CacheFollowsTable, Writing
<1>12. QED
  BY <1>4, <1>9, <1>10, <1>11 DEF RowsOwnTheirIds, OnlyDefaultRows

\* The engine gets what was loaded.
LEMMA InstallKeepsConfigs ==
  ASSUME ConfigsKept, NEW u \in Managers, InstallRules(u)
  PROVE  ConfigsKept'
<1> USE RuleConfigsAssumption DEF ConfigsKept
<1>1. /\ call[u] \in Call /\ call[u] # Absent
      /\ call[u].stage = "install"
      /\ call[u].tenant = DefaultTenant
      /\ call[u].loaded \in [Rules -> Setting]
  BY DEF InstallRules, ConfigsTypeOK, CallsCarryDefaults, Call
<1>2. /\ cache' = [cache EXCEPT ![DefaultTenant] = call[u].loaded]
      /\ call' = [call EXCEPT ![u] = Absent]
      /\ UNCHANGED <<table, disturbed>>
  BY <1>1 DEF InstallRules
<1>3. /\ call' \in [Managers -> Call \union {Absent}]
      /\ \A v \in Managers : call'[v] = IF v = u THEN Absent ELSE call[v]
      /\ cache' \in [Tenants -> [Rules -> Setting] \union {Absent}]
      /\ \A t \in Tenants : cache'[t] = IF t = DefaultTenant THEN call[u].loaded ELSE cache[t]
  BY <1>1, <1>2 DEF ConfigsTypeOK
<1>4. CacheFollowsTable'
  BY <1>1, <1>2, <1>3 DEF CacheFollowsTable, Writing, Effective
<1>5. QED
  BY <1>2, <1>3, <1>4 DEF ConfigsTypeOK, CallsCarryDefaults, RowsOwnTheirIds, OnlyDefaultRows

\* The service starts again, and reads its settings or does not.
LEMMA RestartKeepsConfigs ==
  ASSUME ConfigsKept, RestartConfigs
  PROVE  ConfigsKept'
<1> USE RuleConfigsAssumption DEF ConfigsKept
<1>1. /\ call' \in [Managers -> Call \union {Absent}]
      /\ \A u \in Managers : call'[u] = Absent
  BY DEF RestartConfigs
<1>2. UNCHANGED table
  <2>1. table \in [Tenants -> [Rules -> Row \union {Absent}]]
    BY DEF ConfigsTypeOK
  <2>2. [rule \in Rules |->
           IF table[DefaultTenant][rule] # Absent THEN table[DefaultTenant][rule]
           ELSE [id |-> <<DefaultTenant, rule>>, setting |-> Fallback[rule]]]
          = table[DefaultTenant]
    BY <2>1 DEF OnlyDefaultRows
  <2>3. WithDefaults(table) = table
    BY <2>1, <2>2 DEF WithDefaults
  <2>4. QED
    BY <2>3 DEF RestartConfigs
<1>3. \/ /\ cache' = [t \in Tenants |-> IF t = DefaultTenant THEN Effective(t) ELSE Absent]
         /\ UNCHANGED disturbed
      \/ cache' = [t \in Tenants |-> Absent] /\ disturbed' = TRUE
  BY <1>2 DEF RestartConfigs, FreshCache, Effective
<1>4. Effective(DefaultTenant) \in [Rules -> Setting]
  BY DefaultRowsAnswer DEF ConfigsTypeOK
<1>5. /\ cache' \in [Tenants -> [Rules -> Setting] \union {Absent}]
      /\ disturbed' \in BOOLEAN
      /\ \A t \in Tenants \ {DefaultTenant} : cache'[t] = Absent
      /\ ~disturbed' => cache'[DefaultTenant] = Effective(DefaultTenant)
  <2>1. CASE /\ cache' = [t \in Tenants |-> IF t = DefaultTenant THEN Effective(t) ELSE Absent]
             /\ UNCHANGED disturbed
    <3>1. cache' \in [Tenants -> [Rules -> Setting] \union {Absent}]
      BY <1>4, <2>1
    <3>2. QED
      BY <2>1, <3>1 DEF ConfigsTypeOK
  <2>2. CASE cache' = [t \in Tenants |-> Absent] /\ disturbed' = TRUE
    BY <2>2
  <2>3. QED
    BY <1>3, <2>1, <2>2
<1>6. Effective(DefaultTenant)' = Effective(DefaultTenant)
  BY <1>2 DEF Effective
<1>7. CacheFollowsTable'
  BY <1>1, <1>4, <1>5, <1>6 DEF CacheFollowsTable
<1>8. QED
  BY <1>1, <1>2, <1>5, <1>7 DEF ConfigsTypeOK, CallsCarryDefaults, RowsOwnTheirIds, OnlyDefaultRows

LEMMA SameConfigs == ConfigsKept /\ UNCHANGED configVars => ConfigsKept'
BY DEF configVars, ConfigsKept, ConfigsTypeOK, CallsCarryDefaults, RowsOwnTheirIds,
   OnlyDefaultRows, CacheFollowsTable, Writing, Effective

LEMMA NextKeepsConfigs == ConfigsKept /\ [Next]_vars => ConfigsKept'
<1> SUFFICES ASSUME ConfigsKept, [Next]_vars PROVE ConfigsKept'
  OBVIOUS
<1>1. ASSUME NEW u \in Managers, ConfigCall(u) PROVE ConfigsKept'
  BY <1>1, ReadKeepsConfigs, WriteKeepsConfigs, LoadKeepsConfigs, InstallKeepsConfigs DEF ConfigCall
<1>2. ASSUME RestartSurveillance PROVE ConfigsKept'
  BY <1>2, RestartKeepsConfigs DEF RestartSurveillance, ForgetEngine
<1>3. ASSUME NEW a \in Analysts, AnalystCall(a) PROVE UNCHANGED configVars
  BY <1>3 DEF AnalystCall, ChangeAlert, AnnounceChange
<1>4. ASSUME NEW r \in Readers, Handle(r) \/ Faulty(r) PROVE UNCHANGED configVars
  BY <1>4 DEF Handle, Faulty, Consume, Survey, Notify, Audit, NotificationOnly, AuditOnly,
     RejectSource, Evaluate, RaiseAlert, PublishAlert, PublishAlertFails, SourceProcessed,
     SurveillanceDatabaseError
<1>5. ASSUME \/ \E type \in SourceTypes : SourceEvents(type)
             \/ NoticeCall \/ RestartNotification \/ RestartAudit \/ UNCHANGED vars
      PROVE  UNCHANGED configVars
  BY <1>5 DEF SourceEvents, NoticeCall, RestartNotification, RestartAudit, NotificationOnly,
     AuditOnly, vars
<1>6. QED
  BY <1>1, <1>2, <1>3, <1>4, <1>5, SameConfigs DEF Next

LEMMA InitConfigsKept == Init => ConfigsKept
BY InitConfigs DEF Init

\* When no update is under way the engine uses what the table says, for every
\* tenant, unless updates overlapped or the settings could not be loaded:
\* in any number of updates, restarts and refused first updates of tenants.
THEOREM RuleChangesTakeEffectHolds == Spec => []RuleChangesTakeEffect
<1>1. ConfigsKept => RuleChangesTakeEffect
  <2> SUFFICES ASSUME ConfigsKept, ~disturbed, \A u \in Managers : call[u] = Absent,
                      NEW t \in Tenants, NEW rule \in Rules
               PROVE  RuleSetting(t, rule) = Effective(t)[rule]
    BY DEF RuleChangesTakeEffect
  <2>1. cache[DefaultTenant] # Absent /\ cache[DefaultTenant] = Effective(DefaultTenant)
    BY DEF ConfigsKept, CacheFollowsTable, Writing
  <2>2. RuleSetting(t, rule) = cache[DefaultTenant][rule]
    BY <2>1 DEF RuleSetting, ConfigsKept, CacheFollowsTable
  <2>3. Effective(t) = Effective(DefaultTenant)
    BY DefaultRowsAnswer, RuleConfigsAssumption DEF ConfigsKept, ConfigsTypeOK
  <2>4. QED
    BY <2>1, <2>2, <2>3
<1>2. QED
  BY <1>1, InitConfigsKept, NextKeepsConfigs, PTL DEF Spec

-----------------------------------------------------------------------------
(***************************************************************************)
(* From an event to its marks                                              *)
(***************************************************************************)

\* What the partitions of a reader carry.
Content(p) ==
  IF ReaderOf[p] \in SurveillanceReaders THEN SourceEvent
  ELSE IF ReaderOf[p] \in NotificationReaders THEN AlertEvent
  ELSE Messages

\* Every reader keeps its partitions, and a partition carries what its
\* reader subscribed to.
TopicsCarryTheirTypes ==
  /\ assigned = ReaderOf
  /\ \A r \in Readers : Busy(r) => ReaderOf[handling[r][1]] = r
  /\ \A p \in Partitions : \A n \in 1 .. Len(topic[p]) : topic[p][n] \in Content(p)

\* What is still to come is of that kind.
PlanInHand ==
  ahead \in [feed : [SourceTypes -> Seq(SourceEvent)], faults : Nat, calls : Nat]

\* The messages that need not come again.
Settled ==
  {m \in Partitions \X Numbers : m[2] <= Len(topic[m[1]]) /\ MarkLeft(m[1], m[2])}
    \union deadLettered \union dropped

\* A reader that has evaluated its event has an alert for each threshold that
\* the event breaches, or has still to raise it; the alert that it is about
\* to publish is the one for its first match.
Raising(r) ==
  /\ ~work[r].evaluated => work[r].matched = {} /\ work[r].raised = 0
  /\ work[r].evaluated => Attempting(r) /\ Source(r).valid
  /\ work[r].matched \intersect CountingRules # {} => Source(r).user # NoOne
  /\ work[r].raised # 0 =>
       /\ work[r].matched # {}
       /\ work[r].raised \in DOMAIN alerts
       /\ alerts[work[r].raised].key = KeyOf(FirstMatch(work[r].matched), Source(r))
  /\ work[r].evaluated /\ ~called /\ Source(r).entity # "" =>
       \A rule \in Breaches(Source(r)) :
         rule \in work[r].matched \/ HasAlert(rule, Source(r))

\* An analyst announces what became of an alert that there is.
AnnouncingAnAlert ==
  \A a \in Analysts : announcing[a] # NothingToSay =>
    announcing[a][1] \in DOMAIN alerts /\ announcing[a][2] # "OPEN"

\* A reader that sends has a notice on each of the user's channels, or has
\* still to send it; the webhook it posts to is the next of them.
SendingOn(r) ==
  /\ sending[r].stage # "idle" => Attempting(r) /\ Message(r).user # NoOne
  /\ OnWebhook(r) =>
       /\ sending[r].left # {}
       /\ FirstChannel(sending[r].left) = "WEBHOOK"
       /\ sending[r].notice \in DOMAIN notices
       /\ notices[sending[r].notice].event = EventId(r)
       /\ notices[sending[r].notice].channel = "WEBHOOK"
  /\ sending[r].stage = "posting" => sending[r].posts < MaxPosts
  /\ sending[r].stage # "idle" /\ ~called =>
       \A channel \in FirstPrefs[Message(r).user] :
         channel \in sending[r].left \/ HasNotice(EventId(r), channel)

KeyNamesTheEvent ==
  \A i \in DOMAIN trail : trail[i].event = <<trail[i].key[1], trail[i].key[2]>>

\* As long as nobody calls, rules and preferences are what they were.
NothingWasChanged ==
  ~called =>
    /\ prefs = FirstPrefs
    /\ \A u \in Managers : call[u] = Absent
    /\ \A rule \in Rules : table[DefaultTenant][rule].setting = Fallback[rule]
    /\ \A t \in Tenants : cache[t] # Absent => cache[t] = Fallback

TablesKept == AlertsKept /\ NoticesKept /\ TrailKept /\ ConfigsKept
Delivered == ConsumerInv(Messages, Settled) /\ TopicsCarryTheirTypes /\ PlanInHand
Surveyed ==
  /\ SurveillanceTypeOK
  /\ \A r \in SurveillanceReaders : Raising(r)
  /\ AnnouncingAnAlert
Notified == NotificationTypeOK /\ \A r \in NotificationReaders : SendingOn(r)
Audited == AuditTypeOK /\ KeyNamesTheEvent

MarksInv ==
  TablesKept /\ Delivered /\ Surveyed /\ Notified /\ Audited /\ NothingWasChanged

-----------------------------------------------------------------------------

SameAttempt(r) ==
  handling'[r] = handling[r] /\ stage'[r] = stage[r] /\ Message(r)' = Message(r)

\* The readers R go on with the attempts they are making.
AttemptsStay(R) == \A r \in R : Attempting(r) => SameAttempt(r)

\* The message of a busy reader, and what it carries.
LEMMA EventAtHand ==
  ASSUME ConsumerTypeOK(Messages), WithinTopics, TopicsCarryTheirTypes, NEW r \in Readers, Busy(r)
  PROVE  /\ handling[r] \in Partitions \X Numbers
         /\ handling[r][2] <= Len(topic[handling[r][1]])
         /\ ReaderOf[handling[r][1]] = r
         /\ Message(r) \in Messages
         /\ r \in SurveillanceReaders => Message(r) \in SourceEvent
         /\ r \in NotificationReaders => Message(r) \in AlertEvent
<1>1. /\ handling[r] \in Partitions \X Nat
      /\ handling[r][2] \in Numbers
      /\ handling[r][2] <= Len(topic[handling[r][1]])
  BY DEF ConsumerTypeOK, WithinTopics, Busy
<1>2. PICK p \in Partitions : p = handling[r][1]
  BY <1>1
<1>3. PICK n \in Numbers : n = handling[r][2]
  BY <1>1
<1>4. topic[p] \in Seq(Messages) /\ n \in 1 .. Len(topic[p])
  BY <1>1, <1>2, <1>3 DEF ConsumerTypeOK, Numbers
<1>5. Message(r) = topic[p][n]
  BY <1>2, <1>3 DEF Message
<1>6. topic[p][n] \in Messages /\ topic[p][n] \in Content(p)
  BY <1>4 DEF TopicsCarryTheirTypes
<1>7. ReaderOf[p] = r
  BY <1>2 DEF TopicsCarryTheirTypes
<1>8. /\ r \in SurveillanceReaders => Content(p) = SourceEvent
      /\ r \in NotificationReaders => Content(p) = AlertEvent
  BY <1>7, PipelineAssumption DEF Content
<1>9. QED
  BY <1>1, <1>2, <1>5, <1>6, <1>7, <1>8

\* Appending to topics leaves every message where it is.
LEMMA MessagesStay ==
  ASSUME ConsumerTypeOK(Messages), WithinTopics, TopicsGrow, NEW r \in Readers, Busy(r),
         handling'[r] = handling[r]
  PROVE  Message(r)' = Message(r)
<1>1. /\ handling[r][1] \in Partitions
      /\ handling[r][2] \in Numbers
      /\ handling[r][2] <= Len(topic[handling[r][1]])
  BY DEF ConsumerTypeOK, WithinTopics, Busy
<1>2. topic'[handling[r][1]][handling[r][2]] = topic[handling[r][1]][handling[r][2]]
  BY <1>1 DEF TopicsGrow
<1>3. QED
  BY <1>2 DEF Message

LEMMA TopicsUnchanged ==
  ASSUME ConsumerTypeOK(Messages), UNCHANGED topic
  PROVE  TopicsGrow
BY DEF ConsumerTypeOK, TopicsGrow, Numbers

\* What each kind of step leaves alone.
LEMMA ProducingStays ==
  ASSUME ConsumerTypeOK(Messages), WithinTopics,
         TopicsGrow, UNCHANGED <<handling, stage>>
  PROVE  AttemptsStay(Readers)
BY MessagesStay DEF AttemptsStay, SameAttempt, Attempting

LEMMA ConsumingStays ==
  ASSUME ConsumerTypeOK(Messages), WithinTopics, NEW r \in Readers,
         FetchMessage(r) \/ DeadLetter(r) \/ CommitMessages(r)
  PROVE  AttemptsStay(Readers)
<1>1. UNCHANGED topic
  BY DEF FetchMessage, DeadLetter, CommitMessages
<1>2. \A o \in Readers \ {r} : handling'[o] = handling[o] /\ stage'[o] = stage[o]
  BY DEF FetchMessage, DeadLetter, CommitMessages, ConsumerTypeOK
<1>3. ~Attempting(r)
  BY DEF FetchMessage, DeadLetter, CommitMessages, Attempting
<1>4. QED
  BY <1>1, <1>2, <1>3, TopicsUnchanged, MessagesStay DEF AttemptsStay, SameAttempt, Attempting

LEMMA AttemptingStays ==
  ASSUME ConsumerTypeOK(Messages), WithinTopics, NEW r \in Readers,
         Succeed(r) \/ FailAttempt(r)
  PROVE  AttemptsStay(Readers \ {r})
<1>1. UNCHANGED <<topic, handling>>
  BY DEF Succeed, FailAttempt
<1>2. \A o \in Readers \ {r} : handling'[o] = handling[o] /\ stage'[o] = stage[o]
  BY <1>1 DEF Succeed, FailAttempt, ConsumerTypeOK
<1>3. QED
  BY <1>1, <1>2 DEF AttemptsStay, SameAttempt, Message

LEMMA RestartingStays ==
  ASSUME ConsumerTypeOK(Messages), WithinTopics, NEW R, CrashReaders(R) \/ ShutdownReaders(R)
  PROVE  /\ UNCHANGED <<topic, assigned, deadLettered>>
         /\ dropped \subseteq dropped'
         /\ \A r \in Readers : ~Busy(r)' \/ handling'[r] = handling[r]
         /\ AttemptsStay(Readers \ R)
<1>1. \E offset : Restarted(R, offset) /\ dropped \subseteq dropped'
  BY DEF CrashReaders, ShutdownReaders
<1>2. PICK offset : Restarted(R, offset) /\ dropped \subseteq dropped'
  BY <1>1
<1>3. UNCHANGED <<topic, assigned, deadLettered>>
  BY <1>2 DEF Restarted
<1>4. \A r \in Readers :
        /\ r \in R => handling'[r] = Nothing
        /\ r \notin R => handling'[r] = handling[r] /\ stage'[r] = stage[r]
  BY <1>2 DEF Restarted
<1>5. AttemptsStay(Readers \ R)
  BY <1>3, <1>4 DEF AttemptsStay, SameAttempt, Message
<1>6. QED
  BY <1>2, <1>3, <1>4, <1>5 DEF Busy

-----------------------------------------------------------------------------

\* Whatever happens, a row stays what it is, and calls are not undone.
MarksStay == AlertsStay /\ NoticesStay /\ TrailStays /\ (called => called')

LEMMA NextKeepsTables ==
  ASSUME TablesKept, [Next]_vars
  PROVE  TablesKept' /\ MarksStay
<1>1. called => called'
  BY DEF Next, vars, SourceEvents, Handle, Consume, Survey, Notify, Audit, Faulty, Fault,
     Uneventful, ConfigCall, UserCall, AnalystCall, NoticeCall, RestartSurveillance,
     RestartNotification, RestartAudit
<1>2. QED
  BY <1>1, NextKeepsAlerts, NextKeepsNotices, NextKeepsTrail, NextKeepsConfigs DEF TablesKept, MarksStay

\* A mark that is left stays.
LEMMA AlertStays ==
  ASSUME AlertsStay, NEW rule, NEW e, HasAlert(rule, e)
  PROVE  HasAlert(rule, e)'
BY DEF AlertsStay, HasAlert, KeyOf

LEMMA NoticeStays ==
  ASSUME NoticesStay, NEW event, NEW channel, HasNotice(event, channel)
  PROVE  HasNotice(event, channel)'
BY DEF NoticesStay, HasNotice

LEMMA RowStays ==
  ASSUME TrailStays, NEW event, HasRow(event)
  PROVE  HasRow(event)'
BY DEF TrailStays, HasRow

LEMMA MarkStays ==
  ASSUME MarksStay, NEW p \in Partitions, NEW n, topic'[p][n] = topic[p][n], MarkLeft(p, n)
  PROVE  MarkLeft(p, n)'
BY AlertStays, NoticeStays, RowStays DEF MarkLeft, MarksStay, Breaches, RulesFor

\* What is settled stays settled.
LEMMA SettledGrows ==
  ASSUME ConsumerTypeOK(Messages), TopicsGrow, MarksStay,
         \A p \in Partitions : Len(topic'[p]) \in Nat,
         deadLettered \subseteq deadLettered', dropped \subseteq dropped'
  PROVE  Settled \subseteq Settled'
<1> SUFFICES ASSUME NEW p \in Partitions, NEW n \in Numbers,
                    n <= Len(topic[p]), MarkLeft(p, n)
             PROVE  n <= Len(topic'[p]) /\ MarkLeft(p, n)'
  BY DEF Settled
<1>1. Len(topic[p]) \in Nat
  BY DEF ConsumerTypeOK
<1>2. n <= Len(topic'[p])
  BY <1>1 DEF TopicsGrow, Numbers
<1>3. topic'[p][n] = topic[p][n]
  BY DEF TopicsGrow
<1>4. QED
  BY <1>2, <1>3, MarkStays


-----------------------------------------------------------------------------

\* Messages that the partitions they go to may carry.
Carried(P, ms) ==
  /\ ms \in Seq(Messages)
  /\ \A p \in P \intersect Partitions : \A i \in DOMAIN ms : ms[i] \in Content(p)

\* What a step of the pipeline is to the consumers.
Delivering ==
  \/ UNCHANGED consumerVars
  \/ \E P, ms : Carried(P, ms) /\ Produce(P, ms)
  \/ \E r \in Readers :
       \/ FetchMessage(r) \/ DeadLetter(r) \/ CommitMessages(r) \/ FailAttempt(r)
       \/ Succeed(r) /\ \E p \in Partitions, n \in Numbers :
            handling[r] = <<p, n>> /\ MarkLeft(p, n)'
  \/ \E R \in SUBSET Readers : Restart(R)

LEMMA ProducedTyped ==
  ASSUME ConsumerTypeOK(Messages), TopicsCarryTheirTypes, NEW P, NEW ms, Carried(P, ms),
         Produce(P, ms)
  PROVE  TopicsCarryTheirTypes'
<1>1. UNCHANGED <<assigned, handling>>
  BY DEF Produce, groupVars
<1>2. ASSUME NEW p \in Partitions, NEW n \in 1 .. Len(topic'[p])
      PROVE  topic'[p][n] \in Content(p)
  <2>1. topic[p] \in Seq(Messages) /\ ms \in Seq(Messages)
    BY DEF ConsumerTypeOK, Carried
  <2>2. CASE p \notin P
    BY <1>2, <2>2 DEF Produce, TopicsCarryTheirTypes
  <2>3. CASE p \in P
    <3>1. topic'[p] = topic[p] \o ms
      BY <2>3 DEF Produce
    <3>2. \/ n \in 1 .. Len(topic[p]) /\ topic'[p][n] = topic[p][n]
          \/ n - Len(topic[p]) \in DOMAIN ms /\ topic'[p][n] = ms[n - Len(topic[p])]
      BY <2>1, <3>1
    <3>3. QED
      BY <2>3, <3>2 DEF TopicsCarryTheirTypes, Carried
  <2>4. QED
    BY <2>2, <2>3
<1>3. QED
  BY <1>1, <1>2 DEF TopicsCarryTheirTypes, Busy, Content

LEMMA DeliveringKeeps ==
  ASSUME ConsumerInv(Messages, Settled), TopicsCarryTheirTypes, MarksStay, Delivering
  PROVE  ConsumerInv(Messages, Settled)' /\ TopicsCarryTheirTypes'
<1>1. ConsumerTypeOK(Messages) /\ WithinTopics
  BY DEF ConsumerInv
<1>2. PICK T : T = Settled'
  OBVIOUS
<1>3. ConsumerInv(Messages, T)' => ConsumerInv(Messages, Settled)'
  BY <1>2 DEF ConsumerInv, Behind
<1>4. deadLettered' \union dropped' \subseteq T
  BY <1>2 DEF Settled
<1>5. ASSUME UNCHANGED topic, deadLettered \subseteq deadLettered', dropped \subseteq dropped'
      PROVE  Settled \subseteq T
  <2>1. TopicsGrow /\ \A p \in Partitions : Len(topic'[p]) \in Nat
    BY <1>1, <1>5, TopicsUnchanged DEF ConsumerTypeOK
  <2>2. QED
    BY <1>1, <1>2, <1>5, <2>1, SettledGrows
<1>6. ASSUME UNCHANGED <<topic, assigned>>,
             \A r \in Readers : ~Busy(r)' \/ handling'[r] = handling[r]
      PROVE  TopicsCarryTheirTypes'
  BY <1>6 DEF TopicsCarryTheirTypes, Busy, Content
<1>7. CASE UNCHANGED consumerVars
  <2>1. UNCHANGED <<topic, assigned, handling, deadLettered, dropped>>
    BY <1>7 DEF consumerVars
  <2>2. QED
    BY <1>3, <1>5, <1>6, <1>7, <2>1, OthersKeep
<1>8. ASSUME NEW P, NEW ms, Carried(P, ms), Produce(P, ms)
      PROVE  ConsumerInv(Messages, T)' /\ TopicsCarryTheirTypes'
  <2>1. ms \in Seq(Messages)
    BY <1>8 DEF Carried
  <2>2. /\ TopicsGrow
        /\ UNCHANGED <<deadLettered, dropped>>
        /\ \A p \in Partitions : Len(topic'[p]) \in Nat
    <3>1. TopicsGrow
      BY <1>8, <2>1, ProduceKeeps
    <3>2. QED
      BY <1>1, <1>8, <2>1, <3>1 DEF Produce, ConsumerTypeOK
  <2>3. Settled \subseteq T
    BY <1>1, <1>2, <2>2, SettledGrows
  <2>4. ConsumerInv(Messages, T)'
    BY <1>8, <2>1, <2>3, ProduceKeeps
  <2>5. QED
    BY <1>1, <1>8, <2>4, ProducedTyped
<1>9. ASSUME NEW r \in Readers, FetchMessage(r)
      PROVE  ConsumerInv(Messages, T)' /\ TopicsCarryTheirTypes'
  <2>1. UNCHANGED <<topic, assigned, deadLettered, dropped>>
    BY <1>9 DEF FetchMessage
  <2>2. PICK p \in Partitions :
          assigned[p] = r /\ handling' = [handling EXCEPT ![r] = <<p, position[p] + 1>>]
    BY <1>9 DEF FetchMessage
  <2>3. /\ handling'[r] = <<p, position[p] + 1>>
        /\ \A o \in Readers \ {r} : handling'[o] = handling[o]
    BY <1>1, <2>2 DEF ConsumerTypeOK
  <2>4. TopicsCarryTheirTypes'
    BY <2>1, <2>2, <2>3 DEF TopicsCarryTheirTypes, Busy, Content
  <2>5. QED
    BY <1>5, <1>9, <2>1, <2>4, FetchKeeps
<1>10. ASSUME NEW r \in Readers, DeadLetter(r) \/ CommitMessages(r) \/ FailAttempt(r)
       PROVE  ConsumerInv(Messages, T)' /\ TopicsCarryTheirTypes'
  <2>1. UNCHANGED <<topic, assigned>> /\ deadLettered \subseteq deadLettered' /\ dropped \subseteq dropped'
    BY <1>10 DEF DeadLetter, CommitMessages, FailAttempt, groupVars
  <2>2. \A o \in Readers : ~Busy(o)' \/ handling'[o] = handling[o]
    BY <1>1, <1>10 DEF DeadLetter, CommitMessages, FailAttempt, Busy, ConsumerTypeOK
  <2>3. Settled \subseteq T
    BY <1>5, <2>1
  <2>4. CASE DeadLetter(r)
    BY <1>4, <1>6, <2>1, <2>2, <2>3, <2>4, DeadLetterKeeps
  <2>5. CASE CommitMessages(r)
    BY <1>6, <2>1, <2>2, <2>3, <2>5, CommitKeeps
  <2>6. CASE FailAttempt(r)
    BY <1>6, <2>1, <2>2, <2>3, <2>6, FailAttemptKeeps
  <2>7. QED
    BY <1>10, <2>4, <2>5, <2>6
<1>11. ASSUME NEW r \in Readers, Succeed(r), NEW p \in Partitions, NEW n \in Numbers,
              handling[r] = <<p, n>>, MarkLeft(p, n)'
       PROVE  ConsumerInv(Messages, T)' /\ TopicsCarryTheirTypes'
  <2>1. UNCHANGED <<topic, assigned, handling, deadLettered, dropped>> /\ Busy(r)
    BY <1>11 DEF Succeed, groupVars, Attempting
  <2>2. handling[r] \in T
    BY <1>1, <1>2, <1>11, <2>1, EventAtHand DEF Settled
  <2>3. QED
    BY <1>5, <1>6, <1>11, <2>1, <2>2, SucceedKeeps
<1>12. ASSUME NEW R \in SUBSET Readers, Restart(R)
       PROVE  ConsumerInv(Messages, T)' /\ TopicsCarryTheirTypes'
  <2>1. /\ UNCHANGED <<topic, assigned, deadLettered>>
        /\ dropped \subseteq dropped'
        /\ \A r \in Readers : ~Busy(r)' \/ handling'[r] = handling[r]
    BY <1>1, <1>12, RestartingStays DEF Restart
  <2>2. Settled \subseteq T /\ dropped' \subseteq T
    BY <1>4, <1>5, <2>1
  <2>3. ConsumerInv(Messages, T)'
    BY <1>12, <2>2, CrashKeeps, ShutdownKeeps DEF Restart
  <2>4. QED
    BY <1>6, <2>1, <2>3
<1>13. QED
  BY <1>3, <1>7, <1>8, <1>9, <1>10, <1>11, <1>12 DEF Delivering

LEMMA TypesDiffer ==
  /\ SourceTypes \intersect AlertTypes = {}
  /\ SourceTypes \intersect NotificationTypes = {}
  /\ AlertTypes \intersect NotificationTypes = {}
  /\ SourceTypes \union AlertTypes \union NotificationTypes = DOMAIN Subscribed
<1>1. EventTypes = DOMAIN Subscribed
  BY EventsAssumption
<1>2. /\ SourceTypes \intersect AlertTypes = {}
      /\ SourceTypes \intersect NotificationTypes = {}
      /\ AlertTypes \intersect NotificationTypes = {}
  BY DEF SourceTypes, AlertTypes, NotificationTypes
<1>3. QED
  BY <1>1, <1>2 DEF EventTypes

LEMMA SourceEventsCarried ==
  ASSUME NEW type \in SourceTypes, NEW ms \in Seq(SourceEvent)
  PROVE  Carried(Subscribed[type], ms)
<1>1. type \in DOMAIN Subscribed /\ type \notin AlertTypes
  BY TypesDiffer
<1>2. SourceEvent \subseteq Messages
  BY DEF Messages
<1>3. ms \in Seq(Messages)
  BY <1>2
<1>4. \A p \in Subscribed[type] \intersect Partitions : SourceEvent \subseteq Content(p)
  BY <1>1, <1>2, PipelineAssumption DEF Content
<1>5. \A i \in DOMAIN ms : ms[i] \in SourceEvent
  OBVIOUS
<1>6. QED
  BY <1>3, <1>4, <1>5 DEF Carried

LEMMA AlertEventCarried ==
  ASSUME NEW e \in AlertEvent
  PROVE  Carried(Subscribed[e.type], <<e>>)
<1>1. e.type \in AlertTypes
  BY DEF AlertEvent
<1>2. e.type \in DOMAIN Subscribed /\ e.type \notin SourceTypes
  BY <1>1, TypesDiffer
<1>3. AlertEvent \subseteq Messages
  BY DEF Messages
<1>4. \A p \in Subscribed[e.type] \intersect Partitions : AlertEvent \subseteq Content(p)
  BY <1>2, <1>3, PipelineAssumption DEF Content
<1>5. <<e>> \in Seq(Messages) /\ \A i \in DOMAIN <<e>> : <<e>>[i] = e
  BY <1>3
<1>6. QED
  BY <1>4, <1>5 DEF Carried

LEMMA NotificationEventCarried ==
  ASSUME NEW e \in NotificationEvent
  PROVE  Carried(Subscribed[e.type], <<e>>)
<1>1. e.type \in NotificationTypes
  BY DEF NotificationEvent
<1>2. e.type \in DOMAIN Subscribed /\ e.type \notin SourceTypes /\ e.type \notin AlertTypes
  BY <1>1, TypesDiffer
<1>3. NotificationEvent \subseteq Messages
  BY DEF Messages
<1>4. \A p \in Subscribed[e.type] \intersect Partitions : NotificationEvent \subseteq Content(p)
  BY <1>2, <1>3, PipelineAssumption DEF Content
<1>5. <<e>> \in Seq(Messages) /\ \A i \in DOMAIN <<e>> : <<e>>[i] = e
  BY <1>3
<1>6. QED
  BY <1>4, <1>5 DEF Carried

LEMMA ProducingKeepsAttempts ==
  ASSUME ConsumerInv(Messages, Settled), NEW P, NEW ms, Carried(P, ms), Produce(P, ms)
  PROVE  Delivering /\ AttemptsStay(Readers)
<1>1. TopicsGrow
  BY ProduceKeeps DEF Carried
<1>2. AttemptsStay(Readers)
  BY <1>1, ProducingStays DEF Produce, ConsumerInv
<1>3. QED
  BY <1>2 DEF Delivering

-----------------------------------------------------------------------------
(***************************************************************************)
(* Surveillance                                                            *)
(***************************************************************************)

\* The rules that look at an event are rules, and as long as nobody calls
\* the engine uses the environment's settings.
LEMMA RulesAreRules ==
  ASSUME NEW e \in SourceEvent
  PROVE  RulesFor(e) \in SUBSET Rules /\ EnabledRules(e) \in SUBSET Rules
<1>1. e.type \in SourceTypes
  BY DEF SourceEvent
<1>2. RulesFor(e) \in SUBSET Rules
  BY <1>1, SurveillanceAssumption DEF RulesFor, SourceTypes
<1>3. QED
  BY <1>2 DEF EnabledRules

LEMMA FirstSettingsHold ==
  ASSUME NothingWasChanged, ~called, NEW t \in Tenants, NEW rule \in Rules
  PROVE  RuleSetting(t, rule) = Fallback[rule]
BY RuleConfigsAssumption DEF NothingWasChanged, RuleSetting

LEMMA FirstIsOne ==
  ASSUME NEW rules, rules # {}
  PROVE  FirstMatch(rules) \in rules
<1>1. \E rule \in rules : "LargeOrderRule" \in rules => rule = "LargeOrderRule"
  OBVIOUS
<1>2. QED
  BY <1>1 DEF FirstMatch

\* Whom an alert is about.
LEMMA KeyTyped ==
  ASSUME NEW e \in SourceEvent, NEW rule \in Rules, rule \in CountingRules => e.user # NoOne
  PROVE  KeyOf(rule, e) \in Key
<1>1. /\ e.tenant \in Tenants /\ e.entity \in STRING /\ e.type \in SourceTypes
      /\ rule \in CountingRules => e.user \in Users
  BY DEF SourceEvent
<1>2. Users \subseteq STRING
  BY EventsAssumption
<1>3. (IF rule \in CountingRules THEN e.user ELSE e.entity) \in STRING
  BY <1>1, <1>2
<1>4. QED
  BY <1>1, <1>3 DEF KeyOf, Key

\* A reader whose step this is not.
LEMMA RaisingStays ==
  ASSUME NEW r \in SurveillanceReaders, Raising(r), work'[r] = work[r],
         work[r].evaluated => SameAttempt(r), AlertsStay, called => called'
  PROVE  Raising(r)'
<1>1. CASE ~work[r].evaluated
  BY <1>1 DEF Raising
<1>2. CASE work[r].evaluated
  <2>1. Attempting(r)' = Attempting(r) /\ Source(r)' = Source(r)
    BY <1>2 DEF SameAttempt, Attempting, Busy, Source
  <2>2. PICK e : e = Source(r)
    OBVIOUS
  <2>3. work[r].raised # 0 =>
          /\ work[r].raised \in DOMAIN alerts'
          /\ alerts'[work[r].raised].key = alerts[work[r].raised].key
    BY DEF Raising, AlertsStay
  <2>4. \A rule : HasAlert(rule, e) => HasAlert(rule, e)'
    BY AlertStays
  <2>5. Breaches(e)' = Breaches(e) /\ \A rule : KeyOf(rule, e)' = KeyOf(rule, e)
    BY DEF Breaches, RulesFor, KeyOf
  <2>6. QED
    BY <1>2, <2>1, <2>2, <2>3, <2>4, <2>5 DEF Raising
<1>3. QED
  BY <1>1, <1>2

LEMMA NothingToRaise ==
  ASSUME NEW r \in SurveillanceReaders,
         ~work'[r].evaluated, work'[r].matched = {}, work'[r].raised = 0
  PROVE  Raising(r)'
BY DEF Raising

WorkRow == [matched : SUBSET Rules, raised : Nat, evaluated : BOOLEAN]

LEMMA WorkSet ==
  ASSUME SurveillanceTypeOK, NEW r \in SurveillanceReaders,
         NEW rec \in WorkRow,
         work' = [work EXCEPT ![r] = rec]
  PROVE  /\ work' \in [SurveillanceReaders -> WorkRow]
         /\ work'[r] = rec
         /\ \A o \in SurveillanceReaders : o # r => work'[o] = work[o]
BY DEF SurveillanceTypeOK, WorkRow

LEMMA MatchesMeans ==
  ASSUME NEW rule, NEW e, NEW kept
  PROVE  /\ rule = "LargeOrderRule" /\ e.value > RuleSetting(e.tenant, rule).threshold =>
              Matches(rule, e, kept)
         /\ rule = "RiskScoreBreachRule" /\ e.value >= RuleSetting(e.tenant, rule).threshold =>
              Matches(rule, e, kept)
         /\ rule \in CountingRules /\ Matches(rule, e, kept) => e.user # NoOne
<1>1. CASE rule = "LargeOrderRule"
  BY <1>1 DEF Matches, CountingRules
<1>2. CASE rule = "RiskScoreBreachRule"
  BY <1>2 DEF Matches, CountingRules
<1>3. CASE rule \in CountingRules
  BY <1>3 DEF Matches, CountingRules
<1>4. QED
  BY <1>1, <1>2, <1>3

\* An event is evaluated: each threshold that it breaches is matched.
LEMMA EvaluateKeeps ==
  ASSUME Delivered, Surveyed, NothingWasChanged, called => called',
         NEW r \in SurveillanceReaders, Evaluate(r)
  PROVE  Surveyed'
<1> DEFINE held(e) == IF Counted(e) = {} THEN 0
                      ELSE recent[<<CHOOSE rule \in Counted(e) : TRUE, e.user>>]
<1>1. PICK e : e = Source(r)
  OBVIOUS
<1>2. e \in SourceEvent /\ e.valid /\ Attempting(r)
  BY <1>1, EventAtHand, PipelineAssumption
     DEF Evaluate, Evaluating, Attempting, Source, Delivered, ConsumerInv
<1>3. PICK kept \in 0 .. held(e) :
        /\ work' = [work EXCEPT ![r] =
             [matched |-> {rule \in EnabledRules(e) : Matches(rule, e, kept)},
              raised |-> 0, evaluated |-> TRUE]]
        /\ recent' = Appended(e, kept)
        /\ lastPrice' =
             IF "AbnormalPriceMovementRule" \in EnabledRules(e)
                /\ e.entity # "" /\ e.value > 0
             THEN [lastPrice EXCEPT ![e.entity] = e.value] ELSE lastPrice
  BY <1>1 DEF Evaluate
<1>4. UNCHANGED <<topic, handling, stage, alerts, announcing, unannounced>>
  BY DEF Evaluate, consumerVars
<1>5. held(e) \in Nat
  <2>1. CASE Counted(e) # {}
    <3>1. PICK rule \in Counted(e) : rule = CHOOSE first \in Counted(e) : TRUE
      BY <2>1
    <3>2. rule \in CountingRules /\ e.user \in Users
      BY <1>2, <3>1 DEF Counted, SourceEvent
    <3>3. held(e) = recent[<<rule, e.user>>]
      BY <2>1, <3>1
    <3>4. QED
      BY <3>2, <3>3 DEF Surveyed, SurveillanceTypeOK
  <2>2. QED
    BY <2>1
<1> HIDE DEF held
<1>6. kept \in Nat
  BY <1>5
<1>7. recent' \in [CountingRules \X Users -> Nat]
  <2>1. PICK more \in Nat : more = kept + 1
    BY <1>6
  <2>2. recent \in [CountingRules \X Users -> Nat]
    BY DEF Surveyed, SurveillanceTypeOK
  <2>3. recent' = [c \in CountingRules \X Users |->
                     IF c[1] \in Counted(e) /\ c[2] = e.user THEN more ELSE recent[c]]
    BY <1>3, <2>1 DEF Appended
  <2>4. QED
    BY <2>2, <2>3
<1>8. lastPrice' \in [Symbols -> Nat]
  <2>1. e.value \in Nat
    BY <1>2 DEF SourceEvent
  <2>2. QED
    BY <1>3, <2>1 DEF Surveyed, SurveillanceTypeOK
<1> DEFINE matched == {rule \in EnabledRules(e) : Matches(rule, e, kept)}
<1>9. matched \in SUBSET Rules
  BY <1>2, RulesAreRules
<1>10. ~called => Breaches(e) \subseteq matched
  <2> SUFFICES ASSUME ~called, NEW rule \in Breaches(e)
               PROVE  rule \in matched
    OBVIOUS
  <2>1. /\ rule \in RulesFor(e) /\ rule \in Rules /\ e.tenant \in Tenants
    BY <1>2, RulesAreRules DEF Breaches, SourceEvent
  <2>2. RuleSetting(e.tenant, rule) = Fallback[rule]
    BY <2>1, FirstSettingsHold
  <2>3. rule \in EnabledRules(e)
    BY <2>1, <2>2 DEF Breaches, EnabledRules
  <2>4. Matches(rule, e, kept)
    BY <2>2, MatchesMeans DEF Breaches
  <2>5. QED
    BY <2>3, <2>4
<1>11. matched \intersect CountingRules # {} => e.user # NoOne
  BY MatchesMeans
<1>12. PICK m \in SUBSET Rules :
         /\ m = matched
         /\ ~called => Breaches(e) \subseteq m
         /\ m \intersect CountingRules # {} => e.user # NoOne
  BY <1>9, <1>10, <1>11
<1>13. work' = [work EXCEPT ![r] = [matched |-> m, raised |-> 0, evaluated |-> TRUE]]
  BY <1>3, <1>12
<1>14. /\ work' \in [SurveillanceReaders -> WorkRow]
       /\ work'[r].matched = m /\ work'[r].raised = 0 /\ work'[r].evaluated = TRUE
       /\ \A o \in SurveillanceReaders : o # r => work'[o] = work[o]
  <2>1. PICK rec \in WorkRow : rec = [matched |-> m, raised |-> 0, evaluated |-> TRUE]
    BY DEF WorkRow
  <2>2. work' = [work EXCEPT ![r] = rec]
    BY <1>13, <2>1
  <2>3. /\ work' \in [SurveillanceReaders -> WorkRow]
        /\ work'[r] = rec
        /\ \A o \in SurveillanceReaders : o # r => work'[o] = work[o]
    BY <2>2, WorkSet DEF Surveyed
  <2>4. QED
    BY <2>1, <2>3
<1>15. SurveillanceTypeOK'
  BY <1>4, <1>7, <1>8, <1>14 DEF Surveyed, SurveillanceTypeOK, WorkRow
<1>16. Raising(r)'
  <2>1. Source(r)' = e /\ Attempting(r)' /\ Breaches(e)' = Breaches(e)
    BY <1>1, <1>2, <1>4 DEF Source, Message, Attempting, Busy, Breaches, RulesFor
  <2>2. ~called' => Breaches(e) \subseteq m
    BY <1>12
  <2>3. QED
    BY <1>2, <1>12, <1>14, <2>1, <2>2 DEF Raising
<1>17. AlertsStay
  BY <1>4 DEF AlertsStay
<1>18. ASSUME NEW o \in SurveillanceReaders, o # r PROVE Raising(o)'
  <2>1. SameAttempt(o) /\ Raising(o) /\ work'[o] = work[o]
    BY <1>4, <1>14, <1>18 DEF SameAttempt, Message, Surveyed
  <2>2. QED
    BY <1>17, <2>1, RaisingStays
<1>19. AnnouncingAnAlert'
  BY <1>4 DEF Surveyed, AnnouncingAnAlert
<1>20. QED
  BY <1>15, <1>16, <1>18, <1>19 DEF Surveyed

\* A match is done with when it has its alert.
LEMMA NextMatchRaises ==
  ASSUME Surveyed, NEW r \in SurveillanceReaders, work[r].evaluated, work[r].matched # {},
         work' = NextMatch(r), SameAttempt(r), AlertsStay, called => called',
         Source(r).entity # "" => HasAlert(FirstMatch(work[r].matched), Source(r))
  PROVE  /\ work' \in [SurveillanceReaders -> WorkRow]
         /\ Raising(r)'
         /\ \A o \in SurveillanceReaders : o # r => work'[o] = work[o]
<1>1. PICK e : e = Source(r)
  OBVIOUS
<1>2. PICK m \in SUBSET Rules : m = work[r].matched
  BY DEF Surveyed, SurveillanceTypeOK
<1>3. PICK rec \in WorkRow :
        rec = [matched |-> m \ {FirstMatch(m)}, raised |-> 0, evaluated |-> TRUE]
  BY DEF WorkRow
<1>4. work' = [work EXCEPT ![r] = rec]
  BY <1>2, <1>3 DEF NextMatch
<1>5. /\ work' \in [SurveillanceReaders -> WorkRow]
      /\ work'[r] = rec
      /\ \A o \in SurveillanceReaders : o # r => work'[o] = work[o]
  BY <1>4, WorkSet DEF Surveyed, WorkRow
<1>6. /\ work'[r].matched = m \ {FirstMatch(m)}
      /\ work'[r].raised = 0
      /\ work'[r].evaluated
  <2>1. PICK rest : rest = m \ {FirstMatch(m)}
    OBVIOUS
  <2>2. rec = [matched |-> rest, raised |-> 0, evaluated |-> TRUE]
    BY <1>3, <2>1
  <2>3. rec.matched = rest /\ rec.raised = 0 /\ rec.evaluated
    BY <2>2
  <2>4. QED
    BY <1>5, <2>1, <2>3
<1>7. Attempting(r) /\ e.valid
  BY <1>1 DEF Surveyed, Raising
<1>8. Attempting(r)' /\ Source(r)' = e
  BY <1>1, <1>7 DEF SameAttempt, Attempting, Busy, Source
<1>9. m \intersect CountingRules # {} => e.user # NoOne
  BY <1>1, <1>2 DEF Surveyed, Raising
<1>10. ~called /\ e.entity # "" =>
         \A rule \in Breaches(e) : rule \in m \/ HasAlert(rule, e)
  BY <1>1, <1>2 DEF Surveyed, Raising
<1>11. e.entity # "" => HasAlert(FirstMatch(m), e)
  BY <1>1, <1>2
<1>12. Breaches(e)' = Breaches(e) /\ \A rule : HasAlert(rule, e) => HasAlert(rule, e)'
  BY AlertStays DEF Breaches, RulesFor
<1>13. ~called' /\ e.entity # "" =>
         \A rule \in Breaches(e)' : rule \in m \ {FirstMatch(m)} \/ HasAlert(rule, e)'
  BY <1>10, <1>11, <1>12
<1>14. Raising(r)'
  BY <1>6, <1>7, <1>8, <1>9, <1>13 DEF Raising
<1>15. QED
  BY <1>5, <1>14

\* The other readers' work, and the analysts', is not disturbed.
LEMMA OthersRaise ==
  ASSUME Surveyed, NEW r \in SurveillanceReaders, Raising(r)', AlertsStay, called => called',
         \A o \in SurveillanceReaders : o # r =>
           work'[o] = work[o] /\ (work[o].evaluated => SameAttempt(o))
  PROVE  \A o \in SurveillanceReaders : Raising(o)'
<1> SUFFICES ASSUME NEW o \in SurveillanceReaders, o # r PROVE Raising(o)'
  OBVIOUS
<1>1. QED
  BY RaisingStays DEF Surveyed

LEMMA AnnouncingStays ==
  ASSUME AnnouncingAnAlert, AlertsStay, UNCHANGED announcing
  PROVE  AnnouncingAnAlert'
BY DEF AnnouncingAnAlert, AlertsStay

\* What the reader knows of the match it raises an alert for.
LEMMA MatchAtHand ==
  ASSUME Delivered, Surveyed, NEW r \in SurveillanceReaders, work[r].matched # {}
  PROVE  /\ work[r].evaluated
         /\ Source(r) \in SourceEvent
         /\ FirstMatch(work[r].matched) \in Rules
         /\ KeyOf(FirstMatch(work[r].matched), Source(r)) \in Key
<1>1. work[r].evaluated
  BY DEF Surveyed, Raising
<1>2. Attempting(r)
  BY <1>1 DEF Surveyed, Raising
<1>3. PICK e \in SourceEvent : e = Source(r)
  BY <1>2, EventAtHand, PipelineAssumption DEF Attempting, Source, Delivered, ConsumerInv
<1>4. PICK m \in SUBSET Rules : m = work[r].matched
  BY DEF Surveyed, SurveillanceTypeOK
<1>5. FirstMatch(m) \in m
  BY <1>4, FirstIsOne
<1>6. FirstMatch(m) \in CountingRules => e.user # NoOne
  BY <1>3, <1>4, <1>5 DEF Surveyed, Raising
<1>7. QED
  BY <1>1, <1>3, <1>4, <1>5, <1>6, KeyTyped

LEMMA RaiseKeeps ==
  ASSUME Delivered, Surveyed, AlertsStay, called => called',
         NEW r \in SurveillanceReaders, RaiseAlert(r)
  PROVE  Surveyed'
<1>1. PICK e : e = Source(r)
  OBVIOUS
<1>2. PICK m : m = work[r].matched
  OBVIOUS
<1>3. PICK key : key = KeyOf(FirstMatch(m), e)
  OBVIOUS
<1>4. /\ work[r].evaluated /\ m # {} /\ e \in SourceEvent /\ key \in Key
  BY <1>1, <1>2, <1>3, MatchAtHand DEF RaiseAlert
<1>5. UNCHANGED <<topic, handling, stage, lastPrice, recent, announcing, unannounced>>
  BY DEF RaiseAlert, consumerVars, engineVars
<1>6. \A o \in Readers : SameAttempt(o)
  BY <1>5 DEF SameAttempt, Message
<1>7. r \in Readers /\ SurveillanceReaders \subseteq Readers
  BY PipelineAssumption
<1>8. \A i \in DOMAIN alerts : alerts[i].key = key => HasAlert(FirstMatch(m), e)
  BY <1>3 DEF HasAlert
<1>9. CASE DuplicateAlert(key)
  <2>1. work' = NextMatch(r) /\ UNCHANGED alerts
    BY <1>1, <1>2, <1>3, <1>9 DEF RaiseAlert
  <2>2. HasAlert(FirstMatch(work[r].matched), Source(r))
    BY <1>1, <1>2, <1>8, <1>9 DEF DuplicateAlert
  <2>3. /\ work' \in [SurveillanceReaders -> WorkRow]
        /\ Raising(r)'
        /\ \A o \in SurveillanceReaders : o # r => work'[o] = work[o]
    BY <1>2, <1>4, <1>6, <1>7, <2>1, <2>2, NextMatchRaises
  <2>4. \A o \in SurveillanceReaders : Raising(o)'
    BY <1>6, <1>7, <2>3, OthersRaise
  <2>5. SurveillanceTypeOK'
    BY <1>5, <2>1, <2>3 DEF Surveyed, SurveillanceTypeOK, WorkRow
  <2>6. QED
    BY <1>5, <2>4, <2>5, AnnouncingStays DEF Surveyed
<1>10. CASE ~DuplicateAlert(key)
  <2>1. PICK row : row = [key |-> key, user |-> e.user, status |-> "OPEN"]
    OBVIOUS
  <2>2. alerts' = Append(alerts, row) /\ work' = [work EXCEPT ![r].raised = Len(alerts')]
    BY <1>1, <1>2, <1>3, <1>10, <2>1 DEF RaiseAlert
  <2>3. row \in Alert /\ row.key = key
    BY <1>4, <2>1 DEF Alert, AlertStatuses, SourceEvent
  <2>4. /\ alerts' \in Seq(Alert)
        /\ Len(alerts') \in Nat \ {0}
        /\ Len(alerts') \in DOMAIN alerts'
        /\ alerts'[Len(alerts')] = row
    <3>1. alerts \in Seq(Alert)
      BY DEF Surveyed, SurveillanceTypeOK
    <3>2. QED
      BY <2>2, <2>3, <3>1, OneMoreRow
  <2>5. PICK n \in Nat \ {0} : n = Len(alerts')
    BY <2>4
  <2>6. work[r] \in WorkRow
    BY DEF Surveyed, SurveillanceTypeOK, WorkRow
  <2>7. PICK rec \in WorkRow : rec = [work[r] EXCEPT !.raised = n]
    BY <2>6 DEF WorkRow
  <2>8. /\ rec.matched = m
        /\ rec.raised = n
        /\ rec.evaluated = work[r].evaluated
    BY <1>2, <2>6, <2>7 DEF WorkRow
  <2>9. work' = [work EXCEPT ![r] = rec]
    BY <2>2, <2>5, <2>7
  <2>10. /\ work' \in [SurveillanceReaders -> WorkRow]
         /\ work'[r] = rec
         /\ \A o \in SurveillanceReaders : o # r => work'[o] = work[o]
    BY <2>9, WorkSet DEF Surveyed, WorkRow
  <2>11. Raising(r)'
    <3>1. /\ Attempting(r) /\ e.valid
          /\ m \intersect CountingRules # {} => e.user # NoOne
          /\ ~called /\ e.entity # "" => \A rule \in Breaches(e) : rule \in m \/ HasAlert(rule, e)
      BY <1>1, <1>2, <1>4 DEF Surveyed, Raising
    <3>2. Attempting(r)' /\ Source(r)' = e
      BY <1>1, <1>6, <1>7, <3>1 DEF SameAttempt, Attempting, Busy, Source
    <3>3. Breaches(e)' = Breaches(e) /\ \A rule : HasAlert(rule, e) => HasAlert(rule, e)'
      BY AlertStays DEF Breaches, RulesFor
    <3>4. KeyOf(FirstMatch(m), e)' = key
      BY <1>3 DEF KeyOf
    <3>5. /\ work'[r].matched = m
          /\ work'[r].raised = n
          /\ work'[r].evaluated
      BY <1>4, <2>8, <2>10
    <3>6. n # 0 /\ n \in DOMAIN alerts' /\ alerts'[n].key = key
      BY <2>3, <2>4, <2>5
    <3>7. ~called' /\ e.entity # "" =>
            \A rule \in Breaches(e)' : rule \in m \/ HasAlert(rule, e)'
      BY <3>1, <3>3
    <3>8. QED
      BY <1>4, <3>1, <3>2, <3>4, <3>5, <3>6, <3>7 DEF Raising
  <2>12. \A o \in SurveillanceReaders : Raising(o)'
    BY <1>6, <1>7, <2>10, <2>11, OthersRaise
  <2>13. SurveillanceTypeOK'
    BY <1>5, <2>4, <2>10 DEF Surveyed, SurveillanceTypeOK, WorkRow
  <2>14. QED
    BY <1>5, <2>12, <2>13, AnnouncingStays DEF Surveyed
<1>11. QED
  BY <1>9, <1>10

LEMMA AnnouncementTyped ==
  ASSUME SurveillanceTypeOK, NEW type \in AlertTypes, NEW i \in DOMAIN alerts,
         NEW status \in AlertStatuses
  PROVE  Announcement(type, i, status) \in AlertEvent
<1>1. alerts[i] \in Alert /\ i \in Nat
  BY DEF SurveillanceTypeOK
<1>2. alerts[i].key \in Key /\ alerts[i].user \in Users \union {NoOne}
  BY <1>1 DEF Alert
<1>3. alerts[i].key.tenant \in Tenants
  BY <1>2 DEF Key
<1>4. QED
  BY <1>1, <1>2, <1>3 DEF Announcement, AlertEvent

\* The alert is published, or not; the next match is looked at.
LEMMA AnnouncedKeeps ==
  ASSUME Delivered, Surveyed, AlertsStay, called => called',
         NEW r \in SurveillanceReaders, work[r].raised # 0, work' = NextMatch(r),
         AttemptsStay(Readers),
         UNCHANGED <<lastPrice, recent, alerts, announcing>>, unannounced' \in SUBSET Nat
  PROVE  Surveyed'
<1>1. /\ work[r].matched # {}
      /\ work[r].raised \in DOMAIN alerts
      /\ alerts[work[r].raised].key = KeyOf(FirstMatch(work[r].matched), Source(r))
  BY DEF Surveyed, Raising
<1>2. work[r].evaluated /\ HasAlert(FirstMatch(work[r].matched), Source(r))
  BY <1>1, MatchAtHand DEF HasAlert
<1>3. \A o \in SurveillanceReaders : o \in Readers /\ (work[o].evaluated => SameAttempt(o))
  BY PipelineAssumption DEF Surveyed, Raising, AttemptsStay
<1>4. /\ work' \in [SurveillanceReaders -> WorkRow]
      /\ Raising(r)'
      /\ \A o \in SurveillanceReaders : o # r => work'[o] = work[o]
  BY <1>1, <1>2, <1>3, NextMatchRaises
<1>5. \A o \in SurveillanceReaders : Raising(o)'
  BY <1>3, <1>4, OthersRaise
<1>6. SurveillanceTypeOK'
  BY <1>4 DEF Surveyed, SurveillanceTypeOK, WorkRow
<1>7. QED
  BY <1>5, <1>6, AnnouncingStays DEF Surveyed

LEMMA PublishKeeps ==
  ASSUME Delivered, Surveyed, AlertsStay, called => called',
         NEW r \in SurveillanceReaders, PublishAlert(r)
  PROVE  Surveyed' /\ Delivering /\ AttemptsStay(Readers)
<1>1. PICK e : e = Announcement("surveillance.alert.created", work[r].raised, "OPEN")
  OBVIOUS
<1>2. /\ work[r].raised # 0 /\ work' = NextMatch(r)
      /\ Publish(e)
      /\ UNCHANGED <<lastPrice, recent, alerts, announcing, unannounced>>
  BY <1>1 DEF PublishAlert, engineVars
<1>3. e \in AlertEvent
  <2>1. work[r].raised \in DOMAIN alerts
    BY <1>2 DEF Surveyed, Raising
  <2>2. "surveillance.alert.created" \in AlertTypes /\ "OPEN" \in AlertStatuses
    BY DEF AlertTypes, AlertStatuses
  <2>3. QED
    BY <1>1, <2>1, <2>2, AnnouncementTyped DEF Surveyed
<1>4. Delivering /\ AttemptsStay(Readers)
  BY <1>2, <1>3, AlertEventCarried, ProducingKeepsAttempts DEF Publish, Delivered
<1>5. unannounced' \in SUBSET Nat
  BY <1>2 DEF Surveyed, SurveillanceTypeOK
<1>6. Surveyed'
  BY <1>2, <1>4, <1>5, AnnouncedKeeps
<1>7. QED
  BY <1>4, <1>6

LEMMA PublishFailsKeeps ==
  ASSUME Delivered, Surveyed, AlertsStay, called => called',
         NEW r \in SurveillanceReaders, PublishAlertFails(r)
  PROVE  Surveyed' /\ Delivering /\ AttemptsStay(Readers)
<1>1. /\ work[r].raised # 0 /\ work' = NextMatch(r)
      /\ UNCHANGED <<consumerVars, lastPrice, recent, alerts, announcing>>
      /\ unannounced' = unannounced \union {work[r].raised}
  BY DEF PublishAlertFails, engineVars
<1>2. Delivering /\ AttemptsStay(Readers)
  BY <1>1 DEF Delivering, AttemptsStay, SameAttempt, Message, consumerVars
<1>3. unannounced' \in SUBSET Nat
  BY <1>1 DEF Surveyed, SurveillanceTypeOK
<1>4. Surveyed'
  BY <1>1, <1>2, <1>3, AnnouncedKeeps
<1>5. QED
  BY <1>2, <1>4

\* An attempt that ends leaves nothing to raise.
LEMMA WorkForgotten ==
  ASSUME Delivered, Surveyed, AlertsStay, called => called',
         NEW r \in SurveillanceReaders, work' = [work EXCEPT ![r] = NoWork],
         AttemptsStay(Readers \ {r}),
         UNCHANGED <<lastPrice, recent, alerts, announcing, unannounced>>
  PROVE  Surveyed'
<1>1. NoWork \in WorkRow /\ ~NoWork.evaluated /\ NoWork.matched = {} /\ NoWork.raised = 0
  BY DEF NoWork, WorkRow
<1>2. PICK rec \in WorkRow : rec = NoWork
  BY <1>1
<1>3. /\ work' \in [SurveillanceReaders -> WorkRow]
      /\ work'[r] = rec
      /\ \A o \in SurveillanceReaders : o # r => work'[o] = work[o]
  BY <1>2, WorkSet DEF Surveyed, WorkRow
<1>4. Raising(r)'
  BY <1>1, <1>2, <1>3, NothingToRaise
<1>5. \A o \in SurveillanceReaders : o # r => (work[o].evaluated => SameAttempt(o))
  BY PipelineAssumption DEF Surveyed, Raising, AttemptsStay
<1>6. \A o \in SurveillanceReaders : Raising(o)'
  BY <1>3, <1>4, <1>5, OthersRaise
<1>7. SurveillanceTypeOK'
  BY <1>3 DEF Surveyed, SurveillanceTypeOK, WorkRow
<1>8. QED
  BY <1>6, <1>7, AnnouncingStays DEF Surveyed

\* An event whose matches all have their alerts has left its mark.
LEMMA SourceProcessedKeeps ==
  ASSUME Delivered, Surveyed, MarksStay,
         NEW r \in SurveillanceReaders, SourceProcessed(r)
  PROVE  Surveyed' /\ Delivering /\ AttemptsStay(Readers \ {r})
<1>1. /\ Attempting(r) /\ Succeed(r)
      /\ work[r].evaluated /\ work[r].matched = {}
      /\ work' = [work EXCEPT ![r] = NoWork]
      /\ UNCHANGED <<topic, lastPrice, recent, alerts, announcing, unannounced>>
  BY DEF SourceProcessed, Evaluating, Succeed, engineVars
<1>2. r \in Readers
  BY PipelineAssumption
<1>3. AttemptsStay(Readers \ {r})
  BY <1>1, <1>2, AttemptingStays DEF Delivered, ConsumerInv
<1>4. Surveyed'
  BY <1>1, <1>3, WorkForgotten DEF MarksStay
<1>5. PICK p \in Partitions, n \in Numbers :
        handling[r] = <<p, n>> /\ ReaderOf[p] = r
  BY <1>1, <1>2, EventAtHand DEF Attempting, Delivered, ConsumerInv
<1>6. MarkLeft(p, n)
  <2>1. topic[p][n] = Source(r)
    BY <1>5 DEF Source, Message
  <2>2. ~called /\ Source(r).entity # "" => \A rule \in Breaches(Source(r)) : HasAlert(rule, Source(r))
    BY <1>1 DEF Surveyed, Raising
  <2>3. r \notin NotificationReaders /\ r \notin AuditReaders
    BY PipelineAssumption
  <2>4. QED
    BY <1>5, <2>1, <2>2, <2>3 DEF MarkLeft
<1>7. MarkLeft(p, n)'
  BY <1>1, <1>6, MarkStays
<1>8. Delivering
  BY <1>1, <1>2, <1>5, <1>7 DEF Delivering
<1>9. QED
  BY <1>3, <1>4, <1>8

LEMMA SurveillanceErrorKeeps ==
  ASSUME Delivered, Surveyed, MarksStay,
         NEW r \in SurveillanceReaders, SurveillanceDatabaseError(r)
  PROVE  Surveyed' /\ Delivering /\ AttemptsStay(Readers \ {r})
<1>1. /\ FailAttempt(r)
      /\ work' = [work EXCEPT ![r] = NoWork]
      /\ UNCHANGED <<lastPrice, recent, alerts, announcing, unannounced>>
  BY DEF SurveillanceDatabaseError, engineVars
<1>2. r \in Readers
  BY PipelineAssumption
<1>3. AttemptsStay(Readers \ {r})
  BY <1>1, <1>2, AttemptingStays DEF Delivered, ConsumerInv
<1>4. Surveyed'
  BY <1>1, <1>3, WorkForgotten DEF MarksStay
<1>5. QED
  BY <1>1, <1>2, <1>3, <1>4 DEF Delivering

\* Steps that leave the service's own state alone.
LEMMA SurveillanceUntouched ==
  ASSUME Surveyed, called => called', UNCHANGED surveillanceVars,
         \A r \in SurveillanceReaders : work[r].evaluated => SameAttempt(r)
  PROVE  Surveyed'
<1>1. UNCHANGED <<lastPrice, recent, work, alerts, announcing, unannounced>>
  BY DEF surveillanceVars, engineVars
<1>2. AlertsStay
  BY <1>1 DEF AlertsStay
<1>3. \A r \in SurveillanceReaders : Raising(r)'
  BY <1>1, <1>2, RaisingStays DEF Surveyed
<1>4. SurveillanceTypeOK'
  BY <1>1 DEF Surveyed, SurveillanceTypeOK
<1>5. QED
  BY <1>1, <1>2, <1>3, <1>4, AnnouncingStays DEF Surveyed

LEMMA RejectKeeps ==
  ASSUME Delivered, Surveyed, MarksStay, NEW r \in SurveillanceReaders, RejectSource(r)
  PROVE  Surveyed' /\ Delivering /\ AttemptsStay(Readers \ {r})
<1>1. FailAttempt(r) /\ ~Source(r).valid /\ UNCHANGED surveillanceVars
  BY DEF RejectSource
<1>2. r \in Readers
  BY PipelineAssumption
<1>3. AttemptsStay(Readers \ {r})
  BY <1>1, <1>2, AttemptingStays DEF Delivered, ConsumerInv
<1>4. \A o \in SurveillanceReaders : work[o].evaluated => SameAttempt(o)
  BY <1>1, <1>3, PipelineAssumption DEF Surveyed, Raising, AttemptsStay
<1>5. Surveyed'
  BY <1>1, <1>4, SurveillanceUntouched DEF MarksStay
<1>6. QED
  BY <1>1, <1>2, <1>3, <1>5 DEF Delivering

\* The analysts.
LEMMA ChangeKeeps ==
  ASSUME Surveyed, AlertsStay, called => called', NEW a \in Analysts,
         NEW i \in DOMAIN alerts, NEW status \in AlertStatuses \ {"OPEN"}, ChangeAlert(a, i, status)
  PROVE  Surveyed'
<1>1. /\ alerts' = [alerts EXCEPT ![i].status = status]
      /\ announcing' = [announcing EXCEPT ![a] = <<i, status>>]
      /\ UNCHANGED <<topic, handling, stage, lastPrice, recent, work, unannounced>>
  BY DEF ChangeAlert, consumerVars, engineVars
<1>2. alerts \in Seq(Alert) /\ i \in Nat
  BY DEF Surveyed, SurveillanceTypeOK
<1>3. alerts' \in Seq(Alert)
  <2>1. alerts[i] \in Alert
    BY <1>2
  <2>2. PICK row \in Alert : row = [alerts[i] EXCEPT !.status = status]
    BY <2>1 DEF Alert
  <2>3. alerts' = [alerts EXCEPT ![i] = row]
    BY <1>1, <2>2
  <2>4. QED
    BY <1>2, <2>3, OneRowChanged
<1>4. announcing' \in [Analysts -> Nat \X AlertStatuses]
  BY <1>1, <1>2 DEF Surveyed, SurveillanceTypeOK
<1>5. SurveillanceTypeOK'
  BY <1>1, <1>3, <1>4 DEF Surveyed, SurveillanceTypeOK
<1>6. \A b \in Analysts : announcing'[b] = IF b = a THEN <<i, status>> ELSE announcing[b]
  BY <1>1 DEF Surveyed, SurveillanceTypeOK
<1>7. AnnouncingAnAlert'
  BY <1>6 DEF Surveyed, AnnouncingAnAlert, AlertsStay
<1>8. \A r \in SurveillanceReaders : Raising(r)'
  <2>1. \A r \in SurveillanceReaders : SameAttempt(r)
    BY <1>1 DEF SameAttempt, Message
  <2>2. QED
    BY <1>1, <2>1, RaisingStays DEF Surveyed
<1>9. QED
  BY <1>5, <1>7, <1>8 DEF Surveyed

LEMMA AnnounceKeeps ==
  ASSUME Delivered, Surveyed, AlertsStay, called => called', NEW a \in Analysts, AnnounceChange(a)
  PROVE  Surveyed' /\ Delivering /\ AttemptsStay(Readers)
<1>1. PICK i, status : i = announcing[a][1] /\ status = announcing[a][2]
  OBVIOUS
<1>2. /\ announcing[a] # NothingToSay
      /\ Publish(Announcement(EventType(status), i, status))
      /\ announcing' = [announcing EXCEPT ![a] = NothingToSay]
      /\ UNCHANGED <<lastPrice, recent, work, alerts, unannounced>>
  BY <1>1 DEF AnnounceChange, engineVars
<1>3. i \in DOMAIN alerts /\ status \in AlertStatuses \ {"OPEN"}
  BY <1>1, <1>2 DEF Surveyed, AnnouncingAnAlert, SurveillanceTypeOK
<1>4. EventType(status) \in AlertTypes
  BY <1>3 DEF EventType, AlertStatuses, AlertTypes
<1>5. PICK e \in AlertEvent : e = Announcement(EventType(status), i, status)
  BY <1>3, <1>4, AnnouncementTyped DEF Surveyed
<1>6. Delivering /\ AttemptsStay(Readers)
  BY <1>2, <1>5, AlertEventCarried, ProducingKeepsAttempts DEF Publish, Delivered
<1>7. NothingToSay \in Nat \X AlertStatuses
  BY DEF NothingToSay, AlertStatuses
<1>8. /\ announcing' \in [Analysts -> Nat \X AlertStatuses]
      /\ \A b \in Analysts : announcing'[b] = NothingToSay \/ announcing'[b] = announcing[b]
  BY <1>2, <1>7 DEF Surveyed, SurveillanceTypeOK
<1>9. SurveillanceTypeOK'
  BY <1>2, <1>8 DEF Surveyed, SurveillanceTypeOK
<1>10. AnnouncingAnAlert'
  BY <1>2, <1>8 DEF Surveyed, AnnouncingAnAlert
<1>11. \A r \in SurveillanceReaders : Raising(r)'
  <2>1. \A r \in SurveillanceReaders : work[r].evaluated => SameAttempt(r)
    BY <1>6, PipelineAssumption DEF Surveyed, Raising, AttemptsStay
  <2>2. QED
    BY <1>2, <2>1, RaisingStays DEF Surveyed
<1>12. QED
  BY <1>6, <1>9, <1>10, <1>11 DEF Surveyed

LEMMA ForgetEngineKeeps ==
  ASSUME Surveyed, ForgetEngine
  PROVE  Surveyed'
<1>1. /\ lastPrice' = [s \in Symbols |-> 0]
      /\ recent' = [c \in CountingRules \X Users |-> 0]
      /\ work' = [r \in SurveillanceReaders |-> NoWork]
      /\ announcing' = [a \in Analysts |-> NothingToSay]
      /\ UNCHANGED alerts
  BY DEF ForgetEngine
<1>2. unannounced' \in SUBSET Nat
  BY DEF ForgetEngine, Surveyed, SurveillanceTypeOK
<1>3. NoWork \in WorkRow /\ ~NoWork.evaluated /\ NoWork.matched = {} /\ NoWork.raised = 0
  BY DEF NoWork, WorkRow
<1>4. NothingToSay \in Nat \X AlertStatuses
  BY DEF NothingToSay, AlertStatuses
<1>5. lastPrice' \in [Symbols -> Nat] /\ recent' \in [CountingRules \X Users -> Nat]
  BY <1>1
<1>6. work' \in [SurveillanceReaders -> WorkRow] /\ announcing' \in [Analysts -> Nat \X AlertStatuses]
  BY <1>1, <1>3, <1>4
<1>7. SurveillanceTypeOK'
  BY <1>1, <1>2, <1>5, <1>6 DEF Surveyed, SurveillanceTypeOK, WorkRow
<1>8. \A r \in SurveillanceReaders : Raising(r)'
  BY <1>1, <1>3, NothingToRaise
<1>9. AnnouncingAnAlert'
  BY <1>1 DEF AnnouncingAnAlert
<1>10. QED
  BY <1>7, <1>8, <1>9 DEF Surveyed

LEMMA InitSurveyed == SurveillanceInit => Surveyed
<1> SUFFICES ASSUME SurveillanceInit PROVE Surveyed
  OBVIOUS
<1>1. NoWork \in WorkRow /\ ~NoWork.evaluated /\ NoWork.matched = {} /\ NoWork.raised = 0
  BY DEF NoWork, WorkRow
<1>2. NothingToSay \in Nat \X AlertStatuses
  BY DEF NothingToSay, AlertStatuses
<1>3. /\ work \in [SurveillanceReaders -> WorkRow]
      /\ announcing \in [Analysts -> Nat \X AlertStatuses]
      /\ lastPrice \in [Symbols -> Nat] /\ recent \in [CountingRules \X Users -> Nat]
      /\ alerts \in Seq(Alert) /\ unannounced \in SUBSET Nat
  BY <1>1, <1>2 DEF SurveillanceInit
<1>4. \A r \in SurveillanceReaders : Raising(r)
  BY <1>1 DEF SurveillanceInit, Raising
<1>5. AnnouncingAnAlert
  BY DEF SurveillanceInit, AnnouncingAnAlert
<1>6. QED
  BY <1>3, <1>4, <1>5 DEF Surveyed, SurveillanceTypeOK, WorkRow

-----------------------------------------------------------------------------
(***************************************************************************)
(* Notification                                                            *)
(***************************************************************************)

LEMMA FirstChannelIsOne ==
  ASSUME NEW left \in SUBSET Channels, left # {}
  PROVE  FirstChannel(left) \in left
<1>1. \E channel \in left :
        /\ "IN_APP" \in left => channel = "IN_APP"
        /\ channel = "WEBHOOK" => left = {"WEBHOOK"}
  <2>1. CASE "IN_APP" \in left
    BY <2>1
  <2>2. CASE "IN_APP" \notin left /\ "EMAIL" \in left
    BY <2>2
  <2>3. CASE "IN_APP" \notin left /\ "EMAIL" \notin left
    BY <2>3 DEF Channels
  <2>4. QED
    BY <2>1, <2>2, <2>3
<1>2. QED
  BY <1>1 DEF FirstChannel

\* What a reader that sends knows of its event.
LEMMA SenderAtHand ==
  ASSUME Delivered, Notified, NEW r \in NotificationReaders, sending[r].stage # "idle"
  PROVE  /\ Attempting(r)
         /\ sending[r] \in Sending
         /\ EventId(r) \in AlertTypes \X Nat
         /\ Message(r).user \in Users
<1>1. Attempting(r) /\ Message(r).user # NoOne
  BY DEF Notified, SendingOn
<1>2. /\ Message(r) \in AlertEvent
      /\ handling[r] \in Partitions \X Numbers
  BY <1>1, EventAtHand, PipelineAssumption DEF Attempting, Delivered, ConsumerInv
<1>3. Message(r).type \in AlertTypes /\ Message(r).user \in Users
  BY <1>1, <1>2 DEF AlertEvent
<1>4. EventId(r) \in AlertTypes \X Nat
  BY <1>2, <1>3 DEF EventId, Numbers
<1>5. QED
  BY <1>1, <1>3, <1>4 DEF Notified, NotificationTypeOK

\* A reader whose step this is not.
LEMMA SendingStays ==
  ASSUME NEW r \in NotificationReaders, SendingOn(r), sending'[r] = sending[r],
         sending[r].stage # "idle" => SameAttempt(r), NoticesStay, called => called'
  PROVE  SendingOn(r)'
<1>1. CASE sending[r].stage = "idle"
  BY <1>1 DEF SendingOn, OnWebhook
<1>2. CASE sending[r].stage # "idle"
  <2>1. /\ Attempting(r)' = Attempting(r)
        /\ Message(r)' = Message(r)
        /\ EventId(r)' = EventId(r)
    BY <1>2 DEF SameAttempt, Attempting, Busy, EventId
  <2>2. PICK event, user : event = EventId(r) /\ user = Message(r).user
    OBVIOUS
  <2>3. OnWebhook(r)' = OnWebhook(r)
    BY DEF OnWebhook
  <2>4. OnWebhook(r) =>
          /\ sending[r].notice \in DOMAIN notices'
          /\ notices'[sending[r].notice].event = event
          /\ notices'[sending[r].notice].channel = "WEBHOOK"
    BY <2>2 DEF SendingOn, NoticesStay
  <2>5. \A channel : HasNotice(event, channel) => HasNotice(event, channel)'
    BY NoticeStays
  <2>6. QED
    BY <1>2, <2>1, <2>2, <2>3, <2>4, <2>5 DEF SendingOn
<1>3. QED
  BY <1>1, <1>2

LEMMA SendingSet ==
  ASSUME Notified, NEW r \in NotificationReaders, NEW rec \in Sending,
         sending' = [sending EXCEPT ![r] = rec]
  PROVE  /\ sending' \in [NotificationReaders -> Sending]
         /\ sending'[r] = rec
         /\ \A o \in NotificationReaders : o # r => sending'[o] = sending[o]
BY DEF Notified, NotificationTypeOK

LEMMA OthersSend ==
  ASSUME Notified, NEW r \in NotificationReaders, SendingOn(r)', NoticesStay, called => called',
         \A o \in NotificationReaders : o # r =>
           sending'[o] = sending[o] /\ (sending[o].stage # "idle" => SameAttempt(o))
  PROVE  \A o \in NotificationReaders : SendingOn(o)'
<1> SUFFICES ASSUME NEW o \in NotificationReaders, o # r PROVE SendingOn(o)'
  OBVIOUS
<1>1. QED
  BY SendingStays DEF Notified

\* The readers that are sending are attempting.
LEMMA SendersStay ==
  ASSUME Notified, NEW R, AttemptsStay(Readers \ R)
  PROVE  \A o \in NotificationReaders \ R : sending[o].stage # "idle" => SameAttempt(o)
BY PipelineAssumption DEF Notified, SendingOn, AttemptsStay

\* A channel is done with when it has its notice.
LEMMA NextChannelSends ==
  ASSUME Delivered, Notified, NEW r \in NotificationReaders, sending[r].stage # "idle",
         sending' = NextChannel(r), SameAttempt(r), NoticesStay, called => called',
         NEW channel, channel = FirstChannel(sending[r].left),
         NEW event, event = EventId(r), HasNotice(event, channel)'
  PROVE  /\ sending' \in [NotificationReaders -> Sending]
         /\ SendingOn(r)'
         /\ \A o \in NotificationReaders : o # r => sending'[o] = sending[o]
<1>1. PICK left \in SUBSET Channels : left = sending[r].left
  BY SenderAtHand DEF Sending
<1>2. PICK rest \in SUBSET Channels : rest = left \ {channel}
  OBVIOUS
<1>3. PICK rec : rec = [stage |-> "channels", left |-> rest, notice |-> 0, posts |-> 0]
  OBVIOUS
<1>4. rec \in Sending /\ rec.stage = "channels" /\ rec.left = rest
  <2>1. 0 \in 0 .. MaxPosts
    BY NotificationAssumption
  <2>2. QED
    BY <1>3, <2>1 DEF Sending
<1>5. sending' = [sending EXCEPT ![r] = rec]
  BY <1>1, <1>2, <1>3 DEF NextChannel
<1>6. /\ sending' \in [NotificationReaders -> Sending]
      /\ sending'[r] = rec
      /\ \A o \in NotificationReaders : o # r => sending'[o] = sending[o]
  BY <1>4, <1>5, SendingSet
<1>7. PICK user : user = Message(r).user
  OBVIOUS
<1>8. /\ Attempting(r) /\ user # NoOne
      /\ ~called => \A c \in FirstPrefs[user] : c \in left \/ HasNotice(event, c)
  BY <1>1, <1>7 DEF Notified, SendingOn
<1>9. Attempting(r)' /\ Message(r)'.user = user /\ EventId(r)' = event
  BY <1>7, <1>8 DEF SameAttempt, Attempting, Busy, EventId
<1>10. \A c : HasNotice(event, c) => HasNotice(event, c)'
  BY NoticeStays
<1>11. ~called' => \A c \in FirstPrefs[user] : c \in rest \/ HasNotice(event, c)'
  BY <1>2, <1>8, <1>10
<1>12. SendingOn(r)'
  BY <1>4, <1>6, <1>8, <1>9, <1>11 DEF SendingOn, OnWebhook
<1>13. QED
  BY <1>6, <1>12

\* An attempt that ends leaves nothing to send.
LEMMA SendingForgets ==
  ASSUME Notified, NEW r \in NotificationReaders, sending' = [sending EXCEPT ![r] = Idle]
  PROVE  /\ sending' \in [NotificationReaders -> Sending]
         /\ SendingOn(r)'
         /\ \A o \in NotificationReaders : o # r => sending'[o] = sending[o]
<1>1. Idle \in Sending /\ Idle.stage = "idle"
  BY NotificationAssumption DEF Idle, Sending
<1>2. PICK rec \in Sending : rec = Idle
  BY <1>1
<1>3. /\ sending' \in [NotificationReaders -> Sending]
      /\ sending'[r] = rec
      /\ \A o \in NotificationReaders : o # r => sending'[o] = sending[o]
  BY <1>2, SendingSet
<1>4. SendingOn(r)'
  BY <1>1, <1>2, <1>3 DEF SendingOn, OnWebhook
<1>5. QED
  BY <1>3, <1>4

\* A notice that is stored is a row for the event at hand.
LEMMA NewNotice ==
  ASSUME Delivered, Notified, NEW r \in NotificationReaders, sending[r].stage # "idle",
         NEW channel, channel = FirstChannel(sending[r].left), sending[r].left # {},
         NEW event, event = EventId(r),
         NEW status \in NoticeStatuses, NEW attempts \in Nat,
         notices' = New(r, status, attempts)
  PROVE  /\ notices' \in Seq(Notice)
         /\ Len(notices') \in DOMAIN notices'
         /\ notices'[Len(notices')].event = event
         /\ notices'[Len(notices')].channel = channel
         /\ HasNotice(event, channel)'
<1>1. event \in AlertTypes \X Nat
  BY SenderAtHand
<1>2. PICK user \in Users : user = Message(r).user
  BY SenderAtHand
<1>3. channel \in Channels
  BY SenderAtHand, FirstChannelIsOne DEF Sending
<1>4. PICK row \in Notice :
        row = [event |-> event, channel |-> channel, user |-> user, status |-> status,
               attempts |-> attempts]
  BY <1>1, <1>3 DEF Notice
<1>5. notices \in Seq(Notice) /\ notices' = Append(notices, row)
  BY <1>2, <1>4 DEF New, Notified, NotificationTypeOK
<1>6. /\ notices' \in Seq(Notice)
      /\ Len(notices') \in DOMAIN notices'
      /\ notices'[Len(notices')] = row
  BY <1>5, OneMoreRow
<1>7. row.event = event /\ row.channel = channel
  BY <1>4
<1>8. HasNotice(event, channel)'
  BY <1>6, <1>7 DEF HasNotice
<1>9. QED
  BY <1>6, <1>7, <1>8

\* A notice whose status or attempts change stays a notice.
LEMMA NoticeTyped ==
  ASSUME Notified, NEW i \in DOMAIN notices, NEW status \in NoticeStatuses, NEW attempts \in Nat,
         notices' = [notices EXCEPT ![i] =
                       [event |-> notices[i].event, channel |-> notices[i].channel,
                        user |-> notices[i].user, status |-> status, attempts |-> attempts]]
  PROVE  notices' \in Seq(Notice) /\ DOMAIN notices' = DOMAIN notices
<1>1. notices \in Seq(Notice)
  BY DEF Notified, NotificationTypeOK
<1>2. notices[i] \in Notice
  BY <1>1
<1>3. PICK row \in Notice :
        row = [event |-> notices[i].event, channel |-> notices[i].channel,
               user |-> notices[i].user, status |-> status, attempts |-> attempts]
  BY <1>2 DEF Notice
<1>4. QED
  BY <1>1, <1>3, OneRowChanged

LEMMA NothingConsumed ==
  ASSUME UNCHANGED consumerVars
  PROVE  Delivering /\ AttemptsStay(Readers)
BY DEF Delivering, AttemptsStay, SameAttempt, Message, consumerVars

LEMMA TellDelivers ==
  ASSUME Delivered, notices' \in Seq(Notice), NEW type \in NotificationTypes,
         NEW i \in DOMAIN notices', Tell(type, i)
  PROVE  Delivering /\ AttemptsStay(Readers)
<1>1. notices'[i] \in Notice /\ i \in Nat
  OBVIOUS
<1>2. notices'[i].user \in Users
  BY <1>1 DEF Notice
<1>3. PICK user \in Users : user = notices'[i].user
  BY <1>2
<1>4. PICK e \in NotificationEvent : e = [type |-> type, notice |-> i, user |-> user]
  BY <1>1 DEF NotificationEvent
<1>5. Produce(Subscribed[e.type], <<e>>)
  BY <1>3, <1>4 DEF Tell, Publish
<1>6. QED
  BY <1>5, NotificationEventCarried, ProducingKeepsAttempts DEF Delivered

\* What one reader does to its own record is enough.
LEMMA SenderKeeps ==
  ASSUME Notified, NEW r \in NotificationReaders, NoticesStay, called => called',
         sending' \in [NotificationReaders -> Sending], SendingOn(r)',
         \A o \in NotificationReaders : o # r => sending'[o] = sending[o],
         AttemptsStay(Readers \ {r}),
         notices' \in Seq(Notice), UNCHANGED prefs, received' \in SUBSET Nat
  PROVE  Notified'
<1>1. \A o \in NotificationReaders : o # r => (sending[o].stage # "idle" => SameAttempt(o))
  BY SendersStay
<1>2. \A o \in NotificationReaders : SendingOn(o)'
  BY <1>1, OthersSend
<1>3. NotificationTypeOK'
  BY DEF Notified, NotificationTypeOK
<1>4. QED
  BY <1>2, <1>3 DEF Notified

LEMMA NotificationUntouched ==
  ASSUME Notified, NoticesStay, called => called', UNCHANGED sending,
         \A r \in NotificationReaders : sending[r].stage # "idle" => SameAttempt(r),
         notices' \in Seq(Notice), prefs' \in [Users -> SUBSET Channels], UNCHANGED received
  PROVE  Notified'
<1>1. \A r \in NotificationReaders : SendingOn(r)'
  BY SendingStays DEF Notified
<1>2. NotificationTypeOK'
  BY DEF Notified, NotificationTypeOK
<1>3. QED
  BY <1>1, <1>2 DEF Notified

\* An alert event that concerns nobody needs no notice.
LEMMA IgnoreUserlessKeeps ==
  ASSUME Delivered, Notified, MarksStay, NEW r \in NotificationReaders, IgnoreUserless(r)
  PROVE  Notified' /\ Delivering /\ AttemptsStay(Readers \ {r})
<1>1. /\ Attempting(r) /\ Succeed(r) /\ Message(r).user = NoOne
      /\ UNCHANGED <<topic, notices, prefs, sending, received>>
  BY DEF IgnoreUserless, Notifying, Succeed, notificationVars
<1>2. r \in Readers /\ r \notin SurveillanceReaders /\ r \notin AuditReaders
  BY PipelineAssumption
<1>3. AttemptsStay(Readers \ {r})
  BY <1>1, <1>2, AttemptingStays DEF Delivered, ConsumerInv
<1>4. PICK p \in Partitions, n \in Numbers :
        handling[r] = <<p, n>> /\ ReaderOf[p] = r
  BY <1>1, <1>2, EventAtHand DEF Attempting, Delivered, ConsumerInv
<1>5. MarkLeft(p, n)
  <2>1. topic[p][n].user = NoOne
    BY <1>1, <1>4 DEF Message
  <2>2. QED
    BY <1>2, <1>4, <2>1 DEF MarkLeft
<1>6. MarkLeft(p, n)'
  BY <1>1, <1>5, MarkStays
<1>7. Delivering
  BY <1>1, <1>2, <1>4, <1>6 DEF Delivering
<1>8. \A o \in NotificationReaders : sending[o].stage # "idle" => SameAttempt(o)
  <2>1. sending[r].stage # "idle" => Message(r).user # NoOne
    BY DEF Notified, SendingOn
  <2>2. QED
    BY <1>1, <1>3, <2>1, SendersStay
<1>9. Notified'
  BY <1>1, <1>8, NotificationUntouched DEF MarksStay, Notified, NotificationTypeOK
<1>10. QED
  BY <1>3, <1>7, <1>9

\* The channels are read: as long as nobody calls, the first ones.
LEMMA ReadPreferencesKeeps ==
  ASSUME Delivered, Notified, NothingWasChanged, MarksStay, NEW r \in NotificationReaders,
         ReadPreferences(r)
  PROVE  Notified' /\ Delivering /\ AttemptsStay(Readers)
<1>1. PICK user : user = Message(r).user
  OBVIOUS
<1>2. /\ Attempting(r) /\ user # NoOne
      /\ sending[r].stage = "idle"
      /\ sending' = [sending EXCEPT ![r].stage = "channels", ![r].left = prefs[user]]
      /\ UNCHANGED <<consumerVars, notices, prefs, received>>
  BY <1>1 DEF ReadPreferences, Notifying
<1>3. user \in Users
  <2>1. Message(r) \in AlertEvent
    BY <1>2, EventAtHand, PipelineAssumption DEF Attempting, Delivered, ConsumerInv
  <2>2. QED
    BY <1>1, <1>2, <2>1 DEF AlertEvent
<1>4. Delivering /\ AttemptsStay(Readers)
  BY <1>2, NothingConsumed
<1>5. PICK left \in SUBSET Channels : left = prefs[user] /\ (~called => left = FirstPrefs[user])
  BY <1>3 DEF Notified, NotificationTypeOK, NothingWasChanged
<1>6. sending[r] \in Sending
  BY DEF Notified, NotificationTypeOK
<1>7. PICK rec \in Sending :
        rec = [stage |-> "channels", left |-> left, notice |-> sending[r].notice,
               posts |-> sending[r].posts]
  BY <1>6 DEF Sending
<1>8. sending' = [sending EXCEPT ![r] = rec]
  <2>1. sending' = [sending EXCEPT ![r].stage = "channels", ![r].left = left]
    BY <1>2, <1>5
  <2>2. sending \in [NotificationReaders -> Sending]
    BY DEF Notified, NotificationTypeOK
  <2>3. rec = [[sending[r] EXCEPT !.stage = "channels"] EXCEPT !.left = left]
    <3>1. PICK old, st, was, notice, posts :
            /\ old = sending[r] /\ notice = sending[r].notice /\ posts = sending[r].posts
            /\ old = [stage |-> st, left |-> was, notice |-> notice, posts |-> posts]
      BY <1>6 DEF Sending
    <3>2. [old EXCEPT !.stage = "channels"] =
            [stage |-> "channels", left |-> was, notice |-> notice, posts |-> posts]
      BY <3>1
    <3>3. [[old EXCEPT !.stage = "channels"] EXCEPT !.left = left] =
            [stage |-> "channels", left |-> left, notice |-> notice, posts |-> posts]
      <4>1. PICK mid : mid = [old EXCEPT !.stage = "channels"]
        OBVIOUS
      <4>2. mid = [stage |-> "channels", left |-> was, notice |-> notice, posts |-> posts]
        BY <3>2, <4>1
      <4>3. [mid EXCEPT !.left = left] =
              [stage |-> "channels", left |-> left, notice |-> notice, posts |-> posts]
        BY <4>2
      <4>4. QED
        BY <4>1, <4>3
    <3>4. QED
      BY <1>7, <3>1, <3>3
  <2>4. QED
    BY <2>1, <2>2, <2>3
<1>9. /\ sending' \in [NotificationReaders -> Sending]
      /\ sending'[r] = rec
      /\ \A o \in NotificationReaders : o # r => sending'[o] = sending[o]
  BY <1>8, SendingSet
<1>10. rec.stage = "channels" /\ rec.left = left
  BY <1>7
<1>11. Attempting(r)' /\ Message(r)'.user = user
  BY <1>1, <1>2, <1>4, PipelineAssumption DEF AttemptsStay, SameAttempt, Attempting, Busy
<1>12. ~called' => \A channel \in FirstPrefs[user] : channel \in left
  BY <1>5 DEF MarksStay
<1>13. SendingOn(r)'
  BY <1>2, <1>9, <1>10, <1>11, <1>12 DEF SendingOn, OnWebhook
<1>14. AttemptsStay(Readers \ {r})
  BY <1>4 DEF AttemptsStay
<1>15. Notified'
  BY <1>2, <1>9, <1>13, <1>14, SenderKeeps DEF MarksStay, Notified, NotificationTypeOK
<1>16. QED
  BY <1>4, <1>15

\* A reader that sends goes on to its next channel.
LEMMA ChannelDone ==
  ASSUME Delivered, Notified, MarksStay, NEW r \in NotificationReaders,
         sending[r].stage # "idle", sending' = NextChannel(r), AttemptsStay(Readers),
         NEW channel, channel = FirstChannel(sending[r].left),
         NEW event, event = EventId(r), HasNotice(event, channel)',
         notices' \in Seq(Notice), UNCHANGED <<prefs, received>>
  PROVE  Notified'
<1>1. r \in Readers /\ Attempting(r)
  BY SenderAtHand, PipelineAssumption
<1>2. SameAttempt(r) /\ AttemptsStay(Readers \ {r})
  BY <1>1 DEF AttemptsStay
<1>3. /\ sending' \in [NotificationReaders -> Sending]
      /\ SendingOn(r)'
      /\ \A o \in NotificationReaders : o # r => sending'[o] = sending[o]
  BY <1>2, NextChannelSends DEF MarksStay
<1>4. QED
  BY <1>2, <1>3, SenderKeeps DEF MarksStay, Notified, NotificationTypeOK

LEMMA SkipNoticeKeeps ==
  ASSUME Delivered, Notified, MarksStay, NEW r \in NotificationReaders, SkipNotice(r)
  PROVE  Notified' /\ Delivering /\ AttemptsStay(Readers)
<1>1. /\ sending[r].stage = "channels"
      /\ DuplicateNotice(r, FirstChannel(sending[r].left))
      /\ sending' = NextChannel(r)
      /\ UNCHANGED <<consumerVars, notices, prefs, received>>
  BY DEF SkipNotice
<1>2. Delivering /\ AttemptsStay(Readers)
  BY <1>1, NothingConsumed
<1>3. PICK channel, event : channel = FirstChannel(sending[r].left) /\ event = EventId(r)
  OBVIOUS
<1>4. HasNotice(event, channel)'
  BY <1>1, <1>3 DEF DuplicateNotice, HasNotice
<1>5. notices' \in Seq(Notice)
  BY <1>1 DEF Notified, NotificationTypeOK
<1>6. Notified'
  BY <1>1, <1>2, <1>3, <1>4, <1>5, ChannelDone
<1>7. QED
  BY <1>2, <1>6

LEMMA SendAtOnceKeeps ==
  ASSUME Delivered, Notified, MarksStay, NEW r \in NotificationReaders, SendAtOnce(r)
  PROVE  Notified' /\ Delivering /\ AttemptsStay(Readers)
<1>1. PICK channel, event : channel = FirstChannel(sending[r].left) /\ event = EventId(r)
  OBVIOUS
<1>2. PICK attempts \in Nat : attempts = IF channel = "EMAIL" THEN 1 ELSE 0
  OBVIOUS
<1>3. /\ sending[r].stage = "channels" /\ sending[r].left # {}
      /\ notices' = New(r, "SENT", attempts)
      /\ sending' = NextChannel(r)
      /\ Tell("notification.sent", Len(notices'))
      /\ UNCHANGED <<prefs, received>>
  BY <1>1, <1>2 DEF SendAtOnce, Creating
<1>4. "SENT" \in NoticeStatuses /\ "notification.sent" \in NotificationTypes
  BY DEF NoticeStatuses, NotificationTypes
<1>5. /\ notices' \in Seq(Notice)
      /\ Len(notices') \in DOMAIN notices'
      /\ HasNotice(event, channel)'
  BY <1>1, <1>3, <1>4, NewNotice
<1>6. Delivering /\ AttemptsStay(Readers)
  BY <1>3, <1>4, <1>5, TellDelivers
<1>7. Notified'
  BY <1>1, <1>3, <1>5, <1>6, ChannelDone
<1>8. QED
  BY <1>6, <1>7

\* An attempt at sending that ends.
LEMMA SendingEnds ==
  ASSUME Notified, MarksStay, NEW r \in NotificationReaders,
         sending' = [sending EXCEPT ![r] = Idle], AttemptsStay(Readers \ {r}),
         notices' \in Seq(Notice), UNCHANGED prefs, received' \in SUBSET Nat
  PROVE  Notified'
BY SendingForgets, SenderKeeps DEF MarksStay

LEMMA SendIsCutShortKeeps ==
  ASSUME Delivered, Notified, MarksStay, NEW r \in NotificationReaders, SendIsCutShort(r)
  PROVE  Notified' /\ Delivering /\ AttemptsStay(Readers \ {r})
<1>1. PICK channel, event : channel = FirstChannel(sending[r].left) /\ event = EventId(r)
  OBVIOUS
<1>2. /\ sending[r].stage = "channels" /\ sending[r].left # {}
      /\ notices' = New(r, "SENT", 0)
      /\ sending' = [sending EXCEPT ![r] = Idle]
      /\ FailAttempt(r)
      /\ UNCHANGED <<prefs, received>>
  BY DEF SendIsCutShort, Creating
<1>3. r \in Readers
  BY PipelineAssumption
<1>4. AttemptsStay(Readers \ {r}) /\ Delivering
  BY <1>2, <1>3, AttemptingStays DEF Delivered, ConsumerInv, Delivering
<1>5. "SENT" \in NoticeStatuses
  BY DEF NoticeStatuses
<1>6. notices' \in Seq(Notice)
  BY <1>1, <1>2, <1>5, NewNotice
<1>7. received' \in SUBSET Nat
  BY <1>2 DEF Notified, NotificationTypeOK
<1>8. Notified'
  BY <1>2, <1>4, <1>6, <1>7, SendingEnds
<1>9. QED
  BY <1>4, <1>8

LEMMA NotificationErrorKeeps ==
  ASSUME Delivered, Notified, MarksStay, NEW r \in NotificationReaders, NotificationDatabaseError(r)
  PROVE  Notified' /\ Delivering /\ AttemptsStay(Readers \ {r})
<1>1. /\ FailAttempt(r)
      /\ sending' = [sending EXCEPT ![r] = Idle]
      /\ UNCHANGED <<notices, prefs>>
  BY DEF NotificationDatabaseError
<1>2. r \in Readers
  BY PipelineAssumption
<1>3. AttemptsStay(Readers \ {r}) /\ Delivering
  BY <1>1, <1>2, AttemptingStays DEF Delivered, ConsumerInv, Delivering
<1>4. received' \in SUBSET Nat
  BY DEF NotificationDatabaseError, MayHaveArrived, Notified, NotificationTypeOK, Sending
<1>5. notices' \in Seq(Notice)
  BY <1>1 DEF Notified, NotificationTypeOK
<1>6. Notified'
  BY <1>1, <1>3, <1>4, <1>5, SendingEnds
<1>7. QED
  BY <1>3, <1>6

\* An event with a notice on each of the channels has left its mark.
LEMMA AlertProcessedKeeps ==
  ASSUME Delivered, Notified, MarksStay, NEW r \in NotificationReaders, AlertProcessed(r)
  PROVE  Notified' /\ Delivering /\ AttemptsStay(Readers \ {r})
<1>1. /\ Attempting(r) /\ Succeed(r)
      /\ sending[r].stage = "channels" /\ sending[r].left = {}
      /\ sending' = [sending EXCEPT ![r] = Idle]
      /\ UNCHANGED <<topic, notices, prefs, received>>
  BY DEF AlertProcessed, Notifying, Succeed
<1>2. r \in Readers /\ r \notin SurveillanceReaders /\ r \notin AuditReaders
  BY PipelineAssumption
<1>3. AttemptsStay(Readers \ {r})
  BY <1>1, <1>2, AttemptingStays DEF Delivered, ConsumerInv
<1>4. Notified'
  BY <1>1, <1>3, SendingEnds DEF Notified, NotificationTypeOK
<1>5. PICK p \in Partitions, n \in Numbers :
        handling[r] = <<p, n>> /\ ReaderOf[p] = r
  BY <1>1, <1>2, EventAtHand DEF Attempting, Delivered, ConsumerInv
<1>6. MarkLeft(p, n)
  <2>1. topic[p][n] = Message(r) /\ <<topic[p][n].type, n>> = EventId(r)
    BY <1>5 DEF Message, EventId
  <2>2. ~called => \A channel \in FirstPrefs[Message(r).user] : HasNotice(EventId(r), channel)
    BY <1>1 DEF Notified, SendingOn
  <2>3. QED
    BY <1>2, <1>5, <2>1, <2>2 DEF MarkLeft
<1>7. MarkLeft(p, n)'
  BY <1>1, <1>6, MarkStays
<1>8. Delivering
  BY <1>1, <1>2, <1>5, <1>7 DEF Delivering
<1>9. QED
  BY <1>3, <1>4, <1>8

\* What EXCEPT makes of a reader's record.
LEMMA SenderStage ==
  ASSUME Notified, NEW r \in NotificationReaders, NEW st
  PROVE  [sending EXCEPT ![r].stage = st] =
           [sending EXCEPT ![r] = [stage |-> st, left |-> sending[r].left,
              notice |-> sending[r].notice, posts |-> sending[r].posts]]
<1>1. sending[r] \in Sending
  BY DEF Notified, NotificationTypeOK
<1>2. [sending[r] EXCEPT !.stage = st] =
        [stage |-> st, left |-> sending[r].left,
         notice |-> sending[r].notice, posts |-> sending[r].posts]
  BY <1>1 DEF Sending
<1>3. QED
  BY <1>2 DEF Notified, NotificationTypeOK

LEMMA SenderStageNotice ==
  ASSUME Notified, NEW r \in NotificationReaders, NEW n,
         sending' = [sending EXCEPT ![r].stage = "posting", ![r].notice = n]
  PROVE  sending' = [sending EXCEPT ![r] = [stage |-> "posting", left |-> sending[r].left,
                       notice |-> n, posts |-> sending[r].posts]]
<1>1. sending \in [NotificationReaders -> Sending]
  BY DEF Notified, NotificationTypeOK
<1>2. PICK old, was, left, notice, posts :
        /\ old = sending[r] /\ left = sending[r].left /\ posts = sending[r].posts
        /\ old = [stage |-> was, left |-> left, notice |-> notice, posts |-> posts]
  <2>1. sending[r] \in Sending
    BY <1>1
  <2>2. QED
    BY <2>1 DEF Sending
<1>3. PICK once : once = [old EXCEPT !.stage = "posting"]
  OBVIOUS
<1>4. once = [stage |-> "posting", left |-> left, notice |-> notice, posts |-> posts]
  BY <1>2, <1>3
<1>5. [once EXCEPT !.notice = n] =
        [stage |-> "posting", left |-> left, notice |-> n, posts |-> posts]
  BY <1>4
<1>6. sending' = [sending EXCEPT ![r] = [once EXCEPT !.notice = n]]
  BY <1>1, <1>2, <1>3
<1>7. QED
  BY <1>2, <1>5, <1>6

LEMMA SenderPostsStage ==
  ASSUME Notified, NEW r \in NotificationReaders, sending[r].stage = "posting",
         sending' = [sending EXCEPT ![r].posts = @ + 1,
           ![r].stage = IF sending[r].posts + 1 < MaxPosts THEN @ ELSE "undelivered"]
  PROVE  sending' = [sending EXCEPT ![r] =
           [stage |-> IF sending[r].posts + 1 < MaxPosts THEN "posting" ELSE "undelivered",
            left |-> sending[r].left,
            notice |-> sending[r].notice, posts |-> sending[r].posts + 1]]
<1>1. sending \in [NotificationReaders -> Sending]
  BY DEF Notified, NotificationTypeOK
<1>2. PICK old, left, notice, posts :
        /\ old = sending[r]
        /\ left = sending[r].left /\ notice = sending[r].notice /\ posts = sending[r].posts
        /\ old = [stage |-> "posting", left |-> left, notice |-> notice, posts |-> posts]
  <2>1. sending[r] \in Sending
    BY <1>1
  <2>2. QED
    BY <2>1 DEF Sending
<1>3. PICK posted, more : more = posts + 1 /\ posted = [old EXCEPT !.posts = more]
  OBVIOUS
<1>4. posted = [stage |-> "posting", left |-> left, notice |-> notice, posts |-> more]
  BY <1>2, <1>3
<1>5. PICK st : st = IF more < MaxPosts THEN "posting" ELSE "undelivered"
  OBVIOUS
<1>6. [posted EXCEPT !.stage = st] =
        [stage |-> st, left |-> left, notice |-> notice, posts |-> more]
  BY <1>4
<1>7. sending' = [sending EXCEPT ![r] = [posted EXCEPT !.stage = st]]
  <2>1. posted.stage = "posting"
    BY <1>4
  <2>2. QED
    BY <1>1, <1>2, <1>3, <1>5, <2>1
<1>8. QED
  BY <1>2, <1>3, <1>5, <1>6, <1>7

\* A reader goes on with the webhook of its event.
LEMMA WebhookKeeps ==
  ASSUME Delivered, Notified, MarksStay, NEW r \in NotificationReaders,
         sending[r].stage # "idle", AttemptsStay(Readers),
         sending[r].left # {}, FirstChannel(sending[r].left) = "WEBHOOK",
         NEW st \in {"posting", "delivered", "undelivered"}, NEW n \in Nat,
         NEW posts \in 0 .. MaxPosts, st = "posting" => posts < MaxPosts,
         sending' = [sending EXCEPT ![r] = [stage |-> st, left |-> sending[r].left,
                       notice |-> n, posts |-> posts]],
         NEW event, event = EventId(r),
         n \in DOMAIN notices', notices'[n].event = event, notices'[n].channel = "WEBHOOK",
         notices' \in Seq(Notice), UNCHANGED prefs, received' \in SUBSET Nat
  PROVE  Notified'
<1>1. PICK left \in SUBSET Channels : left = sending[r].left
  BY SenderAtHand DEF Sending
<1>2. PICK rec \in Sending : rec = [stage |-> st, left |-> left, notice |-> n, posts |-> posts]
  BY DEF Sending
<1>3. rec.stage = st /\ rec.left = left /\ rec.notice = n /\ rec.posts = posts
  BY <1>2
<1>4. /\ sending' \in [NotificationReaders -> Sending]
      /\ sending'[r] = rec
      /\ \A o \in NotificationReaders : o # r => sending'[o] = sending[o]
  BY <1>1, <1>2, SendingSet
<1>5. PICK user : user = Message(r).user
  OBVIOUS
<1>6. /\ Attempting(r) /\ user # NoOne
      /\ ~called => \A c \in FirstPrefs[user] : c \in left \/ HasNotice(event, c)
  BY <1>1, <1>5 DEF Notified, SendingOn
<1>7. SameAttempt(r) /\ AttemptsStay(Readers \ {r})
  BY <1>6, PipelineAssumption DEF AttemptsStay
<1>8. Attempting(r)' /\ Message(r)'.user = user /\ EventId(r)' = event
  BY <1>5, <1>6, <1>7 DEF SameAttempt, Attempting, Busy, EventId
<1>9. \A c : HasNotice(event, c) => HasNotice(event, c)'
  BY NoticeStays DEF MarksStay
<1>10. ~called' => \A c \in FirstPrefs[user] : c \in left \/ HasNotice(event, c)'
  BY <1>6, <1>9 DEF MarksStay
<1>11. left # {} /\ FirstChannel(left) = "WEBHOOK"
  BY <1>1
<1>12. SendingOn(r)'
  BY <1>3, <1>4, <1>6, <1>8, <1>10, <1>11 DEF SendingOn
<1>13. QED
  BY <1>4, <1>7, <1>12, SenderKeeps DEF MarksStay

LEMMA OpenWebhookKeeps ==
  ASSUME NoticesKept, Delivered, Notified, MarksStay, NEW r \in NotificationReaders, OpenWebhook(r)
  PROVE  Notified' /\ Delivering /\ AttemptsStay(Readers)
<1>1. PICK channel, event : channel = FirstChannel(sending[r].left) /\ event = EventId(r)
  OBVIOUS
<1>2. /\ sending[r].stage = "channels" /\ sending[r].left # {} /\ channel = "WEBHOOK"
      /\ notices' = New(r, "PENDING", 0)
      /\ sending' = [sending EXCEPT ![r].stage = "posting", ![r].notice = Len(notices')]
      /\ UNCHANGED <<consumerVars, prefs, received>>
  BY <1>1 DEF OpenWebhook, Creating
<1>3. "PENDING" \in NoticeStatuses
  BY DEF NoticeStatuses
<1>4. /\ notices' \in Seq(Notice)
      /\ Len(notices') \in DOMAIN notices'
      /\ notices'[Len(notices')].event = event
      /\ notices'[Len(notices')].channel = "WEBHOOK"
  BY <1>1, <1>2, <1>3, NewNotice
<1>5. PICK n \in Nat : n = Len(notices')
  BY <1>4
<1>6. sending[r].posts = 0
  BY <1>2, SenderFields DEF NoticesKept
<1>7. sending' = [sending EXCEPT ![r] = [stage |-> "posting", left |-> sending[r].left,
                    notice |-> n, posts |-> 0]]
  <2>1. sending' = [sending EXCEPT ![r] = [stage |-> "posting", left |-> sending[r].left,
                      notice |-> n, posts |-> sending[r].posts]]
    BY <1>2, <1>5, SenderStageNotice
  <2>2. QED
    BY <1>6, <2>1
<1>8. 0 \in 0 .. MaxPosts /\ 0 < MaxPosts
  BY NotificationAssumption
<1>9. Delivering /\ AttemptsStay(Readers)
  BY <1>2, NothingConsumed
<1>10. received' \in SUBSET Nat
  BY <1>2 DEF Notified, NotificationTypeOK
<1>11. Notified'
  BY <1>1, <1>2, <1>4, <1>5, <1>7, <1>8, <1>9, <1>10, WebhookKeeps
<1>12. QED
  BY <1>9, <1>11

\* What a reader that is on its webhook knows of it.
LEMMA WebhookAtHand ==
  ASSUME NoticesKept, Delivered, Notified, NEW r \in NotificationReaders, OnWebhook(r)
  PROVE  /\ sending[r].stage # "idle"
         /\ sending[r].left # {}
         /\ FirstChannel(sending[r].left) = "WEBHOOK"
         /\ sending[r].notice \in Nat
         /\ sending[r].posts \in 0 .. MaxPosts
         /\ sending[r].notice \in DOMAIN notices
         /\ notices[sending[r].notice].event = EventId(r)
         /\ notices[sending[r].notice].channel = "WEBHOOK"
         /\ notices[sending[r].notice].status \in NoticeStatuses
         /\ notices[sending[r].notice].attempts \in Nat
<1>1. sending[r].stage # "idle"
  BY DEF OnWebhook
<1>2. sending[r].notice \in Nat /\ sending[r].posts \in 0 .. MaxPosts
  BY <1>1, SenderAtHand DEF Sending
<1>3. QED
  BY <1>1, <1>2, NoticeFields DEF Notified, SendingOn

LEMMA PostKeeps ==
  ASSUME NoticesKept, Delivered, Notified, MarksStay, NEW r \in NotificationReaders,
         PostWebhook(r) \/ PostFails(r)
  PROVE  Notified' /\ Delivering /\ AttemptsStay(Readers)
<1>1. PICK n, event : n = sending[r].notice /\ event = EventId(r)
  OBVIOUS
<1>2. /\ sending[r].stage = "posting" /\ OnWebhook(r)
      /\ notices' = [notices EXCEPT ![n].attempts = @ + 1]
      /\ UNCHANGED <<consumerVars, prefs>>
      /\ received' \in {received, received \union {n}}
  BY <1>1 DEF PostWebhook, PostFails, OnWebhook
<1>3. /\ n \in Nat /\ n \in DOMAIN notices
      /\ notices[n].event = event /\ notices[n].channel = "WEBHOOK"
      /\ notices[n].status \in NoticeStatuses /\ notices[n].attempts \in Nat
      /\ sending[r].posts \in 0 .. MaxPosts /\ sending[r].posts < MaxPosts
      /\ sending[r].stage # "idle" /\ sending[r].left # {}
      /\ FirstChannel(sending[r].left) = "WEBHOOK"
  BY <1>1, <1>2, WebhookAtHand DEF Notified, SendingOn
<1>4. MaxPosts \in Nat
  BY NotificationAssumption
<1>5. PICK status \in NoticeStatuses, more \in Nat :
        status = notices[n].status /\ more = notices[n].attempts + 1
  BY <1>3
<1>6. notices' = [notices EXCEPT ![n] =
                    [event |-> notices[n].event, channel |-> notices[n].channel,
                     user |-> notices[n].user, status |-> status, attempts |-> more]]
  BY <1>2, <1>3, <1>5, NoticeExcept
<1>7. notices' \in Seq(Notice) /\ DOMAIN notices' = DOMAIN notices
  BY <1>3, <1>6, NoticeTyped
<1>8. n \in DOMAIN notices' /\ notices'[n].event = event /\ notices'[n].channel = "WEBHOOK"
  BY <1>3 DEF MarksStay, NoticesStay
<1>9. Delivering /\ AttemptsStay(Readers)
  BY <1>2, NothingConsumed
<1>10. received' \in SUBSET Nat
  BY <1>2, <1>3 DEF Notified, NotificationTypeOK
<1>11. \E st \in {"posting", "delivered", "undelivered"} : \E posts \in 0 .. MaxPosts :
         /\ st = "posting" => posts < MaxPosts
         /\ sending' = [sending EXCEPT ![r] = [stage |-> st, left |-> sending[r].left,
                          notice |-> n, posts |-> posts]]
  <2>1. CASE PostWebhook(r)
    <3>1. sending' = [sending EXCEPT ![r].stage = "delivered"]
      BY <2>1 DEF PostWebhook
    <3>2. sending' = [sending EXCEPT ![r] = [stage |-> "delivered", left |-> sending[r].left,
                        notice |-> n, posts |-> sending[r].posts]]
      BY <1>1, <3>1, SenderStage
    <3>3. QED
      BY <1>3, <3>2
  <2>2. CASE PostFails(r)
    <3>1. PICK more_posts \in 0 .. MaxPosts : more_posts = sending[r].posts + 1
      BY <1>3, <1>4
    <3>2. PICK st : st = IF more_posts < MaxPosts THEN "posting" ELSE "undelivered"
      OBVIOUS
    <3>3. sending' = [sending EXCEPT ![r] =
             [stage |-> IF sending[r].posts + 1 < MaxPosts THEN "posting" ELSE "undelivered",
              left |-> sending[r].left,
              notice |-> sending[r].notice, posts |-> sending[r].posts + 1]]
      BY <1>2, <2>2, SenderPostsStage DEF PostFails
    <3>4. sending' = [sending EXCEPT ![r] = [stage |-> st, left |-> sending[r].left,
                        notice |-> n, posts |-> more_posts]]
      BY <1>1, <3>1, <3>2, <3>3
    <3>5. QED
      BY <3>2, <3>4
  <2>3. QED
    BY <2>1, <2>2
<1>12. PICK st \in {"posting", "delivered", "undelivered"}, posts \in 0 .. MaxPosts :
         /\ st = "posting" => posts < MaxPosts
         /\ sending' = [sending EXCEPT ![r] = [stage |-> st, left |-> sending[r].left,
                          notice |-> n, posts |-> posts]]
  BY <1>11
<1>13. Notified'
  BY <1>1, <1>2, <1>3, <1>7, <1>8, <1>9, <1>10, <1>12, WebhookKeeps
<1>14. QED
  BY <1>9, <1>13

LEMMA SettleKeeps ==
  ASSUME NoticesKept, Delivered, Notified, MarksStay, NEW r \in NotificationReaders, SettleWebhook(r)
  PROVE  Notified' /\ Delivering /\ AttemptsStay(Readers)
<1>1. PICK n, event, channel :
        /\ n = sending[r].notice /\ event = EventId(r)
        /\ channel = FirstChannel(sending[r].left)
  OBVIOUS
<1>2. PICK status : status = Outcome(r)
  OBVIOUS
<1>3. PICK type : type = IF status = "SENT" THEN "notification.sent" ELSE "notification.failed"
  OBVIOUS
<1>4. /\ OnWebhook(r)
      /\ notices' = [notices EXCEPT ![n].status = status]
      /\ sending' = NextChannel(r)
      /\ Tell(type, n)
      /\ UNCHANGED <<prefs, received>>
  BY <1>1, <1>2, <1>3 DEF SettleWebhook, OnWebhook
<1>5. status \in NoticeStatuses /\ type \in NotificationTypes
  BY <1>2, <1>3 DEF Outcome, NoticeStatuses, NotificationTypes
<1>6. /\ n \in DOMAIN notices /\ channel = "WEBHOOK"
      /\ notices[n].event = event /\ notices[n].channel = "WEBHOOK"
      /\ notices[n].attempts \in Nat
      /\ sending[r].stage # "idle"
  BY <1>1, <1>4, WebhookAtHand
<1>7. notices' \in Seq(Notice) /\ DOMAIN notices' = DOMAIN notices
  <2>1. PICK attempts \in Nat : attempts = notices[n].attempts
    BY <1>6
  <2>2. notices' = [notices EXCEPT ![n] =
                      [event |-> notices[n].event, channel |-> notices[n].channel,
                       user |-> notices[n].user, status |-> status, attempts |-> attempts]]
    BY <1>4, <1>6, <2>1, NoticeExcept
  <2>3. QED
    BY <1>5, <1>6, <2>2, NoticeTyped
<1>8. HasNotice(event, channel)'
  BY <1>6 DEF MarksStay, NoticesStay, HasNotice
<1>9. Delivering /\ AttemptsStay(Readers)
  BY <1>4, <1>5, <1>6, <1>7, TellDelivers
<1>10. Notified'
  BY <1>1, <1>4, <1>6, <1>7, <1>8, <1>9, ChannelDone
<1>11. QED
  BY <1>9, <1>10

\* What users and managers do.
LEMMA NoticeCallKeeps ==
  ASSUME NoticesKept, Delivered, Notified, MarksStay, NEW i \in DOMAIN notices,
         MarkRead(i) \/ RetryNotice(i)
  PROVE  Notified' /\ Delivering /\ AttemptsStay(Readers)
<1>1. \E status \in NoticeStatuses, attempts \in Nat : \E type \in NotificationTypes :
        /\ notices' = [notices EXCEPT ![i] =
                         [event |-> notices[i].event, channel |-> notices[i].channel,
                          user |-> notices[i].user, status |-> status, attempts |-> attempts]]
        /\ Tell(type, i)
  <2>1. notices[i].attempts \in Nat /\ notices[i].attempts + 1 \in Nat
    BY NoticeFields
  <2>2. CASE MarkRead(i)
    <3>1. "READ" \in NoticeStatuses /\ "notification.read" \in NotificationTypes
      BY DEF NoticeStatuses, NotificationTypes
    <3>2. QED
      BY <2>1, <2>2, <3>1, NoticeExcept DEF MarkRead
  <2>3. CASE RetryNotice(i)
    <3>1. "RETRYING" \in NoticeStatuses /\ "notification.retry_requested" \in NotificationTypes
      BY DEF NoticeStatuses, NotificationTypes
    <3>2. QED
      BY <2>1, <2>3, <3>1, NoticeExcept DEF RetryNotice
  <2>4. QED
    BY <2>2, <2>3
<1>2. UNCHANGED <<prefs, sending, received>>
  BY DEF MarkRead, RetryNotice
<1>3. notices' \in Seq(Notice) /\ DOMAIN notices' = DOMAIN notices
  BY <1>1, NoticeTyped
<1>4. Delivering /\ AttemptsStay(Readers)
  BY <1>1, <1>3, TellDelivers
<1>5. \A r \in NotificationReaders : sending[r].stage # "idle" => SameAttempt(r)
  BY <1>4, PipelineAssumption DEF Notified, SendingOn, AttemptsStay
<1>6. Notified'
  BY <1>2, <1>3, <1>5, NotificationUntouched DEF MarksStay, Notified, NotificationTypeOK
<1>7. QED
  BY <1>4, <1>6

LEMMA PreferencesKeep ==
  ASSUME Delivered, Notified, MarksStay, NEW u \in Users, NEW channels \in PrefRequests,
         UpdatePreferences(u, channels)
  PROVE  Notified' /\ Delivering /\ AttemptsStay(Readers)
<1>1. Delivering /\ AttemptsStay(Readers)
  BY NothingConsumed DEF UpdatePreferences
<1>2. UNCHANGED <<notices, sending, received>>
  BY DEF UpdatePreferences
<1>3. prefs' \in [Users -> SUBSET Channels]
  BY PipelineAssumption DEF UpdatePreferences, Notified, NotificationTypeOK
<1>4. \A r \in NotificationReaders : sending[r].stage # "idle" => SameAttempt(r)
  BY <1>1, PipelineAssumption DEF Notified, SendingOn, AttemptsStay
<1>5. Notified'
  BY <1>2, <1>3, <1>4, NotificationUntouched DEF MarksStay, Notified, NotificationTypeOK
<1>6. QED
  BY <1>1, <1>5

LEMMA ForgetSendingKeeps ==
  ASSUME Notified, ForgetSending
  PROVE  Notified'
<1>1. Idle \in Sending /\ Idle.stage = "idle"
  BY NotificationAssumption DEF Idle, Sending
<1>2. sending' = [r \in NotificationReaders |-> Idle] /\ UNCHANGED <<notices, prefs>>
  BY DEF ForgetSending
<1>3. received' \in SUBSET Nat
  BY DEF ForgetSending, MayHaveArrived, Notified, NotificationTypeOK, Sending
<1>4. NotificationTypeOK'
  BY <1>1, <1>2, <1>3 DEF Notified, NotificationTypeOK
<1>5. \A r \in NotificationReaders : SendingOn(r)'
  BY <1>1, <1>2 DEF SendingOn, OnWebhook
<1>6. QED
  BY <1>4, <1>5 DEF Notified

LEMMA InitNotified == NotificationInit => Notified
<1> SUFFICES ASSUME NotificationInit PROVE Notified
  OBVIOUS
<1>1. Idle \in Sending /\ Idle.stage = "idle"
  BY NotificationAssumption DEF Idle, Sending
<1>2. NotificationTypeOK
  BY <1>1, NotificationAssumption DEF NotificationInit, NotificationTypeOK
<1>3. \A r \in NotificationReaders : SendingOn(r)
  BY <1>1 DEF NotificationInit, SendingOn, OnWebhook
<1>4. QED
  BY <1>2, <1>3 DEF Notified
-----------------------------------------------------------------------------
(***************************************************************************)
(* The audit trail                                                         *)
(***************************************************************************)

AuditRow == [event : EventTypes \X Nat, key : EventTypes \X Nat \X Nat]

\* A key is what identifies the event, and one component more.
LEMMA OneMoreComponent ==
  ASSUME NEW S, NEW a \in S, NEW b \in S, NEW c \in S
  PROVE  <<a, b>> \o <<c>> = <<a, b, c>>
<1>1. <<a, b>> \in Seq(S) /\ <<c>> \in Seq(S) /\ <<a, b, c>> \in Seq(S)
  OBVIOUS
<1>2. PICK s \in Seq(S), t \in Seq(S) : s = <<a, b>> /\ t = <<c>>
  BY <1>1
<1>3. PICK u \in Seq(S) : u = s \o t
  <2>1. s \o t \in Seq(S)
    OBVIOUS
  <2>2. QED
    BY <2>1
<1>4. PICK v \in Seq(S) : v = <<a, b, c>>
  BY <1>1
<1>5. Len(s) = 2 /\ Len(t) = 1
  BY <1>2
<1>6. Len(u) = 3 /\ u[1] = a /\ u[2] = b /\ u[3] = c
  BY <1>2, <1>3, <1>5
<1>7. Len(v) = 3 /\ v[1] = a /\ v[2] = b /\ v[3] = c
  BY <1>4
<1>8. \A i \in 1 .. Len(u) : u[i] = v[i]
  BY <1>6, <1>7
<1>9. u = v
  BY <1>6, <1>7, <1>8, SeqEqual
<1>10. QED
  BY <1>2, <1>3, <1>4, <1>9

\* An event that is audited has its row, the old one or a new one.
LEMMA InsertionKeeps ==
  ASSUME Delivered, Audited, NEW r \in AuditReaders, Attempting(r), Insertion(r),
         NEW event, event = EventId(r)
  PROVE  Audited' /\ HasRow(event)'
<1>1. PICK type, n : type = Message(r).type /\ n = handling[r][2]
  OBVIOUS
<1>2. event = <<type, n>>
  BY <1>1 DEF EventId
<1>3. type \in EventTypes /\ n \in Nat
  <2>1. Message(r) \in Messages /\ handling[r] \in Partitions \X Numbers
    BY EventAtHand, PipelineAssumption DEF Attempting, Delivered, ConsumerInv
  <2>2. Message(r).type \in EventTypes
    BY <2>1 DEF Messages, SourceEvent, AlertEvent, NotificationEvent, EventTypes
  <2>3. QED
    BY <1>1, <2>1, <2>2 DEF Numbers
<1>4. trail \in Seq(AuditRow)
  BY DEF Audited, AuditTypeOK, AuditRow
<1>5. PICK k \in Nat : SourceEventKey(r) = <<type, n>> \o <<k>>
  <2>1. Len(trail) + 1 \in Nat
    BY <1>4
  <2>2. QED
    BY <1>1, <2>1 DEF SourceEventKey, EventId
<1>6. SourceEventKey(r) = <<type, n, k>>
  <2>1. PICK S : S = EventTypes \union Nat
    OBVIOUS
  <2>2. type \in S /\ n \in S /\ k \in S
    BY <1>3, <2>1
  <2>3. QED
    BY <1>5, <2>2, OneMoreComponent
<1>7. CASE Stored(r)
  <2>1. trail' = trail
    BY <1>7 DEF Insertion
  <2>2. PICK i \in DOMAIN trail : trail[i].key = <<type, n, k>>
    BY <1>6, <1>7 DEF Stored
  <2>3. trail[i].event = event
    BY <1>2, <2>2 DEF Audited, KeyNamesTheEvent
  <2>4. HasRow(event)'
    BY <2>1, <2>3 DEF HasRow
  <2>5. Audited'
    BY <2>1 DEF Audited, AuditTypeOK, KeyNamesTheEvent
  <2>6. QED
    BY <2>4, <2>5
<1>8. CASE ~Stored(r)
  <2>1. PICK row \in AuditRow : row = [event |-> event, key |-> <<type, n, k>>]
    <3>1. event \in EventTypes \X Nat /\ <<type, n, k>> \in EventTypes \X Nat \X Nat
      BY <1>2, <1>3
    <3>2. QED
      BY <3>1 DEF AuditRow
  <2>2. row.event = event /\ row.event = <<row.key[1], row.key[2]>>
    BY <1>2, <2>1
  <2>3. trail' = Append(trail, row)
    BY <1>6, <1>8, <2>1 DEF Insertion
  <2>4. /\ trail' \in Seq(AuditRow)
        /\ Len(trail) \in Nat
        /\ DOMAIN trail = 1 .. Len(trail)
        /\ DOMAIN trail' = 1 .. Len(trail) + 1
        /\ \A i \in DOMAIN trail : trail'[i] = trail[i]
        /\ trail'[Len(trail) + 1] = row
    BY <1>4, <2>3, OneMoreRow
  <2>5. HasRow(event)'
    BY <2>2, <2>4 DEF HasRow
  <2>6. KeyNamesTheEvent'
    <3>1. \A i \in DOMAIN trail' : i \in DOMAIN trail \/ i = Len(trail) + 1
      BY <2>4
    <3>2. QED
      BY <2>2, <2>4, <3>1 DEF Audited, KeyNamesTheEvent
  <2>7. QED
    BY <2>4, <2>5, <2>6 DEF Audited, AuditTypeOK, AuditRow
<1>9. QED
  BY <1>7, <1>8

LEMMA AuditUntouched ==
  ASSUME Audited, UNCHANGED trail
  PROVE  Audited'
BY DEF Audited, AuditTypeOK, KeyNamesTheEvent

LEMMA RecordKeeps ==
  ASSUME Delivered, Audited, NEW r \in AuditReaders, RecordEvent(r)
  PROVE  Audited' /\ Delivering /\ AttemptsStay(Readers \ {r})
<1>1. Attempting(r) /\ Insertion(r) /\ Succeed(r) /\ UNCHANGED topic
  BY DEF RecordEvent, Auditing, Succeed
<1>2. r \in Readers /\ r \notin SurveillanceReaders /\ r \notin NotificationReaders
  BY PipelineAssumption
<1>3. AttemptsStay(Readers \ {r})
  BY <1>1, <1>2, AttemptingStays DEF Delivered, ConsumerInv
<1>4. PICK p \in Partitions, n \in Numbers :
        handling[r] = <<p, n>> /\ ReaderOf[p] = r
  BY <1>1, <1>2, EventAtHand DEF Attempting, Delivered, ConsumerInv
<1>5. PICK event : event = EventId(r)
  OBVIOUS
<1>6. Audited' /\ HasRow(event)'
  BY <1>1, <1>5, InsertionKeeps
<1>7. <<topic'[p][n].type, n>> = event
  BY <1>1, <1>4, <1>5 DEF EventId, Message
<1>8. MarkLeft(p, n)'
  BY <1>2, <1>4, <1>6, <1>7 DEF MarkLeft
<1>9. Delivering
  BY <1>1, <1>2, <1>4, <1>8 DEF Delivering
<1>10. QED
  BY <1>3, <1>6, <1>9

LEMMA AuditFailureKeeps ==
  ASSUME Delivered, Audited, NEW r \in AuditReaders, AuditDatabaseError(r) \/ RejectUnreadable(r)
  PROVE  Audited' /\ Delivering /\ AttemptsStay(Readers \ {r})
<1>1. /\ Attempting(r) /\ FailAttempt(r)
      /\ Insertion(r) \/ UNCHANGED trail
  BY DEF AuditDatabaseError, RejectUnreadable, Auditing
<1>2. r \in Readers
  BY PipelineAssumption
<1>3. AttemptsStay(Readers \ {r}) /\ Delivering
  BY <1>1, <1>2, AttemptingStays DEF Delivered, ConsumerInv, Delivering
<1>4. Audited'
  BY <1>1, InsertionKeeps, AuditUntouched
<1>5. QED
  BY <1>3, <1>4

-----------------------------------------------------------------------------
(***************************************************************************)
(* All of it                                                               *)
(***************************************************************************)

\* Nothing but a call changes rules or preferences: a restart finds the
\* rules as they were.
LEMMA NothingIsChanged ==
  ASSUME ConfigsKept, NothingWasChanged, [Next]_vars
  PROVE  NothingWasChanged'
<1> SUFFICES ASSUME ~called'
             PROVE  /\ prefs' = FirstPrefs
                    /\ \A u \in Managers : call'[u] = Absent
                    /\ \A rule \in Rules : table'[DefaultTenant][rule].setting = Fallback[rule]
                    /\ \A t \in Tenants : cache'[t] # Absent => cache'[t] = Fallback
  BY DEF NothingWasChanged
<1>1. ~UserCall
  BY DEF UserCall
<1>2. called => called'
  BY DEF Next, vars, SourceEvents, Handle, Consume, Survey, Notify, Audit, Faulty, Fault,
     Uneventful, ConfigCall, UserCall, AnalystCall, NoticeCall, RestartSurveillance,
     RestartNotification, RestartAudit
<1>3. /\ prefs = FirstPrefs
      /\ \A u \in Managers : call[u] = Absent
      /\ \A rule \in Rules : table[DefaultTenant][rule].setting = Fallback[rule]
      /\ \A t \in Tenants : cache[t] # Absent => cache[t] = Fallback
  BY <1>2 DEF NothingWasChanged
<1>4. ASSUME UNCHANGED <<configVars, prefs>>
      PROVE  /\ prefs' = FirstPrefs
             /\ \A u \in Managers : call'[u] = Absent
             /\ \A rule \in Rules : table'[DefaultTenant][rule].setting = Fallback[rule]
             /\ \A t \in Tenants : cache'[t] # Absent => cache'[t] = Fallback
  BY <1>3, <1>4 DEF configVars
<1>5. ASSUME NEW u \in Managers, ConfigCall(u) PROVE FALSE
  BY <1>1, <1>3, <1>5 DEF ConfigCall, WriteRule, LoadRules, InstallRules, LoadFails
<1>6. ~NoticeCall
  BY <1>1 DEF NoticeCall
<1>7. CASE RestartSurveillance
  <2>1. RestartConfigs /\ UNCHANGED prefs
    BY <1>7 DEF RestartSurveillance, ForgetEngine, SurveillanceOnly, notificationVars
  <2>2. UNCHANGED table
    <3>1. table \in [Tenants -> [Rules -> Row \union {Absent}]] /\ OnlyDefaultRows
      BY DEF ConfigsKept, ConfigsTypeOK
    <3>2. [rule \in Rules |->
             IF table[DefaultTenant][rule] # Absent THEN table[DefaultTenant][rule]
             ELSE [id |-> <<DefaultTenant, rule>>, setting |-> Fallback[rule]]]
            = table[DefaultTenant]
      BY <3>1, RuleConfigsAssumption DEF OnlyDefaultRows
    <3>3. WithDefaults(table) = table
      BY <3>1, <3>2 DEF WithDefaults
    <3>4. QED
      BY <2>1, <3>3 DEF RestartConfigs
  <2>3. \/ cache' = [t \in Tenants |-> IF t = DefaultTenant THEN Effective(t) ELSE Absent]
        \/ cache' = [t \in Tenants |-> Absent]
    BY <2>1, <2>2 DEF RestartConfigs, FreshCache, Effective
  <2>4. \A t \in Tenants : Effective(t) = Fallback
    <3>1. \A t \in Tenants :
            Effective(t) = [rule \in Rules |-> table[DefaultTenant][rule].setting]
      BY DefaultRowsAnswer DEF ConfigsKept, ConfigsTypeOK
    <3>2. Fallback = [rule \in Rules |-> table[DefaultTenant][rule].setting]
      BY <1>3, RuleConfigsAssumption
    <3>3. QED
      BY <3>1, <3>2
  <2>5. \A t \in Tenants : cache'[t] # Absent => cache'[t] = Fallback
    BY <2>3, <2>4
  <2>6. \A u \in Managers : call'[u] = Absent
    BY <2>1 DEF RestartConfigs
  <2>7. QED
    BY <1>3, <2>1, <2>2, <2>5, <2>6
<1>8. ASSUME NEW r \in Readers, Handle(r) \/ Faulty(r) PROVE UNCHANGED <<configVars, prefs>>
  BY <1>8 DEF Handle, Faulty, Consume, Survey, Notify, Audit, SurveillanceOnly,
     NotificationOnly, AuditOnly, notificationVars,
     RejectSource, Evaluate, RaiseAlert, PublishAlert, PublishAlertFails, SourceProcessed,
     SurveillanceDatabaseError, IgnoreUserless, ReadPreferences, SkipNotice, SendAtOnce,
     OpenWebhook, PostWebhook, SettleWebhook, AlertProcessed, SendIsCutShort, PostFails,
     NotificationDatabaseError
<1>9. ASSUME \/ \E type \in SourceTypes : SourceEvents(type)
             \/ \E a \in Analysts : AnalystCall(a)
             \/ RestartNotification \/ RestartAudit \/ UNCHANGED vars
      PROVE  UNCHANGED <<configVars, prefs>>
  BY <1>9 DEF SourceEvents, AnalystCall, ChangeAlert, AnnounceChange, RestartNotification,
     RestartAudit, SurveillanceOnly, NotificationOnly, AuditOnly, ForgetSending,
     notificationVars, vars
<1>10. QED
  BY <1>4, <1>5, <1>6, <1>7, <1>8, <1>9 DEF Next

LEMMA PlanStays == PlanInHand /\ [Next]_vars => PlanInHand'
<1> SUFFICES ASSUME PlanInHand, [Next]_vars PROVE PlanInHand'
  OBVIOUS
<1> DEFINE F == [SourceTypes -> Seq(SourceEvent)]
<1>1. PICK feed \in F, faults \in Nat, calls \in Nat :
        ahead = [feed |-> feed, faults |-> faults, calls |-> calls]
  BY DEF PlanInHand
<1>2. ahead.feed = feed /\ ahead.faults = faults /\ ahead.calls = calls
  BY <1>1
<1>3. ASSUME Fault PROVE PlanInHand'
  <2>1. PICK fewer \in Nat : fewer = faults - 1
    BY <1>2, <1>3 DEF Fault
  <2>2. ahead' = [ahead EXCEPT !.faults = fewer]
    BY <1>2, <1>3, <2>1 DEF Fault
  <2>3. ahead' = [feed |-> feed, faults |-> fewer, calls |-> calls]
    BY <1>1, <2>2
  <2>4. QED
    BY <2>3 DEF PlanInHand
<1>4. ASSUME UserCall PROVE PlanInHand'
  <2>1. PICK fewer \in Nat : fewer = calls - 1
    BY <1>2, <1>4 DEF UserCall
  <2>2. ahead' = [ahead EXCEPT !.calls = fewer]
    BY <1>2, <1>4, <2>1 DEF UserCall
  <2>3. ahead' = [feed |-> feed, faults |-> faults, calls |-> fewer]
    BY <1>1, <2>2
  <2>4. QED
    BY <2>3 DEF PlanInHand
<1>5. ASSUME NEW type \in SourceTypes, SourceEvents(type) PROVE PlanInHand'
  <2>1. PICK rest \in F : rest = [feed EXCEPT ![type] = <<>>]
    <3>1. [feed EXCEPT ![type] = <<>>] \in F
      OBVIOUS
    <3>2. QED
      BY <3>1
  <2>2. ahead' = [ahead EXCEPT !.feed = rest]
    BY <1>2, <1>5, <2>1 DEF SourceEvents
  <2>3. ahead' = [feed |-> rest, faults |-> faults, calls |-> calls]
    BY <1>1, <2>2
  <2>4. QED
    BY <2>3 DEF PlanInHand
<1>6. ASSUME UNCHANGED ahead PROVE PlanInHand'
  BY <1>6 DEF PlanInHand
<1>7. QED
  BY <1>3, <1>4, <1>5, <1>6 DEF Next, vars, Handle, Consume, Survey, Notify, Audit, Faulty,
     Uneventful, ConfigCall, AnalystCall, NoticeCall, RestartSurveillance,
     RestartNotification, RestartAudit
LEMMA FewerStay ==
  ASSUME NEW R, AttemptsStay(Readers)
  PROVE  AttemptsStay(Readers \ R)
BY DEF AttemptsStay

\* A service that has no part in a step.
LEMMA Bystanders ==
  ASSUME MarksInv, MarksStay, NEW R, AttemptsStay(Readers \ R)
  PROVE  /\ UNCHANGED surveillanceVars /\ R \intersect SurveillanceReaders = {} => Surveyed'
         /\ UNCHANGED notificationVars /\ R \intersect NotificationReaders = {} => Notified'
         /\ UNCHANGED trail => Audited'
<1>1. ASSUME UNCHANGED surveillanceVars, R \intersect SurveillanceReaders = {}
      PROVE  Surveyed'
  <2>1. \A r \in SurveillanceReaders : work[r].evaluated => SameAttempt(r)
    BY <1>1, PipelineAssumption DEF MarksInv, Surveyed, Raising, AttemptsStay
  <2>2. QED
    BY <1>1, <2>1, SurveillanceUntouched DEF MarksInv, MarksStay
<1>2. ASSUME UNCHANGED notificationVars, R \intersect NotificationReaders = {}
      PROVE  Notified'
  <2>1. UNCHANGED <<notices, prefs, sending, received>>
    BY <1>2 DEF notificationVars
  <2>2. \A r \in NotificationReaders : sending[r].stage # "idle" => SameAttempt(r)
    BY <1>2, SendersStay DEF MarksInv
  <2>3. notices' \in Seq(Notice) /\ prefs' \in [Users -> SUBSET Channels]
    BY <2>1 DEF MarksInv, Notified, NotificationTypeOK
  <2>4. QED
    BY <2>1, <2>2, <2>3, NotificationUntouched DEF MarksInv, MarksStay
<1>3. QED
  BY <1>1, <1>2, AuditUntouched DEF MarksInv

LEMMA NobodyStops ==
  ASSUME MarksInv, MarksStay, AttemptsStay(Readers)
  PROVE  /\ UNCHANGED surveillanceVars => Surveyed'
         /\ UNCHANGED notificationVars => Notified'
         /\ UNCHANGED trail => Audited'
<1>1. PICK R : R = {}
  OBVIOUS
<1>2. R \intersect SurveillanceReaders = {} /\ R \intersect NotificationReaders = {}
  BY <1>1
<1>3. AttemptsStay(Readers \ R)
  BY FewerStay
<1>4. QED
  BY <1>2, <1>3, Bystanders

\* The readers of a service belong to it alone.
LEMMA OwnReaders ==
  ASSUME NEW r \in Readers
  PROVE  /\ r \in SurveillanceReaders => {r} \intersect NotificationReaders = {}
         /\ r \in NotificationReaders => {r} \intersect SurveillanceReaders = {}
         /\ r \in AuditReaders => {r} \intersect (SurveillanceReaders \union NotificationReaders) = {}
BY PipelineAssumption

LEMMA SurveyKeeps ==
  ASSUME MarksInv, MarksStay, NEW r \in SurveillanceReaders,
         \/ Survey(r)
         \/ (SurveillanceDatabaseError(r) \/ PublishAlertFails(r)) /\ SurveillanceOnly
  PROVE  Surveyed' /\ Notified' /\ Audited' /\ Delivering
<1> USE DEF MarksInv
<1>1. AlertsStay /\ (called => called')
  BY DEF MarksStay
<1>2. Surveyed' /\ Delivering /\ AttemptsStay(Readers \ {r})
  <2>1. CASE RejectSource(r)
    BY <2>1, RejectKeeps
  <2>2. CASE Evaluate(r)
    <3>1. UNCHANGED consumerVars
      BY <2>2 DEF Evaluate
    <3>2. QED
      BY <1>1, <2>2, <3>1, EvaluateKeeps, NothingConsumed, FewerStay
  <2>3. CASE RaiseAlert(r)
    <3>1. UNCHANGED consumerVars
      BY <2>3 DEF RaiseAlert
    <3>2. QED
      BY <1>1, <2>3, <3>1, RaiseKeeps, NothingConsumed, FewerStay
  <2>4. CASE PublishAlert(r)
    BY <1>1, <2>4, PublishKeeps, FewerStay
  <2>5. CASE SourceProcessed(r)
    BY <2>5, SourceProcessedKeeps
  <2>6. CASE SurveillanceDatabaseError(r)
    BY <2>6, SurveillanceErrorKeeps
  <2>7. CASE PublishAlertFails(r)
    BY <1>1, <2>7, PublishFailsKeeps, FewerStay
  <2>8. QED
    BY <2>1, <2>2, <2>3, <2>4, <2>5, <2>6, <2>7 DEF Survey
<1>3. UNCHANGED <<notificationVars, trail>>
  BY DEF Survey, SurveillanceOnly
<1>4. r \in Readers
  BY PipelineAssumption
<1>5. {r} \intersect NotificationReaders = {}
  BY <1>4, OwnReaders
<1>6. Notified' /\ Audited'
  BY <1>2, <1>3, <1>5, Bystanders
<1>7. QED
  BY <1>2, <1>6

LEMMA NotifyKeeps ==
  ASSUME MarksInv, MarksStay, NEW r \in NotificationReaders,
         \/ Notify(r)
         \/ /\ SendIsCutShort(r) \/ PostFails(r) \/ NotificationDatabaseError(r)
            /\ NotificationOnly
  PROVE  Surveyed' /\ Notified' /\ Audited' /\ Delivering
<1> USE DEF MarksInv, TablesKept
<1>1. Notified' /\ Delivering /\ AttemptsStay(Readers \ {r})
  <2>1. CASE IgnoreUserless(r) \/ AlertProcessed(r)
    BY <2>1, IgnoreUserlessKeeps, AlertProcessedKeeps
  <2>2. CASE ReadPreferences(r) \/ SkipNotice(r)
    BY <2>2, ReadPreferencesKeeps, SkipNoticeKeeps, FewerStay
  <2>3. CASE SendAtOnce(r) \/ OpenWebhook(r)
    BY <2>3, SendAtOnceKeeps, OpenWebhookKeeps, FewerStay
  <2>4. CASE PostWebhook(r) \/ PostFails(r)
    BY <2>4, PostKeeps, FewerStay
  <2>5. CASE SettleWebhook(r)
    BY <2>5, SettleKeeps, FewerStay
  <2>6. CASE SendIsCutShort(r) \/ NotificationDatabaseError(r)
    BY <2>6, SendIsCutShortKeeps, NotificationErrorKeeps
  <2>7. QED
    BY <2>1, <2>2, <2>3, <2>4, <2>5, <2>6 DEF Notify
<1>2. UNCHANGED <<surveillanceVars, trail>>
  BY DEF Notify, NotificationOnly
<1>3. r \in Readers
  BY PipelineAssumption
<1>4. {r} \intersect SurveillanceReaders = {}
  BY <1>3, OwnReaders
<1>5. Surveyed' /\ Audited'
  BY <1>1, <1>2, <1>4, Bystanders
<1>6. QED
  BY <1>1, <1>5

LEMMA AuditKeeps ==
  ASSUME MarksInv, MarksStay, NEW r \in AuditReaders,
         \/ Audit(r)
         \/ AuditDatabaseError(r) /\ AuditOnly
  PROVE  Surveyed' /\ Notified' /\ Audited' /\ Delivering
<1>1. Audited' /\ Delivering /\ AttemptsStay(Readers \ {r})
  BY RecordKeeps, AuditFailureKeeps DEF MarksInv, Audit
<1>2. UNCHANGED <<surveillanceVars, notificationVars>>
  BY DEF Audit, AuditOnly
<1>3. r \in Readers
  BY PipelineAssumption
<1>4. {r} \intersect SurveillanceReaders = {} /\ {r} \intersect NotificationReaders = {}
  BY <1>3, OwnReaders
<1>5. Surveyed' /\ Notified'
  BY <1>1, <1>2, <1>4, Bystanders
<1>6. QED
  BY <1>1, <1>5

\* Events come, and what the readers do about them.
LEMMA HandlingIsKept ==
  ASSUME MarksInv, MarksStay,
         \/ \E type \in SourceTypes : SourceEvents(type)
         \/ \E r \in Readers : Handle(r) \/ Faulty(r)
  PROVE  Surveyed' /\ Notified' /\ Audited' /\ Delivering
<1>1. ASSUME NEW type \in SourceTypes, SourceEvents(type)
      PROVE  Surveyed' /\ Notified' /\ Audited' /\ Delivering
  <2>1. PICK ms \in Seq(SourceEvent) : ms = ahead.feed[type]
    BY DEF MarksInv, Delivered, PlanInHand
  <2>2. /\ Produce(Subscribed[type], ms)
        /\ UNCHANGED <<surveillanceVars, notificationVars, trail>>
    BY <1>1, <2>1 DEF SourceEvents, SurveillanceOnly
  <2>3. Delivering /\ AttemptsStay(Readers)
    BY <2>2, SourceEventsCarried, ProducingKeepsAttempts DEF MarksInv, Delivered
  <2>4. QED
    BY <2>2, <2>3, NobodyStops
<1>2. ASSUME NEW r \in Readers, Handle(r) \/ Faulty(r)
      PROVE  Surveyed' /\ Notified' /\ Audited' /\ Delivering
  <2>1. CASE Consume(r)
    <3>1. /\ FetchMessage(r) \/ DeadLetter(r) \/ CommitMessages(r)
          /\ UNCHANGED <<surveillanceVars, notificationVars, trail>>
      BY <2>1 DEF Consume, SurveillanceOnly
    <3>2. AttemptsStay(Readers)
      BY <3>1, ConsumingStays DEF MarksInv, Delivered, ConsumerInv
    <3>3. Delivering
      BY <3>1 DEF Delivering
    <3>4. QED
      BY <3>1, <3>2, <3>3, NobodyStops
  <2>2. CASE Survey(r) \/ Notify(r) \/ Audit(r)
    BY <2>2, SurveyKeeps, NotifyKeeps, AuditKeeps DEF Survey, Notify, Audit
  <2>3. CASE Faulty(r)
    BY <2>3, SurveyKeeps, NotifyKeeps, AuditKeeps DEF Faulty
  <2>4. QED
    BY <1>2, <2>1, <2>2, <2>3 DEF Handle
<1>3. QED
  BY <1>1, <1>2

LEMMA CallsAreKept ==
  ASSUME MarksInv, MarksStay,
         \/ \E u \in Managers : ConfigCall(u)
         \/ \E a \in Analysts : AnalystCall(a)
         \/ NoticeCall
         \/ UNCHANGED vars
  PROVE  Surveyed' /\ Notified' /\ Audited' /\ Delivering
<1>1. AlertsStay /\ (called => called')
  BY DEF MarksStay
<1>2. ASSUME UNCHANGED <<consumerVars, surveillanceVars, notificationVars, trail>>
      PROVE  Surveyed' /\ Notified' /\ Audited' /\ Delivering
  <2>1. Delivering /\ AttemptsStay(Readers)
    BY <1>2, NothingConsumed
  <2>2. QED
    BY <1>2, <2>1, NobodyStops
<1>3. ASSUME NEW u \in Managers, ConfigCall(u)
      PROVE  Surveyed' /\ Notified' /\ Audited' /\ Delivering
  BY <1>2, <1>3 DEF ConfigCall, SurveillanceOnly
<1>4. ASSUME NEW a \in Analysts, AnalystCall(a)
      PROVE  Surveyed' /\ Notified' /\ Audited' /\ Delivering
  <2>1. UNCHANGED <<notificationVars, trail>>
    BY <1>4 DEF AnalystCall, SurveillanceOnly
  <2>2. Surveyed' /\ Delivering /\ AttemptsStay(Readers)
    <3>1. CASE AnnounceChange(a)
      BY <1>1, <3>1, AnnounceKeeps DEF MarksInv
    <3>2. CASE \E i \in DOMAIN alerts, status \in AlertStatuses \ {"OPEN"} :
                 ChangeAlert(a, i, status)
      <4>1. UNCHANGED consumerVars
        BY <3>2 DEF ChangeAlert
      <4>2. QED
        BY <1>1, <3>2, <4>1, ChangeKeeps, NothingConsumed DEF MarksInv
    <3>3. QED
      BY <1>4, <3>1, <3>2 DEF AnalystCall
  <2>3. QED
    BY <2>1, <2>2, NobodyStops
<1>5. ASSUME NoticeCall PROVE Surveyed' /\ Notified' /\ Audited' /\ Delivering
  <2>1. UNCHANGED <<surveillanceVars, trail>>
    BY <1>5 DEF NoticeCall, NotificationOnly
  <2>2. Notified' /\ Delivering /\ AttemptsStay(Readers)
    BY <1>5, NoticeCallKeeps, PreferencesKeep DEF NoticeCall, MarksInv, TablesKept
  <2>3. QED
    BY <2>1, <2>2, NobodyStops
<1>6. CASE UNCHANGED vars
  BY <1>2, <1>6 DEF vars
<1>7. QED
  BY <1>3, <1>4, <1>5, <1>6

LEMMA RestartsAreKept ==
  ASSUME MarksInv, MarksStay, RestartSurveillance \/ RestartNotification \/ RestartAudit
  PROVE  Surveyed' /\ Notified' /\ Audited' /\ Delivering
<1>1. ASSUME NEW R \in SUBSET Readers, Restart(R)
      PROVE  Delivering /\ AttemptsStay(Readers \ R)
  BY <1>1, RestartingStays DEF Restart, Delivering, MarksInv, Delivered, ConsumerInv
<1>2. /\ SurveillanceReaders \in SUBSET Readers
      /\ NotificationReaders \in SUBSET Readers
      /\ AuditReaders \in SUBSET Readers
      /\ SurveillanceReaders \intersect NotificationReaders = {}
      /\ NotificationReaders \intersect SurveillanceReaders = {}
      /\ AuditReaders \intersect SurveillanceReaders = {}
      /\ AuditReaders \intersect NotificationReaders = {}
  BY PipelineAssumption
<1>3. CASE RestartSurveillance
  <2>1. Restart(SurveillanceReaders) /\ ForgetEngine /\ UNCHANGED <<notificationVars, trail>>
    BY <1>3 DEF RestartSurveillance, SurveillanceOnly
  <2>2. Surveyed'
    BY <2>1, ForgetEngineKeeps DEF MarksInv
  <2>3. QED
    BY <1>1, <1>2, <2>1, <2>2, Bystanders
<1>4. CASE RestartNotification
  <2>1. Restart(NotificationReaders) /\ ForgetSending /\ UNCHANGED <<surveillanceVars, trail>>
    BY <1>4 DEF RestartNotification, NotificationOnly
  <2>2. Notified'
    BY <2>1, ForgetSendingKeeps DEF MarksInv
  <2>3. QED
    BY <1>1, <1>2, <2>1, <2>2, Bystanders
<1>5. CASE RestartAudit
  <2>1. Restart(AuditReaders) /\ UNCHANGED <<surveillanceVars, notificationVars, trail>>
    BY <1>5 DEF RestartAudit, AuditOnly
  <2>2. QED
    BY <1>1, <1>2, <2>1, Bystanders
<1>6. QED
  BY <1>3, <1>4, <1>5

LEMMA NextKeepsMarks == MarksInv /\ [Next]_vars => MarksInv'
<1> SUFFICES ASSUME MarksInv, [Next]_vars PROVE MarksInv'
  OBVIOUS
<1>1. TablesKept' /\ MarksStay
  BY NextKeepsTables DEF MarksInv
<1>2. Surveyed' /\ Notified' /\ Audited' /\ Delivering
  BY <1>1, HandlingIsKept, CallsAreKept, RestartsAreKept DEF Next
<1>3. ConsumerInv(Messages, Settled)' /\ TopicsCarryTheirTypes'
  BY <1>1, <1>2, DeliveringKeeps DEF MarksInv, Delivered
<1>4. PlanInHand'
  BY PlanStays DEF MarksInv, Delivered
<1>5. NothingWasChanged'
  BY NothingIsChanged DEF MarksInv, TablesKept
<1>6. QED
  BY <1>1, <1>2, <1>3, <1>4, <1>5 DEF MarksInv, Delivered

LEMMA InitMarks == Init => MarksInv
<1> SUFFICES ASSUME Init PROVE MarksInv
  OBVIOUS
<1>1. TrailKept /\ Audited
  BY DEF Init, AuditInit, TrailKept, TrailIsRows, KeyIsTheEvent, OneRowPerEvent, Audited,
     AuditTypeOK, KeyNamesTheEvent, TrailRow
<1>2. TablesKept
  BY <1>1, InitAlerts, InitNotices, InitConfigsKept DEF TablesKept
<1>3. Surveyed /\ Notified
  BY InitSurveyed, InitNotified DEF Init
<1>4. ConsumerInv(Messages, Settled)
  BY InitConsumer, PipelineAssumption DEF Init
<1>5. TopicsCarryTheirTypes
  BY DEF Init, ConsumerInit, TopicsCarryTheirTypes, Busy
<1>6. PlanInHand
  BY PipelineAssumption DEF Init, PlanInHand
<1>7. NothingWasChanged
  <2>1. prefs = FirstPrefs /\ \A u \in Managers : call[u] = Absent
    BY DEF Init, NotificationInit, ConfigsInit
  <2>2. \A rule \in Rules : table[DefaultTenant][rule].setting = Fallback[rule]
    BY RuleConfigsAssumption DEF Init, ConfigsInit, WithDefaults
  <2>3. \A t \in Tenants : Effective(t) = Fallback
    <3>1. \A t \in Tenants :
            Effective(t) = [rule \in Rules |-> table[DefaultTenant][rule].setting]
      BY <1>2, DefaultRowsAnswer DEF TablesKept, ConfigsKept, ConfigsTypeOK
    <3>2. Fallback = [rule \in Rules |-> table[DefaultTenant][rule].setting]
      BY <2>2, RuleConfigsAssumption
    <3>3. QED
      BY <3>1, <3>2
  <2>4. cache = [t \in Tenants |-> IF t = DefaultTenant THEN Effective(t) ELSE Absent]
    BY DEF Init, ConfigsInit, FreshCache, Effective
  <2>5. QED
    BY <2>1, <2>2, <2>3, <2>4 DEF NothingWasChanged
<1>8. QED
  BY <1>1, <1>2, <1>3, <1>4, <1>5, <1>6, <1>7 DEF MarksInv, Delivered

\* Everything that the pipeline's tables, readers, topics and engine contain
\* is of its kind, a reader works on the message that it is busy with, and
\* the tables hold one alert per key, one notice per event and channel and
\* one audit row per event, through any number of redeliveries, failures and
\* restarts.
THEOREM AlertsInvHolds == Spec => []AlertsInv
<1>1. MarksInv => AlertsInv
  <2> SUFFICES ASSUME MarksInv PROVE AlertsInv
    OBVIOUS
  <2>1. ConsumerTypeOK(Messages)
    BY DEF MarksInv, Delivered, ConsumerInv
  <2>2. ConfigsTypeOK
    BY DEF MarksInv, TablesKept, ConfigsKept
  <2>3. SurveillanceTypeOK /\ NotificationTypeOK /\ AuditTypeOK
    BY DEF MarksInv, Surveyed, Notified, Audited
  <2>4. OneAlertPerKey /\ OneNoticePerChannel /\ WebhookStatusIsEarned /\ OneRowPerEvent
    BY DEF MarksInv, TablesKept, AlertsKept, NoticesKept, TrailKept
  <2>5. WorkIsForTheMessage
    BY DEF MarksInv, Surveyed, Raising, WorkIsForTheMessage
  <2>6. SendingIsForTheEvent
    BY DEF MarksInv, Notified, SendingOn, OnWebhook, SendingIsForTheEvent
  <2>7. QED
    BY <2>1, <2>2, <2>3, <2>4, <2>5, <2>6 DEF AlertsInv
<1>2. QED
  BY <1>1, InitMarks, NextKeepsMarks, PTL DEF Spec

\* An event that a reader has passed left its mark: the alerts for the
\* thresholds it breaches, a notice on each of the user's channels, its
\* audit row, unless it is in a dead-letter topic or was given up.  Neither
\* a failed attempt nor a crash after some of the matches or channels, nor a
\* redelivery that finds some of them done, loses the rest.
THEOREM PassedLeavesItsMarkHolds == Spec => []PassedLeavesItsMark
<1>1. MarksInv => PassedLeavesItsMark
  <2> SUFFICES ASSUME MarksInv, NEW p \in Partitions, NEW n \in 1 .. Len(topic[p]), Passed(p, n)
               PROVE  MarkLeft(p, n) \/ GivenUp(p, n)
    BY DEF PassedLeavesItsMark
  <2>1. /\ ConsumerTypeOK(Messages)
        /\ Behind(Settled)
    BY DEF MarksInv, Delivered, ConsumerInv
  <2>2. n \in Numbers /\ assigned[p] \in Readers
    BY <2>1 DEF ConsumerTypeOK, Numbers
  <2>3. <<p, n>> \in Settled
    BY <2>1, <2>2 DEF Behind, Passed
  <2>4. QED
    BY <2>3 DEF Settled, GivenUp
<1>2. QED
  BY <1>1, InitMarks, NextKeepsMarks, PTL DEF Spec
=============================================================================
