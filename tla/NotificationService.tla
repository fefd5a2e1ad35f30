------------------------- MODULE NotificationService -------------------------
(***************************************************************************)
(* The notification service: its readers turn each surveillance event of a *)
(* user into one notice per channel that the user has enabled.  In-app and *)
(* e-mail notices are sent by being stored; a webhook is posted up to      *)
(* MaxPosts times and the notice settled afterwards.  Users mark notices   *)
(* read, managers ask for failed ones to be retried.                       *)
(*                                                                         *)
(* Abstractions.  Title, message, priority and address of a notice are     *)
(* left out: min_priority is stored and never looked at.  One process      *)
(* consumes, and its readers handle different events, so nobody inserts a  *)
(* notice between the look for a duplicate and the insert.  The alert      *)
(* events come from the surveillance service and carry their ids.          *)
(***************************************************************************)
EXTENDS PlatformEvents

CONSTANTS
  NotificationReaders,
  FirstPrefs,     \* FirstPrefs[u]: the channels that u's row enables at first
  MaxPosts        \* WEBHOOK_MAX_RETRIES

Channels == {"IN_APP", "EMAIL", "WEBHOOK"}

ASSUME NotificationAssumption ==
  /\ MaxPosts \in Nat \ {0}
  /\ FirstPrefs \in [Users -> SUBSET Channels]

VARIABLES
  notices,    \* notifications, by id
  prefs,      \* prefs[u]: the channels that u has enabled
  sending,    \* sending[r]: what r still has to send of its event
  received    \* history: the notices that the user's webhook has received

notificationVars == <<notices, prefs, sending, received>>

NotificationEvent ==
  [type : NotificationTypes, notice : Nat, user : Users]
NoticeStatuses == {"PENDING", "SENT", "FAILED", "READ", "RETRYING"}
Notice ==
  [event : AlertTypes \X Nat, channel : Channels, user : Users,
   status : NoticeStatuses, attempts : Nat]

Idle == [stage |-> "idle", left |-> {}, notice |-> 0, posts |-> 0]
Sending ==
  [stage : {"idle", "channels", "posting", "delivered", "undelivered"},
   left : SUBSET Channels, notice : Nat, posts : 0 .. MaxPosts]

NotificationTypeOK ==
  /\ notices \in Seq(Notice)
  /\ prefs \in [Users -> SUBSET Channels]
  /\ sending \in [NotificationReaders -> Sending]
  /\ received \in SUBSET Nat

\* A user without a row gets one with the first event: in-app notices only.
NotificationInit ==
  /\ notices = <<>>
  /\ prefs = FirstPrefs
  /\ sending = [r \in NotificationReaders |-> Idle]
  /\ received = {}

-----------------------------------------------------------------------------
(***************************************************************************)
(* Handling an alert event                                                 *)
(***************************************************************************)

Notifying(r) ==
  /\ r \in NotificationReaders
  /\ Attempting(r)

IgnoreUserless(r) ==
  /\ Notifying(r)
  /\ Message(r).user = NoOne
  /\ Succeed(r)
  /\ UNCHANGED notificationVars

\* createFromAlert: the channels are fixed here, whatever the user changes
\* while the event is handled.
ReadPreferences(r) ==
  /\ Notifying(r)
  /\ Message(r).user # NoOne
  /\ sending[r].stage = "idle"
  /\ sending' = [sending EXCEPT ![r].stage = "channels",
       ![r].left = prefs[Message(r).user]]
  /\ UNCHANGED <<consumerVars, notices, prefs, received>>

\* In-app notices come first, the webhook's last.
FirstChannel(left) ==
  CHOOSE channel \in left :
    /\ "IN_APP" \in left => channel = "IN_APP"
    /\ channel = "WEBHOOK" => left = {"WEBHOOK"}

\* A look for duplicates that forgets the channel.
DuplicateOnAnyChannel(r, channel) == \E i \in DOMAIN notices :
  notices[i].event = EventId(r)

\* DuplicateExists, whatever became of that notice.
DuplicateNotice(r, channel) == \E i \in DOMAIN notices :
  notices[i].event = EventId(r) /\ notices[i].channel = channel

NextChannel(r) ==
  [sending EXCEPT ![r] =
     [stage |-> "channels", left |-> @.left \ {FirstChannel(@.left)},
      notice |-> 0, posts |-> 0]]

SkipNotice(r) ==
  /\ sending[r].stage = "channels"
  /\ sending[r].left # {}
  /\ DuplicateNotice(r, FirstChannel(sending[r].left))
  /\ sending' = NextChannel(r)
  /\ UNCHANGED <<consumerVars, notices, prefs, received>>

New(r, status, attempts) ==
  Append(notices, [event |-> EventId(r), channel |-> FirstChannel(sending[r].left),
                   user |-> Message(r).user, status |-> status, attempts |-> attempts])

Creating(r, channels) ==
  /\ sending[r].stage = "channels"
  /\ sending[r].left # {}
  /\ FirstChannel(sending[r].left) \in channels
  /\ ~DuplicateNotice(r, FirstChannel(sending[r].left))

\* The event about notice i; a failed publish is not even logged.
Tell(type, i) ==
  Publish([type |-> type, notice |-> i, user |-> notices'[i].user])

\* sendInApp and sendEmail; an e-mail notice records its attempt.
SendAtOnce(r) ==
  /\ Creating(r, {"IN_APP", "EMAIL"})
  /\ notices' = New(r, "SENT", IF FirstChannel(sending[r].left) = "EMAIL" THEN 1 ELSE 0)
  /\ sending' = NextChannel(r)
  /\ Tell("notification.sent", Len(notices'))
  /\ UNCHANGED <<prefs, received>>

\* The notice is stored, what follows fails: the next attempt finds it there.
SendIsCutShort(r) ==
  /\ Creating(r, {"EMAIL"})
  /\ notices' = New(r, "SENT", 0)
  /\ sending' = [sending EXCEPT ![r] = Idle]
  /\ FailAttempt(r)
  /\ UNCHANGED <<prefs, received>>

OpenWebhook(r) ==
  /\ Creating(r, {"WEBHOOK"})
  /\ notices' = New(r, "PENDING", 0)
  /\ sending' = [sending EXCEPT ![r].stage = "posting", ![r].notice = Len(notices')]
  /\ UNCHANGED <<consumerVars, prefs, received>>

\* The endpoint answers with a 2xx status.
PostWebhook(r) ==
  /\ sending[r].stage = "posting"
  /\ received' = received \union {sending[r].notice}
  /\ notices' = [notices EXCEPT ![sending[r].notice].attempts = @ + 1]
  /\ sending' = [sending EXCEPT ![r].stage = "delivered"]
  /\ UNCHANGED <<consumerVars, prefs>>

\* It answers with another status, or not in time: it may have the notice.
PostFails(r) ==
  /\ sending[r].stage = "posting"
  /\ received' \in {received, received \union {sending[r].notice}}
  /\ notices' = [notices EXCEPT ![sending[r].notice].attempts = @ + 1]
  /\ sending' = [sending EXCEPT ![r].posts = @ + 1,
       ![r].stage = IF sending[r].posts + 1 < MaxPosts THEN @ ELSE "undelivered"]
  /\ UNCHANGED <<consumerVars, prefs>>

Outcome(r) == IF sending[r].stage = "delivered" THEN "SENT" ELSE "FAILED"

\* UpdateStatus has no guard: it also overwrites READ.
SettleWebhook(r) ==
  /\ sending[r].stage \in {"delivered", "undelivered"}
  /\ notices' = [notices EXCEPT ![sending[r].notice].status = Outcome(r)]
  /\ sending' = NextChannel(r)
  /\ Tell(IF Outcome(r) = "SENT" THEN "notification.sent" ELSE "notification.failed",
          sending[r].notice)
  /\ UNCHANGED <<prefs, received>>

AlertProcessed(r) ==
  /\ Notifying(r)
  /\ sending[r].stage = "channels"
  /\ sending[r].left = {}
  /\ Succeed(r)
  /\ sending' = [sending EXCEPT ![r] = Idle]
  /\ UNCHANGED <<notices, prefs, received>>

\* A post that was under way may have arrived, even if nobody learns of it.
MayHaveArrived(R) ==
  {received, received \union
     {sending[r].notice : r \in {s \in R : sending[s].stage = "posting"}}}

\* A statement fails: the attempt is given up.  A webhook notice stays as it
\* is.
NotificationDatabaseError(r) ==
  /\ Notifying(r)
  /\ Message(r).user # NoOne
  /\ FailAttempt(r)
  /\ sending' = [sending EXCEPT ![r] = Idle]
  /\ received' \in MayHaveArrived({r})
  /\ UNCHANGED <<notices, prefs>>

-----------------------------------------------------------------------------
(***************************************************************************)
(* The users, and the end of the process                                   *)
(***************************************************************************)

MarkRead(i) ==
  /\ notices' = [notices EXCEPT ![i].status = "READ"]
  /\ Tell("notification.read", i)
  /\ UNCHANGED <<prefs, sending, received>>

\* Retry records an attempt and announces the request; nothing delivers it.
RetryNotice(i) ==
  /\ notices[i].status = "FAILED"
  /\ notices' = [notices EXCEPT ![i].status = "RETRYING", ![i].attempts = @ + 1]
  /\ Tell("notification.retry_requested", i)
  /\ UNCHANGED <<prefs, sending, received>>

UpdatePreferences(u, channels) ==
  /\ prefs' = [prefs EXCEPT ![u] = channels]
  /\ UNCHANGED <<consumerVars, notices, sending, received>>

\* The process is gone.
ForgetSending ==
  /\ sending' = [r \in NotificationReaders |-> Idle]
  /\ received' \in MayHaveArrived(NotificationReaders)
  /\ UNCHANGED <<notices, prefs>>

-----------------------------------------------------------------------------
(***************************************************************************)
(* What holds of it                                                        *)
(***************************************************************************)

\* One notice per event and channel, for all the redeliveries.
OneNoticePerChannel ==
  \A i, j \in DOMAIN notices :
    notices[i].event = notices[j].event /\ notices[i].channel = notices[j].channel => i = j

\* A reader sends on behalf of the event it is busy with, and a notice that
\* is being posted is that event's.
SendingIsForTheEvent ==
  \A r \in NotificationReaders :
    /\ sending[r].stage # "idle" => Attempting(r)
    /\ sending[r].stage \in {"posting", "delivered", "undelivered"} =>
         /\ sending[r].notice \in DOMAIN notices
         /\ notices[sending[r].notice].event = EventId(r)
         /\ notices[sending[r].notice].channel = "WEBHOOK"

\* A webhook notice counts as sent only when the endpoint has it, and as
\* failed only after MaxPosts attempts.
WebhookStatusIsEarned ==
  \A i \in DOMAIN notices : notices[i].channel = "WEBHOOK" =>
    /\ notices[i].status = "SENT" => i \in received
    /\ notices[i].status = "FAILED" => notices[i].attempts >= MaxPosts
=============================================================================
