--------------------------- MODULE OutboundDelivery ---------------------------
(***************************************************************************)
(* Outbound mail of one mailbox: the outbound_delivery rows of MailboxDO's *)
(* SQLite database, the alarm that dispatches them, the RPCs that schedule,*)
(* cancel and resend them, the operation fence in the control-plane        *)
(* database, and the email provider.                                       *)
(*                                                                         *)
(* Each SQLite transaction and each call that leaves the object (D1, R2,   *)
(* the provider) is a step of its own, so that everything which can happen *)
(* between two of them does: other alarm runs, RPCs, a crash, an           *)
(* organization suspension, the passing of time.                           *)
(*                                                                         *)
(* Simplifications.  A row is identified by its delivery id and stands for *)
(* the delivery and its one message.  Rows are never soft-deleted: no code *)
(* does it.  Time is in abstract units whose ratios are given by the       *)
(* constants.  Addresses, bodies and attachments have no identity.         *)
(***************************************************************************)
EXTENDS Integers, FiniteSets

CONSTANTS
  Deliveries,     \* identities of outbound_delivery rows
  Runs,           \* alarm invocations that may be in progress at once
  UndoWindow,     \* outboundUndoWindowMillis (10 s)
  AlarmRetry,     \* outboundAlarmRetryMillis (30 s)
  BaseDelay,      \* outboundRetryBaseDelayMillis (30 s)
  MaxDelay,       \* outboundRetryMaxDelayMillis (30 min)
  StaleTimeout,   \* outboundSendingStaleTimeoutMillis (15 min)
  MaxAttempts,    \* outboundRetryMaxAttempts (5)
  StartTime,      \* the clock when the mailbox is created
  MaxTime,        \* bound on the clock, for model checking
  ClockRetreats,  \* may the wall clock step back?
  NoAlarm,        \* getAlarm() answers null
  NoClaim         \* the run holds no OutboundDeliveryClaim

ASSUME TimingAssumption ==
  /\ UndoWindow \in Nat
  /\ AlarmRetry \in Nat
  /\ BaseDelay \in Nat
  /\ MaxDelay \in Nat
  /\ StaleTimeout \in Nat
  /\ StartTime \in Nat
  /\ StartTime > StaleTimeout
  /\ MaxTime \in Nat
  /\ MaxAttempts \in Nat \ {0}
  /\ ClockRetreats \in BOOLEAN

ASSUME NullAssumption == NoAlarm \notin Int

VARIABLES
  now,           \* Date.now()
  status,        \* outbound_delivery.status
  createdAt,     \* outbound_delivery.created_at
  sendAt,        \* outbound_delivery.send_at
  updatedAt,     \* outbound_delivery.updated_at
  attemptCount,  \* outbound_delivery.attempt_count
  version,       \* outbound_delivery.version
  folder,        \* message.folder_id of the delivery's message
  alarm,         \* the Durable Object's alarm
  mode,          \* is the object in memory?
  unreconciled,  \* an RPC has committed and has not reconciled the alarm yet
  pc,            \* where each alarm run is
  claim,         \* the claim each alarm run works on
  outcome,       \* what the run's dispatch resolved to
  fences,        \* fence rows each run holds
  orphaned,      \* is there a fence row whose holder is gone?
  active,        \* organization and mailbox are active
  open,          \* provider calls that have not been answered
  lost,          \* provider calls answered with an unknown outcome
  taken          \* provider calls whose message the provider has accepted

rows     == <<status, createdAt, sendAt, updatedAt, attemptCount, version, folder>>
runVars  == <<pc, claim, outcome, fences>>
provider == <<open, lost, taken>>
vars == <<now, rows, alarm, mode, unreconciled, runVars, orphaned, active, provider>>

Statuses == {"absent", "scheduled", "sending", "accepted", "cancelled",
             "failed", "indeterminate"}
Pending  == {"scheduled", "sending"}
Outcomes == {"none", "accepted", "failed", "retry", "indeterminate"}
Pcs == {"idle", "acquire", "recover", "claim", "load", "fence", "read", "await",
        "unfence", "settle", "defect", "release", "reconcile"}

Attempts == 1..MaxAttempts
Calls    == Deliveries \X Attempts
Claims   == [id : Deliveries, attempt : Attempts, version : Nat, at : Int]

Later(s, t) == IF s > t THEN s ELSE t
Earlier(s, t) == IF s < t THEN s ELSE t

\* outboundRetryDelayMillis: exponential, capped.
RetryDelay(n) == Earlier(BaseDelay * 2^(Later(0, n - 1)), MaxDelay)

ASSUME DelayAssumption == \A n \in Attempts : RetryDelay(n) \in Nat

-----------------------------------------------------------------------------
(* The alarm. *)

\* Mutant of WakeTimes: a claim in progress needs no alarm.
WakeTimesOfScheduled ==
  {sendAt[d] : d \in {e \in Deliveries : status[e] = "scheduled"}}

\* What nextScheduledAt takes the minimum of.
WakeTimes == {sendAt[d] : d \in {e \in Deliveries : status[e] = "scheduled"}}
               \cup {updatedAt[d] + StaleTimeout :
                       d \in {e \in Deliveries : status[e] = "sending"}}

AlarmTarget(next, current) ==
  IF next > now THEN next
  ELSE IF current # NoAlarm /\ current > now
       THEN Earlier(current, now + AlarmRetry)
       ELSE now + AlarmRetry

\* Mutant of ReconcileAlarm: ORDER BY ... DESC.
ReconcileAlarmToLast ==
  \/ WakeTimes = {} /\ alarm' = NoAlarm
  \/ \E next \in WakeTimes :
       /\ \A t \in WakeTimes : next >= t
       /\ alarm' = AlarmTarget(next, alarm)

\* MailboxOutboundAlarmScheduler.reconcile.  Awaiting the alarm storage keeps
\* the object's input gate closed, so nothing of the object runs in between.
ReconcileAlarm ==
  \/ WakeTimes = {} /\ alarm' = NoAlarm
  \/ \E next \in WakeTimes :
       /\ \A t \in WakeTimes : next <= t
       /\ alarm' = AlarmTarget(next, alarm)

-----------------------------------------------------------------------------
(* The store.  Every update names the status it expects. *)

\* Mutant of Owns: the guarded update forgets the status and the version.
OwnsAttempt(c) == attemptCount[c.id] = c.attempt

\* The claimed row is still the one this claim was made on.
Owns(c) ==
  /\ status[c.id] = "sending"
  /\ version[c.id] = c.version
  /\ attemptCount[c.id] = c.attempt

StaleRows == {d \in Deliveries :
                /\ status[d] = "sending"
                /\ updatedAt[d] <= Later(0, now - StaleTimeout)}

\* Mutant of RecoverStaleRows: an interrupted claim goes back to the queue.
RequeueStaleRows ==
  /\ status' = [d \in Deliveries |->
                  IF d \in StaleRows THEN "scheduled" ELSE status[d]]
  /\ updatedAt' = [d \in Deliveries |->
                     IF d \in StaleRows THEN now ELSE updatedAt[d]]
  /\ version' = [d \in Deliveries |->
                   IF d \in StaleRows THEN version[d] + 1 ELSE version[d]]
  /\ UNCHANGED <<createdAt, sendAt, attemptCount, folder>>

\* recoverStaleSending: an interrupted claim is never requeued.
RecoverStaleRows ==
  /\ status' = [d \in Deliveries |->
                  IF d \in StaleRows THEN "indeterminate" ELSE status[d]]
  /\ updatedAt' = [d \in Deliveries |->
                     IF d \in StaleRows THEN now ELSE updatedAt[d]]
  /\ version' = [d \in Deliveries |->
                   IF d \in StaleRows THEN version[d] + 1 ELSE version[d]]
  /\ UNCHANGED <<createdAt, sendAt, attemptCount, folder>>

DueRows == {d \in Deliveries : status[d] = "scheduled" /\ sendAt[d] <= now}

\* The guarded UPDATE of settle and retry.
MoveClaimed(c, to, at) ==
  /\ status' = [status EXCEPT ![c.id] = to]
  /\ updatedAt' = [updatedAt EXCEPT ![c.id] = at]
  /\ version' = [version EXCEPT ![c.id] = @ + 1]
  /\ UNCHANGED <<createdAt, attemptCount>>

-----------------------------------------------------------------------------
(* One alarm invocation: processOne, then reconcile. *)

Goto(r, from, to) == mode = "up" /\ pc[r] = from /\ pc' = [pc EXCEPT ![r] = to]

\* The runtime delivers a due alarm and forgets it.
FireAlarm(r) ==
  /\ Goto(r, "idle", "acquire")
  /\ alarm # NoAlarm
  /\ alarm <= now
  /\ alarm' = NoAlarm
  /\ UNCHANGED <<now, rows, mode, unreconciled, claim, outcome, fences,
                 orphaned, active, provider>>

\* Mutant of AcquireClaimFence: the status is checked, but no row is held.
CheckActiveOnly(r) ==
  /\ \/ active /\ Goto(r, "acquire", "recover")
     \/ ~active /\ Goto(r, "acquire", "reconcile")
  /\ UNCHANGED <<now, rows, alarm, mode, unreconciled, claim, outcome, fences,
                 orphaned, active, provider>>

\* The outer fence, "alarm-claim:<uuid>".  A D1 failure kills the run, and the
\* row may have been written before the failure was reported.
AcquireClaimFence(r) ==
  /\ \/ /\ active
        /\ Goto(r, "acquire", "recover")
        /\ fences' = [fences EXCEPT ![r] = {"claim"}]
        /\ UNCHANGED orphaned
     \/ /\ ~active
        /\ Goto(r, "acquire", "reconcile")
        /\ UNCHANGED <<fences, orphaned>>
     \/ /\ Goto(r, "acquire", "reconcile")
        /\ orphaned' \in {orphaned, orphaned \/ active}
        /\ UNCHANGED fences
  /\ UNCHANGED <<now, rows, alarm, mode, unreconciled, claim, outcome, active, provider>>

RecoverStaleSending(r) ==
  /\ Goto(r, "recover", "claim")
  /\ RecoverStaleRows
  /\ UNCHANGED <<now, alarm, mode, unreconciled, claim, outcome, fences,
                 orphaned, active, provider>>

\* The earliest due row becomes "sending" and its attempt is counted.
ClaimDue(r) ==
  \/ \E d \in DueRows :
       /\ \A e \in DueRows : sendAt[d] <= sendAt[e]
       /\ Goto(r, "claim", "load")
       /\ LET at == Later(now, Later(sendAt[d], updatedAt[d]))
          IN /\ status' = [status EXCEPT ![d] = "sending"]
             /\ attemptCount' = [attemptCount EXCEPT ![d] = @ + 1]
             /\ version' = [version EXCEPT ![d] = @ + 1]
             /\ updatedAt' = [updatedAt EXCEPT ![d] = at]
             /\ claim' = [claim EXCEPT ![r] =
                  [id |-> d, attempt |-> attemptCount[d] + 1,
                   version |-> version[d] + 1, at |-> at]]
       /\ UNCHANGED <<now, createdAt, sendAt, folder, alarm, mode, unreconciled,
                      outcome, fences, orphaned, active, provider>>
  \/ /\ DueRows = {}
     /\ Goto(r, "claim", "release")
     /\ UNCHANGED <<now, rows, alarm, mode, unreconciled, claim, outcome, fences,
                    orphaned, active, provider>>

\* recoverStaleSending and claimDue die on a storage failure.
StoreFails(r) ==
  /\ Goto(r, "recover", "release") \/ Goto(r, "claim", "release")
  /\ UNCHANGED <<now, rows, alarm, mode, unreconciled, claim, outcome, fences,
                 orphaned, active, provider>>

\* The dispatcher gives up before it has called the provider.
DispatchFails(r, from) ==
  /\ \/ /\ from # "read"
        /\ Goto(r, from, "settle")
     \/ /\ from = "read"
        /\ Goto(r, from, "unfence")
  /\ \E o \in {"retry", "failed"} :
       /\ from = "fence" => o = "retry"
       /\ outcome' = [outcome EXCEPT ![r] = o]
  /\ UNCHANGED <<now, rows, alarm, mode, unreconciled, claim, active, provider>>

\* MailboxOutboundDispatchStore.load: a missing or invalid snapshot is final.
LoadSnapshot(r) ==
  \/ /\ Goto(r, "load", "fence")
     /\ UNCHANGED <<now, rows, alarm, mode, unreconciled, claim, outcome, fences,
                    orphaned, active, provider>>
  \/ DispatchFails(r, "load") /\ UNCHANGED <<fences, orphaned>>

\* The inner fence.  A suspended organization and a D1 failure both resolve to
\* "retry".
AcquireDispatchFence(r) ==
  \/ /\ active
     /\ Goto(r, "fence", "read")
     /\ fences' = [fences EXCEPT ![r] = @ \cup {"dispatch"}]
     /\ UNCHANGED <<now, rows, alarm, mode, unreconciled, claim, outcome,
                    orphaned, active, provider>>
  \/ /\ DispatchFails(r, "fence")
     /\ orphaned' \in {orphaned, orphaned \/ active}
     /\ UNCHANGED fences

\* Attachment bytes are read from R2, then provider.send is called.
SendMessage(r) ==
  \/ /\ Goto(r, "read", "await")
     /\ open' = open \cup {<<claim[r].id, claim[r].attempt>>}
     /\ UNCHANGED <<now, rows, alarm, mode, unreconciled, claim, outcome, fences,
                    orphaned, active, lost, taken>>
  \/ DispatchFails(r, "read") /\ UNCHANGED <<fences, orphaned>>

\* The provider queues the message of a call, whether or not anyone still waits.
ProviderTakes(call) ==
  /\ call \in (open \cup lost) \ taken
  /\ taken' = taken \cup {call}
  /\ UNCHANGED <<now, rows, alarm, mode, unreconciled, runVars, orphaned, active, open, lost>>

\* The provider's answer.  Rejections and limits are answered only for messages
\* it has not taken; any other error says nothing about the message.
ProviderAnswers(r) ==
  LET call == <<claim[r].id, claim[r].attempt>>
  IN /\ Goto(r, "await", "unfence")
     /\ open' = open \ {call}
     /\ \/ /\ call \in taken
           /\ outcome' = [outcome EXCEPT ![r] = "accepted"]
           /\ UNCHANGED lost
        \/ /\ call \notin taken
           /\ \E o \in {"failed", "retry"} : outcome' = [outcome EXCEPT ![r] = o]
           /\ UNCHANGED lost
        \/ /\ outcome' = [outcome EXCEPT ![r] = "indeterminate"]
           /\ lost' = lost \cup {call}
     /\ UNCHANGED <<now, rows, alarm, mode, unreconciled, claim, fences,
                    orphaned, active, taken>>

\* Releasing the inner fence.  A failed release is a defect whatever the
\* provider said, and leaves the row behind (or not, if only the answer is lost).
ReleaseDispatchFence(r) ==
  /\ fences' = [fences EXCEPT ![r] = @ \ {"dispatch"}]
  /\ \/ Goto(r, "unfence", "settle") /\ UNCHANGED orphaned
     \/ Goto(r, "unfence", "defect") /\ orphaned' \in {orphaned, TRUE}
  /\ UNCHANGED <<now, rows, alarm, mode, unreconciled, claim, outcome, active, provider>>

\* lifecycle.settle after a dispatch that succeeded: the row and its message
\* move together, or the transaction dies.
SettleAccepted(r) ==
  LET c == claim[r]
  IN /\ outcome[r] = "accepted"
     /\ \/ /\ Owns(c)
           /\ folder[c.id] = "scheduled"
           /\ Goto(r, "settle", "release")
           /\ MoveClaimed(c, "accepted", Later(now, c.at))
           /\ folder' = [folder EXCEPT ![c.id] = "sent"]
           /\ UNCHANGED sendAt
        \/ /\ Owns(c)
           /\ folder[c.id] # "scheduled"
           /\ Goto(r, "settle", "defect")
           /\ UNCHANGED rows
        \/ /\ ~Owns(c)
           /\ Goto(r, "settle", "release")
           /\ UNCHANGED rows
     /\ UNCHANGED <<now, alarm, mode, unreconciled, claim, outcome, fences,
                    orphaned, active, provider>>

\* Mutant of SettleFinal: the row is stamped with the bare clock.
SettleFinalNow(r) ==
  /\ outcome[r] \in {"failed", "indeterminate"}
  /\ Goto(r, "settle", "release")
  /\ IF Owns(claim[r])
     THEN MoveClaimed(claim[r], outcome[r], now) /\ UNCHANGED <<sendAt, folder>>
     ELSE UNCHANGED rows
  /\ UNCHANGED <<now, alarm, mode, unreconciled, claim, outcome, fences,
                 orphaned, active, provider>>

\* lifecycle.settle after an error that is final.
SettleFinal(r) ==
  LET c == claim[r]
  IN /\ outcome[r] \in {"failed", "indeterminate"}
     /\ Goto(r, "settle", "release")
     /\ IF Owns(c)
        THEN MoveClaimed(c, outcome[r], Later(now, c.at)) /\ UNCHANGED <<sendAt, folder>>
        ELSE UNCHANGED rows
     /\ UNCHANGED <<now, alarm, mode, unreconciled, claim, outcome, fences,
                    orphaned, active, provider>>

\* Mutant of Retry: the budget is not enforced.
RetryForever(r) ==
  /\ outcome[r] = "retry"
  /\ Goto(r, "settle", "release")
  /\ IF Owns(claim[r])
     THEN LET c == claim[r]
          IN /\ MoveClaimed(c, "scheduled", now)
             /\ sendAt' = [sendAt EXCEPT ![c.id] = now + RetryDelay(c.attempt)]
             /\ UNCHANGED folder
     ELSE UNCHANGED rows
  /\ UNCHANGED <<now, alarm, mode, unreconciled, claim, outcome, fences,
                 orphaned, active, provider>>

\* lifecycle.retry: back to "scheduled" with a delay, or failed for good.
Retry(r) ==
  LET c == claim[r]
      at == Later(now, c.at)
  IN /\ outcome[r] = "retry"
     /\ Goto(r, "settle", "release")
     /\ \/ /\ Owns(c)
           /\ c.attempt >= MaxAttempts
           /\ MoveClaimed(c, "failed", at)
           /\ UNCHANGED <<sendAt, folder>>
        \/ /\ Owns(c)
           /\ c.attempt < MaxAttempts
           /\ MoveClaimed(c, "scheduled", at)
           /\ sendAt' = [sendAt EXCEPT ![c.id] = at + RetryDelay(c.attempt)]
           /\ UNCHANGED folder
        \/ ~Owns(c) /\ UNCHANGED rows
     /\ UNCHANGED <<now, alarm, mode, unreconciled, claim, outcome, fences,
                    orphaned, active, provider>>

\* settle and retry die on a storage failure.
SettleFails(r) ==
  /\ Goto(r, "settle", "defect")
  /\ UNCHANGED <<now, rows, alarm, mode, unreconciled, claim, outcome, fences,
                 orphaned, active, provider>>

\* catchDefect: nothing proves whether the provider took the message.  The
\* store may fail again, which leaves the row to recoverStaleSending.
SettleDefect(r) ==
  LET c == claim[r]
  IN /\ Goto(r, "defect", "release")
     /\ \/ /\ Owns(c)
           /\ MoveClaimed(c, "indeterminate", Later(now, c.at))
           /\ UNCHANGED <<sendAt, folder>>
        \/ UNCHANGED rows
     /\ UNCHANGED <<now, alarm, mode, unreconciled, claim, outcome, fences,
                    orphaned, active, provider>>

\* ensuring(release): runs on every exit once the outer fence is held.
ReleaseClaimFence(r) ==
  /\ Goto(r, "release", "reconcile")
  /\ fences' = [fences EXCEPT ![r] = {}]
  /\ claim' = [claim EXCEPT ![r] = NoClaim]
  /\ outcome' = [outcome EXCEPT ![r] = "none"]
  /\ orphaned' \in {orphaned, TRUE}
  /\ UNCHANGED <<now, rows, alarm, mode, unreconciled, active, provider>>

\* Mutant of ReconcileAfterRun: the handler ends without an alarm.
EndRun(r) ==
  /\ Goto(r, "reconcile", "idle")
  /\ UNCHANGED <<now, rows, alarm, mode, unreconciled, claim, outcome, fences,
                 orphaned, active, provider>>

\* ensuring(reconcile): runs on every exit of the alarm handler.
ReconcileAfterRun(r) ==
  /\ Goto(r, "reconcile", "idle")
  /\ ReconcileAlarm
  /\ UNCHANGED <<now, rows, mode, unreconciled, claim, outcome, fences,
                 orphaned, active, provider>>

-----------------------------------------------------------------------------
(* RPCs.  The store's transaction commits, then the alarm is reconciled and   *)
(* the caller is answered.                                                    *)

Commits == mode = "up" /\ ~unreconciled /\ unreconciled' = TRUE

NewRow(d, at) ==
  /\ status[d] = "absent"
  /\ status' = [status EXCEPT ![d] = "scheduled"]
  /\ createdAt' = [createdAt EXCEPT ![d] = now]
  /\ sendAt' = [sendAt EXCEPT ![d] = at]
  /\ updatedAt' = [updatedAt EXCEPT ![d] = now]
  /\ version' = [version EXCEPT ![d] = 1]
  /\ folder' = [folder EXCEPT ![d] = "scheduled"]
  /\ UNCHANGED attemptCount

ScheduleOutbound(d) ==
  /\ Commits
  /\ NewRow(d, now + UndoWindow)
  /\ UNCHANGED <<now, alarm, mode, runVars, orphaned, active, provider>>

\* A resend is a new delivery of the same message, due at once.
ResendOutbound(source, d) ==
  /\ Commits
  /\ status[source] \in {"failed", "indeterminate"}
  /\ NewRow(d, now)
  /\ UNCHANGED <<now, alarm, mode, runVars, orphaned, active, provider>>

CancelOutboundDelivery(d) ==
  /\ Commits
  /\ status[d] = "scheduled"
  /\ now < sendAt[d]
  /\ status' = [status EXCEPT ![d] = "cancelled"]
  /\ updatedAt' = [updatedAt EXCEPT ![d] = Later(now, createdAt[d])]
  /\ version' = [version EXCEPT ![d] = @ + 1]
  /\ UNCHANGED <<now, createdAt, sendAt, attemptCount, folder, alarm, mode,
                 runVars, orphaned, active, provider>>

\* A command that is refused, or answered from its receipt, changes no row, but
\* the alarm is reconciled all the same.
AnswerUnchanged ==
  /\ Commits
  /\ UNCHANGED <<now, rows, alarm, mode, runVars, orphaned, active, provider>>

ReconcileAfterRpc ==
  /\ mode = "up"
  /\ unreconciled
  /\ unreconciled' = FALSE
  /\ ReconcileAlarm
  /\ UNCHANGED <<now, rows, mode, runVars, orphaned, active, provider>>

\* Archive and Trash move any message of the mailbox, a scheduled one too.
MoveMessage(d) ==
  /\ mode = "up"
  /\ folder[d] \in {"scheduled", "sent"}
  /\ folder' = [folder EXCEPT ![d] = "elsewhere"]
  /\ UNCHANGED <<now, status, createdAt, sendAt, updatedAt, attemptCount, version,
                 alarm, mode, unreconciled, runVars, orphaned, active, provider>>

-----------------------------------------------------------------------------
(* The object's life, the organization's, and time. *)

\* The object leaves memory: an eviction when it is idle, a crash otherwise.
\* Calls already made to the provider stay open and fence rows stay behind.
\* The runtime delivers an alarm again if its handler did not end.
Crash ==
  /\ mode # "down"
  /\ mode' = "down"
  /\ pc' = [r \in Runs |-> "idle"]
  /\ claim' = [r \in Runs |-> NoClaim]
  /\ outcome' = [r \in Runs |-> "none"]
  /\ fences' = [r \in Runs |-> {}]
  /\ orphaned' = (orphaned \/ \E r \in Runs : fences[r] # {})
  /\ alarm' = IF alarm = NoAlarm /\ \E r \in Runs : pc[r] # "idle"
              THEN now ELSE alarm
  /\ UNCHANGED <<now, rows, unreconciled, active, provider>>

\* A request loads the object: the constructor recovers stale rows first.
ActivateForRequest ==
  /\ mode = "down"
  /\ mode' = "activating"
  /\ RecoverStaleRows
  /\ UNCHANGED <<now, alarm, unreconciled, runVars, orphaned, active, provider>>

\* A due alarm loads the object; its handler runs after the constructor.
ActivateForAlarm(r) ==
  /\ mode = "down"
  /\ alarm # NoAlarm
  /\ alarm <= now
  /\ mode' = "activating"
  /\ alarm' = NoAlarm
  /\ pc' = [pc EXCEPT ![r] = "acquire"]
  /\ RecoverStaleRows
  /\ UNCHANGED <<now, unreconciled, claim, outcome, fences, orphaned, active, provider>>

\* The constructor ends by reconciling the alarm.
FinishActivation ==
  /\ mode = "activating"
  /\ mode' = "up"
  /\ ReconcileAlarm
  /\ unreconciled' = FALSE
  /\ UNCHANGED <<now, rows, runVars, orphaned, active, provider>>

\* Mutant of NoFenceRows: a fence row disappears with its holder.
NoLiveFenceRows == \A r \in Runs : fences[r] = {}

\* No fence row may exist when the organization's status changes.
NoFenceRows == ~orphaned /\ \A r \in Runs : fences[r] = {}

SuspendOrganization ==
  /\ active
  /\ NoFenceRows
  /\ active' = FALSE
  /\ UNCHANGED <<now, rows, alarm, mode, unreconciled, runVars, orphaned, provider>>

ResumeOrganization ==
  /\ ~active
  /\ NoFenceRows
  /\ active' = TRUE
  /\ UNCHANGED <<now, rows, alarm, mode, unreconciled, runVars, orphaned, provider>>

Tick ==
  /\ \/ now < MaxTime /\ now' = now + 1
     \/ ClockRetreats /\ now > 0 /\ now' = now - 1
  /\ UNCHANGED <<rows, alarm, mode, unreconciled, runVars, orphaned, active, provider>>

-----------------------------------------------------------------------------

Init ==
  /\ now = StartTime
  /\ status = [d \in Deliveries |-> "absent"]
  /\ createdAt = [d \in Deliveries |-> 0]
  /\ sendAt = [d \in Deliveries |-> 0]
  /\ updatedAt = [d \in Deliveries |-> 0]
  /\ attemptCount = [d \in Deliveries |-> 0]
  /\ version = [d \in Deliveries |-> 0]
  /\ folder = [d \in Deliveries |-> "none"]
  /\ alarm = NoAlarm
  /\ mode = "up"
  /\ unreconciled = FALSE
  /\ pc = [r \in Runs |-> "idle"]
  /\ claim = [r \in Runs |-> NoClaim]
  /\ outcome = [r \in Runs |-> "none"]
  /\ fences = [r \in Runs |-> {}]
  /\ orphaned = FALSE
  /\ active = TRUE
  /\ open = {}
  /\ lost = {}
  /\ taken = {}

\* The steps a started run takes by itself.
RunStep(r) ==
  \/ AcquireClaimFence(r) \/ RecoverStaleSending(r) \/ ClaimDue(r) \/ StoreFails(r)
  \/ LoadSnapshot(r) \/ AcquireDispatchFence(r) \/ SendMessage(r)
  \/ ProviderAnswers(r) \/ ReleaseDispatchFence(r)
  \/ SettleAccepted(r) \/ SettleFinal(r) \/ Retry(r) \/ SettleFails(r) \/ SettleDefect(r)
  \/ ReleaseClaimFence(r) \/ ReconcileAfterRun(r)

Rpc ==
  \/ \E d \in Deliveries :
       \/ ScheduleOutbound(d) \/ CancelOutboundDelivery(d) \/ MoveMessage(d)
       \/ \E source \in Deliveries : ResendOutbound(source, d)
  \/ AnswerUnchanged \/ ReconcileAfterRpc

Environment ==
  \/ Crash \/ ActivateForRequest \/ FinishActivation
  \/ SuspendOrganization \/ ResumeOrganization
  \/ \E call \in Calls : ProviderTakes(call)
  \/ Tick

Next ==
  \/ \E r \in Runs : FireAlarm(r) \/ ActivateForAlarm(r) \/ RunStep(r)
  \/ Rpc
  \/ Environment

Spec == Init /\ [][Next]_vars

-----------------------------------------------------------------------------
(* Properties. *)

\* Every variable has its type.
TypeOK ==
  /\ now \in Nat
  /\ status \in [Deliveries -> Statuses]
  /\ createdAt \in [Deliveries -> Nat]
  /\ sendAt \in [Deliveries -> Nat]
  /\ updatedAt \in [Deliveries -> Nat]
  /\ attemptCount \in [Deliveries -> 0..MaxAttempts]
  /\ version \in [Deliveries -> Nat]
  /\ folder \in [Deliveries -> {"none", "scheduled", "sent", "elsewhere"}]
  /\ alarm \in Nat \cup {NoAlarm}
  /\ mode \in {"up", "down", "activating"}
  /\ unreconciled \in BOOLEAN
  /\ pc \in [Runs -> Pcs]
  /\ claim \in [Runs -> Claims \cup {NoClaim}]
  /\ outcome \in [Runs -> Outcomes]
  /\ fences \in [Runs -> SUBSET {"claim", "dispatch"}]
  /\ orphaned \in BOOLEAN
  /\ active \in BOOLEAN
  /\ open \subseteq Calls
  /\ lost \subseteq Calls
  /\ taken \subseteq Calls

\* The calls whose message the provider has taken or may yet take.
LiveCalls == open \cup lost \cup taken

\* The provider takes the message of a delivery at most once, whatever retries,
\* crashes, stale recoveries and overlapping alarm runs there are: a retry is
\* made only after an attempt the provider has refused (README, "never retried
\* automatically because another submission could duplicate the message").
TakenAtMostOnce ==
  \A d \in Deliveries : \A a, b \in Attempts :
    <<d, a>> \in taken /\ <<d, b>> \in taken => a = b

\* The user is never told that a message was not sent when the provider has it
\* or may still take it: a row that is scheduled (again), cancelled or failed
\* has no live provider call.
UnsentMeansUnsent ==
  \A d \in Deliveries :
    status[d] \in {"absent", "scheduled", "cancelled", "failed"}
      => \A a \in Attempts : <<d, a>> \notin LiveCalls

\* "accepted" is shown only for a message the provider has taken, and then the
\* message has left the scheduled folder; only such a message is ever in Sent.
AcceptedMeansTaken ==
  \A d \in Deliveries :
    /\ status[d] = "accepted" => /\ \E a \in Attempts : <<d, a>> \in taken
                                 /\ folder[d] \in {"sent", "elsewhere"}
    /\ folder[d] = "sent" => status[d] = "accepted"

\* OutboundDeliverySchema: the row of every delivery decodes, even when the
\* wall clock steps back between the writes (a row that does not decode makes
\* the tracker and every later cancel or resend of it fail).
RowsDecode ==
  \A d \in Deliveries : status[d] # "absent" =>
    /\ updatedAt[d] >= createdAt[d]
    /\ sendAt[d] >= createdAt[d]
    /\ status[d] \in {"sending", "indeterminate", "failed", "accepted"}
         => updatedAt[d] >= sendAt[d]

\* While the organization is suspended none of its mail is on its way to the
\* provider: no call is open, not even one whose object crashed (its fence row
\* survives it).
SuspendedIsQuiet ==
  ~active => open = {}

\* Mail that is pending while no alarm run is in progress has an alarm set, be
\* the object in memory, evicted or loading, unless an RPC was cut off before it
\* answered its caller.
PendingWorkIsArmed ==
  /\ \A r \in Runs : pc[r] = "idle"
  /\ ~unreconciled
  /\ \E d \in Deliveries : status[d] \in Pending
  => alarm # NoAlarm

\* That alarm is no later than the earliest work, or one retry period from now:
\* neither RPC traffic nor alarm runs can push due work further away.
AlarmIsInTime ==
  (mode = "up" /\ (\A r \in Runs : pc[r] = "idle") /\ ~unreconciled /\ alarm # NoAlarm)
  => \A t \in WakeTimes : alarm <= t \/ alarm <= now + AlarmRetry

\* An RPC leaves a pending alarm where it is, or brings it forward, while mail
\* is due, so that a busy mailbox still sends (MailboxOutboundAlarmScheduler:
\* "unrelated RPC traffic cannot starve due work").
RpcKeepsPendingRetry ==
  [][unreconciled /\ ~unreconciled' /\ mode = "up"
       /\ alarm # NoAlarm /\ alarm > now /\ (\E t \in WakeTimes : t <= now)
     => alarm' <= alarm]_vars

\* A suspended organization's mail consumes no attempt (ADR 0001, "suspension
\* cannot race a retry-budget increment"), and no attempt is counted twice.
SuspensionFreezesBudget ==
  [][\A d \in Deliveries :
       attemptCount'[d] # attemptCount[d] =>
         /\ active
         /\ attemptCount'[d] = attemptCount[d] + 1
         /\ status[d] = "scheduled"
         /\ now >= sendAt[d]]_vars

\* The part of canTransitionOutbound's table (MailboxOutbound.ts) that some code
\* makes: nothing ever leaves "accepted" or "indeterminate".
AllowedTransitions ==
  {<<"absent", "scheduled">>, <<"scheduled", "sending">>, <<"scheduled", "cancelled">>,
   <<"sending", "scheduled">>, <<"sending", "accepted">>, <<"sending", "failed">>,
   <<"sending", "indeterminate">>}

\* A row changes status only along the domain's table, and every change bumps
\* the version by one, so that a stale version can never win a guarded update.
TransitionsAreVersioned ==
  [][\A d \in Deliveries :
       status'[d] # status[d] => /\ <<status[d], status'[d]>> \in AllowedTransitions
                                 /\ version'[d] = version[d] + 1]_vars

-----------------------------------------------------------------------------
(* The abstract specification. *)

TimesTaken(d) == Cardinality({a \in Attempts : <<d, a>> \in taken})

Lifecycle == INSTANCE DeliveryLifecycle
               WITH status <- status, handed <- [d \in Deliveries |-> TimesTaken(d)]

\* Every step of the store, the alarm runs, the provider and the crashes is a
\* step of the abstract delivery lifecycle, or leaves it alone: what the tracker
\* shows never contradicts what the provider has done, and no message is handed
\* over twice.
ImplementsLifecycle == Lifecycle!Spec

-----------------------------------------------------------------------------
(* A statement of the code that it does not keep. *)

\* settle: an accepted message can be moved from Scheduled to Sent.  (The code
\* dies with "Accepted outbound message could not move to Sent" otherwise.)
AcceptanceCanSettle ==
  \A r \in Runs :
    pc[r] = "settle" /\ outcome[r] = "accepted" /\ Owns(claim[r])
      => folder[claim[r].id] = "scheduled"
=============================================================================
