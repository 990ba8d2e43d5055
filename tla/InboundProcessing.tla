-------------------------- MODULE InboundProcessing --------------------------
(***************************************************************************)
(* How one received mail becomes one message.  The ingress keeps the raw   *)
(* mail in R2 and starts a Workflow execution; the execution reports       *)
(* checkpoints to the mailbox's Durable Object, parses the mail, stores    *)
(* its attachments and commits the message, holding a fence row in D1 so   *)
(* that the organization is not suspended meanwhile.  An ingest that       *)
(* failed for a passing reason can be replayed by a new execution.         *)
(*                                                                         *)
(* Every step of an execution is retried, and every call may be delivered  *)
(* again or late: after its caller gave up on it, after a later attempt    *)
(* took the ingest over, or after the organization was suspended.          *)
(***************************************************************************)
EXTENDS Integers, FiniteSets

CONSTANTS
  Ingests,     \* received mails
  Operations,  \* ids of replay commands
  MaxRetries,  \* retries of the commit step (5 in the code)
  Faulty,      \* whether RPC, R2 and D1 may fail
  NoReplay     \* the result of a replay command not yet claimed

ASSUME RetriesAssumption == MaxRetries \in Nat
ASSUME OperationsAssumption == IsFiniteSet(Operations)
ASSUME FaultyAssumption == Faulty \in BOOLEAN
ASSUME NoReplayAssumption == NoReplay \notin Ingests \X Nat

\* An execution is the Workflow instance of one attempt at an ingest.  Attempts
\* are bounded because every replay after the first attempt uses up an id.
Attempts == 1 .. Cardinality(Operations) + 1
Executions == Ingests \X Attempts

Checkpoints == {"raw_stored", "parsing", "attachments_stored"}
Failures == {"fail_final", "fail_replayable"}

\* What an execution asks of the Durable Object.
Kinds == Checkpoints \cup Failures \cup {"commit"}
Ended == {"completed", "stopped", "refused", "suspended", "stranded"}
Stages == Kinds \cup Ended \cup {"none", "parse", "attach", "acquire", "release"}

Open == {"received"} \cup Checkpoints
Statuses == Open \cup {"absent", "ready", "failed"}
Verdicts == {"completed", "refused", "fail_final", "retry"}

VARIABLES
  ingress,     \* of each mail: what the Email Worker has done with it
  attached,    \* the ingests whose attachments are in R2
  status,      \* the inbound_processing rows ("absent": no row)
  attempt,     \* their attempt_count
  replayable,  \* their failure_replayable
  messages,    \* how many messages each ingest has put into the mailbox
  receipts,    \* the stored result of each replay operation
  pc,          \* where each execution is; a Kind: it awaits that call
  verdict,     \* of an execution about to release its fence: where it goes then
  tries,       \* how often an execution has retried its commit step
  reply,       \* the answer on its way to an execution
  calls,       \* the calls sent to the Durable Object, each delivered at any time
  orphaned,    \* whether a fence row was left behind in D1
  active       \* whether the organization is active

row == <<status, attempt, replayable, messages>>
run == <<pc, verdict, tries, reply, calls>>
control == <<orphaned, active>>
vars == <<ingress, attached, row, receipts, run, control>>

Init ==
  /\ ingress = [i \in Ingests |-> "none"]
  /\ attached = {}
  /\ status = [i \in Ingests |-> "absent"]
  /\ attempt = [i \in Ingests |-> 1]
  /\ replayable = [i \in Ingests |-> FALSE]
  /\ messages = [i \in Ingests |-> 0]
  /\ receipts = [o \in Operations |-> NoReplay]
  /\ pc = [e \in Executions |-> "none"]
  /\ verdict = [e \in Executions |-> "retry"]
  /\ tries = [e \in Executions |-> 0]
  /\ reply = [e \in Executions |-> "none"]
  /\ calls = {}
  /\ orphaned = FALSE
  /\ active = TRUE

-----------------------------------------------------------------------------
(* Moving an execution. *)

\* The execution enters a stage; in a stage that is a call, it sends the call.
Enter(e, stage) ==
  /\ pc' = [pc EXCEPT ![e] = stage]
  /\ reply' = [reply EXCEPT ![e] = "none"]
  /\ calls' = IF stage \in Kinds THEN calls \cup {<<e, stage>>} ELSE calls

\* create, or get for an instance that exists: starting twice starts once.
StartExecution(e) ==
  IF pc[e] = "none"
  THEN Enter(e, "raw_stored") /\ UNCHANGED <<verdict, tries>>
  ELSE UNCHANGED run

-----------------------------------------------------------------------------
(* The Email Worker. *)

StoreRaw(i) ==
  /\ ingress[i] = "none"
  /\ ingress' = [ingress EXCEPT ![i] = "stored"]
  /\ UNCHANGED <<attached, row, receipts, run, control>>

\* The sender is refused a mail that could not be kept, whose execution could not
\* be confirmed or that could not be forwarded to the archive after that; in the
\* last two cases the execution may run all the same.
Reject(i) ==
  /\ Faulty
  /\ \/ ingress[i] = "none" /\ UNCHANGED run
     \/ ingress[i] = "stored" /\ (UNCHANGED run \/ StartExecution(<<i, 1>>))
  /\ ingress' = [ingress EXCEPT ![i] = "rejected"]
  /\ UNCHANGED <<attached, row, receipts, control>>

Accept(i) ==
  /\ ingress[i] = "stored"
  /\ StartExecution(<<i, 1>>)
  /\ ingress' = [ingress EXCEPT ![i] = "accepted"]
  /\ UNCHANGED <<attached, row, receipts, control>>

-----------------------------------------------------------------------------
(* The Durable Object answers a call of an execution, in one transaction.  A   *)
(* call that was sent may be delivered late and, as its step is retried, again; *)
(* its answer may be lost, and is dropped when nobody waits for it any more.   *)

Answer(e, kind, answer) ==
  /\ \/ pc[e] = kind /\ reply' = [reply EXCEPT ![e] = answer]
     \/ (pc[e] # kind \/ Faulty) /\ reply' = reply
  /\ UNCHANGED <<ingress, attached, receipts, pc, verdict, tries, calls, control>>

Rank(s) ==
  CASE s = "raw_stored" -> 1 [] s = "parsing" -> 2 [] s = "attachments_stored" -> 3
    [] OTHER -> 0

\* Only the execution of the current attempt is listened to.  An ingest without
\* a row is at its first attempt.
\* Mutant of Stale: only executions that have not been claimed yet are refused.
StaleFromFuture(e) == e[2] > attempt[e[1]]

Stale(e) == e[2] # attempt[e[1]]

Settled(i) == status[i] \in {"ready", "failed"}

\* Whatever a stale execution asks is refused.
RefuseStale(e, kind) ==
  /\ Stale(e)
  /\ Answer(e, kind, "refused")
  /\ UNCHANGED row

\* A settled row answers checkpoints and failures with what it is.
AnswerSettled(e, kind) ==
  /\ ~Stale(e) /\ Settled(e[1])
  /\ kind # "commit" \/ status[e[1]] = "ready"
  /\ Answer(e, kind, status[e[1]])
  /\ UNCHANGED row

\* Mutant of AnswerCheckpoint: a repeated checkpoint is taken for a skipped one.
AnswerNewCheckpoint(e, kind) ==
  /\ ~Stale(e) /\ ~Settled(e[1])
  /\ kind \in Checkpoints /\ Rank(kind) # Rank(status[e[1]]) + 1
  /\ Answer(e, kind, IF Rank(kind) < Rank(status[e[1]]) THEN "open" ELSE "refused")
  /\ UNCHANGED row

\* A checkpoint the row has passed changes nothing; one may not be skipped.
AnswerCheckpoint(e, kind) ==
  /\ ~Stale(e) /\ ~Settled(e[1])
  /\ kind \in Checkpoints /\ Rank(kind) # Rank(status[e[1]]) + 1
  /\ Answer(e, kind, IF Rank(kind) <= Rank(status[e[1]]) THEN "open" ELSE "refused")
  /\ UNCHANGED row

AdvanceRow(e, kind) ==
  /\ ~Stale(e) /\ ~Settled(e[1])
  /\ kind \in Checkpoints /\ Rank(kind) = Rank(status[e[1]]) + 1
  /\ status' = [status EXCEPT ![e[1]] = kind]
  /\ Answer(e, kind, "open")
  /\ UNCHANGED <<attempt, replayable, messages>>

FailRow(e, kind) ==
  /\ ~Stale(e) /\ ~Settled(e[1])
  /\ kind \in Failures
  /\ status' = [status EXCEPT ![e[1]] = "failed"]
  /\ replayable' = [replayable EXCEPT ![e[1]] = kind = "fail_replayable"]
  /\ Answer(e, kind, "failed")
  /\ UNCHANGED <<attempt, messages>>

\* A mail whose checkpoints were never recorded may still be committed.
Committable(i) == status[i] \in {"absent", "attachments_stored"}

CommitMessage(e, kind) ==
  /\ ~Stale(e)
  /\ kind = "commit" /\ Committable(e[1])
  /\ status' = [status EXCEPT ![e[1]] = "ready"]
  /\ messages' = [messages EXCEPT ![e[1]] = @ + 1]
  /\ Answer(e, kind, "ready")
  /\ UNCHANGED <<attempt, replayable>>

RefuseCommit(e, kind) ==
  /\ ~Stale(e)
  /\ kind = "commit" /\ ~Committable(e[1]) /\ status[e[1]] # "ready"
  /\ Answer(e, kind, "refused")
  /\ UNCHANGED row

Handle(e, kind) ==
  /\ <<e, kind>> \in calls
  /\ \/ RefuseStale(e, kind) \/ AnswerSettled(e, kind) \/ AnswerCheckpoint(e, kind)
     \/ AdvanceRow(e, kind) \/ FailRow(e, kind)
     \/ CommitMessage(e, kind) \/ RefuseCommit(e, kind)

-----------------------------------------------------------------------------
(* The steps of an execution. *)

Local == UNCHANGED <<ingress, attached, row, receipts, verdict, tries, control>>

AfterCheckpoint(stage) ==
  CASE stage = "raw_stored" -> "parsing"
    [] stage = "parsing" -> "parse"
    [] OTHER -> "acquire"

CheckpointAnswered(e) ==
  /\ pc[e] \in Checkpoints /\ reply[e] # "none"
  /\ Enter(e, CASE reply[e] = "ready" -> "completed"
                [] reply[e] = "failed" -> "stopped"
                [] reply[e] = "refused" -> "refused"
                [] OTHER -> AfterCheckpoint(pc[e]))
  /\ Local

\* Retries used up: the failure can be replayed.  An answer that cannot be read
\* is not retried, and ends the execution.
CheckpointBreaks(e) ==
  /\ Faulty
  /\ pc[e] \in Checkpoints
  /\ Enter(e, "fail_replayable") \/ Enter(e, "stranded")
  /\ Local

\* Reading the raw mail back and parsing it.  The engine's own timeout of a step is not
\* a retryable step error either.
ParseRaw(e) ==
  /\ pc[e] = "parse"
  /\ \/ Enter(e, "attach")
     \/ Enter(e, "fail_final")
     \/ Faulty /\ (Enter(e, "fail_replayable") \/ Enter(e, "stranded"))
  /\ Local

\* Mutant of StoreAttachments: a failed write does not stop the execution.
StoreWhatIsPossible(e) ==
  /\ pc[e] = "attach"
  /\ Enter(e, "attachments_stored")
  /\ attached' \in {attached, attached \cup {e[1]}}
  /\ UNCHANGED <<ingress, row, receipts, verdict, tries, control>>

\* Objects are written once and checked when they are already there.
StoreAttachments(e) ==
  /\ pc[e] = "attach"
  /\ \/ Enter(e, "attachments_stored") /\ attached' = attached \cup {e[1]}
     \/ /\ \/ Enter(e, "fail_final")
           \/ Faulty /\ (Enter(e, "fail_replayable") \/ Enter(e, "stranded"))
        /\ attached' \in {attached, attached \cup {e[1]}}
  /\ UNCHANGED <<ingress, row, receipts, verdict, tries, control>>

\* A suspended organization takes no mail: the execution ends there.
AcquireFence(e) ==
  /\ pc[e] = "acquire"
  /\ Enter(e, IF active THEN "commit" ELSE "suspended")
  /\ Local

\* Mutant of Again: retries are not counted.
AgainForEver(e, exhausted) == Enter(e, "acquire") /\ UNCHANGED tries

\* Mutant of Again: one retry too many.
AgainOnceMore(e, exhausted) ==
  IF tries[e] <= MaxRetries
  THEN Enter(e, "acquire") /\ tries' = [tries EXCEPT ![e] = @ + 1]
  ELSE Enter(e, exhausted) /\ UNCHANGED tries

\* The commit step is started over, or its retries are used up.
Again(e, exhausted) ==
  IF tries[e] < MaxRetries
  THEN Enter(e, "acquire") /\ tries' = [tries EXCEPT ![e] = @ + 1]
  ELSE Enter(e, exhausted) /\ UNCHANGED tries

\* D1 fails, perhaps after it inserted the row, or the step runs out of time.
AcquireFails(e) ==
  /\ Faulty
  /\ pc[e] = "acquire"
  /\ Again(e, "fail_replayable") \/ Again(e, "stranded")
  /\ orphaned' \in {orphaned, orphaned \/ active}
  /\ UNCHANGED <<ingress, attached, row, receipts, verdict, active>>

Decide(e, outcome) ==
  /\ verdict' = [verdict EXCEPT ![e] = outcome]
  /\ Enter(e, "release")
  /\ UNCHANGED <<ingress, attached, row, receipts, tries, control>>

CommitAnswered(e) ==
  /\ pc[e] = "commit" /\ reply[e] # "none"
  /\ Decide(e, IF reply[e] = "ready" THEN "completed" ELSE "refused")

\* The RPC fails, or its answer cannot be read; the call may still arrive.
CommitBreaks(e) ==
  /\ Faulty
  /\ pc[e] = "commit"
  /\ Decide(e, "retry") \/ Decide(e, "fail_final")

AfterRelease(e) ==
  IF verdict[e] = "retry"
  THEN Again(e, "fail_replayable")
  ELSE Enter(e, verdict[e]) /\ UNCHANGED tries

ReleaseFence(e) ==
  /\ pc[e] = "release"
  /\ AfterRelease(e)
  /\ UNCHANGED <<ingress, attached, row, receipts, verdict, control>>

\* D1 fails to delete the row, or fails to say that it did.  The error is a
\* defect, not a retryable step error: with retries used up nothing is recorded.
ReleaseFails(e) ==
  /\ Faulty
  /\ pc[e] = "release"
  /\ \/ Again(e, "stranded")
     \/ verdict[e] # "completed" /\ AfterRelease(e)
  /\ orphaned' \in {orphaned, TRUE}
  /\ UNCHANGED <<ingress, attached, row, receipts, verdict, active>>

\* The engine interrupts the commit step and runs it again from its start.
CommitInterrupted(e) ==
  /\ Faulty
  /\ pc[e] \in {"commit", "release"}
  /\ Again(e, "stranded")
  /\ orphaned' = TRUE
  /\ UNCHANGED <<ingress, attached, row, receipts, verdict, active>>

\* A failure the row answers with "ready" was none: the commit had arrived.
FailureAnswered(e) ==
  /\ pc[e] \in Failures /\ reply[e] # "none"
  /\ Enter(e, CASE reply[e] = "ready" -> "completed"
                [] reply[e] = "failed" -> "stopped"
                [] OTHER -> "refused")
  /\ Local

FailureBreaks(e) ==
  /\ Faulty
  /\ pc[e] \in Failures
  /\ Enter(e, "stranded")
  /\ Local

Step(e) ==
  \/ CheckpointAnswered(e) \/ CheckpointBreaks(e)
  \/ ParseRaw(e) \/ StoreAttachments(e)
  \/ AcquireFence(e) \/ AcquireFails(e)
  \/ CommitAnswered(e) \/ CommitBreaks(e)
  \/ ReleaseFence(e) \/ ReleaseFails(e) \/ CommitInterrupted(e)
  \/ FailureAnswered(e) \/ FailureBreaks(e)

-----------------------------------------------------------------------------
(* Replaying a failed ingest. *)

\* Mutants of ClaimReplay: a final failure is reopened; any unfinished ingest is
\* reopened.
ClaimFailed(o, i) ==
  /\ receipts[o] = NoReplay
  /\ status[i] = "failed"
  /\ status' = [status EXCEPT ![i] = "received"]
  /\ replayable' = [replayable EXCEPT ![i] = FALSE]
  /\ attempt' = [attempt EXCEPT ![i] = @ + 1]
  /\ receipts' = [receipts EXCEPT ![o] = <<i, attempt[i] + 1>>]
  /\ UNCHANGED <<ingress, attached, messages, run, control>>

ClaimUnfinished(o, i) ==
  /\ receipts[o] = NoReplay
  /\ status[i] \notin {"absent", "ready"}
  /\ status' = [status EXCEPT ![i] = "received"]
  /\ replayable' = [replayable EXCEPT ![i] = FALSE]
  /\ attempt' = [attempt EXCEPT ![i] = @ + 1]
  /\ receipts' = [receipts EXCEPT ![o] = <<i, attempt[i] + 1>>]
  /\ UNCHANGED <<ingress, attached, messages, run, control>>

\* The command reopens the row and keeps its result, in one transaction; an
\* operation that has a result is answered with it.
\* The caller's permission and the mailbox registry are looked up before this and
\* apart from it, so they are no guards here.
ClaimReplay(o, i) ==
  /\ receipts[o] = NoReplay
  /\ status[i] = "failed" /\ replayable[i]
  /\ status' = [status EXCEPT ![i] = "received"]
  /\ replayable' = [replayable EXCEPT ![i] = FALSE]
  /\ attempt' = [attempt EXCEPT ![i] = @ + 1]
  /\ receipts' = [receipts EXCEPT ![o] = <<i, attempt[i] + 1>>]
  /\ UNCHANGED <<ingress, attached, messages, run, control>>

\* The execution is started after the claim, or when the command is repeated.
StartReplay(o) ==
  /\ receipts[o] # NoReplay
  /\ StartExecution(receipts[o])
  /\ UNCHANGED <<ingress, attached, row, receipts, control>>

-----------------------------------------------------------------------------
(* The organization is suspended only while D1 has no fence row. *)

\* Mutant of NoFenceRows: the row is given up as soon as the call was made.
NoFenceRowsOfAcquirers == ~orphaned /\ \A e \in Executions : pc[e] # "release"

NoFenceRows == ~orphaned /\ \A e \in Executions : pc[e] \notin {"commit", "release"}

SuspendOrganization ==
  /\ active /\ NoFenceRows
  /\ active' = FALSE
  /\ UNCHANGED <<ingress, attached, row, receipts, run, orphaned>>

ResumeOrganization ==
  /\ ~active
  /\ active' = TRUE
  /\ UNCHANGED <<ingress, attached, row, receipts, run, orphaned>>

-----------------------------------------------------------------------------
Ingress == \E i \in Ingests : StoreRaw(i) \/ Reject(i) \/ Accept(i)

DurableObject == \E e \in Executions, kind \in Kinds : Handle(e, kind)

Replay ==
  \E o \in Operations : (\E i \in Ingests : ClaimReplay(o, i)) \/ StartReplay(o)

Next ==
  \/ Ingress
  \/ DurableObject
  \/ \E e \in Executions : Step(e)
  \/ Replay
  \/ SuspendOrganization \/ ResumeOrganization

Spec == Init /\ [][Next]_vars

\* The engine runs every execution on, with a time limit on each try of a step,
\* and a call in flight is answered unless something fails.
Fairness ==
  \A e \in Executions :
    WF_vars(Step(e)) /\ WF_vars(\E kind \in Kinds : pc[e] = kind /\ Handle(e, kind))

FairSpec == Spec /\ Fairness

-----------------------------------------------------------------------------
(* Properties. *)

TypeOK ==
  /\ ingress \in [Ingests -> {"none", "stored", "accepted", "rejected"}]
  /\ attached \subseteq Ingests
  /\ status \in [Ingests -> Statuses]
  /\ attempt \in [Ingests -> Attempts]
  /\ replayable \in [Ingests -> BOOLEAN]
  /\ messages \in [Ingests -> {0, 1}]
  /\ receipts \in [Operations -> Executions \cup {NoReplay}]
  /\ pc \in [Executions -> Stages]
  /\ verdict \in [Executions -> Verdicts]
  /\ tries \in [Executions -> 0 .. MaxRetries]
  /\ reply \in [Executions -> {"none", "open", "ready", "failed", "refused"}]
  /\ calls \subseteq Executions \X Kinds
  /\ orphaned \in BOOLEAN
  /\ active \in BOOLEAN

\* The checkpoint an execution has reported at most.
Reported(e) ==
  CASE pc[e] = "none" -> 0
    [] pc[e] = "raw_stored" -> 1
    [] pc[e] \in {"parsing", "parse", "attach"} -> 2
    [] OTHER -> 3

\* A row shows the progress of the execution of its current attempt: late calls
\* of an earlier attempt never move it.
RowFollowsItsAttempt ==
  \A i \in Ingests :
    status[i] \in Open => Rank(status[i]) <= Reported(<<i, attempt[i]>>)

Working == Checkpoints \cup {"parse", "attach", "acquire", "commit", "release"}

\* Two executions never process the same ingest: when a replay starts, the
\* execution before it has nothing left but to hear that its failure was kept.
ReplayIsAlone ==
  \A i \in Ingests : \A a, b \in Attempts :
    pc[<<i, a>>] \in Working /\ pc[<<i, b>>] \in Working => a = b

\* A message in the mailbox came from one commit, its attachments are in R2 and
\* its ingest is shown as ready.
DeliveredIsComplete ==
  \A i \in Ingests : messages[i] > 0 => i \in attached /\ status[i] = "ready"

\* An execution that ends as completed has its message in the mailbox; one that
\* stops after recording its failure leaves a row that says so, unless a replay
\* has taken the ingest over.
EndMatchesRow ==
  \A e \in Executions :
    /\ pc[e] = "completed" => messages[e[1]] = 1
    /\ pc[e] = "stopped" /\ ~Stale(e) => status[e[1]] = "failed"

\* The Durable Object refuses only executions whose ingest has been replayed:
\* repeated calls of the current attempt are always answered.
OnlyStaleIsRefused ==
  \A e \in Executions : pc[e] = "refused" => Stale(e)

\* Every attempt after the first belongs to exactly one replay operation, whose
\* result names it: a repeated command starts its own execution again and
\* reopens nothing.
ReplaysAreCounted ==
  \A i \in Ingests : \A a \in Attempts \ {1} :
    Cardinality({o \in Operations : receipts[o] = <<i, a>>})
      = (IF a <= attempt[i] THEN 1 ELSE 0)

\* No execution waits for a commit while the organization is suspended.
SuspendedAwaitsNoCommit ==
  ~active => \A e \in Executions : pc[e] # "commit"

\* ADR 0001 says that suspension cannot commit while an inbound commit has its
\* side effect: a message only arrives while the organization is active.
CommitsWhileActive ==
  [][\A i \in Ingests : messages'[i] # messages[i] => active]_vars

\* Every execution ends: the retries of its steps are bounded.
ExecutionsEnd ==
  \A e \in Executions : pc[e] # "none" ~> pc[e] \in Ended

\* ADR 0002 says that an in-flight mail always finishes in its mailbox.
InFlightFinishes ==
  \A i \in Ingests : ingress[i] = "accepted" ~> Settled(i)

-----------------------------------------------------------------------------
(* The abstract life of an ingest. *)

Phase(i) ==
  CASE status[i] \in Open -> "open"
    [] status[i] = "failed" /\ replayable[i] -> "retryable"
    [] OTHER -> status[i]

Lifecycle == INSTANCE IngestLifecycle WITH
  phase <- [i \in Ingests |-> Phase(i)],
  delivered <- messages

ImplementsIngestLifecycle == Lifecycle!Spec
=============================================================================
