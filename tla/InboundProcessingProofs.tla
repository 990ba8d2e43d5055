----------------------- MODULE InboundProcessingProofs -----------------------
(***************************************************************************)
(* What InboundProcessing guarantees for any number of mails, replay       *)
(* commands and commit retries.                                            *)
(***************************************************************************)
EXTENDS InboundProcessing, FiniteSetTheorems, TLAPS

-----------------------------------------------------------------------------
(* Types. *)

Replies == {"none", "open", "ready", "failed", "refused"}

RowType ==
  /\ status \in [Ingests -> Statuses]
  /\ attempt \in [Ingests -> Attempts]
  /\ replayable \in [Ingests -> BOOLEAN]
  /\ messages \in [Ingests -> {0, 1}]

RunType ==
  /\ pc \in [Executions -> Stages]
  /\ verdict \in [Executions -> Verdicts]
  /\ tries \in [Executions -> 0 .. MaxRetries]
  /\ reply \in [Executions -> Replies]
  /\ calls \subseteq Executions \X Kinds

RestType ==
  /\ ingress \in [Ingests -> {"none", "stored", "accepted", "rejected"}]
  /\ attached \subseteq Ingests
  /\ receipts \in [Operations -> Executions \cup {NoReplay}]
  /\ orphaned \in BOOLEAN
  /\ active \in BOOLEAN

Used == {o \in Operations : receipts[o] # NoReplay}

\* Every attempt after the first has used up an operation.
CountInv == \A i \in Ingests : attempt[i] <= 1 + Cardinality(Used)

\* An ingest has its message exactly when its row is ready.
MessageInv == \A i \in Ingests : messages[i] = 1 <=> status[i] = "ready"

TypeInv == RowType /\ RunType /\ RestType /\ CountInv /\ MessageInv

\* Attempts are positive numbers and 1 is one of them.
LEMMA AttemptNumbers ==
  Cardinality(Operations) \in Nat /\ 1 \in Attempts /\ Attempts \subseteq Nat
BY OperationsAssumption, FS_CardinalityType DEF Attempts

\* Entering a stage keeps the types of an execution's state.
LEMMA EnterTypes ==
  ASSUME RunType, NEW e \in Executions, NEW stage \in Stages, Enter(e, stage)
  PROVE  /\ pc' \in [Executions -> Stages]
         /\ reply' \in [Executions -> Replies]
         /\ calls' \subseteq Executions \X Kinds
BY DEF RunType, Enter, Replies

\* Starting an execution keeps the types of an execution's state.
LEMMA StartTypes ==
  ASSUME RunType, NEW e \in Executions, StartExecution(e)
  PROVE  RunType'
<1>1. CASE pc[e] = "none"
  <2>1. Enter(e, "raw_stored") /\ UNCHANGED <<verdict, tries>>
    BY <1>1 DEF StartExecution
  <2>2. "raw_stored" \in Stages
    BY DEF Stages, Kinds, Checkpoints
  <2> QED
    BY <2>1, <2>2, EnterTypes DEF RunType
<1>2. CASE pc[e] # "none"
  BY <1>2 DEF StartExecution, RunType, run
<1> QED
  BY <1>1, <1>2

\* An answer keeps the types of an execution's state, and changes nothing else.
LEMMA AnswerTypes ==
  ASSUME RunType, NEW e \in Executions, NEW kind \in Kinds,
         NEW answer \in Replies, Answer(e, kind, answer)
  PROVE  RunType' /\ UNCHANGED <<ingress, attached, receipts, orphaned, active>>
BY DEF RunType, Answer, control

-----------------------------------------------------------------------------
(* The Durable Object's answers. *)

\* Handling a call keeps the types.
LEMMA HandleTypes ==
  ASSUME TypeInv, NEW e \in Executions, NEW kind \in Kinds, Handle(e, kind)
  PROVE  TypeInv'
<1> USE DEF TypeInv
<1>0. /\ e[1] \in Ingests /\ e[2] \in Attempts
      /\ status[e[1]] \in Statuses
      /\ {"none", "open", "ready", "failed", "refused"} = Replies
  BY DEF Executions, RowType, Replies
<1>1. CASE RefuseStale(e, kind)
  <2>1. Answer(e, kind, "refused") /\ UNCHANGED row
    BY <1>1 DEF RefuseStale
  <2> QED
    BY <1>0, <2>1, AnswerTypes DEF RowType, RestType, CountInv, MessageInv, Used, row
<1>2. CASE AnswerSettled(e, kind)
  <2>1. Answer(e, kind, status[e[1]]) /\ UNCHANGED row /\ status[e[1]] \in Replies
    BY <1>0, <1>2 DEF AnswerSettled, Settled
  <2> QED
    BY <1>0, <2>1, AnswerTypes DEF RowType, RestType, CountInv, MessageInv, Used, row
<1>3. CASE AnswerCheckpoint(e, kind)
  <2>1. PICK answer \in Replies : Answer(e, kind, answer) /\ UNCHANGED row
    BY <1>0, <1>3 DEF AnswerCheckpoint
  <2> QED
    BY <1>0, <2>1, AnswerTypes DEF RowType, RestType, CountInv, MessageInv, Used, row
<1>4. CASE AdvanceRow(e, kind)
  <2>1. /\ Answer(e, kind, "open") /\ UNCHANGED <<attempt, replayable, messages>>
        /\ kind \in Checkpoints /\ status[e[1]] # "ready"
        /\ status' = [status EXCEPT ![e[1]] = kind]
    BY <1>4 DEF AdvanceRow, Settled
  <2>2. kind \in Statuses /\ kind # "ready"
    BY <2>1 DEF Statuses, Open, Checkpoints
  <2>3. RunType' /\ UNCHANGED <<ingress, attached, receipts, orphaned, active>>
    BY <1>0, <2>1, AnswerTypes
  <2>4. RowType' /\ MessageInv'
    BY <1>0, <2>1, <2>2 DEF RowType, MessageInv
  <2> QED
    BY <2>1, <2>3, <2>4 DEF RestType, CountInv, Used
<1>5. CASE FailRow(e, kind)
  <2>1. /\ Answer(e, kind, "failed") /\ UNCHANGED <<attempt, messages>>
        /\ status[e[1]] # "ready"
        /\ status' = [status EXCEPT ![e[1]] = "failed"]
        /\ replayable' = [replayable EXCEPT ![e[1]] = (kind = "fail_replayable")]
    BY <1>5 DEF FailRow, Settled
  <2>2. "failed" \in Statuses
    BY DEF Statuses
  <2>3. RunType' /\ UNCHANGED <<ingress, attached, receipts, orphaned, active>>
    BY <1>0, <2>1, AnswerTypes
  <2>4. replayable' \in [Ingests -> BOOLEAN]
    BY <2>1, Zenon DEF RowType
  <2>5. status' \in [Ingests -> Statuses] /\ MessageInv'
    BY <1>0, <2>1, <2>2 DEF RowType, MessageInv
  <2> QED
    BY <2>1, <2>3, <2>4, <2>5 DEF RowType, RestType, CountInv, Used
<1>6. CASE CommitMessage(e, kind)
  <2>1. /\ Answer(e, kind, "ready") /\ UNCHANGED <<attempt, replayable>>
        /\ status[e[1]] # "ready"
        /\ status' = [status EXCEPT ![e[1]] = "ready"]
        /\ messages' = [messages EXCEPT ![e[1]] = @ + 1]
    BY <1>6 DEF CommitMessage, Committable
  <2>2. "ready" \in Statuses
    BY DEF Statuses
  <2>3. RunType' /\ UNCHANGED <<ingress, attached, receipts, orphaned, active>>
    BY <1>0, <2>1, AnswerTypes
  <2>4. messages[e[1]] = 0
    BY <1>0, <2>1 DEF RowType, MessageInv
  <2>5. RowType' /\ MessageInv'
    BY <1>0, <2>1, <2>2, <2>4 DEF RowType, MessageInv
  <2> QED
    BY <2>1, <2>3, <2>5 DEF RestType, CountInv, Used
<1>7. CASE RefuseCommit(e, kind)
  <2>1. Answer(e, kind, "refused") /\ UNCHANGED row
    BY <1>7 DEF RefuseCommit
  <2> QED
    BY <1>0, <2>1, AnswerTypes DEF RowType, RestType, CountInv, MessageInv, Used, row
<1> QED
  BY <1>1, <1>2, <1>3, <1>4, <1>5, <1>6, <1>7 DEF Handle

-----------------------------------------------------------------------------
(* The steps of an execution follow the edges of Moves. *)

Moves(from, to) ==
  \/ from \in Checkpoints
     /\ to \in {"completed", "stopped", "refused", "fail_replayable", "stranded",
                AfterCheckpoint(from)}
  \/ from = "parse" /\ to \in {"attach", "fail_final", "fail_replayable", "stranded"}
  \/ from = "attach"
     /\ to \in {"attachments_stored", "fail_final", "fail_replayable", "stranded"}
  \/ from = "acquire"
     /\ to \in {"commit", "suspended", "acquire", "fail_replayable", "stranded"}
  \/ from = "commit" /\ to \in {"release", "acquire", "stranded"}
  \/ from = "release"
     /\ to \in {"acquire", "fail_replayable", "stranded"} \cup (Verdicts \ {"retry"})
  \/ from \in Failures /\ to \in {"completed", "stopped", "refused", "stranded"}

\* What a step of an execution may do besides moving it.
StepFrame(e, to) ==
  /\ UNCHANGED <<ingress, row, receipts, active>>
  /\ orphaned' \in BOOLEAN
  /\ verdict' \in [Executions -> Verdicts]
  /\ tries' \in [Executions -> 0 .. MaxRetries]
  /\ attached \subseteq attached' /\ attached' \subseteq attached \cup {e[1]}
  /\ to = "attachments_stored" => e[1] \in attached'
  /\ to = "commit" => active

\* Starting the commit step over, or giving it up, are moves.
LEMMA AgainMoves ==
  ASSUME TypeInv, NEW e \in Executions, NEW exhausted, Again(e, exhausted)
  PROVE  /\ tries' \in [Executions -> 0 .. MaxRetries]
         /\ \E to \in {"acquire", exhausted} : Enter(e, to)
BY RetriesAssumption DEF TypeInv, RunType, Again

\* Every step of an execution is one of these moves.
LEMMA StepMoves ==
  ASSUME TypeInv, NEW e \in Executions, Step(e)
  PROVE  \E to \in Stages : Enter(e, to) /\ Moves(pc[e], to) /\ StepFrame(e, to)
<1> DEFINE Goal == \E to \in Stages : Enter(e, to) /\ Moves(pc[e], to) /\ StepFrame(e, to)
<1>0. /\ attached \subseteq attached /\ attached \subseteq attached \cup {e[1]}
      /\ orphaned \in BOOLEAN /\ TRUE \in BOOLEAN
      /\ verdict \in [Executions -> Verdicts]
      /\ tries \in [Executions -> 0 .. MaxRetries]
      /\ Stages = Checkpoints \cup Failures \cup Ended
                    \cup {"commit", "none", "parse", "attach", "acquire", "release"}
  BY DEF TypeInv, RestType, RunType, Stages, Kinds
<1>1. CASE CheckpointAnswered(e)
  <2>1. /\ pc[e] \in Checkpoints /\ Local
        /\ \E to \in {"completed", "stopped", "refused", AfterCheckpoint(pc[e])} : Enter(e, to)
    BY <1>1 DEF CheckpointAnswered
  <2>2. PICK to \in {"completed", "stopped", "refused", AfterCheckpoint(pc[e])} : Enter(e, to)
    BY <2>1
  <2>3. to \in Stages /\ to \notin {"attachments_stored", "commit"} /\ Moves(pc[e], to)
    BY <1>0, <2>1 DEF Moves, AfterCheckpoint, Checkpoints, Ended
  <2>4. StepFrame(e, to)
    BY <1>0, <2>1, <2>3 DEF StepFrame, Local, control
  <2> QED
    BY <2>2, <2>3, <2>4
<1>2. CASE CheckpointBreaks(e)
  <2>1. pc[e] \in Checkpoints /\ Local
    BY <1>2 DEF CheckpointBreaks
  <2>2. PICK to \in {"fail_replayable", "stranded"} : Enter(e, to)
    BY <1>2 DEF CheckpointBreaks
  <2>3. to \in Stages /\ to \notin {"attachments_stored", "commit"} /\ Moves(pc[e], to)
    BY <1>0, <2>1 DEF Moves, Failures, Ended
  <2>4. StepFrame(e, to)
    BY <1>0, <2>1, <2>3 DEF StepFrame, Local, control
  <2> QED
    BY <2>2, <2>3, <2>4
<1>3. CASE ParseRaw(e)
  <2>1. pc[e] = "parse" /\ Local
    BY <1>3 DEF ParseRaw
  <2>2. PICK to \in {"attach", "fail_final", "fail_replayable", "stranded"} : Enter(e, to)
    BY <1>3 DEF ParseRaw
  <2>3. to \in Stages /\ to \notin {"attachments_stored", "commit"} /\ Moves(pc[e], to)
    BY <1>0, <2>1 DEF Moves, Failures, Ended
  <2>4. StepFrame(e, to)
    BY <1>0, <2>1, <2>3 DEF StepFrame, Local, control
  <2> QED
    BY <2>2, <2>3, <2>4
<1>4. CASE StoreAttachments(e)
  <2>1. /\ pc[e] = "attach"
        /\ UNCHANGED <<ingress, row, receipts, verdict, tries, control>>
    BY <1>4 DEF StoreAttachments
  <2>2. PICK to \in {"attachments_stored", "fail_final", "fail_replayable", "stranded"} :
          /\ Enter(e, to)
          /\ attached' = attached \/ attached' = attached \cup {e[1]}
          /\ to = "attachments_stored" => attached' = attached \cup {e[1]}
    BY <1>4 DEF StoreAttachments
  <2>3. to \in Stages /\ to # "commit" /\ Moves(pc[e], to)
    BY <1>0, <2>1 DEF Moves, Failures, Checkpoints, Ended
  <2>4. StepFrame(e, to)
    BY <1>0, <2>1, <2>2, <2>3 DEF StepFrame, control
  <2> QED
    BY <2>2, <2>3, <2>4
<1>5. CASE AcquireFence(e)
  <2>1. pc[e] = "acquire" /\ Local
    BY <1>5 DEF AcquireFence
  <2>2. PICK to \in {"commit", "suspended"} : Enter(e, to) /\ (to = "commit" => active)
    BY <1>5 DEF AcquireFence
  <2>3. to \in Stages /\ to # "attachments_stored" /\ Moves(pc[e], to)
    BY <1>0, <2>1 DEF Moves, Ended
  <2>4. StepFrame(e, to)
    BY <1>0, <2>1, <2>2, <2>3 DEF StepFrame, Local, control
  <2> QED
    BY <2>2, <2>3, <2>4
<1>6. CASE AcquireFails(e)
  <2>1. /\ pc[e] = "acquire" /\ orphaned' \in {orphaned, orphaned \/ active}
        /\ UNCHANGED <<ingress, attached, row, receipts, verdict, active>>
        /\ Again(e, "fail_replayable") \/ Again(e, "stranded")
    BY <1>6 DEF AcquireFails
  <2>2. PICK to \in {"acquire", "fail_replayable", "stranded"} : Enter(e, to)
    BY <2>1, AgainMoves
  <2>3. to \in Stages /\ to \notin {"attachments_stored", "commit"} /\ Moves(pc[e], to)
    BY <1>0, <2>1 DEF Moves, Failures, Ended
  <2>4. tries' \in [Executions -> 0 .. MaxRetries]
    BY <2>1, AgainMoves
  <2>5. orphaned' \in BOOLEAN
    BY <2>1, <1>0, Zenon DEF TypeInv, RestType
  <2>6. StepFrame(e, to)
    BY <1>0, <2>1, <2>3, <2>4, <2>5 DEF StepFrame
  <2> QED
    BY <2>2, <2>3, <2>6
<1>7. CASE CommitAnswered(e) \/ CommitBreaks(e)
  <2>1. PICK outcome \in Verdicts : Decide(e, outcome)
    BY <1>7 DEF CommitAnswered, CommitBreaks, Verdicts
  <2>2. pc[e] = "commit" /\ Enter(e, "release") /\ Moves(pc[e], "release")
    BY <1>7, <2>1 DEF CommitAnswered, CommitBreaks, Decide, Moves
  <2>3. StepFrame(e, "release")
    BY <1>0, <2>1 DEF StepFrame, Decide, control
  <2> QED
    BY <1>0, <2>2, <2>3
<1>8. CASE ReleaseFence(e)
  <2>1. /\ pc[e] = "release" /\ AfterRelease(e)
        /\ UNCHANGED <<ingress, attached, row, receipts, verdict, control>>
    BY <1>8 DEF ReleaseFence
  <2>2. /\ tries' \in [Executions -> 0 .. MaxRetries]
        /\ \E to \in {"acquire", "fail_replayable"} \cup (Verdicts \ {"retry"}) : Enter(e, to)
    BY <1>0, <2>1, AgainMoves DEF AfterRelease
  <2>3. PICK to \in {"acquire", "fail_replayable"} \cup (Verdicts \ {"retry"}) : Enter(e, to)
    BY <2>2
  <2>4. to \in Stages /\ to \notin {"attachments_stored", "commit"} /\ Moves(pc[e], to)
    BY <1>0, <2>1 DEF Moves, Failures, Ended, Verdicts
  <2>5. StepFrame(e, to)
    BY <1>0, <2>1, <2>2, <2>4 DEF StepFrame, control
  <2> QED
    BY <2>3, <2>4, <2>5
<1>9. CASE ReleaseFails(e)
  <2>1. /\ pc[e] = "release" /\ orphaned' \in {orphaned, TRUE}
        /\ UNCHANGED <<ingress, attached, row, receipts, verdict, active>>
        /\ Again(e, "stranded") \/ AfterRelease(e)
    BY <1>9 DEF ReleaseFails
  <2>2. /\ tries' \in [Executions -> 0 .. MaxRetries]
        /\ \E to \in {"acquire", "fail_replayable", "stranded"} \cup (Verdicts \ {"retry"}) :
             Enter(e, to)
    BY <1>0, <2>1, AgainMoves DEF AfterRelease
  <2>3. PICK to \in {"acquire", "fail_replayable", "stranded"} \cup (Verdicts \ {"retry"}) :
          Enter(e, to)
    BY <2>2
  <2>4. to \in Stages /\ to \notin {"attachments_stored", "commit"} /\ Moves(pc[e], to)
    BY <1>0, <2>1 DEF Moves, Failures, Ended, Verdicts
  <2>5. orphaned' \in BOOLEAN
    BY <1>0, <2>1, Zenon
  <2>6. StepFrame(e, to)
    BY <1>0, <2>1, <2>2, <2>4, <2>5 DEF StepFrame
  <2> QED
    BY <2>3, <2>4, <2>6
<1>10. CASE CommitInterrupted(e)
  <2>1. /\ pc[e] \in {"commit", "release"} /\ orphaned' = TRUE
        /\ UNCHANGED <<ingress, attached, row, receipts, verdict, active>>
        /\ Again(e, "stranded")
    BY <1>10 DEF CommitInterrupted
  <2>2. PICK to \in {"acquire", "stranded"} : Enter(e, to)
    BY <2>1, AgainMoves
  <2>3. to \in Stages /\ to \notin {"attachments_stored", "commit"} /\ Moves(pc[e], to)
    BY <1>0, <2>1 DEF Moves, Ended
  <2>4. tries' \in [Executions -> 0 .. MaxRetries]
    BY <2>1, AgainMoves
  <2>5. orphaned' \in BOOLEAN
    BY <1>0, <2>1, Zenon
  <2>6. StepFrame(e, to)
    BY <1>0, <2>1, <2>3, <2>4, <2>5 DEF StepFrame
  <2> QED
    BY <2>2, <2>3, <2>6
<1>11. CASE FailureAnswered(e) \/ FailureBreaks(e)
  <2>1. pc[e] \in Failures /\ Local
    BY <1>11 DEF FailureAnswered, FailureBreaks
  <2>2. PICK to \in {"completed", "stopped", "refused", "stranded"} : Enter(e, to)
    BY <1>11 DEF FailureAnswered, FailureBreaks
  <2>3. to \in Stages /\ to \notin {"attachments_stored", "commit"} /\ Moves(pc[e], to)
    BY <1>0, <2>1 DEF Moves, Ended
  <2>4. StepFrame(e, to)
    BY <1>0, <2>1, <2>3 DEF StepFrame, Local, control
  <2> QED
    BY <2>2, <2>3, <2>4
<1> QED
  BY <1>1, <1>2, <1>3, <1>4, <1>5, <1>6, <1>7, <1>8, <1>9, <1>10, <1>11 DEF Step

-----------------------------------------------------------------------------
(* The type invariant. *)

\* What can start: the ingress starts the first attempt, a replay the attempt
\* its receipt names.
Starts(e) ==
  \/ \E i \in Ingests : e = <<i, 1>>
  \/ \E o \in Operations : receipts[o] # NoReplay /\ e = receipts[o]

\* The steps outside the Durable Object and the executions either start one
\* execution, change nothing it knows, or claim a replay.
LEMMA OtherSteps ==
  ASSUME TypeInv, [Next]_vars
  PROVE  \/ \E e \in Executions, kind \in Kinds : Handle(e, kind)
         \/ \E e \in Executions : Step(e)
         \/ \E o \in Operations, i \in Ingests : ClaimReplay(o, i)
         \/ /\ UNCHANGED <<row, receipts, attached, orphaned>>
            /\ ingress' \in [Ingests -> {"none", "stored", "accepted", "rejected"}]
            /\ \/ UNCHANGED run
               \/ \E e \in Executions : Starts(e) /\ StartExecution(e) /\ UNCHANGED active
            /\ \/ UNCHANGED active
               \/ active' \in BOOLEAN /\ UNCHANGED run /\ (active' = FALSE => NoFenceRows)
<1> DEFINE Quiet ==
      /\ UNCHANGED <<row, receipts, attached, orphaned>>
      /\ ingress' \in [Ingests -> {"none", "stored", "accepted", "rejected"}]
      /\ \/ UNCHANGED run
         \/ \E e \in Executions : Starts(e) /\ StartExecution(e) /\ UNCHANGED active
      /\ \/ UNCHANGED active
         \/ active' \in BOOLEAN /\ UNCHANGED run /\ (active' = FALSE => NoFenceRows)
<1>0. /\ ingress \in [Ingests -> {"none", "stored", "accepted", "rejected"}]
      /\ active \in BOOLEAN
      /\ \A i \in Ingests : <<i, 1>> \in Executions /\ Starts(<<i, 1>>)
  BY AttemptNumbers DEF TypeInv, RestType, Executions, Starts
<1>1. ASSUME NEW i \in Ingests, StoreRaw(i) PROVE Quiet
  BY <1>0, <1>1 DEF StoreRaw, control
<1>2. ASSUME NEW i \in Ingests, Reject(i) PROVE Quiet
  BY <1>0, <1>2 DEF Reject, control
<1>3. ASSUME NEW i \in Ingests, Accept(i) PROVE Quiet
  BY <1>0, <1>3 DEF Accept, control
<1>4. ASSUME NEW o \in Operations, StartReplay(o) PROVE Quiet
  <2>1. receipts[o] \in Executions /\ Starts(receipts[o])
    BY <1>4 DEF StartReplay, TypeInv, RestType, Starts
  <2> QED
    BY <1>0, <1>4, <2>1 DEF StartReplay, control
<1>5. CASE SuspendOrganization
  BY <1>0, <1>5 DEF SuspendOrganization
<1>6. CASE ResumeOrganization
  BY <1>0, <1>6 DEF ResumeOrganization
<1>7. CASE UNCHANGED vars
  BY <1>0, <1>7 DEF vars, control
<1> HIDE DEF Quiet
<1>8. QED
  BY <1>1, <1>2, <1>3, <1>4, <1>5, <1>6, <1>7
     DEF Next, Ingress, DurableObject, Replay, Quiet

\* Initially the types hold.
LEMMA InitTypes == Init => TypeInv
<1> SUFFICES ASSUME Init PROVE TypeInv
  OBVIOUS
<1>1. Used = {} /\ Cardinality({}) = 0
  BY FS_EmptySet DEF Init, Used
<1>2. "absent" \in Statuses /\ "none" \in Stages /\ "retry" \in Verdicts
  BY DEF Statuses, Stages, Verdicts
<1>3. RowType
  BY <1>2, AttemptNumbers DEF Init, RowType
<1>4. RunType
  BY <1>2, RetriesAssumption DEF Init, RunType, Replies
<1>5. RestType
  BY DEF Init, RestType
<1>6. CountInv /\ MessageInv
  BY <1>1 DEF Init, CountInv, MessageInv
<1> QED
  BY <1>3, <1>4, <1>5, <1>6 DEF TypeInv

\* A replay uses up an operation, and so stays within the attempts.
LEMMA ClaimTypes ==
  ASSUME TypeInv, NEW o \in Operations, NEW i \in Ingests, ClaimReplay(o, i)
  PROVE  TypeInv' /\ <<i, attempt[i] + 1>> \in Executions
<1>0. /\ receipts[o] = NoReplay /\ status[i] = "failed"
      /\ status' = [status EXCEPT ![i] = "received"]
      /\ replayable' = [replayable EXCEPT ![i] = FALSE]
      /\ attempt' = [attempt EXCEPT ![i] = @ + 1]
      /\ receipts' = [receipts EXCEPT ![o] = <<i, attempt[i] + 1>>]
      /\ UNCHANGED <<ingress, attached, messages, run, control>>
  BY DEF ClaimReplay
<1>1. /\ RowType /\ RunType /\ RestType /\ CountInv /\ MessageInv
      /\ attempt[i] \in Attempts /\ attempt[i] \in Nat
  BY AttemptNumbers DEF TypeInv, RowType
<1>2. /\ IsFiniteSet(Used) /\ Cardinality(Used) \in Nat
      /\ o \notin Used /\ Used \subseteq Operations
      /\ Cardinality(Used \cup {o}) = Cardinality(Used) + 1
      /\ Cardinality(Used \cup {o}) <= Cardinality(Operations)
  <2>1. o \notin Used /\ Used \subseteq Operations /\ Used \cup {o} \subseteq Operations
    BY <1>0 DEF Used
  <2>2. IsFiniteSet(Used) /\ Cardinality(Used) \in Nat
    BY <2>1, OperationsAssumption, FS_Subset, FS_CardinalityType
  <2>3. Cardinality(Used \cup {o}) = Cardinality(Used) + 1
    BY <2>1, <2>2, FS_AddElement
  <2>4. Cardinality(Used \cup {o}) <= Cardinality(Operations)
    BY <2>1, OperationsAssumption, FS_Subset
  <2> QED
    BY <2>1, <2>2, <2>3, <2>4
<1>3. attempt[i] + 1 \in Attempts
  BY <1>1, <1>2, AttemptNumbers DEF CountInv, Attempts
<1>4. <<i, attempt[i] + 1>> \in Executions
  BY <1>3 DEF Executions
<1>5. <<i, attempt[i] + 1>> # NoReplay
  BY <1>1, NoReplayAssumption
<1>6. Used' = Used \cup {o}
  BY <1>0, <1>1, <1>5 DEF Used, RestType
<1>7. CountInv'
  <2>1. \A j \in Ingests : attempt[j] \in Nat /\ attempt[j] <= 1 + Cardinality(Used)
    BY <1>1, AttemptNumbers DEF CountInv, RowType
  <2>2. \A j \in Ingests : attempt'[j] = IF j = i THEN attempt[i] + 1 ELSE attempt[j]
    BY <1>0, <1>1 DEF RowType
  <2> QED
    BY <1>2, <1>6, <2>1, <2>2 DEF CountInv
<1>8. MessageInv' /\ "received" \in Statuses
  BY <1>0, <1>1 DEF MessageInv, RowType, Statuses, Open
<1>9. RowType'
  BY <1>0, <1>1, <1>3, <1>8 DEF RowType
<1>10. RunType' /\ RestType'
  BY <1>0, <1>1, <1>4 DEF RunType, RestType, run, control
<1> QED
  BY <1>4, <1>7, <1>8, <1>9, <1>10 DEF TypeInv

\* Every step keeps the types.
LEMMA NextTypes == TypeInv /\ [Next]_vars => TypeInv'
<1> SUFFICES ASSUME TypeInv, [Next]_vars PROVE TypeInv'
  OBVIOUS
<1>1. ASSUME NEW e \in Executions, NEW kind \in Kinds, Handle(e, kind) PROVE TypeInv'
  BY <1>1, HandleTypes
<1>2. ASSUME NEW e \in Executions, Step(e) PROVE TypeInv'
  <2>1. PICK to \in Stages : Enter(e, to) /\ Moves(pc[e], to) /\ StepFrame(e, to)
    BY <1>2, StepMoves
  <2>2. RunType'
    BY <2>1, EnterTypes DEF TypeInv, RunType, StepFrame
  <2>3. UNCHANGED <<row, receipts, ingress, active>> /\ orphaned' \in BOOLEAN
        /\ attached' \subseteq Ingests
    BY <2>1 DEF StepFrame, TypeInv, RestType, Executions
  <2> QED
    BY <2>2, <2>3 DEF TypeInv, RowType, RestType, CountInv, MessageInv, Used, row
<1>3. ASSUME NEW o \in Operations, NEW i \in Ingests, ClaimReplay(o, i) PROVE TypeInv'
  BY <1>3, ClaimTypes
<1>4. ASSUME UNCHANGED <<row, receipts, attached, orphaned>>,
             ingress' \in [Ingests -> {"none", "stored", "accepted", "rejected"}],
             \/ UNCHANGED run
             \/ \E e \in Executions : Starts(e) /\ StartExecution(e) /\ UNCHANGED active,
             active' \in BOOLEAN \/ UNCHANGED active
      PROVE  TypeInv'
  <2>1. RunType'
    BY <1>4, StartTypes DEF TypeInv, RunType, run
  <2> QED
    BY <1>4, <2>1 DEF TypeInv, RowType, RestType, CountInv, MessageInv, Used, row
<1> QED
  BY <1>1, <1>2, <1>3, <1>4, OtherSteps

\* TypeInv is an invariant.
LEMMA TypeInvariant == Spec => []TypeInv
BY InitTypes, NextTypes, PTL DEF Spec

\* Every variable keeps its type: in particular an ingest becomes at most one
\* message, no replay goes beyond the operations there are, and the commit step
\* is started over at most MaxRetries times.
THEOREM TypeCorrect == Spec => []TypeOK
<1>1. TypeInv => TypeOK
  BY DEF TypeInv, RowType, RunType, RestType, TypeOK, Replies
<1> QED
  BY <1>1, TypeInvariant, PTL

-----------------------------------------------------------------------------
(* The row never shows more than the execution of its attempt has reported. *)

\* An execution has reported the checkpoints it asked for.
ReportInv ==
  \A e \in Executions, k \in Checkpoints : <<e, k>> \in calls => Rank(k) <= Reported(e)

ProgressInv == TypeInv /\ ReportInv /\ RowFollowsItsAttempt

\* Moving on, an execution has reported as much as before, and what it enters.
LEMMA MovesReport ==
  ASSUME TypeInv, NEW e \in Executions, NEW to \in Stages,
         Enter(e, to), Moves(pc[e], to) \/ (pc[e] = "none" /\ to = "raw_stored")
  PROVE  /\ Reported(e) <= Reported(e)' /\ Reported(e) \in 0 .. 3 /\ Reported(e)' \in 0 .. 3
         /\ \A f \in Executions : f # e => Reported(f)' = Reported(f)
         /\ to \in Checkpoints => Rank(to) <= Reported(e)'
<1>1. pc'[e] = to /\ \A f \in Executions : f # e => pc'[f] = pc[f]
  BY DEF TypeInv, RunType, Enter
<1>2. \A f \in Executions : f # e => Reported(f)' = Reported(f)
  BY <1>1 DEF Reported
<1>3. Reported(e) \in 0 .. 3 /\ Reported(e)' \in 0 .. 3
  BY DEF Reported
<1>4. Reported(e) <= Reported(e)'
  BY <1>1 DEF Reported, Moves, AfterCheckpoint, Checkpoints, Failures, Verdicts
<1>5. to \in Checkpoints => Rank(to) <= Reported(e)'
  BY <1>1 DEF Reported, Rank, Checkpoints
<1> QED
  BY <1>2, <1>3, <1>4, <1>5

\* ReportInv and RowFollowsItsAttempt survive an execution that moves.
LEMMA ReportsMove ==
  ASSUME ProgressInv, NEW e \in Executions, NEW to \in Stages,
         Enter(e, to), Moves(pc[e], to) \/ (pc[e] = "none" /\ to = "raw_stored"),
         UNCHANGED row
  PROVE  ReportInv' /\ RowFollowsItsAttempt'
<1>1. /\ Reported(e) <= Reported(e)' /\ Reported(e) \in 0 .. 3 /\ Reported(e)' \in 0 .. 3
      /\ \A f \in Executions : f # e => Reported(f)' = Reported(f)
      /\ to \in Checkpoints => Rank(to) <= Reported(e)'
  BY MovesReport DEF ProgressInv
<1>2. \A s : Rank(s) \in 0 .. 3
  BY DEF Rank
<1>3. calls' \subseteq calls \cup {<<e, to>>}
  BY DEF Enter
<1>4. ASSUME NEW f \in Executions, NEW k \in Checkpoints, <<f, k>> \in calls'
      PROVE  Rank(k) <= Reported(f)'
  <2>1. CASE <<f, k>> \in calls
    <3>1. Rank(k) <= Reported(f)
      BY <2>1 DEF ProgressInv, ReportInv
    <3> QED
      BY <1>1, <1>2, <3>1
  <2>2. CASE f = e /\ k = to
    BY <1>1, <2>2
  <2> QED
    BY <1>3, <1>4, <2>1, <2>2
<1>5. ASSUME NEW i \in Ingests, status[i] \in Open
      PROVE  Rank(status[i]) <= Reported(<<i, attempt[i]>>)'
  <2>1. Rank(status[i]) <= Reported(<<i, attempt[i]>>) /\ <<i, attempt[i]>> \in Executions
    BY <1>5 DEF ProgressInv, RowFollowsItsAttempt, TypeInv, RowType, Executions
  <2>2. attempt' = attempt
    BY DEF row
  <2>3. PICK f \in Executions : f = <<i, attempt[i]>>
    BY <2>1
  <2>4. Rank(status[i]) <= Reported(f)'
    BY <1>1, <1>2, <2>1, <2>3
  <2> QED
    BY <2>2, <2>3, <2>4
<1>6. ReportInv'
  BY <1>4 DEF ReportInv
<1>7. RowFollowsItsAttempt'
  <2>1. status' = status /\ attempt' = attempt
    BY DEF row
  <2> QED
    BY <1>5, <2>1 DEF RowFollowsItsAttempt, Reported
<1> QED
  BY <1>6, <1>7

\* A starting execution moves to raw_stored.
LEMMA StartMoves ==
  ASSUME NEW e \in Executions, StartExecution(e)
  PROVE  UNCHANGED run \/ (pc[e] = "none" /\ Enter(e, "raw_stored"))
BY DEF StartExecution

\* The first checkpoint is a stage.
LEMMA RawIsStage == "raw_stored" \in Stages
BY DEF Stages, Kinds, Checkpoints

\* Every step keeps ProgressInv: a late call only moves the row as far as the
\* execution that sent it has come, and only if the row is at its attempt.
LEMMA NextProgress == ProgressInv /\ [Next]_vars => ProgressInv'
<1> SUFFICES ASSUME ProgressInv, [Next]_vars PROVE ProgressInv'
  OBVIOUS
<1>0. TypeInv /\ TypeInv'
  BY NextTypes DEF ProgressInv
<1>1. ASSUME NEW e \in Executions, NEW kind \in Kinds, Handle(e, kind)
      PROVE  ReportInv' /\ RowFollowsItsAttempt'
  <2>1. /\ UNCHANGED <<pc, calls>> /\ <<e, kind>> \in calls
        /\ attempt' = attempt
        /\ \/ status' = status
           \/ ~Stale(e) /\ kind \in Checkpoints /\ status' = [status EXCEPT ![e[1]] = kind]
           \/ status' = [status EXCEPT ![e[1]] = "failed"]
           \/ status' = [status EXCEPT ![e[1]] = "ready"]
    BY <1>1 DEF Handle, RefuseStale, AnswerSettled, AnswerCheckpoint, AdvanceRow, FailRow,
                CommitMessage, RefuseCommit, Answer, row
  <2>2. ReportInv'
    BY <2>1 DEF ProgressInv, ReportInv, Reported
  <2>3. ASSUME NEW i \in Ingests, status'[i] \in Open
        PROVE  Rank(status'[i]) <= Reported(<<i, attempt[i]>>)
    <3>1. CASE status'[i] = status[i]
      BY <2>3, <3>1 DEF ProgressInv, RowFollowsItsAttempt
    <3>2. CASE status'[i] # status[i]
      <4>1. i = e[1] /\ ~Stale(e) /\ kind \in Checkpoints /\ status'[i] = kind
        BY <1>0, <2>1, <2>3, <3>2 DEF TypeInv, RowType, Executions, Open, Checkpoints
      <4>2. e = <<i, attempt[i]>>
        BY <4>1 DEF Stale, Executions
      <4>3. Rank(kind) <= Reported(e)
        BY <2>1, <4>1 DEF ProgressInv, ReportInv
      <4> QED
        BY <4>1, <4>2, <4>3
    <3> QED
      BY <3>1, <3>2
  <2>4. RowFollowsItsAttempt'
    BY <2>1, <2>3 DEF RowFollowsItsAttempt, Reported
  <2> QED
    BY <2>2, <2>4
<1>2. ASSUME NEW e \in Executions, Step(e)
      PROVE  ReportInv' /\ RowFollowsItsAttempt'
  <2>1. PICK to \in Stages : Enter(e, to) /\ Moves(pc[e], to) /\ StepFrame(e, to)
    BY <1>0, <1>2, StepMoves
  <2>2. UNCHANGED row
    BY <2>1 DEF StepFrame
  <2> QED
    BY <2>1, <2>2, ReportsMove
<1>3. ASSUME NEW o \in Operations, NEW i \in Ingests, ClaimReplay(o, i)
      PROVE  ReportInv' /\ RowFollowsItsAttempt'
  <2>1. /\ UNCHANGED <<pc, calls>>
        /\ status' = [status EXCEPT ![i] = "received"]
        /\ attempt' = [attempt EXCEPT ![i] = @ + 1]
    BY <1>3 DEF ClaimReplay, run
  <2>2. ReportInv'
    BY <2>1 DEF ProgressInv, ReportInv, Reported
  <2>3. \A s : Reported(s) \in 0 .. 3
    BY DEF Reported
  <2>4. Rank("received") = 0
    BY DEF Rank
  <2>5. ASSUME NEW j \in Ingests, status'[j] \in Open
        PROVE  Rank(status'[j]) <= Reported(<<j, attempt'[j]>>)
    BY <1>0, <2>1, <2>3, <2>4, <2>5 DEF ProgressInv, RowFollowsItsAttempt, TypeInv, RowType
  <2>6. RowFollowsItsAttempt'
    BY <2>1, <2>5 DEF RowFollowsItsAttempt, Reported
  <2> QED
    BY <2>2, <2>6
<1>4. ASSUME UNCHANGED row,
             UNCHANGED run \/ \E e \in Executions : StartExecution(e)
      PROVE  ReportInv' /\ RowFollowsItsAttempt'
  <2>1. CASE UNCHANGED run
    BY <1>4, <2>1 DEF ProgressInv, ReportInv, RowFollowsItsAttempt, Reported, run, row
  <2>2. CASE \E e \in Executions : pc[e] = "none" /\ Enter(e, "raw_stored")
    BY <1>4, <2>2, ReportsMove, RawIsStage
  <2> QED
    BY <1>4, <2>1, <2>2, StartMoves
<1> QED
  BY <1>0, <1>1, <1>2, <1>3, <1>4, OtherSteps DEF ProgressInv

\* Initially ProgressInv holds.
LEMMA InitProgress == Init => ProgressInv
<1> SUFFICES ASSUME Init PROVE ReportInv /\ RowFollowsItsAttempt
  BY InitTypes DEF ProgressInv
<1> QED
  BY DEF Init, ReportInv, RowFollowsItsAttempt, Open, Checkpoints

\* ProgressInv is an invariant.
LEMMA ProgressInvariant == Spec => []ProgressInv
BY InitProgress, NextProgress, PTL DEF Spec

\* Late calls of an earlier attempt never move the row, and calls of its own
\* attempt move it no further than that execution has come.
THEOREM RowFollows == Spec => []RowFollowsItsAttempt
BY ProgressInvariant, PTL DEF ProgressInv

-----------------------------------------------------------------------------
(* A message never lacks its attachments. *)

\* An execution past its attachments has stored them, and only such an
\* execution has asked for a commit.
StoredInv ==
  /\ \A e \in Executions :
       pc[e] \in {"attachments_stored", "acquire", "commit", "release"} => e[1] \in attached
  /\ \A e \in Executions : <<e, "commit">> \in calls => e[1] \in attached

DeliveryInv == TypeInv /\ StoredInv /\ DeliveredIsComplete

\* Every step keeps DeliveryInv.
LEMMA NextDelivery == DeliveryInv /\ [Next]_vars => DeliveryInv'
<1> SUFFICES ASSUME DeliveryInv, [Next]_vars PROVE DeliveryInv'
  OBVIOUS
<1>0. TypeInv /\ TypeInv'
  BY NextTypes DEF DeliveryInv
<1>1. ASSUME NEW e \in Executions, NEW kind \in Kinds, Handle(e, kind)
      PROVE  StoredInv' /\ DeliveredIsComplete'
  <2>1. /\ UNCHANGED <<pc, calls, attached>> /\ <<e, kind>> \in calls
        /\ \/ UNCHANGED <<status, messages>>
           \/ /\ status[e[1]] # "ready" /\ messages' = messages
              /\ \E s \in Statuses : status' = [status EXCEPT ![e[1]] = s]
           \/ /\ kind = "commit"
              /\ status' = [status EXCEPT ![e[1]] = "ready"]
              /\ messages' = [messages EXCEPT ![e[1]] = @ + 1]
    BY <1>1 DEF Handle, RefuseStale, AnswerSettled, AnswerCheckpoint, AdvanceRow, FailRow,
                CommitMessage, RefuseCommit, Answer, row, Settled, Statuses, Open
  <2>2. StoredInv'
    BY <2>1 DEF DeliveryInv, StoredInv
  <2>3. e[1] \in Ingests /\ (kind = "commit" => e[1] \in attached)
    BY <2>1 DEF DeliveryInv, StoredInv, Executions
  <2>4. \A i \in Ingests : messages[i] \in {0, 1} /\ (messages[i] = 1 <=> status[i] = "ready")
    BY <1>0 DEF TypeInv, RowType, MessageInv
  <2>5. \A i \in Ingests : messages'[i] \in {0, 1} /\ (messages'[i] = 1 <=> status'[i] = "ready")
    BY <1>0 DEF TypeInv, RowType, MessageInv
  <2>6. \A i \in Ingests : messages'[i] > 0 => i \in attached
    BY <1>0, <2>1, <2>3, <2>4, <2>5 DEF DeliveryInv, DeliveredIsComplete, TypeInv, RowType
  <2> QED
    BY <2>1, <2>2, <2>5, <2>6 DEF DeliveredIsComplete
<1>2. ASSUME NEW e \in Executions, Step(e)
      PROVE  StoredInv' /\ DeliveredIsComplete'
  <2>1. PICK to \in Stages : Enter(e, to) /\ Moves(pc[e], to) /\ StepFrame(e, to)
    BY <1>0, <1>2, StepMoves
  <2>2. /\ attached \subseteq attached'
        /\ to = "attachments_stored" => e[1] \in attached'
        /\ UNCHANGED <<status, messages>>
    BY <2>1 DEF StepFrame, row
  <2>3. to \in {"acquire", "commit", "release"} =>
          pc[e] \in {"attachments_stored", "acquire", "commit", "release"}
    BY <2>1 DEF Moves, AfterCheckpoint, Checkpoints, Failures, Verdicts
  <2>4. pc' = [pc EXCEPT ![e] = to] /\ calls' \subseteq calls \cup {<<e, to>>}
    BY <2>1 DEF Enter
  <2>5. to \in {"attachments_stored", "acquire", "commit", "release"} => e[1] \in attached'
    BY <2>2, <2>3 DEF DeliveryInv, StoredInv
  <2>6. StoredInv'
    BY <1>0, <2>2, <2>4, <2>5 DEF DeliveryInv, StoredInv, TypeInv, RunType
  <2> QED
    BY <2>2, <2>6 DEF DeliveryInv, DeliveredIsComplete
<1>3. ASSUME NEW o \in Operations, NEW i \in Ingests, ClaimReplay(o, i)
      PROVE  StoredInv' /\ DeliveredIsComplete'
  <2>1. /\ UNCHANGED <<pc, calls, attached, messages>> /\ status[i] = "failed"
        /\ status' = [status EXCEPT ![i] = "received"]
    BY <1>3 DEF ClaimReplay, run
  <2> QED
    BY <1>0, <2>1 DEF DeliveryInv, StoredInv, DeliveredIsComplete, TypeInv, RowType
<1>4. ASSUME UNCHANGED <<row, attached>>,
             UNCHANGED run \/ \E e \in Executions : StartExecution(e)
      PROVE  StoredInv' /\ DeliveredIsComplete'
  <2>1. CASE UNCHANGED run
    BY <1>4, <2>1 DEF DeliveryInv, StoredInv, DeliveredIsComplete, run, row
  <2>2. CASE \E e \in Executions : pc[e] = "none" /\ Enter(e, "raw_stored")
    <3>1. PICK e \in Executions : Enter(e, "raw_stored")
      BY <2>2
    <3>2. pc' = [pc EXCEPT ![e] = "raw_stored"] /\ calls' \subseteq calls \cup {<<e, "raw_stored">>}
      BY <3>1 DEF Enter
    <3> QED
      BY <1>0, <1>4, <3>2 DEF DeliveryInv, StoredInv, DeliveredIsComplete, TypeInv, RunType, row
  <2> QED
    BY <1>4, <2>1, <2>2, StartMoves
<1> QED
  BY <1>0, <1>1, <1>2, <1>3, <1>4, OtherSteps DEF DeliveryInv

\* Initially DeliveryInv holds.
LEMMA InitDelivery == Init => DeliveryInv
<1> SUFFICES ASSUME Init PROVE StoredInv /\ DeliveredIsComplete
  BY InitTypes DEF DeliveryInv
<1> QED
  BY DEF Init, StoredInv, DeliveredIsComplete

\* A message in the mailbox came from one commit, has its attachments in R2 and
\* its ingest is ready.
THEOREM DeliveryIsComplete == Spec => []DeliveredIsComplete
<1>1. DeliveryInv => DeliveredIsComplete
  BY DEF DeliveryInv
<1> QED
  BY <1>1, InitDelivery, NextDelivery, PTL DEF Spec

-----------------------------------------------------------------------------
(* Replays. *)

\* Where an execution is that has given up or come to its end.
Past == Failures \cup Ended

\* An execution that reported a failure has left its work; one before the
\* current attempt has too, and one after it has not begun.  A failed row was
\* failed by the execution of its attempt.
AloneInv ==
  /\ \A e \in Executions, k \in Failures : <<e, k>> \in calls => pc[e] \in Past
  /\ \A e \in Executions :
       /\ e[2] < attempt[e[1]] => pc[e] \in Past
       /\ e[2] > attempt[e[1]] => pc[e] = "none" /\ \A k \in Kinds : <<e, k>> \notin calls
       /\ e[2] = attempt[e[1]] /\ status[e[1]] = "failed" => pc[e] \in Past
  /\ \A o \in Operations :
       receipts[o] # NoReplay => receipts[o][2] <= attempt[receipts[o][1]]

ReplayInv == TypeInv /\ AloneInv

\* The executions' sets of stages do not overlap.
LEMMA PastIsOver ==
  /\ \A s \in Past : s \notin Working \cup {"none"}
  /\ "none" \notin Working
BY DEF Past, Failures, Ended, Working, Checkpoints

\* Who gives up stays given up, and only who gives up reports a failure.
LEMMA MovesPast ==
  ASSUME NEW from \in Stages, NEW to \in Stages, Moves(from, to)
  PROVE  /\ from \in Past => to \in Past
         /\ to \in Failures => to \in Past
         /\ from # "none"
BY DEF Moves, Past, Failures, Ended, Checkpoints

\* Every step keeps ReplayInv.
LEMMA NextReplay == ReplayInv /\ [Next]_vars => ReplayInv'
<1> SUFFICES ASSUME ReplayInv, [Next]_vars PROVE ReplayInv'
  OBVIOUS
<1>0. /\ TypeInv /\ TypeInv' /\ AloneInv
      /\ \A e \in Executions : e[1] \in Ingests /\ e[2] \in Nat /\ e[2] \in Attempts
      /\ \A i \in Ingests : attempt[i] \in Nat /\ 1 <= attempt[i]
  BY NextTypes, AttemptNumbers DEF ReplayInv, Executions, TypeInv, RowType, Attempts
<1>1. ASSUME NEW e \in Executions, NEW kind \in Kinds, Handle(e, kind)
      PROVE  AloneInv'
  <2>1. /\ UNCHANGED <<pc, calls, attempt, receipts>> /\ <<e, kind>> \in calls
        /\ \/ status' = status
           \/ ~Stale(e) /\ kind \in Failures
           \/ \E s \in Statuses \ {"failed"} : status' = [status EXCEPT ![e[1]] = s]
    BY <1>1 DEF Handle, RefuseStale, AnswerSettled, AnswerCheckpoint, AdvanceRow, FailRow,
                CommitMessage, RefuseCommit, Answer, row, Statuses, Open, Checkpoints
  <2>2. status' = status \/ \E s \in Statuses : status' = [status EXCEPT ![e[1]] = s]
    BY <1>1 DEF Handle, RefuseStale, AnswerSettled, AnswerCheckpoint, AdvanceRow, FailRow,
                CommitMessage, RefuseCommit, Answer, row, Statuses, Open, Checkpoints
  <2>3. ASSUME NEW f \in Executions, f[2] = attempt[f[1]], status'[f[1]] = "failed"
        PROVE  pc[f] \in Past
    <3>1. CASE status[f[1]] = "failed"
      BY <1>0, <2>3, <3>1 DEF AloneInv
    <3>2. CASE status[f[1]] # "failed"
      <4>1. f[1] = e[1] /\ ~Stale(e) /\ kind \in Failures
        BY <1>0, <2>1, <2>2, <2>3, <3>2 DEF TypeInv, RowType
      <4>2. f = e
        BY <2>3, <4>1 DEF Stale, Executions
      <4> QED
        BY <1>0, <2>1, <4>1, <4>2 DEF AloneInv
    <3> QED
      BY <3>1, <3>2
  <2> QED
    BY <1>0, <2>1, <2>3 DEF AloneInv
<1>2. ASSUME NEW e \in Executions, Step(e)
      PROVE  AloneInv'
  <2>1. PICK to \in Stages : Enter(e, to) /\ Moves(pc[e], to) /\ StepFrame(e, to)
    BY <1>0, <1>2, StepMoves
  <2>2. UNCHANGED <<status, attempt, receipts>>
    BY <2>1 DEF StepFrame, row
  <2>3. /\ pc' = [pc EXCEPT ![e] = to] /\ calls' \subseteq calls \cup {<<e, to>>}
        /\ pc \in [Executions -> Stages]
    BY <1>0, <2>1 DEF Enter, TypeInv, RunType
  <2>4. /\ pc[e] \in Past => to \in Past
        /\ to \in Failures => to \in Past
        /\ pc[e] # "none"
    BY <2>1, <2>3, MovesPast
  <2>5. ~(e[2] > attempt[e[1]])
    BY <1>0, <2>4 DEF AloneInv
  <2>6. \A f \in Executions, k \in Failures : <<f, k>> \in calls' => pc'[f] \in Past
    BY <1>0, <2>3, <2>4 DEF AloneInv
  <2>7. \A f \in Executions :
          /\ f[2] < attempt[f[1]] => pc'[f] \in Past
          /\ f[2] > attempt[f[1]] => pc'[f] = "none" /\ \A k \in Kinds : <<f, k>> \notin calls'
          /\ f[2] = attempt[f[1]] /\ status[f[1]] = "failed" => pc'[f] \in Past
    BY <1>0, <2>3, <2>4, <2>5 DEF AloneInv
  <2> QED
    BY <1>0, <2>2, <2>6, <2>7 DEF AloneInv
<1>3. ASSUME NEW o \in Operations, NEW i \in Ingests, ClaimReplay(o, i)
      PROVE  AloneInv'
  <2>1. /\ UNCHANGED <<pc, calls>> /\ status[i] = "failed"
        /\ status' = [status EXCEPT ![i] = "received"]
        /\ attempt' = [attempt EXCEPT ![i] = @ + 1]
        /\ receipts' = [receipts EXCEPT ![o] = <<i, attempt[i] + 1>>]
    BY <1>3 DEF ClaimReplay, run
  <2>2. \A j \in Ingests : attempt'[j] = (IF j = i THEN attempt[i] + 1 ELSE attempt[j])
                           /\ (status'[j] = "failed" => j # i /\ status[j] = "failed")
    BY <1>0, <2>1 DEF TypeInv, RowType
  <2>3. \A e \in Executions :
          /\ e[2] < attempt'[e[1]] => pc[e] \in Past
          /\ e[2] > attempt'[e[1]] => pc[e] = "none" /\ \A k \in Kinds : <<e, k>> \notin calls
          /\ e[2] = attempt'[e[1]] /\ status'[e[1]] = "failed" => pc[e] \in Past
    BY <1>0, <2>1, <2>2 DEF AloneInv
  <2>4. ASSUME NEW q \in Operations, receipts'[q] # NoReplay
        PROVE  receipts'[q][2] <= attempt'[receipts'[q][1]]
    <3>1. CASE q = o
      <4>1. receipts'[q] = <<i, attempt[i] + 1>>
        BY <1>0, <2>1, <3>1 DEF TypeInv, RestType
      <4> QED
        BY <1>0, <2>2, <4>1
    <3>2. CASE q # o
      <4>1. receipts'[q] = receipts[q] /\ receipts[q] \in Executions
        BY <1>0, <2>1, <2>4, <3>2 DEF TypeInv, RestType
      <4>2. receipts[q][2] <= attempt[receipts[q][1]]
        BY <1>0, <2>4, <4>1 DEF AloneInv
      <4> QED
        BY <1>0, <2>2, <4>1, <4>2
    <3> QED
      BY <3>1, <3>2
  <2> QED
    BY <1>0, <2>1, <2>3, <2>4 DEF AloneInv
<1>4. ASSUME UNCHANGED <<row, receipts>>,
             UNCHANGED run \/ \E e \in Executions : Starts(e) /\ StartExecution(e)
      PROVE  AloneInv'
  <2>0. UNCHANGED <<status, attempt, receipts>>
    BY <1>4 DEF row
  <2>1. CASE UNCHANGED run
    BY <1>0, <2>0, <2>1 DEF AloneInv, run
  <2>2. CASE \E e \in Executions : Starts(e) /\ pc[e] = "none" /\ Enter(e, "raw_stored")
    <3>1. PICK e \in Executions : Starts(e) /\ pc[e] = "none" /\ Enter(e, "raw_stored")
      BY <2>2
    <3>2. /\ pc' = [pc EXCEPT ![e] = "raw_stored"]
          /\ calls' \subseteq calls \cup {<<e, "raw_stored">>}
          /\ pc \in [Executions -> Stages] /\ "raw_stored" \notin Failures
      BY <1>0, <3>1 DEF Enter, TypeInv, RunType, Failures
    <3>3. ~(e[2] > attempt[e[1]])
      BY <1>0, <3>1 DEF Starts, AloneInv
    <3>4. pc[e] \notin Past
      BY <3>1, PastIsOver
    <3>5. \A f \in Executions, k \in Failures : <<f, k>> \in calls' => pc'[f] \in Past
      BY <1>0, <3>2, <3>4 DEF AloneInv
    <3>6. \A f \in Executions :
            /\ f[2] < attempt[f[1]] => pc'[f] \in Past
            /\ f[2] > attempt[f[1]] => pc'[f] = "none" /\ \A k \in Kinds : <<f, k>> \notin calls'
            /\ f[2] = attempt[f[1]] /\ status[f[1]] = "failed" => pc'[f] \in Past
      BY <1>0, <3>2, <3>3, <3>4 DEF AloneInv
    <3> QED
      BY <1>0, <2>0, <3>5, <3>6 DEF AloneInv
  <2> QED
    BY <1>4, <2>1, <2>2, StartMoves
<1> QED
  BY <1>0, <1>1, <1>2, <1>3, <1>4, OtherSteps DEF ReplayInv

\* Initially ReplayInv holds.
LEMMA InitReplay == Init => ReplayInv
<1> SUFFICES ASSUME Init PROVE AloneInv
  BY InitTypes DEF ReplayInv
<1>1. \A e \in Executions : e[1] \in Ingests /\ e[2] \in Nat /\ e[2] >= 1
  BY AttemptNumbers DEF Executions, Attempts
<1> QED
  BY <1>1 DEF Init, AloneInv

\* ReplayInv is an invariant.
LEMMA ReplayInvariant == Spec => []ReplayInv
BY InitReplay, NextReplay, PTL DEF Spec

\* Two executions never process the same ingest.
THEOREM ReplaysAreAlone == Spec => []ReplayIsAlone
<1>1. ASSUME ReplayInv PROVE ReplayIsAlone
  <2>1. ASSUME NEW i \in Ingests, NEW a \in Attempts, pc[<<i, a>>] \in Working
        PROVE  a = attempt[i]
    <3>1. <<i, a>> \in Executions /\ a \in Nat /\ attempt[i] \in Nat
      BY <1>1, AttemptNumbers DEF Executions, ReplayInv, TypeInv, RowType
    <3>2. pc[<<i, a>>] \notin Past /\ pc[<<i, a>>] # "none"
      BY <2>1, PastIsOver
    <3> QED
      BY <1>1, <3>1, <3>2 DEF ReplayInv, AloneInv
  <2> QED
    BY <2>1 DEF ReplayIsAlone
<1> QED
  BY <1>1, ReplayInvariant, PTL

\* The operations that claimed an attempt.
ClaimantsOf(e) == {o \in Operations : receipts[o] = e}

\* Every attempt after the first has its one operation.
LEMMA NextCounted == TypeInv /\ ReplaysAreCounted /\ [Next]_vars => ReplaysAreCounted'
<1> SUFFICES ASSUME TypeInv, ReplaysAreCounted, [Next]_vars PROVE ReplaysAreCounted'
  OBVIOUS
<1>1. ASSUME NEW o \in Operations, NEW i \in Ingests, ClaimReplay(o, i)
      PROVE  ReplaysAreCounted'
  <2>1. /\ receipts[o] = NoReplay
        /\ attempt' = [attempt EXCEPT ![i] = @ + 1]
        /\ receipts' = [receipts EXCEPT ![o] = <<i, attempt[i] + 1>>]
        /\ attempt[i] \in Nat /\ attempt[i] \in Attempts
    BY <1>1, AttemptNumbers DEF ClaimReplay, TypeInv, RowType
  <2>2. \A q \in Operations : receipts'[q] = IF q = o THEN <<i, attempt[i] + 1>> ELSE receipts[q]
    BY <2>1 DEF TypeInv, RestType
  <2>3. \A j \in Ingests : attempt'[j] = IF j = i THEN attempt[i] + 1 ELSE attempt[j]
    BY <2>1 DEF TypeInv, RowType
  <2>4. ASSUME NEW j \in Ingests, NEW a \in Attempts \ {1}
        PROVE  Cardinality({q \in Operations : receipts'[q] = <<j, a>>})
                 = (IF a <= attempt'[j] THEN 1 ELSE 0)
    <3>0. a \in Nat /\ attempt[j] \in Nat
      BY <2>4, AttemptNumbers DEF TypeInv, RowType
    <3>1. <<j, a>> # NoReplay
      BY <3>0, NoReplayAssumption
    <3>2. Cardinality(ClaimantsOf(<<j, a>>)) = (IF a <= attempt[j] THEN 1 ELSE 0)
      BY Zenon DEF ReplaysAreCounted, ClaimantsOf
    <3>3. CASE j = i /\ a = attempt[i] + 1
      <4>1. Cardinality(ClaimantsOf(<<j, a>>)) = 0 /\ IsFiniteSet(ClaimantsOf(<<j, a>>))
        BY <2>1, <3>0, <3>2, <3>3, OperationsAssumption, FS_Subset DEF ClaimantsOf
      <4>2. ClaimantsOf(<<j, a>>) = {}
        BY <4>1, FS_EmptySet
      <4>3. {q \in Operations : receipts'[q] = <<j, a>>} = {o}
        BY <2>2, <3>3, <4>2 DEF ClaimantsOf
      <4>4. Cardinality({o}) = 1
        BY FS_Singleton
      <4> QED
        <5>1. a <= attempt'[j]
          BY <2>1, <2>3, <3>3
        <5>2. Cardinality({q \in Operations : receipts'[q] = <<j, a>>}) = 1
          BY <4>3, <4>4
        <5> QED
          BY <5>1, <5>2
    <3>4. CASE ~(j = i /\ a = attempt[i] + 1)
      <4>1. {q \in Operations : receipts'[q] = <<j, a>>} = ClaimantsOf(<<j, a>>)
        BY <2>1, <2>2, <3>1, <3>4 DEF ClaimantsOf
      <4>2. a <= attempt'[j] <=> a <= attempt[j]
        BY <2>1, <2>3, <3>0, <3>4
      <4> QED
        BY <3>2, <4>1, <4>2
    <3> QED
      BY <3>3, <3>4
  <2> QED
    BY <2>4 DEF ReplaysAreCounted
<1>2. ASSUME UNCHANGED <<attempt, receipts>> PROVE ReplaysAreCounted'
  BY <1>2 DEF ReplaysAreCounted
<1>3. ASSUME NEW e \in Executions, NEW kind \in Kinds, Handle(e, kind)
      PROVE  UNCHANGED <<attempt, receipts>>
  BY <1>3 DEF Handle, RefuseStale, AnswerSettled, AnswerCheckpoint, AdvanceRow, FailRow,
              CommitMessage, RefuseCommit, Answer, row
<1>4. ASSUME NEW e \in Executions, Step(e) PROVE UNCHANGED <<attempt, receipts>>
  BY <1>4, StepMoves DEF StepFrame, row
<1> QED
  BY <1>1, <1>2, <1>3, <1>4, OtherSteps DEF row

\* Initially no attempt has been claimed.
LEMMA InitCounted == Init => ReplaysAreCounted
<1> SUFFICES ASSUME Init, NEW i \in Ingests, NEW a \in Attempts \ {1}
             PROVE  Cardinality({o \in Operations : receipts[o] = <<i, a>>})
                      = (IF a <= attempt[i] THEN 1 ELSE 0)
  BY DEF ReplaysAreCounted
<1>1. a \in Nat /\ a > 1 /\ <<i, a>> # NoReplay
  BY AttemptNumbers, NoReplayAssumption DEF Attempts
<1>2. {o \in Operations : receipts[o] = <<i, a>>} = {}
  BY <1>1 DEF Init
<1>3. attempt[i] = 1
  BY DEF Init
<1> QED
  BY <1>1, <1>2, <1>3, FS_EmptySet

\* A repeated command starts its own execution again and reopens nothing: every
\* attempt after the first has exactly one operation that names it.
THEOREM ReplaysCounted == Spec => []ReplaysAreCounted
<1>1. Init => TypeInv /\ ReplaysAreCounted
  BY InitTypes, InitCounted
<1>2. (TypeInv /\ ReplaysAreCounted) /\ [Next]_vars => (TypeInv /\ ReplaysAreCounted)'
  BY NextTypes, NextCounted
<1> QED
  BY <1>1, <1>2, PTL DEF Spec

-----------------------------------------------------------------------------
(* Suspension. *)

\* While the organization is suspended no execution holds a fence row.
QuietInv == ~active => \A e \in Executions : pc[e] \notin {"commit", "release"}

\* No execution waits for a commit while the organization is suspended.
THEOREM SuspensionAwaitsNoCommit == Spec => []SuspendedAwaitsNoCommit
<1>1. Init => TypeInv /\ QuietInv
  BY InitTypes DEF Init, QuietInv
<1>2. ASSUME TypeInv, QuietInv, [Next]_vars PROVE QuietInv'
  <2>1. ASSUME NEW e \in Executions, NEW kind \in Kinds, Handle(e, kind) PROVE QuietInv'
    <3>1. UNCHANGED <<pc, active>>
      BY <2>1 DEF Handle, RefuseStale, AnswerSettled, AnswerCheckpoint, AdvanceRow, FailRow,
                  CommitMessage, RefuseCommit, Answer, control
    <3> QED
      BY <1>2, <3>1 DEF QuietInv
  <2>2. ASSUME NEW e \in Executions, Step(e) PROVE QuietInv'
    <3>1. PICK to \in Stages : Enter(e, to) /\ Moves(pc[e], to) /\ StepFrame(e, to)
      BY <1>2, <2>2, StepMoves
    <3>2. pc' = [pc EXCEPT ![e] = to] /\ active' = active /\ (to = "commit" => active)
      BY <3>1 DEF Enter, StepFrame
    <3>3. to = "release" => pc[e] = "commit"
      BY <3>1 DEF Moves, AfterCheckpoint, Checkpoints, Failures, Verdicts
    <3> QED
      BY <1>2, <3>2, <3>3 DEF QuietInv, TypeInv, RunType
  <2>3. ASSUME NEW o \in Operations, NEW i \in Ingests, ClaimReplay(o, i) PROVE QuietInv'
    <3>1. UNCHANGED <<pc, active>>
      BY <2>3 DEF ClaimReplay, run, control
    <3> QED
      BY <1>2, <3>1 DEF QuietInv
  <2>4. ASSUME NEW e \in Executions, StartExecution(e), active' = active PROVE QuietInv'
    <3>1. pc' = pc \/ pc' = [pc EXCEPT ![e] = "raw_stored"]
      BY <2>4 DEF StartExecution, Enter, run
    <3> QED
      BY <1>2, <2>4, <3>1 DEF QuietInv, TypeInv, RunType
  <2>5. ASSUME UNCHANGED run,
               \/ UNCHANGED active
               \/ active' \in BOOLEAN /\ UNCHANGED run /\ (active' = FALSE => NoFenceRows)
        PROVE  QuietInv'
    <3>1. pc' = pc
      BY <2>5 DEF run
    <3>2. CASE active' = active
      BY <1>2, <3>1, <3>2 DEF QuietInv
    <3>3. CASE active' \in BOOLEAN /\ (active' = FALSE => NoFenceRows)
      BY <3>1, <3>3 DEF QuietInv, NoFenceRows
    <3> QED
      BY <2>5, <3>2, <3>3
  <2>6. ASSUME NEW e \in Executions, StartExecution(e),
               \/ UNCHANGED active
               \/ active' \in BOOLEAN /\ UNCHANGED run /\ (active' = FALSE => NoFenceRows)
        PROVE  QuietInv'
    BY <2>4, <2>5, <2>6
  <2> QED
    BY <1>2, <2>1, <2>2, <2>3, <2>5, <2>6, OtherSteps
<1>3. TypeInv /\ QuietInv /\ [Next]_vars => (TypeInv /\ QuietInv)'
  BY <1>2, NextTypes
<1>4. QuietInv => SuspendedAwaitsNoCommit
  BY DEF QuietInv, SuspendedAwaitsNoCommit
<1> QED
  BY <1>1, <1>3, <1>4, PTL DEF Spec

-----------------------------------------------------------------------------
(* The abstract life of an ingest is implemented. *)

Phases == [i \in Ingests |-> Phase(i)]

AbstractStep == [Lifecycle!Next]_(Lifecycle!vars)

\* A row that changes its status has its phase change with it, and no other.
LEMMA OnePhaseChanges ==
  ASSUME TypeInv, NEW i \in Ingests, NEW s,
         status' = [status EXCEPT ![i] = s],
         \A j \in Ingests : j # i => replayable'[j] = replayable[j]
  PROVE  /\ s \in Open => Phases' = [Phases EXCEPT ![i] = "open"]
         /\ s = "failed" /\ replayable'[i] => Phases' = [Phases EXCEPT ![i] = "retryable"]
         /\ s = "failed" /\ ~replayable'[i] => Phases' = [Phases EXCEPT ![i] = "failed"]
         /\ s = "ready" => Phases' = [Phases EXCEPT ![i] = "ready"]
<1>1. \A j \in Ingests : status'[j] = IF j = i THEN s ELSE status[j]
  BY DEF TypeInv, RowType
<1>2. /\ s \in Open => Phase(i)' = "open"
      /\ s = "failed" /\ replayable'[i] => Phase(i)' = "retryable"
      /\ s = "failed" /\ ~replayable'[i] => Phase(i)' = "failed"
      /\ s = "ready" => Phase(i)' = "ready"
  BY <1>1 DEF Phase, Open, Checkpoints
<1>3. \A j \in Ingests : j # i => Phase(j)' = Phase(j)
  BY <1>1 DEF Phase
<1>4. ASSUME NEW p, Phase(i)' = p PROVE Phases' = [Phases EXCEPT ![i] = p]
  BY <1>3, <1>4 DEF Phases
<1> QED
  BY <1>2, <1>4

\* A row that is not settled is absent or open.
LEMMA UnsettledPhase ==
  ASSUME TypeInv, NEW i \in Ingests, ~Settled(i)
  PROVE  Phase(i) \in {"absent", "open"} /\ messages[i] = 0
<1>1. status[i] \in Open \cup {"absent"} /\ status[i] # "ready" /\ messages[i] \in {0, 1}
  BY DEF TypeInv, RowType, Statuses, Settled
<1>2. messages[i] = 0
  BY <1>1 DEF TypeInv, MessageInv
<1>3. CASE status[i] \in Open
  BY <1>2, <1>3 DEF Phase, Open, Checkpoints
<1>4. CASE status[i] = "absent"
  BY <1>2, <1>4 DEF Phase, Open, Checkpoints
<1> QED
  BY <1>1, <1>3, <1>4

\* An unchanged row is a stutter.
LEMMA UnchangedPhases ==
  ASSUME UNCHANGED <<status, replayable, messages>>
  PROVE  AbstractStep
<1>1. \A j \in Ingests : Phase(j)' = Phase(j)
  BY DEF Phase
<1>2. Phases' = Phases
  BY <1>1 DEF Phases
<1> QED
  BY <1>2 DEF AbstractStep, Lifecycle!vars, Phases

\* Every step is a step of the abstract life of some ingest, or none.
LEMMA LifecycleNext == TypeInv /\ [Next]_vars => AbstractStep
<1> SUFFICES ASSUME TypeInv, [Next]_vars PROVE AbstractStep
  OBVIOUS
<1>0. /\ \A i \in Ingests : /\ status[i] \in Statuses
                             /\ Phases[i] = Phase(i)
                             /\ messages[i] \in {0, 1}
                             /\ messages[i] = 1 <=> status[i] = "ready"
      /\ \A e \in Executions : e[1] \in Ingests
  BY DEF TypeInv, RowType, MessageInv, Phases, Executions
<1>1. ASSUME NEW e \in Executions, NEW kind \in Kinds, AdvanceRow(e, kind)
      PROVE  AbstractStep
  <2>1. /\ status' = [status EXCEPT ![e[1]] = kind] /\ UNCHANGED <<replayable, messages>>
        /\ kind \in Checkpoints /\ ~Settled(e[1]) /\ kind \in Open
    BY <1>1 DEF AdvanceRow, Open
  <2>2. Phases' = [Phases EXCEPT ![e[1]] = "open"]
    BY <1>0, <2>1, OnePhaseChanges
  <2>3. Phase(e[1]) = "absent" \/ Phase(e[1]) = "open"
    BY <1>0, <2>1, UnsettledPhase
  <2>4. CASE Phase(e[1]) = "absent"
    <3>1. Lifecycle!Begin(e[1])
      BY <1>0, <2>1, <2>2, <2>4 DEF Lifecycle!Begin, Phases
    <3> QED
      BY <1>0, <3>1 DEF AbstractStep, Lifecycle!Next
  <2>5. CASE Phase(e[1]) = "open"
    <3>1. Phases' = Phases
      BY <1>0, <2>2, <2>5 DEF Phases
    <3> QED
      BY <2>1, <3>1 DEF AbstractStep, Lifecycle!vars, Phases
  <2> QED
    BY <2>3, <2>4, <2>5
<1>2. ASSUME NEW e \in Executions, NEW kind \in Kinds, FailRow(e, kind)
      PROVE  AbstractStep
  <2>1. /\ status' = [status EXCEPT ![e[1]] = "failed"] /\ UNCHANGED messages
        /\ replayable' = [replayable EXCEPT ![e[1]] = (kind = "fail_replayable")]
        /\ ~Settled(e[1])
    BY <1>2 DEF FailRow
  <2>2. Phase(e[1]) \in {"absent", "open"}
    BY <1>0, <2>1, UnsettledPhase
  <2>3. \A j \in Ingests : j # e[1] => replayable'[j] = replayable[j]
    BY <1>0, <2>1 DEF TypeInv, RowType
  <2>4. PICK p \in {"failed", "retryable"} : Phases' = [Phases EXCEPT ![e[1]] = p]
    BY <1>0, <2>1, <2>3, OnePhaseChanges
  <2>5. Lifecycle!Fail(e[1], p)
    BY <1>0, <2>1, <2>2, <2>4 DEF Lifecycle!Fail, Phases
  <2> QED
    BY <1>0, <2>5 DEF AbstractStep, Lifecycle!Next
<1>3. ASSUME NEW e \in Executions, NEW kind \in Kinds, CommitMessage(e, kind)
      PROVE  AbstractStep
  <2>1. /\ status' = [status EXCEPT ![e[1]] = "ready"] /\ UNCHANGED replayable
        /\ messages' = [messages EXCEPT ![e[1]] = @ + 1]
        /\ status[e[1]] \in {"absent", "attachments_stored"}
    BY <1>3 DEF CommitMessage, Committable
  <2>2. Phase(e[1]) \in {"absent", "open"} /\ messages[e[1]] = 0
    BY <1>0, <2>1, UnsettledPhase DEF Settled
  <2>3. Phases' = [Phases EXCEPT ![e[1]] = "ready"]
    BY <1>0, <2>1, OnePhaseChanges
  <2>4. messages' = [messages EXCEPT ![e[1]] = 1]
    BY <1>0, <2>1, <2>2
  <2>5. Lifecycle!Deliver(e[1])
    BY <1>0, <2>2, <2>3, <2>4 DEF Lifecycle!Deliver, Phases
  <2> QED
    BY <1>0, <2>5 DEF AbstractStep, Lifecycle!Next
<1>4. ASSUME NEW o \in Operations, NEW i \in Ingests, ClaimReplay(o, i)
      PROVE  AbstractStep
  <2>1. /\ status' = [status EXCEPT ![i] = "received"] /\ UNCHANGED messages
        /\ replayable' = [replayable EXCEPT ![i] = FALSE]
        /\ status[i] = "failed" /\ replayable[i]
    BY <1>4 DEF ClaimReplay
  <2>2. Phase(i) = "retryable" /\ "received" \in Open
    BY <2>1 DEF Phase, Open, Checkpoints
  <2>3. Phases' = [Phases EXCEPT ![i] = "open"]
    <3>1. \A j \in Ingests : j # i => replayable'[j] = replayable[j]
      BY <2>1 DEF TypeInv, RowType
    <3> QED
      BY <2>1, <2>2, <3>1, OnePhaseChanges
  <2>4. Lifecycle!Reopen(i)
    BY <1>0, <2>1, <2>2, <2>3 DEF Lifecycle!Reopen, Phases
  <2> QED
    BY <2>4 DEF AbstractStep, Lifecycle!Next
<1>5. ASSUME UNCHANGED <<status, replayable, messages>> PROVE AbstractStep
  BY <1>5, UnchangedPhases
<1>6. ASSUME NEW e \in Executions, NEW kind \in Kinds, Handle(e, kind)
      PROVE  AdvanceRow(e, kind) \/ FailRow(e, kind) \/ CommitMessage(e, kind)
               \/ UNCHANGED <<status, replayable, messages>>
  BY <1>6 DEF Handle, RefuseStale, AnswerSettled, AnswerCheckpoint, RefuseCommit, row
<1>7. ASSUME NEW e \in Executions, Step(e) PROVE UNCHANGED <<status, replayable, messages>>
  BY <1>7, StepMoves DEF StepFrame, row
<1>8. UNCHANGED row => UNCHANGED <<status, replayable, messages>>
  BY DEF row
<1> QED
  BY <1>1, <1>2, <1>3, <1>4, <1>5, <1>6, <1>7, <1>8, OtherSteps

\* Inbound processing keeps what the abstract life of an ingest promises: one
\* message per mail, and none beside a failure.
THEOREM IngestLifecycleImplemented == Spec => ImplementsIngestLifecycle
<1>1. Init => Lifecycle!Init
  <2> SUFFICES ASSUME Init PROVE Lifecycle!Init
    OBVIOUS
  <2>1. \A i \in Ingests : Phase(i) = "absent"
    BY DEF Init, Phase, Open, Checkpoints
  <2> QED
    BY <2>1 DEF Init, Lifecycle!Init
<1> QED
  BY <1>1, LifecycleNext, TypeInvariant, PTL
     DEF Spec, ImplementsIngestLifecycle, Lifecycle!Spec, AbstractStep

-----------------------------------------------------------------------------
(* Answers, and how executions end. *)

\* The row has come to rank n, is settled, or belongs to another attempt.
Reached(e, n) == Stale(e) \/ Settled(e[1]) \/ Rank(status[e[1]]) >= n

\* The rank the row has when its execution is in a stage.
Need(stage) ==
  CASE stage = "parsing" -> 1
    [] stage \in {"parse", "attach", "attachments_stored"} -> 2
    [] stage \in {"acquire", "commit", "release"} -> 3
    [] OTHER -> 0

\* An answer on its way still tells the truth of the row, unless a replay has
\* taken it over.
AnswerInv ==
  \A e \in Executions :
    /\ reply[e] # "none" => pc[e] \in Kinds
    /\ reply[e] = "ready" => status[e[1]] = "ready"
    /\ reply[e] = "failed" => pc[e] # "commit" /\ (Stale(e) \/ status[e[1]] = "failed")
    /\ reply[e] = "refused" => Stale(e)
    /\ reply[e] = "open" => pc[e] \in Checkpoints /\ Reached(e, Rank(pc[e]))

\* So does the way an execution ends or is about to end, and the row has come as
\* far as an execution that goes on needs it.
EndInv ==
  \A e \in Executions :
    /\ pc[e] = "release" /\ verdict[e] = "completed" => status[e[1]] = "ready"
    /\ pc[e] = "release" /\ verdict[e] = "refused" => Stale(e)
    /\ pc[e] = "completed" => status[e[1]] = "ready"
    /\ pc[e] = "stopped" => Stale(e) \/ status[e[1]] = "failed"
    /\ pc[e] = "refused" => Stale(e)
    /\ Reached(e, Need(pc[e]))

OutcomeInv == ReplayInv /\ AnswerInv /\ EndInv

\* A step moves its execution where the answer or the verdict says.
LEMMA StepEnds ==
  ASSUME OutcomeInv, NEW e \in Executions, Step(e)
  PROVE  /\ pc'[e] = "release" /\ verdict'[e] = "completed" => status[e[1]] = "ready"
         /\ pc'[e] = "release" /\ verdict'[e] = "refused" => Stale(e)
         /\ pc'[e] = "completed" => status[e[1]] = "ready"
         /\ pc'[e] = "stopped" => Stale(e) \/ status[e[1]] = "failed"
         /\ pc'[e] = "refused" => Stale(e)
         /\ Reached(e, Need(pc'[e]))
         /\ \A f \in Executions : f # e => verdict'[f] = verdict[f]
<1> DEFINE Goal ==
      /\ pc'[e] = "release" /\ verdict'[e] = "completed" => status[e[1]] = "ready"
      /\ pc'[e] = "release" /\ verdict'[e] = "refused" => Stale(e)
      /\ pc'[e] = "completed" => status[e[1]] = "ready"
      /\ pc'[e] = "stopped" => Stale(e) \/ status[e[1]] = "failed"
      /\ pc'[e] = "refused" => Stale(e)
      /\ Reached(e, Need(pc'[e]))
      /\ \A f \in Executions : f # e => verdict'[f] = verdict[f]
<1>0. /\ TypeInv /\ AnswerInv /\ EndInv
      /\ reply[e] \in Replies /\ e[1] \in Ingests
      /\ \A n, k \in 0 .. 3 : Reached(e, n) /\ k <= n => Reached(e, k)
      /\ Reached(e, Need(pc[e]))
      /\ \A s : Need(s) \in 0 .. 3 /\ Rank(s) \in 0 .. 3
  BY DEF OutcomeInv, ReplayInv, EndInv, Reached, Rank, Need, TypeInv, RunType, Executions
<1>1. PICK to \in Stages : Enter(e, to) /\ Moves(pc[e], to)
  BY <1>0, StepMoves
<1>2. pc'[e] = to
  BY <1>0, <1>1 DEF Enter, TypeInv, RunType
<1>3. CASE CheckpointAnswered(e)
  <2>1. /\ pc[e] \in Checkpoints /\ reply[e] # "none" /\ verdict' = verdict
        /\ pc'[e] = CASE reply[e] = "ready" -> "completed"
                      [] reply[e] = "failed" -> "stopped"
                      [] reply[e] = "refused" -> "refused"
                      [] OTHER -> AfterCheckpoint(pc[e])
    BY <1>0, <1>3 DEF CheckpointAnswered, Local, Enter, TypeInv, RunType
  <2>2. CASE reply[e] = "open"
    <3>1. pc'[e] = AfterCheckpoint(pc[e]) /\ Reached(e, Rank(pc[e]))
      BY <1>0, <2>1, <2>2 DEF AnswerInv
    <3>2. Need(AfterCheckpoint(pc[e])) = Rank(pc[e])
      BY <2>1 DEF Need, Rank, AfterCheckpoint, Checkpoints
    <3>3. pc'[e] \in {"parsing", "parse", "acquire"}
      BY <2>1, <3>1 DEF AfterCheckpoint, Checkpoints
    <3> QED
      BY <2>1, <3>1, <3>2, <3>3
  <2>3. CASE reply[e] # "open"
    <3>1. \/ reply[e] = "ready" /\ pc'[e] = "completed"
          \/ reply[e] = "failed" /\ pc'[e] = "stopped"
          \/ reply[e] = "refused" /\ pc'[e] = "refused"
      BY <1>0, <2>1, <2>3 DEF Replies
    <3>2. Need(pc'[e]) = 0
      BY <3>1 DEF Need
    <3> QED
      BY <1>0, <2>1, <3>1, <3>2 DEF AnswerInv
  <2> QED
    BY <2>2, <2>3
<1>4. CASE CommitAnswered(e)
  <2>1. /\ pc[e] = "commit" /\ reply[e] # "none" /\ pc'[e] = "release"
        /\ verdict' = [verdict EXCEPT ![e] = IF reply[e] = "ready" THEN "completed" ELSE "refused"]
    BY <1>0, <1>4 DEF CommitAnswered, Decide, Enter, TypeInv, RunType
  <2>2. reply[e] = "ready" \/ reply[e] = "refused"
    BY <1>0, <2>1 DEF AnswerInv, Replies, Checkpoints
  <2>3. Need(pc'[e]) = 3 /\ Need(pc[e]) = 3
    BY <2>1 DEF Need
  <2>4. verdict'[e] = (IF reply[e] = "ready" THEN "completed" ELSE "refused")
        /\ \A f \in Executions : f # e => verdict'[f] = verdict[f]
    BY <1>0, <2>1 DEF TypeInv, RunType
  <2> QED
    BY <1>0, <2>1, <2>2, <2>3, <2>4 DEF AnswerInv
<1>5. CASE CommitBreaks(e)
  <2>1. PICK outcome \in {"retry", "fail_final"} : Decide(e, outcome)
    BY <1>5 DEF CommitBreaks
  <2>2. /\ pc[e] = "commit" /\ pc'[e] = "release" /\ verdict'[e] = outcome
        /\ \A f \in Executions : f # e => verdict'[f] = verdict[f]
    BY <1>0, <1>5, <2>1 DEF CommitBreaks, Decide, Enter, TypeInv, RunType
  <2>3. Need(pc'[e]) = 3 /\ Need(pc[e]) = 3
    BY <2>2 DEF Need
  <2> QED
    BY <1>0, <2>2, <2>3
<1>6. CASE ReleaseFence(e) \/ ReleaseFails(e)
  <2>1. /\ pc[e] = "release" /\ verdict' = verdict
        /\ Again(e, "stranded") \/ AfterRelease(e)
    BY <1>6 DEF ReleaseFence, ReleaseFails
  <2>2. \/ to \in {"acquire", "stranded", "fail_replayable"}
        \/ (to = verdict[e] /\ verdict[e] \in Verdicts \ {"retry"})
    <3>1. PICK t \in {"acquire", "stranded", "fail_replayable", verdict[e]} :
            /\ Enter(e, t)
            /\ t \in {"acquire", "stranded", "fail_replayable"} \/ verdict[e] # "retry"
      BY <2>1 DEF Again, AfterRelease
    <3>2. t = to
      BY <1>0, <1>2, <3>1 DEF Enter, TypeInv, RunType
    <3> QED
      BY <1>0, <3>1, <3>2 DEF TypeInv, RunType
  <2>3. /\ Need("release") = 3 /\ Need("acquire") = 3
        /\ \A s \in {"stranded", "fail_replayable"} \cup Verdicts : Need(s) = 0
        /\ "release" \notin {"acquire", "stranded", "fail_replayable"} \cup Verdicts
    BY DEF Need, Verdicts
  <2>4. Reached(e, Need(to))
    BY <1>0, <2>1, <2>2, <2>3
  <2>5. to # "release" /\ (to = "completed" \/ to = "refused" => to = verdict[e])
        /\ to # "stopped"
    BY <2>2, <2>3 DEF Verdicts
  <2>6. /\ to = "completed" => status[e[1]] = "ready"
        /\ to = "refused" => Stale(e)
    BY <1>0, <2>1, <2>5 DEF EndInv
  <2> QED
    BY <1>2, <2>1, <2>4, <2>5, <2>6
<1>7. CASE FailureAnswered(e)
  <2>1. /\ pc[e] \in Failures /\ reply[e] # "none" /\ verdict' = verdict
        /\ pc'[e] = CASE reply[e] = "ready" -> "completed"
                      [] reply[e] = "failed" -> "stopped"
                      [] OTHER -> "refused"
    BY <1>0, <1>7 DEF FailureAnswered, Local, Enter, TypeInv, RunType
  <2>2. reply[e] # "open"
    BY <1>0, <2>1 DEF AnswerInv, Failures, Checkpoints
  <2>3. \/ reply[e] = "ready" /\ pc'[e] = "completed"
        \/ reply[e] = "failed" /\ pc'[e] = "stopped"
        \/ reply[e] = "refused" /\ pc'[e] = "refused"
    BY <1>0, <2>1, <2>2 DEF Replies
  <2>4. Need(pc'[e]) = 0
    BY <2>3 DEF Need
  <2> QED
    BY <1>0, <2>1, <2>3, <2>4 DEF AnswerInv
<1>8. CASE \/ CheckpointBreaks(e) \/ ParseRaw(e) \/ StoreAttachments(e) \/ AcquireFence(e)
           \/ AcquireFails(e) \/ CommitInterrupted(e) \/ FailureBreaks(e)
  <2>1. /\ verdict' = verdict
        /\ \/ pc[e] \in {"acquire", "commit", "release"} /\ to \in {"acquire", "commit"}
           \/ pc[e] \in {"parse", "attach"} /\ to \in {"attach", "attachments_stored"}
           \/ to \in Failures \cup {"stranded", "suspended"}
    <3>1. verdict' = verdict
      BY <1>8 DEF CheckpointBreaks, ParseRaw, StoreAttachments, AcquireFence, AcquireFails,
                  CommitInterrupted, FailureBreaks, Local
    <3>2. PICK t : /\ Enter(e, t)
                   /\ \/ pc[e] \in {"acquire", "commit", "release"} /\ t \in {"acquire", "commit"}
                      \/ pc[e] \in {"parse", "attach"} /\ t \in {"attach", "attachments_stored"}
                      \/ t \in Failures \cup {"stranded", "suspended"}
      BY <1>8 DEF CheckpointBreaks, ParseRaw, StoreAttachments, AcquireFence, AcquireFails,
                  CommitInterrupted, FailureBreaks, Again, Failures
    <3>3. t = to
      BY <1>0, <1>2, <3>2 DEF Enter, TypeInv, RunType
    <3> QED
      BY <3>1, <3>2, <3>3
  <2>2. to \notin {"release", "completed", "stopped", "refused"} /\ Need(to) <= Need(pc[e])
    BY <2>1 DEF Need, Failures
  <2> QED
    BY <1>0, <1>2, <2>1, <2>2
<1> QED
  BY <1>3, <1>4, <1>5, <1>6, <1>7, <1>8 DEF Step

\* What a row tells an execution only changes by a replay, which ends the
\* execution's part in it.
LEMMA RowTells ==
  ASSUME OutcomeInv, TypeInv', NEW e \in Executions, NEW kind \in Kinds, Handle(e, kind)
  PROVE  /\ attempt' = attempt
         /\ \A f \in Executions :
              /\ Stale(f)' <=> Stale(f)
              /\ status[f[1]] = "ready" => status'[f[1]] = "ready"
              /\ status[f[1]] = "failed" => status'[f[1]] = "failed"
              /\ \A n \in 0 .. 3 : Reached(f, n) => Reached(f, n)'
<1>1. /\ attempt' = attempt
      /\ \/ status' = status
         \/ /\ ~Settled(e[1])
            /\ kind \in Checkpoints /\ Rank(kind) = Rank(status[e[1]]) + 1
            /\ status' = [status EXCEPT ![e[1]] = kind]
         \/ ~Settled(e[1]) /\ status' = [status EXCEPT ![e[1]] = "failed"]
         \/ ~Settled(e[1]) /\ status' = [status EXCEPT ![e[1]] = "ready"]
  BY DEF Handle, RefuseStale, AnswerSettled, AnswerCheckpoint, AdvanceRow, FailRow,
         CommitMessage, RefuseCommit, row, Committable, Settled
<1>2. \A f \in Executions : f[1] \in Ingests
  BY DEF Executions
<1>3. \A s : Rank(s) \in 0 .. 3
  BY DEF Rank
<1>4. status \in [Ingests -> Statuses]
  BY DEF OutcomeInv, ReplayInv, TypeInv, RowType
<1>5. \A f \in Executions : Stale(f)' <=> Stale(f)
  BY <1>1 DEF Stale
<1>6. \A f \in Executions :
        /\ Settled(f[1]) => status'[f[1]] = status[f[1]]
        /\ Rank(status'[f[1]]) >= Rank(status[f[1]])
             \/ status'[f[1]] \in {"ready", "failed"}
  BY <1>1, <1>2, <1>3, <1>4 DEF Settled
<1>7. ASSUME NEW f \in Executions, NEW n \in 0 .. 3, Reached(f, n) PROVE Reached(f, n)'
  BY <1>3, <1>5, <1>6, <1>7 DEF Reached, Settled
<1> QED
  BY <1>1, <1>5, <1>6, <1>7 DEF Settled

\* A current execution that waits for its commit is never refused.
LEMMA CommitIsHeard ==
  ASSUME OutcomeInv, NEW e \in Executions, pc[e] = "commit",
         ~Committable(e[1]), status[e[1]] # "ready"
  PROVE  Stale(e)
<1>1. Need("commit") = 3
  BY DEF Need
<1>2. e[1] \in Ingests /\ e[2] \in Nat /\ attempt[e[1]] \in Nat /\ status[e[1]] \in Statuses
  BY AttemptNumbers DEF OutcomeInv, ReplayInv, TypeInv, RowType, Executions
<1>3. Reached(e, 3)
  BY <1>1 DEF OutcomeInv, EndInv
<1>4. Rank(status[e[1]]) < 3
  BY <1>2 DEF Committable, Rank, Statuses, Open, Checkpoints
<1>5. "commit" \notin Past
  BY DEF Past, Failures, Ended
<1>6. status[e[1]] = "failed" => Stale(e)
  BY <1>2, <1>5 DEF OutcomeInv, ReplayInv, AloneInv, Stale
<1> QED
  BY <1>2, <1>3, <1>4, <1>6 DEF Reached, Settled, Rank

\* The answer to a call that an execution waits for is the truth.
LEMMA AnswersAreTrue ==
  ASSUME OutcomeInv, TypeInv', NEW e \in Executions, NEW kind \in Kinds, Handle(e, kind),
         pc[e] = kind, reply'[e] # reply[e]
  PROVE  /\ reply'[e] = "ready" => status'[e[1]] = "ready"
         /\ reply'[e] = "failed" => pc[e] # "commit" /\ status'[e[1]] = "failed"
         /\ reply'[e] = "refused" => Stale(e)
         /\ reply'[e] = "open" => pc[e] \in Checkpoints /\ Rank(status'[e[1]]) >= Rank(pc[e])
         /\ reply'[e] # "none"
<1>0. /\ e[1] \in Ingests /\ status \in [Ingests -> Statuses] /\ reply \in [Executions -> Replies]
      /\ \A s : Rank(s) \in 0 .. 3
  BY DEF OutcomeInv, ReplayInv, TypeInv, RowType, RunType, Executions, Rank
<1>1. ASSUME NEW answer, Answer(e, kind, answer) PROVE reply'[e] = answer
  BY <1>0, <1>1 DEF Answer
<1>2. CASE RefuseStale(e, kind)
  BY <1>1, <1>2 DEF RefuseStale
<1>3. CASE AnswerSettled(e, kind)
  BY <1>1, <1>3 DEF AnswerSettled, Settled, row
<1>4. CASE AnswerCheckpoint(e, kind)
  <2>1. /\ ~Stale(e) /\ ~Settled(e[1]) /\ kind \in Checkpoints /\ status' = status
        /\ Rank(kind) # Rank(status[e[1]]) + 1
        /\ reply'[e] = IF Rank(kind) <= Rank(status[e[1]]) THEN "open" ELSE "refused"
    BY <1>1, <1>4 DEF AnswerCheckpoint, row
  <2>2. Rank(status[e[1]]) >= Need(kind)
    BY <2>1 DEF OutcomeInv, EndInv, Reached
  <2>3. Need(kind) >= Rank(kind) - 1 /\ Need(kind) \in 0 .. 3
    BY <2>1 DEF Need, Rank, Checkpoints
  <2>4. Rank(kind) <= Rank(status[e[1]])
    BY <1>0, <2>1, <2>2, <2>3
  <2> QED
    BY <1>0, <2>1, <2>4
<1>5. CASE AdvanceRow(e, kind)
  <2>1. /\ kind \in Checkpoints /\ status'[e[1]] = kind /\ reply'[e] = "open"
    BY <1>0, <1>1, <1>5 DEF AdvanceRow
  <2> QED
    BY <1>0, <2>1
<1>6. CASE FailRow(e, kind)
  <2>1. kind \in Failures /\ status'[e[1]] = "failed" /\ reply'[e] = "failed"
    BY <1>0, <1>1, <1>6 DEF FailRow, Statuses
  <2> QED
    BY <2>1 DEF Failures
<1>7. CASE CommitMessage(e, kind)
  <2>1. status'[e[1]] = "ready" /\ reply'[e] = "ready"
    BY <1>0, <1>1, <1>7 DEF CommitMessage
  <2> QED
    BY <2>1
<1>8. CASE RefuseCommit(e, kind)
  <2>1. reply'[e] = "refused" /\ Stale(e)
    BY <1>1, <1>8, CommitIsHeard DEF RefuseCommit
  <2> QED
    BY <2>1
<1> QED
  BY <1>2, <1>3, <1>4, <1>5, <1>6, <1>7, <1>8 DEF Handle

\* Every step keeps OutcomeInv.
LEMMA NextOutcome == OutcomeInv /\ [Next]_vars => OutcomeInv'
<1> SUFFICES ASSUME OutcomeInv, [Next]_vars PROVE OutcomeInv'
  OBVIOUS
<1>0. /\ ReplayInv /\ ReplayInv' /\ TypeInv /\ TypeInv' /\ AnswerInv /\ EndInv /\ AloneInv
      /\ \A s : Need(s) \in 0 .. 3 /\ Rank(s) \in 0 .. 3
      /\ \A e \in Executions : e[1] \in Ingests /\ e[2] \in Nat
      /\ \A i \in Ingests : attempt[i] \in Nat
      /\ pc \in [Executions -> Stages] /\ reply \in [Executions -> Replies]
  BY NextReplay, AttemptNumbers
     DEF OutcomeInv, ReplayInv, Need, Rank, Executions, TypeInv, RowType, RunType
<1>1. ASSUME NEW e \in Executions, NEW kind \in Kinds, Handle(e, kind)
      PROVE  AnswerInv' /\ EndInv'
  <2>1. /\ UNCHANGED <<pc, verdict>>
        /\ \A f \in Executions : f # e => reply'[f] = reply[f]
        /\ pc[e] = kind \/ reply' = reply
    BY <1>0, <1>1 DEF Handle, RefuseStale, AnswerSettled, AnswerCheckpoint, AdvanceRow, FailRow,
                CommitMessage, RefuseCommit, Answer
  <2>2. \A f \in Executions :
          /\ Stale(f)' <=> Stale(f)
          /\ status[f[1]] = "ready" => status'[f[1]] = "ready"
          /\ status[f[1]] = "failed" => status'[f[1]] = "failed"
          /\ \A n \in 0 .. 3 : Reached(f, n) => Reached(f, n)'
    BY <1>0, <1>1, RowTells
  <2>3. EndInv'
    BY <1>0, <2>1, <2>2 DEF EndInv
  <2>4. ASSUME NEW f \in Executions
        PROVE  /\ reply'[f] # "none" => pc[f] \in Kinds
               /\ reply'[f] = "ready" => status'[f[1]] = "ready"
               /\ reply'[f] = "failed" =>
                    pc[f] # "commit" /\ (Stale(f)' \/ status'[f[1]] = "failed")
               /\ reply'[f] = "refused" => Stale(f)'
               /\ reply'[f] = "open" => pc[f] \in Checkpoints /\ Reached(f, Rank(pc[f]))'
    <3>1. CASE reply'[f] = reply[f]
      BY <1>0, <2>1, <2>2, <3>1 DEF AnswerInv
    <3>2. CASE reply'[f] # reply[f]
      <4>1. f = e /\ pc[e] = kind
        BY <2>1, <3>2
      <4>2. /\ reply'[e] = "ready" => status'[e[1]] = "ready"
            /\ reply'[e] = "failed" => pc[e] # "commit" /\ status'[e[1]] = "failed"
            /\ reply'[e] = "refused" => Stale(e)
            /\ reply'[e] = "open" => pc[e] \in Checkpoints /\ Rank(status'[e[1]]) >= Rank(pc[e])
        BY <1>0, <1>1, <3>2, <4>1, AnswersAreTrue
      <4>3. Rank(status'[e[1]]) >= Rank(pc[e]) => Reached(e, Rank(pc[e]))'
        BY <2>1 DEF Reached
      <4> QED
        BY <2>2, <4>1, <4>2, <4>3
    <3> QED
      BY <3>1, <3>2
  <2>5. AnswerInv'
    BY <2>1, <2>4 DEF AnswerInv
  <2> QED
    BY <2>3, <2>5
<1>2. ASSUME NEW e \in Executions, Step(e)
      PROVE  AnswerInv' /\ EndInv'
  <2>1. PICK to \in Stages : Enter(e, to) /\ StepFrame(e, to)
    BY <1>0, <1>2, StepMoves
  <2>2. /\ UNCHANGED <<status, attempt>>
        /\ pc' = [pc EXCEPT ![e] = to] /\ reply' = [reply EXCEPT ![e] = "none"]
    BY <2>1 DEF Enter, StepFrame, row
  <2>3. \A f \in Executions : /\ Stale(f)' <=> Stale(f)
                              /\ \A n \in 0 .. 3 : Reached(f, n)' <=> Reached(f, n)
    BY <2>2 DEF Stale, Reached, Settled
  <2>4. AnswerInv'
    <3>1. ASSUME NEW f \in Executions
          PROVE  /\ reply'[f] # "none" => pc'[f] \in Kinds
                 /\ reply'[f] = "ready" => status[f[1]] = "ready"
                 /\ reply'[f] = "failed" => pc'[f] # "commit" /\ (Stale(f) \/ status[f[1]] = "failed")
                 /\ reply'[f] = "refused" => Stale(f)
                 /\ reply'[f] = "open" => pc'[f] \in Checkpoints /\ Reached(f, Rank(pc'[f]))
      <4>1. CASE f = e
        BY <1>0, <2>2, <4>1
      <4>2. CASE f # e
        BY <1>0, <2>2, <4>2 DEF AnswerInv
      <4> QED
        BY <4>1, <4>2
    <3>2. \A f \in Executions : Reached(f, Rank(pc'[f])) => Reached(f, Rank(pc[f]))'
      BY <2>2 DEF Stale, Reached, Settled
    <3> QED
      BY <2>2, <2>3, <3>1, <3>2 DEF AnswerInv
  <2>5. EndInv'
    <3>1. ASSUME NEW f \in Executions
          PROVE  /\ pc'[f] = "release" /\ verdict'[f] = "completed" => status[f[1]] = "ready"
                 /\ pc'[f] = "release" /\ verdict'[f] = "refused" => Stale(f)
                 /\ pc'[f] = "completed" => status[f[1]] = "ready"
                 /\ pc'[f] = "stopped" => Stale(f) \/ status[f[1]] = "failed"
                 /\ pc'[f] = "refused" => Stale(f)
                 /\ Reached(f, Need(pc'[f]))
      <4>1. CASE f = e
        BY <1>2, <4>1, StepEnds
      <4>2. CASE f # e
        <5>1. pc'[f] = pc[f] /\ verdict'[f] = verdict[f]
          BY <1>0, <1>2, <2>2, <4>2, StepEnds
        <5> QED
          BY <1>0, <5>1 DEF EndInv
      <4> QED
        BY <4>1, <4>2
    <3>2. \A f \in Executions : Reached(f, Need(pc'[f])) => Reached(f, Need(pc[f]))'
      BY <2>2 DEF Stale, Reached, Settled
    <3> QED
      BY <2>2, <2>3, <3>1, <3>2 DEF EndInv
  <2> QED
    BY <2>4, <2>5
<1>3. ASSUME NEW o \in Operations, NEW i \in Ingests, ClaimReplay(o, i)
      PROVE  AnswerInv' /\ EndInv'
  <2>1. /\ UNCHANGED <<pc, reply, verdict>> /\ status[i] = "failed"
        /\ status' = [status EXCEPT ![i] = "received"]
        /\ attempt' = [attempt EXCEPT ![i] = @ + 1]
    BY <1>3 DEF ClaimReplay, run
  <2>2. \A j \in Ingests : /\ attempt'[j] = (IF j = i THEN attempt[i] + 1 ELSE attempt[j])
                           /\ j # i => status'[j] = status[j]
    BY <1>0, <2>1 DEF TypeInv, RowType
  <2>3. ASSUME NEW f \in Executions
        PROVE  /\ Stale(f)' \/ f[1] # i \/ pc[f] = "none"
               /\ f[1] # i => (Stale(f)' <=> Stale(f))
    BY <1>0, <2>2 DEF Stale, AloneInv
  <2>4. \A f \in Executions, n \in 0 .. 3 :
          f[1] # i /\ Reached(f, n) => Reached(f, n)'
    BY <1>0, <2>2, <2>3 DEF Reached, Settled
  <2>5. \A f \in Executions : Stale(f)' => \A n \in 0 .. 3 : Reached(f, n)'
    BY DEF Reached
  <2>6. Need("none") = 0 /\ "none" \notin Kinds
    BY DEF Need, Kinds, Checkpoints, Failures
  <2>7. \A f \in Executions : Reached(f, 0)'
    BY <1>0 DEF Reached
  <2>8. ASSUME NEW f \in Executions
        PROVE  /\ reply[f] # "none" => pc[f] \in Kinds
               /\ reply[f] = "ready" => status'[f[1]] = "ready"
               /\ reply[f] = "failed" => pc[f] # "commit" /\ (Stale(f)' \/ status'[f[1]] = "failed")
               /\ reply[f] = "refused" => Stale(f)'
               /\ reply[f] = "open" => pc[f] \in Checkpoints /\ Reached(f, Rank(pc[f]))'
    <3>1. CASE f[1] # i
      BY <1>0, <2>1, <2>2, <2>3, <2>4, <3>1 DEF AnswerInv
    <3>2. CASE f[1] = i /\ pc[f] = "none"
      BY <1>0, <2>6, <3>2 DEF AnswerInv
    <3>3. CASE f[1] = i /\ Stale(f)'
      BY <1>0, <2>1, <2>5, <3>3 DEF AnswerInv
    <3> QED
      BY <2>3, <3>1, <3>2, <3>3
  <2>9. ASSUME NEW f \in Executions
        PROVE  /\ pc[f] = "release" /\ verdict[f] = "completed" => status'[f[1]] = "ready"
               /\ pc[f] = "release" /\ verdict[f] = "refused" => Stale(f)'
               /\ pc[f] = "completed" => status'[f[1]] = "ready"
               /\ pc[f] = "stopped" => Stale(f)' \/ status'[f[1]] = "failed"
               /\ pc[f] = "refused" => Stale(f)'
               /\ Reached(f, Need(pc[f]))'
    <3>1. CASE f[1] # i
      BY <1>0, <2>1, <2>2, <2>3, <2>4, <3>1 DEF EndInv
    <3>2. CASE f[1] = i /\ pc[f] = "none"
      BY <2>1, <2>6, <2>7, <3>2
    <3>3. CASE f[1] = i /\ Stale(f)'
      <4>1. Reached(f, Need(pc[f]))'
        BY <2>1, <3>3 DEF Reached
      <4> QED
        BY <1>0, <2>1, <3>3, <4>1 DEF EndInv
    <3> QED
      BY <2>3, <3>1, <3>2, <3>3
  <2> QED
    BY <2>1, <2>8, <2>9 DEF AnswerInv, EndInv
<1>4. ASSUME UNCHANGED row,
             UNCHANGED run \/ \E e \in Executions : StartExecution(e)
      PROVE  AnswerInv' /\ EndInv'
  <2>0. UNCHANGED <<status, attempt>>
    BY <1>4 DEF row
  <2>1. CASE UNCHANGED run
    BY <1>0, <2>0, <2>1 DEF AnswerInv, EndInv, run, Stale, Reached, Settled
  <2>2. CASE \E e \in Executions : pc[e] = "none" /\ Enter(e, "raw_stored") /\ verdict' = verdict
    <3>1. PICK e \in Executions :
            pc[e] = "none" /\ Enter(e, "raw_stored") /\ verdict' = verdict
      BY <2>2
    <3>2. /\ pc' = [pc EXCEPT ![e] = "raw_stored"] /\ reply' = [reply EXCEPT ![e] = "none"]
          /\ Need("raw_stored") = 0
      BY <3>1 DEF Enter, Need
    <3>3. \A f \in Executions : Reached(f, 0)
      BY <1>0 DEF Reached
    <3>4. AnswerInv'
      BY <1>0, <2>0, <3>2 DEF AnswerInv, Stale, Reached, Settled
    <3>5. EndInv'
      BY <1>0, <2>0, <3>1, <3>2, <3>3 DEF EndInv, Stale, Reached, Settled
    <3> QED
      BY <3>4, <3>5
  <2>3. \A e \in Executions : StartExecution(e) =>
          UNCHANGED run \/ (pc[e] = "none" /\ Enter(e, "raw_stored") /\ verdict' = verdict)
    BY DEF StartExecution
  <2> QED
    BY <1>4, <2>1, <2>2, <2>3
<1> QED
  BY <1>0, <1>1, <1>2, <1>3, <1>4, OtherSteps DEF OutcomeInv

\* Initially OutcomeInv holds.
LEMMA InitOutcome == Init => OutcomeInv
<1> SUFFICES ASSUME Init PROVE AnswerInv /\ EndInv
  BY InitReplay DEF OutcomeInv
<1>1. Need("none") = 0
  BY DEF Need
<1>2. \A e \in Executions : e[1] \in Ingests /\ Reached(e, 0)
  BY DEF Executions, Reached, Rank
<1> QED
  BY <1>1, <1>2 DEF Init, AnswerInv, EndInv

\* OutcomeInv is an invariant.
LEMMA OutcomeInvariant == Spec => []OutcomeInv
BY InitOutcome, NextOutcome, PTL DEF Spec

\* Only an execution whose ingest was replayed is refused.
THEOREM RefusedAreStale == Spec => []OnlyStaleIsRefused
<1>1. OutcomeInv => OnlyStaleIsRefused
  BY DEF OutcomeInv, EndInv, OnlyStaleIsRefused
<1> QED
  BY <1>1, OutcomeInvariant, PTL

\* How an execution ends is what its row says: completed with its message,
\* stopped with a failure, unless a replay has taken the ingest over.
THEOREM EndsMatchRows == Spec => []EndMatchesRow
<1>1. ASSUME OutcomeInv PROVE EndMatchesRow
  <2>1. \A i \in Ingests : status[i] = "ready" => messages[i] = 1
    BY <1>1 DEF OutcomeInv, ReplayInv, TypeInv, MessageInv
  <2> QED
    BY <1>1, <2>1 DEF OutcomeInv, EndInv, EndMatchesRow, Executions
<1> QED
  BY <1>1, OutcomeInvariant, PTL

=============================================================================
