--------------------------- MODULE IngestLifecycle ---------------------------
(***************************************************************************)
(* What inbound processing promises: the life of a received mail, without  *)
(* Workflow executions, attempts, checkpoints, retries or fences.  A mail  *)
(* becomes one message or fails; only a failure that is worth another try  *)
(* is reopened, and a message that arrived stays.  InboundProcessing       *)
(* implements it.                                                          *)
(***************************************************************************)
EXTENDS Naturals

CONSTANT Ingests

VARIABLES
  phase,     \* what the mailbox shows of the mail
  delivered  \* how many messages it became

vars == <<phase, delivered>>

Init ==
  /\ phase = [i \in Ingests |-> "absent"]
  /\ delivered = [i \in Ingests |-> 0]

Begin(i) ==
  /\ phase[i] = "absent"
  /\ phase' = [phase EXCEPT ![i] = "open"]
  /\ UNCHANGED delivered

\* A failure is final, or can be tried again.
Fail(i, outcome) ==
  /\ phase[i] \in {"absent", "open"}
  /\ phase' = [phase EXCEPT ![i] = outcome]
  /\ UNCHANGED delivered

Reopen(i) ==
  /\ phase[i] = "retryable"
  /\ phase' = [phase EXCEPT ![i] = "open"]
  /\ UNCHANGED delivered

Deliver(i) ==
  /\ phase[i] \in {"absent", "open"}
  /\ delivered[i] = 0
  /\ phase' = [phase EXCEPT ![i] = "ready"]
  /\ delivered' = [delivered EXCEPT ![i] = 1]

Next ==
  \E i \in Ingests :
    \/ Begin(i) \/ Reopen(i) \/ Deliver(i)
    \/ \E outcome \in {"failed", "retryable"} : Fail(i, outcome)

Spec == Init /\ [][Next]_vars
=============================================================================
