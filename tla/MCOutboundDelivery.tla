------------------------- MODULE MCOutboundDelivery -------------------------
(* Small instances of OutboundDelivery for TLC. *)
EXTENDS OutboundDelivery, TLC

CONSTANTS
  Horizon,   \* from then on only resends and crashes of a sending object
  CalmTime   \* from then on no disturbance at all

RunSymmetry == Permutations(Runs)

-----------------------------------------------------------------------------
(* Liveness needs disturbances to end and the bounded clock to be punctual. *)

\* A message that was not sent, or perhaps not, for which a resend may be asked.
MaybeUnsent == {d \in Deliveries : status[d] \in {"failed", "indeterminate"}}

\* The object is between a claim and its settlement.  A crash here uses up an
\* attempt, so that crashes cannot go on at the same instant for ever.
Sending == \E r \in Runs : claim[r] # NoClaim /\ status[claim[r].id] = "sending"

\* From the horizon on nobody schedules mail, repeats a command or suspends the
\* organization, and D1 and SQLite answer.  Until CalmTime messages may still be
\* resent and the object may crash while it sends; otherwise it leaves memory
\* only when it is at rest and comes back when its alarm is due.
Calm ==
  now >= Horizon =>
    /\ \A d \in Deliveries : status[d] = "absent" /\ status'[d] # "absent" =>
         now < CalmTime /\ MaybeUnsent # {} /\ sendAt'[d] = now
    /\ status' = status /\ unreconciled' => unreconciled
    /\ active => active'
    /\ mode # "down" /\ mode' = "down" =>
         /\ mode = "up"
         /\ ~unreconciled
         /\ \/ \A r \in Runs : pc[r] = "idle"
            \/ now < CalmTime /\ Sending
    /\ mode = "down" /\ mode' = "activating" /\ alarm # NoAlarm /\ ~unreconciled => alarm' # alarm
    /\ \A r \in Runs :
         /\ pc[r] = "acquire" /\ pc'[r] = "reconcile" => ~active
         /\ pc[r] = "recover" => pc'[r] # "release"
         /\ pc[r] = "claim" /\ pc'[r] = "release" => DueRows = {}

\* From the horizon on the clock waits for a due alarm, for started code and for
\* the organization to be resumed, so that MaxTime is far enough away for all
\* that has to happen after the horizon; it stops when no mail is pending.
Punctual ==
  now' > now /\ now >= Horizon =>
    /\ alarm # NoAlarm => now < alarm
    /\ mode # "activating" /\ ~unreconciled
    /\ \A r \in Runs : pc[r] = "idle"
    /\ active
    /\ \E d \in Deliveries : status[d] \in Pending

\* The action constraint of the liveness run: every step is a settling step.
SettlingStep == Calm /\ Punctual

\* A step is fair only as far as the constraint lets it happen.
Settling(A) == A /\ SettlingStep

\* An RPC cut off before it reconciled leaves no alarm behind; its caller, who
\* has no answer, comes back (the fairness of ActivateForRequest).
SettlingSpec ==
  /\ Spec
  /\ WF_vars(Settling(Tick /\ now' > now))
  /\ WF_vars(Settling(\E r \in Runs : FireAlarm(r) \/ ActivateForAlarm(r)))
  /\ \A r \in Runs : WF_vars(Settling(RunStep(r)))
  /\ WF_vars(Settling(ReconcileAfterRpc))
  /\ WF_vars(Settling(unreconciled /\ ActivateForRequest))
  /\ WF_vars(Settling(FinishActivation))
  /\ WF_vars(Settling(ResumeOrganization))

\* Every scheduled message is eventually settled: sent, failed, cancelled or
\* shown as indeterminate.  The alarm is never lost, whatever was interrupted,
\* and a claim whose object crashed does not stay "sending" for ever.
EveryDeliverySettles ==
  \A d \in Deliveries : status[d] \in Pending ~> status[d] \notin Pending
=============================================================================
