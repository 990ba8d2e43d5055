-------------------------- MODULE DeliveryLifecycle --------------------------
(***************************************************************************)
(* What outbound delivery promises its user, without clocks, alarms,       *)
(* fences, crashes or retries: the life of each delivery and how often the *)
(* provider has taken its message.  OutboundDelivery implements it.        *)
(***************************************************************************)
EXTENDS Naturals

CONSTANT Deliveries

VARIABLES
  status,  \* what the delivery tracker shows
  handed   \* how often the provider has taken the message

vars == <<status, handed>>

Init ==
  /\ status = [d \in Deliveries |-> "absent"]
  /\ handed = [d \in Deliveries |-> 0]

Move(d, from, to) ==
  /\ status[d] = from
  /\ status' = [status EXCEPT ![d] = to]
  /\ UNCHANGED handed

Submit(d) == Move(d, "absent", "scheduled")
Cancel(d) == Move(d, "scheduled", "cancelled")
Begin(d)  == Move(d, "scheduled", "sending")

\* A message goes back to the queue, or is given up, only if the provider has
\* never had it; it is shown as accepted only if the provider has it.
Requeue(d) == handed[d] = 0 /\ Move(d, "sending", "scheduled")
GiveUp(d)  == handed[d] = 0 /\ Move(d, "sending", "failed")
Confirm(d) == handed[d] = 1 /\ Move(d, "sending", "accepted")

\* The outcome of some sends becomes unknown for good.
Doubt(doubted) ==
  /\ doubted # {}
  /\ \A d \in doubted : status[d] = "sending"
  /\ status' = [d \in Deliveries |->
                  IF d \in doubted THEN "indeterminate" ELSE status[d]]
  /\ UNCHANGED handed

\* The provider takes a message: once, and never that of a cancelled,
\* waiting or failed delivery.
HandOver(d) ==
  /\ status[d] \in {"sending", "indeterminate"}
  /\ handed[d] = 0
  /\ handed' = [handed EXCEPT ![d] = 1]
  /\ UNCHANGED status

Next ==
  \/ \E d \in Deliveries :
       \/ Submit(d) \/ Cancel(d) \/ Begin(d)
       \/ Requeue(d) \/ GiveUp(d) \/ Confirm(d) \/ HandOver(d)
  \/ \E doubted \in SUBSET Deliveries : Doubt(doubted)

Spec == Init /\ [][Next]_vars
=============================================================================
