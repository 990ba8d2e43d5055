------------------------ MODULE OutboundDeliveryProofs ------------------------
(***************************************************************************)
(* Proofs about OutboundDelivery, for any number of deliveries, alarm runs *)
(* and attempts, any timing constants, and a clock that may step back.     *)
(***************************************************************************)
EXTENDS OutboundDelivery, FiniteSetTheorems, TLAPS

\* The steps of a run that has claimed a delivery and not yet settled it.
Presend == {"load", "fence", "read"}
Working == Presend \cup {"await", "unfence", "settle", "defect"}

\* A queued delivery has an attempt left to make; one that has no row yet has
\* not been written.
BudgetInv ==
  \A d \in Deliveries :
    /\ status[d] \in {"absent", "scheduled"} => attemptCount[d] < MaxAttempts
    /\ status[d] = "absent" => version[d] = 0

\* A run that works on a delivery has a claim.
ClaimInv == \A r \in Runs : pc[r] \in Working => claim[r] \in Claims

TypeInv == TypeOK /\ BudgetInv /\ ClaimInv

-----------------------------------------------------------------------------

\* A working run still owns its row, or stale recovery took the row from it for
\* good: "indeterminate" is never left.
OwnerInv ==
  \A r \in Runs : pc[r] \in Working =>
    Owns(claim[r]) \/ status[claim[r].id] = "indeterminate"

\* So no two runs ever work on the same delivery.
ExclusiveInv ==
  \A r, s \in Runs :
    pc[r] \in Working /\ pc[s] \in Working /\ claim[r].id = claim[s].id => r = s

\* What a working run knows of the provider: nothing is live before it sends;
\* then only its own call is; and a refused call is dead.
SendInv ==
  \A r \in Runs : pc[r] \in Working => \A a \in Attempts : <<claim[r].id, a>> \in LiveCalls =>
    /\ pc[r] \notin Presend
    /\ pc[r] = "await" => a = claim[r].attempt /\ <<claim[r].id, a>> \notin lost
    /\ pc[r] \in {"unfence", "settle"} => outcome[r] \notin {"retry", "failed"}

\* A run that will report acceptance has the provider's word for it.
AcceptInv ==
  \A r \in Runs :
    pc[r] \in {"unfence", "settle"} /\ outcome[r] = "accepted"
      => <<claim[r].id, claim[r].attempt>> \in taken

OneLiveCall ==
  \A d \in Deliveries : \A a, b \in Attempts : <<d, a>> \in LiveCalls /\ <<d, b>> \in LiveCalls => a = b

UnsentInv ==
  \A d \in Deliveries : \A a \in Attempts :
    status[d] \in {"absent", "scheduled", "cancelled", "failed"} => <<d, a>> \notin LiveCalls

SafetyInv ==
  /\ TypeInv
  /\ OwnerInv
  /\ ExclusiveInv
  /\ SendInv
  /\ AcceptInv
  /\ OneLiveCall
  /\ UnsentInv
  /\ AcceptedMeansTaken

\* Fence rows exist only while the organization is active, a run past its fence
\* holds one, and every open call has a run that waits for it, or had one whose
\* fence row survives.
FenceInv ==
  /\ orphaned => active
  /\ \A r \in Runs : fences[r] # {} => active
  /\ \A r \in Runs : pc[r] \in Working \cup {"recover", "claim", "release"} => "claim" \in fences[r]
  /\ mode = "down" => \A r \in Runs : pc[r] = "idle"
  /\ \A call \in open : \/ orphaned
                       \/ \E r \in Runs : /\ pc[r] = "await"
                                        /\ call = <<claim[r].id, claim[r].attempt>>

-----------------------------------------------------------------------------

USE TimingAssumption, NullAssumption, DelayAssumption
USE DEF vars, rows, runVars, provider, Calls, Attempts

\* Every time a row waits for is a natural number.
LEMMA WakeTimesType == ASSUME TypeOK, NEW t \in WakeTimes PROVE t \in Nat
<1>1. CASE \E d \in Deliveries : t = sendAt[d]
  BY <1>1, SMT DEF TypeOK
<1>2. CASE \E d \in Deliveries : t = updatedAt[d] + StaleTimeout
  BY <1>2, SMT DEF TypeOK
<1> QED
  BY <1>1, <1>2, Zenon DEF WakeTimes

\* Reconciling sets a time or no alarm.
LEMMA ReconcileType ==
  ASSUME TypeOK, ReconcileAlarm
  PROVE  alarm' \in Nat \cup {NoAlarm}
<1>1. \A t \in WakeTimes : t \in Nat
  BY WakeTimesType
<1>2. ASSUME NEW next \in Nat PROVE AlarmTarget(next, alarm) \in Nat
  BY <1>2, SMT DEF AlarmTarget, Earlier, TypeOK
<1> QED
  BY <1>1, <1>2 DEF ReconcileAlarm

\* Releasing the inner fence only moves the run on.
LEMMA ReleaseStep ==
  ASSUME NEW r \in Runs, ReleaseDispatchFence(r)
  PROVE  /\ pc[r] = "unfence"
         /\ \E to \in {"settle", "defect"} : pc' = [pc EXCEPT ![r] = to]
         /\ UNCHANGED <<now, rows, alarm, mode, unreconciled, claim, outcome, active, provider>>
  BY Zenon DEF ReleaseDispatchFence, Goto

\* The program starts well typed, with nothing claimed.
LEMMA TypeInit == Init => TypeInv
<1> SUFFICES ASSUME Init PROVE TypeInv
  OBVIOUS
<1>1. TypeOK
  <2>1. ClockRetreats \in BOOLEAN /\ unreconciled \in BOOLEAN /\ orphaned \in BOOLEAN /\ active \in BOOLEAN
    BY Zenon DEF Init
  <2> QED
    BY <2>1, SMT DEF Init, TypeOK, Statuses, Outcomes, Pcs
<1>2. BudgetInv /\ ClaimInv
  BY SMTT(60) DEF Init, BudgetInv, ClaimInv, Working, Presend
<1> QED
  BY <1>1, <1>2 DEF TypeInv

\* Every step keeps the types, the attempt budget and the claims.
LEMMA TypeNext == TypeInv /\ [Next]_vars => TypeInv'
<1> SUFFICES ASSUME TypeInv, [Next]_vars PROVE TypeInv'
  OBVIOUS
<1> USE DEF TypeInv, TypeOK, BudgetInv, ClaimInv, Working, Presend, Goto
<1>1. ASSUME NEW r \in Runs, FireAlarm(r) PROVE TypeInv'
  BY <1>1, SMT DEF FireAlarm, Pcs
<1>2. ASSUME NEW r \in Runs, ActivateForAlarm(r) PROVE TypeInv'
  BY <1>2, SMT DEF ActivateForAlarm, RecoverStaleRows, StaleRows, Statuses,
     Pcs
<1>3. ASSUME NEW r \in Runs, AcquireClaimFence(r) PROVE TypeInv'
  BY <1>3, SMT DEF AcquireClaimFence, Pcs
<1>4. ASSUME NEW r \in Runs, RecoverStaleSending(r) PROVE TypeInv'
  BY <1>4, SMT DEF RecoverStaleSending, RecoverStaleRows, StaleRows,
     Statuses, Pcs
<1>5. ASSUME NEW r \in Runs, ClaimDue(r) PROVE TypeInv'
  <2>1. CASE /\ Goto(r, "claim", "release")
             /\ UNCHANGED <<now, rows, alarm, mode, unreconciled, claim, outcome, fences,
                            orphaned, active, provider>>
    BY <2>1, SMT DEF Pcs
  <2>2. ASSUME NEW d \in DueRows, NEW at \in Nat, Goto(r, "claim", "load"),
               status' = [status EXCEPT ![d] = "sending"],
               attemptCount' = [attemptCount EXCEPT ![d] = @ + 1],
               version' = [version EXCEPT ![d] = @ + 1],
               updatedAt' = [updatedAt EXCEPT ![d] = at],
               claim' = [claim EXCEPT ![r] = [id |-> d, attempt |-> attemptCount[d] + 1,
                                              version |-> version[d] + 1, at |-> at]],
               UNCHANGED <<now, createdAt, sendAt, folder, alarm, mode, unreconciled,
                           outcome, fences, orphaned, active, provider>>
        PROVE  TypeInv'
    <3>1. d \in Deliveries /\ status[d] = "scheduled" /\ attemptCount[d] + 1 \in Attempts
      BY <2>2, SMT DEF DueRows
    <3>2. claim'[r] \in Claims /\ claim' \in [Runs -> Claims \cup {NoClaim}]
      BY <2>2, <3>1, SMT DEF Claims
    <3>3. TypeOK'
      BY <2>2, <3>1, <3>2, SMT DEF Statuses, Pcs
    <3>4. BudgetInv' /\ ClaimInv'
      BY <2>2, <3>1, <3>2, SMT
    <3> QED
      BY <3>3, <3>4
  <2>3. ASSUME NEW d \in DueRows
        PROVE  Later(now, Later(sendAt[d], updatedAt[d])) \in Nat
    BY <2>3, SMT DEF DueRows, Later
  <2> QED
    BY <1>5, <2>1, <2>2, <2>3, Zenon DEF ClaimDue
<1>6. ASSUME NEW r \in Runs, StoreFails(r) PROVE TypeInv'
  BY <1>6, SMT DEF StoreFails, Pcs
<1>7. ASSUME NEW r \in Runs, LoadSnapshot(r) PROVE TypeInv'
  BY <1>7, SMT DEF LoadSnapshot, DispatchFails, Outcomes, Pcs
<1>8. ASSUME NEW r \in Runs, AcquireDispatchFence(r) PROVE TypeInv'
  BY <1>8, SMT DEF AcquireDispatchFence, DispatchFails, Outcomes, Pcs
<1>9. ASSUME NEW r \in Runs, SendMessage(r) PROVE TypeInv'
  BY <1>9, SMT DEF SendMessage, DispatchFails, Outcomes, Claims, Pcs
<1>10. ASSUME NEW r \in Runs, ProviderAnswers(r) PROVE TypeInv'
  BY <1>10, SMT DEF ProviderAnswers, Outcomes, Claims, Pcs
<1>11. ASSUME NEW r \in Runs, ReleaseDispatchFence(r) PROVE TypeInv'
  <2>1. orphaned' \in BOOLEAN
    BY <1>11, Zenon DEF ReleaseDispatchFence
  <2>2. fences' \in [Runs -> SUBSET {"claim", "dispatch"}]
    BY <1>11, SMT DEF ReleaseDispatchFence
  <2>3. pc' \in [Runs -> Pcs] /\ ClaimInv'
    BY <1>11, ReleaseStep, SMT DEF Pcs
  <2>4. BudgetInv'
    BY <1>11, ReleaseStep, SMT
  <2> QED
    BY <1>11, ReleaseStep, <2>1, <2>2, <2>3, <2>4, Zenon
<1>12. ASSUME NEW r \in Runs, SettleAccepted(r) PROVE TypeInv'
  BY <1>12, SMTT(60) DEF SettleAccepted, MoveClaimed, Owns, Claims, Later,
     Statuses, Pcs
<1>13. ASSUME NEW r \in Runs, SettleFinal(r) PROVE TypeInv'
  BY <1>13, SMTT(60) DEF SettleFinal, MoveClaimed, Owns, Claims, Later, Statuses,
     Pcs
<1>14. ASSUME NEW r \in Runs, Retry(r) PROVE TypeInv'
  BY <1>14, SMTT(60) DEF Retry, MoveClaimed, Owns, Claims, Later, Statuses, Pcs
<1>15. ASSUME NEW r \in Runs, SettleFails(r) PROVE TypeInv'
  BY <1>15, SMT DEF SettleFails, Pcs
<1>16. ASSUME NEW r \in Runs, SettleDefect(r) PROVE TypeInv'
  BY <1>16, SMT DEF SettleDefect, MoveClaimed, Owns, Claims, Later,
     Statuses, Pcs
<1>17. ASSUME NEW r \in Runs, ReleaseClaimFence(r) PROVE TypeInv'
  <2>1. orphaned' \in BOOLEAN
    BY <1>17, Zenon DEF ReleaseClaimFence
  <2> QED
    BY <1>17, <2>1, SMT DEF ReleaseClaimFence, Outcomes, Pcs
<1>18. ASSUME NEW r \in Runs, ReconcileAfterRun(r) PROVE TypeInv'
  <2>1. alarm' \in Nat \cup {NoAlarm}
    BY <1>18, ReconcileType DEF ReconcileAfterRun
  <2> QED
    BY <1>18, <2>1, SMT DEF ReconcileAfterRun, Pcs
<1>19. ASSUME NEW d \in Deliveries, ScheduleOutbound(d) PROVE TypeInv'
  BY <1>19, SMT DEF ScheduleOutbound, Commits, NewRow, Statuses
<1>20. ASSUME NEW d \in Deliveries, CancelOutboundDelivery(d) PROVE TypeInv'
  BY <1>20, SMT DEF CancelOutboundDelivery, Commits, Later, Statuses
<1>21. ASSUME NEW d \in Deliveries, MoveMessage(d) PROVE TypeInv'
  BY <1>21, SMT DEF MoveMessage
<1>22. ASSUME NEW source \in Deliveries, NEW d \in Deliveries, ResendOutbound(source, d) PROVE TypeInv'
  BY <1>22, SMT DEF ResendOutbound, Commits, NewRow, Statuses
<1>23. ASSUME AnswerUnchanged PROVE TypeInv'
  BY <1>23, SMT DEF AnswerUnchanged, Commits
<1>24. ASSUME ReconcileAfterRpc PROVE TypeInv'
  <2>1. alarm' \in Nat \cup {NoAlarm}
    BY <1>24, ReconcileType DEF ReconcileAfterRpc
  <2>2. unreconciled' \in BOOLEAN
    BY <1>24, Zenon DEF ReconcileAfterRpc
  <2> QED
    BY <1>24, <2>1, <2>2, SMT DEF ReconcileAfterRpc
<1>25. ASSUME Crash PROVE TypeInv'
  BY <1>25, SMT DEF Crash, Outcomes, Pcs
<1>26. ASSUME ActivateForRequest PROVE TypeInv'
  BY <1>26, SMT DEF ActivateForRequest, RecoverStaleRows, StaleRows,
     Statuses
<1>27. ASSUME FinishActivation PROVE TypeInv'
  <2>1. alarm' \in Nat \cup {NoAlarm}
    BY <1>27, ReconcileType DEF FinishActivation
  <2>2. unreconciled' \in BOOLEAN
    BY <1>27, Zenon DEF FinishActivation
  <2> QED
    BY <1>27, <2>1, <2>2, SMT DEF FinishActivation
<1>28. ASSUME SuspendOrganization PROVE TypeInv'
  <2>1. active' \in BOOLEAN
    BY <1>28, Zenon DEF SuspendOrganization
  <2> QED
    BY <1>28, <2>1, SMT DEF SuspendOrganization
<1>29. ASSUME ResumeOrganization PROVE TypeInv'
  BY <1>29, SMT DEF ResumeOrganization
<1>30. ASSUME Tick PROVE TypeInv'
  BY <1>30, SMT DEF Tick
<1>31. ASSUME NEW call \in Calls, ProviderTakes(call) PROVE TypeInv'
  BY <1>31, SMT DEF ProviderTakes
<1>32. ASSUME UNCHANGED vars PROVE TypeInv'
  BY <1>32, SMT
<1> QED
  BY <1>1, <1>2, <1>3, <1>4, <1>5, <1>6, <1>7, <1>8, <1>9, <1>10, <1>11,
  <1>12, <1>13, <1>14, <1>15, <1>16, <1>17, <1>18, <1>19, <1>20, <1>21, <1>22,
  <1>23, <1>24, <1>25, <1>26, <1>27, <1>28, <1>29, <1>30, <1>31, <1>32 DEF
  Next, Rpc, Environment, RunStep

\* Every variable keeps its type; the attempt count its bound.
THEOREM TypeCorrect == Spec => []TypeOK
<1>1. TypeInv => TypeOK
  BY Zenon DEF TypeInv
<1> QED
  BY TypeInit, TypeNext, <1>1, PTL DEF Spec
-----------------------------------------------------------------------------
(* The provider takes each message at most once. *)

\* Only its owner, or stale recovery, moves a claimed row; nothing moves an
\* indeterminate one.
LEMMA OwnerNext ==
  TypeInv /\ OwnerInv /\ ExclusiveInv /\ [Next]_vars => (OwnerInv /\ ExclusiveInv)'
<1> SUFFICES ASSUME TypeInv, OwnerInv, ExclusiveInv, [Next]_vars
             PROVE  (OwnerInv /\ ExclusiveInv)'
  OBVIOUS
<1> USE DEF TypeInv, TypeOK, ClaimInv, OwnerInv, ExclusiveInv, Owns, Claims, Working,
            Presend, Goto
<1>1. ASSUME NEW r \in Runs, FireAlarm(r) PROVE (OwnerInv /\ ExclusiveInv)'
  BY <1>1, SMT DEF FireAlarm
<1>2. ASSUME NEW r \in Runs, ActivateForAlarm(r) PROVE (OwnerInv /\ ExclusiveInv)'
  BY <1>2, SMT DEF ActivateForAlarm, RecoverStaleRows, StaleRows, Later
<1>3. ASSUME NEW r \in Runs, AcquireClaimFence(r) PROVE (OwnerInv /\ ExclusiveInv)'
  BY <1>3, SMT DEF AcquireClaimFence
<1>4. ASSUME NEW r \in Runs, RecoverStaleSending(r) PROVE (OwnerInv /\ ExclusiveInv)'
  BY <1>4, SMT DEF RecoverStaleSending, RecoverStaleRows, StaleRows, Later
<1>5. ASSUME NEW r \in Runs, ClaimDue(r) PROVE (OwnerInv /\ ExclusiveInv)'
  BY <1>5, SMTT(60) DEF ClaimDue, DueRows, Later
<1>6. ASSUME NEW r \in Runs, StoreFails(r) PROVE (OwnerInv /\ ExclusiveInv)'
  BY <1>6, SMT DEF StoreFails
<1>7. ASSUME NEW r \in Runs, LoadSnapshot(r) PROVE (OwnerInv /\ ExclusiveInv)'
  BY <1>7, SMT DEF LoadSnapshot, DispatchFails
<1>8. ASSUME NEW r \in Runs, AcquireDispatchFence(r) PROVE (OwnerInv /\ ExclusiveInv)'
  BY <1>8, SMT DEF AcquireDispatchFence, DispatchFails
<1>9. ASSUME NEW r \in Runs, SendMessage(r) PROVE (OwnerInv /\ ExclusiveInv)'
  BY <1>9, SMTT(60) DEF SendMessage, DispatchFails
<1>10. ASSUME NEW r \in Runs, ProviderAnswers(r) PROVE (OwnerInv /\ ExclusiveInv)'
  BY <1>10, SMT DEF ProviderAnswers
<1>11. ASSUME NEW r \in Runs, ReleaseDispatchFence(r) PROVE (OwnerInv /\ ExclusiveInv)'
  BY <1>11, ReleaseStep, SMT
<1>12. ASSUME NEW r \in Runs, SettleAccepted(r) PROVE (OwnerInv /\ ExclusiveInv)'
  BY <1>12, SMT DEF SettleAccepted, MoveClaimed, Later
<1>13. ASSUME NEW r \in Runs, SettleFinal(r) PROVE (OwnerInv /\ ExclusiveInv)'
  BY <1>13, SMT DEF SettleFinal, MoveClaimed, Later
<1>14. ASSUME NEW r \in Runs, Retry(r) PROVE (OwnerInv /\ ExclusiveInv)'
  BY <1>14, SMT DEF Retry, MoveClaimed, Later
<1>15. ASSUME NEW r \in Runs, SettleFails(r) PROVE (OwnerInv /\ ExclusiveInv)'
  BY <1>15, SMT DEF SettleFails
<1>16. ASSUME NEW r \in Runs, SettleDefect(r) PROVE (OwnerInv /\ ExclusiveInv)'
  BY <1>16, SMT DEF SettleDefect, MoveClaimed, Later
<1>17. ASSUME NEW r \in Runs, ReleaseClaimFence(r) PROVE (OwnerInv /\ ExclusiveInv)'
  BY <1>17, SMT DEF ReleaseClaimFence
<1>18. ASSUME NEW r \in Runs, ReconcileAfterRun(r) PROVE (OwnerInv /\ ExclusiveInv)'
  BY <1>18, SMT DEF ReconcileAfterRun
<1>19. ASSUME NEW d \in Deliveries, ScheduleOutbound(d) PROVE (OwnerInv /\ ExclusiveInv)'
  BY <1>19, SMT DEF ScheduleOutbound, Commits, NewRow
<1>20. ASSUME NEW d \in Deliveries, CancelOutboundDelivery(d) PROVE (OwnerInv /\ ExclusiveInv)'
  BY <1>20, SMT DEF CancelOutboundDelivery, Commits
<1>21. ASSUME NEW d \in Deliveries, MoveMessage(d) PROVE (OwnerInv /\ ExclusiveInv)'
  BY <1>21, SMT DEF MoveMessage
<1>22. ASSUME NEW source \in Deliveries, NEW d \in Deliveries, ResendOutbound(source, d) PROVE (OwnerInv /\ ExclusiveInv)'
  BY <1>22, SMT DEF ResendOutbound, Commits, NewRow
<1>23. ASSUME AnswerUnchanged PROVE (OwnerInv /\ ExclusiveInv)'
  BY <1>23, SMT DEF AnswerUnchanged, Commits
<1>24. ASSUME ReconcileAfterRpc PROVE (OwnerInv /\ ExclusiveInv)'
  BY <1>24, SMT DEF ReconcileAfterRpc
<1>25. ASSUME Crash PROVE (OwnerInv /\ ExclusiveInv)'
  BY <1>25, SMT DEF Crash
<1>26. ASSUME ActivateForRequest PROVE (OwnerInv /\ ExclusiveInv)'
  BY <1>26, SMT DEF ActivateForRequest, RecoverStaleRows, StaleRows, Later
<1>27. ASSUME FinishActivation PROVE (OwnerInv /\ ExclusiveInv)'
  BY <1>27, SMT DEF FinishActivation
<1>28. ASSUME SuspendOrganization PROVE (OwnerInv /\ ExclusiveInv)'
  BY <1>28, SMT DEF SuspendOrganization
<1>29. ASSUME ResumeOrganization PROVE (OwnerInv /\ ExclusiveInv)'
  BY <1>29, SMT DEF ResumeOrganization
<1>30. ASSUME Tick PROVE (OwnerInv /\ ExclusiveInv)'
  BY <1>30, SMT DEF Tick
<1>31. ASSUME NEW call \in Calls, ProviderTakes(call) PROVE (OwnerInv /\ ExclusiveInv)'
  BY <1>31, SMT DEF ProviderTakes
<1>32. ASSUME UNCHANGED vars PROVE (OwnerInv /\ ExclusiveInv)'
  BY <1>32, SMT
<1> QED
  BY <1>1, <1>2, <1>3, <1>4, <1>5, <1>6, <1>7, <1>8, <1>9, <1>10, <1>11,
  <1>12, <1>13, <1>14, <1>15, <1>16, <1>17, <1>18, <1>19, <1>20, <1>21, <1>22,
  <1>23, <1>24, <1>25, <1>26, <1>27, <1>28, <1>29, <1>30, <1>31, <1>32 DEF
  Next, Rpc, Environment, RunStep

\* Taking a fence only moves the run on.
LEMMA AcquireStep ==
  ASSUME NEW r \in Runs, AcquireClaimFence(r)
  PROVE  /\ pc[r] = "acquire"
         /\ \E to \in {"recover", "reconcile"} : pc' = [pc EXCEPT ![r] = to]
         /\ UNCHANGED <<now, rows, alarm, mode, unreconciled, claim, outcome, active, provider>>
  BY Zenon DEF AcquireClaimFence, Goto

\* How the live calls change when a run sends, and when it is answered.
LEMMA CallsAfterSend ==
  ASSUME NEW i, NEW n, open' = open \cup {<<i, n>>}, lost' = lost, taken' = taken
  PROVE  \A d, a : <<d, a>> \in LiveCalls' => <<d, a>> \in LiveCalls \/ (d = i /\ a = n)
  BY SMT DEF LiveCalls

\* An answered call is live no more; a lost or taken one stays live.
LEMMA CallsAfterAnswer ==
  ASSUME NEW i, NEW n, open' = open \ {<<i, n>>}, taken' = taken
  PROVE  /\ lost' = lost => \A d, a : <<d, a>> \in LiveCalls' => <<d, a>> \in LiveCalls
         /\ lost' = lost /\ <<i, n>> \notin lost \cup taken => <<i, n>> \notin LiveCalls'
         /\ lost' = lost \cup {<<i, n>>} =>
              \A d, a : /\ <<d, a>> \in LiveCalls' => <<d, a>> \in LiveCalls \/ (d = i /\ a = n)
                       /\ d # i => (<<d, a>> \in lost' <=> <<d, a>> \in lost)
  BY SMT DEF LiveCalls

\* No call is made twice: a delivery whose row says it is unsent, or that a run
\* is about to send, has no live call.
LEMMA SendNext ==
  TypeInv /\ OwnerInv /\ ExclusiveInv /\ SendInv /\ OneLiveCall /\ UnsentInv /\ [Next]_vars
    => (SendInv /\ OneLiveCall /\ UnsentInv)'
<1> SUFFICES ASSUME TypeInv, OwnerInv, ExclusiveInv, SendInv, OneLiveCall, UnsentInv,
                    [Next]_vars
             PROVE  (SendInv /\ OneLiveCall /\ UnsentInv)'
  OBVIOUS
<1> USE DEF TypeInv, TypeOK, ClaimInv, OwnerInv, ExclusiveInv, SendInv, OneLiveCall,
            UnsentInv, LiveCalls, Owns, Claims, Working, Presend, Goto
<1>1. ASSUME NEW r \in Runs, FireAlarm(r) PROVE (SendInv /\ OneLiveCall /\ UnsentInv)'
  BY <1>1, SMT DEF FireAlarm
<1>2. ASSUME NEW r \in Runs, ActivateForAlarm(r) PROVE (SendInv /\ OneLiveCall /\ UnsentInv)'
  BY <1>2, SMT DEF ActivateForAlarm, RecoverStaleRows, StaleRows, Later
<1>3. ASSUME NEW r \in Runs, AcquireClaimFence(r) PROVE (SendInv /\ OneLiveCall /\ UnsentInv)'
  <2>1. \A s \in Runs : pc'[s] \in Working => pc'[s] = pc[s]
    <3>1. PICK to \in {"recover", "reconcile"} : pc' = [pc EXCEPT ![r] = to]
      BY <1>3, AcquireStep, Zenon
    <3> QED
      BY <3>1, SMT
  <2>2. \A d, a : <<d, a>> \in LiveCalls' <=> <<d, a>> \in LiveCalls
    BY <1>3, AcquireStep, Zenon
  <2>3. SendInv'
    BY <1>3, AcquireStep, <2>1, <2>2, SMT
  <2> QED
    BY <1>3, AcquireStep, <2>2, <2>3, Zenon
<1>4. ASSUME NEW r \in Runs, RecoverStaleSending(r) PROVE (SendInv /\ OneLiveCall /\ UnsentInv)'
  BY <1>4, SMT DEF RecoverStaleSending, RecoverStaleRows, StaleRows, Later
<1>5. ASSUME NEW r \in Runs, ClaimDue(r) PROVE (SendInv /\ OneLiveCall /\ UnsentInv)'
  BY <1>5, SMTT(60) DEF ClaimDue, DueRows, Later
<1>6. ASSUME NEW r \in Runs, StoreFails(r) PROVE (SendInv /\ OneLiveCall /\ UnsentInv)'
  BY <1>6, SMTT(60) DEF StoreFails
<1>7. ASSUME NEW r \in Runs, LoadSnapshot(r) PROVE (SendInv /\ OneLiveCall /\ UnsentInv)'
  BY <1>7, SMTT(60) DEF LoadSnapshot, DispatchFails
<1>8. ASSUME NEW r \in Runs, AcquireDispatchFence(r) PROVE (SendInv /\ OneLiveCall /\ UnsentInv)'
  BY <1>8, SMTT(60) DEF AcquireDispatchFence, DispatchFails
<1>9. ASSUME NEW r \in Runs, SendMessage(r) PROVE (SendInv /\ OneLiveCall /\ UnsentInv)'
  <2>1. CASE DispatchFails(r, "read") /\ UNCHANGED <<fences, orphaned>>
    BY <2>1, SMT DEF DispatchFails
  <2>2. ASSUME Goto(r, "read", "await"),
               open' = open \cup {<<claim[r].id, claim[r].attempt>>},
               UNCHANGED <<rows, claim, outcome, lost, taken>>
        PROVE  (SendInv /\ OneLiveCall /\ UnsentInv)'
    <3>1. \A d, a : <<d, a>> \in LiveCalls' =>
             <<d, a>> \in LiveCalls \/ (d = claim[r].id /\ a = claim[r].attempt)
      BY <2>2, CallsAfterSend, Zenon
    <3>2. /\ claim[r] \in Claims
          /\ \A a \in Attempts : <<claim[r].id, a>> \notin LiveCalls
          /\ status[claim[r].id] \in {"sending", "indeterminate"}
      BY <2>2, SMT
    <3>3. \A s \in Runs : pc'[s] \in Working /\ s # r =>
             pc'[s] = pc[s] /\ claim[s].id # claim[r].id
      BY <2>2, SMT
    <3>4. pc'[r] = "await" /\ claim' = claim /\ outcome' = outcome /\ status' = status
      BY <2>2, SMT
    <3> HIDE DEF LiveCalls
    <3>5. OneLiveCall' /\ UnsentInv'
      BY <3>1, <3>2, <3>4, SMT
    <3>6. <<claim[r].id, claim[r].attempt>> \notin lost'
      BY <2>2, <3>2, SMT DEF LiveCalls
    <3>7. SendInv'
      <4>1. ASSUME NEW s \in Runs, pc'[s] \in Working, s # r, NEW a \in Attempts,
                   <<claim[s].id, a>> \in LiveCalls'
            PROVE  /\ pc'[s] \notin Presend
                   /\ pc'[s] = "await" => a = claim'[s].attempt /\ <<claim'[s].id, a>> \notin lost'
                   /\ pc'[s] \in {"unfence", "settle"} => outcome'[s] \notin {"retry", "failed"}
        BY <2>2, <3>1, <3>3, <3>4, <4>1, SMT
      <4> QED
        <5>1. ASSUME NEW a \in Attempts, <<claim[r].id, a>> \in LiveCalls' PROVE a = claim[r].attempt
          BY <3>1, <3>2, <5>1, SMT
        <5>2. \A a \in Attempts : <<claim'[r].id, a>> \in LiveCalls' =>
                a = claim'[r].attempt /\ <<claim'[r].id, a>> \notin lost'
          BY <3>4, <3>6, <5>1, Zenon
        <5> QED
          BY <3>4, <4>1, <5>2, SMT
    <3> QED
      BY <3>5, <3>7
  <2> QED
    BY <1>9, <2>1, <2>2, Zenon DEF SendMessage
<1>10. ASSUME NEW r \in Runs, ProviderAnswers(r) PROVE (SendInv /\ OneLiveCall /\ UnsentInv)'
  <2>1. /\ pc[r] = "await" /\ pc' = [pc EXCEPT ![r] = "unfence"]
        /\ claim[r] \in Claims /\ claim' = claim /\ status' = status /\ taken' = taken
        /\ open' = open \ {<<claim[r].id, claim[r].attempt>>}
        /\ \A s \in Runs : s # r => outcome'[s] = outcome[s]
    BY <1>10, SMT DEF ProviderAnswers
  <2>2. \A s \in Runs : pc'[s] \in Working /\ s # r =>
           pc'[s] = pc[s] /\ claim[s].id # claim[r].id
    BY <2>1, SMT
  <2>3. \A a \in Attempts : <<claim[r].id, a>> \in LiveCalls =>
           a = claim[r].attempt /\ <<claim[r].id, a>> \notin lost
    BY <2>1, SMT
  <2>4. status[claim[r].id] \in {"sending", "indeterminate"}
    BY <2>1, SMT
  <2>5. CASE lost' = lost /\ outcome'[r] = "accepted"
    <3>1. \A d, a : <<d, a>> \in LiveCalls' => <<d, a>> \in LiveCalls
      BY <2>1, <2>5, CallsAfterAnswer, Zenon
    <3> HIDE DEF LiveCalls
    <3> QED
      BY <2>1, <2>2, <2>5, <3>1, SMT
  <2>6. CASE /\ lost' = lost /\ <<claim[r].id, claim[r].attempt>> \notin taken
             /\ outcome'[r] \in {"failed", "retry"}
    <3>1. \A d, a : <<d, a>> \in LiveCalls' => <<d, a>> \in LiveCalls
      BY <2>1, <2>6, CallsAfterAnswer, Zenon
    <3> HIDE DEF LiveCalls
    <3>2. \A a \in Attempts : <<claim[r].id, a>> \notin LiveCalls'
      <4>1. <<claim[r].id, claim[r].attempt>> \notin lost => <<claim[r].id, claim[r].attempt>> \notin LiveCalls'
        BY <2>1, <2>6, CallsAfterAnswer, Zenon
      <4>2. ASSUME NEW a \in Attempts, <<claim[r].id, a>> \in LiveCalls' PROVE FALSE
        <5>1. <<claim[r].id, a>> \in LiveCalls
          BY <3>1, <4>2, Zenon
        <5>2. a = claim[r].attempt /\ <<claim[r].id, a>> \notin lost
          BY <2>3, <5>1, Zenon
        <5> QED
          BY <4>1, <4>2, <5>2, Zenon
      <4> QED
        BY <4>2
    <3>3. SendInv'
      <4>1. ASSUME NEW s \in Runs, pc'[s] \in Working, s # r, NEW a \in Attempts,
                   <<claim[s].id, a>> \in LiveCalls'
            PROVE  /\ pc'[s] \notin Presend
                   /\ pc'[s] = "await" => a = claim'[s].attempt /\ <<claim'[s].id, a>> \notin lost'
                   /\ pc'[s] \in {"unfence", "settle"} => outcome'[s] \notin {"retry", "failed"}
        BY <2>1, <2>2, <2>6, <3>1, <4>1, SMT
      <4> QED
        BY <2>1, <3>2, <4>1, SMT
    <3>4. OneLiveCall' /\ UnsentInv'
      BY <2>1, <3>1, SMT
    <3> QED
      BY <3>3, <3>4
  <2>7. CASE /\ lost' = lost \cup {<<claim[r].id, claim[r].attempt>>}
             /\ outcome'[r] = "indeterminate"
    <3>1. \A d, a : <<d, a>> \in LiveCalls' =>
             <<d, a>> \in LiveCalls \/ (d = claim[r].id /\ a = claim[r].attempt)
      BY <2>1, <2>7, CallsAfterAnswer, Zenon
    <3>2. \A d, a : d # claim[r].id => (<<d, a>> \in lost' <=> <<d, a>> \in lost)
      BY <2>1, <2>7, CallsAfterAnswer, Zenon
    <3> HIDE DEF LiveCalls
    <3>3. SendInv'
      <4>1. ASSUME NEW s \in Runs, pc'[s] \in Working, s # r, NEW a \in Attempts,
                   <<claim[s].id, a>> \in LiveCalls'
            PROVE  /\ pc'[s] \notin Presend
                   /\ pc'[s] = "await" => a = claim'[s].attempt /\ <<claim'[s].id, a>> \notin lost'
                   /\ pc'[s] \in {"unfence", "settle"} => outcome'[s] \notin {"retry", "failed"}
        BY <2>1, <2>2, <2>7, <3>1, <3>2, <4>1, SMT
      <4>2. pc'[r] = "unfence"
        BY <2>1, SMT
      <4> QED
        BY <2>1, <2>7, <4>1, <4>2, SMT
    <3>4. OneLiveCall'
      <4>1. ASSUME NEW d \in Deliveries, NEW a \in Attempts, NEW b \in Attempts,
                   <<d, a>> \in LiveCalls', <<d, b>> \in LiveCalls'
            PROVE  a = b
        BY <2>1, <2>3, <3>1, <4>1, SMT
      <4> QED
        BY <4>1
    <3>5. UnsentInv'
      <4>1. ASSUME NEW d \in Deliveries, NEW a \in Attempts, <<d, a>> \in LiveCalls',
                   status[d] \in {"absent", "scheduled", "cancelled", "failed"}
            PROVE  FALSE
        BY <2>4, <3>1, <4>1, SMT
      <4> QED
        BY <2>1, <4>1, Zenon
    <3> QED
      BY <3>3, <3>4, <3>5
  <2> QED
    <3>1. \/ lost' = lost /\ outcome'[r] = "accepted"
          \/ /\ lost' = lost /\ <<claim[r].id, claim[r].attempt>> \notin taken
             /\ outcome'[r] \in {"failed", "retry"}
          \/ /\ lost' = lost \cup {<<claim[r].id, claim[r].attempt>>}
             /\ outcome'[r] = "indeterminate"
      BY <1>10, SMT DEF ProviderAnswers
    <3> QED
      BY <2>5, <2>6, <2>7, <3>1
<1>11. ASSUME NEW r \in Runs, ReleaseDispatchFence(r) PROVE (SendInv /\ OneLiveCall /\ UnsentInv)'
  <2>1. /\ pc[r] = "unfence" /\ \A s \in Runs : s # r => pc'[s] = pc[s]
        /\ pc'[r] \in {"settle", "defect"}
    BY <1>11, ReleaseStep, SMT
  <2>2. \A d, a : <<d, a>> \in LiveCalls' <=> <<d, a>> \in LiveCalls
    BY <1>11, ReleaseStep, Zenon
  <2>3. SendInv'
    BY <1>11, ReleaseStep, <2>1, <2>2, SMT
  <2> QED
    BY <1>11, ReleaseStep, <2>2, <2>3, Zenon
<1>12. ASSUME NEW r \in Runs, SettleAccepted(r) PROVE (SendInv /\ OneLiveCall /\ UnsentInv)'
  BY <1>12, SMTT(60) DEF SettleAccepted, MoveClaimed, Later
<1>13. ASSUME NEW r \in Runs, SettleFinal(r) PROVE (SendInv /\ OneLiveCall /\ UnsentInv)'
  BY <1>13, SMT DEF SettleFinal, MoveClaimed, Later
<1>14. ASSUME NEW r \in Runs, Retry(r) PROVE (SendInv /\ OneLiveCall /\ UnsentInv)'
  BY <1>14, SMT DEF Retry, MoveClaimed, Later
<1>15. ASSUME NEW r \in Runs, SettleFails(r) PROVE (SendInv /\ OneLiveCall /\ UnsentInv)'
  BY <1>15, SMT DEF SettleFails
<1>16. ASSUME NEW r \in Runs, SettleDefect(r) PROVE (SendInv /\ OneLiveCall /\ UnsentInv)'
  BY <1>16, SMT DEF SettleDefect, MoveClaimed, Later
<1>17. ASSUME NEW r \in Runs, ReleaseClaimFence(r) PROVE (SendInv /\ OneLiveCall /\ UnsentInv)'
  BY <1>17, SMT DEF ReleaseClaimFence
<1>18. ASSUME NEW r \in Runs, ReconcileAfterRun(r) PROVE (SendInv /\ OneLiveCall /\ UnsentInv)'
  BY <1>18, SMT DEF ReconcileAfterRun
<1>19. ASSUME NEW d \in Deliveries, ScheduleOutbound(d) PROVE (SendInv /\ OneLiveCall /\ UnsentInv)'
  BY <1>19, SMT DEF ScheduleOutbound, Commits, NewRow
<1>20. ASSUME NEW d \in Deliveries, CancelOutboundDelivery(d) PROVE (SendInv /\ OneLiveCall /\ UnsentInv)'
  BY <1>20, SMT DEF CancelOutboundDelivery, Commits
<1>21. ASSUME NEW d \in Deliveries, MoveMessage(d) PROVE (SendInv /\ OneLiveCall /\ UnsentInv)'
  BY <1>21, SMT DEF MoveMessage
<1>22. ASSUME NEW source \in Deliveries, NEW d \in Deliveries, ResendOutbound(source, d) PROVE (SendInv /\ OneLiveCall /\ UnsentInv)'
  BY <1>22, SMT DEF ResendOutbound, Commits, NewRow
<1>23. ASSUME AnswerUnchanged PROVE (SendInv /\ OneLiveCall /\ UnsentInv)'
  BY <1>23, SMT DEF AnswerUnchanged, Commits
<1>24. ASSUME ReconcileAfterRpc PROVE (SendInv /\ OneLiveCall /\ UnsentInv)'
  BY <1>24, SMT DEF ReconcileAfterRpc
<1>25. ASSUME Crash PROVE (SendInv /\ OneLiveCall /\ UnsentInv)'
  BY <1>25, SMT DEF Crash
<1>26. ASSUME ActivateForRequest PROVE (SendInv /\ OneLiveCall /\ UnsentInv)'
  BY <1>26, SMT DEF ActivateForRequest, RecoverStaleRows, StaleRows, Later
<1>27. ASSUME FinishActivation PROVE (SendInv /\ OneLiveCall /\ UnsentInv)'
  BY <1>27, SMT DEF FinishActivation
<1>28. ASSUME SuspendOrganization PROVE (SendInv /\ OneLiveCall /\ UnsentInv)'
  BY <1>28, SMT DEF SuspendOrganization
<1>29. ASSUME ResumeOrganization PROVE (SendInv /\ OneLiveCall /\ UnsentInv)'
  BY <1>29, SMT DEF ResumeOrganization
<1>30. ASSUME Tick PROVE (SendInv /\ OneLiveCall /\ UnsentInv)'
  BY <1>30, SMT DEF Tick
<1>31. ASSUME NEW call \in Calls, ProviderTakes(call) PROVE (SendInv /\ OneLiveCall /\ UnsentInv)'
  BY <1>31, SMT DEF ProviderTakes
<1>32. ASSUME UNCHANGED vars PROVE (SendInv /\ OneLiveCall /\ UnsentInv)'
  BY <1>32, SMT
<1> HIDE DEF SendInv, OneLiveCall, UnsentInv
<1> QED
  BY <1>1, <1>2, <1>3, <1>4, <1>5, <1>6, <1>7, <1>8, <1>9, <1>10, <1>11,
  <1>12, <1>13, <1>14, <1>15, <1>16, <1>17, <1>18, <1>19, <1>20, <1>21, <1>22,
  <1>23, <1>24, <1>25, <1>26, <1>27, <1>28, <1>29, <1>30, <1>31, <1>32 DEF
  Next, Rpc, Environment, RunStep

\* What a run says of acceptance, and what the row then says, the provider has
\* said; and only a settled row has left for Sent.
LEMMA AcceptNext ==
  TypeInv /\ AcceptInv /\ AcceptedMeansTaken /\ [Next]_vars
    => (AcceptInv /\ AcceptedMeansTaken)'
<1> SUFFICES ASSUME TypeInv, AcceptInv, AcceptedMeansTaken, [Next]_vars
             PROVE  (AcceptInv /\ AcceptedMeansTaken)'
  OBVIOUS
<1> USE DEF TypeInv, TypeOK, ClaimInv, AcceptInv, AcceptedMeansTaken, Owns, Claims, Working,
            Presend, Goto
<1>1. ASSUME NEW r \in Runs, FireAlarm(r) PROVE (AcceptInv /\ AcceptedMeansTaken)'
  BY <1>1, SMT DEF FireAlarm
<1>2. ASSUME NEW r \in Runs, ActivateForAlarm(r) PROVE (AcceptInv /\ AcceptedMeansTaken)'
  BY <1>2, SMT DEF ActivateForAlarm, RecoverStaleRows, StaleRows, Later
<1>3. ASSUME NEW r \in Runs, AcquireClaimFence(r) PROVE (AcceptInv /\ AcceptedMeansTaken)'
  BY <1>3, AcquireStep, SMT
<1>4. ASSUME NEW r \in Runs, RecoverStaleSending(r) PROVE (AcceptInv /\ AcceptedMeansTaken)'
  BY <1>4, SMT DEF RecoverStaleSending, RecoverStaleRows, StaleRows, Later
<1>5. ASSUME NEW r \in Runs, ClaimDue(r) PROVE (AcceptInv /\ AcceptedMeansTaken)'
  BY <1>5, SMT DEF ClaimDue, DueRows, Later
<1>6. ASSUME NEW r \in Runs, StoreFails(r) PROVE (AcceptInv /\ AcceptedMeansTaken)'
  BY <1>6, SMT DEF StoreFails
<1>7. ASSUME NEW r \in Runs, LoadSnapshot(r) PROVE (AcceptInv /\ AcceptedMeansTaken)'
  BY <1>7, SMT DEF LoadSnapshot, DispatchFails
<1>8. ASSUME NEW r \in Runs, AcquireDispatchFence(r) PROVE (AcceptInv /\ AcceptedMeansTaken)'
  BY <1>8, SMT DEF AcquireDispatchFence, DispatchFails
<1>9. ASSUME NEW r \in Runs, SendMessage(r) PROVE (AcceptInv /\ AcceptedMeansTaken)'
  BY <1>9, SMT DEF SendMessage, DispatchFails
<1>10. ASSUME NEW r \in Runs, ProviderAnswers(r) PROVE (AcceptInv /\ AcceptedMeansTaken)'
  BY <1>10, SMTT(60) DEF ProviderAnswers
<1>11. ASSUME NEW r \in Runs, ReleaseDispatchFence(r) PROVE (AcceptInv /\ AcceptedMeansTaken)'
  BY <1>11, ReleaseStep, SMT
<1>12. ASSUME NEW r \in Runs, SettleAccepted(r) PROVE (AcceptInv /\ AcceptedMeansTaken)'
  BY <1>12, SMT DEF SettleAccepted, MoveClaimed, Later
<1>13. ASSUME NEW r \in Runs, SettleFinal(r) PROVE (AcceptInv /\ AcceptedMeansTaken)'
  BY <1>13, SMT DEF SettleFinal, MoveClaimed, Later
<1>14. ASSUME NEW r \in Runs, Retry(r) PROVE (AcceptInv /\ AcceptedMeansTaken)'
  BY <1>14, SMT DEF Retry, MoveClaimed, Later
<1>15. ASSUME NEW r \in Runs, SettleFails(r) PROVE (AcceptInv /\ AcceptedMeansTaken)'
  BY <1>15, SMT DEF SettleFails
<1>16. ASSUME NEW r \in Runs, SettleDefect(r) PROVE (AcceptInv /\ AcceptedMeansTaken)'
  BY <1>16, SMT DEF SettleDefect, MoveClaimed, Later
<1>17. ASSUME NEW r \in Runs, ReleaseClaimFence(r) PROVE (AcceptInv /\ AcceptedMeansTaken)'
  BY <1>17, SMT DEF ReleaseClaimFence
<1>18. ASSUME NEW r \in Runs, ReconcileAfterRun(r) PROVE (AcceptInv /\ AcceptedMeansTaken)'
  BY <1>18, SMT DEF ReconcileAfterRun
<1>19. ASSUME NEW d \in Deliveries, ScheduleOutbound(d) PROVE (AcceptInv /\ AcceptedMeansTaken)'
  BY <1>19, SMT DEF ScheduleOutbound, Commits, NewRow
<1>20. ASSUME NEW d \in Deliveries, CancelOutboundDelivery(d) PROVE (AcceptInv /\ AcceptedMeansTaken)'
  BY <1>20, SMT DEF CancelOutboundDelivery, Commits
<1>21. ASSUME NEW d \in Deliveries, MoveMessage(d) PROVE (AcceptInv /\ AcceptedMeansTaken)'
  BY <1>21, SMT DEF MoveMessage
<1>22. ASSUME NEW source \in Deliveries, NEW d \in Deliveries, ResendOutbound(source, d) PROVE (AcceptInv /\ AcceptedMeansTaken)'
  BY <1>22, SMT DEF ResendOutbound, Commits, NewRow
<1>23. ASSUME AnswerUnchanged PROVE (AcceptInv /\ AcceptedMeansTaken)'
  BY <1>23, SMT DEF AnswerUnchanged, Commits
<1>24. ASSUME ReconcileAfterRpc PROVE (AcceptInv /\ AcceptedMeansTaken)'
  BY <1>24, SMT DEF ReconcileAfterRpc
<1>25. ASSUME Crash PROVE (AcceptInv /\ AcceptedMeansTaken)'
  BY <1>25, SMT DEF Crash
<1>26. ASSUME ActivateForRequest PROVE (AcceptInv /\ AcceptedMeansTaken)'
  BY <1>26, SMT DEF ActivateForRequest, RecoverStaleRows, StaleRows, Later
<1>27. ASSUME FinishActivation PROVE (AcceptInv /\ AcceptedMeansTaken)'
  BY <1>27, SMT DEF FinishActivation
<1>28. ASSUME SuspendOrganization PROVE (AcceptInv /\ AcceptedMeansTaken)'
  BY <1>28, SMT DEF SuspendOrganization
<1>29. ASSUME ResumeOrganization PROVE (AcceptInv /\ AcceptedMeansTaken)'
  BY <1>29, SMT DEF ResumeOrganization
<1>30. ASSUME Tick PROVE (AcceptInv /\ AcceptedMeansTaken)'
  BY <1>30, SMT DEF Tick
<1>31. ASSUME NEW call \in Calls, ProviderTakes(call) PROVE (AcceptInv /\ AcceptedMeansTaken)'
  BY <1>31, SMT DEF ProviderTakes
<1>32. ASSUME UNCHANGED vars PROVE (AcceptInv /\ AcceptedMeansTaken)'
  BY <1>32, SMT
<1> HIDE DEF AcceptInv, AcceptedMeansTaken
<1> QED
  BY <1>1, <1>2, <1>3, <1>4, <1>5, <1>6, <1>7, <1>8, <1>9, <1>10, <1>11,
  <1>12, <1>13, <1>14, <1>15, <1>16, <1>17, <1>18, <1>19, <1>20, <1>21, <1>22,
  <1>23, <1>24, <1>25, <1>26, <1>27, <1>28, <1>29, <1>30, <1>31, <1>32 DEF
  Next, Rpc, Environment, RunStep

\* The program starts with no call made and no row settled.
LEMMA SafetyInit == Init => SafetyInv
<1> SUFFICES ASSUME Init PROVE SafetyInv
  OBVIOUS
<1>1. TypeInv
  BY TypeInit
<1>2. OwnerInv /\ ExclusiveInv /\ SendInv /\ AcceptInv
  BY SMT DEF Init, OwnerInv, ExclusiveInv, SendInv, AcceptInv, Working, Presend
<1>3. OneLiveCall /\ UnsentInv /\ AcceptedMeansTaken
  BY SMT DEF Init, OneLiveCall, UnsentInv, LiveCalls, AcceptedMeansTaken
<1> QED
  BY <1>1, <1>2, <1>3 DEF SafetyInv

\* Every step keeps the owner, send and acceptance invariants together.
LEMMA SafetyNext == SafetyInv /\ [Next]_vars => SafetyInv'
  BY TypeNext, OwnerNext, SendNext, AcceptNext DEF SafetyInv

\* Claims, live provider calls and settled rows agree in every reachable state.
THEOREM SafetyCorrect == Spec => []SafetyInv
  BY SafetyInit, SafetyNext, PTL DEF Spec

\* The provider takes the message of a delivery at most once.
THEOREM AtMostOnce == Spec => []TakenAtMostOnce
<1>1. SafetyInv => TakenAtMostOnce
  BY DEF SafetyInv, OneLiveCall, TakenAtMostOnce, LiveCalls
<1> QED
  BY <1>1, SafetyCorrect, PTL

\* A row that says its message was not sent is right, and stays right.
THEOREM UnsentIsUnsent == Spec => []UnsentMeansUnsent
<1>1. SafetyInv => UnsentMeansUnsent
  BY DEF SafetyInv, UnsentInv, UnsentMeansUnsent
<1> QED
  BY <1>1, SafetyCorrect, PTL

\* A row that says its message was accepted is right.
THEOREM AcceptedIsTaken == Spec => []AcceptedMeansTaken
<1>1. SafetyInv => AcceptedMeansTaken
  BY DEF SafetyInv
<1> QED
  BY <1>1, SafetyCorrect, PTL

\* One step of a row, as TransitionsAreVersioned and SuspensionFreezesBudget
\* have it.
VersionStep(d) ==
  status'[d] # status[d] => /\ <<status[d], status'[d]>> \in AllowedTransitions
                            /\ version'[d] = version[d] + 1

BudgetStep(d) ==
  attemptCount'[d] # attemptCount[d] =>
    /\ active
    /\ attemptCount'[d] = attemptCount[d] + 1
    /\ status[d] = "scheduled"
    /\ now >= sendAt[d]

\* Every step moves a row along the transition table and takes it to a new version.
LEMMA RowStep ==
  ASSUME TypeInv, FenceInv, [Next]_vars, NEW e \in Deliveries
  PROVE  VersionStep(e) /\ BudgetStep(e)
<1> USE DEF TypeInv, TypeOK, BudgetInv, ClaimInv, FenceInv, Owns, Claims, Working, Presend,
            Goto, VersionStep, BudgetStep, AllowedTransitions
<1>1. ASSUME NEW r \in Runs, FireAlarm(r) PROVE VersionStep(e) /\ BudgetStep(e)
  BY <1>1, SMT DEF FireAlarm
<1>2. ASSUME NEW r \in Runs, ActivateForAlarm(r) PROVE VersionStep(e) /\ BudgetStep(e)
  BY <1>2, SMT DEF ActivateForAlarm, RecoverStaleRows, StaleRows, Later
<1>3. ASSUME NEW r \in Runs, AcquireClaimFence(r) PROVE VersionStep(e) /\ BudgetStep(e)
  BY <1>3, AcquireStep, SMT
<1>4. ASSUME NEW r \in Runs, RecoverStaleSending(r) PROVE VersionStep(e) /\ BudgetStep(e)
  BY <1>4, SMT DEF RecoverStaleSending, RecoverStaleRows, StaleRows, Later
<1>5. ASSUME NEW r \in Runs, ClaimDue(r) PROVE VersionStep(e) /\ BudgetStep(e)
  BY <1>5, SMT DEF ClaimDue, DueRows, Later
<1>6. ASSUME NEW r \in Runs, StoreFails(r) PROVE VersionStep(e) /\ BudgetStep(e)
  BY <1>6, SMT DEF StoreFails
<1>7. ASSUME NEW r \in Runs, LoadSnapshot(r) PROVE VersionStep(e) /\ BudgetStep(e)
  BY <1>7, SMT DEF LoadSnapshot, DispatchFails
<1>8. ASSUME NEW r \in Runs, AcquireDispatchFence(r) PROVE VersionStep(e) /\ BudgetStep(e)
  BY <1>8, SMT DEF AcquireDispatchFence, DispatchFails
<1>9. ASSUME NEW r \in Runs, SendMessage(r) PROVE VersionStep(e) /\ BudgetStep(e)
  BY <1>9, SMT DEF SendMessage, DispatchFails
<1>10. ASSUME NEW r \in Runs, ProviderAnswers(r) PROVE VersionStep(e) /\ BudgetStep(e)
  BY <1>10, SMT DEF ProviderAnswers
<1>11. ASSUME NEW r \in Runs, ReleaseDispatchFence(r) PROVE VersionStep(e) /\ BudgetStep(e)
  BY <1>11, ReleaseStep, SMT
<1>12. ASSUME NEW r \in Runs, SettleAccepted(r) PROVE VersionStep(e) /\ BudgetStep(e)
  BY <1>12, SMT DEF SettleAccepted, MoveClaimed, Later
<1>13. ASSUME NEW r \in Runs, SettleFinal(r) PROVE VersionStep(e) /\ BudgetStep(e)
  BY <1>13, SMT DEF SettleFinal, MoveClaimed, Later
<1>14. ASSUME NEW r \in Runs, Retry(r) PROVE VersionStep(e) /\ BudgetStep(e)
  BY <1>14, SMT DEF Retry, MoveClaimed, Later
<1>15. ASSUME NEW r \in Runs, SettleFails(r) PROVE VersionStep(e) /\ BudgetStep(e)
  BY <1>15, SMT DEF SettleFails
<1>16. ASSUME NEW r \in Runs, SettleDefect(r) PROVE VersionStep(e) /\ BudgetStep(e)
  BY <1>16, SMT DEF SettleDefect, MoveClaimed, Later
<1>17. ASSUME NEW r \in Runs, ReleaseClaimFence(r) PROVE VersionStep(e) /\ BudgetStep(e)
  BY <1>17, SMT DEF ReleaseClaimFence
<1>18. ASSUME NEW r \in Runs, ReconcileAfterRun(r) PROVE VersionStep(e) /\ BudgetStep(e)
  BY <1>18, SMT DEF ReconcileAfterRun
<1>19. ASSUME NEW d \in Deliveries, ScheduleOutbound(d) PROVE VersionStep(e) /\ BudgetStep(e)
  BY <1>19, SMT DEF ScheduleOutbound, Commits, NewRow
<1>20. ASSUME NEW d \in Deliveries, CancelOutboundDelivery(d) PROVE VersionStep(e) /\ BudgetStep(e)
  BY <1>20, SMT DEF CancelOutboundDelivery, Commits
<1>21. ASSUME NEW d \in Deliveries, MoveMessage(d) PROVE VersionStep(e) /\ BudgetStep(e)
  BY <1>21, SMT DEF MoveMessage
<1>22. ASSUME NEW source \in Deliveries, NEW d \in Deliveries, ResendOutbound(source, d) PROVE VersionStep(e) /\ BudgetStep(e)
  BY <1>22, SMT DEF ResendOutbound, Commits, NewRow
<1>23. ASSUME AnswerUnchanged PROVE VersionStep(e) /\ BudgetStep(e)
  BY <1>23, SMT DEF AnswerUnchanged, Commits
<1>24. ASSUME ReconcileAfterRpc PROVE VersionStep(e) /\ BudgetStep(e)
  BY <1>24, SMT DEF ReconcileAfterRpc
<1>25. ASSUME Crash PROVE VersionStep(e) /\ BudgetStep(e)
  BY <1>25, SMT DEF Crash
<1>26. ASSUME ActivateForRequest PROVE VersionStep(e) /\ BudgetStep(e)
  BY <1>26, SMT DEF ActivateForRequest, RecoverStaleRows, StaleRows, Later
<1>27. ASSUME FinishActivation PROVE VersionStep(e) /\ BudgetStep(e)
  BY <1>27, SMT DEF FinishActivation
<1>28. ASSUME SuspendOrganization PROVE VersionStep(e) /\ BudgetStep(e)
  BY <1>28, SMT DEF SuspendOrganization
<1>29. ASSUME ResumeOrganization PROVE VersionStep(e) /\ BudgetStep(e)
  BY <1>29, SMT DEF ResumeOrganization
<1>30. ASSUME Tick PROVE VersionStep(e) /\ BudgetStep(e)
  BY <1>30, SMT DEF Tick
<1>31. ASSUME NEW call \in Calls, ProviderTakes(call) PROVE VersionStep(e) /\ BudgetStep(e)
  BY <1>31, SMT DEF ProviderTakes
<1>32. ASSUME UNCHANGED vars PROVE VersionStep(e) /\ BudgetStep(e)
  BY <1>32, SMT
<1> HIDE DEF VersionStep, BudgetStep
<1> QED
  BY <1>1, <1>2, <1>3, <1>4, <1>5, <1>6, <1>7, <1>8, <1>9, <1>10, <1>11,
  <1>12, <1>13, <1>14, <1>15, <1>16, <1>17, <1>18, <1>19, <1>20, <1>21, <1>22,
  <1>23, <1>24, <1>25, <1>26, <1>27, <1>28, <1>29, <1>30, <1>31, <1>32 DEF
  Next, Rpc, Environment, RunStep

-----------------------------------------------------------------------------
(* The operation fence. *)

\* The program starts with no fence held.
LEMMA FenceInit == Init => FenceInv
  BY SMT DEF Init, FenceInv, Working, Presend

\* Every step keeps the rule that whoever talks to the provider holds the fence row.
LEMMA FenceNext == TypeInv /\ FenceInv /\ [Next]_vars => FenceInv'
<1> SUFFICES ASSUME TypeInv, FenceInv, [Next]_vars PROVE FenceInv'
  OBVIOUS
<1> USE DEF TypeInv, TypeOK, ClaimInv, FenceInv, Claims, Working, Presend, Goto
<1>1. ASSUME NEW r \in Runs, FireAlarm(r) PROVE FenceInv'
  BY <1>1, SMT DEF FireAlarm
<1>2. ASSUME NEW r \in Runs, ActivateForAlarm(r) PROVE FenceInv'
  BY <1>2, SMT DEF ActivateForAlarm, RecoverStaleRows, StaleRows, Later
<1>3. ASSUME NEW r \in Runs, AcquireClaimFence(r) PROVE FenceInv'
  BY <1>3, SMT DEF AcquireClaimFence
<1>4. ASSUME NEW r \in Runs, RecoverStaleSending(r) PROVE FenceInv'
  BY <1>4, SMT DEF RecoverStaleSending, RecoverStaleRows, StaleRows, Later
<1>5. ASSUME NEW r \in Runs, ClaimDue(r) PROVE FenceInv'
  BY <1>5, SMT DEF ClaimDue, DueRows, Later
<1>6. ASSUME NEW r \in Runs, StoreFails(r) PROVE FenceInv'
  BY <1>6, SMT DEF StoreFails
<1>7. ASSUME NEW r \in Runs, LoadSnapshot(r) PROVE FenceInv'
  BY <1>7, SMT DEF LoadSnapshot, DispatchFails
<1>8. ASSUME NEW r \in Runs, AcquireDispatchFence(r) PROVE FenceInv'
  BY <1>8, SMT DEF AcquireDispatchFence, DispatchFails
<1>9. ASSUME NEW r \in Runs, SendMessage(r) PROVE FenceInv'
  BY <1>9, SMT DEF SendMessage, DispatchFails
<1>10. ASSUME NEW r \in Runs, ProviderAnswers(r) PROVE FenceInv'
  BY <1>10, SMT DEF ProviderAnswers
<1>11. ASSUME NEW r \in Runs, ReleaseDispatchFence(r) PROVE FenceInv'
  <2>1. orphaned' = orphaned \/ orphaned' = TRUE
    BY <1>11, Zenon DEF ReleaseDispatchFence
  <2>2. /\ pc[r] = "unfence" /\ fences[r] # {} /\ active' = active /\ mode' = mode
        /\ \A s \in Runs : s # r => pc'[s] = pc[s] /\ fences'[s] = fences[s]
        /\ pc'[r] \in {"settle", "defect"} /\ "claim" \in fences'[r]
        /\ open' = open /\ claim' = claim
    <3>1. PICK to \in {"settle", "defect"} : pc' = [pc EXCEPT ![r] = to]
      BY <1>11, ReleaseStep, Zenon
    <3>2. fences' = [fences EXCEPT ![r] = @ \ {"dispatch"}]
      BY <1>11, Zenon DEF ReleaseDispatchFence
    <3>3. pc[r] = "unfence" /\ active' = active /\ mode' = mode /\ open' = open /\ claim' = claim
      BY <1>11, ReleaseStep, Zenon
    <3> QED
      BY <3>1, <3>2, <3>3, SMT
  <2>3. ASSUME NEW call \in open', ~orphaned'
        PROVE  \E s \in Runs : pc'[s] = "await" /\ call = <<claim'[s].id, claim'[s].attempt>>
    <3>1. PICK s \in Runs : pc[s] = "await" /\ call = <<claim[s].id, claim[s].attempt>>
      BY <2>1, <2>2, <2>3, Zenon
    <3>2. s # r
      BY <2>2, <3>1
    <3> QED
      BY <2>2, <3>1, <3>2, Zenon
  <2>4. /\ orphaned' => active'
        /\ \A s \in Runs : fences'[s] # {} => active'
    BY <2>1, <2>2, Zenon
  <2>5. \A s \in Runs : pc'[s] \in Working \cup {"recover", "claim", "release"} => "claim" \in fences'[s]
    BY <2>2, Zenon
  <2>6. mode' # "down"
    BY <1>11, <2>2, Zenon DEF ReleaseDispatchFence
  <2> QED
    BY <2>3, <2>4, <2>5, <2>6, Zenon
<1>12. ASSUME NEW r \in Runs, SettleAccepted(r) PROVE FenceInv'
  BY <1>12, SMT DEF SettleAccepted, MoveClaimed, Later
<1>13. ASSUME NEW r \in Runs, SettleFinal(r) PROVE FenceInv'
  BY <1>13, SMT DEF SettleFinal, MoveClaimed, Later
<1>14. ASSUME NEW r \in Runs, Retry(r) PROVE FenceInv'
  BY <1>14, SMT DEF Retry, MoveClaimed, Later
<1>15. ASSUME NEW r \in Runs, SettleFails(r) PROVE FenceInv'
  BY <1>15, SMT DEF SettleFails
<1>16. ASSUME NEW r \in Runs, SettleDefect(r) PROVE FenceInv'
  BY <1>16, SMT DEF SettleDefect, MoveClaimed, Later
<1>17. ASSUME NEW r \in Runs, ReleaseClaimFence(r) PROVE FenceInv'
  <2>1. orphaned' = orphaned \/ orphaned' = TRUE
    BY <1>17, Zenon DEF ReleaseClaimFence
  <2>2. active
    BY <1>17, SMT DEF ReleaseClaimFence
  <2> QED
    BY <1>17, <2>1, <2>2, SMT DEF ReleaseClaimFence
<1>18. ASSUME NEW r \in Runs, ReconcileAfterRun(r) PROVE FenceInv'
  BY <1>18, SMT DEF ReconcileAfterRun
<1>19. ASSUME NEW d \in Deliveries, ScheduleOutbound(d) PROVE FenceInv'
  BY <1>19, SMT DEF ScheduleOutbound, Commits, NewRow
<1>20. ASSUME NEW d \in Deliveries, CancelOutboundDelivery(d) PROVE FenceInv'
  BY <1>20, SMT DEF CancelOutboundDelivery, Commits
<1>21. ASSUME NEW d \in Deliveries, MoveMessage(d) PROVE FenceInv'
  BY <1>21, SMT DEF MoveMessage
<1>22. ASSUME NEW source \in Deliveries, NEW d \in Deliveries, ResendOutbound(source, d) PROVE FenceInv'
  BY <1>22, SMT DEF ResendOutbound, Commits, NewRow
<1>23. ASSUME AnswerUnchanged PROVE FenceInv'
  BY <1>23, SMT DEF AnswerUnchanged, Commits
<1>24. ASSUME ReconcileAfterRpc PROVE FenceInv'
  BY <1>24, SMT DEF ReconcileAfterRpc
<1>25. ASSUME Crash PROVE FenceInv'
  BY <1>25, SMT DEF Crash
<1>26. ASSUME ActivateForRequest PROVE FenceInv'
  BY <1>26, SMT DEF ActivateForRequest, RecoverStaleRows, StaleRows, Later
<1>27. ASSUME FinishActivation PROVE FenceInv'
  BY <1>27, SMT DEF FinishActivation
<1>28. ASSUME SuspendOrganization PROVE FenceInv'
  BY <1>28, SMT DEF SuspendOrganization, NoFenceRows
<1>29. ASSUME ResumeOrganization PROVE FenceInv'
  BY <1>29, SMT DEF ResumeOrganization
<1>30. ASSUME Tick PROVE FenceInv'
  BY <1>30, SMT DEF Tick
<1>31. ASSUME NEW call \in Calls, ProviderTakes(call) PROVE FenceInv'
  BY <1>31, SMT DEF ProviderTakes
<1>32. ASSUME UNCHANGED vars PROVE FenceInv'
  BY <1>32, SMT
<1> HIDE DEF FenceInv
<1> QED
  BY <1>1, <1>2, <1>3, <1>4, <1>5, <1>6, <1>7, <1>8, <1>9, <1>10, <1>11,
  <1>12, <1>13, <1>14, <1>15, <1>16, <1>17, <1>18, <1>19, <1>20, <1>21, <1>22,
  <1>23, <1>24, <1>25, <1>26, <1>27, <1>28, <1>29, <1>30, <1>31, <1>32 DEF
  Next, Rpc, Environment, RunStep

\* A run between taking its fence and giving it back is counted among the fence rows.
THEOREM FenceCorrect == Spec => [](TypeInv /\ FenceInv)
  BY TypeInit, TypeNext, FenceInit, FenceNext, PTL DEF Spec

\* While the organization is suspended no provider call is open.
THEOREM SuspensionIsQuiet == Spec => []SuspendedIsQuiet
<1>1. TypeInv /\ FenceInv => SuspendedIsQuiet
  BY SMT DEF TypeInv, TypeOK, FenceInv, SuspendedIsQuiet, Working, Presend
<1> QED
  BY <1>1, FenceCorrect, PTL

\* Rows move along the transition table, and each move takes a new version.
THEOREM VersionedTransitions == Spec => TransitionsAreVersioned
<1>1. TypeInv /\ FenceInv /\ [Next]_vars =>
        [\A d \in Deliveries :
           status'[d] # status[d] => /\ <<status[d], status'[d]>> \in AllowedTransitions
                                     /\ version'[d] = version[d] + 1]_vars
  BY RowStep DEF VersionStep
<1> QED
  BY <1>1, FenceCorrect, PTL DEF Spec, TransitionsAreVersioned

\* Only a claim counts an attempt, only while the organization is active.
THEOREM FrozenBudget == Spec => SuspensionFreezesBudget
<1>1. TypeInv /\ FenceInv /\ [Next]_vars =>
        [\A d \in Deliveries :
           attemptCount'[d] # attemptCount[d] =>
             /\ active
             /\ attemptCount'[d] = attemptCount[d] + 1
             /\ status[d] = "scheduled"
             /\ now >= sendAt[d]]_vars
  BY RowStep DEF BudgetStep
<1> QED
  BY <1>1, FenceCorrect, PTL DEF Spec, SuspensionFreezesBudget

-----------------------------------------------------------------------------
(* The alarm. *)

\* Reconciling leaves an alarm whenever some row waits for a time.
LEMMA ReconcileArms ==
  ASSUME TypeOK, ReconcileAlarm, UNCHANGED rows
  PROVE  (\E d \in Deliveries : status'[d] \in Pending) => alarm' # NoAlarm
<1>1. ASSUME NEW next \in WakeTimes PROVE AlarmTarget(next, alarm) # NoAlarm
  <2>1. next \in Int
    BY <1>1, WakeTimesType
  <2> QED
    BY <2>1, SMT DEF AlarmTarget, Earlier, TypeOK
<1>2. ASSUME NEW d \in Deliveries, status[d] \in Pending PROVE WakeTimes # {}
  <2>1. sendAt[d] \in WakeTimes \/ updatedAt[d] + StaleTimeout \in WakeTimes
    BY <1>2, Zenon DEF WakeTimes, Pending
  <2> QED
    BY <2>1
<1>3. status' = status
  OBVIOUS
<1> QED
  BY <1>1, <1>2, <1>3, Zenon DEF ReconcileAlarm

\* A step that leaves rows, alarm and runs alone keeps pending work armed.
LEMMA SameWork ==
  ASSUME PendingWorkIsArmed, UNCHANGED <<rows, alarm, pc, unreconciled>>
  PROVE  PendingWorkIsArmed'
  BY SMT DEF PendingWorkIsArmed

\* Every step keeps pending work armed, or in the hands of someone who will arm it.
LEMMA ArmedNext == TypeInv /\ PendingWorkIsArmed /\ [Next]_vars => PendingWorkIsArmed'
<1> SUFFICES ASSUME TypeInv, PendingWorkIsArmed, [Next]_vars PROVE PendingWorkIsArmed'
  OBVIOUS
<1> USE DEF TypeInv, TypeOK, PendingWorkIsArmed, Goto
<1>1. ASSUME NEW r \in Runs, FireAlarm(r) PROVE PendingWorkIsArmed'
  BY <1>1, SMT DEF FireAlarm
<1>2. ASSUME NEW r \in Runs, ActivateForAlarm(r) PROVE PendingWorkIsArmed'
  BY <1>2, SMT DEF ActivateForAlarm
<1>3. ASSUME NEW r \in Runs, AcquireClaimFence(r) PROVE PendingWorkIsArmed'
  BY <1>3, AcquireStep, SMT
<1>4. ASSUME NEW r \in Runs, RecoverStaleSending(r) PROVE PendingWorkIsArmed'
  BY <1>4, SMT DEF RecoverStaleSending
<1>5. ASSUME NEW r \in Runs, ClaimDue(r) PROVE PendingWorkIsArmed'
  BY <1>5, SMT DEF ClaimDue
<1>6. ASSUME NEW r \in Runs, StoreFails(r) PROVE PendingWorkIsArmed'
  BY <1>6, SMT DEF StoreFails
<1>7. ASSUME NEW r \in Runs, LoadSnapshot(r) PROVE PendingWorkIsArmed'
  BY <1>7, SMT DEF LoadSnapshot, DispatchFails
<1>8. ASSUME NEW r \in Runs, AcquireDispatchFence(r) PROVE PendingWorkIsArmed'
  BY <1>8, SMT DEF AcquireDispatchFence, DispatchFails
<1>9. ASSUME NEW r \in Runs, SendMessage(r) PROVE PendingWorkIsArmed'
  BY <1>9, SMT DEF SendMessage, DispatchFails
<1>10. ASSUME NEW r \in Runs, ProviderAnswers(r) PROVE PendingWorkIsArmed'
  BY <1>10, SMT DEF ProviderAnswers
<1>11. ASSUME NEW r \in Runs, ReleaseDispatchFence(r) PROVE PendingWorkIsArmed'
  BY <1>11, ReleaseStep, SMT
<1>12. ASSUME NEW r \in Runs, SettleAccepted(r) PROVE PendingWorkIsArmed'
  BY <1>12, SMT DEF SettleAccepted
<1>13. ASSUME NEW r \in Runs, SettleFinal(r) PROVE PendingWorkIsArmed'
  BY <1>13, SMT DEF SettleFinal
<1>14. ASSUME NEW r \in Runs, Retry(r) PROVE PendingWorkIsArmed'
  BY <1>14, SMT DEF Retry
<1>15. ASSUME NEW r \in Runs, SettleFails(r) PROVE PendingWorkIsArmed'
  BY <1>15, SMT DEF SettleFails
<1>16. ASSUME NEW r \in Runs, SettleDefect(r) PROVE PendingWorkIsArmed'
  BY <1>16, SMT DEF SettleDefect
<1>17. ASSUME NEW r \in Runs, ReleaseClaimFence(r) PROVE PendingWorkIsArmed'
  BY <1>17, SMT DEF ReleaseClaimFence
<1>18. ASSUME NEW r \in Runs, ReconcileAfterRun(r) PROVE PendingWorkIsArmed'
  BY <1>18, ReconcileArms DEF ReconcileAfterRun
<1>19. ASSUME NEW d \in Deliveries, ScheduleOutbound(d) PROVE PendingWorkIsArmed'
  BY <1>19, SMT DEF ScheduleOutbound, Commits
<1>20. ASSUME NEW d \in Deliveries, CancelOutboundDelivery(d) PROVE PendingWorkIsArmed'
  BY <1>20, SMT DEF CancelOutboundDelivery, Commits
<1>21. ASSUME NEW d \in Deliveries, MoveMessage(d) PROVE PendingWorkIsArmed'
  BY <1>21, SMT DEF MoveMessage, WakeTimes
<1>22. ASSUME NEW source \in Deliveries, NEW d \in Deliveries, ResendOutbound(source, d) PROVE PendingWorkIsArmed'
  BY <1>22, SMT DEF ResendOutbound, Commits
<1>23. ASSUME AnswerUnchanged PROVE PendingWorkIsArmed'
  BY <1>23, SMT DEF AnswerUnchanged, Commits
<1>24. ASSUME ReconcileAfterRpc PROVE PendingWorkIsArmed'
  BY <1>24, ReconcileArms DEF ReconcileAfterRpc
<1>25. ASSUME Crash PROVE PendingWorkIsArmed'
  BY <1>25, SMT DEF Crash
<1>26. ASSUME ActivateForRequest PROVE PendingWorkIsArmed'
  BY <1>26, SMT DEF ActivateForRequest, WakeTimes, RecoverStaleRows, StaleRows
<1>27. ASSUME FinishActivation PROVE PendingWorkIsArmed'
  BY <1>27, ReconcileArms DEF FinishActivation
<1>28. ASSUME SuspendOrganization PROVE PendingWorkIsArmed'
  <2>1. UNCHANGED <<rows, alarm, pc, unreconciled>>
    BY <1>28, Zenon DEF SuspendOrganization
  <2> QED
    BY <2>1, SameWork
<1>29. ASSUME ResumeOrganization PROVE PendingWorkIsArmed'
  <2>1. UNCHANGED <<rows, alarm, pc, unreconciled>>
    BY <1>29, Zenon DEF ResumeOrganization
  <2> QED
    BY <2>1, SameWork
<1>30. ASSUME Tick PROVE PendingWorkIsArmed'
  <2>1. UNCHANGED <<rows, alarm, pc, unreconciled>>
    BY <1>30, Zenon DEF Tick
  <2> QED
    BY <2>1, SameWork
<1>31. ASSUME NEW call \in Calls, ProviderTakes(call) PROVE PendingWorkIsArmed'
  <2>1. UNCHANGED <<rows, alarm, pc, unreconciled>>
    BY <1>31, Zenon DEF ProviderTakes
  <2> QED
    BY <2>1, SameWork
<1>32. ASSUME UNCHANGED vars PROVE PendingWorkIsArmed'
  <2>1. UNCHANGED <<rows, alarm, pc, unreconciled>>
    BY <1>32, Zenon DEF vars
  <2> QED
    BY <2>1, SameWork
<1> HIDE DEF PendingWorkIsArmed
<1> QED
  BY <1>1, <1>2, <1>3, <1>4, <1>5, <1>6, <1>7, <1>8, <1>9, <1>10, <1>11,
  <1>12, <1>13, <1>14, <1>15, <1>16, <1>17, <1>18, <1>19, <1>20, <1>21, <1>22,
  <1>23, <1>24, <1>25, <1>26, <1>27, <1>28, <1>29, <1>30, <1>31, <1>32 DEF
  Next, Rpc, Environment, RunStep

\* Pending mail always has an alarm, or something in progress that will set one.
THEOREM PendingIsArmed == Spec => []PendingWorkIsArmed
<1>1. Init => PendingWorkIsArmed
  BY SMT DEF Init, PendingWorkIsArmed, Pending
<1> QED
  BY <1>1, TypeInit, TypeNext, ArmedNext, PTL DEF Spec

-----------------------------------------------------------------------------
(* The abstract life of a delivery. *)

\* A delivery none of whose attempts was taken was handed over no time.
LEMMA NeverTaken ==
  ASSUME NEW d \in Deliveries, \A a \in Attempts : <<d, a>> \notin taken
  PROVE  TimesTaken(d) = 0
<1>1. {a \in Attempts : <<d, a>> \in taken} = {}
  OBVIOUS
<1> QED
  BY <1>1, FS_EmptySet, Zenon DEF TimesTaken

\* With one live call, a delivery with a taken attempt was handed over once.
LEMMA TakenOnce ==
  ASSUME OneLiveCall, NEW d \in Deliveries, NEW a \in Attempts, <<d, a>> \in taken
  PROVE  TimesTaken(d) = 1
<1>1. {b \in Attempts : <<d, b>> \in taken} = {a}
  BY Zenon DEF OneLiveCall, LiveCalls
<1> QED
  BY <1>1, FS_Singleton, Zenon DEF TimesTaken

handed == [d \in Deliveries |-> TimesTaken(d)]

\* What was handed over is a function of the taken calls.
LEMMA SameHanded == ASSUME taken' = taken PROVE handed' = handed
  BY Zenon DEF handed, TimesTaken

AbstractStep == [Lifecycle!Next]_(Lifecycle!vars)

\* A step that moves no row and hands nothing over is invisible.
LEMMA Quiet == ASSUME status' = status, taken' = taken PROVE AbstractStep
  BY SameHanded, Zenon DEF AbstractStep, Lifecycle!vars, handed

\* Stale recovery makes the outcome of some sends unknown.
LEMMA Doubts == ASSUME TypeOK, RecoverStaleRows, UNCHANGED provider PROVE AbstractStep
<1>1. CASE StaleRows = {}
  <2>1. status' = status
    BY <1>1, SMT DEF RecoverStaleRows, TypeOK
  <2> QED
    BY <2>1, Quiet, Zenon
<1>2. CASE StaleRows # {}
  <2>1. Lifecycle!Doubt(StaleRows) /\ StaleRows \in SUBSET Deliveries
    BY <1>2, SameHanded, SMT DEF Lifecycle!Doubt, RecoverStaleRows, StaleRows, handed
  <2> QED
    BY <2>1, Zenon DEF AbstractStep, Lifecycle!Next
<1> QED
  BY <1>1, <1>2

\* A row that turns indeterminate is a row the abstract system gives up on.
LEMMA DoubtsOne ==
  ASSUME TypeOK, NEW d \in Deliveries, status[d] = "sending",
         status' = [status EXCEPT ![d] = "indeterminate"], UNCHANGED provider
  PROVE  AbstractStep
<1>1. status' = [e \in Deliveries |-> IF e \in {d} THEN "indeterminate" ELSE status[e]]
  <2>1. status \in [Deliveries -> Statuses]
    BY Zenon DEF TypeOK
  <2>2. status' = [e \in Deliveries |-> IF e = d THEN "indeterminate" ELSE status[e]]
    BY <2>1, Zenon
  <2>3. \A e \in Deliveries : (e = d) <=> (e \in {d})
    OBVIOUS
  <2> QED
    BY <2>2, <2>3, Zenon
<1>2. Lifecycle!Doubt({d}) /\ {d} \in SUBSET Deliveries
  BY <1>1, SameHanded, Zenon DEF Lifecycle!Doubt, handed
<1> QED
  BY <1>2, Zenon DEF AbstractStep, Lifecycle!Next

\* A run at work holds a claim, and the row it owns is in sending.
LEMMA Works ==
  ASSUME TypeInv, NEW r \in Runs, pc[r] \in Working
  PROVE  claim[r].id \in Deliveries /\ (Owns(claim[r]) => status[claim[r].id] = "sending")
  BY Zenon DEF TypeInv, ClaimInv, Claims, Owns

\* A run that settles a refusal has had no message taken.
LEMMA Refused ==
  ASSUME SafetyInv, NEW r \in Runs, pc[r] = "settle", outcome[r] \in {"retry", "failed"}
  PROVE  claim[r].id \in Deliveries /\ TimesTaken(claim[r].id) = 0
<1>1. claim[r].id \in Deliveries
  BY Works DEF SafetyInv, Working
<1>2. \A a \in Attempts : <<claim[r].id, a>> \notin taken
  BY SMT DEF SafetyInv, SendInv, LiveCalls, Working
<1> QED
  BY <1>1, <1>2, NeverTaken

\* Every step of the code is a step of the abstract life, or a stutter.
LEMMA LifecycleNext == SafetyInv /\ [Next]_vars => AbstractStep
<1> SUFFICES ASSUME SafetyInv, [Next]_vars PROVE AbstractStep
  OBVIOUS
<1>0. TypeOK /\ TypeInv /\ OneLiveCall
  BY DEF SafetyInv, TypeInv
<1> USE <1>0 DEF handed, AbstractStep
<1>1. ASSUME NEW r \in Runs, FireAlarm(r) PROVE AbstractStep
  BY <1>1, Quiet, Zenon DEF FireAlarm
<1>2. ASSUME NEW r \in Runs, ActivateForAlarm(r) PROVE AbstractStep
  BY <1>2, Doubts, Zenon DEF ActivateForAlarm
<1>3. ASSUME NEW r \in Runs, AcquireClaimFence(r) PROVE AbstractStep
  BY <1>3, AcquireStep, Quiet, Zenon
<1>4. ASSUME NEW r \in Runs, RecoverStaleSending(r) PROVE AbstractStep
  BY <1>4, Doubts, Zenon DEF RecoverStaleSending
<1>5. ASSUME NEW r \in Runs, ClaimDue(r) PROVE AbstractStep
  <2>1. CASE UNCHANGED rows /\ UNCHANGED provider
    BY <2>1, Quiet, Zenon
  <2>2. ASSUME NEW d \in DueRows, status' = [status EXCEPT ![d] = "sending"], UNCHANGED provider
        PROVE  AbstractStep
    <3>1. Lifecycle!Begin(d) /\ d \in Deliveries
      BY <2>2, SameHanded, Zenon DEF Lifecycle!Begin, Lifecycle!Move, DueRows
    <3> QED
      BY <3>1, Zenon DEF Lifecycle!Next
  <2> QED
    BY <1>5, <2>1, <2>2, Zenon DEF ClaimDue
<1>6. ASSUME NEW r \in Runs, StoreFails(r) PROVE AbstractStep
  BY <1>6, Quiet, Zenon DEF StoreFails
<1>7. ASSUME NEW r \in Runs, LoadSnapshot(r) PROVE AbstractStep
  BY <1>7, Quiet, Zenon DEF LoadSnapshot, DispatchFails
<1>8. ASSUME NEW r \in Runs, AcquireDispatchFence(r) PROVE AbstractStep
  BY <1>8, Quiet, Zenon DEF AcquireDispatchFence, DispatchFails
<1>9. ASSUME NEW r \in Runs, SendMessage(r) PROVE AbstractStep
  BY <1>9, Quiet, Zenon DEF SendMessage, DispatchFails
<1>10. ASSUME NEW r \in Runs, ProviderAnswers(r) PROVE AbstractStep
  BY <1>10, Quiet, Zenon DEF ProviderAnswers
<1>11. ASSUME NEW r \in Runs, ReleaseDispatchFence(r) PROVE AbstractStep
  BY <1>11, ReleaseStep, Quiet, Zenon
<1>12. ASSUME NEW r \in Runs, SettleAccepted(r) PROVE AbstractStep
  <2>1. CASE UNCHANGED rows /\ UNCHANGED provider
    BY <2>1, Quiet, Zenon
  <2>2. CASE Owns(claim[r]) /\ MoveClaimed(claim[r], "accepted", Later(now, claim[r].at)) /\ UNCHANGED provider
    <3>1. claim[r] \in Claims /\ <<claim[r].id, claim[r].attempt>> \in taken
      BY <1>12, SMT DEF SettleAccepted, SafetyInv, TypeInv, ClaimInv, AcceptInv, Working, Presend, Goto
    <3>2. claim[r].id \in Deliveries /\ claim[r].attempt \in Attempts
      BY <3>1, Zenon DEF Claims
    <3>3. TimesTaken(claim[r].id) = 1
      BY <3>1, <3>2, TakenOnce
    <3>4. Lifecycle!Confirm(claim[r].id)
      BY <2>2, <3>2, <3>3, SameHanded, SMT DEF MoveClaimed, Owns, Lifecycle!Confirm, Lifecycle!Move
    <3> QED
      BY <3>2, <3>4, Zenon DEF Lifecycle!Next
  <2> QED
    BY <1>12, <2>1, <2>2, Zenon DEF SettleAccepted
<1>13. ASSUME NEW r \in Runs, SettleFinal(r) PROVE AbstractStep
  <2>1. CASE UNCHANGED rows /\ UNCHANGED provider
    BY <2>1, Quiet, Zenon
  <2>2. CASE outcome[r] = "failed" /\ Owns(claim[r]) /\ status' = [status EXCEPT ![claim[r].id] = "failed"] /\ UNCHANGED provider
    <3>1. claim[r].id \in Deliveries /\ TimesTaken(claim[r].id) = 0
      BY <1>13, <2>2, Refused DEF SettleFinal, Goto
    <3>2. Lifecycle!GiveUp(claim[r].id)
      BY <2>2, <3>1, SameHanded, SMT DEF Owns, Lifecycle!GiveUp, Lifecycle!Move
    <3> QED
      BY <3>1, <3>2, Zenon DEF Lifecycle!Next
  <2>3. CASE Owns(claim[r]) /\ status' = [status EXCEPT ![claim[r].id] = "indeterminate"] /\ UNCHANGED provider
    BY <2>3, <1>13, Works, DoubtsOne, Zenon DEF SettleFinal, Goto, Working
  <2>4. outcome[r] = "failed" \/ outcome[r] = "indeterminate"
    BY <1>13, Zenon DEF SettleFinal
  <2> QED
    BY <1>13, <2>1, <2>2, <2>3, <2>4, Zenon DEF SettleFinal, MoveClaimed
<1>14. ASSUME NEW r \in Runs, Retry(r) PROVE AbstractStep
  <2>1. CASE UNCHANGED rows /\ UNCHANGED provider
    BY <2>1, Quiet, Zenon
  <2>2. CASE Owns(claim[r]) /\ status' = [status EXCEPT ![claim[r].id] = "failed"] /\ UNCHANGED provider
    <3>1. claim[r].id \in Deliveries /\ TimesTaken(claim[r].id) = 0
      BY <1>14, <2>2, Refused DEF Retry, Goto
    <3>2. Lifecycle!GiveUp(claim[r].id)
      BY <2>2, <3>1, SameHanded, SMT DEF Owns, Lifecycle!GiveUp, Lifecycle!Move
    <3> QED
      BY <3>1, <3>2, Zenon DEF Lifecycle!Next
  <2>3. CASE Owns(claim[r]) /\ status' = [status EXCEPT ![claim[r].id] = "scheduled"] /\ UNCHANGED provider
    <3>1. claim[r].id \in Deliveries /\ TimesTaken(claim[r].id) = 0
      BY <1>14, Refused DEF Retry, Goto
    <3>2. Lifecycle!Requeue(claim[r].id)
      BY <2>3, <3>1, SameHanded, SMT DEF Owns, Lifecycle!Requeue, Lifecycle!Move
    <3> QED
      BY <3>1, <3>2, Zenon DEF Lifecycle!Next
  <2> QED
    BY <1>14, <2>1, <2>2, <2>3, Zenon DEF Retry, MoveClaimed
<1>15. ASSUME NEW r \in Runs, SettleFails(r) PROVE AbstractStep
  BY <1>15, Quiet, Zenon DEF SettleFails
<1>16. ASSUME NEW r \in Runs, SettleDefect(r) PROVE AbstractStep
  <2>1. CASE UNCHANGED rows /\ UNCHANGED provider
    BY <2>1, Quiet, Zenon
  <2>2. CASE Owns(claim[r]) /\ status' = [status EXCEPT ![claim[r].id] = "indeterminate"] /\ UNCHANGED provider
    BY <1>16, <2>2, Works, DoubtsOne, Zenon DEF SettleDefect, Goto, Working
  <2> QED
    BY <1>16, <2>1, <2>2, Zenon DEF SettleDefect, MoveClaimed
<1>17. ASSUME NEW r \in Runs, ReleaseClaimFence(r) PROVE AbstractStep
  BY <1>17, Quiet, Zenon DEF ReleaseClaimFence
<1>18. ASSUME NEW r \in Runs, ReconcileAfterRun(r) PROVE AbstractStep
  BY <1>18, Quiet, Zenon DEF ReconcileAfterRun
<1>19. ASSUME NEW d \in Deliveries, ScheduleOutbound(d) PROVE AbstractStep
  <2>1. Lifecycle!Submit(d)
    BY <1>19, SameHanded, Zenon DEF ScheduleOutbound, NewRow, Lifecycle!Submit, Lifecycle!Move
  <2> QED
    BY <2>1, Zenon DEF Lifecycle!Next
<1>20. ASSUME NEW d \in Deliveries, CancelOutboundDelivery(d) PROVE AbstractStep
  <2>1. Lifecycle!Cancel(d)
    BY <1>20, SameHanded, Zenon DEF CancelOutboundDelivery, Lifecycle!Cancel, Lifecycle!Move
  <2> QED
    BY <2>1, Zenon DEF Lifecycle!Next
<1>21. ASSUME NEW d \in Deliveries, MoveMessage(d) PROVE AbstractStep
  BY <1>21, Quiet, Zenon DEF MoveMessage
<1>22. ASSUME NEW source \in Deliveries, NEW d \in Deliveries, ResendOutbound(source, d) PROVE AbstractStep
  <2>1. Lifecycle!Submit(d)
    BY <1>22, SameHanded, Zenon DEF ResendOutbound, NewRow, Lifecycle!Submit, Lifecycle!Move
  <2> QED
    BY <2>1, Zenon DEF Lifecycle!Next
<1>23. ASSUME AnswerUnchanged PROVE AbstractStep
  BY <1>23, Quiet, Zenon DEF AnswerUnchanged
<1>24. ASSUME ReconcileAfterRpc PROVE AbstractStep
  BY <1>24, Quiet, Zenon DEF ReconcileAfterRpc
<1>25. ASSUME Crash PROVE AbstractStep
  BY <1>25, Quiet, Zenon DEF Crash
<1>26. ASSUME ActivateForRequest PROVE AbstractStep
  BY <1>26, Doubts, Zenon DEF ActivateForRequest
<1>27. ASSUME FinishActivation PROVE AbstractStep
  BY <1>27, Quiet, Zenon DEF FinishActivation
<1>28. ASSUME SuspendOrganization PROVE AbstractStep
  BY <1>28, Quiet, Zenon DEF SuspendOrganization
<1>29. ASSUME ResumeOrganization PROVE AbstractStep
  BY <1>29, Quiet, Zenon DEF ResumeOrganization
<1>30. ASSUME Tick PROVE AbstractStep
  BY <1>30, Quiet, Zenon DEF Tick
<1>31. ASSUME NEW call \in Calls, ProviderTakes(call) PROVE AbstractStep
  <2>1. PICK d \in Deliveries, a \in Attempts : call = <<d, a>>
    BY <1>31, SMT
  <2>2. <<d, a>> \in LiveCalls /\ <<d, a>> \notin taken
    BY <1>31, <2>1, Zenon DEF ProviderTakes, LiveCalls
  <2>3. \A b \in Attempts : <<d, b>> \notin taken
    BY <2>2, Zenon DEF SafetyInv, OneLiveCall, LiveCalls
  <2>4. status[d] \in {"sending", "indeterminate"}
    <3>1. status[d] \in Statuses
      BY Zenon DEF TypeOK
    <3>2. status[d] \notin {"absent", "scheduled", "cancelled", "failed"}
      BY <2>2, Zenon DEF SafetyInv, UnsentInv
    <3>3. status[d] # "accepted"
      BY <2>3, Zenon DEF SafetyInv, AcceptedMeansTaken
    <3> QED
      BY <3>1, <3>2, <3>3, Zenon DEF Statuses
  <2>5. TimesTaken(d) = 0
    BY <2>3, NeverTaken
  <2>6. handed' = [handed EXCEPT ![d] = 1]
    <3>1. taken' = taken \cup {<<d, a>>}
      BY <1>31, <2>1, Zenon DEF ProviderTakes
    <3>2. {b \in Attempts : <<d, b>> \in taken'} = {a}
      BY <2>3, <3>1, SMT
    <3>3. TimesTaken(d)' = 1
      BY <3>2, FS_Singleton, Zenon DEF TimesTaken
    <3>4. ASSUME NEW e \in Deliveries, e # d PROVE TimesTaken(e)' = TimesTaken(e)
      <4>1. {b \in Attempts : <<e, b>> \in taken'} = {b \in Attempts : <<e, b>> \in taken}
        BY <3>1, <3>4, SMT
      <4> QED
        BY <4>1, Zenon DEF TimesTaken
    <3> HIDE DEF TimesTaken
    <3>5. handed' = [e \in Deliveries |-> IF e = d THEN 1 ELSE handed[e]]
      BY <3>3, <3>4, Zenon
    <3> QED
      BY <3>5, Zenon
  <2>7. Lifecycle!HandOver(d)
    <3>1. status' = status
      BY <1>31, Zenon DEF ProviderTakes
    <3>2. handed[d] = 0
      BY <2>5, SMT
    <3> QED
      BY <2>4, <2>6, <3>1, <3>2, Zenon DEF Lifecycle!HandOver
  <2> QED
    BY <2>7, Zenon DEF Lifecycle!Next
<1>32. ASSUME UNCHANGED vars PROVE AbstractStep
  BY <1>32, Quiet, Zenon
<1> QED
  BY <1>1, <1>2, <1>3, <1>4, <1>5, <1>6, <1>7, <1>8, <1>9, <1>10, <1>11,
  <1>12, <1>13, <1>14, <1>15, <1>16, <1>17, <1>18, <1>19, <1>20, <1>21, <1>22,
  <1>23, <1>24, <1>25, <1>26, <1>27, <1>28, <1>29, <1>30, <1>31, <1>32 DEF
  Next, Rpc, Environment, RunStep

\* Outbound delivery keeps what the abstract lifecycle promises.
THEOREM LifecycleImplemented == Spec => ImplementsLifecycle
<1>1. Init => Lifecycle!Init
  <2> SUFFICES ASSUME Init PROVE Lifecycle!Init
    OBVIOUS
  <2>1. \A d \in Deliveries : TimesTaken(d) = 0
    BY NeverTaken, SMT DEF Init
  <2> QED
    BY <2>1, Zenon DEF Init, Lifecycle!Init
<1> QED
  BY <1>1, LifecycleNext, SafetyCorrect, PTL DEF Spec, ImplementsLifecycle, Lifecycle!Spec, AbstractStep

-----------------------------------------------------------------------------
(* The rows decode, and RPC traffic leaves the alarm alone. *)

\* The stamp a claim carries is no earlier than the times it will overwrite.
StampInv ==
  \A r \in Runs : pc[r] \in Working /\ Owns(claim[r]) =>
    claim[r].at >= sendAt[claim[r].id] /\ claim[r].at >= createdAt[claim[r].id]

\* Every step keeps the times of a row in the order its decoder demands.
LEMMA StampNext ==
  TypeInv /\ OwnerInv /\ ExclusiveInv /\ StampInv /\ RowsDecode /\ [Next]_vars
    => (StampInv /\ RowsDecode)'
<1> SUFFICES ASSUME TypeInv, OwnerInv, ExclusiveInv, StampInv, RowsDecode, [Next]_vars
             PROVE  (StampInv /\ RowsDecode)'
  OBVIOUS
<1> USE DEF TypeInv, TypeOK, ClaimInv, OwnerInv, ExclusiveInv, StampInv, RowsDecode, Owns, Claims,
            Working, Presend, Goto
<1>1. ASSUME NEW r \in Runs, FireAlarm(r) PROVE (StampInv /\ RowsDecode)'
  BY <1>1, SMT DEF FireAlarm
<1>2. ASSUME NEW r \in Runs, ActivateForAlarm(r) PROVE (StampInv /\ RowsDecode)'
  BY <1>2, SMT DEF ActivateForAlarm, RecoverStaleRows, StaleRows, Later
<1>3. ASSUME NEW r \in Runs, AcquireClaimFence(r) PROVE (StampInv /\ RowsDecode)'
  BY <1>3, AcquireStep, SMTT(60)
<1>4. ASSUME NEW r \in Runs, RecoverStaleSending(r) PROVE (StampInv /\ RowsDecode)'
  BY <1>4, SMT DEF RecoverStaleSending, RecoverStaleRows, StaleRows, Later
<1>5. ASSUME NEW r \in Runs, ClaimDue(r) PROVE (StampInv /\ RowsDecode)'
  BY <1>5, SMTT(60) DEF ClaimDue, DueRows, Later
<1>6. ASSUME NEW r \in Runs, StoreFails(r) PROVE (StampInv /\ RowsDecode)'
  BY <1>6, SMT DEF StoreFails
<1>7. ASSUME NEW r \in Runs, LoadSnapshot(r) PROVE (StampInv /\ RowsDecode)'
  BY <1>7, SMT DEF LoadSnapshot, DispatchFails
<1>8. ASSUME NEW r \in Runs, AcquireDispatchFence(r) PROVE (StampInv /\ RowsDecode)'
  BY <1>8, SMTT(60) DEF AcquireDispatchFence, DispatchFails
<1>9. ASSUME NEW r \in Runs, SendMessage(r) PROVE (StampInv /\ RowsDecode)'
  BY <1>9, SMT DEF SendMessage, DispatchFails
<1>10. ASSUME NEW r \in Runs, ProviderAnswers(r) PROVE (StampInv /\ RowsDecode)'
  BY <1>10, SMT DEF ProviderAnswers
<1>11. ASSUME NEW r \in Runs, ReleaseDispatchFence(r) PROVE (StampInv /\ RowsDecode)'
  BY <1>11, ReleaseStep, SMT
<1>12. ASSUME NEW r \in Runs, SettleAccepted(r) PROVE (StampInv /\ RowsDecode)'
  BY <1>12, SMTT(60) DEF SettleAccepted, MoveClaimed, Later
<1>13. ASSUME NEW r \in Runs, SettleFinal(r) PROVE (StampInv /\ RowsDecode)'
  BY <1>13, SMT DEF SettleFinal, MoveClaimed, Later
<1>14. ASSUME NEW r \in Runs, Retry(r) PROVE (StampInv /\ RowsDecode)'
  BY <1>14, SMTT(60) DEF Retry, MoveClaimed, Later
<1>15. ASSUME NEW r \in Runs, SettleFails(r) PROVE (StampInv /\ RowsDecode)'
  BY <1>15, SMT DEF SettleFails
<1>16. ASSUME NEW r \in Runs, SettleDefect(r) PROVE (StampInv /\ RowsDecode)'
  BY <1>16, SMT DEF SettleDefect, MoveClaimed, Later
<1>17. ASSUME NEW r \in Runs, ReleaseClaimFence(r) PROVE (StampInv /\ RowsDecode)'
  BY <1>17, SMT DEF ReleaseClaimFence
<1>18. ASSUME NEW r \in Runs, ReconcileAfterRun(r) PROVE (StampInv /\ RowsDecode)'
  BY <1>18, SMT DEF ReconcileAfterRun
<1>19. ASSUME NEW d \in Deliveries, ScheduleOutbound(d) PROVE (StampInv /\ RowsDecode)'
  BY <1>19, SMT DEF ScheduleOutbound, Commits, NewRow
<1>20. ASSUME NEW d \in Deliveries, CancelOutboundDelivery(d) PROVE (StampInv /\ RowsDecode)'
  BY <1>20, SMT DEF CancelOutboundDelivery, Commits, Later
<1>21. ASSUME NEW d \in Deliveries, MoveMessage(d) PROVE (StampInv /\ RowsDecode)'
  BY <1>21, SMT DEF MoveMessage
<1>22. ASSUME NEW source \in Deliveries, NEW d \in Deliveries, ResendOutbound(source, d) PROVE (StampInv /\ RowsDecode)'
  BY <1>22, SMT DEF ResendOutbound, Commits, NewRow
<1>23. ASSUME AnswerUnchanged PROVE (StampInv /\ RowsDecode)'
  BY <1>23, SMT DEF AnswerUnchanged, Commits
<1>24. ASSUME ReconcileAfterRpc PROVE (StampInv /\ RowsDecode)'
  BY <1>24, SMT DEF ReconcileAfterRpc
<1>25. ASSUME Crash PROVE (StampInv /\ RowsDecode)'
  BY <1>25, SMT DEF Crash
<1>26. ASSUME ActivateForRequest PROVE (StampInv /\ RowsDecode)'
  BY <1>26, SMT DEF ActivateForRequest, RecoverStaleRows, StaleRows, Later
<1>27. ASSUME FinishActivation PROVE (StampInv /\ RowsDecode)'
  BY <1>27, SMT DEF FinishActivation
<1>28. ASSUME SuspendOrganization PROVE (StampInv /\ RowsDecode)'
  BY <1>28, SMT DEF SuspendOrganization
<1>29. ASSUME ResumeOrganization PROVE (StampInv /\ RowsDecode)'
  BY <1>29, SMT DEF ResumeOrganization
<1>30. ASSUME Tick PROVE (StampInv /\ RowsDecode)'
  BY <1>30, SMT DEF Tick
<1>31. ASSUME NEW call \in Calls, ProviderTakes(call) PROVE (StampInv /\ RowsDecode)'
  BY <1>31, SMT DEF ProviderTakes
<1>32. ASSUME UNCHANGED vars PROVE (StampInv /\ RowsDecode)'
  BY <1>32, SMT
<1> HIDE DEF StampInv, RowsDecode
<1> QED
  BY <1>1, <1>2, <1>3, <1>4, <1>5, <1>6, <1>7, <1>8, <1>9, <1>10, <1>11,
  <1>12, <1>13, <1>14, <1>15, <1>16, <1>17, <1>18, <1>19, <1>20, <1>21, <1>22,
  <1>23, <1>24, <1>25, <1>26, <1>27, <1>28, <1>29, <1>30, <1>31, <1>32 DEF
  Next, Rpc, Environment, RunStep

\* Every row decodes, even if the clock steps back between two writes.
THEOREM DecodingRows == Spec => []RowsDecode
<1>1. Init => StampInv /\ RowsDecode
  BY SMT DEF Init, StampInv, RowsDecode, Working, Presend
<1>2. SafetyInv => TypeInv /\ OwnerInv /\ ExclusiveInv
  BY DEF SafetyInv
<1> QED
  BY <1>1, <1>2, StampNext, SafetyCorrect, PTL DEF Spec

AlarmKept ==
  unreconciled /\ ~unreconciled' /\ mode = "up"
    /\ alarm # NoAlarm /\ alarm > now /\ (\E t \in WakeTimes : t <= now)
  => alarm' <= alarm

\* Only firing and reconciling change the alarm, and reconciling keeps what is due.
LEMMA KeepsAlarm == TypeOK /\ [Next]_vars => AlarmKept
<1> SUFFICES ASSUME TypeOK, [Next]_vars PROVE AlarmKept
  OBVIOUS
<1> USE DEF TypeOK, AlarmKept
<1>1. ASSUME NEW r \in Runs, FireAlarm(r) PROVE AlarmKept
  BY <1>1, Zenon DEF FireAlarm
<1>2. ASSUME NEW r \in Runs, ActivateForAlarm(r) PROVE AlarmKept
  BY <1>2, SMT DEF ActivateForAlarm
<1>3. ASSUME NEW r \in Runs, AcquireClaimFence(r) PROVE AlarmKept
  BY <1>3, AcquireStep, Zenon
<1>4. ASSUME NEW r \in Runs, RecoverStaleSending(r) PROVE AlarmKept
  BY <1>4, Zenon DEF RecoverStaleSending
<1>5. ASSUME NEW r \in Runs, ClaimDue(r) PROVE AlarmKept
  BY <1>5, Zenon DEF ClaimDue
<1>6. ASSUME NEW r \in Runs, StoreFails(r) PROVE AlarmKept
  BY <1>6, Zenon DEF StoreFails
<1>7. ASSUME NEW r \in Runs, LoadSnapshot(r) PROVE AlarmKept
  BY <1>7, Zenon DEF LoadSnapshot, DispatchFails
<1>8. ASSUME NEW r \in Runs, AcquireDispatchFence(r) PROVE AlarmKept
  BY <1>8, Zenon DEF AcquireDispatchFence, DispatchFails
<1>9. ASSUME NEW r \in Runs, SendMessage(r) PROVE AlarmKept
  BY <1>9, Zenon DEF SendMessage, DispatchFails
<1>10. ASSUME NEW r \in Runs, ProviderAnswers(r) PROVE AlarmKept
  BY <1>10, Zenon DEF ProviderAnswers
<1>11. ASSUME NEW r \in Runs, ReleaseDispatchFence(r) PROVE AlarmKept
  BY <1>11, ReleaseStep, Zenon
<1>12. ASSUME NEW r \in Runs, SettleAccepted(r) PROVE AlarmKept
  BY <1>12, Zenon DEF SettleAccepted
<1>13. ASSUME NEW r \in Runs, SettleFinal(r) PROVE AlarmKept
  BY <1>13, Zenon DEF SettleFinal
<1>14. ASSUME NEW r \in Runs, Retry(r) PROVE AlarmKept
  BY <1>14, Zenon DEF Retry
<1>15. ASSUME NEW r \in Runs, SettleFails(r) PROVE AlarmKept
  BY <1>15, Zenon DEF SettleFails
<1>16. ASSUME NEW r \in Runs, SettleDefect(r) PROVE AlarmKept
  BY <1>16, Zenon DEF SettleDefect
<1>17. ASSUME NEW r \in Runs, ReleaseClaimFence(r) PROVE AlarmKept
  BY <1>17, Zenon DEF ReleaseClaimFence
<1>18. ASSUME NEW r \in Runs, ReconcileAfterRun(r) PROVE AlarmKept
  BY <1>18, Zenon DEF ReconcileAfterRun
<1>19. ASSUME NEW d \in Deliveries, ScheduleOutbound(d) PROVE AlarmKept
  BY <1>19, Zenon DEF ScheduleOutbound, Commits
<1>20. ASSUME NEW d \in Deliveries, CancelOutboundDelivery(d) PROVE AlarmKept
  BY <1>20, Zenon DEF CancelOutboundDelivery, Commits
<1>21. ASSUME NEW d \in Deliveries, MoveMessage(d) PROVE AlarmKept
  BY <1>21, Zenon DEF MoveMessage
<1>22. ASSUME NEW source \in Deliveries, NEW d \in Deliveries, ResendOutbound(source, d) PROVE AlarmKept
  BY <1>22, Zenon DEF ResendOutbound, Commits
<1>23. ASSUME AnswerUnchanged PROVE AlarmKept
  BY <1>23, Zenon DEF AnswerUnchanged, Commits
<1>24. ASSUME ReconcileAfterRpc PROVE AlarmKept
  <2>1. ASSUME NEW next \in WakeTimes, next <= now, alarm # NoAlarm, alarm > now
        PROVE  AlarmTarget(next, alarm) <= alarm
    <3>1. next \in Nat
      BY <2>1, WakeTimesType
    <3> QED
      BY <2>1, <3>1, SMT DEF AlarmTarget, Earlier
  <2>2. ASSUME NEW next \in WakeTimes, \A t \in WakeTimes : next <= t,
               NEW t \in WakeTimes, t <= now
        PROVE  next <= now
    <3>1. next \in Nat /\ t \in Nat
      BY <2>2, WakeTimesType
    <3> QED
      BY <2>2, <3>1, SMT
  <2> QED
    BY <1>24, <2>1, <2>2, Zenon DEF ReconcileAfterRpc, ReconcileAlarm
<1>25. ASSUME Crash PROVE AlarmKept
  BY <1>25, Zenon DEF Crash
<1>26. ASSUME ActivateForRequest PROVE AlarmKept
  BY <1>26, SMT DEF ActivateForRequest
<1>27. ASSUME FinishActivation PROVE AlarmKept
  BY <1>27, SMT DEF FinishActivation
<1>28. ASSUME SuspendOrganization PROVE AlarmKept
  BY <1>28, Zenon DEF SuspendOrganization
<1>29. ASSUME ResumeOrganization PROVE AlarmKept
  BY <1>29, Zenon DEF ResumeOrganization
<1>30. ASSUME Tick PROVE AlarmKept
  BY <1>30, Zenon DEF Tick
<1>31. ASSUME NEW call \in Calls, ProviderTakes(call) PROVE AlarmKept
  BY <1>31, Zenon DEF ProviderTakes
<1>32. ASSUME UNCHANGED vars PROVE AlarmKept
  BY <1>32, Zenon
<1> HIDE DEF AlarmKept
<1> QED
  BY <1>1, <1>2, <1>3, <1>4, <1>5, <1>6, <1>7, <1>8, <1>9, <1>10, <1>11,
  <1>12, <1>13, <1>14, <1>15, <1>16, <1>17, <1>18, <1>19, <1>20, <1>21, <1>22,
  <1>23, <1>24, <1>25, <1>26, <1>27, <1>28, <1>29, <1>30, <1>31, <1>32 DEF
  Next, Rpc, Environment, RunStep

\* An RPC never pushes a pending alarm away while mail is due.
THEOREM PendingRetryIsKept == Spec => RpcKeepsPendingRetry
<1>1. TypeOK /\ [Next]_vars =>
        [unreconciled /\ ~unreconciled' /\ mode = "up"
           /\ alarm # NoAlarm /\ alarm > now /\ (\E t \in WakeTimes : t <= now)
         => alarm' <= alarm]_vars
  BY KeepsAlarm, Zenon DEF AlarmKept
<1> QED
  BY <1>1, TypeCorrect, PTL DEF Spec, RpcKeepsPendingRetry

\* The object is in memory, answers nobody and runs no alarm handler.
Resting == mode = "up" /\ (\A r \in Runs : pc[r] = "idle") /\ ~unreconciled

\* What comes to rest has just reconciled, or rested before and nothing it waits
\* for has changed.
RestsInTime ==
  Resting' => \/ ReconcileAlarm /\ UNCHANGED <<now, rows>>
              \/ /\ Resting
                 /\ UNCHANGED <<alarm, status, sendAt, updatedAt>>
                 /\ now <= now'

\* Reconciling sets the alarm to the earliest time, or one retry period from now.
LEMMA ReconcileIsInTime ==
  ASSUME TypeOK, ReconcileAlarm, UNCHANGED <<now, rows>>, NEW t \in WakeTimes
  PROVE  alarm' <= t \/ alarm' <= now' + AlarmRetry
<1>1. PICK next \in WakeTimes : next <= t /\ alarm' = AlarmTarget(next, alarm)
  BY Zenon DEF ReconcileAlarm
<1>2. next \in Nat /\ t \in Nat
  BY WakeTimesType
<1>3. now \in Nat /\ now' = now /\ AlarmRetry \in Nat
  BY Zenon DEF TypeOK
<1>4. alarm \in Nat \/ alarm = NoAlarm
  BY DEF TypeOK
<1>5. CASE next > now
  BY <1>1, <1>2, <1>3, <1>5, SMT DEF AlarmTarget
<1>6. CASE next <= now
  <2>1. AlarmTarget(next, alarm) \in {Earlier(alarm, now + AlarmRetry), now + AlarmRetry}
    BY <1>2, <1>3, <1>6, SMT DEF AlarmTarget
  <2>2. alarm = NoAlarm => AlarmTarget(next, alarm) = now + AlarmRetry
    BY <1>2, <1>3, <1>6, SMT DEF AlarmTarget
  <2>3. alarm \in Nat => Earlier(alarm, now + AlarmRetry) <= now + AlarmRetry
    BY <1>3, SMT DEF Earlier
  <2> QED
    BY <1>1, <1>3, <1>4, <2>1, <2>2, <2>3, SMT
<1> QED
  BY <1>2, <1>3, <1>5, <1>6, SMT

\* A run that goes on to another step keeps the object from resting.
LEMMA BusyRun ==
  ASSUME TypeOK, NEW r \in Runs, NEW to, pc' = [pc EXCEPT ![r] = to], to # "idle"
  PROVE  ~Resting'
  BY DEF Resting, TypeOK

\* With a clock that goes forward every step keeps what rests in time.
LEMMA RestingStep ==
  ASSUME TypeOK, [Next]_vars, ~ClockRetreats
  PROVE  RestsInTime
<1>1. now \in Nat
  BY DEF TypeOK
<1>2. ASSUME NEW r \in Runs, FireAlarm(r) PROVE RestsInTime
  <2>1. pc' = [pc EXCEPT ![r] = "acquire"]
    BY <1>2, SMT DEF FireAlarm, Goto
  <2> QED
    BY <2>1, BusyRun DEF RestsInTime
<1>3. ASSUME NEW r \in Runs, ActivateForAlarm(r) PROVE RestsInTime
  <2>1. pc' = [pc EXCEPT ![r] = "acquire"]
    BY <1>3, SMT DEF ActivateForAlarm
  <2> QED
    BY <2>1, BusyRun DEF RestsInTime
<1>4. ASSUME NEW r \in Runs, AcquireClaimFence(r) PROVE RestsInTime
  <2>1. \E to : pc' = [pc EXCEPT ![r] = to] /\ to # "idle"
    BY <1>4, Zenon DEF AcquireClaimFence, Goto
  <2> QED
    BY <2>1, BusyRun DEF RestsInTime
<1>5. ASSUME NEW r \in Runs, RecoverStaleSending(r) PROVE RestsInTime
  <2>1. \E to : pc' = [pc EXCEPT ![r] = to] /\ to # "idle"
    BY <1>5, Zenon DEF RecoverStaleSending, Goto
  <2> QED
    BY <2>1, BusyRun DEF RestsInTime
<1>6. ASSUME NEW r \in Runs, ClaimDue(r) PROVE RestsInTime
  <2>1. \E to : pc' = [pc EXCEPT ![r] = to] /\ to # "idle"
    BY <1>6, Zenon DEF ClaimDue, Goto
  <2> QED
    BY <2>1, BusyRun DEF RestsInTime
<1>7. ASSUME NEW r \in Runs, StoreFails(r) PROVE RestsInTime
  <2>1. \E to : pc' = [pc EXCEPT ![r] = to] /\ to # "idle"
    BY <1>7, Zenon DEF StoreFails, Goto
  <2> QED
    BY <2>1, BusyRun DEF RestsInTime
<1>8. ASSUME NEW r \in Runs, LoadSnapshot(r) PROVE RestsInTime
  <2>1. \E to : pc' = [pc EXCEPT ![r] = to] /\ to # "idle"
    BY <1>8, Zenon DEF LoadSnapshot, DispatchFails, Goto
  <2> QED
    BY <2>1, BusyRun DEF RestsInTime
<1>9. ASSUME NEW r \in Runs, AcquireDispatchFence(r) PROVE RestsInTime
  <2>1. \E to : pc' = [pc EXCEPT ![r] = to] /\ to # "idle"
    BY <1>9, Zenon DEF AcquireDispatchFence, DispatchFails, Goto
  <2> QED
    BY <2>1, BusyRun DEF RestsInTime
<1>10. ASSUME NEW r \in Runs, SendMessage(r) PROVE RestsInTime
  <2>1. \E to : pc' = [pc EXCEPT ![r] = to] /\ to # "idle"
    BY <1>10, Zenon DEF SendMessage, DispatchFails, Goto
  <2> QED
    BY <2>1, BusyRun DEF RestsInTime
<1>11. ASSUME NEW r \in Runs, ProviderAnswers(r) PROVE RestsInTime
  <2>1. \E to : pc' = [pc EXCEPT ![r] = to] /\ to # "idle"
    BY <1>11, Zenon DEF ProviderAnswers, Goto
  <2> QED
    BY <2>1, BusyRun DEF RestsInTime
<1>12. ASSUME NEW r \in Runs, ReleaseDispatchFence(r) PROVE RestsInTime
  <2>1. \E to : pc' = [pc EXCEPT ![r] = to] /\ to # "idle"
    BY <1>12, Zenon DEF ReleaseDispatchFence, Goto
  <2> QED
    BY <2>1, BusyRun DEF RestsInTime
<1>13. ASSUME NEW r \in Runs, SettleAccepted(r) PROVE RestsInTime
  <2>1. \E to : pc' = [pc EXCEPT ![r] = to] /\ to # "idle"
    BY <1>13, Zenon DEF SettleAccepted, Goto
  <2> QED
    BY <2>1, BusyRun DEF RestsInTime
<1>14. ASSUME NEW r \in Runs, SettleFinal(r) PROVE RestsInTime
  <2>1. pc' = [pc EXCEPT ![r] = "release"]
    BY <1>14, SMT DEF SettleFinal, Goto
  <2> QED
    BY <2>1, BusyRun DEF RestsInTime
<1>15. ASSUME NEW r \in Runs, Retry(r) PROVE RestsInTime
  <2>1. pc' = [pc EXCEPT ![r] = "release"]
    BY <1>15, SMT DEF Retry, Goto
  <2> QED
    BY <2>1, BusyRun DEF RestsInTime
<1>16. ASSUME NEW r \in Runs, SettleFails(r) PROVE RestsInTime
  <2>1. \E to : pc' = [pc EXCEPT ![r] = to] /\ to # "idle"
    BY <1>16, Zenon DEF SettleFails, Goto
  <2> QED
    BY <2>1, BusyRun DEF RestsInTime
<1>17. ASSUME NEW r \in Runs, SettleDefect(r) PROVE RestsInTime
  <2>1. \E to : pc' = [pc EXCEPT ![r] = to] /\ to # "idle"
    BY <1>17, Zenon DEF SettleDefect, Goto
  <2> QED
    BY <2>1, BusyRun DEF RestsInTime
<1>18. ASSUME NEW r \in Runs, ReleaseClaimFence(r) PROVE RestsInTime
  <2>1. \E to : pc' = [pc EXCEPT ![r] = to] /\ to # "idle"
    BY <1>18, Zenon DEF ReleaseClaimFence, Goto
  <2> QED
    BY <2>1, BusyRun DEF RestsInTime
<1>19. ASSUME NEW r \in Runs, ReconcileAfterRun(r) PROVE RestsInTime
  BY <1>19, Zenon DEF ReconcileAfterRun, RestsInTime, rows
<1>20. ASSUME NEW d \in Deliveries, ScheduleOutbound(d) PROVE RestsInTime
  BY <1>20, Zenon DEF ScheduleOutbound, Commits, Resting, RestsInTime
<1>21. ASSUME NEW d \in Deliveries, CancelOutboundDelivery(d) PROVE RestsInTime
  BY <1>21, Zenon DEF CancelOutboundDelivery, Commits, Resting, RestsInTime
<1>22. ASSUME NEW d \in Deliveries, MoveMessage(d) PROVE RestsInTime
  <2>1. UNCHANGED <<now, alarm, status, sendAt, updatedAt, mode, unreconciled, pc>>
    BY <1>22, Zenon DEF MoveMessage
  <2> QED
    BY <1>1, <2>1, SMT DEF Resting, RestsInTime
<1>23. ASSUME NEW source \in Deliveries, NEW d \in Deliveries, ResendOutbound(source, d) PROVE RestsInTime
  BY <1>23, Zenon DEF ResendOutbound, Commits, Resting, RestsInTime
<1>24. ASSUME AnswerUnchanged PROVE RestsInTime
  BY <1>24, Zenon DEF AnswerUnchanged, Commits, Resting, RestsInTime
<1>25. ASSUME ReconcileAfterRpc PROVE RestsInTime
  BY <1>25, Zenon DEF ReconcileAfterRpc, RestsInTime
<1>26. ASSUME Crash PROVE RestsInTime
  BY <1>26, SMT DEF Crash, Resting, RestsInTime
<1>27. ASSUME ActivateForRequest PROVE RestsInTime
  BY <1>27, SMT DEF ActivateForRequest, Resting, RestsInTime
<1>28. ASSUME FinishActivation PROVE RestsInTime
  BY <1>28, Zenon DEF FinishActivation, RestsInTime
<1>29. ASSUME SuspendOrganization PROVE RestsInTime
  <2>1. UNCHANGED <<now, alarm, status, sendAt, updatedAt, mode, unreconciled, pc>>
    BY <1>29, Zenon DEF SuspendOrganization
  <2> QED
    BY <1>1, <2>1, SMT DEF Resting, RestsInTime
<1>30. ASSUME ResumeOrganization PROVE RestsInTime
  <2>1. UNCHANGED <<now, alarm, status, sendAt, updatedAt, mode, unreconciled, pc>>
    BY <1>30, Zenon DEF ResumeOrganization
  <2> QED
    BY <1>1, <2>1, SMT DEF Resting, RestsInTime
<1>31. ASSUME Tick PROVE RestsInTime
  <2>1. UNCHANGED <<alarm, status, sendAt, updatedAt, mode, unreconciled, pc>> /\ now' = now + 1
    BY <1>31, Zenon DEF Tick
  <2> QED
    BY <1>1, <2>1, SMT DEF Resting, RestsInTime
<1>32. ASSUME NEW call \in Calls, ProviderTakes(call) PROVE RestsInTime
  <2>1. UNCHANGED <<now, alarm, status, sendAt, updatedAt, mode, unreconciled, pc>>
    BY <1>32, Zenon DEF ProviderTakes
  <2> QED
    BY <1>1, <2>1, SMT DEF Resting, RestsInTime
<1>33. ASSUME UNCHANGED vars PROVE RestsInTime
  <2>1. UNCHANGED <<now, alarm, status, sendAt, updatedAt, mode, unreconciled, pc>>
    BY <1>33, Zenon DEF vars
  <2> QED
    BY <1>1, <2>1, SMT DEF Resting, RestsInTime
<1> QED
  BY <1>2, <1>3, <1>4, <1>5, <1>6, <1>7, <1>8, <1>9, <1>10, <1>11, <1>12,
     <1>13, <1>14, <1>15, <1>16, <1>17, <1>18, <1>19, <1>20, <1>21,
     <1>22, <1>23, <1>24, <1>25, <1>26, <1>27, <1>28, <1>29, <1>30,
     <1>31, <1>32, <1>33
     DEF Next, Rpc, Environment, RunStep

\* With a clock that goes forward the alarm of an object at rest is in time for
\* all that waits for it, for any traffic of commands and alarm runs.
THEOREM AlarmInTime == ~ClockRetreats => (Spec => []AlarmIsInTime)
<1> SUFFICES ASSUME ~ClockRetreats PROVE Spec => []AlarmIsInTime
  OBVIOUS
<1>1. Init => AlarmIsInTime
  BY DEF Init, AlarmIsInTime
<1>2. TypeInv /\ AlarmIsInTime /\ [Next]_vars => AlarmIsInTime'
  <2> SUFFICES ASSUME TypeInv, AlarmIsInTime, [Next]_vars, Resting', alarm' # NoAlarm,
                      NEW t \in WakeTimes'
               PROVE  alarm' <= t \/ alarm' <= now' + AlarmRetry
    BY DEF AlarmIsInTime, Resting
  <2>0. TypeOK
    BY DEF TypeInv
  <2>1. CASE ReconcileAlarm /\ UNCHANGED <<now, rows>>
    <3>1. WakeTimes' = WakeTimes
      BY <2>1 DEF WakeTimes
    <3> QED
      BY <2>0, <2>1, <3>1, ReconcileIsInTime
  <2>2. CASE Resting /\ UNCHANGED <<alarm, status, sendAt, updatedAt>> /\ now <= now'
    <3>1. t \in WakeTimes
      BY <2>2 DEF WakeTimes
    <3>2. t \in Nat /\ now \in Nat
      BY <2>0, <3>1, WakeTimesType DEF TypeOK
    <3>3. alarm \in Nat /\ alarm' = alarm
      BY <2>0, <2>2 DEF TypeOK
    <3>4. alarm <= t \/ alarm <= now + AlarmRetry
      BY <2>2, <3>1 DEF AlarmIsInTime, Resting
    <3>5. now' \in Nat /\ AlarmRetry \in Nat
      BY TypeNext, <2>0 DEF TypeInv, TypeOK
    <3>6. \A x, y, z, w \in Nat : x <= y + w /\ y <= z => x <= z + w
      BY SMT
    <3> QED
      BY <2>2, <3>2, <3>3, <3>4, <3>5, <3>6, Zenon
  <2> QED
    BY <2>0, <2>1, <2>2, RestingStep DEF RestsInTime
<1> QED
  BY <1>1, <1>2, TypeInit, TypeNext, PTL DEF Spec

=============================================================================
