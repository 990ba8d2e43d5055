----------------------- MODULE AccountRecoveryProofs ------------------------
(***************************************************************************)
(* Proofs about AccountRecovery, for any sets of requests, operation ids,   *)
(* passkeys, codes, flows, challenges and sign-ins.                         *)
(***************************************************************************)
EXTENDS AccountRecovery, TLAPS

-----------------------------------------------------------------------------
(* Types *)

\* A request that can still change rows knows what it is about, and in which
\* session; one that has not sent its batch has not lost an answer.
Asked(r) ==
  /\ requests[r].subject \in Subjects(requests[r].kind)
  /\ requests[r].kind # "complete" => requests[r].session \in SessionIds

AskedInv ==
  \A r \in Requests :
    /\ requests[r].step \in {"prepare", "batch"} \/ requests[r].lost = "landing" => Asked(r)
    /\ requests[r].step \in {"idle", "prepare", "batch"} => requests[r].lost = "no"

TypeInv == TypeOK /\ AskedInv

\* Each kind of request names its receipts in one of the tables.
LEMMA TablesOfKinds == ASSUME NEW kind \in Kinds PROVE Table(kind) \in Tables
BY DEF Kinds, Table, Tables

\* The receipt a batch writes.
LEMMA ReceiptTyped ==
  ASSUME TypeOK, NEW r \in Requests, WriteReceipt(r)
  PROVE  receipts' \in [Tables -> [Operations -> Receipt \cup {None}]]
<1> DEFINE t == Table(requests[r].kind)
           new == [kind |-> requests[r].kind, by |-> r, subject |-> requests[r].subject,
                   seen |-> requests[r].seen]
<1>1. requests[r] \in Request
  BY DEF TypeOK
<1>2. t \in Tables
  BY <1>1, TablesOfKinds DEF Request
<1>3. new \in Receipt
  BY <1>1 DEF Request, Receipt
<1>4. requests[r].op \in Operations
  BY <1>1 DEF Request
<1>5. receipts \in [Tables -> [Operations -> Receipt \cup {None}]]
  BY DEF TypeOK, RowsTyped
<1>6. receipts' = [receipts EXCEPT ![t] = [receipts[t] EXCEPT ![requests[r].op] = new]]
  BY DEF WriteReceipt
<1> HIDE DEF t, new
<1> QED
  BY <1>2, <1>3, <1>4, <1>5, <1>6

\* What a batch writes is as the columns have it.
LEMMA CommitTyped ==
  ASSUME TypeOK, NEW r \in Requests, Asked(r), Commit(r)
  PROVE  RowsTyped'
<1> DEFINE kind == requests[r].kind
           s == requests[r].session
           proof == requests[r].subject
<1>1. receipts' \in [Tables -> [Operations -> Receipt \cup {None}]]
  BY ReceiptTyped DEF Commit
<1>2. r \in IdentityIds /\ r \in CodeSetIds /\ r \in SessionIds
  BY DEF IdentityIds, CodeSetIds, SessionIds
<1>3. kind \in Kinds
  BY DEF TypeOK, Request
<1>4. ASSUME NEW epoch \in Nat, NEW made \in {"rotation", "recovery"},
             NewCodes(r, made, epoch)
      PROVE  /\ codeSets' \in [CodeSetIds -> CodeSet]
             /\ \A n \in CodeSetIds : codeSets'[n].unused \cap codeSets'[n].used = {}
  BY <1>2, <1>4 DEF NewCodes, TypeOK, RowsTyped, CodeSet
<1>5. CASE kind = "enroll"
  <2>1. Enroll(r)
    BY <1>5 DEF Commit
  <2> QED
    BY <1>1, <1>2, <2>1 DEF Enroll, TypeOK, RowsTyped
<1>6. CASE kind = "verify"
  <2>1. Verify(r)
    BY <1>6 DEF Commit
  <2> QED
    BY <1>1, <1>6, <2>1 DEF Verify, TypeOK, RowsTyped, Asked, Subjects
<1>7. CASE kind = "generate"
  <2>1. Generate(r)
    BY <1>7 DEF Commit
  <2>2. sessions[s].epoch \in Nat
    BY <1>7 DEF Asked, TypeOK, RowsTyped, Session
  <2> QED
    BY <1>1, <1>4, <2>1, <2>2 DEF Generate, TypeOK, RowsTyped
<1>8. CASE kind = "complete"
  <2>1. Complete(r)
    BY <1>8 DEF Commit
  <2>2. proof.flow \in Flows /\ proof.set \in CodeSetIds /\ proof.number \in CodeNumbers
    BY <1>8 DEF Asked, Subjects
  <2>3. codeSets[proof.set] \in CodeSet
    BY <2>2 DEF TypeOK, RowsTyped
  <2>4. NewSession(TRUE, codeSets[proof.set].epoch) \in Session
    BY <2>3 DEF NewSession, Session, CodeSet
  <2>5. sessions' \in [SessionIds -> Session]
    BY <1>2, <2>1, <2>4 DEF Complete, TypeOK, RowsTyped
  <2>6. flows' \in [Flows -> {"none", "open", "spent"}]
    BY <2>1, <2>2 DEF Complete, TypeOK, RowsTyped
  <2>7. codeSets' = [codeSets EXCEPT ![proof.set] =
                       [codeSets[proof.set] EXCEPT
                          !.unused = codeSets[proof.set].unused \ {proof.number},
                          !.used = codeSets[proof.set].used \cup {proof.number}]]
    BY <2>1, <2>2 DEF Complete, TypeOK, RowsTyped
  <2>8. /\ codeSets' \in [CodeSetIds -> CodeSet]
        /\ \A n \in CodeSetIds : codeSets'[n].unused \cap codeSets'[n].used = {}
    BY <2>2, <2>3, <2>7 DEF TypeOK, RowsTyped, CodeSet
  <2> QED
    BY <1>1, <2>1, <2>5, <2>6, <2>8 DEF Complete, TypeOK, RowsTyped
<1>9. CASE kind = "finish"
  <2>1. Finish(r)
    BY <1>9 DEF Commit
  <2>2. proof.challenge \in Challenges /\ proof.passkey \in Passkeys /\ s \in SessionIds
    BY <1>9 DEF Asked, Subjects
  <2>3. challenges' = [challenges EXCEPT ![proof.challenge] =
                         [challenges[proof.challenge] EXCEPT !.state = "spent"]]
    BY <2>1 DEF Finish, Remediate, AddPasskey
  <2>4. challenges' \in [Challenges -> Challenge]
    <3>1. challenges \in [Challenges -> Challenge]
      BY DEF TypeOK, RowsTyped
    <3>2. [challenges[proof.challenge] EXCEPT !.state = "spent"] \in Challenge
      BY <2>2, <3>1 DEF Challenge
    <3> QED
      BY <2>2, <2>3, <3>1, <3>2
  <2>5. CASE sessions[s].restricted
    <3>1. Remediate(r)
      BY <2>1, <2>5 DEF Finish
    <3>2. recoveries + 1 \in Nat
      BY DEF TypeOK, RowsTyped
    <3>3. passkeys' \in [Passkeys -> Passkey]
      BY <3>1, <3>2 DEF Remediate, TypeOK, RowsTyped, Passkey
    <3>4. sessions' \in [SessionIds -> Session]
      BY <3>1, <3>2 DEF Remediate, NewSession, TypeOK, RowsTyped, Session
    <3> QED
      BY <1>1, <1>4, <2>4, <3>1, <3>2, <3>3, <3>4 DEF Remediate, TypeOK, RowsTyped
  <2>6. CASE ~sessions[s].restricted
    <3>1. AddPasskey(r)
      BY <2>1, <2>6 DEF Finish
    <3>2. sessions[s].epoch \in Nat
      BY <2>2 DEF TypeOK, RowsTyped, Session
    <3>3. passkeys' \in [Passkeys -> Passkey]
      BY <2>2, <3>1, <3>2 DEF AddPasskey, TypeOK, RowsTyped, Passkey
    <3> QED
      BY <1>1, <2>4, <3>1, <3>3 DEF AddPasskey, TypeOK, RowsTyped
  <2> QED
    BY <2>5, <2>6
<1>10. CASE kind = "revoke"
  <2>1. Revoke(r)
    BY <1>10 DEF Commit
  <2>2. proof \in Passkeys
    BY <1>10 DEF Asked, Subjects
  <2>3. passkeys' = [passkeys EXCEPT ![proof] = [passkeys[proof] EXCEPT !.state = "revoked"]]
    BY <2>1 DEF Revoke
  <2>4. passkeys' \in [Passkeys -> Passkey]
    BY <2>2, <2>3 DEF TypeOK, RowsTyped, Passkey
  <2> QED
    BY <1>1, <2>1, <2>4 DEF Revoke, TypeOK, RowsTyped
<1> QED
  BY <1>3, <1>5, <1>6, <1>7, <1>8, <1>9, <1>10 DEF Kinds

\* A step changes one request at most, and not its kind or its operation id.
LEMMA RequestStepTyped ==
  ASSUME TypeInv, NEW r \in Requests, RequestStep(r)
  PROVE  requests' \in [Requests -> Request] /\ AskedInv'
<1>1. requests \in [Requests -> Request] /\ requests[r] \in Request
  BY DEF TypeInv, TypeOK
<1>2. ASSUME NEW new \in Request, requests' = [requests EXCEPT ![r] = new],
             new.step \in {"prepare", "batch"} \/ new.lost = "landing" =>
               /\ new.subject \in Subjects(new.kind)
               /\ new.kind # "complete" => new.session \in SessionIds,
             new.step \in {"idle", "prepare", "batch"} => new.lost = "no"
      PROVE  requests' \in [Requests -> Request] /\ AskedInv'
  <2>1. requests' \in [Requests -> Request]
    BY <1>1, <1>2
  <2>2. ASSUME NEW q \in Requests
        PROVE  /\ requests'[q].step \in {"prepare", "batch"} \/ requests'[q].lost = "landing"
                    => Asked(q)'
               /\ requests'[q].step \in {"idle", "prepare", "batch"} => requests'[q].lost = "no"
    <3>1. CASE q = r
      BY <1>1, <1>2, <3>1 DEF Asked
    <3>2. CASE q # r
      <4>1. requests'[q] = requests[q]
        BY <1>1, <1>2, <3>2
      <4> QED
        BY <4>1 DEF TypeInv, AskedInv, Asked
    <3> QED
      BY <3>1, <3>2
  <2> QED
    BY <2>1, <2>2 DEF AskedInv
<1>3. ASSUME NEW s \in SessionIds \cup {None}, NEW subject \in Subjects(requests[r].kind),
             Begin(r, s, subject)
      PROVE  requests' \in [Requests -> Request] /\ AskedInv'
  <2> DEFINE available == OperationAvailable(r)
             new == [requests[r] EXCEPT
                       !.session = s, !.subject = subject,
                       !.step = IF available THEN "prepare" ELSE "answered",
                       !.answer = IF available THEN None ELSE Replay(r, subject)]
  <2>1. requests' = [requests EXCEPT ![r] = new]
    BY <1>3 DEF Begin
  <2>2. subject \in Subject
    BY <1>1 DEF Subject, Request
  <2>3. Replay(r, subject) \in Answers
    BY DEF Replay, Answers
  <2>4. None \in Answers
    BY DEF Answers
  <2>5. requests[r].kind # "complete" => s \in SessionIds
    <3>1. SUFFICES ASSUME requests[r].kind # "complete" PROVE s # None
      OBVIOUS
    <3>2. requests[r].kind \in Kinds /\ MayAsk(requests[r].kind, s, subject)
      BY <1>1, <1>3 DEF Begin, Request
    <3> QED
      BY <3>1, <3>2 DEF MayAsk, Kinds
  <2>6. requests[r].lost = "no"
    BY <1>3 DEF Begin, TypeInv, AskedInv
  <2>7. new \in Request
    BY <1>1, <2>2, <2>3, <2>4, Zenon, SMT DEF Request
  <2>8. new.subject = subject /\ new.session = s /\ new.kind = requests[r].kind /\ new.lost = "no"
    BY <1>1, <2>6 DEF Request
  <2> HIDE DEF new
  <2> QED
    BY <1>2, <2>1, <2>5, <2>7, <2>8
<1>6. ASSUME Refusal(r), requests[r].step \in {"prepare", "batch"}
      PROVE  requests' \in [Requests -> Request] /\ AskedInv'
  <2> DEFINE new == [requests[r] EXCEPT !.step = "answered", !.answer = "refused",
                       !.session = None, !.subject = None, !.seen = None]
  <2>1. requests' = [requests EXCEPT ![r] = new]
    BY <1>6 DEF Refusal
  <2>2. None \in Subject /\ "refused" \in Answers
    BY DEF Subject, Answers
  <2>3. new \in Request
    BY <1>1, <2>2 DEF Request
  <2>4. new.step = "answered" /\ new.lost = "no"
    BY <1>1, <1>6 DEF Request, TypeInv, AskedInv
  <2> HIDE DEF new
  <2> QED
    BY <1>2, <2>1, <2>3, <2>4
<1>7. ASSUME NEW step \in {"batch", "answered"}, requests[r].step \in {"prepare", "batch"},
             requests' = [requests EXCEPT ![r].step = step]
      PROVE  requests' \in [Requests -> Request] /\ AskedInv'
  <2> DEFINE new == [requests[r] EXCEPT !.step = step]
  <2>1. new \in Request
    BY <1>1 DEF Request
  <2>2. /\ new.step = step /\ new.lost = requests[r].lost
        /\ new.kind = requests[r].kind
        /\ new.subject = requests[r].subject
        /\ new.session = requests[r].session
    BY <1>1 DEF Request
  <2>3. Asked(r) /\ requests[r].lost = "no"
    BY <1>7 DEF TypeInv, AskedInv
  <2>4. requests' = [requests EXCEPT ![r] = new]
    BY <1>7
  <2> HIDE DEF new
  <2> QED
    BY <1>2, <2>1, <2>2, <2>3, <2>4 DEF Asked
<1>8. ASSUME NEW answer \in Answers, Answer(r, answer),
             requests[r].step \in {"prepare", "batch", "readback"}
      PROVE  requests' \in [Requests -> Request] /\ AskedInv'
  <2> DEFINE new == [requests[r] EXCEPT !.step = "answered", !.answer = answer]
  <2>1. new \in Request
    BY <1>1, <1>8 DEF Request
  <2>2. /\ new.step = "answered" /\ new.lost = requests[r].lost
        /\ new.kind = requests[r].kind
        /\ new.subject = requests[r].subject
        /\ new.session = requests[r].session
    BY <1>1 DEF Request
  <2>3. requests' = [requests EXCEPT ![r] = new]
    BY <1>8 DEF Answer
  <2>4. requests[r].lost = "landing" => Asked(r)
    BY DEF TypeInv, AskedInv
  <2> HIDE DEF new
  <2> QED
    BY <1>2, <2>1, <2>2, <2>3, <2>4 DEF Asked
<1>9. CASE \E s \in SessionIds \cup {None}, subject \in Subjects(requests[r].kind) :
             Begin(r, s, subject)
  BY <1>3, <1>9
<1>10. CASE Prepare(r)
  <2>1. requests[r].step = "prepare"
    BY <1>10 DEF Prepare
  <2>2. CASE requests[r].kind # "generate"
    BY <1>7, <1>10, <2>1, <2>2 DEF Prepare, Goto
  <2>3. CASE requests[r].kind = "generate" /\ Unreadable
    BY <1>8, <1>10, <2>1, <2>3 DEF Prepare, Answers
  <2>4. CASE requests[r].kind = "generate" /\ ~Unreadable
    <3>1. PICK seen \in CodeSetIds \cup {None} :
            requests' = [requests EXCEPT ![r].step = "batch", ![r].seen = seen]
      BY <1>10, <2>4 DEF Prepare
    <3> DEFINE new == [requests[r] EXCEPT !.step = "batch", !.seen = seen]
    <3>2. new \in Request
      BY <1>1 DEF Request
    <3>3. /\ new.step = "batch" /\ new.lost = requests[r].lost
          /\ new.kind = requests[r].kind
          /\ new.subject = requests[r].subject
          /\ new.session = requests[r].session
      BY <1>1 DEF Request
    <3>4. requests' = [requests EXCEPT ![r] = new]
      BY <3>1
    <3>5. Asked(r) /\ requests[r].lost = "no"
      BY <2>1 DEF TypeInv, AskedInv
    <3> HIDE DEF new
    <3> QED
      BY <1>2, <3>2, <3>3, <3>4, <3>5 DEF Asked
  <2> QED
    BY <2>2, <2>3, <2>4
<1>11. CASE Refuse(r)
  BY <1>6, <1>11 DEF Refuse
<1>12. CASE CommitAnswered(r)
  BY <1>8, <1>12 DEF CommitAnswered, Answers
<1>13. CASE NotAuthorized(r)
  <2>1. Replay(r, requests[r].subject) \in Answers
    BY DEF Replay, Answers
  <2> QED
    BY <1>6, <1>8, <1>13, <2>1 DEF NotAuthorized
<1>14. CASE LoseAnswer(r)
  <2> DEFINE new == [requests[r] EXCEPT !.step = "readback", !.lost = "landing"]
  <2>1. new \in Request
    BY <1>1 DEF Request
  <2>2. /\ new.step = "readback"
        /\ new.kind = requests[r].kind
        /\ new.subject = requests[r].subject
        /\ new.session = requests[r].session
    BY <1>1 DEF Request
  <2>3. requests' = [requests EXCEPT ![r] = new]
    BY <1>14 DEF LoseAnswer
  <2>4. Asked(r)
    BY <1>14 DEF LoseAnswer, TypeInv, AskedInv
  <2> HIDE DEF new
  <2> QED
    BY <1>2, <2>1, <2>2, <2>3, <2>4 DEF Asked
<1>15. CASE Land(r)
  <2> DEFINE new == [requests[r] EXCEPT !.lost = "landed"]
  <2>1. new \in Request
    BY <1>1 DEF Request
  <2>2. new.step = requests[r].step /\ new.lost = "landed"
    BY <1>1 DEF Request
  <2>3. requests' = [requests EXCEPT ![r] = new]
    BY <1>15 DEF Land
  <2>4. requests[r].step \notin {"idle", "prepare", "batch"}
    BY <1>15 DEF Land, TypeInv, AskedInv
  <2> HIDE DEF new
  <2> QED
    BY <1>2, <2>1, <2>2, <2>3, <2>4
<1>16. CASE ReadBack(r)
  <2>1. Replay(r, requests[r].subject) \in Answers /\ "unknown" \in Answers
    BY DEF Replay, Answers
  <2> QED
    BY <1>8, <1>16, <2>1 DEF ReadBack
<1> QED
  BY <1>9, <1>10, <1>11, <1>12, <1>13, <1>14, <1>15, <1>16 DEF RequestStep

\* Rows change by a batch, or by one of the other actions.
LEMMA RowsChange ==
  ASSUME NEW r \in Requests, RequestStep(r)
  PROVE  \/ UNCHANGED rows
         \/ /\ Authorized(r) /\ Commit(r)
            /\ requests[r].step = "batch" \/ requests[r].lost = "landing"
<1>1. CASE CommitAnswered(r) \/ Land(r)
  BY <1>1 DEF CommitAnswered, Land
<1>2. ASSUME NEW s \in SessionIds \cup {None}, NEW subject \in Subjects(requests[r].kind),
             Begin(r, s, subject)
      PROVE  UNCHANGED rows
  BY <1>2 DEF Begin
<1>3. CASE Prepare(r)
  BY <1>3, Zenon DEF Prepare
<1>4. CASE Refuse(r) \/ NotAuthorized(r)
  BY <1>4 DEF Refuse, NotAuthorized
<1>5. CASE LoseAnswer(r) \/ ReadBack(r)
  BY <1>5 DEF LoseAnswer, ReadBack
<1> QED
  BY <1>1, <1>2, <1>3, <1>4, <1>5 DEF RequestStep

\* The two steps of signing in change one session, which is not restricted by it.
SigningIn(s) == CompletePrimaryFactor(s) \/ \E p \in Passkeys : CheckPasskey(s, p)

LEMMA SigningInChanges ==
  ASSUME TypeOK, NEW s \in SignIns, SigningIn(s)
  PROVE  /\ UNCHANGED <<identities, passkeys, codeSets, flows, challenges, receipts,
                        recoveries, requests>>
         /\ s \in SessionIds
         /\ sessions' \in [SessionIds -> Session]
         /\ \A t \in SessionIds \ {s} : sessions'[t] = sessions[t]
         /\ sessions'[s].restricted = sessions[s].restricted
         /\ sessions[s].state \in {"none", "checked"}
         /\ sessions'[s].state \in {"checked", "active"}
<1>1. sessions \in [SessionIds -> Session] /\ s \in SessionIds /\ sessions[s] \in Session
  BY DEF TypeOK, RowsTyped, SessionIds
<1>2. ASSUME NEW new \in Session, sessions' = [sessions EXCEPT ![s] = new],
             new.restricted = sessions[s].restricted
      PROVE  /\ sessions' \in [SessionIds -> Session]
             /\ \A t \in SessionIds \ {s} : sessions'[t] = sessions[t]
             /\ sessions'[s] = new
  BY <1>1, <1>2
<1>3. CASE CompletePrimaryFactor(s)
  <2> DEFINE new == [sessions[s] EXCEPT !.state = "active",
                                        !.late = ~Active(sessions[s].passkey)]
  <2>1. sessions' = [sessions EXCEPT ![s] = new]
    BY <1>3 DEF CompletePrimaryFactor
  <2>2. Active(sessions[s].passkey) \in BOOLEAN
    BY DEF Active
  <2>3. new \in Session /\ new.restricted = sessions[s].restricted /\ new.state = "active"
    BY <1>1, <2>2 DEF Session
  <2> HIDE DEF new
  <2>4. sessions'[s] = new
    BY <1>1, <2>1
  <2>5. sessions' \in [SessionIds -> Session] /\ \A t \in SessionIds \ {s} : sessions'[t] = sessions[t]
    BY <1>2, <2>1, <2>3
  <2> QED
    BY <1>1, <1>3, <2>3, <2>4, <2>5 DEF CompletePrimaryFactor
<1>4. ASSUME NEW p \in Passkeys, CheckPasskey(s, p)
      PROVE  /\ UNCHANGED <<identities, passkeys, codeSets, flows, challenges, receipts,
                            recoveries, requests>>
             /\ sessions' \in [SessionIds -> Session]
             /\ \A t \in SessionIds \ {s} : sessions'[t] = sessions[t]
             /\ sessions'[s].restricted = sessions[s].restricted
             /\ sessions[s].state \in {"none", "checked"}
             /\ sessions'[s].state \in {"checked", "active"}
  <2> DEFINE new == [sessions[s] EXCEPT !.state = "checked", !.passkey = p,
                                        !.epoch = passkeys[p].epoch]
  <2>1. sessions' = [sessions EXCEPT ![s] = new]
    BY <1>4 DEF CheckPasskey
  <2>2. passkeys[p].epoch \in Nat
    BY DEF TypeOK, RowsTyped, Passkey
  <2>3. new \in Session /\ new.restricted = sessions[s].restricted /\ new.state = "checked"
    BY <1>1, <2>2 DEF Session
  <2> HIDE DEF new
  <2>4. sessions'[s] = new
    BY <1>1, <2>1
  <2>5. sessions' \in [SessionIds -> Session] /\ \A t \in SessionIds \ {s} : sessions'[t] = sessions[t]
    BY <1>2, <2>1, <2>3
  <2> QED
    BY <1>1, <1>4, <2>3, <2>4, <2>5 DEF CheckPasskey
<1> QED
  BY <1>1, <1>3, <1>4 DEF SigningIn

LEMMA TypeInit == Init => TypeInv
<1> SUFFICES ASSUME Init PROVE TypeInv
  OBVIOUS
<1>1. PICK established \in BOOLEAN, plan \in Plans : Init!(established, plan)
  BY DEF Init
<1>2. plan \in [Requests -> Kinds \X Operations]
  BY RecoveryAssumption
<1>3. RowsTyped
  BY <1>1 DEF RowsTyped, IdentityIds, CodeSetIds, Session, Passkey, CodeSet, Challenge
<1>4. ASSUME NEW r \in Requests
      PROVE  /\ requests[r] \in Request
             /\ requests[r].step = "idle" /\ requests[r].lost = "no"
  <2>1. requests[r] = [kind |-> plan[r][1], op |-> plan[r][2], session |-> None,
                       subject |-> None, seen |-> None, step |-> "idle", answer |-> None,
                       lost |-> "no"]
    BY <1>1
  <2>2. plan[r][1] \in Kinds /\ plan[r][2] \in Operations
    BY <1>2
  <2>3. None \in Subject /\ None \in Answers
    BY DEF Subject, Answers
  <2> QED
    BY <2>1, <2>2, <2>3 DEF Request
<1>5. requests \in [Requests -> Request]
  BY <1>1, <1>4
<1> QED
  BY <1>3, <1>4, <1>5 DEF TypeInv, TypeOK, AskedInv

LEMMA TypeStep == TypeInv /\ [Next]_vars => TypeInv'
<1> SUFFICES ASSUME TypeInv, [Next]_vars PROVE TypeInv'
  OBVIOUS
<1>1. ASSUME NEW r \in Requests, RequestStep(r) PROVE TypeInv'
  <2>1. requests' \in [Requests -> Request] /\ AskedInv'
    BY <1>1, RequestStepTyped
  <2>2. RowsTyped'
    <3>1. CASE UNCHANGED rows
      BY <3>1 DEF rows, TypeInv, TypeOK, RowsTyped
    <3>2. CASE Commit(r) /\ (requests[r].step = "batch" \/ requests[r].lost = "landing")
      BY <3>2, CommitTyped DEF TypeInv, AskedInv
    <3> QED
      BY <1>1, <3>1, <3>2, RowsChange
  <2> QED
    BY <2>1, <2>2 DEF TypeInv, TypeOK
<1>2. ASSUME UNCHANGED requests, RowsTyped' PROVE TypeInv'
  BY <1>2 DEF TypeInv, TypeOK, AskedInv, Asked
<1>3. ASSUME NEW f \in Flows, StartRecovery(f) PROVE TypeInv'
  BY <1>2, <1>3 DEF StartRecovery, TypeInv, TypeOK, RowsTyped
<1>4. ASSUME NEW c \in Challenges, NEW op \in Operations, NEW s \in SessionIds,
             StartEnrollment(c, op, s)
      PROVE  TypeInv'
  <2>1. [state |-> "open", op |-> op, session |-> s] \in Challenge
    BY <1>4 DEF Challenge
  <2> QED
    BY <1>2, <1>4, <2>1 DEF StartEnrollment, TypeInv, TypeOK, RowsTyped
<1>5. ASSUME NEW s \in SignIns, SigningIn(s) PROVE TypeInv'
  BY <1>2, <1>5, SigningInChanges DEF TypeInv, TypeOK, RowsTyped
<1>6. ASSUME NEW n \in IdentityIds, LapseIdentity(n) PROVE TypeInv'
  BY <1>2, <1>6 DEF LapseIdentity, TypeInv, TypeOK, RowsTyped
<1>7. CASE UNCHANGED vars
  BY <1>2, <1>7 DEF vars, TypeInv, TypeOK, RowsTyped
<1> QED
  BY <1>1, <1>3, <1>4, <1>5, <1>6, <1>7 DEF Next, SigningIn

\* The rows and the requests keep to their columns and steps (TypeOK).
THEOREM TypeCorrect == Spec => []TypeOK
<1>1. TypeInv => TypeOK
  BY DEF TypeInv
<1> QED
  BY <1>1, TypeInit, TypeStep, PTL DEF Spec

-----------------------------------------------------------------------------
(* What a user signs in with *)

\* The parts of Commit and of its condition, by kind.
LEMMA CommitOfKind ==
  ASSUME TypeOK, NEW r \in Requests, Authorized(r), Commit(r)
  PROVE  \/ requests[r].kind = "enroll" /\ EnrollAuthorized(r) /\ Enroll(r)
         \/ requests[r].kind = "verify" /\ VerifyAuthorized(r) /\ Verify(r)
         \/ requests[r].kind = "generate" /\ GenerateAuthorized(r) /\ Generate(r)
         \/ requests[r].kind = "complete" /\ CompleteAuthorized(r) /\ Complete(r)
         \/ /\ requests[r].kind = "finish" /\ FinishAuthorized(r)
            /\ Remediate(r) \/ AddPasskey(r)
         \/ requests[r].kind = "revoke" /\ RevokeAuthorized(r) /\ Revoke(r)
<1>1. requests[r].kind \in Kinds
  BY DEF TypeOK, Request
<1>2. Finish(r) => Remediate(r) \/ AddPasskey(r)
  BY DEF Finish
<1> QED
  BY <1>1, <1>2, Zenon DEF Kinds, Authorized, Commit

\* What a completed first half of a recovery does to the codes.
LEMMA CompleteCodes ==
  ASSUME TypeOK, NEW r \in Requests, Asked(r), requests[r].kind = "complete", Complete(r)
  PROVE  LET proof == requests[r].subject
         IN /\ proof.flow \in Flows /\ proof.set \in CodeSetIds
            /\ proof.number \in CodeNumbers
            /\ \A n \in CodeSetIds \ {proof.set} : codeSets'[n] = codeSets[n]
            /\ codeSets'[proof.set].made = codeSets[proof.set].made
            /\ codeSets'[proof.set].epoch = codeSets[proof.set].epoch
            /\ codeSets'[proof.set].unused = codeSets[proof.set].unused \ {proof.number}
            /\ codeSets'[proof.set].used = codeSets[proof.set].used \cup {proof.number}
<1> DEFINE proof == requests[r].subject
           new == [codeSets[proof.set] EXCEPT
                     !.unused = codeSets[proof.set].unused \ {proof.number},
                     !.used = codeSets[proof.set].used \cup {proof.number}]
<1>1. proof.flow \in Flows /\ proof.set \in CodeSetIds /\ proof.number \in CodeNumbers
  BY DEF Asked, Subjects
<1>2. codeSets \in [CodeSetIds -> CodeSet] /\ codeSets[proof.set] \in CodeSet
  BY <1>1 DEF TypeOK, RowsTyped
<1>3. codeSets' = [codeSets EXCEPT ![proof.set] = new]
  BY <1>1 DEF Complete, TypeOK, RowsTyped
<1>4. /\ new.made = codeSets[proof.set].made
      /\ new.epoch = codeSets[proof.set].epoch
      /\ new.unused = codeSets[proof.set].unused \ {proof.number}
      /\ new.used = codeSets[proof.set].used \cup {proof.number}
  BY <1>2 DEF CodeSet
<1> HIDE DEF new
<1> QED
  BY <1>1, <1>2, <1>3, <1>4

LEMMA PasskeyStep == TypeInv /\ PasskeyRemains /\ [Next]_vars => PasskeyRemains'
<1> SUFFICES ASSUME TypeInv, PasskeyRemains, [Next]_vars PROVE PasskeyRemains'
  OBVIOUS
<1>1. passkeys \in [Passkeys -> Passkey]
  BY DEF TypeInv, TypeOK, RowsTyped
<1>2. CASE UNCHANGED passkeys
  BY <1>2 DEF PasskeyRemains, Active
<1>3. ASSUME NEW r \in Requests, Authorized(r), Commit(r), Asked(r) PROVE PasskeyRemains'
  <2>1. CASE Remediate(r) /\ requests[r].kind = "finish"
    <3>1. requests[r].subject.passkey \in Passkeys
      BY <1>3, <2>1 DEF Asked, Subjects
    <3> QED
      BY <2>1, <3>1 DEF Remediate, PasskeyRemains, Active
  <2>2. CASE AddPasskey(r) /\ requests[r].kind = "finish"
    <3>1. requests[r].subject.passkey \in Passkeys
      BY <1>3, <2>2 DEF Asked, Subjects
    <3> QED
      BY <1>1, <2>2, <3>1 DEF AddPasskey, PasskeyRemains, Active
  <2>3. CASE RevokeAuthorized(r) /\ Revoke(r)
    <3>1. PICK q \in Passkeys \ {requests[r].subject} : Active(q)
      BY <2>3 DEF RevokeAuthorized
    <3>2. passkeys'[q] = passkeys[q]
      BY <1>1, <2>3, <3>1 DEF Revoke
    <3> QED
      BY <3>1, <3>2 DEF PasskeyRemains, Active
  <2>4. CASE Enroll(r) \/ Verify(r) \/ Generate(r) \/ Complete(r)
    BY <1>2, <2>4 DEF Enroll, Verify, Generate, Complete
  <2> QED
    BY <1>3, <2>1, <2>2, <2>3, <2>4, CommitOfKind DEF TypeInv
<1>4. ASSUME NEW r \in Requests, RequestStep(r) PROVE PasskeyRemains'
  BY <1>2, <1>3, <1>4, RowsChange DEF rows, TypeInv, AskedInv
<1>5. ASSUME NEW f \in Flows, StartRecovery(f) PROVE PasskeyRemains'
  BY <1>2, <1>5 DEF StartRecovery
<1>6. ASSUME NEW c \in Challenges, NEW op \in Operations, NEW s \in SessionIds,
             StartEnrollment(c, op, s)
      PROVE  PasskeyRemains'
  BY <1>2, <1>6 DEF StartEnrollment
<1>7. ASSUME NEW s \in SignIns, SigningIn(s) PROVE PasskeyRemains'
  BY <1>2, <1>7, SigningInChanges DEF TypeInv
<1>8. ASSUME NEW n \in IdentityIds, LapseIdentity(n) PROVE PasskeyRemains'
  BY <1>2, <1>8 DEF LapseIdentity
<1>9. CASE UNCHANGED vars
  BY <1>2, <1>9 DEF vars
<1> QED
  BY <1>4, <1>5, <1>6, <1>7, <1>8, <1>9 DEF Next, SigningIn

\* A user who has had a passkey keeps one, whatever was asked at once: the batch
\* of a revocation asks for another one itself.
THEOREM PasskeysRemain == Spec => []PasskeyRemains
<1>1. Init => PasskeyRemains
  BY RecoveryAssumption DEF Init, PasskeyRemains, Active
<1> QED
  BY <1>1, TypeInit, TypeStep, PasskeyStep, PTL DEF Spec

\* A sign-in whose passkey has been checked descends from what the passkey does.
CheckedInv ==
  \A s \in SignIns : sessions[s].state = "checked" =>
    /\ sessions[s].passkey \in Passkeys
    /\ passkeys[sessions[s].passkey].state # "none"
    /\ sessions[s].epoch = passkeys[sessions[s].passkey].epoch

RetiresInv == RecoveryRetiresTheRest /\ CheckedInv

\* What gives access goes on to do so while late sign-ins keep their sessions.
LEMMA CurrentKept ==
  ASSUME TypeOK, UNCHANGED recoveries,
         \A s \in SignIns : Live(s) => sessions'[s] = sessions[s]
  PROVE  \A epoch \in Nat : Current(epoch) => Current(epoch)'
BY DEF Current, OfLateSignIn, Live

\* Passkeys that there are keep to their recovery.
LEMMA CheckedKept ==
  ASSUME TypeOK, CheckedInv,
         \A s \in SignIns : sessions'[s].state = "checked" => sessions'[s] = sessions[s],
         \A p \in Passkeys : passkeys[p].state # "none" =>
           passkeys'[p].state # "none" /\ passkeys'[p].epoch = passkeys[p].epoch
  PROVE  CheckedInv'
BY DEF CheckedInv

\* A batch gives access only by what already gives it.
LEMMA CommitRetires ==
  ASSUME TypeOK, RetiresInv, NEW r \in Requests, Asked(r), Authorized(r), Commit(r)
  PROVE  RetiresInv'
<1> DEFINE s == requests[r].session
           proof == requests[r].subject
<1>1. /\ sessions \in [SessionIds -> Session]
      /\ passkeys \in [Passkeys -> Passkey]
      /\ codeSets \in [CodeSetIds -> CodeSet]
      /\ recoveries \in Nat
      /\ r \in CodeSetIds /\ r \in SessionIds /\ r \notin SignIns /\ SignIns \subseteq SessionIds
  BY RecoveryAssumption DEF TypeOK, RowsTyped, CodeSetIds, SessionIds
<1>2. /\ \A t \in SessionIds : sessions[t].state = "active" => Current(sessions[t].epoch)
      /\ \A p \in Passkeys : passkeys[p].state = "active" => Current(passkeys[p].epoch)
      /\ \A n \in CodeSetIds : codeSets[n].unused # {} => Current(codeSets[n].epoch)
      /\ CheckedInv
  BY DEF RetiresInv, RecoveryRetiresTheRest, Live, Active, ActiveSets
<1>3. SUFFICES
        /\ \A t \in SessionIds : sessions'[t].state = "active" => Current(sessions[t].epoch)'
        /\ \A p \in Passkeys : passkeys'[p].state = "active" => Current(passkeys[p].epoch)'
        /\ \A n \in CodeSetIds : codeSets'[n].unused # {} => Current(codeSets[n].epoch)'
        /\ CheckedInv'
  BY DEF RetiresInv, RecoveryRetiresTheRest, Live, Active, ActiveSets
<1>4. ASSUME NEW made, NEW epoch, NewCodes(r, made, epoch)
      PROVE  \A n \in CodeSetIds : codeSets'[n].unused # {} => codeSets'[n].epoch = epoch
  BY <1>1, <1>4 DEF NewCodes, CodeSet
<1>5. CASE Enroll(r) \/ Verify(r)
  <2>1. UNCHANGED <<sessions, passkeys, codeSets, recoveries>>
    BY <1>5 DEF Enroll, Verify
  <2> QED
    BY <1>2, <2>1 DEF Current, OfLateSignIn, Live, CheckedInv
<1>6. CASE requests[r].kind = "generate" /\ GenerateAuthorized(r) /\ Generate(r)
  <2>1. UNCHANGED <<sessions, passkeys, recoveries>>
    BY <1>6 DEF Generate
  <2>2. \A epoch : Current(epoch)' <=> Current(epoch)
    BY <2>1 DEF Current, OfLateSignIn, Live
  <2>3. Current(sessions[s].epoch)
    BY <1>2, <1>6 DEF GenerateAuthorized, Unrestricted, Live, Asked
  <2>4. \A n \in CodeSetIds : codeSets'[n].unused # {} => codeSets'[n].epoch = sessions[s].epoch
    BY <1>4, <1>6 DEF Generate
  <2>5. CheckedInv'
    BY <1>2, <2>1 DEF CheckedInv
  <2> QED
    BY <1>2, <2>1, <2>2, <2>3, <2>4, <2>5
<1>7. CASE requests[r].kind = "complete" /\ CompleteAuthorized(r) /\ Complete(r)
  <2>1. proof.set \in CodeSetIds /\ proof.number \in codeSets[proof.set].unused
    BY <1>7 DEF CompleteAuthorized, Asked, Subjects
  <2>2. Current(codeSets[proof.set].epoch)
    BY <1>2, <2>1
  <2>3. UNCHANGED <<passkeys, recoveries>>
        /\ sessions' = [sessions EXCEPT ![r] = NewSession(TRUE, codeSets[proof.set].epoch)]
    BY <1>7 DEF Complete
  <2>4. \A t \in SignIns : sessions'[t] = sessions[t]
    BY <1>1, <2>3
  <2>5. \A epoch : Current(epoch)' <=> Current(epoch)
    BY <2>3, <2>4 DEF Current, OfLateSignIn, Live
  <2>6. ASSUME NEW n \in CodeSetIds, codeSets'[n].unused # {}
        PROVE  Current(codeSets'[n].epoch)
    <3>1. CASE n = proof.set
      BY <1>7, <2>2, <3>1, CompleteCodes
    <3>2. CASE n # proof.set
      <4>1. codeSets'[n] = codeSets[n]
        BY <1>7, <3>2, CompleteCodes
      <4> QED
        BY <1>2, <2>6, <4>1
    <3> QED
      BY <3>1, <3>2
  <2>7. ASSUME NEW t \in SessionIds, sessions'[t].state = "active"
        PROVE  Current(sessions'[t].epoch)
    <3>1. CASE t = r
      BY <1>1, <2>2, <2>3, <3>1 DEF NewSession
    <3>2. CASE t # r
      <4>1. sessions'[t] = sessions[t]
        BY <1>1, <2>3, <3>2
      <4> QED
        BY <1>2, <2>7, <4>1
    <3> QED
      BY <3>1, <3>2
  <2>8. CheckedInv'
    BY <1>2, <2>3, <2>4 DEF CheckedInv
  <2> QED
    BY <1>2, <2>3, <2>5, <2>6, <2>7, <2>8
<1>8. CASE requests[r].kind = "finish" /\ FinishAuthorized(r) /\ Remediate(r)
  <2> DEFINE epoch == recoveries + 1
  <2>1. recoveries' = epoch /\ NewCodes(r, "recovery", epoch)
    BY <1>8 DEF Remediate
  <2>2. ASSUME NEW t \in SessionIds, sessions'[t].state = "active" PROVE sessions'[t].epoch = epoch
    BY <1>1, <1>8, <2>2 DEF Remediate, NewSession, Live, Session
  <2>3. ASSUME NEW p \in Passkeys, passkeys'[p].state = "active" PROVE passkeys'[p].epoch = epoch
    BY <1>1, <1>8, <2>3 DEF Remediate, Active, Passkey
  <2>4. \A t \in SignIns : sessions'[t].state = "checked" => sessions'[t] = sessions[t]
    BY <1>1, <1>8 DEF Remediate, Live, Session
  <2>5. \A p \in Passkeys : passkeys[p].state # "none" =>
          passkeys'[p].state # "none" /\ passkeys'[p].epoch = passkeys[p].epoch
    <3>1. passkeys[proof.passkey].state = "none"
      BY <1>8 DEF FinishAuthorized
    <3> QED
      BY <1>1, <1>8, <3>1 DEF Remediate, Active, Passkey
  <2>6. CheckedInv'
    BY <1>2, <2>4, <2>5, CheckedKept
  <2> HIDE DEF epoch
  <2> QED
    BY <1>4, <2>1, <2>2, <2>3, <2>6 DEF Current
<1>9. CASE requests[r].kind = "finish" /\ FinishAuthorized(r) /\ AddPasskey(r)
  <2>1. s \in SessionIds /\ proof.passkey \in Passkeys
    BY <1>9 DEF Asked, Subjects
  <2>2. Current(sessions[s].epoch)
    BY <1>2, <1>9, <2>1 DEF FinishAuthorized, Live
  <2>3. UNCHANGED <<sessions, codeSets, recoveries>>
    BY <1>9 DEF AddPasskey
  <2>4. \A epoch : Current(epoch)' <=> Current(epoch)
    BY <2>3 DEF Current, OfLateSignIn, Live
  <2>5. \A p \in Passkeys :
          passkeys'[p] = IF p = proof.passkey
                         THEN [state |-> "active", epoch |-> sessions[s].epoch]
                         ELSE passkeys[p]
    BY <1>1, <1>9 DEF AddPasskey
  <2>6. \A p \in Passkeys : passkeys'[p].state = "active" => Current(passkeys'[p].epoch)
    BY <1>2, <2>2, <2>5
  <2>7. passkeys[proof.passkey].state = "none"
    BY <1>9 DEF FinishAuthorized
  <2>8. CheckedInv'
    BY <1>2, <2>3, <2>5, <2>7, CheckedKept
  <2> QED
    BY <1>2, <2>3, <2>4, <2>6, <2>8
<1>10. CASE requests[r].kind = "revoke" /\ Revoke(r)
  <2>1. UNCHANGED <<sessions, codeSets, recoveries>>
    BY <1>10 DEF Revoke
  <2>2. \A epoch : Current(epoch)' <=> Current(epoch)
    BY <2>1 DEF Current, OfLateSignIn, Live
  <2>3. \A p \in Passkeys :
          /\ passkeys'[p].epoch = passkeys[p].epoch
          /\ passkeys'[p].state = "active" => passkeys[p].state = "active"
          /\ passkeys[p].state # "none" => passkeys'[p].state # "none"
    BY <1>1, <1>10 DEF Revoke, Passkey
  <2>4. CheckedInv'
    BY <1>2, <2>1, <2>3, CheckedKept
  <2> QED
    BY <1>2, <2>1, <2>2, <2>3, <2>4
<1> QED
  BY <1>5, <1>6, <1>7, <1>8, <1>9, <1>10, CommitOfKind

\* Signing in: a session descends from its passkey, or its passkey was revoked
\* after it was checked.
LEMMA SignInRetires ==
  ASSUME TypeOK, RetiresInv, NEW s \in SignIns, SigningIn(s)
  PROVE  RetiresInv'
<1>1. /\ UNCHANGED <<passkeys, codeSets, recoveries>>
      /\ s \in SessionIds
      /\ \A t \in SessionIds \ {s} : sessions'[t] = sessions[t]
      /\ sessions[s].state # "active"
      /\ SignIns \subseteq SessionIds
      /\ sessions \in [SessionIds -> Session] /\ sessions' \in [SessionIds -> Session]
  BY SigningInChanges DEF SessionIds, TypeOK, RowsTyped
<1>2. \A epoch \in Nat : Current(epoch) => Current(epoch)'
  <2>1. \A t \in SignIns : Live(t) => sessions'[t] = sessions[t]
    BY <1>1 DEF Live
  <2> QED
    BY <1>1, <2>1, CurrentKept
<1>3. /\ \A t \in SessionIds : sessions[t].epoch \in Nat
      /\ \A p \in Passkeys : passkeys[p].epoch \in Nat
      /\ \A n \in CodeSetIds : codeSets[n].epoch \in Nat
  BY DEF TypeOK, RowsTyped, Session, Passkey, CodeSet
<1>4. /\ \A p \in Passkeys : Active(p)' => Current(passkeys[p].epoch)'
      /\ \A n \in ActiveSets' : Current(codeSets[n].epoch)'
      /\ \A t \in SessionIds \ {s} : Live(t)' => Current(sessions[t].epoch)'
  <2>1. ASSUME NEW p \in Passkeys, Active(p)' PROVE Current(passkeys[p].epoch)'
    <3>1. Current(passkeys[p].epoch)
      BY <1>1, <2>1 DEF RetiresInv, RecoveryRetiresTheRest, Active
    <3> QED
      BY <1>1, <1>2, <1>3, <3>1 DEF Current, OfLateSignIn
  <2>2. ASSUME NEW n \in ActiveSets' PROVE Current(codeSets[n].epoch)'
    <3>1. n \in ActiveSets /\ Current(codeSets[n].epoch)
      BY <1>1, <2>2 DEF RetiresInv, RecoveryRetiresTheRest, ActiveSets
    <3> QED
      BY <1>1, <1>2, <1>3, <3>1 DEF Current, OfLateSignIn, ActiveSets
  <2>3. ASSUME NEW t \in SessionIds \ {s}, Live(t)' PROVE Current(sessions[t].epoch)'
    <3>1. Current(sessions[t].epoch) /\ sessions'[t] = sessions[t]
      BY <1>1, <2>3 DEF RetiresInv, RecoveryRetiresTheRest, Live
    <3> QED
      BY <1>1, <1>2, <1>3, <3>1 DEF Current, OfLateSignIn
  <2> QED
    BY <2>1, <2>2, <2>3
<1>5. CASE CompletePrimaryFactor(s)
  <2> DEFINE p == sessions[s].passkey
  <2>1. /\ sessions[s].state = "checked"
        /\ sessions' = [sessions EXCEPT ![s] =
                          [sessions[s] EXCEPT !.state = "active", !.late = ~Active(p)]]
    BY <1>5 DEF CompletePrimaryFactor
  <2>2. /\ sessions'[s].state = "active" /\ sessions'[s].epoch = sessions[s].epoch
        /\ sessions'[s].late <=> ~Active(p)
    <3>1. sessions'[s] = [sessions[s] EXCEPT !.state = "active", !.late = ~Active(p)]
      BY <1>1, <2>1
    <3>2. sessions[s] \in Session
      BY <1>1
    <3> QED
      BY <3>1, <3>2 DEF Session
  <2>3. p \in Passkeys /\ sessions[s].epoch = passkeys[p].epoch
    BY <2>1 DEF RetiresInv, CheckedInv
  <2> HIDE DEF p
  <2>4. Current(sessions[s].epoch)'
    <3>1. CASE Active(p)
      <4>1. Current(sessions[s].epoch)
        BY <2>3, <3>1 DEF RetiresInv, RecoveryRetiresTheRest
      <4>2. recoveries' = recoveries /\ sessions'[s].epoch = sessions[s].epoch
        BY <1>1, <2>2
      <4>3. CASE sessions[s].epoch = recoveries
        BY <4>2, <4>3 DEF Current
      <4>4. CASE OfLateSignIn(sessions[s].epoch)
        <5>1. PICK t \in SignIns : Live(t) /\ sessions[t].late /\ sessions[t].epoch = sessions[s].epoch
          BY <4>4 DEF OfLateSignIn
        <5>2. sessions'[t] = sessions[t]
          BY <1>1, <5>1 DEF Live
        <5> QED
          BY <4>2, <5>1, <5>2 DEF Current, OfLateSignIn, Live
      <4> QED
        BY <4>1, <4>3, <4>4 DEF Current
    <3>2. CASE ~Active(p)
      BY <2>2, <3>2 DEF Current, OfLateSignIn, Live
    <3> QED
      BY <3>1, <3>2
  <2>5. CheckedInv'
    BY <1>1, <2>2 DEF CheckedInv, RetiresInv
  <2> QED
    BY <1>4, <2>4, <2>5 DEF RetiresInv, RecoveryRetiresTheRest
<1>6. ASSUME NEW p \in Passkeys, CheckPasskey(s, p) PROVE RetiresInv'
  <2>1. sessions' = [sessions EXCEPT ![s] =
                       [sessions[s] EXCEPT !.state = "checked", !.passkey = p,
                                           !.epoch = passkeys[p].epoch]]
        /\ Active(p)
    BY <1>6 DEF CheckPasskey
  <2>2. sessions'[s].state = "checked" /\ sessions'[s].passkey = p
        /\ sessions'[s].epoch = passkeys[p].epoch
    <3>1. sessions'[s] = [sessions[s] EXCEPT !.state = "checked", !.passkey = p,
                                             !.epoch = passkeys[p].epoch]
      BY <1>1, <2>1
    <3>2. sessions[s] \in Session
      BY <1>1
    <3> QED
      BY <3>1, <3>2 DEF Session
  <2>3. CheckedInv'
    BY <1>1, <2>1, <2>2 DEF CheckedInv, RetiresInv, Active
  <2>4. ~Live(s)'
    BY <2>2 DEF Live
  <2> QED
    BY <1>4, <2>3, <2>4 DEF RetiresInv, RecoveryRetiresTheRest
<1> QED
  BY <1>5, <1>6 DEF SigningIn

LEMMA RetiresStep == TypeInv /\ RetiresInv /\ [Next]_vars => RetiresInv'
<1> SUFFICES ASSUME TypeInv, RetiresInv, [Next]_vars PROVE RetiresInv'
  OBVIOUS
<1>1. CASE UNCHANGED <<sessions, passkeys, codeSets, recoveries>>
  BY <1>1 DEF RetiresInv, RecoveryRetiresTheRest, CheckedInv, Current, OfLateSignIn,
              Live, Active, ActiveSets
<1>2. ASSUME NEW r \in Requests, RequestStep(r) PROVE RetiresInv'
  BY <1>1, <1>2, CommitRetires, RowsChange DEF rows, TypeInv, AskedInv
<1>3. ASSUME NEW f \in Flows, StartRecovery(f) PROVE RetiresInv'
  BY <1>1, <1>3 DEF StartRecovery
<1>4. ASSUME NEW c \in Challenges, NEW op \in Operations, NEW s \in SessionIds,
             StartEnrollment(c, op, s)
      PROVE  RetiresInv'
  BY <1>1, <1>4 DEF StartEnrollment
<1>5. ASSUME NEW s \in SignIns, SigningIn(s) PROVE RetiresInv'
  BY <1>5, SignInRetires DEF TypeInv
<1>6. ASSUME NEW n \in IdentityIds, LapseIdentity(n) PROVE RetiresInv'
  BY <1>1, <1>6 DEF LapseIdentity
<1>7. CASE UNCHANGED vars
  BY <1>1, <1>7 DEF vars
<1> QED
  BY <1>2, <1>3, <1>4, <1>5, <1>6, <1>7 DEF Next, SigningIn

\* What gives access after a completed recovery is of that recovery, or of a sign-in
\* whose passkey had been checked before it and whose session came after.
THEOREM TheRestIsRetired == Spec => []RecoveryRetiresTheRest
<1>1. Init => RetiresInv
  <2> SUFFICES ASSUME Init PROVE RetiresInv
    OBVIOUS
  <2>1. /\ \A s \in SessionIds : sessions[s].epoch = 0 /\ sessions[s].state # "checked"
        /\ \A p \in Passkeys : passkeys[p].epoch = 0
        /\ \A n \in CodeSetIds : codeSets[n].epoch = 0
        /\ recoveries = 0
    BY DEF Init
  <2> QED
    BY <2>1 DEF RetiresInv, RecoveryRetiresTheRest, CheckedInv, Current, ActiveSets, SessionIds
<1>2. RetiresInv => RecoveryRetiresTheRest
  BY DEF RetiresInv
<1> QED
  BY <1>1, <1>2, TypeInit, TypeStep, RetiresStep, PTL DEF Spec

-----------------------------------------------------------------------------
(* Recovery identities *)

LEMMA IdentityStep == TypeInv /\ OneLiveIdentity /\ [Next]_vars => OneLiveIdentity'
<1> SUFFICES ASSUME TypeInv, OneLiveIdentity, [Next]_vars PROVE OneLiveIdentity'
  OBVIOUS
<1>1. /\ identities \in [IdentityIds -> {"none", "pending", "lapsed", "verified"}]
      /\ Requests \subseteq IdentityIds
  BY DEF TypeInv, TypeOK, RowsTyped, IdentityIds
<1>2. CASE UNCHANGED identities
  BY <1>2 DEF OneLiveIdentity
<1>3. ASSUME NEW n \in IdentityIds, NEW status, CandidateAvailable(n),
             identities' = [identities EXCEPT ![n] = status]
      PROVE  OneLiveIdentity'
  BY <1>1, <1>3 DEF CandidateAvailable, OneLiveIdentity
<1>4. ASSUME NEW r \in Requests, Authorized(r), Commit(r), Asked(r) PROVE OneLiveIdentity'
  <2>1. CASE EnrollAuthorized(r) /\ Enroll(r)
    BY <1>1, <1>3, <2>1 DEF EnrollAuthorized, Enroll
  <2>2. CASE requests[r].kind = "verify" /\ VerifyAuthorized(r) /\ Verify(r)
    <3>1. requests[r].subject \in IdentityIds
      BY <1>4, <2>2 DEF Asked, Subjects
    <3> QED
      BY <1>3, <2>2, <3>1 DEF VerifyAuthorized, Verify
  <2>3. CASE Generate(r) \/ Complete(r)
    BY <1>2, <2>3, Zenon DEF Generate, Complete
  <2>4. CASE Remediate(r) \/ AddPasskey(r) \/ Revoke(r)
    BY <1>2, <2>4, Zenon DEF Remediate, AddPasskey, Revoke
  <2> QED
    BY <1>4, <2>1, <2>2, <2>3, <2>4, CommitOfKind DEF TypeInv
<1>5. ASSUME NEW r \in Requests, RequestStep(r) PROVE OneLiveIdentity'
  BY <1>2, <1>4, <1>5, RowsChange DEF rows, TypeInv, AskedInv
<1>6. ASSUME NEW n \in IdentityIds, LapseIdentity(n) PROVE OneLiveIdentity'
  BY <1>1, <1>6 DEF LapseIdentity, OneLiveIdentity
<1>7. CASE \/ \E f \in Flows : StartRecovery(f)
           \/ \E c \in Challenges, op \in Operations, s \in SessionIds : StartEnrollment(c, op, s)
           \/ \E s \in SignIns, p \in Passkeys : CheckPasskey(s, p)
           \/ \E s \in SignIns : CompletePrimaryFactor(s)
           \/ UNCHANGED vars
  BY <1>2, <1>7 DEF StartRecovery, StartEnrollment, CheckPasskey, CompletePrimaryFactor, vars
<1> QED
  BY <1>5, <1>6, <1>7 DEF Next

\* A user has at most one recovery identity that waits or is verified.
THEOREM IdentityIsOne == Spec => []OneLiveIdentity
<1>1. Init => OneLiveIdentity
  BY DEF Init, OneLiveIdentity
<1> QED
  BY <1>1, TypeInit, TypeStep, IdentityStep, PTL DEF Spec

-----------------------------------------------------------------------------
(* One effect per operation id *)

\* A request whose batch may still be applied has made no rows.
Open(r) == requests[r].step \in {"idle", "prepare", "batch"} \/ requests[r].lost = "landing"

MadeBy(r) ==
  identities[r] # "none" \/ codeSets[r].made # "none" \/ sessions[r].state # "none"

FreshInv == \A r \in Requests : Open(r) => ~MadeBy(r)

LEMMA RequestFrame ==
  ASSUME TypeInv, NEW r \in Requests, RequestStep(r)
  PROVE  /\ \A q \in Requests : /\ requests'[q].kind = requests[q].kind
                                /\ requests'[q].op = requests[q].op
         /\ \A q \in Requests \ {r} : requests'[q] = requests[q]
         /\ Open(r)' => Open(r) /\ UNCHANGED rows
<1>1. requests \in [Requests -> Request] /\ requests[r] \in Request
  BY DEF TypeInv, TypeOK
<1>2. requests[r].step \in {"idle", "prepare", "batch"} => requests[r].lost = "no"
  BY DEF TypeInv, AskedInv
<1>3. ASSUME NEW s \in SessionIds \cup {None}, NEW subject \in Subjects(requests[r].kind),
             Begin(r, s, subject)
      PROVE  /\ \A q \in Requests : /\ requests'[q].kind = requests[q].kind
                                    /\ requests'[q].op = requests[q].op
             /\ \A q \in Requests \ {r} : requests'[q] = requests[q]
             /\ Open(r) /\ UNCHANGED rows
  BY <1>1, <1>3 DEF Begin, Open, Request
<1>4. CASE Prepare(r)
  <2>1. Open(r) /\ UNCHANGED rows
    BY <1>4, Zenon DEF Prepare, Open
  <2>2. CASE requests[r].kind # "generate"
    BY <1>1, <1>4, <2>1, <2>2 DEF Prepare, Goto, Request
  <2>3. CASE requests[r].kind = "generate" /\ Unreadable
    BY <1>1, <1>4, <2>1, <2>3 DEF Prepare, Answer, Request
  <2>4. CASE requests[r].kind = "generate" /\ ~Unreadable
    <3>1. PICK seen \in CodeSetIds \cup {None} :
            requests' = [requests EXCEPT ![r].step = "batch", ![r].seen = seen]
      BY <1>4, <2>4 DEF Prepare
    <3> QED
      BY <1>1, <2>1, <3>1 DEF Request
  <2> QED
    BY <2>2, <2>3, <2>4
<1>5. CASE Refuse(r)
  BY <1>1, <1>2, <1>5 DEF Refuse, Refusal, Open, Request
<1>6. CASE CommitAnswered(r)
  BY <1>1, <1>2, <1>6 DEF CommitAnswered, Answer, Open, Request
<1>7. CASE NotAuthorized(r)
  <2>1. requests[r].step = "batch" /\ UNCHANGED rows
    BY <1>7 DEF NotAuthorized
  <2>2. CASE Refusal(r)
    BY <1>1, <1>2, <2>1, <2>2 DEF Refusal, Open, Request
  <2>3. CASE Answer(r, Replay(r, requests[r].subject))
    BY <1>1, <1>2, <2>1, <2>3 DEF Answer, Open, Request
  <2> QED
    BY <1>7, <2>2, <2>3 DEF NotAuthorized
<1>8. CASE LoseAnswer(r)
  BY <1>1, <1>8 DEF LoseAnswer, Open, Request
<1>9. CASE Land(r)
  BY <1>1, <1>2, <1>9 DEF Land, Open, Request
<1>10. CASE ReadBack(r)
  BY <1>1, <1>10 DEF ReadBack, Answer, Open, Request
<1> QED
  BY <1>3, <1>4, <1>5, <1>6, <1>7, <1>8, <1>9, <1>10 DEF RequestStep

\* A batch makes rows under its request's name only.
LEMMA CommitFrame ==
  ASSUME TypeOK, NEW r \in Requests, Asked(r), Authorized(r), Commit(r),
         NEW q \in Requests, q # r
  PROVE  MadeBy(q)' => MadeBy(q)
<1>1. /\ identities \in [IdentityIds -> {"none", "pending", "lapsed", "verified"}]
      /\ sessions \in [SessionIds -> Session]
      /\ codeSets \in [CodeSetIds -> CodeSet]
      /\ q \in IdentityIds /\ q \in CodeSetIds /\ q \in SessionIds
  BY DEF TypeOK, RowsTyped, IdentityIds, CodeSetIds, SessionIds
<1>2. ASSUME NEW made, NEW epoch, NewCodes(r, made, epoch)
      PROVE  codeSets'[q].made = codeSets[q].made
  BY <1>1, <1>2 DEF NewCodes, CodeSet
<1>3. CASE Enroll(r)
  BY <1>1, <1>3 DEF Enroll, MadeBy
<1>4. CASE VerifyAuthorized(r) /\ Verify(r)
  <2>1. identities[q] = "none" => identities'[q] = "none"
    BY <1>1, <1>4 DEF VerifyAuthorized, Verify
  <2> QED
    BY <1>4, <2>1 DEF Verify, MadeBy
<1>5. CASE Generate(r)
  BY <1>2, <1>5 DEF Generate, MadeBy
<1>6. CASE requests[r].kind = "complete" /\ Complete(r)
  <2>1. codeSets'[q].made = codeSets[q].made
    BY <1>1, <1>6, CompleteCodes
  <2>2. sessions'[q] = sessions[q] /\ identities' = identities
    BY <1>1, <1>6 DEF Complete
  <2> QED
    BY <2>1, <2>2 DEF MadeBy
<1>7. CASE Remediate(r)
  <2>1. codeSets'[q].made = codeSets[q].made /\ identities' = identities
    BY <1>2, <1>7 DEF Remediate
  <2>2. sessions[q].state = "none" => sessions'[q].state = "none"
    BY <1>1, <1>7 DEF Remediate, Live
  <2> QED
    BY <2>1, <2>2 DEF MadeBy
<1>8. CASE AddPasskey(r) \/ Revoke(r)
  BY <1>8 DEF AddPasskey, Revoke, MadeBy
<1> QED
  BY <1>3, <1>4, <1>5, <1>6, <1>7, <1>8, CommitOfKind

\* The other actions make no rows under a request's name.
LEMMA OthersFrame ==
  ASSUME TypeOK,
         \/ \E f \in Flows : StartRecovery(f)
         \/ \E c \in Challenges, op \in Operations, s \in SessionIds : StartEnrollment(c, op, s)
         \/ \E s \in SignIns, p \in Passkeys : CheckPasskey(s, p)
         \/ \E s \in SignIns : CompletePrimaryFactor(s)
         \/ \E n \in IdentityIds : LapseIdentity(n)
         \/ UNCHANGED vars
  PROVE  /\ UNCHANGED <<requests, receipts>>
         /\ \A q \in Requests : MadeBy(q)' => MadeBy(q)
<1>1. CASE \/ \E f \in Flows : StartRecovery(f)
           \/ \E c \in Challenges, op \in Operations, s \in SessionIds : StartEnrollment(c, op, s)
           \/ UNCHANGED vars
  BY <1>1 DEF StartRecovery, StartEnrollment, vars, MadeBy
<1>2. ASSUME NEW s \in SignIns, SigningIn(s)
      PROVE  /\ UNCHANGED <<requests, receipts>>
             /\ \A q \in Requests : MadeBy(q)' => MadeBy(q)
  <2>1. \A q \in Requests : sessions'[q] = sessions[q]
    BY <1>2, RecoveryAssumption, SigningInChanges DEF SessionIds
  <2> QED
    BY <1>2, <2>1, SigningInChanges DEF MadeBy
<1>3. ASSUME NEW n \in IdentityIds, LapseIdentity(n)
      PROVE  /\ UNCHANGED <<requests, receipts>>
             /\ \A q \in Requests : MadeBy(q)' => MadeBy(q)
  BY <1>3 DEF LapseIdentity, MadeBy, TypeOK, RowsTyped, IdentityIds
<1> QED
  BY <1>1, <1>2, <1>3 DEF SigningIn

LEMMA FreshStep == TypeInv /\ FreshInv /\ [Next]_vars => FreshInv'
<1> SUFFICES ASSUME TypeInv, FreshInv, [Next]_vars, NEW q \in Requests, Open(q)'
             PROVE  ~MadeBy(q)'
  BY DEF FreshInv
<1>1. ASSUME NEW r \in Requests, RequestStep(r) PROVE ~MadeBy(q)'
  <2>1. CASE q = r
    BY <1>1, <2>1, RequestFrame DEF FreshInv, rows, MadeBy
  <2>2. CASE q # r
    <3>1. Open(q)
      BY <1>1, <2>2, RequestFrame DEF Open
    <3>2. CASE UNCHANGED rows
      BY <3>1, <3>2 DEF FreshInv, rows, MadeBy
    <3> QED
      BY <1>1, <2>2, <3>1, <3>2, RowsChange, CommitFrame DEF TypeInv, AskedInv, FreshInv
  <2> QED
    BY <2>1, <2>2
<1>2. CASE UNCHANGED requests /\ (MadeBy(q)' => MadeBy(q))
  BY <1>2 DEF Open, FreshInv
<1> QED
  BY <1>1, <1>2, OthersFrame DEF Next, TypeInv

LEMMA FreshInit == Init => FreshInv
BY RecoveryAssumption DEF Init, FreshInv, MadeBy, IdentityIds, CodeSetIds, SessionIds

\* The receipt a batch writes, and those it leaves.
LEMMA ReceiptFrame ==
  ASSUME TypeOK, NEW r \in Requests, Authorized(r), Commit(r)
  PROVE  /\ OperationAvailable(r)
         /\ \A t \in Tables, op \in Operations :
              receipts'[t][op] =
                IF t = Table(requests[r].kind) /\ op = requests[r].op
                THEN [kind |-> requests[r].kind, by |-> r, subject |-> requests[r].subject,
                      seen |-> requests[r].seen]
                ELSE receipts[t][op]
         /\ Table(requests[r].kind) \in Tables /\ requests[r].op \in Operations
<1>1. requests[r] \in Request
  BY DEF TypeOK
<1>2. Table(requests[r].kind) \in Tables /\ requests[r].op \in Operations
  BY <1>1, TablesOfKinds DEF Request
<1>3. receipts \in [Tables -> [Operations -> Receipt \cup {None}]]
  BY DEF TypeOK, RowsTyped
<1>4. WriteReceipt(r)
  BY DEF Commit
<1>5. OperationAvailable(r)
  BY CommitOfKind DEF EnrollAuthorized, VerifyAuthorized, GenerateAuthorized,
       CompleteAuthorized, FinishAuthorized, RevokeAuthorized
<1> QED
  BY <1>2, <1>3, <1>4, <1>5 DEF WriteReceipt

LEMMA EffectStep ==
  TypeInv /\ FreshInv /\ OneEffectPerOperation /\ [Next]_vars => OneEffectPerOperation'
<1> SUFFICES ASSUME TypeInv, FreshInv, OneEffectPerOperation, [Next]_vars,
                    NEW q \in Requests, MadeBy(q)'
             PROVE  Stored(q)' # None /\ Stored(q)'.by = q
  BY DEF OneEffectPerOperation, MadeBy
<1>1. MadeBy(q) => Stored(q) # None /\ Stored(q).by = q
  BY DEF OneEffectPerOperation, MadeBy
<1>2. ASSUME NEW r \in Requests, RequestStep(r)
      PROVE  Stored(q)' # None /\ Stored(q)'.by = q
  <2>1. Stored(q)' = receipts'[Table(requests[q].kind)][requests[q].op]
    BY <1>2, RequestFrame DEF Stored
  <2>2. CASE UNCHANGED rows
    BY <1>1, <2>1, <2>2 DEF rows, MadeBy, Stored
  <2>3. CASE Authorized(r) /\ Commit(r) /\ (requests[r].step = "batch" \/ requests[r].lost = "landing")
    <3>1. Asked(r)
      BY <2>3 DEF TypeInv, AskedInv
    <3>2. Table(requests[q].kind) \in Tables /\ requests[q].op \in Operations
      BY TablesOfKinds DEF TypeInv, TypeOK, Request
    <3>3. CASE q = r
      <4>1. Stored(q)' = [kind |-> requests[r].kind, by |-> r, subject |-> requests[r].subject,
                          seen |-> requests[r].seen]
        BY <2>1, <2>3, <3>2, <3>3, ReceiptFrame DEF TypeInv
      <4>2. Stored(q)' \in Receipt
        BY <4>1 DEF Receipt, TypeInv, TypeOK, Request
      <4> QED
        BY <3>3, <4>1, <4>2, NoReceiptAssumption
    <3>4. CASE q # r
      <4>1. Stored(q) # None /\ Stored(q).by = q
        BY <1>1, <2>3, <3>1, <3>4, CommitFrame DEF TypeInv
      <4>2. ~(Table(requests[q].kind) = Table(requests[r].kind) /\ requests[q].op = requests[r].op)
        BY <2>3, <4>1, ReceiptFrame DEF OperationAvailable, Stored, TypeInv
      <4>3. Stored(q)' = Stored(q)
        BY <2>1, <2>3, <3>2, <4>2, ReceiptFrame DEF Stored, TypeInv
      <4> QED
        BY <4>1, <4>3
    <3> QED
      BY <3>3, <3>4
  <2> QED
    BY <1>2, <2>2, <2>3, RowsChange
<1>3. CASE UNCHANGED <<requests, receipts>> /\ (MadeBy(q)' => MadeBy(q))
  BY <1>1, <1>3 DEF Stored
<1> QED
  BY <1>2, <1>3, OthersFrame DEF Next, TypeInv

\* An operation id makes rows once: two of its requests never both do.
THEOREM EffectsAreOnce == Spec => []OneEffectPerOperation
<1>1. Init => \A r \in Requests : ~MadeBy(r)
  BY RecoveryAssumption DEF Init, MadeBy, IdentityIds, CodeSetIds, SessionIds
<1>2. Init => OneEffectPerOperation
  BY <1>1 DEF OneEffectPerOperation, MadeBy
<1> QED
  BY <1>2, TypeInit, TypeStep, FreshInit, FreshStep, EffectStep, PTL DEF Spec

-----------------------------------------------------------------------------
(* Code sets *)

\* A set whose codes can no longer be used.
Retired(n) == codeSets[n].made # "none" /\ codeSets[n].unused = {}

\* What a rotation replaced is retired.
SetsInv ==
  /\ \A n \in CodeSetIds : codeSets[n].made = "none" => codeSets[n].unused = {}
  /\ \A op \in Rotations :
       receipts["rotation"][op].seen # None =>
         receipts["rotation"][op].seen \in CodeSetIds /\ Retired(receipts["rotation"][op].seen)

\* A batch replaces all sets by one, or takes codes from them, or leaves them.
LEMMA CodesFrame ==
  ASSUME TypeOK, NEW r \in Requests, Asked(r), ~MadeBy(r), Authorized(r), Commit(r)
  PROVE  \/ \A n \in CodeSetIds :
              IF n = r THEN codeSets'[n].made # "none"
              ELSE codeSets'[n].made = codeSets[n].made /\ codeSets'[n].unused = {}
         \/ /\ requests[r].kind # "generate"
            /\ \A n \in CodeSetIds : /\ codeSets'[n].made = codeSets[n].made
                                      /\ codeSets'[n].unused \subseteq codeSets[n].unused
<1>1. codeSets \in [CodeSetIds -> CodeSet]
  BY DEF TypeOK, RowsTyped
<1>2. ASSUME NEW made \in {"rotation", "recovery"}, NEW epoch, NewCodes(r, made, epoch)
      PROVE  \A n \in CodeSetIds :
               IF n = r THEN codeSets'[n].made # "none"
               ELSE codeSets'[n].made = codeSets[n].made /\ codeSets'[n].unused = {}
  BY <1>1, <1>2 DEF NewCodes, CodeSet
<1>3. CASE Generate(r)
  BY <1>2, <1>3 DEF Generate
<1>4. CASE Remediate(r)
  BY <1>2, <1>4 DEF Remediate
<1>5. CASE requests[r].kind = "complete" /\ Complete(r)
  BY <1>5, CompleteCodes
<1>6. CASE UNCHANGED codeSets /\ requests[r].kind # "generate"
  BY <1>6
<1> QED
  BY <1>3, <1>4, <1>5, <1>6, CommitOfKind DEF Enroll, Verify, AddPasskey, Revoke

\* The same, for the rotation receipts: a rotation adds one, for the set it replaced.
LEMMA RotationFrame ==
  ASSUME TypeOK, NEW r \in Requests, Asked(r), Authorized(r), Commit(r),
         NEW op \in Operations, receipts'["rotation"][op] # None
  PROVE  \/ receipts["rotation"][op] # None /\ receipts'["rotation"][op] = receipts["rotation"][op]
         \/ /\ op = requests[r].op /\ requests[r].kind = "generate"
            /\ receipts'["rotation"][op].seen = requests[r].seen
            /\ ActiveSets = {requests[r].seen} \ {None}
            /\ \A n \in CodeSetIds : n # r => codeSets'[n].unused = {}
<1>1. receipts'["rotation"][op] =
        IF "rotation" = Table(requests[r].kind) /\ op = requests[r].op
        THEN [kind |-> requests[r].kind, by |-> r, subject |-> requests[r].subject,
              seen |-> requests[r].seen]
        ELSE receipts["rotation"][op]
  <2>1. "rotation" \in Tables
    BY DEF Tables
  <2> QED
    BY <2>1, ReceiptFrame
<1>2. CASE requests[r].kind = "generate" /\ op = requests[r].op
  <2>1. receipts'["rotation"][op].seen = requests[r].seen
    <3>1. Table("generate") = "rotation"
      BY DEF Table
    <3> QED
      BY <1>1, <1>2, <3>1
  <2>2. GenerateAuthorized(r) /\ Generate(r)
    BY <1>2, CommitOfKind
  <2>3. \A n \in CodeSetIds : n # r => codeSets'[n].unused = {}
    BY <2>2 DEF Generate, NewCodes, TypeOK, RowsTyped, CodeSet
  <2> QED
    BY <1>2, <2>1, <2>2, <2>3 DEF GenerateAuthorized
<1>3. CASE ~(requests[r].kind = "generate" /\ op = requests[r].op)
  <2>1. requests[r].kind \in Kinds
    BY DEF TypeOK, Request
  <2>2. Table(requests[r].kind) = "rotation" => requests[r].kind = "generate"
    BY <2>1 DEF Kinds, Table
  <2> QED
    BY <1>1, <1>3, <2>2
<1> QED
  BY <1>2, <1>3

LEMMA ChainStep ==
  TypeInv /\ FreshInv /\ SetsInv /\ RotationsChain /\ [Next]_vars => SetsInv' /\ RotationsChain'
<1> SUFFICES ASSUME TypeInv, FreshInv, SetsInv, RotationsChain, [Next]_vars
             PROVE  SetsInv' /\ RotationsChain'
  OBVIOUS
<1>1. CASE UNCHANGED <<codeSets, receipts>>
  BY <1>1 DEF SetsInv, RotationsChain, ActiveSets, Rotations, Retired
<1>2. ASSUME NEW r \in Requests, Authorized(r), Commit(r), Asked(r), ~MadeBy(r)
      PROVE  SetsInv' /\ RotationsChain'
  <2>1. codeSets[r].made = "none" /\ codeSets[r].unused = {} /\ r \in CodeSetIds
    BY <1>2 DEF MadeBy, SetsInv, CodeSetIds
  <2>2. ASSUME NEW n \in CodeSetIds, Retired(n) PROVE Retired(n)'
    BY <1>2, <2>1, <2>2, CodesFrame DEF Retired, TypeInv
  <2>3. \A n \in CodeSetIds : codeSets'[n].made = "none" => codeSets'[n].unused = {}
    BY <1>2, CodesFrame DEF SetsInv, TypeInv
  <2>4. \A m, n \in ActiveSets' : m = n
    <3>1. SUFFICES ASSUME NEW m \in CodeSetIds, NEW n \in CodeSetIds,
                          codeSets'[m].unused # {}, codeSets'[n].unused # {}
                   PROVE  m = n
      BY DEF ActiveSets
    <3>2. \A k, l \in CodeSetIds : codeSets[k].unused # {} /\ codeSets[l].unused # {} => k = l
      BY DEF RotationsChain, ActiveSets
    <3> QED
      BY <1>2, <3>1, <3>2, CodesFrame DEF TypeInv
  <2>5. ASSUME NEW op \in Operations, receipts'["rotation"][op] # None,
               receipts'["rotation"][op].seen # None
        PROVE  /\ receipts'["rotation"][op].seen \in CodeSetIds
               /\ codeSets'[receipts'["rotation"][op].seen].made # "none"
               /\ codeSets'[receipts'["rotation"][op].seen].unused = {}
    <3>1. CASE receipts["rotation"][op] # None /\ receipts'["rotation"][op] = receipts["rotation"][op]
      BY <2>2, <2>5, <3>1 DEF SetsInv, Rotations, Retired
    <3>2. CASE /\ receipts'["rotation"][op].seen = requests[r].seen
               /\ ActiveSets = {requests[r].seen} \ {None}
               /\ requests[r].kind = "generate"
      <4> DEFINE seen == requests[r].seen
      <4>1. seen \in ActiveSets
        BY <2>5, <3>2
      <4>2. seen \in CodeSetIds /\ codeSets[seen].unused # {}
        BY <4>1 DEF ActiveSets
      <4>3. codeSets[seen].made # "none" /\ seen # r
        BY <2>1, <4>2 DEF SetsInv
      <4>4. codeSets'[seen].made # "none" /\ codeSets'[seen].unused = {}
        BY <1>2, <3>2, <4>2, <4>3, CodesFrame DEF TypeInv
      <4> QED
        BY <3>2, <4>2, <4>4
    <3> QED
      BY <1>2, <2>5, <3>1, <3>2, RotationFrame DEF TypeInv
  <2>6. ASSUME NEW o1 \in Operations, NEW o2 \in Operations,
               receipts'["rotation"][o1] # None, receipts'["rotation"][o2] # None,
               receipts'["rotation"][o1].seen = receipts'["rotation"][o2].seen,
               receipts'["rotation"][o1].seen # None
        PROVE  o1 = o2
    <3>1. ASSUME NEW op \in Operations,
                 receipts["rotation"][op] # None, receipts["rotation"][op].seen # None
          PROVE  receipts["rotation"][op].seen \notin ActiveSets
      BY <3>1 DEF SetsInv, Rotations, Retired, ActiveSets
    <3>2. ASSUME NEW op \in Operations, receipts'["rotation"][op] # None,
                 receipts'["rotation"][op].seen # None
          PROVE  \/ /\ receipts["rotation"][op] # None
                    /\ receipts'["rotation"][op] = receipts["rotation"][op]
                 \/ op = requests[r].op /\ receipts'["rotation"][op].seen \in ActiveSets
      BY <1>2, <3>2, RotationFrame DEF TypeInv
    <3> QED
      BY <2>6, <3>1, <3>2 DEF RotationsChain, Rotations
  <2> QED
    BY <2>3, <2>4, <2>5, <2>6 DEF SetsInv, RotationsChain, Rotations, Retired
<1>3. ASSUME NEW r \in Requests, RequestStep(r) PROVE SetsInv' /\ RotationsChain'
  <2>1. CASE UNCHANGED rows
    BY <1>1, <2>1 DEF rows
  <2>2. CASE Authorized(r) /\ Commit(r) /\ (requests[r].step = "batch" \/ requests[r].lost = "landing")
    BY <1>2, <2>2 DEF TypeInv, AskedInv, FreshInv, Open
  <2> QED
    BY <1>3, <2>1, <2>2, RowsChange
<1>4. CASE \/ \E f \in Flows : StartRecovery(f)
           \/ \E c \in Challenges, op \in Operations, s \in SessionIds : StartEnrollment(c, op, s)
           \/ \E s \in SignIns, p \in Passkeys : CheckPasskey(s, p)
           \/ \E s \in SignIns : CompletePrimaryFactor(s)
           \/ \E n \in IdentityIds : LapseIdentity(n)
           \/ UNCHANGED vars
  BY <1>1, <1>4
  DEF StartRecovery, StartEnrollment, CheckPasskey, CompletePrimaryFactor, LapseIdentity, vars
<1> QED
  BY <1>3, <1>4 DEF Next

LEMMA SetsInit == Init => SetsInv /\ RotationsChain
<1> SUFFICES ASSUME Init PROVE SetsInv /\ RotationsChain
  OBVIOUS
<1>1. Rotations = {}
  BY DEF Init, Rotations, Tables
<1>2. \A n \in CodeSetIds : codeSets[n].unused # {} => n = Initial /\ codeSets[n].made # "none"
  BY DEF Init
<1> QED
  BY <1>1, <1>2 DEF SetsInv, RotationsChain, ActiveSets

\* One set is in use, and a set is replaced by one rotation only.
THEOREM RotationsAreChained == Spec => []RotationsChain
BY TypeInit, TypeStep, FreshInit, FreshStep, SetsInit, ChainStep, PTL DEF Spec

-----------------------------------------------------------------------------
(* What callers are told *)

\* Nothing is recorded of a row that was not made.
Unmade ==
  /\ \A n \in CodeSetIds : codeSets[n].made = "none" => codeSets[n].used = {}
  /\ \A s \in SessionIds : sessions[s].state = "none" => ~sessions[s].restricted

\* What a receipt names is not undone: an identity, a code set and a passkey stay
\* made, a verification and a revocation stay, a restricted session stays so.
Lasts ==
  /\ \A n \in IdentityIds :
       /\ identities[n] # "none" => identities'[n] # "none"
       /\ identities[n] = "verified" => identities'[n] = "verified"
  /\ \A n \in CodeSetIds : codeSets[n].made = "rotation" => codeSets'[n].made = "rotation"
  /\ \A s \in SessionIds : sessions[s].restricted => sessions'[s].restricted
  /\ \A p \in Passkeys :
       /\ passkeys[p].state # "none" => passkeys'[p].state # "none"
       /\ passkeys[p].state = "revoked" => passkeys'[p].state = "revoked"

\* The receipts are filed by kind, and are all true.
Filed(t, op) ==
  receipts[t][op] # None =>
    /\ Table(receipts[t][op].kind) = t
    /\ receipts[t][op].subject \in Subjects(receipts[t][op].kind)
    /\ CarriedOut(receipts[t][op])

ReceiptsInv == \A t \in Tables, op \in Operations : Filed(t, op)

AnsweredTruly(r) ==
  requests[r].answer \in {"done", "replayed"} =>
    /\ Stored(r) # None
    /\ Stored(r).kind = requests[r].kind
    /\ Stored(r).subject = requests[r].subject
    /\ requests[r].answer = "done" => Stored(r).by = r

AnswersInv == \A r \in Requests : AnsweredTruly(r)

\* What a batch records of rows that it does not make.
LEMMA CodesUsed ==
  ASSUME TypeOK, NEW r \in Requests, NEW made, NEW epoch, NewCodes(r, made, epoch),
         Unmade, ~MadeBy(r)
  PROVE  \A n \in CodeSetIds :
           /\ codeSets'[n].used = codeSets[n].used
           /\ codeSets'[n].made = IF n = r THEN made ELSE codeSets[n].made
<1>1. codeSets \in [CodeSetIds -> CodeSet] /\ r \in CodeSetIds
  BY DEF TypeOK, RowsTyped, CodeSetIds
<1>2. codeSets[r].used = {}
  BY <1>1 DEF Unmade, MadeBy
<1> QED
  BY <1>1, <1>2 DEF NewCodes, CodeSet

LEMMA CommitLasts ==
  ASSUME TypeOK, Unmade, NEW r \in Requests, Asked(r), ~MadeBy(r), Authorized(r), Commit(r)
  PROVE  Lasts
<1> DEFINE proof == requests[r].subject
<1>1. /\ identities \in [IdentityIds -> {"none", "pending", "lapsed", "verified"}]
      /\ sessions \in [SessionIds -> Session]
      /\ passkeys \in [Passkeys -> Passkey]
      /\ codeSets \in [CodeSetIds -> CodeSet]
      /\ r \in IdentityIds /\ r \in CodeSetIds /\ r \in SessionIds
  BY DEF TypeOK, RowsTyped, IdentityIds, CodeSetIds, SessionIds
<1>2. identities[r] = "none" /\ codeSets[r].made = "none" /\ ~sessions[r].restricted
  BY <1>1 DEF MadeBy, Unmade
<1>3. CASE Enroll(r)
  BY <1>1, <1>2, <1>3 DEF Enroll, Lasts
<1>4. CASE Verify(r) /\ requests[r].kind = "verify"
  <2>1. proof \in IdentityIds
    BY <1>4 DEF Asked, Subjects
  <2> QED
    BY <1>1, <1>4, <2>1 DEF Verify, Lasts
<1>5. CASE Generate(r)
  <2>1. \A n \in CodeSetIds : codeSets[n].made = "rotation" => codeSets'[n].made = "rotation"
    BY <1>2, <1>5, CodesUsed DEF Generate
  <2> QED
    BY <1>5, <2>1 DEF Generate, Lasts
<1>6. CASE Complete(r) /\ requests[r].kind = "complete"
  <2>1. \A n \in CodeSetIds : codeSets'[n].made = codeSets[n].made
    BY <1>6, CompleteCodes
  <2>2. \A s \in SessionIds : sessions[s].restricted => sessions'[s].restricted
    BY <1>1, <1>6 DEF Complete, NewSession
  <2>3. UNCHANGED <<identities, passkeys>>
    BY <1>6 DEF Complete
  <2> QED
    BY <2>1, <2>2, <2>3 DEF Lasts
<1>7. CASE Remediate(r) /\ FinishAuthorized(r)
  <2>1. \A n \in CodeSetIds : codeSets[n].made = "rotation" => codeSets'[n].made = "rotation"
    BY <1>2, <1>7, CodesUsed DEF Remediate
  <2>2. \A s \in SessionIds : sessions[s].restricted => sessions'[s].restricted
    BY <1>1, <1>2, <1>7 DEF Remediate, Session
  <2>3. \A p \in Passkeys :
          /\ passkeys[p].state # "none" => passkeys'[p].state # "none"
          /\ passkeys[p].state = "revoked" => passkeys'[p].state = "revoked"
    BY <1>1, <1>7 DEF Remediate, FinishAuthorized, Active, Passkey
  <2> QED
    BY <1>7, <2>1, <2>2, <2>3 DEF Remediate, Lasts
<1>8. CASE AddPasskey(r) /\ FinishAuthorized(r)
  BY <1>1, <1>8 DEF AddPasskey, FinishAuthorized, Lasts
<1>9. CASE Revoke(r)
  BY <1>1, <1>9 DEF Revoke, Lasts, Passkey
<1> QED
  BY <1>3, <1>4, <1>5, <1>6, <1>7, <1>8, <1>9, CommitOfKind

\* The other actions leave the receipts, and what they name.
LEMMA OthersLast ==
  ASSUME TypeOK, Unmade,
         \/ \E f \in Flows : StartRecovery(f)
         \/ \E c \in Challenges, op \in Operations, s \in SessionIds : StartEnrollment(c, op, s)
         \/ \E s \in SignIns, p \in Passkeys : CheckPasskey(s, p)
         \/ \E s \in SignIns : CompletePrimaryFactor(s)
         \/ \E n \in IdentityIds : LapseIdentity(n)
         \/ UNCHANGED vars
  PROVE  Lasts /\ Unmade'
<1>1. CASE UNCHANGED <<identities, sessions, passkeys, codeSets>>
  BY <1>1 DEF Lasts, Unmade
<1>2. ASSUME NEW s \in SignIns, SigningIn(s) PROVE Lasts /\ Unmade'
  <2>1. \A t \in SessionIds :
          /\ sessions'[t].restricted <=> sessions[t].restricted
          /\ sessions'[t].state = "none" => sessions[t].state = "none"
    BY <1>2, SigningInChanges
  <2> QED
    BY <1>2, <2>1, SigningInChanges DEF Lasts, Unmade
<1>3. ASSUME NEW n \in IdentityIds, LapseIdentity(n) PROVE Lasts /\ Unmade'
  BY <1>3 DEF LapseIdentity, Lasts, Unmade, TypeOK, RowsTyped
<1> QED
  BY <1>1, <1>2, <1>3 DEF StartRecovery, StartEnrollment, SigningIn, vars

\* A receipt that is true stays true.
LEMMA TrueStays ==
  ASSUME Lasts, NEW c \in Receipt, c.subject \in Subjects(c.kind), CarriedOut(c)
  PROVE  CarriedOut(c)'
<1>1. c.kind \in Kinds /\ c.by \in IdentityIds /\ c.by \in CodeSetIds /\ c.by \in SessionIds
  BY DEF Receipt, IdentityIds, CodeSetIds, SessionIds
<1>2. CASE c.kind \in {"enroll", "generate", "complete"}
  BY <1>1, <1>2 DEF CarriedOut, Lasts
<1>3. CASE c.kind \in {"verify", "finish", "revoke"}
  BY <1>3 DEF CarriedOut, Lasts, Subjects
<1> QED
  BY <1>1, <1>2, <1>3 DEF Kinds

LEMMA FiledStays ==
  ASSUME Lasts, ReceiptsInv, TypeOK, NEW t \in Tables, NEW op \in Operations,
         receipts'[t][op] = receipts[t][op]
  PROVE  Filed(t, op)'
<1>1. SUFFICES ASSUME receipts[t][op] # None PROVE Filed(t, op)'
  BY DEF Filed
<1>2. receipts[t][op] \in Receipt
  BY <1>1 DEF TypeOK, RowsTyped
<1>3. /\ Table(receipts[t][op].kind) = t
      /\ receipts[t][op].subject \in Subjects(receipts[t][op].kind)
      /\ CarriedOut(receipts[t][op])
  BY <1>1 DEF ReceiptsInv, Filed
<1>4. \A c \in Receipt : c.subject \in Subjects(c.kind) /\ CarriedOut(c) => CarriedOut(c)'
  BY TrueStays
<1>5. PICK c \in Receipt : c = receipts[t][op]
  BY <1>2
<1>6. CarriedOut(c)
  BY <1>3, <1>5
<1>7. CarriedOut(c)'
  BY <1>3, <1>4, <1>5, <1>6
<1>8. c = receipts'[t][op]
  BY <1>5
<1>9. CarriedOut(receipts[t][op])'
  BY <1>7, <1>8 DEF CarriedOut
<1> QED
  BY <1>3, <1>5, <1>8, <1>9 DEF Filed, Subjects

\* A batch's receipt is true, and so are those that were there.
LEMMA CommitFiles ==
  ASSUME TypeOK, Unmade, ReceiptsInv, NEW r \in Requests, Asked(r), ~MadeBy(r),
         Authorized(r), Commit(r)
  PROVE  ReceiptsInv'
<1> DEFINE kind == requests[r].kind
           proof == requests[r].subject
           new == [kind |-> kind, by |-> r, subject |-> proof, seen |-> requests[r].seen]
<1>1. /\ identities \in [IdentityIds -> {"none", "pending", "lapsed", "verified"}]
      /\ sessions \in [SessionIds -> Session]
      /\ passkeys \in [Passkeys -> Passkey]
      /\ codeSets \in [CodeSetIds -> CodeSet]
      /\ r \in IdentityIds /\ r \in CodeSetIds /\ r \in SessionIds
  BY DEF TypeOK, RowsTyped, IdentityIds, CodeSetIds, SessionIds
<1>2. SUFFICES ASSUME NEW t \in Tables, NEW op \in Operations PROVE Filed(t, op)'
  BY DEF ReceiptsInv
<1>3. CASE receipts'[t][op] = receipts[t][op]
  BY <1>3, CommitLasts, FiledStays
<1>4. CASE t = Table(kind) /\ op = requests[r].op
  <2>1. receipts'[t][op] = new
    BY <1>4, ReceiptFrame
  <2>2. CASE kind = "enroll" /\ Enroll(r)
    BY <1>1, <1>4, <2>1, <2>2 DEF Enroll, Filed, CarriedOut, Asked
  <2>3. CASE kind = "verify" /\ Verify(r)
    BY <1>1, <1>4, <2>1, <2>3 DEF Verify, Filed, CarriedOut, Asked, Subjects
  <2>4. CASE kind = "generate" /\ Generate(r)
    <3>1. codeSets'[r].made = "rotation"
      BY <1>1, <2>4, CodesUsed DEF Generate
    <3> QED
      BY <1>1, <1>4, <2>1, <2>4, <3>1 DEF Filed, CarriedOut, Asked
  <2>5. CASE kind = "complete" /\ Complete(r)
    <3>1. sessions'[r].restricted
      BY <1>1, <2>5 DEF Complete, NewSession
    <3> QED
      BY <1>1, <1>4, <2>1, <2>5, <3>1 DEF Filed, CarriedOut, Asked
  <2>6. CASE kind = "finish" /\ (Remediate(r) \/ AddPasskey(r))
    <3>1. proof.passkey \in Passkeys
      BY <2>6 DEF Asked, Subjects
    <3>2. passkeys'[proof.passkey].state = "active"
      <4>1. CASE Remediate(r)
        BY <3>1, <4>1 DEF Remediate
      <4>2. CASE AddPasskey(r)
        BY <1>1, <3>1, <4>2 DEF AddPasskey
      <4> QED
        BY <2>6, <4>1, <4>2
    <3> QED
      BY <1>1, <1>4, <2>1, <2>6, <3>2 DEF Filed, CarriedOut, Asked
  <2>7. CASE kind = "revoke" /\ Revoke(r)
    <3>1. proof \in Passkeys
      BY <2>7 DEF Asked, Subjects
    <3>2. passkeys'[proof].state = "revoked"
      BY <1>1, <2>7, <3>1 DEF Revoke, Passkey
    <3> QED
      BY <1>1, <1>4, <2>1, <2>7, <3>2 DEF Filed, CarriedOut, Asked
  <2> QED
    BY <2>2, <2>3, <2>4, <2>5, <2>6, <2>7, CommitOfKind
<1> QED
  BY <1>3, <1>4, ReceiptFrame

LEMMA CommitMakes ==
  ASSUME TypeOK, SetsInv, Unmade, NEW r \in Requests, Asked(r), ~MadeBy(r),
         Authorized(r), Commit(r)
  PROVE  Unmade'
<1> DEFINE proof == requests[r].subject
<1>1. /\ sessions \in [SessionIds -> Session]
      /\ codeSets \in [CodeSetIds -> CodeSet]
      /\ r \in CodeSetIds /\ r \in SessionIds
  BY DEF TypeOK, RowsTyped, CodeSetIds, SessionIds
<1>2. ASSUME NEW made \in {"rotation", "recovery"}, NEW epoch, NewCodes(r, made, epoch)
      PROVE  \A n \in CodeSetIds : codeSets'[n].made = "none" => codeSets'[n].used = {}
  BY <1>2, CodesUsed DEF Unmade
<1>3. CASE Enroll(r) \/ Verify(r) \/ AddPasskey(r) \/ Revoke(r)
  BY <1>3, Zenon DEF Enroll, Verify, AddPasskey, Revoke, Unmade
<1>4. CASE Generate(r)
  BY <1>2, <1>4 DEF Generate, Unmade
<1>5. CASE Remediate(r)
  <2>1. \A s \in SessionIds : sessions'[s].state = "none" => ~sessions'[s].restricted
    BY <1>1, <1>5 DEF Remediate, NewSession, Unmade, Live, Session
  <2> QED
    BY <1>2, <1>5, <2>1 DEF Remediate, Unmade
<1>6. CASE requests[r].kind = "complete" /\ CompleteAuthorized(r) /\ Complete(r)
  <2>1. \A s \in SessionIds : sessions'[s].state = "none" => ~sessions'[s].restricted
    BY <1>1, <1>6 DEF Complete, NewSession, Unmade
  <2>2. proof.number \in codeSets[proof.set].unused
    BY <1>6 DEF CompleteAuthorized
  <2>3. proof.set \in CodeSetIds /\ codeSets[proof.set].made # "none"
    BY <1>6, <2>2, CompleteCodes DEF SetsInv
  <2>4. \A n \in CodeSetIds : codeSets'[n].made = "none" => codeSets'[n].used = {}
    BY <1>6, <2>3, CompleteCodes DEF Unmade
  <2> QED
    BY <2>1, <2>4 DEF Unmade
<1> QED
  BY <1>3, <1>4, <1>5, <1>6, CommitOfKind

LEMMA RecordsStep ==
  /\ TypeInv /\ FreshInv /\ SetsInv /\ Unmade /\ ReceiptsInv
  /\ [Next]_vars
  => Unmade' /\ ReceiptsInv'
<1> SUFFICES ASSUME TypeInv, FreshInv, SetsInv, Unmade, ReceiptsInv, [Next]_vars
             PROVE  Unmade' /\ ReceiptsInv'
  OBVIOUS
<1>1. ASSUME NEW r \in Requests, RequestStep(r) PROVE Unmade' /\ ReceiptsInv'
  <2>1. CASE UNCHANGED rows
    BY <2>1 DEF rows, Unmade, ReceiptsInv, Filed, CarriedOut
  <2>2. CASE Authorized(r) /\ Commit(r) /\ (requests[r].step = "batch" \/ requests[r].lost = "landing")
    <3>1. TypeOK /\ Asked(r) /\ ~MadeBy(r)
      BY <2>2 DEF TypeInv, AskedInv, FreshInv, Open
    <3> QED
      BY <2>2, <3>1, CommitFiles, CommitMakes
  <2> QED
    BY <1>1, <2>1, <2>2, RowsChange
<1>2. CASE \/ \E f \in Flows : StartRecovery(f)
           \/ \E c \in Challenges, op \in Operations, s \in SessionIds : StartEnrollment(c, op, s)
           \/ \E s \in SignIns, p \in Passkeys : CheckPasskey(s, p)
           \/ \E s \in SignIns : CompletePrimaryFactor(s)
           \/ \E n \in IdentityIds : LapseIdentity(n)
           \/ UNCHANGED vars
  <2>1. TypeOK
    BY DEF TypeInv
  <2>2. Lasts /\ Unmade' /\ UNCHANGED receipts
    BY <1>2, <2>1, OthersLast, OthersFrame
  <2> QED
    BY <2>1, <2>2, FiledStays DEF ReceiptsInv
<1> QED
  BY <1>1, <1>2 DEF Next

LEMMA RecordsInit == Init => Unmade /\ ReceiptsInv /\ AnswersInv
<1> SUFFICES ASSUME Init PROVE Unmade /\ ReceiptsInv /\ AnswersInv
  OBVIOUS
<1>1. \A t \in Tables, op \in Operations : receipts[t][op] = None
  BY DEF Init
<1>2. \A r \in Requests : requests[r].answer = None
  BY DEF Init
<1>3. None \notin {"done", "replayed"}
  BY RecoveryAssumption
<1> QED
  BY <1>1, <1>2, <1>3 DEF Init, Unmade, ReceiptsInv, Filed, AnswersInv, AnsweredTruly

\* What a caller is told of a receipt, it is told of its own request.
LEMMA ReplayIsTrue ==
  ASSUME NEW r \in Requests, NEW subject, Stored(r) # None, Replay(r, subject) = "replayed"
  PROVE  Stored(r).kind = requests[r].kind /\ Stored(r).subject = subject
BY DEF Replay, SameIntent

\* The steps that do not commit: a request keeps its answer and its subject, or is
\* given an answer that says nothing, or one by a receipt.
LEMMA AnswerFrame ==
  ASSUME TypeInv, NEW r \in Requests, RequestStep(r), ~CommitAnswered(r)
  PROVE  \/ /\ requests'[r].answer = requests[r].answer
            /\ requests'[r].subject = requests[r].subject
         \/ requests'[r].answer \notin {"done", "replayed"}
         \/ /\ UNCHANGED rows
            /\ Stored(r) # None
            /\ requests'[r].answer = "replayed"
            /\ Stored(r).kind = requests[r].kind
            /\ Stored(r).subject = requests'[r].subject
<1>1. requests \in [Requests -> Request] /\ requests[r] \in Request
  BY DEF TypeInv, TypeOK
<1>2. None \notin {"done", "replayed"}
  BY RecoveryAssumption
<1>3. \A subject : Replay(r, subject) \in {"replayed", "conflict"}
  BY DEF Replay
<1>4. ASSUME NEW s \in SessionIds \cup {None}, NEW subject \in Subjects(requests[r].kind),
             Begin(r, s, subject)
      PROVE  \/ requests'[r].answer \notin {"done", "replayed"}
             \/ /\ UNCHANGED rows /\ Stored(r) # None
                /\ requests'[r].answer = "replayed"
                /\ Stored(r).kind = requests[r].kind
                /\ Stored(r).subject = requests'[r].subject
  <2> DEFINE new == [requests[r] EXCEPT
                       !.session = s, !.subject = subject,
                       !.step = IF OperationAvailable(r) THEN "prepare" ELSE "answered",
                       !.answer = IF OperationAvailable(r) THEN None ELSE Replay(r, subject)]
  <2>1. requests'[r] = new
    BY <1>1, <1>4 DEF Begin
  <2>2. /\ new.answer = IF OperationAvailable(r) THEN None ELSE Replay(r, subject)
        /\ new.subject = subject
    BY <1>1 DEF Request
  <2> HIDE DEF new
  <2>3. CASE OperationAvailable(r)
    BY <1>2, <2>1, <2>2, <2>3
  <2>4. CASE ~OperationAvailable(r)
    BY <1>3, <1>4, <2>1, <2>2, <2>4, ReplayIsTrue DEF OperationAvailable, Begin
  <2> QED
    BY <2>3, <2>4
<1>5. CASE Prepare(r)
  <2>1. CASE requests[r].kind # "generate"
    BY <1>1, <1>5, <2>1 DEF Prepare, Goto, Request
  <2>2. CASE requests[r].kind = "generate" /\ Unreadable
    <3>1. Answer(r, "unreadable")
      BY <1>5, <2>2 DEF Prepare
    <3> QED
      BY <1>1, <3>1 DEF Answer, Request
  <2>3. CASE requests[r].kind = "generate" /\ ~Unreadable
    <3>1. PICK seen \in CodeSetIds \cup {None} :
            requests' = [requests EXCEPT ![r].step = "batch", ![r].seen = seen]
      BY <1>5, <2>3 DEF Prepare
    <3> QED
      BY <1>1, <3>1 DEF Request
  <2> QED
    BY <2>1, <2>2, <2>3
<1>6. ASSUME Refusal(r) PROVE requests'[r].answer \notin {"done", "replayed"}
  BY <1>1, <1>6 DEF Refusal, Request
<1>7. CASE NotAuthorized(r)
  <2>1. CASE OperationAvailable(r) \/ ~AskedBeforeOperation(r)
    BY <1>6, <1>7, <2>1 DEF NotAuthorized
  <2>2. CASE ~OperationAvailable(r) /\ Answer(r, Replay(r, requests[r].subject))
    <3>1. /\ requests'[r].answer = Replay(r, requests[r].subject)
          /\ requests'[r].subject = requests[r].subject
      BY <1>1, <2>2 DEF Answer, Request
    <3> QED
      BY <1>3, <1>7, <2>2, <3>1, ReplayIsTrue DEF OperationAvailable, NotAuthorized
  <2> QED
    BY <1>7, <2>1, <2>2 DEF NotAuthorized
<1>8. CASE LoseAnswer(r)
  BY <1>1, <1>8 DEF LoseAnswer, Request
<1>9. CASE Land(r)
  BY <1>1, <1>9 DEF Land, Request
<1>10. CASE ReadBack(r)
  <2>1. requests'[r].subject = requests[r].subject
    BY <1>1, <1>10 DEF ReadBack, Answer, Request
  <2>2. requests'[r].answer = IF OperationAvailable(r) THEN "unknown"
                              ELSE Replay(r, requests[r].subject)
    BY <1>1, <1>10 DEF ReadBack, Answer, Request
  <2> QED
    BY <1>3, <1>10, <2>1, <2>2, ReplayIsTrue DEF OperationAvailable, ReadBack
<1> QED
  BY <1>4, <1>5, <1>6, <1>7, <1>8, <1>9, <1>10 DEF RequestStep, Refuse

LEMMA AnswersStep == TypeInv /\ AnswersInv /\ [Next]_vars => AnswersInv'
<1> SUFFICES ASSUME TypeInv, AnswersInv, [Next]_vars, NEW q \in Requests
             PROVE  AnsweredTruly(q)'
  BY DEF AnswersInv
<1>1. AnsweredTruly(q)
  BY DEF AnswersInv
<1>2. CASE UNCHANGED <<requests, receipts>>
  BY <1>1, <1>2 DEF AnsweredTruly, Stored
<1>3. ASSUME NEW r \in Requests, RequestStep(r) PROVE AnsweredTruly(q)'
  <2>1. requests'[q].kind = requests[q].kind /\ requests'[q].op = requests[q].op
    BY <1>3, RequestFrame
  <2>2. Stored(q)' = receipts'[Table(requests[q].kind)][requests[q].op]
    BY <2>1 DEF Stored
  <2>3. Table(requests[q].kind) \in Tables /\ requests[q].op \in Operations
    BY TablesOfKinds DEF TypeInv, TypeOK, Request
  <2>4. Stored(q) # None => Stored(q)' = Stored(q)
    <3>1. CASE UNCHANGED rows
      BY <2>2, <3>1 DEF rows, Stored
    <3>2. CASE Authorized(r) /\ Commit(r)
      <4>1. OperationAvailable(r)
        BY <3>2, ReceiptFrame DEF TypeInv
      <4> QED
        BY <2>2, <2>3, <3>2, <4>1, ReceiptFrame DEF OperationAvailable, Stored, TypeInv
    <3> QED
      BY <1>3, <3>1, <3>2, RowsChange
  <2>5. CASE q # r
    <3>1. requests'[q] = requests[q]
      BY <1>3, <2>5, RequestFrame
    <3> QED
      BY <1>1, <2>4, <3>1 DEF AnsweredTruly
  <2>6. CASE q = r /\ CommitAnswered(r)
    <3>1. Authorized(r) /\ Commit(r)
      BY <2>6 DEF CommitAnswered
    <3>2. Stored(q)' = [kind |-> requests[r].kind, by |-> r, subject |-> requests[r].subject,
                        seen |-> requests[r].seen]
      BY <2>2, <2>3, <2>6, <3>1, ReceiptFrame DEF TypeInv
    <3>3. Stored(q)' \in Receipt
      BY <3>2 DEF Receipt, TypeInv, TypeOK, Request
    <3>4. requests'[q].subject = requests[q].subject
      BY <2>6 DEF CommitAnswered, Answer, TypeInv, TypeOK, Request
    <3> QED
      BY <2>1, <2>6, <3>2, <3>3, <3>4, NoReceiptAssumption DEF AnsweredTruly
  <2>7. CASE q = r /\ ~CommitAnswered(r)
    <3>1. CASE /\ requests'[q].answer = requests[q].answer
               /\ requests'[q].subject = requests[q].subject
      BY <1>1, <2>1, <2>4, <3>1 DEF AnsweredTruly
    <3>2. CASE requests'[q].answer \notin {"done", "replayed"}
      BY <3>2 DEF AnsweredTruly
    <3>3. CASE /\ Stored(q) # None /\ requests'[q].answer = "replayed"
               /\ Stored(q).kind = requests[q].kind
               /\ Stored(q).subject = requests'[q].subject
      BY <2>1, <2>4, <3>3 DEF AnsweredTruly
    <3> QED
      BY <1>3, <2>7, <3>1, <3>2, <3>3, AnswerFrame
  <2> QED
    BY <2>5, <2>6, <2>7
<1> QED
  BY <1>2, <1>3, OthersFrame DEF Next, TypeInv

\* A caller that is told its request was carried out finds the rows, whichever of
\* the requests of its operation id made them and whenever the batch was applied.
THEOREM AnswersHold == Spec => []AnswersAreTrue
<1>1. TypeInv /\ ReceiptsInv /\ AnswersInv => AnswersAreTrue
  <2> SUFFICES ASSUME TypeInv, ReceiptsInv, AnswersInv, NEW r \in Requests,
                      requests[r].answer \in {"done", "replayed"}
               PROVE  /\ Stored(r) # None
                      /\ Stored(r).kind = requests[r].kind
                      /\ Stored(r).subject = requests[r].subject
                      /\ CarriedOut(Stored(r))
                      /\ requests[r].answer = "done" => Stored(r).by = r
    BY DEF AnswersAreTrue
  <2>1. Table(requests[r].kind) \in Tables /\ requests[r].op \in Operations
    BY TablesOfKinds DEF TypeInv, TypeOK, Request
  <2>2. Filed(Table(requests[r].kind), requests[r].op)
    BY <2>1 DEF ReceiptsInv
  <2> QED
    BY <2>2 DEF AnswersInv, AnsweredTruly, Filed, Stored
<1> QED
  BY <1>1, TypeInit, TypeStep, FreshInit, FreshStep, SetsInit, ChainStep, RecordsInit,
     RecordsStep, AnswersStep, PTL DEF Spec

-----------------------------------------------------------------------------
(* What a recovery spends *)

\* The same, part by part.
FlowsSpent == {f \in Flows : flows[f] = "spent"} = {c.subject.flow : c \in Completions}
CodesSpent ==
  \A n \in CodeSetIds :
    codeSets[n].used = {c.subject.number : c \in {d \in Completions : d.subject.set = n}}
SessionsGiven == {s \in SessionIds : sessions[s].restricted} = {c.by : c \in Completions}
SpentOnce ==
  \A c1, c2 \in Completions :
    c1.subject.flow = c2.subject.flow
    \/ [c1.subject EXCEPT !.flow = None] = [c2.subject EXCEPT !.flow = None] => c1 = c2

Proof == [flow: Flows, set: CodeSetIds, number: CodeNumbers]

\* Two proofs that agree but for the link are about the same code.
LEMMA SameCode ==
  ASSUME NEW a \in Proof, NEW b \in Proof, [a EXCEPT !.flow = None] = [b EXCEPT !.flow = None]
  PROVE  a.set = b.set /\ a.number = b.number
<1> DEFINE a0 == [a EXCEPT !.flow = None]
           b0 == [b EXCEPT !.flow = None]
<1>1. a0.set = a.set /\ a0.number = a.number /\ b0.set = b.set /\ b0.number = b.number
  BY DEF Proof
<1> QED
  BY <1>1

\* A completion receipt is of a recovery, and is about a link and a code.
LEMMA CompletionTyped ==
  ASSUME TypeOK, ReceiptsInv, NEW c \in Completions
  PROVE  c \in Receipt /\ c.kind = "complete" /\ c.subject \in Proof
<1>1. PICK op \in Operations : c = receipts["completion"][op] /\ c # None
  BY DEF Completions
<1>2. "completion" \in Tables
  BY DEF Tables
<1>3. c \in Receipt
  BY <1>1, <1>2 DEF TypeOK, RowsTyped
<1>4. Table(c.kind) = "completion" /\ c.subject \in Subjects(c.kind)
  BY <1>1, <1>2 DEF ReceiptsInv, Filed
<1>5. c.kind = "complete"
  BY <1>3, <1>4 DEF Receipt, Kinds, Table
<1> QED
  BY <1>3, <1>4, <1>5 DEF Subjects, Proof

\* The completion receipts after a batch.
LEMMA CompletionsChange ==
  ASSUME TypeOK, NEW r \in Requests, Authorized(r), Commit(r)
  PROVE  LET new == [kind |-> requests[r].kind, by |-> r, subject |-> requests[r].subject,
                     seen |-> requests[r].seen]
         IN Completions' = IF requests[r].kind = "complete" THEN Completions \cup {new}
                           ELSE Completions
<1> DEFINE new == [kind |-> requests[r].kind, by |-> r, subject |-> requests[r].subject,
                   seen |-> requests[r].seen]
           op0 == requests[r].op
<1>1. /\ requests[r].kind \in Kinds /\ op0 \in Operations /\ "completion" \in Tables
      /\ new \in Receipt
  BY DEF TypeOK, Request, Tables, Receipt
<1>2. new # None
  BY <1>1, NoReceiptAssumption
<1>3. Table(requests[r].kind) = "completion" <=> requests[r].kind = "complete"
  BY <1>1 DEF Kinds, Table
<1>4. \A op \in Operations :
        receipts'["completion"][op] = IF requests[r].kind = "complete" /\ op = op0 THEN new
                                      ELSE receipts["completion"][op]
  BY <1>1, <1>3, ReceiptFrame
<1>5. requests[r].kind = "complete" => receipts["completion"][op0] = None
  BY <1>3, ReceiptFrame DEF OperationAvailable, Stored
<1> HIDE DEF new, op0
<1>6. CASE requests[r].kind = "complete"
  <2>1. ASSUME NEW c PROVE c \in Completions' <=> c \in Completions \/ c = new
    BY <1>1, <1>2, <1>4, <1>5, <1>6 DEF Completions
  <2>2. Completions' = Completions \cup {new}
    BY <2>1
  <2> QED
    BY <1>6, <2>2 DEF new
<1>7. CASE requests[r].kind # "complete"
  <2>1. ASSUME NEW c PROVE c \in Completions' <=> c \in Completions
    BY <1>4, <1>7 DEF Completions
  <2>2. Completions' = Completions
    BY <2>1
  <2> QED
    BY <1>7, <2>2
<1> QED
  BY <1>6, <1>7

SpendsInv == FlowsSpent /\ CodesSpent /\ SessionsGiven /\ SpentOnce

\* The first half of a recovery spends a link and a code that no other has spent.
LEMMA CompleteSpends ==
  ASSUME TypeOK, ReceiptsInv, Unmade, SpendsInv, NEW r \in Requests, Asked(r), ~MadeBy(r),
         requests[r].kind = "complete", CompleteAuthorized(r), Complete(r),
         Authorized(r), Commit(r)
  PROVE  SpendsInv'
<1> DEFINE proof == requests[r].subject
           new == [kind |-> requests[r].kind, by |-> r, subject |-> proof,
                   seen |-> requests[r].seen]
<1>1. /\ flows \in [Flows -> {"none", "open", "spent"}]
      /\ sessions \in [SessionIds -> Session]
      /\ codeSets \in [CodeSetIds -> CodeSet]
      /\ r \in SessionIds
      /\ \A n \in CodeSetIds : codeSets[n].unused \cap codeSets[n].used = {}
  BY DEF TypeOK, RowsTyped, SessionIds
<1>2. Completions' = Completions \cup {new}
  BY CompletionsChange
<1>3. proof \in Proof /\ new.subject = proof /\ new.by = r
  BY DEF Asked, Subjects, Proof
<1>4. \A c \in Completions : c.subject \in Proof
  BY CompletionTyped
<1>5. flows[proof.flow] = "open" /\ proof.number \in codeSets[proof.set].unused
  BY DEF CompleteAuthorized
<1> HIDE DEF new, proof
<1>6. FlowsSpent'
  <2>1. flows' = [flows EXCEPT ![proof.flow] = "spent"] /\ proof.flow \in Flows
    BY <1>3 DEF Complete, proof, Proof
  <2>2. {f \in Flows : flows'[f] = "spent"} = {f \in Flows : flows[f] = "spent"} \cup {proof.flow}
    BY <1>1, <2>1
  <2>3. {c.subject.flow : c \in Completions \cup {new}}
          = {c.subject.flow : c \in Completions} \cup {proof.flow}
    BY <1>3
  <2> QED
    BY <1>2, <2>2, <2>3 DEF FlowsSpent, SpendsInv
<1>7. CodesSpent'
  <2>1. SUFFICES ASSUME NEW n \in CodeSetIds
                 PROVE  codeSets'[n].used =
                          {c.subject.number : c \in {d \in Completions \cup {new} : d.subject.set = n}}
    BY <1>2 DEF CodesSpent
  <2>2. codeSets[n].used = {c.subject.number : c \in {d \in Completions : d.subject.set = n}}
    BY DEF CodesSpent, SpendsInv
  <2>3. codeSets'[n].used = IF n = proof.set THEN codeSets[n].used \cup {proof.number}
                            ELSE codeSets[n].used
    BY CompleteCodes DEF proof
  <2>4. CASE n = proof.set
    BY <1>3, <2>2, <2>3, <2>4
  <2>5. CASE n # proof.set
    BY <1>3, <2>2, <2>3, <2>5
  <2> QED
    BY <2>4, <2>5
<1>8. SessionsGiven'
  <2>1. ~sessions[r].restricted
    BY <1>1 DEF Unmade, MadeBy
  <2>2. {s \in SessionIds : sessions'[s].restricted}
          = {s \in SessionIds : sessions[s].restricted} \cup {r}
    BY <1>1 DEF Complete, NewSession
  <2>3. {c.by : c \in Completions \cup {new}} = {c.by : c \in Completions} \cup {r}
    BY <1>3
  <2> QED
    BY <1>2, <2>2, <2>3 DEF SessionsGiven, SpendsInv
<1>9. SpentOnce'
  <2>1. ASSUME NEW c \in Completions
        PROVE  /\ c.subject.flow # proof.flow
               /\ [c.subject EXCEPT !.flow = None] # [proof EXCEPT !.flow = None]
    <3>1. flows[c.subject.flow] = "spent"
      BY DEF FlowsSpent, SpendsInv
    <3>2. c.subject.set = proof.set => c.subject.number \in codeSets[proof.set].used
      BY <1>3 DEF CodesSpent, SpendsInv, Proof
    <3>3. c.subject.set # proof.set \/ c.subject.number # proof.number
      BY <1>1, <1>3, <1>5, <3>2 DEF Proof
    <3> QED
      BY <1>3, <1>4, <1>5, <3>1, <3>3, SameCode
  <2>2. ASSUME NEW c1 \in Completions \cup {new}, NEW c2 \in Completions \cup {new},
               \/ c1.subject.flow = c2.subject.flow
               \/ [c1.subject EXCEPT !.flow = None] = [c2.subject EXCEPT !.flow = None]
        PROVE  c1 = c2
    <3>1. CASE c1 \in Completions /\ c2 \in Completions
      BY <2>2, <3>1 DEF SpentOnce, SpendsInv
    <3>2. CASE c1 = new /\ c2 \in Completions
      <4>1. c1.subject = proof
        BY <1>3, <3>2
      <4> QED
        BY <2>1, <2>2, <3>2, <4>1
    <3>3. CASE c2 = new /\ c1 \in Completions
      <4>1. c2.subject = proof
        BY <1>3, <3>3
      <4> QED
        BY <2>1, <2>2, <3>3, <4>1
    <3> QED
      BY <2>2, <3>1, <3>2, <3>3
  <2> QED
    BY <1>2, <2>2 DEF SpentOnce
<1> QED
  BY <1>6, <1>7, <1>8, <1>9 DEF SpendsInv

\* The other batches leave the completion receipts and what they spent.
LEMMA OthersSpendNothing ==
  ASSUME TypeOK, Unmade, SpendsInv, NEW r \in Requests, Asked(r), ~MadeBy(r),
         requests[r].kind # "complete", Authorized(r), Commit(r)
  PROVE  SpendsInv'
<1>1. /\ sessions \in [SessionIds -> Session]
      /\ codeSets \in [CodeSetIds -> CodeSet]
      /\ r \in SessionIds
  BY DEF TypeOK, RowsTyped, SessionIds
<1>2. Completions' = Completions
  BY CompletionsChange
<1>3. flows' = flows
  BY CommitOfKind DEF Enroll, Verify, Generate, Remediate, AddPasskey, Revoke
<1>4. \A n \in CodeSetIds : codeSets'[n].used = codeSets[n].used
  BY CommitOfKind, CodesUsed DEF Enroll, Verify, Generate, Remediate, AddPasskey, Revoke
<1>5. \A s \in SessionIds : sessions'[s].restricted = sessions[s].restricted
  <2>1. CASE Remediate(r)
    <3>1. sessions[r].restricted = FALSE
      BY <1>1 DEF Unmade, MadeBy, Session
    <3> QED
      BY <1>1, <2>1, <3>1 DEF Remediate, NewSession, Live, Session
  <2>2. CASE UNCHANGED sessions
    BY <2>2
  <2> QED
    BY <2>1, <2>2, CommitOfKind DEF Enroll, Verify, Generate, AddPasskey, Revoke
<1> QED
  BY <1>2, <1>3, <1>4, <1>5 DEF SpendsInv, FlowsSpent, CodesSpent, SessionsGiven, SpentOnce

LEMMA SpendsStep ==
  /\ TypeInv /\ FreshInv /\ Unmade /\ ReceiptsInv /\ SpendsInv
  /\ [Next]_vars
  => SpendsInv'
<1> SUFFICES ASSUME TypeInv, FreshInv, Unmade, ReceiptsInv, SpendsInv, [Next]_vars
             PROVE  SpendsInv'
  OBVIOUS
<1>1. CASE UNCHANGED <<flows, codeSets, sessions, receipts>>
  BY <1>1 DEF SpendsInv, FlowsSpent, CodesSpent, SessionsGiven, SpentOnce, Completions
<1>2. ASSUME NEW r \in Requests, RequestStep(r) PROVE SpendsInv'
  <2>1. CASE UNCHANGED rows
    BY <1>1, <2>1 DEF rows
  <2>2. CASE Authorized(r) /\ Commit(r) /\ (requests[r].step = "batch" \/ requests[r].lost = "landing")
    <3>1. TypeOK /\ Asked(r) /\ ~MadeBy(r)
      BY <2>2 DEF TypeInv, AskedInv, FreshInv, Open
    <3>2. CASE requests[r].kind = "complete"
      BY <2>2, <3>1, <3>2, CompleteSpends, CommitOfKind
    <3>3. CASE requests[r].kind # "complete"
      BY <2>2, <3>1, <3>3, OthersSpendNothing
    <3> QED
      BY <3>2, <3>3
  <2> QED
    BY <1>2, <2>1, <2>2, RowsChange
<1>3. ASSUME NEW f \in Flows, StartRecovery(f) PROVE SpendsInv'
  <2>1. {g \in Flows : flows'[g] = "spent"} = {g \in Flows : flows[g] = "spent"}
    BY <1>3 DEF StartRecovery, TypeInv, TypeOK, RowsTyped
  <2>2. UNCHANGED <<codeSets, sessions, receipts>>
    BY <1>3 DEF StartRecovery
  <2>3. Completions' = Completions
    BY <2>2 DEF Completions
  <2> QED
    BY <2>1, <2>2, <2>3 DEF SpendsInv, FlowsSpent, CodesSpent, SessionsGiven, SpentOnce
<1>4. ASSUME NEW s \in SignIns, SigningIn(s) PROVE SpendsInv'
  <2>1. \A t \in SessionIds : sessions'[t].restricted <=> sessions[t].restricted
    BY <1>4, SigningInChanges DEF TypeInv
  <2>2. UNCHANGED <<codeSets, flows, receipts>>
    BY <1>4, SigningInChanges DEF TypeInv
  <2>3. Completions' = Completions
    BY <2>2 DEF Completions
  <2> QED
    BY <2>1, <2>2, <2>3 DEF SpendsInv, FlowsSpent, CodesSpent, SessionsGiven, SpentOnce
<1>5. CASE \/ \E c \in Challenges, op \in Operations, s \in SessionIds : StartEnrollment(c, op, s)
           \/ \E n \in IdentityIds : LapseIdentity(n)
           \/ UNCHANGED vars
  BY <1>1, <1>5 DEF StartEnrollment, LapseIdentity, vars
<1> QED
  BY <1>2, <1>3, <1>4, <1>5 DEF Next, SigningIn

LEMMA SpendsInit == Init => SpendsInv
<1> SUFFICES ASSUME Init PROVE SpendsInv
  OBVIOUS
<1>1. Completions = {}
  BY DEF Init, Completions, Tables
<1> QED
  BY <1>1 DEF Init, SpendsInv, FlowsSpent, CodesSpent, SessionsGiven, SpentOnce

\* However many recoveries race or are repeated, a link and a code are spent by one
\* of them, and each that spent them has one restricted session.
THEOREM ProofsAreSpent == Spec => []ProofsAreSpentOnce
<1>1. SpendsInv => ProofsAreSpentOnce
  BY DEF SpendsInv, FlowsSpent, CodesSpent, SessionsGiven, SpentOnce, ProofsAreSpentOnce
<1> QED
  BY <1>1, TypeInit, TypeStep, FreshInit, FreshStep, SetsInit, ChainStep, RecordsInit,
     RecordsStep, SpendsInit, SpendsStep, PTL DEF Spec
=============================================================================
