-------------------------- MODULE AccountRecovery ---------------------------
(***************************************************************************)
(* How one user's sign-in authority changes: the external recovery          *)
(* identity, the recovery codes, the recovery flow, the passkeys and the    *)
(* sessions, all rows of the control-plane D1 database                      *)
(* (src/modules/account-security/adapters/d1).                              *)
(*                                                                         *)
(* Every operation that changes them is a request that reads its receipt,   *)
(* reads what it needs, and sends one batch of statements that D1 runs      *)
(* atomically.  The batch first inserts a guard row if everything the       *)
(* request relied on still holds; every other statement is conditional on   *)
(* that row.  Requests run concurrently, are repeated under the same        *)
(* operation id, and may lose the batch's answer: it may then have been     *)
(* applied, never be applied, or be applied later.                          *)
(*                                                                         *)
(* A row's id is minted by the request that inserts it, so it is named here *)
(* by that request.  There is no clock: a session or a step-up that has run *)
(* out, a lapsed link or challenge and a rate limit are reasons for which a *)
(* request may be refused at any moment.                                    *)
(***************************************************************************)
EXTENDS Naturals, FiniteSets

CONSTANTS
  Requests,     \* the requests; bounds how many there are
  Overlap,      \* bounds how many are under way at once
  Losses,       \* bounds how many batches lose their answer
  Operations,   \* operation ids that clients choose
  Plans,        \* which kinds they have and which ids: [Requests -> Kinds \X Operations]
  Addresses,    \* external addresses a user enrols
  Passkeys,     \* credentials of the user's authenticators
  FirstKeys,    \* those an established user starts with
  CodeNumbers,  \* the codes of one set (ten in the code)
  Flows,        \* recovery flows; bounds how many are started
  Challenges,   \* passkey registration challenges; bounds how many are started
  SignIns,      \* sessions made by signing in; bounds how many there are
  FirstSignIn,  \* the one of a user who has no passkey yet
  Initial,      \* the identity and the code set an established user starts with
  None

Kinds == {"enroll", "verify", "generate", "complete", "finish", "revoke"}

ASSUME RecoveryAssumption ==
  /\ None \notin Requests \cup SignIns \cup Operations \cup {"done", "replayed"}
  /\ Initial \notin Requests \cup {None}
  /\ SignIns \cap Requests = {}
  /\ FirstSignIn \in SignIns
  /\ FirstKeys \subseteq Passkeys /\ FirstKeys # {}
  /\ Overlap \in Nat /\ Losses \in Nat
  /\ Plans \subseteq [Requests -> Kinds \X Operations]

VARIABLES
  identities,  \* external recovery identities
  sessions,    \* auth_session rows
  passkeys,    \* auth_passkey_credential rows
  codeSets,    \* auth_recovery_code rows, by set
  flows,       \* recovery flows (auth_verification)
  challenges,  \* passkey registration challenges (auth_verification)
  receipts,    \* the receipt tables, by operation id
  recoveries,  \* how many account recoveries were completed
  requests     \* the requests' progress

vars == <<identities, sessions, passkeys, codeSets, flows, challenges, receipts,
          recoveries, requests>>
rows == <<identities, sessions, passkeys, codeSets, flows, challenges, receipts,
          recoveries>>

IdentityIds == Requests \cup {Initial}
CodeSetIds == Requests \cup {Initial}
SessionIds == Requests \cup SignIns

\* Enrolling and verifying an identity share one receipt table.
Tables == {"identity", "rotation", "completion", "enrollment", "revocation"}
Table(kind) ==
  CASE kind \in {"enroll", "verify"} -> "identity"
    [] kind = "generate" -> "rotation"
    [] kind = "complete" -> "completion"
    [] kind = "finish" -> "enrollment"
    [] kind = "revoke" -> "revocation"

\* What a request is about.  Generating codes has no other argument than its
\* operation id.
Subjects(kind) ==
  CASE kind = "enroll" -> Addresses
    [] kind = "verify" -> IdentityIds
    [] kind = "generate" -> {None}
    [] kind = "complete" -> [flow: Flows, set: CodeSetIds, number: CodeNumbers]
    [] kind = "finish" -> [challenge: Challenges, passkey: Passkeys]
    [] kind = "revoke" -> Passkeys

Subject == (UNION {Subjects(kind) : kind \in Kinds}) \cup {None}

\* A receipt: the request that wrote it (whose id its rows have), what it was
\* asked, and the code set a rotation replaced.
Receipt == [kind: Kinds, by: Requests, subject: Subject, seen: CodeSetIds \cup {None}]

ASSUME NoReceiptAssumption == None \notin Receipt

Answers == {None, "done", "replayed", "conflict", "refused", "unreadable", "unknown"}

\* A sign-in whose passkey has been checked has no row yet.  History: which
\* recovery a session descends from, and whether the passkey that it was given for
\* had been revoked by then.
Session == [state: {"none", "checked", "active", "ended"}, restricted: BOOLEAN,
            passkey: Passkeys \cup {None}, epoch: Nat, late: BOOLEAN]
Passkey == [state: {"none", "active", "revoked"}, epoch: Nat]
CodeSet == [made: {"none", "rotation", "recovery"}, unused: SUBSET CodeNumbers,
            used: SUBSET CodeNumbers, epoch: Nat]
Challenge == [state: {"none", "open", "spent"}, op: Operations \cup {None},
              session: SessionIds \cup {None}]
Request == [kind: Kinds, op: Operations, session: SessionIds \cup {None},
            subject: Subject, seen: CodeSetIds \cup {None},
            step: {"idle", "prepare", "batch", "readback", "answered"},
            answer: Answers, lost: {"no", "landing", "landed"}]

RowsTyped ==
  /\ identities \in [IdentityIds -> {"none", "pending", "lapsed", "verified"}]
  /\ sessions \in [SessionIds -> Session]
  /\ passkeys \in [Passkeys -> Passkey]
  /\ codeSets \in [CodeSetIds -> CodeSet]
  /\ \A n \in CodeSetIds : codeSets[n].unused \cap codeSets[n].used = {}
  /\ flows \in [Flows -> {"none", "open", "spent"}]
  /\ challenges \in [Challenges -> Challenge]
  /\ receipts \in [Tables -> [Operations -> Receipt \cup {None}]]
  /\ recoveries \in Nat

TypeOK == RowsTyped /\ requests \in [Requests -> Request]

-----------------------------------------------------------------------------
(* What the statements' conditions read. *)

\* sensitiveSessionPredicate and recoveryRemediationSessionPredicate.  A step-up
\* that has run out is a reason to refuse.
Live(s) == sessions[s].state = "active"
Unrestricted(s) == Live(s) /\ ~sessions[s].restricted

RecoveryValid == \E n \in IdentityIds : identities[n] = "verified"
ActiveSets == {n \in CodeSetIds : codeSets[n].unused # {}}
Active(p) == passkeys[p].state = "active"

Stored(r) == receipts[Table(requests[r].kind)][requests[r].op]
OperationAvailable(r) == Stored(r) = None
\* Mutant of SameIntent: a receipt of the operation id is enough.
SameIntentById(r, subject) == Stored(r).kind = requests[r].kind

SameIntent(r, subject) == Stored(r).kind = requests[r].kind /\ Stored(r).subject = subject
Replay(r, subject) == IF SameIntent(r, subject) THEN "replayed" ELSE "conflict"

\* No other identity of the user's is verified or waits for its verification.
CandidateAvailable(n) ==
  \A m \in IdentityIds \ {n} : identities[m] \notin {"pending", "verified"}

-----------------------------------------------------------------------------
(* The batches: the condition of the guard row, and the other statements. *)

\* Mutant of EnrollAuthorized: another identity may wait or be verified.
EnrollAuthorizedBeside(r) ==
  Unrestricted(requests[r].session) /\ OperationAvailable(r)

EnrollAuthorized(r) ==
  Unrestricted(requests[r].session) /\ CandidateAvailable(r) /\ OperationAvailable(r)

VerifyAuthorized(r) ==
  LET n == requests[r].subject
  IN /\ Unrestricted(requests[r].session)
     /\ identities[n] = "pending"
     /\ CandidateAvailable(n)
     /\ OperationAvailable(r)

\* Mutant of GenerateAuthorized: the sets are not compared with those it read.
GenerateAuthorizedUnseen(r) ==
  Unrestricted(requests[r].session) /\ RecoveryValid /\ OperationAvailable(r)

\* Mutant of GenerateAuthorized: the operation id may have got a receipt.
GenerateAuthorizedAgain(r) ==
  /\ Unrestricted(requests[r].session)
  /\ RecoveryValid
  /\ ActiveSets = {requests[r].seen} \ {None}

GenerateAuthorized(r) ==
  /\ Unrestricted(requests[r].session)
  /\ RecoveryValid
  /\ ActiveSets = {requests[r].seen} \ {None}
  /\ OperationAvailable(r)

\* Mutant of CompleteAuthorized: the code was looked at before, and only there.
CompleteAuthorizedByLink(r) ==
  /\ flows[requests[r].subject.flow] = "open"
  /\ RecoveryValid
  /\ OperationAvailable(r)

CompleteAuthorized(r) ==
  LET proof == requests[r].subject
  IN /\ flows[proof.flow] = "open"
     /\ proof.number \in codeSets[proof.set].unused
     /\ RecoveryValid
     /\ OperationAvailable(r)

FinishAuthorized(r) ==
  LET s == requests[r].session
      proof == requests[r].subject
  IN /\ Live(s)
     /\ RecoveryValid
     /\ challenges[proof.challenge].state = "open"
     /\ passkeys[proof.passkey].state = "none"
     /\ OperationAvailable(r)

\* Mutant of RevokeAuthorized: the other passkey is looked at before, and only there.
RevokeAuthorizedLast(r) ==
  /\ Unrestricted(requests[r].session)
  /\ RecoveryValid
  /\ Active(requests[r].subject)
  /\ OperationAvailable(r)

RevokeAuthorized(r) ==
  LET p == requests[r].subject
  IN /\ Unrestricted(requests[r].session)
     /\ RecoveryValid
     /\ Active(p)
     /\ \E q \in Passkeys \ {p} : Active(q)
     /\ OperationAvailable(r)

Authorized(r) ==
  CASE requests[r].kind = "enroll" -> EnrollAuthorized(r)
    [] requests[r].kind = "verify" -> VerifyAuthorized(r)
    [] requests[r].kind = "generate" -> GenerateAuthorized(r)
    [] requests[r].kind = "complete" -> CompleteAuthorized(r)
    [] requests[r].kind = "finish" -> FinishAuthorized(r)
    [] requests[r].kind = "revoke" -> RevokeAuthorized(r)

WriteReceipt(r) ==
  receipts' = [receipts EXCEPT ![Table(requests[r].kind)][requests[r].op] =
                 [kind |-> requests[r].kind, by |-> r, subject |-> requests[r].subject,
                  seen |-> requests[r].seen]]

\* All unused codes are revoked and a new set is inserted.
NewCodes(r, made, epoch) ==
  codeSets' = [n \in CodeSetIds |->
                 IF n = r
                 THEN [made |-> made, unused |-> CodeNumbers, used |-> {}, epoch |-> epoch]
                 ELSE [codeSets[n] EXCEPT !.unused = {}]]

NewSession(restricted, epoch) ==
  [state |-> "active", restricted |-> restricted, passkey |-> None, epoch |-> epoch,
   late |-> FALSE]

Enroll(r) ==
  /\ identities' = [identities EXCEPT ![r] = "pending"]
  /\ UNCHANGED <<sessions, passkeys, codeSets, flows, challenges, recoveries>>

Verify(r) ==
  /\ identities' = [identities EXCEPT ![requests[r].subject] = "verified"]
  /\ UNCHANGED <<sessions, passkeys, codeSets, flows, challenges, recoveries>>

Generate(r) ==
  /\ NewCodes(r, "rotation", sessions[requests[r].session].epoch)
  /\ UNCHANGED <<identities, sessions, passkeys, flows, challenges, recoveries>>

\* Mutant of Complete: the code stays usable.
CompleteKeepingCode(r) ==
  LET proof == requests[r].subject
  IN /\ flows' = [flows EXCEPT ![proof.flow] = "spent"]
     /\ codeSets' = [codeSets EXCEPT ![proof.set].used = @ \cup {proof.number}]
     /\ sessions' = [sessions EXCEPT ![r] =
                       NewSession(TRUE, codeSets[proof.set].epoch)]
     /\ UNCHANGED <<identities, passkeys, challenges, recoveries>>

\* The two proofs are consumed and give a session that is restricted to
\* enrolling a passkey.
Complete(r) ==
  LET proof == requests[r].subject
  IN /\ flows' = [flows EXCEPT ![proof.flow] = "spent"]
     /\ codeSets' = [codeSets EXCEPT ![proof.set].unused = @ \ {proof.number},
                                     ![proof.set].used = @ \cup {proof.number}]
     /\ sessions' = [sessions EXCEPT ![r] =
                       NewSession(TRUE, codeSets[proof.set].epoch)]
     /\ UNCHANGED <<identities, passkeys, challenges, recoveries>>

\* An unrestricted session adds a passkey.
AddPasskey(r) ==
  LET proof == requests[r].subject
  IN /\ challenges' = [challenges EXCEPT ![proof.challenge].state = "spent"]
     /\ passkeys' = [passkeys EXCEPT ![proof.passkey] =
                       [state |-> "active",
                        epoch |-> sessions[requests[r].session].epoch]]
     /\ UNCHANGED <<identities, sessions, codeSets, flows, recoveries>>

\* Mutant of Remediate: only the session that asked for it ends.
RemediateOneSession(r) ==
  LET proof == requests[r].subject
      epoch == recoveries + 1
  IN /\ challenges' = [challenges EXCEPT ![proof.challenge].state = "spent"]
     /\ passkeys' = [p \in Passkeys |->
                       IF p = proof.passkey THEN [state |-> "active", epoch |-> epoch]
                       ELSE IF Active(p) THEN [passkeys[p] EXCEPT !.state = "revoked"]
                       ELSE passkeys[p]]
     /\ sessions' = [sessions EXCEPT ![requests[r].session].state = "ended",
                                     ![r] = NewSession(FALSE, epoch)]
     /\ NewCodes(r, "recovery", epoch)
     /\ recoveries' = epoch
     /\ UNCHANGED <<identities, flows>>

\* A restricted one completes the recovery: its passkey replaces all that the
\* user signed in with before.
Remediate(r) ==
  LET proof == requests[r].subject
      epoch == recoveries + 1
  IN /\ challenges' = [challenges EXCEPT ![proof.challenge].state = "spent"]
     /\ passkeys' = [p \in Passkeys |->
                       IF p = proof.passkey THEN [state |-> "active", epoch |-> epoch]
                       ELSE IF Active(p) THEN [passkeys[p] EXCEPT !.state = "revoked"]
                       ELSE passkeys[p]]
     /\ sessions' = [s \in SessionIds |->
                       IF s = r THEN NewSession(FALSE, epoch)
                       ELSE IF Live(s) THEN [sessions[s] EXCEPT !.state = "ended"]
                       ELSE sessions[s]]
     /\ NewCodes(r, "recovery", epoch)
     /\ recoveries' = epoch
     /\ UNCHANGED <<identities, flows>>

Finish(r) ==
  IF sessions[requests[r].session].restricted THEN Remediate(r) ELSE AddPasskey(r)

Revoke(r) ==
  /\ passkeys' = [passkeys EXCEPT ![requests[r].subject].state = "revoked"]
  /\ UNCHANGED <<identities, sessions, codeSets, flows, challenges, recoveries>>

Commit(r) ==
  /\ WriteReceipt(r)
  /\ CASE requests[r].kind = "enroll" -> Enroll(r)
       [] requests[r].kind = "verify" -> Verify(r)
       [] requests[r].kind = "generate" -> Generate(r)
       [] requests[r].kind = "complete" -> Complete(r)
       [] requests[r].kind = "finish" -> Finish(r)
       [] requests[r].kind = "revoke" -> Revoke(r)

-----------------------------------------------------------------------------
(* The steps of a request. *)

Goto(r, step) == requests' = [requests EXCEPT ![r].step = step]
Answer(r, answer) ==
  requests' = [requests EXCEPT ![r].step = "answered", ![r].answer = answer]

\* A refused request leaves nothing behind.
Refusal(r) ==
  requests' = [requests EXCEPT ![r] =
    [@ EXCEPT !.step = "answered", !.answer = "refused",
              !.session = None, !.subject = None, !.seen = None]]

\* What the user can ask for: rows that exist, in a session that the request's
\* authentication accepted.  A session that may not ask is refused at once.
MayAsk(kind, s, subject) ==
  CASE kind = "enroll" -> s # None /\ Unrestricted(s)
    [] kind = "verify" -> s # None /\ Unrestricted(s) /\ identities[subject] # "none"
    [] kind = "generate" -> s # None /\ Unrestricted(s)
    [] kind = "complete" -> /\ s = None
                            /\ flows[subject.flow] # "none"
                            /\ codeSets[subject.set].made # "none"
    [] kind = "finish" -> /\ s # None /\ Live(s)
                          /\ challenges[subject.challenge].state # "none"
    [] kind = "revoke" -> s # None /\ Unrestricted(s) /\ passkeys[subject].state # "none"

Waiting(kind) == {r \in Requests : requests[r].kind = kind /\ requests[r].step = "idle"}
UnderWay == {r \in Requests : requests[r].step \notin {"idle", "answered"}}

\* An operation id that has a receipt is never executed again.
Begin(r, s, subject) ==
  /\ requests[r].step = "idle" /\ Cardinality(UnderWay) < Overlap
  /\ MayAsk(requests[r].kind, s, subject)
  /\ requests' = [requests EXCEPT
       ![r].session = s, ![r].subject = subject,
       ![r].step = IF OperationAvailable(r) THEN "prepare" ELSE "answered",
       ![r].answer = IF OperationAvailable(r) THEN None ELSE Replay(r, subject)]
  /\ UNCHANGED rows

\* What the reads before the batch must find.  They come one after the other in
\* the code; each of their conditions is asked again by the batch.
Prepared(r) ==
  LET subject == requests[r].subject
  IN CASE requests[r].kind = "enroll" -> TRUE
       [] requests[r].kind = "verify" -> identities[subject] = "pending"
       [] requests[r].kind = "generate" -> TRUE
       [] requests[r].kind = "complete" -> /\ flows[subject.flow] = "open"
                                           /\ RecoveryValid
                                           /\ subject.number \in codeSets[subject.set].unused
       [] requests[r].kind = "finish" ->
            /\ RecoveryValid
            /\ challenges[subject.challenge] =
                 [state |-> "open", op |-> requests[r].op, session |-> requests[r].session]
       [] requests[r].kind = "revoke" -> Active(subject)

\* snapshotActiveSet: the codes' metadata must be exactly a set id, the same in
\* all of them.
Unreadable ==
  \/ \E n \in ActiveSets : codeSets[n].made # "rotation"
  \/ Cardinality(ActiveSets) > 1

Prepare(r) ==
  /\ requests[r].step = "prepare"
  /\ Prepared(r)
  /\ IF requests[r].kind # "generate" THEN Goto(r, "batch")
     ELSE IF Unreadable THEN Answer(r, "unreadable")
     ELSE \E seen \in CodeSetIds \cup {None} :
            /\ ActiveSets = {seen} \ {None}
            /\ requests' = [requests EXCEPT ![r].step = "batch", ![r].seen = seen]
  /\ UNCHANGED rows

\* Nothing is written: the session, its step-up, a link, a challenge or a rate
\* limit has run out, or a read, a delivery or the batch itself has failed.
Refuse(r) ==
  /\ requests[r].step \in {"prepare", "batch"}
  /\ Refusal(r)
  /\ UNCHANGED rows

\* The batch's conditions that are asked before the operation id's when the
\* reason of a refusal is looked for.
AskedBeforeOperation(r) ==
  LET s == requests[r].session
      subject == requests[r].subject
  IN CASE requests[r].kind = "enroll" -> Unrestricted(s)
       [] requests[r].kind = "verify" -> Unrestricted(s)
       [] requests[r].kind = "generate" -> Unrestricted(s) /\ RecoveryValid
       [] requests[r].kind = "complete" -> TRUE
       [] requests[r].kind = "finish" -> /\ Live(s)
                                         /\ RecoveryValid
       [] requests[r].kind = "revoke" -> /\ Unrestricted(s) /\ RecoveryValid
                                         /\ Active(subject)
                                         /\ \E q \in Passkeys \ {subject} : Active(q)

\* The batch is answered.
CommitAnswered(r) ==
  /\ requests[r].step = "batch" /\ Authorized(r)
  /\ Commit(r)
  /\ Answer(r, "done")

NotAuthorized(r) ==
  /\ requests[r].step = "batch" /\ ~Authorized(r)
  /\ IF OperationAvailable(r) \/ ~AskedBeforeOperation(r) THEN Refusal(r)
     ELSE Answer(r, Replay(r, requests[r].subject))
  /\ UNCHANGED rows

\* commitState "unknown": the answer is lost, and the batch may be applied before
\* or after the receipt is read back, or never.
LoseAnswer(r) ==
  /\ requests[r].step = "batch"
  /\ Cardinality({q \in Requests : requests[q].lost # "no"}) < Losses
  /\ requests' = [requests EXCEPT ![r].step = "readback", ![r].lost = "landing"]
  /\ UNCHANGED rows

Land(r) ==
  /\ requests[r].lost = "landing"
  /\ requests' = [requests EXCEPT ![r].lost = "landed"]
  /\ IF Authorized(r) THEN Commit(r) ELSE UNCHANGED rows

ReadBack(r) ==
  /\ requests[r].step = "readback"
  /\ Answer(r, IF OperationAvailable(r) THEN "unknown"
               ELSE Replay(r, requests[r].subject))
  /\ UNCHANGED rows

RequestStep(r) ==
  \/ \E s \in SessionIds \cup {None}, subject \in Subjects(requests[r].kind) :
       Begin(r, s, subject)
  \/ Prepare(r) \/ Refuse(r)
  \/ CommitAnswered(r) \/ NotAuthorized(r) \/ LoseAnswer(r) \/ Land(r) \/ ReadBack(r)

-----------------------------------------------------------------------------
(* What else changes the rows. *)

\* AccountRecovery.start: the link goes to the identity's address.  Links that
\* nobody follows, and below challenges that nobody answers, are left out.
StartRecovery(f) ==
  /\ flows[f] = "none"
  /\ Cardinality({g \in Flows : flows[g] = "open"}) < Cardinality(Waiting("complete"))
  /\ RecoveryValid /\ ActiveSets # {}
  /\ flows' = [flows EXCEPT ![f] = "open"]
  /\ UNCHANGED <<identities, sessions, passkeys, codeSets, challenges, receipts,
                 recoveries, requests>>

\* PasskeyEnrollment.start: the challenge is for one operation of one session.
StartEnrollment(c, op, s) ==
  /\ challenges[c].state = "none"
  /\ Cardinality({d \in Challenges : challenges[d].state = "open" /\ challenges[d].op = op})
       < Cardinality({r \in Waiting("finish") : requests[r].op = op})
  /\ Live(s)
  /\ RecoveryValid
  /\ challenges' = [challenges EXCEPT ![c] = [state |-> "open", op |-> op, session |-> s]]
  /\ UNCHANGED <<identities, sessions, passkeys, codeSets, flows, receipts, recoveries,
                 requests>>

\* Signing in, as far as the passkey is looked at: it is not revoked when its
\* signature count is updated.
CheckPasskey(s, p) ==
  /\ sessions[s].state = "none"
  /\ Active(p) /\ RecoveryValid
  /\ sessions' = [sessions EXCEPT ![s] =
                    [@ EXCEPT !.state = "checked", !.passkey = p, !.epoch = passkeys[p].epoch]]
  /\ UNCHANGED <<identities, passkeys, codeSets, flows, challenges, receipts, recoveries,
                 requests>>

\* The rest of it: the session is inserted, whatever the passkey is by now.  A
\* sign-in that fails in between stays where it is.
CompletePrimaryFactor(s) ==
  /\ sessions[s].state = "checked"
  /\ sessions' = [sessions EXCEPT ![s] =
                    [@ EXCEPT !.state = "active", !.late = ~Active(sessions[s].passkey)]]
  /\ UNCHANGED <<identities, passkeys, codeSets, flows, challenges, receipts, recoveries,
                 requests>>

\* A recovery identity is not verified in time and may be enrolled again.
LapseIdentity(n) ==
  /\ identities[n] = "pending"
  /\ identities' = [identities EXCEPT ![n] = "lapsed"]
  /\ UNCHANGED <<sessions, passkeys, codeSets, flows, challenges, receipts, recoveries,
                 requests>>

Next ==
  \/ \E r \in Requests : RequestStep(r)
  \/ \E f \in Flows : StartRecovery(f)
  \/ \E c \in Challenges, op \in Operations, s \in SessionIds : StartEnrollment(c, op, s)
  \/ \E s \in SignIns, p \in Passkeys : CheckPasskey(s, p)
  \/ \E s \in SignIns : CompletePrimaryFactor(s)
  \/ \E n \in IdentityIds : LapseIdentity(n)

-----------------------------------------------------------------------------
\* A user who signed in with a password and has set nothing up, or one who has a
\* verified identity, passkeys and a set of codes and is signed out.
Init ==
  \E established \in BOOLEAN, plan \in Plans :
    /\ identities = [n \in IdentityIds |->
                       IF established /\ n = Initial THEN "verified" ELSE "none"]
    /\ sessions = [s \in SessionIds |->
                     [state |-> IF s = FirstSignIn /\ ~established THEN "active" ELSE "none",
                      restricted |-> FALSE, passkey |-> None, epoch |-> 0, late |-> FALSE]]
    /\ passkeys = [p \in Passkeys |->
                     [state |-> IF established /\ p \in FirstKeys THEN "active" ELSE "none",
                      epoch |-> 0]]
    /\ codeSets = [n \in CodeSetIds |->
                     [made |-> IF established /\ n = Initial THEN "rotation" ELSE "none",
                      unused |-> IF established /\ n = Initial THEN CodeNumbers ELSE {},
                      used |-> {}, epoch |-> 0]]
    /\ flows = [f \in Flows |-> "none"]
    /\ challenges = [c \in Challenges |-> [state |-> "none", op |-> None, session |-> None]]
    /\ receipts = [t \in Tables |-> [op \in Operations |-> None]]
    /\ recoveries = 0
    /\ requests = [r \in Requests |->
                     [kind |-> plan[r][1], op |-> plan[r][2], session |-> None, subject |-> None,
                      seen |-> None, step |-> "idle", answer |-> None, lost |-> "no"]]

Spec == Init /\ [][Next]_vars

-----------------------------------------------------------------------------
(* Properties *)

\* While a recovery identity waits for its verification or is verified, the user
\* has no other: enrolments that race, and one whose challenge lapses while the
\* other is enrolled, do not leave two (candidateAvailablePredicate).
OneLiveIdentity ==
  \A m, n \in IdentityIds :
    {identities[m], identities[n]} \subseteq {"pending", "verified"} => m = n

\* A user who has had a passkey keeps one: two sessions that each revoke one of
\* the last two do not leave none, nor does a recovery that races with them.
PasskeyRemains ==
  (\E p \in Passkeys : passkeys[p].state # "none") => \E p \in Passkeys : Active(p)

\* Once an account recovery has completed, what gives access is of that recovery:
\* no session, passkey or unused code of before is left, whichever requests were
\* under way when it committed.  The one thing that survives it is a sign-in whose
\* passkey had been checked and whose session was inserted after, with what is
\* done in that session: without such a session there is nothing of before.
OfLateSignIn(epoch) ==
  \E s \in SignIns : Live(s) /\ sessions[s].late /\ sessions[s].epoch = epoch
Current(epoch) == epoch = recoveries \/ OfLateSignIn(epoch)
RecoveryRetiresTheRest ==
  /\ \A s \in SessionIds : Live(s) => Current(sessions[s].epoch)
  /\ \A p \in Passkeys : Active(p) => Current(passkeys[p].epoch)
  /\ \A n \in ActiveSets : Current(codeSets[n].epoch)

\* Codes can be used in one set at a time, and no two rotations replaced the same
\* set: a set whose codes a user was shown is not replaced by a request that
\* started before it existed.
Rotations == {op \in Operations : receipts["rotation"][op] # None}
RotationsChain ==
  /\ \A m, n \in ActiveSets : m = n
  /\ \A o1, o2 \in Rotations :
       LET r1 == receipts["rotation"][o1]
           r2 == receipts["rotation"][o2]
       IN r1.seen = r2.seen /\ r1.seen # None => o1 = o2

\* A recovery spends one link and one code and gives one restricted session:
\* links, codes and sessions are those of the completion receipts, each of one.
Completions == {receipts["completion"][op] : op \in Operations} \ {None}
ProofsAreSpentOnce ==
  /\ \A c1, c2 \in Completions :
       c1.subject.flow = c2.subject.flow
       \/ [c1.subject EXCEPT !.flow = None] = [c2.subject EXCEPT !.flow = None] => c1 = c2
  /\ {f \in Flows : flows[f] = "spent"} = {c.subject.flow : c \in Completions}
  /\ \A n \in CodeSetIds :
       codeSets[n].used = {c.subject.number : c \in {d \in Completions : d.subject.set = n}}
  /\ {s \in SessionIds : sessions[s].restricted} = {c.by : c \in Completions}

\* A caller that is told its request was carried out, by its own answer or by a
\* receipt, finds it carried out as asked, with the rows to show for it.
CarriedOut(receipt) ==
  CASE receipt.kind = "enroll" -> identities[receipt.by] # "none"
    [] receipt.kind = "verify" -> identities[receipt.subject] = "verified"
    [] receipt.kind = "generate" -> codeSets[receipt.by].made = "rotation"
    [] receipt.kind = "complete" -> sessions[receipt.by].restricted
    [] receipt.kind = "finish" -> passkeys[receipt.subject.passkey].state # "none"
    [] receipt.kind = "revoke" -> passkeys[receipt.subject].state = "revoked"
AnswersAreTrue ==
  \A r \in Requests :
    requests[r].answer \in {"done", "replayed"} =>
      /\ Stored(r) # None
      /\ Stored(r).kind = requests[r].kind
      /\ Stored(r).subject = requests[r].subject
      /\ CarriedOut(Stored(r))
      /\ requests[r].answer = "done" => Stored(r).by = r

\* An operation id makes rows once, however often and in whatever circumstances it
\* is sent: what a request made, its receipt names.
OneEffectPerOperation ==
  \A r \in Requests :
    identities[r] # "none" \/ codeSets[r].made # "none" \/ sessions[r].state # "none" =>
      Stored(r) # None /\ Stored(r).by = r

\* After a recovery whose one-time codes were lost, the user rotates them: a
\* request to generate codes is not turned away for the codes that there are.
CodesCanBeRotated == \A r \in Requests : requests[r].answer # "unreadable"
=============================================================================
