------------------------- MODULE OrganizationControl -------------------------
(***************************************************************************)
(* How a deployment gets its owner, its organization and its mailbox, and   *)
(* how the mailbox is renamed and the organization suspended and resumed:   *)
(* rows of the control-plane D1 database, changed by                        *)
(* FirstOwnerPasswordEnrollmentD1, MailboxAdministrationD1Integration and    *)
(* OrganizationAdministrationD1Integration.                                 *)
(*                                                                         *)
(* As in AccountRecovery, a request reads its receipt and sends one batch,  *)
(* which D1 applies atomically: a guard row if everything the request       *)
(* relies on still holds, the changes and a receipt if there is the guard   *)
(* row.  Requests of several users run concurrently, are repeated under the *)
(* same operation id, also by another user, and may lose the batch's        *)
(* answer.                                                                  *)
(*                                                                         *)
(* Rows that this code only reads are left out: a session or a step-up that *)
(* has run out, an identity that is not the configured owner's, somebody's  *)
(* credentials, a revoked membership or permission, and an operation whose  *)
(* fence row stops a suspension (see OutboundDelivery) are reasons for      *)
(* which a request may be refused at any moment.                            *)
(***************************************************************************)
EXTENDS Naturals, FiniteSets

CONSTANTS
  Requests,    \* the requests; bounds how many there are
  Overlap,     \* bounds how many are under way at once
  Losses,      \* bounds how many batches lose their answer
  Operations,  \* operation ids that clients choose
  Actors,      \* users
  Names,       \* display names, and passwords
  Plans,       \* kinds, ids and users of the requests
  Initial,     \* the request, and the operation id, of a deployment that is set up
  None

Kinds == {"enroll", "bootstrap", "rename", "suspend", "resume"}

ASSUME ControlAssumption ==
  /\ None \notin Operations \cup Requests \cup Actors \cup Names
  /\ Initial \notin Operations \cup Requests \cup {None}
  /\ Overlap \in Nat /\ Losses \in Nat
  /\ Plans \subseteq [Requests -> Kinds \X Operations \X Actors]

VARIABLES
  organization,  \* the app_organization row
  mailbox,       \* the app_mailbox row
  receipts,      \* the receipt tables, by operation id
  requests       \* the requests' progress

vars == <<organization, mailbox, receipts, requests>>
rows == <<organization, mailbox, receipts>>

OperationIds == Operations \cup {Initial}

\* Creating and renaming the mailbox share one receipt table; the enrollment of
\* the first owner is its own receipt.
Tables == {"enrollment", "mailbox", "organization"}
Table(kind) ==
  CASE kind = "enroll" -> "enrollment"
    [] kind \in {"bootstrap", "rename"} -> "mailbox"
    [] kind \in {"suspend", "resume"} -> "organization"

\* What a request asks for: a password or a display name, and the version that is
\* to be changed (0 where there is none).
Intent == [name: Names \cup {None}, expected: Nat]
NoIntent == [name |-> None, expected |-> 0]

\* A receipt keeps it, with the request that wrote it, its user and the version it
\* made.
Receipt == [kind: Kinds, by: Requests \cup {Initial}, actor: Actors, intent: Intent,
            version: Nat]

Answers == {"done", "replayed", "conflict", "refused", "unknown"}

ASSUME NoneAssumption == None \notin Receipt /\ None \notin Answers

Request == [kind: Kinds, op: Operations, actor: Actors, intent: Intent,
            step: {"idle", "batch", "readback", "answered"},
            answer: Answers \cup {None}, told: Nat, lost: {"no", "landing", "landed"}]

RowsTyped ==
  /\ organization \in [status: {"none", "active", "suspended"}, version: Nat]
  /\ mailbox \in [creator: Actors \cup {None}, name: Names \cup {None}, version: Nat]
  /\ receipts \in [Tables -> [OperationIds -> Receipt \cup {None}]]

\* The mailbox row refers to the organization's, and neither is without the other.
RowsComeTogether ==
  /\ organization.version = 0 <=> organization.status = "none"
  /\ organization.version = 0 <=> mailbox.version = 0
  /\ mailbox.version = 0 <=> mailbox.creator = None
  /\ \A op \in OperationIds, t \in Tables :
       receipts[t][op] # None => Table(receipts[t][op].kind) = t

TypeOK == RowsTyped /\ RowsComeTogether /\ requests \in [Requests -> Request]

-----------------------------------------------------------------------------
(* Receipts. *)

Stored(r) == receipts[Table(requests[r].kind)][requests[r].op]
Enrollments == {receipts["enrollment"][op] : op \in OperationIds} \ {None}

\* Mutant of OperationAvailable: only the request's own operation id counts.
OperationAvailableById(r) == Stored(r) = None

\* The enrollment of a first owner is the only one, whatever its operation id.
OperationAvailable(r) ==
  IF requests[r].kind = "enroll" THEN Enrollments = {} ELSE Stored(r) = None

\* Mutant of Found: the receipt may be another user's.
FoundOfAnyone(r) == Stored(r)

\* readReceipt: all but the enrollment's look for the user's own receipt.
Found(r) ==
  LET receipt == Stored(r)
  IN IF receipt = None \/ requests[r].kind = "enroll" \/ receipt.actor = requests[r].actor
     THEN receipt ELSE None

\* receiptMatches.
SameIntent(r, intent) ==
  LET receipt == Found(r)
  IN /\ receipt.kind = requests[r].kind
     /\ receipt.intent = intent
     /\ requests[r].kind = "enroll" => receipt.actor = requests[r].actor

-----------------------------------------------------------------------------
(* The batches: the condition of the guard row, and the other statements. *)

\* firstOwnerEnrollmentDeploymentEmptyPredicate.
DeploymentEmpty ==
  /\ organization.version = 0 /\ mailbox.version = 0
  /\ \A op \in OperationIds : receipts["mailbox"][op] = None

\* The mailbox belongs to the user who enrolled as first owner.
SealActorValid(r) == \E e \in Enrollments : e.actor = requests[r].actor

EnrollAuthorized(r) == DeploymentEmpty /\ OperationAvailable(r)

BootstrapAuthorized(r) ==
  SealActorValid(r) /\ mailbox.version = 0 /\ OperationAvailable(r)

\* Mutant of RenameAuthorized: the mailbox may have been renamed since.
RenameAuthorizedUnseen(r) == mailbox.version > 0 /\ OperationAvailable(r)

\* A suspended organization's mailbox may be renamed.
RenameAuthorized(r) ==
  /\ mailbox.version > 0 /\ mailbox.version = requests[r].intent.expected
  /\ OperationAvailable(r)

TransitionAuthorized(r, source) ==
  /\ organization.status = source
  /\ organization.version = requests[r].intent.expected
  /\ OperationAvailable(r)

Authorized(r) ==
  CASE requests[r].kind = "enroll" -> EnrollAuthorized(r)
    [] requests[r].kind = "bootstrap" -> BootstrapAuthorized(r)
    [] requests[r].kind = "rename" -> RenameAuthorized(r)
    [] requests[r].kind = "suspend" -> TransitionAuthorized(r, "active")
    [] requests[r].kind = "resume" -> TransitionAuthorized(r, "suspended")

\* The receipt's result is the row as the batch leaves it.
Result(r) ==
  CASE requests[r].kind = "enroll" -> 0
    [] requests[r].kind = "bootstrap" -> 1
    [] requests[r].kind = "rename" -> mailbox.version + 1
    [] requests[r].kind \in {"suspend", "resume"} -> organization.version + 1

WriteReceipt(r) ==
  receipts' = [receipts EXCEPT ![Table(requests[r].kind)][requests[r].op] =
                 [kind |-> requests[r].kind, by |-> r, actor |-> requests[r].actor,
                  intent |-> requests[r].intent, version |-> Result(r)]]

\* Mutant of Bootstrap: the organization is taken to be there.
BootstrapMailboxOnly(r) ==
  /\ mailbox' = [creator |-> requests[r].actor, name |-> requests[r].intent.name,
                version |-> 1]
  /\ UNCHANGED organization

Bootstrap(r) ==
  /\ organization' = [status |-> "active", version |-> 1]
  /\ mailbox' = [creator |-> requests[r].actor, name |-> requests[r].intent.name,
                version |-> 1]

Rename(r) ==
  /\ mailbox' = [mailbox EXCEPT !.name = requests[r].intent.name, !.version = @ + 1]
  /\ UNCHANGED organization

Transition(target) ==
  /\ organization' = [status |-> target, version |-> organization.version + 1]
  /\ UNCHANGED mailbox

Commit(r) ==
  /\ WriteReceipt(r)
  /\ CASE requests[r].kind = "enroll" -> UNCHANGED <<organization, mailbox>>
       [] requests[r].kind = "bootstrap" -> Bootstrap(r)
       [] requests[r].kind = "rename" -> Rename(r)
       [] requests[r].kind = "suspend" -> Transition("suspended")
       [] requests[r].kind = "resume" -> Transition("active")

-----------------------------------------------------------------------------
(* A request. *)

Answer(r, answer, told) ==
  requests' = [requests EXCEPT ![r].step = "answered", ![r].answer = answer,
                               ![r].told = told]

\* What a receipt that was found answers, or the lack of one.
AnswerWithReceipt(r, without) ==
  IF Found(r) = None THEN Answer(r, without, 0)
  ELSE IF SameIntent(r, requests[r].intent)
       THEN Answer(r, "replayed", Found(r).version)
       ELSE Answer(r, "conflict", 0)

\* A client names a version it has seen.
Intents(kind) ==
  CASE kind \in {"enroll", "bootstrap"} -> [name: Names, expected: {0}]
    [] kind = "rename" -> [name: Names, expected: 1 .. mailbox.version]
    [] kind \in {"suspend", "resume"} -> [name: {None}, expected: 1 .. organization.version]

UnderWay == {r \in Requests : requests[r].step \notin {"idle", "answered"}}

\* A receipt of the operation id answers before anything else is looked at.
Begin(r, intent) ==
  /\ requests[r].step = "idle" /\ Cardinality(UnderWay) < Overlap
  /\ LET asked == [requests[r] EXCEPT !.intent = intent]
     IN requests' = [requests EXCEPT ![r] =
          IF Found(r) = None THEN [asked EXCEPT !.step = "batch"]
          ELSE IF SameIntent(r, intent)
               THEN [asked EXCEPT !.step = "answered", !.answer = "replayed",
                                  !.told = Found(r).version]
               ELSE [asked EXCEPT !.step = "answered", !.answer = "conflict"]]
  /\ UNCHANGED rows

\* Nothing is written, for a reason that is not modelled.
Refuse(r) ==
  /\ requests[r].step = "batch"
  /\ Answer(r, "refused", 0)
  /\ UNCHANGED rows

CommitAnswered(r) ==
  /\ requests[r].step = "batch" /\ Authorized(r)
  /\ Commit(r)
  /\ Answer(r, "done", Result(r))

\* The batch tells which of its conditions did not hold.  A deployment that is not
\* empty is a reason before the operation id is; all others come after it.
NotAuthorized(r) ==
  /\ requests[r].step = "batch" /\ ~Authorized(r)
  /\ IF OperationAvailable(r) \/ (requests[r].kind = "enroll" /\ ~DeploymentEmpty)
     THEN Answer(r, "refused", 0)
     ELSE AnswerWithReceipt(r, "conflict")
  /\ UNCHANGED rows

\* commitState "unknown": the answer is lost, and the batch may be applied before
\* or after the receipt is read back, or never.
LoseAnswer(r) ==
  /\ requests[r].step = "batch"
  /\ Cardinality({q \in Requests : requests[q].lost # "no"}) < Losses
  /\ requests' = [requests EXCEPT ![r].step = "readback", ![r].lost = "landing"]
  /\ UNCHANGED rows

Land(r) ==
  /\ requests[r].lost = "landing"
  /\ requests' = [requests EXCEPT ![r].lost = "landed"]
  /\ IF Authorized(r) THEN Commit(r) ELSE UNCHANGED rows

\* Mutant of ReadBack: without a receipt the batch is taken to have failed.
ReadBackOrRefused(r) ==
  /\ requests[r].step = "readback"
  /\ AnswerWithReceipt(r, "refused")
  /\ UNCHANGED rows

\* Without a receipt, and when it cannot be read, the outcome stays unknown.
ReadBack(r) ==
  /\ requests[r].step = "readback"
  /\ AnswerWithReceipt(r, "unknown") \/ Answer(r, "unknown", 0)
  /\ UNCHANGED rows

Next ==
  \E r \in Requests :
    \/ \E intent \in Intents(requests[r].kind) : Begin(r, intent)
    \/ Refuse(r) \/ CommitAnswered(r) \/ NotAuthorized(r)
    \/ LoseAnswer(r) \/ Land(r) \/ ReadBack(r)

-----------------------------------------------------------------------------
InitialReceipt(kind, owner, name, version) ==
  [kind |-> kind, by |-> Initial, actor |-> owner,
   intent |-> [name |-> name, expected |-> 0], version |-> version]

\* A fresh deployment, or one whose mailbox has been created.
Init ==
  \E established \in BOOLEAN, owner \in Actors, name \in Names, plan \in Plans :
    /\ organization = IF established THEN [status |-> "active", version |-> 1]
                                     ELSE [status |-> "none", version |-> 0]
    /\ mailbox = IF established THEN [creator |-> owner, name |-> name, version |-> 1]
                                ELSE [creator |-> None, name |-> None, version |-> 0]
    /\ receipts = [t \in Tables |-> [op \in OperationIds |->
         CASE established /\ op = Initial /\ t = "enrollment" ->
                InitialReceipt("enroll", owner, name, 0)
           [] established /\ op = Initial /\ t = "mailbox" ->
                InitialReceipt("bootstrap", owner, name, 1)
           [] OTHER -> None]]
    /\ requests = [r \in Requests |->
         [kind |-> plan[r][1], op |-> plan[r][2], actor |-> plan[r][3],
          intent |-> NoIntent, step |-> "idle", answer |-> None, told |-> 0, lost |-> "no"]]

Spec == Init /\ [][Next]_vars

-----------------------------------------------------------------------------
(* Properties *)

\* A deployment has one first owner, and the mailbox is that user's: users who
\* enroll or create the mailbox at the same time, or whose lost batches land
\* late, do not both succeed, nor does one get the other's
\* (FirstOwnerPasswordEnrollmentD1, sealActorValid).
SealedOwner ==
  /\ \A e1, e2 \in Enrollments : e1 = e2
  /\ mailbox.version > 0 => \E e \in Enrollments : e.actor = mailbox.creator
  /\ \A op \in OperationIds :
       LET receipt == receipts["mailbox"][op]
       IN receipt # None /\ receipt.kind = "bootstrap" => receipt.actor = mailbox.creator

\* The receipts are the rows' whole history: every version was made by one
\* operation, from the version its client had seen, and the last one is what the
\* row shows.  No rename is lost to another that started from the same version,
\* and suspensions and resumptions alternate.
IsHistory(t, first, last) ==
  /\ \A op \in OperationIds :
       receipts[t][op] # None =>
         /\ receipts[t][op].version \in first .. last
         /\ receipts[t][op].version = receipts[t][op].intent.expected + 1
  /\ \A v \in first .. last : \E op \in OperationIds :
       receipts[t][op] # None /\ receipts[t][op].version = v
  /\ \A o1, o2 \in OperationIds :
       receipts[t][o1] # None /\ receipts[t][o2] # None
         /\ receipts[t][o1].version = receipts[t][o2].version => o1 = o2
HistoryIsWhole ==
  /\ IsHistory("mailbox", 1, mailbox.version)
  /\ IsHistory("organization", 2, organization.version)
  /\ \A op \in OperationIds :
       LET receipt == receipts["mailbox"][op]
       IN receipt # None =>
            /\ receipt.kind = IF receipt.version = 1 THEN "bootstrap" ELSE "rename"
            /\ receipt.version = mailbox.version => receipt.intent.name = mailbox.name
  /\ \A op \in OperationIds :
       LET receipt == receipts["organization"][op]
       IN receipt # None =>
            receipt.kind = IF receipt.version % 2 = 0 THEN "suspend" ELSE "resume"
  /\ organization.version > 0 =>
       (organization.status = "suspended" <=> organization.version % 2 = 0)

\* A user who is told that a request was carried out, and which version it made,
\* finds that in a receipt of that user's, for just that request.
AnswersAreTrue ==
  \A r \in Requests :
    requests[r].answer \in {"done", "replayed"} =>
      /\ Stored(r) # None
      /\ Stored(r).actor = requests[r].actor
      /\ Stored(r).kind = requests[r].kind
      /\ Stored(r).intent = requests[r].intent
      /\ Stored(r).version = requests[r].told
      /\ requests[r].answer = "done" => Stored(r).by = r

\* A user who is told that a request was refused, or that its operation id was
\* taken, can rely on it: it has changed nothing and will not, not even by a
\* batch that lands late.
RefusalsAreFinal ==
  \A r \in Requests :
    requests[r].answer \in {"refused", "conflict"} =>
      \A t \in Tables, op \in OperationIds :
        receipts[t][op] # None => receipts[t][op].by # r
=============================================================================
