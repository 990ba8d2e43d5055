---------------------- MODULE OrganizationControlProofs ----------------------
(***************************************************************************)
(* Proofs about OrganizationControl, for any sets of requests, operation    *)
(* ids, users and names.                                                    *)
(***************************************************************************)
EXTENDS OrganizationControl, TLAPS

-----------------------------------------------------------------------------
(* The inductive invariant: the properties, how far a request is when it can *)
(* still write, and whose every receipt is.                                  *)

\* A request that may still write has asked for something, and has been told
\* nothing definite unless its operation id is taken.
RequestInv ==
  \A r \in Requests :
    /\ requests[r].step \in {"idle", "batch"} => requests[r].lost = "no"
    /\ requests[r].step \in {"idle", "batch", "readback"} => requests[r].answer = None
    /\ requests[r].answer \in {"done", "refused"} => requests[r].lost = "no"
    /\ requests[r].kind \in {"enroll", "bootstrap"} => requests[r].intent.expected = 0
    /\ requests[r].answer = "conflict" /\ requests[r].lost = "landing" => Stored(r) # None

\* A receipt is of the request that wrote it, which has been answered by its batch
\* or whose batch has landed.
ReceiptInv ==
  \A t \in Tables, op \in OperationIds :
    LET receipt == receipts[t][op]
        q == receipt.by
    IN receipt # None /\ q # Initial =>
         /\ t = Table(requests[q].kind) /\ op = requests[q].op
         /\ receipt.kind = requests[q].kind
         /\ receipt.actor = requests[q].actor
         /\ receipt.intent = requests[q].intent
         /\ requests[q].answer = "done" \/ requests[q].lost = "landed"

RowInv == SealedOwner /\ HistoryIsWhole

IInv == TypeOK /\ RowInv /\ RequestInv /\ ReceiptInv /\ AnswersAreTrue /\ RefusalsAreFinal

-----------------------------------------------------------------------------
(* What a batch writes *)

\* Each kind of request has its receipts in one of the tables.
LEMMA TablesOfKinds == ASSUME NEW kind \in Kinds PROVE Table(kind) \in Tables
BY DEF Kinds, Table, Tables

\* An authorized batch finds no receipt of its operation id.
LEMMA AuthorizedIsNew ==
  ASSUME TypeOK, NEW r \in Requests, Authorized(r)
  PROVE  Stored(r) = None
<1>1. requests[r].kind \in Kinds /\ requests[r].op \in OperationIds
  BY DEF TypeOK, Request, OperationIds
<1>2. OperationAvailable(r)
  BY <1>1 DEF Authorized, Kinds, EnrollAuthorized, BootstrapAuthorized, RenameAuthorized,
             TransitionAuthorized
<1>3. CASE requests[r].kind = "enroll"
  <2>1. Enrollments = {}
    BY <1>2, <1>3 DEF OperationAvailable
  <2>2. receipts["enrollment"][requests[r].op] = None
    BY <1>1, <2>1 DEF Enrollments
  <2> QED
    BY <1>3, <2>2 DEF Stored, Table
<1>4. CASE requests[r].kind # "enroll"
  BY <1>2, <1>4 DEF OperationAvailable
<1> QED
  BY <1>3, <1>4

\* The receipt a batch writes is in its own place, and leaves the others as they are.
LEMMA WrittenReceipt ==
  ASSUME TypeOK, NEW r \in Requests, WriteReceipt(r)
  PROVE  LET new == [kind |-> requests[r].kind, by |-> r, actor |-> requests[r].actor,
                     intent |-> requests[r].intent, version |-> Result(r)]
         IN /\ Result(r) \in Nat
            /\ new \in Receipt /\ new # None
            /\ receipts' \in [Tables -> [OperationIds -> Receipt \cup {None}]]
            /\ \A t \in Tables, op \in OperationIds :
                 receipts'[t][op] =
                   IF t = Table(requests[r].kind) /\ op = requests[r].op
                   THEN new ELSE receipts[t][op]
<1> DEFINE new == [kind |-> requests[r].kind, by |-> r, actor |-> requests[r].actor,
                   intent |-> requests[r].intent, version |-> Result(r)]
           t0 == Table(requests[r].kind)
           op0 == requests[r].op
<1>1. requests[r] \in Request
  BY DEF TypeOK
<1>2. requests[r].kind \in Kinds /\ t0 \in Tables
  BY <1>1, TablesOfKinds DEF Request
<1>3. op0 \in OperationIds
  BY <1>1 DEF Request, OperationIds
<1>4. Result(r) \in Nat
  BY <1>2 DEF Result, Kinds, TypeOK, RowsTyped
<1>5. new \in Receipt
  BY <1>1, <1>4 DEF Request, Receipt
<1>6. new # None
  BY <1>5, NoneAssumption
<1>7. receipts' = [receipts EXCEPT ![t0] = [receipts[t0] EXCEPT ![op0] = new]]
  BY DEF WriteReceipt
<1>8. receipts \in [Tables -> [OperationIds -> Receipt \cup {None}]]
  BY DEF TypeOK, RowsTyped
<1> HIDE DEF new, t0, op0
<1>9. receipts' \in [Tables -> [OperationIds -> Receipt \cup {None}]]
  BY <1>2, <1>3, <1>5, <1>7, <1>8
<1>10. \A t \in Tables, op \in OperationIds :
         receipts'[t][op] = IF t = t0 /\ op = op0 THEN new ELSE receipts[t][op]
  BY <1>2, <1>3, <1>7, <1>8
<1> QED
  BY <1>4, <1>5, <1>6, <1>9, <1>10 DEF new, t0, op0

\* What an authorized batch does to the two rows, by its kind.
LEMMA CommitCases ==
  ASSUME TypeOK, NEW r \in Requests, Authorized(r), Commit(r)
  PROVE  \/ /\ requests[r].kind = "enroll" /\ EnrollAuthorized(r)
            /\ UNCHANGED <<organization, mailbox>>
         \/ requests[r].kind = "bootstrap" /\ BootstrapAuthorized(r) /\ Bootstrap(r)
         \/ requests[r].kind = "rename" /\ RenameAuthorized(r) /\ Rename(r)
         \/ /\ requests[r].kind = "suspend" /\ TransitionAuthorized(r, "active")
            /\ Transition("suspended")
         \/ /\ requests[r].kind = "resume" /\ TransitionAuthorized(r, "suspended")
            /\ Transition("active")
BY DEF Authorized, Commit, TypeOK, Request, Kinds

\* The rows are as the columns have them, and come together.
LEMMA CommitTyped ==
  ASSUME TypeOK, NEW r \in Requests, Authorized(r), Commit(r)
  PROVE  RowsTyped' /\ RowsComeTogether'
<1>1. requests[r].intent \in Intent /\ requests[r].actor \in Actors
  BY DEF TypeOK, Request
<1>2. requests[r].intent.name \in Names \cup {None}
  BY <1>1 DEF Intent
<1>3. requests[r].actor # None
  BY <1>1, ControlAssumption
<1>4. /\ receipts' \in [Tables -> [OperationIds -> Receipt \cup {None}]]
      /\ \A op \in OperationIds, t \in Tables :
           receipts'[t][op] # None => Table(receipts'[t][op].kind) = t
  <2> DEFINE new == [kind |-> requests[r].kind, by |-> r, actor |-> requests[r].actor,
                     intent |-> requests[r].intent, version |-> Result(r)]
  <2>1. /\ receipts' \in [Tables -> [OperationIds -> Receipt \cup {None}]]
        /\ \A t \in Tables, op \in OperationIds :
             receipts'[t][op] =
               IF t = Table(requests[r].kind) /\ op = requests[r].op
               THEN new ELSE receipts[t][op]
    BY WrittenReceipt DEF Commit
  <2>2. new.kind = requests[r].kind
    OBVIOUS
  <2>3. \A op \in OperationIds, t \in Tables :
          receipts[t][op] # None => Table(receipts[t][op].kind) = t
    BY DEF TypeOK, RowsComeTogether
  <2> HIDE DEF new
  <2> QED
    BY <2>1, <2>2, <2>3
<1>5. /\ organization' \in [status: {"none", "active", "suspended"}, version: Nat]
      /\ mailbox' \in [creator: Actors \cup {None}, name: Names \cup {None}, version: Nat]
      /\ organization'.version = 0 <=> organization'.status = "none"
      /\ organization'.version = 0 <=> mailbox'.version = 0
      /\ mailbox'.version = 0 <=> mailbox'.creator = None
  <2>1. /\ organization \in [status: {"none", "active", "suspended"}, version: Nat]
        /\ mailbox \in [creator: Actors \cup {None}, name: Names \cup {None}, version: Nat]
        /\ organization.version = 0 <=> organization.status = "none"
        /\ organization.version = 0 <=> mailbox.version = 0
        /\ mailbox.version = 0 <=> mailbox.creator = None
    BY DEF TypeOK, RowsTyped, RowsComeTogether
  <2>2. CASE UNCHANGED <<organization, mailbox>>
    BY <2>1, <2>2
  <2>3. CASE Bootstrap(r)
    BY <1>1, <1>2, <1>3, <2>3 DEF Bootstrap
  <2>4. CASE RenameAuthorized(r) /\ Rename(r)
    <3>1. mailbox.version > 0 /\ organization' = organization
      BY <2>4 DEF RenameAuthorized, Rename
    <3>2. mailbox' = [creator |-> mailbox.creator, name |-> requests[r].intent.name,
                      version |-> mailbox.version + 1]
      BY <2>1, <2>4 DEF Rename
    <3> QED
      BY <1>2, <2>1, <3>1, <3>2
  <2>5. ASSUME NEW source \in {"active", "suspended"}, NEW target \in {"active", "suspended"},
               TransitionAuthorized(r, source), Transition(target)
        PROVE  <1>5!1 /\ <1>5!2 /\ <1>5!3 /\ <1>5!4 /\ <1>5!5
    BY <2>1, <2>5 DEF TransitionAuthorized, Transition
  <2> QED
    BY CommitCases, <2>2, <2>3, <2>4, <2>5
<1> QED
  BY <1>4, <1>5 DEF RowsTyped, RowsComeTogether

\* The deployment's owner stays the only one, and the mailbox is that user's.
LEMMA CommitKeepsOwner ==
  ASSUME TypeOK, RowInv, NEW r \in Requests, Authorized(r), Commit(r)
  PROVE  SealedOwner'
<1> DEFINE new == [kind |-> requests[r].kind, by |-> r, actor |-> requests[r].actor,
                   intent |-> requests[r].intent, version |-> Result(r)]
<1>1. \A t \in Tables, op \in OperationIds :
        receipts'[t][op] =
          IF t = Table(requests[r].kind) /\ op = requests[r].op THEN new ELSE receipts[t][op]
  BY WrittenReceipt DEF Commit
<1>2. "enrollment" \in Tables /\ "mailbox" \in Tables
  BY DEF Tables
<1>3. requests[r].op \in OperationIds
  BY DEF TypeOK, Request, OperationIds
<1>4. new # None /\ new.kind = requests[r].kind /\ new.actor = requests[r].actor
  BY WrittenReceipt DEF Commit
<1> HIDE DEF new
<1>5. CASE requests[r].kind = "enroll"
  <2>1. EnrollAuthorized(r) /\ UNCHANGED <<organization, mailbox>>
    BY <1>5, CommitCases
  <2>2. Enrollments = {} /\ mailbox.version = 0
    BY <1>5, <2>1 DEF EnrollAuthorized, OperationAvailable, DeploymentEmpty
  <2>3. \A op \in OperationIds : receipts["enrollment"][op] = None
    BY <2>2 DEF Enrollments
  <2>4. Enrollments' = {new}
    BY <1>1, <1>2, <1>3, <1>4, <1>5, <2>3 DEF Enrollments, Table
  <2>5. \A op \in OperationIds : receipts'["mailbox"][op] = receipts["mailbox"][op]
    BY <1>1, <1>2, <1>5 DEF Table
  <2> QED
    BY <2>1, <2>2, <2>4, <2>5 DEF SealedOwner, RowInv
<1>6. CASE requests[r].kind # "enroll"
  <2>1. Table(requests[r].kind) # "enrollment"
    BY <1>6 DEF Table, TypeOK, Request, Kinds
  <2>2. Enrollments' = Enrollments
    BY <1>1, <1>2, <2>1 DEF Enrollments
  <2>3. CASE requests[r].kind = "bootstrap"
    <3>1. BootstrapAuthorized(r) /\ Bootstrap(r)
      BY <2>3, CommitCases
    <3>2. mailbox'.version = 1 /\ mailbox'.creator = requests[r].actor
      BY <3>1 DEF Bootstrap
    <3>3. \E e \in Enrollments : e.actor = requests[r].actor
      BY <3>1 DEF BootstrapAuthorized, SealActorValid
    <3>4. \A op \in OperationIds : receipts["mailbox"][op] = None
      BY <3>1 DEF BootstrapAuthorized, RowInv, HistoryIsWhole, IsHistory
    <3>5. \A op \in OperationIds :
            receipts'["mailbox"][op] # None => receipts'["mailbox"][op].actor = requests[r].actor
      BY <1>1, <1>2, <1>4, <3>4
    <3> QED
      BY <2>2, <3>2, <3>3, <3>5 DEF SealedOwner, RowInv
  <2>4. CASE requests[r].kind # "bootstrap"
    <3>1. mailbox'.creator = mailbox.creator /\ (mailbox'.version > 0 => mailbox.version > 0)
      <4>1. mailbox \in [creator: Actors \cup {None}, name: Names \cup {None}, version: Nat]
        BY DEF TypeOK, RowsTyped
      <4>2. \/ mailbox' = mailbox
            \/ RenameAuthorized(r) /\ Rename(r)
        BY <1>6, <2>4, CommitCases DEF Transition
      <4> QED
        BY <4>1, <4>2 DEF RenameAuthorized, Rename
    <3>2. \A op \in OperationIds :
            receipts'["mailbox"][op] # None /\ receipts'["mailbox"][op].kind = "bootstrap" =>
              receipts["mailbox"][op] # None /\ receipts'["mailbox"][op] = receipts["mailbox"][op]
      BY <1>1, <1>2, <1>4, <2>4
    <3> QED
      BY <2>2, <3>1, <3>2 DEF SealedOwner, RowInv
  <2> QED
    BY <2>3, <2>4
<1> QED
  BY <1>5, <1>6

\* IsHistory in the next state, of versions up to a given one.
NextHistory(t, first, last) ==
  /\ \A op \in OperationIds :
       receipts'[t][op] # None =>
         /\ receipts'[t][op].version \in first .. last
         /\ receipts'[t][op].version = receipts'[t][op].intent.expected + 1
  /\ \A v \in first .. last : \E op \in OperationIds :
       receipts'[t][op] # None /\ receipts'[t][op].version = v
  /\ \A o1, o2 \in OperationIds :
       receipts'[t][o1] # None /\ receipts'[t][o2] # None
         /\ receipts'[t][o1].version = receipts'[t][o2].version => o1 = o2

\* A history goes on when the next version is made from the last one.
LEMMA HistoryGrows ==
  ASSUME NEW t \in Tables, NEW first \in Nat \ {0}, NEW last \in Nat, first <= last + 1,
         RowsTyped, IsHistory(t, first, last),
         NEW op0 \in OperationIds, receipts[t][op0] = None,
         receipts'[t][op0] # None,
         receipts'[t][op0].version = last + 1,
         receipts'[t][op0].intent.expected = last,
         \A op \in OperationIds \ {op0} : receipts'[t][op] = receipts[t][op]
  PROVE  NextHistory(t, first, last + 1)
<1>1. \A op \in OperationIds :
        receipts'[t][op] # None =>
          /\ receipts'[t][op].version \in first .. last + 1
          /\ receipts'[t][op].version = receipts'[t][op].intent.expected + 1
  <2> TAKE op \in OperationIds
  <2>1. CASE op = op0
    BY <2>1
  <2>2. CASE op # op0
    BY <2>2 DEF IsHistory
  <2> QED
    BY <2>1, <2>2
<1>2. \A v \in first .. last + 1 : \E op \in OperationIds :
        receipts'[t][op] # None /\ receipts'[t][op].version = v
  <2> TAKE v \in first .. last + 1
  <2>1. CASE v = last + 1
    BY <2>1
  <2>2. CASE v # last + 1
    <3>1. PICK op \in OperationIds : receipts[t][op] # None /\ receipts[t][op].version = v
      BY <2>2 DEF IsHistory
    <3> QED
      BY <3>1
  <2> QED
    BY <2>1, <2>2
<1>3. \A op \in OperationIds \ {op0} :
        receipts'[t][op] # None => receipts'[t][op].version # last + 1
  BY DEF IsHistory
<1>4. \A o1, o2 \in OperationIds :
        receipts'[t][o1] # None /\ receipts'[t][o2] # None
          /\ receipts'[t][o1].version = receipts'[t][o2].version => o1 = o2
  BY <1>3 DEF IsHistory
<1> QED
  BY <1>1, <1>2, <1>4 DEF NextHistory

\* A table that the batch writes no receipt to, of a row that it leaves alone.
LEMMA HistoryStays ==
  ASSUME NEW t \in Tables, NEW first, NEW last, IsHistory(t, first, last),
         \A op \in OperationIds : receipts'[t][op] = receipts[t][op]
  PROVE  NextHistory(t, first, last)
BY DEF IsHistory, NextHistory

\* What the receipts of a row say beside its versions.
MailboxReceipts ==
  \A op \in OperationIds :
    LET receipt == receipts["mailbox"][op]
    IN receipt # None =>
         /\ receipt.kind = IF receipt.version = 1 THEN "bootstrap" ELSE "rename"
         /\ receipt.version = mailbox.version => receipt.intent.name = mailbox.name
OrganizationReceipts ==
  \A op \in OperationIds :
    LET receipt == receipts["organization"][op]
    IN receipt # None =>
         receipt.kind = IF receipt.version % 2 = 0 THEN "suspend" ELSE "resume"

\* The mailbox's history goes on when it is created and renamed.
LEMMA MailboxHistory ==
  ASSUME TypeOK, RowInv, RequestInv, NEW r \in Requests, Authorized(r), Commit(r)
  PROVE  IsHistory("mailbox", 1, mailbox.version)' /\ MailboxReceipts'
<1> DEFINE new == [kind |-> requests[r].kind, by |-> r, actor |-> requests[r].actor,
                   intent |-> requests[r].intent, version |-> Result(r)]
           op0 == requests[r].op
<1>1. \A t \in Tables, op \in OperationIds :
        receipts'[t][op] =
          IF t = Table(requests[r].kind) /\ op = op0 THEN new ELSE receipts[t][op]
  BY WrittenReceipt DEF Commit
<1>2. "mailbox" \in Tables /\ op0 \in OperationIds
  BY DEF Tables, TypeOK, Request, OperationIds
<1>3. new # None /\ new.kind = requests[r].kind /\ new.intent = requests[r].intent
      /\ new.version = Result(r)
  BY WrittenReceipt DEF Commit
<1>4. mailbox \in [creator: Actors \cup {None}, name: Names \cup {None}, version: Nat]
      /\ RowsTyped
  BY DEF TypeOK, RowsTyped
<1>5. IsHistory("mailbox", 1, mailbox.version) /\ MailboxReceipts
  BY DEF RowInv, HistoryIsWhole, MailboxReceipts
<1>6. receipts[Table(requests[r].kind)][op0] = None
  BY AuthorizedIsNew DEF Stored
<1> HIDE DEF new, op0
<1>7. CASE requests[r].kind \in {"bootstrap", "rename"}
  <2>1. Table(requests[r].kind) = "mailbox"
    BY <1>7 DEF Table
  <2>2. /\ receipts["mailbox"][op0] = None /\ receipts'["mailbox"][op0] = new
        /\ \A op \in OperationIds \ {op0} : receipts'["mailbox"][op] = receipts["mailbox"][op]
    BY <1>1, <1>2, <1>6, <2>1
  <2>3. /\ new.version = mailbox.version + 1
        /\ new.intent.expected = mailbox.version
        /\ mailbox'.version = mailbox.version + 1
        /\ mailbox'.name = new.intent.name
        /\ requests[r].kind = IF new.version = 1 THEN "bootstrap" ELSE "rename"
    <3>1. CASE requests[r].kind = "bootstrap"
      <4>1. mailbox.version = 0 /\ Bootstrap(r)
        BY <3>1, CommitCases DEF BootstrapAuthorized
      <4>2. requests[r].intent.expected = 0
        BY <3>1 DEF RequestInv
      <4> QED
        BY <1>3, <3>1, <4>1, <4>2 DEF Bootstrap, Result
    <3>2. CASE requests[r].kind = "rename"
      <4>1. RenameAuthorized(r) /\ Rename(r)
        BY <3>2, CommitCases
      <4>2. mailbox.version > 0 /\ mailbox.version = requests[r].intent.expected
        BY <4>1 DEF RenameAuthorized
      <4>3. Result(r) = mailbox.version + 1
        BY <3>2 DEF Result
      <4>4. mailbox'.version = mailbox.version + 1 /\ mailbox'.name = requests[r].intent.name
        BY <1>4, <4>1 DEF Rename
      <4> QED
        BY <1>3, <1>4, <3>2, <4>2, <4>3, <4>4
    <3> QED
      BY <1>7, <3>1, <3>2
  <2>4. IsHistory("mailbox", 1, mailbox.version)'
    <3>1. 1 <= mailbox.version + 1 /\ mailbox.version \in Nat
      BY <1>4, <2>3
    <3>2. NextHistory("mailbox", 1, mailbox.version + 1)
      BY <1>2, <1>3, <1>4, <1>5, <2>2, <2>3, <3>1, HistoryGrows
    <3> QED
      BY <2>3, <3>2 DEF IsHistory, NextHistory
  <2>5. MailboxReceipts'
    <3> SUFFICES ASSUME NEW op \in OperationIds, receipts'["mailbox"][op] # None
                 PROVE  LET receipt == receipts'["mailbox"][op]
                        IN /\ receipt.kind = IF receipt.version = 1 THEN "bootstrap" ELSE "rename"
                           /\ receipt.version = mailbox'.version =>
                                receipt.intent.name = mailbox'.name
      BY DEF MailboxReceipts
    <3>1. CASE op = op0
      BY <1>3, <2>2, <2>3, <3>1
    <3>2. CASE op # op0
      <4>1. receipts["mailbox"][op] # None /\ receipts["mailbox"][op].version \in 1 .. mailbox.version
        BY <1>5, <2>2, <3>2 DEF IsHistory
      <4>2. receipts["mailbox"][op].version # mailbox'.version
        BY <1>4, <2>3, <4>1
      <4> QED
        BY <1>5, <2>2, <3>2, <4>1, <4>2 DEF MailboxReceipts
    <3> QED
      BY <3>1, <3>2
  <2> QED
    BY <2>4, <2>5
<1>8. CASE requests[r].kind \in {"enroll", "suspend", "resume"}
  <2>1. Table(requests[r].kind) # "mailbox"
    BY <1>8 DEF Table
  <2>2. \A op \in OperationIds : receipts'["mailbox"][op] = receipts["mailbox"][op]
    BY <1>1, <1>2, <2>1
  <2>3. mailbox' = mailbox
    BY <1>8, CommitCases DEF Transition
  <2>4. IsHistory("mailbox", 1, mailbox.version)'
    BY <1>2, <1>5, <2>2, <2>3, HistoryStays DEF IsHistory, NextHistory, NextHistory
  <2> QED
    BY <1>5, <2>2, <2>3, <2>4 DEF MailboxReceipts
<1> QED
  BY <1>7, <1>8 DEF TypeOK, Request, Kinds

\* The organization's goes on when it is suspended and resumed, which alternate.
LEMMA OrganizationHistory ==
  ASSUME TypeOK, RowInv, NEW r \in Requests, Authorized(r), Commit(r)
  PROVE  /\ IsHistory("organization", 2, organization.version)' /\ OrganizationReceipts'
         /\ organization'.version > 0 =>
              (organization'.status = "suspended" <=> organization'.version % 2 = 0)
<1> DEFINE new == [kind |-> requests[r].kind, by |-> r, actor |-> requests[r].actor,
                   intent |-> requests[r].intent, version |-> Result(r)]
           op0 == requests[r].op
           suspended == organization.status = "suspended"
<1>1. \A t \in Tables, op \in OperationIds :
        receipts'[t][op] =
          IF t = Table(requests[r].kind) /\ op = op0 THEN new ELSE receipts[t][op]
  BY WrittenReceipt DEF Commit
<1>2. "organization" \in Tables /\ op0 \in OperationIds
  BY DEF Tables, TypeOK, Request, OperationIds
<1>3. new # None /\ new.kind = requests[r].kind /\ new.intent = requests[r].intent
      /\ new.version = Result(r)
  BY WrittenReceipt DEF Commit
<1>4. /\ organization \in [status: {"none", "active", "suspended"}, version: Nat]
      /\ RowsTyped
      /\ organization.version = 0 <=> organization.status = "none"
      /\ organization.version = 0 <=> mailbox.version = 0
  BY DEF TypeOK, RowsTyped, RowsComeTogether
<1>5. /\ IsHistory("organization", 2, organization.version) /\ OrganizationReceipts
      /\ organization.version > 0 => (suspended <=> organization.version % 2 = 0)
  BY DEF RowInv, HistoryIsWhole, OrganizationReceipts
<1>6. receipts[Table(requests[r].kind)][op0] = None
  BY AuthorizedIsNew DEF Stored
<1> HIDE DEF new, op0, suspended
<1>7. CASE requests[r].kind \in {"suspend", "resume"}
  <2>1. Table(requests[r].kind) = "organization"
    BY <1>7 DEF Table
  <2>2. /\ receipts["organization"][op0] = None /\ receipts'["organization"][op0] = new
        /\ \A op \in OperationIds \ {op0} :
             receipts'["organization"][op] = receipts["organization"][op]
    BY <1>1, <1>2, <1>6, <2>1
  <2>3. /\ organization.version > 0
        /\ organization'.version = organization.version + 1
        /\ new.version = organization.version + 1
        /\ new.intent.expected = organization.version
        /\ requests[r].kind = "suspend" => ~suspended /\ organization'.status = "suspended"
        /\ requests[r].kind = "resume" => suspended /\ organization'.status = "active"
    <3>1. Result(r) = organization.version + 1
      BY <1>7 DEF Result
    <3>2. \/ /\ requests[r].kind = "suspend" /\ TransitionAuthorized(r, "active")
             /\ Transition("suspended")
          \/ /\ requests[r].kind = "resume" /\ TransitionAuthorized(r, "suspended")
             /\ Transition("active")
      BY <1>7, CommitCases
    <3> QED
      BY <1>3, <1>4, <3>1, <3>2 DEF TransitionAuthorized, Transition, suspended
  <2>4. (organization.version + 1) % 2 = 0 <=> organization.version % 2 # 0
    BY <1>4
  <2>5. requests[r].kind = IF new.version % 2 = 0 THEN "suspend" ELSE "resume"
    BY <1>5, <1>7, <2>3, <2>4
  <2>6. organization'.status = "suspended" <=> organization'.version % 2 = 0
    BY <1>5, <1>7, <2>3, <2>4
  <2>7. IsHistory("organization", 2, organization.version)'
    <3>1. 2 <= organization.version + 1 /\ organization.version \in Nat
      BY <1>4, <2>3
    <3>2. NextHistory("organization", 2, organization.version + 1)
      <4>1. IsHistory("organization", 2, organization.version)
        BY <1>5
      <4>2. 2 \in Nat \ {0}
        OBVIOUS
      <4>3. /\ receipts["organization"][op0] = None /\ receipts'["organization"][op0] # None
            /\ receipts'["organization"][op0].version = organization.version + 1
            /\ receipts'["organization"][op0].intent.expected = organization.version
        BY <1>3, <2>2, <2>3
      <4> QED
        BY <1>2, <1>4, <2>2, <3>1, <4>1, <4>2, <4>3, HistoryGrows
    <3> QED
      BY <2>3, <3>2 DEF IsHistory, NextHistory
  <2>8. OrganizationReceipts'
    BY <1>3, <1>5, <2>2, <2>5 DEF OrganizationReceipts
  <2> QED
    BY <2>6, <2>7, <2>8
<1>8. CASE requests[r].kind \in {"enroll", "bootstrap", "rename"}
  <2>1. Table(requests[r].kind) # "organization"
    BY <1>8 DEF Table
  <2>2. \A op \in OperationIds : receipts'["organization"][op] = receipts["organization"][op]
    BY <1>1, <1>2, <2>1
  <2>3. OrganizationReceipts'
    BY <1>5, <2>2 DEF OrganizationReceipts
  <2>4. CASE requests[r].kind = "bootstrap"
    <3>1. organization.version = 0 /\ organization' = [status |-> "active", version |-> 1]
      <4>1. BootstrapAuthorized(r) /\ Bootstrap(r)
        BY <2>4, CommitCases
      <4> QED
        BY <1>4, <4>1 DEF BootstrapAuthorized, Bootstrap
    <3>2. \A op \in OperationIds : receipts["organization"][op] = None
      BY <1>5, <3>1 DEF IsHistory
    <3>3. IsHistory("organization", 2, organization.version)'
      BY <2>2, <3>1, <3>2 DEF IsHistory
    <3>4. 1 % 2 # 0
      BY SMT
    <3> QED
      BY <2>3, <3>1, <3>3, <3>4
  <2>5. CASE requests[r].kind # "bootstrap"
    <3>1. organization' = organization
      <4>1. requests[r].kind = "enroll" \/ requests[r].kind = "rename"
        BY <1>8, <2>5
      <4>2. CASE requests[r].kind = "enroll"
        BY <4>2, CommitCases
      <4>3. CASE requests[r].kind = "rename"
        <5>1. Rename(r)
          BY <4>3, CommitCases
        <5> QED
          BY <5>1 DEF Rename
      <4> QED
        BY <4>1, <4>2, <4>3
    <3>2. IsHistory("organization", 2, organization.version)'
      BY <1>2, <1>5, <2>2, <3>1, HistoryStays DEF IsHistory, NextHistory, NextHistory
    <3> QED
      BY <1>5, <2>3, <3>1, <3>2 DEF suspended
  <2> QED
    BY <2>4, <2>5
<1> QED
  BY <1>7, <1>8 DEF TypeOK, Request, Kinds

\* All that is said of the rows still holds.
LEMMA CommitKeepsRows ==
  ASSUME TypeOK, RowInv, RequestInv, NEW r \in Requests, Authorized(r), Commit(r)
  PROVE  RowsTyped' /\ RowsComeTogether' /\ RowInv'
BY CommitTyped, CommitKeepsOwner, MailboxHistory, OrganizationHistory
   DEF RowInv, HistoryIsWhole, MailboxReceipts, OrganizationReceipts

-----------------------------------------------------------------------------
(* What a request does *)

\* What RequestInv says of one request.
Consistent(request, taken) ==
  /\ request.step \in {"idle", "batch"} => request.lost = "no"
  /\ request.step \in {"idle", "batch", "readback"} => request.answer = None
  /\ request.answer \in {"done", "refused"} => request.lost = "no"
  /\ request.kind \in {"enroll", "bootstrap"} => request.intent.expected = 0
  /\ request.answer = "conflict" /\ request.lost = "landing" => taken

\* The receipt answers a request as AnswersAreTrue has it.
Tells(receipt, request, r) ==
  /\ receipt # None
  /\ receipt.actor = request.actor
  /\ receipt.kind = request.kind
  /\ receipt.intent = request.intent
  /\ receipt.version = request.told
  /\ request.answer = "done" => receipt.by = r

HasWritten(r) ==
  \E t \in Tables, op \in OperationIds : receipts[t][op] # None /\ receipts[t][op].by = r

\* One request goes on from where it is, and keeps what was decided when it began.
Moves(r, new) ==
  /\ new \in Request
  /\ new.kind = requests[r].kind /\ new.op = requests[r].op /\ new.actor = requests[r].actor
  /\ requests' = [requests EXCEPT ![r] = new]

\* A step of a request that writes no row keeps the invariant when its answer is true.
LEMMA RequestMoves ==
  ASSUME IInv, NEW r \in Requests, NEW new, Moves(r, new), UNCHANGED rows,
         Consistent(new, Stored(r) # None),
         new.answer \in {"done", "replayed"} => Tells(Stored(r), new, r),
         new.answer \in {"refused", "conflict"} => ~HasWritten(r),
         HasWritten(r) => /\ new.intent = requests[r].intent
                          /\ new.answer = "done" \/ new.lost = "landed"
  PROVE  IInv'
<1>1. requests \in [Requests -> Request] /\ UNCHANGED <<organization, mailbox, receipts>>
  BY DEF IInv, TypeOK, rows
<1>2. /\ requests' \in [Requests -> Request] /\ requests'[r] = new
      /\ \A q \in Requests \ {r} : requests'[q] = requests[q]
      /\ \A q \in Requests : /\ requests'[q].kind = requests[q].kind
                             /\ requests'[q].op = requests[q].op
                             /\ requests'[q].actor = requests[q].actor
  BY <1>1 DEF Moves
<1>3. \A q \in Requests : Stored(q)' = Stored(q)
  BY <1>1, <1>2 DEF Stored
<1>4. TypeOK'
  BY <1>1, <1>2 DEF IInv, TypeOK, RowsTyped, RowsComeTogether
<1>5. RowInv'
  BY <1>1 DEF IInv, RowInv, SealedOwner, HistoryIsWhole, IsHistory, Enrollments
<1>6. RequestInv'
  BY <1>2, <1>3 DEF IInv, RequestInv, Consistent
<1>7. ReceiptInv'
  <2> SUFFICES ASSUME NEW t \in Tables, NEW op \in OperationIds,
                      receipts[t][op] # None, receipts[t][op].by # Initial
               PROVE  LET receipt == receipts[t][op]
                          q == receipt.by
                      IN /\ t = Table(requests'[q].kind) /\ op = requests'[q].op
                         /\ receipt.kind = requests'[q].kind
                         /\ receipt.actor = requests'[q].actor
                         /\ receipt.intent = requests'[q].intent
                         /\ requests'[q].answer = "done" \/ requests'[q].lost = "landed"
    BY <1>1 DEF ReceiptInv
  <2>1. receipts[t][op].by \in Requests
    BY DEF IInv, TypeOK, RowsTyped, Receipt
  <2>2. CASE receipts[t][op].by = r
    BY <1>2, <2>1, <2>2 DEF IInv, ReceiptInv, HasWritten
  <2>3. CASE receipts[t][op].by # r
    BY <1>2, <2>1, <2>3 DEF IInv, ReceiptInv
  <2> QED
    BY <2>2, <2>3
<1>8. AnswersAreTrue'
  BY <1>2, <1>3 DEF IInv, AnswersAreTrue, Tells
<1>9. RefusalsAreFinal'
  BY <1>1, <1>2 DEF IInv, RefusalsAreFinal, HasWritten
<1> QED
  BY <1>4, <1>5, <1>6, <1>7, <1>8, <1>9 DEF IInv

\* So does the step in which its batch is applied.
LEMMA RequestCommits ==
  ASSUME IInv, NEW r \in Requests, NEW new, Moves(r, new), Authorized(r), Commit(r),
         Consistent(new, TRUE), new.intent = requests[r].intent,
         requests[r].answer \in {None, "unknown"},
         \/ new.answer = "done" /\ new.told = Result(r)
         \/ new.answer \in {None, "unknown"} /\ new.lost = "landed"
  PROVE  IInv'
<1> DEFINE receipt == [kind |-> requests[r].kind, by |-> r, actor |-> requests[r].actor,
                       intent |-> requests[r].intent, version |-> Result(r)]
           t0 == Table(requests[r].kind)
           op0 == requests[r].op
<1>1. requests \in [Requests -> Request]
  BY DEF IInv, TypeOK
<1>2. /\ requests' \in [Requests -> Request] /\ requests'[r] = new
      /\ \A q \in Requests \ {r} : requests'[q] = requests[q]
      /\ \A q \in Requests : /\ requests'[q].kind = requests[q].kind
                             /\ requests'[q].op = requests[q].op
                             /\ requests'[q].actor = requests[q].actor
                             /\ requests'[q].intent = requests[q].intent
  BY <1>1 DEF Moves
<1>3. /\ \A t \in Tables, op \in OperationIds :
           receipts'[t][op] = IF t = t0 /\ op = op0 THEN receipt ELSE receipts[t][op]
      /\ receipt # None
  BY WrittenReceipt DEF Commit, IInv
<1>4. receipts[t0][op0] = None
  BY AuthorizedIsNew DEF Stored, IInv
<1>5. RowsTyped' /\ RowsComeTogether' /\ RowInv'
  BY CommitKeepsRows DEF IInv
<1>6. TypeOK'
  BY <1>2, <1>5 DEF TypeOK
<1>7. \A q \in Requests : Table(requests[q].kind) \in Tables /\ requests[q].op \in OperationIds
  BY <1>1, TablesOfKinds DEF Request, OperationIds
<1>8. \A q \in Requests :
        /\ Stored(q)' = receipts'[Table(requests[q].kind)][requests[q].op]
        /\ Stored(q) # None => Stored(q)' = Stored(q)
  BY <1>2, <1>3, <1>4, <1>7 DEF Stored
<1>9. Stored(r)' = receipt
  BY <1>3, <1>7, <1>8
<1>10. /\ receipt.by = r /\ receipt.kind = requests[r].kind
       /\ receipt.actor = requests[r].actor /\ receipt.intent = requests[r].intent
       /\ receipt.version = Result(r)
  OBVIOUS
<1> HIDE DEF receipt, t0, op0
<1>11. RequestInv'
  BY <1>2, <1>3, <1>8, <1>9 DEF IInv, RequestInv, Consistent
<1>12. ReceiptInv'
  <2> SUFFICES ASSUME NEW t \in Tables, NEW op \in OperationIds,
                      receipts'[t][op] # None, receipts'[t][op].by # Initial
               PROVE  LET rec == receipts'[t][op]
                          q == rec.by
                      IN /\ t = Table(requests'[q].kind) /\ op = requests'[q].op
                         /\ rec.kind = requests'[q].kind
                         /\ rec.actor = requests'[q].actor
                         /\ rec.intent = requests'[q].intent
                         /\ requests'[q].answer = "done" \/ requests'[q].lost = "landed"
    BY DEF ReceiptInv
  <2>1. CASE t = t0 /\ op = op0
    <3>1. receipts'[t][op] = receipt
      BY <1>3, <2>1
    <3>2. requests'[r].answer = "done" \/ requests'[r].lost = "landed"
      BY <1>2
    <3>3. t = Table(requests'[r].kind) /\ op = requests'[r].op
      BY <1>2, <2>1 DEF t0, op0
    <3> QED
      BY <1>2, <1>10, <3>1, <3>2, <3>3
  <2>2. CASE ~(t = t0 /\ op = op0)
    <3>1. receipts'[t][op] = receipts[t][op]
      BY <1>3, <2>2
    <3>2. receipts[t][op].by \in Requests
      BY <3>1 DEF IInv, TypeOK, RowsTyped, Receipt
    <3>3. /\ t = Table(requests[receipts[t][op].by].kind)
          /\ op = requests[receipts[t][op].by].op
      BY <3>1 DEF IInv, ReceiptInv
    <3>4. receipts[t][op].by # r
      BY <2>2, <3>3 DEF t0, op0
    <3> QED
      BY <1>2, <3>1, <3>2, <3>4 DEF IInv, ReceiptInv
  <2> QED
    BY <2>1, <2>2
<1>13. AnswersAreTrue'
  <2>1. ASSUME NEW q \in Requests, q # r, requests'[q].answer \in {"done", "replayed"}
        PROVE  Tells(Stored(q)', requests'[q], q)
    BY <1>2, <1>8, <2>1 DEF IInv, AnswersAreTrue, Tells
  <2>2. requests'[r].answer \in {"done", "replayed"} => Tells(Stored(r)', requests'[r], r)
    BY <1>2, <1>3, <1>9, <1>10, NoneAssumption DEF Tells, Answers, Moves
  <2> QED
    BY <2>1, <2>2 DEF AnswersAreTrue, Tells
<1>14. RefusalsAreFinal'
  <2> SUFFICES ASSUME NEW q \in Requests, requests'[q].answer \in {"refused", "conflict"},
                      NEW t \in Tables, NEW op \in OperationIds, receipts'[t][op] # None
               PROVE  receipts'[t][op].by # q
    BY DEF RefusalsAreFinal
  <2>1. q # r
    BY <1>2, NoneAssumption DEF Answers
  <2>2. CASE t = t0 /\ op = op0
    BY <1>3, <1>10, <2>1, <2>2
  <2>3. CASE ~(t = t0 /\ op = op0)
    BY <1>2, <1>3, <2>1, <2>3 DEF IInv, RefusalsAreFinal
  <2> QED
    BY <2>2, <2>3
<1> QED
  BY <1>5, <1>6, <1>11, <1>12, <1>13, <1>14 DEF IInv

\* A request that can still be answered by a receipt has not written another.
LEMMA WrittenIsStored ==
  ASSUME IInv, NEW r \in Requests, HasWritten(r)
  PROVE  /\ Found(r) = Stored(r) /\ Stored(r) # None /\ SameIntent(r, requests[r].intent)
         /\ requests[r].answer = "done" \/ requests[r].lost = "landed"
<1>1. PICK t \in Tables, op \in OperationIds :
        receipts[t][op] # None /\ receipts[t][op].by = r
  BY DEF HasWritten
<1>2. r # Initial
  BY ControlAssumption
<1>3. /\ receipts[t][op] = Stored(r) /\ Stored(r).kind = requests[r].kind
      /\ Stored(r).actor = requests[r].actor /\ Stored(r).intent = requests[r].intent
      /\ requests[r].answer = "done" \/ requests[r].lost = "landed"
  BY <1>1, <1>2 DEF IInv, ReceiptInv, Stored
<1> QED
  BY <1>1, <1>3 DEF Found, SameIntent

\* What a receipt that was found answers is true.
LEMMA AnswerIsTrue ==
  ASSUME IInv, NEW r \in Requests, NEW intent, Found(r) # None, SameIntent(r, intent)
  PROVE  /\ Stored(r) = Found(r) /\ Stored(r) # None /\ Stored(r) \in Receipt
         /\ Stored(r).actor = requests[r].actor /\ Stored(r).kind = requests[r].kind
         /\ Stored(r).intent = intent
<1>1. Stored(r) \in Receipt \cup {None}
  BY TablesOfKinds DEF IInv, TypeOK, RowsTyped, Request, Stored, OperationIds
<1> QED
  BY <1>1 DEF Found, SameIntent

\* The version of an intent is a number, and 0 for a kind of request that changes none.
LEMMA IntentsTyped ==
  ASSUME IInv, NEW kind \in Kinds, NEW intent \in Intents(kind)
  PROVE  /\ intent \in Intent
         /\ kind \in {"enroll", "bootstrap"} => intent.expected = 0
<1>1. CASE kind \in {"enroll", "bootstrap"}
  BY <1>1 DEF Intents, Intent
<1>2. CASE kind = "rename"
  BY <1>2 DEF Intents, Intent
<1>3. CASE kind \in {"suspend", "resume"}
  BY <1>3 DEF Intents, Intent
<1> QED
  BY <1>1, <1>2, <1>3 DEF Kinds

\* An answer that a request gets without writing.
LEMMA Answered ==
  ASSUME IInv, NEW r \in Requests, NEW answer, NEW told,
         Answer(r, answer, told), UNCHANGED rows,
         requests[r].step \in {"batch", "readback"},
         \/ answer = "refused" /\ told = 0 /\ requests[r].lost = "no"
         \/ answer = "unknown" /\ told = 0
         \/ /\ answer = "conflict" /\ told = 0
            /\ \/ requests[r].lost = "no"
               \/ Found(r) # None /\ ~SameIntent(r, requests[r].intent)
         \/ /\ answer = "replayed" /\ told = Found(r).version
            /\ Found(r) # None /\ SameIntent(r, requests[r].intent)
  PROVE  IInv'
<1> DEFINE new == [requests[r] EXCEPT !.step = "answered", !.answer = answer, !.told = told]
<1>1. requests \in [Requests -> Request]
  BY DEF IInv, TypeOK
<1>2. requests[r].answer = None
  BY DEF IInv, RequestInv
<1>3. answer = "replayed" => /\ told = Stored(r).version /\ told \in Nat
                             /\ Stored(r) # None
                             /\ Stored(r).actor = requests[r].actor
                             /\ Stored(r).kind = requests[r].kind
                             /\ Stored(r).intent = requests[r].intent
  BY AnswerIsTrue DEF Receipt
<1>4. answer \in Answers /\ told \in Nat
  BY <1>3 DEF Answers
<1>5. /\ new \in Request /\ new.step = "answered" /\ new.answer = answer /\ new.told = told
      /\ new.kind = requests[r].kind /\ new.op = requests[r].op
      /\ new.actor = requests[r].actor /\ new.intent = requests[r].intent
      /\ new.lost = requests[r].lost
  BY <1>1, <1>4 DEF Request
<1>6. requests' = [requests EXCEPT ![r] = new]
  BY DEF Answer
<1> HIDE DEF new
<1>7. Moves(r, new)
  BY <1>5, <1>6 DEF Moves
<1>8. answer = "conflict" /\ requests[r].lost = "landing" => Stored(r) # None
  BY DEF Found
<1>9. Consistent(new, Stored(r) # None)
  BY <1>4, <1>5, <1>8, NoneAssumption DEF Consistent, IInv, RequestInv
<1>10. answer \in {"done", "replayed"} => Tells(Stored(r), new, r)
  BY <1>3, <1>5 DEF Tells
<1>11. HasWritten(r) => /\ requests[r].lost = "landed"
                        /\ Found(r) # None /\ SameIntent(r, requests[r].intent)
  BY <1>2, WrittenIsStored, NoneAssumption DEF Answers
<1>12. answer \in {"refused", "conflict"} => ~HasWritten(r)
  BY <1>11
<1> QED
  BY <1>5, <1>7, <1>9, <1>10, <1>11, <1>12, RequestMoves

LEMMA AnsweredWithReceipt ==
  ASSUME IInv, NEW r \in Requests, NEW without, AnswerWithReceipt(r, without),
         UNCHANGED rows, requests[r].step \in {"batch", "readback"},
         without = "unknown" \/ (requests[r].lost = "no" /\ without = "conflict")
  PROVE  IInv'
<1>1. CASE Found(r) = None
  <2>1. Answer(r, without, 0)
    BY <1>1 DEF AnswerWithReceipt
  <2>2. CASE without = "unknown"
    BY <2>1, <2>2, Answered
  <2>3. CASE without = "conflict" /\ requests[r].lost = "no"
    BY <2>1, <2>3, Answered
  <2> QED
    BY <2>2, <2>3
<1>2. CASE Found(r) # None /\ SameIntent(r, requests[r].intent)
  BY <1>2, Answered DEF AnswerWithReceipt
<1>3. CASE Found(r) # None /\ ~SameIntent(r, requests[r].intent)
  BY <1>3, Answered DEF AnswerWithReceipt
<1> QED
  BY <1>1, <1>2, <1>3

-----------------------------------------------------------------------------
(* Every step keeps the invariant *)

LEMMA BeginKeeps ==
  ASSUME IInv, NEW r \in Requests, NEW intent \in Intents(requests[r].kind), Begin(r, intent)
  PROVE  IInv'
<1> DEFINE asked == [requests[r] EXCEPT !.intent = intent]
           new == IF Found(r) = None THEN [asked EXCEPT !.step = "batch"]
                  ELSE IF SameIntent(r, intent)
                       THEN [asked EXCEPT !.step = "answered", !.answer = "replayed",
                                          !.told = Found(r).version]
                       ELSE [asked EXCEPT !.step = "answered", !.answer = "conflict"]
<1>1. requests \in [Requests -> Request] /\ requests[r].kind \in Kinds
  BY DEF IInv, TypeOK, Request
<1>2. requests[r].step = "idle" /\ requests[r].answer = None /\ requests[r].lost = "no"
  BY DEF Begin, IInv, RequestInv
<1>3. /\ intent \in Intent
      /\ requests[r].kind \in {"enroll", "bootstrap"} => intent.expected = 0
  BY <1>1, IntentsTyped
<1>4. ~HasWritten(r)
  BY <1>2, WrittenIsStored, NoneAssumption DEF Answers
<1>5. Found(r) # None /\ SameIntent(r, intent) =>
        /\ Stored(r) = Found(r) /\ Stored(r) # None /\ Stored(r).version \in Nat
        /\ Stored(r).actor = requests[r].actor /\ Stored(r).kind = requests[r].kind
        /\ Stored(r).intent = intent
  BY AnswerIsTrue DEF Receipt
<1>6. /\ new \in Request
      /\ new.kind = requests[r].kind /\ new.op = requests[r].op
      /\ new.actor = requests[r].actor /\ new.intent = intent /\ new.lost = "no"
  BY <1>1, <1>2, <1>3, <1>5 DEF Request, Answers
<1>7. \/ new.step = "batch" /\ new.answer = None
      \/ /\ new.step = "answered" /\ new.answer = "replayed" /\ new.told = Found(r).version
         /\ Found(r) # None /\ SameIntent(r, intent)
      \/ new.step = "answered" /\ new.answer = "conflict"
  BY <1>1, <1>2 DEF Request
<1>8. requests' = [requests EXCEPT ![r] = new] /\ UNCHANGED rows
  BY DEF Begin
<1> HIDE DEF asked, new
<1>9. Moves(r, new)
  BY <1>6, <1>8 DEF Moves
<1>10. Consistent(new, Stored(r) # None)
  BY <1>3, <1>6, <1>7 DEF Consistent
<1>11. new.answer \in {"done", "replayed"} => Tells(Stored(r), new, r)
  BY <1>5, <1>6, <1>7, NoneAssumption DEF Tells, Answers
<1> QED
  BY <1>4, <1>8, <1>9, <1>10, <1>11, RequestMoves

LEMMA NotAuthorizedKeeps ==
  ASSUME IInv, NEW r \in Requests, NotAuthorized(r)
  PROVE  IInv'
<1>1. requests[r].step = "batch" /\ requests[r].lost = "no" /\ UNCHANGED rows
  BY DEF NotAuthorized, IInv, RequestInv
<1>2. CASE Answer(r, "refused", 0)
  BY <1>1, <1>2, Answered
<1>3. CASE AnswerWithReceipt(r, "conflict")
  BY <1>1, <1>3, AnsweredWithReceipt
<1> QED
  BY <1>2, <1>3 DEF NotAuthorized

LEMMA ReadBackKeeps ==
  ASSUME IInv, NEW r \in Requests, ReadBack(r)
  PROVE  IInv'
<1>1. requests[r].step = "readback" /\ UNCHANGED rows
  BY DEF ReadBack
<1>2. CASE Answer(r, "unknown", 0)
  BY <1>1, <1>2, Answered
<1>3. CASE AnswerWithReceipt(r, "unknown")
  BY <1>1, <1>3, AnsweredWithReceipt
<1> QED
  BY <1>2, <1>3 DEF ReadBack

LEMMA CommitAnsweredKeeps ==
  ASSUME IInv, NEW r \in Requests, CommitAnswered(r)
  PROVE  IInv'
<1> DEFINE new == [requests[r] EXCEPT !.step = "answered", !.answer = "done",
                                      !.told = Result(r)]
<1>1. requests \in [Requests -> Request]
  BY DEF IInv, TypeOK
<1>2. requests[r].answer = None /\ requests[r].lost = "no"
  BY DEF CommitAnswered, IInv, RequestInv
<1>3. Result(r) \in Nat
  BY WrittenReceipt DEF CommitAnswered, Commit, IInv
<1>4. /\ new \in Request /\ new.step = "answered" /\ new.answer = "done"
      /\ new.told = Result(r) /\ new.lost = "no"
      /\ new.kind = requests[r].kind /\ new.op = requests[r].op
      /\ new.actor = requests[r].actor /\ new.intent = requests[r].intent
  BY <1>1, <1>2, <1>3 DEF Request, Answers
<1>5. requests' = [requests EXCEPT ![r] = new] /\ Authorized(r) /\ Commit(r)
  BY DEF CommitAnswered, Answer
<1> HIDE DEF new
<1>6. Moves(r, new) /\ Consistent(new, TRUE)
  BY <1>4, <1>5 DEF Moves, Consistent, IInv, RequestInv
<1> QED
  BY <1>2, <1>4, <1>5, <1>6, RequestCommits

LEMMA LoseAnswerKeeps ==
  ASSUME IInv, NEW r \in Requests, LoseAnswer(r)
  PROVE  IInv'
<1> DEFINE new == [requests[r] EXCEPT !.step = "readback", !.lost = "landing"]
<1>1. requests \in [Requests -> Request]
  BY DEF IInv, TypeOK
<1>2. requests[r].answer = None /\ requests[r].lost = "no"
  BY DEF LoseAnswer, IInv, RequestInv
<1>3. ~HasWritten(r)
  BY <1>2, WrittenIsStored, NoneAssumption DEF Answers
<1>4. /\ new \in Request /\ new.step = "readback" /\ new.answer = None
      /\ new.kind = requests[r].kind /\ new.op = requests[r].op
      /\ new.actor = requests[r].actor /\ new.intent = requests[r].intent
  BY <1>1, <1>2 DEF Request
<1>5. requests' = [requests EXCEPT ![r] = new] /\ UNCHANGED rows
  BY DEF LoseAnswer
<1> HIDE DEF new
<1>6. Moves(r, new) /\ Consistent(new, Stored(r) # None)
  BY <1>4, <1>5, NoneAssumption DEF Moves, Consistent, IInv, RequestInv, Answers
<1> QED
  BY <1>3, <1>4, <1>5, <1>6, NoneAssumption, RequestMoves DEF Answers

LEMMA LandKeeps ==
  ASSUME IInv, NEW r \in Requests, Land(r)
  PROVE  IInv'
<1> DEFINE new == [requests[r] EXCEPT !.lost = "landed"]
<1>1. requests \in [Requests -> Request]
  BY DEF IInv, TypeOK
<1>2. requests[r].lost = "landing"
  BY DEF Land
<1>3. /\ requests[r].step \notin {"idle", "batch"}
      /\ requests[r].answer \notin {"done", "refused"}
      /\ requests[r].answer = "conflict" => Stored(r) # None
  BY <1>2 DEF IInv, RequestInv
<1>4. /\ new \in Request /\ new.lost = "landed"
      /\ new.step = requests[r].step /\ new.answer = requests[r].answer
      /\ new.told = requests[r].told
      /\ new.kind = requests[r].kind /\ new.op = requests[r].op
      /\ new.actor = requests[r].actor /\ new.intent = requests[r].intent
  BY <1>1 DEF Request
<1>5. requests' = [requests EXCEPT ![r] = new]
  BY DEF Land
<1> HIDE DEF new
<1>6. Moves(r, new) /\ \A taken : Consistent(new, taken)
  BY <1>3, <1>4, <1>5 DEF Moves, Consistent, IInv, RequestInv
<1>7. CASE Authorized(r)
  <2>1. Commit(r) /\ Stored(r) = None
    BY <1>7, AuthorizedIsNew DEF Land, IInv
  <2>2. requests[r].answer \in Answers \cup {None}
    BY <1>1 DEF Request
  <2>3. requests[r].answer \in {None, "unknown"}
    BY <1>3, <2>1, <2>2 DEF Answers, IInv, AnswersAreTrue
  <2> QED
    BY <1>4, <1>6, <1>7, <2>1, <2>3, RequestCommits
<1>8. CASE ~Authorized(r)
  <2>1. UNCHANGED rows
    BY <1>8 DEF Land
  <2>2. new.answer \in {"done", "replayed"} => Tells(Stored(r), new, r)
    BY <1>4 DEF IInv, AnswersAreTrue, Tells
  <2>3. new.answer \in {"refused", "conflict"} => ~HasWritten(r)
    BY <1>4 DEF IInv, RefusalsAreFinal, HasWritten
  <2> QED
    BY <1>4, <1>6, <2>1, <2>2, <2>3, RequestMoves
<1> QED
  BY <1>7, <1>8

\* The invariant holds of a fresh deployment and of one that is set up.
LEMMA InitHolds == ASSUME Init PROVE IInv
<1>1. PICK established \in BOOLEAN, owner \in Actors, name \in Names, plan \in Plans :
    /\ organization = IF established THEN [status |-> "active", version |-> 1]
                                     ELSE [status |-> "none", version |-> 0]
    /\ mailbox = IF established THEN [creator |-> owner, name |-> name, version |-> 1]
                                ELSE [creator |-> None, name |-> None, version |-> 0]
    /\ receipts = [t \in Tables |-> [op \in OperationIds |->
         CASE established /\ op = Initial /\ t = "enrollment" ->
                InitialReceipt("enroll", owner, name, 0)
           [] established /\ op = Initial /\ t = "mailbox" ->
                InitialReceipt("bootstrap", owner, name, 1)
           [] OTHER -> None]]
    /\ requests = [r \in Requests |->
         [kind |-> plan[r][1], op |-> plan[r][2], actor |-> plan[r][3],
          intent |-> NoIntent, step |-> "idle", answer |-> None, told |-> 0, lost |-> "no"]]
  BY DEF Init
<1> DEFINE enrolled == InitialReceipt("enroll", owner, name, 0)
           created == InitialReceipt("bootstrap", owner, name, 1)
<1>2. owner # None
  BY ControlAssumption
<1>3. /\ enrolled \in Receipt /\ enrolled # None /\ enrolled.kind = "enroll"
      /\ enrolled.actor = owner /\ enrolled.by = Initial
      /\ created \in Receipt /\ created # None /\ created.kind = "bootstrap"
      /\ created.actor = owner /\ created.by = Initial
      /\ created.version = 1 /\ created.intent.expected = 0 /\ created.intent.name = name
  BY NoneAssumption DEF InitialReceipt, Receipt, Intent, Kinds
<1>4. \A t \in Tables, op \in OperationIds :
        receipts[t][op] =
          IF established /\ op = Initial /\ t = "enrollment" THEN enrolled
          ELSE IF established /\ op = Initial /\ t = "mailbox" THEN created ELSE None
  BY <1>1
<1>5. receipts \in [Tables -> [OperationIds -> Receipt \cup {None}]]
  <2> HIDE DEF enrolled, created
  <2>1. receipts = [t \in Tables |-> [op \in OperationIds |-> receipts[t][op]]]
    BY <1>1
  <2>2. \A t \in Tables, op \in OperationIds : receipts[t][op] \in Receipt \cup {None}
    BY <1>3, <1>4
  <2> QED
    BY <2>1, <2>2
<1>6. \A r \in Requests :
        /\ requests[r].kind \in Kinds /\ requests[r].op \in Operations
        /\ requests[r].actor \in Actors
        /\ requests[r].intent = NoIntent /\ requests[r].step = "idle"
        /\ requests[r].answer = None /\ requests[r].told = 0 /\ requests[r].lost = "no"
  <2>1. plan \in [Requests -> Kinds \X Operations \X Actors]
    BY ControlAssumption
  <2> QED
    BY <1>1, <2>1
<1>7. requests \in [Requests -> Request]
  <2>1. NoIntent \in Intent
    BY DEF NoIntent, Intent
  <2>2. requests = [r \in Requests |->
          [kind |-> plan[r][1], op |-> plan[r][2], actor |-> plan[r][3],
           intent |-> NoIntent, step |-> "idle", answer |-> None, told |-> 0, lost |-> "no"]]
    BY <1>1
  <2>3. \A r \in Requests : requests[r] \in Request
    <3> TAKE r \in Requests
    <3>1. requests[r] = [kind |-> plan[r][1], op |-> plan[r][2], actor |-> plan[r][3],
           intent |-> NoIntent, step |-> "idle", answer |-> None, told |-> 0, lost |-> "no"]
      BY <2>2
    <3>2. plan[r][1] \in Kinds /\ plan[r][2] \in Operations /\ plan[r][3] \in Actors
      BY <1>6, <3>1
    <3> QED
      BY <2>1, <3>1, <3>2 DEF Request
  <2> QED
    BY <2>2, <2>3
<1>8. /\ organization \in [status: {"none", "active", "suspended"}, version: Nat]
      /\ mailbox \in [creator: Actors \cup {None}, name: Names \cup {None}, version: Nat]
      /\ organization.version = 0 <=> organization.status = "none"
      /\ organization.version = 0 <=> mailbox.version = 0
      /\ mailbox.version = 0 <=> mailbox.creator = None
      /\ organization.version \in {0, 1} /\ mailbox.version \in {0, 1}
      /\ organization.status # "suspended"
      /\ established <=> mailbox.version = 1
      /\ mailbox.version = 1 => mailbox.creator = owner /\ mailbox.name = name
  BY <1>1, <1>2
<1> HIDE DEF enrolled, created
<1>9. TypeOK
  BY <1>3, <1>4, <1>5, <1>7, <1>8 DEF TypeOK, RowsTyped, RowsComeTogether, Table
<1>10. SealedOwner
  <2>1. "enrollment" \in Tables /\ "mailbox" \in Tables /\ Initial \in OperationIds
    BY DEF Tables, OperationIds
  <2>2. Enrollments = IF established THEN {enrolled} ELSE {}
    BY <1>3, <1>4, <2>1 DEF Enrollments
  <2> QED
    BY <1>3, <1>4, <1>8, <2>1, <2>2 DEF SealedOwner
<1>11. HistoryIsWhole
  <2>1. "organization" \in Tables /\ "mailbox" \in Tables /\ Initial \in OperationIds
    BY DEF Tables, OperationIds
  <2>2. IsHistory("mailbox", 1, mailbox.version)
    BY <1>3, <1>4, <1>8, <2>1 DEF IsHistory
  <2>3. IsHistory("organization", 2, organization.version)
    BY <1>3, <1>4, <1>8, <2>1 DEF IsHistory
  <2> QED
    BY <1>3, <1>4, <1>8, <2>1, <2>2, <2>3 DEF HistoryIsWhole
<1>12. RequestInv /\ AnswersAreTrue /\ RefusalsAreFinal
  BY <1>6, NoneAssumption DEF RequestInv, AnswersAreTrue, RefusalsAreFinal, NoIntent, Answers
<1>13. ReceiptInv
  BY <1>3, <1>4 DEF ReceiptInv
<1> QED
  BY <1>9, <1>10, <1>11, <1>12, <1>13 DEF IInv, RowInv

LEMMA NextKeeps == ASSUME IInv, [Next]_vars PROVE IInv'
<1>1. ASSUME NEW r \in Requests, NEW intent \in Intents(requests[r].kind), Begin(r, intent)
      PROVE  IInv'
  BY <1>1, BeginKeeps
<1>2. ASSUME NEW r \in Requests, Refuse(r)
      PROVE  IInv'
  <2>1. /\ requests[r].step = "batch" /\ requests[r].lost = "no"
        /\ Answer(r, "refused", 0) /\ UNCHANGED rows
    BY <1>2 DEF Refuse, IInv, RequestInv
  <2> QED
    BY <2>1, Answered
<1>3. ASSUME NEW r \in Requests, CommitAnswered(r)
      PROVE  IInv'
  BY <1>3, CommitAnsweredKeeps
<1>4. ASSUME NEW r \in Requests, NotAuthorized(r)
      PROVE  IInv'
  BY <1>4, NotAuthorizedKeeps
<1>5. ASSUME NEW r \in Requests, LoseAnswer(r)
      PROVE  IInv'
  BY <1>5, LoseAnswerKeeps
<1>6. ASSUME NEW r \in Requests, Land(r)
      PROVE  IInv'
  BY <1>6, LandKeeps
<1>7. ASSUME NEW r \in Requests, ReadBack(r)
      PROVE  IInv'
  BY <1>7, ReadBackKeeps
<1>8. CASE UNCHANGED vars
  BY <1>8 DEF vars, IInv, TypeOK, RowsTyped, RowsComeTogether, RowInv, SealedOwner,
             Enrollments, HistoryIsWhole, IsHistory, RequestInv, ReceiptInv, Stored,
             AnswersAreTrue, RefusalsAreFinal
<1> QED
  BY <1>1, <1>2, <1>3, <1>4, <1>5, <1>6, <1>7, <1>8 DEF Next

\* The invariant holds of everything that can happen.
THEOREM Invariance == Spec => []IInv
<1>1. Init => IInv
  BY InitHolds
<1>2. IInv /\ [Next]_vars => IInv'
  BY NextKeeps
<1> QED
  BY <1>1, <1>2, PTL DEF Spec

-----------------------------------------------------------------------------
(* The properties *)

\* The organization's and the mailbox's rows come together, and every receipt is in
\* its kind's table.
THEOREM TypeCorrect == Spec => []TypeOK
<1>1. IInv => TypeOK
  BY DEF IInv
<1> QED
  BY <1>1, Invariance, PTL

\* A deployment has one first owner, whose mailbox it is.
THEOREM OwnerIsSealed == Spec => []SealedOwner
<1>1. IInv => SealedOwner
  BY DEF IInv, RowInv
<1> QED
  BY <1>1, Invariance, PTL

\* Every version was made by one operation, from the version its client had seen.
THEOREM HistoryWhole == Spec => []HistoryIsWhole
<1>1. IInv => HistoryIsWhole
  BY DEF IInv, RowInv
<1> QED
  BY <1>1, Invariance, PTL

\* What a user is told was carried out is in a receipt of that user's.
THEOREM AnswersTrue == Spec => []AnswersAreTrue
<1>1. IInv => AnswersAreTrue
  BY DEF IInv
<1> QED
  BY <1>1, Invariance, PTL

\* What a user is told was refused has changed nothing and will not.
THEOREM RefusalsFinal == Spec => []RefusalsAreFinal
<1>1. IInv => RefusalsAreFinal
  BY DEF IInv
<1> QED
  BY <1>1, Invariance, PTL
=============================================================================
