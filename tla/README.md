# Verification of the Cloudflare inbox

TLA+ models of the parts of this repository whose correctness depends on the
order of events: what a mailbox Durable Object, its alarm, the control-plane
database, the email provider, the Workflows and the browser do when they run
concurrently, crash, answer late or see the clock step back. Paths below are relative to the
repository (`src/...` in `PROJECT.json` names the same files).

* `OutboundDelivery.tla`: outbound mail of one mailbox, the core of the program.
* `DeliveryLifecycle.tla`: what it promises, which `OutboundDelivery` implements.
* `MCOutboundDelivery.tla` and `Outbound*.cfg`: small instances for TLC.
* `OutboundDeliveryProofs.tla`: its safety properties proved for every instance.
* `InboundProcessing.tla`: received mail, from the ingress to the message.
* `IngestLifecycle.tla`: what it promises, which `InboundProcessing` implements.
* `MCInboundProcessing.tla` and `Inbound*.cfg`: small instances for TLC.
* `InboundProcessingProofs.tla`: its safety properties proved for every instance.
* `DraftAttachments.tla`: the files of a draft, as it is edited, uploaded to and sent.
* `MCDraftAttachments.tla` and `Drafts.cfg`: a small instance for TLC.
* `DraftAttachmentsProofs.tla`: its safety properties proved for every instance.
* `DraftEditing.tla`: the editor of a browser tab, its saves, sends and reloads.
* `MCDraftEditing.tla`, `DraftEditing.cfg`, `DraftRetriedSave.cfg`: small instances.
* `DraftEditingProofs.tla`: its safety properties proved for every instance.
* `AccountRecovery.tla`: how a user's sign-in authority is set up, recovered and revoked.
* `MCAccountRecovery.tla` and `Account*.cfg`: small instances for TLC.
* `AccountRecoveryProofs.tla`: its safety properties proved for every instance.
* `OrganizationControl.tla`: how a deployment is set up, its mailbox renamed and its
  organization suspended and resumed.
* `MCOrganizationControl.tla` and `OrganizationControl.cfg`: a small instance for TLC.
* `OrganizationControlProofs.tla`: its safety properties proved for every instance.

`PROJECT.json` maps each definition to the lines it models, and lists the runs,
the mutants that show each property can fail, the hazards and the theorems.

## The system

A company inbox on Cloudflare, written in TypeScript with Effect.

| Component | State | Operations | Talks to |
| --- | --- | --- | --- |
| Mailbox Durable Object (`src/apps/mailbox-do`, `src/modules/mailbox`) | one SQLite database per mailbox: messages, drafts, attachments, contacts, `outbound_delivery`, `inbound_processing`, operation receipts; one alarm | `executeMailData` (every RPC), `alarm`, constructor | D1 (fence), R2, email provider, Workflows |
| Outbound lifecycle (`MailboxOutboundLifecycleStoreSqlite`, `MailboxOutboundAlarmDispatch`, `MailboxOutboundAlarmScheduler`) | delivery rows, the alarm | claimDue, recoverStaleSending, retry, settle, nextScheduledAt, reconcile | the two above |
| Outbound commands (`MailboxOutboundStoreSqlite`) | delivery rows, drafts, receipts | schedule, cancel (undo), resend | lifecycle through the alarm |
| Dispatcher and provider (`MailboxOutboundDispatcher`, `OutboundEmailProviderCloudflare`) | none | load a snapshot, take the inner fence, read R2, `send`, release | D1, R2, Cloudflare email |
| Operation fence and organization lifecycle (`MailboxOperationalStatusD1`, `OrganizationAdministrationD1Integration`, migration 1029) | `app_organization.status`, `app_mailbox_operation_fence` | acquire, release, suspend, resume, archive | D1 |
| Inbound store (`MailboxInboundStoreSqlite`) | `inbound_processing` rows, messages | record, commit, prepare replay | Workflow |
| Inbound Workflow and ingress (`InboundWorkflow`, `MailboxInboundEmailIngress`, `MailboxInboundReplay`) | a Workflow instance per execution | raw store, parse, attachments, commit, record failure; replay | mailbox object, R2, D1 |
| Operation receipts (`MailboxOperationStoreSqlite`) | receipt per operation id | replay, store | every command |
| Messages, contacts, directory | SQLite rows | one guarded transaction each | - |
| Draft attachments (`MailboxDraftAttachmentStoreSqlite`, `MailboxDraftAttachments`, `DraftAttachmentBlobStoreR2`) | `draft_attachment` rows, R2 objects | reserve, upload, complete, expire | drafts, R2 |
| Drafts (`MailboxDraftStoreSqlite`, `MailboxDraftEditing`) | `draft` rows, receipts | create, reply, show, update; sending consumes them | browser, attachments |
| Draft editor (`DraftWorkspace` in `src/routes/inbox.tsx`, `DraftEditor`, `DraftSessionStorage`) | form, known draft, pending saves, session storage | edit, save, upload, send, close, reload | drafts |
| Account security (recovery, codes, passkeys, permissions) | D1 rows with versions and receipts | conditional batches with readback | D1 |
| Deployment and organization administration (`FirstOwnerPasswordEnrollmentD1`, `MailboxAdministrationD1Integration`, `OrganizationAdministrationD1Integration`) | `app_organization`, `app_mailbox`, three receipt tables | enroll, bootstrap, rename, suspend, resume; conditional batches with readback | D1 |
| Address routing, AI tools, rules, platform, HTTP handlers, website | small or none | pure functions, decoding, proxies | the above |

What is hard here, and hardly reached by the tests, which run one handler at a
time against fakes:

* **Sends cannot be undone.** The provider's answer may be lost, or come after
  the object died, after stale recovery gave the row up, or after another run
  claimed a later attempt. A row must never be queued again, cancelled or called
  failed while a call for it may still be taken.
* **Alarm runs overlap.** A handler awaits D1, R2 and the provider; each wait
  opens the object to other events and its row may have moved on meanwhile.
* **One alarm for all work.** Commands, runs and the constructor all rewrite it.
* **Crashes** between a commit and the alarm update, in the middle of a run, and
  between taking and releasing a fence row in another database.
* **Suspension** of the organization races the claim and the send.
* **Clocks step back**, and the schema refuses rows whose timestamps are out of order.
* **Executions are replaced**: an inbound replay starts a fresh Workflow while the
  old one's calls may still arrive.
* **A draft has several writers**: uploads, saves of several tabs and a send, each
  made of reads and writes that others come between.
* **A tab forgets.** The editor is reloaded, left and opened again while commands it
  sent are still on their way; session storage, query cache and screen disagree.
* **Batches whose outcome is unknown.** A D1 batch that lost its answer was applied,
  was not, or will be; the request then looks for its receipt and must not guess.
* **Steps run again**: a Workflow repeats a step whose answer it never got, with
  no way to know whether the first try took effect, or still will.

The properties that make each component correct: outbound, those listed under
"Runs"; the commands, that an operation id has one effect and one answer; the
fence, that a status never changes while an operation is in progress; inbound,
that an ingest yields at most one message, that late reports of replaced
executions change nothing, and that no failed ingest has a message; drafts, that
what is sent is what was shown, that its files are stored and readable, and that
no save loses another's work; the editor, that what was typed is saved once or the
user is told; recovery and passkeys, that a code is used once, that a recovery
retires all that gave access before, and that the last way in is never removed; the
administration, that there is one owner and that no change undoes another unseen.

## The outbound model

`OutboundDelivery` has one step per SQLite transaction and one per call that
leaves the object, in the order of the code.

| Code | Actions |
| --- | --- |
| `MailboxDO.alarm`, `MailboxOutboundAlarmDispatch.handle` | `FireAlarm`, `ReconcileAfterRun` |
| `processOne` | `AcquireClaimFence`, `RecoverStaleSending`, `ClaimDue`, `StoreFails`, `SettleFails`, `SettleDefect`, `ReleaseClaimFence` |
| `MailboxOutboundDispatcher.dispatch` | `LoadSnapshot`, `AcquireDispatchFence`, `SendMessage`, `ReleaseDispatchFence` |
| `OutboundEmailProviderCloudflare.send` and the provider | `ProviderTakes`, `ProviderAnswers` |
| `MailboxOutboundLifecycleStoreSqlite.settle`, `retry` | `SettleAccepted`, `SettleFinal`, `Retry` |
| `MailboxDoStoreSqlite.executeMailData` | `ScheduleOutbound`, `ResendOutbound`, `CancelOutboundDelivery`, `AnswerUnchanged`, `ReconcileAfterRpc`, `MoveMessage` |
| constructor of `MailboxDO` | `ActivateForRequest`, `ActivateForAlarm`, `FinishActivation` |
| organization lifecycle | `SuspendOrganization`, `ResumeOrganization` |
| the platform | `Crash`, `Tick` |

The columns of `outbound_delivery` are the variables of the same names; `folder`
is the folder of the delivery's message. `pc`, `claim`, `outcome` and `fences`
are the local state of each alarm handler in progress. `open`, `lost` and `taken`
are what nobody in the code can see: calls the provider has not answered, calls
answered with an unknown outcome, and calls whose message it has taken.

Choices a reader may question:

* Overlapping runs are allowed: the code does not exclude them, and an alarm set
  by a command while a handler waits may fire. A run that loses its object is
  redelivered by the runtime (`Crash` sets the alarm again).
* Reconciling is one step. It only awaits the object's own storage, which keeps
  the input gate closed.
* An RPC is cut off between its commit and its reconcile if the object dies
  there: then `unreconciled` stays true and pending work may have no alarm until
  the object is loaded again. `PendingWorkIsArmed` excuses just this window.
* A cold wake for a due alarm runs the constructor before the handler, and its
  reconcile writes an alarm one retry period ahead; the handler then runs anyway.
* A D1 failure on acquire or release may have written or left the row
  (`orphaned`). Fence rows have no expiry, so a leaked one refuses suspension for
  good; the model keeps it.
* The fence is modelled as the activated protocol of migration 1029. The
  migration itself leaves the protocol "expanded", in which suspension is refused.
* `active` combines the organization's and the mailbox's status: an operation
  needs both, and both changes need drained fences.
* `retry` outcomes cover provider rejections that are safe to repeat, and a
  provider binding that is not available (no call is made). An unknown answer is
  never retried, and its message may still be taken later (`lost`).
* "delivered" and "bounced" exist in the schema, but no code writes them.
* The folder moves of Archive and Trash apply to scheduled messages too.
* Rows are not deleted and ids are not reused, as in the code.

## The inbound model

`InboundProcessing` follows a mail through the Email Worker, a Workflow execution
and the mailbox's Durable Object.

| Code | Actions |
| --- | --- |
| `handleCloudflareEmailRoutingMessage`, `MailboxInboundEmailIngress.receive` | `StoreRaw`, `Accept`, `Reject` |
| `recordInboundProcessing` | `RefuseStale`, `AnswerSettled`, `AnswerCheckpoint`, `AdvanceRow`, `FailRow` |
| `commitInboundMessage` | `RefuseStale`, `AnswerSettled`, `CommitMessage`, `RefuseCommit` |
| `InboundWorkflow` | `CheckpointAnswered`, `CheckpointBreaks`, `ParseRaw`, `StoreAttachments`, `AcquireFence`, `AcquireFails`, `CommitAnswered`, `CommitBreaks`, `ReleaseFence`, `ReleaseFails`, `FailureAnswered`, `FailureBreaks` |
| `prepareInboundReplay`, `MailboxInboundReplay.replay` | `ClaimReplay`, `StartReplay` |
| the Workflow engine | `CommitInterrupted` |
| organization lifecycle | `SuspendOrganization`, `ResumeOrganization` |

`status`, `attempt` and `replayable` are the columns of `inbound_processing`
(a row without one is "absent"), `messages` counts the messages an ingest has put
into the mailbox, `receipts` holds the results of replay commands. An execution is
an ingest and an attempt: the ingress starts attempt 1 under the ingest's own id,
a replay starts the attempt it has claimed under the id in its receipt.

* `calls` keeps every call ever sent. `Handle` may deliver any of them at any
  time, any number of times: a step's retries, a call that outlives its caller,
  and a call of a replaced execution are all the same action. An answer reaches
  an execution that still waits for that call, or is lost.
* The retries of checkpoint, failure, parse and attachment steps need no counter,
  because repeating a delivery is always possible; `CheckpointBreaks`,
  `FailureBreaks` and the failing disjuncts are their retries used up. The commit
  step takes and releases the fence on each try, so its tries are counted.
* A release that fails is a defect and not a retryable error, so used-up retries
  end the execution with nothing recorded ("stranded"). The engine's own timeout of
  a step is no retryable step error either (`InboundWorkflow.ts:549-554`): parsing,
  storing the attachments and the commit step may end the same way. After a failed
  commit the commit's own error decides.
* Attachments of a mail are one unit: in R2 or not. A step that failed may have
  stored them all.
* What a mail contains is fixed, so the request keys of its calls always agree.
  The ingress draws a fresh id for each delivery of a mail: a sender that repeats
  a mail it was told is refused makes another ingest, and may so make a second
  message. The model does not relate ingests to each other.
* `Faulty` says whether RPC, R2, D1 and the engine may fail.

## The draft model

`DraftAttachments` follows the files of one draft: the places reserved for them,
the bytes in R2, the rows, and the list of files the draft itself names.

| Code | Actions |
| --- | --- |
| `reserveDraftAttachment` | `Reserve` |
| `MailboxDraftAttachments.upload` | `GetDraftAttachment`, `StoreBlob`, `CompleteDraftAttachment`, `UploadStops` |
| `MailboxDraftEditing.loadConsistentDraft` | `OpenDraft`, `ListDraftAttachments`, `CheckDraft` |
| `MailboxDraftEditing.update` | `ReadExisting`, `UpdateDraft` |
| `scheduleOutbound` | `ScheduleOutbound` |
| the browser, the Worker | `EditorStops` |
| the platform | `Clock` |

`version`, `files` and `live` are the columns of the `draft` row (`files` is
`attachmentIdsJson`, `live` says that `deletedAt` is null), `rows` and `receipts`
are `draft_attachment` and the receipts of reserve commands, `objects` is R2.
`uploads` and `editors` are requests at work with what they have read; `sent` is
the message a send made: what it carries, and what its sender was shown.

* Each SQLite transaction is one step and every call between Worker and mailbox
  object ends one, so reserve, R2 put and complete of different uploads, saves and
  sends come in any order. `put` is conditional: where an object is, it is only
  compared.
* An upload tried again is another upload of the same reservation, perhaps with
  another content of the same size. The first may still be at work.
* A save takes its texts from the browser and its list of files from a read of its
  own, before the transaction that compares versions. Only the list is modelled.
* A show that finds the version changed is tried anew by opening the draft again;
  the code does so twice and then reports an error.
* Ids are random, so that an id is never drawn twice: `FreshIds`.
* `MayComplete` has the row's CHECK that `storedAt` is no earlier than `createdAt`.
* Reservations show in no draft, so `shown` holds the stored files. An expired
  place is given away when the next is reserved, and its R2 object stays.
* A file cannot be taken off a draft and a draft only ends by being sent: the
  program has no such operations.

## The editor model

`DraftEditing` is one browser tab and the mailbox it talks to. A step of the editor
is one run of its handler up to its next `await`, with every call it makes.

| Code | Actions and functions |
| --- | --- |
| `queueSave`, `persistLatestFields` and their timers | `Edit`, `QueueSave` |
| `drainSaves`, `performSave`, `flushSave` | `DrainSaves`, `StartSave`, `FlushSave`, `SaveAnswered`, `SaveRefused`, `SaveLost` |
| `retrySave`, `retry` | `RetrySave`, `Retry` |
| `requestClose`, `send` | `Close`, `Send`, `Resume`, `SendAnswered`, `SendRefused`, `SendLost` |
| `attachFiles`, retry and dismissal of an upload | `Attach`, `RetryUpload`, `DismissUpload`, `UploadAnswered`, `UploadFails` |
| the route, `key` of the workspace, mount and unmount effects, the draft query | `Navigate`, `Render`, `MountCompose`, `MountDraft`, `TakeOver`, `Reload` |
| `createDraft`, `updateDraft`, `scheduleOutbound` of the mailbox | `CreateDraft`, `UpdateDraft`, `ScheduleOutbound` |
| uploads that end late; other tabs | `CompleteUpload`, `Elsewhere` |

`calls` are the commands the tab has ever issued: each may be executed at any later
time, once, and its `receipt` remembers it. `editors` holds the refs of each `DraftWorkspace`
(`pendingSave`, `saveInFlight`, `failureRef`, `latestFields`, `serverDraft`), `tab`
what outlives an editor: the address, the session storage, the query cache and
`createdComposeDraftId`.

* One editor at most is on the screen. Those that were left go on with what they had
  under way: their answers change the session storage, the query cache and the address
  the tab has in common, and what was queued behind a save is saved. An editor ends
  when it awaits nothing more (`Ended`).
* While one button waits for the saves no other is pressed.
* The timer that writes to the session storage is part of `Edit`, so a reload
  never loses the last keystrokes.
* Refusals are those the mailbox gives for what it holds, and, with `refused` in `User`,
  a permission that is taken away at any moment. A sign-in that has lapsed is left out.

Things the model shows that are how the program behaves, and which the properties
therefore do not exclude:

* After "Close and reopen" (409), the draft is opened from the query cache, which is
  never stale (`inbox.tsx:1703`), and may conflict again.
* Close does nothing once a save was refused for good (`inbox.tsx:1983`).
* A failed upload whose completion was committed leaves the editor, when it is dismissed,
  with the old version (`inbox.tsx:2342`); its next save is refused.
* An update may be answered with a draft that another tab has saved since
  (`MailboxDraftEditing.ts:299`), and recovered fields are saved over it (`inbox.tsx:1634`).
  The `elsewhere` parts of the properties are these.
* A create whose answer was lost and which is then refused was executed all the same:
  the next save makes a second draft (`refused` in `OneDraftPerComposition`).
* An editor is left while its create is under way and the message is opened again. The
  two share the pending create and the fields in the session storage. The outcome of the
  create comes to the first, which forgets both (`inbox.tsx:1852`, `inbox.tsx:1859`) and
  tells the second nothing. What the second has typed is stored again without a pending
  create when it is left, and the next editor makes a second draft of it, without any
  create having been refused. `Crossed` marks the creates that were given up in this
  way, `OneDraftPerComposition` says that there is no other.
* The same answer sends the tab to the new draft. The editor on the screen has the same
  key, stays, takes the draft over from the query cache (`inbox.tsx:2222`) and saves its own
  fields in it, also when these belong to another message.
* A message that is sent while an editor that was left still saves the same draft may
  say what that editor saves (`beside`); `CalmSendIsAsOnScreen` is about the other sends.
* A create whose answer was lost, whose form is then emptied, is "unsaved" without a
  timer. So `EditsSettle` is about edits that wait for the timer or behind a save.

## The account model

`AccountRecovery` is one user: the external recovery identities, recovery codes,
recovery flows, passkeys, sessions and receipts, all rows of the control-plane D1
database. Each operation reads its receipt, reads what it needs and sends one batch
that D1 applies atomically; a guard row makes the batch all or nothing.

| Code | Actions and operators |
| --- | --- |
| `ExternalRecoveryIdentityD1`, `AccountRecoveryD1`, `RecoveryCodeAdministrationD1`, `PasskeyEnrollmentD1`, `PasskeyCredentialAdministrationD1`: first reads, batch, refusal, readback | `Begin`, `Prepare`, `Refuse`, `CommitAnswered`, `NotAuthorized`, `LoseAnswer`, `Land`, `ReadBack` |
| the guard of each batch | `EnrollAuthorized`, `VerifyAuthorized`, `GenerateAuthorized`, `CompleteAuthorized`, `FinishAuthorized`, `RevokeAuthorized` |
| its other statements | `Enroll`, `Verify`, `Generate`, `Complete`, `AddPasskey`, `Remediate`, `Revoke`, `WriteReceipt` |
| `AccountRecoveryD1.start`, `PasskeyEnrollmentD1.start` | `StartRecovery`, `StartEnrollment` |
| `PasskeyAuthentication.finishSignIn`: the passkey's check, the session's insertion by the library | `CheckPasskey`, `CompletePrimaryFactor` |

* A batch that lost its answer is applied before the receipt is read back, after it
  (when the caller has long been told "unknown"), or never.
* Ids of rows are random; they are named here after the request that inserts them.
* There is no clock: whatever may have run out is a reason for `Refuse` at any moment,
  and a pending identity may lapse at any moment.
* `epoch` is a history variable: which recovery a session, passkey or code descends from.
* The proofs an operation asks for before its first read (a mailed token, an
  assertion) are its subject; the client keeps them until it has its answer.
* A repeat that races its first attempt may be refused instead of answered with the
  receipt, since the conditions on rows are asked before the operation id
  (`AskedBeforeOperation`).
* Signing in asks last at the update of the signature count whether the passkey is revoked
  (`PasskeyCredentialStoreD1`), and inserts the session requests later, whatever has
  become of the passkey. A session is `late` when the passkey had been revoked by then.
* A step-up (`finishStepUp`) gives a live session new evidence and a new secret. Neither
  is in the model: a request without the evidence, or with the secret of before, is
  refused, which `Refuse` allows at any moment. That the library's `assureAndRotate`
  does not revive a session that has ended is assumed.
* Left out: several users, replacing the primary login identity, the first owner's
  password enrolment, TOTP, audit rows, secrets and their hashes, database triggers.

## The organization model

`OrganizationControl` is one deployment: the organization and mailbox rows and the
receipts of the operations that make and change them. Its requests have the shape of
those of `AccountRecovery`.

| Code | Actions and operators |
| --- | --- |
| `FirstOwnerPasswordEnrollmentD1.enroll`, `bootstrap` and `rename` of `MailboxAdministrationD1Integration`, `mutate` of `OrganizationAdministrationD1Integration`: first read, batch, refusal, readback | `Begin`, `Refuse`, `CommitAnswered`, `NotAuthorized`, `LoseAnswer`, `Land`, `ReadBack` |
| the guard of each batch | `EnrollAuthorized`, `BootstrapAuthorized`, `RenameAuthorized`, `TransitionAuthorized` |
| its other statements | `Bootstrap`, `Rename`, `Transition`, `WriteReceipt` |

* A request that finds a receipt of its operation id answers from it before it looks at
  anything else. The mailbox's and the organization's receipts are looked up by user too,
  so one user's operation id is "taken" for another; the enrollment's by the id alone.
* A client names only versions that exist or have existed.
* What the code reads of rows that are not in the model is a reason for `Refuse` at any
  moment: the session and its step-up, the configured owner's identity, credentials,
  memberships, permissions, the activation row, and the fence rows that keep a
  suspension waiting (those are in `OutboundDelivery` and `InboundProcessing`).
* A result that was committed and cannot be decoded is an error with the commit state
  "committed"; it is left out, as are the bootstrap's second read of its receipt after
  the commit, which may fail and answer 500, audit rows, the claim of the legacy mail domain and
  deployments that were cut over from the old schema. The mailbox has one status here:
  no code of this repository changes it.

## Abstract specifications

`IngestLifecycle` has two variables per mail: what the mailbox shows of it and how
many messages it became. A mail becomes a message once, only a failure worth
another try is reopened, and ready and finally failed are ends.
`ImplementsIngestLifecycle` maps the four open statuses to one phase and splits
"failed" by `replayable`.

`DeliveryLifecycle` has two variables per delivery: its status and how often the
provider has taken its message. `HandOver` is possible once, and only while the
delivery is "sending" or "indeterminate"; requeueing and failing need that it
never happened, acceptance that it did. `ImplementsLifecycle` maps `handed` to
the number of taken calls.

## Runs

Time units are scaled: the undo window and the base delay are 1, the alarm
period 2, the delay cap 2, the stale timeout 2 or 3, two attempts. The order of
the real values is kept where it decides anything (undo < alarm period <= delays < stale timeout);
the clock bound lets a delivery pass its undo window, fail, wait, be claimed
again and become stale. Where the clock may retreat it goes back to 0, so that six
units are enough there.

| Run | Instance | Question |
| --- | --- | --- |
| `outbound_safety` | 1 delivery, 2 runs, 2 attempts, clock may retreat | do overlapping runs, crashes, stale recovery and late answers keep to the lifecycle (`UnsentMeansUnsent`, `ImplementsLifecycle`), do rows decode (`RowsDecode`), is pending work armed (`PendingWorkIsArmed`), is a suspended organization quiet and its budget frozen (`SuspendedIsQuiet`, `SuspensionFreezesBudget`)? |
| `outbound_liveness` | 2 deliveries, 1 run; resends and crashes while sending go on for one unit after the other disturbances | two deliveries share the alarm, with resends and commands in between: is it never too late (`AlarmIsInTime`), and is all pending mail settled once the disturbances end (`EveryDeliverySettles`)? |
| `outbound_archived` | violation | see Findings |
| `inbound` | 1 ingest, 1 replay command, 1 retry | do late and repeated calls of replaced executions leave the row, and a suspension, alone (`RowFollowsItsAttempt`, `ReplayIsAlone`, `OnlyStaleIsRefused`, `SuspendedAwaitsNoCommit`), does a repeated or interrupted commit step keep to one message (`DeliveredIsComplete`, `ImplementsIngestLifecycle`), and do retries, replays and suspensions come to an end (`ExecutionsEnd`)? |
| `inbound_late_commit` | violation | see Findings |
| `inbound_in_flight` | violation, nothing fails | see Findings |
| `draft_files` | 2 reservations, 2 uploads of 3 contents, 1 editor, limits 2 files and 2 bytes | do racing uploads leave R2 and the rows in agreement, do a save and a send see them whole (`FilesAreStored`, `SentAsShown`, `SentIsReadable`), and can expiry, late completion and a clock set back exceed the limits (`WithinLimits`)? |
| `draft_editing` | 2 drafts, 4 users, 2 editors at once, 2 commands, then the user stops | does one composition become one draft (`OneDraftPerComposition`), is what is sent what the screen said (`CalmSendIsAsOnScreen`), is what looks saved saved (`CleanIsSaved`), and is each edit saved or reported (`EditsSettle`)? |
| `draft_retried_save` | violation, one user, nothing is refused | see Findings |
| `account_recovery` | 4 requests, 13 plans of their kinds and operation ids, 2 at once, 1 lost answer | `OneLiveIdentity`, `PasskeyRemains`, `RecoveryRetiresTheRest`, `RotationsChain`, `ProofsAreSpentOnce`, `OneEffectPerOperation`, `AnswersAreTrue` |
| `account_codes_lost` | violation | see Findings |
| `organization_control` | 4 requests of 2 users, 30 plans, 3 at once, 1 lost answer | is there one owner (`SealedOwner`), is no rename or suspension lost or made twice (`HistoryIsWhole`), and is what each user is told so (`AnswersAreTrue`), also when it is a refusal (`RefusalsAreFinal`)? |

The draft bounds: a reservation lives for one unit and the clock has two
values, so that it expires, is given away and revives. Two contents of one size
make uploads that both fit; two sizes make limits that count and bytes reach at
different moments. `MaxVersion` bounds only saves, the one action that could
repeat for ever. Attachments, commands, uploads and editors are interchangeable.

The inbound bounds: the rows of two ingests never meet and each execution has
a fence row of its own, so one ingest is enough (the proofs are for any number);
one replay command puts a replaced execution beside the current one; one retry tells "retried" from "used up", and
what the code does depends on nothing else about the count of five. The model
has no deadlock, since a call can always be repeated or the organization be
suspended or resumed, so the runs' deadlock check says nothing here;
`ExecutionsEnd` is what shows progress.

The editor bounds: two commands are a create and the update, send or repetition that
races it, or the creates of two editors. A user types two texts, one edits what other tabs
save, one attaches a file to such a draft, and one opens the next editor while those that
were left are at work (`hurries`): the pairs of writers. Two editors at once are the one on
the screen and one that was left; more would only be more that were left. Background saves
are not bounded. The tab ends when its user stops, so this run, and its violation run, do
not check deadlock. That the reopened message beside the create under way is among these
behaviours shows in `OneDraftPerComposition`: without its `crossed` part TLC violates it for
the user who hurries.

The account bounds: the plans bring together those kinds of requests that touch the
same rows: two recoveries, a recovery beside each other operation, three
requests of one kind of which two share an operation id, and setting everything up.
Two at once is every pair of races; a request that has been answered still has its
batch to land. All requests may be answered, so deadlock is not checked.

The organization bounds: the plans set a deployment up twice at once, rename the mailbox
from one version under two ids and by two users, and suspend and resume; a set-up that
is done is another initial state. Three at once is a race beside a batch that is still to
land.

In the outbound liveness run the alarm first fires at the horizon, where a
dispatch may be cut off to be found stale three units later, while the other delivery is
still to be sent or a resend is asked for. The run
takes the disturbances away with an action constraint, `SettlingStep`, which the fairness
conditions repeat: a step is fair only as far as the constraint lets it happen. The clock
stops once the calm has come and no mail is pending, which ends the run without a deadlock
check.

Runs, codes, keys, flows and challenges are interchangeable, so the instances that
check no liveness are explored up to their permutation. Deadlock is checked in
all other runs.

**Fairness** (`SettlingSpec`). Up to `Horizon` anything happens. From then on no
message is scheduled, no command is repeated, nothing is suspended and no storage
fails; until `CalmTime` a message that failed may still be resent, and the object may
crash between a claim and its settlement. After `CalmTime` the object leaves memory only
at rest. A crash at other points could repeat at one instant for ever, and is explored
before the horizon only. A
started handler continues, the runtime delivers due alarms, a suspended
organization is resumed, the clock moves, and a caller that never got an answer
returns: each is a weak fairness condition on one action, none on the provider's
taking a message. The clock waits for a due alarm and for started code
(`Punctual`); this keeps the bounded clock from running out before the work is done and
excludes only infinitely slow handlers, which weak fairness excludes anyway.

The inbound fairness (`FairSpec`) is weak, per execution: its next step is
eventually taken, as the engine runs instances on and limits each try of a step
to minutes, and the call it waits for is eventually handled. Nothing is fair about
commands, suspension or resumption.

The editor's fairness (`FairSpec`) is that of a browser: the autosave timer fires, and
a request that was sent ends, with an answer, a refusal or an error. Nothing is fair
about the mailbox or the user.

## Findings

1. `AcceptanceCanSettle` fails. A scheduled message can be archived or trashed;
   if the provider then accepts it, `settle` dies because the message is not in
   Scheduled, and the known acceptance is recorded as "indeterminate", without
   the provider's message id and open to a resend.
2. `CommitsWhileActive` fails. ADR 0001 (line 40) says suspension cannot race the
   side effect of an inbound commit. The fence row is released however the commit
   call ended; one that failed for its caller may still be executed, after the
   organization was suspended. What does hold is `SuspendedAwaitsNoCommit`: no
   execution is still waiting for a commit then.
3. `InFlightFinishes` fails with nothing else going wrong. ADR 0002 (line 52) says
   an in-flight message always finishes in its mailbox; an execution that finds
   the organization suspended ends without recording it, the row stays
   `attachments_stored`, and a replay is refused because the row has not failed.
4. `SentAsOnScreen` fails. A retried save is awaited alone (`inbox.tsx:1951`): what was
   typed during the retry is not saved before Send issues its command, which
   then schedules the old text. A send that met no retried save does say what the
   screen said (`CalmSendIsAsOnScreen`).
5. `CodesCanBeRotated` fails. A completed recovery stores its new codes with metadata
   that the rotation cannot read (`PasskeyEnrollmentD1.ts:1080`), so rotating lost
   codes after a recovery, as the runbook advises, is refused as a storage error.

Observations that no run is spent on. One: the comment at `MailboxOutboundAlarmScheduler.ts:39`
says RPC traffic cannot starve due work, but an alarm that is due and not yet
delivered is replaced by one a retry period later. `RpcKeepsPendingRetry` is the
claim for alarms in the future; `AlarmIsInTime` bounds the delay.

Another: ADR 0001 (line 39) allows ordinary administration only while the
organization is active, and the matrix of `Organization.ts` says so of managing
mailboxes, but the batch that renames a mailbox asks for the mailbox's status only
(`RenameAuthorized`). A third: the trigger `app_organization_update_lifecycle` of
migration 1029 checks fence and audit rows only when `updated_at` has not gone
back, so with a clock set back the batch's own guard is the only check.

A fourth: the runbook `owner-grant-routing-recovery.md` says that a completed recovery
"revokes prior sessions and factors" (line 68) and that "old sessions and sign-in factors
fail" (line 102). A sign-in whose passkey was checked before the remediation commits gets
its session after it (`PasskeyAuthentication.ts:332`), from a passkey that is revoked by
then, and that session may add a passkey or make codes like any other.
`RecoveryRetiresTheRest` says that nothing else of before survives; without the exemption
of late sign-ins the account run finds it violated in eleven steps.

## Proofs

`OutboundDeliveryProofs` proves, for any finite or infinite sets of deliveries
and runs, any timing constants that satisfy `TimingAssumption` and a clock that
may retreat:

* `TypeCorrect`, by `TypeInv`: types, plus that a queued row has an attempt left
  (`BudgetInv`) and that a working run has a claim (`ClaimInv`). The attempt
  bound is not inductive without them.
* `AtMostOnce`, `UnsentIsUnsent`, `AcceptedIsTaken`, by `SafetyInv`. The argument:
  a run between claim and settle owns its row, or the row is "indeterminate" for
  good (`OwnerInv`), because only an owner or stale recovery moves a "sending"
  row and nothing moves an indeterminate one. So no two runs work on one
  delivery (`ExclusiveInv`). Hence a run knows that its delivery has no live call
  before it sends, only its own while it waits, and none after a refusal
  (`SendInv`); and a row is unsent only if no call for it is live (`UnsentInv`).
* `VersionedTransitions`, `FrozenBudget` and `SuspensionIsQuiet`, by `FenceInv`:
  fence rows exist only while the organization is active, every run past its
  fence holds one, and every open call has a waiting run or a surviving row.
* `DecodingRows`, by `StampInv`: the time a claim carries is no earlier than the
  times it will overwrite.
* `PendingIsArmed` and `PendingRetryIsKept`, from the types alone.
* `AlarmInTime`, for a clock that does not retreat: a step that ends at rest either
  reconciles, which puts the alarm in time (`ReconcileIsInTime`), or starts at rest and
  leaves the pending rows and the alarm (`RestingStep`). If the clock goes back, the
  bound is really exceeded: "one period from now" was measured from a later now.
* `LifecycleImplemented`: each step maps to a step of `DeliveryLifecycle` or a
  stutter; the count of taken calls is 0 or 1 by `SafetyInv`.

`InboundProcessingProofs` proves every safety property of the inbound runs, for
any set of mails, any finite set of replay commands and any number of retries:

* `TypeCorrect`, by `TypeInv`: types, plus that each attempt after the first has
  used up a replay command (`CountInv`), without which the attempt of a row has no
  bound, and that a mail has its message exactly when its row is ready
  (`MessageInv`), without which a second commit could not be excluded.
* The lemmas on `Moves` say which stages a step can lead to, once for all steps;
  the proofs below argue from these edges and not from each action again.
* `RowFollows`, by `ProgressInv`: calls are never withdrawn, so what counts is what
  was ever asked for. An execution asked for no checkpoint beyond the one it has
  come to (`ReportInv`), and the mailbox gives way only to the current attempt.
* `DeliveryIsComplete`, by `DeliveryInv`: whoever asked for a commit had stored the
  attachments first (`StoredInv`), however late the commit is executed.
* `ReplaysAreAlone`, by `ReplayInv`: who reported a failure has given up for good; an
  execution before the current attempt, or of a failed row, has given up, and
  one after it has not begun (`AloneInv`). A replay needs a failed row, so the
  execution it replaces is no longer at work. `ReplaysCounted` follows the receipts.
* `RefusedAreStale` and `EndsMatchRows`, by `OutcomeInv`: an answer under way is
  still true when it arrives unless a replay took the row over (`AnswerInv`), and
  an execution goes on only once the row has come as far as it needs (`EndInv`).
* `SuspensionAwaitsNoCommit`, by `QuietInv`: suspension finds no fence row.
* `IngestLifecycleImplemented`: a step changes what `IngestLifecycle` sees of one
  mail at most, and then along one of its actions.

`DraftAttachmentsProofs` proves the safety properties of the draft runs for any
finite set of ids, any uploads, editors, contents, limits and any clock, by one
inductive invariant, `IInv`:

* `IdsInv`: a row is the one its command's receipt names, and every id somebody
  knows is in a receipt. So no id is drawn again (`OnePlace`), and an upload that
  comes late finds its own row or none.
* `UploadsFit` and `BlobsInv`: an upload about to complete has found its content in
  R2, and objects are never replaced, so what is stored is readable
  (`SendsWhatIsReadable`).
* `EditorsInv`: while the version an editor holds is current, what it holds is the
  draft's: each change of the files raises the version. So a save that passes the
  version check writes back the list it would read now (`FilesStayStored`), and a
  send carries what was shown (`SendsWhatIsShown`).
* `LimitsHold`, by `RoomInv`: all rows together, in number and in bytes, are within
  the limits, not only the stored ones, because an expired place is given away before
  a new one is counted. Places are not counted with the clock as it is later. The
  sum of the sizes is defined as the number of the files' bytes (`Bytes`), so that the
  facts about finite sets apply to it; a fold would need an induction.

`DraftEditingProofs` proves every safety property of the editor run, for any sets of
drafts, texts, files, users and editors at work at once, with or without refusals, and any
number of commands, from the assumptions that ids, texts and "nothing" differ (`DraftsAssumption`,
`NoneAssumption`). The handlers are functions of a record of the editor, its tab and the
commands, so the invariant, `IInv`, is stated of such a record (`WorkInv`), each function is
shown to keep it once (`StartSaveKeeps`, `ResumeKeeps`, ...), and the actions follow from the
functions they are made of. What a step does to the other editors is shown once
(`StepKeeps`): commands only grow in number and in what is told of them (`Onward`), an
editor that was left creates nothing (`Onwards`), and one that waits to send is told of the
next editor (`AloneInv`). None of the properties is inductive: each is about what a late
command will find.

* `TypeCorrect`: types. A send or an update has the id of a draft, which needs `known`
  wherever the editor may send one (`EditorInv`, `SavingInv`).
* `OneDraft`, by `TabInv` and `EditorInv`: the create that session storage or the editor on
  the screen keeps is the only one of its composition that was not given up
  (`NoCreateBut`), and where neither has a draft or a create, there is none. A create is
  given up when it is refused, when its outcome is told to an editor that was left while
  another is on the screen, or when such an outcome ends its place in the session storage
  (`Loose`, `CrossedIs`).
* `CalmSend`, by `CallInv`: while a send can still be executed, the draft in the version it
  names says what it says. It is true when the send is issued, because the last save that
  it waited for was ours and no other of ours can be executed any more (`FreshSave`), and what was typed
  is what that save said (`SendInv`), as no other editor is at work. A retried save is not waited for in this way, which
  is finding 4.
* `CleanSaved`, by `Had` and `Seen`: what a browser knows of a draft was so at the version
  it knows, and what the mailbox had is never forgotten (`RowMoves`).

`AccountRecoveryProofs` proves every safety property of the account run, for any sets of requests, operation ids, codes, keys, flows and
challenges, any plans and any bounds on overlap and losses, from
`RecoveryAssumption` and `NoReceiptAssumption`:

* `TypeCorrect`, by `TypeInv`: types, plus that a request whose batch may still be
  applied knows what it asked and in which session (`AskedInv`).
* `PasskeysRemain`: a revocation leaves another passkey, a remediation its own.
* `TheRestIsRetired`, by `RetiresInv`: what a batch makes descends from a session or code
  that is live in the same batch, and a sign-in from the passkey it checked, which goes on
  to belong to one recovery (`CheckedInv`). A session whose passkey is revoked by the time
  it is inserted is the exception that the property names.
* `IdentityIsOne` and `EffectsAreOnce`, by `FreshInv`: a request that may still write
  has made no rows yet, since its rows and its receipt come in one batch.
* `RotationsAreChained`, by `SetsInv`: a set that a rotation replaced has no unused
  code again, so the guard of another rotation cannot find it active.
* `ProofsAreSpent`, by `SpendsInv`: the spent links, the used codes and the restricted
  sessions are those of the completion receipts, part by part; the guard of the next
  completion needs a link and a code that are in none of them.
* `AnswersHold`, by `ReceiptsInv` and `AnswersInv`: a receipt is true when it is written,
  receipts are never replaced, and what one names is never undone (`Lasts`): a
  remediation may revoke a passkey that a receipt says was made, but not unmake it.

`OrganizationControlProofs` proves every safety property of the organization run, for
any sets of requests, operation ids, users and names, any plans and bounds, from
`ControlAssumption` and `NoneAssumption`, by one inductive invariant, `IInv`:

* `RowInv`: a batch that is applied makes the next version from the last (`HistoryGrows`),
  so the receipts stay the rows' history (`HistoryWhole`); an enrollment finds none and a
  mailbox's creation finds one of the same user (`OwnerIsSealed`).
* `RequestInv` and `ReceiptInv`: a receipt is of the request that wrote it, whose batch has
  answered or landed, and a request that is told "taken" has a receipt in its place, so
  its own batch, should it land, writes nothing (`RefusalsFinal`). Receipts are never
  replaced, so an answer stays true (`AnswersTrue`).

Properties that are proved and no longer model-checked, to keep the runs few: the
theorems `AtMostOnce`, `AcceptedIsTaken`, `VersionedTransitions`, `PendingRetryIsKept`,
`ReplaysCounted`, `EndsMatchRows`, `OnePlace` and `StoredStays` state theirs for any instance.

Only model-checked: `EveryDeliverySettles`, `ExecutionsEnd` and `EditsSettle` (liveness
under fairness is out of the prover's reach). Every other property of a passing run is
proved.

## Plan

In this order, each with its properties, runs, mutants and proofs:

1. `OutboundDelivery`, `DeliveryLifecycle` and their proofs: done.
2. `InboundProcessing`, `IngestLifecycle` and their proofs: done.
3. The receipts of schedule, cancel and resend: left out. Each is read and written in the
   one SQLite transaction of its effect, so no other step comes between; the effects
   are in `OutboundDelivery`, the draft that a send consumes in the draft models.
4. `OrganizationControl` and its proofs: done. Fence rows of several mailboxes and the
   composition with the fence of `OutboundDelivery` are left.
5. `DraftAttachments` and `DraftEditing` and their proofs: done.
6. `AccountRecovery`, passkeys included, and its proofs: done.
7. `AiToolRunBudget` and the rules: left out. The budget is a `Ref` of one run that each
   operation modifies atomically; a rule is a pure function of one message.

What could be added: the composition of a tab (`DraftEditing`) with the uploads of its
draft (`DraftAttachments`), which meet only in the version and files of the draft row, and
fence rows of several mailboxes.

## Not modelled

Contents: addresses, subjects, bodies, MIME, HTML. Notifications to open
browsers. The retry delay's cap is reached in the small instance but never in
the program (five attempts stay below it). HTTP decoding, rendering, the website
and the stubbed asynchronous rule Workflow keep no state worth a model. The other
components are listed in `PROJECT.json` with their reasons.
