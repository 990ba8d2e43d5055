---------------------------- MODULE DraftEditing ----------------------------
(***************************************************************************)
(* How a browser tab edits the drafts of a mailbox.  The editor on its     *)
(* screen (DraftWorkspace) saves what is typed in the background, one save *)
(* after the other, keeps what is unsaved in the tab's session storage,    *)
(* and flushes its saves before it sends, uploads or closes.               *)
(*                                                                         *)
(* Commands reach the mailbox late, or not at all, or their answer is      *)
(* lost; the tab may be reloaded at any moment; other tabs change the same *)
(* drafts.  An editor that was left still handles the answers it waits     *)
(* for, over the same session storage and query cache as the next one,     *)
(* which may be on the screen by then.                                     *)
(***************************************************************************)
EXTENDS Integers, Sequences

CONSTANTS
  Drafts,      \* draft ids, drawn at random by the mailbox
  Texts,       \* what the fields of the form can hold
  Empty,       \* emptyDraftContent
  Files,       \* files that are attached
  Users,       \* what users do, and how fast: bounds them
  Mounts,      \* the editors that can be at work at once: bounds them
  MaxCalls,    \* the user stops when the tab has issued so many commands
  None

ASSUME EmptyAssumption == Empty \in Texts

Compose == "compose"
Places == Drafts \cup {Compose}          \* keys of the session storage
Urls == Places \cup {"away"}

\* What a user types and attaches and where the user goes, what is saved in other
\* tabs, whether the next editor is opened before those that were left have ended, and
\* whether the permission to edit may be taken away.
User == [texts : SUBSET Texts, files : SUBSET Files, urls : SUBSET Urls,
         others : SUBSET Texts, hurries : BOOLEAN, refused : BOOLEAN]

ASSUME UsersAssumption == Users \subseteq User
ASSUME BoundAssumption == MaxCalls \in Nat

VARIABLES
  drafts,   \* the draft rows
  calls,    \* the commands issued; a command's operation id is its place here
  puts,     \* the uploads sent to the mailbox: files with their drafts
  tab,      \* where the tab is, its session storage, its query cache and its user
  editors   \* the editors at work: one at most is mounted, the others were left

vars == <<drafts, calls, puts, tab, editors>>

\* What the browser knows of a draft (DraftEditorDraft).
Known == [id : Drafts, version : Nat, text : Texts]

\* elsewhere is told for the properties: what other tabs have saved in the draft.
DraftRows == [text : Texts, version : Nat, files : SUBSET Files, live : BOOLEAN,
              elsewhere : SUBSET Texts]

\* A command.  The receipt is the mailbox_operation row; the request of an update
\* holds the files of the draft.  Told for the properties: the composition a create
\* belongs to, the text of a send on the screen, whether the browser gave a create
\* up (refused) or dropped it for what became of another editor's (crossed), and
\* whether a send was asked for with no save being retried and no other editor at
\* work (calm).
Calls ==
  LET Kind(kinds, ids) ==
        [kind : kinds, id : ids, version : Nat, text : Texts, composition : Nat,
         receipt : {None} \cup SUBSET Files,
         refused : BOOLEAN, crossed : BOOLEAN, calm : BOOLEAN]
  IN Kind({"create"}, Drafts \cup {None}) \cup Kind({"update", "send"}, Drafts)

\* created is createdComposeDraftId; create the pending create command.
Tab == [url : Urls, created : Drafts \cup {None},
        stored : [Places -> Texts \cup {None}], create : Nat,
        cache : [Drafts -> Known \cup {None}], composition : Nat, user : User]

\* retried: saveInFlight is that of retrySave, not of drainSaves.
Saving == [op : Nat, again : BOOLEAN, retried : BOOLEAN]
Failure == [op : Nat, retryable : BOOLEAN]
Sending == [op : Nat, uncertain : BOOLEAN]
Uploading == [file : Files, draft : Drafts \cup {None},
              stage : {"waiting", "asked", "failed"}, retryable : BOOLEAN]

EditorStates ==
  [mounted : BOOLEAN, key : Places, draftId : Places,
   session : Places,                     \* composeSessionRef
   text : Texts,                         \* latestFields
   known : Known \cup {None},            \* serverDraft
   create : Nat,                         \* pendingCreate
   autosave : BOOLEAN,                   \* the autosave timer is set
   pending : Texts \cup {None},          \* pendingSave
   saving : Saving \cup {None},          \* saveInFlight
   failure : Failure \cup {None},        \* failureRef
   sending : Sending \cup {None},        \* isSending or isSendUncertain
   intent : {"none", "close", "send", "attach"},   \* what awaits flushSave
   hasty : BOOLEAN,                      \* it awaits the retried save only
   beside : BOOLEAN,                     \* another editor is, or was, at work meanwhile
   upload : Uploading \cup {None},       \* attachmentUploads
   dirty : BOOLEAN]

\* Ids are random, and nothing that is there is missing.
ASSUME DraftsAssumption == Compose \notin Drafts
ASSUME NoneAssumption ==
  /\ None \notin Drafts \cup Texts \cup Known \cup DraftRows
  /\ None \notin Saving \cup Failure \cup Sending \cup Uploading
  /\ \A files \in SUBSET Files : files # None

Init ==
  /\ drafts = [d \in Drafts |-> None]
  /\ calls = <<>>
  /\ puts = {}
  /\ \E user \in Users :
       tab = [url |-> Compose, created |-> None, stored |-> [p \in Places |-> None],
              create |-> 0, cache |-> [d \in Drafts |-> None], composition |-> 0,
              user |-> user]
  /\ editors = [m \in Mounts |-> None]

-----------------------------------------------------------------------------
(* The mailbox: one transaction per command. *)

Live(d) == drafts[d] # None /\ drafts[d].live
View(d) == [id |-> d, version |-> drafts[d].version, text |-> drafts[d].text]

Executed(op) == calls[op].receipt # None

\* What is sent needs a recipient.
MayWrite(op) ==
  LET call == calls[op]
  IN /\ ~Executed(op)
     /\ Live(call.id) /\ drafts[call.id].version = call.version
     /\ call.kind = "send" => drafts[call.id].text # Empty

\* Ids are only compared for equality: any that is not in use will do.
CreateDraft(op) ==
  LET unused == {d \in Drafts : drafts[d] = None}
      d == CHOOSE x \in unused : TRUE
  IN /\ calls[op].kind = "create" /\ ~Executed(op)
     /\ unused # {}
     /\ drafts' = [drafts EXCEPT ![d] =
          [text |-> calls[op].text, version |-> 1, files |-> {}, live |-> TRUE,
           elsewhere |-> {}]]
     /\ calls' = [calls EXCEPT ![op].id = d, ![op].receipt = {}]
     /\ UNCHANGED <<puts, tab, editors>>

UpdateDraft(op) ==
  LET d == calls[op].id
  IN /\ calls[op].kind = "update" /\ MayWrite(op)
     /\ drafts' = [drafts EXCEPT ![d].text = calls[op].text, ![d].version = @ + 1]
     /\ calls' = [calls EXCEPT ![op].receipt = drafts[d].files]
     /\ UNCHANGED <<puts, tab, editors>>

ScheduleOutbound(op) ==
  LET d == calls[op].id
  IN /\ calls[op].kind = "send" /\ MayWrite(op)
     /\ drafts' = [drafts EXCEPT ![d].live = FALSE, ![d].version = @ + 1]
     /\ calls' = [calls EXCEPT ![op].receipt = {}]
     /\ UNCHANGED <<puts, tab, editors>>

\* The upload of a file is completed, whether or not the editor still waits.
CompleteUpload(put) ==
  LET d == put[2]
  IN /\ Live(d)
     /\ put[1] \notin drafts[d].files
     /\ drafts' = [drafts EXCEPT ![d].files = @ \cup {put[1]}, ![d].version = @ + 1]
     /\ UNCHANGED <<calls, puts, tab, editors>>

\* Another tab saves the draft, or sends it (a bound: one of them).
Elsewhere(d) ==
  /\ Live(d) /\ drafts[d].elsewhere = {} /\ tab.user.others # {}
  /\ \/ \E text \in tab.user.others :
          drafts' = [drafts EXCEPT ![d].text = text, ![d].version = @ + 1,
                                   ![d].elsewhere = {text}]
     \/ drafts' = [drafts EXCEPT ![d].live = FALSE, ![d].version = @ + 1]
  /\ UNCHANGED <<calls, puts, tab, editors>>

\* The request key of an update has the files the draft has at the time: one that
\* is repeated after a file was completed is another request under the same id.
Repeated(op) ==
  Executed(op) /\ (calls[op].kind = "update" => calls[op].receipt = drafts[calls[op].id].files)

\* Whether a create or update is answered with the draft, and whether it may be
\* refused.  A command that is not sent again is answered for its execution.
Accepted(save) ==
  /\ IF save.again THEN Repeated(save.op) ELSE Executed(save.op)
  /\ Live(calls[save.op].id)

Refused(save) ==
  \/ tab.user.refused
  \/ Executed(save.op) /\ ~Accepted(save)
  \/ calls[save.op].kind = "update" /\ ~Executed(save.op) /\ ~MayWrite(save.op)

-----------------------------------------------------------------------------
(* Steps of the editor, as functions of it, its tab and the commands.         *)

Now(m) == [e |-> editors[m], t |-> tab, c |-> calls]

AtWork(m) == editors[m] # None
Open(m) == AtWork(m) /\ editors[m].mounted

\* Another editor is at work, or on the screen.
Beside(m) == \E k \in Mounts \ {m} : AtWork(k)
Replaced(m) == \E k \in Mounts \ {m} : Open(k)

Persisted(e) == IF e.known = None THEN Empty ELSE e.known.text

SentFiles(e) ==
  IF e.upload # None /\ e.upload.stage = "asked"
  THEN {<<e.upload.file, e.upload.draft>>} ELSE {}

\* An editor that was left ends when it awaits nothing more.
Ended(e) ==
  /\ ~e.mounted /\ e.saving = None
  /\ e.sending # None => e.sending.uncertain
  /\ e.upload # None => e.upload.stage = "failed"

Become(m, s) ==
  /\ editors' = [editors EXCEPT ![m] = IF Ended(s.e) THEN None ELSE s.e]
  /\ tab' = s.t
  /\ calls' = s.c
  /\ puts' = puts \cup SentFiles(s.e)
  /\ UNCHANGED drafts

\* clearRecoveredFields.
Forgotten(s) == [s EXCEPT !.t.stored[s.e.session] = None]

Command(kind, s, text) ==
  [kind |-> kind, text |-> text, composition |-> s.t.composition,
   id |-> IF s.e.known = None THEN None ELSE s.e.known.id,
   version |-> IF s.e.known = None THEN 0 ELSE s.e.known.version,
   receipt |-> None, refused |-> FALSE, crossed |-> FALSE,
   calm |-> kind = "send" /\ ~s.e.hasty /\ ~s.e.beside]

\* What awaited flushSave goes on: the saves are done, or one has failed.
Resume(s) ==
  LET done == [s EXCEPT !.e.intent = "none", !.e.hasty = FALSE, !.e.beside = FALSE]
      saved == s.e.failure = None
  IN CASE s.e.intent = "close" /\ saved -> [done EXCEPT !.t.url = "away"]
       [] s.e.intent = "send" /\ saved ->
            [done EXCEPT !.e.sending = [op |-> Len(s.c) + 1, uncertain |-> FALSE],
                         !.c = Append(@, Command("send", s, s.e.text))]
       [] s.e.intent = "attach" /\ saved ->
            [done EXCEPT !.e.upload.stage = "asked", !.e.upload.draft = s.e.known.id]
       [] s.e.intent = "attach" /\ ~saved ->
            [done EXCEPT !.e.upload.stage = "failed", !.e.upload.retryable = TRUE]
       [] OTHER -> done

NewSave(s, kind) ==
  [s EXCEPT !.e.saving = [op |-> Len(s.c) + 1, again |-> FALSE, retried |-> FALSE],
            !.e.pending = None,
            !.c = Append(@, Command(kind, s, s.e.pending))]

\* A create is kept in the session storage until its outcome is known.
Kept(s) == [s EXCEPT !.e.create = s.e.saving.op, !.t.create = s.e.saving.op]

\* A mutant of StartSave: every save is a new command.
StartNewSave(s) ==
  IF s.e.known # None THEN NewSave(s, "update") ELSE Kept(NewSave(s, "create"))

\* A create whose outcome is not known is sent again, with the same operation id,
\* before anything else is saved.
StartSave(s) ==
  CASE s.e.known # None -> NewSave(s, "update")
    [] s.e.known = None /\ s.e.create = 0 -> Kept(NewSave(s, "create"))
    [] OTHER ->
         Kept([s EXCEPT !.e.saving = [op |-> s.e.create, again |-> TRUE, retried |-> FALSE]])

\* A mutant of DrainSaves: a send does not wait for the saves.
DrainUnlessSending(s) ==
  IF s.e.pending # None /\ s.e.failure = None /\ s.e.intent # "send"
  THEN StartSave(s) ELSE Resume(s)

\* The loop of drainSaves, with no save in flight.
DrainSaves(s) ==
  IF s.e.pending # None /\ s.e.failure = None THEN StartSave(s) ELSE Resume(s)

\* A mutant of DrainMore: what was typed during a save waits for the next edit.
DrainNoMore(s) == Resume(s)

\* The loop goes on with what was typed during the save; what awaited only the
\* retried save does not wait for that.
DrainMore(s) == DrainSaves(IF s.e.hasty THEN Resume(s) ELSE s)

RetrySave(s) ==
  LET op == s.e.failure.op
      again == [s EXCEPT !.e.failure = None,
                         !.e.saving = [op |-> op, again |-> TRUE, retried |-> TRUE]]
  IN IF calls[op].kind = "create" THEN Kept(again) ELSE again

\* While a save is in flight, drainSaves is what is in flight.
FlushSave(s) ==
  LET e == s.e
      clean == /\ e.known # None /\ e.saving = None /\ e.pending = None
               /\ e.failure = None /\ e.text = e.known.text
      queued == [s EXCEPT !.e.pending = e.text]
  IN CASE clean -> Resume(Forgotten([s EXCEPT !.e.dirty = FALSE]))
       [] e.saving # None -> [queued EXCEPT !.e.hasty = e.saving.retried]
       [] e.saving = None /\ e.failure # None /\ e.failure.retryable -> RetrySave(queued)
       [] OTHER -> DrainSaves(queued)

-----------------------------------------------------------------------------
(* Saving in the background. *)

\* The autosave timer.
QueueSave(m) ==
  LET e == editors[m]
      s == [Now(m) EXCEPT !.e.autosave = FALSE]
      queued == [s EXCEPT !.e.pending = e.text]
      persisted == e.saving = None /\ e.text = Persisted(e)
  IN /\ AtWork(m) /\ e.autosave
     /\ Become(m,
          CASE persisted -> Forgotten([s EXCEPT !.e.pending = None, !.e.dirty = FALSE])
            [] ~persisted /\ e.saving = None /\ e.failure = None -> StartSave(queued)
            [] OTHER -> queued)

\* A mutant of IsLatest: what was typed since is not looked at.
AssumedLatest(text, call) == TRUE

\* The form still has what was saved.
IsLatest(text, call) == text = call.text

\* The outcome of a create ends the pending create of the tab, whichever that is,
\* and is not told to the editor that is on the screen by then.
Crossed(m, op) ==
  [i \in DOMAIN calls |->
     IF (i = op /\ Replaced(m)) \/ (i # op /\ i = tab.create)
     THEN [calls[i] EXCEPT !.crossed = TRUE] ELSE calls[i]]

\* The draft a save answers with is read after the save, with all that has
\* happened to it since.
SaveAnswered(m) ==
  LET e == editors[m]
      call == calls[e.saving.op]
      d == call.id
      latest == IsLatest(e.text, call)
      saved == [Now(m) EXCEPT !.e.known = View(d), !.e.saving = None, !.e.dirty = ~latest,
                              !.t.cache[d] = View(d)]
      cleared == IF latest THEN Forgotten(saved) ELSE saved
      Moved(stored) == [stored EXCEPT ![Compose] = None, ![d] = e.text]
  IN /\ AtWork(m) /\ e.saving # None /\ Accepted(e.saving)
     /\ Become(m, DrainMore(
          IF call.kind = "update" THEN cleared
          ELSE [cleared EXCEPT !.e.create = 0, !.e.session = d,
                  !.t.create = 0, !.t.created = d, !.t.url = d,
                  !.t.stored = IF latest THEN @ ELSE Moved(@),
                  !.c = Crossed(m, e.saving.op)]))

\* A definite refusal, also when the saved draft is gone before it is read.
SaveRefused(m) ==
  LET op == editors[m].saving.op
      failed == [Now(m) EXCEPT !.e.saving = None,
                               !.e.failure = [op |-> op, retryable |-> FALSE]]
  IN /\ AtWork(m) /\ editors[m].saving # None /\ Refused(editors[m].saving)
     /\ Become(m, Resume(
          IF calls[op].kind = "update" THEN failed
          ELSE [failed EXCEPT !.e.create = 0, !.t.create = 0,
                  !.c = [Crossed(m, op) EXCEPT ![op].refused = TRUE]]))

\* No answer, or one that tells nothing: the same command can be sent again.
SaveLost(m) ==
  /\ AtWork(m) /\ editors[m].saving # None
  /\ Become(m, Resume([Now(m) EXCEPT !.e.saving = None,
                         !.e.failure = [op |-> editors[m].saving.op, retryable |-> TRUE]]))

-----------------------------------------------------------------------------
(* What the user does on the screen. *)

Shown(m) == Open(m) /\ editors[m].draftId = tab.url
Locked(m) ==
  editors[m].intent = "send" \/ editors[m].sending # None \/ editors[m].upload # None

\* Another button is not pressed while one waits for the saves.
Idle(m) == Shown(m) /\ editors[m].intent = "none" /\ ~Locked(m)

\* The timer that writes the fields to the session storage is part of the step.
Edit(m, text) ==
  LET e == editors[m]
      unsaved == e.saving # None \/ text # Persisted(e)
  IN /\ Shown(m) /\ ~Locked(m)
     /\ text \in tab.user.texts \ {e.text}
     /\ Become(m, [Now(m) EXCEPT !.e.text = text, !.e.autosave = TRUE, !.e.dirty = unsaved,
                      !.t.stored[e.session] = IF unsaved THEN text ELSE None])

Close(m) ==
  /\ Idle(m)
  /\ Become(m, IF editors[m].dirty THEN FlushSave([Now(m) EXCEPT !.e.intent = "close"])
                                   ELSE [Now(m) EXCEPT !.t.url = "away"])

\* A message needs a recipient.
Send(m) ==
  /\ Idle(m) /\ editors[m].text # Empty
  /\ Become(m, FlushSave([Now(m) EXCEPT !.e.intent = "send", !.e.beside = Beside(m)]))

\* The retry button: an uncertain send first, else a failed save.
Retry(m) ==
  LET e == editors[m]
      uncertain == e.sending # None /\ e.sending.uncertain
  IN /\ Shown(m) /\ e.saving = None
     /\ \/ uncertain /\ Become(m, [Now(m) EXCEPT !.e.sending.uncertain = FALSE])
        \/ /\ e.sending = None /\ e.intent = "none"
           /\ e.failure # None /\ e.failure.retryable
           /\ Become(m, RetrySave(Now(m)))

Attach(m, file) ==
  /\ Idle(m)
  /\ file \in tab.user.files /\ \A put \in puts : put[1] # file
  /\ Become(m, FlushSave([Now(m) EXCEPT !.e.intent = "attach", !.e.upload =
                 [file |-> file, draft |-> None, stage |-> "waiting", retryable |-> TRUE]]))

RetryUpload(m) ==
  LET upload == editors[m].upload
  IN /\ Shown(m) /\ editors[m].intent = "none"
     /\ upload # None /\ upload.stage = "failed" /\ upload.retryable
     /\ Become(m, FlushSave([Now(m) EXCEPT !.e.intent = "attach",
                                           !.e.upload.stage = "waiting"]))

DismissUpload(m) ==
  /\ Shown(m) /\ editors[m].upload # None /\ editors[m].upload.stage = "failed"
  /\ Become(m, [Now(m) EXCEPT !.e.upload = None])

-----------------------------------------------------------------------------
(* Sending and uploading. *)

Waiting(m) == AtWork(m) /\ editors[m].sending # None /\ ~editors[m].sending.uncertain
Uploads(m) == AtWork(m) /\ editors[m].upload # None /\ editors[m].upload.stage = "asked"

SendAnswered(m) ==
  /\ Waiting(m) /\ Executed(editors[m].sending.op)
  /\ Become(m, Forgotten([Now(m) EXCEPT !.e.sending = None, !.e.dirty = FALSE,
                                        !.t.url = "away"]))

SendRefused(m) ==
  /\ Waiting(m)
  /\ \/ tab.user.refused
     \/ ~Executed(editors[m].sending.op) /\ ~MayWrite(editors[m].sending.op)
  /\ Become(m, [Now(m) EXCEPT !.e.sending = None])

SendLost(m) ==
  /\ Waiting(m)
  /\ Become(m, [Now(m) EXCEPT !.e.sending.uncertain = TRUE])

\* After an upload the draft is read and, if it still says what the editor shows,
\* taken over with its new version.
UploadAnswered(m) ==
  LET e == editors[m]
      d == e.upload.draft
  IN /\ Uploads(m)
     /\ Live(d) /\ e.upload.file \in drafts[d].files
     /\ Become(m,
          IF e.text = drafts[d].text
          THEN [Now(m) EXCEPT !.e.upload = None, !.e.known = View(d), !.t.cache[d] = View(d)]
          ELSE [Now(m) EXCEPT !.e.upload.stage = "failed", !.e.upload.retryable = FALSE])

UploadFails(m) ==
  /\ Uploads(m)
  /\ \E again \in BOOLEAN :
       Become(m, [Now(m) EXCEPT !.e.upload.stage = "failed", !.e.upload.retryable = again])

-----------------------------------------------------------------------------
(* The tab: where it is, and which editor that mounts. *)

\* The key of DraftWorkspace.  The editor that made a draft keeps its place.
Key == IF tab.url = tab.created THEN Compose ELSE tab.url

Navigate(url) ==
  /\ url \in tab.user.urls \ {tab.url}
  /\ url \in Drafts => Live(url)
  /\ tab' = [tab EXCEPT !.url = url]
  /\ UNCHANGED <<drafts, calls, puts, editors>>

\* The editor on the screen stays, with another draftId, or is unmounted: what it
\* has not saved goes to the session storage, and its timers are cleared.
Render(m) ==
  LET e == editors[m]
  IN /\ Open(m)
     /\ IF tab.url # "away" /\ Key = e.key
        THEN /\ e.draftId # tab.url
             /\ Become(m, [Now(m) EXCEPT !.e.draftId = tab.url])
        ELSE Become(m, [Now(m) EXCEPT !.e.mounted = FALSE, !.e.autosave = FALSE,
                          !.t.stored[e.session] = IF e.dirty THEN e.text ELSE @])

\* A newer draft in the query cache is taken over, whichever editor put it there;
\* the form keeps its fields and the editor its session.
TakeOver(m) ==
  LET e == editors[m]
      current == tab.cache[e.draftId]
  IN /\ Open(m) /\ e.draftId \in Drafts /\ current # None
     /\ e.known # None => current.version > e.known.version
     /\ Become(m, [Now(m) EXCEPT !.e.known = current])

NewEditor(known, text, recovered, create) ==
  [mounted |-> TRUE, key |-> Key, draftId |-> tab.url, session |-> tab.url,
   text |-> text, known |-> known, create |-> create, autosave |-> recovered,
   pending |-> None, saving |-> None, failure |-> None, sending |-> None,
   intent |-> "none", hasty |-> FALSE, beside |-> FALSE, upload |-> None,
   dirty |-> recovered]

\* A place for the next editor, when none is on the screen.
Vacant(m) ==
  /\ \A k \in Mounts : ~Open(k) /\ (AtWork(k) => tab.user.hurries)
  /\ ~AtWork(m) /\ m = CHOOSE k \in Mounts : ~AtWork(k)

\* It works beside those that were left.
Mounted(m, e) ==
  editors' = [k \in Mounts |->
    CASE k = m -> e
      [] k # m /\ ~AtWork(k) -> None
      [] OTHER -> [editors[k] EXCEPT !.beside = editors[k].intent = "send"]]

\* A new message, or the one that the session storage still has.
MountCompose(m) ==
  LET recovered == tab.stored[Compose] # None \/ tab.create # 0
      text == CASE tab.stored[Compose] # None -> tab.stored[Compose]
                [] tab.stored[Compose] = None /\ tab.create # 0 -> calls[tab.create].text
                [] OTHER -> Empty
  IN /\ tab.url = Compose /\ Vacant(m)
     /\ Mounted(m, NewEditor(None, text, recovered, tab.create))
     /\ tab' = [tab EXCEPT !.composition = IF recovered THEN @ ELSE Len(calls)]
     /\ UNCHANGED <<drafts, calls, puts>>

\* A draft is shown from the query cache, which is never stale but may have been
\* collected; fields from the session storage are shown in its place.
MountDraft(m) ==
  LET d == tab.url
      Text(known) == IF tab.stored[d] = None THEN known.text ELSE tab.stored[d]
  IN /\ d \in Drafts /\ Vacant(m)
     /\ \E known \in {tab.cache[d]} \cup {View(x) : x \in {y \in {d} : Live(y)}} :
          /\ known # None
          /\ Mounted(m, NewEditor(known, Text(known), tab.stored[d] # None, 0))
          /\ tab' = [tab EXCEPT !.cache[d] = known]
     /\ UNCHANGED <<drafts, calls, puts>>

\* All that is not in the session storage is lost.
Reload ==
  /\ tab' = [tab EXCEPT !.created = None, !.cache = [d \in Drafts |-> None]]
  /\ editors' = [m \in Mounts |-> None]
  /\ UNCHANGED <<drafts, calls, puts>>

-----------------------------------------------------------------------------

Mailbox ==
  \/ \E op \in DOMAIN calls : CreateDraft(op) \/ UpdateDraft(op) \/ ScheduleOutbound(op)
  \/ \E put \in puts : CompleteUpload(put)
  \/ \E d \in Drafts : Elsewhere(d)

Background ==
  \E m \in Mounts :
    \/ QueueSave(m)
    \/ SaveAnswered(m) \/ SaveRefused(m) \/ SaveLost(m)
    \/ SendAnswered(m) \/ SendRefused(m) \/ SendLost(m)
    \/ UploadAnswered(m) \/ UploadFails(m)
    \/ Render(m) \/ TakeOver(m) \/ MountCompose(m) \/ MountDraft(m)

UserActs ==
  /\ Len(calls) < MaxCalls
  /\ \/ \E m \in Mounts :
          \/ \E text \in Texts : Edit(m, text)
          \/ Close(m) \/ Send(m) \/ Retry(m)
          \/ \E file \in Files : Attach(m, file)
          \/ RetryUpload(m) \/ DismissUpload(m)
     \/ Reload \/ \E url \in Urls : Navigate(url)

Next == Mailbox \/ Background \/ UserActs

Spec == Init /\ [][Next]_vars

\* The timer fires, and a request ends, if only because its connection does.
SaveEnds(m) == SaveLost(m) \/ SaveRefused(m) \/ SaveAnswered(m)
Fairness ==
  WF_vars(\E m \in Mounts : QueueSave(m)) /\ WF_vars(\E m \in Mounts : SaveEnds(m))

FairSpec == Spec /\ Fairness

-----------------------------------------------------------------------------
(* Properties. *)

\* Every variable has its type.
TypeOK ==
  /\ drafts \in [Drafts -> DraftRows \cup {None}]
  /\ calls \in Seq(Calls)
  /\ puts \subseteq Files \X Drafts
  /\ tab \in Tab
  /\ editors \in [Mounts -> EditorStates \cup {None}]

\* What is composed once becomes one draft, however often the tab is reloaded or
\* left and the create sent again, unless the browser was told that it failed (a
\* create whose answer was lost and that is then refused was executed all the same)
\* or its outcome went to another editor than the one on the screen.
OneDraftPerComposition ==
  \A i, j \in DOMAIN calls :
    /\ calls[i].kind = "create" /\ Executed(i)
    /\ calls[j].kind = "create" /\ Executed(j)
    /\ calls[i].composition = calls[j].composition
    => i = j \/ (\E op \in {i, j} : calls[op].refused \/ calls[op].crossed)

SentSaysWhatIsShown(op) ==
  drafts[calls[op].id].text \in {calls[op].text} \cup drafts[calls[op].id].elsewhere

\* The message that is sent says what the screen said, unless another tab has
\* saved the draft: then it may be what that tab has saved.
SentAsOnScreen ==
  \A op \in DOMAIN calls :
    calls[op].kind = "send" /\ Executed(op) => SentSaysWhatIsShown(op)

\* The same, for a send that did not have to wait for a retried save and had no
\* editor that was left, or that came after it, at work on its draft.
CalmSendIsAsOnScreen ==
  \A op \in DOMAIN calls :
    calls[op].kind = "send" /\ Executed(op) /\ calls[op].calm => SentSaysWhatIsShown(op)

\* An editor that has nothing unsaved shows what the mailbox has or has had.
CleanIsSaved ==
  \A m \in Mounts :
    Open(m) /\ ~editors[m].dirty =>
      LET text == editors[m].text
      IN \/ text = Empty
         \/ \E op \in DOMAIN calls : Executed(op) /\ calls[op].text = text
         \/ \E d \in Drafts : drafts[d] # None /\ text \in drafts[d].elsewhere

\* What waits for the timer or behind a save is saved, or the user is told that it
\* is not, or the editor is left (one at most is on the screen).
EditsSettle ==
  (\E m \in Mounts : /\ Open(m) /\ editors[m].dirty
                     /\ editors[m].autosave \/ editors[m].pending # None)
    ~> (\A m \in Mounts : Open(m) => ~editors[m].dirty \/ editors[m].failure # None)

=============================================================================
