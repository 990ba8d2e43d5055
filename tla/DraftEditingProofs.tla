------------------------- MODULE DraftEditingProofs -------------------------
(***************************************************************************)
(* What DraftEditing guarantees for any drafts, texts, files and users, and *)
(* any number of commands.                                                  *)
(*                                                                         *)
(* The editor's steps are functions of a record s of the editor, its tab    *)
(* and the commands, so the invariant is stated of the draft rows and such  *)
(* a record, and each function is shown to keep it.                         *)
(***************************************************************************)
EXTENDS DraftEditing, TLAPS

-----------------------------------------------------------------------------
(* The inductive invariant. *)

Rows == [Drafts -> DraftRows \cup {None}]

Done(call) == call.receipt # None

\* The browser does not keep the create any more: it was told that it failed, or its
\* outcome was another editor's.
Loose(call) == call.refused \/ call.crossed

\* What the mailbox has or has had, as far as CleanIsSaved tells.
Had(ds, c, text) ==
  \/ text = Empty
  \/ \E op \in DOMAIN c : Done(c[op]) /\ c[op].text = text
  \/ \E d \in Drafts : ds[d] # None /\ text \in ds[d].elsewhere

\* The draft says what the command says, or what another tab has saved.
SaysIt(ds, call) == ds[call.id].text \in {call.text} \cup ds[call.id].elsewhere

\* What a browser knows of a draft was so, and is so while the version is the same.
Seen(ds, c, known) ==
  /\ ds[known.id] # None
  /\ known.version <= ds[known.id].version
  /\ known.version = ds[known.id].version => known.text = ds[known.id].text
  /\ Had(ds, c, known.text)

\* A command is about a draft that exists, in a version that it has had; a calm send
\* is of what the screen says if it can still be executed.
CallInv(ds, op, call) ==
  /\ call.id # None => ds[call.id] # None /\ call.version <= ds[call.id].version
  /\ Done(call) => call.id # None
  /\ call.kind = "create" => call.version = 0
  /\ call.composition < op
  /\ call.kind = "send" /\ call.calm =>
       IF Done(call) THEN ~ds[call.id].live /\ SaysIt(ds, call)
       ELSE call.version = ds[call.id].version => SaysIt(ds, call)

RowsHad(ds, c) == \A d \in Drafts : ds[d] # None => Had(ds, c, ds[d].text)

\* A composition has one create that the browser keeps.
OneCreate(c) ==
  \A i, j \in DOMAIN c :
    /\ c[i].kind = "create" /\ ~Loose(c[i])
    /\ c[j].kind = "create" /\ ~Loose(c[j])
    /\ c[i].composition = c[j].composition
    => i = j

\* The composition at hand has none but op.
NoCreateBut(t, c, op) ==
  \A i \in DOMAIN c :
    c[i].kind = "create" /\ c[i].composition = t.composition /\ ~Loose(c[i]) => i = op

\* The create that the session storage keeps is that of the composition it keeps.
TabInv(ds, t, c) ==
  /\ \A d \in Drafts : t.cache[d] # None => Seen(ds, c, t.cache[d])
  /\ t.composition <= Len(c)
  /\ t.create # 0 => t.create \in DOMAIN c /\ c[t.create].kind = "create"
  /\ t.create # 0 \/ t.stored[Compose] # None => NoCreateBut(t, c, t.create)

\* A save that is or may be sent is the create that the editor keeps, in the place
\* where a message is composed, or of a draft.
OwnSave(s, op) ==
  /\ op \in DOMAIN s.c
  /\ s.c[op].kind \in {"create", "update"}
  /\ s.c[op].kind = "create" => op = s.e.create /\ s.e.session = Compose
  /\ s.c[op].kind = "update" => s.e.known # None

SavingInv(s) ==
  /\ s.e.saving # None => s.e.failure = None /\ OwnSave(s, s.e.saving.op)
  /\ s.e.failure # None =>
       /\ s.e.failure.op \in DOMAIN s.c
       /\ s.e.failure.retryable => OwnSave(s, s.e.failure.op)

\* What the editor shows, sends and uploads.
FormInv(ds, c, e) ==
  /\ e.sending # None => e.sending.op \in DOMAIN c /\ c[e.sending.op].text = e.text
  /\ e.intent = "attach" => e.upload # None /\ e.upload.stage = "waiting"
  /\ e.upload # None => (e.upload.stage = "asked" => e.upload.draft # None)
  /\ ~e.dirty => Had(ds, c, e.text)

EditorInv(ds, s) ==
  /\ s.e.known = None => s.e.session = Compose
  /\ s.e.known # None => Seen(ds, s.c, s.e.known)
  /\ ~s.e.mounted => ~s.e.autosave
  /\ s.e.create # 0 => s.e.create \in DOMAIN s.c /\ s.c[s.e.create].kind = "create"
  /\ s.e.mounted /\ s.e.session = Compose =>
       NoCreateBut(s.t, s.c, s.t.create) /\ NoCreateBut(s.t, s.c, s.e.create)
  /\ FormInv(ds, s.c, s.e)

\* A save of an editor that works alone, if it was executed, was the last of ours.
FreshSave(ds, c, op) ==
  Done(c[op]) =>
    /\ SaysIt(ds, c[op])
    /\ \A i \in DOMAIN c \ {op} :
         c[i].kind = "update" /\ ~Done(c[i]) /\ c[i].id = c[op].id =>
           c[i].version < ds[c[op].id].version

\* A calm send waits for the saves, and is of what they save last.
Calm(e) == e.intent = "send" /\ ~e.hasty /\ ~e.beside
SendInv(ds, s) ==
  Calm(s.e) =>
    /\ s.e.saving # None
    /\ IF s.e.pending # None THEN s.e.pending = s.e.text
       ELSE /\ ~s.e.saving.again /\ s.c[s.e.saving.op].text = s.e.text
            /\ FreshSave(ds, s.c, s.e.saving.op)

CommandsInv(ds, c) ==
  /\ \A op \in DOMAIN c : CallInv(ds, op, c[op])
  /\ RowsHad(ds, c)
  /\ OneCreate(c)

WorkInv(ds, s) == s.e # None => EditorInv(ds, s) /\ SavingInv(s) /\ SendInv(ds, s)

\* One editor at most is on the screen, and one that sends works alone or was told
\* that it does not.
AloneInv ==
  \A k, m \in Mounts :
    k # m /\ AtWork(k) /\ AtWork(m) =>
      /\ ~(editors[k].mounted /\ editors[m].mounted)
      /\ editors[m].intent = "send" => editors[m].beside

IInv ==
  /\ TypeOK
  /\ CommandsInv(drafts, calls) /\ TabInv(drafts, tab, calls)
  /\ \A m \in Mounts : WorkInv(drafts, Now(m))
  /\ AloneInv

\* What the functions of the editor keep; what waits for the saves comes in between.
Working == [e : EditorStates, t : Tab, c : Seq(Calls)]

Core(ds, s) ==
  /\ ds \in Rows /\ s \in Working
  /\ CommandsInv(ds, s.c) /\ TabInv(ds, s.t, s.c) /\ EditorInv(ds, s) /\ SavingInv(s)

\* What was issued stays issued, and no create that was let go is kept again.
Onward(c, n) ==
  /\ Len(c) <= Len(n)
  /\ \A op \in DOMAIN c :
       /\ op \in DOMAIN n
       /\ n[op].kind = c[op].kind /\ n[op].text = c[op].text
       /\ n[op].composition = c[op].composition
       /\ Done(c[op]) => Done(n[op])
       /\ Loose(c[op]) => Loose(n[op])

\* A send that waits for the saves has waited before.
Waits(s, r) == r.e.intent = "send" => s.e.intent = "send" /\ r.e.beside = s.e.beside

\* A step of an editor that was left creates nothing.
Onwards(s, r) ==
  /\ Onward(s.c, r.c) /\ Waits(s, r)
  /\ r.t.composition = s.t.composition /\ r.e.mounted = s.e.mounted
  /\ s.e.mounted \/ /\ r.t.create = s.t.create
                    /\ \A op \in DOMAIN r.c \ DOMAIN s.c : r.c[op].kind # "create"

(* A command is issued. *)

LEMMA OnwardsOn ==
  ASSUME NEW x, NEW y, NEW z, Onwards(x, y), Onwards(y, z),
         x.c \in Seq(Calls), y.c \in Seq(Calls), z.c \in Seq(Calls)
  PROVE  Onwards(x, z)
BY DEF Onwards, Onward, Waits

\* A step that issues at most a save or a send.
LEMMA OnwardsBy ==
  ASSUME NEW s \in Working, NEW r \in Working,
         \/ r.c = s.c
         \/ /\ DOMAIN r.c = DOMAIN s.c \cup {Len(s.c) + 1} /\ Len(r.c) = Len(s.c) + 1
            /\ \A op \in DOMAIN s.c : r.c[op] = s.c[op]
            /\ s.e.mounted \/ r.c[Len(s.c) + 1].kind # "create",
         r.t.composition = s.t.composition, r.e.mounted = s.e.mounted,
         s.e.mounted \/ r.t.create = s.t.create, Waits(s, r)
  PROVE  Onwards(s, r)
<1>1. s.c \in Seq(Calls) /\ r.c \in Seq(Calls)
  BY DEF Working
<1> QED
  BY <1>1 DEF Onwards, Onward

LEMMA HadGrows ==
  ASSUME NEW ds, NEW c \in Seq(Calls), NEW call, NEW text, Had(ds, c, text)
  PROVE  Had(ds, Append(c, call), text)
<1>1. \A op \in DOMAIN c : op \in DOMAIN Append(c, call) /\ Append(c, call)[op] = c[op]
  OBVIOUS
<1> QED
  BY <1>1 DEF Had

\* What is known of the drafts stays true.
LEMMA AppendKeeps ==
  ASSUME NEW ds \in Rows, NEW c \in Seq(Calls), NEW call \in Calls,
         CommandsInv(ds, c), CallInv(ds, Len(c) + 1, call), ~Done(call),
         call.kind = "create" =>
           \A i \in DOMAIN c : c[i].kind = "create" /\ c[i].composition = call.composition
                                 => Loose(c[i])
  PROVE  /\ CommandsInv(ds, Append(c, call))
         /\ \A known \in Known : Seen(ds, c, known) => Seen(ds, Append(c, call), known)
<1> DEFINE n == Append(c, call)
<1>1. /\ DOMAIN n = DOMAIN c \cup {Len(c) + 1}
      /\ \A op \in DOMAIN c : n[op] = c[op]
      /\ n[Len(c) + 1] = call
  OBVIOUS
<1> HIDE DEF n
<1>2. \A op \in DOMAIN n : CallInv(ds, op, n[op])
  BY <1>1 DEF CommandsInv
<1>3. RowsHad(ds, n)
  BY HadGrows DEF CommandsInv, RowsHad, n
<1>4. OneCreate(n)
  BY <1>1 DEF CommandsInv, OneCreate
<1>5. \A known \in Known : Seen(ds, c, known) => Seen(ds, n, known)
  BY HadGrows DEF Seen, n
<1> QED
  BY <1>2, <1>3, <1>4, <1>5 DEF CommandsInv, n

\* The command an editor issues.
LEMMA CommandIs ==
  ASSUME NEW s \in Working, NEW text \in Texts,
         NEW kind \in {"create", "update", "send"},
         kind # "create" => s.e.known # None
  PROVE  LET call == Command(kind, s, text)
         IN /\ call \in Calls
            /\ call.kind = kind /\ call.text = text /\ ~Done(call)
            /\ call.composition = s.t.composition /\ ~Loose(call)
            /\ s.e.known # None => call.id = s.e.known.id /\ call.version = s.e.known.version
            /\ s.e.known = None => call.id = None /\ call.version = 0
            /\ call.calm = (kind = "send" /\ ~s.e.hasty /\ ~s.e.beside)
<1>1. /\ s.e.known \in Known \cup {None} /\ s.e.hasty \in BOOLEAN
      /\ s.e.beside \in BOOLEAN /\ s.t.composition \in Nat
  BY DEF Working, EditorStates, Tab
<1> QED
  BY <1>1 DEF Command, Calls, Known, Done, Loose

\* What the invariant tells of does not change, but that saved fields are forgotten.
Unmoved(s, r) ==
  /\ r.c = s.c /\ r.t.cache = s.t.cache /\ r.t.create = s.t.create
  /\ r.t.composition = s.t.composition
  /\ r.t.stored[Compose] \in {None, s.t.stored[Compose]}
  /\ r.e.known = s.e.known /\ r.e.session = s.e.session /\ r.e.create = s.e.create
  /\ r.e.saving = s.e.saving /\ r.e.failure = s.e.failure
  /\ r.e.mounted = s.e.mounted
  /\ r.e.autosave = s.e.autosave \/ r.e.autosave = FALSE \/ s.e.mounted

LEMMA OthersSame ==
  ASSUME NEW ds, NEW s, Core(ds, s), NEW r \in Working, Unmoved(s, r), FormInv(ds, r.c, r.e)
  PROVE  Core(ds, r) /\ (Waits(s, r) => Onwards(s, r))
<1>1. CommandsInv(ds, r.c)
  BY DEF Core, Unmoved
<1>2. TabInv(ds, r.t, r.c)
  BY DEF Core, TabInv, NoCreateBut, Unmoved
<1>3. EditorInv(ds, r)
  <2>1. r.e.mounted \in BOOLEAN /\ r.e.autosave \in BOOLEAN
    BY DEF Working, EditorStates
  <2> QED
    BY <2>1 DEF Core, EditorInv, FormInv, NoCreateBut, Unmoved
<1>4. SavingInv(r)
  BY DEF Core, SavingInv, OwnSave, Unmoved
<1>5. Waits(s, r) => Onwards(s, r)
  BY OnwardsBy DEF Core, Unmoved
<1> QED
  BY <1>1, <1>2, <1>3, <1>4, <1>5 DEF Core, Unmoved

\* Fields of a session are forgotten.
LEMMA ForgottenKeeps ==
  ASSUME NEW ds, NEW s, Core(ds, s)
  PROVE  LET r == Forgotten(s)
         IN /\ Core(ds, r) /\ r.e = s.e /\ r.c = s.c /\ Onwards(s, r)
            /\ r.t = [s.t EXCEPT !.stored[s.e.session] = None]
<1> DEFINE t == [s.t EXCEPT !.stored[s.e.session] = None]
           r == Forgotten(s)
<1>1. s \in Working
  BY DEF Core
<1>2. t \in Tab
  BY <1>1 DEF Working, Tab
<1>3. r = [s EXCEPT !.t = t]
  BY <1>1 DEF Forgotten, Working
<1>4. /\ t.cache = s.t.cache /\ t.create = s.t.create /\ t.composition = s.t.composition
      /\ t.stored[Compose] \in {None, s.t.stored[Compose]}
  BY <1>1 DEF Working, Tab, Places
<1> HIDE DEF t
<1>5. r \in Working /\ r.e = s.e /\ r.c = s.c /\ r.t = t
  BY <1>1, <1>2, <1>3 DEF Working
<1> HIDE DEF r
<1>6. Core(ds, r) /\ Onwards(s, r)
  <2>1. Unmoved(s, r) /\ Waits(s, r)
    BY <1>4, <1>5 DEF Unmoved, Waits
  <2>2. FormInv(ds, r.c, r.e)
    BY <1>5 DEF Core, EditorInv, FormInv
  <2> QED
    BY <1>5, <2>1, <2>2, OthersSame
<1> QED
  BY <1>5, <1>6 DEF r, t

\* A send can say what is shown: the draft does, in the version the editor knows.
Sayable(ds, s) ==
  Calm(s.e) /\ s.e.failure = None =>
    (s.e.known.version = ds[s.e.known.id].version =>
       ds[s.e.known.id].text \in {s.e.text} \cup ds[s.e.known.id].elsewhere)

\* What awaited the saves goes on.
LEMMA ResumeKeeps ==
  ASSUME NEW ds, NEW s, Core(ds, s), s.e.saving = None,
         s.e.failure = None => s.e.known # None, Sayable(ds, s)
  PROVE  LET r == Resume(s)
         IN /\ Core(ds, r) /\ Onwards(s, r) /\ r.e.intent = "none" /\ ~r.e.hasty
            /\ r.e.saving = None /\ r.e.failure = s.e.failure /\ r.e.known = s.e.known
            /\ r.e.pending = s.e.pending /\ r.e.text = s.e.text
<1> DEFINE r == Resume(s)
           done == [s EXCEPT !.e.intent = "none", !.e.hasty = FALSE, !.e.beside = FALSE]
           e0 == [s.e EXCEPT !.intent = "none", !.hasty = FALSE, !.beside = FALSE]
<1>1. s \in Working /\ EditorInv(ds, s) /\ s.e \in EditorStates /\ s.t \in Tab /\ s.c \in Seq(Calls)
  BY DEF Core, Working
<1>2. e0 \in EditorStates
  BY <1>1, ZenonT(60) DEF EditorStates
<1>3. done = [s EXCEPT !.e = e0]
  BY <1>1 DEF Working, EditorStates
<1>4. done \in Working /\ done.c = s.c /\ done.t = s.t /\ done.e = e0
  BY <1>1, <1>2, <1>3 DEF Working
<1>5. /\ e0.known = s.e.known /\ e0.session = s.e.session /\ e0.create = s.e.create
      /\ e0.mounted = s.e.mounted /\ e0.autosave = s.e.autosave
       /\ e0.saving = s.e.saving /\ e0.failure = s.e.failure /\ e0.sending = s.e.sending
       /\ e0.text = s.e.text /\ e0.intent = "none" /\ ~e0.hasty /\ e0.upload = s.e.upload
       /\ e0.dirty = s.e.dirty /\ e0.pending = s.e.pending
  BY <1>1 DEF EditorStates
<1>6. Core(ds, done) /\ Onwards(s, done)
  <2> HIDE DEF done, e0
  <2>1. Unmoved(s, done) /\ Waits(s, done)
    BY <1>4, <1>5 DEF Unmoved, Waits
  <2>2. FormInv(ds, done.c, done.e)
    BY <1>1, <1>4, <1>5 DEF EditorInv, FormInv
  <2> QED
    BY <1>4, <2>1, <2>2, OthersSame
<1>7. CASE s.e.intent = "close" /\ s.e.failure = None
  <2> DEFINE t == [s.t EXCEPT !.url = "away"]
  <2>1. r = [s EXCEPT !.e = e0, !.t = t]
    BY <1>1, <1>3, <1>7 DEF Resume, Working
  <2>2. t \in Tab
    BY <1>1 DEF Tab, Urls
  <2>3. r \in Working /\ r.c = s.c /\ r.t = t /\ r.e = e0
    BY <1>1, <1>2, <2>1, <2>2 DEF Working
  <2>4. FormInv(ds, done.c, done.e)
    BY <1>6 DEF Core, EditorInv, FormInv
  <2>5. /\ t.cache = s.t.cache /\ t.create = s.t.create /\ t.composition = s.t.composition
        /\ t.stored = s.t.stored
    BY <1>1 DEF Tab
  <2>6. Core(ds, r) /\ Onwards(s, r)
    <3> HIDE DEF r, t, done, e0
    <3>1. Unmoved(s, r) /\ Waits(s, r)
      BY <1>5, <2>3, <2>5 DEF Unmoved, Waits
    <3> QED
      BY <1>4, <2>3, <2>4, <3>1, OthersSame
  <2> QED
    BY <1>5, <2>3, <2>6
<1>8. CASE s.e.intent = "send" /\ s.e.failure = None
  <2> DEFINE call == Command("send", s, s.e.text)
             sent == [op |-> Len(s.c) + 1, uncertain |-> FALSE]
             e == [e0 EXCEPT !.sending = sent]
             c == Append(s.c, call)
  <2>1. r = [s EXCEPT !.e = e, !.c = c]
    BY <1>1, <1>8 DEF Resume, Working, EditorStates
  <2>2. e \in EditorStates
    <3>1. sent \in Sending
      BY <1>1 DEF Sending
    <3> HIDE DEF sent, e0
    <3> QED
      BY <1>2, <3>1 DEF EditorStates
  <2>3. /\ call \in Calls /\ call.kind = "send" /\ call.text = s.e.text /\ ~Done(call)
        /\ call.composition = s.t.composition
        /\ call.id = s.e.known.id /\ call.version = s.e.known.version
        /\ call.calm = (~s.e.hasty /\ ~s.e.beside)
    <3>1. /\ s.e.text \in Texts /\ s.e.known \in Known /\ s.e.known # None
          /\ s.e.hasty \in BOOLEAN /\ s.e.beside \in BOOLEAN /\ s.t.composition \in Nat
      BY <1>1, <1>8 DEF EditorStates, Tab
    <3> QED
      BY <1>8, <3>1 DEF Command, Calls, Known, Done
  <2>4. s.e.known \in Known /\ Seen(ds, s.c, s.e.known)
    BY <1>1, <1>8 DEF EditorStates, EditorInv, FormInv
  <2>5. call.composition < Len(s.c) + 1
    BY <1>1, <2>3 DEF Core, TabInv, Tab
  <2>6. CallInv(ds, Len(s.c) + 1, call)
    <3> HIDE DEF call
    <3> QED
      BY <1>8, <2>3, <2>4, <2>5 DEF CallInv, Seen, Sayable, Calm, SaysIt, Known
  <2>7. c \in Seq(Calls)
    BY <1>1, <2>3
  <2>8. r \in Working /\ r.c = c /\ r.t = s.t /\ r.e = e
    BY <1>1, <2>1, <2>2, <2>7 DEF Working
  <2>9. /\ e.known = s.e.known /\ e.session = s.e.session /\ e.create = s.e.create
        /\ e.mounted = s.e.mounted /\ e.autosave = s.e.autosave
        /\ e.saving = s.e.saving /\ e.failure = s.e.failure /\ e.sending = sent
        /\ e.text = s.e.text /\ e.intent = "none" /\ ~e.hasty /\ e.upload = s.e.upload
        /\ e.dirty = s.e.dirty /\ e.pending = s.e.pending
    BY <1>1 DEF EditorStates
  <2>10. /\ DOMAIN c = DOMAIN s.c \cup {Len(s.c) + 1}
         /\ \A op \in DOMAIN s.c : c[op] = s.c[op]
         /\ c[Len(s.c) + 1] = call
         /\ Len(c) = Len(s.c) + 1
    BY <1>1
  <2>11. /\ CommandsInv(ds, c)
         /\ \A known \in Known : Seen(ds, s.c, known) => Seen(ds, c, known)
    BY <1>1, <2>3, <2>6, AppendKeeps DEF Core
  <2>12. ~s.e.dirty => Had(ds, c, s.e.text)
    BY <1>1, HadGrows DEF EditorInv, FormInv
  <2> HIDE DEF r, e, c, call
  <2>13. TabInv(ds, r.t, r.c)
    <3>1. /\ \A d \in Drafts : s.t.cache[d] \in Known \cup {None}
          /\ s.t.composition \in Nat /\ Len(s.c) \in Nat
      BY <1>1 DEF Tab
    <3>2. TabInv(ds, s.t, s.c)
      BY DEF Core
    <3> QED
      BY <2>3, <2>8, <2>10, <2>11, <3>1, <3>2 DEF TabInv, NoCreateBut
  <2>14. EditorInv(ds, r)
    BY <1>1, <1>8, <2>3, <2>4, <2>8, <2>9, <2>10, <2>11, <2>12 DEF EditorInv, FormInv, NoCreateBut
  <2>15. SavingInv(r)
    BY <1>8, <2>8, <2>9 DEF SavingInv
  <2>16. Onwards(s, r)
    BY <1>1, <2>3, <2>8, <2>9, <2>10, OnwardsBy DEF Waits
  <2> QED
    BY <1>8, <2>8, <2>9, <2>11, <2>13, <2>14, <2>15, <2>16 DEF Core, r
<1>9. CASE s.e.intent = "attach"
  <2>1. s.e.upload \in Uploading
    BY <1>1, <1>9, SMTT(30) DEF EditorInv, FormInv, EditorStates
  <2>2. PICK stage \in {"asked", "failed"}, retryable \in BOOLEAN, draft \in Drafts \cup {None} :
             /\ stage = "asked" => draft # None
             /\ r = [done EXCEPT !.e.upload.stage = stage, !.e.upload.retryable = retryable,
                                 !.e.upload.draft = draft]
    <3>1. s.e.upload.retryable \in BOOLEAN /\ s.e.upload.draft \in Drafts \cup {None}
      BY <2>1 DEF Uploading
    <3>2. CASE s.e.failure = None
      <4>1. s.e.known.id \in Drafts /\ s.e.known.id # None
        BY <1>1, <3>2, NoneAssumption DEF EditorStates, Known
      <4>2. r = [done EXCEPT !.e.upload.stage = "asked", !.e.upload.draft = s.e.known.id]
        BY <1>9, <3>2 DEF Resume
      <4>3. done.e.upload = s.e.upload
        BY <1>4, <1>5
      <4> HIDE DEF r, done, e0
      <4>4. [done EXCEPT !.e.upload.stage = "asked", !.e.upload.draft = s.e.known.id]
              = [done EXCEPT !.e.upload.stage = "asked", !.e.upload.retryable = s.e.upload.retryable,
                             !.e.upload.draft = s.e.known.id]
        BY <1>2, <1>4, <2>1, <4>3, ZenonT(60) DEF Working, EditorStates, Uploading
      <4> QED
        BY <3>1, <4>1, <4>2, <4>4
    <3>3. CASE s.e.failure # None
      <4>1. r = [done EXCEPT !.e.upload.stage = "failed", !.e.upload.retryable = TRUE]
        BY <1>9, <3>3 DEF Resume
      <4>2. done.e.upload = s.e.upload
        BY <1>4, <1>5
      <4> HIDE DEF r, done, e0
      <4> DEFINE u1 == [s.e.upload EXCEPT !.stage = "failed", !.retryable = TRUE]
                 u2 == [s.e.upload EXCEPT !.stage = "failed", !.retryable = TRUE,
                                          !.draft = s.e.upload.draft]
      <4>3. [done EXCEPT !.e.upload.stage = "failed", !.e.upload.retryable = TRUE]
              = [done EXCEPT !.e.upload = u1]
        BY <1>2, <1>4, <4>2 DEF Working, EditorStates
      <4>4. [done EXCEPT !.e.upload.stage = "failed", !.e.upload.retryable = TRUE,
                         !.e.upload.draft = s.e.upload.draft]
              = [done EXCEPT !.e.upload = u2]
        BY <1>2, <1>4, <4>2, ZenonT(60) DEF Working, EditorStates
      <4>5. u1 = u2
        BY <2>1 DEF Uploading
      <4> QED
        BY <3>1, <4>1, <4>3, <4>4, <4>5
    <3> QED
      BY <3>2, <3>3
  <2> DEFINE u == [s.e.upload EXCEPT !.stage = stage, !.retryable = retryable, !.draft = draft]
             e == [e0 EXCEPT !.upload = u]
  <2> HIDE DEF r, done, e0
  <2>3. u \in Uploading /\ u.stage = stage /\ u.draft = draft /\ u # None
    <3>1. u \in Uploading /\ u.stage = stage /\ u.draft = draft
      BY <2>1 DEF Uploading
    <3> QED
      BY <3>1, NoneAssumption
  <2>4. r = [done EXCEPT !.e = e]
    BY <1>2, <1>4, <1>5, <2>2, ZenonT(60) DEF Working, EditorStates
  <2> HIDE DEF u
  <2>5. e \in EditorStates
    BY <1>2, <2>3 DEF EditorStates
  <2>6. r \in Working /\ r.c = s.c /\ r.t = s.t /\ r.e = e
    BY <1>4, <2>4, <2>5 DEF Working
  <2>7. /\ e.known = s.e.known /\ e.session = s.e.session /\ e.create = s.e.create
        /\ e.mounted = s.e.mounted /\ e.autosave = s.e.autosave
        /\ e.saving = s.e.saving /\ e.failure = s.e.failure /\ e.sending = s.e.sending
        /\ e.text = s.e.text /\ e.intent = "none" /\ ~e.hasty /\ e.upload = u
        /\ e.dirty = s.e.dirty /\ e.pending = s.e.pending
    BY <1>2, <1>5 DEF EditorStates
  <2> HIDE DEF e
  <2>8. Core(ds, r) /\ Onwards(s, r)
    <3>1. Unmoved(s, r) /\ Waits(s, r)
      BY <2>6, <2>7, SMTT(30) DEF Unmoved, Waits
    <3>2. FormInv(ds, r.c, r.e)
      BY <1>1, <2>2, <2>3, <2>6, <2>7 DEF EditorInv, FormInv
    <3> QED
      BY <2>6, <3>1, <3>2, OthersSame
  <2> QED
    BY <2>6, <2>7, <2>8 DEF r
<1>10. CASE s.e.intent # "attach" /\ ~(s.e.intent \in {"close", "send"} /\ s.e.failure = None)
  <2>1. r = done
    BY <1>10 DEF Resume
  <2> QED
    BY <1>6, <1>4, <1>5, <2>1
<1> QED
  BY <1>7, <1>8, <1>9, <1>10

\* A save is issued: the command, and the editor that waits for it.
LEMMA NewSaveIs ==
  ASSUME NEW s \in Working, NEW kind \in {"create", "update"},
         s.e.pending # None, kind = "update" => s.e.known # None
  PROVE  LET r == NewSave(s, kind)
             call == Command(kind, s, s.e.pending)
             n == Len(s.c) + 1
         IN /\ r \in Working /\ r.t = s.t
            /\ r.c = Append(s.c, call) /\ Len(r.c) = n
            /\ DOMAIN r.c = DOMAIN s.c \cup {n} /\ r.c[n] = call
            /\ \A op \in DOMAIN s.c : r.c[op] = s.c[op]
            /\ r.e.saving = [op |-> n, again |-> FALSE, retried |-> FALSE]
            /\ r.e.saving \in Saving /\ r.e.pending = None
            /\ r.e.known = s.e.known /\ r.e.session = s.e.session
            /\ r.e.mounted = s.e.mounted /\ r.e.autosave = s.e.autosave
            /\ r.e.create = s.e.create /\ r.e.text = s.e.text
            /\ r.e.failure = s.e.failure /\ r.e.sending = s.e.sending
            /\ r.e.intent = s.e.intent /\ r.e.hasty = s.e.hasty /\ r.e.beside = s.e.beside
            /\ r.e.upload = s.e.upload /\ r.e.dirty = s.e.dirty
<1> DEFINE r == NewSave(s, kind)
           call == Command(kind, s, s.e.pending)
           n == Len(s.c) + 1
           save == [op |-> n, again |-> FALSE, retried |-> FALSE]
           e1 == [s.e EXCEPT !.saving = save]
           e == [e1 EXCEPT !.pending = None]
           c == Append(s.c, call)
<1>1. s.e \in EditorStates /\ s.t \in Tab /\ s.c \in Seq(Calls)
  BY DEF Working
<1>2. save \in Saving
  BY <1>1 DEF Saving
<1>3. call \in Calls
  <2>1. s.e.pending \in Texts
    BY <1>1 DEF EditorStates
  <2> QED
    BY <2>1, CommandIs
<1>4. c \in Seq(Calls)
  BY <1>1, <1>3
<1>5. r = [s EXCEPT !.e = e, !.c = c]
  BY <1>1 DEF NewSave, Working, EditorStates
<1>6. e1 \in EditorStates
  <2> HIDE DEF save
  <2> QED
    BY <1>1, <1>2 DEF EditorStates
<1>7. e \in EditorStates
  <2> HIDE DEF e1
  <2> QED
    BY <1>6 DEF EditorStates
<1>8. r \in Working /\ r.e = e /\ r.t = s.t /\ r.c = c
  <2> HIDE DEF e, c
  <2> QED
    BY <1>1, <1>4, <1>5, <1>7 DEF Working
<1>9. /\ e.saving = save /\ e.pending = None
      /\ e.known = s.e.known /\ e.session = s.e.session
      /\ e.mounted = s.e.mounted /\ e.autosave = s.e.autosave
      /\ e.create = s.e.create /\ e.text = s.e.text
      /\ e.failure = s.e.failure /\ e.sending = s.e.sending
      /\ e.intent = s.e.intent /\ e.hasty = s.e.hasty /\ e.beside = s.e.beside
      /\ e.upload = s.e.upload /\ e.dirty = s.e.dirty
  BY <1>1 DEF EditorStates
<1>10. /\ DOMAIN c = DOMAIN s.c \cup {n} /\ c[n] = call /\ Len(c) = n
       /\ \A op \in DOMAIN s.c : c[op] = s.c[op]
  <2> HIDE DEF call
  <2> QED
    BY <1>1
<1> HIDE DEF r, e, c, call, n, save
<1>11. /\ r.c = c /\ Len(r.c) = n
       /\ DOMAIN r.c = DOMAIN s.c \cup {n} /\ r.c[n] = call
       /\ \A op \in DOMAIN s.c : r.c[op] = s.c[op]
  BY <1>8, <1>10
<1>12. /\ r.e.saving = save /\ r.e.saving \in Saving /\ r.e.pending = None
       /\ r.e.known = s.e.known /\ r.e.session = s.e.session
       /\ r.e.mounted = s.e.mounted /\ r.e.autosave = s.e.autosave
       /\ r.e.create = s.e.create /\ r.e.text = s.e.text
       /\ r.e.failure = s.e.failure /\ r.e.sending = s.e.sending
       /\ r.e.intent = s.e.intent /\ r.e.hasty = s.e.hasty /\ r.e.beside = s.e.beside
       /\ r.e.upload = s.e.upload /\ r.e.dirty = s.e.dirty
  BY <1>2, <1>8, <1>9
<1> QED
  BY <1>8, <1>11, <1>12 DEF r, c, call, n, save

\* A create is kept.
LEMMA KeptIs ==
  ASSUME NEW s \in Working, s.e.saving \in Saving, NEW r, r = Kept(s)
  PROVE  /\ r \in Working /\ r.c = s.c
         /\ r.e.create = s.e.saving.op /\ r.t.create = s.e.saving.op
         /\ r.t.cache = s.t.cache /\ r.t.composition = s.t.composition
         /\ r.t.stored = s.t.stored
         /\ r.e.saving = s.e.saving /\ r.e.pending = s.e.pending
         /\ r.e.known = s.e.known /\ r.e.session = s.e.session
         /\ r.e.mounted = s.e.mounted /\ r.e.autosave = s.e.autosave
         /\ r.e.text = s.e.text
         /\ r.e.failure = s.e.failure /\ r.e.sending = s.e.sending
         /\ r.e.intent = s.e.intent /\ r.e.hasty = s.e.hasty /\ r.e.beside = s.e.beside
         /\ r.e.upload = s.e.upload /\ r.e.dirty = s.e.dirty
<1> DEFINE op == s.e.saving.op
           e == [s.e EXCEPT !.create = op]
           t == [s.t EXCEPT !.create = op]
<1>1. s.e \in EditorStates /\ s.t \in Tab /\ s.c \in Seq(Calls) /\ op \in Nat
  BY DEF Working, Saving
<1>2. e \in EditorStates /\ t \in Tab
  <2> HIDE DEF op
  <2> QED
    BY <1>1 DEF EditorStates, Tab
<1>3. r = [s EXCEPT !.e = e, !.t = t]
  BY <1>1 DEF Kept, Working, EditorStates
<1>4. r \in Working /\ r.e = e /\ r.t = t /\ r.c = s.c
  <2> HIDE DEF e, t
  <2> QED
    BY <1>1, <1>2, <1>3 DEF Working
<1>5. /\ e.create = op /\ e.saving = s.e.saving /\ e.pending = s.e.pending
      /\ e.known = s.e.known /\ e.session = s.e.session
      /\ e.mounted = s.e.mounted /\ e.autosave = s.e.autosave
      /\ e.text = s.e.text
      /\ e.failure = s.e.failure /\ e.sending = s.e.sending
      /\ e.intent = s.e.intent /\ e.hasty = s.e.hasty /\ e.beside = s.e.beside
      /\ e.upload = s.e.upload /\ e.dirty = s.e.dirty
  BY <1>1 DEF EditorStates
<1>6. /\ t.create = op /\ t.cache = s.t.cache /\ t.composition = s.t.composition
      /\ t.stored = s.t.stored
  BY <1>1 DEF Tab
<1> HIDE DEF e, t, op
<1>7. /\ r.e.create = op /\ r.t.create = op
      /\ r.t.cache = s.t.cache /\ r.t.composition = s.t.composition
      /\ r.t.stored = s.t.stored
  BY <1>4, <1>5, <1>6
<1>8. /\ r.e.saving = s.e.saving /\ r.e.pending = s.e.pending
      /\ r.e.known = s.e.known /\ r.e.session = s.e.session
      /\ r.e.mounted = s.e.mounted /\ r.e.autosave = s.e.autosave
      /\ r.e.text = s.e.text
      /\ r.e.failure = s.e.failure /\ r.e.sending = s.e.sending
      /\ r.e.intent = s.e.intent /\ r.e.hasty = s.e.hasty /\ r.e.beside = s.e.beside
      /\ r.e.upload = s.e.upload /\ r.e.dirty = s.e.dirty
  BY <1>4, <1>5
<1> QED
  BY <1>4, <1>7, <1>8 DEF op

\* What a new save adds to the commands.
LEMMA NewSaveCommands ==
  ASSUME NEW ds, NEW s, Core(ds, s), s.e.pending # None,
         NEW kind \in {"create", "update"},
         kind = "update" => s.e.known # None,
         kind = "create" => s.e.known = None /\ NoCreateBut(s.t, s.c, 0),
         NEW c, c = NewSave(s, kind).c
  PROVE  /\ CommandsInv(ds, c)
         /\ \A known \in Known : Seen(ds, s.c, known) => Seen(ds, c, known)
         /\ c[Len(c)].kind = kind /\ c[Len(c)].text = s.e.pending
         /\ ~Done(c[Len(c)]) /\ c[Len(c)].composition = s.t.composition
<1> DEFINE call == Command(kind, s, s.e.pending)
<1>1. s \in Working /\ s.e \in EditorStates /\ s.t \in Tab /\ s.c \in Seq(Calls)
  BY DEF Core, Working
<1>2. c = Append(s.c, call) /\ c[Len(c)] = call
  BY <1>1, NewSaveIs
<1>3. /\ call \in Calls /\ call.kind = kind /\ call.text = s.e.pending /\ ~Done(call)
      /\ call.composition = s.t.composition
      /\ s.e.known # None => call.id = s.e.known.id /\ call.version = s.e.known.version
      /\ s.e.known = None => call.id = None /\ call.version = 0
  <2>1. s.e.pending \in Texts
    BY <1>1 DEF EditorStates
  <2>2. /\ s.e.known \in Known \cup {None} /\ s.e.hasty \in BOOLEAN
        /\ s.e.beside \in BOOLEAN /\ s.t.composition \in Nat
    BY <1>1 DEF EditorStates, Tab
  <2> QED
    BY <2>1, <2>2 DEF Command, Calls, Known, Done
<1> HIDE DEF call
<1>4. call.composition < Len(s.c) + 1
  BY <1>1, <1>3 DEF Core, TabInv, Tab
<1>5. CallInv(ds, Len(s.c) + 1, call)
  <2>1. s.e.known # None => s.e.known \in Known /\ Seen(ds, s.c, s.e.known)
    BY <1>1 DEF Core, EditorInv, FormInv, EditorStates
  <2>2. kind = "create" => call.version = 0
    BY <1>3
  <2> QED
    BY <1>3, <1>4, <2>1, <2>2 DEF CallInv, Seen
<1>6. kind = "create" =>
        \A i \in DOMAIN s.c : s.c[i].kind = "create" /\ s.c[i].composition = call.composition
                                => Loose(s.c[i])
  BY <1>1, <1>3 DEF NoCreateBut
<1>7. /\ CommandsInv(ds, Append(s.c, call))
      /\ \A known \in Known : Seen(ds, s.c, known) => Seen(ds, Append(s.c, call), known)
  BY <1>1, <1>3, <1>5, <1>6, AppendKeeps DEF Core
<1> QED
  BY <1>2, <1>3, <1>7

\* A save that waited is started.
LEMMA StartSaveKeeps ==
  ASSUME NEW ds, NEW s, Core(ds, s), s.e.saving = None, s.e.failure = None,
         s.e.pending # None, s.e.known = None => s.e.mounted,
         Calm(s.e) => s.e.pending = s.e.text
  PROVE  LET r == StartSave(s) IN Core(ds, r) /\ SendInv(ds, r) /\ Onwards(s, r)
<1> DEFINE r == StartSave(s)
<1>1. /\ s \in Working /\ s.e \in EditorStates /\ s.t \in Tab /\ s.c \in Seq(Calls)
      /\ CommandsInv(ds, s.c) /\ TabInv(ds, s.t, s.c) /\ EditorInv(ds, s) /\ ds \in Rows
  BY DEF Core, Working
<1>2. /\ s.e.create \in Nat /\ s.e.pending \in Texts /\ s.t.composition \in Nat
      /\ s.e.known \in Known \cup {None}
      /\ \A d \in Drafts : s.t.cache[d] \in Known \cup {None}
  BY <1>1 DEF EditorStates, Tab
<1>3. ASSUME NEW x, NEW kind \in {"create", "update"}, x = NewSave(s, kind),
             kind = "update" <=> s.e.known # None,
             kind = "create" => s.e.create = 0,
             r = IF kind = "create" THEN Kept(x) ELSE x
      PROVE  Core(ds, r) /\ SendInv(ds, r) /\ Onwards(s, r)
  <2> DEFINE n == Len(s.c) + 1
             call == Command(kind, s, s.e.pending)
  <2>1. /\ kind = "create" => s.e.known = None /\ NoCreateBut(s.t, s.c, 0)
        /\ kind = "update" => s.e.known # None
    BY <1>1, <1>3 DEF EditorInv, FormInv
  <2>2. /\ x \in Working /\ x.t = s.t /\ Len(x.c) = n
        /\ DOMAIN x.c = DOMAIN s.c \cup {n}
        /\ \A op \in DOMAIN s.c : x.c[op] = s.c[op]
        /\ x.c = Append(s.c, call)
        /\ x.e.saving = [op |-> n, again |-> FALSE, retried |-> FALSE]
        /\ x.e.saving \in Saving /\ x.e.pending = None
        /\ x.e.known = s.e.known /\ x.e.session = s.e.session
        /\ x.e.mounted = s.e.mounted /\ x.e.autosave = s.e.autosave
        /\ x.e.create = s.e.create /\ x.e.text = s.e.text
        /\ x.e.failure = s.e.failure /\ x.e.sending = s.e.sending
        /\ x.e.intent = s.e.intent /\ x.e.hasty = s.e.hasty /\ x.e.beside = s.e.beside
        /\ x.e.upload = s.e.upload /\ x.e.dirty = s.e.dirty
    BY <1>1, <1>3, NewSaveIs, ZenonT(60)
  <2>3. /\ CommandsInv(ds, x.c)
        /\ \A known \in Known : Seen(ds, s.c, known) => Seen(ds, x.c, known)
        /\ x.c[n].kind = kind /\ x.c[n].text = s.e.pending /\ ~Done(x.c[n])
        /\ x.c[n].composition = s.t.composition
    <3>1. Core(ds, s) /\ s.e.pending # None /\ x.c = NewSave(s, kind).c
      BY <1>3
    <3> HIDE DEF n, call, r
    <3> QED
      BY <2>1, <2>2, <3>1, NewSaveCommands
  <2>4. ~s.e.dirty => Had(ds, x.c, s.e.text)
    BY <1>1, <2>2, HadGrows DEF EditorInv, FormInv
  <2> HIDE DEF r, call
  <2>5. /\ r \in Working /\ r.c = x.c /\ r.e.saving = x.e.saving /\ r.e.pending = None
        /\ r.e.known = s.e.known /\ r.e.session = s.e.session
        /\ r.e.mounted = s.e.mounted /\ r.e.autosave = s.e.autosave
        /\ r.e.text = s.e.text
        /\ r.e.failure = s.e.failure /\ r.e.sending = s.e.sending
        /\ r.e.intent = s.e.intent /\ r.e.hasty = s.e.hasty /\ r.e.beside = s.e.beside
        /\ r.e.upload = s.e.upload /\ r.e.dirty = s.e.dirty
        /\ r.t.cache = s.t.cache /\ r.t.composition = s.t.composition
        /\ r.t.stored = s.t.stored
        /\ kind = "create" => r.e.create = n /\ r.t.create = n
        /\ kind = "update" => r.e.create = s.e.create /\ r.t.create = s.t.create
    <3>1. CASE kind = "create"
      <4>1. r = Kept(x) /\ x.e.saving.op = n
        BY <1>3, <2>2, <3>1
      <4> HIDE DEF n
      <4> QED
        BY <2>2, <3>1, <4>1, KeptIs
    <3>2. CASE kind = "update"
      BY <1>3, <2>2, <3>2
    <3> QED
      BY <3>1, <3>2
  <2>6. n \in Nat \ {0} /\ n \notin DOMAIN s.c /\ n \in DOMAIN r.c
    BY <1>1, <2>2, <2>5
  <2> HIDE DEF n
  <2>7. NoCreateBut(r.t, r.c, r.t.create) \/ (kind = "update" /\ ~NoCreateBut(s.t, s.c, s.t.create))
    <3>1. CASE kind = "create"
      BY <2>1, <2>2, <2>5, <2>6, <3>1, SMTT(30) DEF NoCreateBut
    <3>2. CASE kind = "update"
      BY <2>2, <2>3, <2>5, <3>2 DEF NoCreateBut
    <3> QED
      BY <3>1, <3>2
  <2>8. TabInv(ds, r.t, r.c)
    <3>1. \A d \in Drafts : r.t.cache[d] # None => Seen(ds, r.c, r.t.cache[d])
      BY <1>1, <1>2, <2>3, <2>5 DEF TabInv
    <3>2. r.t.composition <= Len(r.c)
      BY <1>1, <1>2, <2>2, <2>5 DEF TabInv, n
    <3>3. r.t.create # 0 => r.t.create \in DOMAIN r.c /\ r.c[r.t.create].kind = "create"
      BY <1>1, <2>2, <2>3, <2>5, <2>6 DEF TabInv
    <3>4. r.t.create # 0 \/ r.t.stored[Compose] # None => NoCreateBut(r.t, r.c, r.t.create)
      BY <1>1, <2>5, <2>7 DEF TabInv
    <3> QED
      BY <3>1, <3>2, <3>3, <3>4 DEF TabInv
  <2>9. EditorInv(ds, r)
    <3>1. r.e.mounted /\ r.e.session = Compose =>
            NoCreateBut(r.t, r.c, r.t.create) /\ NoCreateBut(r.t, r.c, r.e.create)
      <4>1. CASE kind = "create"
        BY <2>1, <2>5, <2>7, <4>1
      <4>2. CASE kind = "update"
        <5> SUFFICES ASSUME r.e.mounted, r.e.session = Compose
                     PROVE  NoCreateBut(r.t, r.c, r.t.create) /\ NoCreateBut(r.t, r.c, r.e.create)
          OBVIOUS
        <5>1. s.e.mounted
          BY <2>5, Zenon
        <5>2. NoCreateBut(s.t, s.c, s.t.create) /\ NoCreateBut(s.t, s.c, s.e.create)
          BY <1>1, <2>5, <5>1 DEF EditorInv
        <5>3. /\ r.t.create = s.t.create /\ r.e.create = s.e.create
              /\ r.t.composition = s.t.composition /\ r.c[n].kind = "update"
              /\ DOMAIN r.c = DOMAIN s.c \cup {n} /\ \A i \in DOMAIN s.c : r.c[i] = s.c[i]
          BY <2>2, <2>3, <2>5, <4>2
        <5> QED
          BY <5>2, <5>3 DEF NoCreateBut
      <4> QED
        BY <4>1, <4>2
    <3>2. r.e.known # None => Seen(ds, r.c, r.e.known)
      BY <1>1, <1>2, <2>3, <2>5 DEF EditorInv, FormInv
    <3>3. r.e.sending # None => r.e.sending.op \in DOMAIN r.c /\ r.c[r.e.sending.op].text = r.e.text
      BY <1>1, <2>2, <2>5 DEF EditorInv, FormInv
    <3>4. r.e.create # 0 => r.e.create \in DOMAIN r.c /\ r.c[r.e.create].kind = "create"
      BY <1>1, <2>2, <2>3, <2>5, <2>6 DEF EditorInv, FormInv
    <3> QED
      BY <1>1, <2>4, <2>5, <3>1, <3>2, <3>3, <3>4 DEF EditorInv, FormInv
  <2>10. r.e.saving # None /\ r.e.saving.op = n /\ ~r.e.saving.again
    <3>1. r.e.saving.op = n /\ ~r.e.saving.again
      BY <2>2, <2>5 DEF n
    <3> QED
      BY <2>2, <2>5, <3>1, NoneAssumption
  <2>11. SavingInv(r)
    <3>1. OwnSave(r, n)
      BY <1>1, <1>3, <2>1, <2>3, <2>5, <2>6 DEF OwnSave, EditorInv, FormInv
    <3> QED
      BY <2>5, <2>10, <3>1 DEF SavingInv
  <2>12. SendInv(ds, r)
    BY <2>3, <2>5, <2>10 DEF SendInv, Calm, FreshSave
  <2>13. Onwards(s, r)
    <3>1. s.e.mounted \/ kind = "update"
      BY <2>1
    <3> QED
      BY <1>1, <2>2, <2>3, <2>5, <3>1, OnwardsBy DEF n, Waits
  <2> QED
    BY <1>1, <2>3, <2>5, <2>8, <2>9, <2>11, <2>12, <2>13 DEF Core
<1>4. CASE s.e.known # None
  <2>1. r = NewSave(s, "update")
    BY <1>4 DEF StartSave
  <2> HIDE DEF r
  <2> QED
    BY <1>3, <1>4, <2>1 DEF r
<1>5. CASE s.e.known = None /\ s.e.create = 0
  <2>1. r = Kept(NewSave(s, "create"))
    BY <1>5 DEF StartSave
  <2> HIDE DEF r
  <2> QED
    BY <1>3, <1>5, <2>1 DEF r
<1>6. CASE s.e.known = None /\ s.e.create # 0
  <2> DEFINE save == [op |-> s.e.create, again |-> TRUE, retried |-> FALSE]
             e == [s.e EXCEPT !.saving = save]
             x == [s EXCEPT !.e = e]
  <2>1. r = Kept(x)
    BY <1>1, <1>6 DEF StartSave, Working
  <2>2. save \in Saving /\ save.op = s.e.create /\ save.again /\ save # None
    <3>1. save \in Saving /\ save.op = s.e.create /\ save.again
      BY <1>2 DEF Saving
    <3> QED
      BY <3>1, NoneAssumption
  <2> HIDE DEF save
  <2>3. e \in EditorStates
    BY <1>1, <2>2 DEF EditorStates
  <2>4. x \in Working /\ x.e = e /\ x.c = s.c /\ x.t = s.t
    BY <1>1, <2>3 DEF Working
  <2>5. /\ e.saving = save /\ e.pending = s.e.pending
        /\ e.known = s.e.known /\ e.session = s.e.session
        /\ e.mounted = s.e.mounted /\ e.autosave = s.e.autosave
        /\ e.create = s.e.create /\ e.text = s.e.text
        /\ e.failure = s.e.failure /\ e.sending = s.e.sending
        /\ e.intent = s.e.intent /\ e.hasty = s.e.hasty /\ e.beside = s.e.beside
        /\ e.upload = s.e.upload /\ e.dirty = s.e.dirty
    BY <1>1 DEF EditorStates
  <2> HIDE DEF r, x, e
  <2>6. /\ r \in Working /\ r.c = s.c /\ r.e.saving = save /\ r.e.pending = s.e.pending
        /\ r.e.known = None /\ r.e.session = s.e.session
        /\ r.e.mounted = s.e.mounted /\ r.e.autosave = s.e.autosave
        /\ r.e.text = s.e.text
        /\ r.e.failure = s.e.failure /\ r.e.sending = s.e.sending
        /\ r.e.intent = s.e.intent /\ r.e.hasty = s.e.hasty /\ r.e.beside = s.e.beside
        /\ r.e.upload = s.e.upload /\ r.e.dirty = s.e.dirty
        /\ r.t.cache = s.t.cache /\ r.t.composition = s.t.composition
        /\ r.t.stored = s.t.stored
        /\ r.e.create = s.e.create /\ r.t.create = s.e.create
    <3>1. x.e.saving \in Saving /\ x.e.saving.op = s.e.create
      BY <2>2, <2>4, <2>5
    <3> QED
      BY <1>6, <2>1, <2>4, <2>5, <3>1, KeptIs
  <2>7. /\ s.e.mounted /\ s.e.session = Compose /\ NoCreateBut(s.t, s.c, s.e.create)
        /\ s.e.create \in DOMAIN s.c /\ s.c[s.e.create].kind = "create"
    BY <1>1, <1>6 DEF EditorInv, FormInv
  <2>8. TabInv(ds, r.t, r.c)
    BY <1>1, <2>6, <2>7 DEF TabInv, NoCreateBut
  <2>9. EditorInv(ds, r)
    BY <1>1, <1>6, <2>6, <2>7 DEF EditorInv, FormInv, NoCreateBut
  <2>10. SavingInv(r)
    BY <1>6, <2>2, <2>6, <2>7 DEF SavingInv, OwnSave
  <2>11. SendInv(ds, r)
    BY <2>2, <2>6 DEF SendInv, Calm
  <2>12. Onwards(s, r)
    BY <1>1, <2>6, <2>7, OnwardsBy DEF Waits
  <2> QED
    BY <1>1, <2>6, <2>8, <2>9, <2>10, <2>11, <2>12 DEF Core, r
<1> QED
  BY <1>4, <1>5, <1>6

\* The loop of drainSaves: the next save, or what awaited the saves.
LEMMA DrainSavesKeeps ==
  ASSUME NEW ds, NEW s, Core(ds, s), s.e.saving = None,
         s.e.failure = None /\ s.e.pending = None => s.e.known # None /\ Sayable(ds, s),
         s.e.known = None => s.e.mounted,
         Calm(s.e) /\ s.e.pending # None => s.e.pending = s.e.text
  PROVE  LET r == DrainSaves(s) IN Core(ds, r) /\ SendInv(ds, r) /\ Onwards(s, r)
<1>1. CASE s.e.pending # None /\ s.e.failure = None
  <2>1. Core(ds, StartSave(s)) /\ SendInv(ds, StartSave(s)) /\ Onwards(s, StartSave(s))
    BY <1>1, StartSaveKeeps
  <2> QED
    BY <1>1, <2>1 DEF DrainSaves
<1>2. CASE ~(s.e.pending # None /\ s.e.failure = None)
  <2>1. Sayable(ds, s) /\ (s.e.failure = None => s.e.known # None)
    BY <1>2 DEF Sayable
  <2>2. Core(ds, Resume(s)) /\ Onwards(s, Resume(s)) /\ Resume(s).e.intent = "none"
    BY <2>1, ResumeKeeps
  <2> QED
    BY <1>2, <2>2 DEF DrainSaves, SendInv, Calm
<1> QED
  BY <1>1, <1>2

\* The same, after a retried save.
LEMMA DrainMoreKeeps ==
  ASSUME NEW ds, NEW s, Core(ds, s), s.e.saving = None, s.e.known # None,
         s.e.pending = None => Sayable(ds, s),
         Calm(s.e) /\ s.e.pending # None => s.e.pending = s.e.text
  PROVE  LET r == DrainMore(s) IN Core(ds, r) /\ SendInv(ds, r) /\ Onwards(s, r)
<1>1. CASE s.e.hasty
  <2> DEFINE x == Resume(s)
  <2>1. Sayable(ds, s)
    BY <1>1 DEF Sayable, Calm
  <2>2. /\ Core(ds, x) /\ Onwards(s, x) /\ x.e.intent = "none" /\ x.e.saving = None /\ x.e.known # None
    BY <2>1, ResumeKeeps
  <2> HIDE DEF x
  <2>3. /\ Core(ds, DrainSaves(x)) /\ SendInv(ds, DrainSaves(x))
        /\ Onwards(x, DrainSaves(x))
    BY <2>2, DrainSavesKeeps DEF Sayable, Calm
  <2>4. Onwards(s, DrainSaves(x))
    BY <2>2, <2>3, OnwardsOn DEF Core, Working
  <2> QED
    BY <1>1, <2>3, <2>4 DEF DrainMore, x
<1>2. CASE ~s.e.hasty
  <2>1. Core(ds, DrainSaves(s)) /\ SendInv(ds, DrainSaves(s)) /\ Onwards(s, DrainSaves(s))
    BY DrainSavesKeeps
  <2> QED
    BY <1>2, <2>1 DEF DrainMore
<1> QED
  BY <1>1, <1>2

\* A save that failed is sent again.
LEMMA RetrySaveKeeps ==
  ASSUME NEW ds, NEW s, Core(ds, s), s.c = calls, s.e.saving = None,
         s.e.failure # None, s.e.failure.retryable, s.e.mounted,
         Calm(s.e) => s.e.pending # None /\ s.e.pending = s.e.text
  PROVE  LET r == RetrySave(s) IN Core(ds, r) /\ SendInv(ds, r) /\ Onwards(s, r)
<1> DEFINE op == s.e.failure.op
           save == [op |-> op, again |-> TRUE, retried |-> TRUE]
           e1 == [s.e EXCEPT !.failure = None]
           e == [e1 EXCEPT !.saving = save]
           x == [s EXCEPT !.e = e]
           r == RetrySave(s)
<1>1. /\ s \in Working /\ s.e \in EditorStates /\ s.t \in Tab /\ s.c \in Seq(Calls)
      /\ CommandsInv(ds, s.c) /\ TabInv(ds, s.t, s.c) /\ EditorInv(ds, s) /\ ds \in Rows
  BY DEF Core, Working
<1>2. /\ OwnSave(s, op) /\ op \in Nat
  <2>1. s.e.failure \in Failure
    BY <1>1 DEF EditorStates
  <2> QED
    BY <2>1 DEF Core, SavingInv, Failure
<1>3. save \in Saving /\ save.op = op /\ save.again /\ save # None
  <2>1. save \in Saving /\ save.op = op /\ save.again
    BY <1>2 DEF Saving
  <2> QED
    BY <2>1, NoneAssumption
<1>4. r = IF s.c[op].kind = "create" THEN Kept(x) ELSE x
  BY <1>1 DEF RetrySave, Working, EditorStates
<1> HIDE DEF save, r, op
<1>5. e1 \in EditorStates
  BY <1>1 DEF EditorStates
<1>6. e \in EditorStates
  <2> HIDE DEF e1
  <2> QED
    BY <1>3, <1>5 DEF EditorStates
<1>7. x \in Working /\ x.e = e /\ x.c = s.c /\ x.t = s.t
  <2> HIDE DEF e
  <2> QED
    BY <1>1, <1>6 DEF Working
<1>8. /\ e.saving = save /\ e.failure = None /\ e.pending = s.e.pending
      /\ e.known = s.e.known /\ e.session = s.e.session
      /\ e.mounted = s.e.mounted /\ e.autosave = s.e.autosave
      /\ e.create = s.e.create /\ e.text = s.e.text
      /\ e.sending = s.e.sending
      /\ e.intent = s.e.intent /\ e.hasty = s.e.hasty /\ e.beside = s.e.beside
      /\ e.upload = s.e.upload /\ e.dirty = s.e.dirty
  BY <1>1 DEF EditorStates
<1> HIDE DEF e, x
<1>9. /\ r \in Working /\ r.c = s.c /\ r.e.saving = save /\ r.e.failure = None
      /\ r.e.pending = s.e.pending
      /\ r.e.known = s.e.known /\ r.e.session = s.e.session
      /\ r.e.mounted = s.e.mounted /\ r.e.autosave = s.e.autosave
      /\ r.e.text = s.e.text /\ r.e.sending = s.e.sending
      /\ r.e.intent = s.e.intent /\ r.e.hasty = s.e.hasty /\ r.e.beside = s.e.beside
      /\ r.e.upload = s.e.upload /\ r.e.dirty = s.e.dirty
      /\ r.t.cache = s.t.cache /\ r.t.composition = s.t.composition
      /\ r.t.stored = s.t.stored
      /\ r.e.create = s.e.create
      /\ s.c[op].kind = "create" => r.t.create = s.e.create
      /\ s.c[op].kind # "create" => r.t.create = s.t.create
  <2>1. CASE s.c[op].kind = "create"
    <3>1. x.e.saving \in Saving /\ x.e.saving.op = op /\ r = Kept(x)
      BY <1>3, <1>4, <1>7, <1>8, <2>1
    <3>2. op = s.e.create
      BY <1>2, <2>1 DEF OwnSave
    <3>3. /\ r \in Working /\ r.c = x.c /\ r.e.create = op /\ r.t.create = op
          /\ r.t.cache = x.t.cache /\ r.t.composition = x.t.composition
          /\ r.t.stored = x.t.stored
          /\ r.e.saving = x.e.saving /\ r.e.pending = x.e.pending
          /\ r.e.known = x.e.known /\ r.e.session = x.e.session
          /\ r.e.mounted = x.e.mounted /\ r.e.autosave = x.e.autosave
          /\ r.e.text = x.e.text /\ r.e.failure = x.e.failure /\ r.e.sending = x.e.sending
          /\ r.e.intent = x.e.intent /\ r.e.hasty = x.e.hasty /\ r.e.beside = x.e.beside
          /\ r.e.upload = x.e.upload /\ r.e.dirty = x.e.dirty
      BY <1>7, <3>1, KeptIs
    <3> QED
      BY <1>7, <1>8, <2>1, <3>2, <3>3, ZenonT(60)
  <2>2. CASE s.c[op].kind # "create"
    BY <1>4, <1>7, <1>8, <2>2
  <2> QED
    BY <2>1, <2>2
<1>10. s.c[op].kind = "create" =>
         /\ s.e.session = Compose /\ NoCreateBut(s.t, s.c, s.e.create)
         /\ s.e.create \in DOMAIN s.c /\ s.c[s.e.create].kind = "create"
  BY <1>1, <1>2 DEF OwnSave, EditorInv, FormInv
<1>11. TabInv(ds, r.t, r.c)
  BY <1>1, <1>9, <1>10 DEF TabInv, NoCreateBut
<1>12. EditorInv(ds, r)
  BY <1>1, <1>9, <1>10 DEF EditorInv, FormInv, NoCreateBut
<1>13. SavingInv(r)
  BY <1>2, <1>3, <1>9 DEF SavingInv, OwnSave
<1>14. SendInv(ds, r)
  BY <1>3, <1>9 DEF SendInv, Calm
<1>15. Onwards(s, r)
  BY <1>1, <1>9, OnwardsBy DEF Waits
<1> QED
  BY <1>1, <1>9, <1>11, <1>12, <1>13, <1>14, <1>15 DEF Core, r

\* What the user asked for waits for the saves, or goes on at once.
LEMMA FlushSaveKeeps ==
  ASSUME NEW ds, NEW s, Core(ds, s), s.c = calls, s.e.mounted
  PROVE  LET r == FlushSave(s) IN Core(ds, r) /\ SendInv(ds, r) /\ Onwards(s, r)
<1> DEFINE e == [s.e EXCEPT !.pending = s.e.text]
           queued == [s EXCEPT !.e.pending = s.e.text]
           clean == /\ s.e.known # None /\ s.e.saving = None /\ s.e.pending = None
                    /\ s.e.failure = None /\ s.e.text = s.e.known.text
<1>1. s \in Working /\ EditorInv(ds, s) /\ s.e \in EditorStates /\ s.t \in Tab /\ s.c \in Seq(Calls)
  BY DEF Core, Working
<1>2. s.e.text \in Texts /\ s.e.text # None
  BY <1>1, NoneAssumption DEF EditorStates
<1>3. e \in EditorStates
  BY <1>1, <1>2 DEF EditorStates
<1>4. queued \in Working /\ queued.e = e /\ queued.t = s.t /\ queued.c = s.c
  <2>1. queued = [s EXCEPT !.e = e]
    BY <1>1 DEF Working
  <2> HIDE DEF queued, e
  <2> QED
    BY <1>1, <1>3, <2>1 DEF Working
<1>5. /\ e.pending = s.e.text /\ e.saving = s.e.saving /\ e.failure = s.e.failure
      /\ e.known = s.e.known /\ e.session = s.e.session
      /\ e.mounted = s.e.mounted /\ e.autosave = s.e.autosave
      /\ e.create = s.e.create /\ e.text = s.e.text
      /\ e.sending = s.e.sending
      /\ e.intent = s.e.intent /\ e.hasty = s.e.hasty /\ e.beside = s.e.beside
      /\ e.upload = s.e.upload /\ e.dirty = s.e.dirty
  BY <1>1 DEF EditorStates
<1> HIDE DEF e, queued
<1>6. Core(ds, queued) /\ Onwards(s, queued)
  <2>1. Unmoved(s, queued) /\ Waits(s, queued)
    BY <1>4, <1>5 DEF Unmoved, Waits
  <2>2. FormInv(ds, queued.c, queued.e)
    BY <1>1, <1>4, <1>5 DEF EditorInv, FormInv
  <2> QED
    BY <1>4, <2>1, <2>2, OthersSame
<1>7. CASE clean
  <2> DEFINE e2 == [s.e EXCEPT !.dirty = FALSE]
             x == [s EXCEPT !.e.dirty = FALSE]
             y == Forgotten(x)
  <2>1. e2 \in EditorStates
    BY <1>1 DEF EditorStates
  <2>2. x \in Working /\ x.e = e2 /\ x.t = s.t /\ x.c = s.c
    <3>1. x = [s EXCEPT !.e = e2]
      BY <1>1 DEF Working
    <3> HIDE DEF x, e2
    <3> QED
      BY <1>1, <2>1, <3>1 DEF Working
  <2>3. /\ e2.saving = s.e.saving /\ e2.failure = s.e.failure
        /\ e2.known = s.e.known /\ e2.session = s.e.session
        /\ e2.mounted = s.e.mounted /\ e2.autosave = s.e.autosave
        /\ e2.create = s.e.create /\ e2.text = s.e.text
        /\ e2.sending = s.e.sending
        /\ e2.intent = s.e.intent /\ e2.hasty = s.e.hasty /\ e2.beside = s.e.beside
        /\ e2.upload = s.e.upload
    BY <1>1 DEF EditorStates
  <2>4. s.e.known \in Known /\ Seen(ds, s.c, s.e.known) /\ Had(ds, s.c, s.e.text)
    BY <1>1, <1>7 DEF EditorStates, EditorInv, FormInv, Seen
  <2> HIDE DEF x, e2
  <2>5. Core(ds, x) /\ Onwards(s, x)
    <3>1. Unmoved(s, x) /\ Waits(s, x)
      BY <2>2, <2>3 DEF Unmoved, Waits
    <3>2. FormInv(ds, x.c, x.e)
      BY <1>1, <2>2, <2>3, <2>4 DEF EditorInv, FormInv
    <3> QED
      BY <2>2, <3>1, <3>2, OthersSame
  <2>6. Core(ds, y) /\ Onwards(x, y) /\ y.e = x.e
    BY <2>5, ForgottenKeeps
  <2> HIDE DEF y
  <2>7. Sayable(ds, y)
    BY <1>7, <2>2, <2>3, <2>4, <2>6 DEF Sayable, Seen
  <2>8. Core(ds, Resume(y)) /\ Onwards(y, Resume(y)) /\ Resume(y).e.intent = "none"
    BY <1>7, <2>2, <2>3, <2>6, <2>7, ResumeKeeps
  <2>9. FlushSave(s) = Resume(y)
    BY <1>7 DEF FlushSave, x, y
  <2>10. Onwards(s, Resume(y))
    BY <2>5, <2>6, <2>8, OnwardsOn DEF Core, Working
  <2> QED
    BY <2>8, <2>9, <2>10 DEF SendInv, Calm
<1>8. CASE ~clean /\ s.e.saving # None
  <2> DEFINE e3 == [e EXCEPT !.hasty = s.e.saving.retried]
             x == [queued EXCEPT !.e.hasty = s.e.saving.retried]
  <2>1. e3 \in EditorStates
    <3>1. s.e.saving.retried \in BOOLEAN
      BY <1>1, <1>8 DEF EditorStates, Saving
    <3> QED
      BY <1>3, <3>1 DEF EditorStates
  <2>2. x \in Working /\ x.e = e3 /\ x.t = s.t /\ x.c = s.c
    <3>1. x = [queued EXCEPT !.e = e3]
      BY <1>4 DEF Working
    <3> HIDE DEF x, e3
    <3> QED
      BY <1>1, <1>4, <2>1, <3>1 DEF Working
  <2>3. /\ e3.saving = s.e.saving /\ e3.failure = s.e.failure
        /\ e3.known = s.e.known /\ e3.session = s.e.session
        /\ e3.mounted = s.e.mounted /\ e3.autosave = s.e.autosave
        /\ e3.create = s.e.create /\ e3.text = s.e.text
        /\ e3.sending = s.e.sending /\ e3.pending = s.e.text
        /\ e3.intent = s.e.intent /\ e3.beside = s.e.beside
        /\ e3.upload = s.e.upload /\ e3.dirty = s.e.dirty
    BY <1>3, <1>5 DEF EditorStates
  <2>4. FlushSave(s) = x
    BY <1>8 DEF FlushSave, queued
  <2> HIDE DEF x, e3
  <2>5. Core(ds, x) /\ Onwards(s, x)
    <3>1. Unmoved(s, x) /\ Waits(s, x)
      BY <2>2, <2>3 DEF Unmoved, Waits
    <3>2. FormInv(ds, x.c, x.e)
      BY <1>1, <2>2, <2>3 DEF EditorInv, FormInv
    <3> QED
      BY <2>2, <3>1, <3>2, OthersSame
  <2>6. SendInv(ds, x)
    BY <1>2, <1>8, <2>2, <2>3 DEF SendInv, Calm
  <2> QED
    BY <2>4, <2>5, <2>6
<1>9. CASE ~clean /\ s.e.saving = None /\ s.e.failure # None /\ s.e.failure.retryable
  <2>1. FlushSave(s) = RetrySave(queued)
    BY <1>9 DEF FlushSave, queued
  <2>2. /\ Core(ds, RetrySave(queued)) /\ SendInv(ds, RetrySave(queued))
        /\ Onwards(queued, RetrySave(queued))
    BY <1>2, <1>4, <1>5, <1>6, <1>9, RetrySaveKeeps DEF Calm
  <2>3. Onwards(s, RetrySave(queued))
    BY <1>6, <2>2, OnwardsOn DEF Core, Working
  <2> QED
    BY <2>1, <2>2, <2>3
<1>10. CASE ~clean /\ s.e.saving = None /\ ~(s.e.failure # None /\ s.e.failure.retryable)
  <2>1. FlushSave(s) = DrainSaves(queued)
    BY <1>10 DEF FlushSave, queued
  <2>2. /\ Core(ds, DrainSaves(queued)) /\ SendInv(ds, DrainSaves(queued))
        /\ Onwards(queued, DrainSaves(queued))
    BY <1>2, <1>4, <1>5, <1>6, <1>10, DrainSavesKeeps DEF Calm
  <2>3. Onwards(s, DrainSaves(queued))
    BY <1>6, <2>2, OnwardsOn DEF Core, Working
  <2> QED
    BY <2>1, <2>2, <2>3
<1> QED
  BY <1>7, <1>8, <1>9, <1>10

-----------------------------------------------------------------------------
(* The steps of the editor and its user. *)
\* An editor at work is one that the functions are about.
LEMMA AtWorkIs ==
  ASSUME IInv, NEW m \in Mounts, AtWork(m)
  PROVE  /\ Core(drafts, Now(m)) /\ SendInv(drafts, Now(m)) /\ EditorInv(drafts, Now(m))
         /\ SavingInv(Now(m)) /\ TabInv(drafts, tab, calls) /\ CommandsInv(drafts, calls)
         /\ FormInv(drafts, calls, editors[m])
         /\ Now(m) \in Working
         /\ Now(m).e = editors[m] /\ Now(m).t = tab /\ Now(m).c = calls
         /\ editors[m] \in EditorStates /\ tab \in Tab /\ calls \in Seq(Calls)
         /\ drafts \in Rows
<1>1. Now(m).e = editors[m] /\ Now(m).t = tab /\ Now(m).c = calls
  BY DEF Now
<1>2. editors[m] \in EditorStates /\ tab \in Tab /\ calls \in Seq(Calls) /\ drafts \in Rows
  BY DEF IInv, TypeOK, Rows, AtWork
<1>3. Now(m) \in Working
  BY <1>2 DEF Now, Working
<1>4. EditorInv(drafts, Now(m)) /\ SavingInv(Now(m)) /\ SendInv(drafts, Now(m))
  BY <1>1 DEF IInv, WorkInv, AtWork
<1>5. FormInv(drafts, calls, editors[m])
  BY <1>1, <1>4 DEF EditorInv
<1> QED
  BY <1>1, <1>2, <1>3, <1>4, <1>5 DEF IInv, Core

\* An editor that is as it was, but that it may be told of others.
Like(e, f) ==
  /\ f.known = e.known /\ f.session = e.session /\ f.create = e.create
  /\ f.mounted = e.mounted /\ f.autosave = e.autosave
  /\ f.saving = e.saving /\ f.failure = e.failure
  /\ f.text = e.text /\ f.sending = e.sending /\ f.intent = e.intent
  /\ f.upload = e.upload /\ f.dirty = e.dirty

\* While others go on, an editor finds all it relies on.
LEMMA OtherKeeps ==
  ASSUME NEW ds, NEW s, EditorInv(ds, s), SavingInv(s), s.c \in Seq(Calls),
         NEW z, Like(s.e, z.e), z.c \in Seq(Calls), Onward(s.c, z.c),
         s.e.mounted /\ s.e.session = Compose =>
           NoCreateBut(z.t, z.c, z.t.create) /\ NoCreateBut(z.t, z.c, s.e.create)
  PROVE  EditorInv(ds, z) /\ SavingInv(z)
<1>1. \A text : Had(ds, s.c, text) => Had(ds, z.c, text)
  BY DEF Had, Onward
<1>2. \A op \in DOMAIN s.c : op \in DOMAIN z.c /\ z.c[op].kind = s.c[op].kind
                             /\ z.c[op].text = s.c[op].text
  BY DEF Onward
<1>3. FormInv(ds, z.c, z.e)
  BY <1>1, <1>2 DEF EditorInv, FormInv, Like
<1>4. s.e.known # None => Seen(ds, z.c, s.e.known)
  BY <1>1 DEF EditorInv, Seen
<1>5. z.e.mounted /\ z.e.session = Compose =>
        NoCreateBut(z.t, z.c, z.t.create) /\ NoCreateBut(z.t, z.c, z.e.create)
  BY DEF Like
<1>6. ~z.e.mounted => ~z.e.autosave
  BY DEF Like, EditorInv
<1>7. EditorInv(ds, z)
  BY <1>2, <1>3, <1>4, <1>5, <1>6 DEF EditorInv, Like
<1>8. SavingInv(z)
  BY <1>2 DEF SavingInv, OwnSave, Like
<1> QED
  BY <1>7, <1>8

\* An editor's step r, from x on, keeps the invariant.
LEMMA StepKeeps ==
  ASSUME IInv, NEW m \in Mounts, AtWork(m),
         NEW r, Core(drafts, r), SendInv(drafts, r), Become(m, r),
         NEW x, Onwards(x, r), x.c \in Seq(Calls), Onward(calls, x.c),
         x.t.composition = tab.composition, x.e.mounted => editors[m].mounted,
         x.e.intent = "send" /\ ~x.e.beside => ~Beside(m),
         Replaced(m) =>
           /\ \A op : NoCreateBut(tab, calls, op) => NoCreateBut(x.t, x.c, op)
           /\ NoCreateBut(tab, calls, tab.create) => NoCreateBut(x.t, x.c, x.t.create)
  PROVE  IInv'
<1>1. /\ r \in Working /\ EditorInv(drafts, r) /\ SavingInv(r)
      /\ r.e \in EditorStates /\ r.t \in Tab /\ r.c \in Seq(Calls)
      /\ CommandsInv(drafts, r.c) /\ TabInv(drafts, r.t, r.c)
      /\ r = [e |-> r.e, t |-> r.t, c |-> r.c]
  BY DEF Core, Working
<1>2. /\ editors \in [Mounts -> EditorStates \cup {None}]
      /\ calls \in Seq(Calls) /\ AloneInv
      /\ \A k \in Mounts : AtWork(k) =>
           /\ EditorInv(drafts, Now(k)) /\ SavingInv(Now(k))
           /\ Now(k) = [e |-> editors[k], t |-> tab, c |-> calls]
  BY AtWorkIs DEF IInv, TypeOK, Now
<1>3. /\ tab' = r.t /\ calls' = r.c /\ drafts' = drafts
      /\ puts' = puts \cup SentFiles(r.e)
      /\ editors' = [editors EXCEPT ![m] = IF Ended(r.e) THEN None ELSE r.e]
  BY DEF Become
<1>4. /\ editors'[m] \in {None, r.e}
      /\ \A k \in Mounts \ {m} : editors'[k] = editors[k]
      /\ editors' \in [Mounts -> EditorStates \cup {None}]
  BY <1>1, <1>2, <1>3
<1>5. SentFiles(r.e) \subseteq Files \X Drafts
  <2>1. CASE r.e.upload # None /\ r.e.upload.stage = "asked"
    <3>1. r.e.upload \in Uploading /\ r.e.upload.draft # None
      BY <1>1, <2>1 DEF EditorInv, FormInv, EditorStates
    <3>2. r.e.upload.file \in Files /\ r.e.upload.draft \in Drafts
      BY <3>1 DEF Uploading
    <3> QED
      BY <2>1, <3>2 DEF SentFiles
  <2>2. CASE ~(r.e.upload # None /\ r.e.upload.stage = "asked")
    BY <2>2 DEF SentFiles
  <2> QED
    BY <2>1, <2>2
<1>6. TypeOK'
  BY <1>1, <1>3, <1>4, <1>5 DEF IInv, TypeOK
<1>7. ASSUME NEW k \in Mounts \ {m}, Open(k)
      PROVE  /\ Replaced(m) /\ ~editors[m].mounted
  <2>1. Replaced(m)
    BY <1>7 DEF Replaced
  <2>2. editors[k].mounted /\ AtWork(k)
    BY <1>7 DEF Open
  <2> QED
    BY <1>2, <2>1, <2>2 DEF AloneInv
<1>8. WorkInv(drafts, Now(m))'
  <2>1. CASE editors'[m] = None
    BY <2>1 DEF WorkInv, Now
  <2>2. CASE editors'[m] = r.e
    <3>1. Now(m)' = r
      BY <1>1, <1>3, <2>2 DEF Now
    <3> QED
      BY <1>1, <1>3, <3>1 DEF WorkInv
  <2> QED
    BY <1>4, <2>1, <2>2
<1>9. ASSUME NEW k \in Mounts \ {m} PROVE WorkInv(drafts, Now(k))'
  <2> SUFFICES ASSUME AtWork(k)
               PROVE  EditorInv(drafts, Now(k)') /\ SavingInv(Now(k)') /\ SendInv(drafts, Now(k)')
    BY <1>3, <1>4 DEF WorkInv, Now, AtWork
  <2>1. /\ Now(k)'.e = editors[k] /\ Now(k)'.t = r.t /\ Now(k)'.c = r.c
        /\ Now(k).e = editors[k] /\ Now(k).t = tab /\ Now(k).c = calls
    BY <1>3, <1>4 DEF Now
  <2>2. Onward(calls, r.c)
    BY <1>1, <1>2 DEF Onwards, Onward
  <2>3. editors[k].mounted /\ editors[k].session = Compose =>
          NoCreateBut(r.t, r.c, r.t.create) /\ NoCreateBut(r.t, r.c, editors[k].create)
    <3> SUFFICES ASSUME editors[k].mounted, editors[k].session = Compose
                 PROVE  NoCreateBut(r.t, r.c, r.t.create) /\ NoCreateBut(r.t, r.c, editors[k].create)
      OBVIOUS
    <3>1. Replaced(m) /\ ~editors[m].mounted
      BY <1>7 DEF Open
    <3>2. NoCreateBut(tab, calls, tab.create) /\ NoCreateBut(tab, calls, editors[k].create)
      BY <1>2, <2>1 DEF EditorInv
    <3>3. NoCreateBut(x.t, x.c, x.t.create) /\ NoCreateBut(x.t, x.c, editors[k].create)
      BY <3>1, <3>2
    <3>4. /\ r.t.composition = x.t.composition /\ r.t.create = x.t.create
          /\ \A op \in DOMAIN r.c \ DOMAIN x.c : r.c[op].kind # "create"
          /\ Onward(x.c, r.c)
      BY <3>1 DEF Onwards
    <3> QED
      BY <3>3, <3>4 DEF NoCreateBut, Onward
  <2>4. Like(Now(k).e, Now(k)'.e)
    BY <2>1 DEF Like
  <2>5. EditorInv(drafts, Now(k)') /\ SavingInv(Now(k)')
    <3>1. EditorInv(drafts, Now(k)) /\ SavingInv(Now(k))
      BY <1>2
    <3> DEFINE z == Now(k)'
    <3>2. z.e = editors[k] /\ z.t = r.t /\ z.c = r.c
      BY <2>1
    <3> HIDE DEF z
    <3>3. Like(Now(k).e, z.e)
      BY <2>4 DEF z
    <3>4. EditorInv(drafts, z) /\ SavingInv(z)
      BY <1>1, <1>2, <2>1, <2>2, <2>3, <3>1, <3>2, <3>3, OtherKeeps
    <3> QED
      BY <3>4 DEF z
  <2>6. ~Calm(editors[k])
    BY <1>2 DEF AloneInv, Calm
  <2> QED
    BY <2>1, <2>5, <2>6 DEF SendInv
<1>10. AloneInv'
  <2>1. r.e.mounted => editors[m].mounted
    BY DEF Onwards
  <2>2. r.e.intent = "send" => r.e.beside \/ ~Beside(m)
    <3>1. r.e.intent = "send" => x.e.intent = "send" /\ r.e.beside = x.e.beside
      BY DEF Onwards, Waits
    <3> QED
      BY <3>1
  <2>3. \A k \in Mounts \ {m} : AtWork(k)' = AtWork(k)
    BY <1>4 DEF AtWork
  <2>4. ASSUME NEW k \in Mounts \ {m}, AtWork(k), AtWork(m)'
        PROVE  /\ ~(editors[k].mounted /\ r.e.mounted)
               /\ editors[k].intent = "send" => editors[k].beside
               /\ r.e.intent = "send" => r.e.beside
    <3>1. Beside(m)
      BY <2>4 DEF Beside
    <3> QED
      BY <1>2, <2>1, <2>2, <2>4, <3>1 DEF AloneInv
  <2>5. AtWork(m)' => editors'[m] = r.e
    BY <1>4 DEF AtWork
  <2> QED
    BY <1>2, <1>4, <2>3, <2>4, <2>5 DEF AloneInv
<1> QED
  BY <1>1, <1>3, <1>6, <1>8, <1>9, <1>10 DEF IInv

\* A step of the editor from what it is now.
LEMMA BecomeKeeps ==
  ASSUME IInv, NEW m \in Mounts, AtWork(m), NEW r, Core(drafts, r), SendInv(drafts, r),
         Become(m, r), Onwards(Now(m), r)
  PROVE  IInv'
<1>1. /\ Now(m).e = editors[m] /\ Now(m).t = tab /\ Now(m).c = calls
      /\ calls \in Seq(Calls)
  BY AtWorkIs
<1>2. Onward(calls, Now(m).c)
  BY <1>1 DEF Onward
<1>3. Now(m).e.intent = "send" /\ ~Now(m).e.beside => ~Beside(m)
  BY <1>1 DEF IInv, AloneInv, Beside
<1> QED
  BY <1>1, <1>2, <1>3, StepKeeps

\* A step of the editor that issues nothing, and does not end a save.
LEMMA AsideKeeps ==
  ASSUME IInv, NEW m \in Mounts, AtWork(m), NEW x \in Working, Become(m, x),
         x.c = calls, x.t.create = tab.create, x.t.composition = tab.composition,
         \A d \in Drafts : x.t.cache[d] # None => Seen(drafts, calls, x.t.cache[d]),
         \/ x.t.stored[Compose] \in {None, tab.stored[Compose]}
         \/ editors[m].mounted /\ editors[m].session = Compose,
         x.e.known = editors[m].known
           \/ (x.e.known # None /\ Seen(drafts, calls, x.e.known)),
         x.e.session = editors[m].session, x.e.create = editors[m].create,
         x.e.saving = editors[m].saving, x.e.failure = editors[m].failure,
         x.e.mounted => editors[m].mounted, x.e.autosave => x.e.mounted,
         FormInv(drafts, calls, x.e), SendInv(drafts, x), Waits(Now(m), x)
  PROVE  IInv'
<1>1. /\ EditorInv(drafts, Now(m)) /\ SavingInv(Now(m)) /\ TabInv(drafts, tab, calls)
      /\ CommandsInv(drafts, calls) /\ drafts \in Rows /\ calls \in Seq(Calls)
      /\ Now(m).e = editors[m] /\ Now(m).t = tab /\ Now(m).c = calls
  BY AtWorkIs
<1>2. NoCreateBut(x.t, x.c, tab.create) \/ ~NoCreateBut(tab, calls, tab.create)
  BY DEF NoCreateBut
<1>3. \A op : NoCreateBut(tab, calls, op) => NoCreateBut(x.t, x.c, op)
  BY DEF NoCreateBut
<1>4. TabInv(drafts, x.t, x.c)
  <2>1. editors[m].mounted /\ editors[m].session = Compose => NoCreateBut(tab, calls, tab.create)
    BY <1>1 DEF EditorInv
  <2> QED
    BY <1>1, <1>2, <2>1 DEF TabInv
<1>5. EditorInv(drafts, x)
  <2>1. editors[m].mounted /\ editors[m].session = Compose =>
          NoCreateBut(tab, calls, tab.create) /\ NoCreateBut(tab, calls, editors[m].create)
    BY <1>1 DEF EditorInv
  <2>2. x.e.mounted /\ x.e.session = Compose =>
          NoCreateBut(x.t, x.c, x.t.create) /\ NoCreateBut(x.t, x.c, x.e.create)
    BY <1>3, <2>1
  <2>3. x.e.known = None => x.e.session = Compose
    BY <1>1 DEF EditorInv
  <2>4. x.e.known # None => Seen(drafts, x.c, x.e.known)
    BY <1>1 DEF EditorInv
  <2>5. x.e.create # 0 => x.e.create \in DOMAIN x.c /\ x.c[x.e.create].kind = "create"
    BY <1>1 DEF EditorInv
  <2> QED
    BY <2>2, <2>3, <2>4, <2>5 DEF EditorInv
<1>6. SavingInv(x)
  BY <1>1 DEF SavingInv, OwnSave
<1>7. Core(drafts, x)
  BY <1>1, <1>4, <1>5, <1>6 DEF Core
<1>8. Onwards(x, x)
  BY <1>1 DEF Onwards, Onward, Waits
<1>9. Onward(calls, x.c)
  BY <1>1 DEF Onward
<1>10. x.e.intent = "send" /\ ~x.e.beside => ~Beside(m)
  <2>1. x.e.intent = "send" => editors[m].intent = "send" /\ x.e.beside = editors[m].beside
    BY <1>1 DEF Waits
  <2>2. Beside(m) /\ editors[m].intent = "send" => editors[m].beside
    BY DEF IInv, AloneInv, Beside
  <2> QED
    BY <2>1, <2>2
<1> QED
  BY <1>1, <1>3, <1>7, <1>8, <1>9, <1>10, StepKeeps

\* What such a step leaves alone.
Same(e, f) ==
  /\ f.known = e.known /\ f.session = e.session /\ f.create = e.create
  /\ f.saving = e.saving /\ f.failure = e.failure /\ f.text = e.text
  /\ f.pending = e.pending /\ f.intent = e.intent /\ f.hasty = e.hasty
  /\ f.beside = e.beside /\ f.mounted = e.mounted /\ f.autosave = e.autosave

\* A step that changes only what the invariant does not tell of.
LEMMA EditorAside ==
  ASSUME IInv, NEW m \in Mounts, AtWork(m), NEW x, Become(m, x),
         NEW e \in EditorStates, NEW t \in Tab, x = [Now(m) EXCEPT !.e = e, !.t = t],
         t.cache = tab.cache, t.create = tab.create, t.composition = tab.composition,
         t.stored[Compose] \in {None, tab.stored[Compose]},
         Same(editors[m], e), e.dirty \/ Had(drafts, calls, editors[m].text),
         e.sending # None => editors[m].sending # None /\ e.sending.op = editors[m].sending.op,
         e.intent = "attach" => e.upload = editors[m].upload,
         e.upload # None /\ e.upload.stage = "asked" => e.upload = editors[m].upload
  PROVE  IInv'
<1>1. /\ EditorInv(drafts, Now(m)) /\ Now(m) \in Working /\ SendInv(drafts, Now(m))
      /\ Now(m).e = editors[m] /\ Now(m).t = tab /\ Now(m).c = calls
      /\ TabInv(drafts, tab, calls) /\ FormInv(drafts, calls, editors[m])
  BY AtWorkIs
<1>2. x \in Working /\ x.e = e /\ x.t = t /\ x.c = calls
  BY <1>1 DEF Working
<1>3. FormInv(drafts, calls, e)
  BY <1>1 DEF FormInv, Same
<1>4. e.known = editors[m].known /\ e.session = editors[m].session
      /\ e.create = editors[m].create /\ e.saving = editors[m].saving
      /\ e.failure = editors[m].failure
  BY DEF Same
<1>5. (e.mounted => editors[m].mounted) /\ (e.autosave => e.mounted)
  BY <1>1 DEF Same, EditorInv
<1>6. SendInv(drafts, x)
  <2>1. Calm(e) => Calm(editors[m])
    BY DEF Same, Calm
  <2> QED
    BY <1>1, <1>2, <2>1 DEF SendInv, Same
<1>7. Waits(Now(m), x)
  BY <1>1, <1>2 DEF Waits, Same
<1>8. \A d \in Drafts : x.t.cache[d] # None => Seen(drafts, calls, x.t.cache[d])
  BY <1>1, <1>2 DEF TabInv
<1> QED
  BY <1>2, <1>3, <1>4, <1>5, <1>6, <1>7, <1>8, AsideKeeps
LEMMA SendAnsweredKeeps == ASSUME IInv, NEW m \in Mounts, SendAnswered(m) PROVE IInv'
<1> DEFINE e1 == [editors[m] EXCEPT !.sending = None]
           e == [e1 EXCEPT !.dirty = FALSE]
           t1 == [tab EXCEPT !.url = "away"]
           t == [t1 EXCEPT !.stored[editors[m].session] = None]
           x == [Now(m) EXCEPT !.e = e, !.t = t]
<1>1. /\ AtWork(m) /\ FormInv(drafts, calls, editors[m]) /\ Now(m) \in Working
      /\ Now(m).e = editors[m] /\ Now(m).t = tab /\ Now(m).c = calls
      /\ editors[m] \in EditorStates /\ tab \in Tab
  BY AtWorkIs DEF SendAnswered, Waiting
<1>2. e1 \in EditorStates /\ t1 \in Tab
  BY <1>1 DEF EditorStates, Tab, Urls
<1>3. e \in EditorStates /\ t \in Tab
  <2>1. e \in EditorStates
    <3> HIDE DEF e1
    <3> QED
      BY <1>2 DEF EditorStates
  <2>2. t \in Tab
    <3> HIDE DEF t1
    <3> QED
      BY <1>1, <1>2 DEF Tab
  <2> QED
    BY <2>1, <2>2
<1>4. Forgotten([Now(m) EXCEPT !.e.sending = None, !.e.dirty = FALSE, !.t.url = "away"]) = x
  BY <1>1 DEF Forgotten, Working, EditorStates, Tab
<1>5. Become(m, x)
  BY <1>4 DEF SendAnswered
<1>6. Same(editors[m], e) /\ e.sending = None /\ e.upload = editors[m].upload
  BY <1>1 DEF EditorStates, Same
<1>7. /\ t.cache = tab.cache /\ t.create = tab.create /\ t.composition = tab.composition
      /\ t.stored[Compose] \in {None, tab.stored[Compose]}
  BY <1>1 DEF Tab, Places
<1>8. Had(drafts, calls, editors[m].text)
  <2>1. /\ editors[m].sending # None /\ editors[m].sending.op \in DOMAIN calls
        /\ calls[editors[m].sending.op].text = editors[m].text
    BY <1>1 DEF SendAnswered, Waiting, FormInv
  <2>2. Done(calls[editors[m].sending.op])
    BY DEF SendAnswered, Executed, Done
  <2> QED
    BY <2>1, <2>2 DEF Had
<1>9. x = [Now(m) EXCEPT !.e = e, !.t = t]
  OBVIOUS
<1> HIDE DEF x, e, t
<1> QED
  BY <1>1, <1>3, <1>5, <1>6, <1>7, <1>8, <1>9, EditorAside

\* Of a step that changes the record of the editor only, and not what it has unsaved.
LEMMA RecordAside ==
  ASSUME IInv, NEW m \in Mounts, AtWork(m), NEW x, Become(m, x),
         NEW e \in EditorStates, x = [Now(m) EXCEPT !.e = e],
         Same(editors[m], e), e.dirty = editors[m].dirty,
         e.sending # None => editors[m].sending # None /\ e.sending.op = editors[m].sending.op,
         e.intent = "attach" => e.upload = editors[m].upload,
         e.upload # None /\ e.upload.stage = "asked" => e.upload = editors[m].upload
  PROVE  IInv'
<1>1. /\ FormInv(drafts, calls, editors[m]) /\ Now(m) \in Working /\ Now(m).t = tab
      /\ tab \in Tab
  BY AtWorkIs
<1>2. x = [Now(m) EXCEPT !.e = e, !.t = tab]
  BY <1>1 DEF Working
<1>3. e.dirty \/ Had(drafts, calls, editors[m].text)
  BY <1>1 DEF FormInv
<1> QED
  BY <1>1, <1>2, <1>3, EditorAside

LEMMA SendRefusedKeeps == ASSUME IInv, NEW m \in Mounts, SendRefused(m) PROVE IInv'
<1> DEFINE e == [editors[m] EXCEPT !.sending = None]
           x == [Now(m) EXCEPT !.e.sending = None]
<1>1. AtWork(m) /\ Now(m) \in Working /\ Now(m).e = editors[m] /\ editors[m] \in EditorStates
  BY AtWorkIs DEF SendRefused, Waiting
<1>2. e \in EditorStates /\ x = [Now(m) EXCEPT !.e = e] /\ Become(m, x)
  BY <1>1 DEF EditorStates, Working, SendRefused
<1>3. /\ Same(editors[m], e) /\ e.sending = None /\ e.upload = editors[m].upload
      /\ e.dirty = editors[m].dirty
  BY <1>1 DEF EditorStates, Same
<1> HIDE DEF x, e
<1> QED
  BY <1>1, <1>2, <1>3, RecordAside

\* A send becomes uncertain, or is retried.
LEMMA UncertainKeeps ==
  ASSUME IInv, NEW m \in Mounts, AtWork(m), editors[m].sending # None,
         NEW uncertain \in BOOLEAN, Become(m, [Now(m) EXCEPT !.e.sending.uncertain = uncertain])
  PROVE  IInv'
<1> DEFINE send == [editors[m].sending EXCEPT !.uncertain = uncertain]
           e == [editors[m] EXCEPT !.sending = send]
           x == [Now(m) EXCEPT !.e.sending.uncertain = uncertain]
<1>1. Now(m) \in Working /\ Now(m).e = editors[m] /\ editors[m] \in EditorStates
  BY AtWorkIs
<1>2. send \in Sending /\ send.op = editors[m].sending.op
  BY <1>1 DEF EditorStates, Sending
<1>3. x = [Now(m) EXCEPT !.e = e]
  BY <1>1 DEF Working, EditorStates
<1> HIDE DEF send
<1>4. e \in EditorStates
  BY <1>1, <1>2 DEF EditorStates
<1>5. /\ Same(editors[m], e) /\ e.sending = send /\ e.upload = editors[m].upload
      /\ e.dirty = editors[m].dirty
  BY <1>1 DEF EditorStates, Same
<1> HIDE DEF x, e
<1>6. Become(m, x)
  BY DEF x
<1> QED
  BY <1>1, <1>2, <1>3, <1>4, <1>5, <1>6, RecordAside

LEMMA SendLostKeeps == ASSUME IInv, NEW m \in Mounts, SendLost(m) PROVE IInv'
  BY UncertainKeeps DEF SendLost, Waiting

\* An upload fails, or its file is removed from the list.
LEMMA UploadKeeps ==
  ASSUME IInv, NEW m \in Mounts, AtWork(m), NEW upload \in Uploading \cup {None},
         upload # None => upload.stage = "failed",
         editors[m].upload # None => editors[m].upload.stage # "waiting",
         Become(m, [Now(m) EXCEPT !.e.upload = upload])
  PROVE  IInv'
<1> DEFINE e == [editors[m] EXCEPT !.upload = upload]
           x == [Now(m) EXCEPT !.e.upload = upload]
<1>1. /\ Now(m) \in Working /\ Now(m).e = editors[m]
      /\ editors[m] \in EditorStates /\ FormInv(drafts, calls, editors[m])
  BY AtWorkIs
<1>2. x = [Now(m) EXCEPT !.e = e] /\ Become(m, x)
  BY <1>1 DEF Working
<1>3. e \in EditorStates
  BY <1>1 DEF EditorStates
<1>4. /\ Same(editors[m], e) /\ e.sending = editors[m].sending
      /\ e.upload = upload /\ e.dirty = editors[m].dirty
  BY <1>1 DEF EditorStates, Same
<1>5. editors[m].intent # "attach"
  BY <1>1 DEF FormInv
<1> HIDE DEF x, e
<1>6. e.intent # "attach" /\ ~(e.upload # None /\ e.upload.stage = "asked")
  BY <1>4, <1>5 DEF Same
<1> QED
  BY <1>2, <1>3, <1>4, <1>6, RecordAside

LEMMA DismissUploadKeeps == ASSUME IInv, NEW m \in Mounts, DismissUpload(m) PROVE IInv'
  BY UploadKeeps DEF DismissUpload, Shown, Open

\* The record of an upload that fails.
LEMMA FailedUpload ==
  ASSUME IInv, NEW m \in Mounts, AtWork(m), editors[m].upload # None, NEW again \in BOOLEAN
  PROVE  \E upload \in Uploading :
           /\ upload.stage = "failed"
           /\ [Now(m) EXCEPT !.e.upload.stage = "failed", !.e.upload.retryable = again]
                = [Now(m) EXCEPT !.e.upload = upload]
<1> DEFINE upload == [editors[m].upload EXCEPT !.stage = "failed", !.retryable = again]
<1>1. /\ Now(m) \in Working /\ Now(m).e = editors[m] /\ editors[m] \in EditorStates
  BY AtWorkIs
<1>2. upload \in Uploading /\ upload.stage = "failed"
  BY <1>1 DEF EditorStates, Uploading
<1>3. [Now(m) EXCEPT !.e.upload.stage = "failed", !.e.upload.retryable = again]
        = [Now(m) EXCEPT !.e.upload = upload]
  BY <1>1 DEF Working, EditorStates
<1> QED
  BY <1>2, <1>3

LEMMA UploadFailsKeeps == ASSUME IInv, NEW m \in Mounts, UploadFails(m) PROVE IInv'
<1>1. AtWork(m) /\ editors[m].upload # None /\ editors[m].upload.stage = "asked"
  BY DEF UploadFails, Uploads
<1>2. PICK again \in BOOLEAN :
        Become(m, [Now(m) EXCEPT !.e.upload.stage = "failed", !.e.upload.retryable = again])
  BY DEF UploadFails
<1>3. PICK upload \in Uploading :
        /\ upload.stage = "failed" /\ Become(m, [Now(m) EXCEPT !.e.upload = upload])
  <2>1. \E upload \in Uploading :
           /\ upload.stage = "failed"
           /\ [Now(m) EXCEPT !.e.upload.stage = "failed", !.e.upload.retryable = again]
                = [Now(m) EXCEPT !.e.upload = upload]
    BY <1>1, FailedUpload
  <2> QED
    BY <1>2, <2>1
<1>4. upload \in Uploading \cup {None} /\ editors[m].upload.stage # "waiting"
  BY <1>1
<1> QED
  BY <1>1, <1>3, <1>4, UploadKeeps

LEMMA RenderKeeps == ASSUME IInv, NEW m \in Mounts, Render(m) PROVE IInv'
<1>1. /\ AtWork(m) /\ editors[m].mounted
      /\ Now(m) \in Working /\ Now(m).e = editors[m] /\ Now(m).t = tab /\ Now(m).c = calls
      /\ editors[m] \in EditorStates /\ tab \in Tab /\ EditorInv(drafts, Now(m))
      /\ FormInv(drafts, calls, editors[m]) /\ SendInv(drafts, Now(m))
      /\ TabInv(drafts, tab, calls)
  BY AtWorkIs DEF Render, Open
<1>2. CASE tab.url # "away" /\ Key = editors[m].key
  <2> DEFINE e == [editors[m] EXCEPT !.draftId = tab.url]
             x == [Now(m) EXCEPT !.e.draftId = tab.url]
  <2>1. x = [Now(m) EXCEPT !.e = e] /\ Become(m, x)
    BY <1>1, <1>2 DEF Working, Render
  <2>2. e \in EditorStates
    <3>1. tab.url \in Places
      BY <1>1, <1>2 DEF Tab, Urls
    <3> QED
      BY <1>1, <3>1 DEF EditorStates
  <2>3. /\ Same(editors[m], e) /\ e.sending = editors[m].sending
        /\ e.upload = editors[m].upload /\ e.dirty = editors[m].dirty
    BY <1>1 DEF EditorStates, Same
  <2> HIDE DEF x, e
  <2> QED
    BY <1>1, <2>1, <2>2, <2>3, RecordAside
<1>3. CASE ~(tab.url # "away" /\ Key = editors[m].key)
  <2> DEFINE left == IF editors[m].dirty THEN editors[m].text ELSE tab.stored[editors[m].session]
             e1 == [editors[m] EXCEPT !.mounted = FALSE]
             e == [e1 EXCEPT !.autosave = FALSE]
             t == [tab EXCEPT !.stored[editors[m].session] = left]
             x == [Now(m) EXCEPT !.e = e, !.t = t]
  <2>1. Become(m, x)
    <3>1. [Now(m) EXCEPT !.e.mounted = FALSE, !.e.autosave = FALSE,
             !.t.stored[editors[m].session] = IF editors[m].dirty THEN editors[m].text ELSE @] = x
      BY <1>1 DEF Working, EditorStates, Tab
    <3> QED
      BY <1>3, <3>1 DEF Render
  <2>2. left \in Texts \cup {None}
    BY <1>1 DEF EditorStates, Tab
  <2>3. t \in Tab
    <3> HIDE DEF left
    <3> QED
      BY <1>1, <2>2 DEF Tab
  <2>4. e1 \in EditorStates
    BY <1>1 DEF EditorStates
  <2>5. e \in EditorStates
    <3> HIDE DEF e1
    <3> QED
      BY <2>4 DEF EditorStates
  <2>6. /\ e.known = editors[m].known /\ e.session = editors[m].session
        /\ e.create = editors[m].create /\ e.saving = editors[m].saving
        /\ e.failure = editors[m].failure /\ e.text = editors[m].text
        /\ e.pending = editors[m].pending /\ e.intent = editors[m].intent
        /\ e.hasty = editors[m].hasty /\ e.sending = editors[m].sending
        /\ e.upload = editors[m].upload /\ e.dirty = editors[m].dirty
        /\ e.beside = editors[m].beside /\ ~e.mounted /\ ~e.autosave
    BY <1>1 DEF EditorStates
  <2>7. /\ t.cache = tab.cache /\ t.create = tab.create /\ t.composition = tab.composition
        /\ t.stored[Compose] = tab.stored[Compose] \/ editors[m].session = Compose
    BY <1>1 DEF Tab, Places
  <2> HIDE DEF e, t
  <2>8. x \in Working /\ x.e = e /\ x.t = t /\ x.c = Now(m).c
    BY <1>1, <2>3, <2>5 DEF Working
  <2> HIDE DEF x
  <2>9. FormInv(drafts, calls, x.e)
    BY <1>1, <2>6, <2>8 DEF FormInv
  <2>10. SendInv(drafts, x)
    <3>1. Calm(e) => Calm(editors[m])
      BY <2>6 DEF Calm
    <3> QED
      BY <1>1, <2>6, <2>8, <3>1 DEF SendInv
  <2>11. Waits(Now(m), x)
    BY <1>1, <2>6, <2>8 DEF Waits
  <2>12. \A d \in Drafts : x.t.cache[d] # None => Seen(drafts, calls, x.t.cache[d])
    BY <1>1, <2>7, <2>8 DEF TabInv
  <2> QED
    BY <1>1, <2>1, <2>6, <2>7, <2>8, <2>9, <2>10, <2>11, <2>12, AsideKeeps
<1> QED
  BY <1>2, <1>3

\* The editor takes over what is known of the draft now.
Taken(e, f, known) ==
  /\ f.known = known /\ f.session = e.session /\ f.create = e.create
  /\ f.saving = e.saving /\ f.failure = e.failure /\ f.text = e.text
  /\ f.pending = e.pending /\ f.intent = e.intent /\ f.hasty = e.hasty
  /\ f.beside = e.beside /\ f.mounted = e.mounted /\ f.autosave = e.autosave
  /\ f.sending = e.sending /\ f.dirty = e.dirty
  /\ f.upload = e.upload \/ (f.upload = None /\ e.intent # "attach")

LEMMA TakenKeeps ==
  ASSUME IInv, NEW m \in Mounts, AtWork(m), NEW known \in Known, known # None,
         Seen(drafts, calls, known), NEW t \in Tab,
         t.create = tab.create, t.composition = tab.composition, t.stored = tab.stored,
         \A d \in Drafts : t.cache[d] \in {known, tab.cache[d]},
         NEW e \in EditorStates, Taken(editors[m], e, known),
         NEW x, x = [Now(m) EXCEPT !.e = e, !.t = t], Become(m, x)
  PROVE  IInv'
<1>1. /\ Now(m) \in Working /\ Now(m).e = editors[m] /\ Now(m).t = tab /\ Now(m).c = calls
      /\ editors[m] \in EditorStates /\ tab \in Tab /\ EditorInv(drafts, Now(m))
      /\ FormInv(drafts, calls, editors[m]) /\ SendInv(drafts, Now(m))
      /\ TabInv(drafts, tab, calls)
  BY AtWorkIs
<1>2. x \in Working /\ x.e = e /\ x.t = t /\ x.c = calls
  BY <1>1 DEF Working
<1>3. FormInv(drafts, calls, x.e)
  BY <1>1, <1>2 DEF FormInv, Taken
<1>4. SendInv(drafts, x)
  <2>1. Calm(e) => Calm(editors[m])
    BY DEF Calm, Taken
  <2> QED
    BY <1>1, <1>2, <2>1 DEF SendInv, Taken
<1>5. Waits(Now(m), x)
  BY <1>1, <1>2 DEF Waits, Taken
<1>6. \A d \in Drafts : x.t.cache[d] # None => Seen(drafts, calls, x.t.cache[d])
  BY <1>1, <1>2 DEF TabInv
<1>7. (x.e.mounted => editors[m].mounted) /\ (x.e.autosave => x.e.mounted)
  BY <1>1, <1>2 DEF EditorInv, Taken
<1>8. /\ x.e.known = known /\ x.e.session = editors[m].session
      /\ x.e.create = editors[m].create /\ x.e.saving = editors[m].saving
      /\ x.e.failure = editors[m].failure
      /\ x.t.create = tab.create /\ x.t.composition = tab.composition
      /\ x.t.stored[Compose] \in {None, tab.stored[Compose]}
  BY <1>2 DEF Taken
<1> QED
  BY <1>2, <1>3, <1>4, <1>5, <1>6, <1>7, <1>8, AsideKeeps

LEMMA TakeOverKeeps == ASSUME IInv, NEW m \in Mounts, TakeOver(m) PROVE IInv'
<1> DEFINE known == tab.cache[editors[m].draftId]
           e == [editors[m] EXCEPT !.known = known]
           x == [Now(m) EXCEPT !.e.known = known]
<1>1. AtWork(m) /\ editors[m].draftId \in Drafts /\ known # None /\ Become(m, x)
  BY DEF TakeOver, Open
<1>2. /\ Now(m) \in Working /\ Now(m).e = editors[m] /\ Now(m).t = tab
      /\ editors[m] \in EditorStates /\ tab \in Tab /\ TabInv(drafts, tab, calls)
  BY <1>1, AtWorkIs
<1>3. known \in Known /\ Seen(drafts, calls, known)
  BY <1>1, <1>2 DEF Tab, TabInv
<1>4. x = [Now(m) EXCEPT !.e = e, !.t = tab]
  BY <1>2 DEF Working, EditorStates
<1>5. e \in EditorStates /\ Taken(editors[m], e, known)
  <2> HIDE DEF known
  <2>1. e \in EditorStates
    BY <1>2, <1>3 DEF EditorStates
  <2>2. Taken(editors[m], e, known)
    <3>1. /\ e.known = known /\ e.session = editors[m].session
          /\ e.create = editors[m].create /\ e.saving = editors[m].saving
          /\ e.failure = editors[m].failure /\ e.text = editors[m].text
          /\ e.pending = editors[m].pending /\ e.intent = editors[m].intent
          /\ e.hasty = editors[m].hasty /\ e.sending = editors[m].sending
          /\ e.upload = editors[m].upload
          /\ e.beside = editors[m].beside /\ e.mounted = editors[m].mounted
          /\ e.autosave = editors[m].autosave /\ e.dirty = editors[m].dirty
      BY <1>2 DEF EditorStates
    <3> HIDE DEF e
    <3> QED
      BY <3>1 DEF Taken
  <2> QED
    BY <2>1, <2>2
<1>6. \A d \in Drafts : tab.cache[d] \in {known, tab.cache[d]}
  OBVIOUS
<1> HIDE DEF known, e, x
<1> QED
  BY <1>1, <1>2, <1>3, <1>4, <1>5, <1>6, TakenKeeps

\* A draft as it is read now.
LEMMA ViewSeen ==
  ASSUME IInv, NEW d \in Drafts, drafts[d] # None
  PROVE  /\ View(d) \in Known /\ View(d) # None
         /\ View(d).id = d /\ View(d).version = drafts[d].version
         /\ View(d).text = drafts[d].text
         /\ Seen(drafts, calls, View(d))
<1>1. drafts[d] \in DraftRows
  BY DEF IInv, TypeOK
<1>2. /\ View(d) \in Known /\ View(d).id = d /\ View(d).version = drafts[d].version
      /\ View(d).text = drafts[d].text
  BY <1>1 DEF View, Known, DraftRows
<1>3. Had(drafts, calls, drafts[d].text)
  BY DEF IInv, CommandsInv, RowsHad
<1>4. drafts[d].version \in Nat
  BY <1>1 DEF DraftRows
<1>5. Seen(drafts, calls, View(d))
  BY <1>2, <1>3, <1>4 DEF Seen
<1>6. View(d) # None
  BY <1>2, NoneAssumption
<1> QED
  BY <1>2, <1>5, <1>6

LEMMA UploadAnsweredKeeps == ASSUME IInv, NEW m \in Mounts, UploadAnswered(m) PROVE IInv'
<1> DEFINE d == editors[m].upload.draft
<1>1. /\ AtWork(m) /\ editors[m].upload # None /\ editors[m].upload.stage = "asked"
      /\ Live(d)
      /\ Become(m,
          IF editors[m].text = drafts[d].text
          THEN [Now(m) EXCEPT !.e.upload = None, !.e.known = View(d), !.t.cache[d] = View(d)]
          ELSE [Now(m) EXCEPT !.e.upload.stage = "failed", !.e.upload.retryable = FALSE])
  BY DEF UploadAnswered, Uploads
<1>2. /\ FormInv(drafts, calls, editors[m])
      /\ Now(m) \in Working /\ Now(m).e = editors[m] /\ Now(m).t = tab
      /\ editors[m] \in EditorStates /\ tab \in Tab
  BY <1>1, AtWorkIs
<1>3. d \in Drafts /\ editors[m].intent # "attach"
  BY <1>1, <1>2 DEF FormInv, EditorStates, Uploading
<1>4. View(d) \in Known /\ View(d) # None /\ Seen(drafts, calls, View(d))
  BY <1>1, <1>3, ViewSeen DEF Live
<1>5. CASE editors[m].text = drafts[d].text
  <2> DEFINE e1 == [editors[m] EXCEPT !.upload = None]
             e == [e1 EXCEPT !.known = View(d)]
             t == [tab EXCEPT !.cache[d] = View(d)]
             x == [Now(m) EXCEPT !.e = e, !.t = t]
  <2>1. [Now(m) EXCEPT !.e.upload = None, !.e.known = View(d), !.t.cache[d] = View(d)] = x
    BY <1>2 DEF Working, EditorStates, Tab
  <2>2. Become(m, x)
    BY <1>1, <1>5, <2>1
  <2>3. e1 \in EditorStates /\ t \in Tab
    BY <1>2, <1>3, <1>4 DEF EditorStates, Tab
  <2>4. e \in EditorStates
    <3> HIDE DEF e1
    <3> QED
      BY <1>4, <2>3 DEF EditorStates
  <2>5. /\ t.create = tab.create /\ t.composition = tab.composition
        /\ t.stored = tab.stored
        /\ \A other \in Drafts : t.cache[other] \in {View(d), tab.cache[other]}
    BY <1>2 DEF Tab
  <2>6. Taken(editors[m], e, View(d))
    BY <1>2, <1>3 DEF EditorStates, Taken
  <2>7. x = [Now(m) EXCEPT !.e = e, !.t = t]
    OBVIOUS
  <2> HIDE DEF e, t, x, d
  <2> QED
    BY <1>1, <1>4, <2>2, <2>3, <2>4, <2>5, <2>6, <2>7, TakenKeeps
<1>6. CASE editors[m].text # drafts[d].text
  <2>1. Become(m, [Now(m) EXCEPT !.e.upload.stage = "failed", !.e.upload.retryable = FALSE])
    BY <1>1, <1>6
  <2>2. PICK upload \in Uploading :
          /\ upload.stage = "failed" /\ Become(m, [Now(m) EXCEPT !.e.upload = upload])
    BY <1>1, <2>1, FailedUpload
  <2> QED
    BY <1>1, <2>2, UploadKeeps
<1> QED
  BY <1>5, <1>6

LEMMA EditKeeps ==
  ASSUME IInv, NEW m \in Mounts, NEW text \in Texts, Edit(m, text) PROVE IInv'
<1> DEFINE unsaved == editors[m].saving # None \/ text # Persisted(editors[m])
           left == IF unsaved THEN text ELSE None
           e1 == [editors[m] EXCEPT !.text = text]
           e2 == [e1 EXCEPT !.autosave = TRUE]
           e == [e2 EXCEPT !.dirty = unsaved]
           t == [tab EXCEPT !.stored[editors[m].session] = left]
           x == [Now(m) EXCEPT !.e = e, !.t = t]
<1>1. /\ AtWork(m) /\ editors[m].mounted /\ ~Locked(m)
      /\ Become(m, [Now(m) EXCEPT !.e.text = text, !.e.autosave = TRUE, !.e.dirty = unsaved,
                             !.t.stored[editors[m].session] = left])
  BY DEF Edit, Shown, Open
<1>2. /\ FormInv(drafts, calls, editors[m]) /\ EditorInv(drafts, Now(m))
      /\ TabInv(drafts, tab, calls)
      /\ Now(m) \in Working /\ Now(m).e = editors[m] /\ Now(m).t = tab /\ Now(m).c = calls
      /\ editors[m] \in EditorStates /\ tab \in Tab
  BY <1>1, AtWorkIs
<1>3. editors[m].intent # "send" /\ editors[m].sending = None /\ editors[m].upload = None
  BY <1>1 DEF Locked
<1>4. Become(m, x)
  <2>1. [Now(m) EXCEPT !.e.text = text, !.e.autosave = TRUE, !.e.dirty = unsaved,
                    !.t.stored[editors[m].session] = left] = x
    <3> HIDE DEF left, unsaved
    <3> QED
      BY <1>2 DEF Working, EditorStates, Tab
  <2> QED
    BY <1>1, <2>1
<1>5. unsaved \in BOOLEAN /\ left \in Texts \cup {None}
  OBVIOUS
<1>6. unsaved \/ Had(drafts, calls, text)
  BY <1>2 DEF EditorInv, Seen, Had, Persisted
<1> HIDE DEF unsaved, left
<1>7. e1 \in EditorStates /\ t \in Tab
  BY <1>2, <1>5 DEF EditorStates, Tab
<1>8. e2 \in EditorStates
  <2> HIDE DEF e1
  <2> QED
    BY <1>7 DEF EditorStates
<1>9. e \in EditorStates
  <2> HIDE DEF e2
  <2> QED
    BY <1>5, <1>8 DEF EditorStates
<1>10. x \in Working /\ x.e = e /\ x.t = t /\ x.c = calls
  <2> HIDE DEF e, t
  <2> QED
    BY <1>2, <1>7, <1>9 DEF Working
<1>11. /\ e.session = editors[m].session
       /\ e.create = editors[m].create /\ e.saving = editors[m].saving
       /\ e.failure = editors[m].failure /\ e.text = text
       /\ e.intent = editors[m].intent /\ e.mounted
       /\ e.hasty = editors[m].hasty /\ e.sending = None
       /\ e.upload = None /\ e.dirty = unsaved /\ e.known = editors[m].known
  BY <1>1, <1>2, <1>3 DEF EditorStates
<1>12. /\ t.create = tab.create /\ t.composition = tab.composition
       /\ t.cache = tab.cache
       /\ t.stored[Compose] = tab.stored[Compose] \/ editors[m].session = Compose
  BY <1>2 DEF Tab, Places
<1> HIDE DEF e, t, x
<1>13. FormInv(drafts, calls, x.e)
  BY <1>2, <1>3, <1>6, <1>10, <1>11 DEF FormInv
<1>14. SendInv(drafts, x) /\ Waits(Now(m), x)
  BY <1>3, <1>10, <1>11 DEF SendInv, Calm, Waits
<1>15. \A d \in Drafts : x.t.cache[d] # None => Seen(drafts, calls, x.t.cache[d])
  BY <1>2, <1>10, <1>12 DEF TabInv
<1> QED
  BY <1>1, <1>4, <1>10, <1>11, <1>12, <1>13, <1>14, <1>15, AsideKeeps
\* What a user asks for waits for the saves: what the editor shows stays.
Asked(e, f) ==
  /\ f.known = e.known /\ f.session = e.session /\ f.create = e.create
  /\ f.mounted = e.mounted /\ f.autosave = e.autosave
  /\ f.saving = e.saving /\ f.failure = e.failure
  /\ f.text = e.text /\ f.sending = e.sending /\ f.dirty = e.dirty

LEMMA AskedKeeps ==
  ASSUME IInv, NEW m \in Mounts, Open(m), NEW e \in EditorStates, Asked(editors[m], e),
         FormInv(drafts, calls, e), e.intent = "send" /\ ~e.beside => ~Beside(m),
         NEW x, x = [Now(m) EXCEPT !.e = e], Become(m, FlushSave(x))
  PROVE  IInv'
<1>1. /\ AtWork(m) /\ editors[m].mounted
      /\ Core(drafts, Now(m)) /\ EditorInv(drafts, Now(m))
      /\ Now(m) \in Working /\ Now(m).e = editors[m] /\ Now(m).t = tab /\ Now(m).c = calls
      /\ editors[m] \in EditorStates /\ calls \in Seq(Calls)
  BY AtWorkIs DEF Open
<1>2. x \in Working /\ x.e = e /\ x.t = tab /\ x.c = calls
  BY <1>1 DEF Working
<1>3. Unmoved(Now(m), x)
  BY <1>1, <1>2 DEF Unmoved, Asked
<1>4. Core(drafts, x)
  BY <1>1, <1>2, <1>3, OthersSame
<1>5. x.e.mounted
  BY <1>1, <1>2 DEF Asked
<1> DEFINE r == FlushSave(x)
<1>6. Core(drafts, r) /\ SendInv(drafts, r) /\ Onwards(x, r)
  BY <1>2, <1>4, <1>5, FlushSaveKeeps
<1>7. Onward(calls, x.c)
  BY <1>1, <1>2 DEF Onward
<1>8. Become(m, r)
  OBVIOUS
<1> HIDE DEF r
<1>9. /\ \A op : NoCreateBut(tab, calls, op) => NoCreateBut(x.t, x.c, op)
      /\ NoCreateBut(tab, calls, tab.create) => NoCreateBut(x.t, x.c, x.t.create)
  BY <1>2
<1> QED
  BY <1>1, <1>2, <1>6, <1>7, <1>8, <1>9, StepKeeps

LEMMA SendKeeps == ASSUME IInv, NEW m \in Mounts, Send(m) PROVE IInv'
<1> DEFINE e1 == [editors[m] EXCEPT !.intent = "send"]
           e == [e1 EXCEPT !.beside = Beside(m)]
           x == [Now(m) EXCEPT !.e = e]
<1>1. /\ Open(m) /\ AtWork(m) /\ editors[m].intent = "none"
      /\ Become(m, FlushSave([Now(m) EXCEPT !.e.intent = "send", !.e.beside = Beside(m)]))
  BY DEF Send, Idle, Shown, Open
<1>2. /\ FormInv(drafts, calls, editors[m]) /\ Now(m) \in Working
      /\ Now(m).e = editors[m] /\ editors[m] \in EditorStates
  BY <1>1, AtWorkIs
<1>3. Beside(m) \in BOOLEAN
  BY DEF Beside
<1>4. e1 \in EditorStates
  BY <1>2 DEF EditorStates
<1>5. e \in EditorStates
  <2> HIDE DEF e1
  <2> QED
    BY <1>3, <1>4 DEF EditorStates
<1>6. [Now(m) EXCEPT !.e.intent = "send", !.e.beside = Beside(m)] = x
  BY <1>2 DEF Working, EditorStates
<1>7. /\ Asked(editors[m], e) /\ e.intent = "send" /\ e.upload = editors[m].upload
  BY <1>2 DEF EditorStates, Asked
<1>8. e.beside = Beside(m)
  BY <1>2 DEF EditorStates
<1> HIDE DEF e
<1>9. FormInv(drafts, calls, e)
  BY <1>2, <1>7 DEF FormInv, Asked
<1>10. e.intent = "send" /\ ~e.beside => ~Beside(m)
  BY <1>8
<1>11. Become(m, FlushSave(x))
  BY <1>1, <1>6
<1> QED
  BY <1>1, <1>5, <1>7, <1>9, <1>10, <1>11, AskedKeeps

LEMMA CloseKeeps == ASSUME IInv, NEW m \in Mounts, Close(m) PROVE IInv'
<1>1. /\ Open(m) /\ AtWork(m)
      /\ Become(m, IF editors[m].dirty THEN FlushSave([Now(m) EXCEPT !.e.intent = "close"])
                                       ELSE [Now(m) EXCEPT !.t.url = "away"])
  BY DEF Close, Idle, Shown, Open
<1>2. /\ FormInv(drafts, calls, editors[m]) /\ Now(m) \in Working
      /\ Now(m).e = editors[m] /\ Now(m).t = tab
      /\ editors[m] \in EditorStates /\ tab \in Tab
  BY <1>1, AtWorkIs
<1>3. CASE editors[m].dirty
  <2> DEFINE e == [editors[m] EXCEPT !.intent = "close"]
             x == [Now(m) EXCEPT !.e = e]
  <2>1. e \in EditorStates
    BY <1>2 DEF EditorStates
  <2>2. [Now(m) EXCEPT !.e.intent = "close"] = x
    BY <1>2 DEF Working
  <2>3. /\ Asked(editors[m], e) /\ e.intent = "close" /\ e.upload = editors[m].upload
    BY <1>2 DEF EditorStates, Asked
  <2> HIDE DEF e
  <2>4. FormInv(drafts, calls, e)
    BY <1>2, <2>3 DEF FormInv, Asked
  <2>5. Become(m, FlushSave(x))
    BY <1>1, <1>3, <2>2
  <2> QED
    BY <1>1, <2>1, <2>3, <2>4, <2>5, AskedKeeps
<1>4. CASE ~editors[m].dirty
  <2> DEFINE t == [tab EXCEPT !.url = "away"]
             x == [Now(m) EXCEPT !.t.url = "away"]
  <2>1. x = [Now(m) EXCEPT !.e = editors[m], !.t = t]
    BY <1>2 DEF Working, Tab
  <2>2. t \in Tab
    BY <1>2 DEF Tab, Urls
  <2>3. /\ t.create = tab.create /\ t.composition = tab.composition
        /\ t.cache = tab.cache /\ t.stored = tab.stored
    BY <1>2 DEF Tab
  <2>4. Same(editors[m], editors[m])
    BY DEF Same
  <2>5. editors[m].dirty \/ Had(drafts, calls, editors[m].text)
    BY <1>2 DEF FormInv
  <2>6. Become(m, x)
    BY <1>1, <1>4
  <2> HIDE DEF x, t
  <2> QED
    BY <1>1, <1>2, <2>1, <2>2, <2>3, <2>4, <2>5, <2>6, EditorAside
<1> QED
  BY <1>3, <1>4

LEMMA RetryKeeps == ASSUME IInv, NEW m \in Mounts, Retry(m) PROVE IInv'
<1>1. AtWork(m) /\ editors[m].mounted
  BY DEF Retry, Shown, Open
<1>2. CASE /\ editors[m].sending # None
           /\ Become(m, [Now(m) EXCEPT !.e.sending.uncertain = FALSE])
  BY <1>1, <1>2, UncertainKeeps
<1>3. CASE /\ editors[m].intent = "none" /\ editors[m].saving = None
           /\ editors[m].failure # None /\ editors[m].failure.retryable
           /\ Become(m, RetrySave(Now(m)))
  <2>1. Core(drafts, Now(m)) /\ Now(m).e = editors[m] /\ Now(m).c = calls
    BY <1>1, AtWorkIs
  <2> DEFINE r == RetrySave(Now(m))
  <2>2. Core(drafts, r) /\ SendInv(drafts, r) /\ Onwards(Now(m), r)
    BY <1>1, <1>3, <2>1, RetrySaveKeeps DEF Calm
  <2>3. Become(m, r)
    BY <1>3
  <2> HIDE DEF r
  <2> QED
    BY <1>1, <2>2, <2>3, BecomeKeeps
<1> QED
  BY <1>2, <1>3 DEF Retry

\* An upload waits for the saves.
LEMMA AttachingKeeps ==
  ASSUME IInv, NEW m \in Mounts, Open(m), NEW upload \in Uploading, upload.stage = "waiting",
         Become(m, FlushSave([Now(m) EXCEPT !.e.intent = "attach", !.e.upload = upload]))
  PROVE  IInv'
<1> DEFINE e1 == [editors[m] EXCEPT !.intent = "attach"]
           e == [e1 EXCEPT !.upload = upload]
           x == [Now(m) EXCEPT !.e = e]
<1>1. AtWork(m)
  BY DEF Open
<1>2. /\ FormInv(drafts, calls, editors[m]) /\ Now(m) \in Working
      /\ Now(m).e = editors[m] /\ editors[m] \in EditorStates
  BY <1>1, AtWorkIs
<1>3. [Now(m) EXCEPT !.e.intent = "attach", !.e.upload = upload] = x
  BY <1>2 DEF Working, EditorStates
<1>4. e1 \in EditorStates
  BY <1>2 DEF EditorStates
<1>5. e \in EditorStates
  <2> HIDE DEF e1
  <2> QED
    BY <1>4 DEF EditorStates
<1>6. Asked(editors[m], e) /\ e.intent = "attach" /\ e.upload = upload
  BY <1>2 DEF EditorStates, Asked
<1>7. upload # None
  BY NoneAssumption
<1> HIDE DEF e
<1>8. FormInv(drafts, calls, e)
  BY <1>2, <1>6, <1>7 DEF FormInv, Asked
<1>9. Become(m, FlushSave(x))
  BY <1>3
<1> QED
  BY <1>5, <1>6, <1>8, <1>9, AskedKeeps

LEMMA AttachKeeps ==
  ASSUME IInv, NEW m \in Mounts, NEW file \in Files, Attach(m, file) PROVE IInv'
<1> DEFINE upload ==
      [file |-> file, draft |-> None, stage |-> "waiting", retryable |-> TRUE]
<1>1. Open(m) /\ Become(m, FlushSave([Now(m) EXCEPT !.e.intent = "attach", !.e.upload = upload]))
  BY DEF Attach, Idle, Shown
<1>2. upload \in Uploading /\ upload.stage = "waiting"
  BY DEF Uploading
<1> HIDE DEF upload
<1> QED
  BY <1>1, <1>2, AttachingKeeps

LEMMA RetryUploadKeeps == ASSUME IInv, NEW m \in Mounts, RetryUpload(m) PROVE IInv'
<1> DEFINE upload == [editors[m].upload EXCEPT !.stage = "waiting"]
<1>1. Open(m) /\ AtWork(m) /\ editors[m].upload # None
  BY DEF RetryUpload, Shown, Open
<1>2. Now(m) \in Working /\ Now(m).e = editors[m] /\ editors[m] \in EditorStates
  BY <1>1, AtWorkIs
<1>3. upload \in Uploading /\ upload.stage = "waiting"
  BY <1>1, <1>2 DEF EditorStates, Uploading
<1>4. [Now(m) EXCEPT !.e.intent = "attach", !.e.upload.stage = "waiting"]
        = [Now(m) EXCEPT !.e.intent = "attach", !.e.upload = upload]
  BY <1>2 DEF Working, EditorStates
<1>5. Become(m, FlushSave([Now(m) EXCEPT !.e.intent = "attach", !.e.upload = upload]))
  BY <1>4 DEF RetryUpload
<1> HIDE DEF upload
<1> QED
  BY <1>1, <1>3, <1>5, AttachingKeeps
LEMMA QueueSaveKeeps == ASSUME IInv, NEW m \in Mounts, QueueSave(m) PROVE IInv'
<1> DEFINE e1 == [editors[m] EXCEPT !.autosave = FALSE]
           s == [Now(m) EXCEPT !.e.autosave = FALSE]
           queued == [s EXCEPT !.e.pending = editors[m].text]
           persisted == editors[m].saving = None /\ editors[m].text = Persisted(editors[m])
<1>1. AtWork(m) /\ editors[m].autosave
  BY Zenon DEF QueueSave
<1>2. /\ Core(drafts, Now(m)) /\ SendInv(drafts, Now(m)) /\ EditorInv(drafts, Now(m))
      /\ FormInv(drafts, calls, editors[m])
      /\ Now(m) \in Working /\ Now(m).e = editors[m] /\ Now(m).t = tab /\ Now(m).c = calls
      /\ editors[m] \in EditorStates /\ calls \in Seq(Calls)
  BY <1>1, AtWorkIs
<1>3. editors[m].mounted
  BY <1>1, <1>2 DEF EditorInv
<1>4. e1 \in EditorStates
  BY <1>2 DEF EditorStates
<1>5. /\ e1.known = editors[m].known /\ e1.session = editors[m].session
      /\ e1.create = editors[m].create /\ e1.saving = editors[m].saving
      /\ e1.failure = editors[m].failure /\ e1.text = editors[m].text
      /\ e1.sending = editors[m].sending /\ e1.pending = editors[m].pending
      /\ e1.intent = editors[m].intent /\ e1.hasty = editors[m].hasty
      /\ e1.beside = editors[m].beside /\ e1.mounted = editors[m].mounted
      /\ e1.upload = editors[m].upload /\ e1.dirty = editors[m].dirty
      /\ e1.autosave = FALSE
  BY <1>2 DEF EditorStates
<1>6. s \in Working /\ s.e = e1 /\ s.t = tab /\ s.c = calls
  <2>1. s = [Now(m) EXCEPT !.e = e1]
    BY <1>2 DEF Working
  <2> HIDE DEF s, e1
  <2> QED
    BY <1>2, <1>4, <2>1 DEF Working
<1>7. CASE persisted
  <2> DEFINE e2 == [e1 EXCEPT !.pending = None]
             e == [e2 EXCEPT !.dirty = FALSE]
             x == [s EXCEPT !.e.pending = None, !.e.dirty = FALSE]
             y == Forgotten(x)
  <2>1. e2 \in EditorStates
    <3> HIDE DEF e1
    <3> QED
      BY <1>4 DEF EditorStates
  <2>2. e \in EditorStates
    <3> HIDE DEF e2
    <3> QED
      BY <2>1 DEF EditorStates
  <2>3. x \in Working /\ x.e = e /\ x.t = tab /\ x.c = calls
    <3> HIDE DEF s, e1
    <3>1. x = [s EXCEPT !.e = e]
      BY <1>4, <1>6 DEF Working, EditorStates
    <3> HIDE DEF x, e
    <3> QED
      BY <1>6, <2>2, <3>1 DEF Working
  <2>4. /\ e.known = editors[m].known /\ e.session = editors[m].session
        /\ e.create = editors[m].create /\ e.saving = editors[m].saving
        /\ e.failure = editors[m].failure /\ e.text = editors[m].text
        /\ e.sending = editors[m].sending /\ e.pending = None
        /\ e.intent = editors[m].intent /\ e.hasty = editors[m].hasty
        /\ e.beside = editors[m].beside /\ e.mounted = editors[m].mounted
        /\ e.upload = editors[m].upload /\ e.autosave = FALSE
    <3> HIDE DEF e1
    <3> QED
      BY <1>4, <1>5 DEF EditorStates
  <2>5. Had(drafts, calls, editors[m].text)
    BY <1>2, <1>7 DEF EditorInv, Seen, Had, Persisted
  <2>6. Become(m, y)
    BY <1>7 DEF QueueSave
  <2> HIDE DEF x, e, e1, s, persisted
  <2>7. FormInv(drafts, x.c, x.e)
    BY <1>2, <2>3, <2>4, <2>5 DEF FormInv
  <2>8. Unmoved(Now(m), x) /\ Waits(Now(m), x)
    BY <1>2, <2>3, <2>4 DEF Unmoved, Waits
  <2>9. Core(drafts, x) /\ Onwards(Now(m), x)
    BY <1>2, <2>3, <2>7, <2>8, OthersSame
  <2>10. Core(drafts, y) /\ y.e = x.e /\ y.c = x.c /\ Onwards(x, y)
    BY <2>9, ForgottenKeeps
  <2>11. SendInv(drafts, y)
    <3>1. editors[m].saving = None
      BY <1>7 DEF persisted
    <3> QED
      BY <1>2, <2>3, <2>4, <2>10, <3>1 DEF SendInv, Calm
  <2> HIDE DEF y
  <2>12. Onwards(Now(m), y)
    BY <1>2, <2>3, <2>9, <2>10, OnwardsOn
  <2> QED
    BY <1>1, <2>6, <2>10, <2>11, <2>12, BecomeKeeps
<1>8. CASE ~persisted
  <2> DEFINE e == [e1 EXCEPT !.pending = editors[m].text]
  <2>1. editors[m].text \in Texts /\ editors[m].text # None
    BY <1>2, NoneAssumption DEF EditorStates
  <2>2. e \in EditorStates
    <3> HIDE DEF e1
    <3> QED
      BY <1>4, <2>1 DEF EditorStates
  <2>3. queued \in Working /\ queued.e = e /\ queued.t = tab /\ queued.c = calls
    <3> HIDE DEF s, e1
    <3>1. queued = [s EXCEPT !.e = e]
      BY <1>4, <1>6 DEF Working, EditorStates
    <3> HIDE DEF queued, e
    <3> QED
      BY <1>6, <2>2, <3>1 DEF Working
  <2>4. /\ e.known = editors[m].known /\ e.session = editors[m].session
        /\ e.create = editors[m].create /\ e.saving = editors[m].saving
        /\ e.failure = editors[m].failure /\ e.text = editors[m].text
        /\ e.sending = editors[m].sending /\ e.pending = editors[m].text
        /\ e.intent = editors[m].intent /\ e.hasty = editors[m].hasty
        /\ e.beside = editors[m].beside /\ e.mounted = editors[m].mounted
        /\ e.upload = editors[m].upload /\ e.dirty = editors[m].dirty
        /\ e.autosave = FALSE
    <3> HIDE DEF e1
    <3> QED
      BY <1>4, <1>5 DEF EditorStates
  <2>5. Become(m, IF editors[m].saving = None /\ editors[m].failure = None
                  THEN StartSave(queued) ELSE queued)
    BY <1>8 DEF QueueSave
  <2> HIDE DEF queued, e, e1, s, persisted
  <2>6. FormInv(drafts, queued.c, queued.e)
    BY <1>2, <2>3, <2>4 DEF FormInv
  <2>7. Unmoved(Now(m), queued) /\ Waits(Now(m), queued)
    BY <1>2, <2>3, <2>4 DEF Unmoved, Waits
  <2>8. Core(drafts, queued) /\ Onwards(Now(m), queued)
    BY <1>2, <2>3, <2>6, <2>7, OthersSame
  <2>9. CASE editors[m].saving = None /\ editors[m].failure = None
    <3> DEFINE r == StartSave(queued)
    <3>1. Core(drafts, r) /\ SendInv(drafts, r) /\ Onwards(queued, r)
      BY <1>3, <2>1, <2>3, <2>4, <2>8, <2>9, StartSaveKeeps
    <3>2. Become(m, r)
      BY <2>5, <2>9
    <3> HIDE DEF r
    <3>3. r.c \in Seq(Calls)
      BY <3>1 DEF Core, Working
    <3>4. Onwards(Now(m), r)
      BY <1>2, <2>3, <2>8, <3>1, <3>3, OnwardsOn
    <3> QED
      BY <1>1, <3>1, <3>2, <3>4, BecomeKeeps
  <2>10. CASE ~(editors[m].saving = None /\ editors[m].failure = None)
    <3>1. SendInv(drafts, queued)
      BY <1>2, <2>1, <2>3, <2>4 DEF SendInv, Calm
    <3>2. Become(m, queued)
      BY <2>5, <2>10
    <3> QED
      BY <1>1, <2>8, <3>1, <3>2, BecomeKeeps
  <2> QED
    BY <2>9, <2>10
<1> QED
  BY <1>7, <1>8

LEMMA SaveLostKeeps == ASSUME IInv, NEW m \in Mounts, SaveLost(m) PROVE IInv'
<1> DEFINE failure == [op |-> editors[m].saving.op, retryable |-> TRUE]
           e1 == [editors[m] EXCEPT !.saving = None]
           e == [e1 EXCEPT !.failure = failure]
           x == [Now(m) EXCEPT !.e = e]
<1>1. AtWork(m) /\ editors[m].saving # None
  BY DEF SaveLost
<1>2. /\ Core(drafts, Now(m)) /\ EditorInv(drafts, Now(m)) /\ SavingInv(Now(m))
      /\ TabInv(drafts, tab, calls) /\ CommandsInv(drafts, calls) /\ drafts \in Rows
      /\ Now(m) \in Working /\ Now(m).e = editors[m] /\ Now(m).t = tab /\ Now(m).c = calls
      /\ editors[m] \in EditorStates /\ calls \in Seq(Calls)
      /\ FormInv(drafts, calls, editors[m])
  BY <1>1, AtWorkIs
<1>3. failure \in Failure /\ failure # None /\ failure.op = editors[m].saving.op /\ failure.retryable
  <2>1. editors[m].saving.op \in Nat
    BY <1>1, <1>2 DEF EditorStates, Saving
  <2>2. failure \in Failure /\ failure.op = editors[m].saving.op /\ failure.retryable
    BY <2>1 DEF Failure
  <2> QED
    BY <2>2, NoneAssumption
<1>4. Become(m, Resume(x))
  <2>1. [Now(m) EXCEPT !.e.saving = None,
                      !.e.failure = [op |-> editors[m].saving.op, retryable |-> TRUE]] = x
    BY <1>2 DEF Working, EditorStates
  <2> QED
    BY <2>1 DEF SaveLost
<1> HIDE DEF failure
<1>5. e1 \in EditorStates
  BY <1>2 DEF EditorStates
<1>6. e \in EditorStates
  <2> HIDE DEF e1
  <2> QED
    BY <1>3, <1>5 DEF EditorStates
<1>7. x \in Working /\ x.e = e /\ x.t = tab /\ x.c = calls
  <2> HIDE DEF e
  <2> QED
    BY <1>2, <1>6 DEF Working
<1>8. /\ e.known = editors[m].known /\ e.session = editors[m].session
      /\ e.create = editors[m].create /\ e.saving = None
      /\ e.failure = failure /\ e.text = editors[m].text
      /\ e.sending = editors[m].sending /\ e.mounted = editors[m].mounted
      /\ e.intent = editors[m].intent /\ e.beside = editors[m].beside
      /\ e.upload = editors[m].upload /\ e.dirty = editors[m].dirty
      /\ e.autosave = editors[m].autosave
  BY <1>2 DEF EditorStates
<1> HIDE DEF e, x
<1>9. EditorInv(drafts, x)
  <2>1. FormInv(drafts, x.c, x.e)
    BY <1>2, <1>7, <1>8 DEF FormInv
  <2> QED
    BY <1>2, <1>7, <1>8, <2>1 DEF EditorInv
<1>10. SavingInv(x)
  BY <1>1, <1>2, <1>3, <1>7, <1>8 DEF SavingInv, OwnSave
<1>11. Core(drafts, x)
  BY <1>2, <1>7, <1>9, <1>10 DEF Core
<1>12. Waits(Now(m), x)
  BY <1>2, <1>7, <1>8 DEF Waits
<1>13. Onwards(Now(m), x)
  BY <1>2, <1>7, <1>8, <1>12, OnwardsBy
<1> DEFINE r == Resume(x)
<1>14. Core(drafts, r) /\ r.e.intent = "none" /\ Onwards(x, r)
  BY <1>3, <1>7, <1>8, <1>11, ResumeKeeps DEF Sayable
<1>15. Become(m, r)
  BY <1>4
<1> HIDE DEF r
<1>16. r.c \in Seq(Calls)
  BY <1>14 DEF Core, Working
<1>17. Onwards(Now(m), r)
  BY <1>2, <1>7, <1>13, <1>14, <1>16, OnwardsOn
<1> QED
  BY <1>1, <1>14, <1>15, <1>17, BecomeKeeps DEF SendInv, Calm
\* An editor that sends has been told of the others.
LEMMA ToldOfOthers ==
  ASSUME IInv, NEW m \in Mounts, AtWork(m), editors[m].intent = "send", ~editors[m].beside
  PROVE  ~Beside(m)
BY DEF IInv, AloneInv, Beside

\* Commands that the browser lets go, and that are otherwise as they were.
Marked(c, n) ==
  /\ n \in Seq(Calls) /\ DOMAIN n = DOMAIN c /\ Len(n) = Len(c)
  /\ \A i \in DOMAIN c :
       /\ n[i].kind = c[i].kind /\ n[i].id = c[i].id /\ n[i].text = c[i].text
       /\ n[i].version = c[i].version /\ n[i].receipt = c[i].receipt
       /\ n[i].composition = c[i].composition /\ n[i].calm = c[i].calm
       /\ Loose(c[i]) => Loose(n[i])

LEMMA MarkedKeeps ==
  ASSUME NEW ds, NEW c \in Seq(Calls), CommandsInv(ds, c), NEW n, Marked(c, n)
  PROVE  /\ CommandsInv(ds, n) /\ Onward(c, n)
         /\ \A text : Had(ds, c, text) => Had(ds, n, text)
         /\ \A known : Seen(ds, c, known) => Seen(ds, n, known)
         /\ \A t, u, op : u.composition = t.composition /\ NoCreateBut(t, c, op)
                            => NoCreateBut(u, n, op)
<1>1. \A text : Had(ds, c, text) => Had(ds, n, text)
  BY DEF Had, Done, Marked
<1>2. \A i \in DOMAIN n : CallInv(ds, i, n[i])
  BY DEF CommandsInv, CallInv, Done, SaysIt, Marked
<1>3. RowsHad(ds, n)
  BY <1>1 DEF CommandsInv, RowsHad
<1>4. OneCreate(n)
  <2>1. \A i \in DOMAIN c : /\ n[i].kind = c[i].kind
                            /\ n[i].composition = c[i].composition
                            /\ ~Loose(n[i]) => ~Loose(c[i])
    BY DEF Marked
  <2>2. OneCreate(c) /\ DOMAIN n = DOMAIN c
    BY DEF CommandsInv, Marked
  <2> QED
    BY ONLY <2>1, <2>2 DEF OneCreate
<1>5. \A known : Seen(ds, c, known) => Seen(ds, n, known)
  BY <1>1 DEF Seen
<1>6. \A t, u, op : u.composition = t.composition /\ NoCreateBut(t, c, op)
                      => NoCreateBut(u, n, op)
  BY DEF NoCreateBut, Marked
<1>7. Onward(c, n)
  BY DEF Onward, Marked, Done
<1> QED
  BY <1>1, <1>2, <1>3, <1>4, <1>5, <1>6, <1>7 DEF CommandsInv

\* The create of an editor ends.
LEMMA CrossedIs ==
  ASSUME calls \in Seq(Calls), NEW m \in Mounts, NEW op \in DOMAIN calls,
         NEW n, n = Crossed(m, op)
  PROVE  /\ Marked(calls, n)
         /\ op # tab.create /\ tab.create \in DOMAIN calls => Loose(n[tab.create])
         /\ Replaced(m) => Loose(n[op])
<1>1. /\ DOMAIN n = DOMAIN calls
      /\ \A i \in DOMAIN calls :
           n[i] = IF (i = op /\ Replaced(m)) \/ (i # op /\ i = tab.create)
                  THEN [calls[i] EXCEPT !.crossed = TRUE] ELSE calls[i]
  BY DEF Crossed
<1>2. \A i \in DOMAIN calls :
        /\ n[i] \in Calls
        /\ n[i].kind = calls[i].kind /\ n[i].id = calls[i].id /\ n[i].text = calls[i].text
        /\ n[i].version = calls[i].version /\ n[i].receipt = calls[i].receipt
        /\ n[i].composition = calls[i].composition /\ n[i].calm = calls[i].calm
        /\ Loose(calls[i]) => Loose(n[i])
        /\ (i = op /\ Replaced(m)) \/ (i # op /\ i = tab.create) => Loose(n[i])
  <2> TAKE i \in DOMAIN calls
  <2>1. calls[i] \in Calls
    OBVIOUS
  <2> DEFINE call == [calls[i] EXCEPT !.crossed = TRUE]
  <2>2. /\ call \in Calls /\ call.crossed
        /\ call.kind = calls[i].kind /\ call.id = calls[i].id /\ call.text = calls[i].text
        /\ call.version = calls[i].version /\ call.receipt = calls[i].receipt
        /\ call.composition = calls[i].composition /\ call.calm = calls[i].calm
    BY <2>1 DEF Calls
  <2>3. CASE (i = op /\ Replaced(m)) \/ (i # op /\ i = tab.create)
    <3>1. n[i] = call
      BY <1>1, <2>3
    <3> HIDE DEF call
    <3> QED
      BY <2>2, <3>1 DEF Loose
  <2>4. CASE ~((i = op /\ Replaced(m)) \/ (i # op /\ i = tab.create))
    <3>1. n[i] = calls[i]
      BY <1>1, <2>4
    <3> QED
      BY <2>1, <2>4, <3>1
  <2> QED
    BY <2>3, <2>4
<1>3. n \in Seq(Calls) /\ Len(n) = Len(calls)
  <2>1. n \in [1 .. Len(calls) -> Calls] /\ Len(calls) \in Nat
    BY <1>1, <1>2 DEF Crossed
  <2>2. n \in Seq(Calls)
    BY <2>1
  <2> QED
    BY <2>1, <2>2
<1> QED
  BY <1>1, <1>2, <1>3 DEF Marked

LEMMA RefusedIs ==
  ASSUME NEW c \in Seq(Calls), NEW op \in DOMAIN c,
         NEW n, n = [c EXCEPT ![op].refused = TRUE]
  PROVE  /\ Marked(c, n) /\ Loose(n[op])
         /\ \A i \in DOMAIN c : Loose(c[i]) => Loose(n[i])
<1> DEFINE call == [c[op] EXCEPT !.refused = TRUE]
<1>1. c[op] \in Calls /\ \A i \in DOMAIN c : c[i] \in Calls
  OBVIOUS
<1>2. /\ call \in Calls /\ call.refused
      /\ call.kind = c[op].kind /\ call.id = c[op].id /\ call.text = c[op].text
      /\ call.version = c[op].version /\ call.receipt = c[op].receipt
      /\ call.composition = c[op].composition /\ call.calm = c[op].calm
  BY <1>1 DEF Calls
<1>3. n = [c EXCEPT ![op] = call]
  OBVIOUS
<1> HIDE DEF call
<1>4. n \in Seq(Calls) /\ DOMAIN n = DOMAIN c /\ Len(n) = Len(c)
  <2>1. c \in [1 .. Len(c) -> Calls] /\ Len(c) \in Nat
    OBVIOUS
  <2>2. n \in [1 .. Len(c) -> Calls]
    BY ONLY <1>2, <1>3, <2>1
  <2>3. n \in Seq(Calls)
    BY <2>1, <2>2
  <2> QED
    BY <2>1, <2>2, <2>3
<1>5. n[op] = call /\ \A i \in DOMAIN c \ {op} : n[i] = c[i]
  BY ONLY <1>3, op \in DOMAIN c
<1>6. Loose(call)
  BY <1>2 DEF Loose
<1> QED
  BY <1>2, <1>4, <1>5, <1>6 DEF Marked
\* A definite refusal; of a create, nothing is kept of it.
LEMMA SaveRefusedKeeps == ASSUME IInv, NEW m \in Mounts, SaveRefused(m) PROVE IInv'
<1> DEFINE op == editors[m].saving.op
           failure == [op |-> op, retryable |-> FALSE]
           e1 == [editors[m] EXCEPT !.saving = None]
           e2 == [e1 EXCEPT !.failure = failure]
           e3 == [e2 EXCEPT !.create = 0]
           t == [tab EXCEPT !.create = 0]
           k == Crossed(m, op)
           c == [k EXCEPT ![op].refused = TRUE]
           failed == [Now(m) EXCEPT !.e.saving = None,
                            !.e.failure = [op |-> op, retryable |-> FALSE]]
           x == IF calls[op].kind = "update" THEN failed
                ELSE [failed EXCEPT !.e.create = 0, !.t.create = 0, !.c = c]
<1>1. AtWork(m) /\ editors[m].saving # None
  BY DEF SaveRefused
<1>2. /\ Core(drafts, Now(m)) /\ EditorInv(drafts, Now(m)) /\ SavingInv(Now(m))
      /\ TabInv(drafts, tab, calls) /\ CommandsInv(drafts, calls) /\ drafts \in Rows
      /\ Now(m) \in Working /\ Now(m).e = editors[m] /\ Now(m).t = tab /\ Now(m).c = calls
      /\ editors[m] \in EditorStates /\ FormInv(drafts, calls, editors[m])
      /\ tab \in Tab /\ calls \in Seq(Calls)
  BY <1>1, AtWorkIs
<1>3. /\ op \in DOMAIN calls /\ op \in Nat
      /\ calls[op].kind \in {"create", "update"}
      /\ calls[op].kind = "create" => op = editors[m].create /\ editors[m].session = Compose
  BY <1>1, <1>2 DEF EditorStates, Saving, SavingInv, OwnSave
<1>4. failure \in Failure /\ failure # None /\ failure.op = op /\ ~failure.retryable
  <2>1. failure \in Failure /\ failure.op = op /\ ~failure.retryable
    BY <1>3 DEF Failure
  <2> QED
    BY <2>1, NoneAssumption
<1>5. failed = [Now(m) EXCEPT !.e = e2]
  <2> HIDE DEF op
  <2> QED
    BY <1>2 DEF Working, EditorStates
<1>6. Become(m, Resume(x))
  BY DEF SaveRefused
<1> HIDE DEF failure, failed, op
<1>7. e1 \in EditorStates
  BY <1>2 DEF EditorStates
<1>8. e2 \in EditorStates
  <2> HIDE DEF e1
  <2> QED
    BY <1>4, <1>7 DEF EditorStates
<1>9. e3 \in EditorStates /\ t \in Tab
  <2>1. t \in Tab
    BY <1>2 DEF Tab
  <2> HIDE DEF e2
  <2>2. e3 \in EditorStates
    BY <1>8 DEF EditorStates
  <2> QED
    BY <2>1, <2>2
<1>10. failed \in Working /\ failed.e = e2 /\ failed.t = tab /\ failed.c = calls
  <2> HIDE DEF e2
  <2> QED
    BY <1>2, <1>5, <1>8 DEF Working
<1>11. /\ e2.known = editors[m].known /\ e2.session = editors[m].session
       /\ e2.create = editors[m].create /\ e2.saving = None
       /\ e2.failure = failure /\ e2.text = editors[m].text
       /\ e2.sending = editors[m].sending /\ e2.mounted = editors[m].mounted
       /\ e2.intent = editors[m].intent /\ e2.beside = editors[m].beside
       /\ e2.upload = editors[m].upload /\ e2.dirty = editors[m].dirty
       /\ e2.autosave = editors[m].autosave
  BY <1>2 DEF EditorStates
<1>12. /\ e3.known = editors[m].known /\ e3.session = editors[m].session
       /\ e3.create = 0 /\ e3.saving = None
       /\ e3.failure = failure /\ e3.text = editors[m].text
       /\ e3.sending = editors[m].sending /\ e3.mounted = editors[m].mounted
       /\ e3.intent = editors[m].intent /\ e3.beside = editors[m].beside
       /\ e3.upload = editors[m].upload /\ e3.dirty = editors[m].dirty
       /\ e3.autosave = editors[m].autosave
  <2> HIDE DEF e2
  <2> QED
    BY <1>8, <1>11 DEF EditorStates
<1>13. /\ t.create = 0 /\ t.composition = tab.composition
       /\ t.cache = tab.cache /\ t.stored = tab.stored
  BY <1>2 DEF Tab
<1>14. CASE calls[op].kind = "update"
  <2>1. x = failed
    BY <1>14
  <2> HIDE DEF x, e2
  <2>2. EditorInv(drafts, x)
    <3>1. FormInv(drafts, x.c, x.e)
      BY <1>2, <1>10, <1>11, <2>1 DEF FormInv
    <3> QED
      BY <1>2, <1>10, <1>11, <2>1, <3>1 DEF EditorInv
  <2>3. SavingInv(x)
    BY <1>3, <1>4, <1>10, <1>11, <2>1 DEF SavingInv
  <2>4. Core(drafts, x)
    BY <1>2, <1>10, <2>1, <2>2, <2>3 DEF Core
  <2>5. Onwards(Now(m), x)
    <3>1. Waits(Now(m), x)
      BY <1>2, <1>10, <1>11, <2>1 DEF Waits
    <3> QED
      BY <1>2, <1>10, <1>11, <2>1, <3>1, OnwardsBy
  <2> DEFINE r == Resume(x)
  <2>6. Core(drafts, r) /\ r.e.intent = "none" /\ Onwards(x, r)
    BY <1>4, <1>10, <1>11, <2>1, <2>4, ResumeKeeps DEF Sayable
  <2>7. Become(m, r)
    BY <1>6
  <2> HIDE DEF r
  <2>8. r.c \in Seq(Calls)
    BY <2>6 DEF Core, Working
  <2>9. Onwards(Now(m), r)
    BY <1>2, <1>10, <2>1, <2>5, <2>6, <2>8, OnwardsOn
  <2> QED
    BY <1>1, <2>6, <2>7, <2>9, BecomeKeeps DEF SendInv, Calm
<1>15. CASE calls[op].kind = "create"
  <2>1. x = [e |-> e3, t |-> t, c |-> c]
    <3>1. x = [failed EXCEPT !.e.create = 0, !.t.create = 0, !.c = c]
      BY <1>15
    <3> HIDE DEF x, e2, c
    <3> QED
      BY <1>10, <3>1 DEF Working
  <2>2. /\ Marked(calls, k)
        /\ op # tab.create /\ tab.create \in DOMAIN calls => Loose(k[tab.create])
    BY <1>2, <1>3, CrossedIs
  <2>3. /\ Marked(k, c) /\ Loose(c[op])
        /\ \A i \in DOMAIN k : Loose(k[i]) => Loose(c[i])
    <3>1. k \in Seq(Calls) /\ op \in DOMAIN k
      BY <1>3, <2>2 DEF Marked
    <3> HIDE DEF k
    <3> QED
      BY <3>1, RefusedIs
  <2> HIDE DEF x, e3, t, c, k
  <2>4. Marked(calls, c)
    BY <2>2, <2>3 DEF Marked
  <2>5. tab.create \in DOMAIN calls => Loose(c[tab.create])
    BY <2>2, <2>3, <2>4 DEF Marked
  <2>6. /\ CommandsInv(drafts, c) /\ Onward(calls, c) /\ c \in Seq(Calls)
        /\ \A text : Had(drafts, calls, text) => Had(drafts, c, text)
        /\ \A known : Seen(drafts, calls, known) => Seen(drafts, c, known)
        /\ \A i : NoCreateBut(tab, calls, i) => NoCreateBut(t, c, i)
    BY <1>2, <1>13, <2>4, MarkedKeeps DEF Marked
  <2>7. NoCreateBut(tab, calls, tab.create) => NoCreateBut(t, c, 0)
    <3> SUFFICES ASSUME NoCreateBut(tab, calls, tab.create),
                        NEW i \in DOMAIN c, c[i].kind = "create",
                        c[i].composition = t.composition, ~Loose(c[i])
                 PROVE  FALSE
      BY DEF NoCreateBut
    <3>1. i \in DOMAIN calls /\ i = tab.create
      BY <2>4, <2>6 DEF NoCreateBut, Marked
    <3> QED
      BY <2>5, <3>1
  <2>8. x \in Working /\ x.e = e3 /\ x.t = t /\ x.c = c
    BY <1>9, <2>1, <2>6 DEF Working
  <2>9. TabInv(drafts, x.t, x.c)
    BY <1>2, <1>13, <2>4, <2>6, <2>7, <2>8 DEF TabInv, Marked
  <2>10. EditorInv(drafts, x)
    <3>1. FormInv(drafts, x.c, x.e)
      BY <1>2, <1>12, <2>4, <2>6, <2>8 DEF FormInv, Marked
    <3> QED
      BY <1>2, <1>12, <1>13, <2>6, <2>7, <2>8, <3>1 DEF EditorInv
  <2>11. SavingInv(x)
    BY <1>3, <1>4, <1>12, <2>4, <2>8 DEF SavingInv, Marked
  <2>12. Core(drafts, x)
    BY <1>2, <2>6, <2>8, <2>9, <2>10, <2>11 DEF Core
  <2> DEFINE r == Resume(x)
  <2>13. Core(drafts, r) /\ r.e.intent = "none" /\ Onwards(x, r)
    BY <1>4, <1>12, <2>8, <2>12, ResumeKeeps DEF Sayable
  <2>14. Become(m, r)
    BY <1>6 DEF x, c, k
  <2> HIDE DEF r
  <2>15. SendInv(drafts, r)
    BY <2>13 DEF SendInv, Calm
  <2>16. x.e.intent = "send" /\ ~x.e.beside => ~Beside(m)
    BY <1>1, <1>12, <2>8, ToldOfOthers
  <2>17. x.t.composition = tab.composition /\ (x.e.mounted => editors[m].mounted)
    BY <1>12, <1>13, <2>8
  <2>18. /\ \A i : NoCreateBut(tab, calls, i) => NoCreateBut(x.t, x.c, i)
         /\ NoCreateBut(tab, calls, tab.create) => NoCreateBut(x.t, x.c, x.t.create)
    BY <1>13, <2>6, <2>7, <2>8
  <2> QED
    BY <1>1, <2>6, <2>8, <2>13, <2>14, <2>15, <2>16, <2>17, <2>18, StepKeeps
<1> QED
  BY <1>3, <1>14, <1>15
\* The save was executed, for the draft d.
Answer(m, d) == LET call == calls[editors[m].saving.op] IN Done(call) /\ call.id = d

\* What becomes of the editor and of the tab when a save is answered.
Saved(e, f, known) ==
  /\ f.session # Compose \/ f.session = e.session
  /\ f.create \in {0, e.create}
  /\ f.create = e.create \/ f.session # Compose
  /\ f.mounted = e.mounted /\ f.autosave = e.autosave
  /\ f.saving = None /\ f.failure = e.failure
  /\ f.text = e.text /\ f.pending = e.pending
  /\ f.intent = e.intent /\ f.hasty = e.hasty
  /\ f.beside = e.beside /\ f.sending = e.sending
  /\ f.upload = e.upload /\ f.known = known

SavedTab(m, d, x) ==
  /\ x.t.composition = tab.composition
  /\ \A other \in Drafts : x.t.cache[other] \in {View(d), tab.cache[other]}
  /\ \/ /\ x.t.create = tab.create
        /\ x.t.stored[Compose] \in {None, tab.stored[Compose]}
     \/ /\ x.t.create = 0 /\ x.t.stored[Compose] = None
        /\ x.e.session # Compose
        /\ Replaced(m) /\ NoCreateBut(tab, calls, tab.create) => NoCreateBut(x.t, x.c, 0)

\* A save is answered with the draft d: the editor knows it, and goes on.
LEMMA SavedKeeps ==
  ASSUME IInv, NEW m \in Mounts, AtWork(m), editors[m].saving # None,
         NEW d \in Drafts, drafts[d] # None, Answer(m, d),
         NEW x \in Working, Become(m, DrainMore(x)), Marked(calls, x.c),
         SavedTab(m, d, x),
         Saved(editors[m], x.e, View(d)),
         ~x.e.dirty => Had(drafts, calls, x.e.text)
  PROVE  IInv'
<1>1. /\ SendInv(drafts, Now(m)) /\ EditorInv(drafts, Now(m)) /\ SavingInv(Now(m))
      /\ TabInv(drafts, tab, calls) /\ CommandsInv(drafts, calls) /\ drafts \in Rows
      /\ Now(m).e = editors[m] /\ Now(m).t = tab /\ Now(m).c = calls
      /\ FormInv(drafts, calls, editors[m]) /\ calls \in Seq(Calls)
  BY AtWorkIs
<1>2. editors[m].failure = None
  BY <1>1 DEF SavingInv
<1>3. /\ View(d) \in Known /\ View(d) # None /\ View(d).id = d
      /\ View(d).version = drafts[d].version /\ Seen(drafts, calls, View(d))
  BY ViewSeen
<1>4. /\ CommandsInv(drafts, x.c) /\ Onward(calls, x.c) /\ x.c \in Seq(Calls)
      /\ \A text : Had(drafts, calls, text) => Had(drafts, x.c, text)
      /\ \A known : Seen(drafts, calls, known) => Seen(drafts, x.c, known)
      /\ \A i : NoCreateBut(tab, calls, i) => NoCreateBut(x.t, x.c, i)
  <2>1. x.t.composition = tab.composition
    BY DEF SavedTab
  <2>2. \A i : NoCreateBut(tab, calls, i) => NoCreateBut(x.t, x.c, i)
    BY <2>1 DEF NoCreateBut, Marked
  <2>3. /\ CommandsInv(drafts, x.c) /\ Onward(calls, x.c)
        /\ \A text : Had(drafts, calls, text) => Had(drafts, x.c, text)
        /\ \A known : Seen(drafts, calls, known) => Seen(drafts, x.c, known)
    BY <1>1, MarkedKeeps
  <2> QED
    BY <2>2, <2>3 DEF Marked
<1>5. TabInv(drafts, x.t, x.c)
  <2>1. \A other \in Drafts :
          x.t.cache[other] # None => Seen(drafts, x.c, x.t.cache[other])
    BY <1>1, <1>3, <1>4 DEF TabInv, SavedTab
  <2>2. x.t.composition <= Len(x.c)
    BY <1>1 DEF TabInv, Marked, SavedTab
  <2>3. x.t.create # 0 => x.t.create \in DOMAIN x.c /\ x.c[x.t.create].kind = "create"
    BY <1>1 DEF TabInv, Marked, SavedTab
  <2>4. x.t.create # 0 \/ x.t.stored[Compose] # None => NoCreateBut(x.t, x.c, x.t.create)
    BY <1>1, <1>4 DEF TabInv, SavedTab
  <2> QED
    BY <2>1, <2>2, <2>3, <2>4 DEF TabInv
<1>6. EditorInv(drafts, x)
  <2>1. FormInv(drafts, x.c, x.e)
    <3>1. ~x.e.dirty => Had(drafts, x.c, x.e.text)
      BY <1>4
    <3> QED
      BY <1>1, <3>1 DEF FormInv, Marked, Saved
  <2>2. x.e.mounted /\ x.e.session = Compose =>
          NoCreateBut(x.t, x.c, x.t.create) /\ NoCreateBut(x.t, x.c, x.e.create)
    <3> SUFFICES ASSUME x.e.mounted, x.e.session = Compose
                 PROVE  NoCreateBut(x.t, x.c, x.t.create) /\ NoCreateBut(x.t, x.c, x.e.create)
      OBVIOUS
    <3>1. /\ x.t.create = tab.create /\ x.e.create = editors[m].create
          /\ editors[m].mounted /\ editors[m].session = Compose
      BY DEF Saved, SavedTab
    <3>2. NoCreateBut(tab, calls, tab.create) /\ NoCreateBut(tab, calls, editors[m].create)
      BY <1>1, <3>1 DEF EditorInv
    <3> QED
      BY <1>4, <3>1, <3>2
  <2>3. x.e.create # 0 => x.e.create \in DOMAIN x.c /\ x.c[x.e.create].kind = "create"
    BY <1>1 DEF EditorInv, Marked, Saved
  <2>4. ~x.e.mounted => ~x.e.autosave
    BY <1>1 DEF EditorInv, Saved
  <2> QED
    BY <1>3, <1>4, <2>1, <2>2, <2>3, <2>4 DEF EditorInv, Saved
<1>7. SavingInv(x)
  BY <1>2 DEF SavingInv, Saved
<1>8. Core(drafts, x)
  BY <1>1, <1>4, <1>5, <1>6, <1>7 DEF Core
<1>9. Calm(x.e) => IF x.e.pending # None THEN x.e.pending = x.e.text
                   ELSE /\ calls[editors[m].saving.op].text = x.e.text
                        /\ FreshSave(drafts, calls, editors[m].saving.op)
  <2>1. Calm(x.e) => Calm(editors[m])
    BY DEF Calm, Saved
  <2> QED
    BY <1>1, <2>1 DEF SendInv, Saved
<1>10. x.e.pending = None => Sayable(drafts, x)
  BY <1>3, <1>9 DEF Sayable, FreshSave, SaysIt, Saved, Answer
<1> DEFINE r == DrainMore(x)
<1>11. Core(drafts, r) /\ SendInv(drafts, r) /\ Onwards(x, r)
  BY <1>3, <1>8, <1>9, <1>10, DrainMoreKeeps DEF Saved
<1>12. Become(m, r)
  OBVIOUS
<1> HIDE DEF r
<1>13. x.e.intent = "send" /\ ~x.e.beside => ~Beside(m)
  BY ToldOfOthers DEF Saved
<1>14. Replaced(m) /\ NoCreateBut(tab, calls, tab.create) => NoCreateBut(x.t, x.c, x.t.create)
  BY <1>4 DEF SavedTab
<1>15. x.t.composition = tab.composition /\ (x.e.mounted => editors[m].mounted)
  BY DEF Saved, SavedTab
<1> QED
  BY <1>4, <1>15, <1>11, <1>12, <1>13, <1>14, StepKeeps
LEMMA SaveAnsweredKeeps == ASSUME IInv, NEW m \in Mounts, SaveAnswered(m) PROVE IInv'
<1> DEFINE op == editors[m].saving.op
           call == calls[op]
           d == call.id
           latest == IsLatest(editors[m].text, call)
           saved == [Now(m) EXCEPT !.e.known = View(d), !.e.saving = None, !.e.dirty = ~latest,
                                   !.t.cache[d] = View(d)]
           cleared == IF latest THEN Forgotten(saved) ELSE saved
           Moved(stored) == [stored EXCEPT ![Compose] = None, ![d] = editors[m].text]
           n == Crossed(m, op)
           created == [cleared EXCEPT !.e.create = 0, !.e.session = d,
                  !.t.create = 0, !.t.created = d, !.t.url = d,
                  !.t.stored = IF latest THEN @ ELSE Moved(@), !.c = n]
           x == IF call.kind = "update" THEN cleared ELSE created
<1>1. AtWork(m) /\ editors[m].saving # None
  BY Zenon DEF SaveAnswered
<1>2. /\ EditorInv(drafts, Now(m)) /\ SavingInv(Now(m))
      /\ TabInv(drafts, tab, calls) /\ CommandsInv(drafts, calls)
      /\ Now(m) \in Working /\ Now(m).e = editors[m] /\ Now(m).t = tab /\ Now(m).c = calls
      /\ editors[m] \in EditorStates /\ tab \in Tab /\ calls \in Seq(Calls)
  BY <1>1, AtWorkIs
<1>3. /\ op \in DOMAIN calls /\ call \in Calls /\ Done(call) /\ Live(d)
      /\ Become(m, DrainMore(x))
  <2>1. op \in DOMAIN calls /\ call \in Calls
    BY <1>1, <1>2 DEF SavingInv, OwnSave
  <2>2. Done(call) /\ Live(d)
    BY Zenon DEF SaveAnswered, Accepted, Repeated, Executed, Done
  <2>3. Become(m, DrainMore(x))
    BY Zenon DEF SaveAnswered
  <2> QED
    BY <2>1, <2>2, <2>3, Zenon
<1>4. /\ call.kind \in {"create", "update"} /\ editors[m].failure = None
      /\ call.kind = "create" => op = editors[m].create /\ editors[m].session = Compose
      /\ call.kind = "update" => editors[m].known # None
  BY <1>1, <1>2 DEF SavingInv, OwnSave
<1>5. /\ d \in Drafts /\ d # Compose /\ drafts[d] # None /\ View(d) \in Known
  <2>1. d # None
    BY <1>2, <1>3, Zenon DEF CommandsInv, CallInv
  <2>2. d \in Drafts
    BY <1>3, <2>1, Zenon DEF Calls
  <2>3. drafts[d] # None
    BY <1>3, Zenon DEF Live
  <2>4. d # Compose
    BY <2>2, DraftsAssumption
  <2> HIDE DEF d
  <2> QED
    BY <2>2, <2>3, <2>4, ViewSeen
<1>6. latest => Had(drafts, calls, editors[m].text)
  BY <1>3, Zenon DEF IsLatest, Had
<1>7. latest \in BOOLEAN /\ editors[m].text \in Texts
  BY <1>2 DEF IsLatest, EditorStates
<1>8. Answer(m, d)
  BY <1>3, Zenon DEF Answer
<1> DEFINE unsaved == ~latest
           e1 == [editors[m] EXCEPT !.known = View(d)]
           e2 == [e1 EXCEPT !.saving = None]
           e3 == [e2 EXCEPT !.dirty = unsaved]
           t1 == [tab EXCEPT !.cache[d] = View(d)]
           t2 == IF latest THEN [t1 EXCEPT !.stored[editors[m].session] = None] ELSE t1
<1>9. saved = [Now(m) EXCEPT !.e = e3, !.t = t1]
  <2> HIDE DEF latest, d
  <2> QED
    BY <1>2 DEF Working, EditorStates, Tab
<1> HIDE DEF latest, d, n
<1>10. e1 \in EditorStates /\ t1 \in Tab
  BY <1>2, <1>5 DEF EditorStates, Tab
<1>11. e2 \in EditorStates
  <2> HIDE DEF e1
  <2> QED
    BY <1>10 DEF EditorStates
<1>12. e3 \in EditorStates
  <2>1. unsaved \in BOOLEAN
    BY <1>7
  <2> HIDE DEF e2, unsaved
  <2> QED
    BY <1>11, <2>1 DEF EditorStates
<1>13. /\ e3.session = editors[m].session
       /\ e3.create = editors[m].create /\ e3.saving = None
       /\ e3.failure = editors[m].failure /\ e3.text = editors[m].text
       /\ e3.pending = editors[m].pending /\ e3.intent = editors[m].intent
       /\ e3.hasty = editors[m].hasty /\ e3.sending = editors[m].sending
       /\ e3.beside = editors[m].beside /\ e3.mounted = editors[m].mounted
       /\ e3.autosave = editors[m].autosave
       /\ e3.upload = editors[m].upload /\ e3.dirty = ~latest /\ e3.known = View(d)
  BY <1>2 DEF EditorStates
<1>14. saved \in Working /\ saved.e = e3 /\ saved.t = t1 /\ saved.c = calls
  <2> HIDE DEF saved, e3, t1
  <2> QED
    BY <1>2, <1>9, <1>10, <1>12 DEF Working
<1> HIDE DEF saved, e3
<1>15. t2 \in Tab
  <2> HIDE DEF t1
  <2> QED
    BY <1>2, <1>10 DEF Tab
<1>16. cleared \in Working /\ cleared.e = e3 /\ cleared.t = t2 /\ cleared.c = calls
  <2>1. CASE latest
    <3>1. Forgotten(saved) = [saved EXCEPT !.t = t2]
      <4> HIDE DEF t1
      <4> QED
        BY <1>10, <1>13, <1>14, <2>1 DEF Forgotten, Working
    <3> HIDE DEF t2
    <3> QED
      BY <1>14, <1>15, <2>1, <3>1 DEF Working
  <2>2. CASE ~latest
    BY <1>14, <2>2
  <2> QED
    BY <2>1, <2>2
<1>17. /\ t2.create = tab.create /\ t2.composition = tab.composition
       /\ t2.stored[Compose] \in {None, tab.stored[Compose]}
       /\ latest /\ editors[m].session = Compose => t2.stored[Compose] = None
       /\ \A other \in Drafts : t2.cache[other] \in {View(d), tab.cache[other]}
  BY <1>2 DEF Tab, Places
<1> HIDE DEF t2, cleared
<1>18. CASE call.kind = "update"
  <2>1. x = cleared
    BY <1>18
  <2> HIDE DEF x
  <2>2. Marked(calls, x.c)
    BY <1>2, <1>16, <2>1 DEF Marked
  <2>3. Saved(editors[m], x.e, View(d))
    BY <1>13, <1>16, <2>1 DEF Saved
  <2>4. SavedTab(m, d, x)
    BY <1>16, <1>17, <2>1 DEF SavedTab
  <2>5. ~x.e.dirty => Had(drafts, calls, x.e.text)
    BY <1>6, <1>7, <1>13, <1>16, <2>1
  <2>6. x \in Working
    BY <1>16, <2>1
  <2>7. Become(m, DrainMore(x))
    BY <1>3
  <2> QED
    BY <1>1, <1>5, <1>8, <2>2, <2>3, <2>4, <2>5, <2>6, <2>7, SavedKeeps
<1>19. CASE call.kind = "create"
  <2> DEFINE stored == IF latest THEN t2.stored ELSE Moved(t2.stored)
             f1 == [e3 EXCEPT !.create = 0]
             f == [f1 EXCEPT !.session = d]
             u1 == [t2 EXCEPT !.create = 0]
             u2 == [u1 EXCEPT !.created = d]
             u3 == [u2 EXCEPT !.url = d]
             u == [u3 EXCEPT !.stored = stored]
  <2>1. x = created /\ editors[m].session = Compose
    BY <1>4, <1>19
  <2>2. created = [cleared EXCEPT !.e = f, !.t = u, !.c = n]
    BY <1>12, <1>15, <1>16 DEF Working, EditorStates, Tab
  <2>3. stored \in [Places -> Texts \cup {None}] /\ stored[Compose] = None
    <3>1. t2.stored \in [Places -> Texts \cup {None}] /\ d \in Places /\ Compose \in Places
      BY <1>5, <1>15 DEF Tab, Places
    <3> QED
      BY <1>5, <1>7, <1>17, <2>1, <3>1
  <2> HIDE DEF stored, created
  <2>4. f1 \in EditorStates
    BY <1>12 DEF EditorStates
  <2>5. f \in EditorStates
    <3> HIDE DEF f1
    <3> QED
      BY <1>5, <2>4 DEF EditorStates, Places
  <2>6. u1 \in Tab
    BY <1>15 DEF Tab
  <2>7. u2 \in Tab
    <3> HIDE DEF u1
    <3> QED
      BY <1>5, <2>6 DEF Tab
  <2>8. u3 \in Tab
    <3> HIDE DEF u2
    <3> QED
      BY <1>5, <2>7 DEF Tab, Urls, Places
  <2>9. u \in Tab
    <3> HIDE DEF u3
    <3> QED
      BY <2>3, <2>8 DEF Tab
  <2>10. /\ f.session = d /\ f.create = 0 /\ f.saving = None
         /\ f.failure = editors[m].failure /\ f.text = editors[m].text
         /\ f.pending = editors[m].pending /\ f.intent = editors[m].intent
         /\ f.hasty = editors[m].hasty /\ f.sending = editors[m].sending
         /\ f.beside = editors[m].beside /\ f.mounted = editors[m].mounted
         /\ f.autosave = editors[m].autosave
         /\ f.upload = editors[m].upload /\ f.dirty = ~latest /\ f.known = View(d)
    BY <1>12, <1>13 DEF EditorStates
  <2>11. /\ u.create = 0 /\ u.composition = t2.composition /\ u.cache = t2.cache
         /\ u.stored = stored
    BY <1>15 DEF Tab
  <2>12. /\ Marked(calls, n)
         /\ op # tab.create /\ tab.create \in DOMAIN calls => Loose(n[tab.create])
         /\ Replaced(m) => Loose(n[op])
    BY <1>2, <1>3, CrossedIs DEF n
  <2>13. n \in Seq(Calls)
    BY <2>12 DEF Marked
  <2>14. x \in Working /\ x.e = f /\ x.t = u /\ x.c = n
    <3> HIDE DEF x, f, u
    <3> QED
      BY <1>16, <2>1, <2>2, <2>5, <2>9, <2>13 DEF Working
  <2>15. Become(m, DrainMore(x))
    BY <1>3
  <2> HIDE DEF x, f, u
  <2>16. Saved(editors[m], x.e, View(d))
    BY <1>5, <2>10, <2>14 DEF Saved
  <2>17. Replaced(m) /\ NoCreateBut(tab, calls, tab.create) => NoCreateBut(x.t, x.c, 0)
    <3> SUFFICES ASSUME Replaced(m), NoCreateBut(tab, calls, tab.create),
                        NEW i \in DOMAIN n, n[i].kind = "create",
                        n[i].composition = tab.composition, ~Loose(n[i])
                 PROVE  FALSE
      BY <1>17, <2>11, <2>14 DEF NoCreateBut
    <3>1. i \in DOMAIN calls /\ i = tab.create
      BY <2>12 DEF NoCreateBut, Marked
    <3> QED
      BY <2>12, <3>1
  <2>18. SavedTab(m, d, x)
    BY <1>5, <1>17, <2>3, <2>10, <2>11, <2>14, <2>17 DEF SavedTab
  <2>19. ~x.e.dirty => Had(drafts, calls, x.e.text)
    BY <1>6, <1>7, <2>10, <2>14
  <2>20. Marked(calls, x.c)
    BY <2>12, <2>14
  <2> QED
    BY <1>1, <1>5, <1>8, <2>14, <2>15, <2>16, <2>18, <2>19, <2>20, SavedKeeps
<1> QED
  BY <1>4, <1>18, <1>19
-----------------------------------------------------------------------------
(* The tab goes elsewhere, and another editor is opened. *)

\* What the invariant says while there is no editor, or whatever it is.
LEMMA NowParts ==
  ASSUME IInv
  PROVE  /\ CommandsInv(drafts, calls) /\ TabInv(drafts, tab, calls)
         /\ drafts \in Rows /\ calls \in Seq(Calls) /\ tab \in Tab
         /\ puts \subseteq Files \X Drafts
         /\ editors \in [Mounts -> EditorStates \cup {None}]
  BY DEF IInv, TypeOK, Rows

LEMMA NavigateKeeps == ASSUME IInv, NEW url \in Urls, Navigate(url) PROVE IInv'
<1>1. /\ tab' = [tab EXCEPT !.url = url] /\ tab \in Tab
      /\ UNCHANGED <<drafts, calls, puts, editors>>
  BY NowParts DEF Navigate
<1>2. /\ tab' \in Tab /\ tab'.create = tab.create /\ tab'.composition = tab.composition
      /\ tab'.cache = tab.cache /\ tab'.stored = tab.stored
  BY <1>1 DEF Tab
<1>3. TypeOK'
  BY <1>1, <1>2 DEF IInv, TypeOK
<1>4. TabInv(drafts, tab', calls)
  BY <1>2, NowParts DEF TabInv, NoCreateBut
<1>5. ASSUME NEW m \in Mounts, AtWork(m)
      PROVE  EditorInv(drafts, Now(m)') /\ SavingInv(Now(m)') /\ SendInv(drafts, Now(m)')
  <2>1. EditorInv(drafts, Now(m)) /\ SavingInv(Now(m)) /\ SendInv(drafts, Now(m))
    BY <1>5, AtWorkIs
  <2>2. /\ Now(m)'.e = Now(m).e /\ Now(m)'.t = tab' /\ Now(m)'.c = Now(m).c
        /\ Now(m).t = tab
    BY <1>1 DEF Now
  <2>3. EditorInv(drafts, Now(m)')
    BY <1>2, <2>1, <2>2 DEF EditorInv, NoCreateBut
  <2>4. SavingInv(Now(m)') /\ SendInv(drafts, Now(m)')
    BY <2>1, <2>2 DEF SavingInv, SendInv, OwnSave
  <2> QED
    BY <2>3, <2>4
<1>6. \A m \in Mounts : WorkInv(drafts, Now(m)')
  <2>1. \A m \in Mounts : Now(m)'.e = editors[m]
    BY <1>1 DEF Now
  <2> QED
    BY <1>5, <2>1 DEF WorkInv, AtWork
<1>7. AloneInv'
  BY <1>1 DEF IInv, AloneInv, AtWork
<1> QED
  BY <1>1, <1>3, <1>4, <1>6, <1>7, NowParts DEF IInv

\* All editors and what is in the memory of the tab are gone.
LEMMA ReloadKeeps == ASSUME IInv, Reload PROVE IInv'
<1> DEFINE none == [d \in Drafts |-> None]
           t1 == [tab EXCEPT !.created = None]
           t == [t1 EXCEPT !.cache = none]
<1>1. /\ editors' = [m \in Mounts |-> None] /\ tab' = t /\ UNCHANGED <<drafts, calls, puts>>
      /\ tab \in Tab
  <2>1. tab \in Tab
    BY NowParts
  <2>2. [tab EXCEPT !.created = None, !.cache = none] = t
    BY <2>1 DEF Tab
  <2> QED
    BY <2>1, <2>2 DEF Reload
<1>2. none \in [Drafts -> Known \cup {None}] /\ \A d \in Drafts : none[d] = None
  OBVIOUS
<1> HIDE DEF none
<1>3. t1 \in Tab
  BY <1>1 DEF Tab
<1>4. t \in Tab
  <2> HIDE DEF t1
  <2> QED
    BY <1>2, <1>3 DEF Tab
<1>5. /\ t.create = tab.create /\ t.composition = tab.composition
      /\ t.stored = tab.stored /\ t.cache = none
  BY <1>1 DEF Tab
<1> HIDE DEF t
<1>6. editors' \in [Mounts -> EditorStates \cup {None}] /\ \A m \in Mounts : editors'[m] = None
  BY <1>1
<1>7. TypeOK'
  BY <1>1, <1>4, <1>6 DEF IInv, TypeOK
<1>8. TabInv(drafts, tab', calls)
  BY <1>1, <1>2, <1>5, NowParts DEF TabInv, NoCreateBut
<1>9. \A m \in Mounts : WorkInv(drafts, Now(m)')
  BY <1>6 DEF WorkInv, Now
<1>10. AloneInv'
  BY <1>6 DEF AloneInv, AtWork
<1> QED
  BY <1>1, <1>7, <1>8, <1>9, <1>10, NowParts DEF IInv

\* An editor that was left is told of the next one.
LEMMA ToldIs ==
  ASSUME NEW e \in EditorStates, NEW f, f = [e EXCEPT !.beside = e.intent = "send"]
  PROVE  f \in EditorStates /\ Like(e, f) /\ (e.intent = "send" => f.beside) /\ ~Calm(f)
<1> DEFINE told == e.intent = "send"
<1>1. f = [e EXCEPT !.beside = told] /\ told \in BOOLEAN
  OBVIOUS
<1> HIDE DEF told
<1>2. f \in EditorStates
  BY ONLY <1>1, e \in EditorStates DEF EditorStates
<1>3. /\ f.known = e.known /\ f.session = e.session /\ f.create = e.create
      /\ f.mounted = e.mounted /\ f.autosave = e.autosave
      /\ f.saving = e.saving /\ f.failure = e.failure
      /\ f.text = e.text /\ f.sending = e.sending /\ f.intent = e.intent
      /\ f.upload = e.upload /\ f.dirty = e.dirty
      /\ f.beside = told
  BY ONLY <1>1, e \in EditorStates DEF EditorStates
<1>4. Like(e, f)
  BY ONLY <1>3 DEF Like
<1>5. e.intent = "send" => f.beside
  BY ONLY <1>3 DEF told
<1>6. ~Calm(f)
  BY ONLY <1>3, <1>5 DEF Calm
<1> QED
  BY ONLY <1>2, <1>4, <1>5, <1>6

\* The next editor works beside those that were left.
LEMMA MountKeeps ==
  ASSUME IInv, NEW m \in Mounts, Vacant(m), NEW e \in EditorStates, Mounted(m, e),
         NEW t \in Tab, tab' = t, UNCHANGED <<drafts, calls, puts>>,
         TabInv(drafts, t, calls), e.saving = None, e.failure = None, e.intent = "none",
         EditorInv(drafts, [e |-> e, t |-> t, c |-> calls])
  PROVE  IInv'
<1>1. \A k \in Mounts : ~Open(k)
  BY DEF Vacant
<1>2. /\ editors \in [Mounts -> EditorStates \cup {None}] /\ calls \in Seq(Calls)
  BY NowParts
<1>3. editors'[m] = e
  BY DEF Mounted
<1>4. ASSUME NEW k \in Mounts \ {m}, AtWork(k)
      PROVE  /\ editors'[k] \in EditorStates
             /\ Like(editors[k], editors'[k]) /\ ~Calm(editors'[k])
             /\ ~editors[k].mounted
             /\ editors[k].intent = "send" => editors'[k].beside
  <2>1. editors'[k] = [editors[k] EXCEPT !.beside = editors[k].intent = "send"]
    BY <1>4 DEF Mounted
  <2>2. editors[k] \in EditorStates
    BY <1>2, <1>4 DEF AtWork
  <2>3. ~editors[k].mounted
    BY <1>1, <1>4 DEF Open
  <2>4. editors[k].intent = "send" => editors'[k].beside
    BY <2>1, <2>2 DEF EditorStates
  <2> QED
    BY <2>1, <2>2, <2>3, <2>4, ToldIs
<1>5. \A k \in Mounts \ {m} : ~AtWork(k) => editors'[k] = None
  BY DEF Mounted
<1>6. TypeOK'
  <2>1. \A k \in Mounts : editors'[k] \in EditorStates \cup {None}
    BY <1>3, <1>4, <1>5
  <2>2. editors' \in [Mounts -> EditorStates \cup {None}]
    BY <2>1 DEF Mounted
  <2> QED
    BY <2>2 DEF IInv, TypeOK
<1>7. WorkInv(drafts, Now(m)')
  <2>1. Now(m)' = [e |-> e, t |-> t, c |-> calls]
    BY <1>3 DEF Now
  <2> DEFINE z == [e |-> e, t |-> t, c |-> calls]
  <2>2. SavingInv(z) /\ SendInv(drafts, z)
    BY DEF SavingInv, SendInv, Calm
  <2> HIDE DEF z
  <2>3. EditorInv(drafts, z) /\ Now(m)' = z
    BY <2>1 DEF z
  <2> QED
    BY <2>2, <2>3 DEF WorkInv
<1>8. ASSUME NEW k \in Mounts \ {m}, AtWork(k) PROVE WorkInv(drafts, Now(k)')
  <2> DEFINE z == Now(k)'
  <2>1. z.e = editors'[k] /\ z.t = t /\ z.c = calls
    BY DEF Now
  <2>2. /\ EditorInv(drafts, Now(k)) /\ SavingInv(Now(k))
        /\ Now(k).e = editors[k] /\ Now(k).c = calls
    BY <1>8, AtWorkIs
  <2>3. Onward(calls, calls)
    BY <1>2 DEF Onward
  <2>4. Like(editors[k], editors'[k]) /\ ~Calm(editors'[k]) /\ ~editors[k].mounted
    BY <1>4, <1>8
  <2> HIDE DEF z
  <2>5. EditorInv(drafts, z) /\ SavingInv(z)
    BY <1>2, <2>1, <2>2, <2>3, <2>4, OtherKeeps
  <2>6. SendInv(drafts, z)
    BY <2>1, <2>4 DEF SendInv
  <2> QED
    BY <2>5, <2>6 DEF WorkInv, z
<1>9. \A k \in Mounts \ {m} : ~AtWork(k) => WorkInv(drafts, Now(k)')
  BY <1>5 DEF WorkInv, Now
<1>10. \A k \in Mounts : WorkInv(drafts, Now(k)')
  BY <1>7, <1>8, <1>9
<1>11. AloneInv'
  <2>1. \A k \in Mounts \ {m} : AtWork(k)' =>
          AtWork(k) /\ ~editors'[k].mounted /\ (editors'[k].intent = "send" => editors'[k].beside)
    <3> TAKE k \in Mounts \ {m}
    <3>1. AtWork(k)' => AtWork(k)
      BY <1>5 DEF AtWork
    <3>2. AtWork(k) => /\ editors'[k].mounted = editors[k].mounted
                       /\ editors'[k].intent = editors[k].intent
      BY <1>4 DEF Like
    <3> QED
      BY <1>4, <3>1, <3>2
  <2> QED
    BY <1>3, <2>1 DEF AloneInv
<1> QED
  BY <1>6, <1>10, <1>11, NowParts DEF IInv
\* The editor that is opened.
LEMMA NewEditorIs ==
  ASSUME tab.url \in Places, NEW known \in Known \cup {None}, NEW text \in Texts,
         NEW recovered \in BOOLEAN, NEW create \in Nat,
         NEW e, e = NewEditor(known, text, recovered, create)
  PROVE  /\ e \in EditorStates /\ e.mounted
         /\ e.session = tab.url /\ e.text = text /\ e.known = known /\ e.create = create
         /\ e.saving = None /\ e.failure = None /\ e.sending = None
         /\ e.intent = "none" /\ e.upload = None /\ e.dirty = recovered
<1>1. Key \in Places
  BY DEF Key, Places
<1> QED
  BY <1>1 DEF NewEditor, EditorStates

LEMMA MountComposeKeeps == ASSUME IInv, NEW m \in Mounts, MountCompose(m) PROVE IInv'
<1> DEFINE recovered == tab.stored[Compose] # None \/ tab.create # 0
           text == CASE tab.stored[Compose] # None -> tab.stored[Compose]
                     [] tab.stored[Compose] = None /\ tab.create # 0 -> calls[tab.create].text
                     [] OTHER -> Empty
           composition == IF recovered THEN tab.composition ELSE Len(calls)
           e == NewEditor(None, text, recovered, tab.create)
           t == [tab EXCEPT !.composition = composition]
<1>1. /\ tab.url = Compose /\ Vacant(m) /\ Mounted(m, e)
      /\ tab' = t /\ UNCHANGED <<drafts, calls, puts>>
  <2> HIDE DEF e, recovered
  <2> QED
    BY DEF MountCompose, e, recovered
<1>2. /\ CommandsInv(drafts, calls) /\ TabInv(drafts, tab, calls)
      /\ drafts \in Rows /\ calls \in Seq(Calls) /\ tab \in Tab
  BY NowParts
<1>3. /\ tab.create \in Nat /\ tab.composition \in Nat /\ Len(calls) \in Nat
      /\ tab.stored[Compose] \in Texts \cup {None}
      /\ tab.create # 0 => tab.create \in DOMAIN calls /\ calls[tab.create].kind = "create"
      /\ tab.composition <= Len(calls)
  BY <1>2 DEF Tab, Places, TabInv
<1>4. text \in Texts
  <2>1. tab.create # 0 => calls[tab.create].text \in Texts
    BY <1>2, <1>3 DEF Calls
  <2> QED
    BY <1>3, <2>1, EmptyAssumption
<1>5. recovered \in BOOLEAN /\ (~recovered => text = Empty /\ tab.create = 0)
  OBVIOUS
<1>6. composition \in Nat /\ composition <= Len(calls)
  BY <1>3
<1>7. t \in Tab
  <2> HIDE DEF composition
  <2> QED
    BY <1>2, <1>6 DEF Tab
<1>8. /\ t.create = tab.create /\ t.composition = composition
      /\ t.cache = tab.cache /\ t.stored = tab.stored
  BY <1>2 DEF Tab
<1>9. NoCreateBut(t, calls, tab.create)
  <2>1. CASE recovered
    BY <1>2, <1>8, <2>1 DEF TabInv, NoCreateBut
  <2>2. CASE ~recovered
    <3>1. \A i \in DOMAIN calls : calls[i].composition < i /\ i \in 1 .. Len(calls)
      BY <1>2 DEF CommandsInv, CallInv
    <3>2. \A i \in DOMAIN calls : calls[i].composition \in Nat
      BY <1>2 DEF Calls
    <3>3. \A i \in DOMAIN calls : calls[i].composition # Len(calls)
      BY <1>3, <3>1, <3>2
    <3> QED
      BY <1>8, <2>2, <3>3 DEF NoCreateBut
  <2> QED
    BY <2>1, <2>2
<1> HIDE DEF text, recovered, composition, t
<1>10. /\ e \in EditorStates
       /\ e.session = Compose /\ e.text = text /\ e.known = None /\ e.create = tab.create
       /\ e.saving = None /\ e.failure = None /\ e.sending = None /\ e.mounted
       /\ e.intent = "none" /\ e.upload = None /\ e.dirty = recovered
  <2>1. tab.url \in Places /\ tab.url = Compose
    BY <1>1 DEF Places
  <2>2. e = NewEditor(None, text, recovered, tab.create)
    OBVIOUS
  <2> HIDE DEF e
  <2>3. None \in Known \cup {None} /\ tab.create \in Nat /\ recovered \in BOOLEAN
    BY <1>3, <1>5
  <2> QED
    BY <1>4, <2>1, <2>2, <2>3, NewEditorIs
<1> HIDE DEF e
<1>11. TabInv(drafts, t, calls)
  BY <1>2, <1>6, <1>8, <1>9 DEF TabInv
<1>12. EditorInv(drafts, [e |-> e, t |-> t, c |-> calls])
  <2>1. FormInv(drafts, calls, e)
    BY <1>5, <1>10 DEF FormInv, Had
  <2> DEFINE z == [e |-> e, t |-> t, c |-> calls]
  <2>2. z.e = e /\ z.t = t /\ z.c = calls
    OBVIOUS
  <2> HIDE DEF z
  <2>3. EditorInv(drafts, z)
    BY <1>3, <1>8, <1>9, <1>10, <2>1, <2>2 DEF EditorInv
  <2> QED
    BY <2>3 DEF z
<1> QED
  BY <1>1, <1>7, <1>10, <1>11, <1>12, MountKeeps

LEMMA MountDraftKeeps == ASSUME IInv, NEW m \in Mounts, MountDraft(m) PROVE IInv'
<1> DEFINE d == tab.url
           recovered == tab.stored[d] # None
<1>1. /\ CommandsInv(drafts, calls) /\ TabInv(drafts, tab, calls)
      /\ drafts \in Rows /\ calls \in Seq(Calls) /\ tab \in Tab
  BY NowParts
<1>2. d \in Drafts /\ d # Compose /\ Vacant(m) /\ UNCHANGED <<drafts, calls, puts>>
  BY DraftsAssumption DEF MountDraft
<1>3. PICK known \in {tab.cache[d]} \cup {View(y) : y \in {z \in {d} : Live(z)}} :
        /\ known # None
        /\ Mounted(m, NewEditor(known,
                        IF tab.stored[d] = None THEN known.text ELSE tab.stored[d],
                        recovered, 0))
        /\ tab' = [tab EXCEPT !.cache[d] = known]
  BY DEF MountDraft
<1>4. known \in Known /\ Seen(drafts, calls, known)
  <2>1. CASE known = tab.cache[d]
    BY <1>1, <1>2, <1>3, <2>1 DEF Tab, TabInv
  <2>2. CASE known = View(d) /\ Live(d)
    BY <1>2, <2>2, ViewSeen DEF Live
  <2> QED
    BY <1>3, <2>1, <2>2
<1> DEFINE text == IF tab.stored[d] = None THEN known.text ELSE tab.stored[d]
           e == NewEditor(known, text, recovered, 0)
           t == [tab EXCEPT !.cache[d] = known]
<1>5. Mounted(m, e) /\ tab' = t
  BY <1>3
<1>6. text \in Texts /\ recovered \in BOOLEAN /\ (recovered \/ text = known.text)
  <2>1. tab.stored[d] \in Texts \cup {None} /\ known.text \in Texts
    BY <1>1, <1>2, <1>4 DEF Tab, Places, Known
  <2> QED
    BY <2>1
<1>7. t \in Tab
  BY <1>1, <1>2, <1>4 DEF Tab
<1>8. /\ t.create = tab.create /\ t.composition = tab.composition
      /\ t.stored = tab.stored
      /\ \A other \in Drafts : t.cache[other] \in {known, tab.cache[other]}
  BY <1>1 DEF Tab
<1> HIDE DEF text, recovered, t
<1>9. /\ e \in EditorStates
      /\ e.session = d /\ e.text = text /\ e.known = known /\ e.create = 0
      /\ e.saving = None /\ e.failure = None /\ e.sending = None /\ e.mounted
      /\ e.intent = "none" /\ e.upload = None /\ e.dirty = recovered
  <2>1. tab.url \in Places
    BY <1>2 DEF Places
  <2>2. e = NewEditor(known, text, recovered, 0) /\ 0 \in Nat
    OBVIOUS
  <2> HIDE DEF e
  <2> QED
    BY <1>4, <1>6, <2>1, <2>2, NewEditorIs
<1> HIDE DEF e, d
<1>10. TabInv(drafts, t, calls)
  BY <1>1, <1>4, <1>8 DEF TabInv, NoCreateBut
<1>11. EditorInv(drafts, [e |-> e, t |-> t, c |-> calls])
  <2>1. FormInv(drafts, calls, e)
    BY <1>4, <1>6, <1>9 DEF FormInv, Seen
  <2> DEFINE z == [e |-> e, t |-> t, c |-> calls]
  <2>2. z.e = e /\ z.t = t /\ z.c = calls
    OBVIOUS
  <2> HIDE DEF z
  <2>3. EditorInv(drafts, z)
    BY <1>2, <1>3, <1>4, <1>9, <2>1, <2>2 DEF EditorInv
  <2> QED
    BY <2>3 DEF z
<1> QED
  BY <1>2, <1>5, <1>7, <1>9, <1>10, <1>11, MountKeeps
-----------------------------------------------------------------------------
(* The steps of the mailbox. *)

\* A command is executed.
Answered(c, op, id, receipt) == [c EXCEPT ![op].id = id, ![op].receipt = receipt]

LEMMA AnsweredIs ==
  ASSUME NEW c \in Seq(Calls), NEW op \in DOMAIN c, NEW id \in Drafts,
         NEW receipt \in SUBSET Files, NEW n, n = Answered(c, op, id, receipt)
  PROVE  /\ n \in Seq(Calls) /\ DOMAIN n = DOMAIN c /\ Len(n) = Len(c)
         /\ \A i \in DOMAIN c :
              /\ n[i].kind = c[i].kind /\ n[i].text = c[i].text
              /\ n[i].version = c[i].version
              /\ n[i].composition = c[i].composition /\ n[i].calm = c[i].calm
              /\ Loose(n[i]) = Loose(c[i])
         /\ \A i \in DOMAIN c \ {op} : n[i].id = c[i].id /\ Done(n[i]) = Done(c[i])
         /\ n[op].id = id /\ Done(n[op])
<1> DEFINE call1 == [c[op] EXCEPT !.id = id]
           call == [call1 EXCEPT !.receipt = receipt]
<1>1. c[op] \in Calls /\ \A i \in DOMAIN c : c[i] \in Calls
  OBVIOUS
<1>2. call1 \in Calls /\ call1.id = id
      /\ call1.kind = c[op].kind /\ call1.text = c[op].text
      /\ call1.version = c[op].version /\ Loose(call1) = Loose(c[op])
      /\ call1.composition = c[op].composition /\ call1.calm = c[op].calm
  BY <1>1 DEF Calls, Loose
<1>3. n = [c EXCEPT ![op] = call]
  BY <1>1 DEF Answered
<1>4. call \in Calls /\ call.id = id /\ call.receipt = receipt
      /\ call.kind = c[op].kind /\ call.text = c[op].text
      /\ call.version = c[op].version /\ Loose(call) = Loose(c[op])
      /\ call.composition = c[op].composition /\ call.calm = c[op].calm
  <2> HIDE DEF call1
  <2> QED
    BY <1>2 DEF Calls, Loose
<1> HIDE DEF call
<1>5. n \in Seq(Calls) /\ DOMAIN n = DOMAIN c /\ Len(n) = Len(c)
  <2>1. c \in [1 .. Len(c) -> Calls] /\ Len(c) \in Nat
    OBVIOUS
  <2>2. n \in [1 .. Len(c) -> Calls]
    BY <1>3, <1>4, <2>1
  <2>3. n \in Seq(Calls)
    BY <2>1, <2>2
  <2> QED
    BY <2>1, <2>2, <2>3
<1>6. n[op] = call /\ \A i \in DOMAIN c \ {op} : n[i] = c[i]
  BY <1>3
<1>7. Done(n[op])
  BY <1>4, <1>6, NoneAssumption DEF Done
<1>8. \A i \in DOMAIN c :
              /\ n[i].kind = c[i].kind /\ n[i].text = c[i].text
              /\ n[i].version = c[i].version
              /\ n[i].composition = c[i].composition /\ n[i].calm = c[i].calm
              /\ Loose(n[i]) = Loose(c[i])
  BY <1>4, <1>6
<1> QED
  BY <1>4, <1>5, <1>6, <1>7, <1>8

\* What a step of the mailbox has to keep.
LEMMA MailboxKeeps ==
  ASSUME IInv, NEW ds \in Rows, NEW c \in Seq(Calls), drafts' = ds, calls' = c,
         UNCHANGED <<puts, tab, editors>>,
         DOMAIN c = DOMAIN calls, Len(c) = Len(calls),
         \A i \in DOMAIN calls :
           /\ c[i].kind = calls[i].kind /\ c[i].text = calls[i].text
           /\ c[i].composition = calls[i].composition
           /\ Loose(c[i]) = Loose(calls[i]),
         CommandsInv(ds, c),
         \A known \in Known : Seen(drafts, calls, known) => Seen(ds, c, known),
         \A text : Had(drafts, calls, text) => Had(ds, c, text),
         \A op \in DOMAIN calls :
           calls[op].kind # "send" /\ FreshSave(drafts, calls, op) => FreshSave(ds, c, op)
  PROVE  IInv'
<1>1. TypeOK'
  BY DEF IInv, TypeOK, Rows
<1>2. \A op : NoCreateBut(tab, calls, op) => NoCreateBut(tab, c, op)
  BY DEF NoCreateBut
<1>3. TabInv(ds, tab, c)
  <2>1. tab \in Tab /\ TabInv(drafts, tab, calls)
    BY NowParts
  <2>2. \A d \in Drafts : tab.cache[d] # None => tab.cache[d] \in Known
    BY <2>1 DEF Tab
  <2> QED
    BY <1>2, <2>1, <2>2 DEF TabInv
<1>4. ASSUME NEW m \in Mounts, AtWork(m)
      PROVE  EditorInv(ds, Now(m)') /\ SavingInv(Now(m)') /\ SendInv(ds, Now(m)')
  <2>1. /\ EditorInv(drafts, Now(m)) /\ SavingInv(Now(m)) /\ SendInv(drafts, Now(m))
        /\ FormInv(drafts, calls, editors[m])
        /\ Now(m).e = editors[m] /\ Now(m).t = tab /\ Now(m).c = calls
        /\ editors[m] \in EditorStates
    BY <1>4, AtWorkIs
  <2>2. Now(m)'.e = editors[m] /\ Now(m)'.t = tab /\ Now(m)'.c = c
    BY DEF Now
  <2>3. editors[m].known # None => editors[m].known \in Known
    BY <2>1 DEF EditorStates
  <2>4. FormInv(ds, c, editors[m])
    BY <2>1 DEF FormInv
  <2>5. EditorInv(ds, Now(m)')
    BY <1>2, <2>1, <2>2, <2>3, <2>4 DEF EditorInv
  <2>6. SavingInv(Now(m)')
    BY <2>1, <2>2 DEF SavingInv, OwnSave
  <2>7. editors[m].saving # None =>
          editors[m].saving.op \in DOMAIN calls /\ calls[editors[m].saving.op].kind # "send"
    BY <2>1 DEF SavingInv, OwnSave
  <2>8. SendInv(ds, Now(m)')
    BY <2>1, <2>2, <2>7 DEF SendInv
  <2> QED
    BY <2>5, <2>6, <2>8
<1>5. \A m \in Mounts : WorkInv(drafts, Now(m))'
  <2>1. \A m \in Mounts : Now(m)'.e = editors[m]
    BY DEF Now
  <2> QED
    BY <1>4, <2>1 DEF WorkInv, AtWork
<1>6. AloneInv'
  BY DEF IInv, AloneInv, AtWork
<1> QED
  BY <1>1, <1>3, <1>5, <1>6 DEF IInv

\* The same commands, some of them executed.
Further(c, k) ==
  /\ DOMAIN k = DOMAIN c
  /\ \A i \in DOMAIN c :
       /\ k[i].kind = c[i].kind /\ k[i].text = c[i].text /\ k[i].id = c[i].id
       /\ k[i].version = c[i].version /\ k[i].calm = c[i].calm
       /\ k[i].composition = c[i].composition
       /\ Done(c[i]) => Done(k[i])

\* What a draft says next is what it said, what another tab saves, or what an update
\* of its present version saves.
SaysNext(ds, c, d, row) ==
  \/ row.text = ds[d].text
  \/ row.text \in row.elsewhere
  \/ \E i \in DOMAIN c : /\ c[i].kind = "update" /\ ~Done(c[i])
                         /\ c[i].id = d /\ c[i].version = ds[d].version

\* A live draft moves on to its next version.
LEMMA RowMoves ==
  ASSUME NEW ds \in Rows, NEW c \in Seq(Calls), CommandsInv(ds, c),
         NEW d \in Drafts, ds[d] # None, ds[d].live, NEW row \in DraftRows,
         row.version = ds[d].version + 1, ds[d].elsewhere \subseteq row.elsewhere,
         NEW n, n = [ds EXCEPT ![d] = row],
         NEW k \in Seq(Calls), Further(c, k), SaysNext(ds, c, d, row)
  PROVE  /\ n \in Rows
         /\ \A text : Had(ds, c, text) => Had(n, k, text)
         /\ \A known \in Known : Seen(ds, c, known) => Seen(n, k, known)
         /\ \A i \in DOMAIN c : Done(k[i]) = Done(c[i]) =>
              /\ CallInv(n, i, k[i])
              /\ FreshSave(ds, c, i) => FreshSave(n, k, i)
         /\ Had(n, k, row.text) => RowsHad(n, k)
<1>1. /\ n \in Rows /\ n[d] = row /\ row # None
      /\ \A other \in Drafts \ {d} : n[other] = ds[other]
  <2>1. row # None
    BY NoneAssumption
  <2> QED
    BY <2>1 DEF Rows
<1>2. ds[d] \in DraftRows /\ ds[d].version \in Nat
  <2>1. ds[d] \in DraftRows
    BY DEF Rows
  <2> QED
    BY <2>1 DEF DraftRows
<1>3. /\ DOMAIN k = DOMAIN c
      /\ \A i \in DOMAIN c :
           /\ k[i].kind = c[i].kind /\ k[i].text = c[i].text /\ k[i].id = c[i].id
           /\ k[i].version = c[i].version /\ k[i].calm = c[i].calm
           /\ k[i].composition = c[i].composition
           /\ Done(c[i]) => Done(k[i])
  BY DEF Further
<1>4. \A text : Had(ds, c, text) => Had(n, k, text)
  BY <1>1, <1>3 DEF Had
<1>5. \A known \in Known : Seen(ds, c, known) => Seen(n, k, known)
  <2> TAKE known \in Known
  <2>1. known.id \in Drafts /\ known.version \in Nat
    BY DEF Known
  <2>2. CASE known.id = d
    <3> SUFFICES ASSUME Seen(ds, c, known) PROVE Seen(n, k, known)
      OBVIOUS
    <3>1. known.version <= ds[d].version /\ Had(ds, c, known.text)
      BY <2>2 DEF Seen
    <3>2. known.version <= n[d].version /\ known.version # n[d].version
      BY <1>1, <1>2, <2>1, <3>1
    <3> QED
      BY <1>1, <1>4, <2>2, <3>1, <3>2 DEF Seen
  <2>3. CASE known.id # d
    BY <1>1, <1>4, <2>1, <2>3 DEF Seen
  <2> QED
    BY <2>2, <2>3
<1>6. ASSUME NEW i \in DOMAIN c, Done(k[i]) = Done(c[i]) PROVE CallInv(n, i, k[i])
  <2>1. CallInv(ds, i, c[i])
    BY DEF CommandsInv
  <2>2. c[i].id \in Drafts \cup {None} /\ c[i].version \in Nat
    BY DEF Calls
  <2>3. CASE c[i].id = d
    <3>1. d # None /\ c[i].version <= ds[d].version
      BY <2>1, <2>3, NoneAssumption DEF CallInv
    <3>2. c[i].version <= n[d].version /\ c[i].version # n[d].version
      BY <1>1, <1>2, <2>2, <3>1
    <3>3. ~(c[i].kind = "send" /\ c[i].calm /\ Done(c[i]))
      BY <2>1, <2>3 DEF CallInv
    <3>4. (c[i].kind = "create" => c[i].version = 0) /\ c[i].composition < i
      BY <2>1 DEF CallInv
    <3> HIDE DEF Done
    <3> QED
      BY <1>1, <1>6, <1>3, <2>3, <3>1, <3>2, <3>3, <3>4 DEF CallInv
  <2>4. CASE c[i].id # d /\ c[i].id # None
    BY <1>1, <1>6, <1>3, <2>1, <2>2, <2>4 DEF CallInv, SaysIt
  <2>5. CASE c[i].id = None
    <3>1. c[i].kind = "create" /\ ~Done(c[i])
      BY <2>1, <2>5, NoneAssumption DEF Calls, CallInv
    <3> QED
      BY <1>6, <1>3, <2>1, <2>5, <3>1 DEF CallInv
  <2> QED
    BY <2>2, <2>3, <2>4, <2>5
<1>7. ASSUME NEW i \in DOMAIN c, Done(k[i]) = Done(c[i]), FreshSave(ds, c, i)
      PROVE  FreshSave(n, k, i)
  <2> SUFFICES ASSUME Done(k[i]) PROVE FreshSave(n, k, i)
    BY DEF FreshSave
  <2>1. c[i].id \in Drafts
    <3>1. c[i].id \in Drafts \cup {None} /\ c[i].id # None
      BY <1>7 DEF Calls, CommandsInv, CallInv
    <3> QED
      BY <3>1
  <2>2. \A j \in DOMAIN c : c[j].version \in Nat
    BY DEF Calls
  <2>3. CASE c[i].id = d
    <3>1. SaysIt(n, k[i])
      <4>1. ds[d].text \in {c[i].text} \cup ds[d].elsewhere
        BY <1>7, <2>3 DEF FreshSave, SaysIt
      <4>2. ~\E j \in DOMAIN c : /\ c[j].kind = "update" /\ ~Done(c[j])
                                 /\ c[j].id = d /\ c[j].version = ds[d].version
        <5> SUFFICES ASSUME NEW j \in DOMAIN c, c[j].kind = "update", ~Done(c[j]),
                            c[j].id = d, c[j].version = ds[d].version
                     PROVE  FALSE
          OBVIOUS
        <5>1. j # i
          BY <1>7
        <5>2. c[j].version < ds[d].version
          BY <1>7, <2>3, <5>1 DEF FreshSave
        <5> QED
          BY <1>2, <5>2
      <4>3. row.text \in {c[i].text} \cup row.elsewhere
        BY <4>1, <4>2 DEF SaysNext
      <4> QED
        BY <1>1, <1>3, <2>3, <4>3 DEF SaysIt
    <3>2. \A j \in DOMAIN k \ {i} :
             k[j].kind = "update" /\ ~Done(k[j]) /\ k[j].id = k[i].id =>
               k[j].version < n[k[i].id].version
      BY <1>1, <1>2, <1>7, <1>3, <2>2, <2>3 DEF FreshSave
    <3> QED
      BY <1>3, <3>1, <3>2 DEF FreshSave
  <2>4. CASE c[i].id # d
    BY <1>1, <1>7, <1>3, <2>1, <2>4 DEF FreshSave, SaysIt
  <2> QED
    BY <2>3, <2>4
<1>8. Had(n, k, row.text) => RowsHad(n, k)
  BY <1>1, <1>4 DEF CommandsInv, RowsHad
<1> QED
  BY <1>1, <1>4, <1>5, <1>6, <1>7, <1>8

\* The draft moves on without a command.
LEMMA RowMovesAlone ==
  ASSUME IInv, NEW d \in Drafts, drafts[d] # None, drafts[d].live, NEW row \in DraftRows,
         row.version = drafts[d].version + 1, drafts[d].elsewhere \subseteq row.elsewhere,
         row.text = drafts[d].text \/ row.text \in row.elsewhere,
         drafts' = [drafts EXCEPT ![d] = row], UNCHANGED <<calls, puts, tab, editors>>
  PROVE  IInv'
<1> DEFINE n == [drafts EXCEPT ![d] = row]
<1>1. /\ CommandsInv(drafts, calls) /\ drafts \in Rows /\ calls \in Seq(Calls)
  BY NowParts
<1>2. n[d] = row /\ row # None
  BY <1>1, NoneAssumption DEF Rows
<1>3. /\ n \in Rows
      /\ \A text : Had(drafts, calls, text) => Had(n, calls, text)
      /\ \A known \in Known : Seen(drafts, calls, known) => Seen(n, calls, known)
      /\ \A i \in DOMAIN calls :
           /\ CallInv(n, i, calls[i])
           /\ FreshSave(drafts, calls, i) => FreshSave(n, calls, i)
      /\ Had(n, calls, row.text) => RowsHad(n, calls)
  <2>1. n = [drafts EXCEPT ![d] = row]
    OBVIOUS
  <2>2. Further(calls, calls) /\ SaysNext(drafts, calls, d, row)
    BY DEF Further, SaysNext
  <2> HIDE DEF n
  <2> QED
    BY <1>1, <2>1, <2>2, RowMoves
<1> HIDE DEF n
<1>4. Had(n, calls, row.text)
  <2>1. CASE row.text = drafts[d].text
    BY <1>1, <1>3, <2>1 DEF CommandsInv, RowsHad
  <2>2. CASE row.text \in row.elsewhere
    BY <1>2, <2>2 DEF Had
  <2> QED
    BY <2>1, <2>2
<1>5. CommandsInv(n, calls)
  BY <1>1, <1>3, <1>4 DEF CommandsInv
<1>6. drafts' = n /\ calls' = calls /\ UNCHANGED <<puts, tab, editors>>
  BY DEF n
<1> QED
  BY <1>1, <1>3, <1>5, <1>6, MailboxKeeps

LEMMA CompleteUploadKeeps == ASSUME NEW put \in puts, IInv, CompleteUpload(put) PROVE IInv'
<1> DEFINE d == put[2]
           row1 == [drafts[d] EXCEPT !.files = @ \cup {put[1]}]
           row == [row1 EXCEPT !.version = @ + 1]
<1>1. put[1] \in Files /\ d \in Drafts /\ drafts \in Rows
  BY NowParts
<1>2. drafts[d] # None /\ drafts[d].live /\ drafts[d] \in DraftRows
  BY <1>1 DEF CompleteUpload, Live, Rows
<1>3. /\ row1 \in DraftRows /\ row1.version = drafts[d].version
      /\ row1.elsewhere = drafts[d].elsewhere /\ row1.text = drafts[d].text
  BY <1>1, <1>2 DEF DraftRows
<1>4. /\ row \in DraftRows /\ row.version = drafts[d].version + 1
      /\ row.elsewhere = drafts[d].elsewhere /\ row.text = drafts[d].text
  <2> HIDE DEF row1
  <2> QED
    BY <1>3 DEF DraftRows
<1>5. drafts' = [drafts EXCEPT ![d] = row] /\ UNCHANGED <<calls, puts, tab, editors>>
  <2>1. [drafts EXCEPT ![d].files = @ \cup {put[1]}, ![d].version = @ + 1]
          = [drafts EXCEPT ![d] = row]
    BY <1>1, <1>2 DEF Rows, DraftRows
  <2> QED
    BY <2>1 DEF CompleteUpload
<1> HIDE DEF row, d
<1> QED
  BY <1>1, <1>2, <1>4, <1>5, RowMovesAlone

LEMMA ElsewhereKeeps == ASSUME NEW d \in Drafts, IInv, Elsewhere(d) PROVE IInv'
<1>1. drafts \in Rows /\ tab \in Tab
  BY NowParts
<1>2. /\ drafts[d] # None /\ drafts[d].live /\ drafts[d].elsewhere = {}
      /\ drafts[d] \in DraftRows /\ UNCHANGED <<calls, puts, tab, editors>>
  BY <1>1 DEF Elsewhere, Live, Rows
<1>3. ASSUME NEW text \in tab.user.others,
             drafts' = [drafts EXCEPT ![d].text = text, ![d].version = @ + 1,
                                      ![d].elsewhere = {text}]
      PROVE  IInv'
  <2> DEFINE row1 == [drafts[d] EXCEPT !.text = text]
             row2 == [row1 EXCEPT !.version = @ + 1]
             row == [row2 EXCEPT !.elsewhere = {text}]
  <2>1. text \in Texts
    BY <1>1 DEF Tab, User
  <2>2. row1 \in DraftRows /\ row1.version = drafts[d].version /\ row1.text = text
    BY <1>2, <2>1 DEF DraftRows
  <2>3. row2 \in DraftRows /\ row2.version = drafts[d].version + 1 /\ row2.text = text
    <3> HIDE DEF row1
    <3> QED
      BY <2>2 DEF DraftRows
  <2>4. row \in DraftRows /\ row.version = drafts[d].version + 1 /\ row.text = text
        /\ row.elsewhere = {text}
    <3> HIDE DEF row2
    <3> QED
      BY <2>1, <2>3 DEF DraftRows
  <2>5. drafts' = [drafts EXCEPT ![d] = row]
    BY <1>1, <1>2, <1>3 DEF Rows, DraftRows
  <2> HIDE DEF row
  <2> QED
    BY <1>2, <2>4, <2>5, RowMovesAlone
<1>4. ASSUME drafts' = [drafts EXCEPT ![d].live = FALSE, ![d].version = @ + 1]
      PROVE  IInv'
  <2> DEFINE row1 == [drafts[d] EXCEPT !.live = FALSE]
             row == [row1 EXCEPT !.version = @ + 1]
  <2>1. /\ row1 \in DraftRows /\ row1.version = drafts[d].version
        /\ row1.elsewhere = drafts[d].elsewhere /\ row1.text = drafts[d].text
    BY <1>2 DEF DraftRows
  <2>2. /\ row \in DraftRows /\ row.version = drafts[d].version + 1
        /\ row.elsewhere = drafts[d].elsewhere /\ row.text = drafts[d].text
    <3> HIDE DEF row1
    <3> QED
      BY <2>1 DEF DraftRows
  <2>3. drafts' = [drafts EXCEPT ![d] = row]
    BY <1>1, <1>2, <1>4 DEF Rows, DraftRows
  <2> HIDE DEF row
  <2> QED
    BY <1>2, <2>2, <2>3, RowMovesAlone
<1> QED
  BY <1>3, <1>4, Zenon DEF Elsewhere

\* A command about a live draft is executed: what is left to show of it.
LEMMA RowMovesBy ==
  ASSUME IInv, NEW op \in DOMAIN calls, MayWrite(op), NEW d \in Drafts, d = calls[op].id,
         NEW row \in DraftRows, row.version = drafts[d].version + 1,
         row.elsewhere = drafts[d].elsewhere, SaysNext(drafts, calls, d, row),
         NEW receipt \in SUBSET Files,
         drafts' = [drafts EXCEPT ![d] = row],
         calls' = [calls EXCEPT ![op].receipt = receipt],
         UNCHANGED <<puts, tab, editors>>,
         row.text \in {drafts[d].text, calls[op].text},
         calls[op].kind = "send" =>
           ~row.live /\ (calls[op].calm => row.text \in {calls[op].text} \cup row.elsewhere),
         calls[op].kind # "send" => row.text = calls[op].text
  PROVE  IInv'
<1> DEFINE n == [drafts EXCEPT ![d] = row]
           k == Answered(calls, op, d, receipt)
<1>1. /\ CommandsInv(drafts, calls) /\ drafts \in Rows /\ calls \in Seq(Calls)
  BY NowParts
<1>2. /\ drafts[d] # None /\ drafts[d].live /\ calls[op].version = drafts[d].version
      /\ ~Done(calls[op]) /\ drafts[d] \in DraftRows /\ calls[op] \in Calls
  <2>1. drafts[d] # None /\ drafts[d].live /\ calls[op].version = drafts[d].version
        /\ ~Done(calls[op])
    BY DEF MayWrite, Live, Executed, Done
  <2> QED
    BY <1>1, <2>1 DEF Rows
<1>3. n[d] = row /\ row # None /\ drafts' = n
  BY <1>1, NoneAssumption DEF Rows
<1>4. calls' = k
  <2>1. [calls EXCEPT ![op].receipt = receipt] = [calls EXCEPT ![op].id = d, ![op].receipt = receipt]
    BY <1>1, <1>2, Zenon DEF Calls
  <2> QED
    BY <2>1 DEF Answered
<1>5. /\ k \in Seq(Calls) /\ DOMAIN k = DOMAIN calls /\ Len(k) = Len(calls)
      /\ \A i \in DOMAIN calls :
           /\ k[i].kind = calls[i].kind /\ k[i].text = calls[i].text
           /\ k[i].version = calls[i].version /\ k[i].calm = calls[i].calm
           /\ k[i].composition = calls[i].composition
           /\ Loose(k[i]) = Loose(calls[i])
      /\ \A i \in DOMAIN calls \ {op} : k[i].id = calls[i].id /\ Done(k[i]) = Done(calls[i])
      /\ k[op].id = d /\ Done(k[op])
  <2>1. k = Answered(calls, op, d, receipt)
    OBVIOUS
  <2> HIDE DEF k
  <2> QED
    BY <1>1, <2>1, AnsweredIs
<1>6. Further(calls, k)
  <2> HIDE DEF k
  <2>1. \A i \in DOMAIN calls : k[i].id = calls[i].id /\ (Done(calls[i]) => Done(k[i]))
    BY <1>5
  <2> QED
    BY <1>5, <2>1 DEF Further
<1>7. n = [drafts EXCEPT ![d] = row]
  OBVIOUS
<1> HIDE DEF n, k
<1>8. /\ n \in Rows
      /\ \A text : Had(drafts, calls, text) => Had(n, k, text)
      /\ \A known \in Known : Seen(drafts, calls, known) => Seen(n, k, known)
      /\ \A i \in DOMAIN calls : Done(k[i]) = Done(calls[i]) =>
           /\ CallInv(n, i, k[i])
           /\ FreshSave(drafts, calls, i) => FreshSave(n, k, i)
      /\ Had(n, k, row.text) => RowsHad(n, k)
  <2>1. drafts[d].elsewhere \subseteq row.elsewhere
    OBVIOUS
  <2> QED
    BY <1>1, <1>2, <1>5, <1>6, <1>7, <2>1, RowMoves, ZenonT(60)
<1>9. SaysIt(n, k[op]) \/ (calls[op].kind = "send" /\ ~calls[op].calm)
  BY <1>3, <1>5 DEF SaysIt
<1>10. drafts[d].version \in Nat /\ op \in Nat
  BY <1>1, <1>2 DEF DraftRows
<1>11. CallInv(n, op, k[op])
  <2>1. CallInv(drafts, op, calls[op])
    BY <1>1 DEF CommandsInv
  <2>2. d # None
    BY NoneAssumption
  <2>3. k[op].version <= n[d].version
    BY <1>2, <1>3, <1>5, <1>10
  <2> QED
    BY <1>3, <1>5, <1>9, <2>1, <2>2, <2>3 DEF CallInv
<1>12. \A i \in DOMAIN k : CallInv(n, i, k[i])
  BY <1>5, <1>8, <1>11
<1>13. Had(n, k, row.text)
  <2>1. CASE row.text = drafts[d].text
    BY <1>1, <1>2, <1>8, <2>1 DEF CommandsInv, RowsHad
  <2>2. CASE row.text = calls[op].text
    BY <1>5, <2>2 DEF Had
  <2> QED
    BY <2>1, <2>2
<1>14. OneCreate(k)
  <2>1. OneCreate(calls)
    BY <1>1 DEF CommandsInv
  <2> QED
    BY <1>5, <2>1 DEF OneCreate
<1>15. CommandsInv(n, k)
  BY <1>8, <1>12, <1>13, <1>14 DEF CommandsInv
<1>16. ASSUME calls[op].kind # "send" PROVE FreshSave(n, k, op)
  <2>1. SaysIt(n, k[op])
    BY <1>9, <1>16
  <2>2. ASSUME NEW i \in DOMAIN k \ {op}, ~Done(k[i]), k[i].id = d
        PROVE  k[i].version < n[d].version
    <3>1. calls[i].id = d /\ calls[i].version = k[i].version /\ calls[i].version \in Nat
      BY <1>1, <1>5, <2>2 DEF Calls
    <3>2. calls[i].version <= drafts[d].version
      BY <1>1, <1>5, <2>2, <3>1, NoneAssumption DEF CommandsInv, CallInv
    <3> QED
      BY <1>3, <1>10, <3>1, <3>2
  <2> QED
    BY <1>5, <2>1, <2>2 DEF FreshSave
<1>17. \A i \in DOMAIN calls :
         calls[i].kind # "send" /\ FreshSave(drafts, calls, i) => FreshSave(n, k, i)
  BY <1>5, <1>8, <1>16
<1> QED
  BY <1>1, <1>3, <1>4, <1>5, <1>8, <1>15, <1>17, MailboxKeeps

LEMMA UpdateDraftKeeps == ASSUME NEW op \in DOMAIN calls, IInv, UpdateDraft(op) PROVE IInv'
<1> DEFINE d == calls[op].id
           row1 == [drafts[d] EXCEPT !.text = calls[op].text]
           row == [row1 EXCEPT !.version = @ + 1]
<1>1. /\ calls[op].kind = "update" /\ MayWrite(op)
      /\ drafts' = [drafts EXCEPT ![d].text = calls[op].text, ![d].version = @ + 1]
      /\ calls' = [calls EXCEPT ![op].receipt = drafts[d].files]
      /\ UNCHANGED <<puts, tab, editors>>
  BY DEF UpdateDraft
<1>2. /\ drafts \in Rows /\ calls[op] \in Calls
      /\ d \in Drafts /\ drafts[d] # None /\ calls[op].version = drafts[d].version
      /\ ~Done(calls[op])
  <2>1. drafts \in Rows /\ calls[op] \in Calls
    BY NowParts
  <2>2. d \in Drafts
    BY <1>1, <2>1 DEF Calls
  <2> QED
    BY <1>1, <2>1, <2>2 DEF MayWrite, Live, Executed, Done
<1>3. drafts[d] \in DraftRows /\ calls[op].text \in Texts
  BY <1>2 DEF Rows, Calls
<1>4. /\ row1 \in DraftRows /\ row1.version = drafts[d].version
      /\ row1.elsewhere = drafts[d].elsewhere /\ row1.text = calls[op].text
  BY <1>3 DEF DraftRows
<1>5. /\ row \in DraftRows /\ row.version = drafts[d].version + 1
      /\ row.elsewhere = drafts[d].elsewhere /\ row.text = calls[op].text
  <2> HIDE DEF row1
  <2> QED
    BY <1>4 DEF DraftRows
<1>6. drafts' = [drafts EXCEPT ![d] = row]
  BY <1>1, <1>2, <1>3 DEF Rows, DraftRows
<1>7. SaysNext(drafts, calls, d, row)
  BY <1>1, <1>2 DEF SaysNext
<1>8. drafts[d].files \in SUBSET Files
  BY <1>3 DEF DraftRows
<1>9. /\ d = calls[op].id /\ calls[op].kind # "send" /\ MayWrite(op)
      /\ calls' = [calls EXCEPT ![op].receipt = drafts[d].files]
      /\ UNCHANGED <<puts, tab, editors>>
  BY <1>1
<1> HIDE DEF row, d
<1> QED
  BY <1>2, <1>5, <1>6, <1>7, <1>8, <1>9, RowMovesBy

LEMMA ScheduleOutboundKeeps ==
  ASSUME NEW op \in DOMAIN calls, IInv, ScheduleOutbound(op) PROVE IInv'
<1> DEFINE d == calls[op].id
           row1 == [drafts[d] EXCEPT !.live = FALSE]
           row == [row1 EXCEPT !.version = @ + 1]
<1>1. /\ calls[op].kind = "send" /\ MayWrite(op)
      /\ drafts' = [drafts EXCEPT ![d].live = FALSE, ![d].version = @ + 1]
      /\ calls' = [calls EXCEPT ![op].receipt = {}]
      /\ UNCHANGED <<puts, tab, editors>>
  BY DEF ScheduleOutbound
<1>2. /\ drafts \in Rows /\ calls[op] \in Calls /\ CommandsInv(drafts, calls)
      /\ d \in Drafts /\ drafts[d] # None /\ calls[op].version = drafts[d].version
      /\ ~Done(calls[op])
  <2>1. drafts \in Rows /\ calls[op] \in Calls /\ CommandsInv(drafts, calls)
    BY NowParts
  <2>2. d \in Drafts
    BY <1>1, <2>1 DEF Calls
  <2> QED
    BY <1>1, <2>1, <2>2 DEF MayWrite, Live, Executed, Done
<1>3. drafts[d] \in DraftRows
  BY <1>2 DEF Rows
<1>4. /\ row1 \in DraftRows /\ row1.version = drafts[d].version
      /\ row1.elsewhere = drafts[d].elsewhere /\ row1.text = drafts[d].text
      /\ ~row1.live
  BY <1>3 DEF DraftRows
<1>5. /\ row \in DraftRows /\ row.version = drafts[d].version + 1
      /\ row.elsewhere = drafts[d].elsewhere /\ row.text = drafts[d].text
      /\ ~row.live
  <2> HIDE DEF row1
  <2> QED
    BY <1>4 DEF DraftRows
<1>6. drafts' = [drafts EXCEPT ![d] = row]
  BY <1>1, <1>2, <1>3 DEF Rows, DraftRows
<1>7. SaysNext(drafts, calls, d, row)
  BY <1>5 DEF SaysNext
<1>8. calls[op].calm => drafts[d].text \in {calls[op].text} \cup drafts[d].elsewhere
  BY <1>1, <1>2 DEF CommandsInv, CallInv, SaysIt
<1>9. /\ d = calls[op].id /\ calls[op].kind = "send" /\ MayWrite(op)
      /\ {} \in SUBSET Files /\ calls' = [calls EXCEPT ![op].receipt = {}]
      /\ UNCHANGED <<puts, tab, editors>>
  BY <1>1
<1> HIDE DEF row, d
<1> QED
  BY <1>2, <1>5, <1>6, <1>7, <1>8, <1>9, RowMovesBy

LEMMA CreateDraftKeeps == ASSUME NEW op \in DOMAIN calls, IInv, CreateDraft(op) PROVE IInv'
<1> DEFINE row == [text |-> calls[op].text, version |-> 1, files |-> {}, live |-> TRUE,
                   elsewhere |-> {}]
<1>1. PICK d \in Drafts :
        /\ drafts[d] = None
        /\ calls[op].kind = "create" /\ ~Done(calls[op])
        /\ drafts' = [drafts EXCEPT ![d] = row]
        /\ calls' = Answered(calls, op, d, {})
        /\ UNCHANGED <<puts, tab, editors>>
  BY DEF CreateDraft, Executed, Done, Answered
<1> DEFINE n == [drafts EXCEPT ![d] = row]
           k == Answered(calls, op, d, {})
<1>2. /\ CommandsInv(drafts, calls) /\ drafts \in Rows /\ calls \in Seq(Calls)
      /\ calls[op] \in Calls
  BY NowParts
<1>3. row \in DraftRows /\ row # None /\ row.text = calls[op].text /\ row.version = 1
  <2>1. row \in DraftRows /\ row.text = calls[op].text /\ row.version = 1
    BY <1>2 DEF DraftRows, Calls
  <2> QED
    BY <2>1, NoneAssumption
<1>4. /\ k \in Seq(Calls) /\ DOMAIN k = DOMAIN calls /\ Len(k) = Len(calls)
      /\ \A i \in DOMAIN calls :
           /\ k[i].kind = calls[i].kind /\ k[i].text = calls[i].text
           /\ k[i].version = calls[i].version /\ k[i].calm = calls[i].calm
           /\ k[i].composition = calls[i].composition
           /\ Loose(k[i]) = Loose(calls[i])
      /\ \A i \in DOMAIN calls \ {op} : k[i].id = calls[i].id /\ Done(k[i]) = Done(calls[i])
      /\ k[op].id = d /\ Done(k[op])
  <2>1. k = Answered(calls, op, d, {}) /\ {} \in SUBSET Files
    OBVIOUS
  <2> HIDE DEF k
  <2> QED
    BY <1>2, <2>1, AnsweredIs
<1> HIDE DEF row
<1>5. /\ n \in Rows /\ n[d] = row
      /\ \A other \in Drafts : drafts[other] # None => other # d /\ n[other] = drafts[other]
  BY <1>1, <1>2, <1>3 DEF Rows
<1>6. drafts' = n /\ calls' = k
  BY <1>1
<1> HIDE DEF n, k
<1>7. \A text : Had(drafts, calls, text) => Had(n, k, text)
  <2>1. \A i \in DOMAIN calls : Done(calls[i]) => Done(k[i])
    BY <1>4
  <2> QED
    BY <1>4, <1>5, <2>1 DEF Had
<1>8. \A known \in Known : Seen(drafts, calls, known) => Seen(n, k, known)
  BY <1>5, <1>7 DEF Seen, Known
<1>9. \A i \in DOMAIN calls : calls[i].id \in Drafts \cup {None} /\ calls[i].version \in Nat
  BY <1>2 DEF Calls
<1>10. \A i \in DOMAIN calls \ {op} :
         CallInv(drafts, i, calls[i]) /\ (calls[i].id # None => drafts[calls[i].id] # None)
  BY <1>2 DEF CommandsInv, CallInv
<1>11. \A i \in DOMAIN k : CallInv(n, i, k[i])
  <2> TAKE i \in DOMAIN k
  <2>1. CASE i = op
    <3>1. calls[op].version = 0 /\ calls[op].composition < op
      BY <1>1, <1>2 DEF CommandsInv, CallInv
    <3> QED
      BY <1>1, <1>3, <1>4, <1>5, <2>1, <3>1, NoneAssumption DEF CallInv
  <2>2. CASE i # op /\ calls[i].id # None
    BY <1>4, <1>5, <1>9, <1>10, <2>2 DEF CallInv, SaysIt
  <2>3. CASE i # op /\ calls[i].id = None
    <3>1. calls[i] \in Calls /\ calls[i].kind # "send"
      BY <1>2, <1>4, <2>3, NoneAssumption DEF Calls
    <3> QED
      BY <1>4, <1>10, <2>3, <3>1 DEF CallInv
  <2> QED
    BY <2>1, <2>2, <2>3
<1>12. RowsHad(n, k)
  <2>1. Had(n, k, calls[op].text)
    BY <1>4 DEF Had
  <2>2. \A other \in Drafts \ {d} : n[other] = drafts[other]
    BY <1>2 DEF Rows, n
  <2> QED
    BY <1>2, <1>3, <1>5, <1>7, <2>1, <2>2 DEF RowsHad, CommandsInv
<1>13. OneCreate(k)
  <2>1. OneCreate(calls)
    BY <1>2 DEF CommandsInv
  <2> QED
    BY <1>4, <2>1 DEF OneCreate
<1>14. CommandsInv(n, k)
  BY <1>11, <1>12, <1>13 DEF CommandsInv
<1>15. ASSUME NEW i \in DOMAIN calls, FreshSave(drafts, calls, i) PROVE FreshSave(n, k, i)
  <2>1. CASE i = op
    <3>1. SaysIt(n, k[op])
      BY <1>3, <1>4, <1>5 DEF SaysIt
    <3>2. \A j \in DOMAIN k \ {op} : k[j].kind = "update" => k[j].id # d
      <4>1. \A j \in DOMAIN calls : calls[j].kind = "update" => calls[j].id # None
        BY <1>2, NoneAssumption DEF Calls
      <4> QED
        BY <1>1, <1>4, <1>10, <4>1
    <3> QED
      BY <1>4, <2>1, <3>1, <3>2 DEF FreshSave
  <2>2. CASE i # op
    <3> SUFFICES ASSUME Done(calls[i]) PROVE FreshSave(n, k, i)
      BY <1>4, <2>2 DEF FreshSave
    <3>1. calls[i].id \in Drafts /\ n[calls[i].id] = drafts[calls[i].id] /\ calls[i].id # d
      <4>1. calls[i].id # None
        BY <1>10, <2>2 DEF CallInv
      <4> QED
        BY <1>5, <1>9, <1>10, <2>2, <4>1
    <3>2. SaysIt(n, k[i])
      BY <1>4, <1>15, <2>2, <3>1 DEF FreshSave, SaysIt
    <3>3. \A j \in DOMAIN k \ {i} :
            k[j].kind = "update" /\ ~Done(k[j]) /\ k[j].id = k[i].id =>
              k[j].version < n[k[i].id].version
      BY <1>4, <1>15, <2>2, <3>1 DEF FreshSave
    <3> QED
      BY <3>2, <3>3 DEF FreshSave
  <2> QED
    BY <2>1, <2>2
<1> QED
  BY <1>1, <1>4, <1>5, <1>6, <1>7, <1>8, <1>14, <1>15, MailboxKeeps
-----------------------------------------------------------------------------
(* Every step, and what follows. *)

LEMMA InvInit == Init => IInv
<1> SUFFICES ASSUME Init PROVE IInv
  OBVIOUS
<1>1. PICK user \in Users :
        tab = [url |-> Compose, created |-> None, stored |-> [p \in Places |-> None],
               create |-> 0, cache |-> [d \in Drafts |-> None], composition |-> 0,
               user |-> user]
  BY DEF Init
<1>2. /\ drafts = [d \in Drafts |-> None] /\ calls = <<>> /\ puts = {}
      /\ editors = [m \in Mounts |-> None]
  BY DEF Init
<1>3. user \in User
  BY UsersAssumption
<1>4. tab \in Tab
  BY <1>1, <1>3 DEF Tab, Urls, Places
<1>5. calls \in Seq(Calls) /\ DOMAIN calls = {} /\ Len(calls) = 0
  BY <1>2
<1>6. editors \in [Mounts -> EditorStates \cup {None}] /\ \A m \in Mounts : editors[m] = None
  BY <1>2
<1>7. TypeOK
  BY <1>2, <1>4, <1>5, <1>6 DEF TypeOK
<1>8. CommandsInv(drafts, calls)
  BY <1>2, <1>5 DEF CommandsInv, RowsHad, OneCreate
<1>9. TabInv(drafts, tab, calls)
  <2>1. /\ tab.create = 0 /\ tab.composition = 0 /\ tab.stored[Compose] = None
        /\ \A d \in Drafts : tab.cache[d] = None
    BY <1>1 DEF Places
  <2> QED
    BY <1>5, <2>1 DEF TabInv
<1>10. (\A m \in Mounts : WorkInv(drafts, Now(m))) /\ AloneInv
  BY <1>6 DEF WorkInv, Now, AloneInv, AtWork
<1> QED
  BY <1>7, <1>8, <1>9, <1>10 DEF IInv

LEMMA InvNext == IInv /\ [Next]_vars => IInv'
<1> SUFFICES ASSUME IInv, [Next]_vars PROVE IInv'
  OBVIOUS
<1>1. CASE Mailbox
  <2>1. ASSUME NEW op \in DOMAIN calls,
               CreateDraft(op) \/ UpdateDraft(op) \/ ScheduleOutbound(op)
        PROVE  IInv'
    BY <2>1, CreateDraftKeeps, UpdateDraftKeeps, ScheduleOutboundKeeps
  <2>2. ASSUME NEW put \in puts, CompleteUpload(put) PROVE IInv'
    BY <2>2, CompleteUploadKeeps
  <2>3. ASSUME NEW d \in Drafts, Elsewhere(d) PROVE IInv'
    BY <2>3, ElsewhereKeeps
  <2> QED
    BY <1>1, <2>1, <2>2, <2>3 DEF Mailbox
<1>2. CASE Background
  BY <1>2, QueueSaveKeeps, SaveAnsweredKeeps, SaveRefusedKeeps, SaveLostKeeps,
     SendAnsweredKeeps, SendRefusedKeeps, SendLostKeeps,
     UploadAnsweredKeeps, UploadFailsKeeps,
     RenderKeeps, TakeOverKeeps, MountComposeKeeps, MountDraftKeeps DEF Background
<1>3. CASE UserActs
  <2>1. ASSUME NEW m \in Mounts, NEW text \in Texts, Edit(m, text) PROVE IInv'
    BY <2>1, EditKeeps
  <2>2. ASSUME NEW m \in Mounts, NEW file \in Files, Attach(m, file) PROVE IInv'
    BY <2>2, AttachKeeps
  <2>3. ASSUME NEW m \in Mounts,
               Close(m) \/ Send(m) \/ Retry(m) \/ RetryUpload(m) \/ DismissUpload(m)
        PROVE  IInv'
    BY <2>3, CloseKeeps, SendKeeps, RetryKeeps, RetryUploadKeeps, DismissUploadKeeps
  <2>4. ASSUME NEW url \in Urls, Navigate(url) PROVE IInv'
    BY <2>4, NavigateKeeps
  <2> QED
    BY <1>3, <2>1, <2>2, <2>3, <2>4, ReloadKeeps DEF UserActs
<1>4. CASE UNCHANGED vars
  <2>1. /\ drafts' = drafts /\ calls' = calls /\ puts' = puts /\ tab' = tab
        /\ editors' = editors
    BY <1>4 DEF vars
  <2>2. TypeOK' /\ AloneInv'
    BY <2>1 DEF IInv, TypeOK, AloneInv, AtWork
  <2>3. \A m \in Mounts : Now(m)' = Now(m)
    BY <2>1 DEF Now
  <2>4. \A m \in Mounts : WorkInv(drafts, Now(m))'
    BY <2>1, <2>3 DEF IInv
  <2> QED
    BY <2>1, <2>2, <2>4 DEF IInv
<1> QED
  BY <1>1, <1>2, <1>3, <1>4 DEF Next

\* The invariant holds, whatever the tab is used for and whatever gets lost.
THEOREM Invariant == Spec => []IInv
<1>1. Init => IInv
  BY InvInit
<1>2. IInv /\ [Next]_vars => IInv'
  BY InvNext
<1> QED
  BY <1>1, <1>2, PTL DEF Spec

\* Every variable of the editors, their tab and the mailbox has its type.
THEOREM TypeCorrect == Spec => []TypeOK
<1>1. IInv => TypeOK
  BY DEF IInv
<1> QED
  BY <1>1, Invariant, PTL

\* However often a tab is reloaded or left, its message opened again beside the editor
\* that still awaits the create, a create sent again, answered late or never, a
\* composition becomes one draft, unless the browser was told that a create failed that
\* had been executed (handleDraftSaveFailure), or the outcome of a create came to an
\* editor that was left while another was on the screen (handleDraftCommandSuccess
\* forgets the pending create and the fields of the place that both edit).
THEOREM OneDraft == Spec => []OneDraftPerComposition
<1>1. IInv => OneDraftPerComposition
  <2> SUFFICES ASSUME IInv PROVE OneDraftPerComposition
    OBVIOUS
  <2>1. OneCreate(calls)
    BY NowParts DEF CommandsInv
  <2> QED
    BY <2>1 DEF OneCreate, Loose, OneDraftPerComposition
<1> QED
  BY <1>1, Invariant, PTL

\* A message that is sent, did not have to wait for a retried save only and was asked
\* for by an editor that works alone until then, says what the screen said or what
\* another tab has saved: every save that flushSave had to wait for was executed before
\* the send, and none of ours after it.
THEOREM CalmSend == Spec => []CalmSendIsAsOnScreen
<1>1. IInv => CalmSendIsAsOnScreen
  <2> SUFFICES ASSUME IInv, NEW op \in DOMAIN calls,
                      calls[op].kind = "send", Executed(op), calls[op].calm
               PROVE  SentSaysWhatIsShown(op)
    BY DEF CalmSendIsAsOnScreen
  <2>1. CallInv(drafts, op, calls[op])
    BY NowParts DEF CommandsInv
  <2> QED
    BY <2>1 DEF CallInv, Done, Executed, SaysIt, SentSaysWhatIsShown
<1> QED
  BY <1>1, Invariant, PTL

\* The editor on the screen, if it shows nothing as unsaved, shows what the mailbox has
\* or has had, so closing it loses nothing; what editors that were left do beside it
\* does not change that.
THEOREM CleanSaved == Spec => []CleanIsSaved
<1>1. IInv => CleanIsSaved
  <2> SUFFICES ASSUME IInv, NEW m \in Mounts, Open(m), ~editors[m].dirty
               PROVE  Had(drafts, calls, editors[m].text)
    BY DEF CleanIsSaved, Had, Done, Executed
  <2>1. FormInv(drafts, calls, editors[m])
    BY AtWorkIs DEF Open
  <2> QED
    BY <2>1 DEF FormInv
<1> QED
  BY <1>1, Invariant, PTL
=============================================================================
