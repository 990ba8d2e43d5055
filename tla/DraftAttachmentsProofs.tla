----------------------- MODULE DraftAttachmentsProofs -----------------------
(***************************************************************************)
(* What DraftAttachments guarantees for any number of attachments, upload  *)
(* requests and editors, any limits and any clock.                         *)
(***************************************************************************)
EXTENDS DraftAttachments, FiniteSetTheorems, TLAPS

-----------------------------------------------------------------------------
(* The inductive invariant. *)

\* The types, without the sizes of stored rows, which need UploadsFit.
BasicType ==
  /\ now \in Times
  /\ version \in Nat
  /\ files \in Seq(Attachments)
  /\ live \in BOOLEAN
  /\ rows \in [Attachments -> Rows \cup {None}]
  /\ receipts \in [Operations -> Attachments \cup {None}]
  /\ objects \in [Attachments -> Objects \cup {None}]
  /\ uploads \in [Uploads -> UploadStates \cup {None}]
  /\ editors \in [Editors -> Readers \cup Savers \cup {None}]
  /\ \/ sent = None
     \/ sent \in [shown : SUBSET Attachments,
                  carried : SUBSET (Attachments \X (Contents \cup {None}))]

Used == {receipts[o] : o \in Operations}

\* A row is the one its operation's receipt names; whoever knows an id, a receipt
\* names it, so that it is not drawn again.
IdsInv ==
  /\ \A a \in Attachments : rows[a] # None => receipts[rows[a].operation] = a
  /\ \A u \in Uploads : uploads[u] # None => uploads[u].id \in Used

\* An upload carries content of the size of its reservation.
UploadsFit ==
  /\ \A u \in Uploads : uploads[u] # None =>
       (rows[uploads[u].id] # None =>
          rows[uploads[u].id].size = Size[uploads[u].content])
  /\ \A a \in Stored : rows[a].size = Size[rows[a].contentSha256]

\* What is complete, or about to be, is in R2 with its content.
BlobsInv ==
  /\ \A u \in Uploads : UploadAt(u, "complete") =>
       /\ objects[uploads[u].id] # None
       /\ objects[uploads[u].id].content = uploads[u].content
  /\ \A a \in Stored :
       /\ objects[a] # None
       /\ objects[a].content = rows[a].contentSha256

\* What an editor holds is the draft of the version it holds.
EditorsInv ==
  \A e \in Editors : editors[e] # None =>
    /\ editors[e].version <= version
    /\ live /\ editors[e].version = version =>
         /\ editors[e].stage \in {"check", "shown"} => editors[e].shown = Stored
         /\ editors[e].stage = "save" => editors[e].existing = files

SentInv ==
  sent # None => ~live /\ SentAsShown /\ SentIsReadable

IInv ==
  BasicType /\ IdsInv /\ UploadsFit /\ BlobsInv /\ FilesAreStored /\ EditorsInv /\ SentInv

-----------------------------------------------------------------------------
(* Steps that only move an editor. *)

\* A step of an editor that leaves everything else alone keeps the invariant if
\* the editor's new state holds what EditorsInv says of it.
LEMMA EditorStep ==
  ASSUME IInv, NEW e \in Editors, NEW state \in Readers \cup Savers \cup {None},
         editors' = [editors EXCEPT ![e] = state],
         UNCHANGED <<now, store, objects, uploads>>,
         state # None =>
           /\ state.version <= version
           /\ live /\ state.version = version =>
                /\ state.stage \in {"check", "shown"} => state.shown = Stored
                /\ state.stage = "save" => state.existing = files
  PROVE  IInv'
<1> USE DEF IInv, store
<1>1. BasicType'
  BY DEF BasicType
<1>2. IdsInv' /\ UploadsFit' /\ BlobsInv' /\ FilesAreStored' /\ SentInv'
  BY DEF IdsInv, Used, UploadsFit, BlobsInv, UploadAt, FilesAreStored,
         FilesAvailable, SentInv, SentAsShown, SentIsReadable, Stored, Existing
<1>3. EditorsInv'
  <2> SUFFICES ASSUME NEW f \in Editors, editors'[f] # None
               PROVE  /\ editors'[f].version <= version'
                      /\ live' /\ editors'[f].version = version' =>
                           /\ editors'[f].stage \in {"check", "shown"}
                                => editors'[f].shown = Stored'
                           /\ editors'[f].stage = "save"
                                => editors'[f].existing = files'
    BY DEF EditorsInv
  <2>1. Stored' = Stored
    BY DEF Stored, Existing
  <2>2. editors'[f] = IF f = e THEN state ELSE editors[f]
    BY DEF BasicType
  <2> QED
    BY <2>1, <2>2 DEF EditorsInv
<1> QED
  BY <1>1, <1>2, <1>3

\* Opening, listing, checking and ending keep the invariant.
LEMMA ShowingStep ==
  ASSUME IInv, NEW e \in Editors,
         \/ OpenDraft(e) \/ ListDraftAttachments(e) \/ CheckDraft(e)
         \/ ReadExisting(e) \/ EditorStops(e)
  PROVE  IInv'
<1> USE DEF IInv
<1>0. /\ version \in Nat /\ files \in Seq(Attachments) /\ Stored \subseteq Attachments
      /\ editors[e] # None => editors[e] \in Readers \cup Savers
  BY DEF BasicType, Stored, Existing
<1>1. CASE OpenDraft(e)
  <2> DEFINE state == [stage |-> "list", version |-> version, shown |-> {}]
  <2>1. state \in Readers
    BY <1>0 DEF Readers
  <2>2. /\ editors' = [editors EXCEPT ![e] = state]
        /\ UNCHANGED <<now, store, objects, uploads>>
    BY <1>1 DEF OpenDraft
  <2>3. state # None => state.version <= version /\ state.stage = "list"
    BY <1>0
  <2> HIDE DEF state
  <2> QED
    BY <2>1, <2>2, <2>3, EditorStep
<1>2. CASE ListDraftAttachments(e)
  <2> DEFINE state == IF live
                      THEN [editors[e] EXCEPT !.stage = "check", !.shown = Stored]
                      ELSE None
  <2>1. editors[e] # None /\ editors[e].stage = "list" /\ editors[e] \in Readers
    BY <1>0, <1>2 DEF ListDraftAttachments, EditorAt, Savers
  <2>2. state \in Readers \cup {None}
    BY <1>0, <2>1 DEF Readers
  <2>3. /\ editors' = [editors EXCEPT ![e] = state]
        /\ UNCHANGED <<now, store, objects, uploads>>
    BY <1>2 DEF ListDraftAttachments
  <2>4. state # None =>
          state.version = editors[e].version /\ state.stage = "check" /\ state.shown = Stored
    BY <2>1 DEF Readers
  <2>5. editors[e].version <= version
    BY <2>1 DEF EditorsInv
  <2> QED
    BY <2>2, <2>3, <2>4, <2>5, EditorStep
<1>3. CASE CheckDraft(e)
  <2> DEFINE state == IF IsConsistent(e) /\ editors[e].shown \subseteq Range(files)
                      THEN [editors[e] EXCEPT !.stage = "shown", !.version = version]
                      ELSE None
  <2>1. editors[e] # None /\ editors[e].stage = "check" /\ editors[e] \in Readers
    BY <1>0, <1>3 DEF CheckDraft, EditorAt, Savers
  <2>2. state \in Readers \cup {None}
    BY <1>0, <2>1 DEF Readers
  <2>3. /\ editors' = [editors EXCEPT ![e] = state]
        /\ UNCHANGED <<now, store, objects, uploads>>
    BY <1>3 DEF CheckDraft
  <2>4. state # None =>
          state.version = version /\ state.stage = "shown" /\ state.shown = Stored
    BY <2>1 DEF Readers, IsConsistent, EditorsInv
  <2>5. version <= version
    BY <1>0
  <2> HIDE DEF state
  <2> QED
    BY <2>2, <2>3, <2>4, <2>5, EditorStep
<1>4. CASE ReadExisting(e)
  <2> DEFINE state == IF live
                      THEN [stage |-> "save", version |-> editors[e].version,
                            existing |-> files]
                      ELSE None
  <2>1. editors[e] # None /\ editors[e].stage = "shown" /\ editors[e] \in Readers
    BY <1>0, <1>4 DEF ReadExisting, EditorAt, Savers
  <2>2. state \in Savers \cup {None}
    BY <1>0, <2>1 DEF Readers, Savers
  <2>3. /\ editors' = [editors EXCEPT ![e] = state]
        /\ UNCHANGED <<now, store, objects, uploads>>
    BY <1>4 DEF ReadExisting
  <2>4. editors[e].version <= version
    BY <2>1 DEF EditorsInv
  <2> QED
    BY <2>2, <2>3, <2>4, EditorStep
<1>5. CASE EditorStops(e)
  <2>1. /\ editors' = [editors EXCEPT ![e] = None]
        /\ UNCHANGED <<now, store, objects, uploads>>
    BY <1>5 DEF EditorStops
  <2> QED
    BY <2>1, EditorStep
<1> QED
  BY <1>1, <1>2, <1>3, <1>4, <1>5

-----------------------------------------------------------------------------
(* Steps that only move an upload. *)

\* A step of an upload that leaves the mailbox object alone keeps the invariant if
\* the upload's new state fits its reservation and what it claims is in R2.
LEMMA UploadStep ==
  ASSUME IInv, NEW u \in Uploads, NEW state \in UploadStates \cup {None},
         uploads' = [uploads EXCEPT ![u] = state],
         UNCHANGED <<now, store, objects, editors>>,
         state # None =>
           /\ state.id \in Used
           /\ rows[state.id] # None => rows[state.id].size = Size[state.content]
           /\ state.stage = "complete" =>
                /\ objects[state.id] # None
                /\ objects[state.id].content = state.content
  PROVE  IInv'
<1> USE DEF IInv, store
<1>1. BasicType'
  BY DEF BasicType
<1>2. Stored' = Stored /\ Used' = Used
  BY DEF Stored, Existing, Used
<1>3. FilesAreStored' /\ EditorsInv' /\ SentInv'
  BY <1>2 DEF FilesAreStored, FilesAvailable, EditorsInv, SentInv, SentAsShown,
              SentIsReadable
<1>4. \A w \in Uploads : uploads'[w] = IF w = u THEN state ELSE uploads[w]
  BY DEF BasicType
<1>5. IdsInv'
  BY <1>2, <1>4 DEF IdsInv
<1>6. UploadsFit'
  BY <1>2, <1>4 DEF UploadsFit
<1>7. BlobsInv'
  BY <1>2, <1>4 DEF BlobsInv, UploadAt
<1> QED
  BY <1>1, <1>3, <1>5, <1>6, <1>7

\* Reading a reservation, and stopping, keep the invariant.
LEMMA GetStep ==
  ASSUME IInv, NEW u \in Uploads,
         \/ \E a \in Attachments, c \in Contents : GetDraftAttachment(u, a, c)
         \/ UploadStops(u)
  PROVE  IInv'
<1>1. CASE \E a \in Attachments, c \in Contents : GetDraftAttachment(u, a, c)
  <2>1. PICK a \in Attachments, c \in Contents : GetDraftAttachment(u, a, c)
    BY <1>1
  <2> DEFINE state == [stage |-> "put", id |-> a, content |-> c,
                       expiresAt |-> rows[a].expiresAt]
  <2>2. /\ rows[a] # None /\ rows[a].size = Size[c]
        /\ uploads' = [uploads EXCEPT ![u] = state]
        /\ UNCHANGED <<now, store, objects, editors>>
    BY <2>1 DEF GetDraftAttachment, Fits
  <2>3. rows[a] \in Rows
    BY <2>2 DEF IInv, BasicType
  <2>4. state \in UploadStates
    BY <2>3 DEF UploadStates, Rows
  <2>5. rows[a].operation \in Operations /\ receipts[rows[a].operation] = a
    BY <2>2, <2>3 DEF IInv, IdsInv, Rows
  <2>6. a \in Used
    BY <2>5 DEF Used
  <2> QED
    BY <2>2, <2>4, <2>6, UploadStep
<1>2. CASE UploadStops(u)
  <2>1. /\ uploads' = [uploads EXCEPT ![u] = None]
        /\ UNCHANGED <<now, store, objects, editors>>
    BY <1>2 DEF UploadStops
  <2> QED
    BY <2>1, UploadStep
<1> QED
  BY <1>1, <1>2

\* Writing R2 keeps the invariant: an object that exists stays as it is.
LEMMA StoreBlobStep ==
  ASSUME IInv, NEW u \in Uploads, StoreBlob(u)
  PROVE  IInv'
<1> DEFINE id == uploads[u].id
           content == uploads[u].content
           done == [uploads[u] EXCEPT !.stage = "complete"]
<1>1. /\ uploads[u] \in UploadStates /\ uploads[u] # None
      /\ id \in Used /\ id \in Attachments /\ content \in Contents
      /\ rows[id] # None => rows[id].size = Size[content]
      /\ uploads[u].expiresAt \in Nat
      /\ UNCHANGED <<now, store, editors>>
  BY DEF StoreBlob, UploadAt, IInv, BasicType, IdsInv, UploadsFit, UploadStates
<1>2. /\ done \in UploadStates /\ done.id = id /\ done.content = content
      /\ done.stage = "complete"
  BY <1>1 DEF UploadStates
<1>3. CASE MayPut(id)
  <2> DEFINE object == [content |-> content, expiresAt |-> uploads[u].expiresAt]
  <2>1. PICK state \in {done, None} :
          /\ objects[id] = None
          /\ objects' = [objects EXCEPT ![id] = object]
          /\ uploads' = [uploads EXCEPT ![u] = state]
    BY <1>3 DEF StoreBlob, MayPut
  <2>2. object \in Objects /\ object # None /\ object.content = content
    BY <1>1, NoneAssumption DEF Objects
  <2> HIDE DEF object
  <2>3. /\ \A a \in Attachments : objects'[a] = IF a = id THEN object ELSE objects[a]
        /\ \A w \in Uploads : uploads'[w] = IF w = u THEN state ELSE uploads[w]
    BY <2>1 DEF IInv, BasicType
  <2>4. BasicType'
    <3>1. state \in UploadStates \cup {None}
      BY <1>2, <2>1
    <3>2. objects' \in [Attachments -> Objects \cup {None}]
      BY <2>1, <2>2 DEF IInv, BasicType
    <3>3. uploads' \in [Uploads -> UploadStates \cup {None}]
      BY <2>1, <3>1 DEF IInv, BasicType
    <3> QED
      BY <1>1, <3>2, <3>3 DEF IInv, BasicType, store
  <2>5. Stored' = Stored /\ Used' = Used
    BY <1>1 DEF Stored, Existing, Used, store
  <2> HIDE DEF done
  <2>6. state # None => state = done
    BY <2>1
  <2>7. IdsInv' /\ UploadsFit'
    BY <1>1, <1>2, <2>3, <2>5, <2>6 DEF IInv, IdsInv, UploadsFit, store
  <2>8. BlobsInv'
    <3>1. ASSUME NEW w \in Uploads, UploadAt(w, "complete")'
          PROVE  /\ objects'[uploads'[w].id] # None
                 /\ objects'[uploads'[w].id].content = uploads'[w].content
      <4>1. CASE w = u
        BY <1>1, <1>2, <2>2, <2>3, <2>6, <3>1, <4>1 DEF UploadAt
      <4>2. CASE w # u
        BY <2>1, <2>3, <3>1, <4>2 DEF IInv, BlobsInv, UploadAt, BasicType, UploadStates
      <4> QED
        BY <4>1, <4>2
    <3>2. ASSUME NEW a \in Stored
          PROVE  objects'[a] # None /\ objects'[a].content = rows'[a].contentSha256
      BY <1>1, <2>1, <2>3 DEF IInv, BlobsInv, store, Stored, Existing
    <3> QED
      BY <2>5, <3>1, <3>2 DEF BlobsInv
  <2>9. FilesAreStored' /\ EditorsInv'
    BY <1>1, <2>5 DEF IInv, FilesAreStored, FilesAvailable, EditorsInv, store
  <2>10. SentInv'
    <3>1. SentIsReadable /\ sent # None => SentIsReadable'
      BY <1>1, <2>1, <2>3 DEF SentIsReadable, store, IInv, BasicType
    <3> QED
      BY <1>1, <3>1 DEF IInv, SentInv, SentAsShown, SentIsReadable, store
  <2> QED
    BY <2>4, <2>7, <2>8, <2>9, <2>10 DEF IInv
<1>4. CASE ~MayPut(id)
  <2>1. /\ UNCHANGED <<now, store, objects, editors>>
        /\ uploads' = [uploads EXCEPT ![u] = IF ObjectMatches(u) THEN done ELSE None]
    BY <1>1, <1>4 DEF StoreBlob
  <2>2. ObjectMatches(u) => objects[id] # None /\ objects[id].content = content
    BY <1>4 DEF ObjectMatches, MayPut
  <2> HIDE DEF done
  <2> QED
    BY <1>1, <1>2, <2>1, <2>2, UploadStep
<1> QED
  BY <1>3, <1>4

-----------------------------------------------------------------------------
(* Steps of the mailbox object. *)

\* Reserving keeps the invariant: only expired reservations go, and the id is new.
LEMMA ReserveStep ==
  ASSUME IInv, NEW o \in Operations, NEW size \in Sizes, Reserve(o, size)
  PROVE  IInv'
<1> DEFINE fresh == [operation |-> o, size |-> size, createdAt |-> now,
                     expiresAt |-> now + Ttl, contentSha256 |-> None]
<1>1. PICK id \in FreshIds :
        /\ rows' = [a \in Attachments |->
             IF a = id THEN fresh ELSE IF a \in Removed THEN None ELSE rows[a]]
        /\ receipts' = [receipts EXCEPT ![o] = id]
  BY DEF Reserve
<1>2. /\ receipts[o] = None /\ live
      /\ UNCHANGED <<now, version, files, live, sent, objects, uploads, editors>>
  BY DEF Reserve, IsReplay
<1>3. /\ id \in Attachments /\ rows[id] = None /\ id \notin Used /\ id # None
  BY NoneAssumption DEF FreshIds, Used
<1>4. fresh \in Rows /\ fresh # None
  BY <1>2, LimitsAssumption, NoneAssumption DEF IInv, BasicType, Rows, Times
<1>5. fresh.contentSha256 = None /\ fresh.operation = o
  OBVIOUS
<1> HIDE DEF fresh
<1>6. BasicType'
  <2>1. rows' \in [Attachments -> Rows \cup {None}]
    BY <1>1, <1>4 DEF IInv, BasicType
  <2>2. receipts' \in [Operations -> Attachments \cup {None}]
    BY <1>1, <1>3 DEF IInv, BasicType
  <2> QED
    BY <1>2, <2>1, <2>2 DEF IInv, BasicType
<1>7. Stored' = Stored
  BY <1>1, <1>3, <1>5 DEF Stored, Existing, Removed, Expired
<1>8. \A p \in Operations : receipts'[p] = IF p = o THEN id ELSE receipts[p]
  BY <1>1 DEF IInv, BasicType
<1>9. Used \ {None} \subseteq Used'
  BY <1>2, <1>8 DEF Used
<1>10. IdsInv'
  <2>1. ASSUME NEW a \in Attachments, rows'[a] # None
        PROVE  receipts'[rows'[a].operation] = a
    <3>1. CASE a = id
      BY <1>1, <1>5, <1>8, <3>1
    <3>2. CASE a # id
      <4>1. rows'[a] = rows[a] /\ rows[a] # None /\ rows[a] \in Rows
        BY <1>1, <2>1, <3>2 DEF IInv, BasicType
      <4>2. rows[a].operation \in Operations /\ receipts[rows[a].operation] = a
        BY <4>1 DEF IInv, IdsInv, Rows
      <4>3. rows[a].operation # o
        BY <1>2, <4>2, NoneAssumption
      <4> QED
        BY <1>8, <4>1, <4>2, <4>3
    <3> QED
      BY <3>1, <3>2
  <2>2. ASSUME NEW u \in Uploads, uploads'[u] # None
        PROVE  uploads'[u].id \in Used'
    <3>1. uploads[u].id \in Used /\ uploads[u].id \in Attachments
      BY <1>2, <2>2 DEF IInv, IdsInv, BasicType, UploadStates
    <3> QED
      BY <1>2, <1>9, <3>1, NoneAssumption
  <2> QED
    BY <2>1, <2>2 DEF IdsInv
<1>11. UploadsFit'
  <2>1. ASSUME NEW u \in Uploads, uploads[u] # None, rows'[uploads[u].id] # None
        PROVE  rows'[uploads[u].id].size = Size[uploads[u].content]
    <3>1. uploads[u].id \in Used /\ uploads[u].id \in Attachments
      BY <2>1 DEF IInv, IdsInv, BasicType, UploadStates
    <3>2. rows'[uploads[u].id] = rows[uploads[u].id]
      BY <1>1, <1>3, <2>1, <3>1
    <3> QED
      BY <2>1, <3>2 DEF IInv, UploadsFit
  <2>2. \A a \in Stored : rows'[a] = rows[a]
    BY <1>1, <1>3 DEF Stored, Existing, Removed, Expired
  <2> QED
    BY <1>2, <1>7, <2>1, <2>2 DEF IInv, UploadsFit
<1>12. BlobsInv'
  <2>1. \A a \in Stored : rows'[a] = rows[a]
    BY <1>1, <1>3 DEF Stored, Existing, Removed, Expired
  <2> QED
    BY <1>2, <1>7, <2>1 DEF IInv, BlobsInv, UploadAt
<1>13. FilesAreStored' /\ EditorsInv' /\ SentInv'
  BY <1>2, <1>7 DEF IInv, FilesAreStored, FilesAvailable, EditorsInv, SentInv,
                    SentAsShown, SentIsReadable
<1> QED
  BY <1>6, <1>10, <1>11, <1>12, <1>13 DEF IInv

\* Completing keeps the invariant: the file is added to the draft of a new version.
LEMMA CompleteStep ==
  ASSUME IInv, NEW u \in Uploads, CompleteDraftAttachment(u)
  PROVE  IInv'
<1> DEFINE id == uploads[u].id
           content == uploads[u].content
<1>1. /\ UploadAt(u, "complete") /\ id \in Used
      /\ uploads[u] \in UploadStates /\ id \in Attachments /\ content \in Contents
      /\ objects[id] # None /\ objects[id].content = content
      /\ rows[id] # None => rows[id].size = Size[content]
      /\ uploads' = [uploads EXCEPT ![u] = None]
      /\ UNCHANGED <<now, live, receipts, sent, objects, editors>>
  BY DEF CompleteDraftAttachment, UploadAt, IInv, BasicType, IdsInv, UploadsFit,
         BlobsInv, UploadStates
<1>2. CASE ~MayComplete(u)
  <2>1. UNCHANGED <<now, store, objects, editors>>
    BY <1>1, <1>2 DEF CompleteDraftAttachment, store
  <2> QED
    BY <1>1, <2>1, UploadStep
<1>3. CASE MayComplete(u)
  <2> DEFINE row == [rows[id] EXCEPT !.contentSha256 = content]
  <2>1. /\ rows[id] # None /\ live /\ rows[id].contentSha256 = None
        /\ rows[id] \in Rows
    BY <1>1, <1>3 DEF MayComplete, IInv, BasicType
  <2>2. /\ rows' = [rows EXCEPT ![id].contentSha256 = content]
        /\ files' = IF id \in Range(files) THEN files ELSE Append(files, id)
        /\ version' = version + 1
    BY <1>3 DEF CompleteDraftAttachment, NextVersion
  <2>3. rows' = [rows EXCEPT ![id] = row]
    BY <1>1, <2>1, <2>2 DEF IInv, BasicType, Rows
  <2>4. /\ row \in Rows /\ row # None /\ row.contentSha256 = content
        /\ row.size = rows[id].size /\ row.operation = rows[id].operation
    BY <1>1, <2>1, NoneAssumption DEF Rows
  <2> HIDE DEF row
  <2>5. \A a \in Attachments : rows'[a] = IF a = id THEN row ELSE rows[a]
    BY <2>3 DEF IInv, BasicType
  <2>6. content # None
    BY <1>1, NoneAssumption
  <2>7. Stored' = Stored \cup {id} /\ id \notin Stored /\ Stored \subseteq Attachments
    BY <1>1, <2>1, <2>4, <2>5, <2>6 DEF Stored, Existing
  <2>8. id \notin Range(files)
    BY <2>1, <2>7 DEF IInv, FilesAreStored, FilesAvailable
  <2>9. files' = Append(files, id) /\ files \in Seq(Attachments)
    BY <2>2, <2>8 DEF IInv, BasicType
  <2>10. \A w \in Uploads : uploads'[w] = IF w = u THEN None ELSE uploads[w]
    BY <1>1 DEF IInv, BasicType
  <2>11. BasicType'
    <3>1. rows' \in [Attachments -> Rows \cup {None}]
      BY <2>3, <2>4 DEF IInv, BasicType
    <3>2. uploads' \in [Uploads -> UploadStates \cup {None}]
      BY <1>1 DEF IInv, BasicType
    <3>3. version' \in Nat /\ files' \in Seq(Attachments)
      BY <1>1, <2>2, <2>9 DEF IInv, BasicType
    <3> QED
      BY <1>1, <3>1, <3>2, <3>3 DEF IInv, BasicType
  <2>12. IdsInv'
    BY <1>1, <2>1, <2>4, <2>5, <2>10 DEF IInv, IdsInv, Used
  <2>13. UploadsFit'
    <3>1. ASSUME NEW w \in Uploads, uploads'[w] # None, rows'[uploads'[w].id] # None
          PROVE  rows'[uploads'[w].id].size = Size[uploads'[w].content]
      <4>1. uploads'[w] = uploads[w] /\ uploads[w] # None /\ uploads[w] \in UploadStates
        BY <2>10, <3>1 DEF IInv, BasicType
      <4> QED
        BY <2>1, <2>4, <2>5, <3>1, <4>1 DEF IInv, UploadsFit, UploadStates
    <3>2. ASSUME NEW a \in Stored'
          PROVE  rows'[a].size = Size[rows'[a].contentSha256]
      BY <1>1, <2>1, <2>4, <2>5, <2>7, <3>2 DEF IInv, UploadsFit
    <3> QED
      BY <3>1, <3>2 DEF UploadsFit
  <2>14. BlobsInv'
    <3>1. ASSUME NEW w \in Uploads, UploadAt(w, "complete")'
          PROVE  /\ objects[uploads'[w].id] # None
                 /\ objects[uploads'[w].id].content = uploads'[w].content
      BY <2>10, <3>1 DEF IInv, BlobsInv, UploadAt
    <3>2. ASSUME NEW a \in Stored'
          PROVE  objects[a] # None /\ objects[a].content = rows'[a].contentSha256
      BY <1>1, <2>4, <2>5, <2>7, <3>2 DEF IInv, BlobsInv
    <3> QED
      BY <1>1, <3>1, <3>2 DEF BlobsInv
  <2>15. FilesAreStored'
    <3>1. DOMAIN files' = 1 .. Len(files) + 1 /\ DOMAIN files = 1 .. Len(files)
      BY <2>9
    <3>2. \A i \in DOMAIN files' :
            files'[i] = IF i = Len(files) + 1 THEN id ELSE files[i]
      BY <2>9
    <3>3. Range(files') = Range(files) \cup {id}
      BY <2>9, <3>1, <3>2 DEF Range
    <3>4. \A i, j \in DOMAIN files' : i # j => files'[i] # files'[j]
      BY <2>1, <2>8, <3>1, <3>2
        DEF IInv, FilesAreStored, FilesAvailable, Range
    <3> QED
      BY <2>1, <2>7, <3>3, <3>4 DEF IInv, FilesAreStored, FilesAvailable
  <2>16. EditorsInv'
    BY <1>1, <2>2 DEF IInv, BasicType, EditorsInv, Readers, Savers
  <2>17. SentInv'
    BY <1>1, <2>1 DEF IInv, SentInv
  <2> QED
    BY <2>11, <2>12, <2>13, <2>14, <2>15, <2>16, <2>17 DEF IInv
<1> QED
  BY <1>2, <1>3

\* A save that passes keeps the invariant: it writes the files the draft has.
LEMMA UpdateStep ==
  ASSUME IInv, NEW e \in Editors, UpdateDraft(e)
  PROVE  IInv'
<1>1. /\ EditorAt(e, "save")
      /\ editors' = [editors EXCEPT ![e] = None]
      /\ UNCHANGED <<now, live, rows, receipts, sent, objects, uploads>>
  BY DEF UpdateDraft
<1>2. CASE ~IsCurrent(e)
  <2>1. UNCHANGED <<now, store, objects, uploads>>
    BY <1>1, <1>2 DEF UpdateDraft, store
  <2> QED
    BY <1>1, <2>1, EditorStep
<1>3. CASE IsCurrent(e)
  <2>1. files' = files /\ version' = version + 1 /\ version \in Nat
    BY <1>1, <1>3 DEF UpdateDraft, IsCurrent, EditorAt, IInv, EditorsInv, BasicType
  <2>2. Stored' = Stored /\ Used' = Used
    BY <1>1 DEF Stored, Existing, Used
  <2>3. BasicType'
    BY <1>1, <2>1 DEF IInv, BasicType
  <2>4. IdsInv' /\ UploadsFit' /\ BlobsInv' /\ FilesAreStored' /\ SentInv'
    BY <1>1, <2>1, <2>2 DEF IInv, IdsInv, UploadsFit, BlobsInv, UploadAt,
         FilesAreStored, FilesAvailable, SentInv, SentAsShown, SentIsReadable
  <2>5. EditorsInv'
    <3>1. \A f \in Editors : editors'[f] = IF f = e THEN None ELSE editors[f]
      BY <1>1 DEF IInv, BasicType
    <3>2. ASSUME NEW f \in Editors, editors'[f] # None
          PROVE  editors'[f].version <= version' /\ editors'[f].version # version'
      <4>1. /\ editors'[f] = editors[f] /\ editors[f] # None
            /\ editors[f].version <= version /\ editors[f].version \in Nat
        BY <3>1, <3>2 DEF IInv, BasicType, EditorsInv, Readers, Savers
      <4> QED
        BY <2>1, <4>1
    <3> QED
      BY <3>2 DEF EditorsInv
  <2> QED
    BY <2>3, <2>4, <2>5 DEF IInv
<1> QED
  BY <1>2, <1>3

\* A send keeps the invariant: it carries what its editor showed.
LEMMA ScheduleStep ==
  ASSUME IInv, NEW e \in Editors, ScheduleOutbound(e)
  PROVE  IInv'
<1>1. /\ EditorAt(e, "shown")
      /\ editors' = [editors EXCEPT ![e] = None]
      /\ UNCHANGED <<now, files, rows, receipts, objects, uploads>>
  BY DEF ScheduleOutbound
<1>2. CASE ~(IsCurrent(e) /\ FilesAvailable)
  <2>1. UNCHANGED <<now, store, objects, uploads>>
    BY <1>1, <1>2 DEF ScheduleOutbound, store
  <2> QED
    BY <1>1, <2>1, EditorStep
<1>3. CASE IsCurrent(e) /\ FilesAvailable
  <2> DEFINE carried == {<<a, rows[a].contentSha256>> : a \in Range(files)}
  <2>1. /\ sent' = [shown |-> editors[e].shown, carried |-> carried]
        /\ live' = FALSE
        /\ version' = version + 1
    BY <1>3 DEF ScheduleOutbound
  <2>2. /\ editors[e].shown = Stored /\ Range(files) = Stored
        /\ Stored \subseteq Attachments
    BY <1>1, <1>3 DEF IsCurrent, EditorAt, IInv, EditorsInv, FilesAreStored,
                      FilesAvailable, Stored, Existing
  <2>3. \A a \in Stored : rows[a] \in Rows
    BY DEF IInv, BasicType, Stored, Existing
  <2>4. carried \in SUBSET (Attachments \X (Contents \cup {None}))
    BY <2>2, <2>3 DEF Rows
  <2>5. \A a \in Stored : objects[a] # None /\ objects[a].content = rows[a].contentSha256
    BY DEF IInv, BlobsInv
  <2>6. sent'.shown = Stored /\ sent'.carried = carried
    BY <2>1, <2>2
  <2>7. SentAsShown'
    <3>1. ASSUME NEW a \in Range(files) PROVE a \in {file[1] : file \in carried}
      <4>1. <<a, rows[a].contentSha256>> \in carried
        OBVIOUS
      <4>2. PICK file \in carried : file[1] = a
        <5> HIDE DEF carried
        <5> QED
          BY <4>1
      <4> HIDE DEF carried
      <4> QED
        BY <4>2
    <3>2. ASSUME NEW file \in carried PROVE file[1] \in Range(files)
      <4>1. PICK a \in Range(files) : file = <<a, rows[a].contentSha256>>
        OBVIOUS
      <4> QED
        BY <4>1
    <3>3. {file[1] : file \in carried} = Range(files)
      BY <3>1, <3>2
    <3> HIDE DEF carried
    <3> QED
      BY <2>2, <2>6, <3>3 DEF SentAsShown
  <2>8. SentIsReadable'
    BY <1>1, <2>2, <2>5, <2>6 DEF SentIsReadable
  <2>9. BasicType'
    <3>1. sent' \in [shown : SUBSET Attachments,
                     carried : SUBSET (Attachments \X (Contents \cup {None}))]
      BY <2>1, <2>2, <2>4
    <3>2. version' \in Nat
      BY <2>1 DEF IInv, BasicType
    <3>3. live' \in BOOLEAN
      BY <2>1, Zenon
    <3> QED
      BY <1>1, <3>1, <3>2, <3>3 DEF IInv, BasicType
  <2>10. IdsInv' /\ UploadsFit' /\ BlobsInv' /\ FilesAreStored'
    BY <1>1, <2>1 DEF IInv, IdsInv, UploadsFit, BlobsInv, UploadAt, Used, Stored,
                      Existing, FilesAreStored
  <2>11. EditorsInv'
    <3>1. \A f \in Editors : editors'[f] = IF f = e THEN None ELSE editors[f]
      BY <1>1 DEF IInv, BasicType
    <3>2. ASSUME NEW f \in Editors, editors'[f] # None
          PROVE  editors'[f].version <= version'
      BY <2>1, <3>1, <3>2 DEF IInv, BasicType, EditorsInv, Readers, Savers
    <3> QED
      BY <2>1, <3>2 DEF EditorsInv
  <2> QED
    BY <2>1, <2>7, <2>8, <2>9, <2>10, <2>11 DEF IInv, SentInv
<1> QED
  BY <1>2, <1>3

-----------------------------------------------------------------------------
(* The invariant holds of every reachable state. *)

LEMMA InitInvariant == Init => IInv
<1> SUFFICES ASSUME Init PROVE IInv
  OBVIOUS
<1>1. Stored = {} /\ Range(files) = {}
  BY DEF Init, Stored, Existing, Range
<1>2. BasicType
  BY LimitsAssumption DEF Init, BasicType, Times
<1> QED
  BY <1>1, <1>2 DEF Init, IInv, IdsInv, UploadsFit, BlobsInv, UploadAt,
                    FilesAreStored, FilesAvailable, EditorsInv, SentInv

LEMMA NextInvariant == IInv /\ [Next]_vars => IInv'
<1> SUFFICES ASSUME IInv, [Next]_vars PROVE IInv'
  OBVIOUS
<1>1. ASSUME NEW o \in Operations, NEW size \in Sizes, Reserve(o, size) PROVE IInv'
  BY <1>1, ReserveStep
<1>2. ASSUME NEW u \in Uploads, NEW a \in Attachments, NEW c \in Contents,
             GetDraftAttachment(u, a, c)
      PROVE  IInv'
  BY <1>2, GetStep
<1>3. ASSUME NEW u \in Uploads,
             StoreBlob(u) \/ CompleteDraftAttachment(u) \/ UploadStops(u)
      PROVE  IInv'
  BY <1>3, StoreBlobStep, CompleteStep, GetStep
<1>4. ASSUME NEW e \in Editors,
             \/ OpenDraft(e) \/ ListDraftAttachments(e) \/ CheckDraft(e)
             \/ ReadExisting(e) \/ EditorStops(e)
      PROVE  IInv'
  BY <1>4, ShowingStep
<1>5. ASSUME NEW e \in Editors, UpdateDraft(e) \/ ScheduleOutbound(e) PROVE IInv'
  BY <1>5, UpdateStep, ScheduleStep
<1>6. CASE Clock \/ UNCHANGED vars
  <2>1. now' \in Times /\ UNCHANGED <<store, objects, uploads, editors>>
    BY <1>6 DEF Clock, vars, IInv, BasicType
  <2> QED
    BY <2>1 DEF IInv, BasicType, IdsInv, Used, UploadsFit, BlobsInv, UploadAt,
                FilesAreStored, FilesAvailable, EditorsInv, SentInv, SentAsShown,
                SentIsReadable, Stored, Existing, store
<1> QED
  BY <1>1, <1>2, <1>3, <1>4, <1>5, <1>6 DEF Next

THEOREM InvariantHolds == Spec => []IInv
BY InitInvariant, NextInvariant, PTL DEF Spec

\* Every variable has its type, and stored rows the size of their content.
THEOREM TypeCorrect == Spec => []TypeOK
<1>1. IInv => TypeOK
  BY DEF IInv, BasicType, UploadsFit, TypeOK
<1> QED
  BY <1>1, InvariantHolds, PTL

\* No save drops a file completed meanwhile, and no send meets an unavailable one.
THEOREM FilesStayStored == Spec => []FilesAreStored
<1>1. IInv => FilesAreStored
  BY DEF IInv
<1> QED
  BY <1>1, InvariantHolds, PTL

\* A draft is sent with the files its sender saw.
THEOREM SendsWhatIsShown == Spec => []SentAsShown
<1>1. IInv => SentAsShown
  BY DEF IInv, SentInv, SentAsShown
<1> QED
  BY <1>1, InvariantHolds, PTL

\* R2 has the content of every file that was sent.
THEOREM SendsWhatIsReadable == Spec => []SentIsReadable
<1>1. IInv => SentIsReadable
  BY DEF IInv, SentInv, SentIsReadable
<1> QED
  BY <1>1, InvariantHolds, PTL

\* A repeated reserve command holds one place.
THEOREM OnePlace == Spec => []OnePlacePerOperation
<1>1. IInv => OnePlacePerOperation
  BY DEF IInv, IdsInv, OnePlacePerOperation, Existing
<1> QED
  BY <1>1, InvariantHolds, PTL

\* A stored file is never replaced nor removed.
THEOREM StoredStays == Spec => StoredIsFinal
<1> DEFINE Final == \A a \in Stored : rows'[a] = rows[a]
<1>1. IInv /\ [Next]_vars => [Final]_vars
  <2> SUFFICES ASSUME IInv, [Next]_vars PROVE Final
    OBVIOUS
  <2>1. CASE rows' = rows
    BY <2>1
  <2>2. ASSUME NEW o \in Operations, NEW size \in Sizes, Reserve(o, size) PROVE Final
    BY <2>2 DEF Reserve, FreshIds, Stored, Existing, Removed, Expired
  <2>3. ASSUME NEW u \in Uploads, CompleteDraftAttachment(u) PROVE Final
    <3>1. CASE MayComplete(u)
      <4>1. rows' = [rows EXCEPT ![uploads[u].id].contentSha256 = uploads[u].content]
        BY <2>3, <3>1 DEF CompleteDraftAttachment
      <4> QED
        BY <3>1, <4>1 DEF MayComplete, Stored, Existing, IInv, BasicType
    <3>2. CASE ~MayComplete(u)
      BY <2>1, <2>3, <3>2 DEF CompleteDraftAttachment
    <3> QED
      BY <3>1, <3>2
  <2>4. ASSUME NEW u \in Uploads,
               \/ \E a \in Attachments, c \in Contents : GetDraftAttachment(u, a, c)
               \/ StoreBlob(u) \/ UploadStops(u)
        PROVE  rows' = rows
    BY <2>4 DEF GetDraftAttachment, StoreBlob, UploadStops, store
  <2>5. ASSUME NEW e \in Editors,
               \/ OpenDraft(e) \/ ListDraftAttachments(e) \/ CheckDraft(e)
               \/ ReadExisting(e) \/ UpdateDraft(e) \/ ScheduleOutbound(e)
               \/ EditorStops(e)
        PROVE  rows' = rows
    BY <2>5 DEF OpenDraft, ListDraftAttachments, CheckDraft, ReadExisting, UpdateDraft,
                ScheduleOutbound, EditorStops, store
  <2>6. Clock \/ UNCHANGED vars => rows' = rows
    BY DEF Clock, vars, store
  <2> HIDE DEF Final
  <2> QED
    BY <2>1, <2>2, <2>3, <2>4, <2>5, <2>6 DEF Next
<1> QED
  BY <1>1, InvariantHolds, PTL DEF Spec, StoredIsFinal

-----------------------------------------------------------------------------
(* The limits.  Completing makes no row and resizes none, and reserving counts *)
(* every row it keeps, so all rows, reserved ones included, are within them.   *)

RoomInv == Cardinality(Existing) <= MaxCount /\ TotalSize(Existing) <= MaxBytes

\* Any set of attachments is finite and its cardinality a number.
LEMMA AttachmentSets ==
  ASSUME NEW S \in SUBSET Attachments
  PROVE  IsFiniteSet(S) /\ Cardinality(S) \in Nat
BY FiniteAssumption, FS_Subset, FS_CardinalityType

\* The bytes of one file are as many as its size.
LEMMA FileBytes ==
  ASSUME NEW a, NEW n \in Nat
  PROVE  IsFiniteSet({a} \X (1 .. n)) /\ Cardinality({a} \X (1 .. n)) = n
<1>1. IsFiniteSet({a}) /\ Cardinality({a}) = 1
  BY FS_Singleton
<1>2. IsFiniteSet(1 .. n) /\ Cardinality(1 .. n) = n
  BY FS_Interval
<1>3. /\ IsFiniteSet({a} \X (1 .. n))
      /\ Cardinality({a} \X (1 .. n)) = Cardinality({a}) * Cardinality(1 .. n)
  BY <1>1, <1>2, FS_Product
<1> QED
  BY <1>1, <1>2, <1>3

\* The total size of files that exist is a number, and less for fewer files.
LEMMA SizesAdd ==
  ASSUME BasicType, NEW S, S \subseteq Existing
  PROVE  /\ IsFiniteSet(Bytes(S)) /\ TotalSize(S) \in Nat
         /\ \A T \in SUBSET S : TotalSize(T) <= TotalSize(S)
<1> DEFINE piece == [a \in S |-> {a} \X (1 .. rows[a].size)]
           pieces == {{a} \X (1 .. rows[a].size) : a \in S}
<1>1. IsFiniteSet(S)
  BY AttachmentSets DEF Existing
<1>2. \A a \in S : rows[a].size \in Nat
  BY SizeAssumption DEF BasicType, Existing, Rows, Sizes
<1>3. piece \in Surjection(S, pieces)
  BY DEF Surjection
<1>4. IsFiniteSet(pieces)
  BY <1>1, <1>3, FS_Surjection
<1>5. \A P \in pieces : IsFiniteSet(P)
  <2>1. \A a \in S : IsFiniteSet({a} \X (1 .. rows[a].size))
    BY <1>2, FileBytes
  <2> QED
    BY <2>1
<1>6. IsFiniteSet(Bytes(S))
  BY <1>4, <1>5, FS_UNION DEF Bytes
<1>7. \A T \in SUBSET S : Bytes(T) \subseteq Bytes(S)
  BY DEF Bytes
<1> QED
  BY <1>6, <1>7, FS_Subset, FS_CardinalityType DEF TotalSize

\* The rows after a reservation: those it kept, and its own.
LEMMA ReserveStaysInRoom ==
  ASSUME IInv, NEW o \in Operations, NEW size \in Sizes, Reserve(o, size)
  PROVE  RoomInv'
<1> DEFINE kept == Existing \ Removed
<1>1. PICK id \in FreshIds :
        rows' = [a \in Attachments |->
          IF a = id
          THEN [operation |-> o, size |-> size, createdAt |-> now,
                expiresAt |-> now + Ttl, contentSha256 |-> None]
          ELSE IF a \in Removed THEN None ELSE rows[a]]
  BY DEF Reserve
<1>2. Cardinality(Active) < MaxCount /\ TotalSize(Active) + size <= MaxBytes
  BY DEF Reserve, HasRoom
<1>3. kept \subseteq Active /\ Active \subseteq Existing /\ id \in Attachments
  BY DEF Active, Existing, Removed, Expired, Stored, IInv, BasicType, Rows, Times,
         FreshIds
<1>4. /\ id \notin kept
      /\ Existing' \subseteq kept \cup {id}
      /\ \A a \in kept : a \in Attachments /\ rows'[a] = rows[a]
      /\ rows'[id].size = size
  BY <1>1 DEF Existing, FreshIds
<1>5. kept \in SUBSET Attachments /\ Existing' \in SUBSET Attachments /\ Active \in SUBSET Attachments
  BY <1>3 DEF Existing
<1>6. Cardinality(Existing') <= MaxCount
  <2>1. Cardinality(kept) <= Cardinality(Active)
    BY <1>3, <1>5, AttachmentSets, FS_Subset
  <2>2. Cardinality(kept \cup {id}) = Cardinality(kept) + 1 /\ IsFiniteSet(kept \cup {id})
    BY <1>4, <1>5, AttachmentSets, FS_AddElement
  <2>3. Cardinality(Existing') <= Cardinality(kept \cup {id})
    BY <1>4, <2>2, FS_Subset
  <2> QED
    BY <1>2, <1>5, <2>1, <2>2, <2>3, AttachmentSets, LimitsAssumption
<1>7. TotalSize(Existing)' <= MaxBytes
  <2> DEFINE old == Bytes(Active)
             new == {id} \X (1 .. size)
  <2>1. size \in Nat
    BY SizeAssumption DEF Sizes
  <2>2. IsFiniteSet(old) /\ Cardinality(old) \in Nat /\ Cardinality(old) + size <= MaxBytes
    BY <1>2, <1>3, SizesAdd DEF IInv, TotalSize
  <2>3. IsFiniteSet(new) /\ Cardinality(new) = size
    BY <2>1, FileBytes
  <2>4. IsFiniteSet(old \cup new) /\ Cardinality(old \cup new) <= Cardinality(old) + size
    <3>1. /\ IsFiniteSet(old \cup new)
          /\ Cardinality(old \cup new) = Cardinality(old) + Cardinality(new) - Cardinality(old \cap new)
      BY <2>2, <2>3, FS_Union
    <3>2. Cardinality(old \cap new) \in Nat
      BY <2>2, FS_Intersection, FS_CardinalityType
    <3> HIDE DEF old, new
    <3> QED
      BY <2>1, <2>2, <2>3, <3>1, <3>2
  <2>5. Bytes(Existing)' \subseteq old \cup new
    BY <1>3, <1>4 DEF Bytes
  <2>6. Cardinality(Bytes(Existing)') <= Cardinality(old \cup new)
        /\ Cardinality(Bytes(Existing)') \in Nat /\ Cardinality(old \cup new) \in Nat
    BY <2>4, <2>5, FS_Subset, FS_CardinalityType
  <2> HIDE DEF old, new
  <2> QED
    BY <2>1, <2>2, <2>4, <2>6, LimitsAssumption DEF TotalSize
<1> QED
  BY <1>6, <1>7 DEF RoomInv

\* No other step makes a row, removes one or changes its size.
LEMMA OthersKeepRows ==
  ASSUME IInv, [Next]_vars,
         ~ \E o \in Operations, size \in Sizes : Reserve(o, size)
  PROVE  Existing' = Existing /\ \A a \in Existing : rows'[a].size = rows[a].size
<1> DEFINE Kept == Existing' = Existing /\ \A a \in Existing : rows'[a].size = rows[a].size
<1>1. rows' = rows => Kept
  BY DEF Existing
<1>2. ASSUME NEW u \in Uploads, CompleteDraftAttachment(u) PROVE Kept
  <2>1. CASE MayComplete(u)
    <3> DEFINE id == uploads[u].id
               row == [rows[id] EXCEPT !.contentSha256 = uploads[u].content]
    <3>1. /\ rows' = [rows EXCEPT ![id] = row]
          /\ UploadAt(u, "complete")
      BY <1>2, <2>1 DEF CompleteDraftAttachment
    <3>2. uploads[u] \in UploadStates
      BY <3>1 DEF UploadAt, IInv, BasicType
    <3>3. id \in Attachments /\ uploads[u].content \in Contents
      BY <3>2 DEF UploadStates
    <3>4. rows[id] \in Rows /\ rows[id] # None
      BY <2>1, <3>3 DEF MayComplete, IInv, BasicType
    <3>5. row \in Rows /\ row.size = rows[id].size
      BY <3>3, <3>4 DEF Rows
    <3>6. row # None
      BY <3>5, NoneAssumption
    <3> HIDE DEF id, row
    <3>7. \A a \in Attachments : rows'[a] = IF a = id THEN row ELSE rows[a]
      BY <3>1 DEF IInv, BasicType
    <3> QED
      BY <3>4, <3>5, <3>6, <3>7 DEF Existing
  <2>2. CASE ~MayComplete(u)
    BY <1>1, <1>2, <2>2 DEF CompleteDraftAttachment
  <2> QED
    BY <2>1, <2>2
<1>3. ASSUME NEW u \in Uploads,
             \/ \E a \in Attachments, c \in Contents : GetDraftAttachment(u, a, c)
             \/ StoreBlob(u) \/ UploadStops(u)
      PROVE  rows' = rows
  BY <1>3 DEF GetDraftAttachment, StoreBlob, UploadStops, store
<1>4. ASSUME NEW e \in Editors,
             \/ OpenDraft(e) \/ ListDraftAttachments(e) \/ CheckDraft(e)
             \/ ReadExisting(e) \/ UpdateDraft(e) \/ ScheduleOutbound(e)
             \/ EditorStops(e)
      PROVE  rows' = rows
  BY <1>4 DEF OpenDraft, ListDraftAttachments, CheckDraft, ReadExisting, UpdateDraft,
              ScheduleOutbound, EditorStops, store
<1>5. Clock \/ UNCHANGED vars => rows' = rows
  BY DEF Clock, vars, store
<1> HIDE DEF Kept
<1>6. Kept
  BY <1>1, <1>2, <1>3, <1>4, <1>5 DEF Next
<1> QED
  BY <1>6 DEF Kept

\* A draft has neither more files nor more bytes than its limits, whatever the
\* clock does and however many reservations and uploads are at work.
THEOREM LimitsHold == Spec => []WithinLimits
<1>1. Init => RoomInv
  <2> SUFFICES ASSUME Init PROVE RoomInv
    OBVIOUS
  <2>1. Existing = {}
    BY DEF Init, Existing
  <2>2. Bytes(Existing) = {}
    BY <2>1 DEF Bytes
  <2> QED
    BY <2>1, <2>2, FS_EmptySet, LimitsAssumption DEF RoomInv, TotalSize
<1>2. IInv /\ RoomInv /\ [Next]_vars => RoomInv'
  <2> SUFFICES ASSUME IInv, RoomInv, [Next]_vars PROVE RoomInv'
    OBVIOUS
  <2>1. CASE \E o \in Operations, size \in Sizes : Reserve(o, size)
    BY <2>1, ReserveStaysInRoom
  <2>2. CASE ~ \E o \in Operations, size \in Sizes : Reserve(o, size)
    <3>1. Existing' = Existing /\ \A a \in Existing : rows'[a].size = rows[a].size
      BY <2>2, OthersKeepRows
    <3>2. Bytes(Existing)' = Bytes(Existing)
      BY <3>1 DEF Bytes
    <3> QED
      BY <3>1, <3>2 DEF RoomInv, TotalSize
  <2> QED
    BY <2>1, <2>2
<1>3. IInv /\ RoomInv => WithinLimits
  <2> SUFFICES ASSUME IInv, RoomInv PROVE WithinLimits
    OBVIOUS
  <2>1. Stored \subseteq Existing /\ Existing \in SUBSET Attachments /\ Stored \in SUBSET Attachments
    BY DEF Stored, Existing
  <2>2. Cardinality(Stored) <= Cardinality(Existing)
    BY <2>1, AttachmentSets, FS_Subset
  <2>3. /\ TotalSize(Stored) <= TotalSize(Existing)
        /\ TotalSize(Stored) \in Nat /\ TotalSize(Existing) \in Nat
    BY <2>1, SizesAdd DEF IInv
  <2> QED
    BY <2>1, <2>2, <2>3, AttachmentSets, LimitsAssumption DEF RoomInv, WithinLimits
<1> QED
  BY <1>1, <1>2, <1>3, InvariantHolds, PTL DEF Spec

=============================================================================
