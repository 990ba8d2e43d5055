-------------------------- MODULE DraftAttachments --------------------------
(***************************************************************************)
(* The files of one draft.  The browser reserves a place, the Worker puts  *)
(* the bytes into R2 and then asks the mailbox object to complete the      *)
(* reservation, which adds the file to the draft and raises its version.   *)
(* Meanwhile other requests show the draft, save it and send it.           *)
(*                                                                         *)
(* Only the statements inside one SQLite transaction are atomic: an upload *)
(* reads the reservation, writes R2 and completes in three steps; a save   *)
(* reads the draft's files before the transaction that writes them back;   *)
(* the draft is shown from three reads.  A request may stop after any step *)
(* or be arbitrarily slow, so that a request whose client gave up and      *)
(* tried again is one more request at work.                                *)
(***************************************************************************)
EXTENDS Integers, FiniteSets, Sequences, Functions

CONSTANTS
  Attachments,  \* ids of attachments, drawn at random by the mailbox object
  Operations,   \* operation ids of reserve commands
  Contents,     \* contents of files, each identified with its SHA-256
  Size,         \* the size of each content
  Uploads,      \* upload requests at work at once
  Editors,      \* browsers that show, save and send the draft
  MaxCount,     \* draftAttachmentMaxCount
  MaxBytes,     \* draftAttachmentMaxTotalBytes
  Ttl,          \* draftAttachmentReservationTtlMillis
  MaxTime,      \* bound on the clock
  MaxVersion,   \* bound on the versions that saves make
  None          \* no row, object, receipt or request

ASSUME FiniteAssumption == IsFiniteSet(Attachments)
ASSUME SizeAssumption == Size \in [Contents -> Nat \ {0}]
ASSUME LimitsAssumption ==
  /\ MaxCount \in Nat
  /\ MaxBytes \in Nat
  /\ Ttl \in Nat \ {0}
  /\ MaxTime \in Nat
  /\ MaxVersion \in Nat
Times == 0 .. MaxTime
Sizes == {Size[c] : c \in Contents}

\* A draft_attachment row as its decoder takes it; "stored" when it has a digest.
\* operation, the command that made it, is not in the row but in its receipt.
Rows == {r \in [operation : Operations, size : Sizes, createdAt : Times,
                expiresAt : Nat, contentSha256 : Contents \cup {None}] :
           r.expiresAt > r.createdAt}

\* An R2 object, with the metadata that depends on the upload.
Objects == [content : Contents, expiresAt : Nat]

ASSUME NoneAssumption == None \notin Attachments \cup Contents \cup Rows \cup Objects

\* An upload past getDraftAttachment: about to put or about to complete.
UploadStates == [stage : {"put", "complete"}, id : Attachments,
                 content : Contents, expiresAt : Nat]

\* An editor between the reads of loadConsistentDraft ("list", "check") or with the
\* draft on its screen ("shown"), and one whose save has read the draft's files.
Readers == [stage : {"list", "check", "shown"}, version : Nat,
            shown : SUBSET Attachments]
Savers == [stage : {"save"}, version : Nat, existing : Seq(Attachments)]

VARIABLES
  now,       \* runtime.now(), a wall clock
  version,   \* draft.version
  files,     \* draft.attachmentIdsJson
  live,      \* whether draft.deletedAt is null
  rows,      \* the draft_attachment rows
  receipts,  \* the mailbox_operation rows: which attachment a reserve command made
  objects,   \* the R2 bucket
  uploads,   \* the upload requests
  editors,   \* the browsers
  sent       \* the message made of the draft: what it carries and what was shown

store == <<version, files, live, rows, receipts, sent>>
vars == <<now, store, objects, uploads, editors>>

Init ==
  /\ now = 0
  /\ version = 1
  /\ files = <<>>
  /\ live = TRUE
  /\ rows = [a \in Attachments |-> None]
  /\ receipts = [o \in Operations |-> None]
  /\ objects = [a \in Attachments |-> None]
  /\ uploads = [u \in Uploads |-> None]
  /\ editors = [e \in Editors |-> None]
  /\ sent = None

-----------------------------------------------------------------------------
(* Rows. *)

Existing == {a \in Attachments : rows[a] # None}
Stored == {a \in Existing : rows[a].contentSha256 # None}
Expired(a) == rows[a].contentSha256 = None /\ rows[a].expiresAt <= now

\* A reservation that has expired gives its place away when the next is made.
Removed == {a \in Existing : Expired(a)}

\* Mutant of Active: a place that is reserved does not count.
ActiveIfStored == Stored

Active == Stored \cup {a \in Existing : rows[a].expiresAt > now}

\* The sum of the files' sizes: how many bytes they have.
Bytes(S) == UNION {{a} \X (1 .. rows[a].size) : a \in S}
TotalSize(S) == Cardinality(Bytes(S))

-----------------------------------------------------------------------------
(* Reserving a place, one transaction. *)

\* A command that was executed answers with the reservation it made then.
IsReplay(o) == receipts[o] # None

HasRoom(size) ==
  /\ Cardinality(Active) < MaxCount
  /\ TotalSize(Active) + size <= MaxBytes

\* randomId never repeats: neither a row nor a receipt nor an object has the id.
FreshIds == {a \in Attachments : rows[a] = None /\ objects[a] = None
                                 /\ \A o \in Operations : receipts[o] # a}

Reserve(o, size) ==
  /\ ~IsReplay(o)
  /\ live
  /\ HasRoom(size)
  /\ \E id \in FreshIds :
       /\ rows' = [a \in Attachments |->
            IF a = id
            THEN [operation |-> o, size |-> size, createdAt |-> now,
                  expiresAt |-> now + Ttl, contentSha256 |-> None]
            ELSE IF a \in Removed THEN None ELSE rows[a]]
       /\ receipts' = [receipts EXCEPT ![o] = id]
  /\ UNCHANGED <<now, version, files, live, sent, objects, uploads, editors>>

-----------------------------------------------------------------------------
(* Uploading: the reservation is read, R2 is written, the row is completed. *)

UploadAt(u, stage) == uploads[u] # None /\ uploads[u].stage = stage

\* Mutant of Fits: the content may be smaller than what was reserved.
FitsIfSmaller(id, content) == Size[content] <= rows[id].size

Fits(id, content) == Size[content] = rows[id].size

GetDraftAttachment(u, id, content) ==
  /\ uploads[u] = None
  /\ rows[id] # None
  /\ ~Expired(id)
  /\ Fits(id, content)
  /\ uploads' = [uploads EXCEPT ![u] =
       [stage |-> "put", id |-> id, content |-> content,
        expiresAt |-> rows[id].expiresAt]]
  /\ UNCHANGED <<now, store, objects, editors>>

\* Mutant of MayPut: an object that exists is replaced.
MayReplace(id) == TRUE

\* put with onlyIf etagDoesNotMatch "*": only where there is no object.
MayPut(id) == objects[id] = None

ObjectMatches(u) ==
  /\ objects[uploads[u].id].content = uploads[u].content
  /\ objects[uploads[u].id].expiresAt = uploads[u].expiresAt

\* The object is put, or the one that is there (an earlier request's, whose answer
\* may have been lost) is compared with what would have been put.
StoreBlob(u) ==
  /\ UploadAt(u, "put")
  /\ \/ /\ MayPut(uploads[u].id)
        /\ objects' = [objects EXCEPT ![uploads[u].id] =
             [content |-> uploads[u].content, expiresAt |-> uploads[u].expiresAt]]
        /\ \/ uploads' = [uploads EXCEPT ![u].stage = "complete"]
           \/ uploads' = [uploads EXCEPT ![u] = None]   \* the answer is lost
     \/ /\ ~MayPut(uploads[u].id)
        /\ uploads' = IF ObjectMatches(u)
                      THEN [uploads EXCEPT ![u].stage = "complete"]
                      ELSE [uploads EXCEPT ![u] = None]
        /\ UNCHANGED objects
  /\ UNCHANGED <<now, store, editors>>

NextVersion == version + 1

\* A row that has a digest answers as it is, or refuses another digest.  storedAt
\* may not be before createdAt: with the clock set back the row cannot be written.
MayComplete(u) ==
  /\ rows[uploads[u].id] # None
  /\ live
  /\ rows[uploads[u].id].contentSha256 = None
  /\ rows[uploads[u].id].expiresAt > now
  /\ rows[uploads[u].id].createdAt <= now

CompleteDraftAttachment(u) ==
  /\ UploadAt(u, "complete")
  /\ IF MayComplete(u)
     THEN /\ rows' = [rows EXCEPT ![uploads[u].id].contentSha256 = uploads[u].content]
          /\ files' = IF uploads[u].id \in Range(files)
                      THEN files ELSE Append(files, uploads[u].id)
          /\ version' = NextVersion
     ELSE UNCHANGED <<rows, files, version>>
  /\ uploads' = [uploads EXCEPT ![u] = None]
  /\ UNCHANGED <<now, live, receipts, sent, objects, editors>>

\* The Worker, or its connection to the object, ends.
UploadStops(u) ==
  /\ uploads[u] # None
  /\ uploads' = [uploads EXCEPT ![u] = None]
  /\ UNCHANGED <<now, store, objects, editors>>

-----------------------------------------------------------------------------
(* Showing the draft: its version is read, then its files, then its version   *)
(* again.  If the two differ the reads are done anew, by opening it again.    *)

EditorAt(e, stage) == editors[e] # None /\ editors[e].stage = stage

OpenDraft(e) ==
  /\ editors[e] = None \/ EditorAt(e, "shown")
  /\ live
  /\ editors' = [editors EXCEPT ![e] =
       [stage |-> "list", version |-> version, shown |-> {}]]
  /\ UNCHANGED <<now, store, objects, uploads>>

ListDraftAttachments(e) ==
  /\ EditorAt(e, "list")
  /\ editors' = [editors EXCEPT ![e] =
       IF live THEN [@ EXCEPT !.stage = "check", !.shown = Stored] ELSE None]
  /\ UNCHANGED <<now, store, objects, uploads>>

\* Mutant of IsConsistent: the versions are not compared.
IsConsistentAnyway(e) == live

IsConsistent(e) == live /\ editors[e].version = version

CheckDraft(e) ==
  /\ EditorAt(e, "check")
  /\ editors' = [editors EXCEPT ![e] =
       IF IsConsistent(e) /\ editors[e].shown \subseteq Range(files)
       THEN [@ EXCEPT !.stage = "shown", !.version = version]
       ELSE None]
  /\ UNCHANGED <<now, store, objects, uploads>>

-----------------------------------------------------------------------------
(* Saving and sending the draft that is shown.  The files a save writes are   *)
(* those it read before its transaction.                                      *)

ReadExisting(e) ==
  /\ EditorAt(e, "shown")
  /\ version < MaxVersion
  /\ editors' = [editors EXCEPT ![e] =
       IF live
       THEN [stage |-> "save", version |-> editors[e].version, existing |-> files]
       ELSE None]
  /\ UNCHANGED <<now, store, objects, uploads>>

\* Mutant of IsCurrent: the version the client expects is not looked at.
IsCurrentAnyway(e) == live

IsCurrent(e) == live /\ version = editors[e].version

\* The browser then shows what a new loadConsistentDraft finds.
UpdateDraft(e) ==
  /\ EditorAt(e, "save")
  /\ IF IsCurrent(e)
     THEN /\ files' = editors[e].existing
          /\ version' = version + 1
     ELSE UNCHANGED <<files, version>>
  /\ editors' = [editors EXCEPT ![e] = None]
  /\ UNCHANGED <<now, live, rows, receipts, sent, objects, uploads>>

\* Every file of the draft is stored and named once, else the send is refused.
FilesAvailable ==
  /\ \A i, j \in DOMAIN files : i # j => files[i] # files[j]
  /\ Range(files) \subseteq Stored

\* The draft becomes a message with copies of its rows, and is deleted.
ScheduleOutbound(e) ==
  /\ EditorAt(e, "shown")
  /\ IF IsCurrent(e) /\ FilesAvailable
     THEN /\ sent' = [shown |-> editors[e].shown,
                      carried |-> {<<a, rows[a].contentSha256>> : a \in Range(files)}]
          /\ live' = FALSE
          /\ version' = version + 1
     ELSE UNCHANGED <<sent, live, version>>
  /\ editors' = [editors EXCEPT ![e] = None]
  /\ UNCHANGED <<now, files, rows, receipts, objects, uploads>>

\* A request of the browser ends without an answer, or its tab is closed.
EditorStops(e) ==
  /\ editors[e] # None
  /\ editors' = [editors EXCEPT ![e] = None]
  /\ UNCHANGED <<now, store, objects, uploads>>

-----------------------------------------------------------------------------
(* The wall clock goes forward, or is set back. *)

Clock ==
  /\ \E t \in {now - 1, now + 1} : t \in Times /\ now' = t
  /\ UNCHANGED <<store, objects, uploads, editors>>

Next ==
  \/ \E o \in Operations, size \in Sizes : Reserve(o, size)
  \/ \E u \in Uploads, a \in Attachments, c \in Contents : GetDraftAttachment(u, a, c)
  \/ \E u \in Uploads :
       \/ StoreBlob(u)
       \/ CompleteDraftAttachment(u)
       \/ UploadStops(u)
  \/ \E e \in Editors :
       \/ OpenDraft(e)
       \/ ListDraftAttachments(e)
       \/ CheckDraft(e)
       \/ ReadExisting(e)
       \/ UpdateDraft(e)
       \/ ScheduleOutbound(e)
       \/ EditorStops(e)
  \/ Clock

Spec == Init /\ [][Next]_vars

-----------------------------------------------------------------------------
(* Properties. *)

\* Every variable has its type, and a stored row the size of its content.
TypeOK ==
  /\ now \in Times
  /\ version \in Nat
  /\ files \in Seq(Attachments)
  /\ live \in BOOLEAN
  /\ rows \in [Attachments -> Rows \cup {None}]
  /\ \A a \in Stored : rows[a].size = Size[rows[a].contentSha256]
  /\ receipts \in [Operations -> Attachments \cup {None}]
  /\ objects \in [Attachments -> Objects \cup {None}]
  /\ uploads \in [Uploads -> UploadStates \cup {None}]
  /\ editors \in [Editors -> Readers \cup Savers \cup {None}]
  /\ \/ sent = None
     \/ sent \in [shown : SUBSET Attachments,
                  carried : SUBSET (Attachments \X (Contents \cup {None}))]

\* A draft names every file that was stored for it, each once, and no other: no
\* save, however slow, drops a file completed meanwhile, and no send is refused
\* because "Draft contains an unavailable attachment".
FilesAreStored ==
  live => FilesAvailable /\ Stored \subseteq Range(files)

\* The files stored for a draft are never more, nor larger together, than its
\* limits, also when reservations expire, revive as the clock is set back, or are
\* completed late.
WithinLimits ==
  /\ Cardinality(Stored) <= MaxCount
  /\ TotalSize(Stored) <= MaxBytes

\* A draft is sent with exactly the files that were on the screen of the editor
\* that sent it, whatever was uploaded while it was read or afterwards.
SentAsShown ==
  sent # None => sent.shown = {file[1] : file \in sent.carried}

\* Of every file of a message R2 has the very content whose digest the message
\* carries: concurrent uploads of one reservation with different contents, and
\* uploads whose answer was lost, leave no file the dispatcher would refuse.
SentIsReadable ==
  sent # None =>
    \A file \in sent.carried :
      objects[file[1]] # None /\ objects[file[1]].content = file[2]

\* A reserve command that is repeated holds one place, not two.
OnePlacePerOperation ==
  \A a, b \in Existing : rows[a].operation = rows[b].operation => a = b

\* A file that was stored is neither replaced nor removed, by any later upload,
\* reservation or expiry: what an editor showed remains what it is.
StoredIsFinal ==
  [][\A a \in Stored : rows'[a] = rows[a]]_vars

=============================================================================
