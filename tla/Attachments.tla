----------------------------- MODULE Attachments -----------------------------
(***************************************************************************)
(* The attachments of an entry: presigned uploads to the object store, the *)
(* rows of attachments, and the bytes the tenant has used.                 *)
(*                                                                         *)
(* One entry of one tenant; sizes are in units of the quota.  The object   *)
(* store is external: it keeps what is put under a key it was given.       *)
(***************************************************************************)
EXTENDS Integers, FiniteSetsExt

CONSTANTS
  File,      \* uploads, each under a storage key of its own
  Size,      \* what a file may weigh
  Limit,     \* of the tenant's plan
  Deleter,   \* requests softDeleteAttachment in flight
  None

VARIABLES
  entryLive,   \* the entry is not soft-deleted
  upload,      \* where the browser stands with each file
  objects,     \* keys the object store holds something under
  attachment,  \* the row of each file
  usedBytes,   \* public.tenant_storage_usage
  deleting,    \* each request that passed the checks of softDeleteAttachment
  overlapped   \* files two such requests deleted, both having seen them undeleted (history)

vars == <<entryLive, upload, objects, attachment, usedBytes, deleting, overlapped>>

Init ==
  /\ entryLive = TRUE
  /\ upload = [f \in File |-> None]
  /\ objects = {}
  /\ attachment = [f \in File |-> None]
  /\ usedBytes = 0
  /\ deleting = [d \in Deleter |-> None]
  /\ overlapped = {}

\* Entries are deleted and restored beside this component.
ToggleEntry ==
  /\ entryLive' = ~entryLive
  /\ UNCHANGED <<upload, objects, attachment, usedBytes, deleting, overlapped>>

-----------------------------------------------------------------------------
\* generatePresignedUrl: the quota is read, and nothing is reserved.
Presign(f, size) ==
  /\ upload[f] = None
  /\ entryLive /\ usedBytes + size <= Limit
  /\ upload' = [upload EXCEPT ![f] = size]
  /\ UNCHANGED <<entryLive, objects, attachment, usedBytes, deleting, overlapped>>

\* uploadWithProgress, retried by retryUpload: the same object again.
Put(f) ==
  /\ upload[f] # None
  /\ objects' = objects \cup {f}
  /\ UNCHANGED <<entryLive, upload, attachment, usedBytes, deleting, overlapped>>

\* registerAttachment: the row and the bytes in one transaction, which the unique storage
\* key refuses a second time; nobody asks the object store or the quota.
Register(f) ==
  /\ f \in objects /\ entryLive
  /\ attachment[f] = None
  /\ attachment' = [attachment EXCEPT ![f] = [size |-> upload[f], deleted |-> FALSE]]
  /\ usedBytes' = usedBytes + upload[f]
  /\ UNCHANGED <<entryLive, upload, objects, deleting, overlapped>>

-----------------------------------------------------------------------------
\* Mutant of Removable: what is deleted already may be deleted again.
RemovableAgain(f) == entryLive /\ attachment[f] # None

\* The checks of softDeleteAttachment: an attachment of a deleted entry is not found.
Removable(f) == entryLive /\ attachment[f] # None /\ ~attachment[f].deleted

DeleteCheck(d, f) ==
  /\ deleting[d] = None /\ Removable(f)
  /\ deleting' = [deleting EXCEPT ![d] = [file |-> f, sawIt |-> ~attachment[f].deleted]]
  /\ UNCHANGED <<entryLive, upload, objects, attachment, usedBytes, overlapped>>

\* Its transaction: deleted_at is set on what is not deleted, and the bytes are given back
\* in any case.  The object stays.
DeleteCommit(d) ==
  /\ deleting[d] # None
  /\ LET f == deleting[d].file
     IN  /\ attachment' = [attachment EXCEPT ![f].deleted = TRUE]
         /\ usedBytes' = Max({0, usedBytes - attachment[f].size})
         /\ overlapped' = IF attachment[f].deleted /\ deleting[d].sawIt THEN overlapped \cup {f} ELSE overlapped
  /\ deleting' = [deleting EXCEPT ![d] = None]
  /\ UNCHANGED <<entryLive, upload, objects>>

DeleteFails(d) ==
  /\ deleting[d] # None
  /\ deleting' = [deleting EXCEPT ![d] = None]
  /\ UNCHANGED <<entryLive, upload, objects, attachment, usedBytes, overlapped>>

-----------------------------------------------------------------------------
Next ==
  \/ ToggleEntry
  \/ \E f \in File : Put(f) \/ Register(f) \/ \E size \in Size : Presign(f, size)
  \/ \E d \in Deleter : DeleteCommit(d) \/ DeleteFails(d) \/ \E f \in File : DeleteCheck(d, f)

Spec == Init /\ [][Next]_vars

-----------------------------------------------------------------------------
Attached == {f \in File : attachment[f] # None /\ ~attachment[f].deleted}

\* Counted instead of folded, as Money counts cents.
BytesOf(f) == {f} \X (1 .. attachment[f].size)
AttachedBytes == Cardinality(UNION {BytesOf(f) : f \in Attached})

TypeOK ==
  /\ entryLive \in BOOLEAN /\ objects \subseteq File /\ overlapped \subseteq File
  /\ upload \in [File -> Size \cup {None}]
  /\ attachment \in [File -> [size : Size, deleted : BOOLEAN] \cup {None}]
  /\ usedBytes \in Nat
  /\ deleting \in [Deleter -> [file : File, sawIt : BOOLEAN] \cup {None}]

\* The bytes a tenant is charged are those of its attachments, never more; they are less
\* only after one attachment was deleted by requests that overlapped (the checks of
\* softDeleteAttachment come before its transaction).
ChargedForWhatIsAttached ==
  /\ usedBytes <= AttachedBytes
  /\ overlapped = {} => usedBytes = AttachedBytes
==============================================================================
