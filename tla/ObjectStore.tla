---------------------------- MODULE ObjectStore ----------------------------
(***************************************************************************)
(* The long-term object store of one user (src/storage/lifecycle.ts): files  *)
(* put in a bucket with a metadata row, deleted by their owner, the archive  *)
(* of a saved session, and the cleanup of a discarded or interrupted one. Bucket *)
(* and database are written by different awaits of a call; every await may fail, *)
(* and the process die between two of them, after which nothing is resumed.    *)
(*                                                                         *)
(* Left out: audit rows and the usage totals, which no handler of these       *)
(* objects reads; downloads and lists, which change nothing; a change of      *)
(* provider between restarts. The content of a file is fixed when it is put.   *)
(***************************************************************************)
EXTENDS Naturals, Sequences

CONSTANTS
    StoreCalls,    \* calls that run at the same time
    MaxObjects     \* bound of the objects ever put

ASSUME StoreAssumption == MaxObjects \in Nat

VARIABLES
    objects,       \* by object id, in the order of their calls: the status of
                   \* the row, "none" without one, and the ownerType, "session"
                   \* for a transcript, else "other"
    bucket,        \* objects the provider holds
    sessionEnd,    \* the status of the session, "open" while it is active
    live,          \* its entry in the manager's map: "live", "closed" once its socket
                   \* is, "gone" once it is removed or its process has died
    storeCalls,    \* what each call does
    cut            \* history: objects a failing statement, or a death, was about

storeVars == <<objects, bucket, sessionEnd, live, storeCalls, cut>>

RowStatuses == {"none", "active", "deleted"}
OwnerTypes == {"session", "other"}
CleanUps == {"cleanup", "interrupt"}
NoStoreCall == [op |-> "none"]

StoreInit ==
    /\ objects = <<>>
    /\ bucket = {} /\ sessionEnd = "open" /\ live = "live" /\ cut = {}
    /\ storeCalls = [c \in StoreCalls |-> NoStoreCall]

Ids == DOMAIN objects

StoreTypeOK ==
    /\ objects \in Seq([row : RowStatuses, owner : OwnerTypes])
    /\ bucket \subseteq Ids /\ cut \subseteq Ids
    /\ sessionEnd \in {"open", "saved", "discarded", "interrupted"}
    /\ live \in {"live", "closed", "gone"}
    /\ storeCalls \in [StoreCalls -> {NoStoreCall}
         \cup [op : {"put"}, pc : {"put", "insert"}, object : Ids]
         \cup [op : {"delete"}, pc : {"remove", "mark"}, object : Ids]
         \cup [op : CleanUps, pc : {"list", "select", "status", "clear"}, todo : SUBSET Ids]
         \cup [op : CleanUps, pc : {"remove", "mark"}, object : Ids, todo : SUBSET Ids]]

-----------------------------------------------------------------------------
(* Pieces of the handlers. A definition marked "mutant" is a faulty variant of *)
(* the one after it; no formula uses it.                                      *)

StoreAt(c, pc) == storeCalls[c] # NoStoreCall /\ storeCalls[c].pc = pc
StartStoreCall(c, call) ==
    storeCalls[c] = NoStoreCall /\ storeCalls' = [storeCalls EXCEPT ![c] = call]

\* What is left of a cleanup: the next object of its list, and the status of a session
\* that was interrupted.
Rest(op, todo) ==
    IF todo # {} THEN [op |-> op, pc |-> "select", todo |-> todo]
    ELSE IF op = "interrupt" THEN [op |-> op, pc |-> "status", todo |-> {}]
    ELSE NoStoreCall

EndStoreCall(c) ==
    storeCalls' = [storeCalls EXCEPT ![c] =
        IF storeCalls[c].op \in CleanUps THEN Rest(storeCalls[c].op, storeCalls[c].todo)
        ELSE NoStoreCall]

SetRow(o, status) == objects' = [objects EXCEPT ![o].row = status]

IsTranscript(o) == objects[o].owner = "session"
ActiveTranscripts == {o \in Ids : IsTranscript(o) /\ objects[o].row = "active"}

ArchivesTranscript(c) ==
    /\ storeCalls[c] # NoStoreCall /\ storeCalls[c].op = "put"
    /\ IsTranscript(storeCalls[c].object)
Cleans(c) == storeCalls[c] # NoStoreCall /\ storeCalls[c].op \in CleanUps

\* A session that is live is stopped by one message at a time, also when its socket
\* closed behind them: what runs beside is the interruption. A stop whose last
\* statement failed leaves the entry and may be asked again.
MayStop ==
    /\ live # "gone"
    /\ \A c \in StoreCalls : ~ArchivesTranscript(c) /\ storeCalls[c].op # "cleanup"

-----------------------------------------------------------------------------
(* putStoredObject *)

PutFirstInserts(c, owner) ==                                     \* mutant
    /\ Len(objects) < MaxObjects
    /\ objects' = Append(objects, [row |-> "none", owner |-> owner])
    /\ StartStoreCall(c, [op |-> "put", pc |-> "insert", object |-> Len(objects) + 1])

\* A new object id, and the upload under it.
Put(c, owner) ==
    /\ Len(objects) < MaxObjects
    /\ objects' = Append(objects, [row |-> "none", owner |-> owner])
    /\ StartStoreCall(c, [op |-> "put", pc |-> "put", object |-> Len(objects) + 1])

\* A report, a room summary or an export.
StartPut(c) ==
    /\ Put(c, "other")
    /\ UNCHANGED <<bucket, sessionEnd, live, cut>>

\* stopSession(save) sets the status. After a discard there is nothing to archive.
Save ==
    /\ MayStop /\ sessionEnd # "discarded"
    /\ sessionEnd' = "saved"
    /\ UNCHANGED <<objects, bucket, live, storeCalls, cut>>

StartArchive(c) ==
    /\ MayStop /\ sessionEnd = "saved" /\ ActiveTranscripts = {}
    /\ Put(c, "session")
    /\ UNCHANGED <<bucket, sessionEnd, live, cut>>

PutObject(c) ==
    /\ StoreAt(c, "put")
    /\ bucket' = bucket \cup {storeCalls[c].object}
    /\ storeCalls' = [storeCalls EXCEPT ![c].pc = "insert"]
    /\ UNCHANGED <<objects, sessionEnd, live, cut>>

InsertObject(c) ==
    /\ StoreAt(c, "insert")
    /\ SetRow(storeCalls[c].object, "active")
    /\ EndStoreCall(c)
    /\ UNCHANGED <<bucket, sessionEnd, live, cut>>

-----------------------------------------------------------------------------
(* deleteOwnedStorageObject and cleanupDiscardedSessionStorage *)

StartDelete(c, o) ==
    /\ objects[o].row = "active"
    /\ StartStoreCall(c, [op |-> "delete", pc |-> "remove", object |-> o])
    /\ UNCHANGED <<objects, bucket, sessionEnd, live, cut>>

\* stopSession(discard): its transaction. The artifacts of the day come next, and
\* then the list of the session's objects, each in an await of its own.
StartDiscard(c) ==
    /\ MayStop
    /\ sessionEnd' = "discarded"
    /\ StartStoreCall(c, [op |-> "cleanup", pc |-> "list", todo |-> {}])
    /\ UNCHANGED <<objects, bucket, live, cut>>

\* interruptSession, when the socket closes before a stop was handled; with
\* discard_on_stop it deletes the content and cleans up, else it sets the status.
StartInterrupt(c, pc) ==
    /\ live = "live" /\ sessionEnd = "open"
    /\ live' = "closed"
    /\ StartStoreCall(c, [op |-> "interrupt", pc |-> pc, todo |-> {}])
    /\ UNCHANGED <<objects, bucket, sessionEnd, cut>>

ListTranscripts(c) ==
    /\ StoreAt(c, "list")
    /\ storeCalls' = [storeCalls EXCEPT ![c] = Rest(@.op, ActiveTranscripts)]
    /\ UNCHANGED <<objects, bucket, sessionEnd, live, cut>>

\* The SELECT of a deletion by the cleanup: one that is gone is an error it ignores.
CleanupSelects(c) ==
    /\ StoreAt(c, "select")
    /\ \E o \in storeCalls[c].todo :
         storeCalls' = [storeCalls EXCEPT ![c] =
            IF objects[o].row = "active"
            THEN [op |-> @.op, pc |-> "remove", object |-> o, todo |-> @.todo \ {o}]
            ELSE Rest(@.op, @.todo \ {o})]
    /\ UNCHANGED <<objects, bucket, sessionEnd, live, cut>>

RemoveObject(c) ==
    /\ StoreAt(c, "remove")
    /\ bucket' = bucket \ {storeCalls[c].object}
    /\ storeCalls' = [storeCalls EXCEPT ![c].pc = "mark"]
    /\ UNCHANGED <<objects, sessionEnd, live, cut>>

MarkDeleted(c) ==
    /\ StoreAt(c, "mark")
    /\ SetRow(storeCalls[c].object, "deleted")
    /\ EndStoreCall(c)
    /\ UNCHANGED <<bucket, sessionEnd, live, cut>>

\* The session's own row, and then its entry, at the end of an interruption.
SetInterrupted(c) ==
    /\ StoreAt(c, "status")
    /\ sessionEnd' = "interrupted"
    /\ storeCalls' = [storeCalls EXCEPT ![c].pc = "clear"]
    /\ UNCHANGED <<objects, bucket, live, cut>>

EndInterrupt(c) ==
    /\ StoreAt(c, "clear") /\ live' = "gone"
    /\ storeCalls' = [storeCalls EXCEPT ![c] = NoStoreCall]
    /\ UNCHANGED <<objects, bucket, sessionEnd, cut>>

\* A statement or the provider fails: the call ends there, and the cleanup goes
\* on with the next object.
StoreFails(c) ==
    /\ storeCalls[c] # NoStoreCall /\ storeCalls[c].pc \in {"put", "insert", "remove", "mark"}
    /\ cut' = cut \cup {storeCalls[c].object}
    /\ EndStoreCall(c)
    /\ UNCHANGED <<objects, bucket, sessionEnd, live>>

\* A SELECT of the cleanup fails, and the caller swallows it: without its list the
\* cleanup is over, and without one object it goes on.
CleanupFails(c) ==
    /\ \/ /\ StoreAt(c, "list")
          /\ cut' = cut \cup ActiveTranscripts
          /\ storeCalls' = [storeCalls EXCEPT ![c] = Rest(@.op, {})]
       \/ /\ StoreAt(c, "select")
          /\ \E o \in storeCalls[c].todo :
               /\ cut' = cut \cup {o}
               /\ storeCalls' = [storeCalls EXCEPT ![c] = Rest(@.op, @.todo \ {o})]
    /\ UNCHANGED <<objects, bucket, sessionEnd, live>>

\* One of the other statements of an interruption fails, and it is over.
InterruptFails(c) ==
    /\ storeCalls[c].op = "interrupt" /\ storeCalls[c].pc \in {"list", "status", "clear"}
    /\ cut' = IF StoreAt(c, "list") THEN cut \cup ActiveTranscripts ELSE cut
    /\ storeCalls' = [storeCalls EXCEPT ![c] = NoStoreCall]
    /\ UNCHANGED <<objects, bucket, sessionEnd, live>>

\* What a call has still to do something about.
Pending(call) == {o \in Ids :
    /\ call # NoStoreCall
    /\ \/ call.pc \in {"put", "insert", "remove", "mark"} /\ o = call.object
       \/ call.op \in CleanUps /\ o \in call.todo
       \/ call.pc = "list" /\ o \in ActiveTranscripts}

StoreDies ==
    /\ live' = "gone"
    /\ cut' = cut \cup UNION {Pending(storeCalls[c]) : c \in StoreCalls}
    /\ storeCalls' = [c \in StoreCalls |-> NoStoreCall]
    /\ UNCHANGED <<objects, bucket, sessionEnd>>

StoreNext ==
    \/ Save
    \/ \E c \in StoreCalls :
         \/ StartPut(c) \/ StartArchive(c) \/ \E o \in Ids : StartDelete(c, o)
         \/ PutObject(c) \/ InsertObject(c) \/ StartDiscard(c)
         \/ \E pc \in {"list", "status"} : StartInterrupt(c, pc)
         \/ ListTranscripts(c) \/ CleanupSelects(c) \/ RemoveObject(c) \/ MarkDeleted(c)
         \/ SetInterrupted(c) \/ EndInterrupt(c)
         \/ StoreFails(c) \/ CleanupFails(c) \/ InterruptFails(c)
    \/ StoreDies

StoreSpec == StoreInit /\ [][StoreNext]_storeVars

-----------------------------------------------------------------------------
(* Properties *)

Doing(op, pc, o) == \E c \in StoreCalls :
    /\ storeCalls[c] # NoStoreCall /\ storeCalls[c].pc = pc
    /\ storeCalls[c].op \in op /\ storeCalls[c].object = o

\* Rows and bucket agree but for calls under way and calls that failed half-way:
\* an active row without its file is being deleted (the bucket goes first), a
\* file without a row is being put, and a deleted row never has a file.
RowsMatchBucket == \A o \in Ids :
    /\ objects[o].row = "active" /\ o \notin bucket
         => o \in cut \/ Doing({"delete"} \cup CleanUps, "mark", o)
    /\ objects[o].row = "none" /\ o \in bucket
         => o \in cut \/ Doing({"put"}, "insert", o)
    /\ objects[o].row = "deleted" => o \notin bucket

\* A session that is discarded, after a stop that saved and archived it too, keeps no
\* transcript in the bucket once no cleanup runs, whatever runs beside it. What is left
\* is a file whose own put or deletion failed, and those there were when the list could
\* not be read or the process died: then nobody deletes them any more.
DiscardedKeepsNoFile ==
    sessionEnd = "discarded" /\ (\A c \in StoreCalls : ~Cleans(c))
      => \A o \in bucket : IsTranscript(o) => o \in cut

\* Both: the bucket holds the files the rows name, and none of a discarded session.
BucketIsAccounted == RowsMatchBucket /\ DiscardedKeepsNoFile
=============================================================================
