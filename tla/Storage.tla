-------------------------------- MODULE Storage --------------------------------
(***************************************************************************)
(* The blob service (services/api/internal/storage/service.go).  A blob    *)
(* lives in three places that no transaction spans: a record and a         *)
(* wrapping key in Postgres, and ciphertext in the backends of the storage *)
(* policies.  Every handler is a goroutine that calls them one by one; a   *)
(* call may fail, and a handler may panic (a failed database write) or die *)
(* with the process between any two of them.  MoveBlob and DeleteBlob hold *)
(* the blob's lock from their first read on; RetrieveBlob takes no lock.   *)
(*                                                                         *)
(* Which subjects may act is Permissions' business: here a call may be     *)
(* denied.  A blob_ref is known to callers once StoreBlob has returned it. *)
(***************************************************************************)
EXTENDS Naturals, FiniteSets

CONSTANTS
    Blobs,      \* blob_refs, each generated by one StoreBlob call
    Calls,      \* calls of MoveBlob, DeleteBlob and RetrieveBlob
    Policies,   \* storage policies, each with its own backend
    Physical,   \* the policies whose backend SupportsPhysicalDelete
    None

VARIABLES
    record,     \* record[b]: the storage_blobs row, or None
    key,        \* key[b]: is there a wrapping key for b?
    copies,     \* copies[b]: the policies whose backend holds b's ciphertext
    granted,    \* granted[b]: does Permissions hold the owner's grant on b?
    lock,       \* lock[b]: the call that holds b's lock, or None
    spc, home, failing, \* StoreBlob of b: step, policy, what it rolls back from
    pc, arg,    \* other calls: step, arguments
    seen,       \* seen[c]: the record c read and will write back
    interrupted,\* history: a call on b stopped part-way, or reported a duplicate
    erasing     \* history: a DeleteBlob of b has started to erase it

data == <<record, key, copies, granted>>
store == <<spc, home, failing>>
call == <<pc, arg, seen>>
vars == <<data, lock, store, call, interrupted, erasing>>

Record == [policy : Policies, deleted : BOOLEAN]
Arg == [kind : {"move", "delete", "retrieve"}, blob : Blobs, to : Policies]

StoreStep == {"idle", "written", "recorded", "keyed", "granted", "stored",
              "undoCopy", "undoRecord", "undoKey", "undoGrant", "rolledBack", "dead"}
Locked == {"locked", "moving", "fetched", "copied", "cleared", "switched",
           "deleting", "erased", "shredded", "keyless", "tombstoned"}
Reading == {"reading", "located", "read", "opened"}
Outcome == {"denied", "notFound", "alreadyDeleted", "failed", "unavailable", "duplicate",
            "unaudited", "moved", "deleted", "retrieved", "dead"}
Step == {"idle", "waiting"} \cup Locked \cup Reading \cup Outcome

ASSUME StorageAssumption ==
    /\ Physical \subseteq Policies
    /\ None \notin Record /\ None \notin Arg /\ None \notin Policies /\ None \notin Calls

TypeOK ==
    /\ record \in [Blobs -> Record \cup {None}]
    /\ key \in [Blobs -> BOOLEAN]
    /\ copies \in [Blobs -> SUBSET Policies]
    /\ granted \in [Blobs -> BOOLEAN]
    /\ lock \in [Blobs -> Calls \cup {None}]
    /\ spc \in [Blobs -> StoreStep]
    /\ home \in [Blobs -> Policies \cup {None}]
    /\ \A b \in Blobs : spc[b] = "idle" <=> home[b] = None
    /\ failing \in [Blobs -> {"nothing", "grant", "emit"}]
    /\ pc \in [Calls -> Step]
    /\ arg \in [Calls -> Arg \cup {None}]
    /\ \A c \in Calls : pc[c] = "idle" <=> arg[c] = None
    /\ seen \in [Calls -> Record \cup {None}]
    /\ interrupted \subseteq Blobs
    /\ erasing \subseteq Blobs

Init ==
    /\ record = [b \in Blobs |-> None]
    /\ key = [b \in Blobs |-> FALSE]
    /\ copies = [b \in Blobs |-> {}]
    /\ granted = [b \in Blobs |-> FALSE]
    /\ lock = [b \in Blobs |-> None]
    /\ spc = [b \in Blobs |-> "idle"]
    /\ home = [b \in Blobs |-> None]
    /\ failing = [b \in Blobs |-> "nothing"]
    /\ pc = [c \in Calls |-> "idle"]
    /\ arg = [c \in Calls |-> None]
    /\ seen = [c \in Calls |-> None]
    /\ interrupted = {}
    /\ erasing = {}

--------------------------------------------------------------------------------
(* StoreBlob, and its rollback when the grant or the emit fails.            *)

StoreGoes(b, from, to) == spc[b] = from /\ spc' = [spc EXCEPT ![b] = to]

WriteBlob(b, p) ==
    /\ StoreGoes(b, "idle", "written")
    /\ home' = [home EXCEPT ![b] = p]
    /\ copies' = [copies EXCEPT ![b] = {p}]
    /\ UNCHANGED <<record, key, granted, lock, failing, call, interrupted, erasing>>

PutRecord(b) ==
    /\ StoreGoes(b, "written", "recorded")
    /\ record' = [record EXCEPT ![b] = [policy |-> home[b], deleted |-> FALSE]]
    /\ UNCHANGED <<key, copies, granted, lock, home, failing, call, interrupted, erasing>>

PutWrappingKey(b) ==
    /\ StoreGoes(b, "recorded", "keyed")
    /\ key' = [key EXCEPT ![b] = TRUE]
    /\ UNCHANGED <<record, copies, granted, lock, home, failing, call, interrupted, erasing>>

\* A failed grant may still have been stored (Permissions audits afterwards).
GrantOwner(b) ==
    /\ \/ /\ StoreGoes(b, "keyed", "granted")
          /\ granted' = [granted EXCEPT ![b] = TRUE]
          /\ UNCHANGED failing
       \/ /\ StoreGoes(b, "keyed", "undoCopy")
          /\ granted' \in {granted, [granted EXCEPT ![b] = TRUE]}
          /\ failing' = [failing EXCEPT ![b] = "grant"]
    /\ UNCHANGED <<record, key, copies, lock, home, call, interrupted, erasing>>

EmitStored(b) ==
    /\ \/ StoreGoes(b, "granted", "stored") /\ UNCHANGED failing
       \/ /\ StoreGoes(b, "granted", "undoCopy")
          /\ failing' = [failing EXCEPT ![b] = "emit"]
    /\ UNCHANGED <<data, lock, home, call, interrupted, erasing>>

\* Best effort: the backend's answer is ignored.
UndoCopy(b) ==
    /\ StoreGoes(b, "undoCopy", "undoRecord")
    /\ copies' \in {copies, [copies EXCEPT ![b] = {}]}
    /\ UNCHANGED <<record, key, granted, lock, home, failing, call, interrupted, erasing>>

UndoRecord(b) ==
    /\ StoreGoes(b, "undoRecord", "undoKey")
    /\ record' = [record EXCEPT ![b] = None]
    /\ UNCHANGED <<key, copies, granted, lock, home, failing, call, interrupted, erasing>>

\* Mutated form of UndoKey: the wrapping key is forgotten.
UndoKeyForgotten(b) ==
    /\ StoreGoes(b, "undoKey", IF failing[b] = "emit" THEN "undoGrant" ELSE "rolledBack")
    /\ UNCHANGED <<data, lock, home, failing, call, interrupted, erasing>>

UndoKey(b) ==
    /\ StoreGoes(b, "undoKey", IF failing[b] = "emit" THEN "undoGrant" ELSE "rolledBack")
    /\ key' = [key EXCEPT ![b] = FALSE]
    /\ UNCHANGED <<record, copies, granted, lock, home, failing, call, interrupted, erasing>>

\* After a failed emit only, and best effort: the grant may stay behind.
UndoGrant(b) ==
    /\ StoreGoes(b, "undoGrant", "rolledBack")
    /\ granted' \in {granted, [granted EXCEPT ![b] = FALSE]}
    /\ UNCHANGED <<record, key, copies, lock, home, failing, call, interrupted, erasing>>

\* A database write panics, or the process dies.
DieStoring(b) ==
    /\ spc[b] \notin {"idle", "stored", "rolledBack", "dead"}
    /\ spc' = [spc EXCEPT ![b] = "dead"]
    /\ UNCHANGED <<data, lock, home, failing, call, interrupted, erasing>>

StoreBlob(b) ==
    \/ \E p \in Policies : WriteBlob(b, p)
    \/ PutRecord(b) \/ PutWrappingKey(b) \/ GrantOwner(b) \/ EmitStored(b)
    \/ UndoCopy(b) \/ UndoRecord(b) \/ UndoKey(b) \/ UndoGrant(b) \/ DieStoring(b)

--------------------------------------------------------------------------------
(* Calls on a stored blob.                                                  *)

Blob(c) == arg[c].blob
Goes(c, from, to) == pc[c] = from /\ pc' = [pc EXCEPT ![c] = to]

\* Every return from a locked handler runs its deferred unlock.
Leaves(c, from, to) == Goes(c, from, to) /\ lock' = [lock EXCEPT ![Blob(c)] = None]

\* Mutated form of BeginCall: a denied request is not kept with its call.
BeginCallUnrecorded(c, kind, b, p) ==
    /\ spc[b] = "stored"
    /\ \/ /\ Goes(c, "idle", IF kind = "retrieve" THEN "reading" ELSE "waiting")
          /\ arg' = [arg EXCEPT ![c] = [kind |-> kind, blob |-> b, to |-> p]]
       \/ Goes(c, "idle", "denied") /\ UNCHANGED arg
    /\ UNCHANGED <<data, lock, store, seen, interrupted, erasing>>

BeginCall(c, kind, b, p) ==
    /\ spc[b] = "stored"
    /\ \/ Goes(c, "idle", IF kind = "retrieve" THEN "reading" ELSE "waiting")
       \/ Goes(c, "idle", "denied")
    /\ arg' = [arg EXCEPT ![c] = [kind |-> kind, blob |-> b, to |-> p]]
    /\ UNCHANGED <<data, lock, store, seen, interrupted, erasing>>

\* Mutated form of LockBlob: nobody waits for the holder.
LockBlobAtOnce(c) ==
    /\ pc[c] = "waiting"
    /\ Goes(c, "waiting", "locked")
    /\ lock' = [lock EXCEPT ![Blob(c)] = c]
    /\ UNCHANGED <<data, store, arg, seen, interrupted, erasing>>

\* lockBlob: waits for its turn, panics after lockAcquireTimeout.
LockBlob(c) ==
    /\ pc[c] = "waiting"
    /\ \/ /\ lock[Blob(c)] = None
          /\ Goes(c, "waiting", "locked")
          /\ lock' = [lock EXCEPT ![Blob(c)] = c]
       \/ Goes(c, "waiting", "dead") /\ UNCHANGED lock
    /\ UNCHANGED <<data, store, arg, seen, interrupted, erasing>>

--------------------------------------------------------------------------------
(* MoveBlob under the lock.                                                 *)

\* get folds a failed query into "not found".
ReadForMove(c) ==
    LET r == record[Blob(c)] IN
    /\ pc[c] = "locked" /\ arg[c].kind = "move"
    /\ \/ /\ r # None /\ ~r.deleted
          /\ Goes(c, "locked", IF r.policy = arg[c].to THEN "switched" ELSE "moving")
          /\ UNCHANGED lock
       \/ Leaves(c, "locked", "notFound")
    /\ seen' = [seen EXCEPT ![c] = r]
    /\ UNCHANGED <<data, store, arg, interrupted, erasing>>

FetchForMove(c) ==
    /\ pc[c] = "moving"
    /\ \/ /\ seen[c].policy \in copies[Blob(c)]
          /\ Goes(c, "moving", "fetched")
          /\ UNCHANGED lock
       \/ Leaves(c, "moving", "failed")
    /\ UNCHANGED <<data, store, arg, seen, interrupted, erasing>>

\* Mutated form of CopyToNew: a failed write is ignored and the move goes on.
CopyToNewUnchecked(c) ==
    /\ pc[c] = "fetched"
    /\ Goes(c, "fetched", "copied")
    /\ copies' \in {copies, [copies EXCEPT ![Blob(c)] = @ \cup {arg[c].to}]}
    /\ UNCHANGED <<record, key, granted, lock, store, arg, seen, interrupted, erasing>>

\* A failed write truncates what the new backend had; part of a blob is no copy.
CopyToNew(c) ==
    /\ pc[c] = "fetched"
    /\ \/ /\ Goes(c, "fetched", "copied")
          /\ copies' = [copies EXCEPT ![Blob(c)] = @ \cup {arg[c].to}]
          /\ UNCHANGED lock
       \/ /\ Leaves(c, "fetched", "failed")
          /\ copies' \in {copies, [copies EXCEPT ![Blob(c)] = @ \ {arg[c].to}]}
    /\ UNCHANGED <<record, key, granted, store, arg, seen, interrupted, erasing>>

\* Mutated form of DeleteOld: the new copy stays when the old one cannot go.
DeleteOldNoRollback(c) ==
    LET b == Blob(c) IN
    /\ pc[c] = "copied"
    /\ \/ /\ Goes(c, "copied", "cleared")
          /\ copies' = [copies EXCEPT ![b] = @ \ {seen[c].policy}]
          /\ UNCHANGED lock
       \/ Leaves(c, "copied", "failed") /\ UNCHANGED copies
    /\ UNCHANGED <<record, key, granted, store, arg, seen, interrupted, erasing>>

\* Remove the old copy; failing that, the new one; failing that, report both.
DeleteOld(c) ==
    LET b == Blob(c) IN
    /\ pc[c] = "copied"
    /\ \/ /\ Goes(c, "copied", "cleared")
          /\ copies' = [copies EXCEPT ![b] = @ \ {seen[c].policy}]
          /\ UNCHANGED <<lock, interrupted>>
       \/ /\ Leaves(c, "copied", "failed")
          /\ copies' = [copies EXCEPT ![b] = @ \ {arg[c].to}]
          /\ UNCHANGED interrupted
       \/ /\ Leaves(c, "copied", "duplicate")
          /\ interrupted' = interrupted \cup {b}
          /\ UNCHANGED copies
    /\ UNCHANGED <<record, key, granted, store, arg, seen, erasing>>

\* The record read under the lock is written back with its new policy.
PutMoved(c) ==
    /\ Goes(c, "cleared", "switched")
    /\ record' = [record EXCEPT ![Blob(c)] = [seen[c] EXCEPT !.policy = arg[c].to]]
    /\ UNCHANGED <<key, copies, granted, lock, store, arg, seen, interrupted, erasing>>

EmitMoved(c) ==
    /\ pc[c] = "switched"
    /\ \/ Leaves(c, "switched", "moved")
       \/ Leaves(c, "switched", "unaudited")
    /\ UNCHANGED <<data, store, arg, seen, interrupted, erasing>>

--------------------------------------------------------------------------------
(* DeleteBlob under the lock.                                               *)

\* Mutated form of ReadForDelete: the Deleted flag is not looked at.
ReadForDeleteUnchecked(c) ==
    LET r == record[Blob(c)] IN
    /\ pc[c] = "locked" /\ arg[c].kind = "delete"
    /\ \/ r # None /\ Goes(c, "locked", "deleting") /\ UNCHANGED lock
       \/ Leaves(c, "locked", "notFound")
    /\ seen' = [seen EXCEPT ![c] = r]
    /\ UNCHANGED <<data, store, arg, interrupted, erasing>>

ReadForDelete(c) ==
    LET r == record[Blob(c)] IN
    /\ pc[c] = "locked" /\ arg[c].kind = "delete"
    /\ \/ r # None /\ ~r.deleted /\ Goes(c, "locked", "deleting") /\ UNCHANGED lock
       \/ r # None /\ r.deleted /\ Leaves(c, "locked", "alreadyDeleted")
       \/ Leaves(c, "locked", "notFound")
    /\ seen' = [seen EXCEPT ![c] = r]
    /\ UNCHANGED <<data, store, arg, interrupted, erasing>>

PhysicalDelete(c) ==
    LET b == Blob(c) IN
    /\ pc[c] = "deleting" /\ seen[c].policy \in Physical
    /\ \/ /\ Goes(c, "deleting", "erased")
          /\ copies' = [copies EXCEPT ![b] = @ \ {seen[c].policy}]
          /\ erasing' = erasing \cup {b}
          /\ UNCHANGED lock
       \/ Leaves(c, "deleting", "failed") /\ UNCHANGED <<copies, erasing>>
    /\ UNCHANGED <<record, key, granted, store, arg, seen, interrupted>>

\* Mutated form of DropKey: a physical delete leaves the wrapping key.
DropKeyNot(c) ==
    /\ Goes(c, "erased", "keyless")
    /\ UNCHANGED <<data, lock, store, arg, seen, interrupted, erasing>>

DropKey(c) ==
    /\ Goes(c, "erased", "keyless")
    /\ key' = [key EXCEPT ![Blob(c)] = FALSE]
    /\ UNCHANGED <<record, copies, granted, lock, store, arg, seen, interrupted, erasing>>

\* destroyWrappingKey is the mechanism of record: an absent key is an error.
CryptoShred(c) ==
    LET b == Blob(c) IN
    /\ pc[c] = "deleting" /\ seen[c].policy \notin Physical
    /\ \/ /\ key[b]
          /\ Goes(c, "deleting", "shredded")
          /\ key' = [key EXCEPT ![b] = FALSE]
          /\ erasing' = erasing \cup {b}
          /\ UNCHANGED lock
       \/ ~key[b] /\ Leaves(c, "deleting", "failed") /\ UNCHANGED <<key, erasing>>
    /\ UNCHANGED <<record, copies, granted, store, arg, seen, interrupted>>

TryDeleteShredded(c) ==
    /\ Goes(c, "shredded", "keyless")
    /\ copies' \in {copies, [copies EXCEPT ![Blob(c)] = @ \ {seen[c].policy}]}
    /\ UNCHANGED <<record, key, granted, lock, store, arg, seen, interrupted, erasing>>

PutTombstone(c) ==
    /\ Goes(c, "keyless", "tombstoned")
    /\ record' = [record EXCEPT ![Blob(c)] = [seen[c] EXCEPT !.deleted = TRUE]]
    /\ UNCHANGED <<key, copies, granted, lock, store, arg, seen, interrupted, erasing>>

EmitDeleted(c) ==
    /\ pc[c] = "tombstoned"
    /\ \/ Leaves(c, "tombstoned", "deleted")
       \/ Leaves(c, "tombstoned", "unaudited")
    /\ UNCHANGED <<data, store, arg, seen, interrupted, erasing>>

--------------------------------------------------------------------------------
(* RetrieveBlob: three reads with nothing held between them.                *)

ReadRecord(c) ==
    LET r == record[Blob(c)] IN
    /\ pc[c] = "reading"
    /\ \/ r # None /\ ~r.deleted /\ Goes(c, "reading", "located")
       \/ Goes(c, "reading", "notFound")
    /\ seen' = [seen EXCEPT ![c] = r]
    /\ UNCHANGED <<data, lock, store, arg, interrupted, erasing>>

\* "unavailable": the backend of the policy read does not hold the blob.
FetchBytes(c) ==
    /\ pc[c] = "located"
    /\ \/ seen[c].policy \in copies[Blob(c)] /\ Goes(c, "located", "read")
       \/ seen[c].policy \notin copies[Blob(c)] /\ Goes(c, "located", "unavailable")
       \/ Goes(c, "located", "failed")
    /\ UNCHANGED <<data, lock, store, arg, seen, interrupted, erasing>>

ReadKey(c) ==
    /\ pc[c] = "read"
    /\ \/ key[Blob(c)] /\ Goes(c, "read", "opened")
       \/ Goes(c, "read", "failed")
    /\ UNCHANGED <<data, lock, store, arg, seen, interrupted, erasing>>

\* The data is withheld unless its retrieval is in the log.
EmitRetrieved(c) ==
    /\ \/ Goes(c, "opened", "retrieved")
       \/ Goes(c, "opened", "failed")
    /\ UNCHANGED <<data, lock, store, arg, seen, interrupted, erasing>>

--------------------------------------------------------------------------------
\* A panic or a crash: the lock goes with the handler or with its connection.
HalfDone == {"copied", "cleared", "erased", "shredded", "keyless"}

Die(c) ==
    /\ pc[c] \in Locked \cup Reading
    /\ pc' = [pc EXCEPT ![c] = "dead"]
    /\ lock' = IF pc[c] \in Locked THEN [lock EXCEPT ![Blob(c)] = None] ELSE lock
    /\ interrupted' = IF pc[c] \in HalfDone THEN interrupted \cup {Blob(c)} ELSE interrupted
    /\ UNCHANGED <<data, store, arg, seen, erasing>>

MoveBlob(c) ==
    \/ ReadForMove(c) \/ FetchForMove(c) \/ CopyToNew(c) \/ DeleteOld(c)
    \/ PutMoved(c) \/ EmitMoved(c)

DeleteBlob(c) ==
    \/ ReadForDelete(c) \/ PhysicalDelete(c) \/ DropKey(c) \/ CryptoShred(c)
    \/ TryDeleteShredded(c) \/ PutTombstone(c) \/ EmitDeleted(c)

RetrieveBlob(c) == ReadRecord(c) \/ FetchBytes(c) \/ ReadKey(c) \/ EmitRetrieved(c)

BeginSome(c) ==
    \E b \in Blobs :
        \/ \E p \in Policies : BeginCall(c, "move", b, p)
        \/ \E kind \in {"delete", "retrieve"} : BeginCall(c, kind, b, home[b])

Next ==
    \/ \E b \in Blobs : StoreBlob(b)
    \/ \E c \in Calls :
        BeginSome(c) \/ LockBlob(c) \/ MoveBlob(c) \/ DeleteBlob(c) \/ RetrieveBlob(c) \/ Die(c)

Spec == Init /\ [][Next]_vars

--------------------------------------------------------------------------------
(* Properties.                                                              *)

\* From the first read of MoveBlob and DeleteBlob to their return, the call
\* holds its blob's lock, so two of them never overlap on one blob.
LockHeldWhileActing == \A c \in Calls : pc[c] \in Locked => lock[Blob(c)] = c

\* A stored blob that nobody has begun to delete can be read from somewhere,
\* whatever moves failed, panicked or died half-way.
BytesSurvive ==
    \A b \in Blobs : spc[b] = "stored" /\ b \notin erasing =>
        /\ record[b] # None /\ ~record[b].deleted
        /\ key[b] /\ copies[b] # {} /\ granted[b]

\* Between calls there is no hidden copy and no wrong address: unless a call
\* stopped part-way or reported a duplicate, the one copy is where the record
\* says it is ("never a dual-copy or lost-copy outcome", service.go MoveBlob).
SoleCopyWhereRecorded ==
    \A b \in Blobs :
        spc[b] = "stored" /\ lock[b] = None /\ b \notin interrupted \cup erasing
            => copies[b] = {record[b].policy}

\* A tombstone is true: no key is left, and the backend that promised physical
\* deletion keeps no copy under the blob's last policy.
DeletedIsGone ==
    \A b \in Blobs : record[b] # None /\ record[b].deleted =>
        /\ ~key[b]
        /\ record[b].policy \in Physical => record[b].policy \notin copies[b]
        /\ record[b].policy \in Physical /\ b \notin interrupted => copies[b] = {}

\* A tombstone stays: a MoveBlob that read the record earlier cannot put it back.
DeletionIsFinal ==
    [][\A b \in Blobs :
        record[b] # None /\ record[b].deleted => record'[b] # None /\ record'[b].deleted]_vars

\* A DeleteBlob that has written its tombstone, whatever it then reported.
Finished(c) == pc[c] \in {"tombstoned", "deleted", "unaudited"} /\ arg[c].kind = "delete"

\* Of any number of DeleteBlob calls for a blob, one carries the deletion out.
DeletedOnce ==
    \A c, d \in Calls : Finished(c) /\ Finished(d) /\ Blob(c) = Blob(d) => c = d

\* The steps of a MoveBlob on its record, and the steps between a call's read of
\* the record and its write.
Moving == {"moving", "fetched", "copied", "cleared", "switched"}
Working == {"moving", "fetched", "copied", "cleared", "deleting", "erased", "shredded", "keyless"}

\* The inductive invariant behind LockHeldWhileActing, DeletionIsFinal and
\* DeletedOnce: what a locked call has read is the record still.
DeletionInv ==
    /\ \A c \in Calls : arg[c] # None => spc[Blob(c)] = "stored"
    /\ LockHeldWhileActing
    /\ \A c \in Calls : pc[c] \in Moving => arg[c].kind = "move"
    /\ \A c \in Calls : pc[c] \in Working =>
            seen[c] = record[Blob(c)] /\ seen[c] # None /\ ~seen[c].deleted
    /\ \A b \in Blobs : record[b] # None /\ record[b].deleted => spc[b] = "stored"
    /\ \A c \in Calls : Finished(c) => record[Blob(c)] # None /\ record[Blob(c)].deleted
    /\ DeletedOnce

\* A StoreBlob that reported its rollback left no record and no key, so bytes
\* the backend failed to drop cannot be read and no listing shows the blob.
RollbackLeavesNothing ==
    \A b \in Blobs : spc[b] = "rolledBack" => record[b] = None /\ ~key[b]

\* RetrieveBlob is said to be a pure read whose interleaving cannot produce an
\* inconsistent result: it misses the bytes only of a blob being deleted or
\* damaged.  The code does not give this: a MoveBlob may move them meanwhile.
RetrieveFindsBlob ==
    \A c \in Calls : pc[c] = "unavailable" => Blob(c) \in interrupted \cup erasing
================================================================================
