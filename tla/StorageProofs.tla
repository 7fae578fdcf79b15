------------------------------ MODULE StorageProofs ------------------------------
(***************************************************************************)
(* Proofs about Storage for any numbers of blobs, calls and policies: the  *)
(* blob's lock makes deletions final and unique, whatever moves, retries,  *)
(* panics and crashes run beside them, and no blob is lost in a move.      *)
(***************************************************************************)
EXTENDS Storage, TLAPS

\* TypeOK, as a theorem needs it: what only the blobs' StoreBlob calls change,
\* and what the other calls change.
LEMMA StoreTypeStep ==
    ASSUME TypeOK, NEW b \in Blobs, StoreBlob(b) PROVE TypeOK'
<1> USE DEF TypeOK, StoreGoes, StoreStep, data, call
<1>1. CASE \E p \in Policies : WriteBlob(b, p)
    BY <1>1, StorageAssumption DEF WriteBlob
<1>2. CASE PutRecord(b)
    <2>1. home[b] \in Policies
        BY <1>2 DEF PutRecord
    <2> QED BY <1>2, <2>1 DEF PutRecord, Record
<1>3. CASE PutWrappingKey(b)
    BY <1>3 DEF PutWrappingKey
<1>4. CASE GrantOwner(b)
    BY <1>4 DEF GrantOwner
<1>5. CASE EmitStored(b)
    BY <1>5 DEF EmitStored
<1>6. CASE UndoCopy(b)
    BY <1>6 DEF UndoCopy
<1>7. CASE UndoRecord(b)
    BY <1>7 DEF UndoRecord
<1>8. CASE UndoKey(b)
    BY <1>8 DEF UndoKey
<1>9. CASE UndoGrant(b)
    BY <1>9 DEF UndoGrant
<1>10. CASE DieStoring(b)
    BY <1>10 DEF DieStoring
<1> QED BY <1>1, <1>2, <1>3, <1>4, <1>5, <1>6, <1>7, <1>8, <1>9, <1>10 DEF StoreBlob

\* A call that is under way has arguments.
LEMMA ArgOfCall ==
    ASSUME TypeOK, NEW c \in Calls, pc[c] # "idle" PROVE arg[c] \in Arg /\ Blob(c) \in Blobs
BY DEF TypeOK, Arg, Blob

\* Starting a call and waiting for its lock keep every type.
LEMMA BeginTypeStep ==
    ASSUME TypeOK, NEW c \in Calls, BeginSome(c) \/ LockBlob(c) PROVE TypeOK'
<1> USE DEF TypeOK, Goes, Step, Locked, Reading, Outcome, data, store
<1>1. ASSUME NEW b \in Blobs, NEW kind \in {"move", "delete", "retrieve"},
             NEW p \in Policies, BeginCall(c, kind, b, p)
      PROVE  TypeOK'
    <2>1. [kind |-> kind, blob |-> b, to |-> p] \in Arg
        BY DEF Arg
    <2> HIDE DEF Arg
    <2> QED BY <1>1, <2>1, StorageAssumption DEF BeginCall
<1>2. ASSUME NEW b \in Blobs, NEW kind \in {"delete", "retrieve"}, BeginCall(c, kind, b, home[b])
      PROVE  TypeOK'
    <2>1. home[b] \in Policies
        BY <1>2 DEF BeginCall
    <2> QED BY <1>1, <1>2, <2>1
<1>3. CASE LockBlob(c)
    BY <1>3, ArgOfCall DEF LockBlob
<1> QED BY <1>1, <1>2, <1>3 DEF BeginSome

\* The steps of MoveBlob keep every type; what a record is given back was read from it.
LEMMA MoveTypeStep ==
    ASSUME TypeOK, DeletionInv, NEW c \in Calls, MoveBlob(c) PROVE TypeOK'
<1> USE ArgOfCall DEF TypeOK, Goes, Leaves, Step, Locked, Reading, Outcome, data, store
<1>1. CASE ReadForMove(c)
    BY <1>1 DEF ReadForMove
<1>2. CASE FetchForMove(c)
    BY <1>2 DEF FetchForMove
<1>3. CASE CopyToNew(c)
    BY <1>3 DEF CopyToNew, Arg
<1>4. CASE DeleteOld(c)
    BY <1>4 DEF DeleteOld
<1>5. CASE PutMoved(c)
    <2>1. seen[c] \in Record /\ Blob(c) \in Blobs /\ arg[c].to \in Policies
        BY <1>5 DEF PutMoved, DeletionInv, Working, Arg
    <2>2. [seen[c] EXCEPT !.policy = arg[c].to] \in Record
        BY <2>1 DEF Record
    <2> QED BY <1>5, <2>1, <2>2 DEF PutMoved
<1>6. CASE EmitMoved(c)
    BY <1>6 DEF EmitMoved
<1> QED BY <1>1, <1>2, <1>3, <1>4, <1>5, <1>6 DEF MoveBlob

\* The steps of DeleteBlob keep every type.
LEMMA DeleteTypeStep ==
    ASSUME TypeOK, DeletionInv, NEW c \in Calls, DeleteBlob(c) PROVE TypeOK'
<1> USE ArgOfCall DEF TypeOK, Goes, Leaves, Step, Locked, Reading, Outcome, data, store
<1>1. CASE ReadForDelete(c)
    <2>1. record[Blob(c)] \in Record \cup {None}
        BY <1>1 DEF ReadForDelete
    <2> QED BY <1>1, <2>1 DEF ReadForDelete
<1>2. CASE PhysicalDelete(c)
    BY <1>2 DEF PhysicalDelete
<1>3. CASE DropKey(c)
    BY <1>3 DEF DropKey
<1>4. CASE CryptoShred(c)
    <2>1. CASE key' = [key EXCEPT ![Blob(c)] = FALSE] /\ Goes(c, "deleting", "shredded")
                /\ erasing' = erasing \cup {Blob(c)} /\ UNCHANGED lock
        <3>1. key' \in [Blobs -> BOOLEAN]
            BY <2>1
        <3> QED BY <1>4, <2>1, <3>1 DEF CryptoShred
    <2>2. CASE Leaves(c, "deleting", "failed") /\ UNCHANGED <<key, erasing>>
        BY <1>4, <2>2 DEF CryptoShred
    <2> QED BY <1>4, <2>1, <2>2 DEF CryptoShred
<1>5. CASE TryDeleteShredded(c)
    BY <1>5 DEF TryDeleteShredded
<1>6. CASE PutTombstone(c)
    <2>1. seen[c] \in Record /\ Blob(c) \in Blobs
        BY <1>6 DEF PutTombstone, DeletionInv, Working
    <2>2. [seen[c] EXCEPT !.deleted = TRUE] \in Record
        BY <2>1 DEF Record
    <2> QED BY <1>6, <2>1, <2>2 DEF PutTombstone
<1>7. CASE EmitDeleted(c)
    BY <1>7 DEF EmitDeleted
<1> QED BY <1>1, <1>2, <1>3, <1>4, <1>5, <1>6, <1>7 DEF DeleteBlob

\* The steps of RetrieveBlob, and a handler that dies, keep every type.
LEMMA ReadTypeStep ==
    ASSUME TypeOK, NEW c \in Calls, RetrieveBlob(c) \/ Die(c) PROVE TypeOK'
<1> USE ArgOfCall DEF TypeOK, Goes, Step, Locked, Reading, Outcome, data, store
<1>1. CASE ReadRecord(c)
    BY <1>1 DEF ReadRecord
<1>2. CASE FetchBytes(c)
    BY <1>2 DEF FetchBytes
<1>3. CASE ReadKey(c)
    BY <1>3 DEF ReadKey
<1>4. CASE EmitRetrieved(c)
    BY <1>4 DEF EmitRetrieved
<1>5. CASE Die(c)
    BY <1>5 DEF Die
<1> QED BY <1>1, <1>2, <1>3, <1>4, <1>5 DEF RetrieveBlob

\* Every step keeps every type.
LEMMA TypeStep == TypeOK /\ DeletionInv /\ [Next]_vars => TypeOK'
<1>1. ASSUME TypeOK, UNCHANGED vars PROVE TypeOK'
    BY <1>1 DEF TypeOK, vars, data, store, call
<1> QED BY <1>1, StoreTypeStep, BeginTypeStep, MoveTypeStep, DeleteTypeStep, ReadTypeStep DEF Next

--------------------------------------------------------------------------------
(* The lock, and what is true of the record while it is held.               *)

\* A StoreBlob acts on a blob no other call can name yet.
LEMMA StoreDeletionStep ==
    ASSUME TypeOK, DeletionInv, NEW b \in Blobs, StoreBlob(b) PROVE DeletionInv'
<1>1. /\ spc[b] # "stored"
      /\ \A a \in Blobs \ {b} : record'[a] = record[a] /\ spc'[a] = spc[a]
      /\ record'[b] = None \/ ~record'[b].deleted
      /\ UNCHANGED <<lock, call>>
    BY DEF StoreBlob, WriteBlob, PutRecord, PutWrappingKey, GrantOwner, EmitStored,
        UndoCopy, UndoRecord, UndoKey, UndoGrant, DieStoring, StoreGoes, data, call,
        TypeOK, DeletionInv
<1>2. \A c \in Calls : arg[c] # None => Blob(c) \in Blobs \ {b}
    BY <1>1 DEF DeletionInv, TypeOK, Arg, Blob
<1>3. \A c \in Calls : pc[c] \in Working \/ pc[c] \in Locked \/ Finished(c) => arg[c] # None
    BY DEF TypeOK, Working, Locked, Finished
<1>4. LockHeldWhileActing' /\ DeletedOnce'
    BY <1>1 DEF DeletionInv, LockHeldWhileActing, DeletedOnce, Finished, Blob, call
<1> QED BY <1>1, <1>2, <1>3, <1>4 DEF DeletionInv, Finished, Blob, call

\* What a step of one call must do for itself, and leave alone for the others.
LEMMA CallDeletionStep ==
    ASSUME TypeOK, DeletionInv, TypeOK', NEW c \in Calls, UNCHANGED spc,
           \A d \in Calls \ {c} : pc'[d] = pc[d] /\ arg'[d] = arg[d] /\ seen'[d] = seen[d],
           \A b \in Blobs, d \in Calls \ {c} : lock[b] = d => lock'[b] = d,
           \/ UNCHANGED record
           \/ pc[c] \in Working /\ \A b \in Blobs \ {Blob(c)} : record'[b] = record[b],
           arg'[c] = arg[c] \/ (pc[c] = "idle" /\ spc[arg'[c].blob] = "stored"),
           pc'[c] \in Locked => lock'[arg'[c].blob] = c,
           pc'[c] \in Moving => arg'[c].kind = "move",
           pc'[c] \in Working =>
                /\ seen'[c] = record'[arg'[c].blob] /\ seen'[c] # None
                /\ ~seen'[c].deleted,
           Finished(c)' =>
                /\ record'[arg'[c].blob] # None /\ record'[arg'[c].blob].deleted
                /\ Finished(c) \/ pc[c] \in Working
    PROVE  DeletionInv'
<1>1. \A d \in Calls : arg[d] # None => Blob(d) \in Blobs
    BY DEF TypeOK, Arg, Blob
<1>2. \A d \in Calls : pc[d] \in Working \/ pc[d] \in Locked \/ Finished(d) => arg[d] # None
    BY DEF TypeOK, Working, Locked, Finished
<1>3. \A d \in Calls \ {c} : Finished(d)' <=> Finished(d)
    BY DEF Finished
<1>4. \A d \in Calls \ {c} : Blob(d)' = Blob(d)
    BY DEF Blob
<1>5. Blob(c)' = arg'[c].blob
    BY DEF Blob
<1>6. Working \subseteq Locked
    BY DEF Working, Locked
<1>7. \A d \in Calls \ {c} :
        pc[d] \in Locked \/ Finished(d) => record'[Blob(d)] = record[Blob(d)]
    <2>1. ASSUME NEW d \in Calls \ {c}, pc[d] \in Locked \/ Finished(d), pc[c] \in Working
          PROVE  Blob(c) # Blob(d)
        <3>1. CASE pc[d] \in Locked
            BY <1>6, <2>1, <3>1 DEF DeletionInv, LockHeldWhileActing
        <3>2. CASE Finished(d)
            BY <2>1, <3>2 DEF DeletionInv
        <3> QED BY <2>1, <3>1, <3>2
    <2> QED BY <1>1, <1>2, <2>1
<1>8. \A d \in Calls : arg'[d] # None => spc[Blob(d)'] = "stored"
    BY <1>4, <1>5 DEF DeletionInv, Blob
<1>9. LockHeldWhileActing'
    BY <1>1, <1>2, <1>4, <1>5 DEF DeletionInv, LockHeldWhileActing
<1>10. \A d \in Calls : pc'[d] \in Working =>
            seen'[d] = record'[Blob(d)'] /\ seen'[d] # None /\ ~seen'[d].deleted
    BY <1>4, <1>5, <1>6, <1>7 DEF DeletionInv
<1>11. \A b \in Blobs : record'[b] # None /\ record'[b].deleted => spc[b] = "stored"
    BY <1>2 DEF DeletionInv
<1>12. \A d \in Calls : Finished(d)' => record'[Blob(d)'] # None /\ record'[Blob(d)'].deleted
    BY <1>3, <1>4, <1>5, <1>7 DEF DeletionInv
<1>13. DeletedOnce'
    <2>1. ASSUME NEW d \in Calls \ {c}, Finished(c)', Finished(d), Blob(c)' = Blob(d) PROVE FALSE
        <3>1. pc[c] # "idle"
            BY <2>1 DEF Finished, Working
        <3>2. Blob(c) = Blob(d)
            BY <1>5, <2>1, <3>1 DEF Blob
        <3>3. CASE Finished(c)
            BY <2>1, <3>2, <3>3 DEF DeletionInv, DeletedOnce
        <3>4. CASE pc[c] \in Working
            BY <2>1, <3>2, <3>4 DEF DeletionInv
        <3> QED BY <2>1, <3>3, <3>4
    <2> SUFFICES ASSUME NEW d \in Calls, NEW e \in Calls,
                        Finished(d)', Finished(e)', Blob(d)' = Blob(e)'
                 PROVE  d = e
        BY DEF DeletedOnce
    <2>2. CASE d # c /\ e # c
        BY <1>3, <1>4, <2>2 DEF DeletionInv, DeletedOnce
    <2>3. CASE d = c \/ e = c
        BY <1>3, <1>4, <2>1, <2>3
    <2> QED BY <2>2, <2>3
<1>14. \A d \in Calls : pc'[d] \in Moving => arg'[d].kind = "move"
    BY DEF DeletionInv
<1> QED BY <1>8, <1>9, <1>10, <1>11, <1>12, <1>13, <1>14 DEF DeletionInv

\* A lock is taken when it is free, so its holder stays the only one.
LEMMA BeginDeletionStep ==
    ASSUME TypeOK, DeletionInv, NEW c \in Calls, BeginSome(c) \/ LockBlob(c)
    PROVE  DeletionInv'
<1>1. TypeOK'
    BY BeginTypeStep
<1> USE DEF TypeOK, Goes, Locked, Moving, Working, Finished, data, store, Blob
<1>2. ASSUME NEW b \in Blobs, NEW kind, NEW p, BeginCall(c, kind, b, p) PROVE DeletionInv'
    BY <1>1, <1>2, CallDeletionStep DEF BeginCall
<1>3. CASE LockBlob(c)
    BY <1>1, <1>3, ArgOfCall, StorageAssumption, CallDeletionStep DEF LockBlob
<1> QED BY <1>2, <1>3 DEF BeginSome

\* Each step of MoveBlob works on the record it has read, under its lock.
LEMMA MoveDeletionStep ==
    ASSUME TypeOK, DeletionInv, NEW c \in Calls, MoveBlob(c) PROVE DeletionInv'
<1>1. TypeOK'
    BY MoveTypeStep
<1>2. /\ Blob(c) \in Blobs /\ lock[Blob(c)] = c
      /\ \A b \in Blobs, d \in Calls \ {c} : lock[b] = d => b # Blob(c)
      /\ pc[c] \in Working => seen[c] = record[Blob(c)] /\ seen[c] # None /\ ~seen[c].deleted
      /\ pc[c] \in Moving => arg[c].kind = "move"
    <2>1. pc[c] \in Locked
        BY DEF MoveBlob, ReadForMove, FetchForMove, CopyToNew, DeleteOld, PutMoved, EmitMoved,
            Goes, Leaves, Locked
    <2> QED BY <2>1, ArgOfCall DEF DeletionInv, LockHeldWhileActing, Locked
<1> HIDE DEF DeletionInv
<1> USE <1>1, <1>2 DEF TypeOK, Goes, Leaves, Locked, Moving, Working, Finished, data, store, Blob
<1>3. CASE ReadForMove(c)
    BY <1>3, CallDeletionStep DEF ReadForMove
<1>4. CASE FetchForMove(c)
    BY <1>4, CallDeletionStep DEF FetchForMove
<1>5. CASE CopyToNew(c)
    BY <1>5, CallDeletionStep DEF CopyToNew
<1>6. CASE DeleteOld(c)
    BY <1>6, CallDeletionStep DEF DeleteOld
<1>7. CASE PutMoved(c)
    BY <1>7, CallDeletionStep DEF PutMoved
<1>8. CASE EmitMoved(c)
    BY <1>8, CallDeletionStep DEF EmitMoved
<1> QED BY <1>3, <1>4, <1>5, <1>6, <1>7, <1>8 DEF MoveBlob

\* Each step of DeleteBlob works on the record it has read; one tombstone is written.
LEMMA DeleteDeletionStep ==
    ASSUME TypeOK, DeletionInv, NEW c \in Calls, DeleteBlob(c) PROVE DeletionInv'
<1>1. TypeOK'
    BY DeleteTypeStep
<1>2. /\ Blob(c) \in Blobs /\ lock[Blob(c)] = c
      /\ \A b \in Blobs, d \in Calls \ {c} : lock[b] = d => b # Blob(c)
      /\ pc[c] \in Working => seen[c] = record[Blob(c)] /\ seen[c] # None /\ ~seen[c].deleted
      /\ Finished(c) => record[Blob(c)] # None /\ record[Blob(c)].deleted
    <2>1. pc[c] \in Locked
        BY DEF DeleteBlob, ReadForDelete, PhysicalDelete, DropKey, CryptoShred,
            TryDeleteShredded, PutTombstone, EmitDeleted, Goes, Leaves, Locked
    <2> QED BY <2>1, ArgOfCall DEF DeletionInv, LockHeldWhileActing, Locked
<1> USE <1>1, <1>2 DEF TypeOK, Goes, Leaves, Locked, Moving, Working, Finished, data, store, Blob
<1>3. CASE ReadForDelete(c)
    BY <1>3, CallDeletionStep DEF ReadForDelete
<1>4. CASE PhysicalDelete(c)
    BY <1>4, CallDeletionStep DEF PhysicalDelete
<1>5. CASE DropKey(c)
    BY <1>5, CallDeletionStep DEF DropKey
<1>6. CASE CryptoShred(c)
    BY <1>6, CallDeletionStep DEF CryptoShred
<1>7. CASE TryDeleteShredded(c)
    BY <1>7, CallDeletionStep DEF TryDeleteShredded
<1>8. CASE PutTombstone(c)
    <2>1. /\ record'[Blob(c)] # None /\ record'[Blob(c)].deleted
          /\ \A b \in Blobs \ {Blob(c)} : record'[b] = record[b]
        <3>1. seen[c] \in Record /\ record' = [record EXCEPT ![Blob(c)] = [seen[c] EXCEPT !.deleted = TRUE]]
            BY <1>8 DEF PutTombstone
        <3>2. [seen[c] EXCEPT !.deleted = TRUE] \in Record /\ [seen[c] EXCEPT !.deleted = TRUE].deleted
            BY <3>1 DEF Record
        <3> HIDE DEF TypeOK, Goes, Leaves, Locked, Moving, Working, Finished, data, store
        <3>3. record \in [Blobs -> Record \cup {None}] /\ Blob(c) \in Blobs
            BY <1>2 DEF TypeOK
        <3> HIDE DEF Blob
        <3> QED BY <3>1, <3>2, <3>3, StorageAssumption
    <2> QED BY <1>8, <2>1, CallDeletionStep DEF PutTombstone
<1>9. CASE EmitDeleted(c)
    BY <1>9, CallDeletionStep DEF EmitDeleted
<1> QED BY <1>3, <1>4, <1>5, <1>6, <1>7, <1>8, <1>9 DEF DeleteBlob

\* RetrieveBlob and a dying handler write no record; the lock dies with its holder.
LEMMA ReadDeletionStep ==
    ASSUME TypeOK, DeletionInv, NEW c \in Calls, RetrieveBlob(c) \/ Die(c) PROVE DeletionInv'
<1>1. TypeOK'
    BY ReadTypeStep
<1> USE <1>1 DEF TypeOK, Goes, Locked, Reading, Moving, Working, Finished, data, store, Blob
<1>2. CASE RetrieveBlob(c)
    BY <1>2, CallDeletionStep DEF RetrieveBlob, ReadRecord, FetchBytes, ReadKey, EmitRetrieved
<1>3. CASE Die(c)
    <2>1. Blob(c) \in Blobs /\ (pc[c] \in Locked => lock[Blob(c)] = c)
        BY <1>3, ArgOfCall DEF Die, DeletionInv, LockHeldWhileActing
    <2> QED BY <1>3, <2>1, CallDeletionStep DEF Die
<1> QED BY <1>2, <1>3

\* Every step preserves DeletionInv.
LEMMA DeletionStep == TypeOK /\ DeletionInv /\ [Next]_vars => DeletionInv'
<1>1. ASSUME DeletionInv, UNCHANGED vars PROVE DeletionInv'
    BY <1>1 DEF DeletionInv, LockHeldWhileActing, DeletedOnce, Finished, Blob,
        vars, data, store, call
<1> QED BY <1>1, StoreDeletionStep, BeginDeletionStep, MoveDeletionStep, DeleteDeletionStep,
        ReadDeletionStep DEF Next

--------------------------------------------------------------------------------
(* The theorems.                                                            *)

\* DeletionInv holds in every reachable state.
LEMMA DeletionInvariant == Spec => [](TypeOK /\ DeletionInv)
<1>1. Init => TypeOK /\ DeletionInv
    BY StorageAssumption DEF Init, TypeOK, DeletionInv, LockHeldWhileActing, DeletedOnce,
        Finished, Locked, Moving, Working, StoreStep, Step, Arg, Blob
<1>2. TypeOK /\ DeletionInv /\ [Next]_vars => (TypeOK /\ DeletionInv)'
    BY TypeStep, DeletionStep
<1> QED BY <1>1, <1>2, PTL DEF Spec

\* Every variable keeps its type.
THEOREM StorageTypeCorrect == Spec => []TypeOK
BY DeletionInvariant, PTL

\* MoveBlob and DeleteBlob calls on one blob exclude each other, for any number
\* of calls on any number of blobs.
THEOREM LockIsHeld == Spec => []LockHeldWhileActing
<1>1. DeletionInv => LockHeldWhileActing
    BY DEF DeletionInv
<1> QED BY <1>1, DeletionInvariant, PTL

\* However many DeleteBlob calls race, at most one deletes the blob.
THEOREM DeletedAtMostOnce == Spec => []DeletedOnce
<1>1. DeletionInv => DeletedOnce
    BY DEF DeletionInv
<1> QED BY <1>1, DeletionInvariant, PTL

\* Blob b has a tombstone.
Tombstoned(b) == record[b] # None /\ record[b].deleted

\* No step clears a tombstone: whoever writes a record has read it without one.
LEMMA TombstoneStep ==
    ASSUME TypeOK, DeletionInv, [Next]_vars, NEW b \in Blobs, Tombstoned(b)
    PROVE  Tombstoned(b)'
<1> SUFFICES record'[b] = record[b]
    BY DEF Tombstoned
<1>1. spc[b] = "stored"
    BY DEF DeletionInv, Tombstoned
<1>2. ASSUME NEW a \in Blobs, StoreBlob(a) PROVE record'[b] = record[b]
    BY <1>1, <1>2 DEF StoreBlob, WriteBlob, PutRecord, PutWrappingKey, GrantOwner, EmitStored,
        UndoCopy, UndoRecord, UndoKey, UndoGrant, DieStoring, StoreGoes, data, TypeOK
<1>3. ASSUME NEW c \in Calls, pc[c] \in Working PROVE Blob(c) # b
    BY <1>3 DEF DeletionInv, Tombstoned
<1>4. ASSUME NEW c \in Calls, MoveBlob(c) \/ DeleteBlob(c) PROVE record'[b] = record[b]
    <2>1. UNCHANGED record \/ PutMoved(c) \/ PutTombstone(c)
        BY <1>4 DEF MoveBlob, ReadForMove, FetchForMove, CopyToNew, DeleteOld, EmitMoved,
            DeleteBlob, ReadForDelete, PhysicalDelete, DropKey, CryptoShred,
            TryDeleteShredded, EmitDeleted, data
    <2>2. CASE PutMoved(c) \/ PutTombstone(c)
        BY <1>3, <2>2 DEF PutMoved, PutTombstone, Goes, Working, TypeOK
    <2> QED BY <2>1, <2>2
<1>5. ASSUME NEW c \in Calls, BeginSome(c) \/ LockBlob(c) \/ RetrieveBlob(c) \/ Die(c)
      PROVE  record' = record
    BY <1>5 DEF BeginSome, BeginCall, LockBlob, RetrieveBlob, ReadRecord, FetchBytes, ReadKey,
        EmitRetrieved, Die, data
<1> QED BY <1>2, <1>4, <1>5 DEF Next, vars, data

\* A tombstone is never undone, whatever moves and rollbacks run beside it.
THEOREM TombstonesAreFinal == Spec => DeletionIsFinal
<1>1. TypeOK /\ DeletionInv /\ [Next]_vars =>
        [\A b \in Blobs : record[b] # None /\ record[b].deleted
            => record'[b] # None /\ record'[b].deleted]_vars
    BY TombstoneStep DEF Tombstoned
<1> QED BY <1>1, DeletionInvariant, PTL DEF Spec, DeletionIsFinal

--------------------------------------------------------------------------------
(* The bytes.  What is true of a blob's four places between two steps.      *)

\* Nothing went wrong with the blob and nobody has begun to erase it.
Clean(b) == b \notin interrupted \cup erasing

\* No call has the blob in its hands: its one copy is where its record says, and a
\* deletion that was begun was interrupted or has been carried out.
Settled(b) ==
    /\ Clean(b) => copies[b] = {record[b].policy}
    /\ b \in erasing \ interrupted => record[b].deleted

\* How far StoreBlob, or its rollback, has come shows in the four places.
StoringInv(b) ==
    /\ spc[b] \in {"written", "recorded", "keyed", "granted"} => copies[b] = {home[b]}
    /\ spc[b] \in {"recorded", "keyed", "granted"} =>
            record[b] = [policy |-> home[b], deleted |-> FALSE]
    /\ spc[b] \in {"keyed", "granted"} => key[b]
    /\ spc[b] = "granted" => granted[b]
    /\ spc[b] \in {"undoKey", "undoGrant", "rolledBack"} => record[b] = None
    /\ spc[b] \in {"undoGrant", "rolledBack"} => ~key[b]
    /\ spc[b] # "stored" => b \notin erasing

\* A stored blob can be read until its erasure begins, and is settled while unlocked.
StoredInv(b) ==
    spc[b] = "stored" =>
        /\ granted[b] /\ record[b] # None
        /\ b \notin erasing => key[b] /\ copies[b] # {} /\ ~record[b].deleted
        /\ lock[b] = None => Settled(b)

\* A tombstone is true.
GoneInv(b) ==
    record[b] # None /\ record[b].deleted =>
        /\ ~key[b]
        /\ record[b].policy \in Physical => record[b].policy \notin copies[b]
        /\ record[b].policy \in Physical /\ b \notin interrupted => copies[b] = {}

\* What the holder of a blob's lock has done to it so far.
HolderInv(c) ==
    LET b == Blob(c)
        old == seen[c].policy
        new == arg[c].to IN
    /\ pc[c] \in {"locked", "moving", "fetched", "switched", "deleting"} => Settled(b)
    /\ pc[c] \in {"moving", "fetched", "copied", "cleared"} => new # old
    /\ pc[c] \in {"fetched", "copied"} => old \in copies[b]
    /\ pc[c] \in {"copied", "cleared"} =>
            new \in copies[b] /\ (b \in erasing => b \in interrupted)
    /\ pc[c] = "copied" /\ Clean(b) => copies[b] = {old, new}
    /\ pc[c] = "cleared" /\ Clean(b) => copies[b] = {new}
    /\ pc[c] \in {"deleting", "erased", "shredded", "keyless", "tombstoned"} => arg[c].kind = "delete"
    /\ pc[c] \in {"erased", "shredded", "keyless", "tombstoned"} => b \in erasing
    /\ pc[c] = "erased" => old \in Physical
    /\ pc[c] = "shredded" => old \notin Physical
    /\ pc[c] \in {"shredded", "keyless"} => ~key[b]
    /\ pc[c] \in {"erased", "keyless"} /\ old \in Physical =>
            old \notin copies[b] /\ (b \notin interrupted => copies[b] = {})

\* The inductive invariant behind BytesSurvive, SoleCopyWhereRecorded, DeletedIsGone
\* and RollbackLeavesNothing.
DataInv ==
    /\ \A b \in Blobs : StoringInv(b) /\ StoredInv(b) /\ GoneInv(b)
    /\ \A c \in Calls : HolderInv(c)

\* The initial state satisfies DataInv.
LEMMA DataInit == Init => DataInv
BY StorageAssumption DEF Init, DataInv, StoringInv, StoredInv, GoneInv, HolderInv

\* StoreBlob works on a blob that no call can name yet.
LEMMA StoreDataStep ==
    ASSUME TypeOK, DeletionInv, DataInv, NEW b \in Blobs, StoreBlob(b) PROVE DataInv'
<1>1. /\ spc[b] # "stored"
      /\ \A a \in Blobs \ {b} :
            /\ record'[a] = record[a] /\ key'[a] = key[a] /\ copies'[a] = copies[a]
            /\ granted'[a] = granted[a] /\ spc'[a] = spc[a] /\ home'[a] = home[a]
      /\ UNCHANGED <<lock, pc, arg, seen, interrupted, erasing>>
  <2> USE DEF StoreGoes, data, call, TypeOK
  <2>1. CASE (\E p \in Policies : WriteBlob(b, p)) \/ PutRecord(b) \/ PutWrappingKey(b)
    BY <2>1 DEF WriteBlob, PutRecord, PutWrappingKey
  <2>2. CASE GrantOwner(b) \/ EmitStored(b) \/ UndoCopy(b) \/ UndoRecord(b)
    BY <2>2 DEF GrantOwner, EmitStored, UndoCopy, UndoRecord
  <2>3. CASE UndoKey(b) \/ UndoGrant(b) \/ DieStoring(b)
    BY <2>3 DEF UndoKey, UndoGrant, DieStoring
  <2> QED BY <2>1, <2>2, <2>3 DEF StoreBlob
<1>2. \A a \in Blobs \ {b} : StoringInv(a)' /\ StoredInv(a)' /\ GoneInv(a)'
  BY <1>1 DEF DataInv, StoringInv, StoredInv, GoneInv, Settled, Clean
<1>3. \A c \in Calls : HolderInv(c)'
  <2> SUFFICES ASSUME NEW c \in Calls PROVE HolderInv(c)'
    OBVIOUS
  <2>1. CASE pc[c] = "idle"
    BY <1>1, <2>1 DEF HolderInv
  <2>2. CASE pc[c] # "idle"
    <3>1. PICK a \in Blobs \ {b} : a = Blob(c)
      BY <1>1, <2>2, ArgOfCall DEF DeletionInv, TypeOK
    <3>2. Blob(c)' = a
      BY <1>1, <3>1 DEF Blob
    <3> QED BY <1>1, <3>1, <3>2 DEF DataInv, HolderInv, Settled, Clean
  <2> QED BY <2>1, <2>2
<1>4. StoringInv(b)' /\ StoredInv(b)' /\ GoneInv(b)'
  <2>1. StoringInv(b) /\ b \notin erasing /\ (record[b] = None \/ ~record[b].deleted)
    BY <1>1 DEF DataInv, StoringInv, DeletionInv
  <2> USE <1>1, <2>1 DEF StoreGoes, TypeOK, StoringInv, StoredInv, GoneInv, Settled, Clean
  <2>2. ASSUME NEW p \in Policies, WriteBlob(b, p) PROVE StoringInv(b)' /\ StoredInv(b)' /\ GoneInv(b)'
    BY <2>2 DEF WriteBlob
  <2>3. CASE PutRecord(b)
    BY <2>3 DEF PutRecord
  <2>4. CASE PutWrappingKey(b)
    BY <2>4 DEF PutWrappingKey
  <2>5. CASE GrantOwner(b)
    BY <2>5 DEF GrantOwner
  <2>6. CASE EmitStored(b)
    <3>1. home[b] \in Policies /\ record[b] = [policy |-> home[b], deleted |-> FALSE]
      BY <2>6 DEF EmitStored
    <3>2. record[b] # None /\ record[b].policy = home[b] /\ ~record[b].deleted
      <4>1. PICK r : r = [policy |-> home[b], deleted |-> FALSE]
        OBVIOUS
      <4>2. r \in Record /\ r.policy = home[b] /\ ~r.deleted
        BY <3>1, <4>1 DEF Record
      <4>3. record[b] = r
        BY <3>1, <4>1
      <4> HIDE <1>1, <2>1 DEF StoreGoes, TypeOK, StoringInv, StoredInv, GoneInv, Settled, Clean
      <4> QED BY <4>2, <4>3, StorageAssumption
    <3> QED BY <2>6, <3>2 DEF EmitStored, data
  <2>7. CASE UndoCopy(b) \/ UndoRecord(b)
    BY <2>7 DEF UndoCopy, UndoRecord
  <2>8. CASE UndoKey(b) \/ UndoGrant(b)
    BY <2>8 DEF UndoKey, UndoGrant
  <2>9. CASE DieStoring(b)
    BY <2>9 DEF DieStoring, data
  <2> QED BY <2>2, <2>3, <2>4, <2>5, <2>6, <2>7, <2>8, <2>9 DEF StoreBlob
<1> QED BY <1>2, <1>3, <1>4 DEF DataInv

\* A step of a call that touches none of the four places and no lock.
LEMMA IdleDataStep ==
    ASSUME DataInv, NEW c \in Calls, UNCHANGED <<data, lock, spc, home, interrupted, erasing>>,
           \A d \in Calls \ {c} : pc'[d] = pc[d] /\ arg'[d] = arg[d] /\ seen'[d] = seen[d],
           pc'[c] \notin Locked
    PROVE  DataInv'
<1>1. \A d \in Calls \ {c} : HolderInv(d)'
  <2> SUFFICES ASSUME NEW d \in Calls \ {c} PROVE HolderInv(d)'
    OBVIOUS
  <2>1. Blob(d)' = Blob(d)
    BY DEF Blob
  <2> QED BY <2>1 DEF DataInv, HolderInv, Settled, Clean, data
<1>2. HolderInv(c)'
  BY DEF HolderInv, Locked
<1>3. \A b \in Blobs : StoringInv(b)' /\ StoredInv(b)' /\ GoneInv(b)'
  BY DEF DataInv, StoringInv, StoredInv, GoneInv, Settled, Clean, data
<1> QED BY <1>1, <1>2, <1>3 DEF DataInv

\* A step of the call that has, takes or gives up the lock of its blob concerns that
\* blob and that call only.
LEMMA HolderDataStep ==
    ASSUME TypeOK, DeletionInv, DataInv, NEW c \in Calls, NEW b \in Blobs, b = Blob(c),
           pc[c] # "idle", lock[b] \in {None, c}, UNCHANGED <<granted, spc, home, arg>>,
           \A d \in Calls \ {c} : pc'[d] = pc[d] /\ seen'[d] = seen[d],
           \A a \in Blobs \ {b} :
                /\ record'[a] = record[a] /\ key'[a] = key[a] /\ copies'[a] = copies[a]
                /\ lock'[a] = lock[a]
                /\ a \in interrupted' <=> a \in interrupted
                /\ a \in erasing' <=> a \in erasing,
           StoredInv(b)', GoneInv(b)', HolderInv(c)'
    PROVE  DataInv'
<1>1. spc'[b] = "stored"
  BY DEF DeletionInv, TypeOK
<1>2. StoringInv(b)'
  BY <1>1 DEF StoringInv
<1>3. \A a \in Blobs \ {b} : StoringInv(a)' /\ StoredInv(a)' /\ GoneInv(a)'
  BY DEF DataInv, StoringInv, StoredInv, GoneInv, Settled, Clean
<1>4. ASSUME NEW d \in Calls \ {c} PROVE HolderInv(d)'
  <2>1. CASE pc[d] \notin Locked
    BY <2>1 DEF HolderInv, Locked
  <2>2. CASE pc[d] \in Locked
    <3>1. PICK a \in Blobs : a = Blob(d)
      BY <2>2, ArgOfCall DEF Locked
    <3>2. a # b
      BY <2>2, <3>1, StorageAssumption DEF DeletionInv, LockHeldWhileActing
    <3>3. Blob(d)' = a
      BY <3>1 DEF Blob
    <3> QED BY <3>1, <3>2, <3>3 DEF DataInv, HolderInv, Settled, Clean
  <2> QED BY <2>1, <2>2
<1> QED BY <1>2, <1>3, <1>4 DEF DataInv

\* What a call that holds a lock knows: where its blob is, and what it has read.
LEMMA HolderKnows ==
    ASSUME TypeOK, DeletionInv, DataInv, NEW c \in Calls, pc[c] \in Locked
    PROVE  /\ Blob(c) \in Blobs /\ arg[c].to \in Policies
           /\ pc[c] # "idle" /\ lock[Blob(c)] = c /\ c # None
           /\ spc[Blob(c)] = "stored" /\ record[Blob(c)] \in Record
           /\ StoredInv(Blob(c)) /\ GoneInv(Blob(c)) /\ HolderInv(c)
           /\ pc[c] \in Working => seen[c] = record[Blob(c)] /\ ~seen[c].deleted
<1>1. pc[c] # "idle" /\ arg[c] \in Arg /\ Blob(c) \in Blobs
  BY ArgOfCall DEF Locked
<1>2. spc[Blob(c)] = "stored" /\ lock[Blob(c)] = c
  BY <1>1 DEF DeletionInv, LockHeldWhileActing, TypeOK
<1>3. StoredInv(Blob(c)) /\ GoneInv(Blob(c)) /\ HolderInv(c)
  BY <1>1 DEF DataInv
<1>4. record[Blob(c)] \in Record
  BY <1>1, <1>2, <1>3 DEF StoredInv, TypeOK
<1> QED BY <1>1, <1>2, <1>3, <1>4, StorageAssumption DEF Arg, DeletionInv

\* MoveBlob has the bytes in one place at least, and in one place only when it
\* returns without an interruption or a duplicate to report.
LEMMA MoveDataStep ==
    ASSUME TypeOK, DeletionInv, DataInv, NEW c \in Calls, MoveBlob(c) PROVE DataInv'
<1>1. pc[c] \in Locked
  BY DEF MoveBlob, ReadForMove, FetchForMove, CopyToNew, DeleteOld, PutMoved, EmitMoved,
         Goes, Leaves, Locked
<1>2. PICK b \in Blobs : b = Blob(c)
  BY <1>1, HolderKnows
<1>3. /\ lock[b] = c /\ spc[b] = "stored" /\ record[b] \in Record /\ record[b] # None
      /\ StoredInv(b) /\ GoneInv(b) /\ HolderInv(c) /\ pc[c] # "idle"
      /\ pc[c] \in Working => seen[c] = record[b] /\ ~seen[c].deleted
      /\ c # None /\ arg[c].to \in Policies
  BY <1>1, <1>2, HolderKnows, StorageAssumption
<1>4. SUFFICES ASSUME UNCHANGED <<granted, spc, home, arg>>,
                 \A d \in Calls \ {c} : pc'[d] = pc[d] /\ seen'[d] = seen[d],
                 \A a \in Blobs \ {b} :
                    /\ record'[a] = record[a] /\ key'[a] = key[a] /\ copies'[a] = copies[a]
                    /\ lock'[a] = lock[a]
                    /\ a \in interrupted' <=> a \in interrupted
                    /\ a \in erasing' <=> a \in erasing
               PROVE  StoredInv(b)' /\ GoneInv(b)' /\ HolderInv(c)'
  <2>1. UNCHANGED <<granted, spc, home, arg>>
    BY DEF MoveBlob, ReadForMove, FetchForMove, CopyToNew, DeleteOld, PutMoved, EmitMoved,
           Goes, Leaves, data, store
  <2>2. \A d \in Calls \ {c} : pc'[d] = pc[d] /\ seen'[d] = seen[d]
    BY DEF MoveBlob, ReadForMove, FetchForMove, CopyToNew, DeleteOld, PutMoved, EmitMoved,
           Goes, Leaves, TypeOK
  <2>3. \A a \in Blobs \ {b} :
            /\ record'[a] = record[a] /\ key'[a] = key[a] /\ copies'[a] = copies[a]
            /\ lock'[a] = lock[a]
            /\ a \in interrupted' <=> a \in interrupted
            /\ a \in erasing' <=> a \in erasing
    BY <1>2 DEF MoveBlob, ReadForMove, FetchForMove, CopyToNew, DeleteOld, PutMoved, EmitMoved,
           Goes, Leaves, TypeOK, data
  <2> QED BY <1>2, <1>3, <2>1, <2>2, <2>3, HolderDataStep
<1>5. Blob(c)' = b
  BY <1>2, <1>4 DEF Blob
<1>6. /\ pc \in [Calls -> Step] /\ lock \in [Blobs -> Calls \cup {None}]
      /\ copies \in [Blobs -> SUBSET Policies] /\ record \in [Blobs -> Record \cup {None}]
      /\ seen \in [Calls -> Record \cup {None}]
  BY DEF TypeOK
<1> USE <1>2, <1>3, <1>5, <1>6 DEF Goes, Leaves, Locked, Working, StoredInv, GoneInv, HolderInv, Settled, Clean
<1>7. CASE ReadForMove(c)
  BY <1>7 DEF ReadForMove, data, store
<1>8. CASE FetchForMove(c)
  BY <1>8 DEF FetchForMove, data, store
<1>9. CASE CopyToNew(c)
  BY <1>9 DEF CopyToNew, store
<1>10. CASE DeleteOld(c)
  BY <1>10 DEF DeleteOld, store
<1>11. CASE PutMoved(c)
  <2>1. PICK r : r = [seen[c] EXCEPT !.policy = arg[c].to]
    OBVIOUS
  <2>2. pc[c] = "cleared" /\ record' = [record EXCEPT ![b] = r]
    BY <1>11, <2>1 DEF PutMoved
  <2>3. r \in Record /\ r.policy = arg[c].to /\ ~r.deleted
    BY <2>1, <2>2 DEF Record
  <2>4. record'[b] = r /\ r # None
    BY <2>2, <2>3, StorageAssumption
  <2> QED BY <1>11, <2>3, <2>4 DEF PutMoved, store
<1>12. CASE EmitMoved(c)
  BY <1>12 DEF EmitMoved, data, store
<1> QED BY <1>7, <1>8, <1>9, <1>10, <1>11, <1>12 DEF MoveBlob

\* DeleteBlob erases before it writes the tombstone, and stops where it fails.
LEMMA DeleteDataStep ==
    ASSUME TypeOK, DeletionInv, DataInv, NEW c \in Calls, DeleteBlob(c) PROVE DataInv'
<1>1. pc[c] \in Locked
  BY DEF DeleteBlob, ReadForDelete, PhysicalDelete, DropKey, CryptoShred,
         TryDeleteShredded, PutTombstone, EmitDeleted, Goes, Leaves, Locked
<1>2. PICK b \in Blobs : b = Blob(c)
  BY <1>1, HolderKnows
<1>3. /\ lock[b] = c /\ spc[b] = "stored" /\ record[b] \in Record /\ record[b] # None
      /\ StoredInv(b) /\ GoneInv(b) /\ HolderInv(c) /\ pc[c] # "idle"
      /\ pc[c] \in Working => seen[c] = record[b] /\ ~seen[c].deleted
      /\ c # None
  BY <1>1, <1>2, HolderKnows, StorageAssumption
<1>4. SUFFICES ASSUME UNCHANGED <<granted, spc, home, arg>>,
                 \A d \in Calls \ {c} : pc'[d] = pc[d] /\ seen'[d] = seen[d],
                 \A a \in Blobs \ {b} :
                    /\ record'[a] = record[a] /\ key'[a] = key[a] /\ copies'[a] = copies[a]
                    /\ lock'[a] = lock[a]
                    /\ a \in interrupted' <=> a \in interrupted
                    /\ a \in erasing' <=> a \in erasing
               PROVE  StoredInv(b)' /\ GoneInv(b)' /\ HolderInv(c)'
  <2>1. UNCHANGED <<granted, spc, home, arg>>
    BY DEF DeleteBlob, ReadForDelete, PhysicalDelete, DropKey, CryptoShred,
           TryDeleteShredded, PutTombstone, EmitDeleted, Goes, Leaves, data, store
  <2>2. \A d \in Calls \ {c} : pc'[d] = pc[d] /\ seen'[d] = seen[d]
    BY DEF DeleteBlob, ReadForDelete, PhysicalDelete, DropKey, CryptoShred,
           TryDeleteShredded, PutTombstone, EmitDeleted, Goes, Leaves, TypeOK
  <2>3. \A a \in Blobs \ {b} :
            /\ record'[a] = record[a] /\ key'[a] = key[a] /\ copies'[a] = copies[a]
            /\ lock'[a] = lock[a]
            /\ a \in interrupted' <=> a \in interrupted
            /\ a \in erasing' <=> a \in erasing
    BY <1>2 DEF DeleteBlob, ReadForDelete, PhysicalDelete, DropKey, CryptoShred,
           TryDeleteShredded, PutTombstone, EmitDeleted, Goes, Leaves, TypeOK, data
  <2> QED BY <1>2, <1>3, <2>1, <2>2, <2>3, HolderDataStep
<1>5. Blob(c)' = b
  BY <1>2, <1>4 DEF Blob
<1>6. /\ pc \in [Calls -> Step] /\ lock \in [Blobs -> Calls \cup {None}]
      /\ copies \in [Blobs -> SUBSET Policies] /\ record \in [Blobs -> Record \cup {None}]
      /\ seen \in [Calls -> Record \cup {None}] /\ key \in [Blobs -> BOOLEAN]
  BY DEF TypeOK
<1> USE <1>2, <1>3, <1>5, <1>6 DEF Goes, Leaves, Locked, Working, StoredInv, GoneInv, HolderInv, Settled, Clean
<1>7. CASE ReadForDelete(c)
  BY <1>7 DEF ReadForDelete, data, store
<1>8. CASE PhysicalDelete(c)
  BY <1>8 DEF PhysicalDelete, store
<1>9. CASE DropKey(c)
  BY <1>9 DEF DropKey, store
<1>10. CASE CryptoShred(c)
  BY <1>10 DEF CryptoShred, store
<1>11. CASE TryDeleteShredded(c)
  BY <1>11 DEF TryDeleteShredded, store
<1>12. CASE PutTombstone(c)
  <2>1. PICK r : r = [seen[c] EXCEPT !.deleted = TRUE]
    OBVIOUS
  <2>2. pc[c] = "keyless" /\ record' = [record EXCEPT ![b] = r]
    BY <1>12, <2>1 DEF PutTombstone
  <2>3. r \in Record /\ r.policy = seen[c].policy /\ r.deleted
    BY <2>1, <2>2 DEF Record
  <2>4. record'[b] = r /\ r # None
    BY <2>2, <2>3, StorageAssumption
  <2> QED BY <1>12, <2>3, <2>4 DEF PutTombstone, store
<1>13. CASE EmitDeleted(c)
  <2>1. pc[c] = "tombstoned" => record[b].deleted
    BY DEF DeletionInv, Finished
  <2> QED BY <1>13, <2>1 DEF EmitDeleted, data, store
<1> QED BY <1>7, <1>8, <1>9, <1>10, <1>11, <1>12, <1>13 DEF DeleteBlob

\* Beginning, waiting, retrieving and dying touch nothing but the lock, and a handler
\* that dies half done leaves its blob marked.
LEMMA OtherDataStep ==
    ASSUME TypeOK, DeletionInv, DataInv, NEW c \in Calls,
           BeginSome(c) \/ LockBlob(c) \/ RetrieveBlob(c) \/ Die(c)
    PROVE  DataInv'
<1>1. CASE BeginSome(c)
  BY <1>1, IdleDataStep DEF BeginSome, BeginCall, Goes, Locked, store, TypeOK
<1>2. CASE RetrieveBlob(c)
  BY <1>2, IdleDataStep DEF RetrieveBlob, ReadRecord, FetchBytes, ReadKey, EmitRetrieved,
     Goes, Locked, store, TypeOK
<1>3. CASE LockBlob(c)
  <2>1. CASE pc'[c] = "dead"
    BY <1>3, <2>1, IdleDataStep DEF LockBlob, Goes, Locked, store, TypeOK
  <2>2. CASE pc'[c] # "dead"
    <3>1. PICK b \in Blobs : b = Blob(c)
      BY <1>3, ArgOfCall DEF LockBlob
    <3>2. /\ lock[b] = None /\ lock'[b] = c /\ pc'[c] = "locked" /\ pc[c] = "waiting"
          /\ \A a \in Blobs \ {b} : lock'[a] = lock[a]
          /\ \A d \in Calls \ {c} : pc'[d] = pc[d]
          /\ UNCHANGED <<data, spc, home, arg, seen, interrupted, erasing>>
      BY <1>3, <2>2, <3>1 DEF LockBlob, Goes, store, TypeOK
    <3>3. Blob(c)' = b
      BY <3>1, <3>2 DEF Blob
    <3>4. spc[b] = "stored" /\ StoredInv(b) /\ GoneInv(b)
      BY <3>1, <3>2 DEF DeletionInv, DataInv, TypeOK
    <3>5. StoredInv(b)' /\ GoneInv(b)' /\ HolderInv(c)'
      BY <3>2, <3>3, <3>4, StorageAssumption DEF StoredInv, GoneInv, HolderInv, Settled, Clean, data
    <3> QED BY <3>1, <3>2, <3>5, HolderDataStep DEF data
  <2> QED BY <2>1, <2>2
<1>4. CASE Die(c)
  <2>1. CASE pc[c] \notin Locked
    BY <1>4, <2>1, IdleDataStep DEF Die, Locked, Reading, HalfDone, store, TypeOK
  <2>2. CASE pc[c] \in Locked
    <3>1. PICK b \in Blobs : b = Blob(c)
      BY <2>2, HolderKnows
    <3>2. /\ lock[b] = c /\ lock'[b] = None /\ pc'[c] = "dead" /\ pc[c] # "idle"
          /\ \A a \in Blobs \ {b} : lock'[a] = lock[a] /\ (a \in interrupted' <=> a \in interrupted)
          /\ interrupted \subseteq interrupted'
          /\ pc[c] \in HalfDone => b \in interrupted'
          /\ \A d \in Calls \ {c} : pc'[d] = pc[d]
          /\ UNCHANGED <<data, spc, home, arg, seen, erasing>>
      BY <1>4, <2>2, <3>1, HolderKnows DEF Die, store, TypeOK
    <3>3. spc[b] = "stored" /\ StoredInv(b) /\ GoneInv(b) /\ HolderInv(c)
      BY <2>2, <3>1, HolderKnows
    <3>4. pc[c] \notin HalfDone => Settled(b)
      <4>1. pc[c] = "tombstoned" => record[b].deleted /\ b \in erasing
        BY <3>1, <3>3 DEF DeletionInv, Finished, HolderInv
      <4> QED BY <2>2, <3>1, <3>3, <4>1 DEF HolderInv, Locked, HalfDone, Settled, Clean
    <3>5. StoredInv(b)'
      BY <3>2, <3>3, <3>4 DEF StoredInv, Settled, Clean, data
    <3>6. GoneInv(b)' /\ HolderInv(c)'
      BY <3>2, <3>3 DEF GoneInv, HolderInv, data
    <3> QED BY <3>1, <3>2, <3>5, <3>6, HolderDataStep DEF data
  <2> QED BY <2>1, <2>2
<1> QED BY <1>1, <1>2, <1>3, <1>4

\* DataInv holds in every reachable state.
LEMMA DataInvariant == Spec => []DataInv
<1>1. DataInv /\ UNCHANGED vars => DataInv'
  BY DEF DataInv, StoringInv, StoredInv, GoneInv, HolderInv, Settled, Clean, Blob,
         vars, data, store, call
<1>2. TypeOK /\ DeletionInv /\ DataInv /\ [Next]_vars => DataInv'
  BY <1>1, StoreDataStep, MoveDataStep, DeleteDataStep, OtherDataStep DEF Next
<1> QED BY DataInit, <1>2, DeletionInvariant, PTL DEF Spec

\* A stored blob that nobody has begun to delete keeps its record, its key, its grant and
\* its bytes somewhere, whatever moves fail, panic or die half-way.
THEOREM BytesAreKept == Spec => []BytesSurvive
<1>1. DataInv => BytesSurvive
  BY DEF DataInv, StoredInv, BytesSurvive
<1> QED BY <1>1, DataInvariant, PTL

\* Between calls the one copy is where the record says, unless a call was interrupted
\* or reported a duplicate: MoveBlob leaves no second copy behind unsaid.
THEOREM OneCopyWhereRecorded == Spec => []SoleCopyWhereRecorded
<1>1. DataInv => SoleCopyWhereRecorded
  BY DEF DataInv, StoredInv, Settled, Clean, SoleCopyWhereRecorded
<1> QED BY <1>1, DataInvariant, PTL

\* A tombstone means that the key is gone, and the bytes where the backend promised it.
THEOREM TombstonesAreTrue == Spec => []DeletedIsGone
<1>1. DataInv => DeletedIsGone
  BY DEF DataInv, GoneInv, DeletedIsGone
<1> QED BY <1>1, DataInvariant, PTL

\* A StoreBlob that reported its rollback has left no record and no wrapping key.
THEOREM RollbackIsComplete == Spec => []RollbackLeavesNothing
<1>1. DataInv => RollbackLeavesNothing
  BY DEF DataInv, StoringInv, RollbackLeavesNothing
<1> QED BY <1>1, DataInvariant, PTL

================================================================================
