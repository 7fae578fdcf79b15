----------------------------- MODULE ConnectionPool -----------------------------
(***************************************************************************)
(* The one Postgres pool every capability of the API draws from            *)
(* (services/api/internal/platform/postgres.go), under the two users that  *)
(* hold a connection while they wait for a lock: Storage's lockBlob        *)
(* (storage/postgres_store.go) and Audit's Append (audit/                  *)
(* postgres_store.go).  MoveBlob and DeleteBlob need further connections,  *)
(* for their queries and for Append, while they hold the blob's lock.      *)
(*                                                                         *)
(* Every call runs once.                                                   *)
(* Bound: one query stands for all the queries of a critical section.      *)
(***************************************************************************)
EXTENDS Naturals, Sequences, FiniteSets

CONSTANTS
    Blobs,       \* blob_refs
    BlobCalls,   \* MoveBlob and DeleteBlob calls
    Emitters,    \* other calls that emit one audit event
    MaxConns,    \* maxPoolConns
    None

Callers == BlobCalls \cup Emitters

VARIABLES
    pc,          \* pc[c]: the step call c is at
    free,        \* connections nobody holds
    blobOf,      \* blobOf[c]: the blob call c names
    blobLock,    \* blobLock[b]: the call whose connection holds b's advisory lock, or None
    appendLock,  \* the call whose transaction holds the append lock, or None
    tail,        \* tail[c]: the chain tail c read in its transaction, None if empty
    log          \* audit_events in seq order: whose event, which also stands for its
                 \* event_id, and its prev_hash

vars == <<pc, free, blobOf, blobLock, appendLock, tail, log>>

ASSUME PoolAssumption ==
    /\ MaxConns \in Nat \ {0} /\ IsFiniteSet(Callers)
    /\ None \notin Callers /\ BlobCalls \cap Emitters = {}

\* Where calls wait or work, by what they hold besides what they wait for.
InTransaction == {"begun", "appending", "inserting"}
Critical == {"locked", "querying", "worked", "emitted"} \cup InTransaction
Step == {"start", "queueing", "done", "failed"} \cup Critical

Event == [by : Callers, prev : Callers \cup {None}]

TypeOK ==
    /\ pc \in [Callers -> Step]
    /\ free \in 0..MaxConns
    /\ blobOf \in [BlobCalls -> Blobs]
    /\ blobLock \in [Blobs -> BlobCalls \cup {None}]
    /\ appendLock \in Callers \cup {None}
    /\ tail \in [Callers -> Callers \cup {None}]
    /\ log \in Seq(Event)

Init ==
    /\ pc = [c \in Callers |-> "start"]
    /\ free = MaxConns
    /\ blobOf \in [BlobCalls -> Blobs]
    /\ blobLock = [b \in Blobs |-> None]
    /\ appendLock = None
    /\ tail = [c \in Callers |-> None]
    /\ log = <<>>

Goes(c, from, to) == pc[c] = from /\ pc' = [pc EXCEPT ![c] = to]
TakeConn == free > 0 /\ free' = free - 1

--------------------------------------------------------------------------------
(* lockBlob, the critical section, unlock.                                  *)

AcquireConn(c) ==
    /\ Goes(c, "start", "queueing")
    /\ TakeConn
    /\ UNCHANGED <<blobOf, blobLock, appendLock, tail, log>>

TakeBlobLock(c) ==
    /\ blobLock[blobOf[c]] = None
    /\ Goes(c, "queueing", "locked")
    /\ blobLock' = [blobLock EXCEPT ![blobOf[c]] = c]
    /\ UNCHANGED <<free, blobOf, appendLock, tail, log>>

\* Mutated form of TimeOut: only the wait for a connection has a deadline.
TimeOutAcquire(c) ==
    /\ Goes(c, "start", "failed") /\ UNCHANGED free
    /\ UNCHANGED <<blobOf, blobLock, appendLock, tail, log>>

\* lockAcquireTimeout covers both waits; a waiter gives its connection back.
TimeOut(c) ==
    /\ \/ Goes(c, "start", "failed") /\ UNCHANGED free
       \/ Goes(c, "queueing", "failed") /\ free' = free + 1
    /\ UNCHANGED <<blobOf, blobLock, appendLock, tail, log>>

BeginQuery(c) ==
    /\ Goes(c, "locked", "querying")
    /\ TakeConn
    /\ UNCHANGED <<blobOf, blobLock, appendLock, tail, log>>

\* A query returns its connection; one that panics also unwinds the lock.
EndQuery(c) ==
    /\ \/ Goes(c, "querying", "worked") /\ free' = free + 1 /\ UNCHANGED blobLock
       \/ Goes(c, "querying", "failed") /\ free' = free + 2 /\ blobLock' = [blobLock EXCEPT ![blobOf[c]] = None]
    /\ UNCHANGED <<blobOf, appendLock, tail, log>>

\* Mutated form of Unlock: the closure's second run releases once more.
UnlockTwice(c) ==
    /\ Goes(c, "emitted", "done")
    /\ free' = free + 2
    /\ blobLock' = [blobLock EXCEPT ![blobOf[c]] = None]
    /\ UNCHANGED <<blobOf, appendLock, tail, log>>

Unlock(c) ==
    /\ Goes(c, "emitted", "done")
    /\ free' = free + 1
    /\ blobLock' = [blobLock EXCEPT ![blobOf[c]] = None]
    /\ UNCHANGED <<blobOf, appendLock, tail, log>>

--------------------------------------------------------------------------------
(* Append: one transaction on one connection.                               *)

BeginAppend(c) ==
    /\ IF c \in BlobCalls THEN Goes(c, "worked", "begun") ELSE Goes(c, "start", "begun")
    /\ TakeConn
    /\ UNCHANGED <<blobOf, blobLock, appendLock, tail, log>>

\* Mutated form of TakeAppendLock: a lock on the tail row, which an empty table
\* does not have.
TakeTailRowLock(c) ==
    /\ appendLock = None \/ log = <<>>
    /\ Goes(c, "begun", "appending")
    /\ appendLock' = c
    /\ UNCHANGED <<free, blobOf, blobLock, tail, log>>

TakeAppendLock(c) ==
    /\ appendLock = None
    /\ Goes(c, "begun", "appending")
    /\ appendLock' = c
    /\ UNCHANGED <<free, blobOf, blobLock, tail, log>>

\* SELECT event_id ... ORDER BY seq DESC LIMIT 1
ChainTail == IF log = <<>> THEN None ELSE log[Len(log)].by

ReadTail(c) ==
    /\ Goes(c, "appending", "inserting")
    /\ tail' = [tail EXCEPT ![c] = ChainTail]
    /\ UNCHANGED <<free, blobOf, blobLock, appendLock, log>>

\* What follows Append in its caller: MoveBlob still has its lock to return.
AfterAppend(c) == IF c \in BlobCalls THEN "emitted" ELSE "done"

\* Mutated form of Commit: the transaction's connection is not released.
CommitLeaking(c) ==
    /\ Goes(c, "inserting", AfterAppend(c))
    /\ log' = Append(log, [by |-> c, prev |-> tail[c]])
    /\ appendLock' = None
    /\ UNCHANGED <<free, blobOf, blobLock, tail>>

\* Insert and commit; the caller of a failed commit cannot tell which it was.
Commit(c) ==
    /\ Goes(c, "inserting", AfterAppend(c))
    /\ log' = Append(log, [by |-> c, prev |-> tail[c]])
    /\ appendLock' = None
    /\ free' = free + 1
    /\ UNCHANGED <<blobOf, blobLock, tail>>

\* An error in the transaction: the deferred Rollback releases what it held.
Rollback(c) ==
    /\ pc[c] \in InTransaction
    /\ pc' = [pc EXCEPT ![c] = AfterAppend(c)]
    /\ appendLock' = IF pc[c] = "begun" THEN appendLock ELSE None
    /\ free' = free + 1
    /\ UNCHANGED <<blobOf, blobLock, tail, log>>

--------------------------------------------------------------------------------
CriticalSection(c) ==
    \/ AcquireConn(c) \/ TakeBlobLock(c) \/ TimeOut(c) \/ BeginQuery(c)
    \/ EndQuery(c) \/ Unlock(c)

Emit(c) == BeginAppend(c) \/ TakeAppendLock(c) \/ ReadTail(c) \/ Commit(c) \/ Rollback(c)

Next ==
    \/ \E c \in BlobCalls : CriticalSection(c)
    \/ \E c \in Callers : Emit(c)

\* A call that can take a step takes one: goroutines run, Postgres answers, and
\* both waits of lockBlob have a deadline.
Fairness ==
    /\ \A c \in BlobCalls : WF_vars(CriticalSection(c) \/ Emit(c))
    /\ \A c \in Emitters : WF_vars(Emit(c))

Spec == Init /\ [][Next]_vars /\ Fairness

--------------------------------------------------------------------------------
(* Properties.                                                              *)

\* Every call returns, although each blob call may sit on a connection while
\* it waits for a lock whose holder is itself waiting for a connection.  With as
\* many blobs as connections it does not hold: see JamNeedsLocks.
EveryCallReturns == \A c \in Callers : <>(pc[c] \in {"done", "failed"})

\* The connections a call holds at its present step.
Held(c) ==
    CASE pc[c] \in {"start", "done", "failed"} -> 0
      [] pc[c] = "querying" -> 2
      [] pc[c] \in InTransaction /\ c \in BlobCalls -> 2
      [] OTHER -> 1

HoldingTwo == {c \in Callers : Held(c) = 2}
HoldingAny == {c \in Callers : Held(c) > 0}
InUse == Cardinality(HoldingAny) + Cardinality(HoldingTwo)

\* No connection leaks: whatever timed out, failed or panicked, the pool has
\* back all but what the calls under way hold.
NoConnectionLeaks == free + InUse = MaxConns

\* A blob's lock belongs to the call that is in its critical section, and to
\* nobody otherwise: it outlives neither a panic nor a timed-out wait.
LockFollowsHolder ==
    \A b \in Blobs, c \in BlobCalls :
        blobLock[b] = c <=> pc[c] \in Critical /\ blobOf[c] = b

\* The check of a stored log: every event names the one before it.  That its
\* event_id is the hash of what it says holds here by construction.
VerifyIntegrity(events) ==
    \A n \in 1..Len(events) : events[n].prev = IF n = 1 THEN None ELSE events[n - 1].by

Recorded == {log[n] : n \in 1..Len(log)}

\* The log is one hash chain from the genesis event on, whatever interleaved, and
\* the only one its events make up: VerifyIntegrity accepts it, and sees it when
\* events were taken out, moved or repeated, unless only the newest are missing.
ChainUnbroken ==
    /\ VerifyIntegrity(log)
    /\ \A n \in 1..(Len(log) + 1) : \A s \in [1..n -> Recorded] :
          VerifyIntegrity(s) => s = SubSeq(log, 1, n)

\* A call's event is in the log once, after its Append.
LoggedOnce ==
    /\ \A n \in 1..Len(log) : pc[log[n].by] \in {"emitted", "done"}
    /\ \A m, n \in 1..Len(log) : log[m].by = log[n].by => m = n

\* A call whose next step waits for nobody, or has a deadline.
CanGoOn(c) ==
    \/ pc[c] \in {"querying", "appending", "inserting", "emitted", "queueing"}
    \/ pc[c] = "start" /\ (c \in BlobCalls \/ free > 0)
    \/ pc[c] \in {"locked", "worked"} /\ free > 0
    \/ pc[c] = "begun" /\ appendLock = None

Jammed ==
    /\ \E c \in Callers : pc[c] \notin {"done", "failed"}
    /\ \A c \in Callers : ~ CanGoOn(c)

LockHolders == {c \in BlobCalls : pc[c] \in {"locked", "worked"}}

\* The deadlines of lockBlob leave one way for calls to wait on each other for
\* ever: every connection is the one that holds some blob's lock, and every
\* holder waits, without a deadline, for another connection.
JamNeedsLocks == Jammed => Cardinality(LockHolders) = MaxConns

\* The inductive invariant behind the locks and the log: the append lock spans the read
\* of the tail and the insert, so a tail that was read is the tail still.
LocksInv ==
    /\ LockFollowsHolder
    /\ \A c \in Emitters : pc[c] \in {"start", "done"} \cup InTransaction
    /\ \A c \in Callers : appendLock = c <=> pc[c] \in {"appending", "inserting"}
    /\ \A c \in Callers : pc[c] = "inserting" => tail[c] = ChainTail
    /\ VerifyIntegrity(log)
    /\ LoggedOnce
================================================================================
