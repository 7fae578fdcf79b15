-------------------------- MODULE ConnectionPoolProofs --------------------------
(***************************************************************************)
(* Proofs about ConnectionPool for any number of calls and any pool size:  *)
(* the blob lock follows its holder, the audit log is one hash chain, and  *)
(* no connection leaks.                                                    *)
(***************************************************************************)
EXTENDS ConnectionPool, FiniteSetTheorems, SequenceTheorems, WellFoundedInduction, TLAPS

\* TypeOK, but for the bound on the free connections, which needs them counted.
TypeInv ==
    /\ pc \in [Callers -> Step]
    /\ free \in Nat
    /\ blobOf \in [BlobCalls -> Blobs]
    /\ blobLock \in [Blobs -> BlobCalls \cup {None}]
    /\ appendLock \in Callers \cup {None}
    /\ tail \in [Callers -> Callers \cup {None}]
    /\ log \in Seq(Event)

USE DEF Callers

\* Every entry of the log is an event, and some call's.
LEMMA Logged ==
    ASSUME TypeInv
    PROVE  \A n \in 1..Len(log) : log[n] \in Event /\ log[n].by \in Callers
<1> SUFFICES ASSUME NEW n \in 1..Len(log) PROVE log[n] \in Event /\ log[n].by \in Callers
    OBVIOUS
<1>1. log[n] \in Event
    BY ElementOfSeq DEF TypeInv
<1> QED BY <1>1 DEF Event

\* The variables of TypeInv keep their types.
LEMMA TypeStep == TypeInv /\ [Next]_vars => TypeInv'
<1> SUFFICES ASSUME TypeInv, [Next]_vars PROVE TypeInv'
    OBVIOUS
<1> USE PoolAssumption DEF TypeInv, Goes, TakeConn, Step, Critical, InTransaction
<1>1. ASSUME NEW c \in BlobCalls, CriticalSection(c) PROVE TypeInv'
    BY <1>1 DEF CriticalSection, AcquireConn, TakeBlobLock, TimeOut, BeginQuery, EndQuery, Unlock
<1>2. ASSUME NEW c \in Callers, Emit(c) PROVE TypeInv'
    <2>1. CASE BeginAppend(c)
        BY <2>1 DEF BeginAppend
    <2>2. CASE TakeAppendLock(c)
        BY <2>2 DEF TakeAppendLock
    <2>3. CASE ReadTail(c)
        <3>1. ChainTail \in Callers \cup {None}
            <4>1. CASE log = <<>>
                BY <4>1 DEF ChainTail
            <4>2. CASE log # <<>>
                <5>1. Len(log) \in 1..Len(log)
                    BY <4>2
                <5>2. log[Len(log)] \in Event
                    BY <5>1, ElementOfSeq
                <5> QED BY <4>2, <5>2 DEF ChainTail, Event
            <4> QED BY <4>1, <4>2
        <3> QED BY <2>3, <3>1 DEF ReadTail
    <2>4. CASE Commit(c)
        <3>1. [by |-> c, prev |-> tail[c]] \in Event
            BY DEF Event
        <3>2. log' \in Seq(Event)
            BY <2>4, <3>1 DEF Commit
        <3> QED BY <2>4, <3>2 DEF Commit, AfterAppend
    <2>5. CASE Rollback(c)
        BY <2>5 DEF Rollback, AfterAppend
    <2> QED BY <1>2, <2>1, <2>2, <2>3, <2>4, <2>5 DEF Emit
<1>3. CASE UNCHANGED vars
    BY <1>3 DEF vars
<1> QED BY <1>1, <1>2, <1>3 DEF Next

\* A call that has emitted its event does so no more.
LEMMA LoggedStays ==
    ASSUME TypeInv, LoggedOnce, log' = log,
           \A d \in Callers : pc[d] \in {"emitted", "done"} => pc'[d] \in {"emitted", "done"}
    PROVE  LoggedOnce'
<1>1. \A n \in 1..Len(log) : log[n].by \in Callers
    BY Logged
<1> QED BY <1>1 DEF LoggedOnce

\* Both locks keep to their holders, what was read under the append lock stays
\* true until it is released, and the chain grows by its own tail.
LEMMA LocksStep == TypeInv /\ LocksInv /\ [Next]_vars => LocksInv'
<1> SUFFICES ASSUME TypeInv, LocksInv, [Next]_vars PROVE LocksInv'
    OBVIOUS
<1> USE PoolAssumption DEF TypeInv, LocksInv, Goes, Critical, InTransaction
<1>1. ASSUME NEW c \in BlobCalls, CriticalSection(c) PROVE LocksInv'
    <2>1. log' = log /\ appendLock' = appendLock /\ tail' = tail
        BY <1>1 DEF CriticalSection, AcquireConn, TakeBlobLock, TimeOut, BeginQuery, EndQuery, Unlock
    <2>2. VerifyIntegrity(log)'
        BY <2>1 DEF VerifyIntegrity
    <2>3. LockFollowsHolder'
        BY <1>1 DEF LockFollowsHolder, CriticalSection, AcquireConn, TakeBlobLock, TimeOut,
            BeginQuery, EndQuery, Unlock
    <2>4. \A d \in Callers :
            pc'[d] \in {"appending", "inserting"} <=> pc[d] \in {"appending", "inserting"}
        BY <1>1 DEF CriticalSection, AcquireConn, TakeBlobLock, TimeOut, BeginQuery, EndQuery, Unlock
    <2>5. \A d \in Callers : pc'[d] = "inserting" => pc[d] = "inserting"
        BY <1>1 DEF CriticalSection, AcquireConn, TakeBlobLock, TimeOut, BeginQuery, EndQuery, Unlock
    <2>6. \A d \in Callers : pc[d] \in {"emitted", "done"} => pc'[d] \in {"emitted", "done"}
        BY <1>1 DEF CriticalSection, AcquireConn, TakeBlobLock, TimeOut, BeginQuery, EndQuery, Unlock
    <2>7. LoggedOnce'
        BY <2>1, <2>6, LoggedStays
    <2>8. \A d \in Emitters : pc'[d] = pc[d]
        BY <1>1 DEF CriticalSection, AcquireConn, TakeBlobLock, TimeOut, BeginQuery, EndQuery, Unlock
    <2> QED BY <2>1, <2>2, <2>3, <2>4, <2>5, <2>7, <2>8 DEF ChainTail
<1>2. ASSUME NEW c \in Callers, Emit(c) PROVE LocksInv'
    <2>1. CASE BeginAppend(c)
        <3>1. LoggedOnce'
            BY <2>1, LoggedStays DEF BeginAppend
        <3> QED BY <2>1, <3>1 DEF BeginAppend, LockFollowsHolder, VerifyIntegrity, ChainTail
    <2>2. CASE TakeAppendLock(c)
        <3>1. LoggedOnce'
            BY <2>2, LoggedStays DEF TakeAppendLock
        <3> QED BY <2>2, <3>1 DEF TakeAppendLock, LockFollowsHolder, VerifyIntegrity, ChainTail
    <2>3. CASE ReadTail(c)
        <3>1. LoggedOnce'
            BY <2>3, LoggedStays DEF ReadTail
        <3> QED BY <2>3, <3>1 DEF ReadTail, LockFollowsHolder, VerifyIntegrity, ChainTail
    <2>4. CASE Commit(c)
        <3> USE <2>4 DEF Commit, AfterAppend
        <3>1. LockFollowsHolder'
            BY DEF LockFollowsHolder
        <3>2. \A d \in Callers : appendLock' = d <=> pc'[d] \in {"appending", "inserting"}
            OBVIOUS
        <3>3. \A d \in Callers : pc'[d] # "inserting"
            OBVIOUS
        <3>4. VerifyIntegrity(log)'
            <4> DEFINE e == [by |-> c, prev |-> tail[c]]
            <4>1. e \in Event /\ log' = Append(log, e)
                BY DEF Event
            <4>2. Len(log') = Len(log) + 1 /\ log'[Len(log) + 1] = e
                BY <4>1
            <4>3. \A n \in 1..Len(log) : log'[n] = log[n]
                BY <4>1
            <4>4. e.prev = ChainTail
                OBVIOUS
            <4>5. e.prev = IF Len(log) + 1 = 1 THEN None ELSE log'[Len(log)].by
                <5>1. CASE log = <<>>
                    BY <4>4, <5>1 DEF ChainTail
                <5>2. CASE log # <<>>
                    <6>1. Len(log) \in 1..Len(log) /\ Len(log) + 1 # 1
                        BY <5>2
                    <6> QED BY <4>3, <4>4, <5>2, <6>1 DEF ChainTail
                <5> QED BY <5>1, <5>2
            <4> SUFFICES ASSUME NEW n \in 1..(Len(log) + 1)
                         PROVE  log'[n].prev = IF n = 1 THEN None ELSE log'[n - 1].by
                BY <4>2 DEF VerifyIntegrity
            <4>6. CASE n = Len(log) + 1
                BY <4>2, <4>5, <4>6
            <4>7. CASE n \in 1..Len(log)
                <5>1. log'[n] = log[n] /\ (n # 1 => log'[n - 1] = log[n - 1])
                    BY <4>3, <4>7
                <5> QED BY <4>7, <5>1 DEF VerifyIntegrity
            <4> QED BY <4>6, <4>7
        <3>5. LoggedOnce'
            <4>1. \A n \in 1..Len(log) : log[n].by # c /\ log[n].by \in Callers
                BY Logged DEF LoggedOnce
            <4>2. pc'[c] \in {"emitted", "done"} /\ \A d \in Callers \ {c} : pc'[d] = pc[d]
                OBVIOUS
            <4>3. [by |-> c, prev |-> tail[c]] \in Event
                BY DEF Event
            <4>4. /\ Len(log') = Len(log) + 1 /\ Len(log) \in Nat /\ log'[Len(log) + 1].by = c
                  /\ \A n \in 1..Len(log) : log'[n] = log[n]
                BY <4>3
            <4>5. \A n \in 1..Len(log') : n \in 1..Len(log) \/ n = Len(log) + 1
                BY <4>4
            <4>6. \A n \in 1..Len(log') : pc'[log'[n].by] \in {"emitted", "done"}
                BY <4>1, <4>2, <4>4, <4>5 DEF LoggedOnce
            <4>7. \A m, n \in 1..Len(log') : log'[m].by = log'[n].by => m = n
                BY <4>1, <4>4, <4>5 DEF LoggedOnce
            <4> QED BY <4>6, <4>7 DEF LoggedOnce
        <3> QED BY <3>1, <3>2, <3>3, <3>4, <3>5
    <2>5. CASE Rollback(c)
        <3>1. LoggedOnce'
            BY <2>5, LoggedStays DEF Rollback, AfterAppend
        <3> QED BY <2>5, <3>1 DEF Rollback, AfterAppend, LockFollowsHolder, VerifyIntegrity, ChainTail
    <2> QED BY <1>2, <2>1, <2>2, <2>3, <2>4, <2>5 DEF Emit
<1>3. CASE UNCHANGED vars
    BY <1>3 DEF vars, LockFollowsHolder, VerifyIntegrity, LoggedOnce, ChainTail
<1> QED BY <1>1, <1>2, <1>3 DEF Next

\* Every reachable state satisfies the inductive invariant.
LEMMA LocksInvariant == Spec => [](TypeInv /\ LocksInv)
<1>1. Init => TypeInv /\ LocksInv
    BY PoolAssumption DEF Init, TypeInv, LocksInv, Step, Critical, InTransaction,
        LockFollowsHolder, VerifyIntegrity, LoggedOnce, ChainTail
<1>2. TypeInv /\ LocksInv /\ [Next]_vars => (TypeInv /\ LocksInv)'
    BY TypeStep, LocksStep
<1> QED BY <1>1, <1>2, PTL DEF Spec

\* However many calls share however small a pool, a blob's lock is held by
\* the call in its critical section and by nobody else.
THEOREM BlobLockIsExclusive == Spec => []LockFollowsHolder
<1>1. LocksInv => LockFollowsHolder
    BY DEF LocksInv
<1> QED BY <1>1, LocksInvariant, PTL

\* What VerifyIntegrity accepts of the log's events is the log, or a beginning of it:
\* the first place that differs would name its predecessor wrongly.
LEMMA OnlyHistoryVerifies ==
    ASSUME TypeInv, LocksInv, NEW s \in Seq(Recorded), VerifyIntegrity(s)
    PROVE  Len(s) <= Len(log) /\ \A n \in 1..Len(s) : s[n] = log[n]
<1> DEFINE Bad == {n \in 1..Len(s) : ~ (n \in 1..Len(log) /\ s[n] = log[n])}
<1>1. Len(s) \in Nat /\ Len(log) \in Nat
    BY DEF TypeInv
<1>2. ASSUME Bad # {} PROVE FALSE
    <2>1. Bad \subseteq Nat
        OBVIOUS
    <2>2. IsWellFoundedOn(OpToRel(<, Nat), Nat)
        BY NatLessThanWellFounded
    <2>3. PICK n \in Bad : \A m \in Bad : ~ (<<m, n>> \in OpToRel(<, Nat))
        BY <1>2, <2>1, <2>2, WFMin
    <2>4. n \in 1..Len(s) /\ n \in Nat /\ \A m \in Bad : n <= m
        <3>1. n \in 1..Len(s) /\ n \in Nat
            BY <2>1, <2>3
        <3>2. ASSUME NEW m \in Bad PROVE n <= m
            <4>1. m \in Nat /\ ~ (m < n)
                BY <2>1, <2>3, <3>1, <3>2 DEF OpToRel
            <4> QED BY <3>1, <4>1
        <3> QED BY <3>1, <3>2
    <2>5. s[n] \in Recorded
        BY <2>4, ElementOfSeq
    <2>6. PICK k \in 1..Len(log) : s[n] = log[k]
        BY <2>5 DEF Recorded
    <2>7. log[k].prev = IF k = 1 THEN None ELSE log[k - 1].by
        BY DEF LocksInv, VerifyIntegrity
    <2>8. s[n].prev = IF n = 1 THEN None ELSE s[n - 1].by
        BY <2>4 DEF VerifyIntegrity
    <2>9. \A m \in 1..Len(log) : log[m].by # None
        BY Logged, PoolAssumption
    <2>10. CASE n = 1
        <3>1. k = 1
            <4>1. SUFFICES ASSUME k # 1 PROVE FALSE
                OBVIOUS
            <4>2. k - 1 \in 1..Len(log)
                BY <1>1, <4>1
            <4> QED BY <2>6, <2>7, <2>8, <2>9, <2>10, <4>1, <4>2
        <3> QED BY <2>3, <2>6, <2>10, <3>1
    <2>11. CASE n # 1
        <3>1. n - 1 \in 1..Len(s) /\ n - 1 \notin Bad
            BY <1>1, <2>4, <2>11
        <3>2. n - 1 \in 1..Len(log) /\ s[n - 1] = log[n - 1]
            BY <3>1
        <3>3. log[k].prev = log[n - 1].by
            BY <2>6, <2>8, <2>11, <3>2
        <3>4. k # 1
            BY <2>7, <2>9, <3>2, <3>3
        <3>5. k - 1 \in 1..Len(log) /\ log[k - 1].by = log[n - 1].by
            BY <1>1, <2>7, <3>3, <3>4
        <3>6. k - 1 = n - 1
            BY <3>2, <3>5 DEF LocksInv, LoggedOnce
        <3>7. k = n
            BY <2>4, <3>6
        <3> QED BY <2>3, <2>6, <3>7
    <2> QED BY <2>10, <2>11
<1>3. \A n \in 1..Len(s) : n \in 1..Len(log) /\ s[n] = log[n]
    BY <1>2
<1>4. Len(s) <= Len(log)
    <2>1. CASE Len(s) = 0
        BY <1>1, <2>1
    <2>2. CASE Len(s) # 0
        <3>1. Len(s) \in 1..Len(s)
            BY <1>1, <2>2
        <3> QED BY <1>1, <1>3, <3>1
    <2> QED BY <2>1, <2>2
<1> QED BY <1>3, <1>4

\* Events that were taken out, moved or repeated show: of all the sequences of the
\* log's events, VerifyIntegrity accepts the log and what it was before.
THEOREM AlterationsShow ==
    Spec => [](\A s \in Seq(Recorded) :
                  VerifyIntegrity(s) <=> Len(s) <= Len(log) /\ \A n \in 1..Len(s) : s[n] = log[n])
<1>1. TypeInv /\ LocksInv =>
        \A s \in Seq(Recorded) :
           VerifyIntegrity(s) <=> Len(s) <= Len(log) /\ \A n \in 1..Len(s) : s[n] = log[n]
    <2> SUFFICES ASSUME TypeInv, LocksInv, NEW s \in Seq(Recorded)
                 PROVE  VerifyIntegrity(s) <=> Len(s) <= Len(log) /\ \A n \in 1..Len(s) : s[n] = log[n]
        OBVIOUS
    <2>1. VerifyIntegrity(s) => Len(s) <= Len(log) /\ \A n \in 1..Len(s) : s[n] = log[n]
        BY OnlyHistoryVerifies
    <2>2. ASSUME Len(s) <= Len(log), \A n \in 1..Len(s) : s[n] = log[n] PROVE VerifyIntegrity(s)
        <3>1. Len(s) \in Nat /\ Len(log) \in Nat
            BY DEF TypeInv
        <3>2. SUFFICES ASSUME NEW n \in 1..Len(s)
                       PROVE  s[n].prev = IF n = 1 THEN None ELSE s[n - 1].by
            BY DEF VerifyIntegrity
        <3>3. n \in 1..Len(log) /\ s[n] = log[n]
            BY <2>2, <3>1
        <3>4. log[n].prev = IF n = 1 THEN None ELSE log[n - 1].by
            BY <3>3 DEF LocksInv, VerifyIntegrity
        <3>5. n # 1 => n - 1 \in 1..Len(s)
            BY <3>1
        <3> QED BY <2>2, <3>3, <3>4, <3>5
    <2> QED BY <2>1, <2>2
<1> QED BY <1>1, LocksInvariant, PTL

\* The audit log is one unbroken hash chain, for any number of emitters, and the
\* only one its events make up.
THEOREM LogIsOneChain == Spec => []ChainUnbroken
<1>1. TypeInv /\ LocksInv => ChainUnbroken
    <2> SUFFICES ASSUME TypeInv, LocksInv PROVE ChainUnbroken
        OBVIOUS
    <2>1. Len(log) \in Nat
        BY DEF TypeInv
    <2>2. ASSUME NEW n \in 1..(Len(log) + 1), NEW s \in [1..n -> Recorded], VerifyIntegrity(s)
          PROVE  s = SubSeq(log, 1, n)
        <3>1. n \in Nat /\ s \in Seq(Recorded) /\ Len(s) = n
            BY <2>1, <2>2, SeqDef
        <3>2. n <= Len(log) /\ \A k \in 1..n : s[k] = log[k]
            BY <2>2, <3>1, OnlyHistoryVerifies
        <3>3. 1 \in Int /\ n \in Int /\ 1 <= n /\ \A k \in 1..n : log[k] \in Recorded
            BY <2>1, <2>2, <3>1, <3>2 DEF Recorded
        <3>4. /\ SubSeq(log, 1, n) \in Seq(Recorded) /\ Len(SubSeq(log, 1, n)) = n
              /\ \A k \in 1..n : SubSeq(log, 1, n)[k] = log[k]
            <4>1. /\ SubSeq(log, 1, n) \in Seq(Recorded)
                  /\ Len(SubSeq(log, 1, n)) = IF 1 <= n THEN n - 1 + 1 ELSE 0
                  /\ \A k \in 1..(n - 1 + 1) : SubSeq(log, 1, n)[k] = log[1 + k - 1]
                BY <3>3, SubSeqProperties
            <4> QED BY <3>3, <4>1
        <3> QED BY <3>1, <3>2, <3>4, SeqEqual
    <2> QED BY <2>2 DEF ChainUnbroken, LocksInv
<1> QED BY <1>1, LocksInvariant, PTL

--------------------------------------------------------------------------------
(* Counting connections.                                                    *)

\* What putting an element in a finite set, or taking it out, does to its size.
LEMMA CardStep ==
    ASSUME NEW S, IsFiniteSet(S), NEW x
    PROVE  /\ Cardinality(S) \in Nat
           /\ Cardinality(S \cup {x}) = Cardinality(S) + (IF x \in S THEN 0 ELSE 1)
           /\ Cardinality(S \ {x}) = Cardinality(S) - (IF x \in S THEN 1 ELSE 0)
<1>1. Cardinality(S) \in Nat
    BY FS_CardinalityType
<1>2. Cardinality(S \cup {x}) = IF x \in S THEN Cardinality(S) ELSE Cardinality(S) + 1
    BY FS_AddElement
<1>3. Cardinality(S \ {x}) = IF x \in S THEN Cardinality(S) - 1 ELSE Cardinality(S)
    BY FS_RemoveElement
<1> QED BY <1>1, <1>2, <1>3

\* A step of one call changes the number of connections in use by as many as
\* that call takes or gives back.
LEMMA CountStep ==
    ASSUME TypeInv, TypeInv', NEW c \in Callers, \A d \in Callers \ {c} : pc'[d] = pc[d]
    PROVE  InUse \in Nat /\ InUse' = InUse - Held(c) + Held(c)'
<1>1. Held(c) \in 0..2 /\ Held(c)' \in 0..2
    BY DEF Held
<1>2. \A d \in Callers \ {c} : Held(d)' = Held(d)
    BY DEF Held
<1>3. IsFiniteSet(HoldingAny) /\ IsFiniteSet(HoldingTwo)
    BY PoolAssumption, FS_Subset DEF HoldingAny, HoldingTwo
<1>4. HoldingAny' = IF Held(c)' > 0 THEN HoldingAny \cup {c} ELSE HoldingAny \ {c}
    BY <1>1, <1>2 DEF HoldingAny
<1>5. HoldingTwo' = IF Held(c)' = 2 THEN HoldingTwo \cup {c} ELSE HoldingTwo \ {c}
    BY <1>1, <1>2 DEF HoldingTwo
<1>6. c \in HoldingAny <=> Held(c) > 0
    BY DEF HoldingAny
<1>7. c \in HoldingTwo <=> Held(c) = 2
    BY DEF HoldingTwo
<1>8. /\ Cardinality(HoldingAny) \in Nat
      /\ Cardinality(HoldingAny') = Cardinality(HoldingAny)
            - (IF c \in HoldingAny THEN 1 ELSE 0) + (IF Held(c)' > 0 THEN 1 ELSE 0)
    <2>1. /\ Cardinality(HoldingAny) \in Nat
          /\ Cardinality(HoldingAny \cup {c})
                = Cardinality(HoldingAny) + (IF c \in HoldingAny THEN 0 ELSE 1)
          /\ Cardinality(HoldingAny \ {c})
                = Cardinality(HoldingAny) - (IF c \in HoldingAny THEN 1 ELSE 0)
        BY <1>3, CardStep
    <2> QED BY <1>4, <2>1
<1>9. /\ Cardinality(HoldingTwo) \in Nat
      /\ Cardinality(HoldingTwo') = Cardinality(HoldingTwo)
            - (IF c \in HoldingTwo THEN 1 ELSE 0) + (IF Held(c)' = 2 THEN 1 ELSE 0)
    <2>1. /\ Cardinality(HoldingTwo) \in Nat
          /\ Cardinality(HoldingTwo \cup {c})
                = Cardinality(HoldingTwo) + (IF c \in HoldingTwo THEN 0 ELSE 1)
          /\ Cardinality(HoldingTwo \ {c})
                = Cardinality(HoldingTwo) - (IF c \in HoldingTwo THEN 1 ELSE 0)
        BY <1>3, CardStep
    <2> QED BY <1>5, <2>1
<1> QED BY <1>1, <1>6, <1>7, <1>8, <1>9 DEF InUse

\* Free connections and connections in use always make up the pool.
LEMMA LeakStep == TypeInv /\ NoConnectionLeaks /\ [Next]_vars => NoConnectionLeaks'
<1> SUFFICES ASSUME TypeInv, NoConnectionLeaks, [Next]_vars PROVE NoConnectionLeaks'
    OBVIOUS
<1> USE PoolAssumption
<1>1. TypeInv'
    BY TypeStep
<1>2. SUFFICES ASSUME NEW c \in Callers,
                      \A d \in Callers \ {c} : pc'[d] = pc[d],
                      free' = free + Held(c) - Held(c)'
               PROVE  NoConnectionLeaks'
    <2> USE DEF TypeInv, Goes, TakeConn, Held, InTransaction
    <2>1. ASSUME NEW c \in BlobCalls, CriticalSection(c)
          PROVE  /\ \A d \in Callers \ {c} : pc'[d] = pc[d]
                 /\ free' = free + Held(c) - Held(c)'
        BY <2>1 DEF CriticalSection, AcquireConn, TakeBlobLock, TimeOut, BeginQuery,
            EndQuery, Unlock
    <2>2. ASSUME NEW c \in Callers, Emit(c)
          PROVE  /\ \A d \in Callers \ {c} : pc'[d] = pc[d]
                 /\ free' = free + Held(c) - Held(c)'
        BY <2>2 DEF Emit, BeginAppend, TakeAppendLock, ReadTail, Commit, Rollback, AfterAppend
    <2>3. CASE UNCHANGED vars
        BY <2>3 DEF vars, NoConnectionLeaks, InUse, HoldingAny, HoldingTwo
    <2> QED BY <1>2, <2>1, <2>2, <2>3 DEF Next
<1>3. InUse \in Nat /\ InUse' = InUse - Held(c) + Held(c)'
    BY <1>1, <1>2, CountStep
<1>4. Held(c) \in 0..2 /\ Held(c)' \in 0..2
    BY DEF Held
<1>5. free \in Nat /\ free + InUse = MaxConns
    BY <1>3 DEF TypeInv, NoConnectionLeaks
<1>6. free' + InUse' = MaxConns
    BY <1>2, <1>3, <1>4, <1>5
<1> QED BY <1>6 DEF NoConnectionLeaks

\* Whatever times out, fails or panics, the pool gets every connection back.
THEOREM PoolKeepsItsConnections == Spec => []NoConnectionLeaks
<1>1. Init => TypeInv /\ NoConnectionLeaks
    <2> SUFFICES ASSUME Init PROVE TypeInv /\ NoConnectionLeaks
        OBVIOUS
    <2>1. TypeInv
        BY PoolAssumption DEF Init, TypeInv, Step, Critical, InTransaction
    <2>2. HoldingAny = {} /\ HoldingTwo = {}
        <3>1. \A c \in Callers : Held(c) = 0
            <4>1. \A c \in Callers : pc[c] = "start"
                BY DEF Init
            <4> QED BY <4>1 DEF Held, InTransaction
        <3> QED BY <3>1 DEF HoldingAny, HoldingTwo
    <2> QED BY <2>1, <2>2, FS_EmptySet, PoolAssumption DEF Init, NoConnectionLeaks, InUse
<1>2. TypeInv /\ NoConnectionLeaks /\ [Next]_vars => (TypeInv /\ NoConnectionLeaks)'
    BY TypeStep, LeakStep
<1> QED BY <1>1, <1>2, PTL DEF Spec

\* Every variable keeps its type, and the pool never holds more than it began with.
THEOREM PoolTypeCorrect == Spec => []TypeOK
<1>1. TypeInv /\ NoConnectionLeaks => TypeOK
    <2> SUFFICES ASSUME TypeInv, NoConnectionLeaks PROVE TypeOK
        OBVIOUS
    <2>1. IsFiniteSet(HoldingAny) /\ IsFiniteSet(HoldingTwo)
        BY PoolAssumption, FS_Subset DEF HoldingAny, HoldingTwo
    <2>2. Cardinality(HoldingAny) \in Nat /\ Cardinality(HoldingTwo) \in Nat
        BY <2>1, FS_CardinalityType
    <2>3. free \in 0..MaxConns
        BY <2>2, PoolAssumption DEF TypeInv, NoConnectionLeaks, InUse
    <2> QED BY <2>3 DEF TypeInv, TypeOK
<1> QED BY <1>1, LocksInvariant, PoolKeepsItsConnections, PTL

--------------------------------------------------------------------------------
(* Waiting for connections.                                                 *)

\* In a jam nobody waits for a lock: the only waits without a deadline are those
\* for a connection, and there is none.
LEMMA JamWaits ==
    ASSUME TypeInv, LocksInv, Jammed
    PROVE  /\ \A c \in Callers : \/ pc[c] \in {"done", "failed"}
                                 \/ (pc[c] = "start" /\ c \in Emitters)
                                 \/ pc[c] \in {"locked", "worked"}
           /\ free = 0
<1>1. \A c \in Callers :
        /\ pc[c] \in Step
        /\ pc[c] \notin {"querying", "appending", "inserting", "emitted", "queueing"}
        /\ pc[c] = "start" => c \notin BlobCalls /\ ~ (free > 0)
        /\ pc[c] \in {"locked", "worked"} => ~ (free > 0)
        /\ pc[c] = "begun" => appendLock # None
    BY DEF Jammed, CanGoOn, TypeInv
<1>2. appendLock = None
    <2>1. SUFFICES ASSUME appendLock # None PROVE FALSE
        OBVIOUS
    <2>2. appendLock \in Callers
        BY <2>1 DEF TypeInv
    <2>3. pc[appendLock] \in {"appending", "inserting"}
        BY <2>2 DEF LocksInv
    <2> QED BY <1>1, <2>2, <2>3
<1>3. \A c \in Callers : \/ pc[c] \in {"done", "failed"}
                         \/ (pc[c] = "start" /\ c \in Emitters)
                         \/ pc[c] \in {"locked", "worked"}
    <2> SUFFICES ASSUME NEW c \in Callers
                 PROVE  \/ pc[c] \in {"done", "failed"}
                        \/ (pc[c] = "start" /\ c \in Emitters)
                        \/ pc[c] \in {"locked", "worked"}
        OBVIOUS
    <2>1. pc[c] \in {"start", "queueing", "done", "failed", "locked", "querying", "worked",
                     "emitted", "begun", "appending", "inserting"}
        BY <1>1 DEF Step, Critical, InTransaction
    <2> QED BY <1>1, <1>2, <2>1
<1>4. ~ (free > 0)
    <2>1. PICK c \in Callers : pc[c] \notin {"done", "failed"}
        BY DEF Jammed
    <2> QED BY <1>1, <1>3, <2>1
<1>5. free = 0
    BY <1>4 DEF TypeInv
<1> QED BY <1>3, <1>5

\* The locks' holders have only the connection that holds the lock, so a jam has
\* every connection in such hands.
LEMMA JamCounts == TypeInv /\ LocksInv /\ NoConnectionLeaks => JamNeedsLocks
<1> SUFFICES ASSUME TypeInv, LocksInv, NoConnectionLeaks, Jammed
             PROVE  Cardinality(LockHolders) = MaxConns
    BY DEF JamNeedsLocks
<1>1. /\ \A c \in Callers : \/ pc[c] \in {"done", "failed"}
                             \/ (pc[c] = "start" /\ c \in Emitters)
                             \/ pc[c] \in {"locked", "worked"}
      /\ free = 0
    BY JamWaits
<1>2. \A c \in Callers : Held(c) = IF pc[c] \in {"locked", "worked"} THEN 1 ELSE 0
    BY <1>1 DEF Held, InTransaction
<1>3. \A c \in Callers : pc[c] \in {"locked", "worked"} => c \in BlobCalls
    BY DEF LocksInv, InTransaction
<1>4. HoldingAny = LockHolders
    BY <1>2, <1>3 DEF HoldingAny, LockHolders
<1>5. HoldingTwo = {}
    BY <1>2 DEF HoldingTwo
<1>6. IsFiniteSet(LockHolders) /\ Cardinality(LockHolders) \in Nat /\ Cardinality({}) = 0
    BY PoolAssumption, FS_Subset, FS_CardinalityType, FS_EmptySet DEF LockHolders
<1> QED BY <1>1, <1>4, <1>5, <1>6, PoolAssumption DEF NoConnectionLeaks, InUse

\* Whatever the calls and whatever the pool, calls wait on each other for ever only
\* when every connection holds the lock of a blob.
THEOREM JamsAreLockHolders == Spec => []JamNeedsLocks
<1> QED BY LocksInvariant, PoolKeepsItsConnections, JamCounts, PTL

\* No two calls hold the lock of one blob.
LEMMA HoldersDiffer ==
    ASSUME TypeInv, LocksInv, NEW c \in LockHolders, NEW d \in LockHolders, blobOf[c] = blobOf[d]
    PROVE  c = d
<1>1. c \in BlobCalls /\ d \in BlobCalls /\ pc[c] \in Critical /\ pc[d] \in Critical
    BY DEF LockHolders, Critical
<1>2. blobLock[blobOf[c]] = c /\ blobLock[blobOf[d]] = d
    BY <1>1 DEF LocksInv, LockFollowsHolder, TypeInv
<1> QED BY <1>2

\* With more connections than blobs there is no jam: a hot blob, or fewer of them
\* than maxPoolConns, cannot stop the pool, however many calls there are.
THEOREM FewBlobsNeverJam ==
    ASSUME IsFiniteSet(Blobs), Cardinality(Blobs) < MaxConns
    PROVE  Spec => []~Jammed
<1>1. TypeInv /\ LocksInv /\ NoConnectionLeaks => ~Jammed
    <2> SUFFICES ASSUME TypeInv, LocksInv, NoConnectionLeaks, Jammed PROVE FALSE
        OBVIOUS
    <2>1. Cardinality(LockHolders) = MaxConns
        BY JamCounts DEF JamNeedsLocks
    <2>2. IsFiniteSet(LockHolders)
        BY PoolAssumption, FS_Subset DEF LockHolders
    <2> DEFINE f == [c \in LockHolders |-> blobOf[c]]
    <2>3. f \in [LockHolders -> Blobs]
        BY DEF LockHolders, TypeInv
    <2>p. Cardinality(Blobs) < Cardinality(LockHolders) /\ IsFiniteSet(Blobs)
        BY <2>1
    <2>4. PICK c, d \in LockHolders : c # d /\ f[c] = f[d]
        <3> HIDE DEF f
        <3> QED BY <2>2, <2>3, <2>p, FS_PigeonHole
    <2>5. blobOf[c] = blobOf[d]
        BY <2>4
    <2> QED BY <2>4, <2>5, HoldersDiffer
<1> QED BY <1>1, LocksInvariant, PoolKeepsItsConnections, PTL
================================================================================
