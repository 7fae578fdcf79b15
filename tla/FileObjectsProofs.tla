-------------------------- MODULE FileObjectsProofs --------------------------
(***************************************************************************)
(* Proofs about FileObjects for any number of files, versions, requests    *)
(* and workers, and whichever calls fail: who owns the blobs, what a       *)
(* deletion leaves, and whom the blobs of a file can be read by.           *)
(***************************************************************************)
EXTENDS FileObjects, WellFoundedInduction, TLAPS

--------------------------------------------------------------------------------
(* The inductive invariant: where a handler can be.                         *)

Place(op, a) ==
    \/ op = "create" /\ a \in {"storing", "grantRead", "grantWrite", "grantBlob", "rollback",
                               "creating", "adding", "logging"}
    \/ op = "version" /\ a \in {"checking", "reading", "locking", "storing", "granting", "discarding",
                                "listing", "mirroring", "adding", "putting", "logging"}
    \/ op = "permissions" /\ a \in {"reading", "locking", "changing", "listing", "mirroring",
                                    "putting", "logging"}
    \/ op = "metadata" /\ a \in {"checking", "reading", "putting", "logging"}
    \/ op = "delete" /\ a \in {"checking", "reading", "locking", "listing", "erasing", "revoking",
                               "putting", "logging"}

\* Where the handler of a version, a permissions or a delete has the mutex.
Guarded(op, a) == op \in {"version", "permissions", "delete"} /\ a \notin {"checking", "reading", "locking"}

\* Where the handler of a create or a version has stored its blob.
Past(op, a) ==
    \/ op = "create" /\ a # "storing"
    \/ op = "version" /\ a \notin {"checking", "reading", "locking", "storing"}

HandlerType(w) ==
    /\ job[w] \in Job \cup {None}
    /\ fo[w] \in FileObjectRecord \cup {None}
    /\ listed[w] \subseteq Blobs
    /\ todo[w] \subseteq IF Runs(w, "permissions") \/ at[w] = "erasing" THEN Blobs ELSE Grant
    /\ short[w] \in BOOLEAN

HandlerPlace(w) ==
    /\ job[w] = None => at[w] = "idle" /\ fo[w] = None /\ todo[w] = {}
    /\ job[w] # None =>
          /\ Place(job[w].op, at[w])
          /\ Guarded(job[w].op, at[w]) => mu = w
          /\ job[w].op = "create" => fo[w] = None
          /\ job[w].op # "create" /\ at[w] \notin {"checking", "reading"} => fo[w] # None
          /\ Past(job[w].op, at[w]) => job[w].blob \in Blobs
          /\ job[w].op = "permissions" => job[w].change # None
          /\ job[w].op # "create" => records[job[w].file] # None
          /\ job[w].op = "create" /\ at[w] \in {"adding", "logging"} => records[job[w].file] # None

HandlerInv == \A w \in Workers : HandlerType(w) /\ HandlerPlace(w)

Shape ==
    /\ job = [w \in Workers |-> job[w]] /\ at = [w \in Workers |-> at[w]]
    /\ fo = [w \in Workers |-> fo[w]] /\ listed = [w \in Workers |-> listed[w]]
    /\ todo = [w \in Workers |-> todo[w]] /\ short = [w \in Workers |-> short[w]]

Tables ==
    /\ GrantsTypeOK
    /\ records \in [Files -> FileObjectRecord \cup {None}]
    /\ versions \in [Files -> SUBSET Blobs]
    /\ events \in [Files -> SUBSET Ops]
    /\ blobs \in [Blobs -> {"none", "stored", "erased"}]
    /\ mu \in Workers \cup {None}
    /\ requests \in 0..MaxRequests /\ faults \in 0..MaxFaults
    /\ excuses \in [Files -> SUBSET {"cutShort", "misread", "unborn", "buried"}]
    /\ late \subseteq Blobs

--------------------------------------------------------------------------------
(* The inductive invariant: who owns what.                                  *)

OwnedInv ==
    /\ \A f \in Files : records[f] = None => versions[f] = {}
    /\ \A f \in Files : records[f] # None =>
          owners[f] = records[f].Owner /\ \A b \in versions[f] : owners[b] = records[f].Owner
    /\ \A b \in Blobs : blobs[b] = "none" => owners[b] = None

\* Before its record is put, a new file is of one handler only.
Unborn(w) ==
    job[w] # None /\ job[w].op = "create"
    /\ at[w] \in {"storing", "grantRead", "grantWrite", "grantBlob", "creating"}

\* The handler's blob is not in the versions yet, and will be if nothing fails.
Pending(w) ==
    job[w] # None /\ \/ job[w].op = "create" /\ at[w] \in {"grantRead", "grantWrite", "grantBlob", "creating", "adding"}
                     \/ job[w].op = "version" /\ at[w] \in {"granting", "listing", "mirroring", "adding"}

OwnerOf(w) == IF job[w].op = "create" THEN job[w].self ELSE fo[w].Owner

OwningOf(w) ==
    /\ Unborn(w) => /\ records[job[w].file] = None
                    /\ \A u \in Workers \ {w} : job[u] # None => job[u].file # job[w].file
                    /\ owners[job[w].file] = IF at[w] \in {"storing", "grantRead"} THEN None ELSE job[w].self
    /\ Pending(w) => owners[job[w].blob] = OwnerOf(w) /\ blobs[job[w].blob] # "none"
    /\ job[w] # None /\ (fo[w] # None \/ at[w] = "adding") => OwnerOf(w) = records[job[w].file].Owner
    /\ Runs(w, "permissions") => todo[w] \subseteq versions[job[w].file]

OwningInv == \A w \in Workers : OwningOf(w)

--------------------------------------------------------------------------------
(* The inductive invariant: what a deletion leaves.                         *)

Excuse(f) == {"misread", "unborn"} \cap excuses[f] # {}

BuriedInv ==
    \A f \in Files :
        /\ records[f] # None /\ records[f].Deleted => "buried" \in excuses[f]
        /\ "delete" \in events[f] => "buried" \in excuses[f]
        /\ "buried" \in excuses[f] => records[f] # None
        /\ "buried" \in excuses[f] /\ ~Excuse(f) => \A b \in versions[f] \ late : blobs[b] = "erased"

\* A request on the file of w has read the file's list.
HasListed(w) ==
    \/ at[w] \in {"mirroring", "erasing", "revoking"}
    \/ job[w].op \in {"version", "delete"} /\ at[w] \in {"adding", "putting", "logging"}

BuryingOf(w) ==
    job[w] # None =>
        /\ fo[w] # None /\ fo[w].Deleted => "buried" \in excuses[job[w].file] \/ (job[w].op = "delete" /\ at[w] = "putting")
        /\ job[w].op = "version" /\ fo[w] # None => ~fo[w].Deleted
        /\ job[w].op = "delete" /\ at[w] = "putting" => fo[w].Deleted
        /\ job[w].op = "delete" /\ at[w] = "logging" => "buried" \in excuses[job[w].file]
        /\ job[w].op = "delete" /\ at[w] \in {"erasing", "revoking", "putting"} =>
              /\ Excuse(job[w].file) \/ listed[w] = versions[job[w].file]
              /\ \A b \in listed[w] : blobs[b] = "erased" \/ (at[w] = "erasing" /\ (b \in todo[w] \/ short[w]))
        /\ job[w].op = "create" /\ at[w] = "adding" =>
              /\ \A u \in Workers \ {w} : Runs(u, "create") => job[u].file # job[w].file
              /\ \/ Excuse(job[w].file)
                 \/ /\ versions[job[w].file] = {}
                    /\ \A u \in Workers : job[u] # None /\ job[u].op # "create" /\ job[u].file = job[w].file => ~HasListed(u)

BuryingInv == \A w \in Workers : BuryingOf(w)

IInv == Tables /\ Shape /\ HandlerInv /\ OwnedInv /\ OwningInv /\ BuriedInv /\ BuryingInv

--------------------------------------------------------------------------------

(* What a handler's step leaves alone.                                      *)

Same(u) == /\ job'[u] = job[u] /\ at'[u] = at[u] /\ fo'[u] = fo[u]
           /\ listed'[u] = listed[u] /\ todo'[u] = todo[u] /\ short'[u] = short[u]

Others(w) == \A u \in Workers \ {w} : Same(u) /\ (mu = u => mu' = u)

Ended(w) == /\ job'[w] = None /\ at'[w] = "idle" /\ fo'[w] = None
            /\ listed'[w] = {} /\ todo'[w] = {} /\ short'[w] = FALSE

LEMMA EndsIs ==
    ASSUME Shape, NEW w \in Workers, Ends(w)
    PROVE  Shape' /\ Others(w) /\ Ended(w) /\ mu' = IF mu = w THEN None ELSE mu
<1>1. Shape'
  BY DEF Ends, Shape
<1>2. Ended(w) /\ mu' = IF mu = w THEN None ELSE mu
  BY DEF Ends, Shape, Ended
<1>3. Others(w)
  BY DEF Ends, Shape, Others, Same
<1> QED BY <1>1, <1>2, <1>3

LEMMA MovesIs ==
    ASSUME Shape, NEW w \in Workers, NEW a, NEW b, Moves(w, a, b)
    PROVE  /\ at' = [u \in Workers |-> at'[u]] /\ at[w] = a /\ at'[w] = b
           /\ \A u \in Workers \ {w} : at'[u] = at[u]
BY DEF Moves, Shape

Serving(w) == (\E r \in Requests : Request(w, r)) \/ Lock(w) \/ Serve(w) \/ Panic(w)

LEMMA Frame ==
    ASSUME Shape, NEW w \in Workers, Serving(w)
    PROVE  Shape' /\ Others(w) /\ mu' \in {mu, w, None}
<1> DEFINE Goal == Shape' /\ Others(w) /\ mu' \in {mu, w, None}
<1> SUFFICES Goal
  OBVIOUS
<1>a. ASSUME Ends(w) PROVE Goal
  BY <1>a, EndsIs
<1>b. ASSUME NEW a, NEW b, Moves(w, a, b), UNCHANGED <<mu, job, fo, listed, todo, short>> PROVE Goal
  BY <1>b, MovesIs DEF Shape, Others, Same
<1>c. ASSUME NEW a, NEW b, Moves(w, a, b), UNCHANGED <<mu, job, fo, listed, short>>, NEW e,
             todo' = [todo EXCEPT ![w] = e] PROVE Goal
  BY <1>c, MovesIs DEF Shape, Others, Same
<1>d. ASSUME NEW a, NEW b, Moves(w, a, b), UNCHANGED <<mu, job, listed, todo, short>>, NEW e,
             fo' = [fo EXCEPT ![w] = e] PROVE Goal
  BY <1>d, MovesIs DEF Shape, Others, Same
<1>e. ASSUME NEW a, NEW i, NEW r, LoopStep(w, a, i, r) PROVE Goal
  BY <1>e DEF LoopStep, Shape, Others, Same
<1> HIDE DEF Goal
<1>1. ASSUME NEW r \in Requests, Request(w, r) PROVE Goal
  <2>1. Moves(w, "idle", FirstStep[r.op])
    BY <1>1 DEF Request
  <2> QED BY <1>1, <2>1, MovesIs DEF Request, Shape, Others, Same, Goal
<1>2. CASE Lock(w)
  <2>1. \E b : Moves(w, "locking", b)
    BY <1>2 DEF Lock
  <2>2. \A u \in Workers \ {w} : mu # u
    BY <1>2, FileObjectsAssumption DEF Lock
  <2> QED BY <1>2, <2>1, <2>2, MovesIs DEF Lock, Shape, Others, Same, Goal
<1>3. CASE Store(w)
  <2>1. CASE Ends(w)
    BY <1>a, <2>1
  <2>2. CASE ~Ends(w)
    <3>1. PICK a, b, c : Moves(w, a, b) /\ job' = [job EXCEPT ![w].blob = c]
                         /\ UNCHANGED <<mu, fo, listed, todo, short>>
      BY <1>3, <2>2 DEF Store
    <3>2. PICK j : job' = [job EXCEPT ![w] = j]
      BY <3>1
    <3> QED BY <3>1, <3>2, MovesIs DEF Shape, Others, Same, Goal
  <2> QED BY <2>1, <2>2
<1>4. CASE BootstrapGrant(w)
  <2>1. (\E b : Moves(w, at[w], b)) /\ ((\E e : todo' = [todo EXCEPT ![w] = e]) \/ UNCHANGED todo)
        /\ UNCHANGED <<mu, job, fo, listed, short>>
    BY <1>4 DEF BootstrapGrant
  <2> QED BY <1>b, <1>c, <2>1
<1>5. CASE RollBack(w) \/ Discard(w) \/ Panic(w) \/ AddEvent(w)
  BY <1>a, <1>5 DEF RollBack, Discard, Panic, Fails, AddEvent
<1>6. CASE PutCreated(w) \/ ReadersMirrored(w) \/ VersionsMirrored(w)
  BY <1>b, <1>6 DEF PutCreated, ReadersMirrored, VersionsMirrored
<1>7. CASE CheckWrite(w)
  BY <1>a, <1>b, <1>7 DEF CheckWrite
<1>8. CASE ReadFileObject(w)
  <2>1. Ends(w) \/ /\ \E b : Moves(w, "reading", b)
                   /\ \E e : fo' = [fo EXCEPT ![w] = e]
                   /\ UNCHANGED <<mu, job, listed, todo, short>>
    BY <1>8 DEF ReadFileObject
  <2> QED BY <1>a, <1>d, <2>1
<1>9. CASE List(w)
  <2>1. PICK b, e, l : /\ Moves(w, "listing", b) /\ todo' = [todo EXCEPT ![w] = e]
                       /\ listed' = [listed EXCEPT ![w] = l] /\ UNCHANGED <<mu, job, fo, short>>
    BY <1>9 DEF List
  <2> QED BY <2>1, MovesIs DEF Shape, Others, Same, Goal
<1>10. CASE GrantOwner(w)
  BY <1>b, <1>10 DEF GrantOwner
<1>11. CASE MirrorReaders(w) \/ MirrorVersions(w) \/ EraseBlob(w) \/ RevokeGrant(w)
  BY <1>e, <1>11 DEF MirrorReaders, MirrorVersions, EraseBlob, RevokeGrant
<1>12. CASE AddVersion(w)
  <2>1. (\E b : Moves(w, "adding", b)) /\ (UNCHANGED fo \/ \E e : fo' = [fo EXCEPT ![w].CurrentVersionRef = e])
        /\ UNCHANGED <<mu, job, listed, todo, short>>
    BY <1>12 DEF AddVersion
  <2>2. UNCHANGED fo \/ \E e : fo' = [fo EXCEPT ![w] = e]
    BY <2>1
  <2> QED BY <1>b, <1>d, <2>1, <2>2
<1>13. CASE ChangeAccess(w)
  BY <1>a, <1>b, <1>13 DEF ChangeAccess, Fails
<1>14. CASE BlobsErased(w)
  BY <1>a, <1>c, <1>14 DEF BlobsErased, Fails
<1>15. CASE GrantsRevoked(w)
  <2>1. Moves(w, "revoking", "putting") /\ (\E e : fo' = [fo EXCEPT ![w].Deleted = e])
        /\ UNCHANGED <<mu, job, listed, todo, short>>
    BY <1>15 DEF GrantsRevoked
  <2>2. \E e : fo' = [fo EXCEPT ![w] = e]
    BY <2>1
  <2> QED BY <1>d, <2>1, <2>2
<1>16. CASE PutFileObject(w)
  BY <1>a, <1>b, <1>16 DEF PutFileObject, Fails
<1> QED BY <1>1, <1>2, <1>3, <1>4, <1>5, <1>6, <1>7, <1>8, <1>9, <1>10, <1>11, <1>12, <1>13, <1>14,
           <1>15, <1>16 DEF Serving, Serve

LEMMA WhoChanges ==
    ASSUME NEW w \in Workers, Serving(w)
    PROVE  /\ records' = records \/ PutCreated(w) \/ PutFileObject(w)
           /\ versions' = versions \/ AddVersion(w)
           /\ events' = events \/ AddEvent(w)
           /\ blobs' = blobs \/ Store(w) \/ RollBack(w) \/ Discard(w) \/ EraseBlob(w)
           /\ late' = late \/ AddVersion(w)
           /\ \/ UNCHANGED store
              \/ Store(w) \/ BootstrapGrant(w) \/ RollBack(w) \/ GrantOwner(w) \/ MirrorReaders(w)
              \/ ChangeAccess(w) \/ MirrorVersions(w) \/ RevokeGrant(w)
           /\ excuses' = excuses \/ \E es \in SUBSET {"cutShort", "misread", "unborn", "buried"} : Excused(w, es)
<1>1. CASE \E r \in Requests : Request(w, r)
  BY <1>1 DEF Request, history
<1>2. CASE Lock(w)
  BY <1>2 DEF Lock, history
<1>3. CASE Store(w) \/ BootstrapGrant(w) \/ RollBack(w) \/ PutCreated(w)
  BY <1>3 DEF Store, BootstrapGrant, RollBack, PutCreated, tables, history
<1>4. CASE CheckWrite(w) \/ ReadFileObject(w)
  BY <1>4 DEF CheckWrite, ReadFileObject, tables, history
<1>5. CASE List(w)
  BY <1>5 DEF List, tables, history
<1>6. CASE GrantOwner(w) \/ Discard(w) \/ ReadersMirrored(w) \/ VersionsMirrored(w) \/ GrantsRevoked(w)
  BY <1>6 DEF GrantOwner, Discard, ReadersMirrored, VersionsMirrored, GrantsRevoked, tables, history
<1>7. CASE MirrorReaders(w) \/ MirrorVersions(w) \/ EraseBlob(w) \/ RevokeGrant(w)
  BY <1>7 DEF MirrorReaders, MirrorVersions, EraseBlob, RevokeGrant, LoopStep, tables, history
<1>8. CASE AddVersion(w)
  BY <1>8 DEF AddVersion, history
<1>9. CASE ChangeAccess(w) \/ BlobsErased(w) \/ Panic(w)
  BY <1>9 DEF ChangeAccess, BlobsErased, Panic, Fails, tables, history
<1>10. CASE PutFileObject(w)
  BY <1>10 DEF PutFileObject, Fails
<1>11. CASE AddEvent(w)
  BY <1>11 DEF AddEvent
<1> QED BY <1>1, <1>2, <1>3, <1>4, <1>5, <1>6, <1>7, <1>8, <1>9, <1>10, <1>11 DEF Serving, Serve

--------------------------------------------------------------------------------
(* Types.                                                                   *)

LEMMA Consts ==
    /\ None \notin Files /\ None \notin Blobs /\ None \notin Workers /\ None \notin Subjects
    /\ None \notin Job /\ None \notin FileObjectRecord /\ None \notin Change
    /\ Files \cap Blobs = {} /\ Files \subseteq Resources /\ Blobs \subseteq Resources
    /\ Blobs \subseteq Nat
    /\ ActionRead \in Actions /\ ActionWrite \in Actions /\ storageRetrieveBlobAction \in Actions
    /\ scopeFull \in Scopes
    /\ \A r \in Requests : r \in Job /\ r.blob = None /\ (r.change # None <=> r.op = "permissions")
BY FileObjectsAssumption, GrantsAssumption

LEMMA JobIs ==
    ASSUME NEW w \in Workers, HandlerType(w), HandlerPlace(w), job[w] # None
    PROVE  /\ job[w] \in Job /\ job[w].op \in Ops /\ job[w].self \in Subjects /\ job[w].file \in Files
           /\ job[w].blob \in Blobs \cup {None} /\ job[w].change \in Change \cup {None}
           /\ Place(job[w].op, at[w]) /\ at[w] # "idle"
           /\ Past(job[w].op, at[w]) => job[w].blob \in Blobs
           /\ job[w].op = "permissions" => job[w].change \in Change
           /\ job[w].op # "create" /\ at[w] \notin {"checking", "reading"} =>
                 fo[w] \in FileObjectRecord /\ fo[w].Owner \in Subjects
BY DEF HandlerType, HandlerPlace, Job, FileObjectRecord, Place

LEMMA AccessIs ==
    ASSUME NEW g \in Subjects, NEW s \in Subjects, NEW a \in Actions, NEW r \in Resources, NEW c \in Scopes
    PROVE  Access(g, s, a, r, c) \in Grant
BY DEF Access, Grant

LEMMA StoreType ==
    ASSUME GrantsTypeOK,
           \/ UNCHANGED store
           \/ \E g \in Grant : putGrant(g)
           \/ \E s, a, r : removeGrant(s, a, r)
           \/ grants' \subseteq grants /\ UNCHANGED <<owners, policies>>
    PROVE  GrantsTypeOK'
<1>1. ASSUME NEW g \in Grant, putGrant(g) PROVE GrantsTypeOK'
  <2>1. g.grantor \in Subjects /\ g.resource \in Resources
    BY DEF Grant
  <2> QED BY <1>1, <2>1 DEF GrantsTypeOK, putGrant
<1>2. CASE UNCHANGED store
  BY <1>2 DEF store, GrantsTypeOK
<1>3. CASE grants' \subseteq grants /\ UNCHANGED <<owners, policies>>
  BY <1>3 DEF GrantsTypeOK
<1>4. CASE \E s, a, r : removeGrant(s, a, r)
  BY <1>4 DEF removeGrant, GrantsTypeOK
<1> QED BY <1>1, <1>2, <1>3, <1>4

\* What a call of GrantPermission or RevokePermission can do.
LEMMA CallsIs ==
    /\ \A g, result : GrantPermission(g, result) =>
          (putGrant(g) \/ UNCHANGED store) /\ (NoFault \/ Fault) /\ (result = "ok" => putGrant(g))
    /\ \A o, s, a, r, result : RevokePermission(o, s, a, r, result) =>
          (removeGrant(s, a, r) \/ UNCHANGED store) /\ (NoFault \/ Fault) /\ (result = "ok" => removeGrant(s, a, r))
BY DEF GrantPermission, RevokePermission

LEMMA BoundsType ==
    ASSUME requests \in 0..MaxRequests, faults \in 0..MaxFaults, NoFault \/ Fault
    PROVE  requests' \in 0..MaxRequests /\ faults' \in 0..MaxFaults
BY FileObjectsAssumption DEF NoFault, Fault, bounds

LEMMA BoundsStep ==
    ASSUME requests \in 0..MaxRequests, faults \in 0..MaxFaults, NEW w \in Workers, Serving(w)
    PROVE  requests' \in 0..MaxRequests /\ faults' \in 0..MaxFaults
<1> DEFINE Goal == requests' \in 0..MaxRequests /\ faults' \in 0..MaxFaults
<1> SUFFICES Goal
  OBVIOUS
<1>0. ASSUME NoFault \/ Fault PROVE Goal
  BY <1>0, BoundsType
<1>1. CASE \E r \in Requests : Request(w, r)
  BY <1>1, FileObjectsAssumption DEF Request
<1>2. ASSUME UNCHANGED bounds PROVE Goal
  BY <1>0, <1>2 DEF NoFault
<1> HIDE DEF Goal
<1>3. CASE Lock(w)
  BY <1>2, <1>3 DEF Lock
<1>4. CASE Store(w) \/ BootstrapGrant(w) \/ RollBack(w) \/ PutCreated(w)
  BY <1>0, <1>2, <1>4, CallsIs DEF Store, BootstrapGrant, RollBack, PutCreated
<1>5. CASE CheckWrite(w) \/ ReadFileObject(w) \/ List(w)
  BY <1>0, <1>5 DEF CheckWrite, ReadFileObject, List
<1>6. CASE GrantOwner(w) \/ Discard(w) \/ ReadersMirrored(w) \/ VersionsMirrored(w) \/ GrantsRevoked(w)
  BY <1>0, <1>2, <1>6, CallsIs DEF GrantOwner, Discard, ReadersMirrored, VersionsMirrored, GrantsRevoked
<1>7. CASE MirrorReaders(w)
  BY <1>0, <1>7, CallsIs DEF MirrorReaders
<1>8. CASE MirrorVersions(w)
  <2>1. NoFault \/ Fault
    BY <1>8, CallsIs DEF MirrorVersions
  <2> QED BY <1>0, <2>1
<1>9. CASE EraseBlob(w)
  BY <1>0, <1>9 DEF EraseBlob, DeleteBlob
<1>10. CASE RevokeGrant(w)
  BY <1>0, <1>10, CallsIs DEF RevokeGrant
<1>11. CASE AddVersion(w) \/ AddEvent(w)
  BY <1>2, <1>11 DEF AddVersion, AddEvent
<1>12. CASE ChangeAccess(w)
  <2>1. NoFault \/ Fault
    BY <1>12, CallsIs DEF ChangeAccess
  <2> QED BY <1>0, <2>1
<1>13. CASE BlobsErased(w) \/ PutFileObject(w) \/ Panic(w)
  BY <1>0, <1>13 DEF BlobsErased, PutFileObject, Panic
<1> QED BY <1>1, <1>3, <1>4, <1>5, <1>6, <1>7, <1>8, <1>9, <1>10, <1>11, <1>12, <1>13 DEF Serving, Serve

LEMMA OldestIs ==
    ASSUME NEW bs, bs \subseteq Blobs, bs # {} PROVE Oldest(bs) \in bs
<1>1. bs \subseteq Nat
  BY Consts
<1>2. IsWellFoundedOn(OpToRel(<, Nat), Nat)
  BY NatLessThanWellFounded
<1>3. PICK x \in bs : \A y \in bs : ~ (<<y, x>> \in OpToRel(<, Nat))
  BY <1>1, <1>2, WFMin
<1>4. \A y \in bs : x <= y
  <2>1. SUFFICES ASSUME NEW y \in bs, y < x PROVE FALSE
    BY <1>1
  <2>2. <<y, x>> \in Nat \X Nat
    BY <1>1
  <2>3. PICK p : p = <<y, x>>
    OBVIOUS
  <2>4. p \in Nat \X Nat /\ p[1] < p[2]
    BY <2>1, <2>2, <2>3
  <2>5. p \in OpToRel(<, Nat)
    BY <2>4 DEF OpToRel
  <2> QED BY <1>3, <2>3, <2>5
<1> QED BY <1>4 DEF Oldest

LEMMA RecordsStep ==
    ASSUME Tables, HandlerInv, NEW w \in Workers, Serving(w)
    PROVE  /\ records' \in [Files -> FileObjectRecord \cup {None}]
           /\ \A f \in Files : records[f] # None => records'[f] # None
<1>1. CASE PutCreated(w)
  <2>1. CASE records' = records
    BY <2>1 DEF Tables
  <2>2. CASE records' # records
    <3>1. at[w] = "creating" /\ records' = [records EXCEPT ![job[w].file] =
              [Owner |-> job[w].self, CurrentVersionRef |-> job[w].blob, Deleted |-> FALSE]]
      BY <1>1, <2>2 DEF PutCreated, Moves
    <3>2. job[w] # None
      BY <3>1 DEF HandlerInv, HandlerPlace
    <3>3. job[w].self \in Subjects /\ job[w].blob \in Blobs /\ job[w].file \in Files
      BY <3>1, <3>2, JobIs DEF HandlerInv, Past, Place
    <3>4. [Owner |-> job[w].self, CurrentVersionRef |-> job[w].blob, Deleted |-> FALSE] \in FileObjectRecord
      BY <3>3 DEF FileObjectRecord
    <3> QED BY <3>1, <3>3, <3>4, Consts DEF Tables
  <2> QED BY <2>1, <2>2
<1>2. CASE PutFileObject(w)
  <2>1. at[w] = "putting" /\ (records' = records \/ records' = [records EXCEPT ![job[w].file] = fo[w]])
    BY <1>2 DEF PutFileObject
  <2>2. job[w] # None
    BY <2>1 DEF HandlerInv, HandlerPlace
  <2>3. fo[w] \in FileObjectRecord /\ job[w].file \in Files
    BY <2>1, <2>2, JobIs DEF HandlerInv, Place
  <2> QED BY <2>1, <2>3, Consts DEF Tables
<1>3. CASE records' = records
  BY <1>3 DEF Tables
<1> QED BY <1>1, <1>2, <1>3, WhoChanges

LEMMA OtherHandlers ==
    ASSUME Tables, Shape, HandlerInv, NEW w \in Workers, Serving(w), NEW u \in Workers \ {w}
    PROVE  HandlerType(u)' /\ HandlerPlace(u)'
<1>1. Same(u) /\ (mu = u => mu' = u)
  BY Frame DEF Others
<1>2. HandlerType(u) /\ HandlerPlace(u)
  BY DEF HandlerInv
<1>3. HandlerType(u)'
  BY <1>1, <1>2 DEF HandlerType, Same, Runs
<1>4. job[u] # None => job[u].file \in Files
  BY <1>2, JobIs
<1>5. HandlerPlace(u)'
  BY <1>1, <1>2, <1>4, RecordsStep DEF HandlerPlace, Same
<1> QED BY <1>3, <1>5

LEMMA EndedHandler ==
    ASSUME Shape, NEW w \in Workers, Ends(w)
    PROVE  HandlerType(w)' /\ HandlerPlace(w)'
BY EndsIs DEF Ended, HandlerType, HandlerPlace, Runs

LEMMA LoopedHandler ==
    ASSUME Tables, Shape, HandlerInv, NEW w \in Workers, Serving(w), NEW a, NEW i, NEW r, LoopStep(w, a, i, r)
    PROVE  HandlerType(w)' /\ HandlerPlace(w)'
<1>1. /\ job' = job /\ at' = at /\ fo' = fo /\ listed' = listed /\ mu' = mu /\ records' = records
      /\ todo'[w] \subseteq todo[w] /\ short'[w] = (short[w] \/ r = "error")
  BY DEF LoopStep, Shape, tables
<1>2. HandlerType(w) /\ HandlerPlace(w)
  BY DEF HandlerInv
<1>3. HandlerType(w)'
  BY <1>1, <1>2 DEF HandlerType, Runs
<1>4. HandlerPlace(w)'
  BY <1>1, <1>2 DEF HandlerPlace
<1> QED BY <1>3, <1>4

LEMMA OwnHandler ==
    ASSUME Tables, Shape, HandlerInv, NEW w \in Workers, Serving(w)
    PROVE  HandlerType(w)' /\ HandlerPlace(w)'
<1> DEFINE Goal == HandlerType(w)' /\ HandlerPlace(w)'
<1> SUFFICES Goal
  OBVIOUS
<1>0. HandlerType(w) /\ HandlerPlace(w)
  BY DEF HandlerInv
<1>a. ASSUME Ends(w) PROVE Goal
  BY <1>a, EndedHandler
<1>j. ASSUME job[w] # None
      PROVE  /\ job[w] \in Job /\ job[w].file \in Files /\ Place(job[w].op, at[w])
             /\ job[w].op = "permissions" => job[w].change \in Change
  BY <1>0, <1>j, JobIs
<1>s. Shape' /\ \A f \in Files : records[f] # None => records'[f] # None
  BY Frame, RecordsStep
<1>1. ASSUME NEW r \in Requests, Request(w, r) PROVE Goal
  <2>1. /\ at[w] = "idle" /\ at'[w] = FirstStep[r.op] /\ job'[w] = r /\ UNCHANGED <<mu, fo, listed, todo, short, records>>
        /\ r.op # "create" => records[r.file] # None
    BY <1>1, MovesIs DEF Request, Shape
  <2>2. r \in Job /\ r.op \in Ops /\ r.file \in Files /\ r.blob = None /\ (r.op = "permissions" => r.change # None)
    BY Consts DEF Job
  <2>3. job[w] = None
    BY <1>0, <2>1 DEF HandlerPlace, Place
  <2>4. fo[w] = None /\ todo[w] = {}
    BY <1>0, <2>3 DEF HandlerPlace
  <2>5. Place(r.op, at'[w]) /\ ~Guarded(r.op, at'[w]) /\ ~Past(r.op, at'[w])
        /\ (r.op # "create" => at'[w] \in {"checking", "reading"}) /\ (r.op = "create" => at'[w] = "storing")
    BY <2>1, <2>2 DEF FirstStep, Ops, Place, Guarded, Past
  <2>6. r # None
    BY <2>2, Consts
  <2>7. HandlerType(w)'
    BY <1>0, <2>1, <2>2, <2>4 DEF HandlerType
  <2>8. HandlerPlace(w)'
    BY <2>1, <2>2, <2>4, <2>5, <2>6 DEF HandlerPlace
  <2> QED BY <2>7, <2>8
<1>2. CASE Lock(w)
  <2>1. /\ at[w] = "locking" /\ at'[w] = CASE job[w].op = "version" -> "storing"
                                           [] job[w].op = "permissions" -> "changing"
                                           [] job[w].op = "delete" -> "listing"
        /\ mu' = w /\ UNCHANGED <<job, fo, listed, todo, short, records>>
    BY <1>2, MovesIs DEF Lock
  <2>2. job[w] # None
    BY <1>0, <2>1 DEF HandlerPlace
  <2>3. \/ job[w].op = "version" /\ at'[w] = "storing"
        \/ job[w].op = "permissions" /\ at'[w] = "changing"
        \/ job[w].op = "delete" /\ at'[w] = "listing"
    BY <1>0, <2>1, <2>2 DEF HandlerPlace, Place
  <2>4. HandlerType(w)'
    BY <1>0, <2>1, <2>3 DEF HandlerType, Runs
  <2>5. HandlerPlace(w)'
    BY <1>0, <2>1, <2>2, <2>3 DEF HandlerPlace, Place, Past
  <2> QED BY <2>4, <2>5
<1>3. CASE Store(w)
  <2>1. CASE ~Ends(w)
    <3>1. PICK b : b = Oldest(UnusedBlobs)
      OBVIOUS
    <3>2. /\ at[w] = "storing" /\ UnusedBlobs # {} /\ UNCHANGED <<mu, fo, listed, todo, short, records>>
          /\ at'[w] = (IF job[w].op = "create" THEN "grantRead" ELSE "granting")
          /\ job' = [job EXCEPT ![w].blob = b]
      BY <1>3, <2>1, <3>1, MovesIs DEF Store, tables
    <3>3. b \in Blobs
      BY <3>1, <3>2, OldestIs DEF UnusedBlobs
    <3>4. job[w] # None
      BY <1>0, <3>2 DEF HandlerPlace
    <3>5. job'[w] = [job[w] EXCEPT !.blob = b]
      BY <3>2 DEF Shape
    <3>6. /\ job'[w] \in Job /\ job'[w].op = job[w].op /\ job'[w].file = job[w].file
          /\ job'[w].change = job[w].change /\ job'[w].blob = b
      BY <1>j, <3>3, <3>4, <3>5 DEF Job
    <3>7. job'[w] # None
      BY <3>6, Consts
    <3>8. HandlerType(w)'
      BY <1>0, <3>2, <3>4, <3>6, <3>7 DEF HandlerType, Runs
    <3>9. HandlerPlace(w)'
      BY <1>0, <3>2, <3>3, <3>4, <3>6, <3>7 DEF HandlerPlace, Place, Guarded
    <3> QED BY <3>8, <3>9
  <2> QED BY <1>a, <2>1
<1>4. CASE BootstrapGrant(w)
  <2>1. PICK r, g, b : /\ at[w] \in {"grantRead", "grantWrite", "grantBlob"}
                       /\ r = IF at[w] = "grantBlob" THEN job[w].blob ELSE job[w].file
                       /\ g = Access(job[w].self, job[w].self, bootstrap[at[w]].action, r, scopeFull)
                       /\ at'[w] = b /\ b \in {"grantWrite", "grantBlob", "creating", "rollback"}
                       /\ todo'[w] = todo[w] \cup {g} \/ todo'[w] = todo[w]
                       /\ UNCHANGED <<mu, job, fo, listed, short, records>>
    BY <1>4, MovesIs DEF BootstrapGrant, bootstrap, tables, Shape
  <2>2. job[w] # None /\ job[w].op = "create"
    BY <1>0, <2>1 DEF HandlerPlace, Place
  <2>3. job[w].self \in Subjects /\ r \in Resources /\ bootstrap[at[w]].action \in Actions
    BY <1>0, <2>1, <2>2, JobIs, Consts DEF bootstrap, Past
  <2>4. g \in Grant
    BY <2>1, <2>3, AccessIs, Consts
  <2>5. HandlerType(w)'
    BY <1>0, <2>1, <2>2, <2>4 DEF HandlerType, Runs
  <2>6. HandlerPlace(w)'
    BY <1>0, <2>1, <2>2 DEF HandlerPlace, Place, Guarded, Past
  <2> QED BY <2>5, <2>6
<1>5. CASE RollBack(w) \/ Discard(w) \/ Panic(w) \/ AddEvent(w)
  BY <1>a, <1>5 DEF RollBack, Discard, Panic, Fails, AddEvent
<1>6. CASE PutCreated(w)
  <2>1. /\ at[w] = "creating" /\ at'[w] \in {"adding", "rollback"} /\ UNCHANGED <<mu, job, fo, listed, todo, short>>
        /\ at'[w] = "adding" => records' = [records EXCEPT ![job[w].file] =
              [Owner |-> job[w].self, CurrentVersionRef |-> job[w].blob, Deleted |-> FALSE]]
    BY <1>6, MovesIs DEF PutCreated
  <2>2. job[w] # None /\ job[w].op = "create"
    BY <1>0, <2>1 DEF HandlerPlace, Place
  <2>3. at'[w] = "adding" => records'[job[w].file] # None
    <3>1. job[w].self \in Subjects /\ job[w].blob \in Blobs /\ job[w].file \in Files
      BY <1>0, <2>1, <2>2, JobIs DEF Past
    <3>2. [Owner |-> job[w].self, CurrentVersionRef |-> job[w].blob, Deleted |-> FALSE] \in FileObjectRecord
      BY <3>1 DEF FileObjectRecord
    <3> QED BY <2>1, <3>1, <3>2, Consts DEF Tables
  <2>4. HandlerType(w)'
    BY <1>0, <2>1, <2>2 DEF HandlerType, Runs
  <2>5. HandlerPlace(w)'
    BY <1>0, <2>1, <2>2, <2>3 DEF HandlerPlace, Place, Guarded, Past
  <2> QED BY <2>4, <2>5
<1>7. CASE CheckWrite(w)
  <2>1. CASE ~Ends(w)
    <3>1. at[w] = "checking" /\ at'[w] = "reading" /\ UNCHANGED <<mu, job, fo, listed, todo, short, records>>
      BY <1>7, <2>1, MovesIs DEF CheckWrite, tables
    <3>2. HandlerType(w)'
      BY <1>0, <3>1 DEF HandlerType, Runs
    <3>3. HandlerPlace(w)'
      BY <1>0, <3>1 DEF HandlerPlace, Place, Guarded, Past
    <3> QED BY <3>2, <3>3
  <2> QED BY <1>a, <2>1
<1>8. CASE ReadFileObject(w)
  <2>1. CASE ~Ends(w)
    <3>1. /\ at[w] = "reading" /\ at'[w] = (IF job[w].op = "metadata" THEN "putting" ELSE "locking")
          /\ fo' = [fo EXCEPT ![w] = records[job[w].file]] /\ UNCHANGED <<mu, job, listed, todo, short, records>>
      BY <1>8, <2>1, MovesIs DEF ReadFileObject, tables
    <3>2. job[w] # None /\ job[w].op # "create"
      BY <1>0, <3>1 DEF HandlerPlace, Place
    <3>3. records[job[w].file] # None /\ fo'[w] = records[job[w].file] /\ fo'[w] \in FileObjectRecord
      BY <1>0, <1>j, <3>1, <3>2 DEF HandlerPlace, Tables, Shape
    <3>4. HandlerType(w)'
      BY <1>0, <3>1, <3>3 DEF HandlerType, Runs
    <3>5. HandlerPlace(w)'
      BY <1>0, <3>1, <3>2, <3>3, Consts DEF HandlerPlace, Place, Guarded, Past
    <3> QED BY <3>4, <3>5
  <2> QED BY <1>a, <2>1
<1>9. CASE List(w)
  <2>1. /\ at[w] = "listing" /\ at'[w] = (IF job[w].op = "delete" THEN "erasing" ELSE "mirroring")
        /\ UNCHANGED <<mu, job, fo, short, records>>
        /\ todo'[w] = WhatToList(w) \/ todo'[w] = {}
        /\ listed'[w] = IF job[w].op = "version" THEN {} ELSE todo'[w]
    BY <1>9, MovesIs DEF List, Shape, tables
  <2>2. job[w] # None /\ job[w].op \in {"version", "permissions", "delete"}
    BY <1>0, <2>1 DEF HandlerPlace, Place
  <2>3. todo'[w] \subseteq IF job[w].op = "version" THEN Grant ELSE Blobs
    BY <1>j, <2>1, <2>2 DEF WhatToList, Tables, GrantsTypeOK, grantsForResource
  <2>4. HandlerType(w)'
    BY <1>0, <2>1, <2>2, <2>3 DEF HandlerType, Runs
  <2>5. HandlerPlace(w)'
    BY <1>0, <2>1, <2>2 DEF HandlerPlace, Place, Guarded, Past
  <2> QED BY <2>4, <2>5
<1>10. CASE GrantOwner(w)
  <2>1. /\ at[w] = "granting" /\ at'[w] \in {"listing", "discarding"} /\ UNCHANGED <<mu, job, fo, listed, todo, short, records>>
    BY <1>10, MovesIs DEF GrantOwner, tables
  <2>2. HandlerType(w)'
    BY <1>0, <2>1 DEF HandlerType, Runs
  <2>3. HandlerPlace(w)'
    BY <1>0, <2>1 DEF HandlerPlace, Place, Guarded, Past
  <2> QED BY <2>2, <2>3
<1>11. CASE MirrorReaders(w) \/ MirrorVersions(w) \/ EraseBlob(w) \/ RevokeGrant(w)
  BY <1>11, LoopedHandler DEF MirrorReaders, MirrorVersions, EraseBlob, RevokeGrant
<1>12. CASE ReadersMirrored(w) \/ VersionsMirrored(w)
  <2>1. /\ at[w] = "mirroring" /\ UNCHANGED <<mu, job, fo, listed, todo, short, records>>
        /\ (Runs(w, "version") /\ at'[w] = "adding") \/ (Runs(w, "permissions") /\ at'[w] = "putting")
    <3>1. CASE ReadersMirrored(w)
      BY <3>1, MovesIs DEF ReadersMirrored, tables
    <3>2. CASE VersionsMirrored(w)
      BY <3>2, MovesIs DEF VersionsMirrored, tables
    <3> QED BY <1>12, <3>1, <3>2
  <2>2. HandlerType(w)'
    BY <1>0, <2>1 DEF HandlerType, Runs
  <2>3. HandlerPlace(w)'
    BY <1>0, <2>1 DEF HandlerPlace, Place, Guarded, Past, Runs
  <2> QED BY <2>2, <2>3
<1>13. CASE AddVersion(w)
  <2>1. /\ at[w] = "adding" /\ UNCHANGED <<mu, job, listed, todo, short, records>>
        /\ \/ job[w].op = "create" /\ at'[w] = "logging" /\ fo' = fo
           \/ job[w].op # "create" /\ at'[w] = "putting" /\ fo' = [fo EXCEPT ![w].CurrentVersionRef = job[w].blob]
    BY <1>13, MovesIs DEF AddVersion
  <2>2. job[w] # None
    BY <1>0, <2>1 DEF HandlerPlace
  <2>3. job[w].op # "create" => fo'[w] \in FileObjectRecord
    <3>1. SUFFICES ASSUME job[w].op # "create" PROVE fo'[w] \in FileObjectRecord
      OBVIOUS
    <3>2. fo[w] \in FileObjectRecord /\ job[w].blob \in Blobs
      BY <1>0, <2>1, <2>2, <3>1, JobIs DEF Place, Past
    <3>3. fo'[w] = [fo[w] EXCEPT !.CurrentVersionRef = job[w].blob]
      BY <2>1, <3>1 DEF Shape
    <3> QED BY <3>2, <3>3 DEF FileObjectRecord
  <2>4. HandlerType(w)'
    BY <1>0, <2>1, <2>3 DEF HandlerType, Runs
  <2>5. HandlerPlace(w)'
    BY <1>0, <2>1, <2>2, <2>3, Consts DEF HandlerPlace, Place, Guarded, Past
  <2> QED BY <2>4, <2>5
<1>14. CASE ChangeAccess(w)
  <2>1. CASE ~Ends(w)
    <3>1. /\ at[w] = "changing" /\ at'[w] \in {"listing", "putting"} /\ UNCHANGED <<mu, job, fo, listed, todo, short, records>>
      BY <1>14, <2>1, MovesIs DEF ChangeAccess, Fails, tables
    <3>2. HandlerType(w)'
      BY <1>0, <3>1 DEF HandlerType, Runs
    <3>3. HandlerPlace(w)'
      BY <1>0, <3>1 DEF HandlerPlace, Place, Guarded, Past
    <3> QED BY <3>2, <3>3
  <2> QED BY <1>a, <2>1
<1>15. CASE BlobsErased(w)
  <2>1. CASE ~Ends(w)
    <3>1. PICK rs : /\ at[w] = "erasing" /\ at'[w] = "revoking" /\ UNCHANGED <<mu, job, fo, listed, short, records>>
                    /\ todo' = [todo EXCEPT ![w] = UNION {grantsForResource(r) : r \in rs}]
      BY <1>15, <2>1, MovesIs DEF BlobsErased, Fails, tables
    <3>2. todo'[w] \subseteq Grant
      BY <3>1 DEF Shape, grantsForResource, Tables, GrantsTypeOK
    <3>3. job[w] # None /\ job[w].op = "delete"
      BY <1>0, <3>1 DEF HandlerPlace, Place
    <3>4. HandlerType(w)'
      BY <1>0, <3>1, <3>2, <3>3 DEF HandlerType, Runs
    <3>5. HandlerPlace(w)'
      BY <1>0, <3>1, <3>3 DEF HandlerPlace, Place, Guarded, Past
    <3> QED BY <3>4, <3>5
  <2> QED BY <1>a, <2>1
<1>16. CASE GrantsRevoked(w)
  <2>1. /\ at[w] = "revoking" /\ at'[w] = "putting" /\ fo' = [fo EXCEPT ![w].Deleted = TRUE]
        /\ UNCHANGED <<mu, job, listed, todo, short, records>> /\ todo[w] = {}
    BY <1>16, MovesIs DEF GrantsRevoked, tables
  <2>2. job[w] # None /\ job[w].op = "delete"
    BY <1>0, <2>1 DEF HandlerPlace, Place
  <2>3. fo'[w] \in FileObjectRecord
    <3>1. fo[w] \in FileObjectRecord /\ fo'[w] = [fo[w] EXCEPT !.Deleted = TRUE]
      BY <1>0, <2>1, <2>2, JobIs DEF Shape
    <3> QED BY <3>1 DEF FileObjectRecord
  <2>4. HandlerType(w)'
    BY <1>0, <2>1, <2>2, <2>3 DEF HandlerType, Runs
  <2>5. HandlerPlace(w)'
    BY <1>0, <2>1, <2>2, <2>3, Consts DEF HandlerPlace, Place, Guarded, Past
  <2> QED BY <2>4, <2>5
<1>17. CASE PutFileObject(w)
  <2>1. CASE ~Ends(w)
    <3>1. /\ at[w] = "putting" /\ at'[w] = "logging" /\ UNCHANGED <<mu, job, fo, listed, todo, short>>
      BY <1>17, <2>1, MovesIs DEF PutFileObject, Fails
    <3>2. job[w] # None /\ job[w].op # "create"
      BY <1>0, <3>1 DEF HandlerPlace, Place
    <3>3. HandlerType(w)'
      BY <1>0, <3>1, <3>2 DEF HandlerType, Runs
    <3>4. HandlerPlace(w)'
      BY <1>0, <1>j, <1>s, <3>1, <3>2 DEF HandlerPlace, Place, Guarded, Past
    <3> QED BY <3>3, <3>4
  <2> QED BY <1>a, <2>1
<1> HIDE DEF Goal
<1> QED BY <1>1, <1>2, <1>3, <1>4, <1>5, <1>6, <1>7, <1>8, <1>9, <1>10, <1>11, <1>12, <1>13, <1>14,
           <1>15, <1>16, <1>17 DEF Serving, Serve

\* Which grants a handler makes.
LEMMA GrantsMade ==
    ASSUME Tables, Shape, HandlerInv, NEW w \in Workers, Serving(w)
    PROVE  \/ UNCHANGED store
           \/ \E g \in Grant : putGrant(g)
           \/ \E s, a, r : removeGrant(s, a, r)
           \/ grants' \subseteq grants /\ UNCHANGED <<owners, policies>>
<1> DEFINE Goal == \/ UNCHANGED store
                   \/ \E g \in Grant : putGrant(g)
                   \/ \E s, a, r : removeGrant(s, a, r)
                   \/ grants' \subseteq grants /\ UNCHANGED <<owners, policies>>
<1> SUFFICES Goal
  OBVIOUS
<1>0. HandlerType(w) /\ HandlerPlace(w)
  BY DEF HandlerInv
<1>g. ASSUME NEW g \in Grant, putGrant(g) \/ UNCHANGED store PROVE Goal
  BY <1>g
<1>r. ASSUME NEW s, NEW a, NEW r, removeGrant(s, a, r) \/ UNCHANGED store PROVE Goal
  BY <1>r
<1>1. CASE Store(w)
  <2>1. SUFFICES ASSUME ~UNCHANGED store PROVE Goal
    OBVIOUS
  <2>2. PICK b, o : /\ b = Oldest(UnusedBlobs) /\ o = (IF job[w].op = "create" THEN job[w].self ELSE fo[w].Owner)
                    /\ at[w] = "storing" /\ UnusedBlobs # {} /\ StoreBlob(b, o)
    BY <1>1, <2>1 DEF Store
  <2>3. b \in Blobs
    BY <2>2, OldestIs DEF UnusedBlobs
  <2>4. o \in Subjects
    BY <1>0, <2>2, JobIs DEF HandlerPlace, Place
  <2>5. Access(o, o, storageRetrieveBlobAction, b, scopeFull) \in Grant
    BY <2>3, <2>4, AccessIs, Consts
  <2> QED BY <1>g, <2>2, <2>5 DEF StoreBlob
<1>2. CASE BootstrapGrant(w)
  <2>1. PICK r, g : /\ at[w] \in {"grantRead", "grantWrite", "grantBlob"}
                    /\ r = IF at[w] = "grantBlob" THEN job[w].blob ELSE job[w].file
                    /\ g = Access(job[w].self, job[w].self, bootstrap[at[w]].action, r, scopeFull)
                    /\ putGrant(g) \/ UNCHANGED store
    BY <1>2, CallsIs DEF BootstrapGrant, bootstrap
  <2>2. job[w] # None /\ job[w].op = "create"
    BY <1>0, <2>1 DEF HandlerPlace, Place
  <2>3. job[w].self \in Subjects /\ r \in Resources /\ bootstrap[at[w]].action \in Actions
    BY <1>0, <2>1, <2>2, JobIs, Consts DEF bootstrap, Past
  <2>4. g \in Grant
    BY <2>1, <2>3, AccessIs, Consts
  <2> QED BY <1>g, <2>1, <2>4
<1>3. CASE RollBack(w)
  BY <1>3 DEF RollBack
<1>4. CASE GrantOwner(w)
  <2>1. PICK g : /\ g = Access(fo[w].Owner, fo[w].Owner, storageRetrieveBlobAction, job[w].blob, scopeFull)
                 /\ at[w] = "granting" /\ (putGrant(g) \/ UNCHANGED store)
    BY <1>4, CallsIs DEF GrantOwner
  <2>2. fo[w].Owner \in Subjects /\ job[w].blob \in Resources
    BY <1>0, <2>1, JobIs, Consts DEF HandlerPlace, Place, Past
  <2>3. g \in Grant
    BY <2>1, <2>2, AccessIs, Consts
  <2> QED BY <1>g, <2>1, <2>3
<1>5. CASE MirrorReaders(w)
  <2>1. PICK h, g : /\ h \in todo[w]
                    /\ g = Access(fo[w].Owner, h.subject, storageRetrieveBlobAction, job[w].blob, h.scope)
                    /\ Runs(w, "version") /\ at[w] = "mirroring" /\ (putGrant(g) \/ UNCHANGED store)
    BY <1>5, CallsIs DEF MirrorReaders, LoopStep
  <2>2. h \in Grant /\ fo[w].Owner \in Subjects /\ job[w].blob \in Resources
    BY <1>0, <2>1, JobIs, Consts DEF Runs, HandlerType, Past
  <2>3. g \in Grant
    BY <2>1, <2>2, AccessIs, Consts DEF Grant
  <2> QED BY <1>g, <2>1, <2>3
<1>6. CASE ChangeAccess(w)
  <2>1. PICK c, f : /\ c = job[w].change /\ f = job[w].file /\ at[w] = "changing"
                    /\ \E result : IF c.Grant THEN GrantPermission(Access(job[w].self, c.Subject, c.Action, f, c.Scope), result)
                                              ELSE RevokePermission(job[w].self, c.Subject, c.Action, f, result)
    BY <1>6 DEF ChangeAccess
  <2>2. job[w] # None /\ job[w].op = "permissions"
    BY <1>0, <2>1 DEF HandlerPlace, Place
  <2>3. c \in Change /\ f \in Resources /\ job[w].self \in Subjects
    BY <1>0, <2>1, <2>2, JobIs, Consts
  <2>4. c.Subject \in Subjects /\ c.Action \in Actions /\ c.Scope \in Scopes
    BY <2>3, Consts DEF Change
  <2>5. Access(job[w].self, c.Subject, c.Action, f, c.Scope) \in Grant
    BY <2>3, <2>4, AccessIs
  <2> QED BY <1>g, <1>r, <2>1, <2>5, CallsIs
<1>7. CASE MirrorVersions(w)
  <2>1. PICK c, b, result : /\ c = job[w].change /\ b = Oldest(todo[w]) /\ Runs(w, "permissions") /\ todo[w] # {}
                            /\ IF c.Grant
                               THEN GrantPermission(Access(fo[w].Owner, c.Subject, storageRetrieveBlobAction, b, c.Scope), result)
                               ELSE RevokePermission(fo[w].Owner, c.Subject, storageRetrieveBlobAction, b, result)
                            /\ at[w] = "mirroring"
    BY <1>7 DEF MirrorVersions, LoopStep
  <2>2. c \in Change /\ fo[w].Owner \in Subjects
    BY <1>0, <2>1, JobIs DEF Runs
  <2>3. b \in Resources
    <3>1. todo[w] \subseteq Blobs
      BY <1>0, <2>1 DEF HandlerType
    <3> QED BY <2>1, <3>1, OldestIs, Consts
  <2>4. c.Subject \in Subjects /\ c.Scope \in Scopes
    BY <2>2 DEF Change
  <2>5. Access(fo[w].Owner, c.Subject, storageRetrieveBlobAction, b, c.Scope) \in Grant
    BY <2>2, <2>3, <2>4, AccessIs, Consts
  <2> QED BY <1>g, <1>r, <2>1, <2>5, CallsIs
<1>8. CASE RevokeGrant(w)
  <2>1. PICK g, result : RevokePermission(fo[w].Owner, g.subject, g.action, g.resource, result)
    BY <1>8 DEF RevokeGrant
  <2> QED BY <1>r, <2>1, CallsIs
<1> HIDE DEF Goal
<1>9. CASE UNCHANGED store
  BY <1>9 DEF Goal
<1> QED BY <1>1, <1>2, <1>3, <1>4, <1>5, <1>6, <1>7, <1>8, <1>9, WhoChanges

LEMMA BlobsStep ==
    ASSUME Tables, Shape, HandlerInv, NEW w \in Workers, Serving(w)
    PROVE  /\ blobs' \in [Blobs -> {"none", "stored", "erased"}]
           /\ \A b \in Blobs : blobs[b] = "erased" => blobs'[b] = "erased"
           /\ \A b \in Blobs : blobs[b] # "none" => blobs'[b] # "none"
<1> DEFINE Goal == /\ blobs' \in [Blobs -> {"none", "stored", "erased"}]
                   /\ \A b \in Blobs : blobs[b] = "erased" => blobs'[b] = "erased"
                   /\ \A b \in Blobs : blobs[b] # "none" => blobs'[b] # "none"
<1> SUFFICES Goal
  OBVIOUS
<1>1. CASE blobs' = blobs
  BY <1>1 DEF Tables
<1>2. ASSUME NEW c, blobs' = [blobs EXCEPT ![c] = "erased"] PROVE Goal
  BY <1>2 DEF Tables
<1>3. CASE Store(w)
  <2>1. CASE blobs' # blobs
    <3>1. PICK b : b = Oldest(UnusedBlobs) /\ blobs' = [blobs EXCEPT ![b] = "stored"] /\ UnusedBlobs # {}
      BY <1>3, <2>1 DEF Store, StoreBlob
    <3>2. blobs[b] = "none" /\ b \in Blobs
      BY <3>1, OldestIs DEF UnusedBlobs
    <3> QED BY <3>1, <3>2 DEF Tables
  <2> QED BY <1>1, <2>1
<1> HIDE DEF Goal
<1>4. CASE RollBack(w) \/ Discard(w)
  BY <1>1, <1>2, <1>4 DEF RollBack, Discard
<1>5. CASE EraseBlob(w)
  BY <1>1, <1>2, <1>5 DEF EraseBlob, DeleteBlob
<1> QED BY <1>1, <1>3, <1>4, <1>5, WhoChanges

LEMMA TablesStep ==
    ASSUME Tables, Shape, HandlerInv, NEW w \in Workers, Serving(w)
    PROVE  Tables' /\ \A f \in Files : versions[f] \subseteq versions'[f] /\ excuses[f] \subseteq excuses'[f]
<1>0. HandlerType(w) /\ HandlerPlace(w)
  BY DEF HandlerInv
<1>1. GrantsTypeOK'
  BY GrantsMade, StoreType DEF Tables
<1>2. /\ versions' \in [Files -> SUBSET Blobs] /\ late' \in SUBSET Blobs
      /\ \A f \in Files : versions[f] \subseteq versions'[f]
  <2>1. CASE AddVersion(w)
    <3>1. /\ at[w] = "adding" /\ versions' = [versions EXCEPT ![job[w].file] = @ \cup {job[w].blob}]
          /\ late' \in {late, late \cup {job[w].blob}}
      BY <2>1 DEF AddVersion
    <3>2. job[w].blob \in Blobs /\ job[w].file \in Files
      BY <1>0, <3>1, JobIs DEF HandlerPlace, Place, Past
    <3> QED BY <3>1, <3>2 DEF Tables
  <2>2. CASE ~AddVersion(w)
    <3>1. versions' = versions /\ late' = late
      BY <2>2, WhoChanges
    <3> QED BY <3>1 DEF Tables
  <2> QED BY <2>1, <2>2
<1>3. events' \in [Files -> SUBSET Ops]
  <2>1. CASE AddEvent(w)
    <3>1. at[w] = "logging" /\ events' = [events EXCEPT ![job[w].file] = @ \cup {job[w].op}]
      BY <2>1 DEF AddEvent
    <3>2. job[w].op \in Ops /\ job[w].file \in Files
      BY <1>0, <3>1, JobIs DEF HandlerPlace
    <3> QED BY <3>1, <3>2 DEF Tables
  <2> QED BY <2>1, WhoChanges DEF Tables
<1>4. mu' \in Workers \cup {None}
  BY Frame DEF Tables
<1>5. requests' \in 0..MaxRequests /\ faults' \in 0..MaxFaults
  BY BoundsStep DEF Tables
<1>6. /\ excuses' \in [Files -> SUBSET {"cutShort", "misread", "unborn", "buried"}]
      /\ \A f \in Files : excuses[f] \subseteq excuses'[f]
  <2>1. CASE excuses' = excuses
    BY <2>1 DEF Tables
  <2>2. ASSUME NEW es \in SUBSET {"cutShort", "misread", "unborn", "buried"}, Excused(w, es)
        PROVE  /\ excuses' \in [Files -> SUBSET {"cutShort", "misread", "unborn", "buried"}]
               /\ \A f \in Files : excuses[f] \subseteq excuses'[f]
    <3>1. excuses' = [excuses EXCEPT ![job[w].file] = @ \cup es]
      BY <2>2 DEF Excused
    <3> QED BY <3>1 DEF Tables
  <2> QED BY <2>1, <2>2, WhoChanges
<1> QED BY <1>1, <1>2, <1>3, <1>4, <1>5, <1>6, RecordsStep, BlobsStep DEF Tables

--------------------------------------------------------------------------------
(* Who owns what.                                                           *)

LEMMA HandlerFacts ==
    ASSUME Tables, HandlerInv, OwnedInv, OwningInv, NEW w \in Workers, job[w] # None
    PROVE  /\ job[w].file \in Files /\ job[w].self \in Subjects
           /\ fo[w] # None \/ at[w] = "adding" => OwnerOf(w) = records[job[w].file].Owner
           /\ Pending(w) => /\ job[w].blob \in Blobs /\ owners[job[w].blob] = OwnerOf(w)
                            /\ OwnerOf(w) \in Subjects /\ owners[job[w].blob] # None
           /\ job[w].op # "create" => /\ records[job[w].file] # None
                                      /\ records[job[w].file].Owner \in Subjects
                                      /\ owners[job[w].file] = records[job[w].file].Owner
                                      /\ owners[job[w].file] # None
<1>1. HandlerType(w) /\ HandlerPlace(w)
  BY DEF HandlerInv
<1>2. job[w].file \in Files /\ job[w].self \in Subjects
  BY <1>1, JobIs
<1>3. fo[w] # None \/ at[w] = "adding" => OwnerOf(w) = records[job[w].file].Owner
  BY DEF OwningInv, OwningOf
<1>4. Pending(w) => /\ job[w].blob \in Blobs /\ owners[job[w].blob] = OwnerOf(w)
                    /\ OwnerOf(w) \in Subjects /\ owners[job[w].blob] # None
  <2>1. SUFFICES ASSUME Pending(w) PROVE job[w].blob \in Blobs /\ OwnerOf(w) \in Subjects
    BY Consts DEF OwningInv, OwningOf
  <2> QED BY <1>1, <2>1, JobIs DEF Pending, Past, OwnerOf
<1>5. job[w].op # "create" => /\ records[job[w].file] # None
                              /\ records[job[w].file].Owner \in Subjects
                              /\ owners[job[w].file] = records[job[w].file].Owner
                              /\ owners[job[w].file] # None
  <2>1. SUFFICES ASSUME job[w].op # "create"
                 PROVE  /\ records[job[w].file] # None
                        /\ records[job[w].file].Owner \in Subjects
                        /\ owners[job[w].file] = records[job[w].file].Owner
    BY Consts
  <2>2. records[job[w].file] # None
    BY <1>1, <2>1 DEF HandlerPlace
  <2>3. records[job[w].file] \in FileObjectRecord
    BY <1>2, <2>2 DEF Tables
  <2> QED BY <1>2, <2>2, <2>3 DEF OwnedInv, FileObjectRecord
<1> QED BY <1>2, <1>3, <1>4, <1>5

LEMMA OwnersKept ==
    ASSUME Tables, Shape, HandlerInv, NEW w \in Workers, Serving(w), NEW r \in Resources, owners[r] # None
    PROVE  owners'[r] = owners[r]
<1>1. ASSUME NEW g \in Grant, putGrant(g) PROVE owners'[r] = owners[r]
  <2>1. g.resource \in Resources
    BY DEF Grant
  <2> QED BY <1>1, <2>1 DEF putGrant, Tables, GrantsTypeOK
<1>2. ASSUME NEW s, NEW a, NEW q, removeGrant(s, a, q) PROVE owners'[r] = owners[r]
  BY <1>2 DEF removeGrant
<1> QED BY <1>1, <1>2, GrantsMade DEF store

\* What w's step gives an owner that has none.
Founds(w, r) ==
    \/ /\ Store(w) /\ ~Ends(w) /\ r = Oldest(UnusedBlobs) /\ owners'[r] = OwnerOf(w)
    \/ /\ Runs(w, "create") /\ at[w] = "grantRead" /\ r = job[w].file /\ owners'[r] = job[w].self

LEMMA NewOwner ==
    ASSUME Tables, Shape, HandlerInv, OwnedInv, OwningInv, NEW w \in Workers, Serving(w),
           NEW r \in Resources, owners[r] = None, owners'[r] # None
    PROVE  Founds(w, r)
<1>0. HandlerType(w) /\ HandlerPlace(w)
  BY DEF HandlerInv
<1>p. ASSUME NEW g, putGrant(g), g.resource \in Resources
      PROVE  g.resource = r /\ owners'[r] = g.grantor
  BY <1>p DEF putGrant, Tables, GrantsTypeOK
<1>u. ~UNCHANGED owners
  OBVIOUS
<1>c. ASSUME NEW g, NEW result, GrantPermission(g, result) PROVE putGrant(g)
  BY <1>u, <1>c, CallsIs DEF store
<1>v. ASSUME NEW o, NEW s, NEW a, NEW q, NEW result, RevokePermission(o, s, a, q, result) PROVE FALSE
  BY <1>u, <1>v, CallsIs DEF store, removeGrant
<1>1. CASE Store(w)
  <2>1. ~Ends(w) \/ ~UNCHANGED store
    BY <1>u DEF store
  <2>2. PICK b, o : /\ b = Oldest(UnusedBlobs) /\ o = OwnerOf(w)
                    /\ UnusedBlobs # {} /\ putGrant(Access(o, o, storageRetrieveBlobAction, b, scopeFull))
                    /\ at[w] = "storing" /\ at'[w] # "idle"
    <3>1. PICK b, o : b = Oldest(UnusedBlobs) /\ o = OwnerOf(w)
      OBVIOUS
    <3>2. /\ UnusedBlobs # {} /\ StoreBlob(b, o) /\ at[w] = "storing"
          /\ Moves(w, "storing", IF job[w].op = "create" THEN "grantRead" ELSE "granting")
      BY <1>u, <1>1, <3>1 DEF Store, OwnerOf, store
    <3> QED BY <3>1, <3>2, MovesIs DEF StoreBlob
  <2>3. b \in Blobs
    BY <2>2, OldestIs DEF UnusedBlobs
  <2>4. PICK g : g = Access(o, o, storageRetrieveBlobAction, b, scopeFull)
    OBVIOUS
  <2>5. g.resource = b /\ g.grantor = o
    BY <2>4 DEF Access
  <2>6. b = r /\ owners'[r] = o
    BY <1>p, <2>2, <2>3, <2>4, <2>5, Consts
  <2>7. ~Ends(w)
    BY <2>2, EndsIs DEF Ended
  <2> QED BY <1>1, <2>2, <2>6, <2>7 DEF Founds
<1>2. CASE BootstrapGrant(w)
  <2>1. PICK q, g : /\ at[w] \in {"grantRead", "grantWrite", "grantBlob"}
                    /\ q = IF at[w] = "grantBlob" THEN job[w].blob ELSE job[w].file
                    /\ g = Access(job[w].self, job[w].self, bootstrap[at[w]].action, q, scopeFull)
                    /\ putGrant(g)
    BY <1>c, <1>2 DEF BootstrapGrant, bootstrap
  <2>2. job[w] # None /\ job[w].op = "create"
    BY <1>0, <2>1 DEF HandlerPlace, Place
  <2>3. g.resource = q /\ g.grantor = job[w].self /\ q \in Resources
    BY <1>0, <2>1, <2>2, JobIs, Consts DEF Access, Past
  <2>4. q = r /\ owners'[r] = job[w].self
    BY <1>p, <2>1, <2>3
  <2>5. at[w] = "grantRead"
    <3>1. at[w] # "grantBlob"
      BY <2>1, <2>2, <2>4, HandlerFacts DEF Pending
    <3>2. at[w] # "grantWrite"
      <4>1. SUFFICES ASSUME at[w] = "grantWrite" PROVE FALSE
        OBVIOUS
      <4>2. owners[job[w].file] = job[w].self
        BY <2>2, <4>1 DEF OwningInv, OwningOf, Unborn
      <4> QED BY <2>1, <2>2, <2>4, <4>1, <4>2, HandlerFacts, Consts
    <3> QED BY <2>1, <3>1, <3>2
  <2> QED BY <2>1, <2>2, <2>4, <2>5 DEF Founds, Runs
<1>3. CASE GrantOwner(w)
  <2>1. PICK g : /\ g = Access(fo[w].Owner, fo[w].Owner, storageRetrieveBlobAction, job[w].blob, scopeFull)
                 /\ at[w] = "granting" /\ putGrant(g)
    BY <1>c, <1>3 DEF GrantOwner
  <2>2. g.resource = job[w].blob /\ Pending(w) /\ job[w] # None
    BY <1>0, <2>1 DEF HandlerPlace, Place, Access, Pending
  <2>3. owners[job[w].blob] # None /\ job[w].blob \in Resources
    BY <2>2, HandlerFacts, Consts
  <2> QED BY <1>p, <2>1, <2>2, <2>3
<1>4. CASE MirrorReaders(w)
  <2>1. PICK h, g : /\ g = Access(fo[w].Owner, h.subject, storageRetrieveBlobAction, job[w].blob, h.scope)
                    /\ Runs(w, "version") /\ at[w] = "mirroring" /\ putGrant(g)
    BY <1>c, <1>4 DEF MirrorReaders, LoopStep
  <2>2. g.resource = job[w].blob /\ Pending(w) /\ job[w] # None
    BY <2>1 DEF Access, Pending, Runs
  <2>3. owners[job[w].blob] # None /\ job[w].blob \in Resources
    BY <2>2, HandlerFacts, Consts
  <2> QED BY <1>p, <2>1, <2>2, <2>3
<1>5. CASE ChangeAccess(w)
  <2>1. PICK c, f : /\ c = job[w].change /\ f = job[w].file /\ at[w] = "changing"
                    /\ \E result : IF c.Grant THEN GrantPermission(Access(job[w].self, c.Subject, c.Action, f, c.Scope), result)
                                              ELSE RevokePermission(job[w].self, c.Subject, c.Action, f, result)
    BY <1>5 DEF ChangeAccess
  <2>2. job[w] # None /\ job[w].op = "permissions"
    BY <1>0, <2>1 DEF HandlerPlace, Place
  <2>3. owners[f] # None /\ f \in Resources
    BY <2>1, <2>2, HandlerFacts, Consts
  <2>4. PICK g : g = Access(job[w].self, c.Subject, c.Action, f, c.Scope)
    OBVIOUS
  <2>5. g.resource = f /\ putGrant(g)
    BY <1>c, <1>v, <2>1, <2>4 DEF Access
  <2> QED BY <1>p, <2>3, <2>5
<1>6. CASE MirrorVersions(w)
  <2>1. PICK c, b, result : /\ c = job[w].change /\ b = Oldest(todo[w]) /\ Runs(w, "permissions") /\ todo[w] # {}
                            /\ IF c.Grant
                               THEN GrantPermission(Access(fo[w].Owner, c.Subject, storageRetrieveBlobAction, b, c.Scope), result)
                               ELSE RevokePermission(fo[w].Owner, c.Subject, storageRetrieveBlobAction, b, result)
    BY <1>6 DEF MirrorVersions
  <2>2. todo[w] \subseteq Blobs /\ todo[w] \subseteq versions[job[w].file] /\ job[w] # None /\ job[w].op = "permissions"
    BY <1>0, <2>1 DEF HandlerType, OwningInv, OwningOf, Runs
  <2>3. b \in Blobs /\ b \in versions[job[w].file]
    BY <2>1, <2>2, OldestIs
  <2>4. owners[b] # None /\ b \in Resources
    <3>1. owners[b] = records[job[w].file].Owner
      BY <2>2, <2>3, HandlerFacts DEF OwnedInv
    <3> QED BY <2>2, <2>3, <3>1, HandlerFacts, Consts
  <2>5. PICK g : g = Access(fo[w].Owner, c.Subject, storageRetrieveBlobAction, b, c.Scope)
    OBVIOUS
  <2>6. g.resource = b /\ putGrant(g)
    BY <1>c, <1>v, <2>1, <2>5 DEF Access
  <2> QED BY <1>p, <2>4, <2>6
<1>7. CASE RollBack(w)
  BY <1>u, <1>7 DEF RollBack
<1>8. CASE RevokeGrant(w)
  BY <1>v, <1>8 DEF RevokeGrant
<1> QED BY <1>u, <1>1, <1>2, <1>3, <1>4, <1>5, <1>6, <1>7, <1>8, WhoChanges DEF store

LEMMA RecordsOwner ==
    ASSUME Tables, Shape, HandlerInv, OwnedInv, OwningInv, NEW w \in Workers, Serving(w), NEW f \in Files
    PROVE  /\ records[f] # None => records'[f].Owner = records[f].Owner
           /\ records[f] = None /\ records'[f] # None =>
                 /\ Runs(w, "create") /\ f = job[w].file /\ at[w] = "creating" /\ PutCreated(w)
                 /\ at'[w] = "adding" /\ records'[f].Owner = job[w].self
<1>0. HandlerType(w) /\ HandlerPlace(w)
  BY DEF HandlerInv
<1>1. CASE records' = records
  BY <1>1
<1>2. CASE PutCreated(w) /\ records' # records
  <2>1. /\ at[w] = "creating" /\ at'[w] = "adding" /\ records' = [records EXCEPT ![job[w].file] =
              [Owner |-> job[w].self, CurrentVersionRef |-> job[w].blob, Deleted |-> FALSE]]
    BY <1>2, MovesIs DEF PutCreated
  <2>2. Runs(w, "create")
    BY <1>0, <2>1 DEF HandlerPlace, Place, Runs
  <2>3. records[job[w].file] = None /\ job[w].file \in Files
    BY <2>1, <2>2, HandlerFacts DEF OwningInv, OwningOf, Unborn, Runs
  <2> QED BY <1>2, <2>1, <2>2, <2>3 DEF Tables
<1>3. CASE PutFileObject(w) /\ records' # records
  <2>1. at[w] = "putting" /\ records' = [records EXCEPT ![job[w].file] = fo[w]]
    BY <1>3 DEF PutFileObject
  <2>2. job[w] # None /\ job[w].op # "create" /\ fo[w] # None
    BY <1>0, <2>1 DEF HandlerPlace, Place
  <2>3. fo[w].Owner = records[job[w].file].Owner /\ job[w].file \in Files /\ records[job[w].file] # None
    BY <2>2, HandlerFacts DEF OwnerOf
  <2> QED BY <2>1, <2>3 DEF Tables
<1> QED BY <1>1, <1>2, <1>3, WhoChanges

LEMMA OwnedStep ==
    ASSUME Tables, Shape, HandlerInv, OwnedInv, OwningInv, NEW w \in Workers, Serving(w)
    PROVE  OwnedInv'
<1>0. HandlerType(w) /\ HandlerPlace(w)
  BY DEF HandlerInv
<1>v. \A f \in Files : versions'[f] = versions[f] \/
         /\ AddVersion(w) /\ at[w] = "adding" /\ job[w] # None /\ f = job[w].file
         /\ versions'[f] = versions[f] \cup {job[w].blob}
  <2>1. CASE versions' = versions
    BY <2>1
  <2>2. CASE AddVersion(w)
    <3>1. at[w] = "adding" /\ versions' = [versions EXCEPT ![job[w].file] = @ \cup {job[w].blob}]
      BY <2>2 DEF AddVersion
    <3>2. job[w] # None
      BY <1>0, <3>1 DEF HandlerPlace
    <3> QED BY <2>2, <3>1, <3>2 DEF Tables
  <2> QED BY <2>1, <2>2, WhoChanges
<1>p. at[w] = "adding" /\ job[w] # None => /\ Pending(w) /\ records[job[w].file] # None
                                           /\ owners[job[w].blob] = records[job[w].file].Owner
  BY <1>0, HandlerFacts DEF Pending, HandlerPlace, Place
<1>1. ASSUME NEW f \in Files, records'[f] = None PROVE versions'[f] = {}
  <2>1. records[f] = None
    BY <1>1, RecordsStep
  <2>2. versions[f] = {}
    BY <2>1 DEF OwnedInv
  <2> QED BY <1>v, <1>p, <2>1, <2>2
<1>2. ASSUME NEW f \in Files, records'[f] # None
      PROVE  owners'[f] = records'[f].Owner /\ \A b \in versions'[f] : owners'[b] = records'[f].Owner
  <2>1. CASE records[f] # None
    <3>1. records'[f].Owner = records[f].Owner /\ records[f] \in FileObjectRecord
      BY <2>1, RecordsOwner DEF Tables
    <3>2. records[f].Owner \in Subjects /\ records[f].Owner # None
      BY <3>1, Consts DEF FileObjectRecord
    <3>3. owners[f] = records[f].Owner /\ \A b \in versions[f] : owners[b] = records[f].Owner
      BY <2>1 DEF OwnedInv
    <3>4. \A b \in versions'[f] : owners[b] = records[f].Owner /\ b \in Resources
      <4>1. versions'[f] \subseteq Blobs
        BY TablesStep DEF Tables
      <4> QED BY <1>v, <1>p, <3>3, <4>1, Consts
    <3> QED BY <3>1, <3>2, <3>3, <3>4, OwnersKept, Consts
  <2>2. CASE records[f] = None
    <3>1. /\ Runs(w, "create") /\ f = job[w].file /\ at[w] = "creating" /\ records'[f].Owner = job[w].self
      BY <1>2, <2>2, RecordsOwner
    <3>2. owners[f] = job[w].self /\ job[w].self # None
      BY <3>1, HandlerFacts, Consts DEF OwningInv, OwningOf, Unborn, Runs
    <3>3. owners'[f] = job[w].self
      BY <3>2, OwnersKept, Consts
    <3>4. versions'[f] = {}
      BY <1>v, <2>2, <3>1 DEF OwnedInv
    <3> QED BY <3>1, <3>3, <3>4
  <2> QED BY <2>1, <2>2
<1>3. ASSUME NEW b \in Blobs, blobs'[b] = "none" PROVE owners'[b] = None
  <2>1. blobs[b] = "none" /\ owners[b] = None /\ b \in Resources
    BY <1>3, BlobsStep, Consts DEF OwnedInv
  <2>2. SUFFICES ASSUME Founds(w, b) PROVE FALSE
    BY <2>1, NewOwner
  <2>3. CASE Store(w) /\ ~Ends(w) /\ b = Oldest(UnusedBlobs)
    <3>1. blobs' = [blobs EXCEPT ![b] = "stored"]
      BY <2>3 DEF Store, StoreBlob
    <3> QED BY <1>3, <3>1 DEF Tables
  <2>4. CASE Runs(w, "create") /\ b = job[w].file
    BY <2>4, HandlerFacts, Consts DEF Runs
  <2> QED BY <2>2, <2>3, <2>4 DEF Founds
<1> QED BY <1>1, <1>2, <1>3 DEF OwnedInv

\* The file of the request that w serves afterwards: the same, or one it was free to take.
LEMMA NewFile ==
    ASSUME Tables, Shape, HandlerInv, OwnedInv, OwningInv, NEW w \in Workers, Serving(w), job'[w] # None
    PROVE  \/ job[w] # None /\ job'[w].file = job[w].file /\ job'[w].op = job[w].op /\ job'[w].self = job[w].self
           \/ /\ job[w] = None /\ job'[w] \in Requests /\ Request(w, job'[w])
              /\ IF job'[w].op = "create" THEN Fresh(job'[w].file) ELSE records[job'[w].file] # None
<1> DEFINE Goal ==
        \/ job[w] # None /\ job'[w].file = job[w].file /\ job'[w].op = job[w].op /\ job'[w].self = job[w].self
        \/ /\ job[w] = None /\ job'[w] \in Requests /\ Request(w, job'[w])
           /\ IF job'[w].op = "create" THEN Fresh(job'[w].file) ELSE records[job'[w].file] # None
<1> SUFFICES Goal
  OBVIOUS
<1>0. HandlerType(w) /\ HandlerPlace(w)
  BY DEF HandlerInv
<1>1. ASSUME NEW r \in Requests, Request(w, r) PROVE Goal
  <2>1. job'[w] = r /\ at[w] = "idle" /\ (IF r.op = "create" THEN Fresh(r.file) ELSE records[r.file] # None)
    BY <1>1 DEF Request, Shape, Free
  <2>2. job[w] = None
    BY <1>0, <2>1 DEF HandlerPlace, Place
  <2> QED BY <1>1, <2>1, <2>2
<1>2. CASE job' = job
  BY <1>2
<1>3. CASE Store(w)
  <2>1. ~Ends(w)
    BY EndsIs DEF Ended
  <2>2. PICK b : job' = [job EXCEPT ![w].blob = b] /\ at[w] = "storing"
    BY <1>3, <2>1 DEF Store
  <2>3. job[w] # None
    BY <1>0, <2>2 DEF HandlerPlace
  <2>4. job'[w] = [job[w] EXCEPT !.blob = b] /\ job[w] \in Job
    BY <1>0, <2>2, <2>3, JobIs DEF Shape
  <2>5. job'[w].file = job[w].file /\ job'[w].op = job[w].op /\ job'[w].self = job[w].self
    BY <2>4 DEF Job
  <2> QED BY <2>3, <2>5
<1>e. ~Ends(w)
  BY EndsIs DEF Ended
<1> HIDE DEF Goal
<1>4. CASE Lock(w) \/ BootstrapGrant(w) \/ PutCreated(w) \/ CheckWrite(w) \/ ReadFileObject(w) \/ List(w)
  BY <1>2, <1>4, <1>e DEF Lock, BootstrapGrant, PutCreated, CheckWrite, ReadFileObject, List
<1>5. CASE RollBack(w) \/ Discard(w) \/ Panic(w) \/ AddEvent(w)
  BY <1>5, <1>e DEF RollBack, Discard, Panic, AddEvent, Fails
<1>6. CASE GrantOwner(w) \/ ReadersMirrored(w) \/ VersionsMirrored(w) \/ GrantsRevoked(w) \/ AddVersion(w)
  BY <1>2, <1>6 DEF GrantOwner, ReadersMirrored, VersionsMirrored, GrantsRevoked, AddVersion
<1>7. CASE MirrorReaders(w) \/ MirrorVersions(w) \/ EraseBlob(w) \/ RevokeGrant(w)
  BY <1>2, <1>7 DEF MirrorReaders, MirrorVersions, EraseBlob, RevokeGrant, LoopStep
<1>8. CASE ChangeAccess(w) \/ BlobsErased(w) \/ PutFileObject(w)
  BY <1>2, <1>8, <1>e DEF ChangeAccess, BlobsErased, PutFileObject, Fails
<1> QED BY <1>1, <1>3, <1>4, <1>5, <1>6, <1>7, <1>8 DEF Serving, Serve

LEMMA OtherOwning ==
    ASSUME Tables, Shape, HandlerInv, OwnedInv, OwningInv, NEW w \in Workers, Serving(w), NEW u \in Workers \ {w}
    PROVE  OwningOf(u)'
<1>1. Same(u)
  BY Frame DEF Others
<1>2. OwningOf(u) /\ HandlerType(u) /\ HandlerPlace(u)
  BY DEF OwningOf, OwningInv, HandlerInv
<1>3. job'[w] # None => \/ job[w] # None /\ job'[w].file = job[w].file
                        \/ IF job'[w].op = "create" THEN Fresh(job'[w].file) ELSE records[job'[w].file] # None
  BY NewFile
<1>4. ASSUME job[u] # None PROVE job[u].file \in Files /\ job[u].file \in Resources /\ job[u].self # None
  <2>1. job[u].file \in Files /\ job[u].self \in Subjects
    BY <1>2, <1>4, JobIs
  <2> QED BY <2>1, Consts
<1>5. Unborn(u)' =>
          /\ records'[job'[u].file] = None
          /\ \A v \in Workers \ {u} : job'[v] # None => job'[v].file # job'[u].file
          /\ owners'[job'[u].file] = IF at'[u] \in {"storing", "grantRead"} THEN None ELSE job'[u].self
  <2>1. SUFFICES ASSUME Unborn(u)
                 PROVE  /\ records'[job[u].file] = None
                        /\ \A v \in Workers \ {u} : job'[v] # None => job'[v].file # job[u].file
                        /\ owners'[job[u].file] = IF at[u] \in {"storing", "grantRead"} THEN None ELSE job[u].self
    BY <1>1 DEF Unborn, Same
  <2>2. /\ job[u] # None /\ records[job[u].file] = None
        /\ \A v \in Workers \ {u} : job[v] # None => job[v].file # job[u].file
        /\ owners[job[u].file] = IF at[u] \in {"storing", "grantRead"} THEN None ELSE job[u].self
    BY <1>2, <2>1 DEF OwningOf, Unborn
  <2>3. records'[job[u].file] = None
    <3>1. SUFFICES ASSUME records'[job[u].file] # None PROVE FALSE
      OBVIOUS
    <3>2. Runs(w, "create") /\ job[u].file = job[w].file
      BY <1>4, <2>2, <3>1, RecordsOwner
    <3> QED BY <2>2, <3>2 DEF Runs
  <2>4. ASSUME NEW v \in Workers \ {u}, job'[v] # None PROVE job'[v].file # job[u].file
    <3>1. CASE v # w
      BY <2>2, <2>4, <3>1, Frame DEF Others, Same
    <3>2. CASE v = w
      <4>1. CASE job[w] # None /\ job'[w].file = job[w].file
        BY <2>2, <3>2, <4>1
      <4>2. CASE job'[w].op = "create" /\ Fresh(job'[w].file)
        BY <2>2, <3>2, <4>2 DEF Fresh
      <4>3. CASE records[job'[w].file] # None
        BY <2>2, <3>2, <4>3
      <4> QED BY <1>3, <2>4, <3>2, <4>1, <4>2, <4>3
    <3> QED BY <3>1, <3>2
  <2>5. CASE at[u] \in {"storing", "grantRead"}
    <3>1. owners[job[u].file] = None
      BY <2>2, <2>5
    <3>2. SUFFICES ASSUME Founds(w, job[u].file) PROVE FALSE
      BY <1>4, <2>2, <2>3, <2>4, <2>5, <3>1, NewOwner
    <3>3. CASE Store(w) /\ ~Ends(w) /\ job[u].file = Oldest(UnusedBlobs)
      <4>1. UnusedBlobs # {}
        BY <3>3 DEF Store
      <4>2. job[u].file \in UnusedBlobs
        BY <3>3, <4>1, OldestIs, Consts DEF UnusedBlobs
      <4>3. job[u].file \in Blobs /\ job[u].file \in Files
        BY <1>4, <2>2, <4>2 DEF UnusedBlobs
      <4> QED BY <4>3, Consts
    <3>4. CASE Runs(w, "create") /\ job[u].file = job[w].file
      BY <2>2, <3>4 DEF Runs
    <3> QED BY <3>2, <3>3, <3>4 DEF Founds
  <2>6. CASE at[u] \notin {"storing", "grantRead"}
    BY <1>4, <2>2, <2>3, <2>4, <2>6, OwnersKept
  <2> QED BY <2>5, <2>6
<1>6. Pending(u)' => owners'[job'[u].blob] = OwnerOf(u)' /\ blobs'[job'[u].blob] # "none"
  <2>1. SUFFICES ASSUME Pending(u)
                 PROVE  owners'[job[u].blob] = OwnerOf(u) /\ blobs'[job[u].blob] # "none"
    BY <1>1 DEF Pending, Same, OwnerOf
  <2>2. /\ job[u].blob \in Blobs /\ owners[job[u].blob] = OwnerOf(u) /\ owners[job[u].blob] # None
        /\ blobs[job[u].blob] # "none"
    BY <1>2, <2>1, HandlerFacts DEF OwningOf, Pending
  <2> QED BY <2>2, OwnersKept, BlobsStep, Consts
<1>7. job'[u] # None /\ (fo'[u] # None \/ at'[u] = "adding") => OwnerOf(u)' = records'[job'[u].file].Owner
  <2>1. SUFFICES ASSUME job[u] # None, fo[u] # None \/ at[u] = "adding"
                 PROVE  OwnerOf(u) = records'[job[u].file].Owner
    BY <1>1 DEF Same, OwnerOf
  <2>2. OwnerOf(u) = records[job[u].file].Owner /\ records[job[u].file] # None
    BY <1>2, <2>1 DEF OwningOf, HandlerPlace
  <2> QED BY <1>4, <2>1, <2>2, RecordsOwner
<1>8. Runs(u, "permissions")' => todo'[u] \subseteq versions'[job'[u].file]
  BY <1>1, <1>2, <1>4, TablesStep DEF OwningOf, Same, Runs
<1> QED BY <1>5, <1>6, <1>7, <1>8 DEF OwningOf

\* What a step of w does to the place it is at and to the record it holds.
LEMMA Passes ==
    ASSUME Tables, Shape, HandlerInv, NEW w \in Workers, Serving(w), job[w] # None, job'[w] # None
    PROVE  /\ Pending(w)' => Pending(w) \/ Store(w)
           /\ Unborn(w)' => Unborn(w)
           /\ Unborn(w)' /\ at'[w] \in {"storing", "grantRead"} => at'[w] = at[w] \/ Store(w)
           /\ Unborn(w)' /\ at'[w] = "grantWrite" => at[w] = "grantRead" /\ BootstrapGrant(w)
           /\ at'[w] = "adding" /\ job[w].op = "create" => records'[job[w].file].Owner = job[w].self
           /\ \/ fo'[w] = fo[w]
              \/ fo[w] # None /\ fo'[w] # None /\ fo'[w].Owner = fo[w].Owner
              \/ ReadFileObject(w) /\ job[w].op # "create" /\ fo'[w] = records[job[w].file]
           /\ todo'[w] \subseteq todo[w] \/ List(w) \/ ~Runs(w, "permissions")
<1> DEFINE Goal ==
           /\ Pending(w)' => Pending(w) \/ Store(w)
           /\ Unborn(w)' => Unborn(w)
           /\ Unborn(w)' /\ at'[w] \in {"storing", "grantRead"} => at'[w] = at[w] \/ Store(w)
           /\ Unborn(w)' /\ at'[w] = "grantWrite" => at[w] = "grantRead" /\ BootstrapGrant(w)
           /\ at'[w] = "adding" /\ job[w].op = "create" => records'[job[w].file].Owner = job[w].self
           /\ \/ fo'[w] = fo[w]
              \/ fo[w] # None /\ fo'[w] # None /\ fo'[w].Owner = fo[w].Owner
              \/ ReadFileObject(w) /\ job[w].op # "create" /\ fo'[w] = records[job[w].file]
           /\ todo'[w] \subseteq todo[w] \/ List(w) \/ ~Runs(w, "permissions")
<1> SUFFICES Goal
  OBVIOUS
<1>0. HandlerType(w) /\ HandlerPlace(w) /\ Place(job[w].op, at[w]) /\ job[w].file \in Files
  BY JobIs DEF HandlerInv
<1>e. ~Ends(w)
  BY EndsIs DEF Ended
<1>m. ASSUME NEW a, NEW b, Moves(w, a, b) PROVE at[w] = a /\ at'[w] = b
  BY <1>m, MovesIs
<1>1. CASE \E r \in Requests : Request(w, r)
  BY <1>0, <1>1, MovesIs DEF Request, Place
<1>2. CASE Lock(w)
  <2>1. /\ at[w] = "locking" /\ at'[w] = CASE job[w].op = "version" -> "storing"
                                           [] job[w].op = "permissions" -> "changing"
                                           [] job[w].op = "delete" -> "listing"
        /\ UNCHANGED <<job, fo, todo>>
    <3>1. PICK b : /\ b = CASE job[w].op = "version" -> "storing"
                            [] job[w].op = "permissions" -> "changing"
                            [] job[w].op = "delete" -> "listing"
                   /\ Moves(w, "locking", b) /\ UNCHANGED <<job, fo, todo>>
      BY <1>2 DEF Lock
    <3>2. at[w] = "locking" /\ at'[w] = b
      BY <1>m, <3>1
    <3> QED BY <3>1, <3>2
  <2>2. \/ job[w].op = "version" /\ at'[w] = "storing"
        \/ job[w].op = "permissions" /\ at'[w] = "changing"
        \/ job[w].op = "delete" /\ at'[w] = "listing"
    BY <1>0, <2>1 DEF Place
  <2> QED BY <2>1, <2>2 DEF Pending, Unborn
<1>3. CASE Store(w)
  <2>1. /\ at[w] = "storing" /\ UNCHANGED <<fo, todo>> /\ at'[w] \in {"grantRead", "granting"}
    BY <1>3, <1>e, MovesIs DEF Store
  <2>2. job'[w].op = job[w].op
    <3>1. PICK b : job' = [job EXCEPT ![w].blob = b]
      BY <1>3, <1>e DEF Store
    <3>2. job[w] \in Job /\ job'[w] = [job[w] EXCEPT !.blob = b]
      BY <1>0, <3>1, JobIs DEF Shape
    <3> QED BY <3>2 DEF Job
  <2> QED BY <1>3, <2>1, <2>2 DEF Pending, Unborn
<1>4. CASE BootstrapGrant(w)
  <2>1. /\ at[w] \in {"grantRead", "grantWrite", "grantBlob"} /\ UNCHANGED <<job, fo>>
        /\ at'[w] \in {bootstrap[at[w]].next, "rollback"}
    BY <1>4, MovesIs DEF BootstrapGrant, bootstrap
  <2>2. job[w].op = "create"
    BY <1>0, <2>1 DEF Place
  <2> QED BY <1>4, <2>1, <2>2 DEF Pending, Unborn, bootstrap, Runs
<1>5. CASE RollBack(w) \/ Discard(w) \/ Panic(w) \/ AddEvent(w)
  BY <1>5, <1>e DEF RollBack, Discard, Panic, AddEvent, Fails
<1>6. CASE PutCreated(w)
  <2>1. /\ at[w] = "creating" /\ at'[w] \in {"adding", "rollback"} /\ UNCHANGED <<job, fo, todo>>
        /\ at'[w] = "adding" => records' = [records EXCEPT ![job[w].file] =
              [Owner |-> job[w].self, CurrentVersionRef |-> job[w].blob, Deleted |-> FALSE]]
    BY <1>6, MovesIs DEF PutCreated
  <2>2. at'[w] = "adding" => records'[job[w].file].Owner = job[w].self
    BY <1>0, <2>1 DEF Tables
  <2>3. Pending(w)' => Pending(w)
    BY <1>0, <2>1 DEF Pending, Place
  <2>4. ~Unborn(w)'
    BY <2>1 DEF Unborn
  <2> QED BY <2>1, <2>2, <2>3, <2>4
<1>7. CASE CheckWrite(w)
  BY <1>7, <1>e, <1>m DEF CheckWrite, Pending, Unborn
<1>8. CASE ReadFileObject(w)
  <2>1. /\ at[w] = "reading" /\ at'[w] \in {"putting", "locking"} /\ UNCHANGED <<job, todo>>
        /\ fo'[w] = records[job[w].file]
    BY <1>8, <1>e, <1>m DEF ReadFileObject, Shape
  <2>2. job[w].op # "create"
    BY <1>0, <2>1 DEF Place
  <2> QED BY <1>8, <2>1, <2>2 DEF Pending, Unborn
<1>9. CASE List(w)
  <2>1. at[w] = "listing" /\ at'[w] \in {"erasing", "mirroring"} /\ UNCHANGED <<job, fo>>
    BY <1>9, <1>m DEF List
  <2>2. job[w].op # "create"
    BY <1>0, <2>1 DEF Place
  <2> QED BY <1>9, <2>1, <2>2 DEF Pending, Unborn
<1>10. CASE GrantOwner(w)
  BY <1>10, <1>m DEF GrantOwner, Pending, Unborn
<1>11. ASSUME NEW a \in {"mirroring", "erasing", "revoking"}, NEW i, NEW r, LoopStep(w, a, i, r) PROVE Goal
  <2>1. UNCHANGED <<job, at, fo>> /\ todo'[w] \subseteq todo[w] /\ a = at[w]
    BY <1>11 DEF LoopStep, Shape
  <2>2. Pending(w)' = Pending(w) /\ Unborn(w)' = Unborn(w)
    BY <2>1 DEF Pending, Unborn
  <2>3. ~Unborn(w)
    BY <2>1 DEF Unborn
  <2> QED BY <2>1, <2>2, <2>3
<1>12. CASE ReadersMirrored(w) \/ VersionsMirrored(w)
  <2>1. /\ at[w] = "mirroring" /\ at'[w] \in {"adding", "putting"} /\ UNCHANGED <<job, fo, todo>>
    BY <1>12, <1>m DEF ReadersMirrored, VersionsMirrored
  <2>2. job[w].op # "create" /\ (at'[w] = "adding" => job[w].op = "version")
    BY <1>0, <1>12, <1>m, <2>1 DEF Place, ReadersMirrored, VersionsMirrored, Runs
  <2> QED BY <2>1, <2>2 DEF Pending, Unborn
<1>13. CASE AddVersion(w)
  <2>1. /\ at[w] = "adding" /\ at'[w] \in {"logging", "putting"} /\ UNCHANGED <<job, todo>>
        /\ fo' = fo \/ (fo' = [fo EXCEPT ![w].CurrentVersionRef = job[w].blob] /\ job[w].op # "create")
    BY <1>13, <1>m DEF AddVersion
  <2>2. fo'[w] = fo[w] \/ (fo[w] # None /\ fo'[w] # None /\ fo'[w].Owner = fo[w].Owner)
    <3>1. SUFFICES ASSUME fo' = [fo EXCEPT ![w].CurrentVersionRef = job[w].blob], job[w].op # "create"
                   PROVE  fo[w] # None /\ fo'[w] # None /\ fo'[w].Owner = fo[w].Owner
      BY <2>1
    <3>2. fo[w] \in FileObjectRecord /\ job[w].blob \in Blobs
      <4>1. at[w] = "adding" /\ job[w].op = "version"
        BY <1>0, <2>1, <3>1 DEF Place
      <4>2. Past(job[w].op, at[w])
        BY <4>1 DEF Past
      <4> QED BY <1>0, <4>1, <4>2, JobIs
    <3>3. fo'[w] = [fo[w] EXCEPT !.CurrentVersionRef = job[w].blob]
      BY <3>1 DEF Shape
    <3> QED BY <3>2, <3>3, Consts DEF FileObjectRecord
  <2>3. ~Pending(w)' /\ ~Unborn(w)' /\ at'[w] # "adding"
    BY <2>1 DEF Pending, Unborn
  <2>4. todo'[w] = todo[w]
    BY <2>1
  <2> QED BY <2>2, <2>3, <2>4
<1>14. CASE ChangeAccess(w)
  <2>1. at[w] = "changing" /\ at'[w] \in {"listing", "putting"} /\ UNCHANGED <<job, fo, todo>>
    BY <1>14, <1>e, <1>m DEF ChangeAccess, Fails
  <2>2. job[w].op = "permissions"
    BY <1>0, <2>1 DEF Place
  <2> QED BY <2>1, <2>2 DEF Pending, Unborn
<1>15. CASE BlobsErased(w)
  <2>1. at[w] = "erasing" /\ at'[w] = "revoking" /\ UNCHANGED <<job, fo>>
    BY <1>15, <1>e, <1>m DEF BlobsErased, Fails
  <2>2. job[w].op = "delete"
    BY <1>0, <2>1 DEF Place
  <2> QED BY <2>1, <2>2 DEF Pending, Unborn, Runs
<1>16. CASE GrantsRevoked(w)
  <2>1. at[w] = "revoking" /\ at'[w] = "putting" /\ UNCHANGED <<job, todo>> /\ fo' = [fo EXCEPT ![w].Deleted = TRUE]
    BY <1>16, <1>m DEF GrantsRevoked
  <2>2. fo[w] # None /\ fo'[w] # None /\ fo'[w].Owner = fo[w].Owner
    <3>1. fo[w] \in FileObjectRecord
      BY <1>0, <2>1, JobIs DEF Place
    <3>2. fo'[w] = [fo[w] EXCEPT !.Deleted = TRUE]
      BY <2>1 DEF Shape
    <3>3. fo'[w] \in FileObjectRecord /\ fo'[w].Owner = fo[w].Owner
      BY <3>1, <3>2 DEF FileObjectRecord
    <3>4. None \notin FileObjectRecord
      BY Consts
    <3> QED BY <3>1, <3>3, <3>4
  <2> QED BY <2>1, <2>2 DEF Pending, Unborn
<1>17. CASE PutFileObject(w)
  <2>1. at[w] = "putting" /\ at'[w] = "logging" /\ UNCHANGED <<job, fo, todo>>
    BY <1>17, <1>e, <1>m DEF PutFileObject, Fails
  <2> QED BY <2>1 DEF Pending, Unborn
<1>18. CASE MirrorReaders(w) \/ MirrorVersions(w) \/ EraseBlob(w) \/ RevokeGrant(w)
  BY <1>11, <1>18 DEF MirrorReaders, MirrorVersions, EraseBlob, RevokeGrant
<1> HIDE DEF Goal
<1> QED BY <1>1, <1>2, <1>3, <1>4, <1>5, <1>6, <1>7, <1>8, <1>9, <1>10, <1>12, <1>13, <1>14, <1>15,
           <1>16, <1>17, <1>18 DEF Serving, Serve

LEMMA StartedOwning ==
    ASSUME Tables, Shape, HandlerInv, OwnedInv, OwningInv, NEW w \in Workers, NEW r \in Requests, Request(w, r)
    PROVE  OwningOf(w)'
<1>0. HandlerType(w) /\ HandlerPlace(w)
  BY DEF HandlerInv
<1>1. /\ job'[w] = r /\ at[w] = "idle" /\ at'[w] = FirstStep[r.op] /\ UNCHANGED <<store, records, versions, fo, todo>>
      /\ r.op = "create" => Fresh(r.file)
  BY MovesIs DEF Request, Shape
<1>2. job[w] = None
  BY <1>0, <1>1 DEF HandlerPlace, Place
<1>3. fo'[w] = None /\ todo'[w] = {}
  BY <1>0, <1>1, <1>2 DEF HandlerPlace
<1>4. r \in Job /\ r.op \in Ops
  BY Consts DEF Job
<1>5. /\ at'[w] \in {"storing", "checking", "reading"}
      /\ at'[w] = "storing" => r.op = "create"
  BY <1>1, <1>4 DEF FirstStep, Ops
<1>6. ~Pending(w)'
  BY <1>1, <1>5 DEF Pending
<1>7. Unborn(w)' => /\ records'[job'[w].file] = None
                    /\ \A u \in Workers \ {w} : job'[u] # None => job'[u].file # job'[w].file
                    /\ owners'[job'[w].file] = IF at'[w] \in {"storing", "grantRead"} THEN None ELSE job'[w].self
  <2>1. SUFFICES ASSUME r.op = "create", at'[w] = "storing"
                 PROVE  /\ records[r.file] = None /\ owners[r.file] = None
                        /\ \A u \in Workers \ {w} : job'[u] # None => job'[u].file # r.file
    BY <1>1, <1>5 DEF Unborn, store
  <2>2. \A u \in Workers \ {w} : job'[u] = job[u]
    BY Frame DEF Others, Same, Serving
  <2> QED BY <1>1, <2>1, <2>2 DEF Fresh
<1> QED BY <1>1, <1>3, <1>5, <1>6, <1>7 DEF OwningOf

LEMMA OwnOwning ==
    ASSUME Tables, Shape, HandlerInv, OwnedInv, OwningInv, NEW w \in Workers, Serving(w)
    PROVE  OwningOf(w)'
<1>0. HandlerType(w) /\ HandlerPlace(w) /\ OwningOf(w)
  BY DEF HandlerInv, OwningInv
<1>a. CASE job'[w] = None
  BY <1>a DEF OwningOf, Unborn, Pending, Runs
<1>b. CASE \E r \in Requests : Request(w, r)
  BY <1>b, StartedOwning
<1>c. CASE job'[w] # None /\ ~(\E r \in Requests : Request(w, r))
  <2>1. /\ job[w] # None /\ job'[w].file = job[w].file /\ job'[w].op = job[w].op /\ job'[w].self = job[w].self
    BY <1>c, NewFile
  <2>2. /\ job[w].file \in Files /\ job[w].file \in Resources /\ job[w].self # None
        /\ job[w].self \in Subjects /\ job[w] \in Job
    BY <1>0, <2>1, JobIs, Consts
  <2>3. /\ Pending(w)' => Pending(w) \/ Store(w)
        /\ Unborn(w)' => Unborn(w)
        /\ Unborn(w)' /\ at'[w] \in {"storing", "grantRead"} => at'[w] = at[w] \/ Store(w)
        /\ Unborn(w)' /\ at'[w] = "grantWrite" => at[w] = "grantRead" /\ BootstrapGrant(w)
        /\ at'[w] = "adding" /\ job[w].op = "create" => records'[job[w].file].Owner = job[w].self
        /\ \/ fo'[w] = fo[w]
           \/ fo[w] # None /\ fo'[w] # None /\ fo'[w].Owner = fo[w].Owner
           \/ ReadFileObject(w) /\ job[w].op # "create" /\ fo'[w] = records[job[w].file]
        /\ todo'[w] \subseteq todo[w] \/ List(w) \/ ~Runs(w, "permissions")
    BY <1>c, <2>1, Passes
  <2>e. ~Ends(w)
    BY <1>c, EndsIs DEF Ended
  <2>s. Store(w) => /\ at[w] = "storing" /\ UnusedBlobs # {} /\ UNCHANGED <<fo, records, todo>>
                    /\ StoreBlob(Oldest(UnusedBlobs), OwnerOf(w))
                    /\ job'[w].blob = Oldest(UnusedBlobs)
    <3>1. SUFFICES ASSUME Store(w) PROVE job'[w].blob = Oldest(UnusedBlobs)
      BY <2>e DEF Store, OwnerOf, tables
    <3>2. PICK b : b = Oldest(UnusedBlobs)
      OBVIOUS
    <3>3. job' = [job EXCEPT ![w].blob = b]
      BY <2>e, <3>1, <3>2 DEF Store
    <3>4. job'[w] = [job[w] EXCEPT !.blob = b]
      BY <3>3 DEF Shape
    <3> QED BY <2>2, <3>2, <3>4 DEF Job
  <2>b. Store(w) => /\ Oldest(UnusedBlobs) \in Blobs /\ owners[Oldest(UnusedBlobs)] = None
    BY <2>s, OldestIs DEF UnusedBlobs, OwnedInv
  <2>4. ASSUME Unborn(w)' PROVE /\ records'[job'[w].file] = None
                                /\ \A u \in Workers \ {w} : job'[u] # None => job'[u].file # job'[w].file
                                /\ owners'[job'[w].file] = IF at'[w] \in {"storing", "grantRead"} THEN None ELSE job'[w].self
    <3>1. Unborn(w)
      BY <2>3, <2>4
    <3>2. /\ records[job[w].file] = None
          /\ \A u \in Workers \ {w} : job[u] # None => job[u].file # job[w].file
          /\ owners[job[w].file] = IF at[w] \in {"storing", "grantRead"} THEN None ELSE job[w].self
      BY <1>0, <3>1 DEF OwningOf
    <3>3. records'[job[w].file] = None
      <4>1. at'[w] # "adding"
        BY <2>4 DEF Unborn
      <4> QED BY <2>2, <3>2, <4>1, RecordsOwner
    <3>4. \A u \in Workers \ {w} : job'[u] = job[u]
      BY Frame DEF Others, Same
    <3>5. owners'[job[w].file] = IF at'[w] \in {"storing", "grantRead"} THEN None ELSE job[w].self
      <4>1. CASE at'[w] \in {"storing", "grantRead"}
        <5>1. owners[job[w].file] = None
          BY <2>3, <2>4, <2>s, <3>2, <4>1
        <5>2. SUFFICES ASSUME Founds(w, job[w].file) PROVE FALSE
          BY <2>2, <4>1, <5>1, NewOwner
        <5>3. CASE Store(w) /\ job[w].file = Oldest(UnusedBlobs)
          BY <2>2, <2>b, <5>3, Consts
        <5>4. CASE at[w] = "grantRead" /\ Runs(w, "create")
          <6>1. at'[w] = "grantRead"
            BY <2>3, <2>4, <2>s, <4>1, <5>4
          <6>2. ~Store(w) /\ ~BootstrapGrant(w)
            BY <2>s, <5>4, <6>1, MovesIs DEF BootstrapGrant, bootstrap
          <6>3. owners' = owners
            <7>1. ~(RollBack(w) \/ GrantOwner(w) \/ MirrorReaders(w) \/ ChangeAccess(w) \/ MirrorVersions(w) \/ RevokeGrant(w))
              BY <2>e, <5>4 DEF RollBack, GrantOwner, MirrorReaders, ChangeAccess, MirrorVersions, RevokeGrant, Moves, LoopStep
            <7> QED BY <6>2, <7>1, WhoChanges DEF store
          <6> QED BY <2>2, <5>1, <5>2, <5>4, <6>2, <6>3 DEF Founds
        <5> QED BY <5>2, <5>3, <5>4 DEF Founds
      <4>2. CASE at'[w] = "grantWrite"
        <5>1. at[w] = "grantRead" /\ BootstrapGrant(w) /\ owners[job[w].file] = None
          BY <2>3, <2>4, <3>2, <4>2
        <5>2. PICK g : /\ g = Access(job[w].self, job[w].self, ActionRead, job[w].file, scopeFull)
                       /\ putGrant(g)
          BY <4>2, <5>1, CallsIs, MovesIs DEF BootstrapGrant, bootstrap
        <5>3. g.resource = job[w].file /\ g.grantor = job[w].self
          BY <5>2 DEF Access
        <5> QED BY <2>2, <4>2, <5>1, <5>2, <5>3 DEF putGrant, Tables, GrantsTypeOK
      <4>3. CASE at'[w] \in {"grantBlob", "creating"}
        <5>1. at[w] \notin {"storing", "grantRead"}
          <6>1. SUFFICES ASSUME at[w] \in {"storing", "grantRead"} PROVE FALSE
            OBVIOUS
          <6>2. CASE Store(w)
            BY <2>1, <2>e, <3>1, <4>3, <6>2, MovesIs DEF Store, Unborn
          <6>3. CASE BootstrapGrant(w)
            BY <4>3, <6>1, <6>3, MovesIs DEF BootstrapGrant, bootstrap
          <6>4. at'[w] = at[w] \/ at'[w] \notin {"grantBlob", "creating"} \/ Store(w) \/ BootstrapGrant(w)
            BY <1>c, <2>e, <6>1, MovesIs DEF Serving, Serve, Lock, RollBack, PutCreated, CheckWrite, ReadFileObject,
               List, GrantOwner, Discard, MirrorReaders, ReadersMirrored, AddVersion, ChangeAccess, MirrorVersions,
               VersionsMirrored, EraseBlob, BlobsErased, RevokeGrant, GrantsRevoked, PutFileObject, AddEvent, Panic,
               Fails, LoopStep, Moves
          <6> QED BY <4>3, <6>1, <6>2, <6>3, <6>4
        <5>2. owners[job[w].file] = job[w].self
          BY <3>2, <5>1
        <5> QED BY <2>2, <4>3, <5>2, OwnersKept
      <4>4. at'[w] \in {"storing", "grantRead", "grantWrite", "grantBlob", "creating"}
        BY <2>4 DEF Unborn
      <4> QED BY <4>1, <4>2, <4>3, <4>4
    <3> QED BY <2>1, <3>2, <3>3, <3>4, <3>5
  <2>o. (fo[w] # None \/ job[w].op = "create") /\ ~ReadFileObject(w) => OwnerOf(w)' = OwnerOf(w)
    BY <2>1, <2>3 DEF OwnerOf
  <2>5. ASSUME Pending(w)' PROVE owners'[job'[w].blob] = OwnerOf(w)' /\ blobs'[job'[w].blob] # "none"
    <3>1. ~ReadFileObject(w) /\ (fo[w] # None \/ job[w].op = "create")
      <4>1. at'[w] \notin {"checking", "reading", "locking", "putting"}
        BY <2>5 DEF Pending
      <4>2. ~ReadFileObject(w)
        BY <2>e, <4>1, MovesIs DEF ReadFileObject
      <4>3. at[w] \notin {"checking", "reading"}
        BY <1>0, <2>3, <2>5, <2>s DEF Pending
      <4> QED BY <1>0, <2>1, <4>2, <4>3 DEF HandlerPlace
    <3>2. CASE Store(w)
      <4>1. PICK b, o : b = Oldest(UnusedBlobs) /\ o = OwnerOf(w)
        OBVIOUS
      <4>2. b \in Blobs /\ b \in Resources /\ owners[b] = None /\ StoreBlob(b, o) /\ job'[w].blob = b
        BY <2>s, <2>b, <3>2, <4>1, Consts
      <4>3. PICK g : g = Access(o, o, storageRetrieveBlobAction, b, scopeFull)
        OBVIOUS
      <4>4. g.resource = b /\ g.grantor = o /\ putGrant(g)
        BY <4>2, <4>3 DEF Access, StoreBlob
      <4>5. owners'[b] = o
        BY <4>2, <4>4 DEF putGrant, Tables, GrantsTypeOK
      <4>6. blobs'[b] = "stored"
        BY <4>2 DEF StoreBlob, Tables
      <4> QED BY <2>o, <3>1, <4>1, <4>2, <4>5, <4>6
    <3>3. CASE ~Store(w)
      <4>1. Pending(w)
        BY <2>3, <2>5, <3>3
      <4>2. /\ job[w].blob \in Blobs /\ owners[job[w].blob] = OwnerOf(w) /\ owners[job[w].blob] # None
            /\ blobs[job[w].blob] # "none" /\ job[w].blob \in Resources
        BY <1>0, <2>1, <4>1, HandlerFacts, Consts DEF OwningOf
      <4>3. job'[w] = job[w]
        BY <1>c, <2>e, <3>3 DEF Serving, Serve, Lock, RollBack, PutCreated, CheckWrite, ReadFileObject, BootstrapGrant,
               List, GrantOwner, Discard, MirrorReaders, ReadersMirrored, AddVersion, ChangeAccess, MirrorVersions,
               VersionsMirrored, EraseBlob, BlobsErased, RevokeGrant, GrantsRevoked, PutFileObject, AddEvent, Panic,
               Fails, LoopStep
      <4> QED BY <2>o, <3>1, <4>2, <4>3, OwnersKept, BlobsStep
    <3> QED BY <3>2, <3>3
  <2>6. ASSUME fo'[w] # None \/ at'[w] = "adding" PROVE OwnerOf(w)' = records'[job'[w].file].Owner
    <3>1. CASE ReadFileObject(w) /\ job[w].op # "create" /\ fo'[w] = records[job[w].file]
      <4>1. records' = records
        BY <3>1 DEF ReadFileObject, tables
      <4> QED BY <2>1, <3>1, <4>1 DEF OwnerOf
    <3>2. CASE fo[w] # None
      <4>1. fo'[w].Owner = fo[w].Owner \/ (ReadFileObject(w) /\ job[w].op # "create" /\ fo'[w] = records[job[w].file])
        BY <2>3
      <4>2. SUFFICES ASSUME fo'[w].Owner = fo[w].Owner PROVE OwnerOf(w)' = records'[job'[w].file].Owner
        BY <3>1, <4>1
      <4>3. OwnerOf(w)' = OwnerOf(w)
        BY <2>1, <4>2 DEF OwnerOf
      <4>4. job[w].op # "create"
        BY <1>0, <2>1, <3>2 DEF HandlerPlace
      <4>5. OwnerOf(w) = records[job[w].file].Owner /\ records[job[w].file] # None
        BY <2>1, <3>2, <4>4, HandlerFacts
      <4> QED BY <2>1, <2>2, <4>3, <4>5, RecordsOwner
    <3>3. CASE fo[w] = None /\ fo'[w] = fo[w]
      <4>1. at'[w] = "adding"
        BY <2>6, <3>3
      <4>2. job[w].op = "create"
        <5>1. SUFFICES ASSUME job[w].op # "create" PROVE FALSE
          OBVIOUS
        <5>2. HandlerPlace(w)'
          BY OwnHandler
        <5> QED BY <1>c, <2>1, <3>3, <4>1, <5>1, <5>2 DEF HandlerPlace
      <4>3. records'[job[w].file].Owner = job[w].self
        BY <2>3, <4>1, <4>2
      <4> QED BY <2>1, <4>2, <4>3 DEF OwnerOf
    <3> QED BY <2>3, <3>1, <3>2, <3>3
  <2>7. ASSUME Runs(w, "permissions")' PROVE todo'[w] \subseteq versions'[job'[w].file]
    <3>1. Runs(w, "permissions") /\ todo[w] \subseteq versions[job[w].file]
      BY <1>0, <2>1, <2>7 DEF Runs, OwningOf
    <3>2. versions[job[w].file] \subseteq versions'[job[w].file]
      BY <2>2, TablesStep
    <3>3. CASE List(w)
      <4>1. todo'[w] = WhatToList(w) \/ todo'[w] = {}
        BY <3>3 DEF List, Shape
      <4> QED BY <2>1, <3>1, <3>2, <4>1 DEF WhatToList, Runs
    <3> QED BY <2>1, <2>3, <3>1, <3>2, <3>3
  <2> QED BY <2>4, <2>5, <2>6, <2>7 DEF OwningOf
<1> QED BY <1>a, <1>b, <1>c

--------------------------------------------------------------------------------
(* What a deletion leaves.                                                  *)

LEMMA VersionsStep ==
    ASSUME Tables, Shape, HandlerInv, NEW w \in Workers, Serving(w), NEW f \in Files
    PROVE  \/ versions'[f] = versions[f]
           \/ /\ AddVersion(w) /\ at[w] = "adding" /\ job[w] # None /\ f = job[w].file /\ job[w].op \in {"create", "version"}
              /\ versions'[f] = versions[f] \cup {job[w].blob}
              /\ "buried" \in excuses[f] => job[w].blob \in late'
<1>1. CASE versions' = versions
  BY <1>1
<1>2. CASE AddVersion(w)
  <2>1. /\ at[w] = "adding" /\ versions' = [versions EXCEPT ![job[w].file] = @ \cup {job[w].blob}]
        /\ late' = IF "buried" \in excuses[job[w].file] THEN late \cup {job[w].blob} ELSE late
    BY <1>2 DEF AddVersion
  <2>2. job[w] # None /\ job[w].op \in {"create", "version"}
    BY <2>1 DEF HandlerInv, HandlerPlace, Place
  <2> QED BY <1>2, <2>1, <2>2 DEF Tables
<1> QED BY <1>1, <1>2, WhoChanges

LEMMA LateGrows ==
    ASSUME NEW w \in Workers, Serving(w) PROVE late \subseteq late'
<1>1. CASE AddVersion(w)
  BY <1>1 DEF AddVersion
<1> QED BY <1>1, WhoChanges

\* Only putting a deleted record buries a file.
LEMMA NewlyBuried ==
    ASSUME Tables, Shape, HandlerInv, NEW w \in Workers, Serving(w), NEW f \in Files,
           "buried" \in excuses'[f], "buried" \notin excuses[f]
    PROVE  /\ PutFileObject(w) /\ f = job[w].file /\ at[w] = "putting" /\ at'[w] = "logging"
           /\ job[w] # None /\ fo[w] # None /\ fo[w].Deleted /\ records' = [records EXCEPT ![f] = fo[w]]
<1> DEFINE Goal == /\ PutFileObject(w) /\ f = job[w].file /\ at[w] = "putting" /\ at'[w] = "logging"
                   /\ job[w] # None /\ fo[w] # None /\ fo[w].Deleted /\ records' = [records EXCEPT ![f] = fo[w]]
<1> SUFFICES Goal
  OBVIOUS
<1>0. HandlerType(w) /\ HandlerPlace(w)
  BY DEF HandlerInv
<1>1. ASSUME NEW es, Excused(w, es), "buried" \notin es PROVE FALSE
  BY <1>1 DEF Excused, Tables
<1>2. CASE PutFileObject(w)
  <2>1. ~Fails(w)
    <3>1. "buried" \notin {"cutShort"}
      OBVIOUS
    <3> QED BY <1>1, <3>1 DEF Fails
  <2>2. /\ at[w] = "putting" /\ at'[w] = "logging" /\ records' = [records EXCEPT ![job[w].file] = fo[w]]
        /\ Excused(w, IF fo[w].Deleted THEN {"buried"} ELSE {})
    BY <1>2, <2>1, MovesIs DEF PutFileObject
  <2>3. fo[w].Deleted
    BY <1>1, <2>2
  <2>4. f = job[w].file
    BY <2>2 DEF Excused, Tables
  <2>5. job[w] # None /\ fo[w] # None
    BY <1>0, <2>2 DEF HandlerPlace, Place
  <2> QED BY <1>2, <2>2, <2>3, <2>4, <2>5
<1>3. CASE List(w)
  <2>1. PICK es : Excused(w, es) /\ "buried" \notin es
    BY <1>3 DEF List
  <2> QED BY <1>1, <2>1
<1>4. CASE AddEvent(w)
  <2>1. PICK es : Excused(w, es) /\ "buried" \notin es
    BY <1>4 DEF AddEvent
  <2> QED BY <1>1, <2>1
<1>5. ASSUME Fails(w) PROVE FALSE
  <2>1. PICK es : Excused(w, es) /\ "buried" \notin es
    BY <1>5 DEF Fails
  <2> QED BY <1>1, <2>1
<1> HIDE DEF Goal
<1>6. CASE ChangeAccess(w) \/ BlobsErased(w) \/ Panic(w)
  BY <1>5, <1>6 DEF ChangeAccess, BlobsErased, Panic
<1>7. CASE (\E r \in Requests : Request(w, r)) \/ Lock(w) \/ Store(w) \/ BootstrapGrant(w) \/ RollBack(w) \/ PutCreated(w)
  BY <1>7 DEF Request, Lock, Store, BootstrapGrant, RollBack, PutCreated, history
<1>8. CASE CheckWrite(w) \/ ReadFileObject(w) \/ GrantOwner(w) \/ Discard(w) \/ ReadersMirrored(w)
  BY <1>8 DEF CheckWrite, ReadFileObject, GrantOwner, Discard, ReadersMirrored, history
<1>9. CASE MirrorReaders(w) \/ MirrorVersions(w) \/ EraseBlob(w) \/ RevokeGrant(w)
  BY <1>9 DEF MirrorReaders, MirrorVersions, EraseBlob, RevokeGrant, LoopStep, history
<1>10. CASE AddVersion(w) \/ VersionsMirrored(w) \/ GrantsRevoked(w)
  BY <1>10 DEF AddVersion, VersionsMirrored, GrantsRevoked, history
<1> QED BY <1>2, <1>3, <1>4, <1>6, <1>7, <1>8, <1>9, <1>10 DEF Serving, Serve

LEMMA BuriedStep ==
    ASSUME Tables, Shape, HandlerInv, OwnedInv, OwningInv, BuriedInv, BuryingInv, NEW w \in Workers, Serving(w)
    PROVE  BuriedInv'
<1> SUFFICES ASSUME NEW f \in Files
             PROVE  /\ records'[f] # None /\ records'[f].Deleted => "buried" \in excuses'[f]
                    /\ "delete" \in events'[f] => "buried" \in excuses'[f]
                    /\ "buried" \in excuses'[f] => records'[f] # None
                    /\ "buried" \in excuses'[f] /\ ~Excuse(f)' => \A b \in versions'[f] \ late' : blobs'[b] = "erased"
  BY DEF BuriedInv
<1>0. HandlerType(w) /\ HandlerPlace(w) /\ BuryingOf(w)
  BY DEF HandlerInv, BuryingInv
<1>e. excuses[f] \subseteq excuses'[f] /\ (Excuse(f) => Excuse(f)') /\ late \subseteq late'
  BY TablesStep, LateGrows DEF Excuse
<1>i. /\ records[f] # None /\ records[f].Deleted => "buried" \in excuses[f]
      /\ "delete" \in events[f] => "buried" \in excuses[f]
      /\ "buried" \in excuses[f] => records[f] # None
      /\ "buried" \in excuses[f] /\ ~Excuse(f) => \A b \in versions[f] \ late : blobs[b] = "erased"
  BY DEF BuriedInv
<1>1. ASSUME records'[f] # None, records'[f].Deleted PROVE "buried" \in excuses'[f]
  <2>1. CASE records' = records
    BY <1>1, <1>e, <1>i, <2>1
  <2>2. CASE PutCreated(w) /\ records' # records
    <3>1. records' = [records EXCEPT ![job[w].file] =
              [Owner |-> job[w].self, CurrentVersionRef |-> job[w].blob, Deleted |-> FALSE]]
      BY <2>2 DEF PutCreated
    <3>2. f # job[w].file
      BY <1>1, <3>1 DEF Tables
    <3> QED BY <1>1, <1>e, <1>i, <3>1, <3>2
  <2>3. CASE PutFileObject(w) /\ records' # records
    <3>1. at[w] = "putting" /\ records' = [records EXCEPT ![job[w].file] = fo[w]]
      BY <2>3 DEF PutFileObject
    <3>2. job[w] # None /\ fo[w] # None /\ job[w].file \in Files
      BY <1>0, <3>1, JobIs DEF HandlerPlace, Place
    <3>3. CASE f = job[w].file
      <4>1. fo[w].Deleted
        BY <1>1, <3>1, <3>2, <3>3 DEF Tables
      <4>2. job[w].op # "version"
        BY <1>0, <3>2, <4>1 DEF BuryingOf
      <4>3. Excused(w, IF fo[w].Deleted THEN {"buried"} ELSE {})
        BY <2>3, <4>2 DEF PutFileObject
      <4> QED BY <3>2, <3>3, <4>1, <4>3 DEF Excused, Tables
    <3>4. CASE f # job[w].file
      BY <1>1, <1>e, <1>i, <3>1, <3>4
    <3> QED BY <3>3, <3>4
  <2> QED BY <2>1, <2>2, <2>3, WhoChanges
<1>2. ASSUME "delete" \in events'[f] PROVE "buried" \in excuses'[f]
  <2>1. CASE events' = events
    BY <1>2, <1>e, <1>i, <2>1
  <2>2. CASE AddEvent(w)
    <3>1. at[w] = "logging" /\ events' = [events EXCEPT ![job[w].file] = @ \cup {job[w].op}]
      BY <2>2 DEF AddEvent
    <3>2. job[w] # None
      BY <1>0, <3>1 DEF HandlerPlace
    <3>3. CASE f = job[w].file /\ job[w].op = "delete"
      BY <1>0, <1>e, <3>1, <3>2, <3>3 DEF BuryingOf
    <3>4. CASE ~(f = job[w].file /\ job[w].op = "delete")
      BY <1>2, <1>e, <1>i, <3>1, <3>4 DEF Tables
    <3> QED BY <3>3, <3>4
  <2> QED BY <2>1, <2>2, WhoChanges
<1>3. ASSUME "buried" \in excuses'[f] PROVE records'[f] # None
  <2>1. CASE "buried" \in excuses[f]
    BY <1>i, <2>1, RecordsStep
  <2>2. CASE "buried" \notin excuses[f]
    BY <1>3, <2>2, NewlyBuried DEF Tables
  <2> QED BY <2>1, <2>2
<1>4. ASSUME "buried" \in excuses'[f], ~Excuse(f)', NEW b \in versions'[f] \ late' PROVE blobs'[b] = "erased"
  <2>0. b \in Blobs /\ ~Excuse(f)
    BY <1>4, <1>e, TablesStep DEF Tables
  <2>1. CASE "buried" \in excuses[f]
    <3>1. b \in versions[f] \ late
      BY <1>4, <1>e, <2>1, VersionsStep
    <3> QED BY <1>i, <2>0, <2>1, <3>1, BlobsStep
  <2>2. CASE "buried" \notin excuses[f]
    <3>1. /\ PutFileObject(w) /\ f = job[w].file /\ at[w] = "putting" /\ job[w] # None /\ fo[w] # None /\ fo[w].Deleted
      BY <1>4, <2>2, NewlyBuried
    <3>2. job[w].op = "delete" /\ listed[w] = versions[f]
      BY <1>0, <2>0, <2>2, <3>1 DEF BuryingOf
    <3>3. b \in versions[f]
      BY <1>4, <3>1, VersionsStep
    <3>4. blobs[b] = "erased"
      BY <1>0, <3>1, <3>2, <3>3 DEF BuryingOf
    <3> QED BY <2>0, <3>4, BlobsStep
  <2> QED BY <2>1, <2>2
<1> QED BY <1>1, <1>2, <1>3, <1>4

\* A request on a file has read the file's list only if it had before, or does now.
LEMMA Listing ==
    ASSUME Tables, Shape, HandlerInv, OwnedInv, OwningInv, NEW w \in Workers, Serving(w),
           job'[w] # None, HasListed(w)'
    PROVE  job[w] # None /\ job'[w].file = job[w].file /\ job'[w].op = job[w].op /\ (HasListed(w) \/ List(w))
<1> DEFINE Goal == HasListed(w) \/ List(w)
<1>0. HandlerType(w) /\ HandlerPlace(w)
  BY DEF HandlerInv
<1>e. ~Ends(w)
  BY EndsIs DEF Ended
<1>m. ASSUME NEW a, NEW b, Moves(w, a, b) PROVE at[w] = a /\ at'[w] = b
  BY <1>m, MovesIs
<1>1. ~(\E r \in Requests : Request(w, r))
  <2>1. SUFFICES ASSUME NEW r \in Requests, Request(w, r) PROVE FALSE
    OBVIOUS
  <2>2. r.op \in Ops
    BY Consts DEF Job
  <2>3. at'[w] \in {"storing", "checking", "reading"}
    BY <1>m, <2>1, <2>2 DEF Request, FirstStep, Ops
  <2> QED BY <2>3 DEF HasListed
<1>2. job[w] # None /\ job'[w].file = job[w].file /\ job'[w].op = job[w].op
  BY <1>1, NewFile
<1>p. Place(job[w].op, at[w])
  BY <1>0, <1>2 DEF HandlerPlace
<1>a. at'[w] \in {"mirroring", "erasing", "revoking", "adding", "putting", "logging"}
  BY DEF HasListed
<1> SUFFICES Goal
  BY <1>2
<1>3. CASE Lock(w) \/ Store(w) \/ BootstrapGrant(w)
  <2>1. Lock(w) => at'[w] \in {"storing", "changing", "listing"}
    <3>1. SUFFICES ASSUME Lock(w) PROVE at'[w] \in {"storing", "changing", "listing"}
      OBVIOUS
    <3>2. /\ at[w] = "locking" /\ at'[w] = CASE job[w].op = "version" -> "storing"
                                             [] job[w].op = "permissions" -> "changing"
                                             [] job[w].op = "delete" -> "listing"
      BY <3>1, <1>m DEF Lock
    <3> QED BY <1>p, <3>2 DEF Place
  <2>2. Store(w) => at'[w] \in {"grantRead", "granting"}
    BY <1>e, <1>m DEF Store
  <2>3. BootstrapGrant(w) => at'[w] \in {"grantWrite", "grantBlob", "creating", "rollback"}
    BY <1>m DEF BootstrapGrant, bootstrap
  <2> QED BY <1>3, <1>a, <2>1, <2>2, <2>3
<1>4. CASE RollBack(w) \/ Discard(w) \/ Panic(w) \/ AddEvent(w)
  BY <1>4, <1>e DEF RollBack, Discard, Panic, AddEvent, Fails
<1>5. CASE PutCreated(w)
  <2>1. at[w] = "creating" /\ at'[w] \in {"adding", "rollback"}
    BY <1>5, <1>m DEF PutCreated
  <2> QED BY <1>2, <1>p, <2>1 DEF HasListed, Place
<1>6. CASE CheckWrite(w) \/ GrantOwner(w)
  BY <1>6, <1>a, <1>e, <1>m DEF CheckWrite, GrantOwner
<1>7. CASE ReadFileObject(w)
  <2>1. at'[w] = (IF job[w].op = "metadata" THEN "putting" ELSE "locking")
    BY <1>7, <1>e, <1>m DEF ReadFileObject
  <2> QED BY <1>2, <2>1 DEF HasListed
<1>8. CASE MirrorReaders(w) \/ MirrorVersions(w) \/ EraseBlob(w) \/ RevokeGrant(w)
  BY <1>8 DEF MirrorReaders, MirrorVersions, EraseBlob, RevokeGrant, LoopStep, HasListed
<1>9. CASE ReadersMirrored(w) \/ VersionsMirrored(w) \/ BlobsErased(w) \/ GrantsRevoked(w)
  <2>1. at[w] \in {"mirroring", "erasing", "revoking"}
    BY <1>9, <1>m DEF ReadersMirrored, VersionsMirrored, BlobsErased, GrantsRevoked
  <2> QED BY <2>1 DEF HasListed
<1>10. CASE AddVersion(w) \/ PutFileObject(w)
  <2>1. at[w] \in {"adding", "putting"} /\ at'[w] \in {"putting", "logging"}
    BY <1>10, <1>e, <1>m DEF AddVersion, PutFileObject, Fails
  <2> QED BY <1>2, <2>1 DEF HasListed
<1>11. CASE ChangeAccess(w)
  <2>1. at[w] = "changing" /\ at'[w] \in {"listing", "putting"}
    BY <1>11, <1>e, <1>m DEF ChangeAccess, Fails
  <2> QED BY <1>2, <1>p, <2>1 DEF HasListed, Place
<1> HIDE DEF Goal
<1>12. CASE List(w)
  BY <1>12 DEF Goal
<1> QED BY <1>1, <1>3, <1>4, <1>5, <1>6, <1>7, <1>8, <1>9, <1>10, <1>11, <1>12 DEF Serving, Serve

LEMMA OtherBurying ==
    ASSUME Tables, Shape, HandlerInv, OwnedInv, OwningInv, BuryingInv, NEW w \in Workers, Serving(w),
           NEW u \in Workers \ {w}
    PROVE  BuryingOf(u)'
<1>1. Same(u)
  BY Frame DEF Others
<1>0. BuryingOf(u) /\ HandlerType(u) /\ HandlerPlace(u) /\ BuryingOf(w) /\ HandlerType(w) /\ HandlerPlace(w)
  BY DEF BuryingInv, HandlerInv
<1>2. SUFFICES ASSUME job[u] # None PROVE BuryingOf(u)'
  BY <1>1 DEF BuryingOf, Same
<1>3. PICK f \in Files : f = job[u].file
  BY <1>0, <1>2, JobIs
<1>4. /\ "buried" \in excuses[f] => "buried" \in excuses'[f]
      /\ Excuse(f) => Excuse(f)'
  BY TablesStep DEF Excuse
<1>5. ASSUME job[u].op = "delete", at[u] \in {"erasing", "revoking", "putting"}, ~Excuse(f)
      PROVE  listed[u] = versions'[f]
  <2>1. listed[u] = versions[f]
    BY <1>0, <1>2, <1>3, <1>5 DEF BuryingOf
  <2>2. SUFFICES ASSUME at[w] = "adding", job[w] # None, f = job[w].file, job[w].op \in {"create", "version"} PROVE FALSE
    BY <2>1, VersionsStep
  <2>3. mu = u
    BY <1>0, <1>2, <1>5 DEF HandlerPlace, Guarded
  <2>4. job[w].op = "create"
    BY <1>0, <2>2, <2>3 DEF HandlerPlace, Guarded
  <2>5. HasListed(u)
    BY <1>5 DEF HasListed
  <2> QED BY <1>0, <1>2, <1>3, <1>5, <2>2, <2>4, <2>5 DEF BuryingOf
<1>6. ASSUME job[u].op = "delete", at[u] \in {"erasing", "revoking", "putting"}, NEW b \in listed[u]
      PROVE  blobs'[b] = "erased" \/ (at[u] = "erasing" /\ (b \in todo[u] \/ short[u]))
  <2>1. b \in Blobs
    BY <1>0 DEF HandlerType
  <2>2. blobs[b] = "erased" \/ (at[u] = "erasing" /\ (b \in todo[u] \/ short[u]))
    BY <1>0, <1>2, <1>6 DEF BuryingOf
  <2> QED BY <2>1, <2>2, BlobsStep
<1>7. ASSUME job[u].op = "create", at[u] = "adding"
      PROVE  /\ \A v \in Workers \ {u} : Runs(v, "create")' => job'[v].file # f
             /\ \/ Excuse(f)'
                \/ /\ versions'[f] = {}
                   /\ \A v \in Workers : job'[v] # None /\ job'[v].op # "create" /\ job'[v].file = f => ~HasListed(v)'
  <2>1. /\ \A v \in Workers \ {u} : Runs(v, "create") => job[v].file # f
        /\ \/ Excuse(f)
           \/ /\ versions[f] = {}
              /\ \A v \in Workers : job[v] # None /\ job[v].op # "create" /\ job[v].file = f => ~HasListed(v)
    BY <1>0, <1>2, <1>3, <1>7 DEF BuryingOf
  <2>2. ASSUME NEW v \in Workers \ {u}, Runs(v, "create")' PROVE job'[v].file # f
    <3>1. CASE v # w
      BY <2>1, <2>2, <3>1, Frame DEF Others, Same, Runs
    <3>2. CASE v = w
      <4>1. job'[w] # None /\ job'[w].op = "create"
        BY <2>2, <3>2 DEF Runs
      <4>2. CASE job[w] # None /\ job'[w].file = job[w].file /\ job'[w].op = job[w].op
        BY <2>1, <3>2, <4>1, <4>2 DEF Runs
      <4>3. CASE Fresh(job'[w].file)
        BY <1>2, <1>3, <3>2, <4>3 DEF Fresh
      <4> QED BY <4>1, <4>2, <4>3, NewFile
    <3> QED BY <3>1, <3>2
  <2>3. SUFFICES ASSUME ~Excuse(f)'
                 PROVE  /\ versions'[f] = {}
                        /\ \A v \in Workers : job'[v] # None /\ job'[v].op # "create" /\ job'[v].file = f => ~HasListed(v)'
    BY <2>2
  <2>4. /\ versions[f] = {}
        /\ \A v \in Workers : job[v] # None /\ job[v].op # "create" /\ job[v].file = f => ~HasListed(v)
    BY <1>4, <2>1, <2>3
  <2>5. versions'[f] = {}
    <3>1. SUFFICES ASSUME at[w] = "adding", job[w] # None, f = job[w].file, job[w].op \in {"create", "version"} PROVE FALSE
      BY <2>4, VersionsStep
    <3>2. job[w].op # "create"
      BY <2>1, <3>1 DEF Runs
    <3>3. HasListed(w)
      BY <3>1, <3>2 DEF HasListed
    <3> QED BY <2>4, <3>1, <3>2, <3>3
  <2>6. ASSUME NEW v \in Workers, job'[v] # None, job'[v].op # "create", job'[v].file = f, HasListed(v)' PROVE FALSE
    <3>1. CASE v # w
      <4>1. job'[v] = job[v] /\ at'[v] = at[v]
        BY <3>1, Frame DEF Others, Same
      <4> QED BY <2>4, <2>6, <4>1 DEF HasListed
    <3>2. CASE v = w
      <4>1. job[w] # None /\ job[w].file = f /\ job[w].op # "create" /\ (HasListed(w) \/ List(w))
        BY <2>6, <3>2, Listing
      <4>2. List(w)
        BY <2>4, <4>1
      <4>3. Excused(w, {"unborn"}) \/ Excused(w, {"misread"})
        BY <2>4, <4>1, <4>2 DEF List
      <4>4. "unborn" \in excuses'[f] \/ "misread" \in excuses'[f]
        BY <4>1, <4>3 DEF Excused, Tables
      <4> QED BY <2>3, <4>4 DEF Excuse
    <3> QED BY <3>1, <3>2
  <2> QED BY <2>5, <2>6
<1>8. BuryingOf(u)
  BY <1>0
<1>9. job'[u] = job[u] /\ at'[u] = at[u] /\ fo'[u] = fo[u] /\ listed'[u] = listed[u] /\ todo'[u] = todo[u] /\ short'[u] = short[u]
  BY <1>1 DEF Same
<1>10. /\ fo'[u] # None /\ fo'[u].Deleted => "buried" \in excuses'[f] \/ (job'[u].op = "delete" /\ at'[u] = "putting")
       /\ job'[u].op = "version" /\ fo'[u] # None => ~fo'[u].Deleted
       /\ job'[u].op = "delete" /\ at'[u] = "putting" => fo'[u].Deleted
       /\ job'[u].op = "delete" /\ at'[u] = "logging" => "buried" \in excuses'[f]
  BY <1>2, <1>3, <1>4, <1>8, <1>9 DEF BuryingOf
<1>11. job'[u].op = "delete" /\ at'[u] \in {"erasing", "revoking", "putting"} =>
              /\ Excuse(f)' \/ listed'[u] = versions'[f]
              /\ \A b \in listed'[u] : blobs'[b] = "erased" \/ (at'[u] = "erasing" /\ (b \in todo'[u] \/ short'[u]))
  BY <1>4, <1>5, <1>6, <1>9
<1>12. job'[u].op = "create" /\ at'[u] = "adding" =>
              /\ \A v \in Workers \ {u} : Runs(v, "create")' => job'[v].file # f
              /\ \/ Excuse(f)'
                 \/ /\ versions'[f] = {}
                    /\ \A v \in Workers : job'[v] # None /\ job'[v].op # "create" /\ job'[v].file = f => ~HasListed(v)'
  BY <1>7, <1>9
<1>13. f = job'[u].file
  BY <1>3, <1>9
<1> QED BY <1>10, <1>11, <1>12, <1>13 DEF BuryingOf

\* A step of w that changes neither the record it holds nor what is known of a deletion.
LEMMA IdleBurying ==
    ASSUME Tables, Shape, HandlerInv, BuryingInv, NEW w \in Workers, Serving(w), job[w] # None,
           job'[w].file = job[w].file, job'[w].op = job[w].op, fo'[w] = fo[w],
           job[w].op = "create" => at'[w] # "adding",
           job[w].op = "delete" => at[w] # "putting" /\ at'[w] \notin {"erasing", "revoking", "putting", "logging"}
    PROVE  BuryingOf(w)'
<1>1. PICK f \in Files : f = job[w].file
  BY JobIs DEF HandlerInv
<1>2. "buried" \in excuses[f] => "buried" \in excuses'[f]
  BY TablesStep
<1>3. BuryingOf(w)
  BY DEF BuryingInv
<1>4. /\ fo[w] # None /\ fo[w].Deleted => "buried" \in excuses[f]
      /\ job[w].op = "version" /\ fo[w] # None => ~fo[w].Deleted
  BY <1>1, <1>3 DEF BuryingOf
<1> QED BY <1>1, <1>2, <1>4 DEF BuryingOf

LEMMA OwnBurying ==
    ASSUME Tables, Shape, HandlerInv, OwnedInv, OwningInv, BuriedInv, BuryingInv, NEW w \in Workers, Serving(w)
    PROVE  BuryingOf(w)'
<1>0. HandlerType(w) /\ HandlerPlace(w) /\ BuryingOf(w) /\ OwningOf(w)
  BY DEF HandlerInv, BuryingInv, OwningInv
<1>m. ASSUME NEW a, NEW b, Moves(w, a, b) PROVE at[w] = a /\ at'[w] = b
  BY <1>m, MovesIs
<1>1. CASE job'[w] = None
  BY <1>1 DEF BuryingOf
<1>2. CASE \E r \in Requests : Request(w, r)
  <2>1. PICK r \in Requests : Request(w, r)
    BY <1>2
  <2>2. r.op \in Ops
    BY Consts DEF Job
  <2>3. job'[w] = r /\ at[w] = "idle" /\ at'[w] \in {"storing", "checking", "reading"} /\ fo'[w] = fo[w]
    BY <1>m, <2>1, <2>2 DEF Request, FirstStep, Ops, Shape
  <2>4. fo'[w] = None
    BY <1>0, <2>3 DEF HandlerPlace, Place
  <2> QED BY <2>3, <2>4 DEF BuryingOf
<1>3. CASE job'[w] # None /\ ~(\E r \in Requests : Request(w, r))
  <2> DEFINE Goal == BuryingOf(w)'
  <2> SUFFICES Goal
    OBVIOUS
  <2>e. ~Ends(w)
    BY <1>3, EndsIs DEF Ended
  <2>j. job[w] # None /\ job'[w].file = job[w].file /\ job'[w].op = job[w].op
    BY <1>3, NewFile
  <2>f. PICK f \in Files : f = job[w].file
    BY <1>0, <2>j, JobIs
  <2>p. Place(job[w].op, at[w])
    BY <1>0, <2>j DEF HandlerPlace
  <2>g. /\ "buried" \in excuses[f] => "buried" \in excuses'[f]
        /\ Excuse(f) => Excuse(f)'
    BY TablesStep DEF Excuse
  <2>i. ASSUME fo'[w] = fo[w], job[w].op = "create" => at'[w] # "adding",
               job[w].op = "delete" => at[w] # "putting" /\ at'[w] \notin {"erasing", "revoking", "putting", "logging"}
        PROVE  Goal
    BY <2>i, <2>j, IdleBurying
  \* A step of a delete from its list to its record.
  <2>d. ASSUME job[w].op = "delete", fo'[w] = fo[w], at[w] # "putting", at'[w] \in {"erasing", "revoking"},
               Excuse(f)' \/ listed'[w] = versions'[f],
               \A b \in listed'[w] : blobs'[b] = "erased" \/ (at'[w] = "erasing" /\ (b \in todo'[w] \/ short'[w]))
        PROVE  Goal
    <3>1. fo[w] # None /\ fo[w].Deleted => "buried" \in excuses[f]
      BY <1>0, <2>d, <2>f, <2>j DEF BuryingOf
    <3> QED BY <2>d, <2>f, <2>g, <2>j, <3>1 DEF BuryingOf
  <2>l. job[w].op = "delete" /\ at[w] \in {"erasing", "revoking", "putting"} =>
              /\ Excuse(f) \/ listed[w] = versions[f]
              /\ \A b \in listed[w] : blobs[b] = "erased" \/ (at[w] = "erasing" /\ (b \in todo[w] \/ short[w]))
    BY <1>0, <2>f, <2>j DEF BuryingOf
  <2>t. listed[w] \subseteq Blobs
    BY <1>0 DEF HandlerType
  <2> HIDE DEF Goal
  <2>1. CASE Lock(w)
    <3>1. /\ at[w] = "locking" /\ at'[w] = CASE job[w].op = "version" -> "storing"
                                             [] job[w].op = "permissions" -> "changing"
                                             [] job[w].op = "delete" -> "listing"
          /\ fo' = fo
      BY <1>m, <2>1 DEF Lock
    <3>2. at'[w] \in {"storing", "changing", "listing"}
      BY <2>p, <3>1 DEF Place
    <3> QED BY <2>i, <3>1, <3>2
  <2>2. CASE Store(w) \/ BootstrapGrant(w) \/ CheckWrite(w) \/ GrantOwner(w)
    <3>1. /\ at[w] # "putting" /\ fo' = fo
          /\ at'[w] \in {"grantRead", "granting", "grantWrite", "grantBlob", "creating", "rollback",
                         "reading", "listing", "discarding"}
      BY <1>m, <2>2, <2>e DEF Store, BootstrapGrant, bootstrap, CheckWrite, GrantOwner
    <3> QED BY <2>i, <3>1
  <2>3. CASE RollBack(w) \/ Discard(w) \/ Panic(w) \/ AddEvent(w)
    BY <2>3, <2>e DEF RollBack, Discard, Panic, AddEvent, Fails
  <2>4. CASE PutCreated(w)
    <3>1. at[w] = "creating" /\ at'[w] \in {"adding", "rollback"} /\ fo' = fo /\ versions' = versions
      BY <1>m, <2>4 DEF PutCreated
    <3>2. job[w].op = "create" /\ fo[w] = None
      BY <1>0, <2>j, <2>p, <3>1 DEF Place, HandlerPlace
    <3>3. CASE at'[w] = "rollback"
      BY <2>i, <3>1, <3>2, <3>3
    <3>4. CASE at'[w] = "adding"
      <4>1. records[f] = None /\ \A u \in Workers \ {w} : job[u] # None => job[u].file # f
        BY <1>0, <2>f, <2>j, <3>1, <3>2 DEF OwningOf, Unborn
      <4>2. versions'[f] = {}
        BY <3>1, <4>1 DEF OwnedInv
      <4>3. \A u \in Workers \ {w} : job'[u] = job[u]
        BY Frame DEF Others, Same
      <4>4. \A u \in Workers \ {w} : Runs(u, "create")' => job'[u].file # f
        BY <4>1, <4>3 DEF Runs
      <4>5. \A u \in Workers : job'[u] # None /\ job'[u].op # "create" /\ job'[u].file = f => ~HasListed(u)'
        BY <2>j, <3>2, <4>1, <4>3
      <4> QED BY <2>f, <2>j, <3>1, <3>2, <3>4, <4>2, <4>4, <4>5 DEF BuryingOf, Goal
    <3> QED BY <3>1, <3>3, <3>4
  <2>5. CASE ReadFileObject(w)
    <3>1. /\ at[w] = "reading" /\ at'[w] = (IF job[w].op = "metadata" THEN "putting" ELSE "locking")
          /\ fo'[w] = records[f] /\ ~(records[f].Deleted /\ job[w].op \in {"version", "delete"})
      BY <1>m, <2>5, <2>e, <2>f DEF ReadFileObject, Shape
    <3>2. job[w].op # "create"
      BY <2>p, <3>1 DEF Place
    <3>3. records[f] # None /\ (records[f].Deleted => "buried" \in excuses[f])
      BY <1>0, <2>f, <2>j, <3>2 DEF HandlerPlace, BuriedInv
    <3> QED BY <2>f, <2>g, <2>j, <3>1, <3>2, <3>3 DEF BuryingOf, Goal
  <2>6. CASE List(w)
    <3>1. /\ at[w] = "listing" /\ at'[w] = (IF job[w].op = "delete" THEN "erasing" ELSE "mirroring")
          /\ fo' = fo /\ versions' = versions
          /\ listed'[w] = IF job[w].op = "version" THEN {} ELSE todo'[w]
          /\ todo'[w] = WhatToList(w) \/ Excused(w, {"misread"})
      BY <1>m, <2>6 DEF List, Shape, tables
    <3>2. CASE job[w].op # "delete"
      BY <2>i, <2>p, <3>1, <3>2 DEF Place
    <3>3. CASE job[w].op = "delete"
      <4>1. listed'[w] = todo'[w] /\ at'[w] = "erasing"
        BY <3>1, <3>3
      <4>2. Excuse(f)' \/ listed'[w] = versions'[f]
        <5>1. CASE todo'[w] = WhatToList(w)
          BY <2>f, <3>1, <3>3, <4>1, <5>1 DEF WhatToList
        <5>2. CASE Excused(w, {"misread"})
          BY <2>f, <5>2 DEF Excused, Tables, Excuse
        <5> QED BY <3>1, <5>1, <5>2
      <4> QED BY <2>d, <3>1, <3>3, <4>1, <4>2
    <3> QED BY <3>2, <3>3
  <2>7. CASE MirrorReaders(w) \/ MirrorVersions(w)
    <3>1. at[w] = "mirroring" /\ at' = at /\ fo' = fo
      BY <2>7 DEF MirrorReaders, MirrorVersions, LoopStep
    <3>2. job[w].op \notin {"delete", "create"}
      BY <2>p, <3>1 DEF Place
    <3> QED BY <2>i, <3>1, <3>2
  <2>8. CASE RevokeGrant(w)
    <3>1. at[w] = "revoking" /\ at' = at /\ fo' = fo /\ listed' = listed /\ versions' = versions /\ blobs' = blobs
      BY <2>8 DEF RevokeGrant, LoopStep, tables
    <3>2. job[w].op = "delete"
      BY <2>p, <3>1 DEF Place
    <3> QED BY <2>d, <2>g, <2>l, <3>1, <3>2
  <2>9. CASE EraseBlob(w)
    <3>1. PICK c, result : /\ result \in Results
                           /\ DeleteBlob(c, fo[w].Owner, result) /\ LoopStep(w, "erasing", c, result)
      BY <2>9 DEF EraseBlob
    <3>2. /\ at[w] = "erasing" /\ at' = at /\ fo' = fo /\ listed' = listed /\ versions' = versions
          /\ todo'[w] = todo[w] \ {c} /\ short'[w] = (short[w] \/ result = "error")
      BY <3>1 DEF LoopStep, tables, Shape
    <3>3. job[w].op = "delete"
      BY <2>p, <3>2 DEF Place
    <3>4. ASSUME NEW b \in listed[w] PROVE blobs'[b] = "erased" \/ b \in todo'[w] \/ short'[w]
      <4>1. b \in Blobs
        BY <2>t
      <4>2. CASE b = c
        BY <3>1, <3>2, <4>1, <4>2 DEF DeleteBlob, Tables
      <4>3. CASE b # c
        BY <2>l, <3>2, <3>3, <4>1, <4>3, BlobsStep
      <4> QED BY <4>2, <4>3
    <3> QED BY <2>d, <2>g, <2>l, <3>2, <3>3, <3>4
  <2>10. CASE ReadersMirrored(w) \/ VersionsMirrored(w)
    <3>1. at[w] = "mirroring" /\ fo' = fo /\ at'[w] \in {"adding", "putting"}
      BY <1>m, <2>10 DEF ReadersMirrored, VersionsMirrored
    <3>2. job[w].op \notin {"delete", "create"}
      BY <2>p, <3>1 DEF Place
    <3> QED BY <2>i, <3>1, <3>2
  <2>11. CASE AddVersion(w)
    <3>1. at[w] = "adding" /\ at'[w] = (IF job[w].op = "create" THEN "logging" ELSE "putting")
      BY <1>m, <2>11 DEF AddVersion
    <3>2. job[w].op = "create" \/ job[w].op = "version"
      BY <2>p, <3>1 DEF Place
    <3>3. CASE job[w].op = "create"
      <4>1. fo' = fo
        BY <2>11, <3>3 DEF AddVersion
      <4> QED BY <2>i, <3>1, <3>3, <4>1
    <3>4. CASE job[w].op = "version"
      <4>1. fo[w] \in FileObjectRecord /\ fo[w] # None
        BY <1>0, <2>j, <3>1, <3>4, JobIs, Consts
      <4>2. fo'[w] = [fo[w] EXCEPT !.CurrentVersionRef = job[w].blob]
        BY <2>11, <3>4 DEF AddVersion, Shape
      <4>3. fo'[w].Deleted = fo[w].Deleted
        BY <4>1, <4>2 DEF FileObjectRecord
      <4>4. ~fo[w].Deleted
        BY <1>0, <2>j, <3>4, <4>1 DEF BuryingOf
      <4> QED BY <2>j, <3>1, <3>4, <4>3, <4>4 DEF BuryingOf, Goal
    <3> QED BY <3>2, <3>3, <3>4
  <2>12. CASE ChangeAccess(w)
    <3>1. at[w] = "changing" /\ fo' = fo
      BY <1>m, <2>12, <2>e DEF ChangeAccess, Fails
    <3>2. job[w].op = "permissions"
      BY <2>p, <3>1 DEF Place
    <3> QED BY <2>i, <3>1, <3>2
  <2>13. CASE BlobsErased(w)
    <3>1. /\ at[w] = "erasing" /\ at'[w] = "revoking" /\ fo' = fo /\ listed' = listed /\ todo[w] = {} /\ ~short[w]
          /\ versions' = versions /\ blobs' = blobs
      BY <1>m, <2>13, <2>e DEF BlobsErased, Fails, tables
    <3>2. job[w].op = "delete"
      BY <2>p, <3>1 DEF Place
    <3> QED BY <2>d, <2>g, <2>l, <3>1, <3>2
  <2>14. CASE GrantsRevoked(w)
    <3>1. /\ at[w] = "revoking" /\ at'[w] = "putting" /\ fo' = [fo EXCEPT ![w].Deleted = TRUE]
          /\ listed' = listed /\ versions' = versions /\ blobs' = blobs
      BY <1>m, <2>14 DEF GrantsRevoked, tables
    <3>2. job[w].op = "delete"
      BY <2>p, <3>1 DEF Place
    <3>3. fo'[w].Deleted
      <4>1. fo[w] \in FileObjectRecord
        BY <1>0, <2>j, <3>1, <3>2, JobIs
      <4>2. fo'[w] = [fo[w] EXCEPT !.Deleted = TRUE]
        BY <3>1 DEF Shape
      <4> QED BY <4>1, <4>2 DEF FileObjectRecord
    <3>4. /\ Excuse(f)' \/ listed'[w] = versions'[f]
          /\ \A b \in listed'[w] : blobs'[b] = "erased"
      BY <2>g, <2>l, <3>1, <3>2
    <3> QED BY <2>f, <2>j, <3>1, <3>2, <3>3, <3>4 DEF BuryingOf, Goal
  <2>15. CASE PutFileObject(w)
    <3>1. /\ at[w] = "putting" /\ at'[w] = "logging" /\ fo' = fo
          /\ Excused(w, IF fo[w].Deleted THEN {"buried"} ELSE {})
      BY <1>m, <2>15, <2>e DEF PutFileObject, Fails
    <3>2. job[w].op # "create"
      BY <2>p, <3>1 DEF Place
    <3>3. fo[w].Deleted => "buried" \in excuses'[f]
      BY <2>f, <3>1 DEF Excused, Tables
    <3>4. /\ job[w].op = "delete" => fo[w].Deleted
          /\ job[w].op = "version" /\ fo[w] # None => ~fo[w].Deleted
      BY <1>0, <2>j, <3>1 DEF BuryingOf
    <3> QED BY <2>f, <2>j, <3>1, <3>2, <3>3, <3>4 DEF BuryingOf, Goal
  <2> QED BY <1>3, <2>1, <2>2, <2>3, <2>4, <2>5, <2>6, <2>7, <2>8, <2>9, <2>10, <2>11, <2>12, <2>13, <2>14,
             <2>15 DEF Serving, Serve
<1> QED BY <1>1, <1>2, <1>3

LEMMA HandlerStep ==
    ASSUME IInv, NEW w \in Workers, Serving(w)
    PROVE  IInv'
<1>0. Tables /\ Shape /\ HandlerInv /\ OwnedInv /\ OwningInv /\ BuriedInv /\ BuryingInv
  BY DEF IInv
<1>1. Tables' /\ Shape'
  BY <1>0, TablesStep, Frame
<1>2. HandlerInv'
  BY <1>0, OtherHandlers, OwnHandler DEF HandlerInv
<1>3. OwnedInv'
  BY <1>0, OwnedStep
<1>4. OwningInv'
  BY <1>0, OtherOwning, OwnOwning DEF OwningInv
<1>5. BuriedInv'
  BY <1>0, BuriedStep
<1>6. BuryingInv'
  BY <1>0, OtherBurying, OwnBurying DEF BuryingInv
<1> QED BY <1>1, <1>2, <1>3, <1>4, <1>5, <1>6 DEF IInv

--------------------------------------------------------------------------------
(* The steps of no handler.                                                 *)

LEMMA UnchangedStep ==
    ASSUME IInv, UNCHANGED <<owners, records, versions, events, blobs, mu, handlers, bounds, history>>, GrantsTypeOK'
    PROVE  IInv'
<1>0. /\ owners' = owners /\ records' = records /\ versions' = versions /\ events' = events /\ blobs' = blobs
      /\ mu' = mu /\ job' = job /\ at' = at /\ fo' = fo /\ listed' = listed /\ todo' = todo /\ short' = short
      /\ requests' = requests /\ faults' = faults /\ excuses' = excuses /\ late' = late
  BY DEF handlers, bounds, history
<1>1. Tables' /\ Shape' /\ HandlerInv'
  BY <1>0 DEF IInv, Tables, Shape, HandlerInv, HandlerType, HandlerPlace, Runs
<1>2. OwnedInv' /\ OwningInv'
  BY <1>0 DEF IInv, OwnedInv, OwningInv, OwningOf, Unborn, Pending, OwnerOf, Runs
<1>3. BuriedInv' /\ BuryingInv'
  BY <1>0 DEF IInv, BuriedInv, Excuse, BuryingInv, BuryingOf, HasListed, Runs
<1> QED BY <1>1, <1>2, <1>3 DEF IInv

LEMMA NewServiceStep ==
    ASSUME IInv, NewService
    PROVE  IInv'
<1>1. UNCHANGED <<owners, records, versions, events, blobs, mu, handlers, bounds, history>>
  BY DEF NewService, setPolicy
<1>2. GrantsTypeOK'
  <2>1. PICK f \in Files : f \in Resources /\ TypeOf[f] = "file_object"
    BY FileObjectsAssumption
  <2> QED BY <2>1 DEF NewService, setPolicy, IInv, Tables, GrantsTypeOK
<1> QED BY <1>1, <1>2, UnchangedStep

LEMMA CrashStep ==
    ASSUME IInv, Crash
    PROVE  IInv'
<1>0. /\ owners' = owners /\ records' = records /\ versions' = versions /\ events' = events /\ blobs' = blobs
      /\ grants' = grants /\ policies' = policies /\ mu' = None /\ late' = late
  BY DEF Crash, store, tables
<1>1. \A u \in Workers : Ended(u)
  BY DEF Crash, Ended
<1>2. Shape'
  BY DEF Crash, Shape
<1>3. /\ excuses' \in [Files -> SUBSET {"cutShort", "misread", "unborn", "buried"}]
      /\ \A f \in Files : /\ excuses[f] \subseteq excuses'[f]
                          /\ "buried" \in excuses'[f] => "buried" \in excuses[f]
  <2>1. excuses' = [f \in Files |-> excuses[f] \cup
                     IF \E w \in Workers : job[w] # None /\ job[w].file = f THEN {"cutShort"} ELSE {}]
    BY DEF Crash
  <2> QED BY <2>1 DEF IInv, Tables
<1>4. Tables'
  <2>1. requests' \in 0..MaxRequests /\ faults' \in 0..MaxFaults
    BY BoundsType DEF Crash, IInv, Tables
  <2> QED BY <1>0, <1>3, <2>1 DEF IInv, Tables, GrantsTypeOK
<1>5. HandlerInv'
  BY <1>1 DEF HandlerInv, HandlerType, HandlerPlace, Ended, Runs
<1>6. OwnedInv' /\ OwningInv' /\ BuryingInv'
  BY <1>0, <1>1 DEF IInv, OwnedInv, OwningInv, OwningOf, BuryingInv, BuryingOf, Ended, Unborn, Pending, Runs
<1>7. BuriedInv'
  <2>1. \A f \in Files : Excuse(f) => Excuse(f)'
    BY <1>3 DEF Excuse
  <2> QED BY <1>0, <1>3, <2>1 DEF IInv, BuriedInv
<1> QED BY <1>2, <1>4, <1>5, <1>6, <1>7 DEF IInv

LEMMA InitInv == Init => IInv
<1> SUFFICES ASSUME Init PROVE IInv
  OBVIOUS
<1>1. Tables
  <2>1. GrantsTypeOK
    <3>1. PICK b \in Blobs : b \in Resources /\ TypeOf[b] = "blob"
      BY FileObjectsAssumption
    <3> QED BY <3>1 DEF Init, GrantsTypeOK
  <2> QED BY <2>1, FileObjectsAssumption DEF Init, Tables
<1>2. Shape /\ HandlerInv
  BY DEF Init, Shape, HandlerInv, HandlerType, HandlerPlace, Runs
<1>3. OwnedInv
  BY Consts DEF Init, OwnedInv
<1>4. OwningInv /\ BuryingInv
  BY DEF Init, OwningInv, OwningOf, Unborn, Pending, Runs, BuryingInv, BuryingOf
<1>5. BuriedInv
  BY DEF Init, BuriedInv
<1> QED BY <1>1, <1>2, <1>3, <1>4, <1>5 DEF IInv

LEMMA NextInv == IInv /\ [Next]_vars => IInv'
<1> SUFFICES ASSUME IInv, [Next]_vars PROVE IInv'
  OBVIOUS
<1>1. CASE NewService
  BY <1>1, NewServiceStep
<1>2. ASSUME NEW w \in Workers, Serving(w) PROVE IInv'
  BY <1>2, HandlerStep
<1>3. CASE Crash
  BY <1>3, CrashStep
<1>4. CASE UNCHANGED vars
  <2>1. UNCHANGED <<owners, records, versions, events, blobs, mu, handlers, bounds, history>> /\ UNCHANGED store
    BY <1>4 DEF vars, store
  <2>2. GrantsTypeOK'
    BY <2>1 DEF store, IInv, Tables, GrantsTypeOK
  <2> QED BY <2>1, <2>2, UnchangedStep
<1> QED BY <1>1, <1>2, <1>3, <1>4 DEF Next, Serving

--------------------------------------------------------------------------------
(* The theorems.                                                            *)

\* The inductive invariant holds in every reachable state: the tables, the
\* handlers' places, who owns what, and what a deletion has found and erased.
THEOREM InductiveInvariant == Spec => []IInv
<1> QED BY InitInv, NextInv, PTL DEF Spec

\* Every variable keeps its type; no worker is under the mutex that another holds.
THEOREM TypeCorrect == Spec => []TypeOK
<1>1. IInv => TypeOK
  <2> SUFFICES ASSUME IInv PROVE TypeOK
    OBVIOUS
  <2>0. \A w \in Workers : HandlerType(w) /\ HandlerPlace(w)
    BY DEF IInv, HandlerInv
  <2>1. ASSUME NEW w \in Workers
        PROVE  /\ at[w] \in {"idle"} \cup Unlocked \cup Locked \cup Writing
               /\ job[w] = None <=> at[w] = "idle"
               /\ at[w] \in Locked => mu = w
    <3>1. CASE job[w] = None
      BY <2>0, <3>1 DEF HandlerPlace, Locked
    <3>2. CASE job[w] # None
      <4>1. Place(job[w].op, at[w]) /\ (Guarded(job[w].op, at[w]) => mu = w)
        BY <2>0, <3>2 DEF HandlerPlace
      <4>2. at[w] \in Unlocked \cup Locked \cup Writing /\ at[w] # "idle"
        BY <4>1 DEF Place, Unlocked, Locked, Writing
      <4>3. at[w] \in Locked => Guarded(job[w].op, at[w])
        BY <4>1 DEF Place, Locked, Guarded
      <4> QED BY <3>2, <4>1, <4>2, <4>3
    <3> QED BY <3>1, <3>2
  <2>2. job \in [Workers -> Job \cup {None}] /\ at \in [Workers -> {"idle"} \cup Unlocked \cup Locked \cup Writing]
    BY <2>0, <2>1 DEF IInv, Shape, HandlerType
  <2>3. /\ fo \in [Workers -> FileObjectRecord \cup {None}] /\ listed \in [Workers -> SUBSET Blobs]
        /\ short \in [Workers -> BOOLEAN]
    BY <2>0 DEF IInv, Shape, HandlerType
  <2>4. /\ \A w \in Workers : todo[w] \subseteq IF Runs(w, "permissions") \/ at[w] = "erasing" THEN Blobs ELSE Grant
        /\ todo = [w \in Workers |-> todo[w]]
    BY <2>0 DEF IInv, Shape, HandlerType
  <2> QED BY <2>1, <2>2, <2>3, <2>4 DEF IInv, Tables, TypeOK
<1> QED BY <1>1, InductiveInvariant, PTL

\* A writer who adds a version never becomes the owner of its blob: who owns a
\* file owns it in Permissions, and the blobs of its versions, though three
\* components keep these facts and no transaction spans them.
THEOREM OwnersKeepTheirBlobs == Spec => []BlobOwnerIsFileOwner
<1>1. IInv => BlobOwnerIsFileOwner
  BY DEF IInv, OwnedInv, BlobOwnerIsFileOwner
<1> QED BY <1>1, InductiveInvariant, PTL

\* A file that is no longer listed, or shows its deletion in its history, has
\* lost the content of every version, but for those added after the deletion,
\* unless the deletion could not read their list or found it empty too early.
THEOREM DeletionErases == Spec => []DeletedMeansErased
<1>1. IInv => DeletedMeansErased
  <2> SUFFICES ASSUME IInv, NEW f \in Files, records[f] # None, {"misread", "unborn"} \cap excuses[f] = {},
                      f \notin ListFileObjects(records[f].Owner) \/ "delete" \in GetFileHistory(records[f].Owner, f),
                      NEW b \in versions[f] \ late
               PROVE  blobs[b] = "erased"
    BY DEF DeletedMeansErased
  <2>1. ~Excuse(f)
    BY DEF Excuse
  <2>2. f \notin ListFileObjects(records[f].Owner) => records[f].Deleted
    <3>1. records[f] \in FileObjectRecord
      BY DEF IInv, Tables
    <3> QED BY <3>1 DEF ListFileObjects, FileObjectRecord
  <2>3. "delete" \in GetFileHistory(records[f].Owner, f) => "delete" \in events[f]
    BY DEF GetFileHistory
  <2>4. "buried" \in excuses[f]
    BY <2>2, <2>3 DEF IInv, BuriedInv
  <2> QED BY <2>1, <2>4 DEF IInv, BuriedInv
<1> QED BY <1>1, InductiveInvariant, PTL

--------------------------------------------------------------------------------
(* The steps of a handler that goes on.                                     *)

Keeps(w) == job'[w] = job[w] /\ fo'[w] = fo[w] /\ listed'[w] = listed[w]
            /\ todo'[w] = todo[w] /\ short'[w] = short[w]

Loops(w, a, result) == /\ at[w] = a /\ at'[w] = a /\ job'[w] = job[w] /\ fo'[w] = fo[w] /\ listed'[w] = listed[w]
                       /\ short'[w] = (short[w] \/ result = "error")

\* Before the mutex is taken, and while it is.
Waits(w) ==
    \/ Lock(w) /\ mu = None /\ mu' = w /\ Keeps(w) /\ at[w] = "locking"
       /\ \/ job[w].op = "version" /\ at'[w] = "storing"
          \/ job[w].op = "permissions" /\ at'[w] = "changing"
          \/ job[w].op = "delete" /\ at'[w] = "listing"
    \/ CheckWrite(w) /\ Keeps(w) /\ job[w].op # "create" /\ at[w] = "checking" /\ at'[w] = "reading"
    \/ ReadFileObject(w) /\ job[w].op # "create" /\ at[w] = "reading"
       /\ job'[w] = job[w] /\ fo'[w] = records[job[w].file] /\ listed'[w] = listed[w]
       /\ todo'[w] = todo[w] /\ short'[w] = short[w]
       /\ at'[w] = IF job[w].op = "metadata" THEN "putting" ELSE "locking"

\* A create, and the content of a version.
Makes(w) ==
    \/ Store(w) /\ at[w] = "storing" /\ job[w].op \in {"create", "version"}
       /\ UnusedBlobs # {} /\ job'[w] = [job[w] EXCEPT !.blob = Oldest(UnusedBlobs)]
       /\ StoreBlob(Oldest(UnusedBlobs), OwnerOf(w))
       /\ fo'[w] = fo[w] /\ listed'[w] = listed[w] /\ todo'[w] = todo[w] /\ short'[w] = short[w]
       /\ at'[w] = IF job[w].op = "create" THEN "grantRead" ELSE "granting"
    \/ BootstrapGrant(w) /\ job[w].op = "create"
       /\ at[w] \in {"grantRead", "grantWrite", "grantBlob"}
       /\ at'[w] \in {"grantWrite", "grantBlob", "creating", "rollback"}
       /\ job'[w] = job[w] /\ fo'[w] = fo[w] /\ listed'[w] = listed[w] /\ short'[w] = short[w]
       /\ \A g \in todo'[w] : g \in todo[w] \/ g.resource = IF at[w] = "grantBlob" THEN job[w].blob ELSE job[w].file
    \/ PutCreated(w) /\ Keeps(w) /\ job[w].op = "create" /\ at[w] = "creating"
       /\ \/ at'[w] = "rollback" /\ records' = records
          \/ at'[w] = "adding"
             /\ records' = [records EXCEPT ![job[w].file] =
                              [Owner |-> job[w].self, CurrentVersionRef |-> job[w].blob, Deleted |-> FALSE]]
    \/ GrantOwner(w) /\ Keeps(w) /\ job[w].op = "version" /\ at[w] = "granting"
       /\ at'[w] \in {"listing", "discarding"}

\* Lists and loops.
Mirrors(w) ==
    \/ List(w) /\ at[w] = "listing" /\ job[w].op \in {"version", "permissions", "delete"}
       /\ at'[w] = (IF job[w].op = "delete" THEN "erasing" ELSE "mirroring")
       /\ job'[w] = job[w] /\ fo'[w] = fo[w] /\ short'[w] = short[w]
       /\ \/ todo'[w] = WhatToList(w) /\ (versions[job[w].file] = {} => "unborn" \in excuses'[job[w].file])
          \/ todo'[w] = {} /\ "misread" \in excuses'[job[w].file]
       /\ listed'[w] = IF job[w].op = "version" THEN {} ELSE todo'[w]
    \/ MirrorReaders(w) /\ job[w].op = "version"
       /\ \E h \in todo[w], result \in Results :
             /\ GrantPermission(Access(fo[w].Owner, h.subject, storageRetrieveBlobAction, job[w].blob, h.scope), result)
             /\ Loops(w, "mirroring", result) /\ todo'[w] = todo[w] \ {h}
    \/ ReadersMirrored(w) /\ Keeps(w) /\ job[w].op = "version" /\ todo[w] = {}
       /\ at[w] = "mirroring" /\ at'[w] = "adding"
    \/ MirrorVersions(w) /\ job[w].op = "permissions" /\ todo[w] # {}
       /\ \E result \in Results :
             /\ IF job[w].change.Grant
                THEN GrantPermission(Access(fo[w].Owner, job[w].change.Subject, storageRetrieveBlobAction,
                                            Oldest(todo[w]), job[w].change.Scope), result)
                ELSE RevokePermission(fo[w].Owner, job[w].change.Subject, storageRetrieveBlobAction,
                                      Oldest(todo[w]), result)
             /\ Loops(w, "mirroring", result) /\ todo'[w] = todo[w] \ {Oldest(todo[w])}
    \/ VersionsMirrored(w) /\ Keeps(w) /\ job[w].op = "permissions" /\ todo[w] = {}
       /\ at[w] = "mirroring" /\ at'[w] = "putting"
    \/ EraseBlob(w) /\ job[w].op = "delete" /\ todo[w] # {}
       /\ \E result \in Results : /\ DeleteBlob(Oldest(todo[w]), fo[w].Owner, result)
                                  /\ Loops(w, "erasing", result) /\ todo'[w] = todo[w] \ {Oldest(todo[w])}
    \/ BlobsErased(w) /\ job[w].op = "delete" /\ at[w] = "erasing" /\ at'[w] = "revoking"
       /\ job'[w] = job[w] /\ fo'[w] = fo[w] /\ listed'[w] = listed[w] /\ short'[w] = short[w]
       /\ \A g \in todo'[w] : g.resource \in {job[w].file} \cup listed[w]
    \/ RevokeGrant(w) /\ job[w].op = "delete"
       /\ Loops(w, "revoking", "ok") /\ todo'[w] \subseteq todo[w]

\* What is changed by name, and the end.
Writes(w) ==
    \/ ChangeAccess(w) /\ Keeps(w) /\ job[w].op = "permissions" /\ at[w] = "changing"
       /\ at'[w] = (IF job[w].change.Action = ActionRead THEN "listing" ELSE "putting")
       /\ IF job[w].change.Grant
          THEN putGrant(Access(job[w].self, job[w].change.Subject, job[w].change.Action, job[w].file, job[w].change.Scope))
          ELSE removeGrant(job[w].change.Subject, job[w].change.Action, job[w].file)
    \/ AddVersion(w) /\ at[w] = "adding"
       /\ job'[w] = job[w] /\ listed'[w] = listed[w] /\ todo'[w] = todo[w] /\ short'[w] = short[w]
       /\ versions' = [versions EXCEPT ![job[w].file] = @ \cup {job[w].blob}]
       /\ \/ job[w].op = "create" /\ at'[w] = "logging" /\ fo'[w] = fo[w]
          \/ job[w].op = "version" /\ at'[w] = "putting" /\ fo'[w] = [fo[w] EXCEPT !.CurrentVersionRef = job[w].blob]
    \/ GrantsRevoked(w) /\ job[w].op = "delete" /\ at[w] = "revoking" /\ at'[w] = "putting"
       /\ job'[w] = job[w] /\ listed'[w] = listed[w] /\ todo'[w] = todo[w] /\ short'[w] = short[w]
       /\ fo'[w] = [fo[w] EXCEPT !.Deleted = TRUE]
    \/ PutFileObject(w) /\ Keeps(w) /\ job[w].op # "create" /\ at[w] = "putting" /\ at'[w] = "logging"
       /\ records' = [records EXCEPT ![job[w].file] = fo[w]]

Walks(w) == Waits(w) \/ Makes(w) \/ Mirrors(w) \/ Writes(w)

LEMMA GoesOn ==
    ASSUME Tables, Shape, HandlerInv, NEW w \in Workers, Serving(w), job[w] # None, job'[w] # None
    PROVE  Walks(w)
<1>0. HandlerType(w) /\ HandlerPlace(w) /\ Place(job[w].op, at[w]) /\ job[w].file \in Files
      /\ excuses \in [Files -> SUBSET {"cutShort", "misread", "unborn", "buried"}]
  BY JobIs DEF HandlerInv, Tables
<1>e. ~Ends(w)
  BY EndsIs DEF Ended
<1>m. \A a, b : Moves(w, a, b) => at[w] = a /\ at'[w] = b
  BY MovesIs
<1>1. CASE \E r \in Requests : Request(w, r)
  BY <1>0, <1>1, <1>m DEF Request, Place
<1>2. CASE Lock(w)
  BY <1>0, <1>2, <1>m DEF Lock, Place, Walks, Waits, Keeps
<1>3. CASE CheckWrite(w)
  BY <1>0, <1>3, <1>m, <1>e DEF CheckWrite, Place, Walks, Waits, Keeps
<1>4. CASE ReadFileObject(w)
  BY <1>0, <1>4, <1>m, <1>e DEF ReadFileObject, Place, Walks, Waits, Shape
<1>5. CASE Store(w)
  <2>1. /\ at[w] = "storing" /\ UnusedBlobs # {} /\ StoreBlob(Oldest(UnusedBlobs), OwnerOf(w))
        /\ at'[w] = (IF job[w].op = "create" THEN "grantRead" ELSE "granting")
        /\ job' = [job EXCEPT ![w].blob = Oldest(UnusedBlobs)]
        /\ UNCHANGED <<mu, fo, listed, todo, short>>
    BY <1>5, <1>m, <1>e DEF Store, OwnerOf
  <2>2. job'[w] = [job[w] EXCEPT !.blob = Oldest(UnusedBlobs)]
    BY <2>1 DEF Shape
  <2>3. job[w].op \in {"create", "version"}
    BY <1>0, <2>1 DEF Place
  <2>4. Makes(w)
    BY <1>5, <2>1, <2>2, <2>3 DEF Makes
  <2> QED BY <2>4 DEF Walks
<1>6. CASE BootstrapGrant(w)
  <2>1. PICK r, g : /\ at[w] \in {"grantRead", "grantWrite", "grantBlob"}
                    /\ r = (IF at[w] = "grantBlob" THEN job[w].blob ELSE job[w].file) /\ g.resource = r
                    /\ at'[w] \in {"grantWrite", "grantBlob", "creating", "rollback"}
                    /\ todo'[w] = todo[w] \cup {g} \/ todo'[w] = todo[w]
                    /\ UNCHANGED <<mu, job, fo, listed, short>>
    BY <1>6, <1>m DEF BootstrapGrant, bootstrap, Shape, Access
  <2>2. job[w].op = "create"
    BY <1>0, <2>1 DEF Place
  <2>3. Makes(w)
    BY <1>6, <2>1, <2>2 DEF Makes
  <2> QED BY <2>3 DEF Walks
<1>7. CASE PutCreated(w)
  BY <1>0, <1>7, <1>m DEF PutCreated, Place, Walks, Makes, Keeps
<1>8. CASE GrantOwner(w)
  BY <1>0, <1>8, <1>m DEF GrantOwner, Place, Walks, Makes, Keeps
<1>9. CASE List(w)
  <2>1. /\ at[w] = "listing" /\ at'[w] = (IF job[w].op = "delete" THEN "erasing" ELSE "mirroring")
        /\ UNCHANGED <<job, fo, short>>
        /\ \/ /\ todo'[w] = WhatToList(w)
              /\ Excused(w, IF versions[job[w].file] = {} THEN {"unborn"} ELSE {})
           \/ todo'[w] = {} /\ Excused(w, {"misread"})
        /\ listed'[w] = IF job[w].op = "version" THEN {} ELSE todo'[w]
    BY <1>9, <1>m DEF List, Shape
  <2>2. job[w].op \in {"version", "permissions", "delete"}
    BY <1>0, <2>1 DEF Place
  <2>3. \A es : Excused(w, es) => es \subseteq excuses'[job[w].file]
    BY <1>0 DEF Excused
  <2>4. /\ Excused(w, IF versions[job[w].file] = {} THEN {"unborn"} ELSE {}) /\ versions[job[w].file] = {}
             => "unborn" \in excuses'[job[w].file]
        /\ Excused(w, {"misread"}) => "misread" \in excuses'[job[w].file]
    BY <2>3
  <2>5. Mirrors(w)
    BY <1>9, <2>1, <2>2, <2>4 DEF Mirrors
  <2> QED BY <2>5 DEF Walks
<1>l. ASSUME NEW a, NEW i, NEW r, LoopStep(w, a, i, r)
      PROVE  Loops(w, a, r) /\ todo'[w] = todo[w] \ {i} /\ at[w] = a
  BY <1>l DEF LoopStep, Loops, Shape
<1>10. CASE MirrorReaders(w)
  <2>1. job[w].op = "version"
        /\ \E h \in todo[w], result \in Results :
             /\ GrantPermission(Access(fo[w].Owner, h.subject, storageRetrieveBlobAction, job[w].blob, h.scope), result)
             /\ Loops(w, "mirroring", result) /\ todo'[w] = todo[w] \ {h}
    BY <1>10, <1>l DEF MirrorReaders, Runs
  <2> QED BY <1>10, <2>1 DEF Walks, Mirrors
<1>11. CASE ReadersMirrored(w)
  BY <1>11, <1>m DEF ReadersMirrored, Runs, Walks, Mirrors, Keeps
<1>12. CASE MirrorVersions(w)
  <2>1. PICK result \in Results :
             /\ IF job[w].change.Grant
                THEN GrantPermission(Access(fo[w].Owner, job[w].change.Subject, storageRetrieveBlobAction,
                                            Oldest(todo[w]), job[w].change.Scope), result)
                ELSE RevokePermission(fo[w].Owner, job[w].change.Subject, storageRetrieveBlobAction,
                                      Oldest(todo[w]), result)
             /\ LoopStep(w, "mirroring", Oldest(todo[w]), result)
             /\ job[w].op = "permissions" /\ todo[w] # {}
    BY <1>12 DEF MirrorVersions, Runs
  <2>2. Loops(w, "mirroring", result) /\ todo'[w] = todo[w] \ {Oldest(todo[w])}
    BY <1>l, <2>1
  <2> QED BY <1>12, <2>1, <2>2 DEF Walks, Mirrors
<1>13. CASE VersionsMirrored(w)
  BY <1>13, <1>m DEF VersionsMirrored, Runs, Walks, Mirrors, Keeps
<1>14. CASE EraseBlob(w)
  <2>1. PICK result \in Results : /\ DeleteBlob(Oldest(todo[w]), fo[w].Owner, result)
                                  /\ LoopStep(w, "erasing", Oldest(todo[w]), result)
                                  /\ todo[w] # {} /\ at[w] = "erasing"
    BY <1>14 DEF EraseBlob
  <2>2. Loops(w, "erasing", result) /\ todo'[w] = todo[w] \ {Oldest(todo[w])}
    BY <1>l, <2>1
  <2>3. job[w].op = "delete"
    BY <1>0, <2>1 DEF Place
  <2> QED BY <1>14, <2>1, <2>2, <2>3 DEF Walks, Mirrors
<1>15. CASE BlobsErased(w)
  <2>1. PICK rs : /\ rs \subseteq {job[w].file} \cup listed[w]
                  /\ at[w] = "erasing" /\ at'[w] = "revoking" /\ UNCHANGED <<job, fo, listed, short>>
                  /\ todo' = [todo EXCEPT ![w] = UNION {grantsForResource(r) : r \in rs}]
    <3>1. PICK hidden \in SUBSET ({job[w].file} \cup listed[w]) :
             todo' = [todo EXCEPT ![w] = UNION {grantsForResource(r) : r \in ({job[w].file} \cup listed[w]) \ hidden}]
      BY <1>15, <1>e DEF BlobsErased, Fails
    <3>2. at[w] = "erasing" /\ at'[w] = "revoking" /\ UNCHANGED <<job, fo, listed, short>>
      BY <1>15, <1>m, <1>e DEF BlobsErased, Fails
    <3> QED BY <3>1, <3>2
  <2>2. \A g \in todo'[w] : g.resource \in {job[w].file} \cup listed[w]
    BY <2>1 DEF Shape, grantsForResource
  <2>3. job[w].op = "delete"
    BY <1>0, <2>1 DEF Place
  <2> QED BY <1>15, <2>1, <2>2, <2>3 DEF Walks, Mirrors
<1>16. CASE RevokeGrant(w)
  <2>1. PICK g : LoopStep(w, "revoking", g, "ok") /\ at[w] = "revoking"
    BY <1>16 DEF RevokeGrant
  <2>2. Loops(w, "revoking", "ok") /\ todo'[w] \subseteq todo[w]
    BY <1>l, <2>1
  <2>3. job[w].op = "delete"
    BY <1>0, <2>1 DEF Place
  <2> QED BY <1>16, <2>2, <2>3 DEF Walks, Mirrors
<1>17. CASE ChangeAccess(w)
  <2>1. at[w] = "changing" /\ at'[w] = (IF job[w].change.Action = ActionRead THEN "listing" ELSE "putting") /\ Keeps(w)
    BY <1>17, <1>e, <1>m DEF ChangeAccess, Fails, Keeps
  <2>2. IF job[w].change.Grant
        THEN GrantPermission(Access(job[w].self, job[w].change.Subject, job[w].change.Action, job[w].file,
                                    job[w].change.Scope), "ok")
        ELSE RevokePermission(job[w].self, job[w].change.Subject, job[w].change.Action, job[w].file, "ok")
    BY <1>17, <1>e DEF ChangeAccess, Fails
  <2>3. IF job[w].change.Grant
        THEN putGrant(Access(job[w].self, job[w].change.Subject, job[w].change.Action, job[w].file, job[w].change.Scope))
        ELSE removeGrant(job[w].change.Subject, job[w].change.Action, job[w].file)
    BY <2>2, CallsIs
  <2>4. job[w].op = "permissions"
    BY <1>0, <2>1 DEF Place
  <2> QED BY <1>17, <2>1, <2>3, <2>4 DEF Walks, Writes
<1>18. CASE AddVersion(w)
  <2>1. /\ at[w] = "adding" /\ UNCHANGED <<job, listed, todo, short>>
        /\ versions' = [versions EXCEPT ![job[w].file] = @ \cup {job[w].blob}]
        /\ \/ job[w].op = "create" /\ at'[w] = "logging" /\ fo' = fo
           \/ job[w].op # "create" /\ at'[w] = "putting" /\ fo' = [fo EXCEPT ![w].CurrentVersionRef = job[w].blob]
    BY <1>18, <1>m DEF AddVersion
  <2>2. job[w].op \in {"create", "version"}
    BY <1>0, <2>1 DEF Place
  <2>3. fo' = [fo EXCEPT ![w].CurrentVersionRef = job[w].blob]
          => fo'[w] = [fo[w] EXCEPT !.CurrentVersionRef = job[w].blob]
    BY DEF Shape
  <2>4. Writes(w)
    BY <1>18, <2>1, <2>2, <2>3 DEF Writes
  <2> QED BY <2>4 DEF Walks
<1>19. CASE GrantsRevoked(w)
  <2>1. /\ at[w] = "revoking" /\ at'[w] = "putting" /\ UNCHANGED <<job, listed, todo, short>>
        /\ fo' = [fo EXCEPT ![w].Deleted = TRUE]
    BY <1>19, <1>m DEF GrantsRevoked
  <2>2. fo'[w] = [fo[w] EXCEPT !.Deleted = TRUE]
    BY <2>1 DEF Shape
  <2>3. job[w].op = "delete"
    BY <1>0, <2>1 DEF Place
  <2> QED BY <1>19, <2>1, <2>2, <2>3 DEF Walks, Writes
<1>20. CASE PutFileObject(w)
  BY <1>0, <1>20, <1>m, <1>e DEF PutFileObject, Fails, Place, Walks, Writes, Keeps
<1>21. CASE RollBack(w) \/ Discard(w) \/ Panic(w) \/ AddEvent(w)
  BY <1>21, <1>e DEF RollBack, Discard, Panic, Fails, AddEvent
<1> QED BY <1>1, <1>2, <1>3, <1>4, <1>5, <1>6, <1>7, <1>8, <1>9, <1>10, <1>11, <1>12, <1>13, <1>14, <1>15,
           <1>16, <1>17, <1>18, <1>19, <1>20, <1>21 DEF Serving, Serve

\* A handler ends with an error reported, or before it has changed anything, or
\* all of it done.
LEMMA HowEnds ==
    ASSUME Tables, Shape, HandlerInv, NEW w \in Workers, Serving(w), job[w] # None, job'[w] = None
    PROVE  /\ Ends(w)
           /\ \/ "cutShort" \in excuses'[job[w].file]
              \/ at[w] \in {"storing", "rollback", "discarding", "checking", "reading"}
              \/ AddEvent(w) /\ at[w] = "logging" /\ ~short[w]
<1>0. HandlerType(w) /\ Place(job[w].op, at[w]) /\ job[w].file \in Files
      /\ excuses \in [Files -> SUBSET {"cutShort", "misread", "unborn", "buried"}]
  BY JobIs DEF HandlerInv, Tables
<1>1. ASSUME NEW es, Excused(w, es) PROVE es \subseteq excuses'[job[w].file]
  BY <1>0, <1>1 DEF Excused
<1>2. ASSUME Fails(w) PROVE "cutShort" \in excuses'[job[w].file] /\ Ends(w)
  BY <1>1, <1>2 DEF Fails
<1>3. CASE job' = job
  BY <1>3
<1>4. CASE \E r \in Requests : Request(w, r)
  <2>1. \E r \in Requests : r = None
    BY <1>4 DEF Request, Shape
  <2> QED BY <2>1, Consts
<1>5. CASE Store(w)
  <2>1. CASE Ends(w)
    BY <1>5, <2>1 DEF Store
  <2>2. CASE ~Ends(w)
    <3>1. job'[w] = [job[w] EXCEPT !.blob = Oldest(UnusedBlobs)] /\ UnusedBlobs # {}
      BY <1>5, <2>2 DEF Store, Shape
    <3>2. Oldest(UnusedBlobs) \in Blobs
      BY <3>1, OldestIs DEF UnusedBlobs
    <3>3. job'[w] \in Job
      BY <1>0, <3>1, <3>2 DEF HandlerType, Job
    <3> QED BY <3>3, Consts
  <2> QED BY <2>1, <2>2
<1>6. CASE RollBack(w) \/ Discard(w) \/ CheckWrite(w) \/ ReadFileObject(w)
  BY <1>3, <1>6 DEF RollBack, Discard, CheckWrite, ReadFileObject
<1>7. CASE Panic(w)
  BY <1>2, <1>7 DEF Panic
<1>8. CASE AddEvent(w)
  <2>1. at[w] = "logging" /\ Ends(w) /\ Excused(w, IF short[w] THEN {"cutShort"} ELSE {})
    BY <1>8 DEF AddEvent
  <2>2. short[w] => "cutShort" \in excuses'[job[w].file]
    <3>1. (IF short[w] THEN {"cutShort"} ELSE {}) \subseteq excuses'[job[w].file]
      BY <1>1, <2>1
    <3> QED BY <3>1
  <2> QED BY <1>8, <2>1, <2>2
<1>9. CASE ChangeAccess(w) \/ BlobsErased(w) \/ PutFileObject(w)
  BY <1>2, <1>3, <1>9 DEF ChangeAccess, BlobsErased, PutFileObject
<1>10. CASE Lock(w) \/ BootstrapGrant(w) \/ PutCreated(w) \/ List(w) \/ GrantOwner(w) \/ ReadersMirrored(w)
           \/ AddVersion(w) \/ VersionsMirrored(w) \/ GrantsRevoked(w)
  BY <1>3, <1>10 DEF Lock, BootstrapGrant, PutCreated, List, GrantOwner, ReadersMirrored, AddVersion,
                     VersionsMirrored, GrantsRevoked
<1>11. CASE MirrorReaders(w) \/ MirrorVersions(w) \/ EraseBlob(w) \/ RevokeGrant(w)
  BY <1>3, <1>11 DEF MirrorReaders, MirrorVersions, EraseBlob, RevokeGrant, LoopStep
<1> QED BY <1>4, <1>5, <1>6, <1>7, <1>8, <1>9, <1>10, <1>11 DEF Serving, Serve

--------------------------------------------------------------------------------
(* The inductive invariant: who can read what.                              *)

Active(s, a, r) == activeGrant(s, a, r) # {}
Reads(s, f) == Active(s, ActionRead, f)
Holds(s, b) == Active(s, storageRetrieveBlobAction, b)

\* Who is granted anything is granted it on something owned, and no file exists
\* before its policy.
KnownInv ==
    /\ \A g \in grants : owners[g.resource] # None
    /\ "blob" \in policies
    /\ \A f \in Files : records[f] # None => "file_object" \in policies
    /\ \A w \in Workers : job[w] # None => "file_object" \in policies

\* The mutex is held where it should be, and nowhere else.
MutexInv == mu # None => job[mu] # None /\ Guarded(job[mu].op, at[mu])

\* Until its record is put, a file is of the handler that creates it.
AloneInv ==
    \A w \in Workers : Runs(w, "create") /\ at[w] \notin {"adding", "logging"} =>
        /\ records[job[w].file] = None
        /\ \A u \in Workers \ {w} : job[u] # None => job[u].file # job[w].file

\* The handler has stored a blob that is no version yet.
Carries(w) == job[w] # None /\ Past(job[w].op, at[w]) /\ at[w] \notin {"putting", "logging"}

\* No blob is a version of two files, nor of any while a handler carries it.
ApartInv ==
    /\ \A f \in Files : \A b \in versions[f] : blobs[b] # "none"
    /\ \A f, g \in Files : f # g => versions[f] \cap versions[g] = {}
    /\ \A w \in Workers : Carries(w) =>
          /\ blobs[job[w].blob] # "none"
          /\ \A f \in Files : job[w].blob \notin versions[f]
          /\ \A u \in Workers \ {w} : Carries(u) => job[u].blob # job[w].blob

\* The grants and blobs that a handler undoes are its own or its file's.
ReachOf(w) ==
    /\ Runs(w, "create") => \A g \in todo[w] : at[w] # "storing" /\ g.resource \in {job[w].file, job[w].blob}
    /\ Runs(w, "delete") =>
          /\ at[w] \in {"erasing", "revoking"} => listed[w] \subseteq versions[job[w].file]
          /\ at[w] = "erasing" => todo[w] \subseteq versions[job[w].file]
          /\ at[w] = "revoking" => \A g \in todo[w] : g.resource \in {job[w].file} \cup versions[job[w].file]
ReachInv == \A w \in Workers : ReachOf(w)

--------------------------------------------------------------------------------
(* What a call does to the grants.                                          *)

LEMMA PutIs ==
    ASSUME NEW g \in Grant, putGrant(g)
    PROVE  /\ Active(g.subject, g.action, g.resource)'
           /\ \A s, a, r : \/ s = g.subject /\ a = g.action /\ r = g.resource
                           \/ Active(s, a, r)' <=> Active(s, a, r)
BY DEF putGrant, Active, activeGrant, SameKey

LEMMA RemoveIs ==
    ASSUME NEW x, NEW y, NEW z, removeGrant(x, y, z)
    PROVE  /\ ~Active(x, y, z)'
           /\ \A s, a, r : (s = x /\ a = y /\ r = z) \/ (Active(s, a, r)' <=> Active(s, a, r))
BY DEF removeGrant, Active, activeGrant

LEMMA StoreIs ==
    ASSUME UNCHANGED store
    PROVE  \A s, a, r : Active(s, a, r)' <=> Active(s, a, r)
BY DEF store, Active, activeGrant

\* Where w's step may change what s may do with r.
Touches(w, s, a, r) ==
    \/ /\ Store(w) /\ job'[w] # None /\ a = storageRetrieveBlobAction
       /\ UnusedBlobs # {} /\ r = Oldest(UnusedBlobs) /\ s = OwnerOf(w)
    \/ /\ BootstrapGrant(w) /\ s = job[w].self
       /\ \/ at[w] = "grantRead" /\ r = job[w].file
          \/ at[w] = "grantWrite" /\ r = job[w].file /\ a = ActionWrite
          \/ at[w] = "grantBlob" /\ r = job[w].blob
    \/ RollBack(w) /\ r \in {job[w].file, job[w].blob}
    \/ GrantOwner(w) /\ s = fo[w].Owner /\ r = job[w].blob
    \/ MirrorReaders(w) /\ r = job[w].blob /\ \E h \in todo[w] : s = h.subject
    \/ ChangeAccess(w) /\ s = job[w].change.Subject /\ a = job[w].change.Action /\ r = job[w].file
    \/ MirrorVersions(w) /\ s = job[w].change.Subject /\ a = storageRetrieveBlobAction
       /\ todo[w] # {} /\ r = Oldest(todo[w])
    \/ RevokeGrant(w) /\ r \in {job[w].file} \cup versions[job[w].file]

LEMMA Touched ==
    ASSUME Tables, Shape, HandlerInv, OwnedInv, OwningInv, ReachInv, NEW w \in Workers, Serving(w),
           NEW s, NEW a, NEW r, ~(Active(s, a, r)' <=> Active(s, a, r))
    PROVE  Touches(w, s, a, r) /\ job[w] # None /\ Place(job[w].op, at[w])
<1>0. HandlerType(w) /\ HandlerPlace(w)
  BY DEF HandlerInv
<1>u. ~UNCHANGED store
  BY StoreIs
<1>j. job[w] # None
  <2>1. CASE \E q \in Requests : Request(w, q)
    BY <1>u, <2>1 DEF Request
  <2>2. CASE job[w] = None
    <3>1. at[w] = "idle" /\ todo[w] = {}
      BY <1>0, <2>2 DEF HandlerPlace
    <3> QED BY <1>u, <2>1, <3>1, WhoChanges
            DEF Store, BootstrapGrant, bootstrap, RollBack, GrantOwner, MirrorReaders, ChangeAccess,
                MirrorVersions, RevokeGrant
  <2> QED BY <2>2
<1>p. Place(job[w].op, at[w]) /\ job[w].file \in Files /\ job[w].self \in Subjects
      /\ (Past(job[w].op, at[w]) => job[w].blob \in Blobs)
      /\ (job[w].op = "permissions" => job[w].change \in Change)
      /\ (job[w].op # "create" /\ at[w] \notin {"checking", "reading"} => fo[w].Owner \in Subjects)
  BY <1>0, <1>j, JobIs
<1>g. ASSUME NEW g \in Grant, NEW result, GrantPermission(g, result)
      PROVE  s = g.subject /\ a = g.action /\ r = g.resource
  BY <1>u, <1>g, CallsIs, PutIs
<1>r. ASSUME NEW x, NEW y, NEW z, NEW o, NEW result, RevokePermission(o, x, y, z, result)
      PROVE  s = x /\ a = y /\ r = z
  BY <1>u, <1>r, CallsIs, RemoveIs
<1>1. CASE Store(w)
  <2>1. ~Ends(w) \/ ~UNCHANGED store
    BY <1>u
  <2>2. /\ at[w] = "storing" /\ UnusedBlobs # {}
        /\ putGrant(Access(OwnerOf(w), OwnerOf(w), storageRetrieveBlobAction, Oldest(UnusedBlobs), scopeFull))
        /\ job'[w] = [job[w] EXCEPT !.blob = Oldest(UnusedBlobs)]
    BY <1>1, <1>u DEF Store, StoreBlob, OwnerOf, Shape
  <2>3. Oldest(UnusedBlobs) \in Blobs
    BY <2>2, OldestIs DEF UnusedBlobs
  <2>4. OwnerOf(w) \in Subjects
    BY <1>p, <2>2 DEF OwnerOf
  <2>5. Access(OwnerOf(w), OwnerOf(w), storageRetrieveBlobAction, Oldest(UnusedBlobs), scopeFull) \in Grant
    BY <2>3, <2>4, AccessIs, Consts
  <2>6. s = OwnerOf(w) /\ a = storageRetrieveBlobAction /\ r = Oldest(UnusedBlobs)
    BY <2>2, <2>5, PutIs DEF Access
  <2>7. job'[w] # None
    <3>1. job'[w] \in Job
      BY <1>0, <1>j, <2>2, <2>3 DEF HandlerType, Job
    <3> QED BY <3>1, Consts
  <2> QED BY <1>1, <1>j, <1>p, <2>2, <2>6, <2>7 DEF Touches
<1>2. CASE BootstrapGrant(w)
  <2>1. PICK q, g : /\ at[w] \in {"grantRead", "grantWrite", "grantBlob"}
                    /\ q = (IF at[w] = "grantBlob" THEN job[w].blob ELSE job[w].file)
                    /\ g = Access(job[w].self, job[w].self, bootstrap[at[w]].action, q, scopeFull)
                    /\ \E result : GrantPermission(g, result)
    BY <1>2 DEF BootstrapGrant, bootstrap
  <2>2. job[w].op = "create"
    BY <1>p, <2>1 DEF Place
  <2>3. q \in Resources /\ bootstrap[at[w]].action \in Actions
    BY <1>p, <2>1, <2>2, Consts DEF bootstrap, Past
  <2>4. g \in Grant
    BY <1>p, <2>1, <2>3, AccessIs, Consts
  <2>5. s = job[w].self /\ a = bootstrap[at[w]].action /\ r = q
    BY <1>g, <2>1, <2>4 DEF Access
  <2>6. at[w] = "grantWrite" => a = ActionWrite
    BY <2>5 DEF bootstrap
  <2> QED BY <1>2, <1>j, <1>p, <2>1, <2>5, <2>6 DEF Touches
<1>3. CASE RollBack(w)
  <2>1. at[w] = "rollback" /\ \E undone \in SUBSET todo[w] : grants' = grants \ undone
    BY <1>3 DEF RollBack
  <2>2. Runs(w, "create")
    BY <1>j, <1>p, <2>1 DEF Place, Runs
  <2>3. \A g \in todo[w] : g.resource \in {job[w].file, job[w].blob}
    BY <2>2 DEF ReachInv, ReachOf
  <2>4. PICK g : g \in activeGrant(s, a, r) /\ g \in todo[w]
    BY <2>1 DEF Active, activeGrant
  <2>5. r \in {job[w].file, job[w].blob}
    BY <2>3, <2>4 DEF activeGrant
  <2> QED BY <1>3, <1>j, <1>p, <2>5 DEF Touches
<1>4. CASE GrantOwner(w)
  <2>1. /\ at[w] = "granting"
        /\ \E result : GrantPermission(Access(fo[w].Owner, fo[w].Owner, storageRetrieveBlobAction, job[w].blob, scopeFull), result)
    BY <1>4 DEF GrantOwner
  <2>2. job[w].blob \in Blobs /\ fo[w].Owner \in Subjects
    BY <1>p, <2>1 DEF Place, Past
  <2>3. Access(fo[w].Owner, fo[w].Owner, storageRetrieveBlobAction, job[w].blob, scopeFull) \in Grant
    BY <2>2, AccessIs, Consts
  <2>4. s = fo[w].Owner /\ r = job[w].blob
    BY <1>g, <2>1, <2>3 DEF Access
  <2> QED BY <1>4, <1>j, <1>p, <2>4 DEF Touches
<1>5. CASE MirrorReaders(w)
  <2>1. PICK h \in todo[w], result \in Results :
          /\ GrantPermission(Access(fo[w].Owner, h.subject, storageRetrieveBlobAction, job[w].blob, h.scope), result)
          /\ at[w] = "mirroring" /\ job[w].op = "version"
    BY <1>5 DEF MirrorReaders, LoopStep, Runs
  <2>2. job[w].blob \in Blobs /\ fo[w].Owner \in Subjects /\ h.subject \in Subjects /\ h.scope \in Scopes
    BY <1>0, <1>p, <2>1 DEF Place, Past, HandlerType, Runs, Grant
  <2>3. Access(fo[w].Owner, h.subject, storageRetrieveBlobAction, job[w].blob, h.scope) \in Grant
    BY <2>2, AccessIs, Consts
  <2>4. s = h.subject /\ r = job[w].blob
    BY <1>g, <2>1, <2>3 DEF Access
  <2> QED BY <1>5, <1>j, <1>p, <2>4 DEF Touches
<1>6. CASE ChangeAccess(w)
  <2>1. PICK c : c = job[w].change
    OBVIOUS
  <2>2. /\ at[w] = "changing"
        /\ \E result : IF c.Grant
             THEN GrantPermission(Access(job[w].self, c.Subject, c.Action, job[w].file, c.Scope), result)
             ELSE RevokePermission(job[w].self, c.Subject, c.Action, job[w].file, result)
    BY <1>6, <2>1 DEF ChangeAccess
  <2>3. job[w].op = "permissions"
    BY <1>p, <2>2 DEF Place
  <2>4. c.Subject \in Subjects /\ c.Action \in Actions /\ c.Scope \in Scopes
    BY <1>p, <2>1, <2>3, Consts DEF Change
  <2>5. Access(job[w].self, c.Subject, c.Action, job[w].file, c.Scope) \in Grant
    BY <1>p, <2>4, AccessIs, Consts
  <2>6. s = c.Subject /\ a = c.Action /\ r = job[w].file
    BY <1>g, <1>r, <2>2, <2>5 DEF Access
  <2> QED BY <1>6, <1>j, <1>p, <2>1, <2>6 DEF Touches
<1>7. CASE MirrorVersions(w)
  <2>1. PICK c, b : c = job[w].change /\ b = Oldest(todo[w])
    OBVIOUS
  <2>2. /\ at[w] = "mirroring" /\ job[w].op = "permissions" /\ todo[w] # {}
        /\ \E result : IF c.Grant
             THEN GrantPermission(Access(fo[w].Owner, c.Subject, storageRetrieveBlobAction, b, c.Scope), result)
             ELSE RevokePermission(fo[w].Owner, c.Subject, storageRetrieveBlobAction, b, result)
    BY <1>7, <2>1 DEF MirrorVersions, LoopStep, Runs
  <2>3. c.Subject \in Subjects /\ c.Scope \in Scopes /\ fo[w].Owner \in Subjects
    BY <1>p, <2>1, <2>2 DEF Change
  <2>4. b \in Blobs
    <3>1. todo[w] \subseteq Blobs
      BY <1>0, <1>j, <2>2 DEF HandlerType, Runs
    <3> QED BY <2>1, <2>2, <3>1, OldestIs
  <2>5. Access(fo[w].Owner, c.Subject, storageRetrieveBlobAction, b, c.Scope) \in Grant
    BY <2>3, <2>4, AccessIs, Consts
  <2>6. s = c.Subject /\ a = storageRetrieveBlobAction /\ r = b
    BY <1>g, <1>r, <2>2, <2>5 DEF Access
  <2> QED BY <1>7, <1>j, <1>p, <2>1, <2>2, <2>6 DEF Touches
<1>8. CASE RevokeGrant(w)
  <2>1. PICK g, result : /\ RevokePermission(fo[w].Owner, g.subject, g.action, g.resource, result)
                         /\ at[w] = "revoking" /\ g \in NextToRevoke(w)
    BY <1>8 DEF RevokeGrant
  <2>2. g \in todo[w]
    BY <2>1 DEF NextToRevoke
  <2>3. Runs(w, "delete")
    BY <1>j, <1>p, <2>1 DEF Place, Runs
  <2>4. g.resource \in {job[w].file} \cup versions[job[w].file]
    BY <2>1, <2>2, <2>3 DEF ReachInv, ReachOf
  <2>5. r = g.resource
    BY <1>r, <2>1
  <2> QED BY <1>8, <1>j, <1>p, <2>4, <2>5 DEF Touches
<1> QED BY <1>1, <1>2, <1>3, <1>4, <1>5, <1>6, <1>7, <1>8, <1>u, WhoChanges

LEMMA Grows ==
    ASSUME IInv, NEW w \in Workers, Serving(w)
    PROVE  /\ IInv' /\ Others(w) /\ policies' = policies
           /\ \A f \in Files : /\ versions[f] \subseteq versions'[f] /\ excuses[f] \subseteq excuses'[f]
                               /\ records[f] # None => records'[f] # None /\ records'[f].Owner = records[f].Owner
           /\ \A b \in Blobs : blobs[b] # "none" => blobs'[b] # "none"
           /\ \A r \in Resources : owners[r] # None => owners'[r] = owners[r]
           /\ mu' = mu \/ Lock(w) \/ Ends(w)
<1>0. Tables /\ Shape /\ HandlerInv /\ OwnedInv /\ OwningInv
  BY DEF IInv
<1>1. IInv' /\ Others(w)
  BY <1>0, HandlerStep, Frame
<1>2. policies' = policies
  BY <1>0, GrantsMade DEF store, putGrant, removeGrant
<1>3. \A f \in Files : /\ versions[f] \subseteq versions'[f] /\ excuses[f] \subseteq excuses'[f]
                       /\ records[f] # None => records'[f] # None /\ records'[f].Owner = records[f].Owner
  BY <1>0, TablesStep, RecordsStep, RecordsOwner
<1>4. \A b \in Blobs : blobs[b] # "none" => blobs'[b] # "none"
  BY <1>0, BlobsStep
<1>5. \A r \in Resources : owners[r] # None => owners'[r] = owners[r]
  BY <1>0, OwnersKept
<1>6. mu' = mu \/ Lock(w) \/ Ends(w)
  <2>1. CASE \E r \in Requests : Request(w, r)
    BY <2>1 DEF Request
  <2>2. CASE Store(w) \/ BootstrapGrant(w) \/ RollBack(w) \/ PutCreated(w) \/ CheckWrite(w) \/ ReadFileObject(w)
    BY <2>2 DEF Store, BootstrapGrant, RollBack, PutCreated, CheckWrite, ReadFileObject
  <2>3. CASE List(w) \/ GrantOwner(w) \/ Discard(w) \/ ReadersMirrored(w) \/ AddVersion(w)
             \/ VersionsMirrored(w) \/ GrantsRevoked(w)
    BY <2>3 DEF List, GrantOwner, Discard, ReadersMirrored, AddVersion, VersionsMirrored, GrantsRevoked
  <2>4. CASE MirrorReaders(w) \/ MirrorVersions(w) \/ EraseBlob(w) \/ RevokeGrant(w)
    BY <2>4 DEF MirrorReaders, MirrorVersions, EraseBlob, RevokeGrant, LoopStep
  <2>5. CASE ChangeAccess(w) \/ BlobsErased(w) \/ PutFileObject(w) \/ AddEvent(w) \/ Panic(w)
    BY <2>5 DEF ChangeAccess, BlobsErased, PutFileObject, AddEvent, Panic, Fails
  <2> QED BY <2>1, <2>2, <2>3, <2>4, <2>5 DEF Serving, Serve
<1> QED BY <1>1, <1>2, <1>3, <1>4, <1>5, <1>6

LEMMA Distinct == /\ ActionRead # storageRetrieveBlobAction /\ ActionWrite # storageRetrieveBlobAction
                  /\ ActionRead # ActionWrite
BY DEF ActionRead, ActionWrite, storageRetrieveBlobAction

\* Whose step changes who may read f.
LEMMA ReadsTouched ==
    ASSUME IInv, ReachInv, NEW w \in Workers, Serving(w), NEW f \in Files, NEW s,
           ~(Reads(s, f)' <=> Reads(s, f))
    PROVE  /\ job[w] # None /\ job[w].file = f
           /\ \/ Runs(w, "create") /\ at[w] = "grantRead" /\ s = job[w].self
              \/ Runs(w, "create") /\ at[w] = "rollback"
              \/ ChangeAccess(w) /\ Runs(w, "permissions") /\ at[w] = "changing" /\ mu = w
                 /\ job[w].change.Action = ActionRead /\ s = job[w].change.Subject
              \/ RevokeGrant(w) /\ Runs(w, "delete") /\ at[w] = "revoking" /\ mu = w
<1>0. Tables /\ Shape /\ HandlerInv /\ OwnedInv /\ OwningInv
  BY DEF IInv
<1>1. Touches(w, s, ActionRead, f) /\ job[w] # None /\ Place(job[w].op, at[w])
  BY <1>0, Touched DEF Reads
<1>2. /\ Past(job[w].op, at[w]) => job[w].blob # f
      /\ f \notin versions[job[w].file]
      /\ job[w].file \in Files
      /\ Guarded(job[w].op, at[w]) => mu = w
  <2>1. HandlerType(w) /\ HandlerPlace(w)
    BY <1>0 DEF HandlerInv
  <2>2. job[w].file \in Files /\ (Past(job[w].op, at[w]) => job[w].blob \in Blobs)
    BY <1>1, <2>1, JobIs
  <2>3. versions[job[w].file] \subseteq Blobs
    BY <1>0, <2>2 DEF Tables
  <2> QED BY <1>1, <2>1, <2>2, <2>3, Consts DEF HandlerPlace
<1>3. CASE BootstrapGrant(w)
  <2>1. at[w] \in {"grantRead", "grantWrite", "grantBlob"}
    BY <1>3 DEF BootstrapGrant, bootstrap
  <2>2. Runs(w, "create") /\ (at[w] = "grantBlob" => Past(job[w].op, at[w]))
    BY <1>1, <2>1 DEF Place, Runs, Past
  <2>3. at[w] = "grantRead" /\ s = job[w].self /\ f = job[w].file
    BY <1>1, <1>2, <1>3, <2>1, <2>2, Distinct
       DEF Touches, Store, RollBack, GrantOwner, MirrorReaders, LoopStep, ChangeAccess, MirrorVersions, RevokeGrant
  <2> QED BY <1>1, <2>2, <2>3
<1>4. CASE RollBack(w) /\ f \in {job[w].file, job[w].blob}
  <2>1. at[w] = "rollback" /\ Runs(w, "create") /\ Past(job[w].op, at[w])
    BY <1>1, <1>4 DEF RollBack, Place, Runs, Past
  <2> QED BY <1>1, <1>2, <1>4, <2>1
<1>5. CASE (GrantOwner(w) \/ MirrorReaders(w)) /\ f = job[w].blob
  <2>1. at[w] \in {"granting", "mirroring"} /\ (at[w] = "mirroring" => job[w].op = "version")
    BY <1>5 DEF GrantOwner, MirrorReaders, LoopStep, Runs
  <2>2. Past(job[w].op, at[w])
    BY <1>1, <2>1 DEF Place, Past
  <2> QED BY <1>2, <1>5, <2>2
<1>6. CASE ChangeAccess(w) /\ s = job[w].change.Subject /\ ActionRead = job[w].change.Action /\ f = job[w].file
  <2>1. at[w] = "changing"
    BY <1>6 DEF ChangeAccess
  <2>2. Runs(w, "permissions") /\ Guarded(job[w].op, at[w])
    BY <1>1, <2>1 DEF Place, Runs, Guarded
  <2> QED BY <1>1, <1>2, <1>6, <2>1, <2>2
<1>7. CASE RevokeGrant(w) /\ f \in {job[w].file} \cup versions[job[w].file]
  <2>1. at[w] = "revoking"
    BY <1>7 DEF RevokeGrant
  <2>2. Runs(w, "delete") /\ Guarded(job[w].op, at[w])
    BY <1>1, <2>1 DEF Place, Runs, Guarded
  <2> QED BY <1>1, <1>2, <1>7, <2>1, <2>2
<1> QED BY <1>1, <1>3, <1>4, <1>5, <1>6, <1>7, Distinct DEF Touches

\* Whose step changes who may fetch b.
LEMMA HoldsTouched ==
    ASSUME IInv, ReachInv, NEW w \in Workers, Serving(w), NEW b \in Blobs, NEW s,
           ~(Holds(s, b)' <=> Holds(s, b))
    PROVE  /\ job[w] # None
           /\ \/ Store(w) /\ job'[w] # None /\ blobs[b] = "none" /\ b = Oldest(UnusedBlobs) /\ s = OwnerOf(w)
              \/ /\ Carries(w) /\ b = job[w].blob
                 /\ \/ Runs(w, "create") /\ (s = job[w].self \/ at[w] = "rollback")
                    \/ GrantOwner(w) /\ Runs(w, "version") /\ mu = w /\ s = fo[w].Owner
                    \/ MirrorReaders(w) /\ Runs(w, "version") /\ mu = w /\ \E h \in todo[w] : s = h.subject
              \/ /\ MirrorVersions(w) /\ Runs(w, "permissions") /\ mu = w /\ at[w] = "mirroring"
                 /\ s = job[w].change.Subject /\ b = Oldest(todo[w]) /\ b \in todo[w] /\ b \in versions[job[w].file]
              \/ RevokeGrant(w) /\ Runs(w, "delete") /\ mu = w /\ b \in versions[job[w].file]
<1>0. Tables /\ Shape /\ HandlerInv /\ OwnedInv /\ OwningInv
  BY DEF IInv
<1>1. Touches(w, s, storageRetrieveBlobAction, b) /\ job[w] # None /\ Place(job[w].op, at[w])
  BY <1>0, Touched DEF Holds
<1>2. HandlerType(w) /\ HandlerPlace(w) /\ (Guarded(job[w].op, at[w]) => mu = w)
  BY <1>0, <1>1 DEF HandlerInv, HandlerPlace
<1>3. job[w].file \in Files /\ b # job[w].file
  BY <1>1, <1>2, JobIs, Consts
<1>4. CASE Store(w) /\ job'[w] # None /\ UnusedBlobs # {} /\ b = Oldest(UnusedBlobs) /\ s = OwnerOf(w)
  <2>1. b \in UnusedBlobs
    BY <1>4, OldestIs DEF UnusedBlobs
  <2> QED BY <1>1, <1>4, <2>1 DEF UnusedBlobs
<1>5. CASE BootstrapGrant(w) /\ s = job[w].self /\ b = job[w].blob
  <2>1. at[w] \in {"grantRead", "grantWrite", "grantBlob"}
    BY <1>5 DEF BootstrapGrant, bootstrap
  <2>2. Runs(w, "create") /\ Carries(w)
    BY <1>1, <2>1 DEF Place, Runs, Past, Carries
  <2> QED BY <1>1, <1>5, <2>2
<1>6. CASE RollBack(w) /\ b \in {job[w].file, job[w].blob}
  <2>1. at[w] = "rollback"
    BY <1>6 DEF RollBack
  <2>2. Runs(w, "create") /\ Carries(w)
    BY <1>1, <2>1 DEF Place, Runs, Past, Carries
  <2> QED BY <1>1, <1>3, <1>6, <2>1, <2>2
<1>7. CASE /\ b = job[w].blob
           /\ \/ GrantOwner(w) /\ s = fo[w].Owner
              \/ MirrorReaders(w) /\ \E h \in todo[w] : s = h.subject
  <2>1. at[w] \in {"granting", "mirroring"} /\ (at[w] = "mirroring" => job[w].op = "version")
    BY <1>7 DEF GrantOwner, MirrorReaders, LoopStep, Runs
  <2>2. Runs(w, "version") /\ Carries(w) /\ Guarded(job[w].op, at[w])
    BY <1>1, <2>1 DEF Place, Runs, Past, Carries, Guarded
  <2> QED BY <1>1, <1>2, <1>7, <2>2
<1>8. CASE MirrorVersions(w) /\ s = job[w].change.Subject /\ todo[w] # {} /\ b = Oldest(todo[w])
  <2>1. Runs(w, "permissions") /\ at[w] = "mirroring"
    BY <1>8 DEF MirrorVersions, LoopStep
  <2>2. Guarded(job[w].op, at[w])
    BY <1>1, <2>1 DEF Runs, Guarded
  <2>3. todo[w] \subseteq versions[job[w].file] /\ todo[w] \subseteq Blobs
    BY <1>0, <1>2, <2>1 DEF OwningInv, OwningOf, HandlerType
  <2>4. b \in todo[w]
    BY <1>8, <2>3, OldestIs
  <2> QED BY <1>1, <1>2, <1>8, <2>1, <2>2, <2>3, <2>4
<1>9. CASE RevokeGrant(w) /\ b \in {job[w].file} \cup versions[job[w].file]
  <2>1. at[w] = "revoking"
    BY <1>9 DEF RevokeGrant
  <2>2. Runs(w, "delete") /\ Guarded(job[w].op, at[w])
    BY <1>1, <2>1 DEF Place, Runs, Guarded
  <2> QED BY <1>1, <1>2, <1>3, <1>9, <2>2
<1> QED BY <1>1, <1>3, <1>4, <1>5, <1>6, <1>7, <1>8, <1>9, Distinct DEF Touches

--------------------------------------------------------------------------------
(* Where the mutex is, and which blobs are whose.                           *)

LEMMA MutexStep ==
    ASSUME IInv, MutexInv, NEW w \in Workers, Serving(w)
    PROVE  MutexInv'
<1>0. Tables /\ Shape /\ HandlerInv /\ OwnedInv /\ OwningInv
  BY DEF IInv
<1>1. CASE mu' # w
  <2>1. SUFFICES ASSUME mu' # None PROVE job'[mu'] # None /\ Guarded(job'[mu'].op, at'[mu'])
    BY DEF MutexInv
  <2>2. mu' = mu /\ mu \in Workers \ {w}
    BY <1>0, <1>1, <2>1, Frame DEF Tables
  <2>3. Same(mu)
    BY <2>2, Grows DEF Others
  <2> QED BY <2>1, <2>2, <2>3 DEF Same, MutexInv
<1>2. CASE mu' = w
  <2>1. w # None
    BY Consts
  <2>2. ~Ends(w)
    BY <1>0, <1>2, <2>1, EndsIs
  <2>3. mu = w \/ Lock(w)
    BY <1>2, <2>2, Grows
  <2>4. job[w] # None
    <3>1. Lock(w) => at[w] = "locking"
      BY DEF Lock, Moves
    <3> QED BY <1>0, <2>1, <2>3, <3>1 DEF MutexInv, HandlerInv, HandlerPlace
  <2>5. job'[w] # None
    BY <1>0, <2>2, <2>4, HowEnds
  <2>6. Walks(w) /\ Place(job[w].op, at[w]) /\ job[w] \in Job
    BY <1>0, <2>4, <2>5, GoesOn, JobIs DEF HandlerInv
  <2>7. job'[w].op = job[w].op
    BY <2>6 DEF Walks, Waits, Makes, Mirrors, Writes, Keeps, Loops, Job
  <2>8. Guarded(job[w].op, at'[w])
    <3>1. CASE Lock(w)
      <4>1. at[w] = "locking"
        BY <3>1 DEF Lock, Moves
      <4> QED BY <2>6, <4>1 DEF Walks, Waits, Makes, Mirrors, Writes, Keeps, Loops, Guarded
    <3>2. CASE mu = w
      <4>1. Guarded(job[w].op, at[w])
        BY <2>1, <3>2 DEF MutexInv
      <4> QED BY <2>6, <4>1 DEF Walks, Waits, Makes, Mirrors, Writes, Keeps, Loops, Guarded, Place
    <3> QED BY <2>3, <3>1, <3>2
  <2> QED BY <1>2, <2>5, <2>7, <2>8 DEF MutexInv
<1> QED BY <1>1, <1>2

LEMMA KnownStep ==
    ASSUME IInv, KnownInv, NEW w \in Workers, Serving(w)
    PROVE  KnownInv'
<1>0. Tables /\ Shape /\ HandlerInv /\ OwnedInv /\ OwningInv
  BY DEF IInv
<1>g. /\ policies' = policies /\ Others(w)
      /\ \A r \in Resources : owners[r] # None => owners'[r] = owners[r]
  BY Grows
<1>1. \A g \in grants' : owners'[g.resource] # None
  <2>1. SUFFICES ASSUME NEW g \in grants' PROVE owners'[g.resource] # None
    OBVIOUS
  <2>2. CASE g \in grants
    <3>1. g.resource \in Resources /\ owners[g.resource] # None
      BY <1>0, <2>2 DEF KnownInv, Tables, GrantsTypeOK, Grant
    <3> QED BY <1>g, <3>1
  <2>3. CASE g \notin grants
    <3>1. PICK h \in Grant : putGrant(h)
      BY <1>0, <2>3, GrantsMade DEF store, removeGrant
    <3>2. g = h /\ h.resource \in Resources /\ h.grantor \in Subjects
      BY <2>3, <3>1 DEF putGrant, Grant
    <3> QED BY <1>0, <3>1, <3>2, Consts DEF putGrant, Tables, GrantsTypeOK
  <2> QED BY <2>2, <2>3
<1>2. \A f \in Files : records'[f] # None => "file_object" \in policies
  <2>1. \A f \in Files : records'[f] # None => records[f] # None \/ job[w] # None
    BY <1>0, RecordsOwner DEF Runs
  <2> QED BY <2>1 DEF KnownInv
<1>3. \A u \in Workers : job'[u] # None => "file_object" \in policies
  <2>1. job'[w] # None => job[w] # None \/ \E r \in Requests : Request(w, r)
    BY <1>0, NewFile
  <2>2. job'[w] # None => "file_object" \in policies
    BY <2>1 DEF KnownInv, Request, Free
  <2> QED BY <1>g, <2>2 DEF KnownInv, Others, Same
<1> QED BY <1>1, <1>2, <1>3, <1>g DEF KnownInv

LEMMA AloneStep ==
    ASSUME IInv, AloneInv, NEW w \in Workers, Serving(w)
    PROVE  AloneInv'
<1>0. Tables /\ Shape /\ HandlerInv /\ OwnedInv /\ OwningInv
  BY DEF IInv
<1>o. \A u \in Workers \ {w} : Same(u)
  BY Grows DEF Others
<1>f. \A f \in Files : records[f] = None /\ records'[f] # None =>
          job[w] # None /\ f = job[w].file /\ at'[w] = "adding"
  BY <1>0, RecordsOwner DEF Runs
<1>n. job'[w] # None =>
           \/ job[w] # None /\ job'[w].file = job[w].file /\ job'[w].op = job[w].op
           \/ /\ job[w] = None /\ job'[w].file \in Files
              /\ IF job'[w].op = "create" THEN Fresh(job'[w].file) ELSE records[job'[w].file] # None
  <2>1. job'[w] # None => job'[w].file \in Files
    BY Grows, JobIs DEF IInv, HandlerInv, HandlerType, Job
  <2> QED BY <1>0, <2>1, NewFile
<1>1. SUFFICES ASSUME NEW u \in Workers, Runs(u, "create")', at'[u] \notin {"adding", "logging"}
               PROVE  /\ records'[job'[u].file] = None
                      /\ \A v \in Workers \ {u} : job'[v] # None => job'[v].file # job'[u].file
  BY DEF AloneInv
<1>2. CASE u # w
  <2>1. Same(u) /\ Runs(u, "create") /\ at[u] \notin {"adding", "logging"}
    BY <1>1, <1>2, <1>o DEF Same, Runs
  <2>2. /\ records[job[u].file] = None /\ job[u].file \in Files
        /\ \A v \in Workers \ {u} : job[v] # None => job[v].file # job[u].file
    BY <1>0, <2>1, JobIs DEF AloneInv, HandlerInv, Runs
  <2>3. records'[job[u].file] = None
    BY <1>2, <1>f, <2>2
  <2>4. job'[w] # None => job'[w].file # job[u].file
    BY <1>2, <1>n, <2>1, <2>2 DEF Fresh, Runs
  <2> QED BY <1>o, <2>1, <2>2, <2>3, <2>4 DEF Same
<1>3. CASE u = w
  <2>1. CASE job[w] # None
    <3>1. Walks(w) /\ job'[w].op = job[w].op /\ job'[w].file = job[w].file /\ Place(job[w].op, at[w])
          /\ job[w].file \in Files
      BY <1>0, <1>1, <1>3, <1>n, <2>1, GoesOn, JobIs DEF Runs, HandlerInv
    <3>2. Runs(w, "create") /\ at[w] \notin {"adding", "logging"}
      BY <1>1, <1>3, <2>1, <3>1 DEF Runs, Walks, Waits, Makes, Mirrors, Writes, Keeps, Loops
    <3>3. /\ records[job[w].file] = None
          /\ \A v \in Workers \ {w} : job[v] # None => job[v].file # job[w].file
      BY <3>2 DEF AloneInv
    <3> QED BY <1>1, <1>3, <1>f, <1>o, <3>1, <3>3 DEF Same
  <2>2. CASE job[w] = None
    <3>1. Fresh(job'[w].file) /\ job'[w].file \in Files
      BY <1>1, <1>3, <1>n, <2>2 DEF Runs
    <3> QED BY <1>3, <1>f, <1>o, <2>2, <3>1 DEF Same, Fresh
  <2> QED BY <2>1, <2>2
<1> QED BY <1>2, <1>3

\* A handler that carries a blob did so before, or has just stored it.
LEMMA CarriesBack ==
    ASSUME IInv, NEW w \in Workers, Serving(w), Carries(w)'
    PROVE  \/ Carries(w) /\ job'[w].blob = job[w].blob /\ ~AddVersion(w) /\ ~Store(w)
           \/ /\ Store(w) /\ job[w] # None /\ at[w] = "storing" /\ job'[w].blob \in Blobs
              /\ job'[w].blob = Oldest(UnusedBlobs) /\ blobs[job'[w].blob] = "none" /\ blobs'[job'[w].blob] = "stored"
<1>0. Tables /\ Shape /\ HandlerInv /\ OwnedInv /\ OwningInv
  BY DEF IInv
<1>1. job'[w] # None /\ Past(job'[w].op, at'[w]) /\ at'[w] \notin {"putting", "logging"}
  BY DEF Carries
<1>2. job[w] # None
  <2>1. SUFFICES ASSUME NEW r \in Requests, Request(w, r) PROVE FALSE
    BY <1>0, <1>1, NewFile
  <2>2. at'[w] = FirstStep[r.op] /\ job'[w] = r
    BY <1>0, <2>1, MovesIs DEF Request, Shape
  <2>3. r.op \in Ops
    BY Consts DEF Job
  <2> QED BY <1>1, <2>2, <2>3 DEF FirstStep, Ops, Past
<1>3. Walks(w) /\ Place(job[w].op, at[w]) /\ job[w] \in Job
  BY <1>0, <1>1, <1>2, GoesOn, JobIs DEF HandlerInv
<1>4. CASE Store(w)
  <2>1. /\ at[w] = "storing" /\ UnusedBlobs # {} /\ job'[w] = [job[w] EXCEPT !.blob = Oldest(UnusedBlobs)]
        /\ blobs' = [blobs EXCEPT ![Oldest(UnusedBlobs)] = "stored"]
    <3>1. at[w] = "storing"
      BY <1>4 DEF Store
    <3> QED BY <1>3, <3>1 DEF Walks, Waits, Makes, Mirrors, Writes, Keeps, Loops, StoreBlob
  <2>2. Oldest(UnusedBlobs) \in Blobs /\ blobs[Oldest(UnusedBlobs)] = "none"
    <3>1. Oldest(UnusedBlobs) \in UnusedBlobs
      BY <2>1, OldestIs DEF UnusedBlobs
    <3> QED BY <3>1 DEF UnusedBlobs
  <2>3. job'[w].blob = Oldest(UnusedBlobs)
    BY <1>3, <2>1 DEF Job
  <2>4. blobs'[Oldest(UnusedBlobs)] = "stored"
    BY <1>0, <2>1, <2>2 DEF Tables
  <2> QED BY <1>2, <1>4, <2>1, <2>2, <2>3, <2>4
<1>5. CASE ~Store(w)
  <2>1. ~AddVersion(w)
    <3>1. AddVersion(w) => at[w] = "adding"
      BY DEF AddVersion
    <3> QED BY <1>1, <1>3, <1>5, <3>1 DEF Walks, Waits, Makes, Mirrors, Writes, Keeps, Loops
  <2>2. job'[w] = job[w]
    BY <1>3, <1>5 DEF Walks, Waits, Makes, Mirrors, Writes, Keeps, Loops
  <2>3. Past(job[w].op, at[w]) /\ at[w] \notin {"putting", "logging"}
    BY <1>1, <1>3, <1>5, <2>2 DEF Walks, Waits, Makes, Mirrors, Writes, Keeps, Loops, Place, Past
  <2> QED BY <1>2, <1>5, <2>1, <2>2, <2>3 DEF Carries
<1> QED BY <1>4, <1>5

LEMMA ApartStep ==
    ASSUME IInv, ApartInv, NEW w \in Workers, Serving(w)
    PROVE  ApartInv'
<1>0. Tables /\ Shape /\ HandlerInv /\ OwnedInv /\ OwningInv
  BY DEF IInv
<1>o. (\A u \in Workers \ {w} : Same(u)) /\ (\A b \in Blobs : blobs[b] # "none" => blobs'[b] # "none")
  BY Grows DEF Others
<1>v. \A f \in Files : \/ versions'[f] = versions[f]
                       \/ /\ AddVersion(w) /\ f = job[w].file /\ versions'[f] = versions[f] \cup {job[w].blob}
                          /\ Carries(w)
  <2>1. \A f \in Files : \/ versions'[f] = versions[f]
                         \/ /\ AddVersion(w) /\ at[w] = "adding" /\ job[w] # None /\ f = job[w].file
                            /\ versions'[f] = versions[f] \cup {job[w].blob} /\ job[w].op \in {"create", "version"}
    BY <1>0, VersionsStep
  <2> QED BY <2>1 DEF Carries, Past
<1>b. /\ \A f \in Files : versions[f] \subseteq Blobs
      /\ \A u \in Workers : Carries(u) => job[u].blob \in Blobs
  BY <1>0, JobIs DEF Tables, HandlerInv, Carries
<1>1. \A f \in Files : \A b \in versions'[f] : blobs'[b] # "none"
  <2>1. SUFFICES ASSUME NEW f \in Files, NEW b \in versions'[f] PROVE blobs'[b] # "none"
    OBVIOUS
  <2>2. b \in Blobs /\ blobs[b] # "none"
    BY <1>b, <1>v DEF ApartInv
  <2> QED BY <1>o, <2>2
<1>2. \A f, g \in Files : f # g => versions'[f] \cap versions'[g] = {}
  BY <1>v DEF ApartInv
<1>3. \A u \in Workers \ {w} : Carries(u)' <=> Carries(u)
  BY <1>o DEF Same, Carries
<1>4. ASSUME NEW u \in Workers, Carries(u)'
      PROVE  /\ blobs'[job'[u].blob] # "none"
             /\ \A f \in Files : job'[u].blob \notin versions'[f]
             /\ \A v \in Workers \ {u} : Carries(v)' => job'[v].blob # job'[u].blob
  <2>1. CASE u # w
    <3>1. Carries(u) /\ job'[u] = job[u]
      BY <1>3, <1>4, <1>o, <2>1 DEF Same
    <3>2. /\ blobs[job[u].blob] # "none" /\ job[u].blob \in Blobs
          /\ \A f \in Files : job[u].blob \notin versions[f]
          /\ \A v \in Workers \ {u} : Carries(v) => job[v].blob # job[u].blob
      BY <1>b, <3>1 DEF ApartInv
    <3>3. \A f \in Files : job[u].blob \notin versions'[f]
      BY <1>v, <2>1, <3>2
    <3>4. Carries(w)' => job'[w].blob # job[u].blob
      BY <2>1, <3>2, CarriesBack
    <3> QED BY <1>3, <1>o, <3>1, <3>2, <3>3, <3>4 DEF Same
  <2>2. CASE u = w /\ Carries(w) /\ job'[w].blob = job[w].blob /\ ~AddVersion(w)
    <3>1. /\ blobs[job[w].blob] # "none" /\ job[w].blob \in Blobs
          /\ \A f \in Files : job[w].blob \notin versions[f]
          /\ \A v \in Workers \ {w} : Carries(v) => job[v].blob # job[w].blob
      BY <1>b, <2>2 DEF ApartInv
    <3> QED BY <1>3, <1>o, <1>v, <2>2, <3>1 DEF Same
  <2>3. CASE u = w /\ Store(w) /\ at[w] = "storing" /\ job'[w].blob \in Blobs
             /\ blobs[job'[w].blob] = "none" /\ blobs'[job'[w].blob] = "stored"
    <3>1. ~AddVersion(w)
      BY <2>3 DEF AddVersion
    <3>2. \A f \in Files : job'[w].blob \notin versions'[f]
      BY <1>v, <2>3, <3>1 DEF ApartInv
    <3>3. \A v \in Workers \ {w} : Carries(v) => job[v].blob # job'[w].blob
      BY <2>3 DEF ApartInv
    <3> QED BY <1>3, <1>o, <2>3, <3>2, <3>3 DEF Same
  <2> QED BY <1>4, <2>1, <2>2, <2>3, CarriesBack
<1> QED BY <1>1, <1>2, <1>4 DEF ApartInv

LEMMA ReachStep ==
    ASSUME IInv, ReachInv, NEW w \in Workers, Serving(w)
    PROVE  ReachInv'
<1>0. Tables /\ Shape /\ HandlerInv /\ OwnedInv /\ OwningInv
  BY DEF IInv
<1>g. Others(w) /\ \A f \in Files : versions[f] \subseteq versions'[f]
  BY Grows
<1>1. ASSUME NEW u \in Workers \ {w} PROVE ReachOf(u)'
  <2>1. Same(u) /\ ReachOf(u) /\ (job[u] # None => job[u].file \in Files)
    BY <1>0, <1>g, JobIs DEF Others, ReachInv, HandlerInv
  <2>2. \A g \in todo[u] : g.resource \in {job[u].file} \cup versions[job[u].file] /\ job[u] # None
                           => g.resource \in {job[u].file} \cup versions'[job[u].file]
    BY <1>g, <2>1
  <2>3. Runs(u, "create")' => \A g \in todo'[u] : at'[u] # "storing" /\ g.resource \in {job'[u].file, job'[u].blob}
    BY <2>1 DEF ReachOf, Same, Runs
  <2>4. Runs(u, "delete")' =>
          /\ at'[u] \in {"erasing", "revoking"} => listed'[u] \subseteq versions'[job'[u].file]
          /\ at'[u] = "erasing" => todo'[u] \subseteq versions'[job'[u].file]
    BY <1>g, <2>1 DEF ReachOf, Same, Runs
  <2>5. Runs(u, "delete")' /\ at'[u] = "revoking" =>
          \A g \in todo'[u] : g.resource \in {job'[u].file} \cup versions'[job'[u].file]
    BY <2>1, <2>2 DEF ReachOf, Same, Runs
  <2> QED BY <2>3, <2>4, <2>5 DEF ReachOf
<1>2. ReachOf(w)'
  <2>1. CASE job'[w] = None
    BY <2>1 DEF ReachOf, Runs
  <2>2. CASE job'[w] # None /\ job[w] = None
    <3>1. PICK r \in Requests : Request(w, r)
      BY <1>0, <2>2, NewFile
    <3>2. at'[w] = FirstStep[r.op] /\ job'[w] = r /\ todo'[w] = todo[w]
      BY <1>0, <3>1, MovesIs DEF Request, Shape
    <3>3. r.op \in Ops /\ todo[w] = {}
      BY <1>0, <2>2, Consts DEF Job, HandlerInv, HandlerPlace
    <3> QED BY <3>2, <3>3 DEF FirstStep, Ops, ReachOf, Runs
  <2>3. CASE job'[w] # None /\ job[w] # None
    <3>1. /\ Walks(w) /\ Place(job[w].op, at[w]) /\ job[w] \in Job /\ job[w].file \in Files
          /\ job'[w].op = job[w].op /\ job'[w].file = job[w].file /\ ReachOf(w)
          /\ versions[job[w].file] \subseteq versions'[job[w].file]
      BY <1>0, <1>g, <2>3, GoesOn, JobIs, NewFile DEF HandlerInv, ReachInv
    <3>2. CASE job[w].op = "create"
      <4>1. \/ Store(w) /\ at[w] = "storing" /\ todo'[w] = todo[w]
            \/ /\ BootstrapGrant(w) /\ job'[w] = job[w] /\ at'[w] # "storing"
               /\ \A g \in todo'[w] : g \in todo[w] \/ g.resource = IF at[w] = "grantBlob" THEN job[w].blob ELSE job[w].file
            \/ job'[w] = job[w] /\ at'[w] # "storing" /\ todo'[w] = todo[w]
        BY <3>1, <3>2 DEF Walks, Waits, Makes, Mirrors, Writes, Keeps, Loops, Place
      <4>2. \A g \in todo[w] : at[w] # "storing" /\ g.resource \in {job[w].file, job[w].blob}
        BY <2>3, <3>1, <3>2 DEF ReachOf, Runs
      <4>3. \A g \in todo'[w] : at'[w] # "storing" /\ g.resource \in {job'[w].file, job'[w].blob}
        BY <3>1, <4>1, <4>2
      <4> QED BY <2>3, <3>1, <3>2, <4>3 DEF ReachOf, Runs
    <3>3. CASE job[w].op = "delete"
      <4>1. \/ at[w] = "listing" /\ at'[w] = "erasing" /\ todo'[w] \in {WhatToList(w), {}} /\ listed'[w] = todo'[w]
            \/ at[w] = "erasing" /\ at'[w] = "erasing" /\ listed'[w] = listed[w] /\ todo'[w] \subseteq todo[w]
            \/ /\ at[w] = "erasing" /\ at'[w] = "revoking" /\ listed'[w] = listed[w]
               /\ \A g \in todo'[w] : g.resource \in {job[w].file} \cup listed[w]
            \/ at[w] = "revoking" /\ at'[w] = "revoking" /\ listed'[w] = listed[w] /\ todo'[w] \subseteq todo[w]
            \/ at'[w] \notin {"erasing", "revoking"}
        BY <3>1, <3>3 DEF Walks, Waits, Makes, Mirrors, Writes, Keeps, Loops, Place
      <4>2. WhatToList(w) = versions[job[w].file]
        BY <3>3 DEF WhatToList
      <4>3. /\ at[w] \in {"erasing", "revoking"} => listed[w] \subseteq versions[job[w].file]
            /\ at[w] = "erasing" => todo[w] \subseteq versions[job[w].file]
            /\ at[w] = "revoking" => \A g \in todo[w] : g.resource \in {job[w].file} \cup versions[job[w].file]
        BY <2>3, <3>1, <3>3 DEF ReachOf, Runs
      <4>4. /\ at'[w] \in {"erasing", "revoking"} => listed'[w] \subseteq versions'[job[w].file]
            /\ at'[w] = "erasing" => todo'[w] \subseteq versions'[job[w].file]
            /\ at'[w] = "revoking" => \A g \in todo'[w] : g.resource \in {job[w].file} \cup versions'[job[w].file]
        BY <3>1, <4>1, <4>2, <4>3
      <4> QED BY <2>3, <3>1, <3>3, <4>4 DEF ReachOf, Runs
    <3> QED BY <3>1, <3>2, <3>3 DEF ReachOf, Runs
  <2> QED BY <2>1, <2>2, <2>3
<1> QED BY <1>1, <1>2 DEF ReachInv

--------------------------------------------------------------------------------
(* The inductive invariant: every version can be read, the current one too. *)

\* A file that no property makes an exception of.
Sound(f) == records[f] # None /\ excuses[f] = {}

Deleting(w, f) == mu = w /\ Runs(w, "delete") /\ job[w].file = f

StoredInv ==
    /\ \A w \in Workers : Pending(w) => blobs[job[w].blob] = "stored"
    /\ \A f \in Files : Sound(f) =>
          \/ \E w \in Workers : Deleting(w, f)
          \/ \A b \in versions[f] : blobs[b] = "stored"

\* A create puts the record before the version that it names.
Shown(f, b) ==
    \/ b \in versions[f]
    \/ \E w \in Workers : Runs(w, "create") /\ at[w] = "adding" /\ job[w].file = f /\ job[w].blob = b

CurrentInv ==
    /\ \A f \in Files : Sound(f) => Shown(f, records[f].CurrentVersionRef)
    /\ \A w \in Workers : job[w] # None /\ fo[w] # None /\ Sound(job[w].file) =>
          Shown(job[w].file, fo[w].CurrentVersionRef)

\* A sound file was one before, or has just got its record.
LEMMA SoundBack ==
    ASSUME IInv, AloneInv, NEW w \in Workers, Serving(w), NEW f \in Files, Sound(f)'
    PROVE  /\ excuses[f] = {}
           /\ \/ Sound(f)
              \/ /\ PutCreated(w) /\ Runs(w, "create") /\ f = job[w].file /\ at[w] = "creating" /\ at'[w] = "adding"
                 /\ versions[f] = {} /\ versions'[f] = {}
                 /\ records'[f] = [Owner |-> job[w].self, CurrentVersionRef |-> job[w].blob, Deleted |-> FALSE]
<1>0. Tables /\ Shape /\ HandlerInv /\ OwnedInv /\ OwningInv
  BY DEF IInv
<1>1. excuses[f] = {}
  BY Grows DEF Sound
<1>2. CASE records[f] = None
  <2>1. /\ Runs(w, "create") /\ f = job[w].file /\ at[w] = "creating" /\ PutCreated(w) /\ at'[w] = "adding"
    BY <1>0, <1>2, RecordsOwner DEF Sound
  <2>2. versions[f] = {} /\ versions' = versions
    BY <1>0, <1>2, <2>1 DEF OwnedInv, PutCreated
  <2>3. records' = [records EXCEPT ![f] =
              [Owner |-> job[w].self, CurrentVersionRef |-> job[w].blob, Deleted |-> FALSE]]
    BY <1>0, <2>1, MovesIs DEF PutCreated
  <2> QED BY <1>0, <1>1, <2>1, <2>2, <2>3 DEF Tables
<1> QED BY <1>1, <1>2 DEF Sound

\* A deletion that lets go of the mutex has marked its file or reports an error.
LEMMA DeletingStays ==
    ASSUME IInv, MutexInv, NEW w \in Workers, Serving(w), NEW u \in Workers, NEW f \in Files,
           Deleting(u, f), excuses'[f] = {}
    PROVE  Deleting(u, f)'
<1>0. Tables /\ Shape /\ HandlerInv /\ OwnedInv /\ OwningInv /\ BuryingInv
  BY DEF IInv
<1>1. CASE u # w
  BY <1>1, Grows DEF Others, Same, Deleting, Runs
<1>2. CASE u = w
  <2>1. mu = w /\ job[w] # None /\ job[w].op = "delete" /\ job[w].file = f /\ Guarded(job[w].op, at[w])
    BY <1>2, Consts DEF Deleting, Runs, MutexInv
  <2>2. job'[w] # None
    <3>1. SUFFICES ASSUME job'[w] = None PROVE FALSE
      OBVIOUS
    <3>2. Place(job[w].op, at[w])
      BY <1>0, <2>1, JobIs DEF HandlerInv
    <3>3. AddEvent(w) /\ at[w] = "logging"
      BY <1>0, <2>1, <3>1, <3>2, HowEnds DEF Guarded, Place
    <3>4. "buried" \in excuses[f]
      BY <1>0, <2>1, <3>3 DEF BuryingInv, BuryingOf
    <3> QED BY <3>4, Grows
  <2>3. ~Ends(w) /\ ~Lock(w)
    <3>1. Lock(w) => at[w] = "locking"
      BY DEF Lock, Moves
    <3> QED BY <1>0, <2>1, <2>2, <3>1, EndsIs DEF Guarded, Ended
  <2>4. mu' = w
    BY <2>1, <2>3, Grows
  <2>5. job'[w].op = job[w].op /\ job'[w].file = job[w].file
    BY <1>0, <2>1, <2>2, NewFile
  <2> QED BY <1>2, <2>1, <2>2, <2>4, <2>5 DEF Deleting, Runs
<1> QED BY <1>1, <1>2

\* Whose step changes what has become of b.
LEMMA BlobsTouched ==
    ASSUME IInv, ReachInv, NEW w \in Workers, Serving(w), NEW b \in Blobs, blobs'[b] # blobs[b]
    PROVE  \/ Store(w) /\ blobs[b] = "none" /\ blobs'[b] = "stored"
           \/ Carries(w) /\ b = job[w].blob /\ at[w] \in {"rollback", "discarding"}
           \/ EraseBlob(w) /\ mu = w /\ Runs(w, "delete") /\ b \in versions[job[w].file]
<1>0. Tables /\ Shape /\ HandlerInv /\ OwnedInv /\ OwningInv
  BY DEF IInv
<1>1. HandlerType(w) /\ HandlerPlace(w)
  BY <1>0 DEF HandlerInv
<1>2. at[w] \in {"rollback", "discarding", "erasing"} => job[w] # None /\ Place(job[w].op, at[w])
  BY <1>1, JobIs DEF HandlerPlace
<1>3. CASE Store(w)
  <2>1. blobs' = [blobs EXCEPT ![Oldest(UnusedBlobs)] = "stored"] /\ UnusedBlobs # {}
    BY <1>3 DEF Store, StoreBlob
  <2>2. Oldest(UnusedBlobs) \in UnusedBlobs
    BY <2>1, OldestIs DEF UnusedBlobs
  <2> QED BY <1>0, <1>3, <2>1, <2>2 DEF Tables, UnusedBlobs
<1>4. CASE RollBack(w) \/ Discard(w)
  <2>1. at[w] \in {"rollback", "discarding"} /\ blobs' = [blobs EXCEPT ![job[w].blob] = "erased"]
    BY <1>4 DEF RollBack, Discard
  <2>2. Carries(w)
    BY <1>2, <2>1 DEF Carries, Place, Past
  <2>3. b = job[w].blob
    BY <1>0, <2>1 DEF Tables
  <2> QED BY <2>1, <2>2, <2>3
<1>5. CASE EraseBlob(w)
  <2>1. PICK c : c = Oldest(todo[w])
    OBVIOUS
  <2>2. at[w] = "erasing" /\ todo[w] # {} /\ blobs' = [blobs EXCEPT ![c] = "erased"]
    BY <1>5, <2>1 DEF EraseBlob, DeleteBlob
  <2>3. Runs(w, "delete") /\ mu = w
    BY <1>1, <1>2, <2>2 DEF Place, Runs, HandlerPlace, Guarded
  <2>4. todo[w] \subseteq versions[job[w].file] /\ todo[w] \subseteq Blobs
    BY <1>1, <2>2, <2>3 DEF ReachInv, ReachOf, HandlerType
  <2>5. c \in versions[job[w].file]
    BY <2>1, <2>2, <2>4, OldestIs
  <2>6. b = c
    BY <1>0, <2>2 DEF Tables
  <2> QED BY <1>5, <2>3, <2>5, <2>6
<1> QED BY <1>3, <1>4, <1>5, WhoChanges

LEMMA PendingCarries ==
    ASSUME NEW w, Pending(w)
    PROVE  Carries(w) /\ at[w] \notin {"rollback", "discarding"}
BY DEF Pending, Carries, Past

LEMMA StoredStep ==
    ASSUME IInv, MutexInv, AloneInv, ApartInv, ReachInv, StoredInv, NEW w \in Workers, Serving(w)
    PROVE  StoredInv'
<1>0. Tables /\ Shape /\ HandlerInv /\ OwnedInv /\ OwningInv
  BY DEF IInv
<1>o. (\A u \in Workers \ {w} : Same(u)) /\ (\A f \in Files : versions[f] \subseteq versions'[f])
  BY Grows DEF Others
<1>t. \A b \in Blobs : blobs'[b] # blobs[b] =>
           \/ Store(w) /\ blobs[b] = "none" /\ blobs'[b] = "stored"
           \/ Carries(w) /\ b = job[w].blob /\ at[w] \in {"rollback", "discarding"}
           \/ mu = w /\ Runs(w, "delete") /\ b \in versions[job[w].file]
  BY BlobsTouched
<1>f. job[w] # None => job[w].file \in Files
  BY <1>0, JobIs DEF HandlerInv
<1>1. ASSUME NEW u \in Workers, Pending(u)'
      PROVE  blobs'[job'[u].blob] = "stored"
  <2>1. Carries(u)'
    BY <1>1 DEF Pending, Carries, Past
  <2>2. CASE u # w
    <3>1. Pending(u) /\ job'[u] = job[u]
      BY <1>1, <1>o, <2>2 DEF Same, Pending
    <3>2. Carries(u) /\ blobs[job[u].blob] = "stored" /\ job[u].blob \in Blobs
      BY <1>0, <3>1, PendingCarries, JobIs DEF StoredInv, HandlerInv, Carries
    <3>3. (\A f \in Files : job[u].blob \notin versions[f]) /\ (Carries(w) => job[w].blob # job[u].blob)
      BY <2>2, <3>2 DEF ApartInv
    <3> QED BY <1>f, <1>t, <3>1, <3>2, <3>3 DEF Runs
  <2>3. CASE u = w /\ Carries(w) /\ job'[w].blob = job[w].blob /\ ~AddVersion(w) /\ ~Store(w)
    <3>1. Pending(w)
      BY <1>0, <1>1, <2>3, Passes DEF Pending, Carries
    <3>2. Carries(w) /\ blobs[job[w].blob] = "stored" /\ job[w].blob \in Blobs /\ at[w] \notin {"rollback", "discarding"}
      BY <1>0, <3>1, PendingCarries, JobIs DEF StoredInv, HandlerInv, Carries
    <3>3. \A f \in Files : job[w].blob \notin versions[f]
      BY <3>2 DEF ApartInv
    <3> QED BY <1>f, <1>t, <2>3, <3>2, <3>3 DEF Runs
  <2> QED BY <2>1, <2>2, <2>3, CarriesBack
<1>2. ASSUME NEW f \in Files, Sound(f)', ~(\E u \in Workers : Deleting(u, f)'), NEW b \in versions'[f]
      PROVE  blobs'[b] = "stored"
  <2>1. Sound(f)
    BY <1>2, SoundBack
  <2>2. ~(\E u \in Workers : Deleting(u, f))
    BY <1>2, DeletingStays DEF Sound
  <2>3. \A c \in versions[f] : blobs[c] = "stored"
    BY <2>1, <2>2 DEF StoredInv
  <2>4. CASE b \in versions[f]
    <3>1. b \in Blobs /\ blobs[b] = "stored"
      BY <1>0, <2>3, <2>4 DEF Tables
    <3>2. ~(Carries(w) /\ b = job[w].blob)
      BY <2>4 DEF ApartInv
    <3>3. ~(mu = w /\ Runs(w, "delete") /\ b \in versions[job[w].file])
      BY <1>f, <2>2, <2>4 DEF ApartInv, Deleting, Runs
    <3> QED BY <1>t, <3>1, <3>2, <3>3
  <2>5. CASE b \notin versions[f]
    <3>1. AddVersion(w) /\ at[w] = "adding" /\ job[w] # None /\ b = job[w].blob /\ job[w].op \in {"create", "version"}
      BY <1>0, <1>2, <2>5, VersionsStep
    <3>2. Pending(w)
      BY <3>1 DEF Pending
    <3>3. blobs[b] = "stored"
      BY <3>1, <3>2 DEF StoredInv
    <3>4. blobs' = blobs
      BY <3>1 DEF AddVersion
    <3> QED BY <3>3, <3>4
  <2> QED BY <2>4, <2>5
<1> QED BY <1>1, <1>2 DEF StoredInv

LEMMA CurrentStep ==
    ASSUME IInv, AloneInv, ApartInv, CurrentInv, NEW w \in Workers, Serving(w)
    PROVE  CurrentInv'
<1>0. Tables /\ Shape /\ HandlerInv /\ OwnedInv /\ OwningInv
  BY DEF IInv
<1>o. (\A u \in Workers \ {w} : Same(u)) /\ (\A f \in Files : versions[f] \subseteq versions'[f])
  BY Grows DEF Others
<1>f. /\ job[w] # None => job[w].file \in Files /\ Place(job[w].op, at[w]) /\ job[w] \in Job
      /\ job[w] # None /\ job'[w] # None => Walks(w)
      /\ job[w] # None /\ job'[w] # None => job'[w].file = job[w].file /\ job'[w].op = job[w].op
  BY <1>0, JobIs, GoesOn, NewFile DEF HandlerInv
<1>s. ASSUME NEW f \in Files, NEW b, Shown(f, b), excuses'[f] = {}
      PROVE  Shown(f, b)'
  <2>1. CASE b \in versions[f]
    BY <1>o, <2>1 DEF Shown
  <2>2. CASE b \notin versions[f]
    <3>1. PICK u \in Workers : Runs(u, "create") /\ at[u] = "adding" /\ job[u].file = f /\ job[u].blob = b
      BY <1>s, <2>2 DEF Shown
    <3>2. CASE u # w
      BY <1>o, <3>1, <3>2 DEF Same, Shown, Runs
    <3>3. CASE u = w
      <4>1. job'[w] # None
        <5>1. SUFFICES ASSUME job'[w] = None PROVE FALSE
          OBVIOUS
        <5> QED BY <1>0, <1>s, <3>1, <3>3, <5>1, HowEnds DEF Runs
      <4>2. AddVersion(w) /\ versions' = [versions EXCEPT ![f] = @ \cup {b}]
        BY <1>f, <3>1, <3>3, <4>1 DEF Runs, Walks, Waits, Makes, Mirrors, Writes, Keeps, Loops
      <4> QED BY <1>0, <4>2 DEF Tables, Shown
    <3> QED BY <3>2, <3>3
  <2> QED BY <2>1, <2>2
<1>1. ASSUME NEW f \in Files, Sound(f)', NEW c, c = records'[f].CurrentVersionRef
      PROVE  Shown(f, c)'
  <2>1. CASE Sound(f) /\ records'[f] = records[f]
    <3>1. Shown(f, c)
      BY <1>1, <2>1 DEF CurrentInv
    <3> QED BY <1>1, <1>s, <3>1 DEF Sound
  <2>2. CASE ~Sound(f)
    <3>1. /\ PutCreated(w) /\ Runs(w, "create") /\ f = job[w].file /\ at'[w] = "adding"
          /\ records'[f] = [Owner |-> job[w].self, CurrentVersionRef |-> job[w].blob, Deleted |-> FALSE]
      BY <1>1, <2>2, SoundBack
    <3>2. job' = job /\ c = job[w].blob
      BY <1>1, <3>1 DEF PutCreated
    <3> QED BY <3>1, <3>2 DEF Shown, Runs
  <2>3. CASE Sound(f) /\ records'[f] # records[f]
    <3>1. PutFileObject(w) /\ at[w] = "putting" /\ records' = [records EXCEPT ![job[w].file] = fo[w]]
      <4>1. ~PutCreated(w)
        <5>1. SUFFICES ASSUME PutCreated(w) PROVE FALSE
          OBVIOUS
        <5>2. at[w] = "creating" /\ \E r : records' = [records EXCEPT ![job[w].file] = r]
          BY <2>3, <5>1 DEF PutCreated, Moves
        <5>3. Runs(w, "create")
          BY <1>0, <5>2, JobIs DEF HandlerInv, HandlerPlace, Place, Runs
        <5>4. records[job[w].file] = None
          BY <5>2, <5>3 DEF AloneInv
        <5> QED BY <1>0, <2>3, <5>2, <5>4 DEF Tables, Sound
      <4> QED BY <2>3, <4>1, WhoChanges DEF PutFileObject
    <3>2. job[w] # None /\ job[w].op # "create"
      BY <1>0, <3>1 DEF HandlerInv, HandlerPlace, Place
    <3>3. f = job[w].file /\ fo[w] # None
      BY <1>0, <1>f, <2>3, <3>1, <3>2 DEF Tables, HandlerInv, HandlerPlace
    <3>4. c = fo[w].CurrentVersionRef /\ Shown(f, c)
      BY <1>0, <1>1, <2>3, <3>1, <3>2, <3>3 DEF CurrentInv, Tables
    <3> QED BY <1>1, <1>s, <3>4 DEF Sound
  <2> QED BY <2>1, <2>2, <2>3
<1>2. ASSUME NEW u \in Workers, job'[u] # None, fo'[u] # None, NEW f \in Files, f = job'[u].file, Sound(f)',
             NEW c, c = fo'[u].CurrentVersionRef
      PROVE  Shown(f, c)'
  <2>2. CASE u # w
    <3>1. job[u] # None /\ fo[u] # None /\ job'[u] = job[u] /\ fo'[u] = fo[u]
      BY <1>2, <1>o, <2>2 DEF Same
    <3>2. Sound(f)
      <4>1. job[u].op # "create"
        BY <1>0, <3>1 DEF HandlerInv, HandlerPlace
      <4>2. records[f] # None
        BY <1>0, <1>2, <3>1, <4>1 DEF HandlerInv, HandlerPlace
      <4> QED BY <1>2, <4>2, SoundBack DEF Sound
    <3>3. Shown(f, c)
      BY <1>2, <3>1, <3>2 DEF CurrentInv
    <3> QED BY <1>2, <1>s, <3>3 DEF Sound
  <2>3. CASE u = w /\ job[w] # None
    <3>1. Walks(w) /\ f = job[w].file /\ job'[w].op = job[w].op
      BY <1>2, <1>f, <2>3
    <3>2. job[w].op # "create"
      <4>1. HandlerPlace(w)'
        BY Grows DEF IInv, HandlerInv
      <4> QED BY <1>2, <2>3, <3>1, <4>1 DEF HandlerPlace
    <3>3. Sound(f)
      <4>1. records[f] # None
        BY <1>0, <2>3, <3>1, <3>2 DEF HandlerInv, HandlerPlace
      <4> QED BY <1>2, <4>1, SoundBack DEF Sound
    <3>4. /\ fo[w] # None => Shown(f, fo[w].CurrentVersionRef)
          /\ Shown(f, records[f].CurrentVersionRef)
      BY <2>3, <3>1, <3>3 DEF CurrentInv
    <3>5. \/ fo'[w] = fo[w]
          \/ fo'[w] = records[f]
          \/ AddVersion(w) /\ fo'[w] = [fo[w] EXCEPT !.CurrentVersionRef = job[w].blob] /\ at[w] = "adding"
             /\ versions' = [versions EXCEPT ![f] = @ \cup {job[w].blob}]
          \/ fo'[w] = [fo[w] EXCEPT !.Deleted = TRUE] /\ at[w] = "revoking"
      BY <3>1, <3>2 DEF Walks, Waits, Makes, Mirrors, Writes, Keeps, Loops
    <3>6. at[w] \in {"adding", "revoking"} => fo[w] \in FileObjectRecord /\ fo[w] # None
      BY <1>0, <1>f, <2>3, <3>2, JobIs, Consts DEF HandlerInv, HandlerPlace
    <3>7. CASE Shown(f, c)
      BY <1>2, <1>s, <3>7 DEF Sound
    <3>8. CASE /\ AddVersion(w) /\ fo'[w] = [fo[w] EXCEPT !.CurrentVersionRef = job[w].blob] /\ at[w] = "adding"
               /\ versions' = [versions EXCEPT ![f] = @ \cup {job[w].blob}]
      <4>1. c = job[w].blob
        BY <1>2, <2>3, <3>6, <3>8 DEF FileObjectRecord
      <4>2. c \in versions'[f]
        BY <1>0, <3>8, <4>1 DEF Tables
      <4> QED BY <4>2 DEF Shown
    <3>9. CASE fo'[w] = [fo[w] EXCEPT !.Deleted = TRUE] /\ at[w] = "revoking"
      <4>1. c = fo[w].CurrentVersionRef
        BY <1>2, <2>3, <3>6, <3>9 DEF FileObjectRecord
      <4> QED BY <3>4, <3>6, <3>7, <3>9, <4>1
    <3> QED BY <1>2, <2>3, <3>4, <3>5, <3>7, <3>8, <3>9
  <2>4. CASE u = w /\ job[w] = None
    <3>1. PICK r \in Requests : Request(w, r)
      BY <1>0, <1>2, <2>4, NewFile
    <3>2. fo'[w] = fo[w] /\ fo[w] = None
      BY <1>0, <2>4, <3>1 DEF Request, HandlerInv, HandlerPlace
    <3> QED BY <1>2, <2>4, <3>2
  <2> QED BY <2>2, <2>3, <2>4
<1>3. \A u \in Workers : job'[u] # None => job'[u].file \in Files
  BY Grows, JobIs DEF IInv, HandlerInv, HandlerType, Job
<1> QED BY <1>1, <1>2, <1>3 DEF CurrentInv, Shown, Sound

--------------------------------------------------------------------------------
(* The inductive invariant: the grants on a file and those on its blobs.    *)

\* The handler that changes whether s may read f.
Changing(w, f, s) ==
    /\ mu = w /\ Runs(w, "permissions") /\ job[w].file = f
    /\ job[w].change.Action = ActionRead /\ job[w].change.Subject = s

\* A new file, and a new blob, is its owner's alone.
FreshOf(w) ==
    /\ Runs(w, "version") /\ at[w] \in {"granting", "listing"} =>
          \A s \in Subjects : Holds(s, job[w].blob) => s = fo[w].Owner
    /\ Runs(w, "create") /\ Pending(w) => \A s \in Subjects : Holds(s, job[w].blob) => s = job[w].self
    /\ Unborn(w) => \A s \in Subjects : Reads(s, job[w].file) => s = job[w].self
FreshInv == \A w \in Workers : FreshOf(w)

\* A new version is given to the readers of its file, and to nobody else.
CopyOf(w) ==
    /\ Runs(w, "version") /\ at[w] = "mirroring" => \A h \in todo[w] : Reads(h.subject, job[w].file)
    /\ Runs(w, "version") /\ at[w] \in {"mirroring", "adding"} /\ Sound(job[w].file) =>
          \A s \in Subjects \ {fo[w].Owner} :
             /\ Holds(s, job[w].blob) => Reads(s, job[w].file)
             /\ Reads(s, job[w].file) => \/ Holds(s, job[w].blob) \/ short[w]
                                         \/ at[w] = "mirroring" /\ \E h \in todo[w] : h.subject = s
CopyInv == \A w \in Workers : CopyOf(w)

\* What is mirrored to the versions is so on the file.
ChangeOf(w) ==
    Runs(w, "permissions") /\ at[w] \in {"listing", "mirroring"} =>
        /\ job[w].change.Action = ActionRead
        /\ Reads(job[w].change.Subject, job[w].file) <=> job[w].change.Grant
ChangeInv == \A w \in Workers : ChangeOf(w)

\* Who is let in before the first version is there, is so by one who is about
\* to find an empty list.
EarlyOf(w) ==
    Runs(w, "create") /\ at[w] = "adding" /\ Sound(job[w].file) =>
        \A s \in Subjects \ {job[w].self} : Reads(s, job[w].file) =>
            \E u \in Workers : Changing(u, job[w].file, s) /\ at[u] = "listing"
EarlyInv == \A w \in Workers : EarlyOf(w)

\* w is about to bring b in step with f for s, or to report that it failed.
Mending(w, f, b, s) ==
    \/ Deleting(w, f)
    \/ Changing(w, f, s) /\ \/ at[w] = "listing"
                            \/ at[w] = "mirroring" /\ b \in todo[w]
                            \/ at[w] \in {"mirroring", "putting", "logging"} /\ short[w]
    \/ /\ mu = w /\ Runs(w, "version") /\ job[w].file = f /\ job[w].blob = b
       /\ at[w] \in {"putting", "logging"} /\ short[w]

InStep(f, b, s) == (Reads(s, f) <=> Holds(s, b)) \/ \E w \in Workers : Mending(w, f, b, s)

SyncInv ==
    \A f \in Files : Sound(f) =>
        \A b \in versions[f], s \in Subjects \ {records[f].Owner} : InStep(f, b, s)

--------------------------------------------------------------------------------

LEMMA NoGrants ==
    ASSUME KnownInv, NEW r, owners[r] = None
    PROVE  \A s, a : ~Active(s, a, r)
BY DEF KnownInv, Active, activeGrant

\* Nobody else touches the blob that a handler carries.
LEMMA HoldsAlone ==
    ASSUME IInv, ApartInv, ReachInv, NEW w \in Workers, Serving(w), NEW u \in Workers \ {w},
           Carries(u), NEW b, b = job[u].blob, NEW s
    PROVE  Holds(s, b)' <=> Holds(s, b)
<1>1. SUFFICES ASSUME ~(Holds(s, b)' <=> Holds(s, b)) PROVE FALSE
  OBVIOUS
<1>2. b \in Blobs
  BY JobIs DEF IInv, HandlerInv, Carries
<1>3. blobs[b] # "none" /\ (\A f \in Files : b \notin versions[f]) /\ (Carries(w) => job[w].blob # b)
  BY DEF ApartInv
<1>4. job[w] # None => job[w].file \in Files
  BY JobIs DEF IInv, HandlerInv
<1> QED BY <1>1, <1>2, <1>3, <1>4, HoldsTouched

\* Nobody else touches the readers of a file whose handler has the mutex.
LEMMA ReadsGuarded ==
    ASSUME IInv, AloneInv, ReachInv, NEW w \in Workers, Serving(w), NEW u \in Workers \ {w},
           job[u] # None, mu = u, NEW f, f = job[u].file, NEW s
    PROVE  Reads(s, f)' <=> Reads(s, f)
<1>1. SUFFICES ASSUME ~(Reads(s, f)' <=> Reads(s, f)) PROVE FALSE
  OBVIOUS
<1>2. f \in Files
  BY JobIs DEF IInv, HandlerInv
<1>3. job[w].file = f /\ Runs(w, "create") /\ at[w] \notin {"adding", "logging"}
  BY <1>1, <1>2, ReadsTouched
<1> QED BY <1>3 DEF AloneInv

\* A handler with the mutex keeps it to its end.
LEMMA KeepsMutex ==
    ASSUME IInv, MutexInv, NEW w \in Workers, Serving(w), mu = w, job'[w] # None
    PROVE  mu' = w /\ job[w] # None /\ Walks(w) /\ Place(job[w].op, at[w]) /\ Guarded(job[w].op, at[w])
           /\ job'[w].op = job[w].op /\ job'[w].file = job[w].file /\ job[w].file \in Files /\ job[w] \in Job
<1>0. Tables /\ Shape /\ HandlerInv /\ OwnedInv /\ OwningInv
  BY DEF IInv
<1>1. job[w] # None /\ Guarded(job[w].op, at[w])
  BY Consts DEF MutexInv
<1>2. ~Ends(w) /\ ~Lock(w)
  <2>1. Lock(w) => at[w] = "locking"
    BY DEF Lock, Moves
  <2> QED BY <1>0, <1>1, <2>1, EndsIs DEF Guarded, Ended
<1>3. mu' = w
  BY <1>2, Grows
<1> QED BY <1>0, <1>1, <1>3, GoesOn, NewFile, JobIs DEF HandlerInv

\* The handler of a create, a version or a permissions that has the mutex and
\* dies leaves an excuse.
LEMMA DiesLoudly ==
    ASSUME IInv, NEW w \in Workers, Serving(w), job[w] # None, job'[w] = None,
           \/ at[w] \in {"granting", "listing", "changing", "mirroring", "adding", "putting"}
           \/ at[w] = "logging" /\ short[w]
    PROVE  "cutShort" \in excuses'[job[w].file]
BY HowEnds DEF IInv

LEMMA FreshStep ==
    ASSUME IInv, KnownInv, AloneInv, ApartInv, ReachInv, FreshInv, NEW w \in Workers, Serving(w)
    PROVE  FreshInv'
<1>0. Tables /\ Shape /\ HandlerInv /\ OwnedInv /\ OwningInv
  BY DEF IInv
<1>o. \A u \in Workers \ {w} : Same(u)
  BY Grows DEF Others
<1>1. ASSUME NEW u \in Workers, Carries(u)',
             NEW b, b = job'[u].blob, NEW s \in Subjects, Holds(s, b)'
      PROVE  /\ Runs(u, "version")' /\ at'[u] \in {"granting", "listing"} => s = fo'[u].Owner
             /\ Runs(u, "create")' /\ Pending(u)' => s = job'[u].self
  <2>1. CASE u # w
    <3>1. Same(u) /\ Carries(u) /\ b = job[u].blob
      BY <1>1, <1>o, <2>1 DEF Same, Carries
    <3>2. Holds(s, b)
      BY <1>1, <2>1, <3>1, HoldsAlone
    <3> QED BY <3>1, <3>2 DEF FreshInv, FreshOf, Same, Runs, Pending
  <2>2. CASE u = w /\ Carries(w) /\ job'[w].blob = job[w].blob /\ ~Store(w)
    <3>1. /\ job[w] # None /\ job'[w] # None /\ b = job[w].blob /\ b \in Blobs
          /\ Place(job[w].op, at[w]) /\ Walks(w)
      BY <1>0, <1>1, <2>2, JobIs, GoesOn DEF Carries, HandlerInv
    <3>2. job'[w] = job[w]
      BY <2>2, <3>1 DEF Walks, Waits, Makes, Mirrors, Writes, Keeps, Loops
    <3>3. ASSUME Runs(w, "version")', at'[w] \in {"granting", "listing"} PROVE s = fo'[w].Owner
      <4>1. GrantOwner(w) /\ at[w] = "granting" /\ fo'[w] = fo[w] /\ Runs(w, "version")
        BY <2>2, <3>1, <3>2, <3>3 DEF Walks, Waits, Makes, Mirrors, Writes, Keeps, Loops, Runs
      <4>2. CASE Holds(s, b)
        BY <3>1, <4>1, <4>2 DEF FreshInv, FreshOf
      <4>3. CASE ~Holds(s, b)
        <5>1. ~(Holds(s, b)' <=> Holds(s, b))
          BY <1>1, <4>3
        <5>2. b \notin versions[job[w].file] /\ blobs[b] # "none"
          BY <1>0, <2>2, <3>1, JobIs DEF ApartInv, HandlerInv
        <5>3. ~MirrorReaders(w)
          BY <4>1 DEF MirrorReaders, LoopStep
        <5> QED BY <3>1, <4>1, <5>1, <5>2, <5>3, HoldsTouched DEF Runs
      <4> QED BY <4>2, <4>3
    <3>4. ASSUME Runs(w, "create")', Pending(w)' PROVE s = job'[w].self
      <4>1. Pending(w) /\ Runs(w, "create")
        BY <1>0, <2>2, <3>1, <3>2, <3>4, Passes DEF Runs
      <4>2. CASE Holds(s, b)
        BY <3>1, <3>2, <4>1, <4>2 DEF FreshInv, FreshOf
      <4>3. CASE ~Holds(s, b)
        <5>1. ~(Holds(s, b)' <=> Holds(s, b))
          BY <1>1, <4>3
        <5>2. b \notin versions[job[w].file] /\ blobs[b] # "none"
          BY <1>0, <2>2, <3>1, JobIs DEF ApartInv, HandlerInv
        <5> QED BY <3>1, <3>2, <4>1, <5>1, <5>2, HoldsTouched DEF Runs, Pending
      <4> QED BY <4>2, <4>3
    <3> QED BY <2>2, <3>3, <3>4
  <2>3. CASE u = w /\ Store(w) /\ job[w] # None /\ at[w] = "storing" /\ b \in Blobs /\ blobs[b] = "none"
             /\ b = Oldest(UnusedBlobs)
    <3>1. owners[b] = None
      BY <1>0, <2>3 DEF OwnedInv
    <3>2. ~(Holds(s, b)' <=> Holds(s, b))
      BY <1>1, <3>1, NoGrants DEF Holds
    <3>3. job'[w] # None /\ Walks(w)
      BY <1>0, <1>1, <2>3, GoesOn DEF Carries
    <3>4. job'[w].op = job[w].op /\ job'[w].self = job[w].self /\ fo'[w] = fo[w]
      <4>1. job'[w].op = job[w].op /\ job'[w].self = job[w].self
        BY <1>0, <2>3, <3>3, NewFile
      <4> QED BY <2>3, <3>3, <4>1 DEF Walks, Waits, Makes, Mirrors, Writes, Keeps, Loops
    <3>5. s = OwnerOf(w)
      <4>1. ~Carries(w) /\ ~RevokeGrant(w) /\ ~MirrorVersions(w)
        BY <2>3 DEF Carries, Past, RevokeGrant, MirrorVersions, LoopStep
      <4> QED BY <2>3, <3>2, <4>1, HoldsTouched
    <3> QED BY <2>3, <3>4, <3>5 DEF OwnerOf, Runs
  <2> QED BY <1>1, <2>1, <2>2, <2>3, CarriesBack
<1>2. ASSUME NEW u \in Workers, Unborn(u)', NEW f, f = job'[u].file, NEW s \in Subjects, Reads(s, f)'
      PROVE  s = job'[u].self
  <2>1. CASE u # w
    <3>1. Same(u) /\ Unborn(u) /\ f = job[u].file /\ f \in Files
      BY <1>0, <1>2, <1>o, <2>1, JobIs DEF Same, Unborn, HandlerInv
    <3>2. job[w] # None => job[w].file # f
      BY <2>1, <3>1 DEF AloneInv, Unborn, Runs
    <3>3. Reads(s, f)
      BY <1>2, <3>1, <3>2, ReadsTouched
    <3> QED BY <3>1, <3>3 DEF FreshInv, FreshOf, Same
  <2>2. CASE u = w /\ job[w] # None
    <3>1. /\ Unborn(w) /\ f = job[w].file /\ f \in Files /\ job'[w].self = job[w].self
      BY <1>0, <1>2, <2>2, Passes, NewFile, JobIs DEF Unborn, HandlerInv
    <3>2. CASE Reads(s, f)
      BY <2>2, <3>1, <3>2 DEF FreshInv, FreshOf
    <3>3. CASE ~Reads(s, f)
      BY <1>2, <2>2, <3>1, <3>3, ReadsTouched DEF Unborn, Runs
    <3> QED BY <3>2, <3>3
  <2>3. CASE u = w /\ job[w] = None
    <3>1. Fresh(f) /\ f \in Files
      <4>1. job'[w].file \in Files
        BY <1>2, <2>3, Grows, JobIs DEF IInv, HandlerInv, HandlerType, Job, Unborn
      <4> QED BY <1>0, <1>2, <2>3, <4>1, NewFile DEF Unborn
    <3>2. ~Reads(s, f)
      BY <3>1, NoGrants DEF Fresh, Reads
    <3> QED BY <1>2, <2>3, <3>1, <3>2, ReadsTouched
  <2> QED BY <2>1, <2>2, <2>3
<1>3. \A u \in Workers : (Runs(u, "version")' /\ at'[u] \in {"granting", "listing"}) \/ Pending(u)' => Carries(u)'
  BY DEF Runs, Carries, Past, Pending
<1> QED
  <2>1. ASSUME NEW u \in Workers PROVE FreshOf(u)'
    <3>1. ASSUME Runs(u, "version")', at'[u] \in {"granting", "listing"}, NEW s \in Subjects, Holds(s, job[u].blob)'
          PROVE  s = fo'[u].Owner
      <4>1. PICK b : b = job'[u].blob
        OBVIOUS
      <4>2. Holds(s, b)'
        BY <3>1, <4>1 DEF Holds, Active, activeGrant
      <4> QED BY <1>1, <1>3, <3>1, <4>1, <4>2
    <3>2. ASSUME Runs(u, "create")', Pending(u)', NEW s \in Subjects, Holds(s, job[u].blob)'
          PROVE  s = job'[u].self
      <4>1. PICK b : b = job'[u].blob
        OBVIOUS
      <4>2. Holds(s, b)'
        BY <3>2, <4>1 DEF Holds, Active, activeGrant
      <4> QED BY <1>1, <1>3, <3>2, <4>1, <4>2
    <3>3. ASSUME Unborn(u)', NEW s \in Subjects, Reads(s, job[u].file)'
          PROVE  s = job'[u].self
      <4>1. PICK f : f = job'[u].file
        OBVIOUS
      <4>2. Reads(s, f)'
        BY <3>3, <4>1 DEF Reads, Active, activeGrant
      <4> QED BY <1>2, <3>3, <4>1, <4>2
    <3> QED BY <3>1, <3>2, <3>3 DEF FreshOf
  <2> QED BY <2>1 DEF FreshInv

LEMMA CopyStep ==
    ASSUME IInv, MutexInv, AloneInv, ApartInv, ReachInv, FreshInv, CopyInv, NEW w \in Workers, Serving(w)
    PROVE  CopyInv'
<1>0. Tables /\ Shape /\ HandlerInv /\ OwnedInv /\ OwningInv
  BY DEF IInv
<1>o. \A u \in Workers \ {w} : Same(u) /\ (mu = u => mu' = u)
  BY Grows DEF Others
\* The two halves of CopyOf, for the file f and the blob b of a handler u.
<1> DEFINE Half(u, f) == Runs(u, "version") /\ at[u] = "mirroring" => \A h \in todo[u] : Reads(h.subject, f)
           Rest(u, f, b) ==
               Runs(u, "version") /\ at[u] \in {"mirroring", "adding"} /\ Sound(f) =>
                  \A s \in Subjects \ {fo[u].Owner} :
                     /\ Holds(s, b) => Reads(s, f)
                     /\ Reads(s, f) => \/ Holds(s, b) \/ short[u]
                                       \/ at[u] = "mirroring" /\ \E h \in todo[u] : h.subject = s
<1>a. ASSUME NEW u \in Workers, Runs(u, "version")', at'[u] \in {"mirroring", "adding"},
             NEW f, f = job'[u].file, NEW b, b = job'[u].blob
      PROVE  Half(u, f)' /\ Rest(u, f, b)'
  <2>1. CASE u # w
    <3>1. /\ Same(u) /\ job[u] # None /\ Runs(u, "version") /\ at[u] \in {"mirroring", "adding"}
          /\ f = job[u].file /\ b = job[u].blob /\ f \in Files /\ mu = u /\ Carries(u) /\ records[f] # None
      BY <1>0, <1>a, <1>o, <2>1, JobIs DEF Same, Runs, HandlerInv, HandlerPlace, Guarded, Carries, Past
    <3>2. \A s : (Reads(s, f)' <=> Reads(s, f)) /\ (Holds(s, b)' <=> Holds(s, b))
      BY <2>1, <3>1, ReadsGuarded, HoldsAlone
    <3>3. Sound(f)' => Sound(f)
      BY <3>1, SoundBack DEF Sound
    <3>4. Half(u, f) /\ Rest(u, f, b)
      BY <3>1 DEF CopyInv, CopyOf
    <3>5. Half(u, f)'
      BY <3>1, <3>2, <3>4 DEF Same, Runs
    <3>6. Rest(u, f, b)'
      BY <3>1, <3>2, <3>3, <3>4 DEF Same, Runs
    <3> QED BY <3>5, <3>6
  <2>2. CASE u = w
    <3>1. job[w] # None
      <4>1. SUFFICES ASSUME NEW r \in Requests, Request(w, r) PROVE FALSE
        BY <1>0, <1>a, <2>2, NewFile DEF Runs
      <4>2. at'[w] = FirstStep[r.op] /\ r.op \in Ops
        BY <1>0, <4>1, MovesIs, Consts DEF Request, Job
      <4> QED BY <1>a, <2>2, <4>2 DEF FirstStep, Ops
    <3>2. /\ Walks(w) /\ job'[w] # None /\ job'[w].op = job[w].op /\ f = job[w].file /\ f \in Files
          /\ Runs(w, "version") /\ HandlerType(w) /\ Place(job[w].op, at[w]) /\ records[f] # None
      BY <1>0, <1>a, <2>2, <3>1, GoesOn, NewFile, JobIs DEF Runs, HandlerInv, HandlerPlace
    <3>3. \A s : Reads(s, f)' <=> Reads(s, f)
      BY <3>2, ReadsTouched DEF Runs
    <3>4. Sound(f)' => Sound(f)
      BY <3>2, SoundBack DEF Sound
    <3>5. CASE List(w)
      <4>1. /\ at[w] = "listing" /\ at'[w] = "mirroring" /\ job'[w] = job[w] /\ fo'[w] = fo[w]
            /\ todo'[w] = WhatToList(w) \/ (todo'[w] = {} /\ "misread" \in excuses'[f])
        <5>1. at[w] = "listing"
          BY <3>5 DEF List, Moves
        <5> QED BY <3>2, <5>1 DEF Walks, Waits, Makes, Mirrors, Writes, Keeps, Loops, Runs
      <4>2. UNCHANGED store
        BY <3>5 DEF List
      <4>3. \A s : Holds(s, b)' <=> Holds(s, b)
        BY <4>2, StoreIs DEF Holds
      <4>4. WhatToList(w) = {g \in grantsForResource(f) : g.action = ActionRead /\ g.subject # fo[w].Owner}
        BY <3>2 DEF WhatToList, Runs
      <4>5. \A h \in todo'[w] : Reads(h.subject, f)
        <5>1. SUFFICES ASSUME NEW h \in todo'[w] PROVE Reads(h.subject, f)
          OBVIOUS
        <5>2. h \in grants /\ h.resource = f /\ h.action = ActionRead
          BY <4>1, <4>4 DEF grantsForResource
        <5>3. h \in activeGrant(h.subject, ActionRead, f)
          BY <5>2 DEF activeGrant
        <5> QED BY <5>3 DEF Reads, Active
      <4>6. ASSUME Sound(f)', NEW s \in Subjects \ {fo[w].Owner}
            PROVE  ~Holds(s, b) /\ (Reads(s, f) => \E h \in todo'[w] : h.subject = s)
        <5>1. ~Holds(s, b)
          BY <1>a, <2>2, <3>2, <4>1, <4>6 DEF FreshInv, FreshOf
        <5>2. ASSUME Reads(s, f) PROVE \E h \in todo'[w] : h.subject = s
          <6>1. PICK h : h \in activeGrant(s, ActionRead, f)
            BY <5>2 DEF Reads, Active
          <6>2. h \in WhatToList(w) /\ h.subject = s
            BY <4>4, <4>6, <6>1 DEF activeGrant, grantsForResource
          <6>3. todo'[w] = WhatToList(w)
            BY <4>1, <4>6 DEF Sound
          <6> QED BY <6>2, <6>3
        <5> QED BY <5>1, <5>2
      <4>7. Half(w, f)'
        BY <3>3, <4>5
      <4>8. Rest(w, f, b)'
        BY <3>3, <4>1, <4>3, <4>6
      <4> QED BY <2>2, <4>7, <4>8
    <3>6. CASE MirrorReaders(w)
      <4>0. at[w] = "mirroring"
        BY <3>6 DEF MirrorReaders, LoopStep
      <4>1. PICK h \in todo[w], result \in Results :
             /\ GrantPermission(Access(fo[w].Owner, h.subject, storageRetrieveBlobAction, job[w].blob, h.scope), result)
             /\ Loops(w, "mirroring", result) /\ todo'[w] = todo[w] \ {h}
        <5>1. ~List(w) /\ ~ReadersMirrored(w) /\ job[w].op = "version"
          BY <3>2, <4>0, <3>6 DEF List, Moves, ReadersMirrored, MirrorReaders, Runs
        <5> QED BY <3>2, <4>0, <5>1 DEF Walks, Waits, Makes, Mirrors, Writes, Keeps
      <4>2. /\ b = job[w].blob /\ b \in Blobs /\ h.subject \in Subjects /\ h.scope \in Scopes
            /\ fo[w].Owner \in Subjects
        BY <1>0, <1>a, <2>2, <3>1, <3>2, <4>0, <4>1, JobIs DEF HandlerInv, HandlerType, Runs, Past, Loops, Grant
      <4>3. PICK g \in Grant : /\ g = Access(fo[w].Owner, h.subject, storageRetrieveBlobAction, b, h.scope)
                               /\ g.subject = h.subject /\ g.action = storageRetrieveBlobAction /\ g.resource = b
        <5>1. Access(fo[w].Owner, h.subject, storageRetrieveBlobAction, b, h.scope) \in Grant
          <6>1. b \in Resources /\ storageRetrieveBlobAction \in Actions
            BY <4>2, Consts
          <6> QED BY <4>2, <6>1, AccessIs
        <5> QED BY <5>1 DEF Access
      <4>4. (putGrant(g) \/ UNCHANGED store) /\ (result = "ok" => putGrant(g))
        BY <4>1, <4>2, <4>3, CallsIs
      <4>5. /\ \A s : s = h.subject \/ (Holds(s, b)' <=> Holds(s, b))
            /\ Holds(h.subject, b) => Holds(h.subject, b)'
            /\ result = "ok" => Holds(h.subject, b)'
        BY <4>3, <4>4, PutIs, StoreIs DEF Holds
      <4>6. /\ at'[w] = "mirroring" /\ fo'[w] = fo[w] /\ (short[w] => short'[w]) /\ (result # "ok" => short'[w])
        BY <4>1 DEF Loops, Results
      <4>7. Half(w, f) /\ Rest(w, f, b)
        BY <3>2, <4>2 DEF CopyInv, CopyOf
      <4>8. Half(w, f)'
        BY <3>2, <3>3, <4>0, <4>1, <4>7
      <4>9. ASSUME Sound(f), NEW s \in Subjects \ {fo[w].Owner}
            PROVE  /\ Holds(s, b)' => Reads(s, f)
                   /\ Reads(s, f) => Holds(s, b)' \/ short'[w] \/ \E k \in todo'[w] : k.subject = s
        BY <3>2, <4>0, <4>1, <4>5, <4>6, <4>7, <4>9
      <4>10. Rest(w, f, b)'
        BY <3>3, <3>4, <4>6, <4>9
      <4> QED BY <2>2, <4>8, <4>10
    <3>7. CASE ReadersMirrored(w)
      <4>1. /\ todo[w] = {} /\ at[w] = "mirroring" /\ at'[w] = "adding" /\ UNCHANGED <<store, job, fo, todo, short>>
        BY <1>0, <3>7, MovesIs DEF ReadersMirrored
      <4>2. (\A s : Holds(s, b)' <=> Holds(s, b)) /\ b = job[w].blob
        BY <1>a, <2>2, <4>1, StoreIs DEF Holds
      <4>3. Rest(w, f, b)
        BY <3>2, <4>2 DEF CopyInv, CopyOf
      <4>4. Rest(w, f, b)'
        BY <3>2, <3>3, <3>4, <4>1, <4>2, <4>3
      <4> QED BY <2>2, <4>1, <4>4
    <3> QED
      <4>1. List(w) \/ MirrorReaders(w) \/ ReadersMirrored(w)
        BY <1>a, <2>2, <3>2 DEF Walks, Waits, Makes, Mirrors, Writes, Keeps, Loops, Runs
      <4> QED BY <3>5, <3>6, <3>7, <4>1
  <2> QED BY <2>1, <2>2
<1> QED
  <2>1. ASSUME NEW u \in Workers PROVE CopyOf(u)'
    <3>1. CASE ~(Runs(u, "version")' /\ at'[u] \in {"mirroring", "adding"})
      BY <3>1 DEF CopyOf
    <3>2. CASE Runs(u, "version")' /\ at'[u] \in {"mirroring", "adding"}
      <4>1. PICK f, b : f = job'[u].file /\ b = job'[u].blob
        OBVIOUS
      <4>2. Half(u, f)' /\ Rest(u, f, b)'
        BY <1>a, <3>2, <4>1
      <4>3. /\ \A s : Reads(s, f)' <=> Reads(s, job[u].file)'
            /\ \A s : Holds(s, b)' <=> Holds(s, job[u].blob)'
            /\ Sound(f)' <=> Sound(job[u].file)'
        BY <4>1 DEF Reads, Holds, Active, activeGrant, Sound
      <4> QED BY <4>2, <4>3 DEF CopyOf
    <3> QED BY <3>1, <3>2
  <2> QED BY <2>1 DEF CopyInv

LEMMA ChangeStep ==
    ASSUME IInv, MutexInv, AloneInv, ReachInv, ChangeInv, NEW w \in Workers, Serving(w)
    PROVE  ChangeInv'
<1>0. Tables /\ Shape /\ HandlerInv /\ OwnedInv /\ OwningInv
  BY DEF IInv
<1>o. \A u \in Workers \ {w} : Same(u) /\ (mu = u => mu' = u)
  BY Grows DEF Others
<1>a. ASSUME NEW u \in Workers, Runs(u, "permissions")', at'[u] \in {"listing", "mirroring"},
             NEW f, f = job'[u].file, NEW s, s = job'[u].change.Subject
      PROVE  job'[u].change.Action = ActionRead /\ (Reads(s, f)' <=> job'[u].change.Grant)
  <2>1. CASE u # w
    <3>1. /\ Same(u) /\ job[u] # None /\ Runs(u, "permissions") /\ at[u] \in {"listing", "mirroring"}
          /\ f = job[u].file /\ s = job[u].change.Subject /\ mu = u
      BY <1>0, <1>a, <1>o, <2>1 DEF Same, Runs, HandlerInv, HandlerPlace, Guarded
    <3>2. Reads(s, f)' <=> Reads(s, f)
      BY <2>1, <3>1, ReadsGuarded
    <3> QED BY <3>1, <3>2 DEF ChangeInv, ChangeOf, Same
  <2>2. CASE u = w
    <3>1. job[w] # None
      <4>1. SUFFICES ASSUME NEW r \in Requests, Request(w, r) PROVE FALSE
        BY <1>0, <1>a, <2>2, NewFile DEF Runs
      <4>2. at'[w] = FirstStep[r.op] /\ r.op \in Ops
        BY <1>0, <4>1, MovesIs, Consts DEF Request, Job
      <4> QED BY <1>a, <2>2, <4>2 DEF FirstStep, Ops
    <3>2. /\ Walks(w) /\ job'[w].op = job[w].op /\ f = job[w].file /\ f \in Files /\ Runs(w, "permissions")
          /\ Place(job[w].op, at[w]) /\ job[w].change \in Change /\ job[w].self \in Subjects
      BY <1>0, <1>a, <2>2, <3>1, GoesOn, NewFile, JobIs DEF Runs, HandlerInv
    <3>3. /\ job'[w] = job[w]
          /\ \/ ChangeAccess(w) /\ at[w] = "changing" /\ job[w].change.Action = ActionRead
                /\ IF job[w].change.Grant
                   THEN putGrant(Access(job[w].self, job[w].change.Subject, job[w].change.Action, job[w].file, job[w].change.Scope))
                   ELSE removeGrant(job[w].change.Subject, job[w].change.Action, job[w].file)
             \/ at[w] \in {"listing", "mirroring"}
      BY <1>a, <2>2, <3>2 DEF Walks, Waits, Makes, Mirrors, Writes, Keeps, Loops, Runs
    <3>4. CASE at[w] \in {"listing", "mirroring"}
      <4>1. Reads(s, f)' <=> Reads(s, f)
        BY <3>2, <3>4, ReadsTouched DEF Runs
      <4> QED BY <1>a, <2>2, <3>2, <3>3, <3>4, <4>1 DEF ChangeInv, ChangeOf
    <3>5. CASE ~(at[w] \in {"listing", "mirroring"})
      <4>1. s = job[w].change.Subject /\ job[w].change.Subject \in Subjects /\ job[w].change.Scope \in Scopes
            /\ job[w].change.Grant \in BOOLEAN
        BY <1>a, <2>2, <3>2, <3>3 DEF Change
      <4>2. CASE job[w].change.Grant
        <5>1. PICK g \in Grant : putGrant(g) /\ g.subject = s /\ g.action = ActionRead /\ g.resource = f
          BY <3>2, <3>3, <3>5, <4>1, <4>2, AccessIs, Consts DEF Access
        <5>2. Reads(s, f)'
          BY <5>1, PutIs DEF Reads
        <5> QED BY <2>2, <3>3, <3>5, <4>2, <5>2
      <4>3. CASE ~job[w].change.Grant
        <5>1. removeGrant(s, ActionRead, f)
          BY <3>2, <3>3, <3>5, <4>1, <4>3
        <5>2. ~Reads(s, f)'
          BY <5>1, RemoveIs DEF Reads
        <5> QED BY <2>2, <3>3, <3>5, <4>3, <5>2
      <4> QED BY <4>2, <4>3
    <3> QED BY <3>4, <3>5
  <2> QED BY <2>1, <2>2
<1>1. ASSUME NEW u \in Workers PROVE ChangeOf(u)'
  <2>1. PICK f, s : f = job'[u].file /\ s = job'[u].change.Subject
    OBVIOUS
  <2>2. Reads(s, f)' <=> Reads(job[u].change.Subject, job[u].file)'
    BY <2>1 DEF Reads, Active, activeGrant
  <2> QED BY <1>a, <2>1, <2>2 DEF ChangeOf
<1> QED BY <1>1 DEF ChangeInv

\* Revoking lets nobody in.
LEMMA RevokingOnlyRemoves ==
    ASSUME NEW w, RevokeGrant(w), NEW s, NEW a, NEW r, Active(s, a, r)'
    PROVE  Active(s, a, r)
<1>1. PICK g, result : RevokePermission(fo[w].Owner, g.subject, g.action, g.resource, result)
  BY DEF RevokeGrant
<1>2. removeGrant(g.subject, g.action, g.resource) \/ UNCHANGED store
  BY <1>1, CallsIs
<1> QED BY <1>2, RemoveIs, StoreIs

\* A change of who may read that is made good will be mirrored.
LEMMA ChangeIsMirrored ==
    ASSUME IInv, MutexInv, NEW w \in Workers, Serving(w), ChangeAccess(w), mu = w, Runs(w, "permissions"),
           at[w] = "changing", job[w].change.Action = ActionRead, excuses'[job[w].file] = {}
    PROVE  /\ mu' = w /\ job'[w] = job[w] /\ at'[w] = "listing"
           /\ Changing(w, job[w].file, job[w].change.Subject)'
<1>1. job[w] # None /\ job'[w] # None
  <2>1. job[w] # None
    BY DEF Runs
  <2> QED BY <2>1, DiesLoudly
<1>2. mu' = w /\ Walks(w)
  BY <1>1, KeepsMutex
<1>3. job'[w] = job[w] /\ at'[w] = "listing"
  BY <1>2 DEF Runs, Walks, Waits, Makes, Mirrors, Writes, Keeps, Loops
<1> QED BY <1>2, <1>3 DEF Changing, Runs

LEMMA EarlyStep ==
    ASSUME IInv, MutexInv, AloneInv, ReachInv, FreshInv, EarlyInv, NEW w \in Workers, Serving(w)
    PROVE  EarlyInv'
<1>0. Tables /\ Shape /\ HandlerInv /\ OwnedInv /\ OwningInv /\ BuryingInv
  BY DEF IInv
<1>o. \A u \in Workers \ {w} : Same(u) /\ (mu = u => mu' = u)
  BY Grows DEF Others
<1>a. ASSUME NEW u \in Workers, Runs(u, "create")', at'[u] = "adding", NEW f, f = job'[u].file, Sound(f)',
             NEW s \in Subjects, s # job'[u].self, Reads(s, f)'
      PROVE  \E v \in Workers : Changing(v, f, s)' /\ at'[v] = "listing"
  <2>1. CASE u = w
    <3>1. job[w] # None
      <4>1. SUFFICES ASSUME NEW r \in Requests, Request(w, r) PROVE FALSE
        BY <1>0, <1>a, <2>1, NewFile DEF Runs
      <4>2. at'[w] = FirstStep[r.op] /\ r.op \in Ops
        BY <1>0, <4>1, MovesIs, Consts DEF Request, Job
      <4> QED BY <1>a, <2>1, <4>2 DEF FirstStep, Ops
    <3>2. Walks(w) /\ job'[w].op = job[w].op /\ job'[w].self = job[w].self /\ f = job[w].file /\ f \in Files
      BY <1>0, <1>a, <2>1, <3>1, GoesOn, NewFile, JobIs DEF Runs, HandlerInv
    <3>3. at[w] = "creating" /\ Runs(w, "create")
      BY <1>a, <2>1, <3>1, <3>2 DEF Walks, Waits, Makes, Mirrors, Writes, Keeps, Loops, Runs
    <3>4. ~Reads(s, f)
      BY <1>a, <2>1, <3>2, <3>3 DEF FreshInv, FreshOf, Unborn, Runs
    <3> QED BY <1>a, <3>2, <3>3, <3>4, ReadsTouched DEF Runs
  <2>2. CASE u # w
    <3>1. /\ Same(u) /\ Runs(u, "create") /\ at[u] = "adding" /\ f = job[u].file /\ f \in Files /\ s # job[u].self
          /\ records[f] # None
      BY <1>0, <1>a, <1>o, <2>2, JobIs DEF Same, Runs, HandlerInv, HandlerPlace
    <3>2. Sound(f) /\ excuses'[f] = {}
      BY <1>a, <3>1, SoundBack DEF Sound
    <3>3. CASE Reads(s, f)
      <4>1. PICK v \in Workers : Changing(v, f, s) /\ at[v] = "listing"
        BY <3>1, <3>2, <3>3 DEF EarlyInv, EarlyOf
      <4>2. CASE v # w
        BY <1>o, <4>1, <4>2 DEF Same, Changing, Runs
      <4>3. CASE v = w
        <5>1. mu = w /\ Runs(w, "permissions") /\ job[w].file = f /\ at[w] = "listing"
          BY <4>1, <4>3 DEF Changing
        <5>2. job'[w] # None
          BY <3>2, <5>1, DiesLoudly DEF Runs
        <5>3. List(w) /\ \/ versions[f] = {} => "unborn" \in excuses'[f]
                         \/ "misread" \in excuses'[f]
          BY <5>1, <5>2, KeepsMutex DEF Runs, Walks, Waits, Makes, Mirrors, Writes, Keeps, Loops
        <5>4. versions[f] = {}
          BY <1>0, <3>1, <3>2 DEF BuryingInv, BuryingOf, Runs, Excuse, Sound
        <5> QED BY <3>2, <5>3, <5>4
      <4> QED BY <4>2, <4>3
    <3>4. CASE ~Reads(s, f)
      <4>1. /\ job[w] # None /\ job[w].file = f
            /\ \/ Runs(w, "create") /\ at[w] \notin {"adding", "logging"}
               \/ ChangeAccess(w) /\ Runs(w, "permissions") /\ at[w] = "changing" /\ mu = w
                  /\ job[w].change.Action = ActionRead /\ s = job[w].change.Subject
               \/ RevokeGrant(w)
        BY <1>a, <3>1, <3>4, ReadsTouched
      <4>2. ~(Runs(w, "create") /\ at[w] \notin {"adding", "logging"})
        BY <2>2, <3>1, <4>1 DEF AloneInv, Runs
      <4>3. ~RevokeGrant(w)
        BY <1>a, <3>4, RevokingOnlyRemoves DEF Reads
      <4>4. mu' = w /\ job'[w] = job[w] /\ at'[w] = "listing"
        BY <3>2, <4>1, <4>2, <4>3, ChangeIsMirrored
      <4>5. Changing(w, f, s)'
        BY <4>1, <4>2, <4>3, <4>4 DEF Changing, Runs
      <4> QED BY <4>4, <4>5
    <3> QED BY <3>3, <3>4
  <2> QED BY <2>1, <2>2
<1>1. ASSUME NEW u \in Workers PROVE EarlyOf(u)'
  <2>1. PICK f : f = job'[u].file
    OBVIOUS
  <2>2. /\ \A s : Reads(s, f)' <=> Reads(s, job[u].file)'
        /\ \A s, v : Changing(v, f, s)' <=> Changing(v, job[u].file, s)'
        /\ Sound(f)' <=> Sound(job[u].file)'
    BY <2>1 DEF Reads, Active, activeGrant, Sound, Changing
  <2> QED BY <1>a, <2>1, <2>2 DEF EarlyOf
<1> QED BY <1>1 DEF EarlyInv

\* Who is to bring a blob in step goes on with it, but for the call that does so.
LEMMA MendingStays ==
    ASSUME IInv, MutexInv, NEW w \in Workers, Serving(w), NEW u \in Workers, NEW f \in Files, NEW b \in versions[f], NEW s,
           Mending(u, f, b, s), excuses'[f] = {}
    PROVE  \/ Mending(u, f, b, s)'
           \/ /\ u = w /\ MirrorVersions(w) /\ Changing(w, f, s) /\ at[w] = "mirroring" /\ b = Oldest(todo[w])
<1>1. CASE u # w
  BY <1>1, Grows DEF Others, Same, Mending, Deleting, Changing, Runs
<1>2. CASE u = w /\ Deleting(w, f)
  BY <1>2, DeletingStays DEF Mending
<1>3. CASE u = w /\ ~Deleting(w, f)
  <2>1. /\ mu = w /\ job[w] # None /\ job[w].file = f
        /\ \/ at[w] \in {"listing", "mirroring", "putting"}
           \/ at[w] = "logging" /\ short[w]
    BY <1>3 DEF Mending, Changing, Runs
  <2>2. job'[w] # None
    BY <2>1, DiesLoudly
  <2>3. mu' = w /\ Walks(w) /\ job'[w].op = job[w].op /\ job'[w].file = f
    BY <2>1, <2>2, KeepsMutex
  <2>4. job'[w] = job[w]
    BY <2>1, <2>3 DEF Walks, Waits, Makes, Mirrors, Writes, Keeps, Loops
  <2>5. CASE Changing(w, f, s)
    <3>1. Changing(w, f, s)' /\ job[w].op = "permissions"
      BY <2>3, <2>4, <2>5 DEF Changing, Runs
    <3>2. \/ at[w] = "listing"
          \/ at[w] = "mirroring" /\ b \in todo[w]
          \/ at[w] \in {"mirroring", "putting", "logging"} /\ short[w]
      BY <1>3, <2>5, <3>1 DEF Mending, Runs
    <3>3. CASE at[w] = "listing"
      <4>1. /\ at'[w] = "mirroring"
            /\ todo'[w] = WhatToList(w) \/ "misread" \in excuses'[f]
        BY <2>1, <2>3, <3>1, <3>3 DEF Walks, Waits, Makes, Mirrors, Writes, Keeps, Loops
      <4>2. WhatToList(w) = versions[f]
        BY <2>1, <3>1 DEF WhatToList
      <4> QED BY <1>3, <3>1, <4>1, <4>2 DEF Mending
    <3>4. CASE at[w] = "mirroring"
      <4>1. \/ /\ MirrorVersions(w) /\ at'[w] = "mirroring" /\ (short[w] => short'[w])
               /\ todo'[w] = todo[w] \ {Oldest(todo[w])}
            \/ todo[w] = {} /\ at'[w] = "putting" /\ short'[w] = short[w]
        BY <2>3, <3>1, <3>4 DEF Walks, Waits, Makes, Mirrors, Writes, Keeps, Loops
      <4> QED BY <1>3, <2>5, <3>1, <3>2, <3>4, <4>1 DEF Mending
    <3>5. CASE at[w] \in {"putting", "logging"} /\ short[w]
      <4>1. at'[w] \in {"putting", "logging"} /\ short'[w]
        BY <2>3, <3>1, <3>5 DEF Walks, Waits, Makes, Mirrors, Writes, Keeps, Loops
      <4> QED BY <1>3, <3>1, <4>1 DEF Mending
    <3> QED BY <3>2, <3>3, <3>4, <3>5
  <2>6. CASE Runs(w, "version") /\ job[w].blob = b /\ at[w] \in {"putting", "logging"} /\ short[w]
    <3>1. at'[w] \in {"putting", "logging"} /\ short'[w]
      BY <2>3, <2>6 DEF Runs, Walks, Waits, Makes, Mirrors, Writes, Keeps, Loops
    <3> QED BY <1>3, <2>3, <2>4, <2>6, <3>1 DEF Mending, Runs
  <2> QED BY <1>3, <2>5, <2>6 DEF Mending
<1> QED BY <1>1, <1>2, <1>3

\* The call that brings b in step does so, or fails and will be reported.
LEMMA Mirrored ==
    ASSUME IInv, MutexInv, ReachInv, ChangeInv, NEW w \in Workers, Serving(w), NEW f \in Files, NEW b \in Blobs, NEW s,
           MirrorVersions(w), Changing(w, f, s), at[w] = "mirroring", b = Oldest(todo[w])
    PROVE  (Reads(s, f)' <=> Holds(s, b)') \/ Mending(w, f, b, s)'
<1>0. Tables /\ Shape /\ HandlerInv /\ OwnedInv /\ OwningInv
  BY DEF IInv
<1>1. /\ mu = w /\ job[w].op = "permissions" /\ job[w] # None /\ job[w].file = f /\ s = job[w].change.Subject
      /\ Runs(w, "permissions") /\ job' = job /\ job[w].change.Action = ActionRead
  BY DEF Changing, Runs, MirrorVersions, LoopStep
<1>2. mu' = w /\ Walks(w)
  BY <1>1, KeepsMutex
<1>3. /\ job[w].change.Subject \in Subjects /\ job[w].change.Scope \in Scopes /\ job[w].change.Grant \in BOOLEAN
      /\ fo[w].Owner \in Subjects
  <2>1. job[w].change \in Change /\ fo[w].Owner \in Subjects
    BY <1>0, <1>1, JobIs DEF HandlerInv
  <2> QED BY <2>1 DEF Change
<1>4. Reads(s, f)' <=> Reads(s, f)
  BY <1>1, ReadsTouched DEF Runs
<1>5. Reads(s, f) <=> job[w].change.Grant
  BY <1>1 DEF ChangeInv, ChangeOf
<1>6. PICK result \in Results :
             /\ IF job[w].change.Grant
                THEN GrantPermission(Access(fo[w].Owner, job[w].change.Subject, storageRetrieveBlobAction,
                                            Oldest(todo[w]), job[w].change.Scope), result)
                ELSE RevokePermission(fo[w].Owner, job[w].change.Subject, storageRetrieveBlobAction,
                                      Oldest(todo[w]), result)
             /\ Loops(w, "mirroring", result)
  <2>1. ~List(w) /\ ~VersionsMirrored(w)
    BY DEF List, Moves, VersionsMirrored, MirrorVersions
  <2> QED BY <1>1, <1>2, <2>1 DEF Walks, Waits, Makes, Mirrors, Writes, Keeps
<1>7. CASE result = "error"
  <2>1. at'[w] = "mirroring" /\ short'[w]
    BY <1>6, <1>7 DEF Loops
  <2> QED BY <1>1, <1>2, <2>1 DEF Mending, Changing, Runs
<1>8. CASE result = "ok" /\ job[w].change.Grant
  <2>1. PICK g \in Grant : /\ g = Access(fo[w].Owner, s, storageRetrieveBlobAction, b, job[w].change.Scope)
                           /\ g.subject = s /\ g.action = storageRetrieveBlobAction /\ g.resource = b
    <3>1. s \in Subjects /\ b \in Resources /\ storageRetrieveBlobAction \in Actions
      BY <1>1, <1>3, Consts
    <3>2. Access(fo[w].Owner, s, storageRetrieveBlobAction, b, job[w].change.Scope) \in Grant
      BY <1>3, <3>1, AccessIs
    <3> QED BY <3>2 DEF Access
  <2>2. putGrant(g)
    BY <1>1, <1>6, <1>8, <2>1, CallsIs
  <2> QED BY <1>4, <1>5, <1>8, <2>1, <2>2, PutIs DEF Holds
<1>9. CASE result = "ok" /\ ~job[w].change.Grant
  <2>1. removeGrant(s, storageRetrieveBlobAction, b)
    BY <1>1, <1>6, <1>9, CallsIs
  <2> QED BY <1>4, <1>5, <1>9, <2>1, RemoveIs DEF Holds
<1> QED BY <1>7, <1>8, <1>9 DEF Results

LEMMA SyncStep ==
    ASSUME IInv, MutexInv, AloneInv, ApartInv, ReachInv, FreshInv, CopyInv, ChangeInv, EarlyInv, SyncInv,
           NEW w \in Workers, Serving(w)
    PROVE  SyncInv'
<1>0. Tables /\ Shape /\ HandlerInv /\ OwnedInv /\ OwningInv
  BY DEF IInv
<1>o. \A u \in Workers \ {w} : Same(u) /\ (mu = u => mu' = u)
  BY Grows DEF Others
<1>1. SUFFICES ASSUME NEW f \in Files, Sound(f)', NEW b \in versions'[f], NEW s \in Subjects, s # records'[f].Owner
               PROVE  InStep(f, b, s)'
  BY DEF SyncInv
<1>2. /\ Sound(f) /\ records'[f].Owner = records[f].Owner /\ excuses'[f] = {} /\ b \in Blobs /\ records[f] # None
  <2>1. Sound(f)
    BY <1>1, SoundBack
  <2> QED BY <1>1, <2>1, Grows DEF Sound, IInv, Tables
<1>3. CASE b \in versions[f]
  <2>1. /\ blobs[b] # "none" /\ (Carries(w) => b # job[w].blob)
        /\ job[w] # None /\ b \in versions[job[w].file] => f = job[w].file
    BY <1>0, <1>3, JobIs DEF ApartInv, HandlerInv
  <2>2. InStep(f, b, s)
    BY <1>1, <1>2, <1>3 DEF SyncInv
  <2>3. CASE RevokeGrant(w) /\ Runs(w, "delete") /\ mu = w /\ f = job[w].file
    BY <1>2, <2>3, DeletingStays DEF InStep, Mending, Deleting
  <2>4. CASE ~(Reads(s, f)' <=> Reads(s, f))
    <3>1. /\ job[w] # None /\ job[w].file = f
          /\ \/ Runs(w, "create") /\ at[w] \notin {"adding", "logging"}
             \/ ChangeAccess(w) /\ Runs(w, "permissions") /\ at[w] = "changing" /\ mu = w
                /\ job[w].change.Action = ActionRead /\ s = job[w].change.Subject
             \/ RevokeGrant(w) /\ Runs(w, "delete") /\ mu = w
      BY <2>4, ReadsTouched
    <3>2. ~(Runs(w, "create") /\ at[w] \notin {"adding", "logging"})
      BY <1>2, <3>1 DEF AloneInv
    <3>3. CASE /\ ChangeAccess(w) /\ Runs(w, "permissions") /\ at[w] = "changing" /\ mu = w
               /\ job[w].change.Action = ActionRead /\ s = job[w].change.Subject
      <4>1. mu' = w /\ job'[w] = job[w] /\ at'[w] = "listing"
        BY <1>2, <3>1, <3>3, ChangeIsMirrored
      <4>2. Mending(w, f, b, s)'
        BY <3>1, <3>3, <4>1 DEF Mending, Changing, Runs
      <4> QED BY <4>2 DEF InStep
    <3> QED BY <2>3, <3>1, <3>2, <3>3
  <2>5. CASE /\ MirrorVersions(w) /\ Changing(w, f, s) /\ at[w] = "mirroring" /\ b = Oldest(todo[w])
    BY <1>2, <2>5, Mirrored DEF InStep
  <2>6. CASE ~(Holds(s, b)' <=> Holds(s, b))
    <3>1. /\ job[w] # None
          /\ \/ /\ MirrorVersions(w) /\ Runs(w, "permissions") /\ mu = w /\ at[w] = "mirroring"
                /\ s = job[w].change.Subject /\ b = Oldest(todo[w]) /\ b \in versions[job[w].file]
             \/ RevokeGrant(w) /\ Runs(w, "delete") /\ mu = w /\ b \in versions[job[w].file]
      BY <1>2, <2>1, <2>6, HoldsTouched
    <3>2. MirrorVersions(w) => Changing(w, f, s)
      <4>1. MirrorVersions(w) => ~RevokeGrant(w)
        BY DEF MirrorVersions, RevokeGrant, LoopStep
      <4> QED BY <2>1, <3>1, <4>1 DEF ChangeInv, ChangeOf, Changing
    <3> QED BY <2>1, <2>3, <2>5, <3>1, <3>2
  <2>7. CASE (Reads(s, f)' <=> Reads(s, f)) /\ (Holds(s, b)' <=> Holds(s, b)) /\ (Reads(s, f) <=> Holds(s, b))
    BY <2>7 DEF InStep
  <2>8. CASE \E u \in Workers : Mending(u, f, b, s)
    <3>1. PICK u \in Workers : Mending(u, f, b, s)
      BY <2>8
    <3>2. \/ Mending(u, f, b, s)'
          \/ /\ MirrorVersions(w) /\ Changing(w, f, s) /\ at[w] = "mirroring" /\ b = Oldest(todo[w])
      BY <1>2, <1>3, <3>1, MendingStays
    <3> QED BY <2>5, <3>2 DEF InStep
  <2> QED BY <2>2, <2>4, <2>6, <2>7, <2>8 DEF InStep
<1>4. CASE b \notin versions[f]
  <2>1. /\ AddVersion(w) /\ at[w] = "adding" /\ job[w] # None /\ f = job[w].file /\ b = job[w].blob
        /\ job[w].op \in {"create", "version"}
    BY <1>0, <1>1, <1>4, VersionsStep
  <2>2. UNCHANGED store /\ job' = job /\ mu' = mu /\ short' = short
    BY <2>1 DEF AddVersion
  <2>3. (Reads(s, f)' <=> Reads(s, f)) /\ (Holds(s, b)' <=> Holds(s, b))
    BY <2>2, StoreIs DEF Reads, Holds
  <2>4. OwnerOf(w) = records[f].Owner
    BY <1>0, <2>1 DEF OwningInv, OwningOf
  <2>5. CASE job[w].op = "version"
    <3>1. mu = w /\ fo[w].Owner = records[f].Owner
      BY <1>0, <2>1, <2>4, <2>5 DEF HandlerInv, HandlerPlace, Guarded, OwnerOf
    <3>2. (Holds(s, b) => Reads(s, f)) /\ (Reads(s, f) => Holds(s, b) \/ short[w])
      BY <1>1, <1>2, <2>1, <2>5, <3>1 DEF CopyInv, CopyOf, Runs
    <3>3. at'[w] = "putting"
      BY <1>0, <2>1, <2>5, MovesIs DEF AddVersion
    <3>4. short[w] => Mending(w, f, b, s)'
      BY <2>1, <2>2, <2>5, <3>1, <3>3 DEF Mending, Runs
    <3> QED BY <2>3, <3>2, <3>4 DEF InStep
  <2>6. CASE job[w].op = "create"
    <3>1. job[w].self = records[f].Owner /\ Pending(w)
      BY <2>1, <2>4, <2>6 DEF OwnerOf, Pending
    <3>2. ~Holds(s, b)
      BY <1>1, <1>2, <2>1, <2>6, <3>1 DEF FreshInv, FreshOf, Runs
    <3>3. CASE Reads(s, f)
      <4>1. PICK u \in Workers : Changing(u, f, s) /\ at[u] = "listing"
        BY <1>1, <1>2, <2>1, <2>6, <3>1, <3>3 DEF EarlyInv, EarlyOf, Runs
      <4>2. u # w
        BY <2>6, <4>1 DEF Changing, Runs
      <4>3. Mending(u, f, b, s)'
        BY <1>o, <4>1, <4>2 DEF Same, Mending, Changing, Runs
      <4> QED BY <4>3 DEF InStep
    <3> QED BY <2>3, <3>2, <3>3 DEF InStep
  <2> QED BY <2>1, <2>5, <2>6
<1> QED BY <1>3, <1>4

--------------------------------------------------------------------------------
(* The whole invariant, and the steps of no handler.                        *)

AccessInv ==
    /\ MutexInv /\ KnownInv /\ AloneInv /\ ApartInv /\ ReachInv /\ StoredInv /\ CurrentInv
    /\ FreshInv /\ CopyInv /\ ChangeInv /\ EarlyInv /\ SyncInv

LEMMA AccessHandlerStep ==
    ASSUME IInv, AccessInv, NEW w \in Workers, Serving(w)
    PROVE  AccessInv'
<1>0. /\ MutexInv /\ KnownInv /\ AloneInv /\ ApartInv /\ ReachInv /\ StoredInv /\ CurrentInv
      /\ FreshInv /\ CopyInv /\ ChangeInv /\ EarlyInv /\ SyncInv
  BY DEF AccessInv
<1>1. MutexInv' /\ KnownInv' /\ AloneInv' /\ ApartInv' /\ ReachInv'
  BY <1>0, MutexStep, KnownStep, AloneStep, ApartStep, ReachStep
<1>2. StoredInv' /\ CurrentInv'
  BY <1>0, StoredStep, CurrentStep
<1>3. FreshInv' /\ CopyInv' /\ ChangeInv' /\ EarlyInv' /\ SyncInv'
  BY <1>0, FreshStep, CopyStep, ChangeStep, EarlyStep, SyncStep
<1> QED BY <1>1, <1>2, <1>3 DEF AccessInv

LEMMA AccessUnchangedStep ==
    ASSUME AccessInv, UNCHANGED <<grants, owners, records, versions, events, blobs, mu, handlers, history>>,
           policies \subseteq policies'
    PROVE  AccessInv'
<1>0. /\ grants' = grants /\ owners' = owners /\ records' = records /\ versions' = versions /\ blobs' = blobs
      /\ mu' = mu /\ job' = job /\ at' = at /\ fo' = fo /\ listed' = listed /\ todo' = todo /\ short' = short
      /\ excuses' = excuses
  BY DEF handlers, history
<1>1. MutexInv' /\ KnownInv' /\ AloneInv' /\ ApartInv' /\ ReachInv'
  BY <1>0 DEF AccessInv, MutexInv, KnownInv, AloneInv, ApartInv, ReachInv, ReachOf, Runs, Carries
<1>2. StoredInv' /\ CurrentInv'
  BY <1>0 DEF AccessInv, StoredInv, CurrentInv, Sound, Shown, Deleting, Pending, Runs
<1>3. FreshInv' /\ CopyInv' /\ ChangeInv'
  BY <1>0 DEF AccessInv, FreshInv, FreshOf, CopyInv, CopyOf, ChangeInv, ChangeOf, Sound, Runs, Pending, Unborn,
              Reads, Holds, Active, activeGrant
<1>4. EarlyInv' /\ SyncInv'
  BY <1>0 DEF AccessInv, EarlyInv, EarlyOf, SyncInv, InStep, Mending, Changing, Deleting, Sound, Runs,
              Reads, Holds, Active, activeGrant
<1> QED BY <1>1, <1>2, <1>3, <1>4 DEF AccessInv

LEMMA AccessCrashStep ==
    ASSUME IInv, AccessInv, Crash
    PROVE  AccessInv'
<1>0. /\ grants' = grants /\ owners' = owners /\ policies' = policies /\ records' = records
      /\ versions' = versions /\ blobs' = blobs /\ mu' = None
  BY DEF Crash, store, tables
<1>1. \A u \in Workers : Ended(u)
  BY DEF Crash, Ended
<1>2. /\ \A f \in Files : Sound(f)' => Sound(f)
      /\ \A f \in Files, w \in Workers : Sound(f)' /\ job[w] # None => job[w].file # f
  <2>1. \A f \in Files : excuses'[f] = excuses[f] \cup
                     IF \E w \in Workers : job[w] # None /\ job[w].file = f THEN {"cutShort"} ELSE {}
    BY DEF Crash
  <2>2. SUFFICES ASSUME NEW f \in Files, Sound(f)'
                 PROVE  Sound(f) /\ \A w \in Workers : job[w] # None => job[w].file # f
    OBVIOUS
  <2>3. ~\E w \in Workers : job[w] # None /\ job[w].file = f
    BY <2>1, <2>2 DEF Sound
  <2> QED BY <1>0, <2>1, <2>2, <2>3 DEF Sound
<1>3. MutexInv' /\ KnownInv' /\ AloneInv' /\ ApartInv' /\ ReachInv'
  BY <1>0, <1>1 DEF AccessInv, MutexInv, KnownInv, AloneInv, ApartInv, ReachInv, ReachOf, Runs, Carries, Ended
<1>4. StoredInv' /\ CurrentInv'
  <2>1. \A f \in Files : Sound(f)' => ~\E w \in Workers : Deleting(w, f)
    BY <1>2 DEF Deleting, Runs
  <2>2. \A f \in Files : Sound(f)' => records[f].CurrentVersionRef \in versions[f]
    BY <1>2 DEF AccessInv, CurrentInv, Shown, Runs
  <2> QED BY <1>0, <1>1, <1>2, <2>1, <2>2 DEF AccessInv, StoredInv, CurrentInv, Shown, Pending, Ended
<1>5. FreshInv' /\ CopyInv' /\ ChangeInv' /\ EarlyInv'
  BY <1>1 DEF FreshInv, FreshOf, CopyInv, CopyOf, ChangeInv, ChangeOf, EarlyInv, EarlyOf, Pending, Unborn, Runs, Ended
<1>6. SyncInv'
  <2>1. SUFFICES ASSUME NEW f \in Files, Sound(f)', NEW b \in versions[f], NEW s \in Subjects, s # records[f].Owner
                 PROVE  InStep(f, b, s)'
    BY <1>0 DEF SyncInv
  <2>2. InStep(f, b, s)
    BY <1>2, <2>1 DEF AccessInv, SyncInv
  <2>3. ~\E w \in Workers : Mending(w, f, b, s)
    BY <1>2, <2>1 DEF Mending, Deleting, Changing, Runs
  <2>4. Reads(s, f)' <=> Holds(s, b)'
    BY <1>0, <2>2, <2>3 DEF InStep, Reads, Holds, Active, activeGrant
  <2> QED BY <2>4 DEF InStep
<1> QED BY <1>3, <1>4, <1>5, <1>6 DEF AccessInv

LEMMA AccessInit == Init => AccessInv
<1> SUFFICES ASSUME Init PROVE AccessInv
  OBVIOUS
<1>1. MutexInv /\ KnownInv /\ AloneInv /\ ReachInv
  BY DEF Init, MutexInv, KnownInv, AloneInv, ReachInv, ReachOf, Runs
<1>2. ApartInv
  BY DEF Init, ApartInv, Carries
<1>3. StoredInv /\ CurrentInv /\ SyncInv
  BY DEF Init, StoredInv, CurrentInv, SyncInv, Sound, Pending
<1>4. FreshInv /\ CopyInv /\ ChangeInv /\ EarlyInv
  BY DEF Init, FreshInv, FreshOf, CopyInv, CopyOf, ChangeInv, ChangeOf, EarlyInv, EarlyOf, Pending, Unborn, Runs
<1> QED BY <1>1, <1>2, <1>3, <1>4 DEF AccessInv

LEMMA AccessNext == IInv /\ AccessInv /\ [Next]_vars => AccessInv'
<1> SUFFICES ASSUME IInv, AccessInv, [Next]_vars PROVE AccessInv'
  OBVIOUS
<1>1. CASE NewService
  <2>1. UNCHANGED <<grants, owners, records, versions, events, blobs, mu, handlers, history>> /\ policies \subseteq policies'
    BY <1>1 DEF NewService, setPolicy
  <2> QED BY <2>1, AccessUnchangedStep
<1>2. ASSUME NEW w \in Workers, Serving(w) PROVE AccessInv'
  BY <1>2, AccessHandlerStep
<1>3. CASE Crash
  BY <1>3, AccessCrashStep
<1>4. CASE UNCHANGED vars
  <2>1. UNCHANGED <<grants, owners, records, versions, events, blobs, mu, handlers, history>> /\ policies \subseteq policies'
    BY <1>4 DEF vars, store
  <2> QED BY <2>1, AccessUnchangedStep
<1> QED BY <1>1, <1>2, <1>3, <1>4 DEF Next, Serving

\* The readers that the owner of a file is shown are those who can fetch its
\* content, every version of it, whichever calls fail and handlers die in between:
\* the grants on the blobs follow those on the file, though nothing makes the
\* changes of the two one transaction, unless the failure has been reported.
THEOREM AccessFollows == Spec => []BlobAccessFollowsFileAccess
<1>1. Spec => []AccessInv
  BY AccessInit, AccessNext, InductiveInvariant, PTL DEF Spec
<1>2. IInv /\ AccessInv => BlobAccessFollowsFileAccess
  <2> SUFFICES ASSUME IInv, AccessInv, NEW f \in Files, Settled(f), excuses[f] = {}, records[f] # None,
                      NEW s \in Subjects, s # records[f].Owner
               PROVE  IF s \in {g.subject : g \in {h \in ListFileAccess(records[f].Owner, f) : h.action = ActionRead}}
                      THEN ExportFile(s, f) /\ GetFileContent(s, f, None)
                      ELSE \A b \in ListVersions(records[f].Owner, f) : ~RetrieveBlob(b, s)
    BY DEF BlobAccessFollowsFileAccess
  <2>0. Tables /\ HandlerInv /\ OwnedInv /\ OwningInv /\ KnownInv /\ Sound(f)
    BY DEF IInv, AccessInv, Sound
  <2>1. s \in {g.subject : g \in {h \in ListFileAccess(records[f].Owner, f) : h.action = ActionRead}} <=> Reads(s, f)
    BY DEF ListFileAccess, grantsForResource, Reads, Active, activeGrant
  <2>2. \A w \in Workers : ~(mu = w /\ job[w] # None /\ job[w].file = f)
    BY DEF Settled
  <2>3. \A b \in versions[f] : blobs[b] = "stored" /\ (Reads(s, f) <=> Holds(s, b))
    BY <2>0, <2>2 DEF AccessInv, StoredInv, SyncInv, InStep, Mending, Deleting, Changing, Runs
  <2>4. \A b \in Blobs : b \in Resources /\ TypeOf[b] = "blob"
    BY FileObjectsAssumption
  <2>5. TypeOf[f] = "file_object"
    BY FileObjectsAssumption
  <2>6. versions[f] \subseteq Blobs
    BY <2>0 DEF Tables
  <2>7. \A b \in versions[f] : RetrieveBlob(b, s) <=> Holds(s, b)
    <3>1. \A b \in versions[f] : ownerOf(b) # s
      BY <2>0 DEF OwnedInv, ownerOf
    <3>2. \A b \in versions[f] : hasPolicy(TypeOf[b])
      BY <2>0, <2>4, <2>6 DEF KnownInv, hasPolicy
    <3> QED BY <2>3, <3>1, <3>2 DEF RetrieveBlob, CheckPermission, Holds, Active
  <2>8. CASE Reads(s, f)
    <3>1. MayRead(s, f)
      BY <2>0, <2>5, <2>8 DEF MayRead, CheckPermission, hasPolicy, KnownInv, Reads, Active
    <3>2. records[f].CurrentVersionRef \in versions[f]
      <4>1. Shown(f, records[f].CurrentVersionRef)
        BY <2>0 DEF AccessInv, CurrentInv
      <4>2. ASSUME NEW w \in Workers, Runs(w, "create"), at[w] = "adding", job[w].file = f PROVE FALSE
        <5>1. s # job[w].self
          BY <2>0, <4>2 DEF OwningInv, OwningOf, OwnerOf, Runs
        <5>2. \E u \in Workers : Changing(u, f, s)
          BY <2>0, <2>8, <4>2, <5>1 DEF AccessInv, EarlyInv, EarlyOf
        <5> QED BY <2>2, <5>2 DEF Changing, Runs
      <4> QED BY <4>1, <4>2 DEF Shown
    <3> QED BY <2>1, <2>3, <2>7, <2>8, <3>1, <3>2 DEF ExportFile, GetFileContent
  <2>9. CASE ~Reads(s, f)
    BY <2>1, <2>3, <2>7, <2>9 DEF ListVersions
  <2> QED BY <2>8, <2>9
<1> QED BY <1>1, <1>2, InductiveInvariant, PTL

================================================================================
