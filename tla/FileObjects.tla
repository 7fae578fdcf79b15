------------------------------ MODULE FileObjects ------------------------------
(***************************************************************************)
(* File Objects (services/api/internal/fileobjects/service.go): a file is  *)
(* a record, a list of versions, each with a blob of its own in Storage,   *)
(* and grants in Permissions on the file and, mirrored by this component,  *)
(* on the blob of each version.  No transaction spans the three.           *)
(*                                                                         *)
(* A handler runs in the goroutine of its request (a worker).  CreateVersion,*)
(* SetFilePermissions and DeleteFileObject change grants and blobs under   *)
(* one mutex of the process, but read the file's record before they take   *)
(* it, and write that record back whole at the end; SetFileMetadata takes  *)
(* no mutex.                                                               *)
(*                                                                         *)
(* A call of Permissions or of Storage is one step here: the grants of a   *)
(* file and of its blobs change under the mutex or under identifiers that  *)
(* nobody has been told yet.  Modules Permissions and Storage say what     *)
(* happens inside.  Grants that subjects change by calling Permissions     *)
(* themselves are not mirrored by the code, and left out.                  *)
(***************************************************************************)
EXTENDS Grants

CONSTANTS
    Files,          \* file_object_ids
    Blobs,          \* blob_refs, in the order they are made; a version is named by its blob
    Workers,        \* goroutines
    Requests,       \* bound: the mutating requests that may be made
    MaxRequests,    \* bound: how many are made
    MaxFaults       \* bound: calls that fail, panics and crashes

ActionRead == "fileobjects.read"
ActionWrite == "fileobjects.write"
storageRetrieveBlobAction == "storage.retrieve_blob"
storageDeleteBlobAction == "storage.delete_blob"
scopeFull == "full"

VARIABLES
    records,    \* fileobjects_records: records[f], or None
    versions,   \* fileobjects_versions: the blobs of the versions of f
    events,     \* fileobjects_events: the kinds of event in the history of f
    blobs,      \* Storage: what has become of a blob
    mu,         \* Service.mu: the worker that holds it, or None
    job, at,    \* job[w], at[w]: the request w serves and how far it is
    fo,         \* fo[w]: the record w read, as changed so far, or None
    listed,     \* listed[w]: the versions w read
    todo,       \* todo[w]: what the loop w is in has left to do
    short,      \* short[w]: a call in that loop failed
    requests,   \* bound: requests so far
    faults,     \* bound: failures so far
    excuses,    \* history: what has befallen f that the properties except
    late        \* history: versions added to a file that had been marked deleted

handlers == <<job, at, fo, listed, todo, short>>
bounds == <<requests, faults>>
history == <<excuses, late>>
vars == <<store, records, versions, events, blobs, mu, handlers, bounds, history>>

FileObjectRecord == [Owner : Subjects, CurrentVersionRef : Blobs, Deleted : BOOLEAN]

\* What a SetFilePermissions asks for.
Change == [Grant : BOOLEAN, Subject : Subjects, Action : {ActionRead, ActionWrite}, Scope : Scopes]

Ops == {"create", "version", "permissions", "metadata", "delete"}
\* A request as its handler holds it; blob is the one it has stored, if any.
Job == [op : Ops, self : Subjects, file : Files, blob : Blobs \cup {None}, change : Change \cup {None}]

ASSUME FileObjectsAssumption ==
    /\ Blobs \subseteq Nat /\ Blobs # {} /\ Files # {}
    /\ Resources = Files \cup Blobs
    /\ TypeOf = [r \in Resources |-> IF r \in Files THEN "file_object" ELSE "blob"]
    /\ {ActionRead, ActionWrite, storageRetrieveBlobAction} \subseteq Actions
    /\ scopeFull \in Scopes
    /\ Files \cap Blobs = {}
    /\ None \notin Files \cup Blobs \cup Workers
    /\ None \notin Job /\ None \notin Change /\ None \notin FileObjectRecord
    /\ Requests \subseteq {r \in Job : r.blob = None /\ (r.change # None <=> r.op = "permissions")}
    /\ MaxRequests \in Nat /\ MaxFaults \in Nat

Unlocked == {"storing", "grantRead", "grantWrite", "grantBlob", "rollback", "creating",
             "checking", "reading", "locking"}
Locked == {"listing", "granting", "discarding", "changing", "mirroring",
           "erasing", "revoking"}
Writing == {"adding", "putting", "logging"}

Runs(w, op) == job[w] # None /\ job[w].op = op

TypeOK ==
    /\ GrantsTypeOK
    /\ records \in [Files -> FileObjectRecord \cup {None}]
    /\ versions \in [Files -> SUBSET Blobs]
    /\ events \in [Files -> SUBSET Ops]
    /\ blobs \in [Blobs -> {"none", "stored", "erased"}]
    /\ mu \in Workers \cup {None}
    /\ job \in [Workers -> Job \cup {None}]
    /\ at \in [Workers -> {"idle"} \cup Unlocked \cup Locked \cup Writing]
    /\ fo \in [Workers -> FileObjectRecord \cup {None}]
    /\ listed \in [Workers -> SUBSET Blobs]
    /\ \A w \in Workers : todo[w] \subseteq IF Runs(w, "permissions") \/ at[w] = "erasing"
                                         THEN Blobs ELSE Grant
    /\ todo = [w \in Workers |-> todo[w]]
    /\ short \in [Workers -> BOOLEAN]
    /\ requests \in 0..MaxRequests /\ faults \in 0..MaxFaults
    /\ excuses \in [Files -> SUBSET {"cutShort", "misread", "unborn", "buried"}]
    /\ late \subseteq Blobs
    /\ \A w \in Workers :
          /\ job[w] = None <=> at[w] = "idle"
          /\ at[w] \in Locked => mu = w

Init ==
    /\ grants = {}
    /\ owners = [r \in Resources |-> None]
    /\ policies = {"blob"}      \* Storage's NewService has run
    /\ records = [f \in Files |-> None]
    /\ versions = [f \in Files |-> {}]
    /\ events = [f \in Files |-> {}]
    /\ blobs = [b \in Blobs |-> "none"]
    /\ mu = None
    /\ job = [w \in Workers |-> None]
    /\ at = [w \in Workers |-> "idle"]
    /\ fo = [w \in Workers |-> None]
    /\ listed = [w \in Workers |-> {}]
    /\ todo = [w \in Workers |-> {}]
    /\ short = [w \in Workers |-> FALSE]
    /\ requests = 0
    /\ faults = 0
    /\ excuses = [f \in Files |-> {}]
    /\ late = {}

--------------------------------------------------------------------------------
(* What Permissions and Storage do for a caller: each call ends "ok" or     *)
(* "error"; an error may leave the change in place (its audit event failed).*)

Fault == faults < MaxFaults /\ faults' = faults + 1 /\ UNCHANGED requests
NoFault == UNCHANGED bounds

Access(grantor, subject, action, r, scope) ==
    [grantor |-> grantor, subject |-> subject, action |-> action, resource |-> r, scope |-> scope]

GrantPermission(g, result) ==
    \/ result = "ok" /\ NoFault /\ authorizeGrant(g) /\ putGrant(g)
    \/ result = "error" /\ NoFault /\ ~authorizeGrant(g) /\ UNCHANGED store
    \/ result = "error" /\ Fault /\ authorizeGrant(g) /\ (putGrant(g) \/ UNCHANGED store)

RevokePermission(grantor, s, a, r, result) ==
    LET allowed == \E g \in activeGrant(s, a, r) : authorizeRevoke(grantor, g)
    IN  \/ result = "ok" /\ NoFault /\ allowed /\ removeGrant(s, a, r)
        \/ result = "error" /\ NoFault /\ ~allowed /\ UNCHANGED store
        \/ result = "error" /\ Fault /\ allowed /\ (removeGrant(s, a, r) \/ UNCHANGED store)

Oldest(bs) == CHOOSE b \in bs : \A c \in bs : b <= c

UnusedBlobs == {b \in Blobs : blobs[b] = "none"}

\* StoreBlob makes its owner the owner of the blob; when it fails it leaves nothing.
StoreBlob(b, owner) ==
    /\ blobs' = [blobs EXCEPT ![b] = "stored"]
    /\ putGrant(Access(owner, owner, storageRetrieveBlobAction, b, scopeFull))

DeleteBlob(b, requester, result) ==
    LET erases == CheckPermission(requester, storageDeleteBlobAction, b) /\ blobs[b] = "stored"
        erased == [blobs EXCEPT ![b] = "erased"]
    IN  \/ result = "ok" /\ NoFault /\ erases /\ blobs' = erased
        \/ result = "error" /\ NoFault /\ ~erases /\ UNCHANGED blobs
        \/ result = "error" /\ Fault /\ erases /\ blobs' \in {erased, blobs}

RetrieveBlob(b, s) == CheckPermission(s, storageRetrieveBlobAction, b) /\ blobs[b] = "stored"

--------------------------------------------------------------------------------
(* The read-only requests.                                                  *)

MayRead(s, f) == CheckPermission(s, ActionRead, f)

\* The version asked for, or the current one.
GetFileContent(s, f, version) ==
    LET b == IF version = None THEN records[f].CurrentVersionRef ELSE version
    IN  MayRead(s, f) /\ records[f] # None /\ b \in versions[f] /\ RetrieveBlob(b, s)

ExportFile(s, f) ==
    MayRead(s, f) /\ records[f] # None /\ \A b \in versions[f] : RetrieveBlob(b, s)

ListVersions(s, f) == IF MayRead(s, f) /\ records[f] # None THEN versions[f] ELSE {}

GetFileHistory(s, f) == IF MayRead(s, f) /\ records[f] # None THEN events[f] ELSE {}

ListFileObjects(owner) ==
    {f \in Files : records[f] # None /\ records[f].Owner = owner /\ ~records[f].Deleted}

ListFileAccess(s, f) ==
    IF records[f] # None /\ records[f].Owner = s THEN grantsForResource(f) ELSE {}

--------------------------------------------------------------------------------
(* Requests, the mutex, and the end of a request.                           *)

NewService ==
    /\ "file_object" \notin policies
    /\ setPolicy("file_object")
    /\ UNCHANGED <<records, versions, events, blobs, mu, handlers, bounds, history>>

Moves(w, from, to) == at[w] = from /\ at' = [at EXCEPT ![w] = to]

FirstStep == [create |-> "storing", version |-> "checking", permissions |-> "reading",
              metadata |-> "checking", delete |-> "checking"]

Free(w) == at[w] = "idle" /\ "file_object" \in policies

\* A file id is new to Permissions and to every other request when it is made.
Fresh(f) ==
    /\ records[f] = None /\ owners[f] = None
    /\ \A w \in Workers : job[w] # None => job[w].file # f

Request(w, r) ==
    /\ Free(w)
    /\ requests < MaxRequests /\ requests' = requests + 1 /\ UNCHANGED faults
    /\ IF r.op = "create" THEN Fresh(r.file) ELSE records[r.file] # None
    /\ Moves(w, "idle", FirstStep[r.op])
    /\ job' = [job EXCEPT ![w] = r]
    /\ UNCHANGED <<store, records, versions, events, blobs, mu, fo, listed, todo, short, history>>

\* Mutated form of Lock: nobody waits for the holder.
LockAtOnce(w) ==
    /\ mu' = w
    /\ Moves(w, "locking", CASE job[w].op = "version" -> "storing"
                             [] job[w].op = "permissions" -> "changing"
                             [] job[w].op = "delete" -> "listing")
    /\ UNCHANGED <<store, records, versions, events, blobs, job, fo, listed, todo, short,
                   bounds, history>>

Lock(w) ==
    /\ mu = None
    /\ mu' = w
    /\ Moves(w, "locking", CASE job[w].op = "version" -> "storing"
                             [] job[w].op = "permissions" -> "changing"
                             [] job[w].op = "delete" -> "listing")
    /\ UNCHANGED <<store, records, versions, events, blobs, job, fo, listed, todo, short,
                   bounds, history>>

Excused(w, es) == excuses' = [excuses EXCEPT ![job[w].file] = @ \cup es]

\* The deferred Unlock runs however the handler ends.
Ends(w) ==
    /\ job' = [job EXCEPT ![w] = None]
    /\ at' = [at EXCEPT ![w] = "idle"]
    /\ fo' = [fo EXCEPT ![w] = None]
    /\ listed' = [listed EXCEPT ![w] = {}]
    /\ todo' = [todo EXCEPT ![w] = {}]
    /\ short' = [short EXCEPT ![w] = FALSE]
    /\ mu' = IF mu = w THEN None ELSE mu

\* Mutated form of Fails: only a handler that gets to its end unlocks.
FailsLocked(w) ==
    /\ job' = [job EXCEPT ![w] = None]
    /\ at' = [at EXCEPT ![w] = "idle"]
    /\ fo' = [fo EXCEPT ![w] = None]
    /\ listed' = [listed EXCEPT ![w] = {}]
    /\ todo' = [todo EXCEPT ![w] = {}]
    /\ short' = [short EXCEPT ![w] = FALSE]
    /\ Excused(w, {"cutShort"})
    /\ UNCHANGED mu

\* The handler reports an error after it has begun to change something.
Fails(w) == Ends(w) /\ Excused(w, {"cutShort"})

tables == <<records, versions, events>>

--------------------------------------------------------------------------------
(* CreateFileObject.                                                        *)

\* Also CreateVersion's StoreBlob, for the file's owner and never the requester.
Store(w) ==
    LET owner == IF job[w].op = "create" THEN job[w].self ELSE fo[w].Owner
        b == Oldest(UnusedBlobs)
    IN  /\ at[w] = "storing"
        /\ \/ /\ UnusedBlobs # {}
              /\ StoreBlob(b, owner)
              /\ Moves(w, "storing", IF job[w].op = "create" THEN "grantRead" ELSE "granting")
              /\ job' = [job EXCEPT ![w].blob = b]
              /\ NoFault /\ UNCHANGED <<mu, fo, listed, todo, short>>
           \/ /\ Ends(w)
              /\ IF UnusedBlobs = {} THEN NoFault ELSE Fault
              /\ UNCHANGED <<store, blobs>>
        /\ UNCHANGED <<tables, history>>

bootstrap == [grantRead  |-> [action |-> ActionRead, next |-> "grantWrite"],
              grantWrite |-> [action |-> ActionWrite, next |-> "grantBlob"],
              grantBlob  |-> [action |-> storageRetrieveBlobAction, next |-> "creating"]]

\* todo: the grants a rollback will revoke.
BootstrapGrant(w) ==
    /\ at[w] \in DOMAIN bootstrap
    /\ LET r == IF at[w] = "grantBlob" THEN job[w].blob ELSE job[w].file
           g == Access(job[w].self, job[w].self, bootstrap[at[w]].action, r, scopeFull)
       IN  \/ /\ GrantPermission(g, "ok")
              /\ Moves(w, at[w], bootstrap[at[w]].next)
              /\ todo' = [todo EXCEPT ![w] = @ \cup {g}]
           \/ /\ GrantPermission(g, "error")
              /\ Moves(w, at[w], "rollback")
              /\ UNCHANGED todo
    /\ UNCHANGED <<tables, blobs, mu, job, fo, listed, short, history>>

\* Best effort, the errors of its calls are ignored.  Nobody else has the
\* identifiers yet: one step for them all.
RollBack(w) ==
    /\ at[w] = "rollback"
    /\ blobs' \in {blobs, [blobs EXCEPT ![job[w].blob] = "erased"]}
    /\ \E undone \in SUBSET todo[w] : grants' = grants \ undone
    /\ Ends(w)
    /\ UNCHANGED <<owners, policies, tables, bounds, history>>

\* The audit event, then the record: from here on its owner can list the file.
PutCreated(w) ==
    /\ \/ /\ Moves(w, "creating", "adding")
          /\ records' = [records EXCEPT ![job[w].file] =
                           [Owner |-> job[w].self, CurrentVersionRef |-> job[w].blob, Deleted |-> FALSE]]
          /\ NoFault
       \/ Moves(w, "creating", "rollback") /\ Fault /\ UNCHANGED records
    /\ UNCHANGED <<store, versions, events, blobs, mu, job, fo, listed, todo, short, history>>

--------------------------------------------------------------------------------
(* What the others read before they take the mutex.                         *)

\* SetFilePermissions has no check of its own.
CheckWrite(w) ==
    /\ at[w] = "checking"
    /\ LET allowed == CheckPermission(job[w].self, ActionWrite, job[w].file)
       IN  \/ /\ allowed /\ NoFault
              /\ Moves(w, "checking", "reading")
              /\ UNCHANGED <<mu, job, fo, listed, todo, short>>
           \/ Ends(w) /\ (IF allowed THEN Fault ELSE NoFault)
    /\ UNCHANGED <<store, tables, blobs, history>>

\* SetFilePermissions and SetFileMetadata take a deleted file as well.
ReadFileObject(w) ==
    /\ at[w] = "reading"
    /\ LET r == records[job[w].file]
           refused == r.Deleted /\ job[w].op \in {"version", "delete"}
       IN  \/ /\ ~refused /\ NoFault
              /\ fo' = [fo EXCEPT ![w] = r]
              /\ Moves(w, "reading", IF job[w].op = "metadata" THEN "putting" ELSE "locking")
              /\ UNCHANGED <<mu, job, listed, todo, short>>
           \/ Ends(w) /\ (IF refused THEN NoFault ELSE Fault)
    /\ UNCHANGED <<store, tables, blobs, history>>

--------------------------------------------------------------------------------
(* Lists: one that cannot be read looks empty.                              *)

\* Mutated form of WhatToList: only the current version is mirrored or erased.
ListCurrent(w) ==
    IF job[w].op = "version"
    THEN {g \in grantsForResource(job[w].file) : g.action = ActionRead /\ g.subject # fo[w].Owner}
    ELSE {fo[w].CurrentVersionRef}

WhatToList(w) ==
    IF job[w].op = "version"
    THEN {g \in grantsForResource(job[w].file) : g.action = ActionRead /\ g.subject # fo[w].Owner}
    ELSE versions[job[w].file]

List(w) ==
    /\ Moves(w, "listing", IF job[w].op = "delete" THEN "erasing" ELSE "mirroring")
    /\ \/ todo' = [todo EXCEPT ![w] = WhatToList(w)] /\ NoFault
          /\ Excused(w, IF versions[job[w].file] = {} THEN {"unborn"} ELSE {})
       \/ todo' = [todo EXCEPT ![w] = {}] /\ Fault /\ Excused(w, {"misread"})
    /\ listed' = [listed EXCEPT ![w] = IF job[w].op = "version" THEN {} ELSE todo'[w]]
    /\ UNCHANGED <<store, tables, blobs, mu, job, fo, short, late>>

\* The call of the loop ends with `result`; its errors are collected in short.
LoopStep(w, from, item, result) ==
    /\ at[w] = from
    /\ todo' = [todo EXCEPT ![w] = @ \ {item}]
    /\ short' = [short EXCEPT ![w] = @ \/ result = "error"]
    /\ UNCHANGED <<tables, mu, job, at, fo, listed, history>>

Results == {"ok", "error"}

--------------------------------------------------------------------------------
(* CreateVersion, once it has stored the content.                           *)

\* The file's owner first, whoever the requester is.
GrantOwner(w) ==
    LET g == Access(fo[w].Owner, fo[w].Owner, storageRetrieveBlobAction, job[w].blob, scopeFull)
    IN  /\ at[w] = "granting"
        /\ \/ GrantPermission(g, "ok") /\ Moves(w, "granting", "listing")
           \/ GrantPermission(g, "error") /\ Moves(w, "granting", "discarding")
        /\ UNCHANGED <<tables, blobs, mu, job, fo, listed, todo, short, history>>

Discard(w) ==
    /\ at[w] = "discarding"
    /\ blobs' \in {blobs, [blobs EXCEPT ![job[w].blob] = "erased"]}
    /\ Ends(w)
    /\ UNCHANGED <<store, tables, bounds, history>>

\* Then everybody else who may read the file.
MirrorReaders(w) ==
    /\ Runs(w, "version")
    /\ \E h \in todo[w], result \in Results :
          /\ GrantPermission(Access(fo[w].Owner, h.subject, storageRetrieveBlobAction,
                                    job[w].blob, h.scope), result)
          /\ LoopStep(w, "mirroring", h, result)
    /\ UNCHANGED blobs

ReadersMirrored(w) ==
    /\ Runs(w, "version") /\ todo[w] = {}
    /\ Moves(w, "mirroring", "adding")
    /\ UNCHANGED <<store, tables, blobs, mu, job, fo, listed, todo, short, bounds, history>>

\* addVersion.  A create has put its record before, a CreateVersion will.
AddVersion(w) ==
    /\ at[w] = "adding"
    /\ versions' = [versions EXCEPT ![job[w].file] = @ \cup {job[w].blob}]
    /\ late' = IF "buried" \in excuses[job[w].file] THEN late \cup {job[w].blob} ELSE late
    /\ IF job[w].op = "create"
       THEN Moves(w, "adding", "logging") /\ UNCHANGED fo
       ELSE /\ Moves(w, "adding", "putting")
            /\ fo' = [fo EXCEPT ![w].CurrentVersionRef = job[w].blob]
    /\ UNCHANGED <<store, records, events, blobs, mu, job, listed, todo, short, bounds, excuses>>

--------------------------------------------------------------------------------
(* SetFilePermissions.                                                      *)

ChangeAccess(w) ==
    LET c == job[w].change
        f == job[w].file
        Changed(result) ==
            IF c.Grant THEN GrantPermission(Access(job[w].self, c.Subject, c.Action, f, c.Scope), result)
                       ELSE RevokePermission(job[w].self, c.Subject, c.Action, f, result)
    IN  /\ at[w] = "changing"
        /\ \/ /\ Changed("ok")
              /\ Moves(w, "changing", IF c.Action = ActionRead THEN "listing" ELSE "putting")
              /\ UNCHANGED <<mu, job, fo, listed, todo, short, excuses>>
           \/ Changed("error") /\ Fails(w)
        /\ UNCHANGED <<tables, blobs, late>>

\* A change of who may read goes to every version, in the owner's name.
MirrorVersions(w) ==
    LET c == job[w].change
    IN  /\ Runs(w, "permissions") /\ todo[w] # {}
        /\ \E b \in {Oldest(todo[w])}, result \in Results :
              /\ IF c.Grant
                 THEN GrantPermission(Access(fo[w].Owner, c.Subject, storageRetrieveBlobAction, b, c.Scope), result)
                 ELSE RevokePermission(fo[w].Owner, c.Subject, storageRetrieveBlobAction, b, result)
              /\ LoopStep(w, "mirroring", b, result)
        /\ UNCHANGED blobs

VersionsMirrored(w) ==
    /\ Runs(w, "permissions") /\ todo[w] = {}
    /\ Moves(w, "mirroring", "putting")
    /\ UNCHANGED <<store, tables, blobs, mu, job, fo, listed, todo, short, bounds, history>>

--------------------------------------------------------------------------------
(* DeleteFileObject.                                                        *)

EraseBlob(w) ==
    /\ at[w] = "erasing" /\ todo[w] # {}
    /\ \E b \in {Oldest(todo[w])}, result \in Results :
          /\ DeleteBlob(b, fo[w].Owner, result)
          /\ LoopStep(w, "erasing", b, result)
    /\ UNCHANGED store

\* Mutated form of BlobsErased: failed erasures are overlooked.
BlobsErasedOrNot(w) ==
    /\ at[w] = "erasing" /\ todo[w] = {}
    /\ Moves(w, "erasing", "revoking")
    /\ todo' = [todo EXCEPT ![w] =
                  UNION {grantsForResource(r) : r \in {job[w].file} \cup listed[w]}]
    /\ NoFault
    /\ UNCHANGED <<store, tables, blobs, mu, job, fo, listed, short, history>>

\* Not marked deleted unless every erasure succeeded.  The grants that a failed
\* read hides are not revoked.
BlobsErased(w) ==
    /\ at[w] = "erasing" /\ todo[w] = {}
    /\ \/ short[w] /\ Fails(w) /\ NoFault
       \/ /\ ~short[w]
          /\ Moves(w, "erasing", "revoking")
          /\ \E hidden \in SUBSET ({job[w].file} \cup listed[w]) :
                /\ todo' = [todo EXCEPT ![w] =
                              UNION {grantsForResource(r) : r \in ({job[w].file} \cup listed[w]) \ hidden}]
                /\ IF hidden = {} THEN NoFault ELSE Fault
          /\ UNCHANGED <<mu, job, fo, listed, short, excuses>>
    /\ UNCHANGED <<store, tables, blobs, late>>

\* The grants on the file first, then those on the versions in turn.
NextToRevoke(w) ==
    LET ofFile == {g \in todo[w] : g.resource = job[w].file}
    IN  IF ofFile # {} THEN ofFile
        ELSE {g \in todo[w] : g.resource = Oldest({h.resource : h \in todo[w]})}

\* Best effort: the errors are ignored.
RevokeGrant(w) ==
    /\ at[w] = "revoking" /\ todo[w] # {}
    /\ \E g \in NextToRevoke(w), result \in Results :
          /\ RevokePermission(fo[w].Owner, g.subject, g.action, g.resource, result)
          /\ LoopStep(w, "revoking", g, "ok")
    /\ UNCHANGED blobs

GrantsRevoked(w) ==
    /\ todo[w] = {}
    /\ Moves(w, "revoking", "putting")
    /\ fo' = [fo EXCEPT ![w].Deleted = TRUE]
    /\ UNCHANGED <<store, tables, blobs, mu, job, listed, todo, short, bounds, history>>

--------------------------------------------------------------------------------
(* The end of every change: audit event, record, history entry.             *)

\* The record goes back whole, as it was read before the mutex was taken but for
\* the request's own change.  Without its audit event only a new version is kept.
PutFileObject(w) ==
    LET f == job[w].file
        put == [records EXCEPT ![f] = fo[w]]
        buried == IF fo[w].Deleted THEN {"buried"} ELSE {}
    IN  /\ at[w] = "putting"
        /\ \/ /\ Moves(w, "putting", "logging")
              /\ records' = put
              /\ Excused(w, buried)
              /\ NoFault /\ UNCHANGED <<mu, job, fo, listed, todo, short>>
           \/ /\ Fault
              /\ records' = IF job[w].op = "version" THEN put ELSE records
              /\ Fails(w)
        /\ UNCHANGED <<store, versions, events, blobs, late>>

\* Calls of the loop that failed are reported now.
AddEvent(w) ==
    /\ at[w] = "logging"
    /\ events' = [events EXCEPT ![job[w].file] = @ \cup {job[w].op}]
    /\ Ends(w)
    /\ Excused(w, IF short[w] THEN {"cutShort"} ELSE {})
    /\ UNCHANGED <<store, records, versions, blobs, bounds, late>>

--------------------------------------------------------------------------------
(* Failures.                                                                *)

\* A write panics: here, in Permissions or in Storage.
Panic(w) ==
    /\ Fault
    /\ at[w] \notin {"idle", "checking", "reading", "locking"}
    /\ Fails(w)
    /\ UNCHANGED <<store, tables, blobs, late>>

Crash ==
    /\ Fault
    /\ \E w \in Workers : job[w] # None
    /\ excuses' = [f \in Files |-> excuses[f] \cup
                     IF \E w \in Workers : job[w] # None /\ job[w].file = f THEN {"cutShort"} ELSE {}]
    /\ job' = [w \in Workers |-> None]
    /\ at' = [w \in Workers |-> "idle"]
    /\ fo' = [w \in Workers |-> None]
    /\ listed' = [w \in Workers |-> {}]
    /\ todo' = [w \in Workers |-> {}]
    /\ short' = [w \in Workers |-> FALSE]
    /\ mu' = None
    /\ UNCHANGED <<store, tables, blobs, late>>

--------------------------------------------------------------------------------

Serve(w) ==
    \/ Store(w) \/ BootstrapGrant(w) \/ RollBack(w) \/ PutCreated(w)
    \/ CheckWrite(w) \/ ReadFileObject(w)
    \/ List(w) \/ GrantOwner(w) \/ Discard(w) \/ MirrorReaders(w) \/ ReadersMirrored(w)
    \/ AddVersion(w)
    \/ ChangeAccess(w) \/ MirrorVersions(w) \/ VersionsMirrored(w)
    \/ EraseBlob(w) \/ BlobsErased(w) \/ RevokeGrant(w) \/ GrantsRevoked(w)
    \/ PutFileObject(w) \/ AddEvent(w)

Next ==
    \/ NewService
    \/ \E w \in Workers :
          \/ \E r \in Requests : Request(w, r)
          \/ Lock(w) \/ Serve(w) \/ Panic(w)
    \/ Crash

Fairness == \A w \in Workers : WF_vars(Serve(w)) /\ SF_vars(Lock(w))

Spec == Init /\ [][Next]_vars /\ Fairness

--------------------------------------------------------------------------------
(* What can go wrong.                                                       *)

\* No handler is between its change of grants and the end of its mirroring.
Settled(f) == \A w \in Workers : mu = w /\ job[w] # None => job[w].file # f

\* The readers that the owner of a file is shown are those who can fetch its
\* content: each of them can export every version, and nobody else, the owner
\* apart, gets the bytes of any from Storage -- unless a request on the file has
\* reported an error or died, has met a list it could not read or found empty too
\* early, or has deleted the file.
BlobAccessFollowsFileAccess ==
    \A f \in Files : Settled(f) /\ excuses[f] = {} /\ records[f] # None =>
       LET owner == records[f].Owner
           readers == {g.subject : g \in {h \in ListFileAccess(owner, f) : h.action = ActionRead}}
       IN  \A s \in Subjects \ {owner} :
              IF s \in readers
              THEN ExportFile(s, f) /\ GetFileContent(s, f, None)
              ELSE \A b \in ListVersions(owner, f) : ~RetrieveBlob(b, s)

\* A writer who adds a version never becomes the owner of its blob: who owns a
\* file owns it in Permissions, and the blobs of its versions.
BlobOwnerIsFileOwner ==
    \A f \in Files : records[f] # None =>
       \A r \in {f} \cup versions[f] : owners[r] = records[f].Owner

\* A file that is no longer listed, or shows its deletion in its history, has lost
\* the content of all its versions -- unless the deletion could not read the list
\* of them or found it empty too early, and but for the versions that a request
\* added after the deletion: one that had read the record before it, or one that
\* found the record restored by such a request.
DeletedMeansErased ==
    \A f \in Files : records[f] # None /\ {"misread", "unborn"} \cap excuses[f] = {} =>
       LET owner == records[f].Owner
       IN  f \notin ListFileObjects(owner) \/ "delete" \in GetFileHistory(owner, f) =>
              \A b \in versions[f] \ late : blobs[b] = "erased"

\* Every request comes to an end, whatever fails in the others: a panic under
\* the mutex does not leave it locked.
EveryCallReturns == \A w \in Workers : job[w] # None ~> job[w] = None

================================================================================
