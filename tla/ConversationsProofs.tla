--------------------------- MODULE ConversationsProofs ---------------------------
(***************************************************************************)
(* Proofs about Conversations for any numbers of subjects, conversations,  *)
(* goroutines, messages, requests and failures: who may give access to a   *)
(* conversation, that a conversation its creator was told of can be used,  *)
(* and that paging loses no message.                                       *)
(***************************************************************************)
EXTENDS Conversations, FiniteSetTheorems, FunctionTheorems, WellFoundedInduction, TLAPS

--------------------------------------------------------------------------------
(* The inductive invariant.                                                 *)

\* s is one of the two a conversation was made for.
Member(s, i) == pairOf[i] # None /\ s \in pairOf[i]

\* s has access to conversation i, or lost it to a revocation.
Granted(s, i) ==
    ownerOf(i) = s \/ activeGrant(s, ActionAccess, i) # {} \/ <<s, i>> \in revoked

\* The call a CreateConversation handler makes to give subject access.
HandlerCall(w, subject) ==
    [op |-> "grant", grant |-> AccessGrant(task[w].self, subject, task[w].conv)]

\* A handler works for the pair of its conversation, and waits for the call it made.
Serving(w) ==
    /\ at[w] \in Creating => {task[w].self, task[w].peer} \in Pairs
    /\ at[w] \in Creating \ {"finding"} =>
            task[w].conv # None /\ pairOf[task[w].conv] = {task[w].self, task[w].peer}
    /\ at[w] \in {"grantSelf", "repairSelf"} => call[w] = HandlerCall(w, task[w].self)
    /\ at[w] \in {"grantPeer", "repairPeer"} => call[w] = HandlerCall(w, task[w].peer)
    /\ at[w] \in {"finding", "checkSelf", "checkPeer"} \cup Sending => call[w] = None
    /\ at[w] = "committing" => task[w].seq \in 1..lastSeq
    /\ task[w] # None => "conversation" \in policies

TaskInv == \A w \in Workers : Serving(w)

\* A row is that of the pair its id was drawn for, and goes by a rollback only.
PairInv ==
    /\ \A i \in ConversationIds : rows[i] # None => rows[i] = pairOf[i]
    /\ \A i \in ConversationIds : pairOf[i] # None /\ i \notin rolledBack => rows[i] = pairOf[i]
    /\ \A p \in told : Member(p[1], p[2])

\* The owner of a conversation is a participant; no grant comes before the owner.
OwnerInv ==
    /\ grants \subseteq conferred
    /\ \A r \in Resources : owners[r] # None => Member(owners[r], r)
    /\ \A h \in conferred : owners[h.resource] # None

\* A participant may confer access, and who was given it, as wide as it was given.
MayConfer(g) ==
    \/ Member(g.grantor, g.resource)
    \/ \E h \in conferred :
          /\ h.subject = g.grantor /\ h.action = g.action /\ h.resource = g.resource
          /\ scopeAtLeast(h.scope, g.scope)

\* Nobody but a participant can ask for a grant while the conversation has no owner,
\* so the free first grant is a participant's.
GrantingInv ==
    \A w \in Workers : Runs(w, "grant") =>
        LET g == call[w].grant IN
        /\ Member(g.grantor, g.resource) \/ owners[g.resource] # None
        /\ step[w] = "allowed" => MayConfer(g)

\* What a revocation has read is what it was allowed to revoke.
RevokingInv ==
    \A w \in Workers : Runs(w, "revoke") /\ step[w] = "allowed" =>
        /\ existing[w] # None /\ SameKey(existing[w], call[w].grant)
        /\ authorizeRevoke(call[w].grant.grantor, existing[w])

\* Who was told of a conversation has its policy and access for both participants.
ToldInv ==
    \A p \in told : "conversation" \in policies /\ \A s \in pairOf[p[2]] : Granted(s, p[2])

\* A call that is done has given what it was made for.
DoneInv ==
    \A w \in Workers :
        Runs(w, "grant") /\ step[w] = "done" /\ call[w].grant.action = ActionAccess =>
            Granted(call[w].grant.subject, call[w].grant.resource)

\* A handler has secured the access it does not still have to grant.
Secured(w) ==
    /\ at[w] = "checkPeer" => task[w].self \in missing[w] \/ Granted(task[w].self, task[w].conv)
    /\ at[w] \in {"grantPeer", "repairPeer"} => Granted(task[w].self, task[w].conv)
    /\ at[w] = "repairSelf" => task[w].peer \in missing[w] \/ Granted(task[w].peer, task[w].conv)

AccessInv == ToldInv /\ DoneInv /\ \A w \in Workers : Secured(w)

\* A sequence number belongs to one message, or to one insert under way.
SequenceInv ==
    /\ IsFiniteSet(messages)
    /\ \A m, n \in messages : m.seq = n.seq => m = n
    /\ \A m \in messages : m.seq <= lastSeq
    /\ \A w \in Workers : at[w] = "committing" =>
        /\ \A m \in messages : m.seq # task[w].seq
        /\ \A v \in Workers : at[v] = "committing" /\ task[v].seq = task[w].seq => v = w

\* A walk has everything it owes from the oldest message it has fetched upwards.
WalkingInv ==
    \A s \in Subjects : walk[s] # None =>
        /\ walk[s].owed \subseteq {m.seq : m \in MessagesOf(walk[s].conv)}
        /\ walk[s].fetched = Cardinality(walk[s].got)
        /\ \A n \in walk[s].owed, k \in walk[s].got : n >= k => n \in walk[s].got
        /\ walk[s].status = "complete" => walk[s].owed \subseteq walk[s].got

IInv ==
    /\ TypeOK /\ TaskInv /\ PairInv /\ OwnerInv /\ GrantingInv /\ RevokingInv
    /\ AccessInv /\ SequenceInv /\ WalkingInv

--------------------------------------------------------------------------------
(* Type correctness.                                                        *)

\* The handlers' part of TypeOK, and the database's, the clients' and the history's.
TasksTypeOK ==
    /\ task \in [Workers -> Task \cup {None}]
    /\ at \in [Workers -> {"idle"} \cup Creating \cup Sending]
    /\ missing \in [Workers -> SUBSET Subjects]
    /\ \A w \in Workers :
          /\ task[w] = None <=> at[w] = "idle"
          /\ at[w] \in Creating => task[w].kind = "create"
          /\ at[w] \in Sending => task[w].kind = "send"

DataTypeOK ==
    /\ rows \in [ConversationIds -> Pairs \cup {None}]
    /\ messages \subseteq Message
    /\ lastSeq \in 0..MaxMessages
    /\ walk \in [Subjects -> Walk \cup {None}]
    /\ requests \in 0..MaxRequests /\ faults \in 0..MaxFaults
    /\ pairOf \in [ConversationIds -> Pairs \cup {None}]
    /\ told \subseteq Subjects \X ConversationIds
    /\ rolledBack \subseteq ConversationIds
    /\ revoked \subseteq Subjects \X ConversationIds

\* A step of a goroutine, and of a client that lists messages.
WorkerStep(w) ==
    \/ \E s, t \in Subjects : CreateConversation(w, s, t)
    \/ Create(w)
    \/ \E s \in Subjects, i \in ConversationIds : SendMessage(w, s, i)
    \/ checkAccess(w) \/ DrawSeq(w) \/ addMessage(w) \/ PermissionStep(w)
    \/ \E c \in DirectCalls : DirectCall(w, c)
    \/ DirectReturn(w) \/ Panic(w)

ClientStep(s) ==
    (\E i \in ConversationIds : StartWalk(s, i)) \/ ListMessages(s) \/ ListMessagesUnread(s)

LEMMA TypeParts ==
    /\ TypeOK <=> (PermissionsTypeOK /\ TasksTypeOK /\ DataTypeOK)
    /\ TypeOK' <=> (PermissionsTypeOK' /\ TasksTypeOK' /\ DataTypeOK')
BY DEF TypeOK, TasksTypeOK, DataTypeOK

\* A request under way is a create or a send, with what that carries.
LEMMA TaskFields ==
    ASSUME TypeOK, NEW w \in Workers, at[w] # "idle"
    PROVE  /\ task[w] \in Task /\ task[w].self \in Subjects
           /\ at[w] \in Creating => /\ task[w].kind = "create" /\ task[w].peer \in Subjects
                                    /\ task[w].conv \in ConversationIds \cup {None}
           /\ at[w] \in Sending => /\ task[w].kind = "send" /\ task[w].seq \in 0..MaxMessages
                                   /\ task[w].conv \in ConversationIds
<1>1. task[w] \in Task
  BY DEF TypeOK
<1>2. at[w] \in Creating => task[w].kind = "create"
  BY DEF TypeOK
<1>3. at[w] \in Sending => task[w].kind = "send"
  BY DEF TypeOK
<1> QED BY <1>1, <1>2, <1>3 DEF Task

\* A handler past finding names a conversation.
LEMMA TaskConversation ==
    ASSUME TypeOK, TaskInv, NEW w \in Workers, at[w] \in Creating \ {"finding"}
    PROVE  task[w].conv \in ConversationIds
BY TaskFields DEF TaskInv, Serving, Creating

\* What forgetting, calling and deciding do to the types of Permissions.
LEMMA ForgottenType ==
    ASSUME PermissionsTypeOK, NEW ws, Forgotten(ws), UNCHANGED <<store, ghosts>>
    PROVE  PermissionsTypeOK'
BY DEF PermissionsTypeOK, GrantsTypeOK, Forgotten, store, ghosts, Step

LEMMA AccessGrantType ==
    ASSUME NEW s \in Subjects, NEW t \in Subjects, NEW i \in ConversationIds
    PROVE  AccessGrant(s, t, i) \in Grant /\ [op |-> "grant", grant |-> AccessGrant(s, t, i)] \in Call
BY ConversationsAssumption DEF AccessGrant, Grant, Call, ConversationIds

LEMMA CallsGrantType ==
    ASSUME PermissionsTypeOK, NEW w \in Workers, task[w].self \in Subjects, NEW s \in Subjects,
           NEW i \in ConversationIds, CallsGrant(w, s, i)
    PROVE  PermissionsTypeOK'
<1>1. PICK c : c = [op |-> "grant", grant |-> AccessGrant(task[w].self, s, i)]
  OBVIOUS
<1>2. c \in Call /\ c # None
  BY <1>1, AccessGrantType, PermissionsAssumption
<1>3. /\ step' = [step EXCEPT ![w] = "called"]
      /\ call' = [call EXCEPT ![w] = c]
      /\ existing' = [existing EXCEPT ![w] = None]
      /\ UNCHANGED <<store, ghosts>>
  BY <1>1 DEF CallsGrant
<1> QED BY <1>2, <1>3 DEF PermissionsTypeOK, GrantsTypeOK, store, ghosts, Step

LEMMA InvokeType ==
    ASSUME PermissionsTypeOK, NEW w \in Workers, NEW c \in Call, Invoke(w, c)
    PROVE  PermissionsTypeOK'
BY PermissionsAssumption DEF PermissionsTypeOK, GrantsTypeOK, Invoke, Goes, store, ghosts, Step

\* The call that w runs is a call.
LEMMA CallFields ==
    ASSUME PermissionsTypeOK, NEW w \in Workers, call[w] # None
    PROVE  /\ call[w] \in Call /\ call[w].grant \in Grant /\ call[w].op \in {"grant", "revoke"}
           /\ call[w].grant.grantor \in Subjects /\ call[w].grant.subject \in Subjects
           /\ call[w].grant.action \in Actions /\ call[w].grant.resource \in Resources
BY DEF PermissionsTypeOK, Call, Grant

LEMMA PermissionType ==
    ASSUME PermissionsTypeOK, NEW w \in Workers, Permission(w) \/ PermissionFails(w)
    PROVE  PermissionsTypeOK'
<1> USE DEF PermissionsTypeOK, GrantsTypeOK, Goes, store, ghosts, Step, Outcome
<1>1. CASE AllowGrant(w)
  BY <1>1, CallFields DEF AllowGrant, Runs
<1>2. CASE DenyGrant(w)
  BY <1>2 DEF DenyGrant, Runs
<1>3. ASSUME NEW outcome \in Outcome, StoreGrant(w, outcome) PROVE PermissionsTypeOK'
  BY <1>3, CallFields DEF StoreGrant, putGrant, Runs
<1>4. CASE AllowRevoke(w)
  BY <1>4 DEF AllowRevoke, Runs, RevokedKey, activeGrant
<1>5. CASE DenyRevoke(w)
  BY <1>5 DEF DenyRevoke, Runs
<1>6. ASSUME NEW outcome \in Outcome, DeleteGrant(w, outcome) PROVE PermissionsTypeOK'
  BY <1>6 DEF DeleteGrant, removeGrant, activeGrant, Runs
<1>7. CASE DenyUnread(w)
  BY <1>7 DEF DenyUnread, Runs
<1>8. CASE WriteFails(w)
  BY <1>8 DEF WriteFails
<1> HIDE DEF PermissionsTypeOK
<1> QED BY <1>1, <1>2, <1>3, <1>4, <1>5, <1>6, <1>7, <1>8 DEF Permission, PermissionFails, Unrecorded

\* What a handler's step does to the types of the handlers.
LEMMA TaskStepType ==
    ASSUME TasksTypeOK, NEW w \in Workers, NEW r \in Task, NEW a, NEW ms \in SUBSET Subjects,
           (a \in Creating /\ r.kind = "create") \/ (a \in Sending /\ r.kind = "send"),
           task' = [task EXCEPT ![w] = r] \/ (task' = task /\ task[w] = r),
           at' = [at EXCEPT ![w] = a],
           missing' = [missing EXCEPT ![w] = ms] \/ missing' = missing
    PROVE  TasksTypeOK'
<1>1. r # None /\ a # "idle"
  BY ConversationsAssumption DEF Creating, Sending
<1>2. task' \in [Workers -> Task \cup {None}] /\ at' \in [Workers -> {"idle"} \cup Creating \cup Sending]
  BY DEF TasksTypeOK
<1>3. missing' \in [Workers -> SUBSET Subjects]
  BY DEF TasksTypeOK
<1>4. task'[w] = r /\ at'[w] = a /\ \A v \in Workers \ {w} : task'[v] = task[v] /\ at'[v] = at[v]
  BY DEF TasksTypeOK
<1>5. a \notin Creating \/ a \notin Sending
  BY DEF Creating, Sending
<1>6. (\A v \in Workers :
          /\ task[v] = None <=> at[v] = "idle"
          /\ at[v] \in Creating => task[v].kind = "create"
          /\ at[v] \in Sending => task[v].kind = "send")'
  BY <1>1, <1>4, <1>5 DEF TasksTypeOK
<1> QED BY <1>2, <1>3, <1>6 DEF TasksTypeOK

LEMMA EndsType ==
    ASSUME TasksTypeOK, NEW w \in Workers, Ends(w) PROVE TasksTypeOK'
BY DEF TasksTypeOK, Ends, Creating, Sending

\* A handler's steps keep the types of the handlers and of Permissions.
LEMMA CreateType ==
    ASSUME TypeOK, TaskInv, NEW w \in Workers, Create(w)
    PROVE  TasksTypeOK' /\ PermissionsTypeOK'
<1>1. PermissionsTypeOK /\ TasksTypeOK
  BY TypeParts
<1>e. Ends(w) => TasksTypeOK' /\ PermissionsTypeOK'
  BY <1>1, EndsType, ForgottenType DEF Ends
<1>n. NoCall => PermissionsTypeOK'
  BY <1>1 DEF NoCall, permissionsVars, store, calls, ghosts, PermissionsTypeOK, GrantsTypeOK
<1>2. at[w] \in Creating
  BY DEF Create, FindOrCreate, findOrCreateConversation, GrantParticipant, EmitCreated, GrantFails,
         deleteConversationRecord, CheckCreator, CheckParticipant, RepairParticipant, EmitRepaired,
         RepairFails, Moves, Creating
<1>3. task[w] \in Task /\ task[w].kind = "create" /\ task[w].self \in Subjects /\ task[w].peer \in Subjects
  BY <1>2, TaskFields DEF Creating
<1>4. at[w] # "finding" => task[w].conv \in ConversationIds
  BY <1>2, TaskConversation
<1>k. ASSUME NEW a \in Creating, at' = [at EXCEPT ![w] = a], task' = task,
             missing' = missing \/ \E s \in Subjects : missing' = [missing EXCEPT ![w] = @ \cup {s}]
      PROVE  TasksTypeOK'
  <2>1. PICK ms \in SUBSET Subjects : missing' = missing \/ missing' = [missing EXCEPT ![w] = ms]
    BY <1>k, <1>1 DEF TasksTypeOK
  <2> QED BY <1>1, <1>3, <1>k, <2>1, TaskStepType
<1>5. CASE FindOrCreate(w)
  <2>1. ASSUME NEW i \in ConversationIds, NEW a \in Creating, at' = [at EXCEPT ![w] = a],
               task' = [task EXCEPT ![w].conv = i], missing' = missing
        PROVE  TasksTypeOK'
    <3>1. PICK r : r = [task[w] EXCEPT !.conv = i]
      OBVIOUS
    <3>2. r \in Task /\ r.kind = "create"
      <4>1. task[w] \in [kind : {"create"}, self : Subjects, peer : Subjects, conv : ConversationIds \cup {None}]
        BY <1>3 DEF Task
      <4>2. r \in [kind : {"create"}, self : Subjects, peer : Subjects, conv : ConversationIds \cup {None}]
        BY <3>1, <4>1
      <4> QED BY <4>2 DEF Task
    <3>3. task' = [task EXCEPT ![w] = r]
      BY <2>1, <3>1
    <3> QED BY <1>1, <2>1, <3>2, <3>3, TaskStepType
  <2>2. ASSUME NEW i \in RowOf({task[w].self, task[w].peer}), Moves(w, "finding", "checkSelf"),
               task' = [task EXCEPT ![w].conv = i], NoCall
        PROVE  TasksTypeOK' /\ PermissionsTypeOK'
    BY <1>5, <1>n, <2>1, <2>2 DEF FindOrCreate, RowOf, Moves, Creating
  <2>3. ASSUME NEW i \in ConversationIds, Moves(w, "finding", "grantSelf"),
               task' = [task EXCEPT ![w].conv = i], CallsGrant(w, task[w].self, i)
        PROVE  TasksTypeOK' /\ PermissionsTypeOK'
    <3>1. PermissionsTypeOK'
      BY <1>1, <1>3, <2>3, CallsGrantType
    <3> QED BY <1>5, <2>1, <2>3, <3>1 DEF FindOrCreate, Moves, Creating
  <2> QED BY <1>5, <2>2, <2>3 DEF FindOrCreate, findOrCreateConversation
<1>6. CASE GrantParticipant(w)
  <2>1. PermissionsTypeOK'
    BY <1>1, <1>3, <1>4, <1>6, CallsGrantType DEF GrantParticipant, Moves
  <2> QED BY <1>6, <1>k, <2>1 DEF GrantParticipant, Moves, Creating
<1>7. CASE EmitCreated(w)
  BY <1>7, <1>e, <1>n, <1>k DEF EmitCreated, Moves, Creating
<1>8. CASE GrantFails(w)
  BY <1>8, <1>n, <1>k DEF GrantFails, Moves, Creating
<1>9. CASE deleteConversationRecord(w)
  BY <1>9, <1>e DEF deleteConversationRecord
<1>10. CASE CheckCreator(w)
  BY <1>3, <1>10, <1>n, <1>k DEF CheckCreator, Checked, Moves, Creating
<1>11. CASE CheckParticipant(w)
  <2>1. CASE Ends(w)
    BY <1>e, <2>1
  <2>2. ASSUME NEW s \in Subjects, CallsGrant(w, s, task[w].conv), UNCHANGED task,
               Moves(w, "checkPeer", "repairSelf") \/ Moves(w, "checkPeer", "repairPeer"),
               Checked(w, task[w].peer)
        PROVE  TasksTypeOK' /\ PermissionsTypeOK'
    <3>1. PermissionsTypeOK'
      BY <1>1, <1>3, <1>4, <2>2, CallsGrantType DEF Moves
    <3> QED BY <1>3, <1>k, <2>2, <3>1 DEF Checked, Moves, Creating
  <2> QED BY <1>3, <1>11, <2>1, <2>2 DEF CheckParticipant
<1>12. CASE RepairParticipant(w)
  <2>1. PermissionsTypeOK'
    BY <1>1, <1>3, <1>4, <1>12, CallsGrantType DEF RepairParticipant, Moves
  <2> QED BY <1>12, <1>k, <2>1 DEF RepairParticipant, Moves, Creating
<1>13. CASE EmitRepaired(w) \/ RepairFails(w)
  BY <1>13, <1>e DEF EmitRepaired, RepairFails
<1> QED BY <1>5, <1>6, <1>7, <1>8, <1>9, <1>10, <1>11, <1>12, <1>13 DEF Create

\* So do the steps of SendMessage, of Permissions, and the ends of requests.
LEMMA OtherTasksType ==
    ASSUME TypeOK, TaskInv, NEW w \in Workers,
           \/ \E s, t \in Subjects : CreateConversation(w, s, t)
           \/ \E s \in Subjects, i \in ConversationIds : SendMessage(w, s, i)
           \/ checkAccess(w) \/ DrawSeq(w) \/ addMessage(w) \/ PermissionStep(w)
           \/ \E c \in DirectCalls : DirectCall(w, c)
           \/ DirectReturn(w) \/ Panic(w)
    PROVE  TasksTypeOK' /\ PermissionsTypeOK'
<1>1. PermissionsTypeOK /\ TasksTypeOK
  BY TypeParts
<1>e. Ends(w) => TasksTypeOK' /\ PermissionsTypeOK'
  BY <1>1, EndsType, ForgottenType DEF Ends
<1>n. NoCall => PermissionsTypeOK'
  BY <1>1 DEF NoCall, permissionsVars, store, calls, ghosts, PermissionsTypeOK, GrantsTypeOK
<1>h. UNCHANGED handlers => TasksTypeOK'
  BY <1>1 DEF handlers, TasksTypeOK
<1>2. ASSUME NEW s \in Subjects, NEW t \in Subjects, CreateConversation(w, s, t)
      PROVE  TasksTypeOK' /\ PermissionsTypeOK'
  <2>1. PICK r : r = [kind |-> "create", self |-> s, peer |-> t, conv |-> None]
    OBVIOUS
  <2>2. r \in Task /\ r.kind = "create"
    BY <2>1 DEF Task
  <2>3. task' = [task EXCEPT ![w] = r] /\ at' = [at EXCEPT ![w] = "finding"] /\ missing' = missing
    BY <1>2, <2>1 DEF CreateConversation, Moves
  <2> QED BY <1>1, <1>2, <1>n, <2>2, <2>3, TaskStepType DEF CreateConversation, Creating
<1>3. ASSUME NEW s \in Subjects, NEW i \in ConversationIds, SendMessage(w, s, i)
      PROVE  TasksTypeOK' /\ PermissionsTypeOK'
  <2>1. PICK r : r = [kind |-> "send", self |-> s, conv |-> i, seq |-> 0]
    OBVIOUS
  <2>2. r \in Task /\ r.kind = "send"
    BY <2>1, ConversationsAssumption DEF Task
  <2>3. task' = [task EXCEPT ![w] = r] /\ at' = [at EXCEPT ![w] = "authorizing"] /\ missing' = missing
    BY <1>3, <2>1 DEF SendMessage, Moves
  <2> QED BY <1>1, <1>3, <1>n, <2>2, <2>3, TaskStepType DEF SendMessage, Sending
<1>4. CASE checkAccess(w)
  <2>1. CASE Ends(w)
    BY <1>e, <2>1
  <2>2. CASE Moves(w, "authorizing", "inserting") /\ NoCall /\ UNCHANGED <<task, missing>>
    <3>1. task[w] \in Task /\ task[w].kind = "send"
      BY <2>2, TaskFields DEF Moves, Sending
    <3> QED BY <1>1, <1>n, <2>2, <3>1, TaskStepType DEF Moves, Sending
  <2> QED BY <1>4, <2>1, <2>2 DEF checkAccess
<1>5. CASE DrawSeq(w)
  <2>1. PICK r : r = [task[w] EXCEPT !.seq = lastSeq + 1]
    OBVIOUS
  <2>2. r \in Task /\ r.kind = "send"
    <3>1. task[w] \in [kind : {"send"}, self : Subjects, conv : ConversationIds, seq : 0..MaxMessages]
      BY <1>5, TaskFields DEF DrawSeq, Moves, Sending, Task
    <3>2. lastSeq + 1 \in 0..MaxMessages
      BY <1>5, ConversationsAssumption DEF DrawSeq, TypeOK
    <3>3. r \in [kind : {"send"}, self : Subjects, conv : ConversationIds, seq : 0..MaxMessages]
      BY <2>1, <3>1, <3>2
    <3> QED BY <3>3 DEF Task
  <2>3. task' = [task EXCEPT ![w] = r] /\ at' = [at EXCEPT ![w] = "committing"] /\ missing' = missing
    BY <1>5, <2>1 DEF DrawSeq, Moves
  <2> QED BY <1>1, <1>5, <1>n, <2>2, <2>3, TaskStepType DEF DrawSeq, Sending
<1>6. CASE addMessage(w) \/ Panic(w)
  BY <1>6, <1>e DEF addMessage, Panic
<1>7. CASE PermissionStep(w)
  BY <1>1, <1>7, <1>h, PermissionType DEF PermissionStep
<1>8. ASSUME NEW c \in DirectCalls, DirectCall(w, c) PROVE TasksTypeOK' /\ PermissionsTypeOK'
  BY <1>1, <1>8, <1>h, InvokeType, ConversationsAssumption DEF DirectCall
<1>9. CASE DirectReturn(w)
  BY <1>1, <1>9, <1>h, ForgottenType DEF DirectReturn, Return
<1> QED BY <1>2, <1>3, <1>4, <1>5, <1>6, <1>7, <1>8, <1>9

\* Revocations are noted of subjects, on conversations.
LEMMA RevokedType ==
    ASSUME TypeOK, NEW w \in Workers, PermissionStep(w)
    PROVE  revoked' \subseteq Subjects \X ConversationIds
<1>1. \A g \in grants : g.subject \in Subjects /\ g.resource \in ConversationIds
  BY DEF TypeOK, PermissionsTypeOK, GrantsTypeOK, Grant, ConversationIds
<1> QED BY <1>1 DEF PermissionStep, TypeOK

\* A page is a finite set of messages of the conversation.
LEMMA PageFinite ==
    ASSUME TypeOK, IsFiniteSet(messages), NEW i, NEW before, NEW limit
    PROVE  /\ listMessages(i, before, limit).page \subseteq MessagesOf(i)
           /\ IsFiniteSet(listMessages(i, before, limit).page)
           /\ Cardinality(listMessages(i, before, limit).page) \in Nat
<1>1. listMessages(i, before, limit).page \subseteq MessagesOf(i)
  BY DEF listMessages, Newest
<1>2. MessagesOf(i) \subseteq messages
  BY DEF MessagesOf
<1> QED BY <1>1, <1>2, FS_Subset, FS_CardinalityType

\* Every step keeps the types of the database, the clients and the history.
LEMMA HandlerDataType ==
    ASSUME TypeOK, TaskInv, NEW w \in Workers,
           \/ Create(w)
           \/ \E s, t \in Subjects : CreateConversation(w, s, t)
           \/ \E s \in Subjects, i \in ConversationIds : SendMessage(w, s, i)
           \/ checkAccess(w) \/ DrawSeq(w) \/ addMessage(w) \/ PermissionStep(w)
           \/ \E c \in DirectCalls : DirectCall(w, c)
           \/ DirectReturn(w) \/ Panic(w)
    PROVE  DataTypeOK'
<1>1. DataTypeOK
  BY TypeParts
<1>2. (NoFault \/ Fault \/ Requested) => requests' \in 0..MaxRequests /\ faults' \in 0..MaxFaults
  BY <1>1, ConversationsAssumption DEF DataTypeOK, NoFault, Fault, Requested, bounds
<1>3. requests' \in 0..MaxRequests /\ faults' \in 0..MaxFaults
  BY <1>1, <1>2 DEF Create, FindOrCreate, GrantParticipant, EmitCreated, GrantFails,
         deleteConversationRecord, CheckCreator, CheckParticipant, Checked, RepairParticipant,
         EmitRepaired, RepairFails, CreateConversation, SendMessage, checkAccess, DrawSeq, addMessage,
         PermissionStep, DirectCall, DirectReturn, Panic, bounds, DataTypeOK
<1>4. CASE FindOrCreate(w)
  <2>1. ASSUME NEW i \in ConversationIds
        PROVE  [rows EXCEPT ![i] = {task[w].self, task[w].peer}] \in [ConversationIds -> Pairs \cup {None}]
               /\ [pairOf EXCEPT ![i] = {task[w].self, task[w].peer}] \in [ConversationIds -> Pairs \cup {None}]
    <3>1. {task[w].self, task[w].peer} \in Pairs
      BY <1>4 DEF FindOrCreate, TaskInv, Serving, Creating
    <3> QED BY <1>1, <3>1 DEF DataTypeOK
  <2>2. rows' \in [ConversationIds -> Pairs \cup {None}] /\ pairOf' \in [ConversationIds -> Pairs \cup {None}]
    <3>1. \/ rows' = rows /\ pairOf' = pairOf
          \/ \E i \in ConversationIds :
                /\ rows' = [rows EXCEPT ![i] = {task[w].self, task[w].peer}]
                /\ pairOf' = [pairOf EXCEPT ![i] = {task[w].self, task[w].peer}]
      BY <1>4 DEF FindOrCreate, findOrCreateConversation
    <3> QED BY <1>1, <2>1, <3>1 DEF DataTypeOK
  <2>3. UNCHANGED <<messages, lastSeq, walk, told, rolledBack, revoked>>
    BY <1>4 DEF FindOrCreate
  <2> QED BY <1>1, <1>3, <2>2, <2>3 DEF DataTypeOK
<1>5. CASE Create(w) /\ ~FindOrCreate(w)
  <2>1. Tells(w) /\ at[w] \in Creating \ {"finding"} => told' \subseteq Subjects \X ConversationIds
    BY <1>1, TaskFields, TaskConversation DEF Tells, DataTypeOK, Creating
  <2>2. deleteConversationRecord(w) =>
            /\ rows' \in [ConversationIds -> Pairs \cup {None}]
            /\ rolledBack' \subseteq ConversationIds
    BY <1>1, TaskConversation DEF deleteConversationRecord, DataTypeOK, Creating
  <2> QED BY <1>1, <1>3, <1>5, <2>1, <2>2
          DEF Create, GrantParticipant, EmitCreated, GrantFails,
              deleteConversationRecord, CheckCreator, CheckParticipant, RepairParticipant,
              EmitRepaired, RepairFails, Creating, database, history, DataTypeOK
<1>6. CASE addMessage(w)
  <2>1. PICK m : m = [seq |-> task[w].seq, conv |-> task[w].conv, sender |-> task[w].self]
    OBVIOUS
  <2>2. m \in Message
    <3>1. task[w].seq \in 1..lastSeq /\ lastSeq \in 0..MaxMessages
      BY <1>6 DEF addMessage, TaskInv, Serving, TypeOK
    <3>2. task[w].seq \in 1..MaxMessages
      BY <3>1, ConversationsAssumption
    <3>3. task[w].conv \in ConversationIds /\ task[w].self \in Subjects
      BY <1>6, TaskFields DEF addMessage, Sending
    <3> QED BY <2>1, <3>2, <3>3 DEF Message
  <2>3. messages' = messages \cup {m}
    BY <1>6, <2>1 DEF addMessage
  <2> QED BY <1>1, <1>3, <1>6, <2>2, <2>3 DEF addMessage, DataTypeOK, history
<1>7. CASE DrawSeq(w)
  BY <1>1, <1>3, <1>7, ConversationsAssumption DEF DrawSeq, DataTypeOK, history
<1>8. CASE PermissionStep(w)
  BY <1>1, <1>3, <1>8, RevokedType DEF PermissionStep, DataTypeOK, database
<1>9. CASE \/ \E s, t \in Subjects : CreateConversation(w, s, t)
           \/ \E s \in Subjects, i \in ConversationIds : SendMessage(w, s, i)
           \/ checkAccess(w)
           \/ \E c \in DirectCalls : DirectCall(w, c)
           \/ DirectReturn(w) \/ Panic(w)
  <2>1. UNCHANGED <<database, walk, history>>
    BY <1>9 DEF CreateConversation, SendMessage, checkAccess, DirectCall, DirectReturn, Panic
  <2> QED BY <1>1, <1>3, <2>1 DEF DataTypeOK, database, history
<1> QED BY <1>4, <1>5, <1>6, <1>7, <1>8, <1>9

\* A client's walk keeps its type.
LEMMA WalkType ==
    ASSUME TypeOK, IsFiniteSet(messages), NEW s \in Subjects,
           \/ \E i \in ConversationIds : StartWalk(s, i)
           \/ ListMessages(s) \/ ListMessagesUnread(s)
    PROVE  TypeOK'
<1>1. PermissionsTypeOK /\ TasksTypeOK /\ DataTypeOK
  BY TypeParts
<1>2. UNCHANGED <<permissionsVars, database, handlers, history>>
  <2>1. CASE \E i \in ConversationIds : StartWalk(s, i)
    BY <2>1 DEF StartWalk, NoCall
  <2>2. CASE ListMessages(s)
    BY <2>2 DEF ListMessages, NoCall
  <2>3. CASE ListMessagesUnread(s)
    BY <2>3 DEF ListMessagesUnread, NoCall
  <2> QED BY <2>1, <2>2, <2>3
<1>3. PermissionsTypeOK'
  BY <1>1, <1>2 DEF permissionsVars, store, calls, ghosts, PermissionsTypeOK, GrantsTypeOK
<1>4. TasksTypeOK'
  BY <1>1, <1>2 DEF handlers, TasksTypeOK
<1>5. requests' \in 0..MaxRequests /\ faults' \in 0..MaxFaults
  <2>1. Requested \/ Fault \/ UNCHANGED bounds
    BY DEF StartWalk, ListMessages, ListMessagesUnread
  <2> QED BY <1>1, <2>1, ConversationsAssumption DEF Requested, Fault, bounds, DataTypeOK
<1>6. \A m \in messages : m.seq \in 1..MaxMessages
  BY <1>1 DEF DataTypeOK, Message
<1>7. walk' \in [Subjects -> Walk \cup {None}]
  <2>1. ASSUME NEW i \in ConversationIds, StartWalk(s, i) PROVE walk' \in [Subjects -> Walk \cup {None}]
    <3>1. PICK r : r = [conv |-> i, got |-> {}, fetched |-> 0, status |-> "walking",
                        owed |-> {m.seq : m \in MessagesOf(i)}]
      OBVIOUS
    <3>2. {m.seq : m \in MessagesOf(i)} \in SUBSET (1..MaxMessages)
      BY <1>6 DEF MessagesOf
    <3>3. r \in Walk
      BY <3>1, <3>2 DEF Walk
    <3>4. walk' = [walk EXCEPT ![s] = r]
      BY <2>1, <3>1 DEF StartWalk
    <3> QED BY <1>1, <3>3, <3>4 DEF DataTypeOK
  <2>2. CASE ListMessages(s)
    <3>1. PICK answer : answer = listMessages(walk[s].conv, Oldest(walk[s].got), PageLimit)
      OBVIOUS
    <3>2. PICK r : r = [conv |-> walk[s].conv, got |-> walk[s].got \cup {m.seq : m \in answer.page},
                        owed |-> walk[s].owed, fetched |-> walk[s].fetched + Cardinality(answer.page),
                        status |-> IF answer.hasMore THEN "walking" ELSE "complete"]
      OBVIOUS
    <3>3. walk[s] \in Walk
      BY <1>1, <2>2 DEF DataTypeOK, ListMessages
    <3>4. {m.seq : m \in answer.page} \in SUBSET (1..MaxMessages) /\ Cardinality(answer.page) \in Nat
      BY <1>6, <3>1, PageFinite DEF MessagesOf
    <3>5. r \in Walk
      BY <3>2, <3>3, <3>4 DEF Walk
    <3>6. walk' = [walk EXCEPT ![s] = r]
      BY <2>2, <3>1, <3>2 DEF ListMessages
    <3> QED BY <1>1, <3>5, <3>6 DEF DataTypeOK
  <2>3. CASE ListMessagesUnread(s)
    <3>1. PICK r : r = [walk[s] EXCEPT !.status = "misread"]
      OBVIOUS
    <3>2. r \in Walk
      BY <1>1, <2>3, <3>1 DEF DataTypeOK, ListMessagesUnread, Walk
    <3>3. walk' = [walk EXCEPT ![s] = r]
      BY <2>3, <3>1 DEF ListMessagesUnread
    <3> QED BY <1>1, <3>2, <3>3 DEF DataTypeOK
  <2> QED BY <2>1, <2>2, <2>3
<1>8. DataTypeOK'
  BY <1>1, <1>2, <1>5, <1>7 DEF DataTypeOK, database, history
<1> QED BY <1>3, <1>4, <1>8, TypeParts

\* Every step keeps every type.
LEMMA TypeStep ==
    ASSUME TypeOK, TaskInv, SequenceInv, [Next]_vars PROVE TypeOK'
<1>0. PermissionsTypeOK /\ TasksTypeOK /\ DataTypeOK
  BY TypeParts
<1>1. CASE UNCHANGED vars
  BY <1>1 DEF TypeOK, vars, permissionsVars, store, calls, ghosts, database, handlers, bounds, history,
     PermissionsTypeOK, GrantsTypeOK
<1>2. CASE NewService
  <2>1. "conversation" \in {TypeOf[r] : r \in Resources}
    BY ConversationsAssumption DEF ConversationIds
  <2>2. PermissionsTypeOK'
    BY <1>0, <1>2, <2>1 DEF NewService, DefinePolicy, setPolicy, calls, ghosts, PermissionsTypeOK, GrantsTypeOK
  <2>3. TasksTypeOK' /\ DataTypeOK'
    BY <1>0, <1>2 DEF NewService, TasksTypeOK, DataTypeOK, database, handlers, bounds, history
  <2> QED BY <2>2, <2>3, TypeParts
<1>3. CASE Crash
  <2>1. PermissionsTypeOK'
    BY <1>0, <1>3, ForgottenType DEF Crash, Restart
  <2>2. TasksTypeOK'
    BY <1>0, <1>3 DEF Crash, TasksTypeOK, Creating, Sending
  <2>3. DataTypeOK'
    BY <1>0, <1>3, ConversationsAssumption DEF Crash, Fault, DataTypeOK, database, history
  <2> QED BY <2>1, <2>2, <2>3, TypeParts
<1>4. ASSUME NEW s \in Subjects, ClientStep(s) PROVE TypeOK'
  BY <1>4, WalkType DEF SequenceInv, ClientStep
<1>5. ASSUME NEW w \in Workers, WorkerStep(w) PROVE TypeOK'
  BY <1>5, CreateType, OtherTasksType, HandlerDataType, TypeParts DEF WorkerStep
<1> QED BY <1>1, <1>2, <1>3, <1>4, <1>5 DEF Next, WorkerStep, ClientStep

--------------------------------------------------------------------------------
(* What a step leaves alone, and what only grows.                           *)

\* w's call of Permissions, its request and what that has found.
CallKept(w) == call'[w] = call[w] /\ step'[w] = step[w] /\ existing'[w] = existing[w]
TaskKept(w) == task'[w] = task[w] /\ at'[w] = at[w] /\ missing'[w] = missing[w]

\* w starts a call, made by a participant or by who knows the conversation.
CallMade(w) ==
    /\ step'[w] = "called"
    /\ \/ Member(call[w].grant.grantor, call[w].grant.resource)'
       \/ Knows(call'[w].grant.grantor, call'[w].grant.resource)

LEMMA EndsFrame ==
    ASSUME TypeOK, NEW w \in Workers, Ends(w)
    PROVE  /\ task'[w] = None /\ at'[w] = "idle" /\ missing'[w] = {}
           /\ call'[w] = None /\ step'[w] = "idle"
           /\ \A v \in Workers \ {w} : CallKept(v) /\ TaskKept(v)
           /\ UNCHANGED <<store, ghosts>>
BY DEF Ends, Forgotten, TypeOK, PermissionsTypeOK, CallKept, TaskKept

LEMMA CallsGrantFrame ==
    ASSUME TypeOK, NEW w \in Workers, NEW s, NEW i, CallsGrant(w, s, i)
    PROVE  /\ call'[w] = [op |-> "grant", grant |-> AccessGrant(task[w].self, s, i)]
           /\ step'[w] = "called"
           /\ \A v \in Workers \ {w} : CallKept(v)
           /\ UNCHANGED <<store, ghosts>>
BY DEF CallsGrant, TypeOK, PermissionsTypeOK, CallKept

LEMMA NoCallFrame ==
    ASSUME NoCall
    PROVE  /\ \A v \in Workers : CallKept(v)
           /\ UNCHANGED <<store, ghosts>>
BY DEF NoCall, permissionsVars, calls, CallKept

LEMMA MovesFrame ==
    ASSUME TypeOK, NEW w \in Workers, NEW a, NEW b, Moves(w, a, b)
    PROVE  at[w] = a /\ at'[w] = b /\ \A v \in Workers \ {w} : at'[v] = at[v]
BY DEF Moves, TypeOK

\* A step of Permissions goes on with w's call, and touches nobody else's.
LEMMA PermissionFrame ==
    ASSUME TypeOK, NEW w \in Workers, Permission(w) \/ PermissionFails(w)
    PROVE  call' = call /\ policies' = policies /\ \A v \in Workers \ {w} : CallKept(v)
<1> USE DEF Goes, store, ghosts, TypeOK, PermissionsTypeOK, CallKept
<1>1. CASE AllowGrant(w)
  BY <1>1 DEF AllowGrant
<1>2. CASE DenyGrant(w)
  BY <1>2 DEF DenyGrant
<1>3. ASSUME NEW outcome, StoreGrant(w, outcome)
      PROVE  call' = call /\ policies' = policies /\ \A v \in Workers \ {w} : CallKept(v)
  BY <1>3 DEF StoreGrant, putGrant
<1>4. CASE AllowRevoke(w)
  BY <1>4 DEF AllowRevoke
<1>5. CASE DenyRevoke(w)
  BY <1>5 DEF DenyRevoke
<1>6. ASSUME NEW outcome, DeleteGrant(w, outcome)
      PROVE  call' = call /\ policies' = policies /\ \A v \in Workers \ {w} : CallKept(v)
  BY <1>6 DEF DeleteGrant, removeGrant
<1>7. CASE DenyUnread(w)
  BY <1>7 DEF DenyUnread
<1>8. CASE WriteFails(w)
  BY <1>8 DEF WriteFails
<1> HIDE DEF CallKept, TypeOK
<1> QED BY <1>1, <1>2, <1>3, <1>4, <1>5, <1>6, <1>7, <1>8 DEF Permission, PermissionFails

\* A handler's steps write to Permissions only through the calls it makes, and its
\* calls are made for a participant.
LEMMA CreateFrame ==
    ASSUME TypeOK, TaskInv, NEW w \in Workers, Create(w)
    PROVE  /\ UNCHANGED <<store, ghosts, revoked>>
           /\ \A v \in Workers \ {w} : CallKept(v) /\ TaskKept(v)
           /\ CallKept(w) \/ call'[w] = None \/ CallMade(w)
<1> DEFINE Goal == /\ UNCHANGED <<store, ghosts, revoked>>
                   /\ \A v \in Workers \ {w} : CallKept(v) /\ TaskKept(v)
                   /\ CallKept(w) \/ call'[w] = None \/ CallMade(w)
       MemberNext(i) == pairOf'[i] # None /\ task[w].self \in pairOf'[i]
<1> SUFFICES Goal
  OBVIOUS
<1>1. task \in [Workers -> Task \cup {None}] /\ missing \in [Workers -> SUBSET Subjects]
      /\ at \in [Workers -> {"idle"} \cup Creating \cup Sending]
  BY DEF TypeOK
<1>e. Ends(w) /\ UNCHANGED revoked => Goal
  BY EndsFrame
<1>n. ASSUME NoCall, NEW a, NEW b, Moves(w, a, b), task' = task, UNCHANGED revoked,
             missing' = missing \/ \E ms : missing' = [missing EXCEPT ![w] = ms]
      PROVE  Goal
  BY <1>n, <1>1, NoCallFrame, MovesFrame DEF TaskKept
<1>c. ASSUME NEW s, NEW i, CallsGrant(w, s, i), MemberNext(i), NEW a, NEW b, Moves(w, a, b),
             task' = task \/ task' = [task EXCEPT ![w].conv = i], UNCHANGED revoked,
             missing' = missing \/ \E ms : missing' = [missing EXCEPT ![w] = ms]
      PROVE  Goal
  <2>1. \A v \in Workers \ {w} : CallKept(v) /\ TaskKept(v)
    BY <1>c, <1>1, CallsGrantFrame, MovesFrame DEF TaskKept
  <2>2. call'[w] = [op |-> "grant", grant |-> AccessGrant(task[w].self, s, i)] /\ step'[w] = "called"
    BY <1>c, CallsGrantFrame
  <2>3. call'[w].grant.grantor = task[w].self /\ call'[w].grant.resource = i
    BY <2>2 DEF AccessGrant
  <2>4. CallMade(w)
    BY <1>c, <2>2, <2>3 DEF CallMade, Member
  <2> QED BY <1>c, <2>1, <2>4, CallsGrantFrame
<1>2. at[w] \in Creating \ {"finding"} =>
          pairOf[task[w].conv] # None /\ task[w].self \in pairOf[task[w].conv]
  BY ConversationsAssumption DEF TaskInv, Serving
<1> HIDE DEF Goal
<1>3. CASE FindOrCreate(w)
  <2>1. ASSUME NEW i \in ConversationIds, Moves(w, "finding", "grantSelf"), task' = [task EXCEPT ![w].conv = i],
               pairOf' = [pairOf EXCEPT ![i] = {task[w].self, task[w].peer}], CallsGrant(w, task[w].self, i),
               UNCHANGED <<missing, revoked>>
        PROVE  Goal
    <3>1. pairOf'[i] = {task[w].self, task[w].peer} /\ {task[w].self, task[w].peer} \in Pairs
      BY <2>1 DEF TypeOK, TaskInv, Serving, Moves, Creating
    <3>2. MemberNext(i)
      BY <3>1, ConversationsAssumption
    <3> QED BY <1>c, <2>1, <3>2
  <2>2. ASSUME NEW i \in ConversationIds, Moves(w, "finding", "checkSelf"), task' = [task EXCEPT ![w].conv = i],
               NoCall, UNCHANGED <<missing, revoked>>
        PROVE  Goal
    BY <1>1, <2>2, NoCallFrame, MovesFrame DEF Goal, TaskKept
  <2>3. \/ \E i \in RowOf({task[w].self, task[w].peer}) :
              Moves(w, "finding", "checkSelf") /\ task' = [task EXCEPT ![w].conv = i] /\ NoCall
        \/ \E i \in ConversationIds :
              /\ Moves(w, "finding", "grantSelf") /\ task' = [task EXCEPT ![w].conv = i]
              /\ pairOf' = [pairOf EXCEPT ![i] = {task[w].self, task[w].peer}]
              /\ CallsGrant(w, task[w].self, i)
    BY <1>3 DEF FindOrCreate, findOrCreateConversation
  <2>4. UNCHANGED <<missing, revoked>>
    BY <1>3 DEF FindOrCreate
  <2> QED BY <2>1, <2>2, <2>3, <2>4 DEF RowOf
<1>4. CASE GrantParticipant(w)
  <2>1. MemberNext(task[w].conv)
    BY <1>2, <1>4 DEF GrantParticipant, Moves, Creating, history
  <2> QED BY <1>4, <1>c, <2>1 DEF GrantParticipant, history
<1>5. CASE EmitCreated(w)
  BY <1>5, <1>e, <1>n DEF EmitCreated
<1>6. CASE GrantFails(w)
  BY <1>6, <1>n DEF GrantFails, history
<1>7. CASE deleteConversationRecord(w)
  BY <1>7, <1>e DEF deleteConversationRecord
<1>8. CASE CheckCreator(w)
  <2>1. missing' = missing \/ \E ms : missing' = [missing EXCEPT ![w] = ms]
    BY <1>8 DEF CheckCreator, Checked
  <2> QED BY <1>8, <1>n, <2>1 DEF CheckCreator, history
<1>9. CASE CheckParticipant(w)
  <2>1. CASE Ends(w)
    BY <1>9, <1>e, <2>1 DEF CheckParticipant
  <2>2. CASE ~Ends(w)
    <3>1. PICK s, a : Moves(w, "checkPeer", a) /\ CallsGrant(w, s, task[w].conv)
      BY <1>9, <2>2 DEF CheckParticipant
    <3>2. missing' = missing \/ \E ms : missing' = [missing EXCEPT ![w] = ms]
      BY <1>9, <2>2 DEF CheckParticipant, Checked
    <3>3. UNCHANGED <<task, revoked, pairOf>>
      BY <1>9, <2>2 DEF CheckParticipant
    <3>4. MemberNext(task[w].conv)
      BY <1>2, <1>9, <3>3 DEF CheckParticipant, Creating
    <3> QED BY <1>c, <3>1, <3>2, <3>3, <3>4
  <2> QED BY <2>1, <2>2
<1>10. CASE RepairParticipant(w)
  <2>1. MemberNext(task[w].conv)
    BY <1>2, <1>10 DEF RepairParticipant, Moves, Creating, history
  <2> QED BY <1>10, <1>c, <2>1 DEF RepairParticipant, history
<1>11. CASE EmitRepaired(w) \/ RepairFails(w)
  BY <1>11, <1>e DEF EmitRepaired, RepairFails, history
<1> QED BY <1>3, <1>4, <1>5, <1>6, <1>7, <1>8, <1>9, <1>10, <1>11 DEF Create

\* Nor does any other step of a goroutine but those of Permissions themselves.
LEMMA WorkerFrame ==
    ASSUME TypeOK, TaskInv, NEW w \in Workers, WorkerStep(w)
    PROVE  /\ \A v \in Workers \ {w} : CallKept(v) /\ TaskKept(v)
           /\ policies' = policies
           /\ ~PermissionStep(w) =>
                /\ UNCHANGED <<store, ghosts, revoked>>
                /\ CallKept(w) \/ call'[w] = None \/ CallMade(w)
<1> DEFINE Goal == /\ \A v \in Workers \ {w} : CallKept(v) /\ TaskKept(v)
                   /\ UNCHANGED <<store, ghosts, revoked>>
                   /\ CallKept(w) \/ call'[w] = None \/ CallMade(w)
<1>1. task \in [Workers -> Task \cup {None}] /\ missing \in [Workers -> SUBSET Subjects]
      /\ at \in [Workers -> {"idle"} \cup Creating \cup Sending]
  BY DEF TypeOK
<1>e. Ends(w) /\ UNCHANGED revoked => Goal
  BY EndsFrame
<1>n. ASSUME NoCall, NEW a, NEW b, Moves(w, a, b), UNCHANGED <<missing, revoked>>,
             \A v \in Workers \ {w} : task'[v] = task[v]
      PROVE  Goal
  BY <1>n, NoCallFrame, MovesFrame DEF TaskKept
<1>h. UNCHANGED handlers => \A v \in Workers : TaskKept(v)
  BY DEF handlers, TaskKept
<1>r. UNCHANGED history => UNCHANGED revoked
  BY DEF history
<1> HIDE DEF Goal
<1>2. ASSUME Create(w) PROVE Goal
  BY <1>2, CreateFrame DEF Goal
<1>3. ASSUME NEW s \in Subjects, NEW t \in Subjects, CreateConversation(w, s, t) PROVE Goal
  <2>1. \A v \in Workers \ {w} : task'[v] = task[v]
    BY <1>1, <1>3 DEF CreateConversation
  <2> QED BY <1>3, <1>n, <1>r, <2>1 DEF CreateConversation
<1>4. ASSUME NEW s \in Subjects, NEW i \in ConversationIds, SendMessage(w, s, i) PROVE Goal
  <2>1. \A v \in Workers \ {w} : task'[v] = task[v]
    BY <1>1, <1>4 DEF SendMessage
  <2> QED BY <1>4, <1>n, <1>r, <2>1 DEF SendMessage
<1>5. ASSUME checkAccess(w) PROVE Goal
  BY <1>5, <1>e, <1>n, <1>r DEF checkAccess
<1>6. ASSUME DrawSeq(w) PROVE Goal
  <2>1. \A v \in Workers \ {w} : task'[v] = task[v]
    BY <1>1, <1>6 DEF DrawSeq
  <2> QED BY <1>6, <1>n, <1>r, <2>1 DEF DrawSeq
<1>7. ASSUME addMessage(w) \/ Panic(w) PROVE Goal
  BY <1>7, <1>e, <1>r DEF addMessage, Panic
<1>8. ASSUME NEW c \in DirectCalls, DirectCall(w, c) PROVE Goal
  <2>1. /\ UNCHANGED <<store, ghosts>> /\ step'[w] = "called" /\ call'[w] = c
        /\ \A v \in Workers \ {w} : CallKept(v)
    BY <1>8 DEF DirectCall, Invoke, Goes, TypeOK, PermissionsTypeOK, CallKept
  <2>2. CallMade(w)
    BY <1>8, <2>1 DEF DirectCall, CallMade
  <2> QED BY <1>8, <1>h, <1>r, <2>1, <2>2 DEF DirectCall, Goal
<1>9. ASSUME DirectReturn(w) PROVE Goal
  <2>1. /\ UNCHANGED <<store, ghosts>> /\ call'[w] = None
        /\ \A v \in Workers \ {w} : CallKept(v)
    BY <1>9 DEF DirectReturn, Return, Forgotten, CallKept
  <2> QED BY <1>9, <1>h, <1>r, <2>1 DEF DirectReturn, Goal
<1>10. CASE PermissionStep(w)
  BY <1>10, <1>h, PermissionFrame DEF PermissionStep
<1>11. Goal \/ PermissionStep(w)
  BY <1>2, <1>3, <1>4, <1>5, <1>6, <1>7, <1>8, <1>9 DEF WorkerStep
<1> QED BY <1>10, <1>11 DEF Goal, store

\* Only the steps of Permissions write its tables, but for the policy.
LEMMA StepKinds ==
    ASSUME TypeOK, TaskInv, [Next]_vars
    PROVE  /\ policies \subseteq policies'
           /\ \/ \E w \in Workers : PermissionStep(w)
              \/ /\ UNCHANGED <<grants, owners, ghosts, revoked>>
                 /\ \A w \in Workers : CallKept(w) \/ call'[w] = None \/ CallMade(w)
<1>1. CASE UNCHANGED vars
  BY <1>1 DEF vars, permissionsVars, store, calls, history, CallKept
<1>2. CASE NewService
  BY <1>2 DEF NewService, DefinePolicy, setPolicy, calls, history, CallKept
<1>3. CASE Crash
  BY <1>3 DEF Crash, Restart, Forgotten, history, store
<1>4. ASSUME NEW s \in Subjects, ClientStep(s)
      PROVE  NoCall /\ UNCHANGED history
  BY <1>4 DEF ClientStep, StartWalk, ListMessages, ListMessagesUnread
<1>5. ASSUME NEW s \in Subjects, ClientStep(s)
      PROVE  UNCHANGED <<store, ghosts, revoked>> /\ \A w \in Workers : CallKept(w)
  BY <1>4, <1>5, NoCallFrame DEF history
<1>6. ASSUME NEW w \in Workers, WorkerStep(w), ~PermissionStep(w)
      PROVE  /\ UNCHANGED <<store, ghosts, revoked>>
             /\ \A v \in Workers : CallKept(v) \/ call'[v] = None \/ CallMade(v)
  BY <1>6, WorkerFrame
<1>7. ASSUME NEW w \in Workers, WorkerStep(w) PROVE policies' = policies
  BY <1>7, WorkerFrame
<1>8. \/ UNCHANGED vars \/ NewService \/ Crash
      \/ \E s \in Subjects : ClientStep(s)
      \/ \E w \in Workers : WorkerStep(w)
  BY DEF Next, WorkerStep, ClientStep
<1> QED BY <1>1, <1>2, <1>3, <1>5, <1>6, <1>7, <1>8 DEF store

\* A step of Permissions stores the grant it was asked for, deletes what it was asked
\* to, or leaves the tables alone.
LEMMA PermissionKinds ==
    ASSUME NEW w \in Workers, PermissionStep(w)
    PROVE  \/ UNCHANGED <<grants, owners, conferred>>
           \/ \E outcome \in Outcome : StoreGrant(w, outcome)
           \/ \E outcome \in Outcome : DeleteGrant(w, outcome)
<1>1. AllowGrant(w) \/ DenyGrant(w) \/ AllowRevoke(w) \/ DenyRevoke(w) \/ DenyUnread(w) \/ WriteFails(w)
      => UNCHANGED <<grants, owners, conferred>>
  BY DEF AllowGrant, DenyGrant, AllowRevoke, DenyRevoke, DenyUnread, WriteFails, store, ghosts
<1> QED BY <1>1 DEF PermissionStep, Permission, PermissionFails, Unrecorded, Outcome

\* An id is drawn for one pair, once and for all.
LEMMA HandlerHistory ==
    ASSUME TypeOK, TaskInv, NEW w \in Workers, WorkerStep(w)
    PROVE  /\ \A i \in ConversationIds : pairOf[i] # None => pairOf'[i] = pairOf[i]
           /\ told \subseteq told' /\ rolledBack \subseteq rolledBack' /\ revoked \subseteq revoked'
           /\ messages \subseteq messages' /\ lastSeq <= lastSeq' /\ lastSeq' \in Nat /\ UNCHANGED walk
<1>1. lastSeq \in Nat /\ pairOf \in [ConversationIds -> Pairs \cup {None}]
  BY ConversationsAssumption DEF TypeOK
<1>2. CASE FindOrCreate(w)
  <2>1. \/ UNCHANGED pairOf
        \/ \E i \in ConversationIds : pairOf[i] = None
              /\ pairOf' = [pairOf EXCEPT ![i] = {task[w].self, task[w].peer}]
    BY <1>2 DEF FindOrCreate, findOrCreateConversation
  <2> QED BY <1>1, <1>2, <2>1 DEF FindOrCreate
<1>3. CASE Create(w) /\ ~FindOrCreate(w)
  <2>1. /\ UNCHANGED <<messages, lastSeq, walk, pairOf, revoked>>
        /\ told' = told \/ Tells(w)
        /\ rolledBack' = rolledBack \/ rolledBack' = rolledBack \cup {task[w].conv}
    BY <1>3 DEF Create, GrantParticipant, EmitCreated, GrantFails, deleteConversationRecord,
       CheckCreator, CheckParticipant, RepairParticipant, EmitRepaired, RepairFails, database, history
  <2> QED BY <1>1, <2>1 DEF Tells
<1>4. CASE addMessage(w) \/ DrawSeq(w)
  BY <1>1, <1>4 DEF addMessage, DrawSeq, history
<1>5. CASE PermissionStep(w)
  BY <1>1, <1>5 DEF PermissionStep, database
<1>6. CASE \/ \E s, t \in Subjects : CreateConversation(w, s, t)
           \/ \E s \in Subjects, i \in ConversationIds : SendMessage(w, s, i)
           \/ checkAccess(w)
           \/ \E c \in DirectCalls : DirectCall(w, c)
           \/ DirectReturn(w) \/ Panic(w)
  <2>1. UNCHANGED <<database, walk, history>>
    BY <1>6 DEF CreateConversation, SendMessage, checkAccess, DirectCall, DirectReturn, Panic
  <2> QED BY <1>1, <2>1 DEF database, history
<1> QED BY <1>2, <1>3, <1>4, <1>5, <1>6 DEF WorkerStep

LEMMA HistoryGrows ==
    ASSUME TypeOK, TaskInv, [Next]_vars
    PROVE  /\ \A i \in ConversationIds : pairOf[i] # None => pairOf'[i] = pairOf[i]
           /\ told \subseteq told' /\ rolledBack \subseteq rolledBack' /\ revoked \subseteq revoked'
           /\ messages \subseteq messages' /\ lastSeq <= lastSeq'
<1>0. lastSeq <= lastSeq
  BY ConversationsAssumption DEF TypeOK
<1>1. CASE UNCHANGED vars
  BY <1>0, <1>1 DEF vars, history, database
<1>2. CASE NewService \/ Crash
  BY <1>0, <1>2 DEF NewService, Crash, history, database
<1>3. ASSUME NEW s \in Subjects, ClientStep(s) PROVE UNCHANGED <<database, history>>
  BY <1>3 DEF ClientStep, StartWalk, ListMessages, ListMessagesUnread
<1>4. CASE \E s \in Subjects : ClientStep(s)
  BY <1>0, <1>3, <1>4 DEF history, database
<1>5. CASE \E w \in Workers : WorkerStep(w)
  BY <1>5, HandlerHistory
<1>6. \/ UNCHANGED vars \/ NewService \/ Crash
      \/ \E s \in Subjects : ClientStep(s)
      \/ \E w \in Workers : WorkerStep(w)
  BY DEF Next, WorkerStep, ClientStep
<1> QED BY <1>1, <1>2, <1>4, <1>5, <1>6

--------------------------------------------------------------------------------
(* Who may confer access.                                                   *)

\* The owner of a resource never changes.
LEMMA OwnersStay ==
    ASSUME TypeOK, TaskInv, [Next]_vars
    PROVE  /\ \A r \in Resources : owners[r] # None => owners'[r] = owners[r]
           /\ conferred \subseteq conferred'
<1>1. ASSUME NEW w \in Workers, PermissionStep(w)
      PROVE  /\ \A r \in Resources : owners[r] # None => owners'[r] = owners[r]
             /\ conferred \subseteq conferred'
  <2>1. ASSUME NEW outcome \in Outcome, StoreGrant(w, outcome)
        PROVE  /\ \A r \in Resources : owners[r] # None => owners'[r] = owners[r]
               /\ conferred \subseteq conferred'
    BY <2>1 DEF StoreGrant, putGrant, TypeOK, PermissionsTypeOK, GrantsTypeOK
  <2>2. ASSUME NEW outcome \in Outcome, DeleteGrant(w, outcome)
        PROVE  UNCHANGED <<owners, conferred>>
    BY <2>2 DEF DeleteGrant, removeGrant, ghosts
  <2> QED BY <1>1, <2>1, <2>2, PermissionKinds
<1> QED BY <1>1, StepKinds DEF ghosts

\* What a subject knows of is a conversation it was made for, or one with an owner.
LEMMA KnownHasOwner ==
    ASSUME TypeOK, PairInv, OwnerInv, NEW s \in Subjects, NEW i \in ConversationIds, Knows(s, i)
    PROVE  Member(s, i) \/ owners[i] # None
<1>1. CASE <<s, i>> \in told
  BY <1>1 DEF PairInv
<1>2. CASE i \in ListConversations(s)
  BY <1>2 DEF ListConversations, PairInv, Member
<1>3. CASE \E g \in grantsForSubject(s) : g.resource = i
  BY <1>3 DEF grantsForSubject, OwnerInv
<1> QED BY <1>1, <1>2, <1>3 DEF Knows

\* Stored grants are a participant's, or passed on.
LEMMA OwnerStep ==
    ASSUME TypeOK, TaskInv, PairInv, OwnerInv, GrantingInv, [Next]_vars
    PROVE  OwnerInv'
<1>1. \A r \in Resources : owners[r] # None => (pairOf[r] # None /\ owners[r] \in pairOf[r])
  BY DEF OwnerInv, Member
<1>2. \A r \in Resources : owners[r] # None => (pairOf'[r] # None /\ owners[r] \in pairOf'[r])
  BY <1>1, HistoryGrows DEF ConversationIds
<1>3. ASSUME UNCHANGED <<grants, owners, conferred>> PROVE OwnerInv'
  BY <1>2, <1>3 DEF OwnerInv, Member
<1>4. ASSUME NEW w \in Workers, PermissionStep(w), NEW outcome \in Outcome, StoreGrant(w, outcome)
      PROVE  OwnerInv'
  <2>1. PICK g : g = call[w].grant
    OBVIOUS
  <2>2. /\ g \in Grant /\ g.grantor \in Subjects /\ g.resource \in Resources
        /\ (pairOf[g.resource] # None /\ g.grantor \in pairOf[g.resource]) \/ owners[g.resource] # None
    BY <1>4, <2>1, CallFields DEF StoreGrant, Runs, GrantingInv, TypeOK, Member
  <2>3. /\ grants' \subseteq grants \cup {g} /\ conferred' = conferred \cup {g}
        /\ owners' = [owners EXCEPT ![g.resource] = IF owners[g.resource] = None THEN g.grantor
                                                    ELSE owners[g.resource]]
    BY <1>4, <2>1 DEF StoreGrant, putGrant
  <2>4. pairOf' = pairOf
    BY <1>4 DEF PermissionStep
  <2>5. owners \in [Resources -> Subjects \cup {None}]
    BY DEF TypeOK, PermissionsTypeOK, GrantsTypeOK
  <2>6. grants' \subseteq conferred'
    BY <2>3 DEF OwnerInv
  <2>7. \A r \in Resources : owners'[r] # None => pairOf'[r] # None /\ owners'[r] \in pairOf'[r]
    BY <1>1, <2>2, <2>3, <2>4, <2>5
  <2>8. \A h \in conferred' : owners'[h.resource] # None
    <3>1. conferred \subseteq Grant
      BY DEF TypeOK, PermissionsTypeOK
    <3>2. \A h \in conferred : h.resource \in Resources /\ owners[h.resource] # None
      BY <3>1 DEF OwnerInv, Grant
    <3>3. owners'[g.resource] # None /\ \A r \in Resources : owners[r] # None => owners'[r] # None
      BY <2>2, <2>3, <2>5, GrantsAssumption
    <3> QED BY <2>3, <3>2, <3>3
  <2> QED BY <2>6, <2>7, <2>8 DEF OwnerInv, Member
<1>5. ASSUME NEW w \in Workers, PermissionStep(w), NEW outcome \in Outcome, DeleteGrant(w, outcome)
      PROVE  OwnerInv'
  <2>1. grants' \subseteq grants /\ UNCHANGED <<owners, conferred, pairOf>>
    BY <1>5 DEF DeleteGrant, removeGrant, ghosts, PermissionStep
  <2> QED BY <2>1 DEF OwnerInv, Member
<1>6. ASSUME NEW w \in Workers, PermissionStep(w) PROVE OwnerInv'
  BY <1>3, <1>4, <1>5, <1>6, PermissionKinds
<1> QED BY <1>3, <1>6, StepKinds DEF ghosts

\* A call once allowed stays allowed: participants, owners and what was given remain.
LEMMA MayConferStays ==
    ASSUME TypeOK, TaskInv, [Next]_vars, NEW g \in Grant, MayConfer(g)
    PROVE  MayConfer(g)'
<1>1. g.resource \in ConversationIds
  BY DEF Grant, ConversationIds
<1>2. CASE Member(g.grantor, g.resource)
  BY <1>1, <1>2, HistoryGrows DEF MayConfer, Member
<1>3. CASE \E h \in conferred :
              /\ h.subject = g.grantor /\ h.action = g.action /\ h.resource = g.resource
              /\ scopeAtLeast(h.scope, g.scope)
  BY <1>3, OwnersStay DEF MayConfer
<1> QED BY <1>2, <1>3 DEF MayConfer

\* A grant is allowed to who may confer it.
LEMMA AllowedMayConfer ==
    ASSUME TypeOK, OwnerInv, NEW g \in Grant, authorizeGrant(g),
           Member(g.grantor, g.resource) \/ owners[g.resource] # None
    PROVE  MayConfer(g)
<1>1. CASE ownerOf(g.resource) \in {None, g.grantor}
  BY <1>1 DEF ownerOf, OwnerInv, MayConfer, Grant
<1>2. CASE \E h \in activeGrant(g.grantor, g.action, g.resource) : scopeAtLeast(h.scope, g.scope)
  BY <1>2 DEF activeGrant, OwnerInv, MayConfer
<1> QED BY <1>1, <1>2 DEF authorizeGrant

LEMMA GrantingStep ==
    ASSUME TypeOK, TypeOK', TaskInv, PairInv, OwnerInv, GrantingInv, [Next]_vars
    PROVE  GrantingInv'
<1> SUFFICES ASSUME NEW v \in Workers, Runs(v, "grant")'
             PROVE  /\ Member(call[v].grant.grantor, call[v].grant.resource)'
                       \/ (owners[call[v].grant.resource] # None)'
                    /\ step'[v] = "allowed" => MayConfer(call[v].grant)'
  BY DEF GrantingInv
<1>1. PICK g : g = call'[v].grant
  OBVIOUS
<1>2. g \in Grant /\ g.grantor \in Subjects /\ g.resource \in ConversationIds
  BY <1>1 DEF Runs, TypeOK, PermissionsTypeOK, Call, Grant, ConversationIds
<1>3. Member(g.grantor, g.resource) \/ owners[g.resource] # None
      => Member(g.grantor, g.resource)' \/ owners'[g.resource] # None
  BY <1>2, HistoryGrows, OwnersStay DEF Member, ConversationIds
<1> SUFFICES /\ Member(g.grantor, g.resource)' \/ owners'[g.resource] # None
             /\ step'[v] = "allowed" => MayConfer(g)'
  BY <1>1 DEF Member, MayConfer
<1>4. ASSUME CallKept(v) PROVE /\ Member(g.grantor, g.resource) \/ owners[g.resource] # None
                               /\ step'[v] = "allowed" => MayConfer(g)'
  <2>1. Runs(v, "grant") /\ g = call[v].grant /\ step'[v] = step[v]
    BY <1>1, <1>4 DEF CallKept, Runs
  <2> QED BY <1>2, <2>1, MayConferStays DEF GrantingInv
<1>5. ASSUME CallMade(v) PROVE /\ Member(g.grantor, g.resource)' \/ owners[g.resource] # None
                               /\ step'[v] = "called"
  <2>1. Member(g.grantor, g.resource)' \/ Knows(g.grantor, g.resource)
    BY <1>1, <1>5 DEF CallMade, Member
  <2>2. Knows(g.grantor, g.resource) => Member(g.grantor, g.resource) \/ owners[g.resource] # None
    BY <1>2, KnownHasOwner
  <2>3. Member(g.grantor, g.resource) => Member(g.grantor, g.resource)'
    BY <1>2, HistoryGrows DEF Member
  <2> QED BY <1>5, <2>1, <2>2, <2>3 DEF CallMade
<1>6. ASSUME PermissionStep(v) PROVE /\ Member(g.grantor, g.resource) \/ owners[g.resource] # None
                                     /\ step'[v] = "allowed" => MayConfer(g)'
  <2>1. Runs(v, "grant") /\ g = call[v].grant
    BY <1>1, <1>6, PermissionFrame DEF PermissionStep, Runs
  <2>2. Member(g.grantor, g.resource) \/ owners[g.resource] # None
    BY <2>1 DEF GrantingInv
  <2>3. ASSUME step'[v] = "allowed" PROVE authorizeGrant(g)
    <3>1. step \in [Workers -> Step]
      BY DEF TypeOK, PermissionsTypeOK
    <3>2. ASSUME NEW to, NEW from, Goes(v, from, to) PROVE to = "allowed"
      BY <2>3, <3>1, <3>2 DEF Goes
    <3> QED BY <1>6, <2>1, <3>2
            DEF PermissionStep, Permission, PermissionFails, Unrecorded, AllowGrant, DenyGrant, StoreGrant,
                AllowRevoke, DenyRevoke, DeleteGrant, DenyUnread, WriteFails, Runs
  <2> QED BY <1>2, <2>2, <2>3, AllowedMayConfer, MayConferStays
<1>7. PermissionStep(v) \/ CallKept(v) \/ CallMade(v)
  <2>1. call'[v] # None
    BY DEF Runs
  <2>2. ASSUME NEW w \in Workers, PermissionStep(w), w # v PROVE CallKept(v)
    BY <2>2, PermissionFrame DEF PermissionStep
  <2> QED BY <2>1, <2>2, StepKinds
<1> QED BY <1>3, <1>4, <1>5, <1>6, <1>7, OwnersStay, <1>2 DEF ConversationIds

\* Only a participant, or who was given access, first has a grant stored.
LEMMA ConferredStep ==
    ASSUME TypeOK, TaskInv, GrantingInv, [Next]_vars,
           NEW g \in conferred' \ conferred
    PROVE  MayConfer(g)
<1>1. PICK w \in Workers : PermissionStep(w)
  BY StepKinds DEF ghosts
<1>2. PICK outcome \in Outcome : StoreGrant(w, outcome)
  BY <1>1, PermissionKinds DEF DeleteGrant, ghosts
<1>3. g = call[w].grant /\ Runs(w, "grant") /\ step[w] = "allowed"
  BY <1>2 DEF StoreGrant, Goes
<1> QED BY <1>3 DEF GrantingInv

--------------------------------------------------------------------------------
(* Who may take access away.                                                *)

LEMMA RevokingStep ==
    ASSUME TypeOK, TypeOK', TaskInv, RevokingInv, [Next]_vars
    PROVE  RevokingInv'
<1> SUFFICES ASSUME NEW v \in Workers, Runs(v, "revoke")', step'[v] = "allowed"
             PROVE  /\ existing'[v] # None /\ SameKey(existing[v], call[v].grant)'
                    /\ authorizeRevoke(call[v].grant.grantor, existing[v])'
  BY DEF RevokingInv
<1>1. PICK g, e : g = call'[v].grant /\ e = existing'[v]
  OBVIOUS
<1>2. g \in Grant /\ g.grantor \in Subjects
  BY <1>1 DEF Runs, TypeOK, PermissionsTypeOK, Call, Grant
<1> SUFFICES e # None /\ SameKey(e, g) /\ authorizeRevoke(g.grantor, e)'
  BY <1>1 DEF SameKey, authorizeRevoke, ownerOf
<1>3. ASSUME e \in Grant, authorizeRevoke(g.grantor, e) PROVE authorizeRevoke(g.grantor, e)'
  <2>1. e.resource \in Resources /\ g.grantor # None
    BY <1>2, <1>3, GrantsAssumption DEF Grant
  <2> QED BY <1>3, <2>1, OwnersStay DEF authorizeRevoke, ownerOf
<1>4. ~CallMade(v)
  BY DEF CallMade
<1>5. CASE CallKept(v)
  <2>1. Runs(v, "revoke") /\ step[v] = "allowed" /\ g = call[v].grant /\ e = existing[v]
    BY <1>1, <1>5 DEF CallKept, Runs
  <2>2. e # None /\ SameKey(e, g) /\ authorizeRevoke(g.grantor, e)
    BY <2>1 DEF RevokingInv
  <2>3. e \in Grant
    BY <2>1, <2>2 DEF TypeOK, PermissionsTypeOK
  <2> QED BY <1>3, <2>2, <2>3
<1>6. CASE PermissionStep(v)
  <2>1. Runs(v, "revoke") /\ g = call[v].grant
    BY <1>1, <1>6, PermissionFrame DEF PermissionStep, Runs
  <2>2. AllowRevoke(v)
    <3>1. step \in [Workers -> Step]
      BY DEF TypeOK, PermissionsTypeOK
    <3>2. ASSUME NEW to, NEW from, Goes(v, from, to) PROVE to = "allowed"
      BY <3>1, <3>2 DEF Goes
    <3> QED BY <1>6, <2>1, <3>2
            DEF PermissionStep, Permission, PermissionFails, Unrecorded, AllowGrant, DenyGrant, StoreGrant,
                DenyRevoke, DeleteGrant, DenyUnread, WriteFails, Runs
  <2>3. e \in grants /\ SameKey(e, g) /\ authorizeRevoke(g.grantor, e)
    <3>1. existing \in [Workers -> Grant \cup {None}]
      BY DEF TypeOK, PermissionsTypeOK
    <3>2. PICK h \in activeGrant(g.subject, g.action, g.resource) :
             authorizeRevoke(g.grantor, h) /\ existing' = [existing EXCEPT ![v] = h]
      BY <2>1, <2>2 DEF AllowRevoke, RevokedKey
    <3>3. e = h
      BY <1>1, <3>1, <3>2
    <3> QED BY <3>2, <3>3 DEF activeGrant, SameKey
  <2>4. e \in Grant
    BY <2>3 DEF TypeOK, PermissionsTypeOK, GrantsTypeOK
  <2> QED BY <1>3, <2>3, <2>4, GrantsAssumption
<1>7. PermissionStep(v) \/ CallKept(v)
  <2>1. call'[v] # None
    BY DEF Runs
  <2>2. ASSUME NEW w \in Workers, PermissionStep(w), w # v PROVE CallKept(v)
    BY <2>2, PermissionFrame DEF PermissionStep
  <2> QED BY <1>4, <2>1, <2>2, StepKinds
<1> QED BY <1>5, <1>6, <1>7

\* A grant that goes is replaced, or deleted by a call that was allowed to.
LEMMA RevokedStep ==
    ASSUME TypeOK, TaskInv, RevokingInv, [Next]_vars, NEW g \in grants \ grants'
    PROVE  \/ \E h \in grants' : SameKey(g, h)
           \/ \E w \in Workers :
                 /\ Runs(w, "revoke") /\ existing[w] # None /\ SameKey(existing[w], g)
                 /\ authorizeRevoke(call[w].grant.grantor, existing[w])
<1>1. PICK w \in Workers : PermissionStep(w)
  BY StepKinds
<1>2. CASE \E outcome \in Outcome : StoreGrant(w, outcome)
  BY <1>2 DEF StoreGrant, putGrant, SameKey
<1>3. CASE \E outcome \in Outcome : DeleteGrant(w, outcome)
  <2>1. Runs(w, "revoke") /\ step[w] = "allowed" /\ SameKey(g, call[w].grant)
    BY <1>3 DEF DeleteGrant, Goes, removeGrant, activeGrant, SameKey
  <2>2. /\ existing[w] # None /\ SameKey(existing[w], call[w].grant)
        /\ authorizeRevoke(call[w].grant.grantor, existing[w])
    BY <2>1 DEF RevokingInv
  <2>3. SameKey(existing[w], g)
    BY <2>1, <2>2 DEF SameKey
  <2> QED BY <2>1, <2>2, <2>3
<1> QED BY <1>1, <1>2, <1>3, PermissionKinds

--------------------------------------------------------------------------------
(* Handlers and their conversations.                                        *)

\* A handler that takes no step still serves its conversation.
LEMMA ServingKept ==
    ASSUME TypeOK, TypeOK', TaskInv, [Next]_vars, NEW v \in Workers, TaskKept(v), call'[v] = call[v]
    PROVE  Serving(v)'
<1>1. at[v] \in Creating \ {"finding"} => pairOf'[task[v].conv] = pairOf[task[v].conv]
  <2>1. ASSUME at[v] \in Creating \ {"finding"}
        PROVE  task[v].conv \in ConversationIds /\ pairOf[task[v].conv] # None
    BY <2>1, TaskConversation, ConversationsAssumption DEF TaskInv, Serving
  <2> QED BY <2>1, HistoryGrows
<1>2. task[v].seq \in 1..lastSeq => task[v].seq \in 1..lastSeq'
  <2>1. lastSeq \in Nat /\ lastSeq' \in Nat /\ lastSeq <= lastSeq'
    BY HistoryGrows, ConversationsAssumption DEF TypeOK
  <2> QED BY <2>1
<1>3. policies \subseteq policies'
  BY StepKinds
<1> QED BY <1>1, <1>2, <1>3 DEF TaskInv, Serving, TaskKept, HandlerCall

\* A request that is over serves nothing.
LEMMA ServingOver ==
    ASSUME NEW w \in Workers, task'[w] = None, at'[w] = "idle"
    PROVE  Serving(w)'
BY DEF Serving, Creating, Sending

LEMMA CreateServing ==
    ASSUME TypeOK, TypeOK', TaskInv, PairInv, NEW w \in Workers, Create(w), policies' = policies
    PROVE  Serving(w)'
<1>1. task \in [Workers -> Task \cup {None}] /\ missing \in [Workers -> SUBSET Subjects]
      /\ at \in [Workers -> {"idle"} \cup Creating \cup Sending]
      /\ pairOf \in [ConversationIds -> Pairs \cup {None}]
  BY DEF TypeOK
<1>2. at[w] \in Creating /\ task[w] # None
  <2>1. at[w] \in Creating
    BY DEF Create, FindOrCreate, findOrCreateConversation, GrantParticipant, EmitCreated, GrantFails,
           deleteConversationRecord, CheckCreator, CheckParticipant, RepairParticipant, EmitRepaired,
           RepairFails, Moves, Creating
  <2> QED BY <2>1 DEF TypeOK, Creating
<1>3. {task[w].self, task[w].peer} \in Pairs /\ "conversation" \in policies
  BY <1>2 DEF TaskInv, Serving
<1>4. at[w] # "finding" => task[w].conv # None /\ pairOf[task[w].conv] = {task[w].self, task[w].peer}
  BY <1>2 DEF TaskInv, Serving
<1>e. Ends(w) => Serving(w)'
  BY EndsFrame, ServingOver
\* The handler goes on to a, for the same conversation.
<1>k. ASSUME NEW a \in Creating \ {"finding"}, at[w] # "finding", at'[w] = a, task' = task, UNCHANGED pairOf,
             a \in {"grantSelf", "repairSelf"} => CallsGrant(w, task[w].self, task[w].conv),
             a \in {"grantPeer", "repairPeer"} => CallsGrant(w, task[w].peer, task[w].conv),
             a \in {"checkSelf", "checkPeer"} => call[w] = None /\ NoCall
      PROVE  Serving(w)'
  <2>1. a \in {"grantSelf", "repairSelf"} => call'[w] = HandlerCall(w, task[w].self)'
    BY <1>k, CallsGrantFrame DEF HandlerCall
  <2>2. a \in {"grantPeer", "repairPeer"} => call'[w] = HandlerCall(w, task[w].peer)'
    BY <1>k, CallsGrantFrame DEF HandlerCall
  <2>3. a \in {"checkSelf", "checkPeer"} => call'[w] = None
    BY <1>k, NoCallFrame DEF CallKept
  <2> QED BY <1>k, <1>3, <1>4, <2>1, <2>2, <2>3 DEF Serving, Creating, Sending
<1>5. CASE FindOrCreate(w)
  <2>1. ASSUME NEW i \in RowOf({task[w].self, task[w].peer}),
               Moves(w, "finding", "checkSelf"), task' = [task EXCEPT ![w].conv = i], NoCall, UNCHANGED pairOf
        PROVE  Serving(w)'
    <3>1. task'[w] = [task[w] EXCEPT !.conv = i]
      BY <1>1, <2>1
    <3>2. task[w] \in [kind : {"create"}, self : Subjects, peer : Subjects, conv : ConversationIds \cup {None}]
      BY <1>2, TaskFields DEF Task, Creating
    <3>3. task'[w].self = task[w].self /\ task'[w].peer = task[w].peer /\ task'[w].conv = i
      BY <3>1, <3>2
    <3>4. i # None /\ pairOf[i] = {task[w].self, task[w].peer}
      BY <1>3, ConversationsAssumption DEF RowOf, PairInv
    <3>5. at'[w] = "checkSelf" /\ call'[w] = None
      <4>1. at[w] = "finding" /\ at'[w] = "checkSelf"
        BY <2>1, MovesFrame
      <4>2. call[w] = None
        BY <4>1 DEF TaskInv, Serving
      <4> QED BY <2>1, <4>1, <4>2, NoCallFrame DEF CallKept
    <3> QED BY <1>3, <2>1, <3>3, <3>4, <3>5 DEF Serving, Creating, Sending
  <2>2. ASSUME NEW i \in ConversationIds,
               Moves(w, "finding", "grantSelf"), task' = [task EXCEPT ![w].conv = i],
               pairOf' = [pairOf EXCEPT ![i] = {task[w].self, task[w].peer}],
               CallsGrant(w, task[w].self, i)
        PROVE  Serving(w)'
    <3>1. task'[w] = [task[w] EXCEPT !.conv = i]
      BY <1>1, <2>2
    <3>2. task[w] \in [kind : {"create"}, self : Subjects, peer : Subjects, conv : ConversationIds \cup {None}]
      BY <1>2, TaskFields DEF Task, Creating
    <3>3. task'[w].self = task[w].self /\ task'[w].peer = task[w].peer /\ task'[w].conv = i
      BY <3>1, <3>2
    <3>4. i # None /\ pairOf'[i] = {task[w].self, task[w].peer}
      BY <1>1, <2>2, ConversationsAssumption
    <3>5. at'[w] = "grantSelf"
      BY <2>2, MovesFrame
    <3>6. call'[w] = HandlerCall(w, task[w].self)'
      BY <2>2, <3>3, CallsGrantFrame DEF HandlerCall
    <3> QED BY <1>3, <3>3, <3>4, <3>5, <3>6 DEF Serving, Creating, Sending
  <2>3. \/ \E i \in RowOf({task[w].self, task[w].peer}) :
              /\ Moves(w, "finding", "checkSelf") /\ task' = [task EXCEPT ![w].conv = i]
              /\ NoCall /\ UNCHANGED <<rows, pairOf>>
        \/ \E i \in ConversationIds :
              /\ Moves(w, "finding", "grantSelf") /\ task' = [task EXCEPT ![w].conv = i]
              /\ pairOf' = [pairOf EXCEPT ![i] = {task[w].self, task[w].peer}]
              /\ CallsGrant(w, task[w].self, i)
    BY <1>5 DEF FindOrCreate, findOrCreateConversation
  <2> QED BY <2>1, <2>2, <2>3
<1>6. CASE GrantParticipant(w)
  <2>1. at[w] = "grantSelf" /\ at'[w] = "grantPeer"
    BY <1>6, MovesFrame DEF GrantParticipant
  <2> QED BY <1>6, <1>k, <2>1 DEF GrantParticipant, history, Creating
<1>7. CASE EmitCreated(w)
  <2>1. CASE Moves(w, "grantPeer", "rollback") /\ UNCHANGED <<task, pairOf>>
    BY <1>k, <2>1, MovesFrame DEF Creating
  <2> QED BY <1>7, <1>e, <2>1 DEF EmitCreated
<1>8. CASE GrantFails(w)
  <2>1. at[w] \in {"grantSelf", "grantPeer"} /\ at'[w] = "rollback"
    BY <1>8, MovesFrame DEF GrantFails
  <2> QED BY <1>8, <1>k, <2>1 DEF GrantFails, history, Creating
<1>9. CASE deleteConversationRecord(w) \/ EmitRepaired(w) \/ RepairFails(w)
  BY <1>9, <1>e DEF deleteConversationRecord, EmitRepaired, RepairFails
<1>10. CASE CheckCreator(w)
  <2>1. at[w] = "checkSelf" /\ at'[w] = "checkPeer"
    BY <1>10, MovesFrame DEF CheckCreator
  <2>2. call[w] = None
    BY <2>1 DEF TaskInv, Serving
  <2> QED BY <1>10, <1>k, <2>1, <2>2 DEF CheckCreator, history, Creating
<1>11. CASE CheckParticipant(w)
  <2>1. CASE Ends(w)
    BY <1>e, <2>1
  <2>2. CASE Moves(w, "checkPeer", "repairSelf") /\ CallsGrant(w, task[w].self, task[w].conv)
             /\ UNCHANGED <<task, pairOf>>
    BY <1>k, <2>2, MovesFrame DEF Creating
  <2>3. CASE Moves(w, "checkPeer", "repairPeer") /\ CallsGrant(w, task[w].peer, task[w].conv)
             /\ UNCHANGED <<task, pairOf>>
    BY <1>k, <2>3, MovesFrame DEF Creating
  <2>4. \/ Ends(w)
        \/ /\ UNCHANGED <<task, pairOf>>
           /\ \/ Moves(w, "checkPeer", "repairSelf") /\ CallsGrant(w, task[w]["self"], task[w].conv)
              \/ Moves(w, "checkPeer", "repairPeer") /\ CallsGrant(w, task[w]["peer"], task[w].conv)
    <3>1. PICK first : first = IF task[w].self \in missing[w] THEN "self" ELSE "peer"
      OBVIOUS
    <3>2. \/ Ends(w)
          \/ /\ UNCHANGED <<task, pairOf>>
             /\ Moves(w, "checkPeer", IF first = "self" THEN "repairSelf" ELSE "repairPeer")
             /\ CallsGrant(w, task[w][first], task[w].conv)
      BY <1>11, <3>1 DEF CheckParticipant
    <3> QED BY <3>1, <3>2
  <2> QED BY <2>1, <2>2, <2>3, <2>4
<1>12. CASE RepairParticipant(w)
  <2>1. at[w] = "repairSelf" /\ at'[w] = "repairPeer"
    BY <1>12, MovesFrame DEF RepairParticipant
  <2> QED BY <1>12, <1>k, <2>1 DEF RepairParticipant, history, Creating
<1> QED BY <1>5, <1>6, <1>7, <1>8, <1>9, <1>10, <1>11, <1>12 DEF Create

\* A new request has no conversation yet, or one it was told of; it makes no call.
LEMMA WorkerServing ==
    ASSUME TypeOK, TypeOK', TaskInv, PairInv, [Next]_vars, NEW w \in Workers, WorkerStep(w)
    PROVE  Serving(w)'
<1>1. task \in [Workers -> Task \cup {None}] /\ lastSeq \in Nat
      /\ at \in [Workers -> {"idle"} \cup Creating \cup Sending]
  BY ConversationsAssumption DEF TypeOK
<1>2. policies' = policies
  BY WorkerFrame
<1>e. Ends(w) => Serving(w)'
  BY EndsFrame, ServingOver
<1>3. CASE Create(w)
  BY <1>2, <1>3, CreateServing
<1>4. ASSUME NEW s \in Subjects, NEW t \in Subjects, CreateConversation(w, s, t) PROVE Serving(w)'
  <2>1. /\ task'[w] = [kind |-> "create", self |-> s, peer |-> t, conv |-> None]
        /\ at'[w] = "finding" /\ {s, t} \in Pairs
    BY <1>1, <1>4, MovesFrame DEF CreateConversation
  <2>2. call'[w] = None /\ "conversation" \in policies
    BY <1>4, NoCallFrame DEF CreateConversation, Free, CallKept
  <2> QED BY <1>2, <2>1, <2>2 DEF Serving, Creating, Sending
<1>5. ASSUME NEW s \in Subjects, NEW i \in ConversationIds, SendMessage(w, s, i) PROVE Serving(w)'
  <2>1. at'[w] = "authorizing"
    BY <1>5, MovesFrame DEF SendMessage
  <2>2. call'[w] = None /\ "conversation" \in policies
    BY <1>5, NoCallFrame DEF SendMessage, Free, CallKept
  <2> QED BY <1>2, <2>1, <2>2 DEF Serving, Creating
<1>6. CASE checkAccess(w)
  <2>1. CASE Moves(w, "authorizing", "inserting") /\ NoCall /\ UNCHANGED task
    <3>1. at[w] = "authorizing" /\ at'[w] = "inserting"
      BY <2>1, MovesFrame
    <3>2. call[w] = None /\ (task[w] # None => "conversation" \in policies)
      BY <3>1 DEF TaskInv, Serving, Sending
    <3>3. call'[w] = None
      BY <2>1, <3>2, NoCallFrame DEF CallKept
    <3> QED BY <1>2, <2>1, <3>1, <3>2, <3>3 DEF Serving, Creating
  <2> QED BY <1>6, <1>e, <2>1 DEF checkAccess
<1>7. CASE DrawSeq(w)
  <2>1. at[w] = "inserting" /\ at'[w] = "committing"
    BY <1>7, MovesFrame DEF DrawSeq
  <2>2. call[w] = None /\ (task[w] # None => "conversation" \in policies)
    BY <2>1 DEF TaskInv, Serving, Sending
  <2>3. call'[w] = None
    BY <1>7, <2>2, NoCallFrame DEF DrawSeq, CallKept
  <2>4. task[w] \in [kind : {"send"}, self : Subjects, conv : ConversationIds, seq : 0..MaxMessages]
    BY <2>1, TaskFields DEF Task, Sending
  <2>5. task'[w].seq = lastSeq + 1 /\ lastSeq' = lastSeq + 1
    BY <1>1, <1>7, <2>4 DEF DrawSeq
  <2>6. task[w] # None
    BY <2>1 DEF TypeOK
  <2> QED BY <1>1, <1>2, <2>1, <2>2, <2>3, <2>5, <2>6 DEF Serving, Creating
<1>8. CASE addMessage(w) \/ Panic(w)
  BY <1>8, <1>e DEF addMessage, Panic
<1>9. CASE PermissionStep(w)
  <2>1. TaskKept(w) /\ call'[w] = call[w]
    BY <1>9, PermissionFrame DEF PermissionStep, handlers, TaskKept
  <2> QED BY <2>1, ServingKept
<1>10. CASE (\E c \in DirectCalls : DirectCall(w, c)) \/ DirectReturn(w)
  <2>1. task'[w] = None /\ at'[w] = at[w] /\ task[w] = None
    BY <1>10 DEF DirectCall, DirectReturn, Free, handlers
  <2>2. at[w] = "idle"
    BY <2>1 DEF TypeOK
  <2> QED BY <2>1, <2>2, ServingOver
<1> QED BY <1>3, <1>4, <1>5, <1>6, <1>7, <1>8, <1>9, <1>10 DEF WorkerStep

LEMMA TaskInvStep ==
    ASSUME TypeOK, TypeOK', TaskInv, PairInv, [Next]_vars
    PROVE  TaskInv'
<1> SUFFICES ASSUME NEW v \in Workers PROVE Serving(v)'
  BY DEF TaskInv
<1>1. CASE UNCHANGED vars
  BY <1>1, ServingKept DEF vars, permissionsVars, calls, handlers, TaskKept
<1>2. CASE NewService
  BY <1>2, ServingKept DEF NewService, DefinePolicy, calls, handlers, TaskKept
<1>3. CASE Crash
  BY <1>3, ServingOver DEF Crash
<1>4. ASSUME NEW s \in Subjects, ClientStep(s) PROVE Serving(v)'
  <2>1. NoCall /\ UNCHANGED handlers
    BY <1>4 DEF ClientStep, StartWalk, ListMessages, ListMessagesUnread
  <2> QED BY <2>1, NoCallFrame, ServingKept DEF handlers, TaskKept, CallKept
<1>5. ASSUME NEW w \in Workers, WorkerStep(w) PROVE Serving(v)'
  <2>1. CASE v = w
    BY <1>5, <2>1, WorkerServing
  <2>2. CASE v # w
    BY <1>5, <2>2, WorkerFrame, ServingKept DEF CallKept
  <2> QED BY <2>1, <2>2
<1> QED BY <1>1, <1>2, <1>3, <1>4, <1>5 DEF Next, WorkerStep, ClientStep

\* Rows come and go with their pair; CreateConversation answers its participants.
LEMMA PairStep ==
    ASSUME TypeOK, TaskInv, PairInv, [Next]_vars
    PROVE  PairInv'
<1>1. rows \in [ConversationIds -> Pairs \cup {None}] /\ pairOf \in [ConversationIds -> Pairs \cup {None}]
  BY DEF TypeOK
<1>2. \A p \in told : p[2] \in ConversationIds /\ pairOf[p[2]] # None /\ p[1] \in pairOf[p[2]]
  BY DEF TypeOK, PairInv, Member
<1>3. \A p \in told : pairOf'[p[2]] # None /\ p[1] \in pairOf'[p[2]]
  BY <1>2, HistoryGrows
<1>4. ASSUME UNCHANGED <<rows, pairOf, told, rolledBack>> PROVE PairInv'
  BY <1>4 DEF PairInv, Member
<1>5. CASE UNCHANGED vars
  BY <1>4, <1>5 DEF vars, database, history
<1>6. CASE NewService \/ Crash
  BY <1>4, <1>6 DEF NewService, Crash, database, history
<1>7. ASSUME NEW s \in Subjects, ClientStep(s) PROVE PairInv'
  BY <1>4, <1>7 DEF ClientStep, StartWalk, ListMessages, ListMessagesUnread, database, history
<1>8. ASSUME NEW w \in Workers, FindOrCreate(w) PROVE PairInv'
  <2>1. ASSUME NEW i \in ConversationIds, NEW pair, pairOf[i] = None,
               rows' = [rows EXCEPT ![i] = pair], pairOf' = [pairOf EXCEPT ![i] = pair],
               UNCHANGED <<told, rolledBack>>
        PROVE  PairInv'
    BY <1>1, <1>3, <2>1 DEF PairInv, Member
  <2>2. \/ UNCHANGED <<rows, pairOf>>
        \/ \E i \in ConversationIds :
              /\ pairOf[i] = None
              /\ rows' = [rows EXCEPT ![i] = {task[w].self, task[w].peer}]
              /\ pairOf' = [pairOf EXCEPT ![i] = {task[w].self, task[w].peer}]
    BY <1>8 DEF FindOrCreate, findOrCreateConversation
  <2> QED BY <1>4, <1>8, <2>1, <2>2 DEF FindOrCreate
<1>9. ASSUME NEW w \in Workers, Create(w), ~FindOrCreate(w) PROVE PairInv'
  <2>1. \/ deleteConversationRecord(w)
        \/ UNCHANGED <<rows, pairOf, rolledBack>>
           /\ (UNCHANGED told \/ (at[w] \in Creating \ {"finding"} /\ Tells(w)))
    BY <1>9 DEF Create, GrantParticipant, EmitCreated, GrantFails,
       CheckCreator, CheckParticipant, RepairParticipant, EmitRepaired, RepairFails, Creating, database, history
  <2>2. CASE deleteConversationRecord(w)
    <3>1. task[w].conv \in ConversationIds
      BY <2>2, TaskConversation DEF deleteConversationRecord, Creating
    <3> QED BY <1>1, <1>3, <2>2, <3>1 DEF deleteConversationRecord, PairInv, Member
  <2>3. ASSUME UNCHANGED <<rows, pairOf, rolledBack>>, at[w] \in Creating \ {"finding"}, Tells(w)
        PROVE  PairInv'
    <3>1. pairOf[task[w].conv] = {task[w].self, task[w].peer} /\ {task[w].self, task[w].peer} \in Pairs
      BY <2>3 DEF TaskInv, Serving
    <3>2. \A p \in told' : pairOf'[p[2]] # None /\ p[1] \in pairOf'[p[2]]
      <4>1. PICK a, c : a = task[w].self /\ c = task[w].conv
        OBVIOUS
      <4>2. told' = told \cup {<<a, c>>} /\ pairOf'[c] # None /\ a \in pairOf'[c]
        BY <2>3, <3>1, <4>1, ConversationsAssumption DEF Tells
      <4> QED BY <1>3, <4>2
    <3> QED BY <2>3, <3>2 DEF PairInv, Member
  <2> QED BY <1>4, <2>1, <2>2, <2>3
<1>10. ASSUME NEW w \in Workers, WorkerStep(w), ~Create(w) PROVE UNCHANGED <<rows, pairOf, told, rolledBack>>
  <2>1. CASE addMessage(w) \/ DrawSeq(w) \/ PermissionStep(w)
    BY <2>1 DEF addMessage, DrawSeq, PermissionStep, database, history
  <2>2. CASE \/ \E s, t \in Subjects : CreateConversation(w, s, t)
             \/ \E s \in Subjects, i \in ConversationIds : SendMessage(w, s, i)
             \/ checkAccess(w)
             \/ \E c \in DirectCalls : DirectCall(w, c)
             \/ DirectReturn(w) \/ Panic(w)
    BY <2>2 DEF CreateConversation, SendMessage, checkAccess, DirectCall, DirectReturn, Panic, database, history
  <2> QED BY <1>10, <2>1, <2>2 DEF WorkerStep
<1> QED BY <1>4, <1>5, <1>6, <1>7, <1>8, <1>9, <1>10 DEF Next, WorkerStep, ClientStep

--------------------------------------------------------------------------------
(* Access of the participants.                                              *)

\* Access stays, or its loss is a revocation that is noted.
LEMMA GrantedStays ==
    ASSUME TypeOK, TaskInv, [Next]_vars, NEW s \in Subjects, NEW i \in ConversationIds, Granted(s, i)
    PROVE  Granted(s, i)'
<1>1. i \in Resources /\ s # None
  BY GrantsAssumption DEF ConversationIds
<1>2. CASE ownerOf(i) = s
  BY <1>1, <1>2, OwnersStay DEF ownerOf, Granted
<1>3. CASE <<s, i>> \in revoked
  BY <1>3, HistoryGrows DEF Granted
<1>4. CASE \E h \in grants : h.subject = s /\ h.action = ActionAccess /\ h.resource = i
  <2>1. PICK h \in grants : h.subject = s /\ h.action = ActionAccess /\ h.resource = i
    BY <1>4
  <2>2. CASE \E k \in grants' : SameKey(h, k)
    <3>1. PICK k \in grants' : SameKey(h, k)
      BY <2>2
    <3>2. k \in activeGrant(s, ActionAccess, i)'
      BY <2>1, <3>1 DEF activeGrant, SameKey
    <3> QED BY <3>2 DEF Granted
  <2>3. CASE \A k \in grants' : ~SameKey(h, k)
    <3>1. h \notin grants'
      BY <2>3 DEF SameKey
    <3>2. PICK w \in Workers : PermissionStep(w)
      BY <2>1, <3>1, StepKinds
    <3>3. <<h.subject, h.resource>> \in revoked'
      BY <2>1, <2>3, <3>2 DEF PermissionStep
    <3> QED BY <2>1, <3>3 DEF Granted
  <2> QED BY <2>2, <2>3
<1> QED BY <1>2, <1>3, <1>4 DEF Granted, activeGrant

\* Who may access has been given access.
LEMMA MayAccessGranted ==
    ASSUME NEW s, NEW i, MayAccess(s, i) PROVE Granted(s, i)
BY DEF MayAccess, CheckPermission, Granted

LEMMA DoneStep ==
    ASSUME TypeOK, TypeOK', TaskInv, DoneInv, [Next]_vars PROVE DoneInv'
<1> SUFFICES ASSUME NEW v \in Workers, Runs(v, "grant")', step'[v] = "done",
                    call'[v].grant.action = ActionAccess
             PROVE  Granted(call[v].grant.subject, call[v].grant.resource)'
  BY DEF DoneInv
<1>1. PICK g : g = call'[v].grant
  OBVIOUS
<1>2. g \in Grant /\ g.subject \in Subjects /\ g.resource \in ConversationIds /\ g.action = ActionAccess
  BY <1>1 DEF Runs, TypeOK, PermissionsTypeOK, Call, Grant, ConversationIds
<1> SUFFICES Granted(g.subject, g.resource)'
  BY <1>1 DEF Granted, activeGrant, ownerOf
<1>3. ~CallMade(v)
  BY DEF CallMade
<1>4. CASE CallKept(v)
  <2>1. Runs(v, "grant") /\ step[v] = "done" /\ g = call[v].grant
    BY <1>1, <1>4 DEF CallKept, Runs
  <2> QED BY <1>2, <2>1, GrantedStays DEF DoneInv
<1>5. CASE PermissionStep(v)
  <2>1. Runs(v, "grant") /\ g = call[v].grant
    BY <1>1, <1>5, PermissionFrame DEF PermissionStep, Runs
  <2>2. StoreGrant(v, "done")
    <3>1. step \in [Workers -> Step]
      BY DEF TypeOK, PermissionsTypeOK
    <3>2. ASSUME NEW to, NEW from, Goes(v, from, to) PROVE to = "done"
      BY <3>1, <3>2 DEF Goes
    <3> QED BY <1>5, <2>1, <3>2
            DEF PermissionStep, Permission, PermissionFails, Unrecorded, AllowGrant, DenyGrant, StoreGrant,
                AllowRevoke, DenyRevoke, DeleteGrant, DenyUnread, WriteFails, Runs
  <2>3. g \in grants'
    BY <2>1, <2>2 DEF StoreGrant, putGrant
  <2> QED BY <1>2, <2>3 DEF Granted, activeGrant
<1>6. PermissionStep(v) \/ CallKept(v)
  <2>1. call'[v] # None
    BY DEF Runs
  <2>2. ASSUME NEW w \in Workers, PermissionStep(w), w # v PROVE CallKept(v)
    BY <2>2, PermissionFrame DEF PermissionStep
  <2> QED BY <1>3, <2>1, <2>2, StepKinds
<1> QED BY <1>4, <1>5, <1>6

\* A handler's call is done when its subject has access.
LEMMA CallDone ==
    ASSUME DoneInv, NEW w \in Workers, NEW s, NEW i, step[w] = "done",
           call[w] = [op |-> "grant", grant |-> AccessGrant(task[w].self, s, i)], call[w] # None
    PROVE  Granted(s, i)
BY DEF DoneInv, Runs, AccessGrant

\* Where a handler stands when it answers, or moves on.
LEMMA Standing ==
    ASSUME TypeOK, TaskInv, DoneInv, NEW w \in Workers, at[w] \in Creating \ {"finding"}
    PROVE  /\ task[w].self \in Subjects /\ task[w].peer \in Subjects /\ task[w].conv \in ConversationIds
           /\ at[w] \in {"grantSelf", "repairSelf"} /\ step[w] = "done" => Granted(task[w].self, task[w].conv)
           /\ at[w] \in {"grantPeer", "repairPeer"} /\ step[w] = "done" => Granted(task[w].peer, task[w].conv)
<1>1. task[w].self \in Subjects /\ task[w].peer \in Subjects /\ task[w].conv \in ConversationIds
  BY TaskFields, TaskConversation DEF Creating
<1>2. at[w] \in {"grantSelf", "repairSelf", "grantPeer", "repairPeer"} => call[w] # None
  <2>1. ASSUME NEW s \in Subjects, call[w] = [op |-> "grant", grant |-> AccessGrant(task[w].self, s, task[w].conv)]
        PROVE  call[w] # None
    BY <1>1, <2>1, AccessGrantType, PermissionsAssumption
  <2> QED BY <1>1, <2>1 DEF TaskInv, Serving, HandlerCall
<1>3. ASSUME at[w] \in {"grantSelf", "repairSelf"}, step[w] = "done"
      PROVE  Granted(task[w].self, task[w].conv)
  <2>1. call[w] = [op |-> "grant", grant |-> AccessGrant(task[w].self, task[w].self, task[w].conv)]
    BY <1>3 DEF TaskInv, Serving, HandlerCall
  <2> QED BY <1>1, <1>2, <1>3, <2>1, CallDone
<1>4. ASSUME at[w] \in {"grantPeer", "repairPeer"}, step[w] = "done"
      PROVE  Granted(task[w].peer, task[w].conv)
  <2>1. call[w] = [op |-> "grant", grant |-> AccessGrant(task[w].self, task[w].peer, task[w].conv)]
    BY <1>4 DEF TaskInv, Serving, HandlerCall
  <2> QED BY <1>1, <1>2, <1>4, <2>1, CallDone
<1> QED BY <1>1, <1>3, <1>4

\* CreateConversation answers with an id that both participants have access to.
LEMMA TellsGranted ==
    ASSUME TypeOK, TaskInv, AccessInv, NEW w \in Workers, Create(w), told' # told
    PROVE  /\ at[w] \in Creating \ {"finding"} /\ Tells(w)
           /\ Granted(task[w].self, task[w].conv) /\ Granted(task[w].peer, task[w].conv)
<1>s. Secured(w) /\ DoneInv /\ missing[w] \subseteq Subjects
  BY DEF AccessInv, TypeOK
<1>1. EmitCreated(w) \/ CheckParticipant(w) \/ EmitRepaired(w)
  BY DEF Create, FindOrCreate, GrantParticipant, GrantFails, deleteConversationRecord,
         CheckCreator, RepairParticipant, RepairFails, history
<1>2. CASE EmitCreated(w)
  <2>1. at[w] = "grantPeer" /\ step[w] = "done" /\ Tells(w)
    BY <1>2 DEF EmitCreated
  <2> QED BY <1>s, <2>1, Standing DEF Secured, Creating
<1>3. CASE CheckParticipant(w)
  <2>1. at[w] = "checkPeer" /\ missing[w] = {} /\ MayAccess(task[w].peer, task[w].conv) /\ Tells(w)
    BY <1>3 DEF CheckParticipant
  <2> QED BY <1>s, <2>1, MayAccessGranted DEF Secured, Creating
<1>4. CASE EmitRepaired(w)
  <2>1. step[w] = "done" /\ Tells(w)
        /\ ((at[w] = "repairSelf" /\ task[w].peer \notin missing[w]) \/ at[w] = "repairPeer")
    BY <1>4 DEF EmitRepaired
  <2> QED BY <1>s, <2>1, Standing DEF Secured, Creating
<1> QED BY <1>1, <1>2, <1>3, <1>4

LEMMA ToldStep ==
    ASSUME TypeOK, TaskInv, PairInv, AccessInv, [Next]_vars
    PROVE  ToldInv'
<1>1. pairOf \in [ConversationIds -> Pairs \cup {None}] /\ \A q \in Pairs : q \subseteq Subjects
  BY ConversationsAssumption DEF TypeOK
<1>2. ASSUME NEW i \in ConversationIds, pairOf[i] # None, "conversation" \in policies,
             \A s \in pairOf[i] : Granted(s, i)
      PROVE  "conversation" \in policies' /\ \A s \in pairOf'[i] : Granted(s, i)'
  <2>1. pairOf'[i] = pairOf[i] /\ policies \subseteq policies'
    BY <1>2, HistoryGrows, StepKinds
  <2> QED BY <1>1, <1>2, <2>1, GrantedStays
<1>3. ASSUME NEW p \in told PROVE "conversation" \in policies' /\ \A s \in pairOf'[p[2]] : Granted(s, p[2])'
  <2>1. p[2] \in ConversationIds /\ pairOf[p[2]] # None
    BY DEF TypeOK, PairInv, Member
  <2>2. "conversation" \in policies /\ \A s \in pairOf[p[2]] : Granted(s, p[2])
    BY DEF AccessInv, ToldInv
  <2> QED BY <1>2, <2>1, <2>2
<1>4. ASSUME NEW p \in told' \ told PROVE "conversation" \in policies' /\ \A s \in pairOf'[p[2]] : Granted(s, p[2])'
  <2>1. \E w \in Workers : Create(w)
    <3>1. ASSUME NEW w \in Workers, WorkerStep(w), ~Create(w) PROVE told' = told
      <4>1. CASE addMessage(w) \/ DrawSeq(w) \/ PermissionStep(w)
        BY <4>1 DEF addMessage, DrawSeq, PermissionStep, history
      <4>2. CASE \/ \E s, t \in Subjects : CreateConversation(w, s, t)
                 \/ \E s \in Subjects, i \in ConversationIds : SendMessage(w, s, i)
                 \/ checkAccess(w)
                 \/ \E c \in DirectCalls : DirectCall(w, c)
                 \/ DirectReturn(w) \/ Panic(w)
        BY <4>2 DEF CreateConversation, SendMessage, checkAccess, DirectCall, DirectReturn, Panic, history
      <4> QED BY <3>1, <4>1, <4>2 DEF WorkerStep
    <3>2. CASE UNCHANGED vars \/ NewService \/ Crash \/ \E s \in Subjects : ClientStep(s)
      BY <3>2 DEF vars, NewService, Crash, ClientStep, StartWalk, ListMessages, ListMessagesUnread, history
    <3> QED BY <3>1, <3>2 DEF Next, WorkerStep, ClientStep
  <2>2. PICK w \in Workers : Create(w)
    BY <2>1
  <2>3. PICK a, b, c : a = task[w].self /\ b = task[w].peer /\ c = task[w].conv
    OBVIOUS
  <2>4. at[w] \in Creating \ {"finding"} /\ Tells(w) /\ Granted(a, c) /\ Granted(b, c)
    BY <2>2, <2>3, TellsGranted
  <2>5. pairOf[c] = {a, b} /\ {a, b} \in Pairs /\ (task[w] # None => "conversation" \in policies)
    BY <2>3, <2>4 DEF TaskInv, Serving
  <2>6. c \in ConversationIds /\ task[w] # None
    BY <2>3, <2>4, TaskConversation DEF TypeOK, Creating
  <2>7. p = <<a, c>>
    BY <2>3, <2>4 DEF Tells
  <2> QED BY <1>2, <2>4, <2>5, <2>6, <2>7, ConversationsAssumption
<1> QED BY <1>3, <1>4 DEF ToldInv

\* A step of the handler secures what it must.
LEMMA CreateSecured ==
    ASSUME TypeOK, TypeOK', TaskInv, PairInv, AccessInv, [Next]_vars, NEW w \in Workers, Create(w)
    PROVE  Secured(w)'
<1>1. missing \in [Workers -> SUBSET Subjects] /\ Secured(w) /\ DoneInv
  BY DEF TypeOK, AccessInv
<1>e. Ends(w) => Secured(w)'
  BY EndsFrame DEF Secured
<1>g. ASSUME NEW s, NEW i, s \in Subjects, i \in ConversationIds, Granted(s, i) PROVE Granted(s, i)'
  BY <1>g, GrantedStays
<1>2. ASSUME at'[w] \notin {"checkPeer", "grantPeer", "repairPeer", "repairSelf"} PROVE Secured(w)'
  BY <1>2 DEF Secured
<1>3. CASE FindOrCreate(w)
  <2>1. at'[w] \in {"checkSelf", "grantSelf"}
    BY <1>3, MovesFrame DEF FindOrCreate, findOrCreateConversation
  <2> QED BY <1>2, <2>1
<1>4. CASE GrantParticipant(w)
  <2>1. at[w] = "grantSelf" /\ at'[w] = "grantPeer" /\ task' = task /\ step[w] = "done"
    BY <1>4, MovesFrame DEF GrantParticipant
  <2>2. task[w].self \in Subjects /\ task[w].conv \in ConversationIds /\ Granted(task[w].self, task[w].conv)
    BY <1>1, <2>1, Standing DEF Creating
  <2>3. Granted(task[w].self, task[w].conv)'
    BY <2>1, <2>2, GrantedStays DEF Granted, activeGrant, ownerOf
  <2> QED BY <2>1, <2>3 DEF Secured
<1>5. CASE EmitCreated(w)
  <2>1. CASE Moves(w, "grantPeer", "rollback")
    BY <1>2, <2>1, MovesFrame
  <2> QED BY <1>5, <1>e, <2>1 DEF EmitCreated
<1>6. CASE GrantFails(w)
  BY <1>2, <1>6, MovesFrame DEF GrantFails
<1>7. CASE deleteConversationRecord(w) \/ EmitRepaired(w) \/ RepairFails(w)
  BY <1>7, <1>e DEF deleteConversationRecord, EmitRepaired, RepairFails
\* Checked leaves the subject's access granted, or notes it as missing.
<1>c. ASSUME NEW s \in Subjects, task[w].conv \in ConversationIds, Checked(w, s), task' = task
      PROVE  (s \in missing'[w] \/ Granted(s, task[w].conv)') /\ missing[w] \subseteq missing'[w]
  <2>1. CASE MayAccess(s, task[w].conv) /\ UNCHANGED missing
    BY <1>c, <2>1, MayAccessGranted, GrantedStays DEF Granted, activeGrant, ownerOf
  <2>2. CASE missing' = [missing EXCEPT ![w] = @ \cup {s}]
    BY <1>1, <2>2
  <2> QED BY <1>c, <2>1, <2>2 DEF Checked
<1>8. CASE CheckCreator(w)
  <2>1. at[w] = "checkSelf" /\ at'[w] = "checkPeer" /\ task' = task
    BY <1>8, MovesFrame DEF CheckCreator
  <2>2. task[w].self \in Subjects /\ task[w].conv \in ConversationIds
    BY <1>1, <2>1, Standing DEF Creating
  <2>3. task[w].self \in missing'[w] \/ Granted(task[w].self, task[w].conv)'
    BY <1>8, <1>c, <2>1, <2>2 DEF CheckCreator
  <2> QED BY <2>1, <2>3 DEF Secured
<1>9. CASE CheckParticipant(w)
  <2>1. CASE Ends(w)
    BY <1>e, <2>1
  <2>2. CASE ~Ends(w)
    <3>1. at[w] = "checkPeer" /\ UNCHANGED task /\ Checked(w, task[w].peer)
      BY <1>9, <2>2 DEF CheckParticipant
    <3>2. task[w].self \in Subjects /\ task[w].peer \in Subjects /\ task[w].conv \in ConversationIds
      BY <1>1, <3>1, Standing DEF Creating
    <3>3. task[w].peer \in missing'[w] \/ Granted(task[w].peer, task[w].conv)'
      BY <1>c, <3>1, <3>2
    <3>4. Moves(w, "checkPeer", IF task[w].self \in missing[w] THEN "repairSelf" ELSE "repairPeer")
      BY <1>9, <2>2 DEF CheckParticipant
    <3>5. at'[w] = IF task[w].self \in missing[w] THEN "repairSelf" ELSE "repairPeer"
      BY <3>4, MovesFrame
    <3>6. task[w].self \notin missing[w] => Granted(task[w].self, task[w].conv)'
      BY <1>1, <3>1, <3>2, GrantedStays DEF Secured, Granted, activeGrant, ownerOf
    <3> QED BY <3>1, <3>3, <3>5, <3>6 DEF Secured
  <2> QED BY <2>1, <2>2
<1>10. CASE RepairParticipant(w)
  <2>1. at[w] = "repairSelf" /\ at'[w] = "repairPeer" /\ task' = task /\ step[w] = "done"
    BY <1>10, MovesFrame DEF RepairParticipant
  <2>2. task[w].self \in Subjects /\ task[w].conv \in ConversationIds /\ Granted(task[w].self, task[w].conv)
    BY <1>1, <2>1, Standing DEF Creating
  <2>3. Granted(task[w].self, task[w].conv)'
    BY <2>1, <2>2, GrantedStays DEF Granted, activeGrant, ownerOf
  <2> QED BY <2>1, <2>3 DEF Secured
<1> QED BY <1>3, <1>4, <1>5, <1>6, <1>7, <1>8, <1>9, <1>10 DEF Create

LEMMA SecuredStep ==
    ASSUME TypeOK, TypeOK', TaskInv, PairInv, AccessInv, [Next]_vars, NEW v \in Workers
    PROVE  Secured(v)'
<1>0. Secured(v) /\ DoneInv
  BY DEF AccessInv
<1>k. ASSUME TaskKept(v) PROVE Secured(v)'
  <2>1. CASE at[v] \in Creating \ {"finding"}
    <3>1. PICK a, b, c : a = task[v].self /\ b = task[v].peer /\ c = task[v].conv
      OBVIOUS
    <3>2. a \in Subjects /\ b \in Subjects /\ c \in ConversationIds
      BY <1>0, <2>1, <3>1, Standing
    <3>3. (Granted(a, c) => Granted(a, c)') /\ (Granted(b, c) => Granted(b, c)')
      BY <3>2, GrantedStays
    <3>4. a = task'[v].self /\ b = task'[v].peer /\ c = task'[v].conv
      BY <1>k, <3>1 DEF TaskKept
    <3>5. /\ at[v] = "checkPeer" => a \in missing[v] \/ Granted(a, c)
          /\ at[v] \in {"grantPeer", "repairPeer"} => Granted(a, c)
          /\ at[v] = "repairSelf" => b \in missing[v] \/ Granted(b, c)
      BY <1>0, <3>1 DEF Secured
    <3>6. /\ at'[v] = "checkPeer" => a \in missing'[v] \/ Granted(a, c)'
          /\ at'[v] \in {"grantPeer", "repairPeer"} => Granted(a, c)'
          /\ at'[v] = "repairSelf" => b \in missing'[v] \/ Granted(b, c)'
      BY <1>k, <3>3, <3>5 DEF TaskKept
    <3> QED BY <3>4, <3>6 DEF Secured, Granted, activeGrant, ownerOf
  <2>2. CASE at[v] \notin Creating \ {"finding"}
    BY <1>k, <2>2 DEF Secured, TaskKept, Creating
  <2> QED BY <2>1, <2>2
<1>o. ASSUME at'[v] \notin {"checkPeer", "grantPeer", "repairPeer", "repairSelf"} PROVE Secured(v)'
  BY <1>o DEF Secured
<1>1. CASE UNCHANGED vars
  BY <1>1, <1>k DEF vars, handlers, TaskKept
<1>2. CASE NewService
  BY <1>2, <1>k DEF NewService, handlers, TaskKept
<1>3. CASE Crash
  BY <1>3, <1>o DEF Crash
<1>4. ASSUME NEW s \in Subjects, ClientStep(s) PROVE Secured(v)'
  BY <1>4, <1>k DEF ClientStep, StartWalk, ListMessages, ListMessagesUnread, handlers, TaskKept
<1>5. ASSUME NEW w \in Workers, WorkerStep(w) PROVE Secured(v)'
  <2>1. CASE v # w
    BY <1>5, <1>k, <2>1, WorkerFrame
  <2>2. CASE v = w /\ Create(w)
    BY <2>2, CreateSecured
  <2>3. CASE v = w /\ (PermissionStep(w) \/ DirectReturn(w) \/ \E c \in DirectCalls : DirectCall(w, c))
    BY <1>k, <2>3 DEF PermissionStep, DirectReturn, DirectCall, handlers, TaskKept
  <2>4. CASE v = w /\ (\/ \E s, t \in Subjects : CreateConversation(w, s, t)
                       \/ \E s \in Subjects, i \in ConversationIds : SendMessage(w, s, i)
                       \/ checkAccess(w) \/ DrawSeq(w) \/ addMessage(w) \/ Panic(w))
    <3>1. Ends(w) => at'[w] = "idle"
      BY EndsFrame
    <3>2. at'[w] \in {"idle", "finding", "authorizing", "inserting", "committing"}
      BY <2>4, <3>1, MovesFrame DEF CreateConversation, SendMessage, checkAccess, DrawSeq, addMessage, Panic
    <3> QED BY <1>o, <2>4, <3>2
  <2> QED BY <1>5, <2>1, <2>2, <2>3, <2>4 DEF WorkerStep
<1> QED BY <1>1, <1>2, <1>3, <1>4, <1>5 DEF Next, WorkerStep, ClientStep

LEMMA AccessStep ==
    ASSUME TypeOK, TypeOK', TaskInv, PairInv, AccessInv, [Next]_vars PROVE AccessInv'
BY ToldStep, DoneStep, SecuredStep DEF AccessInv

\* A conversation a participant was told of is found by both, unless it was rolled
\* back or somebody's access was revoked.
LEMMA ToldIsUsable ==
    ASSUME TypeOK, PairInv, AccessInv PROVE ToldMeansUsable
<1> SUFFICES ASSUME NEW p \in told, p[2] \notin rolledBack, NEW s \in pairOf[p[2]], <<s, p[2]>> \notin revoked
             PROVE  GetConversation(s, p[2]) = "found"
  BY DEF ToldMeansUsable
<1>1. p[2] \in ConversationIds /\ pairOf[p[2]] # None /\ rows[p[2]] # None
  BY DEF TypeOK, PairInv, Member
<1>2. Granted(s, p[2]) /\ "conversation" \in policies
  BY DEF AccessInv, ToldInv
<1>3. MayAccess(s, p[2])
  BY <1>1, <1>2, ConversationsAssumption DEF Granted, MayAccess, CheckPermission, hasPolicy
<1> QED BY <1>1, <1>3 DEF GetConversation

--------------------------------------------------------------------------------
(* Sequence numbers and pages.                                              *)

LEMMA SequenceStep ==
    ASSUME TypeOK, TypeOK', TaskInv, SequenceInv, [Next]_vars PROVE SequenceInv'
<1>0. /\ lastSeq \in Nat /\ at \in [Workers -> {"idle"} \cup Creating \cup Sending]
      /\ task \in [Workers -> Task \cup {None}] /\ \A m \in messages : m.seq \in Nat
  BY ConversationsAssumption DEF TypeOK, Message
<1>k. ASSUME UNCHANGED <<messages, lastSeq>>,
             \A v \in Workers : at'[v] # "committing" \/ (at'[v] = at[v] /\ task'[v] = task[v])
      PROVE  SequenceInv'
  BY <1>k DEF SequenceInv
<1>1. CASE UNCHANGED vars
  BY <1>1, <1>k DEF vars, database, handlers
<1>2. CASE NewService
  BY <1>2, <1>k DEF NewService, database, handlers
<1>3. CASE Crash
  BY <1>3, <1>k DEF Crash, database
<1>4. ASSUME NEW s \in Subjects, ClientStep(s) PROVE SequenceInv'
  BY <1>4, <1>k DEF ClientStep, StartWalk, ListMessages, ListMessagesUnread, database, handlers
<1>5. ASSUME NEW w \in Workers, WorkerStep(w), ~DrawSeq(w), ~addMessage(w) PROVE SequenceInv'
  <2>1. UNCHANGED <<messages, lastSeq>>
    BY <1>5 DEF WorkerStep, Create, FindOrCreate, GrantParticipant, EmitCreated, GrantFails,
       deleteConversationRecord, CheckCreator, CheckParticipant, RepairParticipant, EmitRepaired,
       RepairFails, CreateConversation, SendMessage, checkAccess, PermissionStep, DirectCall, DirectReturn,
       Panic, database
  <2>2. at'[w] # "committing" \/ (at'[w] = at[w] /\ task'[w] = task[w])
    <3>1. CASE PermissionStep(w) \/ DirectReturn(w) \/ \E c \in DirectCalls : DirectCall(w, c)
      BY <3>1 DEF PermissionStep, DirectReturn, DirectCall, handlers
    <3>2. Ends(w) => at'[w] = "idle"
      BY EndsFrame
    <3>3. ASSUME NEW b, NEW a, Moves(w, a, b), b \in {"finding", "authorizing", "inserting"}
          PROVE  at'[w] # "committing"
      BY <3>3, MovesFrame
    <3>6. CASE \/ \E s, t \in Subjects : CreateConversation(w, s, t)
               \/ \E s \in Subjects, i \in ConversationIds : SendMessage(w, s, i)
      BY <3>3, <3>6 DEF CreateConversation, SendMessage
    <3>7. CASE checkAccess(w)
      BY <3>2, <3>3, <3>7 DEF checkAccess
    <3>5. CASE Panic(w)
      BY <3>2, <3>5 DEF Panic
    <3>4. CASE Create(w)
      BY <3>2, <3>4, MovesFrame
         DEF Create, FindOrCreate, findOrCreateConversation, GrantParticipant, EmitCreated, GrantFails,
             deleteConversationRecord, CheckCreator, CheckParticipant, RepairParticipant, EmitRepaired, RepairFails
    <3> QED BY <1>5, <3>1, <3>4, <3>5, <3>6, <3>7 DEF WorkerStep
  <2>3. \A v \in Workers \ {w} : at'[v] = at[v] /\ task'[v] = task[v]
    BY <1>5, WorkerFrame DEF TaskKept
  <2> QED BY <1>k, <2>1, <2>2, <2>3
<1>6. ASSUME NEW w \in Workers, DrawSeq(w) PROVE SequenceInv'
  <2>1. at[w] = "inserting" /\ at'[w] = "committing" /\ \A v \in Workers \ {w} : at'[v] = at[v]
    BY <1>6, MovesFrame DEF DrawSeq
  <2>2. task[w] \in [kind : {"send"}, self : Subjects, conv : ConversationIds, seq : 0..MaxMessages]
    BY <2>1, TaskFields DEF Task, Sending
  <2>3. /\ lastSeq' = lastSeq + 1 /\ messages' = messages /\ task'[w].seq = lastSeq + 1
        /\ \A v \in Workers \ {w} : task'[v] = task[v]
    BY <1>0, <1>6, <2>2 DEF DrawSeq
  <2>4. \A v \in Workers : at[v] = "committing" => task[v].seq \in 1..lastSeq
    BY DEF TaskInv, Serving
  <2>5. \A m \in messages : m.seq <= lastSeq
    BY DEF SequenceInv
  <2>6. \A m \in messages : m.seq <= lastSeq' /\ m.seq # lastSeq + 1
    BY <1>0, <2>3, <2>5
  <2>7. ASSUME NEW x \in Workers, at'[x] = "committing"
        PROVE  /\ \A m \in messages : m.seq # task'[x].seq
               /\ \A v \in Workers : at'[v] = "committing" /\ task'[v].seq = task'[x].seq => v = x
    BY <1>0, <2>1, <2>3, <2>4, <2>6, <2>7 DEF SequenceInv
  <2> QED BY <2>3, <2>6, <2>7 DEF SequenceInv
<1>7. ASSUME NEW w \in Workers, addMessage(w) PROVE SequenceInv'
  <2>1. PICK m : m = [seq |-> task[w].seq, conv |-> task[w].conv, sender |-> task[w].self]
    OBVIOUS
  <2>2. at[w] = "committing" /\ m.seq = task[w].seq /\ messages' = messages \cup {m} /\ lastSeq' = lastSeq
    BY <1>7, <2>1 DEF addMessage
  <2>3. task[w].seq \in 1..lastSeq
    BY <2>2 DEF TaskInv, Serving
  <2>4. at'[w] = "idle" /\ \A v \in Workers \ {w} : at'[v] = at[v] /\ task'[v] = task[v]
    BY <1>7, EndsFrame DEF addMessage, TaskKept
  <2>5. IsFiniteSet(messages')
    BY <2>2, FS_AddElement DEF SequenceInv
  <2>6. \A x, y \in messages' : x.seq = y.seq => x = y
    BY <2>2 DEF SequenceInv
  <2>7. \A x \in messages' : x.seq <= lastSeq'
    BY <1>0, <2>2, <2>3 DEF SequenceInv
  <2>8. ASSUME NEW x \in Workers, at'[x] = "committing"
        PROVE  /\ \A y \in messages' : y.seq # task'[x].seq
               /\ \A v \in Workers : at'[v] = "committing" /\ task'[v].seq = task'[x].seq => v = x
    BY <2>2, <2>4, <2>8 DEF SequenceInv
  <2> QED BY <2>5, <2>6, <2>7, <2>8 DEF SequenceInv
<1> QED BY <1>1, <1>2, <1>3, <1>4, <1>5, <1>6, <1>7 DEF Next, WorkerStep, ClientStep

LEMMA OldestIsLeast ==
    ASSUME NEW S \in SUBSET Nat, S # {}
    PROVE  Oldest(S) \in S /\ \A k \in S : Oldest(S) <= k
<1> DEFINE R == {p \in Nat \X Nat : p[1] < p[2]}
<1>0. IsWellFoundedOn(R, Nat)
  BY NatLessThanWellFounded DEF OpToRel
<1> HIDE DEF R
<1>1. PICK x \in S : \A y \in S : <<y, x>> \notin R
  BY <1>0, WFMin
<1>2. \A y \in S : ~(y < x)
  <2> SUFFICES ASSUME NEW y \in S, y < x PROVE FALSE
    OBVIOUS
  <2>1. <<y, x>> \in R
    BY DEF R
  <2> QED BY <1>1, <2>1
<1>3. \A k \in S : x <= k
  BY <1>2
<1>4. \E n \in S : \A k \in S : n <= k
  BY <1>3
<1> QED BY <1>4 DEF Oldest

\* Messages have as many sequence numbers.
LEMMA PageSeqs ==
    ASSUME SequenceInv, NEW page \in SUBSET messages
    PROVE  /\ IsFiniteSet({m.seq : m \in page}) /\ IsFiniteSet(page)
           /\ Cardinality({m.seq : m \in page}) = Cardinality(page)
<1> DEFINE T == {m.seq : m \in page}
           f == [m \in page |-> m.seq]
<1>1. IsFiniteSet(page)
  BY FS_Subset DEF SequenceInv
<1>2. f \in Surjection(page, T)
  BY DEF Surjection
<1>3. f \in Injection(page, T)
  <2>1. \A m, n \in page : f[m] = f[n] => m = n
    BY DEF SequenceInv
  <2>2. f \in [page -> T]
    OBVIOUS
  <2> HIDE DEF f, T
  <2> QED BY <2>1, <2>2 DEF Injection, IsInjective
<1> HIDE DEF f, T
<1>4. IsFiniteSet(T) /\ Cardinality(T) = Cardinality(page)
  BY <1>1, <1>2, <1>3, FS_Surjection
<1> QED BY <1>1, <1>4 DEF T

\* A page has every message at least as new as one of its own.
LEMMA NewestUpward ==
    ASSUME NEW ms \in SUBSET messages, TypeOK, SequenceInv, NEW limit \in Nat,
           NEW m \in Newest(ms, limit), NEW n \in ms, n.seq >= m.seq
    PROVE  n \in Newest(ms, limit)
<1>1. IsFiniteSet(ms)
  BY FS_Subset DEF SequenceInv
<1>2. \A x \in messages : x.seq \in Nat
  BY ConversationsAssumption DEF TypeOK, Message
<1> DEFINE above(k) == {x \in ms : x.seq > k.seq}
<1>3. above(n) \subseteq above(m) /\ above(m) \subseteq ms
  BY <1>2 DEF Newest
<1>4. IsFiniteSet(above(m))
  BY <1>1, <1>3, FS_Subset
<1>5. /\ Cardinality(above(n)) <= Cardinality(above(m)) /\ Cardinality(above(m)) \in Nat
      /\ Cardinality(above(n)) \in Nat
  BY <1>3, <1>4, FS_Subset, FS_CardinalityType
<1>6. Cardinality(above(m)) < limit
  BY DEF Newest
<1>7. Cardinality(above(n)) < limit
  BY <1>5, <1>6
<1> QED BY <1>7 DEF Newest

\* A page of no more messages than the limit has them all.
LEMMA NewestAll ==
    ASSUME NEW ms \in SUBSET messages, TypeOK, SequenceInv, NEW limit \in Nat, ~(Cardinality(ms) > limit)
    PROVE  Newest(ms, limit) = ms
<1>1. IsFiniteSet(ms)
  BY FS_Subset DEF SequenceInv
<1> SUFFICES ASSUME NEW n \in ms PROVE Cardinality({x \in ms : x.seq > n.seq}) < limit
  BY DEF Newest
<1>2. n.seq \in Nat
  BY ConversationsAssumption DEF TypeOK, Message
<1> DEFINE above == {x \in ms : x.seq > n.seq}
<1>3. n \notin above /\ above \subseteq ms
  BY <1>2
<1>4. above # ms
  BY <1>3
<1> HIDE DEF above
<1>5. Cardinality(above) <= Cardinality(ms) /\ Cardinality(ms) # Cardinality(above)
      /\ Cardinality(ms) \in Nat /\ Cardinality(above) \in Nat
  BY <1>1, <1>3, <1>4, FS_Subset, FS_CardinalityType
<1>6. Cardinality(above) < limit
  BY <1>5
<1> QED BY <1>6 DEF above

\* One page more keeps what the walk has complete from its oldest message upwards.
LEMMA ListMessagesWalking ==
    ASSUME TypeOK, SequenceInv, WalkingInv, NEW s \in Subjects, ListMessages(s)
    PROVE  /\ walk'[s].owed \subseteq {m.seq : m \in MessagesOf(walk'[s].conv)}
           /\ walk'[s].fetched = Cardinality(walk'[s].got)
           /\ \A n \in walk'[s].owed, k \in walk'[s].got : n >= k => n \in walk'[s].got
           /\ walk'[s].status = "complete" => walk'[s].owed \subseteq walk'[s].got
<1>1. PICK c, got, owed, ms, page :
         /\ c = walk[s].conv /\ got = walk[s].got /\ owed = walk[s].owed
         /\ ms = {m \in MessagesOf(c) : Oldest(got) = None \/ m.seq < Oldest(got)}
         /\ page = Newest(ms, PageLimit)
  OBVIOUS
<1>2. walk[s] \in Walk /\ got \subseteq 1..MaxMessages /\ walk[s].fetched \in Nat
  BY <1>1 DEF ListMessages, TypeOK, Walk
<1>3. /\ walk'[s].conv = c /\ walk'[s].owed = owed
      /\ walk'[s].got = got \cup {m.seq : m \in page}
      /\ walk'[s].fetched = walk[s].fetched + Cardinality(page)
      /\ walk'[s].status = "complete" => ~(Cardinality(ms) > PageLimit)
  <2>1. walk' = [walk EXCEPT ![s] =
                   [conv |-> c, got |-> got \cup {m.seq : m \in page}, owed |-> owed,
                    fetched |-> walk[s].fetched + Cardinality(page),
                    status |-> IF Cardinality(ms) > PageLimit THEN "walking" ELSE "complete"]]
    BY <1>1 DEF ListMessages, listMessages
  <2>2. walk \in [Subjects -> Walk \cup {None}]
    BY DEF TypeOK
  <2> QED BY <2>1, <2>2
<1>4. /\ owed \subseteq {m.seq : m \in MessagesOf(c)}
      /\ walk[s].fetched = Cardinality(got)
      /\ \A n \in owed, k \in got : n >= k => n \in got
  BY <1>1 DEF WalkingInv, ListMessages
<1>5. ms \in SUBSET messages /\ ms \subseteq MessagesOf(c) /\ page \subseteq ms /\ \A m \in messages : m.seq \in Nat
  BY <1>1, ConversationsAssumption DEF MessagesOf, Newest, TypeOK, Message
<1>6. got # {} => /\ Oldest(got) \in got /\ Oldest(got) # None /\ Oldest(got) \in Nat
                  /\ \A k \in got : Oldest(got) <= k
  BY <1>2, OldestIsLeast, ConversationsAssumption
<1>7. got = {} => ms = MessagesOf(c)
  BY <1>1 DEF Oldest
\* The page is older than all there was.
<1>8. {m.seq : m \in page} \cap got = {}
  <2>1. ASSUME NEW m \in page, m.seq \in got PROVE FALSE
    BY <1>1, <1>2, <1>5, <1>6, <2>1
  <2> QED BY <2>1
<1>9. walk'[s].fetched = Cardinality(walk'[s].got)
  <2>1. IsFiniteSet(got) /\ Cardinality(got) \in Nat
    <3>1. IsFiniteSet(1..MaxMessages)
      BY FS_Interval, ConversationsAssumption
    <3> QED BY <1>2, <3>1, FS_Subset, FS_CardinalityType
  <2>2. IsFiniteSet({m.seq : m \in page}) /\ Cardinality({m.seq : m \in page}) = Cardinality(page)
        /\ Cardinality(page) \in Nat
    BY <1>5, PageSeqs, FS_CardinalityType
  <2>3. Cardinality(got \cup {m.seq : m \in page}) = Cardinality(got) + Cardinality(page)
    <3>1. PICK new : new = {m.seq : m \in page}
      OBVIOUS
    <3>2. got \cap new = {} /\ IsFiniteSet(new) /\ Cardinality(new) = Cardinality(page)
      BY <1>8, <2>2, <3>1
    <3>3. Cardinality(got \cup new) = Cardinality(got) + Cardinality(new) - Cardinality(got \cap new)
      BY <2>1, <3>2, FS_Union
    <3>4. Cardinality(got \cap new) = 0
      BY <3>2, FS_EmptySet
    <3> QED BY <2>1, <2>2, <3>1, <3>2, <3>3, <3>4
  <2> QED BY <1>3, <1>4, <2>3
\* What is owed and not older than the last page's messages is there.
<1>10. ASSUME NEW n \in owed, NEW m \in page, n >= m.seq PROVE n \in got \/ n \in {x.seq : x \in page}
  <2>1. PICK x \in MessagesOf(c) : x.seq = n
    BY <1>4
  <2>2. CASE x \in ms
    BY <1>1, <1>5, <1>10, <2>1, <2>2, NewestUpward, ConversationsAssumption
  <2>3. CASE x \notin ms
    BY <1>1, <1>4, <1>5, <1>6, <1>7, <2>1, <2>3 DEF MessagesOf
  <2> QED BY <2>2, <2>3
<1>11. ASSUME ~(Cardinality(ms) > PageLimit), NEW n \in owed PROVE n \in got \/ n \in {x.seq : x \in page}
  <2>1. PICK x \in MessagesOf(c) : x.seq = n
    BY <1>4
  <2>2. page = ms
    BY <1>1, <1>5, <1>11, NewestAll, ConversationsAssumption
  <2>3. CASE x \in ms
    BY <2>1, <2>2, <2>3
  <2>4. CASE x \notin ms
    BY <1>1, <1>4, <1>5, <1>6, <1>7, <2>1, <2>4 DEF MessagesOf
  <2> QED BY <2>3, <2>4
<1> QED BY <1>3, <1>4, <1>9, <1>10, <1>11

LEMMA WalkingStep ==
    ASSUME TypeOK, TaskInv, SequenceInv, WalkingInv, [Next]_vars
    PROVE  WalkingInv'
<1> DEFINE Good(s) == /\ walk[s].owed \subseteq {m.seq : m \in MessagesOf(walk[s].conv)}
                      /\ walk[s].fetched = Cardinality(walk[s].got)
                      /\ \A n \in walk[s].owed, k \in walk[s].got : n >= k => n \in walk[s].got
                      /\ walk[s].status = "complete" => walk[s].owed \subseteq walk[s].got
<1> SUFFICES ASSUME NEW s \in Subjects, walk'[s] # None PROVE Good(s)'
  BY DEF WalkingInv
<1>1. walk \in [Subjects -> Walk \cup {None}]
  BY DEF TypeOK
<1>k. ASSUME walk'[s] = walk[s] PROVE Good(s)'
  <2>1. Good(s)
    BY <1>k DEF WalkingInv
  <2>2. messages \subseteq messages'
    BY HistoryGrows
  <2>3. {m.seq : m \in MessagesOf(walk[s].conv)} \subseteq {m.seq : m \in {x \in messages' : x.conv = walk[s].conv}}
    BY <2>2 DEF MessagesOf
  <2> QED BY <1>k, <2>1, <2>3 DEF MessagesOf
<1>2. CASE UNCHANGED vars \/ NewService \/ Crash
  BY <1>2, <1>k DEF vars, NewService, Crash
<1>3. ASSUME NEW w \in Workers, WorkerStep(w) PROVE Good(s)'
  BY <1>3, <1>k, HandlerHistory
<1>4. ASSUME NEW t \in Subjects, ClientStep(t) PROVE Good(s)'
  <2>1. messages' = messages
    BY <1>4 DEF ClientStep, StartWalk, ListMessages, ListMessagesUnread, database
  <2>2. CASE t # s
    <3>1. walk'[s] = walk[s]
      BY <1>1, <1>4, <2>2 DEF ClientStep, StartWalk, ListMessages, ListMessagesUnread
    <3> QED BY <1>k, <3>1
  <2>3. ASSUME t = s, NEW i \in ConversationIds, StartWalk(s, i) PROVE Good(s)'
    <3>1. walk'[s] = [conv |-> i, got |-> {}, fetched |-> 0, status |-> "walking",
                      owed |-> {m.seq : m \in MessagesOf(i)}]
      BY <1>1, <2>3 DEF StartWalk
    <3> QED BY <2>1, <3>1, FS_EmptySet DEF MessagesOf
  <2>4. ASSUME t = s, ListMessages(s) PROVE Good(s)'
    <3>1. /\ walk'[s].owed \subseteq {m.seq : m \in MessagesOf(walk'[s].conv)}
          /\ walk'[s].fetched = Cardinality(walk'[s].got)
          /\ \A n \in walk'[s].owed, k \in walk'[s].got : n >= k => n \in walk'[s].got
          /\ walk'[s].status = "complete" => walk'[s].owed \subseteq walk'[s].got
      BY <2>4, ListMessagesWalking
    <3> QED BY <2>1, <3>1 DEF MessagesOf
  <2>5. ASSUME t = s, ListMessagesUnread(s) PROVE Good(s)'
    <3>1. walk[s] \in Walk /\ walk'[s] = [walk[s] EXCEPT !.status = "misread"]
      BY <1>1, <2>5 DEF ListMessagesUnread
    <3>2. /\ walk'[s].conv = walk[s].conv /\ walk'[s].owed = walk[s].owed /\ walk'[s].got = walk[s].got
          /\ walk'[s].fetched = walk[s].fetched /\ walk'[s].status = "misread"
      BY <3>1 DEF Walk
    <3>3. Good(s)
      BY <2>5 DEF WalkingInv, ListMessagesUnread
    <3> QED BY <2>1, <3>2, <3>3 DEF MessagesOf
  <2> QED BY <1>4, <2>2, <2>3, <2>4, <2>5 DEF ClientStep
<1> QED BY <1>2, <1>3, <1>4 DEF Next, WorkerStep, ClientStep

--------------------------------------------------------------------------------
(* The theorems.                                                            *)

LEMMA InitInv == Init => IInv
<1> SUFFICES ASSUME Init PROVE IInv
  OBVIOUS
<1> USE DEF Init, PermissionsInit, GrantsInit
<1>1. PermissionsTypeOK /\ TasksTypeOK
  BY DEF PermissionsTypeOK, GrantsTypeOK, TasksTypeOK, Step, Creating, Sending
<1>2. DataTypeOK
  BY ConversationsAssumption DEF DataTypeOK
<1>3. TypeOK
  BY <1>1, <1>2, TypeParts
<1>4. TaskInv /\ PairInv /\ OwnerInv
  BY DEF TaskInv, Serving, PairInv, OwnerInv, Creating, Sending
<1>5. GrantingInv /\ RevokingInv /\ AccessInv
  BY DEF GrantingInv, RevokingInv, AccessInv, ToldInv, DoneInv, Secured, Runs
<1>6. SequenceInv /\ WalkingInv
  BY FS_EmptySet DEF SequenceInv, WalkingInv
<1> QED BY <1>3, <1>4, <1>5, <1>6 DEF IInv

LEMMA NextInv == IInv /\ [Next]_vars => IInv'
<1> SUFFICES ASSUME IInv, [Next]_vars PROVE IInv'
  OBVIOUS
<1>1. TypeOK /\ TaskInv /\ PairInv /\ OwnerInv /\ GrantingInv /\ RevokingInv /\ AccessInv /\ SequenceInv /\ WalkingInv
  BY DEF IInv
<1>2. TypeOK'
  BY <1>1, TypeStep
<1>3. TaskInv' /\ PairInv' /\ OwnerInv'
  BY <1>1, <1>2, TaskInvStep, PairStep, OwnerStep
<1>4. GrantingInv' /\ RevokingInv' /\ AccessInv'
  BY <1>1, <1>2, GrantingStep, RevokingStep, AccessStep
<1>5. SequenceInv' /\ WalkingInv'
  BY <1>1, <1>2, SequenceStep, WalkingStep
<1> QED BY <1>2, <1>3, <1>4, <1>5 DEF IInv

LEMMA InductiveInvariant == Spec => []IInv
BY InitInv, NextInv, PTL DEF Spec

\* Every variable keeps its type, each request and the call it waits for included.
THEOREM TypeCorrect == Spec => []TypeOK
<1>1. IInv => TypeOK
  BY DEF IInv
<1> QED BY <1>1, InductiveInvariant, PTL

\* However many handlers, direct requests and failures interleave: access to a
\* conversation is first conferred by a participant, or by who had been given it.
THEOREM ParticipantsConfer == Spec => AccessTracesToMember
<1> DEFINE Traced == \A g \in conferred' \ conferred :
                        \/ pairOf[g.resource] # None /\ g.grantor \in pairOf[g.resource]
                        \/ \E h \in conferred :
                              /\ h.subject = g.grantor /\ h.action = g.action /\ h.resource = g.resource
                              /\ scopeAtLeast(h.scope, g.scope)
<1>1. IInv /\ [Next]_vars => [Traced]_vars
  BY ConferredStep DEF IInv, MayConfer, Member
<1>2. Spec => [][Traced]_vars
  BY <1>1, InductiveInvariant, PTL DEF Spec
<1> QED BY <1>2 DEF AccessTracesToMember

\* A grant is lost only to a revocation by who had a right to the grant that stood in its
\* place when it was allowed: the owner of the resource, that grant's grantor or its subject.
THEOREM RightsRevoke == Spec => RevokedByRight
<1> DEFINE ByRight == \A g \in grants \ grants' :
                        \/ \E h \in grants' : SameKey(g, h)
                        \/ \E w \in Workers :
                              /\ Runs(w, "revoke") /\ existing[w] # None /\ SameKey(existing[w], g)
                              /\ authorizeRevoke(call[w].grant.grantor, existing[w])
<1>1. IInv /\ [Next]_vars => [ByRight]_permissionsVars
  <2> SUFFICES ASSUME IInv, [Next]_vars PROVE ByRight
    OBVIOUS
  <2> QED BY RevokedStep DEF IInv
<1>2. Spec => [][ByRight]_permissionsVars
  BY <1>1, InductiveInvariant, PTL DEF Spec
<1> QED BY <1>2 DEF RevokedByRight

\* Both participants of a conversation that CreateConversation has returned can open
\* it, rollbacks and revocations apart.
THEOREM ToldIsEnough == Spec => []ToldMeansUsable
<1>1. IInv => ToldMeansUsable
  BY ToldIsUsable DEF IInv
<1> QED BY <1>1, InductiveInvariant, PTL

\* Paging returns every message there was when it began, and none twice.
THEOREM PagingIsComplete == Spec => []WalkLosesNothing
<1>1. IInv => WalkLosesNothing
  BY DEF IInv, WalkingInv, WalkLosesNothing
<1> QED BY <1>1, InductiveInvariant, PTL

================================================================================
