----------------------------- MODULE Conversations -----------------------------
(***************************************************************************)
(* Direct conversations between two subjects and the messages in them      *)
(* (services/api/internal/conversations), together with the Permissions    *)
(* service that decides who may take part: a conversation row and its two  *)
(* grants are written by separate calls, no transaction spans them.        *)
(*                                                                         *)
(* A worker is a goroutine that serves one request after another.  While a *)
(* handler waits for a call of Permissions, the worker's call[w] and       *)
(* step[w] are that call's.  Subjects may also call Permissions themselves *)
(* on a conversation they know (POST /v1/permissions/grants and /revoke).  *)
(* Every HTTP handler first requires the acting subject of the request to  *)
(* be the verified caller, so a request is made by the subject it names.   *)
(***************************************************************************)
EXTENDS Permissions, FiniteSets

CONSTANTS
    Pairs,          \* bound: who may want to talk to whom
    PageLimit,      \* the limit of a ListMessages request
    MaxMessages,    \* bound: values of the messages' sequence
    DirectCalls,    \* bound: calls the subjects may make to Permissions themselves
    MaxRequests,    \* bound: requests the subjects make, a walk counting as one
    MaxFaults       \* bound: reads, writes and audit events that fail, and crashes

ActionAccess == "conversations.access"
ConversationIds == Resources

VARIABLES
    rows,       \* conversations: rows[i] is the pair {participant_lo, participant_hi}, or None
    messages,   \* messages: their seq, conversation and sender
    lastSeq,    \* the last value drawn from the sequence of messages.seq
    task, at,   \* task[w], at[w]: the request w serves and how far it is
    missing,    \* missing[w]: the participants a repair found without access
    walk,       \* walk[s]: what the client of s has fetched of a conversation, or None
    requests,   \* bound: requests so far
    faults,     \* bound: failures so far
    pairOf,     \* history: the pair each conversation_id was inserted for, or None
    told,       \* history: <<s, i>> such that CreateConversation returned i to s
    rolledBack, \* history: conversations deleted by a rollback
    revoked     \* history: <<s, i>> such that a grant of s on i was revoked

database == <<rows, messages, lastSeq>>
handlers == <<task, at, missing>>
bounds == <<requests, faults>>
history == <<pairOf, told, rolledBack, revoked>>
vars == <<permissionsVars, database, handlers, walk, bounds, history>>

Message == [seq : 1..MaxMessages, conv : ConversationIds, sender : Subjects]
Task == [kind : {"create"}, self : Subjects, peer : Subjects, conv : ConversationIds \cup {None}]
        \cup [kind : {"send"}, self : Subjects, conv : ConversationIds, seq : 0..MaxMessages]
Creating == {"finding", "grantSelf", "grantPeer", "rollback",
             "checkSelf", "checkPeer", "repairSelf", "repairPeer"}
Sending == {"authorizing", "inserting", "committing"}
Walk == [conv : ConversationIds, got : SUBSET (1..MaxMessages), owed : SUBSET (1..MaxMessages),
         fetched : Nat, status : {"walking", "complete", "misread"}]

ASSUME ConversationsAssumption ==
    /\ \A p \in Pairs : p \in SUBSET Subjects /\ Cardinality(p) = 2
    /\ "full" \in Scopes /\ ActionAccess \in Actions
    /\ ConversationIds # {} /\ \A i \in ConversationIds : TypeOf[i] = "conversation"
    /\ DirectCalls \subseteq Call
    /\ None \notin Pairs /\ None \notin ConversationIds /\ None \notin Task /\ None \notin Walk
    /\ None \notin Nat
    /\ PageLimit \in Nat \ {0} /\ MaxMessages \in Nat /\ MaxRequests \in Nat /\ MaxFaults \in Nat

TypeOK ==
    /\ PermissionsTypeOK
    /\ rows \in [ConversationIds -> Pairs \cup {None}]
    /\ messages \subseteq Message
    /\ lastSeq \in 0..MaxMessages
    /\ task \in [Workers -> Task \cup {None}]
    /\ at \in [Workers -> {"idle"} \cup Creating \cup Sending]
    /\ missing \in [Workers -> SUBSET Subjects]
    /\ walk \in [Subjects -> Walk \cup {None}]
    /\ requests \in 0..MaxRequests /\ faults \in 0..MaxFaults
    /\ pairOf \in [ConversationIds -> Pairs \cup {None}]
    /\ told \subseteq Subjects \X ConversationIds
    /\ rolledBack \subseteq ConversationIds
    /\ revoked \subseteq Subjects \X ConversationIds
    /\ \A w \in Workers :
          /\ task[w] = None <=> at[w] = "idle"
          /\ at[w] \in Creating => task[w].kind = "create"
          /\ at[w] \in Sending => task[w].kind = "send"

Init ==
    /\ PermissionsInit
    /\ rows = [i \in ConversationIds |-> None]
    /\ messages = {}
    /\ lastSeq = 0
    /\ task = [w \in Workers |-> None]
    /\ at = [w \in Workers |-> "idle"]
    /\ missing = [w \in Workers |-> {}]
    /\ walk = [s \in Subjects |-> None]
    /\ requests = 0
    /\ faults = 0
    /\ pairOf = [i \in ConversationIds |-> None]
    /\ told = {}
    /\ rolledBack = {}
    /\ revoked = {}

--------------------------------------------------------------------------------
(* What the read-only RPCs answer.                                          *)

MayAccess(s, i) == CheckPermission(s, ActionAccess, i)

MessagesOf(i) == {m \in messages : m.conv = i}

\* Only conversations with a message are listed (an inner join).
ListConversations(s) == {i \in ConversationIds : rows[i] # None /\ s \in rows[i] /\ MessagesOf(i) # {}}

GetConversation(s, i) ==
    IF ~MayAccess(s, i) THEN "denied" ELSE IF rows[i] = None THEN "missing" ELSE "found"

\* A conversation_id is random: a subject learns it from CreateConversation,
\* ListConversations or the list of its own grants (GET /v1/permissions/grants/subject).
Knows(s, i) ==
    \/ <<s, i>> \in told
    \/ i \in ListConversations(s)
    \/ \E g \in grantsForSubject(s) : g.resource = i

--------------------------------------------------------------------------------
(* Starting a request, calling Permissions, and ending a request.           *)

NewService ==
    /\ "conversation" \notin policies
    /\ DefinePolicy("conversation")
    /\ UNCHANGED <<database, handlers, walk, bounds, history>>

Free(w) == task[w] = None /\ call[w] = None /\ "conversation" \in policies

Requested == requests < MaxRequests /\ requests' = requests + 1 /\ UNCHANGED faults
Fault == faults < MaxFaults /\ faults' = faults + 1 /\ UNCHANGED requests
NoFault == UNCHANGED bounds

Moves(w, from, to) == at[w] = from /\ at' = [at EXCEPT ![w] = to]

AccessGrant(grantor, subject, i) ==
    [grantor |-> grantor, subject |-> subject, action |-> ActionAccess,
     resource |-> i, scope |-> "full"]

\* The handler calls GrantPermission, at once or when its last call is done.
CallsGrant(w, subject, i) ==
    /\ step[w] \in {"idle", "done"}
    /\ step' = [step EXCEPT ![w] = "called"]
    /\ call' = [call EXCEPT ![w] =
                  [op |-> "grant", grant |-> AccessGrant(task[w].self, subject, i)]]
    /\ existing' = [existing EXCEPT ![w] = None]
    /\ UNCHANGED <<store, ghosts>>

NoCall == UNCHANGED permissionsVars

\* Mutated form of Ends: the call the handler was in goes on without it.
EndsMidCall(w) ==
    /\ task' = [task EXCEPT ![w] = None]
    /\ at' = [at EXCEPT ![w] = "idle"]
    /\ missing' = [missing EXCEPT ![w] = {}]
    /\ call' = [call EXCEPT ![w] = None]
    /\ UNCHANGED <<store, step, existing, ghosts>>

\* The request is over, whether answered or not.
Ends(w) ==
    /\ task' = [task EXCEPT ![w] = None]
    /\ at' = [at EXCEPT ![w] = "idle"]
    /\ missing' = [missing EXCEPT ![w] = {}]
    /\ Forgotten({w})
    /\ UNCHANGED <<store, ghosts>>

\* CreateConversation returns the conversation's id to its caller.
Tells(w) == told' = told \cup {<<task[w].self, task[w].conv>>}

--------------------------------------------------------------------------------
(* CreateConversation of a new conversation.                                *)

CreateConversation(w, self, peer) ==
    /\ Free(w) /\ Requested
    /\ {self, peer} \in Pairs
    /\ Moves(w, "idle", "finding")
    /\ task' = [task EXCEPT ![w] = [kind |-> "create", self |-> self, peer |-> peer, conv |-> None]]
    /\ NoCall /\ UNCHANGED <<database, missing, walk, history>>

RowOf(pair) == {i \in ConversationIds : rows[i] = pair}

\* One statement: insert under a fresh id, or find the row of the pair.
findOrCreateConversation(w) ==
    LET pair == {task[w].self, task[w].peer}
    IN  \/ \E i \in RowOf(pair) :
              /\ Moves(w, "finding", "checkSelf")
              /\ task' = [task EXCEPT ![w].conv = i]
              /\ NoCall /\ UNCHANGED <<rows, pairOf>>
        \/ \E i \in ConversationIds :
              /\ RowOf(pair) = {} /\ pairOf[i] = None
              /\ Moves(w, "finding", "grantSelf")
              /\ task' = [task EXCEPT ![w].conv = i]
              /\ rows' = [rows EXCEPT ![i] = pair]
              /\ pairOf' = [pairOf EXCEPT ![i] = pair]
              /\ CallsGrant(w, task[w].self, i)

FindOrCreate(w) ==
    /\ at[w] = "finding"
    /\ findOrCreateConversation(w)
    /\ UNCHANGED <<messages, lastSeq, missing, walk, bounds, told, rolledBack, revoked>>

GrantParticipant(w) ==
    /\ step[w] = "done"
    /\ Moves(w, "grantSelf", "grantPeer")
    /\ CallsGrant(w, task[w].peer, task[w].conv)
    /\ UNCHANGED <<database, task, missing, walk, bounds, history>>

EmitCreated(w) ==
    /\ at[w] = "grantPeer" /\ step[w] = "done"
    /\ \/ Ends(w) /\ Tells(w) /\ NoFault
       \/ /\ Moves(w, "grantPeer", "rollback") /\ Fault
          /\ NoCall /\ UNCHANGED <<task, missing, told>>
    /\ UNCHANGED <<database, walk, pairOf, rolledBack, revoked>>

GrantFails(w) ==
    /\ step[w] \in {"denied", "unaudited"}
    /\ \E from \in {"grantSelf", "grantPeer"} : Moves(w, from, "rollback")
    /\ NoCall /\ UNCHANGED <<database, task, missing, walk, bounds, history>>

\* rollback deletes the row, never the grants; messages hold on to their row.
deleteConversationRecord(w) ==
    /\ at[w] = "rollback"
    /\ MessagesOf(task[w].conv) = {}
    /\ rows' = [rows EXCEPT ![task[w].conv] = None]
    /\ rolledBack' = rolledBack \cup {task[w].conv}
    /\ Ends(w)
    /\ UNCHANGED <<messages, lastSeq, walk, bounds, pairOf, told, revoked>>

--------------------------------------------------------------------------------
(* CreateConversation of a pair that has one: repairMissingBootstrapGrants. *)

\* A check that cannot read the store takes the access for missing.
Checked(w, s) ==
    \/ MayAccess(s, task[w].conv) /\ UNCHANGED missing /\ NoFault
    \/ /\ missing' = [missing EXCEPT ![w] = @ \cup {s}]
       /\ IF MayAccess(s, task[w].conv) THEN Fault ELSE NoFault

CheckCreator(w) ==
    /\ Moves(w, "checkSelf", "checkPeer")
    /\ Checked(w, task[w].self)
    /\ NoCall /\ UNCHANGED <<database, task, walk, history>>

\* Mutated form of CheckParticipant: the other participant is taken to have access.
CheckParticipantNot(w) ==
    /\ at[w] = "checkPeer"
    /\ \/ missing[w] = {} /\ Ends(w) /\ Tells(w)
       \/ /\ missing[w] # {}
          /\ Moves(w, "checkPeer", "repairSelf")
          /\ CallsGrant(w, task[w].self, task[w].conv)
          /\ UNCHANGED <<task, missing, told>>
    /\ UNCHANGED <<database, walk, bounds, pairOf, rolledBack, revoked>>

\* Then it grants what is missing, the creator's own access first.
CheckParticipant(w) ==
    /\ at[w] = "checkPeer"
    /\ \/ /\ missing[w] = {} /\ MayAccess(task[w].peer, task[w].conv)
          /\ Ends(w) /\ Tells(w) /\ NoFault
       \/ /\ Checked(w, task[w].peer)
          /\ missing'[w] # {}
          /\ LET first == IF task[w].self \in missing[w] THEN "self" ELSE "peer"
             IN  /\ Moves(w, "checkPeer", IF first = "self" THEN "repairSelf" ELSE "repairPeer")
                 /\ CallsGrant(w, task[w][first], task[w].conv)
          /\ UNCHANGED <<task, told>>
    /\ UNCHANGED <<database, walk, pairOf, rolledBack, revoked>>

RepairParticipant(w) ==
    /\ step[w] = "done"
    /\ Moves(w, "repairSelf", "repairPeer")
    /\ task[w].peer \in missing[w]
    /\ CallsGrant(w, task[w].peer, task[w].conv)
    /\ UNCHANGED <<database, task, missing, walk, bounds, history>>

EmitRepaired(w) ==
    /\ step[w] = "done"
    /\ \/ at[w] = "repairSelf" /\ task[w].peer \notin missing[w]
       \/ at[w] = "repairPeer"
    /\ Ends(w)
    /\ \/ Tells(w) /\ NoFault
       \/ UNCHANGED told /\ Fault
    /\ UNCHANGED <<database, walk, pairOf, rolledBack, revoked>>

RepairFails(w) ==
    /\ at[w] \in {"repairSelf", "repairPeer"} /\ step[w] \in {"denied", "unaudited"}
    /\ Ends(w)
    /\ UNCHANGED <<database, walk, bounds, history>>

--------------------------------------------------------------------------------
(* SendMessage.                                                             *)

SendMessage(w, s, i) ==
    /\ Free(w) /\ Requested
    /\ Knows(s, i)
    /\ Moves(w, "idle", "authorizing")
    /\ task' = [task EXCEPT ![w] = [kind |-> "send", self |-> s, conv |-> i, seq |-> 0]]
    /\ NoCall /\ UNCHANGED <<database, missing, walk, history>>

checkAccess(w) ==
    /\ at[w] = "authorizing"
    /\ \/ /\ MayAccess(task[w].self, task[w].conv)
          /\ Moves(w, "authorizing", "inserting")
          /\ NoCall /\ NoFault /\ UNCHANGED <<task, missing>>
       \/ Ends(w) /\ IF MayAccess(task[w].self, task[w].conv) THEN Fault ELSE NoFault
    /\ UNCHANGED <<database, walk, history>>

\* The insert draws a number first and is visible when it commits: two inserts
\* may commit in either order.
DrawSeq(w) ==
    /\ Moves(w, "inserting", "committing")
    /\ lastSeq < MaxMessages
    /\ lastSeq' = lastSeq + 1
    /\ task' = [task EXCEPT ![w].seq = lastSeq + 1]
    /\ NoCall /\ UNCHANGED <<rows, messages, missing, walk, bounds, history>>

\* A message needs the row of its conversation (a foreign key).
addMessage(w) ==
    /\ at[w] = "committing"
    /\ rows[task[w].conv] # None
    /\ messages' = messages \cup
          {[seq |-> task[w].seq, conv |-> task[w].conv, sender |-> task[w].self]}
    /\ Ends(w)
    /\ UNCHANGED <<rows, lastSeq, walk, bounds, history>>

--------------------------------------------------------------------------------
(* ListMessages: a client walks from the newest page to the oldest.         *)

\* The newest `limit` messages of a set, and whether there are older ones.
Newest(ms, limit) == {m \in ms : Cardinality({n \in ms : n.seq > m.seq}) < limit}

\* Mutated form of listMessages: a full page is not asked for one message more.
listFullPages(i, before, limit) ==
    LET candidates == {m \in MessagesOf(i) : before = None \/ m.seq < before}
        page == Newest(candidates, limit)
    IN  [page |-> page, hasMore |-> Cardinality(page) > limit]

listMessages(i, before, limit) ==
    LET candidates == {m \in MessagesOf(i) : before = None \/ m.seq < before}
    IN  [page |-> Newest(candidates, limit),
         hasMore |-> Cardinality(candidates) > limit]

\* before is the seq of before_message_id, the oldest message fetched so far.
StartWalk(s, i) ==
    /\ walk[s] = None /\ Requested
    /\ Knows(s, i)
    /\ walk' = [walk EXCEPT ![s] = [conv |-> i, got |-> {}, fetched |-> 0, status |-> "walking",
                                    owed |-> {m.seq : m \in MessagesOf(i)}]]
    /\ NoCall /\ UNCHANGED <<database, handlers, history>>

Oldest(seqs) == IF seqs = {} THEN None ELSE CHOOSE n \in seqs : \A k \in seqs : n <= k

ListMessages(s) ==
    /\ walk[s] # None /\ walk[s].status = "walking"
    /\ MayAccess(s, walk[s].conv)
    /\ LET answer == listMessages(walk[s].conv, Oldest(walk[s].got), PageLimit)
       IN  walk' = [walk EXCEPT ![s] =
                      [conv |-> @.conv, got |-> @.got \cup {m.seq : m \in answer.page}, owed |-> @.owed,
                       fetched |-> @.fetched + Cardinality(answer.page),
                       status |-> IF answer.hasMore THEN "walking" ELSE "complete"]]
    /\ NoCall /\ UNCHANGED <<database, handlers, bounds, history>>

\* A query that fails is answered like an empty conversation: no messages, no more.
ListMessagesUnread(s) ==
    /\ walk[s] # None /\ walk[s].status = "walking"
    /\ MayAccess(s, walk[s].conv)
    /\ walk' = [walk EXCEPT ![s].status = "misread"]
    /\ Fault /\ NoCall /\ UNCHANGED <<database, handlers, history>>

--------------------------------------------------------------------------------
(* Permissions: its own steps, and requests made to it directly.            *)

\* The steps of the call that w runs; a revocation is noted for the properties.
PermissionStep(w) ==
    /\ \/ Permission(w) /\ NoFault
       \/ PermissionFails(w) /\ Fault
    /\ revoked' = revoked \cup {<<g.subject, g.resource>> : g \in {h \in grants :
                                   \A k \in grants' : ~SameKey(h, k)}}
    /\ UNCHANGED <<database, handlers, walk, pairOf, told, rolledBack>>

\* handleGrantPermission, handleRevokePermission: the grantor is the caller.
DirectCall(w, c) ==
    /\ Free(w) /\ Requested
    /\ Knows(c.grant.grantor, c.grant.resource)
    /\ Invoke(w, c)
    /\ UNCHANGED <<database, handlers, walk, history>>

DirectReturn(w) ==
    /\ task[w] = None /\ Return(w)
    /\ UNCHANGED <<database, handlers, walk, bounds, history>>

--------------------------------------------------------------------------------
(* Failures.                                                                *)

\* A write fails, here or in Permissions: the panic ends the request, and the
\* handler rolls nothing back.
Panic(w) ==
    /\ \/ task[w] # None /\ step[w] = "panicked" /\ NoFault
       \/ at[w] \in {"finding", "rollback", "inserting", "committing"} /\ Fault
       \/ at[w] = "rollback" /\ MessagesOf(task[w].conv) # {} /\ NoFault
       \/ at[w] = "committing" /\ rows[task[w].conv] = None /\ NoFault
    /\ Ends(w)
    /\ UNCHANGED <<database, walk, history>>

Crash ==
    /\ Fault
    /\ Restart
    /\ task' = [w \in Workers |-> None]
    /\ at' = [w \in Workers |-> "idle"]
    /\ missing' = [w \in Workers |-> {}]
    /\ UNCHANGED <<database, walk, history>>

--------------------------------------------------------------------------------

Create(w) ==
    \/ FindOrCreate(w) \/ GrantParticipant(w) \/ EmitCreated(w) \/ GrantFails(w)
    \/ deleteConversationRecord(w)
    \/ CheckCreator(w) \/ CheckParticipant(w) \/ RepairParticipant(w)
    \/ EmitRepaired(w) \/ RepairFails(w)

Next ==
    \/ NewService
    \/ \E w \in Workers :
          \/ \E s, t \in Subjects : CreateConversation(w, s, t)
          \/ Create(w)
          \/ \E s \in Subjects, i \in ConversationIds : SendMessage(w, s, i)
          \/ checkAccess(w) \/ DrawSeq(w) \/ addMessage(w)
          \/ PermissionStep(w)
          \/ \E c \in DirectCalls : DirectCall(w, c)
          \/ DirectReturn(w) \/ Panic(w)
    \/ \E s \in Subjects, i \in ConversationIds : StartWalk(s, i)
    \/ \E s \in Subjects : ListMessages(s) \/ ListMessagesUnread(s)
    \/ Crash

Spec == Init /\ [][Next]_vars

--------------------------------------------------------------------------------
(* What can go wrong.                                                       *)

\* A grant on a conversation is first stored in the name of one of the two
\* participants, or of somebody who had been given access before in a scope at
\* least as wide.
AccessTracesToMember ==
    [][\A g \in conferred' \ conferred :
          \/ pairOf[g.resource] # None /\ g.grantor \in pairOf[g.resource]
          \/ \E h \in conferred :
                /\ h.subject = g.grantor /\ h.action = g.action /\ h.resource = g.resource
                /\ scopeAtLeast(h.scope, g.scope)
      ]_vars

\* A conversation that CreateConversation has returned can be opened by both its
\* participants -- until somebody's access is revoked, and unless the handler
\* that had inserted the row rolled it back while another returned it.
ToldMeansUsable ==
    \A p \in told : p[2] \notin rolledBack =>
       \A s \in pairOf[p[2]] : GetConversation(s, p[2]) = "found" \/ <<s, p[2]>> \in revoked

\* A walk to the last page has returned every message there was when it began,
\* whatever is sent meanwhile, and none twice -- unless a query failed on the way.
WalkLosesNothing ==
    \A s \in Subjects : walk[s] # None =>
       /\ walk[s].status = "complete" => walk[s].owed \subseteq walk[s].got
       /\ walk[s].fetched = Cardinality(walk[s].got)

================================================================================
