------------------------------- MODULE Messaging -------------------------------
(***************************************************************************)
(* The mobile client's messaging: features/conversations/session.ts with   *)
(* the session map, the local history and the prekey lifecycle it keeps,   *)
(* over the sessions and prekeys of capabilities/crypto.  Two participants *)
(* with one device each talk in one conversation.                          *)
(*                                                                         *)
(* A task is one asynchronous call under way on a device: a sendMessage, a *)
(* syncThreadHistory or an ensureOwnPrekeyIdentity.  JavaScript runs one   *)
(* piece of code at a time, so an action is what happens between two       *)
(* awaits; leaving a screen does not cancel its tasks.  The secure store   *)
(* outlives the process, tasks and locks do not.                           *)
(*                                                                         *)
(* A message key is <<secret, sender, position>>: the two chains of a      *)
(* session are derived per direction and move by one key a message.  A     *)
(* ciphertext opens under the key it was made with and no other, and holds *)
(* no position a receiver would go by.                                     *)
(***************************************************************************)
EXTENDS Naturals, Sequences, FiniteSets

CONSTANTS
    Participants,
    Tasks,          \* bound: calls under way at one time
    None,
    MaxTasks,       \* bound: calls that are made
    MaxMessages,    \* bound: messages the server accepts
    MaxHandshakes,  \* bound: session establishments
    MaxBundles,     \* bound: prekey bundles the devices generate
    PageLimit,      \* PAGE_LIMIT: messages in a page of the list
    MaxPages,       \* MAX_PAGES: pages a walk through the list reads at most
    MaxFaults       \* bound: calls of the network or the secure store that fail, and restarts

\* The secure store of the devices.
VARIABLES
    ratchet,        \* crypto's sessions by handle: owner, secret, and both chains' positions
    cached,         \* cached[p]: the handle the session map holds, or 0
    rows,           \* rows[p]: local history, message ids with plaintext and without
    ownPrekeys,     \* ownPrekeys[p]: is the own prekey identity saved?
    signedPrekeys, oneTimePrekeys \* the private halves p holds, by bundle

\* The server.
VARIABLES
    published,      \* published[p]: the bundle of p's signed prekey, or 0
    pool,           \* pool[p]: p's unclaimed one-time prekeys
    created,        \* does the conversation exist?
    messages,       \* its messages in the order of seq; a message's id is its index
    hidden          \* those whose insert has not committed, or never will

\* The processes, and history.
VARIABLES
    task,           \* task[t]: a call under way, or None
    tasks, faults,  \* bounds: so far
    generated,      \* generated[p]: bundles generated so far
    handshakes,     \* who initiated secret s, with which prekeys (0: no one-time prekey)
    encrypted,      \* history: message keys used
    reused,         \* history: message keys used twice
    consumed,       \* history: <<p, n, s>>: p consumed prekey n to complete secret s
    spoiled         \* history: <<p, q, i>>: something known to disturb befell p before it
                    \* recorded message i of sender q

device == <<ratchet, cached, rows, ownPrekeys, signedPrekeys, oneTimePrekeys>>
server == <<published, pool, created, messages, hidden>>
history == <<generated, handshakes, encrypted, reused, consumed, spoiled>>
vars == <<device, server, task, tasks, faults, history>>

ASSUME MessagingAssumption ==
    /\ IsFiniteSet(Participants) /\ Cardinality(Participants) = 2
    /\ None \notin Participants
    /\ {MaxTasks, MaxMessages, MaxHandshakes, MaxBundles, MaxFaults} \subseteq Nat
    /\ MaxBundles # 0 /\ {PageLimit, MaxPages} \subseteq Nat

Peer(p) == CHOOSE q \in Participants : q # p

Ids == 1..MaxMessages
Secrets == 1..MaxHandshakes
Bundles == 1..MaxBundles
Handles == DOMAIN ratchet
Session == [owner : Participants, secret : Secrets, sent : Nat, received : Nat]
Handshake == [by : Participants, signed : Bundles, oneTime : {0} \cup Bundles]
Key == Secrets \X Participants \X Nat
Message == [key : Key, payload : BOOLEAN]
Rows == [plain : SUBSET Ids, gaps : SUBSET Ids]
NoRows == [plain |-> {}, gaps |-> {}]

Ensuring == {"ensuring", "publishing", "saving"}
Sending == {"fetching", "deriving", "encrypting", "advancing", "creating", "delivering"}
Syncing == {"listing", "working", "completing", "consuming", "registering", "decrypting", "opening"}
Recording == {"remembering", "recording", "storing"}
Holding == {"encrypting", "advancing", "creating", "delivering", "remembering",
            "decrypting", "opening"}  \* where a task has a session in hand

\* bundle: own prekeys being published; secret: the handshake under way; fresh: was
\* the session established for this message?  position, opposite and base: what was
\* read under a lock, of the chain to be advanced, of the other one, and of the
\* history; id: the message in hand; known, listed and found: a sync's knownIds, raw
\* and newRows.
Task == [dev : Participants, kind : {"ensure", "send", "sync"},
         at : Ensuring \cup Sending \cup Syncing \cup Recording,
         conv : BOOLEAN, handle : Nat, bundle : 0..MaxBundles, secret : 0..MaxHandshakes,
         fresh : BOOLEAN, position : Nat, opposite : Nat, base : Rows, id : 0..MaxMessages,
         known : SUBSET Ids, listed : SUBSET Ids, found : Rows]

ASSUME TaskAssumption == None \notin Task

TypeOK ==
    /\ ratchet \in Seq(Session)
    /\ cached \in [Participants -> {0} \cup Handles]
    /\ rows \in [Participants -> Rows]
    /\ \A p \in Participants : rows[p].plain \cap rows[p].gaps = {}
    /\ ownPrekeys \in [Participants -> BOOLEAN]
    /\ signedPrekeys \in [Participants -> SUBSET Bundles]
    /\ oneTimePrekeys \in [Participants -> SUBSET Bundles]
    /\ published \in [Participants -> {0} \cup Bundles]
    /\ pool \in [Participants -> SUBSET Bundles]
    /\ created \in BOOLEAN
    /\ messages \in Seq(Message) /\ Len(messages) <= MaxMessages
    /\ hidden \subseteq Ids
    /\ task \in [Tasks -> Task \cup {None}]
    /\ tasks \in 0..MaxTasks /\ faults \in 0..MaxFaults
    /\ generated \in [Participants -> {0} \cup Bundles]
    /\ handshakes \in Seq(Handshake) /\ Len(handshakes) <= MaxHandshakes
    /\ encrypted \subseteq Key /\ reused \subseteq encrypted
    /\ consumed \subseteq Participants \X Bundles \X Secrets
    /\ spoiled \subseteq Participants \X Participants \X Ids
    /\ \A t \in Tasks : task[t] # None =>
          /\ task[t].handle \in {0} \cup Handles
          /\ task[t].at \in Holding =>
                task[t].handle \in Handles /\ ratchet[task[t].handle].owner = task[t].dev

\* A device may have published its prekeys before, and others may have claimed them.
Init ==
    /\ ratchet = << >> /\ messages = << >> /\ handshakes = << >>
    /\ cached = [p \in Participants |-> 0]
    /\ rows = [p \in Participants |-> NoRows]
    /\ ownPrekeys \in [Participants -> BOOLEAN]
    /\ generated = [p \in Participants |-> IF ownPrekeys[p] THEN 1 ELSE 0]
    /\ published = generated
    /\ signedPrekeys = [p \in Participants |-> 1..generated[p]]
    /\ pool \in {f \in [Participants -> SUBSET {1}] : \A p \in Participants : f[p] \subseteq 1..generated[p]}
    /\ oneTimePrekeys = pool
    /\ created = FALSE /\ hidden = {}
    /\ task = [t \in Tasks |-> None]
    /\ tasks = 0 /\ faults = 0
    /\ encrypted = {} /\ reused = {} /\ consumed = {} /\ spoiled = {}

--------------------------------------------------------------------------------
(* Tasks, locks and what goes wrong.                                        *)

At(t, stage) == task[t] # None /\ task[t].at = stage
Dev(t) == task[t].dev

Goes(t, r) == task' = [task EXCEPT ![t] = r]
Moves(t, stage) == Goes(t, [task[t] EXCEPT !.at = stage])
Ends(t) == Goes(t, None)

Fault == faults < MaxFaults /\ faults' = faults + 1

Known(p) == rows[p].plain \cup rows[p].gaps

Begins(t, p, kind, stage, conv, handle, known) ==
    /\ task[t] = None /\ tasks < MaxTasks
    /\ tasks' = tasks + 1
    /\ Goes(t, [dev |-> p, kind |-> kind, at |-> stage, conv |-> conv, handle |-> handle,
                bundle |-> 0, secret |-> 0, fresh |-> FALSE, position |-> 0, opposite |-> 0,
                base |-> NoRows, id |-> 0, known |-> known, listed |-> {}, found |-> NoRows])

\* Mutated form of HistoryFree: appendRows takes no lock.
HistoryUnlocked(p) == TRUE

\* withKeyLock, withRatchetSessionLock and withOneTimePrekeyLock: the stage between
\* the read and the write of a section is reached by one task per key at a time.
HistoryFree(p) == \A u \in Tasks : At(u, "storing") => Dev(u) # p
PrekeyFree(p, n) == \A u \in Tasks :
    At(u, "consuming") => Dev(u) # p \/ handshakes[task[u].secret].oneTime # n

\* Mutated form of RatchetFree: encryptMessage and decryptMessage take no lock.
RatchetUnlocked(h) == TRUE

RatchetFree(h) == \A u \in Tasks : At(u, "advancing") \/ At(u, "opening") => task[u].handle # h

\* Ghost: p may never read q's messages from i on, or the one message i.
From(p, q, i) == {p} \X {q} \X (i..MaxMessages)
Only(p, q, S) == {p} \X {q} \X S

--------------------------------------------------------------------------------
(* ensureOwnPrekeyIdentity, by itself when the list opens, or for a send.   *)

\* A call that finds them saved changes nothing and is left out.
StartEnsure(t, p) ==
    /\ ownPrekeys[p] => faults < MaxFaults
    /\ Begins(t, p, "ensure", "ensuring", FALSE, 0, {})
    /\ UNCHANGED <<device, server, faults, history>>

Ensured(t) == IF task[t].kind = "send" THEN Moves(t, "deriving") ELSE Ends(t)

AlreadyPublished(t) ==
    /\ At(t, "ensuring") /\ ownPrekeys[Dev(t)]
    /\ Ensured(t)
    /\ UNCHANGED <<device, server, tasks, faults, history>>

\* generatePrekeyBundle: the private halves are stored before anything is published.
\* A failed read of the own prekey identity is taken for there being none.
GeneratePrekeyBundle(t) ==
    LET p == Dev(t)
        n == generated[p] + 1
    IN  /\ At(t, "ensuring") /\ n + generated[Peer(p)] \in Bundles
        /\ IF ownPrekeys[p] THEN Fault ELSE UNCHANGED faults
        /\ generated' = [generated EXCEPT ![p] = n]
        /\ signedPrekeys' = [signedPrekeys EXCEPT ![p] = @ \cup {n}]
        /\ oneTimePrekeys' = [oneTimePrekeys EXCEPT ![p] = @ \cup {n}]
        /\ Goes(t, [task[t] EXCEPT !.at = "publishing", !.bundle = n])
        /\ UNCHANGED <<ratchet, cached, rows, ownPrekeys, server, tasks,
                       handshakes, encrypted, reused, consumed, spoiled>>

\* Identity replaces the signed prekey and adds to the pool, in one transaction.
PublishPrekeyBundle(t) ==
    /\ At(t, "publishing")
    /\ published' = [published EXCEPT ![Dev(t)] = task[t].bundle]
    /\ pool' = [pool EXCEPT ![Dev(t)] = @ \cup {task[t].bundle}]
    /\ \/ Moves(t, "saving") /\ UNCHANGED faults
       \/ Ends(t) /\ Fault  \* the answer is lost
    /\ UNCHANGED <<device, created, messages, hidden, tasks, history>>

SaveOwnPrekeyIdentity(t) ==
    /\ At(t, "saving")
    /\ ownPrekeys' = [ownPrekeys EXCEPT ![Dev(t)] = TRUE]
    /\ Ensured(t)
    /\ UNCHANGED <<ratchet, cached, rows, signedPrekeys, oneTimePrekeys, server, tasks, faults, history>>

--------------------------------------------------------------------------------
(* sendMessage.                                                             *)

\* loadSessionMap takes a failed read for an empty map.
GetCachedSessionHandle(p, h) ==
    \/ h = cached[p] /\ UNCHANGED faults
    \/ h = 0 /\ cached[p] # 0 /\ Fault

\* The cached session is looked up only if the thread was opened with a
\* conversationId; it may be opened without one though the conversation exists.
StartSend(t, p, conv) ==
    /\ conv => created
    /\ \E h \in {0, cached[p]} :
          /\ IF conv THEN GetCachedSessionHandle(p, h) ELSE h = 0 /\ UNCHANGED faults
          /\ Begins(t, p, "send", IF h = 0 THEN "fetching" ELSE "encrypting", conv, h, {})
    /\ UNCHANGED <<device, server, history>>

Fetchers(p) == {u \in Tasks : At(u, "fetching") /\ Dev(u) # p}

\* Mutated form of Claim: the prekey is read and stays in the pool.
ClaimUndeleted(p, n) ==
    /\ IF n = 0 THEN Cardinality(pool[p]) < Cardinality(Fetchers(p)) ELSE n \in pool[p]
    /\ UNCHANGED pool

\* FetchPrekeyBundle claims a one-time prekey, if one is left that no other claim
\* under way has locked (each locks one).
Claim(p, n) ==
    IF n = 0 THEN Cardinality(pool[p]) < Cardinality(Fetchers(p)) /\ UNCHANGED pool
    ELSE n \in pool[p] /\ pool' = [pool EXCEPT ![p] = @ \ {n}]

FetchPrekeyBundle(t) ==
    LET q == Peer(Dev(t))
    IN  /\ At(t, "fetching") /\ published[q] # 0
        /\ \E n \in {0} \cup Bundles :
              /\ Claim(q, n)
              /\ \/ /\ Len(handshakes) < MaxHandshakes
                    /\ handshakes' = Append(handshakes,
                          [by |-> Dev(t), signed |-> published[q], oneTime |-> n])
                    /\ Goes(t, [task[t] EXCEPT !.at = "ensuring", !.secret = Len(handshakes) + 1])
                    /\ UNCHANGED faults
                 \/ Ends(t) /\ Fault /\ UNCHANGED handshakes
        /\ UNCHANGED <<device, published, created, messages, hidden, tasks,
                       generated, encrypted, reused, consumed, spoiled>>

\* RecipientNotSetUpError.
RecipientNotSetUp(t) ==
    /\ At(t, "fetching") /\ published[Peer(Dev(t))] = 0
    /\ Ends(t)
    /\ UNCHANGED <<device, server, tasks, faults, history>>

\* registerRatchetSession, for either side of the handshake.
RegisterSession(t, stage) ==
    /\ ratchet' = Append(ratchet,
          [owner |-> Dev(t), secret |-> task[t].secret, sent |-> 0, received |-> 0])
    /\ Goes(t, [task[t] EXCEPT !.at = stage, !.handle = Len(ratchet) + 1, !.fresh = TRUE])
    /\ UNCHANGED <<cached, rows, ownPrekeys, signedPrekeys, oneTimePrekeys, server, tasks, faults, history>>

DeriveSharedSecret(t) == At(t, "deriving") /\ RegisterSession(t, "encrypting")

\* encryptMessage: the record of the session is read, and written back with the
\* sending chain advanced, under the session's lock.
ReadSendingChain(t) ==
    LET r == ratchet[task[t].handle]
    IN  /\ At(t, "encrypting") /\ RatchetFree(task[t].handle)
        /\ Goes(t, [task[t] EXCEPT !.at = "advancing", !.position = r.sent, !.opposite = r.received])
        /\ UNCHANGED <<device, server, tasks, faults, history>>

\* The session's record, with both chains.
Written(r, sent, received) == [r EXCEPT !.sent = sent, !.received = received]

MessageKey(t) == <<ratchet[task[t].handle].secret, Dev(t), task[t].position>>

AdvanceSendingChain(t) ==
    /\ At(t, "advancing")
    /\ ratchet' = [ratchet EXCEPT ![task[t].handle] = Written(@, task[t].position + 1, task[t].opposite)]
    /\ encrypted' = encrypted \cup {MessageKey(t)}
    /\ reused' = reused \cup (encrypted \cap {MessageKey(t)})
    /\ Moves(t, IF task[t].conv THEN "delivering" ELSE "creating")
    /\ UNCHANGED <<cached, rows, ownPrekeys, signedPrekeys, oneTimePrekeys, server, tasks, faults,
                   generated, handshakes, consumed, spoiled>>

\* Conversations finds or inserts the pair's conversation.
CreateConversation(t) ==
    /\ At(t, "creating")
    /\ created' = TRUE
    /\ \/ Moves(t, "delivering") /\ UNCHANGED faults
       \/ Ends(t) /\ Fault
    /\ UNCHANGED <<device, published, pool, messages, hidden, tasks, history>>

\* The server inserts the message: its place in the list is drawn, and it can be
\* read once the insert has committed, which one of a later place may do first.  If
\* the answer is lost, so is the own row, and with a new session the handle the
\* peer's answers need.
DeliverMessage(t) ==
    LET p == Dev(t)
        i == Len(messages) + 1
    IN  /\ At(t, "delivering") /\ i \in Ids
        /\ messages' = Append(messages, [key |-> MessageKey(t), payload |-> task[t].fresh])
        /\ hidden' = hidden \cup {i}
        /\ \/ /\ Goes(t, [task[t] EXCEPT !.at = "remembering", !.id = i,
                                          !.found = [NoRows EXCEPT !.plain = {i}]])
              /\ UNCHANGED <<faults, spoiled>>
           \/ /\ Ends(t) /\ Fault
              /\ spoiled' = spoiled \cup Only(p, p, {i})
                                    \cup (IF task[t].fresh THEN From(p, Peer(p), i) ELSE {})
        /\ UNCHANGED <<device, published, pool, created, tasks,
                       generated, handshakes, encrypted, reused, consumed>>

CommitMessage(i) ==
    /\ hidden' = hidden \ {i}
    /\ UNCHANGED <<device, published, pool, created, messages, task, tasks, faults, history>>

\* A request that never reached the server, or a session that cannot be read: the
\* call throws, what it did stays.
RequestFails(t) ==
    /\ task[t] # None
    /\ task[t].at \in {"publishing", "fetching", "encrypting", "creating", "delivering", "listing"}
    /\ Ends(t) /\ Fault
    /\ UNCHANGED <<device, server, tasks, history>>

\* setCachedSessionHandle, of a send once the answer has come: the last writer's
\* handle stays.
SetCachedSessionHandle(t) ==
    /\ At(t, "remembering")
    /\ task[t].kind = "send" => task[t].id \notin hidden
    /\ cached' = [cached EXCEPT ![Dev(t)] = task[t].handle]
    /\ Moves(t, IF task[t].kind = "send" THEN "recording" ELSE "decrypting")
    /\ UNCHANGED <<ratchet, rows, ownPrekeys, signedPrekeys, oneTimePrekeys, server, tasks, faults, history>>

--------------------------------------------------------------------------------
(* appendRows.                                                              *)

\* Ghost: of all that p knows it may read nothing again.
Forgets(p) == Only(p, p, Known(p)) \cup Only(p, Peer(p), Known(p))

\* loadHistory takes a failed read for an empty history, which then replaces it.
LoadHistory(t) ==
    LET p == Dev(t)
    IN  /\ At(t, "recording") /\ HistoryFree(p)
        /\ \/ /\ Goes(t, [task[t] EXCEPT !.at = "storing", !.base = rows[p]])
              /\ UNCHANGED <<faults, spoiled>>
           \/ /\ rows[p] # NoRows /\ Fault
              /\ Goes(t, [task[t] EXCEPT !.at = "storing", !.base = NoRows])
              /\ spoiled' = spoiled \cup Forgets(p)
        /\ UNCHANGED <<device, server, tasks, generated, handshakes, encrypted, reused, consumed>>

\* Mutated form of Merged: the new rows are not deduplicated.
MergedAsTheyCome(old, new) == [plain |-> old.plain \cup new.plain, gaps |-> old.gaps \cup new.gaps]

\* Existing rows win over new ones of the same id.
Merged(old, new) == [plain |-> old.plain \cup (new.plain \ old.gaps),
                     gaps |-> old.gaps \cup (new.gaps \ old.plain)]

StoreHistory(t) ==
    /\ At(t, "storing")
    /\ rows' = [rows EXCEPT ![Dev(t)] = Merged(task[t].base, task[t].found)]
    /\ Ends(t)
    /\ UNCHANGED <<ratchet, cached, ownPrekeys, signedPrekeys, oneTimePrekeys, server, tasks, faults, history>>

--------------------------------------------------------------------------------
(* syncThreadHistory.                                                       *)

\* The history is read, without the lock, before the messages are fetched; here,
\* too, a failed read gives an empty one, and every message is tried again.
StartSync(t, p) ==
    /\ created
    /\ \/ Begins(t, p, "sync", "listing", TRUE, 0, Known(p)) /\ UNCHANGED faults
       \/ Known(p) # {} /\ Begins(t, p, "sync", "listing", TRUE, 0, {}) /\ Fault
    /\ UNCHANGED <<device, server, history>>

SenderOf(i) == messages[i].key[2]
Visible == DOMAIN messages \ hidden
Newest(n) == {i \in Visible : Cardinality({j \in Visible : i < j}) < n}

\* Ghost: of the messages a sync is about to find, those another task of the
\* device has in hand; a peer's, and all that follow it, depend on who is first.
Overlaps(t, new) ==
    LET p == Dev(t)
        others == {u \in Tasks \ {t} : task[u] # None /\ Dev(u) = p}
    IN  (UNION {From(p, SenderOf(i), i) : i \in {i \in new : SenderOf(i) # p /\
                   \E u \in others : i \in task[u].listed \ task[u].known}})
        \cup Only(p, p, {i \in new : \E u \in others : task[u].kind = "send" /\ task[u].id = i})

\* Ghost: those that are tried before an earlier one of the same sender.
Skips(t, new) ==
    UNION {From(Dev(t), SenderOf(j), j) : j \in {j \in new : SenderOf(j) # Dev(t) /\
        \E i \in 1..(j - 1) : SenderOf(i) = SenderOf(j) /\ i \notin task[t].known \cup new}}

\* listAllMessagesAscending walks back from the newest page to the oldest, which
\* nothing is added to.  A page whose query fails comes as an empty last page, and
\* the walk ends there, with the messages it has.  Own messages that are not in the
\* history are not attempted: they become gaps, wherever in the list they stand.
ListMessages(t) ==
    \E pages \in 0..MaxPages :
       LET listed == Newest(PageLimit * pages)
           new == listed \ task[t].known
       IN  /\ At(t, "listing")
           /\ IF listed = Visible \/ pages = MaxPages THEN UNCHANGED faults ELSE Fault
           /\ Goes(t, [task[t] EXCEPT !.at = "working", !.listed = listed,
                                      !.found.gaps = {i \in new : SenderOf(i) = Dev(t)}])
           /\ spoiled' = spoiled \cup Overlaps(t, new) \cup Skips(t, new)
           /\ UNCHANGED <<device, server, tasks, generated, handshakes, encrypted, reused, consumed>>

Pending(t) == task[t].listed \ (task[t].known \cup task[t].found.plain \cup task[t].found.gaps)

\* The row of the message in hand, and on to the next one.
Gap(t, i) == Goes(t, [task[t] EXCEPT !.at = "working", !.found.gaps = @ \cup {i}])

SyncDone(t) ==
    /\ At(t, "working") /\ Pending(t) = {}
    /\ IF task[t].found = NoRows THEN Ends(t) ELSE Moves(t, "recording")
    /\ UNCHANGED <<device, server, tasks, faults, history>>

\* Ghost: a send of p has delivered its message, and not yet remembered its session.
Unanswerable(p) == \E u \in Tasks : At(u, "remembering") /\ Dev(u) = p /\ task[u].kind = "send"

\* tryDecryptIncoming: the cached session if there is one, whatever payload the
\* message has; without either, the gap the charter discloses.
LookUpSession(t) ==
    LET p == Dev(t)
    IN  /\ At(t, "working")
        /\ \E i \in Pending(t), h \in {0, cached[p]} :
              /\ \A j \in Pending(t) : i <= j
              /\ GetCachedSessionHandle(p, h)
              /\ IF h # 0
                 THEN Goes(t, [task[t] EXCEPT !.at = "decrypting", !.id = i, !.handle = h])
                 ELSE IF messages[i].payload
                      THEN Goes(t, [task[t] EXCEPT !.at = "completing", !.id = i, !.secret = messages[i].key[1]])
                      ELSE Gap(t, i)
              /\ spoiled' = spoiled \cup (IF h # cached[p] \/ (h = 0 /\ Unanswerable(p))
                                         THEN From(p, SenderOf(i), i) ELSE {})
        /\ UNCHANGED <<device, server, tasks, generated, handshakes, encrypted, reused, consumed>>

\* completeSharedSecret up to the look-up of the prekeys; the one-time prekey is
\* looked up, and deleted, under its lock.
CompleteSharedSecret(t) ==
    LET p == Dev(t)
        h == handshakes[task[t].secret]
    IN  /\ At(t, "completing")
        /\ PrekeyFree(p, h.oneTime)
        /\ IF h.signed \notin signedPrekeys[p] \/ h.oneTime \notin {0} \cup oneTimePrekeys[p]
           THEN Gap(t, task[t].id)
           ELSE Moves(t, IF h.oneTime = 0 THEN "registering" ELSE "consuming")
        /\ UNCHANGED <<device, server, tasks, faults, history>>

\* resolveIdentity fails, or the secure store: what is caught makes the message a
\* gap like any other.
ReceiveFails(t) ==
    /\ task[t] # None /\ task[t].kind = "sync"
    /\ task[t].at \in {"completing", "remembering", "decrypting"}
    /\ Gap(t, task[t].id) /\ Fault
    /\ spoiled' = spoiled \cup From(Dev(t), Peer(Dev(t)), task[t].id)
    /\ UNCHANGED <<device, server, tasks, generated, handshakes, encrypted, reused, consumed>>

ConsumeOneTimePrekey(t) ==
    LET n == handshakes[task[t].secret].oneTime
    IN  /\ At(t, "consuming")
        /\ oneTimePrekeys' = [oneTimePrekeys EXCEPT ![Dev(t)] = @ \ {n}]
        /\ consumed' = consumed \cup {<<Dev(t), n, task[t].secret>>}
        /\ Moves(t, "registering")
        /\ UNCHANGED <<ratchet, cached, rows, ownPrekeys, signedPrekeys, server, tasks, faults,
                       generated, handshakes, encrypted, reused, spoiled>>

RegisterResponder(t) == At(t, "registering") /\ RegisterSession(t, "remembering")

\* decryptMessage: the record is read, and if the key fits written back with the
\* receiving chain advanced, under the lock.
ReadReceivingChain(t) ==
    LET r == ratchet[task[t].handle]
    IN  /\ At(t, "decrypting") /\ RatchetFree(task[t].handle)
        /\ IF messages[task[t].id].key = <<r.secret, Peer(Dev(t)), r.received>>
           THEN Goes(t, [task[t] EXCEPT !.at = "opening", !.position = r.received, !.opposite = r.sent])
           ELSE Gap(t, task[t].id)
        /\ UNCHANGED <<device, server, tasks, faults, history>>

AdvanceReceivingChain(t) ==
    /\ At(t, "opening")
    /\ ratchet' = [ratchet EXCEPT ![task[t].handle] = Written(@, task[t].opposite, task[t].position + 1)]
    /\ Goes(t, [task[t] EXCEPT !.at = "working", !.found.plain = @ \cup {task[t].id}])
    /\ UNCHANGED <<cached, rows, ownPrekeys, signedPrekeys, oneTimePrekeys, server, tasks, faults, history>>

--------------------------------------------------------------------------------

\* Ghost: what only a task knew is lost with it.
LostWith(t) ==
    LET p == Dev(t)
    IN  Only(p, p, IF task[t].kind = "send" THEN task[t].found.plain ELSE {})
        \cup Only(p, Peer(p), IF task[t].kind = "sync" THEN task[t].found.plain ELSE {})
        \cup (IF task[t].at = "remembering" \/ At(t, "registering")
              THEN From(p, Peer(p), task[t].id) ELSE {})

\* The app is closed or killed; the secure store stays.
Restart(p) ==
    LET running == {t \in Tasks : task[t] # None /\ Dev(t) = p}
    IN  /\ running # {} /\ Fault
        /\ task' = [t \in Tasks |-> IF t \in running THEN None ELSE task[t]]
        /\ spoiled' = spoiled \cup UNION {LostWith(t) : t \in running}
        /\ UNCHANGED <<device, server, tasks, generated, handshakes, encrypted, reused, consumed>>

Runs(t) ==
    \/ AlreadyPublished(t) \/ GeneratePrekeyBundle(t) \/ PublishPrekeyBundle(t) \/ SaveOwnPrekeyIdentity(t)
    \/ FetchPrekeyBundle(t) \/ RecipientNotSetUp(t) \/ DeriveSharedSecret(t)
    \/ ReadSendingChain(t) \/ AdvanceSendingChain(t)
    \/ CreateConversation(t) \/ DeliverMessage(t) \/ RequestFails(t) \/ SetCachedSessionHandle(t)
    \/ LoadHistory(t) \/ StoreHistory(t)
    \/ ListMessages(t) \/ SyncDone(t) \/ LookUpSession(t)
    \/ CompleteSharedSecret(t) \/ ReceiveFails(t) \/ ConsumeOneTimePrekey(t) \/ RegisterResponder(t)
    \/ ReadReceivingChain(t) \/ AdvanceReceivingChain(t)

Next ==
    \/ \E t \in Tasks, p \in Participants :
          \/ StartEnsure(t, p) \/ StartSync(t, p)
          \/ \E conv \in BOOLEAN : StartSend(t, p, conv)
    \/ \E t \in Tasks : Runs(t)
    \/ \E i \in hidden : CommitMessage(i)
    \/ \E p \in Participants : Restart(p)

Spec == Init /\ [][Next]_vars

--------------------------------------------------------------------------------
(* Properties.                                                              *)

\* Whatever sends and syncs run at once and whenever the app restarts, a session
\* makes each message key once: a key seals two messages only if its device holds
\* two sessions of one secret, whose chains begin alike, and it registers a secret
\* twice only if no one-time prekey made the handshake unique.
NoKeyReuse ==
    \A k \in reused :
       /\ handshakes[k[1]].oneTime = 0
       /\ \E g, h \in Handles : g # h /\ \A x \in {g, h} : ratchet[x].secret = k[1] /\ ratchet[x].owner = k[2]

\* What the server offers can be completed: the device holds the private half of
\* every prekey in its pool, and of every claimed one until it has been used for
\* the very handshake that claimed it.
PrekeysKept ==
    /\ \A p \in Participants :
          pool[p] \subseteq oneTimePrekeys[p] /\ published[p] \in {0} \cup signedPrekeys[p]
    /\ \A s \in DOMAIN handshakes :
          LET p == Peer(handshakes[s].by)
              n == handshakes[s].oneTime
          IN  n # 0 => n \in oneTimePrekeys[p] \/ <<p, n, s>> \in consumed

\* The server has every ciphertext of each chain up to its last, in order.
ChainsInOrder ==
    \A i \in DOMAIN messages :
       messages[i].key[3] = Cardinality({j \in 1..(i - 1) :
          messages[j].key[1] = messages[i].key[1] /\ messages[j].key[2] = messages[i].key[2]})

OneSession == \A i, j \in DOMAIN messages : messages[i].key[1] = messages[j].key[1]

\* As long as no ciphertext was lost or overtaken and one session serves the
\* conversation, a device shows "cannot be decrypted" only for a message that one
\* of the disturbances recorded in spoiled befell: a second sync of the thread, or
\* a send, that had it in hand; a list that held it and not an earlier one of its
\* sender's, because it was cut short or that one's insert had not committed; an
\* answer or a read that failed; a restart.  Otherwise each message is decrypted
\* and its row kept, however the two devices' calls interleave.
ReadableUnlessDisturbed ==
    ChainsInOrder /\ OneSession =>
       \A p \in Participants : \A i \in rows[p].gaps : <<p, SenderOf(i), i>> \in spoiled

================================================================================
