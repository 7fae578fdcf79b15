---------------------------- MODULE MessagingProofs ----------------------------
(***************************************************************************)
(* Theorems about Messaging, for any number of calls under way and any     *)
(* bounds.                                                                 *)
(*                                                                         *)
(* The first part is about keys.  A session has one handle on a device     *)
(* unless its handshake used no one-time prekey, because a prekey is       *)
(* claimed once, consumed under its lock and registered by who consumed    *)
(* it; and a handle moves its chain past every key it gave, because the    *)
(* position a call reads is the chain's as long as the call has the        *)
(* session's lock.                                                         *)
(*                                                                         *)
(* The second part, from ReadInv on, is about what can be read.  A step is *)
(* first reduced to what it does to a few parts of the state (Steps).  For *)
(* a message that nothing disturbs, where the chains are in order and one  *)
(* session serves the conversation, a device has one handle of the session *)
(* and finds it (ReachInv), and a sync that lists it lists every earlier   *)
(* one of its sender's that is not in the history (MissedInv); then no     *)
(* message is passed over (PassedInv), so that the message in hand is the  *)
(* chain's next or was opened before; and what was opened is in the        *)
(* history or on its way there (KeptInv).                                  *)
(***************************************************************************)
EXTENDS Messaging, FiniteSetTheorems, SequenceTheorems, WellFoundedInduction, TLAPS

\* Where a sync has a message in hand.
Receiving == {"completing", "consuming", "registering", "remembering", "decrypting", "opening"}

\* A sync that has listed the messages.
Listed(t) == task[t] # None /\ task[t].kind = "sync" /\ task[t].at # "listing"

\* What a call that has got to a stage has in hand.
Staged(t) ==
    LET r == task[t]
    IN  /\ r.base.plain \cap r.base.gaps = {} /\ r.found.plain \cap r.found.gaps = {}
        /\ r.at = "listing" => r.found = NoRows
        /\ r.at \in Receiving => r.id \in DOMAIN messages
        /\ r.kind = "sync" /\ r.at \in Receiving => r.id \notin r.found.plain \cup r.found.gaps
        /\ r.kind = "ensure" => r.at \in Ensuring
        /\ r.kind = "send" => r.at \in Ensuring \cup Sending \cup Recording
        /\ r.kind = "sync" => r.at \in Syncing \cup Recording
        /\ r.at \in {"publishing", "saving"} => r.bundle # 0
        /\ r.kind = "send" /\ r.at \in Ensuring \cup {"deriving"} =>
              r.secret \in DOMAIN handshakes /\ handshakes[r.secret].by = r.dev
        /\ r.at \in {"completing", "consuming", "registering"} =>
              r.secret \in DOMAIN handshakes /\ handshakes[r.secret].by = Peer(r.dev)
        /\ r.kind = "send" /\ r.fresh /\ r.at \in Holding =>
              handshakes[ratchet[r.handle].secret].by = r.dev
        /\ r.kind = "sync" => r.listed \subseteq DOMAIN messages
        /\ r.kind = "sync" /\ r.at # "listing" =>
              \A i \in r.listed : SenderOf(i) = r.dev => i \in r.known \cup r.found.plain \cup r.found.gaps

StageInv == \A t \in Tasks : task[t] # None => Staged(t)

\* What is stored, on the devices and the server, refers to what there is.
SessionsInv ==
    /\ \A h \in Handles : ratchet[h].secret \in DOMAIN handshakes
    /\ \A p \in Participants : cached[p] # 0 => ratchet[cached[p]].owner = p
    /\ \A i \in DOMAIN messages :
          /\ messages[i].key[1] \in DOMAIN handshakes
          /\ messages[i].payload => handshakes[messages[i].key[1]].by = messages[i].key[2]

\* Whose prekey a handshake claimed.
Responder(s) == Peer(handshakes[s].by)

\* A claimed prekey is out of the pool and claimed by one handshake.
ClaimInv ==
    /\ \A p \in Participants : \A n \in oneTimePrekeys[p] : n <= generated[p]
    /\ \A s \in DOMAIN handshakes : handshakes[s].oneTime # 0 =>
          /\ handshakes[s].oneTime <= generated[Responder(s)]
          /\ handshakes[s].oneTime \notin pool[Responder(s)]
          /\ \A r \in DOMAIN handshakes :
                Responder(r) = Responder(s) /\ handshakes[r].oneTime = handshakes[s].oneTime => r = s

\* A bundle that is being published is whole, and known to nobody yet.
PublishingInv ==
    \A t \in Tasks : At(t, "publishing") =>
       LET p == Dev(t)
           n == task[t].bundle
       IN  /\ n \in signedPrekeys[p] \cap oneTimePrekeys[p] /\ n \notin pool[p]
           /\ \A s \in DOMAIN handshakes : Responder(s) = p => handshakes[s].oneTime # n
           /\ \A u \in Tasks : At(u, "publishing") /\ Dev(u) = p /\ task[u].bundle = n => u = t

\* Who consumes a prekey does so alone.
ConsumingInv ==
    \A t \in Tasks : At(t, "consuming") =>
       LET p == Dev(t)
           n == handshakes[task[t].secret].oneTime
       IN  /\ n # 0 /\ n \in oneTimePrekeys[p]
           /\ \A u \in Tasks : At(u, "consuming") /\ Dev(u) = p
                               /\ handshakes[task[u].secret].oneTime = n => u = t

PrekeyInv == PrekeysKept /\ ClaimInv /\ PublishingInv /\ ConsumingInv

\* t is about to register secret s on its device.
Initiating(t) == task[t] # None /\ task[t].kind = "send" /\ task[t].at \in Ensuring \cup {"deriving"}
Completing(t) == At(t, "registering") /\ handshakes[task[t].secret].oneTime # 0
Registered(p, s) == \E h \in Handles : ratchet[h].owner = p /\ ratchet[h].secret = s

\* One handle on a device per session of a one-time prekey.
OneHandle ==
    \A g, h \in Handles : ratchet[g].owner = ratchet[h].owner /\ ratchet[g].secret = ratchet[h].secret
       /\ handshakes[ratchet[g].secret].oneTime # 0 => g = h

\* Who is about to register as initiator is the first to do so, and alone.
InitiatingInv ==
    \A t \in Tasks : Initiating(t) =>
       /\ ~Registered(Dev(t), task[t].secret)
       /\ \A u \in Tasks : Initiating(u) /\ task[u].secret = task[t].secret => u = t

\* So is who is about to register as responder: the prekey is consumed.
CompletingInv ==
    \A t \in Tasks : Completing(t) =>
       /\ handshakes[task[t].secret].oneTime \notin oneTimePrekeys[Dev(t)]
       /\ ~Registered(Dev(t), task[t].secret)
       /\ \A u \in Tasks : Completing(u) /\ Dev(u) = Dev(t) /\ task[u].secret = task[t].secret => u = t

\* Once a responder has registered, the prekey is gone for good.
SpentInv ==
    \A h \in Handles : ratchet[h].owner = Responder(ratchet[h].secret)
       /\ handshakes[ratchet[h].secret].oneTime # 0 =>
          handshakes[ratchet[h].secret].oneTime \notin oneTimePrekeys[ratchet[h].owner]

RegistrationInv == OneHandle /\ InitiatingInv /\ CompletingInv /\ SpentInv

Chaining(t) == At(t, "advancing") \/ At(t, "opening")

\* What a call under a session's lock has read is what the session's record says.
Knows(t) ==
    LET r == ratchet[task[t].handle]
    IN  /\ At(t, "advancing") => task[t].position = r.sent /\ task[t].opposite = r.received
        /\ At(t, "opening") => task[t].position = r.received /\ task[t].opposite = r.sent

\* A call that has a session's lock has it alone, and knows what it writes back.
LockInv ==
    /\ \A t, u \in Tasks : Chaining(t) /\ Chaining(u) /\ task[t].handle = task[u].handle => t = u
    /\ \A t \in Tasks : Knows(t)

\* Every key given is behind the position of a handle that gave it.
KeysBehind ==
    \A k \in encrypted : \E h \in Handles :
       ratchet[h].secret = k[1] /\ ratchet[h].owner = k[2] /\ k[3] < ratchet[h].sent

\* A device has two sessions of the key's secret, and no one-time prekey forbade it.
Doubled(k) ==
    /\ handshakes[k[1]].oneTime = 0
    /\ \E g, h \in Handles : g # h /\ \A x \in {g, h} : ratchet[x].secret = k[1] /\ ratchet[x].owner = k[2]

ChainInv == LockInv /\ KeysBehind /\ NoKeyReuse

IInv == TypeOK /\ StageInv /\ SessionsInv /\ PrekeyInv /\ RegistrationInv /\ ChainInv

--------------------------------------------------------------------------------
(* The model's operators.                                                   *)

\* Of two participants each is the other's peer.
LEMMA PeerProperties ==
    ASSUME NEW p \in Participants
    PROVE  Peer(p) \in Participants /\ Peer(p) # p /\ Peer(Peer(p)) = p
<1>1. Cardinality(Participants \ {p}) = 1
  BY MessagingAssumption, FS_RemoveElement
<1>2. PICK q : Participants \ {p} = {q}
  BY <1>1, MessagingAssumption, FS_RemoveElement, FS_Singleton
<1>3. Participants = {p, q} /\ p # q
  BY <1>2
<1>4. \A r \in Participants : r # p <=> r = q
  BY <1>3
<1>5. Peer(p) = q
  BY <1>3, <1>4 DEF Peer
<1>6. \A r \in Participants : r # q <=> r = p
  BY <1>3
<1>7. Peer(q) = p
  BY <1>3, <1>6 DEF Peer
<1> QED BY <1>3, <1>5, <1>7

\* Peers have different peers.
LEMMA PeerInjective ==
    ASSUME NEW p \in Participants, NEW q \in Participants, Peer(p) = Peer(q)
    PROVE  p = q
BY PeerProperties

\* A participant other than p is its peer.
LEMMA PeerDecides ==
    ASSUME NEW p \in Participants, NEW q \in Participants, q # p
    PROVE  q = Peer(p)
<1>1. Cardinality(Participants \ {p}) = 1
  BY MessagingAssumption, FS_RemoveElement
<1>2. PICK r : Participants \ {p} = {r}
  BY <1>1, MessagingAssumption, FS_RemoveElement, FS_Singleton
<1> QED BY <1>2, PeerProperties

\* A step of a call leaves the others where they are.
LEMMA GoesFrame ==
    ASSUME TypeOK, NEW t \in Tasks, NEW r, Goes(t, r)
    PROVE  task'[t] = r /\ \A u \in Tasks \ {t} : task'[u] = task[u]
BY DEF TypeOK, Goes

\* A call that goes on is a call, and one that ends is none.
LEMMA GoesType ==
    ASSUME TypeOK, NEW t \in Tasks, NEW r \in Task \cup {None}, Goes(t, r)
    PROVE  task' \in [Tasks -> Task \cup {None}]
BY DEF TypeOK, Goes

\* A call under way is a record of its fields.
LEMMA TaskFields ==
    ASSUME TypeOK, NEW t \in Tasks, task[t] # None
    PROVE  /\ task[t] \in Task
           /\ task[t].dev \in Participants /\ task[t].handle \in Nat
           /\ task[t].secret \in 0..MaxHandshakes
           /\ task[t].position \in Nat /\ task[t].opposite \in Nat /\ task[t].base \in Rows
           /\ task[t].found \in Rows /\ task[t].known \subseteq Ids
           /\ task[t].listed \subseteq Ids
BY DEF TypeOK, Task

--------------------------------------------------------------------------------
(* Type correctness.                                                        *)

\* The initial state has the right types.
LEMMA TypeInit == Init => TypeOK
<1> SUFFICES ASSUME Init PROVE TypeOK
  OBVIOUS
<1> USE MessagingAssumption DEF Init
<1>1. 1 \in Bundles
  BY DEF Bundles
<1>2. generated \in [Participants -> {0} \cup Bundles]
  BY <1>1
<1>3. signedPrekeys \in [Participants -> SUBSET Bundles]
  BY <1>1 DEF Bundles
<1>4. pool \in [Participants -> SUBSET Bundles]
  BY <1>1
<1>5. \A t \in Tasks : task[t] = None
  OBVIOUS
<1>6. NoRows \in Rows /\ NoRows.plain = {} /\ NoRows.gaps = {}
  BY DEF NoRows, Rows
<1>7. ratchet \in Seq(Session) /\ messages \in Seq(Message) /\ handshakes \in Seq(Handshake)
  OBVIOUS
<1>8. /\ Len(messages) <= MaxMessages /\ Len(handshakes) <= MaxHandshakes
      /\ tasks \in 0..MaxTasks /\ faults \in 0..MaxFaults
  OBVIOUS
<1>9. /\ cached \in [Participants -> {0} \cup Handles]
      /\ published \in [Participants -> {0} \cup Bundles]
      /\ ownPrekeys \in [Participants -> BOOLEAN] /\ created \in BOOLEAN
      /\ rows \in [Participants -> Rows]
      /\ oneTimePrekeys \in [Participants -> SUBSET Bundles]
      /\ task \in [Tasks -> Task \cup {None}]
  BY <1>2, <1>4, <1>6
<1>10. /\ encrypted \subseteq Key /\ reused \subseteq encrypted
       /\ consumed \subseteq Participants \X Bundles \X Secrets
       /\ spoiled \subseteq Participants \X Participants \X Ids
  OBVIOUS
<1> QED BY <1>2, <1>3, <1>4, <1>5, <1>6, <1>7, <1>8, <1>9, <1>10 DEF TypeOK

\* The part of TypeOK about the calls, and the rest.
TasksTyped ==
    /\ task \in [Tasks -> Task \cup {None}]
    /\ \A t \in Tasks : task[t] # None =>
          /\ task[t].handle \in {0} \cup Handles
          /\ task[t].at \in Holding =>
                task[t].handle \in Handles /\ ratchet[task[t].handle].owner = task[t].dev

StoresTyped ==
    /\ ratchet \in Seq(Session)
    /\ cached \in [Participants -> {0} \cup Handles]
    /\ rows \in [Participants -> Rows]
    /\ \A p \in Participants : rows[p].plain \cap rows[p].gaps = {}
    /\ ownPrekeys \in [Participants -> BOOLEAN]
    /\ signedPrekeys \in [Participants -> SUBSET Bundles]
    /\ oneTimePrekeys \in [Participants -> SUBSET Bundles]
    /\ published \in [Participants -> {0} \cup Bundles]
    /\ pool \in [Participants -> SUBSET Bundles]
    /\ created \in BOOLEAN
    /\ messages \in Seq(Message) /\ Len(messages) <= MaxMessages
    /\ hidden \subseteq Ids
    /\ tasks \in 0..MaxTasks /\ faults \in 0..MaxFaults
    /\ generated \in [Participants -> {0} \cup Bundles]
    /\ handshakes \in Seq(Handshake) /\ Len(handshakes) <= MaxHandshakes
    /\ encrypted \subseteq Key /\ reused \subseteq encrypted
    /\ consumed \subseteq Participants \X Bundles \X Secrets
    /\ spoiled \subseteq Participants \X Participants \X Ids

\* TypeOK is these two parts.
LEMMA TypeParts ==
    /\ TypeOK => TasksTyped /\ StoresTyped
    /\ TasksTyped' /\ StoresTyped' => TypeOK'
BY DEF TypeOK, TasksTyped, StoresTyped

\* The calls stay typed when one goes on with a typed record, and no session changes.
LEMMA TaskStep ==
    ASSUME TypeOK, NEW t \in Tasks, NEW r \in Task \cup {None}, Goes(t, r), ratchet' = ratchet,
           r # None => /\ r.handle \in {0} \cup Handles
                       /\ r.at \in Holding => r.handle \in Handles /\ ratchet[r.handle].owner = r.dev
    PROVE  TasksTyped'
<1>1. task' \in [Tasks -> Task \cup {None}]
  BY GoesType
<1>2. Handles' = Handles
  BY DEF Handles
<1>3. ASSUME NEW u \in Tasks, task'[u] # None
      PROVE  /\ task'[u].handle \in {0} \cup Handles
             /\ task'[u].at \in Holding =>
                   task'[u].handle \in Handles /\ ratchet[task'[u].handle].owner = task'[u].dev
  <2>1. CASE u = t
    BY <1>3, <2>1, GoesFrame
  <2>2. CASE u # t
    <3>1. task'[u] = task[u]
      BY <2>2, GoesFrame
    <3>2. QED
      BY <1>3, <3>1 DEF TypeOK
  <2>3. QED
    BY <2>1, <2>2
<1>4. QED
  BY <1>1, <1>2, <1>3 DEF TasksTyped

\* A call that changes its stage only.
LEMMA MovesType ==
    ASSUME TypeOK, NEW t \in Tasks, task[t] # None,
           NEW stage \in Ensuring \cup Sending \cup Syncing \cup Recording,
           stage \in Holding => task[t].at \in Holding,
           Moves(t, stage), ratchet' = ratchet
    PROVE  TasksTyped'
<1>1. task[t] \in Task
  BY TaskFields
<1> DEFINE r == [task[t] EXCEPT !.at = stage]
<1>2. r \in Task /\ r.at = stage /\ r.handle = task[t].handle /\ r.dev = task[t].dev
  BY <1>1 DEF Task
<1>3. /\ task[t].handle \in {0} \cup Handles
      /\ task[t].at \in Holding =>
            task[t].handle \in Handles /\ ratchet[task[t].handle].owner = task[t].dev
  BY DEF TypeOK
<1>4. Goes(t, r)
  BY DEF Moves
<1> QED BY <1>2, <1>3, <1>4, TaskStep

\* A call that ends.
LEMMA EndsType ==
    ASSUME TypeOK, NEW t \in Tasks, Ends(t), ratchet' = ratchet
    PROVE  TasksTyped'
BY TaskStep DEF Ends

\* A call that begins.
LEMMA BeginsType ==
    ASSUME TypeOK, NEW t \in Tasks, NEW p \in Participants, NEW kind \in {"ensure", "send", "sync"},
           NEW stage \in Ensuring \cup Sending \cup Syncing \cup Recording, NEW conv \in BOOLEAN,
           NEW h \in {0} \cup Handles, h # 0 => ratchet[h].owner = p, stage \in Holding => h # 0,
           NEW known \in SUBSET Ids,
           Begins(t, p, kind, stage, conv, h, known), ratchet' = ratchet
    PROVE  TasksTyped' /\ tasks' \in 0..MaxTasks
<1> DEFINE r == [dev |-> p, kind |-> kind, at |-> stage, conv |-> conv, handle |-> h,
                 bundle |-> 0, secret |-> 0, fresh |-> FALSE, position |-> 0, opposite |-> 0,
                 base |-> NoRows, id |-> 0, known |-> known, listed |-> {}, found |-> NoRows]
<1>1. NoRows \in Rows
  BY DEF NoRows, Rows
<1>3. h \in Nat
  BY LenProperties DEF TypeOK, Handles
<1>4. r \in Task
  BY <1>1, <1>3, MessagingAssumption DEF Task
<1>5. TasksTyped'
  BY <1>4, TaskStep DEF Begins
<1> QED BY <1>5, MessagingAssumption DEF Begins, TypeOK

\* The count of what went wrong stays within its bound.
LEMMA FaultType == TypeOK /\ Fault => faults' \in 0..MaxFaults
BY MessagingAssumption DEF TypeOK, Fault

\* Steps of ensureOwnPrekeyIdentity keep every type.
LEMMA EnsureType ==
    ASSUME TypeOK, StageInv, NEW t \in Tasks,
           \/ \E p \in Participants : StartEnsure(t, p)
           \/ AlreadyPublished(t) \/ GeneratePrekeyBundle(t)
           \/ PublishPrekeyBundle(t) \/ SaveOwnPrekeyIdentity(t)
    PROVE  TypeOK'
<1> USE DEF device, server, history, Ensuring, Sending, Syncing, Recording, Holding, Dev
<1>a. task[t] # None => task[t] \in Task /\ task[t].dev \in Participants
  BY TaskFields
<1>1. ASSUME NEW p \in Participants, StartEnsure(t, p) PROVE TypeOK'
  <2>1. TasksTyped' /\ tasks' \in 0..MaxTasks
    <3>1. Begins(t, p, "ensure", "ensuring", FALSE, 0, {}) /\ ratchet' = ratchet /\ {} \in SUBSET Ids
      BY <1>1 DEF StartEnsure
    <3> QED BY <3>1, BeginsType
  <2>2. StoresTyped'
    BY <1>1, <2>1, TypeParts DEF StartEnsure, StoresTyped, Handles
  <2> QED BY <2>1, <2>2, TypeParts
<1>b. ASSUME Ensured(t), task[t] # None, ratchet' = ratchet PROVE TasksTyped'
  BY <1>b, MovesType, EndsType DEF Ensured
<1>2. CASE AlreadyPublished(t)
  <2>1. TasksTyped'
    BY <1>2, <1>b DEF AlreadyPublished, At
  <2>2. StoresTyped'
    BY <1>2, TypeParts DEF AlreadyPublished, StoresTyped, Handles
  <2> QED BY <2>1, <2>2, TypeParts
<1>3. CASE GeneratePrekeyBundle(t)
  <2> DEFINE p == Dev(t)
             n == generated[p] + 1
             r == [task[t] EXCEPT !.at = "publishing", !.bundle = n]
  <2>1. p \in Participants /\ task[t] \in Task /\ generated[p] \in Nat /\ generated[Peer(p)] \in Nat
    BY <1>3, <1>a, PeerProperties DEF GeneratePrekeyBundle, At, TypeOK, Bundles
  <2>2. n \in Bundles
    BY <1>3, <2>1, MessagingAssumption DEF GeneratePrekeyBundle, Bundles
  <2>f. faults' \in 0..MaxFaults
    BY <1>3, FaultType DEF GeneratePrekeyBundle, TypeOK
  <2>3. n \in 0..MaxBundles
    BY <2>2, MessagingAssumption DEF Bundles
  <2>6. r \in Task /\ r.handle = task[t].handle /\ r.at = "publishing"
    BY <2>1, <2>3 DEF Task
  <2>4. TasksTyped'
    <3>1. Goes(t, r) /\ ratchet' = ratchet /\ task[t] # None
      BY <1>3 DEF GeneratePrekeyBundle, At
    <3>2. task[t].handle \in {0} \cup Handles
      BY <3>1 DEF TypeOK
    <3> QED BY <2>6, <3>1, <3>2, TaskStep
  <2>5. StoresTyped'
    <3>1. generated' \in [Participants -> {0} \cup Bundles]
      BY <1>3, <2>2 DEF GeneratePrekeyBundle, TypeOK
    <3>2. signedPrekeys' \in [Participants -> SUBSET Bundles] /\ oneTimePrekeys' \in [Participants -> SUBSET Bundles]
      BY <1>3, <2>2 DEF GeneratePrekeyBundle, TypeOK
    <3> QED BY <1>3, <2>f, <3>1, <3>2, TypeParts DEF GeneratePrekeyBundle, StoresTyped, Handles
  <2> QED BY <2>4, <2>5, TypeParts
<1>4. CASE PublishPrekeyBundle(t)
  <2>1. task[t] # None /\ task[t].bundle \in Bundles /\ task[t].dev \in Participants
    BY <1>4, <1>a DEF PublishPrekeyBundle, At, StageInv, Staged, Task, Bundles
  <2>2. TasksTyped'
    BY <1>4, <2>1, MovesType, EndsType DEF PublishPrekeyBundle
  <2>3. published' \in [Participants -> {0} \cup Bundles] /\ pool' \in [Participants -> SUBSET Bundles]
    BY <1>4, <2>1 DEF PublishPrekeyBundle, TypeOK
  <2>4. StoresTyped'
    BY <1>4, <2>3, TypeParts, FaultType DEF PublishPrekeyBundle, StoresTyped, Handles
  <2> QED BY <2>2, <2>4, TypeParts
<1>5. CASE SaveOwnPrekeyIdentity(t)
  <2>1. TasksTyped'
    BY <1>5, <1>b DEF SaveOwnPrekeyIdentity, At
  <2>2. StoresTyped'
    BY <1>5, TypeParts DEF SaveOwnPrekeyIdentity, StoresTyped, Handles
  <2> QED BY <2>1, <2>2, TypeParts
<1> QED BY <1>1, <1>2, <1>3, <1>4, <1>5

\* The key a call that holds a session encrypts with is one of that session, that
\* device and the position it read.
LEMMA MessageKeyType ==
    ASSUME TypeOK, NEW t \in Tasks, task[t] # None, task[t].at \in Holding
    PROVE  /\ MessageKey(t) \in Key
           /\ MessageKey(t) = <<ratchet[task[t].handle].secret, task[t].dev, task[t].position>>
           /\ ratchet[task[t].handle] \in Session
<1>1. task[t].handle \in Handles /\ task[t].dev \in Participants /\ task[t].position \in Nat
  BY TaskFields DEF TypeOK
<1>2. ratchet[task[t].handle] \in Session
  BY <1>1, LenProperties DEF TypeOK, Handles
<1> QED BY <1>1, <1>2 DEF MessageKey, Key, Session, Dev

\* A new session is a further handle.
LEMMA RegisterType ==
    ASSUME TypeOK, NEW t \in Tasks, NEW stage \in {"encrypting", "remembering"},
           task[t] # None, task[t].secret \in Secrets, RegisterSession(t, stage)
    PROVE  /\ TypeOK' /\ Handles' = Handles \cup {Len(ratchet) + 1} /\ Len(ratchet) + 1 \notin Handles
           /\ \A h \in Handles : ratchet'[h] = ratchet[h]
           /\ ratchet'[Len(ratchet) + 1] =
                 [owner |-> Dev(t), secret |-> task[t].secret, sent |-> 0, received |-> 0]
<1> DEFINE s == [owner |-> Dev(t), secret |-> task[t].secret, sent |-> 0, received |-> 0]
           h == Len(ratchet) + 1
           r == [task[t] EXCEPT !.at = stage, !.handle = h, !.fresh = TRUE]
<1>1. s \in Session /\ s.owner = Dev(t)
  BY TaskFields DEF Session, Dev
<1>2. ratchet' = Append(ratchet, s) /\ ratchet \in Seq(Session)
  BY DEF RegisterSession, TypeOK
<1>3. /\ ratchet' \in Seq(Session) /\ Len(ratchet') = h /\ ratchet'[h] = s
      /\ \A i \in 1..Len(ratchet) : ratchet'[i] = ratchet[i]
  BY <1>1, <1>2, AppendProperties
<1>4. Len(ratchet) \in Nat /\ Handles = 1..Len(ratchet) /\ Handles' = 1..h
  BY <1>2, <1>3, LenProperties DEF Handles
<1>5. Handles' = Handles \cup {h} /\ h \notin Handles /\ h \in Nat
  BY <1>4
<1>6. /\ r \in Task /\ r.handle = h /\ r.dev = Dev(t)
      /\ Goes(t, r)
  <2>1. task[t] \in Task
    BY TaskFields
  <2> QED BY <2>1, <1>5 DEF Task, Sending, Recording, RegisterSession, Dev
<1>7. TasksTyped'
  <2>1. task' \in [Tasks -> Task \cup {None}] /\ task'[t] = r /\ \A u \in Tasks \ {t} : task'[u] = task[u]
    BY <1>6, GoesType, GoesFrame
  <2>2. ASSUME NEW u \in Tasks, task'[u] # None
        PROVE  /\ task'[u].handle \in {0} \cup Handles'
               /\ task'[u].at \in Holding =>
                     task'[u].handle \in Handles' /\ ratchet'[task'[u].handle].owner = task'[u].dev
    <3>1. CASE u = t
      BY <2>1, <3>1, <1>1, <1>3, <1>5, <1>6
    <3>2. CASE u # t
      BY <2>1, <2>2, <3>2, <1>3, <1>4, <1>5 DEF TypeOK
    <3> QED BY <3>1, <3>2
  <2> QED BY <2>1, <2>2 DEF TasksTyped
<1>8. StoresTyped'
  <2>1. StoresTyped
    BY TypeParts
  <2>2. cached' \in [Participants -> {0} \cup Handles']
    BY <1>5, <2>1 DEF RegisterSession, StoresTyped
  <2> QED BY <1>3, <2>1, <2>2 DEF StoresTyped, RegisterSession, server, history
<1> QED BY <1>3, <1>4, <1>5, <1>7, <1>8, TypeParts

\* A step of a session's chain keeps every session's owner and secret.
LEMMA ChainType ==
    ASSUME TypeOK, NEW h \in Handles, NEW s \in Session,
           s.owner = ratchet[h].owner, s.secret = ratchet[h].secret,
           ratchet' = [ratchet EXCEPT ![h] = s]
    PROVE  /\ ratchet' \in Seq(Session) /\ Handles' = Handles /\ ratchet'[h] = s
           /\ \A g \in Handles : /\ g # h => ratchet'[g] = ratchet[g]
                                 /\ ratchet'[g].owner = ratchet[g].owner
                                 /\ ratchet'[g].secret = ratchet[g].secret
<1>1. ratchet \in Seq(Session) /\ h \in 1..Len(ratchet) /\ Handles = 1..Len(ratchet)
  BY LenProperties DEF TypeOK, Handles
<1>2. /\ ratchet' \in Seq(Session) /\ Len(ratchet') = Len(ratchet)
      /\ \A j \in 1..Len(ratchet) : ratchet'[j] = IF j = h THEN s ELSE ratchet[j]
  BY <1>1, ExceptSeq
<1>3. Handles' = 1..Len(ratchet')
  BY <1>2, LenProperties DEF Handles
<1> QED BY <1>1, <1>2, <1>3

\* The record of a session is written back with both chains.
LEMMA WrittenType ==
    ASSUME NEW r \in Session, NEW m \in Nat, NEW n \in Nat
    PROVE  Written(r, m, n) \in Session
BY DEF Session, Written

LEMMA WrittenFields ==
    ASSUME NEW r \in Session, NEW m, NEW n
    PROVE  /\ Written(r, m, n).owner = r.owner /\ Written(r, m, n).secret = r.secret
           /\ Written(r, m, n).sent = m /\ Written(r, m, n).received = n
BY DEF Session, Written

\* The calls stay typed when one goes on and one chain steps.
LEMMA TaskChainStep ==
    ASSUME TypeOK, NEW t \in Tasks, NEW r \in Task, Goes(t, r), Handles' = Handles,
           \A g \in Handles : ratchet'[g].owner = ratchet[g].owner,
           r.handle \in Handles, ratchet[r.handle].owner = r.dev
    PROVE  TasksTyped'
<1>1. task' \in [Tasks -> Task \cup {None}] /\ task'[t] = r /\ \A u \in Tasks \ {t} : task'[u] = task[u]
  BY GoesType, GoesFrame
<1>2. ASSUME NEW u \in Tasks, task'[u] # None
      PROVE  /\ task'[u].handle \in {0} \cup Handles'
             /\ task'[u].at \in Holding =>
                   task'[u].handle \in Handles' /\ ratchet'[task'[u].handle].owner = task'[u].dev
  <2>1. CASE u = t
    BY <1>1, <2>1
  <2>2. CASE u # t
    <3>1. task'[u] = task[u] /\ task[u] # None
      BY <1>1, <1>2, <2>2
    <3>2. /\ task[u].handle \in {0} \cup Handles
          /\ task[u].at \in Holding =>
                task[u].handle \in Handles /\ ratchet[task[u].handle].owner = task[u].dev
      BY <3>1 DEF TypeOK
    <3> QED BY <3>1, <3>2
  <2> QED BY <2>1, <2>2
<1> QED BY <1>1, <1>2 DEF TasksTyped

\* What is spoiled is known by device, sender and message.
LEMMA SpoiledTypes ==
    ASSUME NEW p \in Participants, NEW q \in Participants
    PROVE  /\ \A i \in Ids : From(p, q, i) \subseteq Participants \X Participants \X Ids
           /\ \A S \in SUBSET Ids : Only(p, q, S) \subseteq Participants \X Participants \X Ids
<1>1. \A i \in Ids : i..MaxMessages \subseteq Ids
  BY MessagingAssumption DEF Ids
<1> QED BY <1>1 DEF From, Only

\* A handshake under way is one of those that were made.
LEMMA SecretType ==
    ASSUME TypeOK, NEW s \in DOMAIN handshakes
    PROVE  /\ s \in Secrets /\ handshakes[s] \in Handshake /\ DOMAIN handshakes = 1..Len(handshakes)
           /\ Len(handshakes) \in Nat
<1>1. DOMAIN handshakes = 1..Len(handshakes) /\ Len(handshakes) \in Nat /\ Len(handshakes) <= MaxHandshakes
  BY LenProperties DEF TypeOK
<1>2. handshakes[s] \in Handshake
  BY <1>1, ElementOfSeq DEF TypeOK
<1> QED BY <1>1, <1>2, MessagingAssumption DEF Secrets

\* A message is one the server has.
LEMMA MessageType ==
    ASSUME TypeOK, NEW i \in DOMAIN messages
    PROVE  /\ i \in Ids /\ messages[i] \in Message /\ DOMAIN messages = 1..Len(messages)
           /\ SenderOf(i) \in Participants /\ messages[i].key[1] \in Secrets
           /\ messages[i].key \in Key /\ messages[i].payload \in BOOLEAN
<1>1. DOMAIN messages = 1..Len(messages) /\ Len(messages) \in Nat /\ Len(messages) <= MaxMessages
  BY LenProperties DEF TypeOK
<1>2. messages[i] \in Message
  BY <1>1, ElementOfSeq DEF TypeOK
<1>3. messages[i].key \in Key /\ messages[i].payload \in BOOLEAN
  BY <1>2 DEF Message
<1> QED BY <1>1, <1>2, <1>3, MessagingAssumption DEF Ids, SenderOf, Key

\* Steps of sendMessage before a session is at hand keep every type.
LEMMA EstablishType ==
    ASSUME TypeOK, StageInv, SessionsInv, NEW t \in Tasks,
           \/ \E p \in Participants, conv \in BOOLEAN : StartSend(t, p, conv)
           \/ FetchPrekeyBundle(t) \/ RecipientNotSetUp(t) \/ DeriveSharedSecret(t)
    PROVE  TypeOK'
<1> USE DEF device, server, history, Ensuring, Sending, Syncing, Recording, Holding, Dev
<1>a. task[t] # None => task[t] \in Task /\ task[t].dev \in Participants
  BY TaskFields
<1>1. ASSUME NEW p \in Participants, NEW conv \in BOOLEAN, StartSend(t, p, conv) PROVE TypeOK'
  <2>1. PICK h \in {0, cached[p]} :
           /\ GetCachedSessionHandle(p, h) \/ (h = 0 /\ UNCHANGED faults)
           /\ Begins(t, p, "send", IF h = 0 THEN "fetching" ELSE "encrypting", conv, h, {})
    BY <1>1 DEF StartSend
  <2>2. h \in {0} \cup Handles /\ (h # 0 => ratchet[h].owner = p) /\ {} \in SUBSET Ids
    BY DEF TypeOK, SessionsInv
  <2>3. ratchet' = ratchet /\ UNCHANGED <<device, server, history>>
    BY <1>1 DEF StartSend
  <2>4. CASE h = 0
    <3>1. TasksTyped' /\ tasks' \in 0..MaxTasks
      BY <2>1, <2>2, <2>3, <2>4, BeginsType
    <3>2. StoresTyped'
      BY <2>1, <2>3, <3>1, TypeParts, FaultType DEF StoresTyped, Handles, GetCachedSessionHandle
    <3> QED BY <3>1, <3>2, TypeParts
  <2>5. CASE h # 0
    <3>1. TasksTyped' /\ tasks' \in 0..MaxTasks
      BY <2>1, <2>2, <2>3, <2>5, BeginsType
    <3>2. StoresTyped'
      BY <2>1, <2>3, <3>1, TypeParts, FaultType DEF StoresTyped, Handles, GetCachedSessionHandle
    <3> QED BY <3>1, <3>2, TypeParts
  <2> QED BY <2>4, <2>5
<1>2. CASE FetchPrekeyBundle(t)
  <2> DEFINE q == Peer(Dev(t))
             s == Len(handshakes) + 1
  <2>1. /\ task[t] # None /\ task[t] \in Task /\ Dev(t) \in Participants /\ q \in Participants
        /\ published[q] \in Bundles /\ ratchet' = ratchet /\ task[t].at = "fetching"
    BY <1>2, <1>a, PeerProperties DEF FetchPrekeyBundle, At, TypeOK
  <2>2. PICK n \in {0} \cup Bundles :
           /\ Claim(q, n)
           /\ \/ /\ Len(handshakes) < MaxHandshakes
                 /\ handshakes' = Append(handshakes,
                       [by |-> Dev(t), signed |-> published[q], oneTime |-> n])
                 /\ Goes(t, [task[t] EXCEPT !.at = "ensuring", !.secret = s])
                 /\ UNCHANGED faults
              \/ Ends(t) /\ Fault /\ UNCHANGED handshakes
    BY <1>2 DEF FetchPrekeyBundle
  <2>3. pool' \in [Participants -> SUBSET Bundles]
    <3>1. pool \in [Participants -> SUBSET Bundles]
      BY DEF TypeOK
    <3>2. CASE n = 0
      BY <2>2, <3>1, <3>2 DEF Claim
    <3>3. CASE n # 0
      <4>1. pool' = [pool EXCEPT ![q] = @ \ {n}]
        BY <2>2, <3>3 DEF Claim
      <4> QED BY <2>1, <3>1, <4>1
    <3> QED BY <3>2, <3>3
  <2>4. CASE Ends(t) /\ Fault /\ UNCHANGED handshakes
    <3>1. TasksTyped'
      BY <2>1, <2>4, EndsType
    <3>2. StoresTyped'
      BY <1>2, <2>3, <2>4, TypeParts, FaultType DEF StoresTyped, Handles, FetchPrekeyBundle
    <3> QED BY <3>1, <3>2, TypeParts
  <2>5. CASE /\ Len(handshakes) < MaxHandshakes
             /\ handshakes' = Append(handshakes,
                   [by |-> Dev(t), signed |-> published[q], oneTime |-> n])
             /\ Goes(t, [task[t] EXCEPT !.at = "ensuring", !.secret = s])
             /\ UNCHANGED faults
    <3> DEFINE c == [by |-> Dev(t), signed |-> published[q], oneTime |-> n]
               r == [task[t] EXCEPT !.at = "ensuring", !.secret = s]
    <3>1. handshakes \in Seq(Handshake) /\ Len(handshakes) \in Nat /\ c \in Handshake
      BY <2>1, LenProperties DEF TypeOK, Handshake
    <3>2. handshakes' \in Seq(Handshake) /\ Len(handshakes') <= MaxHandshakes
      BY <2>5, <3>1, AppendProperties, MessagingAssumption
    <3>3. s \in 0..MaxHandshakes
      BY <2>5, <3>1, MessagingAssumption
    <3>4. r \in Task /\ r.handle = task[t].handle /\ r.at = "ensuring"
      BY <2>1, <3>3 DEF Task
    <3>5. TasksTyped'
      <4>1. task[t].handle \in {0} \cup Handles
        BY <2>1 DEF TypeOK
      <4> QED BY <2>1, <2>5, <3>4, <4>1, TaskStep
    <3>6. StoresTyped'
      BY <1>2, <2>3, <2>5, <3>2, TypeParts DEF StoresTyped, Handles, FetchPrekeyBundle
    <3> QED BY <3>5, <3>6, TypeParts
  <2> QED BY <2>2, <2>4, <2>5
<1>3. CASE RecipientNotSetUp(t)
  <2>1. TasksTyped'
    BY <1>3, EndsType DEF RecipientNotSetUp
  <2>2. StoresTyped'
    BY <1>3, TypeParts DEF RecipientNotSetUp, StoresTyped, Handles
  <2> QED BY <2>1, <2>2, TypeParts
<1>4. CASE DeriveSharedSecret(t)
  <2>1. task[t] # None /\ task[t].at = "deriving" /\ task[t].secret \in DOMAIN handshakes
    BY <1>4, <1>a DEF DeriveSharedSecret, At, StageInv, Staged, Task
  <2> QED BY <1>4, <2>1, SecretType, RegisterType DEF DeriveSharedSecret
<1> QED BY <1>1, <1>2, <1>3, <1>4

\* Steps of sendMessage on a session's chain keep every type.
LEMMA EncryptType ==
    ASSUME TypeOK, NEW t \in Tasks, ReadSendingChain(t) \/ AdvanceSendingChain(t)
    PROVE  TypeOK'
<1> USE DEF device, server, history, Ensuring, Sending, Syncing, Recording, Holding, Dev
<1>a. task[t] # None => task[t] \in Task /\ task[t].dev \in Participants
  BY TaskFields
<1>1. CASE ReadSendingChain(t)
  <2> DEFINE n == ratchet[task[t].handle].sent
             m == ratchet[task[t].handle].received
             r == [task[t] EXCEPT !.at = "advancing", !.position = n, !.opposite = m]
  <2>1. /\ task[t] # None /\ task[t].at = "encrypting" /\ task[t] \in Task /\ Goes(t, r)
        /\ ratchet' = ratchet
    BY <1>1, <1>a DEF ReadSendingChain, At
  <2>2. n \in Nat /\ m \in Nat
    BY <2>1, MessageKeyType DEF Session
  <2>3. r \in Task /\ r.handle = task[t].handle /\ r.dev = task[t].dev
    BY <2>1, <2>2 DEF Task
  <2>4. task[t].handle \in Handles /\ ratchet[task[t].handle].owner = task[t].dev
    BY <2>1 DEF TypeOK
  <2>5. TasksTyped'
    BY <2>1, <2>3, <2>4, TaskStep
  <2>6. StoresTyped'
    BY <1>1, TypeParts DEF ReadSendingChain, StoresTyped, Handles
  <2> QED BY <2>5, <2>6, TypeParts
<1>2. CASE AdvanceSendingChain(t)
  <2> DEFINE h == task[t].handle
             s == Written(ratchet[h], task[t].position + 1, task[t].opposite)
             stage == IF task[t].conv THEN "delivering" ELSE "creating"
             r == [task[t] EXCEPT !.at = stage]
  <2>1. /\ task[t] # None /\ task[t].at = "advancing" /\ task[t] \in Task /\ Goes(t, r)
        /\ task[t].position \in Nat /\ task[t].opposite \in Nat
    BY <1>2, <1>a, TaskFields DEF AdvanceSendingChain, At, Moves
  <2>2. h \in Handles /\ ratchet[h].owner = task[t].dev /\ ratchet[h] \in Session /\ MessageKey(t) \in Key
    BY <2>1, MessageKeyType DEF TypeOK
  <2>3. s \in Session /\ s.owner = ratchet[h].owner /\ s.secret = ratchet[h].secret
    <3>1. ratchet[h] \in Session /\ task[t].position + 1 \in Nat /\ task[t].opposite \in Nat
      BY <2>1, <2>2
    <3>2. s \in Session
      BY <3>1, WrittenType
    <3>3. s.owner = ratchet[h].owner /\ s.secret = ratchet[h].secret /\ s.sent = task[t].position + 1
      BY <3>1, WrittenFields
    <3> QED BY <3>2, <3>3
  <2>4. ratchet' = [ratchet EXCEPT ![h] = s]
    BY <1>2 DEF AdvanceSendingChain
  <2>5. ratchet' \in Seq(Session) /\ Handles' = Handles /\ \A g \in Handles : ratchet'[g].owner = ratchet[g].owner
    BY <2>2, <2>3, <2>4, ChainType
  <2>6. r \in Task /\ r.handle = h /\ r.dev = task[t].dev
    BY <2>1 DEF Task
  <2>7. TasksTyped'
    BY <2>1, <2>2, <2>5, <2>6, TaskChainStep
  <2>8. StoresTyped'
    <3>1. encrypted' \subseteq Key /\ reused' \subseteq encrypted'
      BY <1>2, <2>2 DEF AdvanceSendingChain, TypeOK
    <3>2. StoresTyped
      BY TypeParts
    <3> QED BY <1>2, <2>5, <3>1, <3>2 DEF AdvanceSendingChain, StoresTyped
  <2> QED BY <2>7, <2>8, TypeParts
<1> QED BY <1>1, <1>2

\* Steps of sendMessage after the message is encrypted keep every type.
LEMMA DeliverType ==
    ASSUME TypeOK, NEW t \in Tasks,
           \/ CreateConversation(t) \/ DeliverMessage(t) \/ RequestFails(t) \/ SetCachedSessionHandle(t)
    PROVE  TypeOK'
<1> USE DEF device, server, history, Ensuring, Sending, Syncing, Recording, Holding, Dev
<1>a. task[t] # None => task[t] \in Task /\ task[t].dev \in Participants
  BY TaskFields
<1>1. CASE CreateConversation(t)
  <2>1. TasksTyped'
    BY <1>1, MovesType, EndsType DEF CreateConversation, At
  <2>2. StoresTyped'
    BY <1>1, TypeParts, FaultType DEF CreateConversation, StoresTyped, Handles
  <2> QED BY <2>1, <2>2, TypeParts
<1>2. CASE DeliverMessage(t)
  <2> DEFINE p == Dev(t)
             i == Len(messages) + 1
             m == [key |-> MessageKey(t), payload |-> task[t].fresh]
             r == [task[t] EXCEPT !.at = "remembering", !.id = i, !.found = [NoRows EXCEPT !.plain = {i}]]
  <2>1. /\ task[t] # None /\ task[t].at = "delivering" /\ task[t] \in Task /\ i \in Ids
        /\ messages' = Append(messages, m) /\ ratchet' = ratchet /\ p \in Participants
    BY <1>2, <1>a DEF DeliverMessage, At
  <2>2. MessageKey(t) \in Key /\ task[t].fresh \in BOOLEAN
    BY <2>1, MessageKeyType DEF Task
  <2>3. m \in Message
    BY <2>2 DEF Message
  <2>4. messages' \in Seq(Message) /\ Len(messages') = i /\ i <= MaxMessages
    BY <2>1, <2>3, AppendProperties, LenProperties, MessagingAssumption DEF TypeOK, Ids
  <2>7. hidden' \subseteq Ids
    BY <1>2, <2>1 DEF DeliverMessage, TypeOK
  <2>5. ASSUME Goes(t, r), UNCHANGED <<faults, spoiled>> PROVE TypeOK'
    <3>1. [NoRows EXCEPT !.plain = {i}] \in Rows
      BY <2>1 DEF NoRows, Rows
    <3>6. i \in 0..MaxMessages
      BY <2>1, MessagingAssumption DEF Ids
    <3>2. r \in Task /\ r.handle = task[t].handle /\ r.dev = task[t].dev
      BY <2>1, <3>1, <3>6 DEF Task
    <3>3. task[t].handle \in Handles /\ ratchet[task[t].handle].owner = task[t].dev
      BY <2>1 DEF TypeOK
    <3>4. TasksTyped'
      BY <2>1, <2>5, <3>2, <3>3, TaskStep
    <3>5. StoresTyped'
      BY <1>2, <2>4, <2>5, <2>7, TypeParts DEF DeliverMessage, StoresTyped, Handles
    <3> QED BY <3>4, <3>5, TypeParts
  <2>6. ASSUME Ends(t), Fault,
               spoiled' = spoiled \cup Only(p, p, {i})
                                  \cup (IF task[t].fresh THEN From(p, Peer(p), i) ELSE {})
        PROVE  TypeOK'
    <3>1. spoiled' \subseteq Participants \X Participants \X Ids
      <4>1. p \in Participants /\ Peer(p) \in Participants /\ i \in Ids /\ {i} \in SUBSET Ids
        BY <2>1, PeerProperties
      <4>2. From(p, Peer(p), i) \subseteq Participants \X Participants \X Ids
        BY <4>1, SpoiledTypes
      <4>3. Only(p, p, {i}) \subseteq Participants \X Participants \X Ids
        BY <4>1, SpoiledTypes
      <4>4. spoiled \subseteq Participants \X Participants \X Ids
        BY DEF TypeOK
      <4>5. spoiled' \subseteq spoiled \cup Only(p, p, {i}) \cup From(p, Peer(p), i)
        BY <2>6
      <4> HIDE DEF p, i
      <4> QED BY <4>2, <4>3, <4>4, <4>5
    <3>2. TasksTyped'
      BY <2>1, <2>6, EndsType
    <3>3. StoresTyped'
      BY <1>2, <2>4, <2>6, <2>7, <3>1, TypeParts, FaultType DEF DeliverMessage, StoresTyped, Handles
    <3> QED BY <3>2, <3>3, TypeParts
  <2> QED BY <1>2, <2>5, <2>6 DEF DeliverMessage
<1>3. CASE RequestFails(t)
  <2>1. TasksTyped'
    BY <1>3, EndsType DEF RequestFails
  <2>2. StoresTyped'
    BY <1>3, TypeParts, FaultType DEF RequestFails, StoresTyped, Handles
  <2> QED BY <2>1, <2>2, TypeParts
<1>4. CASE SetCachedSessionHandle(t)
  <2>1. task[t] # None /\ task[t].at = "remembering" /\ task[t].handle \in Handles
    BY <1>4 DEF SetCachedSessionHandle, At, TypeOK
  <2>2. TasksTyped'
    BY <1>4, <2>1, MovesType DEF SetCachedSessionHandle
  <2>3. cached' \in [Participants -> {0} \cup Handles]
    BY <1>4, <2>1 DEF SetCachedSessionHandle, TypeOK
  <2>4. StoresTyped'
    BY <1>4, <2>3, TypeParts DEF SetCachedSessionHandle, StoresTyped, Handles
  <2> QED BY <2>2, <2>4, TypeParts
<1> QED BY <1>1, <1>2, <1>3, <1>4

\* What is stored is what was found, where the history has no row of its own, and
\* a message has one row.
LEMMA MergedType ==
    ASSUME NEW old \in Rows, NEW new \in Rows,
           old.plain \cap old.gaps = {}, new.plain \cap new.gaps = {}
    PROVE  /\ Merged(old, new) \in Rows
           /\ Merged(old, new).plain \cap Merged(old, new).gaps = {}
BY DEF Merged, Rows

\* A row that cannot be decrypted is one of the device's rows.
LEMMA GapType ==
    ASSUME TypeOK, NEW t \in Tasks, task[t] # None, NEW i \in Ids, Gap(t, i), ratchet' = ratchet
    PROVE  TasksTyped'
<1> DEFINE r == [task[t] EXCEPT !.at = "working", !.found.gaps = @ \cup {i}]
<1>1. task[t] \in Task /\ task[t].found \in Rows /\ task[t].handle \in {0} \cup Handles
  BY TaskFields DEF TypeOK
<1>2. [task[t].found EXCEPT !.gaps = @ \cup {i}] \in Rows
  BY <1>1 DEF Rows
<1>3. r \in Task /\ r.handle = task[t].handle /\ r.at = "working"
  BY <1>1, <1>2 DEF Task, Syncing
<1>4. Goes(t, r)
  BY DEF Gap
<1> QED BY <1>1, <1>3, <1>4, TaskStep DEF Holding

\* The steps of appendRows keep every type: a message has one row.
LEMMA HistoryType ==
    ASSUME TypeOK, StageInv, NEW t \in Tasks, LoadHistory(t) \/ StoreHistory(t)
    PROVE  TypeOK'
<1> USE DEF device, server, history, Ensuring, Sending, Syncing, Recording, Holding, Dev
<1>a. task[t] # None => task[t] \in Task /\ task[t].dev \in Participants
  BY TaskFields
<1>1. CASE LoadHistory(t)
  <2> DEFINE p == Dev(t)
             r(b) == [task[t] EXCEPT !.at = "storing", !.base = b]
  <2>1. /\ task[t] # None /\ task[t] \in Task /\ p \in Participants /\ ratchet' = ratchet
        /\ task[t].handle \in {0} \cup Handles
    BY <1>1, <1>a DEF LoadHistory, At, TypeOK
  <2>2. \A b \in Rows : Goes(t, r(b)) => TasksTyped'
    <3>1. ASSUME NEW b \in Rows, Goes(t, r(b)) PROVE TasksTyped'
      <4>1. r(b) \in Task /\ r(b).handle = task[t].handle /\ r(b).at = "storing"
        BY <2>1 DEF Task
      <4> QED BY <2>1, <3>1, <4>1, TaskStep
    <3> QED BY <3>1
  <2>3. rows[p] \in Rows /\ NoRows \in Rows
    BY <2>1 DEF TypeOK, NoRows, Rows
  <2>4. TasksTyped'
    BY <1>1, <2>2, <2>3 DEF LoadHistory
  <2>5. Known(p) \subseteq Ids
    BY <2>3 DEF Known, Rows
  <2>6. spoiled' \subseteq Participants \X Participants \X Ids /\ faults' \in 0..MaxFaults
    BY <1>1, <2>1, <2>5, SpoiledTypes, PeerProperties, FaultType DEF LoadHistory, Forgets, TypeOK
  <2>7. StoresTyped'
    BY <1>1, <2>6, TypeParts DEF LoadHistory, StoresTyped, Handles
  <2> QED BY <2>4, <2>7, TypeParts
<1>2. CASE StoreHistory(t)
  <2> DEFINE m == Merged(task[t].base, task[t].found)
  <2>1. task[t] # None /\ Dev(t) \in Participants /\ task[t].base \in Rows /\ task[t].found \in Rows
    BY <1>2, <1>a, TaskFields DEF StoreHistory, At
  <2>2. m \in Rows /\ m.plain \cap m.gaps = {}
    BY <2>1, MergedType DEF StageInv, Staged
  <2>3. rows' = [rows EXCEPT ![Dev(t)] = m]
    BY <1>2 DEF StoreHistory
  <2>4. rows' \in [Participants -> Rows] /\ \A q \in Participants : rows'[q].plain \cap rows'[q].gaps = {}
    BY <2>1, <2>2, <2>3 DEF TypeOK
  <2>5. TasksTyped'
    BY <1>2, EndsType DEF StoreHistory
  <2>6. StoresTyped'
    BY <1>2, <2>4, TypeParts DEF StoreHistory, StoresTyped, Handles
  <2> QED BY <2>5, <2>6, TypeParts
<1> QED BY <1>1, <1>2

\* What is disturbed of a sync's messages is known by device, sender and message.
LEMMA OverlapsType ==
    ASSUME TypeOK, NEW t \in Tasks, task[t] # None, NEW new \in SUBSET DOMAIN messages
    PROVE  /\ Overlaps(t, new) \subseteq Participants \X Participants \X Ids
           /\ Skips(t, new) \subseteq Participants \X Participants \X Ids
<1> DEFINE p == Dev(t)
           others == {u \in Tasks \ {t} : task[u] # None /\ Dev(u) = p}
           A == {i \in new : SenderOf(i) # p /\
                  \E u \in others : i \in task[u].listed \ task[u].known}
           C == {j \in new : SenderOf(j) # p /\
                  \E i \in 1..(j - 1) : SenderOf(i) = SenderOf(j) /\ i \notin task[t].known \cup new}
           B == {i \in new : \E u \in others : task[u].kind = "send" /\ task[u].id = i}
<1>1. p \in Participants
  BY TaskFields DEF Dev
<1>2. \A i \in new : i \in Ids /\ SenderOf(i) \in Participants
  BY MessageType
<1>3. \A i \in new : From(p, SenderOf(i), i) \subseteq Participants \X Participants \X Ids
  BY <1>1, <1>2, SpoiledTypes
<1>4. Only(p, p, B) \subseteq Participants \X Participants \X Ids
  BY <1>1, <1>2, SpoiledTypes
<1> DEFINE All == Participants \X Participants \X Ids
           U(S) == UNION {From(p, SenderOf(i), i) : i \in S}
<1>6. ASSUME NEW S \in SUBSET new, NEW x \in U(S) PROVE x \in All
  <2>1. PICK i \in S : x \in From(p, SenderOf(i), i)
    BY <1>6
  <2> QED BY <2>1, <1>3
<1>5. Overlaps(t, new) = U(A) \cup Only(p, p, B) /\ Skips(t, new) = U(C)
  BY DEF Overlaps, Skips
<1>7. Only(p, p, B) \subseteq All /\ A \in SUBSET new /\ C \in SUBSET new
  BY <1>4
<1> HIDE DEF A, B, C, All, p, U
<1>8. Overlaps(t, new) \subseteq All /\ Skips(t, new) \subseteq All
  BY <1>5, <1>6, <1>7
<1> QED BY <1>8 DEF All

\* A sync reads these messages.
Reads(t, listed) ==
    LET new == listed \ task[t].known
    IN  /\ At(t, "listing")
        /\ Goes(t, [task[t] EXCEPT !.at = "working", !.listed = listed,
                                   !.found.gaps = {i \in new : SenderOf(i) = Dev(t)}])
        /\ spoiled' = spoiled \cup Overlaps(t, new) \cup Skips(t, new)
        /\ UNCHANGED <<device, server, tasks, generated, handshakes, encrypted, reused, consumed>>

\* What a sync lists it reads, in however many pages.
LEMMA ListReads ==
    ASSUME TypeOK, NEW t \in Tasks, ListMessages(t)
    PROVE  faults' \in 0..MaxFaults /\ \E listed \in SUBSET DOMAIN messages : Reads(t, listed)
<1>1. PICK pages \in 0..MaxPages :
         /\ Reads(t, Newest(PageLimit * pages))
         /\ IF Newest(PageLimit * pages) = Visible \/ pages = MaxPages THEN UNCHANGED faults ELSE Fault
  BY DEF ListMessages, Reads
<1>2. Newest(PageLimit * pages) \subseteq DOMAIN messages
  BY DEF Newest, Visible
<1>3. faults' \in 0..MaxFaults
  BY <1>1, FaultType DEF TypeOK
<1> QED BY <1>1, <1>2, <1>3

\* What a sync has yet to open is a message of the server's.
LEMMA PendingType ==
    ASSUME TypeOK, StageInv, NEW t \in Tasks, task[t] # None, task[t].kind = "sync", NEW i \in Pending(t)
    PROVE  /\ i \in DOMAIN messages /\ i \in task[t].listed
           /\ i \notin task[t].found.plain \cup task[t].found.gaps /\ i \notin task[t].known
BY DEF Pending, StageInv, Staged

\* The steps of syncThreadHistory that list and look up keep every type.
LEMMA SyncType ==
    ASSUME TypeOK, StageInv, SessionsInv, NEW t \in Tasks,
           \/ \E p \in Participants : StartSync(t, p)
           \/ ListMessages(t) \/ SyncDone(t) \/ LookUpSession(t)
    PROVE  TypeOK'
<1> USE DEF device, server, history, Ensuring, Sending, Syncing, Recording, Holding, Dev
<1>a. task[t] # None => task[t] \in Task /\ task[t].dev \in Participants /\ task[t].handle \in {0} \cup Handles
  BY TaskFields DEF TypeOK
<1>1. ASSUME NEW p \in Participants, StartSync(t, p) PROVE TypeOK'
  <2> DEFINE Starts(known) == Begins(t, p, "sync", "listing", TRUE, 0, known)
  <2>3. Known(p) \in SUBSET Ids /\ {} \in SUBSET Ids /\ ratchet' = ratchet
    BY <1>1 DEF TypeOK, Known, Rows, StartSync
  <2>4. Starts(Known(p)) \/ Starts({})
    BY <1>1 DEF StartSync
  <2>5. ASSUME NEW known \in SUBSET Ids, Starts(known) PROVE TasksTyped' /\ tasks' \in 0..MaxTasks
    BY <2>3, <2>5, BeginsType
  <2>1. TasksTyped' /\ tasks' \in 0..MaxTasks
    BY <2>3, <2>4, <2>5
  <2>2. StoresTyped'
    BY <1>1, <2>1, TypeParts, FaultType DEF StartSync, StoresTyped, Handles
  <2> QED BY <2>1, <2>2, TypeParts
<1>2. CASE ListMessages(t)
  <2>a. PICK listed \in SUBSET DOMAIN messages : Reads(t, listed)
    BY <1>2, ListReads
  <2> DEFINE new == listed \ task[t].known
             own == {i \in new : SenderOf(i) = Dev(t)}
             r == [task[t] EXCEPT !.at = "working", !.listed = listed, !.found.gaps = own]
  <2>1. task[t] # None /\ ratchet' = ratchet /\ Goes(t, r) /\ task[t].found \in Rows
    BY <2>a, TaskFields DEF Reads, At
  <2>2. own \subseteq Ids
    BY MessageType
  <2>3. listed \in SUBSET Ids /\ new \in SUBSET DOMAIN messages
    BY MessageType
  <2>4. [task[t].found EXCEPT !.gaps = own] \in Rows
    BY <2>1, <2>2 DEF Rows
  <2>5. r \in Task /\ r.handle = task[t].handle /\ r.at = "working"
    BY <1>a, <2>1, <2>3, <2>4 DEF Task
  <2>6. TasksTyped'
    BY <1>a, <2>1, <2>5, TaskStep
  <2>7. spoiled' \subseteq Participants \X Participants \X Ids
    <3>1. spoiled' = spoiled \cup Overlaps(t, new) \cup Skips(t, new)
      BY <2>a DEF Reads
    <3>2. spoiled \subseteq Participants \X Participants \X Ids
      BY DEF TypeOK
    <3> HIDE DEF new
    <3> QED BY <2>1, <2>3, <3>1, <3>2, OverlapsType
  <2>8. StoresTyped'
    <3>1. faults' \in 0..MaxFaults
      BY <1>2, ListReads
    <3> QED BY <2>a, <2>7, <3>1, TypeParts DEF Reads, StoresTyped, Handles
  <2> QED BY <2>6, <2>8, TypeParts
<1>3. CASE SyncDone(t)
  <2>1. TasksTyped'
    BY <1>3, MovesType, EndsType DEF SyncDone, At
  <2>2. StoresTyped'
    BY <1>3, TypeParts DEF SyncDone, StoresTyped, Handles
  <2> QED BY <2>1, <2>2, TypeParts
<1>4. CASE LookUpSession(t)
  <2> DEFINE p == Dev(t)
  <2>1. /\ task[t] # None /\ task[t] \in Task /\ p \in Participants /\ task[t].kind = "sync"
        /\ task[t].handle \in {0} \cup Handles /\ ratchet' = ratchet
    BY <1>4, <1>a DEF LookUpSession, At, StageInv, Staged, Task
  <2>2. PICK i \in Pending(t), h \in {0, cached[p]} :
              /\ GetCachedSessionHandle(p, h)
              /\ IF h # 0
                 THEN Goes(t, [task[t] EXCEPT !.at = "decrypting", !.id = i, !.handle = h])
                 ELSE IF messages[i].payload
                      THEN Goes(t, [task[t] EXCEPT !.at = "completing", !.id = i, !.secret = messages[i].key[1]])
                      ELSE Gap(t, i)
              /\ spoiled' = spoiled \cup (IF h # cached[p] \/ (h = 0 /\ Unanswerable(p))
                                         THEN From(p, SenderOf(i), i) ELSE {})
    BY <1>4 DEF LookUpSession
  <2>3. /\ i \in Ids /\ i \in 0..MaxMessages /\ SenderOf(i) \in Participants
        /\ messages[i].key[1] \in Secrets /\ messages[i].key[1] \in 0..MaxHandshakes
    BY <2>1, <2>2, PendingType, MessageType, MessagingAssumption DEF Ids, Secrets
  <2>4. h # 0 => h \in Handles /\ ratchet[h].owner = p /\ h \in Nat
    BY <2>1, <2>2, LenProperties DEF TypeOK, SessionsInv, Handles
  <2>5. TasksTyped'
    <3>1. CASE h # 0
      <4> DEFINE r == [task[t] EXCEPT !.at = "decrypting", !.id = i, !.handle = h]
      <4>1. r \in Task /\ r.handle = h /\ r.dev = p
        BY <2>1, <2>3, <2>4, <3>1 DEF Task
      <4> QED BY <2>1, <2>2, <2>4, <3>1, <4>1, TaskStep
    <3>2. CASE h = 0 /\ messages[i].payload
      <4> DEFINE r == [task[t] EXCEPT !.at = "completing", !.id = i, !.secret = messages[i].key[1]]
      <4>1. r \in Task /\ r.handle = task[t].handle /\ r.at = "completing"
        BY <2>1, <2>3 DEF Task
      <4> QED BY <2>1, <2>2, <3>2, <4>1, TaskStep
    <3>3. CASE h = 0 /\ ~messages[i].payload
      BY <2>1, <2>2, <2>3, <3>3, GapType
    <3> QED BY <3>1, <3>2, <3>3
  <2>6. spoiled' \subseteq Participants \X Participants \X Ids
    BY <2>1, <2>2, <2>3, SpoiledTypes DEF TypeOK
  <2>7. faults' \in 0..MaxFaults
    BY <2>2, FaultType DEF GetCachedSessionHandle, TypeOK
  <2>8. StoresTyped'
    BY <1>4, <2>6, <2>7, TypeParts DEF LookUpSession, StoresTyped, Handles
  <2> QED BY <2>5, <2>8, TypeParts
<1> QED BY <1>1, <1>2, <1>3, <1>4

\* The steps that receive a message keep every type.
LEMMA ReceiveType ==
    ASSUME TypeOK, StageInv, PrekeyInv, NEW t \in Tasks,
           \/ CompleteSharedSecret(t) \/ ReceiveFails(t) \/ ConsumeOneTimePrekey(t) \/ RegisterResponder(t)
           \/ ReadReceivingChain(t) \/ AdvanceReceivingChain(t)
    PROVE  TypeOK'
<1> USE DEF device, server, history, Ensuring, Sending, Syncing, Recording, Holding, Dev
<1>1. /\ task[t] # None /\ task[t] \in Task /\ task[t].dev \in Participants
      /\ task[t].kind = "sync" /\ task[t].id \in DOMAIN messages /\ task[t].id \in Ids
  <2>1. task[t] # None /\ task[t] \in Task /\ task[t].dev \in Participants
    BY TaskFields DEF CompleteSharedSecret, ReceiveFails, ConsumeOneTimePrekey,
          RegisterResponder, ReadReceivingChain, AdvanceReceivingChain, At
  <2>2. task[t].at \in Receiving /\ task[t].kind = "sync"
    BY <2>1 DEF CompleteSharedSecret, ReceiveFails, ConsumeOneTimePrekey, StageInv, Staged, Task,
          RegisterResponder, ReadReceivingChain, AdvanceReceivingChain, At, Receiving
  <2> QED BY <2>1, <2>2, MessageType DEF StageInv, Staged
<1>2. CASE CompleteSharedSecret(t)
  <2>1. TasksTyped'
    BY <1>1, <1>2, GapType, MovesType DEF CompleteSharedSecret
  <2>2. StoresTyped'
    BY <1>2, TypeParts DEF CompleteSharedSecret, StoresTyped, Handles
  <2> QED BY <2>1, <2>2, TypeParts
<1>3. CASE ReceiveFails(t)
  <2>1. TasksTyped'
    BY <1>1, <1>3, GapType DEF ReceiveFails
  <2>2. spoiled' \subseteq Participants \X Participants \X Ids
    BY <1>1, <1>3, SpoiledTypes, PeerProperties DEF ReceiveFails, TypeOK
  <2>3. StoresTyped'
    BY <1>3, <2>2, TypeParts, FaultType DEF ReceiveFails, StoresTyped, Handles
  <2> QED BY <2>1, <2>3, TypeParts
<1>4. CASE ConsumeOneTimePrekey(t)
  <2> DEFINE n == handshakes[task[t].secret].oneTime
             s == task[t].secret
  <2>1. s \in DOMAIN handshakes /\ s \in Secrets
    BY <1>1, <1>4, SecretType DEF ConsumeOneTimePrekey, At, StageInv, Staged
  <2>2. TasksTyped'
    BY <1>1, <1>4, MovesType DEF ConsumeOneTimePrekey
  <2>3. oneTimePrekeys' \in [Participants -> SUBSET Bundles]
    BY <1>1, <1>4 DEF ConsumeOneTimePrekey, TypeOK
  <2>4. n \in Bundles
    BY <1>4, <2>1, SecretType DEF ConsumeOneTimePrekey, PrekeyInv, ConsumingInv, Handshake
  <2>5. consumed' \subseteq Participants \X Bundles \X Secrets
    BY <1>1, <1>4, <2>1, <2>4 DEF ConsumeOneTimePrekey, TypeOK
  <2>6. StoresTyped'
    BY <1>4, <2>3, <2>5, TypeParts DEF ConsumeOneTimePrekey, StoresTyped, Handles
  <2> QED BY <2>2, <2>6, TypeParts
<1>5. CASE RegisterResponder(t)
  <2>1. task[t].secret \in DOMAIN handshakes
    BY <1>1, <1>5 DEF RegisterResponder, At, StageInv, Staged
  <2> QED BY <1>1, <1>5, <2>1, SecretType, RegisterType DEF RegisterResponder
<1>6. CASE ReadReceivingChain(t)
  <2> DEFINE n == ratchet[task[t].handle].received
             m == ratchet[task[t].handle].sent
             r == [task[t] EXCEPT !.at = "opening", !.position = n, !.opposite = m]
  <2>1. task[t].at = "decrypting" /\ ratchet' = ratchet
    BY <1>6 DEF ReadReceivingChain, At
  <2>2. n \in Nat /\ m \in Nat /\ task[t].handle \in Handles /\ ratchet[task[t].handle].owner = task[t].dev
    BY <1>1, <2>1, MessageKeyType DEF Session, TypeOK
  <2>3. r \in Task /\ r.handle = task[t].handle /\ r.dev = task[t].dev
    BY <1>1, <2>2 DEF Task
  <2>4. Goes(t, r) \/ Gap(t, task[t].id)
    BY <1>6 DEF ReadReceivingChain
  <2>5. TasksTyped'
    BY <1>1, <2>1, <2>2, <2>3, <2>4, GapType, TaskStep
  <2>6. StoresTyped'
    BY <1>6, TypeParts DEF ReadReceivingChain, StoresTyped, Handles
  <2> QED BY <2>5, <2>6, TypeParts
<1>7. CASE AdvanceReceivingChain(t)
  <2> DEFINE h == task[t].handle
             s == Written(ratchet[h], task[t].opposite, task[t].position + 1)
             r == [task[t] EXCEPT !.at = "working", !.found.plain = @ \cup {task[t].id}]
  <2>1. /\ task[t].at = "opening" /\ task[t].position \in Nat /\ task[t].opposite \in Nat
        /\ task[t].found \in Rows /\ Goes(t, r)
    BY <1>1, <1>7, TaskFields DEF AdvanceReceivingChain, At
  <2>2. h \in Handles /\ ratchet[h].owner = task[t].dev /\ ratchet[h] \in Session
    BY <1>1, <2>1, MessageKeyType DEF TypeOK
  <2>3. s \in Session /\ s.owner = ratchet[h].owner /\ s.secret = ratchet[h].secret
    <3>1. ratchet[h] \in Session /\ task[t].opposite \in Nat /\ task[t].position + 1 \in Nat
      BY <2>1, <2>2
    <3>2. s \in Session
      BY <3>1, WrittenType
    <3>3. s.owner = ratchet[h].owner /\ s.secret = ratchet[h].secret /\ s.sent = task[t].opposite
      BY <3>1, WrittenFields
    <3> QED BY <3>2, <3>3
  <2>4. ratchet' = [ratchet EXCEPT ![h] = s]
    BY <1>7 DEF AdvanceReceivingChain
  <2>5. ratchet' \in Seq(Session) /\ Handles' = Handles /\ \A g \in Handles : ratchet'[g].owner = ratchet[g].owner
    BY <2>2, <2>3, <2>4, ChainType
  <2>6. [task[t].found EXCEPT !.plain = @ \cup {task[t].id}] \in Rows
    BY <1>1, <2>1 DEF Rows
  <2>7. r \in Task /\ r.handle = h /\ r.dev = task[t].dev
    BY <1>1, <2>6 DEF Task
  <2>8. TasksTyped'
    BY <2>1, <2>2, <2>5, <2>7, TaskChainStep
  <2>9. StoresTyped
    BY TypeParts
  <2>10. StoresTyped'
    BY <1>7, <2>5, <2>9 DEF AdvanceReceivingChain, StoresTyped
  <2> QED BY <2>8, <2>10, TypeParts
<1> QED BY <1>2, <1>3, <1>4, <1>5, <1>6, <1>7

\* What a restart loses is known by device, sender and message.
LEMMA LostType ==
    ASSUME TypeOK, StageInv, NEW t \in Tasks, task[t] # None
    PROVE  LostWith(t) \subseteq Participants \X Participants \X Ids
<1> DEFINE p == Dev(t)
<1>1. p \in Participants /\ Peer(p) \in Participants /\ task[t].found \in Rows
  BY TaskFields, PeerProperties DEF Dev
<1>2. task[t].found.plain \subseteq Ids
  BY <1>1 DEF Rows
<1>3. task[t].at = "remembering" \/ At(t, "registering") => task[t].id \in Ids
  BY MessageType DEF At, StageInv, Staged, Receiving
<1> QED BY <1>1, <1>2, <1>3, SpoiledTypes DEF LostWith

\* A restart keeps every type.
LEMMA RestartType ==
    ASSUME TypeOK, StageInv, NEW p \in Participants, Restart(p)
    PROVE  TypeOK'
<1> USE DEF device, server
<1> DEFINE running == {t \in Tasks : task[t] # None /\ Dev(t) = p}
<1>1. \A t \in running : LostWith(t) \subseteq Participants \X Participants \X Ids
  BY LostType
<1>2. spoiled' = spoiled \cup UNION {LostWith(t) : t \in running}
  BY DEF Restart
<1>3. spoiled' \subseteq Participants \X Participants \X Ids
  BY <1>1, <1>2 DEF TypeOK
<1>4. task' = [t \in Tasks |-> IF t \in running THEN None ELSE task[t]] /\ ratchet' = ratchet
  BY DEF Restart
<1>5. TasksTyped'
  BY <1>4 DEF TypeOK, TasksTyped, Handles
<1>6. StoresTyped'
  BY <1>3, TypeParts, FaultType DEF Restart, StoresTyped, Handles
<1> QED BY <1>5, <1>6, TypeParts

\* All but what has yet to commit.
aside == <<device, published, pool, created, messages, task, tasks, faults, history>>

\* A step of the system is one of these.
LEMMA NextCases ==
    ASSUME [Next]_vars
    PROVE  \/ \E t \in Tasks, p \in Participants : StartEnsure(t, p) \/ StartSync(t, p)
           \/ \E t \in Tasks, p \in Participants, conv \in BOOLEAN : StartSend(t, p, conv)
           \/ \E t \in Tasks : Runs(t)
           \/ \E p \in Participants : Restart(p)
           \/ UNCHANGED aside /\ hidden' \subseteq hidden
BY DEF Next, CommitMessage, vars, aside, server

\* Every step keeps every type.
LEMMA TypeStep == IInv /\ [Next]_vars => TypeOK'
<1> SUFFICES ASSUME IInv, [Next]_vars PROVE TypeOK'
  OBVIOUS
<1> USE DEF IInv
<1>1. ASSUME NEW t \in Tasks, NEW p \in Participants, StartEnsure(t, p) \/ StartSync(t, p) PROVE TypeOK'
  BY <1>1, EnsureType, SyncType
<1>2. ASSUME NEW t \in Tasks, NEW p \in Participants, NEW conv \in BOOLEAN, StartSend(t, p, conv) PROVE TypeOK'
  BY <1>2, EstablishType
<1>3. ASSUME NEW t \in Tasks, Runs(t) PROVE TypeOK'
  BY <1>3, EnsureType, EstablishType, EncryptType, DeliverType, HistoryType, SyncType, ReceiveType DEF Runs
<1>4. ASSUME NEW p \in Participants, Restart(p) PROVE TypeOK'
  BY <1>4, RestartType
<1>5. CASE UNCHANGED aside /\ hidden' \subseteq hidden
  <2>1. TasksTyped' /\ StoresTyped'
    BY <1>5, TypeParts DEF TasksTyped, StoresTyped, Handles, aside, device, history
  <2> QED BY <2>1, TypeParts
<1> QED BY <1>1, <1>2, <1>3, <1>4, <1>5, NextCases

--------------------------------------------------------------------------------
(* What is made stays: handshakes and messages are appended, a session keeps  *)
(* its owner and its secret.                                                *)

Grows ==
    /\ DOMAIN handshakes \subseteq DOMAIN handshakes'
    /\ \A s \in DOMAIN handshakes : handshakes'[s] = handshakes[s]
    /\ DOMAIN messages \subseteq DOMAIN messages' /\ Len(messages) <= Len(messages')
    /\ \A i \in DOMAIN messages : messages'[i] = messages[i]
    /\ Handles \subseteq Handles'
    /\ \A h \in Handles : ratchet'[h].owner = ratchet[h].owner /\ ratchet'[h].secret = ratchet[h].secret

\* Where nothing is made, everything stays.
LEMMA StaysGrows ==
    ASSUME TypeOK, UNCHANGED <<handshakes, messages, ratchet>>
    PROVE  Grows
<1>1. Len(messages) \in Nat
  BY LenProperties DEF TypeOK
<1> QED BY <1>1 DEF Grows, Handles

\* A handshake is added to those there are.
LEMMA FetchGrows ==
    ASSUME TypeOK, NEW s \in Handshake, handshakes' = Append(handshakes, s),
           UNCHANGED <<messages, ratchet>>
    PROVE  /\ Grows /\ Len(handshakes) + 1 \notin DOMAIN handshakes
           /\ DOMAIN handshakes' = DOMAIN handshakes \cup {Len(handshakes) + 1}
           /\ handshakes'[Len(handshakes) + 1] = s
<1>1. handshakes \in Seq(Handshake) /\ Len(handshakes) \in Nat /\ DOMAIN handshakes = 1..Len(handshakes)
      /\ Len(messages) \in Nat
  BY LenProperties DEF TypeOK
<1>2. /\ handshakes' \in Seq(Handshake) /\ Len(handshakes') = Len(handshakes) + 1
      /\ \A i \in 1..Len(handshakes) : handshakes'[i] = handshakes[i]
      /\ handshakes'[Len(handshakes) + 1] = s
  BY <1>1, AppendProperties
<1>3. DOMAIN handshakes' = 1..(Len(handshakes) + 1)
  BY <1>2, LenProperties
<1> QED BY <1>1, <1>2, <1>3 DEF Grows, Handles

\* A message is added to those there are.
LEMMA DeliverGrows ==
    ASSUME TypeOK, NEW m \in Message, messages' = Append(messages, m),
           UNCHANGED <<handshakes, ratchet>>
    PROVE  /\ Grows /\ DOMAIN messages' = DOMAIN messages \cup {Len(messages) + 1}
           /\ messages'[Len(messages) + 1] = m
<1>1. messages \in Seq(Message) /\ Len(messages) \in Nat /\ DOMAIN messages = 1..Len(messages)
  BY LenProperties DEF TypeOK
<1>2. /\ messages' \in Seq(Message) /\ Len(messages') = Len(messages) + 1
      /\ \A i \in 1..Len(messages) : messages'[i] = messages[i]
      /\ messages'[Len(messages) + 1] = m
  BY <1>1, AppendProperties
<1>3. DOMAIN messages' = 1..(Len(messages) + 1)
  BY <1>2, LenProperties
<1> QED BY <1>1, <1>2, <1>3 DEF Grows, Handles

\* The call of a step that needs one is under way.
LEMMA RunsTask ==
    ASSUME TypeOK, NEW t \in Tasks, Runs(t)
    PROVE  task[t] # None /\ task[t] \in Task /\ task[t].dev \in Participants
<1>1. task[t] # None
  BY DEF Runs, AlreadyPublished, GeneratePrekeyBundle, PublishPrekeyBundle, SaveOwnPrekeyIdentity,
     FetchPrekeyBundle, RecipientNotSetUp, DeriveSharedSecret, ReadSendingChain, AdvanceSendingChain,
     CreateConversation, DeliverMessage, RequestFails, SetCachedSessionHandle, LoadHistory, StoreHistory,
     ListMessages, SyncDone, LookUpSession, CompleteSharedSecret, ReceiveFails, ConsumeOneTimePrekey,
     RegisterResponder, ReadReceivingChain, AdvanceReceivingChain, At
<1> QED BY <1>1, TaskFields

\* The chain of the session in hand steps, under the lock of the session: owner and
\* secret stay, and no other session changes.
LEMMA AdvanceChains ==
    ASSUME TypeOK, NEW t \in Tasks, AdvanceSendingChain(t) \/ AdvanceReceivingChain(t)
    PROVE  /\ task[t] # None /\ task[t] \in Task /\ task[t].handle \in Handles
           /\ ratchet[task[t].handle] \in Session /\ ratchet[task[t].handle].owner = task[t].dev
           /\ Handles' = Handles
           /\ \A g \in Handles : /\ g # task[t].handle => ratchet'[g] = ratchet[g]
                                 /\ ratchet'[g].owner = ratchet[g].owner
                                 /\ ratchet'[g].secret = ratchet[g].secret
           /\ AdvanceSendingChain(t) => /\ ratchet'[task[t].handle].sent = task[t].position + 1
                                        /\ ratchet'[task[t].handle].received = task[t].opposite
           /\ AdvanceReceivingChain(t) => /\ ratchet'[task[t].handle].sent = task[t].opposite
                                          /\ ratchet'[task[t].handle].received = task[t].position + 1
<1> DEFINE h == task[t].handle
<1>1. /\ task[t] # None /\ task[t] \in Task /\ task[t].at \in Holding
      /\ task[t].position \in Nat /\ task[t].opposite \in Nat
  BY TaskFields DEF AdvanceSendingChain, AdvanceReceivingChain, At, Holding
<1>2. h \in Handles /\ ratchet[h].owner = task[t].dev /\ ratchet[h] \in Session
  BY <1>1, MessageKeyType DEF TypeOK
<1>3. CASE AdvanceSendingChain(t)
  <2> DEFINE s == Written(ratchet[h], task[t].position + 1, task[t].opposite)
  <2>1. s \in Session /\ s.owner = ratchet[h].owner /\ s.secret = ratchet[h].secret
           /\ s.sent = task[t].position + 1 /\ s.received = task[t].opposite
    <3>1. ratchet[h] \in Session /\ task[t].position + 1 \in Nat /\ task[t].opposite \in Nat
      BY <1>1, <1>2
    <3>2. s \in Session
      BY <3>1, WrittenType
    <3>3. s.owner = ratchet[h].owner /\ s.secret = ratchet[h].secret
           /\ s.sent = task[t].position + 1 /\ s.received = task[t].opposite
      BY <3>1, WrittenFields
    <3> QED BY <3>2, <3>3
  <2>2. ratchet' = [ratchet EXCEPT ![h] = s]
    BY <1>3 DEF AdvanceSendingChain
  <2>3. ~AdvanceReceivingChain(t)
    BY <1>3 DEF AdvanceSendingChain, AdvanceReceivingChain, At
  <2> HIDE DEF s
  <2> QED BY <1>1, <1>2, <2>1, <2>2, <2>3, ChainType
<1>4. CASE AdvanceReceivingChain(t)
  <2> DEFINE s == Written(ratchet[h], task[t].opposite, task[t].position + 1)
  <2>1. s \in Session /\ s.owner = ratchet[h].owner /\ s.secret = ratchet[h].secret
           /\ s.sent = task[t].opposite /\ s.received = task[t].position + 1
    <3>1. ratchet[h] \in Session /\ task[t].opposite \in Nat /\ task[t].position + 1 \in Nat
      BY <1>1, <1>2
    <3>2. s \in Session
      BY <3>1, WrittenType
    <3>3. s.owner = ratchet[h].owner /\ s.secret = ratchet[h].secret
           /\ s.sent = task[t].opposite /\ s.received = task[t].position + 1
      BY <3>1, WrittenFields
    <3> QED BY <3>2, <3>3
  <2>2. ratchet' = [ratchet EXCEPT ![h] = s]
    BY <1>4 DEF AdvanceReceivingChain
  <2>3. ~AdvanceSendingChain(t)
    BY <1>4 DEF AdvanceSendingChain, AdvanceReceivingChain, At
  <2> HIDE DEF s
  <2> QED BY <1>1, <1>2, <2>1, <2>2, <2>3, ChainType
<1> QED BY <1>3, <1>4

\* Registering a session, for either side.
Registers(t) == DeriveSharedSecret(t) \/ RegisterResponder(t)

\* A session is added to those there are, with the secret of the handshake in hand.
LEMMA RegistersSession ==
    ASSUME TypeOK, StageInv, NEW t \in Tasks, Registers(t)
    PROVE  /\ task[t] # None /\ task[t] \in Task /\ task[t].secret \in DOMAIN handshakes
           /\ Handles' = Handles \cup {Len(ratchet) + 1} /\ Len(ratchet) + 1 \notin Handles
           /\ \A h \in Handles : ratchet'[h] = ratchet[h]
           /\ ratchet'[Len(ratchet) + 1] =
                 [owner |-> Dev(t), secret |-> task[t].secret, sent |-> 0, received |-> 0]
           /\ UNCHANGED <<cached, oneTimePrekeys, signedPrekeys, server, history>>
<1>1. /\ task[t] # None /\ task[t] \in Task
      /\ \E stage \in {"encrypting", "remembering"} : RegisterSession(t, stage)
  BY TaskFields DEF Registers, DeriveSharedSecret, RegisterResponder, At
<1>2. task[t].secret \in DOMAIN handshakes
  <2>1. CASE DeriveSharedSecret(t)
    BY <1>1, <2>1 DEF DeriveSharedSecret, At, StageInv, Staged, Ensuring, Syncing, Recording, Task
  <2>2. CASE RegisterResponder(t)
    BY <1>1, <2>2 DEF RegisterResponder, At, StageInv, Staged
  <2> QED BY <2>1, <2>2 DEF Registers
<1>3. task[t].secret \in Secrets
  BY <1>2, SecretType
<1> QED BY <1>1, <1>2, <1>3, RegisterType DEF RegisterSession

\* In every step.
LEMMA GrowsStep ==
    ASSUME IInv, [Next]_vars
    PROVE  Grows
<1> USE DEF device, server, history
<1> TypeOK /\ StageInv
  BY DEF IInv
<1>1. ASSUME NEW t \in Tasks, NEW p \in Participants, StartEnsure(t, p) \/ StartSync(t, p) PROVE Grows
  BY <1>1, StaysGrows DEF StartEnsure, StartSync
<1>2. ASSUME NEW t \in Tasks, NEW p \in Participants, NEW conv \in BOOLEAN, StartSend(t, p, conv) PROVE Grows
  BY <1>2, StaysGrows DEF StartSend
<1>3. ASSUME NEW p \in Participants, Restart(p) PROVE Grows
  BY <1>3, StaysGrows DEF Restart
<1>4. CASE UNCHANGED aside
  BY <1>4, StaysGrows DEF aside
<1>5. ASSUME NEW t \in Tasks, FetchPrekeyBundle(t) PROVE Grows
  <2> DEFINE q == Peer(Dev(t))
  <2>1. /\ task[t] # None /\ Dev(t) \in Participants /\ published[q] \in Bundles
        /\ UNCHANGED <<messages, ratchet>>
    BY <1>5, TaskFields, PeerProperties DEF FetchPrekeyBundle, At, Dev, TypeOK
  <2>2. \A n \in {0} \cup Bundles : [by |-> Dev(t), signed |-> published[q], oneTime |-> n] \in Handshake
    BY <2>1 DEF Handshake
  <2>3. \/ UNCHANGED handshakes
        \/ \E n \in {0} \cup Bundles : handshakes' = Append(handshakes,
              [by |-> Dev(t), signed |-> published[q], oneTime |-> n])
    BY <1>5 DEF FetchPrekeyBundle
  <2> QED BY <2>1, <2>2, <2>3, FetchGrows, StaysGrows
<1>6. ASSUME NEW t \in Tasks, DeliverMessage(t) PROVE Grows
  <2> DEFINE m == [key |-> MessageKey(t), payload |-> task[t].fresh]
  <2>1. task[t] # None /\ task[t].at \in Holding /\ task[t] \in Task
    BY <1>6, TaskFields DEF DeliverMessage, At, Holding
  <2>2. m \in Message
    BY <2>1, MessageKeyType DEF Message, Task
  <2> QED BY <1>6, <2>2, DeliverGrows DEF DeliverMessage
<1>7. ASSUME NEW t \in Tasks, Registers(t) PROVE Grows
  <2>1. Len(messages) \in Nat
    BY LenProperties DEF TypeOK
  <2>2. /\ Handles \subseteq Handles' /\ \A h \in Handles : ratchet'[h] = ratchet[h]
        /\ UNCHANGED <<server, history>>
    BY <1>7, RegistersSession
  <2>3. UNCHANGED <<handshakes, messages>>
    BY <2>2
  <2> QED BY <2>1, <2>2, <2>3 DEF Grows
<1>8. ASSUME NEW t \in Tasks, AdvanceSendingChain(t) \/ AdvanceReceivingChain(t) PROVE Grows
  <2>1. Len(messages) \in Nat /\ UNCHANGED <<handshakes, messages>>
    BY <1>8, LenProperties DEF TypeOK, AdvanceSendingChain, AdvanceReceivingChain
  <2> QED BY <1>8, <2>1, AdvanceChains DEF Grows
<1>9. ASSUME NEW t \in Tasks, Runs(t), ~FetchPrekeyBundle(t), ~DeliverMessage(t), ~Registers(t),
             ~AdvanceSendingChain(t), ~AdvanceReceivingChain(t)
      PROVE  UNCHANGED <<handshakes, messages, ratchet>>
  BY <1>9 DEF Runs, Registers, AlreadyPublished, GeneratePrekeyBundle, PublishPrekeyBundle,
     SaveOwnPrekeyIdentity, RecipientNotSetUp, ReadSendingChain,
     CreateConversation, RequestFails, SetCachedSessionHandle, LoadHistory, StoreHistory,
     ListMessages, SyncDone, LookUpSession, CompleteSharedSecret, ReceiveFails, ConsumeOneTimePrekey,
     ReadReceivingChain
<1>10. ASSUME NEW t \in Tasks, Runs(t) PROVE Grows
  BY <1>5, <1>6, <1>7, <1>8, <1>9, <1>10, StaysGrows
<1> QED BY <1>1, <1>2, <1>3, <1>4, <1>10, NextCases

--------------------------------------------------------------------------------
(* StageInv is inductive.                                                   *)

\* What a call has in hand stays there while others step.
LEMMA StageFrame ==
    ASSUME TypeOK, TypeOK', StageInv, SessionsInv, Grows, NEW u \in Tasks, task[u] # None, task'[u] = task[u]
    PROVE  Staged(u)'
<1>1. Staged(u) /\ task[u] \in Task
  BY TaskFields DEF StageInv
<1>2. task[u].at \in Holding =>
         /\ task[u].handle \in Handles /\ ratchet'[task[u].handle].secret = ratchet[task[u].handle].secret
         /\ ratchet[task[u].handle].secret \in DOMAIN handshakes
  BY DEF TypeOK, SessionsInv, Grows
<1>3. \A s \in DOMAIN handshakes : s \in DOMAIN handshakes' /\ handshakes'[s] = handshakes[s]
  BY DEF Grows
<1>4. /\ \A i \in DOMAIN messages : i \in DOMAIN messages' /\ SenderOf(i)' = SenderOf(i)
  BY DEF Grows, SenderOf
<1>5. task[u].kind = "sync" => task[u].listed \subseteq DOMAIN messages
  BY <1>1 DEF Staged
<1> QED BY <1>1, <1>2, <1>3, <1>4, <1>5 DEF Staged

\* A step of one call.
LEMMA StageStep ==
    ASSUME TypeOK, TypeOK', StageInv, SessionsInv, Grows, NEW t \in Tasks, NEW r, Goes(t, r),
           r # None => Staged(t)'
    PROVE  StageInv'
<1>1. task'[t] = r /\ \A u \in Tasks \ {t} : task'[u] = task[u]
  BY GoesFrame
<1>2. ASSUME NEW u \in Tasks, task'[u] # None PROVE Staged(u)'
  <2>1. CASE u = t
    BY <1>1, <1>2, <2>1
  <2>2. CASE u # t
    BY <1>1, <1>2, <2>2, StageFrame
  <2> QED BY <2>1, <2>2
<1> QED BY <1>2 DEF StageInv

\* What the calls of a step have in hand: a call begins with nothing.
LEMMA BeginsStage ==
    ASSUME TypeOK, TypeOK', StageInv, SessionsInv, UNCHANGED <<handshakes, ratchet, messages>>,
           NEW t \in Tasks, NEW p \in Participants, NEW conv \in BOOLEAN, NEW h,
           NEW known,
           \/ Begins(t, p, "ensure", "ensuring", conv, h, known)
           \/ Begins(t, p, "sync", "listing", conv, h, known)
           \/ \E stage \in {"fetching", "encrypting"} : Begins(t, p, "send", stage, conv, h, known)
    PROVE  StageInv'
<1>1. Grows
  BY StaysGrows
<1>2. PICK kind \in {"ensure", "send", "sync"}, stage \in {"ensuring", "listing", "fetching", "encrypting"} :
         /\ Begins(t, p, kind, stage, conv, h, known)
         /\ kind = "ensure" => stage = "ensuring"
         /\ kind = "sync" => stage = "listing"
         /\ kind = "send" => stage \in {"fetching", "encrypting"}
  OBVIOUS
<1> DEFINE r == [dev |-> p, kind |-> kind, at |-> stage, conv |-> conv, handle |-> h,
                 bundle |-> 0, secret |-> 0, fresh |-> FALSE, position |-> 0, opposite |-> 0,
                 base |-> NoRows, id |-> 0, known |-> known, listed |-> {}, found |-> NoRows]
<1>3. Goes(t, r)
  BY <1>2 DEF Begins
<1>4. task'[t] = r
  BY <1>3, GoesFrame
<1>6. Staged(t)'
  BY <1>2, <1>4 DEF Staged, NoRows, Ensuring, Sending, Syncing, Recording, Receiving, Holding
<1> QED BY <1>1, <1>3, <1>6, StageStep

\* A call that changes its stage, to one that needs no more than it has in hand.
LEMMA MovesStage ==
    ASSUME TypeOK, TypeOK', StageInv, SessionsInv, UNCHANGED <<handshakes, ratchet, messages>>,
           NEW t \in Tasks, task[t] # None, NEW stage, Moves(t, stage), task[t].at # "listing", stage # "listing",
           stage \in Receiving => task[t].at \in Receiving,
           task[t].kind = "ensure" => stage \in Ensuring,
           task[t].kind = "send" => stage \in Ensuring \cup Sending \cup Recording,
           task[t].kind = "sync" => stage \in Syncing \cup Recording,
           stage \in {"publishing", "saving"} => task[t].at \in {"publishing", "saving"},
           task[t].kind = "send" /\ stage \in Ensuring \cup {"deriving"} => task[t].at \in Ensuring \cup {"deriving"},
           stage \in {"completing", "consuming", "registering"} => task[t].at \in {"completing", "consuming", "registering"},
           stage \in Holding => task[t].at \in Holding
    PROVE  StageInv'
<1> DEFINE r == [task[t] EXCEPT !.at = stage]
<1>1. Grows /\ task[t] \in Task /\ Staged(t)
  BY StaysGrows, TaskFields DEF StageInv
<1>2. Goes(t, r)
  BY DEF Moves
<1>3. task'[t] = r
  BY <1>2, GoesFrame
<1>4. /\ r.at = stage /\ r.dev = task[t].dev /\ r.kind = task[t].kind /\ r.handle = task[t].handle
      /\ r.bundle = task[t].bundle /\ r.secret = task[t].secret /\ r.fresh = task[t].fresh
      /\ r.base = task[t].base /\ r.id = task[t].id /\ r.known = task[t].known
      /\ r.listed = task[t].listed /\ r.found = task[t].found
  BY <1>1 DEF Task
<1> HIDE DEF r
<1>5. \A i : SenderOf(i)' = SenderOf(i)
  BY DEF SenderOf
<1>6. Staged(t)'
  BY <1>1, <1>3, <1>4, <1>5 DEF Staged
<1> QED BY <1>1, <1>2, <1>6, StageStep

\* A call that ends leaves the others with what they have in hand.
LEMMA EndsStage ==
    ASSUME TypeOK, TypeOK', StageInv, SessionsInv, Grows, NEW t \in Tasks, Ends(t)
    PROVE  StageInv'
BY StageStep DEF Ends

\* A message that becomes a gap is on to the next one.
LEMMA GapStage ==
    ASSUME TypeOK, TypeOK', StageInv, SessionsInv, UNCHANGED <<handshakes, ratchet, messages>>,
           NEW t \in Tasks, task[t] # None, task[t].kind = "sync", NEW i, i \notin task[t].found.plain,
           task[t].at # "listing", Gap(t, i)
    PROVE  StageInv'
<1> DEFINE r == [task[t] EXCEPT !.at = "working", !.found.gaps = @ \cup {i}]
<1>1. Grows /\ task[t] \in Task /\ Staged(t) /\ task[t].found \in Rows
  BY StaysGrows, TaskFields DEF StageInv
<1>2. Goes(t, r)
  BY DEF Gap
<1>3. task'[t] = r
  BY <1>2, GoesFrame
<1>4. /\ r.at = "working" /\ r.dev = task[t].dev /\ r.kind = "sync" /\ r.base = task[t].base
      /\ r.known = task[t].known /\ r.listed = task[t].listed
      /\ r.found.plain = task[t].found.plain /\ r.found.gaps = task[t].found.gaps \cup {i}
  BY <1>1 DEF Task, Rows
<1> HIDE DEF r
<1>5. \A j : SenderOf(j)' = SenderOf(j)
  BY DEF SenderOf
<1>6. Staged(t)'
  BY <1>1, <1>3, <1>4, <1>5 DEF Staged, Receiving, Ensuring, Syncing, Holding
<1> QED BY <1>1, <1>2, <1>6, StageStep

\* Establishing a session.
LEMMA EstablishStage ==
    ASSUME TypeOK, TypeOK', StageInv, SessionsInv, NEW t \in Tasks,
           \/ AlreadyPublished(t) \/ GeneratePrekeyBundle(t) \/ PublishPrekeyBundle(t)
           \/ SaveOwnPrekeyIdentity(t) \/ FetchPrekeyBundle(t) \/ RecipientNotSetUp(t)
    PROVE  StageInv'
<1> USE DEF device, server, history, Ensuring, Sending, Syncing, Recording, Holding, Receiving, Dev, At
<1>a. task[t] # None /\ task[t] \in Task /\ Staged(t) /\ task[t].dev \in Participants
  BY TaskFields DEF StageInv, AlreadyPublished, GeneratePrekeyBundle, PublishPrekeyBundle,
     SaveOwnPrekeyIdentity, FetchPrekeyBundle, RecipientNotSetUp
<1>b. task[t].kind \in {"ensure", "send", "sync"}
  BY <1>a DEF Task
<1>c. ASSUME Ensured(t), task[t].at \in Ensuring, UNCHANGED <<handshakes, ratchet, messages>> PROVE StageInv'
  <2>1. Grows
    BY <1>c, StaysGrows
  <2>2. task[t].kind # "send" => Ends(t)
    BY <1>c DEF Ensured
  <2>3. task[t].kind = "send" => Moves(t, "deriving")
    BY <1>c DEF Ensured
  <2> QED BY <1>a, <1>b, <1>c, <2>1, <2>2, <2>3, EndsStage, MovesStage
<1>1. CASE AlreadyPublished(t)
  BY <1>1, <1>c DEF AlreadyPublished
<1>2. CASE GeneratePrekeyBundle(t)
  <2> DEFINE n == generated[Dev(t)] + 1
             r == [task[t] EXCEPT !.at = "publishing", !.bundle = n]
  <2>1. Goes(t, r) /\ UNCHANGED <<handshakes, ratchet, messages>> /\ task[t].at = "ensuring"
    BY <1>2 DEF GeneratePrekeyBundle
  <2>2. n # 0
    <3>1. generated[Dev(t)] \in {0} \cup Bundles
      BY <1>a DEF TypeOK
    <3> QED BY <3>1, MessagingAssumption DEF Bundles
  <2>3. task'[t] = r /\ Grows
    BY <2>1, GoesFrame, StaysGrows
  <2>4. /\ r.at = "publishing" /\ r.dev = task[t].dev /\ r.kind = task[t].kind /\ r.bundle # 0
        /\ r.secret = task[t].secret /\ r.base = task[t].base /\ r.found = task[t].found
    BY <1>a, <2>2 DEF Task
  <2>5. r.kind # "sync"
    BY <1>a, <2>1, <2>4 DEF Staged
  <2> HIDE DEF r
  <2>6. Staged(t)'
    BY <1>a, <2>1, <2>3, <2>4, <2>5 DEF Staged
  <2> QED BY <2>1, <2>3, <2>6, StageStep
<1>3. CASE PublishPrekeyBundle(t)
  <2>1. Moves(t, "saving") \/ Ends(t)
    BY <1>3 DEF PublishPrekeyBundle
  <2>2. UNCHANGED <<handshakes, ratchet, messages>> /\ task[t].at = "publishing"
    BY <1>3 DEF PublishPrekeyBundle
  <2>3. task[t].kind # "sync"
    BY <1>a, <2>2 DEF Staged
  <2> QED BY <1>a, <2>1, <2>2, <2>3, EndsStage, MovesStage, StaysGrows
<1>4. CASE SaveOwnPrekeyIdentity(t)
  BY <1>4, <1>c DEF SaveOwnPrekeyIdentity
<1>5. CASE FetchPrekeyBundle(t)
  <2> DEFINE q == Peer(Dev(t))
             s == Len(handshakes) + 1
             r == [task[t] EXCEPT !.at = "ensuring", !.secret = s]
  <2>1. /\ published[q] \in Bundles /\ UNCHANGED <<messages, ratchet>> /\ task[t].at = "fetching"
    BY <1>5, <1>a, PeerProperties DEF FetchPrekeyBundle, TypeOK
  <2>2. PICK n \in {0} \cup Bundles :
           \/ /\ handshakes' = Append(handshakes, [by |-> Dev(t), signed |-> published[q], oneTime |-> n])
              /\ Goes(t, r)
           \/ Ends(t) /\ UNCHANGED handshakes
    BY <1>5 DEF FetchPrekeyBundle
  <2>3. CASE Ends(t) /\ UNCHANGED handshakes
    BY <2>1, <2>3, EndsStage, StaysGrows
  <2>4. CASE /\ handshakes' = Append(handshakes, [by |-> Dev(t), signed |-> published[q], oneTime |-> n])
             /\ Goes(t, r)
    <3> DEFINE c == [by |-> Dev(t), signed |-> published[q], oneTime |-> n]
    <3>1. c \in Handshake /\ c.by = Dev(t)
      BY <1>a, <2>1 DEF Handshake
    <3>2. Grows /\ s \in DOMAIN handshakes' /\ handshakes'[s].by = Dev(t)
      BY <2>1, <2>4, <3>1, FetchGrows
    <3>3. task'[t] = r
      BY <2>4, GoesFrame
    <3>4. /\ r.at = "ensuring" /\ r.dev = task[t].dev /\ r.kind = task[t].kind
          /\ r.secret = s /\ r.base = task[t].base /\ r.found = task[t].found
      BY <1>a DEF Task
    <3>5. r.kind = "send"
      BY <1>a, <1>b, <2>1, <3>4 DEF Staged
    <3> HIDE DEF r, s
    <3>6. Staged(t)'
      BY <1>a, <2>1, <3>2, <3>3, <3>4, <3>5 DEF Staged
    <3> QED BY <2>4, <3>2, <3>6, StageStep
  <2> QED BY <2>2, <2>3, <2>4
<1>6. CASE RecipientNotSetUp(t)
  BY <1>6, EndsStage, StaysGrows DEF RecipientNotSetUp
<1> QED BY <1>1, <1>2, <1>3, <1>4, <1>5, <1>6

\* Sending and remembering.
LEMMA SendStage ==
    ASSUME TypeOK, TypeOK', StageInv, SessionsInv, NEW t \in Tasks,
           \/ DeriveSharedSecret(t) \/ ReadSendingChain(t) \/ AdvanceSendingChain(t) \/ CreateConversation(t)
           \/ DeliverMessage(t) \/ RequestFails(t) \/ SetCachedSessionHandle(t)
           \/ LoadHistory(t) \/ StoreHistory(t)
    PROVE  StageInv'
<1> USE DEF device, server, history, Ensuring, Sending, Syncing, Recording, Holding, Receiving, Dev, At
<1>a. task[t] # None /\ task[t] \in Task /\ Staged(t) /\ task[t].dev \in Participants
  BY TaskFields DEF StageInv, DeriveSharedSecret, ReadSendingChain, AdvanceSendingChain, CreateConversation,
     DeliverMessage, RequestFails, SetCachedSessionHandle, LoadHistory, StoreHistory
<1>b. task[t].kind \in {"ensure", "send", "sync"}
  BY <1>a DEF Task
<1>1. CASE DeriveSharedSecret(t)
  <2> DEFINE h == Len(ratchet) + 1
             r == [task[t] EXCEPT !.at = "encrypting", !.handle = h, !.fresh = TRUE]
  <2>1. Registers(t) /\ Goes(t, r) /\ task[t].at = "deriving"
    BY <1>1 DEF Registers, DeriveSharedSecret, RegisterSession
  <2>2. /\ UNCHANGED <<handshakes, messages>> /\ ratchet'[h].secret = task[t].secret
        /\ Handles \subseteq Handles' /\ \A g \in Handles : ratchet'[g] = ratchet[g]
    <3>1. /\ Handles \subseteq Handles' /\ \A g \in Handles : ratchet'[g] = ratchet[g]
          /\ UNCHANGED <<server, history>>
      BY <2>1, RegistersSession
    <3>2. ratchet'[h] = [owner |-> Dev(t), secret |-> task[t].secret, sent |-> 0, received |-> 0]
      BY <2>1, RegistersSession
    <3> QED BY <3>1, <3>2
  <2>3. Len(messages) \in Nat
    BY LenProperties DEF TypeOK
  <2>4. Grows
    BY <2>2, <2>3 DEF Grows
  <2>5. task'[t] = r
    BY <2>1, GoesFrame
  <2>6. /\ r.at = "encrypting" /\ r.dev = task[t].dev /\ r.kind = task[t].kind /\ r.handle = h
        /\ r.base = task[t].base /\ r.found = task[t].found
    BY <1>a DEF Task
  <2>7. r.kind = "send" /\ handshakes[task[t].secret].by = task[t].dev
    BY <1>a, <1>b, <2>1, <2>6 DEF Staged
  <2> HIDE DEF r, h
  <2>8. Staged(t)'
    BY <1>a, <2>2, <2>5, <2>6, <2>7 DEF Staged
  <2> QED BY <2>1, <2>4, <2>8, StageStep
<1>2. CASE ReadSendingChain(t)
  <2> DEFINE s == ratchet[task[t].handle]
             r == [task[t] EXCEPT !.at = "advancing", !.position = s.sent, !.opposite = s.received]
  <2>1. Goes(t, r) /\ UNCHANGED <<handshakes, ratchet, messages>> /\ task[t].at = "encrypting"
    BY <1>2 DEF ReadSendingChain
  <2>2. task'[t] = r /\ Grows
    BY <2>1, GoesFrame, StaysGrows
  <2>3. /\ r.at = "advancing" /\ r.dev = task[t].dev /\ r.kind = task[t].kind /\ r.handle = task[t].handle
        /\ r.fresh = task[t].fresh /\ r.base = task[t].base /\ r.found = task[t].found
    BY <1>a DEF Task
  <2>4. r.kind = "send"
    BY <1>a, <1>b, <2>1, <2>3 DEF Staged
  <2> HIDE DEF r
  <2>5. Staged(t)'
    BY <1>a, <2>1, <2>2, <2>3, <2>4 DEF Staged
  <2> QED BY <2>1, <2>2, <2>5, StageStep
<1>3. CASE AdvanceSendingChain(t)
  <2> DEFINE stage == IF task[t].conv THEN "delivering" ELSE "creating"
             r == [task[t] EXCEPT !.at = stage]
  <2>1. Goes(t, r) /\ UNCHANGED <<handshakes, messages>> /\ task[t].at = "advancing"
    BY <1>3 DEF AdvanceSendingChain, Moves
  <2>2. task'[t] = r
    BY <2>1, GoesFrame
  <2>3. /\ task[t].handle \in Handles /\ ratchet'[task[t].handle].secret = ratchet[task[t].handle].secret
        /\ Handles' = Handles
        /\ \A g \in Handles : ratchet'[g].owner = ratchet[g].owner /\ ratchet'[g].secret = ratchet[g].secret
    BY <1>3, AdvanceChains
  <2>4. Len(messages) \in Nat
    BY LenProperties DEF TypeOK
  <2>5. Grows
    BY <2>1, <2>3, <2>4 DEF Grows
  <2>6. /\ r.at \in {"delivering", "creating"} /\ r.dev = task[t].dev /\ r.kind = task[t].kind
        /\ r.handle = task[t].handle
        /\ r.fresh = task[t].fresh /\ r.base = task[t].base /\ r.found = task[t].found
    BY <1>a DEF Task
  <2>7. r.kind = "send"
    BY <1>a, <1>b, <2>1, <2>6 DEF Staged
  <2> HIDE DEF r
  <2>8. Staged(t)'
    BY <1>a, <2>1, <2>2, <2>3, <2>6, <2>7 DEF Staged
  <2> QED BY <2>1, <2>5, <2>8, StageStep
<1>4. CASE CreateConversation(t)
  <2>1. Moves(t, "delivering") \/ Ends(t)
    BY <1>4 DEF CreateConversation
  <2>2. UNCHANGED <<handshakes, ratchet, messages>> /\ task[t].at = "creating"
    BY <1>4 DEF CreateConversation
  <2>3. task[t].kind = "send"
    BY <1>a, <1>b, <2>2 DEF Staged
  <2> QED BY <1>a, <2>1, <2>2, <2>3, EndsStage, MovesStage, StaysGrows
<1>5. CASE DeliverMessage(t)
  <2> DEFINE i == Len(messages) + 1
             m == [key |-> MessageKey(t), payload |-> task[t].fresh]
             r == [task[t] EXCEPT !.at = "remembering", !.id = i, !.found = [NoRows EXCEPT !.plain = {i}]]
  <2>1. /\ messages' = Append(messages, m) /\ UNCHANGED <<handshakes, ratchet>>
        /\ task[t].at = "delivering" /\ (Goes(t, r) \/ Ends(t))
    BY <1>5 DEF DeliverMessage
  <2>2. m \in Message
    BY <1>a, <2>1, MessageKeyType DEF Message, Task
  <2>3. Grows /\ i \in DOMAIN messages'
    BY <2>1, <2>2, DeliverGrows
  <2>4. CASE Ends(t)
    BY <2>3, <2>4, EndsStage
  <2>5. CASE Goes(t, r)
    <3>1. task'[t] = r
      BY <2>5, GoesFrame
    <3>2. \A x : [NoRows EXCEPT !.plain = x].plain = x /\ [NoRows EXCEPT !.plain = x].gaps = {}
      BY DEF NoRows
    <3>3. /\ r.at = "remembering" /\ r.dev = task[t].dev /\ r.kind = task[t].kind
          /\ r.handle = task[t].handle /\ r.id = i
          /\ r.fresh = task[t].fresh /\ r.base = task[t].base
          /\ r.found.plain \cap r.found.gaps = {}
      BY <1>a, <3>2 DEF Task
    <3>4. r.kind = "send"
      BY <1>a, <1>b, <2>1, <3>3 DEF Staged
    <3> HIDE DEF r, i
    <3>5. Staged(t)'
      BY <1>a, <2>1, <2>3, <3>1, <3>3, <3>4 DEF Staged
    <3> QED BY <2>3, <2>5, <3>5, StageStep
  <2> QED BY <2>1, <2>4, <2>5
<1>6. CASE RequestFails(t)
  BY <1>6, EndsStage, StaysGrows DEF RequestFails
<1>7. CASE SetCachedSessionHandle(t)
  <2> DEFINE stage == IF task[t].kind = "send" THEN "recording" ELSE "decrypting"
  <2>1. Moves(t, stage) /\ UNCHANGED <<handshakes, ratchet, messages>> /\ task[t].at = "remembering"
    BY <1>7 DEF SetCachedSessionHandle
  <2>2. task[t].kind # "ensure"
    BY <1>a, <2>1 DEF Staged
  <2> QED BY <1>a, <1>b, <2>1, <2>2, MovesStage
<1>8. CASE LoadHistory(t)
  <2>1. PICK b \in {rows[Dev(t)], NoRows} : Goes(t, [task[t] EXCEPT !.at = "storing", !.base = b])
    BY <1>8 DEF LoadHistory
  <2> DEFINE r == [task[t] EXCEPT !.at = "storing", !.base = b]
  <2>2. Goes(t, r) /\ UNCHANGED <<handshakes, ratchet, messages>> /\ task[t].at = "recording"
    BY <1>8, <2>1 DEF LoadHistory
  <2>3. b.plain \cap b.gaps = {}
    BY <1>a DEF TypeOK, NoRows
  <2>4. task'[t] = r /\ Grows
    BY <2>2, GoesFrame, StaysGrows
  <2>5. /\ r.at = "storing" /\ r.dev = task[t].dev /\ r.kind = task[t].kind /\ r.base = b
        /\ r.known = task[t].known /\ r.listed = task[t].listed /\ r.found = task[t].found
    BY <1>a DEF Task
  <2>6. r.kind # "ensure"
    BY <1>a, <2>2, <2>5 DEF Staged
  <2>7. \A i : SenderOf(i)' = SenderOf(i)
    BY <2>2 DEF SenderOf
  <2> HIDE DEF r
  <2>8. Staged(t)'
    BY <1>a, <2>2, <2>3, <2>4, <2>5, <2>6, <2>7 DEF Staged
  <2> QED BY <2>2, <2>4, <2>8, StageStep
<1>9. CASE StoreHistory(t)
  BY <1>9, EndsStage, StaysGrows DEF StoreHistory
<1> QED BY <1>1, <1>2, <1>3, <1>4, <1>5, <1>6, <1>7, <1>8, <1>9

\* Listing and looking up: the message in hand is another's, so that the handshake
\* its payload belongs to was made with this device.
LEMMA SyncStage ==
    ASSUME TypeOK, TypeOK', StageInv, SessionsInv, NEW t \in Tasks,
           ListMessages(t) \/ SyncDone(t) \/ LookUpSession(t)
    PROVE  StageInv'
<1> USE DEF device, server, history, Ensuring, Sending, Syncing, Recording, Holding, Receiving, Dev, At
<1>a. task[t] # None /\ task[t] \in Task /\ Staged(t) /\ task[t].dev \in Participants
  BY TaskFields DEF StageInv, ListMessages, SyncDone, LookUpSession
<1>b. task[t].kind \in {"ensure", "send", "sync"} /\ task[t].found \in Rows
  BY <1>a, TaskFields DEF Task
<1>d. UNCHANGED <<handshakes, ratchet, messages>>
  BY DEF ListMessages, SyncDone, LookUpSession
<1>g. Grows /\ \A j : SenderOf(j)' = SenderOf(j)
  BY <1>d, StaysGrows DEF SenderOf
<1>k. task[t].kind = "sync"
  BY <1>a, <1>b DEF Staged, ListMessages, SyncDone, LookUpSession
<1>1. CASE ListMessages(t)
  <2>a. PICK listed \in SUBSET DOMAIN messages : Reads(t, listed)
    BY <1>1, ListReads
  <2> DEFINE own == {i \in listed \ task[t].known : SenderOf(i) = Dev(t)}
             r == [task[t] EXCEPT !.at = "working", !.listed = listed, !.found.gaps = own]
  <2>1. Goes(t, r) /\ task[t].at = "listing"
    BY <2>a DEF Reads
  <2>2. task'[t] = r
    BY <2>1, GoesFrame
  <2>3. task[t].found = NoRows
    BY <1>a, <2>1 DEF Staged
  <2>4. /\ r.at = "working" /\ r.dev = task[t].dev /\ r.kind = "sync" /\ r.base = task[t].base
        /\ r.listed = listed /\ r.known = task[t].known
        /\ r.found.plain = {} /\ r.found.gaps = own
    BY <1>a, <1>k, <2>3 DEF Task, NoRows
  <2>5. \A i \in listed : SenderOf(i) = task[t].dev => i \in task[t].known \cup own
    OBVIOUS
  <2> HIDE DEF r, own
  <2>7. Staged(t)'
    BY <1>a, <1>d, <1>g, <2>2, <2>4, <2>5 DEF Staged
  <2> QED BY <1>g, <2>1, <2>7, StageStep
<1>2. CASE SyncDone(t)
  <2>1. Ends(t) \/ Moves(t, "recording")
    BY <1>2 DEF SyncDone
  <2>2. task[t].at = "working"
    BY <1>2 DEF SyncDone
  <2> QED BY <1>a, <1>d, <1>g, <1>k, <2>1, <2>2, EndsStage, MovesStage
<1>3. CASE LookUpSession(t)
  <2>1. PICK i \in Pending(t), h \in {0, cached[Dev(t)]} :
              IF h # 0
              THEN Goes(t, [task[t] EXCEPT !.at = "decrypting", !.id = i, !.handle = h])
              ELSE IF messages[i].payload
                   THEN Goes(t, [task[t] EXCEPT !.at = "completing", !.id = i, !.secret = messages[i].key[1]])
                   ELSE Gap(t, i)
    BY <1>3 DEF LookUpSession
  <2>2. task[t].at = "working"
    BY <1>3 DEF LookUpSession
  <2>3. /\ i \in DOMAIN messages /\ i \notin task[t].found.plain \cup task[t].found.gaps
        /\ i \in task[t].listed /\ i \notin task[t].known
    BY <1>a, <1>k, PendingType
  <2>4. CASE h # 0
    <3> DEFINE r == [task[t] EXCEPT !.at = "decrypting", !.id = i, !.handle = h]
    <3>1. Goes(t, r)
      BY <2>1, <2>4
    <3>2. task'[t] = r
      BY <3>1, GoesFrame
    <3>3. /\ r.at = "decrypting" /\ r.dev = task[t].dev /\ r.kind = "sync" /\ r.base = task[t].base
          /\ r.listed = task[t].listed /\ r.known = task[t].known /\ r.id = i
          /\ r.found = task[t].found
      BY <1>a, <1>k DEF Task
    <3> HIDE DEF r
    <3>4. Staged(t)'
      BY <1>a, <1>k, <1>d, <1>g, <2>2, <2>3, <3>2, <3>3 DEF Staged
    <3> QED BY <1>g, <3>1, <3>4, StageStep
  <2>5. CASE h = 0 /\ messages[i].payload
    <3> DEFINE s == messages[i].key[1]
               r == [task[t] EXCEPT !.at = "completing", !.id = i, !.secret = s]
    <3>1. Goes(t, r)
      BY <2>1, <2>5
    <3>2. task'[t] = r
      BY <3>1, GoesFrame
    <3>3. /\ r.at = "completing" /\ r.dev = task[t].dev /\ r.kind = "sync" /\ r.base = task[t].base
          /\ r.listed = task[t].listed /\ r.known = task[t].known /\ r.id = i /\ r.secret = s
          /\ r.found = task[t].found
      BY <1>a, <1>k DEF Task
    <3>4. s \in DOMAIN handshakes /\ handshakes[s].by = SenderOf(i)
      BY <2>3, <2>5 DEF SessionsInv, SenderOf
    <3>5. SenderOf(i) # task[t].dev
      BY <1>a, <1>k, <2>2, <2>3 DEF Staged
    <3>6. SenderOf(i) \in Participants
      BY <2>3, MessageType
    <3>7. SenderOf(i) = Peer(task[t].dev)
      BY <1>a, <3>5, <3>6, PeerDecides
    <3> HIDE DEF r, s
    <3>8. Staged(t)'
      BY <1>a, <1>k, <1>d, <1>g, <2>2, <2>3, <3>2, <3>3, <3>4, <3>7 DEF Staged
    <3> QED BY <1>g, <3>1, <3>8, StageStep
  <2>6. CASE h = 0 /\ ~messages[i].payload
    BY <1>a, <1>d, <1>k, <2>1, <2>2, <2>3, <2>6, GapStage
  <2> QED BY <2>4, <2>5, <2>6
<1> QED BY <1>1, <1>2, <1>3

\* Receiving.
LEMMA ReceiveStage ==
    ASSUME TypeOK, TypeOK', StageInv, SessionsInv, NEW t \in Tasks,
           \/ CompleteSharedSecret(t) \/ ReceiveFails(t) \/ ConsumeOneTimePrekey(t) \/ RegisterResponder(t)
           \/ ReadReceivingChain(t) \/ AdvanceReceivingChain(t)
    PROVE  StageInv'
<1> USE DEF device, server, history, Ensuring, Sending, Syncing, Recording, Holding, Receiving, Dev, At
<1>a. task[t] # None /\ task[t] \in Task /\ Staged(t) /\ task[t].dev \in Participants
  BY TaskFields DEF StageInv, CompleteSharedSecret, ReceiveFails, ConsumeOneTimePrekey, RegisterResponder,
     ReadReceivingChain, AdvanceReceivingChain
<1>b. task[t].kind \in {"ensure", "send", "sync"} /\ task[t].found \in Rows
  BY <1>a, TaskFields DEF Task
<1>c. /\ task[t].at \in {"completing", "consuming", "registering", "remembering", "decrypting", "opening"}
      /\ task[t].kind = "sync" /\ task[t].id \notin task[t].found.plain \cup task[t].found.gaps
  <2>1. /\ task[t].at \in {"completing", "consuming", "registering", "remembering", "decrypting", "opening"}
        /\ task[t].at = "remembering" => task[t].kind = "sync"
    BY DEF CompleteSharedSecret, ReceiveFails, ConsumeOneTimePrekey, RegisterResponder,
     ReadReceivingChain, AdvanceReceivingChain
  <2> QED BY <1>a, <1>b, <2>1 DEF Staged
<1>1. CASE CompleteSharedSecret(t)
  <2>1. \/ Gap(t, task[t].id)
        \/ \E stage \in {"registering", "consuming"} : Moves(t, stage)
    BY <1>1 DEF CompleteSharedSecret
  <2>2. UNCHANGED <<handshakes, ratchet, messages>> /\ task[t].at = "completing"
    BY <1>1 DEF CompleteSharedSecret
  <2> QED BY <1>a, <1>c, <2>1, <2>2, GapStage, MovesStage
<1>2. CASE ReceiveFails(t)
  <2>1. Gap(t, task[t].id) /\ UNCHANGED <<handshakes, ratchet, messages>>
    BY <1>2 DEF ReceiveFails
  <2> QED BY <1>a, <1>c, <2>1, GapStage
<1>3. CASE ConsumeOneTimePrekey(t)
  <2>1. Moves(t, "registering") /\ UNCHANGED <<handshakes, ratchet, messages>> /\ task[t].at = "consuming"
    BY <1>3 DEF ConsumeOneTimePrekey
  <2> QED BY <1>a, <1>c, <2>1, MovesStage
<1>4. CASE RegisterResponder(t)
  <2> DEFINE h == Len(ratchet) + 1
             r == [task[t] EXCEPT !.at = "remembering", !.handle = h, !.fresh = TRUE]
  <2>1. Registers(t) /\ Goes(t, r)
    BY <1>4 DEF Registers, RegisterResponder, RegisterSession
  <2>2. /\ Handles \subseteq Handles' /\ \A g \in Handles : ratchet'[g] = ratchet[g]
        /\ UNCHANGED <<server, history>>
    BY <2>1, RegistersSession
  <2>3. Len(messages) \in Nat
    BY LenProperties DEF TypeOK
  <2>4. Grows /\ UNCHANGED <<handshakes, messages>> /\ \A j : SenderOf(j)' = SenderOf(j)
    BY <2>2, <2>3 DEF Grows, SenderOf
  <2>5. task'[t] = r
    BY <2>1, GoesFrame
  <2>6. /\ r.at = "remembering" /\ r.dev = task[t].dev /\ r.kind = "sync" /\ r.base = task[t].base
        /\ r.listed = task[t].listed /\ r.known = task[t].known /\ r.id = task[t].id
        /\ r.found = task[t].found
    BY <1>a, <1>c DEF Task
  <2> HIDE DEF r, h
  <2>7. Staged(t)'
    BY <1>a, <1>c, <2>4, <2>5, <2>6 DEF Staged
  <2> QED BY <2>1, <2>4, <2>7, StageStep
<1>5. CASE ReadReceivingChain(t)
  <2> DEFINE s == ratchet[task[t].handle]
             r == [task[t] EXCEPT !.at = "opening", !.position = s.received, !.opposite = s.sent]
  <2>1. /\ Goes(t, r) \/ Gap(t, task[t].id)
        /\ UNCHANGED <<handshakes, ratchet, messages>> /\ task[t].at = "decrypting"
    BY <1>5 DEF ReadReceivingChain
  <2>2. CASE Gap(t, task[t].id)
    BY <1>a, <1>c, <2>1, <2>2, GapStage
  <2>3. CASE Goes(t, r)
    <3>1. task'[t] = r /\ Grows /\ \A j : SenderOf(j)' = SenderOf(j)
      BY <2>1, <2>3, GoesFrame, StaysGrows DEF SenderOf
    <3>2. /\ r.at = "opening" /\ r.dev = task[t].dev /\ r.kind = "sync" /\ r.base = task[t].base
          /\ r.listed = task[t].listed /\ r.known = task[t].known /\ r.id = task[t].id
          /\ r.found = task[t].found
      BY <1>a, <1>c DEF Task
    <3> HIDE DEF r
    <3>3. Staged(t)'
      BY <1>a, <1>c, <2>1, <3>1, <3>2 DEF Staged
    <3> QED BY <2>3, <3>1, <3>3, StageStep
  <2> QED BY <2>1, <2>2, <2>3
<1>6. CASE AdvanceReceivingChain(t)
  <2> DEFINE i == task[t].id
             r == [task[t] EXCEPT !.at = "working", !.found.plain = @ \cup {i}]
  <2>1. Goes(t, r) /\ UNCHANGED <<handshakes, messages>> /\ task[t].at = "opening"
    BY <1>6 DEF AdvanceReceivingChain
  <2>2. /\ Handles' = Handles
        /\ \A g \in Handles : ratchet'[g].owner = ratchet[g].owner /\ ratchet'[g].secret = ratchet[g].secret
    BY <1>6, AdvanceChains
  <2>3. Len(messages) \in Nat
    BY LenProperties DEF TypeOK
  <2>4. Grows /\ \A j : SenderOf(j)' = SenderOf(j)
    BY <2>1, <2>2, <2>3 DEF Grows, SenderOf
  <2>5. task'[t] = r
    BY <2>1, GoesFrame
  <2>6. /\ r.at = "working" /\ r.dev = task[t].dev /\ r.kind = "sync" /\ r.base = task[t].base
        /\ r.listed = task[t].listed /\ r.known = task[t].known
        /\ r.found.plain = task[t].found.plain \cup {i} /\ r.found.gaps = task[t].found.gaps
    BY <1>a, <1>b, <1>c DEF Task, Rows
  <2> HIDE DEF r
  <2>7. Staged(t)'
    BY <1>a, <1>c, <2>1, <2>4, <2>5, <2>6 DEF Staged
  <2> QED BY <2>1, <2>4, <2>7, StageStep
<1> QED BY <1>1, <1>2, <1>3, <1>4, <1>5, <1>6

\* Every step keeps StageInv.
LEMMA StagesKept == IInv /\ [Next]_vars => StageInv'
<1> SUFFICES ASSUME IInv, [Next]_vars PROVE StageInv'
  OBVIOUS
<1> USE DEF IInv, device, server, history
<1>0. TypeOK' /\ Grows
  BY TypeStep, GrowsStep
<1>1. ASSUME NEW t \in Tasks, NEW p \in Participants, StartEnsure(t, p) \/ StartSync(t, p) PROVE StageInv'
  BY <1>0, <1>1, BeginsStage DEF StartEnsure, StartSync
<1>2. ASSUME NEW t \in Tasks, NEW p \in Participants, NEW conv \in BOOLEAN, StartSend(t, p, conv) PROVE StageInv'
  BY <1>0, <1>2, BeginsStage DEF StartSend
<1>3. ASSUME NEW t \in Tasks, Runs(t) PROVE StageInv'
  BY <1>0, <1>3, EstablishStage, SendStage, SyncStage, ReceiveStage DEF Runs
<1>4. ASSUME NEW p \in Participants, Restart(p) PROVE StageInv'
  <2>1. \A u \in Tasks : task'[u] # None => task'[u] = task[u]
    BY <1>4 DEF Restart
  <2> QED BY <1>0, <2>1, StageFrame DEF StageInv
<1>5. CASE UNCHANGED aside
  <2>1. \A u \in Tasks : task'[u] = task[u]
    BY <1>5 DEF aside
  <2> QED BY <1>0, <2>1, StageFrame DEF StageInv
<1> QED BY <1>1, <1>2, <1>3, <1>4, <1>5, NextCases

--------------------------------------------------------------------------------
(* SessionsInv is inductive.                                                *)

\* What is stored refers to what there was, unless a session or a message is added.
LEMMA SessionsFrame ==
    ASSUME TypeOK, SessionsInv, Grows, Handles' = Handles, DOMAIN messages' = DOMAIN messages, cached' = cached
    PROVE  SessionsInv'
<1>1. \A p \in Participants : cached[p] # 0 => cached[p] \in Handles
  BY DEF TypeOK
<1> QED BY <1>1 DEF SessionsInv, Grows

\* Every step keeps SessionsInv.
LEMMA SessionsKept == IInv /\ [Next]_vars => SessionsInv'
<1> SUFFICES ASSUME IInv, [Next]_vars PROVE SessionsInv'
  OBVIOUS
<1> USE DEF device, server, history
<1>0. TypeOK /\ StageInv /\ SessionsInv /\ TypeOK' /\ Grows
  BY TypeStep, GrowsStep DEF IInv
<1>a. ASSUME UNCHANGED <<ratchet, cached>>, DOMAIN messages' = DOMAIN messages PROVE SessionsInv'
  BY <1>0, <1>a, SessionsFrame DEF Handles
<1>1. ASSUME NEW t \in Tasks, NEW p \in Participants, StartEnsure(t, p) \/ StartSync(t, p) PROVE SessionsInv'
  BY <1>1, <1>a DEF StartEnsure, StartSync
<1>2. ASSUME NEW t \in Tasks, NEW p \in Participants, NEW conv \in BOOLEAN, StartSend(t, p, conv) PROVE SessionsInv'
  BY <1>2, <1>a DEF StartSend
<1>3. ASSUME NEW p \in Participants, Restart(p) PROVE SessionsInv'
  BY <1>3, <1>a DEF Restart
<1>4. CASE UNCHANGED aside
  BY <1>4, <1>a DEF aside
<1>5. ASSUME NEW t \in Tasks, DeliverMessage(t) PROVE SessionsInv'
  <2> DEFINE m == [key |-> MessageKey(t), payload |-> task[t].fresh]
             i == Len(messages) + 1
  <2>1. /\ task[t] # None /\ task[t].at = "delivering" /\ task[t] \in Task /\ Staged(t)
        /\ UNCHANGED <<handshakes, ratchet, cached>> /\ messages' = Append(messages, m)
    BY <1>0, <1>5, TaskFields DEF DeliverMessage, At, StageInv
  <2>2. /\ MessageKey(t) = <<ratchet[task[t].handle].secret, task[t].dev, task[t].position>>
        /\ task[t].handle \in Handles /\ m \in Message
    BY <1>0, <2>1, MessageKeyType DEF Holding, TypeOK, Message, Task
  <2>3. DOMAIN messages' = DOMAIN messages \cup {i} /\ messages'[i] = m
    BY <1>0, <2>1, <2>2, DeliverGrows
  <2>4. task[t].kind = "send"
    BY <2>1 DEF Staged, Task, Ensuring, Syncing, Sending, Recording
  <2>5. ratchet[task[t].handle].secret \in DOMAIN handshakes
    BY <1>0, <2>2 DEF SessionsInv
  <2>6. task[t].fresh => handshakes[ratchet[task[t].handle].secret].by = task[t].dev
    BY <2>1, <2>4 DEF Staged, Holding
  <2>7. m.key[1] = ratchet[task[t].handle].secret /\ m.key[2] = task[t].dev /\ m.payload = task[t].fresh
    BY <2>2
  <2> HIDE DEF m, i
  <2>8. ASSUME NEW j \in DOMAIN messages'
        PROVE  /\ messages'[j].key[1] \in DOMAIN handshakes
               /\ messages'[j].payload => handshakes[messages'[j].key[1]].by = messages'[j].key[2]
    <3>1. CASE j = i
      BY <2>3, <2>5, <2>6, <2>7, <3>1
    <3>2. CASE j \in DOMAIN messages
      BY <1>0, <3>2 DEF Grows, SessionsInv
    <3> QED BY <2>3, <3>1, <3>2
  <2> QED BY <1>0, <2>1, <2>8 DEF SessionsInv, Handles
<1>6. ASSUME NEW t \in Tasks, SetCachedSessionHandle(t) PROVE SessionsInv'
  <2>1. /\ task[t] # None /\ task[t].at = "remembering" /\ UNCHANGED <<handshakes, ratchet, messages>>
        /\ cached' = [cached EXCEPT ![Dev(t)] = task[t].handle]
    BY <1>6 DEF SetCachedSessionHandle, At
  <2>2. task[t].handle \in Handles /\ ratchet[task[t].handle].owner = Dev(t)
    BY <1>0, <2>1 DEF TypeOK, Holding, Dev
  <2> QED BY <1>0, <2>1, <2>2 DEF SessionsInv, Handles, TypeOK
<1>7. ASSUME NEW t \in Tasks, Registers(t) PROVE SessionsInv'
  <2> DEFINE h == Len(ratchet) + 1
  <2>1. /\ Handles' = Handles \cup {h} /\ \A g \in Handles : ratchet'[g] = ratchet[g]
        /\ UNCHANGED <<cached, server, history>> /\ task[t].secret \in DOMAIN handshakes
    BY <1>0, <1>7, RegistersSession
  <2>2. ratchet'[h].secret = task[t].secret
    <3>1. ratchet'[h] = [owner |-> Dev(t), secret |-> task[t].secret, sent |-> 0, received |-> 0]
      BY <1>0, <1>7, RegistersSession
    <3> QED BY <3>1
  <2>3. \A p \in Participants : cached[p] # 0 => cached[p] \in Handles
    BY <1>0 DEF TypeOK
  <2>4. UNCHANGED <<handshakes, messages, cached>>
    BY <2>1
  <2> HIDE DEF h
  <2> QED BY <1>0, <2>1, <2>2, <2>3, <2>4 DEF SessionsInv
<1>8. ASSUME NEW t \in Tasks, AdvanceSendingChain(t) \/ AdvanceReceivingChain(t) PROVE SessionsInv'
  <2>1. Handles' = Handles
    BY <1>0, <1>8, AdvanceChains
  <2>2. UNCHANGED <<messages, cached>>
    BY <1>8 DEF AdvanceSendingChain, AdvanceReceivingChain
  <2> QED BY <1>0, <2>1, <2>2, SessionsFrame
<1>9. ASSUME NEW t \in Tasks, Runs(t), ~DeliverMessage(t), ~Registers(t), ~SetCachedSessionHandle(t),
             ~AdvanceSendingChain(t), ~AdvanceReceivingChain(t)
      PROVE  UNCHANGED <<messages, ratchet, cached>>
  BY <1>9 DEF Runs, Registers, AlreadyPublished, GeneratePrekeyBundle, PublishPrekeyBundle,
     SaveOwnPrekeyIdentity, FetchPrekeyBundle, RecipientNotSetUp, ReadSendingChain,
     CreateConversation, RequestFails, LoadHistory, StoreHistory,
     ListMessages, SyncDone, LookUpSession, CompleteSharedSecret, ReceiveFails, ConsumeOneTimePrekey,
     ReadReceivingChain
<1>10. ASSUME NEW t \in Tasks, Runs(t) PROVE SessionsInv'
  BY <1>5, <1>6, <1>7, <1>8, <1>9, <1>10, <1>a
<1> QED BY <1>1, <1>2, <1>3, <1>4, <1>10, NextCases

--------------------------------------------------------------------------------
(* PrekeyInv is inductive.                                                  *)

\* The calls that are at one of these stages after a step were there before it.
NoneEnters(stages) == \A u \in Tasks : task'[u] # None /\ task'[u].at \in stages => task'[u] = task[u]

\* A call that goes on to another stage, or ends, enters none of these.
LEMMA GoesElsewhere ==
    ASSUME TypeOK, NEW t \in Tasks, NEW r, Goes(t, r), NEW stages, r # None => r.at \notin stages
    PROVE  NoneEnters(stages)
BY GoesFrame DEF NoneEnters

\* The same of a call that changes its stage, begins, ends or makes a gap.
LEMMA StepElsewhere ==
    ASSUME TypeOK, NEW t \in Tasks, NEW stages
    PROVE  /\ \A stage : task[t] # None /\ Moves(t, stage) /\ stage \notin stages => NoneEnters(stages)
           /\ Ends(t) => NoneEnters(stages)
           /\ \A i : task[t] # None /\ Gap(t, i) /\ "working" \notin stages => NoneEnters(stages)
           /\ \A p, kind, stage, conv, h, known :
                 Begins(t, p, kind, stage, conv, h, known) /\ stage \notin stages => NoneEnters(stages)
<1>1. task[t] # None => task[t] \in Task
  BY TaskFields
<1>2. ASSUME NEW stage, task[t] # None, Moves(t, stage), stage \notin stages PROVE NoneEnters(stages)
  <2>1. [task[t] EXCEPT !.at = stage].at = stage
    BY <1>1, <1>2 DEF Task
  <2> QED BY <1>2, <2>1, GoesElsewhere DEF Moves
<1>3. ASSUME Ends(t) PROVE NoneEnters(stages)
  BY <1>3, GoesElsewhere DEF Ends
<1>4. ASSUME NEW i, task[t] # None, Gap(t, i), "working" \notin stages PROVE NoneEnters(stages)
  <2>1. [task[t] EXCEPT !.at = "working", !.found.gaps = @ \cup {i}].at = "working"
    BY <1>1, <1>4 DEF Task
  <2> QED BY <1>4, <2>1, GoesElsewhere DEF Gap
<1>5. ASSUME NEW p, NEW kind, NEW stage, NEW conv, NEW h, NEW known,
             Begins(t, p, kind, stage, conv, h, known), stage \notin stages PROVE NoneEnters(stages)
  BY <1>5, GoesElsewhere DEF Begins
<1> QED BY <1>2, <1>3, <1>4, <1>5

\* A call that begins has no lock, no new bundle and no handshake.
LEMMA StartsElsewhere ==
    ASSUME TypeOK, NEW t \in Tasks, NEW p \in Participants,
           StartEnsure(t, p) \/ StartSync(t, p) \/ \E conv \in BOOLEAN : StartSend(t, p, conv)
    PROVE  /\ \A u \in Tasks \ {t} : task'[u] = task[u]
           /\ task'[t].at \notin {"publishing", "consuming", "registering", "advancing", "opening"}
           /\ task'[t].at \in Ensuring \cup {"deriving"} => task'[t].kind # "send"
           /\ UNCHANGED <<device, server, history>>
<1>1. PICK kind, stage, conv, h, known : /\ Begins(t, p, kind, stage, conv, h, known)
                                         /\ stage \in {"ensuring", "listing", "fetching", "encrypting"}
                                         /\ stage = "ensuring" => kind = "ensure"
  <2>1. CASE StartEnsure(t, p)
    BY <2>1 DEF StartEnsure
  <2>2. CASE StartSync(t, p)
    <3>1. Begins(t, p, "sync", "listing", TRUE, 0, Known(p)) \/ Begins(t, p, "sync", "listing", TRUE, 0, {})
      BY <2>2 DEF StartSync
    <3>2. "listing" \in {"ensuring", "listing", "fetching", "encrypting"} /\ "listing" # "ensuring"
      OBVIOUS
    <3> QED BY <3>1, <3>2, Zenon
  <2>3. CASE \E conv \in BOOLEAN : StartSend(t, p, conv)
    BY <2>3 DEF StartSend
  <2> QED BY <2>1, <2>2, <2>3
<1> DEFINE r == [dev |-> p, kind |-> kind, at |-> stage, conv |-> conv, handle |-> h,
                 bundle |-> 0, secret |-> 0, fresh |-> FALSE, position |-> 0, opposite |-> 0,
                 base |-> NoRows, id |-> 0, known |-> known, listed |-> {}, found |-> NoRows]
<1>2. Goes(t, r) /\ r.at = stage /\ r.kind = kind /\ r.dev = p
  BY <1>1 DEF Begins
<1>3. task'[t] = r /\ \A u \in Tasks \ {t} : task'[u] = task[u]
  BY <1>2, GoesFrame
<1> QED BY <1>1, <1>2, <1>3 DEF Ensuring, StartEnsure, StartSync, StartSend

\* Prekeys are as they were when no step touches them.
LEMMA PrekeyFrame ==
    ASSUME TypeOK, StageInv, PrekeyInv, NoneEnters({"publishing", "consuming"}),
           UNCHANGED <<oneTimePrekeys, signedPrekeys, published, pool, generated, consumed, handshakes>>
    PROVE  PrekeyInv'
<1>1. \A u \in Tasks : /\ At(u, "publishing")' => At(u, "publishing") /\ task'[u] = task[u] /\ Dev(u)' = Dev(u)
                       /\ At(u, "consuming")' => At(u, "consuming") /\ task'[u] = task[u] /\ Dev(u)' = Dev(u)
  BY DEF NoneEnters, At, Dev
<1>2. \A s : Responder(s)' = Responder(s)
  BY DEF Responder
<1>3. PrekeysKept' /\ ClaimInv'
  BY <1>2 DEF PrekeyInv, PrekeysKept, ClaimInv
<1>4. PublishingInv'
  BY <1>1, <1>2 DEF PrekeyInv, PublishingInv
<1>5. ConsumingInv'
  BY <1>1 DEF PrekeyInv, ConsumingInv
<1> QED BY <1>3, <1>4, <1>5 DEF PrekeyInv

\* The numbers of a device's bundles, and the responder of a handshake.
LEMMA PrekeyFacts ==
    ASSUME TypeOK
    PROVE  /\ \A p \in Participants : generated[p] \in Nat
           /\ \A s \in DOMAIN handshakes : /\ Responder(s) \in Participants /\ handshakes[s].oneTime \in Nat
                                           /\ handshakes[s].by \in Participants
           /\ \A p \in Participants : \A n \in oneTimePrekeys[p] : n \in Nat /\ n # 0
<1>1. \A s \in DOMAIN handshakes : handshakes[s] \in Handshake
  BY SecretType
<1>2. \A n \in Bundles : n \in Nat /\ n # 0
  BY MessagingAssumption DEF Bundles
<1>3. \A p \in Participants : generated[p] \in {0} \cup Bundles /\ oneTimePrekeys[p] \subseteq Bundles
  BY DEF TypeOK
<1>4. \A s \in DOMAIN handshakes : handshakes[s].by \in Participants /\ handshakes[s].oneTime \in {0} \cup Bundles
  BY <1>1 DEF Handshake
<1>5. \A s \in DOMAIN handshakes : Responder(s) \in Participants
  BY <1>4, PeerProperties DEF Responder
<1>6. \A p \in Participants : generated[p] \in Nat /\ \A n \in oneTimePrekeys[p] : n \in Nat /\ n # 0
  BY <1>2, <1>3
<1>7. \A s \in DOMAIN handshakes : handshakes[s].oneTime \in Nat
  BY <1>2, <1>4
<1> QED BY <1>4, <1>5, <1>6, <1>7

\* A new bundle is known to nobody.
LEMMA GenerateKeeps ==
    ASSUME TypeOK, StageInv, PrekeyInv, NEW t \in Tasks, GeneratePrekeyBundle(t)
    PROVE  PrekeyInv'
<1> DEFINE p == Dev(t)
           n == generated[p] + 1
           r == [task[t] EXCEPT !.at = "publishing", !.bundle = n]
<1>1. /\ task[t] # None /\ p \in Participants /\ generated[p] \in Nat /\ n > generated[p] /\ n \in Nat
      /\ task[t] \in Task
  BY TaskFields, PrekeyFacts DEF GeneratePrekeyBundle, At, Dev
<1>2. /\ generated' = [generated EXCEPT ![p] = n]
      /\ signedPrekeys' = [signedPrekeys EXCEPT ![p] = @ \cup {n}]
      /\ oneTimePrekeys' = [oneTimePrekeys EXCEPT ![p] = @ \cup {n}]
      /\ Goes(t, r)
      /\ UNCHANGED <<handshakes, pool, published, consumed>>
  BY DEF GeneratePrekeyBundle, server
<1>3. /\ generated'[p] = n /\ oneTimePrekeys'[p] = oneTimePrekeys[p] \cup {n}
      /\ signedPrekeys'[p] = signedPrekeys[p] \cup {n}
      /\ \A q \in Participants : q # p => /\ generated'[q] = generated[q] /\ oneTimePrekeys'[q] = oneTimePrekeys[q]
                                          /\ signedPrekeys'[q] = signedPrekeys[q]
  BY <1>1, <1>2 DEF TypeOK
<1>4. /\ r.at = "publishing" /\ r.bundle = n /\ r.dev = p
  BY <1>1 DEF Task, Dev
<1>5. task'[t] = r /\ \A u \in Tasks \ {t} : task'[u] = task[u]
  BY <1>2, GoesFrame
<1>6. \A s : Responder(s)' = Responder(s)
  BY <1>2 DEF Responder
<1> HIDE DEF p, n, r
<1>7. \A q \in Participants : /\ oneTimePrekeys[q] \subseteq oneTimePrekeys'[q]
                              /\ signedPrekeys[q] \subseteq signedPrekeys'[q]
                              /\ generated[q] \in Nat /\ generated'[q] \in Nat /\ generated[q] <= generated'[q]
  BY <1>1, <1>3, PrekeyFacts
<1>8. PrekeysKept'
  <2>1. \A q \in Participants : pool'[q] \subseteq oneTimePrekeys'[q] /\ published'[q] \in {0} \cup signedPrekeys'[q]
    BY <1>2, <1>7 DEF PrekeyInv, PrekeysKept
  <2>2. \A s \in DOMAIN handshakes : Peer(handshakes[s].by) \in Participants
    BY PrekeyFacts DEF Responder
  <2> QED BY <1>2, <1>7, <2>1, <2>2 DEF PrekeyInv, PrekeysKept
<1>9. ClaimInv'
  <2>1. \A q \in Participants : \A m \in oneTimePrekeys'[q] : m <= generated'[q]
    <3> SUFFICES ASSUME NEW q \in Participants, NEW m \in oneTimePrekeys'[q] PROVE m <= generated'[q]
      OBVIOUS
    <3>1. CASE q = p /\ m = n
      BY <1>1, <1>3, <3>1
    <3>2. CASE m \in oneTimePrekeys[q]
      <4>1. m <= generated[q] /\ m \in Nat
        BY <3>2, PrekeyFacts DEF PrekeyInv, ClaimInv
      <4> QED BY <1>7, <4>1
    <3> QED BY <1>3, <3>1, <3>2
  <2>2. \A s \in DOMAIN handshakes : handshakes[s].oneTime # 0 => handshakes[s].oneTime <= generated'[Responder(s)]
    <3> SUFFICES ASSUME NEW s \in DOMAIN handshakes, handshakes[s].oneTime # 0
                 PROVE  handshakes[s].oneTime <= generated'[Responder(s)]
      OBVIOUS
    <3>1. handshakes[s].oneTime <= generated[Responder(s)] /\ handshakes[s].oneTime \in Nat /\ Responder(s) \in Participants
      BY PrekeyFacts DEF PrekeyInv, ClaimInv
    <3> QED BY <1>7, <3>1
  <2> QED BY <1>2, <1>6, <2>1, <2>2 DEF PrekeyInv, ClaimInv
<1>10. /\ n \notin pool[p] /\ n \notin oneTimePrekeys[p]
       /\ \A s \in DOMAIN handshakes : Responder(s) = p => handshakes[s].oneTime # n
  <2>1. n \notin oneTimePrekeys[p]
    BY <1>1, PrekeyFacts DEF PrekeyInv, ClaimInv
  <2>2. ASSUME NEW s \in DOMAIN handshakes, Responder(s) = p, handshakes[s].oneTime = n PROVE FALSE
    <3>1. n # 0 /\ n <= generated[p]
      BY <1>1, <2>2 DEF PrekeyInv, ClaimInv
    <3> QED BY <1>1, <3>1
  <2> QED BY <1>1, <2>1, <2>2 DEF PrekeyInv, PrekeysKept
<1>11. \A u \in Tasks \ {t} : /\ At(u, "publishing")' <=> At(u, "publishing")
                              /\ At(u, "consuming")' <=> At(u, "consuming")
                              /\ task'[u] = task[u] /\ Dev(u)' = Dev(u)
  BY <1>5 DEF At, Dev
<1>12. /\ Dev(t)' = p /\ task'[t].bundle = n /\ ~At(t, "consuming")'
  BY <1>4, <1>5 DEF At, Dev
<1>13. PublishingInv'
  <2>1. \A u \in Tasks : At(u, "publishing") /\ Dev(u) = p => task[u].bundle # n
    BY <1>10 DEF PrekeyInv, PublishingInv
  <2>2. \A u \in Tasks \ {t} : At(u, "publishing") => Dev(u) \in Participants
    BY TaskFields DEF At, Dev
  <2>3. \A u \in Tasks \ {t} : At(u, "publishing")' =>
          /\ task'[u].bundle \in signedPrekeys'[Dev(u)'] \cap oneTimePrekeys'[Dev(u)']
          /\ task'[u].bundle \notin pool'[Dev(u)']
          /\ \A s \in DOMAIN handshakes : Responder(s) = Dev(u)' => handshakes[s].oneTime # task'[u].bundle
          /\ \A v \in Tasks \ {t} : At(v, "publishing")' /\ Dev(v)' = Dev(u)' /\ task'[v].bundle = task'[u].bundle => v = u
    BY <1>2, <1>7, <1>11, <2>2 DEF PrekeyInv, PublishingInv
  <2> QED BY <1>1, <1>2, <1>3, <1>6, <1>10, <1>11, <1>12, <2>1, <2>3 DEF PublishingInv
<1>14. ConsumingInv'
  <2>1. \A u \in Tasks \ {t} : At(u, "consuming") => Dev(u) \in Participants
    BY TaskFields DEF At, Dev
  <2> QED BY <1>2, <1>7, <1>11, <1>12, <2>1 DEF PrekeyInv, ConsumingInv
<1> QED BY <1>8, <1>9, <1>13, <1>14 DEF PrekeyInv

\* Publishing puts a prekey in the pool that was never there.
LEMMA PublishKeeps ==
    ASSUME TypeOK, StageInv, PrekeyInv, NEW t \in Tasks, PublishPrekeyBundle(t)
    PROVE  PrekeyInv'
<1> DEFINE p == Dev(t)
           n == task[t].bundle
<1>1. task[t] # None /\ p \in Participants /\ At(t, "publishing")
  BY TaskFields DEF PublishPrekeyBundle, At, Dev
<1>2. /\ published' = [published EXCEPT ![p] = n] /\ pool' = [pool EXCEPT ![p] = @ \cup {n}]
      /\ UNCHANGED <<handshakes, oneTimePrekeys, signedPrekeys, generated, consumed>>
      /\ Moves(t, "saving") \/ Ends(t)
  BY DEF PublishPrekeyBundle, device, history
<1>3. /\ pool'[p] = pool[p] \cup {n} /\ published'[p] = n
      /\ \A q \in Participants : q # p => pool'[q] = pool[q] /\ published'[q] = published[q]
  BY <1>1, <1>2 DEF TypeOK
<1>4. NoneEnters({"publishing", "consuming"}) /\ ~At(t, "publishing")' /\ ~At(t, "consuming")'
  <2>1. task[t] \in Task
    BY <1>1, TaskFields
  <2>2. [task[t] EXCEPT !.at = "saving"].at = "saving"
    BY <2>1 DEF Task
  <2>3. task'[t] = None \/ task'[t].at = "saving"
    BY <1>2, <2>2, GoesFrame DEF Moves, Ends
  <2> QED BY <1>1, <1>2, <2>3, StepElsewhere DEF At
<1>5. \A u \in Tasks : /\ At(u, "publishing")' => u # t /\ At(u, "publishing") /\ task'[u] = task[u] /\ Dev(u)' = Dev(u)
                       /\ At(u, "consuming")' => At(u, "consuming") /\ task'[u] = task[u] /\ Dev(u)' = Dev(u)
  BY <1>4 DEF NoneEnters, At, Dev
<1>6. \A s : Responder(s)' = Responder(s)
  BY <1>2 DEF Responder
<1>7. /\ n \in signedPrekeys[p] \cap oneTimePrekeys[p]
      /\ \A s \in DOMAIN handshakes : Responder(s) = p => handshakes[s].oneTime # n
      /\ \A u \in Tasks : At(u, "publishing") /\ Dev(u) = p /\ task[u].bundle = n => u = t
  BY <1>1 DEF PrekeyInv, PublishingInv
<1> HIDE DEF p, n
<1>8. PrekeysKept'
  BY <1>2, <1>3, <1>7 DEF PrekeyInv, PrekeysKept
<1>9. ClaimInv'
  BY <1>2, <1>3, <1>6, <1>7, PrekeyFacts DEF PrekeyInv, ClaimInv
<1>10. PublishingInv'
  <2>1. \A u \in Tasks : At(u, "publishing") => Dev(u) \in Participants
    BY TaskFields DEF At, Dev
  <2> QED BY <1>2, <1>3, <1>5, <1>6, <1>7, <2>1 DEF PrekeyInv, PublishingInv
<1>11. ConsumingInv'
  BY <1>2, <1>5 DEF PrekeyInv, ConsumingInv
<1> QED BY <1>8, <1>9, <1>10, <1>11 DEF PrekeyInv

\* A claim takes the prekey out of the pool for one handshake.
LEMMA FetchKeeps ==
    ASSUME TypeOK, StageInv, PrekeyInv, NEW t \in Tasks, FetchPrekeyBundle(t)
    PROVE  PrekeyInv'
<1>s. PICK s : s = Len(handshakes) + 1
  OBVIOUS
<1> DEFINE q == Peer(Dev(t))
           r == [task[t] EXCEPT !.at = "ensuring", !.secret = s]
<1>1. /\ task[t] # None /\ task[t] \in Task /\ Dev(t) \in Participants /\ q \in Participants
      /\ Peer(Dev(t)) = q /\ published[q] \in Bundles
      /\ UNCHANGED <<oneTimePrekeys, signedPrekeys, generated, consumed, published>>
  BY TaskFields, PeerProperties DEF FetchPrekeyBundle, At, Dev, TypeOK, device
<1>2. PICK n \in {0} \cup Bundles :
         /\ Claim(q, n)
         /\ \/ /\ handshakes' = Append(handshakes, [by |-> Dev(t), signed |-> published[q], oneTime |-> n])
               /\ Goes(t, r)
            \/ Ends(t) /\ UNCHANGED handshakes
  BY <1>s DEF FetchPrekeyBundle
<1>3. /\ \A p \in Participants : pool'[p] \subseteq pool[p]
      /\ n # 0 => n \in pool[q] /\ n \notin pool'[q]
  <2>1. pool \in [Participants -> SUBSET Bundles] /\ 0 \notin Bundles
    BY MessagingAssumption DEF TypeOK, Bundles
  <2>2. CASE n = 0
    BY <1>2, <2>2 DEF Claim
  <2>3. CASE n # 0
    <3>1. n \in pool[q] /\ pool' = [pool EXCEPT ![q] = @ \ {n}]
      BY <1>2, <2>3 DEF Claim
    <3> QED BY <1>1, <2>1, <3>1
  <2> QED BY <2>2, <2>3
<1>4. NoneEnters({"publishing", "consuming"})
  <2>1. r.at = "ensuring"
    BY <1>1 DEF Task
  <2> QED BY <1>2, <2>1, GoesElsewhere, StepElsewhere
<1>5. \A u \in Tasks : /\ At(u, "publishing")' => At(u, "publishing") /\ task'[u] = task[u] /\ Dev(u)' = Dev(u)
                       /\ At(u, "consuming")' => At(u, "consuming") /\ task'[u] = task[u] /\ Dev(u)' = Dev(u)
  BY <1>4 DEF NoneEnters, At, Dev
<1>6. n # 0 => n \in oneTimePrekeys[q] /\ n <= generated[q]
               /\ \A i \in DOMAIN handshakes : Responder(i) = q => handshakes[i].oneTime # n
  BY <1>1, <1>3 DEF PrekeyInv, PrekeysKept, ClaimInv
<1>7. \A u \in Tasks : n # 0 /\ At(u, "publishing") /\ Dev(u) = q => task[u].bundle # n
  BY <1>1, <1>3 DEF PrekeyInv, PublishingInv
<1>8. \A u \in Tasks : /\ At(u, "consuming") => task[u].secret \in DOMAIN handshakes
                       /\ At(u, "publishing") => task[u].bundle # 0 /\ Dev(u) \in Participants
  BY TaskFields DEF StageInv, Staged, At, Dev
<1>9. CASE UNCHANGED handshakes
  <2>1. \A i : Responder(i)' = Responder(i)
    BY <1>9 DEF Responder
  <2>2. PrekeysKept'
    BY <1>1, <1>3, <1>9 DEF PrekeyInv, PrekeysKept
  <2>3. ClaimInv'
    BY <1>1, <1>3, <1>9, <2>1, PrekeyFacts DEF PrekeyInv, ClaimInv
  <2>4. PublishingInv'
    BY <1>1, <1>3, <1>5, <1>8, <1>9, <2>1 DEF PrekeyInv, PublishingInv
  <2>5. ConsumingInv'
    BY <1>1, <1>5, <1>9 DEF PrekeyInv, ConsumingInv
  <2> QED BY <2>2, <2>3, <2>4, <2>5 DEF PrekeyInv
<1>10. CASE handshakes' = Append(handshakes, [by |-> Dev(t), signed |-> published[q], oneTime |-> n])
  <2> DEFINE c == [by |-> Dev(t), signed |-> published[q], oneTime |-> n]
  <2>1. c \in Handshake /\ c.by = Dev(t) /\ c.oneTime = n
    BY <1>1 DEF Handshake
  <2>2. UNCHANGED <<messages, ratchet>>
    BY DEF FetchPrekeyBundle, device
  <2>3. /\ s \notin DOMAIN handshakes /\ DOMAIN handshakes' = DOMAIN handshakes \cup {s}
        /\ handshakes'[s] = c /\ \A i \in DOMAIN handshakes : handshakes'[i] = handshakes[i]
    BY <1>s, <1>10, <2>1, <2>2, FetchGrows DEF Grows
  <2> HIDE DEF c, q
  <2>4. Responder(s)' = q /\ \A i \in DOMAIN handshakes : Responder(i)' = Responder(i)
    BY <1>1, <2>1, <2>3 DEF Responder
  <2>5. PrekeysKept'
    <3>1. \A p \in Participants : pool'[p] \subseteq oneTimePrekeys'[p] /\ published'[p] \in {0} \cup signedPrekeys'[p]
      BY <1>1, <1>3 DEF PrekeyInv, PrekeysKept
    <3>2. ASSUME NEW i \in DOMAIN handshakes', handshakes'[i].oneTime # 0
          PROVE  \/ handshakes'[i].oneTime \in oneTimePrekeys'[Peer(handshakes'[i].by)]
                 \/ <<Peer(handshakes'[i].by), handshakes'[i].oneTime, i>> \in consumed'
      <4>1. CASE i = s
        BY <1>1, <1>6, <2>1, <2>3, <3>2, <4>1
      <4>2. CASE i \in DOMAIN handshakes
        BY <1>1, <2>3, <3>2, <4>2 DEF PrekeyInv, PrekeysKept
      <4> QED BY <2>3, <4>1, <4>2
    <3> QED BY <3>1, <3>2 DEF PrekeysKept
  <2>6. ClaimInv'
    <3>1. ASSUME NEW i \in DOMAIN handshakes', handshakes'[i].oneTime # 0
          PROVE  /\ handshakes'[i].oneTime <= generated'[Responder(i)']
                 /\ handshakes'[i].oneTime \notin pool'[Responder(i)']
                 /\ \A j \in DOMAIN handshakes' :
                       Responder(j)' = Responder(i)' /\ handshakes'[j].oneTime = handshakes'[i].oneTime => j = i
      <4>1. CASE i = s
        BY <1>1, <1>3, <1>6, <2>1, <2>3, <2>4, <3>1, <4>1
      <4>2. CASE i \in DOMAIN handshakes
        BY <1>1, <1>3, <1>6, <2>1, <2>3, <2>4, <3>1, <4>2, PrekeyFacts DEF PrekeyInv, ClaimInv
      <4> QED BY <2>3, <4>1, <4>2
    <3>2. \A p \in Participants : \A m \in oneTimePrekeys'[p] : m <= generated'[p]
      BY <1>1 DEF PrekeyInv, ClaimInv
    <3> QED BY <3>1, <3>2 DEF ClaimInv
  <2>7. PublishingInv'
    <3>1. ASSUME NEW u \in Tasks, At(u, "publishing")'
          PROVE  /\ task'[u].bundle \in signedPrekeys'[Dev(u)'] \cap oneTimePrekeys'[Dev(u)']
                 /\ task'[u].bundle \notin pool'[Dev(u)']
                 /\ \A i \in DOMAIN handshakes' : Responder(i)' = Dev(u)' => handshakes'[i].oneTime # task'[u].bundle
                 /\ \A v \in Tasks : At(v, "publishing")' /\ Dev(v)' = Dev(u)' /\ task'[v].bundle = task'[u].bundle => v = u
      <4>1. At(u, "publishing") /\ task'[u] = task[u] /\ Dev(u)' = Dev(u) /\ task[u].bundle # 0 /\ Dev(u) \in Participants
        BY <1>5, <1>8, <3>1
      <4>2. \A i \in DOMAIN handshakes' : Responder(i)' = Dev(u)' => handshakes'[i].oneTime # task'[u].bundle
        BY <1>7, <2>1, <2>3, <2>4, <4>1 DEF PrekeyInv, PublishingInv
      <4> QED BY <1>1, <1>3, <1>5, <4>1, <4>2 DEF PrekeyInv, PublishingInv
    <3> QED BY <3>1 DEF PublishingInv
  <2>8. ConsumingInv'
    BY <1>1, <1>5, <1>8, <2>3 DEF PrekeyInv, ConsumingInv
  <2> QED BY <2>5, <2>6, <2>7, <2>8 DEF PrekeyInv
<1> QED BY <1>2, <1>9, <1>10

\* A prekey is consumed for the handshake that claimed it, by one call.
LEMMA CompleteKeeps ==
    ASSUME TypeOK, StageInv, PrekeyInv, NEW t \in Tasks, CompleteSharedSecret(t)
    PROVE  PrekeyInv'
<1> DEFINE p == Dev(t)
           h == handshakes[task[t].secret]
<1>1. /\ task[t] # None /\ task[t] \in Task /\ p \in Participants
      /\ UNCHANGED <<oneTimePrekeys, signedPrekeys, published, pool, generated, consumed, handshakes>>
      /\ PrekeyFree(p, h.oneTime)
  BY TaskFields DEF CompleteSharedSecret, At, Dev, device, server, history
<1>2. \/ Gap(t, task[t].id)
      \/ Moves(t, "registering")
      \/ Moves(t, "consuming") /\ h.oneTime # 0 /\ h.oneTime \in oneTimePrekeys[p]
  BY DEF CompleteSharedSecret
<1>3. CASE Gap(t, task[t].id) \/ Moves(t, "registering")
  BY <1>1, <1>3, StepElsewhere, PrekeyFrame
<1>4. CASE Moves(t, "consuming") /\ h.oneTime # 0 /\ h.oneTime \in oneTimePrekeys[p]
  <2> DEFINE r == [task[t] EXCEPT !.at = "consuming"]
  <2>1. r.at = "consuming" /\ r.dev = p /\ r.secret = task[t].secret
    BY <1>1 DEF Task, Dev
  <2>2. task'[t] = r /\ \A u \in Tasks \ {t} : task'[u] = task[u]
    BY <1>4, GoesFrame DEF Moves
  <2>3. \A s : Responder(s)' = Responder(s)
    BY <1>1 DEF Responder
  <2>4. PrekeysKept' /\ ClaimInv'
    BY <1>1, <2>3 DEF PrekeyInv, PrekeysKept, ClaimInv
  <2>5. NoneEnters({"publishing"})
    BY <1>1, <1>4, StepElsewhere
  <2>6. \A u \in Tasks : At(u, "publishing")' => At(u, "publishing") /\ task'[u] = task[u] /\ Dev(u)' = Dev(u)
    BY <2>5 DEF NoneEnters, At, Dev
  <2>7. PublishingInv'
    BY <1>1, <2>3, <2>6 DEF PrekeyInv, PublishingInv
  <2>8. \A u \in Tasks \ {t} : At(u, "consuming")' => At(u, "consuming") /\ task'[u] = task[u] /\ Dev(u)' = Dev(u)
    BY <2>2 DEF At, Dev
  <2>9. Dev(t)' = p /\ task'[t].secret = task[t].secret
    BY <2>1, <2>2 DEF Dev
  <2>10. \A u \in Tasks : At(u, "consuming") => Dev(u) # p \/ handshakes[task[u].secret].oneTime # h.oneTime
    BY <1>1 DEF PrekeyFree
  <2> HIDE DEF p, r
  <2>11. ConsumingInv'
    BY <1>1, <1>4, <2>8, <2>9, <2>10 DEF PrekeyInv, ConsumingInv
  <2> QED BY <2>4, <2>7, <2>11 DEF PrekeyInv
<1> QED BY <1>2, <1>3, <1>4

\* Consuming a prekey takes it from nobody else.
LEMMA ConsumeKeeps ==
    ASSUME TypeOK, StageInv, PrekeyInv, NEW t \in Tasks, ConsumeOneTimePrekey(t)
    PROVE  PrekeyInv'
<1> DEFINE p == Dev(t)
           s == task[t].secret
           n == handshakes[s].oneTime
<1>1. /\ task[t] # None /\ task[t] \in Task /\ p \in Participants /\ At(t, "consuming")
      /\ s \in DOMAIN handshakes /\ Responder(s) = p
      /\ UNCHANGED <<signedPrekeys, published, pool, generated, handshakes>>
      /\ oneTimePrekeys' = [oneTimePrekeys EXCEPT ![p] = @ \ {n}]
      /\ consumed' = consumed \cup {<<p, n, s>>}
      /\ Moves(t, "registering")
  BY TaskFields, PeerProperties DEF ConsumeOneTimePrekey, At, Dev, server, StageInv, Staged, Responder
<1>2. n # 0 /\ \A u \in Tasks : At(u, "consuming") /\ Dev(u) = p /\ handshakes[task[u].secret].oneTime = n => u = t
  BY <1>1 DEF PrekeyInv, ConsumingInv
<1>3. /\ n \notin pool[p]
      /\ \A i \in DOMAIN handshakes : Responder(i) = p /\ handshakes[i].oneTime = n => i = s
  BY <1>1, <1>2 DEF PrekeyInv, ClaimInv
<1>4. /\ oneTimePrekeys'[p] = oneTimePrekeys[p] \ {n}
      /\ \A q \in Participants : q # p => oneTimePrekeys'[q] = oneTimePrekeys[q]
  BY <1>1 DEF TypeOK
<1>5. \A i : Responder(i)' = Responder(i)
  BY <1>1 DEF Responder
<1>6. /\ \A u \in Tasks : At(u, "publishing")' => At(u, "publishing") /\ task'[u] = task[u] /\ Dev(u)' = Dev(u)
      /\ \A u \in Tasks : At(u, "consuming")' => At(u, "consuming") /\ u # t /\ task'[u] = task[u] /\ Dev(u)' = Dev(u)
  <2>1. [task[t] EXCEPT !.at = "registering"].at = "registering"
    BY <1>1 DEF Task
  <2>2. task'[t].at = "registering" /\ \A u \in Tasks \ {t} : task'[u] = task[u]
    BY <1>1, <2>1, GoesFrame DEF Moves
  <2> QED BY <2>2 DEF At, Dev
<1> HIDE DEF p, n, s
<1>7. PrekeysKept'
  <2>1. \A q \in Participants : pool'[q] \subseteq oneTimePrekeys'[q] /\ published'[q] \in {0} \cup signedPrekeys'[q]
    BY <1>1, <1>3, <1>4 DEF PrekeyInv, PrekeysKept
  <2>2. ASSUME NEW i \in DOMAIN handshakes, handshakes[i].oneTime # 0
        PROVE  \/ handshakes[i].oneTime \in oneTimePrekeys'[Peer(handshakes[i].by)]
               \/ <<Peer(handshakes[i].by), handshakes[i].oneTime, i>> \in consumed'
    <3>1. Peer(handshakes[i].by) = Responder(i) /\ Responder(i) \in Participants
      BY PrekeyFacts DEF Responder
    <3>2. \/ handshakes[i].oneTime \in oneTimePrekeys[Responder(i)]
          \/ <<Responder(i), handshakes[i].oneTime, i>> \in consumed
      BY <2>2, <3>1 DEF PrekeyInv, PrekeysKept
    <3>3. CASE Responder(i) = p /\ handshakes[i].oneTime = n
      BY <1>1, <1>3, <3>1, <3>3 DEF n
    <3>4. CASE Responder(i) # p \/ handshakes[i].oneTime # n
      BY <1>1, <1>4, <3>1, <3>2, <3>4
    <3> QED BY <3>3, <3>4
  <2> QED BY <1>1, <2>1, <2>2 DEF PrekeysKept
<1>8. ClaimInv'
  BY <1>1, <1>4, <1>5, PrekeyFacts DEF PrekeyInv, ClaimInv
<1>9. PublishingInv'
  <2>1. \A u \in Tasks : At(u, "publishing") => Dev(u) \in Participants
    BY TaskFields DEF At, Dev
  <2>2. \A u \in Tasks : At(u, "publishing") /\ Dev(u) = p => task[u].bundle # n
    BY <1>1 DEF PrekeyInv, PublishingInv, n
  <2> QED BY <1>1, <1>4, <1>5, <1>6, <2>1, <2>2 DEF PrekeyInv, PublishingInv
<1>10. ConsumingInv'
  <2>1. \A u \in Tasks : At(u, "consuming") => Dev(u) \in Participants
    BY TaskFields DEF At, Dev
  <2> QED BY <1>1, <1>2, <1>4, <1>6, <2>1 DEF PrekeyInv, ConsumingInv
<1> QED BY <1>7, <1>8, <1>9, <1>10 DEF PrekeyInv

\* Which step takes a call to the stages at which it holds a lock, a new bundle, or
\* a handshake that is not registered yet.
LEMMA RunsStages ==
    ASSUME TypeOK, NEW t \in Tasks, Runs(t)
    PROVE  /\ \A u \in Tasks \ {t} : task'[u] = task[u]
           /\ task'[t] # None =>
                 /\ task'[t].dev = task[t].dev /\ task'[t].kind = task[t].kind
                 /\ task'[t].at = "publishing" => GeneratePrekeyBundle(t)
                 /\ task'[t].at = "consuming" => CompleteSharedSecret(t)
                 /\ task'[t].at = "registering" =>
                       (CompleteSharedSecret(t) \/ ConsumeOneTimePrekey(t)) /\ task'[t].secret = task[t].secret
                 /\ task'[t].at = "advancing" => ReadSendingChain(t)
                 /\ task'[t].at = "opening" => ReadReceivingChain(t)
                 /\ task'[t].at \in Ensuring \cup {"deriving"} =>
                       FetchPrekeyBundle(t) \/ (task[t].at \in Ensuring /\ task'[t].secret = task[t].secret)
<1> USE DEF At, Ensuring
<1>1. task[t] # None /\ task[t] \in Task
  BY RunsTask
<1> DEFINE Fine(r) == /\ r.dev = task[t].dev /\ r.kind = task[t].kind
                      /\ r.at = "publishing" => GeneratePrekeyBundle(t)
                      /\ r.at = "consuming" => CompleteSharedSecret(t)
                      /\ r.at = "registering" =>
                            (CompleteSharedSecret(t) \/ ConsumeOneTimePrekey(t)) /\ r.secret = task[t].secret
                      /\ r.at = "advancing" => ReadSendingChain(t)
                      /\ r.at = "opening" => ReadReceivingChain(t)
                      /\ r.at \in Ensuring \cup {"deriving"} =>
                            FetchPrekeyBundle(t) \/ (task[t].at \in Ensuring /\ r.secret = task[t].secret)
<1>f. \A r : Goes(t, r) => task'[t] = r
  BY GoesFrame
<1>n. \A stage : Moves(t, stage) => /\ task'[t].at = stage /\ task'[t].dev = task[t].dev
                                    /\ task'[t].kind = task[t].kind /\ task'[t].secret = task[t].secret
  <2>1. ASSUME NEW stage, Moves(t, stage)
        PROVE  /\ task'[t].at = stage /\ task'[t].dev = task[t].dev
               /\ task'[t].kind = task[t].kind /\ task'[t].secret = task[t].secret
    <3>1. task'[t] = [task[t] EXCEPT !.at = stage]
      BY <1>f, <2>1 DEF Moves
    <3> QED BY <1>1, <3>1 DEF Task
  <2> QED BY <2>1
<1>e. Ends(t) => task'[t] = None
  BY <1>f DEF Ends
<1>s. \A r : /\ r.dev = task[t].dev /\ r.kind = task[t].kind /\ Goes(t, r)
             /\ r.at \notin {"publishing", "consuming", "registering", "advancing", "opening"} \cup Ensuring \cup {"deriving"}
             => Fine(task'[t])
  BY <1>f
<1>g. \A i : Gap(t, i) => Fine(task'[t])
  <2> TAKE i
  <2> DEFINE r == [task[t] EXCEPT !.at = "working", !.found.gaps = @ \cup {i}]
  <2>1. r.dev = task[t].dev /\ r.kind = task[t].kind /\ r.at = "working"
    BY <1>1 DEF Task
  <2>2. Gap(t, i) => Goes(t, r)
    BY DEF Gap
  <2> HIDE DEF r, Fine
  <2> QED BY <1>s, <2>1, <2>2
<1>2. task'[t] = None \/ Fine(task'[t])
  <2>1. CASE AlreadyPublished(t) \/ SaveOwnPrekeyIdentity(t)
    BY <1>n, <1>e, <2>1 DEF AlreadyPublished, SaveOwnPrekeyIdentity, Ensured
  <2>2. CASE RecipientNotSetUp(t) \/ RequestFails(t) \/ StoreHistory(t)
    BY <1>e, <2>2 DEF RecipientNotSetUp, RequestFails, StoreHistory
  <2>3. CASE AdvanceSendingChain(t) \/ CreateConversation(t) \/ SetCachedSessionHandle(t) \/ SyncDone(t)
    BY <1>n, <1>e, <2>3 DEF AdvanceSendingChain, CreateConversation, SetCachedSessionHandle, SyncDone
  <2>4. CASE DeriveSharedSecret(t) \/ RegisterResponder(t)
    <3>1. \E s \in {"encrypting", "remembering"} :
             Goes(t, [task[t] EXCEPT !.at = s, !.handle = Len(ratchet) + 1, !.fresh = TRUE])
      BY <2>4 DEF DeriveSharedSecret, RegisterResponder, RegisterSession
    <3>2. ASSUME NEW s \in {"encrypting", "remembering"}, NEW r,
                 r = [task[t] EXCEPT !.at = s, !.handle = Len(ratchet) + 1, !.fresh = TRUE]
          PROVE  r.dev = task[t].dev /\ r.kind = task[t].kind /\ r.at = s
      BY <1>1, <3>2 DEF Task
    <3> HIDE DEF Fine
    <3> QED BY <1>s, <3>1, <3>2
  <2>5. CASE ReadSendingChain(t)
    BY <1>1, <1>f, <1>e, <2>5 DEF ReadSendingChain, Task
  <2>6. CASE DeliverMessage(t) \/ LoadHistory(t)
    <3>1. \/ Ends(t)
          \/ \E i, f : Goes(t, [task[t] EXCEPT !.at = "remembering", !.id = i, !.found = f])
          \/ \E b : Goes(t, [task[t] EXCEPT !.at = "storing", !.base = b])
      <4>1. CASE DeliverMessage(t)
        BY <4>1 DEF DeliverMessage
      <4>2. CASE LoadHistory(t)
        BY <4>2 DEF LoadHistory
      <4> QED BY <2>6, <4>1, <4>2
    <3> HIDE DEF Fine
    <3>2. ASSUME NEW i, NEW f, Goes(t, [task[t] EXCEPT !.at = "remembering", !.id = i, !.found = f]) PROVE Fine(task'[t])
      <4>1. PICK r : r = [task[t] EXCEPT !.at = "remembering", !.id = i, !.found = f]
        OBVIOUS
      <4>2. Goes(t, r)
        BY <3>2, <4>1
      <4>3. r.dev = task[t].dev /\ r.kind = task[t].kind /\ r.at = "remembering"
        BY <1>1, <4>1 DEF Task
      <4> QED BY <1>s, <4>2, <4>3
    <3>3. ASSUME NEW b, Goes(t, [task[t] EXCEPT !.at = "storing", !.base = b]) PROVE Fine(task'[t])
      <4>1. PICK r : r = [task[t] EXCEPT !.at = "storing", !.base = b]
        OBVIOUS
      <4>2. Goes(t, r)
        BY <3>3, <4>1
      <4>3. r.dev = task[t].dev /\ r.kind = task[t].kind /\ r.at = "storing"
        BY <1>1, <4>1 DEF Task
      <4> QED BY <1>s, <4>2, <4>3
    <3> QED BY <1>e, <3>1, <3>2, <3>3
  <2>7. CASE ListMessages(t) \/ ReceiveFails(t)
    <3>1. CASE ListMessages(t)
      <4>1. PICK listed, own : Goes(t, [task[t] EXCEPT !.at = "working", !.listed = listed, !.found.gaps = own])
        BY <3>1 DEF ListMessages
      <4>2. PICK r : r = [task[t] EXCEPT !.at = "working", !.listed = listed, !.found.gaps = own]
        OBVIOUS
      <4>3. Goes(t, r)
        BY <4>1, <4>2
      <4>4. r.dev = task[t].dev /\ r.kind = task[t].kind /\ r.at = "working"
        BY <1>1, <4>2 DEF Task
      <4> HIDE DEF Fine
      <4> QED BY <1>s, <4>3, <4>4
    <3>2. CASE ReceiveFails(t)
      <4>1. Gap(t, task[t].id)
        BY <3>2 DEF ReceiveFails
      <4> HIDE DEF Fine
      <4> QED BY <1>g, <4>1
    <3> QED BY <2>7, <3>1, <3>2
  <2>8. CASE LookUpSession(t)
    <3>1. \/ \E i, h : Goes(t, [task[t] EXCEPT !.at = "decrypting", !.id = i, !.handle = h])
          \/ \E i, s : Goes(t, [task[t] EXCEPT !.at = "completing", !.id = i, !.secret = s])
          \/ \E i : Gap(t, i)
      <4>1. PICK i \in Pending(t), h \in {0, cached[Dev(t)]} :
              IF h # 0
              THEN Goes(t, [task[t] EXCEPT !.at = "decrypting", !.id = i, !.handle = h])
              ELSE IF messages[i].payload
                   THEN Goes(t, [task[t] EXCEPT !.at = "completing", !.id = i, !.secret = messages[i].key[1]])
                   ELSE Gap(t, i)
        BY <2>8 DEF LookUpSession
      <4> QED BY <4>1
    <3>2. ASSUME NEW i, NEW h, Goes(t, [task[t] EXCEPT !.at = "decrypting", !.id = i, !.handle = h]) PROVE Fine(task'[t])
      BY <1>1, <1>f, <3>2 DEF Task
    <3>3. ASSUME NEW i, NEW s, Goes(t, [task[t] EXCEPT !.at = "completing", !.id = i, !.secret = s]) PROVE Fine(task'[t])
      BY <1>1, <1>f, <3>3 DEF Task
    <3> QED BY <1>g, <3>1, <3>2, <3>3
  <2>9. CASE ReadReceivingChain(t)
    BY <1>1, <1>f, <1>e, <1>g, <2>9 DEF ReadReceivingChain, Task
  <2>10. CASE AdvanceReceivingChain(t)
    BY <1>1, <1>f, <1>e, <2>10 DEF AdvanceReceivingChain, Task
  <2>11. CASE GeneratePrekeyBundle(t) \/ FetchPrekeyBundle(t)
    <3>1. CASE GeneratePrekeyBundle(t)
      <4>1. PICK n : Goes(t, [task[t] EXCEPT !.at = "publishing", !.bundle = n])
        BY <3>1 DEF GeneratePrekeyBundle
      <4>2. PICK r : r = [task[t] EXCEPT !.at = "publishing", !.bundle = n]
        OBVIOUS
      <4>3. task'[t] = r
        BY <1>f, <4>1, <4>2
      <4>4. r.dev = task[t].dev /\ r.kind = task[t].kind /\ r.at = "publishing" /\ r.secret = task[t].secret
        BY <1>1, <4>2 DEF Task
      <4>e. task[t].at \in Ensuring
        BY <3>1 DEF GeneratePrekeyBundle
      <4>5. Fine(r)
        BY <3>1, <4>4, <4>e
      <4> HIDE DEF Fine
      <4> QED BY <4>3, <4>5
    <3>2. CASE FetchPrekeyBundle(t)
      <4>1. Ends(t) \/ \E s : Goes(t, [task[t] EXCEPT !.at = "ensuring", !.secret = s])
        BY <3>2 DEF FetchPrekeyBundle
      <4>2. ASSUME NEW s, NEW r, r = [task[t] EXCEPT !.at = "ensuring", !.secret = s], Goes(t, r) PROVE Fine(task'[t])
        <5>1. r.dev = task[t].dev /\ r.kind = task[t].kind /\ r.at = "ensuring" /\ task'[t] = r
          BY <1>1, <1>f, <4>2 DEF Task
        <5> QED BY <3>2, <5>1
      <4> HIDE DEF Fine
      <4> QED BY <1>e, <4>1, <4>2
    <3> QED BY <2>11, <3>1, <3>2
  <2>12. CASE PublishPrekeyBundle(t)
    BY <1>n, <1>e, <2>12 DEF PublishPrekeyBundle
  <2>13. CASE CompleteSharedSecret(t)
    BY <1>n, <1>e, <1>g, <2>13 DEF CompleteSharedSecret
  <2>14. CASE ConsumeOneTimePrekey(t)
    BY <1>n, <1>e, <2>14 DEF ConsumeOneTimePrekey
  <2> QED BY <2>1, <2>2, <2>3, <2>4, <2>5, <2>6, <2>7, <2>8, <2>9, <2>10, <2>11, <2>12, <2>13, <2>14 DEF Runs
<1> HIDE DEF Fine
<1>3. \A u \in Tasks \ {t} : task'[u] = task[u]
  <2>1. \E r : Goes(t, r)
    BY DEF Runs, AlreadyPublished, GeneratePrekeyBundle, PublishPrekeyBundle, SaveOwnPrekeyIdentity,
       FetchPrekeyBundle, RecipientNotSetUp, DeriveSharedSecret, ReadSendingChain, AdvanceSendingChain,
       CreateConversation, DeliverMessage, RequestFails, SetCachedSessionHandle, LoadHistory, StoreHistory,
       ListMessages, SyncDone, LookUpSession, CompleteSharedSecret, ReceiveFails, ConsumeOneTimePrekey,
       RegisterResponder, ReadReceivingChain, AdvanceReceivingChain, RegisterSession, Ensured, Moves, Ends, Gap
  <2> QED BY <2>1, GoesFrame
<1> QED BY <1>2, <1>3 DEF Fine

\* Every step keeps PrekeyInv.
LEMMA PrekeysStep == IInv /\ [Next]_vars => PrekeyInv'
<1> SUFFICES ASSUME IInv, [Next]_vars PROVE PrekeyInv'
  OBVIOUS
<1> USE DEF device, server, history
<1>0. TypeOK /\ StageInv /\ PrekeyInv
  BY DEF IInv
<1>1. ASSUME NEW t \in Tasks, NEW p \in Participants,
             StartEnsure(t, p) \/ StartSync(t, p) \/ \E conv \in BOOLEAN : StartSend(t, p, conv)
      PROVE  PrekeyInv'
  <2>1. NoneEnters({"publishing", "consuming"})
    BY <1>0, <1>1, StartsElsewhere DEF NoneEnters
  <2> QED BY <1>0, <1>1, <2>1, StartsElsewhere, PrekeyFrame
<1>3. ASSUME NEW p \in Participants, Restart(p) PROVE PrekeyInv'
  <2>1. NoneEnters({"publishing", "consuming"})
    BY <1>3 DEF Restart, NoneEnters
  <2> QED BY <1>0, <1>3, <2>1, PrekeyFrame DEF Restart
<1>4. CASE UNCHANGED aside
  BY <1>0, <1>4, PrekeyFrame DEF aside, NoneEnters
<1>5. ASSUME NEW t \in Tasks, Runs(t), ~GeneratePrekeyBundle(t), ~PublishPrekeyBundle(t), ~FetchPrekeyBundle(t),
             ~CompleteSharedSecret(t), ~ConsumeOneTimePrekey(t)
      PROVE  PrekeyInv'
  <2>1. UNCHANGED <<oneTimePrekeys, signedPrekeys, published, pool, generated, consumed, handshakes>>
    BY <1>5 DEF Runs, AlreadyPublished, SaveOwnPrekeyIdentity, RecipientNotSetUp, DeriveSharedSecret, ReadSendingChain,
       AdvanceSendingChain, CreateConversation, DeliverMessage, RequestFails, SetCachedSessionHandle, LoadHistory,
       StoreHistory, ListMessages, SyncDone, LookUpSession, ReceiveFails, RegisterResponder, RegisterSession,
       ReadReceivingChain, AdvanceReceivingChain
  <2>2. NoneEnters({"publishing", "consuming"})
    BY <1>0, <1>5, RunsStages DEF NoneEnters
  <2> QED BY <1>0, <2>1, <2>2, PrekeyFrame
<1>6. ASSUME NEW t \in Tasks, Runs(t) PROVE PrekeyInv'
  BY <1>0, <1>5, <1>6, GenerateKeeps, PublishKeeps, FetchKeeps, CompleteKeeps, ConsumeKeeps
<1> QED BY <1>1, <1>3, <1>4, <1>6, NextCases

--------------------------------------------------------------------------------
(* RegistrationInv is inductive.                                            *)

\* What the calls about to register have in hand.
LEMMA RegisteringFacts ==
    ASSUME TypeOK, StageInv, NEW t \in Tasks
    PROVE  /\ Initiating(t) => /\ task[t].secret \in DOMAIN handshakes /\ Dev(t) \in Participants
                               /\ handshakes[task[t].secret].by = Dev(t)
                               /\ Responder(task[t].secret) # Dev(t)
           /\ At(t, "registering") \/ At(t, "consuming") =>
                 /\ task[t].secret \in DOMAIN handshakes /\ Dev(t) \in Participants
                 /\ Responder(task[t].secret) = Dev(t)
                 /\ handshakes[task[t].secret].by # Dev(t)
<1>1. ASSUME Initiating(t)
      PROVE  /\ task[t].secret \in DOMAIN handshakes /\ Dev(t) \in Participants
             /\ handshakes[task[t].secret].by = Dev(t)
             /\ Responder(task[t].secret) # Dev(t)
  BY <1>1, TaskFields, PeerProperties DEF Initiating, StageInv, Staged, Dev, Responder
<1>2. ASSUME At(t, "registering") \/ At(t, "consuming")
      PROVE  /\ task[t].secret \in DOMAIN handshakes /\ Dev(t) \in Participants
             /\ Responder(task[t].secret) = Dev(t)
             /\ handshakes[task[t].secret].by # Dev(t)
  BY <1>2, TaskFields, PeerProperties DEF At, StageInv, Staged, Dev, Responder
<1> QED BY <1>1, <1>2

\* A handle's secret and owner, and whose prekey it used.
LEMMA HandleFacts ==
    ASSUME TypeOK, SessionsInv, NEW h \in Handles
    PROVE  ratchet[h] \in Session /\ ratchet[h].secret \in DOMAIN handshakes /\ ratchet[h].owner \in Participants
<1>1. ratchet[h] \in Session
  BY LenProperties DEF TypeOK, Handles
<1> QED BY <1>1 DEF SessionsInv, Session

\* Nobody comes to a registration, and nobody gets a prekey that was claimed.
LEMMA RegistrationFrame ==
    ASSUME TypeOK, StageInv, SessionsInv, RegistrationInv, Grows, Handles' = Handles, handshakes' = handshakes,
           \A s \in DOMAIN handshakes : handshakes[s].oneTime # 0
              /\ handshakes[s].oneTime \in oneTimePrekeys'[Responder(s)] =>
                 handshakes[s].oneTime \in oneTimePrekeys[Responder(s)],
           \A u \in Tasks : task'[u] # None =>
              /\ Initiating(u)' => Initiating(u) /\ task'[u].secret = task[u].secret /\ task'[u].dev = task[u].dev
              /\ Completing(u)' => task'[u] = task[u]
    PROVE  RegistrationInv'
<1>1. \A h \in Handles : /\ ratchet'[h].owner = ratchet[h].owner /\ ratchet'[h].secret = ratchet[h].secret
                         /\ ratchet[h].secret \in DOMAIN handshakes
  BY HandleFacts DEF Grows
<1>2. \A s : Responder(s)' = Responder(s)
  BY DEF Responder
<1>3. \A p, s : Registered(p, s)' <=> Registered(p, s)
  BY <1>1 DEF Registered
<1>4. \A u \in Tasks : /\ Initiating(u)' => Initiating(u) /\ task'[u].secret = task[u].secret /\ Dev(u)' = Dev(u)
                       /\ Completing(u)' => /\ Completing(u) /\ At(u, "registering") /\ task'[u] = task[u]
                                            /\ Dev(u)' = Dev(u)
  BY DEF Initiating, Completing, At, Dev
<1>5. OneHandle'
  BY <1>1 DEF RegistrationInv, OneHandle
<1>6. InitiatingInv'
  <2>1. ASSUME NEW t \in Tasks, Initiating(t)' PROVE ~Registered(Dev(t), task[t].secret)'
    BY <1>1, <1>4, <2>1 DEF RegistrationInv, InitiatingInv, Registered
  <2> QED BY <1>4, <2>1 DEF RegistrationInv, InitiatingInv
<1>7. CompletingInv'
  <2>1. ASSUME NEW t \in Tasks, Completing(t)' PROVE ~Registered(Dev(t), task[t].secret)'
    BY <1>1, <1>4, <2>1 DEF RegistrationInv, CompletingInv, Registered
  <2>2. ASSUME NEW t \in Tasks, Completing(t)'
        PROVE  handshakes'[task'[t].secret].oneTime \notin oneTimePrekeys'[Dev(t)']
    <3>1. /\ Completing(t) /\ At(t, "registering") /\ task'[t] = task[t] /\ Dev(t)' = Dev(t)
          /\ handshakes[task[t].secret].oneTime # 0
      BY <1>4, <2>2 DEF Completing
    <3>2. task[t].secret \in DOMAIN handshakes /\ Responder(task[t].secret) = Dev(t)
      BY <3>1, RegisteringFacts
    <3> QED BY <3>1, <3>2 DEF RegistrationInv, CompletingInv
  <2> QED BY <1>4, <2>1, <2>2 DEF RegistrationInv, CompletingInv
<1>8. SpentInv'
  <2>1. ASSUME NEW h \in Handles, ratchet'[h].owner = Responder(ratchet'[h].secret),
               handshakes[ratchet'[h].secret].oneTime # 0
        PROVE  handshakes[ratchet'[h].secret].oneTime \notin oneTimePrekeys'[ratchet'[h].owner]
    BY <1>1, <2>1 DEF RegistrationInv, SpentInv
  <2>2. \A h \in Handles : Responder(ratchet[h].secret)' = Responder(ratchet'[h].secret)
    BY DEF Responder
  <2> QED BY <2>1, <2>2 DEF SpentInv
<1> QED BY <1>5, <1>6, <1>7, <1>8 DEF RegistrationInv

\* A new handshake has no handle, and one initiator.
LEMMA FetchRegisters ==
    ASSUME TypeOK, StageInv, SessionsInv, RegistrationInv, Grows, NEW t \in Tasks, FetchPrekeyBundle(t)
    PROVE  RegistrationInv'
<1>s. PICK s : s = Len(handshakes) + 1
  OBVIOUS
<1> DEFINE q == Peer(Dev(t))
           r == [task[t] EXCEPT !.at = "ensuring", !.secret = s]
<1>1. /\ task[t] # None /\ task[t] \in Task /\ Dev(t) \in Participants /\ published[q] \in Bundles
      /\ UNCHANGED <<oneTimePrekeys, ratchet, messages>>
  BY TaskFields, PeerProperties DEF FetchPrekeyBundle, At, Dev, TypeOK, device
<1>2. PICK n \in {0} \cup Bundles :
         \/ /\ handshakes' = Append(handshakes, [by |-> Dev(t), signed |-> published[q], oneTime |-> n])
            /\ Goes(t, r)
         \/ Ends(t) /\ UNCHANGED handshakes
  BY <1>s DEF FetchPrekeyBundle
<1>3. CASE Ends(t) /\ UNCHANGED handshakes
  <2>1. \A u \in Tasks : task'[u] # None => task'[u] = task[u]
    BY <1>3, GoesFrame DEF Ends
  <2>2. \A u \in Tasks : task'[u] # None =>
           /\ Initiating(u)' => Initiating(u) /\ task'[u].secret = task[u].secret /\ task'[u].dev = task[u].dev
    BY <2>1 DEF Initiating
  <2> QED BY <1>1, <1>3, <2>1, <2>2, RegistrationFrame DEF Handles
<1>4. CASE /\ handshakes' = Append(handshakes, [by |-> Dev(t), signed |-> published[q], oneTime |-> n])
           /\ Goes(t, r)
  <2> DEFINE c == [by |-> Dev(t), signed |-> published[q], oneTime |-> n]
  <2>1. c \in Handshake
    BY <1>1 DEF Handshake
  <2>2. s \notin DOMAIN handshakes /\ DOMAIN handshakes' = DOMAIN handshakes \cup {s}
    BY <1>s, <1>1, <1>4, <2>1, FetchGrows
  <2>3. \A i \in DOMAIN handshakes : handshakes'[i] = handshakes[i] /\ Responder(i)' = Responder(i)
    BY DEF Grows, Responder
  <2>4. task'[t] = r /\ \A u \in Tasks \ {t} : task'[u] = task[u]
    BY <1>4, GoesFrame
  <2>5. r.at = "ensuring" /\ r.secret = s /\ r.dev = Dev(t) /\ r.kind = task[t].kind
    BY <1>1 DEF Task, Dev
  <2>6. \A h \in Handles : ratchet[h].secret \in DOMAIN handshakes /\ ratchet[h].secret # s
    BY <2>2, HandleFacts
  <2>7. Handles' = Handles /\ \A p, i : Registered(p, i)' <=> Registered(p, i)
    BY <1>1 DEF Handles, Registered
  <2>8. \A u \in Tasks \ {t} : /\ Initiating(u)' <=> Initiating(u)
                               /\ Dev(u)' = Dev(u) /\ At(u, "registering")' = At(u, "registering")
    BY <2>4 DEF Initiating, Dev, At
  <2>9. \A u \in Tasks : Initiating(u) \/ At(u, "registering") => task[u].secret \in DOMAIN handshakes
    BY RegisteringFacts
  <2>10. ~At(t, "registering")'
    BY <2>4, <2>5 DEF At
  <2> HIDE DEF r
  <2>11. OneHandle'
    BY <1>1, <2>3, <2>6, <2>7 DEF RegistrationInv, OneHandle
  <2>12. InitiatingInv'
    <3>1. ASSUME NEW u \in Tasks, Initiating(u)'
          PROVE  /\ ~Registered(Dev(u), task[u].secret)'
                 /\ \A v \in Tasks : Initiating(v)' /\ task'[v].secret = task'[u].secret => v = u
      <4>1. CASE u = t
        <5>1. ~\E h \in Handles : ratchet[h].secret = s
          BY <2>6
        <5>2. ~Registered(Dev(u), task[u].secret)'
          BY <1>1, <2>4, <2>5, <2>7, <4>1, <5>1 DEF Registered
        <5>3. \A v \in Tasks \ {t} : Initiating(v)' => task'[v].secret # s
          BY <2>2, <2>4, <2>8, <2>9
        <5> QED BY <2>4, <2>5, <4>1, <5>2, <5>3
      <4>2. CASE u # t
        <5>1. Initiating(u) /\ task'[u] = task[u] /\ Dev(u)' = Dev(u) /\ task[u].secret # s
          BY <2>2, <2>4, <2>8, <2>9, <3>1, <4>2
        <5>2. ~Registered(Dev(u), task[u].secret)'
          BY <1>1, <2>7, <5>1 DEF RegistrationInv, InitiatingInv, Registered
        <5> QED BY <2>4, <2>5, <2>8, <4>2, <5>1, <5>2 DEF RegistrationInv, InitiatingInv
      <4> QED BY <4>1, <4>2
    <3> QED BY <3>1 DEF InitiatingInv
  <2>13. \A u \in Tasks : Completing(u)' => /\ Completing(u) /\ task'[u] = task[u] /\ Dev(u)' = Dev(u)
                                            /\ task[u].secret \in DOMAIN handshakes
    BY <2>3, <2>4, <2>8, <2>9, <2>10 DEF Completing
  <2>14. CompletingInv'
    <3>1. ASSUME NEW u \in Tasks, Completing(u)' PROVE ~Registered(Dev(u), task[u].secret)'
      BY <1>1, <2>7, <2>13, <3>1 DEF RegistrationInv, CompletingInv, Registered
    <3> QED BY <1>1, <2>3, <2>13, <3>1 DEF RegistrationInv, CompletingInv
  <2>15. SpentInv'
    <3>1. ASSUME NEW h \in Handles
          PROVE  Responder(ratchet[h].secret)' = Responder(ratchet[h].secret)
                 /\ handshakes'[ratchet[h].secret] = handshakes[ratchet[h].secret]
      BY <1>1, <2>3, <2>6 DEF Responder
    <3> QED BY <1>1, <2>7, <3>1 DEF RegistrationInv, SpentInv
  <2> QED BY <2>11, <2>12, <2>14, <2>15 DEF RegistrationInv
<1> QED BY <1>2, <1>3, <1>4

\* Who registers a session is the only one to, on its device.
LEMMA RegisterRegisters ==
    ASSUME TypeOK, StageInv, SessionsInv, RegistrationInv, Grows, NEW t \in Tasks, Runs(t), Registers(t)
    PROVE  RegistrationInv'
<1>n. PICK n : n = Len(ratchet) + 1
  OBVIOUS
<1>p. PICK p, s : p = Dev(t) /\ s = task[t].secret
  OBVIOUS
<1>1. /\ Handles' = Handles \cup {n} /\ n \notin Handles /\ \A h \in Handles : ratchet'[h] = ratchet[h]
      /\ task[t] # None /\ s \in DOMAIN handshakes
      /\ UNCHANGED <<oneTimePrekeys, server, history>>
  BY <1>n, <1>p, RegistersSession
<1>2. ratchet'[n].owner = p /\ ratchet'[n].secret = s
  <2>1. ratchet'[n] = [owner |-> p, secret |-> s, sent |-> 0, received |-> 0]
    BY <1>n, <1>p, RegistersSession
  <2> QED BY <2>1
<1>3. UNCHANGED <<oneTimePrekeys, handshakes>>
  BY <1>1 DEF history
<1>4. \/ Initiating(t)
      \/ At(t, "registering") /\ (handshakes[s].oneTime # 0 => Completing(t))
  <2>1. CASE DeriveSharedSecret(t)
    <3>1. task[t] # None /\ task[t].at = "deriving" /\ Staged(t) /\ task[t] \in Task
      BY <2>1, TaskFields DEF DeriveSharedSecret, At, StageInv
    <3>2. task[t].kind = "send"
      BY <3>1 DEF Staged, Task, Ensuring, Syncing, Recording
    <3> QED BY <3>1, <3>2 DEF Initiating
  <2>2. CASE RegisterResponder(t)
    BY <1>p, <2>2 DEF RegisterResponder, Completing
  <2> QED BY <2>1, <2>2 DEF Registers
<1>5. /\ \A i : Responder(i)' = Responder(i)
      /\ Initiating(t) => Responder(s) # p /\ handshakes[s].by = p
      /\ At(t, "registering") => Responder(s) = p /\ handshakes[s].by # p
  BY <1>3, <1>p, RegisteringFacts DEF Responder
<1>6. \A u \in Tasks : /\ Initiating(u)' => u # t /\ Initiating(u) /\ task'[u] = task[u] /\ Dev(u)' = Dev(u)
                       /\ Completing(u)' => u # t /\ Completing(u) /\ task'[u] = task[u] /\ Dev(u)' = Dev(u)
  <2>1. task'[t] # None => task'[t].at \notin Ensuring \cup {"deriving", "registering"}
    <3>1. PICK stage \in {"encrypting", "remembering"} : RegisterSession(t, stage)
      BY DEF Registers, DeriveSharedSecret, RegisterResponder
    <3>2. task[t] \in Task
      BY <1>1, TaskFields
    <3>3. task'[t] = [task[t] EXCEPT !.at = stage, !.handle = Len(ratchet) + 1, !.fresh = TRUE]
      BY <3>1, GoesFrame DEF RegisterSession
    <3> QED BY <3>2, <3>3 DEF Ensuring, Task
  <2>2. \A u \in Tasks \ {t} : task'[u] = task[u]
    BY RunsStages
  <2> QED BY <1>3, <2>1, <2>2 DEF Initiating, Completing, At, Dev
<1>7. \A q, i : Registered(q, i)' <=> Registered(q, i) \/ (q = p /\ i = s)
  BY <1>1, <1>2 DEF Registered
<1>8. \A h \in Handles : ratchet[h].secret \in DOMAIN handshakes
  BY HandleFacts
<1>9. handshakes[s].oneTime # 0 =>
         /\ \A h \in Handles : ~(ratchet[h].owner = p /\ ratchet[h].secret = s)
         /\ Responder(s) = p => handshakes[s].oneTime \notin oneTimePrekeys[p]
  BY <1>4, <1>5, <1>p DEF RegistrationInv, InitiatingInv, CompletingInv, Registered
<1>10. OneHandle'
  BY <1>1, <1>2, <1>3, <1>9 DEF RegistrationInv, OneHandle
<1>11. InitiatingInv'
  <2>1. ASSUME NEW u \in Tasks, Initiating(u)' PROVE ~Registered(Dev(u), task[u].secret)'
    <3>1. u # t /\ Initiating(u) /\ task'[u] = task[u] /\ Dev(u)' = Dev(u)
      BY <1>6, <2>1
    <3>2. ~Registered(Dev(u), task[u].secret)
      BY <3>1 DEF RegistrationInv, InitiatingInv
    <3>3. handshakes[task[u].secret].by = Dev(u)
      BY <3>1, RegisteringFacts
    <3>4. ~(Dev(u) = p /\ task[u].secret = s)
      BY <1>4, <1>5, <1>p, <3>1, <3>3 DEF RegistrationInv, InitiatingInv
    <3> QED BY <1>1, <1>2, <3>1, <3>2, <3>4 DEF Registered
  <2> QED BY <1>6, <2>1 DEF RegistrationInv, InitiatingInv
<1>12. CompletingInv'
  <2>1. ASSUME NEW u \in Tasks, Completing(u)' PROVE ~Registered(Dev(u), task[u].secret)'
    <3>1. u # t /\ Completing(u) /\ task'[u] = task[u] /\ Dev(u)' = Dev(u) /\ At(u, "registering")
          /\ handshakes[task[u].secret].oneTime # 0
      BY <1>6, <2>1 DEF Completing
    <3>2. ~Registered(Dev(u), task[u].secret)
      BY <3>1 DEF RegistrationInv, CompletingInv
    <3>3. handshakes[task[u].secret].by # Dev(u)
      BY <3>1, RegisteringFacts
    <3>4. ~(Dev(u) = p /\ task[u].secret = s)
      BY <1>4, <1>5, <1>p, <3>1, <3>3 DEF RegistrationInv, CompletingInv
    <3> QED BY <1>1, <1>2, <3>1, <3>2, <3>4 DEF Registered
  <2> QED BY <1>3, <1>6, <2>1 DEF RegistrationInv, CompletingInv
<1>13. SpentInv'
  <2>1. ASSUME NEW h \in Handles', ratchet'[h].owner = Responder(ratchet'[h].secret),
               handshakes[ratchet'[h].secret].oneTime # 0
        PROVE  handshakes[ratchet'[h].secret].oneTime \notin oneTimePrekeys[ratchet'[h].owner]
    <3>1. CASE h \in Handles
      BY <1>1, <2>1, <3>1 DEF RegistrationInv, SpentInv
    <3>2. CASE h = n
      BY <1>2, <1>9, <2>1, <3>2
    <3> QED BY <1>1, <3>1, <3>2
  <2>2. \A h : Responder(ratchet[h].secret)' = Responder(ratchet'[h].secret)
    BY <1>3 DEF Responder
  <2> QED BY <1>3, <2>1, <2>2 DEF SpentInv
<1> QED BY <1>10, <1>11, <1>12, <1>13 DEF RegistrationInv

\* Who has consumed the prekey of a handshake is alone to complete it.
LEMMA ConsumeRegisters ==
    ASSUME TypeOK, StageInv, SessionsInv, PrekeyInv, RegistrationInv, Grows,
           NEW t \in Tasks, Runs(t), ConsumeOneTimePrekey(t)
    PROVE  RegistrationInv'
<1>p. PICK p, s, n : p = Dev(t) /\ s = task[t].secret /\ n = handshakes[s].oneTime
  OBVIOUS
<1>1. /\ At(t, "consuming") /\ task[t] # None /\ task[t] \in Task
      /\ UNCHANGED <<handshakes, ratchet>> /\ Moves(t, "registering")
      /\ oneTimePrekeys' = [oneTimePrekeys EXCEPT ![p] = @ \ {n}]
  BY <1>p, TaskFields DEF ConsumeOneTimePrekey, At
<1>2. s \in DOMAIN handshakes /\ Responder(s) = p /\ p \in Participants
  BY <1>1, <1>p, RegisteringFacts
<1>3. n # 0 /\ n \in oneTimePrekeys[p]
  BY <1>1, <1>p DEF PrekeyInv, ConsumingInv
<1>4. /\ oneTimePrekeys'[p] = oneTimePrekeys[p] \ {n}
      /\ \A q \in Participants : oneTimePrekeys'[q] \subseteq oneTimePrekeys[q]
  BY <1>1, <1>2 DEF TypeOK
<1>5. task'[t].secret = s /\ task'[t].dev = p /\ task'[t].at = "registering"
  <2>1. task'[t] = [task[t] EXCEPT !.at = "registering"]
    BY <1>1, GoesFrame DEF Moves
  <2> QED BY <1>1, <1>p, <2>1 DEF Task, Dev
<1>6. /\ Handles' = Handles /\ \A i : Responder(i)' = Responder(i)
      /\ \A q, i : Registered(q, i)' <=> Registered(q, i)
  BY <1>1 DEF Handles, Responder, Registered
<1>7. /\ \A u \in Tasks \ {t} : task'[u] = task[u]
      /\ \A u \in Tasks : Initiating(u)' => u # t /\ Initiating(u) /\ task'[u] = task[u] /\ Dev(u)' = Dev(u)
      /\ \A u \in Tasks : u # t /\ Completing(u)' => Completing(u) /\ task'[u] = task[u] /\ Dev(u)' = Dev(u)
  <2>1. \A u \in Tasks \ {t} : task'[u] = task[u]
    BY RunsStages
  <2> QED BY <1>1, <1>5, <2>1 DEF Initiating, Completing, At, Dev, Ensuring
<1>8. /\ ~\E h \in Handles : ratchet[h].owner = p /\ ratchet[h].secret = s
      /\ \A u \in Tasks : Completing(u) => ~(Dev(u) = p /\ task[u].secret = s)
  BY <1>2, <1>3, <1>p DEF RegistrationInv, SpentInv, CompletingInv
<1>9. OneHandle'
  BY <1>1, <1>6 DEF RegistrationInv, OneHandle
<1>10. InitiatingInv'
  <2>1. ASSUME NEW u \in Tasks, Initiating(u)' PROVE ~Registered(Dev(u), task[u].secret)'
    BY <1>1, <1>6, <1>7, <2>1 DEF RegistrationInv, InitiatingInv, Registered
  <2> QED BY <1>7, <2>1 DEF RegistrationInv, InitiatingInv
<1>11. CompletingInv'
  <2>1. ASSUME NEW u \in Tasks, Completing(u)'
        PROVE  /\ handshakes'[task'[u].secret].oneTime \notin oneTimePrekeys'[Dev(u)']
               /\ ~Registered(Dev(u), task[u].secret)'
               /\ \A v \in Tasks : Completing(v)' /\ Dev(v)' = Dev(u)' /\ task'[v].secret = task'[u].secret => v = u
    <3>1. CASE u = t
      <4>1. Dev(u)' = p /\ task'[u].secret = s
        BY <1>5, <3>1 DEF Dev
      <4>2. ~Registered(Dev(u), task[u].secret)'
        BY <1>1, <1>6, <1>8, <4>1 DEF Registered
      <4> QED BY <1>1, <1>4, <1>7, <1>8, <1>p, <3>1, <4>1, <4>2
    <3>2. CASE u # t
      <4>1. Completing(u) /\ task'[u] = task[u] /\ Dev(u)' = Dev(u) /\ Dev(u) \in Participants
        BY <1>7, <2>1, <3>2, RegisteringFacts DEF Completing
      <4>2. ~Registered(Dev(u), task[u].secret)'
        BY <1>1, <1>6, <4>1 DEF RegistrationInv, CompletingInv, Registered
      <4>3. Dev(t)' = p
        BY <1>5 DEF Dev
      <4> QED BY <1>1, <1>4, <1>5, <1>7, <1>8, <3>2, <4>1, <4>2, <4>3 DEF RegistrationInv, CompletingInv
    <3> QED BY <3>1, <3>2
  <2> QED BY <2>1 DEF CompletingInv
<1>12. SpentInv'
  <2>1. \A h \in Handles : Responder(ratchet[h].secret)' = Responder(ratchet[h].secret) /\ ratchet[h].owner \in Participants
    BY <1>1, HandleFacts DEF Responder
  <2> QED BY <1>1, <1>4, <1>6, <2>1 DEF RegistrationInv, SpentInv
<1> QED BY <1>9, <1>10, <1>11, <1>12 DEF RegistrationInv

\* Every step keeps RegistrationInv.
LEMMA RegistrationsStep == IInv /\ [Next]_vars => RegistrationInv'
<1> SUFFICES ASSUME IInv, [Next]_vars PROVE RegistrationInv'
  OBVIOUS
<1> USE DEF device, server, history
<1>0. TypeOK /\ StageInv /\ SessionsInv /\ PrekeyInv /\ RegistrationInv /\ Grows
  BY GrowsStep DEF IInv
<1>a. ASSUME UNCHANGED <<ratchet, oneTimePrekeys, handshakes>>,
             \A u \in Tasks : task'[u] # None =>
                /\ Initiating(u)' => Initiating(u) /\ task'[u].secret = task[u].secret /\ task'[u].dev = task[u].dev
                /\ Completing(u)' => task'[u] = task[u]
      PROVE  RegistrationInv'
  BY <1>0, <1>a, RegistrationFrame DEF Handles
<1>1. ASSUME NEW t \in Tasks, NEW p \in Participants,
             StartEnsure(t, p) \/ StartSync(t, p) \/ \E conv \in BOOLEAN : StartSend(t, p, conv)
      PROVE  RegistrationInv'
  <2>1. UNCHANGED <<ratchet, oneTimePrekeys, handshakes>>
    BY <1>0, <1>1, StartsElsewhere
  <2>2. /\ ~Initiating(t)' /\ ~Completing(t)' /\ \A u \in Tasks \ {t} : task'[u] = task[u]
    BY <1>0, <1>1, StartsElsewhere DEF Initiating, Completing, At
  <2>3. \A u \in Tasks \ {t} : Initiating(u)' => Initiating(u)
    BY <2>2 DEF Initiating
  <2> QED BY <1>a, <2>1, <2>2, <2>3
<1>2. ASSUME NEW p \in Participants, Restart(p) PROVE RegistrationInv'
  <2>1. \A u \in Tasks : task'[u] # None => task'[u] = task[u]
    BY <1>2 DEF Restart
  <2>2. \A u \in Tasks : task'[u] # None /\ Initiating(u)' => Initiating(u)
    BY <2>1 DEF Initiating
  <2> QED BY <1>2, <1>a, <2>1, <2>2 DEF Restart
<1>3. CASE UNCHANGED aside
  <2>1. \A u \in Tasks : Initiating(u)' => Initiating(u)
    BY <1>3 DEF Initiating, aside
  <2> QED BY <1>3, <1>a, <2>1 DEF aside
<1>4. ASSUME NEW t \in Tasks, Runs(t), ~FetchPrekeyBundle(t), ~Registers(t), ~ConsumeOneTimePrekey(t)
      PROVE  RegistrationInv'
  <2>1. /\ handshakes' = handshakes /\ Handles' = Handles
        /\ \A u \in Tasks \ {t} : task'[u] = task[u]
    <3>1. UNCHANGED <<handshakes, ratchet>> \/ AdvanceSendingChain(t) \/ AdvanceReceivingChain(t)
      BY <1>4 DEF Runs, Registers, AlreadyPublished, GeneratePrekeyBundle, PublishPrekeyBundle,
         SaveOwnPrekeyIdentity, RecipientNotSetUp, ReadSendingChain,
         CreateConversation, DeliverMessage, RequestFails, SetCachedSessionHandle, LoadHistory, StoreHistory,
         ListMessages, SyncDone, LookUpSession, CompleteSharedSecret, ReceiveFails, ReadReceivingChain
    <3>2. AdvanceSendingChain(t) \/ AdvanceReceivingChain(t) => UNCHANGED handshakes /\ Handles' = Handles
      BY <1>0, AdvanceChains DEF AdvanceSendingChain, AdvanceReceivingChain
    <3> QED BY <1>0, <1>4, <3>1, <3>2, RunsStages DEF Handles
  <2>2. \A s \in DOMAIN handshakes : handshakes[s].oneTime # 0
              /\ handshakes[s].oneTime \in oneTimePrekeys'[Responder(s)] =>
                 handshakes[s].oneTime \in oneTimePrekeys[Responder(s)]
    <3>1. CASE GeneratePrekeyBundle(t)
      <4>1. \A s \in DOMAIN handshakes : handshakes[s].oneTime # 0 => handshakes[s].oneTime <= generated[Responder(s)]
        BY <1>0 DEF PrekeyInv, ClaimInv
      <4>2. oneTimePrekeys' = [oneTimePrekeys EXCEPT ![Dev(t)] = @ \cup {generated[Dev(t)] + 1}]
        BY <3>1 DEF GeneratePrekeyBundle
      <4>3. ASSUME NEW s \in DOMAIN handshakes, handshakes[s].oneTime # 0,
                   handshakes[s].oneTime \in oneTimePrekeys'[Responder(s)]
            PROVE  handshakes[s].oneTime \in oneTimePrekeys[Responder(s)]
        <5>1. /\ handshakes[s].oneTime <= generated[Responder(s)] /\ generated[Responder(s)] \in Nat
              /\ handshakes[s].oneTime \in Nat /\ Responder(s) \in Participants
          BY <1>0, <4>1, <4>3, PrekeyFacts
        <5>2. handshakes[s].oneTime # generated[Responder(s)] + 1
          BY <5>1
        <5> QED BY <1>0, <4>2, <4>3, <5>1, <5>2 DEF TypeOK
      <4> QED BY <4>3
    <3>2. CASE ~GeneratePrekeyBundle(t)
      <4>1. UNCHANGED oneTimePrekeys
        BY <1>4, <3>2 DEF Runs, Registers, AlreadyPublished, PublishPrekeyBundle,
         SaveOwnPrekeyIdentity, RecipientNotSetUp, ReadSendingChain, AdvanceSendingChain, AdvanceReceivingChain,
         CreateConversation, DeliverMessage, RequestFails, SetCachedSessionHandle, LoadHistory, StoreHistory,
         ListMessages, SyncDone, LookUpSession, CompleteSharedSecret, ReceiveFails, ReadReceivingChain
      <4> QED BY <4>1
    <3> QED BY <3>1, <3>2
  <2>3. task'[t] # None =>
           /\ Initiating(t)' => Initiating(t) /\ task'[t].secret = task[t].secret /\ task'[t].dev = task[t].dev
           /\ ~Completing(t)'
    <3> SUFFICES ASSUME task'[t] # None
                 PROVE  /\ Initiating(t)' => Initiating(t) /\ task'[t].secret = task[t].secret /\ task'[t].dev = task[t].dev
                        /\ ~Completing(t)'
      OBVIOUS
    <3>1. task[t] # None
      BY <1>0, <1>4, RunsTask
    <3>2. Initiating(t)' => Initiating(t) /\ task'[t].secret = task[t].secret /\ task'[t].dev = task[t].dev
      BY <1>0, <1>4, <3>1, RunsStages DEF Initiating
    <3>3. ASSUME CompleteSharedSecret(t), task'[t].at = "registering" PROVE handshakes[task[t].secret].oneTime = 0
      <4>1. task[t] \in Task
        BY <1>0, <3>1, TaskFields
      <4>2. ASSUME NEW i, Gap(t, i) PROVE task'[t].at = "working"
        <5>1. task'[t] = [task[t] EXCEPT !.at = "working", !.found.gaps = @ \cup {i}]
          BY <1>0, <4>2, GoesFrame DEF Gap
        <5> QED BY <4>1, <5>1 DEF Task
      <4>3. Moves(t, "consuming") => task'[t].at = "consuming"
        BY <1>0, <4>1, GoesFrame DEF Moves, Task
      <4> QED BY <3>3, <4>2, <4>3 DEF CompleteSharedSecret
    <3>4. ~Completing(t)'
      BY <1>0, <1>4, <2>1, <3>3, RunsStages DEF Completing, At
    <3> QED BY <3>2, <3>4
  <2>4. \A u \in Tasks \ {t} : Initiating(u)' => Initiating(u)
    BY <2>1 DEF Initiating
  <2> QED BY <1>0, <2>1, <2>2, <2>3, <2>4, RegistrationFrame
<1>5. ASSUME NEW t \in Tasks, Runs(t) PROVE RegistrationInv'
  BY <1>0, <1>4, <1>5, FetchRegisters, RegisterRegisters, ConsumeRegisters
<1> QED BY <1>1, <1>2, <1>3, <1>5, NextCases

--------------------------------------------------------------------------------
(* ChainInv is inductive.                                                   *)

\* A key that was used twice is of a handshake there is, and stays so.
LEMMA ReusedStays ==
    ASSUME TypeOK, SessionsInv, ChainInv, Grows
    PROVE  \A k \in reused : Doubled(k)'
<1>1. ASSUME NEW k \in reused PROVE Doubled(k)'
  <2>1. handshakes[k[1]].oneTime = 0
    BY DEF ChainInv, NoKeyReuse
  <2>2. PICK g, h \in Handles : g # h /\ \A x \in {g, h} : ratchet[x].secret = k[1] /\ ratchet[x].owner = k[2]
    BY DEF ChainInv, NoKeyReuse
  <2>3. k[1] \in DOMAIN handshakes
    BY <2>2, HandleFacts
  <2>4. g \in Handles' /\ h \in Handles'
        /\ \A x \in {g, h} : ratchet'[x].secret = k[1] /\ ratchet'[x].owner = k[2]
    BY <2>2 DEF Grows
  <2> QED BY <2>1, <2>2, <2>3, <2>4 DEF Grows, Doubled
<1> QED BY <1>1

\* Nobody takes a lock, and the session of who has one is not written.
LEMMA LocksKept ==
    ASSUME LockInv, NoneEnters({"advancing", "opening"}),
           \A u \in Tasks : Chaining(u) /\ Chaining(u)' => ratchet'[task[u].handle] = ratchet[task[u].handle]
    PROVE  LockInv'
<1>1. ASSUME NEW u \in Tasks, Chaining(u)' PROVE Chaining(u) /\ task'[u] = task[u]
  BY <1>1 DEF NoneEnters, Chaining, At
<1>2. ASSUME NEW u \in Tasks PROVE Knows(u)'
  <2>1. CASE Chaining(u)'
    <3>1. task'[u] = task[u] /\ ratchet'[task'[u].handle] = ratchet[task[u].handle]
      BY <1>1, <2>1
    <3> QED BY <3>1 DEF LockInv, Knows, At
  <2>2. CASE ~Chaining(u)'
    BY <2>2 DEF Knows, Chaining
  <2> QED BY <2>1, <2>2
<1> QED BY <1>1, <1>2 DEF LockInv

\* No key is given.
LEMMA ChainFrame ==
    ASSUME TypeOK, SessionsInv, ChainInv, Grows, LockInv',
           UNCHANGED <<encrypted, reused>>, \A h \in Handles : ratchet'[h].sent = ratchet[h].sent
    PROVE  ChainInv'
<1>1. KeysBehind'
  BY DEF ChainInv, KeysBehind, Grows
<1>2. NoKeyReuse'
  BY ReusedStays DEF NoKeyReuse, Doubled
<1> QED BY <1>1, <1>2 DEF ChainInv

\* Who reads a chain has its lock until it has advanced it.
LEMMA ReadChains ==
    ASSUME TypeOK, StageInv, SessionsInv, ChainInv, Grows,
           NEW t \in Tasks, Runs(t), ReadSendingChain(t) \/ ReadReceivingChain(t)
    PROVE  ChainInv'
<1>1. /\ task[t] # None /\ task[t] \in Task /\ UNCHANGED <<ratchet, handshakes, encrypted, reused>>
      /\ RatchetFree(task[t].handle)
  BY RunsTask DEF ReadSendingChain, ReadReceivingChain, device, history
<1>2. \A u \in Tasks \ {t} : task'[u] = task[u]
  BY RunsStages
<1> DEFINE r == ratchet[task[t].handle]
<1>3. Chaining(t)' => task'[t].handle = task[t].handle /\ Knows(t)'
  <2>1. CASE ReadSendingChain(t)
    <3>1. task'[t] = [task[t] EXCEPT !.at = "advancing", !.position = r.sent, !.opposite = r.received]
      BY <2>1, GoesFrame DEF ReadSendingChain
    <3>2. /\ task'[t].at = "advancing" /\ task'[t].handle = task[t].handle
          /\ task'[t].position = r.sent /\ task'[t].opposite = r.received
      BY <1>1, <3>1 DEF Task
    <3> QED BY <1>1, <3>2 DEF Knows, At
  <2>2. CASE ReadReceivingChain(t)
    <3> DEFINE q == [task[t] EXCEPT !.at = "opening", !.position = r.received, !.opposite = r.sent]
    <3>1. Gap(t, task[t].id) \/ Goes(t, q)
      BY <2>2 DEF ReadReceivingChain
    <3>2. CASE Gap(t, task[t].id)
      <4>1. task'[t] = [task[t] EXCEPT !.at = "working", !.found.gaps = @ \cup {task[t].id}]
        BY <3>2, GoesFrame DEF Gap
      <4>2. task'[t].at = "working"
        BY <1>1, <4>1 DEF Task
      <4> QED BY <4>2 DEF Chaining, At
    <3>3. CASE Goes(t, q)
      <4>1. task'[t] = q
        BY <3>3, GoesFrame
      <4>2. /\ task'[t].at = "opening" /\ task'[t].handle = task[t].handle
            /\ task'[t].position = r.received /\ task'[t].opposite = r.sent
        BY <1>1, <4>1 DEF Task
      <4> QED BY <1>1, <4>2 DEF Knows, At
    <3> QED BY <3>1, <3>2, <3>3
  <2> QED BY <2>1, <2>2
<1>4. \A u \in Tasks \ {t} : Chaining(u)' => Chaining(u) /\ task[u].handle # task[t].handle
  BY <1>1, <1>2 DEF Chaining, At, RatchetFree
<1>5. \A u \in Tasks : Knows(u)'
  <2>1. ASSUME NEW u \in Tasks \ {t} PROVE Knows(u)'
    BY <1>1, <1>2, <2>1 DEF ChainInv, LockInv, Knows, At
  <2>2. Knows(t)'
    BY <1>3 DEF Knows, Chaining
  <2> QED BY <2>1, <2>2
<1>6. LockInv'
  <2>1. \A u \in Tasks \ {t} : Chaining(t)' /\ Chaining(u)' => task'[t].handle # task'[u].handle
    BY <1>2, <1>3, <1>4
  <2>2. ASSUME NEW u \in Tasks, NEW v \in Tasks, Chaining(u)', Chaining(v)', task'[u].handle = task'[v].handle
        PROVE  u = v
    <3>1. CASE u = t \/ v = t
      BY <2>1, <2>2, <3>1
    <3>2. CASE u # t /\ v # t
      BY <1>2, <1>4, <2>2, <3>2 DEF ChainInv, LockInv
    <3> QED BY <3>1, <3>2
  <2> QED BY <1>5, <2>2 DEF LockInv
<1> QED BY <1>1, <1>6, ChainFrame DEF Handles

\* Who advances a chain had the session's lock alone, and gives it up.
LEMMA AdvanceLocks ==
    ASSUME TypeOK, ChainInv, NEW t \in Tasks, Runs(t), AdvanceSendingChain(t) \/ AdvanceReceivingChain(t)
    PROVE  LockInv' /\ Chaining(t) /\ Knows(t)
<1>1. Chaining(t) /\ Knows(t)
  BY DEF Chaining, AdvanceSendingChain, AdvanceReceivingChain, ChainInv, LockInv
<1>2. ~ReadSendingChain(t) /\ ~ReadReceivingChain(t)
  BY DEF AdvanceSendingChain, AdvanceReceivingChain, ReadSendingChain, ReadReceivingChain, At
<1>3. NoneEnters({"advancing", "opening"}) /\ ~Chaining(t)'
  BY <1>2, RunsStages DEF NoneEnters, Chaining, At
<1>4. ASSUME NEW u \in Tasks, Chaining(u), Chaining(u)'
      PROVE  ratchet'[task[u].handle] = ratchet[task[u].handle]
  <2>1. u # t /\ task[u].handle # task[t].handle
    BY <1>1, <1>3, <1>4 DEF ChainInv, LockInv
  <2>2. task[u].handle \in Handles
    BY <1>4 DEF TypeOK, Chaining, At, Holding
  <2> QED BY <2>1, <2>2, AdvanceChains
<1> QED BY <1>1, <1>3, <1>4, LocksKept DEF ChainInv

\* The key a chain gives next was given before only by another handle of the secret.
LEMMA AdvanceKeeps ==
    ASSUME TypeOK, StageInv, SessionsInv, RegistrationInv, ChainInv, Grows,
           NEW t \in Tasks, Runs(t), AdvanceSendingChain(t)
    PROVE  ChainInv'
<1>k. PICK h, n, key : h = task[t].handle /\ n = task[t].position /\ key = MessageKey(t)
  OBVIOUS
<1>1. /\ At(t, "advancing") /\ task[t] # None /\ n \in Nat
      /\ encrypted' = encrypted \cup {key} /\ reused' = reused \cup (encrypted \cap {key})
      /\ UNCHANGED handshakes
  BY <1>k, TaskFields DEF AdvanceSendingChain, At
<1>2. /\ h \in Handles /\ ratchet[h].owner = Dev(t) /\ ratchet[h] \in Session /\ Handles' = Handles
      /\ \A g \in Handles : /\ g # h => ratchet'[g] = ratchet[g]
                            /\ ratchet'[g].owner = ratchet[g].owner
                            /\ ratchet'[g].secret = ratchet[g].secret
      /\ ratchet'[h].sent = n + 1
  BY <1>k, AdvanceChains DEF Dev
<1>3. key = <<ratchet[h].secret, Dev(t), n>>
  BY <1>k DEF MessageKey
<1>4. n = ratchet[h].sent /\ LockInv'
  BY <1>1, <1>k, AdvanceLocks DEF Knows
<1>8. KeysBehind'
  <2>1. \A k \in encrypted : \E g \in Handles :
           ratchet'[g].secret = k[1] /\ ratchet'[g].owner = k[2] /\ k[3] < ratchet'[g].sent
    <3>1. ASSUME NEW k \in encrypted
          PROVE \E g \in Handles : ratchet'[g].secret = k[1] /\ ratchet'[g].owner = k[2] /\ k[3] < ratchet'[g].sent
      <4>1. PICK g \in Handles : ratchet[g].secret = k[1] /\ ratchet[g].owner = k[2] /\ k[3] < ratchet[g].sent
        BY DEF ChainInv, KeysBehind
      <4>2. k[3] \in Nat
        BY DEF TypeOK, Key
      <4>3. k[3] < ratchet'[g].sent
        <5>1. CASE g = h
          BY <1>1, <1>2, <1>4, <4>1, <4>2, <5>1
        <5>2. CASE g # h
          BY <1>2, <4>1, <5>2
        <5> QED BY <5>1, <5>2
      <4> QED BY <1>2, <4>1, <4>3
    <3> QED BY <3>1
  <2>2. ratchet'[h].secret = key[1] /\ ratchet'[h].owner = key[2] /\ key[3] < ratchet'[h].sent
    BY <1>1, <1>2, <1>3
  <2> QED BY <1>1, <1>2, <2>1, <2>2 DEF KeysBehind
<1>9. NoKeyReuse'
  <2>1. ASSUME key \in encrypted PROVE Doubled(key)'
    <3>1. PICK g \in Handles : ratchet[g].secret = key[1] /\ ratchet[g].owner = key[2] /\ key[3] < ratchet[g].sent
      BY <2>1 DEF ChainInv, KeysBehind
    <3>2. g # h
      BY <1>1, <1>3, <1>4, <3>1
    <3>3. ratchet[h].secret = key[1] /\ ratchet[h].owner = key[2]
      BY <1>2, <1>3
    <3>4. handshakes[key[1]].oneTime = 0
      BY <1>2, <3>1, <3>2, <3>3 DEF RegistrationInv, OneHandle
    <3>5. \A x \in {g, h} : ratchet'[x].secret = key[1] /\ ratchet'[x].owner = key[2]
      BY <1>2, <3>1, <3>3
    <3> QED BY <1>1, <1>2, <3>1, <3>2, <3>4, <3>5 DEF Doubled
  <2>2. \A k \in reused' : Doubled(k)'
    BY <1>1, <2>1, ReusedStays
  <2> QED BY <2>2 DEF NoKeyReuse, Doubled
<1> QED BY <1>4, <1>8, <1>9 DEF ChainInv

\* Every step keeps ChainInv.
LEMMA ChainsStep == IInv /\ [Next]_vars => ChainInv'
<1> SUFFICES ASSUME IInv, [Next]_vars PROVE ChainInv'
  OBVIOUS
<1> USE DEF device, server, history
<1>0. TypeOK /\ StageInv /\ SessionsInv /\ RegistrationInv /\ ChainInv /\ Grows
  BY GrowsStep DEF IInv
<1>1. ASSUME NEW t \in Tasks, NEW p \in Participants,
             StartEnsure(t, p) \/ StartSync(t, p) \/ \E conv \in BOOLEAN : StartSend(t, p, conv)
      PROVE  ChainInv'
  <2>1. NoneEnters({"advancing", "opening"}) /\ UNCHANGED <<ratchet, encrypted, reused>>
    BY <1>0, <1>1, StartsElsewhere DEF NoneEnters
  <2> QED BY <1>0, <2>1, LocksKept, ChainFrame DEF ChainInv
<1>2. ASSUME NEW p \in Participants, Restart(p) PROVE ChainInv'
  <2>1. NoneEnters({"advancing", "opening"}) /\ UNCHANGED <<ratchet, encrypted, reused>>
    BY <1>2 DEF Restart, NoneEnters
  <2> QED BY <1>0, <2>1, LocksKept, ChainFrame DEF ChainInv
<1>3. CASE UNCHANGED aside
  <2>1. NoneEnters({"advancing", "opening"}) /\ UNCHANGED <<ratchet, encrypted, reused>>
    BY <1>3 DEF aside, NoneEnters
  <2> QED BY <1>0, <2>1, LocksKept, ChainFrame DEF ChainInv
<1>4. ASSUME NEW t \in Tasks, Runs(t), ~ReadSendingChain(t), ~ReadReceivingChain(t), ~AdvanceSendingChain(t)
      PROVE  ChainInv'
  <2>1. NoneEnters({"advancing", "opening"})
    BY <1>0, <1>4, RunsStages DEF NoneEnters
  <2>2. UNCHANGED <<encrypted, reused>>
    BY <1>4 DEF Runs, AlreadyPublished, GeneratePrekeyBundle, PublishPrekeyBundle,
       SaveOwnPrekeyIdentity, FetchPrekeyBundle, RecipientNotSetUp, DeriveSharedSecret,
       CreateConversation, DeliverMessage, RequestFails, SetCachedSessionHandle, LoadHistory, StoreHistory,
       ListMessages, SyncDone, LookUpSession, CompleteSharedSecret, ReceiveFails, ConsumeOneTimePrekey,
       RegisterResponder, RegisterSession, AdvanceReceivingChain
  <2>3. LockInv' /\ \A h \in Handles : ratchet'[h].sent = ratchet[h].sent
    <3>h. \A u \in Tasks : Chaining(u) => task[u].handle \in Handles
      BY <1>0 DEF TypeOK, Chaining, At, Holding
    <3>1. CASE Registers(t)
      <4>1. \A h \in Handles : ratchet'[h] = ratchet[h]
        BY <1>0, <3>1, RegistersSession
      <4> QED BY <1>0, <2>1, <3>h, <4>1, LocksKept DEF ChainInv
    <3>2. CASE AdvanceReceivingChain(t)
      <4>1. LockInv' /\ At(t, "opening") /\ Knows(t)
        BY <1>0, <1>4, <3>2, AdvanceLocks DEF AdvanceReceivingChain
      <4> QED BY <1>0, <3>2, <4>1, AdvanceChains DEF Knows
    <3>3. CASE ~Registers(t) /\ ~AdvanceReceivingChain(t)
      <4>1. UNCHANGED ratchet
        BY <1>4, <3>3 DEF Runs, Registers, AlreadyPublished, GeneratePrekeyBundle, PublishPrekeyBundle,
           SaveOwnPrekeyIdentity, FetchPrekeyBundle, RecipientNotSetUp,
           CreateConversation, DeliverMessage, RequestFails, SetCachedSessionHandle, LoadHistory, StoreHistory,
           ListMessages, SyncDone, LookUpSession, CompleteSharedSecret, ReceiveFails, ConsumeOneTimePrekey
      <4> QED BY <1>0, <2>1, <4>1, LocksKept DEF ChainInv
    <3> QED BY <3>1, <3>2, <3>3
  <2> QED BY <1>0, <2>2, <2>3, ChainFrame
<1>5. ASSUME NEW t \in Tasks, Runs(t) PROVE ChainInv'
  BY <1>0, <1>4, <1>5, ReadChains, AdvanceKeeps
<1> QED BY <1>1, <1>2, <1>3, <1>5, NextCases

--------------------------------------------------------------------------------
(* Theorems.                                                                *)

\* Where no call is under way and nothing is stored but what was published.
LEMMA InvInit == Init => IInv
<1> SUFFICES ASSUME Init PROVE IInv
  OBVIOUS
<1>1. TypeOK
  BY TypeInit
<1>2. /\ \A t \in Tasks : task[t] = None
      /\ Handles = {} /\ DOMAIN handshakes = {} /\ DOMAIN messages = {}
      /\ \A p \in Participants : cached[p] = 0
      /\ encrypted = {} /\ reused = {}
  BY DEF Init, Handles
<1>3. StageInv /\ SessionsInv
  BY <1>2 DEF StageInv, SessionsInv
<1>4. PrekeyInv
  <2>1. \A p \in Participants : /\ oneTimePrekeys[p] = pool[p] /\ pool[p] \subseteq 1..generated[p]
                                /\ published[p] = generated[p] /\ generated[p] \in {0, 1}
                                /\ signedPrekeys[p] = 1..generated[p]
    BY DEF Init
  <2>2. \A p \in Participants : published[p] \in {0} \cup signedPrekeys[p]
    BY <2>1
  <2>3. \A p \in Participants : \A n \in oneTimePrekeys[p] : n <= generated[p]
    BY <2>1
  <2>4. PrekeysKept /\ ClaimInv
    BY <1>2, <2>1, <2>2, <2>3 DEF PrekeysKept, ClaimInv
  <2> QED BY <1>2, <2>4 DEF PrekeyInv, PublishingInv, ConsumingInv, At
<1>5. RegistrationInv
  BY <1>2 DEF RegistrationInv, OneHandle, InitiatingInv, CompletingInv, SpentInv, Initiating, Completing, At
<1>6. ChainInv
  BY <1>2 DEF ChainInv, LockInv, Knows, KeysBehind, NoKeyReuse, Chaining, At
<1> QED BY <1>1, <1>3, <1>4, <1>5, <1>6 DEF IInv

\* The inductive invariant of messaging holds in every reachable state.
THEOREM InductiveInvariant == Spec => []IInv
<1>1. IInv /\ [Next]_vars => IInv'
  BY TypeStep, StagesKept, SessionsKept, PrekeysStep, RegistrationsStep, ChainsStep DEF IInv
<1> QED BY InvInit, <1>1, PTL DEF Spec

\* Every store, message and call has its type, whatever steps interleave.
THEOREM TypeCorrect == Spec => []TypeOK
<1>1. IInv => TypeOK
  BY DEF IInv
<1> QED BY InductiveInvariant, <1>1, PTL

\* What the server offers can be completed: a device keeps the private half of every
\* prekey in its pool, and of every claimed one until the handshake that claimed it
\* has used it, whatever is generated, published, claimed and consumed at once.
THEOREM OfferedCanBeCompleted == Spec => []PrekeysKept
<1>1. IInv => PrekeysKept
  BY DEF IInv, PrekeyInv
<1> QED BY InductiveInvariant, <1>1, PTL

\* For any number of calls under way, sessions and restarts, a session makes each key
\* once: a message key encrypts twice only on a device that registered the session
\* twice, which a one-time prekey of the handshake rules out.
THEOREM KeysUsedOnce == Spec => []NoKeyReuse
<1>1. IInv => NoKeyReuse
  BY DEF IInv, ChainInv
<1> QED BY InductiveInvariant, <1>1, PTL

--------------------------------------------------------------------------------
(* Who can read what: the second layer of the invariant.                    *)

SecretOf(i) == messages[i].key[1]
PositionOf(i) == messages[i].key[3]
Is(t, kind) == task[t] # None /\ task[t].kind = kind

\* What the histories, and what the calls have listed and found, are about.
FoundBy(t) ==
    LET r == task[t]
    IN  /\ r.known \subseteq DOMAIN messages
        /\ r.kind # "sync" /\ r.at \notin Recording => r.found = NoRows
        /\ r.kind = "send" /\ r.at \in Recording =>
              /\ r.id \in DOMAIN messages /\ SenderOf(r.id) = r.dev
              /\ r.found = [NoRows EXCEPT !.plain = {r.id}]
        /\ r.kind = "sync" =>
              /\ r.found.plain \cup r.found.gaps \subseteq r.listed \ r.known
              /\ \A i \in r.found.plain : SenderOf(i) # r.dev
        /\ r.kind = "sync" /\ r.at \in Receiving =>
              /\ r.id \in r.listed \ r.known /\ SenderOf(r.id) # r.dev
              /\ \A i \in r.listed : i < r.id => i \in r.known \cup r.found.plain \cup r.found.gaps

FoundInv ==
    /\ \A p \in Participants : Known(p) \subseteq DOMAIN messages
    /\ \A t \in Tasks : task[t] # None => FoundBy(t)

\* Who is about to replace a history does so alone, and what it loses is recorded.
HistoryInv ==
    /\ \A t, u \in Tasks : At(t, "storing") /\ At(u, "storing") /\ Dev(t) = Dev(u) => t = u
    /\ \A t \in Tasks : At(t, "storing") =>
          LET p == Dev(t)
          IN  \/ task[t].base = rows[p]
              \/ /\ task[t].base = NoRows
                 /\ \A i \in Known(p) : <<p, p, i>> \in spoiled /\ <<p, Peer(p), i>> \in spoiled

\* An own message is in the history, or on its way there.
OwnInv ==
    /\ \A i \in DOMAIN messages :
          LET p == SenderOf(i)
          IN  \/ i \in rows[p].plain \/ <<p, p, i>> \in spoiled
              \/ \E u \in Tasks : Is(u, "send") /\ Dev(u) = p /\ task[u].at \in Recording /\ task[u].id = i
    /\ \A p \in Participants : \A i \in rows[p].gaps : SenderOf(i) = p => <<p, p, i>> \in spoiled
    /\ \A t \in Tasks : Is(t, "sync") =>
          LET p == Dev(t)
          IN  \A i \in task[t].found.gaps : SenderOf(i) = p => i \in rows[p].plain \/ <<p, p, i>> \in spoiled

\* The session in hand is one that a message was sent in.
HandInv ==
    /\ \A p \in Participants : cached[p] # 0 =>
          \E i \in DOMAIN messages : SecretOf(i) = ratchet[cached[p]].secret
    /\ \A t \in Tasks : task[t] # None =>
          LET r == task[t]
          IN  /\ r.at \in {"completing", "consuming", "registering"} =>
                    messages[r.id].payload /\ SecretOf(r.id) = r.secret
              /\ r.at = "remembering" =>
                    /\ SecretOf(r.id) = ratchet[r.handle].secret
                    /\ r.fresh => messages[r.id].payload
                    /\ r.kind = "sync" => r.fresh
              /\ r.at \in {"decrypting", "opening"} =>
                    \E i \in DOMAIN messages : SecretOf(i) = ratchet[r.handle].secret

\* A session is its maker's alone until it is remembered.
Undelivered == {"encrypting", "advancing", "creating", "delivering"}
Private(t) == task[t] # None /\ task[t].fresh /\ task[t].at \in Undelivered \cup {"remembering"}

PrivateInv ==
    \A t \in Tasks : Private(t) =>
       LET r == task[t]
       IN  /\ \A p \in Participants : cached[p] # r.handle
           /\ \A u \in Tasks \ {t} : task[u] # None => task[u].handle # r.handle
           /\ ratchet[r.handle].received = 0
           /\ r.at = "encrypting" => ratchet[r.handle].sent = 0
           /\ r.at \in {"advancing", "creating", "delivering"} => r.position = 0
           /\ r.at \in Undelivered => \A i \in DOMAIN messages : SecretOf(i) # ratchet[r.handle].secret

\* The payload is sent with the first message of the initiator, and with no other.
Initiates(h) == ratchet[h].owner = handshakes[ratchet[h].secret].by

FirstInv ==
    /\ \A i \in DOMAIN messages :
          messages[i].payload <=> SenderOf(i) = handshakes[SecretOf(i)].by /\ PositionOf(i) = 0
    /\ \A p \in Participants : cached[p] # 0 /\ Initiates(cached[p]) => ratchet[cached[p]].sent > 0
    /\ \A t \in Tasks : Is(t, "send") =>
          LET r == task[t]
          IN  /\ r.at \in {"creating", "delivering", "remembering"} => ratchet[r.handle].sent > 0
              /\ r.at \in Undelivered /\ ~r.fresh /\ Initiates(r.handle) =>
                    /\ ratchet[r.handle].sent > 0
                    /\ r.at # "encrypting" => r.position > 0

\* Both ends of a session: the initiator has one handle, and the responder's are
\* registered once it has got the payload; what was opened had been sent.
EndsInv ==
    /\ \A g, h \in Handles : Initiates(g) /\ Initiates(h) /\ ratchet[g].secret = ratchet[h].secret => g = h
    /\ \A h \in Handles : ~Initiates(h) =>
          \E i \in DOMAIN messages : messages[i].payload /\ SecretOf(i) = ratchet[h].secret
    /\ \A h \in Handles : ratchet[h].received > 0 =>
          \E i \in DOMAIN messages :
             messages[i].key = <<ratchet[h].secret, Peer(ratchet[h].owner), ratchet[h].received - 1>>
    /\ \A i \in DOMAIN messages :
          /\ Registered(SenderOf(i), SecretOf(i))
          /\ SenderOf(i) # handshakes[SecretOf(i)].by =>
                \E j \in 1..(i - 1) : messages[j].payload /\ SecretOf(j) = SecretOf(i)
    /\ \A s \in DOMAIN handshakes : handshakes[s].signed \in signedPrekeys[Responder(s)]
    /\ \A t \in Tasks : At(t, "opening") =>
          /\ task[t].position = ratchet[task[t].handle].received
          /\ messages[task[t].id].key = <<ratchet[task[t].handle].secret, Peer(Dev(t)), task[t].position>>

\* p may have missed message i and cannot read what follows.
Lost(p, i) == \A k \in Ids : k >= i => <<p, Peer(p), k>> \in spoiled

\* Two syncs that have a message in hand spoil it and what follows.
OverlapInv ==
    \A t, u \in Tasks : t # u /\ Listed(t) /\ Listed(u) /\ Dev(t) = Dev(u) =>
       \A i \in (task[t].listed \cap task[u].listed) \ (task[t].known \cup task[u].known) :
          SenderOf(i) # Dev(t) => Lost(Dev(t), i)

\* So does a sync that has a message in hand and an earlier one neither seen nor listed.
MissedInv ==
    \A t \in Tasks : Listed(t) =>
       \A j \in task[t].listed \ task[t].known : SenderOf(j) # Dev(t) =>
          \A i \in 1..(j - 1) : SenderOf(i) # Dev(t) /\ i \notin task[t].known \cup task[t].listed => Lost(Dev(t), j)

\* A prekey was consumed to register a session, unless that was interrupted.
ConsumedInv ==
    \A p \in Participants, n \in Bundles, s \in Secrets : <<p, n, s>> \in consumed =>
       \/ Registered(p, s)
       \/ \E u \in Tasks : At(u, "registering") /\ Dev(u) = p /\ task[u].secret = s
       \/ \E i \in DOMAIN messages : messages[i].payload /\ SecretOf(i) = s /\ Lost(p, i)

\* From here on, for the messages that nothing disturbs.
Orderly == ChainsInOrder /\ OneSession
Clean(p, k) == k \in Ids /\ <<p, Peer(p), k>> \notin spoiled

\* A participant has one handle of the session, in its map or about to be there,
\* and none while it still completes the handshake.
ReachOf(p, s) ==
    /\ \A g, h \in Handles : ratchet[g].owner = p /\ ratchet[h].owner = p
                             /\ ratchet[g].secret = s /\ ratchet[h].secret = s => g = h
    /\ \A h \in Handles : ratchet[h].owner = p /\ ratchet[h].secret = s =>
          \/ cached[p] = h
          \/ \E u \in Tasks : At(u, "remembering") /\ task[u].fresh /\ task[u].handle = h
    /\ \A t \in Tasks : task[t] # None /\ task[t].at \in {"completing", "consuming", "registering"}
                        /\ Dev(t) = p /\ task[t].secret = s => ~Registered(p, s)

ReachInv ==
    Orderly => \A p \in Participants, k \in Ids : Clean(p, k) =>
       \A x \in 1..k : x \in DOMAIN messages /\ messages[x].payload => ReachOf(p, SecretOf(x))

\* p's chain is past message i.
Opened(p, i) == \E h \in Handles : /\ ratchet[h].owner = p /\ ratchet[h].secret = SecretOf(i)
                                   /\ PositionOf(i) < ratchet[h].received

\* No message is passed over.
PassedInv ==
    Orderly => \A p \in Participants, k \in Ids : Clean(p, k) =>
       \A i \in 1..k : i \in DOMAIN messages /\ SenderOf(i) # p =>
          /\ i \in Known(p) => Opened(p, i)
          /\ \A t \in Tasks : Is(t, "sync") /\ Dev(t) = p
                              /\ i \in task[t].known \cup task[t].found.plain \cup task[t].found.gaps => Opened(p, i)

\* What was opened is kept, and no gap takes its place.
KeptInv ==
    Orderly => \A p \in Participants, i \in DOMAIN messages : SenderOf(i) # p /\ Clean(p, i) =>
       /\ Opened(p, i) => \/ i \in rows[p].plain
                          \/ \E u \in Tasks : Is(u, "sync") /\ Dev(u) = p /\ i \in task[u].found.plain
       /\ i \notin rows[p].gaps
       /\ \A t \in Tasks : Is(t, "sync") /\ Dev(t) = p /\ i \in task[t].found.gaps => i \in rows[p].plain

ReadInv ==
    /\ FoundInv /\ HistoryInv /\ OwnInv /\ HandInv /\ PrivateInv /\ FirstInv /\ EndsInv
    /\ OverlapInv /\ MissedInv /\ ConsumedInv /\ ReachInv /\ PassedInv /\ KeptInv

--------------------------------------------------------------------------------
(* What a step changes.                                                     *)

Others(t) == \A u \in Tasks \ {t} : task'[u] = task[u]

Stays(t) == /\ task'[t] # None /\ task'[t].dev = task[t].dev /\ task'[t].kind = task[t].kind
            /\ task'[t].known = task[t].known
Grips(t) == task'[t].handle = task[t].handle /\ task'[t].fresh = task[t].fresh /\ task'[t].secret = task[t].secret
Finds(t) == task'[t].listed = task[t].listed /\ task'[t].id = task[t].id /\ task'[t].found = task[t].found
Same(t) == Stays(t) /\ Grips(t) /\ Finds(t) /\ task'[t].position = task[t].position /\ task'[t].base = task[t].base

GapFor(t, i) == /\ Stays(t) /\ Grips(t) /\ task'[t].at = "working"
                /\ task'[t].listed = task[t].listed
                /\ task'[t].found.plain = task[t].found.plain
                /\ task'[t].found.gaps = task[t].found.gaps \cup {i}

Turns(t, a, b) == task[t] # None /\ task[t].at = a /\ task'[t] # None /\ task'[t].at = b

chains == <<handshakes, messages, ratchet>>
notes == <<rows, consumed, spoiled>>
\* Signed prekeys are never given up.
Kept == \A p \in Participants : signedPrekeys[p] \subseteq signedPrekeys'[p]

Starts(t) ==
    /\ task[t] = None /\ Others(t) /\ UNCHANGED <<chains, notes, cached>> /\ Kept
    /\ task'[t] # None /\ task'[t].dev \in Participants /\ ~task'[t].fresh
    /\ task'[t].found = NoRows /\ task'[t].listed = {}
    /\ task'[t].handle \in {0, cached[task'[t].dev]}
    /\ \/ task'[t].kind = "ensure" /\ task'[t].at = "ensuring" /\ task'[t].known = {}
       \/ task'[t].kind = "sync" /\ task'[t].at = "listing" /\ task'[t].known \in {Known(task'[t].dev), {}}
       \/ /\ task'[t].kind = "send" /\ task'[t].known = {}
          /\ \/ task'[t].at = "fetching"
             \/ task'[t].at = "encrypting" /\ task'[t].handle # 0

Quiet(t) ==
    /\ task[t] # None /\ Others(t) /\ UNCHANGED <<chains, notes, cached>> /\ Kept
    /\ \/ task'[t] = None /\ task[t].at \in Ensuring \cup Sending \cup {"listing", "working"} /\ task[t].found = NoRows
       \/ Same(t) /\ task[t].at \in Ensuring /\ task'[t].at \in Ensuring \cup {"deriving"}
       \/ Same(t) /\ task[t].at = "creating" /\ task'[t].at = "delivering"
       \/ Same(t) /\ task[t].at = "working" /\ task'[t].at = "recording"

Fetches(t) ==
    /\ task[t] # None /\ task[t].at = "fetching" /\ Others(t)
    /\ UNCHANGED <<messages, ratchet, notes, cached>> /\ Kept
    /\ DOMAIN handshakes' = DOMAIN handshakes \cup {Len(handshakes) + 1} /\ Len(handshakes) + 1 \notin DOMAIN handshakes
    /\ handshakes'[Len(handshakes) + 1].by = task[t].dev
    /\ handshakes'[Len(handshakes) + 1].signed \in signedPrekeys[Peer(task[t].dev)]
    /\ Stays(t) /\ task'[t].at = "ensuring" /\ Finds(t) /\ task'[t].secret = Len(handshakes) + 1
    /\ task'[t].handle = task[t].handle /\ task'[t].fresh = task[t].fresh

RegistersIn(t, a, b) ==
    /\ Turns(t, a, b) /\ Others(t) /\ UNCHANGED <<handshakes, messages, notes, cached>> /\ Kept
    /\ Stays(t) /\ Finds(t) /\ task'[t].fresh /\ task'[t].handle = Len(ratchet) + 1
    /\ Handles' = Handles \cup {Len(ratchet) + 1} /\ Len(ratchet) + 1 \notin Handles
    /\ \A h \in Handles : ratchet'[h] = ratchet[h]
    /\ ratchet'[Len(ratchet) + 1].owner = task[t].dev /\ ratchet'[Len(ratchet) + 1].secret = task[t].secret
    /\ ratchet'[Len(ratchet) + 1].sent = 0 /\ ratchet'[Len(ratchet) + 1].received = 0

ReadsSending(t) ==
    /\ Turns(t, "encrypting", "advancing") /\ Others(t) /\ UNCHANGED <<chains, notes, cached>> /\ Kept
    /\ Stays(t) /\ Grips(t) /\ Finds(t) /\ task'[t].position = ratchet[task[t].handle].sent

AdvancesSending(t) ==
    /\ task[t] # None /\ task[t].at = "advancing" /\ Others(t)
    /\ UNCHANGED <<handshakes, messages, notes, cached>> /\ Kept
    /\ Same(t) /\ task'[t].at \in {"creating", "delivering"}
    /\ task[t].handle \in Handles /\ Handles' = Handles
    /\ \A g \in Handles : g # task[t].handle => ratchet'[g] = ratchet[g]
    /\ LET h == task[t].handle
       IN  /\ ratchet'[h].owner = ratchet[h].owner /\ ratchet'[h].secret = ratchet[h].secret
           /\ ratchet'[h].received = ratchet[h].received /\ ratchet'[h].sent = task[t].position + 1

Delivers(t) ==
    /\ task[t] # None /\ task[t].at = "delivering" /\ Others(t)
    /\ UNCHANGED <<handshakes, ratchet, rows, consumed, cached>> /\ Kept
    /\ Len(messages) + 1 \in Ids /\ Len(messages') = Len(messages) + 1
    /\ DOMAIN messages' = DOMAIN messages \cup {Len(messages) + 1}
    /\ \A j \in DOMAIN messages : messages'[j] = messages[j]
    /\ messages'[Len(messages) + 1].key[1] = ratchet[task[t].handle].secret
    /\ messages'[Len(messages) + 1].key[2] = task[t].dev
    /\ messages'[Len(messages) + 1].key[3] = task[t].position
    /\ messages'[Len(messages) + 1].payload = task[t].fresh
    /\ \/ /\ Stays(t) /\ Grips(t) /\ task'[t].at = "remembering" /\ task'[t].id = Len(messages) + 1
          /\ task'[t].listed = task[t].listed
          /\ task'[t].found = [NoRows EXCEPT !.plain = {Len(messages) + 1}] /\ UNCHANGED spoiled
       \/ /\ task'[t] = None
          /\ spoiled' = spoiled \cup Only(task[t].dev, task[t].dev, {Len(messages) + 1})
                 \cup (IF task[t].fresh THEN From(task[t].dev, Peer(task[t].dev), Len(messages) + 1) ELSE {})

Remembers(t) ==
    /\ task[t] # None /\ task[t].at = "remembering" /\ Others(t) /\ UNCHANGED <<chains, notes>> /\ Kept
    /\ Same(t) /\ task'[t].at = IF task[t].kind = "send" THEN "recording" ELSE "decrypting"
    /\ cached'[task[t].dev] = task[t].handle
    /\ \A p \in Participants : p # task[t].dev => cached'[p] = cached[p]

LoadsHistory(t) ==
    /\ Turns(t, "recording", "storing") /\ Others(t) /\ HistoryFree(task[t].dev)
    /\ UNCHANGED <<chains, rows, consumed, cached>> /\ Kept
    /\ Stays(t) /\ Grips(t) /\ Finds(t)
    /\ \/ task'[t].base = rows[task[t].dev] /\ UNCHANGED spoiled
       \/ /\ task'[t].base = NoRows
          /\ LET p == task[t].dev IN spoiled' = spoiled \cup Only(p, p, Known(p)) \cup Only(p, Peer(p), Known(p))

StoresHistory(t) ==
    /\ task[t] # None /\ task[t].at = "storing" /\ task'[t] = None /\ Others(t)
    /\ UNCHANGED <<chains, consumed, spoiled, cached>> /\ Kept
    /\ rows'[task[t].dev] = Merged(task[t].base, task[t].found)
    /\ \A p \in Participants : p # task[t].dev => rows'[p] = rows[p]

Lists(t) ==
    /\ Turns(t, "listing", "working") /\ Others(t) /\ UNCHANGED <<chains, rows, consumed, cached>> /\ Kept
    /\ Stays(t) /\ Grips(t) /\ task'[t].listed \subseteq DOMAIN messages
    /\ task'[t].found.plain = task[t].found.plain
    /\ LET new == task'[t].listed \ task[t].known
       IN  /\ task'[t].found.gaps = {i \in new : SenderOf(i) = task[t].dev}
           /\ spoiled' = spoiled \cup Overlaps(t, new) \cup Skips(t, new)

LooksUp(t) ==
    /\ task[t] # None /\ task[t].at = "working" /\ Others(t) /\ UNCHANGED <<chains, rows, consumed, cached>> /\ Kept
    /\ \E i \in Pending(t), h \in {0, cached[task[t].dev]} :
          /\ \A j \in Pending(t) : i <= j
          /\ \/ /\ h # 0 /\ Stays(t) /\ task'[t].at = "decrypting" /\ task'[t].handle = h
                /\ task'[t].id = i /\ task'[t].listed = task[t].listed /\ task'[t].found = task[t].found
             \/ /\ h = 0 /\ messages[i].payload
                /\ Stays(t) /\ task'[t].at = "completing" /\ task'[t].handle = task[t].handle
                /\ task'[t].secret = SecretOf(i)
                /\ task'[t].id = i /\ task'[t].listed = task[t].listed /\ task'[t].found = task[t].found
             \/ h = 0 /\ ~messages[i].payload /\ GapFor(t, i)
          /\ spoiled' = spoiled \cup (IF h # cached[task[t].dev] \/ (h = 0 /\ Unanswerable(task[t].dev))
                                      THEN From(task[t].dev, SenderOf(i), i) ELSE {})

Completes(t) ==
    /\ task[t] # None /\ task[t].at = "completing" /\ Others(t) /\ UNCHANGED <<chains, notes, cached>> /\ Kept
    /\ LET s == handshakes[task[t].secret]
       IN  \/ /\ s.signed \notin signedPrekeys[task[t].dev] \/ s.oneTime \notin {0} \cup oneTimePrekeys[task[t].dev]
              /\ GapFor(t, task[t].id)
           \/ Same(t) /\ task'[t].at \in {"registering", "consuming"}

Fails(t) ==
    /\ task[t] # None /\ task[t].at \in {"completing", "remembering", "decrypting"} /\ task[t].kind = "sync"
    /\ Others(t) /\ UNCHANGED <<chains, rows, consumed, cached>> /\ Kept
    /\ GapFor(t, task[t].id)
    /\ spoiled' = spoiled \cup From(task[t].dev, Peer(task[t].dev), task[t].id)

Consumes(t) ==
    /\ Turns(t, "consuming", "registering") /\ Others(t) /\ UNCHANGED <<chains, rows, spoiled, cached>> /\ Kept
    /\ Same(t)
    /\ consumed' = consumed \cup {<<task[t].dev, handshakes[task[t].secret].oneTime, task[t].secret>>}

ReadsReceiving(t) ==
    /\ task[t] # None /\ task[t].at = "decrypting" /\ Others(t) /\ UNCHANGED <<chains, notes, cached>> /\ Kept
    /\ LET r == ratchet[task[t].handle]
           fits == messages[task[t].id].key = <<r.secret, Peer(task[t].dev), r.received>>
       IN  \/ ~fits /\ GapFor(t, task[t].id)
           \/ /\ fits /\ Stays(t) /\ Grips(t) /\ Finds(t) /\ task'[t].at = "opening" /\ task'[t].position = r.received
              /\ RatchetFree(task[t].handle)

AdvancesReceiving(t) ==
    /\ task[t] # None /\ task[t].at = "opening" /\ Others(t)
    /\ UNCHANGED <<handshakes, messages, notes, cached>> /\ Kept
    /\ Stays(t) /\ Grips(t) /\ task'[t].at = "working" /\ task'[t].listed = task[t].listed
    /\ task'[t].found.plain = task[t].found.plain \cup {task[t].id}
    /\ task'[t].found.gaps = task[t].found.gaps
    /\ task[t].handle \in Handles /\ Handles' = Handles
    /\ \A g \in Handles : g # task[t].handle => ratchet'[g] = ratchet[g]
    /\ LET h == task[t].handle
       IN  /\ ratchet'[h].owner = ratchet[h].owner /\ ratchet'[h].secret = ratchet[h].secret
           /\ ratchet'[h].sent = ratchet[h].sent /\ ratchet'[h].received = task[t].position + 1

Proceeds(t) ==
    \/ Quiet(t) \/ Fetches(t) \/ RegistersIn(t, "deriving", "encrypting") \/ RegistersIn(t, "registering", "remembering")
    \/ ReadsSending(t) \/ AdvancesSending(t) \/ Delivers(t) \/ Remembers(t) \/ LoadsHistory(t) \/ StoresHistory(t)
    \/ Lists(t) \/ LooksUp(t) \/ Completes(t) \/ Fails(t) \/ Consumes(t) \/ ReadsReceiving(t) \/ AdvancesReceiving(t)

--------------------------------------------------------------------------------
(* What the steps change is what these say.                                 *)

\* A call that goes on with these fields is one, and no other call moves.
LEMMA GoesOn ==
    ASSUME TypeOK, NEW t \in Tasks, NEW r \in Task, Goes(t, r)
    PROVE  task'[t] = r /\ task'[t] # None /\ Others(t)
BY GoesFrame, TaskAssumption DEF Others

\* A call that ends.
LEMMA EndsIs ==
    ASSUME TypeOK, NEW t \in Tasks, Ends(t)
    PROVE  task'[t] = None /\ Others(t)
BY GoesFrame DEF Others, Ends

\* A call that goes to another stage with what it had.
LEMMA MovesIs ==
    ASSUME TypeOK, NEW t \in Tasks, task[t] # None,
           NEW stage \in Ensuring \cup Sending \cup Syncing \cup Recording, Moves(t, stage)
    PROVE  Same(t) /\ Others(t) /\ task'[t].at = stage
<1>1. task[t] \in Task
  BY TaskFields
<1>2. [task[t] EXCEPT !.at = stage] \in Task
  BY <1>1 DEF Task
<1>3. task'[t] = [task[t] EXCEPT !.at = stage] /\ task'[t] # None /\ Others(t)
  BY <1>2, GoesOn DEF Moves
<1> QED BY <1>1, <1>3 DEF Task, Same, Stays, Grips, Finds

\* A call that makes a gap.
LEMMA GapIs ==
    ASSUME TypeOK, NEW t \in Tasks, task[t] # None, NEW i \in Ids, Gap(t, i)
    PROVE  GapFor(t, i) /\ Others(t)
<1> DEFINE r == [task[t] EXCEPT !.at = "working", !.found.gaps = @ \cup {i}]
<1>1. task[t] \in Task /\ task[t].found \in Rows
  BY TaskFields
<1>2. /\ r \in Task /\ r.at = "working" /\ r.dev = task[t].dev /\ r.kind = task[t].kind /\ r.known = task[t].known
      /\ r.handle = task[t].handle /\ r.fresh = task[t].fresh /\ r.secret = task[t].secret
      /\ r.listed = task[t].listed /\ r.found.plain = task[t].found.plain
      /\ r.found.gaps = task[t].found.gaps \cup {i}
  <2> DEFINE f == [task[t].found EXCEPT !.gaps = @ \cup {i}]
  <2>1. f \in Rows /\ f.plain = task[t].found.plain /\ f.gaps = task[t].found.gaps \cup {i}
    BY <1>1 DEF Rows
  <2>2. r = [task[t] EXCEPT !.at = "working", !.found = f]
    BY <1>1 DEF Task
  <2> HIDE DEF f, r
  <2>3. "working" \in Ensuring \cup Sending \cup Syncing \cup Recording
    BY DEF Syncing
  <2> QED BY <1>1, <2>1, <2>2, <2>3 DEF Task
<1>3. Goes(t, r)
  BY DEF Gap
<1> HIDE DEF r
<1> QED BY <1>2, <1>3, GoesOn DEF GapFor, Stays, Grips

\* A call that begins.
LEMMA StartsIs ==
    ASSUME TypeOK, NEW t \in Tasks, NEW p \in Participants,
           StartEnsure(t, p) \/ StartSync(t, p) \/ \E conv \in BOOLEAN : StartSend(t, p, conv)
    PROVE  Starts(t)
<1>1. PICK kind \in {"ensure", "send", "sync"}, stage \in {"ensuring", "listing", "fetching", "encrypting"},
           conv \in BOOLEAN, h \in {0, cached[p]}, known \in {Known(p), {}} :
         /\ Begins(t, p, kind, stage, conv, h, known)
         /\ kind = "ensure" => stage = "ensuring" /\ known = {}
         /\ kind = "sync" => stage = "listing"
         /\ kind = "send" => (stage = "fetching" \/ (stage = "encrypting" /\ h # 0)) /\ known = {}
  <2>1. CASE StartEnsure(t, p)
    BY <2>1 DEF StartEnsure
  <2>2. CASE StartSync(t, p)
    <3>1. Begins(t, p, "sync", "listing", TRUE, 0, Known(p)) \/ Begins(t, p, "sync", "listing", TRUE, 0, {})
      BY <2>2 DEF StartSync
    <3> QED BY <3>1
  <2>3. CASE \E conv \in BOOLEAN : StartSend(t, p, conv)
    BY <2>3 DEF StartSend
  <2> QED BY <2>1, <2>2, <2>3
<1>2. UNCHANGED <<device, server, history>>
  BY DEF StartEnsure, StartSync, StartSend
<1>3. UNCHANGED <<chains, notes, cached>> /\ Kept
  BY <1>2 DEF device, server, history, chains, notes, Kept
<1> DEFINE r == [dev |-> p, kind |-> kind, at |-> stage, conv |-> conv, handle |-> h,
                 bundle |-> 0, secret |-> 0, fresh |-> FALSE, position |-> 0, opposite |-> 0,
                 base |-> NoRows, id |-> 0, known |-> known, listed |-> {}, found |-> NoRows]
<1>4. Goes(t, r) /\ task[t] = None
  BY <1>1 DEF Begins
<1>5. r \in Task
  <2>1. NoRows \in Rows
    BY DEF NoRows, Rows
  <2>2. Known(p) \subseteq Ids
    BY DEF TypeOK, Known, Rows
  <2>3. h \in Nat
    BY LenProperties DEF TypeOK, Handles
  <2> QED BY <1>1, <2>1, <2>2, <2>3, MessagingAssumption DEF Task, Ensuring, Sending, Syncing
<1>6. /\ r.dev = p /\ r.kind = kind /\ r.at = stage /\ r.handle = h /\ r.fresh = FALSE
      /\ r.known = known /\ r.listed = {} /\ r.found = NoRows
  OBVIOUS
<1> HIDE DEF r
<1>7. task'[t] = r /\ task'[t] # None /\ Others(t)
  BY <1>4, <1>5, GoesOn
<1> QED BY <1>1, <1>3, <1>4, <1>6, <1>7 DEF Starts

\* What a call under way has found before it records it.
LEMMA NothingFound ==
    ASSUME TypeOK, StageInv, FoundInv, NEW t \in Tasks, task[t] # None,
           task[t].at \in Ensuring \cup Sending \cup {"listing"}
    PROVE  task[t].found = NoRows
<1>1. task[t] \in Task /\ Staged(t) /\ FoundBy(t)
  BY TaskFields DEF StageInv, FoundInv
<1> QED BY <1>1 DEF Staged, FoundBy, Task, Ensuring, Sending, Syncing, Recording

\* The steps that only move their call, or end it with nothing found.
LEMMA QuietIs ==
    ASSUME TypeOK, StageInv, FoundInv, NEW t \in Tasks,
           \/ AlreadyPublished(t) \/ GeneratePrekeyBundle(t) \/ PublishPrekeyBundle(t) \/ SaveOwnPrekeyIdentity(t)
           \/ RecipientNotSetUp(t) \/ CreateConversation(t) \/ RequestFails(t) \/ SyncDone(t)
    PROVE  Quiet(t)
<1> USE DEF Ensuring, Sending, Syncing, Recording, device, server, history, chains, notes
<1>1. task[t] # None /\ task[t] \in Task /\ Staged(t)
  BY TaskFields DEF StageInv, AlreadyPublished, GeneratePrekeyBundle, PublishPrekeyBundle, SaveOwnPrekeyIdentity,
     RecipientNotSetUp, CreateConversation, RequestFails, SyncDone, At
<1>2. UNCHANGED <<chains, notes, cached>>
  BY DEF AlreadyPublished, GeneratePrekeyBundle, PublishPrekeyBundle, SaveOwnPrekeyIdentity,
     RecipientNotSetUp, CreateConversation, RequestFails, SyncDone
<1>3. Kept
  <2>1. CASE GeneratePrekeyBundle(t)
    BY <2>1 DEF GeneratePrekeyBundle, TypeOK, Kept
  <2>2. CASE ~GeneratePrekeyBundle(t)
    BY <2>2 DEF AlreadyPublished, PublishPrekeyBundle, SaveOwnPrekeyIdentity,
     RecipientNotSetUp, CreateConversation, RequestFails, SyncDone, Kept
  <2> QED BY <2>1, <2>2
<1>4. CASE RecipientNotSetUp(t) \/ RequestFails(t)
  <2>1. Ends(t) /\ task[t].at \in Ensuring \cup Sending \cup {"listing"}
    BY <1>4 DEF RecipientNotSetUp, RequestFails, At
  <2> QED BY <1>1, <1>2, <1>3, <2>1, EndsIs, NothingFound DEF Quiet
<1>5. CASE AlreadyPublished(t) \/ SaveOwnPrekeyIdentity(t)
  <2>1. (Ends(t) \/ Moves(t, "deriving")) /\ task[t].at \in Ensuring
    BY <1>5 DEF AlreadyPublished, SaveOwnPrekeyIdentity, At, Ensured
  <2>2. Ends(t) => task'[t] = None /\ Others(t) /\ task[t].found = NoRows
    BY <1>1, <2>1, EndsIs, NothingFound
  <2>3. Moves(t, "deriving") => Same(t) /\ Others(t) /\ task'[t].at = "deriving"
    BY <1>1, MovesIs
  <2> QED BY <1>1, <1>2, <1>3, <2>1, <2>2, <2>3 DEF Quiet
<1>6. CASE PublishPrekeyBundle(t)
  <2>1. (Ends(t) \/ Moves(t, "saving")) /\ task[t].at \in Ensuring
    BY <1>6 DEF PublishPrekeyBundle, At
  <2>2. Ends(t) => task'[t] = None /\ Others(t) /\ task[t].found = NoRows
    BY <1>1, <2>1, EndsIs, NothingFound
  <2>3. Moves(t, "saving") => Same(t) /\ Others(t) /\ task'[t].at = "saving"
    BY <1>1, MovesIs
  <2> QED BY <1>1, <1>2, <1>3, <2>1, <2>2, <2>3 DEF Quiet
<1>7. CASE CreateConversation(t)
  <2>1. (Ends(t) \/ Moves(t, "delivering")) /\ task[t].at = "creating"
    BY <1>7 DEF CreateConversation, At
  <2>2. Ends(t) => task'[t] = None /\ Others(t) /\ task[t].found = NoRows
    BY <1>1, <2>1, EndsIs, NothingFound
  <2>3. Moves(t, "delivering") => Same(t) /\ Others(t) /\ task'[t].at = "delivering"
    BY <1>1, MovesIs
  <2> QED BY <1>1, <1>2, <1>3, <2>1, <2>2, <2>3 DEF Quiet
<1>8. CASE SyncDone(t)
  <2>1. /\ (Ends(t) /\ task[t].found = NoRows) \/ Moves(t, "recording")
        /\ task[t].at = "working"
    BY <1>8 DEF SyncDone, At
  <2>2. Ends(t) => task'[t] = None /\ Others(t)
    BY EndsIs
  <2>3. Moves(t, "recording") => Same(t) /\ Others(t) /\ task'[t].at = "recording"
    BY <1>1, MovesIs
  <2> QED BY <1>1, <1>2, <1>3, <2>1, <2>2, <2>3 DEF Quiet
<1>9. CASE GeneratePrekeyBundle(t)
  <2> DEFINE n == generated[Dev(t)] + 1
             r == [task[t] EXCEPT !.at = "publishing", !.bundle = n]
  <2>1. Goes(t, r) /\ n + generated[Peer(Dev(t))] \in Bundles /\ task[t].at \in Ensuring
    BY <1>9 DEF GeneratePrekeyBundle, At
  <2>2. n \in 0..MaxBundles
    <3>1. Dev(t) \in Participants /\ Peer(Dev(t)) \in Participants
      BY <1>1, TaskFields, PeerProperties DEF Dev
    <3>2. generated[Dev(t)] \in Nat /\ generated[Peer(Dev(t))] \in Nat
      BY <3>1, PrekeyFacts
    <3> QED BY <2>1, <3>2, MessagingAssumption DEF Bundles
  <2>3. r \in Task
    BY <1>1, <2>2 DEF Task
  <2>4. task'[t] = r /\ task'[t] # None /\ Others(t)
    BY <2>1, <2>3, GoesOn
  <2>5. Same(t) /\ task'[t].at = "publishing"
    BY <1>1, <2>4 DEF Same, Stays, Grips, Finds, Task
  <2> QED BY <1>1, <1>2, <1>3, <2>1, <2>4, <2>5 DEF Quiet
<1> QED BY <1>4, <1>5, <1>6, <1>7, <1>8, <1>9

\* Fetching a bundle makes a handshake of the call's own, or ends it.
LEMMA FetchesIs ==
    ASSUME TypeOK, StageInv, PrekeyInv, FoundInv, NEW t \in Tasks, FetchPrekeyBundle(t)
    PROVE  Quiet(t) \/ Fetches(t)
<1> USE DEF device, history, chains, notes
<1>1. /\ task[t] # None /\ task[t] \in Task /\ Staged(t) /\ task[t].at = "fetching"
      /\ UNCHANGED <<messages, ratchet, notes, cached, signedPrekeys>>
  BY TaskFields DEF StageInv, FetchPrekeyBundle, At
<1>2. PICK n \in {0} \cup Bundles :
        \/ /\ handshakes' = Append(handshakes, [by |-> Dev(t), signed |-> published[Peer(Dev(t))], oneTime |-> n])
           /\ Goes(t, [task[t] EXCEPT !.at = "ensuring", !.secret = Len(handshakes) + 1])
           /\ Len(handshakes) < MaxHandshakes
        \/ Ends(t) /\ UNCHANGED handshakes
  BY DEF FetchPrekeyBundle
<1>3. CASE Ends(t) /\ UNCHANGED handshakes
  <2>1. task'[t] = None /\ Others(t) /\ task[t].found = NoRows
    BY <1>1, <1>3, EndsIs, NothingFound DEF Sending
  <2> QED BY <1>1, <1>3, <2>1 DEF Quiet, Kept, Sending
<1>4. CASE ~(Ends(t) /\ UNCHANGED handshakes)
  <2> DEFINE s == [by |-> Dev(t), signed |-> published[Peer(Dev(t))], oneTime |-> n]
             r == [task[t] EXCEPT !.at = "ensuring", !.secret = Len(handshakes) + 1]
  <2>1. /\ Dev(t) = task[t].dev /\ Dev(t) \in Participants /\ Peer(Dev(t)) \in Participants
        /\ published[Peer(Dev(t))] # 0
    BY <1>1, TaskFields, PeerProperties DEF Dev, FetchPrekeyBundle
  <2>2. published[Peer(Dev(t))] \in signedPrekeys[Peer(Dev(t))] /\ published[Peer(Dev(t))] \in Bundles
    BY <2>1 DEF PrekeyInv, PrekeysKept, TypeOK
  <2>3. s \in Handshake
    BY <2>1, <2>2 DEF Handshake
  <2>4. Len(handshakes) \in Nat /\ Len(handshakes) + 1 \in 0..MaxHandshakes
    BY <1>2, <1>4, LenProperties, MessagingAssumption DEF TypeOK
  <2>5. r \in Task
    BY <1>1, <2>4 DEF Task, Ensuring
  <2>6. task'[t] = r /\ task'[t] # None /\ Others(t)
    BY <1>2, <1>4, <2>5, GoesOn
  <2>7. /\ Stays(t) /\ Finds(t) /\ task'[t].at = "ensuring" /\ task'[t].secret = Len(handshakes) + 1
        /\ task'[t].handle = task[t].handle /\ task'[t].fresh = task[t].fresh
    BY <1>1, <2>6 DEF Stays, Finds, Task
  <2>8. /\ DOMAIN handshakes' = DOMAIN handshakes \cup {Len(handshakes) + 1}
        /\ Len(handshakes) + 1 \notin DOMAIN handshakes
        /\ handshakes'[Len(handshakes) + 1] = s
    BY <1>1, <1>2, <1>4, <2>3, FetchGrows
  <2>9. handshakes'[Len(handshakes) + 1].by = task[t].dev
        /\ handshakes'[Len(handshakes) + 1].signed \in signedPrekeys[Peer(task[t].dev)]
    BY <2>1, <2>2, <2>8
  <2> QED BY <1>1, <2>6, <2>7, <2>8, <2>9 DEF Fetches, Kept
<1> QED BY <1>3, <1>4

\* Registering a session makes a handle nobody had.
LEMMA RegistersIs ==
    ASSUME TypeOK, StageInv, NEW t \in Tasks, Registers(t)
    PROVE  /\ DeriveSharedSecret(t) => RegistersIn(t, "deriving", "encrypting")
           /\ RegisterResponder(t) => RegistersIn(t, "registering", "remembering")
<1> USE DEF chains, notes
<1>1. /\ task[t] # None /\ task[t] \in Task
      /\ Handles' = Handles \cup {Len(ratchet) + 1} /\ Len(ratchet) + 1 \notin Handles
      /\ \A h \in Handles : ratchet'[h] = ratchet[h]
      /\ ratchet'[Len(ratchet) + 1] =
                 [owner |-> Dev(t), secret |-> task[t].secret, sent |-> 0, received |-> 0]
      /\ UNCHANGED <<cached, signedPrekeys, server, history>>
  BY RegistersSession
<1>2. UNCHANGED <<handshakes, messages, notes, cached>> /\ Kept
  BY <1>1 DEF server, history, Kept, Registers, DeriveSharedSecret, RegisterResponder, RegisterSession
<1>3. Len(ratchet) \in Nat
  BY LenProperties DEF TypeOK
<1>4. ASSUME NEW stage \in {"encrypting", "remembering"}, RegisterSession(t, stage)
      PROVE  /\ Stays(t) /\ Finds(t) /\ task'[t].fresh /\ task'[t].handle = Len(ratchet) + 1 /\ task'[t].at = stage
             /\ Others(t)
  <2> DEFINE r == [task[t] EXCEPT !.at = stage, !.handle = Len(ratchet) + 1, !.fresh = TRUE]
  <2>0. stage \in Ensuring \cup Sending \cup Syncing \cup Recording /\ Len(ratchet) + 1 \in Nat
    BY <1>3 DEF Sending, Recording
  <2>1. r \in Task
    BY <1>1, <2>0 DEF Task
  <2>2. task'[t] = r /\ task'[t] # None /\ Others(t)
    BY <1>4, <2>1, GoesOn DEF RegisterSession
  <2> QED BY <1>1, <2>2 DEF Stays, Finds, Task
<1>5. /\ ratchet'[Len(ratchet) + 1].owner = task[t].dev /\ ratchet'[Len(ratchet) + 1].secret = task[t].secret
      /\ ratchet'[Len(ratchet) + 1].sent = 0 /\ ratchet'[Len(ratchet) + 1].received = 0
  BY <1>1 DEF Dev
<1>6. ASSUME DeriveSharedSecret(t) PROVE RegistersIn(t, "deriving", "encrypting")
  BY <1>1, <1>2, <1>4, <1>5, <1>6 DEF DeriveSharedSecret, RegistersIn, Turns, At, Stays
<1>7. ASSUME RegisterResponder(t) PROVE RegistersIn(t, "registering", "remembering")
  BY <1>1, <1>2, <1>4, <1>5, <1>7 DEF RegisterResponder, RegistersIn, Turns, At, Stays
<1> QED BY <1>6, <1>7

\* encryptMessage reads the chain.
LEMMA ReadsSendingIs ==
    ASSUME TypeOK, NEW t \in Tasks, ReadSendingChain(t)
    PROVE  ReadsSending(t)
<1> USE DEF device, server, history, chains, notes
<1> DEFINE s == ratchet[task[t].handle]
           r == [task[t] EXCEPT !.at = "advancing", !.position = s.sent, !.opposite = s.received]
<1>1. task[t] # None /\ task[t].at = "encrypting" /\ task[t] \in Task /\ Goes(t, r)
  BY TaskFields DEF ReadSendingChain, At
<1>2. s.sent \in Nat /\ s.received \in Nat
  BY <1>1, MessageKeyType DEF Holding, Session
<1>3. r \in Task
  BY <1>1, <1>2 DEF Task, Sending
<1>4. task'[t] = r /\ task'[t] # None /\ Others(t)
  BY <1>1, <1>3, GoesOn
<1>5. /\ Stays(t) /\ Grips(t) /\ Finds(t) /\ task'[t].at = "advancing"
      /\ task'[t].position = ratchet[task[t].handle].sent
  BY <1>1, <1>4 DEF Stays, Grips, Finds, Task
<1> QED BY <1>1, <1>4, <1>5 DEF ReadsSending, Turns, ReadSendingChain, Kept

\* encryptMessage advances it.
LEMMA AdvancesSendingIs ==
    ASSUME TypeOK, ChainInv, NEW t \in Tasks, Runs(t), AdvanceSendingChain(t)
    PROVE  AdvancesSending(t)
<1> USE DEF chains, notes
<1> DEFINE h == task[t].handle
<1>1. /\ task[t] # None /\ task[t].at = "advancing" /\ task[t] \in Task
      /\ h \in Handles /\ ratchet[h] \in Session /\ Handles' = Handles
      /\ \A g \in Handles : g # h => ratchet'[g] = ratchet[g]
      /\ ratchet'[h].owner = ratchet[h].owner /\ ratchet'[h].secret = ratchet[h].secret
      /\ ratchet'[h].sent = task[t].position + 1
  BY AdvanceChains DEF AdvanceSendingChain, At
<1>2. ratchet'[h].received = ratchet[h].received
  <2>1. ratchet'[h].received = task[t].opposite /\ Knows(t)
    BY AdvanceChains, AdvanceLocks
  <2> QED BY <1>1, <2>1 DEF Knows, At
<1>3. \E stage \in {"creating", "delivering"} : Moves(t, stage)
  BY DEF AdvanceSendingChain
<1>4. Same(t) /\ Others(t) /\ task'[t].at \in {"creating", "delivering"}
  BY <1>1, <1>3, MovesIs DEF Sending
<1>5. UNCHANGED <<handshakes, messages, notes, cached>> /\ Kept
  BY DEF AdvanceSendingChain, server, Kept
<1> HIDE DEF h
<1> QED BY <1>1, <1>2, <1>4, <1>5 DEF AdvancesSending, h

\* A delivery appends the message, whether or not its answer comes.
LEMMA DeliversIs ==
    ASSUME TypeOK, NEW t \in Tasks, DeliverMessage(t)
    PROVE  Delivers(t)
<1> USE DEF device, history, chains, notes
<1> DEFINE i == Len(messages) + 1
           m == [key |-> MessageKey(t), payload |-> task[t].fresh]
           r == [task[t] EXCEPT !.at = "remembering", !.id = i, !.found = [NoRows EXCEPT !.plain = {i}]]
           p == task[t].dev
<1>1. /\ task[t] # None /\ task[t].at = "delivering" /\ task[t] \in Task /\ i \in Ids
      /\ UNCHANGED <<handshakes, ratchet, rows, consumed, cached, signedPrekeys>>
      /\ messages' = Append(messages, m)
      /\ \/ Goes(t, r) /\ UNCHANGED spoiled
         \/ /\ Ends(t)
            /\ spoiled' = spoiled \cup Only(p, p, {i}) \cup (IF task[t].fresh THEN From(p, Peer(p), i) ELSE {})
  BY TaskFields DEF DeliverMessage, At, Dev
<1>2. /\ MessageKey(t) \in Key
      /\ MessageKey(t) = <<ratchet[task[t].handle].secret, task[t].dev, task[t].position>>
  BY <1>1, MessageKeyType DEF Holding
<1>3. m \in Message
  BY <1>1, <1>2 DEF Message, Task
<1>4. /\ Grows /\ DOMAIN messages' = DOMAIN messages \cup {i} /\ messages'[i] = m
  BY <1>1, <1>3, DeliverGrows
<1>5. Len(messages') = i
  BY <1>1, <1>3, AppendProperties DEF TypeOK
<1>6. /\ messages'[i].key[1] = ratchet[task[t].handle].secret /\ messages'[i].key[2] = p
      /\ messages'[i].key[3] = task[t].position /\ messages'[i].payload = task[t].fresh
  <2>1. messages'[i].key = MessageKey(t) /\ messages'[i].payload = task[t].fresh
    BY <1>4
  <2> QED BY <1>2, <2>1
<1>7. r \in Task
  <2>1. [NoRows EXCEPT !.plain = {i}] \in Rows
    BY <1>1 DEF NoRows, Rows
  <2>2. i \in 0..MaxMessages
    BY <1>1, MessagingAssumption DEF Ids
  <2> QED BY <1>1, <2>1, <2>2 DEF Task, Recording
<1>8. Goes(t, r) => /\ Stays(t) /\ Grips(t) /\ task'[t].at = "remembering" /\ task'[t].id = i
                    /\ task'[t].listed = task[t].listed
                    /\ task'[t].found = [NoRows EXCEPT !.plain = {i}] /\ Others(t)
  <2> SUFFICES ASSUME Goes(t, r)
               PROVE  /\ Stays(t) /\ Grips(t) /\ task'[t].at = "remembering" /\ task'[t].id = i
                      /\ task'[t].listed = task[t].listed
                      /\ task'[t].found = [NoRows EXCEPT !.plain = {i}] /\ Others(t)
    OBVIOUS
  <2>1. task'[t] = r /\ task'[t] # None /\ Others(t)
    BY <1>7, GoesOn
  <2> QED BY <1>1, <2>1 DEF Stays, Grips, Task
<1>9. Ends(t) => task'[t] = None /\ Others(t)
  BY EndsIs
<1>10. \A j \in DOMAIN messages : messages'[j] = messages[j]
  BY <1>4 DEF Grows
<1> HIDE DEF m, r
<1> QED BY <1>1, <1>4, <1>5, <1>6, <1>8, <1>9, <1>10 DEF Delivers, Kept

\* The session map is written.
LEMMA RemembersIs ==
    ASSUME TypeOK, NEW t \in Tasks, SetCachedSessionHandle(t)
    PROVE  Remembers(t)
<1> USE DEF device, server, history, chains, notes
<1>1. task[t] # None /\ task[t].at = "remembering" /\ task[t].dev \in Participants
  BY TaskFields DEF SetCachedSessionHandle, At
<1>2. Same(t) /\ Others(t) /\ task'[t].at = IF task[t].kind = "send" THEN "recording" ELSE "decrypting"
  BY <1>1, MovesIs DEF SetCachedSessionHandle, Recording, Syncing
<1>3. /\ cached'[task[t].dev] = task[t].handle
      /\ \A p \in Participants : p # task[t].dev => cached'[p] = cached[p]
  BY <1>1 DEF SetCachedSessionHandle, TypeOK, Dev
<1> QED BY <1>1, <1>2, <1>3 DEF Remembers, SetCachedSessionHandle, Kept

\* The two steps of appendRows.
LEMMA HistoryIs ==
    ASSUME TypeOK, NEW t \in Tasks
    PROVE  (LoadHistory(t) => LoadsHistory(t)) /\ (StoreHistory(t) => StoresHistory(t))
<1> USE DEF device, server, history, chains, notes
<1>1. ASSUME LoadHistory(t) PROVE LoadsHistory(t)
  <2> DEFINE p == task[t].dev
  <2>1. task[t] # None /\ task[t].at = "recording" /\ task[t] \in Task /\ p \in Participants
    BY <1>1, TaskFields DEF LoadHistory, At
  <2>2. PICK b \in {rows[p], NoRows} :
          /\ Goes(t, [task[t] EXCEPT !.at = "storing", !.base = b])
          /\ \/ b = rows[p] /\ UNCHANGED spoiled
             \/ b = NoRows /\ spoiled' = spoiled \cup Only(p, p, Known(p)) \cup Only(p, Peer(p), Known(p))
    <3>1. Forgets(p) = Only(p, p, Known(p)) \cup Only(p, Peer(p), Known(p))
      BY DEF Forgets
    <3> QED BY <1>1, <3>1 DEF LoadHistory, Dev
  <2>3. b \in Rows
    BY <2>1 DEF TypeOK, NoRows, Rows
  <2>4. [task[t] EXCEPT !.at = "storing", !.base = b] \in Task
    BY <2>1, <2>3 DEF Task, Recording
  <2>5. task'[t] = [task[t] EXCEPT !.at = "storing", !.base = b] /\ task'[t] # None /\ Others(t)
    BY <2>2, <2>4, GoesOn
  <2>6. Stays(t) /\ Grips(t) /\ Finds(t) /\ task'[t].at = "storing" /\ task'[t].base = b
    BY <2>1, <2>5 DEF Stays, Grips, Finds, Task
  <2> QED BY <1>1, <2>1, <2>2, <2>5, <2>6 DEF LoadsHistory, LoadHistory, Turns, Kept, Dev
<1>2. ASSUME StoreHistory(t) PROVE StoresHistory(t)
  <2>1. task[t] # None /\ task[t].at = "storing" /\ task[t].dev \in Participants
    BY <1>2, TaskFields DEF StoreHistory, At
  <2>2. task'[t] = None /\ Others(t)
    BY <1>2, EndsIs DEF StoreHistory
  <2>3. /\ rows'[task[t].dev] = Merged(task[t].base, task[t].found)
        /\ \A p \in Participants : p # task[t].dev => rows'[p] = rows[p]
    BY <1>2, <2>1 DEF StoreHistory, TypeOK, Dev
  <2> QED BY <1>2, <2>1, <2>2, <2>3 DEF StoresHistory, StoreHistory, Kept
<1> QED BY <1>1, <1>2

\* A sync lists the messages.
LEMMA ListsIs ==
    ASSUME TypeOK, NEW t \in Tasks, ListMessages(t)
    PROVE  Lists(t)
<1> USE DEF device, server, history, chains, notes
<1>0. PICK listed \in SUBSET DOMAIN messages : Reads(t, listed)
  BY ListReads
<1> DEFINE new == listed \ task[t].known
           own == {i \in new : SenderOf(i) = task[t].dev}
           r == [task[t] EXCEPT !.at = "working", !.listed = listed, !.found.gaps = own]
<1>1. /\ task[t] # None /\ task[t].at = "listing" /\ task[t] \in Task /\ task[t].found \in Rows /\ Goes(t, r)
      /\ spoiled' = spoiled \cup Overlaps(t, new) \cup Skips(t, new)
  BY <1>0, TaskFields DEF Reads, At, Dev
<1>2. own \subseteq Ids /\ listed \subseteq Ids
  BY MessageType
<1>3. r \in Task /\ r.at = "working" /\ r.listed = listed /\ r.dev = task[t].dev /\ r.kind = task[t].kind
      /\ r.known = task[t].known /\ r.handle = task[t].handle /\ r.fresh = task[t].fresh /\ r.secret = task[t].secret
      /\ r.found.plain = task[t].found.plain /\ r.found.gaps = own
  BY <1>1, <1>2 DEF Task, Rows, Syncing
<1> HIDE DEF own, r
<1>4. task'[t] = r /\ task'[t] # None /\ Others(t)
  BY <1>1, <1>3, GoesOn
<1>5. Stays(t) /\ Grips(t)
  BY <1>3, <1>4 DEF Stays, Grips
<1>6. UNCHANGED <<chains, rows, consumed, cached>> /\ Kept
  BY <1>0 DEF Reads, Kept
<1> QED BY <1>1, <1>3, <1>4, <1>5, <1>6 DEF Lists, Turns, own

\* A sync takes the first message it has no row for, and a way to read it.
LEMMA LooksUpIs ==
    ASSUME TypeOK, StageInv, SessionsInv, NEW t \in Tasks, LookUpSession(t)
    PROVE  LooksUp(t)
<1> USE DEF device, server, history, chains, notes
<1> DEFINE p == task[t].dev
<1>1. task[t] # None /\ task[t].at = "working" /\ task[t] \in Task /\ p \in Participants /\ Staged(t)
  BY TaskFields DEF LookUpSession, At, StageInv
<1>2. task[t].kind = "sync"
  BY <1>1 DEF Staged, Task, Ensuring, Sending, Recording
<1>3. PICK i \in Pending(t), h \in {0, cached[p]} :
        /\ \A j \in Pending(t) : i <= j
        /\ IF h # 0
           THEN Goes(t, [task[t] EXCEPT !.at = "decrypting", !.id = i, !.handle = h])
           ELSE IF messages[i].payload
                THEN Goes(t, [task[t] EXCEPT !.at = "completing", !.id = i, !.secret = messages[i].key[1]])
                ELSE Gap(t, i)
        /\ spoiled' = spoiled \cup (IF h # cached[p] \/ (h = 0 /\ Unanswerable(p)) THEN From(p, SenderOf(i), i) ELSE {})
  BY DEF LookUpSession, Dev
<1>4. i \in DOMAIN messages /\ i \in Ids /\ messages[i].key[1] \in Secrets
  BY <1>1, <1>2, PendingType, MessageType
<1>5. h \in Nat
  BY <1>1, LenProperties DEF TypeOK, Handles
<1>6. i \in 0..MaxMessages /\ messages[i].key[1] \in 0..MaxHandshakes
  BY <1>4, MessagingAssumption DEF Ids, Secrets
<1>7. UNCHANGED <<chains, rows, consumed, cached>> /\ Kept
  BY DEF LookUpSession, Kept
<1>8. CASE h # 0
  <2> DEFINE r == [task[t] EXCEPT !.at = "decrypting", !.id = i, !.handle = h]
  <2>1. r \in Task
    BY <1>1, <1>5, <1>6 DEF Task, Syncing
  <2>2. task'[t] = r /\ task'[t] # None /\ Others(t)
    BY <1>3, <1>8, <2>1, GoesOn
  <2>3. /\ Stays(t) /\ task'[t].at = "decrypting" /\ task'[t].handle = h
        /\ task'[t].id = i /\ task'[t].listed = task[t].listed /\ task'[t].found = task[t].found
    BY <1>1, <2>2 DEF Stays, Task
  <2> HIDE DEF r
  <2> QED BY <1>1, <1>3, <1>7, <1>8, <2>2, <2>3 DEF LooksUp
<1>9. CASE h = 0 /\ messages[i].payload
  <2> DEFINE r == [task[t] EXCEPT !.at = "completing", !.id = i, !.secret = messages[i].key[1]]
  <2>1. r \in Task
    BY <1>1, <1>6 DEF Task, Syncing
  <2>2. task'[t] = r /\ task'[t] # None /\ Others(t)
    BY <1>3, <1>9, <2>1, GoesOn
  <2>3. /\ Stays(t) /\ task'[t].at = "completing" /\ task'[t].handle = task[t].handle
        /\ task'[t].secret = SecretOf(i)
        /\ task'[t].id = i /\ task'[t].listed = task[t].listed /\ task'[t].found = task[t].found
    BY <1>1, <2>2 DEF Stays, Task, SecretOf
  <2> HIDE DEF r
  <2> QED BY <1>1, <1>3, <1>7, <1>9, <2>2, <2>3 DEF LooksUp
<1>10. CASE h = 0 /\ ~messages[i].payload
  <2>1. GapFor(t, i) /\ Others(t)
    BY <1>1, <1>3, <1>4, <1>10, GapIs
  <2> QED BY <1>1, <1>3, <1>7, <1>10, <2>1 DEF LooksUp
<1> QED BY <1>8, <1>9, <1>10

\* The steps of completing a handshake, and their failure.
LEMMA ReceivesIs ==
    ASSUME TypeOK, StageInv, NEW t \in Tasks
    PROVE  /\ CompleteSharedSecret(t) => Completes(t)
           /\ ReceiveFails(t) => Fails(t)
           /\ ConsumeOneTimePrekey(t) => Consumes(t)
<1> USE DEF device, server, history, chains, notes
<1>i. task[t] # None /\ task[t].at \in Receiving => task[t].id \in Ids
  BY MessageType DEF StageInv, Staged
<1>1. ASSUME CompleteSharedSecret(t) PROVE Completes(t)
  <2> DEFINE s == handshakes[task[t].secret]
  <2>1. task[t] # None /\ task[t].at = "completing" /\ UNCHANGED <<chains, notes, cached>> /\ Kept
    BY <1>1 DEF CompleteSharedSecret, At, Kept
  <2>2. \/ /\ s.signed \notin signedPrekeys[task[t].dev] \/ s.oneTime \notin {0} \cup oneTimePrekeys[task[t].dev]
           /\ Gap(t, task[t].id)
        \/ \E stage \in {"registering", "consuming"} : Moves(t, stage)
    BY <1>1 DEF CompleteSharedSecret, Dev
  <2>3. Gap(t, task[t].id) => GapFor(t, task[t].id) /\ Others(t)
    BY <1>i, <2>1, GapIs DEF Receiving
  <2>4. \A stage \in {"registering", "consuming"} : Moves(t, stage) => Same(t) /\ Others(t) /\ task'[t].at = stage
    BY <2>1, MovesIs DEF Syncing
  <2> QED BY <2>1, <2>2, <2>3, <2>4 DEF Completes
<1>2. ASSUME ReceiveFails(t) PROVE Fails(t)
  <2>1. /\ task[t] # None /\ task[t].kind = "sync" /\ task[t].at \in {"completing", "remembering", "decrypting"}
        /\ Gap(t, task[t].id) /\ UNCHANGED <<chains, rows, consumed, cached>> /\ Kept
        /\ spoiled' = spoiled \cup From(task[t].dev, Peer(task[t].dev), task[t].id)
    BY <1>2 DEF ReceiveFails, Kept, Dev
  <2>2. GapFor(t, task[t].id) /\ Others(t)
    BY <1>i, <2>1, GapIs DEF Receiving
  <2> QED BY <2>1, <2>2 DEF Fails
<1>3. ASSUME ConsumeOneTimePrekey(t) PROVE Consumes(t)
  <2>1. /\ task[t] # None /\ task[t].at = "consuming" /\ UNCHANGED <<chains, rows, spoiled, cached>> /\ Kept
        /\ consumed' = consumed \cup {<<task[t].dev, handshakes[task[t].secret].oneTime, task[t].secret>>}
        /\ Moves(t, "registering")
    BY <1>3 DEF ConsumeOneTimePrekey, At, Kept, Dev
  <2>2. Same(t) /\ Others(t) /\ task'[t].at = "registering"
    BY <2>1, MovesIs DEF Syncing
  <2>3. task'[t] # None
    BY <2>2 DEF Same, Stays
  <2> QED BY <2>1, <2>2, <2>3 DEF Consumes, Turns
<1> QED BY <1>1, <1>2, <1>3

\* decryptMessage reads the chain.
LEMMA ReadsReceivingIs ==
    ASSUME TypeOK, StageInv, NEW t \in Tasks, ReadReceivingChain(t)
    PROVE  ReadsReceiving(t)
<1> USE DEF device, server, history, chains, notes
<1> DEFINE s == ratchet[task[t].handle]
           fits == messages[task[t].id].key = <<s.secret, Peer(task[t].dev), s.received>>
           r == [task[t] EXCEPT !.at = "opening", !.position = s.received, !.opposite = s.sent]
<1>1. /\ task[t] # None /\ task[t].at = "decrypting" /\ task[t] \in Task /\ Staged(t)
      /\ UNCHANGED <<chains, notes, cached>> /\ Kept /\ RatchetFree(task[t].handle)
      /\ IF fits THEN Goes(t, r) ELSE Gap(t, task[t].id)
  BY TaskFields DEF ReadReceivingChain, At, Kept, Dev, StageInv
<1>2. task[t].id \in Ids
  BY <1>1, MessageType DEF Staged, Receiving
<1>3. ~fits => GapFor(t, task[t].id) /\ Others(t)
  BY <1>1, <1>2, GapIs
<1>4. s.received \in Nat /\ s.sent \in Nat
  BY <1>1, MessageKeyType DEF Holding, Session
<1>5. r \in Task
  BY <1>1, <1>4 DEF Task, Syncing
<1>6. fits => task'[t] = r /\ task'[t] # None /\ Others(t)
  BY <1>1, <1>5, GoesOn
<1>7. /\ r.at = "opening" /\ r.dev = task[t].dev /\ r.kind = task[t].kind /\ r.known = task[t].known
      /\ r.handle = task[t].handle /\ r.fresh = task[t].fresh /\ r.secret = task[t].secret
      /\ r.listed = task[t].listed /\ r.id = task[t].id /\ r.found = task[t].found /\ r.position = s.received
  BY <1>1 DEF Task
<1> HIDE DEF r
<1>8. fits => Stays(t) /\ Grips(t) /\ Finds(t) /\ task'[t].at = "opening" /\ task'[t].position = s.received
  BY <1>6, <1>7 DEF Stays, Grips, Finds
<1> QED BY <1>1, <1>3, <1>6, <1>8 DEF ReadsReceiving

\* decryptMessage advances it.
LEMMA AdvancesReceivingIs ==
    ASSUME TypeOK, StageInv, ChainInv, NEW t \in Tasks, Runs(t), AdvanceReceivingChain(t)
    PROVE  AdvancesReceiving(t)
<1> USE DEF chains, notes
<1> DEFINE h == task[t].handle
           r == [task[t] EXCEPT !.at = "working", !.found.plain = @ \cup {task[t].id}]
<1>1. /\ task[t] # None /\ task[t].at = "opening" /\ task[t] \in Task /\ task[t].found \in Rows /\ Staged(t)
      /\ h \in Handles /\ ratchet[h] \in Session /\ Handles' = Handles
      /\ \A g \in Handles : g # h => ratchet'[g] = ratchet[g]
      /\ ratchet'[h].owner = ratchet[h].owner /\ ratchet'[h].secret = ratchet[h].secret
      /\ ratchet'[h].sent = task[t].opposite /\ ratchet'[h].received = task[t].position + 1
  BY AdvanceChains, TaskFields DEF AdvanceReceivingChain, At, StageInv
<1>2. ratchet'[h].sent = ratchet[h].sent
  <2>1. Knows(t)
    BY AdvanceLocks
  <2> QED BY <1>1, <2>1 DEF Knows, At
<1>3. task[t].id \in Ids
  BY <1>1, MessageType DEF Staged, Receiving
<1>4. /\ r \in Task /\ r.at = "working" /\ r.dev = task[t].dev /\ r.kind = task[t].kind /\ r.known = task[t].known
      /\ r.handle = task[t].handle /\ r.fresh = task[t].fresh /\ r.secret = task[t].secret
      /\ r.listed = task[t].listed
      /\ r.found.plain = task[t].found.plain \cup {task[t].id} /\ r.found.gaps = task[t].found.gaps
  BY <1>1, <1>3 DEF Task, Rows, Syncing
<1>5. Goes(t, r)
  BY DEF AdvanceReceivingChain
<1> HIDE DEF r
<1>6. task'[t] = r /\ task'[t] # None /\ Others(t)
  BY <1>4, <1>5, GoesOn
<1>7. Stays(t) /\ Grips(t)
  BY <1>4, <1>6 DEF Stays, Grips
<1> HIDE DEF h
<1>8. UNCHANGED <<handshakes, messages, notes, cached>> /\ Kept
  BY DEF AdvanceReceivingChain, server, history, Kept
<1> QED BY <1>1, <1>2, <1>4, <1>6, <1>7, <1>8 DEF AdvancesReceiving, h

\* A step of a call is one of these.
LEMMA ProceedsIs ==
    ASSUME IInv, FoundInv, NEW t \in Tasks, Runs(t)
    PROVE  Proceeds(t)
<1> USE DEF IInv
<1> QED BY QuietIs, FetchesIs, RegistersIs, ReadsSendingIs, AdvancesSendingIs, DeliversIs, RemembersIs, HistoryIs,
       ListsIs, LooksUpIs, ReceivesIs, ReadsReceivingIs, AdvancesReceivingIs DEF Runs, Registers, Proceeds

\* The app of p is closed.
Restarts(p) ==
    /\ UNCHANGED <<chains, rows, consumed, cached>> /\ Kept
    /\ \A t \in Tasks : IF task[t] # None /\ task[t].dev = p THEN task'[t] = None ELSE task'[t] = task[t]
    /\ spoiled' = spoiled \cup UNION {LostWith(t) : t \in {u \in Tasks : task[u] # None /\ task[u].dev = p}}

\* A step of the system, as far as it matters here.
Steps ==
    \/ \E t \in Tasks : Starts(t) \/ Proceeds(t)
    \/ \E p \in Participants : Restarts(p)
    \/ UNCHANGED <<chains, notes, cached, task>> /\ Kept

\* Every step of the system is one of these.
LEMMA StepsIs ==
    ASSUME IInv, FoundInv, [Next]_vars
    PROVE  Steps
<1> USE DEF IInv
<1>1. ASSUME NEW t \in Tasks, NEW p \in Participants, StartEnsure(t, p) \/ StartSync(t, p) PROVE Steps
  BY <1>1, StartsIs DEF Steps
<1>2. ASSUME NEW t \in Tasks, NEW p \in Participants, NEW conv \in BOOLEAN, StartSend(t, p, conv) PROVE Steps
  BY <1>2, StartsIs DEF Steps
<1>3. ASSUME NEW t \in Tasks, Runs(t) PROVE Steps
  BY <1>3, ProceedsIs DEF Steps
<1>4. ASSUME NEW p \in Participants, Restart(p) PROVE Steps
  <2>1. UNCHANGED <<chains, rows, consumed, cached>> /\ Kept
    BY <1>4 DEF Restart, device, server, chains, Kept
  <2>2. Restarts(p)
    BY <1>4, <2>1 DEF Restart, Restarts, Dev
  <2> QED BY <2>2 DEF Steps
<1>5. CASE UNCHANGED aside
  BY <1>5 DEF Steps, aside, device, server, history, chains, notes, Kept
<1> QED BY <1>1, <1>2, <1>3, <1>4, <1>5, NextCases

\* Which kind of call is where.
LEMMA KindIs ==
    ASSUME TypeOK, StageInv, NEW t \in Tasks, task[t] # None
    PROVE  /\ task[t].kind \in {"ensure", "send", "sync"} /\ task[t].dev \in Participants
           /\ task[t].at \in Ensuring \cup Sending \cup Syncing \cup Recording
           /\ task[t].at \in Ensuring => task[t].kind # "sync"
           /\ task[t].at \in Sending => task[t].kind = "send"
           /\ task[t].at \in Syncing => task[t].kind = "sync"
           /\ task[t].at \in Recording => task[t].kind # "ensure"
           /\ task[t].at \in Ensuring \cup Sending => task[t].at \notin Syncing \cup Recording
           /\ task[t].at \in Syncing => task[t].at \notin Recording
           /\ task[t].kind = "sync" => task[t].listed \subseteq DOMAIN messages
<1>1. task[t] \in Task /\ Staged(t)
  BY TaskFields DEF StageInv
<1> QED BY <1>1 DEF Staged, Task, Ensuring, Sending, Syncing, Recording

--------------------------------------------------------------------------------
(* FoundInv is inductive.                                                   *)

\* A call that does not move keeps what it found.
LEMMA FoundFrame ==
    ASSUME TypeOK, StageInv, Grows, NEW u \in Tasks, task[u] # None, FoundBy(u), task'[u] = task[u]
    PROVE  FoundBy(u)'
<1>1. \A i \in DOMAIN messages : i \in DOMAIN messages' /\ messages'[i] = messages[i]
  BY DEF Grows
<1>2. task[u].kind = "sync" => task[u].listed \subseteq DOMAIN messages
  BY KindIs
<1>3. \A i \in DOMAIN messages : SenderOf(i)' = SenderOf(i)
  BY <1>1 DEF SenderOf
<1> QED BY <1>1, <1>2, <1>3 DEF FoundBy

\* A call that goes on with what it had.
LEMMA FoundMoves ==
    ASSUME TypeOK, StageInv, Grows, NEW t \in Tasks, task[t] # None, FoundBy(t), task'[t] # None,
           Stays(t), Finds(t),
           task'[t].at \in Recording /\ task[t].kind = "send" => task[t].at \in Recording,
           task[t].at \in Recording => task'[t].at \in Recording \/ task[t].kind # "send",
           task'[t].at \in Receiving => task[t].at \in Receiving
    PROVE  FoundBy(t)'
<1>1. \A i \in DOMAIN messages : i \in DOMAIN messages' /\ messages'[i] = messages[i]
  BY DEF Grows
<1>2. task[t].kind = "sync" => task[t].listed \subseteq DOMAIN messages
  BY KindIs
<1>3. \A i \in DOMAIN messages : SenderOf(i)' = SenderOf(i)
  BY <1>1 DEF SenderOf
<1>4. task[t].kind \in {"ensure", "send", "sync"} /\ (task[t].kind = "ensure" => task[t].at \notin Recording)
  BY KindIs
<1> QED BY <1>1, <1>2, <1>3, <1>4 DEF FoundBy, Stays, Finds

\* A sync whose message in hand becomes a gap.
LEMMA FoundGap ==
    ASSUME TypeOK, StageInv, Grows, NEW t \in Tasks, task[t] # None, task[t].kind = "sync", FoundBy(t),
           NEW i \in task[t].listed \ task[t].known, GapFor(t, i)
    PROVE  FoundBy(t)'
<1>1. \A j \in DOMAIN messages : j \in DOMAIN messages' /\ messages'[j] = messages[j]
  BY DEF Grows
<1>2. task[t].listed \subseteq DOMAIN messages
  BY KindIs
<1>3. \A j \in DOMAIN messages : SenderOf(j)' = SenderOf(j)
  BY <1>1 DEF SenderOf
<1> QED BY <1>1, <1>2, <1>3 DEF FoundBy, GapFor, Stays, Recording, Receiving

\* The call that moves finds only what there is.
LEMMA FoundStep ==
    ASSUME TypeOK, StageInv, Grows, FoundInv, NEW t \in Tasks, Starts(t) \/ Proceeds(t), task'[t] # None
    PROVE  FoundBy(t)'
<1> USE DEF Recording, Receiving, Syncing, Sending, Ensuring
<1>1. CASE Starts(t)
  <2>1. Known(task'[t].dev) \subseteq DOMAIN messages'
    BY <1>1 DEF Starts, FoundInv, Grows
  <2> QED BY <1>1, <2>1 DEF Starts, FoundBy, NoRows
<1>2. ASSUME Proceeds(t) PROVE task[t] # None
  BY <1>2 DEF Proceeds, Quiet, Fetches, RegistersIn, Turns, ReadsSending, AdvancesSending, Delivers, Remembers,
     LoadsHistory, StoresHistory, Lists, LooksUp, Completes, Fails, Consumes, ReadsReceiving, AdvancesReceiving
<1>3. ASSUME task[t] # None
      PROVE  /\ FoundBy(t) /\ task[t].kind \in {"ensure", "send", "sync"}
             /\ task[t].at \in Ensuring => task[t].kind # "sync"
             /\ task[t].at \in Sending => task[t].kind = "send"
             /\ task[t].at \in Syncing => task[t].kind = "sync"
             /\ task[t].kind = "sync" => task[t].listed \subseteq DOMAIN messages
             /\ DOMAIN messages = 1..Len(messages) /\ Len(messages) \in Nat
             /\ task[t].at \in Ensuring \cup Sending \cup Syncing \cup Recording
  BY <1>3, KindIs, LenProperties DEF FoundInv, TypeOK
<1>4. CASE Quiet(t)
  BY <1>3, <1>4, FoundMoves DEF Quiet, Same
<1>5. CASE Fetches(t)
  BY <1>3, <1>5, FoundMoves DEF Fetches
<1>6. CASE RegistersIn(t, "deriving", "encrypting")
  BY <1>3, <1>6, FoundMoves DEF RegistersIn, Turns
<1>7. CASE RegistersIn(t, "registering", "remembering")
  BY <1>3, <1>7, FoundMoves DEF RegistersIn, Turns
<1>8. CASE ReadsSending(t)
  BY <1>3, <1>8, FoundMoves DEF ReadsSending, Turns
<1>9. CASE AdvancesSending(t)
  BY <1>3, <1>9, FoundMoves DEF AdvancesSending, Same
<1>10. CASE Delivers(t)
  <2>1. task[t].kind = "send" /\ FoundBy(t)
    BY <1>3, <1>10 DEF Delivers
  <2>2. \A i \in DOMAIN messages : i \in DOMAIN messages'
    BY DEF Grows
  <2> QED BY <1>10, <2>1, <2>2 DEF Delivers, FoundBy, Stays, SenderOf
<1>11. CASE Remembers(t)
  BY <1>3, <1>11, FoundMoves DEF Remembers, Same
<1>12. CASE LoadsHistory(t)
  BY <1>3, <1>12, FoundMoves DEF LoadsHistory, Turns
<1>13. CASE Lists(t)
  <2>1. task[t].kind = "sync" /\ FoundBy(t) /\ task[t].found = NoRows
    BY <1>3, <1>13, NothingFound DEF Lists, Turns
  <2>2. UNCHANGED messages /\ \A i : SenderOf(i)' = SenderOf(i)
    BY <1>13 DEF Lists, chains, SenderOf
  <2>3. task'[t].found.plain = {} /\ task'[t].found.gaps \subseteq task'[t].listed \ task'[t].known
    BY <1>3, <1>13, <2>1 DEF Lists, NoRows, Turns, Stays
  <2> QED BY <1>13, <2>1, <2>2, <2>3 DEF Lists, Turns, FoundBy, Stays
<1>14. CASE LooksUp(t)
  <2>1. PICK i \in Pending(t) :
          /\ \A j \in Pending(t) : i <= j
          /\ \/ /\ Stays(t) /\ task'[t].at \in {"decrypting", "completing"}
                /\ task'[t].id = i /\ task'[t].listed = task[t].listed /\ task'[t].found = task[t].found
             \/ GapFor(t, i)
    BY <1>14 DEF LooksUp
  <2>2. task[t] # None /\ task[t].kind = "sync" /\ FoundBy(t) /\ Staged(t) /\ task[t].at = "working"
    BY <1>3, <1>14 DEF LooksUp, StageInv
  <2>3. i \in task[t].listed \ task[t].known /\ i \notin task[t].found.plain \cup task[t].found.gaps
    BY <2>2, PendingType
  <2>4. SenderOf(i) # task[t].dev
    BY <2>2, <2>3 DEF Staged
  <2>5. \A j \in task[t].listed : j < i => j \in task[t].known \cup task[t].found.plain \cup task[t].found.gaps
    <3>1. ASSUME NEW j \in task[t].listed, j < i, j \notin task[t].known \cup task[t].found.plain \cup task[t].found.gaps
          PROVE  FALSE
      <4>1. i \in Nat /\ j \in Nat
        BY <1>3, <2>2, <2>3, <3>1
      <4>2. j \in Pending(t)
        BY <3>1 DEF Pending
      <4> QED BY <2>1, <3>1, <4>1, <4>2
    <3> QED BY <3>1
  <2>6. CASE GapFor(t, i)
    BY <2>2, <2>3, <2>6, FoundGap
  <2>7. CASE ~GapFor(t, i)
    <3>1. \A j : SenderOf(j)' = SenderOf(j)
      BY <1>14 DEF LooksUp, chains, SenderOf
    <3>2. task[t].known \subseteq DOMAIN messages'
      BY <2>2 DEF FoundBy, Grows
    <3> QED BY <2>1, <2>2, <2>3, <2>4, <2>5, <2>7, <3>1, <3>2 DEF FoundBy, Stays
  <2> QED BY <2>6, <2>7
<1>15. CASE Completes(t) \/ Fails(t) \/ ReadsReceiving(t)
  <2>1. /\ task[t] # None /\ task[t].kind = "sync" /\ FoundBy(t)
        /\ task[t].at \in {"completing", "remembering", "decrypting"}
        /\ GapFor(t, task[t].id) \/ (Stays(t) /\ Finds(t) /\ task'[t].at \in {"registering", "consuming", "opening"})
    BY <1>3, <1>15 DEF Completes, Fails, ReadsReceiving, Same
  <2>2. task[t].id \in task[t].listed \ task[t].known
    BY <2>1 DEF FoundBy
  <2>3. CASE GapFor(t, task[t].id)
    BY <2>1, <2>2, <2>3, FoundGap
  <2>4. CASE ~GapFor(t, task[t].id)
    BY <2>1, <2>4, FoundMoves
  <2> QED BY <2>3, <2>4
<1>16. CASE Consumes(t)
  BY <1>3, <1>16, FoundMoves DEF Consumes, Turns, Same
<1>17. CASE AdvancesReceiving(t)
  <2>1. task[t].kind = "sync" /\ FoundBy(t) /\ task[t].at = "opening"
    BY <1>3, <1>17 DEF AdvancesReceiving
  <2>2. \A j : SenderOf(j)' = SenderOf(j)
    BY <1>17 DEF AdvancesReceiving, SenderOf
  <2>3. task[t].id \in task[t].listed \ task[t].known /\ SenderOf(task[t].id) # task[t].dev
        /\ task[t].known \subseteq DOMAIN messages'
    BY <2>1 DEF FoundBy, Grows
  <2>4. /\ task'[t].kind = "sync" /\ task'[t].dev = task[t].dev /\ task'[t].known = task[t].known
        /\ task'[t].listed = task[t].listed /\ task'[t].at = "working"
        /\ task'[t].found.plain = task[t].found.plain \cup {task[t].id} /\ task'[t].found.gaps = task[t].found.gaps
    BY <1>17, <2>1 DEF AdvancesReceiving, Stays
  <2> QED BY <2>1, <2>2, <2>3, <2>4 DEF FoundBy
<1>18. CASE StoresHistory(t)
  BY <1>18 DEF StoresHistory
<1> QED BY <1>1, <1>4, <1>5, <1>6, <1>7, <1>8, <1>9, <1>10, <1>11, <1>12, <1>13, <1>14, <1>15, <1>16, <1>17, <1>18 DEF Proceeds

\* The rows of a merged history are those of the two.
LEMMA MergedRows ==
    ASSUME NEW old \in Rows, NEW new \in Rows
    PROVE  /\ Merged(old, new).plain \cup Merged(old, new).gaps \subseteq
                 old.plain \cup old.gaps \cup new.plain \cup new.gaps
           /\ old.plain \cup old.gaps \subseteq Merged(old, new).plain \cup Merged(old, new).gaps
           /\ \A i \in old.plain : i \in Merged(old, new).plain
           /\ \A i \in new.plain \ old.gaps : i \in Merged(old, new).plain
           /\ \A i \in Merged(old, new).gaps : i \in old.gaps \/ (i \in new.gaps /\ i \notin old.plain)
BY DEF Merged, Rows

\* Every step keeps FoundInv.
LEMMA FoundKept ==
    ASSUME TypeOK, StageInv, Grows, FoundInv, HistoryInv, Steps
    PROVE  FoundInv'
<1>1. \A u \in Tasks : task'[u] = task[u] /\ task'[u] # None => FoundBy(u)'
  BY FoundFrame DEF FoundInv
<1>2. ASSUME UNCHANGED rows PROVE \A p \in Participants : (Known(p) \subseteq DOMAIN messages)'
  BY <1>2 DEF FoundInv, Known, Grows
<1>3. ASSUME NEW t \in Tasks, Starts(t) \/ Proceeds(t) PROVE FoundInv'
  <2>1. Others(t)
    BY <1>3 DEF Starts, Proceeds, Quiet, Fetches, RegistersIn, ReadsSending, AdvancesSending, Delivers, Remembers,
     LoadsHistory, StoresHistory, Lists, LooksUp, Completes, Fails, Consumes, ReadsReceiving, AdvancesReceiving
  <2>2. \A u \in Tasks : task'[u] # None => FoundBy(u)'
    BY <1>1, <1>3, <2>1, FoundStep DEF Others
  <2>3. CASE StoresHistory(t)
    <3> DEFINE q == task[t].dev
    <3>1. /\ task[t] # None /\ q \in Participants /\ task[t].base \in Rows /\ task[t].found \in Rows /\ FoundBy(t)
          /\ At(t, "storing") /\ rows[q] \in Rows
      BY <2>3, TaskFields DEF StoresHistory, FoundInv, At, TypeOK
    <3>2. task[t].base.plain \cup task[t].base.gaps \subseteq Known(q)
      BY <3>1 DEF HistoryInv, Known, NoRows, Dev
    <3>3. task[t].found.plain \cup task[t].found.gaps \subseteq DOMAIN messages
      <4>1. task[t].kind \in {"send", "sync"} /\ task[t].at \in Recording
        BY <3>1, KindIs DEF At, Recording
      <4>2. CASE task[t].kind = "sync"
        BY <3>1, <4>2, KindIs DEF FoundBy
      <4>3. CASE task[t].kind = "send"
        BY <3>1, <4>1, <4>3 DEF FoundBy, NoRows
      <4> QED BY <4>1, <4>2, <4>3
    <3>4. Merged(task[t].base, task[t].found).plain \cup Merged(task[t].base, task[t].found).gaps \subseteq DOMAIN messages
      BY <3>1, <3>2, <3>3, MergedRows DEF FoundInv
    <3>5. \A p \in Participants : (Known(p) \subseteq DOMAIN messages)'
      BY <2>3, <3>4 DEF StoresHistory, FoundInv, Known, Grows
    <3> QED BY <2>2, <3>5 DEF FoundInv
  <2>4. CASE ~StoresHistory(t)
    <3>1. UNCHANGED rows
      BY <1>3, <2>4 DEF Starts, Proceeds, Quiet, Fetches, RegistersIn, ReadsSending, AdvancesSending, Delivers,
         Remembers, LoadsHistory, Lists, LooksUp, Completes, Fails, Consumes, ReadsReceiving, AdvancesReceiving, notes
    <3> QED BY <1>2, <2>2, <3>1 DEF FoundInv
  <2> QED BY <2>3, <2>4
<1>4. ASSUME NEW p \in Participants, Restarts(p) PROVE FoundInv'
  BY <1>1, <1>2, <1>4 DEF Restarts, FoundInv
<1>5. CASE UNCHANGED <<chains, notes, cached, task>>
  BY <1>1, <1>2, <1>5 DEF FoundInv, notes
<1> QED BY <1>3, <1>4, <1>5 DEF Steps

--------------------------------------------------------------------------------
(* What no step undoes.                                                     *)

\* The call that makes a step is the only one that moves.
LEMMA ActsAlone ==
    ASSUME NEW t \in Tasks, Starts(t) \/ Proceeds(t)
    PROVE  Others(t) /\ Kept
BY DEF Starts, Proceeds, Quiet, Fetches, RegistersIn, ReadsSending, AdvancesSending, Delivers, Remembers,
   LoadsHistory, StoresHistory, Lists, LooksUp, Completes, Fails, Consumes, ReadsReceiving, AdvancesReceiving

\* A call that is no longer what it was made the step, or has gone.
LEMMA Moved ==
    ASSUME Steps, NEW u \in Tasks, task'[u] # task[u]
    PROVE  Starts(u) \/ Proceeds(u) \/ task'[u] = None
<1>1. ASSUME NEW t \in Tasks, Starts(t) \/ Proceeds(t) PROVE t = u
  BY <1>1, ActsAlone DEF Others
<1>2. ASSUME NEW p \in Participants, Restarts(p) PROVE task'[u] = None
  BY <1>2 DEF Restarts
<1> QED BY <1>1, <1>2 DEF Steps

\* What is recorded as disturbed stays so.
LEMMA SpoiledStays ==
    ASSUME Steps
    PROVE  spoiled \subseteq spoiled'
<1>1. ASSUME NEW t \in Tasks, Starts(t) \/ Proceeds(t) PROVE spoiled \subseteq spoiled'
  BY <1>1 DEF Starts, Proceeds, Quiet, Fetches, RegistersIn, ReadsSending, AdvancesSending, Delivers, Remembers,
   LoadsHistory, StoresHistory, Lists, LooksUp, Completes, Fails, Consumes, ReadsReceiving, AdvancesReceiving, notes
<1>2. ASSUME NEW p \in Participants, Restarts(p) PROVE spoiled \subseteq spoiled'
  BY <1>2 DEF Restarts
<1> QED BY <1>1, <1>2 DEF Steps, notes

\* Who changes what.
LEMMA RowsChange ==
    ASSUME Steps
    PROVE  UNCHANGED rows \/ \E t \in Tasks : StoresHistory(t)
<1>1. ASSUME NEW t \in Tasks, Starts(t) \/ Proceeds(t) PROVE UNCHANGED rows \/ StoresHistory(t)
  BY <1>1 DEF Starts, Proceeds, Quiet, Fetches, RegistersIn, ReadsSending, AdvancesSending, Delivers, Remembers,
   LoadsHistory, Lists, LooksUp, Completes, Fails, Consumes, ReadsReceiving, AdvancesReceiving, notes
<1>2. ASSUME NEW p \in Participants, Restarts(p) PROVE UNCHANGED rows
  BY <1>2 DEF Restarts
<1> QED BY <1>1, <1>2 DEF Steps, notes

\* The messages change by a delivery,
LEMMA MessagesChange ==
    ASSUME Steps
    PROVE  UNCHANGED messages \/ \E t \in Tasks : Delivers(t)
<1>1. ASSUME NEW t \in Tasks, Starts(t) \/ Proceeds(t) PROVE UNCHANGED messages \/ Delivers(t)
  BY <1>1 DEF Starts, Proceeds, Quiet, Fetches, RegistersIn, ReadsSending, AdvancesSending, Remembers, StoresHistory,
   LoadsHistory, Lists, LooksUp, Completes, Fails, Consumes, ReadsReceiving, AdvancesReceiving, chains
<1>2. ASSUME NEW p \in Participants, Restarts(p) PROVE UNCHANGED messages
  BY <1>2 DEF Restarts, chains
<1> QED BY <1>1, <1>2 DEF Steps, chains

\* the sessions by their registration and their chains,
LEMMA HandlesChange ==
    ASSUME Steps
    PROVE  UNCHANGED ratchet \/ \E t \in Tasks : \/ RegistersIn(t, "deriving", "encrypting")
                                                 \/ RegistersIn(t, "registering", "remembering")
                                                 \/ AdvancesSending(t) \/ AdvancesReceiving(t)
<1>1. ASSUME NEW t \in Tasks, Starts(t) \/ Proceeds(t)
      PROVE  UNCHANGED ratchet \/ RegistersIn(t, "deriving", "encrypting") \/ RegistersIn(t, "registering", "remembering")
             \/ AdvancesSending(t) \/ AdvancesReceiving(t)
  BY <1>1 DEF Starts, Proceeds, Quiet, Fetches, ReadsSending, Delivers, Remembers, StoresHistory,
   LoadsHistory, Lists, LooksUp, Completes, Fails, Consumes, ReadsReceiving, chains
<1>2. ASSUME NEW p \in Participants, Restarts(p) PROVE UNCHANGED ratchet
  BY <1>2 DEF Restarts, chains
<1> QED BY <1>1, <1>2 DEF Steps, chains

\* the session map by a write to it,
LEMMA CachedChange ==
    ASSUME Steps
    PROVE  UNCHANGED cached \/ \E t \in Tasks : Remembers(t)
<1>1. ASSUME NEW t \in Tasks, Starts(t) \/ Proceeds(t) PROVE UNCHANGED cached \/ Remembers(t)
  BY <1>1 DEF Starts, Proceeds, Quiet, Fetches, RegistersIn, ReadsSending, AdvancesSending, Delivers, StoresHistory,
   LoadsHistory, Lists, LooksUp, Completes, Fails, Consumes, ReadsReceiving, AdvancesReceiving
<1>2. ASSUME NEW p \in Participants, Restarts(p) PROVE UNCHANGED cached
  BY <1>2 DEF Restarts
<1> QED BY <1>1, <1>2 DEF Steps

\* the handshakes by the fetching of a bundle.
LEMMA HandshakesChange ==
    ASSUME Steps
    PROVE  UNCHANGED handshakes \/ \E t \in Tasks : Fetches(t)
<1>1. ASSUME NEW t \in Tasks, Starts(t) \/ Proceeds(t) PROVE UNCHANGED handshakes \/ Fetches(t)
  BY <1>1 DEF Starts, Proceeds, Quiet, RegistersIn, ReadsSending, AdvancesSending, Delivers, Remembers, StoresHistory,
   LoadsHistory, Lists, LooksUp, Completes, Fails, Consumes, ReadsReceiving, AdvancesReceiving, chains
<1>2. ASSUME NEW p \in Participants, Restarts(p) PROVE UNCHANGED handshakes
  BY <1>2 DEF Restarts, chains
<1> QED BY <1>1, <1>2 DEF Steps, chains

\* Signed prekeys stay.
LEMMA SignedStay ==
    ASSUME Steps
    PROVE  Kept
BY ActsAlone DEF Steps, Restarts

\* What a sender, a secret and a position are stays.
LEMMA MessagesStay ==
    ASSUME Grows
    PROVE  \A i \in DOMAIN messages :
              /\ i \in DOMAIN messages' /\ messages'[i] = messages[i]
              /\ SenderOf(i)' = SenderOf(i) /\ SecretOf(i)' = SecretOf(i) /\ PositionOf(i)' = PositionOf(i)
BY DEF Grows, SenderOf, SecretOf, PositionOf

--------------------------------------------------------------------------------
(* HistoryInv is inductive.                                                 *)

\* A call comes to replace a history by loading it.
LEMMA Storing ==
    ASSUME Steps, NEW t \in Tasks, At(t, "storing")', task'[t] # task[t]
    PROVE  LoadsHistory(t)
<1>1. Starts(t) \/ Proceeds(t)
  BY Moved DEF At
<1> QED BY <1>1 DEF At, Starts, Proceeds, Quiet, Fetches, RegistersIn, Turns, ReadsSending, AdvancesSending, Delivers,
   Remembers, StoresHistory, Lists, LooksUp, Completes, Fails, Consumes, ReadsReceiving, AdvancesReceiving, GapFor, Ensuring

\* Every step keeps HistoryInv: loading needs the lock, storing gives it up.
LEMMA HistoryKept ==
    ASSUME TypeOK, HistoryInv, Steps
    PROVE  HistoryInv'
<1> USE DEF At, Dev
<1>1. ASSUME NEW t \in Tasks, NEW u \in Tasks, (At(t, "storing") /\ At(u, "storing") /\ Dev(t) = Dev(u))'
      PROVE  t = u
  <2>1. CASE task'[t] = task[t] /\ task'[u] = task[u]
    BY <1>1, <2>1 DEF HistoryInv
  <2>2. CASE task'[t] # task[t]
    <3>1. LoadsHistory(t)
      BY <1>1, <2>2, Storing
    <3> QED BY <1>1, <3>1 DEF LoadsHistory, Turns, Others, HistoryFree, Stays
  <2>3. CASE task'[u] # task[u]
    <3>1. LoadsHistory(u)
      BY <1>1, <2>3, Storing
    <3> QED BY <1>1, <3>1 DEF LoadsHistory, Turns, Others, HistoryFree, Stays
  <2> QED BY <2>1, <2>2, <2>3
<1>2. ASSUME NEW t \in Tasks, At(t, "storing")'
      PROVE  (LET p == Dev(t)
              IN  \/ task[t].base = rows[p]
                  \/ /\ task[t].base = NoRows
                     /\ \A i \in Known(p) : <<p, p, i>> \in spoiled /\ <<p, Peer(p), i>> \in spoiled)'
  <2>1. spoiled \subseteq spoiled'
    BY SpoiledStays
  <2>2. CASE task'[t] = task[t]
    <3>1. task[t] # None /\ task[t].at = "storing" /\ task[t].dev \in Participants
      BY <1>2, <2>2, TaskFields
    <3>p. PICK p \in Participants : p = task[t].dev
      BY <3>1
    <3>2. rows'[p] = rows[p]
      <4>1. ASSUME NEW u \in Tasks, StoresHistory(u), task[u].dev = p PROVE FALSE
        <5>1. u = t
          BY <3>1, <3>p, <4>1 DEF StoresHistory, HistoryInv
        <5> QED BY <1>2, <4>1, <5>1 DEF StoresHistory
      <4> QED BY <3>1, <4>1, RowsChange DEF StoresHistory
    <3>3. Known(p)' = Known(p)
      BY <3>2 DEF Known
    <3> QED BY <2>1, <2>2, <3>1, <3>p, <3>2, <3>3 DEF HistoryInv
  <2>3. CASE task'[t] # task[t]
    <3>1. LoadsHistory(t)
      BY <1>2, <2>3, Storing
    <3>p. PICK p \in Participants : p = task[t].dev
      BY <3>1, TaskFields DEF LoadsHistory, Turns
    <3>2. task[t] # None /\ task'[t].dev = p /\ p \in Participants /\ Peer(p) \in Participants /\ UNCHANGED rows
      BY <3>1, <3>p, PeerProperties DEF LoadsHistory, Turns, Stays
    <3>3. Known(p)' = Known(p) /\ Dev(t)' = p
      BY <3>2 DEF Known
    <3>4. CASE task'[t].base = rows[p]
      BY <3>2, <3>4
    <3>5. CASE task'[t].base = NoRows /\ spoiled' = spoiled \cup Only(p, p, Known(p)) \cup Only(p, Peer(p), Known(p))
      <4>1. \A i \in Known(p) : <<p, p, i>> \in spoiled' /\ <<p, Peer(p), i>> \in spoiled'
        BY <3>2, <3>5 DEF Only
      <4> QED BY <3>3, <3>5, <4>1
    <3> QED BY <3>1, <3>p, <3>4, <3>5 DEF LoadsHistory
  <2> QED BY <2>2, <2>3
<1> QED BY <1>1, <1>2 DEF HistoryInv

--------------------------------------------------------------------------------
(* OwnInv is inductive.                                                     *)

\* A row that was decrypted stays in the history, unless its loss is recorded.
LEMMA PlainStays ==
    ASSUME TypeOK, HistoryInv, Steps, NEW p \in Participants, NEW i \in rows[p].plain
    PROVE  i \in rows'[p].plain \/ (<<p, p, i>> \in spoiled' /\ <<p, Peer(p), i>> \in spoiled')
<1>1. spoiled \subseteq spoiled'
  BY SpoiledStays
<1>2. ASSUME NEW t \in Tasks, StoresHistory(t), task[t].dev = p
      PROVE  i \in rows'[p].plain \/ (<<p, p, i>> \in spoiled' /\ <<p, Peer(p), i>> \in spoiled')
  <2>1. At(t, "storing") /\ Dev(t) = p /\ task[t].base \in Rows /\ task[t].found \in Rows
    BY <1>2, TaskFields DEF StoresHistory, At, Dev
  <2>2. rows'[p] = Merged(task[t].base, task[t].found)
    BY <1>2 DEF StoresHistory
  <2>3. CASE task[t].base = rows[p]
    BY <2>1, <2>2, <2>3, MergedRows
  <2>4. CASE task[t].base # rows[p]
    BY <1>1, <2>1, <2>4 DEF HistoryInv, Known
  <2> QED BY <2>3, <2>4
<1>3. ASSUME NEW t \in Tasks, StoresHistory(t), task[t].dev # p
      PROVE  i \in rows'[p].plain
  BY <1>3 DEF StoresHistory
<1> QED BY <1>2, <1>3, RowsChange

\* A gap in a history was there, or in what a call that found no row for it adds.
LEMMA GapsCome ==
    ASSUME TypeOK, HistoryInv, Steps, NEW p \in Participants, NEW i \in rows'[p].gaps
    PROVE  \/ i \in rows[p].gaps
           \/ \E t \in Tasks : /\ task[t] # None /\ task[t].at = "storing" /\ task[t].dev = p /\ i \in task[t].found.gaps
                               /\ \/ i \notin rows[p].plain
                                  \/ <<p, p, i>> \in spoiled' /\ <<p, Peer(p), i>> \in spoiled'
<1>1. spoiled \subseteq spoiled'
  BY SpoiledStays
<1>2. ASSUME NEW t \in Tasks, StoresHistory(t), task[t].dev = p
      PROVE  \/ i \in rows[p].gaps
             \/ /\ task[t] # None /\ task[t].at = "storing" /\ i \in task[t].found.gaps
                /\ \/ i \notin rows[p].plain
                   \/ <<p, p, i>> \in spoiled' /\ <<p, Peer(p), i>> \in spoiled'
  <2>1. At(t, "storing") /\ Dev(t) = p /\ task[t].base \in Rows /\ task[t].found \in Rows
    BY <1>2, TaskFields DEF StoresHistory, At, Dev
  <2>2. rows'[p] = Merged(task[t].base, task[t].found)
    BY <1>2 DEF StoresHistory
  <2>3. i \in task[t].base.gaps \/ (i \in task[t].found.gaps /\ i \notin task[t].base.plain)
    BY <2>1, <2>2, MergedRows
  <2>4. CASE task[t].base = rows[p]
    BY <2>1, <2>3, <2>4 DEF At
  <2>5. CASE task[t].base # rows[p]
    <3>1. task[t].base = NoRows /\ \A j \in Known(p) : <<p, p, j>> \in spoiled /\ <<p, Peer(p), j>> \in spoiled
      BY <2>1, <2>5 DEF HistoryInv
    <3> QED BY <1>1, <2>1, <2>3, <3>1 DEF Known, NoRows, At
  <2> QED BY <2>4, <2>5
<1>3. ASSUME NEW t \in Tasks, StoresHistory(t), task[t].dev # p
      PROVE  i \in rows[p].gaps
  BY <1>3 DEF StoresHistory
<1>4. CASE UNCHANGED rows
  BY <1>4
<1>5. CASE ~UNCHANGED rows
  <2>1. PICK t \in Tasks : StoresHistory(t)
    BY <1>5, RowsChange
  <2> QED BY <1>2, <1>3, <2>1
<1> QED BY <1>4, <1>5

\* What a step does to what a sync has found.
LEMMA SyncCases ==
    ASSUME TypeOK, StageInv, Steps, NEW t \in Tasks, Is(t, "sync")'
    PROVE  \/ Starts(t)
           \/ /\ task[t] # None /\ task[t].kind = "sync" /\ task'[t].dev = task[t].dev /\ task'[t].known = task[t].known
              /\ \/ Lists(t)
                 \/ task'[t].found = task[t].found /\ task'[t].listed = task[t].listed
                 \/ AdvancesReceiving(t)
                 \/ LooksUp(t) /\ \E i \in Pending(t) : GapFor(t, i)
                 \/ (Completes(t) \/ Fails(t) \/ ReadsReceiving(t)) /\ GapFor(t, task[t].id)
<1>1. CASE task'[t] = task[t]
  BY <1>1 DEF Is
<1>2. CASE task'[t] # task[t]
  <2>1. Starts(t) \/ Proceeds(t)
    BY <1>2, Moved DEF Is
  <2>2. ASSUME Proceeds(t) PROVE task[t] # None
    BY <2>2 DEF Proceeds, Quiet, Fetches, RegistersIn, Turns, ReadsSending, AdvancesSending, Delivers, Remembers,
     LoadsHistory, StoresHistory, Lists, LooksUp, Completes, Fails, Consumes, ReadsReceiving, AdvancesReceiving
  <2>3. ASSUME task[t] # None
        PROVE  task[t].at \in Sending => task[t].kind = "send"
    BY <2>3, KindIs
  <2>4. ASSUME Proceeds(t), Stays(t)
        PROVE \/ Lists(t) \/ Delivers(t)
              \/ task'[t].found = task[t].found /\ task'[t].listed = task[t].listed
              \/ AdvancesReceiving(t)
              \/ LooksUp(t) /\ \E i \in Pending(t) : GapFor(t, i)
              \/ (Completes(t) \/ Fails(t) \/ ReadsReceiving(t)) /\ GapFor(t, task[t].id)
    <3>1. CASE LooksUp(t)
      BY <3>1 DEF LooksUp
    <3>2. CASE Completes(t) \/ Fails(t) \/ ReadsReceiving(t)
      BY <3>2 DEF Completes, Fails, ReadsReceiving, Same, Finds
    <3>3. CASE Quiet(t)
      BY <3>3, <2>4 DEF Quiet, Same, Finds, Stays
    <3>4. CASE StoresHistory(t)
      BY <3>4, <2>4 DEF StoresHistory, Stays
    <3> QED BY <2>4, <3>1, <3>2, <3>3, <3>4 DEF Proceeds, Fetches, RegistersIn, ReadsSending, AdvancesSending, Remembers,
              LoadsHistory, Consumes, Same, Finds
  <2>5. Proceeds(t) => Stays(t)
    BY <1>2 DEF Is, Proceeds, Quiet, Fetches, RegistersIn, Turns, ReadsSending, AdvancesSending, Delivers, Remembers,
     LoadsHistory, StoresHistory, Lists, LooksUp, Completes, Fails, Consumes, ReadsReceiving, AdvancesReceiving, Same, GapFor
  <2>6. ~Delivers(t)
    BY <2>3 DEF Is, Delivers, Sending, Stays
  <2> QED BY <2>1, <2>2, <2>4, <2>5, <2>6 DEF Is, Stays
<1> QED BY <1>1, <1>2

\* A send that has delivered its message stores it, or its loss is recorded.
LEMMA SentCases ==
    ASSUME TypeOK, StageInv, FoundInv, Steps, NEW u \in Tasks, Is(u, "send"), task[u].at \in Recording
    PROVE  \/ Is(u, "send")' /\ task'[u].dev = task[u].dev /\ task'[u].at \in Recording /\ task'[u].id = task[u].id
           \/ StoresHistory(u)
           \/ <<task[u].dev, task[u].dev, task[u].id>> \in spoiled'
<1>1. CASE task'[u] = task[u]
  BY <1>1 DEF Is
<1>2. CASE task'[u] # task[u]
  <2>1. Proceeds(u) => Remembers(u) \/ LoadsHistory(u) \/ StoresHistory(u)
    BY DEF Is, Recording, Ensuring, Sending, Proceeds, Quiet, Fetches, RegistersIn, Turns, ReadsSending, AdvancesSending, Delivers,
     Lists, LooksUp, Completes, Fails, Consumes, ReadsReceiving, AdvancesReceiving
  <2>2. CASE Starts(u) \/ Proceeds(u)
    BY <2>1, <2>2 DEF Starts, Is, Remembers, LoadsHistory, Turns, Same, Stays, Finds, Recording
  <2>3. CASE \E p \in Participants : Restarts(p)
    <3>1. PICK p \in Participants : Restarts(p)
      BY <2>3
    <3>2. task[u].dev = p /\ task[u] # None
      BY <1>2, <3>1 DEF Restarts, Is
    <3>3. FoundBy(u)
      BY <3>2 DEF FoundInv
    <3>4. <<p, p, task[u].id>> \in LostWith(u)
      BY <3>2, <3>3 DEF Is, FoundBy, LostWith, Only, Dev, NoRows
    <3> QED BY <3>1, <3>2, <3>4 DEF Restarts
  <2>4. Starts(u) \/ Proceeds(u) \/ \E p \in Participants : Restarts(p)
    <3>1. ASSUME NEW t \in Tasks, Starts(t) \/ Proceeds(t) PROVE t = u
      BY <1>2, <3>1, ActsAlone DEF Others
    <3> QED BY <1>2, <3>1 DEF Steps
  <2> QED BY <2>2, <2>3, <2>4
<1> QED BY <1>1, <1>2

\* Every step keeps OwnInv.
LEMMA OwnKept ==
    ASSUME TypeOK, StageInv, Grows, FoundInv, HistoryInv, OwnInv, Steps
    PROVE  OwnInv'
<1>1. spoiled \subseteq spoiled'
  BY SpoiledStays
<1>2. \A i \in DOMAIN messages : /\ i \in DOMAIN messages' /\ SenderOf(i)' = SenderOf(i)
                                 /\ SenderOf(i) \in Participants
  BY MessagesStay, MessageType
<1>3. ASSUME NEW p \in Participants, NEW i \in rows'[p].gaps, i \in DOMAIN messages, SenderOf(i) = p
      PROVE  <<p, p, i>> \in spoiled'
  <2>1. CASE i \in rows[p].gaps
    BY <1>1, <1>3, <2>1 DEF OwnInv
  <2>2. CASE i \notin rows[p].gaps
    <3>1. PICK t \in Tasks : /\ task[t] # None /\ task[t].at = "storing" /\ task[t].dev = p /\ i \in task[t].found.gaps
                             /\ \/ i \notin rows[p].plain
                                \/ <<p, p, i>> \in spoiled'
      BY <2>2, GapsCome
    <3>2. task[t].kind \in {"send", "sync"} /\ FoundBy(t)
      BY <3>1, KindIs DEF Recording, FoundInv
    <3>3. task[t].kind = "sync"
      BY <3>1, <3>2 DEF FoundBy, NoRows, Recording
    <3>4. i \in rows[p].plain \/ <<p, p, i>> \in spoiled
      BY <1>3, <3>1, <3>3 DEF OwnInv, Is, Dev
    <3> QED BY <1>1, <3>1, <3>4
  <2> QED BY <2>1, <2>2
<1>4. ASSUME NEW i \in DOMAIN messages, NEW p \in Participants, p = SenderOf(i)
      PROVE  \/ i \in rows'[p].plain \/ <<p, p, i>> \in spoiled'
             \/ \E u \in Tasks : (Is(u, "send") /\ Dev(u) = p /\ task[u].at \in Recording /\ task[u].id = i)'
  <2>1. CASE i \in rows[p].plain
    BY <2>1, PlainStays
  <2>2. CASE <<p, p, i>> \in spoiled
    BY <1>1, <2>2
  <2>3. ASSUME NEW u \in Tasks, Is(u, "send"), Dev(u) = p, task[u].at \in Recording, task[u].id = i
        PROVE  \/ i \in rows'[p].plain \/ <<p, p, i>> \in spoiled'
               \/ (Is(u, "send") /\ Dev(u) = p /\ task[u].at \in Recording /\ task[u].id = i)'
    <3>1. CASE StoresHistory(u)
      <4>1. /\ task[u].base \in Rows /\ task[u].found \in Rows /\ task[u] # None /\ task[u].found.plain = {i}
            /\ rows'[p] = Merged(task[u].base, task[u].found) /\ At(u, "storing") /\ Dev(u) = p
        BY <2>3, <3>1, TaskFields DEF StoresHistory, FoundInv, FoundBy, Is, Dev, NoRows, At
      <4>2. CASE i \in task[u].base.gaps
        <5>1. task[u].base = rows[p]
          BY <4>1, <4>2 DEF HistoryInv, NoRows
        <5> QED BY <1>1, <1>4, <4>2, <5>1 DEF OwnInv
      <4>3. CASE i \notin task[u].base.gaps
        BY <4>1, <4>3, MergedRows
      <4> QED BY <4>2, <4>3
    <3>2. CASE ~StoresHistory(u)
      BY <2>3, <3>2, SentCases DEF Dev
    <3> QED BY <3>1, <3>2
  <2> QED BY <1>4, <2>1, <2>2, <2>3 DEF OwnInv
<1>5. ASSUME NEW i \in DOMAIN messages', i \notin DOMAIN messages
      PROVE  \/ (<<SenderOf(i), SenderOf(i), i>> \in spoiled)'
             \/ \E u \in Tasks : (Is(u, "send") /\ Dev(u) = SenderOf(i) /\ task[u].at \in Recording /\ task[u].id = i)'
  <2>1. PICK t \in Tasks : Delivers(t)
    BY <1>5, MessagesChange
  <2>2. i = Len(messages) + 1 /\ SenderOf(i)' = task[t].dev
    BY <1>5, <2>1 DEF Delivers, SenderOf
  <2>3. task[t].kind = "send"
    BY <2>1, KindIs DEF Delivers, Sending
  <2>4. CASE task'[t] = None
    BY <2>1, <2>2, <2>4 DEF Delivers, Only, Stays
  <2>5. CASE task'[t] # None
    BY <2>1, <2>2, <2>3, <2>5 DEF Delivers, Stays, Is, Dev, Recording
  <2> QED BY <2>4, <2>5
<1>6. ASSUME NEW t \in Tasks, Is(t, "sync")', NEW p \in Participants, p = task'[t].dev,
             NEW i \in task'[t].found.gaps, i \in DOMAIN messages, SenderOf(i) = p
      PROVE  i \in rows'[p].plain \/ <<p, p, i>> \in spoiled'
  <2>1. CASE Is(t, "sync") /\ task[t].dev = p /\ i \in task[t].found.gaps
    <3>1. i \in rows[p].plain \/ <<p, p, i>> \in spoiled
      BY <1>6, <2>1 DEF OwnInv, Dev
    <3> QED BY <1>1, <3>1, PlainStays
  <2>2. CASE ~(Is(t, "sync") /\ task[t].dev = p /\ i \in task[t].found.gaps)
    <3>1. ~Starts(t)
      BY <1>6 DEF Starts, NoRows
    <3>2. CASE Lists(t)
      <4> DEFINE new == task'[t].listed \ task[t].known
      <4>1. i \in new /\ task[t].kind = "sync" /\ task[t].dev = p /\ task[t] # None
        BY <1>6, <3>1, <3>2, SyncCases DEF Lists
      <4>2. ASSUME NEW u \in Tasks, Is(u, "send"), Dev(u) = p, task[u].at \in Recording, task[u].id = i
            PROVE  <<p, p, i>> \in spoiled'
        <5>1. <<p, p, i>> \in Overlaps(t, new)
          BY <1>6, <4>1, <4>2 DEF Overlaps, Only, Is, Dev
        <5> QED BY <3>2, <5>1 DEF Lists
      <4> QED BY <1>1, <1>6, <4>2, PlainStays DEF OwnInv
    <3>3. CASE ~Lists(t)
      <4>1. /\ task[t] # None /\ task[t].kind = "sync" /\ task'[t].dev = task[t].dev /\ FoundBy(t) /\ Staged(t)
            /\ \/ task'[t].found = task[t].found
               \/ AdvancesReceiving(t)
               \/ LooksUp(t) /\ \E j \in Pending(t) : GapFor(t, j)
               \/ (Completes(t) \/ Fails(t) \/ ReadsReceiving(t)) /\ GapFor(t, task[t].id)
        BY <1>6, <3>1, <3>3, SyncCases DEF FoundInv, StageInv, Is
      <4>2. task'[t].found.gaps # task[t].found.gaps
        BY <1>6, <2>2, <4>1 DEF Is
      <4>3. \/ task[t].at = "working" /\ i \in Pending(t)
            \/ task[t].at \in Receiving /\ i = task[t].id
        BY <1>6, <2>2, <4>1, <4>2 DEF AdvancesReceiving, LooksUp, Completes, Fails, ReadsReceiving, GapFor, Is, Receiving
      <4>4. SenderOf(i) # task[t].dev
        <5>1. CASE task[t].at \in Receiving /\ i = task[t].id
          BY <4>1, <5>1 DEF FoundBy
        <5>2. CASE task[t].at = "working" /\ i \in Pending(t)
          BY <4>1, <5>2, PendingType DEF Staged
        <5> QED BY <4>3, <5>1, <5>2
      <4> QED BY <1>6, <4>1, <4>4
    <3> QED BY <3>2, <3>3
  <2> QED BY <2>1, <2>2
<1>7. FoundInv'
  BY FoundKept
<1>8. \A i \in DOMAIN messages' :
         \/ i \in rows'[SenderOf(i)'].plain \/ <<SenderOf(i)', SenderOf(i)', i>> \in spoiled'
         \/ \E u \in Tasks : (Is(u, "send") /\ Dev(u) = SenderOf(i) /\ task[u].at \in Recording /\ task[u].id = i)'
  BY <1>2, <1>4, <1>5
<1>9. \A p \in Participants : \A i \in rows'[p].gaps : SenderOf(i)' = p => <<p, p, i>> \in spoiled'
  <2> SUFFICES ASSUME NEW p \in Participants, NEW i \in rows'[p].gaps, SenderOf(i)' = p
               PROVE  <<p, p, i>> \in spoiled'
    OBVIOUS
  <2>1. CASE i \in DOMAIN messages
    BY <1>2, <1>3, <2>1
  <2>2. CASE i \notin DOMAIN messages
    <3>1. i \in DOMAIN messages'
      BY <1>7 DEF FoundInv, Known
    <3>2. PICK t \in Tasks : Delivers(t)
      BY <2>2, <3>1, MessagesChange
    <3>3. i \in rows[p].gaps
      BY <3>2 DEF Delivers
    <3>4. i \in DOMAIN messages
      BY <3>3 DEF FoundInv, Known
    <3> QED BY <2>2, <3>4
  <2> QED BY <2>1, <2>2
<1>10. \A t \in Tasks : Is(t, "sync")' =>
          \A i \in task'[t].found.gaps : SenderOf(i)' = task'[t].dev =>
             i \in rows'[task'[t].dev].plain \/ <<task'[t].dev, task'[t].dev, i>> \in spoiled'
  <2> SUFFICES ASSUME NEW t \in Tasks, Is(t, "sync")', NEW i \in task'[t].found.gaps, SenderOf(i)' = task'[t].dev
               PROVE  i \in rows'[task'[t].dev].plain \/ <<task'[t].dev, task'[t].dev, i>> \in spoiled'
    OBVIOUS
  <2>1. CASE i \in DOMAIN messages
    BY <1>2, <1>6, <2>1
  <2>2. CASE i \notin DOMAIN messages
    <3>1. task'[t] # None /\ FoundBy(t)' /\ task'[t].kind = "sync"
      BY <1>7 DEF FoundInv, Is
    <3>2. PICK u \in Tasks : Delivers(u)
      <4>1. i \in task'[t].listed
        BY <3>1 DEF FoundBy
      <4>2. ASSUME UNCHANGED messages PROVE FALSE
        <5>1. CASE Starts(t)
          BY <5>1 DEF Starts, NoRows
        <5>2. CASE Lists(t)
          BY <2>2, <5>2 DEF Lists
        <5>3. CASE ~Starts(t) /\ ~Lists(t)
          <6>1. task[t] # None /\ task[t].kind = "sync" /\ task'[t].listed = task[t].listed
            BY <5>3, SyncCases DEF AdvancesReceiving, GapFor
          <6> QED BY <2>2, <4>1, <6>1, KindIs
        <5> QED BY <5>1, <5>2, <5>3
      <4> QED BY <4>2, MessagesChange
    <3>3. task[u].kind = "send" /\ Others(u) /\ task[u] # None
      BY <3>2, KindIs, ActsAlone DEF Delivers, Sending
    <3>4. t # u
      BY <3>1, <3>2, <3>3 DEF Delivers, Stays
    <3>5. task'[t] = task[t]
      BY <3>3, <3>4 DEF Others
    <3>6. i \in DOMAIN messages
      BY <3>1, <3>5, KindIs DEF FoundInv, FoundBy
    <3> QED BY <2>2, <3>6
  <2> QED BY <2>1, <2>2
<1> QED BY <1>8, <1>9, <1>10 DEF OwnInv, Dev

--------------------------------------------------------------------------------
(* HandInv is inductive.                                                    *)

\* Which step brings a call where it is.
LEMMA Arrives ==
    ASSUME Steps, NEW t \in Tasks, task'[t] # None, task'[t] # task[t]
    PROVE  /\ task'[t].at = "deriving" => Quiet(t)
           /\ task'[t].at = "encrypting" => Starts(t) \/ RegistersIn(t, "deriving", "encrypting")
           /\ task'[t].at = "advancing" => ReadsSending(t)
           /\ task'[t].at = "creating" => AdvancesSending(t)
           /\ task'[t].at = "delivering" => AdvancesSending(t) \/ Quiet(t)
           /\ task'[t].at = "remembering" => Delivers(t) \/ RegistersIn(t, "registering", "remembering")
           /\ task'[t].at = "completing" => LooksUp(t)
           /\ task'[t].at = "consuming" => Completes(t)
           /\ task'[t].at = "registering" => Completes(t) \/ Consumes(t)
           /\ task'[t].at = "decrypting" => LooksUp(t) \/ Remembers(t)
           /\ task'[t].at = "opening" => ReadsReceiving(t)
<1>1. Starts(t) \/ Proceeds(t)
  BY Moved
<1>2. CASE Starts(t)
  BY <1>2 DEF Starts
<1>3. CASE Quiet(t) \/ Fetches(t) \/ RegistersIn(t, "deriving", "encrypting") \/ RegistersIn(t, "registering", "remembering")
  BY <1>3 DEF Quiet, Fetches, RegistersIn, Turns, Ensuring
<1>4. CASE ReadsSending(t) \/ AdvancesSending(t) \/ Delivers(t) \/ Remembers(t) \/ LoadsHistory(t) \/ StoresHistory(t)
  BY <1>4 DEF ReadsSending, AdvancesSending, Delivers, Remembers, LoadsHistory, StoresHistory, Turns
<1>5. CASE Lists(t) \/ LooksUp(t) \/ Completes(t) \/ Fails(t) \/ Consumes(t) \/ ReadsReceiving(t) \/ AdvancesReceiving(t)
  BY <1>5 DEF Lists, LooksUp, Completes, Fails, Consumes, ReadsReceiving, AdvancesReceiving, Turns, GapFor
<1> QED BY <1>1, <1>2, <1>3, <1>4, <1>5 DEF Proceeds

\* What a call has in hand is there.
LEMMA InHand ==
    ASSUME TypeOK, StageInv, NEW t \in Tasks, task[t] # None
    PROVE  /\ task[t].at \in Receiving => task[t].id \in DOMAIN messages
           /\ task[t].at \in Holding => task[t].handle \in Handles /\ ratchet[task[t].handle].owner = task[t].dev
           /\ task[t].handle # 0 => task[t].handle \in Handles
BY DEF StageInv, Staged, TypeOK

\* Every step keeps HandInv.
LEMMA HandKept ==
    ASSUME TypeOK, StageInv, Grows, HandInv, Steps
    PROVE  HandInv'
<1> USE DEF Receiving, Holding
<1>1. \A i \in DOMAIN messages : /\ i \in DOMAIN messages' /\ messages'[i] = messages[i] /\ SecretOf(i)' = SecretOf(i)
  BY MessagesStay
<1>2. \A h \in Handles : ratchet'[h].secret = ratchet[h].secret
  BY DEF Grows
<1>3. \A p \in Participants : cached[p] # 0 => cached[p] \in Handles
  BY DEF TypeOK
<1>4. ASSUME NEW p \in Participants, cached'[p] # 0
      PROVE  \E i \in DOMAIN messages' : SecretOf(i)' = ratchet'[cached'[p]].secret
  <2>1. CASE cached'[p] = cached[p]
    BY <1>1, <1>2, <1>3, <1>4, <2>1 DEF HandInv
  <2>2. CASE cached'[p] # cached[p]
    <3>1. PICK t \in Tasks : Remembers(t)
      BY <2>2, CachedChange
    <3>2. task[t] # None /\ task[t].at = "remembering" /\ cached'[p] = task[t].handle
      BY <2>2, <3>1 DEF Remembers
    <3>3. task[t].id \in DOMAIN messages /\ task[t].handle \in Handles
      BY <3>2, InHand
    <3> QED BY <1>1, <1>2, <3>2, <3>3 DEF HandInv
  <2> QED BY <2>1, <2>2
<1>5. ASSUME NEW t \in Tasks, task'[t] # None, task'[t].at \in {"completing", "consuming", "registering"}
      PROVE  messages'[task'[t].id].payload /\ SecretOf(task[t].id)' = task'[t].secret
  <2>1. ASSUME task[t] # None, task[t].at \in {"completing", "consuming", "registering"}, task'[t].id = task[t].id,
               task'[t].secret = task[t].secret
        PROVE  messages'[task'[t].id].payload /\ SecretOf(task[t].id)' = task'[t].secret
    BY <1>1, <2>1, InHand DEF HandInv, SecretOf
  <2>2. CASE task'[t] = task[t]
    BY <1>5, <2>1, <2>2
  <2>3. CASE task'[t] # task[t]
    <3>1. LooksUp(t) \/ Completes(t) \/ Consumes(t)
      BY <1>5, <2>3, Arrives
    <3>2. CASE LooksUp(t)
      BY <1>5, <3>2 DEF LooksUp, chains, SecretOf, GapFor
    <3>3. CASE Completes(t) \/ Consumes(t)
      BY <1>5, <2>1, <3>3 DEF Completes, Consumes, Turns, GapFor, Same, Grips, Finds
    <3> QED BY <3>1, <3>2, <3>3
  <2> QED BY <2>2, <2>3
<1>6. ASSUME NEW t \in Tasks, task'[t] # None, task'[t].at = "remembering"
      PROVE  /\ SecretOf(task[t].id)' = ratchet'[task'[t].handle].secret
             /\ task'[t].fresh => messages'[task'[t].id].payload
             /\ task'[t].kind = "sync" => task'[t].fresh
  <2>1. CASE task'[t] = task[t]
    <3>1. task[t].id \in DOMAIN messages /\ task[t].handle \in Handles
      BY <1>6, <2>1, InHand
    <3> QED BY <1>1, <1>2, <1>6, <2>1, <3>1 DEF HandInv, SecretOf
  <2>2. CASE task'[t] # task[t]
    <3>1. CASE Delivers(t)
      <4>1. task[t].kind = "send" /\ task'[t].kind = "send"
        BY <1>6, <3>1, KindIs DEF Delivers, Sending, Stays
      <4> QED BY <1>6, <3>1, <4>1 DEF Delivers, Grips, SecretOf
    <3>2. CASE RegistersIn(t, "registering", "remembering")
      <4>1. task[t] # None /\ task[t].at = "registering" /\ task[t].id \in DOMAIN messages
        BY <3>2, InHand DEF RegistersIn, Turns
      <4> QED BY <1>1, <3>2, <4>1 DEF RegistersIn, Finds, HandInv, SecretOf
    <3> QED BY <1>6, <2>2, <3>1, <3>2, Arrives
  <2> QED BY <2>1, <2>2
<1>7. ASSUME NEW t \in Tasks, task'[t] # None, task'[t].at \in {"decrypting", "opening"}
      PROVE  \E i \in DOMAIN messages' : SecretOf(i)' = ratchet'[task'[t].handle].secret
  <2>1. ASSUME task[t] # None, task[t].at \in {"decrypting", "opening"}, task'[t].handle = task[t].handle
        PROVE  \E i \in DOMAIN messages' : SecretOf(i)' = ratchet'[task'[t].handle].secret
    <3>1. task[t].handle \in Handles
      BY <2>1, InHand
    <3> QED BY <1>1, <1>2, <2>1, <3>1 DEF HandInv
  <2>2. CASE task'[t] = task[t]
    BY <1>7, <2>1, <2>2
  <2>3. CASE task'[t] # task[t]
    <3>1. CASE LooksUp(t)
      <4>1. task[t].dev \in Participants /\ task'[t].handle = cached[task[t].dev] /\ task'[t].handle # 0
        BY <1>7, <3>1, TaskFields DEF LooksUp, GapFor
      <4> QED BY <1>1, <1>2, <1>3, <4>1 DEF HandInv
    <3>2. CASE Remembers(t)
      <4>1. task[t].id \in DOMAIN messages /\ task[t].handle \in Handles /\ task'[t].handle = task[t].handle
            /\ SecretOf(task[t].id) = ratchet[task[t].handle].secret
        BY <3>2, InHand DEF Remembers, Same, Grips, HandInv
      <4> QED BY <1>1, <1>2, <4>1
    <3>3. CASE ReadsReceiving(t)
      BY <1>7, <2>1, <3>3 DEF ReadsReceiving, GapFor, Grips
    <3> QED BY <1>7, <2>3, <3>1, <3>2, <3>3, Arrives
  <2> QED BY <2>2, <2>3
<1> QED BY <1>4, <1>5, <1>6, <1>7 DEF HandInv

--------------------------------------------------------------------------------
(* PrivateInv is inductive.                                                 *)

\* The handle a call comes to have is its own, a new one, or the session map's.
LEMMA HandleComes ==
    ASSUME TypeOK, Steps, NEW t \in Tasks, task'[t] # None
    PROVE  \/ task[t] # None /\ task'[t].handle = task[t].handle
           \/ task'[t].handle = 0 \/ task'[t].handle = Len(ratchet) + 1
           \/ \E p \in Participants : task'[t].handle = cached[p]
<1>1. CASE task'[t] = task[t]
  BY <1>1
<1>2. CASE task'[t] # task[t]
  <2>1. Starts(t) \/ Proceeds(t)
    BY <1>2, Moved
  <2>2. CASE Starts(t)
    BY <2>2 DEF Starts
  <2>3. CASE LooksUp(t)
    <3>1. task[t].dev \in Participants
      BY <2>3, TaskFields DEF LooksUp
    <3> QED BY <2>3, <3>1 DEF LooksUp, GapFor, Grips
  <2>4. CASE ~Starts(t) /\ ~LooksUp(t)
    BY <1>2, <2>1, <2>4 DEF Proceeds, Quiet, Fetches, RegistersIn, Turns, ReadsSending, AdvancesSending, Delivers, Remembers,
     LoadsHistory, StoresHistory, Lists, Completes, Fails, Consumes, ReadsReceiving, AdvancesReceiving, Same, Grips, GapFor
  <2> QED BY <2>2, <2>3, <2>4
<1> QED BY <1>1, <1>2

\* A message of a session means that its initiator has registered it.
LEMMA InitiatorRegistered ==
    ASSUME TypeOK, SessionsInv, EndsInv, NEW i \in DOMAIN messages
    PROVE  Registered(handshakes[SecretOf(i)].by, SecretOf(i))
<1>1. CASE SenderOf(i) = handshakes[SecretOf(i)].by
  BY <1>1 DEF EndsInv
<1>2. CASE SenderOf(i) # handshakes[SecretOf(i)].by
  <2>1. PICK j \in 1..(i - 1) : messages[j].payload /\ SecretOf(j) = SecretOf(i)
    BY <1>2 DEF EndsInv
  <2>2. j \in DOMAIN messages
    BY MessageType, LenProperties DEF TypeOK
  <2>3. SenderOf(j) = handshakes[SecretOf(j)].by
    BY <2>1, <2>2 DEF SessionsInv, SenderOf, SecretOf
  <2> QED BY <2>1, <2>2, <2>3 DEF EndsInv
<1> QED BY <1>1, <1>2

\* No two handles share a secret that no message has shown yet.
LEMMA UnshownSecret ==
    ASSUME TypeOK, SessionsInv, EndsInv, NEW g \in Handles, NEW h \in Handles, ratchet[g].secret = ratchet[h].secret,
           \A i \in DOMAIN messages : SecretOf(i) # ratchet[h].secret
    PROVE  g = h
BY DEF EndsInv

\* Every step keeps PrivateInv.
LEMMA PrivateKept ==
    ASSUME TypeOK, StageInv, SessionsInv, RegistrationInv, Grows, HandInv, PrivateInv, EndsInv, Steps
    PROVE  PrivateInv'
<1> USE DEF Holding, Undelivered
<1>1. \A p \in Participants : cached[p] \in {0} \cup Handles
  BY DEF TypeOK
<1>2. Len(ratchet) \in Nat /\ Handles = 1..Len(ratchet)
  BY LenProperties DEF TypeOK, Handles
<1>3. \A u \in Tasks : task[u] # None => task[u].handle \in {0} \cup Handles
  BY DEF TypeOK
<1>4. \A h \in Handles : ratchet'[h].secret = ratchet[h].secret
  BY DEF Grows
<1>5. ASSUME NEW t \in Tasks, Private(t), task'[t] = task[t]
      PROVE  /\ \A p \in Participants : cached'[p] # task[t].handle
             /\ \A u \in Tasks \ {t} : task'[u] # None => task'[u].handle # task[t].handle
             /\ ratchet'[task[t].handle].received = 0
             /\ ratchet'[task[t].handle].sent = ratchet[task[t].handle].sent
             /\ task[t].at \in Undelivered => \A i \in DOMAIN messages' : SecretOf(i)' # ratchet[task[t].handle].secret
  <2>1. task[t].handle \in Handles /\ task[t].handle # 0 /\ task[t].handle # Len(ratchet) + 1 /\ task[t] # None
    BY <1>2, <1>5, InHand DEF Private
  <2>2. \A p \in Participants : cached'[p] # task[t].handle
    <3>1. ASSUME NEW u \in Tasks, Remembers(u), NEW p \in Participants PROVE cached'[p] # task[t].handle
      <4>1. u # t /\ task[u] # None
        BY <1>5, <3>1 DEF Remembers
      <4> QED BY <1>5, <3>1, <4>1 DEF Remembers, PrivateInv
    <3> QED BY <1>5, <3>1, CachedChange DEF PrivateInv
  <2>3. \A u \in Tasks \ {t} : task'[u] # None => task'[u].handle # task[t].handle
    BY <1>5, <2>1, HandleComes DEF PrivateInv
  <2>4. ratchet'[task[t].handle] = ratchet[task[t].handle]
    <3>1. ASSUME NEW u \in Tasks, AdvancesSending(u) \/ AdvancesReceiving(u)
          PROVE  ratchet'[task[t].handle] = ratchet[task[t].handle]
      <4>1. u # t /\ task[u] # None
        BY <1>5, <2>1, <3>1 DEF AdvancesSending, AdvancesReceiving, Private
      <4>2. task[u].handle # task[t].handle
        BY <1>5, <4>1 DEF PrivateInv
      <4> QED BY <2>1, <3>1, <4>2 DEF AdvancesSending, AdvancesReceiving
    <3>2. ASSUME NEW u \in Tasks, RegistersIn(u, "deriving", "encrypting") \/ RegistersIn(u, "registering", "remembering")
          PROVE  ratchet'[task[t].handle] = ratchet[task[t].handle]
      BY <2>1, <3>2 DEF RegistersIn
    <3> QED BY <3>1, <3>2, HandlesChange
  <2>5. ASSUME task[t].at \in Undelivered, NEW i \in DOMAIN messages'
        PROVE  SecretOf(i)' # ratchet[task[t].handle].secret
    <3>1. \A j \in DOMAIN messages : SecretOf(j) # ratchet[task[t].handle].secret
      BY <1>5, <2>5 DEF PrivateInv
    <3>2. ASSUME NEW u \in Tasks, Delivers(u) PROVE SecretOf(i)' # ratchet[task[t].handle].secret
      <4>1. u # t /\ task[u] # None /\ task[u].handle \in Handles
        BY <1>5, <3>2, InHand DEF Delivers, Stays
      <4>2. ratchet[task[u].handle].secret # ratchet[task[t].handle].secret
        BY <1>5, <2>1, <3>1, <4>1, UnshownSecret DEF PrivateInv
      <4> QED BY <3>1, <3>2, <4>2 DEF Delivers, SecretOf
    <3> QED BY <3>1, <3>2, MessagesChange DEF SecretOf
  <2> QED BY <1>5, <2>2, <2>3, <2>4, <2>5 DEF PrivateInv
<1>6. ASSUME NEW t \in Tasks, task'[t] # task[t],
             RegistersIn(t, "deriving", "encrypting") \/ RegistersIn(t, "registering", "remembering")
      PROVE  /\ \A p \in Participants : cached'[p] # task'[t].handle
             /\ \A u \in Tasks \ {t} : task'[u] # None => task'[u].handle # task'[t].handle
             /\ ratchet'[task'[t].handle].received = 0
             /\ ratchet'[task'[t].handle].sent = 0
             /\ task'[t].at = "encrypting" \/ task'[t].at = "remembering"
             /\ task'[t].at = "encrypting" => \A i \in DOMAIN messages' : SecretOf(i)' # ratchet'[task'[t].handle].secret
  <2>1. /\ task[t] # None /\ task'[t].handle = Len(ratchet) + 1 /\ UNCHANGED <<messages, cached>> /\ Others(t)
        /\ ratchet'[Len(ratchet) + 1].secret = task[t].secret
        /\ ratchet'[Len(ratchet) + 1].sent = 0 /\ ratchet'[Len(ratchet) + 1].received = 0
    BY <1>6 DEF RegistersIn, Turns
  <2>2. (\A p \in Participants : cached'[p] # task'[t].handle)
        /\ \A u \in Tasks \ {t} : task'[u] # None => task'[u].handle # task'[t].handle
    BY <1>1, <1>2, <1>3, <2>1 DEF Others
  <2>3. ASSUME task'[t].at = "encrypting", NEW i \in DOMAIN messages, SecretOf(i) = task[t].secret PROVE FALSE
    <3>1. Initiating(t)
      <4>1. task[t].at = "deriving" /\ task[t] # None
        BY <1>6, <2>3 DEF RegistersIn, Turns
      <4> QED BY <4>1, KindIs DEF Initiating, Sending
    <3>2. handshakes[task[t].secret].by = Dev(t)
      BY <3>1, RegisteringFacts
    <3>3. ~Registered(Dev(t), task[t].secret)
      BY <3>1 DEF RegistrationInv, InitiatingInv
    <3> QED BY <2>3, <3>2, <3>3, InitiatorRegistered
  <2> QED BY <1>6, <2>1, <2>2, <2>3 DEF RegistersIn, Turns, SecretOf
<1>7. ASSUME NEW t \in Tasks, task'[t] # None, task'[t] # task[t], task[t] # None, Private(t),
             UNCHANGED cached, Others(t), task'[t].handle = task[t].handle,
             ratchet'[task[t].handle].received = ratchet[task[t].handle].received
      PROVE  /\ \A p \in Participants : cached'[p] # task'[t].handle
             /\ \A u \in Tasks \ {t} : task'[u] # None => task'[u].handle # task'[t].handle
             /\ ratchet'[task'[t].handle].received = 0
  BY <1>7 DEF PrivateInv, Others
<1> SUFFICES ASSUME NEW t \in Tasks, Private(t)'
             PROVE  /\ \A p \in Participants : cached'[p] # task'[t].handle
                    /\ \A u \in Tasks \ {t} : task'[u] # None => task'[u].handle # task'[t].handle
                    /\ ratchet'[task'[t].handle].received = 0
                    /\ task'[t].at = "encrypting" => ratchet'[task'[t].handle].sent = 0
                    /\ task'[t].at \in {"advancing", "creating", "delivering"} => task'[t].position = 0
                    /\ task'[t].at \in Undelivered => \A i \in DOMAIN messages' : SecretOf(i)' # ratchet'[task'[t].handle].secret
  BY DEF PrivateInv
<1>8. CASE task'[t] = task[t]
  <2>1. Private(t)
    BY <1>8 DEF Private
  <2>2. task[t].handle \in Handles
    BY <2>1, InHand DEF Private
  <2> QED BY <1>4, <1>5, <1>8, <2>1, <2>2 DEF PrivateInv
<1>9. CASE task'[t] # task[t]
  <2>1. task'[t] # None /\ task'[t].fresh /\ task'[t].at \in Undelivered \cup {"remembering"}
    BY DEF Private
  <2>2. CASE RegistersIn(t, "deriving", "encrypting") \/ RegistersIn(t, "registering", "remembering")
    BY <1>6, <1>9, <2>2
  <2>3. CASE ReadsSending(t)
    <3>1. /\ task[t] # None /\ Private(t) /\ task[t].handle = task'[t].handle /\ task[t].at = "encrypting"
          /\ task'[t].at = "advancing" /\ UNCHANGED <<chains, cached>> /\ task'[t].position = ratchet[task[t].handle].sent
      BY <2>1, <2>3 DEF ReadsSending, Turns, Private, Grips
    <3> QED BY <1>7, <1>9, <2>1, <2>3, <3>1, ActsAlone DEF PrivateInv, ReadsSending, chains, SecretOf
  <2>4. CASE AdvancesSending(t)
    <3>1. /\ task[t] # None /\ Private(t) /\ task[t].handle = task'[t].handle /\ task[t].at = "advancing"
          /\ task'[t].at \in {"creating", "delivering"} /\ UNCHANGED <<messages, cached>> /\ task'[t].position = task[t].position
          /\ Others(t) /\ task[t].handle \in Handles /\ ratchet'[task[t].handle].received = ratchet[task[t].handle].received
      BY <2>1, <2>4 DEF AdvancesSending, Private, Grips, Same
    <3> QED BY <1>4, <1>7, <1>9, <2>1, <3>1 DEF PrivateInv, SecretOf
  <2>5. CASE Quiet(t) /\ task'[t].at = "delivering"
    <3>1. /\ task[t] # None /\ Private(t) /\ task[t].handle = task'[t].handle /\ task[t].at = "creating"
          /\ UNCHANGED <<chains, cached>> /\ task'[t].position = task[t].position /\ Others(t)
      BY <2>1, <2>5 DEF Quiet, Private, Grips, Same, Ensuring
    <3> QED BY <1>7, <1>9, <2>1, <2>5, <3>1 DEF PrivateInv, chains, SecretOf
  <2>6. CASE Delivers(t)
    <3>1. /\ task[t] # None /\ Private(t) /\ task[t].handle = task'[t].handle /\ task'[t].at = "remembering"
          /\ UNCHANGED <<ratchet, cached>> /\ Others(t)
      BY <2>1, <2>6 DEF Delivers, Private, Grips
    <3> QED BY <1>7, <1>9, <2>1, <3>1
  <2>7. ~Starts(t)
    BY <2>1 DEF Starts
  <2> QED BY <1>9, <2>1, <2>2, <2>3, <2>4, <2>5, <2>6, <2>7, Arrives
<1> QED BY <1>8, <1>9

--------------------------------------------------------------------------------
(* FirstInv is inductive.                                                   *)

\* A chain that has moved stays moved.
LEMMA SentStays ==
    ASSUME TypeOK, Steps, NEW h \in Handles, ratchet[h].sent > 0
    PROVE  ratchet'[h].sent > 0
<1>1. ASSUME NEW t \in Tasks, AdvancesSending(t) PROVE ratchet'[h].sent > 0
  <2>1. task[t].position \in Nat
    BY <1>1, TaskFields DEF AdvancesSending
  <2> QED BY <1>1, <2>1 DEF AdvancesSending
<1>2. ASSUME NEW t \in Tasks, AdvancesReceiving(t) PROVE ratchet'[h].sent > 0
  BY <1>2 DEF AdvancesReceiving
<1>3. ASSUME NEW t \in Tasks, RegistersIn(t, "deriving", "encrypting") \/ RegistersIn(t, "registering", "remembering")
      PROVE  ratchet'[h].sent > 0
  BY <1>3 DEF RegistersIn
<1> QED BY <1>1, <1>2, <1>3, HandlesChange

\* Who initiated a session stays who did.
LEMMA InitiatesStays ==
    ASSUME TypeOK, SessionsInv, Grows, NEW h \in Handles
    PROVE  Initiates(h)' <=> Initiates(h)
<1>1. /\ ratchet[h].secret \in DOMAIN handshakes /\ ratchet'[h].owner = ratchet[h].owner
      /\ ratchet'[h].secret = ratchet[h].secret
      /\ handshakes'[ratchet[h].secret] = handshakes[ratchet[h].secret]
  BY HandleFacts DEF Grows
<1> QED BY <1>1 DEF Initiates

\* Who initiated the session of a message stays, too.
LEMMA ByStays ==
    ASSUME TypeOK, SessionsInv, Grows, NEW i \in DOMAIN messages
    PROVE  /\ SecretOf(i) \in DOMAIN handshakes /\ handshakes'[SecretOf(i)] = handshakes[SecretOf(i)]
           /\ handshakes[SecretOf(i)] \in Handshake
<1>1. SecretOf(i) \in DOMAIN handshakes
  BY DEF SessionsInv, SecretOf
<1>2. handshakes[SecretOf(i)] \in Handshake
  BY <1>1, LenProperties, ElementOfSeq DEF TypeOK
<1> QED BY <1>1, <1>2 DEF Grows

\* Every step keeps FirstInv.
LEMMA FirstKept ==
    ASSUME TypeOK, StageInv, SessionsInv, Grows, FoundInv, HandInv, PrivateInv, FirstInv, Steps
    PROVE  FirstInv'
<1> USE DEF Holding, Undelivered
<1>1. ASSUME NEW i \in DOMAIN messages
      PROVE  (messages[i].payload <=> SenderOf(i) = handshakes[SecretOf(i)].by /\ PositionOf(i) = 0)'
  <2>1. /\ messages'[i] = messages[i] /\ SenderOf(i)' = SenderOf(i) /\ PositionOf(i)' = PositionOf(i)
        /\ (handshakes[SecretOf(i)])' = handshakes[SecretOf(i)]
    BY MessagesStay, ByStays DEF SecretOf
  <2> QED BY <2>1 DEF FirstInv
<1>2. ASSUME NEW i \in DOMAIN messages', i \notin DOMAIN messages
      PROVE  (messages[i].payload <=> SenderOf(i) = handshakes[SecretOf(i)].by /\ PositionOf(i) = 0)'
  <2>1. PICK t \in Tasks : Delivers(t)
    BY <1>2, MessagesChange
  <2>2. PICK h \in Handles : h = task[t].handle
    BY <2>1, InHand DEF Delivers
  <2>3. /\ messages'[i].payload = task[t].fresh /\ SenderOf(i)' = task[t].dev /\ PositionOf(i)' = task[t].position
        /\ SecretOf(i)' = ratchet[h].secret /\ handshakes' = handshakes /\ ratchet[h].owner = task[t].dev
    BY <1>2, <2>1, <2>2, InHand DEF Delivers, SenderOf, PositionOf, SecretOf
  <2>4. task[t] # None /\ task[t].at = "delivering" /\ task[t].kind = "send" /\ Staged(t)
        /\ task[t].fresh \in BOOLEAN /\ task[t].position \in Nat
    BY <2>1, KindIs, TaskFields DEF Delivers, Sending, StageInv, Task
  <2>5. CASE task[t].fresh
    <3>1. handshakes[ratchet[h].secret].by = task[t].dev
      BY <2>2, <2>4, <2>5 DEF Staged
    <3>2. task[t].position = 0
      BY <2>4, <2>5 DEF PrivateInv, Private
    <3> QED BY <2>3, <2>5, <3>1, <3>2
  <2>6. CASE ~task[t].fresh
    <3>1. Initiates(h) => task[t].position > 0
      BY <2>2, <2>4, <2>6 DEF FirstInv, Is
    <3> QED BY <2>3, <2>4, <2>6, <3>1 DEF Initiates
  <2> QED BY <2>4, <2>5, <2>6
<1>3. ASSUME NEW t \in Tasks, task[t] # None, task[t].at = "remembering", Initiates(task[t].handle)
      PROVE  ratchet[task[t].handle].sent > 0
  <2>1. CASE task[t].kind = "send"
    BY <1>3, <2>1 DEF FirstInv, Is
  <2>2. CASE task[t].kind # "send"
    <3>1. task[t].kind = "sync" /\ FoundBy(t) /\ task[t].id \in DOMAIN messages
          /\ ratchet[task[t].handle].owner = task[t].dev
      BY <1>3, <2>2, KindIs, InHand DEF Recording, FoundInv, Receiving
    <3>2. messages[task[t].id].payload /\ SecretOf(task[t].id) = ratchet[task[t].handle].secret
      BY <1>3, <3>1 DEF HandInv
    <3>3. handshakes[ratchet[task[t].handle].secret].by = SenderOf(task[t].id)
      BY <3>1, <3>2 DEF FirstInv
    <3>4. SenderOf(task[t].id) # task[t].dev
      BY <1>3, <3>1 DEF FoundBy, Receiving
    <3> QED BY <1>3, <3>1, <3>3, <3>4 DEF Initiates
  <2> QED BY <2>1, <2>2
<1>4. ASSUME NEW p \in Participants, NEW h \in Handles, cached'[p] = h, Initiates(h)
      PROVE  ratchet'[h].sent > 0
  <2>1. h # 0
    BY LenProperties DEF TypeOK, Handles
  <2>2. CASE cached[p] = h
    BY <1>4, <2>1, <2>2, SentStays DEF FirstInv
  <2>3. CASE cached[p] # h
    <3>1. PICK t \in Tasks : Remembers(t)
      BY <1>4, <2>3, CachedChange
    <3>2. task[t] # None /\ task[t].at = "remembering" /\ task[t].handle = h
      BY <1>4, <2>3, <3>1 DEF Remembers
    <3> QED BY <1>3, <1>4, <3>2, SentStays
  <2> QED BY <2>2, <2>3
<1>5. ASSUME NEW p \in Participants, cached'[p] # 0, Initiates(cached[p])'
      PROVE  (ratchet[cached[p]].sent > 0)'
  <2>1. PICK h : h = cached'[p]
    OBVIOUS
  <2>2. h \in Handles
    <3>1. CASE cached'[p] = cached[p]
      BY <1>5, <2>1, <3>1 DEF TypeOK
    <3>2. CASE cached'[p] # cached[p]
      <4>1. PICK t \in Tasks : Remembers(t)
        BY <3>2, CachedChange
      <4> QED BY <2>1, <3>2, <4>1, InHand DEF Remembers
    <3> QED BY <3>1, <3>2
  <2>3. Initiates(h)'
    BY <1>5, <2>1 DEF Initiates
  <2> QED BY <1>4, <2>1, <2>2, <2>3, InitiatesStays
<1>6. ASSUME NEW t \in Tasks, Is(t, "send")', task'[t].at \in {"creating", "delivering", "remembering"}
      PROVE  ratchet'[task'[t].handle].sent > 0
  <2>1. ASSUME Is(t, "send"), task[t].at \in {"creating", "delivering"} \/ (task[t].at = "remembering" /\ task'[t] = task[t]),
               task'[t].handle = task[t].handle
        PROVE  ratchet'[task'[t].handle].sent > 0
    <3>1. task[t].handle \in Handles
      BY <2>1, InHand DEF Is
    <3> QED BY <2>1, <3>1, SentStays DEF FirstInv
  <2>2. CASE task'[t] = task[t]
    BY <1>6, <2>1, <2>2 DEF Is
  <2>3. CASE task'[t] # task[t]
    <3>1. AdvancesSending(t) \/ (Quiet(t) /\ task'[t].at = "delivering") \/ Delivers(t) \/ RegistersIn(t, "registering", "remembering")
      BY <1>6, <2>3, Arrives DEF Is
    <3>2. CASE AdvancesSending(t)
      <4>1. task[t].position \in Nat
        BY <3>2, TaskFields DEF AdvancesSending
      <4> QED BY <3>2, <4>1 DEF AdvancesSending, Same, Grips
    <3>3. CASE Quiet(t) /\ task'[t].at = "delivering"
      BY <1>6, <2>1, <3>3 DEF Quiet, Same, Grips, Stays, Is, Ensuring
    <3>4. CASE Delivers(t)
      BY <1>6, <2>1, <3>4 DEF Delivers, Grips, Stays, Is
    <3>5. CASE RegistersIn(t, "registering", "remembering")
      BY <1>6, <3>5, KindIs DEF RegistersIn, Turns, Is, Syncing, Stays
    <3> QED BY <3>1, <3>2, <3>3, <3>4, <3>5
  <2> QED BY <2>2, <2>3
<1>7. ASSUME NEW t \in Tasks, Is(t, "send")', task'[t].at \in Undelivered, ~task'[t].fresh, Initiates(task[t].handle)'
      PROVE  /\ ratchet'[task'[t].handle].sent > 0
             /\ task'[t].at # "encrypting" => task'[t].position > 0
  <2>1. ASSUME Is(t, "send"), task[t].at \in Undelivered, ~task[t].fresh, task'[t].handle = task[t].handle
        PROVE  /\ ratchet[task[t].handle].sent > 0 /\ ratchet'[task'[t].handle].sent > 0
               /\ task[t].at # "encrypting" => task[t].position > 0
    <3>1. task[t].handle \in Handles
      BY <2>1, InHand DEF Is
    <3>2. Initiates(task[t].handle)
      BY <1>7, <2>1, <3>1, InitiatesStays DEF Initiates
    <3> QED BY <2>1, <3>1, <3>2, SentStays DEF FirstInv
  <2>2. CASE task'[t] = task[t]
    BY <1>7, <2>1, <2>2 DEF Is
  <2>3. CASE task'[t] # task[t]
    <3>1. CASE Starts(t)
      <4>1. PICK p \in Participants : p = task'[t].dev
        BY <3>1 DEF Starts
      <4>2. task'[t].at = "encrypting" /\ task'[t].handle = cached[p] /\ cached[p] # 0 /\ cached' = cached
        BY <1>7, <3>1, <4>1 DEF Starts, Is
      <4>3. Initiates(cached[p])'
        BY <1>7, <4>2 DEF Initiates
      <4> QED BY <1>5, <4>2, <4>3
    <3>2. CASE RegistersIn(t, "deriving", "encrypting")
      BY <1>7, <3>2 DEF RegistersIn
    <3>3. CASE ReadsSending(t)
      <4>1. Is(t, "send") /\ task[t].at = "encrypting" /\ ~task[t].fresh /\ task'[t].handle = task[t].handle
            /\ task'[t].position = ratchet[task[t].handle].sent
        BY <1>7, <3>3 DEF ReadsSending, Turns, Is, Stays, Grips
      <4> QED BY <2>1, <4>1
    <3>4. CASE AdvancesSending(t) \/ (Quiet(t) /\ task'[t].at = "delivering")
      <4>1. Is(t, "send") /\ task[t].at \in {"advancing", "creating"} /\ ~task[t].fresh /\ task'[t].handle = task[t].handle
            /\ task'[t].position = task[t].position
        BY <1>7, <3>4 DEF AdvancesSending, Quiet, Is, Same, Stays, Grips, Ensuring
      <4> QED BY <2>1, <4>1
    <3> QED BY <1>7, <2>3, <3>1, <3>2, <3>3, <3>4, Arrives DEF Is
  <2> QED BY <2>2, <2>3
<1>8. \A i \in DOMAIN messages' :
          (messages[i].payload <=> SenderOf(i) = handshakes[SecretOf(i)].by /\ PositionOf(i) = 0)'
  BY <1>1, <1>2
<1>9. \A p \in Participants : cached'[p] # 0 /\ Initiates(cached[p])' => (ratchet[cached[p]].sent > 0)'
  BY <1>5
<1>10. \A t \in Tasks : Is(t, "send")' =>
          /\ task'[t].at \in {"creating", "delivering", "remembering"} => ratchet'[task'[t].handle].sent > 0
          /\ task'[t].at \in Undelivered /\ ~task'[t].fresh /\ Initiates(task[t].handle)' =>
                /\ ratchet'[task'[t].handle].sent > 0
                /\ task'[t].at # "encrypting" => task'[t].position > 0
  BY <1>6, <1>7
<1> QED BY <1>8, <1>9, <1>10 DEF FirstInv

--------------------------------------------------------------------------------
(* EndsInv is inductive.                                                    *)

\* Who has registered a session stays so.
LEMMA RegisteredStays ==
    ASSUME Grows, NEW p \in Participants, NEW s, Registered(p, s)
    PROVE  Registered(p, s)'
BY DEF Grows, Registered

\* The session that a call registers: as initiator, or as responder.
LEMMA NewEnd ==
    ASSUME TypeOK, StageInv, SessionsInv, RegistrationInv, HandInv, NEW t \in Tasks,
           RegistersIn(t, "deriving", "encrypting") \/ RegistersIn(t, "registering", "remembering")
    PROVE  LET n == Len(ratchet) + 1
           IN  /\ task[t] # None /\ handshakes' = handshakes /\ messages' = messages
               /\ task[t].secret \in DOMAIN handshakes
               /\ ratchet'[n].owner = task[t].dev /\ ratchet'[n].secret = task[t].secret
               /\ RegistersIn(t, "deriving", "encrypting") =>
                     /\ handshakes[task[t].secret].by = task[t].dev
                     /\ ~Registered(task[t].dev, task[t].secret)
               /\ RegistersIn(t, "registering", "remembering") =>
                     /\ handshakes[task[t].secret].by # task[t].dev
                     /\ task[t].id \in DOMAIN messages /\ messages[task[t].id].payload
                     /\ SecretOf(task[t].id) = task[t].secret
<1>1. /\ task[t] # None /\ handshakes' = handshakes /\ messages' = messages
      /\ ratchet'[Len(ratchet) + 1].owner = task[t].dev /\ ratchet'[Len(ratchet) + 1].secret = task[t].secret
  BY DEF RegistersIn, Turns
<1>2. CASE RegistersIn(t, "deriving", "encrypting")
  <2>1. task[t].at = "deriving"
    BY <1>2 DEF RegistersIn, Turns
  <2>2. Initiating(t) /\ Dev(t) = task[t].dev
    BY <1>1, <2>1, KindIs DEF Initiating, Sending, Dev
  <2>3. ~Registered(Dev(t), task[t].secret)
    BY <2>2 DEF RegistrationInv, InitiatingInv
  <2> QED BY <1>1, <1>2, <2>1, <2>2, <2>3, RegisteringFacts DEF RegistersIn, Turns
<1>3. CASE RegistersIn(t, "registering", "remembering")
  <2>1. At(t, "registering") /\ Dev(t) = task[t].dev
    BY <1>3 DEF RegistersIn, Turns, At, Dev
  <2>2. task[t].id \in DOMAIN messages /\ messages[task[t].id].payload /\ SecretOf(task[t].id) = task[t].secret
    BY <2>1, InHand DEF HandInv, At, Receiving
  <2>3. ~RegistersIn(t, "deriving", "encrypting")
    BY <1>3 DEF RegistersIn, Turns
  <2> QED BY <1>1, <2>1, <2>2, <2>3, RegisteringFacts
<1> QED BY <1>2, <1>3

\* Every step keeps EndsInv.
LEMMA EndsKept ==
    ASSUME TypeOK, StageInv, SessionsInv, RegistrationInv, LockInv, Grows, HandInv, EndsInv, Steps
    PROVE  EndsInv'
<1> USE DEF Holding
<1>1. \A i \in DOMAIN messages : /\ i \in DOMAIN messages' /\ messages'[i] = messages[i] /\ SenderOf(i)' = SenderOf(i)
                                 /\ SecretOf(i)' = SecretOf(i) /\ SenderOf(i) \in Participants
                                 /\ handshakes'[SecretOf(i)] = handshakes[SecretOf(i)]
  BY MessagesStay, MessageType, ByStays
<1>2. \A h \in Handles : /\ h \in Handles' /\ ratchet'[h].secret = ratchet[h].secret /\ ratchet'[h].owner = ratchet[h].owner
                         /\ (Initiates(h)' <=> Initiates(h)) /\ ratchet[h] \in Session
  BY InitiatesStays, HandleFacts DEF Grows
<1>3. \A h \in Handles' \ Handles : \E t \in Tasks :
         /\ h = Len(ratchet) + 1
         /\ RegistersIn(t, "deriving", "encrypting") \/ RegistersIn(t, "registering", "remembering")
  <2>1. ASSUME UNCHANGED ratchet \/ \E t \in Tasks : AdvancesSending(t) \/ AdvancesReceiving(t) PROVE Handles' = Handles
    BY <2>1 DEF AdvancesSending, AdvancesReceiving, Handles
  <2> QED BY <2>1, HandlesChange DEF RegistersIn
<1>4. ASSUME NEW g \in Handles', NEW h \in Handles', Initiates(g)', Initiates(h)', ratchet'[g].secret = ratchet'[h].secret
      PROVE  g = h
  <2>1. ASSUME NEW x \in Handles, NEW n \in Handles' \ Handles, Initiates(x), Initiates(n)', ratchet'[n].secret = ratchet[x].secret
        PROVE  FALSE
    <3>1. PICK t \in Tasks : /\ n = Len(ratchet) + 1
                             /\ RegistersIn(t, "deriving", "encrypting") \/ RegistersIn(t, "registering", "remembering")
      BY <1>3
    <3>2. /\ handshakes' = handshakes /\ ratchet'[n].owner = task[t].dev /\ ratchet'[n].secret = task[t].secret
          /\ handshakes[task[t].secret].by = task[t].dev => ~Registered(task[t].dev, task[t].secret)
      BY <3>1, NewEnd
    <3>3. handshakes[task[t].secret].by = task[t].dev
      BY <2>1, <3>2 DEF Initiates
    <3>4. ratchet[x].owner = task[t].dev /\ ratchet[x].secret = task[t].secret
      BY <2>1, <3>2, <3>3 DEF Initiates
    <3> QED BY <3>2, <3>3, <3>4 DEF Registered
  <2>2. CASE g \in Handles /\ h \in Handles
    BY <1>2, <1>4, <2>2 DEF EndsInv
  <2>3. CASE g \in Handles /\ h \notin Handles
    BY <1>2, <1>4, <2>1, <2>3
  <2>4. CASE g \notin Handles /\ h \in Handles
    BY <1>2, <1>4, <2>1, <2>4
  <2>5. CASE g \notin Handles /\ h \notin Handles
    BY <1>3, <2>5
  <2> QED BY <2>2, <2>3, <2>4, <2>5
<1>5. ASSUME NEW h \in Handles', ~Initiates(h)'
      PROVE  \E i \in DOMAIN messages' : messages'[i].payload /\ SecretOf(i)' = ratchet'[h].secret
  <2>1. CASE h \in Handles
    BY <1>1, <1>2, <1>5, <2>1 DEF EndsInv
  <2>2. CASE h \notin Handles
    <3>1. PICK t \in Tasks : /\ h = Len(ratchet) + 1
                             /\ RegistersIn(t, "deriving", "encrypting") \/ RegistersIn(t, "registering", "remembering")
      BY <1>3, <2>2
    <3>2. ~RegistersIn(t, "deriving", "encrypting")
      BY <1>5, <3>1, NewEnd DEF Initiates
    <3> QED BY <1>1, <3>1, <3>2, NewEnd
  <2> QED BY <2>1, <2>2
<1>6. ASSUME NEW h \in Handles', ratchet'[h].received > 0
      PROVE  \E i \in DOMAIN messages' :
                messages'[i].key = <<ratchet'[h].secret, Peer(ratchet'[h].owner), ratchet'[h].received - 1>>
  <2>1. CASE h \in Handles /\ ratchet'[h].received = ratchet[h].received
    <3>1. PICK i \in DOMAIN messages : messages[i].key = <<ratchet[h].secret, Peer(ratchet[h].owner), ratchet[h].received - 1>>
      BY <1>6, <2>1 DEF EndsInv
    <3>2. i \in DOMAIN messages' /\ messages'[i] = messages[i]
      BY <1>1
    <3>3. ratchet'[h].secret = ratchet[h].secret /\ ratchet'[h].owner = ratchet[h].owner
      BY <1>2, <2>1
    <3> QED BY <2>1, <3>1, <3>2, <3>3
  <2>2. CASE h \notin Handles
    BY <1>3, <1>6, <2>2 DEF RegistersIn
  <2>3. CASE h \in Handles /\ ratchet'[h].received # ratchet[h].received
    <3>1. PICK t \in Tasks : AdvancesReceiving(t)
      BY <2>3, HandlesChange DEF RegistersIn, AdvancesSending
    <3>2. h = task[t].handle /\ ratchet'[h].received = task[t].position + 1 /\ task[t] # None /\ task[t].at = "opening"
          /\ messages' = messages
      BY <2>3, <3>1 DEF AdvancesReceiving
    <3>3. task[t].id \in DOMAIN messages /\ ratchet[h].owner = task[t].dev /\ task[t].position \in Nat
      BY <3>2, InHand, TaskFields DEF Receiving
    <3>4. messages[task[t].id].key = <<ratchet[h].secret, Peer(ratchet[h].owner), task[t].position>>
      BY <3>2, <3>3 DEF EndsInv, At, Dev
    <3> QED BY <1>2, <2>3, <3>2, <3>3, <3>4
  <2> QED BY <2>1, <2>2, <2>3
<1>7. ASSUME NEW i \in DOMAIN messages'
      PROVE  /\ Registered(SenderOf(i), SecretOf(i))'
             /\ SenderOf(i)' # (handshakes[SecretOf(i)].by)' =>
                   \E j \in 1..(i - 1) : messages'[j].payload /\ SecretOf(j)' = SecretOf(i)'
  <2>1. CASE i \in DOMAIN messages
    <3>1. Registered(SenderOf(i), SecretOf(i))
      BY <2>1 DEF EndsInv
    <3>2. Registered(SenderOf(i), SecretOf(i))'
      BY <1>1, <1>2, <2>1, <3>1 DEF Registered
    <3>3. 1..(i - 1) \subseteq DOMAIN messages
      BY <2>1, MessageType, LenProperties DEF TypeOK
    <3>4. (handshakes[SecretOf(i)].by)' = handshakes[SecretOf(i)].by
      BY <1>1, <2>1 DEF SecretOf
    <3> QED BY <1>1, <2>1, <3>2, <3>3, <3>4 DEF EndsInv
  <2>2. CASE i \notin DOMAIN messages
    <3>1. PICK t \in Tasks : Delivers(t)
      BY <2>2, MessagesChange
    <3>2. PICK h \in Handles : h = task[t].handle
      BY <3>1, InHand DEF Delivers
    <3>3. /\ i = Len(messages) + 1 /\ SenderOf(i)' = task[t].dev /\ SecretOf(i)' = ratchet[h].secret
          /\ handshakes' = handshakes /\ ratchet' = ratchet /\ ratchet[h].owner = task[t].dev
          /\ (handshakes[SecretOf(i)].by)' = handshakes[ratchet[h].secret].by
      BY <2>2, <3>1, <3>2, InHand DEF Delivers, SenderOf, SecretOf
    <3>4. Registered(SenderOf(i), SecretOf(i))'
      BY <1>2, <3>2, <3>3 DEF Registered
    <3>5. ASSUME task[t].dev # handshakes[ratchet[h].secret].by
          PROVE  \E j \in 1..(i - 1) : messages'[j].payload /\ SecretOf(j)' = ratchet[h].secret
      <4>1. PICK j \in DOMAIN messages : messages[j].payload /\ SecretOf(j) = ratchet[h].secret
        BY <3>3, <3>5 DEF EndsInv, Initiates
      <4>2. j \in 1..(i - 1)
        BY <3>3, LenProperties DEF TypeOK
      <4> QED BY <1>1, <4>1, <4>2
    <3> QED BY <3>3, <3>4, <3>5
  <2> QED BY <2>1, <2>2
<1>8. ASSUME NEW s \in DOMAIN handshakes'
      PROVE  handshakes'[s].signed \in signedPrekeys'[Responder(s)']
  <2>1. Kept
    BY SignedStay
  <2>2. CASE s \in DOMAIN handshakes
    <3>1. handshakes'[s] = handshakes[s] /\ handshakes[s].signed \in signedPrekeys[Responder(s)]
      BY <2>2 DEF Grows, EndsInv
    <3>2. handshakes[s] \in Handshake
      BY <2>2, LenProperties, ElementOfSeq DEF TypeOK
    <3>3. Responder(s) \in Participants /\ Responder(s)' = Responder(s)
      BY <3>1, <3>2, PeerProperties DEF Responder, Handshake
    <3> QED BY <2>1, <3>1, <3>3 DEF Kept
  <2>3. CASE s \notin DOMAIN handshakes
    <3>1. PICK t \in Tasks : Fetches(t)
      BY <2>3, HandshakesChange
    <3>2. s = Len(handshakes) + 1 /\ handshakes'[s].by = task[t].dev
          /\ handshakes'[s].signed \in signedPrekeys[Peer(task[t].dev)] /\ task[t].dev \in Participants
      BY <2>3, <3>1, TaskFields DEF Fetches
    <3>3. Responder(s)' = Peer(task[t].dev) /\ Peer(task[t].dev) \in Participants
      BY <3>2, PeerProperties DEF Responder
    <3> QED BY <2>1, <3>2, <3>3 DEF Kept
  <2> QED BY <2>2, <2>3
<1>9. ASSUME NEW t \in Tasks, At(t, "opening")'
      PROVE  /\ task'[t].position = ratchet'[task'[t].handle].received
             /\ messages'[task'[t].id].key = <<ratchet'[task'[t].handle].secret, Peer(task'[t].dev), task'[t].position>>
  <2>1. CASE task'[t] = task[t]
    <3>1. PICK h \in Handles : h = task[t].handle
      BY <1>9, <2>1, InHand DEF At
    <3>2. At(t, "opening") /\ task[t].id \in DOMAIN messages
      BY <1>9, <2>1, InHand DEF At, Receiving
    <3>3. ratchet'[h].received = ratchet[h].received
      <4>1. ASSUME NEW u \in Tasks, AdvancesReceiving(u), task[u].handle = h PROVE FALSE
        <5>1. At(u, "opening")
          BY <4>1 DEF AdvancesReceiving, At
        <5>2. u = t
          BY <3>1, <3>2, <4>1, <5>1 DEF LockInv, Chaining
        <5> QED BY <2>1, <3>2, <4>1, <5>2 DEF AdvancesReceiving, At
      <4> QED BY <4>1, HandlesChange DEF AdvancesReceiving, AdvancesSending, RegistersIn
    <3> QED BY <1>1, <1>2, <2>1, <3>1, <3>2, <3>3 DEF EndsInv, Dev
  <2>2. CASE task'[t] # task[t]
    <3>1. ReadsReceiving(t)
      BY <1>9, <2>2, Arrives DEF At
    <3> QED BY <1>9, <3>1 DEF ReadsReceiving, At, GapFor, Stays, Grips, Finds, chains
  <2> QED BY <2>1, <2>2
<1> QED BY <1>4, <1>5, <1>6, <1>7, <1>8, <1>9 DEF EndsInv, Dev

--------------------------------------------------------------------------------
(* OverlapInv is inductive.                                                 *)

\* A sync that has listed the messages has just done so, or keeps to its list.
LEMMA ListedCases ==
    ASSUME TypeOK, StageInv, Steps, NEW t \in Tasks, Listed(t)'
    PROVE  \/ Lists(t)
           \/ /\ Listed(t) /\ task'[t].dev = task[t].dev /\ task'[t].known = task[t].known
              /\ task'[t].listed = task[t].listed
<1>1. Is(t, "sync")' /\ ~Starts(t)
  BY DEF Listed, Is, Starts
<1>2. CASE ~Lists(t)
  <2>1. /\ task[t] # None /\ task[t].kind = "sync" /\ task'[t].dev = task[t].dev /\ task'[t].known = task[t].known
        /\ task'[t].listed = task[t].listed
    BY <1>1, <1>2, SyncCases DEF AdvancesReceiving, GapFor
  <2>2. task[t].at # "listing"
    <3>1. CASE task'[t] = task[t]
      BY <1>1, <3>1 DEF Listed
    <3>2. CASE task'[t] # task[t]
      BY <1>1, <1>2, <3>2, Moved DEF Is, Listed, Proceeds, Quiet, Fetches, RegistersIn, Turns, ReadsSending, AdvancesSending,
        Delivers, Remembers, LoadsHistory, StoresHistory, Lists, LooksUp, Completes, Fails, Consumes, ReadsReceiving,
        AdvancesReceiving, Same, Ensuring
    <3> QED BY <3>1, <3>2
  <2> QED BY <2>1, <2>2 DEF Listed
<1> QED BY <1>2

\* What a sync lists that another has in hand is lost.
LEMMA OverlapLoses ==
    ASSUME TypeOK, NEW t \in Tasks, NEW u \in Tasks \ {t}, Lists(t), Listed(u), task[u].dev = task[t].dev,
           NEW i \in task'[t].listed \ task[t].known, SenderOf(i) # task[t].dev,
           i \in task[u].listed \ task[u].known
    PROVE  Lost(task[t].dev, i)'
<1> DEFINE new == task'[t].listed \ task[t].known
<1>1. PICK p \in Participants : p = task[t].dev
  BY TaskFields DEF Lists, Turns
<1>2. SenderOf(i) \in Participants /\ i \in Ids
  BY MessageType DEF Lists
<1>3. SenderOf(i) = Peer(p)
  BY <1>1, <1>2, PeerDecides
<1>4. \A k \in Ids : k >= i => <<p, Peer(p), k>> \in From(p, SenderOf(i), i)
  BY <1>2, <1>3, MessagingAssumption DEF From, Ids
<1>5. From(p, SenderOf(i), i) \subseteq Overlaps(t, new)
  BY <1>1 DEF Overlaps, Dev, Listed
<1>6. Overlaps(t, new) \subseteq spoiled' /\ task'[t].dev = p
  BY <1>1 DEF Lists, Stays
<1>7. \A k \in Ids : k >= i => <<p, Peer(p), k>> \in spoiled'
  BY <1>4, <1>5, <1>6
<1> QED BY <1>6, <1>7 DEF Lost

\* Every step keeps OverlapInv.
LEMMA OverlapKept ==
    ASSUME TypeOK, StageInv, Grows, OverlapInv, Steps
    PROVE  OverlapInv'
<1> SUFFICES ASSUME NEW t \in Tasks, NEW u \in Tasks, t # u, Listed(t)', Listed(u)', task'[t].dev = task'[u].dev,
                    NEW i \in (task'[t].listed \cap task'[u].listed) \ (task'[t].known \cup task'[u].known),
                    SenderOf(i)' # task'[t].dev
             PROVE  Lost(task[t].dev, i)'
  BY DEF OverlapInv, Dev
<1>1. spoiled \subseteq spoiled'
  BY SpoiledStays
<1>2. ASSUME NEW v \in Tasks, Lists(v)
      PROVE  messages' = messages /\ Others(v) /\ task[v].dev = task'[v].dev /\ task[v].known = task'[v].known
  BY <1>2 DEF Lists, chains, Stays
<1>3. ASSUME NEW v \in Tasks, NEW w \in Tasks \ {v}, Lists(v), Listed(w)' PROVE Listed(w) /\ task'[w] = task[w]
  BY <1>2, <1>3 DEF Others, Listed
<1>4. CASE Lists(t)
  <2>1. Listed(u) /\ task'[u] = task[u] /\ messages' = messages /\ SenderOf(i)' = SenderOf(i)
    BY <1>2, <1>3, <1>4 DEF SenderOf
  <2> QED BY <1>2, <1>4, <2>1, OverlapLoses
<1>5. CASE Lists(u)
  <2>1. Listed(t) /\ task'[t] = task[t] /\ messages' = messages /\ SenderOf(i)' = SenderOf(i)
    BY <1>2, <1>3, <1>5 DEF SenderOf
  <2> QED BY <1>2, <1>5, <2>1, OverlapLoses
<1>6. CASE ~Lists(t) /\ ~Lists(u)
  <2>1. /\ Listed(t) /\ task'[t].dev = task[t].dev /\ task'[t].known = task[t].known /\ task'[t].listed = task[t].listed
        /\ Listed(u) /\ task'[u].dev = task[u].dev /\ task'[u].known = task[u].known /\ task'[u].listed = task[u].listed
    BY <1>6, ListedCases
  <2>2. i \in DOMAIN messages
    BY <2>1, KindIs DEF Listed
  <2>3. SenderOf(i)' = SenderOf(i)
    BY <2>2, MessagesStay
  <2>4. Lost(task[t].dev, i)
    BY <2>1, <2>3 DEF OverlapInv, Dev
  <2> QED BY <1>1, <2>1, <2>4 DEF Lost
<1> QED BY <1>4, <1>5, <1>6

--------------------------------------------------------------------------------
(* MissedInv is inductive.                                                  *)

\* What a sync lists without an earlier message of the sender's is lost.
LEMMA MissedLoses ==
    ASSUME TypeOK, NEW t \in Tasks, Lists(t),
           NEW j \in task'[t].listed \ task[t].known, SenderOf(j) # task[t].dev,
           NEW i \in 1..(j - 1), SenderOf(i) # task[t].dev, i \notin task[t].known \cup task'[t].listed
    PROVE  Lost(task[t].dev, j)'
<1> DEFINE new == task'[t].listed \ task[t].known
<1>1. PICK p \in Participants : p = task[t].dev
  BY TaskFields DEF Lists, Turns
<1>2. j \in DOMAIN messages /\ i \in DOMAIN messages
  <2>1. j \in DOMAIN messages /\ DOMAIN messages = 1..Len(messages) /\ Len(messages) \in Nat
    BY LenProperties DEF Lists, TypeOK
  <2> QED BY <2>1
<1>3. /\ SenderOf(j) \in Participants /\ j \in Ids /\ SenderOf(i) \in Participants
  BY <1>2, MessageType
<1>4. SenderOf(j) = Peer(p) /\ SenderOf(i) = Peer(p)
  BY <1>1, <1>3, PeerDecides
<1>5. \A k \in Ids : k >= j => <<p, Peer(p), k>> \in From(p, SenderOf(j), j)
  BY <1>3, <1>4, MessagingAssumption DEF From, Ids
<1>6. i \notin task[t].known \cup new /\ SenderOf(i) = SenderOf(j) /\ SenderOf(j) # Dev(t) /\ Dev(t) = p
  BY <1>1, <1>4 DEF Dev
<1>7. From(p, SenderOf(j), j) \subseteq Skips(t, new)
  BY <1>6 DEF Skips
<1>8. Skips(t, new) \subseteq spoiled' /\ task'[t].dev = p
  BY <1>1 DEF Lists, Stays
<1>9. \A k \in Ids : k >= j => <<p, Peer(p), k>> \in spoiled'
  BY <1>5, <1>7, <1>8
<1> QED BY <1>8, <1>9 DEF Lost

\* Every step keeps MissedInv.
LEMMA MissedKept ==
    ASSUME TypeOK, StageInv, Grows, MissedInv, Steps
    PROVE  MissedInv'
<1> SUFFICES ASSUME NEW t \in Tasks, Listed(t)', NEW j \in task'[t].listed \ task'[t].known, SenderOf(j)' # task'[t].dev,
                    NEW i \in 1..(j - 1), SenderOf(i)' # task'[t].dev, i \notin task'[t].known \cup task'[t].listed
             PROVE  Lost(task[t].dev, j)'
  BY DEF MissedInv, Dev
<1>1. CASE Lists(t)
  <2>1. /\ SenderOf(i)' = SenderOf(i) /\ SenderOf(j)' = SenderOf(j)
        /\ task'[t].dev = task[t].dev /\ task'[t].known = task[t].known
    BY <1>1 DEF Lists, chains, SenderOf, Stays
  <2> QED BY <1>1, <2>1, MissedLoses
<1>2. CASE ~Lists(t)
  <2>1. Listed(t) /\ task'[t].dev = task[t].dev /\ task'[t].known = task[t].known /\ task'[t].listed = task[t].listed
    BY <1>2, ListedCases
  <2>2. j \in DOMAIN messages
    BY <2>1, KindIs DEF Listed
  <2>3. i \in DOMAIN messages
    <3>1. DOMAIN messages = 1..Len(messages) /\ Len(messages) \in Nat
      BY LenProperties DEF TypeOK
    <3> QED BY <2>2, <3>1
  <2>4. SenderOf(i)' = SenderOf(i) /\ SenderOf(j)' = SenderOf(j)
    BY <2>2, <2>3, MessagesStay
  <2>5. Lost(task[t].dev, j)
    BY <2>1, <2>4 DEF MissedInv, Dev
  <2> QED BY <2>1, <2>5, SpoiledStays DEF Lost
<1> QED BY <1>1, <1>2

--------------------------------------------------------------------------------
(* ConsumedInv is inductive.                                                *)

\* A disturbance at message i of the peer's leaves nothing from there on.
LEMMA FromLoses ==
    ASSUME NEW p \in Participants, NEW i \in Ids, From(p, Peer(p), i) \subseteq spoiled'
    PROVE  Lost(p, i)'
<1>1. \A k \in Ids : k >= i => <<p, Peer(p), k>> \in From(p, Peer(p), i)
  BY MessagingAssumption DEF From, Ids
<1> QED BY <1>1 DEF Lost

\* What is lost stays so.
LEMMA LostStays ==
    ASSUME Steps, NEW p, NEW i, Lost(p, i)
    PROVE  Lost(p, i)'
BY SpoiledStays DEF Lost

\* Every step keeps ConsumedInv.
LEMMA ConsumedKept ==
    ASSUME TypeOK, StageInv, Grows, HandInv, ConsumedInv, Steps
    PROVE  ConsumedInv'
<1> SUFFICES ASSUME NEW p \in Participants, NEW n \in Bundles, NEW s \in Secrets, <<p, n, s>> \in consumed'
             PROVE  (\/ Registered(p, s)
                     \/ \E u \in Tasks : At(u, "registering") /\ Dev(u) = p /\ task[u].secret = s
                     \/ \E i \in DOMAIN messages : messages[i].payload /\ SecretOf(i) = s /\ Lost(p, i))'
  BY DEF ConsumedInv
<1> USE DEF At, Dev
<1>1. ASSUME NEW t \in Tasks, Consumes(t), <<p, n, s>> \notin consumed
      PROVE  At(t, "registering")' /\ Dev(t)' = p /\ task'[t].secret = s
  BY <1>1 DEF Consumes, Turns, Same, Stays, Grips
<1>2. \/ <<p, n, s>> \in consumed
      \/ \E t \in Tasks : Consumes(t) /\ <<p, n, s>> \notin consumed
  <2>1. ASSUME NEW t \in Tasks, Starts(t) \/ Proceeds(t), ~Consumes(t) PROVE consumed' = consumed
    BY <2>1 DEF Starts, Proceeds, Quiet, Fetches, RegistersIn, ReadsSending, AdvancesSending, Delivers, Remembers,
     LoadsHistory, StoresHistory, Lists, LooksUp, Completes, Fails, ReadsReceiving, AdvancesReceiving, notes
  <2>2. ASSUME NEW q \in Participants, Restarts(q) PROVE consumed' = consumed
    BY <2>2 DEF Restarts
  <2> QED BY <2>1, <2>2 DEF Steps, notes
<1>3. CASE Registered(p, s)
  BY <1>3, RegisteredStays
<1>4. ASSUME NEW i \in DOMAIN messages, messages[i].payload, SecretOf(i) = s, Lost(p, i)
      PROVE  (messages[i].payload /\ SecretOf(i) = s /\ Lost(p, i))' /\ i \in DOMAIN messages'
  BY <1>4, LostStays, MessagesStay DEF SecretOf
<1>5. ASSUME NEW u \in Tasks, At(u, "registering"), Dev(u) = p, task[u].secret = s
      PROVE  \/ Registered(p, s)'
             \/ (At(u, "registering") /\ Dev(u) = p /\ task[u].secret = s)'
             \/ \E i \in DOMAIN messages' : (messages[i].payload /\ SecretOf(i) = s /\ Lost(p, i))'
  <2>1. CASE task'[u] = task[u]
    BY <1>5, <2>1
  <2>2. CASE task'[u] # task[u] /\ (Starts(u) \/ Proceeds(u))
    <3>1. task[u].kind = "sync"
      BY <1>5, KindIs DEF Syncing
    <3>2. RegistersIn(u, "registering", "remembering")
      BY <1>5, <2>2, <3>1 DEF Starts, Proceeds, Quiet, Fetches, RegistersIn, Turns, ReadsSending, AdvancesSending, Delivers,
        Remembers, LoadsHistory, StoresHistory, Lists, LooksUp, Completes, Fails, Consumes, ReadsReceiving, AdvancesReceiving,
        Ensuring, Sending
    <3> QED BY <1>5, <3>2 DEF RegistersIn, Registered
  <2>3. CASE \E q \in Participants : Restarts(q) /\ task'[u] # task[u]
    <3>1. Restarts(p) /\ task[u].dev = p /\ task[u] # None
      BY <1>5, <2>3 DEF Restarts
    <3>2. PICK i \in DOMAIN messages : i = task[u].id /\ messages[i].payload /\ SecretOf(i) = s /\ i \in Ids
      BY <1>5, InHand, MessageType DEF Receiving, HandInv
    <3>3. From(p, Peer(p), i) \subseteq spoiled'
      <4>1. From(p, Peer(p), i) \subseteq LostWith(u)
        BY <1>5, <3>1, <3>2 DEF LostWith
      <4> QED BY <3>1, <4>1 DEF Restarts
    <3>4. Lost(p, i)'
      BY <3>2, <3>3, FromLoses
    <3>5. messages' = messages
      BY <3>1 DEF Restarts, chains
    <3> QED BY <3>2, <3>4, <3>5 DEF SecretOf
  <2>4. task'[u] = task[u] \/ Starts(u) \/ Proceeds(u) \/ \E q \in Participants : Restarts(q) /\ task'[u] # task[u]
    <3>1. ASSUME NEW t \in Tasks, Starts(t) \/ Proceeds(t) PROVE t = u \/ task'[u] = task[u]
      BY <3>1, ActsAlone DEF Others
    <3> QED BY <3>1 DEF Steps
  <2> QED BY <2>1, <2>2, <2>3, <2>4
<1>6. CASE <<p, n, s>> \in consumed
  BY <1>3, <1>4, <1>5, <1>6 DEF ConsumedInv
<1> QED BY <1>1, <1>2, <1>6

--------------------------------------------------------------------------------
(* Chains in order.                                                         *)

\* A set of naturals up to n has a largest.
LEMMA Largest ==
    ASSUME NEW n \in Nat, NEW T, T \subseteq 1..n, T # {}
    PROVE  \E x \in T : \A y \in T : y <= x
<1> DEFINE D == {n - x : x \in T}
<1>1. D \subseteq Nat /\ D # {}
  <2>1. \A x \in T : n - x \in Nat
    OBVIOUS
  <2>2. PICK x \in T : TRUE
    OBVIOUS
  <2>3. n - x \in D
    OBVIOUS
  <2> QED BY <2>1, <2>3
<1>2. IsWellFoundedOn(OpToRel(<, Nat), Nat)
  BY NatLessThanWellFounded
<1>3. PICK d \in D : \A e \in D : ~(<<e, d>> \in OpToRel(<, Nat))
  BY <1>1, <1>2, WFMin
<1>4. \A e \in D : ~(e < d)
  BY <1>1, <1>3 DEF OpToRel
<1>5. PICK x \in T : d = n - x
  OBVIOUS
<1>6. \A y \in T : ~(n - y < n - x)
  BY <1>4, <1>5
<1> QED BY <1>6

\* The messages before i of its chain.
ChainOf(m, i) == {j \in 1..(i - 1) : m[j].key[1] = m[i].key[1] /\ m[j].key[2] = m[i].key[2]}

\* Where a position counts the messages before it, positions grow by one.
LEMMA Chained ==
    ASSUME NEW m, NEW n \in Nat, \A i \in 1..n : m[i].key[3] = Cardinality(ChainOf(m, i)), NEW i \in 1..n
    PROVE  /\ m[i].key[3] \in Nat
           /\ \A j \in ChainOf(m, i) : j \in 1..n /\ m[j].key[3] < m[i].key[3]
           /\ m[i].key[3] > 0 => \E j \in ChainOf(m, i) : m[j].key[3] = m[i].key[3] - 1
<1>1. \A j \in 1..n : IsFiniteSet(ChainOf(m, j)) /\ Cardinality(ChainOf(m, j)) \in Nat
  <2> TAKE j \in 1..n
  <2>1. ChainOf(m, j) \in SUBSET (1..n) /\ n \in Int
    BY DEF ChainOf
  <2>2. IsFiniteSet(ChainOf(m, j))
    <3>1. IsFiniteSet(1..n)
      BY <2>1, FS_Interval
    <3> QED BY <2>1, <3>1, FS_Subset
  <2> QED BY <2>2, FS_CardinalityType
<1>2. ASSUME NEW j \in ChainOf(m, i) PROVE j \in 1..n /\ m[j].key[3] < m[i].key[3]
  <2>1. j \in 1..n /\ ChainOf(m, j) \subseteq ChainOf(m, i) /\ j \notin ChainOf(m, j)
    BY <1>2 DEF ChainOf
  <2>2. /\ Cardinality(ChainOf(m, j)) <= Cardinality(ChainOf(m, i))
        /\ Cardinality(ChainOf(m, j)) # Cardinality(ChainOf(m, i))
    BY <1>1, <1>2, <2>1, FS_Subset
  <2> QED BY <1>1, <2>1, <2>2
<1>3. ASSUME m[i].key[3] > 0 PROVE \E j \in ChainOf(m, i) : m[j].key[3] = m[i].key[3] - 1
  <2>1. ChainOf(m, i) # {}
    BY <1>3, FS_EmptySet
  <2>2. ChainOf(m, i) \subseteq 1..n
    BY DEF ChainOf
  <2>3. PICK j \in ChainOf(m, i) : \A k \in ChainOf(m, i) : k <= j
    BY <2>1, <2>2, Largest
  <2>4. ChainOf(m, j) = ChainOf(m, i) \ {j} /\ j \in 1..n
    BY <2>3 DEF ChainOf
  <2>5. Cardinality(ChainOf(m, j)) = Cardinality(ChainOf(m, i)) - 1
    BY <1>1, <2>3, <2>4, FS_RemoveElement
  <2> QED BY <2>3, <2>4, <2>5
<1> QED BY <1>1, <1>2, <1>3

\* The same of the messages on the server.
LEMMA InOrder ==
    ASSUME TypeOK, Orderly, NEW i \in DOMAIN messages
    PROVE  /\ PositionOf(i) \in Nat
           /\ \A j \in 1..(i - 1) : SenderOf(j) = SenderOf(i) => j \in DOMAIN messages /\ PositionOf(j) < PositionOf(i)
           /\ PositionOf(i) > 0 =>
                 \E j \in 1..(i - 1) : SenderOf(j) = SenderOf(i) /\ PositionOf(j) = PositionOf(i) - 1
           /\ \A j \in DOMAIN messages : SecretOf(j) = SecretOf(i)
<1>1. Len(messages) \in Nat /\ DOMAIN messages = 1..Len(messages)
  BY LenProperties DEF TypeOK
<1>2. \A j \in 1..Len(messages) : messages[j].key[3] = Cardinality(ChainOf(messages, j))
  BY <1>1 DEF Orderly, ChainsInOrder, ChainOf
<1>3. \A j \in 1..(i - 1) : j \in DOMAIN messages
  BY <1>1
<1>4. \A j \in DOMAIN messages : SecretOf(j) = SecretOf(i)
  BY DEF Orderly, OneSession, SecretOf
<1>5. \A j : j \in ChainOf(messages, i) <=> j \in 1..(i - 1) /\ SenderOf(j) = SenderOf(i)
  BY <1>3, <1>4 DEF ChainOf, SenderOf, SecretOf
<1>6. /\ messages[i].key[3] \in Nat
      /\ \A j \in ChainOf(messages, i) : j \in 1..Len(messages) /\ messages[j].key[3] < messages[i].key[3]
      /\ messages[i].key[3] > 0 => \E j \in ChainOf(messages, i) : messages[j].key[3] = messages[i].key[3] - 1
  BY <1>1, <1>2, Chained
<1> QED BY <1>1, <1>4, <1>5, <1>6 DEF PositionOf

\* Messages of one sender differ in position.
LEMMA PositionsDiffer ==
    ASSUME TypeOK, Orderly, NEW i \in DOMAIN messages, NEW j \in DOMAIN messages,
           SenderOf(i) = SenderOf(j), PositionOf(i) = PositionOf(j)
    PROVE  i = j
<1>1. i \in Nat /\ j \in Nat /\ i >= 1 /\ j >= 1
  BY LenProperties DEF TypeOK
<1>2. CASE i < j
  <2>1. i \in 1..(j - 1)
    BY <1>1, <1>2
  <2> QED BY <2>1, InOrder
<1>3. CASE j < i
  <2>1. j \in 1..(i - 1)
    BY <1>1, <1>3
  <2> QED BY <2>1, InOrder
<1> QED BY <1>1, <1>2, <1>3

\* There is one payload, in the initiator's first message.
LEMMA OnePayload ==
    ASSUME TypeOK, SessionsInv, FirstInv, Orderly, NEW i \in DOMAIN messages, NEW j \in DOMAIN messages,
           messages[i].payload, messages[j].payload
    PROVE  i = j
<1>1. /\ SenderOf(i) = handshakes[SecretOf(i)].by /\ PositionOf(i) = 0
      /\ SenderOf(j) = handshakes[SecretOf(j)].by /\ PositionOf(j) = 0
  BY DEF FirstInv
<1>2. SecretOf(i) = SecretOf(j)
  BY InOrder
<1> QED BY <1>1, <1>2, PositionsDiffer

\* A participant that has registered the session of a message of its peer's has
\* that message after the payload, or the payload is its.
LEMMA PayloadBefore ==
    ASSUME TypeOK, SessionsInv, FirstInv, EndsInv, Orderly, NEW p \in Participants, NEW i \in DOMAIN messages,
           SenderOf(i) # p, Registered(p, SecretOf(i))
    PROVE  \E x \in 1..i : x \in DOMAIN messages /\ messages[x].payload /\ SecretOf(x) = SecretOf(i)
<1>1. i \in Nat /\ i >= 1 /\ i \in 1..i /\ DOMAIN messages = 1..Len(messages) /\ Len(messages) \in Nat
  BY LenProperties DEF TypeOK
<1>2. CASE SenderOf(i) # handshakes[SecretOf(i)].by
  <2>1. PICK j \in 1..(i - 1) : messages[j].payload /\ SecretOf(j) = SecretOf(i)
    BY <1>2 DEF EndsInv
  <2> QED BY <1>1, <2>1
<1>3. CASE SenderOf(i) = handshakes[SecretOf(i)].by
  <2>1. PICK h \in Handles : ratchet[h].owner = p /\ ratchet[h].secret = SecretOf(i)
    BY DEF Registered
  <2>2. ~Initiates(h)
    BY <1>3, <2>1 DEF Initiates
  <2>3. PICK x \in DOMAIN messages : messages[x].payload /\ SecretOf(x) = SecretOf(i)
    BY <2>1, <2>2 DEF EndsInv
  <2>4. SenderOf(x) = SenderOf(i) /\ PositionOf(x) = 0
    BY <1>3, <2>3 DEF FirstInv
  <2>5. ~(i < x)
    <3>1. ASSUME i < x PROVE FALSE
      <4>1. i \in 1..(x - 1)
        BY <1>1, <3>1
      <4>2. PositionOf(i) < 0 /\ PositionOf(i) \in Nat
        BY <2>4, <4>1, InOrder
      <4> QED BY <4>2
    <3> QED BY <3>1
  <2> QED BY <1>1, <2>3, <2>5
<1> QED BY <1>2, <1>3

\* Order and quiet last no longer than they do.
LEMMA OrderlyBefore ==
    ASSUME TypeOK, Grows, Orderly'
    PROVE  Orderly
<1>1. /\ DOMAIN messages = 1..Len(messages) /\ Len(messages) \in Nat
      /\ \A i \in DOMAIN messages : i \in DOMAIN messages' /\ messages'[i] = messages[i]
  BY LenProperties DEF TypeOK, Grows
<1>2. OneSession
  BY <1>1 DEF Orderly, OneSession
<1>3. ASSUME NEW i \in DOMAIN messages
      PROVE  messages[i].key[3] = Cardinality({j \in 1..(i - 1) :
                messages[j].key[1] = messages[i].key[1] /\ messages[j].key[2] = messages[i].key[2]})
  <2>1. messages'[i].key[3] = Cardinality({j \in 1..(i - 1) :
           messages'[j].key[1] = messages'[i].key[1] /\ messages'[j].key[2] = messages'[i].key[2]})
    BY <1>1 DEF Orderly, ChainsInOrder
  <2>2. \A j \in 1..(i - 1) : messages'[j] = messages[j]
    BY <1>1
  <2>3. {j \in 1..(i - 1) : messages'[j].key[1] = messages'[i].key[1] /\ messages'[j].key[2] = messages'[i].key[2]}
        = {j \in 1..(i - 1) : messages[j].key[1] = messages[i].key[1] /\ messages[j].key[2] = messages[i].key[2]}
    BY <1>1, <2>2
  <2> QED BY <1>1, <2>1, <2>3
<1> QED BY <1>2, <1>3 DEF Orderly, ChainsInOrder

\* What is not disturbed after a step was not before it.
LEMMA CleanBefore ==
    ASSUME Steps, NEW p \in Participants, NEW k, Clean(p, k)'
    PROVE  Clean(p, k)
BY SpoiledStays DEF Clean

\* What is clean was not lost.
LEMMA CleanNotLost ==
    ASSUME NEW p \in Participants, NEW k, Clean(p, k), NEW x \in 1..k
    PROVE  ~Lost(p, x) /\ ~(From(p, Peer(p), x) \subseteq spoiled) /\ k \in Ids /\ x \in Ids
<1>1. k \in Ids /\ x \in Ids /\ k >= x
  BY MessagingAssumption DEF Clean, Ids
<1>2. <<p, Peer(p), k>> \in From(p, Peer(p), x)
  BY <1>1, MessagingAssumption DEF From, Ids
<1> QED BY <1>1, <1>2 DEF Clean, Lost

--------------------------------------------------------------------------------
(* ReachInv is inductive.                                                   *)

\* A call that is no longer what it was made the step, or was closed.
LEMMA Changed ==
    ASSUME Steps, NEW u \in Tasks, task'[u] # task[u]
    PROVE  \/ (Starts(u) \/ Proceeds(u)) /\ Others(u)
           \/ \E p \in Participants : Restarts(p) /\ task[u] # None /\ task[u].dev = p /\ task'[u] = None
<1>1. ASSUME NEW t \in Tasks, Starts(t) \/ Proceeds(t) PROVE t = u /\ Others(u)
  BY <1>1, ActsAlone DEF Others
<1>2. ASSUME NEW p \in Participants, Restarts(p) PROVE task[u] # None /\ task[u].dev = p /\ task'[u] = None
  BY <1>2 DEF Restarts
<1> QED BY <1>1, <1>2 DEF Steps

\* A session that a message has shown is registered by a responder only.
LEMMA ShownRegisters ==
    ASSUME TypeOK, StageInv, SessionsInv, RegistrationInv, HandInv, EndsInv, NEW i \in DOMAIN messages, NEW t \in Tasks,
           task[t].secret = SecretOf(i),
           RegistersIn(t, "deriving", "encrypting") \/ RegistersIn(t, "registering", "remembering")
    PROVE  /\ RegistersIn(t, "registering", "remembering") /\ task[t] # None /\ task[t].at = "registering"
           /\ task[t].id \in DOMAIN messages /\ messages[task[t].id].payload /\ SecretOf(task[t].id) = SecretOf(i)
<1>1. ~RegistersIn(t, "deriving", "encrypting")
  BY NewEnd, InitiatorRegistered
<1> QED BY <1>1, NewEnd DEF RegistersIn, Turns

\* Two syncs with the payload in hand spoil it.
LEMMA TwoReceive ==
    ASSUME TypeOK, StageInv, FoundInv, OverlapInv, NEW t \in Tasks, NEW u \in Tasks \ {t},
           Is(t, "sync"), Is(u, "sync"), task[t].at \in Receiving, task[u].at \in Receiving,
           task[t].dev = task[u].dev, task[t].id = task[u].id
    PROVE  Lost(task[t].dev, task[t].id)
<1>1. /\ task[t].id \in task[t].listed \ task[t].known /\ SenderOf(task[t].id) # task[t].dev
      /\ task[u].id \in task[u].listed \ task[u].known
      /\ task[t].id \in DOMAIN messages
  BY InHand DEF FoundInv, FoundBy, Is
<1>2. Listed(t) /\ Listed(u)
  BY DEF Listed, Is, Receiving
<1> QED BY <1>1, <1>2 DEF OverlapInv, Dev

\* A call that is at one of these stages is a sync with the payload in hand.
LEMMA InCompletion ==
    ASSUME TypeOK, StageInv, FoundInv, HandInv, NEW t \in Tasks, task[t] # None,
           task[t].at \in {"completing", "consuming", "registering"} \/ (task[t].at = "remembering" /\ task[t].kind = "sync")
    PROVE  /\ Is(t, "sync") /\ task[t].at \in Receiving /\ task[t].id \in DOMAIN messages /\ messages[task[t].id].payload
           /\ SenderOf(task[t].id) # task[t].dev /\ task[t].dev \in Participants
           /\ task[t].at \in {"completing", "consuming", "registering"} => SecretOf(task[t].id) = task[t].secret
<1>1. Is(t, "sync") /\ task[t].at \in Receiving /\ task[t].id \in DOMAIN messages /\ FoundBy(t) /\ task[t].dev \in Participants
  BY KindIs, InHand DEF Is, Syncing, Receiving, FoundInv
<1>2. messages[task[t].id].payload /\ (task[t].at \in {"completing", "consuming", "registering"} => SecretOf(task[t].id) = task[t].secret)
  BY <1>1 DEF HandInv, Is
<1> QED BY <1>1, <1>2 DEF FoundBy, Is

\* What a participant can reach of a session that a message has shown stays in its reach.
LEMMA ReachStays ==
    ASSUME TypeOK, StageInv, SessionsInv, RegistrationInv, Grows, FoundInv, HandInv, FirstInv, EndsInv, OverlapInv, Steps,
           Orderly, NEW p \in Participants, NEW k, Clean(p, k), Clean(p, k)',
           NEW x \in 1..k, x \in DOMAIN messages, messages[x].payload, NEW s, s = SecretOf(x), ReachOf(p, s)
    PROVE  ReachOf(p, s)'
<1> USE DEF At, Dev
<1>1. \A h \in Handles : h \in Handles' /\ ratchet'[h].owner = ratchet[h].owner /\ ratchet'[h].secret = ratchet[h].secret
  BY DEF Grows
<1>2. \A j \in DOMAIN messages : SecretOf(j) = s
  BY InOrder
<1>3. \A j \in DOMAIN messages : messages[j].payload => j = x
  BY OnePayload
<1>4. ~Lost(p, x) /\ ~(From(p, Peer(p), x) \subseteq spoiled') /\ x \in Ids
  <2>1. ~Lost(p, x) /\ k \in Ids /\ x \in Ids /\ k >= x
    BY CleanNotLost, MessagingAssumption DEF Clean, Ids
  <2>2. <<p, Peer(p), k>> \in From(p, Peer(p), x)
    BY <2>1, MessagingAssumption DEF From, Ids
  <2> QED BY <2>1, <2>2 DEF Clean
<1>5. ASSUME NEW h \in Handles' \ Handles, ratchet'[h].owner = p, ratchet'[h].secret = s
      PROVE  \E t \in Tasks : /\ RegistersIn(t, "registering", "remembering") /\ h = Len(ratchet) + 1
                              /\ task[t] # None /\ task[t].dev = p /\ task[t].secret = s
                              /\ task[t].at = "registering" /\ ~Registered(p, s)
  <2>1. PICK t \in Tasks : RegistersIn(t, "deriving", "encrypting") \/ RegistersIn(t, "registering", "remembering")
    <3>1. ASSUME UNCHANGED ratchet \/ \E t \in Tasks : AdvancesSending(t) \/ AdvancesReceiving(t) PROVE Handles' = Handles
      BY <3>1 DEF AdvancesSending, AdvancesReceiving, Handles
    <3> QED BY <1>5, <3>1, HandlesChange
  <2>2. h = Len(ratchet) + 1 /\ task[t].secret = s /\ task[t].dev = p
    BY <1>5, <2>1 DEF RegistersIn
  <2>3. RegistersIn(t, "registering", "remembering") /\ task[t] # None /\ task[t].at = "registering"
    BY <2>1, <2>2, ShownRegisters
  <2> QED BY <2>2, <2>3 DEF ReachOf
<1>6. ASSUME NEW g \in Handles', NEW h \in Handles', ratchet'[g].owner = p, ratchet'[h].owner = p,
             ratchet'[g].secret = s, ratchet'[h].secret = s
      PROVE  g = h
  <2>1. CASE g \in Handles /\ h \in Handles
    BY <1>1, <1>6, <2>1 DEF ReachOf
  <2>2. CASE g \notin Handles /\ h \notin Handles
    BY <1>5, <1>6, <2>2
  <2>3. CASE g \notin Handles /\ h \in Handles
    BY <1>1, <1>5, <1>6, <2>3 DEF Registered
  <2>4. CASE g \in Handles /\ h \notin Handles
    BY <1>1, <1>5, <1>6, <2>4 DEF Registered
  <2> QED BY <2>1, <2>2, <2>3, <2>4
<1>7. ASSUME NEW u \in Tasks, task[u] # None, task[u].at = "remembering", task[u].fresh, NEW h \in Handles,
             task[u].handle = h, ratchet[h].owner = p, ratchet[h].secret = s
      PROVE  cached'[p] = h \/ (At(u, "remembering") /\ task[u].fresh /\ task[u].handle = h)'
  <2>1. task[u].dev = p /\ task[u].id = x
    <3>1. ratchet[h].owner = task[u].dev /\ task[u].id \in DOMAIN messages
      BY <1>7, InHand DEF Holding, Receiving
    <3>2. messages[task[u].id].payload
      BY <1>7 DEF HandInv
    <3> QED BY <1>3, <1>7, <3>1, <3>2
  <2>2. CASE task'[u] = task[u]
    BY <1>7, <2>2
  <2>3. CASE task'[u] # task[u] /\ (Starts(u) \/ Proceeds(u))
    <3>1. Remembers(u) \/ Fails(u)
      BY <1>7, <2>3 DEF Starts, Proceeds, Quiet, Fetches, RegistersIn, Turns, ReadsSending, AdvancesSending, Delivers,
        LoadsHistory, StoresHistory, Lists, LooksUp, Completes, Consumes, ReadsReceiving, AdvancesReceiving,
        Ensuring, Sending
    <3>2. ~Fails(u)
      BY <1>4, <2>1 DEF Fails
    <3> QED BY <1>7, <2>1, <3>1, <3>2 DEF Remembers
  <2>4. ASSUME NEW q \in Participants, Restarts(q), task[u].dev = q PROVE FALSE
    <3>1. From(p, Peer(p), x) \subseteq LostWith(u)
      BY <1>7, <2>1 DEF LostWith
    <3> QED BY <1>4, <1>7, <2>4, <3>1 DEF Restarts
  <2> QED BY <2>2, <2>3, <2>4, Changed
<1>8. ASSUME NEW h \in Handles, cached[p] = h, ratchet[h].owner = p, ratchet[h].secret = s
      PROVE  cached'[p] = h
  <2>1. ASSUME NEW u \in Tasks, Remembers(u), task[u].dev = p PROVE task[u].handle = h
    <3>1. PICK g \in Handles : g = task[u].handle /\ ratchet[g].owner = p
      BY <2>1, InHand DEF Remembers, Holding
    <3>2. task[u].id \in DOMAIN messages /\ SecretOf(task[u].id) = ratchet[g].secret
      BY <2>1, <3>1, InHand DEF Remembers, HandInv, Receiving
    <3> QED BY <1>2, <1>8, <3>1, <3>2 DEF ReachOf
  <2> QED BY <1>8, <2>1, CachedChange DEF Remembers
<1>9. ASSUME NEW h \in Handles', ratchet'[h].owner = p, ratchet'[h].secret = s
      PROVE  \/ cached'[p] = h
             \/ \E u \in Tasks : (At(u, "remembering") /\ task[u].fresh /\ task[u].handle = h)'
  <2>1. CASE h \in Handles
    <3>1. ratchet[h].owner = p /\ ratchet[h].secret = s
      BY <1>1, <1>9, <2>1
    <3> QED BY <1>7, <1>8, <2>1, <3>1 DEF ReachOf
  <2>2. CASE h \notin Handles
    <3>1. PICK t \in Tasks : RegistersIn(t, "registering", "remembering") /\ h = Len(ratchet) + 1
      BY <1>5, <1>9, <2>2
    <3> QED BY <3>1 DEF RegistersIn, Turns
  <2> QED BY <2>1, <2>2
<1>10. ASSUME NEW t \in Tasks, task'[t] # None, task'[t].at \in {"completing", "consuming", "registering"},
              task'[t].dev = p, task'[t].secret = s, Registered(p, s)'
       PROVE  FALSE
  <2>1. PICK h \in Handles' : ratchet'[h].owner = p /\ ratchet'[h].secret = s
    BY <1>10 DEF Registered
  <2>2. ASSUME task[t] # None, task[t].at \in {"completing", "consuming", "registering"}, task[t].dev = p, task[t].secret = s
        PROVE  /\ ~Registered(p, s) /\ task[t].id = x /\ Is(t, "sync") /\ task[t].at \in Receiving
    BY <1>3, <2>2, InCompletion DEF ReachOf
  <2>3. CASE task'[t] = task[t]
    <3>1. h \notin Handles
      BY <1>1, <1>10, <2>1, <2>2, <2>3 DEF Registered
    <3>2. PICK u \in Tasks : /\ RegistersIn(u, "registering", "remembering") /\ task[u] # None /\ task[u].dev = p
                             /\ task[u].secret = s /\ task[u].at = "registering"
      BY <1>5, <2>1, <3>1
    <3>3. u # t
      BY <1>10, <2>3, <3>2 DEF RegistersIn, Turns
    <3>4. Is(u, "sync") /\ task[u].at \in Receiving /\ task[u].id = x
      BY <1>3, <3>2, InCompletion
    <3>5. Lost(p, x)
      BY <1>10, <2>2, <2>3, <3>2, <3>3, <3>4, TwoReceive
    <3> QED BY <1>4, <3>5
  <2>4. CASE task'[t] # task[t] /\ LooksUp(t)
    <3>1. PICK i \in Pending(t) : /\ messages[i].payload
                                  /\ spoiled' = spoiled \cup (IF cached[task[t].dev] # 0 \/ Unanswerable(task[t].dev)
                                                              THEN From(task[t].dev, SenderOf(i), i) ELSE {})
      BY <1>10, <2>4 DEF LooksUp, GapFor
    <3>2. task[t] # None /\ task[t].at = "working" /\ task[t].dev = p /\ task[t].kind = "sync" /\ ratchet' = ratchet
      BY <1>10, <2>4, KindIs DEF LooksUp, Stays, GapFor, chains, Syncing
    <3>3. i = x /\ i \in task[t].listed /\ i \notin task[t].known
      BY <1>3, <3>1, <3>2, PendingType
    <3>4. SenderOf(x) = Peer(p)
      <4>1. SenderOf(x) # p
        BY <3>2, <3>3, PendingType, <3>1 DEF StageInv, Staged
      <4> QED BY <4>1, MessageType, PeerDecides
    <3>5. cached[p] = 0 /\ ~Unanswerable(p)
      BY <1>4, <3>1, <3>2, <3>3, <3>4
    <3>6. h \in Handles /\ ratchet[h].owner = p /\ ratchet[h].secret = s /\ h # 0
      BY <2>1, <3>2, LenProperties DEF Handles, TypeOK
    <3>7. PICK u \in Tasks : At(u, "remembering") /\ task[u].fresh /\ task[u].handle = h
      BY <3>5, <3>6 DEF ReachOf
    <3>8. task[u].dev = p /\ u # t
      BY <3>2, <3>6, <3>7, InHand DEF Holding
    <3>9. task[u].kind = "sync"
      BY <3>5, <3>7, <3>8, KindIs DEF Unanswerable, Recording
    <3>10. Is(u, "sync") /\ task[u].at \in Receiving /\ task[u].id = x
      BY <1>3, <3>7, <3>9, InCompletion
    <3>11. x \in task[u].listed \ task[u].known
      BY <3>10 DEF FoundInv, FoundBy, Is
    <3>12. Listed(t) /\ Listed(u)
      BY <3>2, <3>10, TaskFields, MessagingAssumption DEF Listed, Is, Receiving
    <3>13. Lost(p, x)
      BY <3>2, <3>3, <3>4, <3>8, <3>11, <3>12, PeerProperties DEF OverlapInv
    <3> QED BY <1>4, <3>13
  <2>5. CASE task'[t] # task[t] /\ (Completes(t) \/ Consumes(t))
    <3>1. /\ task[t] # None /\ task[t].at \in {"completing", "consuming", "registering"} /\ task[t].dev = p /\ task[t].secret = s
          /\ ratchet' = ratchet
      BY <1>10, <2>5 DEF Completes, Consumes, Turns, Same, Stays, Grips, GapFor, chains
    <3> QED BY <1>10, <2>2, <3>1 DEF Registered, Handles
  <2> QED BY <1>10, <2>3, <2>4, <2>5, Arrives
<1> QED BY <1>6, <1>9, <1>10 DEF ReachOf

\* A session that is shown for the first time is in its initiator's reach.
LEMMA ReachBegins ==
    ASSUME TypeOK, StageInv, SessionsInv, Grows, FoundInv, HandInv, PrivateInv, EndsInv, Steps,
           NEW t \in Tasks, Delivers(t), NEW p \in Participants, NEW k, Clean(p, k)',
           NEW x \in 1..k, x = Len(messages) + 1, (messages[x].payload)', NEW s, s = SecretOf(x)'
    PROVE  ReachOf(p, s)'
<1> USE DEF At, Dev
<1>1. PICK h \in Handles : h = task[t].handle
  BY InHand DEF Delivers, Holding
<1>2. /\ task[t] # None /\ task[t].at = "delivering" /\ task[t].fresh /\ s = ratchet[h].secret /\ ratchet[h].owner = task[t].dev
      /\ ratchet' = ratchet /\ Handles' = Handles /\ Others(t)
  BY <1>1, InHand DEF Delivers, SecretOf, Handles, Holding
<1>3. \A i \in DOMAIN messages : SecretOf(i) # s
  BY <1>1, <1>2 DEF PrivateInv, Private, Undelivered
<1>4. \A g \in Handles : ratchet[g].secret = s => g = h
  BY <1>2, <1>3, UnshownSecret
<1>5. ASSUME NEW g \in Handles, ratchet[g].owner = p, ratchet[g].secret = s
      PROVE  (At(t, "remembering") /\ task[t].fresh /\ task[t].handle = g)'
  <2>1. g = h /\ task[t].dev = p
    BY <1>2, <1>4, <1>5
  <2>2. CASE task'[t] # None
    BY <1>1, <1>2, <2>1, <2>2 DEF Delivers, Grips
  <2>3. CASE task'[t] = None
    <3>1. From(p, Peer(p), x) \subseteq spoiled'
      BY <1>2, <2>1, <2>3 DEF Delivers, Stays
    <3>2. k \in Ids /\ k >= x /\ x \in Ids
      BY MessagingAssumption DEF Clean, Ids
    <3>3. <<p, Peer(p), k>> \in From(p, Peer(p), x)
      BY <3>2, MessagingAssumption DEF From, Ids
    <3> QED BY <3>1, <3>3 DEF Clean
  <2> QED BY <2>2, <2>3
<1>6. ASSUME NEW u \in Tasks, task'[u] # None, task'[u].at \in {"completing", "consuming", "registering"}, task'[u].secret = s
      PROVE  FALSE
  <2>1. u # t
    BY <1>6 DEF Delivers
  <2>2. task'[u] = task[u]
    BY <1>2, <2>1 DEF Others
  <2> QED BY <1>3, <1>6, <2>2, InCompletion
<1> QED BY <1>2, <1>4, <1>5, <1>6 DEF ReachOf

\* Every step keeps ReachInv.
LEMMA ReachKept ==
    ASSUME IInv, ReadInv, Grows, Steps
    PROVE  ReachInv'
<1> USE DEF IInv, ReadInv
<1> SUFFICES ASSUME Orderly', NEW p \in Participants, NEW k \in Ids, Clean(p, k)', NEW x \in 1..k, x \in DOMAIN messages',
                    (messages[x].payload)', NEW s, s = SecretOf(x)'
             PROVE  ReachOf(p, s)'
  <2>1. ASSUME Orderly', NEW p \in Participants, NEW k \in Ids, Clean(p, k)', NEW x \in 1..k, x \in DOMAIN messages',
               (messages[x].payload)'
        PROVE  ReachOf(p, SecretOf(x))'
    <3>1. PICK s : s = SecretOf(x)'
      OBVIOUS
    <3>2. ReachOf(p, s)'
      BY <2>1, <3>1
    <3> QED BY <3>1, <3>2 DEF ReachOf, Registered
  <2> QED BY <2>1 DEF ReachInv
<1>1. Orderly /\ Clean(p, k)
  BY OrderlyBefore, CleanBefore
<1>2. CASE x \in DOMAIN messages
  <2>1. s = SecretOf(x) /\ messages[x].payload
    BY <1>2 DEF Grows, SecretOf
  <2>2. ReachOf(p, s)
    BY <1>1, <1>2, <2>1 DEF ReachInv
  <2> QED BY <1>1, <1>2, <2>1, <2>2, ReachStays
<1>3. CASE x \notin DOMAIN messages
  <2>1. PICK t \in Tasks : Delivers(t)
    BY <1>3, MessagesChange
  <2>2. x = Len(messages) + 1
    BY <1>3, <2>1 DEF Delivers
  <2> QED BY <2>1, <2>2, ReachBegins
<1> QED BY <1>2, <1>3

--------------------------------------------------------------------------------
(* PassedInv is inductive.                                                  *)

\* The step behind a call's receiving chain that opens a message.
LEMMA ReceivedStays ==
    ASSUME TypeOK, EndsInv, Steps, NEW h \in Handles
    PROVE  ratchet[h].received \in Nat /\ ratchet'[h].received >= ratchet[h].received
<1>0. ratchet[h].received \in Nat
  <2>1. ratchet[h] \in Session
    BY LenProperties, ElementOfSeq DEF TypeOK, Handles
  <2> QED BY <2>1 DEF Session
<1>1. ASSUME NEW t \in Tasks, AdvancesReceiving(t) PROVE ratchet'[h].received >= ratchet[h].received
  <2>1. CASE task[t].handle = h
    <3>1. At(t, "opening")
      BY <1>1 DEF AdvancesReceiving, At
    <3>2. task[t].position = ratchet[h].received
      BY <2>1, <3>1 DEF EndsInv
    <3> QED BY <1>0, <1>1, <2>1, <3>2 DEF AdvancesReceiving
  <2>2. CASE task[t].handle # h
    BY <1>0, <1>1, <2>2 DEF AdvancesReceiving
  <2> QED BY <2>1, <2>2
<1>2. ASSUME NEW t \in Tasks, AdvancesSending(t) PROVE ratchet'[h].received >= ratchet[h].received
  BY <1>0, <1>2 DEF AdvancesSending
<1>3. ASSUME NEW t \in Tasks, RegistersIn(t, "deriving", "encrypting") \/ RegistersIn(t, "registering", "remembering")
      PROVE  ratchet'[h].received >= ratchet[h].received
  BY <1>0, <1>3 DEF RegistersIn
<1> QED BY <1>0, <1>1, <1>2, <1>3, HandlesChange

\* What is past stays past.
LEMMA OpenedStays ==
    ASSUME TypeOK, SessionsInv, EndsInv, Grows, Steps, NEW p, NEW i \in DOMAIN messages, Opened(p, i)
    PROVE  Opened(p, i)'
<1>1. PICK h \in Handles : ratchet[h].owner = p /\ ratchet[h].secret = SecretOf(i) /\ PositionOf(i) < ratchet[h].received
  BY DEF Opened
<1>2. ratchet[h].received \in Nat /\ ratchet'[h].received >= ratchet[h].received
  BY ReceivedStays
<1>3. PositionOf(i) \in Nat
  BY MessageType DEF PositionOf, Key
<1>4. ratchet'[h].received \in Nat
  <2>1. ASSUME NEW t \in Tasks, AdvancesReceiving(t) PROVE ratchet'[h].received \in Nat
    <3>1. task[t].position \in Nat
      BY <2>1, TaskFields DEF AdvancesReceiving
    <3> QED BY <1>1, <1>2, <2>1, <3>1 DEF AdvancesReceiving
  <2>2. ASSUME NEW t \in Tasks, AdvancesSending(t) PROVE ratchet'[h].received \in Nat
    BY <1>1, <1>2, <2>2 DEF AdvancesSending
  <2>3. ASSUME NEW t \in Tasks, NEW a, NEW b, RegistersIn(t, a, b) PROVE ratchet'[h].received \in Nat
    BY <1>1, <1>2, <2>3 DEF RegistersIn
  <2> QED BY <1>2, <2>1, <2>2, <2>3, HandlesChange
<1>5. /\ h \in Handles' /\ ratchet'[h].owner = p /\ ratchet'[h].secret = SecretOf(i)
      /\ SecretOf(i)' = SecretOf(i) /\ PositionOf(i)' = PositionOf(i)
  BY <1>1, MessagesStay DEF Grows
<1>6. PositionOf(i) < ratchet'[h].received
  BY <1>1, <1>2, <1>3, <1>4
<1> QED BY <1>5, <1>6 DEF Opened

\* A message that a clean sync makes a gap of is one that was opened before.
LEMMA GapsWereOpened ==
    ASSUME IInv, ReadInv, Orderly, NEW p \in Participants, NEW k, Clean(p, k), Clean(p, k)',
           NEW t \in Tasks, task[t] # None, task[t].kind = "sync", task[t].dev = p, NEW i \in 1..k, i \in DOMAIN messages,
           GapFor(t, i),
           \/ LooksUp(t) /\ i \in Pending(t)
           \/ (Completes(t) \/ Fails(t) \/ ReadsReceiving(t)) /\ i = task[t].id
    PROVE  ReadsReceiving(t) /\ Opened(p, i)
<1> USE DEF IInv, ReadInv, At, Dev
<1>1. FoundBy(t) /\ Staged(t) /\ i \in Nat /\ k \in Nat /\ k \in Ids
  BY MessageType, MessagingAssumption DEF FoundInv, StageInv, Clean, Ids
<1>2. SenderOf(i) # p /\ i \in task[t].listed /\ i \notin task[t].known
  <2>1. CASE LooksUp(t) /\ i \in Pending(t)
    <3>1. task[t].at = "working"
      BY <2>1 DEF LooksUp
    <3>2. i \in task[t].listed /\ i \notin task[t].known /\ i \notin task[t].found.plain \cup task[t].found.gaps
      BY <2>1, PendingType
    <3> QED BY <1>1, <3>1, <3>2 DEF Staged
  <2>2. CASE (Completes(t) \/ Fails(t) \/ ReadsReceiving(t)) /\ i = task[t].id
    <3>1. task[t].at \in Receiving
      BY <2>2 DEF Completes, Fails, ReadsReceiving, Receiving
    <3> QED BY <1>1, <2>2, <3>1 DEF FoundBy
  <2> QED BY <2>1, <2>2
<1>3. SenderOf(i) = Peer(p)
  BY <1>2, MessageType, PeerDecides
<1>4. \A x \in 1..k : ~Lost(p, x) /\ ~(From(p, Peer(p), x) \subseteq spoiled') /\ ~(From(p, Peer(p), x) \subseteq spoiled)
  <2> TAKE x \in 1..k
  <2>1. ~Lost(p, x) /\ x \in Ids /\ k >= x
    BY <1>1, CleanNotLost
  <2>2. <<p, Peer(p), k>> \in From(p, Peer(p), x)
    BY <1>1, <2>1, MessagingAssumption DEF From, Ids
  <2> QED BY <2>1, <2>2 DEF Clean
<1>5. ASSUME NEW j \in 1..(i - 1), SenderOf(j) = Peer(p), j \in task[t].known \cup task[t].found.plain \cup task[t].found.gaps
      PROVE  Opened(p, j)
  <2>1. j \in 1..k /\ j \in DOMAIN messages /\ SenderOf(j) # p
    BY <1>1, <1>5, LenProperties, PeerProperties DEF TypeOK
  <2> QED BY <1>1, <1>5, <2>1 DEF PassedInv, Is
<1>6. ASSUME NEW x \in 1..i, x \in DOMAIN messages, messages[x].payload PROVE ReachOf(p, SecretOf(i)) /\ x \in 1..k
  <2>1. x \in 1..k /\ SecretOf(x) = SecretOf(i)
    BY <1>1, <1>6, InOrder
  <2> QED BY <1>1, <1>6, <2>1 DEF ReachInv
<1>7. ASSUME Registered(p, SecretOf(i)) PROVE ReachOf(p, SecretOf(i))
  BY <1>2, <1>6, <1>7, PayloadBefore
<1>8. ~Fails(t)
  <2>1. ASSUME Fails(t) PROVE i = task[t].id /\ spoiled' = spoiled \cup From(p, Peer(p), i)
    BY <2>1 DEF Fails, LooksUp
  <2> QED BY <1>1, <1>4, <2>1
<1>9. ASSUME LooksUp(t), i \in Pending(t) PROVE FALSE
  <2>1. task[t].at = "working" /\ GapFor(t, i) /\ task'[t].at = "working"
    BY <1>9 DEF LooksUp, GapFor
  <2>2. PICK j \in Pending(t), c \in {0, cached[p]} :
           /\ \A l \in Pending(t) : j <= l
           /\ c = 0 /\ ~messages[j].payload /\ GapFor(t, j)
           /\ spoiled' = spoiled \cup (IF c # cached[p] \/ (c = 0 /\ Unanswerable(p)) THEN From(p, SenderOf(j), j) ELSE {})
    BY <1>9, <2>1 DEF LooksUp
  <2>3. j = i
    <3>1. i \in task[t].found.gaps \cup {j}
      BY <2>1, <2>2 DEF GapFor
    <3>2. i \notin task[t].found.gaps
      BY <1>9, PendingType
    <3> QED BY <3>1, <3>2
  <2>4. cached[p] = 0 /\ ~Unanswerable(p) /\ ~messages[i].payload
    BY <1>1, <1>3, <1>4, <2>2, <2>3
  <2>5. ASSUME NEW h \in Handles, ratchet[h].owner = p, ratchet[h].secret = SecretOf(i)
        PROVE  \E u \in Tasks : /\ At(u, "remembering") /\ task[u].fresh /\ task[u].handle = h /\ task[u].dev = p
                                /\ Is(u, "sync")
    <3>1. h # 0
      BY LenProperties DEF Handles, TypeOK
    <3>2. Registered(p, SecretOf(i))
      BY <2>5 DEF Registered
    <3>3. PICK u \in Tasks : At(u, "remembering") /\ task[u].fresh /\ task[u].handle = h
      BY <1>7, <2>4, <2>5, <3>1, <3>2 DEF ReachOf
    <3>4. task[u].dev = p
      BY <2>5, <3>3, InHand DEF Holding
    <3> QED BY <2>4, <3>3, <3>4, KindIs DEF Unanswerable, Recording, Is
  <2>6. CASE SenderOf(i) # handshakes[SecretOf(i)].by
    <3>1. handshakes[SecretOf(i)].by = p /\ Registered(p, SecretOf(i))
      <4>1. handshakes[SecretOf(i)].by \in Participants
        <5>1. SecretOf(i) \in DOMAIN handshakes
          BY DEF SessionsInv, SecretOf
        <5>2. handshakes[SecretOf(i)] \in Handshake
          BY <5>1, LenProperties, ElementOfSeq DEF TypeOK
        <5> QED BY <5>2 DEF Handshake
      <4>2. handshakes[SecretOf(i)].by = p
        BY <1>2, <1>3, <2>6, <4>1, PeerDecides
      <4> QED BY <4>2, InitiatorRegistered
    <3>2. PICK h \in Handles : ratchet[h].owner = p /\ ratchet[h].secret = SecretOf(i)
      BY <3>1 DEF Registered
    <3>3. PICK u \in Tasks : At(u, "remembering") /\ task[u].fresh /\ task[u].handle = h /\ task[u].dev = p /\ Is(u, "sync")
      BY <2>5, <3>2
    <3>4. task[u].id \in DOMAIN messages /\ messages[task[u].id].payload /\ SenderOf(task[u].id) # p
      BY <3>3, InCompletion DEF Is
    <3>5. SenderOf(task[u].id) = handshakes[SecretOf(task[u].id)].by /\ SecretOf(task[u].id) = SecretOf(i)
      BY <3>4, InOrder DEF FirstInv
    <3> QED BY <3>1, <3>4, <3>5
  <2>7. CASE SenderOf(i) = handshakes[SecretOf(i)].by
    <3>1. PositionOf(i) > 0
      <4>1. PositionOf(i) # 0 /\ PositionOf(i) \in Nat
        BY <2>4, <2>7, InOrder DEF FirstInv
      <4> QED BY <4>1
    <3>2. PICK l \in 1..(i - 1) : SenderOf(l) = SenderOf(i) /\ PositionOf(l) = PositionOf(i) - 1
      BY <3>1, InOrder
    <3>3. l \in task[t].known \cup task[t].found.plain \cup task[t].found.gaps
      <4>1. ASSUME l \notin task[t].known \cup task[t].found.plain \cup task[t].found.gaps PROVE FALSE
        <5>1. l \notin Pending(t)
          BY <1>1, <2>2, <2>3
        <5>2. l \notin task[t].known \cup task[t].listed /\ SenderOf(l) # p /\ Listed(t)
          BY <1>2, <1>9, <2>1, <3>2, <4>1, <5>1 DEF Pending, Listed
        <5>3. Lost(p, i)
          BY <1>2, <3>2, <5>2 DEF MissedInv
        <5> QED BY <1>1, <1>4, <5>3
      <4> QED BY <4>1
    <3>4. Opened(p, l)
      BY <1>3, <1>5, <3>2, <3>3
    <3>5. PICK h \in Handles : ratchet[h].owner = p /\ ratchet[h].secret = SecretOf(l) /\ PositionOf(l) < ratchet[h].received
      BY <3>4 DEF Opened
    <3>6. SecretOf(l) = SecretOf(i) /\ PositionOf(l) \in Nat
      <4>1. l \in DOMAIN messages
        BY <3>2, InOrder
      <4> QED BY <4>1, InOrder
    <3>7. PICK u \in Tasks : At(u, "remembering") /\ task[u].fresh /\ task[u].handle = h
      BY <2>5, <3>5, <3>6
    <3>8. ratchet[h].received = 0
      BY <3>7 DEF PrivateInv, Private
    <3> QED BY <3>5, <3>6, <3>8
  <2> QED BY <2>6, <2>7
<1>10. ASSUME Completes(t), i = task[t].id PROVE FALSE
  <2> DEFINE s == handshakes[task[t].secret]
  <2>1. /\ task[t].at = "completing"
        /\ s.signed \notin signedPrekeys[p] \/ s.oneTime \notin {0} \cup oneTimePrekeys[p]
    BY <1>10 DEF Completes, GapFor
  <2>2. task[t].secret \in DOMAIN handshakes /\ s.by = Peer(p) /\ s \in Handshake /\ Peer(Peer(p)) = p
    BY <1>1, <2>1, LenProperties, ElementOfSeq, PeerProperties DEF Staged, TypeOK
  <2>3. s.signed \in signedPrekeys[p]
    BY <2>2 DEF EndsInv, Responder
  <2>4. <<p, s.oneTime, task[t].secret>> \in consumed /\ s.oneTime \in Bundles
    <3>1. s.oneTime \in Bundles /\ s.oneTime # 0 /\ s.oneTime \notin oneTimePrekeys[p]
      BY <2>1, <2>2, <2>3 DEF Handshake
    <3> QED BY <2>2, <3>1 DEF PrekeyInv, PrekeysKept
  <2>5. messages[i].payload /\ SecretOf(i) = task[t].secret /\ task[t].secret \in Secrets /\ i \in 1..i
        /\ Is(t, "sync") /\ task[t].at \in Receiving
    BY <1>1, <1>10, <2>1, MessageType, InCompletion DEF SecretOf
  <2>6. ReachOf(p, task[t].secret)
    BY <1>6, <2>5
  <2>7. ~Registered(p, task[t].secret)
    BY <2>1, <2>6 DEF ReachOf
  <2>8. ASSUME NEW u \in Tasks, At(u, "registering"), Dev(u) = p, task[u].secret = task[t].secret PROVE FALSE
    <3>1. u # t /\ task[u] # None /\ task[u].at = "registering"
      BY <2>1, <2>8
    <3>2. Is(u, "sync") /\ task[u].at \in Receiving /\ task[u].id = i
      BY <2>5, <3>1, InCompletion, OnePayload
    <3>3. Lost(p, i)
      BY <1>10, <2>5, <2>8, <3>1, <3>2, TwoReceive
    <3> QED BY <1>4, <3>3
  <2>9. ASSUME NEW j \in DOMAIN messages, messages[j].payload, SecretOf(j) = task[t].secret, Lost(p, j) PROVE FALSE
    <3>1. j = i
      BY <2>5, <2>9, OnePayload
    <3> QED BY <1>4, <2>9, <3>1
  <2> QED BY <2>4, <2>5, <2>7, <2>8, <2>9 DEF ConsumedInv
<1>11. ASSUME ReadsReceiving(t), i = task[t].id PROVE Opened(p, i)
  <2>1. PICK h \in Handles : h = task[t].handle /\ ratchet[h].owner = p
    BY <1>11, InHand DEF ReadsReceiving, Holding
  <2>2. task[t].at = "decrypting" /\ messages[i].key # <<ratchet[h].secret, Peer(p), ratchet[h].received>>
    BY <1>11, <2>1 DEF ReadsReceiving, GapFor
  <2>3. ratchet[h].secret = SecretOf(i)
    <3>1. PICK j \in DOMAIN messages : SecretOf(j) = ratchet[h].secret
      BY <2>1, <2>2 DEF HandInv
    <3> QED BY <3>1, InOrder
  <2>4. PositionOf(i) # ratchet[h].received /\ PositionOf(i) \in Nat /\ ratchet[h].received \in Nat
    <3>1. messages[i].key = <<SecretOf(i), SenderOf(i), PositionOf(i)>>
      BY MessageType DEF Key, SecretOf, SenderOf, PositionOf
    <3> QED BY <1>3, <2>2, <2>3, <3>1, InOrder, HandleFacts DEF Session
  <2>5. CASE PositionOf(i) < ratchet[h].received
    BY <2>1, <2>3, <2>5 DEF Opened
  <2>6. CASE PositionOf(i) > ratchet[h].received
    <3>1. PositionOf(i) > 0
      BY <2>4, <2>6
    <3>2. PICK l \in 1..(i - 1) : SenderOf(l) = SenderOf(i) /\ PositionOf(l) = PositionOf(i) - 1
      BY <3>1, InOrder
    <3>3. l \in task[t].known \cup task[t].found.plain \cup task[t].found.gaps
      <4>1. CASE l \in task[t].listed
        BY <1>1, <1>11, <2>2, <3>2, <4>1 DEF FoundBy, Receiving
      <4>2. ASSUME l \notin task[t].known \cup task[t].listed PROVE FALSE
        <5>1. Listed(t) /\ SenderOf(l) # p
          BY <1>2, <2>2, <3>2 DEF Listed
        <5>2. Lost(p, i)
          BY <1>2, <3>2, <4>2, <5>1 DEF MissedInv
        <5> QED BY <1>1, <1>4, <5>2
      <4> QED BY <4>1, <4>2
    <3>4. PICK g \in Handles : ratchet[g].owner = p /\ ratchet[g].secret = SecretOf(l) /\ PositionOf(l) < ratchet[g].received
      BY <1>3, <1>5, <3>2, <3>3 DEF Opened
    <3>5. SecretOf(l) = SecretOf(i) /\ ratchet[g].received \in Nat
      <4>1. l \in DOMAIN messages
        BY <3>2, InOrder
      <4> QED BY <3>4, <4>1, InOrder, HandleFacts DEF Session
    <3>6. g = h
      <4>1. Registered(p, SecretOf(i))
        BY <2>1, <2>3 DEF Registered
      <4> QED BY <1>7, <2>1, <2>3, <3>4, <3>5, <4>1 DEF ReachOf
    <3> QED BY <2>4, <2>6, <3>2, <3>4, <3>5, <3>6
  <2> QED BY <2>4, <2>5, <2>6
<1> QED BY <1>8, <1>9, <1>10, <1>11

\* What a history comes to hold was in it, or what a call stores had been found.
LEMMA RowsCome ==
    ASSUME TypeOK, HistoryInv, Steps, NEW p \in Participants, NEW i \in Known(p)'
    PROVE  \/ i \in Known(p)
           \/ \E t \in Tasks : /\ task[t] # None /\ task[t].at = "storing" /\ task[t].dev = p
                               /\ i \in task[t].found.plain \cup task[t].found.gaps
<1>1. CASE UNCHANGED rows
  BY <1>1 DEF Known
<1>2. ASSUME NEW t \in Tasks, StoresHistory(t), task[t].dev = p
      PROVE  i \in Known(p) \/ i \in task[t].found.plain \cup task[t].found.gaps
  <2>1. At(t, "storing") /\ Dev(t) = p /\ task[t].base \in Rows /\ task[t].found \in Rows
    BY <1>2, TaskFields DEF StoresHistory, At, Dev
  <2>2. i \in Merged(task[t].base, task[t].found).plain \cup Merged(task[t].base, task[t].found).gaps
    BY <1>2 DEF StoresHistory, Known
  <2>3. task[t].base.plain \cup task[t].base.gaps \subseteq Known(p)
    BY <2>1 DEF HistoryInv, Known, NoRows
  <2> QED BY <2>1, <2>2, <2>3, MergedRows
<1>3. ASSUME NEW t \in Tasks, StoresHistory(t), task[t].dev # p
      PROVE  i \in Known(p)
  BY <1>3 DEF StoresHistory, Known
<1> QED BY <1>1, <1>2, <1>3, RowsChange DEF StoresHistory

\* A new message is in nobody's history and no sync's.
LEMMA NewUnknown ==
    ASSUME TypeOK, StageInv, FoundInv, Steps, NEW t \in Tasks, Delivers(t)
    PROVE  /\ \A p \in Participants : Len(messages) + 1 \notin Known(p)'
           /\ \A u \in Tasks : Is(u, "sync")' =>
                 Len(messages) + 1 \notin task'[u].known \cup task'[u].found.plain \cup task'[u].found.gaps
<1>1. Len(messages) + 1 \notin DOMAIN messages
  BY LenProperties DEF TypeOK
<1>2. UNCHANGED rows /\ Others(t) /\ task[t] # None /\ task[t].kind = "send"
  BY KindIs DEF Delivers, Sending
<1>3. \A p \in Participants : Len(messages) + 1 \notin Known(p)'
  BY <1>1, <1>2 DEF FoundInv, Known
<1>4. ASSUME NEW u \in Tasks, Is(u, "sync")'
      PROVE  Len(messages) + 1 \notin task'[u].known \cup task'[u].found.plain \cup task'[u].found.gaps
  <2>1. u # t
    BY <1>2, <1>4 DEF Delivers, Stays, Is
  <2>2. task'[u] = task[u] /\ task[u] # None /\ task[u].kind = "sync"
    BY <1>2, <1>4, <2>1 DEF Others, Is
  <2>3. FoundBy(u) /\ task[u].listed \subseteq DOMAIN messages
    BY <2>2, KindIs DEF FoundInv
  <2> QED BY <1>1, <2>2, <2>3 DEF FoundBy
<1> QED BY <1>3, <1>4

\* A sync comes to a message of its peer's that it did not have by opening it, or
\* by a gap for one that is past.
LEMMA ComesToOpened ==
    ASSUME IInv, ReadInv, Grows, Steps, Orderly, NEW p \in Participants, NEW k, Clean(p, k), Clean(p, k)',
           NEW i \in 1..k, i \in DOMAIN messages, SenderOf(i) # p,
           NEW t \in Tasks, Is(t, "sync")', task'[t].dev = p,
           i \in task'[t].known \cup task'[t].found.plain \cup task'[t].found.gaps
    PROVE  Opened(p, i)'
<1> USE DEF IInv, ReadInv
<1>1. ASSUME Opened(p, i) PROVE Opened(p, i)'
  BY <1>1, OpenedStays
<1>2. i \in Known(p) => Opened(p, i)
  BY DEF PassedInv, Clean
<1>3. ASSUME task[t] # None, task[t].kind = "sync", task[t].dev = p,
             i \in task[t].known \cup task[t].found.plain \cup task[t].found.gaps
      PROVE  Opened(p, i)
  BY <1>3 DEF PassedInv, Clean, Is, Dev
<1>4. CASE Starts(t)
  <2>1. i \in Known(p)
    BY <1>4 DEF Starts, Is, NoRows
  <2> QED BY <1>1, <1>2, <2>1
<1>5. CASE ~Starts(t)
  <2>1. /\ task[t] # None /\ task[t].kind = "sync" /\ task'[t].dev = task[t].dev /\ task'[t].known = task[t].known
        /\ \/ Lists(t)
           \/ task'[t].found = task[t].found /\ task'[t].listed = task[t].listed
           \/ AdvancesReceiving(t)
           \/ LooksUp(t) /\ \E j \in Pending(t) : GapFor(t, j)
           \/ (Completes(t) \/ Fails(t) \/ ReadsReceiving(t)) /\ GapFor(t, task[t].id)
    BY <1>5, SyncCases
  <2>2. CASE i \in task[t].known \cup task[t].found.plain \cup task[t].found.gaps
    BY <1>1, <1>3, <2>1, <2>2
  <2>3. CASE i \notin task[t].known \cup task[t].found.plain \cup task[t].found.gaps
    <3>1. ~Lists(t)
      BY <2>1, <2>3 DEF Lists
    <3>2. CASE AdvancesReceiving(t)
      <4>1. i = task[t].id /\ task[t].at = "opening"
        BY <2>1, <2>3, <3>2 DEF AdvancesReceiving
      <4>2. PICK h \in Handles : h = task[t].handle
        BY <3>2 DEF AdvancesReceiving
      <4>3. ratchet[h].owner = p
        BY <2>1, <4>1, <4>2, InHand DEF Holding
      <4>4. messages[i].key = <<ratchet[h].secret, Peer(p), task[t].position>>
        BY <2>1, <4>1, <4>2 DEF EndsInv, At, Dev
      <4>5. SecretOf(i) = ratchet[h].secret /\ PositionOf(i) = task[t].position /\ task[t].position \in Nat
        BY <2>1, <4>4, TaskFields DEF SecretOf, PositionOf
      <4>6. h \in Handles' /\ ratchet'[h].owner = p /\ ratchet'[h].secret = SecretOf(i)
            /\ ratchet'[h].received = PositionOf(i) + 1 /\ PositionOf(i) \in Nat
        BY <3>2, <4>2, <4>3, <4>5 DEF AdvancesReceiving
      <4>7. SecretOf(i)' = SecretOf(i) /\ PositionOf(i)' = PositionOf(i) /\ PositionOf(i) < ratchet'[h].received
        BY <4>6, MessagesStay
      <4> QED BY <4>6, <4>7 DEF Opened
    <3>3. CASE LooksUp(t) /\ \E j \in Pending(t) : GapFor(t, j)
      <4>1. PICK j \in Pending(t) : GapFor(t, j)
        BY <3>3
      <4>2. i = j
        BY <2>1, <2>3, <4>1 DEF GapFor
      <4> QED BY <1>1, <2>1, <3>3, <4>1, <4>2, GapsWereOpened
    <3>4. CASE (Completes(t) \/ Fails(t) \/ ReadsReceiving(t)) /\ GapFor(t, task[t].id)
      <4>1. i = task[t].id
        BY <2>1, <2>3, <3>4 DEF GapFor
      <4> QED BY <1>1, <2>1, <3>4, <4>1, GapsWereOpened
    <3> QED BY <2>1, <2>3, <3>1, <3>2, <3>3, <3>4
  <2> QED BY <2>2, <2>3
<1> QED BY <1>4, <1>5

\* Every step keeps PassedInv.
LEMMA PassedKept ==
    ASSUME IInv, ReadInv, Grows, Steps
    PROVE  PassedInv'
<1> USE DEF IInv, ReadInv
<1> SUFFICES ASSUME Orderly', NEW p \in Participants, NEW k \in Ids, Clean(p, k)', NEW i \in 1..k, i \in DOMAIN messages',
                    SenderOf(i)' # p
             PROVE  /\ i \in Known(p)' => Opened(p, i)'
                    /\ \A t \in Tasks : Is(t, "sync")' /\ task'[t].dev = p
                          /\ i \in task'[t].known \cup task'[t].found.plain \cup task'[t].found.gaps => Opened(p, i)'
  BY DEF PassedInv, Dev
<1>1. Orderly /\ Clean(p, k)
  BY OrderlyBefore, CleanBefore
<1>2. CASE i \notin DOMAIN messages
  <2>1. PICK t \in Tasks : Delivers(t)
    BY <1>2, MessagesChange
  <2>2. i = Len(messages) + 1
    BY <1>2, <2>1 DEF Delivers
  <2> QED BY <2>1, <2>2, NewUnknown
<1>3. CASE i \in DOMAIN messages
  <2>1. SenderOf(i) # p
    BY <1>3, MessagesStay
  <2>2. ASSUME i \in Known(p)' PROVE Opened(p, i)
    <3>1. CASE i \in Known(p)
      BY <1>1, <1>3, <2>1, <3>1 DEF PassedInv
    <3>2. ASSUME NEW t \in Tasks, task[t] # None, task[t].at = "storing", task[t].dev = p,
                 i \in task[t].found.plain \cup task[t].found.gaps
          PROVE  Opened(p, i)
      <4>1. task[t].kind \in {"send", "sync"} /\ FoundBy(t)
        BY <3>2, KindIs DEF Recording, FoundInv
      <4>2. task[t].kind = "sync"
        BY <2>1, <3>2, <4>1 DEF FoundBy, Recording, NoRows
      <4> QED BY <1>1, <1>3, <2>1, <3>2, <4>2 DEF PassedInv, Is, Dev
    <3> QED BY <2>2, <3>1, <3>2, RowsCome
  <2> QED BY <1>1, <1>3, <2>1, <2>2, OpenedStays, ComesToOpened
<1> QED BY <1>2, <1>3

--------------------------------------------------------------------------------
(* KeptInv is inductive.                                                    *)

\* The positions of one chain before the newest message end below it.
LEMMA NewestIsLast ==
    ASSUME TypeOK, Orderly', NEW t \in Tasks, Delivers(t), NEW i, i = Len(messages) + 1,
           NEW j \in DOMAIN messages, SenderOf(j) = task[t].dev
    PROVE  PositionOf(j) < task[t].position
<1>1. Len(messages) \in Nat /\ DOMAIN messages = 1..Len(messages)
  BY LenProperties DEF TypeOK
<1>2. /\ DOMAIN messages' = 1..i /\ messages'[i].key[2] = task[t].dev /\ messages'[i].key[3] = task[t].position
      /\ messages'[j] = messages[j]
  BY <1>1 DEF Delivers
<1>3. \A k \in 1..i : messages'[k].key[3] = Cardinality(ChainOf(messages', k))
  BY <1>2 DEF Orderly, ChainsInOrder, ChainOf
<1>4. messages'[j].key[1] = messages'[i].key[1] /\ messages'[j].key[2] = messages'[i].key[2]
  BY <1>1, <1>2 DEF Orderly, OneSession, SenderOf
<1>5. j \in ChainOf(messages', i)
  BY <1>1, <1>4 DEF ChainOf
<1>6. messages'[j].key[3] < messages'[i].key[3]
  <2>1. PICK m : m = messages'
    OBVIOUS
  <2>2. i \in Nat /\ i \in 1..i /\ (\A k \in 1..i : m[k].key[3] = Cardinality(ChainOf(m, k))) /\ j \in ChainOf(m, i)
    BY <1>1, <1>3, <1>5, <2>1
  <2>3. m[j].key[3] < m[i].key[3]
    BY <2>2, Chained
  <2> QED BY <2>1, <2>3
<1> QED BY <1>2, <1>6 DEF PositionOf

\* A new message is past nobody's chain.
LEMMA NewUnopened ==
    ASSUME TypeOK, StageInv, SessionsInv, EndsInv, Grows, Steps, Orderly, Orderly', NEW p \in Participants,
           NEW t \in Tasks, Delivers(t), NEW i, i = Len(messages) + 1, (SenderOf(i) # p)'
    PROVE  ~Opened(p, i)'
<1>1. SenderOf(i)' = task[t].dev /\ PositionOf(i)' = task[t].position /\ ratchet' = ratchet /\ Handles' = Handles
      /\ task[t].dev # p /\ task[t].dev \in Participants /\ task[t].position \in Nat
  BY TaskFields DEF Delivers, SenderOf, PositionOf, Handles
<1>2. task[t].dev = Peer(p)
  BY <1>1, PeerDecides
<1>3. ASSUME NEW h \in Handles, ratchet[h].owner = p, task[t].position < ratchet[h].received PROVE FALSE
  <2>1. ratchet[h].received \in Nat
    BY HandleFacts DEF Session
  <2>2. PICK j \in DOMAIN messages : messages[j].key = <<ratchet[h].secret, Peer(p), ratchet[h].received - 1>>
    <3>1. ratchet[h].received > 0
      BY <1>1, <1>3, <2>1
    <3> QED BY <1>3, <3>1 DEF EndsInv
  <2>3. PositionOf(j) < task[t].position /\ PositionOf(j) = ratchet[h].received - 1
    BY <1>2, <2>2, NewestIsLast DEF SenderOf, PositionOf
  <2> QED BY <1>1, <1>3, <2>1, <2>3
<1> QED BY <1>1, <1>3 DEF Opened

\* What is newly past is what a sync opened and found.
LEMMA NewlyOpened ==
    ASSUME TypeOK, StageInv, SessionsInv, EndsInv, FoundInv, Grows, Steps, Orderly, NEW p \in Participants,
           NEW i \in DOMAIN messages, SenderOf(i) # p, Opened(p, i)', ~Opened(p, i)
    PROVE  \E u \in Tasks : Is(u, "sync")' /\ task'[u].dev = p /\ i \in task'[u].found.plain
<1>1. PICK h \in Handles' : ratchet'[h].owner = p /\ ratchet'[h].secret = SecretOf(i) /\ PositionOf(i) < ratchet'[h].received
  BY MessagesStay DEF Opened
<1>2. PositionOf(i) \in Nat /\ SenderOf(i) = Peer(p)
  BY InOrder, MessageType, PeerDecides
<1>3. ASSUME NEW t \in Tasks, RegistersIn(t, "deriving", "encrypting") \/ RegistersIn(t, "registering", "remembering")
      PROVE  FALSE
  <2>1. CASE h = Len(ratchet) + 1
    BY <1>1, <1>2, <1>3, <2>1 DEF RegistersIn
  <2>2. CASE h # Len(ratchet) + 1
    <3>1. h \in Handles /\ ratchet'[h] = ratchet[h]
      BY <1>3, <2>2 DEF RegistersIn
    <3> QED BY <1>1, <3>1 DEF Opened
  <2> QED BY <2>1, <2>2
<1>4. ASSUME NEW t \in Tasks, AdvancesSending(t) PROVE FALSE
  <2>1. h \in Handles /\ ratchet'[h].received = ratchet[h].received /\ ratchet'[h].owner = ratchet[h].owner
        /\ ratchet'[h].secret = ratchet[h].secret
    BY <1>4 DEF AdvancesSending
  <2> QED BY <1>1, <2>1 DEF Opened
<1>5. ASSUME UNCHANGED ratchet PROVE FALSE
  BY <1>1, <1>5 DEF Opened, Handles
<1>6. ASSUME NEW t \in Tasks, AdvancesReceiving(t)
      PROVE  Is(t, "sync")' /\ task'[t].dev = p /\ i \in task'[t].found.plain
  <2>1. h \in Handles /\ ratchet'[h].owner = ratchet[h].owner /\ ratchet'[h].secret = ratchet[h].secret
        /\ (h # task[t].handle => ratchet'[h] = ratchet[h])
    BY <1>6 DEF AdvancesReceiving
  <2>2. h = task[t].handle /\ ~(PositionOf(i) < ratchet[h].received)
    BY <1>1, <2>1 DEF Opened
  <2>3. task[t] # None /\ task[t].at = "opening" /\ task[t].kind = "sync" /\ task[t].dev = p /\ task[t].id \in DOMAIN messages
    <3>1. task[t] # None /\ task[t].at = "opening"
      BY <1>6 DEF AdvancesReceiving
    <3> QED BY <1>1, <2>1, <2>2, <3>1, KindIs, InHand DEF Syncing, Holding, Receiving
  <2>4. /\ task[t].position = ratchet[h].received
        /\ messages[task[t].id].key = <<ratchet[h].secret, Peer(p), task[t].position>>
        /\ ratchet[h].received \in Nat /\ ratchet'[h].received = ratchet[h].received + 1
    BY <1>6, <2>1, <2>2, <2>3, HandleFacts DEF EndsInv, At, Dev, Session, AdvancesReceiving
  <2>5. PositionOf(i) = ratchet[h].received
    BY <1>1, <1>2, <2>2, <2>4
  <2>6. SenderOf(task[t].id) = SenderOf(i) /\ PositionOf(task[t].id) = PositionOf(i)
    BY <1>2, <2>4, <2>5 DEF SenderOf, PositionOf
  <2>7. task[t].id = i
    BY <2>3, <2>6, PositionsDiffer
  <2> QED BY <1>6, <2>3, <2>7 DEF AdvancesReceiving, Stays, Is
<1> QED BY <1>3, <1>4, <1>5, <1>6, HandlesChange

\* What a sync has opened it finds, until it stores that or its loss is recorded.
LEMMA FoundStays ==
    ASSUME TypeOK, StageInv, HistoryInv, Steps, NEW p \in Participants, NEW i,
           NEW u \in Tasks, Is(u, "sync"), task[u].dev = p, i \in task[u].found.plain, i \notin rows[p].gaps
    PROVE  \/ Is(u, "sync")' /\ task'[u].dev = p /\ i \in task'[u].found.plain
           \/ i \in rows'[p].plain
           \/ <<p, Peer(p), i>> \in spoiled'
<1>1. CASE task'[u] = task[u]
  BY <1>1 DEF Is
<1>2. ASSUME NEW q \in Participants, Restarts(q), task[u].dev = q PROVE <<p, Peer(p), i>> \in spoiled'
  <2>1. <<p, Peer(p), i>> \in LostWith(u)
    BY PeerProperties DEF LostWith, Only, Is, Dev
  <2> QED BY <1>2, <2>1 DEF Restarts, Is
<1>3. CASE StoresHistory(u)
  <2>1. At(u, "storing") /\ Dev(u) = p /\ task[u].base \in Rows /\ task[u].found \in Rows
    BY <1>3, TaskFields DEF StoresHistory, At, Dev
  <2>2. i \notin task[u].base.gaps
    BY <2>1 DEF HistoryInv, NoRows
  <2>3. rows'[p] = Merged(task[u].base, task[u].found)
    BY <1>3 DEF StoresHistory
  <2> QED BY <2>1, <2>2, <2>3, MergedRows
<1>4. CASE Starts(u)
  BY <1>4 DEF Starts, Is
<1>5. CASE Proceeds(u) /\ ~StoresHistory(u)
  <2>1. Is(u, "sync")'
    <3>1. ~Delivers(u)
      BY KindIs DEF Delivers, Is, Sending
    <3>2. CASE Quiet(u)
      BY <3>2 DEF Quiet, NoRows, Same, Stays, Is
    <3>3. CASE Fetches(u) \/ RegistersIn(u, "deriving", "encrypting") \/ RegistersIn(u, "registering", "remembering")
               \/ ReadsSending(u) \/ AdvancesSending(u) \/ Remembers(u) \/ LoadsHistory(u)
      BY <3>3 DEF Fetches, RegistersIn, ReadsSending, AdvancesSending, Remembers, LoadsHistory, Same, Stays, Is
    <3>4. CASE Lists(u) \/ LooksUp(u) \/ Completes(u) \/ Fails(u) \/ Consumes(u) \/ ReadsReceiving(u) \/ AdvancesReceiving(u)
      BY <3>4 DEF Lists, LooksUp, Completes, Fails, Consumes, ReadsReceiving, AdvancesReceiving, GapFor, Same, Stays, Is
    <3> QED BY <1>5, <3>1, <3>2, <3>3, <3>4 DEF Proceeds
  <2>2. task[u] # None /\ task'[u].dev = p /\ ~Starts(u)
    BY <2>1, SyncCases DEF Is, Starts
  <2> QED BY <2>1, <2>2, SyncCases DEF Lists, AdvancesReceiving, GapFor
<1> QED BY <1>1, <1>2, <1>3, <1>4, <1>5, Changed

\* What is past is kept.
LEMMA OpenedIsKept ==
    ASSUME IInv, ReadInv, Grows, Steps, Orderly, NEW p \in Participants, NEW i \in DOMAIN messages, SenderOf(i) # p,
           Clean(p, i), Clean(p, i)', Opened(p, i)'
    PROVE  \/ i \in rows'[p].plain
           \/ \E u \in Tasks : Is(u, "sync")' /\ task'[u].dev = p /\ i \in task'[u].found.plain
<1> USE DEF IInv, ReadInv
<1>1. <<p, Peer(p), i>> \notin spoiled' /\ i \notin rows[p].gaps
  BY DEF Clean, KeptInv
<1>2. CASE Opened(p, i)
  <2>1. CASE i \in rows[p].plain
    BY <1>1, <2>1, PlainStays
  <2>2. ASSUME NEW u \in Tasks, Is(u, "sync"), task[u].dev = p, i \in task[u].found.plain
        PROVE  \/ i \in rows'[p].plain
               \/ Is(u, "sync")' /\ task'[u].dev = p /\ i \in task'[u].found.plain
    BY <1>1, <2>2, FoundStays
  <2> QED BY <1>2, <2>1, <2>2 DEF KeptInv, Dev
<1>3. CASE ~Opened(p, i)
  BY <1>3, NewlyOpened
<1> QED BY <1>2, <1>3

\* A sync has no gap for what another one, or the history, has.
LEMMA GapsAreKept ==
    ASSUME IInv, ReadInv, Grows, Steps, Orderly, NEW p \in Participants, NEW i \in DOMAIN messages, SenderOf(i) # p,
           Clean(p, i), Clean(p, i)',
           NEW t \in Tasks, Is(t, "sync")', task'[t].dev = p, i \in task'[t].found.gaps
    PROVE  i \in rows'[p].plain
<1> USE DEF IInv, ReadInv
<1>1. ASSUME i \in rows[p].plain PROVE i \in rows'[p].plain
  BY <1>1, PlainStays DEF Clean
<1>2. /\ ~Starts(t) /\ ~Lists(t)
      /\ task[t] # None /\ task[t].kind = "sync" /\ task[t].dev = p
      /\ \/ task'[t].found = task[t].found
         \/ AdvancesReceiving(t)
         \/ LooksUp(t) /\ \E j \in Pending(t) : GapFor(t, j)
         \/ (Completes(t) \/ Fails(t) \/ ReadsReceiving(t)) /\ GapFor(t, task[t].id)
  <2>1. ~Starts(t)
    BY DEF Starts, NoRows
  <2>2. ASSUME Lists(t) PROVE FALSE
    BY <2>2 DEF Lists, Stays
  <2> QED BY <2>1, <2>2, SyncCases
<1>3. CASE i \in task[t].found.gaps
  BY <1>1, <1>2, <1>3 DEF KeptInv, Is, Dev
<1>4. CASE i \notin task[t].found.gaps
  <2>1. i \in 1..i
    BY MessageType, MessagingAssumption DEF Ids
  <2>2. /\ GapFor(t, i)
        /\ \/ LooksUp(t) /\ i \in Pending(t)
           \/ (Completes(t) \/ Fails(t) \/ ReadsReceiving(t)) /\ i = task[t].id
    BY <1>2, <1>4 DEF AdvancesReceiving, GapFor
  <2>3. ReadsReceiving(t) /\ Opened(p, i)
    BY <1>2, <2>1, <2>2, GapsWereOpened
  <2>4. task[t].at = "decrypting" /\ i = task[t].id
    <3>1. task[t].at = "decrypting" /\ ~LooksUp(t)
      BY <2>3 DEF ReadsReceiving, LooksUp
    <3> QED BY <2>2, <3>1
  <2>5. FoundBy(t) /\ i \in task[t].listed \ task[t].known /\ i \notin task[t].found.plain /\ Listed(t)
    BY <1>2, <2>4 DEF FoundInv, FoundBy, StageInv, Staged, Receiving, Listed
  <2>6. ASSUME NEW u \in Tasks, Is(u, "sync"), task[u].dev = p, i \in task[u].found.plain PROVE FALSE
    <3>1. u # t
      BY <2>5, <2>6
    <3>2. FoundBy(u) /\ Staged(u) /\ i \in task[u].listed \ task[u].known
      BY <2>6 DEF FoundInv, FoundBy, StageInv, Is
    <3>3. Listed(u)
      BY <2>6, <3>2 DEF Staged, NoRows, Listed, Is
    <3>4. Lost(p, i)
      BY <1>2, <2>5, <2>6, <3>1, <3>2, <3>3 DEF OverlapInv, Dev
    <3> QED BY <2>1, <3>4, CleanNotLost
  <2> QED BY <1>1, <2>3, <2>6 DEF KeptInv, Dev
<1> QED BY <1>3, <1>4

\* Every step keeps KeptInv.
LEMMA KeptKept ==
    ASSUME IInv, ReadInv, Grows, Steps
    PROVE  KeptInv'
<1> USE DEF IInv, ReadInv
<1> SUFFICES ASSUME Orderly', NEW p \in Participants, NEW i \in DOMAIN messages', SenderOf(i)' # p, Clean(p, i)'
             PROVE  /\ Opened(p, i)' => \/ i \in rows'[p].plain
                                        \/ \E u \in Tasks : Is(u, "sync")' /\ task'[u].dev = p /\ i \in task'[u].found.plain
                    /\ i \notin rows'[p].gaps
                    /\ \A t \in Tasks : Is(t, "sync")' /\ task'[t].dev = p /\ i \in task'[t].found.gaps => i \in rows'[p].plain
  BY DEF KeptInv, Dev
<1>1. Orderly /\ Clean(p, i)
  BY OrderlyBefore, CleanBefore
<1>2. CASE i \notin DOMAIN messages
  <2>1. PICK t \in Tasks : Delivers(t)
    BY <1>2, MessagesChange
  <2>2. i = Len(messages) + 1
    BY <1>2, <2>1 DEF Delivers
  <2>3. ~Opened(p, i)'
    BY <1>1, <2>1, <2>2, NewUnopened
  <2>4. i \notin Known(p)' /\ \A u \in Tasks : Is(u, "sync")' => i \notin task'[u].found.gaps
    BY <2>1, <2>2, NewUnknown
  <2> QED BY <2>3, <2>4 DEF Known
<1>3. CASE i \in DOMAIN messages
  <2>1. SenderOf(i) # p
    BY <1>3, MessagesStay
  <2>2. i \notin rows[p].gaps /\ <<p, Peer(p), i>> \notin spoiled'
    BY <1>1, <1>3, <2>1 DEF KeptInv, Clean
  <2>3. ASSUME i \in rows'[p].gaps PROVE FALSE
    <3>1. PICK t \in Tasks : /\ task[t] # None /\ task[t].at = "storing" /\ task[t].dev = p /\ i \in task[t].found.gaps
                             /\ i \notin rows[p].plain
      BY <2>2, <2>3, GapsCome
    <3>2. task[t].kind \in {"send", "sync"} /\ FoundBy(t)
      BY <3>1, KindIs DEF Recording, FoundInv
    <3>3. task[t].kind = "sync"
      BY <3>1, <3>2 DEF FoundBy, Recording, NoRows
    <3> QED BY <1>1, <1>3, <2>1, <3>1, <3>3 DEF KeptInv, Is, Dev
  <2> QED BY <1>1, <1>3, <2>1, <2>3, OpenedIsKept, GapsAreKept
<1> QED BY <1>2, <1>3

--------------------------------------------------------------------------------
(* The theorem.                                                             *)

\* Nothing has been said, and nothing is known.
LEMMA ReadInit == Init => ReadInv
<1> SUFFICES ASSUME Init PROVE ReadInv
  OBVIOUS
<1>1. /\ DOMAIN messages = {} /\ Handles = {} /\ DOMAIN handshakes = {}
      /\ \A t \in Tasks : task[t] = None
      /\ \A p \in Participants : rows[p] = NoRows /\ cached[p] = 0 /\ Known(p) = {}
      /\ consumed = {}
  BY DEF Init, Handles, Known, NoRows
<1>2. FoundInv /\ HistoryInv /\ OwnInv /\ HandInv /\ PrivateInv
  BY <1>1 DEF FoundInv, HistoryInv, OwnInv, HandInv, PrivateInv, Private, At, Is, NoRows
<1>3. FirstInv /\ EndsInv /\ OverlapInv /\ MissedInv /\ ConsumedInv
  BY <1>1 DEF FirstInv, EndsInv, OverlapInv, MissedInv, ConsumedInv, Is, At, Listed
<1>4. ReachInv /\ PassedInv /\ KeptInv
  BY <1>1 DEF ReachInv, PassedInv, KeptInv
<1> QED BY <1>2, <1>3, <1>4 DEF ReadInv

\* Every step keeps what can be read.
LEMMA ReadStep == IInv /\ ReadInv /\ [Next]_vars => ReadInv'
<1> SUFFICES ASSUME IInv, ReadInv, [Next]_vars PROVE ReadInv'
  OBVIOUS
<1>1. /\ TypeOK /\ StageInv /\ SessionsInv /\ RegistrationInv /\ LockInv
      /\ FoundInv /\ HistoryInv /\ OwnInv /\ HandInv /\ PrivateInv /\ FirstInv /\ EndsInv
      /\ OverlapInv /\ MissedInv /\ ConsumedInv
  BY DEF IInv, ChainInv, ReadInv
<1>2. Grows /\ Steps
  BY <1>1, GrowsStep, StepsIs
<1>3. FoundInv' /\ HistoryInv' /\ OwnInv' /\ HandInv'
  BY <1>1, <1>2, FoundKept, HistoryKept, OwnKept, HandKept
<1>4. PrivateInv' /\ FirstInv' /\ EndsInv' /\ OverlapInv' /\ MissedInv' /\ ConsumedInv'
  BY <1>1, <1>2, PrivateKept, FirstKept, EndsKept, OverlapKept, MissedKept, ConsumedKept
<1>5. ReachInv' /\ PassedInv' /\ KeptInv'
  BY <1>2, ReachKept, PassedKept, KeptKept
<1> QED BY <1>3, <1>4, <1>5 DEF ReadInv

\* A device shows "cannot be decrypted" for no message but one that a recorded
\* disturbance befell, as long as the server has each chain in order and one session
\* serves the conversation: for any number of calls under way, messages, pages and
\* restarts.  A list cut short and an insert that commits late are among them.
THEOREM ReadableStays == Spec => []ReadableUnlessDisturbed
<1>1. IInv /\ ReadInv => ReadableUnlessDisturbed
  <2> SUFFICES ASSUME IInv, ReadInv, Orderly, NEW p \in Participants, NEW i \in rows[p].gaps
               PROVE  <<p, SenderOf(i), i>> \in spoiled
    BY DEF ReadableUnlessDisturbed, Orderly
  <2>1. i \in DOMAIN messages /\ TypeOK
    BY DEF ReadInv, FoundInv, Known, IInv
  <2>2. CASE SenderOf(i) = p
    BY <2>2 DEF ReadInv, OwnInv
  <2>3. CASE SenderOf(i) # p
    <3>1. SenderOf(i) = Peer(p) /\ i \in Ids
      BY <2>1, <2>3, MessageType, PeerDecides
    <3>2. ~Clean(p, i)
      BY <2>1, <2>3 DEF ReadInv, KeptInv
    <3> QED BY <3>1, <3>2 DEF Clean
  <2> QED BY <2>2, <2>3
<1>2. IInv /\ ReadInv /\ [Next]_vars => ReadInv'
  BY ReadStep
<1> QED BY InductiveInvariant, ReadInit, <1>1, <1>2, PTL DEF Spec

================================================================================
