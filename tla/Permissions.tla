------------------------------ MODULE Permissions ------------------------------
(***************************************************************************)
(* The Permissions service (services/api/internal/permissions/service.go). *)
(* A call runs in the goroutine of its caller: an HTTP request, or another *)
(* component of the same process.  It decides on what it reads and writes  *)
(* later, without a transaction around the two and without a lock.         *)
(*                                                                         *)
(* A read that fails looks like a missing grant and never like a missing   *)
(* owner; a write that fails panics.  An audit event that cannot be        *)
(* emitted makes the call fail after its change has been stored.           *)
(***************************************************************************)
EXTENDS Grants

CONSTANT Workers    \* goroutines

VARIABLES
    call,       \* call[w]: the GrantPermission or RevokePermission w runs, or None
    step,       \* step[w]: how far that call is, or how it ended
    existing,   \* existing[w]: the grant a RevokePermission read, or None
    conferred,  \* history: every grant ever stored
    founders    \* history: <<s, r>> such that s was let give the first grant on r

calls == <<call, step, existing>>
ghosts == <<conferred, founders>>
permissionsVars == <<store, calls, ghosts>>

Call == [op : {"grant", "revoke"}, grant : Grant]

ASSUME PermissionsAssumption == None \notin Call

Outcome == {"done", "denied", "notFound", "unaudited", "panicked"}
Step == {"idle", "called", "allowed"} \cup Outcome

PermissionsTypeOK ==
    /\ GrantsTypeOK
    /\ call \in [Workers -> Call \cup {None}]
    /\ step \in [Workers -> Step]
    /\ existing \in [Workers -> Grant \cup {None}]
    /\ conferred \subseteq Grant
    /\ founders \subseteq Subjects \X Resources
    /\ \A w \in Workers : call[w] = None <=> step[w] = "idle"

PermissionsInit ==
    /\ GrantsInit
    /\ call = [w \in Workers |-> None]
    /\ step = [w \in Workers |-> "idle"]
    /\ existing = [w \in Workers |-> None]
    /\ conferred = {}
    /\ founders = {}

Goes(w, from, to) == step[w] = from /\ step' = [step EXCEPT ![w] = to]

Runs(w, op) == call[w] # None /\ call[w].op = op

--------------------------------------------------------------------------------
(* DefinePolicy, called by each service when it is constructed.             *)

DefinePolicy(t) ==
    /\ setPolicy(t)
    /\ UNCHANGED <<calls, ghosts>>

--------------------------------------------------------------------------------
(* GrantPermission.                                                         *)

\* A worker starts a call c.
Invoke(w, c) ==
    /\ Goes(w, "idle", "called")
    /\ call' = [call EXCEPT ![w] = c]
    /\ UNCHANGED <<store, existing, ghosts>>

\* The reads of authorizeGrant.
AllowGrant(w) ==
    /\ Runs(w, "grant")
    /\ authorizeGrant(call[w].grant)
    /\ Goes(w, "called", "allowed")
    /\ founders' = IF owners[call[w].grant.resource] = None
                   THEN founders \cup {<<call[w].grant.grantor, call[w].grant.resource>>}
                   ELSE founders
    /\ UNCHANGED <<store, call, existing, conferred>>

DenyGrant(w) ==
    /\ Runs(w, "grant")
    /\ ~authorizeGrant(call[w].grant)
    /\ Goes(w, "called", "denied")
    /\ UNCHANGED <<store, call, existing, ghosts>>

\* putGrant, the history entry and the audit event; or the event fails, or the
\* entry does.
StoreGrant(w, outcome) ==
    /\ Runs(w, "grant")
    /\ Goes(w, "allowed", outcome)
    /\ putGrant(call[w].grant)
    /\ conferred' = conferred \cup {call[w].grant}
    /\ UNCHANGED <<call, existing, founders>>

--------------------------------------------------------------------------------
(* RevokePermission: call[w].grant names the key, its grantor who asks.     *)

RevokedKey(w) == activeGrant(call[w].grant.subject, call[w].grant.action, call[w].grant.resource)

\* Mutated form of AllowRevoke: whoever asks is obeyed.
AllowRevokeUnchecked(w) ==
    /\ Runs(w, "revoke")
    /\ \E g \in RevokedKey(w) : existing' = [existing EXCEPT ![w] = g]
    /\ Goes(w, "called", "allowed")
    /\ UNCHANGED <<store, call, ghosts>>

AllowRevoke(w) ==
    /\ Runs(w, "revoke")
    /\ \E g \in RevokedKey(w) :
          /\ authorizeRevoke(call[w].grant.grantor, g)
          /\ existing' = [existing EXCEPT ![w] = g]
    /\ Goes(w, "called", "allowed")
    /\ UNCHANGED <<store, call, ghosts>>

DenyRevoke(w) ==
    /\ Runs(w, "revoke")
    /\ \/ RevokedKey(w) = {} /\ Goes(w, "called", "notFound")
       \/ /\ \E g \in RevokedKey(w) : ~authorizeRevoke(call[w].grant.grantor, g)
          /\ Goes(w, "called", "denied")
    /\ UNCHANGED <<store, call, existing, ghosts>>

\* removeGrant deletes what the table holds under the key by now.
DeleteGrant(w, outcome) ==
    /\ Runs(w, "revoke")
    /\ Goes(w, "allowed", outcome)
    /\ removeGrant(call[w].grant.subject, call[w].grant.action, call[w].grant.resource)
    /\ UNCHANGED <<call, existing, ghosts>>

--------------------------------------------------------------------------------
(* Failures, and the return to the caller.                                  *)

\* The store cannot be read: the call is denied whatever the tables hold.
DenyUnread(w) ==
    /\ call[w] # None
    /\ \/ Goes(w, "called", "denied")
       \/ Goes(w, "called", "notFound") /\ Runs(w, "revoke")
    /\ UNCHANGED <<store, call, existing, ghosts>>

\* putGrant, removeGrant or the history entry of a denial fails.
WriteFails(w) ==
    /\ \E from \in {"called", "allowed"} : Goes(w, from, "panicked")
    /\ UNCHANGED <<store, call, existing, ghosts>>

Unrecorded == {"unaudited", "panicked"}

Forgotten(ws) ==
    /\ call' = [w \in Workers |-> IF w \in ws THEN None ELSE call[w]]
    /\ step' = [w \in Workers |-> IF w \in ws THEN "idle" ELSE step[w]]
    /\ existing' = [w \in Workers |-> IF w \in ws THEN None ELSE existing[w]]

Return(w) ==
    /\ step[w] \in Outcome
    /\ Forgotten({w})
    /\ UNCHANGED <<store, ghosts>>

Restart ==
    /\ Forgotten(Workers)
    /\ UNCHANGED <<store, ghosts>>

Permission(w) ==
    \/ AllowGrant(w) \/ DenyGrant(w) \/ StoreGrant(w, "done")
    \/ AllowRevoke(w) \/ DenyRevoke(w) \/ DeleteGrant(w, "done")

PermissionFails(w) ==
    \/ DenyUnread(w) \/ WriteFails(w)
    \/ \E outcome \in Unrecorded : StoreGrant(w, outcome) \/ DeleteGrant(w, outcome)

PermissionsNext ==
    \/ \E r \in Resources : DefinePolicy(TypeOf[r])
    \/ \E w \in Workers, c \in Call : Invoke(w, c)
    \/ \E w \in Workers : Permission(w) \/ PermissionFails(w) \/ Return(w)
    \/ Restart

PermissionsSpec == PermissionsInit /\ [][PermissionsNext]_permissionsVars

--------------------------------------------------------------------------------
(* What can go wrong.                                                       *)

\* One row per key: a CheckPermission or a revocation never meets two grants
\* of the same action on the same resource to the same subject.
KeyUnique == \A g, h \in grants : SameKey(g, h) => g = h

\* A grant is first stored in the name of the owner of its resource, of a subject
\* that had been given the action before in a scope at least as wide, or of one
\* that was let through while the resource had no owner.
GrantsTraceToOwner ==
    [][\A g \in conferred' \ conferred :
          \/ g.grantor = owners'[g.resource]
          \/ \E h \in conferred :
                /\ h.subject = g.grantor /\ h.action = g.action /\ h.resource = g.resource
                /\ scopeAtLeast(h.scope, g.scope)
          \/ <<g.grantor, g.resource>> \in founders
      ]_permissionsVars

\* A grant disappears only at the hands of somebody who had a right to the grant that
\* stood in its place when RevokePermission read it: as the resource's owner, as that
\* grant's grantor or as its subject.  The grant that is lost may be a later one, of
\* another grantor, which the code does not compare with what it read.
RevokedByRight ==
    [][\A g \in grants \ grants' :
          \/ \E h \in grants' : SameKey(g, h)
          \/ \E w \in Workers :
                /\ Runs(w, "revoke") /\ existing[w] # None /\ SameKey(existing[w], g)
                /\ authorizeRevoke(call[w].grant.grantor, existing[w])
      ]_permissionsVars

================================================================================
