-------------------------------- MODULE Grants --------------------------------
(***************************************************************************)
(* The store of Permissions (services/api/internal/permissions/store.go    *)
(* and postgres_store.go) and the decisions the service takes on what it   *)
(* reads there.  The tables outlive the process.  Times are left out.      *)
(*                                                                         *)
(* Permissions' own calls step through these operators one read and one    *)
(* write at a time in module Permissions; FileObjects uses them to say     *)
(* what a whole call does.                                                 *)
(***************************************************************************)
EXTENDS Naturals

CONSTANTS
    Subjects,   \* identities that hold and give grants
    Actions,
    Resources,  \* ResourceRefs, of all resource types
    Scopes,
    TypeOf,     \* TypeOf[r]: the ResourceType of r
    None

VARIABLES
    grants,     \* permissions_grants: the active grants
    owners,     \* permissions_owners: owners[r], or None
    policies    \* permissions_policies: the resource types that have one

store == <<grants, owners, policies>>

Grant == [grantor : Subjects, subject : Subjects, action : Actions,
          resource : Resources, scope : Scopes]

ASSUME GrantsAssumption == None \notin Subjects /\ None \notin Grant

GrantsTypeOK ==
    /\ grants \subseteq Grant
    /\ owners \in [Resources -> Subjects \cup {None}]
    /\ policies \subseteq {TypeOf[r] : r \in Resources}

GrantsInit ==
    /\ grants = {}
    /\ owners = [r \in Resources |-> None]
    /\ policies = {}

--------------------------------------------------------------------------------
(* Scopes: the known ones are ordered, an unknown one only equals itself.   *)

scopeRank == [read |-> 1, write |-> 2, full |-> 3, owner |-> 4]

normalizeScope(scope) == IF scope = "" THEN "full" ELSE scope

scopeAtLeast(held, requested) ==
    LET h == normalizeScope(held)
        r == normalizeScope(requested)
    IN  \/ h = r
        \/ h \in DOMAIN scopeRank /\ r \in DOMAIN scopeRank /\ scopeRank[h] >= scopeRank[r]

--------------------------------------------------------------------------------
(* Reads and writes of the tables.                                          *)

\* The table's key: one active grant of an action on a resource per subject.
SameKey(g, h) == g.subject = h.subject /\ g.action = h.action /\ g.resource = h.resource

activeGrant(s, a, r) == {g \in grants : g.subject = s /\ g.action = a /\ g.resource = r}

grantsForResource(r) == {g \in grants : g.resource = r}
grantsForSubject(s) == {g \in grants : g.subject = s}

ownerOf(r) == owners[r]
hasPolicy(t) == t \in policies

\* Mutated form of putGrant: each grantor takes the resource over.
putGrantTakingOver(g) ==
    /\ grants' = {h \in grants : ~SameKey(h, g)} \cup {g}
    /\ owners' = [owners EXCEPT ![g.resource] = g.grantor]
    /\ UNCHANGED policies

\* One transaction: the grant replaces its predecessor, and its grantor
\* becomes the owner of a resource that has none.  Ownership is never undone.
putGrant(g) ==
    /\ grants' = {h \in grants : ~SameKey(h, g)} \cup {g}
    /\ owners' = [owners EXCEPT ![g.resource] = IF @ = None THEN g.grantor ELSE @]
    /\ UNCHANGED policies

removeGrant(s, a, r) ==
    /\ grants' = grants \ activeGrant(s, a, r)
    /\ UNCHANGED <<owners, policies>>

setPolicy(t) ==
    /\ policies' = policies \cup {t}
    /\ UNCHANGED <<grants, owners>>

--------------------------------------------------------------------------------
(* Decisions.                                                               *)

\* Fail closed without a policy; the owner needs no grant; no scope is asked.
\* The owner never changes and comes with the first grant, so that reading
\* owner and grant one after the other decides as one read of both.
CheckPermission(s, a, r) ==
    /\ hasPolicy(TypeOf[r])
    /\ ownerOf(r) = s \/ activeGrant(s, a, r) # {}

\* Mutated form of authorizeGrant: a holder may give a wider scope than its own.
authorizeAnyScope(g) ==
    \/ ownerOf(g.resource) \in {None, g.grantor}
    \/ activeGrant(g.grantor, g.action, g.resource) # {}

\* Any subject may give the first grant on a resource, its owner any grant,
\* and a holder the same action in a scope no wider than its own.
authorizeGrant(g) ==
    \/ ownerOf(g.resource) \in {None, g.grantor}
    \/ \E h \in activeGrant(g.grantor, g.action, g.resource) : scopeAtLeast(h.scope, g.scope)

\* grantor is who asks for the grant `existing` to be revoked.
authorizeRevoke(grantor, existing) ==
    \/ ownerOf(existing.resource) = grantor
    \/ existing.grantor = grantor
    \/ existing.subject = grantor

================================================================================
