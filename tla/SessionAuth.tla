------------------------------ MODULE SessionAuth ------------------------------
(***************************************************************************)
(* Session / Request Authentication (services/api/internal/sessionauth)    *)
(* over its production stores, Redis for challenge nonces and Postgres for *)
(* sessions and device generations, with the part of Identity it consults. *)
(*                                                                         *)
(* Every handler is an HTTP goroutine that calls the stores one at a time; *)
(* each store call is atomic, anything may happen between two of them.  An *)
(* element of Issues is one IssueSession call and, at the same time, the   *)
(* token that call would mint (generateSessionToken never repeats).  An    *)
(* element of Ops is one call of a revocation or of ValidateSession.       *)
(*                                                                         *)
(* Time is abstracted: a nonce's TTL or a session's expires_at may have     *)
(* passed whenever a handler looks, so every look-up may also find nothing. *)
(***************************************************************************)
EXTENDS Naturals, FiniteSets

CONSTANTS Identities, Devices, Nonces, Issues, Ops, None

Key == Identities \X Devices

VARIABLES
    binding,     \* binding[k]: what Identity says of device k
    challenge,   \* challenge[n]: the Redis entry of nonce n, None before it exists
    generation,  \* generation[k]: sessionauth_device_generations, 0 without a row
    sessions,    \* the tokens that have a row in sessionauth_sessions
    ipc, asked, observed,  \* IssueSession calls: step, arguments, observedGeneration
    opc, op,               \* other calls: step, arguments and resolved caller
    audited,     \* the calls whose event is in the audit log
    doomed,      \* history: calls for a device that had begun when it was revoked
    removed      \* history: devices unbound in Identity and revoked after that, until
                 \* Identity lists them again

storeVars == <<binding, challenge, generation, sessions>>
issueVars == <<ipc, asked, observed>>
opVars == <<opc, op>>
ghosts == <<doomed, removed>>
vars == <<storeVars, issueVars, opVars, audited, ghosts>>

--------------------------------------------------------------------------------
Binding == {"never", "bound", "revoked"}
Challenge == [key : Key, open : BOOLEAN]
Request == [key : Key, nonce : Nonces]
Operation ==
    [kind : {"one", "all", "validate"}, caller : Issues]
        \cup [kind : {"device"}, caller : Issues, device : Devices]

ASSUME NoneAssumption ==
    None \notin Key /\ None \notin Challenge /\ None \notin Request /\ None \notin Operation

InFlight == {"observed", "peeked", "resolved", "consumed"}
IssueStep == {"idle", "issued", "returned", "rejected", "failed"} \cup InFlight
OpStep == {"idle", "authorised", "swept", "returned", "rejected", "failed"}

TypeOK ==
    /\ binding \in [Key -> Binding]
    /\ challenge \in [Nonces -> Challenge \cup {None}]
    /\ generation \in [Key -> Nat]
    /\ sessions \subseteq Issues
    /\ ipc \in [Issues -> IssueStep]
    /\ asked \in [Issues -> Request \cup {None}]
    /\ \A c \in Issues : asked[c] = None <=> ipc[c] = "idle"
    /\ observed \in [Issues -> Nat]
    /\ opc \in [Ops -> OpStep]
    /\ op \in [Ops -> Operation \cup {None}]
    /\ \A o \in Ops : opc[o] \in {"authorised", "swept"} => op[o] # None
    /\ \A c \in sessions : ipc[c] \in {"issued", "returned", "failed"}
    /\ \A o \in Ops : op[o] # None => ipc[op[o].caller] \in {"issued", "returned", "failed"}
    /\ audited \subseteq Issues \cup Ops
    /\ doomed \subseteq Issues
    /\ removed \subseteq Key

--------------------------------------------------------------------------------
HolderOf(t) == asked[t].key
IdentityOf(t) == HolderOf(t)[1]

\* peek and consumeScript: the entry exists and is bound to this device.
NonceOpen(n, k) == challenge[n] # None /\ challenge[n].open /\ challenge[n].key = k

\* The calls for device k that have begun.
BegunForDevice(k) == {c \in Issues : ipc[c] # "idle" /\ asked[c].key = k}

Init ==
    /\ binding = [k \in Key |-> "never"]
    /\ challenge = [n \in Nonces |-> None]
    /\ generation = [k \in Key |-> 0]
    /\ sessions = {}
    /\ ipc = [c \in Issues |-> "idle"]
    /\ asked = [c \in Issues |-> None]
    /\ observed = [c \in Issues |-> 0]
    /\ opc = [o \in Ops |-> "idle"]
    /\ op = [o \in Ops |-> None]
    /\ audited = {}
    /\ doomed = {}
    /\ removed = {}

--------------------------------------------------------------------------------
(* Identity, as ResolveDevicePublicKey sees it.  A device id is generated   *)
(* afresh by every binding, so it belongs to one identity and no BindDevice *)
(* gives it out a second time.  But an edit of the record that overwrites   *)
(* another (see Identity) can take a device off the list, as RevokeDevice   *)
(* does, or put a revoked one back.                                         *)

BindDevice(k) ==
    /\ \A i \in Identities : binding[<<i, k[2]>>] = "never"
    /\ binding' = [binding EXCEPT ![k] = "bound"]
    /\ UNCHANGED <<challenge, generation, sessions, issueVars, opVars, audited, ghosts>>

RevokeDevice(k) ==
    /\ binding[k] = "bound"
    /\ binding' = [binding EXCEPT ![k] = "revoked"]
    /\ UNCHANGED <<challenge, generation, sessions, issueVars, opVars, audited, ghosts>>

\* The edit that undoes the removal also undoes what was known of it.
Reinstate(k) ==
    /\ binding[k] = "revoked"
    /\ binding' = [binding EXCEPT ![k] = "bound"]
    /\ removed' = removed \ {k}
    /\ UNCHANGED <<challenge, generation, sessions, issueVars, opVars, audited,
                   doomed>>

--------------------------------------------------------------------------------
(* Nonces.  Anyone may ask for a challenge for any device.                  *)

GetSessionChallenge(n, k) ==
    /\ challenge[n] = None
    /\ challenge' = [challenge EXCEPT ![n] = [key |-> k, open |-> TRUE]]
    /\ UNCHANGED <<binding, generation, sessions, issueVars, opVars, audited, ghosts>>

--------------------------------------------------------------------------------
(* IssueSession, step by step.                                              *)

\* currentDeviceGeneration: a plain read that folds a failed query into 0.
ReadableGenerations(k) == {generation[k], 0}

ObserveGeneration(c, k, n) ==
    /\ ipc[c] = "idle"
    /\ ipc' = [ipc EXCEPT ![c] = "observed"]
    /\ asked' = [asked EXCEPT ![c] = [key |-> k, nonce |-> n]]
    /\ \E g \in ReadableGenerations(k) : observed' = [observed EXCEPT ![c] = g]
    /\ UNCHANGED <<storeVars, opVars, audited, ghosts>>

\* A rejected call audits its rejection, best effort.
Reject(c) ==
    /\ ipc' = [ipc EXCEPT ![c] = "rejected"]
    /\ audited' \in {audited, audited \cup {c}}

PeekNonce(c) ==
    /\ ipc[c] = "observed"
    /\ \/ /\ NonceOpen(asked[c].nonce, asked[c].key)
          /\ ipc' = [ipc EXCEPT ![c] = "peeked"]
          /\ UNCHANGED audited
       \/ Reject(c)  \* not there, expired, or Redis could not answer
    /\ UNCHANGED <<storeVars, asked, observed, opVars, ghosts>>

\* A device Identity does not list rejects; a failed lookup fails the call.
ResolveDevice(c) ==
    /\ ipc[c] = "peeked"
    /\ \/ /\ binding[asked[c].key] = "bound"
          /\ ipc' = [ipc EXCEPT ![c] = "resolved"]
          /\ UNCHANGED audited
       \/ /\ binding[asked[c].key] # "bound"
          /\ Reject(c)
       \/ /\ ipc' = [ipc EXCEPT ![c] = "failed"]
          /\ UNCHANGED audited
    /\ UNCHANGED <<storeVars, asked, observed, opVars, ghosts>>

\* Mutated form of ConsumeNonce: the nonce is checked but not deleted.
ConsumeNonceKeepsEntry(c) ==
    /\ ipc[c] = "resolved"
    /\ \/ /\ NonceOpen(asked[c].nonce, asked[c].key)
          /\ ipc' = [ipc EXCEPT ![c] = "consumed"]
          /\ UNCHANGED audited
       \/ Reject(c)
    /\ UNCHANGED <<storeVars, asked, observed, opVars, ghosts>>

\* verifyProof, then consumeIfValid.  A bad signature leaves the nonce alone.
ConsumeNonce(c) ==
    LET n == asked[c].nonce IN
    /\ ipc[c] = "resolved"
    /\ \/ /\ NonceOpen(n, asked[c].key)
          /\ challenge' = [challenge EXCEPT ![n].open = FALSE]
          /\ ipc' = [ipc EXCEPT ![c] = "consumed"]
          /\ UNCHANGED audited
       \/ Reject(c) /\ UNCHANGED challenge
    /\ UNCHANGED <<binding, generation, sessions, asked, observed, opVars, ghosts>>

\* Mutated form of CommitSession: a blind put.
CommitBlindly(c) ==
    /\ ipc[c] = "consumed"
    /\ sessions' = sessions \cup {c}
    /\ ipc' = [ipc EXCEPT ![c] = "issued"]
    /\ UNCHANGED <<binding, challenge, generation, asked, observed, opVars, audited, ghosts>>

\* putIfDeviceGenerationUnchanged: one transaction under the generation's row lock.
CommitSession(c) ==
    /\ ipc[c] = "consumed"
    /\ \/ /\ generation[asked[c].key] = observed[c]
          /\ sessions' = sessions \cup {c}
          /\ ipc' = [ipc EXCEPT ![c] = "issued"]
          /\ UNCHANGED audited
       \/ /\ generation[asked[c].key] # observed[c]
          /\ Reject(c)
          /\ UNCHANGED sessions
    /\ UNCHANGED <<binding, challenge, generation, asked, observed, opVars, ghosts>>

\* Mutated form of ReturnSession: a failed emit is swallowed.
ReturnUnaudited(c) ==
    /\ ipc[c] = "issued"
    /\ ipc' = [ipc EXCEPT ![c] = "returned"]
    /\ audited' \in {audited, audited \cup {c}}
    /\ UNCHANGED <<storeVars, asked, observed, opVars, ghosts>>

\* The final emit: when it fails the caller gets an error, the session stays.
ReturnSession(c) ==
    /\ ipc[c] = "issued"
    /\ \/ /\ ipc' = [ipc EXCEPT ![c] = "returned"]
          /\ audited' = audited \cup {c}
       \/ /\ ipc' = [ipc EXCEPT ![c] = "failed"]
          /\ UNCHANGED audited
    /\ UNCHANGED <<storeVars, asked, observed, opVars, ghosts>>

\* A store panic (recovered by the router) or a crash of the process.
AbortIssue(c) ==
    /\ ipc[c] \in InFlight \cup {"issued"}
    /\ ipc' = [ipc EXCEPT ![c] = "failed"]
    /\ UNCHANGED <<storeVars, asked, observed, opVars, audited, ghosts>>

--------------------------------------------------------------------------------
(* The other handlers first resolve a token, then act on the stored row     *)
(* they read.  A rejection is emitted with an empty actor, which            *)
(* audit.Service.Emit refuses, so it leaves no event.                       *)

\* Mutated form of Begin: the resolved caller is not kept.
BeginForgetful(o, request) ==
    /\ opc[o] = "idle"
    /\ request.caller \in sessions
    /\ opc' = [opc EXCEPT ![o] = "authorised"]
    /\ UNCHANGED <<storeVars, issueVars, op, audited, ghosts>>

\* sessions.get, for all but "one" through resolveCaller's expiry check.
Begin(o, request) ==
    /\ opc[o] = "idle"
    /\ \/ /\ request.caller \in sessions
          /\ op' = [op EXCEPT ![o] = request]
          /\ opc' = [opc EXCEPT ![o] = "authorised"]
       \/ /\ opc' = [opc EXCEPT ![o] = "rejected"]
          /\ UNCHANGED op
    /\ UNCHANGED <<storeVars, issueVars, audited, ghosts>>

BeginRevokeSession(o, t) == Begin(o, [kind |-> "one", caller |-> t])
BeginRevokeAll(o, t) == Begin(o, [kind |-> "all", caller |-> t])
BeginRevokeForDevice(o, t, d) == Begin(o, [kind |-> "device", caller |-> t, device |-> d])
BeginValidate(o, t) == Begin(o, [kind |-> "validate", caller |-> t])

\* sessions.delete(token)
RevokeSession(o) ==
    /\ opc[o] = "authorised" /\ op[o].kind = "one"
    /\ sessions' = sessions \ {op[o].caller}
    /\ opc' = [opc EXCEPT ![o] = "swept"]
    /\ UNCHANGED <<binding, challenge, generation, issueVars, op, audited, ghosts>>

\* deleteAllForIdentity: one DELETE, no generation is touched.
RevokeAllSessions(o) ==
    LET i == IdentityOf(op[o].caller) IN
    /\ opc[o] = "authorised" /\ op[o].kind = "all"
    /\ sessions' = {t \in sessions : IdentityOf(t) # i}
    /\ opc' = [opc EXCEPT ![o] = "swept"]
    /\ UNCHANGED <<binding, challenge, generation, issueVars, op, audited, ghosts>>

\* revokeAllForDevice: one transaction bumps the generation and deletes.  The
\* device id comes from the request, the identity from the resolved token.
TargetDevice(o) == <<IdentityOf(op[o].caller), op[o].device>>

\* Mutated form: the sessions go, the generation stays.
SweepWithoutBump(o) ==
    LET k == TargetDevice(o) IN
    /\ opc[o] = "authorised" /\ op[o].kind = "device"
    /\ sessions' = {t \in sessions : HolderOf(t) # k}
    /\ doomed' = doomed \cup BegunForDevice(k)
    /\ removed' = IF binding[k] = "revoked" THEN removed \cup {k} ELSE removed
    /\ opc' = [opc EXCEPT ![o] = "swept"]
    /\ UNCHANGED <<binding, challenge, generation, issueVars, op, audited>>

\* Mutated form: the DELETE filters on device_id alone.
SweepAnyIdentity(o) ==
    LET k == TargetDevice(o) IN
    /\ opc[o] = "authorised" /\ op[o].kind = "device"
    /\ generation' = [generation EXCEPT ![k] = @ + 1]
    /\ sessions' = {t \in sessions : HolderOf(t)[2] # k[2]}
    /\ doomed' = doomed \cup BegunForDevice(k)
    /\ opc' = [opc EXCEPT ![o] = "swept"]
    /\ UNCHANGED <<binding, challenge, issueVars, op, audited, removed>>

RevokeSessionsForDevice(o) ==
    LET k == TargetDevice(o) IN
    /\ opc[o] = "authorised" /\ op[o].kind = "device"
    /\ generation' = [generation EXCEPT ![k] = @ + 1]
    /\ sessions' = {t \in sessions : HolderOf(t) # k}
    /\ doomed' = doomed \cup BegunForDevice(k)
    /\ removed' = IF binding[k] = "revoked" THEN removed \cup {k} ELSE removed
    /\ opc' = [opc EXCEPT ![o] = "swept"]
    /\ UNCHANGED <<binding, challenge, issueVars, op, audited>>

\* Mutated form of TouchLastUsed: the row read earlier is written back.
TouchByUpsert(o) ==
    /\ opc[o] = "authorised" /\ op[o].kind = "validate"
    /\ sessions' = sessions \cup {op[o].caller}
    /\ opc' = [opc EXCEPT ![o] = "returned"]
    /\ UNCHANGED <<binding, challenge, generation, issueVars, op, audited, ghosts>>

\* touchLastUsed updates the row if there still is one; it inserts nothing.
TouchLastUsed(o) ==
    /\ opc[o] = "authorised" /\ op[o].kind = "validate"
    /\ sessions' = sessions
    /\ opc' = [opc EXCEPT ![o] = "returned"]
    /\ UNCHANGED <<binding, challenge, generation, issueVars, op, audited, ghosts>>

\* The final emit of a revocation: on failure the revocation stands.
ReturnRevocation(o) ==
    /\ opc[o] = "swept"
    /\ \/ /\ opc' = [opc EXCEPT ![o] = "returned"]
          /\ audited' = audited \cup {o}
       \/ /\ opc' = [opc EXCEPT ![o] = "failed"]
          /\ UNCHANGED audited
    /\ UNCHANGED <<storeVars, issueVars, op, ghosts>>

AbortOp(o) ==
    /\ opc[o] \in {"authorised", "swept"}
    /\ opc' = [opc EXCEPT ![o] = "failed"]
    /\ UNCHANGED <<storeVars, issueVars, op, audited, ghosts>>

--------------------------------------------------------------------------------
Environment ==
    \/ \E k \in Key : BindDevice(k) \/ RevokeDevice(k) \/ Reinstate(k)
    \/ \E n \in Nonces, k \in Key : GetSessionChallenge(n, k)

IssueSession(c) ==
    \/ \E k \in Key, n \in Nonces : ObserveGeneration(c, k, n)
    \/ PeekNonce(c) \/ ResolveDevice(c) \/ ConsumeNonce(c) \/ CommitSession(c)
    \/ ReturnSession(c) \/ AbortIssue(c)

OtherCall(o) ==
    \/ \E t \in Issues :
        \/ BeginRevokeSession(o, t) \/ BeginRevokeAll(o, t) \/ BeginValidate(o, t)
        \/ \E d \in Devices : BeginRevokeForDevice(o, t, d)
    \/ RevokeSession(o) \/ RevokeAllSessions(o) \/ RevokeSessionsForDevice(o)
    \/ TouchLastUsed(o) \/ ReturnRevocation(o) \/ AbortOp(o)

Next ==
    \/ Environment
    \/ \E c \in Issues : IssueSession(c)
    \/ \E o \in Ops : OtherCall(o)

Spec == Init /\ [][Next]_vars

--------------------------------------------------------------------------------
(* Properties.                                                              *)

\* When a RevokeSessionsForDevice call has swept a device, no IssueSession
\* call that had begun by then for that device has, or ever gets, a session:
\* sessions_revoked is a completion guarantee (store.go, SessionStore).
DeviceRevocationComplete == doomed \cap sessions = {}

\* "Remove this device" (RevokeDevice, then RevokeSessionsForDevice) cuts the
\* device off for as long as Identity does not list it again, whatever
\* IssueSession calls raced with either step.
RemovedDeviceSignedOut == \A t \in sessions : HolderOf(t) \notin removed

\* The inductive invariant behind both: a session was observed at the current
\* generation of its device, and a call that a revocation overtook was not.
RevocationInv ==
    /\ \A c \in Issues : ipc[c] # "idle" => observed[c] <= generation[asked[c].key]
    /\ \A t \in sessions : observed[t] = generation[HolderOf(t)]
    /\ \A c \in doomed : ipc[c] # "idle" /\ observed[c] < generation[asked[c].key]
    /\ \A k \in removed : binding[k] = "revoked"
    /\ \A c \in Issues :
            ipc[c] \in {"resolved", "consumed"} /\ asked[c].key \in removed
                => observed[c] < generation[asked[c].key]
    /\ \A t \in sessions : HolderOf(t) \notin removed

\* The calls that have passed consumeIfValid, as far as they can be told.
Minted == {c \in Issues : ipc[c] \in {"consumed", "issued", "returned"}} \cup sessions

\* A challenge nonce lets one call through, and only for the device it was
\* issued to, however often the request that carries it is replayed.
NonceUsedOnce ==
    \A c \in Minted :
        /\ challenge[asked[c].nonce] # None
        /\ challenge[asked[c].nonce].key = asked[c].key
        /\ \A d \in Minted : asked[c].nonce = asked[d].nonce => c = d

\* A session disappears only through a revocation authorised by a token of
\* its own identity, whatever device id the caller of that revocation named.
OnlyOwnerRevokes ==
    [][\A t \in sessions \ sessions' :
        \E o \in Ops :
            /\ opc[o] = "authorised" /\ opc'[o] = "swept"
            /\ IdentityOf(op[o].caller) = IdentityOf(t)]_vars

\* A token reaches its caller, and a revocation is reported done, only with an
\* event in the audit log (charter section 4).
ReportedMeansAudited ==
    /\ \A c \in Issues : ipc[c] = "returned" => c \in audited
    /\ \A o \in Ops : opc[o] = "returned" /\ op[o].kind # "validate" => o \in audited

\* The promise this module implements.  A call whose observed generation is
\* out of date can never commit: the ledger counts it as ended already.
Phase(t) ==
    CASE t \in sessions -> "live"
      [] ipc[t] = "idle" -> "unrequested"
      [] ipc[t] \in InFlight /\ observed[t] = generation[asked[t].key] -> "pending"
      [] OTHER -> "ended"

Ledger == INSTANCE SessionLedger WITH
    Tokens <- Issues,
    phase <- [t \in Issues |-> Phase(t)],
    holder <- [t \in Issues |-> IF asked[t] = None THEN None ELSE asked[t].key]

LedgerSpec == Ledger!Spec
================================================================================
