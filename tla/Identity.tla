-------------------------------- MODULE Identity --------------------------------
(***************************************************************************)
(* Identity (services/api/internal/identity) for one identity: its record, *)
(* which BindDevice and RevokeDevice edit, and the prekeys of its devices. *)
(* Identities share no state.  Every handler is a goroutine: it reads the  *)
(* record, decides on its copy, and writes the whole record back with      *)
(* Replace, which compares nothing; the prekey pools are tables of their   *)
(* own, each statement or transaction on them is atomic.                   *)
(*                                                                         *)
(* A BindDevice call generates its device id: the call stands for it.  An  *)
(* authorization_proof is a signature over a device key and an epoch; the  *)
(* signer is the root key, whose proofs verify whatever devices are bound, *)
(* and a proof, once signed, may be presented any number of times.         *)
(*                                                                         *)
(* A bundle is generated by one device, under random prekey ids; the call  *)
(* that publishes it may be made again, after an uncertain answer or at    *)
(* any later time: that is another call with the same bundle.              *)
(***************************************************************************)
EXTENDS Naturals, FiniteSets

CONSTANTS
    Edits,       \* calls of BindDevice and RevokeDevice
    Keys,        \* public keys of devices to bind
    Publishes,   \* calls of PublishPrekeyBundle
    Bundles,     \* the prekey bundles that devices generate
    Fetches,     \* calls of FetchPrekeyBundle
    BundleSize,  \* one-time prekeys in a bundle
    First,       \* the device, and its key, that CreateIdentity binds
    None

VARIABLES
    record,      \* the identities row: epoch and devices
    proofs,      \* the authorization proofs that have been signed
    epc, edit, seen,      \* edits: step, arguments, the record they read
    signed,      \* the devices with a signed prekey
    pool,        \* pool[d]: unclaimed one-time prekeys of device d
    ppc, publisher, offered,   \* publishing calls: step, device, bundle
    fpc, target, got,     \* fetching calls: step, device, claimed prekey
    written,     \* history: the edits whose record was written
    clobbered,   \* history: a record was overwritten by a call that had not read it
    reinserted   \* history: the prekeys a publication put back after their claim

edits == <<record, proofs, epc, edit, seen, written, clobbered>>
prekeys == <<signed, pool, ppc, publisher, offered, fpc, target, got, reinserted>>
vars == <<edits, prekeys>>

--------------------------------------------------------------------------------
DeviceId == Edits \cup {First}
Device == [id : DeviceId, key : Keys \cup {First}]
IdentityRecord == [epoch : Nat, devices : SUBSET Device]
Proof == [key : Keys, epoch : Nat]
Edit == [kind : {"bind"}, proof : Proof] \cup [kind : {"revoke"}, device : DeviceId]
Prekey == Bundles \X (1..BundleSize)

EditStep == {"idle", "decided", "written", "returned", "rejected", "failed"}
PublishStep == {"idle", "checked", "stored", "returned", "rejected", "failed"}
FetchStep == {"idle", "resolved", "claimed", "returned", "exhausted", "notPublished", "failed"}

ASSUME IdentityAssumption ==
    /\ BundleSize \in Nat /\ First \notin Edits \cup Keys
    /\ None \notin Edit /\ None \notin DeviceId \cup Bundles \cup Prekey

TypeOK ==
    /\ record \in IdentityRecord
    /\ proofs \subseteq Proof
    /\ epc \in [Edits -> EditStep]
    /\ edit \in [Edits -> Edit \cup {None}]
    /\ \A c \in Edits : epc[c] = "idle" <=> edit[c] = None
    /\ seen \in [Edits -> IdentityRecord]
    /\ signed \subseteq DeviceId
    /\ pool \in [DeviceId -> SUBSET Prekey]
    /\ ppc \in [Publishes -> PublishStep]
    /\ publisher \in [Publishes -> DeviceId \cup {None}]
    /\ offered \in [Publishes -> Bundles \cup {None}]
    /\ fpc \in [Fetches -> FetchStep]
    /\ target \in [Fetches -> DeviceId \cup {None}]
    /\ got \in [Fetches -> Prekey \cup {None}]
    /\ \A p \in Publishes : ppc[p] # "idle" => publisher[p] # None /\ offered[p] # None
    /\ \A p \in Publishes : ppc[p] = "idle" => offered[p] = None
    /\ \A f \in Fetches : fpc[f] \in {"resolved", "claimed"} => target[f] # None
    /\ written \subseteq Edits
    /\ clobbered \in BOOLEAN
    /\ reinserted \subseteq Prekey

\* CreateIdentity has returned.
Init ==
    /\ record = [epoch |-> 0, devices |-> {[id |-> First, key |-> First]}]
    /\ proofs = {}
    /\ epc = [c \in Edits |-> "idle"]
    /\ edit = [c \in Edits |-> None]
    /\ seen = [c \in Edits |-> record]
    /\ signed = {}
    /\ pool = [d \in DeviceId |-> {}]
    /\ ppc = [p \in Publishes |-> "idle"]
    /\ publisher = [p \in Publishes |-> None]
    /\ offered = publisher
    /\ fpc = [f \in Fetches |-> "idle"]
    /\ target = [f \in Fetches |-> None]
    /\ got = [f \in Fetches |-> None]
    /\ written = {}
    /\ clobbered = FALSE
    /\ reinserted = {}

--------------------------------------------------------------------------------
(* The device list.                                                         *)

Ids == {d.id : d \in record.devices}

\* The device ids that have been stored, and so can be known to a caller.
Binds == {c \in written : edit[c].kind = "bind"}
KnownIds == {First} \cup Binds

BoundKeys == {d.key : d \in record.devices}

\* The owner signs for a new device at the epoch a response last reported.
SignProof(k) ==
    /\ proofs' = proofs \cup {[key |-> k, epoch |-> record.epoch]}
    /\ UNCHANGED <<record, epc, edit, seen, written, clobbered, prekeys>>

\* Mutated form of Decide: a rejected call leaves no trace of its arguments.
DecideForgetful(c, e, accepted) ==
    /\ epc[c] = "idle"
    /\ edit' = [edit EXCEPT ![c] = IF accepted THEN e ELSE None]
    /\ seen' = [seen EXCEPT ![c] = record]
    /\ epc' = [epc EXCEPT ![c] = IF accepted THEN "decided" ELSE "rejected"]
    /\ UNCHANGED <<record, proofs, written, clobbered, prekeys>>

\* Get, and the decision on the copy it returns.
Decide(c, e, accepted) ==
    /\ epc[c] = "idle"
    /\ edit' = [edit EXCEPT ![c] = e]
    /\ seen' = [seen EXCEPT ![c] = record]
    /\ epc' = [epc EXCEPT ![c] = IF accepted THEN "decided" ELSE "rejected"]
    /\ UNCHANGED <<record, proofs, written, clobbered, prekeys>>

\* Mutated form of authorizesBinding: the epoch is not part of the message.
AuthorizesAnyEpoch(p) == p.key \notin BoundKeys

\* BindDevice's two checks: the key is new, the proof is for this very epoch.
AuthorizesBinding(p) == p.key \notin BoundKeys /\ p.epoch = record.epoch

DecideBind(c, p) == Decide(c, [kind |-> "bind", proof |-> p], AuthorizesBinding(p))
DecideRevoke(c, d) == Decide(c, [kind |-> "revoke", device |-> d], d \in Ids)

Edited(c) ==
    IF edit[c].kind = "bind"
    THEN seen[c].devices \cup {[id |-> c, key |-> edit[c].proof.key]}
    ELSE {d \in seen[c].devices : d.id # edit[c].device}

\* Mutated form of Replace: a revocation leaves the epoch as it was.
ReplaceKeepingEpoch(c) ==
    /\ epc[c] = "decided"
    /\ record' = [epoch |-> seen[c].epoch + IF edit[c].kind = "bind" THEN 1 ELSE 0,
                  devices |-> Edited(c)]
    /\ epc' = [epc EXCEPT ![c] = "written"]
    /\ written' = written \cup {c}
    /\ clobbered' = (clobbered \/ record # seen[c])
    /\ UNCHANGED <<proofs, edit, seen, prekeys>>

\* Replace: the row is overwritten, whatever it holds by now.  (A statement that
\* reports a failure after it was executed is like one whose emit then fails.)
Replace(c) ==
    /\ epc[c] = "decided"
    /\ record' = [epoch |-> seen[c].epoch + 1, devices |-> Edited(c)]
    /\ epc' = [epc EXCEPT ![c] = "written"]
    /\ written' = written \cup {c}
    /\ clobbered' = (clobbered \/ record # seen[c])
    /\ UNCHANGED <<proofs, edit, seen, prekeys>>

\* The statement fails, or the process dies.
ReplaceFails(c) ==
    /\ epc[c] = "decided"
    /\ epc' = [epc EXCEPT ![c] = "failed"]
    /\ UNCHANGED <<record, proofs, edit, seen, written, clobbered, prekeys>>

\* The final emit: its failure is reported, the edit stands.
EmitEdit(c) ==
    /\ epc[c] = "written"
    /\ epc' \in {[epc EXCEPT ![c] = step] : step \in {"returned", "failed"}}
    /\ UNCHANGED <<record, proofs, edit, seen, written, clobbered, prekeys>>

--------------------------------------------------------------------------------
(* PublishPrekeyBundle.  The HTTP layer lets a device publish for itself.   *)

\* Prekey ids are random: no other device offers this bundle.
CheckPublisher(p, b, d) ==
    /\ ppc[p] = "idle"
    /\ \A q \in Publishes : offered[q] = b => publisher[q] = d
    /\ publisher' = [publisher EXCEPT ![p] = d]
    /\ offered' = [offered EXCEPT ![p] = b]
    /\ ppc' = [ppc EXCEPT ![p] = IF d \in Ids THEN "checked" ELSE "rejected"]
    /\ UNCHANGED <<edits, signed, pool, fpc, target, got, reinserted>>

Bundle(b) == {b} \X (1..BundleSize)
Claimed == {got[f] : f \in Fetches} \ {None}

\* Mutated form of PublishBundle: the new bundle replaces the pool.
PublishReplacing(p) ==
    /\ ppc[p] = "checked"
    /\ signed' = signed \cup {publisher[p]}
    /\ pool' = [pool EXCEPT ![publisher[p]] = Bundle(offered[p])]
    /\ reinserted' = reinserted \cup (Bundle(offered[p]) \cap Claimed)
    /\ ppc' = [ppc EXCEPT ![p] = "stored"]
    /\ UNCHANGED <<edits, publisher, offered, fpc, target, got>>

\* One transaction: the signed prekey is replaced, the pool is added to.  A row
\* that is still there is left alone; one whose claim deleted it is inserted anew.
PublishBundle(p) ==
    /\ ppc[p] = "checked"
    /\ signed' = signed \cup {publisher[p]}
    /\ pool' = [pool EXCEPT ![publisher[p]] = @ \cup Bundle(offered[p])]
    /\ reinserted' = reinserted \cup (Bundle(offered[p]) \cap Claimed)
    /\ ppc' = [ppc EXCEPT ![p] = "stored"]
    /\ UNCHANGED <<edits, publisher, offered, fpc, target, got>>

EndPublish(p) ==
    /\ \/ ppc[p] = "stored" /\ ppc' = [ppc EXCEPT ![p] = "returned"]
       \/ ppc[p] \in {"checked", "stored"} /\ ppc' = [ppc EXCEPT ![p] = "failed"]
    /\ UNCHANGED <<edits, signed, pool, publisher, offered, fpc, target, got, reinserted>>

--------------------------------------------------------------------------------
(* FetchPrekeyBundle, by any authenticated caller.                          *)

\* The record, then the signed prekey of the device named or chosen by default.
ResolveTarget(f, d) ==
    /\ fpc[f] = "idle"
    /\ fpc' = [fpc EXCEPT ![f] = IF d \in Ids \cap signed THEN "resolved" ELSE "notPublished"]
    /\ target' = [target EXCEPT ![f] = d]
    /\ UNCHANGED <<edits, signed, pool, ppc, publisher, offered, got, reinserted>>

\* Mutated form of ClaimOneOneTimePrekey: the row is read and not deleted.
ClaimUndeleted(f) ==
    /\ fpc[f] = "resolved"
    /\ \E k \in pool[target[f]] : got' = [got EXCEPT ![f] = k]
    /\ fpc' = [fpc EXCEPT ![f] = "claimed"]
    /\ UNCHANGED <<edits, signed, pool, ppc, publisher, offered, target, reinserted>>

\* DELETE ... FOR UPDATE SKIP LOCKED ... RETURNING, one statement.
ClaimOneOneTimePrekey(f) ==
    /\ fpc[f] = "resolved"
    /\ \E k \in pool[target[f]] :
        /\ got' = [got EXCEPT ![f] = k]
        /\ pool' = [pool EXCEPT ![target[f]] = @ \ {k}]
    /\ fpc' = [fpc EXCEPT ![f] = "claimed"]
    /\ UNCHANGED <<edits, signed, ppc, publisher, offered, target, reinserted>>

\* No row that a claim under way has not locked (each locks one): the bundle is
\* returned without a one-time prekey.
ClaimNothing(f) ==
    /\ fpc[f] = "resolved"
    /\ Cardinality(pool[target[f]])
            <= Cardinality({g \in Fetches \ {f} : fpc[g] = "resolved" /\ target[g] = target[f]})
    /\ fpc' = [fpc EXCEPT ![f] = "exhausted"]
    /\ UNCHANGED <<edits, signed, pool, ppc, publisher, offered, target, got, reinserted>>

\* The final emit: a failure withholds the bundle; its prekey is spent.
EndFetch(f) ==
    /\ \/ fpc[f] = "claimed" /\ fpc' = [fpc EXCEPT ![f] = "returned"]
       \/ fpc[f] \in {"resolved", "claimed"} /\ fpc' = [fpc EXCEPT ![f] = "failed"]
    /\ UNCHANGED <<edits, signed, pool, ppc, publisher, offered, target, got, reinserted>>

--------------------------------------------------------------------------------
EditDevices ==
    \/ \E k \in Keys : SignProof(k)
    \/ \E c \in Edits :
        \/ \E p \in proofs : DecideBind(c, p)
        \/ \E d \in KnownIds : DecideRevoke(c, d)
        \/ Replace(c) \/ ReplaceFails(c) \/ EmitEdit(c)

UsePrekeys ==
    \/ \E p \in Publishes :
        \/ \E b \in Bundles, d \in KnownIds : CheckPublisher(p, b, d)
        \/ PublishBundle(p) \/ EndPublish(p)
    \/ \E f \in Fetches :
        \/ \E d \in KnownIds : ResolveTarget(f, d)
        \/ ClaimOneOneTimePrekey(f) \/ ClaimNothing(f) \/ EndFetch(f)

Next == EditDevices \/ UsePrekeys

Spec == Init /\ [][Next]_vars

--------------------------------------------------------------------------------
(* Properties.                                                              *)

Revoked == {edit[c].device : c \in written \ Binds}

\* While no edit has overwritten another, the record is the sum of the edits:
\* each bound device is there until a RevokeDevice named it, and the epoch has
\* counted every one of them, those that failed in their last step included.
RecordIsSumOfEdits ==
    ~clobbered =>
        /\ Ids = ({First} \cup Binds) \ Revoked
        /\ record.epoch = Cardinality(written)

\* ... and a captured proof never binds a second device, also after the device
\* it bound was revoked and the list looks as it did before (sign.go).
ProofBindsOnce ==
    ~clobbered => \A c, d \in Binds : edit[c].proof = edit[d].proof => c = d

\* No two fetches, whatever their interleaving, are given one one-time prekey
\* (charter section 6, "server-side atomic single-issuance"), unless its bundle
\* was published again after a fetch had claimed it: the claim deletes the row,
\* so the repeated publication, no longer the no-op that its comment promises a
\* retry, puts the prekey back.
PrekeyGivenOnce ==
    \A f, g \in Fetches :
        got[f] # None /\ got[f] = got[g] => f = g \/ got[f] \in reinserted

\* No one-time prekey is lost, or offered for another device: of a stored bundle,
\* each is in the pool of the device that published it or has been claimed, and
\* both only if it was put back.
PrekeysAccountedFor ==
    \A p \in Publishes : ppc[p] \in {"stored", "returned"} =>
        \A k \in Bundle(offered[p]) :
            LET where == {d \in DeviceId : k \in pool[d]}
            IN  /\ where \subseteq {publisher[p]}
                /\ k \in Claimed \/ where # {}
                /\ k \in Claimed /\ where # {} => k \in reinserted

\* The inductive invariant behind the last two: a bundle belongs to one device, a
\* prekey is in a pool only if that device published it, and in the pool and with
\* a fetcher at once only if it was put back.
OneDevice ==
    \A p, q \in Publishes : offered[p] = offered[q] => publisher[p] = publisher[q]

PoolsPublished ==
    \A d \in DeviceId : \A k \in pool[d] :
        \E p \in Publishes : offered[p] = k[1] /\ publisher[p] = d

ClaimsGone ==
    \A f \in Fetches : \A d \in DeviceId : got[f] \in pool[d] => got[f] \in reinserted

BundlesKept ==
    \A p \in Publishes : ppc[p] \in {"stored", "returned"} =>
        \A k \in Bundle(offered[p]) : k \in Claimed \/ k \in pool[publisher[p]]

PrekeyInv ==
    /\ OneDevice /\ PoolsPublished /\ ClaimsGone /\ BundlesKept /\ PrekeyGivenOnce
    /\ \A f \in Fetches : fpc[f] \in {"idle", "resolved"} => got[f] = None

\* The inductive invariant behind the first two: a call that has decided read a
\* record of the past, and while none was clobbered it is the current one or its
\* epoch has passed; a proof that bound a device is of a passed epoch too.
WrittenKnown ==
    /\ IsFiniteSet(written)
    /\ \A c \in written : epc[c] \in {"written", "returned", "failed"}
    /\ \A c \in written \ Binds : edit[c].kind = "revoke" /\ edit[c].device \in KnownIds

DecidedOnSeen ==
    \A c \in Edits : epc[c] = "decided" =>
        /\ edit[c].kind = "bind" => edit[c].proof.epoch = seen[c].epoch
        /\ edit[c].kind = "revoke" => edit[c].device \in KnownIds

SeenIsPast ==
    \A c \in Edits : epc[c] = "decided" => seen[c] = record \/ seen[c].epoch < record.epoch

BoundByPassedEpochs == \A c \in Binds : edit[c].proof.epoch < record.epoch

EditInv ==
    /\ WrittenKnown /\ DecidedOnSeen
    /\ RecordIsSumOfEdits /\ ProofBindsOnce
    /\ ~clobbered => SeenIsPast /\ BoundByPassedEpochs

\* The epoch is "a strictly monotonic device-topology version counter, never
\* decremented or reset" (docs/DECISION_LOG.md).  The code does not give this:
\* Replace writes back the epoch of an older record.
EpochOnlyGrows == [][record'.epoch >= record.epoch]_vars
================================================================================
