----------------------------- MODULE IdentityProofs -----------------------------
(***************************************************************************)
(* Theorems about Identity for any sets of calls, keys and bundles: types, *)
(* the single issuance of one-time prekeys, and what the edits of a record *)
(* give as long as none overwrites another.                                *)
(***************************************************************************)
EXTENDS Identity, FiniteSetTheorems, TLAPS

--------------------------------------------------------------------------------
(* Type correctness.                                                        *)

\* The record an edit writes back is a record.
LEMMA EditedType ==
    ASSUME TypeOK, NEW c \in Edits, epc[c] = "decided"
    PROVE  [epoch |-> seen[c].epoch + 1, devices |-> Edited(c)] \in IdentityRecord
<1>1. seen[c] \in IdentityRecord /\ edit[c] \in Edit
    BY DEF TypeOK
<1>2. CASE edit[c].kind = "bind"
    BY <1>1, <1>2 DEF Edited, Edit, Proof, IdentityRecord, Device, DeviceId
<1>3. CASE edit[c].kind # "bind"
    BY <1>1, <1>3 DEF Edited, IdentityRecord
<1> QED BY <1>2, <1>3

\* Every step of the edits keeps every type.
LEMMA EditTypeStep == TypeOK /\ EditDevices => TypeOK'
<1> SUFFICES ASSUME TypeOK, EditDevices PROVE TypeOK'
    OBVIOUS
<1>0. KnownIds \subseteq DeviceId
    BY DEF KnownIds, Binds, DeviceId, TypeOK
<1>1. ASSUME NEW k \in Keys, SignProof(k) PROVE TypeOK'
    BY <1>1 DEF TypeOK, SignProof, prekeys, Proof, IdentityRecord
<1>2. ASSUME NEW c \in Edits, NEW e \in Edit, NEW b \in BOOLEAN, Decide(c, e, b) PROVE TypeOK'
    BY <1>2, IdentityAssumption DEF TypeOK, Decide, prekeys, EditStep
<1>3. ASSUME NEW c \in Edits, NEW p \in proofs, DecideBind(c, p) PROVE TypeOK'
    <2>1. [kind |-> "bind", proof |-> p] \in Edit
        BY DEF Edit, TypeOK
    <2> QED BY <1>2, <1>3, <2>1 DEF DecideBind, AuthorizesBinding
<1>4. ASSUME NEW c \in Edits, NEW d \in KnownIds, DecideRevoke(c, d) PROVE TypeOK'
    <2>1. [kind |-> "revoke", device |-> d] \in Edit
        BY <1>0 DEF Edit
    <2>2. (d \in Ids) \in BOOLEAN
        OBVIOUS
    <2> QED BY <1>4, <2>1, IdentityAssumption DEF TypeOK, DecideRevoke, Decide, prekeys, EditStep
<1>5. ASSUME NEW c \in Edits, Replace(c) PROVE TypeOK'
    <2>1. record' \in IdentityRecord
        BY <1>5, EditedType DEF Replace
    <2> QED BY <1>5, <2>1 DEF TypeOK, Replace, prekeys, EditStep
<1>6. ASSUME NEW c \in Edits, ReplaceFails(c) \/ EmitEdit(c) PROVE TypeOK'
    BY <1>6 DEF TypeOK, ReplaceFails, EmitEdit, prekeys, EditStep
<1> QED BY <1>1, <1>3, <1>4, <1>5, <1>6 DEF EditDevices

\* Every step of publishing and fetching keeps every type.
LEMMA PrekeyTypeStep == TypeOK /\ UsePrekeys => TypeOK'
<1> SUFFICES ASSUME TypeOK, UsePrekeys PROVE TypeOK'
    OBVIOUS
<1>0. KnownIds \subseteq DeviceId
    BY DEF KnownIds, Binds, DeviceId, TypeOK
<1> USE IdentityAssumption DEF TypeOK, edits
<1>1. ASSUME NEW p \in Publishes, NEW b \in Bundles, NEW d \in KnownIds, CheckPublisher(p, b, d)
      PROVE  TypeOK'
    BY <1>0, <1>1 DEF CheckPublisher, PublishStep
<1>2. ASSUME NEW p \in Publishes, PublishBundle(p) PROVE TypeOK'
    <2>1. Bundle(offered[p]) \subseteq Prekey
        BY <1>2 DEF PublishBundle, Bundle, Prekey
    <2>2. publisher[p] \in DeviceId
        BY <1>2 DEF PublishBundle
    <2> QED BY <1>2, <2>1, <2>2 DEF PublishBundle, PublishStep
<1>3. ASSUME NEW p \in Publishes, EndPublish(p) PROVE TypeOK'
    BY <1>3 DEF EndPublish, PublishStep
<1>4. ASSUME NEW f \in Fetches, NEW d \in KnownIds, ResolveTarget(f, d) PROVE TypeOK'
    BY <1>0, <1>4 DEF ResolveTarget, FetchStep
<1>5. ASSUME NEW f \in Fetches, ClaimOneOneTimePrekey(f) PROVE TypeOK'
    <2>1. target[f] \in DeviceId
        BY <1>5 DEF ClaimOneOneTimePrekey
    <2>2. PICK k \in pool[target[f]] :
            /\ got' = [got EXCEPT ![f] = k]
            /\ pool' = [pool EXCEPT ![target[f]] = @ \ {k}]
        BY <1>5 DEF ClaimOneOneTimePrekey
    <2>3. got' \in [Fetches -> Prekey \cup {None}] /\ pool' \in [DeviceId -> SUBSET Prekey]
        BY <2>1, <2>2
    <2> QED BY <1>5, <2>3 DEF ClaimOneOneTimePrekey, FetchStep
<1>6. ASSUME NEW f \in Fetches, ClaimNothing(f) \/ EndFetch(f) PROVE TypeOK'
    BY <1>6 DEF ClaimNothing, EndFetch, FetchStep
<1> QED BY <1>1, <1>2, <1>3, <1>4, <1>5, <1>6 DEF UsePrekeys

\* Every variable keeps its type.
THEOREM IdentityTypeCorrect == Spec => []TypeOK
<1>1. Init => TypeOK
    <2> SUFFICES ASSUME Init PROVE TypeOK
        OBVIOUS
    <2>1. record \in IdentityRecord
        BY DEF Init, IdentityRecord, Device, DeviceId
    <2>2. seen \in [Edits -> IdentityRecord]
        BY <2>1 DEF Init
    <2>3. /\ epc \in [Edits -> EditStep] /\ edit \in [Edits -> Edit \cup {None}]
          /\ \A c \in Edits : epc[c] = "idle" <=> edit[c] = None
        BY DEF Init, EditStep
    <2>4. /\ pool \in [DeviceId -> SUBSET Prekey] /\ signed \subseteq DeviceId
          /\ ppc \in [Publishes -> PublishStep] /\ publisher \in [Publishes -> DeviceId \cup {None}]
          /\ offered \in [Publishes -> Bundles \cup {None}] /\ reinserted \subseteq Prekey
          /\ \A p \in Publishes : ppc[p] = "idle" /\ offered[p] = None
        BY DEF Init, PublishStep
    <2>5. /\ fpc \in [Fetches -> FetchStep] /\ target \in [Fetches -> DeviceId \cup {None}]
          /\ got \in [Fetches -> Prekey \cup {None}] /\ \A f \in Fetches : fpc[f] = "idle"
        BY DEF Init, FetchStep
    <2>6. proofs \subseteq Proof /\ written \subseteq Edits /\ clobbered \in BOOLEAN
        BY DEF Init
    <2> QED BY <2>1, <2>2, <2>3, <2>4, <2>5, <2>6 DEF TypeOK
<1>2. TypeOK /\ [Next]_vars => TypeOK'
    <2>1. TypeOK /\ UNCHANGED vars => TypeOK'
        BY DEF TypeOK, vars, edits, prekeys
    <2> QED BY <2>1, EditTypeStep, PrekeyTypeStep DEF Next
<1> QED BY <1>1, <1>2, PTL DEF Spec

--------------------------------------------------------------------------------
(* One-time prekeys.                                                        *)

\* A call presents a bundle that no other device offers: what is in the pools and
\* with the fetchers stays as it is.
LEMMA CheckPublisherInv ==
    ASSUME TypeOK, PrekeyInv, NEW p \in Publishes, NEW b \in Bundles, NEW d \in KnownIds,
           CheckPublisher(p, b, d)
    PROVE  PrekeyInv'
<1>1. \A q \in Publishes :
        /\ offered'[q] = IF q = p THEN b ELSE offered[q]
        /\ publisher'[q] = IF q = p THEN d ELSE publisher[q]
        /\ ppc'[q] \in {"stored", "returned"} => q # p /\ ppc'[q] = ppc[q]
    BY DEF CheckPublisher, TypeOK
<1>2. UNCHANGED <<pool, got, fpc, reinserted>> /\ \A q \in Publishes : offered[q] = b => publisher[q] = d
    BY DEF CheckPublisher
<1>3. OneDevice'
    BY <1>1, <1>2 DEF PrekeyInv, OneDevice
<1>4. PoolsPublished'
    <2> SUFFICES ASSUME NEW e \in DeviceId, NEW k \in pool[e]
                 PROVE  \E q \in Publishes : offered'[q] = k[1] /\ publisher'[q] = e
        BY <1>2 DEF PoolsPublished
    <2>1. PICK q \in Publishes : offered[q] = k[1] /\ publisher[q] = e
        BY DEF PrekeyInv, PoolsPublished
    <2>2. k[1] \in Bundles
        BY DEF TypeOK, Prekey
    <2>3. q # p
        BY <2>1, <2>2, IdentityAssumption DEF CheckPublisher, TypeOK
    <2> QED BY <1>1, <2>1, <2>3
<1>5. ClaimsGone' /\ PrekeyGivenOnce'
    BY <1>2 DEF PrekeyInv, ClaimsGone, PrekeyGivenOnce
<1>6. BundlesKept'
    BY <1>1, <1>2 DEF PrekeyInv, BundlesKept, Claimed, Bundle
<1> QED BY <1>2, <1>3, <1>4, <1>5, <1>6 DEF PrekeyInv

\* Publishing a bundle preserves PrekeyInv: what it adds to the pool was claimed
\* by nobody, or is put back and recorded as such.
LEMMA PublishStepInv ==
    ASSUME TypeOK, PrekeyInv, NEW p \in Publishes, PublishBundle(p)
    PROVE  PrekeyInv'
<1> DEFINE B == Bundle(offered[p])
<1>1. publisher[p] \in DeviceId /\ offered[p] \in Bundles
    BY DEF PublishBundle, TypeOK
<1>2. \A k \in B : k[1] = offered[p]
    BY DEF Bundle
<1>3. \A d \in DeviceId :
        pool'[d] = IF d = publisher[p] THEN pool[d] \cup B ELSE pool[d]
    BY <1>1 DEF PublishBundle, TypeOK
<1>4. \A q \in Publishes : ppc'[q] = IF q = p THEN "stored" ELSE ppc[q]
    BY DEF PublishBundle, TypeOK
<1>5. UNCHANGED <<publisher, offered, got, fpc>> /\ reinserted' = reinserted \cup (B \cap Claimed)
    BY DEF PublishBundle
<1>6. PoolsPublished'
    <2> SUFFICES ASSUME NEW d \in DeviceId, NEW k \in pool'[d]
                 PROVE  \E q \in Publishes : offered[q] = k[1] /\ publisher[q] = d
        BY <1>5 DEF PoolsPublished
    <2>1. CASE k \in pool[d]
        BY <2>1 DEF PrekeyInv, PoolsPublished
    <2>2. CASE k \in B /\ d = publisher[p]
        BY <1>2, <2>2
    <2> QED BY <1>3, <2>1, <2>2
<1>7. ClaimsGone'
    <2> SUFFICES ASSUME NEW f \in Fetches, NEW d \in DeviceId, got[f] \in pool'[d]
                 PROVE  got[f] \in reinserted'
        BY <1>5 DEF ClaimsGone
    <2>1. CASE got[f] \in pool[d]
        BY <1>5, <2>1 DEF PrekeyInv, ClaimsGone
    <2>2. CASE got[f] \in B
        <3>1. B \subseteq Prekey
            BY <1>1 DEF Bundle, Prekey
        <3>2. got[f] \in Claimed
            BY <2>2, <3>1, IdentityAssumption DEF Claimed
        <3> QED BY <1>5, <2>2, <3>2
    <2> QED BY <1>3, <2>1, <2>2
<1>8. BundlesKept'
    <2> SUFFICES ASSUME NEW q \in Publishes, ppc'[q] \in {"stored", "returned"},
                        NEW k \in Bundle(offered[q])
                 PROVE  k \in Claimed \/ k \in pool'[publisher[q]]
        BY <1>5 DEF BundlesKept, Claimed, Bundle
    <2>1. CASE q = p
        BY <1>1, <1>3, <2>1
    <2>2. CASE q # p
        <3>1. ppc[q] \in {"stored", "returned"} /\ publisher[q] \in DeviceId
            BY <1>4, <2>2 DEF TypeOK
        <3>2. k \in Claimed \/ k \in pool[publisher[q]]
            BY <3>1 DEF PrekeyInv, BundlesKept
        <3> QED BY <1>3, <3>1, <3>2
    <2> QED BY <2>1, <2>2
<1>9. OneDevice' /\ PrekeyGivenOnce'
    BY <1>5 DEF PrekeyInv, OneDevice, PrekeyGivenOnce
<1> QED BY <1>5, <1>6, <1>7, <1>8, <1>9 DEF PrekeyInv

\* A claim preserves PrekeyInv: what it takes leaves the one pool it was in, and
\* unless it was put back nobody holds it yet.
LEMMA ClaimStepInv ==
    ASSUME TypeOK, PrekeyInv, NEW f \in Fetches, ClaimOneOneTimePrekey(f)
    PROVE  PrekeyInv'
<1>1. target[f] \in DeviceId /\ got[f] = None
    BY DEF ClaimOneOneTimePrekey, TypeOK, PrekeyInv
<1>2. PICK k \in pool[target[f]] :
        /\ got' = [got EXCEPT ![f] = k]
        /\ pool' = [pool EXCEPT ![target[f]] = @ \ {k}]
    BY DEF ClaimOneOneTimePrekey
<1>3. k # None
    BY <1>1, IdentityAssumption DEF TypeOK
<1>4. \A d \in DeviceId : k \in pool[d] => d = target[f]
    BY <1>1 DEF PrekeyInv, PoolsPublished, OneDevice
<1>5. \A d \in DeviceId : pool'[d] = pool[d] \ {k}
    BY <1>1, <1>2, <1>4 DEF TypeOK
<1>6. \A g \in Fetches : got'[g] = IF g = f THEN k ELSE got[g]
    BY <1>2 DEF TypeOK
<1>7. \A g \in Fetches : got[g] = k => k \in reinserted
    BY <1>1, <1>2 DEF PrekeyInv, ClaimsGone
<1>8. \A l \in Claimed : l \in Claimed'
    BY <1>1, <1>6 DEF Claimed
<1>9. k \in Claimed'
    BY <1>3, <1>6 DEF Claimed
<1>10. UNCHANGED <<ppc, publisher, offered, reinserted>> /\ fpc' = [fpc EXCEPT ![f] = "claimed"]
    BY DEF ClaimOneOneTimePrekey
<1>11. OneDevice' /\ PoolsPublished'
    BY <1>5, <1>10 DEF PrekeyInv, OneDevice, PoolsPublished
<1>12. ClaimsGone'
    BY <1>5, <1>6, <1>10 DEF PrekeyInv, ClaimsGone
<1>13. BundlesKept'
    <2> SUFFICES ASSUME NEW p \in Publishes, ppc[p] \in {"stored", "returned"},
                        NEW l \in Bundle(offered[p])
                 PROVE  l \in Claimed' \/ l \in pool'[publisher[p]]
        BY <1>10 DEF BundlesKept, Bundle
    <2>1. publisher[p] \in DeviceId
        BY DEF TypeOK
    <2>2. l \in Claimed \/ l \in pool[publisher[p]]
        BY DEF PrekeyInv, BundlesKept
    <2> QED BY <1>5, <1>8, <1>9, <2>1, <2>2
<1>14. PrekeyGivenOnce'
    BY <1>6, <1>7, <1>10 DEF PrekeyInv, PrekeyGivenOnce
<1>15. \A g \in Fetches : fpc'[g] \in {"idle", "resolved"} => got'[g] = None
    BY <1>6, <1>10 DEF TypeOK, PrekeyInv
<1> QED BY <1>11, <1>12, <1>13, <1>14, <1>15 DEF PrekeyInv

\* Every step preserves PrekeyInv.
LEMMA PrekeyStep == TypeOK /\ PrekeyInv /\ [Next]_vars => PrekeyInv'
<1> SUFFICES ASSUME TypeOK, PrekeyInv, [Next]_vars PROVE PrekeyInv'
    OBVIOUS
<1> USE DEF PrekeyInv, OneDevice, PoolsPublished, ClaimsGone, BundlesKept, PrekeyGivenOnce,
            Claimed, Bundle
<1>1. ASSUME UNCHANGED prekeys PROVE PrekeyInv'
    BY <1>1 DEF prekeys
<1>2. ASSUME EditDevices PROVE UNCHANGED prekeys
    BY <1>2 DEF EditDevices, SignProof, DecideBind, DecideRevoke, Decide, Replace,
        ReplaceFails, EmitEdit
<1>3. ASSUME NEW p \in Publishes, EndPublish(p) PROVE PrekeyInv'
    BY <1>3 DEF EndPublish, TypeOK, Prekey
<1>4. ASSUME NEW f \in Fetches, NEW d \in KnownIds, ResolveTarget(f, d) PROVE PrekeyInv'
    BY <1>4 DEF ResolveTarget, TypeOK
<1>5. ASSUME NEW f \in Fetches, ClaimNothing(f) \/ EndFetch(f) PROVE PrekeyInv'
    BY <1>5 DEF ClaimNothing, EndFetch, TypeOK
<1> QED BY <1>1, <1>2, <1>3, <1>4, <1>5, CheckPublisherInv, PublishStepInv, ClaimStepInv
        DEF Next, UsePrekeys, vars

\* PrekeyInv holds in every reachable state.
LEMMA PrekeyInvariant == Spec => []PrekeyInv
<1>1. Init => PrekeyInv
    BY DEF Init, PrekeyInv, OneDevice, PoolsPublished, ClaimsGone, BundlesKept, PrekeyGivenOnce
<1> QED BY <1>1, IdentityTypeCorrect, PrekeyStep, PTL DEF Spec

\* However many fetches race, a one-time prekey is given to one of them, unless a
\* repeated publication of its bundle had put it back after its claim.
THEOREM SingleIssuance == Spec => []PrekeyGivenOnce
<1>1. PrekeyInv => PrekeyGivenOnce
    BY DEF PrekeyInv
<1> QED BY <1>1, PrekeyInvariant, PTL

\* A published one-time prekey waits in its device's pool, and no other, until it
\* is claimed, and is in the pool again only if a repeated publication put it back.
THEOREM NoPrekeyLost == Spec => []PrekeysAccountedFor
<1>1. TypeOK /\ PrekeyInv => PrekeysAccountedFor
    <2> SUFFICES ASSUME TypeOK, PrekeyInv, NEW p \in Publishes, ppc[p] \in {"stored", "returned"},
                        NEW k \in Bundle(offered[p])
                 PROVE  LET where == {d \in DeviceId : k \in pool[d]}
                        IN  /\ where \subseteq {publisher[p]}
                            /\ k \in Claimed \/ where # {}
                            /\ k \in Claimed /\ where # {} => k \in reinserted
        BY DEF PrekeysAccountedFor
    <2>1. k[1] = offered[p] /\ publisher[p] \in DeviceId
        BY DEF Bundle, TypeOK
    <2>2. \A d \in DeviceId : k \in pool[d] => d = publisher[p]
        BY <2>1 DEF PrekeyInv, PoolsPublished, OneDevice
    <2>3. k \in Claimed => \A d \in DeviceId : k \in pool[d] => k \in reinserted
        BY DEF PrekeyInv, ClaimsGone, Claimed
    <2>4. k \notin Claimed => k \in pool[publisher[p]]
        BY DEF PrekeyInv, BundlesKept
    <2> QED BY <2>1, <2>2, <2>3, <2>4
<1> QED BY <1>1, IdentityTypeCorrect, PrekeyInvariant, PTL

--------------------------------------------------------------------------------
(* The edits of the record.                                                 *)

\* A decision preserves EditInv: the call has read the current record, and no
\* edit that was written is touched.
LEMMA DecideStepInv ==
    ASSUME TypeOK, EditInv, NEW c \in Edits, NEW e \in Edit, NEW accepted \in BOOLEAN,
           Decide(c, e, accepted),
           accepted /\ e.kind = "bind" => e.proof.epoch = record.epoch,
           e.kind = "revoke" => e.device \in KnownIds
    PROVE  EditInv'
<1>1. /\ UNCHANGED <<record, written, clobbered>>
      /\ \A d \in Edits : /\ edit'[d] = IF d = c THEN e ELSE edit[d]
                          /\ seen'[d] = IF d = c THEN record ELSE seen[d]
                          /\ d # c => epc'[d] = epc[d]
    BY DEF Decide, TypeOK
<1>2. epc[c] = "idle" /\ epc'[c] \in {"decided", "rejected"} /\ (epc'[c] = "decided" => accepted)
    BY DEF Decide, TypeOK
<1>3. written \subseteq Edits /\ c \notin written
    BY <1>2 DEF TypeOK, EditInv, WrittenKnown
<1>4. \A d \in written : edit'[d] = edit[d] /\ epc'[d] = epc[d]
    BY <1>1, <1>3
<1>5. Binds' = Binds /\ KnownIds' = KnownIds
    BY <1>1, <1>4 DEF Binds, KnownIds
<1>6. Revoked' = Revoked /\ Ids' = Ids
    BY <1>1, <1>4, <1>5 DEF Revoked, Ids
<1>7. WrittenKnown'
    BY <1>1, <1>4, <1>5 DEF EditInv, WrittenKnown
<1>8. DecidedOnSeen'
    <2> SUFFICES ASSUME NEW d \in Edits, epc'[d] = "decided"
                 PROVE  /\ edit'[d].kind = "bind" => edit'[d].proof.epoch = seen'[d].epoch
                        /\ edit'[d].kind = "revoke" => edit'[d].device \in KnownIds
        BY <1>5 DEF DecidedOnSeen
    <2>1. CASE d = c
        BY <1>1, <1>2, <2>1
    <2>2. CASE d # c
        BY <1>1, <2>2 DEF EditInv, DecidedOnSeen
    <2> QED BY <2>1, <2>2
<1>9. RecordIsSumOfEdits'
    BY <1>1, <1>5, <1>6 DEF EditInv, RecordIsSumOfEdits
<1>10. ProofBindsOnce'
    BY <1>1, <1>4, <1>5 DEF EditInv, ProofBindsOnce, Binds
<1>11. ~clobbered' => SeenIsPast'
    BY <1>1 DEF EditInv, SeenIsPast
<1>12. ~clobbered' => BoundByPassedEpochs'
    BY <1>1, <1>4, <1>5 DEF EditInv, BoundByPassedEpochs, Binds
<1> QED BY <1>7, <1>8, <1>9, <1>10, <1>11, <1>12 DEF EditInv

\* What Replace stores, when the call had read the current record, is the sum of
\* the edits with its own added.
LEMMA ReplaceAddsEdit ==
    ASSUME TypeOK, EditInv, NEW c \in Edits, Replace(c), ~clobbered'
    PROVE  RecordIsSumOfEdits'
<1>1. /\ ~clobbered /\ seen[c] = record
      /\ record' = [epoch |-> record.epoch + 1, devices |-> Edited(c)]
      /\ written' = written \cup {c} /\ UNCHANGED edit
    BY DEF Replace
<1>2. Ids = ({First} \cup Binds) \ Revoked /\ record.epoch = Cardinality(written)
    BY <1>1 DEF EditInv, RecordIsSumOfEdits
<1>3. c \notin written /\ c # First /\ epc[c] = "decided"
    BY IdentityAssumption DEF Replace, EditInv, WrittenKnown
<1>4. record'.epoch = Cardinality(written')
    <2>1. IsFiniteSet(written)
        BY DEF EditInv, WrittenKnown
    <2>2. Cardinality(written \cup {c}) = Cardinality(written) + 1
        BY <1>3, <2>1, FS_AddElement
    <2>3. record'.epoch = record.epoch + 1
        BY <1>1
    <2> QED BY <1>1, <1>2, <2>2, <2>3
<1>5. Ids' = {d.id : d \in Edited(c)}
    BY <1>1 DEF Ids
<1>6. CASE edit[c].kind = "bind"
    <2>1. Binds' = Binds \cup {c} /\ written' \ Binds' = written \ Binds
        BY <1>1, <1>3, <1>6 DEF Binds
    <2>2. Revoked' = Revoked
        BY <1>1, <2>1 DEF Revoked
    <2>3. c \notin Revoked
        BY <1>3 DEF Revoked, EditInv, WrittenKnown, KnownIds, Binds
    <2>4. Edited(c) = record.devices \cup {[id |-> c, key |-> edit[c].proof.key]}
        BY <1>1, <1>6 DEF Edited
    <2>5. Ids' = Ids \cup {c}
        <3> DEFINE new == [id |-> c, key |-> edit[c].proof.key]
        <3>1. new.id = c /\ Edited(c) = record.devices \cup {new}
            BY <2>4
        <3> HIDE DEF new
        <3> QED BY <1>5, <3>1 DEF Ids
    <2>6. Ids' = ({First} \cup Binds') \ Revoked'
        BY <1>2, <2>1, <2>2, <2>3, <2>5
    <2> QED BY <1>4, <2>6 DEF RecordIsSumOfEdits
<1>7. CASE edit[c].kind # "bind"
    <2>1. Binds' = Binds /\ written' \ Binds' = (written \ Binds) \cup {c}
        BY <1>1, <1>3, <1>7 DEF Binds
    <2>2. Revoked' = Revoked \cup {edit[c].device}
        BY <1>1, <2>1 DEF Revoked
    <2>3. Edited(c) = {d \in record.devices : d.id # edit[c].device}
        BY <1>1, <1>7 DEF Edited
    <2>4. Ids' = Ids \ {edit[c].device}
        BY <1>5, <2>3 DEF Ids
    <2>5. Ids' = ({First} \cup Binds') \ Revoked'
        BY <1>2, <2>1, <2>2, <2>4
    <2> QED BY <1>4, <2>5 DEF RecordIsSumOfEdits
<1> QED BY <1>6, <1>7

\* Replace preserves EditInv: the epoch of every record read before has passed.
LEMMA ReplaceStepInv ==
    ASSUME TypeOK, EditInv, NEW c \in Edits, Replace(c)
    PROVE  EditInv'
<1>1. /\ record' = [epoch |-> seen[c].epoch + 1, devices |-> Edited(c)]
      /\ written' = written \cup {c} /\ UNCHANGED <<edit, seen>>
      /\ epc[c] = "decided" /\ clobbered' = (clobbered \/ record # seen[c])
      /\ \A d \in Edits : epc'[d] = IF d = c THEN "written" ELSE epc[d]
    BY DEF Replace, TypeOK
<1>2. c \notin written /\ written \subseteq Edits
    BY <1>1 DEF TypeOK, EditInv, WrittenKnown
<1>3. edit[c] \in Edit
    BY <1>1 DEF TypeOK
<1>4. /\ edit[c].kind \in {"bind", "revoke"}
      /\ edit[c].kind = "bind" => edit[c].proof.epoch = seen[c].epoch
      /\ edit[c].kind = "revoke" => edit[c].device \in KnownIds
    BY <1>1, <1>3 DEF Edit, EditInv, DecidedOnSeen
<1>5. Binds' = Binds \cup (IF edit[c].kind = "bind" THEN {c} ELSE {})
    BY <1>1 DEF Binds
<1>6. KnownIds \subseteq KnownIds'
    BY <1>5 DEF KnownIds
<1>7. WrittenKnown'
    <2>1. IsFiniteSet(written')
        BY <1>1, FS_AddElement DEF EditInv, WrittenKnown
    <2>2. \A d \in written' : epc'[d] \in {"written", "returned", "failed"}
        BY <1>1, <1>2 DEF EditInv, WrittenKnown
    <2>3. \A d \in written' \ Binds' : edit'[d].kind = "revoke" /\ edit'[d].device \in KnownIds'
        BY <1>1, <1>4, <1>5, <1>6 DEF EditInv, WrittenKnown
    <2> QED BY <2>1, <2>2, <2>3 DEF WrittenKnown
<1>8. DecidedOnSeen'
    BY <1>1, <1>6 DEF EditInv, DecidedOnSeen
<1>9. RecordIsSumOfEdits'
    BY ReplaceAddsEdit DEF RecordIsSumOfEdits
<1>10. ASSUME ~clobbered' PROVE ProofBindsOnce' /\ SeenIsPast' /\ BoundByPassedEpochs'
    <2>1. ~clobbered /\ seen[c] = record /\ record'.epoch = record.epoch + 1
        BY <1>1, <1>10
    <2>2. record.epoch \in Nat /\ \A d \in Edits : seen[d].epoch \in Nat
        BY DEF TypeOK, IdentityRecord
    <2>3. \A d \in Binds : edit[d].proof.epoch < record.epoch
        BY <2>1 DEF EditInv, BoundByPassedEpochs
    <2>4. \A d \in Binds : d \in Edits /\ edit[d] \in Edit /\ edit[d].kind = "bind"
        BY <1>2 DEF TypeOK, EditInv, WrittenKnown, Binds
    <2>5. \A d \in Binds : edit[d].proof.epoch \in Nat
        BY <2>4 DEF Edit, Proof
    <2>6. BoundByPassedEpochs'
        BY <1>1, <1>4, <1>5, <2>1, <2>2, <2>3, <2>5 DEF BoundByPassedEpochs
    <2>7. SeenIsPast'
        BY <1>1, <2>1, <2>2 DEF EditInv, SeenIsPast
    <2>8. ASSUME edit[c].kind = "bind", NEW d \in Binds PROVE edit[d].proof # edit[c].proof
        <3>1. edit[c].proof.epoch = record.epoch
            BY <1>4, <2>1, <2>8
        <3>2. edit[d].proof.epoch < record.epoch
            BY <2>3
        <3> QED BY <2>2, <3>1, <3>2
    <2>9. ProofBindsOnce'
        BY <1>1, <1>5, <2>1, <2>8 DEF EditInv, ProofBindsOnce
    <2> QED BY <2>6, <2>7, <2>9
<1>11. ProofBindsOnce'
    BY <1>10 DEF ProofBindsOnce
<1> QED BY <1>7, <1>8, <1>9, <1>10, <1>11 DEF EditInv

\* Every step preserves EditInv.
LEMMA EditStepInv == TypeOK /\ EditInv /\ [Next]_vars => EditInv'
<1> SUFFICES ASSUME TypeOK, EditInv, [Next]_vars PROVE EditInv'
    OBVIOUS
<1>1. ASSUME UNCHANGED <<record, epc, edit, seen, written, clobbered>> PROVE EditInv'
    BY <1>1 DEF EditInv, WrittenKnown, DecidedOnSeen, SeenIsPast, BoundByPassedEpochs,
        RecordIsSumOfEdits, ProofBindsOnce, Ids, Binds, KnownIds, Revoked
<1>2. ASSUME UsePrekeys \/ UNCHANGED vars PROVE EditInv'
    <2>1. UNCHANGED edits
        BY <1>2 DEF UsePrekeys, CheckPublisher, PublishBundle, EndPublish, ResolveTarget,
            ClaimOneOneTimePrekey, ClaimNothing, EndFetch, vars
    <2> QED BY <1>1, <2>1 DEF edits
<1>3. ASSUME NEW k \in Keys, SignProof(k) PROVE EditInv'
    BY <1>1, <1>3 DEF SignProof
<1>4. ASSUME NEW c \in Edits, NEW p \in proofs, DecideBind(c, p) PROVE EditInv'
    <2>1. [kind |-> "bind", proof |-> p] \in Edit /\ AuthorizesBinding(p) \in BOOLEAN
        BY DEF Edit, TypeOK, AuthorizesBinding
    <2>2. AuthorizesBinding(p) => p.epoch = record.epoch
        BY DEF AuthorizesBinding
    <2> DEFINE e == [kind |-> "bind", proof |-> p]
    <2>3. e.kind = "bind" /\ e.proof = p
        OBVIOUS
    <2> HIDE DEF e
    <2> QED BY <1>4, <2>1, <2>2, <2>3, DecideStepInv DEF DecideBind, e
<1>5. ASSUME NEW c \in Edits, NEW d \in KnownIds, DecideRevoke(c, d) PROVE EditInv'
    <2>1. d \in DeviceId
        BY DEF KnownIds, Binds, DeviceId, TypeOK
    <2>2. [kind |-> "revoke", device |-> d] \in Edit /\ (d \in Ids) \in BOOLEAN
        BY <2>1 DEF Edit
    <2> DEFINE e == [kind |-> "revoke", device |-> d]
    <2>3. e.kind = "revoke" /\ e.device = d
        OBVIOUS
    <2> HIDE DEF e
    <2> QED BY <1>5, <2>2, <2>3, DecideStepInv DEF DecideRevoke, e
<1>6. ASSUME NEW c \in Edits, ReplaceFails(c) \/ EmitEdit(c) PROVE EditInv'
    <2>1. UNCHANGED <<record, edit, seen, written, clobbered>>
        BY <1>6 DEF ReplaceFails, EmitEdit
    <2>2. \A d \in Edits : epc'[d] = "decided" => epc[d] = "decided"
        BY <1>6 DEF ReplaceFails, EmitEdit, TypeOK
    <2>3. \A d \in Edits : epc[d] \in {"written", "returned", "failed"}
                              => epc'[d] \in {"written", "returned", "failed"}
        BY <1>6 DEF ReplaceFails, EmitEdit, TypeOK
    <2>4. UNCHANGED <<Ids, Binds, KnownIds, Revoked>>
        BY <2>1 DEF Ids, Binds, KnownIds, Revoked
    <2>5. WrittenKnown'
        <3>1. written \subseteq Edits
            BY DEF TypeOK
        <3> QED BY <2>1, <2>3, <2>4, <3>1 DEF EditInv, WrittenKnown
    <2>6. DecidedOnSeen'
        BY <2>1, <2>2, <2>4 DEF EditInv, DecidedOnSeen
    <2>7. RecordIsSumOfEdits' /\ ProofBindsOnce'
        BY <2>1, <2>4 DEF EditInv, RecordIsSumOfEdits, ProofBindsOnce
    <2>8. ~clobbered' => SeenIsPast' /\ BoundByPassedEpochs'
        BY <2>1, <2>2, <2>4 DEF EditInv, SeenIsPast, BoundByPassedEpochs
    <2> QED BY <2>5, <2>6, <2>7, <2>8 DEF EditInv
<1> QED BY <1>2, <1>3, <1>4, <1>5, <1>6, ReplaceStepInv DEF Next, EditDevices

\* EditInv holds in every reachable state.
LEMMA EditInvariant == Spec => []EditInv
<1>1. Init => EditInv
    <2> SUFFICES ASSUME Init PROVE EditInv
        OBVIOUS
    <2>1. written = {} /\ Binds = {} /\ Revoked = {} /\ Ids = {First} /\ record.epoch = 0
        BY DEF Init, Binds, Revoked, Ids
    <2>2. IsFiniteSet(written) /\ Cardinality(written) = 0
        BY <2>1, FS_EmptySet
    <2> QED BY <2>1, <2>2 DEF Init, EditInv, WrittenKnown, DecidedOnSeen, SeenIsPast,
                BoundByPassedEpochs, RecordIsSumOfEdits, ProofBindsOnce
<1> QED BY <1>1, IdentityTypeCorrect, EditStepInv, PTL DEF Spec

\* While none has overwritten another, the edits all show in the record.
THEOREM EditsAddUp == Spec => []RecordIsSumOfEdits
<1>1. EditInv => RecordIsSumOfEdits
    BY DEF EditInv
<1> QED BY <1>1, EditInvariant, PTL

\* While no edit has overwritten another, a proof has bound one device at most.
THEOREM ProofsAreSpent == Spec => []ProofBindsOnce
<1>1. EditInv => ProofBindsOnce
    BY DEF EditInv
<1> QED BY <1>1, EditInvariant, PTL
================================================================================
