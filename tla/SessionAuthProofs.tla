--------------------------- MODULE SessionAuthProofs ---------------------------
(***************************************************************************)
(* Theorems about SessionAuth for any sets of identities, devices, nonces, *)
(* calls and tokens.  The argument: generation[k] only grows, a call never *)
(* observes more than the current generation, and every session was        *)
(* observed at the CURRENT generation of its device.                       *)
(***************************************************************************)
EXTENDS SessionAuth, TLAPS

--------------------------------------------------------------------------------
(* Type correctness.                                                        *)

\* The initial state has the right types.
LEMMA TypeInit == Init => TypeOK
BY DEF Init, TypeOK, Binding, IssueStep, OpStep

\* Begin is called with operations.
LEMMA TokenRequests ==
    ASSUME NEW t \in Issues
    PROVE  /\ [kind |-> "one", caller |-> t] \in Operation
           /\ [kind |-> "all", caller |-> t] \in Operation
           /\ [kind |-> "validate", caller |-> t] \in Operation
BY DEF Operation

\* So it is for the revocation of one device.
LEMMA DeviceRequest ==
    ASSUME NEW t \in Issues, NEW d \in Devices
    PROVE  [kind |-> "device", caller |-> t, device |-> d] \in Operation
BY DEF Operation

\* Resolving the caller of a handler keeps every type.
LEMMA BeginType ==
    ASSUME TypeOK, NEW o \in Ops, NEW request \in Operation, Begin(o, request)
    PROVE  TypeOK'
BY NoneAssumption DEF TypeOK, Begin, storeVars, issueVars, ghosts, OpStep

\* Identity and GetSessionChallenge keep every type.
LEMMA EnvironmentType == TypeOK /\ Environment => TypeOK'
<1> SUFFICES ASSUME TypeOK, Environment PROVE TypeOK'
  OBVIOUS
<1>1. ASSUME NEW k \in Key, BindDevice(k) PROVE TypeOK'
  BY <1>1 DEF TypeOK, BindDevice, issueVars, opVars, ghosts, Binding
<1>2. ASSUME NEW k \in Key, RevokeDevice(k) PROVE TypeOK'
  BY <1>2 DEF TypeOK, RevokeDevice, issueVars, opVars, ghosts, Binding
<1>3. ASSUME NEW n \in Nonces, NEW k \in Key, GetSessionChallenge(n, k) PROVE TypeOK'
  BY <1>3, NoneAssumption DEF TypeOK, GetSessionChallenge, issueVars, opVars, ghosts, Challenge
<1>4. ASSUME NEW k \in Key, Reinstate(k) PROVE TypeOK'
  BY <1>4 DEF TypeOK, Reinstate, issueVars, opVars, Binding
<1> QED BY <1>1, <1>2, <1>3, <1>4 DEF Environment

\* Every step of IssueSession keeps every type.
LEMMA IssueType == \A c \in Issues : TypeOK /\ IssueSession(c) => TypeOK'
<1> SUFFICES ASSUME NEW c \in Issues, TypeOK, IssueSession(c) PROVE TypeOK'
  OBVIOUS
<1> USE DEF TypeOK, opVars, ghosts, storeVars, IssueStep, InFlight, Reject
<1>1. ASSUME NEW k \in Key, NEW n \in Nonces, ObserveGeneration(c, k, n) PROVE TypeOK'
  <2>1. [key |-> k, nonce |-> n] \in Request
    BY DEF Request
  <2> QED BY <1>1, <2>1, NoneAssumption DEF ObserveGeneration, ReadableGenerations
<1>a. \A o \in Ops : op[o] # None => op[o].caller \in Issues
  BY DEF Operation
<1>2. CASE PeekNonce(c)
  BY <1>2, <1>a DEF PeekNonce
<1>3. CASE ResolveDevice(c)
  <2>1. ipc' \in [Issues -> IssueStep] /\ \A d \in Issues \ {c} : ipc'[d] = ipc[d]
    BY <1>3 DEF ResolveDevice
  <2>2. ipc'[c] # "idle" /\ audited' \subseteq Issues \cup Ops
    BY <1>3 DEF ResolveDevice
  <2> QED BY <1>3, <1>a, <2>1, <2>2 DEF ResolveDevice
<1>4. CASE ConsumeNonce(c)
  <2>1. asked[c] \in Request /\ asked[c].nonce \in Nonces
    BY <1>4 DEF ConsumeNonce, Request
  <2>2. CASE Reject(c) /\ UNCHANGED challenge
    BY <1>4, <2>2 DEF ConsumeNonce
  <2>3. CASE NonceOpen(asked[c].nonce, asked[c].key)
             /\ challenge' = [challenge EXCEPT ![asked[c].nonce].open = FALSE]
             /\ ipc' = [ipc EXCEPT ![c] = "consumed"]
             /\ UNCHANGED audited
    <3>1. challenge[asked[c].nonce] \in Challenge
      BY <2>1, <2>3 DEF NonceOpen
    <3>2. [challenge[asked[c].nonce] EXCEPT !.open = FALSE] \in Challenge
      BY <3>1 DEF Challenge
    <3>3. challenge' \in [Nonces -> Challenge \cup {None}]
      BY <2>1, <2>3, <3>2
    <3> QED BY <1>4, <2>3, <3>3 DEF ConsumeNonce
  <2> QED BY <1>4, <2>2, <2>3 DEF ConsumeNonce
<1>5. CASE CommitSession(c)
  <2>1. /\ ipc' \in [Issues -> IssueStep]
        /\ \A d \in Issues \ {c} : ipc'[d] = ipc[d]
        /\ ipc'[c] # "idle"
        /\ ipc[c] = "consumed"
    BY <1>5 DEF CommitSession
  <2>2. sessions' = sessions \/ (sessions' = sessions \cup {c} /\ ipc'[c] = "issued")
    BY <1>5 DEF CommitSession
  <2>3. audited' \subseteq Issues \cup Ops
    BY <1>5 DEF CommitSession
  <2> QED BY <1>5, <1>a, <2>1, <2>2, <2>3 DEF CommitSession
<1>6. CASE ReturnSession(c)
  <2>1. /\ ipc' \in [Issues -> IssueStep]
        /\ \A d \in Issues \ {c} : ipc'[d] = ipc[d]
        /\ ipc'[c] \in {"returned", "failed"}
    BY <1>6 DEF ReturnSession
  <2> QED BY <1>6, <1>a, <2>1 DEF ReturnSession
<1>7. CASE AbortIssue(c)
  <2>1. /\ ipc' \in [Issues -> IssueStep]
        /\ \A d \in Issues \ {c} : ipc'[d] = ipc[d]
        /\ ipc'[c] = "failed"
    BY <1>7 DEF AbortIssue
  <2> QED BY <1>7, <1>a, <2>1 DEF AbortIssue
<1> QED BY <1>1, <1>2, <1>3, <1>4, <1>5, <1>6, <1>7 DEF IssueSession

\* Every key a call names is a key.
LEMMA AskedKey ==
    ASSUME TypeOK, NEW c \in Issues, ipc[c] # "idle"
    PROVE  asked[c] \in Request /\ asked[c].key \in Key
BY DEF TypeOK, Request

\* The device a revocation sweeps is one of its caller's identity.
LEMMA TargetInKey ==
    ASSUME TypeOK, NEW o \in Ops, opc[o] = "authorised", op[o].kind = "device"
    PROVE  TargetDevice(o) \in Key
<1>1. op[o].caller \in Issues /\ op[o].device \in Devices
  BY DEF TypeOK, Operation
<1>2. asked[op[o].caller].key \in Key
  BY <1>1, AskedKey DEF TypeOK
<1> QED BY <1>1, <1>2 DEF TargetDevice, IdentityOf, HolderOf, Key

\* Every step of the other handlers keeps every type.
LEMMA OtherCallType == \A o \in Ops : TypeOK /\ OtherCall(o) => TypeOK'
<1> SUFFICES ASSUME NEW o \in Ops, TypeOK, OtherCall(o) PROVE TypeOK'
  OBVIOUS
<1>1. ASSUME NEW t \in Issues, BeginRevokeSession(o, t) PROVE TypeOK'
  BY <1>1, BeginType, TokenRequests DEF BeginRevokeSession
<1>2. ASSUME NEW t \in Issues, BeginRevokeAll(o, t) PROVE TypeOK'
  BY <1>2, BeginType, TokenRequests DEF BeginRevokeAll
<1>3. ASSUME NEW t \in Issues, BeginValidate(o, t) PROVE TypeOK'
  BY <1>3, BeginType, TokenRequests DEF BeginValidate
<1>4. ASSUME NEW t \in Issues, NEW d \in Devices, BeginRevokeForDevice(o, t, d) PROVE TypeOK'
  BY <1>4, BeginType, DeviceRequest DEF BeginRevokeForDevice
<1> USE DEF TypeOK, issueVars, ghosts, storeVars, OpStep
<1>5. CASE RevokeSession(o)
  BY <1>5 DEF RevokeSession
<1>6. CASE RevokeAllSessions(o)
  BY <1>6 DEF RevokeAllSessions
<1>7. CASE RevokeSessionsForDevice(o)
  BY <1>7, TargetInKey DEF RevokeSessionsForDevice, BegunForDevice
<1>8. CASE TouchLastUsed(o)
  BY <1>8 DEF TouchLastUsed
<1>9. CASE ReturnRevocation(o)
  BY <1>9 DEF ReturnRevocation
<1>10. CASE AbortOp(o)
  BY <1>10 DEF AbortOp
<1> QED BY <1>1, <1>2, <1>3, <1>4, <1>5, <1>6, <1>7, <1>8, <1>9, <1>10 DEF OtherCall

\* Every step keeps every type.
LEMMA TypeStep == TypeOK /\ [Next]_vars => TypeOK'
<1>1. TypeOK /\ UNCHANGED vars => TypeOK'
  BY DEF TypeOK, vars, storeVars, issueVars, opVars, ghosts
<1> QED BY <1>1, EnvironmentType, IssueType, OtherCallType DEF Next

\* SessionAuth never leaves its types: every row, nonce and call keeps its shape.
THEOREM TypeCorrect == Spec => []TypeOK
BY TypeInit, TypeStep, PTL DEF Spec

--------------------------------------------------------------------------------
(* Revocation is complete.                                                  *)

\* The initial state satisfies RevocationInv.
LEMMA RevocationInit == Init => RevocationInv
BY DEF Init, RevocationInv

\* A removed device is bound again by Reinstate only, and nonces do not matter.
LEMMA RevocationEnvironment == TypeOK /\ RevocationInv /\ Environment => RevocationInv'
<1> SUFFICES ASSUME TypeOK, RevocationInv, Environment PROVE RevocationInv'
  OBVIOUS
<1> USE DEF RevocationInv, issueVars, opVars, ghosts, HolderOf
<1>1. ASSUME NEW k \in Key, BindDevice(k) PROVE RevocationInv'
  <2>1. k = <<k[1], k[2]>> /\ k[1] \in Identities
    BY DEF Key
  <2>2. binding[k] = "never"
    BY <1>1, <2>1 DEF BindDevice
  <2> QED BY <1>1, <2>2 DEF BindDevice, TypeOK
<1>2. ASSUME NEW k \in Key, RevokeDevice(k) PROVE RevocationInv'
  BY <1>2 DEF RevokeDevice, TypeOK
<1>3. ASSUME NEW n \in Nonces, NEW k \in Key, GetSessionChallenge(n, k) PROVE RevocationInv'
  BY <1>3 DEF GetSessionChallenge
<1>4. ASSUME NEW k \in Key, Reinstate(k) PROVE RevocationInv'
  BY <1>4 DEF Reinstate, TypeOK
<1> QED BY <1>1, <1>2, <1>3, <1>4 DEF Environment

\* IssueSession observes no more than the current generation, and commits at it only.
LEMMA RevocationIssue ==
    \A c \in Issues : TypeOK /\ RevocationInv /\ IssueSession(c) => RevocationInv'
<1> SUFFICES ASSUME NEW c \in Issues, TypeOK, RevocationInv, IssueSession(c)
             PROVE  RevocationInv'
  OBVIOUS
<1> USE DEF RevocationInv, HolderOf, InFlight, opVars, ghosts, storeVars
<1>1. ASSUME NEW k \in Key, NEW n \in Nonces, ObserveGeneration(c, k, n) PROVE RevocationInv'
  <2>1. /\ ipc[c] = "idle" /\ ipc' = [ipc EXCEPT ![c] = "observed"]
        /\ asked' = [asked EXCEPT ![c] = [key |-> k, nonce |-> n]]
        /\ UNCHANGED <<binding, generation, sessions, doomed, removed>>
    BY <1>1 DEF ObserveGeneration
  <2>2. \E g \in {generation[k], 0} : observed' = [observed EXCEPT ![c] = g]
    BY <1>1 DEF ObserveGeneration, ReadableGenerations
  <2>3. observed'[c] <= generation[k] /\ asked'[c].key = k
    BY <2>1, <2>2 DEF TypeOK
  <2>4. \A d \in Issues \ {c} : observed'[d] = observed[d] /\ asked'[d] = asked[d] /\ ipc'[d] = ipc[d]
    BY <2>1, <2>2 DEF TypeOK
  <2>5. c \notin sessions /\ c \notin doomed
    BY <2>1 DEF TypeOK
  <2> QED BY <2>1, <2>3, <2>4, <2>5 DEF TypeOK
<1>2. CASE PeekNonce(c)
  BY <1>2 DEF PeekNonce, Reject, TypeOK, IssueStep
<1>3. CASE ResolveDevice(c)
  <2>1. ipc'[c] = "resolved" => asked[c].key \notin removed
    BY <1>3 DEF ResolveDevice, Reject, TypeOK, IssueStep
  <2>2. \A d \in Issues \ {c} : ipc'[d] = ipc[d]
    BY <1>3 DEF ResolveDevice, Reject, TypeOK
  <2>3. ipc[c] = "peeked" /\ ipc'[c] \in {"resolved", "rejected", "failed"}
    BY <1>3 DEF ResolveDevice, Reject, TypeOK
  <2> QED BY <1>3, <2>1, <2>2, <2>3 DEF ResolveDevice, TypeOK
<1>4. CASE ConsumeNonce(c)
  <2>1. ipc[c] = "resolved" /\ ipc'[c] \in {"consumed", "rejected"}
    BY <1>4 DEF ConsumeNonce, Reject, TypeOK
  <2>2. \A d \in Issues \ {c} : ipc'[d] = ipc[d]
    BY <1>4 DEF ConsumeNonce, Reject, TypeOK
  <2> QED BY <1>4, <2>1, <2>2 DEF ConsumeNonce, TypeOK
<1>5. CASE CommitSession(c)
  <2>1. ipc[c] = "consumed" /\ ipc'[c] \in {"issued", "rejected"}
    BY <1>5 DEF CommitSession, Reject, TypeOK
  <2>2. \A d \in Issues \ {c} : ipc'[d] = ipc[d]
    BY <1>5 DEF CommitSession, Reject, TypeOK
  <2>3. \/ sessions' = sessions
        \/ sessions' = sessions \cup {c} /\ observed[c] = generation[asked[c].key]
    BY <1>5 DEF CommitSession
  <2>4. observed[c] = generation[asked[c].key] => asked[c].key \notin removed
    BY <2>1, AskedKey DEF TypeOK
  <2> QED BY <1>5, <2>1, <2>2, <2>3, <2>4 DEF CommitSession, TypeOK
<1>6. CASE ReturnSession(c)
  <2>1. /\ ipc[c] = "issued" /\ ipc'[c] \in {"returned", "failed"}
        /\ \A d \in Issues \ {c} : ipc'[d] = ipc[d]
    BY <1>6 DEF ReturnSession, TypeOK
  <2> QED BY <1>6, <2>1 DEF ReturnSession, TypeOK
<1>7. CASE AbortIssue(c)
  <2>1. /\ ipc[c] # "idle" /\ ipc'[c] = "failed"
        /\ \A d \in Issues \ {c} : ipc'[d] = ipc[d]
    BY <1>7 DEF AbortIssue, TypeOK
  <2> QED BY <1>7, <2>1 DEF AbortIssue, TypeOK
<1> QED BY <1>1, <1>2, <1>3, <1>4, <1>5, <1>6, <1>7 DEF IssueSession

\* A sweep bumps the generation of the device whose sessions it deletes.
LEMMA RevocationOtherCall ==
    \A o \in Ops : TypeOK /\ RevocationInv /\ OtherCall(o) => RevocationInv'
<1> SUFFICES ASSUME NEW o \in Ops, TypeOK, RevocationInv, OtherCall(o)
             PROVE  RevocationInv'
  OBVIOUS
<1> USE DEF RevocationInv, HolderOf, issueVars, ghosts, storeVars
<1>1. ASSUME NEW request, Begin(o, request) PROVE RevocationInv'
  BY <1>1 DEF Begin
<1>2. CASE RevokeSession(o)
  BY <1>2 DEF RevokeSession
<1>3. CASE RevokeAllSessions(o)
  BY <1>3 DEF RevokeAllSessions
<1>4. CASE RevokeSessionsForDevice(o)
  <2> DEFINE k == TargetDevice(o)
  <2>1. k \in Key
    BY <1>4, TargetInKey DEF RevokeSessionsForDevice
  <2>2. /\ generation'[k] = generation[k] + 1 /\ generation[k] \in Nat
        /\ \A j \in Key \ {k} : generation'[j] = generation[j]
        /\ UNCHANGED <<binding, ipc, asked, observed>>
    BY <1>4, <2>1 DEF RevokeSessionsForDevice, TypeOK
  <2>3. \A c \in Issues : ipc[c] # "idle" => asked[c].key \in Key
    BY AskedKey
  <2>4. \A c \in Issues : ipc[c] # "idle" =>
            /\ observed[c] <= generation'[asked[c].key]
            /\ asked[c].key = k => observed[c] < generation'[asked[c].key]
    BY <2>2, <2>3 DEF TypeOK
  <2>5. \A t \in sessions' : t \in sessions /\ asked[t].key # k
    BY <1>4 DEF RevokeSessionsForDevice
  <2>6. \A c \in doomed' : ipc[c] # "idle" /\ (c \in doomed \/ asked[c].key = k)
    BY <1>4 DEF RevokeSessionsForDevice, BegunForDevice
  <2>7. \A j \in removed' : binding[j] = "revoked" /\ (j \in removed \/ j = k)
    BY <1>4 DEF RevokeSessionsForDevice
  <2>8. \A t \in sessions : t \in Issues /\ ipc[t] # "idle"
    BY DEF TypeOK
  <2>a. (\A c \in Issues : ipc[c] # "idle" => observed[c] <= generation[asked[c].key])'
    BY <2>2, <2>4
  <2>b. (\A t \in sessions : observed[t] = generation[HolderOf(t)])'
    BY <2>2, <2>3, <2>5, <2>8
  <2>c. (\A c \in doomed : ipc[c] # "idle" /\ observed[c] < generation[asked[c].key])'
    <3> SUFFICES ASSUME NEW c \in doomed'
                 PROVE  ipc[c] # "idle" /\ observed[c] < generation'[asked[c].key]
      BY <2>2
    <3>1. c \in Issues
      BY <1>4 DEF RevokeSessionsForDevice, BegunForDevice, TypeOK
    <3> QED BY <2>2, <2>3, <2>4, <2>6, <3>1 DEF TypeOK
  <2>d. (\A c \in Issues :
            ipc[c] \in {"resolved", "consumed"} /\ asked[c].key \in removed
                => observed[c] < generation[asked[c].key])'
    BY <2>2, <2>3, <2>4, <2>7 DEF TypeOK
  <2>e. (\A t \in sessions : HolderOf(t) \notin removed)'
    BY <2>2, <2>5, <2>7
  <2> QED BY <2>2, <2>7, <2>a, <2>b, <2>c, <2>d, <2>e
<1>5. CASE TouchLastUsed(o)
  BY <1>5 DEF TouchLastUsed
<1>6. CASE ReturnRevocation(o)
  BY <1>6 DEF ReturnRevocation
<1>7. CASE AbortOp(o)
  BY <1>7 DEF AbortOp
<1> QED BY <1>1, <1>2, <1>3, <1>4, <1>5, <1>6, <1>7
        DEF OtherCall, BeginRevokeSession, BeginRevokeAll, BeginRevokeForDevice, BeginValidate

\* Every step preserves RevocationInv.
LEMMA RevocationStep == TypeOK /\ RevocationInv /\ [Next]_vars => RevocationInv'
<1>1. RevocationInv /\ UNCHANGED vars => RevocationInv'
  BY DEF RevocationInv, HolderOf, vars, storeVars, issueVars, opVars, ghosts
<1> QED BY <1>1, RevocationEnvironment, RevocationIssue, RevocationOtherCall DEF Next

\* RevocationInv holds in every reachable state.
LEMMA RevocationInvariant == Spec => []RevocationInv
BY TypeCorrect, RevocationInit, RevocationStep, PTL DEF Spec

\* No session survives, or is committed after, a RevokeSessionsForDevice of its
\* device that ran while the IssueSession call behind it was under way.
THEOREM RevocationIsComplete == Spec => []DeviceRevocationComplete
<1>1. TypeOK /\ RevocationInv => DeviceRevocationComplete
  BY DEF TypeOK, RevocationInv, DeviceRevocationComplete, HolderOf
<1> QED BY <1>1, TypeCorrect, RevocationInvariant, PTL

\* A device unbound in Identity and then signed out holds no session again, unless
\* Identity lists it again.
THEOREM RemovalIsFinal == Spec => []RemovedDeviceSignedOut
<1>1. RevocationInv => RemovedDeviceSignedOut
  BY DEF RevocationInv, RemovedDeviceSignedOut
<1> QED BY <1>1, RevocationInvariant, PTL

--------------------------------------------------------------------------------
(* Nonces.                                                                  *)

\* The inductive invariant behind NonceUsedOnce: the entry of a nonce that let a
\* call through is closed, so it lets no second one through.
NonceInv ==
    \A c \in Minted :
        /\ challenge[asked[c].nonce] # None
        /\ challenge[asked[c].nonce].key = asked[c].key
        /\ ~challenge[asked[c].nonce].open
        /\ \A d \in Minted : asked[c].nonce = asked[d].nonce => c = d

\* A call that has passed consumeIfValid has asked for something.
LEMMA MintedHaveAsked ==
    ASSUME TypeOK, NEW c \in Minted
    PROVE  c \in Issues /\ ipc[c] # "idle" /\ asked[c] \in Request /\ asked[c].nonce \in Nonces
BY DEF TypeOK, Minted, Request

\* NonceInv rests on the nonces and arguments of the minted calls only.
LEMMA NonceFrame ==
    ASSUME NonceInv, Minted' \subseteq Minted,
           \A c \in Minted' : /\ asked'[c] = asked[c]
                              /\ challenge'[asked[c].nonce] = challenge[asked[c].nonce]
    PROVE  NonceInv'
BY DEF NonceInv

\* Nobody else's step lets a call through, and a nonce that exists is not reissued.
LEMMA NonceElsewhere ==
    TypeOK /\ NonceInv /\ (Environment \/ \E o \in Ops : OtherCall(o)) => NonceInv'
<1> SUFFICES ASSUME TypeOK, NonceInv, Environment \/ \E o \in Ops : OtherCall(o)
             PROVE  NonceInv'
  OBVIOUS
<1>1. /\ sessions' \subseteq sessions
      /\ UNCHANGED <<ipc, asked>>
      /\ \A n \in Nonces : challenge[n] # None => challenge'[n] = challenge[n]
  <2>1. CASE Environment
    BY <2>1 DEF Environment, BindDevice, RevokeDevice, Reinstate, GetSessionChallenge, TypeOK,
                issueVars
  <2>2. CASE \E o \in Ops : OtherCall(o)
    BY <2>2 DEF OtherCall, BeginRevokeSession, BeginRevokeAll, BeginRevokeForDevice, BeginValidate,
                Begin, RevokeSession, RevokeAllSessions, RevokeSessionsForDevice, TouchLastUsed,
                ReturnRevocation, AbortOp, issueVars, storeVars
  <2> QED BY <2>1, <2>2
<1>2. Minted' \subseteq Minted
  BY <1>1 DEF Minted
<1>3. \A c \in Minted' : challenge'[asked[c].nonce] = challenge[asked[c].nonce]
  BY <1>1, <1>2, MintedHaveAsked DEF NonceInv
<1> QED BY <1>1, <1>2, <1>3, NonceFrame

\* IssueSession lets a call through by closing an entry that was open.
LEMMA NonceIssue == \A c \in Issues : TypeOK /\ NonceInv /\ IssueSession(c) => NonceInv'
<1> SUFFICES ASSUME NEW c \in Issues, TypeOK, NonceInv, IssueSession(c) PROVE NonceInv'
  OBVIOUS
<1>1. CASE ConsumeNonce(c) /\ ipc'[c] = "consumed"
  <2> DEFINE n == asked[c].nonce
  <2>1. /\ NonceOpen(n, asked[c].key)
        /\ challenge' = [challenge EXCEPT ![n].open = FALSE]
        /\ UNCHANGED <<sessions, asked>>
        /\ ipc[c] = "resolved"
        /\ \A d \in Issues \ {c} : ipc'[d] = ipc[d]
    BY <1>1 DEF ConsumeNonce, Reject, TypeOK
  <2>2. n \in Nonces /\ challenge[n] \in Challenge
    BY <2>1 DEF TypeOK, NonceOpen, Request
  <2>3. /\ challenge'[n] \in Challenge
        /\ challenge'[n].key = asked[c].key
        /\ ~challenge'[n].open
    BY <2>1, <2>2 DEF TypeOK, NonceOpen, Challenge
  <2>4. challenge'[n] # None
    BY <2>3, NoneAssumption
  <2>5. \A m \in Nonces \ {n} : challenge'[m] = challenge[m]
    BY <2>1, <2>2 DEF TypeOK
  <2>6. c \notin Minted /\ Minted' \subseteq Minted \cup {c}
    BY <2>1 DEF Minted, TypeOK
  <2>7. \A d \in Minted : asked[d].nonce # n /\ challenge'[asked[d].nonce] = challenge[asked[d].nonce]
    BY <2>1, <2>5, MintedHaveAsked DEF NonceInv, NonceOpen
  <2> QED BY <2>1, <2>3, <2>4, <2>6, <2>7 DEF NonceInv
<1>2. CASE \E k \in Key, n \in Nonces : ObserveGeneration(c, k, n)
  <2>1. /\ ipc[c] = "idle" /\ ipc'[c] = "observed"
        /\ \A d \in Issues \ {c} : ipc'[d] = ipc[d] /\ asked'[d] = asked[d]
        /\ UNCHANGED <<sessions, challenge>>
    BY <1>2 DEF ObserveGeneration, storeVars, TypeOK
  <2>2. Minted' \subseteq Minted /\ c \notin Minted
    BY <2>1 DEF Minted, TypeOK
  <2> QED BY <2>1, <2>2, MintedHaveAsked, NonceFrame
<1>3. CASE ~(ConsumeNonce(c) /\ ipc'[c] = "consumed")
           /\ ~\E k \in Key, n \in Nonces : ObserveGeneration(c, k, n)
  <2>1. /\ UNCHANGED <<asked, challenge>>
        /\ \A d \in Issues \ {c} : ipc'[d] = ipc[d]
        /\ ipc'[c] \in {"consumed", "issued", "returned"} => ipc[c] \in {"consumed", "issued"}
        /\ \/ sessions' = sessions
           \/ sessions' = sessions \cup {c} /\ ipc[c] = "consumed"
    <3>0. ipc \in [Issues -> IssueStep]
      BY DEF TypeOK
    <3> USE <3>0 DEF Reject, storeVars
    <3>1. CASE PeekNonce(c) \/ ResolveDevice(c)
      BY <3>1 DEF PeekNonce, ResolveDevice
    <3>2. CASE ConsumeNonce(c)
      BY <1>3, <3>2 DEF ConsumeNonce
    <3>3. CASE CommitSession(c)
      BY <3>3 DEF CommitSession
    <3>4. CASE ReturnSession(c) \/ AbortIssue(c)
      BY <3>4 DEF ReturnSession, AbortIssue
    <3> QED BY <1>3, <3>1, <3>2, <3>3, <3>4 DEF IssueSession
  <2>2. Minted' \subseteq Minted
    BY <2>1 DEF Minted
  <2> QED BY <2>1, <2>2, NonceFrame
<1> QED BY <1>1, <1>2, <1>3

\* NonceInv holds in every reachable state.
LEMMA NonceInvariant == Spec => []NonceInv
<1>1. Init => NonceInv
  BY DEF Init, NonceInv, Minted
<1>2. TypeOK /\ NonceInv /\ [Next]_vars => NonceInv'
  <2>1. NonceInv /\ UNCHANGED vars => NonceInv'
    BY DEF NonceInv, Minted, vars, storeVars, issueVars
  <2> QED BY <2>1, NonceElsewhere, NonceIssue DEF Next
<1> QED BY <1>1, <1>2, TypeCorrect, PTL DEF Spec

\* A challenge nonce lets one IssueSession call through, for the device it was given
\* out to, however many requests present it at once (consumeScript).
THEOREM NoncesAreSpent == Spec => []NonceUsedOnce
<1>1. NonceInv => NonceUsedOnce
  BY DEF NonceInv, NonceUsedOnce
<1> QED BY <1>1, NonceInvariant, PTL

--------------------------------------------------------------------------------
(* Audit, and who may revoke.                                               *)

\* A token reaches its caller, and a revocation is reported done, only with an event
\* in the audit log.
THEOREM ReportsAreAudited == Spec => []ReportedMeansAudited
<1>1. Init => ReportedMeansAudited
  BY DEF Init, ReportedMeansAudited
<1>2. TypeOK /\ ReportedMeansAudited /\ [Next]_vars => ReportedMeansAudited'
  <2> SUFFICES ASSUME TypeOK, ReportedMeansAudited, [Next]_vars PROVE ReportedMeansAudited'
    OBVIOUS
  <2> USE DEF ReportedMeansAudited
  <2>1. CASE UNCHANGED vars \/ Environment
    BY <2>1 DEF vars, Environment, BindDevice, RevokeDevice, Reinstate, GetSessionChallenge,
                issueVars, opVars
  <2>2. ASSUME NEW c \in Issues, IssueSession(c) PROVE ReportedMeansAudited'
    <3>1. /\ \A d \in Issues \ {c} : ipc'[d] = ipc[d]
          /\ ipc'[c] = "returned" => c \in audited'
          /\ audited \subseteq audited'
          /\ UNCHANGED opVars
      BY <2>2 DEF IssueSession, ObserveGeneration, PeekNonce, ResolveDevice, ConsumeNonce,
                  CommitSession, ReturnSession, AbortIssue, Reject, TypeOK
    <3> QED BY <3>1 DEF opVars
  <2>3. ASSUME NEW o \in Ops, OtherCall(o) PROVE ReportedMeansAudited'
    <3>1. /\ \A p \in Ops \ {o} : opc'[p] = opc[p] /\ op'[p] = op[p]
          /\ opc'[o] = "returned" /\ op'[o].kind # "validate" => o \in audited'
          /\ audited \subseteq audited'
          /\ UNCHANGED ipc
      BY <2>3 DEF OtherCall, BeginRevokeSession, BeginRevokeAll, BeginRevokeForDevice, BeginValidate,
                  Begin, RevokeSession, RevokeAllSessions, RevokeSessionsForDevice, TouchLastUsed,
                  ReturnRevocation, AbortOp, issueVars, TypeOK
    <3> QED BY <3>1
  <2> QED BY <2>1, <2>2, <2>3 DEF Next
<1> QED BY <1>1, <1>2, TypeCorrect, PTL DEF Spec

\* A session disappears only through a revocation whose caller's token is of the same
\* identity, whatever device id that caller named.
THEOREM OwnersRevoke == Spec => OnlyOwnerRevokes
<1> DEFINE Owned == \A t \in sessions \ sessions' :
                        \E o \in Ops :
                            /\ opc[o] = "authorised" /\ opc'[o] = "swept"
                            /\ IdentityOf(op[o].caller) = IdentityOf(t)
<1>1. TypeOK /\ [Next]_vars => [Owned]_vars
  <2> SUFFICES ASSUME TypeOK, Next PROVE Owned
    OBVIOUS
  <2>1. CASE Environment
    BY <2>1 DEF Environment, BindDevice, RevokeDevice, Reinstate, GetSessionChallenge
  <2>2. ASSUME NEW c \in Issues, IssueSession(c) PROVE Owned
    BY <2>2 DEF IssueSession, ObserveGeneration, PeekNonce, ResolveDevice, ConsumeNonce,
                CommitSession, ReturnSession, AbortIssue, storeVars
  <2>3. ASSUME NEW o \in Ops, OtherCall(o) PROVE Owned
    <3>1. CASE RevokeSession(o)
      BY <3>1 DEF RevokeSession, TypeOK
    <3>2. CASE RevokeAllSessions(o)
      BY <3>2 DEF RevokeAllSessions, TypeOK
    <3>3. CASE RevokeSessionsForDevice(o)
      BY <3>3 DEF RevokeSessionsForDevice, TypeOK, TargetDevice, IdentityOf
    <3>4. CASE ~(RevokeSession(o) \/ RevokeAllSessions(o) \/ RevokeSessionsForDevice(o))
      BY <2>3, <3>4 DEF OtherCall, BeginRevokeSession, BeginRevokeAll, BeginRevokeForDevice,
                        BeginValidate, Begin, TouchLastUsed, ReturnRevocation, AbortOp, storeVars
    <3> QED BY <3>1, <3>2, <3>3, <3>4
  <2> QED BY <2>1, <2>2, <2>3 DEF Next
<1> QED BY <1>1, TypeCorrect, PTL DEF Spec, OnlyOwnerRevokes

--------------------------------------------------------------------------------
(* SessionAuth implements SessionLedger.                                    *)

\* What each token's phase is, arm by arm.
LEMMA PhaseOf ==
    ASSUME TypeOK, NEW t \in Issues
    PROVE  /\ t \in sessions => Phase(t) = "live"
           /\ ipc[t] = "idle" => Phase(t) = "unrequested"
           /\ ipc[t] \in InFlight /\ observed[t] = generation[asked[t].key] => Phase(t) = "pending"
           /\ ipc[t] \in InFlight /\ observed[t] # generation[asked[t].key] => Phase(t) = "ended"
           /\ ipc[t] \in {"issued", "returned", "rejected", "failed"} /\ t \notin sessions
                => Phase(t) = "ended"
<1>1. t \in sessions => ipc[t] \in {"issued", "returned", "failed"}
  BY DEF TypeOK
<1>2. CASE t \in sessions
  BY <1>1, <1>2 DEF Phase, InFlight
<1>3. CASE t \notin sessions
  BY <1>3 DEF Phase, InFlight
<1> QED BY <1>2, <1>3

\* A token's phase is one of the ledger's, and tells how far its call has come.
LEMMA PhaseTells ==
    ASSUME TypeOK, NEW t \in Issues
    PROVE  /\ Phase(t) = "live" <=> t \in sessions
           /\ Phase(t) = "unrequested" <=> ipc[t] = "idle"
           /\ Phase(t) = "pending" <=> ipc[t] \in InFlight /\ observed[t] = generation[asked[t].key]
<1>1. ipc[t] \in {"idle", "issued", "returned", "rejected", "failed"} \cup InFlight
  BY DEF TypeOK, IssueStep
<1>2. t \in sessions => ipc[t] \in {"issued", "returned", "failed"}
  BY DEF TypeOK
<1> QED BY PhaseOf, <1>1, <1>2 DEF InFlight

\* The ledger's variables as SessionAuth computes them.
LedgerPhase == [t \in Issues |-> Phase(t)]
LedgerHolder == [t \in Issues |-> IF asked[t] = None THEN None ELSE asked[t].key]

\* What the ledger sees of a step that changes the phase of one token at most.
LEMMA LedgerOne ==
    ASSUME NEW c \in Issues, UNCHANGED asked,
           \A d \in Issues \ {c} : Phase(d)' = Phase(d),
           \/ Phase(c)' = Phase(c)
           \/ Phase(c) = "pending" /\ Phase(c)' = "live"
           \/ Phase(c) \in {"pending", "live"} /\ Phase(c)' = "ended"
    PROVE  [Ledger!Next]_(Ledger!vars)
<1>1. LedgerHolder' = LedgerHolder
  BY DEF LedgerHolder
<1>2. LedgerPhase' = [LedgerPhase EXCEPT ![c] = Phase(c)']
  BY DEF LedgerPhase
<1>3. LedgerPhase[c] = Phase(c)
  BY DEF LedgerPhase
<1>4. CASE Phase(c)' = Phase(c)
  <2>1. LedgerPhase' = LedgerPhase
    BY <1>2, <1>4 DEF LedgerPhase
  <2> QED BY <1>1, <2>1 DEF LedgerPhase, LedgerHolder, Ledger!vars
<1>5. CASE Phase(c) = "pending" /\ Phase(c)' = "live"
  <2>1. Ledger!Grant(c)
    BY <1>1, <1>2, <1>3, <1>5 DEF Ledger!Grant, LedgerPhase, LedgerHolder
  <2> QED BY <2>1 DEF Ledger!Next
<1>6. CASE Phase(c) \in {"pending", "live"} /\ Phase(c)' = "ended"
  <2>1. Ledger!Finish(c)
    BY <1>1, <1>2, <1>3, <1>6 DEF Ledger!Finish, LedgerPhase, LedgerHolder
  <2> QED BY <2>1 DEF Ledger!Next
<1> QED BY <1>4, <1>5, <1>6

\* A step that leaves the rows, generations and IssueSession calls is a stutter.
LEMMA LedgerStutter ==
    UNCHANGED <<sessions, generation, ipc, asked, observed>> => UNCHANGED Ledger!vars
BY DEF Phase, Ledger!vars

\* A step of an IssueSession call requests, grants or ends one token, or stutters.
LEMMA LedgerIssue ==
    ASSUME TypeOK, TypeOK', NEW c \in Issues, IssueSession(c)
    PROVE  [Ledger!Next]_(Ledger!vars)
<1>1. ASSUME NEW k \in Key, NEW n \in Nonces, ObserveGeneration(c, k, n)
      PROVE  [Ledger!Next]_(Ledger!vars)
  <2>1. /\ ipc[c] = "idle" /\ ipc' = [ipc EXCEPT ![c] = "observed"]
        /\ asked' = [asked EXCEPT ![c] = [key |-> k, nonce |-> n]]
        /\ \A d \in Issues \ {c} : observed'[d] = observed[d]
        /\ UNCHANGED <<generation, sessions>>
    BY <1>1 DEF ObserveGeneration, storeVars, TypeOK
  <2>2. \A d \in Issues \ {c} : Phase(d)' = Phase(d)
    BY <2>1 DEF Phase, TypeOK
  <2>3. Phase(c) = "unrequested" /\ c \notin sessions
    BY <2>1, PhaseTells DEF TypeOK
  <2>4. Phase(c)' \in {"pending", "ended"}
    <3>1. ipc'[c] = "observed"
      BY <2>1 DEF TypeOK
    <3>2. CASE observed'[c] = generation'[asked'[c].key]
      BY <2>1, <2>3, <3>1, <3>2 DEF Phase, InFlight
    <3>3. CASE observed'[c] # generation'[asked'[c].key]
      BY <2>1, <2>3, <3>1, <3>3 DEF Phase, InFlight
    <3> QED BY <3>2, <3>3
  <2>5. LedgerPhase' = [LedgerPhase EXCEPT ![c] = Phase(c)']
    BY <2>2 DEF LedgerPhase
  <2>6. LedgerHolder' = [LedgerHolder EXCEPT ![c] = k]
    <3>1. asked'[c] # None /\ asked'[c].key = k
      <4>1. [key |-> k, nonce |-> n] \in Request
        BY DEF Request
      <4> QED BY <2>1, <4>1, NoneAssumption DEF TypeOK
    <3> QED BY <2>1, <3>1 DEF LedgerHolder, TypeOK
  <2>7. Ledger!Request(c, k)
    BY <2>3, <2>4, <2>5, <2>6 DEF Ledger!Request, LedgerPhase, LedgerHolder
  <2> QED BY <2>7 DEF Ledger!Next, Ledger!Key, Key
<1> USE DEF TypeOK, Reject, storeVars
<1>2. ASSUME UNCHANGED <<sessions, generation, asked, observed>>,
             ipc'[c] \in IssueStep \ {"idle"}, \A d \in Issues \ {c} : ipc'[d] = ipc[d],
             ipc[c] \in InFlight \cup {"issued"},
             ipc[c] = "issued" => ipc'[c] \in {"returned", "failed"}
      PROVE  [Ledger!Next]_(Ledger!vars)
  <2>1. \A d \in Issues \ {c} : Phase(d)' = Phase(d)
    BY <1>2 DEF Phase
  <2>2. \/ Phase(c)' = Phase(c)
        \/ Phase(c) \in {"pending", "live"} /\ Phase(c)' = "ended"
    BY <1>2 DEF Phase, InFlight, IssueStep
  <2> QED BY <1>2, <2>1, <2>2, LedgerOne
<1>3. CASE PeekNonce(c)
  BY <1>2, <1>3 DEF PeekNonce, InFlight, IssueStep
<1>4. CASE ResolveDevice(c)
  BY <1>2, <1>4 DEF ResolveDevice, InFlight, IssueStep
<1>5. CASE ConsumeNonce(c)
  BY <1>2, <1>5 DEF ConsumeNonce, InFlight, IssueStep
<1>6. CASE ReturnSession(c)
  BY <1>2, <1>6 DEF ReturnSession, InFlight, IssueStep
<1>7. CASE AbortIssue(c)
  BY <1>2, <1>7 DEF AbortIssue, InFlight, IssueStep
<1>8. CASE CommitSession(c)
  <2>1. CASE sessions' = sessions
    BY <1>2, <1>8, <2>1 DEF CommitSession, InFlight, IssueStep
  <2>2. CASE sessions' # sessions
    <3>1. /\ observed[c] = generation[asked[c].key] /\ ipc[c] = "consumed"
          /\ sessions' = sessions \cup {c}
          /\ ipc' = [ipc EXCEPT ![c] = "issued"]
          /\ UNCHANGED <<generation, asked, observed>>
      BY <1>8, <2>2 DEF CommitSession
    <3>2. \A d \in Issues \ {c} : Phase(d)' = Phase(d)
      BY <3>1 DEF Phase
    <3>3. Phase(c) = "pending"
      BY <3>1, PhaseOf DEF InFlight
    <3>4. Phase(c)' = "live"
      <4>1. ipc'[c] = "issued" /\ c \in sessions'
        BY <3>1
      <4> QED BY <4>1 DEF Phase, InFlight
    <3> QED BY <3>1, <3>2, <3>3, <3>4, LedgerOne
  <2> QED BY <2>1, <2>2
<1> QED BY <1>1, <1>3, <1>4, <1>5, <1>6, <1>7, <1>8 DEF IssueSession

\* A step of another call signs one token, an identity or a device out, or stutters.
LEMMA LedgerOtherCall ==
    ASSUME TypeOK, TypeOK', RevocationInv, NEW o \in Ops, OtherCall(o)
    PROVE  [Ledger!Next]_(Ledger!vars)
<1>1. CASE RevokeSession(o)
  <2>0. PICK c : c = op[o].caller
    OBVIOUS
  <2>1. c \in Issues /\ ipc[c] \in {"issued", "returned", "failed"}
    BY <1>1, <2>0 DEF RevokeSession, TypeOK, Operation
  <2>2. sessions' = sessions \ {c} /\ UNCHANGED <<generation, ipc, asked, observed>>
    BY <1>1, <2>0 DEF RevokeSession, issueVars
  <2>3. \A d \in Issues \ {c} : Phase(d)' = Phase(d)
    BY <2>2 DEF Phase
  <2>4. Phase(c) \in {"live", "ended"}
    BY <2>1, PhaseOf
  <2>5. Phase(c)' = "ended"
    BY <2>1, <2>2 DEF Phase, InFlight
  <2> QED BY <2>1, <2>2, <2>3, <2>4, <2>5, LedgerOne
<1>2. CASE RevokeAllSessions(o)
  <2> DEFINE i == IdentityOf(op[o].caller)
  <2>1. op[o].caller \in Issues /\ ipc[op[o].caller] # "idle"
    BY <1>2 DEF RevokeAllSessions, TypeOK, Operation
  <2>2. i \in Identities
    BY <2>1, AskedKey DEF IdentityOf, HolderOf, Key
  <2>3. /\ sessions' = {t \in sessions : IdentityOf(t) # i}
        /\ UNCHANGED <<generation, ipc, asked, observed>>
    BY <1>2 DEF RevokeAllSessions, issueVars
  <2>4. ASSUME NEW t \in Issues
        PROVE  Phase(t)' = IF Phase(t) = "live" /\ LedgerHolder[t][1] = i THEN "ended" ELSE Phase(t)
    <3>1. CASE t \in sessions
      <4>1. ipc[t] \in {"issued", "returned", "failed"} /\ asked[t] # None
        BY <3>1 DEF TypeOK
      <4>2. LedgerHolder[t][1] = IdentityOf(t) /\ Phase(t) = "live"
        BY <3>1, <4>1, PhaseOf DEF LedgerHolder, IdentityOf, HolderOf
      <4> HIDE DEF i
      <4>3. CASE IdentityOf(t) = i
        BY <2>3, <4>1, <4>2, <4>3 DEF Phase, InFlight
      <4>4. CASE IdentityOf(t) # i
        BY <2>3, <3>1, <4>2, <4>4 DEF Phase
      <4> QED BY <4>3, <4>4
    <3>2. CASE t \notin sessions
      <4> HIDE DEF i
      <4>1. Phase(t)' = Phase(t)
        BY <2>3, <3>2 DEF Phase
      <4> QED BY <3>2, <4>1, PhaseTells
    <3> QED BY <3>1, <3>2
  <2>5. LedgerHolder' = LedgerHolder
    BY <2>3 DEF LedgerHolder
  <2> HIDE DEF i
  <2>6. Ledger!SignOutEverywhere(i)
    BY <2>4, <2>5 DEF Ledger!SignOutEverywhere, LedgerPhase, LedgerHolder
  <2> QED BY <2>2, <2>6 DEF Ledger!Next
<1>3. CASE RevokeSessionsForDevice(o)
  <2> DEFINE k == TargetDevice(o)
  <2>1. k \in Key
    BY <1>3, TargetInKey DEF RevokeSessionsForDevice
  <2>2. /\ generation'[k] = generation[k] + 1 /\ generation[k] \in Nat
        /\ \A j \in Key \ {k} : generation'[j] = generation[j]
        /\ sessions' = {t \in sessions : HolderOf(t) # k}
        /\ UNCHANGED <<ipc, asked, observed>>
    BY <1>3, <2>1 DEF RevokeSessionsForDevice, TypeOK, issueVars
  <2> HIDE DEF k
  <2>3. ASSUME NEW t \in Issues
        PROVE  Phase(t)' = IF Phase(t) \in {"pending", "live"} /\ LedgerHolder[t] = k
                           THEN "ended" ELSE Phase(t)
    <3>1. CASE ipc[t] = "idle"
      BY <2>2, <3>1 DEF Phase, TypeOK, InFlight
    <3>2. CASE ipc[t] # "idle"
      <4>1. asked[t] # None /\ LedgerHolder[t] = HolderOf(t) /\ HolderOf(t) \in Key
        BY <3>2, AskedKey DEF TypeOK, LedgerHolder, HolderOf
      <4>2. observed[t] \in Nat /\ observed[t] <= generation[HolderOf(t)]
        BY <3>2 DEF RevocationInv, HolderOf, TypeOK
      <4>3. CASE HolderOf(t) = k
        <5>1. t \notin sessions' /\ observed'[t] # generation'[asked'[t].key]
          BY <2>2, <4>2, <4>3 DEF HolderOf
        <5>2. Phase(t)' = "ended"
          BY <2>2, <3>2, <5>1 DEF Phase
        <5>3. Phase(t) \in {"pending", "live", "ended"}
          BY <3>2 DEF Phase
        <5> QED BY <4>1, <4>3, <5>2, <5>3
      <4>4. CASE HolderOf(t) # k
        <5>1. generation'[asked[t].key] = generation[asked[t].key]
          BY <2>2, <4>1, <4>4 DEF HolderOf
        <5>2. Phase(t)' = Phase(t)
          BY <2>2, <4>4, <5>1 DEF Phase
        <5> QED BY <4>1, <4>4, <5>2
      <4> QED BY <4>3, <4>4
    <3> QED BY <3>1, <3>2
  <2>4. LedgerHolder' = LedgerHolder
    BY <2>2 DEF LedgerHolder
  <2>5. Ledger!SignOutDevice(k)
    BY <2>3, <2>4 DEF Ledger!SignOutDevice, LedgerPhase, LedgerHolder
  <2> QED BY <2>1, <2>5 DEF Ledger!Next, Ledger!Key, Key
<1>4. CASE ~(RevokeSession(o) \/ RevokeAllSessions(o) \/ RevokeSessionsForDevice(o))
  <2>1. UNCHANGED <<sessions, generation, ipc, asked, observed>>
    BY <1>4 DEF OtherCall, BeginRevokeSession, BeginRevokeAll, BeginRevokeForDevice,
                BeginValidate, Begin, TouchLastUsed, ReturnRevocation, AbortOp, storeVars, issueVars
  <2> QED BY <2>1, LedgerStutter
<1> QED BY <1>1, <1>2, <1>3, <1>4

\* SessionAuth implements SessionLedger: nonces, generations and seven-step logins
\* amount to requests, grants and indivisible revocations.
THEOREM ImplementsLedger == Spec => LedgerSpec
<1>1. Init => Ledger!Init
  <2> SUFFICES ASSUME Init PROVE Ledger!Init
    OBVIOUS
  <2>1. \A t \in Issues : Phase(t) = "unrequested" /\ asked[t] = None
    BY DEF Init, Phase, InFlight
  <2> QED BY <2>1 DEF Ledger!Init
<1>2. TypeOK /\ TypeOK' /\ RevocationInv /\ [Next]_vars => [Ledger!Next]_(Ledger!vars)
  <2>1. Environment \/ UNCHANGED vars => UNCHANGED <<sessions, generation, ipc, asked, observed>>
    BY DEF Environment, BindDevice, RevokeDevice, Reinstate, GetSessionChallenge, vars, storeVars,
           issueVars
  <2> QED BY <2>1, LedgerStutter, LedgerIssue, LedgerOtherCall DEF Next
<1> QED BY <1>1, <1>2, TypeCorrect, RevocationInvariant, PTL DEF Spec, LedgerSpec, Ledger!Spec

================================================================================
