----------------------------- MODULE SessionLedger -----------------------------
(***************************************************************************)
(* What Session / Request Authentication promises about the sessions it    *)
(* issues, without nonces, generations or handler steps.  A token is       *)
(* requested, becomes live at most once, and once it has ended it never    *)
(* lives again.  Revoking a device is one indivisible step that ends both  *)
(* the device's live sessions AND every request for a session of that      *)
(* device that has already begun; signing an identity out everywhere ends  *)
(* its live sessions only.  SessionAuth implements this specification.     *)
(***************************************************************************)
CONSTANTS Identities, Devices, Tokens, None

VARIABLES
    phase,   \* phase[t]: how far token t has come
    holder   \* holder[t]: the <<identity, device>> t was requested for, or None

vars == <<phase, holder>>

Key == Identities \X Devices
Phase == {"unrequested", "pending", "live", "ended"}

TypeOK ==
    /\ phase \in [Tokens -> Phase]
    /\ holder \in [Tokens -> Key \cup {None}]

Init ==
    /\ phase = [t \in Tokens |-> "unrequested"]
    /\ holder = [t \in Tokens |-> None]

\* A request begins; one that is doomed from the start ends at once.
Request(t, k) ==
    /\ phase[t] = "unrequested"
    /\ \E p \in {"pending", "ended"} : phase' = [phase EXCEPT ![t] = p]
    /\ holder' = [holder EXCEPT ![t] = k]

\* A pending request becomes a live session.
Grant(t) ==
    /\ phase[t] = "pending"
    /\ phase' = [phase EXCEPT ![t] = "live"]
    /\ UNCHANGED holder

\* A request fails, or one session is signed out.
Finish(t) ==
    /\ phase[t] \in {"pending", "live"}
    /\ phase' = [phase EXCEPT ![t] = "ended"]
    /\ UNCHANGED holder

\* Sign out everywhere: every live session of identity i ends.
SignOutEverywhere(i) ==
    /\ phase' = [t \in Tokens |->
                    IF phase[t] = "live" /\ holder[t][1] = i THEN "ended" ELSE phase[t]]
    /\ UNCHANGED holder

\* Device k is signed out, and no request already begun for it can succeed.
SignOutDevice(k) ==
    /\ phase' = [t \in Tokens |->
                    IF phase[t] \in {"pending", "live"} /\ holder[t] = k
                    THEN "ended" ELSE phase[t]]
    /\ UNCHANGED holder

Next ==
    \/ \E t \in Tokens, k \in Key : Request(t, k)
    \/ \E t \in Tokens : Grant(t) \/ Finish(t)
    \/ \E i \in Identities : SignOutEverywhere(i)
    \/ \E k \in Key : SignOutDevice(k)

Spec == Init /\ [][Next]_vars
================================================================================
