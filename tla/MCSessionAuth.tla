----------------------------- MODULE MCSessionAuth -----------------------------
(* Instances of SessionAuth for TLC. *)
EXTENDS SessionAuth, TLC

\* Bound: challenges and requests name a device with the identity that has it.
Paired ==
    /\ \A n \in Nonces : challenge[n] # None => binding[challenge[n].key] # "never"
    /\ \A c \in Issues : asked[c] # None => binding[asked[c].key] # "never"

Symmetry ==
    Permutations(Nonces) \cup Permutations(Issues) \cup Permutations(Ops)
        \cup Permutations(Devices) \cup Permutations(Identities)
================================================================================
