------------------------------- MODULE MCIdentity -------------------------------
(* Instances of Identity for TLC. *)
EXTENDS Identity, TLC

\* Bound: at most MaxCalls of the calls are made in one behaviour.
MaxCalls == 5
Load ==
    Cardinality({c \in Edits : epc[c] # "idle"})
        + Cardinality({p \in Publishes : ppc[p] # "idle"})
        + Cardinality({f \in Fetches : fpc[f] # "idle"}) <= MaxCalls

Symmetry ==
    Permutations(Edits) \cup Permutations(Publishes) \cup Permutations(Bundles)
        \cup Permutations(Fetches)
================================================================================
