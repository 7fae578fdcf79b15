------------------------------ MODULE MCMessaging ------------------------------
EXTENDS Messaging, TLC

CONSTANTS a, b, t1, t2

MCParticipants == {a, b}
MCTasks == {t1, t2}

Symmetry == Permutations(MCParticipants) \cup Permutations(MCTasks)

\* bound: if both devices have published before, nobody has claimed from them yet.
MCInit == Init /\ \E p \in Participants : published[p] = 0 \/ pool = signedPrekeys

MCSpec == MCInit /\ [][Next]_vars

================================================================================
