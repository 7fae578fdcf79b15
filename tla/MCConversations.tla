---------------------------- MODULE MCConversations ----------------------------
EXTENDS Conversations, TLC

CONSTANTS alice, bob, eve, c1, c2, w1, w2

MCSubjects == {alice, bob, eve}
MCConversationIds == {c1, c2}
MCTypeOf == [i \in MCConversationIds |-> "conversation"]
MCPairs == {{alice, bob}}
MCActions == {ActionAccess}
MCScopes == {"read", "full"}
MCWorkers == {w1, w2}

\* Anybody grants to eve, in either scope, and anybody revokes.
MCDirectCalls ==
    [op : {"grant"}, grant : {g \in Grant : g.subject = eve}]
    \cup [op : {"revoke"}, grant : {g \in Grant : g.scope = "full"}]

Symmetry == Permutations({alice, bob}) \cup Permutations(MCConversationIds) \cup Permutations(MCWorkers)

================================================================================
