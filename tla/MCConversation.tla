--------------------------- MODULE MCConversation ---------------------------
(* Two turns at once, two sessions of which the store keeps one.           *)
EXTENDS Conversation, TLC

CONSTANTS t1, t2, s1, s2

Symmetry == Permutations(Turns) \cup Permutations(Ids)

=============================================================================
