--------------------------- MODULE MCConversation ---------------------------
EXTENDS Conversation, TLC

CONSTANTS t1, t2  \* the slots for tool-handler tasks, as model values

Symmetry == Permutations(Tasks)

=============================================================================
