--------------------------- MODULE MCConversation ---------------------------
(* Small instances of Conversation for TLC. *)
EXTENDS Conversation, TLC

\* Ids are interchangeable; used only where no liveness is checked.
Symmetry == Permutations(Conversations) \cup Permutations(Runs) \cup Permutations(Calls)
=============================================================================
