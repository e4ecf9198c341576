------------------------- MODULE MCConversationRoutes -------------------------
(***************************************************************************)
(* Instances of ConversationRoutes for model checking.                     *)
(***************************************************************************)
EXTENDS ConversationRoutes, TLC

RoutesSymmetry ==
    Permutations(Handlers) \cup Permutations(Conversations) \cup Permutations(Lists)
=============================================================================
