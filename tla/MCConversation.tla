---------------------------- MODULE MCConversation ----------------------------
(***************************************************************************)
(* Instances of Conversation: the pack's window and one a caller names.    *)
(***************************************************************************)
EXTENDS Conversation

MCPack == [last_n |-> 2, refresh_after |-> 2]
MCContexts == {MCPack, [last_n |-> 1, refresh_after |-> 1]}
===============================================================================
