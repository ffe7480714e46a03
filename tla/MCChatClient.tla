---------------------------- MODULE MCChatClient ----------------------------
(* Instances of ChatClient for TLC. *)
EXTENDS ChatClient, TLC

Symmetry == Permutations(Tabs) \cup Permutations(Chats)
=============================================================================
