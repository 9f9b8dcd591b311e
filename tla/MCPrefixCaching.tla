--------------------------- MODULE MCPrefixCaching ---------------------------
(* Instances of PrefixCaching for TLC. *)
EXTENDS PrefixCaching

(* Prompts that share their first block, and one that shares two. *)
SharedPrompts == {<<1, 1, 1>>, <<1, 1, 2>>, <<1, 1, 2, 2, 1>>}

=============================================================================
