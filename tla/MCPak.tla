------------------------------- MODULE MCPak -------------------------------
(***************************************************************************)
(* Two files and two directory entries on a pak of three pages, whose      *)
(* table takes two blocks: every order of saves, deletions, repairs,       *)
(* formats, failed writes and losses of power.                             *)
(***************************************************************************)
EXTENDS Pak

Symmetry == Permutations(Names)

MCFailsAt ==
  {<<"write", "restore">>, <<"init", "restore">>,
   <<"write", "minode">>, <<"write", "dir">>, <<"write", "page">>,
   <<"init", "minode">>, <<"check", "minode">>,
   <<"format", "dir">>, <<"format", "inode">>, <<"format", "minode">>}
=============================================================================
