-------------------------- MODULE MC_GroupSizesParse --------------------------
(* Strings of up to five characters: brackets, commas, a digit that makes *)
(* valid sizes, one that makes sizes over 64 in pairs, and a letter.       *)
EXTENDS GroupSizesParse

MC_Chars == {"[", "]", ",", "1", "7", "a"}
====
