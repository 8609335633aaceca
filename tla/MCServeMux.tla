---------------------------- MODULE MCServeMux ----------------------------
(***************************************************************************)
(* Two letters, one of them in both cases, and names of up to two labels:  *)
(* spellings that differ, names that enclose one another, and the root.    *)
(***************************************************************************)
EXTENDS ServeMux

MCLabels == {"a", "A", "b"}

MCLower == [x \in MCLabels |-> IF x = "A" THEN "a" ELSE x]
===========================================================================
