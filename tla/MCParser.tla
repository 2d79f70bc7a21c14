------------------------------- MODULE MCParser -------------------------------
(***************************************************************************)
(* For TLC: the parser on its own, with an array raw that is shorter than  *)
(* the lines, so that lines follow others that did not fit.                *)
(***************************************************************************)
EXTENDS Parser
===============================================================================
