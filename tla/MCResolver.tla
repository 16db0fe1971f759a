----------------------------- MODULE MCResolver -----------------------------
(***************************************************************************)
(* Answers for TLC: every content for one of the two types.                *)
(***************************************************************************)
EXTENDS Resolver

CONSTANTS nameX, nameY, nameZ

MCAnswers ==
  ({"A"} \X {"address", "error", "truncated", nameY})
    \cup ({"AAAA"} \X {"address", "empty", "useless", nameZ})
=============================================================================
