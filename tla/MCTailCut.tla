----------------------------- MODULE MCTailCut -----------------------------
(* Two query records: the cut may be killed between them. *)
EXTENDS TailCut

MCQueries == {"feed", "detail"}
=============================================================================
