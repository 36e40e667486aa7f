---------------------------- MODULE MCScopeIndex ---------------------------
(* Three rows of the server; the third is the one it makes of the draft. *)
EXTENDS ScopeIndexProps

MCServerRow == "temp" :> "c"
============================================================================
