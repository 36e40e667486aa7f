-------------------------- MODULE MCQueryFreshness --------------------------
(* A relation of one or two pages. *)
EXTENDS QueryFreshnessProps
=============================================================================
