-------------------------- MODULE MCEventRegistry --------------------------
(* Two events, one of them debounced, and one or two mounts. *)
EXTENDS EventRegistryProps
=============================================================================
