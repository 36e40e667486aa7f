--------------------------- MODULE MCRowCausality --------------------------
(* A row with two fields, two overlapping patches, a destroy, a query. *)
EXTENDS RowCausalityProps

MCFields == {"pinned", "muted"}

MCOps       == {"pin", "both", "remove"}
MCPatchedBy == [o \in MCOps |-> CASE o = "pin" -> {"pinned"} [] o = "both" -> MCFields [] OTHER -> {}]
MCValueOf   == [o \in MCOps |-> CASE o = "pin" -> 11 [] o = "both" -> 12 [] OTHER -> 13]
MCCalls     == {{"pin", "both"}, {"both", "remove"}}
=============================================================================
