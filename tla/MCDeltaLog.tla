----------------------------- MODULE MCDeltaLog -----------------------------
(* Two models; the first has a row entry and a scope entry with two members, *)
(* the second one row.                                                       *)
EXTENDS DeltaLogProps

MCModels  == {"post", "author"}
MCEntries == {"post:row", "post:scope", "author:row"}
MCCells   == {"row", "member", "author"}
MCModelOf == [e \in MCEntries |-> IF e = "author:row" THEN "author" ELSE "post"]
MCEntryOf == [c \in MCCells |-> CASE c = "row"    -> "post:row"
                                  [] c = "member" -> "post:scope"
                                  [] c = "author" -> "author:row"]
\* A row with its membership, a row of each model, a move of the member alone,
\* and a commit that only moves operations.
MCWriteSets == {{}, {"row", "member"}, {"row", "author"}, {"member"}}
MCLedgerRefused == {"ledger"}
MCAllRefusals == {"ledger", "delta", "snapshot"}
=============================================================================
