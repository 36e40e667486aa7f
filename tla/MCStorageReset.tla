--------------------------- MODULE MCStorageReset ---------------------------
(* Three versions: the second changes the schema of one model, the third   *)
(* the data version.  Any of them may start after any other.               *)
EXTENDS StorageResetProps

MCModels   == {"post", "author"}
MCVersions == 1 .. 3
MCDataOf   == <<1, 1, 2>>
MCSchemaOf == [v \in MCVersions |-> [m \in MCModels |-> IF m = "post" /\ v > 1 THEN 2 ELSE 1]]
=============================================================================
