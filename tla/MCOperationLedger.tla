------------------------- MODULE MCOperationLedger -------------------------
(* The calls of the run, in the order they are made. *)
EXTENDS OperationLedgerProps

(* An insert and a durable insert, both with a correlator; or the insert   *)
(* and two plain calls under one once key.                                 *)
MCKinds      == <<"insert", "durable", "tracked", "tracked">>
MCKeys       == <<"own", "none", "pay", "pay">>
MCOnce       == {"pay"}
MCCorrelated == {1, 2}
MCPrograms   == {{1, 2}, {1, 3, 4}}
=============================================================================
