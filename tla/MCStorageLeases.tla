--------------------------- MODULE MCStorageLeases ---------------------------
(* Instances of StorageLeases for TLC.                                     *)
EXTENDS StorageLeases, TLC

CONSTANTS o1, o2, d1, d2

OnTwoDevices == (o1 :> d1) @@ (o2 :> d2)
WrongClocks == {-4, -1, 1}
FarApart == (d1 :> -1) @@ (d2 :> 1)
Mixes == {(o1 :> "cleanup") @@ (o2 :> "cleanup"), (o1 :> "shared") @@ (o2 :> "cleanup"),
          (o1 :> "backup") @@ (o2 :> "shared")}
=============================================================================
