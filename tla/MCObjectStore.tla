---------------------------- MODULE MCObjectStore ----------------------------
(* The runs of ObjectStore: a large body, a small one, and a record        *)
(* descriptor that names the large one.                                    *)
EXTENDS ObjectStore, TLC

CONSTANTS large, small, record, d1, d2

Naming == record :> {large}
Shards == (large :> 1) @@ (small :> 0) @@ (record :> 0)
TwoChunks == [x \in {large, small, record} |-> IF x = large THEN 2 ELSE 1]

(* Two devices put the same bodies while maintenance collects them.        *)
Putting ==
    (<<"put", d1, large>> :> 1) @@ (<<"put", d2, large>> :> 1) @@ (<<"put", d1, small>> :> 1) @@
    (<<"pin", d2, large>> :> 1) @@ (<<"read", large>> :> 1) @@ (<<"fail">> :> 1) @@ (<<"stuck">> :> 1) @@
    (<<"crash">> :> 2) @@ (<<"revoke", d1>> :> 1)

(* A small body has been uploaded as a file, and is put again.             *)
Mixing ==
    (<<"upload", d1, small, 1>> :> 1) @@ (<<"expire">> :> 1) @@ (<<"put", d1, small>> :> 1) @@
    (<<"put", d2, small>> :> 1) @@ (<<"read", small>> :> 1) @@ (<<"stuck">> :> 1)

(* A descriptor and its body are pushed, pinned and replaced.              *)
Pushing ==
    (<<"put", d1, large>> :> 2) @@ (<<"put", d1, record>> :> 1) @@ (<<"push", d1, record>> :> 2) @@
    (<<"push", d2, large>> :> 1) @@ (<<"pin", d2, large>> :> 1) @@ (<<"push", d1, Nothing>> :> 1) @@
    (<<"state_pin", d1>> :> 1) @@ (<<"crash">> :> 1)

(* Custody is taken twice, released late, forgotten and restored.          *)
Keeping ==
    (<<"put", d1, small>> :> 1) @@ (<<"retain", d1, small>> :> 2) @@ (<<"retain", d2, small>> :> 1) @@
    (<<"release", d1>> :> 2) @@ (<<"release", d2>> :> 2) @@ (<<"revoke", d1>> :> 1) @@
    (<<"forget", d1>> :> 1) @@ (<<"restore">> :> 1)

(* Uploads that are finished by the worker or by the request.              *)
Uploading ==
    (<<"upload", d1, large, 1>> :> 1) @@ (<<"upload", d2, large, 2>> :> 1) @@ (<<"cancel">> :> 1) @@
    (<<"expire">> :> 1) @@ (<<"crash">> :> 2) @@ (<<"fail">> :> 1) @@ (<<"revoke", d1>> :> 1)

(* The removal of a chunk file fails once, and so does its row.            *)
Sticking ==
    (<<"upload", d1, large, 1>> :> 1) @@ (<<"upload", d2, large, 2>> :> 1) @@ (<<"fail">> :> 1) @@
    (<<"stuck">> :> 1) @@ (<<"expire">> :> 1)

ObjectWorks == {Putting, Mixing, Pushing, Keeping, Uploading, Sticking}
StickingWorks == {Sticking}
==============================================================================
