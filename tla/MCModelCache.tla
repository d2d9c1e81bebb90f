---------------------------- MODULE MCModelCache ----------------------------
(* The model cache alone: two models of one commit that share a blob.       *)
EXTENDS ModelCache, TLC

CommitOfDef == "m1" :> "c1" @@ "m2" :> "c1"
BlobsOfDef == "m1" :> {"x", "y"} @@ "m2" :> {"y", "z"}
WantsDef == "d1" :> "m1" @@ "d2" :> "m2"
=============================================================================
