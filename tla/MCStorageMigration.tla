------------------------ MODULE MCStorageMigration ------------------------
(* Small instances of StorageMigration. *)
EXTENDS StorageMigration
CONSTANTS v1, v2, s1

OneSession == {s1}
MCValue == {v1, v2}
MCCompressible == {v1}
=============================================================================
