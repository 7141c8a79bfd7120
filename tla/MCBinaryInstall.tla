--------------------------- MODULE MCBinaryInstall ---------------------------
(* Two releases, one of them also with other contents under the same tag. *)
EXTENDS BinaryInstall
CONSTANTS t1, t2, r1, r2
B(t, r, intact, signer) == [tag |-> t, revision |-> r, intact |-> intact, signer |-> signer]
MCBundle == {B(t1, r1, TRUE, "active"), B(t2, r1, TRUE, "active"),
             B(t1, r2, TRUE, "active"), B(t2, r1, TRUE, "retired")}
=============================================================================
