--------------------------- MODULE MCNotarization ---------------------------
(* Notarization with two certificates over one file. *)
EXTENDS Notarization, TLC

CONSTANTS f1, s1, s2

Shared == s1 :> {f1} @@ s2 :> {f1}
SharedTxs == {s1, s2} \X {f1}
=============================================================================
