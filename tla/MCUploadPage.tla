---------------------------- MODULE MCUploadPage ----------------------------
(* UploadPage on four files, of which two have one name. *)
EXTENDS UploadPage, TLC

CONSTANTS f1, f2, f3, f4

Names == (f1 :> 1) @@ (f2 :> 1) @@ (f3 :> 2) @@ (f4 :> 3)
=============================================================================
