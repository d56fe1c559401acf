----------------------------- MODULE MCCertNotary -----------------------------
(* CertNotary with two files and two certificates over them. *)
EXTENDS CertNotary, TLC

CONSTANTS f1, f2, s1, s2

Overlapping == s1 :> {f1, f2} @@ s2 :> {f2}
Disjoint == s1 :> {f1} @@ s2 :> {f2}
==============================================================================
