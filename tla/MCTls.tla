------------------------------- MODULE MCTls -------------------------------
(* Instances of Tls for TLC. *)
EXTENDS Tls
=============================================================================
