-------------------------- MODULE MCProjectIdentity --------------------------
(* ProjectIdentity on a few commands.                                      *)
EXTENDS ProjectIdentity
=============================================================================
