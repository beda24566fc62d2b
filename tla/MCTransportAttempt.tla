------------------------- MODULE MCTransportAttempt -------------------------
(* TransportAttempt with every transport and every command, as Init leaves *)
(* them open.                                                              *)
EXTENDS TransportAttempt
=============================================================================
