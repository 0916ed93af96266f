--------------------------- MODULE MCVideoPages ---------------------------
(* VideoPages on a small instance. *)
EXTENDS VideoPages
=============================================================================
