------------------------------- MODULE MCSpork -------------------------------
(* Three nodes in a line. *)
EXTENDS Spork

CONSTANTS s, a, b

MCDials == {<<a, s>>, <<b, a>>}
=============================================================================
