--------------------------- MODULE MCReceiveLevels ---------------------------
(* An instance of ReceiveLevels for TLC: two handlers, one of which watches *)
(* what the other has left.                                                 *)
EXTENDS ReceiveLevels
=============================================================================
