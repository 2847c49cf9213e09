------------------------- MODULE MCReceiveLevelsPage -------------------------
(* An instance of ReceiveLevelsPage for TLC: one page that changes universe *)
(* and mode, and reconnects, with messages under way in both directions.    *)
EXTENDS ReceiveLevelsPage
=============================================================================
