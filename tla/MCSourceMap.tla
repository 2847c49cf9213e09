----------------------------- MODULE MCSourceMap -----------------------------
(* Instances of SourceMap for TLC: one page, which may reconnect and change *)
(* universe, and a source that is found, changes and expires.               *)
EXTENDS SourceMap
=============================================================================
