------------------------------ MODULE MCChanCheck ------------------------------
\* Instances of ChanCheck for TLC: the configurations give one or two universes,
\* two addresses, two priorities (the default among them) and levels zero and
\* full; FieldValue holds 0 where the address field may be emptied.
EXTENDS ChanCheck
=============================================================================
