--------------------------- MODULE MCTransmitLevels ---------------------------
\* Instances of TransmitLevels for TLC: two universes, two addresses, three
\* priorities, the default among them, and faders at zero, at half a level and
\* near full.
EXTENDS TransmitLevels
=============================================================================
