--------------------------- MODULE MCClientSettings ---------------------------
\* Instance of ClientSettings for TLC: two pages, two values of each key.
EXTENDS ClientSettings
=============================================================================
