------------------------------- MODULE MCKeypad -------------------------------
\* Instance of Keypad for TLC: three addresses, so that a ramp has a middle,
\* and digits that name an address, miss all of them, or read differently in
\* the three modes.
EXTENDS Keypad
=============================================================================
