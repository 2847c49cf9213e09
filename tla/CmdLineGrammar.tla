---------------------------- MODULE CmdLineGrammar ----------------------------
(****************************************************************************)
(* What the keypad promises, whatever the digits are: the commands that can *)
(* be typed,                                                                *)
(*    number {(+ | - | thru) number} at [+ | -] number {thru number} enter, *)
(* Clear going back along the same way, and that levels change at Enter, at *)
(* the end of such a command, or when a fader moves, and at no other time.  *)
(****************************************************************************)
CONSTANTS Address, Level

VARIABLES phase, levels

vars == <<phase, levels>>

Phase == {"empty", "selection", "operator", "at", "sign", "level", "levelThru", "done"}

Init == phase = "empty" /\ levels \in [Address -> Level]

Go(from, to) == phase \in from /\ phase' \in to /\ UNCHANGED levels

PressNumber ==
    \/ Go({"empty", "selection", "operator", "done"}, {"selection"})
    \/ Go({"at", "sign", "level", "levelThru"}, {"level"})

Operator ==
    \/ Go({"selection"}, {"operator"})
    \/ Go({"at"}, {"sign"})
    \/ Go({"level"}, {"levelThru"})

At == Go({"selection"}, {"at"})

Enter == phase = "level" /\ phase' = "done" /\ levels' \in [Address -> Level]

Clear ==
    \/ Go({"done"}, {"empty"})
    \/ Go({"selection"}, {"selection", "operator", "empty"})
    \/ Go({"operator", "at"}, {"selection"})
    \/ Go({"level"}, {"level", "levelThru", "sign", "at"})
    \/ Go({"levelThru"}, {"level"})
    \/ Go({"sign"}, {"at"})

Fader == phase' = phase /\ levels' \in [Address -> Level]

Next == PressNumber \/ Operator \/ At \/ Enter \/ Clear \/ Fader

Spec == Init /\ [][Next]_vars
=============================================================================
