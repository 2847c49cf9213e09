------------------------------- MODULE CmdLine -------------------------------
(****************************************************************************)
(* The keypad's command line: pages/transmit/cmdline.ts.  A token is a      *)
(* record [type, digits]; the digits of a number are kept apart, because    *)
(* what they mean depends on where they stand and on the display mode when  *)
(* Enter is pressed.                                                        *)
(****************************************************************************)
EXTENDS LevelDisplay, SequencesExt, FiniteSets

CONSTANT DMX_MAX

ASSUME CmdLineAssumption ==
    /\ DMX_MAX \in Nat \ {0}
    /\ Scale >= 6 * DMX_MAX   \* a ramp strays by less than tells percentages apart

DMX_MIN == 1
Address == DMX_MIN..DMX_MAX

Number(ds) == [type |-> "NUMBER", digits |-> ds]
Token(type) == [type |-> type, digits |-> <<>>]
IsNumber(token) == token.type = "NUMBER"
HasAt(line) == \E i \in DOMAIN line : line[i].type = "AT"
IsCommitted(line) == line # <<>> /\ Last(line).type = "ENTER"

\* What may follow a line.  A hex digit makes a number like any other.
allowedTokens(line) ==
    IF line = <<>> THEN {"NUMBER"} ELSE
    LET type == Last(line).type
        at == HasAt(line) IN
    {"NUMBER"}
       \cup (IF at THEN {"HEX_DIGIT"} ELSE {})
       \cup (IF type = "NUMBER" /\ ~at THEN {"PLUS", "MINUS", "THRU", "AT"} ELSE {})
       \cup (IF type = "NUMBER" /\ at THEN {"THRU"} ELSE {})
       \cup (IF type = "AT" THEN {"PLUS", "MINUS"} ELSE {})

\* Mutant: any number after the at is enough.
cmdLineHasLevel(line) == HasAt(line) /\ Last(line).type \notin {"AT", "ENTER"}

cmdLineIsComplete(line) == HasAt(line) /\ IsNumber(Last(line))

-----------------------------------------------------------------------------
\* parseInt: the digits up to the first that the base does not have.
parseInt(ds, base) ==
    LET value[n \in 0..Len(ds)] ==
          IF n = 0 THEN NaN
          ELSE IF \E i \in 1..n : ds[i] >= base THEN value[n - 1]
          ELSE (IF value[n - 1] = NaN THEN 0 ELSE value[n - 1] * base) + ds[n]
    IN value[Len(ds)]

AtPosition(line) == CHOOSE i \in DOMAIN line : line[i].type = "AT"

\* The addresses from..to, those that a DMX frame has.
AddressRange(from, to) ==
    IF NaN \in {from, to} THEN {} ELSE {a \in Address : from <= a /\ a <= to}

\* The Set of the code keeps the order in which addresses were added to it:
\* when[a] is the time at which a was added, 0 when it is not selected.
Selected(when) == {a \in Address : when[a] > 0}
Place(when, a) == Cardinality({b \in Selected(when) : when[b] <= when[a]})

\* The number is the end of a range that is added, in order, or removed.
SelectNumber(state, value) ==
    LET range == AddressRange(IF state.thru THEN state.last ELSE value, value)
    IN [state EXCEPT !.last = value,
                     !.now = @ + DMX_MAX,
                     !.when = [a \in Address |->
                        IF a \notin range THEN @[a]
                        ELSE IF ~state.plus THEN 0
                        ELSE IF @[a] > 0 THEN @[a] ELSE state.now + a]]

\* Mutant: a plus does not end a thru.
SelectStepThruStays(state, token) ==
    CASE IsNumber(token) -> SelectNumber(state, parseInt(token.digits, 10))
      [] token.type = "PLUS" -> [state EXCEPT !.plus = TRUE]
      [] token.type = "MINUS" -> [state EXCEPT !.plus = FALSE]
      [] OTHER -> [state EXCEPT !.thru = TRUE]

\* One token of the selection; a thru holds until the next plus or minus.
SelectStep(state, token) ==
    CASE IsNumber(token) -> SelectNumber(state, parseInt(token.digits, 10))
      [] token.type = "PLUS" -> [state EXCEPT !.plus = TRUE, !.thru = FALSE]
      [] token.type = "MINUS" -> [state EXCEPT !.plus = FALSE, !.thru = FALSE]
      [] OTHER -> [state EXCEPT !.thru = TRUE]

\* The state of the loop after each token before the at.
SelectionLoop(line) ==
    LET after[n \in 0..(AtPosition(line) - 1)] ==
          IF n = 0 THEN [when |-> [a \in Address |-> 0], now |-> 0, plus |-> TRUE,
                         thru |-> FALSE, last |-> 1]
          ELSE SelectStep(after[n - 1], line[n])
    IN after

Selection(line) == SelectionLoop(line)[AtPosition(line) - 1].when

\* Mutant: one step too many.
RampShort(levelStart, levelEnd, size) ==
    [i \in 1..size |->
       IF levelStart = NaN \/ (i > 1 /\ levelEnd = NaN) THEN NaN
       ELSE levelStart + (i - 1) * RoundDiv(levelEnd - levelStart, size)]

\* levelStart, then one step after another to levelEnd.  The step is a quotient
\* of floating-point numbers, added again and again: the last level is what has
\* added up, not what was typed (1 thru 11 at 0 thru 1 ends at
\* 0.9999999999999999).
Ramp(levelStart, levelEnd, size) ==
    [i \in 1..size |->
       IF levelStart = NaN \/ (i > 1 /\ levelEnd = NaN) THEN NaN
       ELSE levelStart + (i - 1) * RoundDiv(levelEnd - levelStart, size - 1)]

\* What the mode reads in a number of the level part.
Base(mode) == IF mode = "hex" THEN 16 ELSE 10
LevelRead(token, mode) ==
    LET parsed == parseInt(token.digits, Base(mode))
    IN IF parsed = NaN THEN NaN ELSE Scale * parsed

\* One token of the level part, for a selection of size addresses.  An empty
\* list has no first level to start from.
LevelStep(state, token, size, mode) ==
    CASE IsNumber(token) ->
           LET level == LevelRead(token, mode)
               levelStart == IF state.range = <<>> THEN NaN ELSE state.range[1]
           IN [state EXCEPT !.range = IF ~state.thru THEN <<level>>
                                      ELSE IF size > 1 THEN Ramp(levelStart, level, size)
                                      ELSE <<>>]
      [] token.type \in {"PLUS", "MINUS"} -> [state EXCEPT !.sign = token.type, !.thru = FALSE]
      [] token.type = "THRU" -> [state EXCEPT !.sign = "none", !.thru = TRUE]
      [] OTHER -> state

\* The state of the loop after the at and after each token that follows it.
LevelLoop(line, size, mode) ==
    LET after[n \in AtPosition(line)..Len(line)] ==
          IF n = AtPosition(line) THEN [range |-> <<>>, sign |-> "none", thru |-> FALSE]
          ELSE LevelStep(after[n - 1], line[n], size, mode)
    IN after

LevelChange(line, size, mode) == LevelLoop(line, size, mode)[Len(line)]

\* Mutant: the step is made in DMX levels.
NewLevelOfDMX(l, sign, change, mode) ==
    LET step == convertUserLevelToActualLevel(change, mode)
    IN CASE change = NaN -> LEVEL_MIN
         [] sign = "PLUS" -> clamp(l + step)
         [] sign = "MINUS" -> clamp(l - step)
         [] OTHER -> clamp(step)

\* The level of an address whose level was l; NaN is clamped to LEVEL_MIN.
NewLevel(l, sign, change, mode) ==
    LET current == convertActualLevelToUserLevel(l, mode)
        level == CASE sign = "PLUS" -> current + change
                   [] sign = "MINUS" -> current - change
                   [] OTHER -> change
    IN IF change = NaN THEN LEVEL_MIN ELSE clamp(convertUserLevelToActualLevel(level, mode))

\* The levels after Enter.  A list of levels shorter than the selection is
\* used in turn; an empty one (thru, for one address) changes nothing.
updateLevelsFromCmdLine(line, levels, mode) ==
    LET when == Selection(line)
        change == LevelChange(line, Cardinality(Selected(when)), mode)
        range == change.range
    IN IF range = <<>> THEN levels
       ELSE [a \in Address |->
               IF a \notin Selected(when) THEN levels[a]
               ELSE NewLevel(levels[a], change.sign,
                             range[((Place(when, a) - 1) % Len(range)) + 1], mode)]
=============================================================================
