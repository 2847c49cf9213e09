-------------------------------- MODULE Keypad --------------------------------
(****************************************************************************)
(* The keypad and the faders of Level Control (TransmitLevelsPage.tsx), and *)
(* the settings dialog that changes the display mode under them.  One       *)
(* action is one click; each level that changes is sent as                  *)
(* TransmitLevels!SetLevel models.                                          *)
(****************************************************************************)
EXTENDS CmdLine

CONSTANTS
    Digit,        \* the number buttons used
    HexDigit,     \* the letter buttons used, as their values
    FaderLevel,   \* where a fader is put
    FirstKeys,    \* bound: keys held by the first line, a number counting its digits
    LaterKeys,    \* bound: the same of the lines after it
    MaxDigits,    \* bound: digits of a number
    MaxEnters,    \* bound: commands committed
    MaxOther      \* bound: faders moved and modes chosen

ASSUME KeypadAssumption ==
    /\ Digit \subseteq 0..9 /\ HexDigit \subseteq 10..15
    /\ FaderLevel \subseteq 0..255
    /\ {FirstKeys, LaterKeys, MaxDigits, MaxEnters, MaxOther} \subseteq Nat

VARIABLES
    cmdLine,  \* the tokens on the display
    levels,   \* the page's level store
    mode,     \* appContext.levelDisplayMode
    enters,   \* how many commands were committed
    others    \* how many faders were moved and modes chosen

vars == <<cmdLine, levels, mode, enters, others>>

Init ==
    /\ cmdLine = <<>>
    /\ levels = [a \in Address |-> LEVEL_MIN]
    /\ mode \in LevelDisplayMode
    /\ enters = 0 /\ others = 0

\* The keys that a line holds, and the bounds.
Keys(line) == FoldLeft(LAMBDA n, token : n + IF IsNumber(token) THEN Len(token.digits) ELSE 1,
                       0, line)

WithinBounds(line) ==
    /\ Keys(line) <= (IF enters = 0 THEN FirstKeys ELSE LaterKeys)
    /\ \A i \in DOMAIN line : Len(line[i].digits) <= MaxDigits

ClearIfCommitted(line) == IF IsCommitted(line) THEN <<>> ELSE line

\* A button adds its token: to a new line after Enter, and to the number that
\* is being typed.
updateCmdLine(line, token) ==
    LET base == ClearIfCommitted(line) IN
    IF base # <<>> /\ IsNumber(token) /\ IsNumber(Last(base))
    THEN [base EXCEPT ![Len(base)] = Number(@.digits \o token.digits)]
    ELSE Append(base, token)

\* Mutant: Clear takes away a whole number.
backspacedToken(line) == IF IsCommitted(line) THEN <<>> ELSE Front(line)

\* Clear: a committed line, else the last digit of a long number, else the
\* last token.
backspaced(line) ==
    LET number == Last(line) IN
    CASE IsCommitted(line) -> <<>>
      [] IsNumber(number) /\ Len(number.digits) > 1 ->
           [line EXCEPT ![Len(line)] = Number(Front(number.digits))]
      [] OTHER -> Front(line)

\* The buttons that are enabled.
EnabledTokens(line) ==
    {Number(<<d>>) : d \in IF "NUMBER" \in allowedTokens(line) THEN Digit ELSE {}}
      \cup {Number(<<d>>) : d \in IF mode = "hex" /\ "HEX_DIGIT" \in allowedTokens(line)
                                  THEN HexDigit ELSE {}}
      \cup {Token(type) : type \in allowedTokens(line) \ {"NUMBER", "HEX_DIGIT"}}

Press ==
    /\ enters < MaxEnters
    /\ \E token \in EnabledTokens(cmdLine) : cmdLine' = updateCmdLine(cmdLine, token)
    /\ WithinBounds(cmdLine')
    /\ UNCHANGED <<levels, mode, enters, others>>

backspace ==
    /\ cmdLine # <<>>
    /\ cmdLine' = backspaced(cmdLine)
    /\ UNCHANGED <<levels, mode, enters, others>>

enter ==
    /\ cmdLineIsComplete(cmdLine) /\ enters < MaxEnters
    /\ cmdLine' = updateCmdLine(cmdLine, Token("ENTER"))
    /\ levels' = updateLevelsFromCmdLine(cmdLine', levels, mode)
    /\ enters' = enters + 1
    /\ UNCHANGED <<mode, others>>

Other == others < MaxOther /\ others' = others + 1 /\ UNCHANGED <<cmdLine, enters>>

MoveFader ==
    /\ Other
    /\ \E a \in Address, l \in FaderLevel : levels' = [levels EXCEPT ![a] = Scale * l]
    /\ UNCHANGED mode

\* SettingsDialog.onSubmit: the keypad, and what was typed on it, stay.
ChooseMode ==
    /\ Other
    /\ mode' \in LevelDisplayMode \ {mode}
    /\ UNCHANGED levels

Next == Press \/ backspace \/ enter \/ MoveFader \/ ChooseMode

Spec == Init /\ [][Next]_vars

-----------------------------------------------------------------------------
TokenType == {"NUMBER", "PLUS", "MINUS", "THRU", "AT", "ENTER"}

\* The shape of every variable; a level is never outside what DMX carries.
TypeOK ==
    /\ cmdLine \in Seq([type : TokenType, digits : Seq(Digit \cup HexDigit)])
    /\ levels \in [Address -> LEVEL_MIN..LEVEL_MAX]
    /\ mode \in LevelDisplayMode
    /\ enters \in 0..MaxEnters /\ others \in 0..MaxOther

\* Clear takes back exactly the last key, as the guide calls it a backspace
\* (doc/usage/control/index.md): whatever can be pressed, pressing Clear next
\* restores the line that was there, or the empty line that a command begins.
BackspaceUndoesKey ==
    \A token \in EnabledTokens(cmdLine) :
       backspaced(updateCmdLine(cmdLine, token)) = ClearIfCommitted(cmdLine)

\* The clauses of a selection, read as the guide explains them: each number is
\* a range of one, or from the number before it after a thru, to be added or,
\* when the last plus or minus before it is a minus, to be removed.
ThruBefore(line, i) ==
    \E k \in 1..(i - 1) : /\ line[k].type = "THRU"
                          /\ \A j \in k..(i - 1) : line[j].type \notin {"PLUS", "MINUS"}

MinusBefore(line, i) ==
    \E k \in 1..(i - 1) : /\ line[k].type = "MINUS"
                          /\ \A j \in k..(i - 1) : line[j].type # "PLUS"

Covers(line, i, a) ==
    LET Value(k) == parseInt(line[k].digits, 10) IN
    /\ IsNumber(line[i]) /\ Value(i) # NaN
    /\ IF ThruBefore(line, i) THEN Value(i - 2) # NaN /\ a \in Value(i - 2)..Value(i)
                              ELSE a = Value(i)

\* The last clause among the first n tokens that covers the address adds it.
Adds(line, n, a) ==
    \E i \in 1..n : /\ Covers(line, i, a) /\ ~MinusBefore(line, i)
                    /\ \A j \in (i + 1)..n : ~Covers(line, j, a)

\* The code's one pass over the tokens, with its flags and its ordered set,
\* selects an address exactly when the last clause that covers it adds it, and
\* no two addresses at the same place: the addresses and the list of levels
\* stay in step.
LastClauseWins ==
    cmdLineIsComplete(cmdLine) =>
       LET when == Selection(cmdLine)
       IN /\ Selected(when) = {a \in Address : Adds(cmdLine, AtPosition(cmdLine) - 1, a)}
          /\ \A a, b \in Selected(when) : Place(when, a) = Place(when, b) => a = b

\* The numbers of the level part, by their positions, and what the mode reads
\* in them, in display units.
LevelNumbers(line) == {i \in (AtPosition(line) + 1)..Len(line) : IsNumber(line[i])}
Typed(line, i) == parseInt(line[i].digits, Base(mode))

Full == IF mode = "percent" THEN 100 ELSE 255
AtMost(n, max) == IF n > max THEN max ELSE n
HasSign(line, type) == \E i \in (AtPosition(line) + 1)..Len(line) : line[i].type = type
Entered == IsCommitted(cmdLine') /\ cmdLine' # cmdLine
Shown(l) == LevelShown(l, mode)

\* A level is shown as it was typed, in every mode: after "at n" each selected
\* address shows n, full when n is above full; after "at m thru n" the first
\* selected shows m, and the last n, although its level is what the steps of the
\* ramp have added up to: exactly n in percent mode, where rounding takes up
\* what the steps lost, and when the steps are whole numbers; otherwise n but
\* for half a unit of precision for each step.  (Numbers that the mode cannot
\* read, letters typed before the mode was changed, are left out.)
ShownAsTyped ==
    [][Entered =>
         LET numbers == LevelNumbers(cmdLine')
             when == Selection(cmdLine')
             size == Cardinality(Selected(when))
             Value(i) == Typed(cmdLine', i)
             Off(a, i) == Shown(levels'[a]) - Scale * AtMost(Value(i), Full)
             WholeSteps(i, j) == (Value(j) - Value(i)) % (size - 1) = 0
         IN (/\ \A i \in numbers : Value(i) # NaN
             /\ ~HasSign(cmdLine', "PLUS") /\ ~HasSign(cmdLine', "MINUS")) =>
              \A a \in Selected(when), i, j \in numbers :
                 (\A k \in numbers : i <= k /\ k <= j) =>
                   /\ i = j => Off(a, i) = 0
                   /\ size > 1 /\ Place(when, a) = 1 => Off(a, i) = 0
                   /\ i # j /\ size > 1 /\ Place(when, a) = size =>
                        /\ 2 * Off(a, j) \in (1 - size)..(size - 1)
                        /\ mode = "percent" \/ WholeSteps(i, j) => Off(a, j) = 0]_vars

\* "at + n" and "at - n" change what is shown by n, and stop at full and zero:
\* stepping through percentages never drifts off by one (cmdline.ts:258, and
\* "sets address 1 to 10% above its current level" of the guide).  Claimed of
\* addresses at a whole level: at a fraction of a level, left by a ramp in
\* another mode, percent mode has no percentage to start from, and starts from
\* zero.
StepsByWhatIsShown ==
    [][Entered =>
         LET Step(a, n) == LET shown == Shown(levels[a]) IN
                           IF HasSign(cmdLine', "PLUS")
                           THEN AtMost(shown + Scale * n, Scale * Full)
                           ELSE IF shown < Scale * n THEN 0 ELSE shown - Scale * n
         IN (HasSign(cmdLine', "PLUS") \/ HasSign(cmdLine', "MINUS")) =>
              \A a \in Selected(Selection(cmdLine')), i \in LevelNumbers(cmdLine') :
                 (/\ LevelNumbers(cmdLine') = {i} /\ Typed(cmdLine', i) # NaN
                  /\ IsWhole(levels[a])) =>
                    Shown(levels'[a]) = Step(a, Typed(cmdLine', i))]_vars

\* The phase of a line in the grammar.
PhaseOf(line) ==
    IF line = <<>> THEN "empty" ELSE
    LET type == Last(line).type IN
    CASE type = "NUMBER" -> IF HasAt(line) THEN "level" ELSE "selection"
      [] type = "AT" -> "at"
      [] type = "ENTER" -> "done"
      [] type = "THRU" /\ HasAt(line) -> "levelThru"
      [] type \in {"PLUS", "MINUS"} /\ HasAt(line) -> "sign"
      [] OTHER -> "operator"

Grammar == INSTANCE CmdLineGrammar
           WITH phase <- PhaseOf(cmdLine), Level <- LEVEL_MIN..LEVEL_MAX

\* The enabled buttons, the digits run together and Clear keep every line in
\* the grammar, so Enter (which the page enables by another test) never commits
\* anything but a whole command, and never the same one twice.
ImplementsGrammar == Grammar!Spec
=============================================================================
