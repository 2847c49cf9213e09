----------------------------- MODULE LevelDisplay -----------------------------
(****************************************************************************)
(* How a level (0 to 255) is shown and typed: common/levelDisplay.ts and    *)
(* the conversions of pages/transmit/cmdline.ts.  A ramp typed in decimal   *)
(* or hex stores fractions of a level, so every level here is counted in    *)
(* units of 1/Scale, the precision to which numbers are kept (the source    *)
(* has doubles, whose precision varies with their size: see README.md).     *)
(****************************************************************************)
EXTENDS Integers

CONSTANT Scale

ASSUME ScaleAssumption == Scale \in Nat \ {0}

LevelDisplayMode == {"decimal", "hex", "percent"}
LEVEL_MIN == 0
LEVEL_MAX == 255 * Scale

\* What parseInt gives for no digits.  All that is compared with it is a natural
\* number otherwise, or a step of a ramp, which is less than a level below one.
NaN == -Scale
Unknown == -1     \* shown as "??"

IsWhole(l) == l % Scale = 0

\* Math.round(n / d), d positive.
RoundDiv(n, d) == (2 * n + d) \div (2 * d)

\* The two tables, entry by entry: nearest value, but only 0 is 0 and only
\* 255 is 100.
LEVEL_PERCENT_TABLE(l) ==
    CASE l = 0 -> 0
      [] l = 255 -> 100
      [] OTHER -> LET p == RoundDiv(l * 100, 255) IN
                  IF p = 0 THEN 1 ELSE IF p = 100 THEN 99 ELSE p

PERCENT_LEVEL_TABLE(p) == RoundDiv(p * 255, 100)

\* levelDisplayString, as the number it writes: there is no percentage for a
\* fraction of a level.
LevelShown(l, mode) ==
    CASE mode # "percent" -> l
      [] mode = "percent" /\ IsWhole(l) -> Scale * LEVEL_PERCENT_TABLE(l \div Scale)
      [] OTHER -> Unknown

\* The level as the user thinks of it; ?? 0 where the table has no entry.
convertActualLevelToUserLevel(l, mode) ==
    LET shown == LevelShown(l, mode) IN IF shown = Unknown THEN 0 ELSE shown

\* Mutant: no upper end.
clampLow(l) == IF l < LEVEL_MIN THEN LEVEL_MIN ELSE l

clamp(l) ==
    CASE l < LEVEL_MIN -> LEVEL_MIN
      [] l > LEVEL_MAX -> LEVEL_MAX
      [] OTHER -> l

\* A percentage that is not in the table (above 100, below 0, not whole) is
\* computed; either way the result is a whole level.
convertUserLevelToActualLevel(u, mode) ==
    CASE mode # "percent" -> u
      [] mode = "percent" /\ IsWhole(u) /\ u \in 0..(100 * Scale) ->
           Scale * PERCENT_LEVEL_TABLE(u \div Scale)
      [] OTHER -> Scale * RoundDiv(u * 255, 100 * Scale)
=============================================================================
