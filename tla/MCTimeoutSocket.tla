---------------------------- MODULE MCTimeoutSocket ----------------------------
(* Instance of TimeoutSocket for TLC: six bytes in three lines, a buffer of two  *)
(* bytes, so that every read may receive too much or too little, and limits    *)
(* and amounts on both sides of a line and of the buffer.                      *)
EXTENDS TimeoutSocket

MCNewlines == {2, 3, 6}
MCAmounts == {0, 1, 3}
MCLimits == {-1, 0, 1, 3}
MCHints == {0, 3}
MCPayloads == {0, 3}
==============================================================================
