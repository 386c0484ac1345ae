------------------------------- MODULE Terminal -------------------------------
(***************************************************************************)
(* The text screen: terminal_writechar and its helpers and print of        *)
(* src/kernel.c.  A screen is a record: the cursor (terminal_row and       *)
(* terminal_col, two uint16_t), the cells, and whether a character was     *)
(* ever stored outside of them: nothing scrolls and nothing is checked.    *)
(***************************************************************************)
EXTENDS Integers, Sequences

CONSTANTS VGA_WIDTH, VGA_HEIGHT, UINT16

ASSUME ScreenAssumption ==
  /\ VGA_WIDTH \in Nat \ {0} /\ VGA_HEIGHT \in Nat \ {0}
  /\ UINT16 \in Nat /\ VGA_WIDTH < UINT16 /\ VGA_HEIGHT < UINT16

NUL == "NUL"
NEWLINE == "NEWLINE"
BACKSPACE == "BACKSPACE"
SPACE == "SPACE"

Cells == 0 .. VGA_WIDTH * VGA_HEIGHT - 1

terminal_initalize ==
  [row |-> 0, col |-> 0, video |-> [i \in Cells |-> SPACE], stray |-> FALSE]

Cursor(t) == t.row * VGA_WIDTH + t.col

terminal_putchar(t, c) ==
  IF Cursor(t) \in Cells THEN [t EXCEPT !.video[Cursor(t)] = c]
  ELSE [t EXCEPT !.stray = TRUE]

\* A character that is neither a newline nor a backspace.
Write(t, c) ==
  LET put == terminal_putchar(t, c)
      col == (t.col + 1) % UINT16
  IN  IF col = VGA_WIDTH
      THEN [put EXCEPT !.col = 0, !.row = (@ + 1) % UINT16]
      ELSE [put EXCEPT !.col = col]

\* At the left margin the blank goes to the last column of the row above, the
\* cursor comes back to the left margin, and the last step takes its column
\* below zero.
terminal_backspace(t) ==
  IF t.row = 0 /\ t.col = 0 THEN t
  ELSE LET back == IF t.col = 0
                   THEN [t EXCEPT !.row = @ - 1, !.col = VGA_WIDTH - 1]
                   ELSE [t EXCEPT !.col = @ - 1]
       IN  [Write(back, SPACE) EXCEPT !.col = (@ - 1) % UINT16]

\* Mutant: a backspace is a character like any other.
terminal_writechar_plain(t, c) ==
  IF c = NEWLINE THEN [t EXCEPT !.row = (@ + 1) % UINT16, !.col = 0]
  ELSE Write(t, c)

terminal_writechar(t, c) ==
  CASE c = NEWLINE -> [t EXCEPT !.row = (@ + 1) % UINT16, !.col = 0]
    [] c = BACKSPACE -> terminal_backspace(t)
    [] OTHER -> Write(t, c)

\* The length counts the terminating NUL, which is written as well.
print(t, str) ==
  LET s == Append(str, NUL)
      written[i \in 0 .. Len(s)] ==
        IF i = 0 THEN t ELSE terminal_writechar(written[i - 1], s[i])
  IN  written[Len(s)]
==============================================================================
