------------------------------ MODULE Console ------------------------------
(***************************************************************************)
(* The consoles of KusaOS (kernel/console.c): several of them share the    *)
(* video memory, each has more rows than the screen shows, and the CRT     *)
(* controller is told which rows to show and where the cursor is.          *)
(*                                                                         *)
(* An offset from con->orig is kept as its row and its column, as the code *)
(* splits it with / and % by SCR_WIDTH.  Of the characters in the video    *)
(* memory a row keeps how many lines were begun after the one it holds, so *)
(* that 0 is the line of the cursor and what is below 0 was erased again,  *)
(* but had been copied when the rows wrapped.                              *)
(*                                                                         *)
(* out_char is the action out_char, then a ScrollTurn for each turn of its *)
(* loop, then OutCharReturns.  TTY is its only user here: printx, which    *)
(* other processes call, prints like tty_do_write when TTY is outside of   *)
(* out_char.                                                               *)
(***************************************************************************)
EXTENDS Integers

CONSTANTS NR_CONSOLES,
          SCR_WIDTH,   \* columns of the screen
          SCR_ROWS,    \* rows of the screen, SCR_SIZE / SCR_WIDTH
          CON_ROWS,    \* rows of a console, con_size / SCR_WIDTH
          Used,        \* the consoles that something is printed on
          Gap,         \* size_per_con - con_size, the cells between two consoles
          MaxLine      \* characters a read takes, those that can be erased

(* A program reads at most 128 characters at a time, 70 in the shell, and  *)
(* the screen has 25 rows of 80 in consoles of 68.                         *)
ASSUME ConsoleAssumption ==
  /\ NR_CONSOLES \in Nat \ {0} /\ SCR_WIDTH \in Nat \ {0} /\ Gap \in Nat
  /\ SCR_ROWS \in Nat /\ CON_ROWS \in Nat /\ SCR_ROWS > 1
  /\ CON_ROWS >= 2 * SCR_ROWS
  /\ Used \subseteq 0..NR_CONSOLES - 1
  /\ MaxLine \in 0..SCR_WIDTH * (SCR_ROWS - 1)

VARIABLES console,          \* console_table, in rows and columns
          current_console,  \* nr_current_console
          crtc,             \* the registers of the CRT controller
          text,             \* the video memory of each console
          erasable,         \* characters of the read that TTY may erase
          printing,         \* the console out_char is in the loop for, or Nobody
          halted            \* an assert() failed

vars == <<console, current_console, crtc, text, erasable, printing, halted>>

Con    == 0..NR_CONSOLES - 1
Row    == 0..CON_ROWS - 1
Nobody == -1

Blank == -CON_ROWS       \* a row of spaces
Torn  == -CON_ROWS - 1   \* a row with pieces of different lines, or with one missing
Line(mark) == mark > Blank

Registers(c, k) == [con |-> c, y |-> k.y, x |-> k.x, start |-> k.crtc_start]

(* init_screen() of every terminal and select_console(0).  Console 0 goes  *)
(* on below what was printed while booting, the others print their name.   *)
ConsoleInit ==
  \E booted \in 0..SCR_ROWS - 1, column \in 0..SCR_WIDTH - 1 :
    LET First(c) == [y |-> IF c = 0 THEN booted ELSE 1,
                     x |-> IF c = 0 THEN column ELSE 0,
                     crtc_start |-> 0, is_full |-> FALSE]
    IN /\ console = [c \in Con |-> First(c)]
       /\ crtc = Registers(0, First(0))
       /\ text = [c \in Con |-> [r \in Row |->
                    IF r <= First(c).y THEN First(c).y - r ELSE Blank]]
       /\ current_console = 0
       /\ erasable = [c \in Con |-> 0]
       /\ printing = Nobody
       /\ halted = FALSE

-----------------------------------------------------------------------------
(* The rows of a console.                                                  *)

\* A line is begun in row y without clearing what the row holds.
Begun(t, y) ==
  [r \in Row |-> IF r = y THEN IF t[r] = Blank THEN 0 ELSE Torn
                 ELSE IF Line(t[r]) THEN t[r] + 1 ELSE t[r]]

\* The cursor goes back from the empty line in row y to the one before it.
Unbegun(t, y) ==
  [r \in Row |-> IF r = y THEN IF t[r] = 0 THEN Blank ELSE t[r]
                 ELSE IF Line(t[r]) THEN t[r] - 1 ELSE t[r]]

\* w_copy(): the last rows become the first ones, and the next is cleared.
CopyFrom_off == CON_ROWS - SCR_ROWS
CopyFrom == CON_ROWS + 1 - SCR_ROWS
Copied(t) ==
  [r \in Row |-> CASE r < SCR_ROWS - 1 -> t[r + CopyFrom]
                   [] r = SCR_ROWS - 1 -> 0
                   [] OTHER            -> t[r]]

\* clear_screen(con->cursor, SCR_WIDTH) of a cursor that is not in column 0
\* clears the beginning of the next row too, and behind the last row that of
\* the next console.
Pierced(line) == IF line = Blank THEN Blank ELSE Torn

clear_screen(c) ==
  LET k == console[c]
  IN [d \in Con |-> [r \in Row |->
        IF \/ d = c /\ r = k.y + 1 /\ k.x > 0
           \/ d = c + 1 /\ r = 0 /\ k.y = CON_ROWS - 1 /\ k.x > Gap
        THEN Pierced(text[d][r])
        ELSE IF d = c /\ r = k.y /\ k.x = 0 THEN 0 ELSE text[d][r]]]

-----------------------------------------------------------------------------
(* The window and the cursor.                                              *)

Visible(k) == k.crtc_start <= k.y /\ k.y < k.crtc_start + SCR_ROWS

\* scroll_screen(con, SCR_DN): an older row comes into view at the top.
Oldest(k) == (k.y + 1) % CON_ROWS

StartDown(k) ==
  LET previous == IF k.crtc_start > 0 THEN k.crtc_start - 1 ELSE 0
  IN CASE ~k.is_full -> previous
       [] k.is_full /\ k.crtc_start = Oldest(k) -> k.crtc_start
       [] k.is_full /\ k.crtc_start # Oldest(k) ->
            IF k.crtc_start = 0 /\ k.y < CON_ROWS - SCR_ROWS
            THEN CON_ROWS - SCR_ROWS
            ELSE previous

\* scroll_screen(con, SCR_UP): a newer row comes into view at the bottom.
AtBottom_off(k) ==
  IF k.is_full THEN k.crtc_start + SCR_ROWS - 1 = k.y
               ELSE k.y <= k.crtc_start + SCR_ROWS
AtBottom(k) ==
  IF k.is_full THEN k.crtc_start + SCR_ROWS - 1 = k.y
               ELSE k.y < k.crtc_start + SCR_ROWS

StartUp(k) ==
  CASE AtBottom(k) -> k.crtc_start
    [] OTHER -> IF k.is_full /\ k.crtc_start + SCR_ROWS = CON_ROWS
                THEN 0 ELSE k.crtc_start + 1

\* flush(): the controller follows the current console only.
flush_any(c, k) == Registers(c, k)
flush(c, k) == IF c = current_console THEN Registers(c, k) ELSE crtc

\* The switch of out_char.
Moved(k, ch) ==
  CASE ch = "newline" -> [k EXCEPT !.y = k.y + 1, !.x = 0]
    [] ch = "backspace" ->
         IF k.x > 0 THEN [k EXCEPT !.x = k.x - 1]
         ELSE IF k.y > 0 THEN [k EXCEPT !.y = k.y - 1, !.x = SCR_WIDTH - 1]
         ELSE k
    [] ch = "printable" ->
         IF k.x + 1 < SCR_WIDTH THEN [k EXCEPT !.x = k.x + 1]
         ELSE [k EXCEPT !.y = k.y + 1, !.x = 0]

\* The last rows are copied to the beginning when the cursor leaves the end.
Leaves_late(k) == k.y > CON_ROWS
Leaves(k) == k.y >= CON_ROWS
Wrapped(k) == [k EXCEPT !.y = SCR_ROWS - 1, !.crtc_start = 0, !.is_full = TRUE]

Written(t, old, new) ==
  CASE new.y > old.y -> Begun(t, new.y)
    [] new.y < old.y -> Unbegun(t, old.y)
    [] OTHER         -> t

-----------------------------------------------------------------------------
(* The actions.                                                            *)

out_char(c, ch) ==
  LET k == console[c]
      m == Moved(k, ch)
      n == IF Leaves(m) THEN Wrapped(m) ELSE m
      t == Written(text[c], k, m)
  IN /\ printing = Nobody /\ ~halted
     /\ console' = [console EXCEPT ![c] = n]
     /\ text' = [text EXCEPT ![c] = IF Leaves(m) THEN Copied(t) ELSE t]
     /\ halted' = (k.y \notin Row \/ n.y \notin Row)
     /\ printing' = c
     /\ UNCHANGED <<current_console, crtc>>

ScrollTurn ==
  /\ printing \in Con /\ ~halted
  /\ LET c == printing
         k == [console[c] EXCEPT !.crtc_start = StartUp(console[c])]
     IN /\ ~Visible(console[c])
        /\ console' = [console EXCEPT ![c] = k]
        /\ crtc' = flush(c, k)
        /\ text' = clear_screen(c)
  /\ UNCHANGED <<current_console, erasable, printing, halted>>

OutCharReturns ==
  /\ printing \in Con /\ ~halted
  /\ Visible(console[printing])
  /\ crtc' = flush(printing, console[printing])
  /\ printing' = Nobody
  /\ UNCHANGED <<console, current_console, text, erasable, halted>>

\* tty_dev_write() echoes what is typed and ends the read with a newline; a
\* backspace gets to out_char only while tty_trans_cnt is not 0.
Echo(c) ==
  /\ erasable[c] < MaxLine
  /\ out_char(c, "printable")
  /\ erasable' = [erasable EXCEPT ![c] = @ + 1]

EchoErase(c) ==
  /\ erasable[c] > 0
  /\ out_char(c, "backspace")
  /\ erasable' = [erasable EXCEPT ![c] = @ - 1]

EchoEnd(c) ==
  /\ out_char(c, "newline")
  /\ erasable' = [erasable EXCEPT ![c] = 0]

\* tty_do_write() and sys_printx().
Write(c) ==
  /\ \E ch \in {"printable", "newline"} : out_char(c, ch)
  /\ UNCHANGED erasable

\* The keys Shift + Up and Shift + Down.
ScrollKey ==
  LET c == current_console
      k == console[c]
  IN /\ printing = Nobody /\ ~halted
     /\ \E start \in {StartDown(k), StartUp(k)} :
          LET n == [k EXCEPT !.crtc_start = start]
          IN console' = [console EXCEPT ![c] = n] /\ crtc' = flush(c, n)
     /\ UNCHANGED <<current_console, text, erasable, printing, halted>>

\* The keys PageUp, PageDown and Alt + F1 to Alt + F12.
select_console ==
  /\ printing = Nobody /\ ~halted
  /\ \E nr_console \in Con :
       /\ current_console' = nr_console
       /\ crtc' = Registers(nr_console, console[nr_console])
  /\ UNCHANGED <<console, text, erasable, printing, halted>>

ConsoleNext ==
  \/ \E c \in Used : Echo(c) \/ EchoErase(c) \/ EchoEnd(c) \/ Write(c)
  \/ ScrollTurn \/ OutCharReturns
  \/ ScrollKey \/ select_console

ConsoleSpec == ConsoleInit /\ [][ConsoleNext]_vars

(* TTY is in the middle of out_char: it goes on when it gets the processor.*)
FairConsoleSpec == ConsoleSpec /\ WF_vars(ScrollTurn \/ OutCharReturns)

-----------------------------------------------------------------------------
(* The properties.                                                         *)

(* The cursor is in its console, and the window too: the screen never      *)
(* shows rows of another console or of no console.                         *)
Console == [y : Row, x : 0..SCR_WIDTH - 1, is_full : BOOLEAN,
            crtc_start : 0..CON_ROWS - SCR_ROWS]

ConTypeOK ==
  /\ console \in [Con -> Console]
  /\ current_console \in Con
  /\ crtc \in [con : Con, y : Row, x : 0..SCR_WIDTH - 1,
               start : 0..CON_ROWS - SCR_ROWS]
  /\ text \in [Con -> [Row -> Int]]
  /\ erasable \in [Con -> 0..MaxLine]
  /\ printing \in Con \cup {Nobody}
  /\ halted \in BOOLEAN

(* The assertions at the beginning of out_char and before its loop hold:   *)
(* wherever the cursor gets to, it is taken back into its console.         *)
NoConAssert == ~halted

(* Between two characters the monitor shows the window and the cursor of   *)
(* the current console, whichever console was written to or scrolled.      *)
MonitorFollows ==
  printing = Nobody => crtc = Registers(current_console, console[current_console])

(* Two rows that are one below the other on a screen hold lines that were  *)
(* written one after the other, however far the screen has been scrolled   *)
(* back and although the rows wrap.  Left out are the row below the        *)
(* cursor's, where Shift + Down can bring old lines into view after a line *)
(* was erased, and rows that clear_screen or writing on an uncleared row   *)
(* has spoilt.                                                             *)
ViewInOrder ==
  printing = Nobody =>
    \A c \in Con : \A i \in 0..SCR_ROWS - 2 :
      LET r == console[c].crtc_start + i
      IN (r # console[c].y /\ Line(text[c][r]) /\ Line(text[c][r + 1]))
           => text[c][r] = text[c][r + 1] + 1

(* The loop of out_char ends: from wherever the user has left the screen,  *)
(* scrolling upwards brings the cursor into view.                          *)
OutCharEnds == [](printing # Nobody => <>(printing = Nobody))

=============================================================================
