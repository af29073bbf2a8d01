------------------------------ MODULE Keyboard ------------------------------
(***************************************************************************)
(* The scan codes of the keyboard (kernel/keyboard.c): the interrupt       *)
(* handler stores them one byte at a time in a ring, and keyboard_read,    *)
(* which TTY calls between its messages, puts them together to keys,       *)
(* follows the modifiers and hands each key to in_process (kernel/tty.c).  *)
(* The handler may come between any two bytes that keyboard_read takes.    *)
(*                                                                         *)
(* A key sends what the appendix of include/sys/keymap.h says, and is      *)
(* pressed again only when it was released.  What becomes of a key that    *)
(* in_process puts into the ring of a terminal is in TtyFs, and of the     *)
(* views that it scrolls in Console.                                       *)
(*                                                                         *)
(* A lock that is pressed sets the LEDs: keyboard_read writes two bytes to *)
(* the keyboard and polls KB_DATA for the answer to each.  The answer is a *)
(* byte like any other: the handler puts it into the ring too, and another *)
(* byte that comes before kb_ack looks hides it, for ever.                 *)
(***************************************************************************)
EXTENDS Integers, Sequences, SequencesExt

CONSTANTS Keys,          \* the keys of the keyboard that are used
          KB_IN_BYTES,   \* size of the ring
          MaxEvents      \* bound: presses and releases of keys

VARIABLES
  pending,      \* bytes of the last event that the keyboard has yet to send
  kb_in,        \* the ring
  acked,        \* KB_DATA still holds the answer of the keyboard
  pc,           \* TTY is "out" of keyboard_read, "in" its loop, or in set_leds
  got,          \* the bytes of this turn of the loop
  key, make,    \* its local variables, which keep their values from turn to turn
  down, locks,  \* shift_l, ..., alt_r that are 1, and the locks that are
  held, caps,   \* for the properties: keys and locks as the typist has them
  cleared,      \* for the properties: one Alt key was released, another is held
  events,       \* presses and releases so far
  owed,         \* for the properties: what the keys under way are to do
  done,         \* for the properties: what the last key did and was to do
  lost          \* for the properties: a byte or a key was lost

kbdVars == <<pending, kb_in, acked, pc, got, key, make, down, locks,
             held, caps, cleared, events, owed, done, lost>>

FLAG_BREAK == 128
KB_ACK == \hFA

(* The codes of a key, and the row of keymap for a code: alone, with Shift *)
(* and behind E0.  A row that is not here is 0 in every column.            *)
ScanCode == [
  A |-> <<\h1E>>, ONE |-> <<\h02>>, ENTER |-> <<\h1C>>, F1 |-> <<\h3B>>,
  SHIFT_L |-> <<\h2A>>, SHIFT_R |-> <<\h36>>, CTRL_L |-> <<\h1D>>,
  CTRL_R |-> <<\hE0, \h1D>>, ALT_L |-> <<\h38>>, ALT_R |-> <<\hE0, \h38>>,
  CAPS_LOCK |-> <<\h3A>>, NUM_LOCK |-> <<\h45>>,
  PAD_8 |-> <<\h48>>, PAD_9 |-> <<\h49>>, PAD_SLASH |-> <<\hE0, \h35>>,
  UP |-> <<\hE0, \h48>>, PAGEUP |-> <<\hE0, \h49>>,
  PRINTSCREEN |-> <<\hE0, \h2A, \hE0, \h37>>,
  PAUSEBREAK |-> <<\hE1, \h1D, \h45, \hE1, \h9D, \hC5>>]

keymap(code) ==
  CASE code = \h02 -> <<"1", "!", "0">>
    [] code = \h1C -> <<"ENTER", "ENTER", "PAD_ENTER">>
    [] code = \h1D -> <<"CTRL_L", "CTRL_L", "CTRL_R">>
    [] code = \h1E -> <<"a", "A", "0">>
    [] code = \h2A -> <<"SHIFT_L", "SHIFT_L", "0">>
    [] code = \h35 -> <<"/", "?", "PAD_SLASH">>
    [] code = \h36 -> <<"SHIFT_R", "SHIFT_R", "0">>
    [] code = \h37 -> <<"*", "*", "0">>
    [] code = \h38 -> <<"ALT_L", "ALT_L", "ALT_R">>
    [] code = \h3A -> <<"CAPS_LOCK", "CAPS_LOCK", "0">>
    [] code = \h3B -> <<"F1", "F1", "0">>
    [] code = \h45 -> <<"NUM_LOCK", "NUM_LOCK", "0">>
    [] code = \h48 -> <<"PAD_8", "8", "UP">>
    [] code = \h49 -> <<"PAD_9", "9", "PAGEUP">>
    [] OTHER       -> <<"0", "0", "0">>

Letter == {"a"}
Shift == {"SHIFT_L", "SHIFT_R"}
Alt == {"ALT_L", "ALT_R"}
Modifier == Shift \cup Alt \cup {"CTRL_L", "CTRL_R"}
Lock == {"CAPS_LOCK", "NUM_LOCK"}
Special == {"PRINTSCREEN", "PAUSEBREAK"}

ASSUME KeyboardAssumption ==
  Keys \subseteq DOMAIN ScanCode /\ KB_IN_BYTES \in Nat \ {0} /\ MaxEvents \in Nat

MakeCode(k) == ScanCode[k]
BreakCode(k) ==
  IF k = "PRINTSCREEN" THEN <<\hE0, \hB7, \hE0, \hAA>>
  ELSE IF k = "PAUSEBREAK" THEN <<>>
  ELSE [ScanCode[k] EXCEPT ![Len(ScanCode[k])] = @ + FLAG_BREAK]

KeyboardInit ==       \* init_keyboard
  /\ pending = <<>> /\ kb_in = <<>> /\ acked = TRUE
  /\ pc = "out" /\ got = <<>> /\ key = "0" /\ make = FALSE
  /\ down = {} /\ locks = {"NUM_LOCK"}
  /\ held = {} /\ caps = {"NUM_LOCK"} /\ cleared = FALSE
  /\ events = 0 /\ owed = <<>> /\ done = <<>> /\ lost = FALSE

-----------------------------------------------------------------------------
(***************************************************************************)
(* What in_process does with a key.                                        *)
(***************************************************************************)
Nothing == <<>>

in_process(k, mods) ==
  CASE k = "UP"     -> IF mods \cap Shift # {} THEN <<"scroll", k>> ELSE Nothing
    [] k = "PAGEUP" -> <<"select", k>>
    [] k = "F1"     -> IF mods \cap Alt # {} THEN <<"select", k>> ELSE Nothing
    [] k \in Modifier \cup Lock \cup Special -> Nothing
    [] OTHER        -> <<"put", k>>

(***************************************************************************)
(* The typist.  Meant is what a key is for, with those that are held; an   *)
(* Alt key that is held while another was released counts no more.         *)
(***************************************************************************)
Shifted == held \cap Shift # {}

Meant(k) ==
  CASE k = "A"         -> <<"put", IF Shifted # ("CAPS_LOCK" \in caps) THEN "A" ELSE "a">>
    [] k = "ONE"       -> <<"put", IF Shifted THEN "!" ELSE "1">>
    [] k = "ENTER"     -> <<"put", "ENTER">>
    [] k = "PAD_SLASH" -> <<"put", "/">>
    [] k = "PAD_8"     -> IF Shifted \/ "NUM_LOCK" \in caps THEN <<"put", "8">> ELSE Nothing
    [] k = "PAD_9"     -> IF Shifted \/ "NUM_LOCK" \in caps THEN <<"put", "9">>
                          ELSE <<"select", "PAGEUP">>
    [] k = "UP"        -> IF Shifted THEN <<"scroll", "UP">> ELSE Nothing
    [] k = "PAGEUP"    -> <<"select", "PAGEUP">>
    [] k = "F1"        -> IF held \cap Alt # {} /\ ~ cleared THEN <<"select", "F1">>
                          ELSE Nothing
    [] OTHER           -> Nothing

Toggled(set, k) == IF k \in set THEN set \ {k} ELSE set \cup {k}

Types(codes, meant) ==
  /\ pending = <<>> /\ events < MaxEvents
  /\ pending' = codes
  /\ events' = events + 1
  /\ owed' = IF lost \/ codes = <<>> THEN owed ELSE Append(owed, meant)
  /\ done' = <<>>
  /\ UNCHANGED <<kb_in, acked, pc, got, key, make, down, locks, lost>>

Press(k) ==
  /\ k \notin held
  /\ Types(MakeCode(k), Meant(k))
  /\ held' = held \cup {k}
  /\ caps' = IF k \in Lock THEN Toggled(caps, k) ELSE caps
  /\ cleared' = (cleared /\ k \notin Alt)

Release(k) ==
  /\ k \in held
  /\ Types(BreakCode(k), Nothing)
  /\ held' = held \ {k}
  /\ cleared' = IF k \in Alt THEN held' \cap Alt # {} ELSE cleared
  /\ UNCHANGED caps

keyboard_handler ==
  /\ pending # <<>>
  /\ pending' = Tail(pending)
  /\ acked' = (Head(pending) = KB_ACK)
  /\ IF Len(kb_in) < KB_IN_BYTES
       THEN kb_in' = Append(kb_in, Head(pending)) /\ UNCHANGED <<owed, lost>>
       ELSE lost' = TRUE /\ owed' = <<>> /\ UNCHANGED kb_in
  /\ done' = <<>>
  /\ UNCHANGED <<pc, got, key, make, down, locks, held, caps, cleared, events>>

-----------------------------------------------------------------------------
(***************************************************************************)
(* keyboard_read: make is not initialised.                                 *)
(***************************************************************************)
ReadStart ==
  /\ pc = "out" /\ kb_in # <<>>
  /\ pc' = "in" /\ got' = <<>> /\ key' = "0"
  /\ make' \in BOOLEAN
  /\ done' = <<>>
  /\ UNCHANGED <<pending, kb_in, acked, down, locks, held, caps, cleared, events, owed, lost>>

ReadEnd ==
  /\ pc = "in" /\ got = <<>> /\ kb_in = <<>>
  /\ pc' = "out" /\ key' = "0" /\ make' = FALSE
  /\ done' = <<>>
  /\ UNCHANGED <<pending, kb_in, acked, got, down, locks, held, caps, cleared, events, owed,
                 lost>>

(* Another byte is needed: those so far begin a sequence of PrintScreen    *)
(* or Pause, which are compared as they come, or are an E0 alone.          *)
NeedsMore_anywhere(bytes) ==
  bytes = <<\hE0>> \/ \E s \in {MakeCode("PRINTSCREEN"), MakeCode("PAUSEBREAK")} :
                       IsStrictPrefix(bytes, s) \/ IsStrictPrefix(bytes, Tail(s))
NeedsMore(bytes) ==
  \/ bytes = <<\hE0>>
  \/ \E s \in {MakeCode("PRINTSCREEN"), BreakCode("PRINTSCREEN"), MakeCode("PAUSEBREAK")} :
       IsStrictPrefix(bytes, s)

get_byte ==
  /\ pc = "in" /\ kb_in # <<>> /\ (got = <<>> \/ NeedsMore(got))
  /\ got' = Append(got, Head(kb_in))
  /\ kb_in' = Tail(kb_in)
  /\ done' = <<>>
  /\ UNCHANGED <<pending, acked, pc, key, make, down, locks, held, caps, cleared, events, owed,
                 lost>>

(* A Pause that turns out to be none leaves its E1 as the code.            *)
scan_code == IF Head(got) = \hE1 THEN \hE1 ELSE Last(got)
code_with_E0 == Len(got) > 1 /\ Head(got) # \hE1 /\ got[Len(got) - 1] = \hE0

(* key, as the sequences of the special keys leave it.                     *)
SpecialKey ==
  IF got = MakeCode("PAUSEBREAK") THEN "PAUSEBREAK"
  ELSE IF got \in {MakeCode("PRINTSCREEN"), BreakCode("PRINTSCREEN")} THEN "PRINTSCREEN"
  ELSE key

Column_always ==
  IF code_with_E0 THEN 3
  ELSE IF (down \cap Shift # {}) # ("CAPS_LOCK" \in locks) THEN 2 ELSE 1
Column ==
  LET shift == down \cap Shift # {}
      letter == keymap(scan_code % FLAG_BREAK)[1] \in Letter
  IN  IF code_with_E0 THEN 3
      ELSE IF shift # (letter /\ "CAPS_LOCK" \in locks) THEN 2 ELSE 1

(* The right Alt key is kept in alt_l too.                                 *)
Flag(k) == IF k = "ALT_R" THEN "ALT_L" ELSE k

Follow_makes(k, made) == IF made THEN down \cup ({Flag(k)} \cap Modifier) ELSE down
Follow(k, made) ==
  IF made THEN down \cup ({Flag(k)} \cap Modifier) ELSE down \ {Flag(k)}

(* The keys of the number pad, without NumLock and with it.                *)
Numpad(k) ==
  CASE k = "PAD_SLASH" -> "/"
    [] k = "PAD_ENTER" -> "ENTER"
    [] k = "PAD_8"     -> IF "NUM_LOCK" \in locks THEN "8" ELSE "UP"
    [] k = "PAD_9"     -> IF "NUM_LOCK" \in locks THEN "9" ELSE "PAGEUP"
    [] OTHER           -> k

Finish(did, nowLost) ==
  /\ got' = <<>>
  /\ lost' = (lost \/ nowLost)
  /\ IF lost' THEN owed' = <<>> /\ done' = <<>>
     ELSE owed' = Tail(owed) /\ done' = <<did, Head(owed)>>
  /\ UNCHANGED <<pending, kb_in, acked, held, caps, cleared, events>>

Whole == pc = "in" /\ got # <<>> /\ ~ NeedsMore(got)

(* A special key, of this turn or of an earlier one of this call: no other *)
(* key is looked up until the flags of a modifier change the variable.     *)
DecodeSpecial ==
  /\ Whole /\ SpecialKey \in Special
  /\ make' = CASE got = MakeCode("PRINTSCREEN") -> TRUE
               [] got = BreakCode("PRINTSCREEN") -> FALSE
               [] OTHER -> make
  /\ key' = IF make' /\ down # {} THEN "0" ELSE SpecialKey
  /\ UNCHANGED <<pc, down, locks>>
  /\ Finish(Nothing, got \notin {MakeCode(k) : k \in Special}
                               \cup {BreakCode("PRINTSCREEN"), <<KB_ACK>>})

DecodeKey ==
  /\ Whole /\ SpecialKey \notin Special
  /\ LET made == scan_code < FLAG_BREAK
         k == keymap(scan_code % FLAG_BREAK)[Column]
     IN  /\ make' = made
         /\ key' = "0"
         /\ down' = Follow(k, made)
         /\ IF made /\ k \in Lock THEN locks' = Toggled(locks, k) /\ pc' = "LED_CODE"
            ELSE UNCHANGED <<locks, pc>>
         /\ Finish(IF made THEN in_process(Numpad(k), down') ELSE Nothing, FALSE)

(* LED_CODE, and then the leds: the keyboard answers behind what it is     *)
(* sending.  kb_ack is as content with the answer to an earlier byte.      *)
set_leds ==
  /\ pc \in {"LED_CODE", "leds"}
  /\ pc' = IF pc = "LED_CODE" THEN "LED_CODE_ack" ELSE "leds_ack"
  /\ pending' = Append(pending, KB_ACK)
  /\ owed' = IF lost THEN owed ELSE Append(owed, Nothing)
  /\ done' = <<>>
  /\ UNCHANGED <<kb_in, acked, got, key, make, down, locks, held, caps, cleared, events, lost>>

kb_ack ==
  /\ pc \in {"LED_CODE_ack", "leds_ack"} /\ acked
  /\ pc' = IF pc = "LED_CODE_ack" THEN "leds" ELSE "in"
  /\ done' = <<>>
  /\ UNCHANGED <<pending, kb_in, acked, got, key, make, down, locks, held, caps, cleared, events,
                 owed, lost>>

KeyboardNext ==
  \/ \E k \in Keys : Press(k) \/ Release(k)
  \/ keyboard_handler
  \/ ReadStart \/ ReadEnd \/ get_byte \/ DecodeSpecial \/ DecodeKey
  \/ set_leds \/ kb_ack

KeyboardSpec == KeyboardInit /\ [][KeyboardNext]_kbdVars

-----------------------------------------------------------------------------
(* Every key does what it is for with the modifiers and locks as they were *)
(* when it was pressed, in the order of the keys, however its bytes, those *)
(* of the keys around it, the answers to set_leds and the calls of         *)
(* keyboard_read come: as long as no byte found the ring full and no key   *)
(* followed PrintScreen or Pause in the same call, and but for F1, which   *)
(* forgets the Alt key that is held when another was released.             *)
KeysExact == done # <<>> => done[1] = done[2]

(* When all is taken, the locks are those that are set and the modifiers   *)
(* those that are held.  No flag sticks: none is set, alt_l either, when   *)
(* no key of its kind is held.  None is forgotten, but for an Alt key that *)
(* is held while another was released: keyboard.c keeps both in alt_l,     *)
(* which the release of either clears.                                     *)
ModifiersFollow ==
  (~ lost /\ pending = <<>> /\ kb_in = <<>> /\ got = <<>>) =>
     /\ locks = caps /\ down \ Alt = (held \cap Modifier) \ Alt
     /\ down \cap Alt # {} => held \cap Alt # {}
     /\ held \cap Alt # {} /\ ~ cleared => down \cap Alt # {}

(* TTY, which spins inside keyboard_read until the byte that it needs of a *)
(* key is there, never waits for one that only another key would send.     *)
NoEndlessWait ==
  (~ lost /\ got # <<>> /\ NeedsMore(got) /\ kb_in = <<>>) => pending # <<>>

=============================================================================
