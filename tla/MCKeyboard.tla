----------------------------- MODULE MCKeyboard -----------------------------
(* One key or more of each kind, both Alt keys among them.  The ring holds *)
(* the longest sequence and not two of them.                               *)
EXTENDS Keyboard

MCKeys == {"A", "ONE", "SHIFT_L", "CTRL_R", "ALT_L", "ALT_R", "CAPS_LOCK", "NUM_LOCK", "PAD_9",
           "UP", "F1", "PRINTSCREEN", "PAUSEBREAK"}

=============================================================================
