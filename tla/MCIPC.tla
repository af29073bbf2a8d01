------------------------------- MODULE MCIPC -------------------------------
(* Instances of IPC for TLC.                                               *)
EXTENDS IPC

CONSTANTS tty, hd, fs, mm, usr,    \* processes
          DEV_READ, DEV_WRITE      \* message types

MCOneDriver    == {hd}
MCFour         == {hd, fs, mm, usr}
MCOneType      == {DEV_READ}

=============================================================================
