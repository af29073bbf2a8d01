---------------------------- MODULE MCIntrWindow ----------------------------
(* A task that interrupts inform and two other processes.                  *)
EXTENDS IntrWindow

CONSTANTS hd, fs, mm,    \* processes
          DEV_READ       \* a message type

MCOneDriver == {hd}
MCThree     == {hd, fs, mm}
MCOneType   == {DEV_READ}

=============================================================================
