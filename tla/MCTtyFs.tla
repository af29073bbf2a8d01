------------------------------ MODULE MCTtyFs ------------------------------
(* Instances of TtyFs for TLC: two terminals, and one or two programs.     *)
EXTENDS TtyFs

CONSTANTS a, b

MCStdTty  == (a :> 0) @@ (b :> 1)
MCStdTty1 == a :> 0
MCTyped   == Key \ {"PAGEDOWN"}
MCNone    == {}
MCIntTask == {TTY}
MCOne     == {a}
MCOther   == {b}
MCBoth    == {a, b}
MCProc    == {a, b, FS, TTY}
MCType    == {Body(k, t, p, n) : k \in Kind, t \in Tty, p \in MCBoth, n \in 0..MaxCnt}

=============================================================================
