----------------------------- MODULE MCHdDriver -----------------------------
(* Instances of HdDriver for TLC: two partition tables and three sectors,  *)
(* of which FS asks for one, two or, one too many for the byte of the      *)
(* count, three at a time.                                                 *)
EXTENDS HdDriver

CONSTANTS x, y
MCValue   == {x, y}
MCBuffer  == {<<x, y, x>>, <<y, x, y>>}

MCProc    == {FS, HD, SYS}
MCIntTask == {HD}
MCType    == {"DEV_OPEN", "DEV_READ", "DEV_WRITE", "DEV_IOCTL", "GET_TICKS"}

=============================================================================
