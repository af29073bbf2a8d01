----------------------------- MODULE MCProcLife -----------------------------
(* Instances of ProcLife for TLC: FS is 3, MM 4 and INIT 5; fork may take  *)
(* an entry that kill may not free and one that it may (11 and 12).  In    *)
(* do_buddy three requests for 1 to 3 of the 16 units always fit.          *)
EXTENDS ProcLife

MCSizes  == 1..3
MCNoTask == {}
MCSlot   == {11, 12}
MCProc   == {3, 4, 5} \cup MCSlot
MCType   == CallType \cup {"SYSCALL_RET"}

MCEach(init, child, other) == [p \in {5} \cup MCSlot |->
  CASE p = 5 -> init [] p = 11 -> child [] p = 12 -> other]

(* INIT starts a shell, which starts the commands, and may kill them.      *)
(* (buddy() calls FS.)                                                     *)
MCCommands == MCEach({"FORK", "WAIT"}, {"FORK", "WAIT", "EXIT", "KILLP"},
                     {"EXIT", "EXEC", "TOTAL", "BUDDY"})

(* Everybody has children and waits for them; those INIT starts also die.  *)
MCFamily == LET calls == {"FORK", "WAIT", "KILLP"}
                dying == calls \cup {"EXIT"}
            IN MCEach(calls, dying, dying)

(* Once MM is astray every property is kept: nothing is looked for behind. *)
MCUntilAstray == ~ astray

=============================================================================
