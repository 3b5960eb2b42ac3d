----------------------------- MODULE MCStartup -----------------------------
(* A machine of 64 pages, its free memory in two runs with a hole and      *)
(* pages of the firmware around them.                                      *)
EXTENDS Startup

MachineTypes ==
    [p \in 0 .. 63 |->
        CASE p = 6 -> "Hole"
          [] p \in {7, 8} -> "BootServices"
          [] p \in {60, 61} -> "Runtime"
          [] OTHER -> "Conventional"]

(* Headers a kernel may have, and ones with a single thing wrong.          *)
Good == [magic |-> TRUE, kernel64 |-> TRUE, cmdlineFits |-> TRUE, aligned |-> TRUE,
         setup_sects |-> 1, pref |-> 4]
AllHeaders ==
    {[Good EXCEPT !.setup_sects = s, !.pref = p] : s \in {0, 1, 2}, p \in {3, 4, 12, 15}}
        \cup {[Good EXCEPT !.magic = FALSE], [Good EXCEPT !.kernel64 = FALSE],
              [Good EXCEPT !.cmdlineFits = FALSE], [Good EXCEPT !.aligned = FALSE]}
=============================================================================
