------------------------------ MODULE MCIoBus ------------------------------
(* IoBus with two UARTs, of which COM2 comes before COM1, and three kinds  *)
(* of guests.                                                              *)
EXTENDS IoBus

CONSTANTS com1, com2

Bases == [d \in Device |-> IF d = com1 THEN 16 ELSE 0]

(* A letter, and a byte that sets DLAB.                                    *)
Letter == {0, 5, 6}
SetDlab == {0, 1, 7}

(* One that transmits texts, with NULs too, switching DLAB in between.     *)
Writer == [devices |-> {com1}, offsets |-> {DATA, LINE_CONTROL}, sizes |-> {1},
           bytes |-> {Letter, NL, NUL, SetDlab}, others |-> {}, maxSent |-> 4]

(* One that uses all registers of a UART, and transmits nothing.           *)
Prober == [devices |-> {com1}, offsets |-> Offset, sizes |-> {1},
           bytes |-> {NL, SetDlab}, others |-> {}, maxSent |-> 0]

(* One that uses two UARTs and accesses of several sizes.                  *)
Switcher == [devices |-> {com1, com2}, offsets |-> {DATA, MODEM_CONTROL},
             sizes |-> {1, 4}, bytes |-> {Letter}, others |-> {8}, maxSent |-> 2]

AllDrivers == {Writer, Prober, Switcher}
=============================================================================
