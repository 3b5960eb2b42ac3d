------------------------------ MODULE Uart8250 ------------------------------
(***************************************************************************)
(* The emulated 8250 UART of hv/src/vmm/devices/vmd_8250uart.c: its        *)
(* registers and the two handlers, as operators on a record.  A byte is    *)
(* the set of its bits, so that a mask is an intersection.                 *)
(***************************************************************************)
EXTENDS Integers, Sequences

CONSTANT Capacity  \* VMD_8250UART_T_OUTPUT_BUFFER_CAPACITY

ASSUME CapacityAssumption == Capacity \in Nat \ {0, 1}

Byte == SUBSET (0 .. 7)
NUL == {}
NL == {1, 3}

Offset == 0 .. 7
DATA == 0
INT_ENABLE == 1
FIFO_CONTROL == 2
LINE_CONTROL == 3
MODEM_CONTROL == 4
LINE_STATUS == 5

(* COM_LINE_CONTROL_DLAB                                                   *)
Dlab(u) == 7 \in u.line_control_reg

(* vmd_8250uart_create zeroes it.  The buffer is its first                 *)
(* output_buffer_size bytes; printed is what it has had printed.           *)
NewUart == [output_buffer |-> <<>>, baud_rate_divisor |-> {}, int_enable_reg |-> {},
            fifo_control_reg |-> {}, line_control_reg |-> {}, modem_control_reg |-> {},
            printed |-> <<>>]

(* The %s of stdio_printf stops at the first NUL.                          *)
Visible(text) ==
    LET nuls == {i \in DOMAIN text : text[i] = NUL}
    IN  IF nuls = {} THEN text
        ELSE SubSeq(text, 1, (CHOOSE i \in nuls : \A j \in nuls : i <= j) - 1)

(* Mutation: the buffer is flushed one byte too late.                      *)
Flushes_Late(text) == text[Len(text)] = NL \/ Len(text) >= Capacity

Flushes(text) == text[Len(text)] = NL \/ Len(text) >= Capacity - 1

(* Mutation: the last byte is dropped even if it is not a newline.         *)
Line_DropsLast(text) == SubSeq(text, 1, Len(text) - 1)

(* The newline that ends the buffer is replaced by the one printed.        *)
Line(text) == IF text[Len(text)] = NL THEN SubSeq(text, 1, Len(text) - 1) ELSE text

(* vmd_8250uart_putc: a full buffer is emptied first, which is not meant   *)
(* to happen ("We should have already flushed it").                        *)
Putc(u, byte) ==
    LET text == Append(IF Len(u.output_buffer) >= Capacity - 1 THEN <<>> ELSE u.output_buffer, byte)
    IN  IF Flushes(text)
        THEN [u EXCEPT !.output_buffer = <<>>, !.printed = @ \o Visible(Line(text)) \o <<NL>>]
        ELSE [u EXCEPT !.output_buffer = text]

LowByte(word) == word \cap (0 .. 7)
HighByte(word) == {b - 8 : b \in word \cap (8 .. 15)}
Shifted(byte) == {b + 8 : b \in byte}

(* Mutation: the DLAB bit is not looked at for the interrupt register.     *)
Outb_NoMsb(u, offset, byte) ==
    CASE offset = DATA /\ Dlab(u) ->
            [u EXCEPT !.baud_rate_divisor = (@ \cap (8 .. 15)) \cup byte]
      [] offset = DATA /\ ~Dlab(u) -> Putc(u, byte)
      [] offset = INT_ENABLE -> [u EXCEPT !.int_enable_reg = byte \cap (0 .. 3)]
      [] offset = FIFO_CONTROL -> [u EXCEPT !.fifo_control_reg = byte \cap {0, 1, 2, 3, 6, 7}]
      [] offset = LINE_CONTROL -> [u EXCEPT !.line_control_reg = byte]
      [] offset = MODEM_CONTROL -> [u EXCEPT !.modem_control_reg = byte \cap {0, 1, 3, 4}]
      [] OTHER -> u

(* vmd_8250uart_outb_handler; status and scratch registers ignore writes.  *)
Outb(u, offset, byte) ==
    CASE offset = DATA /\ Dlab(u) ->
            [u EXCEPT !.baud_rate_divisor = (@ \cap (8 .. 15)) \cup byte]
      [] offset = DATA /\ ~Dlab(u) -> Putc(u, byte)
      [] offset = INT_ENABLE /\ Dlab(u) ->
            [u EXCEPT !.baud_rate_divisor = LowByte(@) \cup Shifted(byte)]
      [] offset = INT_ENABLE /\ ~Dlab(u) -> [u EXCEPT !.int_enable_reg = byte \cap (0 .. 3)]
      [] offset = FIFO_CONTROL -> [u EXCEPT !.fifo_control_reg = byte \cap {0, 1, 2, 3, 6, 7}]
      [] offset = LINE_CONTROL -> [u EXCEPT !.line_control_reg = byte]
      [] offset = MODEM_CONTROL -> [u EXCEPT !.modem_control_reg = byte \cap {0, 1, 3, 4}]
      [] OTHER -> u

(* vmd_8250uart_inb_handler: always ready to transmit, nothing received.   *)
Inb(u, offset) ==
    CASE offset = DATA /\ Dlab(u) -> LowByte(u.baud_rate_divisor)
      [] offset = INT_ENABLE /\ Dlab(u) -> HighByte(u.baud_rate_divisor)
      [] offset = INT_ENABLE /\ ~Dlab(u) -> u.int_enable_reg
      [] offset = LINE_CONTROL -> u.line_control_reg
      [] offset = MODEM_CONTROL -> u.modem_control_reg
      [] offset = LINE_STATUS -> {5, 6}
      [] OTHER -> {}
=============================================================================
