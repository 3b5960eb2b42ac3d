---------------------------- MODULE IoBusProofs ----------------------------
(***************************************************************************)
(* The lookup of I/O ports reaches the right device and UARTs keep their   *)
(* registers and their text, for any devices, drivers and capacity.        *)
(***************************************************************************)
EXTENDS IoBus, SequenceTheorems, TLAPS

Lists == INSTANCE PageListProofs

UartType == [output_buffer : Seq(Byte), baud_rate_divisor : SUBSET (0 .. 15), int_enable_reg : Byte,
             fifo_control_reg : Byte, line_control_reg : Byte, modem_control_reg : Byte,
             printed : Seq(Byte)]

Typed ==
    /\ driver \in Drivers
    /\ head \in Device \cup {NULL} /\ next \in [Device -> Device \cup {NULL}]
    /\ registered \subseteq Device
    /\ uart \in [Device -> UartType]
    /\ access \in Access \cup {NoAccess} /\ iter \in Device \cup {NULL, "idle"} /\ answer \in Byte
    /\ sent \in [Device -> Seq(Byte)] /\ latched \in [Device -> [Bank -> Byte]]

(* Between two accesses the buffer has room for a byte and for the NUL.    *)
Room == \A d \in Device : Len(uart[d].output_buffer) <= Capacity - 2

(* What each register holds, whatever DLAB is.                             *)
Registers ==
    \A d \in Device :
        /\ LowByte(uart[d].baud_rate_divisor) = latched[d][<<DATA, TRUE>>]
        /\ HighByte(uart[d].baud_rate_divisor) = latched[d][<<INT_ENABLE, TRUE>>]
        /\ uart[d].int_enable_reg = latched[d][<<INT_ENABLE, FALSE>>] \cap (0 .. 3)

BusInv == Typed /\ Room /\ Registers

-----------------------------------------------------------------------------
LEMMA AccessShape ==
    ASSUME Typed
    PROVE  access.byte \in Byte /\ access.write \in BOOLEAN
<1>1. \A g \in Drivers : g.bytes \subseteq Byte
  BY BusConstants
<1>2. NUL \in Byte
  BY DEF NUL, Byte
<1>3. CASE access = NoAccess
  BY <1>2, <1>3 DEF NoAccess
<1>4. CASE access \in [write : {FALSE}, size : driver.sizes, port : GuestPorts, byte : {NUL}]
  BY <1>2, <1>4
<1>5. CASE access \in [write : {TRUE}, size : driver.sizes, port : GuestPorts, byte : driver.bytes]
  BY <1>1, <1>5 DEF Typed
<1> QED
  BY <1>3, <1>4, <1>5 DEF Typed, Access

LEMMA OffsetOfPort ==
    ASSUME NEW d \in Device, NEW p \in Ports(d)
    PROVE  p - Base[d] \in Offset
BY BusConstants DEF Ports, Offset

(* What is printed of a line: its bytes, up to the first NUL.              *)
LEMMA VisibleType ==
    ASSUME NEW t \in Seq(Byte)
    PROVE  /\ Visible(t) \in Seq(Byte) /\ Len(Visible(t)) <= Len(t)
           /\ \A i \in 1 .. Len(Visible(t)) : Visible(t)[i] = t[i]
           /\ Len(Visible(t)) < Len(t) => t[Len(Visible(t)) + 1] = NUL
<1> DEFINE nuls == {i \in DOMAIN t : t[i] = NUL}
           first == CHOOSE i \in nuls : \A j \in nuls : i <= j
<1>1. CASE nuls = {}
  BY <1>1 DEF Visible
<1>2. CASE nuls # {}
  <2>1. \E i \in nuls : \A j \in nuls : i <= j
    <3>1. nuls \subseteq Nat
      OBVIOUS
    <3> HIDE DEF nuls
    <3> QED
      BY <1>2, <3>1, Lists!LeastExists
  <2>2. first \in nuls
    BY <2>1
  <2>3. first \in Nat /\ first >= 1 /\ first <= Len(t) /\ t[first] = NUL
    BY <2>2
  <2>4. Visible(t) = SubSeq(t, 1, first - 1)
    BY <1>2 DEF Visible
  <2> HIDE DEF first
  <2>5. \A i \in 1 .. first - 1 : t[i] \in Byte
    BY <2>3
  <2>6. /\ Visible(t) \in Seq(Byte) /\ Len(Visible(t)) = IF 1 <= first - 1 THEN first - 1 ELSE 0
        /\ \A i \in 1 .. first - 1 : Visible(t)[i] = t[i]
    <3>1. first - 1 \in Int
      BY <2>3
    <3>2. LET v == SubSeq(t, 1, first - 1)
          IN  /\ v \in Seq(Byte)
              /\ Len(v) = IF 1 <= first - 1 THEN (first - 1) - 1 + 1 ELSE 0
              /\ \A i \in 1 .. (first - 1) - 1 + 1 : v[i] = t[1 + i - 1]
      BY <2>5, <3>1, SubSeqProperties
    <3>3. (first - 1) - 1 + 1 = first - 1 /\ \A i \in 1 .. first - 1 : 1 + i - 1 = i
      BY <2>3
    <3> QED
      BY <2>4, <3>2, <3>3
  <2>7. Len(Visible(t)) = first - 1
    BY <2>3, <2>6
  <2> QED
    BY <2>3, <2>6, <2>7
<1> QED
  BY <1>1, <1>2

(* The text that vmd_8250uart_putc appends to: the newline is taken off    *)
(* again, and nothing else.                                                *)
LEMMA LineOfAppend ==
    ASSUME NEW t \in Seq(Byte), NEW b \in Byte
    PROVE  /\ Append(t, b)[Len(Append(t, b))] = b /\ Len(Append(t, b)) = Len(t) + 1
           /\ Append(t, b) \in Seq(Byte) /\ Append(t, b) = t \o <<b>>
           /\ b = NL => Line(Append(t, b)) = t
           /\ b # NL => Line(Append(t, b)) = t \o <<b>>
<1>1. /\ Append(t, b)[Len(Append(t, b))] = b /\ Len(Append(t, b)) = Len(t) + 1
      /\ Append(t, b) \in Seq(Byte) /\ \A i \in 1 .. Len(t) : Append(t, b)[i] = t[i]
  OBVIOUS
<1>2. Append(t, b) = t \o <<b>>
  BY AppendIsConcat
<1>3. SubSeq(Append(t, b), 1, Len(t)) = t
  <2> DEFINE a == Append(t, b)
             s == SubSeq(a, 1, Len(t))
  <2>1. /\ \A i \in 1 .. Len(t) : a[i] \in Byte /\ a[i] = t[i]
        /\ Len(t) \in Nat
    BY <1>1
  <2> HIDE DEF a
  <2>2. s \in Seq(Byte) /\ Len(s) = Len(t) /\ \A i \in 1 .. Len(t) : s[i] = a[i]
    <3>1. /\ s \in Seq(Byte) /\ Len(s) = IF 1 <= Len(t) THEN Len(t) - 1 + 1 ELSE 0
          /\ \A i \in 1 .. Len(t) - 1 + 1 : s[i] = a[1 + i - 1]
      BY <2>1, SubSeqProperties
    <3> HIDE DEF s
    <3> QED
      BY <2>1, <3>1
  <2> HIDE DEF s
  <2>3. s = t
    BY <2>1, <2>2, SeqEqual
  <2> QED
    BY <2>3 DEF s, a
<1>4. Len(Append(t, b)) - 1 = Len(t)
  BY <1>1
<1> QED
  BY <1>1, <1>2, <1>3, <1>4, Zenon DEF Line

NoneIs(s, byte) == \A i \in DOMAIN s : s[i] # byte

(* From u to r a byte is added to the buffer, or the line that it          *)
(* completes is printed.                                                   *)
Writes(u, b, r) ==
    \/ b # NL /\ r.output_buffer = u.output_buffer \o <<b>> /\ r.printed = u.printed
    \/ /\ r.output_buffer = <<>>
       /\ \E line \in {u.output_buffer, u.output_buffer \o <<b>>} :
             /\ line = u.output_buffer <=> b = NL
             /\ r.printed = (u.printed \o Visible(line)) \o <<NL>>

(* vmd_8250uart_putc never finds the buffer full, and touches nothing but  *)
(* the buffer and the output.                                              *)
LEMMA PutcEffect ==
    ASSUME NEW u \in UartType, NEW b \in Byte, Len(u.output_buffer) <= Capacity - 2
    PROVE  /\ Putc(u, b) \in UartType
           /\ Len(Putc(u, b).output_buffer) <= Capacity - 2
           /\ Putc(u, b).baud_rate_divisor = u.baud_rate_divisor
           /\ Putc(u, b).int_enable_reg = u.int_enable_reg
           /\ Putc(u, b).line_control_reg = u.line_control_reg
           /\ Writes(u, b, Putc(u, b))
<1> DEFINE buffer == u.output_buffer
           text == Append(buffer, b)
<1>1. /\ buffer \in Seq(Byte) /\ u.printed \in Seq(Byte) /\ Len(buffer) \in Nat
      /\ Capacity \in Nat \ {0, 1} /\ NL \in Byte
  BY CapacityAssumption DEF UartType, NL, Byte
<1>2. Putc(u, b) = IF Flushes(text)
         THEN [u EXCEPT !.output_buffer = <<>>, !.printed = @ \o Visible(Line(text)) \o <<NL>>]
         ELSE [u EXCEPT !.output_buffer = text]
  <2>1. ~(Len(u.output_buffer) >= Capacity - 1)
    BY <1>1
  <2> QED
    BY <2>1 DEF Putc
<1>3. /\ text[Len(text)] = b /\ Len(text) = Len(buffer) + 1 /\ text \in Seq(Byte) /\ text = buffer \o <<b>>
      /\ b = NL => Line(text) = buffer
      /\ b # NL => Line(text) = buffer \o <<b>>
  BY <1>1, LineOfAppend
<1> HIDE DEF text
<1>4. CASE ~Flushes(text)
  <2>1. Len(text) <= Capacity - 2 /\ b # NL
    BY <1>1, <1>3, <1>4 DEF Flushes
  <2>2. Putc(u, b) = [u EXCEPT !.output_buffer = text]
    BY <1>2, <1>4
  <2>3. /\ Putc(u, b) \in UartType /\ Putc(u, b).output_buffer = text /\ Putc(u, b).printed = u.printed
        /\ Putc(u, b).baud_rate_divisor = u.baud_rate_divisor
        /\ Putc(u, b).int_enable_reg = u.int_enable_reg
        /\ Putc(u, b).line_control_reg = u.line_control_reg
    BY <1>3, <2>2 DEF UartType
  <2> QED
    BY <1>3, <2>1, <2>3, Zenon DEF Writes
<1>5. CASE Flushes(text)
  <2> DEFINE line == Line(text)
             new == (u.printed \o Visible(line)) \o <<NL>>
  <2>1. line \in Seq(Byte) /\ line \in {buffer, buffer \o <<b>>}
    BY <1>1, <1>3
  <2>2. Visible(line) \in Seq(Byte)
    BY <2>1, VisibleType
  <2>3. new \in Seq(Byte) /\ <<>> \in Seq(Byte)
    BY <1>1, <2>2
  <2>4. Putc(u, b) = [u EXCEPT !.output_buffer = <<>>, !.printed = new]
    BY <1>2, <1>5
  <2> HIDE DEF new
  <2>5. /\ Putc(u, b) \in UartType /\ Putc(u, b).output_buffer = <<>> /\ Putc(u, b).printed = new
        /\ Putc(u, b).baud_rate_divisor = u.baud_rate_divisor
        /\ Putc(u, b).int_enable_reg = u.int_enable_reg
        /\ Putc(u, b).line_control_reg = u.line_control_reg
    BY <2>3, <2>4 DEF UartType
  <2>6. line = buffer <=> b = NL
    <3>1. Len(buffer \o <<b>>) # Len(buffer)
      BY <1>1, <1>3
    <3> QED
      BY <1>3, <3>1
  <2>7. Len(<<>>) <= Capacity - 2
    BY <1>1
  <2> QED
    BY <2>1, <2>5, <2>6, <2>7 DEF new, Writes
<1> QED
  BY <1>4, <1>5

-----------------------------------------------------------------------------
(* The two bytes of the divisor.                                           *)
LEMMA DivisorBytes ==
    ASSUME NEW w \in SUBSET (0 .. 15), NEW b \in Byte
    PROVE  /\ LowByte(w) \in Byte /\ HighByte(w) \in Byte
           /\ (w \cap (8 .. 15)) \cup b \in SUBSET (0 .. 15)
           /\ LowByte(w) \cup Shifted(b) \in SUBSET (0 .. 15)
           /\ LowByte((w \cap (8 .. 15)) \cup b) = b
           /\ HighByte((w \cap (8 .. 15)) \cup b) = HighByte(w)
           /\ LowByte(LowByte(w) \cup Shifted(b)) = LowByte(w)
           /\ HighByte(LowByte(w) \cup Shifted(b)) = b
<1> USE DEF Byte
<1>1. LowByte(w) \in Byte /\ HighByte(w) \in Byte
  BY DEF LowByte, HighByte
<1>2. (w \cap (8 .. 15)) \cup b \in SUBSET (0 .. 15) /\ LowByte(w) \cup Shifted(b) \in SUBSET (0 .. 15)
  BY DEF LowByte, Shifted
<1>3. LowByte((w \cap (8 .. 15)) \cup b) = b
  <2>1. (8 .. 15) \cap (0 .. 7) = {} /\ b \subseteq 0 .. 7
    OBVIOUS
  <2> QED
    BY <2>1, Zenon DEF LowByte
<1>4. HighByte((w \cap (8 .. 15)) \cup b) = HighByte(w)
  <2>1. ((w \cap (8 .. 15)) \cup b) \cap (8 .. 15) = w \cap (8 .. 15)
    OBVIOUS
  <2> QED
    BY <2>1 DEF HighByte
<1>5. LowByte(LowByte(w) \cup Shifted(b)) = LowByte(w)
  BY DEF LowByte, Shifted
<1>6. HighByte(LowByte(w) \cup Shifted(b)) = b
  <2>1. (LowByte(w) \cup Shifted(b)) \cap (8 .. 15) = Shifted(b)
    BY DEF LowByte, Shifted
  <2>2. {x - 8 : x \in Shifted(b)} = b
    <3>1. ASSUME NEW y \in b PROVE y \in {x - 8 : x \in Shifted(b)}
      <4>1. y + 8 \in Shifted(b) /\ y = (y + 8) - 8
        BY <3>1 DEF Shifted
      <4> QED
        BY <4>1
    <3>2. ASSUME NEW x \in Shifted(b) PROVE x - 8 \in b
      BY <3>2 DEF Shifted
    <3> QED
      BY <3>1, <3>2
  <2> QED
    BY <2>1, <2>2 DEF HighByte
<1> QED
  BY <1>1, <1>2, <1>3, <1>4, <1>5, <1>6

(* A write leaves a UART well formed; one that does not transmit leaves    *)
(* its text alone.                                                         *)
LEMMA OutbEffect ==
    ASSUME NEW u \in UartType, NEW b \in Byte, NEW o \in Offset, Len(u.output_buffer) <= Capacity - 2
    PROVE  /\ Outb(u, o, b) \in UartType
           /\ Len(Outb(u, o, b).output_buffer) <= Capacity - 2
           /\ o = DATA /\ ~Dlab(u) => Outb(u, o, b) = Putc(u, b)
           /\ ~(o = DATA /\ ~Dlab(u)) => Outb(u, o, b).output_buffer = u.output_buffer
                                         /\ Outb(u, o, b).printed = u.printed
           /\ LowByte(Outb(u, o, b).baud_rate_divisor) =
                 IF o = DATA /\ Dlab(u) THEN b ELSE LowByte(u.baud_rate_divisor)
           /\ HighByte(Outb(u, o, b).baud_rate_divisor) =
                 IF o = INT_ENABLE /\ Dlab(u) THEN b ELSE HighByte(u.baud_rate_divisor)
           /\ Outb(u, o, b).int_enable_reg =
                 IF o = INT_ENABLE /\ ~Dlab(u) THEN b \cap (0 .. 3) ELSE u.int_enable_reg
<1> DEFINE w == u.baud_rate_divisor
           r == Outb(u, o, b)
<1>1. w \in SUBSET (0 .. 15)
  BY DEF UartType
<1>2. DATA # INT_ENABLE
  BY DEF DATA, INT_ENABLE
<1>3. CASE o = DATA /\ Dlab(u)
  <2>1. r = [u EXCEPT !.baud_rate_divisor = (w \cap (8 .. 15)) \cup b]
    BY <1>3 DEF Outb, Dlab, DATA, INT_ENABLE, FIFO_CONTROL, LINE_CONTROL, MODEM_CONTROL
  <2>2. /\ (w \cap (8 .. 15)) \cup b \in SUBSET (0 .. 15)
        /\ LowByte((w \cap (8 .. 15)) \cup b) = b /\ HighByte((w \cap (8 .. 15)) \cup b) = HighByte(w)
    BY <1>1, DivisorBytes
  <2> HIDE DEF r
  <2>3. /\ r \in UartType /\ r.baud_rate_divisor = (w \cap (8 .. 15)) \cup b
        /\ r.output_buffer = u.output_buffer /\ r.printed = u.printed
        /\ r.int_enable_reg = u.int_enable_reg
    BY <2>1, <2>2 DEF UartType
  <2>4. LowByte(r.baud_rate_divisor) = b /\ HighByte(r.baud_rate_divisor) = HighByte(w)
    BY <2>2, <2>3
  <2> QED
    BY <1>2, <1>3, <2>3, <2>4, Zenon DEF r
<1>4. CASE o = DATA /\ ~Dlab(u)
  <2>1. r = Putc(u, b)
    BY <1>4 DEF Outb, Dlab, DATA, INT_ENABLE, FIFO_CONTROL, LINE_CONTROL, MODEM_CONTROL
  <2>2. /\ r \in UartType /\ Len(r.output_buffer) <= Capacity - 2
        /\ r.baud_rate_divisor = w /\ r.int_enable_reg = u.int_enable_reg
    BY <2>1, PutcEffect
  <2> QED
    BY <1>2, <1>4, <2>1, <2>2, Zenon
<1>5. CASE o = INT_ENABLE /\ Dlab(u)
  <2>1. r = [u EXCEPT !.baud_rate_divisor = LowByte(w) \cup Shifted(b)]
    BY <1>5 DEF Outb, Dlab, DATA, INT_ENABLE, FIFO_CONTROL, LINE_CONTROL, MODEM_CONTROL
  <2>2. /\ LowByte(w) \cup Shifted(b) \in SUBSET (0 .. 15)
        /\ LowByte(LowByte(w) \cup Shifted(b)) = LowByte(w) /\ HighByte(LowByte(w) \cup Shifted(b)) = b
    BY <1>1, DivisorBytes
  <2> HIDE DEF r
  <2>3. /\ r \in UartType /\ r.baud_rate_divisor = LowByte(w) \cup Shifted(b)
        /\ r.output_buffer = u.output_buffer /\ r.printed = u.printed
        /\ r.int_enable_reg = u.int_enable_reg
    BY <2>1, <2>2 DEF UartType
  <2>4. LowByte(r.baud_rate_divisor) = LowByte(w) /\ HighByte(r.baud_rate_divisor) = b
    BY <2>2, <2>3
  <2> QED
    BY <1>2, <1>5, <2>3, <2>4, Zenon DEF r
<1>6. CASE o = INT_ENABLE /\ ~Dlab(u)
  <2>1. r = [u EXCEPT !.int_enable_reg = b \cap (0 .. 3)]
    BY <1>6 DEF Outb, Dlab, DATA, INT_ENABLE, FIFO_CONTROL, LINE_CONTROL, MODEM_CONTROL
  <2>2. b \cap (0 .. 3) \in Byte
    BY DEF Byte
  <2> HIDE DEF r
  <2>3. /\ r \in UartType /\ r.baud_rate_divisor = w
        /\ r.output_buffer = u.output_buffer /\ r.printed = u.printed
        /\ r.int_enable_reg = b \cap (0 .. 3)
    BY <2>1, <2>2 DEF UartType
  <2> QED
    BY <1>2, <1>6, <2>3, Zenon DEF r
<1>7. CASE o # DATA /\ o # INT_ENABLE
  <2>1. \/ r = [u EXCEPT !.fifo_control_reg = b \cap {0, 1, 2, 3, 6, 7}]
        \/ r = [u EXCEPT !.line_control_reg = b]
        \/ r = [u EXCEPT !.modem_control_reg = b \cap {0, 1, 3, 4}]
        \/ r = u
    BY <1>7 DEF Outb, Dlab, DATA, INT_ENABLE, FIFO_CONTROL, LINE_CONTROL, MODEM_CONTROL
  <2>2. b \cap {0, 1, 2, 3, 6, 7} \in Byte /\ b \cap {0, 1, 3, 4} \in Byte
    BY DEF Byte
  <2> HIDE DEF r
  <2>3. /\ r \in UartType /\ r.baud_rate_divisor = w
        /\ r.output_buffer = u.output_buffer /\ r.printed = u.printed
        /\ r.int_enable_reg = u.int_enable_reg
    BY <2>1, <2>2 DEF UartType
  <2> QED
    BY <1>7, <2>3, Zenon DEF r
<1> QED
  BY <1>3, <1>4, <1>5, <1>6, <1>7

LEMMA InbType ==
    ASSUME NEW u \in UartType, NEW o \in Offset
    PROVE  Inb(u, o) \in Byte
<1>1. LowByte(u.baud_rate_divisor) \in Byte /\ HighByte(u.baud_rate_divisor) \in Byte
  BY DivisorBytes DEF UartType
<1>2. {5, 6} \in Byte /\ {} \in Byte
  BY DEF Byte
<1> QED
  BY <1>1, <1>2 DEF Inb, UartType

-----------------------------------------------------------------------------
LEMMA InitBus == Init => BusInv
<1> SUFFICES ASSUME Init PROVE BusInv
  OBVIOUS
<1>1. NewUart \in UartType /\ NewUart.output_buffer = <<>> /\ NewUart.baud_rate_divisor = {}
      /\ NewUart.int_enable_reg = {}
  BY DEF NewUart, UartType, Byte
<1>2. {} \in Byte
  BY DEF Byte
<1>3. Typed
  BY <1>1, <1>2 DEF Init, Typed
<1>4. Room
  BY <1>1, CapacityAssumption DEF Init, Room
<1>5. Registers
  BY <1>1 DEF Init, Registers, LowByte, HighByte, Bank
<1> QED
  BY <1>3, <1>4, <1>5 DEF BusInv

(* A write by OUT, the only step that changes a UART.                      *)
LEMMA CallOutKeeps ==
    ASSUME BusInv, CallOut, UNCHANGED driver
    PROVE  BusInv'
<1> DEFINE d == iter
           o == access.port - Base[iter]
           b == access.byte
<1>1. d \in Device /\ o \in Offset /\ b \in Byte
  BY AccessShape, OffsetOfPort DEF BusInv, CallOut, Handles
<1>2. /\ uart \in [Device -> UartType] /\ latched \in [Device -> [Bank -> Byte]]
      /\ sent \in [Device -> Seq(Byte)] /\ Len(uart[d].output_buffer) <= Capacity - 2
  BY <1>1 DEF BusInv, Typed, Room
<1>3. uart' = [uart EXCEPT ![d] = Outb(uart[d], o, b)] /\ Record(d, o)
  BY <1>2 DEF CallOut
<1>4. iter' = "idle" /\ access' = NoAccess /\ UNCHANGED <<head, next, registered, answer>>
  BY DEF CallOut
<1> HIDE DEF d, o, b
<1>5. Outb(uart[d], o, b) \in UartType /\ Len(Outb(uart[d], o, b).output_buffer) <= Capacity - 2
  BY <1>1, <1>2, OutbEffect
<1>6. latched' \in [Device -> [Bank -> Byte]] /\ sent' \in [Device -> Seq(Byte)]
  BY <1>1, <1>2, <1>3 DEF Record, b
<1>7. Typed'
  BY <1>1, <1>2, <1>3, <1>4, <1>5, <1>6 DEF BusInv, Typed
<1>8. Room'
  BY <1>1, <1>2, <1>3, <1>5 DEF BusInv, Room
<1>9. Registers'
  <2>1. SUFFICES ASSUME NEW e \in Device
                 PROVE  /\ LowByte(uart'[e].baud_rate_divisor) = latched'[e][<<DATA, TRUE>>]
                        /\ HighByte(uart'[e].baud_rate_divisor) = latched'[e][<<INT_ENABLE, TRUE>>]
                        /\ uart'[e].int_enable_reg = latched'[e][<<INT_ENABLE, FALSE>>] \cap (0 .. 3)
    BY DEF Registers
  <2>2. /\ LowByte(uart[e].baud_rate_divisor) = latched[e][<<DATA, TRUE>>]
        /\ HighByte(uart[e].baud_rate_divisor) = latched[e][<<INT_ENABLE, TRUE>>]
        /\ uart[e].int_enable_reg = latched[e][<<INT_ENABLE, FALSE>>] \cap (0 .. 3)
    BY DEF BusInv, Registers
  <2>3. CASE e # d
    BY <1>1, <1>2, <1>3, <2>2, <2>3 DEF Record
  <2>4. CASE e = d
    <3> DEFINE dlab == Dlab(uart[d])
    <3>1. dlab \in BOOLEAN
      BY DEF Dlab
    <3>2. uart'[e] = Outb(uart[d], o, b)
      BY <1>1, <1>2, <1>3, <2>4
    <3> HIDE DEF dlab
    <3>3. \A r \in Bank : latched'[e][r] = IF r = <<o, dlab>> THEN b ELSE latched[e][r]
      BY <1>1, <1>2, <1>3, <2>4 DEF Record, dlab, b
    <3>4. /\ LowByte(uart'[e].baud_rate_divisor) =
               IF o = DATA /\ dlab THEN b ELSE LowByte(uart[e].baud_rate_divisor)
          /\ HighByte(uart'[e].baud_rate_divisor) =
               IF o = INT_ENABLE /\ dlab THEN b ELSE HighByte(uart[e].baud_rate_divisor)
          /\ uart'[e].int_enable_reg =
               IF o = INT_ENABLE /\ ~dlab THEN b \cap (0 .. 3) ELSE uart[e].int_enable_reg
      <4>1. uart[d] \in UartType /\ Len(uart[d].output_buffer) <= Capacity - 2
        BY <1>1, <1>2
      <4>2. /\ LowByte(Outb(uart[d], o, b).baud_rate_divisor) =
                  IF o = DATA /\ dlab THEN b ELSE LowByte(uart[d].baud_rate_divisor)
            /\ HighByte(Outb(uart[d], o, b).baud_rate_divisor) =
                  IF o = INT_ENABLE /\ dlab THEN b ELSE HighByte(uart[d].baud_rate_divisor)
            /\ Outb(uart[d], o, b).int_enable_reg =
                  IF o = INT_ENABLE /\ ~dlab THEN b \cap (0 .. 3) ELSE uart[d].int_enable_reg
        BY <1>1, <4>1, OutbEffect, Zenon DEF dlab
      <4> QED
        BY <2>4, <3>2, <4>2, Zenon
    <3>5. /\ latched'[e][<<DATA, TRUE>>] = IF o = DATA /\ dlab THEN b ELSE latched[e][<<DATA, TRUE>>]
          /\ latched'[e][<<INT_ENABLE, TRUE>>] =
               IF o = INT_ENABLE /\ dlab THEN b ELSE latched[e][<<INT_ENABLE, TRUE>>]
          /\ latched'[e][<<INT_ENABLE, FALSE>>] =
               IF o = INT_ENABLE /\ ~dlab THEN b ELSE latched[e][<<INT_ENABLE, FALSE>>]
      BY <3>1, <3>3 DEF Bank
    <3> QED
      BY <2>2, <3>4, <3>5
  <2> QED
    BY <2>3, <2>4
<1> QED
  BY <1>7, <1>8, <1>9 DEF BusInv

LEMMA NextBus == BusInv /\ [Next]_bus => BusInv'
<1> SUFFICES ASSUME BusInv, [Next]_bus PROVE BusInv'
  OBVIOUS
<1>4. driver.devices \subseteq Device
  BY BusConstants DEF BusInv, Typed
<1>1. CASE UNCHANGED bus
  <2>1. Access' = Access
    BY <1>1 DEF bus, Access, GuestPorts
  <2> QED
    BY <1>1, <2>1 DEF bus, BusInv, Typed, Room, Registers
<1>2. CASE CallOut /\ UNCHANGED driver
  BY <1>2, CallOutKeeps
<1>3. CASE Next /\ ~CallOut
  <2>1. UNCHANGED <<driver, uart, sent, latched>>
    BY <1>3 DEF Next, Register, RegisterAgain, Start, Lookup, LookNext, CallIn, Ignored
  <2>2. head' \in Device \cup {NULL} /\ next' \in [Device -> Device \cup {NULL}] /\ registered' \subseteq Device
    <3>1. head \in Device \cup {NULL} /\ next \in [Device -> Device \cup {NULL}] /\ registered \subseteq Device
      BY DEF BusInv, Typed
    <3>2. ASSUME NEW d \in driver.devices, Register(d)
          PROVE  head' \in Device \cup {NULL} /\ next' \in [Device -> Device \cup {NULL}] /\ registered' \subseteq Device
      BY <1>4, <3>1, <3>2 DEF Register
    <3>3. CASE UNCHANGED <<head, next, registered>>
      BY <3>1, <3>3
    <3> QED
      BY <1>3, <3>2, <3>3 DEF Next, RegisterAgain, Start, Lookup, LookNext, CallIn, Ignored
  <2>3. access' \in Access \cup {NoAccess} /\ iter' \in Device \cup {NULL, "idle"}
    BY <1>3 DEF BusInv, Typed, Next, Register, RegisterAgain, Start, Lookup, LookNext, CallIn, Ignored
  <2>4. answer' \in Byte
    <3>1. CASE CallIn
      BY <3>1, OffsetOfPort, InbType DEF CallIn, Handles, BusInv, Typed
    <3>2. CASE Ignored
      BY <3>2 DEF Ignored, BusInv, Typed, Byte
    <3> QED
      BY <1>3, <3>1, <3>2 DEF BusInv, Typed, Next, Register, RegisterAgain, Start, Lookup, LookNext
  <2>5. Access' = Access
    BY <2>1 DEF Access, GuestPorts
  <2> QED
    BY <2>1, <2>2, <2>3, <2>4, <2>5 DEF BusInv, Typed, Room, Registers
<1> QED
  BY <1>1, <1>2, <1>3 DEF Next

LEMMA AlwaysBusInv == Spec => []BusInv
BY InitBus, NextBus, PTL DEF Spec

(* The output buffer never overflows: every write leaves room for one more *)
(* byte and for the NUL, and registers stay bytes.                         *)
THEOREM BusTypeCorrect == Spec => []TypeOK
<1>1. BusInv => TypeOK
  <2> SUFFICES ASSUME BusInv PROVE TypeOK
    OBVIOUS
  <2>1. \A d \in Device : uart[d] \in UartType
    BY DEF BusInv, Typed
  <2> QED
    BY <2>1 DEF BusInv, Typed, Room, TypeOK, UartType
<1> QED
  BY <1>1, AlwaysBusInv, PTL

(* Switching DLAB never mixes up the divisor and the interrupt register.   *)
THEOREM BanksAlwaysSeparate == Spec => []BanksSeparate
<1>1. BusInv => BanksSeparate
  <2>1. SUFFICES ASSUME BusInv, NEW d \in Device
                 PROVE  IF Dlab(uart[d])
                        THEN \A o \in {DATA, INT_ENABLE} : Inb(uart[d], o) = latched[d][<<o, TRUE>>]
                        ELSE Inb(uart[d], INT_ENABLE) = latched[d][<<INT_ENABLE, FALSE>>] \cap (0 .. 3)
    BY DEF BanksSeparate
  <2>3. CASE Dlab(uart[d])
    <3>1. /\ Inb(uart[d], DATA) = LowByte(uart[d].baud_rate_divisor)
          /\ Inb(uart[d], INT_ENABLE) = HighByte(uart[d].baud_rate_divisor)
      BY <2>3 DEF Inb, Dlab, DATA, INT_ENABLE, FIFO_CONTROL, LINE_CONTROL, MODEM_CONTROL, LINE_STATUS
    <3>2. \A o \in {DATA, INT_ENABLE} : Inb(uart[d], o) = latched[d][<<o, TRUE>>]
      BY <2>1, <3>1 DEF BusInv, Registers
    <3> QED
      BY <2>3, <3>2, Zenon
  <2>4. CASE ~Dlab(uart[d])
    <3>1. Inb(uart[d], INT_ENABLE) = uart[d].int_enable_reg
      BY <2>4 DEF Inb, Dlab, DATA, INT_ENABLE, FIFO_CONTROL, LINE_CONTROL, MODEM_CONTROL, LINE_STATUS
    <3>2. Inb(uart[d], INT_ENABLE) = latched[d][<<INT_ENABLE, FALSE>>] \cap (0 .. 3)
      BY <2>1, <3>1 DEF BusInv, Registers
    <3> QED
      BY <2>4, <3>2, Zenon
  <2> QED
    BY <2>3, <2>4
<1> QED
  BY <1>1, AlwaysBusInv, PTL

-----------------------------------------------------------------------------
(* The list of devices: age is the order in which they were registered.    *)
(* The list goes from the youngest to the oldest, one at a time, and a     *)
(* walk has passed only devices that do not handle the access.             *)
Walk(age) ==
    /\ \A d, e \in registered : age[d] = age[e] => d = e
    /\ head = NULL => registered = {}
    /\ head # NULL => head \in registered /\ \A d \in registered : age[d] <= age[head]
    /\ \A d \in registered :
          IF next[d] = NULL THEN age[d] = 1
          ELSE next[d] \in registered /\ age[next[d]] = age[d] - 1
    /\ \A d \in Device \ registered : next[d] = NULL
    /\ iter \in Device =>
          iter \in registered /\ \A d \in registered : age[d] > age[iter] => ~Handles(d)
    /\ iter = NULL => \A d \in registered : ~Handles(d)

ListInv == \E age \in [registered -> Nat \ {0}] : Walk(age)

LEMMA InitList == Init => ListInv
<1> SUFFICES ASSUME Init PROVE ListInv
  OBVIOUS
<1>1. iter \notin Device /\ iter # NULL
  BY BusConstants DEF Init
<1>2. [d \in {} |-> 1] \in [registered -> Nat \ {0}] /\ Walk([d \in {} |-> 1])
  BY <1>1 DEF Init, Walk
<1> QED
  BY <1>2 DEF ListInv

LEMMA NextList == BusInv /\ ListInv /\ [Next]_bus => ListInv'
<1> SUFFICES ASSUME BusInv, ListInv, [Next]_bus PROVE ListInv'
  OBVIOUS
<1>1. PICK age \in [registered -> Nat \ {0}] : Walk(age)
  BY DEF ListInv
<1>2. /\ next \in [Device -> Device \cup {NULL}] /\ registered \subseteq Device
      /\ head \in Device \cup {NULL} /\ NULL \notin Device /\ "idle" \notin Device \cup {NULL}
  BY BusConstants DEF BusInv, Typed
<1>3. CASE UNCHANGED bus
  <2>1. age \in [registered' -> Nat \ {0}] /\ Walk(age)'
    BY <1>1, <1>3 DEF bus, Walk, Handles
  <2> QED
    BY <2>1 DEF ListInv
<1>4. ASSUME NEW d \in driver.devices \ registered, Register(d)
      PROVE  ListInv'
  <2> DEFINE a == IF head = NULL THEN 1 ELSE age[head] + 1
  <2>1. d \in Device /\ d \notin registered /\ registered' = registered \cup {d}
    BY <1>4, BusConstants DEF Register, BusInv, Typed
  <2>2. a \in Nat \ {0} /\ \A e \in registered : age[e] < a
    BY <1>1 DEF Walk
  <2> HIDE DEF a
  <2>3. [e \in registered \cup {d} |-> IF e = d THEN a ELSE age[e]] \in [registered' -> Nat \ {0}]
    BY <1>1, <2>1, <2>2
  <2>4. PICK new \in [registered' -> Nat \ {0}] : new[d] = a /\ \A e \in registered : new[e] = age[e]
    BY <2>1, <2>3
  <2>5. iter' = "idle" /\ head' = d /\ next' = [next EXCEPT ![d] = head]
    BY <1>4 DEF Register
  <2>6. \A x, y \in registered' : new[x] = new[y] => x = y
    BY <1>1, <2>1, <2>2, <2>4 DEF Walk
  <2>7. \A x \in registered' : new[x] <= new[d]
    BY <1>1, <2>1, <2>2, <2>4
  <2>8. ASSUME NEW x \in registered'
        PROVE  IF next'[x] = NULL THEN new[x] = 1
               ELSE next'[x] \in registered' /\ new[next'[x]] = new[x] - 1
    <3>1. CASE x = d
      BY <1>1, <1>2, <2>1, <2>2, <2>4, <2>5, <3>1 DEF Walk, a
    <3>2. CASE x # d
      <4>1. x \in registered /\ next'[x] = next[x]
        BY <1>2, <2>1, <2>5, <3>2
      <4> QED
        BY <1>1, <2>1, <2>4, <4>1 DEF Walk
    <3> QED
      BY <3>1, <3>2
  <2>9. \A x \in Device \ registered' : next'[x] = NULL
    BY <1>1, <1>2, <2>1, <2>5 DEF Walk
  <2>10. Walk(new)'
    BY <1>2, <2>1, <2>5, <2>6, <2>7, <2>8, <2>9 DEF Walk
  <2> QED
    BY <2>10 DEF ListInv
<1>5. ASSUME NEW d \in Device, RegisterAgain(d)
      PROVE  ListInv'
  <2>1. age \in [registered' -> Nat \ {0}] /\ Walk(age)'
    BY <1>1, <1>5 DEF RegisterAgain, Walk, Handles
  <2> QED
    BY <2>1 DEF ListInv
<1>6. ASSUME NEW x \in Access, Start(x)
      PROVE  ListInv'
  <2>1. UNCHANGED <<head, next, registered>> /\ iter' = head
    BY <1>6 DEF Start
  <2>2. \A d \in registered' : ~(age[d] > age[head]) \/ head = NULL
    BY <1>1, <2>1 DEF Walk
  <2>3. Walk(age)'
    BY <1>1, <1>2, <2>1, <2>2 DEF Walk
  <2> QED
    BY <1>1, <2>1, <2>3 DEF ListInv
<1>7. CASE LookNext
  <2>1. UNCHANGED <<head, next, registered, access>> /\ iter' = next[iter] /\ iter \in Device /\ ~Handles(iter)
    BY <1>7 DEF LookNext
  <2>2. \A d \in registered : Handles(d)' <=> Handles(d)
    BY <2>1 DEF Handles
  <2>3. iter \in registered /\ \A d \in registered : age[d] >= age[iter] => ~Handles(d)
    BY <1>1, <2>1 DEF Walk
  <2>4. CASE next[iter] = NULL
    <3>1. \A d \in registered : age[d] >= age[iter]
      BY <1>1, <2>3, <2>4 DEF Walk
    <3>2. Walk(age)'
      BY <1>1, <1>2, <2>1, <2>2, <2>3, <2>4, <3>1 DEF Walk
    <3> QED
      BY <1>1, <2>1, <3>2 DEF ListInv
  <2>5. CASE next[iter] # NULL
    <3>1. next[iter] \in registered /\ age[next[iter]] = age[iter] - 1
      BY <1>1, <2>3, <2>5 DEF Walk
    <3>2. \A d \in registered : age[d] > age[next[iter]] => ~Handles(d)
      BY <1>1, <2>3, <3>1
    <3>3. Walk(age)'
      BY <1>1, <1>2, <2>1, <2>2, <2>5, <3>1, <3>2 DEF Walk
    <3> QED
      BY <1>1, <2>1, <3>3 DEF ListInv
  <2> QED
    BY <2>4, <2>5
<1>8. CASE CallOut \/ CallIn \/ Ignored
  <2>1. UNCHANGED <<head, next, registered>> /\ iter' = "idle"
    BY <1>8 DEF CallOut, CallIn, Ignored
  <2>2. Walk(age)'
    BY <1>1, <1>2, <2>1 DEF Walk
  <2> QED
    BY <1>1, <2>1, <2>2 DEF ListInv
<1> QED
  BY <1>3, <1>4, <1>5, <1>6, <1>7, <1>8 DEF Next, Lookup

(* The walk over the list of devices misses none of those registered.      *)
THEOREM AlwaysRightDevice == Spec => []RightDevice
<1>1. BusInv /\ ListInv => RightDevice
  BY DEF ListInv, Walk, RightDevice, Handles
<1>2. Spec => []ListInv
  BY InitList, NextList, AlwaysBusInv, PTL DEF Spec
<1> QED
  BY <1>1, <1>2, AlwaysBusInv, PTL

-----------------------------------------------------------------------------
(* The text printed and the bytes sent.  f places the printed bytes p      *)
(* among the first n bytes of s, and what it leaves out is cut off.        *)
Places(f, p, s, n) ==
    /\ f \in [Text(p) -> Text(s)]
    /\ \A i \in Text(p) : s[f[i]] = p[i] /\ f[i] <= n
    /\ \A i, j \in Text(p) : i < j => f[i] < f[j]
    /\ \A k \in Text(s) : k <= n => (\E i \in Text(p) : f[i] = k) \/ CutOff(s, k)

(* The bytes of t after the first n are those of s.                        *)
EndsWith(s, n, t) == n + Len(t) = Len(s) /\ \A i \in 1 .. Len(t) : s[n + i] = t[i]

LEMMA TextDomain ==
    ASSUME NEW s \in Seq(Byte)
    PROVE  Text(s) = {i \in 1 .. Len(s) : s[i] # NL} /\ Len(s) \in Nat
BY DEF Text

LEMMA ConcatBytes ==
    ASSUME NEW s \in Seq(Byte), NEW t \in Seq(Byte)
    PROVE  /\ s \o t \in Seq(Byte) /\ Len(s \o t) = Len(s) + Len(t)
           /\ \A i \in 1 .. Len(s) : (s \o t)[i] = s[i]
           /\ \A i \in 1 .. Len(t) : (s \o t)[Len(s) + i] = t[i]
OBVIOUS

(* What a guest sends later changes nothing of what was printed.           *)
LEMMA PlacesKept ==
    ASSUME NEW p \in Seq(Byte), NEW s \in Seq(Byte), NEW b \in Byte, NEW n \in 0 .. Len(s),
           NEW f, Places(f, p, s, n)
    PROVE  Places(f, p, s \o <<b>>, n)
<1> DEFINE t == s \o <<b>>
<1>1. /\ t \in Seq(Byte) /\ Len(t) = Len(s) + 1 /\ Len(s) \in Nat
      /\ \A i \in 1 .. Len(s) : t[i] = s[i]
  OBVIOUS
<1> HIDE DEF t
<1>2. /\ Text(p) = {i \in 1 .. Len(p) : p[i] # NL}
      /\ Text(s) = {i \in 1 .. Len(s) : s[i] # NL} /\ Text(t) = {i \in 1 .. Len(t) : t[i] # NL}
  BY <1>1, TextDomain
<1>3. Text(s) \subseteq Text(t) /\ \A k \in Text(t) : k <= n => k \in Text(s)
  BY <1>1, <1>2
<1>4. ASSUME NEW k \in Text(s), CutOff(s, k) PROVE CutOff(t, k)
  <2>1. PICK m \in 1 .. k : s[m] = NUL /\ k - m < Capacity - 1 /\ \A l \in m .. k : s[l] # NL
    BY <1>4 DEF CutOff
  <2>2. \A l \in 1 .. k : t[l] = s[l]
    BY <1>1, <1>2
  <2>3. m .. k \subseteq 1 .. k
    BY <1>2
  <2> QED
    BY <2>1, <2>2, <2>3 DEF CutOff
<1>5. f \in [Text(p) -> Text(t)] /\ \A i \in Text(p) : t[f[i]] = s[f[i]]
  BY <1>1, <1>2, <1>3 DEF Places
<1>6. Places(f, p, t, n)
  BY <1>3, <1>4, <1>5 DEF Places
<1> QED
  BY <1>6 DEF t

(* A line of the buffer is printed up to its first NUL: the rest is cut    *)
(* off, and it is part of the same piece.                                  *)
LEMMA PlacesLine ==
    ASSUME NEW p \in Seq(Byte), NEW s \in Seq(Byte), NEW line \in Seq(Byte), NEW n \in Nat,
           NEW f, Places(f, p, s, n), n + Len(line) <= Len(s),
           \A i \in 1 .. Len(line) : s[n + i] = line[i],
           NoneIs(line, NL), Len(line) <= Capacity - 1
    PROVE  \E g : Places(g, p \o Visible(line), s, n + Len(line))
<1> DEFINE v == Visible(line)
           q == p \o v
           g == [i \in Text(q) |-> IF i <= Len(p) THEN f[i] ELSE n + (i - Len(p))]
<1>1. /\ v \in Seq(Byte) /\ Len(v) <= Len(line) /\ \A i \in 1 .. Len(v) : v[i] = line[i]
      /\ Len(v) < Len(line) => line[Len(v) + 1] = NUL
  BY VisibleType
<1> HIDE DEF v
<1>2. /\ q \in Seq(Byte) /\ Len(q) = Len(p) + Len(v)
      /\ \A i \in 1 .. Len(p) : q[i] = p[i]
      /\ \A i \in 1 .. Len(v) : q[Len(p) + i] = v[i]
  BY <1>1, ConcatBytes
<1> HIDE DEF q
<1>3. /\ Text(p) = {i \in 1 .. Len(p) : p[i] # NL} /\ Text(s) = {i \in 1 .. Len(s) : s[i] # NL}
      /\ Text(q) = {i \in 1 .. Len(q) : q[i] # NL}
      /\ Len(p) \in Nat /\ Len(v) \in Nat /\ Len(line) \in Nat /\ Len(s) \in Nat
      /\ Capacity \in Nat
  BY <1>1, <1>2, TextDomain, CapacityAssumption
<1>4. \A j \in 1 .. Len(line) : line[j] # NL /\ s[n + j] # NL /\ n + j \in Text(s)
  BY <1>3 DEF NoneIs
<1>5. Text(q) = Text(p) \cup {Len(p) + j : j \in 1 .. Len(v)}
  <2>1. ASSUME NEW i \in Text(q), i > Len(p) PROVE i \in {Len(p) + j : j \in 1 .. Len(v)}
    <3>1. i - Len(p) \in 1 .. Len(v) /\ i = Len(p) + (i - Len(p))
      BY <1>2, <1>3, <2>1
    <3> QED
      BY <3>1
  <2>2. ASSUME NEW j \in 1 .. Len(v) PROVE Len(p) + j \in Text(q)
    <3>1. q[Len(p) + j] = line[j] /\ j \in 1 .. Len(line)
      BY <1>1, <1>2, <1>3
    <3> QED
      BY <1>2, <1>3, <1>4, <3>1
  <2>3. Text(p) \subseteq Text(q) /\ \A i \in Text(q) : i \in Nat /\ (i <= Len(p) => i \in Text(p))
    BY <1>2, <1>3
  <2>4. \A i \in Text(q) : i \in Text(p) \/ i \in {Len(p) + j : j \in 1 .. Len(v)}
    <3>1. Len(p) \in Nat
      BY <1>3
    <3> QED
      BY <2>1, <2>3, <3>1
  <2> QED
    BY <2>2, <2>3, <2>4
<1>6. /\ \A i \in Text(p) : g[i] = f[i] /\ i <= Len(p) /\ i \in Nat
      /\ \A j \in 1 .. Len(v) : g[Len(p) + j] = n + j
  <2>1. \A i \in Text(p) : i \in Text(q) /\ i <= Len(p) /\ i \in Nat
    BY <1>3, <1>5
  <2>2. \A j \in 1 .. Len(v) : Len(p) + j \in Text(q) /\ ~(Len(p) + j <= Len(p)) /\ (Len(p) + j) - Len(p) = j
    BY <1>3, <1>5
  <2> QED
    BY <2>1, <2>2
<1>7. f \in [Text(p) -> Text(s)] /\ \A i \in Text(p) : f[i] \in Nat /\ f[i] <= n
  BY <1>3 DEF Places
<1>8. DOMAIN g = Text(q)
  OBVIOUS
<1>9. g \in [Text(q) -> Text(s)]
  <2>1. \A i \in Text(q) : (IF i <= Len(p) THEN f[i] ELSE n + (i - Len(p))) \in Text(s)
    <3>1. \A i \in Text(p) : i <= Len(p) /\ f[i] \in Text(s)
      BY <1>6, <1>7
    <3>2. \A j \in 1 .. Len(v) : ~(Len(p) + j <= Len(p)) /\ n + ((Len(p) + j) - Len(p)) = n + j /\ n + j \in Text(s)
      BY <1>1, <1>3, <1>4
    <3> QED
      BY <1>5, <3>1, <3>2
  <2> QED
    BY <2>1
<1> HIDE DEF g
<1>10. ASSUME NEW i \in Text(q) PROVE s[g[i]] = q[i] /\ g[i] <= n + Len(line)
  <2>1. CASE i \in Text(p)
    BY <1>2, <1>3, <1>6, <1>7, <2>1 DEF Places
  <2>2. ASSUME NEW j \in 1 .. Len(v), i = Len(p) + j PROVE s[g[i]] = q[i] /\ g[i] <= n + Len(line)
    BY <1>1, <1>2, <1>3, <1>6, <2>2
  <2> QED
    BY <1>5, <2>1, <2>2
<1>11. ASSUME NEW i \in Text(q), NEW j \in Text(q), i < j PROVE g[i] < g[j]
  <2>1. CASE i \in Text(p) /\ j \in Text(p)
    BY <1>6, <1>11, <2>1 DEF Places
  <2>2. ASSUME i \in Text(p), NEW l \in 1 .. Len(v), j = Len(p) + l PROVE g[i] < g[j]
    BY <1>3, <1>6, <1>7, <2>2
  <2>3. ASSUME NEW l \in 1 .. Len(v), i = Len(p) + l, j \in Text(p) PROVE g[i] < g[j]
    BY <1>3, <1>6, <1>11, <2>3
  <2>4. ASSUME NEW l \in 1 .. Len(v), i = Len(p) + l, NEW m \in 1 .. Len(v), j = Len(p) + m
        PROVE  g[i] < g[j]
    BY <1>3, <1>6, <1>11, <2>4
  <2> QED
    BY <1>5, <2>1, <2>2, <2>3, <2>4
<1>12. ASSUME NEW k \in Text(s), k <= n + Len(line)
       PROVE  (\E i \in Text(q) : g[i] = k) \/ CutOff(s, k)
  <2>1. CASE k <= n
    <3>1. (\E i \in Text(p) : f[i] = k) \/ CutOff(s, k)
      BY <2>1 DEF Places
    <3> QED
      BY <1>5, <1>6, <3>1
  <2>2. CASE k > n /\ k - n <= Len(v)
    <3>1. k - n \in 1 .. Len(v) /\ n + (k - n) = k
      BY <1>3, <2>2
    <3>2. Len(p) + (k - n) \in Text(q) /\ g[Len(p) + (k - n)] = k
      BY <1>5, <1>6, <3>1
    <3> QED
      BY <3>2
  <2>3. CASE k > n /\ k - n > Len(v)
    <3> DEFINE m == n + (Len(v) + 1)
    <3>1. /\ m \in 1 .. k /\ Len(v) + 1 \in 1 .. Len(line) /\ k - m < Capacity - 1
          /\ k \in Nat /\ Len(v) < Len(line)
      BY <1>3, <1>12, <2>3
    <3>2. s[m] = NUL
      BY <1>1, <3>1
    <3>3. ASSUME NEW l \in m .. k PROVE s[l] # NL
      <4>1. l - n \in 1 .. Len(line) /\ n + (l - n) = l
        BY <1>3, <1>12, <3>1, <3>3
      <4> QED
        BY <1>4, <4>1
    <3> HIDE DEF m
    <3> QED
      BY <3>1, <3>2, <3>3 DEF CutOff
  <2> QED
    BY <1>3, <2>1, <2>2, <2>3
<1>13. Places(g, q, s, n + Len(line))
  BY <1>9, <1>10, <1>11, <1>12 DEF Places
<1> QED
  BY <1>13 DEF q, v

(* A newline printed after a line is not part of the text.                 *)
LEMMA PlacesNewline ==
    ASSUME NEW p \in Seq(Byte), NEW s \in Seq(Byte), NEW n \in Nat, NEW f, Places(f, p, s, n)
    PROVE  Places(f, p \o <<NL>>, s, n)
<1> DEFINE q == p \o <<NL>>
<1>1. NL \in Byte
  BY DEF NL, Byte
<1>2. q \in Seq(Byte) /\ Len(q) = Len(p) + 1 /\ q[Len(p) + 1] = NL /\ \A i \in 1 .. Len(p) : q[i] = p[i]
  BY <1>1
<1> HIDE DEF q
<1>3. /\ Text(p) = {i \in 1 .. Len(p) : p[i] # NL} /\ Len(p) \in Nat
      /\ Text(q) = {i \in 1 .. Len(q) : q[i] # NL}
  BY <1>2, TextDomain
<1>4. Text(q) = Text(p) /\ \A i \in Text(p) : q[i] = p[i]
  BY <1>2, <1>3
<1>5. Places(f, q, s, n)
  BY <1>4 DEF Places
<1> QED
  BY <1>5 DEF q

(* The bytes of the last n that are newlines are not text either.          *)
LEMMA PlacesAfterNewline ==
    ASSUME NEW p \in Seq(Byte), NEW s \in Seq(Byte), NEW n \in Nat, NEW f, Places(f, p, s, n),
           Len(s) = n + 1, s[n + 1] = NL
    PROVE  Places(f, p, s, n + 1)
<1>1. Text(p) = {i \in 1 .. Len(p) : p[i] # NL} /\ Text(s) = {i \in 1 .. Len(s) : s[i] # NL}
  BY TextDomain
<1>2. \A k \in Text(s) : k <= n
  BY <1>1
<1>3. \A i \in Text(p) : f[i] \in Nat /\ f[i] <= n + 1
  BY <1>1, <1>2 DEF Places
<1> QED
  BY <1>2, <1>3 DEF Places

-----------------------------------------------------------------------------
(* The buffer holds the last bytes sent, and what came before is printed.  *)
Flows(u, s) ==
    \E n \in Nat :
        /\ EndsWith(s, n, u.output_buffer)
        /\ NoneIs(u.output_buffer, NL)
        /\ \E f : Places(f, u.printed, s, n)

TextInv == \A d \in Device : Flows(uart[d], sent[d])

LEMMA InitText == Init => TextInv
<1> SUFFICES ASSUME Init, NEW d \in Device
             PROVE  Flows(uart[d], sent[d])
  BY DEF TextInv
<1>1. uart[d].output_buffer = <<>> /\ uart[d].printed = <<>> /\ sent[d] = <<>>
  BY DEF Init, NewUart
<1>2. Text(<<>>) = {}
  BY DEF Text
<1>3. Places([i \in {} |-> 1], <<>>, <<>>, 0)
  BY <1>2 DEF Places
<1>4. EndsWith(<<>>, 0, <<>>) /\ NoneIs(<<>>, NL)
  BY DEF EndsWith, NoneIs
<1> QED
  BY <1>1, <1>3, <1>4 DEF Flows

(* vmd_8250uart_putc keeps the text flowing.                               *)
LEMMA PutcFlows ==
    ASSUME NEW u \in UartType, NEW s \in Seq(Byte), NEW b \in Byte,
           Len(u.output_buffer) <= Capacity - 2, Flows(u, s)
    PROVE  Flows(Putc(u, b), s \o <<b>>)
<1> DEFINE buffer == u.output_buffer
           t == s \o <<b>>
           full == buffer \o <<b>>
<1>1. PICK n \in Nat : EndsWith(s, n, buffer) /\ NoneIs(buffer, NL) /\ \E f : Places(f, u.printed, s, n)
  BY DEF Flows
<1>2. buffer \in Seq(Byte) /\ u.printed \in Seq(Byte) /\ Len(buffer) \in Nat /\ Len(s) \in Nat
      /\ Capacity \in Nat
  BY CapacityAssumption DEF UartType
<1>3. PICK f : Places(f, u.printed, s, n)
  BY <1>1
<1>4. n + Len(buffer) = Len(s) /\ n \in 0 .. Len(s) /\ \A i \in 1 .. Len(buffer) : s[n + i] = buffer[i]
  BY <1>1, <1>2 DEF EndsWith
<1>13. n + (Len(buffer) + 1) = Len(s) + 1
  <2>1. n + Len(buffer) = Len(s)
    BY <1>4
  <2> QED
    BY <1>2, <2>1
<1>5. Places(f, u.printed, t, n)
  BY <1>2, <1>3, <1>4, PlacesKept
<1>6. /\ t \in Seq(Byte) /\ Len(t) = Len(s) + 1 /\ t[Len(s) + 1] = b
      /\ \A i \in 1 .. Len(s) : t[i] = s[i]
  BY <1>2
<1>7. /\ full \in Seq(Byte) /\ Len(full) = Len(buffer) + 1 /\ full[Len(buffer) + 1] = b
      /\ \A i \in 1 .. Len(buffer) : full[i] = buffer[i]
  BY <1>2
<1> HIDE DEF t, full
<1>8. EndsWith(t, n, full)
  <2>1. ASSUME NEW i \in 1 .. Len(full) PROVE t[n + i] = full[i]
    <3>1. CASE i = Len(buffer) + 1
      <4>1. n + i = Len(s) + 1
        BY <1>13, <3>1
      <4> QED
        BY <1>6, <1>7, <3>1, <4>1
    <3>2. CASE i \in 1 .. Len(buffer)
      <4>1. n + i \in 1 .. Len(s)
        BY <1>2, <1>4, <3>2
      <4> QED
        BY <1>4, <1>6, <1>7, <3>2, <4>1
    <3> QED
      BY <1>2, <1>7, <3>1, <3>2
  <2> QED
    BY <1>2, <1>4, <1>6, <1>7, <2>1 DEF EndsWith
<1>9. b # NL => NoneIs(full, NL)
  BY <1>1, <1>2, <1>7 DEF NoneIs
<1>10. \/ b # NL /\ Putc(u, b).output_buffer = full /\ Putc(u, b).printed = u.printed
       \/ /\ Putc(u, b).output_buffer = <<>>
          /\ \E line \in {buffer, full} :
                /\ line = buffer <=> b = NL
                /\ Putc(u, b).printed = (u.printed \o Visible(line)) \o <<NL>>
  <2>1. Writes(u, b, Putc(u, b))
    BY PutcEffect
  <2> QED
    BY <2>1 DEF Writes, full
<1>11. CASE b # NL /\ Putc(u, b).output_buffer = full /\ Putc(u, b).printed = u.printed
  <2>1. Flows(Putc(u, b), t)
    BY <1>5, <1>8, <1>9, <1>11 DEF Flows
  <2> QED
    BY <2>1 DEF t
<1>12. ASSUME Putc(u, b).output_buffer = <<>>, NEW line \in {buffer, full},
              line = buffer <=> b = NL, Putc(u, b).printed = (u.printed \o Visible(line)) \o <<NL>>
       PROVE  Flows(Putc(u, b), s \o <<b>>)
  <2> DEFINE q == u.printed \o Visible(line)
  <2>1. /\ line \in Seq(Byte) /\ NoneIs(line, NL) /\ Len(line) <= Capacity - 1
        /\ n + Len(line) <= Len(t) /\ \A i \in 1 .. Len(line) : t[n + i] = line[i]
    <3>1. CASE b = NL
      <4>1. line = buffer
        BY <1>12, <3>1
      <4>2. \A i \in 1 .. Len(buffer) : n + i \in 1 .. Len(s)
        BY <1>2, <1>4
      <4>3. Len(buffer) <= Capacity - 1 /\ n + Len(buffer) <= Len(t)
        BY <1>2, <1>4, <1>6
      <4> QED
        BY <1>1, <1>2, <1>4, <1>6, <4>1, <4>2, <4>3
    <3>2. CASE b # NL
      <4>1. line = full
        BY <1>12, <3>2
      <4>2. Len(full) <= Capacity - 1 /\ n + Len(full) <= Len(t)
        BY <1>2, <1>4, <1>6, <1>7
      <4> QED
        BY <1>7, <1>8, <1>9, <3>2, <4>1, <4>2 DEF EndsWith
    <3> QED
      BY <3>1, <3>2
  <2>2. PICK g : Places(g, q, t, n + Len(line))
    BY <1>2, <1>5, <1>6, <2>1, PlacesLine
  <2>3. q \in Seq(Byte) /\ Len(line) \in Nat /\ n + Len(line) \in Nat
    BY <1>2, <2>1, VisibleType
  <2> HIDE DEF q
  <2>4. Places(g, q \o <<NL>>, t, n + Len(line)) /\ q \o <<NL>> \in Seq(Byte)
    <3>1. NL \in Byte
      BY DEF NL, Byte
    <3> QED
      BY <1>6, <2>2, <2>3, <3>1, PlacesNewline
  <2>5. Places(g, q \o <<NL>>, t, Len(t))
    <3>1. CASE b = NL
      <4>1. line = buffer /\ n + Len(line) = Len(s)
        BY <1>4, <1>12, <3>1
      <4>2. t[Len(s) + 1] = NL /\ Len(t) = Len(s) + 1
        BY <1>6, <3>1
      <4>3. Places(g, q \o <<NL>>, t, Len(s))
        BY <2>4, <4>1
      <4> QED
        BY <1>2, <1>6, <2>4, <4>2, <4>3, PlacesAfterNewline
    <3>2. CASE b # NL
      <4>1. line = full
        BY <1>12, <3>2
      <4>2. n + Len(full) = Len(t)
        BY <1>6, <1>7, <1>13
      <4> QED
        BY <2>4, <4>1, <4>2
    <3> QED
      BY <3>1, <3>2
  <2>6. EndsWith(t, Len(t), <<>>) /\ NoneIs(<<>>, NL) /\ Len(t) \in Nat
    BY <1>6 DEF EndsWith, NoneIs
  <2>7. Putc(u, b).printed = q \o <<NL>>
    BY <1>12 DEF q
  <2>8. Flows(Putc(u, b), t)
    BY <1>12, <2>5, <2>6, <2>7 DEF Flows
  <2> QED
    BY <2>8 DEF t
<1> QED
  BY <1>10, <1>11, <1>12

LEMMA NextText == BusInv /\ TextInv /\ [Next]_bus => TextInv'
<1> SUFFICES ASSUME BusInv, TextInv, [Next]_bus, NEW e \in Device
             PROVE  Flows(uart'[e], sent'[e])
  BY DEF TextInv
<1>1. Flows(uart[e], sent[e])
  BY DEF TextInv
<1>2. CASE uart'[e].output_buffer = uart[e].output_buffer /\ uart'[e].printed = uart[e].printed
           /\ sent'[e] = sent[e]
  BY <1>1, <1>2, Zenon DEF Flows
<1>3. CASE CallOut
  <2> DEFINE d == iter
             o == access.port - Base[iter]
             b == access.byte
  <2>1. d \in Device /\ o \in Offset /\ b \in Byte
    BY <1>3, AccessShape, OffsetOfPort DEF BusInv, CallOut, Handles
  <2>2. /\ uart \in [Device -> UartType] /\ sent \in [Device -> Seq(Byte)]
        /\ Len(uart[d].output_buffer) <= Capacity - 2
    BY <2>1 DEF BusInv, Typed, Room
  <2>3. uart' = [uart EXCEPT ![d] = Outb(uart[d], o, b)] /\ Record(d, o)
    BY <1>3, <2>2 DEF CallOut
  <2> HIDE DEF d, o, b
  <2>4. CASE e # d
    <3>1. uart'[e] = uart[e] /\ sent'[e] = sent[e]
      BY <2>1, <2>2, <2>3, <2>4 DEF Record
    <3> QED
      BY <1>2, <3>1
  <2>5. CASE e = d /\ ~(o = DATA /\ ~Dlab(uart[d]))
    <3>1. uart'[e] = Outb(uart[d], o, b) /\ sent'[e] = sent[e]
      BY <2>1, <2>2, <2>3, <2>5 DEF Record
    <3>2. /\ Outb(uart[d], o, b).output_buffer = uart[d].output_buffer
          /\ Outb(uart[d], o, b).printed = uart[d].printed
      BY <2>1, <2>2, <2>5, OutbEffect
    <3> QED
      BY <1>2, <2>5, <3>1, <3>2
  <2>6. CASE e = d /\ o = DATA /\ ~Dlab(uart[d])
    <3>1. uart'[e] = Putc(uart[e], b)
      <4>1. uart'[d] = Outb(uart[d], o, b) /\ uart[d] \in UartType
        BY <2>1, <2>2, <2>3
      <4>2. Outb(uart[d], o, b) = Putc(uart[d], b)
        BY <2>6 DEF Outb, Dlab, DATA, INT_ENABLE, FIFO_CONTROL, LINE_CONTROL, MODEM_CONTROL
      <4> QED
        BY <2>6, <4>1, <4>2, Zenon
    <3>2. sent'[e] = sent[e] \o <<b>>
      <4>1. sent'[e] = Append(sent[e], b)
        BY <2>1, <2>2, <2>3, <2>6 DEF Record, b
      <4>2. sent[e] \in Seq(Byte)
        BY <2>2
      <4> QED
        BY <2>1, <4>1, <4>2, AppendIsConcat
    <3>3. uart[e] \in UartType /\ Len(uart[e].output_buffer) <= Capacity - 2 /\ sent[e] \in Seq(Byte)
      BY <2>2, <2>6
    <3>4. Flows(Putc(uart[e], b), sent[e] \o <<b>>)
      BY <1>1, <2>1, <3>3, PutcFlows
    <3> QED
      BY <3>1, <3>2, <3>4
  <2> QED
    BY <2>4, <2>5, <2>6
<1>4. CASE ~CallOut
  <2>1. UNCHANGED <<uart, sent>>
    BY <1>4 DEF bus, Next, Register, RegisterAgain, Start, Lookup, LookNext, CallIn, Ignored
  <2> QED
    BY <1>2, <2>1
<1> QED
  BY <1>3, <1>4

(* The bytes in the buffer are in place after the printed ones.            *)
LEMMA FlowsCarries ==
    ASSUME NEW u \in UartType, NEW s \in Seq(Byte), Flows(u, s)
    PROVE  Carries(u.printed \o u.output_buffer, s) /\ NoneIs(u.output_buffer, NL)
<1> DEFINE p == u.printed
           c == u.output_buffer
           q == p \o c
<1>1. PICK n \in Nat : EndsWith(s, n, c) /\ NoneIs(c, NL) /\ \E f : Places(f, p, s, n)
  BY DEF Flows
<1>2. PICK f : Places(f, p, s, n)
  BY <1>1
<1>3. p \in Seq(Byte) /\ c \in Seq(Byte) /\ n + Len(c) = Len(s) /\ \A i \in 1 .. Len(c) : s[n + i] = c[i]
  BY <1>1 DEF UartType, EndsWith
<1> HIDE DEF p, c
<1>4. /\ q \in Seq(Byte) /\ Len(q) = Len(p) + Len(c)
      /\ \A i \in 1 .. Len(p) : q[i] = p[i]
      /\ \A i \in 1 .. Len(c) : q[Len(p) + i] = c[i]
  BY <1>3, ConcatBytes
<1> HIDE DEF q
<1>5. /\ Text(p) = {i \in 1 .. Len(p) : p[i] # NL} /\ Text(s) = {i \in 1 .. Len(s) : s[i] # NL}
      /\ Text(q) = {i \in 1 .. Len(q) : q[i] # NL}
      /\ Len(p) \in Nat /\ Len(c) \in Nat /\ Len(s) \in Nat
  BY <1>3, <1>4, TextDomain
<1>6. Text(q) = Text(p) \cup {Len(p) + j : j \in 1 .. Len(c)}
  <2>1. ASSUME NEW i \in Text(q), i > Len(p) PROVE i \in {Len(p) + j : j \in 1 .. Len(c)}
    <3>1. i - Len(p) \in 1 .. Len(c) /\ i = Len(p) + (i - Len(p))
      BY <1>4, <1>5, <2>1
    <3> QED
      BY <3>1
  <2>2. ASSUME NEW j \in 1 .. Len(c) PROVE Len(p) + j \in Text(q)
    BY <1>1, <1>3, <1>4, <1>5 DEF NoneIs
  <2>3. Text(p) \subseteq Text(q) /\ \A i \in Text(q) : i \in Nat /\ (i <= Len(p) => i \in Text(p))
    BY <1>4, <1>5
  <2>4. \A i \in Text(q) : i \in Text(p) \/ i \in {Len(p) + j : j \in 1 .. Len(c)}
    BY <1>4, <1>5, <2>1, <2>3
  <2> QED
    BY <2>2, <2>3, <2>4
<1> DEFINE g == [i \in Text(q) |-> IF i <= Len(p) THEN f[i] ELSE n + (i - Len(p))]
<1>7. f \in [Text(p) -> Text(s)] /\ \A i \in Text(p) : f[i] \in Nat /\ f[i] <= n
  BY <1>2, <1>5 DEF Places
<1>8. \A j \in 1 .. Len(c) : n + j \in Text(s)
  BY <1>1, <1>3, <1>5 DEF NoneIs
<1>9. /\ \A i \in Text(p) : g[i] = f[i] /\ i <= Len(p) /\ i \in Nat
      /\ \A j \in 1 .. Len(c) : g[Len(p) + j] = n + j
  <2>1. \A i \in Text(p) : i \in Text(q) /\ i <= Len(p) /\ i \in Nat
    BY <1>5, <1>6
  <2>2. \A j \in 1 .. Len(c) : Len(p) + j \in Text(q) /\ ~(Len(p) + j <= Len(p)) /\ (Len(p) + j) - Len(p) = j
    BY <1>5, <1>6
  <2> QED
    BY <2>1, <2>2
<1>10. g \in [Text(q) -> Text(s)]
  <2>1. \A i \in Text(q) : (IF i <= Len(p) THEN f[i] ELSE n + (i - Len(p))) \in Text(s)
    <3>1. \A i \in Text(p) : i <= Len(p) /\ f[i] \in Text(s)
      BY <1>7, <1>9
    <3>2. \A j \in 1 .. Len(c) : ~(Len(p) + j <= Len(p)) /\ n + ((Len(p) + j) - Len(p)) = n + j /\ n + j \in Text(s)
      BY <1>5, <1>8
    <3> QED
      BY <1>6, <3>1, <3>2
  <2> QED
    BY <2>1
<1> HIDE DEF g
<1>11. ASSUME NEW i \in Text(q) PROVE s[g[i]] = q[i]
  <2>1. CASE i \in Text(p)
    BY <1>2, <1>4, <1>5, <1>9, <2>1 DEF Places
  <2>2. ASSUME NEW j \in 1 .. Len(c), i = Len(p) + j PROVE s[g[i]] = q[i]
    BY <1>3, <1>4, <1>9, <2>2
  <2> QED
    BY <1>6, <2>1, <2>2
<1>12. ASSUME NEW i \in Text(q), NEW j \in Text(q), i < j PROVE g[i] < g[j]
  <2>1. CASE i \in Text(p) /\ j \in Text(p)
    BY <1>2, <1>9, <1>12, <2>1 DEF Places
  <2>2. ASSUME i \in Text(p), NEW l \in 1 .. Len(c), j = Len(p) + l PROVE g[i] < g[j]
    BY <1>5, <1>7, <1>9, <2>2
  <2>3. ASSUME NEW l \in 1 .. Len(c), i = Len(p) + l, j \in Text(p) PROVE g[i] < g[j]
    BY <1>5, <1>9, <1>12, <2>3
  <2>4. ASSUME NEW l \in 1 .. Len(c), i = Len(p) + l, NEW m \in 1 .. Len(c), j = Len(p) + m
        PROVE  g[i] < g[j]
    BY <1>5, <1>9, <1>12, <2>4
  <2> QED
    BY <1>6, <2>1, <2>2, <2>3, <2>4
<1>13. ASSUME NEW k \in Text(s) PROVE (\E i \in Text(q) : g[i] = k) \/ CutOff(s, k)
  <2>1. CASE k <= n
    <3>1. (\E i \in Text(p) : f[i] = k) \/ CutOff(s, k)
      BY <1>2, <2>1 DEF Places
    <3> QED
      BY <1>6, <1>9, <3>1
  <2>2. CASE k > n
    <3>1. k - n \in 1 .. Len(c) /\ n + (k - n) = k
      BY <1>3, <1>5, <2>2
    <3> QED
      BY <1>6, <1>9, <3>1
  <2> QED
    BY <1>5, <2>1, <2>2
<1>14. Carries(q, s)
  BY <1>10, <1>11, <1>12, <1>13 DEF Carries
<1> QED
  BY <1>1, <1>14 DEF q, p, c

(* Everything transmitted is printed in order, nothing twice, and what is  *)
(* lost is the rest of a piece of line after a NUL; no finished line waits *)
(* in the buffer.                                                          *)
THEOREM TextAlwaysDelivered == Spec => []TextDelivered
<1>1. BusInv /\ TextInv => TextDelivered
  <2> SUFFICES ASSUME BusInv, TextInv, NEW d \in Device
               PROVE  /\ Carries(uart[d].printed \o uart[d].output_buffer, sent[d])
                      /\ NoneIs(uart[d].output_buffer, NL)
    BY DEF TextDelivered, NoneIs
  <2>1. uart[d] \in UartType /\ sent[d] \in Seq(Byte) /\ Flows(uart[d], sent[d])
    BY DEF BusInv, Typed, TextInv
  <2> QED
    BY <2>1, FlowsCarries
<1>2. Spec => []TextInv
  BY InitText, NextText, AlwaysBusInv, PTL DEF Spec
<1> QED
  BY <1>1, <1>2, AlwaysBusInv, PTL
=============================================================================
