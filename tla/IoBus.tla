------------------------------- MODULE IoBus -------------------------------
(***************************************************************************)
(* The I/O ports of a virtual machine: vm_manager_register_device, the     *)
(* lookups of hv/src/vmm/vm_ioports.c, and the UARTs they reach.  A device *)
(* answers eight ports from Base(d); only byte handlers exist.             *)
(***************************************************************************)
EXTENDS Uart8250, FiniteSets

CONSTANTS
    Device,      \* the devices of the machine
    NULL,
    Base,        \* Base[d]: first port of a device
    Drivers      \* what guests do: the devices they have, registers, bytes and
                 \* sizes they use, ports of no device, bytes they transmit at most

Ports(d) == {Base[d] + o : o \in Offset}

ASSUME BusConstants ==
    /\ NULL \notin Device /\ "idle" \notin Device \cup {NULL}
    /\ \A d \in Device : Base[d] \in Nat
    /\ \A d, e \in Device : d # e => Ports(d) \cap Ports(e) = {}
    /\ \A g \in Drivers :
          /\ g.devices \subseteq Device /\ g.offsets \subseteq Offset /\ g.bytes \subseteq Byte
          /\ g.maxSent \in Nat
          /\ \A d \in Device : Ports(d) \cap g.others = {}

VARIABLES
    driver,      \* what the guest does, one of Drivers
    head,        \* vm->devices
    next,        \* next[d]: device->next
    registered,  \* devices callers have registered (history)
    uart,        \* uart[d]: device->device_data
    access,      \* the access being looked up: write, size, port, byte
    iter,        \* device_iter, or "idle" between accesses
    answer,      \* what the last IN returned
    sent,        \* sent[d]: the bytes transmitted through d (history)
    latched,     \* latched[d]: the last byte written to each register (history)
    panic

bus == <<driver, head, next, registered, uart, access, iter, answer, sent, latched, panic>>

NoAccess == [write |-> FALSE, size |-> 1, port |-> 0, byte |-> NUL]

(* IN at a port, or OUT of a value whose low byte is one of the driver's.  *)
GuestPorts == driver.others \cup {Base[d] + o : d \in driver.devices, o \in driver.offsets}

Access ==
    [write : {FALSE}, size : driver.sizes, port : GuestPorts, byte : {NUL}]
        \cup [write : {TRUE}, size : driver.sizes, port : GuestPorts, byte : driver.bytes]

(* The registers that share addresses, and the state of DLAB selecting     *)
(* them: the two bytes of the divisor, and the interrupt register.         *)
Bank == {<<DATA, TRUE>>, <<INT_ENABLE, TRUE>>, <<INT_ENABLE, FALSE>>}

Init ==
    /\ driver \in Drivers
    /\ head = NULL
    /\ next = [d \in Device |-> NULL]
    /\ registered = {}
    /\ uart = [d \in Device |-> NewUart]
    /\ access = NoAccess
    /\ iter = "idle"
    /\ answer = {}
    /\ sent = [d \in Device |-> <<>>]
    /\ latched = [d \in Device |-> [r \in Bank |-> {}]]
    /\ panic = FALSE

-----------------------------------------------------------------------------
(* Mutation: the old list is dropped.                                      *)
Register_Forgets(d) ==
    /\ ~panic /\ iter = "idle"
    /\ next[d] = NULL
    /\ head' = d
    /\ registered' = registered \cup {d}
    /\ UNCHANGED <<next, uart, access, iter, answer, sent, latched, panic>>

(* vm_manager_register_device.  The last device of the list has no next    *)
(* and would be accepted again; Next registers only new ones, as hvmain.   *)
Register(d) ==
    /\ ~panic /\ iter = "idle"
    /\ next[d] = NULL
    /\ next' = [next EXCEPT ![d] = head]
    /\ head' = d
    /\ registered' = registered \cup {d}
    /\ UNCHANGED <<uart, access, iter, answer, sent, latched, panic>>

(* PANIC("Registering a device that is probably already registered")       *)
RegisterAgain(d) ==
    /\ ~panic /\ iter = "idle"
    /\ next[d] # NULL
    /\ panic' = TRUE
    /\ UNCHANGED <<head, next, registered, uart, access, iter, answer, sent, latched>>

(* The guest executes IN or OUT: vm_in{b,w,d} and vm_out{b,w,d} start.     *)
Transmits(a, d) == a.write /\ a.size = 1 /\ a.port = Base[d] + DATA /\ ~Dlab(uart[d])

Start(a) ==
    /\ ~panic /\ iter = "idle"
    /\ \A d \in Device : Transmits(a, d) => Len(sent[d]) < driver.maxSent
    /\ access' = a
    /\ iter' = head
    /\ UNCHANGED <<head, next, registered, uart, answer, sent, latched, panic>>

(* The device has the port and a handler of the size.                      *)
Handles(d) == access.port \in Ports(d) /\ access.size = 1

(* Mutation: the walk goes back to the head of the list.                   *)
LookNext_Restarts ==
    /\ iter \in Device /\ ~Handles(iter)
    /\ iter' = head
    /\ UNCHANGED <<head, next, registered, uart, access, answer, sent, latched, panic>>

LookNext ==
    /\ iter \in Device /\ ~Handles(iter)
    /\ iter' = next[iter]
    /\ UNCHANGED <<head, next, registered, uart, access, answer, sent, latched, panic>>

Record(d, offset) ==
    /\ latched' = IF <<offset, Dlab(uart[d])>> \in Bank
                  THEN [latched EXCEPT ![d][<<offset, Dlab(uart[d])>>] = access.byte] ELSE latched
    /\ sent' = IF offset = DATA /\ ~Dlab(uart[d])
               THEN [sent EXCEPT ![d] = Append(@, access.byte)] ELSE sent

CallOut ==
    /\ iter \in Device /\ Handles(iter) /\ access.write
    /\ LET offset == access.port - Base[iter]
       IN  /\ uart' = [uart EXCEPT ![iter] = Outb(@, offset, access.byte)]
           /\ Record(iter, offset)
    /\ iter' = "idle" /\ access' = NoAccess
    /\ UNCHANGED <<head, next, registered, answer, panic>>

CallIn ==
    /\ iter \in Device /\ Handles(iter) /\ ~access.write
    /\ answer' = Inb(uart[iter], access.port - Base[iter])
    /\ iter' = "idle" /\ access' = NoAccess
    /\ UNCHANGED <<head, next, registered, uart, sent, latched, panic>>

(* "Unexpected in / out ... : ignored"                                     *)
Ignored ==
    /\ iter = NULL
    /\ answer' = IF access.write THEN answer ELSE {}
    /\ iter' = "idle" /\ access' = NoAccess
    /\ UNCHANGED <<head, next, registered, uart, sent, latched, panic>>

Lookup == LookNext \/ CallOut \/ CallIn \/ Ignored

Next ==
    /\ \/ \E d \in driver.devices \ registered : Register(d)
       \/ \E d \in Device : RegisterAgain(d)
       \/ \E a \in Access : Start(a)
       \/ Lookup
    /\ UNCHANGED driver

Spec == Init /\ [][Next]_bus

(* The handler of a VM-exit runs to its end.                               *)
FairSpec == Spec /\ WF_bus(Lookup /\ UNCHANGED driver)

-----------------------------------------------------------------------------
(* The output buffer always has room for one more byte and for the NUL.    *)
TypeOK ==
    /\ head \in Device \cup {NULL} /\ next \in [Device -> Device \cup {NULL}]
    /\ access \in Access \cup {NoAccess} /\ iter \in Device \cup {NULL, "idle"} /\ answer \in Byte
    /\ \A d \in Device :
          /\ uart[d].output_buffer \in Seq(Byte) /\ Len(uart[d].output_buffer) <= Capacity - 2
          /\ {uart[d].int_enable_reg, uart[d].line_control_reg, uart[d].modem_control_reg} \subseteq Byte
          /\ uart[d].baud_rate_divisor \subseteq 0 .. 15

(* A byte is lost only to a NUL before it, or to being one, in the piece   *)
(* of its line that is printed at once.                                    *)
Text(s) == {i \in DOMAIN s : s[i] # NL}
CutOff(s, k) ==
    \E n \in 1 .. k : s[n] = NUL /\ k - n < Capacity - 1 /\ \A m \in n .. k : s[m] # NL

(* The bytes of t that are not newlines are bytes of s, in the same order, *)
(* and the other bytes of s are cut off.                                   *)
Carries(t, s) ==
    \E f \in [Text(t) -> Text(s)] :
        /\ \A i \in Text(t) : s[f[i]] = t[i]
        /\ \A i, j \in Text(t) : i < j => f[i] < f[j]
        /\ \A k \in Text(s) : (\E i \in Text(t) : f[i] = k) \/ CutOff(s, k)

(* Everything a guest transmits is printed in order, nothing twice and     *)
(* nothing lost, whatever the lengths of its lines, the accesses to other  *)
(* devices and the switches of DLAB in between, and a line is out as soon  *)
(* as it ends.  A NUL, at which the %s of vmd_8250uart_putc stops, loses   *)
(* the rest of its piece of the line, and never a byte of another line or  *)
(* of the next piece.                                                      *)
TextDelivered ==
    \A d \in Device :
        /\ Carries(uart[d].printed \o uart[d].output_buffer, sent[d])
        /\ \A i \in DOMAIN uart[d].output_buffer : uart[d].output_buffer[i] # NL

(* The registers that share an address do not disturb each other: reading  *)
(* one back gives what was written to it last, however often DLAB changed. *)
BanksSeparate ==
    \A d \in Device :
        IF Dlab(uart[d])
        THEN \A o \in {DATA, INT_ENABLE} : Inb(uart[d], o) = latched[d][<<o, TRUE>>]
        ELSE Inb(uart[d], INT_ENABLE) = latched[d][<<INT_ENABLE, FALSE>>] \cap (0 .. 3)

(* A byte access to a port of a registered device reaches the device, in   *)
(* whatever order devices were registered: no access of that kind falls    *)
(* off the end of the list and is ignored.                                 *)
RightDevice ==
    iter = NULL => ~\E d \in registered : access.port \in Ports(d) /\ access.size = 1

(* Every lookup ends.                                                      *)
LookupEnds == iter # "idle" ~> iter = "idle"
=============================================================================
