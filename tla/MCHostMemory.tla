---------------------------- MODULE MCHostMemory ----------------------------
(* HostMemory on small machines.                                           *)
EXTENDS HostMemory

CONSTANTS
    LowBase,   \* the lowest usable page
    LowPages,  \* pages of the low usable descriptor
    HighPages  \* pages of the high one, after a reserved page

(* A memory map sorted by address: the scan goes down from the highest     *)
(* page of the higher descriptor.                                          *)
Descending(first, n) == [i \in 1 .. n |-> first + n - i]

HighBase == LowBase + LowPages + 1

Sorted == Descending(HighBase, HighPages) \o Descending(LowBase, LowPages)

(* The same descriptors in the other order.                                *)
Unsorted == Descending(LowBase, LowPages) \o Descending(HighBase, HighPages)

(* The bootloader's pages: at the top of the memory, or scattered so that  *)
(* free pages have few neighbours.                                         *)
Compact == HighBase + HighPages - 2 .. HighBase + HighPages - 1

Scattered == {HighBase + k : k \in {x \in 0 .. HighPages - 1 : x % 3 = 1}}

MCChainloads == {Compact, Scattered}
=============================================================================
