--------------------------- MODULE MCFreePageScan ---------------------------
(* FreePageScan over every small memory map the bootloader can build: a    *)
(* prefix of the array holds non-empty descriptors in increasing address   *)
(* order with a hole between them, the rest is zero.                       *)
EXTENDS FreePageScan

CONSTANTS
    MaxPages,    \* pages of the longest descriptor
    FirstUsable  \* whether descriptor 0 may be usable, may be reserved, or both

Empty == [physical_address |-> 0, pages |-> 0, usable |-> FALSE]

(* pages and usability of the descriptors in the prefix of length n.       *)
Layout(n, pages, usable) ==
    [r \in DescIndex |->
        IF r < n THEN [physical_address |-> r * (MaxPages + 1),
                       pages |-> pages[r], usable |-> usable[r]]
                 ELSE Empty]

MCMmaps ==
    UNION {{Layout(n, pages, usable) :
               pages \in [0 .. n - 1 -> 1 .. MaxPages],
               usable \in {u \in [0 .. n - 1 -> BOOLEAN] : u[0] \in FirstUsable}} :
           n \in 1 .. MaxDesc}
=============================================================================
