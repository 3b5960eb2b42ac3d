------------------------------ MODULE PageWalk ------------------------------
(***************************************************************************)
(* Four-level page tables with Entries entries per table instead of 512.   *)
(* Addresses are counted in pages; a linear address is four digits in base *)
(* Entries.  The tables are a function from pages to their entries: the    *)
(* hypervisor's in physical memory, or the guest's behind the EPT, whose   *)
(* domain is what the EPT maps.                                            *)
(***************************************************************************)
EXTENDS Naturals

CONSTANT Entries

ASSUME EntriesAssumption == Entries \in Nat \ {0, 1}

Index == 0 .. Entries - 1

(* Pages an entry of a table stands for: 4 KiB in a page table (level 0),  *)
(* then 2 MiB, 1 GiB, 512 GiB in the PML4 (level 3), which has them all.   *)
EntrySpan(level) ==
    CASE level = 0 -> 1
      [] level = 1 -> Entries
      [] level = 2 -> Entries * Entries
      [] level = 3 -> Entries * Entries * Entries
      [] level = 4 -> Entries * Entries * Entries * Entries

(* LINEAR_ADDRESS_GET_{TABLE,DIRECTORY,DIRECTORY_PTR,PML4}: levels 0 to 3. *)
IndexAt(la, level) == (la \div EntrySpan(level)) % Entries

Absent == [present |-> FALSE, to |-> 0, large |-> FALSE, perm |-> "none"]
Table(page) == [Absent EXCEPT !.present = TRUE, !.to = page]
Large(page, perm) == [present |-> TRUE, to |-> page, large |-> TRUE, perm |-> perm]
Leaf(page, perm) == [Table(page) EXCEPT !.perm = perm]

Zeroed == [i \in Index |-> Absent]

(* A page, or several, written into memory.                                *)
Store(memory, page, contents) ==
    [p \in DOMAIN memory \cup {page} |-> IF p = page THEN contents ELSE memory[p]]
StoreAll(memory, pages) ==
    [p \in DOMAIN memory \cup DOMAIN pages |-> IF p \in DOMAIN pages THEN pages[p] ELSE memory[p]]

(* The page of a 2 MiB or a 1 GiB page that la is in.                      *)
Inside(e, la, level) == [e EXCEPT !.to = @ + (la % EntrySpan(level))]

(* A table that cannot be reached ends the walk like an absent entry.      *)
EntryOf(contents, page, i) == IF page \in DOMAIN contents THEN contents[page][i] ELSE Absent

(* The entry that translates la, with its page, or Absent.                 *)
Walk(contents, root, la) ==
    LET pml4e == EntryOf(contents, root, IndexAt(la, 3))
        pdpte == EntryOf(contents, pml4e.to, IndexAt(la, 2))
        pde == EntryOf(contents, pdpte.to, IndexAt(la, 1))
        pte == EntryOf(contents, pde.to, IndexAt(la, 0))
    IN  IF ~pml4e.present \/ ~pdpte.present THEN Absent
        ELSE IF pdpte.large THEN Inside(pdpte, la, 2)
        ELSE IF ~pde.present THEN Absent
        ELSE IF pde.large THEN Inside(pde, la, 1)
        ELSE pte
=============================================================================
