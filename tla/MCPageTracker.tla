---------------------------- MODULE MCPageTracker ----------------------------
(* PageTracker on a handful of adjacent pages and a small arena.           *)
EXTENDS PageTracker

CONSTANTS
    First, Last  \* the pages of the machine are First .. Last

MCPages == First .. Last
=============================================================================
