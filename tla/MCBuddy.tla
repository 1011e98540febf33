------------------------------ MODULE MCBuddy ------------------------------
(***************************************************************************)
(* Buddy on a few pages, whose number is no power of 2.                    *)
(***************************************************************************)
EXTENDS Buddy

\* The BIOS and the kernel have the first pages.
MCFree0 == 3 .. nodes_count - 1

\* Anything but a free node of level 1, which is what the last block's buddy would be.
MCPastTheEnd == [is_free : BOOLEAN, level : 0 .. 4] \ {[is_free |-> TRUE, level |-> 1]}
=============================================================================
