---------------------------- MODULE ManagedTool ----------------------------
(***************************************************************************)
(* A program that a plugin has installed, and the receipt that says which: *)
(* what speedlink and yt-dlp share.  A file is its content, and the        *)
(* receipt is the content whose checksum it holds; NoTool is no file.      *)
(***************************************************************************)
EXTENDS Naturals, FiniteSets

CONSTANT NoTool

Managed(bin, receipt) == [bin |-> bin, receipt |-> receipt]
Executable(tool) == tool.bin # NoTool
\* The receipt is there and holds the checksum of the file.
Verify(tool) == Executable(tool) /\ tool.receipt = tool.bin
\* A file that is not there is not moved, which is no failure.
Quarantine(tool) == [tool EXCEPT !.bin = NoTool]
Quarantined(tool) == {tool.bin} \ {NoTool}
\* The receipt is written beside its place and renamed.
WriteReceipt(tool, content) == [tool EXCEPT !.receipt = content]
RemoveReceipt(tool) == WriteReceipt(tool, NoTool)
\* The runner has as many slots as the host allows, and a run takes one.
FreeSlot(running, slots) == Cardinality(running) < slots
=============================================================================
