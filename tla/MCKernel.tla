------------------------------ MODULE MCKernel ------------------------------
(* TLC instances of Vm and of Intr.  They have no state in common, so one run  *)
(* explores both: a behaviour is a behaviour of one part, the other staying    *)
(* where it starts.                                                            *)
EXTENDS Vm, Intr

VARIABLE part
KernelInit == Init /\ IntrInit /\ part \in {"memory", "traps"}
KernelNext ==
  /\ UNCHANGED part
  /\ \/ part = "memory" /\ Next /\ UNCHANGED intrVars
     \/ part = "traps" /\ IntrNext /\ UNCHANGED vars
KernelSpec == KernelInit /\ [][KernelNext]_<<vars, intrVars, part>>

-----------------------------------------------------------------------------
(* Memory: a page is two bytes, a page-table page has three entries, so the    *)
(* user address space has 25 pages.                                            *)
Seg(vaddr, memsz, filesz, w, v, short) ==
  [vaddr |-> vaddr, memsz |-> memsz, filesz |-> filesz, w |-> w, v |-> v, short |-> short]
Text == Seg(0, 1, 1, FALSE, "text", FALSE)
Small == [elf |-> TRUE, segs |-> <<Text>>]
Call(prog, path, argv, fits) == [prog |-> prog, path |-> path, argv |-> argv, fits |-> fits]
ExecCallMC ==
  {Call(Small, 0, 0, TRUE), Call(Small, 0, 0, FALSE), Call(Small, 0, 7, TRUE),
   Call(Small, 7, 0, TRUE), Call([elf |-> FALSE, segs |-> <<>>], 0, 0, TRUE)}
  \cup {Call([elf |-> TRUE, segs |-> s], 0, 0, TRUE) : s \in
           {<<Text, Seg(2, 2, 1, TRUE, "data", FALSE)>>, <<Text, Seg(34, 2, 1, TRUE, "far", FALSE)>>,
            <<Seg(0, 2, 2, FALSE, "text", TRUE)>>, <<Seg(0, 0, 0, FALSE, "text", FALSE)>>,
            <<Seg(0, 2, 3, FALSE, "text", FALSE)>>}}
SbrkMC == {3, -3, -60, 50}

-----------------------------------------------------------------------------
(* Traps: one process pauses and reads from the device, the other asks for the *)
(* time.                                                                       *)
CONSTANTS p1, p2
TwoPrograms == p1 :> {"pause0", "read"} @@ p2 :> {"uptime"}

-----------------------------------------------------------------------------
\* Which physical page is used where does not matter: two states in which each
\* page has one use and that agree on the rest differ by a renaming of pages.
View ==
  <<[p \in Proc |-> <<Visible(p), DOMAIN as[p].dir, DOMAIN as[p].map>>], sz, state,
    Cardinality(free), Cardinality(taken), bad, ideal, PagesPartition, intrVars, part>>
=============================================================================
