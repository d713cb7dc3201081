-------------------------------- MODULE Mkfs --------------------------------
(* The image that mkfs writes: the root directory, and one file of one block *)
(* per name, linked in it.                                                   *)
EXTENDS Fs, SequencesExt

MkfsRoot ==
  LET empty == [ino |-> (ROOT :> Dinode("dir", 1, {})) @@ [i \in Inum |-> FreeInode],
                ents |-> (ROOT :> NoEntries) @@ [i \in Inum |-> NoEntries], used |-> {}]
  IN Linked(Linked(empty, ROOT, ".", ROOT), ROOT, "..", ROOT)
MkfsAdd(d, name) ==
  LET n == Lowest(Unallocated(d))
  IN Grown(Linked(Updated(d, n, Dinode("file", 1, {})), ROOT, name, n), n)
Mkfs(names) == FoldLeft(MkfsAdd, MkfsRoot, names)
=============================================================================
