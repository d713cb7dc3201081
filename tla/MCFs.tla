-------------------------------- MODULE MCFs --------------------------------
(* Two processes on a small file system: a root block holds three entries,   *)
(* so the second new name takes a block; four inodes and five blocks run out.*)
EXTENDS Mkfs

CONSTANTS p1, p2

P(c, path, rel, type, write, new) ==
  [call |-> c, path |-> path, relative |-> rel, type |-> type, write |-> write, new |-> new]

CallMC ==
  {P("open", <<"f">>, FALSE, "file", TRUE, <<>>), P("open", <<"d">>, FALSE, "file", TRUE, <<>>),
   P("create", <<"a">>, FALSE, "file", TRUE, <<>>), P("create", <<"d", "f">>, FALSE, "file", FALSE, <<>>),
   P("create", <<"a">>, TRUE, "dir", FALSE, <<>>),
   P("create", <<"a">>, TRUE, "dev", FALSE, <<>>), P("create", <<>>, FALSE, "dir", FALSE, <<>>),
   P("link", <<"f">>, FALSE, "file", FALSE, <<"d", "f">>), P("link", <<"d">>, FALSE, "file", FALSE, <<"a">>),
   P("unlink", <<"f">>, FALSE, "file", FALSE, <<>>), P("unlink", <<"d">>, FALSE, "file", FALSE, <<>>),
   P("unlink", <<"a">>, TRUE, "file", FALSE, <<>>),
   P("chdir", <<"d">>, FALSE, "file", FALSE, <<>>), P("chdir", <<"f">>, FALSE, "file", FALSE, <<>>)}

\* With a directory in the directory, and paths that go up.
ClimbMC ==
  {P("chdir", <<"d", "a">>, FALSE, "file", FALSE, <<>>), P("open", <<"..">>, TRUE, "file", FALSE, <<>>),
   P("unlink", <<"d", "a">>, FALSE, "file", FALSE, <<>>), P("unlink", <<"d">>, FALSE, "file", FALSE, <<>>)}
CallsMC == CallMC \cup
  {P("open", <<"d", "a", "..">>, FALSE, "file", FALSE, <<>>), P("create", <<"d", ".">>, FALSE, "dir", FALSE, <<>>),
   P("unlink", <<"d", "a">>, FALSE, "file", FALSE, <<>>)}

\* The image of mkfs with one file, after mkdir d and after mkdir d/a.
Mkdir(d, in, name) ==
  LET n == Lowest(Unallocated(d))
      new == Linked(Linked(Updated(d, n, Dinode("dir", 1, {})), n, ".", n), n, "..", in)
  IN NlinkAdd(Linked(new, in, name, n), in, 1)
Image == Mkfs(<<"f">>)
ImageDir == Mkdir(Image, ROOT, "d")
ImageNested == Mkdir(ImageDir, ImageDir.ents[ROOT]["d"], "a")
Sym == Permutations({p1, p2})
ImagesMC == {ImageDir, ImageNested}
NestedMC == {ImageNested}

-----------------------------------------------------------------------------
\* history: the inodes that were entered in a directory already removed from
\* the tree, and those directories.  Nothing takes such a link back.
VARIABLE stray
Strays(d) ==
  LET e == {x \in (Inum \ Reached(d)) \X (Name \ {".", ".."}) : d.ents[x[1]][x[2]] # 0}
  IN UNION {{x[1], d.ents[x[1]][x[2]]} : x \in e}
MCInit == Init /\ stray = {}
MCNext ==
  /\ Next
  /\ stray' = (IF disk'.ents = disk.ents THEN stray ELSE stray \cup Strays(disk')) \ Unallocated(disk')
MCSpec == MCInit /\ [][MCNext]_<<vars, stray>>

\* Whatever calls run and wherever a crash cuts them off, the file system that
\* a crash falls back to is a sound tree: no entry names a free inode, ".."
\* names the parent, and nlink is the number of entries that name an inode, more
\* only if it was entered in a removed directory.  link and unlink change the
\* count and the entry in different steps, in different blocks, and race with
\* the removal of the directory they write to.
TreeSound ==
  (~up \/ \E p \in Proc : At(p, "commit")) =>
    LET d == disk
        tree == {e \in Reached(d) \X (Name \ {"."}) : d.ents[e[1]][e[2]] # 0}
        to(e) == d.ents[e[1]][e[2]]
        links(i) == Cardinality({e \in tree : to(e) = i})
    IN /\ \A i \in Inum : d.ino[i].nlink = links(i) \/ (i \in stray /\ d.ino[i].nlink > links(i))
       /\ \A e \in tree : /\ d.ino[to(e)].type # "free"
                          /\ e[2] # ".." /\ d.ino[to(e)].type = "dir" => d.ents[to(e)][".."] = e[1]
=============================================================================
