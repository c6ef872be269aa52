---------------------------- MODULE MCReadAhead ----------------------------
(* Two members whose trees have every kind of entry the walk and the writer *)
(* tell apart.                                                              *)
EXTENDS ReadAhead

E(parent, kind, size, dev, ino, sparse, zfs) ==
    [parent |-> parent, kind |-> kind, size |-> size, dev |-> dev, ino |-> ino,
     sparse |-> sparse, zfs |-> zfs]

MCTrees ==
    << << E(0, "dir", 0, 1, 0, FALSE, FALSE),
          E(1, "dir", 0, 1, 0, FALSE, TRUE),        \* .zfs
          E(2, "file", 1, 1, 0, FALSE, FALSE),      \*   not visited
          E(1, "file", 1, 1, 0, TRUE, FALSE),       \* sparse
          E(1, "file", 0, 1, 0, FALSE, FALSE),      \* small
          E(1, "file", 2, 1, 0, FALSE, FALSE),      \* fills the memory
          E(1, "file", 1, 1, 7, FALSE, FALSE) >>,   \* hard-linked
       << E(0, "dir", 0, 2, 0, FALSE, FALSE),
          E(1, "file", 1, 2, 7, FALSE, FALSE),      \* same inode, other device
          E(1, "dir", 0, 3, 0, FALSE, FALSE),       \* a mount
          E(3, "file", 1, 3, 0, FALSE, FALSE),      \*   not entered
          E(1, "file", 3, 2, 0, FALSE, FALSE),      \* as large as the memory
          E(1, "file", 1, 2, 7, FALSE, FALSE),      \* second link
          E(1, "special", 0, 2, 0, FALSE, FALSE) >> >>

F(m, i, err) == {[m |-> m, i |-> i, err |-> err]}
MCNamings == {<<"a", "b">>, <<"a", "a">>, <<"a", "">>}
MCFlaws == {{}, F(1, 5, "open"), F(1, 6, "read"), F(1, 4, "probe"), F(1, 4, "read"), F(1, 5, "close"),
            F(2, 2, "info"), F(1, 5, "walk")}
=============================================================================
