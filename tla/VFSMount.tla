------------------------------ MODULE VFSMount ------------------------------
(***************************************************************************)
(* Creating and mounting in the tree of module VFS (turboVFS.cpp).         *)
(***************************************************************************)
EXTENDS VFS

(***************************************************************************)
(* createNext, whose recursive calls do change the tree.  "." goes to the  *)
(* parent like "..".  There is no recursive call behind the last two       *)
(* lines, so of a path with several new names only the first is made, and  *)
(* the result is null.                                                     *)
(***************************************************************************)
RECURSIVE createNext(_, _)

ClearCreating(words, st) ==
  LET s == [st EXCEPT !.items = @ - 1, !.cleared = @ + 1]
      r == createNext(words, s)
  IN  [s EXCEPT !.t = r.t, !.ok = @ /\ s.items >= 0 /\ r.ok]

createNext(words, st) ==
  LET Go(s, n) == ClearCreating(words, IF s.items > 1 THEN [s EXCEPT !.parent = n] ELSE [s EXCEPT !.child = n])
      temp == getChild(st.t, st.parent, Word(words, st.cleared))
      s1 == IF temp # nullptr THEN Go(st, temp) ELSE st
      Up(s, w) == IF s.ok /\ Word(words, s.cleared) = w THEN Go(s, s.t[s.parent].parent) ELSE s
      s3 == Up(Up(s1, ".."), ".")
      made == addChild(s3.t, s3.parent, Word(words, s3.cleared))
  IN  IF st.items = 0 THEN st
      ELSE IF ~Sound(st.t, OrRoot(st.parent)) THEN [st EXCEPT !.ok = FALSE]
      ELSE IF ~s3.ok THEN s3
      ELSE IF s3.items > 1 THEN [s3 EXCEPT !.parent = NextNode(s3.t), !.t = made]
      ELSE [s3 EXCEPT !.child = NextNode(s3.t), !.t = made]

create(t, parent, path) ==
  LET start == IF parent = nullptr THEN t[tfs_root].ptr ELSE parent
      r == createNext(Words(path), [t |-> t] @@ Frame(start, Words(path)))
  IN  IF (parent \in {nullptr, tfs_root} /\ path = <<"", "">>) \/ start = nullptr
        THEN [t |-> t, node |-> t[tfs_root].ptr]
      ELSE IF OnlySlashes(path) \/ ~r.ok THEN [t |-> t, node |-> Wild]
      ELSE [t |-> r.t, node |-> r.child]

open_root(t, parent, path) ==
  LET o == open(t, parent, path)
  IN  IF o.node = nullptr THEN create(t, parent, path) ELSE [t |-> t, node |-> o.node]

mount_root(t) ==
  LET n == NextNode(t)
  IN  [addChild(t, tfs_root, "/") EXCEPT ![tfs_root].ptr = n, ![n].flags = TFS_FOLDER]

mount(t, parent, path) ==
  LET t1 == IF t[tfs_root].ptr = nullptr THEN mount_root(t) ELSE t
      p == IF parent = nullptr THEN t1[tfs_root].ptr ELSE parent
      c == create(t1, p, path)
  IN  [c.t EXCEPT ![p].ptr = c.node, ![p].flags = TFS_MOUNTPOINT, ![c.node].flags = TFS_FOLDER]

-----------------------------------------------------------------------------
(***************************************************************************)
(* A mounted name can be opened, and so can what is created last below it, *)
(* from the mount point and, unless it is the only child, through the path *)
(* that names both; removing it restores the children before it.  names    *)
(* are the different ones created so far, t is the tree they gave.         *)
(***************************************************************************)
MountedOpens(t, mnt, names) ==
  LET last == names[Len(names)]
  IN  IF names = << >> THEN open(t, nullptr, <<"mnt">>).node = mnt
      ELSE /\ t[open(t, mnt, <<last>>).node].name = last
           /\ Len(names) > 1 =>
                /\ t[open(t, nullptr, <<"mnt", last>>).node].name = last
                /\ removeChild(t, mnt, last)[mnt].childs = Front(t[mnt].childs)
=============================================================================
