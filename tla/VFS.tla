-------------------------------- MODULE VFS ---------------------------------
(***************************************************************************)
(* The tree of drivers/fs/vfs/turboVFS.cpp: a function from nodes to       *)
(* [name, parent, flags, ptr, childs, path].  Node 0 is the null pointer,  *)
(* tfs_root is node 1.  A path is given by its words, what strsplit_count  *)
(* makes of it: "" is <<"">>, "/" is <<"", "">>, "a/b" is <<"a", "b">>.    *)
(* The file system pointer, the same everywhere, is left out, and so are   *)
(* paths with a space, which open and create refuse.                       *)
(*                                                                         *)
(* malloc clears the memory it returns (heap.hpp:45).  Whatever goes       *)
(* through a null node has the result Wild.                                *)
(***************************************************************************)
EXTENDS Integers, Sequences, SequencesExt

nullptr == 0
Wild == -1
tfs_root == 1

\* flags & 0x07.  TFS_MOUNTPOINT is 8, so it reads as 0 and equals no type.
TFS_FILE == 1
TFS_FOLDER == 2
TFS_MOUNTPOINT == 0

\* The text at address 0, no name.
NullText == "0"

\* A node as malloc leaves it.
Malloced ==
  [name |-> NullText, parent |-> nullptr, flags |-> 0, ptr |-> nullptr, childs |-> << >>, path |-> << >>]

VfsInit == [n \in {tfs_root} |-> [Malloced EXCEPT !.name = "[ROOT]", !.flags = TFS_MOUNTPOINT]]

Sound(t, n) == n \in DOMAIN t
OrRoot(n) == IF n = nullptr THEN tfs_root ELSE n
NextNode(t) == Cardinality(DOMAIN t) + 1

\* The tree with one more node, linked nowhere.
With(t, node) == [n \in DOMAIN t \cup {NextNode(t)} |-> IF n = NextNode(t) THEN node ELSE t[n]]

-----------------------------------------------------------------------------
\* TurboVector's operations on childs, which one CPU uses: the sequence of what counts.
push_back(v, item) == Append(v, item)

\* remove moves length - 2 elements down, from position on: the first of two stays, and for the
\* first of more the last one goes too and the one before it stays twice.
remove(v, position) ==
  [i \in 1 .. Len(v) - 1 |->
     IF i - 1 \in position .. position + Len(v) - 3 THEN v[i + 1] ELSE v[i]]

\* getChild: names compared in order; also the empty path finds nothing.
getChild(t, parent, name) ==
  LET c == t[OrRoot(parent)].childs
      i == SelectInSeq(c, LAMBDA n : t[n].name = name)
  IN  IF name = "" \/ i = 0 THEN nullptr ELSE c[i]

\* Mutant: a node put before its siblings.
LinkFirst(t, parent, node) ==
  [With(t, node) EXCEPT ![OrRoot(parent)].childs = <<NextNode(t)>> \o @]

\* A node put at the end of its parent's childs.
Link(t, parent, node) ==
  [With(t, node) EXCEPT ![OrRoot(parent)].childs = push_back(@, NextNode(t))]

addChild(t, parent, name) ==
  Link(t, parent, [Malloced EXCEPT !.name = name, !.parent = OrRoot(parent)])

\* Mutant: the node's parent is the parent's parent.
addDirHigher(t, parent, name) ==
  LET p == OrRoot(parent)
  IN  Link(t, p, [Malloced EXCEPT !.name = name, !.parent = t[p].parent, !.flags = TFS_FOLDER,
                               !.path = t[p].path \o <<name>>])

addDir(t, parent, name) ==
  LET p == OrRoot(parent)
  IN  Link(t, p, [Malloced EXCEPT !.name = name, !.parent = p, !.flags = TFS_FOLDER,
                               !.path = t[p].path \o <<name>>])

addFile(t, parent, name) ==
  Link(t, parent, [Malloced EXCEPT !.name = name, !.parent = OrRoot(parent), !.flags = TFS_FILE])

\* Frees the node and its children, and takes it out of the vector with
\* TurboVector::remove.
removeChild(t, parent, name) ==
  LET p == OrRoot(parent)
      i == SelectInSeq(t[p].childs, LAMBDA n : t[n].name = name)
      n == t[p].childs[i]
      freed == {n} \cup ToSet(t[n].childs)
      left == [t EXCEPT ![p].childs = remove(@, i - 1)]
  IN  IF i = 0 THEN t ELSE [x \in DOMAIN t \ freed |-> left[x]]

-----------------------------------------------------------------------------
\* Lines 246-251: empty words at the ends are passed over, the leading ones
\* for good; words of a path of slashes only are read past their end.
Words(path) == LET i == SelectInSeq(path, LAMBDA w : w # "") IN SubSeq(path, i, Len(path))
Items(words) == SelectLastInSeq(words, LAMBDA w : w # "")
OnlySlashes(path) == \A i \in DOMAIN path : path[i] = ""

\* pathArray[i]; a null pointer ends the array.
Word(words, i) == IF i < Len(words) THEN words[i + 1] ELSE NullText

(***************************************************************************)
(* openNext.  Its recursive calls change nothing here: what they return is *)
(* dropped, and the frame goes on with its own parent, child, items and    *)
(* cleared.  So a name that is not found gives the last child that was     *)
(* looked at, and after a match the loop goes on in the node found, at the *)
(* next index.  Wild in a recursive call is Wild here.                     *)
(***************************************************************************)
\* The variables of a call; ok is FALSE once it has gone astray.
Frames == [parent : Int, child : Int, items : Int, cleared : Nat, ok : BOOLEAN]

openNext(t, words, frame) ==
  LET next[st \in Frames] ==
        LET Clear(s) ==   \* one word is cleared, and the recursive call made
              LET r == [s EXCEPT !.items = @ - 1, !.cleared = @ + 1]
              IN  [r EXCEPT !.ok = @ /\ r.items >= 0 /\ next[r].ok]
            Child(s, n) ==
              IF t[n].name = Word(words, s.cleared) THEN Clear([s EXCEPT !.parent = n, !.child = n])
              ELSE [s EXCEPT !.child = n]
            loop[s \in Frames, i \in Nat] ==
              IF ~s.ok \/ ~Sound(t, s.parent) THEN [s EXCEPT !.ok = FALSE]
              ELSE IF i >= Len(t[s.parent].childs) THEN s
              ELSE loop[Child(s, t[s.parent].childs[i + 1]), i + 1]
            Up == IF st.items > 1 THEN [st EXCEPT !.parent = t[st.parent].parent]
                                  ELSE [st EXCEPT !.child = t[st.parent].parent]
            s1 == IF Word(words, st.cleared) = ".." THEN Clear(Up) ELSE st
            s2 == IF Word(words, s1.cleared) = "."
                    THEN Clear(IF s1.items <= 1 THEN [s1 EXCEPT !.child = s1.parent] ELSE s1)
                    ELSE s1
        IN  IF st.items = 0 THEN st
            ELSE IF ~Sound(t, st.parent) THEN [st EXCEPT !.ok = FALSE]
            ELSE loop[s2, 0]
  IN  next[frame]

Frame(parent, words) ==
  [parent |-> parent, child |-> nullptr, items |-> Items(words), cleared |-> 0, ok |-> TRUE]

\* The node open returns, and whether vfs_lock is held then: line 242
\* returns without releasing it.
open(t, parent, path) ==
  LET start == IF parent = nullptr THEN t[tfs_root].ptr ELSE parent
      r == openNext(t, Words(path), Frame(start, Words(path)))
  IN  IF parent \in {nullptr, tfs_root} /\ path = <<"", "">> THEN [node |-> t[tfs_root].ptr, held |-> FALSE]
      ELSE IF start = nullptr THEN [node |-> nullptr, held |-> FALSE]
      ELSE IF path = <<"", "">> THEN [node |-> parent, held |-> TRUE]
      ELSE IF OnlySlashes(path) \/ ~r.ok THEN [node |-> Wild, held |-> TRUE]
      ELSE [node |-> r.child, held |-> FALSE]
=============================================================================
