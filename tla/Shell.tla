------------------------------- MODULE Shell --------------------------------
(***************************************************************************)
(* The commands of apps/turboShell.cpp that work on the tree of VFS.       *)
(* Everything is done by one thread, one command is one step.  The tree is *)
(* never mounted: tfs_root->ptr stays what new left there, and the shell   *)
(* works below nodes of its own, which run makes when it has none.         *)
(***************************************************************************)
EXTENDS VFS, FiniteSets

CONSTANTS
  Names,        \* names of files and directories, with "" for none given
  Paths,        \* further arguments of ls and cd, as words
  MaxNodes      \* bound on the nodes

ASSUME ShellAssumption == MaxNodes \in Nat

VARIABLES
  tree,
  currentNode,
  vfs_lock,     \* TRUE while it is held
  mode          \* "run", or "fault" after an access through a wild or null pointer

shellVars == <<tree, currentNode, vfs_lock, mode>>

ShellInit ==
  /\ tree = VfsInit /\ currentNode = nullptr /\ vfs_lock = FALSE /\ mode = "run"

Ready == mode = "run" /\ currentNode # nullptr

(***************************************************************************)
(* run, lines 188-192: a node of the shell's own, without parent, where    *)
(* there is no current one.  Every later command is read with it set.      *)
(***************************************************************************)
NewTop ==
  /\ mode = "run" /\ currentNode = nullptr /\ NextNode(tree) <= MaxNodes
  /\ tree' = With(tree, [Malloced EXCEPT !.flags = TFS_FOLDER, !.path = <<"~">>])
  /\ currentNode' = NextNode(tree)
  /\ UNCHANGED <<vfs_lock, mode>>

\* mkdir and touch: the argument is never null, so none given makes a node
\* with an empty name.  Outside the tree push_back faults.
Make(cmd, name) ==
  /\ Ready /\ NextNode(tree) <= MaxNodes
  /\ IF Sound(tree, currentNode)
       THEN /\ tree' = IF cmd = "mkdir" THEN addDir(tree, currentNode, name)
                                        ELSE addFile(tree, currentNode, name)
            /\ mode' = mode
       ELSE tree' = tree /\ mode' = "fault"
  /\ UNCHANGED <<currentNode, vfs_lock>>

\* Mutant: no test for "/" of its own.
lsNodeOpen(arg) ==
  CASE arg \in {<<"..">>, <<"..", "">>} -> [node |-> tree[currentNode].parent, held |-> FALSE]
    [] arg \in {<<".">>, <<".", "">>, <<"">>} -> [node |-> currentNode, held |-> FALSE]
    [] OTHER -> open(tree, currentNode, arg)

\* Lines 83-86: the node that ls lists.
lsNode(arg) ==
  CASE arg \in {<<"..">>, <<"..", "">>} -> [node |-> tree[currentNode].parent, held |-> FALSE]
    [] arg \in {<<".">>, <<".", "">>, <<"">>} -> [node |-> currentNode, held |-> FALSE]
    [] arg = <<"", "">> -> open(tree, nullptr, arg)
    [] OTHER -> open(tree, currentNode, arg)

\* A wild node faults, in open or in the loop over its children.
ls(arg) ==
  /\ Ready /\ ~vfs_lock
  /\ LET r == lsNode(arg)
         wild == r.node # nullptr /\ ~Sound(tree, r.node)
     IN  /\ mode' = IF wild THEN "fault" ELSE mode
         /\ vfs_lock' = r.held
  /\ UNCHANGED <<tree, currentNode>>

(***************************************************************************)
(* cd.  Line 160 takes the node before line 162 reads its name and before  *)
(* the tests: at a null node the name is the text at address 0, or a fault.*)
(* A file, too, stays the current node after the message.                  *)
(***************************************************************************)
cd(arg) ==
  /\ Ready /\ ~vfs_lock
  /\ LET by == CASE arg = <<"">> -> [node |-> getChild(tree, nullptr, "/"), held |-> FALSE]
                 [] arg \in {<<"..">>, <<"..", "">>} -> [node |-> tree[currentNode].parent, held |-> FALSE]
                 [] arg \in {<<".">>, <<".", "">>} -> [node |-> currentNode, held |-> FALSE]
                 [] arg = <<"", "">> -> [node |-> tree[tfs_root].ptr, held |-> FALSE]
                 [] OTHER -> open(tree, currentNode, arg)
         opened == arg \notin {<<"">>, <<"..">>, <<"..", "">>, <<".">>, <<".", "">>, <<"", "">>}
     IN  /\ currentNode' = by.node
         /\ vfs_lock' = by.held
         /\ mode' \in IF by.node = Wild THEN {"fault"}
                      ELSE IF opened /\ by.node = nullptr THEN {"run", "fault"} ELSE {"run"}
  /\ UNCHANGED tree

ShellNext ==
  \/ NewTop
  \/ \E n \in Names, cmd \in {"mkdir", "touch"} : Make(cmd, n)
  \/ \E a \in Paths \cup { <<n>> : n \in Names } : ls(a) \/ cd(a)

-----------------------------------------------------------------------------
(***************************************************************************)
(* Whatever is typed, and also when null pointers are followed, the tree   *)
(* keeps its shape: a node is a child of its parent exactly once and of    *)
(* nothing else, and the path of a directory, which the prompt shows, is   *)
(* its parent's path and its name.  Nodes the shell made have no parent.   *)
(***************************************************************************)
TreeShape ==
  \A n \in DOMAIN tree :
    LET p == tree[n].parent
        In(m) == { i \in DOMAIN tree[m].childs : tree[m].childs[i] = n }
    IN  p \in DOMAIN tree =>
          /\ Cardinality(In(p)) = 1
          /\ \A m \in DOMAIN tree \ {p} : In(m) = {}
          /\ tree[n].flags = TFS_FOLDER => tree[n].path = Append(tree[p].path, tree[n].name)

(***************************************************************************)
(* The shell never waits for vfs_lock.  It runs alone, so that would be    *)
(* for ever; open(node, "/") would return with it held, and the shell      *)
(* treats that argument itself.                                            *)
(***************************************************************************)
LockFree == mode = "run" => ~vfs_lock
=============================================================================
