------------------------------- MODULE MCShell ------------------------------
(***************************************************************************)
(* The shell alone.  entered is the argument of the last command if it was *)
(* a cd, and the node it ran in.                                           *)
(***************************************************************************)
EXTENDS Shell

VARIABLE entered

OneSlash == { <<"", "">> }
NoCd == [arg |-> <<"">>, from |-> nullptr]

Init == ShellInit /\ entered = NoCd

Next ==
  \/ /\ NewTop \/ \E n \in Names, cmd \in {"mkdir", "touch"} : Make(cmd, n)
     /\ entered' = NoCd
  \/ \E a \in Paths \cup { <<n>> : n \in Names } :
       cd(a) /\ entered' = [arg |-> a, from |-> currentNode]

Spec == Init /\ [][Next]_<<shellVars, entered>>

(***************************************************************************)
(* turboShell.cpp:166 reports "No suche file or directory", and 170 "not a *)
(* directory".  So when a cd to a name ends in a directory, without either *)
(* message, it has that name and is in the directory cd ran in.  Not so:   *)
(* open returns the last child for a name it does not find, and may go on  *)
(* to a grandchild behind a name it finds.                                 *)
(***************************************************************************)
EntersNamedDirectory ==
  /\ mode = "run" /\ currentNode \in DOMAIN tree /\ tree[currentNode].flags = TFS_FOLDER
  /\ entered.arg[1] # "" /\ Len(entered.arg) = 1
  => /\ tree[currentNode].name = entered.arg[1]
     /\ tree[currentNode].parent = entered.from
=============================================================================
