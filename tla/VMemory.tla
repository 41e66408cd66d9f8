------------------------------ MODULE VMemory -------------------------------
(***************************************************************************)
(* Page tables, system/memory/vMemory/vMemory.cpp.  CPUs call the          *)
(* operations of page maps; each map has its own lock, but a map made by   *)
(* newPagemap or clonePagemap shares the lower tables of the one it copies.*)
(*                                                                         *)
(* A virtual address is the sequence of its table indices, Depth of them   *)
(* (4 in the source).  An entry is [addr, flags].  Physical pages are      *)
(* numbers; 0 is the null pointer, and a table at 0 is what a failed       *)
(* allocation leads to.  One step is one level of virt2pte, an allocation, *)
(* or one access to an entry: setAddress and setFlags read the entry and   *)
(* write it back, and another map, with a lock of its own, may write it in *)
(* between.                                                                *)
(***************************************************************************)
EXTENDS Integers, FiniteSetsExt

CONSTANTS
  CPUs, Maps,
  Depth, Index,     \* levels, and the indices of a table
  TablePages,       \* pages pMemory::alloc can return
  DataPages,        \* pages that are mapped
  Flags,            \* sets of flags callers pass
  KernelTop,        \* what CR3 holds at boot
  MaxCalls          \* bound on calls

ASSUME VMemoryAssumption ==
  /\ Depth \in Nat \ {0} /\ Index \subseteq Nat /\ Index # {} /\ IsFiniteSet(Maps)
  /\ TablePages \subseteq Nat \ {0} /\ KernelTop \in Nat \ (TablePages \cup {0})
  /\ "free" \notin CPUs

VAddr == [1 .. Depth -> Index]
Empty == [addr |-> 0, flags |-> {}]
EmptyTable == [i \in Index |-> Empty]

VARIABLES
  tables,   \* page -> index -> entry, for the pages in use as tables, and 0
  top,      \* map -> TOPLVL; NoTop while the map does not exist
  locked,   \* map -> holder of its lock, or "free"
  cr3,      \* CPU -> page
  call,     \* CPU -> the call it makes, [op |-> "none"] for none
  at,       \* CPU -> level and table it has come to, the table it adds, and
            \*        the entry it has read
  pc,       \* CPU -> step
  calls,    \* calls made
  lost,     \* two tables were stored in one entry: the mappings of one are gone
  atNull    \* memory ran out and page 0 is used as a table

vars == <<tables, top, locked, cr3, call, at, pc, calls, lost, atNull>>

NoCall == [op |-> "none"]
NoTop == -1
At(level, table) == [level |-> level, table |-> table, new_table |-> 0, seen |-> Empty]
Nowhere == At(0, 0)

\* vMemory::init: kernel_pagemap is made from CR3 and loaded again.
Init ==
  \E kernel \in Maps :
    /\ tables = [p \in {0, KernelTop} |-> EmptyTable]
    /\ top = [m \in Maps |-> IF m = kernel THEN KernelTop ELSE NoTop]
    /\ locked = [m \in Maps |-> "free"]
    /\ cr3 = [c \in CPUs |-> KernelTop]
    /\ call = [c \in CPUs |-> NoCall] /\ at = [c \in CPUs |-> Nowhere]
    /\ pc = [c \in CPUs |-> "idle"]
    /\ calls = 0 /\ lost = FALSE /\ atNull = FALSE

\* getFlag looks at bit 0 whatever flag is asked for.
getFlag(e, flag) == "present" \in e.flags

setFlags(e, flags, enabled) ==
  [e EXCEPT !.flags = IF enabled THEN @ \cup flags ELSE @ \ flags]

Alive == { m \in Maps : top[m] # NoTop }

\* The tables on the way from root to the entry of va: one way, or none.
Ways(t, root, va) ==
  { w \in [1 .. Depth -> DOMAIN t] :
      /\ w[1] = root
      /\ \A k \in 1 .. Depth - 1 :
           getFlag(t[w[k]][va[k]], "present") /\ t[w[k]][va[k]].addr = w[k + 1] }

\* The entry of va below root, or Empty if a table is missing on the way.
Reach(t, root, va) ==
  IF Ways(t, root, va) = {} THEN Empty
  ELSE LET w == CHOOSE x \in Ways(t, root, va) : TRUE IN t[w[Depth]][va[Depth]]

Start(c, rec, step) ==
  /\ pc[c] = "idle" /\ calls < MaxCalls
  /\ calls' = calls + 1
  /\ call' = [call EXCEPT ![c] = rec] /\ pc' = [pc EXCEPT ![c] = step]
  /\ UNCHANGED <<tables, top, locked, cr3, at, lost, atNull>>

\* mapMem; mapUserMem and mapHHMem are mapMem with other flags and addresses.
MapCall(c, m, va, pa, flags) ==
  Start(c, [op |-> "map", m |-> m, va |-> va, pa |-> pa, flags |-> flags], "lock")
UnmapCall(c, m, va) == Start(c, [op |-> "unmap", m |-> m, va |-> va], "lock")
RemapCall(c, m, old, new, flags) ==
  Start(c, [op |-> "remap", m |-> m, va |-> old, new |-> new, pa |-> 0, flags |-> flags], "lock")
FlagsCall(c, m, va, flags, enabled) ==
  Start(c, [op |-> IF enabled THEN "setFlags" ELSE "remFlags", m |-> m, va |-> va, flags |-> flags], "lock")

\* Mutant: the lock is not waited for.
LockAnyway(c) ==
  /\ pc[c] = "lock"
  /\ locked' = [locked EXCEPT ![call[c].m] = c]
  /\ at' = [at EXCEPT ![c] = At(1, top[call[c].m])]
  /\ pc' = [pc EXCEPT ![c] = "walk"]
  /\ UNCHANGED <<tables, top, cr3, call, calls, lost, atNull>>

Lock(c) ==
  /\ pc[c] = "lock" /\ locked[call[c].m] = "free"
  /\ locked' = [locked EXCEPT ![call[c].m] = c]
  /\ at' = [at EXCEPT ![c] = At(1, top[call[c].m])]
  /\ pc' = [pc EXCEPT ![c] = "walk"]
  /\ UNCHANGED <<tables, top, cr3, call, calls, lost, atNull>>

\* Mutant: the index of the level above.
HereAbove(c) == call[c].va[IF at[c].level = 1 THEN 1 ELSE at[c].level - 1]

Here(c) == call[c].va[at[c].level]

Entry(c) == tables[at[c].table][Here(c)]
Written(p, i, e) == tables' = [tables EXCEPT ![p][i] = e]

\* get_next_lvl, line 20.
Follow(c) ==
  /\ pc[c] = "walk" /\ at[c].level < Depth /\ getFlag(Entry(c), "present")
  /\ at' = [at EXCEPT ![c] = At(at[c].level + 1, Entry(c).addr)]
  /\ UNCHANGED <<tables, top, locked, cr3, call, pc, calls, lost, atNull>>

\* pMemory::alloc: the first free page, zeroed; without one, null, and page
\* 0 is zeroed.
Alloc == LET free == TablePages \ DOMAIN tables IN IF free = {} THEN 0 ELSE Min(free)
Zeroed(page) == [p \in DOMAIN tables \cup {page} |-> IF p = page THEN EmptyTable ELSE tables[p]]

\* get_next_lvl, line 23.
Allocate(c) ==
  /\ pc[c] = "walk" /\ at[c].level < Depth /\ ~getFlag(Entry(c), "present")
  /\ tables' = Zeroed(Alloc)
  /\ at' = [at EXCEPT ![c].new_table = Alloc]
  /\ pc' = [pc EXCEPT ![c] = "setAddress"]
  /\ UNCHANGED <<top, locked, cr3, call, calls, lost, atNull>>

Load(c, from, to) ==
  /\ pc[c] = from
  /\ at' = [at EXCEPT ![c].seen = Entry(c)] /\ pc' = [pc EXCEPT ![c] = to]
  /\ UNCHANGED <<tables, top, locked, cr3, call, calls, lost, atNull>>

\* The entry virt2pte returns is read; unmapMem has no use for what it holds.
Leaf(c) ==
  /\ at[c].level = Depth
  /\ \/ call[c].op = "map" /\ Load(c, "walk", "storeAddress")
     \/ call[c].op \in {"setFlags", "remFlags"} /\ Load(c, "walk", "storeFlags")
     \/ call[c].op \in {"unmap", "remap"} /\ Load(c, "walk", "clear")

\* setAddress, of lines 24 (the table that is added) and 59 (the page mapped):
\* whatever the entry holds by now.
LoadAddress(c) == Load(c, "setAddress", "storeAddress")

Address(c) == IF at[c].level < Depth THEN at[c].new_table ELSE call[c].pa

StoreAddress(c) ==
  /\ pc[c] = "storeAddress"
  /\ Written(at[c].table, Here(c), [at[c].seen EXCEPT !.addr = Address(c)])
  /\ lost' = (lost \/ (at[c].level < Depth /\ getFlag(Entry(c), "present")))
  /\ pc' = [pc EXCEPT ![c] = "setFlags"]
  /\ UNCHANGED <<top, locked, cr3, call, at, calls, atNull>>

\* setFlags, of lines 25, 60, 93 and 99.
LoadFlags(c) == Load(c, "setFlags", "storeFlags")

\* Line 25: the table is linked, and virt2pte goes on in it.
LinkTable(c) ==
  /\ pc[c] = "storeFlags" /\ at[c].level < Depth
  /\ Written(at[c].table, Here(c), setFlags(at[c].seen, {"present", "rw", "user"}, TRUE))
  /\ lost' = (lost \/ Entry(c) # at[c].seen \/ at[c].seen.addr # at[c].new_table)
  /\ atNull' = (atNull \/ at[c].new_table = 0)
  /\ at' = [at EXCEPT ![c] = At(at[c].level + 1, at[c].new_table)]
  /\ pc' = [pc EXCEPT ![c] = "walk"]
  /\ UNCHANGED <<top, locked, cr3, call, calls>>

\* Lines 60, 93 and 99: a flag that the entry has stays, mapMem takes none away.
LeafFlags(c) ==
  /\ pc[c] = "storeFlags" /\ at[c].level = Depth
  /\ Written(at[c].table, Here(c), setFlags(at[c].seen, call[c].flags, call[c].op # "remFlags"))
  /\ pc' = [pc EXCEPT ![c] = "unlock"]
  /\ UNCHANGED <<top, locked, cr3, call, at, calls, lost, atNull>>

\* Lines 69 and 86.
Clear(c) ==
  /\ pc[c] = "clear"
  /\ Written(at[c].table, Here(c), Empty)
  /\ call' = IF call[c].op = "remap" THEN [call EXCEPT ![c].pa = at[c].seen.addr] ELSE call
  /\ pc' = [pc EXCEPT ![c] = "unlock"]
  /\ UNCHANGED <<top, locked, cr3, at, calls, lost, atNull>>

\* remapMem goes on with mapMem, which takes the lock again.
Unlock(c) ==
  /\ pc[c] = "unlock"
  /\ locked' = [locked EXCEPT ![call[c].m] = "free"]
  /\ at' = [at EXCEPT ![c] = Nowhere]
  /\ IF call[c].op = "remap"
       THEN /\ call' = [call EXCEPT ![c] = [op |-> "map", m |-> @.m, va |-> @.new, pa |-> @.pa, flags |-> @.flags]]
            /\ pc' = [pc EXCEPT ![c] = "lock"]
       ELSE call' = [call EXCEPT ![c] = NoCall] /\ pc' = [pc EXCEPT ![c] = "idle"]
  /\ UNCHANGED <<tables, top, cr3, calls, lost, atNull>>

-----------------------------------------------------------------------------
\* newPagemap (from the kernel's map) and clonePagemap: no lock is taken.
CopyCall(c, old, m) ==
  Start(c, [op |-> "copy", old |-> old, m |-> m, left |-> Index], "alloc") /\ top[m] = NoTop
    /\ \A d \in CPUs : call[d].op = "copy" => call[d].m # m

CopyAlloc(c) ==
  /\ pc[c] = "alloc"
  /\ tables' = Zeroed(Alloc)
  /\ at' = [at EXCEPT ![c].table = Alloc]
  /\ pc' = [pc EXCEPT ![c] = "copy"]
  /\ UNCHANGED <<top, locked, cr3, call, calls, lost, atNull>>

\* One turn of the loop of lines 146-148 or 160-162.
CopyEntry(c) ==
  /\ pc[c] = "copy" /\ call[c].left # {}
  /\ LET i == CHOOSE x \in call[c].left : \A y \in call[c].left : x <= y
     IN  /\ tables' = [tables EXCEPT ![at[c].table][i] = tables[top[call[c].old]][i]]
         /\ call' = [call EXCEPT ![c].left = @ \ {i}]
  /\ UNCHANGED <<top, locked, cr3, at, pc, calls, lost, atNull>>

\* The map is returned; without memory its top level is null, and is used all
\* the same (createProc, switchTask).
CopyDone(c) ==
  /\ pc[c] = "copy" /\ call[c].left = {}
  /\ top' = [top EXCEPT ![call[c].m] = at[c].table]
  /\ call' = [call EXCEPT ![c] = NoCall] /\ at' = [at EXCEPT ![c] = Nowhere]
  /\ pc' = [pc EXCEPT ![c] = "idle"]
  /\ atNull' = (atNull \/ at[c].table = 0)
  /\ UNCHANGED <<tables, locked, cr3, calls, lost>>

switchPagemap(c, m) ==
  /\ pc[c] = "idle" /\ calls < MaxCalls
  /\ cr3' = [cr3 EXCEPT ![c] = top[m]] /\ calls' = calls + 1
  /\ UNCHANGED <<tables, top, locked, call, at, pc, lost, atNull>>

Calls(c) ==
  \E m \in Alive :
    \/ \E va \in VAddr :
         \/ \E pa \in DataPages, flags \in Flags : MapCall(c, m, va, pa, flags)
         \/ UnmapCall(c, m, va)
         \/ \E new \in VAddr \ {va}, flags \in Flags : RemapCall(c, m, va, new, flags)
         \/ \E flags \in Flags, enabled \in BOOLEAN : FlagsCall(c, m, va, flags, enabled)
    \/ \E new \in Maps : CopyCall(c, m, new)
    \/ switchPagemap(c, m)

Next ==
  \E c \in CPUs :
    \/ Calls(c) \/ Lock(c) \/ Follow(c) \/ Allocate(c) \/ Leaf(c) \/ LoadAddress(c) \/ StoreAddress(c)
    \/ LoadFlags(c) \/ LinkTable(c) \/ LeafFlags(c) \/ Clear(c) \/ Unlock(c)
    \/ CopyAlloc(c) \/ CopyEntry(c) \/ CopyDone(c)

Spec == Init /\ [][Next]_vars

-----------------------------------------------------------------------------
\* Calls on two maps that share tables may store two tables in one entry.
Lossy == lost /\ Cardinality(Alive) > 1

\* A call on another map has changed the entry between lines 59 and 60.
Overtaken(c) == at[c].seen.addr # call[c].pa /\ Cardinality(Alive) > 1

(***************************************************************************)
(* When mapMem has changed its entry, the address translates to the page   *)
(* with the flags asked for, in the map the call was for: the tables made  *)
(* on the way are connected, and with one map its lock keeps other calls   *)
(* from the entries it reads and writes back.  It may fail only when a     *)
(* second map that shares tables, with a lock of its own, has lost one or  *)
(* has written the entry in the middle of the call, or memory ran out.     *)
(***************************************************************************)
MapTakesEffect ==
  [][\A c \in CPUs :
       LET k == call[c]
           e == Reach(tables', top[k.m], k.va)
       IN  pc[c] = "storeFlags" /\ pc'[c] = "unlock" /\ k.op = "map" /\ ~Lossy /\ ~atNull /\ ~Overtaken(c) =>
             e.addr = k.pa /\ k.flags \subseteq e.flags]_vars

(***************************************************************************)
(* No step changes how an address translates that no call in progress      *)
(* names, in any map, also not through the tables maps share, unless a     *)
(* second map has lost a table or memory ran out.                          *)
(***************************************************************************)
OnlyItsAddress ==
  [][tables' # tables /\ ~Lossy' /\ ~atNull' =>
       \A m \in Alive, va \in VAddr :
         Reach(tables', top[m], va) # Reach(tables, top[m], va) =>
           \E c \in CPUs : call[c].op \notin {"none", "copy"} /\ call[c].va = va]_vars
=============================================================================
