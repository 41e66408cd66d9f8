--------------------------- MODULE VMemoryProofs ---------------------------
(***************************************************************************)
(* What the page maps promise, for every number of CPUs and maps, every    *)
(* depth and width of the tables and any number of calls: a mapping takes  *)
(* effect, and no other address is touched.                                *)
(*                                                                         *)
(* Every table has a place: a level lv and the indices ix that lead to it. *)
(* Maps that share a table share it at the same place, because newPagemap  *)
(* and clonePagemap copy entry i to entry i.  All of this holds until the  *)
(* first table is stored over another or at page 0; from then on nothing   *)
(* is promised (Broken).  An entry is read and written back in two steps:  *)
(* with one map its lock keeps every other call away from it (Fresh), with *)
(* several it may change in between (Overtaken).                           *)
(***************************************************************************)
EXTENDS VMemory, FiniteSetTheorems, WellFoundedInduction, TLAPS

Ops == {"map", "unmap", "remap", "setFlags", "remFlags"}
Accesses == {"setAddress", "storeAddress", "setFlags", "storeFlags"}
InWalk == {"walk", "clear"} \cup Accesses
InSection == InWalk \cup {"unlock"}
Steps == {"idle", "lock", "alloc", "copy"} \cup InSection
FlagNames == {"present", "rw", "user"} \cup UNION Flags
TableAddrs == TablePages \cup {0, KernelTop}
Addrs == DataPages \cup TableAddrs
EntryType == [addr : Addrs, flags : SUBSET FlagNames]
AtType == [level : 0 .. Depth, table : TableAddrs, new_table : TablePages \cup {0}, seen : EntryType]
Pages == DOMAIN tables \ {0}
Several == \E m, n \in Alive : m # n
Copying(c) == pc[c] \in {"alloc", "copy"}
Adding(c) == pc[c] \in Accesses /\ at[c].level < Depth
Broken == atNull \/ (lost /\ Several)

-----------------------------------------------------------------------------
\* Two copies never make the same map, and only a map that does not exist.
CopyInv ==
  /\ DOMAIN top = Maps
  /\ DOMAIN call = CPUs /\ DOMAIN pc = CPUs
  /\ \A c \in CPUs : Copying(c) =>
       /\ call[c].op = "copy" /\ call[c].m \in Maps /\ top[call[c].m] = NoTop
       /\ DOMAIN call[c] = {"op", "old", "m", "left"}
       /\ \A d \in CPUs : d # c /\ Copying(d) => call[d].m # call[c].m

\* The arguments of a call that changes entries.
Args(r) ==
  /\ r.op \in Ops /\ r.m \in Alive /\ r.va \in VAddr
  /\ r.op = "map" => r.pa \in Addrs /\ r.flags \in Flags
  /\ r.op \in {"setFlags", "remFlags"} => r.flags \in Flags
  /\ r.op = "remap" =>
       /\ DOMAIN r = {"op", "m", "va", "new", "pa", "flags"}
       /\ r.new \in VAddr /\ r.pa \in Addrs /\ r.flags \in Flags

TableTypes ==
  /\ 0 \in DOMAIN tables /\ DOMAIN tables \subseteq TableAddrs
  /\ tables \in [DOMAIN tables -> [Index -> EntryType]]

StateTypes ==
  /\ top \in [Maps -> TableAddrs \cup {NoTop}]
  /\ locked \in [Maps -> CPUs \cup {"free"}]
  /\ at \in [CPUs -> AtType]
  /\ pc \in [CPUs -> Steps]

\* A CPU between lock and unlock holds the lock of its map, which exists.
CallInv ==
  \A c \in CPUs :
    /\ pc[c] \in InSection \cup {"lock"} => Args(call[c])
    /\ pc[c] \in InSection => locked[call[c].m] = c
    /\ Copying(c) => call[c].old \in Alive /\ call[c].left \subseteq Index

Linked(lv, p, i) == lv[p] < Depth /\ getFlag(tables[p][i], "present")

\* An entry above the last level leads to the place its index says.
Links(lv, ix) ==
  \A p \in Pages, i \in Index : Linked(lv, p, i) =>
    /\ tables[p][i].addr \in Pages
    /\ lv[tables[p][i].addr] = lv[p] + 1
    /\ ix[tables[p][i].addr][lv[p]] = i
    /\ \A k \in 1 .. lv[p] - 1 : ix[tables[p][i].addr][k] = ix[p][k]

Tops(lv) == \A m \in Alive : top[m] \in Pages /\ lv[top[m]] = 1

\* w is the way from the top of its map to the table c has come to.
Leads(lv, c, w) ==
  /\ w \in [1 .. at[c].level -> Pages]
  /\ w[1] = top[call[c].m] /\ w[at[c].level] = at[c].table
  /\ \A k \in 1 .. at[c].level : lv[w[k]] = k
  /\ \A k \in 1 .. at[c].level - 1 :
       /\ getFlag(tables[w[k]][call[c].va[k]], "present")
       /\ tables[w[k]][call[c].va[k]].addr = w[k + 1]

\* What the calls do at the last level.
AtLeaf(c) ==
  /\ pc[c] = "setAddress" => at[c].level < Depth
  /\ pc[c] \in {"storeAddress", "setFlags"} /\ at[c].level = Depth => call[c].op = "map"
  /\ pc[c] = "storeFlags" /\ at[c].level = Depth => call[c].op \in {"map", "setFlags", "remFlags"}
  /\ pc[c] = "clear" => at[c].level = Depth /\ call[c].op \in {"unmap", "remap"}

\* The table a walk has come to is at the place its address says.
Walker(lv, ix, c) ==
  pc[c] \in InWalk =>
    /\ at[c].level \in 1 .. Depth /\ at[c].table \in Pages
    /\ lv[at[c].table] = at[c].level
    /\ \A k \in 1 .. at[c].level - 1 : ix[at[c].table][k] = call[c].va[k]
    /\ AtLeaf(c)
    /\ \E w : Leads(lv, c, w)

Unlinked(lv, q) == \A p \in Pages, i \in Index : Linked(lv, p, i) => tables[p][i].addr # q

\* A table about to be linked is empty and c's own.  An entry that was linked
\* when c read it still is.
Storer(lv, ix, c) ==
  Adding(c) =>
    /\ pc[c] = "storeAddress" /\ getFlag(at[c].seen, "present") => getFlag(Entry(c), "present")
    /\ at[c].new_table # 0 =>
         /\ at[c].new_table \in Pages /\ tables[at[c].new_table] = EmptyTable
         /\ lv[at[c].new_table] = at[c].level + 1
         /\ \A k \in 1 .. at[c].level : ix[at[c].new_table][k] = call[c].va[k]
         /\ Unlinked(lv, at[c].new_table)
         /\ \A d \in CPUs : d # c /\ Adding(d) => at[d].new_table # at[c].new_table

\* The top of a map that is being made belongs to no map and no other copy.
Copier(lv, c) ==
  pc[c] = "copy" /\ at[c].table # 0 =>
    /\ at[c].table \in Pages /\ lv[at[c].table] = 1
    /\ \A m \in Maps : top[m] # at[c].table
    /\ \A d \in CPUs : d # c /\ pc[d] = "copy" => at[d].table # at[c].table

Places(lv, ix) == lv \in [Pages -> 1 .. Depth] /\ ix \in [Pages -> VAddr]

Shape(lv, ix) ==
  /\ Places(lv, ix) /\ Links(lv, ix) /\ Tops(lv)
  /\ \A c \in CPUs : Walker(lv, ix, c) /\ Storer(lv, ix, c) /\ Copier(lv, c)

\* With one map, a call finds its entry as it left it.
Addresses(c) == at[c].level < Depth \/ call[c].op = "map"

Alone(c) ==
  /\ Adding(c) => ~getFlag(Entry(c), "present")
  /\ pc[c] = "setFlags" /\ Addresses(c) => Entry(c).addr = Address(c)
  /\ pc[c] = "storeFlags" => Entry(c) = at[c].seen /\ (Addresses(c) => at[c].seen.addr = Address(c))

Fresh == Several \/ \A c \in CPUs : Alone(c)

Good ==
  /\ ~lost /\ ~atNull /\ TableTypes /\ StateTypes /\ CallInv /\ Fresh
  /\ \E lv, ix : Shape(lv, ix)

IInv == CopyInv /\ (Broken \/ Good)

-----------------------------------------------------------------------------
\* A set of natural numbers that is not empty has a least element.
LEMMA LeastExists ==
  ASSUME NEW T, T \subseteq Nat, T # {}
  PROVE  \E x \in T : \A y \in T : x <= y
<1>1. PICK x \in T : \A y \in T : ~(<<y, x>> \in OpToRel(<, Nat))
  BY NatLessThanWellFounded, WFMin
<1>2. \A y \in T : ~(y < x)
  BY <1>1, Zenon DEF OpToRel
<1> QED
  BY <1>2

\* pMemory::alloc returns a page that is not in use, or null.
LEMMA AllocFresh == Alloc = 0 \/ Alloc \in TablePages \ DOMAIN tables
<1> DEFINE free == TablePages \ DOMAIN tables
<1>1. CASE free = {}
  BY <1>1 DEF Alloc
<1>2. CASE free # {}
  <2>1. free \subseteq Nat
    BY VMemoryAssumption
  <2>2. \E x \in free : \A y \in free : x <= y
    BY <1>2, <2>1, LeastExists
  <2>3. Min(free) \in free
    BY <2>2 DEF Min
  <2> QED
    BY <1>2, <2>3 DEF Alloc
<1> QED
  BY <1>1, <1>2

-----------------------------------------------------------------------------
\* Once the tables are broken they stay so: maps do not vanish.
LEMMA MapsStay ==
  ASSUME CopyInv, [Next]_vars
  PROVE  \A m \in Alive : m \in Alive' /\ top'[m] = top[m]
<1>1. CASE UNCHANGED top
  BY <1>1 DEF Alive
<1>2. ASSUME NEW c \in CPUs, CopyDone(c)
      PROVE  \A m \in Alive : m \in Alive' /\ top'[m] = top[m]
  <2>1. top' = [top EXCEPT ![call[c].m] = at[c].table] /\ pc[c] = "copy"
    BY <1>2 DEF CopyDone
  <2>2. DOMAIN top = Maps /\ top[call[c].m] = NoTop
    BY <2>1 DEF CopyInv, Copying
  <2>3. ASSUME NEW m \in Maps, top[m] # NoTop PROVE top'[m] = top[m]
    BY <2>1, <2>2, <2>3
  <2> QED
    BY <2>3 DEF Alive
<1>3. ASSUME NEW c \in CPUs, Calls(c) PROVE UNCHANGED top
  BY <1>3 DEF Calls, MapCall, UnmapCall, RemapCall, FlagsCall, CopyCall, Start, switchPagemap
<1>4. ASSUME NEW c \in CPUs,
             \/ Lock(c) \/ Follow(c) \/ Allocate(c) \/ Leaf(c) \/ LoadAddress(c) \/ StoreAddress(c)
             \/ LoadFlags(c) \/ LinkTable(c) \/ LeafFlags(c) \/ Clear(c) \/ Unlock(c)
             \/ CopyAlloc(c) \/ CopyEntry(c)
      PROVE  UNCHANGED top
  BY <1>4 DEF Lock, Follow, Allocate, Leaf, Load, LoadAddress, StoreAddress, LoadFlags, LinkTable, LeafFlags, Clear,
     Unlock, CopyAlloc, CopyEntry
<1> QED
  BY <1>1, <1>2, <1>3, <1>4 DEF Next, vars

LEMMA BrokenStays ==
  ASSUME CopyInv, [Next]_vars, Broken
  PROVE  Broken'
<1>1. Several => Several'
  BY MapsStay DEF Several
<1>2. (atNull => atNull') /\ (lost => lost')
  <2>1. CASE UNCHANGED <<lost, atNull>>
    BY <2>1
  <2>2. ASSUME NEW c \in CPUs, StoreAddress(c) \/ LinkTable(c) \/ CopyDone(c)
        PROVE  (atNull => atNull') /\ (lost => lost')
    <3>1. CASE StoreAddress(c)
      BY <3>1, Zenon DEF StoreAddress
    <3>2. CASE LinkTable(c)
      BY <3>2, Zenon DEF LinkTable
    <3>3. CASE CopyDone(c)
      BY <3>3, Zenon DEF CopyDone
    <3> QED
      BY <2>2, <3>1, <3>2, <3>3
  <2>3. ASSUME NEW c \in CPUs, Calls(c) PROVE UNCHANGED <<lost, atNull>>
    BY <2>3 DEF Calls, MapCall, UnmapCall, RemapCall, FlagsCall, CopyCall, Start, switchPagemap
  <2>4. ASSUME NEW c \in CPUs,
               \/ Lock(c) \/ Follow(c) \/ Allocate(c) \/ Leaf(c) \/ LoadAddress(c) \/ LoadFlags(c)
               \/ LeafFlags(c) \/ Clear(c) \/ Unlock(c) \/ CopyAlloc(c) \/ CopyEntry(c)
        PROVE  UNCHANGED <<lost, atNull>>
    BY <2>4 DEF Lock, Follow, Allocate, Leaf, Load, LoadAddress, LoadFlags, LeafFlags, Clear, Unlock,
       CopyAlloc, CopyEntry
  <2> QED
    BY <2>1, <2>2, <2>3, <2>4 DEF Next, vars
<1> QED
  BY <1>1, <1>2 DEF Broken

\* A step of c that makes no copy leaves the copies of the others alone.
LEMMA OthersCopy ==
  ASSUME CopyInv, NEW c \in CPUs, DOMAIN call' = CPUs, DOMAIN pc' = CPUs, top' = top,
         \A d \in CPUs : d # c => call'[d] = call[d] /\ pc'[d] = pc[d],
         pc'[c] \notin {"alloc", "copy"}
  PROVE  CopyInv'
<1>1. \A d \in CPUs : Copying(d)' => d # c /\ Copying(d) /\ call'[d] = call[d]
  BY DEF Copying
<1>2. ASSUME NEW d \in CPUs, Copying(d)'
      PROVE  /\ call'[d].op = "copy" /\ call'[d].m \in Maps /\ top'[call'[d].m] = NoTop
             /\ DOMAIN call'[d] = {"op", "old", "m", "left"}
             /\ \A x \in CPUs : x # d /\ Copying(x)' => call'[x].m # call'[d].m
  BY <1>1, <1>2 DEF CopyInv
<1> QED
  BY <1>2 DEF CopyInv

LEMMA CopyKept ==
  ASSUME CopyInv, [Next]_vars
  PROVE  CopyInv'
<1>0. DOMAIN top = Maps /\ DOMAIN call = CPUs /\ DOMAIN pc = CPUs
  BY DEF CopyInv
<1>1. CASE UNCHANGED vars
  BY <1>1 DEF vars, CopyInv, Copying
<1>2. ASSUME NEW c \in CPUs, Calls(c) PROVE CopyInv'
  <2>1. CASE \E m \in Alive : switchPagemap(c, m)
    BY <2>1 DEF switchPagemap, CopyInv, Copying
  <2>2. CASE \E rec : Start(c, rec, "lock")
    <3>1. PICK rec : Start(c, rec, "lock")
      BY <2>2
    <3>2. /\ call' = [call EXCEPT ![c] = rec] /\ pc' = [pc EXCEPT ![c] = "lock"] /\ top' = top
      BY <3>1 DEF Start
    <3> QED
      BY <1>0, <3>2, OthersCopy
  <2>3. ASSUME NEW old \in Alive, NEW m \in Maps, CopyCall(c, old, m) PROVE CopyInv'
    <3> DEFINE rec == [op |-> "copy", old |-> old, m |-> m, left |-> Index]
    <3>1. /\ call' = [call EXCEPT ![c] = rec] /\ pc' = [pc EXCEPT ![c] = "alloc"] /\ top' = top
          /\ top[m] = NoTop /\ \A d \in CPUs : call[d].op = "copy" => call[d].m # m
      BY <2>3 DEF CopyCall, Start
    <3>2. /\ rec.op = "copy" /\ rec.m = m /\ DOMAIN rec = {"op", "old", "m", "left"}
      OBVIOUS
    <3> HIDE DEF rec
    <3>3. /\ DOMAIN top' = Maps /\ DOMAIN call' = CPUs /\ DOMAIN pc' = CPUs
          /\ call'[c] = rec /\ pc'[c] = "alloc"
          /\ \A d \in CPUs : d # c => call'[d] = call[d] /\ pc'[d] = pc[d]
      BY <1>0, <3>1
    <3>4. \A d \in CPUs : d # c /\ Copying(d)' => Copying(d) /\ call'[d] = call[d] /\ call[d].m # m
      BY <3>1, <3>3 DEF Copying, CopyInv
    <3>5. ASSUME NEW d \in CPUs, Copying(d)'
          PROVE  /\ call'[d].op = "copy" /\ call'[d].m \in Maps /\ top'[call'[d].m] = NoTop
                 /\ DOMAIN call'[d] = {"op", "old", "m", "left"}
                 /\ \A x \in CPUs : x # d /\ Copying(x)' => call'[x].m # call'[d].m
      <4>1. CASE d = c
        BY <3>1, <3>2, <3>3, <3>4, <4>1
      <4>2. CASE d # c
        <5>1. Copying(d) /\ call'[d] = call[d] /\ call[d].m # m
          BY <3>4, <3>5, <4>2
        <5>2. /\ call[d].op = "copy" /\ call[d].m \in Maps /\ top[call[d].m] = NoTop
              /\ DOMAIN call[d] = {"op", "old", "m", "left"}
              /\ \A x \in CPUs : x # d /\ Copying(x) => call[x].m # call[d].m
          BY <5>1 DEF CopyInv
        <5>3. \A x \in CPUs : x # d /\ Copying(x)' => call'[x].m # call'[d].m
          BY <3>2, <3>3, <3>4, <5>1, <5>2
        <5> QED
          BY <3>1, <5>1, <5>2, <5>3
      <4> QED
        BY <4>1, <4>2
    <3> QED
      BY <3>3, <3>5 DEF CopyInv
  <2> QED
    BY <1>2, <2>1, <2>2, <2>3 DEF Calls, MapCall, UnmapCall, RemapCall, FlagsCall
<1>3. ASSUME NEW c \in CPUs,
             \/ Lock(c) \/ Follow(c) \/ Allocate(c) \/ Leaf(c) \/ LoadAddress(c) \/ StoreAddress(c)
             \/ LoadFlags(c) \/ LinkTable(c) \/ LeafFlags(c) \/ Clear(c) \/ Unlock(c)
      PROVE  CopyInv'
  <2>1. /\ DOMAIN call' = CPUs /\ DOMAIN pc' = CPUs /\ top' = top
        /\ \A d \in CPUs : d # c => call'[d] = call[d] /\ pc'[d] = pc[d]
    BY <1>0, <1>3 DEF Lock, Follow, Allocate, Leaf, Load, LoadAddress, StoreAddress, LoadFlags, LinkTable,
       LeafFlags, Clear, Unlock
  <2>2. pc'[c] \notin {"alloc", "copy"}
    BY <1>0, <1>3 DEF Lock, Follow, Allocate, Leaf, Load, LoadAddress, StoreAddress, LoadFlags, LinkTable,
       LeafFlags, Clear, Unlock
  <2> QED
    BY <2>1, <2>2, OthersCopy
<1>4. ASSUME NEW c \in CPUs, CopyAlloc(c) PROVE CopyInv'
  <2>1. /\ call' = call /\ top' = top /\ pc' = [pc EXCEPT ![c] = "copy"] /\ pc[c] = "alloc"
    BY <1>4 DEF CopyAlloc
  <2>2. DOMAIN pc' = CPUs /\ \A d \in CPUs : Copying(d)' <=> Copying(d)
    BY <1>0, <2>1 DEF Copying
  <2> QED
    BY <2>1, <2>2 DEF CopyInv
<1>5. ASSUME NEW c \in CPUs, CopyEntry(c) PROVE CopyInv'
  <2>1. PICK i : /\ call' = [call EXCEPT ![c].left = @ \ {i}] /\ top' = top /\ pc' = pc
                 /\ pc[c] = "copy"
    BY <1>5 DEF CopyEntry
  <2>2. call[c].op = "copy" /\ DOMAIN call[c] = {"op", "old", "m", "left"}
    BY <2>1 DEF CopyInv, Copying
  <2>3. /\ call'[c].op = call[c].op /\ call'[c].m = call[c].m /\ DOMAIN call'[c] = DOMAIN call[c]
        /\ DOMAIN call' = CPUs
    BY <1>0, <2>1, <2>2
  <2>4. \A d \in CPUs : d # c => call'[d] = call[d]
    BY <1>0, <2>1
  <2>5. \A d \in CPUs : /\ call'[d].op = call[d].op \/ ~Copying(d)
                        /\ call'[d].m = call[d].m \/ ~Copying(d)
                        /\ DOMAIN call'[d] = DOMAIN call[d]
                        /\ Copying(d)' <=> Copying(d)
    BY <2>1, <2>3, <2>4 DEF Copying
  <2> QED
    BY <2>1, <2>3, <2>5 DEF CopyInv
<1>6. ASSUME NEW c \in CPUs, CopyDone(c) PROVE CopyInv'
  <2>1. /\ top' = [top EXCEPT ![call[c].m] = at[c].table] /\ call' = [call EXCEPT ![c] = NoCall]
        /\ pc' = [pc EXCEPT ![c] = "idle"] /\ pc[c] = "copy"
    BY <1>6 DEF CopyDone
  <2>2. /\ DOMAIN top' = Maps /\ DOMAIN call' = CPUs /\ DOMAIN pc' = CPUs /\ pc'[c] = "idle"
        /\ \A d \in CPUs : d # c => call'[d] = call[d] /\ pc'[d] = pc[d]
    BY <1>0, <2>1
  <2>3. \A d \in CPUs : Copying(d)' => d # c /\ Copying(d) /\ call'[d] = call[d]
    BY <2>2 DEF Copying
  <2>4. Copying(c) /\ \A m \in Maps : m # call[c].m => top'[m] = top[m]
    BY <1>0, <2>1 DEF Copying
  <2>5. ASSUME NEW d \in CPUs, Copying(d)'
        PROVE  /\ call'[d].op = "copy" /\ call'[d].m \in Maps /\ top'[call'[d].m] = NoTop
               /\ DOMAIN call'[d] = {"op", "old", "m", "left"}
               /\ \A x \in CPUs : x # d /\ Copying(x)' => call'[x].m # call'[d].m
    BY <2>3, <2>4, <2>5 DEF CopyInv
  <2> QED
    BY <2>2, <2>5 DEF CopyInv
<1> QED
  BY <1>1, <1>2, <1>3, <1>4, <1>5, <1>6 DEF Next

-----------------------------------------------------------------------------
\* Where a walk is: at a table of its level, at an index of it.
LEMMA WalkerPlace ==
  ASSUME StateTypes, CallInv, NEW lv, NEW ix, NEW c \in CPUs, Walker(lv, ix, c),
         pc[c] \in InWalk
  PROVE  /\ at[c].level \in 1 .. Depth /\ at[c].table \in Pages /\ lv[at[c].table] = at[c].level
         /\ call[c].va \in VAddr /\ Here(c) \in Index /\ call[c].m \in Alive /\ call[c].m \in Maps
         /\ locked[call[c].m] = c
<1>1. /\ at[c].level \in 1 .. Depth /\ at[c].table \in Pages /\ lv[at[c].table] = at[c].level
  BY DEF Walker
<1>2. call[c].va \in VAddr /\ call[c].m \in Alive /\ locked[call[c].m] = c
  BY DEF CallInv, InSection, Args
<1>3. Here(c) \in Index
  BY <1>1, <1>2 DEF Here, VAddr
<1>4. call[c].m \in Maps
  BY <1>2 DEF Alive
<1> QED
  BY <1>1, <1>2, <1>3, <1>4

\* No walk has come to a table that is not linked yet.
LEMMA NotNew ==
  ASSUME StateTypes, CallInv, NEW lv, NEW ix, Places(lv, ix), NEW c \in CPUs, NEW d \in CPUs,
         Walker(lv, ix, c), Walker(lv, ix, d), Storer(lv, ix, d),
         pc[c] \in InWalk, Adding(d), at[d].new_table # 0
  PROVE  at[c].table # at[d].new_table
<1>1. PICK w : Leads(lv, c, w)
  BY DEF Walker
<1>2. /\ at[c].level \in 1 .. Depth /\ Depth \in Nat /\ at[c].level \in Nat
  BY WalkerPlace, VMemoryAssumption
<1>3. /\ at[d].level \in Nat /\ at[d].level >= 1 /\ lv[at[d].new_table] = at[d].level + 1
      /\ Unlinked(lv, at[d].new_table)
  <2>1. pc[d] \in InWalk
    BY DEF Adding, InWalk
  <2>2. at[d].level \in 1 .. Depth
    BY <2>1, WalkerPlace
  <2> QED
    BY <2>2, VMemoryAssumption DEF Storer
<1>4. lv[at[c].table] = at[c].level
  BY WalkerPlace
<1>5. CASE at[c].level = 1
  BY <1>3, <1>4, <1>5
<1>6. CASE at[c].level # 1
  <2> DEFINE k == at[c].level - 1
  <2>1. k \in 1 .. at[c].level - 1 /\ k \in 1 .. at[c].level /\ k + 1 = at[c].level /\ k < Depth /\ k \in 1 .. Depth
    BY <1>2, <1>6
  <2> HIDE DEF k
  <2>2. /\ w[k] \in Pages /\ lv[w[k]] = k /\ getFlag(tables[w[k]][call[c].va[k]], "present")
        /\ tables[w[k]][call[c].va[k]].addr = at[c].table
    BY <1>1, <2>1 DEF Leads
  <2>3. call[c].va[k] \in Index
    BY <2>1, WalkerPlace DEF VAddr
  <2>4. Linked(lv, w[k], call[c].va[k])
    BY <2>1, <2>2 DEF Linked
  <2> QED
    BY <1>3, <2>2, <2>3, <2>4 DEF Unlinked
<1> QED
  BY <1>5, <1>6

\* No way leads through a map that is being made.
LEMMA OffCopy ==
  ASSUME StateTypes, CallInv, NEW lv, NEW ix, NEW c \in CPUs, NEW d \in CPUs,
         Walker(lv, ix, c), pc[c] \in InWalk, NEW w, Leads(lv, c, w),
         Copier(lv, d), pc[d] = "copy", at[d].table # 0, NEW k \in 1 .. at[c].level
  PROVE  w[k] # at[d].table
<1>1. lv[w[k]] = k /\ w[1] = top[call[c].m] /\ call[c].m \in Maps
  BY WalkerPlace DEF Leads
<1>2. lv[at[d].table] = 1 /\ \A m \in Maps : top[m] # at[d].table
  BY DEF Copier
<1> QED
  BY <1>1, <1>2

-----------------------------------------------------------------------------
\* What a step must leave alone, so that d can go on.
LEMMA WalkerStays ==
  ASSUME NEW lv, NEW ix, NEW lv2, NEW ix2, NEW d \in CPUs, Walker(lv, ix, d),
         pc'[d] \in InWalk =>
           /\ pc[d] \in InWalk /\ call'[d] = call[d] /\ AtLeaf(d)'
           /\ at'[d].level = at[d].level /\ at'[d].table = at[d].table,
         \A p \in Pages : p \in Pages' /\ lv2[p] = lv[p] /\ ix2[p] = ix[p],
         pc[d] \in InWalk => top'[call[d].m] = top[call[d].m],
         \A w : pc[d] \in InWalk /\ Leads(lv, d, w) =>
           \A k \in 1 .. at[d].level - 1 : tables'[w[k]][call[d].va[k]] = tables[w[k]][call[d].va[k]]
  PROVE  Walker(lv2, ix2, d)'
<1>1. SUFFICES ASSUME pc'[d] \in InWalk PROVE Walker(lv2, ix2, d)'
  BY DEF Walker
<1>2. /\ pc[d] \in InWalk /\ call'[d] = call[d] /\ AtLeaf(d)'
      /\ at'[d].level = at[d].level /\ at'[d].table = at[d].table
  BY <1>1
<1>3. /\ at[d].level \in 1 .. Depth /\ at[d].table \in Pages /\ lv[at[d].table] = at[d].level
      /\ \A k \in 1 .. at[d].level - 1 : ix[at[d].table][k] = call[d].va[k]
  BY <1>2 DEF Walker
<1>4. PICK w : Leads(lv, d, w)
  BY <1>2 DEF Walker
<1>5. /\ w \in [1 .. at[d].level -> Pages] /\ w[1] = top[call[d].m] /\ w[at[d].level] = at[d].table
      /\ \A k \in 1 .. at[d].level : lv[w[k]] = k
      /\ \A k \in 1 .. at[d].level - 1 :
           /\ getFlag(tables[w[k]][call[d].va[k]], "present")
           /\ tables[w[k]][call[d].va[k]].addr = w[k + 1]
  BY <1>4 DEF Leads
<1>6. w \in [1 .. at[d].level -> Pages'] /\ \A k \in 1 .. at[d].level : lv2[w[k]] = k
  BY <1>5
<1>7. \A k \in 1 .. at[d].level - 1 :
        /\ getFlag(tables'[w[k]][call[d].va[k]], "present")
        /\ tables'[w[k]][call[d].va[k]].addr = w[k + 1]
  <2>1. \A k \in 1 .. at[d].level - 1 : tables'[w[k]][call[d].va[k]] = tables[w[k]][call[d].va[k]]
    BY <1>2, <1>4, Zenon
  <2>2. SUFFICES ASSUME NEW k \in 1 .. at[d].level - 1
                 PROVE  /\ getFlag(tables'[w[k]][call[d].va[k]], "present")
                        /\ tables'[w[k]][call[d].va[k]].addr = w[k + 1]
    BY Zenon
  <2>3. /\ getFlag(tables[w[k]][call[d].va[k]], "present")
        /\ tables[w[k]][call[d].va[k]].addr = w[k + 1]
    BY <1>5, Zenon
  <2> QED
    BY <2>1, <2>3, Zenon DEF getFlag
<1>8. Leads(lv2, d, w)'
  BY <1>2, <1>5, <1>6, <1>7 DEF Leads, getFlag
<1> QED
  BY <1>2, <1>3, <1>8 DEF Walker

LEMMA WalkerKept ==
  ASSUME NEW lv, NEW ix, NEW lv2, NEW ix2, NEW d \in CPUs, Walker(lv, ix, d),
         at'[d] = at[d], call'[d] = call[d], pc'[d] = pc[d],
         \A p \in Pages : p \in Pages' /\ lv2[p] = lv[p] /\ ix2[p] = ix[p],
         pc[d] \in InWalk => top'[call[d].m] = top[call[d].m],
         \A w : pc[d] \in InWalk /\ Leads(lv, d, w) =>
           \A k \in 1 .. at[d].level - 1 : tables'[w[k]][call[d].va[k]] = tables[w[k]][call[d].va[k]]
  PROVE  Walker(lv2, ix2, d)'
<1>1. pc[d] \in InWalk => AtLeaf(d)'
  BY DEF Walker, AtLeaf
<1> QED
  BY <1>1, WalkerStays

\* A step of c that changes no table.
LEMMA SameTables ==
  ASSUME NEW lv, NEW ix, Shape(lv, ix), NEW c \in CPUs, tables' = tables, top' = top,
         \A d \in CPUs : d # c => at'[d] = at[d] /\ call'[d] = call[d] /\ pc'[d] = pc[d],
         pc'[c] # "copy", Walker(lv, ix, c)',
         Adding(c)' =>
           /\ Adding(c) /\ call'[c] = call[c] /\ at'[c].level = at[c].level
           /\ at'[c].table = at[c].table /\ at'[c].new_table = at[c].new_table
           /\ pc'[c] = "storeAddress" => at'[c].seen = Entry(c)
  PROVE  Shape(lv, ix)'
<1>1. Pages' = Pages /\ Alive' = Alive
  BY DEF Pages, Alive
<1>2. Places(lv, ix)' /\ Links(lv, ix)' /\ Tops(lv)'
  BY <1>1 DEF Shape, Places, Links, Linked, Tops, getFlag
<1>3. ASSUME NEW d \in CPUs PROVE Walker(lv, ix, d)'
  <2>1. CASE d = c
    BY <2>1
  <2>2. CASE d # c
    <3>1. Walker(lv, ix, d)
      BY DEF Shape
    <3> QED
      BY <1>1, <2>2, <3>1, WalkerKept
  <2> QED
    BY <2>1, <2>2
<1>4. ASSUME NEW d \in CPUs PROVE Storer(lv, ix, d)'
  <2>1. SUFFICES ASSUME Adding(d)' PROVE Storer(lv, ix, d)'
    BY DEF Storer
  <2>2. ASSUME NEW x \in CPUs, Adding(x)'
        PROVE  /\ Adding(x) /\ call'[x] = call[x] /\ at'[x].level = at[x].level
               /\ at'[x].table = at[x].table /\ at'[x].new_table = at[x].new_table
    BY <2>2 DEF Adding
  <2>3. Storer(lv, ix, d) /\ Adding(d)
    BY <2>1, <2>2 DEF Shape
  <2>4. \A q : Unlinked(lv, q) => Unlinked(lv, q)'
    BY <1>1 DEF Unlinked, Linked, getFlag
  <2>5. Entry(d)' = Entry(d)
    BY <2>1, <2>2 DEF Entry, Here
  <2>6. pc'[d] = "storeAddress" /\ getFlag(at'[d].seen, "present") => getFlag(Entry(d), "present")'
    <3>1. CASE d = c
      BY <2>1, <2>5, <3>1 DEF getFlag
    <3>2. CASE d # c
      BY <2>3, <2>5, <3>2 DEF Storer, getFlag
    <3> QED
      BY <3>1, <3>2
  <2>7. PICK a : a = at[d].new_table
    OBVIOUS
  <2>8. a # 0 =>
         /\ a \in Pages /\ tables[a] = EmptyTable /\ lv[a] = at[d].level + 1
         /\ \A k \in 1 .. at[d].level : ix[a][k] = call[d].va[k]
         /\ Unlinked(lv, a)
         /\ \A x \in CPUs : x # d /\ Adding(x) => at[x].new_table # a
    BY <2>3, <2>7 DEF Storer
  <2>9. a # 0 =>
         /\ a \in Pages' /\ tables'[a] = EmptyTable /\ lv[a] = at'[d].level + 1
         /\ \A k \in 1 .. at'[d].level : ix[a][k] = call'[d].va[k]
         /\ Unlinked(lv, a)'
         /\ \A x \in CPUs : x # d /\ Adding(x)' => at'[x].new_table # a
    BY <1>1, <2>1, <2>2, <2>4, <2>8
  <2>10. at'[d].new_table = a
    BY <2>1, <2>2, <2>7
  <2>11. Unlinked(lv, a)' => Unlinked(lv, at[d].new_table)'
    BY <2>10 DEF Unlinked
  <2> QED
    BY <2>6, <2>9, <2>10, <2>11 DEF Storer
<1>5. ASSUME NEW d \in CPUs PROVE Copier(lv, d)'
  <2>1. CASE pc'[d] # "copy"
    BY <2>1 DEF Copier
  <2>2. CASE pc'[d] = "copy"
    <3>1. d # c /\ pc[d] = "copy" /\ at'[d] = at[d] /\ Copier(lv, d)
      BY <2>2 DEF Shape
    <3>2. \A x \in CPUs : x # d /\ pc'[x] = "copy" => pc[x] = "copy" /\ at'[x] = at[x]
      BY <3>1
    <3> QED
      BY <1>1, <3>1, <3>2 DEF Copier
  <2> QED
    BY <2>1, <2>2
<1> QED
  BY <1>2, <1>3, <1>4, <1>5 DEF Shape

-----------------------------------------------------------------------------
\* The calls of the other CPUs, when c takes a step.
LEMMA CallsKept ==
  ASSUME CallInv, NEW c \in CPUs,
         \A m \in Alive : m \in Alive',
         \A d \in CPUs : d # c => call'[d] = call[d] /\ pc'[d] = pc[d],
         \A d \in CPUs : d # c /\ pc[d] \in InSection => locked'[call[d].m] = locked[call[d].m],
         pc'[c] \in InSection \cup {"lock"} => Args(call[c])',
         pc'[c] \in InSection => locked'[call'[c].m] = c,
         Copying(c)' => call'[c].old \in Alive' /\ call'[c].left \subseteq Index
  PROVE  CallInv'
<1>1. ASSUME NEW d \in CPUs, d # c
      PROVE  /\ pc'[d] \in InSection \cup {"lock"} => Args(call[d])'
             /\ pc'[d] \in InSection => locked'[call'[d].m] = d
             /\ Copying(d)' => call'[d].old \in Alive' /\ call'[d].left \subseteq Index
  <2>1. call'[d] = call[d] /\ pc'[d] = pc[d]
    BY <1>1
  <2>2. Args(call[d]) => Args(call[d])'
    BY <2>1 DEF Args
  <2> QED
    BY <1>1, <2>1, <2>2 DEF CallInv, Copying
<1> QED
  BY <1>1 DEF CallInv

\* Two CPUs that hold the locks of their maps hold those of two maps.
LEMMA TwoLocks ==
  ASSUME CallInv, NEW c \in CPUs, NEW d \in CPUs, d # c, pc[c] \in InSection, pc[d] \in InSection
  PROVE  Several
  BY DEF CallInv, Args, Several

\* The entry of a call, when another CPU takes a step.
LEMMA FreshKept ==
  ASSUME Fresh, NEW c \in CPUs, \A m \in Alive : m \in Alive',
         \A d \in CPUs : d # c => at'[d] = at[d] /\ call'[d] = call[d] /\ pc'[d] = pc[d],
         \A d \in CPUs : d # c /\ pc[d] \in InWalk => Several \/ Entry(d)' = Entry(d),
         Several \/ Alone(c)'
  PROVE  Fresh'
<1>1. CASE Several
  BY <1>1 DEF Several, Fresh
<1>2. CASE ~Several
  <2>1. ASSUME NEW d \in CPUs, d # c PROVE Alone(d)'
    <3>1. Alone(d) /\ at'[d] = at[d] /\ call'[d] = call[d] /\ pc'[d] = pc[d]
      BY <1>2, <2>1 DEF Fresh
    <3>2. CASE pc[d] \in InWalk
      <4>1. Entry(d)' = Entry(d)
        BY <1>2, <2>1, <3>2
      <4> QED
        BY <3>1, <4>1 DEF Alone, Adding, Addresses, Address, getFlag
    <3>3. CASE pc[d] \notin InWalk
      BY <3>1, <3>3 DEF Alone, Adding, InWalk, Accesses
    <3> QED
      BY <3>2, <3>3
  <2> QED
    BY <1>2, <2>1 DEF Fresh
<1> QED
  BY <1>1, <1>2

LEMMA AloneOff ==
  ASSUME NEW c \in CPUs, pc'[c] \notin Accesses
  PROVE  Alone(c)'
  BY DEF Alone, Adding, Accesses

\* No table is written.
LEMMA FreshSame ==
  ASSUME Fresh, NEW c \in CPUs, \A m \in Alive : m \in Alive', tables' = tables,
         \A d \in CPUs : d # c => at'[d] = at[d] /\ call'[d] = call[d] /\ pc'[d] = pc[d],
         Several \/ Alone(c)'
  PROVE  Fresh'
<1>1. \A d \in CPUs : d # c => Entry(d)' = Entry(d)
  BY DEF Entry, Here
<1> QED
  BY <1>1, FreshKept

\* A step of a CPU that holds a lock.
LEMMA FreshLocked ==
  ASSUME Fresh, CallInv, NEW c \in CPUs, pc[c] \in InSection, \A m \in Alive : m \in Alive',
         \A d \in CPUs : d # c => at'[d] = at[d] /\ call'[d] = call[d] /\ pc'[d] = pc[d],
         Several \/ Alone(c)'
  PROVE  Fresh'
<1>1. \A d \in CPUs : d # c /\ pc[d] \in InWalk => Several
  BY TwoLocks DEF InSection
<1> QED
  BY <1>1, FreshKept

\* Calls that start: nothing is looked up yet.
LEMMA CallsGood ==
  ASSUME CopyInv, Good, NEW c \in CPUs, Calls(c)
  PROVE  Good'
<1>1. PICK lv, ix : Shape(lv, ix)
  BY DEF Good
<1>2. StateTypes /\ TableTypes /\ CallInv /\ Fresh /\ ~lost /\ ~atNull
  BY DEF Good
<1>3. CASE \E m \in Alive : switchPagemap(c, m)
  <2>1. UNCHANGED <<tables, top, locked, call, at, pc, lost, atNull>>
    BY <1>3 DEF switchPagemap
  <2>2. pc[c] = "idle"
    BY <1>3 DEF switchPagemap
  <2>3. Walker(lv, ix, c)' /\ ~Adding(c)' /\ pc'[c] \notin Accesses
    BY <2>1, <2>2 DEF Walker, Adding, InWalk, Accesses
  <2>4. Shape(lv, ix)'
    BY <1>1, <2>1, <2>2, <2>3, SameTables
  <2>5. TableTypes' /\ StateTypes'
    BY <1>2, <2>1 DEF TableTypes, StateTypes
  <2>6. CallInv'
    BY <1>2, <2>1 DEF CallInv, Args, Copying, Alive
  <2>7. Fresh'
    <3>1. Alive' = Alive
      BY <2>1 DEF Alive
    <3> QED
      BY <1>2, <2>1, <2>3, <3>1, AloneOff, FreshSame
  <2> QED
    BY <1>2, <2>1, <2>4, <2>5, <2>6, <2>7 DEF Good
<1>4. ASSUME NEW rec, NEW step \in {"lock", "alloc"}, Start(c, rec, step),
             step = "lock" => Args(rec), step = "alloc" => rec.old \in Alive /\ rec.left \subseteq Index
      PROVE  Good'
  <2>1. /\ call' = [call EXCEPT ![c] = rec] /\ pc' = [pc EXCEPT ![c] = step]
        /\ UNCHANGED <<tables, top, locked, at, lost, atNull>>
    BY <1>4 DEF Start
  <2>2. /\ call'[c] = rec /\ pc'[c] = step
        /\ \A d \in CPUs : d # c => at'[d] = at[d] /\ call'[d] = call[d] /\ pc'[d] = pc[d]
    BY <2>1 DEF CopyInv
  <2>3. Walker(lv, ix, c)' /\ ~Adding(c)' /\ pc'[c] \notin Accesses /\ pc'[c] # "copy"
    BY <1>4, <2>2 DEF Walker, Adding, InWalk, Accesses
  <2>4. Shape(lv, ix)'
    BY <1>1, <2>1, <2>2, <2>3, SameTables
  <2>5. TableTypes'
    BY <1>2, <2>1 DEF TableTypes
  <2>6. StateTypes'
    <3>1. pc' \in [CPUs -> Steps]
      BY <1>2, <2>1 DEF StateTypes, Steps
    <3> QED
      BY <1>2, <2>1, <3>1 DEF StateTypes
  <2>7. Alive' = Alive
    BY <2>1 DEF Alive
  <2>8. Args(rec) => Args(call[c])'
    BY <2>2, <2>7 DEF Args
  <2>9. /\ pc'[c] \in InSection \cup {"lock"} => Args(call[c])'
        /\ pc'[c] \notin InSection
        /\ Copying(c)' => call'[c].old \in Alive' /\ call'[c].left \subseteq Index
    BY <1>4, <2>2, <2>7, <2>8 DEF InSection, InWalk, Accesses, Copying
  <2>10. CallInv'
    BY <1>2, <2>1, <2>2, <2>7, <2>9, CallsKept
  <2>11. Fresh'
    BY <1>2, <2>1, <2>2, <2>3, <2>7, AloneOff, FreshSame
  <2> QED
    BY <1>2, <2>1, <2>4, <2>5, <2>6, <2>10, <2>11 DEF Good
<1>5. ASSUME NEW m \in Alive, NEW va \in VAddr, NEW pa \in DataPages, NEW flags \in Flags, MapCall(c, m, va, pa, flags)
      PROVE  Good'
  <2>1. PICK rec : rec = [op |-> "map", m |-> m, va |-> va, pa |-> pa, flags |-> flags]
    OBVIOUS
  <2>2. Args(rec)
    BY <2>1 DEF Args, Ops, Addrs
  <2> QED
    BY <1>4, <1>5, <2>1, <2>2 DEF MapCall
<1>6. ASSUME NEW m \in Alive, NEW va \in VAddr, UnmapCall(c, m, va) PROVE Good'
  <2>1. PICK rec : rec = [op |-> "unmap", m |-> m, va |-> va]
    OBVIOUS
  <2>2. Args(rec)
    BY <2>1 DEF Args, Ops
  <2> QED
    BY <1>4, <1>6, <2>1, <2>2 DEF UnmapCall
<1>7. ASSUME NEW m \in Alive, NEW va \in VAddr, NEW new \in VAddr, NEW flags \in Flags, RemapCall(c, m, va, new, flags)
      PROVE  Good'
  <2>1. PICK rec : rec = [op |-> "remap", m |-> m, va |-> va, new |-> new, pa |-> 0, flags |-> flags]
    OBVIOUS
  <2>2. Args(rec)
    BY <2>1 DEF Args, Ops, Addrs, TableAddrs
  <2> QED
    BY <1>4, <1>7, <2>1, <2>2 DEF RemapCall
<1>8. ASSUME NEW m \in Alive, NEW va \in VAddr, NEW flags \in Flags, NEW enabled \in BOOLEAN,
             FlagsCall(c, m, va, flags, enabled)
      PROVE  Good'
  <2>1. PICK rec : rec = [op |-> IF enabled THEN "setFlags" ELSE "remFlags", m |-> m, va |-> va, flags |-> flags]
    OBVIOUS
  <2>2. Args(rec)
    BY <2>1 DEF Args, Ops
  <2> QED
    BY <1>4, <1>8, <2>1, <2>2 DEF FlagsCall
<1>9. ASSUME NEW old \in Alive, NEW m \in Maps, CopyCall(c, old, m) PROVE Good'
  <2>1. PICK rec : rec = [op |-> "copy", old |-> old, m |-> m, left |-> Index]
    OBVIOUS
  <2>2. rec.old \in Alive /\ rec.left \subseteq Index
    BY <2>1
  <2> QED
    BY <1>4, <1>9, <2>1, <2>2 DEF CopyCall
<1> QED
  BY <1>3, <1>5, <1>6, <1>7, <1>8, <1>9 DEF Calls

-----------------------------------------------------------------------------
\* A walk that has come to a table has read nothing of it yet.
LEMMA AtTyped ==
  ASSUME NEW n \in 0 .. Depth, NEW t \in TableAddrs
  PROVE  At(n, t) \in AtType
<1>1. Empty \in EntryType
  BY DEF Empty, EntryType, Addrs, TableAddrs
<1> QED
  BY <1>1 DEF At, AtType

\* lock(): the walk begins at the top, and nobody else is in this map.
LEMMA LockGood ==
  ASSUME CopyInv, Good, NEW c \in CPUs, Lock(c)
  PROVE  Good'
<1>1. PICK lv, ix : Shape(lv, ix)
  BY DEF Good
<1>2. StateTypes /\ TableTypes /\ CallInv /\ Fresh /\ ~lost /\ ~atNull
  BY DEF Good
<1>3. /\ pc[c] = "lock" /\ locked[call[c].m] = "free"
      /\ locked' = [locked EXCEPT ![call[c].m] = c]
      /\ at' = [at EXCEPT ![c] = At(1, top[call[c].m])]
      /\ pc' = [pc EXCEPT ![c] = "walk"]
      /\ UNCHANGED <<tables, top, call, lost, atNull>>
  BY DEF Lock
<1>4. Args(call[c]) /\ call[c].m \in Alive /\ call[c].m \in Maps
  BY <1>2, <1>3 DEF CallInv, Args, Alive
<1>5. /\ at'[c].level = 1 /\ at'[c].table = top[call[c].m] /\ pc'[c] = "walk"
      /\ locked'[call[c].m] = c
      /\ \A d \in CPUs : d # c => at'[d] = at[d] /\ call'[d] = call[d] /\ pc'[d] = pc[d]
  BY <1>2, <1>3, <1>4 DEF StateTypes, At
<1>6. Alive' = Alive /\ Pages' = Pages
  BY <1>3 DEF Alive, Pages
<1>7. Walker(lv, ix, c)'
  <2>1. PICK r : r = top[call[c].m]
    OBVIOUS
  <2>2. r \in Pages /\ lv[r] = 1
    BY <1>1, <1>4, <2>1 DEF Shape, Tops
  <2>3. PICK w : w = [k \in 1 .. 1 |-> r]
    OBVIOUS
  <2>4. w \in [1 .. 1 -> Pages] /\ w[1] = r /\ \A k \in 1 .. 1 : lv[w[k]] = k
    BY <2>2, <2>3
  <2>5. Leads(lv, c, w)'
    BY <1>3, <1>5, <1>6, <2>1, <2>4 DEF Leads
  <2>6. 1 \in 1 .. Depth /\ AtLeaf(c)'
    BY <1>5, VMemoryAssumption DEF AtLeaf
  <2> QED
    BY <1>5, <1>6, <2>1, <2>2, <2>5, <2>6 DEF Walker
<1>8. Shape(lv, ix)'
  <2>1. ~Adding(c)' /\ pc'[c] # "copy"
    BY <1>5 DEF Adding, Accesses
  <2> QED
    BY <1>1, <1>3, <1>5, <1>7, <2>1, SameTables
<1>9. TableTypes'
  BY <1>2, <1>3 DEF TableTypes
<1>10. StateTypes'
  <2>1. top[call[c].m] \in TableAddrs /\ 1 \in 0 .. Depth
    BY <1>2, <1>4, VMemoryAssumption DEF StateTypes, Alive
  <2>2. locked' \in [Maps -> CPUs \cup {"free"}] /\ pc' \in [CPUs -> Steps]
    BY <1>2, <1>3 DEF StateTypes, Steps, InSection, InWalk
  <2>3. at' \in [CPUs -> AtType]
    BY <1>2, <1>3, <2>1, AtTyped DEF StateTypes
  <2> QED
    BY <1>2, <1>3, <2>2, <2>3 DEF StateTypes
<1>11. CallInv'
  <2>1. ASSUME NEW d \in CPUs, d # c, pc[d] \in InSection
        PROVE  locked'[call[d].m] = locked[call[d].m]
    <3>1. locked[call[d].m] = d /\ call[d].m \in Maps
      BY <1>2, <2>1 DEF CallInv, Args, Alive
    <3>2. call[d].m # call[c].m
      BY <1>3, <3>1, VMemoryAssumption
    <3> QED
      BY <1>2, <1>3, <3>1, <3>2 DEF StateTypes
  <2>2. Args(call[c])'
    BY <1>3, <1>4, <1>6 DEF Args
  <2>3. ~Copying(c)'
    BY <1>5 DEF Copying
  <2> QED
    BY <1>2, <1>3, <1>5, <1>6, <2>1, <2>2, <2>3, CallsKept
<1>12. Fresh'
  <2>1. pc'[c] \notin Accesses
    BY <1>5 DEF Accesses
  <2> QED
    BY <1>2, <1>3, <1>5, <1>6, <2>1, AloneOff, FreshSame
<1> QED
  BY <1>2, <1>3, <1>8, <1>9, <1>10, <1>11, <1>12 DEF Good

\* A way that goes on to q, one level down.
LEMMA LongerWay ==
  ASSUME NEW n \in Nat \ {0}, NEW P, NEW w \in [1 .. n -> P], NEW q \in P, NEW v,
         v = [k \in 1 .. n + 1 |-> IF k = n + 1 THEN q ELSE w[k]]
  PROVE  /\ v \in [1 .. n + 1 -> P] /\ v[n + 1] = q /\ v[1] = w[1]
         /\ \A k \in 1 .. n : v[k] = w[k] /\ k \in 1 .. n + 1
<1>1. \A k \in 1 .. n : k \in 1 .. n + 1 /\ k # n + 1
  OBVIOUS
<1>2. 1 \in 1 .. n /\ n + 1 \in 1 .. n + 1
  OBVIOUS
<1>3. \A k \in 1 .. n + 1 : k # n + 1 => k \in 1 .. n
  OBVIOUS
<1> QED
  BY <1>1, <1>2, <1>3

\* get_next_lvl, the table exists: one level down, along the link.
LEMMA FollowGood ==
  ASSUME CopyInv, Good, NEW c \in CPUs, Follow(c)
  PROVE  Good'
<1>1. PICK lv, ix : Shape(lv, ix)
  BY DEF Good
<1>2. StateTypes /\ TableTypes /\ CallInv /\ Fresh /\ ~lost /\ ~atNull
  BY DEF Good
<1>3. /\ pc[c] = "walk" /\ at[c].level < Depth /\ getFlag(Entry(c), "present")
      /\ at' = [at EXCEPT ![c] = At(at[c].level + 1, Entry(c).addr)]
      /\ UNCHANGED <<tables, top, locked, call, pc, lost, atNull>>
  BY DEF Follow
<1>4. Walker(lv, ix, c) /\ Places(lv, ix) /\ Links(lv, ix)
  BY <1>1 DEF Shape
<1>5. /\ at[c].level \in 1 .. Depth /\ at[c].table \in Pages /\ lv[at[c].table] = at[c].level
      /\ call[c].va \in VAddr /\ Here(c) \in Index
  BY <1>2, <1>3, <1>4, WalkerPlace DEF InWalk
<1>6. PICK n : n = at[c].level
  OBVIOUS
<1>7. n \in Nat \ {0} /\ n < Depth /\ n + 1 \in 1 .. Depth /\ Depth \in Nat
  BY <1>3, <1>5, <1>6, VMemoryAssumption
<1>8. PICK q : q = Entry(c).addr
  OBVIOUS
<1>9. /\ q \in Pages /\ lv[q] = n + 1 /\ ix[q][n] = call[c].va[n]
      /\ \A k \in 1 .. n - 1 : ix[q][k] = ix[at[c].table][k]
  <2>1. Linked(lv, at[c].table, Here(c))
    BY <1>3, <1>5 DEF Linked, Entry
  <2>2. PICK p, i : p = at[c].table /\ i = Here(c)
    OBVIOUS
  <2>3. /\ tables[p][i].addr \in Pages
        /\ lv[tables[p][i].addr] = lv[p] + 1
        /\ ix[tables[p][i].addr][lv[p]] = i
        /\ \A k \in 1 .. lv[p] - 1 : ix[tables[p][i].addr][k] = ix[p][k]
    BY <1>4, <1>5, <2>1, <2>2, Zenon DEF Links
  <2>4. q = tables[p][i].addr /\ lv[p] = n /\ i = call[c].va[n]
    BY <1>5, <1>6, <1>8, <2>2 DEF Entry, Here
  <2> QED
    BY <2>2, <2>3, <2>4
<1>10. /\ at'[c].level = n + 1 /\ at'[c].table = q /\ pc'[c] = "walk" /\ call' = call
       /\ \A d \in CPUs : d # c => at'[d] = at[d] /\ call'[d] = call[d] /\ pc'[d] = pc[d]
  BY <1>2, <1>3, <1>6, <1>8 DEF StateTypes, At
<1>11. Alive' = Alive /\ Pages' = Pages
  BY <1>3 DEF Alive, Pages
<1>12. Walker(lv, ix, c)'
  <2>1. PICK w : Leads(lv, c, w)
    BY <1>3, <1>4 DEF Walker, InWalk
  <2>2. /\ w \in [1 .. n -> Pages] /\ w[1] = top[call[c].m] /\ w[n] = at[c].table
        /\ \A k \in 1 .. n : lv[w[k]] = k
        /\ \A k \in 1 .. n - 1 :
             /\ getFlag(tables[w[k]][call[c].va[k]], "present")
             /\ tables[w[k]][call[c].va[k]].addr = w[k + 1]
    BY <1>6, <2>1 DEF Leads
  <2>3. PICK v : v = [k \in 1 .. n + 1 |-> IF k = n + 1 THEN q ELSE w[k]]
    OBVIOUS
  <2>4. /\ v \in [1 .. n + 1 -> Pages] /\ v[n + 1] = q /\ v[1] = w[1]
        /\ \A k \in 1 .. n : v[k] = w[k] /\ k \in 1 .. n + 1
    BY <1>7, <1>9, <2>2, <2>3, LongerWay
  <2>5. \A k \in 1 .. n + 1 : lv[v[k]] = k
    <3>1. \A k \in 1 .. n + 1 : k = n + 1 \/ k \in 1 .. n
      BY <1>7
    <3> QED
      BY <1>9, <2>2, <2>4, <3>1
  <2>6. \A k \in 1 .. n :
          /\ getFlag(tables[v[k]][call[c].va[k]], "present")
          /\ tables[v[k]][call[c].va[k]].addr = v[k + 1]
    <3> SUFFICES ASSUME NEW k \in 1 .. n
                 PROVE  /\ getFlag(tables[v[k]][call[c].va[k]], "present")
                        /\ tables[v[k]][call[c].va[k]].addr = v[k + 1]
      OBVIOUS
    <3>1. v[k] = w[k]
      BY <2>4
    <3>2. CASE k = n
      <4>1. tables[v[k]][call[c].va[k]] = Entry(c)
        BY <1>6, <2>2, <3>1, <3>2 DEF Entry, Here
      <4> QED
        BY <1>3, <1>8, <2>4, <3>2, <4>1
    <3>3. CASE k # n
      <4>1. k \in 1 .. n - 1 /\ k + 1 \in 1 .. n
        BY <1>7, <3>3
      <4> QED
        BY <2>2, <2>4, <3>1, <4>1
    <3> QED
      BY <3>2, <3>3
  <2>7. (n + 1) - 1 = n
    BY <1>7
  <2>8. Leads(lv, c, v)'
    BY <1>3, <1>10, <1>11, <2>2, <2>4, <2>5, <2>6, <2>7 DEF Leads, getFlag
  <2>9. \A k \in 1 .. n : ix[q][k] = call[c].va[k]
    <3>1. \A k \in 1 .. n - 1 : ix[at[c].table][k] = call[c].va[k]
      BY <1>3, <1>4, <1>6 DEF Walker, InWalk
    <3>2. \A k \in 1 .. n : k = n \/ k \in 1 .. n - 1
      BY <1>7
    <3> QED
      BY <1>9, <3>1, <3>2
  <2> QED
    <3>1. /\ at'[c].level \in 1 .. Depth /\ at'[c].table \in Pages' /\ lv[at'[c].table] = at'[c].level
      BY <1>7, <1>9, <1>10, <1>11
    <3>2. \A k \in 1 .. at'[c].level - 1 : ix[at'[c].table][k] = call'[c].va[k]
      BY <1>10, <2>7, <2>9
    <3>3. AtLeaf(c)'
      BY <1>10 DEF AtLeaf
    <3> QED
      BY <2>8, <3>1, <3>2, <3>3 DEF Walker
<1>13. Shape(lv, ix)'
  <2>1. ~Adding(c)' /\ pc'[c] # "copy"
    BY <1>10 DEF Adding, Accesses
  <2> QED
    BY <1>1, <1>3, <1>10, <1>12, <2>1, SameTables
<1>14. TableTypes'
  BY <1>2, <1>3 DEF TableTypes
<1>15. StateTypes'
  <2>1. q \in TableAddrs
    BY <1>2, <1>9 DEF TableTypes, Pages
  <2>2. n + 1 \in 0 .. Depth
    BY <1>7
  <2>3. at' \in [CPUs -> AtType]
    BY <1>2, <1>3, <1>6, <1>8, <2>1, <2>2, AtTyped DEF StateTypes
  <2> QED
    BY <1>2, <1>3, <2>3 DEF StateTypes
<1>16. CallInv'
  BY <1>2, <1>3, <1>11 DEF CallInv, Args, Copying
<1>17. Fresh'
  <2>1. pc'[c] \notin Accesses
    BY <1>10 DEF Accesses
  <2> QED
    BY <1>2, <1>3, <1>10, <1>11, <2>1, AloneOff, FreshSame
<1> QED
  BY <1>2, <1>3, <1>13, <1>14, <1>15, <1>16, <1>17 DEF Good

\* unlock(): remapMem goes on as mapMem.
LEMMA UnlockGood ==
  ASSUME CopyInv, Good, NEW c \in CPUs, Unlock(c)
  PROVE  Good'
<1>1. PICK lv, ix : Shape(lv, ix)
  BY DEF Good
<1>2. StateTypes /\ TableTypes /\ CallInv /\ Fresh /\ ~lost /\ ~atNull
  BY DEF Good
<1>3. /\ pc[c] = "unlock" /\ locked' = [locked EXCEPT ![call[c].m] = "free"]
      /\ at' = [at EXCEPT ![c] = Nowhere]
      /\ UNCHANGED <<tables, top, lost, atNull>>
  BY DEF Unlock
<1>4. \/ /\ call[c].op = "remap" /\ pc' = [pc EXCEPT ![c] = "lock"]
         /\ call' = [call EXCEPT ![c] = [op |-> "map", m |-> call[c].m, va |-> call[c].new, pa |-> call[c].pa,
                                         flags |-> call[c].flags]]
      \/ call' = [call EXCEPT ![c] = NoCall] /\ pc' = [pc EXCEPT ![c] = "idle"]
  BY DEF Unlock
<1>5. Args(call[c]) /\ call[c].m \in Maps /\ locked[call[c].m] = c
  BY <1>2, <1>3 DEF CallInv, InSection, Args, Alive
<1>6. DOMAIN call = CPUs /\ DOMAIN pc = CPUs /\ Alive' = Alive
  BY <1>3 DEF CopyInv, Alive
<1>7. /\ pc'[c] \in {"lock", "idle"}
      /\ \A d \in CPUs : d # c => at'[d] = at[d] /\ call'[d] = call[d] /\ pc'[d] = pc[d]
  BY <1>2, <1>3, <1>4, <1>6 DEF StateTypes
<1>8. pc'[c] = "lock" => Args(call[c])'
  <2>1. SUFFICES ASSUME pc'[c] = "lock" PROVE Args(call[c])'
    OBVIOUS
  <2>2. call[c].op = "remap" /\ call'[c] = [op |-> "map", m |-> call[c].m, va |-> call[c].new, pa |-> call[c].pa,
                                            flags |-> call[c].flags]
    BY <1>4, <1>6, <2>1
  <2>3. call[c].m \in Alive /\ call[c].new \in VAddr /\ call[c].pa \in Addrs /\ call[c].flags \in Flags
    BY <1>5, <2>2 DEF Args
  <2> QED
    BY <1>6, <2>2, <2>3 DEF Args, Ops
<1>9. Walker(lv, ix, c)' /\ ~Adding(c)' /\ pc'[c] \notin Accesses /\ pc'[c] # "copy"
  BY <1>7 DEF Walker, Adding, InWalk, Accesses
<1>10. Shape(lv, ix)'
  BY <1>1, <1>3, <1>7, <1>9, SameTables
<1>11. TableTypes'
  BY <1>2, <1>3 DEF TableTypes
<1>12. StateTypes'
  <2>1. locked' \in [Maps -> CPUs \cup {"free"}]
    BY <1>2, <1>3 DEF StateTypes
  <2>2. pc' \in [CPUs -> Steps]
    BY <1>2, <1>4 DEF StateTypes, Steps
  <2>3. Nowhere \in AtType
    BY AtTyped, VMemoryAssumption DEF Nowhere, TableAddrs
  <2>4. at' \in [CPUs -> AtType]
    BY <1>2, <1>3, <2>3 DEF StateTypes
  <2> QED
    BY <1>2, <1>3, <2>1, <2>2, <2>4 DEF StateTypes
<1>13. CallInv'
  <2>1. ASSUME NEW d \in CPUs, d # c, pc[d] \in InSection
        PROVE  locked'[call[d].m] = locked[call[d].m]
    <3>1. locked[call[d].m] = d /\ call[d].m \in Maps
      BY <1>2, <2>1 DEF CallInv, Args, Alive
    <3> QED
      BY <1>2, <1>3, <1>5, <2>1, <3>1 DEF StateTypes
  <2>2. ~Copying(c)' /\ pc'[c] \notin InSection /\ (pc'[c] \in InSection \cup {"lock"} => Args(call[c])')
    BY <1>7, <1>8 DEF Copying, InSection, InWalk, Accesses
  <2> QED
    BY <1>2, <1>6, <1>7, <2>1, <2>2, CallsKept
<1>14. Fresh'
  BY <1>2, <1>3, <1>6, <1>7, <1>9, AloneOff, FreshSame
<1> QED
  BY <1>2, <1>3, <1>10, <1>11, <1>12, <1>13, <1>14 DEF Good

-----------------------------------------------------------------------------
\* A page that is zeroed for a new table is linked nowhere and links nothing.
LEMMA ZeroedKeeps ==
  ASSUME TableTypes, StateTypes, NEW lv, NEW ix, Places(lv, ix), Links(lv, ix), Tops(lv),
         tables' = Zeroed(Alloc), top' = top, NEW n \in 1 .. Depth, NEW v \in VAddr,
         NEW lv2, lv2 = [p \in Pages' |-> IF p \in Pages THEN lv[p] ELSE n],
         NEW ix2, ix2 = [p \in Pages' |-> IF p \in Pages THEN ix[p] ELSE v]
  PROVE  /\ TableTypes' /\ Alloc \notin Pages /\ Alloc \in TablePages \cup {0}
         /\ \A p \in Pages : p \in Pages' /\ tables'[p] = tables[p] /\ lv2[p] = lv[p] /\ ix2[p] = ix[p]
         /\ Alloc # 0 => Alloc \in Pages' /\ tables'[Alloc] = EmptyTable /\ lv2[Alloc] = n /\ ix2[Alloc] = v
         /\ Places(lv2, ix2)' /\ Links(lv2, ix2)' /\ Tops(lv2)'
         /\ \A p \in Pages', i \in Index : Linked(lv2, p, i)' => p \in Pages /\ Linked(lv, p, i)
<1>1. PICK a : a = Alloc
  OBVIOUS
<1>2. a \notin Pages /\ a \in TablePages \cup {0}
  BY <1>1, AllocFresh DEF Pages
<1>3. /\ DOMAIN tables' = DOMAIN tables \cup {a} /\ tables'[a] = EmptyTable
      /\ \A p \in DOMAIN tables : p # a => tables'[p] = tables[p]
  BY <1>1 DEF Zeroed
<1>4. Pages' = Pages \cup ({a} \ {0})
  BY <1>3 DEF Pages
<1>5. \A p \in Pages : p \in Pages' /\ p # a /\ tables'[p] = tables[p] /\ lv2[p] = lv[p] /\ ix2[p] = ix[p]
  BY <1>2, <1>3, <1>4 DEF Pages
<1>6. a # 0 => a \in Pages' /\ tables'[a] = EmptyTable /\ lv2[a] = n /\ ix2[a] = v
  BY <1>2, <1>3, <1>4
<1>7. TableTypes'
  <2>1. EmptyTable \in [Index -> EntryType]
    BY DEF EmptyTable, Empty, EntryType, Addrs, TableAddrs
  <2>2. \A p \in DOMAIN tables' : tables'[p] \in [Index -> EntryType]
    BY <1>3, <2>1 DEF TableTypes
  <2>3. tables' = [p \in DOMAIN tables' |-> tables'[p]]
    BY DEF Zeroed
  <2>4. tables' \in [DOMAIN tables' -> [Index -> EntryType]]
    BY <2>2, <2>3
  <2>5. 0 \in DOMAIN tables' /\ DOMAIN tables' \subseteq TableAddrs
    BY <1>2, <1>3 DEF TableTypes, TableAddrs
  <2> QED
    BY <2>4, <2>5 DEF TableTypes
<1>8. Places(lv2, ix2)'
  <2>1. lv2 \in [Pages' -> 1 .. Depth]
    BY <1>4, <1>5, <1>6 DEF Places
  <2>2. ix2 \in [Pages' -> VAddr]
    BY <1>4, <1>5, <1>6 DEF Places
  <2> QED
    BY <2>1, <2>2 DEF Places, VAddr
<1>9. ASSUME NEW p \in Pages', NEW i \in Index, Linked(lv2, p, i)'
      PROVE  p \in Pages /\ Linked(lv, p, i)
  <2>1. "present" \in tables'[p][i].flags
    BY <1>9 DEF Linked, getFlag
  <2>2. p # a
    <3>1. EmptyTable[i].flags = {}
      BY DEF EmptyTable, Empty
    <3> QED
      BY <1>3, <2>1, <3>1
  <2>3. p \in Pages
    BY <1>4, <2>2
  <2> QED
    BY <1>5, <1>9, <2>3 DEF Linked, getFlag
<1>10. Links(lv2, ix2)'
  <2>1. SUFFICES ASSUME NEW p \in Pages', NEW i \in Index, Linked(lv2, p, i)'
                 PROVE  /\ tables'[p][i].addr \in Pages'
                        /\ lv2[tables'[p][i].addr] = lv2[p] + 1
                        /\ ix2[tables'[p][i].addr][lv2[p]] = i
                        /\ \A k \in 1 .. lv2[p] - 1 : ix2[tables'[p][i].addr][k] = ix2[p][k]
    BY DEF Links
  <2>2. p \in Pages /\ Linked(lv, p, i)
    BY <1>9, <2>1
  <2>3. PICK q : q = tables[p][i].addr
    OBVIOUS
  <2>4. q \in Pages /\ lv[q] = lv[p] + 1 /\ ix[q][lv[p]] = i /\ \A k \in 1 .. lv[p] - 1 : ix[q][k] = ix[p][k]
    BY <2>2, <2>3 DEF Links
  <2>5. tables'[p][i].addr = q /\ lv2[p] = lv[p] /\ ix2[p] = ix[p] /\ lv2[q] = lv[q] /\ ix2[q] = ix[q] /\ q \in Pages'
    BY <1>5, <2>2, <2>3, <2>4
  <2> QED
    BY <2>4, <2>5
<1>11. Tops(lv2)'
  BY <1>5 DEF Tops, Alive
<1> QED
  BY <1>1, <1>2, <1>5, <1>6, <1>7, <1>8, <1>9, <1>10, <1>11

\* The other CPUs, when c has a page zeroed.
LEMMA OthersAlloc ==
  ASSUME NEW lv, NEW ix, NEW lv2, NEW ix2, NEW c \in CPUs, NEW d \in CPUs, d # c, top' = top,
         at'[d] = at[d], call'[d] = call[d], pc'[d] = pc[d],
         Walker(lv, ix, d), Storer(lv, ix, d), Copier(lv, d), StateTypes, CallInv,
         \A x \in CPUs : x # c => at'[x] = at[x] /\ pc'[x] = pc[x],
         Adding(c)' => at'[c].new_table \notin Pages,
         pc'[c] = "copy" => at'[c].table \notin Pages,
         \A p \in Pages : p \in Pages' /\ tables'[p] = tables[p] /\ lv2[p] = lv[p] /\ ix2[p] = ix[p],
         Links(lv, ix),
         \A p \in Pages', i \in Index : Linked(lv2, p, i)' => p \in Pages /\ Linked(lv, p, i)
  PROVE  Walker(lv2, ix2, d)' /\ Storer(lv2, ix2, d)' /\ Copier(lv2, d)'
<1>1. Walker(lv2, ix2, d)'
  <2>1. ASSUME NEW w, pc[d] \in InWalk, Leads(lv, d, w), NEW k \in 1 .. at[d].level - 1
        PROVE  tables'[w[k]][call[d].va[k]] = tables[w[k]][call[d].va[k]]
    <3>1. at[d].level \in 1 .. Depth /\ Depth \in Nat
      BY <2>1, WalkerPlace, VMemoryAssumption
    <3>2. k \in 1 .. at[d].level
      BY <3>1
    <3>3. w[k] \in Pages
      BY <2>1, <3>2 DEF Leads
    <3> QED
      BY <3>3
  <2> QED
    BY <2>1, WalkerKept
<1>2. Storer(lv2, ix2, d)'
  <2>1. SUFFICES ASSUME Adding(d) PROVE Storer(lv2, ix2, d)'
    BY DEF Storer, Adding
  <2>2. at[d].table \in Pages
    BY <2>1, WalkerPlace DEF Adding, InWalk
  <2>3. Entry(d)' = Entry(d)
    BY <2>2 DEF Entry, Here
  <2>4. ASSUME NEW q \in Pages, Unlinked(lv, q) PROVE Unlinked(lv2, q)'
    BY <2>4 DEF Unlinked
  <2>5. \A x \in CPUs : x # d /\ Adding(x)' /\ x # c => Adding(x) /\ at'[x] = at[x]
    BY DEF Adding
  <2>6. pc[d] = "storeAddress" /\ getFlag(at[d].seen, "present") => getFlag(Entry(d), "present")
    BY <2>1 DEF Storer
  <2>7. pc'[d] = "storeAddress" /\ getFlag(at'[d].seen, "present") => getFlag(Entry(d), "present")'
    BY <2>3, <2>6 DEF getFlag
  <2>8. CASE at[d].new_table = 0
    BY <2>7, <2>8 DEF Storer
  <2>9. CASE at[d].new_table # 0
    <3>1. /\ at[d].new_table \in Pages /\ tables[at[d].new_table] = EmptyTable
          /\ lv[at[d].new_table] = at[d].level + 1
          /\ \A k \in 1 .. at[d].level : ix[at[d].new_table][k] = call[d].va[k]
          /\ Unlinked(lv, at[d].new_table)
          /\ \A x \in CPUs : x # d /\ Adding(x) => at[x].new_table # at[d].new_table
      BY <2>1, <2>9 DEF Storer
    <3>2. \A x \in CPUs : x # d /\ Adding(x)' => at'[x].new_table # at[d].new_table
      BY <2>5, <3>1
    <3>3. Unlinked(lv2, at[d].new_table)'
      BY <2>4, <3>1
    <3> QED
      BY <2>7, <3>1, <3>2, <3>3 DEF Storer
  <2> QED
    BY <2>8, <2>9
<1>3. Copier(lv2, d)'
  <2>1. SUFFICES ASSUME pc[d] = "copy", at[d].table # 0 PROVE Copier(lv2, d)'
    BY DEF Copier
  <2>2. /\ at[d].table \in Pages /\ lv[at[d].table] = 1
        /\ \A m \in Maps : top[m] # at[d].table
        /\ \A x \in CPUs : x # d /\ pc[x] = "copy" => at[x].table # at[d].table
    BY <2>1 DEF Copier
  <2>3. \A x \in CPUs : x # d /\ pc'[x] = "copy" => at'[x].table # at[d].table
    BY <2>2
  <2> QED
    BY <2>2, <2>3 DEF Copier
<1> QED
  BY <1>1, <1>2, <1>3

\* get_next_lvl, the table is missing: a page for it.
LEMMA AllocateGood ==
  ASSUME CopyInv, Good, NEW c \in CPUs, Allocate(c)
  PROVE  Good'
<1>1. PICK lv, ix : Shape(lv, ix)
  BY DEF Good
<1>2. StateTypes /\ TableTypes /\ CallInv /\ Fresh /\ ~lost /\ ~atNull
  BY DEF Good
<1>3. /\ pc[c] = "walk" /\ at[c].level < Depth /\ ~getFlag(Entry(c), "present")
      /\ tables' = Zeroed(Alloc) /\ at' = [at EXCEPT ![c].new_table = Alloc]
      /\ pc' = [pc EXCEPT ![c] = "setAddress"]
      /\ UNCHANGED <<top, locked, call, lost, atNull>>
  BY DEF Allocate
<1>4. Places(lv, ix) /\ Links(lv, ix) /\ Tops(lv) /\ Walker(lv, ix, c)
  BY <1>1 DEF Shape
<1>5. /\ at[c].level \in 1 .. Depth /\ at[c].table \in Pages /\ lv[at[c].table] = at[c].level
      /\ call[c].va \in VAddr /\ Here(c) \in Index
  BY <1>2, <1>3, <1>4, WalkerPlace DEF InWalk
<1>6. PICK n : n = at[c].level + 1
  OBVIOUS
<1>7. n \in 1 .. Depth
  BY <1>3, <1>5, <1>6, VMemoryAssumption
<1>8. PICK lv2 : lv2 = [p \in Pages' |-> IF p \in Pages THEN lv[p] ELSE n]
  OBVIOUS
<1>9. PICK ix2 : ix2 = [p \in Pages' |-> IF p \in Pages THEN ix[p] ELSE call[c].va]
  OBVIOUS
<1>10. PICK a : a = Alloc
  OBVIOUS
<1>11. /\ TableTypes' /\ a \notin Pages /\ a \in TablePages \cup {0}
       /\ \A p \in Pages : p \in Pages' /\ tables'[p] = tables[p] /\ lv2[p] = lv[p] /\ ix2[p] = ix[p]
       /\ a # 0 => a \in Pages' /\ tables'[a] = EmptyTable /\ lv2[a] = n /\ ix2[a] = call[c].va
       /\ Places(lv2, ix2)' /\ Links(lv2, ix2)' /\ Tops(lv2)'
       /\ \A p \in Pages', i \in Index : Linked(lv2, p, i)' => p \in Pages /\ Linked(lv, p, i)
  BY <1>2, <1>3, <1>4, <1>5, <1>7, <1>8, <1>9, <1>10, ZeroedKeeps
<1>12. /\ at'[c].level = at[c].level /\ at'[c].table = at[c].table /\ at'[c].new_table = a
       /\ pc'[c] = "setAddress"
       /\ \A d \in CPUs : d # c => at'[d] = at[d] /\ call'[d] = call[d] /\ pc'[d] = pc[d]
  BY <1>2, <1>3, <1>10 DEF StateTypes, AtType
<1>13. ASSUME NEW d \in CPUs, d # c
       PROVE  Walker(lv2, ix2, d)' /\ Storer(lv2, ix2, d)' /\ Copier(lv2, d)'
  <2>1. Walker(lv, ix, d) /\ Storer(lv, ix, d) /\ Copier(lv, d)
    BY <1>1 DEF Shape
  <2>2. pc'[c] = "copy" => at'[c].table \notin Pages
    BY <1>12
  <2> QED
    <3>1. Adding(c)' => at'[c].new_table \notin Pages
      BY <1>11, <1>12
    <3> QED
      <4>1. /\ d # c /\ top' = top /\ at'[d] = at[d] /\ call'[d] = call[d] /\ pc'[d] = pc[d]
            /\ \A x \in CPUs : x # c => at'[x] = at[x] /\ pc'[x] = pc[x]
        BY <1>3, <1>12, <1>13
      <4>2. /\ \A p \in Pages : p \in Pages' /\ tables'[p] = tables[p] /\ lv2[p] = lv[p] /\ ix2[p] = ix[p]
            /\ \A p \in Pages', i \in Index : Linked(lv2, p, i)' => p \in Pages /\ Linked(lv, p, i)
        BY <1>11
      <4> QED
        BY <1>2, <1>4, <2>1, <2>2, <3>1, <4>1, <4>2, OthersAlloc
<1>14. Walker(lv2, ix2, c)'
  <2>1. PICK w : Leads(lv, c, w)
    BY <1>3, <1>4 DEF Walker, InWalk
  <2>2. /\ w \in [1 .. at[c].level -> Pages] /\ w[1] = top[call[c].m] /\ w[at[c].level] = at[c].table
        /\ \A k \in 1 .. at[c].level : lv[w[k]] = k
        /\ \A k \in 1 .. at[c].level - 1 :
             /\ getFlag(tables[w[k]][call[c].va[k]], "present")
             /\ tables[w[k]][call[c].va[k]].addr = w[k + 1]
    BY <2>1 DEF Leads
  <2>3. /\ w \in [1 .. at[c].level -> Pages'] /\ \A k \in 1 .. at[c].level : lv2[w[k]] = k
    BY <1>11, <2>2
  <2>4. \A k \in 1 .. at[c].level - 1 : tables'[w[k]] = tables[w[k]]
    <3>1. \A k \in 1 .. at[c].level - 1 : k \in 1 .. at[c].level
      BY <1>5, VMemoryAssumption
    <3> QED
      BY <1>11, <2>2, <3>1
  <2>5. Leads(lv2, c, w)'
    BY <1>3, <1>12, <2>2, <2>3, <2>4 DEF Leads, getFlag
  <2>6. \A k \in 1 .. at[c].level - 1 : ix[at[c].table][k] = call[c].va[k]
    BY <1>3, <1>4 DEF Walker, InWalk
  <2>7. AtLeaf(c)'
    BY <1>3, <1>12 DEF AtLeaf
  <2> QED
    BY <1>3, <1>5, <1>11, <1>12, <2>5, <2>6, <2>7 DEF Walker
<1>15. Storer(lv2, ix2, c)'
  <2>2. pc'[c] # "storeAddress"
    BY <1>12
  <2>3. CASE a = 0
    BY <1>12, <2>2, <2>3 DEF Storer
  <2>4. CASE a # 0
    <3>1. Unlinked(lv2, a)'
      <4>1. SUFFICES ASSUME NEW p \in Pages', NEW i \in Index, Linked(lv2, p, i)' PROVE tables'[p][i].addr # a
        BY DEF Unlinked
      <4>2. p \in Pages /\ Linked(lv, p, i) /\ tables'[p] = tables[p]
        BY <1>11, <4>1
      <4>3. tables[p][i].addr \in Pages
        BY <1>4, <4>2 DEF Links
      <4> QED
        BY <1>11, <4>2, <4>3
    <3>2. \A d \in CPUs : d # c /\ Adding(d)' => at'[d].new_table # a
      <4>1. SUFFICES ASSUME NEW d \in CPUs, d # c, Adding(d)', at'[d].new_table = a PROVE FALSE
        OBVIOUS
      <4>2. Adding(d) /\ at[d].new_table = a
        BY <1>12, <4>1 DEF Adding
      <4>3. a \in Pages
        BY <1>1, <2>4, <4>2 DEF Shape, Storer
      <4> QED
        BY <1>11, <4>3
    <3>3. \A k \in 1 .. at[c].level : ix2[a][k] = call[c].va[k]
      BY <1>11, <2>4
    <3>4. /\ at'[c].level < Depth /\ at'[c].new_table = a /\ at'[c].level = at[c].level /\ call'[c] = call[c]
      BY <1>3, <1>12
    <3>5. Unlinked(lv2, at[c].new_table)'
      BY <3>1, <3>4
    <3> QED
      BY <1>6, <1>11, <2>2, <2>4, <3>2, <3>3, <3>4, <3>5 DEF Storer
  <2> QED
    BY <2>3, <2>4
<1>16. Copier(lv2, c)'
  BY <1>12 DEF Copier
<1>17. Shape(lv2, ix2)'
  BY <1>11, <1>13, <1>14, <1>15, <1>16 DEF Shape
<1>18. StateTypes'
  <2>1. at' \in [CPUs -> AtType]
    BY <1>2, <1>3, <1>10, <1>11 DEF StateTypes, AtType
  <2>2. pc' \in [CPUs -> Steps]
    BY <1>2, <1>3 DEF StateTypes, Steps, InSection, InWalk, Accesses
  <2> QED
    BY <1>2, <1>3, <2>1, <2>2 DEF StateTypes
<1>19. CallInv'
  <2>1. Alive' = Alive
    BY <1>3 DEF Alive
  <2>2. Args(call[c])' /\ locked'[call'[c].m] = c
    BY <1>2, <1>3, <2>1 DEF CallInv, Args, InSection, InWalk
  <2>3. ~Copying(c)'
    BY <1>12 DEF Copying
  <2> QED
    BY <1>2, <1>3, <1>12, <2>1, <2>2, <2>3, CallsKept
<1>20. Fresh'
  <2>1. Entry(c)' = Entry(c)
    BY <1>3, <1>5, <1>11, <1>12 DEF Entry, Here
  <2>2. Alone(c)'
    BY <1>3, <1>12, <2>1 DEF Alone, getFlag
  <2>3. pc[c] \in InSection /\ Alive' = Alive
    BY <1>3 DEF InSection, InWalk, Alive
  <2> QED
    BY <1>2, <1>12, <2>2, <2>3, FreshLocked
<1> QED
  BY <1>2, <1>3, <1>11, <1>17, <1>18, <1>19, <1>20 DEF Good

\* newPagemap and clonePagemap: a page for the top of the new map.
LEMMA CopyAllocGood ==
  ASSUME CopyInv, Good, NEW c \in CPUs, CopyAlloc(c)
  PROVE  Good'
<1>1. PICK lv, ix : Shape(lv, ix)
  BY DEF Good
<1>2. StateTypes /\ TableTypes /\ CallInv /\ Fresh /\ ~lost /\ ~atNull
  BY DEF Good
<1>3. /\ pc[c] = "alloc" /\ tables' = Zeroed(Alloc) /\ at' = [at EXCEPT ![c].table = Alloc]
      /\ pc' = [pc EXCEPT ![c] = "copy"]
      /\ UNCHANGED <<top, locked, call, lost, atNull>>
  BY DEF CopyAlloc
<1>4. Places(lv, ix) /\ Links(lv, ix) /\ Tops(lv)
  BY <1>1 DEF Shape
<1>5. PICK v : v \in VAddr
  <2>1. PICK i : i \in Index
    BY VMemoryAssumption
  <2>2. [k \in 1 .. Depth |-> i] \in VAddr
    BY <2>1 DEF VAddr
  <2> QED
    BY <2>2
<1>6. 1 \in 1 .. Depth
  BY VMemoryAssumption
<1>7. PICK lv2 : lv2 = [p \in Pages' |-> IF p \in Pages THEN lv[p] ELSE 1]
  OBVIOUS
<1>8. PICK ix2 : ix2 = [p \in Pages' |-> IF p \in Pages THEN ix[p] ELSE v]
  OBVIOUS
<1>9. PICK a : a = Alloc
  OBVIOUS
<1>10. /\ TableTypes' /\ a \notin Pages /\ a \in TablePages \cup {0}
       /\ \A p \in Pages : p \in Pages' /\ tables'[p] = tables[p] /\ lv2[p] = lv[p] /\ ix2[p] = ix[p]
       /\ a # 0 => a \in Pages' /\ tables'[a] = EmptyTable /\ lv2[a] = 1 /\ ix2[a] = v
       /\ Places(lv2, ix2)' /\ Links(lv2, ix2)' /\ Tops(lv2)'
       /\ \A p \in Pages', i \in Index : Linked(lv2, p, i)' => p \in Pages /\ Linked(lv, p, i)
  BY <1>2, <1>3, <1>4, <1>5, <1>6, <1>7, <1>8, <1>9, ZeroedKeeps
<1>11. /\ at'[c].table = a /\ pc'[c] = "copy"
       /\ \A d \in CPUs : d # c => at'[d] = at[d] /\ call'[d] = call[d] /\ pc'[d] = pc[d]
  BY <1>2, <1>3, <1>9 DEF StateTypes, AtType
<1>12. ASSUME NEW d \in CPUs, d # c
       PROVE  Walker(lv2, ix2, d)' /\ Storer(lv2, ix2, d)' /\ Copier(lv2, d)'
  <2>1. Walker(lv, ix, d) /\ Storer(lv, ix, d) /\ Copier(lv, d)
    BY <1>1 DEF Shape
  <2>2. ~Adding(c)'
    BY <1>11 DEF Adding, Accesses
  <2> QED
    BY <1>2, <1>3, <1>4, <1>10, <1>11, <1>12, <2>1, <2>2, OthersAlloc
<1>13. Walker(lv2, ix2, c)' /\ Storer(lv2, ix2, c)'
  BY <1>11 DEF Walker, Storer, Adding, InWalk, Accesses
<1>14. Copier(lv2, c)'
  <2>1. SUFFICES ASSUME a # 0 PROVE Copier(lv2, c)'
    BY <1>11 DEF Copier
  <2>2. ASSUME NEW m \in Maps PROVE top'[m] # a
    <3>1. CASE top[m] = NoTop
      BY <1>3, <1>10, <2>1, <3>1, VMemoryAssumption DEF NoTop
    <3>2. CASE top[m] # NoTop
      <4>1. top[m] \in Pages
        BY <1>4, <3>2 DEF Tops, Alive
      <4> QED
        BY <1>3, <1>10, <4>1
    <3> QED
      BY <3>1, <3>2
  <2>3. ASSUME NEW d \in CPUs, d # c, pc'[d] = "copy" PROVE at'[d].table # a
    <3>1. pc[d] = "copy" /\ at'[d] = at[d] /\ Copier(lv, d)
      BY <1>1, <1>11, <2>3 DEF Shape
    <3>2. CASE at[d].table = 0
      BY <2>1, <3>1, <3>2
    <3>3. CASE at[d].table # 0
      BY <1>10, <3>1, <3>3 DEF Copier
    <3> QED
      BY <3>2, <3>3
  <2> QED
    BY <1>10, <1>11, <2>1, <2>2, <2>3 DEF Copier
<1>15. Shape(lv2, ix2)'
  BY <1>10, <1>12, <1>13, <1>14 DEF Shape
<1>16. StateTypes'
  <2>1. a \in TableAddrs
    BY <1>10 DEF TableAddrs
  <2>2. at' \in [CPUs -> AtType]
    BY <1>2, <1>3, <1>9, <2>1 DEF StateTypes, AtType
  <2>3. pc' \in [CPUs -> Steps]
    BY <1>2, <1>3 DEF StateTypes, Steps
  <2> QED
    BY <1>2, <1>3, <2>2, <2>3 DEF StateTypes
<1>17. CallInv'
  <2>1. Alive' = Alive
    BY <1>3 DEF Alive
  <2>2. Copying(c) /\ pc'[c] \notin InSection \cup {"lock"}
    BY <1>3, <1>11 DEF Copying, InSection, InWalk, Accesses
  <2>3. call'[c].old \in Alive' /\ call'[c].left \subseteq Index
    BY <1>2, <1>3, <2>1, <2>2 DEF CallInv
  <2> QED
    BY <1>2, <1>3, <1>11, <2>1, <2>2, <2>3, CallsKept
<1>18. Fresh'
  <2>1. ASSUME NEW d \in CPUs, d # c, pc[d] \in InWalk PROVE Entry(d)' = Entry(d)
    <3>1. at[d].table \in Pages
      BY <1>1, <2>1 DEF Shape, Walker
    <3> QED
      BY <1>10, <1>11, <2>1, <3>1 DEF Entry, Here
  <2>2. pc'[c] \notin Accesses /\ Alive' = Alive
    BY <1>3, <1>11 DEF Accesses, Alive
  <2> QED
    BY <1>2, <1>11, <2>1, <2>2, AloneOff, FreshKept
<1> QED
  BY <1>2, <1>3, <1>10, <1>15, <1>16, <1>17, <1>18 DEF Good

-----------------------------------------------------------------------------
\* One entry of one table is written.
LEMMA OneEntry ==
  ASSUME TableTypes, NEW p \in DOMAIN tables, NEW i \in Index, NEW e \in EntryType, Written(p, i, e)
  PROVE  /\ TableTypes' /\ Pages' = Pages /\ tables'[p][i] = e
         /\ \A q \in DOMAIN tables : q # p => tables'[q] = tables[q]
         /\ \A q \in DOMAIN tables, j \in Index : q # p \/ j # i => tables'[q][j] = tables[q][j]
<1>1. DOMAIN tables' = DOMAIN tables
  BY DEF Written
<1>2. tables[p] \in [Index -> EntryType]
  BY DEF TableTypes
<1>3. tables'[p] = [tables[p] EXCEPT ![i] = e] /\ \A q \in DOMAIN tables : q # p => tables'[q] = tables[q]
  BY DEF Written
<1>4. tables'[p] \in [Index -> EntryType] /\ tables'[p][i] = e /\ \A j \in Index : j # i => tables'[p][j] = tables[p][j]
  BY <1>2, <1>3
<1>5. \A q \in DOMAIN tables : tables'[q] \in [Index -> EntryType]
  BY <1>3, <1>4 DEF TableTypes
<1>6. tables' \in [DOMAIN tables' -> [Index -> EntryType]]
  BY <1>1, <1>5 DEF Written
<1>7. TableTypes'
  BY <1>1, <1>6 DEF TableTypes
<1> QED
  BY <1>1, <1>3, <1>4, <1>7 DEF Pages

\* setAddress and setFlags make entries of entries.
LEMMA AddressType ==
  ASSUME NEW e \in EntryType, NEW a \in Addrs, NEW x, x = [e EXCEPT !.addr = a]
  PROVE  x \in EntryType /\ x.addr = a /\ x.flags = e.flags
  BY DEF EntryType

LEMMA FlagsType ==
  ASSUME NEW e \in EntryType, NEW f \in SUBSET FlagNames, NEW x,
         \/ x = [e EXCEPT !.flags = e.flags \cup f]
         \/ x = [e EXCEPT !.flags = e.flags \ f]
  PROVE  /\ x \in EntryType /\ x.addr = e.addr
         /\ x = [e EXCEPT !.flags = e.flags \cup f] => f \subseteq x.flags
<1>1. e.flags \cup f \in SUBSET FlagNames /\ e.flags \ f \in SUBSET FlagNames
  BY DEF EntryType
<1> QED
  BY <1>1 DEF EntryType

\* get_next_lvl links the table.  If somebody else has changed the entry, that
\* was through another map; without memory the table is page 0.
LEMMA LinkGood ==
  ASSUME CopyInv, Good, NEW c \in CPUs, LinkTable(c)
  PROVE  Good' \/ Broken'
<1>1. PICK lv, ix : Shape(lv, ix)
  BY DEF Good
<1>2. StateTypes /\ TableTypes /\ CallInv /\ Fresh /\ ~lost /\ ~atNull
  BY DEF Good
<1>3. PICK p, i, q, n : p = at[c].table /\ i = Here(c) /\ q = at[c].new_table /\ n = at[c].level
  OBVIOUS
<1>4. PICK e : e = setFlags(at[c].seen, {"present", "rw", "user"}, TRUE)
  OBVIOUS
<1>5. /\ pc[c] = "storeFlags" /\ n < Depth
      /\ lost' = (lost \/ Entry(c) # at[c].seen \/ at[c].seen.addr # q) /\ atNull' = (atNull \/ q = 0)
      /\ Written(p, i, e)
      /\ at' = [at EXCEPT ![c] = At(n + 1, q)]
      /\ pc' = [pc EXCEPT ![c] = "walk"]
      /\ UNCHANGED <<top, locked, call>>
  BY <1>3, <1>4 DEF LinkTable
<1>6. /\ Places(lv, ix) /\ Links(lv, ix) /\ Tops(lv) /\ Walker(lv, ix, c) /\ Storer(lv, ix, c)
      /\ pc[c] \in InWalk /\ Adding(c)
  BY <1>1, <1>3, <1>5 DEF Shape, Adding, InWalk, Accesses
<1>7. /\ n \in 1 .. Depth /\ p \in Pages /\ lv[p] = n /\ call[c].va \in VAddr /\ i \in Index
      /\ call[c].m \in Alive /\ locked[call[c].m] = c /\ i = call[c].va[n]
  BY <1>2, <1>3, <1>6, WalkerPlace DEF Here
<1>8. Alive' = Alive /\ Several' = Several
  BY <1>5 DEF Alive, Several
<1>9. CASE q = 0
  BY <1>5, <1>9 DEF Broken
<1>10. CASE Entry(c) # at[c].seen \/ at[c].seen.addr # q
  <2>1. Address(c) = q /\ Addresses(c)
    BY <1>3, <1>5 DEF Address, Addresses
  <2>2. Several
    BY <1>2, <1>5, <1>10, <2>1 DEF Fresh, Alone
  <2> QED
    BY <1>5, <1>8, <1>10, <2>2 DEF Broken
<1>11. CASE q # 0 /\ Entry(c) = at[c].seen /\ at[c].seen.addr = q
  <2>1. ~getFlag(tables[p][i], "present")
    <3>1. tables[p][i].addr = q /\ Unlinked(lv, q)
      BY <1>3, <1>6, <1>11 DEF Entry, Storer
    <3> QED
      BY <1>5, <1>7, <3>1 DEF Unlinked, Linked
  <2>2. /\ n < Depth /\ q \in Pages /\ tables[q] = EmptyTable /\ lv[q] = n + 1
        /\ \A k \in 1 .. n : ix[q][k] = call[c].va[k]
        /\ Unlinked(lv, q)
        /\ \A d \in CPUs : d # c /\ Adding(d) => at[d].new_table # q
    BY <1>3, <1>5, <1>6, <1>11 DEF Storer
  <2>3. n \in Nat \ {0} /\ n + 1 \in 1 .. Depth /\ Depth \in Nat /\ (n + 1) - 1 = n
    BY <1>7, <2>2, VMemoryAssumption
  <2>4. p \in DOMAIN tables /\ q \in DOMAIN tables /\ q \in TableAddrs /\ tables[p][i] \in EntryType
    BY <1>2, <1>7, <2>2 DEF TableTypes, Pages
  <2>5. e \in EntryType /\ e.addr = q /\ getFlag(e, "present")
    <3>1. at[c].seen = tables[p][i]
      BY <1>3, <1>11 DEF Entry
    <3>2. PICK f : f = {"present", "rw", "user"}
      OBVIOUS
    <3>3. f \in SUBSET FlagNames /\ "present" \in f
      BY <3>2 DEF FlagNames
    <3>4. e = [at[c].seen EXCEPT !.flags = at[c].seen.flags \cup f]
      BY <1>4, <3>2 DEF setFlags
    <3> QED
      BY <1>11, <2>4, <3>1, <3>3, <3>4, FlagsType DEF getFlag
  <2>6. /\ TableTypes' /\ Pages' = Pages /\ tables'[p][i] = e
        /\ \A r \in DOMAIN tables : r # p => tables'[r] = tables[r]
        /\ \A r \in DOMAIN tables, j \in Index : r # p \/ j # i => tables'[r][j] = tables[r][j]
    <3>1. TableTypes /\ p \in DOMAIN tables /\ i \in Index /\ e \in EntryType
      BY <1>2, <1>7, <2>4, <2>5
    <3> QED
      BY <1>5, <3>1, OneEntry
  <2>7. /\ at'[c].level = n + 1 /\ at'[c].table = q /\ pc'[c] = "walk" /\ call' = call
        /\ \A d \in CPUs : d # c => at'[d] = at[d] /\ call'[d] = call[d] /\ pc'[d] = pc[d]
    BY <1>2, <1>5 DEF StateTypes, At
  <2>8. ASSUME NEW r \in Pages, NEW j \in Index
        PROVE  \/ r = p /\ j = i /\ tables'[r][j] = e
               \/ tables'[r][j] = tables[r][j] /\ (Linked(lv, r, j)' <=> Linked(lv, r, j))
    <3>1. r \in DOMAIN tables
      BY DEF Pages
    <3> QED
      BY <2>6, <3>1 DEF Linked, getFlag
  <2>9. ASSUME NEW r \in Pages, NEW j \in Index, getFlag(tables[r][j], "present")
        PROVE  tables'[r][j] = tables[r][j]
    BY <2>1, <2>8, <2>9
  <2>10. Places(lv, ix)' /\ Tops(lv)'
    BY <1>5, <1>6, <1>8, <2>6 DEF Places, Tops
  <2>11. Links(lv, ix)'
    <3>1. SUFFICES ASSUME NEW r \in Pages, NEW j \in Index, Linked(lv, r, j)'
                   PROVE  /\ tables'[r][j].addr \in Pages
                          /\ lv[tables'[r][j].addr] = lv[r] + 1
                          /\ ix[tables'[r][j].addr][lv[r]] = j
                          /\ \A k \in 1 .. lv[r] - 1 : ix[tables'[r][j].addr][k] = ix[r][k]
      BY <2>6 DEF Links
    <3>2. CASE r = p /\ j = i
      <4>1. tables'[r][j].addr = q
        BY <2>5, <2>6, <3>2
      <4>2. \A k \in 1 .. n - 1 : ix[q][k] = ix[p][k]
        <5>1. \A k \in 1 .. n - 1 : ix[p][k] = call[c].va[k] /\ k \in 1 .. n
          BY <1>3, <1>6, <2>3 DEF Walker
        <5> QED
          BY <2>2, <5>1
      <4>3. n \in 1 .. n
        BY <2>3
      <4> QED
        BY <1>7, <2>2, <3>2, <4>1, <4>2, <4>3
    <3>3. CASE ~(r = p /\ j = i)
      <4>1. tables'[r][j] = tables[r][j] /\ Linked(lv, r, j)
        BY <2>8, <3>1, <3>3
      <4> QED
        BY <1>6, <4>1 DEF Links
    <3> QED
      BY <3>2, <3>3
  <2>12. ASSUME NEW d \in CPUs, d # c PROVE Walker(lv, ix, d)'
    <3>1. ASSUME NEW w, pc[d] \in InWalk, Leads(lv, d, w), NEW k \in 1 .. at[d].level - 1
          PROVE  tables'[w[k]][call[d].va[k]] = tables[w[k]][call[d].va[k]]
      <4>1. at[d].level \in 1 .. Depth /\ call[d].va \in VAddr
        BY <1>1, <1>2, <3>1, WalkerPlace DEF Shape
      <4>2. k \in 1 .. at[d].level /\ k \in 1 .. Depth
        BY <2>3, <4>1
      <4>3. w[k] \in Pages /\ call[d].va[k] \in Index /\ getFlag(tables[w[k]][call[d].va[k]], "present")
        BY <3>1, <4>1, <4>2 DEF Leads, VAddr
      <4> QED
        BY <2>9, <4>3
    <3>2. Walker(lv, ix, d)
      BY <1>1 DEF Shape
    <3> QED
      BY <1>5, <2>6, <2>7, <2>12, <3>1, <3>2, WalkerKept
  <2>13. Walker(lv, ix, c)'
    <3>1. PICK w : Leads(lv, c, w)
      BY <1>6 DEF Walker
    <3>2. /\ w \in [1 .. n -> Pages] /\ w[1] = top[call[c].m] /\ w[n] = p
          /\ \A k \in 1 .. n : lv[w[k]] = k
          /\ \A k \in 1 .. n - 1 :
               /\ getFlag(tables[w[k]][call[c].va[k]], "present")
               /\ tables[w[k]][call[c].va[k]].addr = w[k + 1]
      BY <1>3, <3>1 DEF Leads
    <3>3. PICK v : v = [k \in 1 .. n + 1 |-> IF k = n + 1 THEN q ELSE w[k]]
      OBVIOUS
    <3>4. /\ v \in [1 .. n + 1 -> Pages] /\ v[n + 1] = q /\ v[1] = w[1]
          /\ \A k \in 1 .. n : v[k] = w[k] /\ k \in 1 .. n + 1
      BY <2>2, <2>3, <3>2, <3>3, LongerWay
    <3>5. \A k \in 1 .. n + 1 : lv[v[k]] = k
      <4>1. \A k \in 1 .. n + 1 : k = n + 1 \/ k \in 1 .. n
        BY <2>3
      <4> QED
        BY <2>2, <3>2, <3>4, <4>1
    <3>6. ASSUME NEW k \in 1 .. n
          PROVE  /\ getFlag(tables'[v[k]][call[c].va[k]], "present")
                 /\ tables'[v[k]][call[c].va[k]].addr = v[k + 1]
      <4>1. v[k] = w[k]
        BY <3>4
      <4>2. CASE k = n
        BY <1>7, <2>5, <2>6, <3>2, <3>4, <4>1, <4>2
      <4>3. CASE k # n
        <5>1. k \in 1 .. n - 1 /\ k + 1 \in 1 .. n /\ k \in 1 .. Depth
          BY <2>3, <4>3
        <5>2. w[k] \in Pages /\ call[c].va[k] \in Index
          BY <1>7, <3>2, <5>1 DEF VAddr
        <5>3. /\ getFlag(tables[w[k]][call[c].va[k]], "present")
              /\ tables[w[k]][call[c].va[k]].addr = w[k + 1]
          BY <3>2, <5>1
        <5>4. tables'[w[k]][call[c].va[k]] = tables[w[k]][call[c].va[k]]
          BY <2>9, <5>2, <5>3
        <5> QED
          BY <3>4, <4>1, <5>1, <5>3, <5>4
      <4> QED
        BY <4>2, <4>3
    <3>7. Leads(lv, c, v)'
      BY <1>5, <2>3, <2>6, <2>7, <3>2, <3>4, <3>5, <3>6 DEF Leads, getFlag
    <3>8. /\ at'[c].level \in 1 .. Depth /\ at'[c].table \in Pages' /\ lv[at'[c].table] = at'[c].level
      BY <2>2, <2>3, <2>6, <2>7
    <3>9. \A k \in 1 .. at'[c].level - 1 : ix[at'[c].table][k] = call'[c].va[k]
      BY <2>2, <2>3, <2>7
    <3>10. AtLeaf(c)'
      BY <2>7 DEF AtLeaf
    <3> QED
      BY <3>7, <3>8, <3>9, <3>10 DEF Walker
  <2>14. ASSUME NEW d \in CPUs, d # c PROVE Storer(lv, ix, d)'
    <3>1. SUFFICES ASSUME Adding(d) PROVE Storer(lv, ix, d)'
      BY <2>7, <2>14 DEF Storer, Adding
    <3>2. /\ at'[d] = at[d] /\ call'[d] = call[d] /\ pc'[d] = pc[d] /\ pc[d] \in InWalk
          /\ Walker(lv, ix, d) /\ Storer(lv, ix, d)
      BY <1>1, <2>7, <2>14, <3>1 DEF Shape, Adding, InWalk
    <3>3. at[d].table \in Pages /\ Here(d) \in Index
      BY <1>2, <3>2, WalkerPlace
    <3>4. pc[d] = "storeAddress" /\ getFlag(at[d].seen, "present") => getFlag(Entry(d), "present")
      BY <3>1, <3>2 DEF Storer
    <3>5. pc'[d] = "storeAddress" /\ getFlag(at'[d].seen, "present") => getFlag(Entry(d), "present")'
      <4>1. CASE at[d].table = p /\ Here(d) = i
        BY <2>5, <2>6, <3>2, <4>1 DEF Entry, Here, getFlag
      <4>2. CASE ~(at[d].table = p /\ Here(d) = i)
        <5>1. tables'[at[d].table][Here(d)] = tables[at[d].table][Here(d)]
          BY <2>8, <3>3, <4>2
        <5>2. Entry(d)' = Entry(d)
          BY <3>2, <5>1 DEF Entry, Here
        <5> QED
          BY <3>2, <3>4, <5>2 DEF getFlag
      <4> QED
        BY <4>1, <4>2
    <3>6. CASE at[d].new_table = 0
      BY <3>2, <3>5, <3>6 DEF Storer
    <3>7. CASE at[d].new_table # 0
      <4>1. PICK a : a = at[d].new_table
        OBVIOUS
      <4>2. /\ a \in Pages /\ tables[a] = EmptyTable /\ lv[a] = at[d].level + 1
            /\ \A k \in 1 .. at[d].level : ix[a][k] = call[d].va[k]
            /\ Unlinked(lv, a)
            /\ \A x \in CPUs : x # d /\ Adding(x) => at[x].new_table # a
        BY <3>1, <3>2, <3>7, <4>1 DEF Storer
      <4>3. p # a
        BY <1>2, <1>3, <1>6, <3>1, <3>2, <3>7, <4>1, NotNew
      <4>4. tables'[a] = EmptyTable
        <5>1. a \in DOMAIN tables
          BY <4>2 DEF Pages
        <5> QED
          BY <2>6, <4>2, <4>3, <5>1
      <4>5. Unlinked(lv, a)'
        <5>1. SUFFICES ASSUME NEW r \in Pages, NEW j \in Index, Linked(lv, r, j)' PROVE tables'[r][j].addr # a
          BY <2>6 DEF Unlinked
        <5>2. q # a
          BY <2>2, <2>14, <3>1, <4>1
        <5> QED
          BY <2>5, <2>8, <4>2, <5>1, <5>2 DEF Unlinked
      <4>6. \A x \in CPUs : x # d /\ Adding(x)' => at'[x].new_table # a
        <5>1. \A x \in CPUs : Adding(x)' => x # c /\ Adding(x) /\ at'[x] = at[x]
          BY <2>7 DEF Adding, Accesses
        <5> QED
          BY <4>2, <5>1
      <4>7. Unlinked(lv, at[d].new_table)' /\ at'[d].new_table = a
        BY <3>2, <4>1, <4>5
      <4> QED
        BY <2>6, <3>2, <3>5, <4>2, <4>4, <4>6, <4>7 DEF Storer
    <3> QED
      BY <3>6, <3>7
  <2>15. Storer(lv, ix, c)' /\ Copier(lv, c)'
    BY <2>7 DEF Storer, Copier, Adding, Accesses
  <2>16. ASSUME NEW d \in CPUs, d # c PROVE Copier(lv, d)'
    <3>1. at'[d] = at[d] /\ pc'[d] = pc[d] /\ Copier(lv, d)
      BY <1>1, <2>7, <2>16 DEF Shape
    <3>2. \A x \in CPUs : pc'[x] = "copy" => pc[x] = "copy" /\ at'[x] = at[x]
      BY <2>7
    <3> QED
      BY <1>5, <2>6, <3>1, <3>2 DEF Copier
  <2>17. Shape(lv, ix)'
    BY <2>10, <2>11, <2>12, <2>13, <2>14, <2>15, <2>16 DEF Shape
  <2>18. StateTypes'
    <3>1. n + 1 \in 0 .. Depth
      BY <2>3
    <3>2. at' \in [CPUs -> AtType]
      BY <1>2, <1>5, <2>4, <3>1, AtTyped DEF StateTypes
    <3>3. pc' \in [CPUs -> Steps]
      BY <1>2, <1>5 DEF StateTypes, Steps, InSection, InWalk
    <3> QED
      BY <1>2, <1>5, <3>2, <3>3 DEF StateTypes
  <2>19. CallInv'
    <3>1. Args(call[c])' /\ locked'[call'[c].m] = c
      BY <1>2, <1>5, <1>6, <1>7, <1>8 DEF CallInv, Args, InSection
    <3>2. ~Copying(c)'
      BY <2>7 DEF Copying
    <3> QED
      BY <1>2, <1>5, <1>8, <2>7, <3>1, <3>2, CallsKept
  <2>20. ~lost' /\ ~atNull'
    BY <1>2, <1>5, <1>11
  <2>21. Fresh'
    <3>1. pc'[c] \notin Accesses /\ pc[c] \in InSection
      BY <1>6, <2>7 DEF Accesses, InSection
    <3> QED
      BY <1>2, <1>8, <2>7, <3>1, AloneOff, FreshLocked
  <2> QED
    BY <2>6, <2>17, <2>18, <2>19, <2>20, <2>21 DEF Good
<1> QED
  BY <1>9, <1>10, <1>11

-----------------------------------------------------------------------------
\* The shape is kept by a write to an entry that is on no way, if it leads
\* nowhere or where another of its index leads.
LEMMA WriteKeeps ==
  ASSUME TableTypes, StateTypes, CallInv, NEW lv, NEW ix, Shape(lv, ix),
         NEW p \in DOMAIN tables, NEW i \in Index, NEW e \in EntryType, Written(p, i, e), top' = top, at' = at,
         \A d \in CPUs : pc'[d] = "copy" => pc[d] = "copy",
         \A d \in CPUs : pc'[d] \in InWalk => pc[d] \in InWalk /\ call'[d] = call[d] /\ AtLeaf(d)',
         \A d \in CPUs : Adding(d)' => Adding(d) /\ (pc'[d] = "storeAddress" => pc[d] = "storeAddress"),
         \A d \in CPUs : \A w : pc[d] \in InWalk /\ Leads(lv, d, w) =>
           \A k \in 1 .. at[d].level - 1 : w[k] # p \/ call[d].va[k] # i,
         \A d \in CPUs : Adding(d) /\ at[d].new_table # 0 => at[d].new_table # p,
         \A d \in CPUs : Adding(d) /\ at[d].table = p /\ Here(d) = i /\ getFlag(tables[p][i], "present") =>
           getFlag(e, "present"),
         p # 0 /\ lv[p] < Depth /\ getFlag(e, "present") =>
           \E r \in Pages : Linked(lv, r, i) /\ tables[r][i].addr = e.addr /\ lv[r] = lv[p] /\ lv[p] = 1
  PROVE  TableTypes' /\ Shape(lv, ix)'
<1>1. /\ TableTypes' /\ Pages' = Pages /\ tables'[p][i] = e
      /\ \A r \in DOMAIN tables : r # p => tables'[r] = tables[r]
      /\ \A r \in DOMAIN tables, j \in Index : r # p \/ j # i => tables'[r][j] = tables[r][j]
  BY OneEntry
<1>2. Places(lv, ix) /\ Links(lv, ix) /\ Tops(lv)
  BY DEF Shape
<1>3. Alive' = Alive /\ Several' = Several
  BY DEF Alive, Several
<1>4. Places(lv, ix)' /\ Tops(lv)'
  BY <1>1, <1>2, <1>3 DEF Places, Tops
\* What is linked now was linked before, from a table of the same level.
<1>5. ASSUME NEW r \in Pages, NEW j \in Index, Linked(lv, r, j)'
      PROVE  \E s \in Pages : /\ Linked(lv, s, j) /\ tables[s][j].addr = tables'[r][j].addr
                              /\ lv[s] = lv[r] /\ (s = r \/ lv[r] = 1)
  <2>1. CASE r = p /\ j = i
    <3>1. p # 0 /\ lv[p] < Depth /\ getFlag(e, "present")
      BY <1>1, <1>5, <2>1 DEF Pages, Linked, getFlag
    <3>2. PICK s \in Pages : Linked(lv, s, i) /\ tables[s][i].addr = e.addr /\ lv[s] = lv[p] /\ lv[p] = 1
      BY <3>1
    <3> QED
      BY <1>1, <2>1, <3>2
  <2>2. CASE ~(r = p /\ j = i)
    <3>1. r \in DOMAIN tables
      BY DEF Pages
    <3>2. tables'[r][j] = tables[r][j]
      BY <1>1, <2>2, <3>1
    <3>3. Linked(lv, r, j)
      BY <1>5, <3>2 DEF Linked, getFlag
    <3> QED
      BY <3>2, <3>3
  <2> QED
    BY <2>1, <2>2
<1>6. Links(lv, ix)'
  <2>1. SUFFICES ASSUME NEW r \in Pages, NEW j \in Index, Linked(lv, r, j)'
                 PROVE  /\ tables'[r][j].addr \in Pages
                        /\ lv[tables'[r][j].addr] = lv[r] + 1
                        /\ ix[tables'[r][j].addr][lv[r]] = j
                        /\ \A k \in 1 .. lv[r] - 1 : ix[tables'[r][j].addr][k] = ix[r][k]
    BY <1>1 DEF Links
  <2>2. PICK s \in Pages : /\ Linked(lv, s, j) /\ tables[s][j].addr = tables'[r][j].addr
                           /\ lv[s] = lv[r] /\ (s = r \/ lv[r] = 1)
    BY <1>5, <2>1
  <2>3. /\ tables[s][j].addr \in Pages
        /\ lv[tables[s][j].addr] = lv[s] + 1
        /\ ix[tables[s][j].addr][lv[s]] = j
        /\ \A k \in 1 .. lv[s] - 1 : ix[tables[s][j].addr][k] = ix[s][k]
    BY <1>2, <2>2 DEF Links
  <2>4. CASE s = r
    BY <2>2, <2>3, <2>4
  <2>5. CASE lv[r] = 1
    <3>1. \A k \in 1 .. lv[r] - 1 : FALSE
      BY <2>5
    <3> QED
      BY <2>2, <2>3, <3>1
  <2> QED
    BY <2>2, <2>4, <2>5
<1>7. ASSUME NEW d \in CPUs PROVE Walker(lv, ix, d)'
  <2>1. Walker(lv, ix, d)
    BY DEF Shape
  <2>2. ASSUME NEW w, pc[d] \in InWalk, Leads(lv, d, w), NEW k \in 1 .. at[d].level - 1
        PROVE  tables'[w[k]][call[d].va[k]] = tables[w[k]][call[d].va[k]]
    <3>1. at[d].level \in 1 .. Depth /\ Depth \in Nat /\ call[d].va \in VAddr
      BY <2>1, <2>2, WalkerPlace, VMemoryAssumption
    <3>2. k \in 1 .. at[d].level /\ k \in 1 .. Depth
      BY <3>1
    <3>3. w[k] \in DOMAIN tables /\ call[d].va[k] \in Index
      BY <2>2, <3>1, <3>2 DEF Leads, Pages, VAddr
    <3>4. w[k] # p \/ call[d].va[k] # i
      BY <2>2, Zenon
    <3> QED
      BY <1>1, <3>3, <3>4
  <2> QED
    BY <1>1, <2>1, <2>2, WalkerStays
<1>8. ASSUME NEW d \in CPUs PROVE Storer(lv, ix, d)'
  <2>1. SUFFICES ASSUME Adding(d)' PROVE Storer(lv, ix, d)'
    BY DEF Storer
  <2>2. /\ Adding(d) /\ pc[d] \in InWalk /\ call'[d] = call[d] /\ Walker(lv, ix, d) /\ Storer(lv, ix, d)
        /\ (pc'[d] = "storeAddress" => pc[d] = "storeAddress")
    BY <2>1 DEF Shape, Adding, InWalk
  <2>3. at[d].table \in DOMAIN tables /\ Here(d) \in Index
    BY <2>2, WalkerPlace DEF Pages
  <2>4. getFlag(Entry(d), "present") => getFlag(Entry(d), "present")'
    <3>1. Entry(d)' = tables'[at[d].table][Here(d)]
      BY <2>2 DEF Entry, Here
    <3>2. CASE at[d].table = p /\ Here(d) = i
      BY <1>1, <2>2, <3>1, <3>2 DEF Entry, getFlag
    <3>3. CASE ~(at[d].table = p /\ Here(d) = i)
      BY <1>1, <2>3, <3>1, <3>3 DEF Entry, getFlag
    <3> QED
      BY <3>2, <3>3
  <2>5. pc'[d] = "storeAddress" /\ getFlag(at'[d].seen, "present") => getFlag(Entry(d), "present")'
    BY <2>2, <2>4 DEF Storer, getFlag
  <2>7. CASE at[d].new_table = 0
    BY <2>5, <2>7 DEF Storer
  <2>8. CASE at[d].new_table # 0
    <3>1. PICK a : a = at[d].new_table
      OBVIOUS
    <3>2. /\ a \in Pages /\ tables[a] = EmptyTable /\ lv[a] = at[d].level + 1
          /\ \A k \in 1 .. at[d].level : ix[a][k] = call[d].va[k]
          /\ Unlinked(lv, a)
          /\ \A x \in CPUs : x # d /\ Adding(x) => at[x].new_table # a
      BY <2>2, <2>8, <3>1 DEF Storer
    <3>3. tables'[a] = EmptyTable
      <4>1. a \in DOMAIN tables /\ a # p
        BY <2>2, <2>8, <3>1, <3>2 DEF Pages
      <4> QED
        BY <1>1, <3>2, <4>1
    <3>4. Unlinked(lv, a)'
      <4>1. SUFFICES ASSUME NEW r \in Pages, NEW j \in Index, Linked(lv, r, j)' PROVE tables'[r][j].addr # a
        BY <1>1 DEF Unlinked
      <4>2. \E s \in Pages : Linked(lv, s, j) /\ tables[s][j].addr = tables'[r][j].addr
        BY <1>5, <4>1
      <4> QED
        BY <3>2, <4>2 DEF Unlinked
    <3>5. \A x \in CPUs : x # d /\ Adding(x)' => at'[x].new_table # a
      BY <3>2
    <3>6. Unlinked(lv, at[d].new_table)' /\ at'[d] = at[d]
      BY <3>1, <3>4
    <3> QED
      BY <1>1, <2>2, <2>5, <3>1, <3>2, <3>3, <3>5, <3>6 DEF Storer
  <2> QED
    BY <2>7, <2>8
<1>9. ASSUME NEW d \in CPUs PROVE Copier(lv, d)'
  <2>1. Copier(lv, d)
    BY DEF Shape
  <2>2. \A x \in CPUs : pc'[x] = "copy" => pc[x] = "copy"
    OBVIOUS
  <2> QED
    BY <1>1, <2>1, <2>2 DEF Copier
<1> QED
  BY <1>1, <1>4, <1>6, <1>7, <1>8, <1>9 DEF Shape

\* A call reads the entry it has come to.
LEMMA LoadGood ==
  ASSUME CopyInv, Good, NEW c \in CPUs, NEW from \in InWalk, NEW to \in InWalk, Load(c, from, to),
         AtLeaf(c)', Adding(c)' => Adding(c), Several \/ Alone(c)'
  PROVE  Good'
<1>1. PICK lv, ix : Shape(lv, ix)
  BY DEF Good
<1>2. StateTypes /\ TableTypes /\ CallInv /\ Fresh /\ ~lost /\ ~atNull
  BY DEF Good
<1>3. /\ pc[c] = from /\ at' = [at EXCEPT ![c].seen = Entry(c)] /\ pc' = [pc EXCEPT ![c] = to]
      /\ UNCHANGED <<tables, top, locked, call, lost, atNull>>
  BY DEF Load
<1>4. Walker(lv, ix, c)
  BY <1>1 DEF Shape
<1>5. at[c].table \in Pages /\ Here(c) \in Index
  BY <1>2, <1>3, <1>4, WalkerPlace
<1>6. /\ at'[c].level = at[c].level /\ at'[c].table = at[c].table /\ at'[c].new_table = at[c].new_table
      /\ at'[c].seen = Entry(c) /\ pc'[c] = to
      /\ \A d \in CPUs : d # c => at'[d] = at[d] /\ call'[d] = call[d] /\ pc'[d] = pc[d]
  BY <1>2, <1>3 DEF StateTypes, AtType
<1>7. Alive' = Alive /\ Pages' = Pages
  BY <1>3 DEF Alive, Pages
<1>8. Walker(lv, ix, c)'
  BY <1>3, <1>4, <1>6, <1>7, WalkerStays
<1>9. Shape(lv, ix)'
  <2>1. pc'[c] # "copy"
    BY <1>6 DEF InWalk, Accesses
  <2> QED
    BY <1>1, <1>3, <1>6, <1>8, <2>1, SameTables
<1>10. TableTypes'
  BY <1>2, <1>3 DEF TableTypes
<1>11. StateTypes'
  <2>1. Entry(c) \in EntryType
    BY <1>2, <1>5 DEF Entry, TableTypes, Pages
  <2>2. at' \in [CPUs -> AtType]
    BY <1>2, <1>3, <2>1 DEF StateTypes, AtType
  <2>3. pc' \in [CPUs -> Steps]
    BY <1>2, <1>3 DEF StateTypes, Steps, InSection
  <2> QED
    BY <1>2, <1>3, <2>2, <2>3 DEF StateTypes
<1>12. CallInv'
  <2>1. Args(call[c])' /\ locked'[call'[c].m] = c
    BY <1>2, <1>3, <1>7 DEF CallInv, Args, InSection
  <2>2. ~Copying(c)'
    BY <1>6 DEF Copying, InWalk, Accesses
  <2> QED
    BY <1>2, <1>3, <1>6, <1>7, <2>1, <2>2, CallsKept
<1>13. Fresh'
  BY <1>2, <1>3, <1>6, <1>7, FreshSame
<1> QED
  BY <1>2, <1>3, <1>9, <1>10, <1>11, <1>12, <1>13 DEF Good

LEMMA LeafGood ==
  ASSUME CopyInv, Good, NEW c \in CPUs, Leaf(c)
  PROVE  Good'
<1>1. at[c].level = Depth /\ Depth \in Nat /\ StateTypes /\ CallInv /\ pc[c] = "walk"
  BY VMemoryAssumption DEF Leaf, Load, Good
<1>2. Args(call[c])
  BY <1>1 DEF CallInv, InSection, InWalk
<1>3. ASSUME NEW to \in {"storeAddress", "storeFlags", "clear"}, Load(c, "walk", to),
             to = "storeAddress" => call[c].op = "map",
             to = "storeFlags" => call[c].op \in {"setFlags", "remFlags"},
             to = "clear" => call[c].op \in {"unmap", "remap"}
      PROVE  Good'
  <2>1. /\ at'[c].level = Depth /\ at'[c].table = at[c].table /\ at'[c].seen = Entry(c) /\ pc'[c] = to
        /\ call' = call /\ tables' = tables
    BY <1>1, <1>3 DEF Load, StateTypes, AtType
  <2>2. AtLeaf(c)'
    BY <1>1, <1>3, <2>1 DEF AtLeaf
  <2>3. ~Adding(c)'
    BY <1>1, <2>1 DEF Adding
  <2>4. Entry(c)' = Entry(c) /\ (to = "storeFlags" => ~Addresses(c)')
    BY <1>1, <1>3, <2>1 DEF Entry, Here, Addresses
  <2>5. Alone(c)'
    BY <1>3, <2>1, <2>3, <2>4 DEF Alone
  <2>6. "walk" \in InWalk /\ to \in InWalk
    BY <1>3 DEF InWalk, Accesses
  <2> QED
    BY <1>3, <2>2, <2>3, <2>5, <2>6, LoadGood
<1> QED
  BY <1>3 DEF Leaf

LEMMA LoadAddressGood ==
  ASSUME CopyInv, Good, NEW c \in CPUs, LoadAddress(c)
  PROVE  Good'
<1>1. PICK lv, ix : Shape(lv, ix)
  BY DEF Good
<1>2. StateTypes /\ Fresh /\ Walker(lv, ix, c)
  BY <1>1 DEF Good, Shape
<1>3. /\ at'[c].level = at[c].level /\ at'[c].table = at[c].table /\ at'[c].seen = Entry(c)
      /\ at'[c].new_table = at[c].new_table
      /\ pc[c] = "setAddress" /\ pc'[c] = "storeAddress" /\ call' = call /\ tables' = tables /\ top' = top
  BY <1>2 DEF LoadAddress, Load, StateTypes, AtType
<1>4. "setAddress" \in InWalk /\ "storeAddress" \in InWalk
  BY DEF InWalk, Accesses
<1>5. at[c].level < Depth /\ Adding(c)
  BY <1>2, <1>3, <1>4 DEF Walker, AtLeaf, Adding, Accesses
<1>6. AtLeaf(c)'
  <2>1. at[c].level # Depth
    BY <1>2, <1>3, <1>4, <1>5, VMemoryAssumption DEF Walker
  <2> QED
    BY <1>3, <2>1 DEF AtLeaf
<1>7. Several \/ Alone(c)'
  <2>1. Entry(c)' = Entry(c)
    BY <1>3 DEF Entry, Here
  <2> QED
    BY <1>2, <1>3, <1>5, <2>1 DEF Fresh, Alone, getFlag
<1> QED
  BY <1>4, <1>5, <1>6, <1>7, LoadGood DEF LoadAddress

LEMMA LoadFlagsGood ==
  ASSUME CopyInv, Good, NEW c \in CPUs, LoadFlags(c)
  PROVE  Good'
<1>1. PICK lv, ix : Shape(lv, ix)
  BY DEF Good
<1>2. StateTypes /\ Fresh /\ Walker(lv, ix, c)
  BY <1>1 DEF Good, Shape
<1>3. /\ at'[c].level = at[c].level /\ at'[c].table = at[c].table /\ at'[c].seen = Entry(c)
      /\ at'[c].new_table = at[c].new_table
      /\ pc[c] = "setFlags" /\ pc'[c] = "storeFlags" /\ call' = call /\ tables' = tables /\ top' = top
  BY <1>2 DEF LoadFlags, Load, StateTypes, AtType
<1>4. "setFlags" \in InWalk /\ "storeFlags" \in InWalk
  BY DEF InWalk, Accesses
<1>5. AtLeaf(c)' /\ (Adding(c)' => Adding(c))
  BY <1>2, <1>3, <1>4 DEF Walker, AtLeaf, Adding, Accesses
<1>6. Several \/ Alone(c)'
  <2>1. Entry(c)' = Entry(c) /\ Address(c)' = Address(c) /\ Addresses(c)' = Addresses(c)
    BY <1>3 DEF Entry, Here, Address, Addresses
  <2> QED
    BY <1>2, <1>3, <1>5, <2>1 DEF Fresh, Alone, getFlag
<1> QED
  BY <1>4, <1>5, <1>6, LoadGood DEF LoadFlags

\* A call writes the entry it has come to: that of the last level, which links
\* no table, or one that is not linked and will not be by this.
LEMMA WriteGood ==
  ASSUME CopyInv, Good, NEW c \in CPUs, pc[c] \in InWalk,
         NEW e \in EntryType, Written(at[c].table, Here(c), e),
         at[c].level = Depth \/ (~getFlag(Entry(c), "present") /\ ~getFlag(e, "present")),
         NEW step \in {"setFlags", "unlock"}, pc' = [pc EXCEPT ![c] = step],
         step = "setFlags" => pc[c] = "storeAddress" /\ call'[c] = call[c] /\ AtLeaf(c)',
         Args(call'[c]), call'[c].m = call[c].m, \A d \in CPUs : d # c => call'[d] = call[d],
         Several \/ Alone(c)', UNCHANGED <<top, locked, at, atNull>>, ~lost'
  PROVE  Good'
<1>1. PICK lv, ix : Shape(lv, ix)
  BY DEF Good
<1>2. StateTypes /\ TableTypes /\ CallInv /\ Fresh /\ ~lost /\ ~atNull
  BY DEF Good
<1>3. PICK p, i : p = at[c].table /\ i = Here(c)
  OBVIOUS
<1>4. Walker(lv, ix, c) /\ Places(lv, ix) /\ Depth \in Nat
  BY <1>1, VMemoryAssumption DEF Shape
<1>5. p \in Pages /\ p \in DOMAIN tables /\ lv[p] = at[c].level /\ i \in Index /\ at[c].level \in 1 .. Depth
  BY <1>2, <1>3, <1>4, WalkerPlace DEF Pages
<1>6. pc'[c] = step /\ \A d \in CPUs : d # c => pc'[d] = pc[d] /\ at'[d] = at[d]
  BY <1>2 DEF StateTypes
<1>7. Alive' = Alive
  BY DEF Alive
<1>8. lv[p] = Depth \/ (lv[p] < Depth /\ ~getFlag(tables[p][i], "present") /\ ~getFlag(e, "present"))
  BY <1>3, <1>4, <1>5 DEF Entry
<1>9. TableTypes' /\ Shape(lv, ix)'
  <2>1. ASSUME NEW d \in CPUs, NEW w, pc[d] \in InWalk, Leads(lv, d, w), NEW k \in 1 .. at[d].level - 1
        PROVE  w[k] # p \/ call[d].va[k] # i
    <3>1. Walker(lv, ix, d)
      BY <1>1 DEF Shape
    <3>2. k \in 1 .. at[d].level /\ k < Depth
      BY <1>2, <1>4, <2>1, <3>1, WalkerPlace
    <3>3. lv[w[k]] = k /\ getFlag(tables[w[k]][call[d].va[k]], "present")
      BY <2>1, <3>2 DEF Leads
    <3> QED
      BY <1>4, <1>8, <3>2, <3>3
  <2>2. ASSUME NEW d \in CPUs, Adding(d), at[d].new_table # 0 PROVE at[d].new_table # p
    <3>1. Walker(lv, ix, d) /\ Storer(lv, ix, d) /\ pc[d] \in InWalk
      BY <1>1, <2>2 DEF Shape, Adding, InWalk
    <3> QED
      BY <1>2, <1>3, <1>4, <2>2, <3>1, NotNew
  <2>3. ASSUME NEW d \in CPUs, Adding(d), at[d].table = p, Here(d) = i, getFlag(tables[p][i], "present")
        PROVE  getFlag(e, "present")
    <3>1. Walker(lv, ix, d) /\ pc[d] \in InWalk
      BY <1>1, <2>3 DEF Shape, Adding, InWalk
    <3>2. lv[p] = at[d].level /\ at[d].level < Depth /\ at[d].level \in 1 .. Depth
      BY <2>3, <3>1 DEF Walker, Adding
    <3> QED
      BY <1>4, <1>8, <2>3, <3>2
  <2>4. ~(p # 0 /\ lv[p] < Depth /\ getFlag(e, "present"))
    BY <1>4, <1>8
  <2>5. ASSUME NEW d \in CPUs, pc'[d] \in InWalk PROVE pc[d] \in InWalk /\ call'[d] = call[d] /\ AtLeaf(d)'
    <3>1. CASE d = c
      BY <1>6, <2>5, <3>1 DEF InWalk, Accesses
    <3>2. CASE d # c
      <4>1. pc'[d] = pc[d] /\ call'[d] = call[d] /\ at'[d] = at[d] /\ Walker(lv, ix, d)
        BY <1>1, <1>6, <3>2 DEF Shape
      <4> QED
        BY <2>5, <4>1 DEF Walker, AtLeaf
    <3> QED
      BY <3>1, <3>2
  <2>6. ASSUME NEW d \in CPUs, Adding(d)'
        PROVE  Adding(d) /\ (pc'[d] = "storeAddress" => pc[d] = "storeAddress")
    BY <1>6, <2>6 DEF Adding, Accesses
  <2>7. \A d \in CPUs : pc'[d] = "copy" => pc[d] = "copy"
    BY <1>6
  <2> QED
    BY <1>1, <1>2, <1>3, <1>5, <2>1, <2>2, <2>3, <2>4, <2>5, <2>6, <2>7, WriteKeeps
<1>10. StateTypes'
  <2>1. pc' \in [CPUs -> Steps]
    BY <1>2 DEF StateTypes, Steps, InSection, InWalk, Accesses
  <2> QED
    BY <1>2, <2>1 DEF StateTypes
<1>11. CallInv'
  <2>1. Args(call[c])'
    BY <1>7 DEF Args
  <2>2. locked'[call'[c].m] = c
    BY <1>2 DEF CallInv, InSection
  <2>3. ~Copying(c)'
    BY <1>6 DEF Copying
  <2> QED
    BY <1>2, <1>6, <1>7, <2>1, <2>2, <2>3, CallsKept
<1>12. Fresh'
  <2>1. pc[c] \in InSection
    BY DEF InSection
  <2> QED
    BY <1>2, <1>6, <1>7, <2>1, FreshLocked
<1> QED
  BY <1>2, <1>9, <1>10, <1>11, <1>12 DEF Good

\* setAddress: the entry is not linked by it.
LEMMA StoreAddressStep ==
  ASSUME Good, NEW c \in CPUs, StoreAddress(c), ~Broken', NEW e, e = [at[c].seen EXCEPT !.addr = Address(c)]
  PROVE  /\ pc[c] = "storeAddress" /\ pc[c] \in InWalk /\ e \in EntryType /\ e.addr = Address(c)
         /\ Written(at[c].table, Here(c), e) /\ Args(call[c]) /\ ~lost'
         /\ at[c].level < Depth => ~getFlag(Entry(c), "present") /\ ~getFlag(e, "present")
         /\ at[c].level = Depth => call[c].op = "map"
         /\ at[c].level < Depth \/ at[c].level = Depth
<1>1. PICK lv, ix : Shape(lv, ix)
  BY DEF Good
<1>2. StateTypes /\ TableTypes /\ CallInv /\ Fresh /\ ~lost /\ ~atNull
  BY DEF Good
<1>3. /\ pc[c] = "storeAddress" /\ Written(at[c].table, Here(c), e) /\ UNCHANGED <<top, atNull>>
      /\ lost' = (lost \/ (at[c].level < Depth /\ getFlag(Entry(c), "present")))
  BY DEF StoreAddress
<1>4. pc[c] \in InWalk /\ Walker(lv, ix, c) /\ Storer(lv, ix, c)
  BY <1>1, <1>3 DEF InWalk, Accesses, Shape
<1>5. Args(call[c])
  BY <1>2, <1>4 DEF CallInv, InSection
<1>6. at[c].level \in 1 .. Depth /\ Depth \in Nat /\ (at[c].level = Depth => call[c].op = "map")
  BY <1>3, <1>4, VMemoryAssumption DEF Walker, AtLeaf
<1>7. at[c].level < Depth \/ at[c].level = Depth
  BY <1>6
<1>8. Address(c) \in Addrs /\ at[c].seen \in EntryType
  <2>1. at[c].new_table \in TablePages \cup {0} /\ at[c].seen \in EntryType
    BY <1>2 DEF StateTypes, AtType
  <2>2. at[c].level = Depth => call[c].pa \in Addrs
    BY <1>5, <1>6 DEF Args
  <2> QED
    BY <1>6, <1>7, <2>1, <2>2 DEF Address, Addrs, TableAddrs
<1>9. e \in EntryType /\ e.addr = Address(c) /\ e.flags = at[c].seen.flags
  BY <1>8, AddressType
<1>10. ASSUME at[c].level < Depth PROVE ~getFlag(Entry(c), "present") /\ ~getFlag(e, "present")
  <2>1. Adding(c)
    BY <1>3, <1>10 DEF Adding, Accesses
  <2>2. getFlag(Entry(c), "present") => Several
    BY <1>2, <2>1 DEF Fresh, Alone
  <2>3. Several' = Several
    BY <1>3 DEF Several, Alive
  <2>4. ~getFlag(Entry(c), "present")
    BY <1>3, <1>10, <2>2, <2>3 DEF Broken
  <2>5. ~getFlag(at[c].seen, "present")
    BY <1>3, <1>4, <2>1, <2>4 DEF Storer
  <2> QED
    BY <1>9, <2>4, <2>5 DEF getFlag
<1>11. ~lost'
  BY <1>2, <1>3, <1>10
<1> QED
  BY <1>3, <1>4, <1>5, <1>6, <1>7, <1>9, <1>10, <1>11

LEMMA StoreAddressGood ==
  ASSUME CopyInv, Good, NEW c \in CPUs, StoreAddress(c)
  PROVE  Good' \/ Broken'
<1>1. SUFFICES ASSUME ~Broken' PROVE Good'
  OBVIOUS
<1>2. PICK e : e = [at[c].seen EXCEPT !.addr = Address(c)]
  OBVIOUS
<1>3. /\ pc[c] = "storeAddress" /\ pc[c] \in InWalk /\ e \in EntryType /\ e.addr = Address(c)
      /\ Written(at[c].table, Here(c), e) /\ Args(call[c]) /\ ~lost'
      /\ at[c].level < Depth => ~getFlag(Entry(c), "present") /\ ~getFlag(e, "present")
      /\ at[c].level = Depth => call[c].op = "map"
      /\ at[c].level < Depth \/ at[c].level = Depth
  BY <1>1, <1>2, StoreAddressStep
<1>4. pc' = [pc EXCEPT ![c] = "setFlags"] /\ UNCHANGED <<top, locked, call, at, atNull>>
  BY DEF StoreAddress
<1>5. pc'[c] = "setFlags"
  BY <1>4 DEF CopyInv
<1>6. AtLeaf(c)'
  BY <1>3, <1>4, <1>5 DEF AtLeaf
<1>7. Alone(c)'
  <2>1. PICK lv, ix : Shape(lv, ix)
    BY DEF Good
  <2>2. StateTypes /\ TableTypes /\ CallInv /\ Walker(lv, ix, c)
    BY <2>1 DEF Good, Shape
  <2>3. at[c].table \in DOMAIN tables /\ Here(c) \in Index
    BY <1>3, <2>2, WalkerPlace DEF Pages
  <2>4. tables'[at[c].table][Here(c)] = e
    BY <1>3, <2>2, <2>3, OneEntry
  <2>5. Entry(c)' = e /\ Address(c)' = Address(c)
    BY <1>4, <2>4 DEF Entry, Here, Address
  <2> QED
    BY <1>3, <1>4, <1>5, <2>5 DEF Alone, Adding, getFlag
<1> QED
  BY <1>3, <1>4, <1>5, <1>6, <1>7, WriteGood

\* setFlags on the entry of the address.
LEMMA LeafFlagsStep ==
  ASSUME Good, NEW c \in CPUs, LeafFlags(c),
         NEW e, e = setFlags(at[c].seen, call[c].flags, call[c].op # "remFlags")
  PROVE  /\ pc[c] = "storeFlags" /\ pc[c] \in InWalk /\ at[c].level = Depth /\ Args(call[c])
         /\ Written(at[c].table, Here(c), e) /\ e \in EntryType
         /\ e.addr = at[c].seen.addr /\ (call[c].op # "remFlags" => call[c].flags \subseteq e.flags)
<1>1. pc[c] = "storeFlags" /\ at[c].level = Depth /\ Written(at[c].table, Here(c), e)
  BY DEF LeafFlags
<1>2. PICK lv, ix : Shape(lv, ix)
  BY DEF Good
<1>3. pc[c] \in InWalk /\ Walker(lv, ix, c) /\ StateTypes /\ CallInv
  BY <1>1, <1>2 DEF InWalk, Accesses, Shape, Good
<1>4. Args(call[c])
  BY <1>3 DEF CallInv, InSection
<1>5. call[c].flags \in SUBSET FlagNames
  BY <1>1, <1>3, <1>4 DEF Walker, AtLeaf, Args, FlagNames
<1>6. at[c].seen \in EntryType
  BY <1>3 DEF StateTypes, AtType
<1>7. CASE call[c].op = "remFlags"
  <2>1. e = [at[c].seen EXCEPT !.flags = at[c].seen.flags \ call[c].flags]
    BY <1>7 DEF setFlags
  <2>2. e \in EntryType /\ e.addr = at[c].seen.addr
    BY <1>5, <1>6, <2>1, FlagsType
  <2> QED
    BY <1>1, <1>3, <1>4, <1>7, <2>2
<1>8. CASE call[c].op # "remFlags"
  <2>1. e = [at[c].seen EXCEPT !.flags = at[c].seen.flags \cup call[c].flags]
    BY <1>8 DEF setFlags
  <2>2. e \in EntryType /\ e.addr = at[c].seen.addr /\ call[c].flags \subseteq e.flags
    BY <1>5, <1>6, <2>1, FlagsType
  <2> QED
    BY <1>1, <1>3, <1>4, <2>2
<1> QED
  BY <1>7, <1>8

LEMMA LeafFlagsGood ==
  ASSUME CopyInv, Good, NEW c \in CPUs, LeafFlags(c)
  PROVE  Good'
<1>1. PICK e : e = setFlags(at[c].seen, call[c].flags, call[c].op # "remFlags")
  OBVIOUS
<1>2. /\ pc[c] = "storeFlags" /\ pc[c] \in InWalk /\ at[c].level = Depth /\ Args(call[c])
      /\ Written(at[c].table, Here(c), e) /\ e \in EntryType
  BY <1>1, LeafFlagsStep
<1>3. pc' = [pc EXCEPT ![c] = "unlock"] /\ UNCHANGED <<top, locked, call, at, lost, atNull>> /\ ~lost
  BY DEF LeafFlags, Good
<1>4. Alone(c)'
  <2>1. pc'[c] \notin Accesses
    BY <1>3 DEF CopyInv, Accesses
  <2> QED
    BY <2>1, AloneOff
<1> QED
  BY <1>2, <1>3, <1>4, WriteGood

\* The entry of the address is cleared; remapMem keeps what it led to.
LEMMA ClearStep ==
  ASSUME Good, NEW c \in CPUs, Clear(c)
  PROVE  /\ pc[c] = "clear" /\ pc[c] \in InWalk /\ at[c].level = Depth /\ Args(call[c])
         /\ Written(at[c].table, Here(c), Empty) /\ Empty \in EntryType
<1>1. pc[c] = "clear" /\ Written(at[c].table, Here(c), Empty)
  BY DEF Clear
<1>2. PICK lv, ix : Shape(lv, ix)
  BY DEF Good
<1>3. pc[c] \in InWalk /\ Walker(lv, ix, c) /\ CallInv
  BY <1>1, <1>2 DEF InWalk, Shape, Good
<1>4. at[c].level = Depth /\ Args(call[c])
  BY <1>1, <1>3 DEF Walker, AtLeaf, CallInv, InSection
<1>5. Empty \in EntryType
  BY DEF Empty, EntryType, Addrs, TableAddrs
<1> QED
  BY <1>1, <1>3, <1>4, <1>5

LEMMA ClearGood ==
  ASSUME CopyInv, Good, NEW c \in CPUs, Clear(c)
  PROVE  Good'
<1>1. /\ pc[c] = "clear" /\ pc[c] \in InWalk /\ at[c].level = Depth /\ Args(call[c])
      /\ Written(at[c].table, Here(c), Empty) /\ Empty \in EntryType
  BY ClearStep
<1>2. pc' = [pc EXCEPT ![c] = "unlock"] /\ UNCHANGED <<top, locked, at, lost, atNull>> /\ ~lost
  BY DEF Clear, Good
<1>3. Alone(c)'
  <2>1. pc'[c] \notin Accesses
    BY <1>2 DEF CopyInv, Accesses
  <2> QED
    BY <2>1, AloneOff
<1>4. \A d \in CPUs : d # c => call'[d] = call[d]
  <2>1. call' = call \/ call' = [call EXCEPT ![c].pa = at[c].seen.addr]
    BY DEF Clear
  <2> QED
    BY <2>1 DEF CopyInv
<1>5. Args(call'[c]) /\ call'[c].m = call[c].m
  <2>1. CASE call[c].op # "remap"
    <3>1. call' = call
      BY <2>1 DEF Clear
    <3> QED
      BY <1>1, <3>1
  <2>2. CASE call[c].op = "remap"
    <3>1. PICK a, r, r2 : a = at[c].seen.addr /\ r = call[c] /\ r2 = [r EXCEPT !.pa = a]
      OBVIOUS
    <3>2. call' = [call EXCEPT ![c].pa = at[c].seen.addr]
      BY <2>2 DEF Clear
    <3>3. call'[c] = r2
      BY <3>1, <3>2 DEF CopyInv
    <3>4. at[c].seen \in EntryType
      BY DEF Good, StateTypes, AtType
    <3>5. a \in Addrs
      BY <3>1, <3>4 DEF EntryType
    <3>6. /\ DOMAIN r = {"op", "m", "va", "new", "pa", "flags"} /\ r.op = "remap"
          /\ r.m \in Alive /\ r.va \in VAddr /\ r.new \in VAddr /\ r.flags \in Flags
      BY <1>1, <2>2, <3>1 DEF Args
    <3>7. /\ DOMAIN r2 = DOMAIN r /\ r2.op = r.op /\ r2.m = r.m /\ r2.va = r.va /\ r2.new = r.new
          /\ r2.flags = r.flags /\ r2.pa = a
      BY <3>1, <3>6
    <3>8. Args(r2)
      BY <3>5, <3>6, <3>7 DEF Args, Ops
    <3> QED
      BY <3>1, <3>3, <3>7, <3>8
  <2> QED
    BY <2>1, <2>2
<1> QED
  BY <1>1, <1>2, <1>3, <1>4, <1>5, WriteGood

\* One entry of the map that is copied: it leads where the old one leads.
LEMMA CopyEntryGood ==
  ASSUME CopyInv, Good, NEW c \in CPUs, CopyEntry(c)
  PROVE  Good'
<1>1. PICK lv, ix : Shape(lv, ix)
  BY DEF Good
<1>2. StateTypes /\ TableTypes /\ CallInv /\ Fresh /\ ~lost /\ ~atNull
  BY DEF Good
<1>3. PICK i : i = CHOOSE x \in call[c].left : \A y \in call[c].left : x <= y
  OBVIOUS
<1>4. PICK p, r, e : p = at[c].table /\ r = top[call[c].old] /\ e = tables[r][i]
  OBVIOUS
<1>5. /\ pc[c] = "copy" /\ call[c].left # {} /\ Written(p, i, e)
      /\ call' = [call EXCEPT ![c].left = @ \ {i}]
      /\ UNCHANGED <<top, locked, at, pc, lost, atNull>>
  BY <1>3, <1>4 DEF CopyEntry, Written
<1>6. call[c].old \in Alive /\ call[c].left \subseteq Index
  BY <1>2, <1>5 DEF CallInv, Copying
<1>7. i \in Index
  <2>1. \E x \in call[c].left : \A y \in call[c].left : x <= y
    BY <1>5, <1>6, LeastExists, VMemoryAssumption
  <2> QED
    BY <1>3, <1>6, <2>1
<1>8. r \in Pages /\ lv[r] = 1
  BY <1>1, <1>4, <1>6 DEF Shape, Tops
<1>9. e \in EntryType
  BY <1>2, <1>4, <1>7, <1>8 DEF TableTypes, Pages
<1>10. p \in DOMAIN tables /\ (p # 0 => lv[p] = 1 /\ p \in Pages)
  BY <1>1, <1>2, <1>4, <1>5 DEF Shape, Copier, TableTypes, Pages
<1>11. \A d \in CPUs : d # c => pc'[d] = pc[d] /\ call'[d] = call[d]
  BY <1>5 DEF CopyInv
<1>12. ASSUME NEW d \in CPUs, pc[d] \in InWalk, NEW w, Leads(lv, d, w), NEW k \in 1 .. at[d].level
       PROVE  w[k] # p
  <2>1. CASE p = 0
    BY <1>12, <2>1 DEF Leads, Pages
  <2>2. CASE p # 0
    <3>1. Walker(lv, ix, d) /\ Copier(lv, c)
      BY <1>1 DEF Shape
    <3> QED
      BY <1>2, <1>4, <1>5, <1>12, <2>2, <3>1, OffCopy
  <2> QED
    BY <2>1, <2>2
<1>13. ASSUME NEW d \in CPUs, pc[d] \in InWalk
       PROVE  /\ d # c /\ at[d].table # p /\ at[d].level \in 1 .. Depth /\ at[d].table \in DOMAIN tables
              /\ Here(d) \in Index /\ Walker(lv, ix, d) /\ pc'[d] = pc[d] /\ call'[d] = call[d] /\ at'[d] = at[d]
  <2>1. Walker(lv, ix, d) /\ d # c
    BY <1>1, <1>5, <1>13 DEF Shape, InWalk, Accesses
  <2>2. at[d].level \in 1 .. Depth /\ at[d].table \in Pages /\ Here(d) \in Index
    BY <1>2, <1>13, <2>1, WalkerPlace
  <2>3. PICK w : Leads(lv, d, w)
    BY <1>13, <2>1 DEF Walker
  <2>4. at[d].level \in 1 .. at[d].level /\ w[at[d].level] = at[d].table
    BY <2>2, <2>3, VMemoryAssumption DEF Leads
  <2>5. at[d].table # p
    BY <1>12, <1>13, <2>3, <2>4
  <2> QED
    BY <1>5, <1>11, <2>1, <2>2, <2>5 DEF Pages
<1>14. TableTypes' /\ Shape(lv, ix)'
  <2>1. ASSUME NEW d \in CPUs, NEW w, pc[d] \in InWalk, Leads(lv, d, w), NEW k \in 1 .. at[d].level - 1
        PROVE  w[k] # p \/ call[d].va[k] # i
    <3>1. k \in 1 .. at[d].level
      BY <1>13, <2>1, VMemoryAssumption
    <3> QED
      BY <1>12, <2>1, <3>1
  <2>2. ASSUME NEW d \in CPUs, Adding(d), at[d].new_table # 0 PROVE at[d].new_table # p
    <3>1. Storer(lv, ix, d) /\ pc[d] \in InWalk
      BY <1>1, <2>2 DEF Shape, Adding, InWalk
    <3>2. at[d].level \in 1 .. Depth /\ lv[at[d].new_table] = at[d].level + 1
      BY <1>13, <2>2, <3>1 DEF Storer
    <3>3. at[d].level + 1 # 1
      BY <3>2, VMemoryAssumption
    <3> QED
      BY <1>10, <2>2, <3>2, <3>3
  <2>3. ASSUME p # 0, lv[p] < Depth, getFlag(e, "present")
        PROVE  Linked(lv, r, i) /\ tables[r][i].addr = e.addr /\ lv[r] = lv[p] /\ lv[p] = 1
    BY <1>4, <1>8, <1>10, <2>3 DEF Linked
  <2>4. \A d \in CPUs : pc'[d] \in InWalk => pc[d] \in InWalk /\ call'[d] = call[d] /\ AtLeaf(d)'
    BY <1>5, <1>13 DEF Walker, AtLeaf
  <2>5. \A d \in CPUs : Adding(d)' => Adding(d) /\ (pc'[d] = "storeAddress" => pc[d] = "storeAddress")
    BY <1>5 DEF Adding
  <2>6. \A d \in CPUs : Adding(d) => at[d].table # p
    BY <1>13 DEF Adding, InWalk
  <2>7. p # 0 /\ lv[p] < Depth /\ getFlag(e, "present") =>
          \E s \in Pages : Linked(lv, s, i) /\ tables[s][i].addr = e.addr /\ lv[s] = lv[p] /\ lv[p] = 1
    BY <1>8, <2>3
  <2>8. \A d \in CPUs : pc'[d] = "copy" => pc[d] = "copy"
    BY <1>5
  <2>9. \A d \in CPUs : Adding(d) /\ at[d].table = p /\ Here(d) = i /\ getFlag(tables[p][i], "present") =>
          getFlag(e, "present")
    BY <2>6
  <2>10. top' = top /\ at' = at /\ Written(p, i, e) /\ p \in DOMAIN tables
    BY <1>5, <1>10
  <2> QED
    BY <1>1, <1>2, <1>7, <1>9, <2>1, <2>2, <2>4, <2>5, <2>7, <2>8, <2>9, <2>10, WriteKeeps
<1>15. StateTypes'
  BY <1>2, <1>5 DEF StateTypes
<1>16. CallInv'
  <2>1. Alive' = Alive
    BY <1>5 DEF Alive
  <2>2. DOMAIN call[c] = {"op", "old", "m", "left"}
    BY <1>5 DEF CopyInv, Copying
  <2>3. call'[c] = [call[c] EXCEPT !.left = call[c].left \ {i}]
    BY <1>5 DEF CopyInv
  <2>4. call'[c].old = call[c].old /\ call'[c].left \subseteq Index
    BY <1>6, <2>2, <2>3
  <2>5. pc'[c] \notin InSection \cup {"lock"}
    BY <1>5 DEF InSection, InWalk, Accesses
  <2> QED
    BY <1>2, <1>5, <1>6, <1>11, <2>1, <2>4, <2>5, CallsKept
<1>17. Fresh'
  <2>1. ASSUME NEW d \in CPUs, pc[d] \in InWalk PROVE Entry(d)' = Entry(d)
    <3>1. tables'[at[d].table][Here(d)] = tables[at[d].table][Here(d)]
      BY <1>2, <1>5, <1>7, <1>9, <1>10, <1>13, <2>1, OneEntry
    <3> QED
      BY <1>13, <2>1, <3>1 DEF Entry, Here
  <2>2. pc'[c] \notin Accesses /\ Alive' = Alive
    BY <1>5 DEF Accesses, Alive
  <2>3. \A d \in CPUs : d # c => at'[d] = at[d] /\ call'[d] = call[d] /\ pc'[d] = pc[d]
    BY <1>5, <1>11
  <2> QED
    BY <1>2, <2>1, <2>2, <2>3, AloneOff, FreshKept
<1> QED
  BY <1>2, <1>5, <1>14, <1>15, <1>16, <1>17 DEF Good

\* The new map is there.  Its top belongs to it alone, and no walk has begun;
\* without memory it is page 0.
LEMMA CopyDoneGood ==
  ASSUME CopyInv, Good, NEW c \in CPUs, CopyDone(c)
  PROVE  Good' \/ Broken'
<1>1. PICK lv, ix : Shape(lv, ix)
  BY DEF Good
<1>2. StateTypes /\ TableTypes /\ CallInv /\ Fresh /\ ~lost /\ ~atNull
  BY DEF Good
<1>3. PICK p, m : p = at[c].table /\ m = call[c].m
  OBVIOUS
<1>4. /\ pc[c] = "copy" /\ top' = [top EXCEPT ![m] = p]
      /\ call' = [call EXCEPT ![c] = NoCall] /\ at' = [at EXCEPT ![c] = Nowhere]
      /\ pc' = [pc EXCEPT ![c] = "idle"]
      /\ UNCHANGED <<tables, locked, lost>> /\ atNull' = (atNull \/ p = 0)
  BY <1>3 DEF CopyDone
<1>5. m \in Maps /\ top[m] = NoTop
  BY <1>3, <1>4 DEF CopyInv, Copying
<1>6. top'[m] = p /\ \A n \in Maps : n # m => top'[n] = top[n]
  BY <1>2, <1>4, <1>5 DEF StateTypes
<1>7. \A n \in Alive : n \in Maps /\ n # m /\ n \in Alive' /\ top'[n] = top[n]
  BY <1>5, <1>6 DEF Alive
<1>8. /\ pc'[c] = "idle"
      /\ \A d \in CPUs : d # c => at'[d] = at[d] /\ call'[d] = call[d] /\ pc'[d] = pc[d]
  BY <1>2, <1>4 DEF StateTypes, CopyInv
<1>9. Pages' = Pages
  BY <1>4 DEF Pages
<1>10. p # 0 => /\ p \in Pages /\ lv[p] = 1
                /\ \A d \in CPUs : d # c /\ pc[d] = "copy" => at[d].table # p
  BY <1>1, <1>3, <1>4 DEF Shape, Copier
<1>11. Places(lv, ix)' /\ Links(lv, ix)'
  BY <1>1, <1>4, <1>9 DEF Shape, Places, Links, Linked, getFlag
<1>12. p # 0 => Tops(lv)'
  <2>1. ASSUME NEW n \in Maps, top'[n] # NoTop, p # 0 PROVE top'[n] \in Pages /\ lv[top'[n]] = 1
    <3>1. CASE n = m
      BY <1>6, <1>10, <2>1, <3>1
    <3>2. CASE n # m
      BY <1>1, <1>6, <2>1, <3>2 DEF Shape, Tops, Alive
    <3> QED
      BY <3>1, <3>2
  <2> QED
    BY <1>9, <2>1 DEF Tops, Alive
<1>13. ASSUME NEW d \in CPUs PROVE Walker(lv, ix, d)'
  <2>1. CASE d = c
    BY <1>8, <2>1 DEF Walker, InWalk, Accesses
  <2>2. CASE d # c
    <3>1. Walker(lv, ix, d)
      BY <1>1 DEF Shape
    <3>2. pc[d] \in InWalk => top'[call[d].m] = top[call[d].m]
      BY <1>2, <1>7 DEF CallInv, InSection, Args
    <3> QED
      BY <1>4, <1>8, <1>9, <2>2, <3>1, <3>2, WalkerKept
  <2> QED
    BY <2>1, <2>2
<1>14. ASSUME NEW d \in CPUs PROVE Storer(lv, ix, d)'
  <2>1. SUFFICES ASSUME Adding(d)' PROVE Storer(lv, ix, d)'
    BY DEF Storer
  <2>2. \A x \in CPUs : Adding(x)' => x # c /\ Adding(x) /\ at'[x] = at[x] /\ pc'[x] = pc[x]
    BY <1>8 DEF Adding, Accesses
  <2>3. d # c /\ Adding(d) /\ at'[d] = at[d] /\ pc'[d] = pc[d] /\ call'[d] = call[d] /\ Storer(lv, ix, d)
    BY <1>1, <1>8, <2>1, <2>2 DEF Shape
  <2>4. \A q : Unlinked(lv, q) => Unlinked(lv, q)'
    BY <1>4, <1>9 DEF Unlinked, Linked, getFlag
  <2>5. Entry(d)' = Entry(d)
    BY <1>4, <2>3 DEF Entry, Here
  <2>6. pc'[d] = "storeAddress" /\ getFlag(at'[d].seen, "present") => getFlag(Entry(d), "present")'
    BY <2>3, <2>5 DEF Storer, getFlag
  <2>7. PICK a : a = at[d].new_table
    OBVIOUS
  <2>8. a # 0 =>
         /\ a \in Pages /\ tables[a] = EmptyTable /\ lv[a] = at[d].level + 1
         /\ \A k \in 1 .. at[d].level : ix[a][k] = call[d].va[k]
         /\ Unlinked(lv, a)
         /\ \A x \in CPUs : x # d /\ Adding(x) => at[x].new_table # a
    BY <2>3, <2>7 DEF Storer
  <2>9. a # 0 => Unlinked(lv, at[d].new_table)'
    BY <2>3, <2>4, <2>7, <2>8 DEF Unlinked
  <2>10. \A x \in CPUs : x # d /\ Adding(x)' /\ a # 0 => at'[x].new_table # a
    BY <2>2, <2>8
  <2> QED
    BY <1>4, <1>9, <2>3, <2>6, <2>7, <2>8, <2>9, <2>10 DEF Storer
<1>15. ASSUME NEW d \in CPUs PROVE Copier(lv, d)'
  <2>1. SUFFICES ASSUME pc'[d] = "copy", at'[d].table # 0 PROVE Copier(lv, d)'
    BY DEF Copier
  <2>2. d # c /\ pc[d] = "copy" /\ at'[d] = at[d] /\ Copier(lv, d)
    BY <1>1, <1>8, <2>1 DEF Shape
  <2>3. \A x \in CPUs : x # d /\ pc'[x] = "copy" => pc[x] = "copy" /\ at'[x] = at[x]
    BY <1>8
  <2>4. /\ at[d].table \in Pages /\ lv[at[d].table] = 1
        /\ \A n \in Maps : top[n] # at[d].table
        /\ \A x \in CPUs : x # d /\ pc[x] = "copy" => at[x].table # at[d].table
    BY <2>1, <2>2 DEF Copier
  <2>5. p # at[d].table
    BY <1>3, <1>4, <2>2, <2>4
  <2>6. \A n \in Maps : top'[n] # at[d].table
    BY <1>6, <2>4, <2>5
  <2> QED
    BY <1>9, <2>2, <2>3, <2>4, <2>6 DEF Copier
<1>16. p # 0 => Shape(lv, ix)'
  BY <1>11, <1>12, <1>13, <1>14, <1>15 DEF Shape
<1>17. TableTypes'
  BY <1>2, <1>4 DEF TableTypes
<1>18. StateTypes'
  <2>1. p \in TableAddrs /\ 0 \in 0 .. Depth /\ 0 \in TableAddrs
    BY <1>2, <1>3, VMemoryAssumption DEF StateTypes, TableAddrs, AtType
  <2>2. top' \in [Maps -> TableAddrs \cup {NoTop}] /\ pc' \in [CPUs -> Steps]
    BY <1>2, <1>4, <2>1 DEF StateTypes, Steps
  <2>3. Nowhere \in AtType
    BY <2>1, AtTyped DEF Nowhere
  <2>4. at' \in [CPUs -> AtType]
    BY <1>2, <1>4, <2>3 DEF StateTypes
  <2> QED
    BY <1>2, <1>4, <2>2, <2>4 DEF StateTypes
<1>19. CallInv'
  <2>1. pc'[c] \notin InSection \cup {"lock"} /\ ~Copying(c)'
    BY <1>8 DEF InSection, InWalk, Accesses, Copying
  <2> QED
    BY <1>2, <1>4, <1>7, <1>8, <2>1, CallsKept
<1>20. Fresh'
  <2>1. pc'[c] \notin Accesses
    BY <1>8 DEF Accesses
  <2> QED
    BY <1>2, <1>4, <1>7, <1>8, <2>1, AloneOff, FreshSame
<1>21. CASE p = 0
  BY <1>4, <1>21 DEF Broken
<1>22. CASE p # 0
  BY <1>2, <1>4, <1>16, <1>17, <1>18, <1>19, <1>20, <1>22 DEF Good
<1> QED
  BY <1>21, <1>22

-----------------------------------------------------------------------------
LEMMA InitGood ==
  ASSUME Init
  PROVE  IInv
<1>1. PICK kernel \in Maps :
        /\ tables = [p \in {0, KernelTop} |-> EmptyTable]
        /\ top = [m \in Maps |-> IF m = kernel THEN KernelTop ELSE NoTop]
        /\ locked = [m \in Maps |-> "free"]
        /\ call = [c \in CPUs |-> NoCall] /\ at = [c \in CPUs |-> Nowhere]
        /\ pc = [c \in CPUs |-> "idle"]
        /\ lost = FALSE /\ atNull = FALSE
  BY DEF Init
<1>2. \A c \in CPUs : pc[c] = "idle"
  BY <1>1
<1>3. CopyInv
  BY <1>1, <1>2 DEF CopyInv, Copying
<1>4. Pages = {KernelTop} /\ \A p \in Pages : tables[p] = EmptyTable
  BY <1>1, VMemoryAssumption DEF Pages
<1>5. TableTypes
  BY <1>1 DEF TableTypes, TableAddrs, EmptyTable, Empty, EntryType, Addrs
<1>6. StateTypes
  <2>1. 0 \in 0 .. Depth
    BY VMemoryAssumption
  <2>2. Nowhere \in AtType
    BY <2>1, AtTyped DEF Nowhere, TableAddrs
  <2> QED
    BY <1>1, <2>2 DEF StateTypes, TableAddrs, Steps
<1>7. CallInv /\ Fresh
  BY <1>2 DEF CallInv, InSection, InWalk, Accesses, Copying, Fresh, Alone, Adding
<1>8. PICK i : i \in Index
  BY VMemoryAssumption
<1>9. PICK lv, ix : lv = [p \in Pages |-> 1] /\ ix = [p \in Pages |-> [k \in 1 .. Depth |-> i]]
  OBVIOUS
<1>10. Places(lv, ix)
  <2>1. 1 \in 1 .. Depth
    BY VMemoryAssumption
  <2> QED
    BY <1>8, <1>9, <2>1 DEF Places, VAddr
<1>11. Links(lv, ix)
  BY <1>4 DEF Links, Linked, getFlag, EmptyTable, Empty
<1>12. Tops(lv)
  BY <1>1, <1>4, <1>9 DEF Tops, Alive
<1>13. \A c \in CPUs : Walker(lv, ix, c) /\ Storer(lv, ix, c) /\ Copier(lv, c)
  BY <1>2 DEF Walker, Storer, Copier, Adding, InWalk, Accesses
<1>14. Shape(lv, ix)
  BY <1>10, <1>11, <1>12, <1>13 DEF Shape
<1> QED
  BY <1>1, <1>3, <1>5, <1>6, <1>7, <1>14 DEF IInv, Good

LEMMA StepGood ==
  ASSUME IInv, [Next]_vars
  PROVE  IInv'
<1>1. CopyInv'
  BY CopyKept DEF IInv
<1>2. CASE Broken
  BY <1>1, <1>2, BrokenStays DEF IInv
<1>3. CASE Good
  <2>1. CopyInv
    BY DEF IInv
  <2>2. ASSUME NEW c \in CPUs,
               \/ Calls(c) \/ Lock(c) \/ Follow(c) \/ Allocate(c) \/ Leaf(c) \/ LoadAddress(c) \/ StoreAddress(c)
               \/ LoadFlags(c) \/ LinkTable(c) \/ LeafFlags(c) \/ Clear(c) \/ Unlock(c)
               \/ CopyAlloc(c) \/ CopyEntry(c) \/ CopyDone(c)
        PROVE  Good' \/ Broken'
    BY <1>3, <2>1, <2>2, CallsGood, LockGood, FollowGood, AllocateGood, LeafGood, LoadAddressGood,
       StoreAddressGood, LoadFlagsGood, LinkGood, LeafFlagsGood, ClearGood, UnlockGood,
       CopyAllocGood, CopyEntryGood, CopyDoneGood, Zenon
  <2>3. CASE Next
    BY <1>1, <2>2, <2>3 DEF Next, IInv
  <2>4. CASE UNCHANGED vars
    <3>1. PICK lv, ix : Shape(lv, ix)
      BY <1>3 DEF Good
    <3>2. UNCHANGED <<tables, top, locked, call, at, pc, lost, atNull>>
      BY <2>4 DEF vars
    <3>3. Shape(lv, ix)'
      <4>1. Places(lv, ix)' /\ Links(lv, ix)' /\ Tops(lv)'
        BY <3>1, <3>2 DEF Shape, Places, Links, Linked, Tops, Alive, Pages, getFlag
      <4>2. ASSUME NEW c \in CPUs PROVE Walker(lv, ix, c)' /\ Copier(lv, c)'
        BY <3>1, <3>2 DEF Shape, Walker, AtLeaf, Leads, Copier, Pages
      <4>3. ASSUME NEW c \in CPUs PROVE Storer(lv, ix, c)'
        BY <3>1, <3>2 DEF Shape, Storer, Adding, Unlinked, Linked, Entry, Here, Pages, getFlag
      <4> QED
        BY <4>1, <4>2, <4>3 DEF Shape
    <3>4. TableTypes' /\ StateTypes' /\ CallInv' /\ Fresh'
      BY <1>3, <3>2 DEF Good, TableTypes, StateTypes, CallInv, Args, Alive, Copying, Fresh, Several, Alone,
         Adding, Addresses, Address, Entry, Here, getFlag
    <3> QED
      BY <1>1, <1>3, <3>2, <3>3, <3>4 DEF IInv, Good
  <2> QED
    BY <2>3, <2>4
<1> QED
  BY <1>2, <1>3 DEF IInv

(***************************************************************************)
(* Until a table is stored over another one through a second map, or       *)
(* memory runs out, the page tables are trees of places: each walk of      *)
(* virt2pte stands at the table its address leads to from the top of its   *)
(* map, a table that get_next_lvl is about to link is empty and linked     *)
(* nowhere else, and maps that share tables share them at the same place.  *)
(***************************************************************************)
THEOREM PageTablesShaped == Spec => []IInv
<1>1. Init => IInv
  BY InitGood
<1>2. IInv /\ [Next]_vars => IInv'
  BY StepGood
<1> QED
  BY <1>1, <1>2, PTL DEF Spec

-----------------------------------------------------------------------------
\* Two maps are more than one.
LEMMA SeveralMaps == Several => Cardinality(Alive) > 1
<1>1. SUFFICES ASSUME NEW m \in Alive, NEW n \in Alive, m # n PROVE Cardinality(Alive) > 1
  BY DEF Several
<1>2. IsFiniteSet(Alive)
  <2>1. Alive \subseteq Maps /\ IsFiniteSet(Maps)
    BY VMemoryAssumption DEF Alive
  <2> QED
    BY <2>1, FS_Subset
<1>3. IsFiniteSet({m}) /\ Cardinality({m}) = 1
  BY FS_Singleton
<1>4. n \notin {m}
  BY <1>1
<1>5. IsFiniteSet({m} \cup {n}) /\ Cardinality({m} \cup {n}) = Cardinality({m}) + 1
  BY <1>3, <1>4, FS_AddElement
<1>6. {m} \cup {n} \subseteq Alive
  OBVIOUS
<1>7. Cardinality({m} \cup {n}) <= Cardinality(Alive)
  BY <1>2, <1>6, FS_Subset
<1>8. Cardinality(Alive) \in Nat
  BY <1>2, FS_CardinalityType
<1> QED
  BY <1>3, <1>5, <1>7, <1>8

LEMMA NotLossy == ~Lossy /\ ~atNull => ~Broken
  BY SeveralMaps DEF Broken, Lossy

\* An address leads one way at most.
LEMMA OneWay ==
  ASSUME NEW t, NEW root, NEW va, NEW v \in Ways(t, root, va), NEW w \in Ways(t, root, va)
  PROVE  v = w
<1> DEFINE apart == { k \in 1 .. Depth : v[k] # w[k] }
<1>1. /\ v \in [1 .. Depth -> DOMAIN t] /\ w \in [1 .. Depth -> DOMAIN t] /\ v[1] = root /\ w[1] = root
      /\ \A k \in 1 .. Depth - 1 : t[v[k]][va[k]].addr = v[k + 1] /\ t[w[k]][va[k]].addr = w[k + 1]
  BY DEF Ways
<1>2. CASE apart = {}
  <2>1. \A k \in 1 .. Depth : v[k] = w[k]
    BY <1>2
  <2> HIDE DEF apart
  <2>2. v = [k \in 1 .. Depth |-> v[k]] /\ w = [k \in 1 .. Depth |-> w[k]]
    BY <1>1
  <2> QED
    BY <2>1, <2>2, Zenon
<1>3. CASE apart # {}
  <2>1. apart \subseteq Nat /\ Depth \in Nat
    BY VMemoryAssumption
  <2>2. PICK x \in apart : \A y \in apart : x <= y
    BY <1>3, <2>1, LeastExists
  <2>3. x \in 1 .. Depth /\ v[x] # w[x]
    BY <2>2
  <2>4. x # 1
    BY <1>1, <2>3
  <2>5. PICK y : y = x - 1
    OBVIOUS
  <2>6. y \in 1 .. Depth - 1 /\ y \in 1 .. Depth /\ y + 1 = x /\ ~(x <= y)
    BY <2>1, <2>3, <2>4, <2>5
  <2>7. v[y] = w[y]
    BY <2>2, <2>6
  <2>8. v[y + 1] = w[y + 1]
    BY <1>1, <2>6, <2>7
  <2> QED
    BY <2>3, <2>6, <2>8
<1> QED
  BY <1>2, <1>3

LEMMA ReachAlong ==
  ASSUME NEW t, NEW root, NEW va, NEW w \in Ways(t, root, va)
  PROVE  Reach(t, root, va) = t[w[Depth]][va[Depth]]
<1>1. PICK v : v = CHOOSE x \in Ways(t, root, va) : TRUE
  OBVIOUS
<1>2. v \in Ways(t, root, va)
  BY <1>1
<1>3. v = w
  BY <1>2, OneWay
<1>4. Ways(t, root, va) # {}
  OBVIOUS
<1> QED
  BY <1>1, <1>3, <1>4, Zenon DEF Reach

\* The links of t that va can take from root go down one level.
Descends(lv, t, root, va) ==
  \A p \in Pages, j \in 1 .. Depth - 1 :
    lv[p] = j /\ (j = 1 => p = root) /\ getFlag(t[p][va[j]], "present") =>
      t[p][va[j]].addr \in Pages /\ lv[t[p][va[j]].addr] = j + 1

\* So a way goes down one level at a time.
LEMMA WayLevels ==
  ASSUME NEW lv, NEW t, NEW root \in Pages, lv[root] = 1, NEW va, NEW w \in Ways(t, root, va),
         Descends(lv, t, root, va)
  PROVE  \A k \in 1 .. Depth : w[k] \in Pages /\ lv[w[k]] = k
<1> DEFINE off == { k \in 1 .. Depth : ~(w[k] \in Pages /\ lv[w[k]] = k) }
<1>1. /\ w[1] = root
      /\ \A k \in 1 .. Depth - 1 : getFlag(t[w[k]][va[k]], "present") /\ t[w[k]][va[k]].addr = w[k + 1]
  BY DEF Ways
<1>2. CASE off = {}
  BY <1>2
<1>3. CASE off # {}
  <2>1. off \subseteq Nat /\ Depth \in Nat
    BY VMemoryAssumption
  <2>2. PICK x \in off : \A y \in off : x <= y
    BY <1>3, <2>1, LeastExists
  <2>3. x \in 1 .. Depth /\ ~(w[x] \in Pages /\ lv[w[x]] = x)
    BY <2>2
  <2>4. x # 1
    BY <1>1, <2>3
  <2>5. PICK y : y = x - 1
    OBVIOUS
  <2>6. y \in 1 .. Depth - 1 /\ y \in 1 .. Depth /\ y + 1 = x /\ ~(x <= y)
    BY <2>1, <2>3, <2>4, <2>5
  <2>7. w[y] \in Pages /\ lv[w[y]] = y
    BY <2>2, <2>6
  <2>8. getFlag(t[w[y]][va[y]], "present") /\ t[w[y]][va[y]].addr = w[x]
    BY <1>1, <2>6
  <2>9. y = 1 => w[y] = root
    BY <1>1
  <2>10. t[w[y]][va[y]].addr \in Pages /\ lv[t[w[y]][va[y]].addr] = y + 1
    BY <2>6, <2>7, <2>8, <2>9 DEF Descends
  <2> QED
    BY <2>3, <2>6, <2>8, <2>10
<1> QED
  BY <1>2, <1>3

\* A link on the way of va goes one level down, to the place va says.
LEMMA LinkDown ==
  ASSUME NEW lv, NEW ix, Links(lv, ix), NEW va \in VAddr, NEW p \in Pages, NEW j \in 1 .. Depth - 1,
         lv[p] = j, getFlag(tables[p][va[j]], "present")
  PROVE  /\ tables[p][va[j]].addr \in Pages /\ lv[tables[p][va[j]].addr] = j + 1
         /\ ix[tables[p][va[j]].addr][j] = va[j]
         /\ \A k \in 1 .. j - 1 : ix[tables[p][va[j]].addr][k] = ix[p][k]
<1>1. j < Depth /\ j \in 1 .. Depth
  BY VMemoryAssumption
<1>2. PICK i : i = va[j]
  OBVIOUS
<1>3. i \in Index
  BY <1>1, <1>2 DEF VAddr
<1>4. Linked(lv, p, i)
  BY <1>1, <1>2 DEF Linked
<1> QED
  BY <1>2, <1>3, <1>4, Zenon DEF Links

\* A way from the top of a map goes down the levels, by the indices of va.
LEMMA WayPlaces ==
  ASSUME NEW lv, NEW ix, Places(lv, ix), Links(lv, ix), Tops(lv), NEW m \in Alive, NEW va \in VAddr,
         NEW w \in Ways(tables, top[m], va)
  PROVE  /\ \A k \in 1 .. Depth : w[k] \in Pages /\ lv[w[k]] = k
         /\ \A k \in 1 .. Depth : \A j \in 1 .. k - 1 : ix[w[k]][j] = va[j]
<1>1. Depth \in Nat
  BY VMemoryAssumption
<1>2. ASSUME NEW p \in Pages, NEW j \in 1 .. Depth - 1, lv[p] = j, getFlag(tables[p][va[j]], "present")
      PROVE  /\ tables[p][va[j]].addr \in Pages /\ lv[tables[p][va[j]].addr] = j + 1
             /\ ix[tables[p][va[j]].addr][j] = va[j]
             /\ \A k \in 1 .. j - 1 : ix[tables[p][va[j]].addr][k] = ix[p][k]
  BY <1>2, LinkDown
<1>3. top[m] \in Pages /\ lv[top[m]] = 1
  BY DEF Tops
<1>4. \A k \in 1 .. Depth : w[k] \in Pages /\ lv[w[k]] = k
  <2>1. Descends(lv, tables, top[m], va)
    BY <1>2 DEF Descends
  <2> QED
    BY <1>3, <2>1, WayLevels
<1>5. \A k \in 1 .. Depth - 1 : getFlag(tables[w[k]][va[k]], "present") /\ tables[w[k]][va[k]].addr = w[k + 1]
  BY DEF Ways
<1> DEFINE off == { k \in 1 .. Depth : ~ \A j \in 1 .. k - 1 : ix[w[k]][j] = va[j] }
<1>6. off = {}
  <2>1. SUFFICES ASSUME off # {} PROVE FALSE
    OBVIOUS
  <2>2. off \subseteq Nat
    BY <1>1
  <2>3. PICK x \in off : \A y \in off : x <= y
    BY <2>1, <2>2, LeastExists
  <2>4. x \in 1 .. Depth /\ ~ \A j \in 1 .. x - 1 : ix[w[x]][j] = va[j]
    BY <2>3
  <2>5. x # 1
    BY <2>4
  <2>6. PICK y : y = x - 1
    OBVIOUS
  <2>7. y \in 1 .. Depth - 1 /\ y \in 1 .. Depth /\ y + 1 = x /\ ~(x <= y) /\ y \in Nat
    BY <1>1, <2>4, <2>5, <2>6
  <2>8. \A j \in 1 .. y - 1 : ix[w[y]][j] = va[j]
    BY <2>3, <2>7
  <2>9. PICK p : p = w[y]
    OBVIOUS
  <2>10. p \in Pages /\ lv[p] = y /\ getFlag(tables[p][va[y]], "present") /\ tables[p][va[y]].addr = w[x]
    BY <1>4, <1>5, <2>7, <2>9
  <2>11. ix[w[x]][y] = va[y] /\ \A k \in 1 .. y - 1 : ix[w[x]][k] = ix[p][k]
    BY <1>2, <2>7, <2>10
  <2>12. \A j \in 1 .. x - 1 : j = y \/ j \in 1 .. y - 1
    BY <2>6, <2>7
  <2> QED
    BY <2>4, <2>8, <2>9, <2>11, <2>12
<1> QED
  BY <1>4, <1>6

-----------------------------------------------------------------------------
\* The way of the call is the way of its address, also when it has written.
LEMMA LeafReached ==
  ASSUME Good, NEW c \in CPUs, pc[c] \in InWalk, at[c].level = Depth, NEW e \in EntryType,
         Written(at[c].table, Here(c), e)
  PROVE  Reach(tables', top[call[c].m], call[c].va) = e
<1>1. PICK lv, ix : Shape(lv, ix)
  BY DEF Good
<1>2. PICK p, i : p = at[c].table /\ i = Here(c)
  OBVIOUS
<1>3. /\ p \in DOMAIN tables /\ lv[p] = Depth /\ i \in Index /\ i = call[c].va[Depth] /\ Written(p, i, e)
  <2>1. StateTypes /\ CallInv /\ Walker(lv, ix, c)
    BY <1>1 DEF Good, Shape
  <2> QED
    BY <1>2, <2>1, WalkerPlace DEF Pages, Here
<1>4. /\ tables'[p][i] = e /\ DOMAIN tables' = DOMAIN tables
      /\ \A q \in DOMAIN tables : q # p => tables'[q] = tables[q]
  <2>1. TableTypes
    BY DEF Good
  <2>2. DOMAIN tables' = DOMAIN tables
    BY <1>3 DEF Written
  <2> QED
    BY <1>3, <2>1, <2>2, OneEntry
<1>5. PICK w : Leads(lv, c, w)
  BY <1>1 DEF Shape, Walker
<1>6. Depth \in Nat \ {0}
  BY VMemoryAssumption
<1>7. /\ w \in [1 .. Depth -> Pages] /\ w[1] = top[call[c].m] /\ w[Depth] = p
      /\ \A k \in 1 .. Depth : lv[w[k]] = k
      /\ \A k \in 1 .. Depth - 1 :
           /\ getFlag(tables[w[k]][call[c].va[k]], "present")
           /\ tables[w[k]][call[c].va[k]].addr = w[k + 1]
  BY <1>2, <1>3, <1>5 DEF Leads
<1>8. ASSUME NEW k \in 1 .. Depth - 1 PROVE tables'[w[k]] = tables[w[k]]
  <2>1. k \in 1 .. Depth /\ k # Depth
    BY <1>6
  <2>2. w[k] \in DOMAIN tables /\ w[k] # p
    BY <1>3, <1>7, <2>1 DEF Pages
  <2> QED
    BY <1>4, <2>2
<1>9. PICK t, root, va : t = tables' /\ root = top[call[c].m] /\ va = call[c].va
  OBVIOUS
<1>10. w \in Ways(t, root, va)
  <2>1. w \in [1 .. Depth -> DOMAIN t]
    BY <1>4, <1>7, <1>9 DEF Pages
  <2>2. \A k \in 1 .. Depth - 1 : getFlag(t[w[k]][va[k]], "present") /\ t[w[k]][va[k]].addr = w[k + 1]
    BY <1>7, <1>8, <1>9
  <2> QED
    BY <1>7, <1>9, <2>1, <2>2 DEF Ways
<1>11. Reach(t, root, va) = t[w[Depth]][va[Depth]]
  BY <1>10, ReachAlong
<1> QED
  BY <1>2, <1>3, <1>4, <1>7, <1>9, <1>11

\* Only setFlags takes a call from storeFlags to unlock.
LEMMA OnlyLeafFlags ==
  ASSUME CopyInv, Next, NEW c \in CPUs, pc[c] = "storeFlags", pc'[c] = "unlock"
  PROVE  LeafFlags(c)
<1>1. DOMAIN pc = CPUs
  BY DEF CopyInv
<1>2. PICK d \in CPUs :
        \/ Calls(d) \/ Lock(d) \/ Follow(d) \/ Allocate(d) \/ Leaf(d) \/ LoadAddress(d) \/ StoreAddress(d)
        \/ LoadFlags(d) \/ LinkTable(d) \/ LeafFlags(d) \/ Clear(d) \/ Unlock(d)
        \/ CopyAlloc(d) \/ CopyEntry(d) \/ CopyDone(d)
  BY DEF Next
<1>3. CASE LeafFlags(d)
  <2>1. pc' = [pc EXCEPT ![d] = "unlock"]
    BY <1>3 DEF LeafFlags
  <2> QED
    BY <1>1, <1>3, <2>1
<1>4. CASE Calls(d)
  <2>1. \/ pc' = pc
        \/ pc' = [pc EXCEPT ![d] = "lock"]
        \/ pc' = [pc EXCEPT ![d] = "alloc"]
    BY <1>4 DEF Calls, MapCall, UnmapCall, RemapCall, FlagsCall, CopyCall, Start, switchPagemap
  <2> QED
    BY <1>1, <2>1
<1>5. CASE Clear(d)
  <2>1. pc[d] = "clear" /\ pc' = [pc EXCEPT ![d] = "unlock"]
    BY <1>5 DEF Clear
  <2> QED
    BY <1>1, <2>1
<1>6. CASE \/ Lock(d) \/ Follow(d) \/ Allocate(d) \/ Leaf(d) \/ LoadAddress(d) \/ StoreAddress(d)
           \/ LoadFlags(d) \/ LinkTable(d) \/ Unlock(d) \/ CopyAlloc(d) \/ CopyEntry(d) \/ CopyDone(d)
  <2>1. \/ pc' = pc
        \/ \E s \in {"walk", "setAddress", "storeAddress", "setFlags", "storeFlags", "clear", "lock", "idle", "copy"} :
             pc' = [pc EXCEPT ![d] = s]
    BY <1>6 DEF Lock, Follow, Allocate, Leaf, Load, LoadAddress, StoreAddress, LoadFlags, LinkTable, Unlock,
       CopyAlloc, CopyEntry, CopyDone
  <2> QED
    BY <1>1, <2>1
<1> QED
  BY <1>2, <1>3, <1>4, <1>5, <1>6

(***************************************************************************)
(* mapMem takes effect (MapTakesEffect): when setFlags has written the     *)
(* entry, the address translates, in the map of the call, to the page with *)
(* the flags asked for, unless a second map has lost a table or has written*)
(* the entry between setAddress and setFlags, or memory ran out.  With one *)
(* map nothing comes between: its lock is held (Fresh).                    *)
(***************************************************************************)
THEOREM MappingHolds == Spec => MapTakesEffect
<1>1. ASSUME IInv, [Next]_vars, NEW c \in CPUs,
             pc[c] = "storeFlags", pc'[c] = "unlock", call[c].op = "map", ~Lossy, ~atNull, ~Overtaken(c)
      PROVE  /\ Reach(tables', top[call[c].m], call[c].va).addr = call[c].pa
             /\ call[c].flags \subseteq Reach(tables', top[call[c].m], call[c].va).flags
  <2>1. CopyInv /\ Good
    BY <1>1, NotLossy DEF IInv
  <2>2. Next
    BY <1>1 DEF vars
  <2>3. LeafFlags(c)
    BY <1>1, <2>1, <2>2, OnlyLeafFlags
  <2>4. PICK e : e = setFlags(at[c].seen, call[c].flags, call[c].op # "remFlags")
    OBVIOUS
  <2>5. /\ pc[c] \in InWalk /\ at[c].level = Depth /\ Written(at[c].table, Here(c), e) /\ e \in EntryType
        /\ e.addr = at[c].seen.addr /\ call[c].flags \subseteq e.flags
    BY <1>1, <2>1, <2>3, <2>4, LeafFlagsStep
  <2>6. at[c].seen.addr = call[c].pa
    <3>1. CASE Several
      BY <1>1, <3>1, SeveralMaps DEF Overtaken
    <3>2. CASE ~Several
      <4>1. Alone(c) /\ Addresses(c)
        BY <1>1, <2>1, <3>2 DEF Good, Fresh, Addresses
      <4>2. Address(c) = call[c].pa
        BY <2>5, VMemoryAssumption DEF Address
      <4> QED
        BY <1>1, <4>1, <4>2 DEF Alone
    <3> QED
      BY <3>1, <3>2
  <2> QED
    BY <2>1, <2>5, <2>6, LeafReached
<1>2. IInv /\ [Next]_vars =>
        [\A c \in CPUs :
           LET k == call[c]
               e == Reach(tables', top[k.m], k.va)
           IN  pc[c] = "storeFlags" /\ pc'[c] = "unlock" /\ k.op = "map" /\ ~Lossy /\ ~atNull /\ ~Overtaken(c) =>
                 e.addr = k.pa /\ k.flags \subseteq e.flags]_vars
  BY <1>1
<1>3. Spec => []IInv
  BY PageTablesShaped
<1>4. Spec => [][Next]_vars
  BY DEF Spec
<1> QED
  BY <1>2, <1>3, <1>4, PTL DEF MapTakesEffect

-----------------------------------------------------------------------------
\* A way stays one where its links do.
LEMMA WayKept ==
  ASSUME NEW t, NEW u, NEW root, NEW va, NEW w \in Ways(t, root, va), w \in [1 .. Depth -> DOMAIN u],
         \A k \in 1 .. Depth - 1 : u[w[k]][va[k]] = t[w[k]][va[k]]
  PROVE  w \in Ways(u, root, va)
<1>1. /\ w[1] = root
      /\ \A k \in 1 .. Depth - 1 : getFlag(t[w[k]][va[k]], "present") /\ t[w[k]][va[k]].addr = w[k + 1]
  BY DEF Ways
<1>2. \A k \in 1 .. Depth - 1 : getFlag(u[w[k]][va[k]], "present") /\ u[w[k]][va[k]].addr = w[k + 1]
  BY <1>1
<1> QED
  BY <1>1, <1>2 DEF Ways

\* An address translates as before if its way is left alone, and if a way that
\* is new leads to an empty entry.
LEMMA SameReach ==
  ASSUME NEW t, NEW u, NEW root, NEW va, DOMAIN t \subseteq DOMAIN u,
         \A w \in Ways(t, root, va) : \A k \in 1 .. Depth : u[w[k]][va[k]] = t[w[k]][va[k]],
         \A w \in Ways(u, root, va) : Ways(t, root, va) # {} \/ u[w[Depth]][va[Depth]] = Empty
  PROVE  Reach(u, root, va) = Reach(t, root, va)
<1>1. ASSUME NEW w \in Ways(t, root, va) PROVE Reach(u, root, va) = Reach(t, root, va)
  <2>1. Depth \in 1 .. Depth /\ \A k \in 1 .. Depth - 1 : k \in 1 .. Depth
    BY VMemoryAssumption
  <2>2. w \in [1 .. Depth -> DOMAIN u]
    BY DEF Ways
  <2>3. w \in Ways(u, root, va)
    BY <2>1, <2>2, WayKept
  <2>4. Reach(t, root, va) = t[w[Depth]][va[Depth]] /\ Reach(u, root, va) = u[w[Depth]][va[Depth]]
    BY <2>3, ReachAlong
  <2> QED
    BY <2>1, <2>4
<1>2. ASSUME Ways(t, root, va) = {}, NEW w \in Ways(u, root, va) PROVE Reach(u, root, va) = Empty
  BY <1>2, ReachAlong
<1>3. CASE Ways(t, root, va) = {}
  <2>1. Reach(t, root, va) = Empty
    BY <1>3, Zenon DEF Reach
  <2>2. CASE Ways(u, root, va) = {}
    BY <2>1, <2>2, Zenon DEF Reach
  <2>3. CASE Ways(u, root, va) # {}
    BY <1>2, <1>3, <2>1, <2>3
  <2> QED
    BY <2>2, <2>3
<1> QED
  BY <1>1, <1>3

\* A page that pMemory::alloc has zeroed is on no way.
LEMMA ZeroedReach ==
  ASSUME Good, tables' = Zeroed(Alloc), NEW m \in Alive, NEW va \in VAddr
  PROVE  Reach(tables', top[m], va) = Reach(tables, top[m], va)
<1>1. PICK lv, ix : Shape(lv, ix)
  BY DEF Good
<1>2. Places(lv, ix) /\ Links(lv, ix) /\ Tops(lv) /\ top[m] \in Pages /\ lv[top[m]] = 1
  BY <1>1 DEF Shape, Tops
<1>3. PICK u, root : u = tables' /\ root = top[m]
  OBVIOUS
<1>4. DOMAIN tables \subseteq DOMAIN u /\ \A p \in Pages : u[p] = tables[p]
  <2>1. \A p \in Pages : p # Alloc
    BY AllocFresh DEF Pages
  <2> QED
    BY <1>3, <2>1 DEF Zeroed, Pages
<1>5. ASSUME NEW w \in Ways(tables, root, va), NEW k \in 1 .. Depth PROVE u[w[k]][va[k]] = tables[w[k]][va[k]]
  <2>1. w[k] \in Pages
    BY <1>2, <1>3, WayPlaces
  <2> QED
    BY <1>4, <2>1
<1>6. ASSUME NEW w \in Ways(u, root, va) PROVE w \in Ways(tables, root, va)
  <2>1. Descends(lv, u, root, va)
    BY <1>2, <1>4, LinkDown DEF Descends
  <2>2. \A k \in 1 .. Depth : w[k] \in Pages /\ lv[w[k]] = k
    <3>1. root \in Pages /\ lv[root] = 1
      BY <1>2, <1>3
    <3> QED
      BY <2>1, <3>1, WayLevels
  <2>3. \A k \in 1 .. Depth - 1 : k \in 1 .. Depth
    BY VMemoryAssumption
  <2>4. \A k \in 1 .. Depth - 1 : tables[w[k]][va[k]] = u[w[k]][va[k]]
    BY <1>4, <2>2, <2>3
  <2>5. w \in [1 .. Depth -> DOMAIN tables]
    BY <2>2 DEF Ways, Pages
  <2> QED
    BY <2>4, <2>5, WayKept
<1>7. Reach(u, root, va) = Reach(tables, root, va)
  BY <1>4, <1>5, <1>6, SameReach
<1> QED
  BY <1>3, <1>7

\* An entry is written, and no way of va leads through it, nor does one now.
LEMMA WrittenReach ==
  ASSUME TableTypes, NEW lv, NEW ix, Shape(lv, ix), NEW m \in Alive, NEW va \in VAddr,
         NEW p \in DOMAIN tables, NEW i \in Index, NEW e \in EntryType, Written(p, i, e),
         \A w \in Ways(tables, top[m], va) : \A k \in 1 .. Depth : w[k] # p \/ va[k] # i,
         p \in Pages => lv[p] = Depth \/ (lv[p] = 1 /\ p # top[m]) \/ ~getFlag(e, "present")
  PROVE  Reach(tables', top[m], va) = Reach(tables, top[m], va)
<1>1. Places(lv, ix) /\ Links(lv, ix) /\ Tops(lv) /\ top[m] \in Pages /\ lv[top[m]] = 1 /\ Depth \in Nat
  BY VMemoryAssumption DEF Shape, Tops
<1>2. PICK u, root : u = tables' /\ root = top[m]
  OBVIOUS
<1>3. /\ DOMAIN u = DOMAIN tables /\ u[p][i] = e
      /\ \A q \in DOMAIN tables, j \in Index : q # p \/ j # i => u[q][j] = tables[q][j]
  <2>1. DOMAIN tables' = DOMAIN tables
    BY DEF Written
  <2> QED
    BY <1>2, <2>1, OneEntry
<1>4. ASSUME NEW w \in Ways(tables, root, va), NEW k \in 1 .. Depth PROVE u[w[k]][va[k]] = tables[w[k]][va[k]]
  <2>1. w[k] \in DOMAIN tables /\ va[k] \in Index
    BY DEF Ways, VAddr
  <2>2. w[k] # p \/ va[k] # i
    BY <1>2
  <2> QED
    BY <1>3, <2>1, <2>2
<1>5. ASSUME NEW q \in Pages, NEW j \in 1 .. Depth - 1, lv[q] = j, j = 1 => q = root,
             getFlag(u[q][va[j]], "present")
      PROVE  u[q][va[j]] = tables[q][va[j]]
  <2>1. j # Depth /\ j \in 1 .. Depth
    BY <1>1
  <2>2. q # p \/ va[j] # i
    BY <1>2, <1>3, <1>5, <2>1
  <2>3. q \in DOMAIN tables /\ va[j] \in Index
    BY <2>1 DEF Pages, VAddr
  <2> QED
    BY <1>3, <2>2, <2>3
<1>6. ASSUME NEW w \in Ways(u, root, va) PROVE w \in Ways(tables, root, va)
  <2>1. Descends(lv, u, root, va)
    BY <1>1, <1>5, LinkDown DEF Descends
  <2>2. \A k \in 1 .. Depth : w[k] \in Pages /\ lv[w[k]] = k
    <3>1. root \in Pages /\ lv[root] = 1
      BY <1>1, <1>2
    <3> QED
      BY <2>1, <3>1, WayLevels
  <2>3. \A k \in 1 .. Depth - 1 : k \in 1 .. Depth
    BY <1>1
  <2>4. w[1] = root
    BY DEF Ways
  <2>5. \A k \in 1 .. Depth - 1 : tables[w[k]][va[k]] = u[w[k]][va[k]]
    <3>1. \A k \in 1 .. Depth - 1 : getFlag(u[w[k]][va[k]], "present")
      BY DEF Ways
    <3> QED
      BY <1>5, <2>2, <2>3, <2>4, <3>1
  <2>6. w \in [1 .. Depth -> DOMAIN tables]
    BY <2>2 DEF Ways, Pages
  <2> QED
    BY <2>5, <2>6, WayKept
<1>7. Reach(u, root, va) = Reach(tables, root, va)
  BY <1>3, <1>4, <1>6, SameReach
<1> QED
  BY <1>2, <1>7

\* The entry a call writes at the last level is that of its address, in every map.
LEMMA LeafReach ==
  ASSUME Good, NEW c \in CPUs, pc[c] \in InWalk, at[c].level = Depth, NEW e \in EntryType,
         Written(at[c].table, Here(c), e), NEW m \in Alive, NEW va \in VAddr, call[c].va # va
  PROVE  Reach(tables', top[m], va) = Reach(tables, top[m], va)
<1>1. PICK lv, ix : Shape(lv, ix)
  BY DEF Good
<1>2. PICK p, i : p = at[c].table /\ i = Here(c)
  OBVIOUS
<1>3. /\ p \in DOMAIN tables /\ lv[p] = Depth /\ i \in Index /\ i = call[c].va[Depth] /\ Written(p, i, e)
      /\ call[c].va \in VAddr
  <2>1. StateTypes /\ CallInv /\ Walker(lv, ix, c)
    BY <1>1 DEF Good, Shape
  <2> QED
    BY <1>2, <2>1, WalkerPlace DEF Pages, Here
<1>4. Places(lv, ix) /\ Links(lv, ix) /\ Tops(lv) /\ Walker(lv, ix, c) /\ TableTypes /\ Depth \in Nat \ {0}
  BY <1>1, VMemoryAssumption DEF Shape, Good
<1>5. call[c].va \in VAddr /\ \A j \in 1 .. Depth - 1 : ix[p][j] = call[c].va[j]
  BY <1>2, <1>3, <1>4 DEF Walker
<1>6. ASSUME NEW w \in Ways(tables, top[m], va), NEW k \in 1 .. Depth, w[k] = p, va[k] = i PROVE FALSE
  <2>1. lv[w[k]] = k /\ \A j \in 1 .. k - 1 : ix[w[k]][j] = va[j]
    BY <1>4, WayPlaces
  <2>2. k = Depth
    BY <1>3, <1>6, <2>1
  <2>3. \A j \in 1 .. Depth - 1 : call[c].va[j] = va[j]
    BY <1>5, <1>6, <2>1, <2>2
  <2>4. call[c].va[Depth] = va[Depth]
    BY <1>3, <1>6, <2>2
  <2>5. \A j \in 1 .. Depth : j = Depth \/ j \in 1 .. Depth - 1
    BY <1>4
  <2>6. \A j \in 1 .. Depth : call[c].va[j] = va[j]
    BY <2>3, <2>4, <2>5
  <2>7. call[c].va = va
    <3>1. PICK v : v = call[c].va
      OBVIOUS
    <3>2. v = [j \in 1 .. Depth |-> v[j]] /\ va = [j \in 1 .. Depth |-> va[j]]
      BY <1>5, <3>1 DEF VAddr
    <3>3. \A j \in 1 .. Depth : v[j] = va[j]
      BY <2>6, <3>1
    <3> QED
      BY <3>1, <3>2, <3>3, Zenon
  <2> QED
    BY <2>7
<1> QED
  BY <1>1, <1>3, <1>4, <1>6, WrittenReach

\* setAddress: above the last level it leaves an entry that links nothing.
LEMMA StoreAddressReach ==
  ASSUME Good, NEW c \in CPUs, StoreAddress(c), ~Broken', NEW m \in Alive, NEW va \in VAddr, call[c].va # va
  PROVE  Reach(tables', top[m], va) = Reach(tables, top[m], va)
<1>1. PICK lv, ix : Shape(lv, ix)
  BY DEF Good
<1>2. PICK e : e = [at[c].seen EXCEPT !.addr = Address(c)]
  OBVIOUS
<1>3. /\ pc[c] \in InWalk /\ e \in EntryType /\ Written(at[c].table, Here(c), e)
      /\ at[c].level < Depth => ~getFlag(Entry(c), "present") /\ ~getFlag(e, "present")
      /\ at[c].level < Depth \/ at[c].level = Depth
  BY <1>2, StoreAddressStep
<1>4. CASE at[c].level = Depth
  BY <1>3, <1>4, LeafReach
<1>5. CASE at[c].level < Depth
  <2>1. PICK p, i : p = at[c].table /\ i = Here(c)
    OBVIOUS
  <2>2. /\ StateTypes /\ TableTypes /\ CallInv /\ Walker(lv, ix, c) /\ Depth \in Nat
        /\ Places(lv, ix) /\ Links(lv, ix) /\ Tops(lv)
    BY <1>1, VMemoryAssumption DEF Good, Shape
  <2>3. p \in DOMAIN tables /\ i \in Index /\ lv[p] = at[c].level /\ at[c].level \in 1 .. Depth
    BY <1>3, <2>1, <2>2, WalkerPlace DEF Pages
  <2>4. ~getFlag(tables[p][i], "present") /\ ~getFlag(e, "present") /\ Written(p, i, e)
    BY <1>3, <1>5, <2>1 DEF Entry
  <2>5. ASSUME NEW w \in Ways(tables, top[m], va), NEW k \in 1 .. Depth PROVE w[k] # p \/ va[k] # i
    <3>1. lv[w[k]] = k
      BY <2>2, WayPlaces
    <3>2. CASE k = Depth
      BY <1>5, <2>2, <2>3, <3>1, <3>2
    <3>3. CASE k # Depth
      <4>1. k \in 1 .. Depth - 1
        BY <2>2, <3>3
      <4>2. getFlag(tables[w[k]][va[k]], "present")
        BY <4>1 DEF Ways
      <4> QED
        BY <2>4, <4>2
    <3> QED
      BY <3>2, <3>3
  <2> QED
    BY <1>1, <1>3, <2>2, <2>3, <2>4, <2>5, WrittenReach
<1> QED
  BY <1>3, <1>4, <1>5

\* The map that is being made is not yet one.
LEMMA CopyEntryReach ==
  ASSUME Good, NEW c \in CPUs, CopyEntry(c), NEW m \in Alive, NEW va \in VAddr
  PROVE  Reach(tables', top[m], va) = Reach(tables, top[m], va)
<1>1. PICK lv, ix : Shape(lv, ix)
  BY DEF Good
<1>2. PICK p, i, e : /\ p = at[c].table /\ i = CHOOSE x \in call[c].left : \A y \in call[c].left : x <= y
                     /\ e = tables[top[call[c].old]][i]
  OBVIOUS
<1>3. pc[c] = "copy" /\ call[c].left # {} /\ Written(p, i, e)
  BY <1>2 DEF CopyEntry, Written
<1>4. Places(lv, ix) /\ Links(lv, ix) /\ Tops(lv) /\ Copier(lv, c) /\ TableTypes /\ CallInv
  BY <1>1 DEF Shape, Good
<1>5. call[c].old \in Alive /\ call[c].left \subseteq Index
  BY <1>3, <1>4 DEF CallInv, Copying
<1>6. i \in Index
  <2>1. \E x \in call[c].left : \A y \in call[c].left : x <= y
    BY <1>3, <1>5, LeastExists, VMemoryAssumption
  <2> QED
    BY <1>2, <1>5, <2>1
<1>7. e \in EntryType
  <2>1. top[call[c].old] \in Pages
    BY <1>4, <1>5 DEF Tops
  <2> QED
    BY <1>2, <1>4, <1>6, <2>1 DEF TableTypes, Pages
<1>8. p \in DOMAIN tables /\ (p # 0 => lv[p] = 1 /\ \A n \in Maps : top[n] # p) /\ m \in Maps
  BY <1>2, <1>3, <1>4 DEF Copier, TableTypes, Pages, Alive
<1>9. ASSUME NEW w \in Ways(tables, top[m], va), NEW k \in 1 .. Depth PROVE w[k] # p
  <2>1. w[k] \in Pages /\ lv[w[k]] = k
    BY <1>4, WayPlaces
  <2>2. w[1] = top[m]
    BY DEF Ways
  <2>3. w[k] # 0
    BY <2>1 DEF Pages
  <2> QED
    BY <1>8, <2>1, <2>2, <2>3
<1>10. p \in Pages => lv[p] = 1 /\ p # top[m]
  BY <1>8 DEF Pages
<1> QED
  BY <1>1, <1>3, <1>4, <1>6, <1>7, <1>8, <1>9, <1>10, WrittenReach

\* A table that is linked is empty: what it hides was not translated before.
LEMMA LinkReach ==
  ASSUME Good, NEW c \in CPUs, LinkTable(c), ~Broken', NEW m \in Alive, NEW va \in VAddr
  PROVE  Reach(tables', top[m], va) = Reach(tables, top[m], va)
<1>1. PICK lv, ix : Shape(lv, ix)
  BY DEF Good
<1>2. StateTypes /\ TableTypes /\ CallInv /\ Fresh /\ ~lost /\ ~atNull
  BY DEF Good
<1>3. PICK p, i, q, n : p = at[c].table /\ i = Here(c) /\ q = at[c].new_table /\ n = at[c].level
  OBVIOUS
<1>4. PICK e : e = setFlags(at[c].seen, {"present", "rw", "user"}, TRUE)
  OBVIOUS
<1>5. /\ pc[c] = "storeFlags" /\ n < Depth
      /\ lost' = (lost \/ Entry(c) # at[c].seen \/ at[c].seen.addr # q) /\ atNull' = (atNull \/ q = 0)
      /\ Written(p, i, e) /\ top' = top
  BY <1>3, <1>4 DEF LinkTable
<1>6. /\ Links(lv, ix) /\ Places(lv, ix) /\ Tops(lv) /\ Walker(lv, ix, c) /\ Storer(lv, ix, c)
      /\ pc[c] \in InWalk /\ Adding(c)
  BY <1>1, <1>3, <1>5 DEF Shape, Adding, InWalk, Accesses
<1>7. q # 0 /\ at[c].seen = tables[p][i] /\ tables[p][i].addr = q
  <2>1. Several' = Several
    BY <1>5 DEF Several, Alive
  <2>2. Address(c) = q /\ Addresses(c)
    BY <1>3, <1>5 DEF Address, Addresses
  <2>3. Several \/ (Entry(c) = at[c].seen /\ at[c].seen.addr = q)
    BY <1>2, <1>5, <2>2 DEF Fresh, Alone
  <2>4. q # 0 /\ Entry(c) = at[c].seen /\ at[c].seen.addr = q
    BY <1>5, <2>1, <2>3 DEF Broken
  <2> QED
    BY <1>3, <2>4 DEF Entry
<1>8. /\ n \in 1 .. Depth /\ p \in Pages /\ lv[p] = n /\ i \in Index
  BY <1>2, <1>3, <1>6, WalkerPlace
<1>9. /\ q \in Pages /\ tables[q] = EmptyTable /\ lv[q] = n + 1 /\ n < Depth
      /\ ~getFlag(tables[p][i], "present")
  <2>1. q \in Pages /\ tables[q] = EmptyTable /\ lv[q] = n + 1 /\ Unlinked(lv, q)
    BY <1>3, <1>6, <1>7 DEF Storer
  <2> QED
    BY <1>5, <1>7, <1>8, <2>1 DEF Unlinked, Linked
<1>10. Depth \in Nat /\ n \in Nat /\ n + 1 # n
  BY <1>8, VMemoryAssumption
<1>11. p \in DOMAIN tables /\ q \in DOMAIN tables /\ tables[p][i] \in EntryType
  BY <1>2, <1>8, <1>9 DEF TableTypes, Pages
<1>12. e \in EntryType /\ e.addr = q
  <2>1. PICK f : f = {"present", "rw", "user"}
    OBVIOUS
  <2>2. f \in SUBSET FlagNames
    BY <2>1 DEF FlagNames
  <2>3. e = [at[c].seen EXCEPT !.flags = at[c].seen.flags \cup f]
    BY <1>4, <2>1 DEF setFlags
  <2> QED
    BY <1>7, <1>11, <2>2, <2>3, FlagsType
<1>13. PICK u, root : u = tables' /\ root = top[m]
  OBVIOUS
<1>14. root \in Pages /\ lv[root] = 1
  BY <1>6, <1>13 DEF Tops
<1>15. /\ DOMAIN u = DOMAIN tables /\ u[p][i] = e
       /\ \A r \in DOMAIN tables : r # p => u[r] = tables[r]
       /\ \A r \in DOMAIN tables, j \in Index : r # p \/ j # i => u[r][j] = tables[r][j]
  <2>1. DOMAIN tables' = DOMAIN tables
    BY <1>5 DEF Written
  <2>2. /\ tables'[p][i] = e
        /\ \A r \in DOMAIN tables : r # p => tables'[r] = tables[r]
        /\ \A r \in DOMAIN tables, j \in Index : r # p \/ j # i => tables'[r][j] = tables[r][j]
    BY <1>2, <1>5, <1>8, <1>11, <1>12, OneEntry
  <2> QED
    BY <1>13, <2>1, <2>2
\* The way of va, where there was one, did not come through the empty entry.
<1>16. ASSUME NEW w \in Ways(tables, root, va), NEW k \in 1 .. Depth PROVE u[w[k]][va[k]] = tables[w[k]][va[k]]
  <2>1. w[k] \in Pages /\ lv[w[k]] = k /\ w[k] \in DOMAIN tables /\ va[k] \in Index
    BY <1>6, <1>13, WayPlaces DEF Pages, VAddr
  <2>2. CASE k = Depth
    <3>1. w[k] # p
      BY <1>8, <1>9, <1>10, <2>1, <2>2
    <3> QED
      BY <1>15, <2>1, <3>1
  <2>3. CASE k # Depth
    <3>1. k \in 1 .. Depth - 1
      BY <1>10, <2>3
    <3>2. getFlag(tables[w[k]][va[k]], "present")
      BY <3>1 DEF Ways
    <3>3. w[k] # p \/ va[k] # i
      BY <1>9, <3>2
    <3> QED
      BY <1>15, <2>1, <3>3
  <2> QED
    BY <2>2, <2>3
\* A way that is new comes through the table that was linked.
<1>17. ASSUME NEW w \in Ways(u, root, va), w \notin Ways(tables, root, va) PROVE u[w[Depth]][va[Depth]] = Empty
  <2>1. ASSUME NEW r \in Pages, NEW j \in 1 .. Depth - 1, lv[r] = j, getFlag(u[r][va[j]], "present")
        PROVE  u[r][va[j]].addr \in Pages /\ lv[u[r][va[j]].addr] = j + 1
    <3>1. j \in 1 .. Depth
      BY <1>10
    <3>2. r \in DOMAIN tables /\ va[j] \in Index
      BY <3>1 DEF Pages, VAddr
    <3>3. CASE r = p /\ va[j] = i
      BY <1>8, <1>9, <1>12, <1>15, <2>1, <3>3
    <3>4. CASE ~(r = p /\ va[j] = i)
      <4>1. u[r][va[j]] = tables[r][va[j]]
        BY <1>15, <3>2, <3>4
      <4> QED
        BY <1>6, <2>1, <4>1, LinkDown
    <3> QED
      BY <3>3, <3>4
  <2>2. \A k \in 1 .. Depth : w[k] \in Pages /\ lv[w[k]] = k
    <3>1. Descends(lv, u, root, va)
      BY <2>1 DEF Descends
    <3> QED
      BY <1>14, <3>1, WayLevels
  <2>3. w \in [1 .. Depth -> DOMAIN tables]
    BY <2>2 DEF Ways, Pages
  <2>4. PICK k \in 1 .. Depth - 1 : tables[w[k]][va[k]] # u[w[k]][va[k]]
    BY <1>17, <2>3, WayKept
  <2>5. k \in 1 .. Depth /\ k \in Nat
    BY <1>10
  <2>6. w[k] = p /\ va[k] = i
    BY <1>15, <2>2, <2>4, <2>5 DEF Pages, VAddr
  <2>7. k = n
    BY <1>8, <2>2, <2>5, <2>6
  <2>8. u[w[k]][va[k]].addr = w[k + 1]
    BY DEF Ways
  <2>9. w[n + 1] = q
    BY <1>12, <1>15, <2>6, <2>7, <2>8
  <2>10. u[q] = EmptyTable
    BY <1>8, <1>9, <1>10, <1>11, <1>15
  <2>11. n + 1 = Depth
    <3>1. SUFFICES ASSUME n + 1 # Depth PROVE FALSE
      OBVIOUS
    <3>2. PICK j : j = n + 1
      OBVIOUS
    <3>3. j \in 1 .. Depth - 1 /\ j \in 1 .. Depth
      BY <1>8, <1>9, <1>10, <3>1, <3>2
    <3>4. getFlag(u[w[j]][va[j]], "present")
      BY <3>3 DEF Ways
    <3>5. va[j] \in Index
      BY <3>3 DEF VAddr
    <3> QED
      BY <2>9, <2>10, <3>2, <3>4, <3>5 DEF getFlag, EmptyTable, Empty
  <2>12. va[Depth] \in Index
    BY VMemoryAssumption DEF VAddr
  <2> QED
    BY <2>9, <2>10, <2>11, <2>12 DEF EmptyTable
<1>18. Reach(u, root, va) = Reach(tables, root, va)
  BY <1>15, <1>16, <1>17, SameReach
<1> QED
  BY <1>13, <1>18

\* The steps that change no table.
LEMMA NoWrite ==
  ASSUME NEW c \in CPUs,
         \/ Calls(c) \/ Lock(c) \/ Follow(c) \/ Leaf(c) \/ LoadAddress(c) \/ LoadFlags(c) \/ Unlock(c)
         \/ CopyDone(c)
  PROVE  tables' = tables
<1>1. CASE Calls(c)
  BY <1>1 DEF Calls, MapCall, UnmapCall, RemapCall, FlagsCall, CopyCall, Start, switchPagemap
<1>2. CASE \/ Lock(c) \/ Follow(c) \/ Leaf(c) \/ LoadAddress(c) \/ LoadFlags(c) \/ Unlock(c) \/ CopyDone(c)
  BY <1>2 DEF Lock, Follow, Leaf, Load, LoadAddress, LoadFlags, Unlock, CopyDone
<1> QED
  BY <1>1, <1>2

(***************************************************************************)
(* No step changes how an address translates that no call in progress      *)
(* names (OnlyItsAddress), in any map, unless a second map has lost a      *)
(* table or memory ran out: pMemory::alloc zeroes pages that are on no     *)
(* way, get_next_lvl links empty tables, the calls change the entry of     *)
(* their address, and newPagemap and clonePagemap write tables of their    *)
(* own.                                                                    *)
(***************************************************************************)
THEOREM OthersUntouched == Spec => OnlyItsAddress
<1>1. ASSUME IInv, [Next]_vars, ~Lossy', ~atNull', NEW m \in Alive, NEW va \in VAddr,
             \A c \in CPUs : call[c].op \notin {"none", "copy"} => call[c].va # va
      PROVE  Reach(tables', top[m], va) = Reach(tables, top[m], va)
  <2>1. ~Broken'
    <3>1. (~Lossy /\ ~atNull => ~Broken)'
      BY NotLossy, PTL
    <3> QED
      BY <1>1, <3>1
  <2>2. CopyInv /\ Good
    BY <1>1, <2>1, BrokenStays DEF IInv
  <2>3. ASSUME NEW c \in CPUs, StoreAddress(c) \/ LeafFlags(c) \/ Clear(c)
        PROVE  Reach(tables', top[m], va) = Reach(tables, top[m], va)
    <3>1. call[c].va # va
      <4>1. pc[c] \in {"storeAddress", "storeFlags", "clear"}
        BY <2>3 DEF StoreAddress, LeafFlags, Clear
      <4>2. call[c].op \in Ops
        BY <2>2, <4>1 DEF Good, CallInv, InSection, InWalk, Accesses, Args
      <4> QED
        BY <1>1, <4>2 DEF Ops
    <3>2. CASE StoreAddress(c)
      BY <2>1, <2>2, <3>1, <3>2, StoreAddressReach
    <3>3. CASE LeafFlags(c)
      <4>1. PICK e : e = setFlags(at[c].seen, call[c].flags, call[c].op # "remFlags")
        OBVIOUS
      <4>2. pc[c] \in InWalk /\ at[c].level = Depth /\ Written(at[c].table, Here(c), e) /\ e \in EntryType
        BY <2>2, <3>3, <4>1, LeafFlagsStep
      <4> QED
        BY <2>2, <3>1, <4>2, LeafReach
    <3>4. CASE Clear(c)
      <4>1. pc[c] \in InWalk /\ at[c].level = Depth /\ Written(at[c].table, Here(c), Empty) /\ Empty \in EntryType
        BY <2>2, <3>4, ClearStep
      <4> QED
        BY <2>2, <3>1, <4>1, LeafReach
    <3> QED
      BY <2>3, <3>2, <3>3, <3>4
  <2>4. ASSUME NEW c \in CPUs, Allocate(c) \/ CopyAlloc(c)
        PROVE  Reach(tables', top[m], va) = Reach(tables, top[m], va)
    <3>1. tables' = Zeroed(Alloc)
      BY <2>4 DEF Allocate, CopyAlloc
    <3> QED
      BY <2>2, <3>1, ZeroedReach
  <2>5. CASE tables' = tables
    BY <2>5
  <2>6. CASE Next
    BY <2>1, <2>2, <2>3, <2>4, <2>5, <2>6, NoWrite, LinkReach, CopyEntryReach DEF Next
  <2>7. CASE UNCHANGED vars
    BY <2>5, <2>7 DEF vars
  <2> QED
    BY <1>1, <2>6, <2>7
<1>2. IInv /\ [Next]_vars =>
        [tables' # tables /\ ~Lossy' /\ ~atNull' =>
           \A m \in Alive, va \in VAddr :
             Reach(tables', top[m], va) # Reach(tables, top[m], va) =>
               \E c \in CPUs : call[c].op \notin {"none", "copy"} /\ call[c].va = va]_vars
  BY <1>1
<1>3. Spec => []IInv
  BY PageTablesShaped
<1>4. Spec => [][Next]_vars
  BY DEF Spec
<1> QED
  BY <1>2, <1>3, <1>4, PTL DEF OnlyItsAddress

=============================================================================
