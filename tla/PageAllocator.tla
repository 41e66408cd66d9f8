--------------------------- MODULE PageAllocator ----------------------------
(***************************************************************************)
(* What a physical page allocator promises its callers: it grants runs of  *)
(* pages nobody holds and takes pages back only from a block its holder    *)
(* returns.  No bitmap, no cursor, no lock.  PMemory implements this.  The *)
(* allocator may break, and then promises nothing any more.                *)
(***************************************************************************)
EXTENDS PageBitmap

CONSTANTS
  Pages,       \* page numbers
  UsablePages, \* the pages that are free before the first call
  MaxCount     \* largest number of pages one block has

VARIABLES
  free,  \* pages that can be granted
  held,  \* blocks granted and not returned, [page, count]
  broken \* the allocator has lost track of its pages

absVars == <<free, held, broken>>

Block == [page : Pages, count : 1 .. MaxCount]

PagesOf(b) == Run(b.page, b.count)

Init == free = UsablePages /\ held = {} /\ broken = FALSE

\* A run of free pages becomes a block somebody holds.
Grant ==
  /\ ~broken /\ ~broken'
  /\ \E b \in Block :
       /\ PagesOf(b) \subseteq free
       /\ free' = free \ PagesOf(b)
       /\ held' = held \cup {b}

\* A held block goes away; the first n of its pages can be granted again.
Return ==
  /\ ~broken /\ ~broken'
  /\ \E b \in held : \E n \in 1 .. b.count :
       /\ held' = held \ {b}
       /\ free' = free \cup Run(b.page, n)

\* The allocator breaks, and then stays broken.
Break == broken'

Next == Grant \/ Return \/ Break

Spec == Init /\ [][Next]_absVars

=============================================================================
