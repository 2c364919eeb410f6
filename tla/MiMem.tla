------------------------------- MODULE MiMem --------------------------------
(***************************************************************************)
(* The heap every layer of the stack takes its frames and queue entries    *)
(* from (mimem.c).  The heap is covered by blocks, each a header followed  *)
(* by the memory handed out; the headers form a doubly linked list in      *)
(* address order.  MiMem_Alloc takes the smallest free block that fits and *)
(* splits it; MiMem_Free merges the block with its free neighbours.  There *)
(* is one thread: interrupt handlers do not use the heap.                  *)
(*                                                                         *)
(* An address is an offset from the aligned base.  Headers outside the     *)
(* list are not kept.  Callers free what they were given, once.            *)
(***************************************************************************)
EXTENDS Integers

CONSTANTS
  HeapSize,    (* HEAP_SIZE, less what aligning the base takes.            *)
  Meta,        (* blockMetaDataSize.                                       *)
  Alignment,   (* BYTE_ALIGNMENT.                                          *)
  Request      (* The sizes asked for: a uint8_t, 1 to 255 in the code.    *)

ASSUME HeapAssumption ==
  /\ Alignment \in Nat \ {0}
  /\ Meta \in Nat \ {0} /\ Meta % Alignment = 0
  /\ HeapSize \in Nat /\ HeapSize > Meta
  /\ Request \subseteq Nat \ {0}

NULL == -1
Address == 0 .. HeapSize - 1

VARIABLES
  block,   (* The headers in the list, by address.                         *)
  total,   (* totalFreeBytesRemaining.                                     *)
  live,    (* What callers hold: the size they asked for, by pointer.      *)
  failed   (* History: the request MiMem_Alloc returned NULL for, or 0.    *)

vars == <<block, total, live, failed>>

Header == [next : Address \union {NULL}, prev : Address \union {NULL},
           size : 1 .. HeapSize, free : BOOLEAN]

Free(a) == block[a].free

HasHeaders(f) == DOMAIN f \subseteq Address /\ f \in [DOMAIN f -> Header]

TypeOK ==
  /\ HasHeaders(block)
  /\ total \in Int
  /\ DOMAIN live \subseteq Address
  /\ live \in [DOMAIN live -> Request]
  /\ failed \in Request \union {0}

(* MiMem_Init: one free block.                                             *)
Whole == [a \in {0} |-> [next |-> NULL, prev |-> NULL, size |-> HeapSize, free |-> TRUE]]

Init ==
  /\ block = Whole
  /\ total = HeapSize
  /\ live = [p \in {} |-> 0]
  /\ failed = 0

----------------------------------------------------------------------------
(* MiMem_Alloc.                                                            *)

ALIGN(x) == ((x - 1) \div Alignment) * Alignment + Alignment

(* Mutation: the header is not counted.                                    *)
RequestedSizeBare(size) == ALIGN(size)

RequestedSize(size) == ALIGN(size + Meta)
HEAP_MINIMUM_BLOCK_SIZE == Meta + Alignment

Fits(a, requested) == Free(a) /\ block[a].size >= requested

(* The search: the first of the smallest blocks that fit.                  *)
BestFit(a, requested) ==
  /\ Fits(a, requested)
  /\ \A b \in DOMAIN block :
       Fits(b, requested) =>
         \/ block[a].size < block[b].size
         \/ block[a].size = block[b].size /\ a <= b

(* Mutation: the block behind the new one still points to the old one.     *)
SplitOneWay(a, requested) ==
  LET old == block[a]
      new == a + requested
  IN [x \in DOMAIN block \union {new} |->
        IF x = a
        THEN [next |-> new, prev |-> old.prev, size |-> requested, free |-> FALSE]
        ELSE IF x = new
        THEN [next |-> old.next, prev |-> a, size |-> old.size - requested, free |-> TRUE]
        ELSE block[x]]

(* splitBlock: a new free block takes what is left behind the request.     *)
Split(a, requested) ==
  LET old == block[a]
      new == a + requested
  IN [x \in DOMAIN block \union {new} |->
        IF x = a
        THEN [next |-> new, prev |-> old.prev, size |-> requested, free |-> FALSE]
        ELSE IF x = new
        THEN [next |-> old.next, prev |-> a, size |-> old.size - requested, free |-> TRUE]
        ELSE IF x = old.next THEN [block[x] EXCEPT !.prev = new]
        ELSE block[x]]

Taken(a) == [block EXCEPT ![a].free = FALSE]

Leaves(a, requested) == block[a].size - requested > HEAP_MINIMUM_BLOCK_SIZE

Alloc(size) ==
  \E a \in DOMAIN block :
    /\ RequestedSize(size) <= total
    /\ BestFit(a, RequestedSize(size))
    /\ block' = IF Leaves(a, RequestedSize(size)) THEN Split(a, RequestedSize(size)) ELSE Taken(a)
    /\ total' = total - block'[a].size
    /\ live' = [p \in DOMAIN live \union {a + Meta} |->
                  IF p = a + Meta THEN size ELSE live[p]]
    /\ failed' = 0

AllocFails(size) ==
  /\ \/ RequestedSize(size) > total
     \/ \A a \in DOMAIN block : ~Fits(a, RequestedSize(size))
  /\ failed' = size
  /\ UNCHANGED <<block, total, live>>

----------------------------------------------------------------------------
(* MiMem_Free.                                                             *)

(* Block a takes in block b, the next one in the list.                     *)
Merge(f, a, b) ==
  [x \in DOMAIN f \ {b} |->
     IF x = a THEN [f[a] EXCEPT !.next = f[b].next, !.size = f[a].size + f[b].size]
     ELSE IF x = f[b].next THEN [f[x] EXCEPT !.prev = a]
     ELSE f[x]]

Released(a) == [block EXCEPT ![a].free = TRUE]

MergesPrevious(f, a) == f[a].prev # NULL /\ f[f[a].prev].free

(* Mutation: the previous block is not merged.                             *)
WithPreviousNever(f, a) == f

WithPrevious(f, a) == IF MergesPrevious(f, a) THEN Merge(f, f[a].prev, a) ELSE f

MergesNext(f, a) == f[a].next # NULL /\ f[f[a].next].free
WithNext(f, a) == IF MergesNext(f, a) THEN Merge(f, a, f[a].next) ELSE f

(* The block the freed one has become part of when its next is looked at.  *)
Survivor(f, a) == IF MergesPrevious(f, a) THEN f[a].prev ELSE a

(* Mutation: the survivor of the merge is counted instead of the block.    *)
MiMemFreeSurvivor(p) ==
  LET a == p - Meta
      released == Released(a)
  IN /\ block' = WithNext(WithPrevious(released, a), Survivor(released, a))
     /\ total' = total + block'[Survivor(released, a)].size
     /\ live' = [q \in DOMAIN live \ {p} |-> live[q]]
     /\ failed' = 0

(* Mutation: what was asked for is counted instead of the block.           *)
MiMemFreeAsked(p) ==
  LET a == p - Meta
      released == Released(a)
  IN /\ block' = WithNext(WithPrevious(released, a), Survivor(released, a))
     /\ total' = total + live[p]
     /\ live' = [q \in DOMAIN live \ {p} |-> live[q]]
     /\ failed' = 0

MiMemFree(p) ==
  LET a == p - Meta
      released == Released(a)
  IN /\ IF a \in DOMAIN block
        THEN /\ block' = WithNext(WithPrevious(released, a), Survivor(released, a))
             /\ total' = total + block[a].size
        ELSE UNCHANGED <<block, total>>
     /\ live' = [q \in DOMAIN live \ {p} |-> live[q]]
     /\ failed' = 0

Next ==
  \/ \E size \in Request : Alloc(size) \/ AllocFails(size)
  \/ \E p \in DOMAIN live : MiMemFree(p)

Spec == Init /\ [][Next]_vars

----------------------------------------------------------------------------
(* Correctness.                                                            *)

End(f, a) == a + f[a].size

(* A list of headers is the heap, in address order: every block ends where *)
(* the next one begins, the last one at the end of the heap, and prev      *)
(* undoes next.                                                            *)
Linked(f) ==
  /\ 0 \in DOMAIN f
  /\ \A a \in DOMAIN f :
       /\ IF f[a].next = NULL THEN End(f, a) = HeapSize
          ELSE f[a].next = End(f, a) /\ End(f, a) \in DOMAIN f /\ f[End(f, a)].prev = a
       /\ IF f[a].prev = NULL THEN a = 0
          ELSE f[a].prev \in DOMAIN f /\ f[f[a].prev].next = a

Ordered(f) == \A a, b \in DOMAIN f : a < b => End(f, a) <= b

Chain(f) == HasHeaders(f) /\ Linked(f) /\ Ordered(f)

(* Two neighbours are never both free: what is freed is merged at once.    *)
Coalesced ==
  \A a \in DOMAIN block : Free(a) /\ block[a].next # NULL => ~Free(block[a].next)

(* The blocks in use are the ones callers hold, and have room for what was *)
(* asked for.                                                              *)
Backed ==
  /\ \A p \in DOMAIN live :
       /\ p - Meta \in DOMAIN block
       /\ ~Free(p - Meta)
       /\ Meta + live[p] <= block[p - Meta].size
  /\ \A a \in DOMAIN block : Free(a) \/ a + Meta \in DOMAIN live

(* The inductive invariant: MiMem_Alloc and MiMem_Free keep the list whole *)
(* and coalesced, and every pointer a caller holds backed by a block.      *)
IInv == TypeOK /\ Chain(block) /\ Coalesced /\ Backed

(* What two callers hold does not overlap, lies in the heap, and overlaps  *)
(* no header of the list.                                                  *)
Disjoint ==
  /\ \A p \in DOMAIN live : p + live[p] <= HeapSize
  /\ \A p, q \in DOMAIN live : p < q => p + live[p] <= q - Meta
  /\ \A p \in DOMAIN live : \A a \in DOMAIN block : p <= a => p + live[p] <= a

(* When everything was freed the heap is as MiMem_Init left it: any size   *)
(* that was ever available is available again.                             *)
ComesBack == DOMAIN live = {} => block = Whole

(* The count of free bytes, kept by two additions and subtractions that    *)
(* never look at the list, stays in range and covers every free block.     *)
Counted ==
  /\ total \in 0 .. HeapSize
  /\ \A a \in DOMAIN block : Free(a) => block[a].size <= total

(* MiMem_Alloc returns NULL only if no free block is large enough.         *)
FailsOnlyIfFull ==
  failed # 0 => \A a \in DOMAIN block : ~Fits(a, RequestedSize(failed))
============================================================================
