---------------------------- MODULE MiMem_proofs ----------------------------
(***************************************************************************)
(* Proofs about the heap.  The list of headers stays whole through a split *)
(* and through a merge (two lemmas about any list), the blocks in use are  *)
(* those callers hold, and so what callers hold never overlaps.            *)
(***************************************************************************)
EXTENDS MiMem, TLAPS

(* A request is rounded up: with its header it fits what is taken for it.  *)
LEMMA RequestedSizeBounds ==
  ASSUME NEW size \in Request
  PROVE  RequestedSize(size) \in Nat /\ RequestedSize(size) >= size + Meta
<1> DEFINE x == size + Meta
           q == (x - 1) \div Alignment
<1>1. x \in Nat /\ x > 0
  BY HeapAssumption
<1>2. Alignment \in Nat /\ Alignment > 0
  BY HeapAssumption
<1>3. x - 1 \in Nat
  BY <1>1
<1>4. q \in Nat /\ x - 1 < (q * Alignment) + Alignment
  BY <1>2, <1>3, SMT
<1>5. q * Alignment \in Nat
  BY <1>2, <1>4, SMT
<1>6. RequestedSize(size) = (q * Alignment) + Alignment
  BY DEF RequestedSize, ALIGN
<1> QED
  BY <1>1, <1>2, <1>4, <1>5, <1>6

(* Every block of a list lies in the heap.                                 *)
LEMMA ChainBounds ==
  ASSUME NEW f, Chain(f), NEW x \in DOMAIN f
  PROVE  /\ x \in Nat /\ x < HeapSize /\ x \in Address /\ HeapSize \in Nat
         /\ f[x] \in Header
         /\ f[x].size \in Nat /\ f[x].size > 0
         /\ x + f[x].size <= HeapSize
<1> USE HeapAssumption DEF Chain
<1>1. /\ x \in Nat /\ x < HeapSize /\ x \in Address /\ f[x] \in Header
      /\ f[x].size \in Nat /\ f[x].size > 0
  BY DEF HasHeaders, Header, Address
<1>2. CASE f[x].next = NULL
  BY <1>1, <1>2 DEF Linked, End
<1>3. CASE f[x].next # NULL
  <2>1. x + f[x].size \in DOMAIN f
    BY <1>3 DEF Linked, End
  <2> QED
    BY <1>1, <2>1 DEF HasHeaders, Address
<1> QED
  BY <1>1, <1>2, <1>3

(* What the split list holds, block by block.                              *)
LEMMA SplitBlocks ==
  ASSUME Chain(block), NEW a \in DOMAIN block, NEW requested \in Nat,
         requested > 0, block[a].size - requested > 0
  PROVE  /\ a + requested \notin DOMAIN block
         /\ DOMAIN Split(a, requested) = DOMAIN block \union {a + requested}
         /\ \A x \in DOMAIN block \ {a} :
              /\ Split(a, requested)[x].size = block[x].size
              /\ Split(a, requested)[x].free = block[x].free
              /\ Split(a, requested)[x].next = block[x].next
              /\ Split(a, requested)[x].prev =
                   (IF x = block[a].next THEN a + requested ELSE block[x].prev)
         /\ Split(a, requested)[a] =
              [next |-> a + requested, prev |-> block[a].prev, size |-> requested, free |-> FALSE]
         /\ Split(a, requested)[a + requested] =
              [next |-> block[a].next, prev |-> a, size |-> block[a].size - requested, free |-> TRUE]
<1> USE DEF Chain
<1>1. /\ a \in Address /\ block[a] \in Header
      /\ \A x \in DOMAIN block : x \in Address /\ block[x] \in Header
  BY DEF HasHeaders
<1>2. a + requested \notin DOMAIN block
  <2>1. block[a].size \in Nat /\ a \in Nat
    BY <1>1, HeapAssumption DEF Header, Address
  <2>2. a < a + requested /\ a + requested < End(block, a)
    BY <2>1 DEF End
  <2> QED
    BY <2>1, <2>2, <1>1 DEF Ordered, End, Address
<1>3. a \in Nat /\ a + requested # a
  BY <1>1, HeapAssumption DEF Address
<1>4. DOMAIN Split(a, requested) = DOMAIN block \union {a + requested}
  BY DEF Split
<1>5. Split(a, requested)[a] =
        [next |-> a + requested, prev |-> block[a].prev, size |-> requested, free |-> FALSE]
  BY <1>3 DEF Split
<1>6. Split(a, requested)[a + requested] =
        [next |-> block[a].next, prev |-> a, size |-> block[a].size - requested, free |-> TRUE]
  BY <1>3 DEF Split
<1>7. ASSUME NEW x \in DOMAIN block \ {a}
      PROVE  /\ Split(a, requested)[x].size = block[x].size
             /\ Split(a, requested)[x].free = block[x].free
             /\ Split(a, requested)[x].next = block[x].next
             /\ Split(a, requested)[x].prev =
                  (IF x = block[a].next THEN a + requested ELSE block[x].prev)
  BY <1>1, <1>2 DEF Split, Header
<1> QED
  BY <1>2, <1>4, <1>5, <1>6, <1>7

(* Splitting a block leaves the list whole.                                *)
LEMMA SplitChain ==
  ASSUME Chain(block), NEW a \in DOMAIN block, NEW requested \in Nat,
         requested > 0, block[a].size - requested > 0
  PROVE  Chain(Split(a, requested))
<1> DEFINE g == Split(a, requested)
           n == a + requested
<1>0. /\ n \notin DOMAIN block
      /\ DOMAIN g = DOMAIN block \union {n}
      /\ \A x \in DOMAIN block \ {a} :
           /\ g[x].size = block[x].size
           /\ g[x].free = block[x].free
           /\ g[x].next = block[x].next
           /\ g[x].prev = (IF x = block[a].next THEN n ELSE block[x].prev)
      /\ g[a] = [next |-> n, prev |-> block[a].prev, size |-> requested, free |-> FALSE]
      /\ g[n] = [next |-> block[a].next, prev |-> a, size |-> block[a].size - requested, free |-> TRUE]
  BY SplitBlocks
<1>1. g = [x \in DOMAIN g |-> g[x]]
  BY DEF Split
<1> HIDE DEF g
<1> USE HeapAssumption DEF Chain
<1>2. \A x \in DOMAIN block : /\ x \in Nat /\ x < HeapSize
                              /\ block[x] \in Header
                              /\ block[x].size \in Nat /\ block[x].size > 0
                              /\ x + block[x].size <= HeapSize
  BY ChainBounds
<1>3. HasHeaders(g)
  <2>1. n \in Address /\ DOMAIN g \subseteq Address
    BY <1>0, <1>2 DEF Address
  <2>2. g[a] \in Header
    BY <1>0, <1>2, <2>1 DEF Header, NULL, Address
  <2>3. g[n] \in Header
    BY <1>0, <1>2, <2>1 DEF Header, NULL, Address
  <2>4. ASSUME NEW x \in DOMAIN block \ {a}
        PROVE  g[x] \in Header
    BY <1>0, <1>2, <2>1 DEF Header, Split, g
  <2> QED
    BY <1>0, <1>1, <2>1, <2>2, <2>3, <2>4 DEF HasHeaders
<1>4. Ordered(g)
  <2> SUFFICES ASSUME NEW x \in DOMAIN g, NEW y \in DOMAIN g, x < y
               PROVE  End(g, x) <= y
    BY DEF Ordered
  <2>1. \A u, v \in DOMAIN block : u < v => u + block[u].size <= v
    BY DEF Ordered, End
  <2>2. CASE x = n
    BY <2>2, <2>1, <1>0, <1>2 DEF End
  <2>3. CASE y = n /\ x # n
    BY <2>3, <2>1, <1>0, <1>2 DEF End
  <2>4. CASE x # n /\ y # n
    BY <2>4, <2>1, <1>0, <1>2 DEF End
  <2> QED
    BY <2>2, <2>3, <2>4
<1>5. Linked(g)
  <2>1. 0 \in DOMAIN g
    BY <1>0 DEF Linked
  <2>2. ASSUME NEW x \in DOMAIN g
        PROVE  IF g[x].next = NULL THEN End(g, x) = HeapSize
               ELSE /\ g[x].next = End(g, x)
                    /\ End(g, x) \in DOMAIN g
                    /\ g[End(g, x)].prev = x
    <3>1. CASE x = a
      BY <3>1, <1>0, <1>2 DEF End, NULL
    <3>2. CASE x = n
      BY <3>2, <1>0, <1>2 DEF End, NULL, Linked
    <3>3. CASE x # n /\ x # a
      <4>1. x \in DOMAIN block \ {a}
        BY <3>3, <1>0
      <4>2. CASE g[x].next = NULL
        BY <4>1, <4>2, <1>0 DEF End, Linked
      <4>3. CASE g[x].next # NULL
        <5>1. /\ block[x].next = End(block, x)
              /\ End(block, x) \in DOMAIN block
              /\ block[End(block, x)].prev = x
          BY <4>1, <4>3, <1>0 DEF Linked
        <5>2. End(g, x) = End(block, x)
          BY <4>1, <1>0 DEF End
        <5>3. End(block, x) # block[a].next
          BY <5>1, <4>1, <1>2 DEF Linked, NULL
        <5>4. g[End(block, x)].prev = x
          <6>1. CASE End(block, x) = a
            BY <6>1, <5>1, <1>0
          <6>2. CASE End(block, x) # a
            BY <6>2, <5>1, <5>3, <1>0
          <6> QED
            BY <6>1, <6>2
        <5> QED
          BY <5>1, <5>2, <5>4, <4>1, <4>3, <1>0
      <4> QED
        BY <4>2, <4>3
    <3> QED
      BY <3>1, <3>2, <3>3
  <2>3. ASSUME NEW x \in DOMAIN g
        PROVE  IF g[x].prev = NULL THEN x = 0
               ELSE g[x].prev \in DOMAIN g /\ g[g[x].prev].next = x
    <3>1. CASE x = n
      BY <3>1, <1>0, <1>2 DEF NULL
    <3>2. CASE x = a
      <4>1. g[a].prev = block[a].prev
        BY <1>0
      <4>2. CASE block[a].prev = NULL
        BY <3>2, <4>1, <4>2 DEF Linked
      <4>3. CASE block[a].prev # NULL
        <5>1. block[a].prev \in DOMAIN block /\ block[block[a].prev].next = a
          BY <4>3 DEF Linked
        <5>2. block[a].prev # a
          BY <5>1, <1>2 DEF Linked, End, NULL
        <5> QED
          BY <3>2, <4>1, <4>3, <5>1, <5>2, <1>0
      <4> QED
        BY <4>2, <4>3
    <3>3. CASE x # n /\ x # a
      <4>1. x \in DOMAIN block \ {a}
        BY <3>3, <1>0
      <4>2. CASE x = block[a].next
        BY <4>1, <4>2, <1>0, <1>2 DEF NULL, Linked
      <4>3. CASE x # block[a].next
        <5>1. g[x].prev = block[x].prev
          BY <4>1, <4>3, <1>0
        <5>2. CASE block[x].prev = NULL
          BY <4>1, <5>1, <5>2 DEF Linked
        <5>3. CASE block[x].prev # NULL
          <6>1. block[x].prev \in DOMAIN block /\ block[block[x].prev].next = x
            BY <4>1, <5>3 DEF Linked
          <6>2. block[x].prev # a
            BY <6>1, <4>3
          <6> QED
            BY <5>1, <6>1, <6>2, <5>3, <1>0
        <5> QED
          BY <5>2, <5>3
      <4> QED
        BY <4>2, <4>3
    <3> QED
      BY <3>1, <3>2, <3>3
  <2> QED
    BY <2>1, <2>2, <2>3 DEF Linked
<1> QED
  BY <1>3, <1>4, <1>5 DEF g

(* What a merge of a with its next block b leaves, block by block.         *)
LEMMA MergeBlocks ==
  ASSUME NEW f, Chain(f), NEW a \in DOMAIN f, NEW b \in DOMAIN f, f[a].next = b
  PROVE  /\ b = a + f[a].size /\ a < b
         /\ DOMAIN Merge(f, a, b) = DOMAIN f \ {b}
         /\ \A x \in DOMAIN f \ {a, b} :
              /\ Merge(f, a, b)[x].size = f[x].size
              /\ Merge(f, a, b)[x].free = f[x].free
              /\ Merge(f, a, b)[x].next = f[x].next
              /\ Merge(f, a, b)[x].prev = (IF x = f[b].next THEN a ELSE f[x].prev)
         /\ Merge(f, a, b)[a].next = f[b].next
         /\ Merge(f, a, b)[a].prev = f[a].prev
         /\ Merge(f, a, b)[a].size = f[a].size + f[b].size
         /\ Merge(f, a, b)[a].free = f[a].free
<1> USE HeapAssumption DEF Chain
<1>1. \A x \in DOMAIN f : x \in Nat /\ f[x] \in Header /\ f[x].size \in Nat /\ f[x].size > 0
  BY DEF HasHeaders, Header, Address
<1>2. b = a + f[a].size /\ a < b
  BY <1>1 DEF Linked, End, NULL
<1>3. DOMAIN Merge(f, a, b) = DOMAIN f \ {b}
  BY DEF Merge
<1>4. ASSUME NEW x \in DOMAIN f \ {a, b}
      PROVE  /\ Merge(f, a, b)[x].size = f[x].size
             /\ Merge(f, a, b)[x].free = f[x].free
             /\ Merge(f, a, b)[x].next = f[x].next
             /\ Merge(f, a, b)[x].prev = (IF x = f[b].next THEN a ELSE f[x].prev)
  BY <1>1 DEF Merge, Header
<1>5. /\ Merge(f, a, b)[a].next = f[b].next
      /\ Merge(f, a, b)[a].prev = f[a].prev
      /\ Merge(f, a, b)[a].size = f[a].size + f[b].size
      /\ Merge(f, a, b)[a].free = f[a].free
  BY <1>1, <1>2 DEF Merge, Header
<1> QED
  BY <1>2, <1>3, <1>4, <1>5

(* Merging a block with the next one leaves the list whole.                *)
LEMMA MergeChain ==
  ASSUME NEW f, Chain(f), NEW a \in DOMAIN f, NEW b \in DOMAIN f, f[a].next = b
  PROVE  Chain(Merge(f, a, b))
<1> DEFINE g == Merge(f, a, b)
<1>0. /\ b = a + f[a].size /\ a < b
      /\ DOMAIN g = DOMAIN f \ {b}
      /\ \A x \in DOMAIN f \ {a, b} :
           /\ g[x].size = f[x].size
           /\ g[x].free = f[x].free
           /\ g[x].next = f[x].next
           /\ g[x].prev = (IF x = f[b].next THEN a ELSE f[x].prev)
      /\ g[a].next = f[b].next
      /\ g[a].prev = f[a].prev
      /\ g[a].size = f[a].size + f[b].size
      /\ g[a].free = f[a].free
  BY MergeBlocks
<1> USE HeapAssumption DEF Chain
<1>1. \A x \in DOMAIN f : /\ x \in Nat /\ x < HeapSize /\ x \in Address
                          /\ f[x] \in Header
                          /\ f[x].size \in Nat /\ f[x].size > 0
                          /\ x + f[x].size <= HeapSize
  BY ChainBounds
<1>2. HasHeaders(g)
  <2>1. g[a] \in Header
    <3>1. f[a].size + f[b].size \in 1 .. HeapSize
      BY <1>0, <1>1
    <3>2. g[a] = [f[a] EXCEPT !.next = f[b].next, !.size = f[a].size + f[b].size]
      BY <1>0, <1>1, SMTT(30) DEF Merge
    <3>3. f[a] \in Header /\ f[b].next \in Address \union {NULL}
      BY <1>1 DEF Header
    <3> QED
      BY <3>1, <3>2, <3>3 DEF Header
  <2>2. ASSUME NEW x \in DOMAIN f \ {a, b}
        PROVE  g[x] \in Header
    BY <1>0, <1>1, SMTT(30) DEF Header, Merge, NULL
  <2>3. g = [x \in DOMAIN g |-> g[x]]
    BY DEF Merge
  <2> HIDE DEF g
  <2>4. DOMAIN g \subseteq Address
    BY <1>0, <1>1
  <2>5. \A x \in DOMAIN g : g[x] \in Header
    BY <1>0, <2>1, <2>2
  <2> QED
    BY <2>3, <2>4, <2>5 DEF HasHeaders
<1> HIDE DEF g
<1>3. Ordered(g)
  <2> SUFFICES ASSUME NEW x \in DOMAIN g, NEW y \in DOMAIN g, x < y
               PROVE  End(g, x) <= y
    BY DEF Ordered
  <2>1. \A u, v \in DOMAIN f : u < v => u + f[u].size <= v
    BY DEF Ordered, End
  <2>2. CASE x = a
    <3>1. b <= y /\ y # b /\ y \in DOMAIN f
      BY <2>1, <2>2, <1>0
    <3>2. b + f[b].size <= y
      BY <3>1, <2>1, <1>1
    <3> QED
      BY <2>2, <3>2, <1>0, <1>1 DEF End
  <2>3. CASE x # a
    BY <2>3, <2>1, <1>0, <1>1 DEF End
  <2> QED
    BY <2>2, <2>3
<1>4. Linked(g)
  <2>1. 0 \in DOMAIN g
    BY <1>0, <1>1 DEF Linked
  <2>2. ASSUME NEW x \in DOMAIN g
        PROVE  IF g[x].next = NULL THEN End(g, x) = HeapSize
               ELSE /\ g[x].next = End(g, x)
                    /\ End(g, x) \in DOMAIN g
                    /\ g[End(g, x)].prev = x
    <3>1. CASE x = a
      <4>1. End(g, a) = End(f, b)
        BY <1>0, <1>1 DEF End
      <4>2. CASE f[b].next = NULL
        BY <3>1, <4>1, <4>2, <1>0 DEF Linked
      <4>3. CASE f[b].next # NULL
        <5>1. f[b].next = End(f, b) /\ End(f, b) \in DOMAIN f
          BY <4>3 DEF Linked
        <5>2. End(f, b) > b
          BY <1>1 DEF End
        <5> QED
          BY <3>1, <4>1, <4>3, <5>1, <5>2, <1>0, <1>1
      <4> QED
        BY <4>2, <4>3
    <3>2. CASE x # a
      <4>1. x \in DOMAIN f \ {a, b}
        BY <3>2, <1>0
      <4>2. End(g, x) = End(f, x)
        BY <4>1, <1>0 DEF End
      <4>3. CASE f[x].next = NULL
        BY <4>1, <4>2, <4>3, <1>0 DEF Linked
      <4>4. CASE f[x].next # NULL
        <5>1. /\ f[x].next = End(f, x)
              /\ End(f, x) \in DOMAIN f
              /\ f[End(f, x)].prev = x
          BY <4>1, <4>4 DEF Linked
        <5>2. End(f, x) # b
          <6>1. f[b].prev = a
            BY <1>0 DEF Linked, End, NULL
          <6> QED
            BY <5>1, <6>1, <4>1
        <5>3. End(f, x) # f[b].next
          <6>1. CASE f[b].next = NULL
            BY <6>1, <5>1, <1>1 DEF NULL
          <6>2. CASE f[b].next # NULL
            <7>1. f[f[b].next].prev = b
              BY <6>2 DEF Linked
            <7> QED
              BY <7>1, <5>1, <4>1
          <6> QED
            BY <6>1, <6>2
        <5>4. g[End(f, x)].prev = x
          <6>1. CASE End(f, x) = a
            BY <6>1, <5>1, <1>0
          <6>2. CASE End(f, x) # a
            BY <6>2, <5>1, <5>2, <5>3, <1>0
          <6> QED
            BY <6>1, <6>2
        <5> QED
          BY <4>1, <4>2, <4>4, <5>1, <5>2, <5>4, <1>0
      <4> QED
        BY <4>3, <4>4
    <3> QED
      BY <3>1, <3>2
  <2>3. ASSUME NEW x \in DOMAIN g
        PROVE  IF g[x].prev = NULL THEN x = 0
               ELSE g[x].prev \in DOMAIN g /\ g[g[x].prev].next = x
    <3>1. x \in DOMAIN f /\ x # b
      BY <1>0
    <3>2. CASE x = f[b].next /\ x # a
      BY <3>1, <3>2, <1>0, <1>1 DEF NULL
    <3>3. CASE x # f[b].next \/ x = a
      <4>1. g[x].prev = f[x].prev
        BY <3>1, <3>3, <1>0
      <4>2. CASE f[x].prev = NULL
        BY <3>1, <4>1, <4>2 DEF Linked
      <4>3. CASE f[x].prev # NULL
        <5>1. f[x].prev \in DOMAIN f /\ f[f[x].prev].next = x
          BY <3>1, <4>3 DEF Linked
        <5>2. f[x].prev # a
          BY <5>1, <3>1
        <5>3. f[x].prev # b
          <6>1. CASE x = a
            <7>1. f[b].next = a => End(f, b) = a
              BY <1>1 DEF Linked, NULL
            <7>2. End(f, b) > a
              BY <1>0, <1>1 DEF End
            <7> QED
              BY <6>1, <5>1, <7>1, <7>2, <1>1
          <6>2. CASE x # a
            BY <6>2, <3>3, <5>1
          <6> QED
            BY <6>1, <6>2
        <5> QED
          BY <4>1, <4>3, <5>1, <5>2, <5>3, <1>0
      <4> QED
        BY <4>2, <4>3
    <3> QED
      BY <3>2, <3>3
  <2> QED
    BY <2>1, <2>2, <2>3 DEF Linked
<1> QED
  BY <1>2, <1>3, <1>4 DEF g

(* MiMem_Alloc keeps the invariant.                                        *)
LEMMA AllocKeeps ==
  ASSUME IInv, NEW size \in Request, Alloc(size)
  PROVE  IInv'
<1> DEFINE r == RequestedSize(size)
<1>0. r \in Nat /\ r >= size + Meta /\ size \in Nat /\ size > 0 /\ Meta \in Nat /\ Meta > 0
  BY RequestedSizeBounds, HeapAssumption
<1>1. PICK a \in DOMAIN block :
        /\ Fits(a, r)
        /\ block' = IF Leaves(a, r) THEN Split(a, r) ELSE Taken(a)
        /\ total' = total - block'[a].size
        /\ live' = [p \in DOMAIN live \union {a + Meta} |-> IF p = a + Meta THEN size ELSE live[p]]
        /\ failed' = 0
  BY DEF Alloc, BestFit
<1> HIDE DEF r
<1>2. \A x \in DOMAIN block : /\ x \in Nat /\ x < HeapSize /\ block[x] \in Header
                              /\ block[x].size \in Nat /\ block[x].size > 0
                              /\ x + block[x].size <= HeapSize
  BY ChainBounds DEF IInv
<1>3. \A p \in DOMAIN live : p \in Nat
  BY HeapAssumption DEF IInv, TypeOK, Address
<1>4. Free(a) /\ block[a].size >= r /\ a + Meta < HeapSize /\ a + Meta \in Address
  <2>1. Free(a) /\ block[a].size >= r
    BY <1>1 DEF Fits
  <2> QED
    BY <2>1, <1>0, <1>2, HeapAssumption DEF Address
<1>5. a + Meta \notin DOMAIN live
  BY <1>0, <1>2, <1>4 DEF IInv, Backed
<1>6. Chain(block') /\ Coalesced' /\ Backed' /\ total' \in Int
  <2>1. CASE Leaves(a, r)
    <3>1. block' = Split(a, r)
      BY <1>1, <2>1
    <3>2. block[a].size - r > 0
      BY <2>1, <1>0, <1>2, HeapAssumption DEF Leaves, HEAP_MINIMUM_BLOCK_SIZE
    <3>3. /\ a + r \notin DOMAIN block
          /\ DOMAIN block' = DOMAIN block \union {a + r}
          /\ \A x \in DOMAIN block \ {a} :
               /\ block'[x].size = block[x].size
               /\ block'[x].free = block[x].free
               /\ block'[x].next = block[x].next
          /\ block'[a] = [next |-> a + r, prev |-> block[a].prev, size |-> r, free |-> FALSE]
          /\ block'[a + r] = [next |-> block[a].next, prev |-> a,
                              size |-> block[a].size - r, free |-> TRUE]
      <4>1. r > 0 /\ Chain(block)
        BY <1>0 DEF IInv
      <4>2. /\ a + r \notin DOMAIN block
            /\ DOMAIN Split(a, r) = DOMAIN block \union {a + r}
            /\ \A x \in DOMAIN block \ {a} :
                 /\ Split(a, r)[x].size = block[x].size
                 /\ Split(a, r)[x].free = block[x].free
                 /\ Split(a, r)[x].next = block[x].next
                 /\ Split(a, r)[x].prev =
                      (IF x = block[a].next THEN a + r ELSE block[x].prev)
            /\ Split(a, r)[a] = [next |-> a + r, prev |-> block[a].prev, size |-> r, free |-> FALSE]
            /\ Split(a, r)[a + r] = [next |-> block[a].next, prev |-> a,
                                    size |-> block[a].size - r, free |-> TRUE]
        BY <3>2, <4>1, <1>0, SplitBlocks, Zenon
      <4> QED
        BY <3>1, <4>2
    <3>4. Chain(block')
      BY <3>1, <3>2, <1>0, SplitChain DEF IInv
    <3>5. Coalesced'
      <4> SUFFICES ASSUME NEW x \in DOMAIN block', block'[x].free, block'[x].next # NULL
                   PROVE  ~block'[block'[x].next].free
        BY DEF Coalesced, Free
      <4>1. CASE x = a + r
        <5>1. block[a].next # NULL /\ block[a].next \in DOMAIN block
          BY <4>1, <3>3 DEF IInv, Chain, Linked
        <5>2. ~block[block[a].next].free /\ block[a].next # a
          BY <5>1, <1>4 DEF IInv, Coalesced, Free
        <5> QED
          BY <4>1, <5>1, <5>2, <3>3
      <4>2. CASE x # a + r
        <5>1. x \in DOMAIN block \ {a}
          BY <4>2, <3>3
        <5>2. block[x].free /\ block[x].next # NULL /\ block[x].next \in DOMAIN block
          BY <5>1, <3>3 DEF IInv, Chain, Linked
        <5>3. ~block[block[x].next].free
          BY <5>1, <5>2 DEF IInv, Coalesced, Free
        <5> QED
          BY <5>1, <5>2, <5>3, <3>3
      <4> QED
        BY <4>1, <4>2
    <3>6. Backed'
      <4>1. ASSUME NEW p \in DOMAIN live'
            PROVE  /\ p - Meta \in DOMAIN block'
                   /\ ~block'[p - Meta].free
                   /\ Meta + live'[p] <= block'[p - Meta].size
        <5>1. CASE p = a + Meta
          <6>1. p - Meta = a /\ live'[p] = size
            BY <5>1, <1>0, <1>1, <1>2
          <6> QED
            BY <6>1, <3>3, <1>0
        <5>2. CASE p # a + Meta
          <6>1. p \in DOMAIN live /\ live'[p] = live[p]
            BY <5>2, <1>1
          <6>2. p - Meta \in DOMAIN block /\ ~block[p - Meta].free
                /\ Meta + live[p] <= block[p - Meta].size
            BY <6>1 DEF IInv, Backed, Free
          <6>3. p - Meta # a
            BY <5>2, <6>1, <1>0, <1>2, <1>3
          <6> QED
            BY <6>1, <6>2, <6>3, <3>3
        <5> QED
          BY <5>1, <5>2
      <4>2. ASSUME NEW x \in DOMAIN block'
            PROVE  block'[x].free \/ x + Meta \in DOMAIN live'
        BY <3>3, <1>1 DEF IInv, Backed, Free
      <4> QED
        BY <4>1, <4>2 DEF Backed, Free
    <3>7. total' \in Int
      BY <3>3, <1>0, <1>1 DEF IInv, TypeOK
    <3> QED
      BY <3>4, <3>5, <3>6, <3>7
  <2>2. CASE ~Leaves(a, r)
    <3>1. block' = [block EXCEPT ![a].free = FALSE]
      BY <1>1, <2>2 DEF Taken
    <3>2. /\ DOMAIN block' = DOMAIN block
          /\ \A x \in DOMAIN block \ {a} : block'[x] = block[x]
          /\ block'[a] = [block[a] EXCEPT !.free = FALSE]
      BY <3>1
    <3>3. \A x \in DOMAIN block :
            /\ block'[x] \in Header
            /\ block'[x].next = block[x].next /\ block'[x].prev = block[x].prev
            /\ block'[x].size = block[x].size
            /\ x = a => ~block'[x].free
            /\ x # a => block'[x].free = block[x].free
      <4>1. \A x \in DOMAIN block \ {a} : block'[x] = block[x] /\ block[x] \in Header
        BY <3>2, <1>2
      <4>2. /\ block'[a] \in Header
            /\ block'[a].next = block[a].next /\ block'[a].prev = block[a].prev
            /\ block'[a].size = block[a].size /\ ~block'[a].free
        BY <3>2, <1>2 DEF Header
      <4> QED
        BY <4>1, <4>2
    <3>4. block' = [x \in DOMAIN block |-> block'[x]]
      BY <3>1
    <3>5. Chain(block')
      <4>1. HasHeaders(block')
        BY <3>2, <3>3, <3>4 DEF IInv, Chain, HasHeaders
      <4>2. Linked(block')
        BY <3>2, <3>3 DEF IInv, Chain, Linked, End
      <4>3. Ordered(block')
        BY <3>2, <3>3 DEF IInv, Chain, Ordered, End
      <4> QED
        BY <4>1, <4>2, <4>3 DEF Chain
    <3>6. Coalesced'
      <4> SUFFICES ASSUME NEW x \in DOMAIN block', block'[x].free, block'[x].next # NULL
                   PROVE  ~block'[block'[x].next].free
        BY DEF Coalesced, Free
      <4>1. block[x].next \in DOMAIN block /\ block[x].next # NULL /\ x \in DOMAIN block
        BY <3>2, <3>3 DEF IInv, Chain, Linked
      <4>2. ~block[block[x].next].free
        BY <4>1, <3>2, <3>3 DEF IInv, Coalesced, Free
      <4> QED
        BY <4>1, <4>2, <3>2, <3>3
    <3>7. Backed'
      <4>1. ASSUME NEW p \in DOMAIN live'
            PROVE  /\ p - Meta \in DOMAIN block'
                   /\ ~block'[p - Meta].free
                   /\ Meta + live'[p] <= block'[p - Meta].size
        <5>1. CASE p = a + Meta
          <6>1. p - Meta = a /\ live'[p] = size
            BY <5>1, <1>0, <1>1, <1>2
          <6> QED
            BY <6>1, <3>2, <3>3, <1>0, <1>2, <1>4
        <5>2. CASE p # a + Meta
          <6>1. p \in DOMAIN live /\ live'[p] = live[p]
            BY <5>2, <1>1
          <6> QED
            BY <6>1, <3>2, <3>3 DEF IInv, Backed, Free
        <5> QED
          BY <5>1, <5>2
      <4>2. ASSUME NEW x \in DOMAIN block'
            PROVE  block'[x].free \/ x + Meta \in DOMAIN live'
        BY <3>2, <1>1 DEF IInv, Backed, Free
      <4> QED
        BY <4>1, <4>2 DEF Backed, Free
    <3>8. total' \in Int
      BY <3>3, <1>1, <1>2 DEF IInv, TypeOK
    <3> QED
      BY <3>5, <3>6, <3>7, <3>8
  <2> QED
    BY <2>1, <2>2
<1>7. TypeOK'
  <2>1. DOMAIN live' \subseteq Address /\ live' \in [DOMAIN live' -> Request]
    BY <1>1, <1>4 DEF IInv, TypeOK
  <2> QED
    BY <2>1, <1>1, <1>6 DEF TypeOK, Chain
<1> QED
  BY <1>6, <1>7 DEF IInv

(* Where a list of headers has two free neighbours: at most at block s.    *)
CoalescedBut(f, s) ==
  \A x \in DOMAIN f : f[x].free /\ f[x].next # NULL /\ f[f[x].next].free => x = s

(* List g is list f with the free block b, next of the free block a, taken *)
(* in by a: no block in use is lost, none changes its size.                *)
TakenIn(f, g, a, b) ==
  /\ Chain(g)
  /\ DOMAIN g \subseteq DOMAIN f /\ a \in DOMAIN g /\ g[a].free
  /\ \A x \in DOMAIN g : g[x].free = f[x].free
  /\ \A x \in DOMAIN f : ~f[x].free => x \in DOMAIN g /\ g[x].size = f[x].size
  /\ \A x \in DOMAIN g \ {a} : g[x].next = f[x].next
  /\ g[a].next = f[b].next
  /\ DOMAIN g = DOMAIN f \ {b}

LEMMA MergeKeeps ==
  ASSUME NEW f, Chain(f), NEW a \in DOMAIN f, NEW b \in DOMAIN f, f[a].next = b,
         f[a].free = TRUE, f[b].free = TRUE
  PROVE  TakenIn(f, Merge(f, a, b), a, b)
<1> DEFINE g == Merge(f, a, b)
<1>1. Chain(g)
  BY MergeChain
<1>2. /\ b = a + f[a].size /\ a < b
      /\ DOMAIN g = DOMAIN f \ {b}
      /\ \A x \in DOMAIN f \ {a, b} :
           /\ g[x].size = f[x].size
           /\ g[x].free = f[x].free
           /\ g[x].next = f[x].next
           /\ g[x].prev = (IF x = f[b].next THEN a ELSE f[x].prev)
      /\ g[a].next = f[b].next
      /\ g[a].prev = f[a].prev
      /\ g[a].size = f[a].size + f[b].size
      /\ g[a].free = f[a].free
  BY MergeBlocks
<1>3. a # b
  <2>1. a \in Nat /\ b \in Nat
    BY ChainBounds
  <2> QED
    BY <1>2, <2>1
<1> HIDE DEF g
<1>4. \A x \in DOMAIN g : g[x].free = f[x].free
  BY <1>2
<1>5. \A x \in DOMAIN f : ~f[x].free => x \in DOMAIN g /\ g[x].size = f[x].size
  BY <1>2
<1>6. DOMAIN g \subseteq DOMAIN f /\ a \in DOMAIN g /\ g[a].free
  BY <1>2, <1>3
<1>7. (\A x \in DOMAIN g \ {a} : g[x].next = f[x].next) /\ g[a].next = f[b].next
  BY <1>2
<1>8. DOMAIN g = DOMAIN f \ {b}
  BY <1>2
<1> QED
  BY <1>1, <1>4, <1>5, <1>6, <1>7, <1>8 DEF TakenIn, g

(* MiMem_Free keeps the invariant.                                         *)
LEMMA FreeKeeps ==
  ASSUME IInv, NEW p \in DOMAIN live, MiMemFree(p)
  PROVE  IInv'
<1> DEFINE a == p - Meta
           f == Released(a)
           s == Survivor(f, a)
           g == WithPrevious(f, a)
           h == WithNext(g, s)
<1>0. a \in DOMAIN block /\ Meta \in Nat /\ p \in Nat
  BY HeapAssumption DEF IInv, TypeOK, Backed, Address
<1>1. /\ block' = h
      /\ total' = total + block[a].size
      /\ live' = [q \in DOMAIN live \ {p} |-> live[q]]
      /\ failed' = 0
  BY <1>0 DEF MiMemFree
<1>2. /\ DOMAIN f = DOMAIN block
      /\ f = [x \in DOMAIN f |-> f[x]]
      /\ \A x \in DOMAIN block \ {a} : f[x] = block[x]
      /\ f[a].next = block[a].next /\ f[a].prev = block[a].prev
      /\ f[a].size = block[a].size /\ f[a].free /\ f[a] \in Header
  <2>1. block[a] \in Header
    BY <1>0, ChainBounds DEF IInv
  <2> QED
    BY <2>1, <1>0 DEF Released, Header
<1> HIDE DEF a, f
<1>3. Chain(f)
  <2>1. \A x \in DOMAIN f : f[x].next = block[x].next /\ f[x].prev = block[x].prev
                          /\ f[x].size = block[x].size
    BY <1>2
  <2>2. \A x \in DOMAIN f : f[x] \in Header
    <3>1. \A x \in DOMAIN block : block[x] \in Header
      BY ChainBounds DEF IInv
    <3> QED
      BY <3>1, <1>2
  <2>3. HasHeaders(f)
    BY <2>2, <1>2 DEF HasHeaders, IInv, Chain
  <2>4. Linked(f)
    BY <2>1, <1>2 DEF IInv, Chain, Linked, End
  <2>5. Ordered(f)
    BY <2>1, <1>2 DEF IInv, Chain, Ordered, End
  <2> QED
    BY <2>3, <2>4, <2>5 DEF Chain
<1>4. \A x \in DOMAIN f : f[x].free /\ f[x].next # NULL /\ f[f[x].next].free
                          => x = a \/ f[x].next = a
  <2> SUFFICES ASSUME NEW x \in DOMAIN f, f[x].free, f[x].next # NULL, f[f[x].next].free,
                      x # a, f[x].next # a
               PROVE  FALSE
    OBVIOUS
  <2>1. f[x].next \in DOMAIN f
    BY <1>3 DEF Chain, Linked
  <2>2. block[x].free /\ block[x].next # NULL /\ block[block[x].next].free
    BY <2>1, <1>2
  <2> QED
    BY <2>2, <1>2 DEF IInv, Coalesced, Free
<1>5. /\ Chain(g) /\ DOMAIN g \subseteq DOMAIN f /\ s \in DOMAIN g /\ g[s].free
      /\ \A x \in DOMAIN g : g[x].free = f[x].free
      /\ \A x \in DOMAIN f : ~f[x].free => x \in DOMAIN g /\ g[x].size = f[x].size
      /\ CoalescedBut(g, s)
  <2>1. CASE MergesPrevious(f, a)
    <3> DEFINE b == f[a].prev
    <3>1. b # NULL /\ f[b].free /\ s = b /\ g = Merge(f, b, a)
      BY <2>1 DEF MergesPrevious, Survivor, WithPrevious
    <3>2. b \in DOMAIN f /\ f[b].next = a
      BY <3>1, <1>0, <1>2, <1>3 DEF Chain, Linked
    <3>3. /\ Chain(g)
          /\ DOMAIN g \subseteq DOMAIN f /\ b \in DOMAIN g /\ g[b].free
          /\ \A x \in DOMAIN g : g[x].free = f[x].free
          /\ \A x \in DOMAIN f : ~f[x].free => x \in DOMAIN g /\ g[x].size = f[x].size
          /\ \A x \in DOMAIN g \ {b} : g[x].next = f[x].next
          /\ DOMAIN g = DOMAIN f \ {a}
      <4>1. a \in DOMAIN f /\ f[a].free = TRUE /\ f[b].free = TRUE
        <5>1. f[b] \in Header
          BY <3>2, <1>3, ChainBounds
        <5> QED
          BY <5>1, <3>1, <1>0, <1>2 DEF Header
      <4> HIDE DEF b, g, s
      <4>2. TakenIn(f, Merge(f, b, a), b, a)
        BY <3>2, <4>1, <1>3, MergeKeeps, Zenon
      <4> QED
        BY <3>1, <4>2 DEF TakenIn
    <3>4. CoalescedBut(g, s)
      <4> SUFFICES ASSUME NEW x \in DOMAIN g, g[x].free, g[x].next # NULL, g[g[x].next].free,
                          x # b
                   PROVE  FALSE
        BY <3>1 DEF CoalescedBut
      <4>1. x \in DOMAIN f /\ f[x].free /\ f[x].next # NULL /\ g[x].next = f[x].next /\ x # a
        BY <3>3
      <4>2. f[x].next \in DOMAIN g
        BY <4>1, <3>3 DEF Chain, Linked
      <4>3. f[f[x].next].free /\ f[x].next # a
        BY <4>1, <4>2, <3>3
      <4> QED
        BY <4>1, <4>3, <1>4
    <3> QED
      BY <3>1, <3>3, <3>4
  <2>2. CASE ~MergesPrevious(f, a)
    <3>1. s = a /\ g = f
      BY <2>2 DEF Survivor, WithPrevious
    <3>2. CoalescedBut(f, a)
      <4> SUFFICES ASSUME NEW x \in DOMAIN f, f[x].free, f[x].next # NULL, f[f[x].next].free,
                          x # a
                   PROVE  FALSE
        BY DEF CoalescedBut
      <4>1. f[x].next = a
        BY <1>4
      <4>2. f[a].prev = x
        BY <4>1, <1>3 DEF Chain, Linked
      <4>3. x # NULL
        BY <1>3, ChainBounds DEF NULL
      <4> QED
        BY <2>2, <4>2, <4>3 DEF MergesPrevious
    <3> QED
      BY <3>1, <3>2, <1>0, <1>2, <1>3
  <2> QED
    BY <2>1, <2>2
<1> HIDE DEF g, s
<1>6. /\ Chain(h) /\ DOMAIN h \subseteq DOMAIN g
      /\ \A x \in DOMAIN h : h[x].free = g[x].free
      /\ \A x \in DOMAIN g : ~g[x].free => x \in DOMAIN h /\ h[x].size = g[x].size
      /\ \A x \in DOMAIN h : h[x].free /\ h[x].next # NULL => ~h[h[x].next].free
  <2>1. CASE MergesNext(g, s)
    <3> DEFINE b == g[s].next
    <3>1. b # NULL /\ g[b].free /\ h = Merge(g, s, b)
      BY <2>1 DEF MergesNext, WithNext
    <3>2. b \in DOMAIN g
      BY <3>1, <1>5 DEF Chain, Linked
    <3>3. /\ Chain(h)
          /\ DOMAIN h \subseteq DOMAIN g /\ s \in DOMAIN h /\ h[s].free
          /\ \A x \in DOMAIN h : h[x].free = g[x].free
          /\ \A x \in DOMAIN g : ~g[x].free => x \in DOMAIN h /\ h[x].size = g[x].size
          /\ \A x \in DOMAIN h \ {s} : h[x].next = g[x].next
          /\ h[s].next = g[b].next
      <4>1. g[b] \in Header /\ g[s] \in Header
        BY <3>2, <1>5, ChainBounds
      <4>2. g[s].free = TRUE /\ g[b].free = TRUE
        BY <4>1, <3>1, <1>5 DEF Header
      <4> HIDE DEF h, b
      <4>3. g[s].next = b
        BY DEF b
      <4>4. TakenIn(g, Merge(g, s, b), s, b)
        BY <3>2, <4>2, <4>3, <1>5, MergeKeeps, Zenon
      <4> QED
        BY <3>1, <4>4 DEF TakenIn
    <3>4. b # s
      <4>1. s \in Nat /\ g[s].size \in Nat /\ g[s].size > 0
        BY <1>5, ChainBounds
      <4>2. b = s + g[s].size
        BY <3>1, <1>5 DEF Chain, Linked, End
      <4> QED
        BY <4>1, <4>2
    <3>5. ASSUME NEW x \in DOMAIN h, h[x].free, h[x].next # NULL, h[h[x].next].free
          PROVE  FALSE
      <4>1. h[x].next \in DOMAIN h
        BY <3>3, <3>5 DEF Chain, Linked
      <4>2. x \in DOMAIN g /\ g[x].free /\ g[h[x].next].free
        BY <4>1, <3>3, <3>5
      <4>3. CASE x = s
        <5>1. g[b].next # NULL /\ g[g[b].next].free
          BY <4>2, <4>3, <3>3, <3>5
        <5> QED
          BY <5>1, <3>1, <3>2, <3>4, <1>5 DEF CoalescedBut
      <4>4. CASE x # s
        BY <4>2, <4>4, <3>3, <3>5, <1>5 DEF CoalescedBut
      <4> QED
        BY <4>3, <4>4
    <3> QED
      BY <3>3, <3>5
  <2>2. CASE ~MergesNext(g, s)
    <3>1. h = g
      BY <2>2 DEF WithNext
    <3>2. ASSUME NEW x \in DOMAIN g, g[x].free, g[x].next # NULL, g[g[x].next].free
          PROVE  FALSE
      BY <3>2, <2>2, <1>5 DEF CoalescedBut, MergesNext
    <3> QED
      BY <3>1, <3>2, <1>5
  <2> QED
    BY <2>1, <2>2
<1> HIDE DEF h
<1>7. Coalesced'
  BY <1>1, <1>6 DEF Coalesced, Free
<1>8. Backed'
  <2>1. ASSUME NEW q \in DOMAIN live'
        PROVE  /\ q - Meta \in DOMAIN block'
               /\ ~block'[q - Meta].free
               /\ Meta + live'[q] <= block'[q - Meta].size
    <3>1. q \in DOMAIN live /\ q # p /\ live'[q] = live[q] /\ q \in Nat
      BY <1>1, HeapAssumption DEF IInv, TypeOK, Address
    <3>2. q - Meta \in DOMAIN block /\ ~block[q - Meta].free
          /\ Meta + live[q] <= block[q - Meta].size
      BY <3>1 DEF IInv, Backed, Free
    <3>3. q - Meta # a
      BY <3>1, <1>0 DEF a
    <3>4. q - Meta \in DOMAIN f /\ ~f[q - Meta].free /\ f[q - Meta].size = block[q - Meta].size
      BY <3>2, <3>3, <1>2
    <3>5. q - Meta \in DOMAIN h /\ ~h[q - Meta].free /\ h[q - Meta].size = block[q - Meta].size
      BY <3>4, <1>5, <1>6
    <3> QED
      BY <3>1, <3>2, <3>5, <1>1
  <2>2. ASSUME NEW x \in DOMAIN block', ~block'[x].free
        PROVE  x + Meta \in DOMAIN live'
    <3>1. x \in DOMAIN f /\ ~f[x].free
      BY <2>2, <1>1, <1>5, <1>6
    <3>2. x \in DOMAIN block /\ x # a /\ ~block[x].free /\ x \in Nat
      <4>1. x \in DOMAIN block /\ x # a
        BY <3>1, <1>2
      <4> QED
        BY <3>1, <4>1, <1>2, ChainBounds DEF IInv
    <3>3. x + Meta \in DOMAIN live
      BY <3>2 DEF IInv, Backed, Free
    <3>4. x + Meta # p
      BY <3>2, <1>0 DEF a
    <3> QED
      BY <3>3, <3>4, <1>1
  <2> QED
    BY <2>1, <2>2 DEF Backed, Free
<1>9. TypeOK'
  <2>1. block[a].size \in Nat
    BY <1>0, ChainBounds DEF IInv
  <2>2. total' \in Int
    BY <2>1, <1>1 DEF IInv, TypeOK
  <2>3. DOMAIN live' \subseteq Address /\ live' \in [DOMAIN live' -> Request]
    BY <1>1 DEF IInv, TypeOK
  <2> QED
    BY <2>2, <2>3, <1>1, <1>6 DEF TypeOK, Chain
<1> QED
  BY <1>1, <1>6, <1>7, <1>8, <1>9 DEF IInv

LEMMA InitIInv == Init => IInv
<1> SUFFICES ASSUME Init PROVE IInv
  OBVIOUS
<1>1. block = Whole /\ DOMAIN Whole = {0} /\ DOMAIN live = {}
  BY DEF Init, Whole
<1>2. Whole[0] = [next |-> NULL, prev |-> NULL, size |-> HeapSize, free |-> TRUE]
  BY DEF Whole
<1>3. Whole[0] \in Header /\ 0 \in Address
  BY <1>2, HeapAssumption DEF Header, Address
<1>4. Chain(block)
  <2>1. HasHeaders(block)
    BY <1>1, <1>3 DEF HasHeaders, Whole
  <2>2. Linked(block)
    BY <1>1, <1>2, HeapAssumption DEF Linked, End
  <2>3. Ordered(block)
    BY <1>1 DEF Ordered
  <2> QED
    BY <2>1, <2>2, <2>3 DEF Chain
<1>5. TypeOK
  BY <1>1, <1>4, HeapAssumption DEF TypeOK, Init, Chain
<1>6. Coalesced /\ Backed
  BY <1>1, <1>2 DEF Coalesced, Backed, Free
<1> QED
  BY <1>4, <1>5, <1>6 DEF IInv

LEMMA NextKeepsIInv == IInv /\ [Next]_vars => IInv'
<1> SUFFICES ASSUME IInv, [Next]_vars
             PROVE  IInv'
  OBVIOUS
<1>1. CASE \E size \in Request : Alloc(size)
  BY <1>1, AllocKeeps
<1>2. CASE \E size \in Request : AllocFails(size)
  BY <1>2 DEF AllocFails, IInv, TypeOK, Chain, HasHeaders, Linked, Ordered, End,
              Coalesced, Backed, Free, Fits
<1>3. CASE \E p \in DOMAIN live : MiMemFree(p)
  BY <1>3, FreeKeeps
<1>4. CASE UNCHANGED vars
  BY <1>4 DEF vars, IInv, TypeOK, Chain, HasHeaders, Linked, Ordered, End,
              Coalesced, Backed, Free
<1> QED
  BY <1>1, <1>2, <1>3, <1>4 DEF Next

(* The invariant holds of every heap, whatever sizes are asked for.        *)
THEOREM Invariance == Spec => []IInv
BY InitIInv, NextKeepsIInv, PTL DEF Spec

(* What MiMem_Alloc has handed out and MiMem_Free has not taken back does  *)
(* not overlap, ends in the heap and covers no header.                     *)
THEOREM Separation == Spec => []Disjoint
<1>1. IInv => Disjoint
  <2> SUFFICES ASSUME IInv
               PROVE  Disjoint
    OBVIOUS
  <2>0. Meta \in Nat /\ Meta > 0
    BY HeapAssumption
  <2>1. \A p \in DOMAIN live : /\ p \in Nat /\ live[p] \in Nat
                               /\ p - Meta \in DOMAIN block
                               /\ Meta + live[p] <= block[p - Meta].size
    BY HeapAssumption DEF IInv, TypeOK, Backed, Address
  <2>2. \A x \in DOMAIN block : x \in Nat /\ block[x].size \in Nat /\ x + block[x].size <= HeapSize
                               /\ HeapSize \in Nat
    BY ChainBounds DEF IInv
  <2>3. \A x, y \in DOMAIN block : x < y => x + block[x].size <= y
    BY DEF IInv, Chain, Ordered, End
  <2>4. ASSUME NEW p \in DOMAIN live
        PROVE  p + live[p] <= HeapSize
    BY <2>0, <2>1, <2>2
  <2>5. ASSUME NEW p \in DOMAIN live, NEW q \in DOMAIN live, p < q
        PROVE  p + live[p] <= q - Meta
    BY <2>0, <2>1, <2>2, <2>3, <2>5
  <2>6. ASSUME NEW p \in DOMAIN live, NEW x \in DOMAIN block, p <= x
        PROVE  p + live[p] <= x
    BY <2>0, <2>1, <2>2, <2>3, <2>6
  <2> QED
    BY <2>4, <2>5, <2>6 DEF Disjoint
<1> QED
  BY <1>1, Invariance, PTL

(* With every block freed, the list is the one block of MiMem_Init.        *)
THEOREM Recovery == Spec => []ComesBack
<1>1. IInv => ComesBack
  <2> SUFFICES ASSUME IInv, DOMAIN live = {}
               PROVE  block = Whole
    BY DEF ComesBack
  <2>1. \A x \in DOMAIN block : block[x].free
    BY DEF IInv, Backed, Free
  <2>2. 0 \in DOMAIN block
    BY DEF IInv, Chain, Linked
  <2>3. block[0].next = NULL
    <3>1. block[0].next # NULL => block[0].next \in DOMAIN block
      BY <2>2 DEF IInv, Chain, Linked
    <3> QED
      BY <3>1, <2>1, <2>2 DEF IInv, Coalesced, Free
  <2>4. block[0].size = HeapSize
    <3>1. 0 + block[0].size = HeapSize /\ block[0].size \in Nat
      BY <2>2, <2>3, ChainBounds DEF IInv, Chain, Linked, End
    <3> QED
      BY <3>1
  <2>5. DOMAIN block = {0}
    <3> SUFFICES ASSUME NEW x \in DOMAIN block, x # 0
                 PROVE  FALSE
      BY <2>2
    <3>1. x \in Nat /\ x < HeapSize /\ HeapSize \in Nat
      BY ChainBounds DEF IInv
    <3>2. 0 + block[0].size <= x
      BY <3>1, <2>2 DEF IInv, Chain, Ordered, End
    <3> QED
      BY <3>1, <3>2, <2>4
  <2>6. block[0].prev = NULL
    <3>1. block[0].prev # NULL =>
            block[0].prev \in DOMAIN block /\ block[block[0].prev].next = 0
      BY <2>2 DEF IInv, Chain, Linked
    <3> QED
      BY <3>1, <2>3, <2>5 DEF NULL
  <2>7. block[0] = [next |-> NULL, prev |-> NULL, size |-> HeapSize, free |-> TRUE]
    <3>1. block[0] \in Header
      BY <2>2, ChainBounds DEF IInv
    <3> QED
      BY <3>1, <2>1, <2>2, <2>3, <2>4, <2>6 DEF Header
  <2>8. block = [x \in DOMAIN block |-> block[x]]
    BY DEF IInv, Chain, HasHeaders
  <2> QED
    BY <2>5, <2>7, <2>8 DEF Whole
<1> QED
  BY <1>1, Invariance, PTL

----------------------------------------------------------------------------
(* The count of free bytes.  acc gives, for the start of every block and   *)
(* the end of the heap, the free bytes in front of it.                     *)

Ends(f) == DOMAIN f \union {HeapSize}
FreeBytes(f, x) == IF f[x].free THEN f[x].size ELSE 0

Adds(f, acc, n) ==
  /\ acc[0] = 0
  /\ acc[HeapSize] = n
  /\ \A x \in Ends(f) : acc[x] \in Int
  /\ \A x \in DOMAIN f : acc[x + f[x].size] = acc[x] + FreeBytes(f, x)
  /\ \A x, y \in Ends(f) : x <= y => acc[x] <= acc[y] /\ acc[y] - acc[x] <= y - x

AddsUp(f, n) == \E acc : Adds(f, acc, n)

(* Where the blocks of a list end.                                         *)
LEMMA ChainEnds ==
  ASSUME NEW f, Chain(f), NEW a \in DOMAIN f
  PROVE  /\ a + f[a].size \in Ends(f)
         /\ \A x \in Ends(f) : /\ x \in Nat /\ x <= HeapSize
                               /\ a < x => a + f[a].size <= x
         /\ 0 \in DOMAIN f
         /\ HeapSize \in Nat /\ a \in Nat /\ f[a].size \in Nat /\ f[a].size > 0
         /\ f[a].free \in BOOLEAN
<1>1. a + f[a].size \in Ends(f)
  BY DEF Chain, Linked, End, Ends
<1>2. /\ HeapSize \in Nat /\ a \in Nat /\ f[a].size \in Nat /\ f[a].size > 0
      /\ a + f[a].size <= HeapSize /\ f[a] \in Header
  BY ChainBounds
<1>3. f[a].free \in BOOLEAN
  BY <1>2, Zenon DEF Header
<1>4. ASSUME NEW x \in Ends(f)
      PROVE  x \in Nat /\ x <= HeapSize /\ (a < x => a + f[a].size <= x)
  <2>1. CASE x \in DOMAIN f
    <3>1. x \in Nat /\ x < HeapSize
      BY <2>1, ChainBounds
    <3>2. a < x => a + f[a].size <= x
      BY <2>1 DEF Chain, Ordered, End
    <3> QED
      BY <1>2, <3>1, <3>2
  <2>2. CASE x = HeapSize
    BY <1>2, <2>2
  <2> QED
    BY <2>1, <2>2 DEF Ends
<1>5. 0 \in DOMAIN f
  BY DEF Chain, Linked
<1> QED
  BY <1>1, <1>2, <1>3, <1>4, <1>5

(* The count covers every free block and is no more than the heap.         *)
LEMMA AddsUpCovers ==
  ASSUME NEW f, Chain(f), NEW n, AddsUp(f, n)
  PROVE  /\ n \in 0 .. HeapSize
         /\ \A a \in DOMAIN f : f[a].free => f[a].size <= n
<1>1. PICK acc : Adds(f, acc, n)
  BY DEF AddsUp
<1>2. 0 \in DOMAIN f /\ 0 \in Ends(f) /\ HeapSize \in Ends(f)
  BY DEF Chain, Linked, Ends
<1>3. HeapSize \in Nat
  BY HeapAssumption
<1>4. /\ acc[0] = 0 /\ acc[HeapSize] = n
      /\ acc[0] \in Int /\ acc[HeapSize] \in Int
      /\ acc[0] <= acc[HeapSize] /\ acc[HeapSize] - acc[0] <= HeapSize - 0
  BY <1>1, <1>2, <1>3 DEF Adds
<1>5. n \in 0 .. HeapSize
  BY <1>3, <1>4
<1>6. ASSUME NEW a \in DOMAIN f, f[a].free PROVE f[a].size <= n
  <2> DEFINE e == a + f[a].size
  <2>1. /\ e \in Ends(f) /\ a \in Ends(f)
        /\ e \in Nat /\ e <= HeapSize /\ a \in Nat /\ 0 <= a
        /\ f[a].size \in Nat
    <3>1. e \in Ends(f) /\ \A x \in Ends(f) : x \in Nat /\ x <= HeapSize
      BY ChainEnds
    <3>2. a \in Nat /\ f[a].size \in Nat
      BY ChainEnds
    <3> QED
      BY <3>1, <3>2 DEF Ends
  <2>2. acc[e] = acc[a] + f[a].size
    BY <1>1, <1>6 DEF Adds, FreeBytes
  <2> HIDE DEF e
  <2>3. acc[a] \in Int /\ acc[e] \in Int /\ acc[0] <= acc[a] /\ acc[e] <= acc[HeapSize]
    BY <1>1, <1>2, <2>1 DEF Adds
  <2> QED
    BY <1>4, <2>1, <2>2, <2>3
<1> QED
  BY <1>5, <1>6

(* One block changes hands; the list stays as it is.                       *)
LEMMA AddsToggled ==
  ASSUME NEW f, Chain(f), NEW n, AddsUp(f, n), NEW a \in DOMAIN f, NEW g,
         DOMAIN g = DOMAIN f,
         \A x \in DOMAIN f : g[x].size = f[x].size,
         \A x \in DOMAIN f \ {a} : g[x].free = f[x].free
  PROVE  AddsUp(g, n + (FreeBytes(g, a) - FreeBytes(f, a)))
<1> DEFINE d == FreeBytes(g, a) - FreeBytes(f, a)
           e == a + f[a].size
<1>1. PICK acc : Adds(f, acc, n)
  BY DEF AddsUp
<1>2. /\ e \in Ends(f) /\ a \in Ends(f) /\ a \in Nat /\ e \in Nat /\ a < e /\ e <= HeapSize
      /\ HeapSize \in Nat /\ f[a].size \in Nat
      /\ \A x \in Ends(f) : x \in Nat /\ x <= HeapSize /\ (a < x => e <= x)
  <2>1. /\ e \in Ends(f) /\ a \in Nat /\ f[a].size \in Nat /\ f[a].size > 0 /\ HeapSize \in Nat
        /\ \A x \in Ends(f) : x \in Nat /\ x <= HeapSize /\ (a < x => e <= x)
    BY ChainEnds
  <2>2. a \in Ends(f)
    BY DEF Ends
  <2> QED
    BY <2>1, <2>2
<1>3. /\ d \in Int
      /\ acc[e] = acc[a] + FreeBytes(f, a)
      /\ FreeBytes(f, a) \in Int /\ FreeBytes(g, a) \in Int
      /\ FreeBytes(g, a) = FreeBytes(f, a) + d
      /\ 0 <= FreeBytes(f, a) + d /\ FreeBytes(f, a) + d <= e - a
  <2>1. FreeBytes(f, a) \in {0, f[a].size} /\ FreeBytes(g, a) \in {0, f[a].size}
    BY DEF FreeBytes
  <2>2. acc[e] = acc[a] + FreeBytes(f, a)
    BY <1>1 DEF Adds
  <2> QED
    BY <1>2, <2>1, <2>2
<1> HIDE DEF d, e
<1> DEFINE bcc == [x \in Ends(f) |-> IF x <= a THEN acc[x] ELSE acc[x] + d]
<1>4. Ends(g) = Ends(f)
  BY DEF Ends
<1>5. \A x \in Ends(f) : acc[x] \in Int /\ bcc[x] \in Int
  BY <1>1, <1>3 DEF Adds
<1>6. bcc[0] = 0 /\ bcc[HeapSize] = n + d
  <2>1. 0 \in Ends(f) /\ HeapSize \in Ends(f)
    BY DEF Ends, Chain, Linked
  <2>2. acc[0] = 0 /\ acc[HeapSize] = n
    BY <1>1 DEF Adds
  <2> QED
    BY <1>2, <2>1, <2>2
<1>7. ASSUME NEW x \in DOMAIN g PROVE bcc[x + g[x].size] = bcc[x] + FreeBytes(g, x)
  <2>1. /\ x \in Ends(f) /\ x + f[x].size \in Ends(f) /\ x \in Nat /\ f[x].size \in Nat
        /\ f[x].size > 0 /\ g[x].size = f[x].size
        /\ (x < a => x + f[x].size <= a)
    <3>1. x \in DOMAIN f
      OBVIOUS
    <3>2. /\ x + f[x].size \in Ends(f) /\ x \in Nat /\ f[x].size \in Nat /\ f[x].size > 0
          /\ \A y \in Ends(f) : x < y => x + f[x].size <= y
      BY <3>1, ChainEnds
    <3> QED
      BY <1>2, <3>1, <3>2 DEF Ends
  <2>2. acc[x + f[x].size] = acc[x] + FreeBytes(f, x)
    BY <1>1 DEF Adds
  <2>3. CASE x = a
    <3>1. bcc[x] = acc[a] /\ bcc[e] = acc[e] + d /\ x + g[x].size = e
      BY <1>2, <2>1, <2>3 DEF e
    <3>2. acc[a] \in Int /\ acc[e] \in Int
      BY <1>2, <1>5
    <3> HIDE DEF bcc
    <3> QED
      BY <1>3, <2>3, <3>1, <3>2
  <2>4. CASE x # a
    <3>1. FreeBytes(g, x) = FreeBytes(f, x)
      BY <2>1, <2>4 DEF FreeBytes
    <3>2. FreeBytes(f, x) \in Int
      BY <2>1 DEF FreeBytes
    <3>3. CASE x < a
      <4>1. bcc[x] = acc[x] /\ bcc[x + f[x].size] = acc[x + f[x].size]
        BY <1>2, <2>1, <3>3
      <4> QED
        BY <2>1, <2>2, <3>1, <4>1
    <3>4. CASE x > a
      <4>1. bcc[x] = acc[x] + d /\ bcc[x + f[x].size] = acc[x + f[x].size] + d
        BY <1>2, <2>1, <3>4
      <4>2. acc[x] \in Int
        BY <1>5, <2>1
      <4> HIDE DEF bcc
      <4> QED
        BY <1>3, <2>1, <2>2, <3>1, <3>2, <4>1, <4>2
    <3> QED
      BY <1>2, <2>1, <2>4, <3>3, <3>4
  <2> QED
    BY <2>3, <2>4
<1>8. ASSUME NEW x \in Ends(f), NEW y \in Ends(f), x <= y
      PROVE  bcc[x] <= bcc[y] /\ bcc[y] - bcc[x] <= y - x
  <2>1. /\ acc[x] \in Int /\ acc[y] \in Int /\ acc[a] \in Int /\ acc[e] \in Int
        /\ x \in Nat /\ y \in Nat
    BY <1>2, <1>5
  <2>2. acc[x] <= acc[y] /\ acc[y] - acc[x] <= y - x
    BY <1>1, <1>8 DEF Adds
  <2>3. CASE y <= a
    <3>1. bcc[x] = acc[x] /\ bcc[y] = acc[y]
      BY <1>2, <1>8, <2>1, <2>3
    <3> QED
      BY <2>2, <3>1
  <2>4. CASE x > a
    <3>1. bcc[x] = acc[x] + d /\ bcc[y] = acc[y] + d
      BY <1>2, <1>8, <2>1, <2>4
    <3> HIDE DEF bcc
    <3> QED
      BY <1>3, <2>1, <2>2, <3>1
  <2>5. CASE x <= a /\ y > a
    <3>1. bcc[x] = acc[x] /\ bcc[y] = acc[y] + d
      BY <1>2, <2>1, <2>5
    <3>2. e <= y
      BY <1>2, <2>5
    <3>3. acc[x] <= acc[a] /\ acc[a] - acc[x] <= a - x /\ acc[e] <= acc[y] /\ acc[y] - acc[e] <= y - e
      BY <1>1, <1>2, <2>5, <3>2 DEF Adds
    <3> HIDE DEF bcc
    <3> QED
      BY <1>2, <1>3, <2>1, <3>1, <3>2, <3>3
  <2> QED
    BY <1>2, <2>1, <2>3, <2>4, <2>5
<1>9. Adds(g, bcc, n + d)
  <2> HIDE DEF bcc
  <2> QED
    BY <1>4, <1>5, <1>6, <1>7, <1>8 DEF Adds
<1> QED
  BY <1>9 DEF AddsUp, d

(* A free block takes in the free block behind it.                         *)
LEMMA AddsMerged ==
  ASSUME NEW f, Chain(f), NEW n, AddsUp(f, n), NEW a \in DOMAIN f, NEW b \in DOMAIN f,
         f[a].next = b, f[a].free = TRUE, f[b].free = TRUE
  PROVE  AddsUp(Merge(f, a, b), n)
<1> DEFINE g == Merge(f, a, b)
<1>1. PICK acc : Adds(f, acc, n)
  BY DEF AddsUp
<1>2. /\ b = a + f[a].size /\ a < b
      /\ DOMAIN g = DOMAIN f \ {b}
      /\ \A x \in DOMAIN f \ {a, b} : g[x].size = f[x].size /\ g[x].free = f[x].free
      /\ g[a].size = f[a].size + f[b].size
      /\ g[a].free = f[a].free
  BY MergeBlocks
<1> HIDE DEF g
<1>3. Ends(g) \subseteq Ends(f)
  BY <1>2 DEF Ends
<1>4. ASSUME NEW x \in DOMAIN g PROVE acc[x + g[x].size] = acc[x] + FreeBytes(g, x)
  <2>1. CASE x = a
    <3>1. acc[b] = acc[a] + f[a].size /\ acc[b + f[b].size] = acc[b] + f[b].size
      BY <1>1, <1>2 DEF Adds, FreeBytes
    <3>2. /\ acc[a] \in Int /\ f[a].size \in Nat /\ f[b].size \in Nat /\ a \in Nat
      BY <1>1, ChainEnds DEF Adds, Ends
    <3>3. a + g[a].size = b + f[b].size
      BY <1>2, <3>2
    <3>4. FreeBytes(g, a) = f[a].size + f[b].size
      BY <1>2 DEF FreeBytes
    <3> QED
      BY <2>1, <3>1, <3>2, <3>3, <3>4
  <2>2. CASE x # a
    <3>1. x \in DOMAIN f \ {a, b}
      BY <1>2, <2>2
    <3> QED
      BY <1>1, <1>2, <3>1 DEF Adds, FreeBytes
  <2> QED
    BY <2>1, <2>2
<1>5. Adds(g, acc, n)
  BY <1>1, <1>3, <1>4 DEF Adds
<1> QED
  BY <1>5 DEF AddsUp, g

(* A free block is split and its first part taken.                         *)
LEMMA AddsSplit ==
  ASSUME Chain(block), NEW n, AddsUp(block, n), NEW a \in DOMAIN block, Free(a),
         NEW r \in Nat, r > 0, block[a].size - r > 0
  PROVE  AddsUp(Split(a, r), n - r)
<1> DEFINE g == Split(a, r)
           m == a + r
           e == a + block[a].size
<1>1. PICK acc : Adds(block, acc, n)
  BY DEF AddsUp
<1>2. /\ m \notin DOMAIN block
      /\ DOMAIN g = DOMAIN block \union {m}
      /\ \A x \in DOMAIN block \ {a} :
           /\ g[x].size = block[x].size
           /\ g[x].free = block[x].free
           /\ g[x].next = block[x].next
           /\ g[x].prev = (IF x = block[a].next THEN m ELSE block[x].prev)
      /\ g[a] = [next |-> m, prev |-> block[a].prev, size |-> r, free |-> FALSE]
      /\ g[m] = [next |-> block[a].next, prev |-> a, size |-> block[a].size - r, free |-> TRUE]
  BY SplitBlocks, Zenon
<1>3. /\ g[a].size = r /\ ~ g[a].free /\ g[m].size = block[a].size - r /\ g[m].free
      /\ \A x \in DOMAIN block \ {a} : g[x].size = block[x].size /\ g[x].free = block[x].free
  BY <1>2
<1>4. /\ e \in Ends(block) /\ a \in Ends(block) /\ a \in Nat /\ e \in Nat /\ e <= HeapSize
      /\ HeapSize \in Nat /\ m \in Nat /\ a < m /\ m < e /\ m + (block[a].size - r) = e
      /\ e - a = block[a].size /\ block[a].size \in Nat
      /\ \A x \in Ends(block) : x \in Nat /\ x <= HeapSize /\ (a < x => e <= x)
      /\ 0 \in Ends(block) /\ HeapSize \in Ends(block)
  <2>1. /\ e \in Ends(block) /\ a \in Nat /\ block[a].size \in Nat /\ HeapSize \in Nat
        /\ \A x \in Ends(block) : x \in Nat /\ x <= HeapSize /\ (a < x => e <= x)
        /\ 0 \in DOMAIN block
    BY ChainEnds
  <2>2. a \in Ends(block) /\ 0 \in Ends(block) /\ HeapSize \in Ends(block)
    BY <2>1 DEF Ends
  <2> QED
    BY <2>1, <2>2
<1>5. /\ acc[e] = acc[a] + block[a].size
      /\ \A x \in Ends(block) : acc[x] \in Int
      /\ acc[0] = 0 /\ acc[HeapSize] = n
  BY <1>1 DEF Adds, FreeBytes, Free
<1> DEFINE bcc == [x \in Ends(block) \union {m} |->
                     IF x <= a THEN acc[x] ELSE IF x = m THEN acc[a] ELSE acc[x] - r]
<1> HIDE DEF g, m, e
<1>6. Ends(g) = Ends(block) \union {m}
  BY <1>2 DEF Ends
<1>7. /\ \A x \in Ends(block) : x <= a => bcc[x] = acc[x]
      /\ bcc[m] = acc[a]
      /\ \A x \in Ends(block) : a < x => bcc[x] = acc[x] - r
  BY <1>4
<1> HIDE DEF bcc
<1>8. ASSUME NEW x \in Ends(g) PROVE bcc[x] \in Int
  <2>1. CASE x = m
    BY <1>4, <1>5, <1>7, <2>1
  <2>2. CASE x \in Ends(block) /\ x <= a
    BY <1>5, <1>7, <2>2
  <2>3. CASE x \in Ends(block) /\ a < x
    <3>1. acc[x] \in Int /\ bcc[x] = acc[x] - r
      BY <1>5, <1>7, <2>3
    <3> QED
      BY <3>1
  <2>4. x \in Ends(block) => x <= a \/ a < x
    <3>1. a \in Nat
      BY <1>4
    <3>2. x \in Ends(block) => x \in Nat
      BY <1>4
    <3> QED
      BY <3>1, <3>2
  <2> QED
    BY <1>6, <2>1, <2>2, <2>3, <2>4
<1>9. bcc[0] = 0 /\ bcc[HeapSize] = n - r
  BY <1>4, <1>5, <1>7
<1>10. ASSUME NEW x \in DOMAIN g PROVE bcc[x + g[x].size] = bcc[x] + FreeBytes(g, x)
  <2>1. CASE x = a
    <3>1. a + g[a].size = m /\ FreeBytes(g, a) = 0
      BY <1>3, <1>4 DEF FreeBytes, m
    <3> QED
      BY <1>4, <1>5, <1>7, <2>1, <3>1
  <2>2. CASE x = m
    <3>1. m + g[m].size = e /\ FreeBytes(g, m) = block[a].size - r
      BY <1>3, <1>4 DEF FreeBytes
    <3>2. bcc[e] = acc[e] - r /\ bcc[m] = acc[a] /\ acc[a] \in Int
      BY <1>4, <1>5, <1>7
    <3> QED
      BY <1>4, <1>5, <2>2, <3>1, <3>2
  <2>3. CASE x # a /\ x # m
    <3>1. x \in DOMAIN block \ {a}
      BY <1>2, <2>3
    <3>2. /\ x \in Ends(block) /\ x + block[x].size \in Ends(block) /\ x \in Nat
          /\ block[x].size \in Nat /\ block[x].size > 0
          /\ (x < a => x + block[x].size <= a)
      <4>1. /\ x + block[x].size \in Ends(block) /\ x \in Nat
            /\ block[x].size \in Nat /\ block[x].size > 0
            /\ \A y \in Ends(block) : x < y => x + block[x].size <= y
        BY <3>1, ChainEnds
      <4> QED
        BY <1>4, <3>1, <4>1 DEF Ends
    <3>3. g[x].size = block[x].size /\ FreeBytes(g, x) = FreeBytes(block, x)
      BY <1>3, <3>1 DEF FreeBytes
    <3>4. acc[x + block[x].size] = acc[x] + FreeBytes(block, x) /\ FreeBytes(block, x) \in Int
      BY <1>1, <3>1, <3>2 DEF Adds, FreeBytes
    <3>5. CASE x < a
      BY <1>4, <1>7, <3>2, <3>3, <3>4, <3>5
    <3>6. CASE x > a
      <4>1. bcc[x] = acc[x] - r /\ bcc[x + block[x].size] = acc[x + block[x].size] - r
        BY <1>4, <1>7, <3>2, <3>6
      <4>2. acc[x] \in Int
        BY <1>5, <3>2
      <4> QED
        BY <3>3, <3>4, <4>1, <4>2
    <3> QED
      BY <1>4, <2>3, <3>2, <3>5, <3>6
  <2> QED
    BY <2>1, <2>2, <2>3
<1>11. ASSUME NEW x \in Ends(g), NEW y \in Ends(g), x <= y
       PROVE  bcc[x] <= bcc[y] /\ bcc[y] - bcc[x] <= y - x
  <2>0. \A u, v \in Ends(block) : u <= v => acc[u] <= acc[v] /\ acc[v] - acc[u] <= v - u
    BY <1>1 DEF Adds
  <2>1. /\ x \in Nat /\ y \in Nat /\ bcc[x] \in Int /\ bcc[y] \in Int
        /\ acc[a] \in Int /\ acc[e] \in Int
    BY <1>4, <1>5, <1>6, <1>8
  <2>2. CASE x = m /\ y = m
    BY <2>1, <2>2
  <2>3. CASE x = m /\ y # m
    <3>1. y \in Ends(block) /\ a < y /\ e <= y
      BY <1>4, <1>6, <1>11, <2>1, <2>3
    <3>2. bcc[y] = acc[y] - r /\ bcc[x] = acc[a] /\ acc[y] \in Int
      BY <1>5, <1>7, <2>3, <3>1
    <3>3. acc[e] <= acc[y] /\ acc[y] - acc[e] <= y - e
      BY <1>4, <2>0, <3>1
    <3>4. x = a + r
      BY <2>3 DEF m
    <3> QED
      BY <1>4, <1>5, <2>1, <3>1, <3>2, <3>3, <3>4
  <2>4. CASE x # m /\ y = m
    <3>1. x \in Ends(block) /\ x <= a
      BY <1>4, <1>6, <1>11, <2>1, <2>4
    <3>2. bcc[x] = acc[x] /\ bcc[y] = acc[a] /\ acc[x] \in Int
      BY <1>5, <1>7, <2>4, <3>1
    <3>3. acc[x] <= acc[a] /\ acc[a] - acc[x] <= a - x
      BY <1>4, <2>0, <3>1
    <3> QED
      BY <1>4, <2>1, <2>4, <3>1, <3>2, <3>3
  <2>5. CASE x # m /\ y # m
    <3>1. x \in Ends(block) /\ y \in Ends(block)
      BY <1>6, <2>5
    <3>2. acc[x] \in Int /\ acc[y] \in Int /\ acc[x] <= acc[y] /\ acc[y] - acc[x] <= y - x
      BY <1>5, <1>11, <2>0, <3>1
    <3>3. CASE y <= a
      BY <1>4, <1>7, <1>11, <2>1, <3>1, <3>2, <3>3
    <3>4. CASE x > a
      <4>1. bcc[x] = acc[x] - r /\ bcc[y] = acc[y] - r
        BY <1>4, <1>7, <1>11, <2>1, <3>1, <3>4
      <4> QED
        BY <3>2, <4>1
    <3>5. CASE x <= a /\ y > a
      <4>1. bcc[x] = acc[x] /\ bcc[y] = acc[y] - r /\ e <= y
        BY <1>4, <1>7, <3>1, <3>5
      <4>2. /\ acc[x] <= acc[a] /\ acc[a] - acc[x] <= a - x
            /\ acc[e] <= acc[y] /\ acc[y] - acc[e] <= y - e
        BY <1>4, <2>0, <3>1, <3>5, <4>1
      <4> QED
        BY <1>4, <1>5, <2>1, <3>2, <4>1, <4>2
    <3> QED
      BY <1>4, <2>1, <3>3, <3>4, <3>5
  <2> QED
    BY <2>2, <2>3, <2>4, <2>5
<1>12. Adds(g, bcc, n - r)
  BY <1>8, <1>9, <1>10, <1>11 DEF Adds
<1> QED
  BY <1>12 DEF AddsUp, g

LEMMA AllocAdds ==
  ASSUME IInv, AddsUp(block, total), NEW size \in Request, Alloc(size)
  PROVE  AddsUp(block', total')
<1> DEFINE r == RequestedSize(size)
<1>1. r \in Nat /\ r >= size + Meta /\ size \in Nat /\ size > 0 /\ Meta \in Nat
  BY RequestedSizeBounds, HeapAssumption
<1>2. PICK a \in DOMAIN block :
        /\ Free(a) /\ block[a].size >= r
        /\ block' = IF Leaves(a, r) THEN Split(a, r) ELSE Taken(a)
        /\ total' = total - block'[a].size
  BY DEF Alloc, BestFit, Fits
<1> HIDE DEF r
<1>3. Chain(block) /\ block[a] \in Header /\ block[a].size \in Nat
  BY ChainBounds DEF IInv
<1>4. CASE Leaves(a, r)
  <2>1. r > 0 /\ block[a].size - r > 0
    BY <1>1, <1>3, <1>4, HeapAssumption DEF Leaves, HEAP_MINIMUM_BLOCK_SIZE
  <2>2. block' = Split(a, r)
    BY <1>2, <1>4
  <2>3. Split(a, r)[a].size = r
    <3>1. Split(a, r)[a] =
            [next |-> a + r, prev |-> block[a].prev, size |-> r, free |-> FALSE]
      BY <1>1, <1>3, <2>1, SplitBlocks, Zenon
    <3> QED
      BY <3>1
  <2>4. AddsUp(Split(a, r), total - r)
    BY <1>1, <1>2, <1>3, <2>1, AddsSplit
  <2> QED
    BY <1>2, <2>2, <2>3, <2>4
<1>5. CASE ~ Leaves(a, r)
  <2>1. block' = [block EXCEPT ![a].free = FALSE]
    BY <1>2, <1>5 DEF Taken
  <2>2. /\ DOMAIN block' = DOMAIN block
        /\ \A x \in DOMAIN block \ {a} : block'[x] = block[x]
        /\ block'[a] = [block[a] EXCEPT !.free = FALSE]
    BY <2>1
  <2>3. block'[a].size = block[a].size /\ block'[a].free = FALSE
    BY <1>3, <2>2 DEF Header
  <2>4. /\ \A x \in DOMAIN block : block'[x].size = block[x].size
        /\ \A x \in DOMAIN block \ {a} : block'[x].free = block[x].free
    BY <2>2, <2>3
  <2>5. AddsUp(block', total + (FreeBytes(block', a) - FreeBytes(block, a)))
    BY <1>3, <2>2, <2>4, AddsToggled
  <2>6. FreeBytes(block', a) = 0 /\ FreeBytes(block, a) = block[a].size
    BY <1>2, <2>3 DEF FreeBytes, Free
  <2>7. total \in Int
    BY DEF IInv, TypeOK
  <2>8. total + (FreeBytes(block', a) - FreeBytes(block, a)) = total'
    BY <1>2, <1>3, <2>3, <2>6, <2>7
  <2> QED
    BY <2>5, <2>8
<1> QED
  BY <1>4, <1>5

LEMMA FreeAdds ==
  ASSUME IInv, AddsUp(block, total), NEW p \in DOMAIN live, MiMemFree(p)
  PROVE  AddsUp(block', total')
<1> DEFINE a == p - Meta
           f == Released(a)
           s == Survivor(f, a)
           g == WithPrevious(f, a)
           h == WithNext(g, s)
<1>1. a \in DOMAIN block /\ ~ Free(a)
  BY DEF IInv, Backed
<1>2. block' = h /\ total' = total + block[a].size
  BY <1>1 DEF MiMemFree
<1>3. /\ DOMAIN f = DOMAIN block
      /\ f = [x \in DOMAIN f |-> f[x]]
      /\ \A x \in DOMAIN block \ {a} : f[x] = block[x]
      /\ f[a].next = block[a].next /\ f[a].prev = block[a].prev
      /\ f[a].size = block[a].size /\ f[a].free = TRUE /\ f[a] \in Header
      /\ block[a].size \in Nat
  <2>1. block[a] \in Header /\ block[a].size \in Nat
    BY <1>1, ChainBounds DEF IInv
  <2> QED
    BY <2>1, <1>1 DEF Released, Header
<1> HIDE DEF a, f
<1>4. Chain(f)
  <2>1. \A x \in DOMAIN f : f[x].next = block[x].next /\ f[x].prev = block[x].prev
                          /\ f[x].size = block[x].size
    BY <1>3
  <2>2. \A x \in DOMAIN f : f[x] \in Header
    <3>1. \A x \in DOMAIN block : block[x] \in Header
      BY ChainBounds DEF IInv
    <3> QED
      BY <3>1, <1>3
  <2>3. HasHeaders(f)
    BY <2>2, <1>3 DEF HasHeaders, IInv, Chain
  <2>4. Linked(f)
    BY <2>1, <1>3 DEF IInv, Chain, Linked, End
  <2>5. Ordered(f)
    BY <2>1, <1>3 DEF IInv, Chain, Ordered, End
  <2> QED
    BY <2>3, <2>4, <2>5 DEF Chain
<1>5. AddsUp(f, total')
  <2>1. /\ \A x \in DOMAIN block : f[x].size = block[x].size
        /\ \A x \in DOMAIN block \ {a} : f[x].free = block[x].free
    BY <1>3
  <2>2. AddsUp(f, total + (FreeBytes(f, a) - FreeBytes(block, a)))
    BY <1>1, <1>3, <2>1, AddsToggled DEF IInv
  <2>3. FreeBytes(f, a) = block[a].size /\ FreeBytes(block, a) = 0
    BY <1>1, <1>3 DEF FreeBytes, Free
  <2>4. total \in Int
    BY DEF IInv, TypeOK
  <2>5. total + (FreeBytes(f, a) - FreeBytes(block, a)) = total'
    BY <1>2, <1>3, <2>3, <2>4
  <2> QED
    BY <2>2, <2>5
<1>6. Chain(g) /\ AddsUp(g, total') /\ s \in DOMAIN g /\ g[s].free = TRUE
  <2>1. CASE MergesPrevious(f, a)
    <3> DEFINE b == f[a].prev
    <3>1. b # NULL /\ f[b].free /\ s = b /\ g = Merge(f, b, a)
      BY <2>1 DEF MergesPrevious, Survivor, WithPrevious
    <3>2. a \in DOMAIN f /\ b \in DOMAIN f /\ f[b].next = a
      BY <3>1, <1>1, <1>3, <1>4 DEF Chain, Linked
    <3>3. f[b].free = TRUE
      <4>1. f[b] \in Header
        BY <3>2, <1>4, ChainBounds
      <4> QED
        BY <4>1, <3>1 DEF Header
    <3> HIDE DEF b, g, s
    <3>4. AddsUp(Merge(f, b, a), total') /\ Chain(Merge(f, b, a))
      BY <1>3, <1>4, <1>5, <3>2, <3>3, AddsMerged, MergeChain
    <3>5. TakenIn(f, Merge(f, b, a), b, a)
      BY <1>3, <1>4, <3>2, <3>3, MergeKeeps, Zenon
    <3>6. b \in DOMAIN Merge(f, b, a) /\ Merge(f, b, a)[b].free = f[b].free
      BY <3>5 DEF TakenIn
    <3> QED
      BY <3>1, <3>3, <3>4, <3>6
  <2>2. CASE ~ MergesPrevious(f, a)
    <3>1. s = a /\ g = f
      BY <2>2 DEF Survivor, WithPrevious
    <3> QED
      BY <1>1, <1>3, <1>4, <1>5, <3>1
  <2> QED
    BY <2>1, <2>2
<1> HIDE DEF g, s
<1>7. AddsUp(h, total')
  <2>1. CASE MergesNext(g, s)
    <3> DEFINE b == g[s].next
    <3>1. b # NULL /\ g[b].free /\ h = Merge(g, s, b)
      BY <2>1 DEF MergesNext, WithNext
    <3>2. b \in DOMAIN g
      BY <3>1, <1>6 DEF Chain, Linked
    <3>3. g[b].free = TRUE
      <4>1. g[b] \in Header
        BY <3>2, <1>6, ChainBounds
      <4> QED
        BY <4>1, <3>1 DEF Header
    <3>4. g[s].next = b
      OBVIOUS
    <3> HIDE DEF b, h
    <3> QED
      BY <1>6, <3>1, <3>2, <3>3, <3>4, AddsMerged
  <2>2. CASE ~ MergesNext(g, s)
    BY <1>6, <2>2 DEF WithNext
  <2> QED
    BY <2>1, <2>2
<1> QED
  BY <1>2, <1>7

LEMMA InitAdds == Init => AddsUp(block, total)
<1> SUFFICES ASSUME Init PROVE AddsUp(block, total)
  OBVIOUS
<1>1. /\ DOMAIN block = {0} /\ block[0].size = HeapSize /\ block[0].free = TRUE
      /\ total = HeapSize
  BY DEF Init, Whole
<1>2. HeapSize \in Nat
  BY HeapAssumption
<1> DEFINE acc == [x \in {0, HeapSize} |-> x]
<1>3. Adds(block, acc, total)
  BY <1>1, <1>2 DEF Adds, Ends, FreeBytes
<1> QED
  BY <1>3 DEF AddsUp

(* The invariant of the count: it is the sum of the free blocks, and a     *)
(* request that failed still fits nowhere.                                 *)
CountInv == IInv /\ AddsUp(block, total) /\ FailsOnlyIfFull

LEMMA CountKeeps == CountInv /\ [Next]_vars => CountInv'
<1> SUFFICES ASSUME CountInv, [Next]_vars PROVE CountInv'
  OBVIOUS
<1>1. IInv /\ AddsUp(block, total) /\ FailsOnlyIfFull
  BY DEF CountInv
<1>2. IInv'
  BY <1>1, NextKeepsIInv
<1>3. CASE \E size \in Request : Alloc(size)
  <2>1. AddsUp(block', total')
    BY <1>1, <1>3, AllocAdds
  <2>2. failed' = 0
    BY <1>3 DEF Alloc
  <2> QED
    BY <1>2, <2>1, <2>2 DEF CountInv, FailsOnlyIfFull, AddsUp
<1>4. CASE \E size \in Request : AllocFails(size)
  <2> PICK size \in Request : AllocFails(size)
    BY <1>4
  <2>1. block' = block /\ total' = total /\ failed' = size
    BY DEF AllocFails
  <2>2. ASSUME NEW a \in DOMAIN block, Fits(a, RequestedSize(size)) PROVE FALSE
    <3>1. RequestedSize(size) > total
      BY <2>2 DEF AllocFails
    <3>2. block[a].size <= total /\ total \in Int
      BY <1>1, <2>2, AddsUpCovers DEF IInv, TypeOK, Fits, Free
    <3>3. block[a].size >= RequestedSize(size) /\ block[a].size \in Nat
      BY <1>1, <2>2, ChainBounds DEF IInv, Fits
    <3>4. RequestedSize(size) \in Nat
      BY RequestedSizeBounds
    <3> QED
      BY <3>1, <3>2, <3>3, <3>4
  <2>3. FailsOnlyIfFull'
    BY <2>1, <2>2 DEF FailsOnlyIfFull, Fits, Free
  <2> QED
    BY <1>1, <1>2, <2>1, <2>3 DEF CountInv, AddsUp
<1>5. CASE \E p \in DOMAIN live : MiMemFree(p)
  <2>1. AddsUp(block', total')
    BY <1>1, <1>5, FreeAdds
  <2>2. failed' = 0
    BY <1>5 DEF MiMemFree
  <2> QED
    BY <1>2, <2>1, <2>2 DEF CountInv, FailsOnlyIfFull, AddsUp
<1>6. CASE UNCHANGED vars
  BY <1>1, <1>2, <1>6 DEF vars, CountInv, AddsUp, FailsOnlyIfFull, Fits, Free
<1> QED
  BY <1>3, <1>4, <1>5, <1>6 DEF Next

(* totalFreeBytesRemaining is the sum of the free blocks for every heap    *)
(* and every sequence of calls: additions and subtractions that never look *)
(* at the list agree with it (mimem.c:145, 183).                   *)
THEOREM CountIsSum == Spec => []CountInv
<1>1. Init => CountInv
  BY InitIInv, InitAdds DEF CountInv, FailsOnlyIfFull, Init
<1> QED
  BY <1>1, CountKeeps, PTL DEF Spec

(* The count is in range and covers every free block, so that the check    *)
(* before the search never turns away a request that would fit.            *)
(* (mimem.c:123.)                                                          *)
THEOREM CountCovers == Spec => []Counted
<1>1. CountInv => Counted
  BY AddsUpCovers DEF CountInv, IInv, Counted, Free
<1> QED
  BY <1>1, CountIsSum, PTL

(* NULL is returned only if no free block is large enough.                 *)
(* (MiMem_Alloc, mimem.c:108-165.)                                         *)
THEOREM FailureIsFull == Spec => []FailsOnlyIfFull
<1>1. CountInv => FailsOnlyIfFull
  BY DEF CountInv
<1> QED
  BY <1>1, CountIsSum, PTL
=============================================================================
