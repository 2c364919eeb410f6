------------------------------ MODULE NvItems -------------------------------
(***************************************************************************)
(* The log of items in flash, S_Nv-SamR21.c.  A sector holds blocks, one   *)
(* behind the other; a block is a header and a range of the cells of an    *)
(* item, and points to the block before it of the same item.  A full       *)
(* sector is compacted into the other one, whose header is written last.   *)
(* Where the last block of each item is, and where the log ends, is kept   *)
(* in memory and found again by LoadSector after a restart.  Power may     *)
(* fail between any two programmed units, and in the middle of one.        *)
(*                                                                         *)
(* A sector is an array of units.  A header with its first cell takes one  *)
(* unit, every other cell one more.  A page, to which blocks are aligned   *)
(* unless a compaction wrote them, is Page units; a row is one page here.  *)
(* A checksum is the value itself: what is torn never has the right one.   *)
(*                                                                         *)
(* Left out: flash that cannot be programmed, refusals for want of power,  *)
(* the first revision of the format, and the timers for compaction that    *)
(* the code never starts.  Items change their length in ResizeSpec only.   *)
(***************************************************************************)
EXTENDS Integers, Sequences, FiniteSets

CONSTANTS
  Item,             (* Item identifiers.                                   *)
  Cell,             (* Values of a cell.                                   *)
  NoCell,           (* What is read where no cell was programmed.          *)
  Length,           (* The length of each item, in cells.                  *)
  Persistent,       (* What IsPersistent finds: s_persistentItems, and, as *)
                    (* it counts to the size in bytes, what lies behind.   *)
  SectorSize,       (* SECTOR_SIZE.                                        *)
  Page,             (* Units of a page.                                    *)
  InitialSequence   (* INITIAL_SECTOR_SEQUENCE_NUMBER.  Bound: as many     *)
                    (* compactions.                                        *)

ASSUME NvAssumption ==
  /\ NoCell \notin Cell
  /\ Length \in [Item -> Nat \ {0}]
  /\ Persistent \subseteq Item
  /\ SectorSize \in Nat /\ Page \in Nat \ {0} /\ SectorSize > Page
  /\ SectorSize % Page = 0
  /\ InitialSequence \in Nat

VARIABLES
  flash,     (* Each sector: sequence number, nextPageAddressAfterCompact, *)
             (* units.                                                     *)
  powered,   (* Whether the board is up and the storage initialised.       *)
  sector,    (* s_sector.                                                  *)
  head,      (* s_sectorHead.                                              *)
  items,     (* The identifiers in s_itemCache, in order.                  *)
  last,      (* lastBlock of each item; 0 if it is not cached.             *)
  toErase,   (* s_sectorToErase while eraseSectorTimer runs.               *)
  promised   (* History: what callers may find in the items.  The cells    *)
             (* that the calls which returned left there; when power       *)
             (* failed in a call, also what it was about to leave.         *)

ram == <<powered, sector, head, items, last, toErase>>
vars == <<flash, ram, promised>>

Sector == {1, 2}
NoSector == 0
NoSequence == InitialSequence + 1   (* The sector has no valid header.     *)
Nowhere == SectorSize               (* 0xFFFF, for an address.             *)
ItemsAreaStart == Page              (* ITEMS_AREA_START_ADDRESS.           *)
Unit == 0 .. SectorSize - 1

Erased == [kind |-> "erased"]
Torn == [kind |-> "torn"]
EmptySector ==
  [sequence |-> NoSequence, next |-> Nowhere,
   unit |-> [u \in Unit |-> Erased]]

Init ==
  /\ flash = [s \in Sector |-> EmptySector]
  /\ powered = FALSE
  /\ sector = NoSector
  /\ head = 0
  /\ items = <<>>
  /\ last = [i \in Item |-> 0]
  /\ toErase = NoSector
  /\ promised = {[i \in Item |-> <<>>]}

----------------------------------------------------------------------------
(* Blocks.                                                                 *)

(* The units of a block: the header, which carries the checksum of data,   *)
(* with the first cell, and the other cells.                               *)
Block(i, offset, data, itemLength, previous) ==
  LET header == [kind |-> "header", item |-> i, offset |-> offset,
                 length |-> Len(data), itemLength |-> itemLength,
                 previous |-> previous, checksum |-> data,
                 cell |-> IF data = <<>> THEN NoCell ELSE data[1]]
  IN  [k \in 1 .. IF data = <<>> THEN 1 ELSE Len(data) |->
         IF k = 1 THEN header ELSE [kind |-> "cell", cell |-> data[k]]]

CellAt(units, p) ==
  IF units[p] \in {Erased, Torn} THEN NoCell ELSE units[p].cell

Cells(units, p, from, to) ==
  [k \in 1 .. to - from |-> CellAt(units, p + from - units[p].offset + k - 1)]

(* GatherData: the cells from offset on, from the last one to the first,   *)
(* each from the newest block that holds it.                               *)
GatherData(units, lastBlock, offset, length) ==
  LET gather[p \in 0 .. SectorSize, start \in Nat, end \in Nat] ==
        IF start = end THEN [ok |-> TRUE, data |-> <<>>]
        ELSE IF p = 0 THEN [ok |-> FALSE, data |-> <<>>]
        ELSE
          LET block == units[p]
              until == block.offset + block.length
              Behind(r, from) ==
                [r EXCEPT !.data = @ \o Cells(units, p, from, end)]
          IN  IF end <= block.offset \/ start >= until
              THEN gather[block.previous, start, end]
              ELSE IF end > until
              THEN gather[block.previous, until, end]
              ELSE IF start < block.offset
              THEN Behind(gather[block.previous, start, block.offset],
                          block.offset)
              ELSE Behind(gather[lastBlock, offset, start], start)
  IN  gather[lastBlock, offset, offset + length]

ReadItem(units, p) == GatherData(units, p, 0, units[p].itemLength).data

----------------------------------------------------------------------------
(* Finding the items again.                                                *)

Aligned(h) == ((h + Page - 1) \div Page) * Page

(* UpdateSectorHead: behind the address where the last compaction ended    *)
(* blocks are aligned.                                                     *)
Advanced(h, n, next) == IF h < next /\ next # Nowhere THEN h + n ELSE Aligned(h + n)

DataIsValid(units, p) ==
  LET block == units[p]
  IN  /\ p + block.length <= SectorSize
      /\ \A k \in 1 .. block.length :
           CellAt(units, p + k - 1) = block.checksum[k]

(* What the item cache becomes with the next block of the log; an item of  *)
(* length zero was deleted.  DeleteItemCache fills the gap with the last.  *)
CacheWithout(cache, i) ==
  LET n == Len(cache.items)
  IN  [items |-> [k \in 1 .. n - 1 |->
                    IF cache.items[k] = i THEN cache.items[n] ELSE cache.items[k]],
       last |-> [cache.last EXCEPT ![i] = 0]]

CacheWith(cache, i, p) ==
  [items |-> IF cache.last[i] = 0 THEN Append(cache.items, i) ELSE cache.items,
   last |-> [cache.last EXCEPT ![i] = p]]

Cached(cache, units, p) ==
  LET i == units[p].item
      found == CacheWith(cache, i, p)
  IN  IF units[p].itemLength = 0 THEN CacheWithout(found, i) ELSE found

NoCache == [items |-> <<>>, last |-> [i \in Item |-> 0]]

(* Mutation: the log is read as if no compaction had packed its blocks.    *)
LimitOfPackedNever(s) == Nowhere

LimitOfPacked(s) == s.next

(* LoadSector: the blocks of the log up to the first empty header.  The    *)
(* end of the sector is looked at before the head is aligned; outside says *)
(* that a header was read behind it, against the assertion of D_Nv_Read.   *)
LoadSector(s) ==
  LET next == LimitOfPacked(s)
      start(h) == IF h < next /\ next # Nowhere THEN h ELSE Aligned(h)
      load[h \in 0 .. 2 * SectorSize, cache \in {NoCache} \union [items : Seq(Item), last : [Item -> Nat]]] ==
        LET p == start(h)
        IN  IF p >= SectorSize \/ s.unit[p] = Erased
            THEN [cache |-> cache, head |-> p, outside |-> h < SectorSize /\ p >= SectorSize]
            ELSE IF s.unit[p].kind # "header"
            THEN load[Advanced(p, 1, next), cache]
            ELSE LET size == IF s.unit[p].length = 0 THEN 1 ELSE s.unit[p].length
                 IN  IF DataIsValid(s.unit, p)
                     THEN load[Advanced(p, size, next), Cached(cache, s.unit, p)]
                     ELSE load[Advanced(p, size, next), cache]
  IN  load[ItemsAreaStart, NoCache]

(* The sector with the lowest sequence number is the newest.               *)
Newest ==
  CHOOSE s \in Sector :
    \A t \in Sector : flash[s].sequence <= flash[t].sequence

(* The cells of every item, as they are read, or would be after a restart; *)
(* none for an item that does not exist.                                   *)
Contents ==
  LET s == IF powered THEN sector ELSE Newest
      lastBlock == IF powered THEN last ELSE LoadSector(flash[s]).cache.last
  IN  [i \in Item |-> IF lastBlock[i] = 0 THEN <<>>
                      ELSE ReadItem(flash[s].unit, lastBlock[i])]

----------------------------------------------------------------------------
(* Changing the flash.                                                     *)

Erase(s) == [do |-> "erase", sector |-> s]
Program(s, p, unit) == [do |-> "program", sector |-> s, at |-> p, unit |-> unit]
Header(s, q, n) == [do |-> "header", sector |-> s, sequence |-> q, next |-> n]

ProgramAll(s, p, units) ==
  [k \in 1 .. Len(units) |-> Program(s, p + k - 1, units[k])]

Changed(f, step) ==
  [f EXCEPT ![step.sector] =
     IF step.do = "erase" THEN EmptySector
     ELSE IF step.do = "header"
     THEN [@ EXCEPT !.sequence = step.sequence, !.next = step.next]
     ELSE [@ EXCEPT !.unit[step.at] = step.unit]]

(* The flash after the first n steps.                                      *)
After(steps) ==
  LET f[n \in 0 .. Len(steps)] ==
        IF n = 0 THEN flash ELSE Changed(f[n - 1], steps[n])
  IN  f

(* The operation ends, and memory is updated.                              *)
Done(r) ==
  /\ flash' = After(r.steps)[Len(r.steps)]
  /\ sector' = r.sector
  /\ head' = r.head
  /\ items' = r.cache.items
  /\ last' = r.cache.last
  /\ toErase' = r.toErase
  /\ powered' = TRUE

(* Power fails after some of its steps, perhaps while a unit is            *)
(* programmed.  Memory is lost.                                            *)
Interrupted(r) ==
  /\ \E n \in 0 .. Len(r.steps) :
       \/ flash' = After(r.steps)[n]
       \/ /\ n < Len(r.steps)
          /\ r.steps[n + 1].do = "program"
          /\ flash' = [After(r.steps)[n] EXCEPT
                         ![r.steps[n + 1].sector].unit[r.steps[n + 1].at] = Torn]
  /\ powered' = FALSE
  /\ sector' = NoSector /\ head' = 0 /\ toErase' = NoSector
  /\ items' = <<>> /\ last' = [i \in Item |-> 0]

(* A call leaves what new makes of the contents it finds.                  *)
Performed(r, new) ==
  \/ Done(r) /\ promised' = {new}
  \/ Interrupted(r) /\ promised' = promised \union {new}

Kept == CHOOSE c \in promised : TRUE

Unchanged ==
  [steps |-> <<>>, sector |-> sector, head |-> head,
   cache |-> [items |-> items, last |-> last], toErase |-> toErase]
----------------------------------------------------------------------------
(* Compaction.                                                             *)

(* Mutation: the new sector is made valid before the items are in it.      *)
CompactionStepsHeaderFirst(dest, blocks, header) ==
  <<Erase(dest), header>> \o blocks

(* Its header is the last thing written.                                   *)
CompactionSteps(dest, blocks, header) ==
  <<Erase(dest)>> \o blocks \o <<header>>

(* CompactSector: every item of the cache as one block, the blocks packed, *)
(* in the other sector; the old one is erased later.                       *)
CompactSector(cache) ==
  LET dest == 3 - sector
      Content(n) == ReadItem(flash[sector].unit, cache.last[cache.items[n]])
      at[n \in 1 .. Len(cache.items) + 1] ==
        IF n = 1 THEN ItemsAreaStart ELSE at[n - 1] + Len(Content(n - 1))
      blocks[n \in 0 .. Len(cache.items)] ==
        IF n = 0 THEN <<>>
        ELSE blocks[n - 1] \o
             ProgramAll(dest, at[n],
                        Block(cache.items[n], 0, Content(n),
                              Len(Content(n)), 0))
      end == at[Len(cache.items) + 1]
  IN  [steps |-> CompactionSteps(dest, blocks[Len(cache.items)],
                   Header(dest, flash[sector].sequence - 1, end)),
       sector |-> dest,
       head |-> Aligned(end),
       cache |-> [items |-> cache.items,
                  last |-> [i \in Item |->
                              IF \E n \in 1 .. Len(cache.items) : cache.items[n] = i
                              THEN at[CHOOSE n \in 1 .. Len(cache.items) :
                                        cache.items[n] = i]
                              ELSE 0]],
       toErase |-> sector]

CompactSectorIfNeeded(n) ==
  IF SectorSize - head < n
  THEN CompactSector([items |-> items, last |-> last])
  ELSE Unchanged

(* The bound on compactions, for the calls that may compact.               *)
MayCompact == flash[sector].sequence > 0

(* A block is appended to the log that r leaves.                           *)
Appended(r, block, cache) ==
  [r EXCEPT !.steps = @ \o ProgramAll(r.sector, r.head, block),
            !.head = Aligned(r.head + Len(block)),
            !.cache = cache]

----------------------------------------------------------------------------
(* The calls.                                                              *)

(* S_Nv_ItemLength, of an item that exists.                                *)
ItemLength(i) == flash[sector].unit[last[i]].itemLength

(* S_Nv_ItemInit of an item that does not exist.                           *)
S_Nv_ItemInit(i, data) ==
  /\ powered /\ MayCompact
  /\ last[i] = 0
  /\ LET r == CompactSectorIfNeeded(Length[i])
     IN  /\ r.head + Length[i] <= SectorSize
         /\ Performed(Appended(r, Block(i, 0, data, Length[i], 0),
                               CacheWith(r.cache, i, r.head)),
                      [Kept EXCEPT ![i] = data])

(* The cells from an offset on are replaced.  Whether the item exists and  *)
(* is long enough is only looked at when the sector was compacted.         *)
S_Nv_Write(i, offset, data) ==
  /\ powered /\ MayCompact
  /\ LET r == CompactSectorIfNeeded(Len(data))
     IN  IF last[i] = 0 \/ offset + Len(data) > ItemLength(i)
         THEN Performed(r, Kept)
         ELSE /\ r.head + Len(data) <= SectorSize
              /\ Performed(
                   Appended(r, Block(i, offset, data, ItemLength(i), r.cache.last[i]),
                            CacheWith(r.cache, i, r.head)),
                   [Kept EXCEPT ![i] =
                      [k \in 1 .. Len(@) |->
                         IF k \in offset + 1 .. offset + Len(data)
                         THEN data[k - offset] ELSE @[k]]])

(* CompactItem, for S_Nv_ItemInit of an item that exists with another      *)
(* length: its cells become one block of that length, what lies behind     *)
(* them is left from earlier use of the buffer.  The header keeps the      *)
(* checksums of the one it was read from.  A compaction on the way forgets *)
(* the request, and the call returns as if it had been done.               *)
CompactItem(i, n, rest) ==
  /\ powered /\ MayCompact
  /\ last[i] # 0
  /\ n # ItemLength(i)
  /\ LET r == CompactSectorIfNeeded(n)
         data == [k \in 1 .. n |-> IF k > Len(Kept[i]) THEN rest ELSE Kept[i][k]]
         block == Block(i, 0, data, n, 0)
         unsigned ==
           [block EXCEPT ![1].kind = "unsigned",
                         ![1].checksum = flash[sector].unit[last[i]].checksum]
     IN  Performed(IF r # Unchanged THEN r
                   ELSE Appended(r, unsigned, CacheWith(r.cache, i, r.head)),
                   [Kept EXCEPT ![i] = data])

(* A header of length zero is appended.                                    *)
S_Nv_Delete(i) ==
  /\ powered /\ MayCompact
  /\ last[i] # 0
  /\ LET r == CompactSectorIfNeeded(1)
     IN  Performed(Appended(r, Block(i, 0, <<>>, 0, 0),
                            CacheWithout(r.cache, i)),
                   [Kept EXCEPT ![i] = <<>>])

(* S_Nv_EraseAll without the persistent items.  The loop runs to the       *)
(* number of items at its start while removals move the last item into     *)
(* the gap; the places behind keep what they held.                         *)
AllErased ==
  LET loop[n \in 0 .. Len(items)] ==
        IF n = 0 THEN [place |-> items, cache |-> [items |-> items, last |-> last]]
        ELSE LET before == loop[n - 1]
                 i == before.place[n]
                 after == CacheWithout(before.cache, i)
             IN  IF i \in Persistent THEN before
                 ELSE [place |-> [k \in 1 .. Len(items) |->
                                    IF k <= Len(after.items)
                                    THEN after.items[k] ELSE before.place[k]],
                       cache |-> after]
  IN  loop[Len(items)].cache

S_Nv_EraseAll ==
  /\ powered /\ MayCompact
  /\ AllErased.items # items
  /\ Performed(CompactSector(AllErased),
               [i \in Item |-> IF i \in Persistent THEN Kept[i] ELSE <<>>])

(* eraseSectorTimerFired.                                                  *)
EraseOld ==
  /\ powered
  /\ toErase # NoSector
  /\ Performed([Unchanged EXCEPT !.steps = <<Erase(toErase)>>,
                                 !.toErase = NoSector],
               Kept)

(* S_Nv_EarlyInit, on a board that is switched on.                         *)
S_Nv_EarlyInit ==
  /\ ~powered
  /\ IF \A s \in Sector : flash[s].sequence = NoSequence
     THEN Performed([Unchanged EXCEPT
            !.steps = <<Erase(1), Header(1, InitialSequence, Nowhere)>>,
            !.sector = 1, !.head = ItemsAreaStart], Contents)
     ELSE LET found == LoadSector(flash[Newest])
          IN  Performed([Unchanged EXCEPT
                !.sector = Newest, !.head = found.head, !.cache = found.cache],
                Contents)

(* What is written into n cells.  Bound: the same value into each.         *)
Data(n) == {[k \in 1 .. n |-> c] : c \in Cell}

Next ==
  \/ \E i \in Item : \E data \in Data(Length[i]) : S_Nv_ItemInit(i, data)
  \/ \E i \in Item : \E offset \in 0 .. Length[i] - 1 :
       \E n \in 1 .. Length[i] - offset : \E data \in Data(n) :
         S_Nv_Write(i, offset, data)
  \/ \E i \in Item : S_Nv_Delete(i)
  \/ S_Nv_EraseAll
  \/ EraseOld
  \/ S_Nv_EarlyInit

Spec == Init /\ [][Next]_vars

(* The application of a new release may use another length for an item.    *)
Resize ==
  \E i \in Item, c \in Cell : \E n \in 1 .. Length[i] : CompactItem(i, n, c)

ResizeSpec == Init /\ [][Next \/ Resize]_vars

----------------------------------------------------------------------------
(* Properties.                                                             *)

TypeOK ==
  /\ \A s \in Sector : /\ flash[s].sequence \in 0 .. NoSequence
                       /\ flash[s].next \in 0 .. SectorSize
                       /\ DOMAIN flash[s].unit = Unit
  /\ powered \in BOOLEAN
  /\ sector \in Sector \union {NoSector}
  /\ head \in 0 .. SectorSize
  /\ items \in Seq(Item)
  /\ Len(items) = Cardinality({i \in Item : last[i] # 0})
  /\ last \in [Item -> 0 .. SectorSize - 1]
  /\ toErase \in Sector \union {NoSector}

(* What is in memory is what a restart would find in the flash: the same   *)
(* sector, the same last block of every item and the same end of the log,  *)
(* which it finds without reading behind the sector.  (LoadSector and      *)
(* S_Nv_EarlyInit against every operation.)  TypeOK is checked with it.    *)
RestartFindsAll ==
  /\ TypeOK
  /\ powered =>
       LET found == LoadSector(flash[Newest])
       IN  /\ Newest = sector
           /\ found.cache = [items |-> items, last |-> last]
           /\ found.head = head /\ ~ found.outside

(* Whenever the power fails, an operation is done or not done: what is     *)
(* read, now or after the next start, are the cells that the calls which   *)
(* returned left, with the call that was cut short or without it.          *)
(* (Every write, delete, erase and compaction of S_Nv-SamR21.c.)           *)
HoldsPromised == Contents \in promised

(* "The length of the item, in bytes, as passed during S_Nv_ItemInit()"    *)
(* (S_Nv.h:166): an item is as long as the last call made it that          *)
(* returned, whatever happens later.                                       *)
LengthAsPassed ==
  \A i \in Item : \E c \in promised : Len(Contents[i]) = Len(c[i])
=============================================================================
