------------------------------ MODULE MiQueue ------------------------------
(***************************************************************************)
(* The queues of miqueue.c: buffers chained through their nextItem.  A     *)
(* queue is the record [head, tail, size]; the links of all the buffers    *)
(* are one function.  No caller passes a search criterion, the first       *)
(* buffer is the one removed.                                              *)
(***************************************************************************)
EXTENDS Naturals

CONSTANT Null     (* The pointer to no buffer.                             *)

EmptyQueue == [head |-> Null, tail |-> Null, size |-> 0]

(* Mutation: the tail is only set when the queue was empty.                *)
AppendedKeepsTail(q, buf) ==
  [head |-> IF q.size = 0 THEN buf ELSE q.head,
   tail |-> IF q.size = 0 THEN buf ELSE q.tail,
   size |-> q.size + 1]

(* miQueueAppend: the record, and the links.                               *)
Appended(q, buf) ==
  [head |-> IF q.size = 0 THEN buf ELSE q.head, tail |-> buf, size |-> q.size + 1]
LinkedAfter(q, nextItem, buf) ==
  [b \in DOMAIN nextItem |->
     IF b = buf THEN Null ELSE IF q.size # 0 /\ b = q.tail THEN buf ELSE nextItem[b]]

(* miQueueReadOrRemove without a criterion: the previous buffer it keeps   *)
(* is the head itself, which is the tail for as long as head is not NULL.  *)
Removed(q, nextItem) ==
  IF q.size = 0 THEN q
  ELSE [head |-> nextItem[q.head],
        tail |-> IF nextItem[q.head] = Null THEN Null ELSE q.tail,
        size |-> q.size - 1]

(* The buffers from the head on, as far as the links go.                   *)
Chain(q, nextItem) ==
  LET at[k \in Nat \ {0}] ==
        IF k = 1 THEN q.head
        ELSE IF at[k - 1] = Null THEN Null ELSE nextItem[at[k - 1]]
  IN  [k \in 1 .. q.size |-> at[k]]

(* The chain is as long as the size says and ends at the tail.             *)
WellLinked(q, nextItem) ==
  LET chain == Chain(q, nextItem)
  IN  /\ \A k \in 1 .. q.size : chain[k] # Null
      /\ q.size # 0 => chain[q.size] = q.tail /\ nextItem[q.tail] = Null
      /\ q.size = 0 => q.head = Null /\ q.tail = Null
============================================================================
