--------------------------------- MODULE Fifo ---------------------------------
(***************************************************************************)
(* What queue.h promises to threads that share a queue.  A call takes      *)
(* effect at one instant between its start and its return: push appends,   *)
(* pop takes the first item, is_empty tells whether there is one, and pop  *)
(* returns NULL only if there was none at some instant of the call.        *)
(***************************************************************************)
EXTENDS Naturals, Sequences

CONSTANTS
  Threads,
  Items,
  Null       \* what a pop of an empty queue returns; not an item

VARIABLES
  items,     \* the queue, first item first
  call,      \* what each thread is calling, "none" outside calls
  value,     \* push: the item until it is appended; pop: the item once taken
  seen,      \* what is_empty could rightly have answered at the instants of
             \* each thread's call so far
  ret        \* what the latest call of each thread returned

fifoVars == <<items, call, value, seen, ret>>

Empty(q) == IF q = <<>> THEN 1 ELSE 0

Init ==
  /\ items \in Seq(Items)
  /\ call = [p \in Threads |-> "none"]
  /\ value = [p \in Threads |-> Null]
  /\ seen = [p \in Threads |-> {}]
  /\ ret = [p \in Threads |-> Null]

Start(p, op, x) ==
  /\ call[p] = "none"
  /\ call' = [call EXCEPT ![p] = op]
  /\ value' = [value EXCEPT ![p] = x]
  /\ seen' = [seen EXCEPT ![p] = {Empty(items)}]
  /\ UNCHANGED <<items, ret>>

Return(p, x) ==
  /\ call' = [call EXCEPT ![p] = "none"]
  /\ value' = [value EXCEPT ![p] = Null]
  /\ seen' = [seen EXCEPT ![p] = {}]
  /\ ret' = [ret EXCEPT ![p] = x]
  /\ UNCHANGED items

(* The queue becomes q, and every call in progress sees it.                *)
Becomes(q) ==
  /\ items' = q
  /\ seen' = [p \in Threads |-> IF call[p] = "none" THEN {}
                                ELSE seen[p] \cup {Empty(q)}]

Put(p) ==
  /\ call[p] = "push" /\ value[p] # Null
  /\ Becomes(Append(items, value[p]))
  /\ value' = [value EXCEPT ![p] = Null]
  /\ UNCHANGED <<call, ret>>

Take(p) ==
  /\ call[p] = "pop" /\ value[p] = Null
  /\ items # <<>>
  /\ Becomes(Tail(items))
  /\ value' = [value EXCEPT ![p] = Head(items)]
  /\ UNCHANGED <<call, ret>>

ReturnPush(p) == call[p] = "push" /\ value[p] = Null /\ Return(p, Null)

ReturnPop(p) == call[p] = "pop" /\ value[p] # Null /\ Return(p, value[p])

ReturnNull(p) == call[p] = "pop" /\ value[p] = Null /\ 1 \in seen[p] /\ Return(p, Null)

ReturnIsEmpty(p) ==
  /\ call[p] = "is_empty"
  /\ \E answer \in seen[p] : Return(p, answer)

(* queue_destroy, when no thread uses the queue any more.                  *)
Destroy ==
  /\ \A p \in Threads : call[p] = "none"
  /\ items' = <<>>
  /\ UNCHANGED <<call, value, seen, ret>>

Next ==
  \/ \E p \in Threads :
       \/ \E x \in Items : Start(p, "push", x)
       \/ Start(p, "pop", Null) \/ Start(p, "is_empty", Null)
       \/ Put(p) \/ Take(p)
       \/ ReturnPush(p) \/ ReturnPop(p) \/ ReturnNull(p) \/ ReturnIsEmpty(p)
  \/ Destroy

Spec == Init /\ [][Next]_fifoVars
===============================================================================
