------------------------------- MODULE Hashtable -------------------------------
(***************************************************************************)
(* Storage/hashtable.c: open addressing with linear probing, filled        *)
(* without locks.  The threads use it as check_state of the concurrent     *)
(* solver uses a storage: storage_do looks an item up, and when nothing    *)
(* was found storage_insert puts it in.                                    *)
(*                                                                         *)
(* Grain.  One action is one read of a slot or of accessors, or one        *)
(* compare-and-swap.                                                       *)
(*                                                                         *)
(* Nothing adds to size, so that the test of line 121 fails for ever,      *)
(* storage_resize is not called and global_lock, which only it takes,      *)
(* stays free: none of the three is here.                                  *)
(***************************************************************************)
EXTENDS Naturals, FiniteSets

CONSTANTS
  NumThreads,
  Items,       \* the blocks that hold cube states
  Hashes,      \* the hash functions to look at
  Capacity,    \* 64 in the program
  None         \* no item; no slot

Threads == 1..NumThreads
Slots == 0..(Capacity - 1)

ASSUME TableAssumption ==
  /\ NumThreads \in Nat \ {0}
  /\ Capacity \in Nat \ {0}
  /\ None \notin Items \cup Slots
  /\ Hashes \subseteq [Items -> Nat]

VARIABLES
  data,        \* the slots
  accessors,   \* how many calls are between access_start and access_finish
  hash,        \* the hash function; what it gives never changes
  pc,          \* where each thread is
  call,        \* which call it is in: "do", "insert", or "none"
  item,        \* the item it looks up or inserts
  prev,        \* what it last read of accessors
  index,       \* actualIndex % capacity
  found,       \* the slot the look-up answers
  todo,        \* the items no thread has looked up yet
  before       \* history: what was stored when the look-up began

local == <<call, item, prev, index, found, before>>
vars == <<data, accessors, hash, pc, local, todo>>

Labels == {"idle", "start_read", "start_swap", "probe", "again", "exchange",
           "finish_read", "finish_swap"}

TypeOK ==
  /\ data \in [Slots -> Items \cup {None}]
  /\ accessors \in 0..NumThreads
  /\ hash \in Hashes
  /\ pc \in [Threads -> Labels]
  /\ call \in [Threads -> {"do", "insert", "none"}]
  /\ item \in [Threads -> Items \cup {None}]
  /\ prev \in [Threads -> 0..NumThreads]
  /\ index \in [Threads -> Slots]
  /\ found \in [Threads -> Slots \cup {None}]
  /\ todo \in SUBSET Items
  /\ before \in [Threads -> SUBSET Items]

Init ==
  /\ data = [s \in Slots |-> None]
  /\ accessors = 0
  /\ hash \in Hashes
  /\ pc = [p \in Threads |-> "idle"]
  /\ call = [p \in Threads |-> "none"]
  /\ item = [p \in Threads |-> None]
  /\ prev = [p \in Threads |-> 0]
  /\ index = [p \in Threads |-> 0]
  /\ found = [p \in Threads |-> None]
  /\ todo = Items
  /\ before = [p \in Threads |-> {}]
-------------------------------------------------------------------------------
At(p, label) == pc[p] = label

Goto(p, label) == pc' = [pc EXCEPT ![p] = label]

Home(i) == hash[i] % Capacity
Stored == {data[s] : s \in Slots} \ {None}
Slot(p) == data[index[p]]

StartDo(p) ==
  /\ At(p, "idle")
  /\ \E i \in todo :
       /\ item' = [item EXCEPT ![p] = i]
       /\ todo' = todo \ {i}
  /\ call' = [call EXCEPT ![p] = "do"]
  /\ before' = [before EXCEPT ![p] = Stored]
  /\ Goto(p, "start_read")
  /\ UNCHANGED <<data, accessors, hash, prev, index, found>>

(* storage_access_start.                                                   *)
ReadAccessors(p) ==
  /\ \/ At(p, "start_read") /\ Goto(p, "start_swap")
     \/ At(p, "finish_read") /\ Goto(p, "finish_swap")
  /\ prev' = [prev EXCEPT ![p] = accessors]
  /\ UNCHANGED <<data, accessors, hash, call, item, index, found, todo, before>>

SwapStart(p) ==
  /\ At(p, "start_swap")
  /\ IF accessors = prev[p]
     THEN /\ accessors' = prev[p] + 1
          /\ index' = [index EXCEPT ![p] = Home(item[p])]
          /\ Goto(p, "probe")
     ELSE Goto(p, "start_read") /\ UNCHANGED <<accessors, index>>
  /\ prev' = [prev EXCEPT ![p] = 0]
  /\ UNCHANGED <<data, hash, call, item, found, todo, before>>
-------------------------------------------------------------------------------
(* storage_location_of and storage_insert go from slot to slot.            *)

(* A wrong NextSlot, to test: it runs over the end of the array.           *)
UnboundedNextSlot(p) == index' = [index EXCEPT ![p] = @ + 1]

(* A wrong NextSlot, to test: it leaves out every second slot.             *)
SkippingNextSlot(p) == index' = [index EXCEPT ![p] = (@ + 2) % Capacity]

NextSlot(p) == index' = [index EXCEPT ![p] = (@ + 1) % Capacity]

(* A wrong LookPast, to test: the first item of another hash ends the      *)
(* search.                                                                 *)
HastyLookPast(p) ==
  /\ At(p, "probe") /\ call[p] = "do"
  /\ Slot(p) # None /\ hash[Slot(p)] # hash[item[p]]
  /\ Goto(p, "finish_read")
  /\ UNCHANGED <<data, accessors, hash, local, todo>>

(* The look-up passes the items of other hashes.  The comparator is not    *)
(* called.                                                                 *)
LookPast(p) ==
  /\ At(p, "probe") /\ call[p] = "do"
  /\ Slot(p) # None /\ hash[Slot(p)] # hash[item[p]]
  /\ NextSlot(p)
  /\ UNCHANGED <<data, accessors, hash, pc, call, item, prev, found, todo, before>>

(* A wrong LookHit, to test: it takes whatever it meets.                   *)
CarelessLookHit(p) ==
  /\ At(p, "probe") /\ call[p] = "do"
  /\ Slot(p) # None
  /\ found' = [found EXCEPT ![p] = index[p]]
  /\ Goto(p, "finish_read")
  /\ UNCHANGED <<data, accessors, hash, call, item, prev, index, todo, before>>

LookHit(p) ==
  /\ At(p, "probe") /\ call[p] = "do"
  /\ Slot(p) # None /\ hash[Slot(p)] = hash[item[p]]
  /\ found' = [found EXCEPT ![p] = index[p]]
  /\ Goto(p, "finish_read")
  /\ UNCHANGED <<data, accessors, hash, call, item, prev, index, todo, before>>

LookEmpty(p) ==
  /\ At(p, "probe") /\ call[p] = "do"
  /\ Slot(p) = None
  /\ Goto(p, "again")
  /\ UNCHANGED <<data, accessors, hash, local, todo>>

(* The slot that ended the search is read once more to tell why it ended.  *)
LookAgain(p) ==
  /\ At(p, "again")
  /\ found' = [found EXCEPT ![p] = IF Slot(p) = None THEN None ELSE index[p]]
  /\ Goto(p, "finish_read")
  /\ UNCHANGED <<data, accessors, hash, call, item, prev, index, todo, before>>

InsertPast(p) ==
  /\ At(p, "probe") /\ call[p] = "insert"
  /\ Slot(p) # None
  /\ NextSlot(p)
  /\ UNCHANGED <<data, accessors, hash, pc, call, item, prev, found, todo, before>>

InsertHere(p) ==
  /\ At(p, "probe") /\ call[p] = "insert"
  /\ Slot(p) = None
  /\ Goto(p, "exchange")
  /\ UNCHANGED <<data, accessors, hash, local, todo>>

(* A wrong Exchange, to test: it stores without comparing.                 *)
BlindExchange(p) ==
  /\ At(p, "exchange")
  /\ data' = [data EXCEPT ![index[p]] = item[p]]
  /\ Goto(p, "finish_read")
  /\ UNCHANGED <<accessors, hash, local, todo>>

(* A wrong Exchange, to test: when it fails it tries the same slot again.  *)
StubbornExchange(p) ==
  /\ At(p, "exchange")
  /\ IF Slot(p) = None
     THEN data' = [data EXCEPT ![index[p]] = item[p]] /\ Goto(p, "finish_read")
     ELSE UNCHANGED <<data, pc>>
  /\ UNCHANGED <<accessors, hash, local, todo>>

Exchange(p) ==
  /\ At(p, "exchange")
  /\ IF Slot(p) = None
     THEN data' = [data EXCEPT ![index[p]] = item[p]] /\ Goto(p, "finish_read")
     ELSE Goto(p, "probe") /\ UNCHANGED data
  /\ UNCHANGED <<accessors, hash, local, todo>>
-------------------------------------------------------------------------------
(* After a look-up that found nothing the caller inserts the item; other-  *)
(* wise it is done with it.                                                *)
AfterCall(p) ==
  /\ prev' = [prev EXCEPT ![p] = 0]
  /\ index' = [index EXCEPT ![p] = 0]
  /\ found' = [found EXCEPT ![p] = None]
  /\ before' = [before EXCEPT ![p] = {}]
  /\ IF call[p] = "do" /\ found[p] = None
     THEN /\ call' = [call EXCEPT ![p] = "insert"]
          /\ Goto(p, "start_read")
          /\ UNCHANGED item
     ELSE /\ call' = [call EXCEPT ![p] = "none"]
          /\ Goto(p, "idle")
          /\ item' = [item EXCEPT ![p] = None]

(* A wrong SwapFinish, to test: it stores without comparing.               *)
BlindSwapFinish(p) ==
  /\ At(p, "finish_swap")
  /\ accessors' = prev[p] - 1
  /\ AfterCall(p)
  /\ UNCHANGED <<data, hash, todo>>

(* storage_access_finish.                                                  *)
SwapFinish(p) ==
  /\ At(p, "finish_swap")
  /\ IF accessors = prev[p]
     THEN accessors' = prev[p] - 1 /\ AfterCall(p)
     ELSE /\ Goto(p, "finish_read")
          /\ prev' = [prev EXCEPT ![p] = 0]
          /\ UNCHANGED <<accessors, call, item, index, found, before>>
  /\ UNCHANGED <<data, hash, todo>>

Step(p) ==
  \/ StartDo(p) \/ ReadAccessors(p) \/ SwapStart(p)
  \/ LookPast(p) \/ LookHit(p) \/ LookEmpty(p) \/ LookAgain(p)
  \/ InsertPast(p) \/ InsertHere(p) \/ Exchange(p)
  \/ SwapFinish(p)

Done == todo = {} /\ (\A p \in Threads : At(p, "idle")) /\ UNCHANGED vars

Next == (\E p \in Threads : Step(p)) \/ Done

(* The system schedules every thread, as it does the solver's.             *)
Spec == Init /\ [][Next]_vars /\ \A p \in Threads : WF_vars(Step(p))
-------------------------------------------------------------------------------
(* Properties.                                                             *)

(* What is stored stays: an item whose insertion has got its slot is in    *)
(* exactly one slot, and only such items are (storage_insert line 133).    *)
Inserting == {item[p] : p \in {q \in Threads : call[q] = "insert"
                                               /\ pc[q] \notin {"finish_read", "finish_swap"}}}

StoredOnce ==
  /\ \A s, t \in Slots : data[s] # None /\ data[s] = data[t] => s = t
  /\ \A p \in Threads : call[p] = "insert" =>
       (item[p] \in Stored <=> item[p] \notin Inserting)

(* A search from the slot of an item's hash meets the item before an empty *)
(* slot, though items pass each other on the way to their slots            *)
(* (storage_insert lines 128-135).                                         *)
Between(h, s) == {(h + k) % Capacity : k \in 0..((s + Capacity - h) % Capacity)}

Findable ==
  \A s \in Slots : data[s] # None =>
    \A t \in Between(Home(data[s]), s) : data[t] # None

(* A look-up that answers NULL is right about the past: no item with that  *)
(* hash was stored when it began (storage_location_of).                    *)
Answered(p) == call[p] = "do" /\ pc[p] \in {"finish_read", "finish_swap"}

MissesAreTrue ==
  \A p \in Threads : Answered(p) /\ found[p] = None =>
    \A i \in before[p] : hash[i] # hash[item[p]]

(* "Returns a pointer to the location of obj": the slot that a look-up     *)
(* answers has an item with the hash it was asked for (storage_location_of *)
(* reads the slot a second time at line 104).                              *)
HitsAreRight ==
  \A p \in Threads : Answered(p) /\ found[p] # None =>
    hash[data[found[p]]] = hash[item[p]]

(* The same of what was stored when the look-up began: none of that is     *)
(* answered for an item of another hash, whatever is inserted meanwhile.   *)
OldHitsAreRight ==
  \A p \in Threads : Answered(p) /\ found[p] # None /\ data[found[p]] \in before[p] =>
    hash[data[found[p]]] = hash[item[p]]

(* accessors counts the calls in the table, which is what storage_resize   *)
(* waits for (storage_access_start and storage_access_finish).             *)
Inside == {p \in Threads : pc[p] \in {"probe", "again", "exchange", "finish_read",
                                      "finish_swap"}}

AccessorsAreCounted == accessors = Cardinality(Inside)

(* Every call ends, unless the table is full, when a search for what is    *)
(* not there goes round for ever (lines 103 and 129).                      *)
Full == \A s \in Slots : data[s] # None

CallsEnd == \A p \in Threads : ~At(p, "idle") ~> (At(p, "idle") \/ Full)
===============================================================================
