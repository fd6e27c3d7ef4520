---------------------------- MODULE ConcurrentQueue ----------------------------
(***************************************************************************)
(* Storage/concurrent_queue.c: a Michael-Scott queue.  The queue is a list *)
(* of nodes with a dummy in front; head and tail point to nodes, and every *)
(* pointer carries a count so that a compare-and-swap can tell it from an  *)
(* earlier one.                                                            *)
(*                                                                         *)
(* Grain.  One action is one atomic load or compare-and-swap of head, tail *)
(* or a node's next field, one read of a node's value, or one free.  These *)
(* accesses are sequentially consistent in the code.  What a thread does   *)
(* to its own variables belongs to the action it goes with.                *)
(*                                                                         *)
(* Memory.  malloc returns a node that is not in use: a new one or one     *)
(* that was freed, to which threads may still hold pointers.  A careful    *)
(* malloc leaves alone those that another thread holds as its head or tail.*)
(* What a freed node holds stays there until it is initialised again.      *)
(***************************************************************************)
EXTENDS Naturals, Sequences

CONSTANTS
  NumThreads,
  Nodes,       \* the addresses of nodes
  MaxCalls,    \* bound on the calls of each thread
  MaxFilled,   \* bound on the items in the queue at first
  CountRange,  \* counts are modulo this, 2^32 in the program
  Uses         \* the ways in which the threads may use the queue, see Use

Threads == 1..NumThreads
Null == 0      \* a NULL node, and a NULL item

Calls == {"push", "pop", "is_empty"}

(* calls: what each thread may call.  careful: whether malloc is.  lone:   *)
(* the one thread that is sure to be scheduled.                            *)
Use == [calls : [Threads -> SUBSET Calls], careful : BOOLEAN, lone : Threads]

ASSUME QueueAssumption ==
  /\ NumThreads \in Nat \ {0}
  /\ Nodes \subseteq Nat \ {0}
  /\ MaxCalls \in Nat /\ MaxFilled \in Nat
  /\ 1..(MaxFilled + 1) \subseteq Nodes
  /\ CountRange \in Nat \ {0}
  /\ Uses \subseteq Use

VARIABLES
  queueHead,   \* queue->head
  queueTail,   \* queue->tail
  nextOf,      \* the field next of every node
  valueOf,     \* the field value of every node
  memory,      \* which nodes are allocated
  destroyed,   \* whether queue_destroy was called
  use,         \* how this execution uses the queue
  pc,          \* where each thread is
  calls,       \* how many calls each thread has made
  head, tail, next, node, obj,   \* the local variables of the calls
  ret,         \* what the latest call of each thread returned
  chain,       \* history: the nodes of the list, dummy first
  seen         \* history: what is_empty could have answered in the course of
               \* each thread's call, as in Fifo

shared == <<queueHead, queueTail, nextOf, valueOf, memory>>
local == <<head, tail, next, node, obj>>
history == <<chain, seen>>
vars == <<shared, destroyed, use, pc, calls, local, ret, history>>

NodePointer == [ptr : Nodes \cup {Null}, count : 0..(CountRange - 1)]
NoPointer == [ptr |-> Null, count |-> 0]

(* The item that thread p pushes in its n-th call; 0 is the thread that    *)
(* fills the queue before it starts the others.                            *)
Item(p, n) == n * (NumThreads + 1) + p
Items == {Item(p, n) : p \in 0..NumThreads, n \in 1..(MaxCalls + MaxFilled)}

PushLabels == {"push_init", "push_tail", "push_next", "push_count", "push_ptr",
               "push_link", "push_help", "push_swing", "push_astray"}
PopLabels == {"pop_head", "pop_tail", "pop_next", "pop_count", "pop_ptr", "pop_help",
              "pop_value", "pop_swing", "pop_free"}
EmptyLabels == {"empty_head", "empty_next"}

TypeOK ==
  /\ queueHead \in NodePointer /\ queueTail \in NodePointer
  /\ nextOf \in [Nodes -> NodePointer]
  /\ valueOf \in [Nodes -> Items \cup {Null}]
  /\ memory \in [Nodes -> {"unused", "allocated", "freed"}]
  /\ destroyed \in BOOLEAN
  /\ use \in Uses
  /\ pc \in [Threads -> {"idle"} \cup PushLabels \cup PopLabels \cup EmptyLabels]
  /\ calls \in [Threads -> 0..MaxCalls]
  /\ head \in [Threads -> NodePointer]
  /\ tail \in [Threads -> NodePointer]
  /\ next \in [Threads -> NodePointer]
  /\ node \in [Threads -> Nodes \cup {Null}]
  /\ obj \in [Threads -> Items \cup {Null}]
  /\ ret \in [Threads -> Items \cup {Null, 1}]
  /\ chain \in Seq(Nodes) /\ chain # <<>>
  /\ seen \in [Threads -> SUBSET {0, 1}]

(* queue_create and the pushes of the thread that fills the queue before   *)
(* it starts the others, n of them: each has gone round its loop once.     *)
Init ==
  \E n \in 0..MaxFilled :
    /\ queueHead = [ptr |-> 1, count |-> 0]
    /\ queueTail = [ptr |-> n + 1, count |-> n % CountRange]
    /\ nextOf = [m \in Nodes |-> IF m <= n THEN [ptr |-> m + 1, count |-> 1 % CountRange]
                                 ELSE NoPointer]
    /\ valueOf = [m \in Nodes |-> IF m \in 2..(n + 1) THEN Item(0, m - 1) ELSE Null]
    /\ memory = [m \in Nodes |-> IF m <= n + 1 THEN "allocated" ELSE "unused"]
    /\ destroyed = FALSE
    /\ use \in Uses
    /\ pc = [p \in Threads |-> "idle"]
    /\ calls = [p \in Threads |-> 0]
    /\ head = [p \in Threads |-> NoPointer]
    /\ tail = [p \in Threads |-> NoPointer]
    /\ next = [p \in Threads |-> NoPointer]
    /\ node = [p \in Threads |-> Null]
    /\ obj = [p \in Threads |-> Null]
    /\ ret = [p \in Threads |-> Null]
    /\ chain = [i \in 1..(n + 1) |-> i]
    /\ seen = [p \in Threads |-> {}]
-------------------------------------------------------------------------------
(* Steps of a thread.                                                      *)

At(p, label) == pc[p] = label

Goto(p, label) == pc' = [pc EXCEPT ![p] = label]

(* The pointer a compare-and-swap stores: where to, and one count more     *)
(* than the pointer it was computed from.                                  *)
Swung(to, from) == [ptr |-> to, count |-> (from.count + 1) % CountRange]

(* atomic_compare_exchange_strong on a shared pointer that holds current.  *)
Exchanged(current, expected, new) == IF current = expected THEN new ELSE current

Contents == [i \in 1..(Len(chain) - 1) |-> valueOf[chain[i + 1]]]
Last == chain[Len(chain)]

Empty(nodes) == IF Len(nodes) = 1 THEN 1 ELSE 0

(* The list becomes nodes, and every call in progress may have seen that.  *)
ChainBecomes(nodes) ==
  /\ chain' = nodes
  /\ seen' = [p \in Threads |-> IF At(p, "idle") THEN {}
                                ELSE seen[p] \cup {Empty(nodes)}]

Begin(p, op, label) ==
  /\ At(p, "idle")
  /\ ~destroyed
  /\ calls[p] < MaxCalls
  /\ op \in use.calls[p]
  /\ calls' = [calls EXCEPT ![p] = @ + 1]
  /\ Goto(p, label)
  /\ seen' = [seen EXCEPT ![p] = {Empty(chain)}]
  /\ UNCHANGED <<destroyed, use, chain>>

(* A call returns x and its variables go out of scope.                     *)
Return(p, x) ==
  /\ Goto(p, "idle")
  /\ head' = [head EXCEPT ![p] = NoPointer]
  /\ tail' = [tail EXCEPT ![p] = NoPointer]
  /\ next' = [next EXCEPT ![p] = NoPointer]
  /\ node' = [node EXCEPT ![p] = Null]
  /\ obj' = [obj EXCEPT ![p] = Null]
  /\ ret' = [ret EXCEPT ![p] = x]
  /\ seen' = [seen EXCEPT ![p] = {}]
  /\ UNCHANGED <<destroyed, use, calls, chain>>

(* Once more round the loop: what was loaded will be loaded again.         *)
Retry(p, label) ==
  /\ Goto(p, label)
  /\ head' = [head EXCEPT ![p] = NoPointer]
  /\ tail' = [tail EXCEPT ![p] = NoPointer]
  /\ next' = [next EXCEPT ![p] = NoPointer]
  /\ obj' = [obj EXCEPT ![p] = Null]

Outside == <<destroyed, use, calls, ret, history>>
-------------------------------------------------------------------------------
(* queue_push.                                                             *)

(* Thread q has a pointer to node m, and may yet compare with it.          *)
Holds(q, m) == m = head[q].ptr \/ m = tail[q].ptr

(* What malloc may return: the nodes never used are taken one by one.      *)
Available ==
  {m \in Nodes : memory[m] = "freed" /\ (use.careful => \A q \in Threads : ~Holds(q, m))}
  \cup {m \in Nodes : memory[m] = "unused" /\ \A k \in Nodes : k < m => memory[k] # "unused"}

StartPush(p) ==
  /\ Begin(p, "push", "push_init")
  /\ \E m \in Available :
       /\ node' = [node EXCEPT ![p] = m]
       /\ memory' = [memory EXCEPT ![m] = "allocated"]
  /\ UNCHANGED <<queueHead, queueTail, nextOf, valueOf, head, tail, next, obj, ret>>

PushInit(p) ==
  /\ At(p, "push_init")
  /\ nextOf' = [nextOf EXCEPT ![node[p]] = NoPointer]
  /\ valueOf' = [valueOf EXCEPT ![node[p]] = Item(p, calls[p])]
  /\ Goto(p, "push_tail")
  /\ UNCHANGED <<queueHead, queueTail, memory, Outside, local>>

PushLoadTail(p) ==
  /\ At(p, "push_tail")
  /\ tail' = [tail EXCEPT ![p] = queueTail]
  /\ Goto(p, "push_next")
  /\ UNCHANGED <<shared, Outside, head, next, node, obj>>

PushLoadNext(p) ==
  /\ At(p, "push_next")
  /\ next' = [next EXCEPT ![p] = nextOf[tail[p].ptr]]
  /\ Goto(p, "push_count")
  /\ UNCHANGED <<shared, Outside, head, tail, node, obj>>

(* queue->tail is loaded twice more, for its count and for its ptr.        *)
PushCheckCount(p) ==
  /\ At(p, "push_count")
  /\ IF tail[p].count = queueTail.count
     THEN Goto(p, "push_ptr") /\ UNCHANGED local
     ELSE Retry(p, "push_tail") /\ UNCHANGED node
  /\ UNCHANGED <<shared, Outside>>

(* A wrong PushCheckPtr, to test: it does not ask whether the node it      *)
(* found is the last one.                                                  *)
CarelessPushCheckPtr(p) ==
  /\ At(p, "push_ptr")
  /\ IF tail[p].ptr = queueTail.ptr
     THEN Goto(p, "push_link") /\ UNCHANGED local
     ELSE Retry(p, "push_tail") /\ UNCHANGED node
  /\ UNCHANGED <<shared, Outside>>

PushCheckPtr(p) ==
  /\ At(p, "push_ptr")
  /\ IF tail[p].ptr = queueTail.ptr
     THEN /\ Goto(p, IF next[p].ptr = Null THEN "push_link" ELSE "push_help")
          /\ UNCHANGED local
     ELSE Retry(p, "push_tail") /\ UNCHANGED node
  /\ UNCHANGED <<shared, Outside>>

(* A wrong PushLink, to test: it stores its node without comparing.        *)
BlindPushLink(p) ==
  /\ At(p, "push_link")
  /\ nextOf' = [nextOf EXCEPT ![tail[p].ptr] = Swung(node[p], next[p])]
  /\ IF tail[p].ptr = Last
     THEN ChainBecomes(Append(chain, node[p])) /\ Goto(p, "push_swing")
     ELSE Goto(p, "push_astray") /\ UNCHANGED history
  /\ UNCHANGED <<queueHead, queueTail, valueOf, memory, destroyed, use, calls, local, ret>>

(* The node is linked behind the node tail.ptr.  That this was not the     *)
(* last node of the list is kept in pc, but makes no difference to a call. *)
PushLink(p) ==
  /\ At(p, "push_link")
  /\ IF nextOf[tail[p].ptr] = next[p]
     THEN /\ nextOf' = [nextOf EXCEPT ![tail[p].ptr] = Swung(node[p], next[p])]
          /\ IF tail[p].ptr = Last
             THEN ChainBecomes(Append(chain, node[p])) /\ Goto(p, "push_swing")
             ELSE Goto(p, "push_astray") /\ UNCHANGED history
          /\ UNCHANGED local
     ELSE /\ Retry(p, "push_tail")
          /\ UNCHANGED <<nextOf, node, history>>
  /\ UNCHANGED <<queueHead, queueTail, valueOf, memory, destroyed, use, calls, ret>>

(* A wrong PushHelp, to test: it waits for the other push to go on.        *)
WaitingPushHelp(p) ==
  /\ At(p, "push_help")
  /\ Retry(p, "push_tail")
  /\ UNCHANGED <<shared, Outside, node>>

(* The tail has fallen behind: move it on for whoever should have, retry.  *)
PushHelp(p) ==
  /\ At(p, "push_help")
  /\ queueTail' = Exchanged(queueTail, tail[p], Swung(next[p].ptr, tail[p]))
  /\ Retry(p, "push_tail")
  /\ UNCHANGED <<queueHead, nextOf, valueOf, memory, Outside, node>>

PushSwing(p) ==
  /\ pc[p] \in {"push_swing", "push_astray"}
  /\ queueTail' = Exchanged(queueTail, tail[p], Swung(node[p], tail[p]))
  /\ Return(p, Null)
  /\ UNCHANGED <<queueHead, nextOf, valueOf, memory>>
-------------------------------------------------------------------------------
(* queue_pop.                                                              *)

StartPop(p) ==
  /\ Begin(p, "pop", "pop_head")
  /\ UNCHANGED <<shared, local, ret>>

PopLoadHead(p) ==
  /\ At(p, "pop_head")
  /\ head' = [head EXCEPT ![p] = queueHead]
  /\ Goto(p, "pop_tail")
  /\ UNCHANGED <<shared, Outside, tail, next, node, obj>>

PopLoadTail(p) ==
  /\ At(p, "pop_tail")
  /\ tail' = [tail EXCEPT ![p] = queueTail]
  /\ Goto(p, "pop_next")
  /\ UNCHANGED <<shared, Outside, head, next, node, obj>>

PopLoadNext(p) ==
  /\ At(p, "pop_next")
  /\ next' = [next EXCEPT ![p] = nextOf[head[p].ptr]]
  /\ Goto(p, "pop_count")
  /\ UNCHANGED <<shared, Outside, head, tail, node, obj>>

PopCheckCount(p) ==
  /\ At(p, "pop_count")
  /\ IF head[p].count = queueHead.count
     THEN Goto(p, "pop_ptr") /\ UNCHANGED local
     ELSE Retry(p, "pop_head") /\ UNCHANGED node
  /\ UNCHANGED <<shared, Outside>>

PopCheckPtr(p) ==
  /\ At(p, "pop_ptr")
  /\ head[p].ptr = queueHead.ptr
  /\ \/ head[p].ptr # tail[p].ptr /\ Goto(p, "pop_value")
     \/ head[p].ptr = tail[p].ptr /\ next[p].ptr # Null /\ Goto(p, "pop_help")
  /\ UNCHANGED <<shared, Outside, local>>

PopChanged(p) ==
  /\ At(p, "pop_ptr")
  /\ head[p].ptr # queueHead.ptr
  /\ Retry(p, "pop_head")
  /\ UNCHANGED <<shared, Outside, node>>

PopNull(p) ==
  /\ At(p, "pop_ptr")
  /\ head[p].ptr = queueHead.ptr
  /\ head[p].ptr = tail[p].ptr /\ next[p].ptr = Null
  /\ Return(p, Null)
  /\ UNCHANGED shared

(* A wrong PopHelp, to test: it leaves the tail where it was.              *)
IdlePopHelp(p) ==
  /\ At(p, "pop_help")
  /\ Goto(p, "pop_value")
  /\ UNCHANGED <<shared, Outside, local>>

(* The tail is moved on, and the pop goes on as if it had always been.     *)
PopHelp(p) ==
  /\ At(p, "pop_help")
  /\ queueTail' = Exchanged(queueTail, tail[p], Swung(next[p].ptr, tail[p]))
  /\ Goto(p, "pop_value")
  /\ UNCHANGED <<queueHead, nextOf, valueOf, memory, Outside, local>>

(* Following a NULL next would end the process.                            *)
PopLoadValue(p) ==
  /\ At(p, "pop_value")
  /\ next[p].ptr # Null
  /\ obj' = [obj EXCEPT ![p] = valueOf[next[p].ptr]]
  /\ Goto(p, "pop_swing")
  /\ UNCHANGED <<shared, Outside, head, tail, next, node>>

(* A wrong PopSwing, to test: it stores the new head without comparing.    *)
BlindPopSwing(p) ==
  /\ At(p, "pop_swing")
  /\ queueHead' = Swung(next[p].ptr, head[p])
  /\ ChainBecomes(Tail(chain))
  /\ Goto(p, "pop_free")
  /\ UNCHANGED <<queueTail, nextOf, valueOf, memory, destroyed, use, calls, local, ret>>

PopSwing(p) ==
  /\ At(p, "pop_swing")
  /\ IF queueHead = head[p]
     THEN /\ queueHead' = Swung(next[p].ptr, head[p])
          /\ ChainBecomes(Tail(chain))
          /\ Goto(p, "pop_free")
          /\ UNCHANGED local
     ELSE /\ Retry(p, "pop_head")
          /\ UNCHANGED <<queueHead, node, history>>
  /\ UNCHANGED <<queueTail, nextOf, valueOf, memory, destroyed, use, calls, ret>>

PopFree(p) ==
  /\ At(p, "pop_free")
  /\ memory' = [memory EXCEPT ![head[p].ptr] = "freed"]
  /\ Return(p, obj[p])
  /\ UNCHANGED <<queueHead, queueTail, nextOf, valueOf>>
-------------------------------------------------------------------------------
(* queue_is_empty.                                                         *)

StartIsEmpty(p) ==
  /\ Begin(p, "is_empty", "empty_head")
  /\ UNCHANGED <<shared, local, ret>>

EmptyLoadHead(p) ==
  /\ At(p, "empty_head")
  /\ head' = [head EXCEPT ![p] = queueHead]
  /\ Goto(p, "empty_next")
  /\ UNCHANGED <<shared, Outside, tail, next, node, obj>>

EmptyLoadNext(p) ==
  /\ At(p, "empty_next")
  /\ Return(p, IF nextOf[head[p].ptr].ptr = Null THEN 1 ELSE 0)
  /\ UNCHANGED shared
-------------------------------------------------------------------------------
(* A wrong queue_destroy, to test: it forgets the last dummy.              *)
LeakingDestroy ==
  /\ ~destroyed
  /\ \A p \in Threads : At(p, "idle")
  /\ destroyed' = TRUE
  /\ memory' = [m \in Nodes |-> IF \E i \in 1..(Len(chain) - 1) : chain[i] = m THEN "freed"
                                ELSE memory[m]]
  /\ queueHead' = [ptr |-> Last, count |-> (queueHead.count + Len(chain) - 1) % CountRange]
  /\ chain' = <<Last>>
  /\ UNCHANGED <<queueTail, nextOf, valueOf, use, pc, calls, local, ret, seen>>

(* queue_destroy, once the threads have been joined: it pops what is left  *)
(* and frees the last dummy.                                               *)
Destroy ==
  /\ ~destroyed
  /\ \A p \in Threads : At(p, "idle")
  /\ destroyed' = TRUE
  /\ memory' = [m \in Nodes |-> IF \E i \in DOMAIN chain : chain[i] = m THEN "freed"
                                ELSE memory[m]]
  /\ queueHead' = [ptr |-> Last, count |-> (queueHead.count + Len(chain) - 1) % CountRange]
  /\ chain' = <<Last>>
  /\ UNCHANGED <<queueTail, nextOf, valueOf, use, pc, calls, local, ret, seen>>

Push(p) ==
  \/ StartPush(p) \/ PushInit(p) \/ PushLoadTail(p) \/ PushLoadNext(p)
  \/ PushCheckCount(p) \/ PushCheckPtr(p)
  \/ PushLink(p) \/ PushHelp(p) \/ PushSwing(p)

Pop(p) ==
  \/ StartPop(p) \/ PopLoadHead(p) \/ PopLoadTail(p) \/ PopLoadNext(p)
  \/ PopCheckCount(p) \/ PopCheckPtr(p) \/ PopChanged(p) \/ PopNull(p)
  \/ PopHelp(p) \/ PopLoadValue(p) \/ PopSwing(p) \/ PopFree(p)

IsEmpty(p) == StartIsEmpty(p) \/ EmptyLoadHead(p) \/ EmptyLoadNext(p)

Step(p) == Push(p) \/ Pop(p) \/ IsEmpty(p)

Next ==
  \/ \E p \in Threads : Step(p)
  \/ Destroy
  \/ destroyed /\ UNCHANGED vars

Spec == Init /\ [][Next]_vars

(* Only one thread is sure to be scheduled; the others may be stopped for  *)
(* ever at any point of a call.                                            *)
LoneSpec == Spec /\ WF_vars(Step(use.lone))
-------------------------------------------------------------------------------
(* Properties.                                                             *)

CallOf(p) == CASE pc[p] \in PushLabels  -> "push"
               [] pc[p] \in PopLabels   -> "pop"
               [] pc[p] \in EmptyLabels -> "is_empty"
               [] OTHER                 -> "none"

ValueOf(p) == CASE pc[p] \in PushLabels \ {"push_swing"} -> Item(p, calls[p])
                [] pc[p] = "pop_free" -> obj[p]
                [] OTHER -> Null

Queue == INSTANCE Fifo WITH items <- Contents, call <- [p \in Threads |-> CallOf(p)],
                            value <- [p \in Threads |-> ValueOf(p)]

(* The queue is linearizable: however the loads and exchanges of its       *)
(* callers interleave, each call takes effect at one instant of it, items  *)
(* leave in the order in which they came, none twice and none never, and   *)
(* NULL or "empty" is answered only if the queue was empty at some instant *)
(* of the call (queue_push, queue_pop, queue_is_empty).                    *)
ImplementsFifo == Queue!Spec

(* The list in memory is what the exchanges made of it: from the head      *)
(* every next field leads to the node linked there, the last one is NULL,  *)
(* and no node is in the list twice (queue_push line 75, queue_pop 116).   *)
ChainIsInMemory ==
  /\ chain[1] = queueHead.ptr
  /\ \A i \in 1..(Len(chain) - 1) : nextOf[chain[i]].ptr = chain[i + 1]
  /\ nextOf[Last].ptr = Null
  /\ \A i, j \in DOMAIN chain : chain[i] = chain[j] => i = j

(* The tail never falls behind the head, which would have pops free the    *)
(* node it points to, and it is at most one node behind the end: pushes    *)
(* and pops move it on before they need it further (lines 81, 110).        *)
TailIsNearEnd ==
  \/ queueTail.ptr = Last
  \/ Len(chain) > 1 /\ queueTail.ptr = chain[Len(chain) - 1]

(* A node may be freed while others still point to it, and they go on to   *)
(* read it and to compare with what they read.  As long as it is not       *)
(* reused under them, none of these exchanges succeeds: nothing is linked  *)
(* behind a node that is freed, the tail is not swung from one, and the    *)
(* head only to a node whose value is the one read (lines 75-81, 110-121). *)
LateExchangesFail ==
  \A p \in Threads :
    /\ pc[p] = "push_link" /\ nextOf[tail[p].ptr] = next[p] =>
         memory[tail[p].ptr] = "allocated"
    /\ pc[p] \in {"push_help", "push_swing", "pop_help"} /\ queueTail = tail[p] =>
         memory[tail[p].ptr] = "allocated"
    /\ pc[p] = "pop_swing" /\ queueHead = head[p] =>
         memory[next[p].ptr] = "allocated" /\ obj[p] = valueOf[next[p].ptr]

(* Whatever was pushed and popped, queue_destroy leaves no node allocated, *)
(* and no thread frees a node twice (queue_destroy, queue_pop line 121).   *)
NothingLeaks ==
  /\ destroyed => \A m \in Nodes : memory[m] # "allocated"
  /\ \A p \in Threads : pc[p] = "pop_free" => memory[head[p].ptr] = "allocated"

(* "Meant to be non-blocking": a thread finishes its calls even if all     *)
(* others are stopped in the middle of theirs.                             *)
NonBlocking ==
  <>(destroyed \/ (calls[use.lone] = MaxCalls /\ pc[use.lone] = "idle"))
===============================================================================
