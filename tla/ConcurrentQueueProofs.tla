------------------------ MODULE ConcurrentQueueProofs ------------------------
(***************************************************************************)
(* Theorems about ConcurrentQueue, for every number of threads, all at     *)
(* both ends if they like, every set of nodes, every bound on the calls *)
(* and every range of the counts: a range of one, that is no counts at     *)
(* all, is enough.  Nodes are freed and allocated again; a behaviour is    *)
(* followed up to the first time malloc returns a freed node to which a    *)
(* thread still points.  (Beyond that the queue is not a queue, see the    *)
(* run queue_reuse.)                                                       *)
(***************************************************************************)
EXTENDS ConcurrentQueue, SequenceTheorems, TLAPS

(* A freed node is allocated again only when no thread points to it.       *)
Spared ==
  \A m \in Nodes :
    memory[m] = "freed" /\ memory'[m] # "freed" => \A q \in Threads : ~Holds(q, m)

NothingHeldReused == [][Spared]_vars

(* A thread owns the node it is about to link, and one it is about to free. *)
Unlinked == {"push_init", "push_tail", "push_next", "push_count", "push_ptr",
             "push_link", "push_help"}
Making(m) == \E p \in Threads : pc[p] \in Unlinked /\ node[p] = m
Owns(p, m) == \/ pc[p] \in Unlinked /\ node[p] = m
              \/ pc[p] = "pop_free" /\ head[p].ptr = m

(* A node has been linked: it is in the list, or it once was, has a        *)
(* successor and is not yet prepared for another push.                     *)
InList(m) == \E i \in DOMAIN chain : chain[i] = m
Linked(m) == InList(m) \/ (nextOf[m].ptr # Null /\ ~Making(m))

(* The tail is behind only while the push that should move it has not.     *)
TailIsSwung ==
  queueTail.ptr = Last \/ \E p \in Threads : pc[p] = "push_swing" /\ tail[p].ptr = queueTail.ptr

(* Every allocated node is in the list or somebody's, one that was never   *)
(* used has no successor.                                                  *)
Accounted ==
  /\ \A m \in Nodes : memory[m] = "unused" => nextOf[m].ptr = Null
  /\ \A i \in 2..Len(chain) : valueOf[chain[i]] \in Items
  /\ ~destroyed => \A m \in Nodes : InList(m) => memory[m] = "allocated"
  /\ destroyed => \A p \in Threads : pc[p] = "idle"
  /\ \A m \in Nodes : memory[m] = "allocated" =>
       ~destroyed /\ (InList(m) \/ \E p \in Threads : Owns(p, m))
  /\ \A p, q \in Threads, m \in Nodes : Owns(p, m) /\ Owns(q, m) => p = q

(* What a thread may rely on about its own node.                           *)
Owned(p) ==
  /\ pc[p] \in Unlinked =>
       node[p] \in Nodes /\ memory[node[p]] = "allocated" /\ ~InList(node[p])
  /\ pc[p] \in Unlinked \ {"push_init"} =>
       nextOf[node[p]] = NoPointer /\ valueOf[node[p]] = Item(p, calls[p])
  /\ pc[p] = "pop_free" =>
       /\ memory[head[p].ptr] = "allocated" /\ obj[p] \in Items
       /\ ~InList(head[p].ptr) /\ nextOf[head[p].ptr].ptr # Null
  /\ pc[p] # "idle" => calls[p] \in 1..MaxCalls /\ Empty(chain) \in seen[p]

(* What it loaded was in the list once, and not further on than the shared *)
(* pointers are; a pointer to the same node has the same count.            *)
Loaded(p) ==
  /\ tail[p].ptr # Null => Linked(tail[p].ptr)
  /\ tail[p].ptr = Last => queueTail.ptr = Last
  /\ tail[p].ptr = queueTail.ptr => tail[p] = queueTail
  /\ head[p].ptr # Null => Linked(head[p].ptr)
  /\ \A i \in 2..Len(chain) : head[p].ptr # chain[i]
  /\ head[p].ptr = queueHead.ptr => head[p] = queueHead

Pushing(p) ==
  /\ pc[p] # "push_astray"
  /\ pc[p] \in {"push_next", "push_count", "push_ptr", "push_link", "push_help",
                "push_swing"} => tail[p].ptr # Null
  /\ pc[p] \in {"push_count", "push_ptr", "push_help"} /\ next[p].ptr # Null =>
       nextOf[tail[p].ptr].ptr = next[p].ptr
  /\ pc[p] = "push_link" => next[p].ptr = Null
  /\ pc[p] = "push_help" => next[p].ptr # Null
  /\ pc[p] = "push_swing" => node[p] # Null /\ nextOf[tail[p].ptr].ptr = node[p]

Popping(p) ==
  /\ pc[p] = "idle" => head[p].ptr = Null /\ tail[p].ptr = Null
  /\ pc[p] \in (PopLabels \ {"pop_head"}) \cup {"empty_next"} => head[p].ptr # Null
  /\ pc[p] \in {"pop_next", "pop_count", "pop_ptr", "pop_help", "pop_value", "pop_swing"} =>
       tail[p].ptr # Null
  /\ pc[p] \in {"pop_next", "pop_count", "pop_ptr"} /\ tail[p].ptr # head[p].ptr =>
       queueTail.ptr # head[p].ptr
  /\ pc[p] \in {"pop_count", "pop_ptr"} =>
       \/ next[p].ptr = Null /\ tail[p].ptr = head[p].ptr /\ 1 \in seen[p]
       \/ next[p].ptr # Null /\ nextOf[head[p].ptr].ptr = next[p].ptr
  /\ pc[p] \in {"pop_help", "pop_value", "pop_swing"} =>
       next[p].ptr # Null /\ nextOf[head[p].ptr].ptr = next[p].ptr
  /\ pc[p] = "pop_help" => tail[p].ptr = head[p].ptr
  /\ pc[p] \in {"pop_value", "pop_swing"} => queueTail.ptr # head[p].ptr
  /\ pc[p] = "pop_swing" /\ head[p].ptr = queueHead.ptr => obj[p] = valueOf[next[p].ptr]
  /\ pc[p] = "empty_next" => head[p].ptr = queueHead.ptr \/ 0 \in seen[p]

Local(p) == Owned(p) /\ Loaded(p) /\ Pushing(p) /\ Popping(p)

IInv ==
  /\ TypeOK
  /\ ChainIsInMemory /\ TailIsNearEnd /\ TailIsSwung /\ Accounted
  /\ \A p \in Threads : Local(p)

(* What the types of the steps, and their being steps of Fifo, rest on.    *)
Ready(p) ==
  /\ pc[p] # "idle" => calls[p] \in 1..MaxCalls
  /\ pc[p] \in Unlinked => node[p] \in Nodes /\ ~InList(node[p])
  /\ pc[p] \in Unlinked \ {"push_init"} => valueOf[node[p]] = Item(p, calls[p])
  /\ pc[p] # "push_astray"
  /\ pc[p] = "push_next" => tail[p].ptr # Null
  /\ pc[p] = "push_link" /\ nextOf[tail[p].ptr] = next[p] => tail[p].ptr = Last
  /\ pc[p] = "pop_next" => head[p].ptr # Null
  /\ pc[p] = "pop_ptr" /\ next[p].ptr = Null => 1 \in seen[p]
  /\ pc[p] = "pop_swing" /\ queueHead = head[p] => Len(chain) > 1 /\ obj[p] = valueOf[chain[2]]
  /\ pc[p] = "pop_free" => obj[p] \in Items
  /\ pc[p] = "empty_next" => (IF nextOf[head[p].ptr].ptr = Null THEN 1 ELSE 0) \in seen[p]

CoreInv ==
  /\ TypeOK /\ ChainIsInMemory
  /\ \A i \in 2..Len(chain) : valueOf[chain[i]] \in Items
  /\ \A p \in Threads : Ready(p)
------------------------------------------------------------------------------
(* The values of things.                                                   *)

LEMMA Naming == ~(Null \in Nodes) /\ Nodes \subseteq Nat /\ Threads \subseteq Nat
BY QueueAssumption DEF Null, Threads

LEMMA SwungType ==
  ASSUME NEW to \in Nodes \cup {Null}, NEW from \in NodePointer
  PROVE  Swung(to, from) \in NodePointer /\ Swung(to, from).ptr = to
<1>1. from.count + 1 \in Nat /\ CountRange \in Nat \ {0}
  BY QueueAssumption DEF NodePointer
<1>2. (from.count + 1) % CountRange \in 0..(CountRange - 1)
  BY <1>1
<1>. QED BY <1>2 DEF Swung, NodePointer

LEMMA NoPointerType == NoPointer \in NodePointer /\ NoPointer.ptr = Null
BY QueueAssumption DEF NoPointer, NodePointer

LEMMA OneIsLast == \A n \in Nat \ {0} : n \notin 2..n => n = 1
OBVIOUS

LEMMA ItemType ==
  ASSUME NEW p \in 0..NumThreads, NEW n \in 1..(MaxCalls + MaxFilled)
  PROVE  Item(p, n) \in Items
BY DEF Items

LEMMA ItemsAreNotNull == \A x \in Items : x # Null /\ x \in Nat
<1>. SUFFICES ASSUME NEW p \in 0..NumThreads, NEW n \in 1..(MaxCalls + MaxFilled)
              PROVE  Item(p, n) # Null /\ Item(p, n) \in Nat
  BY DEF Items
<1>1. NumThreads \in Nat /\ MaxCalls \in Nat /\ MaxFilled \in Nat
  BY QueueAssumption
<1>2. n \in Nat /\ n >= 1 /\ p \in Nat
  BY <1>1
<1>3. n * (NumThreads + 1) = n * NumThreads + n /\ n * NumThreads \in Nat
  BY <1>1, <1>2
<1>. QED BY <1>2, <1>3 DEF Item, Null

(* The list is never empty.                                                *)
LEMMA Chained ==
  ASSUME TypeOK
  PROVE  /\ chain \in Seq(Nodes) /\ Len(chain) \in Nat \ {0} /\ DOMAIN chain = 1..Len(chain)
         /\ \A i \in 1..Len(chain) : chain[i] \in Nodes
         /\ Last \in Nodes /\ Last # Null
<1>1. chain \in Seq(Nodes) /\ Len(chain) \in Nat \ {0} /\ DOMAIN chain = 1..Len(chain)
  BY EmptySeq, LenProperties DEF TypeOK
<1>2. \A i \in 1..Len(chain) : chain[i] \in Nodes
  BY <1>1, ElementOfSeq
<1>. QED BY <1>1, <1>2, Naming DEF Last

LEMMA Types ==
  ASSUME TypeOK
  PROVE  /\ queueHead.ptr \in Nodes \cup {Null} /\ queueTail.ptr \in Nodes \cup {Null}
         /\ \A m \in Nodes : nextOf[m] \in NodePointer /\ nextOf[m].ptr \in Nodes \cup {Null}
         /\ \A p \in Threads : /\ head[p].ptr \in Nodes \cup {Null}
                               /\ tail[p].ptr \in Nodes \cup {Null}
                               /\ next[p].ptr \in Nodes \cup {Null}
                               /\ node[p] \in Nodes \cup {Null}
BY DEF TypeOK, NodePointer

(* Only the last node of the list has no successor, and the successors of  *)
(* the others are those in the list.                                       *)
LEMMA Successors ==
  ASSUME TypeOK, ChainIsInMemory
  PROVE  /\ \A m : InList(m) /\ nextOf[m].ptr = Null => m = Last
         /\ InList(Last) /\ InList(queueHead.ptr)
         /\ Len(chain) = 1 => queueHead.ptr = Last
         /\ Len(chain) > 1 => nextOf[queueHead.ptr].ptr = chain[2] /\ chain[2] # Null
         /\ \A i \in 2..Len(chain) : chain[i] # queueHead.ptr
         /\ TailIsNearEnd => InList(queueTail.ptr)
         /\ TailIsNearEnd /\ queueTail.ptr # Last =>
              nextOf[queueTail.ptr].ptr = Last /\ Len(chain) > 1
<1>1. /\ Len(chain) \in Nat \ {0} /\ DOMAIN chain = 1..Len(chain)
      /\ \A i \in 1..Len(chain) : chain[i] # Null
  BY Chained, Naming
<1>2. /\ \A i \in 1..(Len(chain) - 1) : nextOf[chain[i]].ptr = chain[i + 1]
      /\ \A i, j \in 1..Len(chain) : chain[i] = chain[j] => i = j
      /\ chain[1] = queueHead.ptr
  BY <1>1 DEF ChainIsInMemory
<1>3. ASSUME NEW m, InList(m), nextOf[m].ptr = Null PROVE m = Last
  <2>1. PICK i \in 1..Len(chain) : chain[i] = m
    BY <1>1, <1>3 DEF InList
  <2>2. ~(i \in 1..(Len(chain) - 1)) 
    BY <1>1, <1>2, <1>3, <2>1
  <2>. QED BY <1>1, <2>1, <2>2 DEF Last
<1>4. Len(chain) \in DOMAIN chain /\ 1 \in DOMAIN chain
  BY <1>1
<1>5. InList(Last) /\ InList(queueHead.ptr)
  BY <1>2, <1>4 DEF InList, Last
<1>6. ASSUME Len(chain) > 1 PROVE nextOf[queueHead.ptr].ptr = chain[2] /\ chain[2] # Null
  BY <1>1, <1>2, <1>6
<1>7. ASSUME NEW i \in 2..Len(chain) PROVE chain[i] # queueHead.ptr
  BY <1>1, <1>2, <1>7
<1>8. ASSUME TailIsNearEnd, queueTail.ptr # Last
      PROVE  /\ nextOf[queueTail.ptr].ptr = Last /\ Len(chain) > 1
             /\ InList(queueTail.ptr)
  BY <1>1, <1>2, <1>8 DEF TailIsNearEnd, Last, InList
<1>. QED BY <1>2, <1>3, <1>5, <1>6, <1>7, <1>8 DEF Last

(* A next field that is NULL belongs to the last node, which a head that   *)
(* was loaded is only if it is the first as well; one that is not, was     *)
(* loaded when there were two nodes, unless the head has moved on.         *)
LEMMA EmptyAnswers ==
  ASSUME IInv, NEW p \in Threads, pc[p] = "empty_next"
  PROVE  (IF nextOf[head[p].ptr].ptr = Null THEN 1 ELSE 0) \in seen[p]
<1>1. /\ head[p].ptr # Null /\ Linked(head[p].ptr)
      /\ head[p].ptr = queueHead.ptr \/ 0 \in seen[p]
      /\ \A i \in 2..Len(chain) : head[p].ptr # chain[i]
      /\ Empty(chain) \in seen[p]
  BY DEF IInv, Local, Popping, Loaded, Owned
<1>2. Len(chain) \in Nat \ {0}
  BY Chained DEF IInv
<1>3. CASE nextOf[head[p].ptr].ptr = Null
  <2>1. head[p].ptr = chain[Len(chain)]
    BY <1>1, <1>3, Successors DEF IInv, Linked, Last
  <2>2. ~(Len(chain) \in 2..Len(chain))
    BY <1>1, <2>1
  <2>3. Len(chain) = 1
    BY <1>2, <2>2, OneIsLast, Zenon
  <2>. QED BY <1>1, <1>3, <2>3 DEF Empty
<1>4. CASE nextOf[head[p].ptr].ptr # Null
  <2>1. ASSUME head[p].ptr = queueHead.ptr PROVE Empty(chain) = 0
    <3>1. Len(chain) # 1
      BY <1>4, <2>1 DEF IInv, ChainIsInMemory, Last
    <3>. QED BY <3>1 DEF Empty
  <2>. QED BY <1>1, <1>4, <2>1
<1>. QED BY <1>3, <1>4

LEMMA CoreHolds == IInv => CoreInv
<1>. SUFFICES ASSUME IInv PROVE CoreInv
  OBVIOUS
<1>1. ASSUME NEW p \in Threads PROVE Ready(p)
  <2>1. ASSUME pc[p] = "push_link", nextOf[tail[p].ptr] = next[p] PROVE tail[p].ptr = Last
    BY <2>1, Successors DEF IInv, Local, Pushing, Loaded, Linked
  <2>2. ASSUME pc[p] = "pop_swing", queueHead = head[p]
        PROVE  Len(chain) > 1 /\ obj[p] = valueOf[chain[2]]
    <3>1. /\ next[p].ptr # Null /\ nextOf[queueHead.ptr].ptr = next[p].ptr
          /\ obj[p] = valueOf[next[p].ptr]
      BY <2>2 DEF IInv, Local, Popping
    <3>2. Len(chain) # 1
      BY <3>1, Successors DEF IInv, ChainIsInMemory
    <3>3. Len(chain) > 1
      BY <3>2, Chained DEF IInv
    <3>. QED BY <3>1, <3>3, Successors DEF IInv
  <2>. QED BY <2>1, <2>2, EmptyAnswers DEF IInv, Local, Owned, Pushing, Popping, Ready, PopLabels, Unlinked
<1>. QED BY <1>1 DEF IInv, Accounted, CoreInv
------------------------------------------------------------------------------
(* What a step of one thread leaves to the others.                         *)

Alone(p) ==
  \A q \in Threads : q # p =>
    /\ pc'[q] = pc[q] /\ calls'[q] = calls[q]
    /\ head'[q] = head[q] /\ tail'[q] = tail[q] /\ next'[q] = next[q]
    /\ node'[q] = node[q] /\ obj'[q] = obj[q]

(* Nodes that others hold stay linked, linked nodes keep their values and  *)
(* successors; nodes of others stay as they are; only unlinked nodes come  *)
(* into the list, and nodes leave it at the front; the tail moves to the   *)
(* last node only.                                                         *)
Onward(p) ==
  /\ \A m \in Nodes : Linked(m) => Linked(m)' \/ \A q \in Threads : q # p => ~Holds(q, m)
  /\ \A m \in Nodes : Linked(m) => /\ valueOf'[m] = valueOf[m]
                                   /\ nextOf[m].ptr # Null => nextOf'[m].ptr = nextOf[m].ptr
  /\ \A m \in Nodes : Linked(m) /\ ~InList(m) => ~InList(m)'
  /\ \A q \in Threads, m \in Nodes : q # p /\ Owns(q, m) /\ memory[m] = "allocated" =>
       /\ memory'[m] = "allocated"
       /\ ~InList(m) => ~InList(m)' /\ valueOf'[m] = valueOf[m] /\ nextOf'[m] = nextOf[m]
  /\ Last' # Null /\ \A m \in Nodes : Linked(m) /\ m = Last' => m = Last
  /\ \/ queueTail' = queueTail
     \/ queueTail.ptr # Last /\ queueTail'.ptr = Last /\ Len(chain) > 1
  /\ \/ queueHead' = queueHead
     \/ Len(chain) > 1 /\ queueHead'.ptr = chain[2]
  /\ \A i \in 2..Len(chain)' : chain'[i] \in Nodes
  /\ \A i \in 2..Len(chain)' : ~Linked(chain'[i]) \/ \E j \in 2..Len(chain) : chain'[i] = chain[j]
  /\ \A q \in Threads : q # p /\ pc[q] # "idle" =>
       seen[q] \subseteq seen'[q] /\ Empty(chain)' \in seen'[q]

LEMMA OthersOwn ==
  ASSUME IInv, NEW p \in Threads, Alone(p), Onward(p), NEW q \in Threads, q # p
  PROVE  Owned(q)'
<1>1. /\ pc'[q] = pc[q] /\ calls'[q] = calls[q] /\ head'[q] = head[q]
      /\ node'[q] = node[q] /\ obj'[q] = obj[q] /\ Owned(q)
  BY DEF Alone, IInv, Local
<1>2. ASSUME pc[q] \in Unlinked
      PROVE  /\ node[q] \in Nodes /\ memory'[node[q]] = "allocated" /\ ~InList(node[q])'
             /\ pc[q] # "push_init" =>
                  nextOf'[node[q]] = NoPointer /\ valueOf'[node[q]] = Item(q, calls[q])
  <2>1. Owns(q, node[q]) /\ node[q] \in Nodes /\ memory[node[q]] = "allocated" /\ ~InList(node[q])
    BY <1>1, <1>2 DEF Owns, Owned
  <2>2. PICK m \in Nodes : m = node[q]
    BY <2>1
  <2>3. memory'[m] = "allocated" /\ ~InList(m)' /\ valueOf'[m] = valueOf[m] /\ nextOf'[m] = nextOf[m]
    BY <2>1, <2>2 DEF Onward
  <2>. QED BY <1>1, <1>2, <2>1, <2>2, <2>3 DEF Owned, InList
<1>3. ASSUME pc[q] = "pop_free"
      PROVE  /\ memory'[head[q].ptr] = "allocated" /\ ~InList(head[q].ptr)'
             /\ nextOf'[head[q].ptr].ptr # Null
  <2>1. /\ Owns(q, head[q].ptr) /\ memory[head[q].ptr] = "allocated"
        /\ ~InList(head[q].ptr) /\ nextOf[head[q].ptr].ptr # Null
    BY <1>1, <1>3 DEF Owns, Owned
  <2>2. PICK m \in Nodes : m = head[q].ptr
    BY <1>3, Types DEF IInv, Local, Popping, PopLabels
  <2>3. memory'[m] = "allocated" /\ ~InList(m)' /\ nextOf'[m] = nextOf[m]
    BY <2>1, <2>2 DEF Onward
  <2>. QED BY <1>1, <2>1, <2>2, <2>3 DEF InList
<1>4. ASSUME pc[q] # "idle" PROVE calls[q] \in 1..MaxCalls /\ Empty(chain)' \in seen'[q]
  BY <1>1, <1>4 DEF Onward, Owned
<1>5. (pc'[q] \in Unlinked) <=> (pc[q] \in Unlinked)
  BY <1>1
<1>. QED BY <1>1, <1>2, <1>3, <1>4, <1>5 DEF Owned

LEMMA OthersLoaded ==
  ASSUME IInv, NEW p \in Threads, Alone(p), Onward(p), NEW q \in Threads, q # p
  PROVE  Loaded(q)'
<1>1. head'[q] = head[q] /\ tail'[q] = tail[q] /\ next'[q] = next[q] /\ Loaded(q)
  BY DEF Alone, IInv, Local
<1>2. /\ head[q].ptr \in Nodes \cup {Null} /\ tail[q].ptr \in Nodes \cup {Null}
      /\ Last # Null
  BY Types, Chained DEF IInv
<1>3. /\ tail[q].ptr # Null => Linked(tail[q].ptr)'
      /\ head[q].ptr # Null => Linked(head[q].ptr)'
  <2>1. ASSUME NEW m \in Nodes, Holds(q, m), Linked(m) PROVE Linked(m)'
    BY <2>1 DEF Onward
  <2>2. PICK t \in Nodes \cup {Null}, h \in Nodes \cup {Null} : t = tail[q].ptr /\ h = head[q].ptr
    BY <1>2
  <2>3. (t # Null => Linked(t)') /\ (h # Null => Linked(h)')
    BY <1>1, <2>1, <2>2 DEF Loaded, Holds
  <2>4. UNCHANGED <<tail[q], head[q]>>
    BY <1>1
  <2>. QED BY <2>2, <2>3, <2>4 DEF Linked, InList, Making
<1>4. ASSUME tail[q].ptr = Last' PROVE queueTail'.ptr = Last'
  <2>1. tail[q].ptr = Last /\ queueTail.ptr = Last
    BY <1>1, <1>2, <1>4 DEF Onward, Loaded
  <2>. QED BY <1>4, <2>1 DEF Onward
<1>5. ASSUME tail[q].ptr = queueTail'.ptr PROVE tail[q] = queueTail'
  <2>1. CASE queueTail' = queueTail
    BY <1>1, <1>5, <2>1 DEF Loaded
  <2>2. CASE queueTail.ptr # Last /\ queueTail'.ptr = Last
    BY <1>1, <1>5, <2>2 DEF Loaded
  <2>. QED BY <2>1, <2>2 DEF Onward
<1>6. ASSUME NEW i \in 2..Len(chain)' PROVE head[q].ptr # chain'[i]
  <2>1. CASE ~Linked(chain'[i]) /\ chain'[i] # Null
    BY <1>1, <2>1 DEF Loaded
  <2>2. CASE \E j \in 2..Len(chain) : chain'[i] = chain[j]
    BY <1>1, <2>2 DEF Loaded
  <2>3. chain'[i] # Null
    BY Naming DEF Onward
  <2>. QED BY <2>1, <2>2, <2>3 DEF Onward
<1>7. ASSUME head[q].ptr = queueHead'.ptr PROVE head[q] = queueHead'
  <2>1. Len(chain) > 1 => 2 \in 2..Len(chain)
    BY Chained DEF IInv
  <2>. QED BY <1>1, <1>7, <2>1 DEF Onward, Loaded
<1>. QED BY <1>1, <1>3, <1>4, <1>5, <1>6, <1>7 DEF Loaded

LEMMA OthersPush ==
  ASSUME IInv, NEW p \in Threads, Alone(p), Onward(p), NEW q \in Threads, q # p
  PROVE  Pushing(q)'
<1>1. /\ pc'[q] = pc[q] /\ tail'[q] = tail[q] /\ next'[q] = next[q] /\ node'[q] = node[q]
      /\ Pushing(q)
  BY DEF Alone, IInv, Local
<1>2. \A x : x # Null /\ tail[q].ptr # Null /\ nextOf[tail[q].ptr].ptr = x => nextOf'[tail[q].ptr].ptr = x
  BY Types DEF IInv, Local, Loaded, Onward
<1>. QED BY <1>1, <1>2 DEF Pushing

LEMMA OthersPop ==
  ASSUME IInv, NEW p \in Threads, Alone(p), Onward(p), NEW q \in Threads, q # p
  PROVE  Popping(q)'
<1>1. /\ pc'[q] = pc[q] /\ head'[q] = head[q] /\ tail'[q] = tail[q] /\ next'[q] = next[q]
      /\ obj'[q] = obj[q] /\ Popping(q) /\ Loaded(q) /\ Owned(q)
  BY DEF Alone, IInv, Local
<1>2. \A x : x # Null /\ head[q].ptr # Null /\ nextOf[head[q].ptr].ptr = x => nextOf'[head[q].ptr].ptr = x
  BY <1>1, Types DEF IInv, Loaded, Onward
<1>3. ASSUME pc[q] = "pop_swing", head[q].ptr = queueHead'.ptr PROVE obj[q] = valueOf'[next[q].ptr]
  <2>1. Len(chain) > 1 => 2 \in 2..Len(chain) /\ 2 \in DOMAIN chain /\ chain[2] \in Nodes
    BY Chained DEF IInv
  <2>2. head[q].ptr = queueHead.ptr
    BY <1>1, <1>3, <2>1 DEF Onward, Loaded
  <2>3. /\ next[q].ptr # Null /\ nextOf[queueHead.ptr].ptr = next[q].ptr
        /\ obj[q] = valueOf[next[q].ptr]
    BY <1>1, <1>3, <2>2 DEF Popping
  <2>4. Len(chain) # 1
    BY <2>3, Successors DEF IInv, ChainIsInMemory
  <2>5. Len(chain) > 1
    BY <2>4, Chained DEF IInv
  <2>6. next[q].ptr = chain[2]
    BY <2>3, <2>5, Successors DEF IInv
  <2>7. Linked(chain[2])
    BY <2>1, <2>5 DEF Linked, InList
  <2>. QED BY <2>1, <2>3, <2>5, <2>6, <2>7 DEF Onward
<1>4. ASSUME queueTail.ptr # head[q].ptr PROVE queueTail'.ptr # head[q].ptr
  <2>1. Len(chain) > 1 => Last # head[q].ptr
    BY <1>1, Chained DEF IInv, Loaded, Last
  <2>. QED BY <1>4, <2>1 DEF Onward
<1>5. pc[q] # "idle" => seen[q] \subseteq seen'[q]
  BY DEF Onward
<1>6. ASSUME pc[q] = "empty_next" PROVE head[q].ptr = queueHead'.ptr \/ 0 \in seen'[q]
  <2>1. head[q].ptr = queueHead.ptr \/ 0 \in seen[q]
    BY <1>1, <1>6 DEF Popping
  <2>2. Len(chain) > 1 => 0 \in seen[q]
    <3>1. Empty(chain) \in seen[q]
      BY <1>1, <1>6 DEF Owned
    <3>. QED BY <3>1, Chained DEF IInv, Empty
  <2>3. queueHead' = queueHead \/ Len(chain) > 1
    BY DEF Onward
  <2>. QED BY <1>5, <1>6, <2>1, <2>2, <2>3
<1>7. pc[q] \in {"pop_count", "pop_ptr"} =>
        \/ next[q].ptr = Null /\ tail[q].ptr = head[q].ptr /\ 1 \in seen'[q]
        \/ next[q].ptr # Null /\ nextOf'[head[q].ptr].ptr = next[q].ptr
  BY <1>1, <1>2, <1>5 DEF Popping, PopLabels
<1>8. pc[q] \in {"pop_help", "pop_value", "pop_swing"} =>
        next[q].ptr # Null /\ nextOf'[head[q].ptr].ptr = next[q].ptr
  BY <1>1, <1>2 DEF Popping, PopLabels
<1>. QED BY <1>1, <1>3, <1>4, <1>6, <1>7, <1>8 DEF Popping

LEMMA OthersKeep ==
  ASSUME IInv, NEW p \in Threads, Alone(p), Onward(p)
  PROVE  \A q \in Threads : q # p => Local(q)'
BY OthersOwn, OthersLoaded, OthersPush, OthersPop DEF Local
------------------------------------------------------------------------------
(* Every step keeps the types.                                             *)

LEMMA Busy ==
  ASSUME IInv, NEW p \in Threads, Step(p)
  PROVE  ~destroyed
<1>1. CASE pc[p] # "idle"
  BY <1>1 DEF IInv, Accounted
<1>2. CASE pc[p] = "idle"
  BY <1>2 DEF Step, Push, Pop, IsEmpty, StartPush, StartPop, StartIsEmpty, Begin, At,
     PushInit, PushLoadTail, PushLoadNext, PushCheckCount, PushCheckPtr, PushLink, PushHelp,
     PushSwing, PopLoadHead, PopLoadTail, PopLoadNext, PopCheckCount, PopCheckPtr, PopChanged,
     PopNull, PopHelp, PopLoadValue, PopSwing, PopFree, EmptyLoadHead, EmptyLoadNext
<1>. QED BY <1>1, <1>2

LEMMA BeginTypes ==
  ASSUME TypeOK, NEW p \in Threads, NEW op, NEW label, Begin(p, op, label),
         label \in PushLabels \cup PopLabels \cup EmptyLabels
  PROVE  /\ pc' \in [Threads -> {"idle"} \cup PushLabels \cup PopLabels \cup EmptyLabels]
         /\ calls' \in [Threads -> 0..MaxCalls] /\ seen' \in [Threads -> SUBSET {0, 1}]
         /\ UNCHANGED <<destroyed, use, chain>>
<1>1. MaxCalls \in Nat
  BY QueueAssumption
<1>2. calls[p] + 1 \in 0..MaxCalls
  BY <1>1 DEF Begin, TypeOK
<1>3. Empty(chain) \in {0, 1}
  BY DEF Empty
<1>. QED BY <1>2, <1>3 DEF Begin, Goto, TypeOK

LEMMA ReturnTypes ==
  ASSUME TypeOK, NEW p \in Threads, NEW x \in Items \cup {Null, 1}, Return(p, x),
         queueHead' \in NodePointer, queueTail' \in NodePointer,
         memory' \in [Nodes -> {"unused", "allocated", "freed"}], UNCHANGED <<nextOf, valueOf>>
  PROVE  TypeOK'
BY NoPointerType DEF Return, Goto, TypeOK

LEMMA RetryTypes ==
  ASSUME TypeOK, NEW p \in Threads, NEW label \in PushLabels \cup PopLabels, Retry(p, label),
         queueHead' \in NodePointer, queueTail' \in NodePointer,
         UNCHANGED <<nextOf, valueOf, memory, Outside, node>>
  PROVE  TypeOK'
BY NoPointerType DEF Retry, Goto, TypeOK, Outside, history

LEMMA NotEmpty == \A s : Len(s) > 0 => s # <<>>
BY EmptySeq

LEMMA BecomesTypes ==
  ASSUME TypeOK, NEW nodes, ChainBecomes(nodes)
  PROVE  seen' \in [Threads -> SUBSET {0, 1}]
<1>1. Empty(nodes) \in {0, 1}
  BY DEF Empty
<1>. QED BY <1>1 DEF ChainBecomes, TypeOK

LEMMA PushTypes ==
  ASSUME CoreInv, NEW p \in Threads, Push(p)
  PROVE  TypeOK'
<1>. USE DEF At, Goto, shared, local, Outside, history
<1>t. TypeOK
  BY DEF CoreInv
<1>1. CASE StartPush(p)
  <2>1. PICK m \in Nodes : /\ node' = [node EXCEPT ![p] = m]
                           /\ memory' = [memory EXCEPT ![m] = "allocated"]
    BY <1>1 DEF StartPush, Available
  <2>2. Begin(p, "push", "push_init") /\ "push_init" \in PushLabels
    BY <1>1 DEF StartPush, PushLabels
  <2>. QED BY <1>t, <1>1, <2>1, <2>2, BeginTypes DEF StartPush, TypeOK
<1>2. CASE PushInit(p)
  <2>1. node[p] \in Nodes /\ calls[p] \in 1..MaxCalls
    BY <1>2 DEF PushInit, CoreInv, Ready, Unlinked
  <2>2. Item(p, calls[p]) \in Items
    BY <2>1, ItemType, QueueAssumption DEF Threads
  <2>. QED BY <1>t, <1>2, <2>1, <2>2, NoPointerType DEF PushInit, TypeOK, PushLabels
<1>3. CASE PushLoadTail(p)
  BY <1>t, <1>3 DEF PushLoadTail, TypeOK, PushLabels
<1>4. CASE PushLoadNext(p)
  <2>1. nextOf[tail[p].ptr] \in NodePointer
    BY <1>4, <1>t, Types DEF PushLoadNext, CoreInv, Ready
  <2>. QED BY <1>t, <1>4, <2>1 DEF PushLoadNext, TypeOK, PushLabels
<1>5. CASE PushCheckCount(p)
  <2>1. CASE tail[p].count = queueTail.count
    BY <1>t, <1>5, <2>1 DEF PushCheckCount, TypeOK, PushLabels
  <2>2. CASE tail[p].count # queueTail.count
    BY <1>t, <1>5, <2>2, RetryTypes DEF PushCheckCount, TypeOK, PushLabels
  <2>. QED BY <2>1, <2>2
<1>6. CASE PushCheckPtr(p)
  <2>1. CASE tail[p].ptr = queueTail.ptr
    BY <1>t, <1>6, <2>1 DEF PushCheckPtr, TypeOK, PushLabels
  <2>2. CASE tail[p].ptr # queueTail.ptr
    BY <1>t, <1>6, <2>2, RetryTypes DEF PushCheckPtr, TypeOK, PushLabels
  <2>. QED BY <2>1, <2>2
<1>7. CASE PushLink(p)
  <2>1. CASE nextOf[tail[p].ptr] = next[p]
    <3>1. Swung(node[p], next[p]) \in NodePointer
      BY <1>t, SwungType DEF TypeOK
    <3>2. nextOf' \in [Nodes -> NodePointer]
      BY <1>t, <1>7, <2>1, <3>1 DEF PushLink, TypeOK
    <3>3. node[p] \in Nodes
      BY <1>7 DEF PushLink, CoreInv, Ready, Unlinked
    <3>4. /\ Append(chain, node[p]) \in Seq(Nodes)
          /\ Len(Append(chain, node[p])) = Len(chain) + 1 /\ Len(chain) \in Nat
      BY <1>t, <3>3, AppendProperties, Chained
    <3>5. Append(chain, node[p]) # <<>>
      BY <3>4, NotEmpty
    <3>6. CASE tail[p].ptr = Last
      <4>1. seen' \in [Threads -> SUBSET {0, 1}]
        BY <1>t, <1>7, <2>1, <3>6, BecomesTypes DEF PushLink
      <4>. QED BY <1>t, <1>7, <2>1, <3>2, <3>4, <3>5, <3>6, <4>1 DEF PushLink, ChainBecomes, TypeOK, PushLabels
    <3>7. CASE tail[p].ptr # Last
      BY <1>t, <1>7, <2>1, <3>2, <3>7 DEF PushLink, TypeOK, PushLabels
    <3>. QED BY <3>6, <3>7
  <2>2. CASE nextOf[tail[p].ptr] # next[p]
    BY <1>t, <1>7, <2>2, RetryTypes DEF PushLink, TypeOK, PushLabels
  <2>. QED BY <2>1, <2>2
<1>8. CASE PushHelp(p)
  <2>1. queueTail' \in NodePointer
    BY <1>t, <1>8, SwungType, Types DEF PushHelp, Exchanged, TypeOK
  <2>. QED BY <1>t, <1>8, <2>1, RetryTypes DEF PushHelp, TypeOK, PushLabels
<1>9. CASE PushSwing(p)
  <2>1. queueTail' \in NodePointer
    BY <1>t, <1>9, SwungType DEF PushSwing, Exchanged, TypeOK
  <2>. QED BY <1>t, <1>9, <2>1, ReturnTypes DEF PushSwing, TypeOK
<1>. QED BY <1>1, <1>2, <1>3, <1>4, <1>5, <1>6, <1>7, <1>8, <1>9 DEF Push

LEMMA PopTypes ==
  ASSUME CoreInv, NEW p \in Threads, Pop(p)
  PROVE  TypeOK'
<1>. USE DEF At, Goto, shared, local, Outside, history
<1>t. TypeOK
  BY DEF CoreInv
<1>1. CASE StartPop(p)
  <2>1. Begin(p, "pop", "pop_head") /\ "pop_head" \in PopLabels
    BY <1>1 DEF StartPop, PopLabels
  <2>. QED BY <1>t, <1>1, <2>1, BeginTypes DEF StartPop, TypeOK
<1>2. CASE PopLoadHead(p) \/ PopLoadTail(p)
  BY <1>t, <1>2 DEF PopLoadHead, PopLoadTail, TypeOK, PopLabels
<1>3. CASE PopLoadNext(p)
  <2>1. nextOf[head[p].ptr] \in NodePointer
    BY <1>3, <1>t, Types DEF PopLoadNext, CoreInv, Ready
  <2>. QED BY <1>t, <1>3, <2>1 DEF PopLoadNext, TypeOK, PopLabels
<1>4. CASE PopCheckCount(p)
  <2>1. CASE head[p].count = queueHead.count
    BY <1>t, <1>4, <2>1 DEF PopCheckCount, TypeOK, PopLabels
  <2>2. CASE head[p].count # queueHead.count
    BY <1>t, <1>4, <2>2, RetryTypes DEF PopCheckCount, TypeOK, PopLabels
  <2>. QED BY <2>1, <2>2
<1>5. CASE PopCheckPtr(p)
  BY <1>t, <1>5 DEF PopCheckPtr, TypeOK, PopLabels
<1>6. CASE PopChanged(p)
  BY <1>t, <1>6, RetryTypes DEF PopChanged, TypeOK, PopLabels
<1>7. CASE PopNull(p)
  BY <1>t, <1>7, ReturnTypes DEF PopNull, TypeOK
<1>8. CASE PopHelp(p)
  <2>1. queueTail' \in NodePointer
    BY <1>t, <1>8, SwungType, Types DEF PopHelp, Exchanged, TypeOK
  <2>. QED BY <1>t, <1>8, <2>1 DEF PopHelp, TypeOK, PopLabels
<1>9. CASE PopLoadValue(p)
  <2>1. valueOf[next[p].ptr] \in Items \cup {Null}
    BY <1>t, <1>9, Types DEF PopLoadValue, TypeOK
  <2>. QED BY <1>t, <1>9, <2>1 DEF PopLoadValue, TypeOK, PopLabels
<1>10. CASE PopSwing(p)
  <2>1. CASE queueHead = head[p]
    <3>1. Swung(next[p].ptr, head[p]) \in NodePointer
      BY <1>t, SwungType, Types DEF TypeOK
    <3>3. Len(chain) > 1
      BY <1>10, <2>1 DEF PopSwing, CoreInv, Ready
    <3>4. /\ Tail(chain) \in Seq(Nodes)
          /\ Len(Tail(chain)) = Len(chain) - 1 /\ Len(chain) \in Nat
      BY <1>t, HeadTailProperties, Chained DEF TypeOK
    <3>5. Tail(chain) # <<>>
      <4>1. Len(Tail(chain)) > 0
        BY <3>3, <3>4
      <4>. QED BY <4>1, NotEmpty, Zenon
    <3>6. seen' \in [Threads -> SUBSET {0, 1}]
      BY <1>t, <1>10, <2>1, BecomesTypes DEF PopSwing
    <3>. QED BY <1>t, <1>10, <2>1, <3>1, <3>4, <3>5, <3>6 DEF PopSwing, ChainBecomes, TypeOK, PopLabels
  <2>2. CASE queueHead # head[p]
    BY <1>t, <1>10, <2>2, RetryTypes DEF PopSwing, TypeOK, PopLabels
  <2>. QED BY <2>1, <2>2
<1>11. CASE PopFree(p)
  BY <1>t, <1>11, ReturnTypes DEF PopFree, TypeOK
<1>. QED BY <1>1, <1>2, <1>3, <1>4, <1>5, <1>6, <1>7, <1>8, <1>9, <1>10, <1>11 DEF Pop

LEMMA EmptyTypes ==
  ASSUME CoreInv, NEW p \in Threads, IsEmpty(p)
  PROVE  TypeOK'
<1>. USE DEF At, Goto, shared, local, Outside, history
<1>t. TypeOK
  BY DEF CoreInv
<1>1. CASE StartIsEmpty(p)
  <2>1. Begin(p, "is_empty", "empty_head") /\ "empty_head" \in EmptyLabels
    BY <1>1 DEF StartIsEmpty, EmptyLabels
  <2>. QED BY <1>t, <1>1, <2>1, BeginTypes DEF StartIsEmpty, TypeOK
<1>2. CASE EmptyLoadHead(p)
  BY <1>t, <1>2 DEF EmptyLoadHead, TypeOK, EmptyLabels
<1>3. CASE EmptyLoadNext(p)
  <2>1. PICK x \in {Null, 1} : Return(p, x)
    BY <1>3 DEF EmptyLoadNext, Null
  <2>. QED BY <1>t, <1>3, <2>1, ReturnTypes DEF EmptyLoadNext, TypeOK
<1>. QED BY <1>1, <1>2, <1>3 DEF IsEmpty
------------------------------------------------------------------------------
(* Steps that change nothing of the queue.                                 *)

Shared == ChainIsInMemory /\ TailIsNearEnd /\ TailIsSwung /\ Accounted

Silent(p) ==
  /\ UNCHANGED <<shared, destroyed, chain>>
  /\ \A q \in Threads : q # p => seen'[q] = seen[q]

LEMMA SameMaking ==
  ASSUME NEW p \in Threads, Alone(p),
         pc[p] \in Unlinked <=> pc'[p] \in Unlinked,
         pc[p] \in Unlinked => node'[p] = node[p]
  PROVE  \A m : Making(m)' <=> Making(m)
<1>1. \A q \in Threads : \A m : (pc'[q] \in Unlinked /\ node'[q] = m) <=> (pc[q] \in Unlinked /\ node[q] = m)
  BY DEF Alone
<1>. QED BY <1>1 DEF Making

(* What a thread loads is linked, and stays so.                            *)
LEMMA Points ==
  ASSUME NEW p \in Threads, \A m : Linked(m) => Linked(m)',
         tail'[p].ptr # Null => Linked(tail'[p].ptr),
         head'[p].ptr # Null => Linked(head'[p].ptr)
  PROVE  /\ tail'[p].ptr # Null => Linked(tail[p].ptr)'
         /\ head'[p].ptr # Null => Linked(head[p].ptr)'
<1>1. PICK t, h : t = tail'[p].ptr /\ h = head'[p].ptr
  OBVIOUS
<1>2. (t # Null => Linked(t)') /\ (h # Null => Linked(h)')
  BY <1>1
<1>. QED BY <1>1, <1>2 DEF Linked, InList, Making

LEMMA QuietKeeps ==
  ASSUME IInv, NEW p \in Threads, ~destroyed, Alone(p), Silent(p),
         pc[p] \notin {"push_swing", "pop_free"}, pc'[p] # "pop_free",
         pc[p] \in Unlinked <=> pc'[p] \in Unlinked,
         pc[p] \in Unlinked => node'[p] = node[p]
  PROVE  Shared' /\ Onward(p) /\ \A m : Linked(m)' <=> Linked(m)
<1>1. /\ chain' = chain /\ nextOf' = nextOf /\ valueOf' = valueOf /\ memory' = memory
      /\ queueHead' = queueHead /\ queueTail' = queueTail /\ ~destroyed'
  BY DEF Silent, shared
<1>2. \A q \in Threads : q # p => pc'[q] = pc[q] /\ head'[q] = head[q] /\ tail'[q] = tail[q]
                                  /\ node'[q] = node[q]
  BY DEF Alone
<1>3. Last' = Last /\ Last # Null /\ \A i \in 2..Len(chain) : chain[i] \in Nodes
  BY <1>1, Chained DEF IInv, Last
<1>4. \A m : InList(m)' <=> InList(m)
  BY <1>1 DEF InList
<1>5. \A m : Linked(m)' <=> Linked(m)
  BY <1>1, <1>4, SameMaking DEF Linked
<1>6. \A q \in Threads, m \in Nodes : Owns(q, m)' <=> Owns(q, m)
  <2>1. \A m : Owns(p, m)' <=> Owns(p, m)
    BY DEF Owns
  <2>2. ASSUME NEW q \in Threads, q # p, NEW m PROVE Owns(q, m)' <=> Owns(q, m)
    BY <1>2, <2>2 DEF Owns
  <2>. QED BY <2>1, <2>2
<1>7. ChainIsInMemory' /\ TailIsNearEnd'
  BY <1>1, <1>3 DEF IInv, ChainIsInMemory, TailIsNearEnd
<1>8. TailIsSwung'
  BY <1>1, <1>2, <1>3 DEF IInv, TailIsSwung
<1>9. Accounted'
  BY <1>1, <1>4, <1>5, <1>6 DEF IInv, Accounted
<1>10. Onward(p)
  <2>1. \A q \in Threads : q # p /\ pc[q] # "idle" => seen'[q] = seen[q] /\ Empty(chain) \in seen[q]
    BY DEF Silent, IInv, Local, Owned
  <2>2. \A i \in 2..Len(chain)' : chain'[i] \in Nodes /\ \E j \in 2..Len(chain) : chain'[i] = chain[j]
    BY <1>1, <1>3
  <2>3. Len(chain)' = Len(chain) /\ Empty(chain)' = Empty(chain)
    BY <1>1 DEF Empty
  <2>4. \A m \in Nodes : Linked(m) => Linked(m)' \/ \A q \in Threads : q # p => ~Holds(q, m)
    BY <1>5
  <2>5. \A q \in Threads, m \in Nodes : q # p /\ Owns(q, m) /\ memory[m] = "allocated" =>
          /\ memory'[m] = "allocated"
          /\ ~InList(m) => ~InList(m)' /\ valueOf'[m] = valueOf[m] /\ nextOf'[m] = nextOf[m]
    BY <1>1, <1>4
  <2>6. \A q \in Threads : q # p /\ pc[q] # "idle" =>
          seen[q] \subseteq seen'[q] /\ Empty(chain)' \in seen'[q]
    BY <2>1, <2>3
  <2>7. \A m \in Nodes : Linked(m) => /\ valueOf'[m] = valueOf[m]
                                      /\ nextOf[m].ptr # Null => nextOf'[m].ptr = nextOf[m].ptr
    BY <1>1
  <2>8. \A m \in Nodes : Linked(m) /\ ~InList(m) => ~InList(m)'
    BY <1>4
  <2>9. Last' # Null /\ \A m \in Nodes : Linked(m) /\ m = Last' => m = Last
    BY <1>3
  <2>10. \A i \in 2..Len(chain)' : chain'[i] \in Nodes
    BY <2>2
  <2>11. \A i \in 2..Len(chain)' : ~Linked(chain'[i]) \/ \E j \in 2..Len(chain) : chain'[i] = chain[j]
    BY <2>2
  <2>. QED BY <1>1, <2>4, <2>5, <2>6, <2>7, <2>8, <2>9, <2>10, <2>11, Zenon DEF Onward
<1>. QED BY <1>5, <1>7, <1>8, <1>9, <1>10 DEF Shared

(* The shared pointers are never NULL.                                     *)
LEMMA PointersAreSet ==
  ASSUME IInv
  PROVE  /\ queueHead.ptr \in Nodes /\ queueTail.ptr \in Nodes
         /\ queueHead.ptr # Null /\ queueTail.ptr # Null
         /\ Linked(queueHead.ptr) /\ Linked(queueTail.ptr)
<1>1. InList(queueHead.ptr) /\ InList(queueTail.ptr)
  BY Successors DEF IInv
<1>. QED BY <1>1, Chained, Naming DEF IInv, InList, Linked

(* A thread that goes round its loop, or returns, holds nothing it loaded. *)
LEMMA RetryKeeps ==
  ASSUME IInv, NEW p \in Threads, NEW label, Retry(p, label),
         \/ label = "push_tail" /\ pc[p] \in Unlinked \ {"push_init"}
         \/ label = "pop_head" /\ pc[p] # "idle",
         UNCHANGED <<queueHead, nextOf, valueOf, memory, node, calls, chain, seen>>,
         queueTail'.ptr # Null
  PROVE  Local(p)' /\ Alone(p)
<1>t. TypeOK /\ Last # Null /\ NoPointer.ptr = Null /\ queueHead.ptr # Null
  BY PointersAreSet, Chained, NoPointerType DEF IInv
<1>1. /\ pc'[p] = label /\ head'[p] = NoPointer /\ tail'[p] = NoPointer /\ next'[p] = NoPointer
  BY <1>t DEF Retry, Goto, TypeOK
<1>2. Alone(p)
  BY <1>t DEF Alone, Retry, Goto, TypeOK
<1>3. Last' = Last /\ Len(chain)' = Len(chain) /\ \A i \in 2..Len(chain) : chain'[i] # Null
  BY <1>t, Chained, Naming DEF Last
<1>4. Owned(p)'
  BY <1>1 DEF Owned, IInv, Local, Unlinked, Linked, InList, Empty
<1>5. Loaded(p)'
  BY <1>t, <1>1, <1>3 DEF Loaded
<1>6. Pushing(p)' /\ Popping(p)'
  BY <1>1 DEF Pushing, Popping, PopLabels
<1>. QED BY <1>2, <1>4, <1>5, <1>6 DEF Local

LEMMA ReturnKeeps ==
  ASSUME IInv, NEW p \in Threads, NEW x, Return(p, x),
         UNCHANGED queueHead, queueTail'.ptr # Null
  PROVE  Local(p)' /\ Alone(p) /\ pc'[p] = "idle"
<1>t. TypeOK /\ Last # Null /\ NoPointer.ptr = Null /\ queueHead.ptr # Null
  BY PointersAreSet, Chained, NoPointerType DEF IInv
<1>1. /\ pc'[p] = "idle" /\ head'[p] = NoPointer /\ tail'[p] = NoPointer /\ next'[p] = NoPointer
      /\ chain' = chain
  BY <1>t DEF Return, Goto, TypeOK
<1>2. Alone(p)
  BY <1>t DEF Alone, Return, Goto, TypeOK
<1>3. Last' = Last /\ Len(chain)' = Len(chain) /\ \A i \in 2..Len(chain) : chain'[i] # Null
  BY <1>t, <1>1, Chained, Naming DEF Last
<1>4. Owned(p)'
  BY <1>1 DEF Owned, Unlinked
<1>5. Loaded(p)'
  BY <1>t, <1>1, <1>3 DEF Loaded
<1>6. Pushing(p)' /\ Popping(p)'
  BY <1>t, <1>1 DEF Pushing, Popping, PopLabels
<1>. QED BY <1>1, <1>2, <1>4, <1>5, <1>6 DEF Local
Kept(p) == Shared' /\ Onward(p) /\ Alone(p) /\ Local(p)'

LEMMA PushReads ==
  ASSUME IInv, NEW p \in Threads, ~destroyed,
         \/ PushLoadTail(p) \/ PushLoadNext(p) \/ PushCheckCount(p) \/ PushCheckPtr(p)
         \/ PushLink(p) /\ nextOf[tail[p].ptr] # next[p]
  PROVE  Kept(p)
<1>. USE DEF At, Goto, shared, local, Outside, history
<1>t. /\ TypeOK /\ Local(p)
      /\ pc \in [Threads -> {"idle"} \cup PushLabels \cup PopLabels \cup EmptyLabels]
      /\ tail \in [Threads -> NodePointer] /\ next \in [Threads -> NodePointer]
  BY DEF IInv, TypeOK
<1>n. queueTail.ptr # Null /\ Linked(queueTail.ptr)
  BY PointersAreSet
<1>1. CASE PushLoadTail(p)
  <2>1. /\ pc[p] = "push_tail" /\ pc'[p] = "push_next" /\ tail'[p] = queueTail
        /\ Alone(p) /\ Silent(p)
        /\ UNCHANGED <<shared, destroyed, calls, head, next, node, obj, chain, seen>>
    BY <1>t, <1>1 DEF PushLoadTail, Alone, Silent
  <2>2. Shared' /\ Onward(p) /\ \A m : Linked(m)' <=> Linked(m)
    BY <2>1, QuietKeeps DEF Unlinked
  <2>9. /\ tail'[p].ptr # Null => Linked(tail[p].ptr)'
        /\ head'[p].ptr # Null => Linked(head[p].ptr)'
    BY <1>t, <1>n, <2>1, <2>2, Points DEF Local, Loaded
  <2>3. Local(p)'
    BY <1>t, <1>n, <2>1, <2>9 DEF Local, Owned, Loaded, Pushing, Popping, Unlinked, PopLabels,
       InList, Last, Empty
  <2>. QED BY <2>1, <2>2, <2>3 DEF Kept
<1>2. CASE PushLoadNext(p)
  <2>1. /\ pc[p] = "push_next" /\ pc'[p] = "push_count" /\ next'[p] = nextOf[tail[p].ptr]
        /\ Alone(p) /\ Silent(p)
        /\ UNCHANGED <<shared, destroyed, calls, head, tail, node, obj, chain, seen>>
    BY <1>t, <1>2 DEF PushLoadNext, Alone, Silent
  <2>2. Shared' /\ Onward(p) /\ \A m : Linked(m)' <=> Linked(m)
    BY <2>1, QuietKeeps DEF Unlinked
  <2>9. /\ tail'[p].ptr # Null => Linked(tail[p].ptr)'
        /\ head'[p].ptr # Null => Linked(head[p].ptr)'
    BY <1>t, <1>n, <2>1, <2>2, Points DEF Local, Loaded
  <2>3. Local(p)'
    BY <1>t, <2>1, <2>9 DEF Local, Owned, Loaded, Pushing, Popping, Unlinked, PopLabels,
       InList, Last, Empty
  <2>. QED BY <2>1, <2>2, <2>3 DEF Kept
<1>3. ASSUME NEW label \in {"push_ptr", "push_link", "push_help"}, pc' = [pc EXCEPT ![p] = label],
             UNCHANGED <<shared, Outside, local>>,
             \/ pc[p] = "push_count" /\ label = "push_ptr"
             \/ pc[p] = "push_ptr" /\ label = (IF next[p].ptr = Null THEN "push_link" ELSE "push_help")
      PROVE  Kept(p)
  <2>1. pc'[p] = label /\ Alone(p) /\ Silent(p) /\ pc[p] \in {"push_count", "push_ptr"}
    BY <1>t, <1>3 DEF Alone, Silent
  <2>2. Shared' /\ Onward(p) /\ \A m : Linked(m)' <=> Linked(m)
    BY <2>1, QuietKeeps, <1>3 DEF Unlinked
  <2>9. /\ tail'[p].ptr # Null => Linked(tail[p].ptr)'
        /\ head'[p].ptr # Null => Linked(head[p].ptr)'
    BY <1>t, <1>n, <1>3, <2>1, <2>2, Points DEF Local, Loaded
  <2>3. Owned(p)' /\ Loaded(p)'
    BY <1>t, <1>3, <2>1, <2>9 DEF Local, Owned, Loaded, Unlinked, InList, Last, Empty
  <2>4. Pushing(p)' /\ Popping(p)'
    BY <1>t, <1>3, <2>1 DEF Local, Pushing, Popping, PopLabels
  <2>. QED BY <2>1, <2>2, <2>3, <2>4 DEF Kept, Local
<1>4. ASSUME Retry(p, "push_tail"), UNCHANGED <<shared, Outside, node>>,
             pc[p] \in {"push_count", "push_ptr", "push_link"}
      PROVE  Kept(p)
  <2>1. Local(p)' /\ Alone(p)
    BY <1>4, <1>n, RetryKeeps DEF Unlinked
  <2>2. pc'[p] = "push_tail" /\ Silent(p)
    BY <1>t, <1>4 DEF Retry, Silent
  <2>3. Shared' /\ Onward(p)
    BY <1>4, <2>1, <2>2, QuietKeeps DEF Unlinked
  <2>. QED BY <2>1, <2>3 DEF Kept
<1>5. CASE PushCheckCount(p)
  BY <1>3, <1>4, <1>5 DEF PushCheckCount
<1>6. CASE PushCheckPtr(p)
  BY <1>3, <1>4, <1>6 DEF PushCheckPtr
<1>7. CASE PushLink(p) /\ nextOf[tail[p].ptr] # next[p]
  BY <1>4, <1>7 DEF PushLink
<1>. QED BY <1>1, <1>2, <1>5, <1>6, <1>7

LEMMA PopReads ==
  ASSUME IInv, NEW p \in Threads, ~destroyed,
         \/ PopLoadHead(p) \/ PopLoadTail(p) \/ PopLoadNext(p) \/ PopCheckCount(p)
         \/ PopCheckPtr(p) \/ PopChanged(p) \/ PopNull(p) \/ PopLoadValue(p)
         \/ PopSwing(p) /\ queueHead # head[p]
  PROVE  Kept(p)
<1>. USE DEF At, Goto, shared, local, Outside, history
<1>t. /\ TypeOK /\ Local(p)
      /\ pc \in [Threads -> {"idle"} \cup PushLabels \cup PopLabels \cup EmptyLabels]
      /\ head \in [Threads -> NodePointer] /\ tail \in [Threads -> NodePointer]
      /\ next \in [Threads -> NodePointer] /\ obj \in [Threads -> Items \cup {Null}]
  BY DEF IInv, TypeOK
<1>n. /\ queueTail.ptr # Null /\ Linked(queueTail.ptr)
      /\ queueHead.ptr # Null /\ Linked(queueHead.ptr)
      /\ \A i \in 2..Len(chain) : chain[i] # queueHead.ptr
  BY PointersAreSet, Successors DEF IInv
<1>1. CASE PopLoadHead(p)
  <2>1. /\ pc[p] = "pop_head" /\ pc'[p] = "pop_tail" /\ head'[p] = queueHead
        /\ Alone(p) /\ Silent(p)
        /\ UNCHANGED <<shared, destroyed, calls, tail, next, node, obj, chain, seen>>
    BY <1>t, <1>1 DEF PopLoadHead, Alone, Silent
  <2>2. Shared' /\ Onward(p) /\ \A m : Linked(m)' <=> Linked(m)
    BY <2>1, QuietKeeps DEF Unlinked
  <2>9. /\ tail'[p].ptr # Null => Linked(tail[p].ptr)'
        /\ head'[p].ptr # Null => Linked(head[p].ptr)'
    BY <1>t, <1>n, <2>1, <2>2, Points DEF Local, Loaded
  <2>3. Local(p)'
    BY <1>t, <1>n, <2>1, <2>9 DEF Local, Owned, Loaded, Pushing, Popping, Unlinked, PopLabels,
       InList, Last, Empty
  <2>. QED BY <2>1, <2>2, <2>3 DEF Kept
<1>2. CASE PopLoadTail(p)
  <2>1. /\ pc[p] = "pop_tail" /\ pc'[p] = "pop_next" /\ tail'[p] = queueTail
        /\ Alone(p) /\ Silent(p)
        /\ UNCHANGED <<shared, destroyed, calls, head, next, node, obj, chain, seen>>
    BY <1>t, <1>2 DEF PopLoadTail, Alone, Silent
  <2>2. Shared' /\ Onward(p) /\ \A m : Linked(m)' <=> Linked(m)
    BY <2>1, QuietKeeps DEF Unlinked
  <2>9. /\ tail'[p].ptr # Null => Linked(tail[p].ptr)'
        /\ head'[p].ptr # Null => Linked(head[p].ptr)'
    BY <1>t, <1>n, <2>1, <2>2, Points DEF Local, Loaded
  <2>3. Local(p)'
    BY <1>t, <1>n, <2>1, <2>9 DEF Local, Owned, Loaded, Pushing, Popping, Unlinked, PopLabels,
       InList, Last, Empty
  <2>. QED BY <2>1, <2>2, <2>3 DEF Kept
<1>3. CASE PopLoadNext(p)
  <2>1. /\ pc[p] = "pop_next" /\ pc'[p] = "pop_count" /\ next'[p] = nextOf[head[p].ptr]
        /\ Alone(p) /\ Silent(p)
        /\ UNCHANGED <<shared, destroyed, calls, head, tail, node, obj, chain, seen>>
    BY <1>t, <1>3 DEF PopLoadNext, Alone, Silent
  <2>2. Shared' /\ Onward(p) /\ \A m : Linked(m)' <=> Linked(m)
    BY <2>1, QuietKeeps DEF Unlinked
  <2>9. /\ tail'[p].ptr # Null => Linked(tail[p].ptr)'
        /\ head'[p].ptr # Null => Linked(head[p].ptr)'
    BY <1>t, <1>n, <2>1, <2>2, Points DEF Local, Loaded
  <2>3. head[p].ptr \in Nodes /\ Linked(head[p].ptr)
    BY <1>t, <2>1, Types DEF Local, Popping, PopLabels, Loaded
  <2>5. ASSUME next'[p].ptr = Null PROVE tail[p].ptr = head[p].ptr /\ 1 \in seen[p]
    <3>1. head[p].ptr = Last
      BY <2>1, <2>3, <2>5, Successors DEF IInv, Linked
    <3>2. Len(chain) = 1
      BY <1>t, <3>1, Chained DEF Local, Loaded, Last
    <3>3. queueTail.ptr = head[p].ptr
      BY <3>1, <3>2 DEF IInv, TailIsNearEnd
    <3>. QED BY <1>t, <2>1, <3>2, <3>3 DEF Local, Owned, Popping, Empty
  <2>6. Owned(p)' /\ Loaded(p)' /\ Pushing(p)'
    BY <1>t, <2>1, <2>9 DEF Local, Owned, Loaded, Pushing, Unlinked, InList, Last, Empty
  <2>7. Popping(p)'
    BY <1>t, <2>1, <2>5 DEF Local, Popping, PopLabels
  <2>. QED BY <2>1, <2>2, <2>6, <2>7 DEF Kept, Local
<1>4. CASE PopLoadValue(p)
  <2>1. /\ pc[p] = "pop_value" /\ pc'[p] = "pop_swing" /\ obj'[p] = valueOf[next[p].ptr]
        /\ Alone(p) /\ Silent(p)
        /\ UNCHANGED <<shared, destroyed, calls, head, tail, next, node, chain, seen>>
    BY <1>t, <1>4 DEF PopLoadValue, Alone, Silent
  <2>2. Shared' /\ Onward(p) /\ \A m : Linked(m)' <=> Linked(m)
    BY <2>1, QuietKeeps DEF Unlinked
  <2>9. /\ tail'[p].ptr # Null => Linked(tail[p].ptr)'
        /\ head'[p].ptr # Null => Linked(head[p].ptr)'
    BY <1>t, <1>n, <2>1, <2>2, Points DEF Local, Loaded
  <2>3. Local(p)'
    BY <1>t, <2>1, <2>9 DEF Local, Owned, Loaded, Pushing, Popping, Unlinked, PopLabels,
       InList, Last, Empty
  <2>. QED BY <2>1, <2>2, <2>3 DEF Kept
<1>5. CASE PopCheckPtr(p)
  <2>1. /\ pc[p] = "pop_ptr" /\ Alone(p) /\ Silent(p)
        /\ \/ pc'[p] = "pop_value" /\ head[p].ptr # tail[p].ptr
           \/ pc'[p] = "pop_help" /\ head[p].ptr = tail[p].ptr /\ next[p].ptr # Null
        /\ UNCHANGED <<shared, destroyed, calls, local, chain, seen>>
    BY <1>t, <1>5 DEF PopCheckPtr, Alone, Silent
  <2>2. Shared' /\ Onward(p) /\ \A m : Linked(m)' <=> Linked(m)
    BY <2>1, QuietKeeps DEF Unlinked
  <2>9. /\ tail'[p].ptr # Null => Linked(tail[p].ptr)'
        /\ head'[p].ptr # Null => Linked(head[p].ptr)'
    BY <1>t, <1>n, <2>1, <2>2, Points DEF Local, Loaded
  <2>3. Local(p)'
    BY <1>t, <2>1, <2>9 DEF Local, Owned, Loaded, Pushing, Popping, Unlinked, PopLabels,
       InList, Last, Empty
  <2>. QED BY <2>1, <2>2, <2>3 DEF Kept
<1>6. CASE PopCheckCount(p) /\ head[p].count = queueHead.count
  <2>1. /\ pc[p] = "pop_count" /\ pc'[p] = "pop_ptr" /\ Alone(p) /\ Silent(p)
        /\ UNCHANGED <<shared, destroyed, calls, local, chain, seen>>
    BY <1>t, <1>6 DEF PopCheckCount, Alone, Silent
  <2>2. Shared' /\ Onward(p) /\ \A m : Linked(m)' <=> Linked(m)
    BY <2>1, QuietKeeps DEF Unlinked
  <2>9. /\ tail'[p].ptr # Null => Linked(tail[p].ptr)'
        /\ head'[p].ptr # Null => Linked(head[p].ptr)'
    BY <1>t, <1>n, <2>1, <2>2, Points DEF Local, Loaded
  <2>3. Local(p)'
    BY <1>t, <2>1, <2>9 DEF Local, Owned, Loaded, Pushing, Popping, Unlinked, PopLabels,
       InList, Last, Empty
  <2>. QED BY <2>1, <2>2, <2>3 DEF Kept
<1>7. ASSUME Retry(p, "pop_head"), UNCHANGED <<shared, Outside, node>>,
             pc[p] \in {"pop_count", "pop_ptr", "pop_swing"}
      PROVE  Kept(p)
  <2>1. Local(p)' /\ Alone(p)
    BY <1>7, <1>n, RetryKeeps
  <2>2. pc'[p] = "pop_head" /\ Silent(p)
    BY <1>t, <1>7 DEF Retry, Silent
  <2>3. Shared' /\ Onward(p)
    BY <1>7, <2>1, <2>2, QuietKeeps DEF Unlinked
  <2>. QED BY <2>1, <2>3 DEF Kept
<1>8. CASE PopNull(p)
  <2>1. pc[p] = "pop_ptr" /\ Return(p, Null) /\ UNCHANGED shared
    BY <1>8 DEF PopNull
  <2>2. Silent(p)
    BY <2>1 DEF Return, Silent
  <2>3. Local(p)' /\ Alone(p) /\ pc'[p] = "idle"
    BY <1>n, <2>1, ReturnKeeps
  <2>4. Shared' /\ Onward(p)
    BY <2>1, <2>2, <2>3, QuietKeeps DEF Unlinked
  <2>. QED BY <2>3, <2>4 DEF Kept
<1>. QED BY <1>1, <1>2, <1>3, <1>4, <1>5, <1>6, <1>7, <1>8
         DEF PopCheckCount, PopChanged, PopSwing

LEMMA EmptyReads ==
  ASSUME IInv, NEW p \in Threads, ~destroyed,
         \/ StartPop(p) \/ StartIsEmpty(p) \/ EmptyLoadHead(p) \/ EmptyLoadNext(p)
  PROVE  Kept(p)
<1>. USE DEF At, Goto, shared, local, Outside, history
<1>t. /\ TypeOK /\ Local(p)
      /\ pc \in [Threads -> {"idle"} \cup PushLabels \cup PopLabels \cup EmptyLabels]
      /\ calls \in [Threads -> 0..MaxCalls] /\ head \in [Threads -> NodePointer]
      /\ seen \in [Threads -> SUBSET {0, 1}]
  BY DEF IInv, TypeOK
<1>n. /\ queueTail.ptr # Null
      /\ queueHead.ptr # Null /\ Linked(queueHead.ptr)
      /\ \A i \in 2..Len(chain) : chain[i] # queueHead.ptr
  BY PointersAreSet, Successors DEF IInv
<1>1. CASE StartPop(p) \/ StartIsEmpty(p)
  <2>1. /\ pc[p] = "idle" /\ pc'[p] \in {"pop_head", "empty_head"} /\ Alone(p) /\ Silent(p)
        /\ calls[p] < MaxCalls /\ calls'[p] = calls[p] + 1 /\ seen'[p] = {Empty(chain)}
        /\ UNCHANGED <<shared, destroyed, local, chain>>
    BY <1>t, <1>1 DEF StartPop, StartIsEmpty, Begin, Alone, Silent
  <2>2. Shared' /\ Onward(p) /\ \A m : Linked(m)' <=> Linked(m)
    BY <2>1, QuietKeeps DEF Unlinked
  <2>9. /\ tail'[p].ptr # Null => Linked(tail[p].ptr)'
        /\ head'[p].ptr # Null => Linked(head[p].ptr)'
    BY <1>t, <1>n, <2>1, <2>2, Points DEF Local, Loaded
  <2>3. calls'[p] \in 1..MaxCalls
    BY <1>t, <2>1, QueueAssumption
  <2>4. Owned(p)' /\ Loaded(p)'
    BY <1>t, <2>1, <2>3, <2>9 DEF Local, Owned, Loaded, Unlinked, InList, Last, Empty
  <2>5. Pushing(p)' /\ Popping(p)'
    BY <1>t, <2>1 DEF Local, Pushing, Popping, PopLabels
  <2>. QED BY <2>1, <2>2, <2>4, <2>5 DEF Kept, Local
<1>2. CASE EmptyLoadHead(p)
  <2>1. /\ pc[p] = "empty_head" /\ pc'[p] = "empty_next" /\ head'[p] = queueHead
        /\ Alone(p) /\ Silent(p)
        /\ UNCHANGED <<shared, destroyed, calls, tail, next, node, obj, chain, seen>>
    BY <1>t, <1>2 DEF EmptyLoadHead, Alone, Silent
  <2>2. Shared' /\ Onward(p) /\ \A m : Linked(m)' <=> Linked(m)
    BY <2>1, QuietKeeps DEF Unlinked
  <2>9. /\ tail'[p].ptr # Null => Linked(tail[p].ptr)'
        /\ head'[p].ptr # Null => Linked(head[p].ptr)'
    BY <1>t, <1>n, <2>1, <2>2, Points DEF Local, Loaded
  <2>3. Local(p)'
    BY <1>t, <1>n, <2>1, <2>9 DEF Local, Owned, Loaded, Pushing, Popping, Unlinked, PopLabels,
       InList, Last, Empty
  <2>. QED BY <2>1, <2>2, <2>3 DEF Kept
<1>3. CASE EmptyLoadNext(p)
  <2>1. pc[p] = "empty_next" /\ UNCHANGED shared /\ \E x : Return(p, x)
    BY <1>3 DEF EmptyLoadNext
  <2>2. Silent(p)
    BY <2>1 DEF Return, Silent
  <2>3. Local(p)' /\ Alone(p) /\ pc'[p] = "idle"
    BY <1>n, <2>1, ReturnKeeps
  <2>4. Shared' /\ Onward(p)
    BY <2>1, <2>2, <2>3, QuietKeeps DEF Unlinked
  <2>. QED BY <2>3, <2>4 DEF Kept
<1>. QED BY <1>1, <1>2, <1>3
------------------------------------------------------------------------------
(* Steps that allocate, initialise or free a node.                         *)

(* Who owns a node is its only owner, and the node is allocated.           *)
LEMMA Owners ==
  ASSUME IInv, NEW q \in Threads, NEW m, Owns(q, m)
  PROVE  /\ m \in Nodes /\ memory[m] = "allocated" /\ ~InList(m)
         /\ pc[q] \in Unlinked => ~Linked(m)
         /\ pc[q] = "pop_free" => Linked(m)
<1>1. CASE pc[q] \in Unlinked /\ node[q] = m
  BY <1>1 DEF IInv, Local, Owned, Linked, Making, Unlinked
<1>2. CASE pc[q] = "pop_free" /\ head[q].ptr = m
  <2>1. m \in Nodes
    BY <1>2, Types DEF IInv, Local, Popping, PopLabels
  <2>2. ~Making(m)
    BY <1>2, <2>1 DEF IInv, Accounted, Owns, Making, Unlinked
  <2>. QED BY <1>2, <2>1, <2>2 DEF IInv, Local, Owned, Linked, Unlinked
<1>. QED BY <1>1, <1>2 DEF Owns

LEMMA StartPushKeeps ==
  ASSUME IInv, NEW p \in Threads, ~destroyed, StartPush(p), Spared
  PROVE  Kept(p)
<1>t. /\ TypeOK /\ Local(p)
      /\ pc \in [Threads -> {"idle"} \cup PushLabels \cup PopLabels \cup EmptyLabels]
      /\ calls \in [Threads -> 0..MaxCalls] /\ node \in [Threads -> Nodes \cup {Null}]
      /\ seen \in [Threads -> SUBSET {0, 1}]
      /\ memory \in [Nodes -> {"unused", "allocated", "freed"}]
  BY DEF IInv, TypeOK
<1>1. PICK m \in Nodes : /\ memory[m] \in {"freed", "unused"} /\ node' = [node EXCEPT ![p] = m]
                         /\ memory' = [memory EXCEPT ![m] = "allocated"]
  BY DEF StartPush, Available
<1>2. /\ pc[p] = "idle" /\ pc'[p] = "push_init" /\ calls'[p] = calls[p] + 1 /\ calls[p] < MaxCalls
      /\ seen'[p] = {Empty(chain)} /\ node'[p] = m /\ Alone(p)
      /\ \A q \in Threads : q # p => seen'[q] = seen[q]
      /\ UNCHANGED <<queueHead, queueTail, nextOf, valueOf, destroyed, head, tail, next, obj, chain>>
  BY <1>t, <1>1 DEF StartPush, Begin, At, Goto, Alone
<1>3. ~InList(m)
  BY <1>1 DEF IInv, Accounted
<1>4. \A x : /\ (InList(x)' <=> InList(x))
            /\ (Making(x)' <=> Making(x) \/ x = m)
            /\ (Linked(x)' <=> Linked(x) /\ x # m)
  <2>1. \A x : InList(x)' <=> InList(x)
    BY <1>2 DEF InList
  <2>2. \A q \in Threads : \A x : (pc'[q] \in Unlinked /\ node'[q] = x) <=>
                              (q # p /\ pc[q] \in Unlinked /\ node[q] = x) \/ (q = p /\ x = m)
    BY <1>2 DEF Alone, Unlinked
  <2>3. pc[p] \notin Unlinked
    BY <1>2 DEF Unlinked
  <2>4. ASSUME NEW x PROVE Making(x)' <=> Making(x) \/ x = m
    <3>1. Making(x)' <=> \E q \in Threads : (q # p /\ pc[q] \in Unlinked /\ node[q] = x) \/ (q = p /\ x = m)
      BY <2>2 DEF Making
    <3>2. Making(x) <=> \E q \in Threads : q # p /\ pc[q] \in Unlinked /\ node[q] = x
      BY <2>3 DEF Making
    <3>. QED BY <3>1, <3>2
  <2>5. ASSUME NEW x PROVE Linked(x)' <=> Linked(x) /\ x # m
    <3>1. (Making(x)' <=> Making(x) \/ x = m) /\ (InList(x)' <=> InList(x)) /\ nextOf'[x] = nextOf[x]
      BY <1>2, <2>1, <2>4
    <3>2. (Linked(x)' <=> InList(x)' \/ (nextOf'[x].ptr # Null /\ ~Making(x)'))
      BY DEF Linked
    <3>. QED BY <1>3, <3>1, <3>2 DEF Linked
  <2>. QED BY <2>1, <2>4, <2>5
<1>5. Last' = Last /\ Last # Null /\ Len(chain)' = Len(chain) /\ \A i \in 2..Len(chain) : chain'[i] \in Nodes
  BY <1>2, Chained DEF IInv, Last
<1>6. ASSUME NEW q \in Threads, q # p, NEW x
      PROVE  (Owns(q, x)' <=> Owns(q, x)) /\ (Owns(q, x) => x # m /\ x \in Nodes /\ memory'[x] = "allocated")
  <2>1. Owns(q, x)' <=> Owns(q, x)
    BY <1>2, <1>6 DEF Alone, Owns
  <2>. QED BY <1>1, <1>t, <2>1, Owners
<1>7. \A x : (Owns(p, x)' <=> x = m) /\ ~Owns(p, x)
  BY <1>2 DEF Owns, Unlinked
<1>8. Accounted'
  <2>1. \A x \in Nodes : /\ memory'[x] = "unused" => memory[x] = "unused"
                         /\ memory[x] = "allocated" => memory'[x] = "allocated"
                         /\ memory'[x] = "allocated" => memory[x] = "allocated" \/ x = m
    BY <1>t, <1>1
  <2>2. \A x \in Nodes : memory'[x] = "unused" => nextOf'[x].ptr = Null
    BY <1>2, <2>1 DEF IInv, Accounted
  <2>4. \A i \in 2..Len(chain)' : valueOf'[chain'[i]] \in Items
    BY <1>2 DEF IInv, Accounted
  <2>5. ~destroyed' /\ \A x \in Nodes : InList(x)' => memory'[x] = "allocated"
    BY <1>2, <1>4, <2>1 DEF IInv, Accounted
  <2>6. ASSUME NEW x \in Nodes, memory'[x] = "allocated"
        PROVE  InList(x)' \/ \E q \in Threads : Owns(q, x)'
    BY <1>4, <1>6, <1>7, <2>1, <2>6 DEF IInv, Accounted
  <2>7. \A q, r \in Threads, x \in Nodes : Owns(q, x)' /\ Owns(r, x)' => q = r
    BY <1>6, <1>7 DEF IInv, Accounted
  <2>. QED BY <2>2, <2>4, <2>5, <2>6, <2>7 DEF Accounted
<1>9. ChainIsInMemory' /\ TailIsNearEnd' /\ TailIsSwung'
  BY <1>2, <1>5 DEF IInv, ChainIsInMemory, TailIsNearEnd, TailIsSwung, Alone
<1>10. Onward(p)
  <2>1. \A q \in Threads : q # p /\ pc[q] # "idle" =>
          seen[q] \subseteq seen'[q] /\ Empty(chain)' \in seen'[q]
    BY <1>2 DEF IInv, Local, Owned, Empty
  <2>2. \A i \in 2..Len(chain)' : chain'[i] \in Nodes /\ \E j \in 2..Len(chain) : chain'[i] = chain[j]
    BY <1>2, <1>5
  <2>3. \A q \in Threads, x \in Nodes : q # p /\ Owns(q, x) /\ memory[x] = "allocated" =>
          /\ memory'[x] = "allocated"
          /\ ~InList(x) => ~InList(x)' /\ valueOf'[x] = valueOf[x] /\ nextOf'[x] = nextOf[x]
    BY <1>2, <1>4, <1>6
  <2>4. \A q \in Threads : ~Holds(q, m)
    <3>1. CASE memory[m] = "freed"
      BY <1>t, <1>1, <3>1 DEF Spared
    <3>2. CASE memory[m] = "unused"
      <4>1. ~Linked(m) /\ m # Null
        BY <1>3, <3>2, Naming DEF IInv, Accounted, Linked
      <4>. QED BY <4>1 DEF Holds, IInv, Local, Loaded
    <3>. QED BY <1>1, <3>1, <3>2
  <2>5. \A x \in Nodes : Linked(x) => Linked(x)' \/ \A q \in Threads : q # p => ~Holds(q, x)
    BY <1>4, <2>4
  <2>6. \A x \in Nodes : Linked(x) /\ ~InList(x) => ~InList(x)'
    BY <1>4
  <2>. QED BY <1>2, <1>5, <2>1, <2>2, <2>3, <2>5, <2>6 DEF Onward
<1>11. Local(p)'
  <2>1. calls'[p] \in 1..MaxCalls
    BY <1>t, <1>2, QueueAssumption
  <2>2. memory'[m] = "allocated"
    BY <1>t, <1>1
  <2>3. ~InList(node[p])'
    BY <1>2, <1>3 DEF InList
  <2>4. Owned(p)'
    BY <1>1, <1>2, <2>1, <2>2, <2>3 DEF Owned, Unlinked, Empty
  <2>5. Loaded(p)'
    BY <1>t, <1>2, <1>5 DEF Local, Loaded, Popping
  <2>6. Pushing(p)' /\ Popping(p)'
    BY <1>t, <1>2 DEF Pushing, Local, Popping, PopLabels
  <2>. QED BY <2>4, <2>5, <2>6 DEF Local
<1>. QED BY <1>2, <1>8, <1>9, <1>10, <1>11 DEF Kept, Shared

LEMMA PushInitKeeps ==
  ASSUME IInv, NEW p \in Threads, ~destroyed, PushInit(p)
  PROVE  Kept(p)
<1>t. /\ TypeOK /\ Local(p)
      /\ pc \in [Threads -> {"idle"} \cup PushLabels \cup PopLabels \cup EmptyLabels]
      /\ nextOf \in [Nodes -> NodePointer] /\ valueOf \in [Nodes -> Items \cup {Null}]
  BY DEF IInv, TypeOK
<1>1. /\ pc[p] = "push_init" /\ pc'[p] = "push_tail" /\ Alone(p) /\ Owns(p, node[p])
      /\ nextOf' = [nextOf EXCEPT ![node[p]] = NoPointer]
      /\ valueOf' = [valueOf EXCEPT ![node[p]] = Item(p, calls[p])]
      /\ UNCHANGED <<queueHead, queueTail, memory, destroyed, calls, local, chain, seen>>
  BY <1>t DEF PushInit, At, Goto, Outside, history, local, Alone, Owns, Unlinked
<1>2. /\ node[p] \in Nodes /\ ~Linked(node[p]) /\ ~InList(node[p]) /\ Making(node[p])
      /\ memory[node[p]] = "allocated"
  BY <1>1, Owners DEF Unlinked, Making
<1>3. /\ \A x \in Nodes : x # node[p] => nextOf'[x] = nextOf[x] /\ valueOf'[x] = valueOf[x]
      /\ nextOf'[node[p]] = NoPointer /\ valueOf'[node[p]] = Item(p, calls[p])
  BY <1>t, <1>1, <1>2
<1>4. \A x : InList(x)' <=> InList(x)
  BY <1>1 DEF InList
<1>5. \A x \in Nodes : Linked(x)' <=> Linked(x)
  <2>1. \A x : Making(x)' <=> Making(x)
    BY <1>1, SameMaking DEF Unlinked, local
  <2>. QED BY <1>2, <1>3, <1>4, <2>1 DEF Linked
<1>6. /\ Last' = Last /\ Last \in Nodes /\ Last # Null /\ Len(chain)' = Len(chain)
      /\ Len(chain) \in Nat \ {0} /\ \A i \in 1..Len(chain) : chain[i] \in Nodes
      /\ DOMAIN chain = 1..Len(chain)
  BY <1>1, Chained DEF IInv, Last
<1>7. \A i \in 1..Len(chain) : chain[i] # node[p]
  BY <1>2, <1>6 DEF InList
<1>8. \A q \in Threads : \A x : Owns(q, x)' <=> Owns(q, x)
  BY <1>1 DEF Alone, Owns, Unlinked, local
<1>9. ChainIsInMemory' /\ TailIsNearEnd' /\ TailIsSwung'
  <2>1. \A i \in 1..Len(chain) : nextOf'[chain[i]] = nextOf[chain[i]]
    BY <1>3, <1>6, <1>7
  <2>2. nextOf'[Last] = nextOf[Last]
    BY <1>6, <2>1 DEF Last
  <2>3. \A i \in 1..(Len(chain) - 1) : nextOf'[chain[i]] = nextOf[chain[i]]
    BY <1>6, <2>1
  <2>. QED BY <1>1, <1>6, <2>2, <2>3 DEF IInv, ChainIsInMemory, TailIsNearEnd, TailIsSwung, Alone
<1>10. Accounted'
  <2>2. \A i \in 2..Len(chain)' : valueOf'[chain'[i]] \in Items
    BY <1>1, <1>3, <1>6, <1>7 DEF IInv, Accounted
  <2>3. \A x \in Nodes : memory'[x] = "unused" => nextOf'[x].ptr = Null
    BY <1>1, <1>2, <1>3 DEF IInv, Accounted
  <2>. QED BY <1>1, <1>4, <1>8, <2>2, <2>3 DEF IInv, Accounted
<1>11. Onward(p)
  <2>1. \A q \in Threads : q # p /\ pc[q] # "idle" =>
          seen[q] \subseteq seen'[q] /\ Empty(chain)' \in seen'[q]
    BY <1>1 DEF IInv, Local, Owned, Empty
  <2>2. \A i \in 2..Len(chain)' : chain'[i] \in Nodes /\ \E j \in 2..Len(chain) : chain'[i] = chain[j]
    BY <1>1, <1>6
  <2>3. \A q \in Threads, x \in Nodes : q # p /\ Owns(q, x) => x # node[p]
    BY <1>1, <1>2 DEF IInv, Accounted
  <2>4. \A q \in Threads, x \in Nodes : q # p /\ Owns(q, x) /\ memory[x] = "allocated" =>
          /\ memory'[x] = "allocated"
          /\ ~InList(x) => ~InList(x)' /\ valueOf'[x] = valueOf[x] /\ nextOf'[x] = nextOf[x]
    BY <1>1, <1>3, <1>4, <2>3
  <2>5. \A x \in Nodes : Linked(x) =>
          /\ Linked(x)' /\ valueOf'[x] = valueOf[x]
          /\ nextOf[x].ptr # Null => nextOf'[x].ptr = nextOf[x].ptr
    BY <1>2, <1>3, <1>5
  <2>. QED BY <1>1, <1>4, <1>6, <2>1, <2>2, <2>4, <2>5 DEF Onward
<1>12. Local(p)'
  <2>1. ~InList(node[p])'
    BY <1>1, <1>2 DEF InList, local
  <2>2. Owned(p)'
    BY <1>t, <1>1, <1>2, <1>3, <2>1 DEF Local, Owned, Unlinked, Empty, local
  <2>3. Loaded(p)'
    <3>1. PICK t \in Nodes \cup {Null}, h \in Nodes \cup {Null} : t = tail[p].ptr /\ h = head[p].ptr
      BY <1>t, Types
    <3>2. (t # Null => Linked(t)') /\ (h # Null => Linked(h)')
      BY <1>t, <1>5, <3>1 DEF Local, Loaded
    <3>3. /\ tail'[p].ptr # Null => Linked(tail[p].ptr)'
          /\ head'[p].ptr # Null => Linked(head[p].ptr)'
      BY <1>1, <3>1, <3>2 DEF Linked, InList, Making, local
    <3>. QED BY <1>t, <1>1, <1>6, <3>3 DEF Local, Loaded, local
  <2>4. Pushing(p)' /\ Popping(p)'
    BY <1>1 DEF Pushing, Popping, PopLabels
  <2>. QED BY <2>2, <2>3, <2>4 DEF Local
<1>. QED BY <1>1, <1>9, <1>10, <1>11, <1>12 DEF Kept, Shared

LEMMA PopFreeKeeps ==
  ASSUME IInv, NEW p \in Threads, ~destroyed, PopFree(p)
  PROVE  Kept(p)
<1>t. /\ TypeOK /\ Local(p)
      /\ pc \in [Threads -> {"idle"} \cup PushLabels \cup PopLabels \cup EmptyLabels]
      /\ seen \in [Threads -> SUBSET {0, 1}]
      /\ memory \in [Nodes -> {"unused", "allocated", "freed"}]
  BY DEF IInv, TypeOK
<1>1. /\ pc[p] = "pop_free" /\ Return(p, obj[p]) /\ Owns(p, head[p].ptr)
      /\ memory' = [memory EXCEPT ![head[p].ptr] = "freed"]
      /\ UNCHANGED <<queueHead, queueTail, nextOf, valueOf, destroyed, chain>>
      /\ \A q \in Threads : q # p => seen'[q] = seen[q]
  BY <1>t DEF PopFree, At, Return, Owns
<1>2. PICK m \in Nodes : m = head[p].ptr /\ Owns(p, m) /\ Linked(m) /\ ~InList(m) 
  BY <1>1, Owners
<1>3. Local(p)' /\ Alone(p) /\ pc'[p] = "idle"
  BY <1>1, PointersAreSet, ReturnKeeps
<1>4. \A x : (InList(x)' <=> InList(x)) /\ (Linked(x)' <=> Linked(x))
  <2>1. \A x : Making(x)' <=> Making(x)
    BY <1>1, <1>3, SameMaking DEF Unlinked
  <2>. QED BY <1>1, <2>1 DEF InList, Linked
<1>5. Last' = Last /\ Last # Null /\ Len(chain)' = Len(chain) /\ \A i \in 2..Len(chain) : chain'[i] \in Nodes
  BY <1>1, Chained DEF IInv, Last
<1>6. ASSUME NEW q \in Threads, q # p, NEW x
      PROVE  (Owns(q, x)' <=> Owns(q, x)) /\ (Owns(q, x) => x # m)
  <2>1. Owns(q, x)' <=> Owns(q, x)
    BY <1>3, <1>6 DEF Alone, Owns
  <2>. QED BY <1>2, <1>6, <2>1 DEF IInv, Accounted
<1>7. \A x : ~Owns(p, x)' /\ (Owns(p, x) => x = m)
  BY <1>1, <1>2, <1>3 DEF Owns, Unlinked
<1>8. \A x \in Nodes : /\ memory'[x] = (IF x = m THEN "freed" ELSE memory[x])
  BY <1>t, <1>1, <1>2
<1>9. ChainIsInMemory' /\ TailIsNearEnd' /\ TailIsSwung'
  BY <1>1, <1>3, <1>5 DEF IInv, ChainIsInMemory, TailIsNearEnd, TailIsSwung, Alone
<1>10. Accounted'
  <2>2. \A x \in Nodes : memory'[x] = "unused" => nextOf'[x].ptr = Null
    BY <1>1, <1>8 DEF IInv, Accounted
  <2>3. \A i \in 2..Len(chain)' : valueOf'[chain'[i]] \in Items
    BY <1>1 DEF IInv, Accounted
  <2>4. ~destroyed' /\ \A x \in Nodes : InList(x)' => memory'[x] = "allocated"
    BY <1>1, <1>2, <1>4, <1>8 DEF IInv, Accounted
  <2>5. ASSUME NEW x \in Nodes, memory'[x] = "allocated"
        PROVE  InList(x)' \/ \E q \in Threads : Owns(q, x)'
    BY <1>4, <1>6, <1>7, <1>8, <2>5 DEF IInv, Accounted
  <2>6. \A q, r \in Threads, x \in Nodes : Owns(q, x)' /\ Owns(r, x)' => q = r
    BY <1>6, <1>7 DEF IInv, Accounted
  <2>. QED BY <2>2, <2>3, <2>4, <2>5, <2>6 DEF Accounted
<1>11. Onward(p)
  <2>1. \A q \in Threads : q # p /\ pc[q] # "idle" =>
          seen[q] \subseteq seen'[q] /\ Empty(chain)' \in seen'[q]
    BY <1>1 DEF IInv, Local, Owned, Empty
  <2>2. \A i \in 2..Len(chain)' : chain'[i] \in Nodes /\ \E j \in 2..Len(chain) : chain'[i] = chain[j]
    BY <1>1, <1>5
  <2>3. \A q \in Threads, x \in Nodes : q # p /\ Owns(q, x) /\ memory[x] = "allocated" =>
          /\ memory'[x] = "allocated"
          /\ ~InList(x) => ~InList(x)' /\ valueOf'[x] = valueOf[x] /\ nextOf'[x] = nextOf[x]
    BY <1>1, <1>4, <1>6, <1>8
  <2>. QED BY <1>1, <1>4, <1>5, <2>1, <2>2, <2>3 DEF Onward
<1>. QED BY <1>3, <1>9, <1>10, <1>11 DEF Kept, Shared
------------------------------------------------------------------------------
(* The three places where the tail is moved on.                            *)

LEMMA SwungKeeps ==
  ASSUME IInv, NEW p \in Threads, ~destroyed, Alone(p),
         \/ queueTail' = queueTail /\ queueTail.ptr # tail[p].ptr
         \/ queueTail.ptr # Last /\ queueTail'.ptr = Last /\ Len(chain) > 1,
         UNCHANGED <<queueHead, nextOf, valueOf, memory, destroyed, chain>>,
         \A q \in Threads : q # p => seen'[q] = seen[q],
         pc[p] # "pop_free", pc'[p] # "pop_free",
         pc[p] \in Unlinked <=> pc'[p] \in Unlinked,
         pc[p] \in Unlinked => node'[p] = node[p]
  PROVE  Shared' /\ Onward(p)
<1>1. /\ Last' = Last /\ Last # Null /\ Len(chain)' = Len(chain)
      /\ \A i \in 2..Len(chain) : chain[i] \in Nodes
  BY Chained DEF IInv, Last
<1>2. \A q \in Threads : q # p => pc'[q] = pc[q] /\ head'[q] = head[q] /\ tail'[q] = tail[q]
                                  /\ node'[q] = node[q]
  BY DEF Alone
<1>3. \A y : (InList(y)' <=> InList(y)) /\ (Linked(y)' <=> Linked(y))
  BY SameMaking DEF InList, Linked
<1>4. \A q \in Threads, m \in Nodes : Owns(q, m)' <=> Owns(q, m)
  <2>1. \A m : Owns(p, m)' <=> Owns(p, m)
    BY DEF Owns
  <2>2. ASSUME NEW q \in Threads, q # p, NEW m PROVE Owns(q, m)' <=> Owns(q, m)
    BY <1>2, <2>2 DEF Owns
  <2>. QED BY <2>1, <2>2
<1>5. ChainIsInMemory'
  BY <1>1 DEF IInv, ChainIsInMemory
<1>6. TailIsNearEnd'
  BY <1>1 DEF IInv, TailIsNearEnd
<1>7. TailIsSwung'
  <2>1. CASE queueTail'.ptr = Last
    BY <1>1, <2>1 DEF TailIsSwung
  <2>2. CASE queueTail' = queueTail /\ queueTail.ptr # tail[p].ptr
    BY <1>1, <1>2, <2>2 DEF IInv, TailIsSwung
  <2>. QED BY <2>1, <2>2
<1>8. Accounted'
  BY <1>3, <1>4 DEF IInv, Accounted
<1>9. Onward(p)
  <2>1. \A q \in Threads : q # p /\ pc[q] # "idle" =>
          seen[q] \subseteq seen'[q] /\ Empty(chain)' \in seen'[q]
    BY DEF IInv, Local, Owned, Empty
  <2>2. \A i \in 2..Len(chain)' : chain'[i] \in Nodes /\ \E j \in 2..Len(chain) : chain'[i] = chain[j]
    BY <1>1
  <2>. QED BY <1>1, <1>3, <2>1, <2>2 DEF Onward
<1>. QED BY <1>5, <1>6, <1>7, <1>8, <1>9 DEF Shared

LEMMA SwingKeeps ==
  ASSUME IInv, NEW p \in Threads, ~destroyed, Alone(p), NEW x, x # Null,
         tail[p].ptr # Null, nextOf[tail[p].ptr].ptr = x, x \in Nodes \cup {Null},
         queueTail' = Exchanged(queueTail, tail[p], Swung(x, tail[p])),
         UNCHANGED <<queueHead, nextOf, valueOf, memory, destroyed, chain>>,
         \A q \in Threads : q # p => seen'[q] = seen[q],
         pc[p] # "pop_free", pc'[p] # "pop_free",
         pc[p] \in Unlinked <=> pc'[p] \in Unlinked,
         pc[p] \in Unlinked => node'[p] = node[p]
  PROVE  Shared' /\ Onward(p) /\ queueTail'.ptr # Null /\ queueTail'.ptr # tail[p].ptr
<1>1. /\ Last' = Last /\ Last # Null /\ Len(chain)' = Len(chain)
      /\ \A i \in 2..Len(chain) : chain[i] \in Nodes
  BY Chained DEF IInv, Last
<1>2. CASE queueTail = tail[p]
  <2>1. queueTail.ptr # Last
    BY <1>2 DEF IInv, ChainIsInMemory
  <2>2. x = Last /\ Len(chain) > 1
    BY <1>2, <2>1, Successors DEF IInv
  <2>3. queueTail' = Swung(x, tail[p]) /\ queueTail'.ptr = Last
    BY <1>2, <2>2, SwungType DEF Exchanged, IInv, TypeOK
  <2>. QED BY <1>1, <1>2, <2>1, <2>2, <2>3, SwungKeeps
<1>3. CASE queueTail # tail[p]
  <2>1. queueTail' = queueTail
    BY <1>3 DEF Exchanged
  <2>2. queueTail.ptr # tail[p].ptr
    BY <1>3 DEF IInv, Local, Loaded
  <2>3. queueTail.ptr # Null
    BY PointersAreSet
  <2>. QED BY <2>1, <2>2, <2>3, SwungKeeps
<1>. QED BY <1>2, <1>3

LEMMA HelpsKeep ==
  ASSUME IInv, NEW p \in Threads, ~destroyed, PushHelp(p) \/ PushSwing(p) \/ PopHelp(p)
  PROVE  Kept(p)
<1>. USE DEF At, Goto, local, Outside, history
<1>t. /\ TypeOK /\ Local(p)
      /\ pc \in [Threads -> {"idle"} \cup PushLabels \cup PopLabels \cup EmptyLabels]
      /\ next[p].ptr \in Nodes \cup {Null} /\ node[p] \in Nodes \cup {Null}
  BY Types DEF IInv, TypeOK
<1>1. CASE PushHelp(p)
  <2>1. /\ pc[p] = "push_help" /\ pc'[p] = "push_tail" /\ Retry(p, "push_tail")
        /\ queueTail' = Exchanged(queueTail, tail[p], Swung(next[p].ptr, tail[p]))
        /\ UNCHANGED <<queueHead, nextOf, valueOf, memory, destroyed, calls, node, chain, seen>>
    BY <1>t, <1>1 DEF PushHelp, Retry
  <2>2. Alone(p)
    BY <1>t, <2>1 DEF Alone, Retry, TypeOK
  <2>3. tail[p].ptr # Null /\ next[p].ptr # Null /\ nextOf[tail[p].ptr].ptr = next[p].ptr
    BY <1>t, <2>1 DEF Local, Pushing
  <2>4. Shared' /\ Onward(p) /\ queueTail'.ptr # Null
    BY <1>t, <2>1, <2>2, <2>3, SwingKeeps DEF Unlinked
  <2>5. Local(p)'
    BY <2>1, <2>4, RetryKeeps DEF Unlinked
  <2>. QED BY <2>2, <2>4, <2>5 DEF Kept
<1>2. CASE PushSwing(p)
  <2>1. /\ pc[p] = "push_swing" /\ Return(p, Null)
        /\ queueTail' = Exchanged(queueTail, tail[p], Swung(node[p], tail[p]))
        /\ UNCHANGED <<queueHead, nextOf, valueOf, memory, destroyed, chain>>
        /\ \A q \in Threads : q # p => seen'[q] = seen[q]
    BY <1>t, <1>2 DEF PushSwing, Return, Local, Pushing, TypeOK
  <2>2. Alone(p) /\ pc'[p] = "idle"
    BY <1>t, <2>1 DEF Alone, Return, TypeOK
  <2>3. tail[p].ptr # Null /\ node[p] # Null /\ nextOf[tail[p].ptr].ptr = node[p]
    BY <1>t, <2>1 DEF Local, Pushing
  <2>4. Shared' /\ Onward(p) /\ queueTail'.ptr # Null
    BY <1>t, <2>1, <2>2, <2>3, SwingKeeps DEF Unlinked
  <2>5. Local(p)'
    BY <2>1, <2>4, ReturnKeeps
  <2>. QED BY <2>2, <2>4, <2>5 DEF Kept
<1>3. CASE PopHelp(p)
  <2>1. /\ pc[p] = "pop_help" /\ pc'[p] = "pop_value" /\ Alone(p)
        /\ queueTail' = Exchanged(queueTail, tail[p], Swung(next[p].ptr, tail[p]))
        /\ UNCHANGED <<queueHead, nextOf, valueOf, memory, destroyed, calls, local, chain, seen>>
    BY <1>t, <1>3 DEF PopHelp, Alone
  <2>2. /\ tail[p].ptr # Null /\ next[p].ptr # Null /\ nextOf[tail[p].ptr].ptr = next[p].ptr
        /\ tail[p].ptr = head[p].ptr
    BY <1>t, <2>1 DEF Local, Popping, PopLabels
  <2>3. Shared' /\ Onward(p) /\ queueTail'.ptr # tail[p].ptr
    BY <1>t, <2>1, <2>2, SwingKeeps DEF Unlinked
  <2>4. Owned(p)'
    BY <1>t, <2>1 DEF Local, Owned, Unlinked, Empty
  <2>5. Loaded(p)'
    <3>1. tail'[p].ptr = Last' => queueTail'.ptr = Last'
      BY <1>t, <2>1, <2>3 DEF Local, Loaded, Onward, Last
    <3>2. \A x : Linked(x)' <=> Linked(x)
      BY <2>1, SameMaking DEF Linked, InList, Unlinked
    <3>3. /\ tail'[p].ptr # Null => Linked(tail[p].ptr)'
          /\ head'[p].ptr # Null => Linked(head[p].ptr)'
      BY <1>t, <2>1, <3>2 DEF Local, Loaded, Linked, InList, Making
    <3>. QED BY <1>t, <2>1, <2>3, <3>1, <3>3 DEF Local, Loaded
  <2>6. Pushing(p)' /\ Popping(p)'
    BY <1>t, <2>1, <2>2, <2>3 DEF Local, Pushing, Popping, PopLabels
  <2>. QED BY <2>1, <2>3, <2>4, <2>5, <2>6 DEF Kept, Local
<1>. QED BY <1>1, <1>2, <1>3
------------------------------------------------------------------------------
(* The two steps that change the list.                                     *)

LEMMA Longer ==
  ASSUME TypeOK, NEW m \in Nodes, chain' = Append(chain, m)
  PROVE  /\ Len(chain)' = Len(chain) + 1 /\ Len(chain) \in Nat \ {0}
         /\ \A i \in 1..Len(chain) : chain'[i] = chain[i]
         /\ chain'[Len(chain) + 1] = m /\ Last' = m
         /\ \A x : InList(x)' <=> InList(x) \/ x = m
<1>1. /\ chain \in Seq(Nodes) /\ Len(chain) \in Nat \ {0} /\ DOMAIN chain = 1..Len(chain)
  BY Chained
<1>2. /\ Len(chain)' = Len(chain) + 1 /\ chain' \in Seq(Nodes)
      /\ \A i \in 1..Len(chain) : chain'[i] = chain[i]
      /\ chain'[Len(chain) + 1] = m
  BY <1>1, AppendProperties
<1>3. DOMAIN chain' = 1..(Len(chain) + 1)
  BY <1>2, LenProperties
<1>4. \A x : InList(x)' <=> InList(x) \/ x = m
  <2>1. ASSUME NEW x, InList(x)' PROVE InList(x) \/ x = m
    <3>1. PICK i \in 1..(Len(chain) + 1) : chain'[i] = x
      BY <1>3, <2>1 DEF InList
    <3>2. i \in 1..Len(chain) \/ i = Len(chain) + 1
      BY <1>1
    <3>. QED BY <1>1, <1>2, <3>1, <3>2 DEF InList
  <2>2. ASSUME NEW x, InList(x) PROVE InList(x)'
    <3>1. PICK i \in 1..Len(chain) : chain[i] = x
      BY <1>1, <2>2 DEF InList
    <3>2. i \in DOMAIN chain' /\ chain'[i] = x
      BY <1>1, <1>2, <1>3, <3>1
    <3>. QED BY <3>2 DEF InList
  <2>3. InList(m)'
    <3>1. Len(chain) + 1 \in DOMAIN chain'
      BY <1>1, <1>3
    <3>. QED BY <1>2, <3>1 DEF InList
  <2>. QED BY <2>1, <2>2, <2>3
<1>. QED BY <1>1, <1>2, <1>4 DEF Last

LEMMA Shorter ==
  ASSUME TypeOK, ChainIsInMemory, Len(chain) > 1, chain' = Tail(chain)
  PROVE  /\ Len(chain)' = Len(chain) - 1 /\ Len(chain) \in Nat \ {0}
         /\ \A i \in 1..(Len(chain) - 1) : chain'[i] = chain[i + 1]
         /\ Last' = Last
         /\ \A x : InList(x)' <=> InList(x) /\ x # queueHead.ptr
<1>1. /\ chain \in Seq(Nodes) /\ Len(chain) \in Nat \ {0} /\ DOMAIN chain = 1..Len(chain)
      /\ chain # <<>>
  BY Chained DEF TypeOK
<1>2. /\ Len(chain)' = Len(chain) - 1 /\ chain' \in Seq(Nodes)
      /\ \A i \in 1..(Len(chain) - 1) : chain'[i] = chain[i + 1]
  BY <1>1, HeadTailProperties
<1>3. DOMAIN chain' = 1..(Len(chain) - 1)
  BY <1>2, LenProperties
<1>4. Last' = Last
  BY <1>1, <1>2 DEF Last
<1>5. \A x : InList(x)' <=> InList(x) /\ x # queueHead.ptr
  <2>1. ASSUME NEW x, InList(x)' PROVE InList(x) /\ x # queueHead.ptr
    <3>1. PICK i \in 1..(Len(chain) - 1) : chain'[i] = x
      BY <1>3, <2>1 DEF InList
    <3>2. i + 1 \in DOMAIN chain /\ chain[i + 1] = x /\ i + 1 # 1 /\ 1 \in DOMAIN chain
      BY <1>1, <1>2, <3>1
    <3>. QED BY <3>2 DEF InList, ChainIsInMemory
  <2>2. ASSUME NEW x, InList(x), x # queueHead.ptr PROVE InList(x)'
    <3>1. PICK i \in 1..Len(chain) : chain[i] = x
      BY <1>1, <2>2 DEF InList
    <3>2. i # 1
      BY <2>2, <3>1 DEF ChainIsInMemory
    <3>3. i - 1 \in DOMAIN chain' /\ chain'[i - 1] = x
      BY <1>1, <1>2, <1>3, <3>1, <3>2
    <3>. QED BY <3>3 DEF InList
  <2>. QED BY <2>1, <2>2
<1>. QED BY <1>1, <1>2, <1>4, <1>5

(* The exchange succeeds at the end of the list only.                      *)
LEMMA Links ==
  ASSUME IInv, NEW p \in Threads, PushLink(p), nextOf[tail[p].ptr] = next[p]
  PROVE  /\ pc[p] = "push_link" /\ pc' = [pc EXCEPT ![p] = "push_swing"]
         /\ tail[p].ptr = Last /\ queueTail.ptr = Last
         /\ nextOf' = [nextOf EXCEPT ![Last] = Swung(node[p], next[p])]
         /\ ChainBecomes(Append(chain, node[p]))
         /\ Owns(p, node[p]) /\ node[p] \in Nodes /\ ~Linked(node[p])
         /\ nextOf[node[p]].ptr = Null
         /\ valueOf[node[p]] = Item(p, calls[p])
         /\ UNCHANGED <<queueHead, queueTail, valueOf, memory, destroyed, calls, local, ret>>
<1>1. pc[p] = "push_link" /\ tail[p].ptr # Null /\ next[p].ptr = Null /\ Linked(tail[p].ptr)
  BY DEF PushLink, At, IInv, Local, Pushing, Loaded
<1>2. tail[p].ptr = Last /\ queueTail.ptr = Last
  BY <1>1, Successors DEF IInv, Linked, Local, Loaded
<1>3. /\ Owns(p, node[p]) /\ node[p] \in Nodes /\ nextOf[node[p]].ptr = Null
      /\ valueOf[node[p]] = Item(p, calls[p])
  BY <1>1, NoPointerType DEF IInv, Local, Owned, Owns, Unlinked
<1>4. ~Linked(node[p])
  BY <1>1, <1>3, Owners DEF Unlinked
<1>. QED BY <1>1, <1>2, <1>3, <1>4 DEF PushLink, Goto

LEMMA PushLinkKeeps ==
  ASSUME IInv, NEW p \in Threads, ~destroyed, PushLink(p), nextOf[tail[p].ptr] = next[p]
  PROVE  Kept(p)
<1>t. /\ TypeOK /\ Local(p)
      /\ pc \in [Threads -> {"idle"} \cup PushLabels \cup PopLabels \cup EmptyLabels]
      /\ nextOf \in [Nodes -> NodePointer] /\ seen \in [Threads -> SUBSET {0, 1}]
      /\ calls[p] \in 1..MaxCalls
  BY Links DEF IInv, TypeOK, Local, Owned
<1>1. PICK m \in Nodes : m = node[p] /\ Owns(p, m) /\ ~Linked(m) /\ valueOf[m] = Item(p, calls[p])
                       /\ nextOf[m].ptr = Null
  BY Links
<1>2. /\ pc[p] = "push_link" /\ pc'[p] = "push_swing" /\ Alone(p)
      /\ tail[p].ptr = Last /\ queueTail.ptr = Last
      /\ ChainBecomes(Append(chain, m)) /\ chain' = Append(chain, m)
      /\ UNCHANGED <<queueHead, queueTail, valueOf, memory, destroyed, calls, local>>
  BY <1>t, <1>1, Links DEF Alone, local, ChainBecomes
<1>3. /\ Len(chain)' = Len(chain) + 1 /\ Len(chain) \in Nat \ {0}
      /\ \A i \in 1..Len(chain) : chain'[i] = chain[i] /\ chain[i] \in Nodes /\ InList(chain[i])
      /\ chain'[Len(chain) + 1] = m /\ Last' = m /\ m # Null
      /\ \A x : InList(x)' <=> InList(x) \/ x = m
      /\ DOMAIN chain = 1..Len(chain) /\ DOMAIN chain' = 1..(Len(chain) + 1)
  <2>1. chain \in Seq(Nodes) /\ Append(chain, m) \in Seq(Nodes)
    BY <1>t, Chained, AppendProperties
  <2>2. /\ Len(chain)' = Len(chain) + 1 /\ Len(chain) \in Nat \ {0}
        /\ \A i \in 1..Len(chain) : chain'[i] = chain[i]
        /\ chain'[Len(chain) + 1] = m /\ Last' = m
        /\ \A x : InList(x)' <=> InList(x) \/ x = m
    BY <1>t, <1>2, Longer
  <2>3. DOMAIN chain = 1..Len(chain) /\ \A i \in 1..Len(chain) : chain[i] \in Nodes
    BY <1>t, Chained
  <2>4. DOMAIN chain' = 1..Len(chain')
    BY <1>2, <2>1, LenProperties
  <2>5. m # Null
    BY Naming
  <2>. QED BY <2>2, <2>3, <2>4, <2>5 DEF InList
<1>4. /\ Last \in Nodes /\ InList(Last) /\ nextOf[Last].ptr = Null /\ Last # m
      /\ ~InList(m) /\ nextOf[m].ptr = Null
  BY <1>1, Successors, Chained DEF IInv, ChainIsInMemory, Linked
<1>5. \A x \in Nodes : nextOf'[x].ptr = (IF x = Last THEN m ELSE nextOf[x].ptr)
  <2>1. Swung(node[p], next[p]).ptr = m
    BY <1>1 DEF Swung
  <2>. QED BY <1>t, <1>4, <2>1, Links
<1>6. \A x \in Nodes : Linked(x)' <=> Linked(x) \/ x = m
  <2>1. \A q \in Threads : \A x : (pc'[q] \in Unlinked /\ node'[q] = x) <=>
                              q # p /\ pc[q] \in Unlinked /\ node[q] = x
    BY <1>2 DEF Alone, Unlinked
  <2>2. \A x : x # m => (Making(x)' <=> Making(x))
    BY <1>1, <2>1 DEF Making
  <2>. QED BY <1>3, <1>4, <1>5, <2>2 DEF Linked
<1>7. ASSUME NEW q \in Threads, NEW x
      PROVE  /\ q # p => (Owns(q, x)' <=> Owns(q, x)) /\ (Owns(q, x) => x # m)
             /\ ~Owns(p, x)' /\ (Owns(p, x) => x = m)
  <2>1. q # p => (Owns(q, x)' <=> Owns(q, x))
    BY <1>2 DEF Alone, Owns, local
  <2>2. q # p /\ Owns(q, x) => x # m
    BY <1>1 DEF IInv, Accounted
  <2>3. ~Owns(p, x)' /\ (Owns(p, x) => x = m)
    BY <1>1, <1>2 DEF Owns, Unlinked
  <2>. QED BY <2>1, <2>2, <2>3
<1>8. ChainIsInMemory'
  <2>1. chain'[1] = queueHead'.ptr
    BY <1>2, <1>3 DEF IInv, ChainIsInMemory
  <2>2. ASSUME NEW i \in 1..(Len(chain)' - 1) PROVE nextOf'[chain'[i]].ptr = chain'[i + 1]
    <3>1. CASE i = Len(chain)
      BY <1>3, <1>4, <1>5, <3>1 DEF Last
    <3>2. CASE i \in 1..(Len(chain) - 1)
      <4>1. chain[i] # Last
        BY <1>3, <3>2 DEF IInv, ChainIsInMemory, Last
      <4>2. nextOf[chain[i]].ptr = chain[i + 1]
        BY <3>2 DEF IInv, ChainIsInMemory
      <4>. QED BY <1>3, <1>5, <3>2, <4>1, <4>2
    <3>. QED BY <1>3, <3>1, <3>2
  <2>3. nextOf'[Last'].ptr = Null
    BY <1>3, <1>4, <1>5
  <2>4. ASSUME NEW i \in DOMAIN chain', NEW j \in DOMAIN chain', chain'[i] = chain'[j] PROVE i = j
    BY <1>3, <1>4, <2>4 DEF IInv, ChainIsInMemory
  <2>. QED BY <2>1, <2>2, <2>3, <2>4 DEF ChainIsInMemory
<1>9. TailIsNearEnd'
  <2>1. chain'[Len(chain)' - 1] = Last /\ Len(chain)' > 1
    BY <1>3 DEF Last
  <2>. QED BY <1>2, <2>1 DEF TailIsNearEnd
<1>10. TailIsSwung'
  BY <1>2 DEF TailIsSwung, local
<1>11. Accounted'
  <2>2. \A x \in Nodes : memory'[x] = "unused" => nextOf'[x].ptr = Null
    BY <1>2, <1>4, <1>5 DEF IInv, Accounted
  <2>3. \A i \in 2..Len(chain)' : valueOf'[chain'[i]] \in Items
    <3>1. valueOf[m] \in Items
      BY <1>1, <1>t, ItemType, QueueAssumption DEF Threads
    <3>. QED BY <1>2, <1>3, <3>1 DEF IInv, Accounted
  <2>4. ~destroyed' /\ \A x \in Nodes : InList(x)' => memory'[x] = "allocated"
    BY <1>1, <1>2, <1>3, Owners DEF IInv, Accounted
  <2>5. ASSUME NEW x \in Nodes, memory'[x] = "allocated"
        PROVE  InList(x)' \/ \E q \in Threads : Owns(q, x)'
    BY <1>2, <1>3, <1>7, <2>5 DEF IInv, Accounted
  <2>6. \A q, r \in Threads, x \in Nodes : Owns(q, x)' /\ Owns(r, x)' => q = r
    BY <1>7 DEF IInv, Accounted
  <2>. QED BY <2>2, <2>3, <2>4, <2>5, <2>6 DEF Accounted
<1>12. Onward(p)
  <2>1. \A q \in Threads : q # p /\ pc[q] # "idle" =>
          seen[q] \subseteq seen'[q] /\ Empty(chain)' \in seen'[q]
    BY <1>t, <1>2 DEF ChainBecomes, At, Empty
  <2>2. \A i \in 2..Len(chain)' : chain'[i] \in Nodes
    BY <1>3
  <2>3. \A i \in 2..Len(chain)' : ~Linked(chain'[i]) \/ \E j \in 2..Len(chain) : chain'[i] = chain[j]
    BY <1>1, <1>3
  <2>4. \A q \in Threads, x \in Nodes : q # p /\ Owns(q, x) /\ memory[x] = "allocated" =>
          /\ memory'[x] = "allocated"
          /\ ~InList(x) => ~InList(x)' /\ valueOf'[x] = valueOf[x] /\ nextOf'[x] = nextOf[x]
    <3>. SUFFICES ASSUME NEW q \in Threads, NEW x \in Nodes, q # p, Owns(q, x), memory[x] = "allocated"
                  PROVE  ~InList(x)' /\ nextOf'[x] = nextOf[x]
      BY <1>2
    <3>1. x # m /\ ~InList(x) /\ x # Last
      BY <1>4, <1>7, Owners
    <3>. QED BY <1>t, <1>3, <3>1, Links
  <2>5. \A x \in Nodes : Linked(x) /\ ~InList(x) => ~InList(x)'
    BY <1>1, <1>3
  <2>6. Last' # Null /\ \A x \in Nodes : Linked(x) /\ x = Last' => x = Last
    BY <1>1, <1>3
  <2>7. \A x \in Nodes : Linked(x) => /\ valueOf'[x] = valueOf[x]
                                      /\ nextOf[x].ptr # Null => nextOf'[x].ptr = nextOf[x].ptr
    BY <1>2, <1>4, <1>5
  <2>. QED BY <1>2, <1>6, <2>1, <2>2, <2>3, <2>4, <2>5, <2>6, <2>7 DEF Onward
<1>13. Local(p)'
  <2>1. Owned(p)'
    BY <1>t, <1>2 DEF Owned, Unlinked, ChainBecomes, At, Empty
  <2>2. Loaded(p)'
    <3>1. /\ tail[p].ptr \in Nodes \cup {Null} /\ head[p].ptr \in Nodes \cup {Null}
          /\ tail[p].ptr # m
      BY <1>t, <1>2, <1>4, Types
    <3>2. /\ tail'[p] = tail[p] /\ head'[p] = head[p] /\ next'[p] = next[p]
      BY <1>2 DEF local
    <3>3. PICK h \in Nodes \cup {Null} : h = head[p].ptr
      BY <3>1
    <3>4. h # Null => Linked(h)'
      BY <1>t, <1>6, <3>3 DEF Local, Loaded
    <3>5. /\ tail'[p].ptr # Null => Linked(tail[p].ptr)'
          /\ head'[p].ptr # Null => Linked(head[p].ptr)'
      <4>1. PICK l \in Nodes : l = tail[p].ptr /\ Linked(l)'
        BY <1>2, <1>4, <1>6 DEF Linked
      <4>. QED BY <3>2, <3>3, <3>4, <4>1 DEF Linked, InList, Making
    <3>6. h # m
      BY <1>t, <1>1, <3>3, <1>3 DEF Local, Loaded
    <3>7. \A i \in 2..Len(chain)' : head'[p].ptr # chain'[i]
      BY <1>t, <1>3, <3>2, <3>3, <3>6 DEF Local, Loaded
    <3>. QED BY <1>t, <1>2, <1>3, <3>1, <3>2, <3>5, <3>7 DEF Local, Loaded
  <2>3. Pushing(p)'
    <3>1. tail'[p] = tail[p] /\ node'[p] = m /\ nextOf'[Last].ptr = m /\ Last # Null
      BY <1>1, <1>2, <1>4, <1>5, Naming DEF local
    <3>. QED BY <1>2, <1>3, <3>1 DEF Pushing
  <2>4. Popping(p)'
    BY <1>2 DEF Popping, PopLabels
  <2>. QED BY <2>1, <2>2, <2>3, <2>4 DEF Local
<1>. QED BY <1>2, <1>8, <1>9, <1>10, <1>11, <1>12, <1>13 DEF Kept, Shared

(* The exchange of the head succeeds only while the pop still knows the    *)
(* first two nodes.                                                        *)
LEMMA Takes ==
  ASSUME IInv, NEW p \in Threads, PopSwing(p), queueHead = head[p]
  PROVE  /\ pc[p] = "pop_swing" /\ pc' = [pc EXCEPT ![p] = "pop_free"]
         /\ Len(chain) > 1 /\ next[p].ptr = chain[2] /\ chain[2] \in Nodes
         /\ queueTail.ptr # queueHead.ptr
         /\ obj[p] = valueOf[chain[2]] /\ obj[p] \in Items
         /\ queueHead' = Swung(chain[2], head[p]) /\ queueHead'.ptr = chain[2]
         /\ ChainBecomes(Tail(chain))
         /\ UNCHANGED <<queueTail, nextOf, valueOf, memory, destroyed, calls, local, ret>>
<1>1. pc[p] = "pop_swing"
  BY DEF PopSwing, At
<1>2. /\ next[p].ptr # Null /\ nextOf[queueHead.ptr].ptr = next[p].ptr
      /\ queueTail.ptr # queueHead.ptr /\ obj[p] = valueOf[next[p].ptr]
  BY <1>1 DEF IInv, Local, Popping
<1>3. Len(chain) # 1
  BY <1>2, Successors DEF IInv, ChainIsInMemory
<1>4. Len(chain) > 1 /\ 2 \in 1..Len(chain) /\ 2 \in 2..Len(chain)
  BY <1>3, Chained DEF IInv
<1>5. next[p].ptr = chain[2] /\ chain[2] \in Nodes
  BY <1>2, <1>4, Successors, Chained DEF IInv
<1>6. obj[p] \in Items
  BY <1>2, <1>4, <1>5 DEF IInv, Accounted
<1>7. queueHead' = Swung(chain[2], head[p]) /\ queueHead'.ptr = chain[2]
  BY <1>5 DEF PopSwing, Swung
<1>. QED BY <1>1, <1>2, <1>4, <1>5, <1>6, <1>7 DEF PopSwing, Goto

LEMMA PopSwingKeeps ==
  ASSUME IInv, NEW p \in Threads, ~destroyed, PopSwing(p), queueHead = head[p]
  PROVE  Kept(p)
<1>t. /\ TypeOK /\ Local(p)
      /\ pc \in [Threads -> {"idle"} \cup PushLabels \cup PopLabels \cup EmptyLabels]
      /\ seen \in [Threads -> SUBSET {0, 1}]
      /\ pc[p] = "pop_swing" /\ calls[p] \in 1..MaxCalls
  BY Takes DEF IInv, TypeOK, Local, Owned
<1>1. /\ pc'[p] = "pop_free" /\ Alone(p) /\ Len(chain) > 1
      /\ queueHead'.ptr = chain[2] /\ obj[p] \in Items
      /\ ChainBecomes(Tail(chain)) /\ chain' = Tail(chain)
      /\ UNCHANGED <<queueTail, nextOf, valueOf, memory, destroyed, calls, local>>
  BY <1>t, Takes DEF Alone, local, ChainBecomes
<1>2. PICK m \in Nodes : m = queueHead.ptr /\ m = head[p].ptr
  BY PointersAreSet
<1>3. /\ Len(chain)' = Len(chain) - 1 /\ Len(chain) \in Nat \ {0}
      /\ \A i \in 1..(Len(chain) - 1) : chain'[i] = chain[i + 1]
      /\ Last' = Last /\ Last # Null
      /\ \A x : InList(x)' <=> InList(x) /\ x # m
  BY <1>t, <1>1, <1>2, Shorter, Chained DEF IInv
<1>4. /\ DOMAIN chain = 1..Len(chain) /\ DOMAIN chain' = 1..(Len(chain) - 1)
      /\ \A i \in 1..Len(chain) : chain[i] \in Nodes
      /\ \A i \in 2..Len(chain) : chain[i] # m
  <2>1. chain \in Seq(Nodes) /\ chain # <<>>
    BY <1>t DEF TypeOK
  <2>2. chain' \in Seq(Nodes)
    BY <1>1, <2>1, HeadTailProperties
  <2>3. DOMAIN chain' = 1..Len(chain')
    BY <2>2, LenProperties
  <2>. QED BY <1>t, <1>2, <1>3, <2>3, Chained, Successors DEF IInv
<1>5. InList(m) /\ nextOf[m].ptr # Null /\ memory[m] = "allocated"
  BY <1>1, <1>2, <1>3, Successors DEF IInv, Accounted
<1>6. \A x : Linked(x)' <=> Linked(x)
  <2>1. \A x : Making(x)' <=> Making(x)
    BY <1>t, <1>1, SameMaking DEF Unlinked
  <2>2. ~Making(m)
    BY <1>5, Owners DEF Making, Owns
  <2>. QED BY <1>1, <1>3, <1>5, <2>1, <2>2 DEF Linked
<1>7. ASSUME NEW q \in Threads, NEW x
      PROVE  /\ q # p => (Owns(q, x)' <=> Owns(q, x)) /\ (Owns(q, x) => x # m)
             /\ (Owns(p, x)' <=> x = m) /\ ~Owns(p, x)
  <2>1. q # p => (Owns(q, x)' <=> Owns(q, x))
    BY <1>1 DEF Alone, Owns, local
  <2>2. Owns(q, x) => x # m
    BY <1>5, Owners
  <2>3. (Owns(p, x)' <=> x = m) /\ ~Owns(p, x)
    BY <1>t, <1>1, <1>2 DEF Owns, Unlinked, local
  <2>. QED BY <2>1, <2>2, <2>3
<1>8. ChainIsInMemory'
  <2>1. chain'[1] = queueHead'.ptr
    BY <1>1, <1>3
  <2>2. \A i \in 1..(Len(chain)' - 1) : nextOf'[chain'[i]].ptr = chain'[i + 1]
    BY <1>1, <1>3 DEF IInv, ChainIsInMemory
  <2>3. nextOf'[Last'].ptr = Null
    BY <1>1, <1>3 DEF IInv, ChainIsInMemory
  <2>4. ASSUME NEW i \in DOMAIN chain', NEW j \in DOMAIN chain', chain'[i] = chain'[j] PROVE i = j
    <3>1. i + 1 \in DOMAIN chain /\ j + 1 \in DOMAIN chain /\ chain[i + 1] = chain[j + 1]
      BY <1>3, <1>4, <2>4
    <3>2. i + 1 = j + 1
      BY <3>1 DEF IInv, ChainIsInMemory
    <3>. QED BY <1>4, <3>2
  <2>. QED BY <2>1, <2>2, <2>3, <2>4 DEF ChainIsInMemory
<1>9. TailIsNearEnd'
  <2>1. CASE queueTail.ptr = Last
    BY <1>1, <1>3, <2>1 DEF TailIsNearEnd
  <2>2. CASE queueTail.ptr = chain[Len(chain) - 1]
    <3>1. Len(chain) # 2
      BY <2>2, Takes DEF IInv, ChainIsInMemory
    <3>2. chain'[Len(chain)' - 1] = chain[Len(chain) - 1] /\ Len(chain)' > 1
      BY <1>1, <1>3, <3>1
    <3>. QED BY <1>1, <2>2, <3>2 DEF TailIsNearEnd
  <2>. QED BY <2>1, <2>2 DEF IInv, TailIsNearEnd
<1>10. TailIsSwung'
  BY <1>t, <1>1, <1>3 DEF IInv, TailIsSwung, Alone, local
<1>11. Accounted'
  <2>2. \A x \in Nodes : memory'[x] = "unused" => nextOf'[x].ptr = Null
    BY <1>1 DEF IInv, Accounted
  <2>3. \A i \in 2..Len(chain)' : valueOf'[chain'[i]] \in Items
    BY <1>1, <1>3 DEF IInv, Accounted
  <2>4. ~destroyed' /\ \A x \in Nodes : InList(x)' => memory'[x] = "allocated"
    BY <1>1, <1>3 DEF IInv, Accounted
  <2>5. ASSUME NEW x \in Nodes, memory'[x] = "allocated"
        PROVE  InList(x)' \/ \E q \in Threads : Owns(q, x)'
    BY <1>1, <1>3, <1>7, <2>5 DEF IInv, Accounted
  <2>6. \A q, r \in Threads, x \in Nodes : Owns(q, x)' /\ Owns(r, x)' => q = r
    BY <1>7 DEF IInv, Accounted
  <2>. QED BY <2>2, <2>3, <2>4, <2>5, <2>6 DEF Accounted
<1>12. Onward(p)
  <2>1. \A q \in Threads : q # p /\ pc[q] # "idle" =>
          seen[q] \subseteq seen'[q] /\ Empty(chain)' \in seen'[q]
    BY <1>t, <1>1 DEF ChainBecomes, At, Empty
  <2>2. \A i \in 2..Len(chain)' : chain'[i] \in Nodes
    BY <1>3, <1>4
  <2>3. \A i \in 2..Len(chain)' : ~Linked(chain'[i]) \/ \E j \in 2..Len(chain) : chain'[i] = chain[j]
    <3>. SUFFICES ASSUME NEW i \in 2..Len(chain)' PROVE \E j \in 2..Len(chain) : chain'[i] = chain[j]
      OBVIOUS
    <3>1. i + 1 \in 2..Len(chain) /\ chain'[i] = chain[i + 1]
      BY <1>3
    <3>. QED BY <3>1
  <2>4. \A q \in Threads, x \in Nodes : q # p /\ Owns(q, x) /\ memory[x] = "allocated" =>
          /\ memory'[x] = "allocated"
          /\ ~InList(x) => ~InList(x)' /\ valueOf'[x] = valueOf[x] /\ nextOf'[x] = nextOf[x]
    BY <1>1, <1>3
  <2>. QED BY <1>1, <1>3, <1>6, <2>1, <2>2, <2>3, <2>4 DEF Onward
<1>13. Local(p)'
  <2>1. head'[p] = head[p] /\ tail'[p] = tail[p] /\ next'[p] = next[p] /\ obj'[p] = obj[p]
    BY <1>1 DEF local
  <2>2. ~InList(head[p].ptr)'
    BY <1>1, <1>2, <1>3 DEF InList, local
  <2>3. Owned(p)'
    <3>1. Empty(chain)' \in seen'[p]
      BY <1>t, <1>1 DEF ChainBecomes, At, Empty
    <3>. QED BY <1>t, <1>1, <1>2, <1>5, <2>1, <2>2, <3>1 DEF Owned, Unlinked
  <2>4. Loaded(p)'
    <3>1. PICK h \in Nodes \cup {Null}, l \in Nodes \cup {Null} : h = head[p].ptr /\ l = tail[p].ptr
      BY <1>t, Types
    <3>2. (h # Null => Linked(h)') /\ (l # Null => Linked(l)')
      BY <1>t, <1>6, <3>1 DEF Local, Loaded
    <3>3. /\ tail'[p].ptr # Null => Linked(tail[p].ptr)'
          /\ head'[p].ptr # Null => Linked(head[p].ptr)'
      BY <2>1, <3>1, <3>2 DEF Linked, InList, Making
    <3>4. \A i \in 2..Len(chain)' : head'[p].ptr # chain'[i]
      <4>. SUFFICES ASSUME NEW i \in 2..Len(chain)' PROVE m # chain'[i]
        BY <1>2, <2>1
      <4>1. i + 1 \in 2..Len(chain) /\ chain'[i] = chain[i + 1]
        BY <1>3
      <4>. QED BY <1>4, <4>1
    <3>5. head'[p].ptr # queueHead'.ptr
      <4>1. 2 \in 2..Len(chain)
        BY <1>1, <1>3
      <4>. QED BY <1>1, <1>2, <1>4, <2>1, <4>1
    <3>. QED BY <1>t, <1>1, <1>3, <2>1, <3>3, <3>4, <3>5 DEF Local, Loaded
  <2>5. Pushing(p)' /\ Popping(p)'
    BY <1>t, <1>1, <2>1 DEF Local, Pushing, Popping, PopLabels
  <2>. QED BY <2>3, <2>4, <2>5 DEF Local
<1>. QED BY <1>1, <1>8, <1>9, <1>10, <1>11, <1>12, <1>13 DEF Kept, Shared
------------------------------------------------------------------------------
(* The invariant, from the first state on.                                 *)

LEMMA InitHolds ==
  ASSUME Init
  PROVE  TypeOK /\ Shared /\ \A p \in Threads : Local(p) /\ pc[p] = "idle"
<1>1. PICK n \in 0..MaxFilled :
        /\ queueHead = [ptr |-> 1, count |-> 0]
        /\ queueTail = [ptr |-> n + 1, count |-> n % CountRange]
        /\ nextOf = [m \in Nodes |-> IF m <= n THEN [ptr |-> m + 1, count |-> 1 % CountRange]
                                     ELSE NoPointer]
        /\ valueOf = [m \in Nodes |-> IF m \in 2..(n + 1) THEN Item(0, m - 1) ELSE Null]
        /\ memory = [m \in Nodes |-> IF m <= n + 1 THEN "allocated" ELSE "unused"]
        /\ chain = [i \in 1..(n + 1) |-> i]
  BY DEF Init
<1>2. /\ destroyed = FALSE /\ use \in Uses
      /\ pc = [p \in Threads |-> "idle"] /\ calls = [p \in Threads |-> 0]
      /\ head = [p \in Threads |-> NoPointer] /\ tail = [p \in Threads |-> NoPointer]
      /\ next = [p \in Threads |-> NoPointer] /\ node = [p \in Threads |-> Null]
      /\ obj = [p \in Threads |-> Null] /\ ret = [p \in Threads |-> Null]
      /\ seen = [p \in Threads |-> {}]
  BY DEF Init
<1>3. /\ n \in Nat /\ 1..(n + 1) \subseteq Nodes /\ Nodes \subseteq Nat \ {0}
      /\ MaxCalls \in Nat /\ MaxFilled \in Nat /\ CountRange \in Nat \ {0}
  BY QueueAssumption
<1>4. n % CountRange \in 0..(CountRange - 1) /\ 1 % CountRange \in 0..(CountRange - 1)
  BY <1>3
<1>5. /\ chain \in Seq(Nodes) /\ Len(chain) = n + 1 /\ DOMAIN chain = 1..(n + 1)
      /\ \A i \in 1..(n + 1) : chain[i] = i
  BY <1>1, <1>3
<1>6. Last = n + 1 /\ Last # Null /\ chain # <<>>
  BY <1>3, <1>5, EmptySeq DEF Last, Null
<1>7. \A m \in Nodes : /\ m <= n => nextOf[m].ptr = m + 1
                       /\ m > n => nextOf[m] = NoPointer
                       /\ memory[m] = IF m <= n + 1 THEN "allocated" ELSE "unused"
  BY <1>1, <1>3
<1>8. \A m : InList(m) <=> m \in 1..(n + 1)
  BY <1>5 DEF InList
<1>9. \A i \in 1..n : Item(0, i) \in Items
  <2>. SUFFICES ASSUME NEW i \in 1..n PROVE Item(0, i) \in Items
    OBVIOUS
  <2>1. i \in 1..(MaxCalls + MaxFilled) /\ 0 \in 0..NumThreads
    BY <1>3, QueueAssumption
  <2>. QED BY <2>1, ItemType
<1>10. \A m \in 2..(n + 1) : valueOf[m] \in Items
  <2>. SUFFICES ASSUME NEW m \in 2..(n + 1) PROVE valueOf[m] \in Items
    OBVIOUS
  <2>1. m \in Nodes /\ m - 1 \in 1..n
    BY <1>3
  <2>. QED BY <1>1, <1>9, <2>1
<1>11. TypeOK
  <2>1. queueHead \in NodePointer /\ queueTail \in NodePointer
    BY <1>1, <1>3, <1>4 DEF NodePointer, Null
  <2>2. nextOf \in [Nodes -> NodePointer]
    <3>1. \A m \in Nodes : m <= n => m + 1 \in Nodes
      BY <1>3
    <3>. QED BY <1>1, <1>3, <1>4, <3>1, NoPointerType DEF NodePointer
  <2>3. valueOf \in [Nodes -> Items \cup {Null}]
    BY <1>1, <1>10
  <2>4. memory \in [Nodes -> {"unused", "allocated", "freed"}]
    BY <1>1
  <2>5. calls \in [Threads -> 0..MaxCalls]
    BY <1>2, <1>3
  <2>6. /\ head \in [Threads -> NodePointer] /\ tail \in [Threads -> NodePointer]
        /\ next \in [Threads -> NodePointer]
    BY <1>2, NoPointerType
  <2>7. /\ node \in [Threads -> Nodes \cup {Null}] /\ obj \in [Threads -> Items \cup {Null}]
        /\ ret \in [Threads -> Items \cup {Null, 1}] /\ seen \in [Threads -> SUBSET {0, 1}]
        /\ pc \in [Threads -> {"idle"} \cup PushLabels \cup PopLabels \cup EmptyLabels]
        /\ destroyed \in BOOLEAN /\ use \in Uses
    BY <1>2
  <2>. QED BY <1>5, <1>6, <2>1, <2>2, <2>3, <2>4, <2>5, <2>6, <2>7 DEF TypeOK
<1>12. ChainIsInMemory /\ TailIsNearEnd /\ TailIsSwung
  <2>1. \A i \in 1..n : i \in Nodes /\ nextOf[i].ptr = i + 1
    BY <1>3, <1>7
  <2>2. n + 1 \in Nodes /\ nextOf[n + 1].ptr = Null
    BY <1>3, <1>7, NoPointerType
  <2>. QED BY <1>1, <1>3, <1>5, <1>6, <2>1, <2>2 DEF ChainIsInMemory, TailIsNearEnd, TailIsSwung
<1>13. \A p \in Threads : \A m : ~Owns(p, m)
  BY <1>2 DEF Owns, Unlinked
<1>14. Accounted
  <2>2. ASSUME NEW m \in Nodes, memory[m] = "unused" PROVE nextOf[m].ptr = Null
    <3>1. ~(m <= n + 1) /\ m \in Nat /\ n \in Nat
      BY <1>3, <1>7, <2>2
    <3>2. m > n /\ m \notin 1..(n + 1)
      BY <3>1
    <3>. QED BY <1>7, <3>2, NoPointerType
  <2>3. \A i \in 2..Len(chain) : valueOf[chain[i]] \in Items
    BY <1>3, <1>5, <1>10
  <2>4. \A m \in Nodes : InList(m) <=> memory[m] = "allocated"
    <3>1. \A m \in Nodes : m \in 1..(n + 1) <=> m <= n + 1
      BY <1>3
    <3>. QED BY <1>7, <1>8, <3>1
  <2>. QED BY <1>2, <1>13, <2>2, <2>3, <2>4 DEF Accounted
<1>15. ASSUME NEW p \in Threads PROVE Local(p) /\ pc[p] = "idle"
  <2>1. pc[p] = "idle" /\ head[p].ptr = Null /\ tail[p].ptr = Null /\ next[p].ptr = Null
    BY <1>2, NoPointerType
  <2>2. queueHead.ptr # Null /\ queueTail.ptr # Null /\ \A i \in 2..Len(chain) : chain[i] # Null
    BY <1>1, <1>3, <1>5 DEF Null
  <2>3. Owned(p) /\ Pushing(p) /\ Popping(p)
    BY <2>1 DEF Owned, Unlinked, Pushing, Popping, PopLabels
  <2>4. Loaded(p)
    BY <1>6, <2>1, <2>2 DEF Loaded
  <2>. QED BY <2>1, <2>3, <2>4 DEF Local
<1>. QED BY <1>11, <1>12, <1>14, <1>15 DEF Shared

LEMMA OneMoves ==
  ASSUME TypeOK, NEW p \in Threads, Step(p)
  PROVE  Alone(p)
<1>. USE DEF At, Goto, shared, local, Outside, Begin, Return, Retry, TypeOK, Alone
<1>1. CASE Push(p)
  BY <1>1 DEF Push, StartPush, PushInit, PushLoadTail, PushLoadNext, PushCheckCount, PushCheckPtr,
     PushLink, PushHelp, PushSwing
<1>2. CASE Pop(p)
  BY <1>2 DEF Pop, StartPop, PopLoadHead, PopLoadTail, PopLoadNext, PopCheckCount, PopCheckPtr,
     PopChanged, PopNull, PopHelp, PopLoadValue, PopSwing, PopFree
<1>3. CASE IsEmpty(p)
  BY <1>3 DEF IsEmpty, StartIsEmpty, EmptyLoadHead, EmptyLoadNext
<1>. QED BY <1>1, <1>2, <1>3 DEF Step

AllCalls == [p \in Threads |-> CallOf(p)]
AllValues == [p \in Threads |-> ValueOf(p)]

LEMMA StepKeeps ==
  ASSUME IInv, NEW p \in Threads, Step(p), Spared
  PROVE  Kept(p) /\ TypeOK'
<1>1. ~destroyed
  BY Busy
<1>2. CASE Push(p)
  BY <1>1, <1>2, PushTypes, CoreHolds, StartPushKeeps, PushInitKeeps, PushReads, PushLinkKeeps,
     HelpsKeep DEF Push
<1>3. CASE Pop(p)
  BY <1>1, <1>3, PopTypes, CoreHolds, EmptyReads, PopReads, PopSwingKeeps, HelpsKeep, PopFreeKeeps
     DEF Pop
<1>4. CASE IsEmpty(p)
  BY <1>1, <1>4, EmptyTypes, CoreHolds, EmptyReads DEF IsEmpty
<1>. QED BY <1>2, <1>3, <1>4 DEF Step

LEMMA DestroyKeeps ==
  ASSUME IInv, Destroy
  PROVE  IInv'
<1>t. /\ TypeOK /\ memory \in [Nodes -> {"unused", "allocated", "freed"}]
      /\ Last \in Nodes /\ Last # Null /\ Len(chain) \in Nat \ {0}
      /\ queueHead.count \in Nat /\ CountRange \in Nat \ {0}
  BY Chained, QueueAssumption DEF IInv, TypeOK, NodePointer
<1>1. /\ destroyed' /\ \A p \in Threads : pc[p] = "idle"
      /\ memory' = [m \in Nodes |-> IF InList(m) THEN "freed" ELSE memory[m]]
      /\ queueHead' = [ptr |-> Last, count |-> (queueHead.count + Len(chain) - 1) % CountRange]
      /\ chain' = <<Last>>
      /\ UNCHANGED <<queueTail, nextOf, valueOf, use, pc, calls, local, ret, seen>>
  BY DEF Destroy, At, InList
<1>2. /\ Len(chain)' = 1 /\ DOMAIN chain' = {1} /\ chain'[1] = Last /\ Last' = Last
      /\ chain' \in Seq(Nodes) /\ chain' # <<>>
  BY <1>t, <1>1 DEF Last
<1>3. queueHead' \in NodePointer /\ queueHead'.ptr = Last
  <2>1. queueHead.count + Len(chain) - 1 \in Nat
    BY <1>t
  <2>2. (queueHead.count + Len(chain) - 1) % CountRange \in 0..(CountRange - 1)
    BY <1>t, <2>1
  <2>. QED BY <1>t, <1>1, <2>2 DEF NodePointer
<1>4. queueTail.ptr = Last
  BY <1>1 DEF IInv, TailIsSwung
<1>5. TypeOK'
  <2>1. memory' \in [Nodes -> {"unused", "allocated", "freed"}]
    BY <1>t, <1>1
  <2>. QED BY <1>t, <1>1, <1>2, <1>3, <2>1 DEF TypeOK, local
<1>6. ChainIsInMemory' /\ TailIsNearEnd' /\ TailIsSwung'
  <2>1. nextOf'[Last'].ptr = Null
    BY <1>1, <1>2 DEF IInv, ChainIsInMemory
  <2>. QED BY <1>1, <1>2, <1>3, <1>4, <2>1 DEF ChainIsInMemory, TailIsNearEnd, TailIsSwung
<1>7. \A x : InList(x)' <=> x = Last
  BY <1>2 DEF InList
<1>8. \A x \in Nodes : Linked(x)' <=> Linked(x)
  <2>1. \A x : ~Making(x) /\ ~Making(x)'
    BY <1>1 DEF Making, Unlinked
  <2>. QED BY <1>1, <1>7, <2>1, Successors DEF IInv, Linked
<1>9. \A p \in Threads : \A m : ~Owns(p, m) /\ ~Owns(p, m)'
  BY <1>1 DEF Owns, Unlinked
<1>10. Accounted'
  <2>2. \A x \in Nodes : memory'[x] = "unused" => nextOf'[x].ptr = Null
    BY <1>t, <1>1 DEF IInv, Accounted
  <2>3. \A x \in Nodes : memory'[x] # "allocated"
    BY <1>t, <1>1, <1>9 DEF IInv, Accounted
  <2>. QED BY <1>1, <1>2, <1>9, <2>2, <2>3 DEF Accounted
<1>11. ASSUME NEW p \in Threads PROVE Local(p)'
  <2>1. pc'[p] = "idle" /\ UNCHANGED <<head, tail, next>> /\ Loaded(p) /\ head[p].ptr = Null /\ tail[p].ptr = Null
    BY <1>1 DEF IInv, Local, local, Popping
  <2>2. Owned(p)' /\ Pushing(p)' /\ Popping(p)'
    BY <2>1 DEF Owned, Unlinked, Pushing, Popping, PopLabels
  <2>3. Loaded(p)'
    <3>1. PICK h \in Nodes \cup {Null}, l \in Nodes \cup {Null} : h = head[p].ptr /\ l = tail[p].ptr
      BY <1>t, Types
    <3>2. (h # Null => Linked(h)') /\ (l # Null => Linked(l)')
      BY <1>8, <2>1, <3>1 DEF Loaded
    <3>3. /\ tail'[p].ptr # Null => Linked(tail[p].ptr)'
          /\ head'[p].ptr # Null => Linked(head[p].ptr)'
      BY <2>1, <3>1, <3>2 DEF Linked, InList, Making
    <3>. QED BY <1>t, <1>1, <1>2, <1>3, <1>4, <2>1, <3>3 DEF Loaded
  <2>. QED BY <2>2, <2>3 DEF Local
<1>. QED BY <1>1, <1>5, <1>6, <1>10, <1>11 DEF IInv

LEMMA StepKeepsIInv ==
  ASSUME IInv, NEW p \in Threads, Step(p), Spared
  PROVE  IInv'
<1>1. Shared' /\ Onward(p) /\ Alone(p) /\ Local(p)' /\ TypeOK'
  BY StepKeeps DEF Kept
<1>2. \A q \in Threads : Local(q)'
  BY <1>1, OthersKeep
<1>. QED BY <1>1, <1>2 DEF IInv, Shared

(* A careful malloc, which the run queue assumes, spares the nodes to      *)
(* which a thread points.                                                  *)
THEOREM CarefulSpares == Spec /\ [](use.careful) => NothingHeldReused
<1>. DEFINE MemoryType == memory \in [Nodes -> {"unused", "allocated", "freed"}]
<1>1. Init => MemoryType
  BY DEF Init
<1>2. MemoryType /\ [Next]_vars => MemoryType' /\ (use.careful => [Spared]_vars)
  <2>. SUFFICES ASSUME MemoryType, [Next]_vars PROVE MemoryType' /\ (use.careful => Spared)
    OBVIOUS
  <2>1. CASE UNCHANGED memory
    BY <2>1 DEF Spared
  <2>2. ASSUME NEW p \in Threads, StartPush(p) PROVE MemoryType' /\ (use.careful => Spared)
    <3>1. PICK m \in Available : memory' = [memory EXCEPT ![m] = "allocated"]
      BY <2>2 DEF StartPush
    <3>2. MemoryType' /\ \A x \in Nodes : x # m => memory'[x] = memory[x]
      BY <3>1
    <3>3. ASSUME use.careful, memory[m] = "freed" PROVE \A q \in Threads : ~Holds(q, m)
      BY <3>1, <3>3 DEF Available
    <3>. QED BY <3>2, <3>3 DEF Spared
  <2>3. ASSUME NEW p \in Threads, PopFree(p) PROVE MemoryType' /\ Spared
    BY <2>3 DEF PopFree, Spared
  <2>4. CASE Destroy
    BY <2>4 DEF Destroy, Spared
  <2>5. ASSUME NEW p \in Threads, Step(p) PROVE UNCHANGED memory \/ StartPush(p) \/ PopFree(p)
    <3>1. CASE Push(p)
      BY <3>1 DEF Push, PushInit, PushLoadTail, PushLoadNext, PushCheckCount, PushCheckPtr, PushLink,
         PushHelp, PushSwing, shared
    <3>2. CASE Pop(p)
      BY <3>2 DEF Pop, StartPop, PopLoadHead, PopLoadTail, PopLoadNext, PopCheckCount, PopCheckPtr,
         PopChanged, PopNull, PopHelp, PopLoadValue, PopSwing, shared
    <3>3. CASE IsEmpty(p)
      BY <3>3 DEF IsEmpty, StartIsEmpty, EmptyLoadHead, EmptyLoadNext, shared
    <3>. QED BY <2>5, <3>1, <3>2, <3>3 DEF Step
  <2>. QED BY <2>1, <2>2, <2>3, <2>4, <2>5 DEF Next, vars, shared
<1>. QED BY <1>1, <1>2, PTL DEF Spec, NothingHeldReused

(* The invariant from which the theorems below follow: whatever the        *)
(* threads hold was linked, and nobody reaches behind a freed node.        *)
THEOREM Invariance == Spec /\ NothingHeldReused => []IInv
<1>1. Init => IInv
  BY InitHolds DEF IInv, Shared
<1>2. IInv /\ [Next]_vars /\ [Spared]_vars => IInv'
  <2>. SUFFICES ASSUME IInv, [Next]_vars, [Spared]_vars PROVE IInv'
    OBVIOUS
  <2>1. CASE UNCHANGED vars
    BY <2>1 DEF vars, shared, local, history, IInv, TypeOK, ChainIsInMemory, TailIsNearEnd,
       TailIsSwung, Accounted, InList, Making, Linked, Owns, Last, Local, Owned, Loaded, Pushing,
       Popping, Empty
  <2>. QED BY <2>1, StepKeepsIInv, DestroyKeeps DEF Next
<1>. QED BY <1>1, <1>2, PTL DEF Spec, NothingHeldReused

(* Every variable keeps its type: counts within their range, values, nodes *)
(* and pointers what they should be, and the list never empty.             *)
THEOREM TypeCorrect == Spec /\ NothingHeldReused => []TypeOK
BY Invariance, PTL DEF IInv

(* From the head every next field leads to the node linked there           *)
(* (queue_push line 75, queue_pop line 116).                               *)
THEOREM ListInMemory == Spec /\ NothingHeldReused => []ChainIsInMemory
BY Invariance, PTL DEF IInv

(* The tail is never behind the head and at most one node from the end     *)
(* (lines 81, 85 and 110).                                                 *)
THEOREM TailNearEnd == Spec /\ NothingHeldReused => []TailIsNearEnd
BY Invariance, PTL DEF IInv

(* queue_destroy leaves no node allocated, and no pop frees a node twice   *)
(* (queue_destroy, queue_pop line 121).                                    *)
THEOREM NoLeak == Spec /\ NothingHeldReused => []NothingLeaks
<1>1. IInv => NothingLeaks
  BY DEF IInv, Accounted, Local, Owned, NothingLeaks
<1>. QED BY <1>1, Invariance, PTL

(* Threads that still point to nodes that were freed change nothing by     *)
(* comparing with them: nothing is linked behind a freed node, the tail is *)
(* not swung from one, the head is swung to the node whose value was read  *)
(* (lines 75-81 and 110-121).                                              *)
THEOREM LateOnesFail == Spec /\ NothingHeldReused => []LateExchangesFail
<1>1. IInv => LateExchangesFail
  <2>. SUFFICES ASSUME IInv, NEW p \in Threads, pc[p] # "idle"
                PROVE  /\ pc[p] = "push_link" /\ nextOf[tail[p].ptr] = next[p] =>
                            memory[tail[p].ptr] = "allocated"
                       /\ queueTail = tail[p] => memory[tail[p].ptr] = "allocated"
                       /\ pc[p] = "pop_swing" /\ queueHead = head[p] =>
                            memory[next[p].ptr] = "allocated" /\ obj[p] = valueOf[next[p].ptr]
    BY DEF LateExchangesFail
  <2>1. \A m \in Nodes : InList(m) => memory[m] = "allocated"
    BY DEF IInv, Accounted
  <2>2. ASSUME pc[p] = "push_link", nextOf[tail[p].ptr] = next[p] PROVE tail[p].ptr = Last
    BY <2>2, CoreHolds DEF CoreInv, Ready
  <2>3. memory[Last] = "allocated" /\ memory[queueTail.ptr] = "allocated"
    BY <2>1, Successors, Chained, PointersAreSet DEF IInv
  <2>4. ASSUME pc[p] = "pop_swing", queueHead = head[p]
        PROVE  memory[next[p].ptr] = "allocated" /\ obj[p] = valueOf[next[p].ptr]
    <3>1. /\ next[p].ptr # Null /\ nextOf[queueHead.ptr].ptr = next[p].ptr
          /\ obj[p] = valueOf[next[p].ptr]
      BY <2>4 DEF IInv, Local, Popping
    <3>2. Len(chain) > 1
      BY <2>4, CoreHolds DEF CoreInv, Ready
    <3>3. next[p].ptr = chain[2] /\ chain[2] \in Nodes /\ InList(chain[2])
      BY <3>1, <3>2, Successors, Chained DEF IInv, InList
    <3>. QED BY <2>1, <3>1, <3>3
  <2>. QED BY <2>2, <2>3, <2>4
<1>. QED BY <1>1, Invariance, PTL
------------------------------------------------------------------------------
(* The steps, seen as steps of Fifo.                                       *)

LEMMA OneCaller ==
  ASSUME NEW p \in Threads, Alone(p)
  PROVE  /\ AllCalls' = [AllCalls EXCEPT ![p] = CallOf(p)']
         /\ AllValues' = [AllValues EXCEPT ![p] = ValueOf(p)']
<1>1. \A q \in Threads : q # p => CallOf(q)' = CallOf(q) /\ ValueOf(q)' = ValueOf(q)
  BY DEF Alone, CallOf, ValueOf
<1>. QED BY <1>1 DEF AllCalls, AllValues

(* The items are those of the nodes behind the dummy.                      *)
LEMMA ContentsAre ==
  ASSUME CoreInv
  PROVE  /\ Contents \in Seq(Items) /\ Len(Contents) = Len(chain) - 1
         /\ \A i \in 1..(Len(chain) - 1) : Contents[i] = valueOf[chain[i + 1]]
         /\ (Contents = <<>>) <=> (Len(chain) = 1)
         /\ Queue!Empty(Contents) = Empty(chain)
<1>1. Len(chain) - 1 \in Nat
  BY Chained DEF CoreInv
<1>2. \A i \in 1..(Len(chain) - 1) : valueOf[chain[i + 1]] \in Items
  <2>1. \A i \in 1..(Len(chain) - 1) : i + 1 \in 2..Len(chain)
    BY <1>1
  <2>. QED BY <2>1 DEF CoreInv
<1>3. Contents \in [1..(Len(chain) - 1) -> Items]
  BY <1>2 DEF Contents
<1>4. Contents \in Seq(Items) /\ Len(Contents) = Len(chain) - 1
  BY <1>1, <1>3
<1>5. (Contents = <<>>) <=> (Len(chain) = 1)
  BY <1>1, <1>4, EmptySeq
<1>. QED BY <1>4, <1>5 DEF Contents, Queue!Empty, Empty

LEMMA SameContents ==
  ASSUME TypeOK, chain' = chain, \A m \in Nodes : InList(m) => valueOf'[m] = valueOf[m]
  PROVE  Contents' = Contents
<1>1. Len(chain) \in Nat /\ DOMAIN chain = 1..Len(chain) /\ \A i \in 1..Len(chain) : chain[i] \in Nodes
  BY Chained
<1>2. \A i \in 1..(Len(chain) - 1) : i + 1 \in DOMAIN chain /\ chain[i + 1] \in Nodes
  BY <1>1
<1>3. \A i \in 1..(Len(chain) - 1) : valueOf'[chain[i + 1]] = valueOf[chain[i + 1]]
  BY <1>2 DEF InList
<1>. QED BY <1>3 DEF Contents

(* A step that leaves the list, the answers and the results alone, and     *)
(* stays within the same part of the same call, is none of Fifo.           *)
LEMMA Inside ==
  ASSUME TypeOK, NEW p \in Threads, Alone(p), UNCHANGED <<chain, seen, ret, calls>>,
         \A m \in Nodes : InList(m) => valueOf'[m] = valueOf[m],
         \/ {pc[p], pc'[p]} \subseteq PushLabels \ {"push_swing"}
         \/ {pc[p], pc'[p]} \subseteq PopLabels \ {"pop_free"}
         \/ {pc[p], pc'[p]} \subseteq EmptyLabels
  PROVE  UNCHANGED Queue!fifoVars
<1>1. CallOf(p)' = CallOf(p) /\ ValueOf(p)' = ValueOf(p)
  BY DEF CallOf, ValueOf, PushLabels, PopLabels, EmptyLabels
<1>2. AllCalls' = AllCalls /\ AllValues' = AllValues
  BY <1>1, OneCaller DEF AllCalls, AllValues
<1>3. Contents' = Contents
  BY SameContents
<1>. QED BY <1>2, <1>3 DEF Queue!fifoVars, AllCalls, AllValues

LEMMA Starts ==
  ASSUME CoreInv, NEW p \in Threads, StartPush(p) \/ StartPop(p) \/ StartIsEmpty(p)
  PROVE  \/ \E x \in Items : Queue!Start(p, "push", x)
         \/ Queue!Start(p, "pop", Null) \/ Queue!Start(p, "is_empty", Null)
<1>1. Alone(p) /\ TypeOK
  BY OneMoves DEF CoreInv, Step, Push, Pop, IsEmpty
<1>2. /\ pc[p] = "idle" /\ chain' = chain /\ ret' = ret
      /\ seen' = [seen EXCEPT ![p] = {Empty(chain)}]
      /\ calls'[p] = calls[p] + 1 /\ calls[p] < MaxCalls /\ calls[p] \in 0..MaxCalls
  BY DEF StartPush, StartPop, StartIsEmpty, Begin, At, CoreInv, TypeOK
<1>3. CallOf(p) = "none" /\ AllCalls[p] = "none"
  BY <1>2 DEF CallOf, AllCalls, PushLabels, PopLabels, EmptyLabels
<1>4. Contents' = Contents /\ Queue!Empty(Contents) = Empty(chain)
  BY <1>1, <1>2, SameContents, ContentsAre DEF StartPush, StartPop, StartIsEmpty, shared
<1>5. CASE StartPush(p)
  <2>0. pc'[p] = "push_init"
    BY <1>5 DEF StartPush, Begin, Goto, CoreInv, TypeOK
  <2>1. CallOf(p)' = "push" /\ ValueOf(p)' = Item(p, calls'[p])
    BY <2>0 DEF CallOf, ValueOf, PushLabels, PopLabels, EmptyLabels
  <2>2. Item(p, calls'[p]) \in Items
    <3>1. calls'[p] \in 1..(MaxCalls + MaxFilled) /\ p \in 0..NumThreads
      BY <1>2, QueueAssumption DEF Threads
    <3>. QED BY <3>1, ItemType
  <2>3. Queue!Start(p, "push", Item(p, calls'[p]))
    BY <1>1, <1>2, <1>3, <1>4, <2>1, OneCaller DEF Queue!Start, AllCalls, AllValues
  <2>. QED BY <2>2, <2>3
<1>6. CASE StartPop(p)
  <2>0. pc'[p] = "pop_head"
    BY <1>6 DEF StartPop, Begin, Goto, CoreInv, TypeOK
  <2>1. CallOf(p)' = "pop" /\ ValueOf(p)' = Null
    BY <2>0 DEF CallOf, ValueOf, PushLabels, PopLabels, EmptyLabels
  <2>. QED BY <1>1, <1>2, <1>3, <1>4, <2>1, OneCaller DEF Queue!Start, AllCalls, AllValues
<1>7. CASE StartIsEmpty(p)
  <2>0. pc'[p] = "empty_head"
    BY <1>7 DEF StartIsEmpty, Begin, Goto, CoreInv, TypeOK
  <2>1. CallOf(p)' = "is_empty" /\ ValueOf(p)' = Null
    BY <2>0 DEF CallOf, ValueOf, PushLabels, PopLabels, EmptyLabels
  <2>. QED BY <1>1, <1>2, <1>3, <1>4, <2>1, OneCaller DEF Queue!Start, AllCalls, AllValues
<1>. QED BY <1>5, <1>6, <1>7

LEMMA IdleIsNone ==
  ASSUME TypeOK, NEW q \in Threads
  PROVE  AllCalls[q] = "none" <=> pc[q] = "idle"
<1>1. pc[q] \in {"idle"} \cup PushLabels \cup PopLabels \cup EmptyLabels
  BY DEF TypeOK
<1>. QED BY <1>1 DEF AllCalls, CallOf, PushLabels, PopLabels, EmptyLabels

LEMMA Puts ==
  ASSUME CoreInv, NEW p \in Threads, PushLink(p), nextOf[tail[p].ptr] = next[p]
  PROVE  Queue!Put(p)
<1>1. /\ pc[p] = "push_link" /\ pc'[p] = "push_swing"
      /\ ChainBecomes(Append(chain, node[p])) /\ node[p] \in Nodes
      /\ valueOf[node[p]] = Item(p, calls[p]) /\ UNCHANGED <<valueOf, ret>>
      /\ calls[p] \in 1..MaxCalls
  BY DEF PushLink, At, Goto, CoreInv, TypeOK, Ready, Unlinked
<1>2. Alone(p) /\ TypeOK
  BY OneMoves DEF CoreInv, Step, Push
<1>3. CallOf(p) = "push" /\ ValueOf(p) = Item(p, calls[p]) /\ CallOf(p)' = "push" /\ ValueOf(p)' = Null
  BY <1>1 DEF CallOf, ValueOf, PushLabels, PopLabels, EmptyLabels
<1>4. Item(p, calls[p]) \in Items /\ Item(p, calls[p]) # Null
  <2>1. calls[p] \in 1..(MaxCalls + MaxFilled) /\ p \in 0..NumThreads
    BY <1>1, QueueAssumption DEF Threads
  <2>. QED BY <2>1, ItemType, ItemsAreNotNull
<1>5. Contents' = Append(Contents, Item(p, calls[p]))
  <2>1. /\ Len(chain)' = Len(chain) + 1 /\ Len(chain) \in Nat \ {0}
        /\ \A i \in 1..Len(chain) : chain'[i] = chain[i]
        /\ chain'[Len(chain) + 1] = node[p]
    BY <1>1, <1>2, Longer DEF ChainBecomes
  <2>2. /\ Contents \in Seq(Items) /\ Len(Contents) = Len(chain) - 1
        /\ \A i \in 1..(Len(chain) - 1) : Contents[i] = valueOf[chain[i + 1]]
    BY ContentsAre
  <2>3. Contents' = [i \in 1..Len(chain) |-> valueOf[chain'[i + 1]]]
    BY <1>1, <2>1 DEF Contents
  <2>4. /\ Append(Contents, Item(p, calls[p])) \in Seq(Items)
        /\ Len(Append(Contents, Item(p, calls[p]))) = Len(chain)
        /\ \A i \in 1..(Len(chain) - 1) : Append(Contents, Item(p, calls[p]))[i] = Contents[i]
        /\ Append(Contents, Item(p, calls[p]))[Len(chain)] = Item(p, calls[p])
    BY <1>4, <2>1, <2>2, AppendProperties
  <2>5. \A i \in 1..Len(chain) : Append(Contents, Item(p, calls[p]))[i] = valueOf[chain'[i + 1]]
    <3>. SUFFICES ASSUME NEW i \in 1..Len(chain)
                  PROVE  Append(Contents, Item(p, calls[p]))[i] = valueOf[chain'[i + 1]]
      OBVIOUS
    <3>1. CASE i = Len(chain)
      BY <1>1, <2>1, <2>4, <3>1
    <3>2. CASE i \in 1..(Len(chain) - 1)
      BY <2>1, <2>2, <2>4, <3>2
    <3>3. i = Len(chain) \/ i \in 1..(Len(chain) - 1)
      BY <2>1
    <3>. QED BY <3>1, <3>2, <3>3
  <2>6. /\ DOMAIN Append(Contents, Item(p, calls[p])) = 1..Len(chain)
        /\ Append(Contents, Item(p, calls[p])) \in [1..Len(chain) -> Items]
    BY <2>4, LenProperties
  <2>. QED BY <2>3, <2>5, <2>6
<1>6. Queue!Empty(Append(Contents, Item(p, calls[p]))) = Empty(Append(chain, node[p]))
  <2>1. /\ Len(Append(chain, node[p])) = Len(chain) + 1 /\ Len(chain) \in Nat \ {0}
        /\ Len(Append(Contents, Item(p, calls[p]))) = Len(chain)
    <3>1. chain \in Seq(Nodes) /\ Len(chain) \in Nat \ {0}
      BY <1>2, Chained
    <3>2. Len(Append(chain, node[p])) = Len(chain) + 1
      BY <1>1, <3>1, AppendProperties
    <3>3. Contents \in Seq(Items) /\ Len(Contents) = Len(chain) - 1
      BY ContentsAre
    <3>4. Len(Append(Contents, Item(p, calls[p]))) = Len(Contents) + 1
      BY <1>4, <3>3, AppendProperties
    <3>. QED BY <3>1, <3>2, <3>3, <3>4
  <2>2. Append(Contents, Item(p, calls[p])) # <<>>
    <3>1. Len(Append(Contents, Item(p, calls[p]))) > 0
      BY <2>1
    <3>. QED BY <3>1, NotEmpty, Zenon
  <2>. QED BY <2>1, <2>2 DEF Queue!Empty, Empty
<1>7. seen' = [q \in Threads |-> IF AllCalls[q] = "none" THEN {}
                                 ELSE seen[q] \cup {Empty(Append(chain, node[p]))}]
  BY <1>1, <1>2, IdleIsNone DEF ChainBecomes, At
<1>8. Queue!Becomes(Append(Contents, Item(p, calls[p])))
  BY <1>5, <1>6, <1>7 DEF Queue!Becomes, AllCalls
<1>9. AllCalls' = AllCalls /\ AllValues' = [AllValues EXCEPT ![p] = Null]
  BY <1>2, <1>3, OneCaller DEF AllCalls
<1>. QED BY <1>1, <1>3, <1>4, <1>8, <1>9 DEF Queue!Put, AllCalls, AllValues

LEMMA TakesItem ==
  ASSUME CoreInv, NEW p \in Threads, PopSwing(p), queueHead = head[p]
  PROVE  Queue!Take(p)
<1>1. /\ pc[p] = "pop_swing" /\ pc'[p] = "pop_free" /\ Len(chain) > 1
      /\ ChainBecomes(Tail(chain)) /\ obj[p] = valueOf[chain[2]] /\ UNCHANGED <<valueOf, obj, ret>>
  BY DEF PopSwing, At, Goto, CoreInv, TypeOK, Ready, local
<1>2. Alone(p) /\ TypeOK
  BY OneMoves DEF CoreInv, Step, Pop
<1>3. CallOf(p) = "pop" /\ ValueOf(p) = Null /\ CallOf(p)' = "pop" /\ ValueOf(p)' = obj[p]
  BY <1>1 DEF CallOf, ValueOf, PushLabels, PopLabels, EmptyLabels
<1>4. /\ Contents \in Seq(Items) /\ Len(Contents) = Len(chain) - 1 /\ Len(chain) \in Nat
      /\ \A i \in 1..(Len(chain) - 1) : Contents[i] = valueOf[chain[i + 1]]
      /\ Contents # <<>>
  <2>1. Len(chain) \in Nat \ {0}
    BY <1>2, Chained
  <2>2. Contents # <<>> <=> Len(chain) # 1
    BY ContentsAre
  <2>. QED BY <1>1, <2>1, <2>2, ContentsAre
<1>5. /\ Head(Contents) = obj[p]
      /\ Tail(Contents) \in Seq(Items) /\ Len(Tail(Contents)) = Len(chain) - 2
      /\ \A i \in 1..(Len(chain) - 2) : Tail(Contents)[i] = Contents[i + 1]
  <2>1. Head(Contents) = Contents[1]
    BY <1>4
  <2>2. Contents[1] = valueOf[chain[2]]
    BY <1>1, <1>4
  <2>. QED BY <1>1, <1>4, <2>1, <2>2, HeadTailProperties
<1>6. Contents' = Tail(Contents)
  <2>1. /\ Len(chain)' = Len(chain) - 1
        /\ \A i \in 1..(Len(chain) - 1) : chain'[i] = chain[i + 1]
    BY <1>1, <1>2, Shorter DEF CoreInv, ChainBecomes
  <2>2. Contents' = [i \in 1..(Len(chain) - 2) |-> valueOf[chain'[i + 1]]]
    BY <1>1, <1>4, <2>1 DEF Contents
  <2>3. \A i \in 1..(Len(chain) - 2) : Tail(Contents)[i] = valueOf[chain'[i + 1]]
    <3>. SUFFICES ASSUME NEW i \in 1..(Len(chain) - 2)
                  PROVE  Tail(Contents)[i] = valueOf[chain'[i + 1]]
      OBVIOUS
    <3>1. i + 1 \in 1..(Len(chain) - 1)
      BY <1>4
    <3>. QED BY <1>4, <1>5, <2>1, <3>1
  <2>4. Tail(Contents) \in [1..(Len(chain) - 2) -> Items]
    BY <1>5, LenProperties
  <2>. QED BY <2>2, <2>3, <2>4
<1>7. Queue!Empty(Tail(Contents)) = Empty(Tail(chain))
  <2>1. Len(Tail(chain)) = Len(chain) - 1
    BY <1>2, Chained, HeadTailProperties DEF TypeOK
  <2>2. Tail(Contents) = <<>> <=> Len(chain) = 2
    <3>1. Tail(Contents) = <<>> => Len(Tail(Contents)) = 0
      BY EmptySeq
    <3>2. Len(Tail(Contents)) = 0 => Tail(Contents) = <<>>
      BY <1>5, EmptySeq
    <3>. QED BY <1>1, <1>4, <1>5, <3>1, <3>2
  <2>. QED BY <1>1, <1>4, <2>1, <2>2 DEF Queue!Empty, Empty
<1>8. seen' = [q \in Threads |-> IF AllCalls[q] = "none" THEN {}
                                 ELSE seen[q] \cup {Empty(Tail(chain))}]
  BY <1>1, <1>2, IdleIsNone DEF ChainBecomes, At
<1>9. Queue!Becomes(Tail(Contents))
  BY <1>6, <1>7, <1>8 DEF Queue!Becomes, AllCalls
<1>10. AllCalls' = AllCalls /\ AllValues' = [AllValues EXCEPT ![p] = obj[p]]
  BY <1>2, <1>3, OneCaller DEF AllCalls
<1>. QED BY <1>1, <1>3, <1>4, <1>5, <1>9, <1>10 DEF Queue!Take, AllCalls, AllValues

(* A call returns: Fifo lets it, if it lets it return that result.         *)
LEMMA Returning ==
  ASSUME CoreInv, NEW p \in Threads, Alone(p), NEW x, Return(p, x), UNCHANGED valueOf
  PROVE  Queue!Return(p, x)
<1>1. pc'[p] = "idle"
  BY DEF Return, Goto, CoreInv, TypeOK
<1>2. CallOf(p)' = "none" /\ ValueOf(p)' = Null
  BY <1>1 DEF CallOf, ValueOf, PushLabels, PopLabels, EmptyLabels
<1>3. Contents' = Contents /\ seen' = [seen EXCEPT ![p] = {}] /\ ret' = [ret EXCEPT ![p] = x]
  BY SameContents DEF Return, CoreInv
<1>. QED BY <1>1, <1>2, <1>3, OneCaller DEF Queue!Return, AllCalls, AllValues

LEMMA PushReturns ==
  ASSUME CoreInv, NEW p \in Threads, PushSwing(p), Alone(p)
  PROVE  Queue!ReturnPush(p)
<1>1. pc[p] = "push_swing"
  BY DEF PushSwing, CoreInv, Ready
<1>2. CallOf(p) = "push" /\ ValueOf(p) = Null
  BY <1>1 DEF CallOf, ValueOf, PushLabels, PopLabels, EmptyLabels
<1>3. Queue!Return(p, Null)
  BY Returning DEF PushSwing
<1>. QED BY <1>2, <1>3 DEF Queue!ReturnPush, AllCalls, AllValues

LEMMA PopReturns ==
  ASSUME CoreInv, NEW p \in Threads, PopFree(p), Alone(p)
  PROVE  Queue!ReturnPop(p)
<1>1. pc[p] = "pop_free" /\ obj[p] \in Items
  BY DEF PopFree, At, CoreInv, Ready
<1>2. CallOf(p) = "pop" /\ ValueOf(p) = obj[p] /\ obj[p] # Null
  BY <1>1, ItemsAreNotNull DEF CallOf, ValueOf, PushLabels, PopLabels, EmptyLabels
<1>3. Queue!Return(p, obj[p])
  BY Returning DEF PopFree
<1>. QED BY <1>2, <1>3 DEF Queue!ReturnPop, AllCalls, AllValues

LEMMA PopReturnsNull ==
  ASSUME CoreInv, NEW p \in Threads, PopNull(p), Alone(p)
  PROVE  Queue!ReturnNull(p)
<1>1. pc[p] = "pop_ptr" /\ next[p].ptr = Null /\ 1 \in seen[p]
  BY DEF PopNull, At, CoreInv, Ready
<1>2. CallOf(p) = "pop" /\ ValueOf(p) = Null
  BY <1>1 DEF CallOf, ValueOf, PushLabels, PopLabels, EmptyLabels
<1>3. Queue!Return(p, Null)
  BY Returning DEF PopNull, shared
<1>. QED BY <1>1, <1>2, <1>3 DEF Queue!ReturnNull, AllCalls, AllValues

LEMMA EmptyReturns ==
  ASSUME CoreInv, NEW p \in Threads, EmptyLoadNext(p), Alone(p)
  PROVE  Queue!ReturnIsEmpty(p)
<1>1. PICK answer \in seen[p] : Return(p, answer)
  BY DEF EmptyLoadNext, At, CoreInv, Ready
<1>2. CallOf(p) = "is_empty"
  BY DEF EmptyLoadNext, At, CallOf, PushLabels, PopLabels, EmptyLabels
<1>3. Queue!Return(p, answer)
  BY <1>1, Returning DEF EmptyLoadNext, shared
<1>. QED BY <1>2, <1>3 DEF Queue!ReturnIsEmpty, AllCalls

LEMMA Destroys ==
  ASSUME Destroy
  PROVE  Queue!Destroy
<1>1. /\ \A p \in Threads : pc[p] = "idle"
      /\ chain' = <<Last>> /\ UNCHANGED <<seen, ret, pc, calls, obj>>
  BY DEF Destroy, At, local
<1>2. \A p \in Threads : CallOf(p) = "none" /\ CallOf(p)' = "none" /\ ValueOf(p)' = ValueOf(p)
  BY <1>1 DEF CallOf, ValueOf, PushLabels, PopLabels, EmptyLabels
<1>3. Contents' = <<>>
  <2>1. Contents' = [i \in 1..0 |-> valueOf'[chain'[i + 1]]]
    BY <1>1 DEF Contents
  <2>. QED BY <2>1
<1>4. AllCalls' = AllCalls /\ AllValues' = AllValues
  BY <1>2 DEF AllCalls, AllValues
<1>. QED BY <1>1, <1>2, <1>3, <1>4 DEF Queue!Destroy, AllCalls, AllValues

LEMMA PushSteps ==
  ASSUME CoreInv, NEW p \in Threads, Push(p)
  PROVE  [Queue!Next]_(Queue!fifoVars)
<1>1. Alone(p) /\ TypeOK
  BY OneMoves DEF CoreInv, Step
<1>2. CASE StartPush(p)
  BY <1>2, Starts DEF Queue!Next
<1>3. CASE PushInit(p)
  <2>1. /\ {pc[p], pc'[p]} \subseteq PushLabels \ {"push_swing"}
        /\ UNCHANGED <<chain, seen, ret, calls>>
    BY <1>1, <1>3 DEF PushInit, At, Goto, Outside, history, TypeOK, PushLabels
  <2>2. \A m \in Nodes : InList(m) => valueOf'[m] = valueOf[m]
    BY <1>1, <1>3 DEF PushInit, At, CoreInv, Ready, Unlinked, TypeOK
  <2>. QED BY <1>1, <2>1, <2>2, Inside
<1>4. CASE PushLoadTail(p) \/ PushLoadNext(p) \/ PushHelp(p)
  <2>1. /\ {pc[p], pc'[p]} \subseteq PushLabels \ {"push_swing"}
        /\ UNCHANGED <<chain, seen, ret, calls, valueOf>>
    BY <1>1, <1>4 DEF shared, PushLoadTail, PushLoadNext, PushHelp, Retry, At, Goto, Outside,
       history, TypeOK, PushLabels
  <2>. QED BY <1>1, <2>1, Inside
<1>5. CASE PushCheckCount(p) \/ PushCheckPtr(p)
  <2>1. /\ {pc[p], pc'[p]} \subseteq PushLabels \ {"push_swing"}
        /\ UNCHANGED <<chain, seen, ret, calls, valueOf>>
    BY <1>1, <1>5 DEF shared, PushCheckCount, PushCheckPtr, Retry, At, Goto, Outside, history, TypeOK,
       PushLabels
  <2>. QED BY <1>1, <2>1, Inside
<1>6. CASE PushLink(p)
  <2>1. CASE nextOf[tail[p].ptr] = next[p]
    BY <1>6, <2>1, Puts DEF Queue!Next
  <2>2. CASE nextOf[tail[p].ptr] # next[p]
    <3>1. /\ {pc[p], pc'[p]} \subseteq PushLabels \ {"push_swing"}
          /\ UNCHANGED <<chain, seen, ret, calls, valueOf>>
      BY <1>1, <1>6, <2>2 DEF PushLink, Retry, At, Goto, history, TypeOK, PushLabels
    <3>. QED BY <1>1, <3>1, Inside
  <2>. QED BY <2>1, <2>2
<1>7. CASE PushSwing(p)
  BY <1>1, <1>7, PushReturns DEF Queue!Next
<1>. QED BY <1>2, <1>3, <1>4, <1>5, <1>6, <1>7 DEF Push

LEMMA PopSteps ==
  ASSUME CoreInv, NEW p \in Threads, Pop(p)
  PROVE  [Queue!Next]_(Queue!fifoVars)
<1>1. Alone(p) /\ TypeOK
  BY OneMoves DEF CoreInv, Step
<1>2. CASE StartPop(p)
  BY <1>2, Starts DEF Queue!Next
<1>3. CASE \/ PopLoadHead(p) \/ PopLoadTail(p) \/ PopLoadNext(p) \/ PopCheckCount(p)
           \/ PopCheckPtr(p) \/ PopChanged(p) \/ PopHelp(p) \/ PopLoadValue(p)
  <2>1. UNCHANGED <<chain, seen, ret, calls, valueOf>>
    BY <1>3 DEF PopLoadHead, PopLoadTail, PopLoadNext, PopCheckCount, PopCheckPtr, PopChanged,
       PopHelp, PopLoadValue, Outside, history, shared
  <2>2. {pc[p], pc'[p]} \subseteq PopLabels \ {"pop_free"}
    BY <1>1, <1>3 DEF PopLoadHead, PopLoadTail, PopLoadNext, PopCheckCount, PopCheckPtr, PopChanged,
       PopHelp, PopLoadValue, Retry, At, Goto, TypeOK, PopLabels
  <2>. QED BY <1>1, <2>1, <2>2, Inside
<1>4. CASE PopSwing(p)
  <2>1. CASE queueHead = head[p]
    BY <1>4, <2>1, TakesItem DEF Queue!Next
  <2>2. CASE queueHead # head[p]
    <3>1. /\ {pc[p], pc'[p]} \subseteq PopLabels \ {"pop_free"}
          /\ UNCHANGED <<chain, seen, ret, calls, valueOf>>
      BY <1>1, <1>4, <2>2 DEF PopSwing, Retry, At, Goto, history, TypeOK, PopLabels
    <3>. QED BY <1>1, <3>1, Inside
  <2>. QED BY <2>1, <2>2
<1>5. CASE PopFree(p) \/ PopNull(p)
  BY <1>1, <1>5, PopReturns, PopReturnsNull DEF Queue!Next
<1>. QED BY <1>2, <1>3, <1>4, <1>5 DEF Pop

LEMMA EmptySteps ==
  ASSUME CoreInv, NEW p \in Threads, IsEmpty(p)
  PROVE  [Queue!Next]_(Queue!fifoVars)
<1>1. Alone(p) /\ TypeOK
  BY OneMoves DEF CoreInv, Step
<1>2. CASE StartIsEmpty(p)
  BY <1>2, Starts DEF Queue!Next
<1>3. CASE EmptyLoadHead(p)
  <2>1. {pc[p], pc'[p]} \subseteq EmptyLabels /\ UNCHANGED <<chain, seen, ret, calls, valueOf>>
    BY <1>1, <1>3 DEF EmptyLoadHead, At, Goto, Outside, history, shared, TypeOK, EmptyLabels
  <2>. QED BY <1>1, <2>1, Inside
<1>4. CASE EmptyLoadNext(p)
  BY <1>1, <1>4, EmptyReturns DEF Queue!Next
<1>. QED BY <1>2, <1>3, <1>4 DEF IsEmpty

LEMMA Stutters ==
  ASSUME UNCHANGED vars
  PROVE  UNCHANGED Queue!fifoVars
<1>1. /\ chain' = chain /\ valueOf' = valueOf /\ pc' = pc /\ calls' = calls /\ obj' = obj
      /\ seen' = seen /\ ret' = ret
  BY DEF vars, shared, local, history
<1>2. Contents' = Contents
  BY <1>1 DEF Contents
<1>3. AllCalls' = AllCalls /\ AllValues' = AllValues
  BY <1>1 DEF AllCalls, AllValues, CallOf, ValueOf
<1>. QED BY <1>1, <1>2, <1>3 DEF Queue!fifoVars, AllCalls, AllValues

(* An execution that never leaves CoreInv is one of Fifo.                  *)
LEMMA CoreImplements == Spec /\ []CoreInv => ImplementsFifo
<1>1. Init /\ CoreInv => Queue!Init
  <2>. SUFFICES ASSUME Init, CoreInv PROVE Queue!Init
    OBVIOUS
  <2>1. /\ \A p \in Threads : pc[p] = "idle"
        /\ ret = [p \in Threads |-> Null] /\ seen = [p \in Threads |-> {}]
    BY DEF Init
  <2>2. \A p \in Threads : CallOf(p) = "none" /\ ValueOf(p) = Null
    BY <2>1 DEF CallOf, ValueOf, PushLabels, PopLabels, EmptyLabels
  <2>3. Contents \in Seq(Items)
    BY ContentsAre
  <2>. QED BY <2>1, <2>2, <2>3 DEF Queue!Init
<1>2. CoreInv /\ [Next]_vars => [Queue!Next]_(Queue!fifoVars)
  <2>. SUFFICES ASSUME CoreInv, [Next]_vars PROVE [Queue!Next]_(Queue!fifoVars)
    OBVIOUS
  <2>1. ASSUME NEW p \in Threads, Step(p) PROVE [Queue!Next]_(Queue!fifoVars)
    BY <2>1, PushSteps, PopSteps, EmptySteps DEF Step
  <2>2. CASE Destroy
    BY <2>2, Destroys DEF Queue!Next
  <2>3. CASE UNCHANGED vars
    BY <2>3, Stutters
  <2>. QED BY <2>1, <2>2, <2>3 DEF Next
<1>. QED BY <1>1, <1>2, PTL DEF Spec, ImplementsFifo, Queue!Spec

(* As long as no freed node is allocated again under a thread that points  *)
(* to it, the queue is linearizable: a push takes effect when its node is  *)
(* linked, a pop when the head is moved on, a pop that returns NULL when   *)
(* it loads the next field, is_empty when it loads the next field or, if   *)
(* that node was no longer the first, at an earlier instant at which the   *)
(* queue was not empty (queue_push, queue_pop, queue_is_empty).            *)
THEOREM Implements == Spec /\ NothingHeldReused => ImplementsFifo
BY CoreHolds, Invariance, CoreImplements, PTL
==============================================================================
