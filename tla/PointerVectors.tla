--------------------------- MODULE PointerVectors ---------------------------
(***************************************************************************)
(* stl/vector.hpp and stl/pointer.hpp: vectors of shared pointers, as the  *)
(* widgets use them for their children. A vector is a buffer of slots, of  *)
(* which the first size hold a pointer; the others are raw memory. An      *)
(* operation is its change of the slots and, in order, the pointers it     *)
(* copies and destroys: each copy and each destruction counts.             *)
(***************************************************************************)
EXTENDS Integers, Sequences, FiniteSets

CONSTANTS
  Vectors,     (* the vectors *)
  Pointers,    (* the pointers that live outside of a vector *)
  Objects,     (* what make_shared can allocate *)
  Null,        (* the pointer without a control block *)
  Raw,         (* memory in which no pointer was constructed *)
  MaxSize      (* bound: the size of a vector *)

ASSUME PointerAssumption ==
  /\ IsFiniteSet(Vectors) /\ IsFiniteSet(Pointers) /\ MaxSize \in Nat
  /\ Null \notin Objects /\ Raw \notin Objects \cup {Null}

VARIABLES
  vec,     (* the slots of each vector, and its size *)
  held,    (* what each pointer holds *)
  heap,    (* the counters of the control blocks, those not deleted, and *)
           (* whether one was used that is deleted, or raw memory was *)
  call     (* history: the last call *)

vectorVars == <<vec, held, heap, call>>

Empty == [slots |-> <<>>, size |-> 0]

Capacity(b) == Len(b.slots)
Elements(b) == SubSeq(b.slots, 1, b.size)

NoPointers ==
  /\ vec = [v \in Vectors |-> Empty]
  /\ held = [p \in Pointers |-> Null]
  /\ heap = [counter |-> [o \in Objects |-> 0], live |-> {}, misused |-> FALSE]
  /\ call = <<"none">>

-----------------------------------------------------------------------------
(* SharedPtr                                                               *)

Copy(p) == [by |-> 1, ptr |-> p]
Drop(p) == [by |-> -1, ptr |-> p]

EachCopied(s) == [i \in DOMAIN s |-> Copy(s[i])]
EachDropped(s) == [i \in DOMAIN s |-> Drop(s[i])]

(* increase_ref, and decrease_ref, which deletes what nobody points at.    *)
Count(h, use) ==
  CASE use.ptr = Null -> h
    [] use.ptr # Null /\ use.ptr \notin h.live -> [h EXCEPT !.misused = TRUE]
    [] OTHER ->
         LET counter == h.counter[use.ptr] + use.by
         IN  [h EXCEPT !.counter[use.ptr] = counter,
                       !.live = IF counter <= 0 THEN @ \ {use.ptr} ELSE @]

CountAll(h, uses) ==
  LET counted[i \in 0 .. Len(uses)] ==
        IF i = 0 THEN h ELSE Count(counted[i - 1], uses[i])
  IN  counted[Len(uses)]
Counted(uses) == heap' = CountAll(heap, uses)

(* Mutant: the pointer that is overwritten keeps its count. *)
AssignedWithoutDrop(old, new) == <<Copy(new)>>

(* operator=: this lets go before it takes the other.                      *)
Assigned(old, new) == <<Drop(old), Copy(new)>>

Calls(name) == call' = name

(* p = make_shared(): the temporary dies after the assignment.             *)
Make(p) ==
  /\ Calls(<<"make", p>>)
  /\ \E o \in Objects \ heap.live :
       /\ heap' = CountAll([heap EXCEPT !.counter[o] = 1, !.live = @ \cup {o}],
                           Append(Assigned(held[p], o), Drop(o)))
       /\ held' = [held EXCEPT ![p] = o]
  /\ UNCHANGED vec

ClearPointer(p) ==
  /\ Calls(<<"clear_pointer", p>>)
  /\ Counted(<<Drop(held[p])>>)
  /\ held' = [held EXCEPT ![p] = Null]
  /\ UNCHANGED vec

AssignPointer(p, q) ==
  /\ Calls(<<"assign_pointer", p, q>>)
  /\ Counted(IF p = q THEN <<>> ELSE Assigned(held[p], held[q]))
  /\ held' = [held EXCEPT ![p] = held[q]]
  /\ UNCHANGED vec

(* p = v[i] and v[i] = p                                                   *)
Get(p, v, i) ==
  /\ i <= vec[v].size
  /\ Calls(<<"get", p, v, i>>)
  /\ Counted(Assigned(held[p], vec[v].slots[i]))
  /\ held' = [held EXCEPT ![p] = vec[v].slots[i]]
  /\ UNCHANGED vec

Set(v, i, p) ==
  /\ i <= vec[v].size
  /\ Calls(<<"set", v, i, p>>)
  /\ Counted(Assigned(vec[v].slots[i], held[p]))
  /\ vec' = [vec EXCEPT ![v].slots[i] = held[p]]
  /\ UNCHANGED held

-----------------------------------------------------------------------------
(* Vector: what the operations make of a buffer.                           *)

(* reserve moves the elements to a new buffer.                             *)
Reserved(b, capacity) ==
  IF capacity < Capacity(b) THEN b
  ELSE [b EXCEPT !.slots = Elements(b) \o [i \in 1 .. capacity - b.size |-> Raw]]

(* grow_if_needed                                                          *)
Grown(b) ==
  IF Capacity(b) = 0 THEN Reserved(b, 4)
  ELSE IF Capacity(b) = b.size THEN Reserved(b, Capacity(b) * 2) ELSE b

(* push constructs the new element behind the last one.                    *)
Pushed(b, p) ==
  LET grown == Grown(b)
  IN  [slots |-> [grown.slots EXCEPT ![b.size + 1] = p], size |-> b.size + 1]

(* The elements behind the first size ones are destroyed.                  *)
Truncated(b, size) ==
  [slots |-> [i \in DOMAIN b.slots |-> IF i > size THEN Raw ELSE b.slots[i]], size |-> size]

(* remove: each later element is assigned to the one before it, the last   *)
(* one destroyed.                                                          *)
Removed(b, index) ==
  Truncated([b EXCEPT !.slots = [i \in DOMAIN @ |->
                                   IF i \in index .. b.size - 1 THEN @[i + 1] ELSE @[i]]],
            b.size - 1)

RemoveUses(b, index) ==
  [k \in 1 .. 2 * (b.size - index) |->
     LET i == index + (k - 1) \div 2
     IN  Assigned(b.slots[i], b.slots[i + 1])[2 - (k % 2)]]
    \o <<Drop(b.slots[b.size])>>

PushedAll(b, values) ==
  LET pushed[i \in 0 .. Len(values)] ==
        IF i = 0 THEN b ELSE Pushed(pushed[i - 1], values[i])
  IN  pushed[Len(values)]

(* The copy constructor: no room to spare.                                 *)
CopyOf(b) == [slots |-> Elements(b), size |-> b.size]

Update(v, b, uses) == vec' = [vec EXCEPT ![v] = b] /\ Counted(uses)

-----------------------------------------------------------------------------
(* The calls.                                                              *)

(* push(p): the parameter is a copy, which is moved into the slot.         *)
PushCopy(v, p) ==
  /\ vec[v].size < MaxSize
  /\ Calls(<<"push", v, p>>)
  /\ Update(v, Pushed(vec[v], held[p]), <<Copy(held[p])>>)
  /\ UNCHANGED held

(* push(move(p)) *)
PushMoved(v, p) ==
  /\ vec[v].size < MaxSize
  /\ Calls(<<"push_moved", v, p>>)
  /\ Update(v, Pushed(vec[v], held[p]), <<>>)
  /\ held' = [held EXCEPT ![p] = Null]

Pop(v) ==
  /\ Calls(<<"pop", v>>)
  /\ IF vec[v].size = 0
     THEN UNCHANGED <<vec, heap>>
     ELSE Update(v, Truncated(vec[v], vec[v].size - 1), <<Drop(vec[v].slots[vec[v].size])>>)
  /\ UNCHANGED held

Clear(v) ==
  /\ Calls(<<"clear", v>>)
  /\ Update(v, Truncated(vec[v], 0), EachDropped(Elements(vec[v])))
  /\ UNCHANGED held

RemoveFrom(v, i) ==
  /\ i <= vec[v].size
  /\ Calls(<<"remove", v, i>>)
  /\ Update(v, Removed(vec[v], i), RemoveUses(vec[v], i))
  /\ UNCHANGED held

(* Widget::reorder_child_top: the child is kept by a copy meanwhile.       *)
Raise(v, i) ==
  LET child == vec[v].slots[i]
  IN  /\ i <= vec[v].size
      /\ Calls(<<"raise", v, i>>)
      /\ Update(v, Pushed(Removed(vec[v], i), child),
                <<Copy(child)>> \o RemoveUses(vec[v], i) \o <<Copy(child), Drop(child)>>)
      /\ UNCHANGED held

(* resize(n): shorter, or longer by default constructed pointers.          *)
Resize(v, n) ==
  LET b == vec[v]
      roomy == IF n > Capacity(b) THEN Reserved(b, n) ELSE b
  IN  /\ Calls(<<"resize", v, n>>)
      /\ IF n < b.size
         THEN Update(v, Truncated(b, n), EachDropped(SubSeq(b.slots, n + 1, b.size)))
         ELSE Update(v, [slots |-> [i \in DOMAIN roomy.slots |->
                                      IF i \in b.size + 1 .. n THEN Null ELSE roomy.slots[i]],
                         size |-> n], <<>>)
      /\ UNCHANGED held

(* v = w, of two vectors: the own elements go first.                       *)
CopyAssign(v, w) ==
  /\ v # w
  /\ Calls(<<"copy", v, w>>)
  /\ Update(v, CopyOf(vec[w]),
            EachDropped(Elements(vec[v])) \o EachCopied(Elements(vec[w])))
  /\ UNCHANGED held

(* v = move(w) takes the buffer.                                           *)
MoveAssign(v, w) ==
  /\ v # w
  /\ Calls(<<"move", v, w>>)
  /\ vec' = [vec EXCEPT ![v] = vec[w], ![w] = Empty]
  /\ Counted(EachDropped(Elements(vec[v])))
  /\ UNCHANGED held

(* concat pushes every element of a span of another vector.                *)
Concat(v, w) ==
  /\ v # w /\ vec[v].size + vec[w].size <= MaxSize
  /\ Calls(<<"concat", v, w>>)
  /\ Update(v, PushedAll(vec[v], Elements(vec[w])), EachCopied(Elements(vec[w])))
  /\ UNCHANGED held

(* collect_vec: the values of an iterator are pushed to a vector with room  *)
(* for as many as it announces, which v becomes.                           *)
CollectInto(v, room, values) ==
  /\ Update(v, PushedAll(Reserved(Empty, room), values),
            EachCopied(values) \o EachDropped(Elements(vec[v])))
  /\ UNCHANGED held

VectorCalls ==
  \/ \E p \in Pointers : \/ Make(p) \/ ClearPointer(p)
                         \/ \E q \in Pointers : AssignPointer(p, q)
                         \/ \E v \in Vectors : PushCopy(v, p) \/ PushMoved(v, p)
                         \/ \E v \in Vectors, i \in 1 .. MaxSize : Get(p, v, i) \/ Set(v, i, p)
  \/ \E v \in Vectors : \/ Pop(v) \/ Clear(v)
                        \/ \E i \in 1 .. MaxSize : RemoveFrom(v, i) \/ Raise(v, i)
                        \/ \E n \in 0 .. MaxSize : Resize(v, n)
  \/ \E v, w \in Vectors : CopyAssign(v, w) \/ MoveAssign(v, w) \/ Concat(v, w)

(* Whatever iterator it is that goes over a vector.                        *)
CollectAny(v) ==
  \E room \in Nat, values \in Seq(Objects \cup {Null}) :
    /\ Len(values) <= MaxSize
    /\ \A i \in DOMAIN values :
         \E w \in Vectors, j \in 1 .. MaxSize :
           j <= vec[w].size /\ vec[w].slots[j] = values[i]
    /\ CollectInto(v, room, values)

CallsSpec == NoPointers /\ [][VectorCalls]_vectorVars

VectorSpec ==
  NoPointers /\ [][VectorCalls \/ \E v \in Vectors : CollectAny(v)]_vectorVars

-----------------------------------------------------------------------------
(* The counter of a control block is the number of pointers to it, in a    *)
(* slot or outside, it is deleted with the last of them and never used     *)
(* afterwards; no pointer is left in a slot behind the last element.       *)
CountsExact ==
  LET slots == {<<v, i>> : v \in Vectors, i \in 1 .. 4 * MaxSize}
      at(o) == {s \in slots : s[2] <= Capacity(vec[s[1]]) /\ vec[s[1]].slots[s[2]] = o}
      uses(o) == Cardinality(at(o)) + Cardinality({p \in Pointers : held[p] = o})
  IN  /\ ~heap.misused
      /\ \A o \in Objects : /\ o \in heap.live <=> uses(o) > 0
                            /\ o \in heap.live => heap.counter[o] = uses(o)

(* Every sequence of calls leaves in the vectors what it would leave in    *)
(* lists, whatever the capacities, and the objects in them alive.          *)
ObjLists == INSTANCE ObjectLists
              WITH Lists <- Vectors, alive <- heap.live,
                   lists <- [v \in Vectors |-> Elements(vec[v])]
ImplementsObjectLists == ObjLists!Spec
=============================================================================
