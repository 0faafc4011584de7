---------------------------- MODULE ObjectLists ----------------------------
(***************************************************************************)
(* What the containers promise the widgets: lists of objects that change   *)
(* as each call says, whatever buffers they live in, and objects that live *)
(* exactly as long as a list or a pointer holds them.                      *)
(***************************************************************************)
EXTENDS Integers, Sequences, SequencesExt

CONSTANTS Lists, Pointers, Objects, Null

VARIABLES lists, held, alive, call

vars == <<lists, held, alive, call>>

Holders(l, h) == ((UNION {ToSet(l[v]) : v \in Lists}) \cup {h[p] : p \in Pointers}) \ {Null}

Init ==
  /\ lists = [v \in Lists |-> <<>>]
  /\ held = [p \in Pointers |-> Null]
  /\ alive = {}
  /\ call = <<"none">>

Change(v, list) == lists' = [lists EXCEPT ![v] = list] /\ UNCHANGED held
Hold(p, o) == held' = [held EXCEPT ![p] = o] /\ UNCHANGED lists

OfPointer(p) ==
  \/ call' = <<"make", p>> /\ \E o \in Objects \ alive : Hold(p, o)
  \/ call' = <<"clear_pointer", p>> /\ Hold(p, Null)
  \/ \E q \in Pointers : call' = <<"assign_pointer", p, q>> /\ Hold(p, held[q])
  \/ \E v \in Lists : \E i \in DOMAIN lists[v] :
       call' = <<"get", p, v, i>> /\ Hold(p, lists[v][i])

OfList(v) ==
  LET l == lists[v]
  IN  \/ \E p \in Pointers :
           \/ call' = <<"push", v, p>> /\ Change(v, Append(l, held[p]))
           \/ /\ call' = <<"push_moved", v, p>>
              /\ lists' = [lists EXCEPT ![v] = Append(l, held[p])]
              /\ held' = [held EXCEPT ![p] = Null]
      \/ call' = <<"pop", v>> /\ Change(v, IF l = <<>> THEN l ELSE Front(l))
      \/ call' = <<"clear", v>> /\ Change(v, <<>>)
      \/ \E i \in DOMAIN l :
           \/ call' = <<"remove", v, i>> /\ Change(v, RemoveAt(l, i))
           \/ call' = <<"raise", v, i>> /\ Change(v, Append(RemoveAt(l, i), l[i]))
           \/ \E p \in Pointers : call' = <<"set", v, i, p>> /\ Change(v, [l EXCEPT ![i] = held[p]])
      \/ /\ call'[1] = "resize" /\ call'[2] = v
         /\ Change(v, [i \in 1 .. call'[3] |-> IF i <= Len(l) THEN l[i] ELSE Null])

OfTwo(v, w) ==
  LET l == lists[w]
  IN  \/ call' = <<"copy", v, w>> /\ Change(v, l)
      \/ /\ call' = <<"move", v, w>>
         /\ lists' = [lists EXCEPT ![v] = l, ![w] = <<>>]
         /\ UNCHANGED held
      \/ call' = <<"concat", v, w>> /\ Change(v, lists[v] \o l)
      \/ call' = <<"filter", v, w>> /\ Change(v, SelectSeq(l, LAMBDA o : o # Null))
      \/ \E i \in DOMAIN l :
           /\ \A j \in 1 .. i - 1 : l[j] # l[i]
           /\ \/ call' = <<"above", v, w, l[i]>> /\ Change(v, SubSeq(l, i + 1, Len(l)))
              \/ call' = <<"below", v, w, l[i]>> /\ Change(v, SubSeq(l, 1, i - 1))

Next ==
  /\ \/ \E p \in Pointers : OfPointer(p)
     \/ \E v \in Lists : OfList(v)
     \/ \E v, w \in Lists : OfTwo(v, w)
  /\ alive' = Holders(lists', held')

Spec == Init /\ [][Next]_vars
=============================================================================
