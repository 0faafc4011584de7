----------------------------- MODULE Containers -----------------------------
(***************************************************************************)
(* The vectors of shared pointers together with the iterators that the     *)
(* widgets collect vectors from.                                           *)
(***************************************************************************)
EXTENDS PointerVectors, Iterators

CollectFrom(v, it) ==
  CollectInto(v, IF SizeHint(it) = NoHint THEN 0 ELSE SizeHint(it), Values(it))

CollectFilter(v, w) ==
  /\ Calls(<<"filter", v, w>>)
  /\ CollectFrom(v, FilterOf(ItPair(Elements(vec[w])), Objects))

Index(v, o) == FindValue(ItPair(Elements(vec[v])), o)

(* iter_windows_above and iter_windows_below.                              *)
CollectAbove(v, w, o) ==
  /\ Index(w, o) # NotFound
  /\ Calls(<<"above", v, w, o>>)
  /\ CollectFrom(v, SkipOf(ItPair(Elements(vec[w])), Index(w, o) + 1))

CollectBelow(v, w, o) ==
  /\ Index(w, o) # NotFound
  /\ Calls(<<"below", v, w, o>>)
  /\ CollectFrom(v, TakeOf(ItPair(Elements(vec[w])), Index(w, o)))

Next ==
  \/ VectorCalls
  \/ \E v, w \in Vectors : \/ CollectFilter(v, w)
                           \/ \E o \in Objects : CollectAbove(v, w, o) \/ CollectBelow(v, w, o)

Spec == NoPointers /\ [][Next]_vectorVars

(* The history is left out of what tells two states apart. *)
StateView == <<vec, held, heap>>
=============================================================================
