----------------------------- MODULE Iterators -----------------------------
(***************************************************************************)
(* The iterators of stl/iterator.hpp: records that hold the iterator they  *)
(* wrap, with the three operations of an InnerIterator, at_end, next and   *)
(* value. The function given to filter is the set of the values it keeps,  *)
(* the one given to map is a function.                                     *)
(***************************************************************************)
EXTENDS Integers, Sequences

ItPair(s) == [kind |-> "pair", data |-> s, at |-> 1]
TakeOf(it, max) == [kind |-> "take", inner |-> it, counter |-> 0, max |-> max]
EnumerateOf(it) == [kind |-> "enumerate", inner |-> it, index |-> 0]
MapOf(it, func) == [kind |-> "map", inner |-> it, func |-> func]

RECURSIVE AtEnd(_)
AtEnd(it) ==
  CASE it.kind = "pair" -> it.at = Len(it.data) + 1
    [] it.kind = "take" -> it.counter >= it.max \/ AtEnd(it.inner)
    [] OTHER -> AtEnd(it.inner)

RECURSIVE Value(_)
Value(it) ==
  CASE it.kind = "pair" -> it.data[it.at]
    [] it.kind = "enumerate" -> <<it.index, Value(it.inner)>>
    [] it.kind = "map" -> it.func[Value(it.inner)]
    [] OTHER -> Value(it.inner)

(* next, and the skip of Filter, which goes on to a value that is kept.    *)
RECURSIVE Advance(_), SkipRejected(_, _)
Advance(it) ==
  CASE it.kind = "pair" -> IF AtEnd(it) THEN it ELSE [it EXCEPT !.at = @ + 1]
    [] it.kind = "take" -> [it EXCEPT !.inner = Advance(@), !.counter = @ + 1]
    [] it.kind = "enumerate" -> [it EXCEPT !.inner = Advance(@), !.index = @ + 1]
    [] it.kind = "map" -> [it EXCEPT !.inner = Advance(@)]
    [] it.kind = "filter" -> [it EXCEPT !.inner = SkipRejected(Advance(@), it.keep)]

SkipRejected(it, keep) ==
  IF AtEnd(it) \/ Value(it) \in keep THEN it ELSE SkipRejected(Advance(it), keep)

(* Mutant: the constructor does not skip to the first value that is kept. *)
FilterOfUnskipped(it, keep) == [kind |-> "filter", inner |-> it, keep |-> keep]

FilterOf(it, keep) == [kind |-> "filter", inner |-> SkipRejected(it, keep), keep |-> keep]

(* skip is a copy that is ahead, no iterator of its own.                   *)
RECURSIVE SkipOf(_, _)
SkipOf(it, n) == IF n = 0 \/ AtEnd(it) THEN it ELSE SkipOf(Advance(it), n - 1)

(* size_hint, which a filter does not have.                                *)
NoHint == -1
RECURSIVE SizeHint(_)
SizeHint(it) ==
  CASE it.kind = "pair" -> Len(it.data) + 1 - it.at
    [] it.kind = "take" -> LET hint == SizeHint(it.inner)
                           IN  IF hint = NoHint \/ it.max > hint THEN hint ELSE it.max
    [] it.kind = "filter" -> NoHint
    [] OTHER -> SizeHint(it.inner)

(* What a for loop over the iterator sees.                                 *)
RECURSIVE Values(_)
Values(it) == IF AtEnd(it) THEN <<>> ELSE <<Value(it)>> \o Values(Advance(it))

(* find_value and any stop at the first hit.                               *)
NotFound == -1
RECURSIVE FirstIndex(_, _)
FirstIndex(it, value) ==
  IF AtEnd(it) THEN NotFound
  ELSE IF Value(it)[2] = value THEN Value(it)[1] ELSE FirstIndex(Advance(it), value)
FindValue(it, value) == FirstIndex(EnumerateOf(it), value)

RECURSIVE AnyOf(_)
AnyOf(it) == ~AtEnd(it) /\ (Value(it) \/ AnyOf(Advance(it)))
=============================================================================
