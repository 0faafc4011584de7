------------------------------- MODULE Clicks --------------------------------
(***************************************************************************)
(* What the user of a desktop relies on, with no event path and no paint:  *)
(* a press gives the mouse and the keys to one widget, the mouse stays     *)
(* with it until the release, and nothing moves but what the mouse drags.  *)
(***************************************************************************)
EXTENDS Integers

CONSTANTS
  Places,     (* the widgets *)
  Movable,    (* those that can be dragged *)
  Inside(_),  (* a widget and all that lies in it *)
  Start       (* where the widgets are at first *)

VARIABLES
  held,       (* {} or the widget that has the mouse *)
  focus,      (* the widget that has the keys *)
  where,      (* the place of each widget on the screen *)
  pointer     (* where the mouse was last shown *)

Init ==
  /\ held = {}
  /\ focus \in Places
  /\ where = Start
  /\ pointer \in Int \X Int

Press ==
  /\ held = {}
  /\ \E w \in Places : held' = {w} /\ focus' = w
  /\ pointer' \in Int \X Int
  /\ UNCHANGED where

Release ==
  /\ held # {} /\ held' = {}
  /\ pointer' \in Int \X Int
  /\ UNCHANGED <<focus, where>>

Point == pointer' \in Int \X Int /\ UNCHANGED <<held, focus, where>>

(* A dragged widget goes where the mouse goes, with what it holds.         *)
Drag ==
  /\ pointer' \in Int \X Int
  /\ \E w \in held \cap Movable :
       where' = [v \in Places |-> IF v \in Inside(w)
                                  THEN <<where[v][1] + pointer'[1] - pointer[1],
                                         where[v][2] + pointer'[2] - pointer[2]>>
                                  ELSE where[v]]
  /\ UNCHANGED <<held, focus>>

Next == Press \/ Release \/ Point \/ Drag

Spec == Init /\ [][Next]_<<held, focus, where, pointer>>
=============================================================================
