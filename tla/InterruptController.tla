------------------------ MODULE InterruptController ------------------------
(***************************************************************************)
(* The two interrupt controllers as kernel/device/pic.cpp programs them,   *)
(* as operators on a record: the lines that are masked, those with a       *)
(* request latched, those whose handler has not said that it is done, and  *)
(* whether the lines have their own vectors yet. The second controller     *)
(* hangs on the cascade line of the first.                                 *)
(***************************************************************************)
EXTENDS Integers, FiniteSetsExt

(* The lines in use. No other can raise anything here.                     *)
Timer == 0
Keyboard == 1
Cascade == 2
Mouse == 12
Lines == {Timer, Keyboard, Cascade, Mouse}

First == {l \in Lines : l < 8}
Second == Lines \ First

(* The boot loader leaves everything masked, and the firmware's vectors,   *)
(* which are those of exceptions.                                          *)
BootMasked == Lines
BootPic == [masked |-> BootMasked, requested |-> {}, serving |-> {}, remapped |-> FALSE]

(* get_bit and set_bit of stl/math.hpp.                                    *)
GetBit(v, i) == (v \div 2^i) % 2 = 1
SetBit(v, i, on) == v - (IF GetBit(v, i) THEN 2^i ELSE 0) + (IF on THEN 2^i ELSE 0)

(* remap_pic up to the fourth initialisation word: a controller that is    *)
(* initialised forgets its mask and what it was serving.                   *)
Remap(p) == [masked |-> {}, requested |-> {}, serving |-> {}, remapped |-> TRUE]

(* remap_pic writes back the mask it read, one controller after the other. *)
RestoreMask(p, chip) == [p EXCEPT !.masked = (@ \ chip) \cup (BootMasked \cap chip)]

SetIrqMask(p, line, enabled) ==
  [p EXCEPT !.masked = IF enabled THEN @ \ {line} ELSE @ \cup {line}]

(* send_eoi: each controller that is told ends what it serves first.       *)
SendEoi(p, line) ==
  LET done(chip) == IF p.serving \cap chip = {} THEN {} ELSE {Min(p.serving \cap chip)}
  IN  [p EXCEPT !.serving = @ \ (done(First) \cup (IF line < 8 THEN {} ELSE done(Second)))]

(* The hardware: an edge is latched, masked or not; a request is let       *)
(* through when neither its line nor the cascade is masked and nothing as  *)
(* urgent is being served.                                                 *)
Request(p, line) == [p EXCEPT !.requested = @ \cup {line}]

OnFirst(line) == IF line < 8 THEN line ELSE Cascade

Raised(p) ==
  {l \in p.requested :
     /\ l \notin p.masked /\ OnFirst(l) \notin p.masked
     /\ \A s \in p.serving \cap First : s > OnFirst(l)
     /\ l \in First \/ \A s \in p.serving \cap Second : s > l}

(* The most urgent line, when the processor asks which one it was.         *)
Acknowledge(p, line) ==
  [p EXCEPT !.requested = @ \ {line}, !.serving = @ \cup {line, OnFirst(line)}]
=============================================================================
