------------------------------- MODULE Desktop -------------------------------
(***************************************************************************)
(* The window manager (kernel/window/manager.cpp) and the way of the mouse *)
(* and the keys down the tree of widgets (widget.cpp, window.cpp,          *)
(* button.cpp). The handlers run from interrupts, which are off until they *)
(* return: each is one step.                                               *)
(***************************************************************************)
EXTENDS Widgets

CONSTANTS
  Terminals,  (* the windows that are a TerminalWindow *)
  InitKids, InitPos,    (* the tree that WindowManager::init builds *)
  CursorSize,           (* m_mouse_canvas *)
  DragHeight,           (* how far down a window is dragged: 30 *)
  MinTicks,             (* the ticks between two rendered packets: 2 *)
  Offsets,              (* the movements that a packet brings *)
  EarlyOffsets,         (* and those that come too early *)
  MaxDeeds              (* bound: the presses and drags that are taken *)

VARIABLES
  kids,         (* m_children *)
  pos,          (* m_rect.pos *)
  active,       (* the buttons that are active *)
  screen,       (* the framebuffer *)
  lastPressed,  (* the widgets whose m_last_pressed is set *)
  eventChild,   (* m_event_child *)
  focusChild,   (* m_focus_child *)
  dragging,     (* the windows whose m_dragging is set *)
  dragOffset,   (* m_drag_offset *)
  mouse,        (* m_mouse_pos *)
  prevMouse,    (* m_prev_mouse_pos *)
  elapsed,      (* get_ticks() - m_last_render, up to one more than MinTicks *)
  clicked,      (* history: the widget seen where the last press was taken *)
  deeds         (* how many presses and drags were taken *)

events == <<lastPressed, eventChild, focusChild, dragging, dragOffset>>
vars == <<kids, pos, active, screen, events, mouse, prevMouse, elapsed, clicked, deeds>>

ASSUME DesktopAssumption ==
  /\ Terminals \subseteq Windows
  /\ InitKids \in [Widgets -> Seq(Widgets)]
  /\ \A w \in Widgets : /\ IsInjective(InitKids[w])
                        /\ Range(InitKids[w]) = {v \in Windows \cup Buttons : ParentOf[v] = w}
  /\ InitPos \in [Widgets -> Int \X Int] /\ InitPos[Root] = <<0, 0>>
  /\ CursorSize \in Nat \X Nat /\ DragHeight \in Nat /\ MinTicks \in Nat
  /\ Offsets \cup EarlyOffsets \subseteq Int \X Int /\ MaxDeeds \in Nat

Desk == [kids |-> kids, pos |-> pos, active |-> active, screen |-> screen]
ChangeDesk(d) ==
  kids' = d.kids /\ pos' = d.pos /\ active' = d.active /\ screen' = d.screen

Black == <<Nobody, "black">>
Cursor == <<Nobody, "cursor">>
CursorAt(p) == Pixels(MovedTo(Rect(0, 0, CursorSize[1], CursorSize[2]), p))

-----------------------------------------------------------------------------
(* Widget::handle_mouse, from the window manager down to the widget that   *)
(* gets the event.                                                         *)

Relative(w, p) == Minus(p, ScreenPos(Desk, w))
Presses(w, pressed) == pressed /\ w \notin lastPressed

(* Mutant: a held mouse goes to whatever lies under it. *)
NextOfHeld(w, p, pressed) ==
  LET hit == HitChild(Desk, w, Relative(w, p))
  IN  IF pressed /\ hit # Nobody THEN hit ELSE eventChild[w]

(* m_event_child when the event is passed on. *)
NextOf(w, p, pressed) ==
  LET hit == HitChild(Desk, w, Relative(w, p))
  IN  IF Presses(w, pressed) /\ hit # Nobody THEN hit ELSE eventChild[w]

(* The way from the window manager down to the last that has no child. *)
PathOf(child) ==
  LET path[w \in Widgets] ==
        IF child[w] = Nobody THEN <<w>> ELSE <<w>> \o path[child[w]]
  IN  path[Root]

EndOf(child) == Last(PathOf(child))

Path(p, pressed) == PathOf([w \in Widgets |-> NextOf(w, p, pressed)])

(* Mutant: only the widget that gets the event is told. *)
FocusEnd(d, path, pressed) ==
  IF Last(path) \in Windows /\ Presses(Last(path), pressed) THEN Raise(d, Last(path)) ELSE d

(* on_focus: the windows of the path are raised, the outermost first. *)
Focus(d, path, pressed) ==
  InTurn(LAMBDA e, w : IF w \in Windows /\ Presses(w, pressed) THEN Raise(e, w) ELSE e,
         d, path)

(* Button::on_mouse_down and on_mouse_up, with the invalidate of each. *)
SetActive(d, b, on) ==
  LET e == [d EXCEPT !.active = IF on THEN @ \cup {b} ELSE @ \ {b}]
  IN  PaintAlone(e, b, Pixels(ScreenRect(e, b)))

(* Mutant: the old cursor is only wiped off the window manager itself. *)
DrawMouseAlone(d, old, new) ==
  LET e == PaintAlone(d, Root, CursorAt(old))
  IN  [e EXCEPT !.screen = [p \in DOMAIN @ |-> IF p \in CursorAt(new) THEN Cursor ELSE @[p]]]

(* draw_mouse *)
DrawMouse(d, old, new) ==
  LET e == Paint(d, Root, CursorAt(old))
  IN  [e EXCEPT !.screen = [p \in DOMAIN @ |-> IF p \in CursorAt(new) THEN Cursor ELSE @[p]]]

-----------------------------------------------------------------------------
Clamp(v, high) == IF v < 0 THEN 0 ELSE IF v > high THEN high ELSE v

MovedBy(off) ==
  <<Clamp(mouse[1] + off[1], SizeOf[Root][1]), Clamp(mouse[2] + off[2], SizeOf[Root][2])>>

(* WindowManager::handle_mouse when it lets the packet through. *)
Render(p) ==
  /\ elapsed > MinTicks /\ elapsed' = 0
  /\ mouse' = p /\ prevMouse' = p

(* Mutant: the capture is kept on release. *)
PassOnKeeping(path, p, pressed) ==
  LET on == Range(path)
  IN  /\ lastPressed' = IF pressed THEN lastPressed \cup on ELSE lastPressed \ on
      /\ eventChild' = [w \in Widgets |->
           IF w \in on THEN NextOf(w, p, pressed) ELSE eventChild[w]]
      /\ focusChild' = [w \in Widgets |->
           IF w \in on /\ Presses(w, pressed) THEN HitChild(Desk, w, Relative(w, p))
           ELSE focusChild[w]]

(* What handle_mouse leaves in the widgets it went through. *)
PassOn(path, p, pressed) ==
  LET on == Range(path)
  IN  /\ lastPressed' = IF pressed THEN lastPressed \cup on ELSE lastPressed \ on
      /\ eventChild' = [w \in Widgets |->
           IF w \notin on THEN eventChild[w]
           ELSE IF pressed THEN NextOf(w, p, TRUE) ELSE Nobody]
      /\ focusChild' = [w \in Widgets |->
           IF w \in on /\ Presses(w, pressed) THEN HitChild(Desk, w, Relative(w, p))
           ELSE focusChild[w]]

SeenUnder(p) == IF p \in Everywhere(Desk) THEN Picture(Desk)[p][1] ELSE Root

MouseDown(off) ==
  LET p == MovedBy(off)
      path == Path(p, TRUE)
      end == Last(path)
      at == Relative(end, p)
      d == Focus(Desk, path, TRUE)
  IN  /\ Render(p) /\ Presses(end, TRUE) /\ deeds < MaxDeeds
      /\ PassOn(path, p, TRUE)
      /\ IF end \in Windows /\ at[2] < DragHeight
         THEN /\ dragging' = dragging \cup {end}
              /\ dragOffset' = [dragOffset EXCEPT ![end] = at]
         ELSE UNCHANGED <<dragging, dragOffset>>
      /\ ChangeDesk(DrawMouse(IF end \in Buttons THEN SetActive(d, end, TRUE) ELSE d,
                              prevMouse, p))
      /\ clicked' = SeenUnder(p) /\ deeds' = deeds + 1

MouseUp(off) ==
  LET p == MovedBy(off)
      path == Path(p, FALSE)
      end == Last(path)
  IN  /\ Render(p) /\ end \in lastPressed /\ PassOn(path, p, FALSE)
      /\ dragging' = dragging \ {end}
      /\ ChangeDesk(DrawMouse(IF end \in Buttons THEN SetActive(Desk, end, FALSE) ELSE Desk,
                              prevMouse, p))
      /\ UNCHANGED <<dragOffset, clicked, deeds>>

MouseMove(off, pressed) ==
  LET p == MovedBy(off)
      path == Path(p, pressed)
      end == Last(path)
  IN  /\ Render(p) /\ pressed = (end \in lastPressed) /\ end \notin dragging
      /\ PassOn(path, p, pressed)
      /\ ChangeDesk(DrawMouse(Focus(Desk, path, pressed), prevMouse, p))
      /\ UNCHANGED <<dragging, dragOffset, clicked, deeds>>

MouseDrag(off) ==
  LET p == MovedBy(off)
      path == Path(p, TRUE)
      end == Last(path)
      to == Minus(Plus(pos[end], Relative(end, p)), dragOffset[end])
  IN  /\ Render(p) /\ end \in lastPressed \cap dragging /\ deeds < MaxDeeds
      /\ PassOn(path, p, TRUE)
      /\ \E everything \in BOOLEAN :
           ChangeDesk(DrawMouse(MoveTo(Focus(Desk, path, TRUE), end, to, everything),
                                prevMouse, p))
      /\ deeds' = deeds + 1
      /\ UNCHANGED <<dragging, dragOffset, clicked>>

(* Mutant: the position is taken for shown. *)
SkipPacketShown(off) ==
  /\ elapsed <= MinTicks /\ mouse' = MovedBy(off) /\ prevMouse' = mouse'
  /\ UNCHANGED <<kids, pos, active, screen, events, elapsed, clicked, deeds>>

(* A packet that comes too early moves the mouse; its button is not read. *)
SkipPacket(off) ==
  /\ elapsed <= MinTicks /\ mouse' = MovedBy(off)
  /\ UNCHANGED <<kids, pos, active, screen, events, prevMouse, elapsed, clicked, deeds>>

Tick ==
  /\ elapsed <= MinTicks /\ elapsed' = elapsed + 1
  /\ UNCHANGED <<kids, pos, active, screen, events, mouse, prevMouse, clicked, deeds>>

(* The keys go down the focus path. *)
KeyTarget == EndOf(focusChild)

(* on_key_press of a terminal puts a character in a cell, which is taken   *)
(* to be a pixel, or scrolls.                                              *)
KeyPress ==
  LET client == Pixels(ScreenClientRect(Desk, KeyTarget))
  IN  /\ KeyTarget \in Terminals
      /\ \E cells \in {client} \cup {{p} : p \in client} :
           ChangeDesk(PaintAlone(Desk, KeyTarget, cells))
      /\ UNCHANGED <<events, mouse, prevMouse, elapsed, clicked, deeds>>

-----------------------------------------------------------------------------
InitDesk ==
  LET blank == [kids |-> InitKids, pos |-> InitPos, active |-> {},
                screen |-> [p \in Pixels(Rect(0, 0, SizeOf[Root][1], SizeOf[Root][2])) |-> Black]]
  IN  Paint(blank, Root, Everywhere(blank))

Init ==
  /\ kids = InitDesk.kids /\ pos = InitDesk.pos
  /\ active = InitDesk.active /\ screen = InitDesk.screen
  /\ lastPressed = {} /\ dragging = {}
  /\ eventChild = [w \in Widgets |-> Nobody] /\ focusChild = [w \in Widgets |-> Nobody]
  /\ dragOffset = [w \in Windows |-> <<0, 0>>]
  /\ mouse = <<(SizeOf[Root][1] - 1) \div 2, (SizeOf[Root][2] - 1) \div 2>>
  /\ prevMouse = <<0, 0>>
  /\ elapsed \in 0 .. MinTicks + 1
  /\ clicked = Root /\ deeds = 0

Next ==
  \/ \E off \in Offsets :
       \/ MouseDown(off)
       \/ MouseUp(off)
       \/ \E pressed \in BOOLEAN : MouseMove(off, pressed)
       \/ MouseDrag(off)
  \/ \E off \in EarlyOffsets : SkipPacket(off)
  \/ Tick
  \/ KeyPress

Spec == Init /\ [][Next]_vars

-----------------------------------------------------------------------------
(* Every variable keeps its type: the children of a widget are always the  *)
(* same ones in some order, and no handler leaves the tree.                *)
TypeOK ==
  /\ \A w \in Widgets : /\ Range(kids[w]) = Range(InitKids[w])
                        /\ Len(kids[w]) = Len(InitKids[w])
  /\ pos \in [Widgets -> Int \X Int] /\ active \subseteq Buttons
  /\ DOMAIN screen = Everywhere(Desk)
  /\ lastPressed \subseteq Widgets /\ dragging \subseteq Windows
  /\ \A w \in Widgets : {eventChild[w], focusChild[w]} \subseteq Range(kids[w]) \cup {Nobody}
  /\ dragOffset \in [Windows -> Int \X Int]
  /\ {mouse, prevMouse} \subseteq (0 .. SizeOf[Root][1]) \X (0 .. SizeOf[Root][2])
  /\ elapsed \in 0 .. MinTicks + 1 /\ clicked \in Widgets /\ deeds \in 0 .. MaxDeeds

(* Who has the mouse: the widgets that take the button for pressed are the *)
(* ones from the window manager down to the one that got the press, every  *)
(* other has let go, and only the last is dragged or active.               *)
Holder == IF lastPressed = {} THEN {} ELSE {EndOf(eventChild)}
CaptureChain ==
  /\ lastPressed # {} => /\ Root \in lastPressed
                         /\ \A w \in lastPressed : eventChild[w] # Nobody => eventChild[w] \in lastPressed
                         /\ \A w \in lastPressed \ {Root} : eventChild[ParentOf[w]] = w
  /\ \A w \in Widgets \ lastPressed : eventChild[w] = Nobody
  /\ dragging \cup active \subseteq Holder

(* A dragged window stays under the mouse at the point it was taken by,    *)
(* whatever packets are dropped on the way and however deep it lies.       *)
DragFollowsMouse ==
  \A w \in dragging : Minus(prevMouse, ScreenPos(Desk, w)) = dragOffset[w]

(* The keys go to the widget that was to be seen where the mouse was last  *)
(* pressed: hit-testing and painting agree on what lies on top.            *)
KeysGoToLastClicked == KeyTarget = clicked

(* The window that has the focus within its parent lies on top there.      *)
FocusOnTop ==
  \A w \in Widgets : focusChild[w] \in Windows => Last(kids[w]) = focusChild[w]

(* After every handler the framebuffer shows what lies on top, everywhere: *)
(* moving, raising, clicking and typing repaint enough, paint over nothing *)
(* and leave no trail of the cursor, which alone may cover something.      *)
ScreenIsRight ==
  LET picture == Picture(Desk)
  IN  \A p \in DOMAIN screen :
        \/ screen[p] = picture[p]
        \/ screen[p] = Cursor /\ p \in CursorAt(prevMouse)

(* The handlers give the user the clicks and drags of the abstract         *)
(* specification.                                                          *)
InsideOf(w) ==
  LET within[v \in Widgets] == v = w \/ (v # Root /\ within[ParentOf[v]])
  IN  {v \in Widgets : within[v]}

User == INSTANCE Clicks WITH
       Places <- Widgets, Movable <- Windows, Inside <- InsideOf,
       Start <- [w \in Widgets |-> ScreenPos(InitDesk, w)],
       held <- Holder, focus <- KeyTarget,
       where <- [w \in Widgets |-> ScreenPos(Desk, w)], pointer <- prevMouse

ImplementsClicks == User!Spec
=============================================================================
