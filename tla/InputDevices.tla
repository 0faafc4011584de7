---------------------------- MODULE InputDevices ----------------------------
(***************************************************************************)
(* The keyboard and the mouse, from the wire to the window manager:        *)
(* kernel/device/keyboard.cpp, mouse.cpp, ps2.cpp and pic.cpp, the steps   *)
(* of kernel_init that set them up with interrupts on, and the dispatch of *)
(* kernel_interrupt_handler. A handler runs with interrupts off: one step. *)
(* The boot sequence is a table of port operations; an interrupt can come  *)
(* between any two of them. A byte is a number.                            *)
(***************************************************************************)
EXTENDS InterruptController, Sequences, SequencesExt

CONSTANTS
  Keys,       (* the keys of the keyboard: names in DOMAIN MakeCodes *)
  Moves,      (* what the mouse reports: records of dx, dy and left *)
  MaxKeys,    (* bound: how often keys go down, repeat or go up *)
  MaxMoves,   (* bound: how many packets the mouse sends *)
  Patient     (* nobody types or moves the mouse while the boot polls *)

VARIABLES
  pc,         (* the next step of Script *)
  status,     (* "running", "panic" or "halted" *)
  answer,     (* the byte that ps2::read returned last *)
  pic,        (* the interrupt controllers *)
  config,     (* the configuration byte of the PS/2 controller *)
  input,      (* the controller's input buffer: what was written to a port *)
  expects,    (* who gets the next byte written to the data port *)
  output,     (* its output buffer: full, and the byte, old or new *)
  wire,       (* the bytes each device has to send *)
  reporting,  (* the mouse reports its movements *)
  keyMap,     (* key_map is filled *)
  modifiers,  (* the flags of keyboard.cpp *)
  packet,     (* MousePacket *)
  manager,    (* manager_initialized *)
  given,      (* the last event of each device the manager was given *)
  owed,       (* history: the events not handled yet *)
  user        (* history: the keys that are down, and how they were used *)

boot == <<pc, answer>>
controller == <<config, input, expects>>
drivers == <<keyMap, modifiers, packet, manager, given>>
vars == <<boot, status, pic, controller, output, wire, reporting, drivers, owed, user>>

Devices == {"keyboard", "mouse"}

(* The flags that the left and the right key of a pair share.              *)
Shared == {"ctrl", "shift", "alt"}

-----------------------------------------------------------------------------
(* The steps of kernel_init from pic::init on.                             *)

Port(op, byte) == [op |-> op, arg |-> byte]
Mask(line, enabled) == [op |-> IF enabled THEN "unmask" ELSE "mask", arg |-> line]
Do(op) == [op |-> op, arg |-> 0]

Ack == 250

(* Mutant: mouse_command does not wait for the answer. *)
MouseCommandNoAck(byte) == <<Port("command", 212), Port("data", byte)>>

MouseCommand(byte) == <<Port("command", 212), Port("data", byte), Do("read_ack")>>

InitPic == <<Do("remap"), Do("restore_first"), Do("restore_second"), Mask(Cascade, TRUE)>>

InitKeyboard == <<Mask(Keyboard, TRUE), Do("fill_key_map")>>

(* init_mouse: enable the device, defaults, reporting, then the            *)
(* configuration byte, with the keyboard masked.                           *)
InitMouse ==
  <<Mask(Mouse, TRUE), Port("command", 168)>> \o MouseCommand(246) \o MouseCommand(244) \o
  <<Mask(Keyboard, FALSE), Port("command", 32), Do("read_status"), Port("command", 96),
    Do("write_status"), Mask(Keyboard, TRUE)>>

(* pit::init and framebuffer::init.                                        *)
InitRest == <<Mask(Timer, TRUE), Do("build_manager")>>

Script == InitPic \o InitKeyboard \o InitMouse \o InitRest

Booted == pc > Len(Script)
Doing(ops) == status = "running" /\ ~Booted /\ Script[pc].op \in ops

(* The polling part: until the last command is carried out.                *)
Polling ==
  /\ Len(InitPic \o InitKeyboard) < pc
  /\ pc <= Len(InitPic \o InitKeyboard \o InitMouse) \/ input.port # "none"

(* A byte that is loaded into the output buffer raises its line if the     *)
(* configuration says so: bit 0 for the keyboard and for answers of the    *)
(* controller, bit 1 for the mouse.                                        *)
Loaded(byte, line) ==
  /\ ~output.full
  /\ output' = [full |-> TRUE, byte |-> byte]
  /\ pic' = IF GetBit(config, IF line = Mouse THEN 1 ELSE 0) THEN Request(pic, line) ELSE pic

Init ==
  /\ pc = 1 /\ status = "running" /\ answer = 0
  /\ pic = BootPic
  /\ config = 101 /\ input = [port |-> "none", byte |-> 0] /\ expects = "keyboard"
  /\ output = [full |-> FALSE, byte |-> 0]
  /\ wire = [d \in Devices |-> <<>>]
  /\ reporting = FALSE
  /\ keyMap = FALSE
  /\ modifiers = [ctrl |-> FALSE, shift |-> FALSE, alt |-> FALSE, caps |-> FALSE]
  /\ packet = [status |-> 0, mov_x |-> 0, mov_y |-> 0, counter |-> 0]
  /\ manager = FALSE
  /\ given = [d \in Devices |-> <<>>]
  /\ owed = [d \in Devices |-> <<>>]
  /\ user = [down |-> {}, last |-> [m \in Shared |-> "none"], repeats |-> "none",
             caps |-> FALSE, keys |-> 0, moves |-> 0]

-----------------------------------------------------------------------------
(* The boot. A pending interrupt is taken before the next step.            *)

Goes(ops) == Doing(ops) /\ Raised(pic) = {} /\ pc' = pc + 1

BootPicStep ==
  /\ Goes({"remap", "restore_first", "restore_second", "unmask", "mask"})
  /\ LET step == Script[pc]
     IN  pic' = CASE step.op = "remap" -> Remap(pic)
                  [] step.op = "restore_first" -> RestoreMask(pic, First)
                  [] step.op = "restore_second" -> RestoreMask(pic, Second)
                  [] OTHER -> SetIrqMask(pic, step.arg, step.op = "unmask")
  /\ UNCHANGED <<answer, status, controller, output, wire, reporting, drivers, owed, user>>

BootFillKeyMap ==
  /\ Goes({"fill_key_map"})
  /\ keyMap' = TRUE
  /\ UNCHANGED <<answer, status, pic, controller, output, wire, reporting,
                 modifiers, packet, manager, given, owed, user>>

(* WindowManager::get() in framebuffer::init.                              *)
BootBuildManager ==
  /\ Goes({"build_manager"})
  /\ manager' = TRUE
  /\ UNCHANGED <<answer, status, pic, controller, output, wire, reporting,
                 keyMap, modifiers, packet, given, owed, user>>

(* Mutant: the interrupt of the mouse stays off. *)
NewStatusWithoutIrq == SetBit(answer, 5, FALSE)

(* The byte that init_mouse writes back.                                   *)
NewStatus == SetBit(SetBit(answer, 1, TRUE), 5, FALSE)

(* The controller has nothing left to do: what is not there will not come. *)
ControllerIdle ==
  /\ input.port = "none"
  /\ output.full \/ wire.keyboard = <<>> \/ GetBit(config, 4)
  /\ output.full \/ wire.mouse = <<>> \/ GetBit(config, 5)

(* ps2::write and ps2::write_data wait for the input buffer to be empty.   *)
BootWrite ==
  /\ Goes({"command", "data", "write_status"})
  /\ input.port = "none"
  /\ input' = LET step == Script[pc]
              IN  [port |-> IF step.op = "command" THEN "command" ELSE "data",
                   byte |-> IF step.op = "write_status" THEN NewStatus ELSE step.arg]
  /\ UNCHANGED <<answer, status, pic, config, expects, output, wire, reporting,
                 drivers, owed, user>>

(* ps2::read waits for the output buffer to be full; wait_for panics after *)
(* a hundred tries, wait_for_ack on any other answer.                      *)
BootRead ==
  /\ Goes({"read_ack", "read_status"})
  /\ output.full \/ ControllerIdle
  /\ output' = [output EXCEPT !.full = FALSE]
  /\ answer' = output.byte
  /\ status' = IF ~output.full \/ (Script[pc].op = "read_ack" /\ output.byte # Ack)
               THEN "panic" ELSE status
  /\ UNCHANGED <<pic, controller, wire, reporting, drivers, owed, user>>

Boot == BootPicStep \/ BootFillKeyMap \/ BootBuildManager \/ BootWrite \/ BootRead

-----------------------------------------------------------------------------
(* The handlers. inb of the data port returns the byte of the output       *)
(* buffer, an old one if nothing new is in it.                             *)

Consumed == output' = [output EXCEPT !.full = FALSE]

(* An event is history once its byte is taken.                             *)
Handled(d) == owed' = IF owed[d] = <<>> THEN owed ELSE [owed EXCEPT ![d] = Tail(@)]

Prefix == 224
Letters == (16 .. 25) \cup (30 .. 38) \cup (44 .. 50)
Symbols == (2 .. 13) \cup {39, 40} \cup (51 .. 53)
CtrlCode == 29
ShiftCodes == {42, 54}
AltCode == 56
CapsCode == 58

(* Mutant: a flag is only ever set. *)
ModifiersSticky(code, pressed) ==
  [ctrl |-> modifiers.ctrl \/ (code = CtrlCode /\ pressed),
   shift |-> IF code \in ShiftCodes THEN pressed ELSE modifiers.shift,
   alt |-> IF code = AltCode THEN pressed ELSE modifiers.alt,
   caps |-> IF code = CapsCode /\ pressed THEN ~modifiers.caps ELSE modifiers.caps]

ModifiersAfter(code, pressed) ==
  [ctrl |-> IF code = CtrlCode THEN pressed ELSE modifiers.ctrl,
   shift |-> IF code \in ShiftCodes THEN pressed ELSE modifiers.shift,
   alt |-> IF code = AltCode THEN pressed ELSE modifiers.alt,
   caps |-> IF code = CapsCode /\ pressed THEN ~modifiers.caps ELSE modifiers.caps]

(* The character a key stands for: which of its two forms.                 *)
IsShifted(code, pressed) ==
  /\ pressed
  /\ \/ code \in Letters /\ modifiers.shift # modifiers.caps
     \/ code \in Symbols /\ modifiers.shift

(* Once there is a manager it is given every key.                          *)
HandleKeyboard ==
  LET code == output.byte % 128
      pressed == output.byte < 128
  IN  IF output.byte = Prefix
      THEN UNCHANGED <<drivers, owed>>
      ELSE /\ modifiers' = IF keyMap THEN ModifiersAfter(code, pressed) ELSE modifiers
           /\ given' = IF manager
                       THEN [given EXCEPT !["keyboard"] =
                               <<[code |-> code, pressed |-> pressed,
                                  shifted |-> IsShifted(code, pressed)]>>]
                       ELSE given
           /\ IF output.full THEN Handled("keyboard") ELSE UNCHANGED owed
           /\ UNCHANGED <<keyMap, packet, manager>>

(* Mutant: one off at the most negative offset. *)
SignedOneOff(b) == IF b <= 128 THEN b ELSE b - 256

(* i8 of a byte.                                                           *)
Signed(b) == IF b < 128 THEN b ELSE b - 256

(* put_byte: the third byte makes the packet whole.                        *)
PutByte(byte) ==
  LET at == packet.counter
  IN  [status |-> IF at = 0 THEN byte ELSE packet.status,
       mov_x |-> IF at = 1 THEN byte ELSE packet.mov_x,
       mov_y |-> IF at = 2 THEN byte ELSE packet.mov_y,
       counter |-> IF at + 1 = 3 THEN 0 ELSE at + 1]

(* A complete packet goes to the manager, which is built if there is none. *)
HandleMouse ==
  LET whole == PutByte(output.byte)
  IN  /\ packet' = whole
      /\ IF whole.counter # 0
         THEN UNCHANGED <<manager, given, owed>>
         ELSE /\ manager' = TRUE
              /\ given' = [given EXCEPT !["mouse"] =
                             <<[dx |-> Signed(whole.mov_x), dy |-> -Signed(whole.mov_y),
                                left |-> GetBit(whole.status, 0)]>>]
              /\ Handled("mouse")
      /\ UNCHANGED <<keyMap, modifiers>>

(* kernel_interrupt_handler. Before the controllers are remapped a line    *)
(* has the vector of an exception, at which the kernel halts.              *)
Interrupt(line) ==
  /\ status = "running"
  /\ line \in Raised(pic)
  /\ \A l \in Raised(pic) : OnFirst(line) <= OnFirst(l)
  /\ status' = IF pic.remapped THEN status ELSE "halted"
  /\ pic' = SendEoi(Acknowledge(pic, line), line)
  /\ CASE line = Keyboard -> Consumed /\ HandleKeyboard
       [] line = Mouse -> Consumed /\ HandleMouse
       [] OTHER -> UNCHANGED <<output, drivers, owed>>
  /\ UNCHANGED <<boot, controller, wire, reporting, user>>

-----------------------------------------------------------------------------
(* The PS/2 controller and the devices, as far as the drivers use them.    *)

EnableMouse == 168
ToMouse == 212
ReadConfig == 32
WriteConfig == 96
EnableReporting == 244

(* The controller takes what was written to a port: a command, a byte for  *)
(* the mouse, which answers, or the configuration byte.                    *)
Accept ==
  LET command == input.port = "command"
  IN  /\ input.port # "none"
      /\ command /\ input.byte = ReadConfig => ~output.full
      /\ input' = [input EXCEPT !.port = "none"]
      /\ expects' = CASE command /\ input.byte = ToMouse -> "mouse"
                     [] command /\ input.byte = WriteConfig -> "config"
                     [] OTHER -> "keyboard"
      /\ config' = CASE command /\ input.byte = EnableMouse -> SetBit(config, 5, FALSE)
                    [] ~command /\ expects = "config" -> input.byte
                    [] OTHER -> config
      /\ IF command /\ input.byte = ReadConfig
         THEN Loaded(config, Keyboard)
         ELSE UNCHANGED <<output, pic>>
      /\ IF ~command /\ expects = "mouse"
         THEN /\ reporting' = (input.byte = EnableReporting)
              /\ wire' = [wire EXCEPT !.mouse = Append(@, Ack)]
         ELSE UNCHANGED <<reporting, wire>>
      /\ UNCHANGED <<boot, status, drivers, owed, user>>

(* The next byte of a device enters the output buffer, unless the          *)
(* configuration stops its clock.                                          *)
Load(d) ==
  /\ wire[d] # <<>>
  /\ ~GetBit(config, IF d = "keyboard" THEN 4 ELSE 5)
  /\ Loaded(Head(wire[d]), IF d = "keyboard" THEN Keyboard ELSE Mouse)
  /\ wire' = [wire EXCEPT ![d] = Tail(@)]
  /\ UNCHANGED <<boot, status, controller, reporting, drivers, owed, user>>

Tick ==
  /\ Timer \notin pic.requested
  /\ pic' = Request(pic, Timer)
  /\ UNCHANGED <<boot, status, controller, output, wire, reporting, drivers, owed, user>>

-----------------------------------------------------------------------------
(* The user.                                                               *)

MakeCodes ==
  [a |-> <<30>>, one |-> <<2>>, caps |-> <<58>>, keypad_enter |-> <<Prefix, 28>>,
   left_shift |-> <<42>>, right_shift |-> <<54>>,
   left_ctrl |-> <<29>>, right_ctrl |-> <<Prefix, 29>>,
   left_alt |-> <<56>>, right_alt |-> <<Prefix, 56>>]

(* The keys that set and clear a flag.                                     *)
Pair(m) ==
  CASE m = "ctrl" -> {"left_ctrl", "right_ctrl"}
    [] m = "shift" -> {"left_shift", "right_shift"}
    [] m = "alt" -> {"left_alt", "right_alt"}

ASSUME InputAssumption ==
  /\ Keys \subseteq DOMAIN MakeCodes
  /\ Moves \subseteq [dx : -128 .. 127, dy : -128 .. 127, left : BOOLEAN]
  /\ MaxKeys \in Nat /\ MaxMoves \in Nat /\ Patient \in BOOLEAN

BreakCodes(k) ==
  [i \in DOMAIN MakeCodes[k] |->
     IF MakeCodes[k][i] = Prefix THEN Prefix ELSE MakeCodes[k][i] + 128]

(* The key of a pair that was used last is held: what a flag stands for.   *)
(* To release either key of a pair ends it, though the other is held.      *)
LastIsDown(m) == user.last[m] \in user.down
LastUsed(k) == [m \in Shared |-> IF k \in Pair(m) THEN k ELSE user.last[m]]

(* The event a key means: its code, and the character by what is held.     *)
Meant(k, pressed) ==
  [code |-> Last(MakeCodes[k]), pressed |-> pressed,
   shifted |-> pressed /\ CASE k = "a" -> LastIsDown("shift") # user.caps
                            [] k = "one" -> LastIsDown("shift")
                            [] OTHER -> FALSE]

Typing(k, pressed, codes) ==
  /\ Patient => keyMap /\ ~Polling
  /\ user.keys < MaxKeys
  /\ wire' = [wire EXCEPT !.keyboard = @ \o codes]
  /\ owed' = [owed EXCEPT !.keyboard = Append(@, Meant(k, pressed))]
  /\ UNCHANGED <<boot, status, pic, controller, output, reporting, drivers>>

(* A key goes down, or sends its code again, as the one pressed last does. *)
Press(k) ==
  /\ k \notin user.down \/ k = user.repeats
  /\ Typing(k, TRUE, MakeCodes[k])
  /\ user' = [user EXCEPT !.down = @ \cup {k}, !.last = LastUsed(k), !.repeats = k,
                          !.keys = @ + 1, !.caps = IF k = "caps" THEN ~@ ELSE @]

Release(k) ==
  /\ k \in user.down
  /\ Typing(k, FALSE, BreakCodes(k))
  /\ user' = [user EXCEPT !.down = @ \ {k}, !.last = LastUsed(k),
                          !.repeats = IF @ = k THEN "none" ELSE @, !.keys = @ + 1]

MoveMouse(m) ==
  /\ reporting
  /\ Patient => manager /\ ~Polling
  /\ user.moves < MaxMoves
  /\ wire' = [wire EXCEPT !.mouse =
               @ \o <<8 + (IF m.left THEN 1 ELSE 0), m.dx % 256, m.dy % 256>>]
  /\ owed' = [owed EXCEPT !.mouse =
               Append(@, [dx |-> m.dx, dy |-> -m.dy, left |-> m.left])]
  /\ user' = [user EXCEPT !.moves = @ + 1]
  /\ UNCHANGED <<boot, status, pic, controller, output, reporting, drivers>>

Next ==
  \/ Boot
  \/ \E line \in Lines : Interrupt(line)
  \/ Accept \/ Tick
  \/ \E d \in Devices : Load(d)
  \/ \E k \in Keys : Press(k) \/ Release(k)
  \/ \E m \in Moves : MoveMouse(m)

Spec == Init /\ [][Next]_vars

(* Something runs between two interrupts of the timer, and the controller  *)
(* gets on with its work.                                                  *)
FairSpec ==
  /\ Spec
  /\ SF_vars(Boot)
  /\ WF_vars(Interrupt(Timer)) /\ SF_vars(Interrupt(Keyboard)) /\ SF_vars(Interrupt(Mouse))
  /\ WF_vars(Accept)
  /\ \A d \in Devices : SF_vars(Load(d))

-----------------------------------------------------------------------------
(* Once every code of the keyboard was handled, each flag of keyboard.cpp  *)
(* is on exactly if the key of its pair that was used last is held, so     *)
(* that none is on with both keys up, and caps if its key went down or     *)
(* repeated an odd number of times: whatever the order of keys, prefixes   *)
(* and interrupts. That a flag is off while the other key of its pair is   *)
(* still held is what the code does.                                       *)
ModifiersFollowKeys ==
  owed.keyboard = <<>> =>
    /\ modifiers.ctrl = LastIsDown("ctrl")
    /\ modifiers.shift = LastIsDown("shift")
    /\ modifiers.alt = LastIsDown("alt")
    /\ modifiers.caps = user.caps

(* Every key and every movement reaches the window manager once, in the    *)
(* order of its device, as what the user meant, whatever the boot, the     *)
(* timer and the other device do in between.                               *)
Channels == INSTANCE EventChannels WITH pending <- owed, open <- manager
ImplementsEventChannels == Channels!Spec

(* The conversation of init_mouse with the controller comes to its end:    *)
(* no answer is missing, none is taken for another one, and no latched     *)
(* interrupt stops the boot.                                               *)
BootEnds == <>(Booted /\ manager)

(* What happens at a device is handled in the end: no line stays unserved  *)
(* or masked and no byte blocks the output buffer.                         *)
EverythingArrives == \A d \in Devices : []<>(owed[d] = <<>>)
=============================================================================
