------------------------- MODULE InputDevicesProofs -------------------------
(***************************************************************************)
(* Nothing that the user does at the keyboard or the mouse is lost,        *)
(* repeated or misread on its way to the window manager, and init_mouse    *)
(* gets the answers it waits for: for any keys, movements and number of    *)
(* either, provided that nobody types while the boot polls.                *)
(*                                                                         *)
(* The invariant has three parts. Conversation is where init_mouse and the *)
(* controller are with each other; it ends with Settled. From then on the  *)
(* line that is requested tells whose byte is in the output buffer, so the *)
(* bytes a device has still to deliver are that byte, if it is the         *)
(* device's, and what is on its wire. The codes on the way from the        *)
(* keyboard, but for the prefixes, are one for one the events owed, and    *)
(* the flags would become what the user holds if these were handled; the   *)
(* bytes from the mouse, those of the unfinished packet first, are three   *)
(* for each movement owed.                                                 *)
(*                                                                         *)
(* In order: the script of the boot, the interrupt controllers, what the   *)
(* bytes on the way stand for, the invariant, one lemma for each action,   *)
(* the theorems.                                                           *)
(***************************************************************************)
EXTENDS InputDevices, DataFacts

-----------------------------------------------------------------------------
(* The script. *)

Step == [op : {"remap", "restore_first", "restore_second", "mask", "unmask", "fill_key_map",
               "command", "data", "read_ack", "read_status", "write_status", "build_manager"},
         arg : Nat]

(* The parts of init_mouse between its two commands to the mouse. *)
Enable == <<Mask(Mouse, TRUE), Port("command", 168)>>
Configure == <<Mask(Keyboard, FALSE), Port("command", 32), Do("read_status"),
               Port("command", 96), Do("write_status"), Mask(Keyboard, TRUE)>>

LEMMA StepTypes ==
  /\ \A line \in Lines : Mask(line, TRUE) \in Step /\ Mask(line, FALSE) \in Step
  /\ \A byte \in Nat : Port("command", byte) \in Step /\ Port("data", byte) \in Step
  /\ Do("remap") \in Step /\ Do("restore_first") \in Step /\ Do("restore_second") \in Step
  /\ Do("fill_key_map") \in Step /\ Do("build_manager") \in Step
  /\ Do("read_ack") \in Step /\ Do("read_status") \in Step /\ Do("write_status") \in Step
  BY DEF Step, Mask, Port, Do, Lines, Timer, Keyboard, Cascade, Mouse

LEMMA ShortTuples ==
  ASSUME NEW S, NEW a \in S, NEW b \in S
  PROVE  /\ <<a, b>> \in Seq(S)
         /\ \A c \in S : /\ <<a, b, c>> \in Seq(S)
                         /\ \A d \in S : /\ <<a, b, c, d>> \in Seq(S)
                                         /\ \A e, f \in S : <<a, b, c, d, e, f>> \in Seq(S)
  OBVIOUS

LEMMA PiecesOfScript ==
  /\ InitPic \in Seq(Step) /\ Len(InitPic) = 4
  /\ InitKeyboard \in Seq(Step) /\ Len(InitKeyboard) = 2
  /\ Enable \in Seq(Step) /\ Len(Enable) = 2
  /\ MouseCommand(246) \in Seq(Step) /\ Len(MouseCommand(246)) = 3
  /\ MouseCommand(244) \in Seq(Step) /\ Len(MouseCommand(244)) = 3
  /\ Configure \in Seq(Step) /\ Len(Configure) = 6
  /\ InitRest \in Seq(Step) /\ Len(InitRest) = 2
  <1>0. /\ Timer \in Lines /\ Keyboard \in Lines /\ Cascade \in Lines /\ Mouse \in Lines
        /\ 32 \in Nat /\ 96 \in Nat /\ 168 \in Nat /\ 212 \in Nat /\ 246 \in Nat /\ 244 \in Nat
    BY DEF Lines
  <1>1. InitPic \in Seq(Step)
    BY <1>0, StepTypes, ShortTuples, Zenon DEF InitPic
  <1>2. InitKeyboard \in Seq(Step)
    BY <1>0, StepTypes, ShortTuples, Zenon DEF InitKeyboard
  <1>3. Enable \in Seq(Step)
    BY <1>0, StepTypes, ShortTuples, ZenonT(40) DEF Enable
  <1>4. ASSUME NEW byte \in Nat PROVE MouseCommand(byte) \in Seq(Step)
    <2>1. Port("command", 212) \in Step /\ Port("data", byte) \in Step /\ Do("read_ack") \in Step
      BY <1>0, StepTypes, Zenon
    <2> QED BY <2>1, ShortTuples, ZenonT(40) DEF MouseCommand
  <1>5. Configure \in Seq(Step)
    BY <1>0, StepTypes, ShortTuples, ZenonT(40) DEF Configure
  <1>6. InitRest \in Seq(Step)
    BY <1>0, StepTypes, ShortTuples, Zenon DEF InitRest
  <1>7. /\ Len(InitPic) = 4 /\ Len(InitKeyboard) = 2 /\ Len(Enable) = 2 /\ Len(InitRest) = 2
        /\ Len(MouseCommand(246)) = 3 /\ Len(MouseCommand(244)) = 3 /\ Len(Configure) = 6
    BY DEF InitPic, InitKeyboard, Enable, InitRest, MouseCommand, Configure
  <1> QED BY <1>1, <1>2, <1>3, <1>4, <1>5, <1>6, <1>7

LEMMA StepsOfMouse ==
  LET s == InitMouse
  IN  /\ s \in Seq(Step) /\ Len(s) = 14
      /\ s[1] = Mask(Mouse, TRUE) /\ s[2] = Port("command", 168)
      /\ s[3] = Port("command", 212) /\ s[4] = Port("data", 246) /\ s[5] = Do("read_ack")
      /\ s[6] = Port("command", 212) /\ s[7] = Port("data", 244) /\ s[8] = Do("read_ack")
      /\ s[9] = Mask(Keyboard, FALSE) /\ s[10] = Port("command", 32)
      /\ s[11] = Do("read_status") /\ s[12] = Port("command", 96)
      /\ s[13] = Do("write_status") /\ s[14] = Mask(Keyboard, TRUE)
  <1> DEFINE a == Enable
             b == MouseCommand(246)
             c == MouseCommand(244)
             d == Configure
             ab == a \o b
             abc == ab \o c
             abcd == abc \o d
  <1>0. InitMouse = abcd
    BY DEF InitMouse, Enable, Configure
  <1>a. /\ a[1] = Mask(Mouse, TRUE) /\ a[2] = Port("command", 168)
        /\ b[1] = Port("command", 212) /\ b[2] = Port("data", 246) /\ b[3] = Do("read_ack")
        /\ c[1] = Port("command", 212) /\ c[2] = Port("data", 244) /\ c[3] = Do("read_ack")
        /\ d[1] = Mask(Keyboard, FALSE) /\ d[2] = Port("command", 32)
        /\ d[3] = Do("read_status") /\ d[4] = Port("command", 96)
        /\ d[5] = Do("write_status") /\ d[6] = Mask(Keyboard, TRUE)
    BY DEF Enable, MouseCommand, Configure
  <1> HIDE DEF a, b, c, d
  <1>1. Joined(ab, Step, a, 2, b, 3)
    BY PiecesOfScript, ConcatFacts, ZenonT(30) DEF a, b
  <1> HIDE DEF ab
  <1>2. /\ ab \in Seq(Step) /\ Len(ab) = 5 /\ ab[1] = a[1] /\ ab[2] = a[2]
        /\ ab[3] = b[1] /\ ab[4] = b[2] /\ ab[5] = b[3]
    BY <1>1 DEF Joined
  <1>3. Joined(abc, Step, ab, 5, c, 3)
    BY PiecesOfScript, <1>2, ConcatFacts, ZenonT(30) DEF c
  <1> HIDE DEF abc
  <1>4. /\ abc \in Seq(Step) /\ Len(abc) = 8
        /\ abc[1] = ab[1] /\ abc[2] = ab[2] /\ abc[3] = ab[3] /\ abc[4] = ab[4] /\ abc[5] = ab[5]
        /\ abc[6] = c[1] /\ abc[7] = c[2] /\ abc[8] = c[3]
    BY <1>3 DEF Joined
  <1>5. Joined(abcd, Step, abc, 8, d, 6)
    BY PiecesOfScript, <1>4, ConcatFacts, ZenonT(30) DEF d
  <1> HIDE DEF abcd
  <1>6. /\ abcd \in Seq(Step) /\ Len(abcd) = 14
        /\ abcd[1] = abc[1] /\ abcd[2] = abc[2] /\ abcd[3] = abc[3] /\ abcd[4] = abc[4]
        /\ abcd[5] = abc[5] /\ abcd[6] = abc[6] /\ abcd[7] = abc[7] /\ abcd[8] = abc[8]
    BY <1>5 DEF Joined
  <1>7. /\ abcd[9] = d[1] /\ abcd[10] = d[2] /\ abcd[11] = d[3] /\ abcd[12] = d[4]
        /\ abcd[13] = d[5] /\ abcd[14] = d[6]
    BY <1>5 DEF Joined
  <1> QED BY <1>0, <1>a, <1>2, <1>4, <1>6, <1>7, SMT

LEMMA ScriptSteps ==
  /\ Len(Script) = 22
  /\ Script[1] = Do("remap") /\ Script[2] = Do("restore_first")
  /\ Script[3] = Do("restore_second") /\ Script[4] = Mask(Cascade, TRUE)
  /\ Script[5] = Mask(Keyboard, TRUE) /\ Script[6] = Do("fill_key_map")
  /\ Script[7] = Mask(Mouse, TRUE) /\ Script[8] = Port("command", 168)
  /\ Script[9] = Port("command", 212) /\ Script[10] = Port("data", 246)
  /\ Script[11] = Do("read_ack")
  /\ Script[12] = Port("command", 212) /\ Script[13] = Port("data", 244)
  /\ Script[14] = Do("read_ack")
  /\ Script[15] = Mask(Keyboard, FALSE) /\ Script[16] = Port("command", 32)
  /\ Script[17] = Do("read_status") /\ Script[18] = Port("command", 96)
  /\ Script[19] = Do("write_status") /\ Script[20] = Mask(Keyboard, TRUE)
  /\ Script[21] = Mask(Timer, TRUE) /\ Script[22] = Do("build_manager")
  <1> DEFINE a == InitPic
             b == InitKeyboard
             c == InitMouse
             d == InitRest
             ab == a \o b
             abc == ab \o c
             abcd == abc \o d
  <1>0. Script = abcd
    BY DEF Script
  <1> HIDE DEF a, b, c, d
  <1>1. Joined(ab, Step, a, 4, b, 2)
    BY PiecesOfScript, ConcatFacts, ZenonT(40) DEF a, b
  <1> HIDE DEF ab
  <1>2. ab \in Seq(Step) /\ Len(ab) = 6
    BY <1>1 DEF Joined
  <1>c. c \in Seq(Step) /\ Len(c) = 14
    BY StepsOfMouse DEF c
  <1>3. Joined(abc, Step, ab, 6, c, 14)
    BY <1>c, <1>2, ConcatFacts, Zenon
  <1> HIDE DEF abc
  <1>4. abc \in Seq(Step) /\ Len(abc) = 20
    BY <1>3 DEF Joined
  <1>5. Joined(abcd, Step, abc, 20, d, 2)
    BY PiecesOfScript, <1>4, ConcatFacts, ZenonT(30) DEF d
  <1> HIDE DEF abcd
  <1>6. /\ Len(abcd) = 22 /\ abcd[21] = d[1] /\ abcd[22] = d[2]
        /\ \A i \in 1 .. 20 : abcd[i] = abc[i]
    BY <1>5 DEF Joined
  <1>7. \A i \in 7 .. 20 : abc[i] = c[i - 6]
    BY <1>3 DEF Joined
  <1>8. \A i \in 1 .. 6 : abc[i] = ab[i]
    BY <1>3 DEF Joined
  <1>9. /\ ab[1] = a[1] /\ ab[2] = a[2] /\ ab[3] = a[3] /\ ab[4] = a[4]
        /\ ab[5] = b[1] /\ ab[6] = b[2]
    BY <1>1 DEF Joined
  <1>10. /\ a[1] = Do("remap") /\ a[2] = Do("restore_first")
         /\ a[3] = Do("restore_second") /\ a[4] = Mask(Cascade, TRUE)
         /\ b[1] = Mask(Keyboard, TRUE) /\ b[2] = Do("fill_key_map")
         /\ d[1] = Mask(Timer, TRUE) /\ d[2] = Do("build_manager")
    BY DEF a, b, d, InitPic, InitKeyboard, InitRest
  <1>11. /\ abcd[1] = a[1] /\ abcd[2] = a[2] /\ abcd[3] = a[3] /\ abcd[4] = a[4]
         /\ abcd[5] = b[1] /\ abcd[6] = b[2]
    BY <1>6, <1>8, <1>9
  <1>12. /\ abcd[7] = c[1] /\ abcd[8] = c[2] /\ abcd[9] = c[3] /\ abcd[10] = c[4]
         /\ abcd[11] = c[5] /\ abcd[12] = c[6] /\ abcd[13] = c[7] /\ abcd[14] = c[8]
         /\ abcd[15] = c[9] /\ abcd[16] = c[10] /\ abcd[17] = c[11] /\ abcd[18] = c[12]
         /\ abcd[19] = c[13] /\ abcd[20] = c[14]
    BY <1>6, <1>7
  <1>13. /\ c[1] = Mask(Mouse, TRUE) /\ c[2] = Port("command", 168)
         /\ c[3] = Port("command", 212) /\ c[4] = Port("data", 246) /\ c[5] = Do("read_ack")
         /\ c[6] = Port("command", 212) /\ c[7] = Port("data", 244) /\ c[8] = Do("read_ack")
         /\ c[9] = Mask(Keyboard, FALSE) /\ c[10] = Port("command", 32)
         /\ c[11] = Do("read_status") /\ c[12] = Port("command", 96)
         /\ c[13] = Do("write_status") /\ c[14] = Mask(Keyboard, TRUE)
    BY StepsOfMouse DEF c
  <1> QED BY <1>0, <1>6, <1>10, <1>11, <1>12, <1>13, SMT

LEMMA PartsOfScript ==
  Len(InitPic \o InitKeyboard) = 6 /\ Len(InitPic \o InitKeyboard \o InitMouse) = 20
  BY DEF InitPic, InitKeyboard, InitMouse, MouseCommand

(* The bits of the configuration bytes that there are. *)
LEMMA ConfigBits ==
  /\ GetBit(101, 0) /\ ~GetBit(101, 1) /\ ~GetBit(101, 4) /\ GetBit(101, 5)
  /\ GetBit(69, 0) /\ ~GetBit(69, 1) /\ ~GetBit(69, 4) /\ ~GetBit(69, 5)
  /\ GetBit(71, 0) /\ GetBit(71, 1) /\ ~GetBit(71, 4) /\ ~GetBit(71, 5)
  /\ SetBit(101, 5, FALSE) = 69
  /\ SetBit(SetBit(69, 1, TRUE), 5, FALSE) = 71
  BY DEF GetBit, SetBit

-----------------------------------------------------------------------------
(* The interrupt controllers. A handler says that it is done before it     *)
(* returns, so nothing is being served when another can be let through.    *)

LEMMA OneServed ==
  ASSUME NEW S, NEW s, S = {s}, s \in Int
  PROVE  Min(S) = s
  BY DEF Min

PicType == [masked : SUBSET Lines, requested : SUBSET Lines, serving : SUBSET Lines,
            remapped : BOOLEAN]

LEMMA HandlerIsDone ==
  ASSUME NEW p \in PicType, NEW line \in Lines, p.serving = {}
  PROVE  SendEoi(Acknowledge(p, line), line) = [p EXCEPT !.requested = @ \ {line}]
  <1> DEFINE q == Acknowledge(p, line)
             done(chip) == IF q.serving \cap chip = {} THEN {} ELSE {Min(q.serving \cap chip)}
             new == q.serving \ (done(First) \cup (IF line < 8 THEN {} ELSE done(Second)))
  <1>1. /\ q \in PicType /\ q.serving = {line, OnFirst(line)}
        /\ q = [[p EXCEPT !.requested = @ \ {line}] EXCEPT !.serving = {line, OnFirst(line)}]
    BY DEF Acknowledge, PicType, OnFirst, Lines, Timer, Keyboard, Cascade, Mouse
  <1>2. SendEoi(q, line) = [q EXCEPT !.serving = new]
    BY <1>1 DEF SendEoi, PicType
  <1>3. /\ First = {0, 1, 2} /\ Second = {12} /\ Lines = {0, 1, 2, 12}
    BY DEF First, Second, Lines, Timer, Keyboard, Cascade, Mouse
  <1>4. ASSUME line \in First
        PROVE  new = {}
    <2>1. OnFirst(line) = line /\ line < 8 /\ line \in Int
      BY <1>3, <1>4 DEF OnFirst
    <2>2. q.serving \cap First = {line} /\ q.serving = {line}
      BY <1>1, <1>4, <2>1
    <2>3. done(First) = {line}
      BY <2>1, <2>2, OneServed
    <2> QED BY <2>1, <2>2, <2>3
  <1>5. ASSUME line \notin First
        PROVE  new = {}
    <2>1. line = 12 /\ OnFirst(line) = 2 /\ ~(line < 8)
      BY <1>3, <1>5 DEF OnFirst, Cascade
    <2>a. {12, 2} \cap {0, 1, 2} = {2} /\ {12, 2} \cap {12} = {12}
      OBVIOUS
    <2>b. q.serving = {12, 2}
      BY <1>1, <2>1, Zenon
    <2>2. q.serving \cap First = {2} /\ q.serving \cap Second = {12} /\ q.serving = {12, 2}
      BY <1>3, <2>a, <2>b, Zenon
    <2>3. Min({2}) = 2 /\ Min({12}) = 12
      BY OneServed
    <2>4. done(First) = {2} /\ done(Second) = {12}
      BY <2>2, <2>3
    <2> QED BY <2>1, <2>2, <2>4
  <1> HIDE DEF new
  <1>6. SendEoi(q, line) = [q EXCEPT !.serving = {}]
    BY <1>2, <1>4, <1>5
  <1> HIDE DEF q
  <1>7. [q EXCEPT !.serving = {}] = [p EXCEPT !.requested = @ \ {line}]
    BY <1>1 DEF PicType
  <1> QED BY <1>6, <1>7 DEF q

LEMMA RaisedLines ==
  ASSUME NEW p, p.serving = {}
  PROVE  /\ \A l \in Raised(p) : l \in p.requested /\ l \notin p.masked
         /\ Keyboard \in p.requested /\ Keyboard \notin p.masked => Keyboard \in Raised(p)
  BY DEF Raised, OnFirst, First, Second, Lines, Keyboard, Timer, Cascade, Mouse

-----------------------------------------------------------------------------
(* What the codes on the way from the keyboard stand for. *)

Bytes == 0 .. 255
Flags == [ctrl : BOOLEAN, shift : BOOLEAN, alt : BOOLEAN, caps : BOOLEAN]
KeyCodes == {30, 2, 58, 28, 42, 54, 29, 56}
KeyEvents == [code : KeyCodes, pressed : BOOLEAN, shifted : BOOLEAN]

FinalByte(e) == IF e.pressed THEN e.code ELSE e.code + 128

LEMMA FinalBytes ==
  ASSUME NEW e \in KeyEvents
  PROVE  /\ FinalByte(e) \in Bytes /\ FinalByte(e) # Prefix
         /\ FinalByte(e) % 128 = e.code /\ (FinalByte(e) < 128 <=> e.pressed)
  BY DEF KeyEvents, KeyCodes, FinalByte, Bytes, Prefix

(* The codes that are no prefix are one for one the final bytes of the     *)
(* events.                                                                 *)
Matches(at, s, k, es, n) ==
  /\ at \in [1 .. n -> 1 .. k]
  /\ \A i, j \in 1 .. n : i < j => at[i] < at[j]
  /\ \A i \in 1 .. n : s[at[i]] = FinalByte(es[i])
  /\ \A j \in 1 .. k : s[j] # Prefix => \E i \in 1 .. n : at[i] = j

Carries(s, es) == \E at : Matches(at, s, Len(s), es, Len(es))

LEMMA CarriesNothing == Carries(<<>>, <<>>)
  <1> DEFINE at == [i \in 1 .. Len(<<>>) |-> 1]
  <1>1. at \in [1 .. Len(<<>>) -> 1 .. Len(<<>>)]
    OBVIOUS
  <1>2. \A i \in 1 .. Len(<<>>) : FALSE
    OBVIOUS
  <1> QED BY <1>1, <1>2 DEF Carries, Matches

LEMMA TailFacts ==
  ASSUME NEW S, NEW s \in Seq(S), s # <<>>
  PROVE  /\ Len(s) \in Nat \ {0} /\ Len(Tail(s)) = Len(s) - 1 /\ Tail(s) \in Seq(S)
         /\ Head(s) = s[1] /\ s[1] \in S
         /\ \A i \in 1 .. Len(s) - 1 : Tail(s)[i] = s[i + 1]
  OBVIOUS

(* A byte before a wire, and bytes behind it. *)
LEMMA TakeFirst ==
  ASSUME NEW S, NEW b \in S, NEW s \in Seq(S), NEW t, t = <<b>> \o s
  PROVE  t \in Seq(S) /\ t # <<>> /\ Head(t) = b /\ Tail(t) = s
  <1> DEFINE n == Len(s)
             one == <<b>>
  <1>1. one \in Seq(S) /\ Len(one) = 1 /\ one[1] = b /\ n \in Nat /\ t = one \o s
    OBVIOUS
  <1> HIDE DEF n, one
  <1>2. Joined(t, S, one, 1, s, n)
    BY <1>1, ConcatFacts, Zenon DEF n
  <1>3. /\ t \in Seq(S) /\ Len(t) = 1 + n
        /\ \A i \in 1 .. 1 : t[i] = one[i]
        /\ \A i \in 1 + 1 .. 1 + n : t[i] = s[i - 1]
    BY <1>2, Zenon DEF Joined
  <1>4. t # <<>>
    BY <1>1, <1>3
  <1>5. Head(t) = t[1] /\ Len(Tail(t)) = Len(t) - 1 /\ Tail(t) \in Seq(S)
        /\ \A i \in 1 .. Len(t) - 1 : Tail(t)[i] = t[i + 1]
    BY <1>3, <1>4, TailFacts, ZenonT(30)
  <1>6. Len(Tail(t)) = n
    BY <1>1, <1>3, <1>5
  <1>7. \A i \in 1 .. n : Tail(t)[i] = s[i]
    <2> TAKE i \in 1 .. n
    <2>1. i \in 1 .. Len(t) - 1 /\ i + 1 \in 1 + 1 .. 1 + n /\ (i + 1) - 1 = i
      BY <1>1, <1>3
    <2> QED BY <2>1, <1>3, <1>5
  <1>8. Tail(t) = s
    BY <1>5, <1>6, <1>7, SeqEqual, Zenon DEF n
  <1> QED BY <1>1, <1>3, <1>4, <1>5, <1>8

LEMMA FirstAndRest ==
  ASSUME NEW S, NEW s \in Seq(S), s # <<>>
  PROVE  <<Head(s)>> \o Tail(s) = s
  <1> DEFINE k == Len(s)
             h == Head(s)
             one == <<h>>
             r == Tail(s)
             t == one \o r
  <1>1. /\ k \in Nat \ {0} /\ Len(r) = k - 1 /\ r \in Seq(S) /\ h = s[1] /\ h \in S
        /\ \A i \in 1 .. k - 1 : r[i] = s[i + 1]
    BY TailFacts
  <1>2. one \in Seq(S) /\ Len(one) = 1 /\ one[1] = h
    BY <1>1
  <1> HIDE DEF k, h, one, r, t
  <1>3. Joined(t, S, one, 1, r, k - 1)
    BY <1>1, <1>2, ConcatFacts, Zenon DEF t
  <1>4. /\ t \in Seq(S) /\ Len(t) = 1 + (k - 1)
        /\ \A i \in 1 .. 1 : t[i] = one[i]
        /\ \A i \in 1 + 1 .. 1 + (k - 1) : t[i] = r[i - 1]
    BY <1>3, Zenon DEF Joined
  <1>5. Len(t) = Len(s)
    BY <1>1, <1>4 DEF k
  <1>6. \A i \in 1 .. Len(t) : t[i] = s[i]
    <2> TAKE i \in 1 .. Len(t)
    <2>1. CASE i = 1
      BY <2>1, <1>1, <1>2, <1>4
    <2>2. CASE i # 1
      <3>1. i \in 1 + 1 .. 1 + (k - 1) /\ i - 1 \in 1 .. k - 1 /\ (i - 1) + 1 = i
        BY <2>2, <1>1, <1>4
      <3> QED BY <3>1, <1>1, <1>4
    <2> QED BY <2>1, <2>2
  <1>7. t = s
    BY <1>4, <1>5, <1>6, SeqEqual, Zenon
  <1> QED BY <1>7 DEF t, one, h, r

LEMMA OneBehind ==
  ASSUME NEW S, NEW s \in Seq(S), NEW a \in S
  PROVE  s \o <<a>> = Append(s, a)
  <1> DEFINE k == Len(s)
             one == <<a>>
             t == s \o one
             u == Append(s, a)
  <1>1. /\ k \in Nat /\ u \in Seq(S) /\ Len(u) = k + 1 /\ u[k + 1] = a
        /\ \A i \in 1 .. k : u[i] = s[i]
    OBVIOUS
  <1>2. one \in Seq(S) /\ Len(one) = 1 /\ one[1] = a
    OBVIOUS
  <1> HIDE DEF k, one, t, u
  <1>3. Joined(t, S, s, k, one, 1)
    BY <1>2, ConcatFacts, Zenon DEF t, k
  <1>4. /\ t \in Seq(S) /\ Len(t) = k + 1
        /\ \A i \in 1 .. k : t[i] = s[i]
        /\ \A i \in k + 1 .. k + 1 : t[i] = one[i - k]
    BY <1>3, Zenon DEF Joined
  <1>5. \A i \in 1 .. Len(t) : t[i] = u[i]
    <2> TAKE i \in 1 .. Len(t)
    <2>1. CASE i \in 1 .. k
      BY <2>1, <1>1, <1>4
    <2>2. CASE i \notin 1 .. k
      <3>1. i = k + 1 /\ i \in k + 1 .. k + 1 /\ i - k = 1
        BY <2>2, <1>1, <1>4
      <3> QED BY <3>1, <1>1, <1>2, <1>4
    <2> QED BY <2>1, <2>2
  <1>6. t = u
    BY <1>1, <1>4, <1>5, SeqEqual, Zenon
  <1> QED BY <1>6 DEF t, u, one

LEMMA TwoBehind ==
  ASSUME NEW S, NEW s \in Seq(S), NEW a \in S, NEW b \in S
  PROVE  s \o <<a, b>> = Append(Append(s, a), b)
  <1> DEFINE one == <<a>>
             other == <<b>>
             both == <<a, b>>
             t == Append(one, b)
  <1>1. /\ one \in Seq(S) /\ other \in Seq(S)
        /\ both \in Seq(S) /\ Len(both) = 2 /\ both[1] = a /\ both[2] = b
    OBVIOUS
  <1>2. t \in Seq(S) /\ Len(t) = 2 /\ t[1] = a /\ t[2] = b
    OBVIOUS
  <1>a. one \o other = t
    BY <1>1, OneBehind, Zenon DEF other, t
  <1>b. Append(s, a) \in Seq(S)
    OBVIOUS
  <1>c. s \o one = Append(s, a) /\ Append(s, a) \o other = Append(Append(s, a), b)
    BY <1>b, OneBehind, Zenon DEF one, other
  <1> HIDE DEF one, other, both, t
  <1>3. both = t
    <2>1. \A i \in 1 .. Len(both) : both[i] = t[i]
      BY <1>1, <1>2
    <2> QED BY <2>1, <1>1, <1>2, SeqEqual, Zenon
  <1>4. (s \o one) \o other = s \o (one \o other)
    BY <1>1, ConcatAssociative, SMTT(30)
  <1>5. s \o both = Append(Append(s, a), b)
    BY <1>3, <1>4, <1>a, <1>c, Zenon
  <1> QED BY <1>5 DEF both

LEMMA StillBefore ==
  ASSUME NEW S, NEW b \in S, NEW w \in Seq(S), NEW c \in Seq(S), NEW one, one = <<b>>
  PROVE  /\ one \o w \in Seq(S) /\ w \o c \in Seq(S)
         /\ one \o (w \o c) = (one \o w) \o c
  <1>1. one \in Seq(S)
    OBVIOUS
  <1>2. (one \o w) \o c = one \o (w \o c)
    BY <1>1, ConcatAssociative, SMTT(30)
  <1>3. one \o w \in Seq(S) /\ w \o c \in Seq(S)
    BY <1>1
  <1> QED BY <1>2, <1>3

(* The same for the byte in the output buffer and the bytes on a wire. *)
InFront(b, w) == <<b>> \o w

LEMMA StillInFront ==
  ASSUME NEW b \in Bytes, NEW w \in Seq(Bytes), NEW c \in Seq(Bytes)
  PROVE  InFront(b, w) \in Seq(Bytes) /\ InFront(b, w \o c) = InFront(b, w) \o c
  <1>1. PICK one : one = <<b>>
    OBVIOUS
  <1>2. /\ one \o w \in Seq(Bytes)
        /\ one \o (w \o c) = (one \o w) \o c
    BY <1>1, StillBefore, SMTT(30)
  <1> QED BY <1>1, <1>2 DEF InFront

(* A prefix is passed over. *)
LEMMA PassPrefix ==
  ASSUME NEW s \in Seq(Bytes), NEW es \in Seq(KeyEvents), Carries(s, es),
         s # <<>>, Head(s) = Prefix
  PROVE  Carries(Tail(s), es)
  <1> DEFINE n == Len(es)
             k == Len(s)
  <1>0. PICK at : Matches(at, s, k, es, n)
    BY DEF Carries
  <1>1. /\ at \in [1 .. n -> 1 .. k]
        /\ \A i, j \in 1 .. n : i < j => at[i] < at[j]
        /\ \A i \in 1 .. n : s[at[i]] = FinalByte(es[i])
        /\ \A j \in 1 .. k : s[j] # Prefix => \E i \in 1 .. n : at[i] = j
    BY <1>0 DEF Matches
  <1>2. /\ k \in Nat \ {0} /\ Len(Tail(s)) = k - 1 /\ s[1] = Prefix
        /\ \A i \in 1 .. k - 1 : Tail(s)[i] = s[i + 1]
    BY TailFacts
  <1>3. n \in Nat /\ \A i \in 1 .. n : es[i] \in KeyEvents
    OBVIOUS
  <1>4. \A i \in 1 .. n : at[i] # 1
    BY <1>1, <1>2, <1>3, FinalBytes
  <1> DEFINE new == [i \in 1 .. n |-> at[i] - 1]
             t == Tail(s)
  <1> HIDE DEF n, k, t
  <1>5. \A i \in 1 .. n : at[i] \in 2 .. k
    BY <1>1, <1>2, <1>4
  <1>6. new \in [1 .. n -> 1 .. k - 1]
    BY <1>2, <1>5
  <1>7. \A i, j \in 1 .. n : i < j => new[i] < new[j]
    BY <1>1, <1>5
  <1>8. ASSUME NEW i \in 1 .. n
        PROVE  t[new[i]] = FinalByte(es[i])
    <2>1. new[i] \in 1 .. k - 1 /\ new[i] + 1 = at[i]
      BY <1>2, <1>5
    <2> QED BY <2>1, <1>1, <1>2 DEF t
  <1>9. ASSUME NEW j \in 1 .. k - 1, t[j] # Prefix
        PROVE  \E i \in 1 .. n : new[i] = j
    <2>1. j + 1 \in 1 .. k /\ s[j + 1] # Prefix /\ j \in Int
      BY <1>2, <1>9 DEF t
    <2>2. PICK i \in 1 .. n : at[i] = j + 1
      BY <1>1, <2>1
    <2>3. new[i] = j
      BY <2>1, <2>2
    <2> QED BY <2>3
  <1> HIDE DEF new
  <1>10. Matches(new, t, k - 1, es, n)
    BY <1>6, <1>7, <1>8, <1>9 DEF Matches
  <1> QED BY <1>2, <1>10, Zenon DEF Carries, n, t

(* Any other code is the one of the first event. *)
LEMMA PassFinal ==
  ASSUME NEW s \in Seq(Bytes), NEW es \in Seq(KeyEvents), Carries(s, es),
         s # <<>>, Head(s) # Prefix
  PROVE  es # <<>> /\ Head(s) = FinalByte(Head(es)) /\ Carries(Tail(s), Tail(es))
  <1> DEFINE n == Len(es)
             k == Len(s)
  <1>0. PICK at : Matches(at, s, k, es, n)
    BY DEF Carries
  <1>1. /\ at \in [1 .. n -> 1 .. k]
        /\ \A i, j \in 1 .. n : i < j => at[i] < at[j]
        /\ \A i \in 1 .. n : s[at[i]] = FinalByte(es[i])
        /\ \A j \in 1 .. k : s[j] # Prefix => \E i \in 1 .. n : at[i] = j
    BY <1>0 DEF Matches
  <1>2. /\ k \in Nat \ {0} /\ Len(Tail(s)) = k - 1 /\ Head(s) = s[1] /\ s[1] # Prefix
        /\ \A i \in 1 .. k - 1 : Tail(s)[i] = s[i + 1]
    BY TailFacts
  <1>3. n \in Nat
    OBVIOUS
  <1>4. PICK first \in 1 .. n : at[first] = 1
    BY <1>1, <1>2
  <1>5. first = 1 /\ n # 0
    <2>1. CASE first > 1
      <3>1. 1 \in 1 .. n /\ at[1] < at[first] /\ at[1] \in 1 .. k
        BY <1>1, <1>3, <2>1
      <3> QED BY <3>1, <1>4
    <2> QED BY <2>1, <1>3
  <1>6. es # <<>> /\ Head(es) = es[1] /\ Len(Tail(es)) = n - 1
        /\ \A i \in 1 .. n - 1 : Tail(es)[i] = es[i + 1]
    BY <1>5, TailFacts
  <1>7. Head(s) = FinalByte(Head(es))
    BY <1>1, <1>2, <1>4, <1>5, <1>6
  <1> DEFINE new == [i \in 1 .. n - 1 |-> at[i + 1] - 1]
             t == Tail(s)
             ds == Tail(es)
  <1> HIDE DEF n, k, t, ds
  <1>8. \A i \in 1 .. n - 1 : at[i + 1] \in 2 .. k
    <2> TAKE i \in 1 .. n - 1
    <2>1. i + 1 \in 1 .. n /\ 1 \in 1 .. n /\ 1 < i + 1
      BY <1>3
    <2>2. at[1] < at[i + 1] /\ at[i + 1] \in 1 .. k
      BY <1>1, <2>1
    <2> QED BY <2>2, <1>2, <1>4, <1>5
  <1>9. new \in [1 .. n - 1 -> 1 .. k - 1]
    BY <1>2, <1>3, <1>8
  <1>10. ASSUME NEW i \in 1 .. n - 1, NEW j \in 1 .. n - 1, i < j
         PROVE  new[i] < new[j]
    <2>1. i + 1 \in 1 .. n /\ j + 1 \in 1 .. n /\ i + 1 < j + 1
      BY <1>3, <1>10
    <2>2. at[i + 1] < at[j + 1]
      BY <1>1, <2>1
    <2> QED BY <2>2, <1>2, <1>8
  <1>11. ASSUME NEW i \in 1 .. n - 1
         PROVE  t[new[i]] = FinalByte(ds[i])
    <2>1. new[i] \in 1 .. k - 1 /\ new[i] + 1 = at[i + 1] /\ i + 1 \in 1 .. n
      BY <1>2, <1>3, <1>8
    <2> QED BY <2>1, <1>1, <1>2, <1>6 DEF t, ds
  <1>12. ASSUME NEW j \in 1 .. k - 1, t[j] # Prefix
         PROVE  \E i \in 1 .. n - 1 : new[i] = j
    <2>1. j + 1 \in 1 .. k /\ s[j + 1] # Prefix /\ j \in Int /\ j + 1 # 1
      BY <1>2, <1>12 DEF t
    <2>2. PICK i \in 1 .. n : at[i] = j + 1
      BY <1>1, <2>1
    <2>3. i # 1 /\ i - 1 \in 1 .. n - 1 /\ (i - 1) + 1 = i
      BY <2>1, <2>2, <1>3, <1>4, <1>5
    <2>4. new[i - 1] = j
      BY <2>1, <2>2, <2>3
    <2> QED BY <2>3, <2>4
  <1> HIDE DEF new
  <1>13. Matches(new, t, k - 1, ds, n - 1)
    BY <1>9, <1>10, <1>11, <1>12 DEF Matches
  <1>14. Carries(t, ds)
    BY <1>2, <1>6, <1>13, Zenon DEF Carries, t, ds
  <1> QED BY <1>6, <1>7, <1>14 DEF t, ds

(* More is typed: a prefix first, perhaps, and then the final byte. *)
LEMMA MorePrefix ==
  ASSUME NEW s \in Seq(Bytes), NEW es \in Seq(KeyEvents), Carries(s, es)
  PROVE  Carries(Append(s, Prefix), es)
  <1> DEFINE n == Len(es)
             k == Len(s)
             t == Append(s, Prefix)
  <1>0. PICK at : Matches(at, s, k, es, n)
    BY DEF Carries
  <1>1. /\ k \in Nat /\ Len(t) = k + 1 /\ t[k + 1] = Prefix
        /\ \A i \in 1 .. k : t[i] = s[i]
    OBVIOUS
  <1> HIDE DEF n, k, t
  <1>2. Matches(at, t, k + 1, es, n)
    <2>1. /\ at \in [1 .. n -> 1 .. k]
          /\ \A i, j \in 1 .. n : i < j => at[i] < at[j]
          /\ \A i \in 1 .. n : s[at[i]] = FinalByte(es[i])
          /\ \A j \in 1 .. k : s[j] # Prefix => \E i \in 1 .. n : at[i] = j
      BY <1>0 DEF Matches
    <2>2. \A j \in 1 .. k + 1 : j \in 1 .. k \/ j = k + 1
      BY <1>1
    <2>3. at \in [1 .. n -> 1 .. k + 1]
      BY <1>1, <2>1
    <2> QED BY <1>1, <2>1, <2>2, <2>3 DEF Matches
  <1> QED BY <1>1, <1>2, Zenon DEF Carries, n, t

LEMMA MoreFinal ==
  ASSUME NEW s \in Seq(Bytes), NEW es \in Seq(KeyEvents), NEW e \in KeyEvents, Carries(s, es)
  PROVE  Carries(Append(s, FinalByte(e)), Append(es, e))
  <1> DEFINE n == Len(es)
             k == Len(s)
             t == Append(s, FinalByte(e))
             ds == Append(es, e)
  <1>0. PICK at : Matches(at, s, k, es, n)
    BY DEF Carries
  <1>1. /\ k \in Nat /\ Len(t) = k + 1 /\ t[k + 1] = FinalByte(e)
        /\ \A i \in 1 .. k : t[i] = s[i]
    BY FinalBytes
  <1>2. /\ n \in Nat /\ Len(ds) = n + 1 /\ ds[n + 1] = e
        /\ \A i \in 1 .. n : ds[i] = es[i]
    OBVIOUS
  <1> DEFINE new == [i \in 1 .. n + 1 |-> IF i = n + 1 THEN k + 1 ELSE at[i]]
  <1> HIDE DEF n, k, t, ds
  <1>3. /\ at \in [1 .. n -> 1 .. k]
        /\ \A i, j \in 1 .. n : i < j => at[i] < at[j]
        /\ \A i \in 1 .. n : s[at[i]] = FinalByte(es[i])
        /\ \A j \in 1 .. k : s[j] # Prefix => \E i \in 1 .. n : at[i] = j
    BY <1>0 DEF Matches
  <1>4. /\ new[n + 1] = k + 1 /\ \A i \in 1 .. n : new[i] = at[i] /\ at[i] \in 1 .. k
        /\ \A i \in 1 .. n + 1 : i \in 1 .. n \/ i = n + 1
        /\ \A i \in 1 .. k + 1 : i \in 1 .. k \/ i = k + 1
        /\ \A i \in 1 .. n : i \in 1 .. n + 1
        /\ n + 1 \in 1 .. n + 1
    BY <1>1, <1>2, <1>3
  <1>5. new \in [1 .. n + 1 -> 1 .. k + 1]
    BY <1>1, <1>2, <1>3
  <1> HIDE DEF new
  <1>6. ASSUME NEW i \in 1 .. n + 1, NEW j \in 1 .. n + 1, i < j
        PROVE  new[i] < new[j]
    <2>1. i \in 1 .. n
      BY <1>2, <1>6
    <2>2. CASE j = n + 1
      BY <2>1, <2>2, <1>1, <1>4
    <2>3. CASE j \in 1 .. n
      BY <2>1, <2>3, <1>3, <1>4, <1>6
    <2> QED BY <2>2, <2>3, <1>4
  <1>7. ASSUME NEW i \in 1 .. n + 1
        PROVE  t[new[i]] = FinalByte(ds[i])
    <2>1. CASE i = n + 1
      BY <2>1, <1>1, <1>2, <1>4
    <2>2. CASE i \in 1 .. n
      BY <2>2, <1>1, <1>2, <1>3, <1>4, SMTT(30)
    <2> QED BY <2>1, <2>2, <1>4
  <1>8. ASSUME NEW j \in 1 .. k + 1, t[j] # Prefix
        PROVE  \E i \in 1 .. n + 1 : new[i] = j
    <2>1. CASE j = k + 1
      BY <2>1, <1>4
    <2>2. CASE j \in 1 .. k
      BY <2>2, <1>1, <1>3, <1>4, <1>8
    <2> QED BY <2>1, <2>2, <1>4
  <1>9. Matches(new, t, k + 1, ds, n + 1)
    BY <1>5, <1>6, <1>7, <1>8 DEF Matches
  <1> QED BY <1>1, <1>2, <1>9, Zenon DEF Carries, t, ds

LEMMA MoreTyped ==
  ASSUME NEW s \in Seq(Bytes), NEW es \in Seq(KeyEvents), NEW e \in KeyEvents, Carries(s, es),
         NEW codes, codes = <<FinalByte(e)>> \/ codes = <<Prefix, FinalByte(e)>>
  PROVE  Carries(s \o codes, Append(es, e))
  <1>1. FinalByte(e) \in Bytes /\ Prefix \in Bytes
    BY FinalBytes DEF Prefix, Bytes
  <1>2. PICK f \in Bytes, p \in Bytes : f = FinalByte(e) /\ p = Prefix
    BY <1>1
  <1>3. CASE codes = <<f>>
    <2>1. s \o codes = Append(s, f)
      BY <1>3, OneBehind
    <2>2. Carries(Append(s, f), Append(es, e))
      BY <1>2, MoreFinal
    <2> QED BY <2>1, <2>2
  <1>4. CASE codes = <<p, f>>
    <2>1. s \o codes = Append(Append(s, p), f)
      BY <1>4, TwoBehind
    <2>0. Append(s, p) \in Seq(Bytes)
      OBVIOUS
    <2>2. PICK t \in Seq(Bytes) : t = Append(s, p)
      BY <2>0, Zenon
    <2>3. Carries(t, es)
      BY <2>2, <1>2, MorePrefix
    <2>4. Carries(Append(t, f), Append(es, e))
      BY <2>3, <1>2, MoreFinal
    <2> QED BY <2>1, <2>2, <2>4
  <1> QED BY <1>2, <1>3, <1>4

-----------------------------------------------------------------------------
(* The flags, event by event: from m to last, each event meaning by the    *)
(* flags before it what the user meant by it.                              *)

FlagsAfter(m, e) ==
  [ctrl |-> IF e.code = CtrlCode THEN e.pressed ELSE m.ctrl,
   shift |-> IF e.code \in ShiftCodes THEN e.pressed ELSE m.shift,
   alt |-> IF e.code = AltCode THEN e.pressed ELSE m.alt,
   caps |-> IF e.code = CapsCode /\ e.pressed THEN ~m.caps ELSE m.caps]

ShiftedBy(m, e) ==
  /\ e.pressed
  /\ \/ e.code \in Letters /\ m.shift # m.caps
     \/ e.code \in Symbols /\ m.shift

Runs(f, n, m, es, last) ==
  /\ f \in [0 .. n -> Flags] /\ f[0] = m /\ f[n] = last
  /\ \A i \in 1 .. n : /\ es[i].shifted = ShiftedBy(f[i - 1], es[i])
                       /\ f[i] = FlagsAfter(f[i - 1], es[i])

Leads(m, es, last) == \E f : Runs(f, Len(es), m, es, last)

LEMMA FlagsTyped ==
  ASSUME NEW m \in Flags, NEW e \in KeyEvents
  PROVE  FlagsAfter(m, e) \in Flags
  BY DEF Flags, KeyEvents, FlagsAfter

LEMMA LeadsNowhere ==
  ASSUME NEW m \in Flags
  PROVE  Leads(m, <<>>, m)
  <1> DEFINE f == [i \in 0 .. 0 |-> m]
  <1>1. Runs(f, 0, m, <<>>, m)
    BY DEF Runs
  <1>2. Len(<<>>) = 0
    OBVIOUS
  <1> QED BY <1>1, <1>2, Zenon DEF Leads

LEMMA LeadsNothingLeft ==
  ASSUME NEW m, NEW last, Leads(m, <<>>, last)
  PROVE  m = last
  <1>1. PICK f : Runs(f, 0, m, <<>>, last)
    BY DEF Leads
  <1> QED BY <1>1, Zenon DEF Runs

LEMMA LeadsFirst ==
  ASSUME NEW m, NEW es \in Seq(KeyEvents), NEW last, Leads(m, es, last), es # <<>>
  PROVE  /\ Head(es).shifted = ShiftedBy(m, Head(es))
         /\ Leads(FlagsAfter(m, Head(es)), Tail(es), last)
  <1> DEFINE n == Len(es)
             ds == Tail(es)
  <1>0. PICK f : Runs(f, n, m, es, last)
    BY DEF Leads
  <1>1. /\ n \in Nat \ {0} /\ Len(ds) = n - 1 /\ Head(es) = es[1]
        /\ \A i \in 1 .. n - 1 : ds[i] = es[i + 1]
    BY TailFacts
  <1> DEFINE g == [i \in 0 .. n - 1 |-> f[i + 1]]
  <1> HIDE DEF n, ds
  <1>2. /\ f \in [0 .. n -> Flags] /\ f[0] = m /\ f[n] = last
        /\ \A i \in 1 .. n : /\ es[i].shifted = ShiftedBy(f[i - 1], es[i])
                             /\ f[i] = FlagsAfter(f[i - 1], es[i])
    BY <1>0 DEF Runs
  <1>3. 1 \in 1 .. n /\ 1 - 1 = 0 /\ (n - 1) + 1 = n /\ 0 + 1 = 1
    BY <1>1
  <1>4. es[1].shifted = ShiftedBy(m, es[1]) /\ f[1] = FlagsAfter(m, es[1])
    BY <1>2, <1>3
  <1>5. \A i \in 0 .. n - 1 : i + 1 \in 0 .. n /\ f[i + 1] \in Flags /\ g[i] = f[i + 1]
    BY <1>1, <1>2
  <1>6. g \in [0 .. n - 1 -> Flags] /\ 0 \in 0 .. n - 1 /\ n - 1 \in 0 .. n - 1
    BY <1>1, <1>5
  <1>7. g[0] = f[1] /\ g[n - 1] = last
    BY <1>2, <1>3, <1>5, <1>6
  <1> HIDE DEF g
  <1>8. ASSUME NEW i \in 1 .. n - 1
        PROVE  ds[i].shifted = ShiftedBy(g[i - 1], ds[i]) /\ g[i] = FlagsAfter(g[i - 1], ds[i])
    <2>1. /\ i + 1 \in 1 .. n /\ (i + 1) - 1 = i /\ i - 1 \in 0 .. n - 1 /\ (i - 1) + 1 = i
          /\ i \in 0 .. n - 1
      BY <1>1
    <2>2. ds[i] = es[i + 1] /\ g[i - 1] = f[i] /\ g[i] = f[i + 1]
      BY <2>1, <1>1, <1>5
    <2>3. /\ es[i + 1].shifted = ShiftedBy(f[i], es[i + 1])
          /\ f[i + 1] = FlagsAfter(f[i], es[i + 1])
      BY <2>1, <1>2
    <2> QED BY <2>2, <2>3
  <1>9. Runs(g, n - 1, FlagsAfter(m, es[1]), ds, last)
    BY <1>4, <1>6, <1>7, <1>8, Zenon DEF Runs
  <1> QED BY <1>1, <1>4, <1>9, Zenon DEF Leads, ds

LEMMA LeadsMore ==
  ASSUME NEW m, NEW es \in Seq(KeyEvents), NEW last, Leads(m, es, last),
         NEW e \in KeyEvents, e.shifted = ShiftedBy(last, e)
  PROVE  Leads(m, Append(es, e), FlagsAfter(last, e))
  <1> DEFINE n == Len(es)
             ds == Append(es, e)
  <1>0. PICK f : Runs(f, n, m, es, last)
    BY DEF Leads
  <1>1. /\ n \in Nat /\ Len(ds) = n + 1 /\ ds[n + 1] = e
        /\ \A i \in 1 .. n : ds[i] = es[i]
    OBVIOUS
  <1> DEFINE g == [i \in 0 .. n + 1 |-> IF i = n + 1 THEN FlagsAfter(last, e) ELSE f[i]]
  <1> HIDE DEF n, ds
  <1>2. /\ f \in [0 .. n -> Flags] /\ f[0] = m /\ f[n] = last
        /\ \A i \in 1 .. n : /\ es[i].shifted = ShiftedBy(f[i - 1], es[i])
                             /\ f[i] = FlagsAfter(f[i - 1], es[i])
    BY <1>0 DEF Runs
  <1>3. 0 \in 0 .. n /\ n \in 0 .. n /\ n + 1 \in 0 .. n + 1 /\ n + 1 \in 1 .. n + 1
    BY <1>1
  <1>4. FlagsAfter(last, e) \in Flags
    <2>1. last \in Flags
      BY <1>2, <1>3
    <2> QED BY <2>1, FlagsTyped
  <1>5. (\A i \in 0 .. n : g[i] = f[i]) /\ g[n + 1] = FlagsAfter(last, e)
    BY <1>1, <1>3
  <1>6. g \in [0 .. n + 1 -> Flags]
    BY <1>1, <1>2, <1>4
  <1>7. g[0] = m
    BY <1>2, <1>3, <1>5
  <1> HIDE DEF g
  <1>8. ASSUME NEW i \in 1 .. n + 1
        PROVE  ds[i].shifted = ShiftedBy(g[i - 1], ds[i]) /\ g[i] = FlagsAfter(g[i - 1], ds[i])
    <2>1. CASE i = n + 1
      <3>1. i - 1 = n
        BY <1>1, <2>1
      <3>2. g[i - 1] = last /\ g[i] = FlagsAfter(last, e) /\ ds[i] = e
        BY <3>1, <2>1, <1>1, <1>2, <1>3, <1>5
      <3> QED BY <3>2
    <2>2. CASE i \in 1 .. n
      <3>1. i \in 0 .. n /\ i - 1 \in 0 .. n
        BY <1>1, <2>2
      <3>2. g[i - 1] = f[i - 1] /\ g[i] = f[i] /\ ds[i] = es[i]
        BY <3>1, <2>2, <1>1, <1>5
      <3> QED BY <3>2, <2>2, <1>2
    <2> QED BY <2>1, <2>2, <1>1
  <1>9. Runs(g, n + 1, m, ds, FlagsAfter(last, e))
    BY <1>5, <1>6, <1>7, <1>8, Zenon DEF Runs
  <1> QED BY <1>1, <1>9, Zenon DEF Leads, ds

-----------------------------------------------------------------------------
(* What the bytes of the mouse stand for, those in its packet first. *)

Packets == [status : Bytes, mov_x : Bytes, mov_y : Bytes, counter : 0 .. 2]
MouseEvents == [dx : -128 .. 127, dy : -127 .. 128, left : BOOLEAN]

StatusByte(e) == 8 + (IF e.left THEN 1 ELSE 0)

Reported(p, s, i) ==
  IF i <= p.counter THEN IF i = 1 THEN p.status ELSE p.mov_x ELSE s[i - p.counter]

(* From the byte behind the first o on, e is reported. *)
ReportedAt(p, s, o, e) ==
  /\ Reported(p, s, o + 1) = StatusByte(e)
  /\ Reported(p, s, o + 2) = e.dx % 256
  /\ Reported(p, s, o + 3) = (-e.dy) % 256

Reports(p, s, es) ==
  /\ p.counter + Len(s) = 3 * Len(es)
  /\ \A i \in 1 .. Len(es) : ReportedAt(p, s, 3 * (i - 1), es[i])

(* The event is read off its three bytes. *)
LEMMA SignedBytes ==
  ASSUME NEW e \in MouseEvents
  PROVE  /\ StatusByte(e) \in Bytes /\ e.dx % 256 \in Bytes /\ (-e.dy) % 256 \in Bytes
         /\ GetBit(StatusByte(e), 0) = e.left
         /\ Signed(e.dx % 256) = e.dx /\ -Signed((-e.dy) % 256) = e.dy
  <1>1. \A x \in -128 .. 127 : x % 256 \in Bytes /\ Signed(x % 256) = x
    BY DEF Signed, Bytes
  <1>2. e.dx \in -128 .. 127 /\ -e.dy \in -128 .. 127 /\ -(-e.dy) = e.dy
    BY DEF MouseEvents
  <1>3. GetBit(StatusByte(e), 0) = e.left /\ StatusByte(e) \in Bytes
    <2>1. GetBit(8, 0) = FALSE /\ GetBit(9, 0) = TRUE
      BY DEF GetBit
    <2>2. CASE e.left = TRUE
      <3>1. StatusByte(e) = 9
        BY <2>2 DEF StatusByte
      <3>2. GetBit(StatusByte(e), 0) = e.left
        BY <2>1, <2>2, <3>1, Zenon
      <3>3. StatusByte(e) \in Bytes
        BY <3>1 DEF Bytes
      <3> QED BY <3>2, <3>3
    <2>3. CASE e.left = FALSE
      <3>1. StatusByte(e) = 8
        BY <2>3 DEF StatusByte
      <3>2. GetBit(StatusByte(e), 0) = e.left
        BY <2>1, <2>3, <3>1, Zenon
      <3>3. StatusByte(e) \in Bytes
        BY <3>1 DEF Bytes
      <3> QED BY <3>2, <3>3
    <2>4. e.left \in BOOLEAN
      BY DEF MouseEvents
    <2> QED BY <2>2, <2>3, <2>4
  <1>4. Signed((-e.dy) % 256) = -e.dy
    BY <1>1, <1>2, ZenonT(40)
  <1> QED BY <1>1, <1>2, <1>3, <1>4, ZenonT(60)

(* The first or the second byte of a packet. *)
LEMMA ByteOfPacket ==
  ASSUME NEW p \in Packets, NEW s \in Seq(Bytes), NEW es \in Seq(MouseEvents),
         NEW q \in Packets, Reports(p, s, es), s # <<>>,
         q.counter = p.counter + 1,
         q.status = IF p.counter = 0 THEN Head(s) ELSE p.status,
         q.mov_x = IF p.counter = 1 THEN Head(s) ELSE p.mov_x
  PROVE  Reports(q, Tail(s), es)
  <1>1. /\ Len(s) \in Nat \ {0} /\ Len(Tail(s)) = Len(s) - 1 /\ Head(s) = s[1]
        /\ \A i \in 1 .. Len(s) - 1 : Tail(s)[i] = s[i + 1]
    BY TailFacts
  <1>2. Len(es) \in Nat /\ p.counter \in 0 .. 1 /\ p.counter + Len(s) = 3 * Len(es)
    BY DEF Packets, Reports
  <1> DEFINE n == Len(es)
             k == Len(s)
             t == Tail(s)
  <1>3. /\ n \in Nat /\ k \in Nat /\ p.counter \in 0 .. 1 /\ p.counter + k = 3 * n
        /\ q.counter + Len(t) = 3 * n
    BY <1>1, <1>2
  <1>4. \A i \in 1 .. k - 1 : t[i] = s[i + 1]
    BY <1>1
  <1>5. \A i \in 1 .. n : ReportedAt(p, s, 3 * (i - 1), es[i])
    BY DEF Reports
  <1> DEFINE c == p.counter
             d == q.counter
  <1>a. n \in Nat /\ k \in Nat /\ c \in 0 .. 1 /\ d = c + 1 /\ c + k = 3 * n
    BY <1>3
  <1> HIDE DEF n, k, t, c, d
  <1>6. ASSUME NEW i \in 1 .. 3 * n
        PROVE  Reported(q, t, i) = Reported(p, s, i)
    <2>0. i \in Nat \ {0} /\ i <= 3 * n
      BY <1>a
    <2>1. CASE i <= c
      <3>1. c = 1 /\ i = 1 /\ i <= d
        BY <1>a, <2>0, <2>1
      <3> QED BY <3>1, <2>1 DEF Reported, c, d
    <2>2. CASE i = c + 1
      <3>1. i <= d /\ ~(i <= c) /\ i - c = 1 /\ (i = 1 <=> c = 0) /\ (c # 0 => c = 1)
        BY <1>a, <2>0, <2>2
      <3>2. Reported(p, s, i) = s[1]
        BY <3>1, Zenon DEF Reported, c
      <3>3. Reported(q, t, i) = Head(s)
        BY <3>1 DEF Reported, c, d
      <3> QED BY <3>2, <3>3, <1>1
    <2>3. CASE i > c + 1
      <3>1. ~(i <= d) /\ ~(i <= c) /\ i - d \in 1 .. k - 1 /\ (i - d) + 1 = i - c
        BY <1>a, <2>0, <2>3
      <3>2. t[i - d] = s[i - c]
        BY <3>1, <1>4, Zenon
      <3> QED BY <3>1, <3>2, Zenon DEF Reported, c, d
    <2> QED BY <2>0, <2>1, <2>2, <2>3, <1>a
  <1>7. ASSUME NEW i \in 1 .. n
        PROVE  ReportedAt(q, t, 3 * (i - 1), es[i])
    <2>1. /\ 3 * (i - 1) + 1 \in 1 .. 3 * n /\ 3 * (i - 1) + 2 \in 1 .. 3 * n
          /\ 3 * (i - 1) + 3 \in 1 .. 3 * n
      BY <1>a
    <2>2. ReportedAt(p, s, 3 * (i - 1), es[i])
      BY <1>5
    <2> DEFINE o == 3 * (i - 1)
    <2> HIDE DEF o
    <2>3. /\ Reported(q, t, o + 1) = Reported(p, s, o + 1)
          /\ Reported(q, t, o + 2) = Reported(p, s, o + 2)
          /\ Reported(q, t, o + 3) = Reported(p, s, o + 3)
      BY <2>1, <1>6 DEF o
    <2>4. ReportedAt(q, t, o, es[i])
      BY <2>2, <2>3 DEF ReportedAt, o
    <2> QED BY <2>4 DEF o
  <1> QED BY <1>3, <1>7, Zenon DEF Reports, n, t

(* The third byte: the packet is the first movement. *)
LEMMA WholePacket ==
  ASSUME NEW p \in Packets, NEW s \in Seq(Bytes), NEW es \in Seq(MouseEvents),
         NEW q, Reports(p, s, es), s # <<>>, p.counter = 2, q.counter = 0
  PROVE  /\ es # <<>>
         /\ p.status = StatusByte(Head(es)) /\ p.mov_x = Head(es).dx % 256
         /\ Head(s) = (-Head(es).dy) % 256
         /\ Reports(q, Tail(s), Tail(es))
  <1>1. /\ Len(s) \in Nat \ {0} /\ Len(Tail(s)) = Len(s) - 1 /\ Head(s) = s[1]
        /\ \A i \in 1 .. Len(s) - 1 : Tail(s)[i] = s[i + 1]
    BY TailFacts
  <1>2. Len(es) \in Nat \ {0} /\ 2 + Len(s) = 3 * Len(es) /\ es # <<>>
    BY <1>1 DEF Reports
  <1>3. /\ Len(Tail(es)) = Len(es) - 1 /\ Head(es) = es[1]
        /\ \A i \in 1 .. Len(es) - 1 : Tail(es)[i] = es[i + 1]
    BY <1>2, TailFacts
  <1> DEFINE n == Len(es)
             k == Len(s)
             t == Tail(s)
             ds == Tail(es)
  <1> HIDE DEF n, k, t, ds
  <1>4. \A i \in 1 .. n : ReportedAt(p, s, 3 * (i - 1), es[i])
    BY ZenonT(40) DEF Reports, n
  <1>a. /\ n \in Nat \ {0} /\ k \in Nat /\ 2 + k = 3 * n
        /\ q.counter + Len(t) = 3 * (n - 1) /\ Len(ds) = n - 1
        /\ \A i \in 1 .. k - 1 : t[i] = s[i + 1]
        /\ \A i \in 1 .. n - 1 : ds[i] = es[i + 1]
    <2>1. n \in Nat \ {0} /\ k \in Nat /\ 2 + k = 3 * n /\ Len(t) = k - 1 /\ Len(ds) = n - 1
      BY <1>1, <1>2, <1>3 DEF n, k, t, ds
    <2>2. q.counter + Len(t) = 3 * (n - 1)
      BY <2>1
    <2> QED BY <2>1, <2>2, <1>1, <1>3, Zenon DEF n, k, t, ds
  <1>5. p.status = StatusByte(es[1]) /\ p.mov_x = es[1].dx % 256 /\ s[1] = (-es[1].dy) % 256
    <2>1. 1 \in 1 .. n /\ 3 * (1 - 1) = 0
      BY <1>a
    <2>2. Reported(p, s, 1) = p.status /\ Reported(p, s, 2) = p.mov_x /\ Reported(p, s, 3) = s[1]
      BY DEF Reported
    <2>3. ReportedAt(p, s, 0, es[1])
      BY <1>4, <2>1
    <2> QED BY <2>2, <2>3 DEF ReportedAt
  <1>6. ASSUME NEW i \in 1 .. 3 * (n - 1)
        PROVE  Reported(q, t, i) = Reported(p, s, i + 3)
    <2>1. /\ ~(i <= q.counter) /\ i - q.counter = i /\ ~(i + 3 <= p.counter)
          /\ (i + 3) - p.counter = i + 1 /\ i \in 1 .. k - 1
      BY <1>a
    <2>2. t[i] = s[i + 1]
      BY <2>1, <1>a
    <2> QED BY <2>1, <2>2 DEF Reported
  <1>7. ASSUME NEW i \in 1 .. n - 1
        PROVE  ReportedAt(q, t, 3 * (i - 1), ds[i])
    <2> DEFINE o == 3 * (i - 1)
    <2>1. /\ i + 1 \in 1 .. n /\ 3 * ((i + 1) - 1) = o + 3
          /\ o + 1 \in 1 .. 3 * (n - 1) /\ (o + 1) + 3 = (o + 3) + 1
          /\ o + 2 \in 1 .. 3 * (n - 1) /\ (o + 2) + 3 = (o + 3) + 2
          /\ o + 3 \in 1 .. 3 * (n - 1)
      BY <1>a
    <2> HIDE DEF o
    <2>2. ReportedAt(p, s, o + 3, ds[i])
      BY <1>4, <1>a, <2>1
    <2>3. /\ Reported(q, t, o + 1) = Reported(p, s, (o + 3) + 1)
          /\ Reported(q, t, o + 2) = Reported(p, s, (o + 3) + 2)
          /\ Reported(q, t, o + 3) = Reported(p, s, (o + 3) + 3)
      BY <2>1, <1>6
    <2>4. ReportedAt(q, t, o, ds[i])
      BY <2>2, <2>3 DEF ReportedAt
    <2> QED BY <2>4 DEF o
  <1>8. Reports(q, t, ds)
    BY <1>7, <1>a, Zenon DEF Reports
  <1> QED BY <1>1, <1>2, <1>3, <1>5, <1>8 DEF t, ds

(* The mouse is moved. *)
PacketOf(e) == <<StatusByte(e), e.dx % 256, (-e.dy) % 256>>

LEMMA MoreReports ==
  ASSUME NEW p \in Packets, NEW s \in Seq(Bytes), NEW es \in Seq(MouseEvents),
         NEW e \in MouseEvents, Reports(p, s, es)
  PROVE  Reports(p, s \o PacketOf(e), Append(es, e))
  <1> DEFINE a == StatusByte(e)
             b == e.dx % 256
             c == (-e.dy) % 256
             n == Len(es)
             k == Len(s)
             t == s \o <<a, b, c>>
             ds == Append(es, e)
  <1>1. a \in Bytes /\ b \in Bytes /\ c \in Bytes
    BY SignedBytes
  <1>2. /\ k \in Nat /\ Len(t) = k + 3 /\ t[k + 1] = a /\ t[k + 2] = b /\ t[k + 3] = c
        /\ \A i \in 1 .. k : t[i] = s[i]
    <2> DEFINE u == <<a, b, c>>
    <2>1. u \in Seq(Bytes) /\ Len(u) = 3 /\ u[1] = a /\ u[2] = b /\ u[3] = c
      BY <1>1
    <2>2. k \in Nat /\ Len(s) = k /\ t = s \o u
      OBVIOUS
    <2> HIDE DEF t, k, u
    <2>3. Joined(t, Bytes, s, k, u, 3)
      BY <2>1, <2>2, ConcatFacts, ZenonT(60)
    <2>4. Len(t) = k + 3 /\ \A i \in 1 .. k : t[i] = s[i]
      BY <2>3, Zenon DEF Joined
    <2>5. \A i \in 1 .. 3 : t[k + i] = u[i]
      <3> TAKE i \in 1 .. 3
      <3>1. k + i \in k + 1 .. k + 3 /\ (k + i) - k = i
        BY <2>2
      <3> QED BY <3>1, <2>3 DEF Joined
    <2> QED BY <2>1, <2>2, <2>4, <2>5
  <1>3. /\ n \in Nat /\ Len(ds) = n + 1 /\ ds[n + 1] = e /\ \A i \in 1 .. n : ds[i] = es[i]
    OBVIOUS
  <1>4. p.counter \in 0 .. 2 /\ p.counter + k = 3 * n
    BY DEF Packets, Reports
  <1>5. \A i \in 1 .. n : ReportedAt(p, s, 3 * (i - 1), es[i])
    BY DEF Reports
  <1> DEFINE m == p.counter
  <1>a. n \in Nat /\ k \in Nat /\ m \in 0 .. 2 /\ m + k = 3 * n
    BY <1>2, <1>3, <1>4
  <1> HIDE DEF n, k, t, ds, m
  <1>6. ASSUME NEW i \in 1 .. 3 * n
        PROVE  Reported(p, t, i) = Reported(p, s, i)
    <2>1. ~(i <= m) => i - m \in 1 .. k
      BY <1>a
    <2> QED BY <2>1, <1>2 DEF Reported, m
  <1>7. ASSUME NEW i \in 1 .. n + 1
        PROVE  ReportedAt(p, t, 3 * (i - 1), ds[i])
    <2> DEFINE o == 3 * (i - 1)
    <2>1. CASE i \in 1 .. n
      <3>1. o + 1 \in 1 .. 3 * n /\ o + 2 \in 1 .. 3 * n /\ o + 3 \in 1 .. 3 * n
        BY <1>3, <2>1
      <3>2. ReportedAt(p, s, o, es[i]) /\ ds[i] = es[i]
        BY <2>1, <1>3, <1>5
      <3> HIDE DEF o
      <3>3. /\ Reported(p, t, o + 1) = Reported(p, s, o + 1)
            /\ Reported(p, t, o + 2) = Reported(p, s, o + 2)
            /\ Reported(p, t, o + 3) = Reported(p, s, o + 3)
        BY <3>1, <1>6
      <3>4. ReportedAt(p, t, o, ds[i])
        BY <3>2, <3>3 DEF ReportedAt
      <3> QED BY <3>4 DEF o
    <2>2. CASE i = n + 1
      <3>0. o = 3 * n /\ o \in Nat
        BY <1>3, <2>2
      <3> HIDE DEF o
      <3>1. /\ (o + 1) - m = k + 1 /\ ~(o + 1 <= m)
            /\ (o + 2) - m = k + 2 /\ ~(o + 2 <= m)
            /\ (o + 3) - m = k + 3 /\ ~(o + 3 <= m)
        BY <1>a, <3>0
      <3>2. /\ Reported(p, t, o + 1) = a /\ Reported(p, t, o + 2) = b
            /\ Reported(p, t, o + 3) = c
        BY <3>1, <1>2 DEF Reported, m
      <3>3. ReportedAt(p, t, o, e)
        BY <3>2 DEF ReportedAt
      <3> QED BY <3>3, <2>2, <1>3 DEF o
    <2> QED BY <2>1, <2>2, <1>3
  <1>8. p.counter + Len(t) = 3 * (n + 1)
    <2>1. Len(t) = k + 3
      BY <1>2
    <2>2. m + (k + 3) = 3 * (n + 1)
      BY <1>a
    <2> QED BY <2>1, <2>2 DEF m
  <1>9. Reports(p, t, ds)
    BY <1>3, <1>7, <1>8, Zenon DEF Reports
  <1> QED BY <1>9 DEF t, ds, PacketOf

-----------------------------------------------------------------------------
(* The invariant. *)

(* Whose byte is in the output buffer, and what each device has still to   *)
(* deliver. Until the keyboard's line is opened again at the end of        *)
(* init_mouse, what is requested there is the controller's answer.         *)
FromKeyboard == pc > 20 /\ output.full /\ Keyboard \in pic.requested
FromMouse == output.full /\ Mouse \in pic.requested

KeyBytes ==
  IF FromKeyboard THEN <<output.byte>> \o wire["keyboard"] ELSE wire["keyboard"]
MouseBytes ==
  IF FromMouse THEN <<output.byte>> \o wire["mouse"] ELSE wire["mouse"]

Held ==
  [ctrl |-> LastIsDown("ctrl"), shift |-> LastIsDown("shift"),
   alt |-> LastIsDown("alt"), caps |-> user.caps]

(* What is known of the keys used last.                                    *)
Lasts ==
  {l \in [Shared -> (DOMAIN MakeCodes) \cup {"none"}] :
     \A m \in Shared : l[m] \in Pair(m) \cup {"none"}}
Users ==
  [down : SUBSET Keys, last : Lasts, repeats : Keys \cup {"none"}, caps : BOOLEAN,
   keys : Nat, moves : Nat]

Typed ==
  /\ pc \in 1 .. 23 /\ pic \in PicType /\ pic.serving = {}
  /\ pic.requested \subseteq {Timer, Keyboard, Mouse}
  /\ output \in [full : BOOLEAN, byte : Bytes]
  /\ input \in [port : {"none", "command", "data"}, byte : Int]
  /\ wire \in [Devices -> Seq(Bytes)]
  /\ packet \in Packets /\ modifiers \in Flags
  /\ given = [d \in Devices |-> given[d]]
  /\ owed = [d \in Devices |-> owed[d]]
  /\ owed["keyboard"] \in Seq(KeyEvents) /\ owed["mouse"] \in Seq(MouseEvents)
  /\ user \in Users

(* How far the boot is. *)
Progress ==
  /\ pc <= 6 => keyMap = FALSE
  /\ pc > 6 => keyMap = TRUE
  /\ pc <= 22 => manager = FALSE
  /\ pc > 22 => manager = TRUE
  /\ pc = 1 => pic.masked = Lines
  /\ pc > 1 => pic.remapped = TRUE
  /\ pc \in 16 .. 20 => Keyboard \in pic.masked
  /\ pc > 20 => Keyboard \notin pic.masked

(* The controller has not taken this yet. *)
Asked(port, byte) == input = [port |-> port, byte |-> byte]
Quiet == input.port = "none"
Nothing == output.full = FALSE /\ wire["mouse"] = <<>>

Settled == pc >= 20 /\ Quiet /\ config = 71
LastWord == pc >= 20 /\ Asked("data", 71) /\ expects = "config" /\ config = 69 /\ Nothing

EarlyTalk ==
  \/ pc <= 8 /\ Quiet /\ config = 101 /\ Nothing
  \/ pc = 9 /\ Asked("command", 168) /\ config = 101 /\ Nothing
  \/ pc \in {9, 12} /\ Quiet /\ config = 69 /\ Nothing
  \/ pc \in {10, 13} /\ Asked("command", 212) /\ config = 69 /\ Nothing
  \/ pc \in {10, 13} /\ Quiet /\ expects = "mouse" /\ config = 69 /\ Nothing
  \/ /\ pc \in {11, 14} /\ input.port = "data" /\ expects = "mouse" /\ config = 69
     /\ Nothing
  \/ /\ pc \in {11, 14} /\ Quiet /\ config = 69
     /\ output.full = FALSE /\ wire["mouse"] = <<Ack>>
  \/ /\ pc \in {11, 14} /\ Quiet /\ config = 69
     /\ output = [full |-> TRUE, byte |-> Ack] /\ wire["mouse"] = <<>>

LateTalk ==
  \/ pc \in {15, 16} /\ Quiet /\ config = 69 /\ Nothing
  \/ pc = 17 /\ Asked("command", 32) /\ config = 69 /\ Nothing
  \/ /\ pc = 17 /\ Quiet /\ config = 69
     /\ output = [full |-> TRUE, byte |-> 69] /\ wire["mouse"] = <<>>
  \/ pc = 18 /\ Quiet /\ config = 69 /\ answer = 69 /\ Nothing
  \/ pc = 19 /\ Asked("command", 96) /\ config = 69 /\ answer = 69 /\ Nothing
  \/ pc = 19 /\ Quiet /\ expects = "config" /\ config = 69 /\ answer = 69 /\ Nothing

Conversation == EarlyTalk \/ LateTalk \/ LastWord \/ Settled

(* The lines that are requested. The answer to the command for the         *)
(* configuration byte has requested the keyboard's, so that opening it     *)
(* brings an interrupt without a byte: it finds that answer again.         *)
Latches ==
  /\ pc <= 16 => Keyboard \notin pic.requested
  /\ pc <= 22 => Mouse \notin pic.requested
  /\ pc \in 18 .. 20 => output.full = FALSE /\ output.byte = 69
  /\ pc = 21 => /\ output.full => Keyboard \in pic.requested
                /\ ~output.full /\ Keyboard \in pic.requested => output.byte = 69
  /\ pc > 21 => /\ output.full <=> Keyboard \in pic.requested \/ Mouse \in pic.requested
                /\ ~(Keyboard \in pic.requested /\ Mouse \in pic.requested)

(* Nobody touches a device too early. *)
Waits ==
  /\ pc <= 20 \/ ~Quiet => owed["keyboard"] = <<>> /\ wire["keyboard"] = <<>>
  /\ pc <= 22 \/ ~Quiet => owed["mouse"] = <<>> /\ packet.counter = 0
  /\ pc \in 20 .. 22 \/ (pc > 22 /\ ~Quiet) => wire["mouse"] = <<>>

KeysArrive == Carries(KeyBytes, owed["keyboard"]) /\ Leads(modifiers, owed["keyboard"], Held)

MovesArrive == pc > 22 => Reports(packet, MouseBytes, owed["mouse"])

IInv ==
  /\ status = "running" /\ Typed /\ Progress /\ Conversation /\ Latches /\ Waits
  /\ KeysArrive /\ MovesArrive

-----------------------------------------------------------------------------
(* Where each kind of step is in the script. *)

LEMMA WherePic ==
  ASSUME pc \in 1 .. 23, Doing({"remap", "restore_first", "restore_second", "unmask", "mask"})
  PROVE  /\ pc \in {1, 2, 3, 4, 5, 7, 15, 20, 21}
         /\ pc = 1 => Script[pc] = Do("remap")
         /\ pc = 2 => Script[pc] = Do("restore_first")
         /\ pc = 3 => Script[pc] = Do("restore_second")
         /\ pc = 4 => Script[pc] = Mask(Cascade, TRUE)
         /\ pc \in {5, 20} => Script[pc] = Mask(Keyboard, TRUE)
         /\ pc = 7 => Script[pc] = Mask(Mouse, TRUE)
         /\ pc = 15 => Script[pc] = Mask(Keyboard, FALSE)
         /\ pc = 21 => Script[pc] = Mask(Timer, TRUE)
  BY ScriptSteps DEF Doing, Booted, Do, Port, Mask

LEMMA WhereWrite ==
  ASSUME pc \in 1 .. 23, Doing({"command", "data", "write_status"})
  PROVE  /\ pc \in {8, 9, 10, 12, 13, 16, 18, 19}
         /\ pc = 8 => Script[pc] = Port("command", 168)
         /\ pc \in {9, 12} => Script[pc] = Port("command", 212)
         /\ pc = 10 => Script[pc] = Port("data", 246)
         /\ pc = 13 => Script[pc] = Port("data", 244)
         /\ pc = 16 => Script[pc] = Port("command", 32)
         /\ pc = 18 => Script[pc] = Port("command", 96)
         /\ pc = 19 => Script[pc] = Do("write_status")
  BY ScriptSteps DEF Doing, Booted, Do, Port, Mask

LEMMA WhereRead ==
  ASSUME pc \in 1 .. 23, Doing({"read_ack", "read_status"})
  PROVE  pc \in {11, 14, 17} /\ (pc \in {11, 14} => Script[pc].op = "read_ack")
         /\ (pc = 17 => Script[pc].op = "read_status")
  BY ScriptSteps DEF Doing, Booted, Do, Port, Mask

LEMMA WhereOther ==
  ASSUME pc \in 1 .. 23
  PROVE  /\ Doing({"fill_key_map"}) => pc = 6
         /\ Doing({"build_manager"}) => pc = 22
  BY ScriptSteps DEF Doing, Booted, Do, Port, Mask

(* Who may type or move the mouse, and when. *)
LEMMA WhenTyping ==
  ASSUME IInv, keyMap /\ ~Polling
  PROVE  pc > 20 /\ Quiet /\ config = 71
  <1>1. pc \in 1 .. 23 /\ pc > 6 /\ Conversation
    <2>1. pc \in 1 .. 23 /\ Conversation /\ (pc <= 6 => ~keyMap)
      BY Zenon DEF IInv, Typed, Progress
    <2> QED BY <2>1
  <1>2. Polling <=> 6 < pc /\ (pc <= 20 \/ input.port # "none")
    BY PartsOfScript, Zenon DEF Polling
  <1>3. pc > 20 /\ Quiet
    BY <1>1, <1>2 DEF Quiet
  <1>4. ~EarlyTalk /\ ~LateTalk
    BY <1>1, <1>3, SMTT(30) DEF EarlyTalk, LateTalk
  <1>5. ~LastWord
    BY <1>3 DEF LastWord, Asked, Quiet
  <1> QED BY <1>1, <1>3, <1>4, <1>5 DEF Conversation, Settled

-----------------------------------------------------------------------------
(* What does not matter to the bytes on the way. *)

LEMMA KeysStay ==
  ASSUME KeysArrive, KeyBytes' = KeyBytes, owed'["keyboard"] = owed["keyboard"],
         modifiers' = modifiers, user'.down = user.down, user'.last = user.last,
         user'.caps = user.caps
  PROVE  KeysArrive'
  BY DEF KeysArrive, Held, LastIsDown

LEMMA MovesStay ==
  ASSUME MovesArrive, pc > 22, MouseBytes' = MouseBytes, owed'["mouse"] = owed["mouse"],
         packet' = packet
  PROVE  MovesArrive'
  BY DEF MovesArrive

LEMMA NoMoves ==
  ASSUME NEW p, p.counter = 0
  PROVE  Reports(p, <<>>, <<>>)
  BY DEF Reports

(* In the end only the last byte is still to be taken, or nothing. *)
LEMMA AtTheEnd ==
  ASSUME IInv, pc >= 20
  PROVE  LastWord \/ Settled
  <1>1. pc \in 1 .. 23 /\ Conversation
    BY Zenon DEF IInv, Typed
  <1>2. ~EarlyTalk /\ ~LateTalk
    BY <1>1 DEF EarlyTalk, LateTalk
  <1> QED BY <1>1, <1>2 DEF Conversation

-----------------------------------------------------------------------------
(* The steps of the boot. *)

LEMMA BootPicKeeps ==
  ASSUME IInv, BootPicStep
  PROVE  IInv'
  <1>1. /\ pc \in 1 .. 23 /\ pic \in PicType /\ pic.serving = {}
        /\ pic.requested \subseteq {Timer, Keyboard, Mouse}
    BY Zenon DEF IInv, Typed
  <1>2. /\ Doing({"remap", "restore_first", "restore_second", "unmask", "mask"})
        /\ Raised(pic) = {} /\ pc' = pc + 1
        /\ UNCHANGED <<answer, status, controller, output, wire, reporting, drivers, owed, user>>
    BY Zenon DEF BootPicStep, Goes
  <1>3. UNCHANGED <<answer, status, config, input, expects, output, wire, reporting,
                    keyMap, modifiers, packet, manager, given, owed, user>>
    BY <1>2, Zenon DEF controller, drivers
  <1>4. pc \in {1, 2, 3, 4, 5, 7, 15, 20, 21}
    BY <1>1, <1>2, WherePic
  <1>5. /\ pic' \in PicType /\ pic'.serving = {}
        /\ pc # 1 => pic'.requested = pic.requested /\ pic'.remapped = pic.remapped
        /\ pc = 1 => pic'.requested = {} /\ pic'.remapped = TRUE
        /\ pc = 15 => Keyboard \in pic'.masked
        /\ pc = 20 => Keyboard \notin pic'.masked
        /\ pc = 21 /\ Keyboard \notin pic.masked => Keyboard \notin pic'.masked
    <2>1. pic' = CASE Script[pc].op = "remap" -> Remap(pic)
                   [] Script[pc].op = "restore_first" -> RestoreMask(pic, First)
                   [] Script[pc].op = "restore_second" -> RestoreMask(pic, Second)
                   [] OTHER -> SetIrqMask(pic, Script[pc].arg, Script[pc].op = "unmask")
      BY Zenon DEF BootPicStep
    <2>2. CASE pc = 1
      <3>1. pic' = Remap(pic)
        BY <2>1, <2>2, <1>1, <1>2, WherePic DEF Do
      <3> QED BY <3>1, <2>2 DEF Remap, PicType
    <2>3. CASE pc = 2
      <3>1. pic' = RestoreMask(pic, First)
        BY <2>1, <2>3, <1>1, <1>2, WherePic DEF Do
      <3> QED BY <3>1, <2>3, <1>1 DEF RestoreMask, PicType, BootMasked, First
    <2>3a. CASE pc = 3
      <3>1. pic' = RestoreMask(pic, Second)
        BY <2>1, <2>3a, <1>1, <1>2, WherePic DEF Do
      <3> QED BY <3>1, <2>3a, <1>1 DEF RestoreMask, PicType, BootMasked, First, Second
    <2>4. CASE pc \in {4, 5, 7, 20, 21}
      <3>1. /\ Script[pc] \in {Mask(Cascade, TRUE), Mask(Keyboard, TRUE), Mask(Mouse, TRUE),
                              Mask(Timer, TRUE)}
            /\ pc = 20 => Script[pc] = Mask(Keyboard, TRUE)
        BY <2>4, <1>1, <1>2, WherePic, Zenon
      <3>2. /\ Script[pc].op = "unmask" /\ Script[pc].arg \in Lines
            /\ pc = 20 => Script[pc].arg = Keyboard
        BY <3>1 DEF Mask, Lines
      <3>3. pic' = [pic EXCEPT !.masked = @ \ {Script[pc].arg}]
        BY <2>1, <3>2 DEF SetIrqMask
      <3> QED BY <3>2, <3>3, <2>4, <1>1 DEF PicType
    <2>5. CASE pc = 15
      <3>1. Script[pc] = Mask(Keyboard, FALSE)
        BY <2>5, <1>1, <1>2, WherePic
      <3>2. Script[pc].op = "mask" /\ Script[pc].arg = Keyboard /\ Keyboard \in Lines
        BY <3>1 DEF Mask, Lines
      <3>3. pic' = [pic EXCEPT !.masked = @ \cup {Keyboard}]
        BY <2>1, <3>2 DEF SetIrqMask
      <3> QED BY <3>2, <3>3, <2>5, <1>1 DEF PicType
    <2> QED BY <2>2, <2>3, <2>3a, <2>4, <2>5, <1>4
  <1>6. Typed'
    <2>1. pc' \in 1 .. 23 /\ pic' \in PicType /\ pic'.serving = {}
          /\ pic'.requested \subseteq {Timer, Keyboard, Mouse}
      BY <1>1, <1>2, <1>4, <1>5
    <2> QED BY <2>1, <1>3, Zenon DEF IInv, Typed
  <1>7. Progress'
    BY <1>2, <1>3, <1>4, <1>5 DEF IInv, Progress
  <1>8. Conversation'
    <2>1. CASE pc \in {1, 2, 3, 4, 5, 7}
      <3>1. Quiet /\ config = 101 /\ Nothing
        BY <2>1 DEF IInv, Conversation, EarlyTalk, LateTalk, LastWord, Settled
      <3>2. Quiet' /\ config' = 101 /\ Nothing' /\ pc' <= 8
        BY <2>1, <3>1, <1>2, <1>3 DEF Quiet, Nothing
      <3> QED BY <3>2, Zenon DEF Conversation, EarlyTalk
    <2>2. CASE pc = 15
      <3>1. Quiet /\ config = 69 /\ Nothing
        BY <2>2 DEF IInv, Conversation, EarlyTalk, LateTalk, LastWord, Settled
      <3>2. Quiet' /\ config' = 69 /\ Nothing' /\ pc' \in {15, 16}
        BY <2>2, <3>1, <1>2, <1>3 DEF Quiet, Nothing
      <3> QED BY <3>2, Zenon DEF Conversation, LateTalk
    <2>3. CASE pc \in {20, 21}
      <3>1. LastWord \/ Settled
        BY <2>3 DEF IInv, Conversation, EarlyTalk, LateTalk
      <3>2. LastWord' \/ Settled'
        BY <2>3, <3>1, <1>2, <1>3 DEF LastWord, Settled, Quiet, Nothing, Asked
      <3> QED BY <3>2, Zenon DEF Conversation
    <2> QED BY <2>1, <2>2, <2>3, <1>4
  <1>9. pc = 21 => Keyboard \notin pic.requested /\ Mouse \notin pic.requested /\ output.full = FALSE
    <2>1. pc = 21 => Keyboard \notin pic.masked
      BY DEF IInv, Progress
    <2>2. pc = 21 => Keyboard \notin pic.requested
      BY <2>1, <1>1, <1>2, RaisedLines
    <2> QED BY <2>2 DEF IInv, Latches, Typed
  <1>10. Latches'
    <2>1. CASE pc \in {1, 2, 3, 4, 5, 7, 15}
      <3>1. pic'.requested \subseteq pic.requested /\ pc' <= 16
        BY <2>1, <1>2, <1>5
      <3> QED BY <2>1, <3>1, <1>2 DEF IInv, Latches
    <2>2. CASE pc = 20
      BY <2>2, <1>2, <1>3, <1>5 DEF IInv, Latches
    <2>3. CASE pc = 21
      BY <2>3, <1>2, <1>3, <1>5, <1>9 DEF IInv, Latches
    <2> QED BY <2>1, <2>2, <2>3, <1>4
  <1>11. Waits'
    BY <1>1, <1>2, <1>3, <1>4 DEF IInv, Waits, Quiet
  <1>12. FromKeyboard' = FromKeyboard
    <2>1. CASE pc # 20
      BY <2>1, <1>2, <1>3, <1>4, <1>5, <1>9 DEF FromKeyboard
    <2>2. CASE pc = 20
      BY <2>2, <1>2, <1>3 DEF FromKeyboard, IInv, Latches
    <2> QED BY <2>1, <2>2
  <1>13. KeysArrive'
    BY <1>3, <1>12, KeysStay DEF IInv, KeyBytes
  <1>14. MovesArrive'
    BY <1>2, <1>4 DEF MovesArrive
  <1> QED BY <1>3, <1>6, <1>7, <1>8, <1>10, <1>11, <1>13, <1>14 DEF IInv

LEMMA BootFillKeyMapKeeps ==
  ASSUME IInv, BootFillKeyMap
  PROVE  IInv'
  <1>1. /\ Doing({"fill_key_map"}) /\ pc' = pc + 1 /\ keyMap' = TRUE
        /\ UNCHANGED <<answer, status, pic, controller, output, wire, reporting,
                       modifiers, packet, manager, given, owed, user>>
    BY Zenon DEF BootFillKeyMap, Goes
  <1>2. pc = 6 /\ pc' = 7
    <2>1. pc \in 1 .. 23
      BY Zenon DEF IInv, Typed
    <2> QED BY <2>1, <1>1, WhereOther
  <1>3. UNCHANGED <<answer, status, pic, config, input, expects, output, wire, reporting,
                    modifiers, packet, manager, given, owed, user>>
    BY <1>1, Zenon DEF controller
  <1>4. Typed'
    <2>1. pc' \in 1 .. 23
      BY <1>2
    <2> QED BY <2>1, <1>3, Zenon DEF IInv, Typed
  <1>5. Progress'
    BY <1>1, <1>2, <1>3 DEF IInv, Progress
  <1>6. Conversation'
    <2>1. Quiet /\ config = 101 /\ Nothing
      BY <1>2 DEF IInv, Conversation, EarlyTalk, LateTalk, LastWord, Settled
    <2>2. Quiet' /\ config' = 101 /\ Nothing' /\ pc' <= 8
      BY <2>1, <1>2, <1>3 DEF Quiet, Nothing
    <2> QED BY <2>2, Zenon DEF Conversation, EarlyTalk
  <1>7. Latches' /\ Waits'
    BY <1>2, <1>3 DEF IInv, Latches, Waits, Quiet
  <1>8. ~FromKeyboard /\ ~FromKeyboard'
    BY <1>2 DEF FromKeyboard
  <1>9. KeysArrive'
    BY <1>3, <1>8, KeysStay DEF IInv, KeyBytes
  <1>10. MovesArrive'
    BY <1>2 DEF MovesArrive
  <1> QED BY <1>3, <1>4, <1>5, <1>6, <1>7, <1>9, <1>10 DEF IInv

LEMMA BootBuildManagerKeeps ==
  ASSUME IInv, BootBuildManager
  PROVE  IInv'
  <1>1. /\ Doing({"build_manager"}) /\ pc' = pc + 1 /\ manager' = TRUE
        /\ UNCHANGED <<answer, status, pic, controller, output, wire, reporting,
                       keyMap, modifiers, packet, given, owed, user>>
    BY Zenon DEF BootBuildManager, Goes
  <1>2. pc = 22 /\ pc' = 23
    <2>1. pc \in 1 .. 23
      BY Zenon DEF IInv, Typed
    <2> QED BY <2>1, <1>1, WhereOther
  <1>3. UNCHANGED <<answer, status, pic, config, input, expects, output, wire, reporting,
                    keyMap, modifiers, packet, given, owed, user>>
    BY <1>1, Zenon DEF controller
  <1>4. Typed'
    <2>1. pc' \in 1 .. 23
      BY <1>2
    <2> QED BY <2>1, <1>3, Zenon DEF IInv, Typed
  <1>5. Progress'
    BY <1>1, <1>2, <1>3 DEF IInv, Progress
  <1>6. Conversation'
    <2>1. LastWord \/ Settled
      BY <1>2, AtTheEnd
    <2>2. LastWord' \/ Settled'
      BY <2>1, <1>2, <1>3 DEF LastWord, Settled, Quiet, Nothing, Asked
    <2> QED BY <2>2, Zenon DEF Conversation
  <1>7. Latches' /\ Waits'
    BY <1>2, <1>3 DEF IInv, Latches, Waits, Quiet
  <1>8. FromKeyboard' = FromKeyboard
    BY <1>2, <1>3 DEF FromKeyboard
  <1>9. KeysArrive'
    BY <1>3, <1>8, KeysStay DEF IInv, KeyBytes
  <1>10. MovesArrive'
    <2>1. Mouse \notin pic.requested /\ wire["mouse"] = <<>> /\ owed["mouse"] = <<>>
          /\ packet.counter = 0
      BY <1>2 DEF IInv, Latches, Waits
    <2>2. MouseBytes' = <<>> /\ owed'["mouse"] = <<>> /\ packet'.counter = 0
      BY <2>1, <1>3 DEF MouseBytes, FromMouse
    <2>3. PICK p : p = packet'
      OBVIOUS
    <2>4. Reports(p, <<>>, <<>>)
      BY <2>2, <2>3, NoMoves
    <2> QED BY <2>2, <2>3, <2>4 DEF MovesArrive
  <1> QED BY <1>3, <1>4, <1>5, <1>6, <1>7, <1>9, <1>10 DEF IInv

(* What is written is the next thing that the controller has to take. *)
LEMMA BootWriteKeeps ==
  ASSUME IInv, BootWrite
  PROVE  IInv'
  <1>1. /\ Doing({"command", "data", "write_status"}) /\ pc' = pc + 1 /\ Quiet
        /\ input' = [port |-> IF Script[pc].op = "command" THEN "command" ELSE "data",
                     byte |-> IF Script[pc].op = "write_status" THEN NewStatus ELSE Script[pc].arg]
        /\ UNCHANGED <<answer, status, pic, config, expects, output, wire, reporting,
                       drivers, owed, user>>
    BY Zenon DEF BootWrite, Goes, Quiet
  <1>2. UNCHANGED <<answer, status, pic, config, expects, output, wire, reporting,
                    keyMap, modifiers, packet, manager, given, owed, user>>
    BY <1>1, Zenon DEF drivers
  <1>0. pc \in 1 .. 23
    BY Zenon DEF IInv, Typed
  <1>3. pc \in {8, 9, 10, 12, 13, 16, 18, 19}
    BY <1>0, <1>1, WhereWrite
  <1>4. input' \in [port : {"none", "command", "data"}, byte : Int] /\ Conversation'
    <2>1. CASE pc = 8
      <3>1. Script[pc].op = "command" /\ Script[pc].arg = 168
        BY <2>1, <1>0, <1>1, WhereWrite DEF Port
      <3>2. config = 101 /\ Nothing
        BY <2>1 DEF IInv, Conversation, EarlyTalk, LateTalk, LastWord, Settled
      <3>3. pc' = 9 /\ Asked("command", 168)' /\ config' = 101 /\ Nothing'
        BY <2>1, <3>1, <3>2, <1>1, <1>2 DEF Asked, Nothing
      <3> QED BY <3>3 DEF Conversation, EarlyTalk, Asked
    <2>2. CASE pc \in {9, 12}
      <3>1. Script[pc].op = "command" /\ Script[pc].arg = 212
        BY <2>2, <1>0, <1>1, WhereWrite DEF Port
      <3>2. config = 69 /\ Nothing
        BY <2>2, <1>1 DEF IInv, Conversation, EarlyTalk, LateTalk, LastWord, Settled, Asked, Quiet
      <3>3. pc' \in {10, 13} /\ Asked("command", 212)' /\ config' = 69 /\ Nothing'
        BY <2>2, <3>1, <3>2, <1>1, <1>2 DEF Asked, Nothing
      <3> QED BY <3>3 DEF Conversation, EarlyTalk, Asked
    <2>3. CASE pc \in {10, 13}
      <3>1. Script[pc].op = "data" /\ Script[pc].arg \in Int
        <4>1. Script[pc] = Port("data", 246) \/ Script[pc] = Port("data", 244)
          BY <2>3, <1>0, <1>1, WhereWrite
        <4> QED BY <4>1 DEF Port
      <3>2. config = 69 /\ Nothing /\ expects = "mouse"
        BY <2>3, <1>1 DEF IInv, Conversation, EarlyTalk, LateTalk, LastWord, Settled, Asked, Quiet
      <3>3. /\ pc' \in {11, 14} /\ input'.port = "data" /\ input'.byte \in Int
            /\ config' = 69 /\ Nothing' /\ expects' = "mouse"
        BY <2>3, <3>1, <3>2, <1>1, <1>2 DEF Nothing
      <3> QED BY <3>1, <3>3, <1>1 DEF Conversation, EarlyTalk
    <2>4. CASE pc = 16
      <3>1. Script[pc].op = "command" /\ Script[pc].arg = 32
        BY <2>4, <1>0, <1>1, WhereWrite DEF Port
      <3>2. config = 69 /\ Nothing
        BY <2>4 DEF IInv, Conversation, EarlyTalk, LateTalk, LastWord, Settled
      <3>3. pc' = 17 /\ Asked("command", 32)' /\ config' = 69 /\ Nothing'
        BY <2>4, <3>1, <3>2, <1>1, <1>2 DEF Asked, Nothing
      <3> QED BY <3>3 DEF Conversation, LateTalk, Asked
    <2>5. CASE pc = 18
      <3>1. Script[pc].op = "command" /\ Script[pc].arg = 96
        BY <2>5, <1>0, <1>1, WhereWrite DEF Port
      <3>2. config = 69 /\ answer = 69 /\ Nothing
        BY <2>5 DEF IInv, Conversation, EarlyTalk, LateTalk, LastWord, Settled
      <3>3. pc' = 19 /\ Asked("command", 96)' /\ config' = 69 /\ answer' = 69 /\ Nothing'
        BY <2>5, <3>1, <3>2, <1>1, <1>2 DEF Asked, Nothing
      <3> QED BY <3>3 DEF Conversation, LateTalk, Asked
    <2>6. CASE pc = 19
      <3>1. Script[pc].op = "write_status"
        BY <2>6, <1>0, <1>1, WhereWrite DEF Do
      <3>2. config = 69 /\ answer = 69 /\ Nothing /\ expects = "config"
        BY <2>6, <1>1 DEF IInv, Conversation, EarlyTalk, LateTalk, LastWord, Settled, Asked, Quiet
      <3>3. NewStatus = 71
        BY <3>2, ConfigBits DEF NewStatus
      <3>4. pc' = 20 /\ Asked("data", 71)' /\ config' = 69 /\ expects' = "config" /\ Nothing'
        BY <2>6, <3>1, <3>2, <3>3, <1>1, <1>2 DEF Asked, Nothing
      <3> QED BY <3>4 DEF Conversation, LastWord, Asked
    <2> QED BY <2>1, <2>2, <2>3, <2>4, <2>5, <2>6, <1>3
  <1>5. Typed'
    <2>1. pc' \in 1 .. 23
      BY <1>1, <1>3
    <2> QED BY <2>1, <1>2, <1>4, Zenon DEF IInv, Typed
  <1>6. Progress'
    BY <1>1, <1>2, <1>3 DEF IInv, Progress
  <1>7. Latches'
    BY <1>1, <1>2, <1>3 DEF IInv, Latches
  <1>8. Waits'
    <2>1. pc = 19 => wire["mouse"] = <<>>
      BY DEF IInv, Conversation, EarlyTalk, LateTalk, LastWord, Settled, Nothing
    <2> QED BY <2>1, <1>1, <1>2, <1>3 DEF IInv, Waits
  <1>9. ~FromKeyboard /\ ~FromKeyboard'
    BY <1>1, <1>3 DEF FromKeyboard
  <1>10. KeysArrive'
    BY <1>2, <1>9, KeysStay DEF IInv, KeyBytes
  <1>11. MovesArrive'
    BY <1>1, <1>3 DEF MovesArrive
  <1> QED BY <1>2, <1>4, <1>5, <1>6, <1>7, <1>8, <1>10, <1>11 DEF IInv

(* What init_mouse reads is the answer to its last command. *)
LEMMA BootReadKeeps ==
  ASSUME IInv, BootRead
  PROVE  IInv'
  <1>1. /\ Doing({"read_ack", "read_status"}) /\ pc' = pc + 1
        /\ output.full \/ ControllerIdle
        /\ output' = [output EXCEPT !.full = FALSE] /\ answer' = output.byte
        /\ status' = IF ~output.full \/ (Script[pc].op = "read_ack" /\ output.byte # Ack)
                     THEN "panic" ELSE status
        /\ UNCHANGED <<pic, controller, wire, reporting, drivers, owed, user>>
    BY Zenon DEF BootRead, Goes
  <1>2. UNCHANGED <<pic, config, input, expects, wire, reporting,
                    keyMap, modifiers, packet, manager, given, owed, user>>
    BY <1>1, Zenon DEF controller, drivers
  <1>0. pc \in 1 .. 23 /\ output \in [full : BOOLEAN, byte : Bytes] /\ status = "running"
    BY Zenon DEF IInv, Typed
  <1>3. pc \in {11, 14, 17} /\ (pc = 17 => Script[pc].op = "read_status")
    BY <1>0, <1>1, WhereRead
  <1>4. /\ Quiet /\ config = 69 /\ output.full = TRUE /\ wire["mouse"] = <<>>
        /\ output.byte = IF pc = 17 THEN 69 ELSE Ack
    <2>1. output.full = FALSE /\ config = 69 /\ Quiet => wire["mouse"] = <<>>
      <3>1. ~GetBit(69, 5)
        BY ConfigBits
      <3> QED BY <3>1, <1>1, Zenon DEF ControllerIdle
    <2>2. output.full = FALSE => Quiet
      BY <1>1, Zenon DEF ControllerIdle, Quiet
    <2>3. CASE pc \in {11, 14}
      BY <2>1, <2>2, <2>3, SMTT(30) DEF IInv, Conversation, EarlyTalk, LateTalk, LastWord, Settled, Nothing, Quiet, Ack
    <2>4. CASE pc = 17
      BY <2>1, <2>2, <2>4 DEF IInv, Conversation, EarlyTalk, LateTalk, LastWord, Settled, Nothing, Quiet, Asked
    <2> QED BY <2>3, <2>4, <1>3
  <1>5. status' = "running"
    <2>1. Script[pc].op = "read_ack" => output.byte = Ack
      BY <1>3, <1>4
    <2> QED BY <2>1, <1>0, <1>1, <1>4
  <1>6. output' = [full |-> FALSE, byte |-> output.byte] /\ output'.full = FALSE
        /\ output'.byte = output.byte
    BY <1>0, <1>1
  <1>7. Typed'
    <2>0. output.byte \in Bytes
      BY <1>0
    <2>1. output' \in [full : BOOLEAN, byte : Bytes]
      BY <2>0, <1>6
    <2>2. pc' \in 1 .. 23
      BY <1>1, <1>3
    <2> QED BY <2>1, <2>2, <1>2, Zenon DEF IInv, Typed
  <1>8. Progress'
    BY <1>1, <1>2, <1>3 DEF IInv, Progress
  <1>9. Conversation'
    <2>1. Quiet' /\ config' = 69 /\ Nothing'
      BY <1>2, <1>4, <1>6 DEF Quiet, Nothing
    <2>2. pc' \in {12, 15} \/ (pc' = 18 /\ answer' = 69)
      BY <1>1, <1>3, <1>4
    <2> QED BY <2>1, <2>2 DEF Conversation, EarlyTalk, LateTalk
  <1>10. Latches'
    BY <1>1, <1>2, <1>3, <1>4, <1>6 DEF IInv, Latches
  <1>11. Waits'
    BY <1>1, <1>2, <1>3, <1>4 DEF IInv, Waits, Quiet
  <1>12. ~FromKeyboard /\ ~FromKeyboard'
    BY <1>1, <1>3 DEF FromKeyboard
  <1>13. KeysArrive'
    BY <1>2, <1>12, KeysStay DEF IInv, KeyBytes
  <1>14. MovesArrive'
    BY <1>1, <1>3 DEF MovesArrive
  <1> QED BY <1>5, <1>7, <1>8, <1>9, <1>10, <1>11, <1>13, <1>14 DEF IInv

-----------------------------------------------------------------------------
(* The interrupts. *)

(* None comes before the controllers are set up, the keyboard's not before *)
(* init_mouse has its answers, the mouse's not before there is a manager.  *)
LEMMA InterruptFacts ==
  ASSUME IInv, NEW line \in Lines, Interrupt(line)
  PROVE  /\ line \in {Timer, Keyboard, Mouse} /\ line \in pic.requested
         /\ line = Keyboard => pc > 20
         /\ line = Mouse => pc > 22
         /\ pic' \in PicType /\ pic'.serving = {}
         /\ pic'.masked = pic.masked /\ pic'.remapped = pic.remapped
         /\ pic'.requested = pic.requested \ {line}
         /\ status' = "running"
         /\ UNCHANGED <<pc, answer, config, input, expects, wire, reporting, user>>
  <1>1. /\ pc \in 1 .. 23 /\ pic \in PicType /\ pic.serving = {} /\ status = "running"
        /\ pic.requested \subseteq {Timer, Keyboard, Mouse}
    BY Zenon DEF IInv, Typed
  <1>2. /\ line \in Raised(pic) /\ status' = IF pic.remapped THEN status ELSE "halted"
        /\ pic' = SendEoi(Acknowledge(pic, line), line)
        /\ UNCHANGED <<boot, controller, wire, reporting, user>>
    BY Zenon DEF Interrupt
  <1>3. line \in pic.requested /\ line \notin pic.masked
    BY <1>1, <1>2, RaisedLines
  <1>4. pic' = [pic EXCEPT !.requested = @ \ {line}]
    BY <1>1, <1>2, HandlerIsDone, Zenon
  <1>5. /\ pic' \in PicType /\ pic'.serving = {}
        /\ pic'.masked = pic.masked /\ pic'.remapped = pic.remapped
        /\ pic'.requested = pic.requested \ {line}
    BY <1>1, <1>4 DEF PicType
  <1>6. pc # 1
    BY <1>3 DEF IInv, Progress
  <1>7. status' = "running"
    BY <1>1, <1>2, <1>6 DEF IInv, Progress
  <1>8. line = Keyboard => pc > 20
    BY <1>1, <1>3 DEF IInv, Progress, Latches
  <1>9. line = Mouse => pc > 22
    BY <1>1, <1>3 DEF IInv, Latches
  <1>10. UNCHANGED <<pc, answer, config, input, expects, wire, reporting, user>>
    BY <1>2, Zenon DEF boot, controller
  <1> QED BY <1>1, <1>3, <1>5, <1>7, <1>8, <1>9, <1>10, Zenon

(* The timer's line concerns nobody else. *)
LEMMA OnlyTheTimer ==
  ASSUME IInv, pic' \in PicType, pic'.serving = {},
         pic'.masked = pic.masked, pic'.remapped = pic.remapped,
         pic'.requested \subseteq {Timer, Keyboard, Mouse},
         Keyboard \in pic'.requested <=> Keyboard \in pic.requested,
         Mouse \in pic'.requested <=> Mouse \in pic.requested,
         UNCHANGED <<pc, status, answer, config, input, expects, output, wire, reporting,
                     keyMap, modifiers, packet, manager, given, owed, user>>
  PROVE  IInv'
  <1>1. Typed'
    BY Zenon DEF IInv, Typed
  <1>2. Progress'
    BY DEF IInv, Progress
  <1>3. Conversation'
    <2>1. EarlyTalk' = EarlyTalk
      BY DEF EarlyTalk, Quiet, Asked, Nothing
    <2>2. LateTalk' = LateTalk
      BY DEF LateTalk, Quiet, Asked, Nothing
    <2>3. LastWord' = LastWord /\ Settled' = Settled
      BY DEF LastWord, Settled, Quiet, Asked, Nothing
    <2> QED BY <2>1, <2>2, <2>3, Zenon DEF IInv, Conversation
  <1>4. Latches' /\ Waits'
    BY DEF IInv, Latches, Waits, Quiet
  <1>5. KeyBytes' = KeyBytes /\ MouseBytes' = MouseBytes
    BY DEF KeyBytes, MouseBytes, FromKeyboard, FromMouse
  <1>6. KeysArrive'
    BY <1>5, KeysStay DEF IInv
  <1>7. MovesArrive'
    BY <1>5 DEF IInv, MovesArrive
  <1> QED BY <1>1, <1>2, <1>3, <1>4, <1>6, <1>7 DEF IInv

LEMMA TimerKeeps ==
  ASSUME IInv, Interrupt(Timer)
  PROVE  IInv' /\ UNCHANGED <<manager, given, owed>>
  <1>1. Timer \in Lines /\ Timer # Keyboard /\ Timer # Mouse
    BY DEF Lines, Timer, Keyboard, Mouse
  <1>2. UNCHANGED <<output, keyMap, modifiers, packet, manager, given, owed>>
    BY <1>1, Zenon DEF Interrupt, drivers
  <1>3. /\ pic' \in PicType /\ pic'.serving = {}
        /\ pic'.masked = pic.masked /\ pic'.remapped = pic.remapped
        /\ pic'.requested = pic.requested \ {Timer}
        /\ status' = "running"
        /\ UNCHANGED <<pc, answer, config, input, expects, wire, reporting, user>>
    BY <1>1, InterruptFacts, Zenon
  <1>4. status = "running" /\ pic.requested \subseteq {Timer, Keyboard, Mouse}
    BY Zenon DEF IInv, Typed
  <1>5. /\ pic'.requested \subseteq {Timer, Keyboard, Mouse}
        /\ Keyboard \in pic'.requested <=> Keyboard \in pic.requested
        /\ Mouse \in pic'.requested <=> Mouse \in pic.requested
    BY <1>1, <1>3, <1>4
  <1>6. IInv'
    BY <1>2, <1>3, <1>4, <1>5, OnlyTheTimer, Zenon
  <1> QED BY <1>2, <1>6

LEMMA TickKeeps ==
  ASSUME IInv, Tick
  PROVE  IInv'
  <1>1. Timer \in Lines /\ Timer # Keyboard /\ Timer # Mouse
    BY DEF Lines, Timer, Keyboard, Mouse
  <1>2. /\ pic' = [pic EXCEPT !.requested = @ \cup {Timer}]
        /\ UNCHANGED <<boot, status, controller, output, wire, reporting, drivers, owed, user>>
    BY Zenon DEF Tick, Request
  <1>3. UNCHANGED <<pc, status, answer, config, input, expects, output, wire, reporting,
                    keyMap, modifiers, packet, manager, given, owed, user>>
    BY <1>2, Zenon DEF boot, controller, drivers
  <1>4. pic \in PicType /\ pic.serving = {} /\ pic.requested \subseteq {Timer, Keyboard, Mouse}
    BY Zenon DEF IInv, Typed
  <1>5. /\ pic' \in PicType /\ pic'.serving = {}
        /\ pic'.masked = pic.masked /\ pic'.remapped = pic.remapped
        /\ pic'.requested = pic.requested \cup {Timer}
    BY <1>1, <1>2, <1>4 DEF PicType
  <1>6. /\ pic'.requested \subseteq {Timer, Keyboard, Mouse}
        /\ Keyboard \in pic'.requested <=> Keyboard \in pic.requested
        /\ Mouse \in pic'.requested <=> Mouse \in pic.requested
    BY <1>1, <1>4, <1>5
  <1> QED BY <1>3, <1>5, <1>6, OnlyTheTimer, Zenon

(* The handler reads off a final byte the event that it stands for. *)
LEMMA KeyRead ==
  ASSUME NEW e \in KeyEvents, NEW b, b = FinalByte(e), e.shifted = ShiftedBy(modifiers, e)
  PROVE  /\ ModifiersAfter(b % 128, b < 128) = FlagsAfter(modifiers, e)
         /\ [code |-> b % 128, pressed |-> b < 128, shifted |-> IsShifted(b % 128, b < 128)] = e
  <1> DEFINE c == b % 128
             p == b < 128
  <1>1. c = e.code
    BY FinalBytes
  <1>2. p = e.pressed
    <2>1. e.pressed \in BOOLEAN /\ (b < 128 <=> e.pressed)
      BY FinalBytes DEF KeyEvents
    <2> QED BY <2>1
  <1> HIDE DEF c, p
  <1>3. ModifiersAfter(c, p) = FlagsAfter(modifiers, e)
    BY <1>1, <1>2, Zenon DEF ModifiersAfter, FlagsAfter
  <1>4. IsShifted(c, p) = e.shifted
    BY <1>1, <1>2, Zenon DEF IsShifted, ShiftedBy
  <1>5. e = [code |-> e.code, pressed |-> e.pressed, shifted |-> e.shifted]
    BY DEF KeyEvents
  <1>6. [code |-> c, pressed |-> p, shifted |-> IsShifted(c, p)] = e
    BY <1>1, <1>2, <1>4, <1>5, Zenon
  <1> QED BY <1>3, <1>6 DEF c, p

(* The interrupt without a byte finds the configuration byte again, which  *)
(* is the code of no key that has a flag.                                  *)
LEMMA OldAnswer ==
  ASSUME modifiers \in Flags
  PROVE  69 # Prefix /\ 69 % 128 = 69 /\ ModifiersAfter(69, 69 < 128) = modifiers
  BY DEF Flags, ModifiersAfter, Prefix, CtrlCode, ShiftCodes, AltCode, CapsCode

LEMMA KeyboardKeeps ==
  ASSUME IInv, Interrupt(Keyboard)
  PROVE  IInv' /\ (Channels!Take("keyboard") \/ UNCHANGED <<manager, given, owed>>)
  <1>1. Keyboard \in Lines /\ Keyboard # Timer /\ Keyboard # Mouse
    BY DEF Lines, Timer, Keyboard, Mouse
  <1>2. Consumed /\ HandleKeyboard
    BY <1>1, Zenon DEF Interrupt
  <1>3. /\ pc > 20 /\ pic' \in PicType /\ pic'.serving = {} /\ Keyboard \in pic.requested
        /\ pic'.masked = pic.masked /\ pic'.remapped = pic.remapped
        /\ pic'.requested = pic.requested \ {Keyboard}
        /\ status' = "running"
        /\ UNCHANGED <<pc, answer, config, input, expects, wire, reporting, user>>
    BY <1>1, InterruptFacts, Zenon
  <1>4. /\ pc \in 1 .. 23 /\ output \in [full : BOOLEAN, byte : Bytes]
        /\ wire \in [Devices -> Seq(Bytes)] /\ modifiers \in Flags
        /\ pic.requested \subseteq {Timer, Keyboard, Mouse}
        /\ given = [d \in Devices |-> given[d]] /\ owed = [d \in Devices |-> owed[d]]
        /\ owed["keyboard"] \in Seq(KeyEvents)
    BY Zenon DEF IInv, Typed
  <1>a. pc \in 21 .. 23
    BY <1>3, <1>4, SMTT(40)
  <1>b. LastWord \/ Settled
    BY <1>a, AtTheEnd
  <1>5. keyMap = TRUE /\ (pc <= 22 => manager = FALSE)
    BY <1>a DEF IInv, Progress
  <1>6. /\ output' = [output EXCEPT !.full = FALSE] /\ output'.full = FALSE
        /\ output' \in [full : BOOLEAN, byte : Bytes]
    BY <1>2, <1>4 DEF Consumed
  <1>7. packet' = packet /\ manager' = manager /\ keyMap' = keyMap
    BY <1>2, Zenon DEF HandleKeyboard, drivers
  (* What does not depend on the byte. *)
  <1>8. Progress'
    BY <1>3, <1>7 DEF IInv, Progress
  <1>9. Conversation'
    <2>2. LastWord' \/ Settled'
      BY <1>b, <1>3, <1>6 DEF LastWord, Settled, Quiet, Nothing, Asked
    <2> QED BY <2>2, Zenon DEF Conversation
  <1>10. Latches'
    BY <1>3, <1>4, <1>6 DEF IInv, Latches
  <1>11. MouseBytes' = MouseBytes
    <2>1. ~FromMouse'
      BY <1>6 DEF FromMouse
    <2>2. ~FromMouse
      BY <1>3, <1>4, SMTT(30) DEF FromMouse, IInv, Latches
    <2> QED BY <2>1, <2>2, <1>3 DEF MouseBytes
  <1>12. ~FromKeyboard' /\ KeyBytes' = wire["keyboard"]
    BY <1>3, <1>6 DEF FromKeyboard, KeyBytes
  <1>13. Carries(KeyBytes, owed["keyboard"]) /\ Leads(modifiers, owed["keyboard"], Held)
    BY Zenon DEF IInv, KeysArrive
  <1>14. Held' = Held
    BY <1>3 DEF Held, LastIsDown
  (* It is enough to see what becomes of the keys. *)
  <1>15. ASSUME modifiers' \in Flags, given' = [d \in Devices |-> given'[d]],
                owed' = [d \in Devices |-> owed'[d]], owed'["keyboard"] \in Seq(KeyEvents),
                owed'["mouse"] = owed["mouse"],
                owed' = owed \/ Quiet,
                Carries(wire["keyboard"], owed'["keyboard"]),
                Leads(modifiers', owed'["keyboard"], Held)
         PROVE  IInv'
    <2>1. Typed'
      BY <1>3, <1>4, <1>6, <1>7, <1>15, Zenon DEF IInv, Typed
    <2>2. Waits'
      <3>1. pc' = pc /\ Quiet' = Quiet /\ packet' = packet /\ wire' = wire
        BY <1>3, <1>7 DEF Quiet
      <3>2. CASE owed' = owed
        BY <3>1, <3>2 DEF IInv, Waits
      <3>3. CASE Quiet
        BY <3>1, <3>3, <1>a, <1>15 DEF IInv, Waits
      <3> QED BY <3>2, <3>3, <1>15
    <2>3. KeysArrive'
      BY <1>12, <1>14, <1>15, Zenon DEF KeysArrive
    <2>4. MovesArrive'
      BY <1>3, <1>7, <1>11, <1>15 DEF IInv, MovesArrive
    <2> QED BY <2>1, <2>2, <2>3, <2>4, <1>3, <1>8, <1>9, <1>10, Zenon DEF IInv
  <1>16. CASE output.full = FALSE
    <2>1. pc = 21 /\ output.byte = 69 /\ manager = FALSE
      BY <1>16, <1>3, <1>4, <1>5 DEF IInv, Latches
    <2>2. /\ modifiers' = ModifiersAfter(69, 69 < 128)
          /\ UNCHANGED <<given, owed>>
      BY <2>1, <1>2, <1>5, <1>16, OldAnswer, <1>4 DEF HandleKeyboard
    <2>3. modifiers' = modifiers
      BY <2>2, <1>4, OldAnswer
    <2>4. KeyBytes = wire["keyboard"]
      BY <1>16 DEF KeyBytes, FromKeyboard
    <2>5. IInv'
      BY <2>2, <2>3, <2>4, <1>4, <1>13, <1>15
    <2> QED BY <2>2, <2>5, <1>7
  <1>17. CASE output.full = TRUE
    <2>1. Quiet
      BY <1>17, <1>b DEF LastWord, Nothing, Settled
    <2>2. output.byte \in Bytes /\ wire["keyboard"] \in Seq(Bytes)
      BY <1>4 DEF Devices
    <2>3. KeyBytes = <<output.byte>> \o wire["keyboard"]
      BY <1>17, <1>3 DEF KeyBytes, FromKeyboard
    <2>4. /\ KeyBytes \in Seq(Bytes) /\ KeyBytes # <<>> /\ Head(KeyBytes) = output.byte
          /\ Tail(KeyBytes) = wire["keyboard"]
      <3>1. PICK b \in Bytes, s \in Seq(Bytes) : b = output.byte /\ s = wire["keyboard"]
        BY <2>2, Zenon
      <3>2. PICK t : t = <<b>> \o s
        OBVIOUS
      <3>3. t \in Seq(Bytes) /\ t # <<>> /\ Head(t) = b /\ Tail(t) = s
        BY <3>2, TakeFirst, Zenon
      <3> QED BY <2>3, <3>1, <3>2, <3>3, Zenon
    <2>5. CASE output.byte = Prefix
      <3>1. UNCHANGED <<modifiers, given, owed>>
        BY <2>5, <1>2 DEF HandleKeyboard, drivers
      <3>2. Carries(wire["keyboard"], owed["keyboard"])
        <4>1. PICK s \in Seq(Bytes), es \in Seq(KeyEvents) : s = KeyBytes /\ es = owed["keyboard"]
          BY <2>4, <1>4, Zenon
        <4>2. Carries(Tail(s), es)
          BY <4>1, <2>4, <2>5, <1>13, PassPrefix
        <4> QED BY <4>1, <4>2, <2>4
      <3>3. IInv'
        BY <3>1, <3>2, <1>4, <1>13, <1>15
      <3> QED BY <3>1, <3>3, <1>7
    <2>6. CASE output.byte # Prefix
      <3>1. PICK s \in Seq(Bytes), es \in Seq(KeyEvents) : s = KeyBytes /\ es = owed["keyboard"]
        BY <2>4, <1>4, Zenon
      <3>2. es # <<>> /\ output.byte = FinalByte(Head(es)) /\ Carries(wire["keyboard"], Tail(es))
        BY <3>1, <2>4, <2>6, <1>13, PassFinal
      <3>3. PICK m : m = modifiers
        OBVIOUS
      <3>4. PICK held : held = Held
        OBVIOUS
      <3>5. /\ Head(es).shifted = ShiftedBy(m, Head(es))
            /\ Leads(FlagsAfter(m, Head(es)), Tail(es), held)
        BY <3>1, <3>2, <3>3, <3>4, <1>13, LeadsFirst, Zenon
      <3>6. Head(es) \in KeyEvents /\ Tail(es) \in Seq(KeyEvents)
        BY <3>2
      <3>7. PICK e \in KeyEvents : e = Head(es)
        BY <3>6
      <3>8. PICK b : b = output.byte
        OBVIOUS
      <3>9. /\ ModifiersAfter(b % 128, b < 128) = FlagsAfter(modifiers, e)
            /\ [code |-> b % 128, pressed |-> b < 128,
                shifted |-> IsShifted(b % 128, b < 128)] = e
        BY <3>2, <3>3, <3>5, <3>7, <3>8, KeyRead, ZenonT(40)
      <3>10. modifiers' = FlagsAfter(modifiers, e)
        BY <3>8, <3>9, <2>6, <1>2, <1>5, Zenon DEF HandleKeyboard
      <3>11. given' = IF manager THEN [given EXCEPT !["keyboard"] = <<e>>] ELSE given
        BY <3>8, <3>9, <2>6, <1>2, Zenon DEF HandleKeyboard
      <3>12. owed' = [owed EXCEPT !["keyboard"] = Tail(es)]
        <4>1. Handled("keyboard")
          BY <2>6, <1>2, <1>17, Zenon DEF HandleKeyboard
        <4> QED BY <4>1, <3>1, <3>2, Zenon DEF Handled
      <3>13. /\ owed' = [d \in Devices |-> owed'[d]] /\ owed'["keyboard"] = Tail(es)
             /\ owed'["mouse"] = owed["mouse"]
        BY <3>12, <1>4 DEF Devices
      <3>14. given' = [d \in Devices |-> given'[d]]
        BY <3>11, <1>4 DEF Devices
      <3>15. modifiers' \in Flags
        BY <3>10, <1>4, FlagsTyped
      <3>16. Leads(modifiers', Tail(es), Held)
        BY <3>3, <3>4, <3>5, <3>7, <3>10, Zenon
      <3>17. IInv'
        BY <3>2, <3>6, <3>13, <3>14, <3>15, <3>16, <2>1, <1>15, Zenon
      <3>18. Channels!Take("keyboard")
        BY <3>1, <3>2, <3>7, <3>11, <3>12, <1>7, Zenon DEF Channels!Take
      <3> QED BY <3>17, <3>18
    <2> QED BY <2>5, <2>6
  <1> QED BY <1>4, <1>16, <1>17

(* put_byte, by which byte of the packet it is. *)
LEMMA PutByteFacts ==
  ASSUME packet \in Packets, NEW byte \in Bytes
  PROVE  LET q == PutByte(byte)
         IN  /\ q \in Packets
             /\ packet.counter # 2 => /\ q.counter = packet.counter + 1
                                      /\ q.status = IF packet.counter = 0 THEN byte ELSE packet.status
                                      /\ q.mov_x = IF packet.counter = 1 THEN byte ELSE packet.mov_x
             /\ packet.counter = 2 => /\ q.counter = 0 /\ q.status = packet.status
                                      /\ q.mov_x = packet.mov_x /\ q.mov_y = byte
  <1> DEFINE at == packet.counter
             q == PutByte(byte)
  <1>1. at \in 0 .. 2 /\ packet.status \in Bytes /\ packet.mov_x \in Bytes /\ packet.mov_y \in Bytes
    BY DEF Packets
  <1>2. /\ q.status = IF at = 0 THEN byte ELSE packet.status
        /\ q.mov_x = IF at = 1 THEN byte ELSE packet.mov_x
        /\ q.mov_y = IF at = 2 THEN byte ELSE packet.mov_y
        /\ q.counter = IF at + 1 = 3 THEN 0 ELSE at + 1
        /\ q = [status |-> q.status, mov_x |-> q.mov_x, mov_y |-> q.mov_y, counter |-> q.counter]
    BY Zenon DEF PutByte
  <1> HIDE DEF at, q
  <1>3. q.counter \in 0 .. 2 /\ (at # 2 => q.counter = at + 1) /\ (at = 2 => q.counter = 0)
    BY <1>1, <1>2
  <1>4. q.status \in Bytes /\ q.mov_x \in Bytes /\ q.mov_y \in Bytes
    BY <1>1, <1>2
  <1>5. q \in Packets
    BY <1>2, <1>3, <1>4 DEF Packets
  <1>6. at = 2 => at # 0 /\ at # 1
    OBVIOUS
  <1> QED BY <1>2, <1>3, <1>5, <1>6, Zenon DEF at, q

LEMMA MouseKeeps ==
  ASSUME IInv, Interrupt(Mouse)
  PROVE  IInv' /\ (Channels!Take("mouse") \/ UNCHANGED <<manager, given, owed>>)
  <1>1. Mouse \in Lines /\ Mouse # Timer /\ Mouse # Keyboard
    BY DEF Lines, Timer, Keyboard, Mouse
  <1>2. Consumed /\ HandleMouse
    BY <1>1, Zenon DEF Interrupt
  <1>3. /\ pc > 22 /\ pic' \in PicType /\ pic'.serving = {} /\ Mouse \in pic.requested
        /\ pic'.masked = pic.masked /\ pic'.remapped = pic.remapped
        /\ pic'.requested = pic.requested \ {Mouse}
        /\ status' = "running"
        /\ UNCHANGED <<pc, answer, config, input, expects, wire, reporting, user>>
    BY <1>1, InterruptFacts, Zenon
  <1>a. pc \in 1 .. 23
    BY Zenon DEF IInv, Typed
  <1>b. pc = 23
    BY <1>3, <1>a
  <1>4. /\ output \in [full : BOOLEAN, byte : Bytes]
        /\ wire \in [Devices -> Seq(Bytes)] /\ packet \in Packets
        /\ pic.requested \subseteq {Timer, Keyboard, Mouse}
        /\ given = [d \in Devices |-> given[d]] /\ owed = [d \in Devices |-> owed[d]]
        /\ owed["mouse"] \in Seq(MouseEvents)
    BY Zenon DEF IInv, Typed
  <1>5. manager = TRUE
    BY <1>b DEF IInv, Progress
  <1>6. output.full = TRUE /\ Keyboard \notin pic.requested
    BY <1>b, <1>3, <1>4 DEF IInv, Latches
  <1>7. Settled /\ Quiet
    <2>1. LastWord \/ Settled
      BY <1>b, AtTheEnd
    <2> QED BY <2>1, <1>6 DEF LastWord, Nothing, Settled
  <1>8. /\ output' = [output EXCEPT !.full = FALSE] /\ output'.full = FALSE
        /\ output' \in [full : BOOLEAN, byte : Bytes]
    BY <1>2, <1>4 DEF Consumed
  <1>9. modifiers' = modifiers /\ keyMap' = keyMap
    BY <1>2, Zenon DEF HandleMouse
  <1>10. manager' = TRUE
    BY <1>2, <1>5, Zenon DEF HandleMouse
  (* What does not depend on the byte. *)
  <1>11. Progress'
    BY <1>3, <1>5, <1>9, <1>10 DEF IInv, Progress
  <1>12. Conversation'
    BY <1>3, <1>7 DEF Conversation, Settled, Quiet
  <1>13. Latches'
    BY <1>b, <1>3, <1>6, <1>8 DEF Latches
  <1>14. KeyBytes' = KeyBytes
    <2>1. ~FromKeyboard' /\ ~FromKeyboard
      BY <1>6, <1>8 DEF FromKeyboard
    <2> QED BY <2>1, <1>3 DEF KeyBytes
  <1>15. MouseBytes' = wire["mouse"]
    <2>1. ~FromMouse'
      BY <1>8 DEF FromMouse
    <2> QED BY <2>1, <1>3 DEF MouseBytes
  (* It is enough to see what becomes of the movements. *)
  <1>16. ASSUME packet' \in Packets, given' = [d \in Devices |-> given'[d]],
                owed' = [d \in Devices |-> owed'[d]], owed'["mouse"] \in Seq(MouseEvents),
                owed'["keyboard"] = owed["keyboard"],
                Reports(packet', wire["mouse"], owed'["mouse"])
         PROVE  IInv'
    <2>1. Typed'
      BY <1>3, <1>4, <1>8, <1>9, <1>16, Zenon DEF IInv, Typed
    <2>2. Quiet'
      BY <1>3, <1>7 DEF Quiet
    <2>3. Waits'
      BY <2>2, <1>b, <1>3 DEF Waits
    <2>4. KeysArrive'
      BY <1>3, <1>9, <1>14, <1>16, KeysStay DEF IInv
    <2>5. MovesArrive'
      BY <1>15, <1>16, Zenon DEF MovesArrive
    <2> QED BY <2>1, <2>3, <2>4, <2>5, <1>3, <1>11, <1>12, <1>13, Zenon DEF IInv
  (* The byte and what was behind it. *)
  <1>17. PICK b \in Bytes, w \in Seq(Bytes) : b = output.byte /\ w = wire["mouse"]
    <2>1. output.byte \in Bytes /\ wire["mouse"] \in Seq(Bytes)
      BY <1>4 DEF Devices
    <2> QED BY <2>1
  <1>18. PICK s : s = <<b>> \o w
    OBVIOUS
  <1>19. s \in Seq(Bytes) /\ s # <<>> /\ Head(s) = b /\ Tail(s) = w
    BY <1>18, TakeFirst, Zenon
  <1>20. PICK p \in Packets, es \in Seq(MouseEvents) : p = packet /\ es = owed["mouse"]
    BY <1>4
  <1>21. Reports(p, s, es)
    <2>1. MouseBytes = s
      BY <1>3, <1>6, <1>17, <1>18 DEF MouseBytes, FromMouse
    <2>2. Reports(packet, MouseBytes, owed["mouse"])
      BY <1>b DEF IInv, MovesArrive
    <2> QED BY <2>1, <2>2, <1>20
  <1>22. PICK q : q = PutByte(b)
    OBVIOUS
  <1>23. /\ q \in Packets
         /\ p.counter # 2 => /\ q.counter = p.counter + 1
                             /\ q.status = IF p.counter = 0 THEN Head(s) ELSE p.status
                             /\ q.mov_x = IF p.counter = 1 THEN Head(s) ELSE p.mov_x
         /\ p.counter = 2 => /\ q.counter = 0 /\ q.status = p.status
                             /\ q.mov_x = p.mov_x /\ q.mov_y = b
    <2>1. packet \in Packets
      BY <1>4
    <2> QED BY <2>1, <1>19, <1>20, <1>22, PutByteFacts, Zenon
  <1>24. packet' = q
    BY <1>2, <1>17, <1>22, Zenon DEF HandleMouse
  <1>25. CASE p.counter # 2
    <2>1. q.counter # 0
      BY <1>23, <1>25 DEF Packets
    <2>2. UNCHANGED <<manager, given, owed>>
      BY <2>1, <1>2, <1>17, <1>22, Zenon DEF HandleMouse
    <2>3. Reports(q, w, es)
      BY <1>19, <1>21, <1>23, <1>25, ByteOfPacket, ZenonT(30)
    <2>4. IInv'
      BY <2>2, <2>3, <1>4, <1>16, <1>17, <1>20, <1>23, <1>24
    <2> QED BY <2>2, <2>4
  <1>26. CASE p.counter = 2
    <2>1. /\ es # <<>>
          /\ p.status = StatusByte(Head(es)) /\ p.mov_x = Head(es).dx % 256
          /\ b = (-Head(es).dy) % 256
          /\ Reports(q, w, Tail(es))
      <3>1. q.counter = 0
        BY <1>23, <1>26
      <3>2. /\ es # <<>>
            /\ p.status = StatusByte(Head(es)) /\ p.mov_x = Head(es).dx % 256
            /\ Head(s) = (-Head(es).dy) % 256
            /\ Reports(q, Tail(s), Tail(es))
        BY <3>1, <1>19, <1>21, <1>26, WholePacket, ZenonT(60)
      <3> QED BY <3>2, <1>19
    <2>2. Head(es) \in MouseEvents /\ Tail(es) \in Seq(MouseEvents)
      BY <2>1
    <2>3. PICK e \in MouseEvents : e = Head(es)
      BY <2>2
    <2>4. [dx |-> Signed(q.mov_x), dy |-> -Signed(q.mov_y), left |-> GetBit(q.status, 0)] = e
      <3>1. q.status = StatusByte(e) /\ q.mov_x = e.dx % 256 /\ q.mov_y = (-e.dy) % 256
        BY <2>1, <2>3, <1>23, <1>26, Zenon
      <3>2. /\ GetBit(q.status, 0) = e.left
            /\ Signed(q.mov_x) = e.dx /\ -Signed(q.mov_y) = e.dy
        <4>1. /\ GetBit(StatusByte(e), 0) = e.left
              /\ Signed(e.dx % 256) = e.dx /\ -Signed((-e.dy) % 256) = e.dy
          BY SignedBytes, ZenonT(30)
        <4> QED BY <3>1, <4>1
      <3>3. e = [dx |-> e.dx, dy |-> e.dy, left |-> e.left]
        BY DEF MouseEvents
      <3> QED BY <3>2, <3>3, Zenon
    <2>5. q.counter = 0 /\ PutByte(output.byte) = q
      BY <1>17, <1>22, <1>23, <1>26, Zenon
    <2>6. /\ given' = [given EXCEPT !["mouse"] = <<e>>]
          /\ Handled("mouse")
      BY <2>4, <2>5, <1>2, Zenon DEF HandleMouse
    <2>7. owed' = [owed EXCEPT !["mouse"] = Tail(es)]
      BY <2>1, <2>6, <1>20, Zenon DEF Handled
    <2>8. /\ owed' = [d \in Devices |-> owed'[d]] /\ owed'["mouse"] = Tail(es)
          /\ owed'["keyboard"] = owed["keyboard"]
      BY <2>7, <1>4 DEF Devices
    <2>9. given' = [d \in Devices |-> given'[d]]
      BY <2>6, <1>4 DEF Devices
    <2>10. IInv'
      BY <2>1, <2>2, <2>8, <2>9, <1>16, <1>17, <1>23, <1>24, Zenon
    <2>11. Channels!Take("mouse")
      BY <2>1, <2>3, <2>6, <2>7, <1>5, <1>10, <1>20, Zenon DEF Channels!Take
    <2> QED BY <2>10, <2>11
  <1> QED BY <1>25, <1>26

-----------------------------------------------------------------------------
(* The controller. *)

(* What it can have been asked. *)
LEMMA WhatIsAsked ==
  ASSUME Conversation, ~Quiet
  PROVE  \/ pc = 9 /\ Asked("command", 168) /\ config = 101 /\ Nothing
         \/ pc \in {10, 13} /\ Asked("command", 212) /\ config = 69 /\ Nothing
         \/ pc \in {11, 14} /\ input.port = "data" /\ expects = "mouse" /\ config = 69 /\ Nothing
         \/ pc = 17 /\ Asked("command", 32) /\ config = 69 /\ Nothing
         \/ pc = 19 /\ Asked("command", 96) /\ config = 69 /\ answer = 69 /\ Nothing
         \/ LastWord
  BY DEF Conversation, EarlyTalk, LateTalk, Settled

(* The talk goes on, and only the answer to the command for the            *)
(* configuration byte goes straight into the output buffer.                *)
LEMMA AcceptTalks ==
  ASSUME IInv, Accept
  PROVE  /\ Conversation' /\ Quiet'
         /\ UNCHANGED <<pc, status, answer, keyMap, modifiers, packet, manager, given, owed, user>>
         /\ wire' = wire \/ (pc \in {11, 14} /\ wire' = [wire EXCEPT !.mouse = <<Ack>>])
         /\ \/ UNCHANGED <<output, pic>>
            \/ /\ pc = 17 /\ output' = [full |-> TRUE, byte |-> 69]
               /\ pic' = [pic EXCEPT !.requested = @ \cup {Keyboard}]
  <1>1. /\ input.port # "none" /\ input' = [input EXCEPT !.port = "none"]
        /\ UNCHANGED <<boot, status, drivers, owed, user>>
    BY Zenon DEF Accept
  <1>2. UNCHANGED <<pc, status, answer, keyMap, modifiers, packet, manager, given, owed, user>>
    BY <1>1, Zenon DEF boot, drivers
  <1>3. /\ input \in [port : {"none", "command", "data"}, byte : Int]
        /\ wire \in [Devices -> Seq(Bytes)]
    BY Zenon DEF IInv, Typed
  <1>4. Quiet' /\ ~Quiet
    BY <1>1, <1>3 DEF Quiet
  <1> DEFINE command == input.port = "command"
  <1>5. /\ expects' = CASE command /\ input.byte = ToMouse -> "mouse"
                        [] command /\ input.byte = WriteConfig -> "config"
                        [] OTHER -> "keyboard"
        /\ config' = CASE command /\ input.byte = EnableMouse -> SetBit(config, 5, FALSE)
                       [] ~command /\ expects = "config" -> input.byte
                       [] OTHER -> config
    BY Zenon DEF Accept
  <1>6. /\ command /\ input.byte = ReadConfig => Loaded(config, Keyboard)
        /\ ~(command /\ input.byte = ReadConfig) => UNCHANGED <<output, pic>>
        /\ ~command /\ expects = "mouse" => wire' = [wire EXCEPT !.mouse = Append(@, Ack)]
        /\ ~(~command /\ expects = "mouse") => wire' = wire
    BY Zenon DEF Accept
  <1>a. /\ command /\ input.byte = ToMouse => expects' = "mouse"
        /\ command /\ input.byte # ToMouse /\ input.byte = WriteConfig => expects' = "config"
        /\ command /\ input.byte = EnableMouse => config' = SetBit(config, 5, FALSE)
        /\ command /\ input.byte # EnableMouse => config' = config
        /\ ~command /\ expects = "config" => config' = input.byte
        /\ ~command /\ expects # "config" => config' = config
    <2>0. ToMouse # WriteConfig
      BY DEF ToMouse, WriteConfig
    <2>1. CASE input.port = "command"
      <3>1. input.byte = ToMouse => expects' = "mouse"
        BY <1>5, <2>0, <2>1, Zenon DEF command
      <3>2. input.byte # ToMouse /\ input.byte = WriteConfig => expects' = "config"
        BY <1>5, <2>1, Zenon DEF command
      <3>3. input.byte = EnableMouse => config' = SetBit(config, 5, FALSE)
        BY <1>5, <2>1, Zenon DEF command
      <3>4. input.byte # EnableMouse => config' = config
        BY <1>5, <2>1, Zenon DEF command
      <3> QED BY <2>1, <3>1, <3>2, <3>3, <3>4, Zenon DEF command
    <2>2. CASE input.port # "command"
      <3>1. expects = "config" => config' = input.byte
        BY <1>5, <2>2, Zenon DEF command
      <3>2. expects # "config" => config' = config
        BY <1>5, <2>2, Zenon DEF command
      <3> QED BY <2>2, <3>1, <3>2, Zenon DEF command
    <2> QED BY <2>1, <2>2
  <1>b. /\ EnableMouse = 168 /\ ToMouse = 212 /\ ReadConfig = 32 /\ WriteConfig = 96
    BY DEF EnableMouse, ToMouse, ReadConfig, WriteConfig
  <1> HIDE DEF command
  <1>7. CASE pc = 9 /\ Asked("command", 168) /\ config = 101 /\ Nothing
    <2>1. command /\ input.byte = 168
      BY <1>7 DEF Asked, command
    <2>2. config' = 69 /\ UNCHANGED <<output, pic, wire>>
      <3>1. config' = SetBit(101, 5, FALSE)
        BY <2>1, <1>a, <1>b, <1>7
      <3>2. input.byte # ReadConfig
        BY <2>1, <1>b
      <3> QED BY <3>1, <3>2, <2>1, <1>6, ConfigBits, Zenon
    <2>3. pc' = 9 /\ Nothing'
      BY <2>2, <1>2, <1>7 DEF Nothing
    <2> QED BY <2>2, <2>3, <1>2, <1>4 DEF Conversation, EarlyTalk
  <1>8. CASE pc \in {10, 13} /\ Asked("command", 212) /\ config = 69 /\ Nothing
    <2>1. command /\ input.byte = 212
      BY <1>8 DEF Asked, command
    <2>2. config' = 69 /\ expects' = "mouse" /\ UNCHANGED <<output, pic, wire>>
      BY <2>1, <1>a, <1>b, <1>6, <1>8
    <2>3. pc' \in {10, 13} /\ Nothing'
      BY <2>2, <1>2, <1>8 DEF Nothing
    <2> QED BY <2>2, <2>3, <1>2, <1>4 DEF Conversation, EarlyTalk
  <1>9. CASE /\ pc \in {11, 14} /\ input.port = "data" /\ expects = "mouse" /\ config = 69
             /\ Nothing
    <2>1. ~command
      BY <1>9 DEF command
    <2>2. config' = 69 /\ UNCHANGED <<output, pic>> /\ wire' = [wire EXCEPT !.mouse = Append(@, Ack)]
      BY <2>1, <1>a, <1>6, <1>9
    <2>3. wire["mouse"] = <<>> /\ output.full = FALSE
      BY <1>9 DEF Nothing
    <2>4. Append(<<>>, Ack) = <<Ack>>
      OBVIOUS
    <2>5. wire' = [wire EXCEPT !.mouse = <<Ack>>] /\ wire'["mouse"] = <<Ack>>
      BY <2>2, <2>3, <2>4, <1>3 DEF Devices
    <2>6. pc' \in {11, 14} /\ output'.full = FALSE
      BY <2>2, <2>3, <1>2, <1>9
    <2> QED BY <2>2, <2>5, <2>6, <1>2, <1>4, <1>9 DEF Conversation, EarlyTalk
  <1>10. CASE pc = 17 /\ Asked("command", 32) /\ config = 69 /\ Nothing
    <2>1. command /\ input.byte = 32
      BY <1>10 DEF Asked, command
    <2>2. config' = 69 /\ Loaded(69, Keyboard) /\ wire' = wire
      BY <2>1, <1>a, <1>b, <1>6, <1>10
    <2>3. output' = [full |-> TRUE, byte |-> 69] /\ pic' = [pic EXCEPT !.requested = @ \cup {Keyboard}]
      <3>1. Keyboard # Mouse
        BY DEF Keyboard, Mouse
      <3> QED BY <3>1, <2>2, <1>10, ConfigBits DEF Loaded, Request
    <2>4. pc' = 17 /\ wire'["mouse"] = <<>>
      BY <2>2, <1>2, <1>10 DEF Nothing
    <2> QED BY <2>2, <2>3, <2>4, <1>2, <1>4, <1>10 DEF Conversation, LateTalk
  <1>11. CASE pc = 19 /\ Asked("command", 96) /\ config = 69 /\ answer = 69 /\ Nothing
    <2>1. command /\ input.byte = 96
      BY <1>11 DEF Asked, command
    <2>2. config' = 69 /\ expects' = "config" /\ UNCHANGED <<output, pic, wire>>
      BY <2>1, <1>a, <1>b, <1>6, <1>11
    <2>3. pc' = 19 /\ answer' = 69 /\ Nothing'
      BY <2>2, <1>2, <1>11 DEF Nothing
    <2> QED BY <2>2, <2>3, <1>2, <1>4 DEF Conversation, LateTalk
  <1>12. CASE LastWord
    <2>1. ~command /\ input.byte = 71 /\ expects = "config" /\ pc >= 20
      BY <1>12 DEF LastWord, Asked, command
    <2>2. config' = 71 /\ UNCHANGED <<output, pic, wire>>
      BY <2>1, <1>a, <1>6
    <2> QED BY <2>1, <2>2, <1>2, <1>4 DEF Conversation, Settled
  <1>13. Conversation
    BY Zenon DEF IInv
  <1> QED BY <1>4, <1>7, <1>8, <1>9, <1>10, <1>11, <1>12, <1>13, WhatIsAsked, ZenonT(40)

LEMMA AcceptKeeps ==
  ASSUME IInv, Accept
  PROVE  IInv'
  <1>1. /\ Conversation' /\ Quiet'
        /\ UNCHANGED <<pc, status, answer, keyMap, modifiers, packet, manager, given, owed, user>>
        /\ wire' = wire \/ (pc \in {11, 14} /\ wire' = [wire EXCEPT !.mouse = <<Ack>>])
        /\ \/ UNCHANGED <<output, pic>>
           \/ /\ pc = 17 /\ output' = [full |-> TRUE, byte |-> 69]
              /\ pic' = [pic EXCEPT !.requested = @ \cup {Keyboard}]
    BY AcceptTalks, Zenon
  <1>2. /\ pc \in 1 .. 23 /\ pic \in PicType /\ pic.serving = {}
        /\ pic.requested \subseteq {Timer, Keyboard, Mouse}
        /\ output \in [full : BOOLEAN, byte : Bytes]
        /\ input \in [port : {"none", "command", "data"}, byte : Int]
        /\ wire \in [Devices -> Seq(Bytes)]
    BY Zenon DEF IInv, Typed
  <1>3. /\ wire' \in [Devices -> Seq(Bytes)] /\ wire'["keyboard"] = wire["keyboard"]
        /\ pc > 14 => wire'["mouse"] = wire["mouse"]
    <2>1. CASE wire' = wire
      BY <2>1, <1>2
    <2>2. CASE pc \in {11, 14} /\ wire' = [wire EXCEPT !.mouse = <<Ack>>]
      <3>1. <<Ack>> \in Seq(Bytes)
        BY DEF Ack, Bytes
      <3>2. PICK a \in Seq(Bytes) : a = <<Ack>>
        BY <3>1
      <3>3. wire' = [wire EXCEPT !["mouse"] = a] /\ ~(pc > 14)
        BY <3>2, <2>2
      <3>4. "mouse" \in Devices /\ "keyboard" \in Devices /\ "keyboard" # "mouse"
        BY DEF Devices
      <3> QED BY <3>3, <3>4, <1>2
    <2> QED BY <2>1, <2>2, <1>1
  <1>4. /\ output' \in [full : BOOLEAN, byte : Bytes] /\ pic' \in PicType /\ pic'.serving = {}
        /\ pic'.masked = pic.masked /\ pic'.remapped = pic.remapped
        /\ pic'.requested \subseteq {Timer, Keyboard, Mouse}
        /\ pc # 17 => output' = output /\ pic'.requested = pic.requested
        /\ Mouse \in pic'.requested <=> Mouse \in pic.requested
    <2>1. CASE UNCHANGED <<output, pic>>
      BY <2>1, <1>2
    <2>2. CASE /\ pc = 17 /\ output' = [full |-> TRUE, byte |-> 69]
               /\ pic' = [pic EXCEPT !.requested = @ \cup {Keyboard}]
      <3>1. output' \in [full : BOOLEAN, byte : Bytes]
        BY <2>2 DEF Bytes
      <3>2. Keyboard # Mouse /\ Keyboard \in Lines
        BY DEF Keyboard, Mouse, Lines
      <3>3. /\ pic' \in PicType /\ pic'.serving = {}
            /\ pic'.masked = pic.masked /\ pic'.remapped = pic.remapped
            /\ pic'.requested = pic.requested \cup {Keyboard}
        BY <2>2, <3>2, <1>2 DEF PicType
      <3> QED BY <3>1, <3>2, <3>3, <2>2, <1>2
    <2> QED BY <2>1, <2>2, <1>1
  <1>5. input' \in [port : {"none", "command", "data"}, byte : Int]
    BY <1>2 DEF Accept
  <1>6. Typed'
    BY <1>1, <1>2, <1>3, <1>4, <1>5, Zenon DEF IInv, Typed
  <1>7. Progress'
    BY <1>1, <1>4 DEF IInv, Progress
  <1>8. Latches'
    BY <1>1, <1>2, <1>4 DEF IInv, Latches
  <1>9. Waits'
    BY <1>1, <1>2, <1>3 DEF IInv, Waits
  <1>10. KeysArrive'
    <2>1. pc = 17 => ~FromKeyboard /\ ~FromKeyboard'
      BY <1>1 DEF FromKeyboard
    <2>2. pc # 17 => FromKeyboard' = FromKeyboard /\ output' = output
      BY <1>1, <1>4 DEF FromKeyboard
    <2>3. KeyBytes' = KeyBytes
      BY <2>1, <2>2, <1>3 DEF KeyBytes
    <2> QED BY <2>3, <1>1, KeysStay DEF IInv
  <1>11. MovesArrive'
    <2>1. CASE pc > 22
      <3>1. MouseBytes' = MouseBytes
        BY <2>1, <1>2, <1>3, <1>4, SMTT(30) DEF MouseBytes, FromMouse
      <3> QED BY <3>1, <2>1, <1>1, MovesStay DEF IInv
    <2>2. CASE ~(pc > 22)
      BY <2>2, <1>1 DEF MovesArrive
    <2> QED BY <2>1, <2>2
  <1>12. status' = "running"
    BY <1>1 DEF IInv
  <1> QED BY <1>1, <1>6, <1>7, <1>8, <1>9, <1>10, <1>11, <1>12, Zenon DEF IInv

(* A byte of the keyboard moves from its wire into the output buffer. *)
LEMMA LoadKeyboardKeeps ==
  ASSUME IInv, Load("keyboard")
  PROVE  IInv'
  <1>1. /\ wire["keyboard"] # <<>> /\ Loaded(Head(wire["keyboard"]), Keyboard)
        /\ wire' = [wire EXCEPT !["keyboard"] = Tail(@)]
        /\ UNCHANGED <<boot, status, controller, reporting, drivers, owed, user>>
    BY Zenon DEF Load
  <1>2. UNCHANGED <<pc, status, answer, config, input, expects, reporting,
                    keyMap, modifiers, packet, manager, given, owed, user>>
    BY <1>1, Zenon DEF boot, controller, drivers
  <1>3. /\ pc \in 1 .. 23 /\ pic \in PicType /\ pic.serving = {} /\ status = "running"
        /\ pic.requested \subseteq {Timer, Keyboard, Mouse}
        /\ wire \in [Devices -> Seq(Bytes)] /\ output \in [full : BOOLEAN, byte : Bytes]
    BY Zenon DEF IInv, Typed
  <1>4. pc > 20 /\ Quiet
    BY <1>1, <1>3 DEF IInv, Waits
  <1>5. pc \in 21 .. 23
    BY <1>3, <1>4
  <1>6. Settled /\ config = 71
    <2>1. LastWord \/ Settled
      BY <1>5, AtTheEnd
    <2> QED BY <2>1, <1>4 DEF LastWord, Settled, Quiet, Asked
  <1>7. PICK w \in Seq(Bytes) : w = wire["keyboard"] /\ w # <<>>
    BY <1>1, <1>3 DEF Devices
  <1>8. Head(w) \in Bytes /\ Tail(w) \in Seq(Bytes)
    BY <1>7
  <1>9. PICK b \in Bytes : b = Head(w)
    BY <1>8
  <1>a. output.full = FALSE
    <2>1. ~output.full
      BY <1>1, Zenon DEF Loaded
    <2> QED BY <2>1, <1>3
  <1>10. /\ output' = [full |-> TRUE, byte |-> b]
         /\ pic' = [pic EXCEPT !.requested = @ \cup {Keyboard}]
    <2>1. Keyboard # Mouse
      BY DEF Keyboard, Mouse
    <2>2. Loaded(b, Keyboard)
      BY <1>1, <1>7, <1>9
    <2> QED BY <2>1, <2>2, <1>6, ConfigBits DEF Loaded, Request
  <1>11. output' \in [full : BOOLEAN, byte : Bytes] /\ output'.full = TRUE /\ output'.byte = b
    BY <1>10
  <1>12. /\ pic' \in PicType /\ pic'.serving = {}
         /\ pic'.masked = pic.masked /\ pic'.remapped = pic.remapped
         /\ pic'.requested = pic.requested \cup {Keyboard}
         /\ pic'.requested \subseteq {Timer, Keyboard, Mouse}
    <2>1. Keyboard \in Lines
      BY DEF Lines
    <2> QED BY <2>1, <1>3, <1>10 DEF PicType
  <1>13. /\ wire' \in [Devices -> Seq(Bytes)] /\ wire'["keyboard"] = Tail(w)
         /\ wire'["mouse"] = wire["mouse"]
    <2>1. wire' = [wire EXCEPT !["keyboard"] = Tail(w)]
      BY <1>1, <1>7
    <2>2. "mouse" \in Devices /\ "keyboard" \in Devices /\ "keyboard" # "mouse"
      BY DEF Devices
    <2>3. PICK t \in Seq(Bytes) : t = Tail(w)
      BY <1>8
    <2> QED BY <2>1, <2>2, <2>3, <1>3
  <1>14. Typed'
    BY <1>2, <1>11, <1>12, <1>13, Zenon DEF IInv, Typed
  <1>15. Progress'
    BY <1>2, <1>12 DEF IInv, Progress
  <1>16. Conversation' /\ Quiet'
    BY <1>2, <1>4, <1>6 DEF Conversation, Settled, Quiet
  <1>17. Mouse \in pic'.requested <=> Mouse \in pic.requested
    BY <1>12 DEF Keyboard, Mouse
  <1>18. pc > 22 => Mouse \notin pic.requested /\ Keyboard \notin pic.requested
    BY <1>5, <1>a DEF IInv, Latches
  <1>19. Latches'
    <2>1. pc > 21 => Mouse \notin pic.requested
      BY <1>5, <1>a DEF IInv, Latches
    <2>2. Keyboard \in pic'.requested
      BY <1>12
    <2> QED BY <2>1, <2>2, <1>2, <1>5, <1>11, <1>17 DEF IInv, Latches
  <1>20. Waits'
    <2>1. packet.counter = packet'.counter /\ owed'["mouse"] = owed["mouse"]
      BY <1>2
    <2> QED BY <2>1, <1>2, <1>5, <1>13, <1>16 DEF IInv, Waits
  <1>21. KeyBytes' = KeyBytes
    <2>1. KeyBytes = w
      BY <1>7, <1>a DEF KeyBytes, FromKeyboard
    <2>2. FromKeyboard'
      BY <1>2, <1>5, <1>11, <1>12 DEF FromKeyboard
    <2>3. KeyBytes' = <<b>> \o Tail(w)
      BY <2>2, <1>11, <1>13 DEF KeyBytes
    <2>4. <<Head(w)>> \o Tail(w) = w
      BY <1>7, FirstAndRest, Zenon
    <2> QED BY <2>1, <2>3, <2>4, <1>9, Zenon
  <1>22. KeysArrive'
    BY <1>2, <1>21, KeysStay DEF IInv
  <1>23. MovesArrive'
    <2>1. CASE pc > 22
      <3>1. ~FromMouse /\ ~FromMouse'
        BY <2>1, <1>17, <1>18 DEF FromMouse
      <3>2. MouseBytes' = MouseBytes
        BY <3>1, <1>13 DEF MouseBytes
      <3> QED BY <3>2, <2>1, <1>2, MovesStay DEF IInv
    <2>2. CASE ~(pc > 22)
      BY <2>2, <1>2 DEF MovesArrive
    <2> QED BY <2>1, <2>2
  <1>24. status' = "running"
    BY <1>2, <1>3
  <1> QED BY <1>14, <1>15, <1>16, <1>19, <1>20, <1>22, <1>23, <1>24, Zenon DEF IInv

(* A byte of the mouse: its answer during the talk, a movement afterwards. *)
LEMMA LoadMouseKeeps ==
  ASSUME IInv, Load("mouse")
  PROVE  IInv'
  <1>1. /\ wire["mouse"] # <<>> /\ Loaded(Head(wire["mouse"]), Mouse)
        /\ wire' = [wire EXCEPT !["mouse"] = Tail(@)]
        /\ UNCHANGED <<boot, status, controller, reporting, drivers, owed, user>>
    BY Zenon DEF Load
  <1>2. UNCHANGED <<pc, status, answer, config, input, expects, reporting,
                    keyMap, modifiers, packet, manager, given, owed, user>>
    BY <1>1, Zenon DEF boot, controller, drivers
  <1>3. /\ pc \in 1 .. 23 /\ pic \in PicType /\ pic.serving = {} /\ status = "running"
        /\ pic.requested \subseteq {Timer, Keyboard, Mouse}
        /\ wire \in [Devices -> Seq(Bytes)] /\ output \in [full : BOOLEAN, byte : Bytes]
    BY Zenon DEF IInv, Typed
  <1>7. PICK w \in Seq(Bytes) : w = wire["mouse"] /\ w # <<>>
    BY <1>1, <1>3 DEF Devices
  <1>8. Head(w) \in Bytes /\ Tail(w) \in Seq(Bytes)
    BY <1>7
  <1>9. PICK b \in Bytes : b = Head(w)
    BY <1>8
  <1>a. output.full = FALSE
    <2>1. ~output.full
      BY <1>1, Zenon DEF Loaded
    <2> QED BY <2>1, <1>3
  <1>10. output' = [full |-> TRUE, byte |-> b]
    BY <1>1, <1>7, <1>9, Zenon DEF Loaded
  <1>11. output' \in [full : BOOLEAN, byte : Bytes] /\ output'.full = TRUE /\ output'.byte = b
    BY <1>10
  <1>12. /\ pic' = IF GetBit(config, 1) THEN [pic EXCEPT !.requested = @ \cup {Mouse}] ELSE pic
         /\ Mouse # Keyboard /\ Mouse \in Lines
    BY <1>1 DEF Loaded, Request, Lines, Mouse, Keyboard
  <1>13. /\ wire' \in [Devices -> Seq(Bytes)] /\ wire'["mouse"] = Tail(w)
         /\ wire'["keyboard"] = wire["keyboard"]
    <2>1. wire' = [wire EXCEPT !["mouse"] = Tail(w)]
      BY <1>1, <1>7
    <2>2. "mouse" \in Devices /\ "keyboard" \in Devices /\ "keyboard" # "mouse"
      BY DEF Devices
    <2>3. PICK t \in Seq(Bytes) : t = Tail(w)
      BY <1>8
    <2> QED BY <2>1, <2>2, <2>3, <1>3
  <1>14. /\ pic' \in PicType /\ pic'.serving = {}
         /\ pic'.masked = pic.masked /\ pic'.remapped = pic.remapped
         /\ pic'.requested \subseteq {Timer, Keyboard, Mouse}
         /\ Keyboard \in pic'.requested <=> Keyboard \in pic.requested
    <2>1. CASE GetBit(config, 1)
      BY <2>1, <1>3, <1>12 DEF PicType
    <2>2. CASE ~GetBit(config, 1)
      BY <2>2, <1>3, <1>12
    <2> QED BY <2>1, <2>2
  <1>15. Typed'
    BY <1>2, <1>11, <1>13, <1>14, Zenon DEF IInv, Typed
  <1>16. Progress'
    BY <1>2, <1>14 DEF IInv, Progress
  <1>17. CASE ~(pc > 22)
    <2>1. pc < 20
      <3>1. pc \in 1 .. 22
        BY <1>17, <1>3
      <3>2. pc \notin 20 .. 22
        BY <1>1 DEF IInv, Waits
      <3> QED BY <3>1, <3>2
    <2>2. ~Settled /\ ~LastWord
      BY <2>1, <1>3 DEF Settled, LastWord
    <2>3. /\ pc \in {11, 14} /\ Quiet /\ config = 69 /\ wire["mouse"] = <<Ack>>
      BY <2>2, <1>1, <1>a DEF IInv, Conversation, EarlyTalk, LateTalk, Nothing
    <2>4. b = Ack /\ wire'["mouse"] = <<>>
      <3>1. Head(<<Ack>>) = Ack /\ Tail(<<Ack>>) = <<>>
        OBVIOUS
      <3> QED BY <3>1, <2>3, <1>7, <1>9, <1>13
    <2>5. pic' = pic
      BY <2>3, <1>12, ConfigBits
    <2>6. /\ pc' \in {11, 14} /\ Quiet' /\ config' = 69 /\ wire'["mouse"] = <<>>
          /\ output' = [full |-> TRUE, byte |-> Ack]
      BY <2>3, <2>4, <1>2, <1>10 DEF Quiet
    <2>7. Conversation'
      BY <2>6, Zenon DEF Conversation, EarlyTalk
    <2>8. Latches'
      BY <2>3, <2>5, <1>2 DEF IInv, Latches
    <2>9. Waits'
      BY <2>3, <2>6, <1>2, <1>13 DEF IInv, Waits
    <2>10. ~FromKeyboard /\ ~FromKeyboard'
      BY <2>3, <1>2 DEF FromKeyboard
    <2>11. KeysArrive'
      BY <2>10, <1>2, <1>13, KeysStay DEF IInv, KeyBytes
    <2>12. MovesArrive'
      BY <1>17, <1>2 DEF MovesArrive
    <2>13. status' = "running"
      BY <1>2, <1>3
    <2> QED BY <2>7, <2>8, <2>9, <2>11, <2>12, <2>13, <1>15, <1>16, Zenon DEF IInv
  <1>18. CASE pc > 22
    <2>0. pc = 23
      BY <1>18, <1>3, SMTT(30)
    <2>1. Quiet
      BY <2>0, <1>1 DEF IInv, Waits
    <2>2. Settled /\ config = 71
      <3>1. LastWord \/ Settled
        BY <2>0, AtTheEnd
      <3> QED BY <3>1, <2>1 DEF LastWord, Settled, Quiet, Asked
    <2>3. Mouse \in pic'.requested
      BY <2>2, <1>3, <1>12, ConfigBits DEF PicType
    <2>4. Mouse \notin pic.requested /\ Keyboard \notin pic.requested
      BY <2>0, <1>a DEF IInv, Latches
    <2>5. Conversation' /\ Quiet'
      BY <2>1, <2>2, <1>2 DEF Conversation, Settled, Quiet
    <2>6. Latches'
      BY <2>0, <2>3, <2>4, <1>2, <1>11, <1>14 DEF Latches
    <2>7. Waits'
      BY <2>0, <2>5, <1>2 DEF Waits
    <2>8. ~FromKeyboard /\ ~FromKeyboard'
      BY <2>4, <1>14 DEF FromKeyboard
    <2>9. KeysArrive'
      BY <2>8, <1>2, <1>13, KeysStay DEF IInv, KeyBytes
    <2>10. MouseBytes' = MouseBytes
      <3>1. MouseBytes = w
        BY <1>7, <2>4 DEF MouseBytes, FromMouse
      <3>2. FromMouse'
        BY <2>3, <1>11 DEF FromMouse
      <3>3. MouseBytes' = <<b>> \o Tail(w)
        BY <3>2, <1>11, <1>13 DEF MouseBytes
      <3>4. <<Head(w)>> \o Tail(w) = w
        BY <1>7, FirstAndRest, Zenon
      <3> QED BY <3>1, <3>3, <3>4, <1>9, Zenon
    <2>11. MovesArrive'
      BY <2>10, <1>18, <1>2, MovesStay DEF IInv
    <2>12. status' = "running"
      BY <1>2, <1>3
    <2> QED BY <2>5, <2>6, <2>7, <2>9, <2>11, <2>12, <1>15, <1>16, Zenon DEF IInv
  <1> QED BY <1>17, <1>18

-----------------------------------------------------------------------------
(* The user. *)

(* The code that the keyboard sends for a key, behind a prefix or not. *)
KeyCode(k) == Last(MakeCodes[k])

LEMMA MakeOf ==
  ASSUME NEW k \in DOMAIN MakeCodes
  PROVE  /\ KeyCode(k) \in KeyCodes
         /\ MakeCodes[k] = <<KeyCode(k)>> \/ MakeCodes[k] = <<Prefix, KeyCode(k)>>
         /\ k = "a" <=> KeyCode(k) = 30
         /\ k = "one" <=> KeyCode(k) = 2
         /\ k = "caps" <=> KeyCode(k) = 58
         /\ k \in Pair("ctrl") <=> KeyCode(k) = 29
         /\ k \in Pair("shift") <=> KeyCode(k) \in {42, 54}
         /\ k \in Pair("alt") <=> KeyCode(k) = 56
         /\ k # "none"
  <1>1. k \in {"a", "one", "caps", "keypad_enter", "left_shift", "right_shift", "left_ctrl",
              "right_ctrl", "left_alt", "right_alt"}
    BY DEF MakeCodes
  <1>2. /\ MakeCodes["a"] = <<30>> /\ MakeCodes["one"] = <<2>> /\ MakeCodes["caps"] = <<58>>
        /\ MakeCodes["keypad_enter"] = <<Prefix, 28>>
        /\ MakeCodes["left_shift"] = <<42>> /\ MakeCodes["right_shift"] = <<54>>
        /\ MakeCodes["left_ctrl"] = <<29>> /\ MakeCodes["right_ctrl"] = <<Prefix, 29>>
        /\ MakeCodes["left_alt"] = <<56>> /\ MakeCodes["right_alt"] = <<Prefix, 56>>
    BY DEF MakeCodes
  <1>3. \A c : Last(<<c>>) = c /\ Last(<<Prefix, c>>) = c
    BY DEF Last
  <1>4. /\ KeyCode("a") = 30 /\ KeyCode("one") = 2 /\ KeyCode("caps") = 58
        /\ KeyCode("keypad_enter") = 28
        /\ KeyCode("left_shift") = 42 /\ KeyCode("right_shift") = 54
        /\ KeyCode("left_ctrl") = 29 /\ KeyCode("right_ctrl") = 29
        /\ KeyCode("left_alt") = 56 /\ KeyCode("right_alt") = 56
    BY <1>2, <1>3 DEF KeyCode
  <1>5. KeyCode(k) \in KeyCodes
    BY <1>1, <1>4 DEF KeyCodes
  <1>6. MakeCodes[k] = <<KeyCode(k)>> \/ MakeCodes[k] = <<Prefix, KeyCode(k)>>
    BY <1>1, <1>2, <1>4
  <1>7. /\ Pair("ctrl") = {"left_ctrl", "right_ctrl"}
        /\ Pair("shift") = {"left_shift", "right_shift"}
        /\ Pair("alt") = {"left_alt", "right_alt"}
    BY DEF Pair
  <1>8. /\ k = "a" <=> KeyCode(k) = 30
        /\ k = "one" <=> KeyCode(k) = 2
        /\ k = "caps" <=> KeyCode(k) = 58
        /\ k \in Pair("ctrl") <=> KeyCode(k) = 29
        /\ k \in Pair("shift") <=> KeyCode(k) \in {42, 54}
        /\ k \in Pair("alt") <=> KeyCode(k) = 56
    BY <1>1, <1>4, <1>7
  <1> QED BY <1>1, <1>5, <1>6, <1>8

LEMMA BreakOf ==
  ASSUME NEW k, NEW c \in KeyCodes
  PROVE  /\ MakeCodes[k] = <<c>> => BreakCodes(k) = <<c + 128>>
         /\ MakeCodes[k] = <<Prefix, c>> => BreakCodes(k) = <<Prefix, c + 128>>
  <1>1. c \in Nat /\ c # Prefix
    BY DEF KeyCodes, Prefix
  <1>2. ASSUME MakeCodes[k] = <<c>>
        PROVE  BreakCodes(k) = <<c + 128>>
    <2> DEFINE t == BreakCodes(k)
               u == <<c + 128>>
    <2>1. t = [i \in 1 .. 1 |-> c + 128]
      BY <1>1, <1>2 DEF BreakCodes
    <2>2. t \in Seq(Int) /\ Len(t) = 1 /\ t[1] = c + 128
      BY <1>1, <2>1
    <2>3. u \in Seq(Int) /\ Len(u) = 1 /\ u[1] = c + 128
      BY <1>1
    <2> HIDE DEF t, u
    <2>4. \A i \in 1 .. Len(t) : t[i] = u[i]
      BY <2>2, <2>3
    <2>5. t = u
      BY <2>2, <2>3, <2>4, SeqEqual, Zenon
    <2> QED BY <2>5 DEF t, u
  <1>3. ASSUME MakeCodes[k] = <<Prefix, c>>
        PROVE  BreakCodes(k) = <<Prefix, c + 128>>
    <2> DEFINE t == BreakCodes(k)
               u == <<Prefix, c + 128>>
    <2>1. t = [i \in 1 .. 2 |-> IF i = 1 THEN Prefix ELSE c + 128]
      BY <1>1, <1>3 DEF BreakCodes
    <2>0. Prefix \in Int
      BY DEF Prefix
    <2>2. t \in Seq(Int) /\ Len(t) = 2 /\ t[1] = Prefix /\ t[2] = c + 128
      BY <1>1, <2>0, <2>1
    <2>3. u \in Seq(Int) /\ Len(u) = 2 /\ u[1] = Prefix /\ u[2] = c + 128
      BY <1>1, <2>0
    <2> HIDE DEF t, u
    <2>4. \A i \in 1 .. Len(t) : t[i] = u[i]
      BY <2>2, <2>3
    <2>5. t = u
      BY <2>2, <2>3, <2>4, SeqEqual, Zenon
    <2> QED BY <2>5 DEF t, u
  <1> QED BY <1>2, <1>3

(* The codes that are sent are the final byte of what is meant, behind a   *)
(* prefix or not.                                                          *)
LEMMA CodesOfMeant ==
  ASSUME NEW k \in DOMAIN MakeCodes, NEW pressed \in BOOLEAN, NEW codes,
         codes = IF pressed THEN MakeCodes[k] ELSE BreakCodes(k)
  PROVE  codes = <<FinalByte(Meant(k, pressed))>> \/ codes = <<Prefix, FinalByte(Meant(k, pressed))>>
  <1> DEFINE e == Meant(k, pressed)
             c == KeyCode(k)
  <1>1. e.code = c /\ e.pressed = pressed
    BY DEF Meant, KeyCode
  <1>2. c \in KeyCodes /\ (MakeCodes[k] = <<c>> \/ MakeCodes[k] = <<Prefix, c>>)
    BY MakeOf, Zenon
  <1> HIDE DEF e, c
  <1>3. CASE pressed = TRUE
    <2>1. FinalByte(e) = c
      BY <1>1, <1>3 DEF FinalByte
    <2> QED BY <2>1, <1>2, <1>3, Zenon DEF e
  <1>4. CASE pressed = FALSE
    <2>1. FinalByte(e) = c + 128
      BY <1>1, <1>4 DEF FinalByte
    <2>2. BreakCodes(k) = <<c + 128>> \/ BreakCodes(k) = <<Prefix, c + 128>>
      BY <1>2, BreakOf, ZenonT(40)
    <2>3. codes = BreakCodes(k)
      BY <1>4
    <2> QED BY <2>1, <2>2, <2>3, Zenon DEF e
  <1> QED BY <1>3, <1>4

(* The event that a key means is the one that it would be by the flags for *)
(* what is held.                                                           *)
LEMMA MeantByHeld ==
  ASSUME NEW k \in DOMAIN MakeCodes, NEW pressed \in BOOLEAN, user.caps \in BOOLEAN
  PROVE  /\ Meant(k, pressed) \in KeyEvents
         /\ Meant(k, pressed).shifted = ShiftedBy(Held, Meant(k, pressed))
  <1> DEFINE e == Meant(k, pressed)
             h == Held
             c == KeyCode(k)
             sh == LastIsDown("shift")
             cp == user.caps
  <1>0. sh \in BOOLEAN /\ cp \in BOOLEAN
    BY DEF LastIsDown
  <1>1. /\ e.code = c /\ e.pressed = pressed
        /\ e.shifted = (pressed /\ CASE k = "a" -> sh # cp [] k = "one" -> sh [] OTHER -> FALSE)
        /\ e = [code |-> e.code, pressed |-> e.pressed, shifted |-> e.shifted]
    BY DEF Meant, KeyCode
  <1>2. h.shift = sh /\ h.caps = cp
    BY DEF Held
  <1>3. /\ c \in KeyCodes /\ (k = "a" <=> c = 30) /\ (k = "one" <=> c = 2)
    BY MakeOf, Zenon
  <1>4. /\ c \in Letters <=> k = "a"
        /\ c \in Symbols <=> k = "one"
    BY <1>3 DEF KeyCodes, Letters, Symbols
  <1> HIDE DEF e, h, c, sh, cp
  <1>5. ShiftedBy(h, e) = (pressed /\ ((k = "a" /\ sh # cp) \/ (k = "one" /\ sh)))
    BY <1>1, <1>2, <1>4 DEF ShiftedBy
  <1>6. e.shifted = ShiftedBy(h, e) /\ e.shifted \in BOOLEAN
    <2>1. CASE k = "a"
      BY <2>1, <1>0, <1>1, <1>5
    <2>2. CASE k = "one"
      BY <2>2, <1>0, <1>1, <1>5
    <2>3. CASE k # "a" /\ k # "one"
      BY <2>3, <1>0, <1>1, <1>5
    <2> QED BY <2>1, <2>2, <2>3
  <1>7. e \in KeyEvents
    BY <1>1, <1>3, <1>6 DEF KeyEvents
  <1> QED BY <1>6, <1>7 DEF e, h

(* A key that is used changes what is known of its own pair only.          *)
LEMMA LastAfter ==
  ASSUME NEW k \in DOMAIN MakeCodes, NEW pressed \in BOOLEAN, NEW m \in Shared,
         user.last \in Lasts, user'.last = LastUsed(k),
         user'.down = IF pressed THEN user.down \cup {k} ELSE user.down \ {k}
  PROVE  /\ LastIsDown(m)' = IF k \in Pair(m) THEN pressed ELSE LastIsDown(m)
         /\ LastUsed(k)[m] \in Pair(m) \cup {"none"}
  <1>1. user.last[m] \in Pair(m) \cup {"none"}
    BY DEF Lasts
  <1>2. user'.last[m] = IF k \in Pair(m) THEN k ELSE user.last[m]
    BY DEF LastUsed
  <1>3. k # "none"
    BY MakeOf, Zenon
  <1>4. LastIsDown(m)' = (user'.last[m] \in user'.down)
    BY DEF LastIsDown
  <1>5. CASE k \in Pair(m)
    <2>1. user'.last[m] = k
      BY <1>2, <1>5
    <2>2. (k \in user'.down) = pressed
      OBVIOUS
    <2> QED BY <2>1, <2>2, <1>4, <1>5
  <1>6. CASE k \notin Pair(m)
    <2>1. user'.last[m] = user.last[m] /\ user.last[m] # k
      BY <1>1, <1>2, <1>3, <1>6
    <2>2. (user.last[m] \in user'.down) = (user.last[m] \in user.down)
      BY <2>1
    <2> QED BY <2>1, <2>2, <1>1, <1>4, <1>6 DEF LastIsDown
  <1>7. LastUsed(k)[m] \in Pair(m) \cup {"none"}
    BY <1>1, <1>2
  <1> QED BY <1>5, <1>6, <1>7

(* What is held afterwards is what the event makes of the flags for it. *)
LEMMA HeldAfter ==
  ASSUME NEW k \in DOMAIN MakeCodes, NEW pressed \in BOOLEAN, user.caps \in BOOLEAN,
         user.last \in Lasts, user'.last = LastUsed(k),
         user'.down = IF pressed THEN user.down \cup {k} ELSE user.down \ {k},
         user'.caps = IF pressed /\ k = "caps" THEN ~user.caps ELSE user.caps
  PROVE  Held' = FlagsAfter(Held, Meant(k, pressed))
  <1> DEFINE e == Meant(k, pressed)
             h == Held
             c == KeyCode(k)
             ct == LastIsDown("ctrl")
             sh == LastIsDown("shift")
             al == LastIsDown("alt")
             cp == user.caps
             ct2 == LastIsDown("ctrl")'
             sh2 == LastIsDown("shift")'
             al2 == LastIsDown("alt")'
             cp2 == user'.caps
  <1>1. e.code = c /\ e.pressed = pressed
    BY DEF Meant, KeyCode
  <1>2. h.ctrl = ct /\ h.shift = sh /\ h.alt = al /\ h.caps = cp
    BY DEF Held
  <1>3. /\ c \in KeyCodes /\ (k \in Pair("ctrl") <=> c = 29)
        /\ (k \in Pair("shift") <=> c \in {42, 54})
        /\ (k \in Pair("alt") <=> c = 56) /\ (k = "caps" <=> c = 58)
    BY MakeOf, Zenon
  <1>4. /\ k \in Pair("ctrl") <=> c = CtrlCode
        /\ k \in Pair("shift") <=> c \in ShiftCodes
        /\ k \in Pair("alt") <=> c = AltCode
        /\ k = "caps" <=> c = CapsCode
    BY <1>3 DEF KeyCodes, CtrlCode, ShiftCodes, AltCode, CapsCode
  <1>5. ct2 = IF k \in Pair("ctrl") THEN pressed ELSE ct
    <2>1. "ctrl" \in Shared
      BY DEF Shared
    <2> QED BY <2>1, LastAfter, Zenon
  <1>6. sh2 = IF k \in Pair("shift") THEN pressed ELSE sh
    <2>1. "shift" \in Shared
      BY DEF Shared
    <2> QED BY <2>1, LastAfter, Zenon
  <1>7. al2 = IF k \in Pair("alt") THEN pressed ELSE al
    <2>1. "alt" \in Shared
      BY DEF Shared
    <2> QED BY <2>1, LastAfter, Zenon
  <1>8. cp2 = IF k = "caps" /\ pressed THEN ~cp ELSE cp
    OBVIOUS
  <1>9. Held' = [ctrl |-> ct2, shift |-> sh2, alt |-> al2, caps |-> cp2]
    BY DEF Held
  <1> HIDE DEF e, h, c, ct, sh, al, cp, ct2, sh2, al2, cp2
  <1>10. FlagsAfter(h, e) =
           [ctrl |-> IF c = CtrlCode THEN pressed ELSE ct,
            shift |-> IF c \in ShiftCodes THEN pressed ELSE sh,
            alt |-> IF c = AltCode THEN pressed ELSE al,
            caps |-> IF c = CapsCode /\ pressed THEN ~cp ELSE cp]
    BY <1>1, <1>2, Zenon DEF FlagsAfter
  <1>11. /\ ct2 = IF c = CtrlCode THEN pressed ELSE ct
         /\ sh2 = IF c \in ShiftCodes THEN pressed ELSE sh
         /\ al2 = IF c = AltCode THEN pressed ELSE al
         /\ cp2 = IF c = CapsCode /\ pressed THEN ~cp ELSE cp
    BY <1>4, <1>5, <1>6, <1>7, <1>8, Zenon
  <1>12. Held' = FlagsAfter(h, e)
    BY <1>9, <1>10, <1>11, Zenon
  <1> QED BY <1>12 DEF h, e

(* A key goes down, repeats or goes up: its codes are behind the others,   *)
(* its event too.                                                          *)
LEMMA TypingKeeps ==
  ASSUME IInv, Patient, NEW k \in Keys, NEW pressed \in BOOLEAN, NEW codes,
         codes = IF pressed THEN MakeCodes[k] ELSE BreakCodes(k), Typing(k, pressed, codes),
         user' \in Users, user'.last = LastUsed(k),
         user'.down = IF pressed THEN user.down \cup {k} ELSE user.down \ {k},
         user'.caps = IF pressed /\ k = "caps" THEN ~user.caps ELSE user.caps
  PROVE  IInv' /\ Channels!Happen("keyboard")
  <1>1. /\ keyMap /\ ~Polling
        /\ wire' = [wire EXCEPT !["keyboard"] = @ \o codes]
        /\ owed' = [owed EXCEPT !["keyboard"] = Append(@, Meant(k, pressed))]
        /\ UNCHANGED <<boot, status, pic, controller, output, reporting, drivers>>
    BY Zenon DEF Typing
  <1>2. UNCHANGED <<pc, answer, status, pic, config, input, expects, output, reporting,
                    keyMap, modifiers, packet, manager, given>>
    BY <1>1, Zenon DEF boot, controller, drivers
  <1>3. pc > 20 /\ Quiet /\ config = 71
    BY <1>1, WhenTyping
  <1>4. /\ pc \in 1 .. 23 /\ wire \in [Devices -> Seq(Bytes)] /\ output.byte \in Bytes
        /\ owed = [d \in Devices |-> owed[d]] /\ owed["keyboard"] \in Seq(KeyEvents)
        /\ user.caps \in BOOLEAN /\ user.last \in Lasts
        /\ modifiers \in Flags /\ status = "running"
    <2>1. /\ output \in [full : BOOLEAN, byte : Bytes]
          /\ user \in Users
          /\ pc \in 1 .. 23 /\ wire \in [Devices -> Seq(Bytes)] /\ status = "running"
          /\ owed = [d \in Devices |-> owed[d]] /\ owed["keyboard"] \in Seq(KeyEvents)
          /\ modifiers \in Flags
      BY Zenon DEF IInv, Typed
    <2>2. output.byte \in Bytes
      BY <2>1
    <2>3. user.caps \in BOOLEAN /\ user.last \in Lasts
      BY <2>1 DEF Users
    <2> QED BY <2>1, <2>2, <2>3, Zenon
  <1>5. pc \in 21 .. 23
    <2>1. pc \in 1 .. 23 /\ pc > 20
      BY <1>3, <1>4, Zenon
    <2> QED BY <2>1
  <1>6. k \in DOMAIN MakeCodes
    BY InputAssumption
  <1>7. Meant(k, pressed) \in KeyEvents /\ Meant(k, pressed).shifted = ShiftedBy(Held, Meant(k, pressed))
    BY <1>4, <1>6, MeantByHeld, Zenon
  <1>8. PICK e \in KeyEvents : e = Meant(k, pressed)
    BY <1>7
  <1>9. FinalByte(e) \in Bytes /\ Prefix \in Bytes
    BY FinalBytes DEF Prefix, Bytes
  <1>10. PICK f \in Bytes : f = FinalByte(e)
    BY <1>9
  <1>11. codes = <<f>> \/ codes = <<Prefix, f>>
    BY <1>6, <1>8, <1>10, CodesOfMeant, Zenon
  <1>12. PICK w \in Seq(Bytes), es \in Seq(KeyEvents) : w = wire["keyboard"] /\ es = owed["keyboard"]
    BY <1>4 DEF Devices
  <1>13. codes \in Seq(Bytes)
    <2>1. <<f>> \in Seq(Bytes) /\ <<Prefix, f>> \in Seq(Bytes)
      BY <1>9
    <2> QED BY <2>1, <1>11
  <1>14. /\ "keyboard" \in Devices /\ "mouse" \in Devices /\ "keyboard" # "mouse"
         /\ Devices \ {"keyboard"} = {"mouse"}
    BY DEF Devices
  <1>15. /\ wire' \in [Devices -> Seq(Bytes)] /\ wire'["keyboard"] = w \o codes
         /\ wire'["mouse"] = wire["mouse"]
    <2>1. PICK t \in Seq(Bytes) : t = w \o codes
      BY <1>9, <1>13, StillBefore, Zenon
    <2>2. wire' = [wire EXCEPT !["keyboard"] = t]
      BY <2>1, <1>1, <1>12
    <2> QED BY <2>1, <2>2, <1>4, <1>14
  <1>16. /\ owed' = [d \in Devices |-> owed'[d]] /\ owed'["keyboard"] = Append(es, e)
         /\ owed'["mouse"] = owed["mouse"]
    <2>1. PICK es2 : es2 = Append(es, e)
      OBVIOUS
    <2>2. owed' = [owed EXCEPT !["keyboard"] = es2]
      BY <2>1, <1>1, <1>8, <1>12
    <2> QED BY <2>1, <2>2, <1>4, <1>14
  <1>17. Append(es, e) \in Seq(KeyEvents)
    OBVIOUS
  <1>18. Typed'
    BY <1>2, <1>15, <1>16, <1>17, Zenon DEF IInv, Typed
  <1>19. Progress' /\ Latches'
    BY <1>2 DEF IInv, Progress, Latches
  <1>20. Conversation' /\ Quiet'
    BY <1>2, <1>3, <1>5 DEF Conversation, Settled, Quiet
  <1>21. Waits'
    BY <1>2, <1>5, <1>15, <1>16, <1>20, SMTT(30) DEF IInv, Waits
  <1>22. MovesArrive'
    <2>1. MouseBytes' = MouseBytes
      BY <1>2, <1>15 DEF MouseBytes, FromMouse
    <2> QED BY <2>1, <1>2, <1>16 DEF IInv, MovesArrive
  <1>23. PICK s : s = KeyBytes
    OBVIOUS
  <1>24. s \in Seq(Bytes) /\ KeyBytes' = s \o codes
    <2>1. FromKeyboard' = FromKeyboard
      BY <1>2 DEF FromKeyboard
    <2>2. CASE FromKeyboard
      <3>1. PICK b \in Bytes : b = output.byte
        BY <1>4
      <3>2. s = InFront(b, w) /\ KeyBytes' = InFront(b, w \o codes)
        BY <2>1, <2>2, <3>1, <1>2, <1>12, <1>15, <1>23 DEF KeyBytes, InFront
      <3>3. PICK c \in Seq(Bytes) : c = codes
        BY <1>13
      <3>4. InFront(b, w) \in Seq(Bytes) /\ InFront(b, w \o c) = InFront(b, w) \o c
        BY StillInFront, Zenon
      <3> QED BY <3>2, <3>3, <3>4, Zenon
    <2>3. CASE ~FromKeyboard
      BY <2>1, <2>3, <1>12, <1>15, <1>23 DEF KeyBytes
    <2> QED BY <2>2, <2>3
  <1>25. Carries(s, es) /\ Leads(modifiers, es, Held)
    BY <1>12, <1>23, Zenon DEF IInv, KeysArrive
  <1>26. Carries(s \o codes, Append(es, e))
    <2>1. codes = <<FinalByte(e)>> \/ codes = <<Prefix, FinalByte(e)>>
      BY <1>10, <1>11, Zenon
    <2> QED BY <2>1, <1>24, <1>25, MoreTyped, Zenon
  <1>27. Leads(modifiers', Append(es, e), Held')
    <2>1. PICK m : m = modifiers
      OBVIOUS
    <2>2. PICK h : h = Held
      OBVIOUS
    <2>3. Leads(m, Append(es, e), FlagsAfter(h, e))
      <3>1. Leads(m, es, h) /\ e.shifted = ShiftedBy(h, e)
        BY <2>1, <2>2, <1>7, <1>8, <1>25, Zenon
      <3> QED BY <3>1, LeadsMore, Zenon
    <2>4. Held' = FlagsAfter(Held, Meant(k, pressed))
      BY <1>4, <1>6, HeldAfter, Zenon
    <2> QED BY <2>1, <2>2, <2>3, <2>4, <1>2, <1>8
  <1>28. KeysArrive'
    BY <1>16, <1>24, <1>26, <1>27, Zenon DEF KeysArrive
  <1>29. IInv'
    BY <1>2, <1>4, <1>18, <1>19, <1>20, <1>21, <1>22, <1>28 DEF IInv
  <1>30. Channels!Happen("keyboard")
    <2>1. IsPrefix(es, Append(es, e))
      BY DEF IsPrefix
    <2>2. Channels!IsPrefix(es, Append(es, e))
      BY DEF Channels!IsPrefix
    <2>3. \A other \in Devices \ {"keyboard"} : owed'[other] = owed[other]
      BY <1>14, <1>16
    <2>4. UNCHANGED <<given, manager>>
      BY <1>2
    <2> QED BY <2>2, <2>3, <2>4, <1>12, <1>16, Zenon DEF Channels!Happen
  <1> QED BY <1>29, <1>30

(* The user presses or releases a key. *)
Uses(u, d, l, r, c) ==
  [u EXCEPT !.down = d, !.last = l, !.repeats = r, !.keys = @ + 1, !.caps = c]

LEMMA UserTypes ==
  ASSUME NEW u \in Users, NEW d \in SUBSET Keys, NEW l \in Lasts,
         NEW r \in Keys \cup {"none"}, NEW c \in BOOLEAN
  PROVE  /\ Uses(u, d, l, r, c) \in Users
         /\ Uses(u, d, l, r, c).down = d /\ Uses(u, d, l, r, c).last = l
         /\ Uses(u, d, l, r, c).caps = c
  <1>1. PICK n \in Nat : n = u.keys + 1
    BY DEF Users
  <1>2. Uses(u, d, l, r, c) =
          [u EXCEPT !.down = d, !.last = l, !.repeats = r, !.keys = n, !.caps = c]
    BY <1>1 DEF Uses
  <1>3. Uses(u, d, l, r, c) =
          [down |-> d, last |-> l, repeats |-> r, caps |-> c, keys |-> n, moves |-> u.moves]
    BY <1>2 DEF Users
  <1>4. u.moves \in Nat
    BY DEF Users
  <1> QED BY <1>3, <1>4 DEF Users

LEMMA LastTypes ==
  ASSUME NEW k \in DOMAIN MakeCodes, user.last \in Lasts
  PROVE  LastUsed(k) \in Lasts
  <1>1. \A m \in Shared : user.last[m] \in (DOMAIN MakeCodes) \cup {"none"} /\ user.last[m] \in Pair(m) \cup {"none"}
    BY DEF Lasts
  <1> QED BY <1>1 DEF Lasts, LastUsed

LEMMA PressKeeps ==
  ASSUME IInv, Patient, NEW k \in Keys, Press(k)
  PROVE  IInv' /\ Channels!Happen("keyboard")
  <1>1. user \in Users
    BY Zenon DEF IInv, Typed
  <1>2. /\ Typing(k, TRUE, MakeCodes[k])
        /\ user' = [user EXCEPT !.down = @ \cup {k}, !.last = LastUsed(k), !.repeats = k,
                                !.keys = @ + 1, !.caps = IF k = "caps" THEN ~@ ELSE @]
    BY Zenon DEF Press
  <1>3. PICK cap \in BOOLEAN : cap = IF k = "caps" THEN ~user.caps ELSE user.caps
    BY <1>1 DEF Users
  <1>4. PICK l \in Lasts : l = LastUsed(k)
    <2>1. k \in DOMAIN MakeCodes /\ user.last \in Lasts
      BY <1>1, InputAssumption DEF Users
    <2> QED BY <2>1, LastTypes
  <1>5. /\ user' \in Users /\ user'.last = LastUsed(k)
        /\ user'.down = user.down \cup {k} /\ user'.caps = cap
    <2>1. PICK d \in SUBSET Keys : d = user.down \cup {k}
      BY <1>1 DEF Users
    <2>2. PICK u \in Users : u = user
      BY <1>1
    <2>3. user' = Uses(u, d, l, k, cap)
      BY <2>1, <2>2, <1>2, <1>3, <1>4 DEF Uses, Users
    <2>4. k \in Keys \cup {"none"}
      OBVIOUS
    <2>5. /\ Uses(u, d, l, k, cap) \in Users /\ Uses(u, d, l, k, cap).down = d
          /\ Uses(u, d, l, k, cap).last = l /\ Uses(u, d, l, k, cap).caps = cap
      BY <2>4, UserTypes
    <2> QED BY <2>1, <2>3, <2>5, <1>4, Zenon
  <1>6. PICK codes : codes = MakeCodes[k]
    OBVIOUS
  <1>7. PICK pressed \in BOOLEAN : pressed = TRUE
    OBVIOUS
  <1>8. /\ codes = IF pressed THEN MakeCodes[k] ELSE BreakCodes(k)
        /\ Typing(k, pressed, codes)
        /\ user'.down = IF pressed THEN user.down \cup {k} ELSE user.down \ {k}
        /\ user'.caps = IF pressed /\ k = "caps" THEN ~user.caps ELSE user.caps
    BY <1>2, <1>3, <1>5, <1>6, <1>7, Zenon
  <1> QED BY <1>5, <1>8, TypingKeeps, Zenon

LEMMA ReleaseKeeps ==
  ASSUME IInv, Patient, NEW k \in Keys, Release(k)
  PROVE  IInv' /\ Channels!Happen("keyboard")
  <1>1. user \in Users
    BY Zenon DEF IInv, Typed
  <1>2. /\ Typing(k, FALSE, BreakCodes(k))
        /\ user' = [user EXCEPT !.down = @ \ {k}, !.last = LastUsed(k),
                                !.repeats = IF @ = k THEN "none" ELSE @, !.keys = @ + 1]
    BY Zenon DEF Release
  <1>3. PICK l \in Lasts : l = LastUsed(k)
    <2>1. k \in DOMAIN MakeCodes /\ user.last \in Lasts
      BY <1>1, InputAssumption DEF Users
    <2> QED BY <2>1, LastTypes
  <1>4. /\ user' \in Users /\ user'.last = LastUsed(k)
        /\ user'.down = user.down \ {k} /\ user'.caps = user.caps
    <2>1. PICK d \in SUBSET Keys, c \in BOOLEAN : d = user.down \ {k} /\ c = user.caps
      BY <1>1 DEF Users
    <2>2. PICK r \in Keys \cup {"none"} : r = IF user.repeats = k THEN "none" ELSE user.repeats
      BY <1>1 DEF Users
    <2>3. PICK u \in Users : u = user
      BY <1>1
    <2>4. user' = Uses(u, d, l, r, c)
      BY <2>1, <2>2, <2>3, <1>2, <1>3 DEF Uses, Users
    <2>5. /\ Uses(u, d, l, r, c) \in Users /\ Uses(u, d, l, r, c).down = d
          /\ Uses(u, d, l, r, c).last = l /\ Uses(u, d, l, r, c).caps = c
      BY UserTypes
    <2> QED BY <2>1, <2>4, <2>5, <1>3, Zenon
  <1>5. PICK codes : codes = BreakCodes(k)
    OBVIOUS
  <1>6. PICK pressed \in BOOLEAN : pressed = FALSE
    OBVIOUS
  <1>7. /\ codes = IF pressed THEN MakeCodes[k] ELSE BreakCodes(k)
        /\ Typing(k, pressed, codes)
        /\ user'.down = IF pressed THEN user.down \cup {k} ELSE user.down \ {k}
        /\ user'.caps = IF pressed /\ k = "caps" THEN ~user.caps ELSE user.caps
    BY <1>2, <1>4, <1>5, <1>6, Zenon
  <1> QED BY <1>4, <1>7, TypingKeeps, Zenon

(* The mouse is moved: its packet is behind the others, the movement too. *)
LEMMA MoveMouseKeeps ==
  ASSUME IInv, Patient, NEW m \in Moves, MoveMouse(m)
  PROVE  IInv' /\ Channels!Happen("mouse")
  <1> DEFINE e == [dx |-> m.dx, dy |-> -m.dy, left |-> m.left]
             codes == <<8 + (IF m.left THEN 1 ELSE 0), m.dx % 256, m.dy % 256>>
  <1>1. /\ manager /\ ~Polling
        /\ wire' = [wire EXCEPT !["mouse"] = @ \o codes]
        /\ owed' = [owed EXCEPT !["mouse"] = Append(@, e)]
        /\ user' = [user EXCEPT !.moves = @ + 1]
        /\ UNCHANGED <<boot, status, pic, controller, output, reporting, drivers>>
    BY Zenon DEF MoveMouse
  <1>2. UNCHANGED <<pc, answer, status, pic, config, input, expects, output, reporting,
                    keyMap, modifiers, packet, manager, given>>
    BY <1>1, Zenon DEF boot, controller, drivers
  <1>3. e \in MouseEvents /\ e.dx = m.dx /\ -e.dy = m.dy /\ e.left = m.left
    <2>1. m \in [dx : -128 .. 127, dy : -128 .. 127, left : BOOLEAN]
      BY InputAssumption
    <2> QED BY <2>1 DEF MouseEvents
  <1>4. codes = PacketOf(e)
    BY <1>3 DEF PacketOf, StatusByte
  <1> HIDE DEF codes, e
  <1>5. /\ StatusByte(e) \in Bytes /\ e.dx % 256 \in Bytes /\ (-e.dy) % 256 \in Bytes
    BY <1>3, SignedBytes
  <1>6. PICK v \in MouseEvents : v = e
    BY <1>3
  <1>7. PICK cs \in Seq(Bytes) : cs = codes
    <2>1. codes \in Seq(Bytes)
      BY <1>4, <1>5 DEF PacketOf
    <2> QED BY <2>1
  <1>8. /\ pc \in 1 .. 23 /\ wire \in [Devices -> Seq(Bytes)] /\ output.byte \in Bytes
        /\ owed = [d \in Devices |-> owed[d]] /\ owed["mouse"] \in Seq(MouseEvents)
        /\ packet \in Packets /\ status = "running"
        /\ user \in Users
    <2>1. output \in [full : BOOLEAN, byte : Bytes]
      BY Zenon DEF IInv, Typed
    <2>2. output.byte \in Bytes
      BY <2>1
    <2> QED BY <2>2, Zenon DEF IInv, Typed
  <1>9. pc = 23 /\ Quiet /\ config = 71
    <2>1. (pc <= 22 => manager = FALSE) /\ (pc <= 6 => keyMap = FALSE) /\ (pc > 6 => keyMap = TRUE)
      BY Zenon DEF IInv, Progress
    <2>2. pc = 23
      <3>1. ~(pc <= 22)
        BY <2>1, <1>1, Zenon
      <3>2. pc \in 1 .. 23
        BY Zenon DEF IInv, Typed
      <3> QED BY <3>1, <3>2
    <2>3. keyMap
      BY <2>1, <2>2
    <2> QED BY <2>2, <2>3, <1>1, WhenTyping, Zenon
  <1>10. PICK w \in Seq(Bytes), es \in Seq(MouseEvents) : w = wire["mouse"] /\ es = owed["mouse"]
    BY <1>8 DEF Devices
  <1>11. /\ "keyboard" \in Devices /\ "mouse" \in Devices /\ "keyboard" # "mouse"
         /\ Devices \ {"mouse"} = {"keyboard"}
    BY DEF Devices
  <1>12. w \o cs \in Seq(Bytes)
    OBVIOUS
  <1>13. /\ wire' \in [Devices -> Seq(Bytes)] /\ wire'["mouse"] = w \o cs
         /\ wire'["keyboard"] = wire["keyboard"]
    <2>1. PICK t \in Seq(Bytes) : t = w \o cs
      BY <1>12
    <2>2. wire' = [wire EXCEPT !["mouse"] = t]
      BY <2>1, <1>1, <1>7, <1>10
    <2> QED BY <2>1, <2>2, <1>8, <1>11
  <1>14. /\ owed' = [d \in Devices |-> owed'[d]] /\ owed'["mouse"] = Append(es, v)
         /\ owed'["keyboard"] = owed["keyboard"]
    <2>1. PICK es2 : es2 = Append(es, v)
      OBVIOUS
    <2>2. owed' = [owed EXCEPT !["mouse"] = es2]
      BY <2>1, <1>1, <1>6, <1>10
    <2> QED BY <2>1, <2>2, <1>8, <1>11
  <1>15. Append(es, v) \in Seq(MouseEvents)
    OBVIOUS
  <1>16. /\ user' \in Users
         /\ user'.down = user.down /\ user'.last = user.last /\ user'.caps = user.caps
    <2>1. PICK n \in Nat : n = user.moves + 1
      BY <1>8 DEF Users
    <2>2. user' = [user EXCEPT !.moves = n]
      BY <2>1, <1>1
    <2> QED BY <2>2, <1>8 DEF Users
  <1>17. Typed'
    BY <1>2, <1>13, <1>14, <1>15, <1>16, Zenon DEF IInv, Typed
  <1>18. Progress' /\ Latches'
    BY <1>2 DEF IInv, Progress, Latches
  <1>19. Conversation' /\ Quiet'
    BY <1>2, <1>9 DEF Conversation, Settled, Quiet
  <1>20. Waits'
    BY <1>2, <1>9, <1>13, <1>14, <1>19 DEF IInv, Waits
  <1>21. KeysArrive'
    <2>1. KeyBytes' = KeyBytes
      BY <1>2, <1>13 DEF KeyBytes, FromKeyboard
    <2> QED BY <2>1, <1>2, <1>14, <1>16, KeysStay, Zenon DEF IInv
  <1>22. PICK s : s = MouseBytes
    OBVIOUS
  <1>23. s \in Seq(Bytes) /\ MouseBytes' = s \o cs
    <2>1. FromMouse' = FromMouse
      BY <1>2 DEF FromMouse
    <2>2. CASE FromMouse
      <3>1. PICK b \in Bytes : b = output.byte
        BY <1>8
      <3>2. s = InFront(b, w) /\ MouseBytes' = InFront(b, w \o cs)
        BY <2>1, <2>2, <3>1, <1>2, <1>10, <1>13, <1>22 DEF MouseBytes, InFront
      <3>3. InFront(b, w) \in Seq(Bytes) /\ InFront(b, w \o cs) = InFront(b, w) \o cs
        BY StillInFront, Zenon
      <3> QED BY <3>2, <3>3, Zenon
    <2>3. CASE ~FromMouse
      BY <2>1, <2>3, <1>10, <1>13, <1>22 DEF MouseBytes
    <2> QED BY <2>2, <2>3
  <1>24. PICK p \in Packets : p = packet
    BY <1>8
  <1>25. Reports(p, s \o cs, Append(es, v))
    <2>1. Reports(p, s, es)
      BY <1>8, <1>9, <1>10, <1>22, <1>24 DEF IInv, MovesArrive
    <2>2. cs = PacketOf(v)
      BY <1>4, <1>6, <1>7, Zenon
    <2>3. Reports(p, s \o PacketOf(v), Append(es, v))
      BY <2>1, <1>23, MoreReports, Zenon
    <2> QED BY <2>2, <2>3, Zenon
  <1>26. MovesArrive'
    BY <1>2, <1>14, <1>23, <1>24, <1>25, Zenon DEF MovesArrive
  <1>27. IInv'
    BY <1>2, <1>8, <1>17, <1>18, <1>19, <1>20, <1>21, <1>26 DEF IInv
  <1>28. Channels!Happen("mouse")
    <2>1. Channels!IsPrefix(es, Append(es, v))
      BY DEF Channels!IsPrefix
    <2>2. \A other \in Devices \ {"mouse"} : owed'[other] = owed[other]
      BY <1>11, <1>14
    <2>3. UNCHANGED <<given, manager>>
      BY <1>2
    <2> QED BY <2>1, <2>2, <2>3, <1>10, <1>14, Zenon DEF Channels!Happen
  <1> QED BY <1>27, <1>28

-----------------------------------------------------------------------------
(* The theorems. *)

LEMMA InitIInv == Init => IInv
  <1> SUFFICES ASSUME Init
               PROVE  IInv
    OBVIOUS
  <1>1. /\ pc = 1 /\ status = "running" /\ answer = 0 /\ pic = BootPic
        /\ config = 101 /\ input = [port |-> "none", byte |-> 0] /\ expects = "keyboard"
        /\ output = [full |-> FALSE, byte |-> 0]
        /\ wire = [d \in Devices |-> <<>>]
        /\ keyMap = FALSE /\ manager = FALSE
        /\ modifiers = [ctrl |-> FALSE, shift |-> FALSE, alt |-> FALSE, caps |-> FALSE]
        /\ packet = [status |-> 0, mov_x |-> 0, mov_y |-> 0, counter |-> 0]
        /\ given = [d \in Devices |-> <<>>] /\ owed = [d \in Devices |-> <<>>]
        /\ user = [down |-> {}, last |-> [m \in Shared |-> "none"], repeats |-> "none",
                   caps |-> FALSE, keys |-> 0, moves |-> 0]
    BY Zenon DEF Init
  <1>2. /\ wire["keyboard"] = <<>> /\ wire["mouse"] = <<>>
        /\ owed["keyboard"] = <<>> /\ owed["mouse"] = <<>>
        /\ wire \in [Devices -> Seq(Bytes)]
        /\ given = [d \in Devices |-> given[d]] /\ owed = [d \in Devices |-> owed[d]]
    BY <1>1 DEF Devices
  <1>3. /\ pic \in PicType /\ pic.serving = {} /\ pic.requested = {} /\ pic.masked = Lines
    BY <1>1 DEF BootPic, BootMasked, PicType
  <1>4. packet \in Packets /\ modifiers \in Flags
    BY <1>1 DEF Packets, Flags, Bytes
  <1>5. /\ output \in [full : BOOLEAN, byte : Bytes]
        /\ input \in [port : {"none", "command", "data"}, byte : Int]
        /\ user \in Users
    <2>1. [m \in Shared |-> "none"] \in Lasts
      BY DEF Lasts
    <2> QED BY <2>1, <1>1 DEF Bytes, Users
  <1>6. Typed
    <2>1. pc \in 1 .. 23 /\ pic.requested \subseteq {Timer, Keyboard, Mouse}
      BY <1>1, <1>3
    <2>2. owed["keyboard"] \in Seq(KeyEvents) /\ owed["mouse"] \in Seq(MouseEvents)
      BY <1>2
    <2> QED BY <2>1, <2>2, <1>2, <1>3, <1>4, <1>5, Zenon DEF Typed
  <1>7. Progress
    BY <1>1, <1>3 DEF Progress
  <1>8. Conversation
    BY <1>1, <1>2 DEF Conversation, EarlyTalk, Quiet, Nothing
  <1>9. Latches
    BY <1>1, <1>3 DEF Latches
  <1>10. Waits
    BY <1>1, <1>2 DEF Waits
  <1>11. KeysArrive
    <2>1. KeyBytes = <<>>
      BY <1>1, <1>2 DEF KeyBytes, FromKeyboard
    <2>2. PICK m \in Flags : m = modifiers
      BY <1>4
    <2>3. Held = m
      <3>1. user.down = {} /\ user.caps = FALSE
        BY <1>1
      <3>2. \A x : LastIsDown(x) = FALSE
        BY <3>1 DEF LastIsDown
      <3> QED BY <3>1, <3>2, <2>2, <1>1, Zenon DEF Held
    <2> QED BY <2>1, <2>2, <2>3, <1>2, CarriesNothing, LeadsNowhere, Zenon DEF KeysArrive
  <1>12. MovesArrive
    BY <1>1 DEF MovesArrive
  <1> QED BY <1>1, <1>6, <1>7, <1>8, <1>9, <1>10, <1>11, <1>12, Zenon DEF IInv

(* A step keeps the invariant, and it is a step of the channels or none. *)
LEMMA BootKeeps ==
  ASSUME IInv, Boot
  PROVE  IInv' /\ (Channels!Open \/ UNCHANGED <<manager, given, owed>>)
  <1>1. CASE BootPicStep
    <2>1. UNCHANGED <<manager, given, owed>>
      BY <1>1, Zenon DEF BootPicStep, drivers
    <2> QED BY <1>1, <2>1, BootPicKeeps, Zenon
  <1>2. CASE BootFillKeyMap
    <2>1. UNCHANGED <<manager, given, owed>>
      BY <1>2, Zenon DEF BootFillKeyMap
    <2> QED BY <1>2, <2>1, BootFillKeyMapKeeps, Zenon
  <1>3. CASE BootBuildManager
    <2>1. Channels!Open
      BY <1>3, Zenon DEF BootBuildManager, Channels!Open
    <2> QED BY <1>3, <2>1, BootBuildManagerKeeps, Zenon
  <1>4. CASE BootWrite
    <2>1. UNCHANGED <<manager, given, owed>>
      BY <1>4, Zenon DEF BootWrite, drivers
    <2> QED BY <1>4, <2>1, BootWriteKeeps, Zenon
  <1>5. CASE BootRead
    <2>1. UNCHANGED <<manager, given, owed>>
      BY <1>5, Zenon DEF BootRead, drivers
    <2> QED BY <1>5, <2>1, BootReadKeeps, Zenon
  <1> QED BY <1>1, <1>2, <1>3, <1>4, <1>5, Zenon DEF Boot

LEMMA StepKeeps ==
  ASSUME IInv, Patient, [Next]_vars
  PROVE  IInv' /\ [Channels!Next]_(Channels!vars)
  <1>1. /\ "keyboard" \in Devices /\ "mouse" \in Devices
        /\ \A d \in Devices : d = "keyboard" \/ d = "mouse"
    BY DEF Devices
  <1>2. /\ Channels!Open => Channels!Next
        /\ Channels!Take("keyboard") => Channels!Next
        /\ Channels!Take("mouse") => Channels!Next
        /\ Channels!Happen("keyboard") => Channels!Next
        /\ Channels!Happen("mouse") => Channels!Next
    BY <1>1, Zenon DEF Channels!Next
  <1>3. UNCHANGED <<manager, given, owed>> => UNCHANGED Channels!vars
    BY DEF Channels!vars
  <1>4. CASE Boot
    BY <1>2, <1>3, <1>4, BootKeeps, Zenon
  <1>5. ASSUME NEW line \in Lines, Interrupt(line)
        PROVE  IInv' /\ [Channels!Next]_(Channels!vars)
    <2>1. line \in {Timer, Keyboard, Mouse}
      BY <1>5, InterruptFacts, Zenon
    <2>2. CASE line = Timer
      BY <2>2, <1>3, <1>5, TimerKeeps, Zenon
    <2>3. CASE line = Keyboard
      BY <2>3, <1>2, <1>3, <1>5, KeyboardKeeps, Zenon
    <2>4. CASE line = Mouse
      BY <2>4, <1>2, <1>3, <1>5, MouseKeeps, Zenon
    <2> QED BY <2>1, <2>2, <2>3, <2>4
  <1>6. CASE Accept
    <2>1. UNCHANGED <<manager, given, owed>>
      BY <1>6, Zenon DEF Accept, drivers
    <2> QED BY <2>1, <1>3, <1>6, AcceptKeeps, Zenon
  <1>7. CASE Tick
    <2>1. UNCHANGED <<manager, given, owed>>
      BY <1>7, Zenon DEF Tick, drivers
    <2> QED BY <2>1, <1>3, <1>7, TickKeeps, Zenon
  <1>8. ASSUME NEW d \in Devices, Load(d)
        PROVE  IInv' /\ [Channels!Next]_(Channels!vars)
    <2>1. UNCHANGED <<manager, given, owed>>
      BY <1>8, Zenon DEF Load, drivers
    <2>2. IInv'
      BY <1>1, <1>8, LoadKeyboardKeeps, LoadMouseKeeps, Zenon
    <2> QED BY <2>1, <2>2, <1>3, Zenon
  <1>9. ASSUME NEW k \in Keys, Press(k) \/ Release(k)
        PROVE  IInv' /\ [Channels!Next]_(Channels!vars)
    BY <1>2, <1>9, PressKeeps, ReleaseKeeps, Zenon
  <1>10. ASSUME NEW m \in Moves, MoveMouse(m)
         PROVE  IInv' /\ [Channels!Next]_(Channels!vars)
    BY <1>2, <1>10, MoveMouseKeeps, Zenon
  <1>11. CASE UNCHANGED vars
    <2>1. UNCHANGED <<pc, answer, status, pic, config, input, expects, output, wire, reporting,
                      keyMap, modifiers, packet, manager, given, owed, user>>
      BY <1>11, Zenon DEF vars, boot, controller, drivers
    <2>2. Typed' /\ Progress' /\ Conversation' /\ Latches' /\ Waits'
      <3>1. Typed'
        BY <2>1, Zenon DEF IInv, Typed
      <3>2. Progress' /\ Latches' /\ Waits'
        BY <2>1 DEF IInv, Progress, Latches, Waits, Quiet
      <3>3. Conversation'
        BY <2>1 DEF IInv, Conversation, EarlyTalk, LateTalk, LastWord, Settled, Asked, Quiet,
                    Nothing
      <3> QED BY <3>1, <3>2, <3>3
    <2>3. KeysArrive' /\ MovesArrive'
      <3>1. KeyBytes' = KeyBytes /\ MouseBytes' = MouseBytes /\ Held' = Held
        BY <2>1 DEF KeyBytes, MouseBytes, FromKeyboard, FromMouse, Held, LastIsDown
      <3> QED BY <2>1, <3>1 DEF IInv, KeysArrive, MovesArrive
    <2>4. UNCHANGED <<manager, given, owed>> /\ status' = status
      BY <2>1
    <2> QED BY <2>2, <2>3, <2>4, <1>3, Zenon DEF IInv
  <1> QED BY <1>4, <1>5, <1>6, <1>7, <1>8, <1>9, <1>10, <1>11, Zenon DEF Next

(* The invariant holds as long as nobody types or moves the mouse while    *)
(* the boot polls.                                                         *)
THEOREM Invariance ==
  ASSUME Patient
  PROVE  Spec => []IInv
  <1>1. IInv /\ [Next]_vars => IInv'
    BY StepKeeps, Zenon
  <1> QED BY <1>1, InitIInv, PTL DEF Spec

(* No answer of the mouse or of the controller is missing, and none is     *)
(* taken for another one: none of the polls of init_mouse panics, and no   *)
(* interrupt comes before the controllers are remapped, at which           *)
(* kernel_interrupt_handler would halt.                                    *)
THEOREM BootNeverPanics ==
  ASSUME Patient
  PROVE  Spec => [](status = "running")
  <1>1. IInv => status = "running"
    BY Zenon DEF IInv
  <1> QED BY <1>1, Invariance, PTL

(* For both keys of each pair: when every code was handled, a flag of      *)
(* keyboard.cpp is on exactly if the key of its pair that was used last is *)
(* held, whichever of the two, and caps follows its key and its repeats.   *)
THEOREM FlagsFollowKeys ==
  ASSUME Patient
  PROVE  Spec => []ModifiersFollowKeys
  <1>1. ASSUME IInv, owed["keyboard"] = <<>>
        PROVE  modifiers = Held
    <2>1. Leads(modifiers, <<>>, Held)
      BY <1>1, Zenon DEF IInv, KeysArrive
    <2>2. PICK m, h : m = modifiers /\ h = Held
      OBVIOUS
    <2>3. m = h
      BY <2>1, <2>2, LeadsNothingLeft
    <2> QED BY <2>2, <2>3
  <1>2. IInv => ModifiersFollowKeys
    BY <1>1 DEF ModifiersFollowKeys, Held
  <1> QED BY <1>2, Invariance, PTL

(* Every key and every movement reaches the window manager once, in the    *)
(* order of its device and as what the user meant by it, with the prefixes *)
(* passed over, the packets put together from their bytes and the manager  *)
(* built in between.                                                       *)
THEOREM EventsArriveInOrder ==
  ASSUME Patient
  PROVE  Spec => ImplementsEventChannels
  <1>1. Init => Channels!Init
    BY DEF Init, Channels!Init
  <1>2. IInv /\ [Next]_vars => [Channels!Next]_(Channels!vars)
    BY StepKeeps, Zenon
  <1> QED BY <1>1, <1>2, Invariance, PTL DEF Spec, ImplementsEventChannels, Channels!Spec
=============================================================================
