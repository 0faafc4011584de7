--------------------------- MODULE SchedulerProofs --------------------------
(***************************************************************************)
(* The scheduler keeps its types and every program's registers, for every  *)
(* set of processes, and its array and index implement the round-robin     *)
(* queue. Then the vectors of shared pointers: every counter is exact, and *)
(* their calls are those on plain lists.                                   *)
(*                                                                         *)
(* The argument for the scheduler: a process is in the array at most once  *)
(* and its record is written only when it gives up the CPU, so the record  *)
(* of a process that waits is what it left there. The kernel process never *)
(* dies, so whoever dies leaves somebody to go on with.                    *)
(*                                                                         *)
(* The argument for the vectors: what a call copies and destroys, in its   *)
(* order, is a way from one placing of the pointers to another on which    *)
(* each use puts a copy at an empty place or takes one away, so each step  *)
(* of a counter is a step of the number of places; a move changes the      *)
(* places and neither the counters nor the numbers. The objects alive are  *)
(* then those that some place holds, and what is left to show of a call is *)
(* what it leaves in the first slots.                                      *)
(***************************************************************************)
EXTENDS Scheduler, PointerVectors, DataFacts, FiniteSetTheorems

AllPlaces == UNION {Places(p) : p \in Ids}

(* Where each program really is, as a function; one that does not exist    *)
(* yet is at its entry.                                                    *)
ProgressInv ==
  /\ progress \in [Ids -> AllPlaces]
  /\ \A p \in Ids \ created : progress[p] = Entry(p)

(* Nobody is in the array twice, and only who was created is in it.        *)
ArrayInv ==
  /\ \A i, j \in 1 .. Len(procs) : procs[i].id = procs[j].id => i = j
  /\ \A i \in 1 .. Len(procs) : procs[i].id \in created

(* Until the scheduler starts the CPU boots and init's own processes come  *)
(* in order; from the first push on the kernel process is there.           *)
PhaseInv ==
  /\ status \in {"push_kernel", "push_first", "start"} => cpu.id = "boot"
  /\ status = "running" => cpu.id # "boot"
  /\ cpu.id = "boot" => active = 0
  /\ cpu.id # "boot" => active < Len(procs)
  /\ status = "push_kernel" => Kernel \notin created
  /\ status \in {"push_kernel", "push_first"} => First \notin created
  /\ status \in {"push_first", "start", "running"} =>
       \E i \in 1 .. Len(procs) : procs[i].id = Kernel

(* Before the start every record holds where its program is.               *)
BootInv ==
  cpu.id = "boot" => \A i \in 1 .. Len(procs) : procs[i].state = progress[procs[i].id]

IInv ==
  /\ TypeOK
  /\ ProgressInv
  /\ ArrayInv
  /\ PhaseInv
  /\ BootInv
  /\ ContextsPreserved

-----------------------------------------------------------------------------
(* Records, and what the actions do to the array. *)

LEMMA PlacesFacts ==
  /\ Entry(Kernel) \in Places(Kernel)
  /\ \A p \in Ids : Entry(p) \in Places(p) /\ Places(p) \subseteq AllPlaces
  /\ \A p \in Users : p # Kernel /\ p \in Ids /\ UserPlaces \subseteq Places(p)
  /\ Kernel \in Ids /\ First \in Ids /\ First # Kernel /\ First \notin Typed
  /\ "boot" \notin Ids
  BY ProcessAssumption DEF Ids, Users, Entry, Places, AllPlaces

LEMMA RecordFacts ==
  /\ \A r \in ProcessType : /\ r.id \in Ids /\ r.state \in Places(r.id)
                            /\ r = [id |-> r.id, state |-> r.state]
  /\ \A p \in Ids : \A s \in Places(p) :
       /\ [id |-> p, state |-> s] \in ProcessType
       /\ [id |-> p, state |-> s].id = p
       /\ [id |-> p, state |-> s].state = s
  BY DEF ProcessType

(* A saved record keeps its process.                                       *)
LEMMA SaveFacts ==
  ASSUME NEW r \in ProcessType, NEW s \in Places(r.id)
  PROVE  /\ [r EXCEPT !.state = s] \in ProcessType
         /\ [r EXCEPT !.state = s] = [id |-> r.id, state |-> s]
  BY RecordFacts DEF ProcessType

(* r is s, of length n, without element k; t is s with e put at place k.   *)
IsRemoved(r, S, s, n, k) ==
  /\ r \in Seq(S) /\ Len(r) = n - 1
  /\ \A i \in 1 .. n - 1 : r[i] = s[IF i < k THEN i ELSE i + 1]
IsInserted(t, S, s, n, k, e) ==
  /\ t \in Seq(S) /\ Len(t) = n + 1
  /\ \A i \in 1 .. n + 1 :
       t[i] = IF i < k THEN s[i] ELSE IF i = k THEN e ELSE s[i - 1]

LEMMA RemoveAtFacts ==
  ASSUME NEW S, NEW s \in Seq(S), NEW n, Len(s) = n, NEW k \in 1 .. n
  PROVE  IsRemoved(RemoveAt(s, k), S, s, n, k)
  <1> DEFINE h == k - 1
             x == SubSeq(s, 1, h)
             y == SubSeq(s, k + 1, n)
             z == x \o y
  <1>1. n \in Nat
    BY LenProperties, Zenon
  <1>2. h \in 0 .. n /\ k \in 0 .. n /\ k \in Nat /\ h \in Nat
    BY <1>1
  <1>3. h + (n - k) = n - 1 /\ h + 1 = k
    BY <1>1
  <1>4. RemoveAt(s, k) = z
    BY DEF RemoveAt
  <1> HIDE DEF h
  <1>5. x \in Seq(S) /\ Len(x) = h /\ \A i \in 1 .. h : x[i] = s[i]
    <2>1. FirstPart(x, S, s, h)
      BY <1>2, PrefixFacts, Zenon
    <2> QED  BY <2>1, Zenon DEF FirstPart
  <1>6. y \in Seq(S) /\ Len(y) = n - k /\ \A i \in 1 .. n - k : y[i] = s[i + k]
    <2>1. RestOf(y, S, s, n, k)
      BY <1>2, SuffixFacts, Zenon
    <2> QED  BY <2>1, Zenon DEF RestOf
  <1> HIDE DEF x, y
  <1>7. /\ z \in Seq(S) /\ Len(z) = h + (n - k)
        /\ \A i \in 1 .. h : z[i] = x[i]
        /\ \A i \in h + 1 .. h + (n - k) : z[i] = y[i - h]
    <2>1. Joined(z, S, x, h, y, n - k)
      BY <1>5, <1>6, ConcatFacts, Zenon
    <2> QED  BY <2>1, Zenon DEF Joined
  <1> HIDE DEF z
  <1>8. ASSUME NEW i \in 1 .. n - 1
        PROVE  z[i] = s[IF i < k THEN i ELSE i + 1]
    <2>1. CASE i < k
      <3>1. i \in 1 .. h
        BY <1>1, <1>2, <1>3, <2>1
      <3> QED  BY <1>5, <1>7, <2>1, <3>1, Zenon
    <2>2. CASE ~(i < k)
      <3>1. i \in h + 1 .. h + (n - k) /\ i - h \in 1 .. n - k /\ (i - h) + k = i + 1
        BY <1>1, <1>2, <1>3, <2>2
      <3> QED  BY <1>6, <1>7, <2>2, <3>1, Zenon
    <2> QED  BY <2>1, <2>2, Zenon
  <1> QED  BY <1>3, <1>4, <1>7, <1>8, Zenon DEF IsRemoved

(* What the invariant says of the array.                                   *)
LEMMA ArrayFacts ==
  ASSUME IInv
  PROVE  /\ procs \in Seq(ProcessType) /\ Len(procs) \in Nat
         /\ DOMAIN procs = 1 .. Len(procs)
         /\ \A i \in 1 .. Len(procs) :
              procs[i] \in ProcessType /\ procs[i].id \in Ids
         /\ active \in Nat /\ active <= Len(procs)
         /\ cpu.id # "boot" =>
              /\ cpu \in ProcessType /\ cpu.id \in Ids /\ active < Len(procs)
              /\ active + 1 \in 1 .. Len(procs) /\ procs[active + 1].id = cpu.id
         /\ cpu.id = "boot" => cpu = [id |-> "boot", state |-> "boot"]
  <1>1. procs \in Seq(ProcessType) /\ active \in 0 .. Len(procs)
    BY DEF IInv, TypeOK
  <1>2. /\ Len(procs) \in Nat /\ DOMAIN procs = 1 .. Len(procs)
        /\ \A i \in 1 .. Len(procs) : procs[i] \in ProcessType
    BY <1>1, LenProperties, ElementOfSeq
  <1>3. cpu.id # "boot" => cpu \in ProcessType
    BY DEF IInv, TypeOK
  <1>4. cpu.id = "boot" => cpu = [id |-> "boot", state |-> "boot"]
    BY RecordFacts, PlacesFacts DEF IInv, TypeOK
  <1> QED  BY <1>1, <1>2, <1>3, <1>4, RecordFacts DEF IInv, PhaseInv, ContextsPreserved

LEMMA InitIInv == Init => IInv
  <1> SUFFICES ASSUME Init PROVE IInv
    OBVIOUS
  <1>1. procs = <<>> /\ procs \in Seq(ProcessType) /\ Len(procs) = 0
    BY EmptySeq DEF Init
  <1>2. TypeOK
    BY <1>1, PlacesFacts, ProcessAssumption DEF Init, TypeOK
  <1>3. ProgressInv
    BY PlacesFacts DEF Init, ProgressInv
  <1> QED  BY <1>1, <1>2, <1>3 DEF Init, IInv, ArrayInv, PhaseInv, BootInv, ContextsPreserved

(* A push: the new record is the last and holds the entry of its program.  *)
LEMMA PushFacts ==
  ASSUME IInv, NEW p \in Ids, p \notin created, Push(p),
         UNCHANGED <<active, cpu, progress>>
  PROVE  /\ procs' \in Seq(ProcessType) /\ Len(procs') = Len(procs) + 1
         /\ \A i \in 1 .. Len(procs) : procs'[i] = procs[i]
         /\ procs'[Len(procs) + 1] = [id |-> p, state |-> Entry(p)]
         /\ created' \subseteq Ids
         /\ active' \in 0 .. Len(procs')
         /\ ProgressInv' /\ ArrayInv' /\ BootInv' /\ ContextsPreserved'
  <1>1. Process(p) = [id |-> p, state |-> Entry(p)] /\ Process(p) \in ProcessType
    BY PlacesFacts, RecordFacts DEF Process
  <1>2. /\ procs' \in Seq(ProcessType) /\ Len(procs') = Len(procs) + 1
        /\ \A i \in 1 .. Len(procs) : procs'[i] = procs[i]
        /\ procs'[Len(procs) + 1] = Process(p)
    BY <1>1, ArrayFacts, AppendProperties DEF Push
  <1>3. created' = created \cup {p} /\ created \subseteq Ids
    BY DEF Push, IInv, TypeOK
  <1>4. ProgressInv'
    BY <1>3 DEF ProgressInv, IInv
  <1>5. procs'[Len(procs) + 1].id = p /\ procs'[Len(procs) + 1].state = Entry(p)
    BY <1>1, <1>2
  <1>6. ArrayInv'
    <2>1. \A i \in 1 .. Len(procs) : procs[i].id # p
      BY DEF IInv, ArrayInv
    <2>2. /\ Len(procs) \in Nat
          /\ \A i, j \in 1 .. Len(procs) : procs[i].id = procs[j].id => i = j
          /\ \A i \in 1 .. Len(procs) : procs[i].id \in created
      BY ArrayFacts DEF IInv, ArrayInv
    <2>3. \A i \in 1 .. Len(procs') : i \in 1 .. Len(procs) \/ i = Len(procs) + 1
      BY <1>2, <2>2
    <2>4. \A i \in 1 .. Len(procs') : procs'[i].id \in created'
      BY <1>2, <1>3, <1>5, <2>2, <2>3
    <2>5. ASSUME NEW i \in 1 .. Len(procs'), NEW j \in 1 .. Len(procs'),
                 procs'[i].id = procs'[j].id
          PROVE  i = j
      BY <1>2, <1>5, <2>1, <2>2, <2>3, <2>5
    <2> QED  BY <2>4, <2>5 DEF ArrayInv
  <1>7. progress[p] = Entry(p)
    BY DEF IInv, ProgressInv
  <1>8. BootInv'
    BY <1>2, <1>5, <1>7, ArrayFacts DEF BootInv, IInv
  <1>9. ContextsPreserved'
    <2> SUFFICES ASSUME cpu.id # "boot" PROVE ContextsPreserved'
      BY DEF ContextsPreserved
    <2>1. active + 1 \in 1 .. Len(procs)
      BY ArrayFacts
    <2>2. DOMAIN procs' = 1 .. Len(procs) + 1
      BY <1>2, LenProperties
    <2>3. procs'[active + 1].id = cpu.id /\ Len(procs) \in Nat
      BY <1>2, <2>1, ArrayFacts
    <2>4. cpu.state = progress[cpu.id]
      BY DEF ContextsPreserved, IInv
    <2>5. ASSUME NEW i \in 1 .. Len(procs) + 1, i # active + 1
          PROVE  procs'[i].state = progress[procs'[i].id]
      <3>1. CASE i = Len(procs) + 1
        BY <1>5, <1>7, <3>1
      <3>2. CASE i # Len(procs) + 1
        <4>1. i \in 1 .. Len(procs)
          BY <2>3, <3>2
        <4>2. procs[i].state = progress[procs[i].id]
          BY <2>5, <4>1, ArrayFacts DEF ContextsPreserved, IInv
        <4> QED  BY <1>2, <4>1, <4>2
      <3> QED  BY <3>1, <3>2
    <2> QED  BY <2>2, <2>3, <2>4, <2>5 DEF ContextsPreserved
  <1>10. active' \in 0 .. Len(procs')
    BY <1>2, ArrayFacts
  <1> QED  BY <1>1, <1>2, <1>3, <1>4, <1>6, <1>8, <1>9, <1>10

(* switch_context_to on an array whose records all hold where their        *)
(* programs are.                                                           *)
LEMMA SwitchFacts ==
  ASSUME NEW table \in Seq(ProcessType), NEW next \in 0 .. Len(table) - 1,
         SwitchTo(table, next),
         \A i \in 1 .. Len(table) : table[i].state = progress'[table[i].id]
  PROVE  /\ procs' = table
         /\ active' = next
         /\ cpu' = table[next + 1] /\ cpu' \in ProcessType
         /\ cpu'.id # "boot"
         /\ ContextsPreserved' /\ BootInv'
  <1>1. Len(table) \in Nat /\ DOMAIN table = 1 .. Len(table)
    BY LenProperties
  <1>2. next + 1 \in 1 .. Len(table)
    BY <1>1
  <1>3. procs' = table /\ active' = next /\ cpu' = table[next + 1]
    BY DEF SwitchTo
  <1>4. cpu' \in ProcessType
    BY <1>2, <1>3, ElementOfSeq
  <1>5. cpu'.id # "boot"
    BY <1>4, RecordFacts, PlacesFacts
  <1> QED  BY <1>1, <1>2, <1>3, <1>4, <1>5 DEF ContextsPreserved, BootInv

(* A yield saves the registers in the record of the process that had the   *)
(* CPU, and the next one goes on with what its record holds.               *)
LEMMA YieldFacts ==
  ASSUME IInv, status = "running", NEW place \in Places(cpu.id), YieldAt(place)
  PROVE  /\ procs' \in Seq(ProcessType) /\ Len(procs') = Len(procs)
         /\ \A i \in 1 .. Len(procs) : procs'[i].id = procs[i].id
         /\ active' = (active + 1) % Len(procs)
         /\ active' \in 0 .. Len(procs) - 1
         /\ cpu' \in ProcessType /\ cpu'.id # "boot"
         /\ ProgressInv' /\ ArrayInv' /\ BootInv' /\ ContextsPreserved'
         /\ status' = status /\ created' = created
  <1> DEFINE next == (active + 1) % Len(procs)
             saved == [procs EXCEPT ![active + 1].state = place]
  <1>1. /\ cpu \in ProcessType /\ cpu.id \in Ids /\ cpu.id # "boot"
        /\ active < Len(procs) /\ procs[active + 1].id = cpu.id
        /\ active + 1 \in 1 .. Len(procs) /\ active \in Nat /\ Len(procs) \in Nat
        /\ DOMAIN procs = 1 .. Len(procs) /\ procs \in Seq(ProcessType)
        /\ \A i \in 1 .. Len(procs) : procs[i] \in ProcessType
    BY ArrayFacts DEF IInv, PhaseInv
  <1>2. next \in 0 .. Len(procs) - 1
    BY <1>1, SMT
  <1>3. SwitchTo(saved, next) /\ progress' = [progress EXCEPT ![cpu.id] = place]
        /\ status' = status /\ created' = created
    BY DEF YieldAt
  <1> HIDE DEF next
  <1> DEFINE r == [procs[active + 1] EXCEPT !.state = place]
  <1>4. r \in ProcessType /\ r.id = cpu.id /\ r.state = place
    BY <1>1, SaveFacts, RecordFacts
  <1>5. saved = [procs EXCEPT ![active + 1] = r]
    OBVIOUS
  <1> HIDE DEF r, saved
  <1>6. /\ saved \in Seq(ProcessType) /\ Len(saved) = Len(procs)
        /\ \A j \in 1 .. Len(procs) : saved[j] = IF j = active + 1 THEN r ELSE procs[j]
    BY <1>1, <1>4, <1>5, ExceptSeq
  <1>7. \A i \in 1 .. Len(procs) : saved[i].id = procs[i].id
    BY <1>1, <1>4, <1>6
  <1>8. ProgressInv'
    <2>1. place \in AllPlaces
      BY <1>1, PlacesFacts
    <2>2. cpu.id \in created
      BY <1>1 DEF IInv, ArrayInv
    <2> QED  BY <1>1, <1>3, <2>1, <2>2 DEF IInv, ProgressInv
  <1>9. \A i \in 1 .. Len(saved) : saved[i].state = progress'[saved[i].id]
    <2>1. progress \in [Ids -> AllPlaces]
      BY DEF IInv, ProgressInv
    <2>2. ASSUME NEW i \in 1 .. Len(procs), i # active + 1
          PROVE  /\ procs[i].id # cpu.id /\ procs[i].id \in Ids
                 /\ procs[i].state = progress[procs[i].id]
      BY <1>1, <2>2, ArrayFacts DEF IInv, ArrayInv, ContextsPreserved
    <2> QED  BY <1>1, <1>3, <1>4, <1>6, <2>1, <2>2
  <1>10. /\ procs' = saved /\ active' = next
         /\ cpu' \in ProcessType /\ cpu'.id # "boot"
         /\ ContextsPreserved' /\ BootInv'
    BY <1>2, <1>3, <1>6, <1>9, SwitchFacts
  <1>11. ArrayInv'
    BY <1>3, <1>6, <1>7, <1>10 DEF IInv, ArrayInv
  <1> QED  BY <1>2, <1>3, <1>6, <1>7, <1>8, <1>10, <1>11 DEF next

(* A death: the others keep their records and their order, and the kernel  *)
(* process is among them.                                                  *)
LEMMA DeathFacts ==
  ASSUME IInv, NEW p \in Users, UserException(p)
  PROVE  /\ Len(procs) > 1
         /\ procs' \in Seq(ProcessType) /\ Len(procs') = Len(procs) - 1
         /\ \A i \in 1 .. Len(procs) - 1 :
              procs'[i] = procs[IF i < active + 1 THEN i ELSE i + 1]
         /\ active' = IF active >= Len(procs) - 1 THEN 0 ELSE active
         /\ active' \in 0 .. Len(procs') - 1
         /\ cpu' \in ProcessType /\ cpu'.id # "boot"
         /\ ArrayInv' /\ BootInv' /\ ContextsPreserved'
         /\ \E i \in 1 .. Len(procs') : procs'[i].id = Kernel
  <1> DEFINE left == RemoveAt(procs, active + 1)
             next == IF active >= Len(left) THEN 0 ELSE active
             Old(i) == IF i < active + 1 THEN i ELSE i + 1
  <1>1. /\ cpu.id = p /\ p # Kernel /\ cpu.id # "boot" /\ status = "running"
        /\ SwitchTo(left, next)
        /\ UNCHANGED <<elapsed, status, created, progress>>
    BY PlacesFacts DEF UserException, Running, IInv, PhaseInv
  <1>2. /\ active < Len(procs) /\ procs[active + 1].id = p
        /\ active + 1 \in 1 .. Len(procs) /\ active \in Nat /\ Len(procs) \in Nat
        /\ DOMAIN procs = 1 .. Len(procs) /\ procs \in Seq(ProcessType)
    BY <1>1, ArrayFacts
  <1>3. PICK k \in 1 .. Len(procs) : procs[k].id = Kernel
    BY <1>1 DEF IInv, PhaseInv
  <1>4. k # active + 1
    BY <1>1, <1>2, <1>3, Zenon
  <1>5. Len(procs) > 1
    <2>1. active + 1 \in 1 .. Len(procs) /\ Len(procs) \in Nat
      BY <1>2, Zenon
    <2> QED  BY <2>1, <1>4
  <1>6. /\ left \in Seq(ProcessType) /\ Len(left) = Len(procs) - 1
        /\ \A i \in 1 .. Len(procs) - 1 : left[i] = procs[Old(i)]
    <2>1. IsRemoved(left, ProcessType, procs, Len(procs), active + 1)
      BY <1>2, RemoveAtFacts, Zenon
    <2> HIDE DEF left
    <2> QED  BY <2>1, Zenon DEF IsRemoved
  <1> HIDE DEF left
  <1>7. next \in 0 .. Len(left) - 1
    BY <1>2, <1>5, <1>6
  <1>8. \A i \in 1 .. Len(left) : Old(i) \in 1 .. Len(procs) /\ Old(i) # active + 1
    BY <1>2, <1>6
  <1>9. \A i, j \in 1 .. Len(left) : Old(i) = Old(j) => i = j
    BY <1>2, <1>6
  <1>10. \A i \in 1 .. Len(left) : left[i] = procs[Old(i)]
    BY <1>6
  <1>11. \E i \in 1 .. Len(left) : Old(i) = k
    <2>1. CASE k < active + 1
      <3>1. k \in 1 .. Len(left) /\ Old(k) = k
        BY <1>2, <1>6, <2>1
      <3> QED  BY <3>1
    <2>2. CASE k > active + 1
      <3>1. k - 1 \in 1 .. Len(left) /\ Old(k - 1) = k
        BY <1>2, <1>6, <2>2
      <3> QED  BY <3>1
    <2> QED  BY <1>2, <1>4, <2>1, <2>2
  <1> HIDE DEF Old
  <1>12. \A i \in 1 .. Len(left) : left[i].state = progress'[left[i].id]
    <2>1. \A i \in 1 .. Len(procs) : i # active + 1 => procs[i].state = progress[procs[i].id]
      BY <1>1, <1>2 DEF IInv, ContextsPreserved
    <2> QED  BY <1>1, <1>8, <1>10, <2>1
  <1>13. /\ procs' = left /\ active' = next
         /\ cpu' \in ProcessType /\ cpu'.id # "boot"
         /\ ContextsPreserved' /\ BootInv'
    <2> HIDE DEF next
    <2> QED  BY <1>1, <1>6, <1>7, <1>12, SwitchFacts
  <1>14. ArrayInv'
    <2>1. \A i \in 1 .. Len(left) : left[i].id \in created
      BY <1>8, <1>10 DEF IInv, ArrayInv
    <2>2. ASSUME NEW i \in 1 .. Len(left), NEW j \in 1 .. Len(left), left[i].id = left[j].id
          PROVE  i = j
      <3>1. Old(i) = Old(j)
        BY <1>8, <1>10, <2>2 DEF IInv, ArrayInv
      <3> QED  BY <3>1, <1>9
    <2> QED  BY <1>1, <1>13, <2>1, <2>2 DEF ArrayInv
  <1>15. \E i \in 1 .. Len(procs') : procs'[i].id = Kernel
    BY <1>3, <1>10, <1>11, <1>13
  <1> QED  BY <1>5, <1>6, <1>7, <1>13, <1>14, <1>15 DEF Old

-----------------------------------------------------------------------------
(* The invariant is inductive: one lemma per kind of step. *)

(* Only the running program and the clock move.                            *)
LEMMA ComputeKeeps ==
  ASSUME IInv, NEW p \in Ids, NEW place \in Places(p), Running(p),
         cpu' = [cpu EXCEPT !.state = place],
         progress' = [progress EXCEPT ![p] = place],
         elapsed' \in 0 .. SleepTicks,
         UNCHANGED <<procs, active, status, created>>
  PROVE  IInv'
  <1>1. /\ cpu \in ProcessType /\ cpu.id = p /\ cpu.id # "boot" /\ p \in created
        /\ active + 1 \in 1 .. Len(procs) /\ procs[active + 1].id = p
        /\ DOMAIN procs = 1 .. Len(procs)
    BY ArrayFacts, PlacesFacts DEF Running, IInv, ArrayInv
  <1>2. cpu' \in ProcessType /\ cpu'.id = p /\ cpu'.state = place
    BY <1>1, SaveFacts, RecordFacts
  <1>3. progress \in [Ids -> AllPlaces] /\ place \in AllPlaces
    BY PlacesFacts DEF IInv, ProgressInv
  <1>4. TypeOK'
    BY <1>2, <1>3 DEF IInv, TypeOK
  <1>5. ProgressInv'
    BY <1>1, <1>3 DEF IInv, ProgressInv
  <1>6. ArrayInv' /\ PhaseInv' /\ BootInv'
    BY <1>1, <1>2 DEF IInv, ArrayInv, PhaseInv, BootInv, Running
  <1>7. ContextsPreserved'
    <2>1. ASSUME NEW i \in 1 .. Len(procs), i # active + 1
          PROVE  procs[i].state = progress'[procs[i].id]
      <3>1. /\ procs[i].id # p /\ procs[i].id \in Ids
            /\ procs[i].state = progress[procs[i].id]
        BY <1>1, <2>1, ArrayFacts DEF IInv, ArrayInv, ContextsPreserved
      <3> QED  BY <1>3, <3>1
    <2> QED  BY <1>1, <1>2, <1>3, <2>1 DEF ContextsPreserved
  <1> QED  BY <1>4, <1>5, <1>6, <1>7 DEF IInv

LEMMA YieldKeeps ==
  ASSUME IInv, NEW p \in Ids, NEW place \in Places(p), Running(p),
         YieldAt(place), UNCHANGED elapsed
  PROVE  IInv'
  <1>1. /\ procs' \in Seq(ProcessType) /\ Len(procs') = Len(procs)
        /\ \A i \in 1 .. Len(procs) : procs'[i].id = procs[i].id
        /\ active' \in 0 .. Len(procs) - 1 /\ Len(procs) \in Nat
        /\ cpu' \in ProcessType /\ cpu'.id # "boot"
        /\ ProgressInv' /\ ArrayInv' /\ BootInv' /\ ContextsPreserved'
        /\ status' = status /\ created' = created /\ status = "running"
    BY YieldFacts, ArrayFacts DEF Running
  <1>2. progress' = [progress EXCEPT ![p] = place] /\ progress \in [Ids -> AllPlaces]
    BY DEF YieldAt, Running, IInv, ProgressInv
  <1>3. TypeOK'
    BY <1>1, <1>2 DEF IInv, TypeOK
  <1>4. PhaseInv'
    BY <1>1 DEF IInv, PhaseInv
  <1> QED  BY <1>1, <1>3, <1>4 DEF IInv

LEMMA DeathKeeps ==
  ASSUME IInv, NEW p \in Users, UserException(p)
  PROVE  IInv'
  <1>1. /\ procs' \in Seq(ProcessType) /\ Len(procs') \in Nat
        /\ active' \in 0 .. Len(procs') - 1
        /\ cpu' \in ProcessType /\ cpu'.id # "boot"
        /\ ArrayInv' /\ BootInv' /\ ContextsPreserved'
        /\ \E i \in 1 .. Len(procs') : procs'[i].id = Kernel
        /\ status = "running"
        /\ UNCHANGED <<elapsed, status, created, progress>>
    BY DeathFacts, LenProperties DEF UserException, Running
  <1>2. TypeOK' /\ ProgressInv' /\ PhaseInv'
    BY <1>1 DEF IInv, TypeOK, ProgressInv, PhaseInv
  <1> QED  BY <1>1, <1>2 DEF IInv

LEMMA PushKeeps ==
  ASSUME IInv, NEW p \in Ids, p \notin created, Push(p),
         UNCHANGED <<active, cpu, elapsed, progress>>,
         \/ /\ p = Kernel /\ status = "push_kernel" /\ status' = "push_first"
         \/ /\ p = First /\ status = "push_first" /\ status' = "start"
         \/ /\ p \in Typed /\ status' = status
  PROVE  IInv'
  <1>1. /\ procs' \in Seq(ProcessType) /\ Len(procs') = Len(procs) + 1
        /\ \A i \in 1 .. Len(procs) : procs'[i] = procs[i]
        /\ procs'[Len(procs) + 1] = [id |-> p, state |-> Entry(p)]
        /\ created' \subseteq Ids /\ active' \in 0 .. Len(procs')
        /\ ProgressInv' /\ ArrayInv' /\ BootInv' /\ ContextsPreserved'
        /\ Len(procs) \in Nat /\ created' = created \cup {p}
    BY PushFacts, ArrayFacts DEF Push
  <1>2. TypeOK'
    BY <1>1 DEF IInv, TypeOK
  <1>3. p \in Typed => p # Kernel /\ p # First
    BY ProcessAssumption
  <1>4. procs'[Len(procs) + 1].id = p
    BY <1>1
  <1>5. (\E i \in 1 .. Len(procs) : procs[i].id = Kernel) \/ p = Kernel
          => \E i \in 1 .. Len(procs') : procs'[i].id = Kernel
    BY <1>1, <1>4
  <1>6. PhaseInv'
    BY <1>1, <1>3, <1>5, PlacesFacts DEF IInv, PhaseInv
  <1> QED  BY <1>1, <1>2, <1>6 DEF IInv

LEMMA StartKeeps ==
  ASSUME IInv, Start
  PROVE  IInv'
  <1>1. /\ cpu.id = "boot" /\ active = 0 /\ status = "start" /\ status' = "running"
        /\ \E i \in 1 .. Len(procs) : procs[i].id = Kernel
        /\ SwitchTo(procs, 0)
        /\ UNCHANGED <<elapsed, created, progress>>
    BY DEF Start, IInv, PhaseInv
  <1>2. procs \in Seq(ProcessType) /\ Len(procs) \in Nat /\ 0 \in 0 .. Len(procs) - 1
    BY <1>1, ArrayFacts
  <1>3. \A i \in 1 .. Len(procs) : procs[i].state = progress'[procs[i].id]
    BY <1>1 DEF IInv, BootInv
  <1>4. /\ procs' = procs /\ active' = 0 /\ cpu' \in ProcessType /\ cpu'.id # "boot"
        /\ ContextsPreserved' /\ BootInv'
    BY <1>1, <1>2, <1>3, SwitchFacts
  <1>5. TypeOK' /\ ProgressInv' /\ ArrayInv' /\ PhaseInv'
    BY <1>1, <1>2, <1>4 DEF IInv, TypeOK, ProgressInv, ArrayInv, PhaseInv
  <1> QED  BY <1>4, <1>5 DEF IInv

LEMMA ClockKeeps ==
  ASSUME IInv, elapsed' \in 0 .. SleepTicks, status' \in {status, "halted"},
         UNCHANGED <<procs, active, cpu, created, progress>>
  PROVE  IInv'
  BY DEF IInv, TypeOK, ProgressInv, ArrayInv, PhaseInv, BootInv, ContextsPreserved

LEMMA NextKeepsIInv == IInv /\ [Next]_vars => IInv'
  <1> SUFFICES ASSUME IInv, [Next]_vars PROVE IInv'
    OBVIOUS
  <1>0. elapsed \in 0 .. SleepTicks /\ SleepTicks \in Nat /\ 0 \in 0 .. SleepTicks
    BY ProcessAssumption DEF IInv, TypeOK
  <1>1. CASE PushKernel
    BY <1>1, PushKeeps, PlacesFacts DEF PushKernel, IInv, PhaseInv
  <1>2. CASE PushFirst
    BY <1>2, PushKeeps, PlacesFacts DEF PushFirst, IInv, PhaseInv
  <1>3. CASE Start
    BY <1>3, StartKeeps
  <1>4. CASE KernelThread
    <2>1. Kernel \in Ids /\ {"paste", "sleep", "woken"} \subseteq Places(Kernel)
      BY PlacesFacts DEF Places
    <2>2. CASE KernelPaste
      <3>1. /\ Running(Kernel) /\ cpu' = [cpu EXCEPT !.state = "sleep"]
            /\ progress' = [progress EXCEPT ![Kernel] = "sleep"]
            /\ elapsed' \in 0 .. SleepTicks
            /\ UNCHANGED <<procs, active, status, created>>
        BY <1>0, <2>2 DEF KernelPaste
      <3> QED  BY <2>1, <3>1, ComputeKeeps
    <2>3. CASE KernelSleep
      BY <2>1, <2>3, YieldKeeps DEF KernelSleep
    <2>4. CASE KernelWake
      BY <1>0, <2>1, <2>4, ComputeKeeps DEF KernelWake
    <2>5. CASE KernelYield
      BY <2>1, <2>5, YieldKeeps DEF KernelYield
    <2> QED  BY <1>4, <2>2, <2>3, <2>4, <2>5 DEF KernelThread
  <1>5. ASSUME NEW p \in Users,
               UserCompute(p) \/ UserYield(p) \/ UserInvalidSyscall(p) \/ UserException(p)
        PROVE  IInv'
    <2>1. p \in Ids /\ UserPlaces \subseteq Places(p)
      BY PlacesFacts
    <2>2. CASE UserCompute(p)
      BY <1>0, <2>1, <2>2, ComputeKeeps DEF UserCompute
    <2>3. CASE UserYield(p)
      BY <2>1, <2>3, YieldKeeps DEF UserYield
    <2>4. CASE UserInvalidSyscall(p)
      BY <1>0, <2>4, ClockKeeps DEF UserInvalidSyscall
    <2>5. CASE UserException(p)
      BY <2>5, DeathKeeps
    <2> QED  BY <1>5, <2>2, <2>3, <2>4, <2>5
  <1>6. CASE TimerIrq
    BY <1>0, <1>6, ClockKeeps DEF TimerIrq
  <1>7. ASSUME NEW p \in Typed, KeyboardIrqRuns(p)
        PROVE  IInv'
    <2>1. p \in Ids
      BY DEF Ids, Users
    <2> QED  BY <1>7, <2>1, PushKeeps DEF KeyboardIrqRuns
  <1>8. CASE IrqHalts
    BY <1>0, <1>8, ClockKeeps DEF IrqHalts
  <1>9. CASE UNCHANGED vars
    BY <1>0, <1>9, ClockKeeps DEF vars
  <1> QED  BY <1>1, <1>2, <1>3, <1>4, <1>5, <1>6, <1>7, <1>8, <1>9 DEF Next

LEMMA Inductive == Spec => []IInv
  BY InitIInv, NextKeepsIInv, PTL DEF Spec

(* The scheduler's state keeps its types, for every set of processes and   *)
(* every length of the kernel thread's sleep.                              *)
THEOREM TypeCorrect == Spec => []TypeOK
  <1>1. IInv => TypeOK
    BY DEF IInv
  <1> QED  BY Inductive, <1>1, PTL

(* Every process resumes exactly where it left off, through any number of  *)
(* yields, deaths and arrivals (Scheduler::handle_interrupt,               *)
(* kill_current_thread, add_process, switch_context_to).                   *)
THEOREM ContextsArePreserved == Spec => []ContextsPreserved
  <1>1. IInv => ContextsPreserved
    BY DEF IInv
  <1> QED  BY Inductive, <1>1, PTL

(* The kernel process is there from the first push on and nobody is in the *)
(* array twice: a death leaves somebody to switch to                       *)
(* (kill_current_thread indexes m_procs without a test).                   *)
THEOREM SomebodyRemains ==
  Spec => [](status = "running" => \E i \in 1 .. Len(procs) : procs[i].id = Kernel)
  <1>1. IInv => (status = "running" => \E i \in 1 .. Len(procs) : procs[i].id = Kernel)
    BY DEF IInv, PhaseInv
  <1> QED  BY Inductive, <1>1, PTL

-----------------------------------------------------------------------------
(* The array and its index implement the queue. *)

Rotated(ps, a) ==
  LET ids == [i \in DOMAIN ps |-> ps[i].id]
  IN  SubSeq(ids, a + 1, Len(ids)) \o SubSeq(ids, 1, a)

(* Where position i of the queue is in an array of n whose head is at a.   *)
Place(n, a, i) == IF i <= n - a THEN i + a ELSE i - (n - a)

LEMMA RotatedFacts ==
  ASSUME NEW ps \in Seq(ProcessType), NEW a \in 0 .. Len(ps)
  PROVE  /\ Rotated(ps, a) \in Seq(Ids)
         /\ Len(Rotated(ps, a)) = Len(ps)
         /\ \A i \in 1 .. Len(ps) :
              /\ Place(Len(ps), a, i) \in 1 .. Len(ps)
              /\ Rotated(ps, a)[i] = ps[Place(Len(ps), a, i)].id
  <1> DEFINE n == Len(ps)
             h == n - a
             ids == [i \in DOMAIN ps |-> ps[i].id]
             x == SubSeq(ids, a + 1, n)
             y == SubSeq(ids, 1, a)
             z == x \o y
  <1>1. /\ n \in Nat /\ DOMAIN ps = 1 .. n /\ a \in 0 .. n /\ a \in Nat /\ a <= n
        /\ \A i \in 1 .. n : ps[i].id \in Ids
    BY LenProperties, ElementOfSeq, RecordFacts
  <1>2. h \in Nat /\ h = n - a /\ h + a = n
    BY <1>1
  <1> HIDE DEF n
  <1>3. ids = [i \in 1 .. n |-> ps[i].id] /\ ids \in [1 .. n -> Ids]
    BY <1>1
  <1>4. ids \in Seq(Ids) /\ Len(ids) = n /\ \A i \in 1 .. n : ids[i] = ps[i].id
    BY <1>1, <1>3
  <1>5. Rotated(ps, a) = z
    BY <1>4 DEF Rotated
  <1> HIDE DEF ids
  <1>6. x \in Seq(Ids) /\ Len(x) = n - a /\ \A i \in 1 .. n - a : x[i] = ids[i + a]
    <2>1. RestOf(x, Ids, ids, n, a)
      BY <1>1, <1>4, SuffixFacts, Zenon
    <2> QED  BY <2>1, Zenon DEF RestOf
  <1>7. y \in Seq(Ids) /\ Len(y) = a /\ \A i \in 1 .. a : y[i] = ids[i]
    <2>1. FirstPart(y, Ids, ids, a)
      BY <1>1, <1>4, PrefixFacts, Zenon
    <2> QED  BY <2>1, Zenon DEF FirstPart
  <1> HIDE DEF x, y, h
  <1>8. x \in Seq(Ids) /\ Len(x) = h /\ \A i \in 1 .. h : x[i] = ids[i + a]
    BY <1>2, <1>6, Zenon
  <1>9. /\ z \in Seq(Ids) /\ Len(z) = h + a
        /\ \A i \in 1 .. h : z[i] = x[i]
        /\ \A i \in h + 1 .. h + a : z[i] = y[i - h]
    <2>1. Joined(z, Ids, x, h, y, a)
      BY <1>7, <1>8, ConcatFacts, Zenon
    <2> QED  BY <2>1, Zenon DEF Joined
  <1> HIDE DEF z
  <1>10. ASSUME NEW i \in 1 .. n
         PROVE  Place(n, a, i) \in 1 .. n /\ z[i] = ps[Place(n, a, i)].id
    <2>1. CASE i <= h
      <3>1. Place(n, a, i) = i + a
        BY <1>2, <2>1, Zenon DEF Place
      <3>2. i + a \in 1 .. n /\ i \in 1 .. h
        BY <1>1, <1>2, <2>1
      <3>3. z[i] = ids[i + a]
        BY <1>8, <1>9, <3>2, Zenon
      <3> QED  BY <1>4, <3>1, <3>2, <3>3, Zenon
    <2>2. CASE ~(i <= h)
      <3>1. Place(n, a, i) = i - h
        BY <1>2, <2>2, Zenon DEF Place
      <3>2. i - h \in 1 .. a /\ i - h \in 1 .. n /\ i \in h + 1 .. h + a
        BY <1>1, <1>2, <2>2
      <3>3. z[i] = ids[i - h]
        BY <1>7, <1>9, <3>2, Zenon
      <3> QED  BY <1>4, <3>1, <3>2, <3>3, Zenon
    <2> QED  BY <2>1, <2>2
  <1> QED  BY <1>2, <1>5, <1>9, <1>10, Zenon DEF n

LEMMA InsertAtFacts ==
  ASSUME NEW S, NEW s \in Seq(S), NEW n, Len(s) = n, NEW k \in 1 .. n + 1, NEW e \in S
  PROVE  IsInserted(InsertAt(s, k, e), S, s, n, k, e)
  <1> DEFINE h == k - 1
             x == SubSeq(s, 1, h)
             y == SubSeq(s, h + 1, n)
             w == x \o <<e>>
             z == w \o y
  <1>1. n \in Nat
    BY LenProperties, Zenon
  <1>2. k \in Nat /\ h \in Nat /\ h \in 0 .. n /\ h + 1 = k /\ k + (n - h) = n + 1
    BY <1>1
  <1>3. <<e>> \in Seq(S) /\ Len(<<e>>) = 1 /\ <<e>>[1] = e
    OBVIOUS
  <1>4. InsertAt(s, k, e) = z
    BY <1>2 DEF InsertAt
  <1> HIDE DEF h
  <1>5. x \in Seq(S) /\ Len(x) = h /\ \A i \in 1 .. h : x[i] = s[i]
    <2>1. FirstPart(x, S, s, h)
      BY <1>2, PrefixFacts, Zenon
    <2> QED  BY <2>1, Zenon DEF FirstPart
  <1>6. y \in Seq(S) /\ Len(y) = n - h /\ \A i \in 1 .. n - h : y[i] = s[i + h]
    <2>1. RestOf(y, S, s, n, h)
      BY <1>2, SuffixFacts, Zenon
    <2> QED  BY <2>1, Zenon DEF RestOf
  <1> HIDE DEF x, y
  <1>7. /\ w \in Seq(S) /\ Len(w) = h + 1
        /\ \A i \in 1 .. h : w[i] = x[i]
        /\ \A i \in h + 1 .. h + 1 : w[i] = <<e>>[i - h]
    <2>1. Joined(w, S, x, h, <<e>>, 1)
      BY <1>3, <1>5, ConcatFacts, Zenon
    <2> QED  BY <2>1, Zenon DEF Joined
  <1> HIDE DEF w
  <1>8. w[k] = e
    <2>1. k \in h + 1 .. h + 1 /\ k - h = 1
      BY <1>2
    <2> QED  BY <1>3, <1>7, <2>1, Zenon
  <1>9. w \in Seq(S) /\ Len(w) = k
    BY <1>2, <1>7, Zenon
  <1>10. /\ z \in Seq(S) /\ Len(z) = k + (n - h)
         /\ \A i \in 1 .. k : z[i] = w[i]
         /\ \A i \in k + 1 .. k + (n - h) : z[i] = y[i - k]
    <2>1. Joined(z, S, w, k, y, n - h)
      BY <1>6, <1>9, ConcatFacts, Zenon
    <2> QED  BY <2>1, Zenon DEF Joined
  <1> HIDE DEF z
  <1>11. ASSUME NEW i \in 1 .. n + 1
         PROVE  z[i] = IF i < k THEN s[i] ELSE IF i = k THEN e ELSE s[i - 1]
    <2>1. CASE i < k
      <3>1. i \in 1 .. h /\ i \in 1 .. k
        BY <1>1, <1>2, <2>1
      <3> QED  BY <1>5, <1>7, <1>10, <2>1, <3>1, Zenon
    <2>2. CASE i = k
      <3>1. k \in 1 .. k /\ ~(k < k)
        BY <1>2
      <3> QED  BY <1>8, <1>10, <2>2, <3>1, Zenon
    <2>3. CASE i > k
      <3>1. /\ i \in k + 1 .. k + (n - h) /\ i - k \in 1 .. n - h /\ (i - k) + h = i - 1
            /\ ~(i < k) /\ i # k
        BY <1>1, <1>2, <2>3
      <3> QED  BY <1>6, <1>10, <3>1, Zenon
    <2>4. i < k \/ i = k \/ i > k
      BY <1>1
    <2> QED  BY <2>1, <2>2, <2>3, <2>4, Zenon
  <1> QED  BY <1>2, <1>4, <1>10, <1>11, Zenon DEF IsInserted

LEMMA InvArray ==
  ASSUME IInv
  PROVE  /\ procs \in Seq(ProcessType) /\ active \in 0 .. Len(procs)
         /\ Rotation = Rotated(procs, active)
         /\ Len(procs) \in Nat
         /\ Rotation \in Seq(Ids) /\ Len(Rotation) = Len(procs)
         /\ \A i \in 1 .. Len(procs) :
              /\ Place(Len(procs), active, i) \in 1 .. Len(procs)
              /\ Rotation[i] = procs[Place(Len(procs), active, i)].id
         /\ Len(procs) > 0 => active < Len(procs)
  <1>1. procs \in Seq(ProcessType) /\ active \in 0 .. Len(procs) /\ Len(procs) \in Nat
    BY ArrayFacts
  <1>2. Rotation = Rotated(procs, active)
    BY DEF Rotation, Rotated
  <1>3. Len(procs) > 0 => active < Len(procs)
    BY <1>1 DEF IInv, PhaseInv
  <1> QED  BY <1>1, <1>2, <1>3, RotatedFacts

(* A push behind all the others is behind the end of the queue's first     *)
(* part: the newcomer waits until the array has gone around.               *)
LEMMA PushJoins ==
  ASSUME IInv, NEW p \in Ids, p \notin created, Push(p), status # "halted",
         status' # "halted", UNCHANGED <<active, cpu, progress>>
  PROVE  Queue!Join(p)
  <1> DEFINE n == Len(procs)
             k == n - active + 1
  <1>1. /\ procs \in Seq(ProcessType) /\ active \in 0 .. n /\ n \in Nat
        /\ Rotation \in Seq(Ids) /\ Len(Rotation) = n
        /\ \A i \in 1 .. n : /\ Place(n, active, i) \in 1 .. n
                             /\ Rotation[i] = procs[Place(n, active, i)].id
        /\ n > 0 => active < n
    BY InvArray
  <1>2. /\ procs' \in Seq(ProcessType) /\ Len(procs') = n + 1
        /\ \A i \in 1 .. n : procs'[i] = procs[i]
        /\ procs'[n + 1].id = p /\ active' = active
    <2>1. /\ procs' \in Seq(ProcessType) /\ Len(procs') = n + 1
          /\ \A i \in 1 .. n : procs'[i] = procs[i]
          /\ procs'[n + 1] = [id |-> p, state |-> Entry(p)]
      BY PushFacts
    <2> QED  BY <2>1
  <1> HIDE DEF n
  <1>3. Rotation' = Rotated(procs', active)
    BY <1>2 DEF Rotation, Rotated
  <1>4. /\ Rotation' \in Seq(Ids) /\ Len(Rotation') = n + 1
        /\ \A i \in 1 .. n + 1 : /\ Place(n + 1, active, i) \in 1 .. n + 1
                                 /\ Rotation'[i] = procs'[Place(n + 1, active, i)].id
    <2>1. active \in 0 .. Len(procs')
      BY <1>1, <1>2
    <2>2. /\ Rotated(procs', active) \in Seq(Ids)
          /\ Len(Rotated(procs', active)) = Len(procs')
          /\ \A i \in 1 .. Len(procs') :
               /\ Place(Len(procs'), active, i) \in 1 .. Len(procs')
               /\ Rotated(procs', active)[i] = procs'[Place(Len(procs'), active, i)].id
      BY <1>2, <2>1, RotatedFacts
    <2> QED  BY <1>2, <1>3, <2>2
  <1>5. k \in 1 .. n + 1
    BY <1>1
  <1>6. /\ InsertAt(Rotation, k, p) \in Seq(Ids)
        /\ Len(InsertAt(Rotation, k, p)) = n + 1
        /\ \A i \in 1 .. n + 1 :
             InsertAt(Rotation, k, p)[i] =
               IF i < k THEN Rotation[i] ELSE IF i = k THEN p ELSE Rotation[i - 1]
    <2> HIDE DEF k
    <2>1. Rotation \in Seq(Ids) /\ Len(Rotation) = n
      BY <1>1, Zenon
    <2>2. IsInserted(InsertAt(Rotation, k, p), Ids, Rotation, n, k, p)
      BY <1>5, <2>1, InsertAtFacts, Zenon
    <2> QED  BY <2>2, Zenon DEF IsInserted
  <1>7. ASSUME NEW i \in 1 .. n + 1
        PROVE  Rotation'[i] = InsertAt(Rotation, k, p)[i]
    <2>1. CASE i < k
      <3>1. i \in 1 .. n /\ Place(n + 1, active, i) = Place(n, active, i)
        BY <1>1, <2>1 DEF Place
      <3>2. Rotation'[i] = procs'[Place(n, active, i)].id
        BY <1>4, <3>1
      <3>3. procs'[Place(n, active, i)] = procs[Place(n, active, i)]
        BY <1>1, <1>2, <3>1
      <3>4. Rotation[i] = procs[Place(n, active, i)].id
        BY <1>1, <3>1
      <3>5. InsertAt(Rotation, k, p)[i] = Rotation[i]
        BY <1>6, <2>1
      <3> QED  BY <3>2, <3>3, <3>4, <3>5
    <2>2. CASE i = k
      <3>1. Place(n + 1, active, i) = n + 1
        BY <1>1, <2>2 DEF Place
      <3>2. ~(i < k)
        BY <1>1, <2>2
      <3> QED  BY <1>2, <1>4, <1>6, <2>2, <3>1, <3>2
    <2>3. CASE i > k
      <3>1. i - 1 \in 1 .. n /\ Place(n + 1, active, i) = Place(n, active, i - 1)
        BY <1>1, <2>3 DEF Place
      <3>2. ~(i < k) /\ i # k
        BY <1>1, <2>3
      <3>3. Rotation'[i] = procs'[Place(n, active, i - 1)].id
        BY <1>4, <3>1
      <3>4. procs'[Place(n, active, i - 1)] = procs[Place(n, active, i - 1)]
        BY <1>1, <1>2, <3>1
      <3>5. Rotation[i - 1] = procs[Place(n, active, i - 1)].id
        BY <1>1, <3>1
      <3>6. InsertAt(Rotation, k, p)[i] = Rotation[i - 1]
        BY <1>6, <3>2
      <3> QED  BY <3>3, <3>4, <3>5, <3>6
    <2>4. i < k \/ i = k \/ i > k
      BY <1>1
    <2> QED  BY <2>1, <2>2, <2>3, <2>4, Zenon
  <1>8. Rotation' = InsertAt(Rotation, k, p)
    BY <1>4, <1>6, <1>7, SeqEqual
  <1>9. Rotation # <<>> => k > 1
    <2>1. Rotation # <<>> => n > 0
      BY <1>1, EmptySeq
    <2> QED  BY <2>1, <1>1
  <1>10. p \notin Queue!ToSet(Rotation)
    <2>1. \A i \in 1 .. n : procs[i].id # p
      BY DEF IInv, ArrayInv, n
    <2>2. DOMAIN Rotation = 1 .. n
      BY <1>1, LenProperties
    <2>3. ASSUME NEW i \in 1 .. n PROVE Rotation[i] # p
      BY <1>1, <2>1, Zenon
    <2> QED  BY <2>2, <2>3, Zenon DEF Queue!ToSet
  <1> QED  BY <1>1, <1>5, <1>8, <1>9, <1>10 DEF Queue!Join, Queue!InsertAt, InsertAt

LEMMA HeadTailFacts ==
  ASSUME NEW S, NEW s \in Seq(S), Len(s) > 0
  PROVE  /\ s # <<>>
         /\ Tail(s) \in Seq(S) /\ Len(Tail(s)) = Len(s) - 1
         /\ \A i \in 1 .. Len(s) - 1 : Tail(s)[i] = s[i + 1]
         /\ Append(Tail(s), Head(s)) \in Seq(S)
         /\ Len(Append(Tail(s), Head(s))) = Len(s)
         /\ \A i \in 1 .. Len(s) - 1 : Append(Tail(s), Head(s))[i] = s[i + 1]
         /\ Append(Tail(s), Head(s))[Len(s)] = s[1]
  <1>1. s # <<>> /\ Len(s) \in Nat
    BY EmptySeq, LenProperties
  <1>2. /\ Head(s) \in S /\ Head(s) = s[1]
        /\ Tail(s) \in Seq(S) /\ Len(Tail(s)) = Len(s) - 1
        /\ \A i \in 1 .. Len(Tail(s)) : Tail(s)[i] = s[i + 1]
    BY <1>1, HeadTailProperties
  <1>3. /\ Append(Tail(s), Head(s)) \in Seq(S)
        /\ Len(Append(Tail(s), Head(s))) = Len(Tail(s)) + 1
        /\ \A i \in 1 .. Len(Tail(s)) : Append(Tail(s), Head(s))[i] = Tail(s)[i]
        /\ Append(Tail(s), Head(s))[Len(Tail(s)) + 1] = Head(s)
    BY <1>2, AppendProperties
  <1>4. (Len(s) - 1) + 1 = Len(s)
    BY <1>1
  <1> QED  BY <1>1, <1>2, <1>3, <1>4

LEMMA RemainderFacts ==
  ASSUME NEW n \in Nat \ {0}
  PROVE  n % n = 0 /\ \A m \in Nat : m < n => m % n = m
  BY SMT

LEMMA YieldRotates ==
  ASSUME IInv, NEW place \in Places(cpu.id), status = "running", YieldAt(place)
  PROVE  Queue!Yield
  <1> DEFINE n == Len(procs)
             next == (active + 1) % n
  <1>1. /\ Rotation \in Seq(Ids) /\ Len(Rotation) = n /\ n \in Nat
        /\ \A i \in 1 .. n : /\ Place(n, active, i) \in 1 .. n
                             /\ Rotation[i] = procs[Place(n, active, i)].id
    BY InvArray
  <1>2. active \in Nat /\ active < n
    BY ArrayFacts DEF IInv, PhaseInv
  <1>3. /\ procs' \in Seq(ProcessType) /\ Len(procs') = n
        /\ \A i \in 1 .. n : procs'[i].id = procs[i].id
        /\ active' = next /\ next \in 0 .. n - 1 /\ status' = status
    BY YieldFacts
  <1>4. next = IF active + 1 < n THEN active + 1 ELSE 0
    <2> HIDE DEF n
    <2>1. n \in Nat \ {0} /\ active + 1 \in Nat
      BY <1>1, <1>2
    <2>2. CASE active + 1 < n
      BY <2>1, <2>2, RemainderFacts
    <2>3. CASE ~(active + 1 < n)
      <3>1. active + 1 = n
        BY <1>1, <1>2, <2>3
      <3> QED  BY <2>1, <2>3, <3>1, RemainderFacts
    <2> QED  BY <2>2, <2>3
  <1> HIDE DEF n, next
  <1>5. /\ Rotation' \in Seq(Ids) /\ Len(Rotation') = n
        /\ \A i \in 1 .. n : Rotation'[i] = procs'[Place(n, next, i)].id
    <2>1. Rotation' = Rotated(procs', next)
      BY <1>3 DEF Rotation, Rotated
    <2>2. next \in 0 .. Len(procs')
      BY <1>1, <1>3
    <2>3. /\ Rotated(procs', next) \in Seq(Ids)
          /\ Len(Rotated(procs', next)) = Len(procs')
          /\ \A i \in 1 .. Len(procs') :
               Rotated(procs', next)[i] = procs'[Place(Len(procs'), next, i)].id
      BY <1>3, <2>2, RotatedFacts
    <2> QED  BY <1>3, <2>1, <2>3
  <1> DEFINE moved == Append(Tail(Rotation), Head(Rotation))
  <1>6. /\ Rotation # <<>> /\ moved \in Seq(Ids) /\ Len(moved) = n
        /\ \A i \in 1 .. n - 1 : moved[i] = Rotation[i + 1]
        /\ moved[n] = Rotation[1]
    <2>1. Rotation \in Seq(Ids) /\ Len(Rotation) > 0
      BY <1>1, <1>2
    <2>2. /\ Rotation # <<>> /\ moved \in Seq(Ids) /\ Len(moved) = Len(Rotation)
          /\ \A i \in 1 .. Len(Rotation) - 1 : moved[i] = Rotation[i + 1]
          /\ moved[Len(Rotation)] = Rotation[1]
      BY <2>1, HeadTailFacts
    <2> QED  BY <1>1, <2>2
  <1> HIDE DEF moved
  <1>7. ASSUME NEW i \in 1 .. n
        PROVE  Rotation'[i] = moved[i]
    <2> DEFINE j == IF i < n THEN i + 1 ELSE 1
    <2>1. j \in 1 .. n /\ moved[i] = Rotation[j]
      BY <1>1, <1>6
    <2>2. Place(n, next, i) = Place(n, active, j)
      BY <1>1, <1>2, <1>4 DEF Place
    <2> HIDE DEF j
    <2>3. Place(n, active, j) \in 1 .. n /\ Rotation[j] = procs[Place(n, active, j)].id
      BY <1>1, <2>1
    <2>4. Rotation'[i] = procs[Place(n, active, j)].id
      BY <1>3, <1>5, <2>2, <2>3
    <2> QED  BY <2>1, <2>3, <2>4
  <1>8. Rotation' = moved
    BY <1>5, <1>6, <1>7, SeqEqual
  <1> QED  BY <1>3, <1>6, <1>8 DEF Queue!Yield, moved

LEMMA DeathDequeues ==
  ASSUME IInv, NEW p \in Users, UserException(p)
  PROVE  Queue!Die
  <1> DEFINE n == Len(procs)
             next == IF active >= n - 1 THEN 0 ELSE active
  <1>1. /\ Rotation \in Seq(Ids) /\ Len(Rotation) = n /\ n \in Nat
        /\ \A i \in 1 .. n : /\ Place(n, active, i) \in 1 .. n
                             /\ Rotation[i] = procs[Place(n, active, i)].id
    BY InvArray
  <1>2. /\ n > 1 /\ procs' \in Seq(ProcessType) /\ Len(procs') = n - 1
        /\ \A i \in 1 .. n - 1 : procs'[i] = procs[IF i < active + 1 THEN i ELSE i + 1]
        /\ active' = next /\ next \in 0 .. Len(procs') - 1
    BY DeathFacts
  <1>3. active \in Nat /\ active < n /\ status = "running" /\ status' = status
    BY ArrayFacts DEF IInv, PhaseInv, UserException, Running
  <1> HIDE DEF n
  <1>4. /\ Rotation' \in Seq(Ids) /\ Len(Rotation') = n - 1
        /\ \A i \in 1 .. n - 1 : /\ Place(n - 1, next, i) \in 1 .. n - 1
                                 /\ Rotation'[i] = procs'[Place(n - 1, next, i)].id
    <2> HIDE DEF next
    <2>1. Rotation' = Rotated(procs', next)
      BY <1>2 DEF Rotation, Rotated
    <2>2. next \in 0 .. Len(procs')
      BY <1>1, <1>2
    <2>3. /\ Rotated(procs', next) \in Seq(Ids)
          /\ Len(Rotated(procs', next)) = Len(procs')
          /\ \A i \in 1 .. Len(procs') :
               /\ Place(Len(procs'), next, i) \in 1 .. Len(procs')
               /\ Rotated(procs', next)[i] = procs'[Place(Len(procs'), next, i)].id
      BY <1>2, <2>2, RotatedFacts
    <2> QED  BY <1>2, <2>1, <2>3
  <1>5. /\ Tail(Rotation) \in Seq(Ids) /\ Len(Tail(Rotation)) = n - 1
        /\ \A i \in 1 .. n - 1 : Tail(Rotation)[i] = Rotation[i + 1]
    <2>1. Rotation \in Seq(Ids) /\ Len(Rotation) > 0
      BY <1>1, <1>2
    <2>2. /\ Tail(Rotation) \in Seq(Ids) /\ Len(Tail(Rotation)) = Len(Rotation) - 1
          /\ \A i \in 1 .. Len(Rotation) - 1 : Tail(Rotation)[i] = Rotation[i + 1]
      BY <2>1, HeadTailFacts
    <2> QED  BY <1>1, <2>2
  <1>6. ASSUME NEW i \in 1 .. n - 1
        PROVE  Rotation'[i] = Tail(Rotation)[i]
    <2> DEFINE q == Place(n - 1, next, i)
    <2>1. q \in 1 .. n - 1 /\ Rotation'[i] = procs'[q].id
      BY <1>4
    <2>2. i + 1 \in 1 .. n /\ (IF q < active + 1 THEN q ELSE q + 1) = Place(n, active, i + 1)
      BY <1>1, <1>2, <1>3 DEF Place
    <2> HIDE DEF q
    <2>3. procs'[q] = procs[Place(n, active, i + 1)]
      BY <1>2, <2>1, <2>2
    <2>4. Rotation[i + 1] = procs[Place(n, active, i + 1)].id
      BY <1>1, <2>2
    <2> QED  BY <1>5, <2>1, <2>3, <2>4
  <1>7. Rotation' = Tail(Rotation)
    BY <1>4, <1>5, <1>6, SeqEqual
  <1> QED  BY <1>1, <1>2, <1>3, <1>7 DEF Queue!Die

(* Each step of the scheduler is a step of the queue or none.              *)
LEMMA StepRefines ==
  IInv /\ [Next]_vars => [Queue!Next]_(Queue!vars)
  <1> SUFFICES ASSUME IInv, [Next]_vars PROVE Queue!Next \/ UNCHANGED Queue!vars
    OBVIOUS
  <1>1. ASSUME UNCHANGED <<procs, active>>, (status # "halted") = (status' # "halted")
        PROVE  UNCHANGED Queue!vars
    BY <1>1 DEF Rotation, Queue!vars
  <1>2. ASSUME UNCHANGED <<procs, active>>, status # "halted", status' = "halted"
        PROVE  Queue!Next
    BY <1>2 DEF Rotation, Queue!Next, Queue!Halt
  <1>3. CASE PushKernel
    <2>1. Queue!Join(Kernel) /\ Kernel \in Ids
      BY <1>3, PushJoins, PlacesFacts DEF PushKernel, IInv, PhaseInv
    <2> QED  BY <2>1 DEF Queue!Next
  <1>4. CASE PushFirst
    <2>1. Queue!Join(First) /\ First \in Ids
      BY <1>4, PushJoins, PlacesFacts DEF PushFirst, IInv, PhaseInv
    <2> QED  BY <2>1 DEF Queue!Next
  <1>5. CASE Start
    BY <1>1, <1>5 DEF Start, SwitchTo
  <1>6. ASSUME NEW p \in Ids, NEW place \in Places(p), Running(p), YieldAt(place)
        PROVE  Queue!Next
    <2>1. Queue!Yield
      BY <1>6, YieldRotates DEF Running
    <2> QED  BY <2>1 DEF Queue!Next
  <1>7. CASE KernelThread
    <2>1. Kernel \in Ids /\ {"paste", "sleep", "woken"} \subseteq Places(Kernel)
      BY PlacesFacts DEF Places
    <2>2. CASE KernelPaste
      BY <1>1, <2>2 DEF KernelPaste
    <2>3. CASE KernelSleep
      BY <1>6, <2>1, <2>3 DEF KernelSleep
    <2>4. CASE KernelWake
      BY <1>1, <2>4 DEF KernelWake
    <2>5. CASE KernelYield
      BY <1>6, <2>1, <2>5 DEF KernelYield
    <2> QED  BY <1>7, <2>2, <2>3, <2>4, <2>5 DEF KernelThread
  <1>8. ASSUME NEW p \in Users,
               UserCompute(p) \/ UserYield(p) \/ UserInvalidSyscall(p) \/ UserException(p)
        PROVE  Queue!Next \/ UNCHANGED Queue!vars
    <2>1. p \in Ids /\ UserPlaces \subseteq Places(p)
      BY PlacesFacts
    <2>2. CASE UserCompute(p)
      BY <1>1, <2>2 DEF UserCompute
    <2>3. CASE UserYield(p)
      BY <1>6, <2>1, <2>3 DEF UserYield
    <2>4. CASE UserInvalidSyscall(p)
      BY <1>2, <2>4 DEF UserInvalidSyscall, Running
    <2>5. CASE UserException(p)
      BY <2>5, DeathDequeues DEF Queue!Next
    <2> QED  BY <1>8, <2>2, <2>3, <2>4, <2>5
  <1>9. CASE TimerIrq
    BY <1>1, <1>9 DEF TimerIrq
  <1>10. ASSUME NEW p \in Typed, KeyboardIrqRuns(p)
         PROVE  Queue!Next
    <2>1. p \in Ids
      BY DEF Ids, Users
    <2>2. Queue!Join(p)
      BY <1>10, <2>1, PushJoins DEF KeyboardIrqRuns, Interruptible
    <2> QED  BY <2>1, <2>2 DEF Queue!Next
  <1>11. CASE IrqHalts
    BY <1>2, <1>11 DEF IrqHalts, Interruptible
  <1>12. CASE UNCHANGED vars
    BY <1>1, <1>12 DEF vars
  <1> QED  BY <1>3, <1>4, <1>5, <1>7, <1>8, <1>9, <1>10, <1>11, <1>12 DEF Next

(* The array and the index implement the round-robin queue: whoever yields *)
(* goes behind all the others, whoever dies leaves the CPU to the next one *)
(* in turn, and nobody else ever changes places (handle_interrupt,         *)
(* kill_current_thread, add_process).                                      *)
THEOREM RefinesRoundRobin == Spec => ImplementsRoundRobin
  <1>1. Init => Queue!Init
    <2> SUFFICES ASSUME Init PROVE Queue!Init
      OBVIOUS
    <2>1. Rotation = Rotated(procs, active)
      BY DEF Rotation, Rotated
    <2>2. procs \in Seq(ProcessType) /\ active \in 0 .. Len(procs) /\ Len(procs) = 0
      BY EmptySeq DEF Init
    <2>3. Rotation \in Seq(Ids) /\ Len(Rotation) = 0
      BY <2>1, <2>2, RotatedFacts
    <2>4. Rotation = <<>>
      BY <2>3, EmptySeq
    <2> QED  BY <2>4 DEF Init, Queue!Init
  <1> QED  BY <1>1, StepRefines, Inductive, PTL DEF Spec, ImplementsRoundRobin, Queue!Spec

-----------------------------------------------------------------------------
(* Shared pointers. A placing says which pointer is where: slot i of a     *)
(* vector is at place i, a pointer is at its place 0, and the temporaries  *)
(* of a call are at negative places.                                       *)
Values == Objects \cup {Null}
Spots == -(MaxSize + 1) .. MaxSize + 1
Owners == Vectors \cup Pointers
Spaces == Owners \X Spots
Placings == [Spaces -> Values]

HeldAt(f, o) == {s \in Spaces : f[s] = o}

Uses == [by : {1, -1}, ptr : Values]
Heaps == [counter : [Objects -> Int], live : SUBSET Objects, misused : BOOLEAN]

(* The counters are right for a placing.                                   *)
Exact(h, f) ==
  /\ h \in Heaps /\ h.misused = FALSE
  /\ \A o \in Objects : /\ o \in h.live <=> HeldAt(f, o) # {}
                        /\ o \in h.live => h.counter[o] = Cardinality(HeldAt(f, o))

(* A pointer that is somewhere is copied to a place that holds none, or    *)
(* one is dropped from its place.                                          *)
Takes(f, use, g) ==
  \E s \in Spaces, x \in Values :
    \/ use = Drop(x) /\ f[s] = x /\ g = [f EXCEPT ![s] = Null]
    \/ use = Copy(x) /\ f[s] = Null /\ (\E q \in Spaces : f[q] = x) /\ g = [f EXCEPT ![s] = x]

Trace(t, uses, f, g) ==
  /\ t \in [0 .. Len(uses) -> Placings]
  /\ t[0] = f /\ t[Len(uses)] = g
  /\ \A i \in 1 .. Len(uses) : Takes(t[i - 1], uses[i], t[i])

Leads(f, uses, g) == uses \in Seq(Uses) /\ \E t : Trace(t, uses, f, g)

LEMMA FiniteSpaces ==
  /\ IsFiniteSet(Spaces)
  /\ \A f, o : IsFiniteSet(HeldAt(f, o)) /\ Cardinality(HeldAt(f, o)) \in Nat
                /\ (Cardinality(HeldAt(f, o)) = 0 <=> HeldAt(f, o) = {})
  <1>1. IsFiniteSet(Owners)
    BY PointerAssumption, FS_Union DEF Owners
  <1>2. IsFiniteSet(Spots)
    <2>1. -(MaxSize + 1) \in Int /\ MaxSize + 1 \in Int
      BY PointerAssumption
    <2> QED  BY <2>1, FS_Interval DEF Spots
  <1>3. IsFiniteSet(Spaces)
    BY <1>1, <1>2, FS_Product DEF Spaces
  <1>4. ASSUME NEW f, NEW o
        PROVE  /\ IsFiniteSet(HeldAt(f, o)) /\ Cardinality(HeldAt(f, o)) \in Nat
               /\ (Cardinality(HeldAt(f, o)) = 0 <=> HeldAt(f, o) = {})
    <2>1. HeldAt(f, o) \in SUBSET Spaces
      BY DEF HeldAt
    <2>2. IsFiniteSet(HeldAt(f, o))
      BY <1>3, <2>1, FS_Subset
    <2> QED  BY <2>2, FS_CardinalityType, FS_EmptySet
  <1> QED  BY <1>3, <1>4

(* One place changes: one pointer more to the new one, one less to the old.*)
LEMMA OnePlace ==
  ASSUME NEW f \in Placings, NEW s \in Spaces, NEW x \in Values, NEW o \in Objects
  PROVE  /\ [f EXCEPT ![s] = x] \in Placings
         /\ o = x /\ f[s] # o =>
              Cardinality(HeldAt([f EXCEPT ![s] = x], o)) = Cardinality(HeldAt(f, o)) + 1
         /\ o # x /\ f[s] = o =>
              Cardinality(HeldAt([f EXCEPT ![s] = x], o)) = Cardinality(HeldAt(f, o)) - 1
         /\ o # x /\ f[s] # o => HeldAt([f EXCEPT ![s] = x], o) = HeldAt(f, o)
         /\ o = x /\ f[s] = o => HeldAt([f EXCEPT ![s] = x], o) = HeldAt(f, o)
  <1> DEFINE g == [f EXCEPT ![s] = x]
  <1>1. g \in Placings /\ \A q \in Spaces : g[q] = IF q = s THEN x ELSE f[q]
    BY DEF Placings
  <1> HIDE DEF g
  <1>2. CASE o = x /\ f[s] # o
    <2>1. HeldAt(g, o) = HeldAt(f, o) \cup {s} /\ s \notin HeldAt(f, o)
      BY <1>1, <1>2 DEF HeldAt
    <2>2. IsFiniteSet(HeldAt(f, o))
      BY FiniteSpaces
    <2>3. Cardinality(HeldAt(g, o)) = Cardinality(HeldAt(f, o)) + 1
      BY <2>1, <2>2, FS_AddElement, Zenon
    <2> QED  BY <1>1, <1>2, <2>3, Zenon DEF g
  <1>3. CASE o # x /\ f[s] = o
    <2>1. HeldAt(g, o) = HeldAt(f, o) \ {s} /\ s \in HeldAt(f, o)
      BY <1>1, <1>3 DEF HeldAt
    <2>2. IsFiniteSet(HeldAt(f, o))
      BY FiniteSpaces
    <2>3. Cardinality(HeldAt(g, o)) = Cardinality(HeldAt(f, o)) - 1
      BY <2>1, <2>2, FS_RemoveElement, Zenon
    <2> QED  BY <1>1, <1>3, <2>3, Zenon DEF g
  <1>4. CASE o # x /\ f[s] # o
    <2>1. HeldAt(g, o) = HeldAt(f, o)
      BY <1>1, <1>4 DEF HeldAt
    <2> QED  BY <1>1, <1>4, <2>1 DEF g
  <1>5. CASE o = x /\ f[s] = o
    <2>1. HeldAt(g, o) = HeldAt(f, o)
      BY <1>1, <1>5 DEF HeldAt
    <2> QED  BY <1>1, <1>5, <2>1 DEF g
  <1> QED  BY <1>2, <1>3, <1>4, <1>5

(* What Count makes of the counters.                                       *)
LEMMA CountFacts ==
  ASSUME NEW h \in Heaps, NEW use \in Uses
  PROVE  /\ Count(h, use) \in Heaps
         /\ use.ptr = Null => Count(h, use) = h
         /\ use.ptr \in h.live /\ use.ptr # Null =>
              /\ Count(h, use).misused = h.misused
              /\ \A o \in Objects : Count(h, use).counter[o] =
                   IF o = use.ptr THEN h.counter[o] + use.by ELSE h.counter[o]
              /\ Count(h, use).live = IF h.counter[use.ptr] + use.by <= 0
                                      THEN h.live \ {use.ptr} ELSE h.live
  <1>1. /\ h = [counter |-> h.counter, live |-> h.live, misused |-> h.misused]
        /\ h.counter \in [Objects -> Int] /\ h.live \in SUBSET Objects /\ h.misused \in BOOLEAN
    BY DEF Heaps
  <1>2. use.by \in Int /\ use.ptr \in Values
    BY DEF Uses
  <1>3. CASE use.ptr = Null
    BY <1>3 DEF Count
  <1>4. CASE use.ptr # Null /\ use.ptr \notin h.live
    <2>1. Count(h, use) = [h EXCEPT !.misused = TRUE]
      BY <1>4 DEF Count
    <2> QED  BY <1>1, <1>4, <2>1 DEF Heaps
  <1>5. CASE use.ptr # Null /\ use.ptr \in h.live
    <2> DEFINE u == use.ptr
               n == h.counter[u] + use.by
               c == [h.counter EXCEPT ![u] = n]
               l == IF n <= 0 THEN h.live \ {u} ELSE h.live
    <2>1. Count(h, use) = [h EXCEPT !.counter[u] = n, !.live = IF n <= 0 THEN @ \ {u} ELSE @]
      BY <1>5 DEF Count
    <2>2. Count(h, use) = [counter |-> c, live |-> l, misused |-> h.misused]
      BY <1>1, <2>1
    <2>3. u \in Objects /\ n \in Int
      BY <1>1, <1>2, <1>5
    <2>4. c \in [Objects -> Int] /\ l \in SUBSET Objects
      BY <1>1, <2>3
    <2> QED  BY <1>1, <1>5, <2>2, <2>3, <2>4 DEF Heaps
  <1> QED  BY <1>3, <1>4, <1>5

LEMMA CountKeepsExact ==
  ASSUME NEW h, NEW f \in Placings, Exact(h, f), NEW use \in Uses, NEW g \in Placings,
         Takes(f, use, g)
  PROVE  Exact(Count(h, use), g)
  <1>1. PICK s \in Spaces, x \in Values :
          \/ use = Drop(x) /\ f[s] = x /\ g = [f EXCEPT ![s] = Null]
          \/ use = Copy(x) /\ f[s] = Null /\ (\E q \in Spaces : f[q] = x)
             /\ g = [f EXCEPT ![s] = x]
    BY DEF Takes
  <1>2. use.ptr = x /\ h \in Heaps /\ Null \notin Objects
    BY <1>1, PointerAssumption DEF Drop, Copy, Exact
  <1>3. CASE x = Null
    <2>1. g = f
      BY <1>1, <1>3 DEF Placings
    <2>2. Count(h, use) = h
      BY <1>2, <1>3, CountFacts, Zenon
    <2> QED  BY <2>1, <2>2
  <1>4. CASE x # Null
    <2>0. x \in Objects /\ (\E q \in Spaces : f[q] = x)
      BY <1>1, <1>4 DEF Values
    <2>1. x \in h.live /\ h.counter[x] = Cardinality(HeldAt(f, x))
      BY <2>0 DEF Exact, HeldAt
    <2>2. /\ Count(h, use) \in Heaps /\ Count(h, use).misused = FALSE
          /\ \A o \in Objects : Count(h, use).counter[o] =
               IF o = x THEN h.counter[o] + use.by ELSE h.counter[o]
          /\ Count(h, use).live = IF h.counter[x] + use.by <= 0 THEN h.live \ {x} ELSE h.live
      BY <1>2, <1>4, <2>1, CountFacts DEF Exact
    <2>3. Cardinality(HeldAt(g, x)) = Cardinality(HeldAt(f, x)) + use.by
      <3>1. CASE use = Drop(x) /\ f[s] = x /\ g = [f EXCEPT ![s] = Null]
        <4>1. Null \in Values /\ x # Null
          BY <1>4 DEF Values
        <4>2. Cardinality(HeldAt(g, x)) = Cardinality(HeldAt(f, x)) - 1
          BY <2>0, <3>1, <4>1, OnePlace
        <4> QED  BY <3>1, <4>2, FiniteSpaces DEF Drop
      <3>2. CASE use = Copy(x) /\ f[s] = Null /\ g = [f EXCEPT ![s] = x]
        <4>1. Cardinality(HeldAt(g, x)) = Cardinality(HeldAt(f, x)) + 1
          BY <1>4, <2>0, <3>2, OnePlace
        <4> QED  BY <3>2, <4>1 DEF Copy
      <3> QED  BY <1>1, <3>1, <3>2
    <2>4. ASSUME NEW o \in Objects, o # x PROVE HeldAt(g, o) = HeldAt(f, o)
      BY <1>1, <1>2, <2>4, OnePlace DEF Values
    <2>5. ASSUME NEW o \in Objects
          PROVE  /\ o \in Count(h, use).live <=> HeldAt(g, o) # {}
                 /\ o \in Count(h, use).live =>
                      Count(h, use).counter[o] = Cardinality(HeldAt(g, o))
      <3>1. CASE o = x
        <4>1. Cardinality(HeldAt(g, x)) = h.counter[x] + use.by
          BY <2>1, <2>3
        <4>2. Cardinality(HeldAt(g, x)) \in Nat
              /\ (Cardinality(HeldAt(g, x)) = 0 <=> HeldAt(g, x) = {})
          BY FiniteSpaces
        <4>3. x \in Count(h, use).live <=> ~(h.counter[x] + use.by <= 0)
          BY <2>1, <2>2
        <4>4. Count(h, use).counter[x] = h.counter[x] + use.by
          BY <2>0, <2>2
        <4> QED  BY <3>1, <4>1, <4>2, <4>3, <4>4
      <3>2. CASE o # x
        <4>1. HeldAt(g, o) = HeldAt(f, o) /\ Count(h, use).counter[o] = h.counter[o]
              /\ (o \in Count(h, use).live <=> o \in h.live)
          BY <2>2, <2>4, <3>2
        <4> QED  BY <4>1 DEF Exact
      <3> QED  BY <3>1, <3>2
    <2> QED  BY <2>2, <2>5 DEF Exact
  <1> QED  BY <1>3, <1>4

(* CountAll goes over the uses one by one.                                 *)
CountSteps(uses) ==
  [i \in Nat |-> [h \in Heaps |-> IF i \in 1 .. Len(uses) THEN Count(h, uses[i]) ELSE h]]

LEMMA CountAllIterates ==
  ASSUME NEW h \in Heaps, NEW uses \in Seq(Uses)
  PROVE  \E c : /\ c \in [0 .. Len(uses) -> Heaps] /\ c[0] = h
                /\ \A i \in 1 .. Len(uses) : c[i] = Count(c[i - 1], uses[i])
                /\ CountAll(h, uses) = c[Len(uses)]
  <1> DEFINE n == Len(uses)
             g == CountSteps(uses)
             Defined(f) == f = [i \in 0 .. n |-> IF i = 0 THEN h ELSE Count(f[i - 1], uses[i])]
             counted == CHOOSE f : Defined(f)
  <1>0. \A i \in 1 .. n : uses[i] \in Uses
    BY ElementOfSeq, Zenon
  <1>1. n \in Nat /\ g \in [Nat -> [Heaps -> Heaps]]
    <2>1. n \in Nat
      BY LenProperties
    <2>2. ASSUME NEW i \in Nat, NEW k \in Heaps
          PROVE  (IF i \in 1 .. n THEN Count(k, uses[i]) ELSE k) \in Heaps
      <3>1. CASE i \in 1 .. n
        <4>1. uses[i] \in Uses
          BY <1>0, <3>1, Zenon
        <4> QED  BY <3>1, <4>1, CountFacts, Zenon
      <3>2. CASE i \notin 1 .. n
        BY <3>2, Zenon
      <3> QED  BY <3>1, <3>2
    <2> QED  BY <2>1, <2>2, Zenon DEF CountSteps
  <1>2. CountAll(h, uses) = counted[n]
    BY Zenon DEF CountAll
  <1>3. ASSUME NEW i \in 1 .. n, NEW k \in Heaps PROVE g[i][k] = Count(k, uses[i])
    <2>1. i \in Nat
      BY <1>1
    <2> QED  BY <2>1, Zenon DEF CountSteps
  <1> HIDE DEF g, n
  <1>4. \E f : Defined(f)
    <2>1. PICK f : Iterates(f, n, Heaps, h, g)
      BY <1>1, IterationExists
    <2>2. f \in [0 .. n -> Heaps] /\ f[0] = h /\ \A i \in 1 .. n : f[i] = g[i][f[i - 1]]
      BY <2>1 DEF Iterates
    <2>3. ASSUME NEW i \in 0 .. n
          PROVE  f[i] = IF i = 0 THEN h ELSE Count(f[i - 1], uses[i])
      <3>1. CASE i = 0
        BY <2>2, <3>1, Zenon
      <3>2. CASE i # 0
        <4>1. i \in 1 .. n /\ i - 1 \in 0 .. n
          BY <1>1, <3>2
        <4>2. f[i - 1] \in Heaps
          BY <2>2, <4>1
        <4> QED  BY <1>3, <2>2, <3>2, <4>1, <4>2, Zenon
      <3> QED  BY <3>1, <3>2
    <2>4. Defined(f)
      BY <2>2, <2>3
    <2> QED  BY <2>4, Zenon
  <1>5. Defined(counted)
    BY <1>4, Zenon
  <1> HIDE DEF counted
  <1>6. counted[0] = h
    <2>1. 0 \in 0 .. n
      BY <1>1
    <2> QED  BY <1>5, <2>1
  <1>7. ASSUME NEW i \in 1 .. n PROVE counted[i] = Count(counted[i - 1], uses[i])
    <2>1. i \in 0 .. n /\ i # 0
      BY <1>1
    <2> QED  BY <1>5, <2>1
  <1>8. \A i \in 1 .. n : counted[i - 1] \in Heaps => counted[i] = g[i][counted[i - 1]]
    BY <1>3, <1>7, Zenon
  <1>9. counted = [i \in 0 .. n |-> counted[i]]
    BY <1>5
  <1>10. Iterates(counted, n, Heaps, h, g)
    <2> HIDE DEF Defined
    <2> QED  BY <1>1, <1>6, <1>8, <1>9, IterationTyped
  <1> QED  BY <1>2, <1>6, <1>7, <1>10, Zenon DEF Iterates, n

(* The counters follow a trace.                                            *)
LEMMA LedgerKept ==
  ASSUME NEW h, NEW f \in Placings, Exact(h, f), NEW uses, NEW g, Leads(f, uses, g)
  PROVE  Exact(CountAll(h, uses), g)
  <1> DEFINE n == Len(uses)
  <1>1. uses \in Seq(Uses) /\ h \in Heaps /\ n \in Nat
    BY LenProperties DEF Leads, Exact
  <1>2. PICK t : Trace(t, uses, f, g)
    BY DEF Leads
  <1>3. PICK c : /\ c \in [0 .. n -> Heaps] /\ c[0] = h
                 /\ \A i \in 1 .. n : c[i] = Count(c[i - 1], uses[i])
                 /\ CountAll(h, uses) = c[n]
    BY <1>1, CountAllIterates
  <1>4. /\ t \in [0 .. n -> Placings] /\ t[0] = f /\ t[n] = g
        /\ \A i \in 1 .. n : Takes(t[i - 1], uses[i], t[i])
    BY <1>2 DEF Trace
  <1>5. \A i \in 1 .. n : uses[i] \in Uses
    BY <1>1, ElementOfSeq, Zenon
  <1> DEFINE S == {i \in Nat : i <= n => Exact(c[i], t[i])}
  <1> HIDE DEF n
  <1>6. 0 \in S
    BY <1>3, <1>4
  <1>7. ASSUME NEW i \in Nat, i \in S PROVE i + 1 \in S
    <2> SUFFICES ASSUME i + 1 <= n PROVE Exact(c[i + 1], t[i + 1])
      OBVIOUS
    <2>1. i + 1 \in 1 .. n /\ (i + 1) - 1 = i /\ i <= n /\ i \in 0 .. n /\ i + 1 \in 0 .. n
      BY <1>1
    <2>2. Exact(c[i], t[i])
      BY <1>7, <2>1
    <2>3. c[i + 1] = Count(c[i], uses[i + 1]) /\ Takes(t[i], uses[i + 1], t[i + 1])
      BY <1>3, <1>4, <2>1
    <2>4. t[i] \in Placings /\ t[i + 1] \in Placings
      BY <1>4, <2>1
    <2> QED  BY <1>5, <2>1, <2>2, <2>3, <2>4, CountKeepsExact, Zenon
  <1> HIDE DEF S
  <1>8. \A i \in Nat : i \in S
    BY <1>6, <1>7, SetInduction
  <1>9. Exact(c[n], t[n])
    BY <1>1, <1>8 DEF S
  <1> QED  BY <1>3, <1>4, <1>9

(* One trace after another.                                                *)
LEMMA LeadsOn ==
  ASSUME NEW f, NEW u1, NEW g, NEW u2, NEW k, Leads(f, u1, g), Leads(g, u2, k)
  PROVE  Leads(f, u1 \o u2, k)
  <1> DEFINE m == Len(u1)
             n == Len(u2)
             u == u1 \o u2
  <1>1. u1 \in Seq(Uses) /\ u2 \in Seq(Uses) /\ m \in Nat /\ n \in Nat
    BY LenProperties DEF Leads
  <1>2. Joined(u, Uses, u1, m, u2, n)
    BY <1>1, ConcatFacts
  <1>3. /\ u \in Seq(Uses) /\ Len(u) = m + n
        /\ \A i \in 1 .. m : u[i] = u1[i]
        /\ \A i \in m + 1 .. m + n : u[i] = u2[i - m]
    BY <1>2 DEF Joined
  <1>4. PICK t1 : Trace(t1, u1, f, g)
    BY DEF Leads
  <1>5. PICK t2 : Trace(t2, u2, g, k)
    BY DEF Leads
  <1> DEFINE t == [i \in 0 .. m + n |-> IF i <= m THEN t1[i] ELSE t2[i - m]]
  <1>6. /\ t1 \in [0 .. m -> Placings] /\ t1[0] = f /\ t1[m] = g
        /\ \A i \in 1 .. m : Takes(t1[i - 1], u1[i], t1[i])
    BY <1>4 DEF Trace
  <1>7. /\ t2 \in [0 .. n -> Placings] /\ t2[0] = g /\ t2[n] = k
        /\ \A i \in 1 .. n : Takes(t2[i - 1], u2[i], t2[i])
    BY <1>5 DEF Trace
  <1> HIDE DEF m, n, u
  <1>8. t \in [0 .. m + n -> Placings] /\ t[0] = f
    BY <1>1, <1>6, <1>7
  <1>9. \A i \in 0 .. n : t[m + i] = t2[i]
    <2> SUFFICES ASSUME NEW i \in 0 .. n PROVE t[m + i] = t2[i]
      OBVIOUS
    <2>1. CASE i = 0
      BY <1>1, <1>6, <1>7, <2>1
    <2>2. CASE i # 0
      <3>1. m + i \in 0 .. m + n /\ ~(m + i <= m) /\ (m + i) - m = i
        BY <1>1, <2>2
      <3> QED  BY <3>1
    <2> QED  BY <2>1, <2>2
  <1>10. ASSUME NEW i \in 1 .. m + n PROVE Takes(t[i - 1], u[i], t[i])
    <2>1. CASE i <= m
      <3>1. i \in 1 .. m /\ i - 1 <= m /\ i \in 0 .. m + n /\ i - 1 \in 0 .. m + n
        BY <1>1, <2>1
      <3>2. t[i - 1] = t1[i - 1] /\ t[i] = t1[i] /\ u[i] = u1[i]
        BY <1>3, <3>1
      <3> HIDE DEF t
      <3> QED  BY <1>6, <3>1, <3>2
    <2>2. CASE ~(i <= m)
      <3> DEFINE j == i - m
      <3>1. j \in 1 .. n /\ j - 1 \in 0 .. n /\ j \in 0 .. n /\ i \in m + 1 .. m + n
            /\ m + j = i /\ m + (j - 1) = i - 1
        BY <1>1, <2>2
      <3> HIDE DEF t, j
      <3>2. t[i - 1] = t2[j - 1] /\ t[i] = t2[j]
        BY <1>9, <3>1
      <3>3. u[i] = u2[j]
        BY <1>3, <3>1 DEF j
      <3> QED  BY <1>7, <3>1, <3>2, <3>3
    <2> QED  BY <2>1, <2>2
  <1>11. t[m + n] = k
    <2>1. n \in 0 .. n
      BY <1>1
    <2> HIDE DEF t
    <2> QED  BY <1>7, <1>9, <2>1
  <1> HIDE DEF t
  <1>12. Trace(t, u, f, k)
    BY <1>3, <1>8, <1>10, <1>11 DEF Trace
  <1> QED  BY <1>3, <1>12 DEF Leads, u

LEMMA LeadsNowhere ==
  ASSUME NEW f \in Placings
  PROVE  Leads(f, <<>>, f)
  <1> DEFINE t == [i \in 0 .. 0 |-> f]
  <1>1. <<>> \in Seq(Uses) /\ Len(<<>>) = 0
    OBVIOUS
  <1>2. t \in [0 .. 0 -> Placings] /\ t[0] = f
    OBVIOUS
  <1>3. Trace(t, <<>>, f, f)
    BY <1>1, <1>2 DEF Trace
  <1> QED  BY <1>1, <1>3, Zenon DEF Leads

LEMMA LeadsOnce ==
  ASSUME NEW f \in Placings, NEW use \in Uses, NEW g \in Placings, Takes(f, use, g)
  PROVE  Leads(f, <<use>>, g)
  <1> DEFINE t == [i \in 0 .. 1 |-> IF i = 0 THEN f ELSE g]
  <1>1. <<use>> \in Seq(Uses) /\ Len(<<use>>) = 1 /\ <<use>>[1] = use
    OBVIOUS
  <1>2. t \in [0 .. 1 -> Placings] /\ t[0] = f /\ t[1] = g
    OBVIOUS
  <1>3. \A i \in 1 .. 1 : i = 1 /\ i - 1 = 0
    OBVIOUS
  <1> HIDE DEF t
  <1>4. Trace(t, <<use>>, f, g)
    BY <1>1, <1>2, <1>3 DEF Trace
  <1> QED  BY <1>1, <1>4, Zenon DEF Leads

-----------------------------------------------------------------------------
(* What the calls do to a placing.                                         *)
Put(f, w, i, x) == [s \in Spaces |-> IF s[1] = w /\ s[2] = i THEN x ELSE f[s]]

(* The n places of w behind a are emptied, or filled with values.          *)
Cleared(f, w, a, n) ==
  [s \in Spaces |-> IF s[1] = w /\ s[2] \in a + 1 .. a + n THEN Null ELSE f[s]]
Filled(f, w, a, n, values) ==
  [s \in Spaces |-> IF s[1] = w /\ s[2] \in a + 1 .. a + n THEN values[s[2] - a] ELSE f[s]]

(* The k steps of a removal at a: one place after the other is emptied and *)
(* takes what the next one holds.                                          *)
Shifting(f, w, a, k) ==
  [s \in Spaces |->
     IF s[1] = w /\ a <= s[2] /\ 2 * (s[2] - a) + 2 <= k THEN f[<<w, s[2] + 1>>]
     ELSE IF s[1] = w /\ 2 * (s[2] - a) + 1 = k THEN Null ELSE f[s]]
Shifted(f, w, a, n) ==
  [s \in Spaces |-> IF s[1] = w /\ s[2] \in a .. n - 1 THEN f[<<w, s[2] + 1>>]
                    ELSE IF s[1] = w /\ s[2] = n THEN Null ELSE f[s]]

LEMMA SpaceFacts ==
  /\ Spots \subseteq Int /\ MaxSize \in Nat /\ 0 \in Spots /\ -1 \in Spots
  /\ \A i \in Int : i \in Spots <=> -(MaxSize + 1) <= i /\ i <= MaxSize + 1
  /\ \A s \in Spaces : s = <<s[1], s[2]>> /\ s[1] \in Owners /\ s[2] \in Spots /\ s[2] \in Int
  /\ \A w \in Owners, i \in Spots : <<w, i>> \in Spaces
  /\ Null \in Values /\ Objects \subseteq Values
  /\ \A x \in Values : Drop(x) \in Uses /\ Copy(x) \in Uses
  <1>1. MaxSize \in Nat
    BY PointerAssumption
  <1>2. Spots \subseteq Int /\ 0 \in Spots /\ -1 \in Spots
        /\ \A i \in Int : i \in Spots <=> -(MaxSize + 1) <= i /\ i <= MaxSize + 1
    BY <1>1 DEF Spots
  <1>3. \A x \in Values : Drop(x) \in Uses /\ Copy(x) \in Uses
    BY DEF Drop, Copy, Uses
  <1>4. \A s \in Spaces : s = <<s[1], s[2]>> /\ s[1] \in Owners /\ s[2] \in Spots
    BY DEF Spaces
  <1>5. \A w \in Owners, i \in Spots : <<w, i>> \in Spaces
    BY DEF Spaces
  <1>6. Null \in Values /\ Objects \subseteq Values
    BY DEF Values
  <1> QED  BY <1>1, <1>2, <1>3, <1>4, <1>5, <1>6

LEMMA PutFacts ==
  ASSUME NEW f \in Placings, NEW w \in Owners, NEW i \in Spots, NEW x \in Values
  PROVE  Put(f, w, i, x) \in Placings /\ Put(f, w, i, x) = [f EXCEPT ![<<w, i>>] = x]
  <1> DEFINE g == Put(f, w, i, x)
             k == [f EXCEPT ![<<w, i>>] = x]
  <1>1. g \in Placings /\ k \in Placings
    BY DEF Placings, Put
  <1>2. ASSUME NEW s \in Spaces PROVE g[s] = k[s]
    <2>1. s = <<w, i>> <=> s[1] = w /\ s[2] = i
      BY SpaceFacts
    <2>2. k[s] = IF s = <<w, i>> THEN x ELSE f[s]
      BY DEF Placings
    <2>3. g[s] = IF s[1] = w /\ s[2] = i THEN x ELSE f[s]
      BY DEF Put
    <2> QED  BY <2>1, <2>2, <2>3, Zenon
  <1> HIDE DEF g, k
  <1>3. g = k
    BY <1>1, <1>2 DEF Placings
  <1> QED  BY <1>1, <1>3 DEF g, k

LEMMA TakesDrop ==
  ASSUME NEW f \in Placings, NEW w \in Owners, NEW i \in Spots
  PROVE  Takes(f, Drop(f[<<w, i>>]), Put(f, w, i, Null))
  <1>1. <<w, i>> \in Spaces /\ f[<<w, i>>] \in Values /\ Null \in Values
    BY SpaceFacts DEF Placings
  <1>2. Put(f, w, i, Null) = [f EXCEPT ![<<w, i>>] = Null]
    BY <1>1, PutFacts
  <1> QED  BY <1>1, <1>2, Zenon DEF Takes

LEMMA TakesCopy ==
  ASSUME NEW f \in Placings, NEW w \in Owners, NEW i \in Spots, f[<<w, i>>] = Null,
         NEW s \in Spaces
  PROVE  Takes(f, Copy(f[s]), Put(f, w, i, f[s]))
  <1>1. <<w, i>> \in Spaces /\ f[s] \in Values
    BY SpaceFacts DEF Placings
  <1>2. Put(f, w, i, f[s]) = [f EXCEPT ![<<w, i>>] = f[s]]
    BY <1>1, PutFacts
  <1> QED  BY <1>1, <1>2, Zenon DEF Takes

LEMMA LeadsDrop ==
  ASSUME NEW f \in Placings, NEW w \in Owners, NEW i \in Spots, NEW x, f[<<w, i>>] = x
  PROVE  /\ Leads(f, <<Drop(x)>>, Put(f, w, i, Null))
         /\ Put(f, w, i, Null) \in Placings
  <1>1. x \in Values /\ Null \in Values
    BY SpaceFacts DEF Placings
  <1>2. Drop(x) \in Uses /\ Put(f, w, i, Null) \in Placings
    BY <1>1, SpaceFacts, PutFacts
  <1>3. Takes(f, Drop(x), Put(f, w, i, Null))
    BY TakesDrop
  <1> QED  BY <1>2, <1>3, LeadsOnce

LEMMA LeadsCopy ==
  ASSUME NEW f \in Placings, NEW w \in Owners, NEW i \in Spots, f[<<w, i>>] = Null,
         NEW s \in Spaces, NEW x, f[s] = x
  PROVE  /\ Leads(f, <<Copy(x)>>, Put(f, w, i, x))
         /\ Put(f, w, i, x) \in Placings
  <1>1. x \in Values
    BY DEF Placings
  <1>2. Copy(x) \in Uses /\ Put(f, w, i, x) \in Placings
    BY <1>1, SpaceFacts, PutFacts
  <1>3. Takes(f, Copy(x), Put(f, w, i, x))
    BY TakesCopy
  <1> QED  BY <1>2, <1>3, LeadsOnce

LEMMA LeadsDropped ==
  ASSUME NEW f \in Placings, NEW w \in Owners, NEW a \in Int, NEW values \in Seq(Values),
         \A i \in 1 .. Len(values) : a + i \in Spots /\ f[<<w, a + i>>] = values[i]
  PROVE  /\ Leads(f, EachDropped(values), Cleared(f, w, a, Len(values)))
         /\ Cleared(f, w, a, Len(values)) \in Placings
  <1> DEFINE n == Len(values)
             u == EachDropped(values)
             t == [k \in 0 .. n |-> Cleared(f, w, a, k)]
  <1>1. n \in Nat /\ DOMAIN values = 1 .. n /\ \A i \in 1 .. n : values[i] \in Values
    BY LenProperties, ElementOfSeq
  <1>2. u \in Seq(Uses) /\ Len(u) = n /\ \A i \in 1 .. n : u[i] = Drop(values[i])
    <2>1. u = [i \in 1 .. n |-> Drop(values[i])]
      BY <1>1 DEF EachDropped
    <2>2. \A i \in 1 .. n : Drop(values[i]) \in Uses
      BY <1>1, SpaceFacts
    <2> HIDE DEF u, n
    <2> QED  BY <1>1, <2>1, <2>2, SMTT(30)
  <1>3. \A k \in Int : Cleared(f, w, a, k) \in Placings
    BY SpaceFacts DEF Cleared, Placings
  <1>4. Cleared(f, w, a, 0) = f
    <2>1. \A s \in Spaces : ~(s[2] \in a + 1 .. a + 0)
      BY SpaceFacts
    <2> QED  BY <2>1 DEF Cleared, Placings
  <1> HIDE DEF n, u
  <1>5. t \in [0 .. n -> Placings] /\ t[0] = f /\ t[n] = Cleared(f, w, a, n)
    BY <1>1, <1>3, <1>4
  <1>6. ASSUME NEW i \in 1 .. n PROVE Takes(t[i - 1], u[i], t[i])
    <2> DEFINE g == Cleared(f, w, a, i - 1)
    <2>1. t[i - 1] = g /\ t[i] = Cleared(f, w, a, i)
      BY <1>1
    <2>2. i - 1 \in Int /\ i \in Int /\ a + i \in Int
      OBVIOUS
    <2>3. g \in Placings /\ <<w, a + i>> \in Spaces /\ a + i \in Spots
      BY <1>3, <2>2, SpaceFacts DEF n
    <2>4. g[<<w, a + i>>] = values[i]
      <3>1. ~(a + i \in a + 1 .. a + (i - 1))
        BY <2>2
      <3>2. g[<<w, a + i>>] = f[<<w, a + i>>]
        BY <2>3, <3>1 DEF Cleared
      <3> QED  BY <3>2 DEF n
    <2>5. Cleared(f, w, a, i) = Put(g, w, a + i, Null)
      <3>1. ASSUME NEW s \in Spaces
            PROVE  (IF s[1] = w /\ s[2] \in a + 1 .. a + i THEN Null ELSE f[s])
                   = (IF s[1] = w /\ s[2] = a + i THEN Null ELSE g[s])
        <4>1. g[s] = IF s[1] = w /\ s[2] \in a + 1 .. a + (i - 1) THEN Null ELSE f[s]
          BY DEF Cleared
        <4>2. s[2] \in Int
          BY SpaceFacts
        <4>3. s[2] \in a + 1 .. a + i <=> s[2] \in a + 1 .. a + (i - 1) \/ s[2] = a + i
          BY <2>2, <4>2
        <4> QED  BY <4>1, <4>3, Zenon
      <3> HIDE DEF g
      <3> QED  BY <3>1, Zenon DEF Cleared, Put
    <2> HIDE DEF g, t
    <2> QED  BY <1>2, <2>1, <2>3, <2>4, <2>5, TakesDrop, Zenon
  <1> HIDE DEF t
  <1>7. Trace(t, u, f, Cleared(f, w, a, n))
    BY <1>2, <1>5, <1>6 DEF Trace
  <1> QED  BY <1>1, <1>2, <1>3, <1>7 DEF Leads, n, u

LEMMA LeadsCopied ==
  ASSUME NEW f \in Placings, NEW w \in Owners, NEW a \in Int, NEW values \in Seq(Values),
         \A i \in 1 .. Len(values) : a + i \in Spots /\ f[<<w, a + i>>] = Null,
         \A i \in 1 .. Len(values) :
           \E s \in Spaces : f[s] = values[i] /\ ~(s[1] = w /\ s[2] \in a + 1 .. a + Len(values))
  PROVE  /\ Leads(f, EachCopied(values), Filled(f, w, a, Len(values), values))
         /\ Filled(f, w, a, Len(values), values) \in Placings
  <1> DEFINE n == Len(values)
             u == EachCopied(values)
             t == [k \in 0 .. n |-> Filled(f, w, a, k, values)]
  <1>1. n \in Nat /\ DOMAIN values = 1 .. n /\ \A i \in 1 .. n : values[i] \in Values
    BY LenProperties, ElementOfSeq
  <1>2. u \in Seq(Uses) /\ Len(u) = n /\ \A i \in 1 .. n : u[i] = Copy(values[i])
    <2>1. u = [i \in 1 .. n |-> Copy(values[i])]
      BY <1>1 DEF EachCopied
    <2>2. \A i \in 1 .. n : Copy(values[i]) \in Uses
      BY <1>1, SpaceFacts
    <2> HIDE DEF u, n
    <2> QED  BY <1>1, <2>1, <2>2, SMTT(30)
  <1>3. \A k \in 0 .. n : Filled(f, w, a, k, values) \in Placings
    <2> SUFFICES ASSUME NEW k \in 0 .. n, NEW s \in Spaces
                 PROVE  (IF s[1] = w /\ s[2] \in a + 1 .. a + k THEN values[s[2] - a] ELSE f[s])
                          \in Values
      BY DEF Filled, Placings
    <2>1. s[2] \in a + 1 .. a + k => s[2] - a \in 1 .. n
      BY <1>1, SpaceFacts
    <2> QED  BY <1>1, <2>1 DEF Placings
  <1>4. Filled(f, w, a, 0, values) = f
    <2>1. \A s \in Spaces : ~(s[2] \in a + 1 .. a + 0)
      BY SpaceFacts
    <2> QED  BY <2>1 DEF Filled, Placings
  <1> HIDE DEF n, u
  <1>5. t \in [0 .. n -> Placings] /\ t[0] = f /\ t[n] = Filled(f, w, a, n, values)
    BY <1>1, <1>3, <1>4
  <1>6. ASSUME NEW i \in 1 .. n PROVE Takes(t[i - 1], u[i], t[i])
    <2> DEFINE g == Filled(f, w, a, i - 1, values)
    <2>1. t[i - 1] = g /\ t[i] = Filled(f, w, a, i, values)
      BY <1>1
    <2>2. i - 1 \in 0 .. n /\ i \in Int /\ a + i \in Int /\ i - 1 <= n
      BY <1>1
    <2>3. g \in Placings /\ <<w, a + i>> \in Spaces /\ a + i \in Spots
      BY <1>3, <2>2, SpaceFacts DEF n
    <2>4. g[<<w, a + i>>] = Null
      <3>1. ~(a + i \in a + 1 .. a + (i - 1))
        BY <2>2
      <3>2. g[<<w, a + i>>] = f[<<w, a + i>>]
        BY <2>3, <3>1 DEF Filled
      <3> QED  BY <3>2 DEF n
    <2>5. PICK q \in Spaces : f[q] = values[i] /\ ~(q[1] = w /\ q[2] \in a + 1 .. a + n)
      BY DEF n
    <2>6. g[q] = values[i]
      <3>0. q[2] \in Int
        BY SpaceFacts
      <3>1. q[2] \in a + 1 .. a + (i - 1) => q[2] \in a + 1 .. a + n
        BY <1>1, <2>2, <3>0
      <3> QED  BY <2>5, <3>1, Zenon DEF Filled
    <2>7. Filled(f, w, a, i, values) = Put(g, w, a + i, values[i])
      <3>1. ASSUME NEW s \in Spaces
            PROVE  (IF s[1] = w /\ s[2] \in a + 1 .. a + i THEN values[s[2] - a] ELSE f[s])
                   = (IF s[1] = w /\ s[2] = a + i THEN values[i] ELSE g[s])
        <4>1. g[s] = IF s[1] = w /\ s[2] \in a + 1 .. a + (i - 1) THEN values[s[2] - a] ELSE f[s]
          BY DEF Filled
        <4>2. s[2] \in Int
          BY SpaceFacts
        <4>3. /\ s[2] \in a + 1 .. a + i <=> s[2] \in a + 1 .. a + (i - 1) \/ s[2] = a + i
              /\ s[2] = a + i => s[2] - a = i
              /\ ~(s[2] = a + i /\ s[2] \in a + 1 .. a + (i - 1))
          BY <2>2, <4>2
        <4> QED  BY <4>1, <4>3, Zenon
      <3> HIDE DEF g
      <3> QED  BY <3>1, Zenon DEF Filled, Put
    <2> HIDE DEF g, t
    <2>8. Takes(g, Copy(g[q]), Put(g, w, a + i, g[q]))
      BY <2>3, <2>4, TakesCopy, Zenon
    <2> QED  BY <1>2, <2>1, <2>6, <2>7, <2>8, Zenon
  <1> HIDE DEF t
  <1>7. Trace(t, u, f, Filled(f, w, a, n, values))
    BY <1>2, <1>5, <1>6 DEF Trace
  <1>8. Filled(f, w, a, n, values) \in Placings
    BY <1>1, <1>3
  <1> QED  BY <1>1, <1>2, <1>7, <1>8 DEF Leads, n, u

(* The places that the steps of a removal are about, and the parity of a   *)
(* step: which of the two it is, and of which element.                     *)
LEMMA Parity ==
  ASSUME NEW k \in Nat \ {0}
  PROVE  \E j \in Nat : \/ k = 2 * j + 1 /\ (k - 1) \div 2 = j /\ 2 - (k % 2) = 1
                        \/ k = 2 * j + 2 /\ (k - 1) \div 2 = j /\ 2 - (k % 2) = 2
  <1> DEFINE j == (k - 1) \div 2
  <1>1. j \in Nat /\ (k - 1 = 2 * j \/ k - 1 = 2 * j + 1)
    BY SMT
  <1> HIDE DEF j
  <1>2. CASE k - 1 = 2 * j
    <2>1. k = 2 * j + 1
      BY <1>1, <1>2
    <2>2. k % 2 = 1
      BY <1>1, <2>1, SMT
    <2> QED  BY <1>1, <2>1, <2>2 DEF j
  <1>3. CASE k - 1 = 2 * j + 1
    <2>1. k = 2 * (j + 1)
      BY <1>1, <1>3
    <2>2. k % 2 = 0
      BY <1>1, <2>1, SMT
    <2>3. k = 2 * j + 2 /\ 2 - (k % 2) = 2
      BY <1>1, <1>3, <2>2
    <2> QED  BY <1>1, <2>3 DEF j
  <1> QED  BY <1>1, <1>2, <1>3

LEMMA ShiftingStep ==
  ASSUME NEW f \in Placings, NEW w \in Owners, NEW a \in Nat \ {0}, NEW n \in Nat,
         n <= MaxSize, NEW j \in Nat, a + j < n
  PROVE  LET g == Shifting(f, w, a, 2 * j)
             k == Shifting(f, w, a, 2 * j + 1)
         IN  /\ Takes(g, Drop(f[<<w, a + j>>]), k)
             /\ Takes(k, Copy(f[<<w, a + j + 1>>]), Shifting(f, w, a, 2 * j + 2))
  <1> DEFINE g == Shifting(f, w, a, 2 * j)
             k == Shifting(f, w, a, 2 * j + 1)
             l == Shifting(f, w, a, 2 * j + 2)
             s0 == <<w, a + j>>
             s1 == <<w, a + j + 1>>
  <1>1. a + j \in Spots /\ a + j + 1 \in Spots /\ a + j \in Int /\ a + j + 1 \in Int
    BY SpaceFacts
  <1>2. s0 \in Spaces /\ s1 \in Spaces
    BY <1>1, SpaceFacts
  <1>3. ASSUME NEW i \in Nat, i <= 2 * j + 2 PROVE Shifting(f, w, a, i) \in Placings
    <2> SUFFICES ASSUME NEW s \in Spaces, s[1] = w, a <= s[2], 2 * (s[2] - a) + 2 <= i
                 PROVE  f[<<w, s[2] + 1>>] \in Values
      BY SpaceFacts DEF Shifting, Placings
    <2>1. s[2] \in Int /\ s[2] <= a + j
      BY <1>3, SpaceFacts
    <2>2. s[2] + 1 \in Spots
      BY <2>1, SpaceFacts
    <2> QED  BY <2>2, SpaceFacts DEF Placings
  <1>4. g \in Placings /\ k \in Placings /\ l \in Placings
    <2>1. 2 * j \in Nat /\ 2 * j + 1 \in Nat /\ 2 * j + 2 \in Nat
          /\ 2 * j <= 2 * j + 2 /\ 2 * j + 1 <= 2 * j + 2 /\ 2 * j + 2 <= 2 * j + 2
      OBVIOUS
    <2> QED  BY <1>3, <2>1
  <1>5. g[s0] = f[s0] /\ k[s0] = Null /\ k[s1] = f[s1]
    <2>1. ~(2 * ((a + j) - a) + 2 <= 2 * j) /\ ~(2 * ((a + j) - a) + 1 = 2 * j)
          /\ ~(2 * ((a + j) - a) + 2 <= 2 * j + 1) /\ 2 * ((a + j) - a) + 1 = 2 * j + 1
          /\ ~(2 * ((a + j + 1) - a) + 2 <= 2 * j + 1) /\ ~(2 * ((a + j + 1) - a) + 1 = 2 * j + 1)
      OBVIOUS
    <2>2. s0[1] = w /\ s0[2] = a + j /\ s1[1] = w /\ s1[2] = a + j + 1
      OBVIOUS
    <2> HIDE DEF s0, s1
    <2> QED  BY <1>2, <2>1, <2>2, Zenon DEF Shifting
  <1>6. k = Put(g, w, a + j, Null)
    <2>1. ASSUME NEW s \in Spaces
          PROVE  k[s] = (IF s[1] = w /\ s[2] = a + j THEN Null ELSE g[s])
      <3>0. s[2] \in Int
        BY SpaceFacts
      <3>1. /\ 2 * (s[2] - a) + 2 <= 2 * j + 1 <=> 2 * (s[2] - a) + 2 <= 2 * j
            /\ 2 * (s[2] - a) + 1 = 2 * j + 1 <=> s[2] = a + j
            /\ ~(2 * (s[2] - a) + 1 = 2 * j)
            /\ s[2] = a + j => ~(2 * (s[2] - a) + 2 <= 2 * j)
        BY <3>0
      <3>2. /\ k[s] = IF s[1] = w /\ a <= s[2] /\ 2 * (s[2] - a) + 2 <= 2 * j + 1
                      THEN f[<<w, s[2] + 1>>]
                      ELSE IF s[1] = w /\ 2 * (s[2] - a) + 1 = 2 * j + 1 THEN Null ELSE f[s]
            /\ g[s] = IF s[1] = w /\ a <= s[2] /\ 2 * (s[2] - a) + 2 <= 2 * j
                      THEN f[<<w, s[2] + 1>>]
                      ELSE IF s[1] = w /\ 2 * (s[2] - a) + 1 = 2 * j THEN Null ELSE f[s]
        BY DEF Shifting
      <3> HIDE DEF g, k
      <3> QED  BY <3>1, <3>2, Zenon
    <2> HIDE DEF g, k
    <2>2. k = [s \in Spaces |-> k[s]]
      BY <1>4 DEF Placings
    <2> QED  BY <2>1, <2>2, Zenon DEF Put
  <1>7. l = Put(k, w, a + j, f[s1])
    <2>1. ASSUME NEW s \in Spaces
          PROVE  l[s] = (IF s[1] = w /\ s[2] = a + j THEN f[s1] ELSE k[s])
      <3>0. s[2] \in Int
        BY SpaceFacts
      <3>1. /\ 2 * (s[2] - a) + 2 <= 2 * j + 2 <=> 2 * (s[2] - a) + 2 <= 2 * j + 1 \/ s[2] = a + j
            /\ 2 * (s[2] - a) + 1 = 2 * j + 1 => s[2] = a + j
            /\ ~(2 * (s[2] - a) + 1 = 2 * j + 2)
            /\ s[2] = a + j => a <= s[2]
            /\ s[2] = a + j => <<w, s[2] + 1>> = s1
            /\ s[2] = a + j => 2 * (s[2] - a) + 2 <= 2 * j + 2
        BY <3>0
      <3>2. /\ l[s] = IF s[1] = w /\ a <= s[2] /\ 2 * (s[2] - a) + 2 <= 2 * j + 2
                      THEN f[<<w, s[2] + 1>>]
                      ELSE IF s[1] = w /\ 2 * (s[2] - a) + 1 = 2 * j + 2 THEN Null ELSE f[s]
            /\ k[s] = IF s[1] = w /\ a <= s[2] /\ 2 * (s[2] - a) + 2 <= 2 * j + 1
                      THEN f[<<w, s[2] + 1>>]
                      ELSE IF s[1] = w /\ 2 * (s[2] - a) + 1 = 2 * j + 1 THEN Null ELSE f[s]
        BY DEF Shifting
      <3> HIDE DEF l, k, s1
      <3> QED  BY <3>1, <3>2, Zenon
    <2> HIDE DEF l, k, s1
    <2>2. l = [s \in Spaces |-> l[s]]
      BY <1>4 DEF Placings
    <2> QED  BY <2>1, <2>2, Zenon DEF Put
  <1>8. Takes(g, Drop(f[s0]), k)
    <2> HIDE DEF g, k
    <2> QED  BY <1>1, <1>4, <1>5, <1>6, TakesDrop, Zenon
  <1>9. Takes(k, Copy(f[s1]), l)
    <2> HIDE DEF l, k, s1
    <2>1. k[<<w, a + j>>] = Null
      BY <1>5
    <2> QED  BY <1>1, <1>2, <1>4, <1>5, <1>7, <2>1, TakesCopy, Zenon
  <1> QED  BY <1>8, <1>9

LEMMA LeadsShifted ==
  ASSUME NEW f \in Placings, NEW w \in Owners, NEW b, NEW a \in Nat \ {0}, b.size \in Nat,
         a <= b.size, b.size <= MaxSize,
         \A i \in 1 .. b.size : f[<<w, i>>] = b.slots[i]
  PROVE  /\ Leads(f, RemoveUses(b, a), Shifted(f, w, a, b.size))
         /\ Shifted(f, w, a, b.size) \in Placings
  <1> DEFINE n == b.size
             d == 2 * (n - a)
             steps == [k \in 1 .. d |->
                         LET i == a + (k - 1) \div 2
                         IN  Assigned(b.slots[i], b.slots[i + 1])[2 - (k % 2)]]
             t == [k \in 0 .. d |-> Shifting(f, w, a, k)]
             last == Shifting(f, w, a, d)
  <1>1. n \in Nat /\ d \in Nat /\ a <= n /\ n <= MaxSize /\ a \in Nat
    OBVIOUS
  <1>2. RemoveUses(b, a) = steps \o <<Drop(b.slots[n])>>
    BY DEF RemoveUses
  <1>3. \A i \in 1 .. n : <<w, i>> \in Spaces /\ b.slots[i] \in Values /\ i \in Spots
        /\ f[<<w, i>>] = b.slots[i]
    <2> SUFFICES ASSUME NEW i \in 1 .. n
                 PROVE  <<w, i>> \in Spaces /\ b.slots[i] \in Values /\ i \in Spots
      OBVIOUS
    <2>1. i \in Spots
      BY <1>1, SpaceFacts
    <2> QED  BY <2>1, SpaceFacts DEF Placings
  <1>4. ASSUME NEW k \in 1 .. d
        PROVE  steps[k] \in Uses /\ Takes(Shifting(f, w, a, k - 1), steps[k], Shifting(f, w, a, k))
    <2>1. k \in Nat \ {0}
      BY <1>1
    <2>2. PICK j \in Nat : \/ k = 2 * j + 1 /\ (k - 1) \div 2 = j /\ 2 - (k % 2) = 1
                           \/ k = 2 * j + 2 /\ (k - 1) \div 2 = j /\ 2 - (k % 2) = 2
      BY <2>1, Parity
    <2>3. a + j < n /\ a + j \in 1 .. n /\ a + j + 1 \in 1 .. n
      BY <1>1, <2>2
    <2> DEFINE old == b.slots[a + j]
               new == b.slots[a + j + 1]
    <2>4. steps[k] = <<Drop(old), Copy(new)>>[2 - (k % 2)]
      <3>1. steps[k] = Assigned(b.slots[a + (k - 1) \div 2], b.slots[a + (k - 1) \div 2 + 1])[2 - (k % 2)]
        OBVIOUS
      <3>2. (k - 1) \div 2 = j
        BY <2>2
      <3> HIDE DEF steps
      <3> QED  BY <3>1, <3>2, Zenon DEF Assigned
    <2>5. /\ Takes(Shifting(f, w, a, 2 * j), Drop(old), Shifting(f, w, a, 2 * j + 1))
          /\ Takes(Shifting(f, w, a, 2 * j + 1), Copy(new), Shifting(f, w, a, 2 * j + 2))
      <3>1. f[<<w, a + j>>] = old /\ f[<<w, a + j + 1>>] = new
        BY <1>3, <2>3
      <3> HIDE DEF old, new
      <3> QED  BY <1>1, <2>3, <3>1, ShiftingStep
    <2>6. Drop(old) \in Uses /\ Copy(new) \in Uses
      BY <1>3, <2>3, SpaceFacts
    <2> HIDE DEF steps, old, new
    <2>7. CASE k = 2 * j + 1 /\ 2 - (k % 2) = 1
      <3>1. k - 1 = 2 * j
        BY <2>7
      <3>2. steps[k] = Drop(old)
        BY <2>4, <2>7
      <3> QED  BY <2>5, <2>6, <2>7, <3>1, <3>2, Zenon
    <2>8. CASE k = 2 * j + 2 /\ 2 - (k % 2) = 2
      <3>1. k - 1 = 2 * j + 1
        BY <2>8
      <3>2. steps[k] = Copy(new)
        BY <2>4, <2>8
      <3> QED  BY <2>5, <2>6, <2>8, <3>1, <3>2, Zenon
    <2> QED  BY <2>2, <2>7, <2>8
  <1>5. steps \in Seq(Uses) /\ Len(steps) = d
    <2>1. steps \in [1 .. d -> Uses]
      <3>1. steps = [k \in 1 .. d |-> steps[k]]
        OBVIOUS
      <3> HIDE DEF steps
      <3> QED  BY <1>4, <3>1
    <2> HIDE DEF steps, d
    <2> QED  BY <1>1, <2>1, SMTT(30)
  <1>6. \A k \in 0 .. d : Shifting(f, w, a, k) \in Placings
    <2> SUFFICES ASSUME NEW k \in 0 .. d, NEW s \in Spaces, s[1] = w, a <= s[2],
                        2 * (s[2] - a) + 2 <= k
                 PROVE  f[<<w, s[2] + 1>>] \in Values
      BY SpaceFacts DEF Shifting, Placings
    <2>1. s[2] \in Int
      BY SpaceFacts
    <2>2. s[2] + 1 \in Spots
      BY <1>1, <2>1, SpaceFacts
    <2> QED  BY <2>2, SpaceFacts DEF Placings
  <1>7. Shifting(f, w, a, 0) = f
    <2>1. ASSUME NEW s \in Spaces
          PROVE  ~(a <= s[2] /\ 2 * (s[2] - a) + 2 <= 0) /\ ~(2 * (s[2] - a) + 1 = 0)
      <3>1. s[2] \in Int
        BY SpaceFacts
      <3> QED  BY <3>1
    <2> QED  BY <2>1 DEF Shifting, Placings
  <1>8. Leads(f, steps, last)
    <2> HIDE DEF steps
    <2>1. t \in [0 .. d -> Placings] /\ t[0] = f /\ t[d] = last
      BY <1>1, <1>6, <1>7
    <2>2. ASSUME NEW k \in 1 .. d PROVE Takes(t[k - 1], steps[k], t[k])
      <3>1. k - 1 \in 0 .. d /\ k \in 0 .. d
        BY <1>1
      <3>2. t[k - 1] = Shifting(f, w, a, k - 1) /\ t[k] = Shifting(f, w, a, k)
        BY <3>1
      <3> HIDE DEF t
      <3> QED  BY <1>4, <3>2, Zenon
    <2> HIDE DEF t, d, last
    <2>3. Trace(t, steps, f, last)
      BY <1>5, <2>1, <2>2 DEF Trace
    <2> QED  BY <1>5, <2>3, Zenon DEF Leads
  <1>9. last \in Placings /\ last[<<w, n>>] = b.slots[n] /\ n \in Spots /\ n \in 1 .. n
    <2>1. n \in 1 .. n /\ d \in 0 .. d
      BY <1>1
    <2>2. <<w, n>> \in Spaces
      BY <1>3, <2>1
    <2>3. ~(2 * (n - a) + 2 <= d) /\ ~(2 * (n - a) + 1 = d)
      BY <1>1
    <2>4. last[<<w, n>>] = f[<<w, n>>]
      BY <2>2, <2>3, Zenon DEF Shifting
    <2> QED  BY <1>3, <1>6, <2>1, <2>4
  <1>10. /\ Leads(last, <<Drop(b.slots[n])>>, Put(last, w, n, Null))
         /\ Put(last, w, n, Null) \in Placings
    <2> HIDE DEF last
    <2> QED  BY <1>9, LeadsDrop
  <1>11. Put(last, w, n, Null) = Shifted(f, w, a, n)
    <2>1. ASSUME NEW s \in Spaces
          PROVE  (IF s[1] = w /\ s[2] = n THEN Null ELSE last[s])
                 = (IF s[1] = w /\ s[2] \in a .. n - 1 THEN f[<<w, s[2] + 1>>]
                    ELSE IF s[1] = w /\ s[2] = n THEN Null ELSE f[s])
      <3>0. s[2] \in Int
        BY SpaceFacts
      <3>1. /\ a <= s[2] /\ 2 * (s[2] - a) + 2 <= d <=> s[2] \in a .. n - 1
            /\ ~(2 * (s[2] - a) + 1 = d)
            /\ s[2] = n => ~(s[2] \in a .. n - 1)
        BY <1>1, <3>0
      <3>2. last[s] = IF s[1] = w /\ a <= s[2] /\ 2 * (s[2] - a) + 2 <= d
                      THEN f[<<w, s[2] + 1>>]
                      ELSE IF s[1] = w /\ 2 * (s[2] - a) + 1 = d THEN Null ELSE f[s]
        BY DEF Shifting
      <3> HIDE DEF last, d
      <3> QED  BY <3>1, <3>2, Zenon
    <2> HIDE DEF last
    <2> QED  BY <2>1, Zenon DEF Put, Shifted
  <1> HIDE DEF steps, last
  <1>12. Leads(f, steps \o <<Drop(b.slots[n])>>, Put(last, w, n, Null))
    BY <1>8, <1>10, LeadsOn
  <1> QED  BY <1>2, <1>10, <1>11, <1>12

(* Pointers that move count as before.                                     *)
LEMMA MovesKeepExact ==
  ASSUME NEW f \in Placings, NEW g \in Placings, NEW h, Exact(h, f),
         NEW move \in [Spaces -> Spaces],
         \A s \in Spaces : move[move[s]] = s /\ g[s] = f[move[s]]
  PROVE  Exact(h, g)
  <1>1. ASSUME NEW o
        PROVE  /\ Cardinality(HeldAt(g, o)) = Cardinality(HeldAt(f, o))
               /\ HeldAt(g, o) = {} <=> HeldAt(f, o) = {}
    <2> DEFINE S == HeldAt(f, o)
               T == HeldAt(g, o)
               m == [s \in S |-> move[s]]
    <2>1. \A s \in S : move[s] \in T
      BY DEF HeldAt
    <2>2. \A s \in T : move[s] \in S /\ move[move[s]] = s
      BY DEF HeldAt
    <2>3. \A s \in S : move[move[s]] = s
      BY DEF HeldAt
    <2> HIDE DEF S, T
    <2>4. m \in [S -> T]
      BY <2>1
    <2>5. \A s, r \in S : m[s] = m[r] => s = r
      BY <2>3
    <2>6. \A s \in T : \E r \in S : m[r] = s
      BY <2>2
    <2>7. m \in Bijection(S, T)
      BY <2>4, <2>5, <2>6 DEF Bijection, Injection, Surjection, IsInjective
    <2>8. ExistsBijection(S, T)
      <3> HIDE DEF m
      <3> QED  BY <2>7, Zenon DEF ExistsBijection
    <2>9. IsFiniteSet(S)
      BY FiniteSpaces DEF S
    <2>10. Cardinality(T) = Cardinality(S)
      BY <2>8, <2>9, FS_Bijection
    <2> QED  BY <2>1, <2>2, <2>10 DEF S, T
  <1> QED  BY <1>1 DEF Exact

-----------------------------------------------------------------------------
(* Buffers: up to their size their slots are pointers, behind it raw.      *)
Slot(i, n, x) == IF i <= n THEN x \in Values ELSE x = Raw
Buffers ==
  {b \in [slots : Seq(Values \cup {Raw}), size : 0 .. MaxSize] :
     b.size <= Len(b.slots) /\ \A i \in 1 .. Len(b.slots) : Slot(i, b.size, b.slots[i])}

(* c holds n pointers, the first k of them those of b.                     *)
Extends(c, n, b, k) ==
  c \in Buffers /\ c.size = n /\ \A i \in 1 .. k : c.slots[i] = b.slots[i]

LEMMA BufferFacts ==
  ASSUME NEW b \in Buffers
  PROVE  /\ b = [slots |-> b.slots, size |-> b.size]
         /\ b.size \in Nat /\ b.size <= MaxSize
         /\ Len(b.slots) \in Nat /\ b.size <= Len(b.slots)
         /\ b.slots \in [1 .. Len(b.slots) -> Values \cup {Raw}] /\ DOMAIN b.slots = 1 .. Len(b.slots)
         /\ \A i \in 1 .. Len(b.slots) : Slot(i, b.size, b.slots[i])
         /\ \A i \in 1 .. b.size : b.slots[i] \in Values
  <1>1. /\ b \in [slots : Seq(Values \cup {Raw}), size : 0 .. MaxSize]
        /\ b.size <= Len(b.slots) /\ \A i \in 1 .. Len(b.slots) : Slot(i, b.size, b.slots[i])
    BY Zenon DEF Buffers
  <1>2. b.slots \in Seq(Values \cup {Raw}) /\ b.size \in 0 .. MaxSize
        /\ b = [slots |-> b.slots, size |-> b.size]
    BY <1>1
  <1>3. Len(b.slots) \in Nat /\ b.slots \in [1 .. Len(b.slots) -> Values \cup {Raw}]
        /\ DOMAIN b.slots = 1 .. Len(b.slots)
    BY <1>2, LenProperties, Zenon
  <1>4. \A i \in 1 .. b.size : b.slots[i] \in Values
    <2> SUFFICES ASSUME NEW i \in 1 .. b.size PROVE b.slots[i] \in Values
      OBVIOUS
    <2>1. i \in 1 .. Len(b.slots) /\ i <= b.size
      BY <1>1, <1>2, <1>3
    <2> QED  BY <1>1, <2>1 DEF Slot
  <1>5. b.size \in Nat /\ b.size <= MaxSize
    BY <1>2, SpaceFacts
  <1> QED  BY <1>1, <1>2, <1>3, <1>4, <1>5

LEMMA BufferMade ==
  ASSUME NEW m \in Nat, NEW s, s = [i \in 1 .. m |-> s[i]], NEW n \in Nat, n <= m, n <= MaxSize,
         \A i \in 1 .. m : Slot(i, n, s[i])
  PROVE  [slots |-> s, size |-> n] \in Buffers /\ Len(s) = m
  <1>1. \A i \in 1 .. m : s[i] \in Values \cup {Raw}
    BY DEF Slot
  <1>2. s \in Seq(Values \cup {Raw}) /\ Len(s) = m
    BY <1>1, SMTT(30)
  <1>3. n \in 0 .. MaxSize
    BY SpaceFacts
  <1> DEFINE b == [slots |-> s, size |-> n]
  <1>4. b \in [slots : Seq(Values \cup {Raw}), size : 0 .. MaxSize] /\ b.slots = s /\ b.size = n
    BY <1>2, <1>3
  <1> HIDE DEF b
  <1>5. b \in Buffers
    BY <1>2, <1>4, Zenon DEF Buffers
  <1> QED  BY <1>2, <1>5 DEF b

LEMMA ElementsFacts ==
  ASSUME NEW b \in Buffers
  PROVE  /\ Elements(b) \in Seq(Values) /\ Len(Elements(b)) = b.size
         /\ \A i \in 1 .. b.size : Elements(b)[i] = b.slots[i]
         /\ Elements(b) = [i \in 1 .. b.size |-> b.slots[i]]
  <1>1. /\ b.size \in Nat /\ Len(b.slots) \in Nat /\ b.size <= Len(b.slots)
        /\ b.slots \in [1 .. Len(b.slots) -> Values \cup {Raw}]
        /\ \A i \in 1 .. b.size : b.slots[i] \in Values
    BY BufferFacts
  <1>2. b.slots \in Seq(Values \cup {Raw}) /\ b.size \in 0 .. Len(b.slots)
    BY <1>1, SMTT(30)
  <1>3. FirstPart(Elements(b), Values \cup {Raw}, b.slots, b.size)
    BY <1>2, PrefixFacts DEF Elements
  <1>4. /\ Elements(b) \in Seq(Values \cup {Raw}) /\ Len(Elements(b)) = b.size
        /\ \A i \in 1 .. b.size : Elements(b)[i] = b.slots[i]
    BY <1>3 DEF FirstPart
  <1>5. Elements(b) = [i \in 1 .. b.size |-> b.slots[i]]
    BY <1>4, LenProperties, SMTT(30)
  <1>6. Elements(b) \in Seq(Values)
    BY <1>1, <1>5, SMTT(30)
  <1> QED  BY <1>4, <1>5, <1>6

LEMMA ReservedFacts ==
  ASSUME NEW b \in Buffers, NEW c \in Nat
  PROVE  /\ Extends(Reserved(b, c), b.size, b, b.size)
         /\ Len(Reserved(b, c).slots) = IF c < Len(b.slots) THEN Len(b.slots) ELSE c
  <1> DEFINE n == b.size
             e == Elements(b)
             r == [i \in 1 .. c - n |-> Raw]
             s == e \o r
  <1>1. n \in Nat /\ n <= MaxSize /\ Len(b.slots) \in Nat /\ n <= Len(b.slots)
        /\ b = [slots |-> b.slots, size |-> n] /\ \A i \in 1 .. n : b.slots[i] \in Values
    BY BufferFacts
  <1>2. CASE c < Len(b.slots)
    BY <1>2, Zenon DEF Reserved, Capacity, Extends
  <1>3. CASE ~(c < Len(b.slots))
    <2>1. n <= c /\ c - n \in Nat
      BY <1>1, <1>3
    <2>2. /\ e \in Seq(Values \cup {Raw}) /\ Len(e) = n
          /\ \A i \in 1 .. n : e[i] = b.slots[i]
      <3>1. Values \subseteq Values \cup {Raw}
        OBVIOUS
      <3>2. e \in Seq(Values) /\ Len(e) = n /\ \A i \in 1 .. n : e[i] = b.slots[i]
        BY ElementsFacts
      <3> HIDE DEF e, n
      <3> QED  BY <3>1, <3>2
    <2>3. r \in Seq(Values \cup {Raw}) /\ Len(r) = c - n /\ \A i \in 1 .. c - n : r[i] = Raw
      <3> HIDE DEF n
      <3> QED  BY <2>1, SMTT(30)
    <2> HIDE DEF e, r
    <2>4. Joined(s, Values \cup {Raw}, e, n, r, c - n)
      BY <2>2, <2>3, ConcatFacts
    <2>5. /\ s \in Seq(Values \cup {Raw}) /\ Len(s) = n + (c - n)
          /\ \A i \in 1 .. n : s[i] = e[i]
          /\ \A i \in n + 1 .. n + (c - n) : s[i] = r[i - n]
      BY <2>4 DEF Joined
    <2> HIDE DEF s, n
    <2>6. n + (c - n) = c
      BY <1>1
    <2>7. Len(s) = c /\ s = [i \in 1 .. c |-> s[i]]
      BY <2>5, <2>6, LenProperties
    <2>8. \A i \in 1 .. c : Slot(i, n, s[i])
      <3> SUFFICES ASSUME NEW i \in 1 .. c PROVE Slot(i, n, s[i])
        OBVIOUS
      <3>1. CASE i <= n
        <4>1. i \in 1 .. n
          BY <1>1, <3>1
        <4> QED  BY <1>1, <2>2, <2>5, <3>1, <4>1 DEF Slot
      <3>2. CASE ~(i <= n)
        <4>1. i \in n + 1 .. n + (c - n) /\ i - n \in 1 .. c - n
          BY <1>1, <2>1, <3>2
        <4> QED  BY <2>3, <2>5, <3>2, <4>1 DEF Slot
      <3> QED  BY <3>1, <3>2
    <2> DEFINE new == [slots |-> s, size |-> n]
    <2>9. new \in Buffers
      BY <1>1, <2>1, <2>7, <2>8, BufferMade
    <2>10. Reserved(b, c) = new
      <3>1. Reserved(b, c) = [b EXCEPT !.slots = Elements(b) \o [i \in 1 .. c - b.size |-> Raw]]
        BY <1>3 DEF Reserved, Capacity
      <3> QED  BY <1>1, <3>1 DEF n, s, e, r
    <2>11. new.slots = s /\ new.size = n
      OBVIOUS
    <2> HIDE DEF new
    <2> QED  BY <1>3, <2>2, <2>5, <2>7, <2>9, <2>10, <2>11 DEF Extends, n
  <1> QED  BY <1>2, <1>3

LEMMA GrownFacts ==
  ASSUME NEW b \in Buffers
  PROVE  Extends(Grown(b), b.size, b, b.size) /\ b.size + 1 <= Len(Grown(b).slots)
  <1>1. Len(b.slots) \in Nat /\ b.size \in Nat /\ b.size <= Len(b.slots)
    BY BufferFacts
  <1>2. CASE Len(b.slots) = 0
    <2>1. Grown(b) = Reserved(b, 4)
      BY <1>2 DEF Grown, Capacity
    <2> QED  BY <1>1, <1>2, <2>1, ReservedFacts
  <1>3. CASE Len(b.slots) # 0 /\ Len(b.slots) = b.size
    <2>1. Grown(b) = Reserved(b, Len(b.slots) * 2) /\ Len(b.slots) * 2 \in Nat
      BY <1>1, <1>3 DEF Grown, Capacity
    <2> QED  BY <1>1, <1>3, <2>1, ReservedFacts
  <1>4. CASE Len(b.slots) # 0 /\ Len(b.slots) # b.size
    <2>1. Grown(b) = b
      BY <1>4 DEF Grown, Capacity
    <2> QED  BY <1>1, <1>4, <2>1 DEF Extends
  <1> QED  BY <1>2, <1>3, <1>4

LEMMA PushedFacts ==
  ASSUME NEW b \in Buffers, b.size < MaxSize, NEW x \in Values
  PROVE  Extends(Pushed(b, x), b.size + 1, b, b.size) /\ Pushed(b, x).slots[b.size + 1] = x
  <1> DEFINE n == b.size
             g == Grown(b)
             m == Len(g.slots)
             s == [g.slots EXCEPT ![n + 1] = x]
             new == [slots |-> s, size |-> n + 1]
  <1>1. Extends(g, n, b, n) /\ n + 1 <= m /\ n \in Nat
    BY GrownFacts, BufferFacts
  <1>2. g \in Buffers /\ g.size = n /\ \A i \in 1 .. n : g.slots[i] = b.slots[i]
    BY <1>1 DEF Extends
  <1> HIDE DEF g
  <1>3. m \in Nat /\ DOMAIN g.slots = 1 .. m /\ \A i \in 1 .. m : Slot(i, n, g.slots[i])
    BY <1>2, BufferFacts
  <1> HIDE DEF m
  <1>4. s = [i \in 1 .. m |-> s[i]] /\ \A i \in 1 .. m : s[i] = IF i = n + 1 THEN x ELSE g.slots[i]
    BY <1>3
  <1> HIDE DEF s
  <1>5. \A i \in 1 .. m : Slot(i, n + 1, s[i])
    <2> HIDE DEF n
    <2> QED  BY <1>1, <1>3, <1>4 DEF Slot
  <1>6. new \in Buffers
    <2>1. n + 1 \in Nat /\ n + 1 <= MaxSize
      BY <1>1, SpaceFacts
    <2> HIDE DEF n
    <2> QED  BY <1>1, <1>3, <1>4, <1>5, <2>1, BufferMade
  <1>7. Pushed(b, x) = new
    BY Zenon DEF Pushed, s, g
  <1>8. \A i \in 1 .. n : s[i] = b.slots[i]
    BY <1>1, <1>2, <1>3, <1>4
  <1>9. s[n + 1] = x
    BY <1>1, <1>3, <1>4
  <1>10. new.slots = s /\ new.size = n + 1
    OBVIOUS
  <1> HIDE DEF new
  <1> QED  BY <1>6, <1>7, <1>8, <1>9, <1>10 DEF Extends

LEMMA TruncatedFacts ==
  ASSUME NEW b \in Buffers, NEW n \in Nat, n <= b.size
  PROVE  Extends(Truncated(b, n), n, b, n)
  <1> DEFINE m == Len(b.slots)
             s == [i \in DOMAIN b.slots |-> IF i > n THEN Raw ELSE b.slots[i]]
             new == [slots |-> s, size |-> n]
  <1>1. /\ b.size \in Nat /\ b.size <= MaxSize /\ m \in Nat /\ b.size <= m
        /\ DOMAIN b.slots = 1 .. m /\ \A i \in 1 .. m : Slot(i, b.size, b.slots[i])
    BY BufferFacts
  <1> HIDE DEF m
  <1>2. s = [i \in 1 .. m |-> s[i]] /\ \A i \in 1 .. m : s[i] = IF i > n THEN Raw ELSE b.slots[i]
    BY <1>1
  <1> HIDE DEF s
  <1>3. \A i \in 1 .. m : Slot(i, n, s[i])
    BY <1>1, <1>2 DEF Slot
  <1>4. new \in Buffers
    <2>1. n <= m /\ n <= MaxSize
      BY <1>1, SpaceFacts
    <2> QED  BY <1>1, <1>2, <1>3, <2>1, BufferMade
  <1>5. Truncated(b, n) = new
    BY Zenon DEF Truncated, s
  <1>6. \A i \in 1 .. n : s[i] = b.slots[i]
    BY <1>1, <1>2
  <1>7. new.slots = s /\ new.size = n
    OBVIOUS
  <1> HIDE DEF new
  <1> QED  BY <1>4, <1>5, <1>6, <1>7 DEF Extends

LEMMA RemovedFacts ==
  ASSUME NEW b \in Buffers, NEW a \in Nat \ {0}, a <= b.size
  PROVE  /\ Extends(Removed(b, a), b.size - 1, b, a - 1)
         /\ \A i \in a .. b.size - 1 : Removed(b, a).slots[i] = b.slots[i + 1]
  <1> DEFINE n == b.size
             m == Len(b.slots)
             s == [i \in DOMAIN b.slots |->
                     IF i \in a .. n - 1 THEN b.slots[i + 1] ELSE b.slots[i]]
             c == [slots |-> s, size |-> n]
  <1>1. /\ n \in Nat /\ n <= MaxSize /\ m \in Nat /\ n <= m
        /\ b = [slots |-> b.slots, size |-> n]
        /\ DOMAIN b.slots = 1 .. m /\ \A i \in 1 .. m : Slot(i, n, b.slots[i])
    BY BufferFacts
  <1>2. Removed(b, a) = Truncated(c, n - 1)
    <2>1. [b EXCEPT !.slots = [i \in DOMAIN @ |->
                                 IF i \in a .. b.size - 1 THEN @[i + 1] ELSE @[i]]] = c
      <3>1. b = [slots |-> b.slots, size |-> n]
        BY <1>1, Zenon
      <3> QED  BY <3>1
    <2> HIDE DEF c
    <2> QED  BY <2>1, Zenon DEF Removed
  <1> HIDE DEF m
  <1>3. /\ s = [i \in 1 .. m |-> s[i]]
        /\ \A i \in 1 .. m : s[i] = IF i \in a .. n - 1 THEN b.slots[i + 1] ELSE b.slots[i]
    BY <1>1
  <1> HIDE DEF s
  <1>4. \A i \in 1 .. m : Slot(i, n, s[i])
    <2> SUFFICES ASSUME NEW i \in 1 .. m PROVE Slot(i, n, s[i])
      OBVIOUS
    <2>1. CASE i \in a .. n - 1
      <3>1. i + 1 \in 1 .. m /\ i <= n /\ i + 1 <= n
        BY <1>1, <2>1
      <3> HIDE DEF n
      <3> QED  BY <1>1, <1>3, <2>1, <3>1 DEF Slot
    <2>2. CASE i \notin a .. n - 1
      BY <1>1, <1>3, <2>2
    <2> QED  BY <2>1, <2>2
  <1>5. c \in Buffers /\ c.size = n /\ c.slots = s
    <2> HIDE DEF n
    <2> QED  BY <1>1, <1>3, <1>4, BufferMade
  <1> HIDE DEF c
  <1>6. Extends(Truncated(c, n - 1), n - 1, c, n - 1)
    <2>1. n - 1 \in Nat /\ n - 1 <= n
      BY <1>1
    <2> QED  BY <1>5, <2>1, TruncatedFacts
  <1> DEFINE r == Removed(b, a)
  <1>7. r \in Buffers /\ r.size = n - 1 /\ \A i \in 1 .. n - 1 : r.slots[i] = s[i]
    BY <1>2, <1>5, <1>6 DEF Extends
  <1> HIDE DEF r
  <1>8. ASSUME NEW i \in 1 .. a - 1 PROVE r.slots[i] = b.slots[i]
    <2>1. i \in 1 .. n - 1 /\ i \in 1 .. m /\ i \notin a .. n - 1
      BY <1>1
    <2> QED  BY <1>3, <1>7, <2>1, Zenon
  <1>9. ASSUME NEW i \in a .. n - 1 PROVE r.slots[i] = b.slots[i + 1]
    <2>1. i \in 1 .. n - 1 /\ i \in 1 .. m
      BY <1>1
    <2> QED  BY <1>3, <1>7, <2>1, Zenon
  <1> QED  BY <1>7, <1>8, <1>9 DEF r, Extends

LEMMA CopyOfFacts ==
  ASSUME NEW b \in Buffers
  PROVE  Extends(CopyOf(b), b.size, b, b.size)
  <1> DEFINE n == b.size
             e == Elements(b)
             new == [slots |-> e, size |-> n]
  <1>1. n \in Nat /\ n <= MaxSize /\ \A i \in 1 .. n : b.slots[i] \in Values
    BY BufferFacts
  <1>2. /\ e = [i \in 1 .. n |-> b.slots[i]]
        /\ \A i \in 1 .. n : e[i] = b.slots[i]
    BY ElementsFacts
  <1> HIDE DEF e, n
  <1>3. e = [i \in 1 .. n |-> e[i]] /\ \A i \in 1 .. n : Slot(i, n, e[i])
    BY <1>1, <1>2 DEF Slot
  <1>4. new \in Buffers /\ new.slots = e /\ new.size = n
    BY <1>1, <1>3, BufferMade
  <1>5. CopyOf(b) = new
    BY DEF CopyOf, e, n
  <1> HIDE DEF new
  <1> QED  BY <1>2, <1>4, <1>5 DEF Extends, n

LEMMA EmptyFacts == Empty \in Buffers /\ Empty.size = 0 /\ Elements(Empty) = <<>>
  <1> DEFINE s == <<>>
  <1>1. s = [i \in 1 .. 0 |-> s[i]] /\ \A i \in 1 .. 0 : Slot(i, 0, s[i])
    OBVIOUS
  <1>2. 0 \in Nat /\ 0 <= 0 /\ 0 <= MaxSize
    BY SpaceFacts
  <1> HIDE DEF s
  <1>3. [slots |-> s, size |-> 0] \in Buffers
    BY <1>1, <1>2, BufferMade
  <1>4. Empty \in Buffers /\ Empty.size = 0
    BY <1>3 DEF Empty, s
  <1>5. Elements(Empty) = [i \in 1 .. 0 |-> Empty.slots[i]]
    BY <1>4, ElementsFacts
  <1>6. Elements(Empty) = <<>>
    BY <1>5, SMTT(30)
  <1> QED  BY <1>4, <1>6

(* c is b with the first k of the values behind its elements.              *)
Appended(c, b, values, k) ==
  Extends(c, b.size + k, b, b.size) /\ \A i \in 1 .. k : c.slots[b.size + i] = values[i]

LEMMA AppendedOne ==
  ASSUME NEW b \in Buffers, NEW c, NEW values \in Seq(Values), NEW i \in 1 .. Len(values),
         b.size + Len(values) <= MaxSize, Appended(c, b, values, i - 1)
  PROVE  Appended(Pushed(c, values[i]), b, values, i)
  <1> DEFINE n == b.size
             x == values[i]
             d == Pushed(c, x)
  <1>0. n \in Nat /\ Len(values) \in Nat /\ x \in Values /\ i \in Nat
    BY BufferFacts, LenProperties, ElementOfSeq
  <1>1. /\ c \in Buffers /\ c.size = n + (i - 1) /\ \A j \in 1 .. n : c.slots[j] = b.slots[j]
        /\ \A j \in 1 .. i - 1 : c.slots[n + j] = values[j]
    BY DEF Appended, Extends
  <1>2. c.size < MaxSize /\ c.size + 1 = n + i
    BY <1>0, <1>1, SpaceFacts
  <1>3. /\ d \in Buffers /\ d.size = n + i /\ d.slots[n + i] = x
        /\ \A j \in 1 .. c.size : d.slots[j] = c.slots[j]
    BY <1>0, <1>1, <1>2, PushedFacts DEF Extends
  <1> HIDE DEF d, x
  <1>4. ASSUME NEW j \in 1 .. n PROVE d.slots[j] = b.slots[j]
    <2>1. j \in 1 .. c.size
      BY <1>0, <1>1
    <2> QED  BY <1>1, <1>3, <2>1
  <1>5. ASSUME NEW j \in 1 .. i PROVE d.slots[n + j] = values[j]
    <2>1. CASE j = i
      BY <1>3, <2>1 DEF x
    <2>2. CASE j # i
      <3>1. j \in 1 .. i - 1 /\ n + j \in 1 .. c.size
        BY <1>0, <1>1, <2>2
      <3> HIDE DEF n
      <3> QED  BY <1>1, <1>3, <3>1, Zenon
    <2> QED  BY <2>1, <2>2
  <1> QED  BY <1>3, <1>4, <1>5 DEF Appended, Extends, d, x

PushSteps(values) ==
  [i \in Nat |-> [b \in Buffers |->
     IF i \in 1 .. Len(values) /\ b.size < MaxSize THEN Pushed(b, values[i]) ELSE b]]

LEMMA PushedAllFacts ==
  ASSUME NEW b \in Buffers, NEW values \in Seq(Values), b.size + Len(values) <= MaxSize
  PROVE  Appended(PushedAll(b, values), b, values, Len(values))
  <1> DEFINE n == Len(values)
             g == PushSteps(values)
             Defined(f) == f = [i \in 0 .. n |-> IF i = 0 THEN b ELSE Pushed(f[i - 1], values[i])]
             pushed == CHOOSE f : Defined(f)
  <1>0. n \in Nat /\ b.size \in Nat /\ \A i \in 1 .. n : values[i] \in Values
    BY LenProperties, ElementOfSeq, BufferFacts
  <1>1. g \in [Nat -> [Buffers -> Buffers]]
    <2>1. ASSUME NEW i \in Nat, NEW c \in Buffers
          PROVE  (IF i \in 1 .. n /\ c.size < MaxSize THEN Pushed(c, values[i]) ELSE c) \in Buffers
      <3>1. CASE i \in 1 .. n /\ c.size < MaxSize
        <4>1. values[i] \in Values
          BY <1>0, <3>1, Zenon
        <4> QED  BY <3>1, <4>1, PushedFacts DEF Extends
      <3>2. CASE ~(i \in 1 .. n /\ c.size < MaxSize)
        BY <3>2, Zenon
      <3> QED  BY <3>1, <3>2
    <2> QED  BY <2>1, Zenon DEF PushSteps
  <1>2. PushedAll(b, values) = pushed[n]
    BY Zenon DEF PushedAll
  <1>3. ASSUME NEW i \in 1 .. n, NEW c \in Buffers, c.size < MaxSize
        PROVE  g[i][c] = Pushed(c, values[i])
    <2>1. i \in Nat
      BY <1>0
    <2> QED  BY <1>3, <2>1, Zenon DEF PushSteps
  <1>4. Appended(b, b, values, 0)
    BY <1>0 DEF Appended, Extends
  <1>5. \A i \in 1 .. n : \A c : Appended(c, b, values, i - 1) => Appended(Pushed(c, values[i]), b, values, i)
    BY AppendedOne
  <1>6. \A i \in 1 .. n : \A c : Appended(c, b, values, i - 1) => c \in Buffers /\ c.size < MaxSize
    BY <1>0, SpaceFacts DEF Appended, Extends
  <1> HIDE DEF g, n
  <1>7. \E f : Defined(f)
    <2>1. PICK f : Iterates(f, n, Buffers, b, g)
      BY <1>0, <1>1, IterationExists
    <2>2. f \in [0 .. n -> Buffers] /\ f[0] = b /\ \A i \in 1 .. n : f[i] = g[i][f[i - 1]]
      BY <2>1 DEF Iterates
    <2> DEFINE S == {i \in Nat : i <= n => Appended(f[i], b, values, i)}
    <2>3. 0 \in S
      BY <1>4, <2>2
    <2>4. ASSUME NEW i \in Nat, i \in S PROVE i + 1 \in S
      <3> SUFFICES ASSUME i + 1 <= n PROVE Appended(f[i + 1], b, values, i + 1)
        OBVIOUS
      <3>1. i + 1 \in 1 .. n /\ (i + 1) - 1 = i /\ i <= n
        BY <1>0
      <3>2. Appended(f[i], b, values, i)
        BY <2>4, <3>1
      <3>3. f[i + 1] = Pushed(f[i], values[i + 1])
        BY <1>3, <1>6, <2>2, <3>1, <3>2
      <3> QED  BY <1>5, <3>1, <3>2, <3>3
    <2> HIDE DEF S
    <2>5. \A i \in Nat : i \in S
      BY <2>3, <2>4, SetInduction
    <2>6. ASSUME NEW i \in 0 .. n
          PROVE  f[i] = IF i = 0 THEN b ELSE Pushed(f[i - 1], values[i])
      <3>1. CASE i = 0
        BY <2>2, <3>1, Zenon
      <3>2. CASE i # 0
        <4>1. i \in 1 .. n /\ i - 1 \in Nat /\ i - 1 <= n
          BY <1>0, <3>2
        <4>2. Appended(f[i - 1], b, values, i - 1)
          BY <2>5, <4>1 DEF S
        <4> QED  BY <1>3, <1>6, <2>2, <3>2, <4>1, <4>2, Zenon
      <3> QED  BY <3>1, <3>2
    <2>7. Defined(f)
      BY <2>2, <2>6
    <2> QED  BY <2>7, Zenon
  <1>8. Defined(pushed)
    BY <1>7, Zenon
  <1> HIDE DEF pushed
  <1> DEFINE S == {i \in Nat : i <= n => Appended(pushed[i], b, values, i)}
  <1>9. 0 \in S
    <2>1. pushed[0] = b
      BY <1>0, <1>8
    <2> QED  BY <1>4, <2>1
  <1>10. ASSUME NEW i \in Nat, i \in S PROVE i + 1 \in S
    <2> SUFFICES ASSUME i + 1 <= n PROVE Appended(pushed[i + 1], b, values, i + 1)
      OBVIOUS
    <2>1. i + 1 \in 1 .. n /\ (i + 1) - 1 = i /\ i <= n /\ i + 1 \in 0 .. n /\ i + 1 # 0
      BY <1>0
    <2>2. Appended(pushed[i], b, values, i)
      BY <1>10, <2>1
    <2>3. pushed[i + 1] = Pushed(pushed[i], values[i + 1])
      BY <1>8, <2>1
    <2> QED  BY <1>5, <2>1, <2>2, <2>3
  <1> HIDE DEF S
  <1>11. \A i \in Nat : i \in S
    BY <1>9, <1>10, SetInduction
  <1>12. Appended(pushed[n], b, values, n)
    BY <1>0, <1>11 DEF S
  <1> QED  BY <1>2, <1>12 DEF n

-----------------------------------------------------------------------------
(* Which pointer is where in a state.                                      *)
Placed(vc, hd) ==
  [s \in Spaces |->
     IF s[2] = 0 THEN IF s[1] \in Pointers THEN hd[s[1]] ELSE Null
     ELSE IF s[1] \in Vectors /\ s[2] \in 1 .. vc[s[1]].size THEN vc[s[1]].slots[s[2]] ELSE Null]

LEMMA PlacedFacts ==
  ASSUME NEW vc \in [Vectors -> Buffers], NEW hd \in [Pointers -> Values]
  PROVE  /\ Placed(vc, hd) \in Placings
         /\ \A p \in Pointers : <<p, 0>> \in Spaces /\ Placed(vc, hd)[<<p, 0>>] = hd[p]
         /\ \A v \in Vectors, i \in Int : i \in 1 .. vc[v].size =>
              i \in Spots /\ <<v, i>> \in Spaces /\ Placed(vc, hd)[<<v, i>>] = vc[v].slots[i]
         /\ \A v \in Vectors, i \in Spots : i > vc[v].size => Placed(vc, hd)[<<v, i>>] = Null
         /\ \A w \in Owners, i \in Spots : i < 0 => Placed(vc, hd)[<<w, i>>] = Null
  <1>1. \A v \in Vectors : vc[v] \in Buffers /\ vc[v].size \in Nat /\ vc[v].size <= MaxSize
                           /\ \A i \in 1 .. vc[v].size : vc[v].slots[i] \in Values
    BY BufferFacts
  <1>2. Vectors \subseteq Owners /\ Pointers \subseteq Owners
    BY DEF Owners
  <1>3. Placed(vc, hd) \in Placings
    BY <1>1, SpaceFacts, Zenon DEF Placed, Placings
  <1>4. ASSUME NEW p \in Pointers PROVE <<p, 0>> \in Spaces /\ Placed(vc, hd)[<<p, 0>>] = hd[p]
    <2>1. <<p, 0>> \in Spaces
      BY <1>2, SpaceFacts
    <2> QED  BY <2>1 DEF Placed
  <1>5. ASSUME NEW v \in Vectors, NEW i \in Int, i \in 1 .. vc[v].size
        PROVE  i \in Spots /\ <<v, i>> \in Spaces /\ Placed(vc, hd)[<<v, i>>] = vc[v].slots[i]
    <2>1. i \in Spots /\ i # 0
      BY <1>1, <1>5, SpaceFacts
    <2>2. <<v, i>> \in Spaces
      BY <1>2, <2>1, SpaceFacts
    <2> QED  BY <1>5, <2>1, <2>2 DEF Placed
  <1>6. ASSUME NEW v \in Vectors, NEW i \in Spots, i > vc[v].size
        PROVE  Placed(vc, hd)[<<v, i>>] = Null
    <2>1. i # 0 /\ ~(i \in 1 .. vc[v].size)
      BY <1>1, <1>6, SpaceFacts
    <2>2. <<v, i>> \in Spaces
      BY <1>2, SpaceFacts
    <2> QED  BY <2>1, <2>2 DEF Placed
  <1>7. ASSUME NEW w \in Owners, NEW i \in Spots, i < 0
        PROVE  Placed(vc, hd)[<<w, i>>] = Null
    <2>1. i # 0 /\ \A n : ~(i \in 1 .. n)
      BY <1>7, SpaceFacts
    <2>2. <<w, i>> \in Spaces
      BY SpaceFacts
    <2> QED  BY <2>1, <2>2 DEF Placed
  <1> QED  BY <1>3, <1>4, <1>5, <1>6, <1>7

(* In a family one member has become another.                              *)
Became(c2, c, m, x) == c2[m] = x /\ \A w \in DOMAIN c : w # m => c2[w] = c[w]

(* g is f but for the slots of v, which are those of b.                    *)
Placing(g, f, v, b) ==
  /\ \A s \in Spaces : s[1] = v /\ s[2] > 0 =>
       g[s] = IF s[2] <= b.size THEN b.slots[s[2]] ELSE Null
  /\ \A s \in Spaces : ~(s[1] = v /\ s[2] > 0) => g[s] = f[s]

LEMMA PlacedVector ==
  ASSUME NEW vc \in [Vectors -> Buffers], NEW hd \in [Pointers -> Values],
         NEW vc2 \in [Vectors -> Buffers], NEW v \in Vectors, NEW b \in Buffers,
         Became(vc2, vc, v, b), NEW g \in Placings, Placing(g, Placed(vc, hd), v, b)
  PROVE  g = Placed(vc2, hd)
  <1>0. /\ \A s \in Spaces : s[1] = v /\ s[2] > 0 =>
             g[s] = IF s[2] <= b.size THEN b.slots[s[2]] ELSE Null
        /\ \A s \in Spaces : ~(s[1] = v /\ s[2] > 0) => g[s] = Placed(vc, hd)[s]
    BY DEF Placing
  <1>1. vc2 \in [Vectors -> Buffers] /\ vc2[v] = b /\ \A w \in Vectors : w # v => vc2[w] = vc[w]
    BY DEF Became
  <1>2. b.size \in Nat
    BY BufferFacts
  <1>3. ASSUME NEW s \in Spaces PROVE g[s] = Placed(vc2, hd)[s]
    <2>0. s[2] \in Int
      BY SpaceFacts
    <2>1. Placed(vc2, hd)[s] =
            IF s[2] = 0 THEN IF s[1] \in Pointers THEN hd[s[1]] ELSE Null
            ELSE IF s[1] \in Vectors /\ s[2] \in 1 .. vc2[s[1]].size
                 THEN vc2[s[1]].slots[s[2]] ELSE Null
      BY DEF Placed
    <2>2. Placed(vc, hd)[s] =
            IF s[2] = 0 THEN IF s[1] \in Pointers THEN hd[s[1]] ELSE Null
            ELSE IF s[1] \in Vectors /\ s[2] \in 1 .. vc[s[1]].size
                 THEN vc[s[1]].slots[s[2]] ELSE Null
      BY DEF Placed
    <2>3. CASE s[1] = v /\ s[2] > 0
      <3>1. s[2] # 0 /\ (s[2] \in 1 .. b.size <=> s[2] <= b.size)
        BY <1>2, <2>0, <2>3
      <3> QED  BY <1>0, <1>1, <2>1, <2>3, <3>1
    <2>4. CASE s[1] = v /\ ~(s[2] > 0)
      <3>1. \A n : ~(s[2] \in 1 .. n)
        BY <2>0, <2>4
      <3>2. Placed(vc2, hd)[s] = Placed(vc, hd)[s]
        BY <2>1, <2>2, <3>1
      <3> QED  BY <1>0, <2>4, <3>2
    <2>5. CASE s[1] # v
      <3>1. Placed(vc2, hd)[s] = Placed(vc, hd)[s]
        BY <1>1, <2>1, <2>2, <2>5, Zenon
      <3> QED  BY <1>0, <2>5, <3>1
    <2> QED  BY <2>3, <2>4, <2>5
  <1>4. Placed(vc2, hd) \in Placings
    BY <1>1, PlacedFacts
  <1> QED  BY <1>3, <1>4 DEF Placings

LEMMA PlacedPointer ==
  ASSUME NEW vc \in [Vectors -> Buffers], NEW hd \in [Pointers -> Values],
         NEW hd2 \in [Pointers -> Values], NEW p \in Pointers, NEW x \in Values,
         Became(hd2, hd, p, x)
  PROVE  Put(Placed(vc, hd), p, 0, x) = Placed(vc, hd2)
  <1>1. hd2 \in [Pointers -> Values] /\ hd2[p] = x /\ \A q \in Pointers : q # p => hd2[q] = hd[q]
    BY DEF Became
  <1>2. ASSUME NEW s \in Spaces
        PROVE  (IF s[1] = p /\ s[2] = 0 THEN x ELSE Placed(vc, hd)[s]) = Placed(vc, hd2)[s]
    <2>1. Placed(vc, hd2)[s] =
            IF s[2] = 0 THEN IF s[1] \in Pointers THEN hd2[s[1]] ELSE Null
            ELSE IF s[1] \in Vectors /\ s[2] \in 1 .. vc[s[1]].size
                 THEN vc[s[1]].slots[s[2]] ELSE Null
      BY DEF Placed
    <2>2. Placed(vc, hd)[s] =
            IF s[2] = 0 THEN IF s[1] \in Pointers THEN hd[s[1]] ELSE Null
            ELSE IF s[1] \in Vectors /\ s[2] \in 1 .. vc[s[1]].size
                 THEN vc[s[1]].slots[s[2]] ELSE Null
      BY DEF Placed
    <2> QED  BY <1>1, <2>1, <2>2, Zenon
  <1>3. Placed(vc, hd2) \in Placings
    BY <1>1, PlacedFacts
  <1> QED  BY <1>2, <1>3 DEF Put, Placings

LEMMA PlacedAt ==
  ASSUME NEW vc \in [Vectors -> Buffers], NEW hd \in [Pointers -> Values],
         NEW v \in Vectors, NEW s \in Spaces, s[1] = v, s[2] > 0
  PROVE  Placed(vc, hd)[s] = IF s[2] <= vc[v].size THEN vc[v].slots[s[2]] ELSE Null
  <1>1. s[2] \in Int /\ vc[v].size \in Nat
    BY SpaceFacts, BufferFacts
  <1>2. s[2] # 0 /\ (s[2] \in 1 .. vc[v].size <=> s[2] <= vc[v].size)
    BY <1>1
  <1> QED  BY <1>2, Zenon DEF Placed

LEMMA Pairs ==
  ASSUME NEW S, NEW a \in S, NEW b \in S, NEW c \in S
  PROVE  <<a>> \o <<b>> = <<a, b>> /\ Append(<<a, b>>, c) = <<a, b>> \o <<c>>
  <1> DEFINE two == <<a, b>>
             y == <<a>> \o <<b>>
             z == two \o <<c>>
             t == <<a, b, c>>
  <1>1. /\ <<a>> \in Seq(S) /\ Len(<<a>>) = 1 /\ <<b>> \in Seq(S) /\ Len(<<b>>) = 1
        /\ <<c>> \in Seq(S) /\ Len(<<c>>) = 1 /\ two \in Seq(S) /\ Len(two) = 2
        /\ <<a>>[1] = a /\ <<b>>[1] = b /\ <<c>>[1] = c /\ two[1] = a /\ two[2] = b
    OBVIOUS
  <1>2. Joined(y, S, <<a>>, 1, <<b>>, 1) /\ Joined(z, S, two, 2, <<c>>, 1)
    <2> HIDE DEF two
    <2> QED  BY <1>1, ConcatFacts, Zenon
  <1> HIDE DEF y, z
  <1>3. y \in Seq(S) /\ Len(y) = 2 /\ y[1] = a /\ y[2] = b
    BY <1>1, <1>2 DEF Joined
  <1>4. z \in Seq(S) /\ Len(z) = 3 /\ z[1] = a /\ z[2] = b /\ z[3] = c
    BY <1>1, <1>2 DEF Joined
  <1>5. y = two
    BY <1>3, SMTT(30)
  <1>6. z = t
    BY <1>4, SMTT(30)
  <1>7. Append(two, c) = t
    <2> DEFINE y3 == Append(two, c)
    <2>1. y3 \in Seq(S) /\ Len(y3) = 3 /\ y3[1] = a /\ y3[2] = b /\ y3[3] = c
      BY <1>1, AppendProperties
    <2> HIDE DEF y3
    <2>2. y3 = t
      BY <2>1, SMTT(30)
    <2> QED  BY <2>2 DEF y3
  <1> QED  BY <1>5, <1>6, <1>7, Zenon DEF two, y, z

LEMMA UsesArePairs ==
  ASSUME NEW x \in Values, NEW y \in Values, NEW z \in Values
  PROVE  /\ Assigned(x, y) = <<Drop(x)>> \o <<Copy(y)>>
         /\ Append(Assigned(x, y), Drop(z)) = Assigned(x, y) \o <<Drop(z)>>
         /\ <<Copy(x), Drop(y)>> = <<Copy(x)>> \o <<Drop(y)>>
  <1>1. Drop(x) \in Uses /\ Copy(y) \in Uses /\ Drop(z) \in Uses /\ Copy(x) \in Uses /\ Drop(y) \in Uses
    BY SpaceFacts
  <1>2. <<Drop(x)>> \o <<Copy(y)>> = <<Drop(x), Copy(y)>>
    BY <1>1, Pairs, Zenon
  <1>3. Append(<<Drop(x), Copy(y)>>, Drop(z)) = <<Drop(x), Copy(y)>> \o <<Drop(z)>>
    <2>1. \A a, b, c \in Uses : Append(<<a, b>>, c) = <<a, b>> \o <<c>>
      BY Pairs
    <2> QED  BY <1>1, <2>1, Zenon
  <1>4. <<Copy(x)>> \o <<Drop(y)>> = <<Copy(x), Drop(y)>>
    BY <1>1, Pairs, Zenon
  <1> QED  BY <1>2, <1>3, <1>4, Zenon DEF Assigned

(* A pointer that is somewhere else is assigned.                           *)
LEMMA LeadsAssigned ==
  ASSUME NEW f \in Placings, NEW w \in Owners, NEW i \in Spots, NEW s \in Spaces, s # <<w, i>>
  PROVE  /\ Leads(f, Assigned(f[<<w, i>>], f[s]), Put(f, w, i, f[s]))
         /\ Put(f, w, i, f[s]) \in Placings
  <1> DEFINE x == f[s]
             g == Put(f, w, i, Null)
             k == Put(g, w, i, x)
  <1>1. /\ Leads(f, <<Drop(f[<<w, i>>])>>, g) /\ g \in Placings
    BY LeadsDrop
  <1>2. <<w, i>> \in Spaces /\ s = <<s[1], s[2]>>
    BY SpaceFacts
  <1>3. g[<<w, i>>] = Null
    BY <1>2 DEF Put
  <1>4. g[s] = x
    <2>1. ~(s[1] = w /\ s[2] = i)
      BY <1>2
    <2> QED  BY <2>1, Zenon DEF Put
  <1>5. k = Put(f, w, i, x)
    <2>1. ASSUME NEW q \in Spaces
          PROVE  (IF q[1] = w /\ q[2] = i THEN x ELSE g[q])
                 = (IF q[1] = w /\ q[2] = i THEN x ELSE f[q])
      BY Zenon DEF Put
    <2> HIDE DEF g, x
    <2> QED  BY <2>1, Zenon DEF Put
  <1> HIDE DEF g, x
  <1>6. Leads(g, <<Copy(x)>>, k) /\ k \in Placings
    BY <1>1, <1>3, <1>4, LeadsCopy
  <1> HIDE DEF k
  <1>7. Leads(f, <<Drop(f[<<w, i>>])>> \o <<Copy(x)>>, k)
    BY <1>1, <1>6, LeadsOn
  <1>8. <<Drop(f[<<w, i>>])>> \o <<Copy(x)>> = Assigned(f[<<w, i>>], x)
    <2>1. f[<<w, i>>] \in Values /\ x \in Values
      BY <1>2 DEF Placings, x
    <2> QED  BY <2>1, UsesArePairs, Zenon
  <1> QED  BY <1>5, <1>6, <1>7, <1>8, Zenon DEF x

-----------------------------------------------------------------------------
(* The invariant: the vectors are buffers, and the counters are right for  *)
(* what is placed in them and in the pointers.                             *)
VectorInv ==
  /\ vec \in [Vectors -> Buffers]
  /\ held \in [Pointers -> Values]
  /\ Exact(heap, Placed(vec, held))

LEMMA NoPointersInv == NoPointers => VectorInv
  <1> SUFFICES ASSUME NoPointers PROVE VectorInv
    OBVIOUS
  <1>1. vec \in [Vectors -> Buffers] /\ \A v \in Vectors : vec[v].size = 0
    BY EmptyFacts DEF NoPointers
  <1>2. held \in [Pointers -> Values] /\ \A p \in Pointers : held[p] = Null
    BY SpaceFacts DEF NoPointers
  <1>3. heap \in Heaps /\ heap.misused = FALSE /\ heap.live = {}
    BY DEF NoPointers, Heaps
  <1>4. \A s \in Spaces : Placed(vec, held)[s] = Null
    <2>1. \A i : ~(i \in 1 .. 0)
      OBVIOUS
    <2> QED  BY <1>1, <1>2, <2>1, Zenon DEF Placed
  <1>5. \A o \in Objects : HeldAt(Placed(vec, held), o) = {}
    BY <1>4, PointerAssumption DEF HeldAt
  <1> QED  BY <1>1, <1>2, <1>3, <1>5 DEF VectorInv, Exact

LEMMA InvStep ==
  ASSUME VectorInv, NEW uses, heap' = CountAll(heap, uses),
         vec' \in [Vectors -> Buffers], held' \in [Pointers -> Values],
         Leads(Placed(vec, held), uses, Placed(vec', held'))
  PROVE  VectorInv'
  <1>1. Placed(vec, held) \in Placings /\ Exact(heap, Placed(vec, held))
    BY PlacedFacts DEF VectorInv
  <1>2. Exact(CountAll(heap, uses), Placed(vec', held'))
    BY <1>1, LedgerKept
  <1> QED  BY <1>2, Zenon DEF VectorInv

LEMMA NoUses == ASSUME NEW h \in Heaps PROVE CountAll(h, <<>>) = h
  <1>1. <<>> \in Seq(Uses) /\ Len(<<>>) = 0
    OBVIOUS
  <1>2. PICK c : /\ c \in [0 .. Len(<<>>) -> Heaps] /\ c[0] = h
                 /\ \A i \in 1 .. Len(<<>>) : c[i] = Count(c[i - 1], <<>>[i])
                 /\ CountAll(h, <<>>) = c[Len(<<>>)]
    BY <1>1, CountAllIterates, Zenon
  <1> QED  BY <1>1, <1>2, Zenon

LEMMA PointerStep ==
  ASSUME VectorInv, NEW p \in Pointers, NEW x \in Values, NEW uses,
         vec' = vec, held' = [held EXCEPT ![p] = x], heap' = CountAll(heap, uses),
         Leads(Placed(vec, held), uses, Put(Placed(vec, held), p, 0, x))
  PROVE  VectorInv'
  <1>1. vec \in [Vectors -> Buffers] /\ held \in [Pointers -> Values]
    BY DEF VectorInv
  <1>2. held' \in [Pointers -> Values] /\ Became(held', held, p, x)
    BY <1>1 DEF Became
  <1>3. Put(Placed(vec, held), p, 0, x) = Placed(vec, held')
    <2>1. \A hd \in [Pointers -> Values] :
            Became(hd, held, p, x) => Put(Placed(vec, held), p, 0, x) = Placed(vec, hd)
      BY <1>1, PlacedPointer
    <2> QED  BY <1>2, <2>1, Zenon
  <1> QED  BY <1>1, <1>2, <1>3, InvStep, Zenon

LEMMA VectorStep ==
  ASSUME VectorInv, NEW v \in Vectors, NEW b \in Buffers, NEW uses, NEW g \in Placings,
         held' = held, vec' = [vec EXCEPT ![v] = b], heap' = CountAll(heap, uses),
         Leads(Placed(vec, held), uses, g), Placing(g, Placed(vec, held), v, b)
  PROVE  VectorInv'
  <1>1. vec \in [Vectors -> Buffers] /\ held \in [Pointers -> Values]
    BY DEF VectorInv
  <1>2. vec' \in [Vectors -> Buffers] /\ Became(vec', vec, v, b)
    BY <1>1 DEF Became
  <1>3. g = Placed(vec', held)
    BY <1>1, <1>2, PlacedVector, Zenon
  <1> QED  BY <1>1, <1>2, <1>3, InvStep, Zenon

(* The pointers outside.                                                   *)
LEMMA MakeKeeps ==
  ASSUME VectorInv, NEW p \in Pointers, Make(p)
  PROVE  VectorInv'
  <1> DEFINE f == Placed(vec, held)
  <1>1. PICK o \in Objects \ heap.live :
          /\ heap' = CountAll([heap EXCEPT !.counter[o] = 1, !.live = @ \cup {o}],
                              Append(Assigned(held[p], o), Drop(o)))
          /\ held' = [held EXCEPT ![p] = o]
    BY DEF Make
  <1> DEFINE h == [heap EXCEPT !.counter[o] = 1, !.live = @ \cup {o}]
             f1 == Put(f, p, -1, o)
             f2 == Put(f1, p, 0, o)
             f3 == Put(f2, p, -1, Null)
             t == <<p, -1>>
  <1>2. /\ vec \in [Vectors -> Buffers] /\ held \in [Pointers -> Values] /\ vec' = vec
        /\ held[p] \in Values /\ Exact(heap, f) /\ p \in Owners /\ o \in Values /\ o \in Objects /\ Null \notin Objects
    BY PointerAssumption, SpaceFacts DEF VectorInv, Make, Owners
  <1>3. f \in Placings /\ f[<<p, 0>>] = held[p] /\ f[t] = Null /\ t \in Spaces /\ <<p, 0>> \in Spaces
        /\ -1 \in Spots /\ 0 \in Spots
    BY <1>2, PlacedFacts, SpaceFacts
  <1> HIDE DEF f
  <1>4. f1 \in Placings /\ f1 = [f EXCEPT ![t] = o]
    BY <1>2, <1>3, PutFacts
  <1>5. Exact(h, f1)
    <2>1. /\ heap = [counter |-> heap.counter, live |-> heap.live, misused |-> heap.misused]
          /\ heap.counter \in [Objects -> Int] /\ heap.live \in SUBSET Objects
          /\ heap.misused = FALSE
      BY <1>2 DEF Exact, Heaps
    <2> DEFINE c == [heap.counter EXCEPT ![o] = 1]
               l == heap.live \cup {o}
    <2>2. h = [counter |-> c, live |-> l, misused |-> heap.misused]
      <3> DEFINE k == [counter |-> c, live |-> heap.live, misused |-> heap.misused]
      <3>1. [heap EXCEPT !.counter = c] = k
        BY <2>1
      <3>2. h = [k EXCEPT !.live = heap.live \cup {o}]
        <4> HIDE DEF k, c
        <4> QED  BY <3>1, Zenon DEF c
      <3> HIDE DEF c, h
      <3> QED  BY <3>2
    <2>3. c \in [Objects -> Int] /\ l \in SUBSET Objects
      BY <1>2, <2>1
    <2>4. /\ h \in Heaps /\ h.misused = FALSE /\ h.live = heap.live \cup {o}
          /\ \A q \in Objects : h.counter[q] = IF q = o THEN 1 ELSE heap.counter[q]
      BY <2>1, <2>2, <2>3 DEF Heaps
    <2> HIDE DEF h
    <2>5. HeldAt(f, o) = {}
      BY <1>1, <1>2 DEF Exact
    <2>6. Cardinality(HeldAt(f1, o)) = 1
      <3>1. Cardinality(HeldAt(f1, o)) = Cardinality(HeldAt(f, o)) + 1
        BY <1>2, <1>3, <1>4, OnePlace
      <3>2. Cardinality(HeldAt(f, o)) = 0
        BY <2>5, FiniteSpaces, Zenon
      <3> QED  BY <3>1, <3>2
    <2>7. HeldAt(f1, o) # {}
      BY <2>6, FiniteSpaces
    <2>8. ASSUME NEW q \in Objects, q # o PROVE HeldAt(f1, q) = HeldAt(f, q)
      BY <1>2, <1>3, <1>4, <2>8, OnePlace
    <2>9. ASSUME NEW q \in Objects
          PROVE  /\ q \in h.live <=> HeldAt(f1, q) # {}
                 /\ q \in h.live => h.counter[q] = Cardinality(HeldAt(f1, q))
      <3>1. CASE q = o
        BY <2>4, <2>6, <2>7, <3>1
      <3>2. CASE q # o
        <4>1. HeldAt(f1, q) = HeldAt(f, q) /\ h.counter[q] = heap.counter[q]
              /\ (q \in h.live <=> q \in heap.live)
          BY <2>4, <2>8, <3>2
        <4> QED  BY <1>2, <4>1 DEF Exact
      <3> QED  BY <3>1, <3>2
    <2> QED  BY <2>4, <2>9 DEF Exact
  <1>6. f1[t] = o /\ f1[<<p, 0>>] = held[p] /\ t # <<p, 0>>
    BY <1>3, <1>4 DEF Placings
  <1> HIDE DEF f1
  <1>7. Leads(f1, Assigned(held[p], o), f2) /\ f2 \in Placings
    BY <1>2, <1>3, <1>4, <1>6, LeadsAssigned
  <1>8. f2[t] = o
    BY <1>3, <1>6 DEF Put
  <1>9. Leads(f2, <<Drop(o)>>, f3) /\ f3 \in Placings
    <2> HIDE DEF f2
    <2> QED  BY <1>2, <1>3, <1>7, <1>8, LeadsDrop
  <1>10. f3 = Put(f, p, 0, o)
    <2>1. ASSUME NEW s \in Spaces
          PROVE  (IF s[1] = p /\ s[2] = -1 THEN Null ELSE f2[s])
                 = (IF s[1] = p /\ s[2] = 0 THEN o ELSE f[s])
      <3>1. s[1] = p /\ s[2] = -1 => s = t
        BY SpaceFacts, Zenon
      <3>2. f2[s] = IF s[1] = p /\ s[2] = 0 THEN o ELSE IF s[1] = p /\ s[2] = -1 THEN o ELSE f[s]
        BY DEF f1, Put
      <3>3. ~(s[2] = -1 /\ s[2] = 0)
        OBVIOUS
      <3> HIDE DEF f2, t
      <3> QED  BY <1>3, <3>1, <3>2, <3>3, Zenon
    <2> HIDE DEF f2
    <2> QED  BY <2>1, Zenon DEF Put
  <1>11. f3 = Placed(vec', held') /\ held' \in [Pointers -> Values]
    <2>1. held' \in [Pointers -> Values] /\ Became(held', held, p, o)
      BY <1>1, <1>2 DEF Became
    <2>2. Put(f, p, 0, o) = Placed(vec, held')
      BY <1>2, <2>1, PlacedPointer, Zenon DEF f
    <2> QED  BY <1>2, <1>10, <2>1, <2>2, Zenon
  <1> HIDE DEF f2, f3, h
  <1>12. Leads(f1, Append(Assigned(held[p], o), Drop(o)), f3)
    <2>1. Append(Assigned(held[p], o), Drop(o)) = Assigned(held[p], o) \o <<Drop(o)>>
      BY <1>2, UsesArePairs, Zenon
    <2> QED  BY <1>7, <1>9, <2>1, LeadsOn, Zenon
  <1>13. Exact(CountAll(h, Append(Assigned(held[p], o), Drop(o))), f3)
    BY <1>4, <1>5, <1>12, LedgerKept
  <1> QED  BY <1>1, <1>2, <1>11, <1>13, Zenon DEF VectorInv, h

LEMMA ClearPointerKeeps ==
  ASSUME VectorInv, NEW p \in Pointers, ClearPointer(p)
  PROVE  VectorInv'
  <1> DEFINE f == Placed(vec, held)
  <1>1. /\ vec \in [Vectors -> Buffers] /\ held \in [Pointers -> Values] /\ vec' = vec
        /\ held' = [held EXCEPT ![p] = Null] /\ heap' = CountAll(heap, <<Drop(held[p])>>)
        /\ p \in Owners /\ Null \in Values /\ 0 \in Spots
    BY SpaceFacts DEF VectorInv, ClearPointer, Counted, Owners
  <1>2. f \in Placings /\ f[<<p, 0>>] = held[p]
    BY <1>1, PlacedFacts
  <1> HIDE DEF f
  <1>3. Leads(f, <<Drop(held[p])>>, Put(f, p, 0, Null))
    BY <1>1, <1>2, LeadsDrop
  <1> QED  BY <1>1, <1>3, PointerStep, Zenon DEF f

LEMMA AssignPointerKeeps ==
  ASSUME VectorInv, NEW p \in Pointers, NEW q \in Pointers, AssignPointer(p, q)
  PROVE  VectorInv'
  <1> DEFINE f == Placed(vec, held)
  <1>1. /\ vec \in [Vectors -> Buffers] /\ held \in [Pointers -> Values] /\ vec' = vec
        /\ held' = [held EXCEPT ![p] = held[q]]
        /\ heap' = CountAll(heap, IF p = q THEN <<>> ELSE Assigned(held[p], held[q]))
        /\ p \in Owners /\ 0 \in Spots /\ held[q] \in Values
    BY SpaceFacts DEF VectorInv, AssignPointer, Counted, Owners
  <1>2. /\ f \in Placings /\ f[<<p, 0>>] = held[p] /\ f[<<q, 0>>] = held[q]
        /\ <<q, 0>> \in Spaces
    BY <1>1, PlacedFacts
  <1>4. CASE p = q
    <2>1. held' = held
      BY <1>1, <1>4
    <2>2. Leads(f, <<>>, f) /\ heap' = CountAll(heap, <<>>)
      BY <1>1, <1>2, <1>4, LeadsNowhere
    <2> QED  BY <1>1, <2>1, <2>2, InvStep
  <1>5. CASE p # q
    <2>1. <<q, 0>> # <<p, 0>>
      BY <1>5
    <2> HIDE DEF f
    <2>2. Leads(f, Assigned(held[p], held[q]), Put(f, p, 0, held[q]))
      BY <1>1, <1>2, <2>1, LeadsAssigned
    <2>3. heap' = CountAll(heap, Assigned(held[p], held[q]))
      BY <1>1, <1>5
    <2> QED  BY <1>1, <2>2, <2>3, PointerStep, Zenon DEF f
  <1> QED  BY <1>4, <1>5

LEMMA GetKeeps ==
  ASSUME VectorInv, NEW p \in Pointers, NEW v \in Vectors, NEW i \in 1 .. MaxSize, Get(p, v, i)
  PROVE  VectorInv'
  <1> DEFINE f == Placed(vec, held)
             x == vec[v].slots[i]
  <1>1. /\ vec \in [Vectors -> Buffers] /\ held \in [Pointers -> Values] /\ vec' = vec
        /\ held' = [held EXCEPT ![p] = x] /\ i <= vec[v].size
        /\ heap' = CountAll(heap, Assigned(held[p], x))
        /\ p \in Owners /\ 0 \in Spots /\ i \in Int /\ i # 0
    BY SpaceFacts DEF VectorInv, Get, Counted, Owners
  <1>2. vec[v] \in Buffers /\ i \in 1 .. vec[v].size
    <2>1. vec[v] \in Buffers
      BY <1>1
    <2>2. vec[v].size \in Nat
      BY <2>1, BufferFacts
    <2> QED  BY <1>1, <2>1, <2>2
  <1>3. /\ f \in Placings /\ f[<<p, 0>>] = held[p] /\ f[<<v, i>>] = x
        /\ <<v, i>> \in Spaces
    BY <1>1, <1>2, PlacedFacts
  <1>4. x \in Values
    BY <1>2, BufferFacts
  <1>5. <<v, i>> # <<p, 0>>
    BY <1>1
  <1> HIDE DEF f, x
  <1>6. Leads(f, Assigned(held[p], x), Put(f, p, 0, x))
    BY <1>1, <1>3, <1>5, LeadsAssigned
  <1> QED  BY <1>1, <1>4, <1>6, PointerStep, Zenon DEF f

LEMMA SetKeeps ==
  ASSUME VectorInv, NEW p \in Pointers, NEW v \in Vectors, NEW i \in 1 .. MaxSize, Set(v, i, p)
  PROVE  VectorInv'
  <1> DEFINE f == Placed(vec, held)
             b == vec[v]
             x == held[p]
             s == [b.slots EXCEPT ![i] = x]
             c == [slots |-> s, size |-> b.size]
             g == Put(f, v, i, x)
  <1>1. /\ vec \in [Vectors -> Buffers] /\ held \in [Pointers -> Values] /\ held' = held
        /\ vec' = [vec EXCEPT ![v].slots[i] = x] /\ i <= b.size
        /\ heap' = CountAll(heap, Assigned(b.slots[i], x))
        /\ v \in Owners /\ i \in Int /\ i # 0 /\ i > 0 /\ b \in Buffers /\ x \in Values
    BY SpaceFacts DEF VectorInv, Set, Counted, Owners
  <1>2. /\ b = [slots |-> b.slots, size |-> b.size] /\ b.size \in Nat /\ b.size <= MaxSize
        /\ Len(b.slots) \in Nat /\ b.size <= Len(b.slots) /\ DOMAIN b.slots = 1 .. Len(b.slots)
        /\ \A j \in 1 .. Len(b.slots) : Slot(j, b.size, b.slots[j])
    BY <1>1, BufferFacts
  <1>3. i \in 1 .. b.size /\ i \in 1 .. Len(b.slots)
    BY <1>1, <1>2
  <1>4. /\ s = [j \in 1 .. Len(b.slots) |-> s[j]]
        /\ \A j \in 1 .. Len(b.slots) : s[j] = IF j = i THEN x ELSE b.slots[j]
    BY <1>2, <1>3
  <1>5. vec' = [vec EXCEPT ![v] = c]
    <2>1. [b EXCEPT !.slots = s] = c
      <3> HIDE DEF s
      <3> QED  BY <1>2
    <2> QED  BY <1>1, <2>1, Zenon
  <1> HIDE DEF s
  <1>6. c \in Buffers
    <2>1. \A j \in 1 .. Len(b.slots) : Slot(j, b.size, s[j])
      BY <1>1, <1>2, <1>4 DEF Slot
    <2> HIDE DEF b
    <2> QED  BY <1>2, <1>4, <2>1, BufferMade
  <1>7. /\ f \in Placings /\ f[<<p, 0>>] = x /\ f[<<v, i>>] = b.slots[i]
        /\ <<p, 0>> \in Spaces /\ i \in Spots /\ <<p, 0>> # <<v, i>>
    BY <1>1, <1>3, PlacedFacts
  <1>8. \A q \in Spaces : q[1] = v /\ q[2] > 0 =>
          f[q] = IF q[2] <= b.size THEN b.slots[q[2]] ELSE Null
    BY <1>1, PlacedAt
  <1>9. Leads(f, Assigned(b.slots[i], x), g) /\ g \in Placings
    <2> HIDE DEF f, x, b
    <2> QED  BY <1>1, <1>7, LeadsAssigned
  <1>10. \A q \in Spaces : q[1] = v /\ q[2] > 0 =>
           g[q] = IF q[2] <= c.size THEN c.slots[q[2]] ELSE Null
    <2> SUFFICES ASSUME NEW q \in Spaces, q[1] = v, q[2] > 0
                 PROVE  g[q] = IF q[2] <= b.size THEN s[q[2]] ELSE Null
      OBVIOUS
    <2>0. q[2] \in Int
      BY SpaceFacts
    <2>1. g[q] = IF q[2] = i THEN x ELSE f[q]
      BY DEF Put
    <2>2. f[q] = IF q[2] <= b.size THEN b.slots[q[2]] ELSE Null
      BY <1>8
    <2>3. q[2] <= b.size => s[q[2]] = IF q[2] = i THEN x ELSE b.slots[q[2]]
      <3>1. q[2] <= b.size => q[2] \in 1 .. Len(b.slots)
        BY <1>2, <2>0
      <3> QED  BY <1>4, <3>1
    <2> HIDE DEF g, f, b, x
    <2> QED  BY <1>1, <2>1, <2>2, <2>3, Zenon
  <1>11. \A q \in Spaces : ~(q[1] = v /\ q[2] > 0) => g[q] = f[q]
    BY <1>1 DEF Put
  <1> HIDE DEF g, c
  <1>12. Placing(g, f, v, c)
    BY <1>10, <1>11 DEF Placing
  <1> HIDE DEF f, b, x
  <1> QED  BY <1>1, <1>5, <1>6, <1>9, <1>12, VectorStep, Zenon DEF f

(* The vectors. What a state tells of one of them:                         *)
Known(f, v, b) ==
  /\ f \in Placings /\ v \in Owners /\ b \in Buffers
  /\ b.size \in Nat /\ b.size <= MaxSize
  /\ \A i \in 1 .. b.size :
       i \in Spots /\ <<v, i>> \in Spaces /\ f[<<v, i>>] = b.slots[i] /\ b.slots[i] \in Values
  /\ \A i \in Spots : i > b.size \/ i < 0 => f[<<v, i>>] = Null
  /\ \A s \in Spaces : s[1] = v /\ s[2] > 0 =>
       f[s] = IF s[2] <= b.size THEN b.slots[s[2]] ELSE Null

LEMMA VectorKnown ==
  ASSUME VectorInv, NEW v \in Vectors
  PROVE  /\ Known(Placed(vec, held), v, vec[v])
         /\ vec \in [Vectors -> Buffers] /\ held \in [Pointers -> Values]
         /\ \A p \in Pointers : /\ <<p, 0>> \in Spaces /\ held[p] \in Values
                                /\ Placed(vec, held)[<<p, 0>>] = held[p]
  <1>1. vec \in [Vectors -> Buffers] /\ held \in [Pointers -> Values] /\ v \in Owners
    BY DEF VectorInv, Owners
  <1>2. vec[v] \in Buffers
    BY <1>1
  <1>3. /\ vec[v].size \in Nat /\ vec[v].size <= MaxSize
        /\ \A i \in 1 .. vec[v].size : vec[v].slots[i] \in Values
    BY <1>2, BufferFacts
  <1>4. /\ Placed(vec, held) \in Placings
        /\ \A p \in Pointers : <<p, 0>> \in Spaces /\ Placed(vec, held)[<<p, 0>>] = held[p]
        /\ \A i \in Int : i \in 1 .. vec[v].size =>
             i \in Spots /\ <<v, i>> \in Spaces /\ Placed(vec, held)[<<v, i>>] = vec[v].slots[i]
        /\ \A i \in Spots : i > vec[v].size \/ i < 0 => Placed(vec, held)[<<v, i>>] = Null
    BY <1>1, PlacedFacts
  <1>5. \A s \in Spaces : s[1] = v /\ s[2] > 0 =>
          Placed(vec, held)[s] = IF s[2] <= vec[v].size THEN vec[v].slots[s[2]] ELSE Null
    BY <1>1, PlacedAt
  <1>6. \A i \in 1 .. vec[v].size : i \in Int
    BY <1>3
  <1>7. \A p \in Pointers : held[p] \in Values
    BY <1>1
  <1> QED  BY <1>1, <1>2, <1>3, <1>4, <1>5, <1>6, <1>7, Zenon DEF Known

LEMMA PushCopyKeeps ==
  ASSUME VectorInv, NEW v \in Vectors, NEW p \in Pointers, PushCopy(v, p)
  PROVE  VectorInv'
  <1> DEFINE f == Placed(vec, held)
             b == vec[v]
             n == b.size
             x == held[p]
             c == Pushed(b, x)
             g == Put(f, v, n + 1, x)
  <1>1. /\ n < MaxSize /\ vec' = [vec EXCEPT ![v] = c] /\ held' = held
        /\ heap' = CountAll(heap, <<Copy(x)>>)
    BY DEF PushCopy, Update, Counted
  <1>2. Known(f, v, b) /\ <<p, 0>> \in Spaces /\ x \in Values /\ f[<<p, 0>>] = x
    BY VectorKnown
  <1> HIDE DEF f, b, x
  <1>3. /\ f \in Placings /\ v \in Owners /\ b \in Buffers /\ n \in Nat
        /\ n + 1 \in Spots /\ f[<<v, n + 1>>] = Null
        /\ \A s \in Spaces : s[1] = v /\ s[2] > 0 =>
             f[s] = IF s[2] <= n THEN b.slots[s[2]] ELSE Null
    <2>1. /\ f \in Placings /\ v \in Owners /\ b \in Buffers /\ n \in Nat
          /\ \A i \in Spots : i > n \/ i < 0 => f[<<v, i>>] = Null
          /\ \A s \in Spaces : s[1] = v /\ s[2] > 0 =>
               f[s] = IF s[2] <= n THEN b.slots[s[2]] ELSE Null
      BY <1>2, Zenon DEF Known
    <2>2. n + 1 \in Spots /\ n + 1 > n
      BY <1>1, <2>1, SpaceFacts
    <2> QED  BY <2>1, <2>2, Zenon
  <1>4. /\ c \in Buffers /\ c.size = n + 1 /\ c.slots[n + 1] = x
        /\ \A i \in 1 .. n : c.slots[i] = b.slots[i]
    BY <1>1, <1>2, <1>3, PushedFacts DEF Extends
  <1>5. Leads(f, <<Copy(x)>>, g) /\ g \in Placings
    BY <1>2, <1>3, LeadsCopy
  <1> HIDE DEF c, n
  <1>6. Placing(g, f, v, c)
    <2>1. ASSUME NEW s \in Spaces
          PROVE  IF s[1] = v /\ s[2] > 0
                 THEN g[s] = IF s[2] <= n + 1 THEN c.slots[s[2]] ELSE Null
                 ELSE g[s] = f[s]
      <3>0. s[2] \in Int /\ g[s] = IF s[1] = v /\ s[2] = n + 1 THEN x ELSE f[s]
        BY SpaceFacts DEF Put
      <3> HIDE DEF g
      <3>1. CASE s[1] = v /\ s[2] > 0 /\ s[2] <= n
        <4>1. s[2] \in 1 .. n /\ s[2] # n + 1 /\ s[2] <= n + 1
          BY <1>3, <3>0, <3>1
        <4> QED  BY <1>3, <1>4, <3>0, <3>1, <4>1, Zenon
      <3>2. CASE s[1] = v /\ s[2] = n + 1
        <4>1. s[2] > 0 /\ s[2] <= n + 1
          BY <1>3, <3>2
        <4> QED  BY <1>4, <3>0, <3>2, <4>1, Zenon
      <3>3. CASE s[1] = v /\ s[2] > n + 1
        <4>1. s[2] > 0 /\ ~(s[2] <= n + 1) /\ ~(s[2] <= n) /\ s[2] # n + 1
          BY <1>3, <3>0, <3>3
        <4> QED  BY <1>3, <3>0, <3>3, <4>1, Zenon
      <3>4. CASE ~(s[1] = v /\ s[2] > 0)
        BY <1>3, <3>0, <3>4
      <3> QED  BY <1>3, <3>0, <3>1, <3>2, <3>3, <3>4
    <2> HIDE DEF g
    <2> QED  BY <1>4, <2>1, Zenon DEF Placing
  <1> HIDE DEF g
  <1> QED  BY <1>1, <1>4, <1>5, <1>6, VectorStep, Zenon DEF f

LEMMA PopKeeps ==
  ASSUME VectorInv, NEW v \in Vectors, Pop(v)
  PROVE  VectorInv'
  <1> DEFINE f == Placed(vec, held)
             b == vec[v]
             n == b.size
             x == b.slots[n]
             c == Truncated(b, n - 1)
             g == Put(f, v, n, Null)
  <1>1. CASE n = 0
    BY <1>1 DEF Pop, VectorInv, Placed
  <1>2. CASE n # 0
    <2>1. /\ vec' = [vec EXCEPT ![v] = c] /\ held' = held
          /\ heap' = CountAll(heap, <<Drop(x)>>)
      BY <1>2 DEF Pop, Update, Counted
    <2>2. Known(f, v, b)
      BY VectorKnown
    <2> HIDE DEF f, b
    <2>3. /\ f \in Placings /\ v \in Owners /\ b \in Buffers /\ n \in Nat
          /\ \A s \in Spaces : s[1] = v /\ s[2] > 0 =>
               f[s] = IF s[2] <= n THEN b.slots[s[2]] ELSE Null
      BY <2>2, Zenon DEF Known
    <2>4. n \in 1 .. n /\ n - 1 \in Nat /\ n - 1 <= n
      BY <1>2, <2>3
    <2>5. n \in Spots /\ f[<<v, n>>] = x
      BY <2>2, <2>4, Zenon DEF Known
    <2>6. c \in Buffers /\ c.size = n - 1 /\ \A i \in 1 .. n - 1 : c.slots[i] = b.slots[i]
      BY <2>3, <2>4, TruncatedFacts DEF Extends
    <2>7. Leads(f, <<Drop(x)>>, g) /\ g \in Placings
      BY <2>3, <2>5, LeadsDrop
    <2> HIDE DEF c, n, x
    <2>8. Placing(g, f, v, c)
      <3>1. ASSUME NEW s \in Spaces
            PROVE  IF s[1] = v /\ s[2] > 0
                   THEN g[s] = IF s[2] <= n - 1 THEN c.slots[s[2]] ELSE Null
                   ELSE g[s] = f[s]
        <4>0. s[2] \in Int /\ g[s] = IF s[1] = v /\ s[2] = n THEN Null ELSE f[s]
          BY SpaceFacts DEF Put
        <4> HIDE DEF g
        <4>1. CASE s[1] = v /\ s[2] > 0 /\ s[2] <= n - 1
          <5>1. s[2] \in 1 .. n - 1 /\ s[2] # n /\ s[2] <= n
            BY <2>3, <4>0, <4>1
          <5> QED  BY <2>3, <2>6, <4>0, <4>1, <5>1, Zenon
        <4>2. CASE s[1] = v /\ s[2] > 0 /\ ~(s[2] <= n - 1)
          <5>1. s[2] = n \/ ~(s[2] <= n)
            BY <2>3, <4>0, <4>2
          <5> QED  BY <2>3, <4>0, <4>2, <5>1, Zenon
        <4>3. CASE ~(s[1] = v /\ s[2] > 0)
          <5>1. s[2] = n => s[2] > 0
            BY <2>3, <2>4
          <5> QED  BY <4>0, <4>3, <5>1, Zenon
        <4> QED  BY <4>1, <4>2, <4>3, Zenon
      <3> HIDE DEF g
      <3> QED  BY <2>6, <3>1, Zenon DEF Placing
    <2> HIDE DEF g
    <2> QED  BY <2>1, <2>6, <2>7, <2>8, VectorStep, Zenon DEF f
  <1> QED  BY <1>1, <1>2

LEMMA ClearKeeps ==
  ASSUME VectorInv, NEW v \in Vectors, Clear(v)
  PROVE  VectorInv'
  <1> DEFINE f == Placed(vec, held)
             b == vec[v]
             n == b.size
             e == Elements(b)
             c == Truncated(b, 0)
             g == Cleared(f, v, 0, n)
  <1>1. /\ vec' = [vec EXCEPT ![v] = c] /\ held' = held
        /\ heap' = CountAll(heap, EachDropped(e))
    BY DEF Clear, Update, Counted
  <1>2. Known(f, v, b)
    BY VectorKnown
  <1> HIDE DEF f, b
  <1>3. /\ f \in Placings /\ v \in Owners /\ b \in Buffers /\ n \in Nat
        /\ \A i \in 1 .. n : i \in Spots /\ f[<<v, i>>] = b.slots[i]
        /\ \A s \in Spaces : s[1] = v /\ s[2] > 0 =>
             f[s] = IF s[2] <= n THEN b.slots[s[2]] ELSE Null
    BY <1>2, Zenon DEF Known
  <1>4. c \in Buffers /\ c.size = 0
    BY <1>3, TruncatedFacts DEF Extends
  <1>5. e \in Seq(Values) /\ Len(e) = n /\ \A i \in 1 .. n : e[i] = b.slots[i]
    BY <1>3, ElementsFacts
  <1> HIDE DEF c, n, e
  <1>6. Leads(f, EachDropped(e), g) /\ g \in Placings
    <2>1. \A i \in 1 .. Len(e) : 0 + i \in Spots /\ f[<<v, 0 + i>>] = e[i]
      <3> SUFFICES ASSUME NEW i \in 1 .. n PROVE 0 + i \in Spots /\ f[<<v, 0 + i>>] = e[i]
        BY <1>5
      <3>1. 0 + i = i
        BY <1>3
      <3> QED  BY <1>3, <1>5, <3>1, Zenon
    <2> QED  BY <1>3, <1>5, <2>1, LeadsDropped
  <1>7. Placing(g, f, v, c)
    <2>1. ASSUME NEW s \in Spaces
          PROVE  IF s[1] = v /\ s[2] > 0
                 THEN g[s] = IF s[2] <= 0 THEN c.slots[s[2]] ELSE Null
                 ELSE g[s] = f[s]
      <3>0. s[2] \in Int /\ g[s] = IF s[1] = v /\ s[2] \in 0 + 1 .. 0 + n THEN Null ELSE f[s]
        BY SpaceFacts DEF Cleared
      <3>1. /\ s[2] \in 0 + 1 .. 0 + n <=> s[2] > 0 /\ s[2] <= n
            /\ s[2] > 0 => ~(s[2] <= 0)
        BY <1>3, <3>0
      <3> HIDE DEF g
      <3> QED  BY <1>3, <3>0, <3>1, Zenon
    <2> HIDE DEF g
    <2> QED  BY <1>4, <2>1, Zenon DEF Placing
  <1> HIDE DEF g
  <1> QED  BY <1>1, <1>4, <1>6, <1>7, VectorStep, Zenon DEF f

LEMMA RemoveKeeps ==
  ASSUME VectorInv, NEW v \in Vectors, NEW i \in 1 .. MaxSize, RemoveFrom(v, i)
  PROVE  VectorInv'
  <1> DEFINE f == Placed(vec, held)
             b == vec[v]
             n == b.size
             c == Removed(b, i)
             g == Shifted(f, v, i, n)
  <1>1. /\ vec' = [vec EXCEPT ![v] = c] /\ held' = held /\ i <= n /\ i \in Nat \ {0}
        /\ heap' = CountAll(heap, RemoveUses(b, i))
    BY SpaceFacts DEF RemoveFrom, Update, Counted
  <1>2. Known(f, v, b)
    BY VectorKnown
  <1> HIDE DEF f, b
  <1>3. /\ f \in Placings /\ v \in Owners /\ b \in Buffers /\ n \in Nat /\ n <= MaxSize
        /\ \A j \in 1 .. n : f[<<v, j>>] = b.slots[j]
        /\ \A s \in Spaces : s[1] = v /\ s[2] > 0 =>
             f[s] = IF s[2] <= n THEN b.slots[s[2]] ELSE Null
    BY <1>2, Zenon DEF Known
  <1>4. /\ c \in Buffers /\ c.size = n - 1
        /\ \A j \in 1 .. i - 1 : c.slots[j] = b.slots[j]
        /\ \A j \in i .. n - 1 : c.slots[j] = b.slots[j + 1]
    BY <1>1, <1>3, RemovedFacts DEF Extends
  <1>5. Leads(f, RemoveUses(b, i), g) /\ g \in Placings
    BY <1>1, <1>3, LeadsShifted
  <1> HIDE DEF c, n
  <1>6. Placing(g, f, v, c)
    <2>1. ASSUME NEW s \in Spaces
          PROVE  IF s[1] = v /\ s[2] > 0
                 THEN g[s] = IF s[2] <= n - 1 THEN c.slots[s[2]] ELSE Null
                 ELSE g[s] = f[s]
      <3>0. /\ s[2] \in Int
            /\ g[s] = IF s[1] = v /\ s[2] \in i .. n - 1 THEN f[<<v, s[2] + 1>>]
                      ELSE IF s[1] = v /\ s[2] = n THEN Null ELSE f[s]
        BY SpaceFacts DEF Shifted
      <3> HIDE DEF g
      <3>1. CASE s[1] = v /\ s[2] \in i .. n - 1
        <4>1. s[2] > 0 /\ s[2] <= n - 1 /\ s[2] + 1 \in 1 .. n
          BY <1>1, <1>3, <3>1
        <4> QED  BY <1>3, <1>4, <3>0, <3>1, <4>1, Zenon
      <3>2. CASE s[1] = v /\ s[2] > 0 /\ s[2] < i
        <4>1. s[2] <= n - 1 /\ s[2] <= n /\ s[2] \in 1 .. i - 1 /\ s[2] \notin i .. n - 1 /\ s[2] # n
          BY <1>1, <1>3, <3>0, <3>2
        <4> QED  BY <1>3, <1>4, <3>0, <3>2, <4>1, Zenon
      <3>3. CASE s[1] = v /\ s[2] >= n
        <4>1. s[2] > 0 /\ ~(s[2] <= n - 1) /\ s[2] \notin i .. n - 1 /\ (s[2] = n \/ ~(s[2] <= n))
          BY <1>1, <1>3, <3>0, <3>3
        <4> QED  BY <1>3, <3>0, <3>3, <4>1, Zenon
      <3>4. CASE ~(s[1] = v /\ s[2] > 0)
        <4>1. s[2] = n \/ s[2] \in i .. n - 1 => s[2] > 0
          BY <1>1, <1>3
        <4> QED  BY <3>0, <3>4, <4>1, Zenon
      <3>5. s[2] \in i .. n - 1 \/ s[2] < i \/ s[2] >= n
        BY <1>1, <1>3, <3>0
      <3> QED  BY <3>1, <3>2, <3>3, <3>4, <3>5, Zenon
    <2> HIDE DEF g
    <2> QED  BY <1>4, <2>1, Zenon DEF Placing
  <1> HIDE DEF g
  <1> QED  BY <1>1, <1>4, <1>5, <1>6, VectorStep, Zenon DEF f

LEMMA RaiseKeeps ==
  ASSUME VectorInv, NEW v \in Vectors, NEW i \in 1 .. MaxSize, Raise(v, i)
  PROVE  VectorInv'
  <1> DEFINE f == Placed(vec, held)
             b == vec[v]
             n == b.size
             x == b.slots[i]
             r == Removed(b, i)
             c == Pushed(r, x)
             g1 == Put(f, v, -1, x)
             g2 == Shifted(g1, v, i, n)
             g3 == Put(g2, v, n, x)
             g == Put(g3, v, -1, Null)
             uses == <<Copy(x)>> \o RemoveUses(b, i) \o <<Copy(x), Drop(x)>>
  <1>1. /\ vec' = [vec EXCEPT ![v] = c] /\ held' = held /\ i <= n /\ i \in Nat \ {0}
        /\ heap' = CountAll(heap, uses)
    BY SpaceFacts DEF Raise, Update, Counted
  <1>2. Known(f, v, b)
    BY VectorKnown
  <1> HIDE DEF f, b
  <1>3. /\ f \in Placings /\ v \in Owners /\ b \in Buffers /\ n \in Nat /\ n <= MaxSize
        /\ \A j \in 1 .. n : j \in Spots /\ <<v, j>> \in Spaces
                             /\ f[<<v, j>>] = b.slots[j] /\ b.slots[j] \in Values
        /\ \A j \in Spots : j > n \/ j < 0 => f[<<v, j>>] = Null
        /\ \A s \in Spaces : s[1] = v /\ s[2] > 0 =>
             f[s] = IF s[2] <= n THEN b.slots[s[2]] ELSE Null
    BY <1>2, Zenon DEF Known
  <1>4. /\ i \in 1 .. n /\ n \in 1 .. n /\ -1 \in Spots /\ -1 < 0
        /\ \A j \in 1 .. n : j # -1
    BY <1>1, <1>3, SpaceFacts
  <1>5. /\ x \in Values /\ f[<<v, i>>] = x /\ <<v, i>> \in Spaces /\ f[<<v, -1>>] = Null
        /\ <<v, -1>> \in Spaces /\ <<v, n>> \in Spaces /\ n \in Spots
    BY <1>3, <1>4, SpaceFacts, Zenon
  <1>6. /\ r \in Buffers /\ r.size = n - 1
        /\ \A j \in 1 .. i - 1 : r.slots[j] = b.slots[j]
        /\ \A j \in i .. n - 1 : r.slots[j] = b.slots[j + 1]
    BY <1>1, <1>3, RemovedFacts DEF Extends
  <1> HIDE DEF r, x
  <1>7. /\ c \in Buffers /\ c.size = n /\ c.slots[n] = x
        /\ \A j \in 1 .. n - 1 : c.slots[j] = r.slots[j]
    <2>1. r.size < MaxSize /\ r.size + 1 = n
      BY <1>3, <1>6, SpaceFacts
    <2> QED  BY <1>5, <1>6, <2>1, PushedFacts DEF Extends
  <1>8. Leads(f, <<Copy(x)>>, g1) /\ g1 \in Placings
    BY <1>3, <1>4, <1>5, LeadsCopy
  <1>9. /\ \A j \in 1 .. n : g1[<<v, j>>] = b.slots[j]
        /\ g1[<<v, -1>>] = x
    BY <1>3, <1>4, <1>5 DEF Put
  <1> HIDE DEF g1
  <1>10. Leads(g1, RemoveUses(b, i), g2) /\ g2 \in Placings
    BY <1>1, <1>3, <1>8, <1>9, LeadsShifted
  <1>11. g2[<<v, n>>] = Null /\ g2[<<v, -1>>] = x
    <2>1. n \notin i .. n - 1 /\ -1 \notin i .. n - 1 /\ -1 # n
      BY <1>1, <1>3
    <2> HIDE DEF n
    <2> QED  BY <1>5, <1>9, <2>1 DEF Shifted
  <1> HIDE DEF g2
  <1>12. Leads(g2, <<Copy(x)>>, g3) /\ g3 \in Placings
    BY <1>3, <1>5, <1>10, <1>11, LeadsCopy
  <1>13. g3[<<v, -1>>] = x
    <2>1. -1 # n
      BY <1>3
    <2> QED  BY <1>5, <1>11, <2>1 DEF Put
  <1> HIDE DEF g3
  <1>14. Leads(g3, <<Drop(x)>>, g) /\ g \in Placings
    BY <1>3, <1>4, <1>12, <1>13, LeadsDrop
  <1> HIDE DEF g
  <1>15. Leads(f, uses, g)
    <2>1. Leads(f, <<Copy(x)>> \o RemoveUses(b, i), g2)
      BY <1>8, <1>10, LeadsOn
    <2>2. Leads(g2, <<Copy(x)>> \o <<Drop(x)>>, g)
      BY <1>12, <1>14, LeadsOn
    <2>3. <<Copy(x), Drop(x)>> = <<Copy(x)>> \o <<Drop(x)>>
      BY <1>5, UsesArePairs
    <2>4. Leads(g2, <<Copy(x), Drop(x)>>, g)
      BY <2>2, <2>3, Zenon
    <2> QED  BY <2>1, <2>4, LeadsOn, Zenon
  <1> HIDE DEF uses, c, n
  <1>16. Placing(g, f, v, c)
    <2>1. ASSUME NEW s \in Spaces
          PROVE  IF s[1] = v /\ s[2] > 0
                 THEN g[s] = IF s[2] <= n THEN c.slots[s[2]] ELSE Null
                 ELSE g[s] = f[s]
      <3>1. /\ s[2] \in Int /\ s[2] \in Spots /\ s = <<s[1], s[2]>>
            /\ s[1] = v => <<v, s[2] + 1>> \in Spaces \/ ~(s[2] \in i .. n - 1)
        BY <1>3, SpaceFacts
      <3>2. /\ g[s] = IF s[1] = v /\ s[2] = -1 THEN Null ELSE g3[s]
            /\ g3[s] = IF s[1] = v /\ s[2] = n THEN x ELSE g2[s]
            /\ g2[s] = IF s[1] = v /\ s[2] \in i .. n - 1 THEN g1[<<v, s[2] + 1>>]
                       ELSE IF s[1] = v /\ s[2] = n THEN Null ELSE g1[s]
            /\ g1[s] = IF s[1] = v /\ s[2] = -1 THEN x ELSE f[s]
        BY Zenon DEF g, g3, g2, g1, Put, Shifted
      <3>3. CASE s[1] = v /\ s[2] \in i .. n - 1
        <4>1. s[2] > 0 /\ s[2] <= n /\ s[2] + 1 \in 1 .. n /\ s[2] # -1 /\ s[2] # n
              /\ s[2] \in 1 .. n - 1
          BY <1>1, <1>3, <3>3
        <4>2. c.slots[s[2]] = b.slots[s[2] + 1]
          BY <1>6, <1>7, <3>3, <4>1, Zenon
        <4>3. g[s] = b.slots[s[2] + 1]
          BY <1>9, <3>2, <3>3, <4>1, Zenon
        <4> QED  BY <3>3, <4>1, <4>2, <4>3, Zenon
      <3>4. CASE s[1] = v /\ s[2] > 0 /\ s[2] < i
        <4>1. s[2] <= n /\ s[2] \in 1 .. i - 1 /\ s[2] \notin i .. n - 1 /\ s[2] # n /\ s[2] # -1
              /\ s[2] \in 1 .. n - 1
          BY <1>1, <1>3, <3>1, <3>4
        <4>2. c.slots[s[2]] = b.slots[s[2]]
          BY <1>6, <1>7, <4>1, Zenon
        <4>3. g[s] = f[s]
          BY <3>2, <4>1, Zenon
        <4> QED  BY <1>3, <3>4, <4>1, <4>2, <4>3, Zenon
      <3>5. CASE s[1] = v /\ s[2] = n
        <4>1. s[2] > 0 /\ s[2] <= n /\ s[2] # -1
          BY <1>1, <1>3, <3>5
        <4> QED  BY <1>7, <3>2, <3>5, <4>1, Zenon
      <3>6. CASE s[1] = v /\ s[2] > n
        <4>1. s[2] > 0 /\ ~(s[2] <= n) /\ s[2] \notin i .. n - 1 /\ s[2] # n /\ s[2] # -1
          BY <1>1, <1>3, <3>1, <3>6
        <4> QED  BY <1>3, <3>2, <3>6, <4>1, Zenon
      <3>7. CASE ~(s[1] = v /\ s[2] > 0)
        <4>1. (s[2] = n \/ s[2] \in i .. n - 1 => s[2] > 0) /\ ~(-1 > 0)
          BY <1>1, <1>3
        <4>2. s[1] = v /\ s[2] = -1 => f[s] = Null
          BY <1>5, <3>1, Zenon
        <4> QED  BY <3>2, <3>7, <4>1, <4>2, Zenon
      <3>8. s[2] \in i .. n - 1 \/ s[2] < i \/ s[2] = n \/ s[2] > n
        BY <1>1, <1>3, <3>1
      <3> QED  BY <3>3, <3>4, <3>5, <3>6, <3>7, <3>8, Zenon
    <2> QED  BY <1>7, <2>1, Zenon DEF Placing
  <1> QED  BY <1>1, <1>7, <1>14, <1>15, <1>16, VectorStep, Zenon DEF f

LEMMA ResizeKeeps ==
  ASSUME VectorInv, NEW v \in Vectors, NEW n \in 0 .. MaxSize, Resize(v, n)
  PROVE  VectorInv'
  <1> DEFINE f == Placed(vec, held)
             b == vec[v]
             m == b.size
             roomy == IF n > Capacity(b) THEN Reserved(b, n) ELSE b
             e == SubSeq(b.slots, n + 1, m)
             short == Truncated(b, n)
             long == [slots |-> [i \in DOMAIN roomy.slots |->
                                   IF i \in m + 1 .. n THEN Null ELSE roomy.slots[i]],
                      size |-> n]
  <1>1. /\ held' = held
        /\ n < m => vec' = [vec EXCEPT ![v] = short] /\ heap' = CountAll(heap, EachDropped(e))
        /\ ~(n < m) => vec' = [vec EXCEPT ![v] = long] /\ heap' = CountAll(heap, <<>>)
    BY DEF Resize, Update, Counted
  <1>2. Known(f, v, b)
    BY VectorKnown
  <1> HIDE DEF f, b
  <1>3. /\ f \in Placings /\ v \in Owners /\ b \in Buffers /\ m \in Nat /\ m <= MaxSize
        /\ \A j \in 1 .. m : j \in Spots /\ f[<<v, j>>] = b.slots[j] /\ b.slots[j] \in Values
        /\ \A s \in Spaces : s[1] = v /\ s[2] > 0 =>
             f[s] = IF s[2] <= m THEN b.slots[s[2]] ELSE Null
    BY <1>2, Zenon DEF Known
  <1>4. n \in Nat /\ n <= MaxSize
    BY SpaceFacts
  <1>5. CASE n < m
    <2> DEFINE g == Cleared(f, v, n, m - n)
    <2>1. short \in Buffers /\ short.size = n /\ \A i \in 1 .. n : short.slots[i] = b.slots[i]
      BY <1>3, <1>4, <1>5, TruncatedFacts DEF Extends
    <2>2. e \in Seq(Values) /\ Len(e) = m - n /\ \A i \in 1 .. m - n : e[i] = b.slots[n + i]
      <3>1. Elements(b) \in Seq(Values) /\ Len(Elements(b)) = m
            /\ \A i \in 1 .. m : Elements(b)[i] = b.slots[i]
        BY <1>3, ElementsFacts
      <3>2. Len(b.slots) \in Nat /\ m <= Len(b.slots)
        BY <1>3, BufferFacts
      <3> HIDE DEF m
      <3>3. n + 1 \in Int /\ m \in Int /\ \A i \in n + 1 .. m : b.slots[i] \in Values
        <4>1. ASSUME NEW i \in n + 1 .. m PROVE i \in 1 .. m
          BY <1>3, <1>4
        <4>2. n + 1 \in Int /\ m \in Int
          BY <1>3, <1>4
        <4> QED  BY <1>3, <4>1, <4>2, Zenon
      <3>4. /\ e \in Seq(Values)
            /\ Len(e) = IF n + 1 <= m THEN m - (n + 1) + 1 ELSE 0
            /\ \A i \in 1 .. m - (n + 1) + 1 : e[i] = b.slots[(n + 1) + i - 1]
        BY <3>3, SubSeqProperties, SMTT(30)
      <3> HIDE DEF e
      <3>5. (IF n + 1 <= m THEN m - (n + 1) + 1 ELSE 0) = m - n /\ m - (n + 1) + 1 = m - n
        BY <1>3, <1>4, <1>5
      <3>6. \A i \in 1 .. m - n : (n + 1) + i - 1 = n + i
        BY <1>3, <1>4
      <3> QED  BY <3>4, <3>5, <3>6, Zenon
    <2> HIDE DEF short, e, m
    <2>3. Leads(f, EachDropped(e), g) /\ g \in Placings
      <3>1. \A i \in 1 .. Len(e) : n + i \in Spots /\ f[<<v, n + i>>] = e[i]
        <4> SUFFICES ASSUME NEW i \in 1 .. m - n PROVE n + i \in Spots /\ f[<<v, n + i>>] = e[i]
          BY <2>2
        <4>1. n + i \in 1 .. m
          BY <1>3, <1>4, <1>5
        <4> QED  BY <1>3, <2>2, <4>1, Zenon
      <3>2. n \in Int
        BY <1>4
      <3>3. Leads(f, EachDropped(e), Cleared(f, v, n, Len(e))) /\ Cleared(f, v, n, Len(e)) \in Placings
        BY <1>3, <2>2, <3>1, <3>2, LeadsDropped
      <3> QED  BY <2>2, <3>3, Zenon
    <2>4. Placing(g, f, v, short)
      <3>1. ASSUME NEW s \in Spaces
            PROVE  IF s[1] = v /\ s[2] > 0
                   THEN g[s] = IF s[2] <= n THEN short.slots[s[2]] ELSE Null
                   ELSE g[s] = f[s]
        <4>0. /\ s[2] \in Int
              /\ g[s] = IF s[1] = v /\ s[2] \in n + 1 .. n + (m - n) THEN Null ELSE f[s]
          BY SpaceFacts DEF Cleared
        <4>1. /\ s[2] \in n + 1 .. n + (m - n) <=> ~(s[2] <= n) /\ s[2] <= m
              /\ s[2] > 0 /\ s[2] <= n => s[2] \in 1 .. n /\ s[2] <= m
              /\ ~(s[2] <= n) => s[2] > 0
          BY <1>3, <1>4, <1>5, <4>0
        <4> HIDE DEF g
        <4> QED  BY <1>3, <2>1, <4>0, <4>1, Zenon
      <3> HIDE DEF g
      <3> QED  BY <2>1, <3>1, Zenon DEF Placing
    <2> HIDE DEF g
    <2>5. vec' = [vec EXCEPT ![v] = short] /\ heap' = CountAll(heap, EachDropped(e))
      BY <1>1, <1>5
    <2> QED  BY <1>1, <2>1, <2>3, <2>4, <2>5, VectorStep, Zenon DEF f
  <1>6. CASE ~(n < m)
    <2> DEFINE s0 == [i \in DOMAIN roomy.slots |->
                        IF i \in m + 1 .. n THEN Null ELSE roomy.slots[i]]
               k == Len(roomy.slots)
    <2>1. Extends(roomy, m, b, m) /\ n <= k
      <3>1. Len(b.slots) \in Nat
        BY <1>3, BufferFacts
      <3>2. CASE n > Len(b.slots)
        <4>1. roomy = Reserved(b, n)
          BY <3>2 DEF Capacity
        <4> HIDE DEF roomy
        <4>2. Extends(roomy, m, b, m) /\ Len(roomy.slots) = IF n < Len(b.slots) THEN Len(b.slots) ELSE n
          BY <1>3, <1>4, <4>1, ReservedFacts
        <4> QED  BY <1>4, <3>1, <3>2, <4>2
      <3>3. CASE ~(n > Len(b.slots))
        <4>1. roomy = b
          BY <3>3 DEF Capacity
        <4> HIDE DEF roomy
        <4> QED  BY <1>3, <1>4, <3>1, <3>3, <4>1 DEF Extends
      <3> QED  BY <3>2, <3>3
    <2> HIDE DEF roomy, m
    <2>2. /\ roomy \in Buffers /\ roomy.size = m /\ \A i \in 1 .. m : roomy.slots[i] = b.slots[i]
      BY <2>1 DEF Extends
    <2>3. k \in Nat /\ DOMAIN roomy.slots = 1 .. k /\ \A i \in 1 .. k : Slot(i, m, roomy.slots[i])
      BY <2>2, BufferFacts
    <2> HIDE DEF k
    <2>4. /\ s0 = [i \in 1 .. k |-> s0[i]]
          /\ \A i \in 1 .. k : s0[i] = IF i \in m + 1 .. n THEN Null ELSE roomy.slots[i]
      BY <2>3
    <2>5. long = [slots |-> s0, size |-> n]
      OBVIOUS
    <2> HIDE DEF s0, long
    <2>6. \A i \in 1 .. k : Slot(i, n, s0[i])
      <3> SUFFICES ASSUME NEW i \in 1 .. k PROVE Slot(i, n, s0[i])
        OBVIOUS
      <3>1. Slot(i, m, roomy.slots[i]) /\ s0[i] = IF i \in m + 1 .. n THEN Null ELSE roomy.slots[i]
        BY <2>3, <2>4
      <3>2. (i \in m + 1 .. n <=> ~(i <= m) /\ i <= n) /\ (i <= m => i <= n)
        BY <1>3, <1>4, <1>6, <2>3
      <3> QED  BY <3>1, <3>2, SpaceFacts, Zenon DEF Slot
    <2>7. long \in Buffers /\ long.slots = s0 /\ long.size = n
      BY <1>4, <2>1, <2>3, <2>4, <2>5, <2>6, BufferMade DEF k
    <2>8. Leads(f, <<>>, f)
      BY <1>3, LeadsNowhere
    <2>9. Placing(f, f, v, long)
      <3>1. ASSUME NEW s \in Spaces, s[1] = v, s[2] > 0
            PROVE  f[s] = IF s[2] <= n THEN s0[s[2]] ELSE Null
        <4>0. s[2] \in Int
          BY SpaceFacts
        <4>1. CASE s[2] <= m
          <5>1. s[2] \in 1 .. m /\ s[2] \in 1 .. k /\ s[2] \notin m + 1 .. n /\ s[2] <= n
            BY <1>3, <1>4, <1>6, <2>1, <2>3, <3>1, <4>0, <4>1 DEF k
          <5> QED  BY <1>3, <2>2, <2>4, <3>1, <4>1, <5>1, Zenon
        <4>2. CASE ~(s[2] <= m) /\ s[2] <= n
          <5>1. s[2] \in 1 .. k /\ s[2] \in m + 1 .. n
            BY <1>3, <1>4, <1>6, <2>1, <2>3, <3>1, <4>0, <4>2 DEF k
          <5> QED  BY <1>3, <2>4, <3>1, <4>2, <5>1, Zenon
        <4>3. CASE ~(s[2] <= m) /\ ~(s[2] <= n)
          BY <1>3, <3>1, <4>3, Zenon
        <4> QED  BY <4>1, <4>2, <4>3
      <3> QED  BY <2>7, <3>1, Zenon DEF Placing
    <2>10. vec' = [vec EXCEPT ![v] = long] /\ heap' = CountAll(heap, <<>>)
      BY <1>1, <1>6
    <2> QED  BY <1>1, <1>3, <2>7, <2>8, <2>9, <2>10, VectorStep, Zenon DEF f
  <1> QED  BY <1>5, <1>6

LEMMA CopyAssignKeeps ==
  ASSUME VectorInv, NEW v \in Vectors, NEW w \in Vectors, CopyAssign(v, w)
  PROVE  VectorInv'
  <1> DEFINE f == Placed(vec, held)
             b == vec[v]
             n == b.size
             own == Elements(b)
             o == vec[w]
             k == o.size
             e == Elements(o)
             c == CopyOf(o)
             f1 == Cleared(f, v, 0, n)
             g == Filled(f1, v, 0, k, e)
  <1>1. /\ vec' = [vec EXCEPT ![v] = c] /\ held' = held /\ v # w
        /\ heap' = CountAll(heap, EachDropped(own) \o EachCopied(e))
    BY DEF CopyAssign, Update, Counted
  <1>2. Known(f, v, b) /\ Known(f, w, o)
    BY VectorKnown
  <1> HIDE DEF f, b, o
  <1>3. /\ f \in Placings /\ v \in Owners /\ b \in Buffers /\ n \in Nat
        /\ \A i \in 1 .. n : i \in Spots /\ f[<<v, i>>] = b.slots[i]
        /\ \A i \in Spots : i > n \/ i < 0 => f[<<v, i>>] = Null
        /\ \A s \in Spaces : s[1] = v /\ s[2] > 0 =>
             f[s] = IF s[2] <= n THEN b.slots[s[2]] ELSE Null
    BY <1>2, Zenon DEF Known
  <1>4. /\ o \in Buffers /\ k \in Nat /\ k <= MaxSize
        /\ \A i \in 1 .. k : <<w, i>> \in Spaces /\ f[<<w, i>>] = o.slots[i]
    BY <1>2, Zenon DEF Known
  <1>5. own \in Seq(Values) /\ Len(own) = n /\ \A i \in 1 .. n : own[i] = b.slots[i]
    BY <1>3, ElementsFacts
  <1>6. e \in Seq(Values) /\ Len(e) = k /\ \A i \in 1 .. k : e[i] = o.slots[i]
    BY <1>4, ElementsFacts
  <1>7. c \in Buffers /\ c.size = k /\ \A i \in 1 .. k : c.slots[i] = o.slots[i]
    BY <1>4, CopyOfFacts DEF Extends
  <1> HIDE DEF own, e, c, n, k
  <1>8. Leads(f, EachDropped(own), f1) /\ f1 \in Placings
    <2>1. \A i \in 1 .. Len(own) : 0 + i \in Spots /\ f[<<v, 0 + i>>] = own[i]
      <3> SUFFICES ASSUME NEW i \in 1 .. n PROVE 0 + i \in Spots /\ f[<<v, 0 + i>>] = own[i]
        BY <1>5
      <3>1. 0 + i = i
        BY <1>3
      <3> QED  BY <1>3, <1>5, <3>1, Zenon
    <2> QED  BY <1>3, <1>5, <2>1, LeadsDropped
  <1>9. \A i \in Spots : i > 0 => f1[<<v, i>>] = Null
    <2> SUFFICES ASSUME NEW i \in Spots, i > 0 PROVE f1[<<v, i>>] = Null
      OBVIOUS
    <2>1. i \in Int /\ (i \in 0 + 1 .. 0 + n \/ i > n)
      BY <1>3, SpaceFacts
    <2>2. <<v, i>> \in Spaces
      BY <1>3, SpaceFacts
    <2> QED  BY <1>3, <2>1, <2>2 DEF Cleared
  <1>10. \A s \in Spaces : s[1] # v => f1[s] = f[s]
    BY DEF Cleared
  <1>11. \A s \in Spaces : ~(s[2] > 0) => f1[s] = f[s]
    <2> SUFFICES ASSUME NEW s \in Spaces, ~(s[2] > 0) PROVE f1[s] = f[s]
      OBVIOUS
    <2>1. s[2] \notin 0 + 1 .. 0 + n
      BY <1>3, SpaceFacts
    <2> QED  BY <2>1 DEF Cleared
  <1> HIDE DEF f1
  <1>12. Leads(f1, EachCopied(e), g) /\ g \in Placings
    <2>1. ASSUME NEW i \in 1 .. Len(e)
          PROVE  /\ 0 + i \in Spots /\ f1[<<v, 0 + i>>] = Null
                 /\ \E s \in Spaces : f1[s] = e[i] /\ ~(s[1] = v /\ s[2] \in 0 + 1 .. 0 + Len(e))
      <3>1. i \in 1 .. k /\ 0 + i = i /\ i > 0 /\ i \in Spots
        BY <1>4, <1>6, SpaceFacts
      <3>2. <<w, i>> \in Spaces /\ f1[<<w, i>>] = e[i] /\ <<w, i>>[1] = w
        BY <1>1, <1>4, <1>6, <1>10, <3>1
      <3> QED  BY <1>1, <1>9, <3>1, <3>2, Zenon
    <2>2. 0 \in Int
      OBVIOUS
    <2>3. /\ \A i \in 1 .. Len(e) : 0 + i \in Spots /\ f1[<<v, 0 + i>>] = Null
          /\ \A i \in 1 .. Len(e) :
               \E s \in Spaces : f1[s] = e[i] /\ ~(s[1] = v /\ s[2] \in 0 + 1 .. 0 + Len(e))
      BY <2>1, Zenon
    <2>4. /\ Leads(f1, EachCopied(e), Filled(f1, v, 0, Len(e), e))
          /\ Filled(f1, v, 0, Len(e), e) \in Placings
      BY <1>3, <1>6, <1>8, <2>2, <2>3, LeadsCopied
    <2> QED  BY <1>6, <2>4, Zenon
  <1>13. Leads(f, EachDropped(own) \o EachCopied(e), g)
    BY <1>8, <1>12, LeadsOn
  <1>14. Placing(g, f, v, c)
    <2>1. ASSUME NEW s \in Spaces
          PROVE  IF s[1] = v /\ s[2] > 0
                 THEN g[s] = IF s[2] <= k THEN c.slots[s[2]] ELSE Null
                 ELSE g[s] = f[s]
      <3>0. /\ s[2] \in Int /\ s[2] \in Spots /\ s = <<s[1], s[2]>>
            /\ g[s] = IF s[1] = v /\ s[2] \in 0 + 1 .. 0 + k THEN e[s[2] - 0] ELSE f1[s]
        BY SpaceFacts DEF Filled
      <3>1. /\ s[2] \in 0 + 1 .. 0 + k <=> s[2] > 0 /\ s[2] <= k
            /\ s[2] > 0 /\ s[2] <= k => s[2] \in 1 .. k
            /\ s[2] - 0 = s[2]
        BY <1>4, <3>0
      <3> HIDE DEF g
      <3>2. CASE s[1] = v /\ s[2] > 0 /\ s[2] <= k
        BY <1>6, <1>7, <3>0, <3>1, <3>2, Zenon
      <3>3. CASE s[1] = v /\ s[2] > 0 /\ ~(s[2] <= k)
        BY <1>9, <3>0, <3>1, <3>3, Zenon
      <3>4. CASE ~(s[1] = v /\ s[2] > 0)
        BY <1>10, <1>11, <3>0, <3>1, <3>4, Zenon
      <3> QED  BY <3>2, <3>3, <3>4, Zenon
    <2> HIDE DEF g
    <2> QED  BY <1>7, <2>1, Zenon DEF Placing
  <1> HIDE DEF g
  <1> QED  BY <1>1, <1>7, <1>12, <1>13, <1>14, VectorStep, Zenon DEF f

LEMMA ConcatKeeps ==
  ASSUME VectorInv, NEW v \in Vectors, NEW w \in Vectors, Concat(v, w)
  PROVE  VectorInv'
  <1> DEFINE f == Placed(vec, held)
             b == vec[v]
             n == b.size
             o == vec[w]
             k == o.size
             e == Elements(o)
             c == PushedAll(b, e)
             g == Filled(f, v, n, k, e)
  <1>1. /\ vec' = [vec EXCEPT ![v] = c] /\ held' = held /\ v # w /\ n + k <= MaxSize
        /\ heap' = CountAll(heap, EachCopied(e))
    BY DEF Concat, Update, Counted
  <1>2. Known(f, v, b) /\ Known(f, w, o)
    BY VectorKnown
  <1> HIDE DEF f, b, o
  <1>3. /\ f \in Placings /\ v \in Owners /\ b \in Buffers /\ n \in Nat
        /\ \A i \in Spots : i > n \/ i < 0 => f[<<v, i>>] = Null
        /\ \A s \in Spaces : s[1] = v /\ s[2] > 0 =>
             f[s] = IF s[2] <= n THEN b.slots[s[2]] ELSE Null
    BY <1>2, Zenon DEF Known
  <1>4. /\ o \in Buffers /\ k \in Nat
        /\ \A i \in 1 .. k : <<w, i>> \in Spaces /\ f[<<w, i>>] = o.slots[i]
    BY <1>2, Zenon DEF Known
  <1>5. e \in Seq(Values) /\ Len(e) = k /\ \A i \in 1 .. k : e[i] = o.slots[i]
    BY <1>4, ElementsFacts
  <1> HIDE DEF e, k
  <1>6. /\ c \in Buffers /\ c.size = n + k
        /\ \A i \in 1 .. n : c.slots[i] = b.slots[i]
        /\ \A i \in 1 .. k : c.slots[n + i] = e[i]
    <2>1. Appended(c, b, e, Len(e))
      BY <1>1, <1>3, <1>5, PushedAllFacts
    <2> HIDE DEF c
    <2> QED  BY <1>5, <2>1 DEF Appended, Extends
  <1> HIDE DEF c, n
  <1>7. Leads(f, EachCopied(e), g) /\ g \in Placings
    <2>1. ASSUME NEW i \in 1 .. Len(e)
          PROVE  /\ n + i \in Spots /\ f[<<v, n + i>>] = Null
                 /\ \E s \in Spaces : f[s] = e[i] /\ ~(s[1] = v /\ s[2] \in n + 1 .. n + Len(e))
      <3>1. i \in 1 .. k /\ n + i > n /\ n + i \in Spots
        BY <1>1, <1>3, <1>4, <1>5, SpaceFacts
      <3>2. <<w, i>> \in Spaces /\ f[<<w, i>>] = e[i] /\ <<w, i>>[1] = w
        BY <1>4, <1>5, <3>1
      <3> QED  BY <1>1, <1>3, <3>1, <3>2, Zenon
    <2>2. n \in Int
      BY <1>3
    <2>3. /\ \A i \in 1 .. Len(e) : n + i \in Spots /\ f[<<v, n + i>>] = Null
          /\ \A i \in 1 .. Len(e) :
               \E s \in Spaces : f[s] = e[i] /\ ~(s[1] = v /\ s[2] \in n + 1 .. n + Len(e))
      BY <2>1, Zenon
    <2>4. /\ Leads(f, EachCopied(e), Filled(f, v, n, Len(e), e))
          /\ Filled(f, v, n, Len(e), e) \in Placings
      BY <1>3, <1>5, <2>2, <2>3, LeadsCopied
    <2> QED  BY <1>5, <2>4, Zenon
  <1>8. Placing(g, f, v, c)
    <2>1. ASSUME NEW s \in Spaces
          PROVE  IF s[1] = v /\ s[2] > 0
                 THEN g[s] = IF s[2] <= n + k THEN c.slots[s[2]] ELSE Null
                 ELSE g[s] = f[s]
      <3>0. /\ s[2] \in Int
            /\ g[s] = IF s[1] = v /\ s[2] \in n + 1 .. n + k THEN e[s[2] - n] ELSE f[s]
        BY SpaceFacts DEF Filled
      <3>1. /\ s[2] \in n + 1 .. n + k <=> ~(s[2] <= n) /\ s[2] <= n + k
            /\ s[2] \in n + 1 .. n + k => s[2] - n \in 1 .. k /\ n + (s[2] - n) = s[2] /\ s[2] > 0
            /\ s[2] > 0 /\ s[2] <= n => s[2] \in 1 .. n /\ s[2] <= n + k
        BY <1>3, <1>4, <3>0
      <3> HIDE DEF g
      <3>2. CASE s[1] = v /\ s[2] \in n + 1 .. n + k
        <4>1. c.slots[n + (s[2] - n)] = e[s[2] - n]
          BY <1>6, <3>1, <3>2, Zenon
        <4> QED  BY <3>0, <3>1, <3>2, <4>1, Zenon
      <3>3. CASE s[1] = v /\ s[2] > 0 /\ s[2] \notin n + 1 .. n + k
        BY <1>3, <1>6, <3>0, <3>1, <3>3, Zenon
      <3>4. CASE ~(s[1] = v /\ s[2] > 0)
        BY <3>0, <3>1, <3>4, Zenon
      <3> QED  BY <3>1, <3>2, <3>3, <3>4, Zenon
    <2> HIDE DEF g
    <2> QED  BY <1>6, <2>1, Zenon DEF Placing
  <1> HIDE DEF g
  <1> QED  BY <1>1, <1>6, <1>7, <1>8, VectorStep, Zenon DEF f

(* What is moved changes its place and no counter.                         *)
Moved(g, f, move) == \A s \in Spaces : move[move[s]] = s /\ g[s] = f[move[s]]

LEMMA MovedStep ==
  ASSUME VectorInv, NEW uses, NEW f \in Placings, NEW move \in [Spaces -> Spaces],
         vec' \in [Vectors -> Buffers], held' \in [Pointers -> Values],
         heap' = CountAll(heap, uses), Leads(Placed(vec, held), uses, f),
         Moved(Placed(vec', held'), f, move)
  PROVE  VectorInv'
  <1>1. Placed(vec, held) \in Placings /\ Exact(heap, Placed(vec, held))
    BY PlacedFacts DEF VectorInv
  <1>2. Exact(CountAll(heap, uses), f)
    BY <1>1, LedgerKept
  <1>3. Placed(vec', held') \in Placings
    BY PlacedFacts
  <1>4. Exact(CountAll(heap, uses), Placed(vec', held'))
    BY <1>2, <1>3, MovesKeepExact DEF Moved
  <1> QED  BY <1>4, Zenon DEF VectorInv


LEMMA PushMovedKeeps ==
  ASSUME VectorInv, NEW v \in Vectors, NEW p \in Pointers, PushMoved(v, p)
  PROVE  VectorInv'
  <1> DEFINE f == Placed(vec, held)
             b == vec[v]
             n == b.size
             x == held[p]
             c == Pushed(b, x)
             from == <<p, 0>>
             to == <<v, n + 1>>
             move == [s \in Spaces |-> IF s = from THEN to ELSE IF s = to THEN from ELSE s]
             g == Placed(vec', held')
  <1>1. /\ n < MaxSize /\ vec' = [vec EXCEPT ![v] = c] /\ held' = [held EXCEPT ![p] = Null]
        /\ heap' = CountAll(heap, <<>>)
    BY DEF PushMoved, Update, Counted
  <1>2. /\ Known(f, v, b) /\ from \in Spaces /\ x \in Values /\ f[from] = x
        /\ vec \in [Vectors -> Buffers] /\ held \in [Pointers -> Values]
    BY VectorKnown
  <1>3. f = Placed(vec, held)
    OBVIOUS
  <1> HIDE DEF f, b, x
  <1>4. /\ f \in Placings /\ v \in Owners /\ b \in Buffers /\ n \in Nat
        /\ n + 1 \in Spots /\ n + 1 > 0 /\ to \in Spaces /\ f[to] = Null
        /\ \A s \in Spaces : s[1] = v /\ s[2] > 0 =>
             f[s] = IF s[2] <= n THEN b.slots[s[2]] ELSE Null
    <2>1. /\ f \in Placings /\ v \in Owners /\ b \in Buffers /\ n \in Nat
          /\ \A i \in Spots : i > n \/ i < 0 => f[<<v, i>>] = Null
          /\ \A s \in Spaces : s[1] = v /\ s[2] > 0 =>
               f[s] = IF s[2] <= n THEN b.slots[s[2]] ELSE Null
      BY <1>2, Zenon DEF Known
    <2>2. n + 1 \in Spots /\ n + 1 > n /\ n + 1 > 0
      BY <1>1, <2>1, SpaceFacts
    <2>3. to \in Spaces
      BY <2>1, <2>2, SpaceFacts
    <2> QED  BY <2>1, <2>2, <2>3, Zenon
  <1>5. /\ c \in Buffers /\ c.size = n + 1 /\ c.slots[n + 1] = x
        /\ \A i \in 1 .. n : c.slots[i] = b.slots[i]
    BY <1>1, <1>2, <1>4, PushedFacts DEF Extends
  <1> HIDE DEF c, n
  <1>6. /\ vec' \in [Vectors -> Buffers] /\ Became(vec', vec, v, c)
        /\ held' \in [Pointers -> Values] /\ Became(held', held, p, Null)
    BY <1>1, <1>2, <1>5, SpaceFacts DEF Became
  <1>7. g \in Placings
    BY <1>6, PlacedFacts
  <1>8. from # to
    BY <1>4
  <1>9. move \in [Spaces -> Spaces] /\ \A s \in Spaces : move[move[s]] = s
    BY <1>2, <1>4, <1>8
  <1>10. ASSUME NEW s \in Spaces PROVE g[s] = f[move[s]]
    <2>0. s[2] \in Int /\ s = <<s[1], s[2]>>
      BY SpaceFacts
    <2>1. /\ g[s] = IF s[2] = 0 THEN IF s[1] \in Pointers THEN held'[s[1]] ELSE Null
                    ELSE IF s[1] \in Vectors /\ s[2] \in 1 .. vec'[s[1]].size
                         THEN vec'[s[1]].slots[s[2]] ELSE Null
          /\ f[s] = IF s[2] = 0 THEN IF s[1] \in Pointers THEN held[s[1]] ELSE Null
                    ELSE IF s[1] \in Vectors /\ s[2] \in 1 .. vec[s[1]].size
                         THEN vec[s[1]].slots[s[2]] ELSE Null
      BY <1>3, Zenon DEF Placed
    <2>2. CASE s = from
      <3>1. s[1] = p /\ s[2] = 0 /\ move[s] = to
        BY <2>2
      <3> QED  BY <1>4, <1>6, <2>1, <3>1, Zenon DEF Became
    <2>3. CASE s = to
      <3>1. s[1] = v /\ s[2] = n + 1 /\ move[s] = from /\ s[2] # 0 /\ n + 1 \in 1 .. n + 1
        BY <1>4, <1>8, <2>3
      <3> QED  BY <1>2, <1>5, <1>6, <2>1, <3>1, Zenon DEF Became
    <2>4. CASE s # from /\ s # to
      <3>1. move[s] = s
        BY <2>4
      <3> HIDE DEF move, g
      <3>2. CASE s[2] = 0
        <4>1. s[1] # p
          BY <2>0, <2>4, <3>2
        <4> QED  BY <1>2, <1>6, <2>1, <3>1, <3>2, <4>1 DEF Became
      <3>3. CASE s[2] # 0 /\ s[1] = v
        <4>1. s[2] # n + 1
          BY <2>0, <2>4, <3>3
        <4>2. s[2] \in 1 .. n + 1 <=> s[2] \in 1 .. n
          BY <1>4, <2>0, <4>1
        <4>3. vec'[v] = c /\ vec[v].size = n /\ vec[v].slots = b.slots
          BY <1>6, Zenon DEF Became, b, n
        <4> QED  BY <1>5, <2>1, <3>1, <3>3, <4>2, <4>3, Zenon
      <3>4. CASE s[2] # 0 /\ s[1] # v
        BY <1>2, <1>6, <2>1, <3>1, <3>4, Zenon DEF Became
      <3> QED  BY <3>2, <3>3, <3>4
    <2> QED  BY <2>2, <2>3, <2>4
  <1>11. Leads(Placed(vec, held), <<>>, f)
    BY <1>3, <1>4, LeadsNowhere
  <1> HIDE DEF move
  <1>12. Moved(Placed(vec', held'), f, move)
    BY <1>9, <1>10, Zenon DEF Moved
  <1> QED  BY <1>1, <1>4, <1>6, <1>9, <1>11, <1>12, MovedStep, Zenon

LEMMA MoveAssignKeeps ==
  ASSUME VectorInv, NEW v \in Vectors, NEW w \in Vectors, MoveAssign(v, w)
  PROVE  VectorInv'
  <1> DEFINE f == Placed(vec, held)
             b == vec[v]
             n == b.size
             e == Elements(b)
             f1 == Cleared(f, v, 0, n)
             move == [s \in Spaces |-> IF s[1] = v /\ s[2] > 0 THEN <<w, s[2]>>
                                       ELSE IF s[1] = w /\ s[2] > 0 THEN <<v, s[2]>> ELSE s]
             g == Placed(vec', held')
  <1>1. /\ v # w /\ vec' = [vec EXCEPT ![v] = vec[w], ![w] = Empty] /\ held' = held
        /\ heap' = CountAll(heap, EachDropped(e))
    BY DEF MoveAssign, Counted
  <1>2. /\ Known(f, v, b) /\ Known(f, w, vec[w])
        /\ vec \in [Vectors -> Buffers] /\ held \in [Pointers -> Values]
    BY VectorKnown
  <1>3. f = Placed(vec, held)
    OBVIOUS
  <1> HIDE DEF f, b
  <1>4. /\ f \in Placings /\ v \in Owners /\ w \in Owners /\ b \in Buffers /\ n \in Nat
        /\ \A i \in 1 .. n : i \in Spots /\ f[<<v, i>>] = b.slots[i]
        /\ \A i \in Spots : i > n \/ i < 0 => f[<<v, i>>] = Null
    BY <1>2, Zenon DEF Known
  <1>5. e \in Seq(Values) /\ Len(e) = n /\ \A i \in 1 .. n : e[i] = b.slots[i]
    BY <1>4, ElementsFacts
  <1>6. /\ vec' \in [Vectors -> Buffers] /\ held' \in [Pointers -> Values]
        /\ vec'[v] = vec[w] /\ vec'[w].size = 0
        /\ \A u \in Vectors : u # v /\ u # w => vec'[u] = vec[u]
    BY <1>1, <1>2, EmptyFacts
  <1> HIDE DEF e, n
  <1>7. Leads(f, EachDropped(e), f1) /\ f1 \in Placings
    <2>1. \A i \in 1 .. Len(e) : 0 + i \in Spots /\ f[<<v, 0 + i>>] = e[i]
      <3> SUFFICES ASSUME NEW i \in 1 .. n PROVE 0 + i \in Spots /\ f[<<v, 0 + i>>] = e[i]
        BY <1>5
      <3>1. 0 + i = i
        BY <1>4
      <3> QED  BY <1>4, <1>5, <3>1, Zenon
    <2> QED  BY <1>4, <1>5, <2>1, LeadsDropped
  <1>8. \A i \in Spots : i > 0 => <<v, i>> \in Spaces /\ f1[<<v, i>>] = Null
    <2> SUFFICES ASSUME NEW i \in Spots, i > 0 PROVE <<v, i>> \in Spaces /\ f1[<<v, i>>] = Null
      OBVIOUS
    <2>1. i \in Int /\ (i \in 0 + 1 .. 0 + n \/ i > n)
      BY <1>4, SpaceFacts
    <2>2. <<v, i>> \in Spaces
      BY <1>4, SpaceFacts
    <2> QED  BY <1>4, <2>1, <2>2 DEF Cleared
  <1>9. \A s \in Spaces : s[1] # v \/ ~(s[2] > 0) => f1[s] = f[s]
    <2> SUFFICES ASSUME NEW s \in Spaces, s[1] # v \/ ~(s[2] > 0) PROVE f1[s] = f[s]
      OBVIOUS
    <2>1. ~(s[2] > 0) => s[2] \notin 0 + 1 .. 0 + n
      BY <1>4, SpaceFacts
    <2> QED  BY <2>1 DEF Cleared
  <1> HIDE DEF f1
  <1>10. \A i \in Spots : <<v, i>> \in Spaces /\ <<w, i>> \in Spaces
    BY <1>4, SpaceFacts
  <1>11. move \in [Spaces -> Spaces] /\ \A s \in Spaces : move[move[s]] = s
    <2>1. ASSUME NEW s \in Spaces PROVE move[s] \in Spaces
      BY <1>10, SpaceFacts
    <2>2. ASSUME NEW s \in Spaces PROVE move[move[s]] = s
      <3>1. s = <<s[1], s[2]>> /\ s[2] \in Spots
        BY SpaceFacts
      <3> QED  BY <1>1, <1>10, <3>1
    <2> QED  BY <2>1, <2>2
  <1>12. ASSUME NEW s \in Spaces PROVE g[s] = f1[move[s]]
    <2>0. s[2] \in Int /\ s[2] \in Spots /\ s = <<s[1], s[2]>>
      BY SpaceFacts
    <2>1. /\ g[s] = IF s[2] = 0 THEN IF s[1] \in Pointers THEN held'[s[1]] ELSE Null
                    ELSE IF s[1] \in Vectors /\ s[2] \in 1 .. vec'[s[1]].size
                         THEN vec'[s[1]].slots[s[2]] ELSE Null
          /\ f[s] = IF s[2] = 0 THEN IF s[1] \in Pointers THEN held[s[1]] ELSE Null
                    ELSE IF s[1] \in Vectors /\ s[2] \in 1 .. vec[s[1]].size
                         THEN vec[s[1]].slots[s[2]] ELSE Null
      BY <1>3, Zenon DEF Placed
    <2>2. CASE s[1] = v /\ s[2] > 0
      <3>1. move[s] = <<w, s[2]>> /\ <<w, s[2]>> \in Spaces
            /\ <<w, s[2]>>[1] = w /\ <<w, s[2]>>[2] = s[2] /\ s[2] # 0
        BY <1>10, <2>0, <2>2
      <3>2. f1[<<w, s[2]>>] = f[<<w, s[2]>>]
        BY <1>1, <1>9, <3>1, Zenon
      <3>3. f[<<w, s[2]>>] = IF s[2] <= vec[w].size THEN vec[w].slots[s[2]] ELSE Null
        BY <1>2, <2>2, <3>1, Zenon DEF Known
      <3>4. s[2] <= vec[w].size <=> s[2] \in 1 .. vec[w].size
        <4>1. vec[w].size \in Nat
          BY <1>2, Zenon DEF Known
        <4> QED  BY <2>0, <2>2, <4>1
      <3> QED  BY <1>6, <2>1, <2>2, <3>1, <3>2, <3>3, <3>4, Zenon
    <2>3. CASE s[1] = w /\ s[2] > 0
      <3>1. move[s] = <<v, s[2]>> /\ s[2] # 0 /\ s[2] \notin 1 .. 0
        BY <1>1, <2>0, <2>3
      <3> QED  BY <1>6, <1>8, <2>0, <2>1, <2>3, <3>1, Zenon
    <2>4. CASE ~(s[1] = v /\ s[2] > 0) /\ ~(s[1] = w /\ s[2] > 0)
      <3>1. move[s] = s /\ f1[s] = f[s]
        BY <1>9, <2>4
      <3>2. ~(s[2] > 0) => \A m : ~(s[2] \in 1 .. m)
        BY <2>0
      <3> QED  BY <1>1, <1>6, <2>1, <2>4, <3>1, <3>2, Zenon
    <2> QED  BY <2>2, <2>3, <2>4
  <1> HIDE DEF move
  <1>13. Moved(Placed(vec', held'), f1, move)
    BY <1>11, <1>12, Zenon DEF Moved
  <1>14. Leads(Placed(vec, held), EachDropped(e), f1)
    BY <1>3, <1>7, Zenon
  <1> QED  BY <1>1, <1>6, <1>7, <1>11, <1>13, <1>14, MovedStep, Zenon


LEMMA CollectIntoKeeps ==
  ASSUME VectorInv, NEW v \in Vectors, NEW room \in Nat, NEW values \in Seq(Values),
         Len(values) <= MaxSize,
         \A i \in 1 .. Len(values) :
           \E w \in Vectors, j \in 1 .. MaxSize :
             j <= vec[w].size /\ vec[w].slots[j] = values[i],
         CollectInto(v, room, values)
  PROVE  VectorInv'
  <1> DEFINE f == Placed(vec, held)
             b == vec[v]
             n == b.size
             e == Elements(b)
             k == Len(values)
             a == -(MaxSize + 1)
             c == PushedAll(Reserved(Empty, room), values)
             f1 == Filled(f, v, a, k, values)
             f2 == Cleared(f1, v, 0, n)
             move == [s \in Spaces |->
                        IF s[1] = v /\ s[2] \in 1 .. MaxSize THEN <<v, s[2] + a>>
                        ELSE IF s[1] = v /\ s[2] \in a + 1 .. a + MaxSize THEN <<v, s[2] - a>>
                        ELSE s]
             g == Placed(vec', held')
             uses == EachCopied(values) \o EachDropped(e)
  <1>1. /\ vec' = [vec EXCEPT ![v] = c] /\ held' = held /\ heap' = CountAll(heap, uses)
    BY DEF CollectInto, Update, Counted
  <1>2. /\ Known(f, v, b) /\ vec \in [Vectors -> Buffers] /\ held \in [Pointers -> Values]
    BY VectorKnown
  <1>3. f = Placed(vec, held)
    OBVIOUS
  <1>4. \A i \in 1 .. k : \E s \in Spaces : f[s] = values[i] /\ s[2] > 0
    <2> SUFFICES ASSUME NEW i \in 1 .. k PROVE \E s \in Spaces : f[s] = values[i] /\ s[2] > 0
      OBVIOUS
    <2>1. PICK w \in Vectors, j \in 1 .. MaxSize : j <= vec[w].size /\ vec[w].slots[j] = values[i]
      OBVIOUS
    <2>2. Known(f, w, vec[w])
      BY VectorKnown
    <2>3. j \in 1 .. vec[w].size /\ j > 0
      <3>1. vec[w].size \in Nat
        BY <2>2, Zenon DEF Known
      <3> QED  BY <2>1, <3>1, SpaceFacts
    <2>4. <<w, j>> \in Spaces /\ f[<<w, j>>] = values[i]
      BY <2>1, <2>2, <2>3, Zenon DEF Known
    <2>5. <<w, j>>[2] = j
      OBVIOUS
    <2> QED  BY <2>3, <2>4, <2>5, Zenon
  <1> HIDE DEF f, b
  <1>5. /\ f \in Placings /\ v \in Owners /\ b \in Buffers /\ n \in Nat /\ n <= MaxSize
        /\ \A i \in 1 .. n : i \in Spots /\ f[<<v, i>>] = b.slots[i]
        /\ \A i \in Spots : i > n \/ i < 0 => f[<<v, i>>] = Null
    BY <1>2, Zenon DEF Known
  <1>6. e \in Seq(Values) /\ Len(e) = n /\ \A i \in 1 .. n : e[i] = b.slots[i]
    BY <1>5, ElementsFacts
  <1>7. /\ c \in Buffers /\ c.size = k /\ \A i \in 1 .. k : c.slots[i] = values[i]
    <2>1. Reserved(Empty, room) \in Buffers /\ Reserved(Empty, room).size = 0
      BY EmptyFacts, ReservedFacts DEF Extends
    <2>2. 0 + k <= MaxSize /\ k \in Nat /\ 0 + k = k
      BY SpaceFacts
    <2>3. Appended(c, Reserved(Empty, room), values, k)
      BY <2>1, <2>2, PushedAllFacts
    <2>4. c \in Buffers /\ c.size = 0 + k /\ \A i \in 1 .. k : c.slots[0 + i] = values[i]
      BY <2>1, <2>3 DEF Appended, Extends
    <2>5. \A i \in 1 .. k : 0 + i = i
      BY <2>2
    <2> QED  BY <2>2, <2>4, <2>5, Zenon
  <1>8. /\ vec' \in [Vectors -> Buffers] /\ held' \in [Pointers -> Values] /\ vec'[v] = c
        /\ \A u \in Vectors : u # v => vec'[u] = vec[u]
    BY <1>1, <1>2, <1>7
  <1>9. k \in Nat /\ k <= MaxSize /\ MaxSize \in Nat
    BY SpaceFacts
  <1>10. /\ a \in Int
         /\ \A i \in 1 .. MaxSize :
              /\ i \in Spots /\ i > 0 /\ i # 0 /\ i \notin a + 1 .. a + MaxSize
              /\ i + a \in Spots /\ i + a < 0 /\ ~(i + a > 0) /\ i + a \notin 1 .. MaxSize
              /\ i + a \in a + 1 .. a + MaxSize /\ (i + a) - a = i
         /\ \A i \in a + 1 .. a + MaxSize :
              /\ i \in Spots /\ i < 0 /\ i # 0 /\ i \notin 1 .. MaxSize
              /\ i - a \in Spots /\ i - a > 0 /\ i - a \in 1 .. MaxSize /\ (i - a) + a = i
         /\ \A i \in 1 .. k : i + a \in a + 1 .. a + k /\ i \in 1 .. MaxSize /\ a + i = i + a
         /\ \A i \in k + 1 .. MaxSize :
              i + a \notin a + 1 .. a + k /\ i \in 1 .. MaxSize /\ i \notin 1 .. k
         /\ \A i \in Int : /\ i \in a + 1 .. a + k => i \in a + 1 .. a + MaxSize
                           /\ i > 0 => i \notin a + 1 .. a + k
                           /\ i \in 1 .. k => i \in 1 .. MaxSize
                           /\ i \in 1 .. MaxSize => i \in 1 .. k \/ i \in k + 1 .. MaxSize
                           /\ i \in 1 .. n => i \in 1 .. MaxSize
                           /\ i > 0 => i \in 1 .. n \/ i > n
                           /\ i \in 1 .. n => i > 0
                           /\ 0 + 1 .. 0 + n = 1 .. n /\ 0 + i = i
    <2>1. \A i \in Int : i \in Spots <=> -(MaxSize + 1) <= i /\ i <= MaxSize + 1
      BY SpaceFacts
    <2>2. n \in Nat /\ n <= MaxSize
      BY <1>5
    <2> HIDE DEF n, k
    <2>3. a \in Int
      BY <1>9
    <2>4. ASSUME NEW i \in 1 .. MaxSize
          PROVE  /\ i \in Spots /\ i > 0 /\ i # 0 /\ i \notin a + 1 .. a + MaxSize
                 /\ i + a \in Spots /\ i + a < 0 /\ ~(i + a > 0) /\ i + a \notin 1 .. MaxSize
                 /\ i + a \in a + 1 .. a + MaxSize /\ (i + a) - a = i
      BY <1>9, <2>1
    <2>5. ASSUME NEW i \in a + 1 .. a + MaxSize
          PROVE  /\ i \in Spots /\ i < 0 /\ i # 0 /\ i \notin 1 .. MaxSize
                 /\ i - a \in Spots /\ i - a > 0 /\ i - a \in 1 .. MaxSize /\ (i - a) + a = i
      BY <1>9, <2>1
    <2>6. ASSUME NEW i \in 1 .. k
          PROVE  i + a \in a + 1 .. a + k /\ i \in 1 .. MaxSize /\ a + i = i + a
      BY <1>9
    <2>7. ASSUME NEW i \in k + 1 .. MaxSize
          PROVE  i + a \notin a + 1 .. a + k /\ i \in 1 .. MaxSize /\ i \notin 1 .. k
      BY <1>9
    <2>8. ASSUME NEW i \in Int
          PROVE  /\ i \in a + 1 .. a + k => i \in a + 1 .. a + MaxSize
                 /\ i > 0 => i \notin a + 1 .. a + k
                 /\ i \in 1 .. k => i \in 1 .. MaxSize
                 /\ i \in 1 .. MaxSize => i \in 1 .. k \/ i \in k + 1 .. MaxSize
                 /\ i \in 1 .. n => i \in 1 .. MaxSize
                 /\ i > 0 => i \in 1 .. n \/ i > n
                 /\ i \in 1 .. n => i > 0
                 /\ 0 + 1 .. 0 + n = 1 .. n /\ 0 + i = i
      BY <1>9, <2>2
    <2> HIDE DEF a
    <2> QED  BY <2>3, <2>4, <2>5, <2>6, <2>7, <2>8, Zenon
  <1>11. /\ \A i \in Spots : /\ i \in Int /\ <<v, i>> \in Spaces
                             /\ <<v, i>>[1] = v /\ <<v, i>>[2] = i
         /\ \A s \in Spaces : s[2] \in Int /\ s[2] \in Spots /\ (s[1] = v => <<v, s[2]>> = s)
    BY <1>5, SpaceFacts
  <1> HIDE DEF e, n, k, c, a
  <1>12. Leads(f, EachCopied(values), f1) /\ f1 \in Placings
    <2>1. ASSUME NEW i \in 1 .. Len(values)
          PROVE  /\ a + i \in Spots /\ f[<<v, a + i>>] = Null
                 /\ \E s \in Spaces : f[s] = values[i]
                                      /\ ~(s[1] = v /\ s[2] \in a + 1 .. a + Len(values))
      <3>1. i \in 1 .. k /\ i + a \in Spots /\ i + a < 0 /\ a + i = i + a
        BY <1>10, Zenon DEF k
      <3>2. PICK s \in Spaces : f[s] = values[i] /\ s[2] > 0
        BY <1>4, <3>1, Zenon
      <3>3. s[2] \notin a + 1 .. a + Len(values)
        <4>1. \A j \in Int : j > 0 => j \notin a + 1 .. a + k
          BY <1>10, Zenon
        <4>2. s[2] \in Int
          BY <1>11, Zenon
        <4> QED  BY <3>2, <4>1, <4>2, Zenon DEF k
      <3> QED  BY <1>5, <3>1, <3>2, <3>3, Zenon
    <2>2. /\ \A i \in 1 .. Len(values) : a + i \in Spots /\ f[<<v, a + i>>] = Null
          /\ \A i \in 1 .. Len(values) :
               \E s \in Spaces : f[s] = values[i] /\ ~(s[1] = v /\ s[2] \in a + 1 .. a + Len(values))
      BY <2>1, Zenon
    <2> QED  BY <1>5, <1>10, <2>2, LeadsCopied DEF k
  <1>13. \A s \in Spaces :
           f1[s] = IF s[1] = v /\ s[2] \in a + 1 .. a + k THEN values[s[2] - a] ELSE f[s]
    BY DEF Filled
  <1> HIDE DEF f1
  <1>14. /\ \A i \in 1 .. k : f1[<<v, i + a>>] = values[i]
         /\ \A i \in k + 1 .. MaxSize : f1[<<v, i + a>>] = Null
         /\ \A i \in 1 .. n : f1[<<v, i>>] = b.slots[i]
         /\ \A i \in Spots : i > n => f1[<<v, i>>] = Null
    <2>1. ASSUME NEW i \in 1 .. k PROVE f1[<<v, i + a>>] = values[i]
      <3>1. i \in 1 .. MaxSize /\ i + a \in a + 1 .. a + k
        BY <1>10, Zenon
      <3>2. i + a \in Spots /\ (i + a) - a = i
        BY <1>10, <3>1, Zenon
      <3> QED  BY <1>11, <1>13, <3>1, <3>2, Zenon
    <2>2. ASSUME NEW i \in k + 1 .. MaxSize PROVE f1[<<v, i + a>>] = Null
      <3>1. i \in 1 .. MaxSize /\ i + a \notin a + 1 .. a + k
        BY <1>10, Zenon
      <3>2. i + a \in Spots /\ i + a < 0
        BY <1>10, <3>1, Zenon
      <3>3. f1[<<v, i + a>>] = f[<<v, i + a>>]
        BY <1>11, <1>13, <3>1, <3>2, Zenon
      <3> QED  BY <1>5, <3>2, <3>3, Zenon
    <2>3. ASSUME NEW i \in 1 .. n PROVE f1[<<v, i>>] = b.slots[i]
      <3>1. i \in Spots /\ f[<<v, i>>] = b.slots[i]
        BY <1>5, Zenon
      <3>2. i \notin a + 1 .. a + k
        BY <1>10, <1>11, <3>1, Zenon
      <3> QED  BY <1>11, <1>13, <3>1, <3>2, Zenon
    <2>4. ASSUME NEW i \in Spots, i > n PROVE f1[<<v, i>>] = Null
      <3>1. i > 0
        <4>1. n \in Nat
          BY <1>5, Zenon
        <4>2. i \in Int
          BY <1>11, Zenon
        <4> QED  BY <2>4, <4>1, <4>2
      <3>2. i \notin a + 1 .. a + k
        BY <1>10, <1>11, <3>1, Zenon
      <3> QED  BY <1>5, <1>11, <1>13, <2>4, <3>2, Zenon
    <2> QED  BY <2>1, <2>2, <2>3, <2>4, Zenon
  <1>15. Leads(f1, EachDropped(e), f2) /\ f2 \in Placings
    <2>1. ASSUME NEW i \in 1 .. n PROVE 0 + i \in Spots /\ f1[<<v, 0 + i>>] = e[i]
      <3>1. i \in Spots /\ 0 + i = i
        BY <1>5, <1>10, <1>11, Zenon
      <3> QED  BY <1>6, <1>14, <3>1, Zenon
    <2>2. \A i \in 1 .. Len(e) : 0 + i \in Spots /\ f1[<<v, 0 + i>>] = e[i]
      BY <1>6, <2>1, Zenon
    <2> QED  BY <1>5, <1>6, <1>12, <2>2, LeadsDropped
  <1>16. Leads(Placed(vec, held), uses, f2)
    BY <1>3, <1>12, <1>15, LeadsOn, Zenon
  <1>17. \A s \in Spaces : f2[s] = IF s[1] = v /\ s[2] \in 0 + 1 .. 0 + n THEN Null ELSE f1[s]
    BY DEF Cleared
  <1> HIDE DEF f2
  <1>18. /\ \A i \in Spots : i > 0 => f2[<<v, i>>] = Null
         /\ \A i \in 1 .. MaxSize : f2[<<v, i + a>>] = f1[<<v, i + a>>]
         /\ \A s \in Spaces : ~(s[1] = v /\ s[2] \in 1 .. n) => f2[s] = f1[s]
    <2>1. ASSUME NEW i \in Spots, i > 0 PROVE f2[<<v, i>>] = Null
      <3>1. i \in 0 + 1 .. 0 + n \/ i > n
        BY <1>10, <1>11, <2>1, Zenon
      <3> QED  BY <1>11, <1>14, <1>17, <3>1, Zenon
    <2>2. ASSUME NEW i \in 1 .. MaxSize PROVE f2[<<v, i + a>>] = f1[<<v, i + a>>]
      <3>1. i + a \in Spots /\ i + a \notin 0 + 1 .. 0 + n
        BY <1>10, <1>11, Zenon
      <3> QED  BY <1>11, <1>17, <3>1, Zenon
    <2>3. ASSUME NEW s \in Spaces, ~(s[1] = v /\ s[2] \in 1 .. n) PROVE f2[s] = f1[s]
      BY <1>10, <1>11, <1>17, <2>3, Zenon
    <2> QED  BY <2>1, <2>2, <2>3, Zenon
  <1>19. ASSUME NEW s \in Spaces
         PROVE  /\ s[1] = v /\ s[2] \in 1 .. MaxSize => move[s] = <<v, s[2] + a>>
                /\ s[1] = v /\ s[2] \in a + 1 .. a + MaxSize => move[s] = <<v, s[2] - a>>
                /\ ~(s[1] = v /\ s[2] \in 1 .. MaxSize) /\ ~(s[1] = v /\ s[2] \in a + 1 .. a + MaxSize)
                   => move[s] = s
    BY <1>10, Zenon
  <1>20. move \in [Spaces -> Spaces] /\ \A s \in Spaces : move[move[s]] = s
    <2>1. move = [s \in Spaces |-> move[s]]
      OBVIOUS
    <2> HIDE DEF move
    <2>2. ASSUME NEW s \in Spaces PROVE move[s] \in Spaces /\ move[move[s]] = s
      <3>2. CASE s[1] = v /\ s[2] \in 1 .. MaxSize
        <4>1. /\ s[2] + a \in Spots /\ s[2] + a \in a + 1 .. a + MaxSize /\ (s[2] + a) - a = s[2]
              /\ <<v, s[2]>> = s
          BY <1>10, <1>11, <3>2, Zenon
        <4>2. /\ move[s] = <<v, s[2] + a>> /\ <<v, s[2] + a>> \in Spaces
              /\ <<v, s[2] + a>>[1] = v /\ <<v, s[2] + a>>[2] = s[2] + a
          BY <1>11, <1>19, <3>2, <4>1, Zenon
        <4>3. move[<<v, s[2] + a>>] = <<v, (s[2] + a) - a>>
          BY <1>19, <4>1, <4>2, Zenon
        <4> QED  BY <4>1, <4>2, <4>3, Zenon
      <3>3. CASE s[1] = v /\ s[2] \in a + 1 .. a + MaxSize
        <4>1. /\ s[2] - a \in Spots /\ s[2] - a \in 1 .. MaxSize /\ (s[2] - a) + a = s[2]
              /\ <<v, s[2]>> = s
          BY <1>10, <1>11, <3>3, Zenon
        <4>2. /\ move[s] = <<v, s[2] - a>> /\ <<v, s[2] - a>> \in Spaces
              /\ <<v, s[2] - a>>[1] = v /\ <<v, s[2] - a>>[2] = s[2] - a
          BY <1>11, <1>19, <3>3, <4>1, Zenon
        <4>3. move[<<v, s[2] - a>>] = <<v, (s[2] - a) + a>>
          BY <1>19, <4>1, <4>2, Zenon
        <4> QED  BY <4>1, <4>2, <4>3, Zenon
      <3>4. CASE ~(s[1] = v /\ s[2] \in 1 .. MaxSize) /\ ~(s[1] = v /\ s[2] \in a + 1 .. a + MaxSize)
        BY <1>19, <3>4, Zenon
      <3> QED  BY <3>2, <3>3, <3>4, Zenon
    <2> QED  BY <2>1, <2>2, Zenon
  <1> HIDE DEF move
  <1>21. ASSUME NEW s \in Spaces PROVE g[s] = f2[move[s]]
    <2>1. /\ g[s] = IF s[2] = 0 THEN IF s[1] \in Pointers THEN held'[s[1]] ELSE Null
                    ELSE IF s[1] \in Vectors /\ s[2] \in 1 .. vec'[s[1]].size
                         THEN vec'[s[1]].slots[s[2]] ELSE Null
          /\ f[s] = IF s[2] = 0 THEN IF s[1] \in Pointers THEN held[s[1]] ELSE Null
                    ELSE IF s[1] \in Vectors /\ s[2] \in 1 .. vec[s[1]].size
                         THEN vec[s[1]].slots[s[2]] ELSE Null
      BY <1>3, Zenon DEF Placed
    <2> HIDE DEF g
    <2>2. CASE s[1] = v /\ s[2] \in 1 .. MaxSize
      <3>1. s[2] # 0 /\ f2[move[s]] = f1[<<v, s[2] + a>>]
        BY <1>10, <1>18, <1>19, <2>2, Zenon
      <3>2. g[s] = IF s[2] \in 1 .. k THEN c.slots[s[2]] ELSE Null
        BY <1>7, <1>8, <2>1, <2>2, <3>1, Zenon
      <3>3. CASE s[2] \in 1 .. k
        BY <1>7, <1>14, <3>1, <3>2, <3>3, Zenon
      <3>4. CASE s[2] \in k + 1 .. MaxSize
        <4>1. s[2] \notin 1 .. k
          BY <1>10, <3>4, Zenon
        <4> QED  BY <1>14, <3>1, <3>2, <3>4, <4>1, Zenon
      <3>5. \A i \in Int : i \in 1 .. MaxSize => i \in 1 .. k \/ i \in k + 1 .. MaxSize
        BY <1>10, Zenon
      <3>6. s[2] \in Int
        BY <1>11, Zenon
      <3>7. s[2] \in 1 .. k \/ s[2] \in k + 1 .. MaxSize
        BY <2>2, <3>5, <3>6, Zenon
      <3> QED  BY <3>3, <3>4, <3>7, Zenon
    <2>3. CASE s[1] = v /\ s[2] \in a + 1 .. a + MaxSize
      <3>1. s[2] # 0 /\ s[2] - a \in Spots /\ s[2] - a > 0 /\ s[2] \notin 1 .. k
        BY <1>10, <1>11, <2>3, Zenon
      <3>2. f2[move[s]] = Null
        BY <1>18, <1>19, <2>3, <3>1, Zenon
      <3> QED  BY <1>7, <1>8, <2>1, <2>3, <3>1, <3>2, Zenon
    <2>4. CASE ~(s[1] = v /\ s[2] \in 1 .. MaxSize) /\ ~(s[1] = v /\ s[2] \in a + 1 .. a + MaxSize)
      <3>1. move[s] = s /\ (s[1] = v => s[2] \notin 1 .. k /\ s[2] \notin 1 .. n)
        BY <1>10, <1>11, <1>19, <2>4, Zenon
      <3>2. f1[s] = f[s]
        <4>1. \A i \in Int : i \in a + 1 .. a + k => i \in a + 1 .. a + MaxSize
          BY <1>10, Zenon
        <4>2. s[2] \in Int
          BY <1>11, Zenon
        <4> QED  BY <1>13, <2>4, <4>1, <4>2, Zenon
      <3>3. f2[move[s]] = f[s]
        BY <1>18, <3>1, <3>2, Zenon
      <3>4. s[1] = v /\ s[2] # 0 => f[s] = Null
        BY <2>1, <3>1, Zenon DEF n, b
      <3>5. s[1] # v => g[s] = f[s]
        BY <1>1, <1>8, <2>1, Zenon
      <3>6. s[1] = v => g[s] = f[s]
        BY <1>1, <1>7, <1>8, <2>1, <3>1, <3>4, Zenon
      <3> QED  BY <3>3, <3>5, <3>6, Zenon
    <2> QED  BY <2>2, <2>3, <2>4, Zenon
  <1>22. Moved(Placed(vec', held'), f2, move)
    BY <1>20, <1>21, Zenon DEF Moved
  <1> HIDE DEF uses
  <1> QED  BY <1>1, <1>8, <1>15, <1>16, <1>20, <1>22, MovedStep, Zenon

LEMMA CollectAnyKeeps ==
  ASSUME VectorInv, NEW v \in Vectors, CollectAny(v)
  PROVE  VectorInv'
  <1>1. PICK room \in Nat, values \in Seq(Values) :
          /\ Len(values) <= MaxSize
          /\ \A i \in DOMAIN values :
               \E w \in Vectors, j \in 1 .. MaxSize :
                 j <= vec[w].size /\ vec[w].slots[j] = values[i]
          /\ CollectInto(v, room, values)
    BY Zenon DEF CollectAny, Values
  <1>2. DOMAIN values = 1 .. Len(values)
    OBVIOUS
  <1> QED  BY <1>1, <1>2, CollectIntoKeeps, Zenon

LEMMA VectorStepKeeps ==
  ASSUME VectorInv, [VectorCalls \/ \E v \in Vectors : CollectAny(v)]_vectorVars
  PROVE  VectorInv'
  <1>1. CASE UNCHANGED vectorVars
    BY <1>1 DEF vectorVars, VectorInv, Placed
  <1>2. ASSUME NEW v \in Vectors, CollectAny(v) PROVE VectorInv'
    BY <1>2, CollectAnyKeeps
  <1>3. ASSUME NEW p \in Pointers,
               \/ Make(p) \/ ClearPointer(p)
               \/ \E q \in Pointers : AssignPointer(p, q)
               \/ \E v \in Vectors : PushCopy(v, p) \/ PushMoved(v, p)
               \/ \E v \in Vectors, i \in 1 .. MaxSize : Get(p, v, i) \/ Set(v, i, p)
        PROVE  VectorInv'
    BY <1>3, MakeKeeps, ClearPointerKeeps, AssignPointerKeeps, PushCopyKeeps, PushMovedKeeps,
       GetKeeps, SetKeeps, Zenon
  <1>4. ASSUME NEW v \in Vectors,
               \/ Pop(v) \/ Clear(v)
               \/ \E i \in 1 .. MaxSize : RemoveFrom(v, i) \/ Raise(v, i)
               \/ \E n \in 0 .. MaxSize : Resize(v, n)
        PROVE  VectorInv'
    BY <1>4, PopKeeps, ClearKeeps, RemoveKeeps, RaiseKeeps, ResizeKeeps, Zenon
  <1>5. ASSUME NEW v \in Vectors, NEW w \in Vectors,
               CopyAssign(v, w) \/ MoveAssign(v, w) \/ Concat(v, w)
        PROVE  VectorInv'
    BY <1>5, CopyAssignKeeps, MoveAssignKeeps, ConcatKeeps, Zenon
  <1> QED  BY <1>1, <1>2, <1>3, <1>4, <1>5, Zenon DEF VectorCalls

(* Where a pointer to o is: in a slot, or outside of the vectors.          *)
LEMMA InvGivesCounts == VectorInv => CountsExact
  <1> SUFFICES ASSUME VectorInv PROVE CountsExact
    OBVIOUS
  <1> DEFINE f == Placed(vec, held)
             slots == {<<v, i>> : v \in Vectors, i \in 1 .. 4 * MaxSize}
             at(o) == {s \in slots : s[2] <= Capacity(vec[s[1]]) /\ vec[s[1]].slots[s[2]] = o}
             of(o) == {p \in Pointers : held[p] = o}
             out(o) == {s \in Spaces : s[2] = 0 /\ f[s] = o}
             in(o) == {s \in Spaces : s[2] # 0 /\ f[s] = o}
  <1>1. vec \in [Vectors -> Buffers] /\ held \in [Pointers -> Values] /\ Exact(heap, f)
    BY DEF VectorInv
  <1>2. \A v \in Vectors : Known(f, v, vec[v])
    BY VectorKnown
  <1>3. \A s \in Spaces :
          f[s] = IF s[2] = 0 THEN IF s[1] \in Pointers THEN held[s[1]] ELSE Null
                 ELSE IF s[1] \in Vectors /\ s[2] \in 1 .. vec[s[1]].size
                      THEN vec[s[1]].slots[s[2]] ELSE Null
    BY Zenon DEF Placed
  <1>4. \A p \in Pointers : <<p, 0>> \in Spaces /\ f[<<p, 0>>] = held[p]
    BY <1>1, PlacedFacts
  <1> HIDE DEF f
  <1>5. ASSUME NEW o \in Objects
        PROVE  /\ IsFiniteSet(at(o)) /\ IsFiniteSet(of(o))
               /\ Cardinality(at(o)) + Cardinality(of(o)) = Cardinality(HeldAt(f, o))
    <2>1. at(o) = in(o)
      <3>1. ASSUME NEW v \in Vectors, NEW i \in 1 .. 4 * MaxSize,
                   i <= Len(vec[v].slots), vec[v].slots[i] = o
            PROVE  <<v, i>> \in Spaces /\ f[<<v, i>>] = o /\ i # 0
        <4>1. i \in Nat /\ i # 0
          BY PointerAssumption
        <4>2. /\ vec[v] \in Buffers /\ vec[v].size \in Nat
              /\ \A j \in 1 .. vec[v].size : <<v, j>> \in Spaces /\ f[<<v, j>>] = vec[v].slots[j]
          BY <1>2, Zenon DEF Known
        <4>3. i \in 1 .. Len(vec[v].slots)
          BY <3>1, <4>1, <4>2, BufferFacts
        <4>4. Slot(i, vec[v].size, o)
          BY <3>1, <4>2, <4>3, BufferFacts
        <4>5. i <= vec[v].size
          BY <4>4, PointerAssumption DEF Slot
        <4>6. i \in 1 .. vec[v].size
          BY <4>1, <4>2, <4>5
        <4> QED  BY <3>1, <4>1, <4>2, <4>6, Zenon
      <3>2. ASSUME NEW s \in Spaces, s[2] # 0, f[s] = o
            PROVE  /\ s = <<s[1], s[2]>> /\ s[1] \in Vectors /\ s[2] \in 1 .. 4 * MaxSize
                   /\ s[2] <= Len(vec[s[1]].slots) /\ vec[s[1]].slots[s[2]] = o
        <4>1. o # Null
          BY PointerAssumption
        <4>2. s[1] \in Vectors /\ s[2] \in 1 .. vec[s[1]].size /\ vec[s[1]].slots[s[2]] = o
          BY <1>3, <3>2, <4>1, Zenon
        <4>3. vec[s[1]] \in Buffers
          BY <1>1, <4>2
        <4>4. /\ vec[s[1]].size \in Nat /\ vec[s[1]].size <= MaxSize
              /\ Len(vec[s[1]].slots) \in Nat /\ vec[s[1]].size <= Len(vec[s[1]].slots)
          BY <4>3, BufferFacts
        <4>5. s[2] \in 1 .. 4 * MaxSize /\ s[2] <= Len(vec[s[1]].slots)
          BY <4>2, <4>4, PointerAssumption
        <4> QED  BY <4>2, <4>5, SpaceFacts
      <3>3. ASSUME NEW s \in at(o) PROVE s \in in(o)
        BY <3>1 DEF Capacity
      <3>4. ASSUME NEW s \in in(o) PROVE s \in at(o)
        <4>1. s \in slots
          BY <3>2
        <4> QED  BY <3>2, <4>1 DEF Capacity
      <3> QED  BY <3>3, <3>4
    <2>2. HeldAt(f, o) = in(o) \cup out(o) /\ in(o) \cap out(o) = {}
      BY DEF HeldAt
    <2>3. IsFiniteSet(HeldAt(f, o))
      BY FiniteSpaces
    <2>4. IsFiniteSet(in(o)) /\ IsFiniteSet(out(o))
      <3>1. in(o) \in SUBSET HeldAt(f, o) /\ out(o) \in SUBSET HeldAt(f, o)
        BY <2>2
      <3> QED  BY <2>3, <3>1, FS_Subset
    <2>5. Cardinality(HeldAt(f, o)) = Cardinality(in(o)) + Cardinality(out(o))
      <3>1. Cardinality(in(o)) \in Nat /\ Cardinality(out(o)) \in Nat
        BY <2>4, FS_CardinalityType
      <3>2. Cardinality({}) = 0
        BY FS_EmptySet
      <3> DEFINE S == in(o)
                 T == out(o)
      <3>3. IsFiniteSet(S) /\ IsFiniteSet(T) /\ S \cap T = {} /\ HeldAt(f, o) = S \cup T
        BY <2>2, <2>4
      <3> HIDE DEF S, T
      <3>4. Cardinality(S \cup T) = Cardinality(S) + Cardinality(T) - Cardinality(S \cap T)
        BY <3>3, FS_Union, Zenon
      <3>5. Cardinality(S \cup T) = Cardinality(S) + Cardinality(T) - 0
        BY <3>2, <3>3, <3>4, Zenon
      <3>6. Cardinality(S) \in Nat /\ Cardinality(T) \in Nat
        BY <3>1 DEF S, T
      <3>7. Cardinality(HeldAt(f, o)) = Cardinality(S) + Cardinality(T)
        BY <3>3, <3>5, <3>6
      <3> QED  BY <3>7 DEF S, T
    <2>6. IsFiniteSet(of(o))
      BY PointerAssumption, FS_Subset
    <2>7. Cardinality(out(o)) = Cardinality(of(o))
      <3> DEFINE S == of(o)
                 T == out(o)
                 m == [p \in S |-> <<p, 0>>]
      <3>1. \A p \in S : <<p, 0>> \in T
        BY <1>4
      <3>2. \A s \in T : s[1] \in S /\ s = <<s[1], 0>>
        <4> SUFFICES ASSUME NEW s \in T PROVE s[1] \in S /\ s = <<s[1], 0>>
          OBVIOUS
        <4>1. s \in Spaces /\ s[2] = 0 /\ f[s] = o /\ o # Null
          BY PointerAssumption
        <4>2. s[1] \in Pointers /\ held[s[1]] = o
          BY <1>3, <4>1, Zenon
        <4>3. s = <<s[1], s[2]>>
          BY <4>1, SpaceFacts
        <4> QED  BY <4>1, <4>2, <4>3
      <3> HIDE DEF S, T
      <3>3. m \in [S -> T]
        BY <3>1
      <3>4. \A p, q \in S : m[p] = m[q] => p = q
        OBVIOUS
      <3>5. \A s \in T : \E p \in S : m[p] = s
        BY <3>2
      <3>6. m \in Bijection(S, T)
        BY <3>3, <3>4, <3>5 DEF Bijection, Injection, Surjection, IsInjective
      <3>7. ExistsBijection(S, T)
        <4> HIDE DEF m
        <4> QED  BY <3>6, Zenon DEF ExistsBijection
      <3>8. Cardinality(T) = Cardinality(S)
        BY <2>6, <3>7, FS_Bijection DEF S
      <3> QED  BY <3>8 DEF S, T
    <2> HIDE DEF at, in, out, of
    <2> QED  BY <2>1, <2>4, <2>5, <2>6, <2>7, Zenon
  <1> DEFINE uses(o) == Cardinality(at(o)) + Cardinality(of(o))
  <1>6. ASSUME NEW o \in Objects
        PROVE  /\ o \in heap.live <=> uses(o) > 0
               /\ o \in heap.live => heap.counter[o] = uses(o)
    <2> HIDE DEF at, of
    <2>1. uses(o) = Cardinality(HeldAt(f, o))
      BY <1>5
    <2> HIDE DEF uses
    <2>2. Cardinality(HeldAt(f, o)) \in Nat /\ (Cardinality(HeldAt(f, o)) = 0 <=> HeldAt(f, o) = {})
      BY FiniteSpaces
    <2>3. /\ o \in heap.live <=> HeldAt(f, o) # {}
          /\ o \in heap.live => heap.counter[o] = Cardinality(HeldAt(f, o))
      BY <1>1 DEF Exact
    <2>4. Cardinality(HeldAt(f, o)) > 0 <=> HeldAt(f, o) # {}
      BY <2>2
    <2> QED  BY <2>1, <2>3, <2>4, Zenon
  <1>7. ~heap.misused
    BY <1>1 DEF Exact
  <1> HIDE DEF uses
  <1>8. \A o \in Objects : /\ o \in heap.live <=> uses(o) > 0
                           /\ o \in heap.live => heap.counter[o] = uses(o)
    BY <1>6, Zenon
  <1> QED  BY <1>7, <1>8 DEF CountsExact, uses, at, of

(* The counter of every control block is the number of shared pointers to  *)
(* it, in vectors and outside, it is deleted with the last of them, and    *)
(* what is deleted, or raw memory, is never used (decrease_ref,            *)
(* pointer.hpp, under all calls of Vector): for any vectors, pointers and  *)
(* objects.                                                                *)
THEOREM CountsAreExact == VectorSpec => []CountsExact
  <1>1. NoPointers => VectorInv
    BY NoPointersInv
  <1>2. VectorInv /\ [VectorCalls \/ \E v \in Vectors : CollectAny(v)]_vectorVars => VectorInv'
    BY VectorStepKeeps
  <1>3. VectorInv => CountsExact
    BY InvGivesCounts
  <1> QED  BY <1>1, <1>2, <1>3, PTL DEF VectorSpec

-----------------------------------------------------------------------------
(* The vectors as lists.                                                   *)
ListsOf(vc) == [v \in Vectors |-> Elements(vc[v])]

LEMMA ElementsAre ==
  ASSUME NEW b \in Buffers, NEW l \in Seq(Values), Len(l) = b.size,
         \A i \in 1 .. b.size : l[i] = b.slots[i]
  PROVE  Elements(b) = l
  <1>1. /\ Elements(b) \in Seq(Values) /\ Len(Elements(b)) = b.size
        /\ \A i \in 1 .. b.size : Elements(b)[i] = b.slots[i]
    BY ElementsFacts
  <1>2. \A i \in 1 .. Len(l) : l[i] = Elements(b)[i]
    BY <1>1, Zenon
  <1> HIDE DEF Elements
  <1>3. l = Elements(b)
    BY <1>1, <1>2, SeqEqual
  <1> QED  BY <1>3

LEMMA PushedList ==
  ASSUME NEW b \in Buffers, b.size < MaxSize, NEW x \in Values
  PROVE  Elements(Pushed(b, x)) = Append(Elements(b), x)
  <1> DEFINE c == Pushed(b, x)
             n == b.size
             l == Append(Elements(b), x)
  <1>1. /\ c \in Buffers /\ c.size = n + 1 /\ c.slots[n + 1] = x
        /\ \A i \in 1 .. n : c.slots[i] = b.slots[i]
    BY PushedFacts DEF Extends
  <1>2. /\ Elements(b) \in Seq(Values) /\ Len(Elements(b)) = n /\ n \in Nat
        /\ \A i \in 1 .. n : Elements(b)[i] = b.slots[i]
    BY ElementsFacts, BufferFacts
  <1>3. /\ l \in Seq(Values) /\ Len(l) = n + 1 /\ l[n + 1] = x
        /\ \A i \in 1 .. n : l[i] = Elements(b)[i]
    BY <1>2, AppendProperties
  <1> HIDE DEF c, l, n
  <1>4. \A i \in 1 .. n + 1 : l[i] = c.slots[i]
    <2> SUFFICES ASSUME NEW i \in 1 .. n + 1 PROVE l[i] = c.slots[i]
      OBVIOUS
    <2>1. i \in 1 .. n \/ i = n + 1
      BY <1>2
    <2> QED  BY <1>1, <1>2, <1>3, <2>1, Zenon
  <1> QED  BY <1>1, <1>3, <1>4, ElementsAre, Zenon DEF c, l

LEMMA TruncatedList ==
  ASSUME NEW b \in Buffers, NEW n \in Nat, n <= b.size
  PROVE  Elements(Truncated(b, n)) = SubSeq(Elements(b), 1, n)
  <1> DEFINE c == Truncated(b, n)
             e == Elements(b)
             l == SubSeq(e, 1, n)
  <1>1. c \in Buffers /\ c.size = n /\ \A i \in 1 .. n : c.slots[i] = b.slots[i]
    BY TruncatedFacts DEF Extends
  <1>2. /\ e \in Seq(Values) /\ Len(e) = b.size /\ b.size \in Nat
        /\ \A i \in 1 .. b.size : e[i] = b.slots[i] /\ b.slots[i] \in Values
    BY ElementsFacts, BufferFacts
  <1> HIDE DEF c, e
  <1>3. \A i \in 1 .. n : i \in 1 .. b.size
    BY <1>2
  <1>4. \A i \in 1 .. n : e[i] = b.slots[i] /\ e[i] \in Values
    BY <1>2, <1>3, Zenon
  <1>5. /\ l \in Seq(Values) /\ Len(l) = IF 1 <= n THEN n - 1 + 1 ELSE 0
        /\ \A i \in 1 .. n - 1 + 1 : l[i] = e[1 + i - 1]
    BY <1>4, SubSeqProperties
  <1> HIDE DEF l
  <1>6. Len(l) = n /\ \A i \in 1 .. n : l[i] = e[i]
    BY <1>5
  <1> QED  BY <1>1, <1>4, <1>5, <1>6, ElementsAre, Zenon DEF c, l, e

LEMMA RemovedList ==
  ASSUME NEW b \in Buffers, NEW a \in Nat \ {0}, a <= b.size
  PROVE  Elements(Removed(b, a)) =
           SubSeq(Elements(b), 1, a - 1) \o SubSeq(Elements(b), a + 1, Len(Elements(b)))
  <1> DEFINE c == Removed(b, a)
             n == b.size
             e == Elements(b)
             l1 == SubSeq(e, 1, a - 1)
             l2 == SubSeq(e, a + 1, Len(e))
             l == l1 \o l2
  <1>1. /\ c \in Buffers /\ c.size = n - 1
        /\ \A i \in 1 .. a - 1 : c.slots[i] = b.slots[i]
        /\ \A i \in a .. n - 1 : c.slots[i] = b.slots[i + 1]
    BY RemovedFacts DEF Extends
  <1>2. /\ e \in Seq(Values) /\ Len(e) = n /\ n \in Nat
        /\ \A i \in 1 .. n : e[i] = b.slots[i] /\ b.slots[i] \in Values
    BY ElementsFacts, BufferFacts
  <1>3. a <= n
    OBVIOUS
  <1> HIDE DEF c, e, n
  <1>4. l1 \in Seq(Values) /\ Len(l1) = a - 1 /\ \A i \in 1 .. a - 1 : l1[i] = e[i]
    <2>1. ASSUME NEW i \in 1 .. a - 1 PROVE e[i] \in Values
      <3>1. i \in 1 .. n
        BY <1>2, <1>3
      <3> QED  BY <1>2, <3>1, Zenon
    <2>2. a - 1 \in Int /\ 1 \in Int
      OBVIOUS
    <2>3. /\ l1 \in Seq(Values) /\ Len(l1) = IF 1 <= a - 1 THEN (a - 1) - 1 + 1 ELSE 0
          /\ \A i \in 1 .. (a - 1) - 1 + 1 : l1[i] = e[1 + i - 1]
      BY <2>1, <2>2, SubSeqProperties
    <2> HIDE DEF l1
    <2> QED  BY <2>3
  <1>5. l2 \in Seq(Values) /\ Len(l2) = n - a /\ \A i \in 1 .. n - a : l2[i] = e[a + i]
    <2>1. ASSUME NEW i \in a + 1 .. n PROVE e[i] \in Values
      <3>1. i \in 1 .. n
        BY <1>2, <1>3
      <3> QED  BY <1>2, <3>1, Zenon
    <2>2. a + 1 \in Int /\ n \in Int
      BY <1>2
    <2>3. /\ l2 \in Seq(Values) /\ Len(l2) = IF a + 1 <= n THEN n - (a + 1) + 1 ELSE 0
          /\ \A i \in 1 .. n - (a + 1) + 1 : l2[i] = e[(a + 1) + i - 1]
      BY <1>2, <2>1, <2>2, SubSeqProperties
    <2> HIDE DEF l2
    <2>4. n - (a + 1) + 1 = n - a /\ (IF a + 1 <= n THEN n - (a + 1) + 1 ELSE 0) = n - a
      BY <1>2, <1>3
    <2>5. \A i \in 1 .. n - a : (a + 1) + i - 1 = a + i
      BY <1>2
    <2> QED  BY <2>3, <2>4, <2>5, Zenon
  <1> HIDE DEF l1, l2
  <1>6. /\ l \in Seq(Values) /\ Len(l) = n - 1
        /\ \A i \in 1 .. n - 1 : l[i] = IF i <= a - 1 THEN e[i] ELSE e[a + (i - (a - 1))]
    <2>1. /\ l \in Seq(Values) /\ Len(l) = Len(l1) + Len(l2)
          /\ \A i \in 1 .. Len(l1) + Len(l2) :
               l[i] = IF i <= Len(l1) THEN l1[i] ELSE l2[i - Len(l1)]
      BY <1>4, <1>5, ConcatProperties
    <2>2. Len(l1) + Len(l2) = n - 1
      BY <1>2, <1>3, <1>4, <1>5
    <2> HIDE DEF l
    <2>3. ASSUME NEW i \in 1 .. n - 1
          PROVE  l[i] = IF i <= a - 1 THEN e[i] ELSE e[a + (i - (a - 1))]
      <3>1. l[i] = IF i <= a - 1 THEN l1[i] ELSE l2[i - (a - 1)]
        BY <1>4, <2>1, <2>2, Zenon
      <3>2. IF i <= a - 1 THEN i \in 1 .. a - 1 ELSE i - (a - 1) \in 1 .. n - a
        BY <1>2, <1>3
      <3> QED  BY <1>4, <1>5, <3>1, <3>2, Zenon
    <2> QED  BY <2>1, <2>2, <2>3, Zenon
  <1> HIDE DEF l
  <1>7. \A i \in 1 .. n - 1 : l[i] = c.slots[i]
    <2> SUFFICES ASSUME NEW i \in 1 .. n - 1 PROVE l[i] = c.slots[i]
      OBVIOUS
    <2>1. i \in 1 .. n /\ i + 1 \in 1 .. n /\ a + (i - (a - 1)) = i + 1
      BY <1>2
    <2>2. CASE i <= a - 1
      <3>1. i \in 1 .. a - 1
        BY <2>2
      <3> QED  BY <1>1, <1>2, <1>6, <2>1, <2>2, <3>1, Zenon
    <2>3. CASE ~(i <= a - 1)
      <3>1. i \in a .. n - 1
        BY <1>2, <2>3
      <3> QED  BY <1>1, <1>2, <1>6, <2>1, <2>3, <3>1, Zenon
    <2> QED  BY <2>2, <2>3
  <1>8. Elements(c) = l
    BY <1>1, <1>6, <1>7, ElementsAre, Zenon
  <1> QED  BY <1>8, Zenon DEF c, e, l, l1, l2

(* Whatever vector or pointer a call changes, the objects that are left    *)
(* alive are those that are held.                                          *)
LEMMA LiveAreHeld ==
  ASSUME VectorInv
  PROVE  heap.live = ObjLists!Holders(ListsOf(vec), held)
  <1> DEFINE f == Placed(vec, held)
  <1>1. vec \in [Vectors -> Buffers] /\ held \in [Pointers -> Values] /\ Exact(heap, f)
    BY DEF VectorInv
  <1>2. heap.live \subseteq Objects /\ \A o \in Objects : o \in heap.live <=> HeldAt(f, o) # {}
    BY <1>1 DEF Exact, Heaps
  <1>3. \A v \in Vectors : Known(f, v, vec[v])
    BY VectorKnown
  <1>4. \A p \in Pointers : <<p, 0>> \in Spaces /\ f[<<p, 0>>] = held[p] /\ held[p] \in Values
    BY <1>1, PlacedFacts
  <1>5. \A s \in Spaces :
          f[s] = IF s[2] = 0 THEN IF s[1] \in Pointers THEN held[s[1]] ELSE Null
                 ELSE IF s[1] \in Vectors /\ s[2] \in 1 .. vec[s[1]].size
                      THEN vec[s[1]].slots[s[2]] ELSE Null
    BY Zenon DEF Placed
  <1> HIDE DEF f
  <1>6. ASSUME NEW v \in Vectors
        PROVE  /\ DOMAIN Elements(vec[v]) = 1 .. vec[v].size
               /\ \A i \in 1 .. vec[v].size :
                    /\ Elements(vec[v])[i] = vec[v].slots[i] /\ vec[v].slots[i] \in Values
                    /\ <<v, i>> \in Spaces /\ f[<<v, i>>] = vec[v].slots[i]
    <2>1. /\ vec[v] \in Buffers
          /\ \A i \in 1 .. vec[v].size :
               <<v, i>> \in Spaces /\ f[<<v, i>>] = vec[v].slots[i] /\ vec[v].slots[i] \in Values
      BY <1>3, Zenon DEF Known
    <2>2. /\ Elements(vec[v]) \in Seq(Values) /\ Len(Elements(vec[v])) = vec[v].size
          /\ \A i \in 1 .. vec[v].size : Elements(vec[v])[i] = vec[v].slots[i]
      BY <2>1, ElementsFacts
    <2>3. DOMAIN Elements(vec[v]) = 1 .. vec[v].size
      BY <2>2
    <2> QED  BY <2>1, <2>2, <2>3, Zenon
  <1>7. \A o : o \in ObjLists!Holders(ListsOf(vec), held) <=>
               /\ o # Null
               /\ \/ \E v \in Vectors : \E i \in 1 .. vec[v].size : vec[v].slots[i] = o
                  \/ \E p \in Pointers : held[p] = o
    <2>1. ASSUME NEW v \in Vectors, NEW o
          PROVE  o \in ObjLists!ToSet(ListsOf(vec)[v]) <=>
                   \E i \in 1 .. vec[v].size : vec[v].slots[i] = o
      <3> DEFINE l == Elements(vec[v])
                 n == vec[v].size
      <3>1. DOMAIN l = 1 .. n /\ \A i \in 1 .. n : l[i] = vec[v].slots[i]
        BY <1>6
      <3>2. ListsOf(vec)[v] = l
        BY DEF ListsOf
      <3> HIDE DEF l, n
      <3>3. o \in ObjLists!ToSet(l) <=> \E i \in 1 .. n : l[i] = o
        BY <3>1 DEF ObjLists!ToSet
      <3>4. o \in ObjLists!ToSet(l) <=> \E i \in 1 .. n : vec[v].slots[i] = o
        BY <3>1, <3>3
      <3> QED  BY <3>2, <3>4 DEF n
    <2> SUFFICES ASSUME NEW o
                 PROVE  o \in ObjLists!Holders(ListsOf(vec), held) <=>
                          /\ o # Null
                          /\ \/ \E v \in Vectors : \E i \in 1 .. vec[v].size : vec[v].slots[i] = o
                             \/ \E p \in Pointers : held[p] = o
      OBVIOUS
    <2> DEFINE L == ListsOf(vec)
    <2>2. \A v \in Vectors : o \in ObjLists!ToSet(L[v]) <=>
            \E i \in 1 .. vec[v].size : vec[v].slots[i] = o
      BY <2>1
    <2> HIDE DEF L
    <2>3. o \in ObjLists!Holders(L, held) <=>
            /\ o # Null
            /\ (\E v \in Vectors : o \in ObjLists!ToSet(L[v])) \/ (\E p \in Pointers : held[p] = o)
      <3> DEFINE A == {ObjLists!ToSet(L[v]) : v \in Vectors}
                 B == {held[p] : p \in Pointers}
      <3>1. ObjLists!Holders(L, held) = ((UNION A) \cup B) \ {Null}
        BY DEF ObjLists!Holders
      <3>2. o \in (UNION A) <=> \E v \in Vectors : o \in ObjLists!ToSet(L[v])
        OBVIOUS
      <3>3. o \in B <=> \E p \in Pointers : held[p] = o
        OBVIOUS
      <3> HIDE DEF A, B
      <3> QED  BY <3>1, <3>2, <3>3
    <2> QED  BY <2>2, <2>3, Zenon DEF L
  <1>8. ASSUME NEW o \in heap.live PROVE o \in ObjLists!Holders(ListsOf(vec), held)
    <2>1. o \in Objects /\ o # Null
      BY <1>2, PointerAssumption
    <2>2. PICK s \in Spaces : f[s] = o
      BY <1>2, <2>1 DEF HeldAt
    <2> QED  BY <1>5, <1>7, <2>1, <2>2, Zenon
  <1>9. ASSUME NEW o \in ObjLists!Holders(ListsOf(vec), held) PROVE o \in heap.live
    <2>0. o # Null
      BY <1>7
    <2>1. \E s \in Spaces : f[s] = o /\ o # Null /\ o \in Values
      <3>1. CASE \E v \in Vectors : \E i \in 1 .. vec[v].size : vec[v].slots[i] = o
        <4>1. PICK v \in Vectors : \E i \in 1 .. vec[v].size : vec[v].slots[i] = o
          BY <3>1
        <4>2. PICK i \in 1 .. vec[v].size : vec[v].slots[i] = o
          BY <4>1
        <4>3. <<v, i>> \in Spaces /\ f[<<v, i>>] = o /\ o \in Values
          BY <1>6, <4>2, Zenon
        <4> QED  BY <2>0, <4>3, Zenon
      <3>2. CASE \E p \in Pointers : held[p] = o
        <4>1. PICK p \in Pointers : held[p] = o
          BY <3>2
        <4> QED  BY <1>4, <2>0, <4>1, Zenon
      <3> QED  BY <1>7, <3>1, <3>2, Zenon
    <2>2. o \in Objects /\ HeldAt(f, o) # {}
      BY <2>1 DEF Values, HeldAt
    <2> QED  BY <1>2, <2>2, Zenon
  <1> QED  BY <1>8, <1>9


LEMMA ListFacts ==
  ASSUME VectorInv, NEW v \in Vectors
  PROVE  /\ vec \in [Vectors -> Buffers] /\ held \in [Pointers -> Values]
         /\ vec[v] \in Buffers /\ vec[v].size \in Nat /\ vec[v].size <= MaxSize
         /\ ListsOf(vec)[v] = Elements(vec[v]) /\ Elements(vec[v]) \in Seq(Values)
         /\ Len(Elements(vec[v])) = vec[v].size /\ DOMAIN Elements(vec[v]) = 1 .. vec[v].size
         /\ \A i \in 1 .. vec[v].size :
              Elements(vec[v])[i] = vec[v].slots[i] /\ vec[v].slots[i] \in Values
  <1>1. vec \in [Vectors -> Buffers] /\ held \in [Pointers -> Values]
    BY DEF VectorInv
  <1>2. vec[v] \in Buffers
    BY <1>1
  <1>3. /\ vec[v].size \in Nat /\ vec[v].size <= MaxSize
        /\ \A i \in 1 .. vec[v].size : vec[v].slots[i] \in Values
    BY <1>2, BufferFacts
  <1>4. /\ Elements(vec[v]) \in Seq(Values) /\ Len(Elements(vec[v])) = vec[v].size
        /\ \A i \in 1 .. vec[v].size : Elements(vec[v])[i] = vec[v].slots[i]
    BY <1>2, ElementsFacts
  <1>5. DOMAIN Elements(vec[v]) = 1 .. vec[v].size
    BY <1>4
  <1>6. ListsOf(vec)[v] = Elements(vec[v])
    BY DEF ListsOf
  <1> QED  BY <1>1, <1>2, <1>3, <1>4, <1>5, <1>6

LEMMA ChangeStep ==
  ASSUME vec \in [Vectors -> Buffers], NEW v \in Vectors, NEW b, NEW l, Elements(b) = l,
         vec' = [vec EXCEPT ![v] = b], held' = held
  PROVE  ObjLists!Change(v, l)
  <1>1. /\ vec'[v] = b
        /\ \A w \in Vectors : w # v => vec'[w] = vec[w]
    OBVIOUS
  <1>2. [w \in Vectors |-> Elements(vec'[w])]
          = [[w \in Vectors |-> Elements(vec[w])] EXCEPT ![v] = l]
    BY <1>1
  <1> QED  BY <1>2 DEF ObjLists!Change

LEMMA HoldStep ==
  ASSUME NEW p \in Pointers, NEW x, vec' = vec, held' = [held EXCEPT ![p] = x]
  PROVE  ObjLists!Hold(p, x)
  BY DEF ObjLists!Hold

(* The calls on pointers.                                                  *)
LEMMA PointerCallIsList ==
  ASSUME VectorInv, NEW p \in Pointers,
         \/ Make(p) \/ ClearPointer(p)
         \/ \E q \in Pointers : AssignPointer(p, q)
         \/ \E v \in Vectors, i \in 1 .. MaxSize : Get(p, v, i)
  PROVE  ObjLists!OfPointer(p)
  <1>1. CASE Make(p)
    <2>1. PICK o \in Objects \ heap.live : held' = [held EXCEPT ![p] = o]
      BY <1>1 DEF Make
    <2>2. vec' = vec /\ call' = <<"make", p>>
      BY <1>1 DEF Make, Calls
    <2>3. ObjLists!Hold(p, o)
      BY <2>1, <2>2, HoldStep
    <2> QED  BY <2>2, <2>3, Zenon DEF ObjLists!OfPointer
  <1>2. CASE ClearPointer(p)
    <2>1. held' = [held EXCEPT ![p] = Null] /\ vec' = vec /\ call' = <<"clear_pointer", p>>
      BY <1>2 DEF ClearPointer, Calls
    <2>2. ObjLists!Hold(p, Null)
      BY <2>1, HoldStep
    <2> QED  BY <2>1, <2>2, Zenon DEF ObjLists!OfPointer
  <1>3. ASSUME NEW q \in Pointers, AssignPointer(p, q) PROVE ObjLists!OfPointer(p)
    <2>1. held' = [held EXCEPT ![p] = held[q]] /\ vec' = vec /\ call' = <<"assign_pointer", p, q>>
      BY <1>3 DEF AssignPointer, Calls
    <2>2. ObjLists!Hold(p, held[q])
      BY <2>1, HoldStep
    <2> QED  BY <2>1, <2>2, Zenon DEF ObjLists!OfPointer
  <1>4. ASSUME NEW v \in Vectors, NEW i \in 1 .. MaxSize, Get(p, v, i) PROVE ObjLists!OfPointer(p)
    <2> DEFINE x == vec[v].slots[i]
    <2>1. /\ held' = [held EXCEPT ![p] = x] /\ vec' = vec /\ call' = <<"get", p, v, i>>
          /\ i <= vec[v].size
      BY <1>4 DEF Get, Calls
    <2>2. ObjLists!Hold(p, x)
      BY <2>1, HoldStep
    <2>3. i \in 1 .. vec[v].size
      BY <2>1, ListFacts, SpaceFacts
    <2>4. i \in DOMAIN ListsOf(vec)[v] /\ ListsOf(vec)[v][i] = x
      BY <2>3, ListFacts
    <2> HIDE DEF x
    <2> QED  BY <2>1, <2>2, <2>4, Zenon DEF ObjLists!OfPointer, ListsOf
  <1> QED  BY <1>1, <1>2, <1>3, <1>4

LEMMA SetBuffer ==
  ASSUME NEW b \in Buffers, NEW i \in 1 .. b.size, NEW x \in Values
  PROVE  LET c == [b EXCEPT !.slots[i] = x]
         IN  c \in Buffers /\ c.size = b.size /\ c.slots = [b.slots EXCEPT ![i] = x]
  <1> DEFINE s == [b.slots EXCEPT ![i] = x]
             c == [slots |-> s, size |-> b.size]
  <1>2. /\ b = [slots |-> b.slots, size |-> b.size] /\ b.size \in Nat /\ b.size <= MaxSize
        /\ Len(b.slots) \in Nat /\ b.size <= Len(b.slots) /\ DOMAIN b.slots = 1 .. Len(b.slots)
        /\ \A j \in 1 .. Len(b.slots) : Slot(j, b.size, b.slots[j])
    BY BufferFacts
  <1>3. i \in 1 .. Len(b.slots) /\ i <= b.size
    BY <1>2
  <1>4. /\ s = [j \in 1 .. Len(b.slots) |-> s[j]]
        /\ \A j \in 1 .. Len(b.slots) : s[j] = IF j = i THEN x ELSE b.slots[j]
    BY <1>2, <1>3
  <1>5. [b EXCEPT !.slots[i] = x] = c
    <2>1. [b EXCEPT !.slots = s] = c
      <3> HIDE DEF s
      <3> QED  BY <1>2
    <2> QED  BY <2>1
  <1> HIDE DEF s
  <1>6. \A j \in 1 .. Len(b.slots) : Slot(j, b.size, s[j])
    BY <1>2, <1>3, <1>4 DEF Slot
  <1>7. c \in Buffers
    BY <1>2, <1>4, <1>6, BufferMade
  <1> QED  BY <1>5, <1>7 DEF s

(* resize keeps the elements there is room for, and adds null pointers.    *)
LEMMA ResizedList ==
  ASSUME NEW v \in Vectors, vec[v] \in Buffers, NEW n \in 0 .. MaxSize, Resize(v, n)
  PROVE  LET l == Elements(vec[v])
         IN  \E c : /\ vec' = [vec EXCEPT ![v] = c]
                    /\ Elements(c) = [i \in 1 .. n |-> IF i <= Len(l) THEN l[i] ELSE Null]
  <1> DEFINE b == vec[v]
             m == b.size
             l == Elements(b)
             r == [i \in 1 .. n |-> IF i <= Len(l) THEN l[i] ELSE Null]
             roomy == IF n > Capacity(b) THEN Reserved(b, n) ELSE b
             short == Truncated(b, n)
             long == [slots |-> [i \in DOMAIN roomy.slots |->
                                   IF i \in m + 1 .. n THEN Null ELSE roomy.slots[i]],
                      size |-> n]
  <1>1. /\ n < m => vec' = [vec EXCEPT ![v] = short]
        /\ ~(n < m) => vec' = [vec EXCEPT ![v] = long]
    BY DEF Resize, Update
  <1>2. b \in Buffers
    OBVIOUS
  <1> HIDE DEF b
  <1>3. /\ l \in Seq(Values) /\ Len(l) = m /\ m \in Nat /\ m <= MaxSize
        /\ \A i \in 1 .. m : l[i] = b.slots[i] /\ l[i] \in Values
    BY <1>2, ElementsFacts, BufferFacts
  <1>4. n \in Nat /\ n <= MaxSize
    BY SpaceFacts
  <1> HIDE DEF l
  <1>5. /\ r \in Seq(Values) /\ Len(r) = n
        /\ \A i \in 1 .. n : r[i] = IF i <= m THEN l[i] ELSE Null
    <2>1. \A i \in 1 .. n : (IF i <= Len(l) THEN l[i] ELSE Null) \in Values
      BY <1>3, <1>4, SpaceFacts
    <2> QED  BY <1>3, <1>4, <2>1
  <1> HIDE DEF r
  <1>6. CASE n < m
    <2>1. short \in Buffers /\ short.size = n /\ \A i \in 1 .. n : short.slots[i] = b.slots[i]
      BY <1>2, <1>3, <1>4, <1>6, TruncatedFacts DEF Extends
    <2> HIDE DEF short
    <2>2. \A i \in 1 .. n : i \in 1 .. m /\ i <= m
      BY <1>3, <1>4, <1>6
    <2> HIDE DEF m
    <2>3. \A i \in 1 .. n : r[i] = short.slots[i]
      BY <1>3, <1>5, <2>1, <2>2, Zenon
    <2>4. Elements(short) = r
      BY <1>5, <2>1, <2>3, ElementsAre
    <2> QED  BY <1>1, <1>6, <2>4, Zenon DEF r, l, b
  <1>7. CASE ~(n < m)
    <2> DEFINE s0 == [i \in DOMAIN roomy.slots |->
                        IF i \in m + 1 .. n THEN Null ELSE roomy.slots[i]]
               k == Len(roomy.slots)
    <2>1. Extends(roomy, m, b, m) /\ n <= k
      <3>1. Len(b.slots) \in Nat
        BY <1>2, BufferFacts
      <3>2. CASE n > Len(b.slots)
        <4>1. roomy = Reserved(b, n)
          BY <3>2 DEF Capacity
        <4> HIDE DEF roomy
        <4>2. Extends(roomy, m, b, m) /\ Len(roomy.slots) = IF n < Len(b.slots) THEN Len(b.slots) ELSE n
          BY <1>2, <1>3, <1>4, <4>1, ReservedFacts
        <4> QED  BY <1>4, <3>1, <3>2, <4>2
      <3>3. CASE ~(n > Len(b.slots))
        <4>1. roomy = b
          BY <3>3 DEF Capacity
        <4> HIDE DEF roomy
        <4> QED  BY <1>2, <1>3, <1>4, <3>1, <3>3, <4>1 DEF Extends
      <3> QED  BY <3>2, <3>3
    <2> HIDE DEF roomy, m
    <2>2. /\ roomy \in Buffers /\ roomy.size = m /\ \A i \in 1 .. m : roomy.slots[i] = b.slots[i]
      BY <2>1 DEF Extends
    <2>3. k \in Nat /\ DOMAIN roomy.slots = 1 .. k /\ \A i \in 1 .. k : Slot(i, m, roomy.slots[i])
      BY <2>2, BufferFacts
    <2> HIDE DEF k
    <2>4. /\ s0 = [i \in 1 .. k |-> s0[i]]
          /\ \A i \in 1 .. k : s0[i] = IF i \in m + 1 .. n THEN Null ELSE roomy.slots[i]
      BY <2>3
    <2>5. long = [slots |-> s0, size |-> n]
      OBVIOUS
    <2> HIDE DEF s0, long
    <2>6. \A i \in 1 .. k : Slot(i, n, s0[i])
      <3> SUFFICES ASSUME NEW i \in 1 .. k PROVE Slot(i, n, s0[i])
        OBVIOUS
      <3>1. Slot(i, m, roomy.slots[i]) /\ s0[i] = IF i \in m + 1 .. n THEN Null ELSE roomy.slots[i]
        BY <2>3, <2>4
      <3>2. (i \in m + 1 .. n <=> ~(i <= m) /\ i <= n) /\ (i <= m => i <= n)
        BY <1>3, <1>4, <1>7, <2>3
      <3> QED  BY <3>1, <3>2, SpaceFacts, Zenon DEF Slot
    <2>7. long \in Buffers /\ long.slots = s0 /\ long.size = n
      BY <1>4, <2>1, <2>3, <2>4, <2>5, <2>6, BufferMade DEF k
    <2>8. \A i \in 1 .. n : r[i] = long.slots[i]
      <3> SUFFICES ASSUME NEW i \in 1 .. n PROVE r[i] = s0[i]
        BY <2>7
      <3>0. k \in Nat /\ n <= k
        BY <2>1, <2>3 DEF k
      <3>1. i \in 1 .. k /\ (i \in m + 1 .. n <=> ~(i <= m)) /\ (i <= m => i \in 1 .. m)
        BY <1>3, <1>4, <3>0
      <3>2. r[i] = IF i <= m THEN l[i] ELSE Null
        BY <1>5
      <3>3. i <= m => l[i] = b.slots[i] /\ roomy.slots[i] = b.slots[i]
        BY <1>3, <2>2, <3>1, Zenon
      <3> QED  BY <2>4, <3>1, <3>2, <3>3, Zenon
    <2>9. Elements(long) = r
      BY <1>5, <2>7, <2>8, ElementsAre
    <2> QED  BY <1>1, <1>7, <2>9, Zenon DEF r, l, b
  <1> QED  BY <1>6, <1>7

(* The calls on one vector.                                                *)
LEMMA VectorCallIsList ==
  ASSUME VectorInv, NEW v \in Vectors,
         \/ \E p \in Pointers : PushCopy(v, p) \/ PushMoved(v, p)
         \/ \E p \in Pointers, i \in 1 .. MaxSize : Set(v, i, p)
         \/ Pop(v) \/ Clear(v)
         \/ \E i \in 1 .. MaxSize : RemoveFrom(v, i) \/ Raise(v, i)
         \/ \E n \in 0 .. MaxSize : Resize(v, n)
  PROVE  ObjLists!OfList(v)
  <1> DEFINE b == vec[v]
             n == b.size
             l == Elements(b)
  <1>1. /\ vec \in [Vectors -> Buffers] /\ held \in [Pointers -> Values]
        /\ b \in Buffers /\ n \in Nat /\ n <= MaxSize /\ l \in Seq(Values)
        /\ Len(l) = n /\ DOMAIN l = 1 .. n
        /\ \A i \in 1 .. n : l[i] = b.slots[i] /\ b.slots[i] \in Values
    BY ListFacts
  <1>2. [w \in Vectors |-> Elements(vec[w])][v] = l
    OBVIOUS
  <1> HIDE DEF l
  <1>3. ASSUME NEW p \in Pointers, PushCopy(v, p) PROVE ObjLists!OfList(v)
    <2>1. /\ n < MaxSize /\ vec' = [vec EXCEPT ![v] = Pushed(b, held[p])] /\ held' = held
          /\ call' = <<"push", v, p>>
      BY <1>3 DEF PushCopy, Calls, Update
    <2>2. held[p] \in Values
      BY <1>1
    <2>3. Elements(Pushed(b, held[p])) = Append(l, held[p])
      BY <1>1, <2>1, <2>2, PushedList DEF l
    <2>4. ObjLists!Change(v, Append(l, held[p]))
      BY <1>1, <2>1, <2>3, ChangeStep
    <2> QED  BY <1>2, <2>1, <2>4, Zenon DEF ObjLists!OfList
  <1>4. ASSUME NEW p \in Pointers, PushMoved(v, p) PROVE ObjLists!OfList(v)
    <2> DEFINE c == Pushed(b, held[p])
    <2>1. /\ n < MaxSize /\ vec' = [vec EXCEPT ![v] = c]
          /\ held' = [held EXCEPT ![p] = Null] /\ call' = <<"push_moved", v, p>>
      BY <1>4 DEF PushMoved, Calls, Update
    <2>2. held[p] \in Values
      BY <1>1
    <2>3. Elements(c) = Append(l, held[p])
      BY <1>1, <2>1, <2>2, PushedList DEF l
    <2> HIDE DEF c
    <2>4. vec'[v] = c /\ \A w \in Vectors : w # v => vec'[w] = vec[w]
      BY <1>1, <2>1
    <2>5. [w \in Vectors |-> Elements(vec'[w])]
            = [[w \in Vectors |-> Elements(vec[w])] EXCEPT ![v] = Append(l, held[p])]
      BY <2>3, <2>4
    <2> QED  BY <1>2, <2>1, <2>5, Zenon DEF ObjLists!OfList
  <1>5. CASE Pop(v)
    <2>1. held' = held /\ call' = <<"pop", v>>
      BY <1>5 DEF Pop, Calls
    <2>2. CASE n = 0
      <3>1. vec' = vec
        BY <1>5, <2>2 DEF Pop
      <3>2. l = <<>>
        BY <1>1, <2>2
      <3>3. vec' = [vec EXCEPT ![v] = b]
        BY <1>1, <3>1
      <3>4. ObjLists!Change(v, l)
        BY <1>1, <2>1, <3>3, ChangeStep DEF l
      <3> QED  BY <1>2, <2>1, <3>2, <3>4, Zenon DEF ObjLists!OfList
    <2>3. CASE n # 0
      <3>1. vec' = [vec EXCEPT ![v] = Truncated(b, n - 1)]
        BY <1>5, <2>3 DEF Pop, Update
      <3>2. n - 1 \in Nat /\ n - 1 <= n /\ l # <<>>
        BY <1>1, <2>3
      <3>3. Elements(Truncated(b, n - 1)) = SubSeq(l, 1, n - 1)
        BY <1>1, <3>2, TruncatedList DEF l
      <3>4. ObjLists!Front(l) = SubSeq(l, 1, n - 1)
        BY <1>1 DEF ObjLists!Front
      <3>5. ObjLists!Change(v, ObjLists!Front(l))
        BY <1>1, <2>1, <3>1, <3>3, <3>4, ChangeStep
      <3> QED  BY <1>2, <2>1, <3>2, <3>5, Zenon DEF ObjLists!OfList
    <2> QED  BY <2>2, <2>3
  <1>6. CASE Clear(v)
    <2>1. /\ held' = held /\ call' = <<"clear", v>> /\ vec' = [vec EXCEPT ![v] = Truncated(b, 0)]
      BY <1>6 DEF Clear, Calls, Update
    <2>2. Elements(Truncated(b, 0)) = SubSeq(l, 1, 0)
      BY <1>1, TruncatedList DEF l
    <2>3. SubSeq(l, 1, 0) = <<>>
      BY SubSeqEmpty
    <2>4. ObjLists!Change(v, <<>>)
      BY <1>1, <2>1, <2>2, <2>3, ChangeStep
    <2> QED  BY <1>2, <2>1, <2>4, Zenon DEF ObjLists!OfList
  <1>7. ASSUME NEW i \in 1 .. MaxSize, RemoveFrom(v, i) PROVE ObjLists!OfList(v)
    <2>1. /\ held' = held /\ call' = <<"remove", v, i>> /\ vec' = [vec EXCEPT ![v] = Removed(b, i)]
          /\ i <= n
      BY <1>7 DEF RemoveFrom, Calls, Update
    <2>2. i \in Nat \ {0} /\ i \in DOMAIN l
      BY <1>1, <2>1, SpaceFacts
    <2>3. Elements(Removed(b, i)) = ObjLists!RemoveAt(l, i)
      BY <1>1, <2>1, <2>2, RemovedList DEF ObjLists!RemoveAt, l
    <2>4. ObjLists!Change(v, ObjLists!RemoveAt(l, i))
      BY <1>1, <2>1, <2>3, ChangeStep
    <2> QED  BY <1>2, <2>1, <2>2, <2>4, Zenon DEF ObjLists!OfList
  <1>8. ASSUME NEW i \in 1 .. MaxSize, Raise(v, i) PROVE ObjLists!OfList(v)
    <2> DEFINE r == Removed(b, i)
               x == b.slots[i]
    <2>1. /\ held' = held /\ call' = <<"raise", v, i>> /\ vec' = [vec EXCEPT ![v] = Pushed(r, x)]
          /\ i <= n
      BY <1>8 DEF Raise, Calls, Update
    <2>2. i \in Nat \ {0} /\ i \in DOMAIN l
      BY <1>1, <2>1, SpaceFacts
    <2>3. Elements(r) = ObjLists!RemoveAt(l, i)
      BY <1>1, <2>1, <2>2, RemovedList DEF ObjLists!RemoveAt, l
    <2>4. r \in Buffers /\ r.size = n - 1
      BY <1>1, <2>1, <2>2, RemovedFacts DEF Extends
    <2>5. x = l[i] /\ x \in Values
      BY <1>1, <2>2
    <2> HIDE DEF r, x, n
    <2>6. r.size < MaxSize
      BY <1>1, <2>4, SpaceFacts
    <2>7. Elements(Pushed(r, x)) = Append(ObjLists!RemoveAt(l, i), l[i])
      BY <2>3, <2>4, <2>5, <2>6, PushedList
    <2>8. ObjLists!Change(v, Append(ObjLists!RemoveAt(l, i), l[i]))
      BY <1>1, <2>1, <2>7, ChangeStep
    <2> QED  BY <1>2, <2>1, <2>2, <2>8, Zenon DEF ObjLists!OfList
  <1>9. ASSUME NEW p \in Pointers, NEW i \in 1 .. MaxSize, Set(v, i, p) PROVE ObjLists!OfList(v)
    <2> DEFINE c == [b EXCEPT !.slots[i] = held[p]]
               k == [l EXCEPT ![i] = held[p]]
    <2>1. /\ held' = held /\ call' = <<"set", v, i, p>> /\ vec' = [vec EXCEPT ![v].slots[i] = held[p]]
          /\ i <= n
      BY <1>9 DEF Set, Calls
    <2>2. vec' = [vec EXCEPT ![v] = c]
      BY <2>1
    <2>3. i \in 1 .. n /\ i \in DOMAIN l
      BY <1>1, <2>1, SpaceFacts
    <2>4. held[p] \in Values
      BY <1>1
    <2>5. c \in Buffers /\ c.size = n /\ c.slots = [b.slots EXCEPT ![i] = held[p]]
      BY <1>1, <2>3, <2>4, SetBuffer
    <2>6. i \in DOMAIN b.slots /\ \A j \in 1 .. n : j \in DOMAIN b.slots
      <3>1. Len(b.slots) \in Nat /\ n <= Len(b.slots) /\ DOMAIN b.slots = 1 .. Len(b.slots)
        BY <1>1, BufferFacts
      <3> QED  BY <1>1, <2>3, <3>1
    <2> HIDE DEF c, n
    <2>7. k \in Seq(Values) /\ Len(k) = n /\ \A j \in 1 .. n : k[j] = c.slots[j]
      BY <1>1, <2>3, <2>4, <2>5, <2>6
    <2> HIDE DEF k
    <2>8. Elements(c) = k
      BY <2>5, <2>7, ElementsAre
    <2>9. ObjLists!Change(v, k)
      BY <1>1, <2>1, <2>2, <2>8, ChangeStep
    <2> QED  BY <1>2, <2>1, <2>3, <2>9, Zenon DEF ObjLists!OfList, k
  <1>10. ASSUME NEW m \in 0 .. MaxSize, Resize(v, m) PROVE ObjLists!OfList(v)
    <2> DEFINE k == [i \in 1 .. m |-> IF i <= Len(l) THEN l[i] ELSE Null]
    <2>1. held' = held /\ call' = <<"resize", v, m>>
      BY <1>10 DEF Resize, Calls
    <2>2. PICK c : vec' = [vec EXCEPT ![v] = c] /\ Elements(c) = k
      BY <1>1, <1>10, ResizedList DEF l
    <2>3. ObjLists!Change(v, k)
      BY <1>1, <2>1, <2>2, ChangeStep
    <2>4. call'[1] = "resize" /\ call'[2] = v /\ call'[3] = m
      BY <2>1
    <2> QED  BY <1>2, <2>3, <2>4, Zenon DEF ObjLists!OfList
  <1> QED  BY <1>3, <1>4, <1>5, <1>6, <1>7, <1>8, <1>9, <1>10, Zenon

(* The calls on two vectors.                                               *)
LEMMA TwoVectorsCallIsList ==
  ASSUME VectorInv, NEW v \in Vectors, NEW w \in Vectors,
         CopyAssign(v, w) \/ MoveAssign(v, w) \/ Concat(v, w)
  PROVE  ObjLists!OfTwo(v, w)
  <1> DEFINE b == vec[v]
             l == Elements(vec[v])
             o == vec[w]
             e == Elements(vec[w])
  <1>1. /\ vec \in [Vectors -> Buffers] /\ b \in Buffers /\ o \in Buffers
        /\ b.size \in Nat /\ o.size \in Nat
        /\ l \in Seq(Values) /\ Len(l) = b.size /\ \A i \in 1 .. b.size : l[i] = b.slots[i]
        /\ e \in Seq(Values) /\ Len(e) = o.size /\ \A i \in 1 .. o.size : e[i] = o.slots[i]
    BY ListFacts
  <1>2. /\ [u \in Vectors |-> Elements(vec[u])][v] = l
        /\ [u \in Vectors |-> Elements(vec[u])][w] = e
    OBVIOUS
  <1> HIDE DEF l, e
  <1>3. CASE CopyAssign(v, w)
    <2>1. vec' = [vec EXCEPT ![v] = CopyOf(o)] /\ held' = held /\ call' = <<"copy", v, w>>
      BY <1>3 DEF CopyAssign, Update, Calls
    <2>2. /\ CopyOf(o) \in Buffers /\ CopyOf(o).size = o.size
          /\ \A i \in 1 .. o.size : CopyOf(o).slots[i] = o.slots[i]
      BY <1>1, CopyOfFacts DEF Extends
    <2>3. Elements(CopyOf(o)) = e
      <3>1. \A i \in 1 .. o.size : e[i] = CopyOf(o).slots[i]
        BY <1>1, <2>2, Zenon
      <3> QED  BY <1>1, <2>2, <3>1, ElementsAre
    <2>4. ObjLists!Change(v, e)
      BY <1>1, <2>1, <2>3, ChangeStep
    <2> QED  BY <1>2, <2>1, <2>4, Zenon DEF ObjLists!OfTwo
  <1>4. CASE MoveAssign(v, w)
    <2>1. /\ vec' = [vec EXCEPT ![v] = vec[w], ![w] = Empty] /\ held' = held
          /\ call' = <<"move", v, w>> /\ v # w
      BY <1>4 DEF MoveAssign, Calls
    <2>2. /\ vec'[v] = o /\ vec'[w] = Empty
          /\ \A u \in Vectors : u # v /\ u # w => vec'[u] = vec[u]
      BY <1>1, <2>1
    <2>3. Elements(Empty) = <<>> /\ Elements(o) = e
      BY EmptyFacts DEF e
    <2> HIDE DEF o
    <2>4. [u \in Vectors |-> Elements(vec'[u])]
            = [[u \in Vectors |-> Elements(vec[u])] EXCEPT ![v] = e, ![w] = <<>>]
      <3> DEFINE A == [u \in Vectors |-> Elements(vec[u])]
                 N == [u \in Vectors |-> Elements(vec'[u])]
                 R == [A EXCEPT ![v] = e, ![w] = <<>>]
      <3>1. \A u \in Vectors : N[u] = IF u = w THEN <<>> ELSE IF u = v THEN e ELSE A[u]
        <4> SUFFICES ASSUME NEW u \in Vectors
                     PROVE  Elements(vec'[u]) =
                              IF u = w THEN <<>> ELSE IF u = v THEN e ELSE Elements(vec[u])
          OBVIOUS
        <4>1. CASE u = w
          BY <2>2, <2>3, <4>1, Zenon
        <4>2. CASE u # w /\ u = v
          BY <2>2, <2>3, <4>2, Zenon
        <4>3. CASE u # w /\ u # v
          BY <2>2, <4>3, Zenon
        <4> QED  BY <4>1, <4>2, <4>3, Zenon
      <3>2. DOMAIN N = Vectors /\ N = [u \in Vectors |-> N[u]]
        OBVIOUS
      <3>3. A = [u \in Vectors |-> A[u]]
        OBVIOUS
      <3> HIDE DEF A, N
      <3>4. \A u \in Vectors : R[u] = IF u = w THEN <<>> ELSE IF u = v THEN e ELSE A[u]
        BY <3>3
      <3>5. R = [u \in Vectors |-> R[u]]
        BY <3>3
      <3> HIDE DEF R
      <3>6. \A u \in Vectors : N[u] = R[u]
        BY <3>1, <3>4
      <3>7. N = R
        BY <3>2, <3>5, <3>6
      <3> QED  BY <3>7 DEF A, N, R
    <2> QED  BY <1>2, <2>1, <2>4, Zenon DEF ObjLists!OfTwo
  <1>5. CASE Concat(v, w)
    <2> DEFINE c == PushedAll(b, e)
               k == l \o e
    <2>1. /\ vec' = [vec EXCEPT ![v] = c] /\ held' = held /\ call' = <<"concat", v, w>>
          /\ b.size + o.size <= MaxSize
      BY <1>5 DEF Concat, Update, Calls, e
    <2>2. /\ c \in Buffers /\ c.size = b.size + o.size
          /\ \A i \in 1 .. b.size : c.slots[i] = b.slots[i]
          /\ \A i \in 1 .. o.size : c.slots[b.size + i] = e[i]
      <3>1. b.size + Len(e) <= MaxSize
        BY <1>1, <2>1
      <3>2. Appended(c, b, e, Len(e))
        BY <1>1, <3>1, PushedAllFacts
      <3> HIDE DEF c
      <3> QED  BY <1>1, <3>2 DEF Appended, Extends
    <2> HIDE DEF c, b, o
    <2>3. /\ k \in Seq(Values) /\ Len(k) = b.size + o.size
          /\ \A i \in 1 .. b.size + o.size : k[i] = IF i <= b.size THEN l[i] ELSE e[i - b.size]
      <3>1. /\ k \in Seq(Values) /\ Len(k) = Len(l) + Len(e)
            /\ \A i \in 1 .. Len(l) + Len(e) : k[i] = IF i <= Len(l) THEN l[i] ELSE e[i - Len(l)]
        BY <1>1, ConcatProperties
      <3> HIDE DEF k
      <3>2. Len(l) = b.size /\ Len(e) = o.size
        BY <1>1
      <3> QED  BY <3>1, <3>2, Zenon
    <2> HIDE DEF k
    <2>4. \A i \in 1 .. c.size : k[i] = c.slots[i]
      <3> SUFFICES ASSUME NEW i \in 1 .. b.size + o.size PROVE k[i] = c.slots[i]
        BY <2>2, Zenon
      <3>1. CASE i <= b.size
        <4>1. i \in 1 .. b.size
          BY <1>1, <3>1
        <4>2. k[i] = l[i]
          BY <2>3, <3>1
        <4>3. l[i] = b.slots[i]
          BY <1>1, <4>1
        <4>4. c.slots[i] = b.slots[i]
          BY <2>2, <4>1
        <4> QED  BY <4>2, <4>3, <4>4
      <3>2. CASE ~(i <= b.size)
        <4>1. i - b.size \in 1 .. o.size /\ b.size + (i - b.size) = i
          BY <1>1, <3>2
        <4> QED  BY <1>1, <2>2, <2>3, <3>2, <4>1, Zenon
      <3> QED  BY <3>1, <3>2
    <2>5. Elements(c) = k
      BY <2>2, <2>3, <2>4, ElementsAre, Zenon
    <2>6. ObjLists!Change(v, k)
      BY <1>1, <2>1, <2>5, ChangeStep
    <2> QED  BY <1>2, <2>1, <2>6, Zenon DEF ObjLists!OfTwo, k
  <1> QED  BY <1>3, <1>4, <1>5

(* Every call is one on lists, and leaves alive what is held after it.     *)
LEMMA CallIsListCall ==
  ASSUME VectorInv, VectorInv', VectorCalls
  PROVE  ObjLists!Next
  <1>1. heap'.live = ObjLists!Holders([v \in Vectors |-> Elements(vec'[v])], held')
    <2>1. (heap.live = ObjLists!Holders(ListsOf(vec), held))'
      BY LiveAreHeld, PTL
    <2> QED  BY <2>1 DEF ListsOf
  <1>2. ASSUME NEW p \in Pointers, NEW v \in Vectors, PushCopy(v, p) \/ PushMoved(v, p)
        PROVE  ObjLists!OfList(v)
    BY <1>2, VectorCallIsList
  <1>3. ASSUME NEW p \in Pointers, NEW v \in Vectors, NEW i \in 1 .. MaxSize, Set(v, i, p)
        PROVE  ObjLists!OfList(v)
    BY <1>3, VectorCallIsList
  <1>4. ASSUME NEW p \in Pointers,
               \/ Make(p) \/ ClearPointer(p)
               \/ \E q \in Pointers : AssignPointer(p, q)
               \/ \E v \in Vectors : PushCopy(v, p) \/ PushMoved(v, p)
               \/ \E v \in Vectors, i \in 1 .. MaxSize : Get(p, v, i) \/ Set(v, i, p)
        PROVE  ObjLists!OfPointer(p) \/ \E v \in Vectors : ObjLists!OfList(v)
    BY <1>2, <1>3, <1>4, PointerCallIsList, Zenon
  <1>5. ASSUME NEW v \in Vectors,
               \/ Pop(v) \/ Clear(v)
               \/ \E i \in 1 .. MaxSize : RemoveFrom(v, i) \/ Raise(v, i)
               \/ \E n \in 0 .. MaxSize : Resize(v, n)
        PROVE  ObjLists!OfList(v)
    BY <1>5, VectorCallIsList, Zenon
  <1>6. ASSUME NEW v \in Vectors, NEW w \in Vectors,
               CopyAssign(v, w) \/ MoveAssign(v, w) \/ Concat(v, w)
        PROVE  ObjLists!OfTwo(v, w)
    BY <1>6, TwoVectorsCallIsList
  <1> QED  BY <1>1, <1>4, <1>5, <1>6, Zenon DEF VectorCalls, ObjLists!Next

(* What an iterator gives is what the vector it is collected into lists,   *)
(* in its order, and the other vectors keep theirs (collect_vec,           *)
(* iterator.hpp): for every iterator over elements of vectors, and         *)
(* whatever length it announces.                                           *)
THEOREM CollectedAreTheValues ==
  ASSUME VectorInv, NEW v \in Vectors, NEW room \in Nat, NEW values \in Seq(Values),
         Len(values) <= MaxSize, CollectInto(v, room, values)
  PROVE  ObjLists!Change(v, values)
  <1> DEFINE r == Reserved(Empty, room)
             c == PushedAll(r, values)
             k == Len(values)
  <1>1. vec' = [vec EXCEPT ![v] = c] /\ held' = held /\ vec \in [Vectors -> Buffers]
    BY DEF CollectInto, Update, VectorInv
  <1>2. r \in Buffers /\ r.size = 0
    BY EmptyFacts, ReservedFacts DEF Extends
  <1>3. k \in Nat /\ 0 + k <= MaxSize /\ 0 + k = k /\ \A i \in 1 .. k : 0 + i = i
    BY SpaceFacts
  <1>4. Appended(c, r, values, k)
    BY <1>2, <1>3, PushedAllFacts
  <1> HIDE DEF c, r
  <1>5. c \in Buffers /\ c.size = 0 + k /\ \A i \in 1 .. k : c.slots[0 + i] = values[i]
    BY <1>2, <1>4, Zenon DEF Appended, Extends
  <1>6. c \in Buffers /\ c.size = k /\ \A i \in 1 .. k : values[i] = c.slots[i]
    BY <1>3, <1>5
  <1>7. Elements(c) = values
    BY <1>6, ElementsAre
  <1> QED  BY <1>1, <1>7, ChangeStep

(* Every sequence of calls leaves in the vectors what it would leave in    *)
(* plain lists, whatever their capacities, and alive exactly the objects   *)
(* that a list or a pointer holds (vector.hpp, pointer.hpp): for any       *)
(* vectors, pointers, objects and sizes.                                   *)
THEOREM CallsAreListCalls == CallsSpec => ImplementsObjectLists
  <1>1. NoPointers => VectorInv
    BY NoPointersInv
  <1>2. VectorInv /\ [VectorCalls]_vectorVars => VectorInv'
    BY VectorStepKeeps
  <1>3. NoPointers => ObjLists!Init
    <2> SUFFICES ASSUME NoPointers PROVE ObjLists!Init
      OBVIOUS
    <2>1. \A v \in Vectors : Elements(vec[v]) = <<>>
      BY EmptyFacts DEF NoPointers
    <2> QED  BY <2>1 DEF NoPointers, ObjLists!Init
  <1>4. VectorInv /\ VectorInv' /\ [VectorCalls]_vectorVars => [ObjLists!Next]_ObjLists!vars
    <2>1. ASSUME UNCHANGED vectorVars PROVE UNCHANGED ObjLists!vars
      BY <2>1 DEF vectorVars, ObjLists!vars
    <2> QED  BY <2>1, CallIsListCall
  <1> QED  BY <1>1, <1>2, <1>3, <1>4, PTL DEF CallsSpec, ImplementsObjectLists, ObjLists!Spec

=============================================================================
