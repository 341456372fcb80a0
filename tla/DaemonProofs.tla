----------------------------- MODULE DaemonProofs -----------------------------
(***************************************************************************)
(* The process movactld: its supervisor, for any pids, exit codes and      *)
(* signals and whatever sigwait() does; and its outer loop, for any number *)
(* of devices, messages and reports, and any number of bytes read at once. *)
(***************************************************************************)
EXTENDS Bos, MainLoop, BackendDeviceProofs, WellFoundedInduction

-----------------------------------------------------------------------------
(* The supervisor: its invariant, and that a termination is final.         *)

\* The codes a parent may take over from a child are exit codes, and 0 tells of an
\* exit with 0 only.
LEMMA CodesAreCodes ==
    ASSUME NEW e \in Ending
    PROVE  /\ CodeOf(e) \in 0 .. 255
           /\ CodeOf(e) = 0 => e = [how |-> "exited", n |-> 0]
<1>1. CASE e \in [how : {"exited"}, n : Code]
  <2>1. e.how = "exited" /\ e.n \in Code /\ e = [how |-> e.how, n |-> e.n]
      BY <1>1
  <2>2. e.n \in 0 .. 127
      BY <2>1, BosAssumption
  <2>3. CodeOf(e) = e.n
      BY <2>1 DEF CodeOf
  <2> QED
      BY <2>1, <2>2, <2>3
<1>2. CASE e \in [how : {"signaled"}, n : Signum]
  <2>1. e.how = "signaled" /\ e.n \in Signum
      BY <1>2
  <2>2. e.n \in 1 .. 64
      BY <2>1, BosAssumption
  <2>3. CodeOf(e) = 128 + e.n
      BY <2>1 DEF CodeOf
  <2> QED
      BY <2>2, <2>3
<1> QED
    BY <1>1, <1>2 DEF Ending

\* Before the first child there is nothing to know.
LEMMA BosInitInv == BosInit => BosInv
<1> SUFFICES ASSUME BosInit
             PROVE  BosInv
    OBVIOUS
<1>1. [how |-> "exited", n |-> 0] \in Ending
    BY BosAssumption DEF Ending
<1>2. BosTypeOK
  <2>1. exiting \in BOOLEAN /\ asked \in BOOLEAN /\ stray \in BOOLEAN /\ missed \in BOOLEAN
      BY DEF BosInit
  <2>2. proc \in [Pid -> {"none", "running", "zombie"}] /\ ending \in [Pid -> Ending]
      BY <1>1 DEF BosInit
  <2>3. state \in 0 .. 12 /\ exit_code \in 0 .. 255
      BY DEF BosInit
  <2>4. sig \in Signal /\ child \in Pid \union {NoPid} /\ abandoned \in SUBSET Pid
      BY DEF BosInit, Signal
  <2> QED
      BY <2>1, <2>2, <2>3, <2>4 DEF BosInit, BosTypeOK
<1>3. NoneLeftBehind /\ HealthyChildSpared /\ ExitCodeIsLastChilds /\ EndsForAReason
    BY DEF BosInit, NoneLeftBehind, HealthyChildSpared, ExitCodeIsLastChilds, EndsForAReason
<1>4. ChildKnown /\ ReasonKnown
    BY DEF BosInit, ChildKnown, ReasonKnown
<1> QED
    BY <1>2, <1>3, <1>4 DEF BosInv

\* Every step of the parent and of the system keeps the invariant.
LEMMA BosNextInv ==
    ASSUME BosInv, [BosNext]_bosVars
    PROVE  BosInv'
<1> USE DEF BosInv, BosTypeOK, Gone, Signal, Fatal, Stop
<1>1. ASSUME NEW p \in Pid, Spawn(p)
      PROVE  BosInv'
    BY <1>1 DEF Spawn, NoneLeftBehind, HealthyChildSpared, ExitCodeIsLastChilds,
        EndsForAReason, ChildKnown, ReasonKnown
<1>2. CASE SpawnFails
    BY <1>2 DEF SpawnFails, NoneLeftBehind, HealthyChildSpared, ExitCodeIsLastChilds,
        EndsForAReason, ChildKnown, ReasonKnown
<1>3. CASE Sigwait
    BY <1>3 DEF Sigwait, NoneLeftBehind, HealthyChildSpared, ExitCodeIsLastChilds,
        EndsForAReason, ChildKnown, ReasonKnown
<1>4. CASE Took
  <2> USE <1>4 DEF Took
  <2>1. exiting' \in BOOLEAN
      OBVIOUS
  <2>2. bos' \in {"reap", "run"} /\ state' \in 0 .. 12
      OBVIOUS
  <2>3. BosTypeOK'
      BY <2>1, <2>2
  <2>4. NoneLeftBehind' /\ ExitCodeIsLastChilds' /\ EndsForAReason'
      BY DEF NoneLeftBehind, ExitCodeIsLastChilds, EndsForAReason
  <2>5. HealthyChildSpared'
      BY DEF HealthyChildSpared, ReasonKnown
  <2>6. ChildKnown'
      BY DEF ChildKnown
  <2>7. ReasonKnown'
      BY DEF ReasonKnown
  <2> QED
      BY <2>3, <2>4, <2>5, <2>6, <2>7
<1>5. CASE Poll
  <2> USE <1>5 DEF Poll
  <2>1. CASE Reaped
    <3>1. ending[child] \in Ending /\ CodeOf(ending[child]) \in 0 .. 255
        BY CodesAreCodes DEF ChildKnown
    <3>2. CodeOf(ending[child]) = 0 => ending[child] = [how |-> "exited", n |-> 0]
        BY CodesAreCodes DEF ChildKnown
    <3>3. BosTypeOK'
        BY <2>1, <3>1 DEF Reaped
    <3>4. NoneLeftBehind' /\ HealthyChildSpared'
        BY <2>1 DEF Reaped, NoneLeftBehind, HealthyChildSpared, ChildKnown
    <3>5. ExitCodeIsLastChilds' /\ EndsForAReason'
        BY <2>1, <3>2 DEF Reaped, ExitCodeIsLastChilds, EndsForAReason, ChildKnown, ReasonKnown
    <3>6. ChildKnown' /\ ReasonKnown'
        BY <2>1 DEF Reaped, ChildKnown, ReasonKnown
    <3> QED
        BY <3>3, <3>4, <3>5, <3>6
  <2>2. CASE GivenUp
      BY <2>2 DEF GivenUp, NoneLeftBehind, HealthyChildSpared, ExitCodeIsLastChilds,
          EndsForAReason, ChildKnown, ReasonKnown
  <2>3. CASE StillRunning
      BY <2>3 DEF StillRunning, NoneLeftBehind, HealthyChildSpared, ExitCodeIsLastChilds,
          EndsForAReason, ChildKnown, ReasonKnown
  <2> QED
      BY <2>1, <2>2, <2>3
<1>6. ASSUME NEW s \in Signal \ {"CHLD"}, Signalled(s)
      PROVE  BosInv'
  <2> USE <1>6 DEF Signalled, Deliver
  <2>1. BosTypeOK' /\ NoneLeftBehind' /\ HealthyChildSpared'
      BY ZenonT(40) DEF NoneLeftBehind, HealthyChildSpared
  <2>2. ExitCodeIsLastChilds' /\ EndsForAReason' /\ ChildKnown'
      BY DEF ExitCodeIsLastChilds, EndsForAReason, ChildKnown
  <2>3. ReasonKnown'
    <3>1. CASE bos = "sigwait" /\ bos' = "took"
        BY <3>1 DEF ReasonKnown
    <3>2. CASE bos' \in {bos, "killed"} /\ UNCHANGED <<sig, asked>>
        BY <3>2 DEF ReasonKnown
    <3> QED
        BY <3>1, <3>2
  <2> QED
      BY <2>1, <2>2, <2>3
<1>7. ASSUME NEW p \in Pid, NEW e \in Ending, ChildEnds(p, e)
      PROVE  BosInv'
  <2> USE <1>7 DEF ChildEnds, Deliver
  <2>1. BosTypeOK'
      OBVIOUS
  <2>2. NoneLeftBehind' /\ HealthyChildSpared'
      BY DEF NoneLeftBehind, HealthyChildSpared
  <2>3. ExitCodeIsLastChilds' /\ EndsForAReason'
    <3> SUFFICES ASSUME bos' = "exited"
                 PROVE  ExitCodeIsLastChilds' /\ EndsForAReason'
        BY DEF ExitCodeIsLastChilds, EndsForAReason
    <3>1. bos = "exited" /\ asked' = asked /\ child \in Pid
        BY DEF ChildKnown
    <3>2. CASE p = child
      <4>1. child \in abandoned
          BY <3>1, <3>2 DEF NoneLeftBehind
      <4> QED
          BY <3>1, <4>1 DEF ExitCodeIsLastChilds, EndsForAReason, ReasonKnown
    <3>3. CASE p # child
        BY <3>1, <3>3 DEF ExitCodeIsLastChilds, EndsForAReason
    <3> QED
        BY <3>2, <3>3
  <2>4. ChildKnown'
      BY DEF ChildKnown
  <2>5. ReasonKnown'
    <3>1. CASE bos = "sigwait" /\ bos' = "took"
      <4>1. stray' \/ proc'[child'] = "zombie"
          BY <3>1
      <4> QED
          BY <3>1, <4>1 DEF ReasonKnown
    <3>2. CASE bos' = bos /\ UNCHANGED <<sig, asked>>
      <4>1. stray => stray'
          OBVIOUS
      <4>2. proc[child] = "zombie" => proc'[child'] = "zombie"
          OBVIOUS
      <4> QED
          BY <3>2, <4>1, <4>2 DEF ReasonKnown
    <3> QED
        BY <3>1, <3>2
  <2> QED
      BY <2>1, <2>2, <2>3, <2>4, <2>5
<1>8. ASSUME NEW p \in Pid, ChildStops(p)
      PROVE  BosInv'
    BY <1>8 DEF ChildStops, Deliver, NoneLeftBehind, HealthyChildSpared, ExitCodeIsLastChilds,
        EndsForAReason, ChildKnown, ReasonKnown
<1>9. CASE UNCHANGED bosVars
    BY <1>9 DEF bosVars, NoneLeftBehind, HealthyChildSpared, ExitCodeIsLastChilds,
        EndsForAReason, ChildKnown, ReasonKnown
<1> QED
    BY <1>1, <1>2, <1>3, <1>4, <1>5, <1>6, <1>7, <1>8, <1>9 DEF BosNext

\* The supervisor's invariant: where the parent is tells what it knows of its children.
THEOREM BosInvHolds == BosSpec => []BosInv
<1> QED
    BY BosInitInv, BosNextInv, PTL DEF BosSpec

\* No child but one that was given up runs unattended.
THEOREM NoChildLeftBehind == BosSpec => []NoneLeftBehind
<1>1. BosInv => NoneLeftBehind
    BY DEF BosInv
<1> QED
    BY <1>1, BosInvHolds, PTL

\* A living child is killed only on demand or by a SIGCHLD that was not its own.
THEOREM ChildrenSpared == BosSpec => []HealthyChildSpared
<1>1. BosInv => HealthyChildSpared
    BY DEF BosInv
<1> QED
    BY <1>1, BosInvHolds, PTL

\* The parent's exit code tells how its last child ended.
THEOREM ExitCodeTrue == BosSpec => []ExitCodeIsLastChilds
<1>1. BosInv => ExitCodeIsLastChilds
    BY DEF BosInv
<1> QED
    BY <1>1, BosInvHolds, PTL

\* After a TERM or INT was taken no child is started.
THEOREM TerminationIsFinal == BosSpec => TerminationFinal
<1>1. BosInv /\ [BosNext]_bosVars =>
         [asked => \A p \in Pid : proc'[p] = "running" => proc[p] = "running"]_bosVars
  <2> SUFFICES ASSUME BosInv, BosNext, asked, NEW p \in Pid, proc'[p] = "running"
               PROVE  proc[p] = "running"
      OBVIOUS
  <2> USE DEF BosInv, BosTypeOK
  <2>1. ASSUME NEW q \in Pid, Spawn(q)
        PROVE  proc[p] = "running"
      BY <2>1 DEF Spawn, ReasonKnown
  <2>2. CASE SpawnFails \/ Sigwait \/ Took
      BY <2>2 DEF SpawnFails, Sigwait, Took
  <2>3. CASE Poll
      BY <2>3 DEF Poll, Reaped, GivenUp, StillRunning
  <2>4. ASSUME NEW s \in Signal \ {"CHLD"}, Signalled(s)
        PROVE  proc[p] = "running"
      BY <2>4 DEF Signalled
  <2>5. ASSUME NEW q \in Pid, NEW e \in Ending, ChildEnds(q, e)
        PROVE  proc[p] = "running"
      BY <2>5 DEF ChildEnds
  <2>6. ASSUME NEW q \in Pid, ChildStops(q)
        PROVE  proc[p] = "running"
      BY <2>6 DEF ChildStops
  <2> QED
      BY <2>1, <2>2, <2>3, <2>4, <2>5, <2>6 DEF BosNext
<1> QED
    BY <1>1, BosInvHolds, PTL DEF BosSpec, TerminationFinal

-----------------------------------------------------------------------------
(* The outer loop.  Own is a backend_device under it.                      *)

\* Whatever the loop runs is a step of the device in it.
LEMMA MainStepIsDeviceStep ==
    ASSUME Inv, [MainNext]_mainVars
    PROVE  [Next]_vars
<1>1. output \in OutputLists /\ WellFormed(output)
    BY DEF Inv, TypeOK, IteratorsValid
<1>2. ASSUME NEW n \in 0 .. Len(output.list), Packet(n)
      PROVE  [Next]_vars
  <2>1. CASE n = 0
    <3>1. output' = output
        BY <1>1, <1>2, <2>1, PopNIsRepeatedPop DEF Packet
    <3> QED
        BY <1>2, <3>1 DEF Packet, vars
  <2>2. CASE n # 0
    <3>1. n \in 1 .. Len(output.list)
        BY <1>1, <2>2 DEF OutputLists
    <3> QED
        BY <1>2, <3>1 DEF Next
  <2> QED
      BY <2>1, <2>2
<1>3. CASE ReopenDevices
    BY <1>3 DEF ReopenDevices, Next
<1>4. ASSUME NEW k \in 1 .. MaxBytes, NEW n \in 0 .. Len(output.list), ReadCb(k, n)
      PROVE  [Next]_vars
    BY <1>2, <1>4 DEF ReadCb
<1>5. CASE \E d \in Device : EndOfLine(d)
    BY <1>5 DEF EndOfLine
<1>6. CASE LoopExit
    BY <1>6 DEF LoopExit, Next
<1>7. CASE GoToSleep
    BY <1>7 DEF GoToSleep
<1>8. CASE EndNormally \/ Fail
    BY <1>8 DEF EndNormally, Fail, Ended, Next
<1>9. CASE QuitEvent \/ SigtermComes
    BY <1>9 DEF QuitEvent, SigtermComes
<1>10. ASSUME NEW m \in Msg, MainSend(m)
       PROVE  [Next]_vars
    BY <1>10 DEF MainSend, Next
<1>11. CASE MainWriteTimeout \/ MainTick
    BY <1>11 DEF MainWriteTimeout, MainTick, Next
<1>12. CASE \E d \in Device : HangUp(d)
    BY <1>12 DEF HangUp
<1>13. CASE Says
    BY <1>13 DEF Says
<1>14. CASE UNCHANGED mainVars
    BY <1>14 DEF mainVars
<1> QED
    BY <1>3, <1>4, <1>5, <1>6, <1>7, <1>8, <1>9, <1>10, <1>11, <1>12, <1>13, <1>14 DEF MainNext

\* So the device keeps its invariant there.
LEMMA MainDeviceInv == MainSpec => []Inv
<1>1. MainInit => Inv
    BY InitInv DEF MainInit
<1>2. Inv /\ [MainNext]_mainVars => Inv'
    BY MainStepIsDeviceStep, NextInv
<1> QED
    BY <1>1, <1>2, PTL DEF MainSpec

\* Whatever the other devices do to the loop, Own is a backend_device.
THEOREM MainIsBackendDevice == MainSpec => Spec
<1>1. MainInit => Init
    BY DEF MainInit
<1>2. Inv /\ [MainNext]_mainVars => [Next]_vars
    BY MainStepIsDeviceStep
<1> QED
    BY <1>1, <1>2, MainDeviceInv, PTL DEF MainSpec, Spec

\* Hence what a backend_device promises holds across sessions that end for the sake of
\* another device, and across signals that come in the sleep.
THEOREM MainKeepsThePromises ==
    MainSpec => []IteratorsValid /\ RestRespected /\ StepsOfOutputLine
BY MainIsBackendDevice, IteratorsNeverDangle, RestAlwaysRespected, DeviceIsOutputLine, PTL

-----------------------------------------------------------------------------
(* The outer loop: the bytes of Own.                                       *)

\* What is behind a place in what Own says, and what is there.
LEMMA Places ==
    /\ \A p \in Place : /\ After(p) \in Place /\ ByteAt(p) \in Byte /\ p[2] \in 1 .. 3
                        /\ p = <<p[1], p[2]>> /\ p[1] \in Report
                        /\ p[2] = 3 => After(p)[2] = 1 /\ ByteAt(p) = Sep
                        /\ p[2] # 3 => /\ After(p) = <<p[1], p[2] + 1>> /\ ByteAt(p) = p
                                       /\ p \notin {Nul, Sep}
                        /\ ByteAt(p) # Nul /\ (ByteAt(p) = Sep => p[2] = 3)
    /\ <<0, 1>> \in Place
    /\ Nul # Sep /\ Nul \in Byte /\ Sep \in Byte
<1> DEFINE N == Cardinality(Report)
<1>1. N \in Nat \ {0} /\ Report = 0 .. N - 1 /\ Nul # Sep /\ {Nul, Sep} \intersect Half = {}
    BY MainLoopAssumption DEF Half
<1> HIDE DEF N
<1>2. ASSUME NEW p \in Place
      PROVE  /\ After(p) \in Place /\ ByteAt(p) \in Byte /\ p[2] \in 1 .. 3
             /\ p = <<p[1], p[2]>> /\ p[1] \in Report
             /\ p[2] = 3 => After(p)[2] = 1 /\ ByteAt(p) = Sep
             /\ p[2] # 3 => /\ After(p) = <<p[1], p[2] + 1>> /\ ByteAt(p) = p
                            /\ p \notin {Nul, Sep}
             /\ ByteAt(p) # Nul /\ (ByteAt(p) = Sep => p[2] = 3)
  <2>1. p[1] \in Report /\ p[2] \in 1 .. 3 /\ p = <<p[1], p[2]>>
      BY DEF Place
  <2>2. CASE p[2] = 3
    <3>1. (p[1] + 1) % N \in Report
        BY <1>1, <2>1
    <3>2. After(p) = <<(p[1] + 1) % N, 1>> /\ ByteAt(p) = Sep
        BY <2>2 DEF After, ByteAt, N
    <3>3. After(p) \in Place
        BY <3>1, <3>2 DEF Place
    <3> QED
        BY <1>1, <2>1, <2>2, <3>2, <3>3 DEF Byte
  <2>3. CASE p[2] # 3
    <3>1. After(p) = <<p[1], p[2] + 1>> /\ ByteAt(p) = p
        BY <2>3 DEF After, ByteAt
    <3>2. p[2] \in {1, 2} /\ p[2] + 1 \in 1 .. 3
        BY <2>1, <2>3
    <3>3. p \in Half /\ After(p) \in Place
        BY <2>1, <3>1, <3>2 DEF Half, Place
    <3>4. p \notin {Nul, Sep} /\ p \in Byte
        BY <1>1, <3>3 DEF Byte
    <3> QED
        BY <2>1, <2>3, <3>1, <3>3, <3>4
  <2> QED
      BY <2>2, <2>3
<1>3. <<0, 1>> \in Place
    BY <1>1 DEF Place
<1> QED
    BY <1>1, <1>2, <1>3 DEF Byte

\* A set of numbers up to m has a greatest.
LEMMA GreatestElement ==
    ASSUME NEW m \in Nat, NEW S \in SUBSET (0 .. m), S # {}
    PROVE  \E x \in S : \A y \in S : y <= x
<1> DEFINE T == { m - x : x \in S }
<1>1. PICK t \in T : \A u \in T : ~(u < t)
  <2>1. T \in SUBSET Nat /\ T # {}
    <3>1. \A x \in S : m - x \in Nat
        OBVIOUS
    <3>2. T \subseteq Nat
        BY <3>1, Zenon
    <3> QED
        BY <3>2
  <2> HIDE DEF T
  <2>2. PICK t \in T : \A u \in T : <<u, t>> \notin OpToRel(<, Nat)
      BY <2>1, NatLessThanWellFounded, WFMin, Zenon
  <2>3. \A u \in T : ~(u < t)
      BY <2>1, <2>2, Zenon DEF OpToRel
  <2> QED
      BY <2>3
<1>2. PICK x \in S : t = m - x
    OBVIOUS
<1>3. ASSUME NEW y \in S
      PROVE  y <= x
  <2>1. m - y \in T /\ m - y \in Nat /\ m - x \in Nat
      BY <1>2
  <2>2. ~(m - y < m - x)
      BY <1>1, <1>2, <2>1
  <2> QED
      BY <2>1, <2>2
<1> QED
    BY <1>3

\* Before() is the last end before i, or 0.
LEMMA BeforeIs ==
    ASSUME NEW s \in Seq(Byte), NEW i \in 1 .. Len(s) + 1
    PROVE  /\ Before(s, i) \in 0 .. i - 1
           /\ Before(s, i) # 0 => Before(s, i) \in 1 .. Len(s) /\ Ends(s[Before(s, i)])
           /\ \A j \in 1 .. Len(s) : Before(s, i) < j /\ j < i => ~Ends(s[j])
<1> DEFINE S == { j \in EndsIn(s) : j < i }
<1>1. Len(s) \in Nat /\ S \in SUBSET (0 .. Len(s)) /\ \A j : j \in S <=> j \in 1 .. Len(s) /\ Ends(s[j]) /\ j < i
    BY DEF EndsIn
<1>2. Before(s, i) = IF S = {} THEN 0 ELSE CHOOSE j \in S : \A k \in S : k <= j
    BY DEF Before
<1> HIDE DEF S
<1>3. CASE S = {}
    BY <1>1, <1>2, <1>3
<1>4. CASE S # {}
  <2>1. \E j \in S : \A k \in S : k <= j
      BY <1>1, <1>4, GreatestElement
  <2>2. Before(s, i) \in S /\ \A k \in S : k <= Before(s, i)
      BY <1>2, <1>4, <2>1
  <2> QED
      BY <1>1, <2>2
<1> QED
    BY <1>3, <1>4

\* A packet is a report or, if it is excused, a part of one.
LEMMA PacketIsReport ==
    ASSUME NEW s \in Seq(Byte), NEW f, Along(s, f), clean => f[1][2] = 1,
           NEW p \in Packets(s)
    PROVE  /\ \E r \in Report : p.bytes \in {<< <<r, 1>> >>, << <<r, 2>> >>, << <<r, 1>>, <<r, 2>> >>}
           /\ ~p.excused => Len(p.bytes) = 2
<1>1. PICK i \in EndsIn(s) : /\ Before(s, i) < i - 1
                             /\ p = [ bytes   |-> SubSeq(s, Before(s, i) + 1, i - 1),
                                      excused |-> s[i] = Nul
                                                    \/ IF Before(s, i) = 0 THEN ~clean
                                                       ELSE s[Before(s, i)] = Nul ]
    BY DEF Packets
<1> DEFINE b == Before(s, i)
           q == SubSeq(s, b + 1, i - 1)
<1>2. Len(s) \in Nat /\ i \in 1 .. Len(s) /\ Ends(s[i]) /\ \A j \in 1 .. Len(s) : s[j] \in Byte
    BY DEF EndsIn
<1>3. /\ b \in 0 .. i - 1
      /\ b # 0 => b \in 1 .. Len(s) /\ Ends(s[b])
      /\ \A j \in 1 .. Len(s) : b < j /\ j < i => ~Ends(s[j])
    BY <1>2, BeforeIs
<1>4. /\ p.bytes = q
      /\ ~p.excused => s[i] # Nul /\ IF b = 0 THEN clean ELSE s[b] # Nul
    BY <1>1
<1>5. b < i - 1
    BY <1>1
<1> HIDE DEF b
<1>6. q \in Seq(Byte) /\ Len(q) = i - 1 - b /\ \A j \in 1 .. i - 1 - b : q[j] = s[b + j]
  <2>1. \A j \in b + 1 .. i - 1 : s[j] \in Byte
      BY <1>2, <1>3
  <2>2. /\ q \in Seq(Byte)
        /\ Len(q) = IF b + 1 <= i - 1 THEN (i - 1) - (b + 1) + 1 ELSE 0
        /\ \A j \in 1 .. (i - 1) - (b + 1) + 1 : q[j] = s[(b + 1) + j - 1]
      BY <1>2, <1>3, <2>1, SubSeqProperties
  <2> HIDE DEF q
  <2>3. ASSUME NEW j \in 1 .. i - 1 - b
        PROVE  q[j] = s[b + j]
    <3>1. j \in 1 .. (i - 1) - (b + 1) + 1 /\ (b + 1) + j - 1 = b + j
        BY <1>2, <1>3
    <3> QED
        BY <2>2, <3>1
  <2>4. Len(q) = i - 1 - b
      BY <1>2, <1>3, <1>5, <2>2
  <2> QED
      BY <2>2, <2>3, <2>4
<1> HIDE DEF q
\* The bytes of the packet are halves, each at its place.
<1>7. ASSUME NEW j \in b + 1 .. i - 1
      PROVE  /\ f[j] \in Place /\ f[j][2] \in {1, 2} /\ s[j] = f[j]
             /\ f[j + 1] = <<f[j][1], f[j][2] + 1>>
  <2>1. j \in 1 .. Len(s) /\ j \in 1 .. Len(s) + 1 /\ b < j /\ j < i
      BY <1>2, <1>3
  <2>2. f[j] \in Place /\ f[j + 1] = After(f[j]) /\ s[j] \in {Nul, ByteAt(f[j])}
      BY <2>1 DEF Along
  <2>3. s[j] # Nul /\ s[j] # Sep
      BY <1>3, <2>1 DEF Ends
  <2>4. f[j][2] # 3 /\ f[j][2] \in 1 .. 3
      BY <2>2, <2>3, Places
  <2>5. f[j][2] \in {1, 2}
      BY <2>4
  <2> QED
      BY <2>2, <2>3, <2>4, <2>5, Places
<1>8. b + 1 \in b + 1 .. i - 1 /\ b \in Nat /\ i \in Nat
    BY <1>2, <1>3, <1>5
<1> DEFINE r == f[b + 1][1]
<1>9. r \in Report /\ f[b + 1] = <<r, f[b + 1][2]>> /\ f[b + 1][2] \in {1, 2}
      /\ f[(b + 1) + 1] = <<r, f[b + 1][2] + 1>>
    BY <1>7, <1>8, Places
<1>10. i - 1 - b \in {1, 2} /\ (i - 1 - b = 2 => f[b + 1][2] = 1)
  <2>1. ASSUME i - 1 - b # 1
        PROVE  f[b + 1][2] = 1 /\ f[b + 2][2] = 2 /\ f[b + 3][2] = 3 /\ b + 2 \in b + 1 .. i - 1
    <3>1. b + 2 \in b + 1 .. i - 1 /\ (b + 1) + 1 = b + 2 /\ (b + 2) + 1 = b + 3
        BY <1>5, <1>8, <2>1
    <3>2. f[b + 2][2] \in {1, 2} /\ f[b + 2] = <<r, f[b + 1][2] + 1>>
          /\ f[b + 3] = <<f[b + 2][1], f[b + 2][2] + 1>>
        BY <1>7, <1>9, <3>1
    <3>3. f[b + 2][2] = f[b + 1][2] + 1 /\ f[b + 3][2] = f[b + 2][2] + 1
        BY <3>2
    <3> QED
        BY <1>9, <3>1, <3>2, <3>3
  <2>2. ASSUME i - 1 - b \notin {1, 2}
        PROVE  FALSE
    <3>1. b + 3 \in b + 1 .. i - 1 /\ i - 1 - b # 1
        BY <1>5, <1>8, <2>2
    <3> QED
        BY <1>7, <2>1, <3>1
  <2> QED
      BY <2>1, <2>2
<1>11. \E x \in Report : q \in {<< <<x, 1>> >>, << <<x, 2>> >>, << <<x, 1>>, <<x, 2>> >>}
  <2>1. q[1] = f[b + 1]
      BY <1>6, <1>7, <1>8, <1>10
  <2>2. CASE i - 1 - b = 1
    <3>1. q = << q[1] >>
        BY <1>6, <2>2
    <3> QED
        BY <1>9, <2>1, <3>1
  <2>3. CASE i - 1 - b = 2
    <3>1. q = << q[1], q[2] >>
        BY <1>6, <2>3
    <3>2. b + 2 \in b + 1 .. i - 1 /\ (b + 1) + 1 = b + 2
        BY <1>8, <2>3
    <3>3. q[2] = f[b + 2] /\ f[b + 2] = <<r, 2>> /\ f[b + 1] = <<r, 1>>
        BY <1>6, <1>7, <1>9, <1>10, <2>3, <3>2
    <3> QED
        BY <1>9, <2>1, <3>1, <3>3
  <2> QED
      BY <1>10, <2>2, <2>3
<1>12. ASSUME ~p.excused
       PROVE  Len(q) = 2
  <2>1. s[i] # Nul /\ IF b = 0 THEN clean ELSE s[b] # Nul
      BY <1>4, <1>12
  <2>2. f[i] \in Place /\ s[i] \in {Nul, ByteAt(f[i])} /\ s[i] = Sep
      BY <1>2, <2>1 DEF Along, Ends
  <2>3. f[i][2] = 3
      BY <2>1, <2>2, Places
  <2>4. f[b + 1][2] = 1
    <3>1. CASE b = 0
        BY <2>1, <3>1
    <3>2. CASE b # 0
      <4>1. f[b] \in Place /\ s[b] \in {Nul, ByteAt(f[b])} /\ f[b + 1] = After(f[b]) /\ s[b] = Sep
          BY <1>3, <2>1, <3>2 DEF Along, Ends
      <4> QED
          BY <2>1, <3>2, <4>1, Places
    <3> QED
        BY <3>1, <3>2
  <2>5. i - 1 - b # 1
    <3> SUFFICES ASSUME i - 1 - b = 1
                 PROVE  FALSE
        OBVIOUS
    <3>1. i = (b + 1) + 1
        BY <1>8
    <3>2. f[i][2] = 2
        BY <1>9, <2>4, <3>1
    <3> QED
        BY <2>3, <3>2
  <2> QED
      BY <1>6, <1>10, <2>5
<1> QED
    BY <1>4, <1>11, <1>12

\* The places of the first bytes, and of the last.
LEMMA AlongFront ==
    ASSUME NEW s \in Seq(Byte), NEW f, Along(s, f), NEW t \in Seq(Byte), Len(t) <= Len(s),
           \A j \in 1 .. Len(t) : t[j] = s[j]
    PROVE  \E g : Along(t, g) /\ g[1] = f[1]
<1> DEFINE g == [j \in 1 .. Len(t) + 1 |-> f[j]]
<1>1. Len(t) \in Nat /\ Len(s) \in Nat
    OBVIOUS
<1>2. \A j \in 1 .. Len(t) + 1 : j \in 1 .. Len(s) + 1
    BY <1>1
<1>3. g \in [1 .. Len(t) + 1 -> Place] /\ g[1] = f[1]
    BY <1>1, <1>2 DEF Along
<1>4. ASSUME NEW j \in 1 .. Len(t)
      PROVE  g[j + 1] = After(g[j]) /\ t[j] \in {Nul, ByteAt(g[j])}
  <2>1. j \in 1 .. Len(s) /\ j \in 1 .. Len(t) + 1 /\ j + 1 \in 1 .. Len(t) + 1
      BY <1>1
  <2>2. g[j] = f[j] /\ g[j + 1] = f[j + 1] /\ t[j] = s[j]
      BY <2>1
  <2> QED
      BY <2>1, <2>2 DEF Along
<1> HIDE DEF g
<1>5. Along(t, g)
    BY <1>3, <1>4 DEF Along
<1> QED
    BY <1>3, <1>5

\* What is left when bytes are taken from the front is consecutive, too.
LEMMA AlongBack ==
    ASSUME NEW s \in Seq(Byte), NEW f, Along(s, f), NEW m \in 0 .. Len(s),
           NEW t \in Seq(Byte), Len(t) = Len(s) - m, \A j \in 1 .. Len(t) : t[j] = s[j + m]
    PROVE  \E g : Along(t, g) /\ g[Len(t) + 1] = f[Len(s) + 1] /\ g[1] = f[m + 1]
<1> DEFINE g == [j \in 1 .. Len(t) + 1 |-> f[j + m]]
<1>1. Len(t) \in Nat /\ Len(s) \in Nat /\ m \in Nat /\ m <= Len(s)
    OBVIOUS
<1>2. \A j \in 1 .. Len(t) + 1 : j + m \in 1 .. Len(s) + 1
    BY <1>1
<1>3. g \in [1 .. Len(t) + 1 -> Place]
    BY <1>1, <1>2 DEF Along
<1>4. 1 \in 1 .. Len(t) + 1 /\ Len(t) + 1 \in 1 .. Len(t) + 1
      /\ 1 + m = m + 1 /\ (Len(t) + 1) + m = Len(s) + 1
    BY <1>1
<1>5. g[Len(t) + 1] = f[Len(s) + 1] /\ g[1] = f[m + 1]
    BY <1>4
<1>6. ASSUME NEW j \in 1 .. Len(t)
      PROVE  g[j + 1] = After(g[j]) /\ t[j] \in {Nul, ByteAt(g[j])}
  <2>1. j + m \in 1 .. Len(s) /\ j \in 1 .. Len(t) + 1 /\ j + 1 \in 1 .. Len(t) + 1
        /\ (j + 1) + m = (j + m) + 1
      BY <1>1
  <2>2. g[j] = f[j + m] /\ g[j + 1] = f[(j + m) + 1] /\ t[j] = s[j + m]
      BY <2>1
  <2> QED
      BY <2>1, <2>2 DEF Along
<1> HIDE DEF g
<1>7. Along(t, g)
    BY <1>3, <1>6 DEF Along
<1> QED
    BY <1>3, <1>5, <1>7

\* What a read of k bytes has before it, and behind.
LEMMA Reads ==
    ASSUME input \in Seq(Byte), wire \in Seq(Byte), NEW k \in 1 .. Len(wire)
    PROVE  LET s == input \o SubSeq(wire, 1, k)
               t == SubSeq(wire, k + 1, Len(wire))
               u == input \o wire
           IN  /\ s \in Seq(Byte) /\ t \in Seq(Byte) /\ u \in Seq(Byte)
               /\ Len(s) \in Nat /\ Len(t) \in Nat /\ Len(u) = Len(s) + Len(t)
               /\ \A j \in 1 .. Len(s) : s[j] = u[j]
               /\ \A j \in 1 .. Len(t) : t[j] = u[Len(s) + j]
<1> DEFINE a == SubSeq(wire, 1, k)
           s == input \o a
           t == SubSeq(wire, k + 1, Len(wire))
           u == input \o wire
<1>1. /\ Len(wire) \in Nat /\ Len(input) \in Nat /\ k \in Nat /\ 1 <= k /\ k <= Len(wire)
      /\ \A j \in 1 .. Len(wire) : wire[j] \in Byte
    OBVIOUS
<1>2. a \in Seq(Byte) /\ Len(a) = k /\ \A j \in 1 .. k : a[j] = wire[j]
  <2>1. \A j \in 1 .. k : wire[j] \in Byte
      BY <1>1
  <2>2. /\ a \in Seq(Byte) /\ Len(a) = IF 1 <= k THEN k - 1 + 1 ELSE 0
        /\ \A j \in 1 .. k - 1 + 1 : a[j] = wire[1 + j - 1]
      BY <1>1, <2>1, SubSeqProperties
  <2> HIDE DEF a
  <2>3. ASSUME NEW j \in 1 .. k
        PROVE  a[j] = wire[j]
    <3>1. j \in 1 .. k - 1 + 1 /\ 1 + j - 1 = j
        BY <1>1
    <3> QED
        BY <2>2, <3>1
  <2> QED
      BY <1>1, <2>2, <2>3
<1>3. t \in Seq(Byte) /\ Len(t) = Len(wire) - k /\ \A j \in 1 .. Len(wire) - k : t[j] = wire[k + j]
  <2>1. \A j \in k + 1 .. Len(wire) : wire[j] \in Byte
      BY <1>1
  <2>2. /\ t \in Seq(Byte)
        /\ Len(t) = IF k + 1 <= Len(wire) THEN Len(wire) - (k + 1) + 1 ELSE 0
        /\ \A j \in 1 .. Len(wire) - (k + 1) + 1 : t[j] = wire[(k + 1) + j - 1]
      BY <1>1, <2>1, SubSeqProperties
  <2> HIDE DEF t
  <2>3. ASSUME NEW j \in 1 .. Len(wire) - k
        PROVE  t[j] = wire[k + j]
    <3>1. j \in 1 .. Len(wire) - (k + 1) + 1 /\ (k + 1) + j - 1 = k + j
        BY <1>1
    <3> QED
        BY <2>2, <3>1
  <2>4. Len(t) = Len(wire) - k
      BY <1>1, <2>2
  <2> QED
      BY <2>2, <2>3, <2>4
<1> HIDE DEF a, t
<1>4. /\ s \in Seq(Byte) /\ Len(s) = Len(input) + k
      /\ \A j \in 1 .. Len(input) + k :
            s[j] = IF j <= Len(input) THEN input[j] ELSE a[j - Len(input)]
    BY <1>2, ConcatProperties
<1>5. /\ u \in Seq(Byte) /\ Len(u) = Len(input) + Len(wire)
      /\ \A j \in 1 .. Len(input) + Len(wire) :
            u[j] = IF j <= Len(input) THEN input[j] ELSE wire[j - Len(input)]
    BY ConcatProperties
<1> HIDE DEF s, u
<1>6. ASSUME NEW j \in 1 .. Len(s)
      PROVE  s[j] = u[j]
  <2>1. j \in 1 .. Len(input) + k /\ j \in 1 .. Len(input) + Len(wire)
      BY <1>1, <1>4
  <2>2. CASE j <= Len(input)
      BY <1>4, <1>5, <2>1, <2>2
  <2>3. CASE ~(j <= Len(input))
    <3>1. j - Len(input) \in 1 .. k
        BY <1>1, <2>1, <2>3
    <3>2. s[j] = a[j - Len(input)] /\ u[j] = wire[j - Len(input)]
        BY <1>4, <1>5, <2>1, <2>3
    <3> QED
        BY <1>2, <3>1, <3>2
  <2> QED
      BY <2>2, <2>3
<1>7. ASSUME NEW j \in 1 .. Len(t)
      PROVE  t[j] = u[Len(s) + j]
  <2>1. /\ j \in 1 .. Len(wire) - k /\ Len(s) + j \in 1 .. Len(input) + Len(wire)
        /\ ~(Len(s) + j <= Len(input)) /\ (Len(s) + j) - Len(input) = k + j
      BY <1>1, <1>3, <1>4
  <2>2. u[Len(s) + j] = wire[(Len(s) + j) - Len(input)]
      BY <1>5, <2>1
  <2> QED
      BY <1>3, <2>1, <2>2
<1>8. Len(s) \in Nat /\ Len(t) \in Nat /\ Len(u) = Len(s) + Len(t)
    BY <1>1, <1>3, <1>4, <1>5
<1> QED
    BY <1>3, <1>4, <1>5, <1>6, <1>7, <1>8 DEF a, s, t, u

\* BytesUnderWay after a step.
LEMMA BytesUnderWayIs ==
    BytesUnderWay' <=>
        LET s == input' \o wire'
        IN  \E place \in [1 .. Len(s) + 1 -> Place] :
                Along(s, place) /\ place[Len(s) + 1] = saying' /\ (clean' => place[1][2] = 1)
BY DEF BytesUnderWay, Along

\* A step that takes bytes from the front, or none, leaves the rest where it was.
LEMMA LessUnderWay ==
    ASSUME input \o wire \in Seq(Byte), BytesUnderWay, saying' = saying,
           NEW m \in 0 .. Len(input \o wire),
           input' \o wire' \in Seq(Byte), Len(input' \o wire') = Len(input \o wire) - m,
           \A j \in 1 .. Len(input' \o wire') : (input' \o wire')[j] = (input \o wire)[j + m],
           clean' => \/ m = 0 /\ clean
                     \/ m # 0 /\ (input \o wire)[m] = Sep
    PROVE  BytesUnderWay'
<1> SUFFICES ASSUME NEW s, s = input \o wire, NEW t, t = input' \o wire'
              PROVE  BytesUnderWay'
    OBVIOUS
<1>1. PICK f \in [1 .. Len(s) + 1 -> Place] :
          Along(s, f) /\ f[Len(s) + 1] = saying /\ (clean => f[1][2] = 1)
    BY DEF BytesUnderWay
<1>2. /\ s \in Seq(Byte) /\ t \in Seq(Byte) /\ m \in 0 .. Len(s) /\ Len(t) = Len(s) - m
      /\ \A j \in 1 .. Len(t) : t[j] = s[j + m]
      /\ clean' => (m = 0 /\ clean) \/ (m # 0 /\ s[m] = Sep)
    OBVIOUS
<1>3. PICK g : Along(t, g) /\ g[Len(t) + 1] = f[Len(s) + 1] /\ g[1] = f[m + 1]
  <2>1. Along(s, f)
      BY <1>1
  <2>2. /\ s \in Seq(Byte) /\ t \in Seq(Byte) /\ m \in 0 .. Len(s) /\ Len(t) = Len(s) - m
        /\ \A j \in 1 .. Len(t) : t[j] = s[j + m]
      BY <1>2
  <2> QED
      BY ONLY <2>1, <2>2, AlongBack
<1>4. clean' => g[1][2] = 1
  <2>1. CASE m = 0
      BY <1>1, <1>2, <1>3, <2>1
  <2>2. CASE m # 0 /\ s[m] = Sep
    <3>1. m \in 1 .. Len(s)
        BY <1>2, <2>2
    <3>2. Along(s, f) /\ Len(s) \in Nat
        BY <1>1, <1>2
    <3>3. f[m] \in Place /\ f[m + 1] = After(f[m]) /\ s[m] \in {Nul, ByteAt(f[m])}
        BY ONLY <3>1, <3>2 DEF Along
    <3> QED
        BY <1>3, <2>2, <3>3, Places
  <2> QED
      BY <1>2, <2>1, <2>2
<1>5. g \in [1 .. Len(t) + 1 -> Place]
    BY <1>3 DEF Along
<1> QED
    BY <1>1, <1>3, <1>4, <1>5, BytesUnderWayIs

\* Own says its next byte.
LEMMA MoreUnderWay ==
    ASSUME input \in Seq(Byte), wire \in Seq(Byte), BytesUnderWay, NEW b \in {Nul, ByteAt(saying)},
           saying \in Place, input' = input, clean' = clean,
           wire' = Append(wire, b), saying' = After(saying)
    PROVE  BytesUnderWay'
<1> DEFINE s == input \o wire
           t == input' \o wire'
<1>1. PICK f \in [1 .. Len(s) + 1 -> Place] :
          Along(s, f) /\ f[Len(s) + 1] = saying /\ (clean => f[1][2] = 1)
    BY DEF BytesUnderWay
<1>2. s \in Seq(Byte) /\ Len(s) \in Nat /\ t = Append(s, b) /\ saying' \in Place
  <2>1. b \in Byte /\ saying' \in Place
      BY Places
  <2> QED
      BY <2>1
<1> HIDE DEF s, t
<1>3. Len(t) = Len(s) + 1 /\ t[Len(s) + 1] = b /\ \A i \in 1 .. Len(s) : t[i] = s[i]
    BY <1>2
<1> DEFINE g == [i \in 1 .. Len(t) + 1 |-> IF i = Len(t) + 1 THEN saying' ELSE f[i]]
<1>4. \A i \in 1 .. Len(s) + 1 : g[i] = f[i]
    BY <1>2, <1>3
<1>5. g \in [1 .. Len(t) + 1 -> Place] /\ g[Len(t) + 1] = saying' /\ g[1] = f[1]
    BY <1>2, <1>3
<1>6. ASSUME NEW i \in 1 .. Len(t)
      PROVE  g[i + 1] = After(g[i]) /\ t[i] \in {Nul, ByteAt(g[i])}
  <2>1. CASE i = Len(s) + 1
    <3>1. g[i] = saying /\ g[i + 1] = saying' /\ t[i] = b
        BY <1>1, <1>2, <1>3, <1>4, <1>5, <2>1
    <3> QED
        BY <3>1
  <2>2. CASE i # Len(s) + 1
    <3>1. i \in 1 .. Len(s) /\ i \in 1 .. Len(s) + 1 /\ i + 1 \in 1 .. Len(s) + 1
        BY <1>2, <1>3, <2>2
    <3>2. g[i] = f[i] /\ g[i + 1] = f[i + 1] /\ t[i] = s[i]
        BY <1>3, <1>4, <3>1
    <3> QED
        BY <1>1, <3>1, <3>2 DEF Along
  <2> QED
      BY <2>1, <2>2
<1> HIDE DEF g
<1>7. Along(t, g)
    BY <1>5, <1>6 DEF Along
<1> QED
    BY <1>1, <1>5, <1>7, BytesUnderWayIs DEF t

\* readcb() takes from the front all up to the last end.
LEMMA ReadUnderWay ==
    ASSUME input \in Seq(Half), wire \in Seq(Byte), BytesUnderWay,
           NEW k \in 1 .. MaxBytes, NEW n, ReadCb(k, n)
    PROVE  input' \in Seq(Half) /\ wire' \in Seq(Byte) /\ clean' \in {clean, TRUE, FALSE} /\ BytesUnderWay'
<1> DEFINE s == input \o SubSeq(wire, 1, k)
           t == SubSeq(wire, k + 1, Len(wire))
           u == input \o wire
           b == Before(s, Len(s) + 1)
<1>1. /\ k \in 1 .. Len(wire) /\ wire' = t /\ input' = Unfinished(s) /\ saying' = saying
      /\ clean' = IF EndsIn(s) = {} THEN clean ELSE s[b] = Sep
    BY DEF ReadCb
<1>2. input \in Seq(Byte)
    BY DEF Byte
<1>3. /\ s \in Seq(Byte) /\ t \in Seq(Byte) /\ u \in Seq(Byte)
      /\ Len(s) \in Nat /\ Len(t) \in Nat /\ Len(u) = Len(s) + Len(t)
      /\ \A j \in 1 .. Len(s) : s[j] = u[j]
      /\ \A j \in 1 .. Len(t) : t[j] = u[Len(s) + j]
    BY <1>1, <1>2, Reads
<1>4. Unfinished(s) = SubSeq(s, b + 1, Len(s))
    BY DEF Unfinished
<1> HIDE DEF s, t
<1>5. /\ b \in 0 .. Len(s)
      /\ b # 0 => b \in 1 .. Len(s) /\ Ends(s[b])
      /\ \A j \in 1 .. Len(s) : b < j => ~Ends(s[j])
  <2>1. Len(s) + 1 \in 1 .. Len(s) + 1 /\ (Len(s) + 1) - 1 = Len(s)
      BY <1>3
  <2>2. /\ b \in 0 .. (Len(s) + 1) - 1
        /\ b # 0 => b \in 1 .. Len(s) /\ Ends(s[b])
        /\ \A j \in 1 .. Len(s) : b < j /\ j < Len(s) + 1 => ~Ends(s[j])
      BY <1>3, <2>1, BeforeIs
  <2> HIDE DEF b
  <2> QED
      BY <1>3, <2>1, <2>2
<1> HIDE DEF b
<1> DEFINE v == SubSeq(s, b + 1, Len(s))
<1>6. v \in Seq(Half) /\ Len(v) = Len(s) - b /\ \A j \in 1 .. Len(s) - b : v[j] = s[b + j]
  <2>1. ASSUME NEW j \in b + 1 .. Len(s)
        PROVE  s[j] \in Half
    <3>1. j \in 1 .. Len(s) /\ b < j
        BY <1>3, <1>5
    <3>2. s[j] \in Byte /\ ~Ends(s[j])
        BY <1>3, <1>5, <3>1
    <3> QED
        BY <3>2 DEF Byte, Ends
  <2>2. /\ v \in Seq(Half)
        /\ Len(v) = IF b + 1 <= Len(s) THEN Len(s) - (b + 1) + 1 ELSE 0
        /\ \A j \in 1 .. Len(s) - (b + 1) + 1 : v[j] = s[(b + 1) + j - 1]
    <3>1. b + 1 \in 1 .. Len(s) + 1 /\ Len(s) \in b .. Len(s) /\ \A j \in b + 1 .. Len(s) : s[j] \in Half
        BY <1>3, <1>5, <2>1
    <3> QED
        BY <1>3, <2>1, <3>1, SubSeqProperties, SMTT(60)
  <2> HIDE DEF v
  <2>3. ASSUME NEW j \in 1 .. Len(s) - b
        PROVE  v[j] = s[b + j]
    <3>1. j \in 1 .. Len(s) - (b + 1) + 1 /\ (b + 1) + j - 1 = b + j
        BY <1>3, <1>5
    <3> QED
        BY <2>2, <3>1
  <2>4. Len(v) = Len(s) - b
      BY <1>3, <1>5, <2>2
  <2> QED
      BY <2>2, <2>3, <2>4
<1> HIDE DEF v
<1>7. v \in Seq(Byte)
    BY <1>6 DEF Byte
<1> DEFINE w == v \o t
<1>8. /\ w \in Seq(Byte) /\ Len(w) = Len(v) + Len(t)
      /\ \A j \in 1 .. Len(v) + Len(t) : w[j] = IF j <= Len(v) THEN v[j] ELSE t[j - Len(v)]
    BY <1>3, <1>7, ConcatProperties
<1>9. input' \o wire' = w /\ input' = v
    BY <1>1, <1>4 DEF v
<1> HIDE DEF w
<1>10. Len(w) = Len(u) - b /\ b \in 0 .. Len(u)
    BY <1>3, <1>5, <1>6, <1>8
<1>11. ASSUME NEW j \in 1 .. Len(w)
       PROVE  w[j] = u[j + b]
  <2>1. CASE j <= Len(v)
    <3>1. j \in 1 .. Len(s) - b /\ b + j \in 1 .. Len(s) /\ b + j = j + b /\ j \in 1 .. Len(v) + Len(t)
        BY <1>3, <1>5, <1>6, <1>8, <2>1
    <3>2. w[j] = v[j] /\ v[j] = s[b + j] /\ s[b + j] = u[b + j]
        BY <1>3, <1>6, <1>8, <2>1, <3>1
    <3> QED
        BY <3>1, <3>2
  <2>2. CASE ~(j <= Len(v))
    <3>1. j - Len(v) \in 1 .. Len(t) /\ Len(s) + (j - Len(v)) = j + b /\ j \in 1 .. Len(v) + Len(t)
        BY <1>3, <1>5, <1>6, <1>8, <2>2
    <3>2. w[j] = t[j - Len(v)] /\ t[j - Len(v)] = u[Len(s) + (j - Len(v))]
        BY <1>3, <1>8, <2>2, <3>1
    <3> QED
        BY <3>1, <3>2
  <2> QED
      BY <2>1, <2>2
<1>12. clean' => (b = 0 /\ clean) \/ (b # 0 /\ u[b] = Sep)
  <2>1. CASE EndsIn(s) = {}
    <3>1. b = 0
        BY <1>5, <2>1 DEF EndsIn
    <3> QED
        BY <1>1, <2>1, <3>1
  <2>2. CASE EndsIn(s) # {}
    <3>1. b # 0
        BY <1>3, <1>5, <2>2 DEF EndsIn
    <3>2. s[b] = u[b]
        BY <1>3, <1>5, <3>1
    <3> QED
        BY <1>1, <2>2, <3>1, <3>2
  <2> QED
      BY <2>1, <2>2
<1>13. BytesUnderWay'
    BY <1>1, <1>3, <1>8, <1>9, <1>10, <1>11, <1>12, LessUnderWay
<1>14. clean' \in {clean, TRUE, FALSE}
    BY <1>1
<1> QED
    BY <1>1, <1>3, <1>6, <1>9, <1>13, <1>14

\* At first no device is open.
LEMMA MainInitInv == MainInit => MainInv
<1> SUFFICES ASSUME MainInit
             PROVE  MainInv
    OBVIOUS
<1>1. Inv /\ TypeOK
    BY InitInv DEF MainInit, Inv
<1>2. MainTypeOK
  <2>1. <<>> \in Seq(Byte) /\ <<>> \in Seq(Half)
      OBVIOUS
  <2> QED
      BY <1>1, <2>1, Places DEF MainTypeOK, MainInit
<1>3. BytesUnderWay
  <2> DEFINE f == [i \in 1 .. 1 |-> <<0, 1>>]
  <2>1. input \o wire = <<>> /\ Len(<<>>) + 1 = 1 /\ clean = FALSE /\ saying = <<0, 1>>
      BY DEF MainInit
  <2>2. f \in [1 .. 1 -> Place] /\ f[1] = saying /\ f[1][2] = 1
      BY <2>1, Places
  <2> HIDE DEF f
  <2>3. Along(<<>>, f)
      BY <2>1, <2>2 DEF Along
  <2> QED
      BY <2>1, <2>2, <2>3 DEF BytesUnderWay
<1> QED
    BY <1>1, <1>2, <1>3 DEF MainInv

\* Where the loop only turns, or Own is closed, or all is gone: nothing is in the wrong
\* place that is not there any more.
LEMMA SameUnderWay ==
    ASSUME BytesUnderWay, UNCHANGED inVars
    PROVE  BytesUnderWay'
<1>1. wire' = wire /\ saying' = saying /\ input' = input /\ clean' = clean
    BY DEF inVars
<1> QED
    BY <1>1, BytesUnderWayIs DEF BytesUnderWay

\* Where no byte is kept or under way, there is nothing to be consecutive.
LEMMA NothingUnderWay ==
    ASSUME input' = <<>>, wire' = <<>>, clean' = FALSE, saying' \in Place
    PROVE  BytesUnderWay'
<1>1. input' \o wire' = <<>> /\ Len(<<>>) + 1 = 1
    OBVIOUS
<1>2. PICK f \in [1 .. 1 -> Place] : f[1] = saying'
  <2> SUFFICES ASSUME NEW p \in Place
               PROVE  \E f \in [1 .. 1 -> Place] : f[1] = p
      OBVIOUS
  <2>1. [i \in 1 .. 1 |-> p] \in [1 .. 1 -> Place] /\ [i \in 1 .. 1 |-> p][1] = p
      OBVIOUS
  <2> QED
      BY <2>1
<1>3. Along(<<>>, f)
    BY <1>1, <1>2 DEF Along
<1> QED
    BY <1>1, <1>2, <1>3, BytesUnderWayIs

\* Opening the devices anew drops what is kept; what is on the line may go, too.
LEMMA ClosedUnderWay ==
    ASSUME input \in Seq(Half), wire \in Seq(Byte), BytesUnderWay, saying \in Place, ReopenDevices
    PROVE  BytesUnderWay'
<1>1. input' = <<>> /\ wire' \in {wire, <<>>} /\ clean' = FALSE /\ saying' = saying
    BY DEF ReopenDevices, InputClosed
<1>2. CASE wire' = <<>>
    BY <1>1, <1>2, NothingUnderWay
<1>3. CASE wire' = wire
  <2>1. input \in Seq(Byte)
      BY DEF Byte
  <2>2. /\ input \o wire \in Seq(Byte) /\ Len(input) \in Nat /\ Len(wire) \in Nat
        /\ Len(input \o wire) = Len(input) + Len(wire)
        /\ \A j \in 1 .. Len(input) + Len(wire) :
              (input \o wire)[j] = IF j <= Len(input) THEN input[j] ELSE wire[j - Len(input)]
      BY <2>1, ConcatProperties
  <2>3. input' \o wire' = wire
      BY <1>1, <1>3
  <2>4. ASSUME NEW j \in 1 .. Len(wire)
        PROVE  wire[j] = (input \o wire)[j + Len(input)]
    <3>1. /\ j + Len(input) \in 1 .. Len(input) + Len(wire)
          /\ ~(j + Len(input) <= Len(input)) /\ (j + Len(input)) - Len(input) = j
        BY <2>2
    <3> QED
        BY <2>2, <3>1
  <2>5. Len(input) \in 0 .. Len(input \o wire) /\ Len(wire) = Len(input \o wire) - Len(input)
      BY <2>2
  <2> QED
      BY <1>1, <2>2, <2>3, <2>4, <2>5, LessUnderWay
<1> QED
    BY <1>1, <1>2, <1>3

\* Every step of the loop keeps the invariant.
LEMMA MainNextInv == MainInv /\ [MainNext]_mainVars => MainInv'
<1> SUFFICES ASSUME MainInv, [MainNext]_mainVars
             PROVE  MainInv'
    OBVIOUS
<1> USE DEF MainInv
<1>1. Inv' /\ TypeOK'
    BY MainStepIsDeviceStep, NextInv DEF Inv
<1>2. /\ running \in BOOLEAN /\ asleep \in BOOLEAN /\ sigterm \in BOOLEAN /\ exit_timer \in BOOLEAN
      /\ hung \subseteq Device /\ wire \in Seq(Byte) /\ input \in Seq(Half) /\ saying \in Place
      /\ clean \in BOOLEAN
    BY DEF MainTypeOK
<1>empty. <<>> \in Seq(Byte) /\ <<>> \in Seq(Half)
    OBVIOUS
<1> DEFINE LoopTypeOK == /\ running \in BOOLEAN /\ asleep \in BOOLEAN /\ sigterm \in BOOLEAN
                         /\ exit_timer \in BOOLEAN /\ hung \subseteq Device
           InTypeOK   == /\ wire \in Seq(Byte) /\ input \in Seq(Half) /\ saying \in Place
                         /\ clean \in BOOLEAN
<1> SUFFICES LoopTypeOK' /\ InTypeOK' /\ BytesUnderWay'
    BY <1>1 DEF MainTypeOK
<1>3. UNCHANGED loopVars => LoopTypeOK'
    BY <1>2 DEF loopVars
<1>4. UNCHANGED inVars => InTypeOK' /\ BytesUnderWay'
  <2>1. UNCHANGED inVars => InTypeOK'
      BY <1>2 DEF inVars
  <2> QED
      BY <2>1, SameUnderWay
<1>5. CASE ReopenDevices
  <2>1. LoopTypeOK' /\ InTypeOK'
      BY <1>2, <1>empty, <1>5 DEF ReopenDevices, InputClosed
  <2> QED
      BY <1>2, <1>5, <2>1, ClosedUnderWay
<1>6. ASSUME NEW k \in 1 .. MaxBytes, NEW n \in 0 .. Len(output.list), ReadCb(k, n)
      PROVE  LoopTypeOK' /\ InTypeOK' /\ BytesUnderWay'
  <2>1. input' \in Seq(Half) /\ wire' \in Seq(Byte) /\ clean' \in {clean, TRUE, FALSE} /\ BytesUnderWay'
      BY <1>2, <1>6, ReadUnderWay
  <2>2. UNCHANGED <<loopVars, saying>>
      BY <1>6 DEF ReadCb
  <2> QED
      BY <1>2, <1>3, <2>1, <2>2
<1>7. CASE \E d \in Device : EndOfLine(d)
  <2>1. UNCHANGED inVars
      BY <1>7 DEF EndOfLine, inVars
  <2>2. LoopTypeOK'
      BY <1>2, <1>7 DEF EndOfLine
  <2> QED
      BY <1>4, <2>1, <2>2
<1>8. CASE LoopExit
  <2>1. LoopTypeOK'
      BY <1>2, <1>8 DEF LoopExit
  <2> QED
      BY <1>4, <1>8, <2>1 DEF LoopExit
<1>9. CASE GoToSleep \/ QuitEvent \/ SigtermComes
  <2>1. UNCHANGED inVars
      BY <1>9 DEF GoToSleep, QuitEvent, SigtermComes, inVars
  <2>2. LoopTypeOK'
      BY <1>2, <1>9 DEF GoToSleep, QuitEvent, SigtermComes
  <2> QED
      BY <1>4, <2>1, <2>2
<1>10. CASE EndNormally \/ Fail
  <2>1. Ended
      BY <1>10 DEF EndNormally, Fail
  <2>2. LoopTypeOK' /\ InTypeOK'
      BY <1>empty, <2>1, Places DEF Ended
  <2> QED
      BY <2>1, <2>2, Places, NothingUnderWay DEF Ended
<1>11. CASE (\E m \in Msg : MainSend(m)) \/ MainWriteTimeout \/ MainTick
    BY <1>3, <1>4, <1>11 DEF MainSend, MainWriteTimeout, MainTick
<1>12. CASE \E d \in Device : HangUp(d)
  <2>1. UNCHANGED inVars /\ LoopTypeOK'
      BY <1>2, <1>12 DEF HangUp
  <2> QED
      BY <1>4, <2>1
<1>13. CASE Says
  <2>1. PICK b \in {Nul, ByteAt(saying)} : wire' = Append(wire, b)
      BY <1>13 DEF Says
  <2>2. /\ saying' = After(saying) /\ input' = input /\ clean' = clean /\ UNCHANGED loopVars
        /\ b \in Byte /\ saying' \in Place
      BY <1>2, <1>13, Places DEF Says
  <2>3. InTypeOK'
      BY <1>2, <2>1, <2>2
  <2>4. input \in Seq(Byte)
      BY <1>2 DEF Byte
  <2> QED
      BY <1>2, <1>3, <2>1, <2>2, <2>3, <2>4, MoreUnderWay
<1>14. CASE UNCHANGED mainVars
    BY <1>3, <1>4, <1>14 DEF mainVars
<1> QED
    BY <1>5, <1>6, <1>7, <1>8, <1>9, <1>10, <1>11, <1>12, <1>13, <1>14 DEF MainNext

\* The types of the loop's state, the promises of the device under it, and where in what
\* Own says the bytes are that no packet was made of yet.
THEOREM MainInvHolds == MainSpec => []MainInv
BY MainInitInv, MainNextInv, PTL DEF MainSpec

\* readcb() never hands a driver anything but a report of the device or, next to a garbled
\* byte or as the first of a session, a part of one.
THEOREM PacketsAlwaysSent == MainSpec => []PacketsAreSent
<1>1. MainInv => PacketsAreSent
  <2> SUFFICES ASSUME MainInv, NEW k \in 1 .. Len(wire),
                      NEW p \in Packets(input \o SubSeq(wire, 1, k))
               PROVE  /\ \E r \in Report :
                            p.bytes \in {<< <<r, 1>> >>, << <<r, 2>> >>, << <<r, 1>>, <<r, 2>> >>}
                      /\ ~p.excused => Len(p.bytes) = 2
      BY DEF PacketsAreSent
  <2>1. input \in Seq(Byte) /\ wire \in Seq(Byte)
      BY DEF MainInv, MainTypeOK, Byte
  <2> SUFFICES ASSUME NEW s, s = input \o SubSeq(wire, 1, k), NEW u, u = input \o wire
               PROVE  /\ \E r \in Report :
                            p.bytes \in {<< <<r, 1>> >>, << <<r, 2>> >>, << <<r, 1>>, <<r, 2>> >>}
                      /\ ~p.excused => Len(p.bytes) = 2
      OBVIOUS
  <2>2. PICK f : Along(u, f) /\ (clean => f[1][2] = 1)
      BY DEF MainInv, BytesUnderWay
  <2>3. s \in Seq(Byte) /\ u \in Seq(Byte) /\ Len(s) <= Len(u) /\ \A j \in 1 .. Len(s) : s[j] = u[j]
      BY <2>1, Reads, SMTT(60)
  <2>4. PICK g : Along(s, g) /\ g[1] = f[1]
      BY ONLY <2>2, <2>3, AlongFront
  <2> QED
      BY <2>2, <2>3, <2>4, PacketIsReport
<1> QED
    BY <1>1, MainInvHolds, PTL
===============================================================================
