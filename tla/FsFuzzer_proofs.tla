--------------------------- MODULE FsFuzzer_proofs ---------------------------
(***************************************************************************)
(* Theorems about FsFuzzer, for all values of its constants.  The harness  *)
(* does not offer persistent mode, so every verdict restores a snapshot    *)
(* that was taken behind the first round; what the proofs carry along is   *)
(* what that round, and a round of the host's, may have left in the        *)
(* kernel: mounts and the blocks of the backing file.                      *)
(***************************************************************************)
EXTENDS FsFuzzer, TLAPS

Callers == {"harness", "kernel", "host"}
Reasons == Outcomes \union {"running"}
Entries == [id : Nat, verdict : Verdicts, why : Reasons, by : Callers]

Zeros(f) == \A i \in 1..Len(f) : f[i] = 0

\* The backing file after a payload has been written to one of zeros.
FromPayload(f) ==
  \E n \in 1..input.size :
    /\ n = input.size \/ "short" \in Faults
    /\ \A i \in 1..Len(f) : f[i] = IF i <= n THEN input.id ELSE 0

\* Where the harness is in which phase of the host.
Placed(g, p) ==
  \/ g.pc \in {"open_ctl", "agent_init", "get_payload", "attach", "next"} /\ p = "boot"
  \/ /\ g.pc \in {"write", "capacity", "mount", "kernel", "umount", "release"}
     /\ p \in {"boot", "exec"}
  \/ g.pc = "acquire" /\ p = "ready"

\* What is then known of the outcome.
Known(g) ==
  /\ g.pc \notin {"kernel", "release", "next"} => g.out = "running"
  /\ g.pc = "kernel" => g.out = "crash"
  /\ g.pc = "release" => g.out \in {"skipped", "refused", "mounted"}
  /\ g.pc = "umount" => g.mounts > 0

\* At most the one file system of the first round that could not be unmounted.
Leftover(m) == m = 0 \/ (m = 1 /\ "umount" \in Faults)

\* The first round starts with nothing mounted, every other one with what the
\* first has left, and with its file and device.
Kept(g, p) ==
  /\ p = "boot" =>
       /\ g.pc \notin {"umount", "kernel", "release", "next"} => g.mounts = 0
       /\ g.pc = "umount" => g.mounts = 1
       /\ g.pc \in {"release", "next"} => Leftover(g.mounts)
  /\ p \in {"ready", "exec"} =>
       \A s \in snap :
         /\ g.pc \in {"acquire", "write", "capacity", "mount"} => g.mounts = s.guest.mounts
         /\ g.pc \in {"acquire", "write"} =>
              g.file = s.guest.file /\ g.device = s.guest.device

\* What is known of the backing file, and of the size to be written.
Stored(g, p) ==
  /\ p \in {"boot", "ready"} \/ g.pc = "write" => Zeros(g.file)
  /\ p = "exec" /\ g.pc = "write" => g.size = input.size
  /\ p = "exec" /\ g.pc \in {"capacity", "mount"} => FromPayload(g.file)

GuestOK(g, p) ==
  /\ g \in Guest /\ Known(g) /\ Stored(g, p) /\ Kept(g, p)
  /\ p \notin {"done", "aborted"} => Placed(g, p)

HostOK ==
  /\ conf \in HostConfigs /\ phase \in Phases /\ mode = "reload" /\ stray \in BOOLEAN
  /\ buffer \in {"none", "array"}
  /\ input \in [id : Nat, size : Nat]
  /\ log \in Seq(Entries)
  /\ phase = "boot" => input.id = 0 /\ snap = {}

\* The snapshot is taken behind the NEXT_PAYLOAD of the first round.
Saved ==
  /\ snap \subseteq [guest : Guest, phase : {"ready"}]
  /\ \A s, t \in snap : s = t
  /\ \A s \in snap :
       /\ s.guest.pc = "acquire" /\ Known(s.guest) /\ Zeros(s.guest.file)
       /\ Leftover(s.guest.mounts)

IInv == HostOK /\ Saved /\ GuestOK(guest, phase)

---------------------------------------------------------------------------
\* The host calls.

\* A call that returns, in or out of order.
LEMMA ReturnHolds ==
  ASSUME IInv, NEW g, GuestOK(g, phase), Inform(g) \/ Misplaced(g)
  PROVE  IInv'
<1>1. guest' = g /\ UNCHANGED <<conf, phase, mode, buffer, snap, input, log>> /\ stray' \in BOOLEAN
  BY DEF IInv, HostOK, Inform, Misplaced, hostVars
<1>2. GuestOK(guest, phase)'
  BY <1>1 DEF GuestOK, Stored, Kept, FromPayload
<1>3. HostOK' /\ Saved'
  BY <1>1 DEF IInv, HostOK, Saved
<1> QED BY <1>2, <1>3 DEF IInv

\* habort().
LEMMA AbortHolds ==
  ASSUME IInv, UserAbort
  PROVE  IInv'
BY DEF IInv, HostOK, Saved, GuestOK, Stored, Kept, FromPayload, UserAbort, Phases

\* A payload is delivered to the snapshot.
LEMMA DeliverHolds ==
  ASSUME IInv, NEW s \in [guest : Guest, phase : {"ready"}], NEW n \in Nat,
         s.guest.pc = "acquire", Known(s.guest), Zeros(s.guest.file),
         \A t \in snap' : t.guest = s.guest,
         Deliver(n, s.phase, s.guest)
  PROVE  /\ input' \in [id : Nat, size : Nat]
         /\ phase' \in {"ready", "done"}
         /\ GuestOK(guest, phase)'
<1>1. guest' = s.guest /\ phase' \in {"ready", "done"}
  BY DEF Deliver
<1>2. input' \in [id : Nat, size : Nat]
  BY HostAssumption DEF Deliver, IInv, HostOK
<1>3. GuestOK(guest, phase)'
  BY <1>1 DEF GuestOK, Stored, Kept, Placed
<1> QED BY <1>1, <1>2, <1>3

\* A verdict always restores the snapshot.
LEMMA JudgeHolds ==
  ASSUME IInv, NEW g, NEW v \in Verdicts, NEW why \in Reasons, NEW by \in Callers,
         Judge(v, why, by, g)
  PROVE  IInv'
<1> DEFINE e == [id |-> input.id, verdict |-> v, why |-> why, by |-> by]
<1>1. UNCHANGED <<conf, mode, buffer, snap, stray>> /\ log' = Append(log, e)
  BY DEF Judge
<1>2. e \in Entries
  BY DEF IInv, HostOK, Entries
<1> HIDE DEF e
<1>3. log' \in Seq(Entries) /\ Len(log) + 1 \in Nat
  BY <1>1, <1>2 DEF IInv, HostOK
<1>4. PICK s \in snap : Deliver(Len(log) + 1, s.phase, s.guest)
  BY DEF Judge, IInv, HostOK
<1>5. /\ input' \in [id : Nat, size : Nat] /\ phase' \in {"ready", "done"}
      /\ GuestOK(guest, phase)'
  <2>1. snap' = snap /\ s \in [guest : Guest, phase : {"ready"}]
    BY <1>1, <1>4 DEF IInv, Saved
  <2>2. /\ s.guest.pc = "acquire" /\ Known(s.guest) /\ Zeros(s.guest.file)
        /\ \A t \in snap' : t.guest = s.guest
    BY <1>4, <2>1 DEF IInv, Saved
  <2> QED BY <1>3, <1>4, <2>1, <2>2, DeliverHolds
<1>6. Saved'
  BY <1>1 DEF IInv, Saved
<1> QED BY <1>1, <1>3, <1>5, <1>6 DEF IInv, HostOK, Phases

---------------------------------------------------------------------------
\* The harness and the file system under test.

\* write() over a file of zeros leaves what was written, and zeros behind it.
LEMMA WriteHolds ==
  ASSUME IInv, guest.pc = "write", phase \in {"boot", "exec"}, guest.size > FlagsSize,
         NEW n \in 1..guest.size, n = guest.size \/ "short" \in Faults
  PROVE  /\ Written(guest.file, n) \in Seq(Nat)
         /\ phase = "boot" => Zeros(Written(guest.file, n))
         /\ phase = "exec" => FromPayload(Written(guest.file, n))
<1> DEFINE f == Written(guest.file, n)
           m == IF Len(guest.file) > n THEN Len(guest.file) ELSE n
<1>1. /\ guest.file \in Seq(Nat) /\ Zeros(guest.file) /\ guest.size \in Nat
      /\ input.id \in Nat /\ input.size \in Nat
      /\ phase = "exec" => guest.size = input.size
      /\ phase = "boot" => input.id = 0
  BY DEF IInv, HostOK, GuestOK, Stored, Guest
<1>2. m \in Nat /\ f = [i \in 1..m |-> IF i <= n THEN input.id ELSE guest.file[i]]
  BY <1>1 DEF Written, Data
<1>3. \A i \in 1..m : f[i] = IF i <= n THEN input.id ELSE 0
  BY <1>1, <1>2 DEF Zeros
<1> HIDE DEF f, m
<1>4. f \in Seq(Nat) /\ Len(f) = m
  <2>1. \A i \in 1..m : f[i] \in Nat
    BY <1>1, <1>3
  <2>2. f \in [1..m -> Nat]
    BY <1>2, <2>1
  <2> QED BY <1>2, <2>2
<1>5. phase = "boot" => Zeros(f)
  BY <1>1, <1>3, <1>4 DEF Zeros
<1>6. phase = "exec" => FromPayload(f)
  BY <1>1, <1>3, <1>4 DEF FromPayload
<1> QED BY <1>4, <1>5, <1>6 DEF f

\* Before the loop, and the steps of a round that are the harness's own.
LEMMA HarnessHolds ==
  ASSUME IInv, Harness
  PROVE  IInv'
<1>g. guest \in Guest /\ GuestOK(guest, phase)
  BY DEF IInv, GuestOK
<1>p. phase \notin {"done", "aborted"} /\ Placed(guest, phase)
  BY <1>g DEF GuestOK, Harness, OpenLoopControl, AgentInit, DoGetPayload, Attach, WriteFile, SkipPayload,
     SetCapacity, KernelPanic, DoRelease, DoNext, DoAcquire, At, PoweredOn
<1>1. CASE OpenLoopControl
  <2>1. GuestOK(To("agent_init"), phase)
    BY <1>1, <1>g, <1>p DEF OpenLoopControl, At, To, GuestOK, Guest, PCs, Known, Stored, Kept, Placed
  <2> QED BY <1>1, <2>1, ReturnHolds, AbortHolds DEF OpenLoopControl, OrAbort
<1>2. CASE AgentInit
  <2> DEFINE g == To("get_payload")
  <2>1. GuestOK(g, phase)
    BY <1>2, <1>g, <1>p DEF AgentInit, At, To, GuestOK, Guest, PCs, Known, Stored, Kept, Placed
  <2> HIDE DEF g
  <2>2. CASE SetAgentConfig(NonReloadMode, g)
    <3>1. guest' = g /\ mode' = "reload" /\ UNCHANGED <<conf, phase, buffer, snap, input, log, stray>>
      BY <2>2 DEF SetAgentConfig, NonReloadMode
    <3>2. GuestOK(guest, phase)'
      BY <2>1, <3>1 DEF GuestOK, Stored, Kept, FromPayload
    <3> QED BY <3>1, <3>2 DEF IInv, HostOK, Saved
  <2> QED BY <1>2, <2>2, AbortHolds DEF AgentInit, g
<1>3. CASE DoGetPayload
  <2> DEFINE g == To("attach")
  <2>1. GuestOK(g, phase)
    BY <1>3, <1>g, <1>p DEF DoGetPayload, At, To, GuestOK, Guest, PCs, Known, Stored, Kept, Placed
  <2> HIDE DEF g
  <2>2. guest' = g /\ buffer' = "array" /\ UNCHANGED <<conf, phase, mode, snap, input, log, stray>>
    BY <1>3 DEF DoGetPayload, GetPayload, g
  <2>3. GuestOK(guest, phase)'
    BY <2>1, <2>2 DEF GuestOK, Stored, Kept, FromPayload
  <2> QED BY <2>2, <2>3 DEF IInv, HostOK, Saved
<1>4. CASE Attach
  <2>1. GuestOK([To("write") EXCEPT !.size = WarmUpSize], phase)
    BY <1>4, <1>g, <1>p, FsFuzzerAssumption
    DEF Attach, At, To, GuestOK, Guest, PCs, Known, Stored, Kept, Placed
  <2> QED BY <1>4, <2>1, ReturnHolds, AbortHolds DEF Attach, OrAbort
<1>5. CASE WriteFile
  <2>1. CASE OrAbort("write")
    BY <2>1, AbortHolds DEF OrAbort
  <2>2. CASE \E n \in (IF "short" \in Faults THEN 1..guest.size ELSE {guest.size}) :
               Inform([To("capacity") EXCEPT !.file = Written(@, n)])
    <3>1. guest.pc = "write" /\ phase \in {"boot", "exec"} /\ guest.size > FlagsSize
      BY <1>5, <1>p DEF WriteFile, At, Placed
    <3>2. guest.size \in Nat /\ FlagsSize \in Nat
      BY <1>g, FsFuzzerAssumption DEF Guest
    <3>3. PICK n \in 1..guest.size :
            /\ n = guest.size \/ "short" \in Faults
            /\ Inform([guest EXCEPT !.pc = "capacity", !.file = Written(guest.file, n)])
      <4>1. PICK n \in (IF "short" \in Faults THEN 1..guest.size ELSE {guest.size}) :
              Inform([To("capacity") EXCEPT !.file = Written(@, n)])
        BY <2>2
      <4>2. [To("capacity") EXCEPT !.file = Written(@, n)]
              = [guest EXCEPT !.pc = "capacity", !.file = Written(guest.file, n)]
        BY <1>g DEF To, Guest
      <4>3. n \in 1..guest.size /\ (n = guest.size \/ "short" \in Faults)
        BY <3>1, <3>2, <4>1
      <4> QED BY <4>1, <4>2, <4>3
    <3> DEFINE f == Written(guest.file, n)
    <3>4. /\ f \in Seq(Nat) /\ (phase = "boot" => Zeros(f)) /\ (phase = "exec" => FromPayload(f))
      BY <3>1, <3>3, WriteHolds
    <3> HIDE DEF f
    <3>5. GuestOK([guest EXCEPT !.pc = "capacity", !.file = f], phase)
      BY <1>g, <3>1, <3>4 DEF GuestOK, Guest, PCs, Known, Stored, Kept, Placed
    <3> QED BY <3>3, <3>5, ReturnHolds DEF f
  <2> QED BY <1>5, <2>1, <2>2 DEF WriteFile
<1>6. CASE SkipPayload
  <2> DEFINE g == [To("release") EXCEPT !.out = "skipped"]
  <2>1. /\ g \in Guest /\ g.pc = "release" /\ g.out = "skipped" /\ g.file = guest.file
        /\ g.mounts = guest.mounts
    BY <1>g DEF To, Guest, PCs, Outcomes
  <2>2. guest.pc = "write" /\ phase \in {"boot", "exec"}
    BY <1>6, <1>p DEF SkipPayload, At, Placed
  <2> HIDE DEF g
  <2>3. GuestOK(g, phase)
    BY <1>g, <2>1, <2>2 DEF GuestOK, Known, Stored, Kept, Placed, Leftover
  <2> QED BY <1>6, <2>3, ReturnHolds DEF SkipPayload, g
<1>7. CASE SetCapacity
  <2>1. guest.pc = "capacity" /\ Len(guest.file) \in Nat
    BY <1>7, <1>g DEF SetCapacity, At, Guest
  <2>2. GuestOK(To("mount"), phase)
    BY <1>g, <1>p, <2>1 DEF To, GuestOK, Guest, PCs, Known, Stored, Kept, Placed
  <2>3. \A d \in Nat : GuestOK([To("mount") EXCEPT !.device = d], phase)
    <3> SUFFICES ASSUME NEW d \in Nat PROVE GuestOK([To("mount") EXCEPT !.device = d], phase)
      OBVIOUS
    <3> DEFINE g == [To("mount") EXCEPT !.device = d]
    <3>1. /\ g \in Guest /\ g.pc = "mount" /\ g.out = guest.out /\ g.file = guest.file
          /\ g.size = guest.size /\ g.mounts = guest.mounts
      BY <1>g DEF To, Guest, PCs
    <3> HIDE DEF g
    <3>2. GuestOK(g, phase)
      BY <1>g, <1>p, <2>1, <3>1 DEF GuestOK, Known, Stored, Kept, Placed
    <3> QED BY <3>2 DEF g
  <2> QED BY <1>7, <2>1, <2>2, <2>3, ReturnHolds DEF SetCapacity
<1>8. CASE KernelPanic
  <2>1. guest.out \in Reasons /\ "kernel" \in Callers /\ "crash" \in Verdicts
    BY <1>g DEF Guest, Reasons, Callers, Verdicts
  <2> QED BY <1>8, <2>1, JudgeHolds, AbortHolds DEF KernelPanic, Report
<1>9. CASE DoRelease
  <2>1. guest.out \in Reasons /\ "harness" \in Callers /\ "ok" \in Verdicts
    BY <1>g DEF Guest, Reasons, Callers, Verdicts
  <2>2. CASE phase = "exec"
    BY <1>9, <2>1, <2>2, JudgeHolds DEF DoRelease, Release
  <2>3. CASE phase # "exec"
    <3>1. GuestOK(To("next"), phase)
      BY <1>9, <1>g, <1>p, <2>3 DEF DoRelease, At, To, GuestOK, Guest, PCs, Known, Stored, Kept, Placed
    <3> QED BY <1>9, <2>3, <3>1, ReturnHolds DEF DoRelease, Release
  <2> QED BY <2>2, <2>3
<1>10. CASE DoNext
  <2> DEFINE g == [To("acquire") EXCEPT !.out = "running"]
             s == [guest |-> g, phase |-> "ready"]
  <2>1. phase = "boot" /\ guest.pc = "next"
    BY <1>10, <1>p DEF DoNext, At, Placed
  <2>2. /\ g \in Guest /\ g.pc = "acquire" /\ Known(g) /\ Zeros(g.file)
        /\ Leftover(g.mounts)
    BY <1>g, <2>1 DEF To, GuestOK, Guest, PCs, Known, Stored, Kept
  <2>3. /\ snap' = IF snap = {} THEN {s} ELSE snap
        /\ Deliver(Len(log), "ready", g)
        /\ UNCHANGED <<conf, mode, buffer, log, stray>>
    BY <1>10, <2>1 DEF DoNext, NextPayload, Fetch
  <2>4. s \in [guest : Guest, phase : {"ready"}] /\ s.guest = g /\ s.phase = "ready"
    BY <2>2
  <2> HIDE DEF g, s
  <2>5. Len(log) \in Nat
    BY DEF IInv, HostOK
  <2>6. snap' = {s}
    BY <2>1, <2>3 DEF IInv, HostOK
  <2>7. /\ input' \in [id : Nat, size : Nat] /\ phase' \in {"ready", "done"}
        /\ GuestOK(guest, phase)'
    <3>1. \A t \in snap' : t.guest = g
      BY <2>4, <2>6
    <3> QED BY <2>2, <2>3, <2>4, <2>5, <3>1, DeliverHolds
  <2>8. Saved'
    BY <2>2, <2>4, <2>6 DEF Saved
  <2> QED BY <2>3, <2>7, <2>8 DEF IInv, HostOK, Phases
<1>11. CASE DoAcquire
  <2> DEFINE g == [To("write") EXCEPT !.size = input.size]
  <2>1. phase = "ready" /\ guest.pc = "acquire" /\ input.size \in Nat
    BY <1>11, <1>p DEF DoAcquire, At, Placed, IInv, HostOK
  <2>2. GuestOK(g, "exec")
    BY <1>g, <2>1 DEF To, GuestOK, Guest, PCs, Known, Stored, Kept, Placed
  <2>3. phase' = "exec" /\ guest' = g /\ UNCHANGED <<conf, mode, buffer, snap, input, log, stray>>
    BY <1>11, <2>1 DEF DoAcquire, Acquire
  <2> HIDE DEF g
  <2>4. GuestOK(guest, phase)'
    BY <2>2, <2>3 DEF GuestOK, Stored, Kept, FromPayload
  <2> QED BY <2>3, <2>4 DEF IInv, HostOK, Saved, Phases
<1> QED BY <1>1, <1>2, <1>3, <1>4, <1>5, <1>6, <1>7, <1>8, <1>9, <1>10, <1>11 DEF Harness

\* mount() and umount2(), whatever they make of the payload.
LEMMA FileSystemHolds ==
  ASSUME IInv, FileSystem
  PROVE  IInv'
<1>g. guest \in Guest /\ GuestOK(guest, phase)
  BY DEF IInv, GuestOK
<1>p. Placed(guest, phase) /\ phase \in {"boot", "exec"}
  BY <1>g DEF GuestOK, FileSystem, Mount, Unmount, At, PoweredOn, Placed
<1>k. GuestOK([To("kernel") EXCEPT !.out = "crash"], phase)
  <2> DEFINE g == [To("kernel") EXCEPT !.out = "crash"]
  <2>1. /\ g \in Guest /\ g.pc = "kernel" /\ g.out = "crash"
        /\ g.file = guest.file
    BY <1>g DEF To, Guest, PCs, Outcomes
  <2>2. guest.pc \in {"mount", "umount"}
    BY DEF FileSystem, Mount, Unmount, At
  <2>3. phase = "boot" => Zeros(guest.file)
    BY <1>g DEF GuestOK, Stored
  <2> HIDE DEF g
  <2>4. GuestOK(g, phase)
    BY <1>p, <2>1, <2>3 DEF GuestOK, Known, Stored, Kept, Placed
  <2> QED BY <2>4 DEF g
<1>1. CASE Mount
  <2>1. /\ guest.pc = "mount" /\ guest.out = "running" /\ guest.mounts \in Nat
        /\ phase = "boot" => guest.mounts = 0 /\ Zeros(guest.file)
    BY <1>1, <1>g DEF Mount, At, GuestOK, Known, Kept, Stored, Guest
  <2>2. GuestOK([To("umount") EXCEPT !.mounts = @ + 1], phase)
    <3> DEFINE g == [To("umount") EXCEPT !.mounts = @ + 1]
    <3>1. g = [guest EXCEPT !.pc = "umount", !.mounts = guest.mounts + 1]
      BY <1>g DEF To, Guest
    <3>2. guest.mounts + 1 \in Nat /\ guest.mounts + 1 > 0 /\ (phase = "boot" => guest.mounts + 1 = 1)
      BY <2>1
    <3>3. /\ g \in Guest /\ g.pc = "umount" /\ g.out = "running" /\ g.mounts = guest.mounts + 1
          /\ g.file = guest.file
      BY <1>g, <2>1, <3>1, <3>2 DEF Guest, PCs
    <3> HIDE DEF g
    <3>4. GuestOK(g, phase)
      BY <1>p, <2>1, <3>2, <3>3 DEF GuestOK, Known, Stored, Kept, Placed
    <3> QED BY <3>4 DEF g
  <2>3. GuestOK([To("release") EXCEPT !.out = "refused"], phase)
    <3> DEFINE g == [To("release") EXCEPT !.out = "refused"]
    <3>1. /\ g \in Guest /\ g.pc = "release" /\ g.out = "refused" /\ g.mounts = guest.mounts
          /\ g.file = guest.file
      BY <1>g DEF To, Guest, PCs, Outcomes
    <3> HIDE DEF g
    <3>2. GuestOK(g, phase)
      BY <1>p, <2>1, <3>1 DEF GuestOK, Known, Stored, Kept, Placed, Leftover
    <3> QED BY <3>2 DEF g
  <2> QED BY <1>1, <1>k, <2>2, <2>3, ReturnHolds DEF Mount
<1>2. CASE Unmount
  <2>1. /\ guest.pc = "umount" /\ guest.mounts \in Nat /\ guest.mounts > 0
        /\ phase = "boot" => guest.mounts = 1 /\ Zeros(guest.file)
    BY <1>2, <1>g DEF Unmount, At, GuestOK, Known, Kept, Stored, Guest
  <2>2. ASSUME NEW m \in Nat, phase = "boot" => Leftover(m)
        PROVE  GuestOK([guest EXCEPT !.pc = "release", !.out = "mounted", !.mounts = m], phase)
    <3> DEFINE g == [guest EXCEPT !.pc = "release", !.out = "mounted", !.mounts = m]
    <3>1. /\ g \in Guest /\ g.pc = "release" /\ g.out = "mounted" /\ g.mounts = m
          /\ g.file = guest.file
      BY <1>g DEF Guest, PCs, Outcomes
    <3> HIDE DEF g
    <3>2. GuestOK(g, phase)
      BY <1>p, <2>1, <2>2, <3>1 DEF GuestOK, Known, Stored, Kept, Placed
    <3> QED BY <3>2 DEF g
  <2>3. GuestOK([To("release") EXCEPT !.out = "mounted", !.mounts = @ - 1], phase)
    <3>1. [To("release") EXCEPT !.out = "mounted", !.mounts = @ - 1]
            = [guest EXCEPT !.pc = "release", !.out = "mounted", !.mounts = guest.mounts - 1]
      BY <1>g DEF To, Guest
    <3>2. guest.mounts - 1 \in Nat /\ (phase = "boot" => guest.mounts - 1 = 0)
      BY <2>1
    <3>3. phase = "boot" => Leftover(guest.mounts - 1)
      BY <3>2 DEF Leftover
    <3> QED BY <2>2, <3>1, <3>2, <3>3
  <2>4. ASSUME "umount" \in Faults
        PROVE  GuestOK([To("release") EXCEPT !.out = "mounted"], phase)
    <3>1. [To("release") EXCEPT !.out = "mounted"]
            = [guest EXCEPT !.pc = "release", !.out = "mounted", !.mounts = guest.mounts]
      BY <1>g DEF To, Guest
    <3>2. phase = "boot" => Leftover(guest.mounts)
      BY <2>1, <2>4 DEF Leftover
    <3> QED BY <2>1, <2>2, <3>1, <3>2
  <2> QED BY <1>2, <1>k, <2>3, <2>4, ReturnHolds DEF Unmount
<1> QED BY <1>1, <1>2 DEF FileSystem

\* Nothing is mounted and nothing written when the VM starts.
LEMMA InitHolds == Init => IInv
<1> SUFFICES ASSUME Init PROVE IInv
  OBVIOUS
<1>1. GuestOK(guest, phase)
  BY DEF Init, HostInit, HostStarts, GuestOK, Guest, PCs, Outcomes, Known, Stored, Kept, Placed, Zeros
<1>2. HostOK
  <2>1. /\ conf \in HostConfigs /\ phase = "boot" /\ mode = "reload" /\ buffer = "none"
        /\ snap = {} /\ stray = FALSE /\ input = [id |-> 0, size |-> 0] /\ log = <<>>
    BY DEF Init, HostInit, HostStarts
  <2>2. input \in [id : Nat, size : Nat] /\ log \in Seq(Entries) /\ input.id = 0
    BY <2>1
  <2> QED BY <2>1, <2>2 DEF HostOK, Phases
<1>3. Saved
  BY DEF Init, HostInit, HostStarts, Saved
<1> QED BY <1>1, <1>2, <1>3 DEF IInv

\* Every step, of the host as well.
LEMMA NextHolds == IInv /\ [Next]_vars => IInv'
<1> SUFFICES ASSUME IInv, [Next]_vars PROVE IInv'
  OBVIOUS
<1>1. CASE Timeout
  <2>1. guest.out \in Reasons /\ "host" \in Callers /\ "timeout" \in Verdicts
    BY DEF IInv, GuestOK, Guest, Reasons, Callers, Verdicts
  <2> QED BY <1>1, <2>1, JudgeHolds DEF Timeout, HostTimeout
<1>2. CASE UNCHANGED vars
  BY <1>2 DEF vars, IInv, HostOK, Saved, GuestOK, Stored, Kept, FromPayload
<1> QED BY <1>1, <1>2, HarnessHolds, FileSystemHolds DEF Next, Terminated

\* IInv is inductive.
LEMMA Inductive == Spec => []IInv
BY InitHolds, NextHolds, PTL DEF Spec

---------------------------------------------------------------------------
\* The theorems.

\* No step of the harness, the kernel under test or the host leaves the types;
\* among others /tmp/a is never unmounted more often than it was mounted.
THEOREM TypeCorrect == Spec => []TypeOK
<1>1. IInv => TypeOK
  BY DEF IInv, HostOK, Saved, GuestOK, TypeOK, Modes, Entries, Reasons, Callers
<1> QED BY <1>1, Inductive, PTL

\* For any payloads, sizes and faults, umount2() failing in any round: a round of
\* the host's starts from what the first round has left, one file system at most,
\* and from nothing of the rounds in between.
THEOREM RoundsStartAlike == Spec => []StartsAlike
<1>1. IInv => StartsAlike
  BY DEF IInv, Saved, GuestOK, Kept, Leftover, StartsAlike
<1> QED BY <1>1, Inductive, PTL

\* For any sizes, and however short a write() falls, the file that is mounted is
\* a beginning of this payload and zeros.
THEOREM MountsOwnPayload == Spec => []MountDependsOnPayload
<1>1. IInv => MountDependsOnPayload
  BY DEF IInv, GuestOK, Stored, Kept, FromPayload, MountDependsOnPayload
<1> QED BY <1>1, Inductive, PTL

---------------------------------------------------------------------------
\* The steps of the harness are steps of FuzzCampaign.

\* What the campaign sees of the host and of the guest.
Stage == CASE phase = "exec" -> "running"
           [] phase \in {"boot", "idle", "ready"} -> "waiting"
           [] OTHER -> "over"
Outcome == IF phase = "exec" THEN guest.out ELSE "running"
Given == [i \in 1..Len(log) |-> log[i].verdict]

\* The four actions of FuzzCampaign in these terms, or none of them.
Advances ==
  \/ Stage = "waiting" /\ Stage' = "running" /\ Outcome' = "running" /\ Given' = Given
  \/ /\ Stage = "running" /\ Outcome = "running" /\ Outcome' \in Outcomes
     /\ Stage' = Stage /\ Given' = Given
  \/ /\ Stage = "running" /\ Stage' \in {"running", "waiting", "over"}
     /\ Outcome' = "running"
     /\ \E v \in Verdicts : <<v, Outcome>> \in Fitting /\ Given' = Append(Given, v)
  \/ Stage # "over" /\ Stage' = "over" /\ Outcome' = "running" /\ Given' = Given
  \/ Stage' = Stage /\ Outcome' = Outcome /\ Given' = Given

\* They are indeed its actions.
LEMMA CampaignNext ==
  ASSUME Advances
  PROVE  [Campaign!Next]_(Campaign!vars)
BY DEF Campaign!Next, Campaign!Start, Campaign!Decide, Campaign!Verdict, Campaign!Stop,
       Campaign!vars, Advances, Stage, Outcome, Given, Verdicts

\* A call without effect on an execution may follow a decision of the target.
LEMMA ReturnAdvances ==
  ASSUME NEW g, Inform(g) \/ Misplaced(g),
         phase = "exec" => g.out = guest.out \/ (guest.out = "running" /\ g.out \in Outcomes)
  PROVE  Advances
<1>1. guest' = g /\ phase' = phase /\ log' = log
  BY DEF Inform, Misplaced, hostVars
<1> QED BY <1>1 DEF Advances, Stage, Outcome, Given

\* habort() gives the campaign up.
LEMMA AbortAdvances ==
  ASSUME IInv, UserAbort, PoweredOn
  PROVE  Advances
<1>1. phase' = "aborted" /\ log' = log /\ phase \in Phases
  BY DEF UserAbort, IInv, HostOK
<1> QED BY <1>1 DEF Advances, Stage, Outcome, Given, PoweredOn, Phases

\* A verdict is one of the campaign, and the next payload waits in the snapshot.
LEMMA JudgeAdvances ==
  ASSUME IInv, NEW g, NEW v \in Verdicts, NEW by \in Callers, phase = "exec",
         Judge(v, guest.out, by, g), <<v, guest.out>> \in Fitting
  PROVE  Advances
<1> DEFINE e == [id |-> input.id, verdict |-> v, why |-> guest.out, by |-> by]
<1>1. log \in Seq(Entries) /\ log' = Append(log, e) /\ e.verdict = v
  BY DEF IInv, HostOK, Judge
<1> HIDE DEF e
<1>2. Given' = Append(Given, v)
  <2>1. Len(log') = Len(log) + 1 /\ Len(log) \in Nat
    BY <1>1
  <2>2. \A i \in 1..Len(log') :
          log'[i].verdict = IF i = Len(log) + 1 THEN v ELSE log[i].verdict
    BY <1>1
  <2> QED BY <2>1, <2>2 DEF Given
<1>3. phase' \in {"ready", "done"}
  <2>1. PICK s \in snap : Deliver(Len(log) + 1, s.phase, s.guest)
    BY DEF Judge, IInv, HostOK
  <2> QED BY <2>1 DEF Deliver, IInv, Saved
<1>4. /\ Stage = "running" /\ Stage' \in {"waiting", "over"}
      /\ Outcome' = "running" /\ Outcome = guest.out
  BY <1>3 DEF Stage, Outcome
<1> QED BY <1>2, <1>4 DEF Advances

\* Every step.
LEMMA StepAdvances ==
  ASSUME IInv, Next
  PROVE  Advances
<1>g. guest \in Guest /\ Known(guest) /\ (PoweredOn => Placed(guest, phase))
  BY DEF IInv, GuestOK, PoweredOn
<1>v. {"ok", "crash", "timeout"} \subseteq Verdicts
  BY DEF Verdicts
<1>1. CASE OpenLoopControl \/ Attach \/ SetCapacity
  <2>1. PoweredOn
    BY <1>1 DEF OpenLoopControl, Attach, SetCapacity, At
  <2>2. /\ To("agent_init").out = guest.out
        /\ To("mount").out = guest.out
        /\ [To("write") EXCEPT !.size = WarmUpSize].out = guest.out
        /\ [To("mount") EXCEPT !.device = Len(guest.file)].out = guest.out
    BY <1>g DEF To, Guest
  <2>3. CASE OpenLoopControl
    BY <2>1, <2>2, <2>3, ReturnAdvances, AbortAdvances DEF OpenLoopControl, OrAbort
  <2>4. CASE Attach
    BY <2>1, <2>2, <2>4, ReturnAdvances, AbortAdvances DEF Attach, OrAbort
  <2>5. CASE SetCapacity
    BY <2>2, <2>5, ReturnAdvances DEF SetCapacity
  <2> QED BY <1>1, <2>3, <2>4, <2>5
<1>2. CASE AgentInit \/ DoGetPayload
  <2>1. phase # "exec" /\ PoweredOn
    BY <1>2, <1>g DEF AgentInit, DoGetPayload, At, Placed
  <2>2. UserAbort \/ (phase' = phase /\ log' = log)
    BY <1>2 DEF AgentInit, DoGetPayload, SetAgentConfig, GetPayload
  <2>3. phase' = phase /\ log' = log => Advances
    BY <2>1 DEF Advances, Stage, Outcome, Given
  <2> QED BY <2>1, <2>2, <2>3, AbortAdvances
<1>3. CASE WriteFile
  <2>1. PICK f : \/ UserAbort
                 \/ Inform([To("capacity") EXCEPT !.file = f])
    BY <1>3 DEF WriteFile, OrAbort
  <2>2. [To("capacity") EXCEPT !.file = f].out = guest.out /\ PoweredOn
    BY <1>3, <1>g DEF WriteFile, At, To, Guest
  <2> QED BY <2>1, <2>2, ReturnAdvances, AbortAdvances
<1>4. CASE SkipPayload \/ Mount \/ Unmount
  <2>1. guest.out = "running"
    BY <1>4, <1>g DEF SkipPayload, Mount, Unmount, At, Known
  <2>2. /\ [To("release") EXCEPT !.out = "skipped"].out \in Outcomes
        /\ [To("release") EXCEPT !.out = "refused"].out \in Outcomes
        /\ [To("kernel") EXCEPT !.out = "crash"].out \in Outcomes
    BY <1>g DEF To, Guest, Outcomes
  <2>3. [To("umount") EXCEPT !.mounts = @ + 1].out = guest.out
    BY <1>g DEF To, Guest
  <2>4. /\ [To("release") EXCEPT !.out = "mounted", !.mounts = @ - 1].out \in Outcomes
        /\ [To("release") EXCEPT !.out = "mounted"].out \in Outcomes
    BY <1>g DEF To, Guest, Outcomes
  <2>5. CASE SkipPayload
    BY <2>1, <2>2, <2>5, ReturnAdvances DEF SkipPayload
  <2>6. CASE Mount
    BY <2>1, <2>2, <2>3, <2>6, ReturnAdvances DEF Mount
  <2>7. CASE Unmount
    BY <2>1, <2>2, <2>4, <2>7, ReturnAdvances DEF Unmount
  <2> QED BY <1>4, <2>5, <2>6, <2>7
<1>5. CASE KernelPanic
  <2>1. guest.out = "crash" /\ PoweredOn /\ Report("crash", guest.out, "kernel")
    BY <1>5, <1>g DEF KernelPanic, At, Known
  <2>2. <<"crash", guest.out>> \in Fitting /\ "kernel" \in Callers
    BY <2>1 DEF Fitting, Callers
  <2> QED BY <1>v, <2>1, <2>2, JudgeAdvances, AbortAdvances DEF Report
<1>6. CASE DoRelease
  <2>1. guest.out \in {"skipped", "refused", "mounted"} /\ Release(guest.out, "harness", To("next"))
    BY <1>6, <1>g DEF DoRelease, At, Known
  <2>2. <<"ok", guest.out>> \in Fitting /\ "harness" \in Callers /\ "ok" \in Verdicts
    BY <2>1 DEF Fitting, Callers, Verdicts
  <2>3. CASE phase = "exec"
    BY <2>1, <2>2, <2>3, JudgeAdvances DEF Release
  <2>4. CASE phase # "exec"
    BY <2>1, <2>4, ReturnAdvances DEF Release
  <2> QED BY <2>3, <2>4
<1>7. CASE DoNext
  <2>1. phase = "boot"
    BY <1>7, <1>g DEF DoNext, At, Placed
  <2>2. phase' \in {"ready", "done"} /\ log' = log
    BY <1>7, <2>1 DEF DoNext, NextPayload, Fetch, Deliver
  <2> QED BY <2>1, <2>2 DEF Advances, Stage, Outcome, Given
<1>8. CASE DoAcquire
  <2>1. phase = "ready" /\ guest.out = "running"
    BY <1>8, <1>g DEF DoAcquire, At, Placed, Known
  <2>2. [To("write") EXCEPT !.size = input.size].out = "running"
    BY <1>g, <2>1 DEF To, Guest
  <2>3. phase' = "exec" /\ guest'.out = "running" /\ log' = log
    BY <1>8, <2>1, <2>2 DEF DoAcquire, Acquire
  <2> QED BY <2>1, <2>3 DEF Advances, Stage, Outcome, Given
<1>9. CASE Timeout
  <2>1. <<"timeout", guest.out>> \in Fitting /\ "host" \in Callers /\ "timeout" \in Verdicts
    BY <1>g DEF Fitting, Guest, Callers, Verdicts
  <2> QED BY <1>9, <2>1, JudgeAdvances DEF Timeout, HostTimeout
<1>10. CASE Terminated
  BY <1>10 DEF Terminated, vars, Advances, Stage, Outcome, Given
<1> QED BY <1>1, <1>2, <1>3, <1>4, <1>5, <1>6, <1>7, <1>8, <1>9, <1>10
  DEF Next, Harness, FileSystem

\* The safety part of ImplementsCampaign: every step of the harness, also of its
\* first round, is one of FuzzCampaign or leaves it where it is.
THEOREM StepsAreOfCampaign ==
  Spec => Campaign!Init /\ [][Campaign!Next]_(Campaign!vars)
<1>1. Init => Campaign!Init
  <2> SUFFICES ASSUME Init PROVE Campaign!Init
    OBVIOUS
  <2>1. phase = "boot" /\ Len(log) = 0
    BY DEF Init, HostInit, HostStarts
  <2>2. [i \in 1..Len(log) |-> log[i].verdict] = <<>>
    BY <2>1
  <2> QED BY <2>1, <2>2 DEF Campaign!Init
<1>2. IInv /\ [Next]_vars => [Campaign!Next]_(Campaign!vars)
  <2> SUFFICES ASSUME IInv, [Next]_vars PROVE [Campaign!Next]_(Campaign!vars)
    OBVIOUS
  <2>1. Advances
    <3>1. CASE UNCHANGED vars
      BY <3>1 DEF vars, Advances, Stage, Outcome, Given
    <3> QED BY <3>1, StepAdvances
  <2> QED BY <2>1, CampaignNext
<1> QED BY <1>1, <1>2, Inductive, PTL DEF Spec

---------------------------------------------------------------------------
\* Where the steps lead.

\* Those that the host only lets go on, or that give up.
LEMMA Moves ==
  ASSUME guest \in Guest
  PROVE  /\ OpenLoopControl => \/ UserAbort
                               \/ guest.pc = "open_ctl" /\ guest'.pc = "agent_init" /\ phase' = phase
         /\ AgentInit => \/ UserAbort
                         \/ guest.pc = "agent_init" /\ guest'.pc = "get_payload" /\ phase' = phase
         /\ DoGetPayload => guest.pc = "get_payload" /\ guest'.pc = "attach" /\ phase' = phase
         /\ Attach => \/ UserAbort
                      \/ guest.pc = "attach" /\ guest'.pc = "write" /\ phase' = phase
         /\ WriteFile => \/ UserAbort
                         \/ guest.pc = "write" /\ guest'.pc = "capacity" /\ phase' = phase
         /\ SkipPayload => guest.pc = "write" /\ guest'.pc = "release" /\ phase' = phase
         /\ SetCapacity => guest.pc = "capacity" /\ guest'.pc = "mount" /\ phase' = phase
         /\ Mount => /\ guest.pc = "mount" /\ phase' = phase
                     /\ guest'.pc \in {"umount", "release", "kernel"}
         /\ Unmount => /\ guest.pc = "umount" /\ phase' = phase
                       /\ guest'.pc \in {"release", "kernel"}
         /\ DoRelease => \/ Judge("ok", guest.out, "harness", To("next"))
                         \/ guest.pc = "release" /\ guest'.pc = "next" /\ phase' = phase
         /\ DoNext => guest.pc = "next" /\ guest'.pc = "acquire"
         /\ DoAcquire => guest.pc = "acquire" /\ guest'.pc = "write"
<1>1. \A x \in PCs : To(x) \in Guest /\ To(x).pc = x
  BY DEF To, Guest
<1>2. /\ To("agent_init").pc = "agent_init" /\ To("get_payload").pc = "get_payload"
      /\ To("attach").pc = "attach" /\ To("mount").pc = "mount" /\ To("next").pc = "next"
  BY <1>1 DEF PCs
<1>3. ASSUME guest' = [To("write") EXCEPT !.size = WarmUpSize] PROVE guest'.pc = "write"
  BY <1>3 DEF To, Guest
<1>4. ASSUME WriteFile PROVE UserAbort \/ guest'.pc = "capacity"
  <2>1. ASSUME NEW n, guest' = [To("capacity") EXCEPT !.file = Written(@, n)]
        PROVE  guest'.pc = "capacity"
    BY <2>1 DEF To, Guest
  <2> QED BY <1>4, <2>1 DEF WriteFile, Inform, OrAbort
<1>5. ASSUME SkipPayload PROVE guest'.pc = "release"
  <2>1. guest' = [To("release") EXCEPT !.out = "skipped"]
    BY <1>5 DEF SkipPayload, Inform
  <2> QED BY <2>1 DEF To, Guest
<1>6. ASSUME SetCapacity PROVE guest'.pc = "mount"
  <2>1. \/ guest' = [To("mount") EXCEPT !.device = Len(guest.file)]
        \/ guest' = To("mount")
    BY <1>6 DEF SetCapacity, Inform
  <2> QED BY <2>1 DEF To, Guest
<1>7. ASSUME Mount PROVE guest'.pc \in {"umount", "release", "kernel"}
  <2>1. \/ guest' = [To("umount") EXCEPT !.mounts = @ + 1]
        \/ guest' = [To("release") EXCEPT !.out = "refused"]
        \/ guest' = [To("kernel") EXCEPT !.out = "crash"]
    BY <1>7 DEF Mount, Inform
  <2>2. guest' = [To("umount") EXCEPT !.mounts = @ + 1] => guest'.pc = "umount"
    BY DEF To, Guest
  <2>3. guest' = [To("release") EXCEPT !.out = "refused"] => guest'.pc = "release"
    BY DEF To, Guest
  <2>4. guest' = [To("kernel") EXCEPT !.out = "crash"] => guest'.pc = "kernel"
    BY DEF To, Guest
  <2> QED BY <2>1, <2>2, <2>3, <2>4
<1>8. ASSUME Unmount PROVE guest'.pc \in {"release", "kernel"}
  <2>1. \/ guest' = [To("release") EXCEPT !.out = "mounted", !.mounts = @ - 1]
        \/ guest' = [To("release") EXCEPT !.out = "mounted"]
        \/ guest' = [To("kernel") EXCEPT !.out = "crash"]
    BY <1>8 DEF Unmount, Inform
  <2>2. /\ [To("release") EXCEPT !.out = "mounted", !.mounts = @ - 1].pc = "release"
        /\ [To("release") EXCEPT !.out = "mounted"].pc = "release"
    BY DEF To, Guest
  <2>3. guest' = [To("kernel") EXCEPT !.out = "crash"] => guest'.pc = "kernel"
    BY DEF To, Guest
  <2> QED BY <2>1, <2>2, <2>3
<1>9. ASSUME DoNext PROVE guest'.pc = "acquire"
  <2>1. guest' = [To("acquire") EXCEPT !.out = "running"]
    BY <1>9 DEF DoNext, NextPayload, Fetch, Deliver, Misplaced
  <2> QED BY <2>1 DEF To, Guest
<1>10. ASSUME DoAcquire PROVE guest'.pc = "write"
  <2>1. guest' = [To("write") EXCEPT !.size = input.size]
    BY <1>10 DEF DoAcquire, Acquire, Inform, Misplaced
  <2> QED BY <2>1 DEF To, Guest
<1>11. OpenLoopControl => \/ UserAbort
                          \/ guest.pc = "open_ctl" /\ guest'.pc = "agent_init" /\ phase' = phase
  BY <1>2 DEF OpenLoopControl, OrAbort, At, Inform, hostVars
<1>12. AgentInit => \/ UserAbort
                    \/ guest.pc = "agent_init" /\ guest'.pc = "get_payload" /\ phase' = phase
  BY <1>2 DEF AgentInit, At, SetAgentConfig
<1>13. DoGetPayload => guest.pc = "get_payload" /\ guest'.pc = "attach" /\ phase' = phase
  BY <1>2 DEF DoGetPayload, At, GetPayload
<1>14. Attach => \/ UserAbort
                 \/ guest.pc = "attach" /\ guest'.pc = "write" /\ phase' = phase
  BY <1>3 DEF Attach, OrAbort, At, Inform, hostVars
<1>15. /\ WriteFile => UserAbort \/ phase' = phase
       /\ SkipPayload \/ SetCapacity \/ Mount \/ Unmount => phase' = phase
  BY DEF WriteFile, SkipPayload, SetCapacity, Mount, Unmount, OrAbort, Inform, hostVars
<1>16. /\ WriteFile \/ SkipPayload => guest.pc = "write"
       /\ SetCapacity => guest.pc = "capacity"
       /\ Mount => guest.pc = "mount"
       /\ Unmount => guest.pc = "umount"
       /\ DoRelease => guest.pc = "release"
       /\ DoNext => guest.pc = "next"
       /\ DoAcquire => guest.pc = "acquire"
  BY DEF WriteFile, SkipPayload, SetCapacity, Mount, Unmount, DoRelease, DoNext, DoAcquire, At
<1>17. DoRelease => \/ Judge("ok", guest.out, "harness", To("next"))
                    \/ guest.pc = "release" /\ guest'.pc = "next" /\ phase' = phase
  BY <1>2 DEF DoRelease, At, Release, Inform, Misplaced, hostVars
<1> QED BY <1>4, <1>5, <1>6, <1>7, <1>8, <1>9, <1>10, <1>11, <1>12, <1>13, <1>14, <1>15, <1>16, <1>17

---------------------------------------------------------------------------
\* Where the disagreement about LOOP_SET_CAPACITY ends.

\* Only SetCapacity comes to the mount, so that the device shows the file that
\* was written last, unless the call has failed.
LEMMA CapacityHolds ==
  ASSUME "capacity" \notin Faults, IInv, MountSeesWholeFile, [Next]_vars
  PROVE  MountSeesWholeFile'
<1>g. guest \in Guest
  BY DEF IInv, GuestOK
<1>1. CASE guest'.pc = "mount"
  <2>1. CASE SetCapacity
    <3>1. guest' = [To("mount") EXCEPT !.device = Len(guest.file)]
      BY <2>1 DEF SetCapacity, Inform
    <3>2. guest'.device = Len(guest'.file)
      BY <1>g, <3>1 DEF To, Guest
    <3> QED BY <3>2 DEF MountSeesWholeFile
  <2>2. CASE UserAbort \/ UNCHANGED guest
    BY <2>2, <1>1 DEF UserAbort, MountSeesWholeFile
  <2>3. CASE \E s \in snap : guest' = s.guest
    BY <2>3, <1>1 DEF IInv, Saved
  <2>4. \A v, why, by, g : Judge(v, why, by, g) => \E s \in snap : guest' = s.guest
    BY DEF Judge, Deliver, IInv, HostOK
  <2>5. CASE KernelPanic \/ Timeout
    BY <2>2, <2>3, <2>4, <2>5 DEF KernelPanic, Timeout, Report, HostTimeout
  <2>6. CASE Harness /\ ~ SetCapacity /\ ~ KernelPanic
    BY <1>g, <1>1, <2>2, <2>3, <2>4, <2>6, Moves DEF Harness
  <2>7. CASE FileSystem
    BY <1>g, <1>1, <2>7, Moves DEF FileSystem
  <2>8. CASE Terminated \/ UNCHANGED vars
    BY <2>2, <2>8 DEF Terminated, vars
  <2> QED BY <2>1, <2>5, <2>6, <2>7, <2>8 DEF Next
<1>2. CASE guest'.pc # "mount"
  BY <1>2 DEF MountSeesWholeFile
<1> QED BY <1>1, <1>2

\* The CHECK_ERRNO behind LOOP_SET_CAPACITY is all that is missing: as long as the
\* call does not fail, every mount, also that of the first round, sees the file as
\* it is.
THEOREM OnlyCapacityMisleads ==
  ASSUME "capacity" \notin Faults
  PROVE  Spec => []MountSeesWholeFile
<1>1. Init => MountSeesWholeFile
  BY DEF Init, MountSeesWholeFile
<1>2. IInv /\ MountSeesWholeFile /\ [Next]_vars => MountSeesWholeFile'
  BY CapacityHolds
<1> QED BY <1>1, <1>2, Inductive, PTL DEF Spec

---------------------------------------------------------------------------
\* Progress.  That the harness comes to a verdict needs fairness and is left to
\* TLC; how far it is at most, and that the host waits with it, does not.

\* The steps of a round, counted from its end, and those before the first one.
Place(pc) ==
  CASE pc = "open_ctl" -> 11
    [] pc = "agent_init" -> 10
    [] pc = "get_payload" -> 9
    [] pc = "attach" -> 8
    [] pc = "acquire" -> 7
    [] pc = "write" -> 6
    [] pc = "capacity" -> 5
    [] pc = "mount" -> 4
    [] pc = "umount" -> 3
    [] pc \in {"kernel", "release"} -> 2
    [] OTHER -> 1

\* The first round comes before one of the host's.
Rank(g, p) == Place(g.pc) + (IF p = "boot" THEN 10 ELSE 0)

\* Every step of the harness, the kernel or the host gives a verdict, switches the
\* VM off, or brings the harness closer to one of these, the first round included:
\* nothing in it is done twice for a payload.
BoundedRounds ==
  [][\/ Len(log') > Len(log)
     \/ ~ PoweredOn'
     \/ Rank(guest', phase') < Rank(guest, phase)]_vars

\* From power-on there are at most twenty-one steps to the first verdict, and for
\* each payload seven.
LEMMA RankBounded ==
  /\ \A g, p : Rank(g, p) \in 1..21
  /\ \A g : g.pc = "acquire" => Rank(g, "ready") = 7
BY DEF Rank, Place

\* A verdict is one more in the log.
LEMMA JudgeCloser ==
  ASSUME IInv, NEW v, NEW why, NEW by, NEW g, Judge(v, why, by, g)
  PROVE  Len(log') > Len(log)
<1> DEFINE e == [id |-> input.id, verdict |-> v, why |-> why, by |-> by]
<1>1. log' = Append(log, e) /\ log \in Seq(Entries)
  BY DEF Judge, IInv, HostOK
<1> HIDE DEF e
<1> QED BY <1>1

\* What a step does to the way that is left.
Closer ==
  \/ Len(log') > Len(log)
  \/ ~ PoweredOn'
  \/ Rank(guest', phase') < Rank(guest, phase)

\* Every step but a stutter.
LEMMA StepCloser ==
  ASSUME IInv, Next
  PROVE  Closer
<1>g. guest \in Guest /\ (PoweredOn => Placed(guest, phase))
  BY DEF IInv, GuestOK, PoweredOn
<1>a. UserAbort => Closer
  BY DEF UserAbort, PoweredOn, Closer
<1>j. \A v, why, by, g : Judge(v, why, by, g) => Closer
  BY JudgeCloser DEF Closer
<1>s. \A x, y : Place(x) < Place(y) /\ guest.pc = y /\ guest'.pc = x /\ phase' = phase => Closer
  <2>1. \A x : Place(x) \in 1..11
    BY DEF Place
  <2> QED BY <2>1 DEF Rank, Closer
<1>p. /\ Place("agent_init") < Place("open_ctl") /\ Place("get_payload") < Place("agent_init")
      /\ Place("attach") < Place("get_payload") /\ Place("write") < Place("attach")
      /\ Place("write") < Place("acquire") /\ Place("capacity") < Place("write")
      /\ Place("mount") < Place("capacity") /\ Place("umount") < Place("mount")
      /\ Place("kernel") < Place("umount") /\ Place("release") < Place("umount")
      /\ Place("kernel") < Place("mount") /\ Place("release") < Place("mount")
      /\ Place("release") < Place("write") /\ Place("next") < Place("release")
  BY DEF Place
<1>1. CASE OpenLoopControl \/ AgentInit \/ DoGetPayload \/ Attach
  BY <1>1, <1>g, <1>a, <1>s, <1>p, Moves
<1>2. CASE WriteFile \/ SkipPayload
  BY <1>2, <1>g, <1>a, <1>s, <1>p, Moves
<1>3. CASE SetCapacity
  BY <1>3, <1>g, <1>s, <1>p, Moves
<1>4. CASE FileSystem
  BY <1>4, <1>g, <1>s, <1>p, Moves DEF FileSystem
<1>5. CASE KernelPanic \/ Timeout
  BY <1>5, <1>a, <1>j DEF KernelPanic, Timeout, Report, HostTimeout
<1>6. CASE DoRelease
  BY <1>6, <1>g, <1>j, <1>s, <1>p, Moves
<1>7. CASE DoNext
  <2>1. guest.pc = "next" /\ phase = "boot"
    BY <1>7, <1>g DEF DoNext, At, Placed
  <2>2. guest'.pc = "acquire" /\ phase' \in {"ready", "done"}
    BY <1>7, <1>g, <2>1, Moves DEF DoNext, NextPayload, Fetch, Deliver
  <2>3. phase' = "ready" => Rank(guest', phase') = 7 /\ Rank(guest, phase) = 11
    BY <2>1, <2>2 DEF Rank, Place
  <2> QED BY <2>2, <2>3 DEF Closer, PoweredOn
<1>8. CASE DoAcquire
  <2>1. guest.pc = "acquire" /\ phase = "ready"
    BY <1>8, <1>g DEF DoAcquire, At, Placed
  <2>2. guest'.pc = "write" /\ phase' = "exec"
    BY <1>8, <1>g, <2>1, Moves DEF DoAcquire, Acquire
  <2>3. Rank(guest', phase') = 6 /\ Rank(guest, phase) = 7
    BY <2>1, <2>2 DEF Rank, Place
  <2> QED BY <2>3 DEF Closer
<1>9. CASE Terminated
  BY <1>9 DEF Terminated, vars, PoweredOn, Closer
<1> QED BY <1>1, <1>2, <1>3, <1>4, <1>5, <1>6, <1>7, <1>8, <1>9 DEF Next, Harness

\* For any sizes and faults, a verdict or the end is at most twenty-one steps away.
THEOREM RoundsAreBounded == Spec => BoundedRounds
<1>1. IInv /\ [Next]_vars =>
        [\/ Len(log') > Len(log)
         \/ ~ PoweredOn'
         \/ Rank(guest', phase') < Rank(guest, phase)]_vars
  BY StepCloser DEF Closer
<1> QED BY <1>1, Inductive, PTL DEF Spec, BoundedRounds

============================================================================
