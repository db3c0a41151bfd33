----------------------------- MODULE FsFuzzer -----------------------------
(***************************************************************************)
(* linux-user/fs_fuzzer/src/fs_fuzzer.c: the payload is written to a file  *)
(* behind a loop device, which the kernel is asked to mount.  A first      *)
(* round, with a made-up payload, runs before the fuzzer gives any: it     *)
(* ends where the loop asks for the first payload and takes the snapshot.  *)
(* The harness is one process; what it leaves behind for later rounds is   *)
(* in the kernel: the backing file, the size of the device and the mounts. *)
(***************************************************************************)
EXTENDS NyxHost

CONSTANTS
  PayloadMax,  \* PAYLOAD_MAX_SIZE, in blocks
  FlagsSize,   \* sizeof(mountflags), in blocks
  WarmUpSize,  \* the size of the made-up payload, in blocks
  Faults       \* the calls that may fail

ASSUME FsFuzzerAssumption ==
  /\ PayloadMax \in Nat /\ FlagsSize \in Nat /\ WarmUpSize \in Nat
  /\ FlagsSize < WarmUpSize
  /\ Faults \subseteq {"open", "write", "short", "capacity", "umount"}

vars == <<guest, conf, phase, mode, buffer, snap, input, log, stray>>

PCs == {"open_ctl", "agent_init", "get_payload", "attach", "write", "capacity",
        "mount", "kernel", "umount", "release", "next", "acquire"}

\* What a round made of its payload; "running" until it is known.
Outcomes == {"skipped", "refused", "mounted", "crash"}

\* size: pbuf->size.  file, device: what the backing file holds, and how much
\* of it the loop device shows.  mounts: how many file systems lie on /tmp/a.
Init ==
  /\ guest = [pc |-> "open_ctl", out |-> "running", size |-> 0,
              file |-> <<>>, device |-> 0, mounts |-> 0]
  /\ HostInit

At(p)    == PoweredOn /\ guest.pc = p
To(p)    == [guest EXCEPT !.pc = p]
OrAbort(fault) == fault \in Faults /\ UserAbort  \* CHECK_ERRNO

---------------------------------------------------------------------------
\* Before the loop.

\* The payload buffer, /dev/loop-control and LOOP_CTL_GET_FREE.
OpenLoopControl ==
  /\ At("open_ctl")
  /\ Inform(To("agent_init")) \/ OrAbort("open")

ConfigAccepted == conf.magic /\ conf.version /\ conf.size <= PayloadMax

\* agent_non_reload_mode.  Variant: persistent mode is allowed.
NonReloadMode_Set == TRUE
NonReloadMode == FALSE

\* agent_init(); its handshake finds the host in phase "boot".
AgentInit ==
  /\ At("agent_init")
  /\ IF ConfigAccepted THEN SetAgentConfig(NonReloadMode, To("get_payload")) ELSE UserAbort

DoGetPayload == At("get_payload") /\ GetPayload("array", To("attach"))

\* The loop device, the backing file, which did not exist, and LOOP_SET_FD;
\* then the made-up size.
Attach ==
  /\ At("attach")
  /\ \/ Inform([To("write") EXCEPT !.size = WarmUpSize])
     \/ OrAbort("open")

---------------------------------------------------------------------------
\* A round.

\* The blocks the buffer holds: those of the payload; zeros in the first round.
Data == [i \in 1..guest.size |-> input.id]

\* lseek(0) and write(), which does not shorten the file; a short write is
\* reported, nothing more.
Written(old, n) ==
  [i \in 1..(IF Len(old) > n THEN Len(old) ELSE n) |->
     IF i <= n THEN Data[i] ELSE old[i]]

WriteFile ==
  /\ At("write") /\ guest.size > FlagsSize
  /\ \/ \E n \in (IF "short" \in Faults THEN 1..guest.size ELSE {guest.size}) :
          Inform([To("capacity") EXCEPT !.file = Written(@, n)])
     \/ OrAbort("write")

\* A payload that is too short is not used at all.
SkipPayload ==
  /\ At("write") /\ guest.size <= FlagsSize
  /\ Inform([To("release") EXCEPT !.out = "skipped"])

\* LOOP_SET_CAPACITY, whose result is not looked at: CHECK_ERRNO tests what
\* write() has returned once more.
SetCapacity ==
  /\ At("capacity")
  /\ \/ Inform([To("mount") EXCEPT !.device = Len(guest.file)])
     \/ "capacity" \in Faults /\ Inform(To("mount"))

\* mount() succeeds, is refused, or ends in the kernel.
\* Variants: a mount that was refused is unmounted; a kernel without oops=panic.
Mount_AlwaysUnmounts ==
  /\ At("mount")
  /\ \/ Inform([To("umount") EXCEPT !.mounts = @ + 1])
     \/ Inform(To("umount"))
Mount_OopsGoesOn ==
  /\ At("mount")
  /\ \E o \in {"refused", "crash"} : Inform([To("release") EXCEPT !.out = o])
Mount ==
  /\ At("mount")
  /\ \/ Inform([To("umount") EXCEPT !.mounts = @ + 1])
     \/ Inform([To("release") EXCEPT !.out = "refused"])
     \/ Inform([To("kernel") EXCEPT !.out = "crash"])

\* umount2(MNT_FORCE), whose result is not looked at: a file system it cannot
\* unmount stays.  mkdir() and stat() before it, and itself, may end in the kernel.
Unmount ==
  /\ At("umount")
  /\ \/ Inform([To("release") EXCEPT !.out = "mounted", !.mounts = @ - 1])
     \/ "umount" \in Faults /\ Inform([To("release") EXCEPT !.out = "mounted"])
     \/ Inform([To("kernel") EXCEPT !.out = "crash"])

\* The kernel that is fuzzed reports its own panic.
KernelPanic == At("kernel") /\ Report("crash", guest.out, "kernel")

DoRelease == At("release") /\ Release(guest.out, "harness", To("next"))

\* NEXT_PAYLOAD: pbuf->size is now the host's.
DoNext == At("next") /\ NextPayload([To("acquire") EXCEPT !.out = "running"])

DoAcquire == At("acquire") /\ Acquire([To("write") EXCEPT !.size = input.size])

Timeout == HostTimeout(guest.out)

Terminated == ~ PoweredOn /\ UNCHANGED vars

Harness == OpenLoopControl \/ AgentInit \/ DoGetPayload \/ Attach \/ WriteFile
             \/ SkipPayload \/ SetCapacity \/ KernelPanic \/ DoRelease \/ DoNext \/ DoAcquire
FileSystem == Mount \/ Unmount

Next == Harness \/ FileSystem \/ Timeout \/ Terminated

\* The harness runs on; the file system under test may hang in a payload of the
\* host, which then calls time, but not in the first round.
Fairness == /\ WF_vars(Harness)
            /\ WF_vars(Timeout)
            /\ WF_vars(FileSystem /\ phase = "boot")

Spec == Init /\ [][Next]_vars /\ Fairness

---------------------------------------------------------------------------
\* Properties.

Guest == [pc : PCs, out : Outcomes \union {"running"}, size : Nat,
          file : Seq(Nat), device : Nat, mounts : Nat]

\* Every field and variable has a value the program can give it; among others
\* /tmp/a is never unmounted more often than mounted.
TypeOK ==
  /\ guest \in Guest
  /\ conf \in HostConfigs /\ phase \in Phases /\ mode \in Modes /\ stray \in BOOLEAN
  /\ buffer \in {"none", "array"}
  /\ snap \subseteq [guest : Guest, phase : {"ready"}]
  /\ input \in [id : Nat, size : Nat]
  /\ log \in Seq([id : Nat, verdict : Verdicts, why : Outcomes \union {"running"},
                  by : {"harness", "kernel", "host"}])

Fitting == ({"ok"} \X {"skipped", "refused", "mounted"})
             \union {<<"crash", "crash">>}
             \union ({"timeout"} \X (Outcomes \union {"running"}))

\* What is mounted for a payload depends on nothing that came before it but the
\* first round: no earlier payload, longer or shorter, shows through the file,
\* which is never truncated, because the snapshot is restored in between.
MountDependsOnPayload ==
  phase = "exec" /\ guest.pc = "mount" =>
    \E n \in 1..input.size :
      /\ n = input.size \/ "short" \in Faults
      /\ \A i \in 1..Len(guest.file) : guest.file[i] = IF i <= n THEN input.id ELSE 0

\* A file system that umount2() has failed to unmount (fs_fuzzer.c:192) does not
\* pile up: what a round of the host has left mounted, or in the file or the size
\* of the device, is gone in the next one.  Only the first round lasts, one file
\* system of it at most, and if so below every payload alike.
StartsAlike ==
  \A s \in snap :
    /\ s.guest.mounts = 0 \/ (s.guest.mounts = 1 /\ "umount" \in Faults)
    /\ phase = "exec" /\ guest.pc \in {"write", "capacity", "mount"} =>
         guest.mounts = s.guest.mounts
    /\ phase = "exec" /\ guest.pc = "write" =>
         guest.file = s.guest.file /\ guest.device = s.guest.device

\* CHECK_ERRNO after LOOP_SET_CAPACITY (fs_fuzzer.c:180): the agent mounts only
\* a device that shows the file as it is.
MountSeesWholeFile == guest.pc = "mount" => guest.device = Len(guest.file)

\* The harness keeps the promise of FuzzCampaign, although its first round has
\* no payload of the host.
Campaign == INSTANCE FuzzCampaign WITH
  stage    <- CASE phase = "exec" -> "running"
                [] phase \in {"boot", "idle", "ready"} -> "waiting"
                [] OTHER -> "over",
  outcome  <- IF phase = "exec" THEN guest.out ELSE "running",
  verdicts <- [i \in 1..Len(log) |-> log[i].verdict]

ImplementsCampaign == Campaign!Spec

============================================================================
