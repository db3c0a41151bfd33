# Models of kafl.targets

TLA+ models, model-checking runs and proofs for the agents, harnesses and guest
tools of kafl.targets. Paths are those of the repository (`src/` is its root).

The targets themselves are code to be fuzzed and are full of planted faults.
What has to be right is the code around them: an agent that mistakes a crash for
a regular end, releases an execution twice, feeds a payload with the rest of an
earlier one, or sits between two executions without asking for the next, spoils
a fuzzing campaign without anybody noticing. That code is the subject here.

## The system

A fuzzer on the host runs a guest in QEMU-Nyx. An *agent* inside the guest talks
to it by hypercalls (`nyx_api.h`): it shakes hands (ACQUIRE, RELEASE), reads
`host_config`, answers with `agent_config`, registers a payload buffer
(GET_PAYLOAD), and then executes payloads. An execution starts with NEXT_PAYLOAD
and ACQUIRE, or with USER_FAST_ACQUIRE, which is both, and ends with RELEASE, PANIC,
KASAN or the host's timeout. Asked for the first payload, the host saves the
guest as a snapshot. In *reload* mode every end of an execution restores the
snapshot, so RELEASE never returns. In *persistent* mode, which the agent has to
offer (`agent_non_reload_mode`), RELEASE returns and only a failure restores it.

### Inventory

| Part | Source | State | Operations | What makes it correct | Status |
|---|---|---|---|---|---|
| Hypercalls and host | `nyx_api.h`; the host is external | phase, mode, snapshot, payload, verdicts | the calls the agents use | external: what the agents rely on | partly, `NyxHost` |
| Promise of an agent | all agents | stage, outcome, verdicts | start, decide, judge, stop | one fitting verdict per execution, each execution judged | `FuzzCampaign` |
| Forkserver | `linux-user/forkserver` | parent, child, wait status, payload file or pipe, exit handler | setup, handshake, ranges, fork, acquire, feed, exit handler, waitpid, report, release | verdicts fit; no second release; the payload and nothing else is fed, through the file as a whole; every payload is judged | `ForkServer` |
| fs_fuzzer | `linux-user/fs_fuzzer` | backing file, loop device, mounts | attach, write, set capacity, mount, unmount, loop | a mount depends on its payload alone; the first round is not judged | `FsFuzzer` |
| Zephyr agent | `zephyr_x86_32/src/main.c` | buffer | init, run, fault handler | calls alternate in both modes | `AgentLoop` |
| UEFI agents | `uefi_ovmf_64/kAFLAgentPkg`, `kAFLDxeHarnessPkg` | buffer | init, run | the same | partly, `AgentLoop` |
| Windows agents | `windows_x86_64/src/driver/vuln_test.c`, `userspace/selffuzz_test.c` | buffer, device, ranges | handshake, panic handlers, ranges, one execution | no payload is left without a verdict; the range is the driver's | partly, `AgentLoop`, `TestDriver` |
| Legacy Windows agents | `windows_x86_64/src/userspace/gdiplus.cpp`, `gdiplus_loadfont.cpp` | buffer, payload file, exception handler | setup, write file, one execution, loop | as the other agents; GDI+ reads the payload | `AgentLoop`, `PayloadFile` |
| macOS agents and driver | `macOS_x86_64/loader`, `fuzzer`, `vuln_driver` | program, child, device | load, fork, execute, reap, loop; load and unload the driver | as the forkserver; as the Windows driver | partly, `AgentLoop`, `TestDriver` |
| Windows test driver | `windows_x86_64/src/kafl_vulnerable_driver` | device, symbolic link | load, open, ioctl, unload | the name of a loaded driver leads to it; loading over and over does no harm | `TestDriver` |
| IP ranges | `linux-user/vmcall` (hrange), `forkserver.c` (detectranges), `libnyx_agent` | arguments, number of mappings found | round, refuse, submit | the fewest pages that cover the range; none turned round | `Ranges` |
| File transfer | `linux-user/libnyx_agent`, `linux-user/vmcall` (hget, hpush, hcat) | offsets, scratch and print buffers, the host's position | chunk loops | nothing lost, repeated or reordered | partly, `FileTransfer` |
| vmcall check, habort, hpanic, hlock | `linux-user/vmcall`, `libnyx_agent` | CPU type | dispatch, one hypercall each | what a script concludes from their exit status | `BootChain` |
| Boot chain | `linux-user/initrd_template`, the `agent.sh` of each example | agent.sh, fetched files, kernel module | init, loader.sh, each command of agent.sh | the VM never sits idle after a failure | partly, `BootChain` |
| Targets, build, configuration | `target_*.c`, `Test*.c`, scripts, `linux-kernel` | | | | out of scope |

How they interact: an agent and the host by hypercalls; the forkserver and its
child by fork(), waitpid(), an inherited exit handler and LD_PRELOAD; agent.sh
and the tools by exit statuses and files; rounds of fs_fuzzer through what the
kernel keeps. Everything in the guest shares one fate, as the host replaces the
whole of it when it restores the snapshot.

What is hard: the processes of the guest run interleaved, and any of them may end
an execution; the host may end it at any moment; RELEASE returns in one mode and
not in the other, so one piece of code has two control flows; state survives an
execution in persistent mode and what happened before the snapshot survives
always; calls fail in the middle of a setup whose rest goes on. `PROJECT.json`
lists these hazards at their lines.

## Modules

    FuzzCampaign          abstract: what an agent promises
    NyxHost               the hypercalls, operators that say what the host does
    PayloadFile           the file in which a payload gets to a target
      ForkServer          EXTENDS NyxHost, PayloadFile; implements FuzzCampaign
        ForkServer_proofs
          ForkServerHelpers_proofs
      AgentLoop           EXTENDS NyxHost, PayloadFile; implements FuzzCampaign
        AgentLoop_proofs
      FsFuzzer            EXTENDS NyxHost; implements FuzzCampaign
        FsFuzzer_proofs
    BootChain             init, loader.sh and agent.sh, up to a harness
      BootChain_proofs
    TestDriver            the test drivers and how their harnesses find them
      TestDriver_proofs
    Ranges                vmcall hrange and detectranges()
      Ranges_proofs
    FileTransfer          hget, hpush, hcat
      FileTransfer_proofs
    MC*                   constants for TLC

**NyxHost.** All state of the guest is one variable, `guest`, so that restoring a
snapshot is one assignment. A hypercall is an operator with the guest state the
caller goes on in, if it does go on: `Release(why, by, g)` continues with `g`
in persistent mode and with the snapshot in reload mode. `log` keeps one record
per judged execution with what the target had done (`why`) and who called (`by`),
which the code does not know but the properties are about. A call in
a place the protocol has none for sets `stray`. The host is not part of the
repository: its behaviour is what the agents assume of it, marked external in
the map.

**ForkServer.** `guest.parent` and `guest.child` are the program counters of the
two processes, `status` what waitpid() has returned, `out` what the target has
done, `fed` the payload file or stdin, `helper` a process the target forks. The
actions follow `forkserver()` from top to bottom (Setup, AgentInit, AllocPayload,
DetectRanges, Fork, Reap, ReportStatus, ParentRelease), the child's branch of it
(ChildAcquire, ChildFeed), the exit handler (SnapshotReload), what the target may
do (TargetExit, TargetDies, TargetStops, TargetForks) and what a process of the
target's does with the inherited handler and LD_PRELOAD (HelperExit, HelperExec).
The end of loader.sh is LoaderAbort. The two boolean constants of the source,
`allow_persistent` and `stdin_mode`, are constants of the model.
The guest has a Nyx CPU with PT, so that the exit handler's `hypercall()` reaches the
host. The text the code prints, setrlimit() and the redirections that are compiled out
are left out. The failing calls are named in `Faults`; those the code does not look at go
on: "alloc" (malloc_resident_pages()) without a buffer, "splice" (vmsplice(), dup2()) with a part of
the payload, or none of it, in the target's stdin.

**AgentLoop.** The agents of Zephyr, UEFI, Windows and macOS are straight-line code
around one call of the target. Each is therefore a sequence of operations
(`Zephyr`, `UefiApp`, `UefiDxe`, `VulnTest`, `SelfFuzz`, `Gdiplus`, `LoadFont`,
`MacOS`) in the order of its source, and one action per operation says what it does; a
loop jumps to the place where the next payload is asked for, two of the Windows
agents return. Faults of the target go to the handlers, of which only Zephyr's tells
an oops from other faults and those of the legacy agents report only the exceptions
they know (and only if they could be installed). The `Legacy` agents share their header with
the fuzzer and never ask the host for its configuration, so the host starts in either
mode with a payload of their size. `gdiplus.cpp` writes its payload
into a file that may be there already (block 0). The macOS sequence is the loader up to
its "fork", then the program it executes, then the loader's waitpid() and
RELEASE; `lost` counts the programs that die and the fork()s that fail.
vuln_test.c and the macOS loader look up the panic functions of their kernel themselves
(`Resolvers`, `DoResolve`): they may find them, end without a word, or go on with an address that is 0 or
wrong. What such an address means is modelled by `guest.handler`: if it is FALSE the host
hears of no panic, and the kernel that has stopped is left to the watchdog.

**FsFuzzer.** One process with its program counter; `file`, `device` and `mounts` are
what it leaves in the kernel. The first round runs before the first payload,
in the host's phase "boot", as in the source. A umount2() that fails leaves `mounts` as it is, in the
first round also for the snapshot.

**BootChain.** `at` is how far the guest has come from init to its campaign, to
being switched off, or to a shell. The scripts are lists of commands (`Text`), one
action each, with the file a command is about and what hget has left of it (nothing,
empty, a part, the whole). `len` is how many commands of agent.sh were fetched: loader.sh
runs what there is. A last line that was cut is taken for one that is not there. A campaign is
one state here; what happens in it is the matter of ForkServer and FsFuzzer, whose
end of the VM (`LoaderAbort`) is the end of loader.sh in this module.

**TestDriver.** The service manager loads and unloads the driver, two halves
each, other drivers come and go, and the harness opens the device, lists the drivers
twice and executes payloads, all interleaved. Each load has a number, so that a device,
a name, a handle or an image can be traced to the load it belongs to. IoDeleteSymbolicLink() may
fail, unnoticed, so that the name outlives its device (`DeleteNode`). Of the systems it is assumed that
they open no device of a driver that is not loaded (`Openable`), make no second name where there is one, and
that Windows does not unload a driver under an open handle.

**Ranges.** Addresses are numbers below `Top` and the rounding wraps there, as
`uint64_t` does at 2^64. The tool reads one argument, or one line of the maps,
per step.

**FileTransfer.** A file is a sequence of numbered blocks, a missing one the
empty set. Each turn of a chunk loop is a step; the host keeps the position in the
file it sends, since the request carries none. Another process may append to the
local file at any time.

**FuzzCampaign.** No processes, no hypercalls: a payload starts, its outcome is
decided once, and one fitting verdict is given. The mapping takes the host's
phase to the stage; an execution that is restored and continued with the next
payload is a Verdict that stays in "running". The modules differ in `Outcomes`
and in `Fitting`, the pairs of verdict and outcome that are right.

## Runs

| Run | What it shows | Bounds |
|---|---|---|
| `forkserver_reload` | Reload mode, as it is built, but fed through the pipe (`stdin_mode`, which is 0 as built, forkserver.c:39). Types, verdicts that only a helper can make wrong, payloads fit the buffer, the target reads a beginning of its payload at worst, one fork per campaign, every payload is judged, the campaign ends, FuzzCampaign | 3 payloads of 1 to 3 blocks, a pipe of 1 block, four hosts, every setup call may fail and so may vmsplice() and dup2(), targets may stop, hang and fork |
| `forkserver_persistent` | The other value of `allow_persistent`, with the payload file (`stdin_mode` as built), which is rewritten for each payload: fitting verdicts, no double release, FuzzCampaign | the same, targets do not fork |
| `forkserver_helpers` | `allow_persistent`, with processes of the target, perhaps no payload buffer, and without the host's watchdog: only those cut an execution short, and a target that has ended is judged | 3 payloads |
| `forkserver_nested` | violation, see below | 2 payloads |
| `agents` | The eight agents of AgentLoop in the modes they offer | 3 payloads, hosts with a buffer below, at and above PAYLOAD_MAX_SIZE, 2 programs or fork()s lost |
| `vuln_test_persistent` | violation, see below | |
| `fs_fuzzer_rounds` | A mount shows its payload and zeros of the first round, never an earlier payload; each round starts with the mounts, the file and the device of the snapshot; FuzzCampaign | 3 payloads of 1 to 4 blocks around the 3 of the first round, short writes, any call may fail, those it ignores as well |
| `fs_fuzzer_capacity` | violation, see below | 1 payload |
| `boot_chain` | Every script: a guest that boots loader.sh comes to a campaign or is switched off; a campaign has its module | all six scripts and none, all CPU types, any set of files on the host, seven calls that fail, any part of agent.sh fetched |
| `test_driver` | Loading and unloading over and over: the name of a loaded driver leads to it, and no other is there but one that Windows has not deleted; the range and the payloads are those of the driver that was opened | 3 loads, 2 other drivers, 2 failing calls, 2 payloads, 2 major numbers, ARRAY_SIZE 5 |
| `ranges_pages` | Fewest pages; no range is turned round but one that ends in the last page | four pages of four addresses, two arguments, addresses at both ends of and within a page |
| `transfer_files` | Complete transfers lose, repeat and reorder nothing; behind the last piece of hcat comes at most the end of the piece before | files of 0 to 5 blocks, chunks of 2, three commands |

Why the bounds are enough. What an execution can inherit comes from the one
before it, from the snapshot, or from the time before the snapshot: three
payloads give an execution from the first state, one after a restore or a
return, and one after that. Three sizes give a payload shorter than, as long
as and longer than the one before. Two losses give a program that dies after a
fork() that has failed, and the reverse. Files of up to five blocks give empty files,
less than a chunk, exactly one and two chunks, and a rest; three commands
give every pair of commands and one after it. Two failing calls leave behind a device
and then fail the load after next; three loads put one load between the two; two other
drivers put one in front of and one behind the driver; five is one entry too few for a
list in which everything is loaded, and enough for every other. `MaxPayloads`, `MaxLen`, `MaxCommands`, `MaxArgs`, `MaxLost`,
`MaxLoads`, `MaxOthers` and `MaxFailures` are the only bounds that are not constants of
the code. BootChain has none: its scripts have an end.

Deadlock is checked in every run. A campaign that is over, an agent that has
gone, a guest that is off or in its shell and a command that has ended stutter (Terminated,
Quiescent, Ended, Done, Idle); any other state without a successor is an error.

### Properties

The type invariants apart, the properties say:

- VerdictFits: no crash is taken for a regular end and no regular end for a crash, in whatever
  order the exit handler, waitpid(), the fault handler and the host's timeout
  come. The code counts the kill by its own timer and a stopped child as
  regular ends, and so does `Fitting`; an exit(101) is a regular end for the exit
  handler and a sanitizer's report for the parent; the macOS loader takes every
  death of its program for a regular end.
- NoStrayHypercall: no execution is ended twice or before it has begun. Only a macOS
  program that dies, or cannot be forked, makes its loader break this.
- ReloadForksOnce: in reload mode the parent never gets back to fork() after the snapshot.
- WholePayloadFed: the target reads its payload and nothing else, and all of it, unless it comes through the
  pipe and vmsplice() or dup2() has failed; then a beginning of it.
- MountDependsOnPayload, StartsAlike: nothing of one execution is seen by another. A file system that
  umount2() has failed to unmount does not pile up; one that the first round has left stays below
  every payload alike.
- FileHoldsPayload: in reload mode GDI+ reads this payload and behind it at most what an
  earlier run has left, although the file is never truncated.
- PayloadFitsBuffer: a payload is written only into a registered buffer that holds it.
- OnlyHelpersPreempt: an execution that ends while its target runs was ended
  by a process the target has forked, or by the host.
- AgentStays and ReturnsAfterVerdict: an agent that goes leaves no payload unjudged, and one
  that the host needs does not go, but for the cases of `Abandoned`: vuln_test.c and the macOS loader
  when they find no kernel, before the first payload, and vuln_test.c behind a RELEASE that comes back.
- EveryPayloadJudged, EndedTargetJudged, CampaignEnds: liveness. CampaignEnds of the agents leaves out `Abandoned`
  and the macOS child that calls execve() for ever, as no payload follows there.
- ImplementsCampaign: the refinement, safety and liveness.
- CampaignHasItsModule, HostIsTold: the boot chain.
- NodeLeadsToDriver, BugCheckHasCause: a name that leads nowhere and a bug check need a call that has failed, and
  Windows. RangeIsTheDrivers: only a driver that is unloaded between the two queries can shift the base.
  PayloadsReachDriver: payloads come to the driver that was opened, and it panics by nothing else.
- SubmitsFewestPages, OnlyTopWraps, FetchedWhole, PushedInOrder, PrintedInOrder: the tools.

### Fairness

The forkserver and its child are processes of the guest and its scheduler runs them:
weak fairness of Parent and of Child. The agents and the harness run in
one thread: weak fairness of their steps. All agents clear or set
`agent_timeout_detection = 0`, "timeout by host", so the host's watchdog is fair
(WF of Timeout), except in `forkserver_helpers`, which shows what holds without
it. The shell runs on, and so do the commands it starts: weak fairness of
Loader \/ Commands in BootChain; that a campaign ends is not assumed there. Nothing is
assumed of a target, of its processes or of a file system that
is fuzzed: they may run for ever. The one exception is the first round of
fs_fuzzer, with a payload of its own and before the host's watchdog runs, where mount()
is assumed to come back. `TestDriver`, `Ranges` and `FileTransfer` claim safety only.

### Differences between the code and what it says

The runs that end in a violation:

- `forkserver_nested`: a program the target executes inherits LD_PRELOAD, and the
  RELEASE at the end of its `agent_init()` ends the running execution as regular.
- `vuln_test_persistent`: vuln_test.c sets `agent_non_reload_mode = 1`, with
  which its RELEASE may return; main() then ends after one regular execution, against the comment at its
  RELEASE, and the host waits for an agent that has gone.
- `fs_fuzzer_capacity`: the result of LOOP_SET_CAPACITY is not assigned, the
  check behind it tests write() once more, and a device of the old size is mounted.

Met while modelling; the models behave so, and no run is spent on them:

- `hprintf_buffer` is not terminated after fread() (nyx_agent.c:169), so the last text
  that hcat prints ends with what the chunk before it has left (PrintedInOrder: with nothing older).
- An end in the last page of the address space is rounded up to 0 by `vmcall hrange`
  (`RoundUp`); SubmitsFewestPages leaves that page out, OnlyTopWraps says that it is the only one.
- detectranges() submits a fifth mapping with id 4, which `vmcall hrange` would refuse.
- Called as `vmcall hrange`, a refused argument ends with status 0, since
  cmd_vmcall() takes -EINVAL for an unknown command (`Status`).
- Without a Nyx CPU, hget empties the file and reports success (`Requested`, `Fetched`).
- hcat of a file that cannot be opened ends with status 0 (`BeginHcat`, `DoHcat`).
- `vmcall check` comes to the line behind its habort, with the comment "won't reach"
  (vmcall.c:252), on a CPU without PT, where habort is skipped (`DoCheck`).
- driver.c:138 prints that the driver was loaded also when its link could not be created, and
  leaves the device behind (`CreateNode`); driver.c:125 deletes a device that was never
  created (`CreateDevice`); driver.c:104 ignores that the link could not be deleted (`DeleteNode`); handleIrp() reads the IRP after it has completed it (driver.c:97).
- resolve_KeBugCheck() ends the process without a word to the host, which waits, or goes on with what
  GetProcAddress() made of a missing name, and get_kernel_symbol_addr() with what fgets() did not read (`DoResolve`).
- set_ip_range() submits the base of another driver if one is unloaded between its two queries (`SubmitRange`).
- The results of vmsplice() and dup2() (forkserver.c:261-262) and of umount2() (fs_fuzzer.c:192) are ignored.
- The macOS loader releases for a fork() that has failed, and calls execve() for ever
  when what it was sent is no program (`DoReap`, `DoLoad`).
- In persistent mode the file of gdiplus.cpp keeps the tail of a longer payload.
- In persistent mode the RELEASE of a nested forkserver returns while the target whose
  execution it has ended still runs; if that never ends, nobody asks for the next
  payload, and the host, which watches over executions only, waits. So
  `forkserver_persistent` checks FuzzCampaign without helpers.

## Proofs

Each of the modules below EXTENDS the one it is about and proves its theorems for
all values of the constants that the named ASSUMEs admit (HostAssumption,
ForkServerAssumption, FsFuzzerAssumption, AgentAssumption, RangesAssumption,
TestDriverAssumption, BootAssumption, FileTransferAssumption; TLC evaluates them in
the runs). So the numbers and sizes of payloads, files, chunks, pages, loads
and failures are no longer bounded by what TLC can enumerate. Except where it is said otherwise,
an invariant is shown by Init => IInv, IInv /\ [Next]_vars => IInv' and IInv => Inv,
with a lemma per action.

**What carries the proofs about agents.** A hypercall continues with the caller's
state or with the snapshot's; lemmas on the operators of NyxHost say once what is
true of both. VerdictFits is not inductive: whether a verdict fits depends on where the
processes are. The invariants therefore say which place of the code goes
with which phase of the host, what is then known of the outcome, and the
same of every snapshot that may be restored.

`ForkServer_proofs`:

- **TypeCorrect**: []TypeOK, with helpers and all faults. TypeInv adds that the guest of
  an ended child has an outcome, which Reap needs.
- **VerdictsFit**: []VerdictFits, if the target forks no process (`~ Helpers`) and the payload
  buffer could be allocated. **HypercallsInOrder**: []NoStrayHypercall, if it forks none. Neither holds
  with helpers (`forkserver_nested`); without the buffer the child dies before its target and the
  forkserver reports a crash, but even then no hypercall is out of order. IInv is `Placed` (which parent
  and child can be where in which phase) and `Known` (what is then known of the outcome), both
  for the guest and for the snapshot. The core is JudgeSound: a fitting verdict keeps IInv, because what
  runs next is a sound snapshot or a caller that is sound between two executions.
- **HandshakeIsHarmless**, **ExecutionsAreBounded**, **WaitsAreWatched**: see below.

`ForkServerHelpers_proofs`, with any helpers. With them the phase of the host says little of
where the processes are, since a helper may have released the execution. HInv
(TypeInv, GuestOK, HostOK) relates the guest to itself: what the parent and the child report
depends on the guest alone, and a snapshot holds a child that has just been forked.

- **ForkedOnce** (ReloadForksOnce), **PayloadFedWhole** (WholePayloadFed), **OthersPreempt**
  (OnlyHelpersPreempt), with no assumption on helpers, on the allocation or on vmsplice().
- **PayloadsFit** (PayloadFitsBuffer), if the buffer could be allocated. `Roomy` says where in setup the
  size and the buffer are known to be right; behind the snapshot nobody registers another one.
- **WaitsAreWatchedInReload**: see below.
- **StepsAreOfCampaign**: the safety part of ImplementsCampaign, if the buffer could be allocated. The
  initial states map to initial states, and every step, of helpers and of the watchdog
  too, to a step of FuzzCampaign or a stutter.

`FsFuzzer_proofs`: **TypeCorrect**, **RoundsStartAlike**, **MountsOwnPayload**,
**StepsAreOfCampaign**. The harness does not offer persistent mode, so every verdict restores the snapshot
behind the first round. IInv (HostOK, Saved, GuestOK) says that the snapshot was taken with a file of zeros and
nothing mounted, or with what umount2() has failed to unmount in the first round, and that an execution adds one mount
at most to that, and the blocks of one payload.

`AgentLoop_proofs`: **TypeCorrect**, **VerdictsFit**, **HypercallsInOrder**, **PayloadsFit**,
**HostIsNotLeft**, **ReturnsJudged**, **FileHolds** and **StepsAreOfCampaign**, for
all eight agents. A first part says at which places of each text an operation stands
(lemmas on `OpAt`); the second speaks of places only. IInv has `Where` (the phase at each place), `Known`
(the outcome), `Prepared` (the buffer and the host that were checked) and `FileOK` (zeros before
an execution, then zeros and blocks of this payload). The only way to a stray hypercall is
a program that the macOS loader has lost. HostIsNotLeft rests on the last line of `Where`: a process
that has ended is in an execution, or one of those of `Abandoned`.

`TestDriver_proofs`: **TypeCorrect**, **NamesLeadToDrivers**, **LoadingIsHarmless**,
**RangeOfDriver**, **PayloadsArrive**, **LeftNamesAreFinal**. IInv is TypeInv; `Owned` (a driver that is
loaded has its device and its name, and another name is there only on Windows after a call that has failed); `Clean` (before any call
has failed, no other device is there and no bug check); `Stopped` (a bug check is in a load that is given up, on
Windows); `Held` (a handle keeps its driver loaded); `Listed` (at
most one image is the driver's, that of its last load); `Ranged` (no range before one is
submitted, and then the driver's); PayloadsReachDriver.

`BootChain_proofs`, for the scripts of the repository and any script a user may write, cut
anywhere: **TypeCorrect** and **CampaignsHaveTheirModule** (IInv is TypeOK, `Placed`, which ties the
stage to the next command, and `ModuleInv`, the module behind the insmod of dvkm).

`Ranges_proofs`: **FewestPagesSubmitted** and **OneRangeWraps** (OnlyTopWraps), for every page size
and address space. Division with remainder gives RoundDownPage and RoundUpPage; an
induction over the steps carries them to all that was submitted.

`FileTransfer_proofs`: **GetsWholeFile**, **PushesInOrder**, **PrintsInOrder**. IInv says after any number of
chunks what has been moved: `Getting` (what lies in the guest is what the host is
past), `Pushing` (the dump is what was there, followed by what was read), `Printing` (all texts but the last are
full, so the place of a block in the file gives its text and its place in it; what is behind the last block is the
text before). `Adjacent` and
`TextPlaces` are the facts on sequences and on division they rest on.

**Progress.** Liveness needs fairness and ENABLED and stays with TLC, but the parts of it that
are first-order hold for all constants. The formulas stand in the proof modules, as no run lists
them; TLC found them to hold on the instances of the runs before they were proved.

- BoundedExecution, BoundedRounds: every step that is not a stutter records a verdict, powers the guest
  off, or lowers a rank. So from one verdict to the next there are at most 53 steps of the forkserver
  (without helpers), 30 of an agent, 7 of fs_fuzzer (21 from power-on): none of them has a loop
  that does not pass the host. The macOS loader turns without a verdict when it loses a program, which
  the theorem says (`lost' > lost`).
- WatchdogCoversWaits, TargetIsWatched: where a process may stay for ever, in a target or
  waiting for a child, an execution is on and the host watches the time. In the forkserver this holds without
  helpers (**WaitsAreWatched**), and with them in reload mode (**WaitsAreWatchedInReload**); in persistent
  mode with helpers it does not, which is why `forkserver_persistent` checks FuzzCampaign without them.
- HandlersCover: an agent that is gone while an execution is on is a GDI+ one with an exception that
  exc_handle() does not forward, or one that had to put its handler in place itself, whose snapshot was taken
  without it (**FaultsAreHandled**). HandledInv says that the handler of the guest is that of the snapshot.
- OnlyForward (**BootsForward**): the boot comes further in loader.sh or in agent.sh with each step.
- LoopsAdvance (**LoopsComeToAnEnd**): the chunk loops come further within the file with each chunk.

What these leave to TLC is the step from a rank that falls, under weak fairness of the processes and
of the watchdog, to a verdict that comes.

**The scope of the findings.** What the runs that end in a violation violate is proved to hold
where the finding does not apply: **HandshakeIsHarmless** (HandshakeEndsNoExecution without helpers),
**OnlyCapacityMisleads** (MountSeesWholeFile if LOOP_SET_CAPACITY does not fail, whatever else
does), **ReloadReallyResets** (ResetsAtRelease in reload mode). Likewise **FailedLoadsAreFinal**: the device that a failed load
leaves behind is there for good, and the next load of the driver is a bug check; and **LeftNamesAreFinal**: the link that
was not deleted is there for good, and no driver is loaded any more.

Model-checked only: all liveness, with the liveness part of ImplementsCampaign: EveryPayloadJudged,
EndedTargetJudged, CampaignEnds, HostIsTold. The violations are TLC's, too.

## Not modelled

- Hypercalls no agent here relies on (redqueen, dump of kernel tables, temporary
  snapshots, the hypertrash calls), and the host beyond what agents assume of it.
- macOS `info.c` and `drop_VA()` of gdiplus.cpp: each prints a table and changes nothing
  the rest depends on. `set_payload()`: only compiled for runs without kAFL.
- setrlimit() with a structure that is never assigned, in the forkserver: the
  value decides only which allocations of the target fail.
- The alignment of the UEFI buffers, and AllocatePages() returning NULL (the payload
  would be read from address 0, which UEFI maps).
- The pages that submit_ip_ranges() of selffuzz_test.c locks; handleIrp()'s read of
  the IRP behind IoCompleteRequest(), as what memory then holds is the kernel's matter.
- Names, modes and directories of hget, and its scratch buffer that cannot be allocated.
- The text of messages; the scripts that build images and provision machines.
- The targets: for an agent, a target is anything that returns, fails or hangs.

## Plan

Done: NyxHost, FuzzCampaign, ForkServer, FsFuzzer, Ranges and FileTransfer; AgentLoop with
the agents of Zephyr, UEFI, Windows (the legacy ones, too) and macOS; PayloadFile; BootChain;
TestDriver. Every invariant and every action property that a passing run checks is proved, and so are the
safety parts of the three refinements, what bounds the steps between two verdicts, and where the three
findings do not apply.

Left:

1. Several files in one model of file transfer, with the position of the host per file, as soon as it is
   known whether the host resets it; hget with a failing allocation.
2. The composition of BootChain with ForkServer and FsFuzzer: there, the end of a harness is one
   step of each.
3. The UEFI harness without its buffer.
4. Proofs: in which modes BoundedExecution survives a target that forks, with a rank that counts its helpers.
