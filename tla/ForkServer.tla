---------------------------- MODULE ForkServer ----------------------------
(***************************************************************************)
(* linux-user/forkserver/src/forkserver.c: a library that is preloaded     *)
(* into the target, takes the place of its main() and executes the target  *)
(* in forked children, one per payload.                                    *)
(*                                                                         *)
(* The processes are the forkserver (the parent), the child that becomes   *)
(* the target and, if the target forks itself, a helper: it inherits the   *)
(* exit handler of the child and, through the environment, LD_PRELOAD.     *)
(* All of them are part of the guest and are replaced together when the    *)
(* host restores its snapshot.                                             *)
(***************************************************************************)
EXTENDS NyxHost, PayloadFile

CONSTANTS
  allow_persistent,  \* forkserver.c: const bool, meant to come from getenv()
  stdin_mode,        \* forkserver.c: feed the target through a pipe
  PayloadMax,        \* PAYLOAD_MAX_SIZE, in blocks
  PipeCapacity,      \* blocks that fit into a pipe nobody reads
  Helpers,           \* TRUE: the target may fork a process of its own
  Stops,             \* TRUE: the target may be stopped by a signal
  Faults             \* the calls that may fail

ASSUME ForkServerAssumption ==
  /\ allow_persistent \in BOOLEAN /\ stdin_mode \in BOOLEAN
  /\ Helpers \in BOOLEAN /\ Stops \in BOOLEAN
  /\ PayloadMax \in Nat /\ PipeCapacity \in Nat
  /\ Faults \subseteq {"setup", "alloc", "ranges", "fork", "feed", "splice"}

vars == <<guest, conf, phase, mode, buffer, snap, input, log, stray>>

\* What a target makes of a payload: it ends by exit() or by _exit(), with the
\* code 101 of a sanitizer or another; it is killed, by the timer of the child
\* or by another signal; it is stopped.  "harness": the child never reached it.
Outcomes == {"exit", "exit101", "quit", "quit101", "crash", "vtalrm", "stop", "harness"}

ParentPCs == {"setup", "agent_init", "alloc", "ranges", "fork", "wait",
              "report", "release", "dead"}
ChildPCs  == {"none", "forked", "feed", "blocked", "main", "exiting",
              "zombie", "stopped"}

\* fed: the blocks the target finds in the payload file, or in its stdin.
Guest == [parent : ParentPCs, status : Outcomes \union {"none"},
          child : ChildPCs, out : Outcomes \union {"running"},
          helper : {"none", "running", "nested"}, fed : Seq(Nat)]

Init ==
  /\ guest = [parent |-> "setup", status |-> "none", child |-> "none",
              out |-> "running", helper |-> "none", fed |-> <<>>]
  /\ HostInit

---------------------------------------------------------------------------
\* The forkserver until its loop.

\* pipe() and dup2() of forkserver(); ERRNO_FAIL_ON aborts the VM.
Setup ==
  /\ PoweredOn /\ guest.parent = "setup"
  /\ \/ Inform([guest EXCEPT !.parent = "agent_init"])
     \/ "setup" \in Faults /\ UserAbort

\* Variant: the payload size of the host is not checked.
ConfigAccepted_NoSize == conf.magic /\ conf.version
ConfigAccepted == conf.magic /\ conf.version /\ conf.size <= PayloadMax

\* agent_init().  The handshake at its end, ACQUIRE and RELEASE, finds the
\* host in phase "boot" and changes nothing.
AgentInit ==
  /\ PoweredOn /\ guest.parent = "agent_init"
  /\ IF ConfigAccepted
     THEN SetAgentConfig(allow_persistent, [guest EXCEPT !.parent = "alloc"])
     ELSE UserAbort

\* malloc_resident_pages(), whose result is not checked, and GET_PAYLOAD.
AllocPayload ==
  /\ PoweredOn /\ guest.parent = "alloc"
  /\ \E b \in {"ok"} \union (IF "alloc" \in Faults THEN {"null"} ELSE {}) :
       GetPayload(b, [guest EXCEPT !.parent = "ranges"])

\* Variant: the payload is acquired before the fork.
DetectRanges_Acquires ==
  /\ PoweredOn /\ guest.parent = "ranges"
  /\ FastAcquire([guest EXCEPT !.parent = "fork"])

\* detectranges(): with no mapping that matches, or none to read, it aborts.
DetectRanges ==
  /\ PoweredOn /\ guest.parent = "ranges"
  /\ \/ Inform([guest EXCEPT !.parent = "fork"])
     \/ "ranges" \in Faults /\ UserAbort

---------------------------------------------------------------------------
\* The loop of forkserver(), in the parent.

\* fork(); the assertion after it kills the forkserver if it fails.
Fork ==
  /\ PoweredOn /\ guest.parent = "fork"
  /\ \/ Inform([guest EXCEPT !.parent = "wait", !.child = "forked", !.out = "running"])
     \/ "fork" \in Faults /\ Inform([guest EXCEPT !.parent = "dead"])

\* What waitpid() returns for: WUNTRACED adds the children that stop.
\* Variants: no WUNTRACED; WNOHANG, as if the parent did not wait at all.
WaitedFor_Ended == {"zombie"}
WaitedFor_NoWait == ChildPCs \ {"none"}
WaitedFor == {"zombie", "stopped"}

\* waitpid(pid, &status, WUNTRACED)
Reap ==
  /\ PoweredOn /\ guest.parent = "wait"
  /\ guest.child \in WaitedFor
  /\ Inform([guest EXCEPT !.parent = "report", !.status = guest.out,
               !.child = IF @ = "zombie" THEN "none" ELSE @])

\* WIFSIGNALED and not SIGVTALRM.
\* Variant: the timer's signal is taken for a crash.
PanicStatuses_AnySignal == {"crash", "harness", "vtalrm"}
PanicStatuses == {"crash", "harness"}

\* WEXITSTATUS is ASAN_EXIT_CODE.
\* Variant: any exit status but 0.
KasanStatuses_NonZero == {"exit101", "quit101", "quit"}
KasanStatuses == {"exit101", "quit101"}

\* The branches on status.  The timer's signal is only printed; the exit
\* status of a child that stopped is the number of the signal, not 101.
ReportStatus ==
  /\ PoweredOn /\ guest.parent = "report"
  /\ CASE guest.status \in PanicStatuses ->
            Report("crash", guest.out, "parent")
       [] guest.status \in KasanStatuses ->
            Report("kasan", guest.out, "parent")
       [] OTHER -> Inform([guest EXCEPT !.parent = "release"])

\* Variant: no RELEASE.
ParentRelease_Missing ==
  /\ PoweredOn /\ guest.parent = "release"
  /\ Inform([guest EXCEPT !.parent = "fork"])

\* The RELEASE at the end of the loop.
ParentRelease ==
  /\ PoweredOn /\ guest.parent = "release"
  /\ Release(guest.out, "parent", [guest EXCEPT !.parent = "fork"])

\* Variant: the loader ends without habort.
LoaderAbort_Missing ==
  /\ PoweredOn /\ guest.parent = "dead"
  /\ Inform(guest)

\* agent.sh ends with its target, and loader.sh calls vmcall habort.
LoaderAbort ==
  /\ PoweredOn /\ guest.parent = "dead"
  /\ UserAbort

---------------------------------------------------------------------------
\* The child.

\* atexit(snapshot_reload) and USER_FAST_ACQUIRE.
ChildAcquire ==
  /\ PoweredOn /\ guest.child = "forked"
  /\ FastAcquire([guest EXCEPT !.child = "feed"])

\* Variant: no O_TRUNC.
OpenPayloadFile_NoTrunc(old) == old
\* open(output_filename, O_RDWR | O_CREAT | O_TRUNC): what is left of the file.
OpenPayloadFile(old) == <<>>

\* Variant: iov_base is the buffer with its size field, not the data in it.
Iov_Header(p) == [i \in 1..p.size |-> IF i = 1 THEN 0 ELSE p.id]
\* What vmsplice() is given.
Iov(p) == Blocks(p)

\* The child hands the payload to the target, sets its limits and its timer and
\* calls the original main().  It dies on a buffer that could not be allocated.  The
\* results of vmsplice() and dup2() are not looked at: if one of them fails, or less
\* than the payload is spliced, the target runs on what there is in its stdin.
ChildFeed ==
  /\ PoweredOn /\ guest.child = "feed"
  /\ \/ /\ buffer = "null"
        /\ Inform([guest EXCEPT !.child = "zombie", !.out = "harness"])
     \/ /\ buffer # "null" /\ ~ stdin_mode
        /\ Inform([guest EXCEPT !.child = "main",
                     !.fed = Overwrite(OpenPayloadFile(@), Blocks(input))])
     \/ /\ buffer # "null" /\ stdin_mode
        \* vmsplice() into a pipe only this process could read blocks when full
        /\ \/ /\ input.size <= PipeCapacity
              /\ Inform([guest EXCEPT !.child = "main", !.fed = Iov(input)])
           \/ /\ input.size > PipeCapacity
              /\ Inform([guest EXCEPT !.child = "blocked"])
           \/ /\ "splice" \in Faults
              /\ \E n \in 0..PipeCapacity :
                   /\ n < input.size
                   /\ Inform([guest EXCEPT !.child = "main", !.fed = SubSeq(Iov(input), 1, n)])
     \/ "feed" \in Faults /\ UserAbort

InTarget == PoweredOn /\ guest.child = "main"

\* The target returns from main() or calls exit(): the handlers run first.
TargetExit ==
  /\ InTarget
  /\ \E o \in {"exit", "exit101"} :
       Inform([guest EXCEPT !.child = "exiting", !.out = o])

\* The target dies at once: _exit(), which a sanitizer uses after its report,
\* a fatal signal, or the timer that the child has set.
TargetDies ==
  /\ InTarget
  /\ \E o \in {"quit", "quit101", "crash", "vtalrm"} :
       Inform([guest EXCEPT !.child = "zombie", !.out = o])

TargetStops ==
  /\ Stops /\ InTarget
  /\ Inform([guest EXCEPT !.child = "stopped", !.out = "stop"])

\* Variant: the handler does not look at allow_persistent.
ReloadAtExit_Always == TRUE
ReloadAtExit == ~ allow_persistent

\* snapshot_reload(), the exit handler.
SnapshotReload ==
  /\ PoweredOn /\ guest.child = "exiting"
  /\ LET g == [guest EXCEPT !.child = "zombie"] IN
       IF ReloadAtExit THEN Release(guest.out, "child", g) ELSE Inform(g)

---------------------------------------------------------------------------
\* A process that the target forks.

TargetForks ==
  /\ Helpers /\ InTarget /\ guest.helper = "none"
  /\ Inform([guest EXCEPT !.helper = "running"])

\* exit() in the helper runs the handler it has inherited from the child.
HelperExit ==
  /\ PoweredOn /\ guest.helper = "running"
  /\ LET g == [guest EXCEPT !.helper = "none"] IN
       IF ReloadAtExit THEN Release(guest.out, "helper", g) ELSE Inform(g)

\* _exit() or a signal.
HelperDies ==
  /\ PoweredOn /\ guest.helper = "running"
  /\ Inform([guest EXCEPT !.helper = "none"])

\* exec() of a dynamically linked program: LD_PRELOAD gives it a forkserver of
\* its own, whose agent_init() ends with the handshake.
HelperExec ==
  /\ PoweredOn /\ guest.helper = "running"
  /\ Release(guest.out, "nested", [guest EXCEPT !.helper = "nested"])

\* If that RELEASE returns, the nested forkserver finds no mapping of the
\* target in its own address space.
NestedRanges ==
  /\ PoweredOn /\ guest.helper = "nested"
  /\ UserAbort

---------------------------------------------------------------------------
\* Variant: agent_timeout_detection is set, and the agent has no detection.
Timeout_ByAgent == FALSE
\* agent_timeout_detection = 0: timeout by host.
Timeout == HostTimeout(guest.out)

\* The campaign is over.
Terminated == ~ PoweredOn /\ UNCHANGED vars

Parent == Setup \/ AgentInit \/ AllocPayload \/ DetectRanges \/ Fork \/ Reap
            \/ ReportStatus \/ ParentRelease \/ LoaderAbort
Child  == ChildAcquire \/ ChildFeed \/ SnapshotReload
Target == TargetExit \/ TargetDies \/ TargetStops \/ TargetForks
Helper == HelperExit \/ HelperDies \/ HelperExec \/ NestedRanges

Next == Parent \/ Child \/ Target \/ Helper \/ Timeout \/ Terminated

\* The guest's scheduler runs the forkserver and the code it puts into the
\* child; the host's watchdog ends every execution.  Nothing is assumed of the
\* target or of its helpers: they may run for ever.
GuestFairness == WF_vars(Parent) /\ WF_vars(Child)
Fairness == GuestFairness /\ WF_vars(Timeout)

Spec == Init /\ [][Next]_vars /\ Fairness

\* The same with a host that need not call time.
SpecNoWatchdog == Init /\ [][Next]_vars /\ GuestFairness

---------------------------------------------------------------------------
\* Properties.

\* Every field and variable has a value the program can give it.
TypeOK ==
  /\ guest \in Guest
  /\ conf \in HostConfigs
  /\ phase \in Phases /\ mode \in Modes /\ stray \in BOOLEAN
  /\ buffer \in {"none", "null", "ok"}
  /\ snap \subseteq [guest : Guest, phase : Phases]
  /\ input \in [id : Nat, size : Nat]
  /\ log \in Seq([id : Nat, verdict : Verdicts, why : Outcomes \union {"running"},
                  by : {"parent", "child", "helper", "nested", "host"}])

\* The verdicts that are right for an outcome.  exit(101) is a regular end for
\* the exit handler, but the parent cannot tell it from a sanitizer's _exit(101);
\* the timer's kill and a stop count as regular ends; the host may call time at
\* any moment, even when the target has crashed and the parent not yet said so.
Fitting ==
  ({"ok"} \X {"exit", "exit101", "quit", "vtalrm", "stop"})
    \union {<<"kasan", "quit101">>, <<"crash", "crash">>}
    \union (IF allow_persistent THEN {<<"kasan", "exit101">>} ELSE {})
    \union ({"timeout"} \X (Outcomes \union {"running"}))

\* Every verdict fits what the target did with that payload, whichever process
\* or the host gives it, and in whatever order the exit handler, waitpid() and
\* the host's watchdog act: no crash is taken for a regular end, no regular end
\* for a crash, and nothing but a timeout is said of a target still running.
VerdictFits == \A i \in 1..Len(log) : <<log[i].verdict, log[i].why>> \in Fitting

\* When the target may fork, only a process other than its own can cut an
\* execution short (the inherited exit handler, the nested handshake); what the
\* child, the parent and the host say still fits.  Only a child that was given no
\* buffer dies before its target, and is taken for a crash of it.
OnlyHelpersPreempt ==
  \A i \in 1..Len(log) :
    log[i].by \in {"child", "parent", "host"} =>
      \/ <<log[i].verdict, log[i].why>> \in Fitting
      \/ buffer = "null" /\ <<log[i].verdict, log[i].why>> = <<"crash", "harness">>

\* The target reads the payload of this execution and nothing else, whatever sizes
\* came before, and all of it (open with O_TRUNC, write of size bytes); only what
\* comes through the pipe may be cut short, by a vmsplice() or dup2() that failed.
WholePayloadFed ==
  guest.child = "main" =>
    \/ guest.fed = Blocks(input)
    \/ /\ stdin_mode /\ "splice" \in Faults
       /\ \E n \in 0..PipeCapacity : n < input.size /\ guest.fed = SubSeq(Blocks(input), 1, n)

\* RELEASE, PANIC, KASAN and USER_FAST_ACQUIRE come only where an execution can
\* end or begin, from the exit handler and the parent together: no execution is
\* released twice.
NoStrayHypercall == ~ stray

\* agent_init()'s checks and the allocation hold for every payload the host
\* writes: it fits the buffer that was registered.
PayloadFitsBuffer ==
  phase \in {"ready", "exec"} => buffer = "ok" /\ input.size <= PayloadMax

\* Once a snapshot has been taken in reload mode the parent never gets back to
\* its fork(): every later execution is the same child, restored.
ReloadForksOnce ==
  [][ (mode = "reload" /\ snap # {}) => ~ (guest.child # "forked" /\ guest'.child = "forked") ]_vars

\* Every payload that is delivered is judged, whatever the target does with it,
\* even if it never ends and cannot be reached by the timer of the child.
EveryPayloadJudged ==
  \A n \in 1..MaxPayloads :
    (phase = "exec" /\ input.id = n) ~> (Len(log) >= n \/ ~ PoweredOn)

\* Once the target has ended or stopped, its execution is judged without the help
\* of the host's watchdog: the exit handler or the parent sees every way to end.
EndedTargetJudged ==
  \A n \in 1..MaxPayloads :
    (phase = "exec" /\ input.id = n /\ guest.out # "running")
      ~> (Len(log) >= n \/ ~ PoweredOn)

\* The forkserver never hangs between executions: it comes to the last payload
\* or the VM is aborted.
CampaignEnds == <> ~ PoweredOn

\* The comment of forkserver.c:116 calls the ACQUIRE and RELEASE of agent_init()
\* setting the ready state: they end no execution.
HandshakeEndsNoExecution == \A i \in 1..Len(log) : log[i].by # "nested"

\* The forkserver keeps the promise of FuzzCampaign; the processes that a target
\* may have forked also release what is still running.
Campaign == INSTANCE FuzzCampaign WITH
  Fitting  <- Fitting \union (IF Helpers THEN {"ok"} \X (Outcomes \union {"running"}) ELSE {}),
  stage    <- CASE phase = "exec" -> "running"
                [] phase \in {"boot", "idle", "ready"} -> "waiting"
                [] OTHER -> "over",
  outcome  <- IF phase = "exec" THEN guest.out ELSE "running",
  verdicts <- [i \in 1..Len(log) |-> log[i].verdict]

ImplementsCampaign == Campaign!Spec

============================================================================
