----------------------------- MODULE AgentLoop -----------------------------
(***************************************************************************)
(* The agents that execute payloads in their own thread: Zephyr, the UEFI  *)
(* application and DXE harnesses, the Windows agents, and the macOS loader *)
(* with the fuzzer it executes.  Each of them is a fixed order of          *)
(* hypercalls around one call of its target, so each is given by that      *)
(* order; the actions below say what one element of it does.               *)
(***************************************************************************)
EXTENDS NyxHost, PayloadFile

CONSTANTS
  Agents,      \* the agents to consider
  PayloadMax,  \* PAYLOAD_MAX_SIZE, PAYLOAD_SIZE of the legacy agents; in blocks
  MaxLost      \* bound: programs that die, and fork()s of the loader that fail

\* The legacy agents share their header with the fuzzer and do not ask the host
\* for its configuration.
Legacy == {"gdiplus", "loadfont", "macos"}

ASSUME AgentAssumption ==
  /\ Agents \subseteq Legacy \union {"zephyr", "uefi_app", "uefi_dxe", "vuln_test", "selffuzz"}
  /\ PayloadMax \in Nat
  /\ MaxLost \in Nat

VARIABLES
  agent,  \* the agent that this guest runs
  lost    \* the programs that have died or could not be forked

vars == <<agent, lost, guest, conf, phase, mode, buffer, snap, input, log, stray>>

---------------------------------------------------------------------------
\* The agents.  "inform": calls the host only takes note of (LOCK, SUBMIT_CR3,
\* SUBMIT_PANIC, USER_SUBMIT_MODE, USER_RANGE_ADVISE).  "require": something
\* whose failure the agent answers with habort.
Handshake == <<"acquire", "release">>
Execution == <<"next", "acquire", "target", "release">>

\* agent_init() and agent_run().
\* Variants: no loop; main() returns after one execution.
Zephyr_NoLoop ==
  Handshake \o <<"inform", "check", "offer_persistent", "get_payload">> \o Execution
Zephyr_Once ==
  Handshake \o <<"inform", "check", "offer_persistent", "get_payload">>
    \o Execution \o <<"return">>
Zephyr ==
  Handshake \o <<"inform", "check", "offer_persistent", "get_payload">>
    \o Execution \o <<"loop">>

\* agent_init() and agent_run() of kAFLAgentLib.  Variant: no RELEASE.
UefiApp_NoRelease ==
  Handshake \o <<"check", "offer_persistent", "get_payload", "inform">>
    \o <<"next", "acquire", "target">> \o <<"loop">>
UefiApp ==
  Handshake \o <<"check", "offer_persistent", "get_payload", "inform">>
    \o Execution \o <<"loop">>

\* HarnessInit() when the driver is loaded, HarnessRun() when the application
\* calls the protocol.
UefiDxe ==
  Handshake \o <<"check", "offer_persistent", "get_payload">> \o Execution \o <<"loop">>

\* main() of vuln_test.c: the device, the handshake, resolve_KeBugCheck().
\* Variant: a return before RELEASE.
VulnTest_NoRelease ==
  <<"require">> \o Handshake
    \o <<"inform", "check", "offer_persistent", "resolve", "inform", "get_payload", "require">>
    \o <<"next", "acquire", "target">> \o <<"return">>
VulnTest ==
  <<"require">> \o Handshake
    \o <<"inform", "check", "offer_persistent", "resolve", "inform", "get_payload", "require">>
    \o Execution \o <<"return">>

\* main() of selffuzz_test.c: the buffer of the size the host asks for must be
\* locked into memory, and so must the code.  Variant: the flag of vuln_test.c.
SelfFuzz_Persistent ==
  <<"inform">> \o Handshake
    \o <<"inform", "require", "get_payload", "inform", "offer_persistent", "inform", "require">>
    \o Execution \o <<"return">>
SelfFuzz ==
  <<"inform">> \o Handshake
    \o <<"inform", "require", "get_payload", "inform", "no_persistent", "inform", "require">>
    \o Execution \o <<"return">>

\* main() of gdiplus.cpp, where the payload is a file, and of gdiplus_loadfont.cpp.
\* Their buffer and the ranges the host advises must be locked into memory.
LegacySetup == <<"inform", "handler", "require", "get_payload", "inform", "require", "inform">>
Gdiplus  == LegacySetup \o <<"fast_acquire", "write_file", "target", "release", "loop">>
LoadFont == LegacySetup \o <<"fast_acquire", "target", "release", "loop">>

\* main() of loader.c up to its "fork"; from there to "reap" main() of the program
\* that the host has sent, fuzzer/vuln_test.c.
MacOS ==
  <<"resolve", "inform">> \o Handshake \o <<"inform", "inform", "load", "fork", "get_payload", "inform">>
    \o Execution \o <<"loop", "reap", "spin">>

Program == CASE agent = "zephyr"    -> Zephyr
             [] agent = "uefi_app"  -> UefiApp
             [] agent = "uefi_dxe"  -> UefiDxe
             [] agent = "vuln_test" -> VulnTest
             [] agent = "gdiplus"   -> Gdiplus
             [] agent = "loadfont"  -> LoadFont
             [] agent = "macos"     -> MacOS
             [] OTHER               -> SelfFuzz

PcOf(op) == CHOOSE i \in 1..Len(Program) : Program[i] = op

\* The loops begin where the next payload is asked for.  Variant: behind it.
Asks == {"next", "fast_acquire"}
LoopStart_AtAcquire == 1 + CHOOSE i \in 1..Len(Program) : Program[i] \in Asks
LoopStart == CHOOSE i \in 1..Len(Program) : Program[i] \in Asks

\* The agents that look up the addresses of the kernel's panic handlers themselves.
Resolvers == {"vuln_test", "macos"}

\* The buffer an agent registers: an array of PAYLOAD_MAX_SIZE bytes, or one of
\* the size the host has asked for.
BufferOf == IF agent = "selffuzz" THEN "exact" ELSE "array"
BufferSize == CASE buffer = "array" -> PayloadMax
                [] buffer = "exact" -> conf.size
                [] OTHER            -> 0

\* The faults of a target: only Zephyr tells an oops from the others, and only the
\* legacy Windows agents run with exceptions ("other") that nothing reports.
FaultsOf == CASE agent = "zephyr"                  -> {"oops", "fault"}
              [] agent \in {"gdiplus", "loadfont"} -> {"fault", "other"}
              [] OTHER                             -> {"fault"}

\* write_payload_file(): OPEN_ALWAYS leaves what the file holds, WriteFile() starts
\* at its beginning.  Variant: it is opened to append.
WritePayloadFile_Append(old) == old \o Blocks(input)
WritePayloadFile(old) == Overwrite(old, Blocks(input))

\* k_sys_fatal_error_handler(); the patched exception handler of EDK2; the bug
\* check of Windows, and panic() of selffuzz_test.c.
\* Variant: no case for the oops.
HandlerVerdict_AllPanic(fault) == "crash"
HandlerVerdict(fault) == IF fault = "oops" THEN "kasan" ELSE "crash"

\* The checks of host_config.  Variant: magic and version only.
HostAccepted_AnySize == conf.magic /\ conf.version
HostAccepted == conf.magic /\ conf.version /\ conf.size <= PayloadMax

---------------------------------------------------------------------------
\* guest: the next element of the program, 0 once the process has ended; what the
\* target has made of the payload; whether a fault handler is in place; and the
\* payload file, which may be left from a run before (block 0).
Init ==
  /\ agent \in Agents
  /\ lost = 0
  /\ guest \in [pc : {1}, out : {"running"},
                handler : {agent \notin {"gdiplus", "loadfont"} \union Resolvers},
                file : {<<>>} \union (IF agent = "gdiplus" THEN {<<0, 0, 0>>} ELSE {})]
  /\ IF agent \in Legacy THEN HostStarts(Modes) /\ conf.size = PayloadMax ELSE HostInit

At(op) == PoweredOn /\ guest.pc > 0 /\ Program[guest.pc] = op
Going  == [guest EXCEPT !.pc = @ + 1]

DoInform == At("inform") /\ Inform(Going)

DoAcquire == At("acquire") /\ Acquire(Going)

DoRelease == At("release") /\ Release(guest.out, "agent", Going)

DoCheck ==
  /\ At("check")
  /\ IF HostAccepted THEN Inform(Going) ELSE UserAbort

\* SET_AGENT_CONFIG with agent_non_reload_mode set, or not.
DoOfferPersistent == At("offer_persistent") /\ SetAgentConfig(TRUE, Going)
DoNoPersistent    == At("no_persistent") /\ SetAgentConfig(FALSE, Going)

DoRequire == At("require") /\ (Inform(Going) \/ UserAbort)

\* resolve_KeBugCheck(), get_kernel_symbol_addr(): the addresses may be the right
\* ones; they may be 0 or wrong, with which the agent goes on as well (the host then
\* hears of no panic); or the process ends without a word, by ExitProcess(0) or on
\* the pipe that popen() did not open.
DoResolve ==
  /\ At("resolve")
  /\ \/ Inform([Going EXCEPT !.handler = TRUE])
     \/ Inform(Going)
     \/ Inform([guest EXCEPT !.pc = 0])

DoGetPayload == At("get_payload") /\ GetPayload(BufferOf, Going)

DoNext == At("next") /\ NextPayload([Going EXCEPT !.out = "running"])

DoFastAcquire == At("fast_acquire") /\ FastAcquire([Going EXCEPT !.out = "running"])

\* AddVectoredExceptionHandler(): that it has failed is only printed.
DoInstallHandler ==
  /\ At("handler")
  /\ \/ Inform([Going EXCEPT !.handler = TRUE])
     \/ Inform(Going)

\* CreateFileA() fails and aborts; WriteFile() fails and nobody looks.
DoWriteFile ==
  /\ At("write_file")
  /\ \/ Inform([Going EXCEPT !.file = WritePayloadFile(@)])
     \/ Inform(Going)
     \/ UserAbort

\* The target returns, or runs into a fault that the handler reports.
TargetReturns ==
  /\ At("target") /\ guest.out = "running"
  /\ Inform([Going EXCEPT !.out = "return"])
TargetFaults ==
  /\ At("target") /\ guest.out = "running"
  /\ \E f \in FaultsOf : Inform([guest EXCEPT !.out = f])

\* The fault handler; it never gets to k_fatal_halt().
DoFaultHandler ==
  /\ At("target") /\ guest.handler /\ guest.out \in {"oops", "fault"}
  /\ Report(HandlerVerdict(guest.out), guest.out, "agent")

\* An exception that exc_handle() does not forward, or with no exc_handle() there,
\* ends the process; a panic whose address the host was not told stops the kernel.
UnhandledException ==
  /\ At("target")
  /\ \/ guest.out = "other"
     \/ guest.out = "fault" /\ ~ guest.handler
  /\ Inform([guest EXCEPT !.pc = 0])

DoLoop   == At("loop") /\ Inform([guest EXCEPT !.pc = LoopStart])
DoReturn == At("return") /\ Inform([guest EXCEPT !.pc = 0])

---------------------------------------------------------------------------
\* The macOS loader.

\* load_program() looks at no result: what it has written may be no program, and
\* the child of execute_program() then calls execve() for ever.
DoLoad ==
  /\ At("load")
  /\ \/ Inform(Going)
     \/ Inform([guest EXCEPT !.pc = PcOf("spin")])

\* fork() and execve(): the program takes over.
DoFork == At("fork") /\ Inform(Going)

\* The loader's RELEASE, when waitpid() has returned for whatever reason.
DoReap == At("reap") /\ Release(guest.out, "loader", [guest EXCEPT !.pc = PcOf("fork")])

\* fork() returns -1, which the loader takes for a child; waitpid() has none.
ForkFails == At("fork") /\ Inform([guest EXCEPT !.pc = PcOf("reap")])

\* The program is killed: the hypercalls it still owed are never made.
ProgramDies ==
  /\ PoweredOn /\ agent = "macos"
  /\ guest.pc \in PcOf("fork") + 1 .. PcOf("reap") - 1
  /\ guest.out # "fault"
  /\ Inform([guest EXCEPT !.pc = PcOf("reap"),
               !.out = IF phase = "exec" /\ @ = "running" THEN "died" ELSE @])

Loses == lost < MaxLost /\ lost' = lost + 1 /\ (ForkFails \/ ProgramDies)

---------------------------------------------------------------------------
Timeout == HostTimeout(guest.out)

\* The agent has ended, or will never make another hypercall.
Gone == guest.pc = 0 \/ At("spin")

\* The campaign is over, or the agent has gone and the host waits.
Quiescent == (~ PoweredOn \/ Gone) /\ UNCHANGED <<guest, hostVars>>

Agent == DoInform \/ DoAcquire \/ DoRelease \/ DoCheck \/ DoOfferPersistent
           \/ DoNoPersistent \/ DoRequire \/ DoResolve \/ DoGetPayload \/ DoNext
           \/ DoFastAcquire \/ DoInstallHandler \/ DoWriteFile \/ DoFaultHandler
           \/ DoLoop \/ DoReturn \/ DoLoad \/ DoFork \/ DoReap
Target == TargetReturns \/ TargetFaults \/ UnhandledException

Next ==
  \/ (Agent \/ Target \/ Timeout \/ Quiescent) /\ UNCHANGED <<agent, lost>>
  \/ Loses /\ UNCHANGED agent

\* The agent's code runs on; the target may not; the host's watchdog is there.
Fairness ==
  /\ WF_vars(Agent /\ UNCHANGED <<agent, lost>>)
  /\ WF_vars(Timeout /\ UNCHANGED <<agent, lost>>)

Spec == Init /\ [][Next]_vars /\ Fairness

---------------------------------------------------------------------------
\* Properties.

Outcomes == {"return", "oops", "fault", "other", "died"}

\* Every field and variable has a value the program can give it; the snapshot is
\* taken where a payload is asked for.
TypeOK ==
  /\ agent \in Agents /\ lost \in 0..MaxLost
  /\ guest \in [pc : 0..Len(Program), out : Outcomes \union {"running"},
                handler : BOOLEAN, file : Seq(Nat)]
  /\ conf \in HostConfigs /\ phase \in Phases /\ mode \in Modes /\ stray \in BOOLEAN
  /\ buffer \in {"none", "array", "exact"}
  /\ snap \subseteq [guest : [pc : 1..Len(Program), out : {"running"}, handler : BOOLEAN,
                             file : Seq(Nat)],
                    phase : {"ready", "exec"}]
  /\ input \in [id : Nat, size : Nat]
  /\ log \in Seq([id : Nat, verdict : Verdicts, why : Outcomes \union {"running"},
                  by : {"agent", "loader", "host"}])

\* The verdicts an outcome may have.  The macOS loader takes every end of its
\* program for a regular one; an exception that nothing reports ends in a timeout.
Fitting ==
  {<<"ok", "return">>, <<"ok", "died">>, <<"crash", "fault">>, <<"kasan", "oops">>}
    \union ({"timeout"} \X (Outcomes \union {"running"}))

\* Every verdict fits what the target did, with the fault handler, RELEASE (of the
\* agent or of the loader) and the host's watchdog in any order, in reload and in
\* persistent mode.
VerdictFits == \A i \in 1..Len(log) : <<log[i].verdict, log[i].why>> \in Fitting

\* The hypercalls of the loop come in the order the host expects in either mode:
\* after RELEASE there is always a NEXT_PAYLOAD before the next ACQUIRE.  Only a
\* program that dies, or is never forked, makes the macOS loader break it.
NoStrayHypercall == stray => lost > 0

\* When a payload is in the buffer, the buffer has been registered and is large
\* enough for whatever the host may write (zephyr main.c:61, "reserved guest
\* memory must be at least as large as host SHM view").
PayloadFitsBuffer ==
  phase \in {"ready", "exec"} => buffer # "none" /\ input.size <= BufferSize

\* The agents that leave a host that waits: the ones that find no kernel, before the
\* first payload, and vuln_test.c after a RELEASE that comes back, see ResetsAtRelease.
Abandoned ==
  /\ guest.pc = 0
  /\ \/ agent \in Resolvers /\ phase = "boot"
     \/ agent = "vuln_test" /\ phase = "idle"

\* As long as the host is on, an agent is there to execute its payloads, or the
\* watchdog will bring it back: one without a loop must never get behind its
\* RELEASE, and none may end before its first payload.
AgentStays == guest.pc = 0 => ~ PoweredOn \/ phase = "exec" \/ Abandoned

\* vuln_test.c:268 says of its RELEASE: "Will reset back to start of snapshot
\* here".
ResetsAtRelease ==
  agent = "vuln_test" /\ snap # {} /\ guest.out = "return" => guest.pc # 0

\* An agent whose main() returns leaves no payload it was given without a verdict,
\* whether RELEASE came back to it or not.
ReturnsAfterVerdict ==
  guest.pc = 0 /\ guest.out \notin {"fault", "other"} => Len(log) = input.id

\* In reload mode GDI+ reads a file that begins with this payload and goes on with
\* nothing of any other, although write_payload_file() never truncates it; or it
\* reads the file of the snapshot, when the write has failed.
FileHoldsPayload ==
  mode = "reload" /\ agent = "gdiplus" /\ At("target") =>
    \/ \E s \in snap : guest.file = s.guest.file
    \/ /\ SubSeq(guest.file, 1, input.size) = Blocks(input)
       /\ \A i \in 1..Len(guest.file) : guest.file[i] \in {0, input.id}

\* Every campaign comes to its last payload, or is aborted: no agent that stays
\* gets stuck between two executions, not even a macOS program that dies.  A
\* program that cannot be executed at all is never heard of.
CampaignEnds == <> (~ PoweredOn \/ At("spin") \/ Abandoned)

\* The agents keep the promise of FuzzCampaign; one that has gone has given up.
Campaign == INSTANCE FuzzCampaign WITH
  stage    <- CASE phase = "exec" -> "running"
                [] ~ Gone /\ phase \in {"boot", "idle", "ready"} -> "waiting"
                [] OTHER -> "over",
  outcome  <- IF phase = "exec" THEN guest.out ELSE "running",
  verdicts <- [i \in 1..Len(log) |-> log[i].verdict]

ImplementsCampaign == Campaign!Spec

============================================================================
